----------------------------- MODULE TreeStore -----------------------------
(***************************************************************************)
(* What a database built from XML documents promises: it only grows, a     *)
(* node is stored once, and a nesting is recorded once, of a node under    *)
(* its own parent, when both are stored.                                   *)
(***************************************************************************)
CONSTANTS Nodes, IsParent(_, _)

VARIABLES nodes, nestings

storeVars == <<nodes, nestings>>

StoreInit == nodes = {} /\ nestings = {}

AddNode(n) ==
  /\ n \notin nodes
  /\ nodes' = nodes \union {n}
  /\ UNCHANGED nestings

Nest(p, c) ==
  /\ IsParent(p, c)
  /\ {p, c} \subseteq nodes
  /\ <<p, c>> \notin nestings
  /\ nestings' = nestings \union {<<p, c>>}
  /\ UNCHANGED nodes

StoreNext ==
  \/ \E n \in Nodes : AddNode(n)
  \/ \E p, c \in nodes : Nest(p, c)

StoreSpec == StoreInit /\ [][StoreNext]_storeVars

=============================================================================
