---------------------------- MODULE MCDDoSWatcher ----------------------------
(* Small instances of DDoSWatcher for TLC. *)
EXTENDS DDoSWatcher, TLC

Form(ready, port, seuil) == [ready |-> ready, port |-> port, seuil |-> seuil]

\* A user who enters valid values, of one port or of two, or one who also gets a
\* field wrong.
ValidForm == {Form(TRUE, 80, 1)}
TwoPorts == ValidForm \union {Form(TRUE, 443, 1)}
MixedForms == ValidForm \union {Form(TRUE, 80, 0)}

Symmetry == Permutations(Sources)
WatcherSymmetry == Permutations(Watchers)

\* The window stays, nothing fails and the process runs on.
Undisturbed ==
  /\ loop = "running"
  /\ \A w \in Watchers : ~ watcher[w].stale /\ watcher[w].phase # "ended"

\* A bound of the run with many packets: a capture started in haste, with fields
\* that changed or went before it read them, gets at most HastyPackets of them.
HastyPackets == 2

HasteIsQuiet == \A w \in Watchers :
  watcher[w].edited \/ watcher[w].stale => watcher'[w].got <= HastyPackets

BoundedNext == Next /\ HasteIsQuiet

\* Fairness asks for no packet, so the bound forbids nothing it asks for.
BoundedSpec == Init /\ [][BoundedNext]_vars /\ Fairness

=============================================================================
