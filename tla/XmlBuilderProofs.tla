--------------------------- MODULE XmlBuilderProofs ---------------------------
(***************************************************************************)
(* Theorems about the database builder, for any documents, any number of   *)
(* clicks and all faults.  The two passes of generateSql are recursive     *)
(* functions, so what they write is proved by induction over the document: *)
(* a script creates tables, and then inserts each element once, a link     *)
(* directly behind the row of the child and somewhere behind that of the   *)
(* parent, all elements in document order.  This shape survives a kill or  *)
(* a full disk in the middle of the script (ScriptInv), and as statements  *)
(* are executed in order up to the first that fails, no element is stored  *)
(* before those in front of it (AllDone, StoredInOrder); the whole script  *)
(* has them all (ScriptComplete).                                          *)
(* What must be added for the database is that its rows have               *)
(* one key and one element each, that the statements before pos have been  *)
(* executed, and that the child of a link about to be executed has no link *)
(* yet (DataInv).  That tidy documents build needs a third part (TidyInv): *)
(* the first pass creates the table of every name and every relation, also *)
(* those of elements it does not reach, and the second gives out only new  *)
(* identifiers.                                                            *)
(***************************************************************************)
EXTENDS XmlBuilder, FiniteSetTheorems, SequenceTheorems,
        WellFoundedInduction, TLAPS

----------------------------------------------------------------------------
(* The inductive invariant                                                 *)

ElementTables == {<<n>> : n \in Names}

Places == UNION {{<<d, i>> : i \in Indices(Documents[d])} : d \in DOMAIN Documents}

\* The columns a statement may name.
TableCols == {TableColumns(Documents[x[1]], x[2]) : x \in Places}
RowCols == {RowColumns(Documents[x[1]], x[2]) : x \in Places}
RelationColumns(p) == <<IdColumn(p), IdColumn(<<p[1]>>), IdColumn(<<p[2]>>)>>
RelationCols == {RelationColumns(p) : p \in Names \X Names}

Creates ==
  [do : {"create"}, table : Tables, cols : TableCols \union RelationCols, garbled : BOOLEAN]
RowStatements(ids) ==
  [do : {"row"}, table : ElementTables, cols : RowCols, id : ids, of : NodeIds]
LinkStatements(ids) == [do : {"link"}, table : Names \X Names, ids : ids \X ids]
Inserts(ids) == RowStatements(ids) \union LinkStatements(ids)
Statements == Creates \union Inserts(Identifiers) \union {CutOff, NoFile[1]}

IsRow(s, k) == k \in 1 .. Len(s) /\ s[k].do = "row"
IsLink(s, k) == k \in 1 .. Len(s) /\ s[k].do = "link"

\* The link at k joins the row of the child just before it to an earlier one.
Joins(s, k) ==
  /\ k > 1 /\ IsRow(s, k - 1)
  /\ \E m \in 1 .. k - 2 :
       /\ IsRow(s, m) /\ IsParent(s[m].of, s[k - 1].of)
       /\ s[k].table = <<s[m].table[1], s[k - 1].table[1]>>
       /\ s[k].ids = <<s[m].id, s[k - 1].id>>

NodeId(d, click, i) == [doc |-> d, click |-> click, node |-> i]

\* At k is the row of element i, with all its columns and its link directly behind.
Entry(s, d, click, i, k) ==
  /\ IsRow(s, k)
  /\ s[k].of = NodeId(d, click, i)
  /\ s[k].cols = RowColumns(Documents[d], i)
  /\ Documents[d][i].up # 0 =>
       /\ IsLink(s, k + 1)
       /\ \E m \in 1 .. k - 1 :
            /\ IsRow(s, m)
            /\ s[m].of = NodeId(d, click, Documents[d][i].up)
            /\ s[k + 1].table = <<s[m].table[1], s[k].table[1]>>
            /\ s[k + 1].ids = <<s[m].id, s[k].id>>

\* All that insertData visits of document d before element n has its entry before k.
Preceded(s, d, click, n, k) ==
  \A i \in Indices(Documents[d]) : Visited(Documents[d], i) /\ i < n =>
    \E j \in 1 .. k - 1 : Entry(s, d, click, i, j)

InOrder(s) == \A k \in 1 .. Len(s) :
  IsRow(s, k) => Preceded(s, s[k].of.doc, s[k].of.click, s[k].of.node, k)

\* A script, whole or cut off.
WellFormed(s) ==
  /\ s \in Seq(Statements)
  /\ \A j, k \in 1 .. Len(s) : IsRow(s, j) /\ IsRow(s, k) /\ s[j].of = s[k].of => j = k
  /\ \A k \in 1 .. Len(s) : IsLink(s, k) => Joins(s, k)
  /\ InOrder(s)

\* All rows of a script are of one click.
RowsOfClick(s, click) == \A k \in 1 .. Len(s) : IsRow(s, k) => s[k].of.click = click

\* The identifiers given out grow by an element at most with each element visited.
CounterBound(count, b) == \A n \in DOMAIN count : n \in Names /\ count[n] \in 1 .. b

Size == Cardinality(Elements(DOMAIN Documents))

ScriptInv ==
  /\ relations \in Seq(Names \X Names)
  /\ CounterBound(counters, clicks * Size)
  /\ clicks \in 0 .. MaxClicks
  /\ WellFormed(script)
  /\ \A k \in 1 .. Len(script) : IsRow(script, k) => script[k].of.click <= clicks
  /\ pos \in 0 .. Len(script) + 1

RowOf(s) == [table |-> s.table, id |-> s.id, of |-> s.of]

RowsTyped ==
  /\ rows \subseteq [table : ElementTables, id : Identifiers, of : NodeIds]
  /\ \A r \in rows : r.of.click <= clicks

\* A key and an element belong to one row.
RowsUnique == \A r, q \in rows :
  /\ r.table = q.table /\ r.id = q.id => r = q
  /\ r.of = q.of => r = q

\* A row that the script is about to insert once more has the same key.
RowsRepeat == \A r \in rows : \A k \in 1 .. Len(script) :
  IsRow(script, k) /\ script[k].of = r.of => script[k].table = r.table /\ script[k].id = r.id

RowsExecuted == \A k \in 1 .. pos - 1 : IsRow(script, k) => RowOf(script[k]) \in rows

Ends(l, p, c) ==
  /\ p \in rows /\ p.table = <<l.table[1]>> /\ p.id = l.ids[1]
  /\ c \in rows /\ c.table = <<l.table[2]>> /\ c.id = l.ids[2]

LinksJoin == \A l \in links : \E p, c \in rows : Ends(l, p, c) /\ IsParent(p.of, c.of)

SameChild(l, m) == l.table[2] = m.table[2] /\ l.ids[2] = m.ids[2]

LinksUnique == \A l, m \in links : SameChild(l, m) => l = m

\* The child of the link to execute next was inserted by the statement before.
ChildIsFresh == IsLink(script, pos) => \A l \in links : ~ SameChild(l, script[pos])

DataInv ==
  /\ RowsTyped /\ RowsUnique /\ RowsRepeat /\ RowsExecuted
  /\ LinksJoin /\ LinksUnique /\ ChildIsFresh

\* In s is an entry for every element of document d that insertData visits.
Complete(s, d, click) ==
  \A i \in Indices(Documents[d]) : Visited(Documents[d], i) =>
    \E k \in 1 .. Len(s) : Entry(s, d, click, i, k)

\* A script that was written to the end is on the disk until the next click.
ScriptComplete ==
  building # 0 /\ whole /\ (pos # 0 \/ result = "success") => Complete(script, building, clicks)

\* The statement k has had its effect.
Done(k) ==
  /\ IsRow(script, k) =>
       /\ RowOf(script[k]) \in rows /\ script[k].table \in DOMAIN schema
       /\ ToSet(script[k].cols) \subseteq schema[script[k].table]
  /\ IsLink(script, k) =>
       \E l \in links : l.table = script[k].table /\ l.ids = script[k].ids

AllDone ==
  /\ \A k \in 1 .. pos - 1 : Done(k)
  /\ result = "success" => pos = 0 /\ \A k \in 1 .. Len(script) : Done(k)

TypeInv ==
  /\ DOMAIN schema \subseteq Tables
  /\ \A l \in links : l.table \in Names \X Names /\ l.ids \in Identifiers \X Identifiers
  /\ result \in {"none", "success", "open", "table", "column", "key", "syntax", "disk"}
  /\ building \in {0} \union DOMAIN Documents
  /\ whole \in BOOLEAN
  /\ built \subseteq DOMAIN Documents
  /\ restarts \in BOOLEAN

\* Induction over the natural numbers, for a set.
LEMMA InductionInNat ==
  ASSUME NEW S, 0 \in S, \A n \in Nat : n \in S => n + 1 \in S
  PROVE  Nat \subseteq S
<1> DEFINE T == Nat \ S
           R == OpToRel(<, Nat)
<1>1. SUFFICES ASSUME T # {} PROVE FALSE
  OBVIOUS
<1>2. IsWellFoundedOn(R, Nat)
  BY NatLessThanWellFounded
<1>3. \A a, b \in Nat : a < b => <<a, b>> \in R
  BY DEF OpToRel
<1> HIDE DEF R
<1>4. PICK x \in T : \A y \in T : ~ (<<y, x>> \in R)
  <2>1. T \subseteq Nat
    OBVIOUS
  <2> HIDE DEF T
  <2> QED
    BY <1>1, <1>2, <2>1, WFMin
<1>5. x \in Nat /\ x # 0 /\ x - 1 \in Nat /\ x - 1 < x
  OBVIOUS
<1>6. x - 1 \in S
  BY <1>3, <1>4, <1>5
<1>7. (x - 1) + 1 \in S
  BY <1>5, <1>6
<1> QED
  BY <1>4, <1>5, <1>7

\* insertData, element by element.
LEMMA InsertPassEquation ==
  ASSUME NEW d, NEW click, Len(Documents[d]) \in Nat
  PROVE  \E f : /\ f[0] = InsertStart
                /\ \A i \in 1 .. Len(Documents[d]) : f[i] = InsertVisit(d, click, f[i - 1], i)
                /\ InsertPass(d, click) = f[Len(Documents[d])]
<1> DEFINE N == Len(Documents[d])
           Eq(f, n) == f = [i \in 0 .. n |-> IF i = 0 THEN InsertStart
                                             ELSE InsertVisit(d, click, f[i - 1], i)]
           S == {n \in Nat : \E f : Eq(f, n)}
<1>1. 0 \in S
  <2> DEFINE f == [i \in 0 .. 0 |-> InsertStart]
  <2>1. Eq(f, 0)
    OBVIOUS
  <2> QED
    BY <2>1
<1>2. ASSUME NEW n \in Nat, n \in S
      PROVE  n + 1 \in S
  <2>1. PICK f : Eq(f, n)
    BY <1>2
  <2> DEFINE g == [i \in 0 .. n + 1 |->
                     IF i = n + 1 THEN InsertVisit(d, click, f[n], n + 1) ELSE f[i]]
  <2>2. \A i \in 0 .. n : g[i] = f[i]
    OBVIOUS
  <2>3. g[n + 1] = InsertVisit(d, click, g[n], n + 1)
    BY <2>2
  <2>4. ASSUME NEW i \in 0 .. n + 1
        PROVE  g[i] = IF i = 0 THEN InsertStart ELSE InsertVisit(d, click, g[i - 1], i)
    <3>1. CASE i = n + 1
      BY <2>3, <3>1
    <3>2. CASE i \in 0 .. n
      <4>1. f[i] = IF i = 0 THEN InsertStart ELSE InsertVisit(d, click, f[i - 1], i)
        BY <2>1, <3>2
      <4>2. i # 0 => i - 1 \in 0 .. n
        BY <3>2
      <4> HIDE DEF g
      <4> QED
        BY <2>2, <3>2, <4>1, <4>2
    <3> QED
      BY <3>1, <3>2
  <2>5. g = [i \in 0 .. n + 1 |-> g[i]]
    OBVIOUS
  <2>6. Eq(g, n + 1)
    <3> HIDE DEF g
    <3> QED
      BY <2>4, <2>5
  <2> HIDE DEF Eq, g
  <2> QED
    BY <2>6
<1>3. N \in S
  <2> HIDE DEF S
  <2> QED
    BY <1>1, <1>2, InductionInNat
<1> DEFINE p == CHOOSE f : Eq(f, N)
<1>4. Eq(p, N)
  BY <1>3
<1>5. InsertPass(d, click) = p[N]
  BY DEF InsertPass
<1>6. /\ p[0] = InsertStart
      /\ \A i \in 1 .. N : p[i] = InsertVisit(d, click, p[i - 1], i)
  <2> HIDE DEF p
  <2> QED
    BY <1>4
<1> QED
  BY <1>5, <1>6

\* createTable, element by element.
LEMMA TablePassEquation ==
  ASSUME NEW doc, NEW garbled, Len(doc) \in Nat
  PROVE  \E f : /\ f[0] = TableStart
                /\ \A i \in 1 .. Len(doc) : f[i] = TableVisit(doc, garbled, f[i - 1], i)
                /\ TablePass(doc, garbled) = f[Len(doc)]
<1> DEFINE N == Len(doc)
           Eq(f, n) == f = [i \in 0 .. n |-> IF i = 0 THEN TableStart
                                             ELSE TableVisit(doc, garbled, f[i - 1], i)]
           S == {n \in Nat : \E f : Eq(f, n)}
<1>1. 0 \in S
  <2> DEFINE f == [i \in 0 .. 0 |-> TableStart]
  <2>1. Eq(f, 0)
    OBVIOUS
  <2> QED
    BY <2>1
<1>2. ASSUME NEW n \in Nat, n \in S
      PROVE  n + 1 \in S
  <2>1. PICK f : Eq(f, n)
    BY <1>2
  <2> DEFINE g == [i \in 0 .. n + 1 |->
                     IF i = n + 1 THEN TableVisit(doc, garbled, f[n], n + 1) ELSE f[i]]
  <2>2. \A i \in 0 .. n : g[i] = f[i]
    OBVIOUS
  <2>3. g[n + 1] = TableVisit(doc, garbled, g[n], n + 1)
    BY <2>2
  <2>4. ASSUME NEW i \in 0 .. n + 1
        PROVE  g[i] = IF i = 0 THEN TableStart ELSE TableVisit(doc, garbled, g[i - 1], i)
    <3>1. CASE i = n + 1
      BY <2>3, <3>1
    <3>2. CASE i \in 0 .. n
      <4>1. f[i] = IF i = 0 THEN TableStart ELSE TableVisit(doc, garbled, f[i - 1], i)
        BY <2>1, <3>2
      <4>2. i # 0 => i - 1 \in 0 .. n
        BY <3>2
      <4> HIDE DEF g
      <4> QED
        BY <2>2, <3>2, <4>1, <4>2
    <3> QED
      BY <3>1, <3>2
  <2>5. g = [i \in 0 .. n + 1 |-> g[i]]
    OBVIOUS
  <2>6. Eq(g, n + 1)
    <3> HIDE DEF g
    <3> QED
      BY <2>4, <2>5
  <2> HIDE DEF Eq, g
  <2> QED
    BY <2>6
<1>3. N \in S
  <2> HIDE DEF S
  <2> QED
    BY <1>1, <1>2, InductionInNat
<1> DEFINE p == CHOOSE f : Eq(f, N)
<1>4. Eq(p, N)
  BY <1>3
<1>5. TablePass(doc, garbled) = p[N]
  BY DEF TablePass
<1>6. /\ p[0] = TableStart
      /\ \A i \in 1 .. N : p[i] = TableVisit(doc, garbled, p[i - 1], i)
  <2> HIDE DEF p
  <2> QED
    BY <1>4
<1> QED
  BY <1>5, <1>6

\* The step of AddRelations at the element k.
RelationOf(rels, doc, i, k) ==
  IF doc[k].up = i /\ IsForeignKey(doc, k)
  THEN AddRelation(rels, doc[i].name, doc[k].name)
  ELSE rels

\* The relations of an element, child by child.
LEMMA AddRelationsEquation ==
  ASSUME NEW rels, NEW doc, NEW e, Len(doc) \in Nat
  PROVE  \E f : /\ f[0] = rels
                /\ \A i \in 1 .. Len(doc) : f[i] = RelationOf(f[i - 1], doc, e, i)
                /\ AddRelations(rels, doc, e) = f[Len(doc)]
<1> DEFINE N == Len(doc)
           Eq(f, n) == f = [i \in 0 .. n |-> IF i = 0 THEN rels
                                             ELSE RelationOf(f[i - 1], doc, e, i)]
           S == {n \in Nat : \E f : Eq(f, n)}
<1>1. 0 \in S
  <2> DEFINE f == [i \in 0 .. 0 |-> rels]
  <2>1. Eq(f, 0)
    OBVIOUS
  <2> QED
    BY <2>1
<1>2. ASSUME NEW n \in Nat, n \in S
      PROVE  n + 1 \in S
  <2>1. PICK f : Eq(f, n)
    BY <1>2
  <2> DEFINE g == [i \in 0 .. n + 1 |-> IF i = n + 1 THEN RelationOf(f[n], doc, e, n + 1) ELSE f[i]]
  <2>2. \A i \in 0 .. n : g[i] = f[i]
    OBVIOUS
  <2>3. g[n + 1] = RelationOf(g[n], doc, e, n + 1)
    BY <2>2
  <2>4. ASSUME NEW i \in 0 .. n + 1
        PROVE  g[i] = IF i = 0 THEN rels ELSE RelationOf(g[i - 1], doc, e, i)
    <3>1. CASE i = n + 1
      BY <2>3, <3>1
    <3>2. CASE i \in 0 .. n
      <4>1. f[i] = IF i = 0 THEN rels ELSE RelationOf(f[i - 1], doc, e, i)
        BY <2>1, <3>2
      <4>2. i # 0 => i - 1 \in 0 .. n
        BY <3>2
      <4> HIDE DEF g
      <4> QED
        BY <2>2, <3>2, <4>1, <4>2
    <3> QED
      BY <3>1, <3>2
  <2>5. g = [i \in 0 .. n + 1 |-> g[i]]
    OBVIOUS
  <2>6. Eq(g, n + 1)
    <3> HIDE DEF g
    <3> QED
      BY <2>4, <2>5
  <2> HIDE DEF Eq, g
  <2> QED
    BY <2>6
<1>3. N \in S
  <2> HIDE DEF S
  <2> QED
    BY <1>1, <1>2, InductionInNat
<1> DEFINE p == CHOOSE f : Eq(f, N)
<1>4. Eq(p, N)
  BY <1>3
<1>5. AddRelations(rels, doc, e) = p[N]
  BY DEF AddRelations, RelationOf
<1>6. /\ p[0] = rels
      /\ \A i \in 1 .. N : p[i] = RelationOf(p[i - 1], doc, e, i)
  <2> HIDE DEF p
  <2> QED
    BY <1>4
<1> QED
  BY <1>5, <1>6

----------------------------------------------------------------------------
(* Documents                                                               *)

LEMMA DocumentFacts ==
  ASSUME NEW d \in DOMAIN Documents
  PROVE  /\ Documents[d] \in Seq([name : STRING, up : Nat, props : Seq(STRING)])
         /\ Len(Documents[d]) \in Nat
         /\ Indices(Documents[d]) = 1 .. Len(Documents[d])
         /\ \A i \in 1 .. Len(Documents[d]) :
              /\ Documents[d][i].name \in Names
              /\ Documents[d][i].up \in 0 .. i - 1
              /\ <<d, i>> \in Places
              /\ <<Documents[d], i>> \in Elements(DOMAIN Documents)
              /\ i \in UNION {Indices(Documents[x]) : x \in DOMAIN Documents}
<1>1. Documents[d] \in Seq([name : STRING, up : Nat, props : Seq(STRING)])
  BY XmlAssumption
<1>2. Len(Documents[d]) \in Nat /\ Indices(Documents[d]) = 1 .. Len(Documents[d])
  BY <1>1 DEF Indices
<1>3. ASSUME NEW i \in 1 .. Len(Documents[d])
      PROVE  /\ Documents[d][i].name \in Names
             /\ Documents[d][i].up \in 0 .. i - 1
             /\ <<d, i>> \in Places
             /\ <<Documents[d], i>> \in Elements(DOMAIN Documents)
             /\ i \in UNION {Indices(Documents[x]) : x \in DOMAIN Documents}
  <2>1. Documents[d][i].up \in 0 .. i - 1
    BY <1>2, <1>3, XmlAssumption
  <2>2. <<d, i>> \in Places
    BY <1>2, <1>3 DEF Places
  <2>3. <<Documents[d], i>> \in Elements(DOMAIN Documents)
    BY <1>2, <1>3 DEF Elements
  <2>4. Documents[d][i].name \in Names
    <3>1. Name(<<Documents[d], i>>) = Documents[d][i].name
      BY DEF Name
    <3> QED
      BY <2>3, <3>1, Zenon DEF Names
  <2>5. i \in UNION {Indices(Documents[x]) : x \in DOMAIN Documents}
    BY <1>2, <1>3
  <2> QED
    BY <2>1, <2>2, <2>3, <2>4, <2>5
<1> QED
  BY <1>1, <1>2, <1>3

\* insertData comes to the parent of every element before.
LEMMA ParentVisited ==
  ASSUME NEW d \in DOMAIN Documents, NEW i \in 1 .. Len(Documents[d]), Documents[d][i].up # 0
  PROVE  /\ Documents[d][i].up \in 1 .. i - 1
         /\ Visited(Documents[d], Documents[d][i].up)
<1>1. Len(Documents[d]) \in Nat /\ Documents[d][i].up \in 0 .. i - 1 /\ i \in Indices(Documents[d])
  BY DocumentFacts
<1>2. IsForeignKey(Documents[d], Documents[d][i].up)
  BY <1>1 DEF IsForeignKey
<1> QED
  BY <1>1, <1>2 DEF Visited

\* The elements of all documents are at least those of one.
LEMMA SizeBounds ==
  /\ Size \in Nat
  /\ \A d \in DOMAIN Documents : Len(Documents[d]) <= Size
<1> DEFINE E == Elements(DOMAIN Documents)
           Of(d) == {<<Documents[d], i>> : i \in Indices(Documents[d])}
<1>1. ASSUME NEW d \in DOMAIN Documents
      PROVE  /\ IsFiniteSet(Of(d)) /\ Cardinality(Of(d)) = Len(Documents[d])
             /\ Of(d) \subseteq E
  <2> DEFINE N == Len(Documents[d])
             f == [i \in 1 .. N |-> <<Documents[d], i>>]
  <2>1. N \in Nat /\ Indices(Documents[d]) = 1 .. N
    BY DocumentFacts
  <2>2. f \in Bijection(1 .. N, Of(d))
    <3>1. f \in [1 .. N -> Of(d)]
      BY <2>1
    <3>2. \A a, b \in 1 .. N : f[a] = f[b] => a = b
      OBVIOUS
    <3>3. \A t \in Of(d) : \E a \in 1 .. N : f[a] = t
      BY <2>1
    <3> HIDE DEF f, Of
    <3> QED
      BY <3>1, <3>2, <3>3 DEF Bijection, Injection, Surjection, IsInjective
  <2>3. IsFiniteSet(1 .. N) /\ Cardinality(1 .. N) = N
    <3>1. 1 \in Int /\ N \in Int
      BY <2>1
    <3>2. IsFiniteSet(1 .. N) /\ Cardinality(1 .. N) = IF 1 > N THEN 0 ELSE N - 1 + 1
      BY <3>1, FS_Interval, Zenon
    <3> QED
      BY <2>1, <3>2
  <2>4. IsFiniteSet(Of(d)) /\ Cardinality(Of(d)) = N
    <3> HIDE DEF f, Of, N
    <3>1. ExistsBijection(1 .. N, Of(d))
      BY <2>2 DEF ExistsBijection
    <3> QED
      BY <2>3, <3>1, FS_Bijection
  <2>5. Of(d) \subseteq E
    BY DEF Elements
  <2> QED
    BY <2>4, <2>5
<1>2. IsFiniteSet(E)
  <2> DEFINE F == {Of(d) : d \in DOMAIN Documents}
  <2>1. DOMAIN Documents = 1 .. Len(Documents) /\ Len(Documents) \in Nat
    BY XmlAssumption
  <2>2. IsFiniteSet(DOMAIN Documents)
    <3>1. 1 \in Int /\ Len(Documents) \in Int
      BY <2>1
    <3> QED
      BY <2>1, <3>1, FS_Interval, Zenon
  <2>3. IsFiniteSet(F)
    <3> DEFINE g == [d \in DOMAIN Documents |-> Of(d)]
    <3>1. g \in Surjection(DOMAIN Documents, F)
      <4>1. g \in [DOMAIN Documents -> F]
        OBVIOUS
      <4>2. \A t \in F : \E d \in DOMAIN Documents : g[d] = t
        OBVIOUS
      <4> HIDE DEF g, F
      <4> QED
        BY <4>1, <4>2 DEF Surjection
    <3> HIDE DEF g, F
    <3> QED
      BY <2>2, <3>1, FS_Surjection
  <2>4. \A T \in F : IsFiniteSet(T)
    BY <1>1
  <2>5. IsFiniteSet(UNION F)
    <3> HIDE DEF F
    <3> QED
      BY <2>3, <2>4, FS_UNION
  <2> QED
    BY <2>5 DEF Elements
<1>3. Size \in Nat /\ Size = Cardinality(E)
  BY <1>2, FS_CardinalityType DEF Size
<1>4. ASSUME NEW d \in DOMAIN Documents
      PROVE  Len(Documents[d]) <= Size
  <2> HIDE DEF E, Of
  <2> QED
    BY <1>1, <1>2, <1>3, FS_Subset
<1> QED
  BY <1>3, <1>4

\* What c clicks and the elements of a document give out are identifiers.
LEMMA IdentifiersSuffice ==
  /\ Identifiers = 1 .. MaxClicks * Size
  /\ \A c \in 0 .. MaxClicks : c * Size \in Nat /\ c * Size <= MaxClicks * Size
  /\ \A c \in Nat : (c + 1) * Size = c * Size + Size
<1>1. MaxClicks \in Nat /\ Size \in Nat
  BY XmlAssumption, SizeBounds
<1>2. \A c \in 0 .. MaxClicks : c * Size \in Nat /\ c * Size <= MaxClicks * Size
  BY <1>1
<1>3. \A c \in Nat : (c + 1) * Size = c * Size + Size
  BY <1>1
<1> QED
  BY <1>2, <1>3 DEF Identifiers, Size

----------------------------------------------------------------------------
(* The tables of a script                                                  *)

LEMMA AddRelationsType ==
  ASSUME NEW d \in DOMAIN Documents, NEW rels \in Seq(Names \X Names),
         NEW i \in 1 .. Len(Documents[d])
  PROVE  AddRelations(rels, Documents[d], i) \in Seq(Names \X Names)
<1> DEFINE doc == Documents[d]
           N == Len(doc)
<1>1. N \in Nat /\ \A k \in 1 .. N : doc[k].name \in Names
  BY DocumentFacts
<1>2. PICK f : /\ f[0] = rels
               /\ \A k \in 1 .. N : f[k] = RelationOf(f[k - 1], doc, i, k)
               /\ AddRelations(rels, doc, i) = f[N]
  <2> HIDE DEF doc
  <2> QED
    BY <1>1, AddRelationsEquation
<1> DEFINE S == {n \in Nat : n <= N => f[n] \in Seq(Names \X Names)}
<1>3. 0 \in S
  BY <1>2
<1>4. ASSUME NEW n \in Nat, n \in S
      PROVE  n + 1 \in S
  <2>1. SUFFICES ASSUME n + 1 <= N
                 PROVE  f[n + 1] \in Seq(Names \X Names)
    OBVIOUS
  <2>2. f[n] \in Seq(Names \X Names) /\ n + 1 \in 1 .. N /\ (n + 1) - 1 = n
    BY <1>1, <1>4, <2>1
  <2>3. f[n + 1] = RelationOf(f[n], doc, i, n + 1)
    BY <1>2, <2>2
  <2>4. <<doc[i].name, doc[n + 1].name>> \in Names \X Names
    BY <1>1, <2>2
  <2> QED
    BY <2>2, <2>3, <2>4 DEF RelationOf, AddRelation
<1>5. N \in S
  <2> HIDE DEF S
  <2> QED
    BY <1>1, <1>3, <1>4, InductionInNat
<1> QED
  BY <1>1, <1>2, <1>5

LEMMA CreateTyped ==
  ASSUME NEW table \in Tables, NEW cols \in TableCols \union RelationCols, NEW b \in BOOLEAN
  PROVE  Create(table, cols, b) \in Creates
BY DEF Create, Creates

\* What createTable writes for an element.
TableOf(doc, garbled, i) ==
  Create(<<doc[i].name>>, TableColumns(doc, i), garbled /\ ForeignKeys(doc, i) # <<>>)

LEMMA TableOfTyped ==
  ASSUME NEW d \in DOMAIN Documents, NEW garbled \in BOOLEAN, NEW i \in 1 .. Len(Documents[d])
  PROVE  TableOf(Documents[d], garbled, i) \in Creates
<1> DEFINE doc == Documents[d]
           keys == ForeignKeys(doc, i) # <<>>
<1>1. <<doc[i].name>> \in Tables
  BY DocumentFacts DEF Tables
<1>2. TableColumns(doc, i) \in TableCols
  <2>1. <<d, i>> \in Places /\ <<d, i>>[1] = d /\ <<d, i>>[2] = i
    BY DocumentFacts
  <2> QED
    BY <2>1 DEF TableCols
<1>3. (garbled /\ keys) \in BOOLEAN
  OBVIOUS
<1> QED
  BY <1>1, <1>2, <1>3, CreateTyped DEF TableOf

LEMMA TableVisitType ==
  ASSUME NEW d \in DOMAIN Documents, NEW garbled \in BOOLEAN, NEW i \in 1 .. Len(Documents[d]),
         NEW acc, acc.out \in Seq(Creates), acc.rels \in Seq(Names \X Names),
         NEW a, a = TableVisit(Documents[d], garbled, acc, i)
  PROVE  a.out \in Seq(Creates) /\ a.rels \in Seq(Names \X Names)
<1> DEFINE doc == Documents[d]
           new == TableOf(doc, garbled, i)
           out == acc.out
<1>1. AddRelations(acc.rels, doc, i) \in Seq(Names \X Names)
  BY AddRelationsType
<1>2. new \in Creates
  BY TableOfTyped
<1>3. a.out \in {acc.out, Append(acc.out, new)}
  BY DEF TableVisit, TableOf
<1>4. a.rels \in {acc.rels, AddRelations(acc.rels, doc, i)}
  BY DEF TableVisit
<1>5. Append(out, new) \in Seq(Creates)
  <2>1. out \in Seq(Creates)
    OBVIOUS
  <2> HIDE DEF new, out
  <2> QED
    BY <1>2, <2>1
<1> HIDE DEF new
<1> QED
  BY <1>1, <1>3, <1>4, <1>5

LEMMA TablePassType ==
  ASSUME NEW d \in DOMAIN Documents, NEW garbled \in BOOLEAN, relations \in Seq(Names \X Names)
  PROVE  /\ TablePass(Documents[d], garbled).out \in Seq(Creates)
         /\ TablePass(Documents[d], garbled).rels \in Seq(Names \X Names)
<1> DEFINE doc == Documents[d]
           N == Len(doc)
<1>1. N \in Nat
  BY DocumentFacts
<1>2. PICK f : /\ f[0] = TableStart
               /\ \A k \in 1 .. N : f[k] = TableVisit(doc, garbled, f[k - 1], k)
               /\ TablePass(doc, garbled) = f[N]
  BY <1>1, TablePassEquation
<1> DEFINE Typed(acc) == acc.out \in Seq(Creates) /\ acc.rels \in Seq(Names \X Names)
           S == {n \in Nat : n <= N => Typed(f[n])}
<1>3. 0 \in S
  <2>1. Typed(TableStart)
    BY DEF TableStart
  <2> HIDE DEF Typed
  <2> QED
    BY <1>2, <2>1
<1>4. ASSUME NEW n \in Nat, n \in S
      PROVE  n + 1 \in S
  <2>1. SUFFICES ASSUME n + 1 <= N
                 PROVE  Typed(f[n + 1])
    OBVIOUS
  <2>2. Typed(f[n]) /\ n + 1 \in 1 .. N /\ (n + 1) - 1 = n
    BY <1>1, <1>4, <2>1
  <2>3. PICK acc, a : acc = f[n] /\ a = f[n + 1]
    OBVIOUS
  <2>4. a = TableVisit(doc, garbled, acc, n + 1)
    BY <1>2, <2>2, <2>3
  <2>5. a.out \in Seq(Creates) /\ a.rels \in Seq(Names \X Names)
    BY <2>2, <2>3, <2>4, TableVisitType
  <2> QED
    BY <2>3, <2>5
<1>5. N \in S
  <2> HIDE DEF S
  <2> QED
    BY <1>1, <1>3, <1>4, InductionInNat
<1> QED
  BY <1>1, <1>2, <1>5

LEMMA RelationPassType ==
  ASSUME NEW rels \in Seq(Names \X Names)
  PROVE  RelationPass(rels) \in Seq(Creates)
<1> DEFINE c(p) == Create(p, RelationColumns(p), FALSE)
<1>1. ASSUME NEW p \in Names \X Names
      PROVE  c(p) \in Creates
  <2>1. p \in Tables /\ RelationColumns(p) \in RelationCols
    BY DEF Tables, RelationCols
  <2> QED
    BY <2>1, CreateTyped
<1>2. /\ DOMAIN rels = 1 .. Len(rels) /\ Len(rels) \in Nat
      /\ \A k \in DOMAIN rels : rels[k] \in Names \X Names
  OBVIOUS
<1>3. RelationPass(rels) = [k \in 1 .. Len(rels) |-> c(rels[k])]
  BY <1>2 DEF RelationPass, RelationColumns
<1>4. [k \in 1 .. Len(rels) |-> c(rels[k])] \in [1 .. Len(rels) -> Creates]
  <2> HIDE DEF c
  <2> QED
    BY <1>1, <1>2
<1> HIDE DEF c
<1> QED
  BY <1>2, <1>3, <1>4, SeqDef

----------------------------------------------------------------------------
(* The rows and links of a script                                          *)

RowFor(d, click, id, i) ==
  Insert(<<Documents[d][i].name>>, RowColumns(Documents[d], i), id[i], NodeId(d, click, i))
LinkFor(d, id, i) ==
  Link(<<Documents[d][Documents[d][i].up].name, Documents[d][i].name>>,
       <<id[Documents[d][i].up], id[i]>>)

\* What insertData has written when the first n elements have been considered,
\* b being the highest identifier when it began.
Numbered(d, b, n, acc) ==
  /\ CounterBound(acc.count, b + n)
  /\ DOMAIN acc.id = {i \in 1 .. n : Visited(Documents[d], i)}
  /\ \A i \in DOMAIN acc.id : acc.id[i] \in 1 .. b + n

RowsStandFor(d, click, acc) ==
  /\ \A k \in 1 .. Len(acc.out) :
       IsRow(acc.out, k) => \E i \in DOMAIN acc.id : acc.out[k] = RowFor(d, click, acc.id, i)
  /\ \A j, k \in 1 .. Len(acc.out) :
       IsRow(acc.out, j) /\ IsRow(acc.out, k) /\ acc.out[j].of = acc.out[k].of => j = k

ElementsHaveRows(d, click, acc) ==
  \A i \in DOMAIN acc.id : \E k \in 1 .. Len(acc.out) :
    /\ acc.out[k] = RowFor(d, click, acc.id, i)
    /\ Documents[d][i].up # 0 =>
         k + 1 \in 1 .. Len(acc.out) /\ acc.out[k + 1] = LinkFor(d, acc.id, i)

LinksFollow(d, click, acc) ==
  \A k \in 1 .. Len(acc.out) : IsLink(acc.out, k) =>
    \E i \in DOMAIN acc.id :
      /\ Documents[d][i].up # 0 /\ k > 1
      /\ acc.out[k] = LinkFor(d, acc.id, i)
      /\ acc.out[k - 1] = RowFor(d, click, acc.id, i)
      /\ \E m \in 1 .. k - 2 : acc.out[m] = RowFor(d, click, acc.id, Documents[d][i].up)

NodesGrow(s) == \A j, k \in 1 .. Len(s) :
  IsRow(s, j) /\ IsRow(s, k) /\ j < k => s[j].of.node < s[k].of.node

PassInv(d, click, b, n, acc) ==
  /\ Numbered(d, b, n, acc)
  /\ acc.out \in Seq(Inserts(Nat))
  /\ RowsStandFor(d, click, acc)
  /\ ElementsHaveRows(d, click, acc)
  /\ LinksFollow(d, click, acc)
  /\ NodesGrow(acc.out)

\* A row says which element it is of, a link which ends it has.
LEMMA RowSays ==
  ASSUME NEW d, NEW click, NEW id, NEW i
  PROVE  /\ RowFor(d, click, id, i).do = "row"
         /\ RowFor(d, click, id, i).table = <<Documents[d][i].name>>
         /\ RowFor(d, click, id, i).cols = RowColumns(Documents[d], i)
         /\ RowFor(d, click, id, i).id = id[i]
         /\ RowFor(d, click, id, i).of = NodeId(d, click, i)
BY DEF RowFor, Insert

LEMMA LinkSays ==
  ASSUME NEW d, NEW id, NEW i
  PROVE  /\ LinkFor(d, id, i).do = "link"
         /\ LinkFor(d, id, i).table
              = <<Documents[d][Documents[d][i].up].name, Documents[d][i].name>>
         /\ LinkFor(d, id, i).ids = <<id[Documents[d][i].up], id[i]>>
BY DEF LinkFor, Link

LEMMA NodeIdSays ==
  ASSUME NEW d, NEW click, NEW i
  PROVE  /\ NodeId(d, click, i).doc = d
         /\ NodeId(d, click, i).click = click
         /\ NodeId(d, click, i).node = i
BY DEF NodeId

LEMMA StatementTyped ==
  ASSUME NEW d \in DOMAIN Documents, NEW click \in 1 .. MaxClicks, NEW ids, NEW id,
         NEW i \in 1 .. Len(Documents[d]), id[i] \in ids
  PROVE  /\ RowFor(d, click, id, i) \in RowStatements(ids)
         /\ Documents[d][i].up # 0 /\ id[Documents[d][i].up] \in ids
              => LinkFor(d, id, i) \in LinkStatements(ids)
<1>1. <<Documents[d][i].name>> \in ElementTables
  BY DocumentFacts DEF ElementTables
<1>2. RowColumns(Documents[d], i) \in RowCols
  <2>1. <<d, i>> \in Places /\ <<d, i>>[1] = d /\ <<d, i>>[2] = i
    BY DocumentFacts
  <2> QED
    BY <2>1 DEF RowCols
<1>3. NodeId(d, click, i) \in NodeIds
  BY DocumentFacts DEF NodeIds, NodeId
<1>4. RowFor(d, click, id, i) \in RowStatements(ids)
  BY <1>1, <1>2, <1>3 DEF RowFor, Insert, RowStatements
<1>5. ASSUME Documents[d][i].up # 0, id[Documents[d][i].up] \in ids
      PROVE  LinkFor(d, id, i) \in LinkStatements(ids)
  <2>1. Len(Documents[d]) \in Nat
    BY DocumentFacts
  <2>2. Documents[d][i].up \in 1 .. Len(Documents[d])
    BY <1>5, <2>1, ParentVisited
  <2>3. Documents[d][Documents[d][i].up].name \in Names /\ Documents[d][i].name \in Names
    BY <2>2, DocumentFacts
  <2> QED
    BY <1>5, <2>3 DEF LinkFor, Link, LinkStatements
<1> QED
  BY <1>4, <1>5

LEMMA StatementKind ==
  /\ \A s \in Creates : s.do = "create" /\ s.table \in Tables
  /\ \A ids : \A s \in Inserts(ids) : s.do \in {"row", "link"} /\ s.table \in Tables
  /\ \A ids : \A s \in Inserts(ids) : s.do = "row" => s \in RowStatements(ids)
  /\ \A ids : \A s \in Inserts(ids) : s.do = "link" => s \in LinkStatements(ids)
  /\ CutOff.do = "cut" /\ NoFile[1].do = "no file"
<1>1. ElementTables \subseteq Tables /\ Names \X Names \subseteq Tables
  BY DEF ElementTables, Tables
<1>2. \A s \in Creates : s.do = "create" /\ s.table \in Tables
  BY DEF Creates
<1>3. ASSUME NEW ids
      PROVE  /\ \A s \in RowStatements(ids) : s.do = "row" /\ s.table \in Tables
             /\ \A s \in LinkStatements(ids) : s.do = "link" /\ s.table \in Tables
  BY <1>1 DEF RowStatements, LinkStatements
<1> QED
  BY <1>2, <1>3 DEF Inserts, CutOff, NoFile

\* One element: nothing, or an identifier, its row and, under a parent, its link.
LEMMA VisitSkips ==
  ASSUME NEW d, NEW click, NEW acc, NEW i, ~ Visited(Documents[d], i)
  PROVE  InsertVisit(d, click, acc, i) = acc
BY DEF InsertVisit

NewIdOf(d, acc, i) == LastId(acc.count, Documents[d][i].name) + 1

LEMMA VisitNumbers ==
  ASSUME NEW d, NEW click, NEW acc, NEW i, Visited(Documents[d], i)
  PROVE  /\ InsertVisit(d, click, acc, i).count
              = Put(acc.count, Documents[d][i].name, NewIdOf(d, acc, i))
         /\ InsertVisit(d, click, acc, i).id = Put(acc.id, i, NewIdOf(d, acc, i))
<1> DEFINE count == Put(acc.count, Documents[d][i].name, NewIdOf(d, acc, i))
           id == Put(acc.id, i, NewIdOf(d, acc, i))
<1>1. PICK out : InsertVisit(d, click, acc, i) = [count |-> count, id |-> id, out |-> out]
  BY Zenon DEF InsertVisit, NewId, NewIdOf
<1> HIDE DEF count, id
<1>2. InsertVisit(d, click, acc, i).count = count /\ InsertVisit(d, click, acc, i).id = id
  BY <1>1
<1> QED
  BY <1>2 DEF count, id

RowOfVisit(d, click, acc, i) == RowFor(d, click, InsertVisit(d, click, acc, i).id, i)
LinkOfVisit(d, acc, i) ==
  Link(<<Documents[d][Documents[d][i].up].name, Documents[d][i].name>>,
       <<acc.id[Documents[d][i].up], NewIdOf(d, acc, i)>>)

LEMMA VisitWrites ==
  ASSUME NEW d, NEW click, NEW acc, NEW i, Visited(Documents[d], i)
  PROVE  InsertVisit(d, click, acc, i).out = acc.out \o
           IF Documents[d][i].up = 0
           THEN <<RowOfVisit(d, click, acc, i)>>
           ELSE <<RowOfVisit(d, click, acc, i), LinkOfVisit(d, acc, i)>>
<1> DEFINE doc == Documents[d]
           new == NewIdOf(d, acc, i)
           a == InsertVisit(d, click, acc, i)
           row == Insert(<<doc[i].name>>, RowColumns(doc, i), new, NodeId(d, click, i))
           link == Link(<<doc[doc[i].up].name, doc[i].name>>, <<acc.id[doc[i].up], new>>)
<1>1. a = [count |-> Put(acc.count, doc[i].name, new), id |-> Put(acc.id, i, new),
           out |-> acc.out \o IF doc[i].up = 0 THEN <<row>> ELSE <<row, link>>]
  BY Zenon DEF InsertVisit, NewId, NewIdOf, ParentId, NodeId
<1>2. /\ a.count = Put(acc.count, doc[i].name, new)
      /\ a.id = Put(acc.id, i, new)
      /\ a.out = acc.out \o IF doc[i].up = 0 THEN <<row>> ELSE <<row, link>>
  <2> HIDE DEF row, link, new, a, doc
  <2> QED
    BY <1>1
<1>3. row = RowFor(d, click, a.id, i)
  <2>1. a.id[i] = new
    BY <1>2 DEF Put
  <2> QED
    BY <2>1 DEF RowFor, NodeId
<1> QED
  BY <1>2, <1>3, Zenon DEF RowOfVisit, LinkOfVisit

LEMMA CounterBoundGrows ==
  ASSUME NEW count, NEW m \in Nat, NEW n \in Nat, n = m + 1, CounterBound(count, m)
  PROVE  CounterBound(count, n)
<1>1. \A x \in 1 .. m : x \in 1 .. n
  OBVIOUS
<1> QED
  BY <1>1 DEF CounterBound

LEMMA PassStep ==
  ASSUME NEW d \in DOMAIN Documents, NEW click \in 1 .. MaxClicks, NEW b \in Nat,
         NEW i \in 1 .. Len(Documents[d]), NEW acc, PassInv(d, click, b, i - 1, acc)
  PROVE  PassInv(d, click, b, i, InsertVisit(d, click, acc, i))
<1> DEFINE doc == Documents[d]
           up == doc[i].up
           a == InsertVisit(d, click, acc, i)
           new == NewIdOf(d, acc, i)
           R == RowFor(d, click, a.id, i)
           L == LinkFor(d, a.id, i)
           n == Len(acc.out)
<1>1. /\ i \in Nat /\ i - 1 \in Nat /\ b + i \in Nat /\ b + (i - 1) \in Nat
      /\ b + i = b + (i - 1) + 1
      /\ doc[i].name \in Names
  <2>1. Len(doc) \in Nat /\ doc[i].name \in Names
    BY DocumentFacts
  <2> QED
    BY <2>1
<1>2. /\ CounterBound(acc.count, b + (i - 1))
      /\ DOMAIN acc.id = {j \in 1 .. i - 1 : Visited(doc, j)}
      /\ \A j \in DOMAIN acc.id : acc.id[j] \in 1 .. b + (i - 1)
      /\ acc.out \in Seq(Inserts(Nat))
      /\ n \in Nat
  BY DEF PassInv, Numbered
<1>3. CASE ~ Visited(doc, i)
  <2>1. a = acc
    BY <1>3, VisitSkips
  <2>2. CounterBound(acc.count, b + i)
    BY <1>1, <1>2, CounterBoundGrows
  <2>3. DOMAIN acc.id = {j \in 1 .. i : Visited(doc, j)}
    <3>1. \A j : j \in 1 .. i <=> j \in 1 .. i - 1 \/ j = i
      BY <1>1
    <3> QED
      BY <1>2, <1>3, <3>1, Zenon
  <2>4. \A j \in DOMAIN acc.id : acc.id[j] \in 1 .. b + i
    BY <1>1, <1>2
  <2>5. Numbered(d, b, i, acc)
    BY <2>2, <2>3, <2>4 DEF Numbered
  <2> QED
    BY <2>1, <2>5 DEF PassInv
<1>4. CASE Visited(doc, i)
  <2>1. new \in 1 .. b + i
    <3> DEFINE last == LastId(acc.count, doc[i].name)
    <3>1. last \in 0 .. b + (i - 1)
      BY <1>1, <1>2 DEF CounterBound, LastId
    <3>2. new = last + 1
      BY DEF NewIdOf
    <3> HIDE DEF last, new
    <3> QED
      BY <1>1, <3>1, <3>2
  <2>2. a.count = Put(acc.count, doc[i].name, new) /\ a.id = Put(acc.id, i, new)
    BY <1>4, VisitNumbers
  <2>3. /\ DOMAIN a.id = DOMAIN acc.id \union {i}
        /\ a.id[i] = new
        /\ i \notin DOMAIN acc.id
        /\ \A j \in DOMAIN acc.id : j # i /\ a.id[j] = acc.id[j]
    <3>1. i \notin DOMAIN acc.id
      BY <1>1, <1>2
    <3> HIDE DEF a, new
    <3> QED
      BY <2>2, <3>1 DEF Put
  <2>4. Numbered(d, b, i, a)
    <3>1. CounterBound(a.count, b + i)
      <4> HIDE DEF a, new
      <4> QED
        BY <1>1, <1>2, <2>1, <2>2 DEF CounterBound, Put
    <3>2. DOMAIN a.id = {j \in 1 .. i : Visited(doc, j)}
      <4> HIDE DEF a, new
      <4> QED
        BY <1>1, <1>2, <1>4, <2>3
    <3>3. \A j \in DOMAIN a.id : a.id[j] \in 1 .. b + i
      <4> HIDE DEF a, new
      <4> QED
        BY <1>1, <1>2, <2>1, <2>3
    <3> QED
      BY <3>1, <3>2, <3>3 DEF Numbered
  <2>5. ASSUME NEW j \in 1 .. i, Visited(doc, j), doc[j].up # 0
        PROVE  doc[j].up \in DOMAIN acc.id /\ doc[j].up \notin {0, i}
    <3>1. j \in 1 .. Len(doc) /\ Len(doc) \in Nat
      BY <1>1, DocumentFacts
    <3>2. doc[j].up \in 1 .. j - 1 /\ Visited(doc, doc[j].up)
      BY <2>5, <3>1, ParentVisited
    <3>3. doc[j].up \in 1 .. i - 1 /\ doc[j].up # i
      <4> DEFINE u == doc[j].up
      <4> HIDE DEF u
      <4>1. u \in 1 .. j - 1
        BY <3>2 DEF u
      <4>2. u \in 1 .. i - 1 /\ u # i
        BY <1>1, <4>1
      <4> QED
        BY <4>2 DEF u
    <3> QED
      BY <1>2, <2>5, <3>2, <3>3
  <2>6. ASSUME NEW j \in DOMAIN acc.id
        PROVE  /\ RowFor(d, click, a.id, j) = RowFor(d, click, acc.id, j)
               /\ doc[j].up # 0 =>
                    /\ LinkFor(d, a.id, j) = LinkFor(d, acc.id, j)
                    /\ RowFor(d, click, a.id, doc[j].up) = RowFor(d, click, acc.id, doc[j].up)
    <3>1. j \in 1 .. i /\ Visited(doc, j)
      BY <1>1, <1>2
    <3>2. a.id[j] = acc.id[j]
      BY <2>3
    <3>3. doc[j].up # 0 => a.id[doc[j].up] = acc.id[doc[j].up]
      BY <2>3, <2>5, <3>1
    <3> HIDE DEF a
    <3> QED
      BY <3>2, <3>3 DEF RowFor, LinkFor
  <2>7. R \in Inserts(Nat) /\ R.do = "row" /\ R.of.node = i
    <3>1. a.id[i] \in Nat
      BY <2>1, <2>3
    <3>2. R \in RowStatements(Nat)
      BY <3>1, StatementTyped
    <3>3. R.do = "row" /\ R.of.node = i
      BY RowSays, NodeIdSays
    <3> QED
      BY <3>2, <3>3, Zenon DEF Inserts
  <2>8. up # 0 => L \in Inserts(Nat) /\ L.do = "link"
    <3>1. SUFFICES ASSUME up # 0 PROVE L \in Inserts(Nat) /\ L.do = "link"
      OBVIOUS
    <3>2. a.id[i] \in Nat
      BY <2>1, <2>3
    <3>3. up \in DOMAIN acc.id
      BY <1>1, <1>4, <2>5, <3>1
    <3>4. a.id[up] \in Nat
      <4>1. a.id[up] = acc.id[up] /\ acc.id[up] \in 1 .. b + (i - 1)
        BY <1>2, <2>3, <3>3
      <4> QED
        BY <1>1, <4>1
    <3>5. L \in LinkStatements(Nat)
      BY <3>1, <3>2, <3>4, StatementTyped
    <3>6. L.do = "link"
      BY LinkSays
    <3> QED
      BY <3>5, <3>6, Zenon DEF Inserts
  <2>9. a.out = acc.out \o IF up = 0 THEN <<R>> ELSE <<R, L>>
    <3>1. i \in 1 .. i
      BY <1>1
    <3>2. up # 0 => up \in DOMAIN acc.id \ {0, i}
      BY <1>4, <2>5, <3>1
    <3>3. CASE up = 0
      <4>1. a.out = acc.out \o <<R>>
        BY <1>4, <3>3, VisitWrites DEF RowOfVisit
      <4> QED
        BY <3>3, <4>1
    <3>4. CASE up # 0
      <4>1. a.out = acc.out \o <<R, Link(<<doc[up].name, doc[i].name>>, <<acc.id[up], new>>)>>
        BY <1>4, <3>4, VisitWrites DEF RowOfVisit, LinkOfVisit
      <4>2. L = Link(<<doc[up].name, doc[i].name>>, <<acc.id[up], new>>)
        <5>1. a.id[up] = acc.id[up] /\ a.id[i] = new
          BY <2>3, <3>2, <3>4
        <5> QED
          BY <5>1 DEF LinkFor
      <4> QED
        BY <3>4, <4>1, <4>2
    <3> QED
      BY <3>3, <3>4
  <2> HIDE DEF a, R, L, new
  <2>10. /\ a.out \in Seq(Inserts(Nat))
         /\ Len(a.out) = IF up = 0 THEN n + 1 ELSE n + 2
         /\ \A k \in 1 .. n : a.out[k] = acc.out[k]
         /\ a.out[n + 1] = R
         /\ up # 0 => a.out[n + 2] = L
    <3>1. CASE up = 0
      <4>1. a.out = acc.out \o <<R>>
        BY <2>9, <3>1
      <4> HIDE DEF up
      <4> QED
        BY <1>2, <2>7, <3>1, <4>1
    <3>2. CASE up # 0
      <4>1. a.out = acc.out \o <<R, L>>
        BY <2>9, <3>2
      <4> HIDE DEF up
      <4> QED
        BY <1>2, <2>7, <2>8, <3>2, <4>1
    <3> QED
      BY <3>1, <3>2, Zenon
  <2>11. \A k \in 1 .. Len(a.out) : k \in 1 .. n \/ k = n + 1 \/ (k = n + 2 /\ up # 0)
    <3>1. n \in Nat
      BY <1>2
    <3>2. CASE up = 0
      <4>1. Len(a.out) = n + 1
        BY <2>10, <3>2
      <4>2. \A x, y \in Nat : y = x + 1 => \A k \in 1 .. y : k \in 1 .. x \/ k = x + 1
        OBVIOUS
      <4> HIDE DEF n
      <4> QED
        BY <3>1, <4>1, <4>2
    <3>3. CASE up # 0
      <4>1. Len(a.out) = n + 2
        BY <2>10, <3>3
      <4> HIDE DEF n, up
      <4> QED
        BY <3>1, <3>3, <4>1
    <3> QED
      BY <3>2, <3>3
  <2>12. \A k \in 1 .. n : k \in 1 .. Len(a.out) /\ (k + 1 \in 1 .. n => k + 1 \in 1 .. Len(a.out))
    <3>1. n \in Nat /\ Len(a.out) \in Nat /\ n <= Len(a.out)
      BY <1>2, <2>10
    <3> HIDE DEF n
    <3> QED
      BY <3>1
  <2>13. RowsStandFor(d, click, a)
    <3>1. ASSUME NEW k \in 1 .. Len(a.out), IsRow(a.out, k)
          PROVE  \/ k \in 1 .. n /\ IsRow(acc.out, k)
                 \/ k = n + 1
      BY <2>8, <2>10, <2>11, <3>1 DEF IsRow
    <3>2. ASSUME NEW k \in 1 .. n, IsRow(acc.out, k)
          PROVE  \E j \in DOMAIN acc.id : a.out[k] = RowFor(d, click, a.id, j)
      BY <2>6, <2>10, <3>2 DEF PassInv, RowsStandFor
    <3>3. ASSUME NEW k \in 1 .. n, IsRow(acc.out, k)
          PROVE  a.out[k].of # R.of
      <4>1. PICK j \in DOMAIN acc.id : a.out[k] = RowFor(d, click, a.id, j)
        BY <3>2, <3>3
      <4>2. a.out[k].of.node = j
        BY <4>1, RowSays, NodeIdSays
      <4> QED
        BY <2>3, <2>7, <4>2
    <3>4. ASSUME NEW k \in 1 .. Len(a.out), IsRow(a.out, k)
          PROVE  \E j \in DOMAIN a.id : a.out[k] = RowFor(d, click, a.id, j)
      BY <2>3, <2>10, <3>1, <3>2, <3>4 DEF R
    <3>5. ASSUME NEW j \in 1 .. Len(a.out), NEW k \in 1 .. Len(a.out),
                 IsRow(a.out, j), IsRow(a.out, k), a.out[j].of = a.out[k].of
          PROVE  j = k
      <4>1. CASE j \in 1 .. n /\ k \in 1 .. n
        BY <2>10, <3>1, <3>5, <4>1 DEF PassInv, RowsStandFor, IsRow
      <4>2. CASE j \in 1 .. n /\ k = n + 1
        BY <2>10, <3>1, <3>3, <3>5, <4>2
      <4>3. CASE k \in 1 .. n /\ j = n + 1
        BY <2>10, <3>1, <3>3, <3>5, <4>3
      <4> QED
        BY <3>1, <3>5, <4>1, <4>2, <4>3
    <3> QED
      BY <3>4, <3>5 DEF RowsStandFor
  <2>14. ElementsHaveRows(d, click, a)
    <3>1. ASSUME NEW j \in DOMAIN acc.id
          PROVE  \E k \in 1 .. Len(a.out) :
                   /\ a.out[k] = RowFor(d, click, a.id, j)
                   /\ doc[j].up # 0 =>
                        k + 1 \in 1 .. Len(a.out) /\ a.out[k + 1] = LinkFor(d, a.id, j)
      <4>1. PICK k \in 1 .. n :
              /\ acc.out[k] = RowFor(d, click, acc.id, j)
              /\ doc[j].up # 0 => k + 1 \in 1 .. n /\ acc.out[k + 1] = LinkFor(d, acc.id, j)
        BY DEF PassInv, ElementsHaveRows
      <4>2. k \in 1 .. Len(a.out) /\ a.out[k] = RowFor(d, click, a.id, j)
        BY <2>6, <2>10, <2>12, <4>1
      <4>3. doc[j].up # 0 => k + 1 \in 1 .. Len(a.out) /\ a.out[k + 1] = LinkFor(d, a.id, j)
        BY <2>6, <2>10, <2>12, <4>1
      <4> QED
        BY <4>2, <4>3
    <3>2. /\ n + 1 \in 1 .. Len(a.out) /\ a.out[n + 1] = RowFor(d, click, a.id, i)
          /\ up # 0 => /\ n + 1 + 1 \in 1 .. Len(a.out)
                       /\ a.out[n + 1 + 1] = LinkFor(d, a.id, i)
      <4>1. a.out[n + 1] = R /\ (up # 0 => a.out[n + 2] = L)
            /\ Len(a.out) = IF up = 0 THEN n + 1 ELSE n + 2
        BY <2>10
      <4>2. n \in Nat /\ n + 1 + 1 = n + 2
        BY <1>2
      <4> HIDE DEF n, up
      <4>3. n + 1 \in 1 .. Len(a.out) /\ (up # 0 => n + 2 \in 1 .. Len(a.out))
        BY <4>1, <4>2
      <4> QED
        BY <4>1, <4>2, <4>3 DEF R, L
    <3> QED
      BY <2>3, <3>1, <3>2 DEF ElementsHaveRows
  <2>15. LinksFollow(d, click, a)
    <3>1. SUFFICES ASSUME NEW k \in 1 .. Len(a.out), IsLink(a.out, k)
                   PROVE  \E j \in DOMAIN a.id :
                            /\ doc[j].up # 0 /\ k > 1
                            /\ a.out[k] = LinkFor(d, a.id, j)
                            /\ a.out[k - 1] = RowFor(d, click, a.id, j)
                            /\ \E m \in 1 .. k - 2 : a.out[m] = RowFor(d, click, a.id, doc[j].up)
      BY DEF LinksFollow
    <3>2. CASE k \in 1 .. n
      <4>1. IsLink(acc.out, k)
        BY <2>10, <3>1, <3>2 DEF IsLink
      <4>2. PICK j \in DOMAIN acc.id :
              /\ doc[j].up # 0 /\ k > 1
              /\ acc.out[k] = LinkFor(d, acc.id, j)
              /\ acc.out[k - 1] = RowFor(d, click, acc.id, j)
              /\ \E m \in 1 .. k - 2 : acc.out[m] = RowFor(d, click, acc.id, doc[j].up)
        BY <3>2, <4>1 DEF PassInv, LinksFollow
      <4>3. PICK m \in 1 .. k - 2 : acc.out[m] = RowFor(d, click, acc.id, doc[j].up)
        BY <4>2
      <4>4. m \in 1 .. n /\ k - 1 \in 1 .. n
        <5>1. n \in Nat
          BY <1>2
        <5>2. k > 1
          BY <4>2
        <5> HIDE DEF n, doc
        <5> QED
          BY <3>2, <5>1, <5>2
      <4>5. /\ a.out[k] = LinkFor(d, a.id, j)
            /\ a.out[k - 1] = RowFor(d, click, a.id, j)
            /\ a.out[m] = RowFor(d, click, a.id, doc[j].up)
        BY <2>6, <2>10, <3>2, <4>2, <4>3, <4>4
      <4> QED
        BY <2>3, <4>2, <4>5
    <3>3. CASE k = n + 1
      BY <2>7, <2>10, <3>1, <3>3 DEF IsLink
    <3>4. CASE k = n + 2 /\ up # 0
      <4>1. up \in DOMAIN acc.id /\ doc[i].up # 0
        <5>1. i \in 1 .. i
          BY <1>1
        <5> QED
          BY <1>4, <2>5, <3>4, <5>1
      <4>2. PICK m \in 1 .. n : acc.out[m] = RowFor(d, click, acc.id, up)
        BY <4>1 DEF PassInv, ElementsHaveRows
      <4>3. RowFor(d, click, a.id, up) = RowFor(d, click, acc.id, up)
        BY <2>6, <4>1
      <4>4. m \in 1 .. k - 2 /\ a.out[m] = RowFor(d, click, a.id, doc[i].up)
        BY <1>2, <2>10, <3>4, <4>2, <4>3
      <4>5. k > 1 /\ k - 1 = n + 1 /\ a.out[k] = L /\ a.out[k - 1] = R
        BY <1>2, <2>10, <3>4
      <4>6. i \in DOMAIN a.id
        BY <2>3
      <4> HIDE DEF up, n, doc
      <4> QED
        BY <4>1, <4>4, <4>5, <4>6 DEF R, L, up, doc
    <3> QED
      BY <2>11, <3>2, <3>3, <3>4
  <2>16. NodesGrow(a.out)
    <3>1. ASSUME NEW k \in 1 .. Len(a.out), IsRow(a.out, k)
          PROVE  \/ k \in 1 .. n /\ IsRow(acc.out, k)
                 \/ k = n + 1
      BY <2>8, <2>10, <2>11, <3>1 DEF IsRow
    <3>2. ASSUME NEW k \in 1 .. n, IsRow(acc.out, k)
          PROVE  a.out[k].of.node < i
      <4>1. PICK j \in DOMAIN acc.id : acc.out[k] = RowFor(d, click, acc.id, j)
        BY <3>2 DEF PassInv, RowsStandFor
      <4>2. a.out[k].of.node = j
        BY <2>10, <4>1, RowSays, NodeIdSays
      <4> QED
        BY <1>1, <1>2, <4>2
    <3>3. SUFFICES ASSUME NEW j \in 1 .. Len(a.out), NEW k \in 1 .. Len(a.out),
                          IsRow(a.out, j), IsRow(a.out, k), j < k
                   PROVE  a.out[j].of.node < a.out[k].of.node
      BY DEF NodesGrow
    <3>4. CASE j \in 1 .. n /\ k \in 1 .. n
      <4>1. IsRow(acc.out, j) /\ IsRow(acc.out, k)
        <5>1. n \in Nat
          BY <1>2
        <5>2. j # n + 1 /\ k # n + 1
          <6> HIDE DEF n
          <6> QED
            BY <3>4, <5>1
        <5> QED
          BY <3>1, <3>3, <5>2
      <4>2. acc.out[j].of.node < acc.out[k].of.node
        BY <3>3, <3>4, <4>1 DEF PassInv, NodesGrow
      <4> QED
        BY <2>10, <3>4, <4>2
    <3>5. CASE j \in 1 .. n /\ k = n + 1
      <4>1. j # n + 1
        <5>1. n \in Nat
          BY <1>2
        <5> HIDE DEF n
        <5> QED
          BY <3>5, <5>1
      <4>2. IsRow(acc.out, j)
        BY <3>1, <3>3, <4>1
      <4>3. a.out[j].of.node < i
        BY <3>2, <3>5, <4>2
      <4>4. a.out[k].of.node = i
        BY <2>7, <2>10, <3>5
      <4> QED
        BY <4>3, <4>4
    <3>6. ~ (j = n + 1 /\ (k \in 1 .. n \/ k = n + 1))
      <4> HIDE DEF n
      <4> QED
        BY <1>2, <3>3
    <3> QED
      BY <3>1, <3>3, <3>4, <3>5, <3>6
  <2> QED
    BY <2>4, <2>10, <2>13, <2>14, <2>15, <2>16, Zenon DEF PassInv, a
<1> QED
  BY <1>3, <1>4

LEMMA InsertStartInv ==
  ASSUME NEW d, NEW click, NEW b \in Nat, CounterBound(counters, b)
  PROVE  PassInv(d, click, b, 0, InsertStart)
<1>1. /\ InsertStart.count = counters /\ InsertStart.id = <<>> /\ InsertStart.out = <<>>
      /\ b + 0 = b /\ Len(<<>>) = 0
  BY DEF InsertStart, CountersBefore
<1>2. DOMAIN InsertStart.id = {} /\ 1 .. 0 = {}
  BY <1>1
<1>3. Numbered(d, b, 0, InsertStart)
  BY <1>1, <1>2 DEF Numbered
<1>4. InsertStart.out \in Seq(Inserts(Nat)) /\ 1 .. Len(InsertStart.out) = {}
  BY <1>1
<1>5. /\ RowsStandFor(d, click, InsertStart) /\ LinksFollow(d, click, InsertStart)
      /\ ElementsHaveRows(d, click, InsertStart)
  BY <1>2, <1>4, Zenon DEF RowsStandFor, ElementsHaveRows, LinksFollow
<1>6. NodesGrow(InsertStart.out)
  BY <1>4, Zenon DEF NodesGrow
<1> QED
  BY <1>3, <1>4, <1>5, <1>6, Zenon DEF PassInv

LEMMA PassInvHolds ==
  ASSUME NEW d \in DOMAIN Documents, NEW click \in 1 .. MaxClicks, NEW b \in Nat,
         CounterBound(counters, b)
  PROVE  PassInv(d, click, b, Len(Documents[d]), InsertPass(d, click))
<1> DEFINE N == Len(Documents[d])
<1>1. N \in Nat
  BY DocumentFacts
<1>2. PICK f : /\ f[0] = InsertStart
               /\ \A i \in 1 .. N : f[i] = InsertVisit(d, click, f[i - 1], i)
               /\ InsertPass(d, click) = f[N]
  BY <1>1, InsertPassEquation
<1> DEFINE S == {n \in Nat : n <= N => PassInv(d, click, b, n, f[n])}
<1>3. 0 \in S
  <2>1. PassInv(d, click, b, 0, f[0])
    BY <1>2, InsertStartInv
  <2> QED
    BY <2>1
<1>4. ASSUME NEW n \in Nat, n \in S
      PROVE  n + 1 \in S
  <2>1. SUFFICES ASSUME n + 1 <= N
                 PROVE  PassInv(d, click, b, n + 1, f[n + 1])
    OBVIOUS
  <2>2. n + 1 \in 1 .. N /\ (n + 1) - 1 = n
    BY <1>1, <1>4, <2>1
  <2>3. PassInv(d, click, b, n, f[n])
    BY <1>1, <1>4, <2>1
  <2>4. PassInv(d, click, b, n + 1, InsertVisit(d, click, f[n], n + 1))
    BY <2>2, <2>3, PassStep
  <2> QED
    BY <1>2, <2>2, <2>4
<1>5. N \in S
  <2> HIDE DEF S
  <2> QED
    BY <1>1, <1>3, <1>4, InductionInNat
<1> QED
  BY <1>1, <1>2, <1>5

LEMMA InsertPassShape ==
  ASSUME NEW d \in DOMAIN Documents, NEW click \in 1 .. MaxClicks, NEW b \in Nat,
         CounterBound(counters, b), b + Size <= MaxClicks * Size
  PROVE  /\ CounterBound(InsertPass(d, click).count, b + Size)
         /\ InsertPass(d, click).out \in Seq(Inserts(Identifiers))
         /\ WellFormed(InsertPass(d, click).out)
         /\ RowsOfClick(InsertPass(d, click).out, click)
         /\ Complete(InsertPass(d, click).out, d, click)
<1> DEFINE N == Len(Documents[d])
           acc == InsertPass(d, click)
           s == acc.out
<1>1. N \in Nat /\ Indices(Documents[d]) = 1 .. N /\ Size \in Nat /\ N <= Size /\ MaxClicks \in Nat
  BY DocumentFacts, SizeBounds, XmlAssumption
<1>2. PassInv(d, click, b, N, acc)
  BY PassInvHolds
<1> HIDE DEF acc
<1>3. CounterBound(acc.count, b + Size)
  <2>1. CounterBound(acc.count, b + N)
    BY <1>2 DEF PassInv, Numbered
  <2>2. \A x \in 1 .. b + N : x \in 1 .. b + Size
    BY <1>1
  <2> QED
    BY <2>1, <2>2 DEF CounterBound
<1>4. DOMAIN acc.id = {i \in 1 .. N : Visited(Documents[d], i)}
  BY <1>2 DEF PassInv, Numbered
<1>5. ASSUME NEW i \in DOMAIN acc.id
      PROVE  acc.id[i] \in Identifiers
  <2>1. acc.id[i] \in 1 .. b + N
    BY <1>2 DEF PassInv, Numbered
  <2>2. MaxClicks * Size \in Nat /\ Identifiers = 1 .. MaxClicks * Size
    BY <1>1, IdentifiersSuffice
  <2> HIDE DEF N
  <2> QED
    BY <1>1, <2>1, <2>2
<1>6. ASSUME NEW i \in DOMAIN acc.id, Documents[d][i].up # 0
      PROVE  Documents[d][i].up \in DOMAIN acc.id
  <2>1. i \in 1 .. N
    BY <1>4
  <2>2. Documents[d][i].up \in 1 .. i - 1 /\ Visited(Documents[d], Documents[d][i].up)
    BY <1>6, <2>1, ParentVisited
  <2>3. Documents[d][i].up \in 1 .. N
    <3> DEFINE u == Documents[d][i].up
    <3> HIDE DEF u, N
    <3>1. u \in 1 .. i - 1
      BY <2>2 DEF u
    <3>2. u \in 1 .. N
      BY <1>1, <2>1, <3>1
    <3> QED
      BY <3>2 DEF u
  <2> QED
    BY <1>4, <2>2, <2>3
<1>7. s \in Seq(Inserts(Nat)) /\ Len(s) \in Nat
  BY <1>2 DEF PassInv
<1>8. ASSUME NEW k \in 1 .. Len(s)
      PROVE  \/ /\ IsRow(s, k)
                /\ \E i \in DOMAIN acc.id : s[k] = RowFor(d, click, acc.id, i)
             \/ /\ IsLink(s, k)
                /\ \E i \in DOMAIN acc.id :
                     /\ Documents[d][i].up # 0 /\ k > 1
                     /\ s[k] = LinkFor(d, acc.id, i)
                     /\ s[k - 1] = RowFor(d, click, acc.id, i)
                     /\ \E m \in 1 .. k - 2 : s[m] = RowFor(d, click, acc.id, Documents[d][i].up)
  <2>1. s[k] \in Inserts(Nat)
    BY <1>7
  <2>2. IsRow(s, k) \/ IsLink(s, k)
    BY <2>1, StatementKind DEF IsRow, IsLink
  <2> QED
    BY <1>2, <2>2, Zenon DEF PassInv, RowsStandFor, LinksFollow
<1>9. s \in Seq(Inserts(Identifiers))
  <2>1. ASSUME NEW k \in 1 .. Len(s)
        PROVE  s[k] \in Inserts(Identifiers)
    <3>1. CASE \E i \in DOMAIN acc.id : s[k] = RowFor(d, click, acc.id, i)
      BY <1>4, <1>5, <3>1, StatementTyped DEF Inserts
    <3>2. CASE \E i \in DOMAIN acc.id : Documents[d][i].up # 0 /\ s[k] = LinkFor(d, acc.id, i)
      BY <1>4, <1>5, <1>6, <3>2, StatementTyped DEF Inserts
    <3> QED
      BY <1>8, <3>1, <3>2
  <2> HIDE DEF s
  <2> QED
    BY <1>7, <2>1
<1>10. RowsOfClick(s, click)
  <2>1. ASSUME NEW k \in 1 .. Len(s), IsRow(s, k)
        PROVE  s[k].of.click = click
    <3>1. PICK i \in DOMAIN acc.id : s[k] = RowFor(d, click, acc.id, i)
      BY <1>2, <2>1 DEF PassInv, RowsStandFor
    <3> QED
      BY <3>1, RowSays, NodeIdSays
  <2> QED
    BY <2>1 DEF RowsOfClick
<1>11. Complete(s, d, click)
  <2>1. SUFFICES ASSUME NEW i \in 1 .. N, Visited(Documents[d], i)
                 PROVE  \E k \in 1 .. Len(s) : Entry(s, d, click, i, k)
    BY <1>1, Zenon DEF Complete
  <2>2. i \in DOMAIN acc.id
    BY <1>4, <2>1
  <2>3. PICK k \in 1 .. Len(s) :
          /\ s[k] = RowFor(d, click, acc.id, i)
          /\ Documents[d][i].up # 0 =>
               k + 1 \in 1 .. Len(s) /\ s[k + 1] = LinkFor(d, acc.id, i)
    BY <1>2, <2>2 DEF PassInv, ElementsHaveRows
  <2>4. IsRow(s, k) /\ s[k].of = NodeId(d, click, i) /\ s[k].cols = RowColumns(Documents[d], i)
    BY <2>3, RowSays DEF IsRow
  <2>5. ASSUME Documents[d][i].up # 0
        PROVE  /\ IsLink(s, k + 1)
               /\ \E m \in 1 .. k - 1 :
                    /\ IsRow(s, m)
                    /\ s[m].of = NodeId(d, click, Documents[d][i].up)
                    /\ s[k + 1].table = <<s[m].table[1], s[k].table[1]>>
                    /\ s[k + 1].ids = <<s[m].id, s[k].id>>
    <3>1. IsLink(s, k + 1)
      BY <2>3, <2>5, LinkSays DEF IsLink
    <3>2. k + 1 \in 1 .. Len(s) /\ (k + 1) - 1 = k /\ (k + 1) - 2 = k - 1
      BY <1>7, <2>3, <2>5
    <3>3. PICK j \in DOMAIN acc.id :
            /\ s[k] = RowFor(d, click, acc.id, j)
            /\ \E m \in 1 .. k - 1 : s[m] = RowFor(d, click, acc.id, Documents[d][j].up)
      BY <1>2, <3>1, <3>2 DEF PassInv, LinksFollow
    <3>4. j = i
      <4>1. s[k].of = NodeId(d, click, j)
        BY <3>3, RowSays
      <4>2. s[k].of = NodeId(d, click, i)
        BY <2>3, RowSays
      <4>3. NodeId(d, click, j).node = j /\ NodeId(d, click, i).node = i
        BY NodeIdSays
      <4> QED
        BY <4>1, <4>2, <4>3
    <3>5. PICK m \in 1 .. k - 1 : s[m] = RowFor(d, click, acc.id, Documents[d][i].up)
      BY <3>3, <3>4
    <3>6. m \in 1 .. Len(s)
      BY <1>7
    <3>7. IsRow(s, m) /\ s[m].of = NodeId(d, click, Documents[d][i].up)
      BY <3>5, <3>6, RowSays DEF IsRow
    <3>8. s[k + 1].table = <<s[m].table[1], s[k].table[1]>>
      <4>1. /\ s[m].table = <<Documents[d][Documents[d][i].up].name>>
            /\ s[k].table = <<Documents[d][i].name>>
        BY <2>3, <3>5, RowSays
      <4>2. s[k + 1].table = <<Documents[d][Documents[d][i].up].name, Documents[d][i].name>>
        <5>1. s[k + 1] = LinkFor(d, acc.id, i)
          BY <2>3, <2>5
        <5> QED
          BY <5>1, LinkSays
      <4> QED
        BY <4>1, <4>2
    <3>9. s[k + 1].ids = <<s[m].id, s[k].id>>
      <4>1. s[k + 1] = LinkFor(d, acc.id, i)
        BY <2>3, <2>5
      <4>2. s[k + 1].ids = <<acc.id[Documents[d][i].up], acc.id[i]>>
        BY <4>1, LinkSays
      <4>3. s[m].id = acc.id[Documents[d][i].up] /\ s[k].id = acc.id[i]
        BY <2>3, <3>5, RowSays
      <4> QED
        BY <4>2, <4>3
    <3> QED
      BY <3>1, <3>7, <3>8, <3>9
  <2> QED
    BY <2>4, <2>5, Zenon DEF Entry
<1>12. WellFormed(s)
  <2>1. s \in Seq(Statements)
    BY <1>9 DEF Statements
  <2>3. \A j, k \in 1 .. Len(s) : IsRow(s, j) /\ IsRow(s, k) /\ s[j].of = s[k].of => j = k
    BY <1>2 DEF PassInv, RowsStandFor
  <2>4. ASSUME NEW k \in 1 .. Len(s), IsLink(s, k)
        PROVE  Joins(s, k)
    <3>1. PICK i \in DOMAIN acc.id :
            /\ Documents[d][i].up # 0 /\ k > 1
            /\ s[k] = LinkFor(d, acc.id, i)
            /\ s[k - 1] = RowFor(d, click, acc.id, i)
            /\ \E m \in 1 .. k - 2 : s[m] = RowFor(d, click, acc.id, Documents[d][i].up)
      BY <1>2, <2>4 DEF PassInv, LinksFollow
    <3>2. PICK m \in 1 .. k - 2 : s[m] = RowFor(d, click, acc.id, Documents[d][i].up)
      BY <3>1
    <3>3. k - 1 \in 1 .. Len(s) /\ m \in 1 .. Len(s)
      BY <1>7, <3>1
    <3>4. IsRow(s, k - 1) /\ IsRow(s, m)
      BY <3>1, <3>2, <3>3, RowSays DEF IsRow
    <3>5. IsParent(s[m].of, s[k - 1].of)
      <4>1. /\ s[m].of = NodeId(d, click, Documents[d][i].up)
            /\ s[k - 1].of = NodeId(d, click, i)
        BY <3>1, <3>2, RowSays
      <4> QED
        BY <4>1, NodeIdSays DEF IsParent
    <3>6. s[k].table = <<s[m].table[1], s[k - 1].table[1]>>
      <4>1. /\ s[m].table = <<Documents[d][Documents[d][i].up].name>>
            /\ s[k - 1].table = <<Documents[d][i].name>>
        BY <3>1, <3>2, RowSays
      <4>2. s[k].table = <<Documents[d][Documents[d][i].up].name, Documents[d][i].name>>
        BY <3>1, LinkSays
      <4> QED
        BY <4>1, <4>2
    <3>7. s[k].ids = <<s[m].id, s[k - 1].id>>
      BY <3>1, <3>2, RowSays, LinkSays
    <3> QED
      BY <3>1, <3>4, <3>5, <3>6, <3>7 DEF Joins
  <2>5. ASSUME NEW k \in 1 .. Len(s), IsRow(s, k)
        PROVE  Preceded(s, s[k].of.doc, s[k].of.click, s[k].of.node, k)
    <3>1. PICK x \in DOMAIN acc.id : s[k] = RowFor(d, click, acc.id, x)
      BY <1>2, <2>5 DEF PassInv, RowsStandFor
    <3>2. s[k].of.doc = d /\ s[k].of.click = click /\ s[k].of.node = x /\ x \in 1 .. N
      BY <1>4, <3>1, RowSays, NodeIdSays
    <3>3. SUFFICES ASSUME NEW i \in Indices(Documents[d]), Visited(Documents[d], i), i < x
                   PROVE  \E j \in 1 .. k - 1 : Entry(s, d, click, i, j)
      BY <3>2, Zenon DEF Preceded
    <3>4. PICK j \in 1 .. Len(s) : Entry(s, d, click, i, j)
      BY <1>11, <3>3 DEF Complete
    <3>5. IsRow(s, j) /\ s[j].of.node = i
      BY <3>4, NodeIdSays DEF Entry
    <3>6. ~ (k < j) /\ j # k
      <4>1. i \in Nat /\ x \in Nat
        BY <1>1, <3>2, <3>3
      <4>2. k < j => x < i
        BY <1>2, <2>5, <3>2, <3>5 DEF PassInv, NodesGrow
      <4> QED
        BY <3>2, <3>3, <3>5, <4>1, <4>2
    <3>7. j \in 1 .. k - 1
      BY <1>7, <3>6
    <3> QED
      BY <3>4, <3>7
  <2>6. InOrder(s)
    BY <2>5 DEF InOrder
  <2> QED
    BY <2>1, <2>3, <2>4, <2>6, Zenon DEF WellFormed
<1> QED
  BY <1>3, <1>9, <1>10, <1>11, <1>12 DEF acc

----------------------------------------------------------------------------
(* The whole script, and part of it                                        *)

\* Behind statements that create tables, a script stays what it was.
LEMMA BehindCreates ==
  ASSUME NEW C \in Seq(Creates), NEW S \in Seq(Inserts(Identifiers)), WellFormed(S),
         NEW d \in DOMAIN Documents, NEW click \in 1 .. MaxClicks,
         RowsOfClick(S, click), Complete(S, d, click)
  PROVE  WellFormed(C \o S) /\ RowsOfClick(C \o S, click) /\ Complete(C \o S, d, click)
<1> DEFINE W == C \o S
           n == Len(C)
<1>1. n \in Nat /\ Len(S) \in Nat
  OBVIOUS
<1>2. /\ W \in Seq(Statements)
      /\ Len(W) = n + Len(S)
      /\ \A k \in 1 .. n : W[k] \in Creates
      /\ \A k \in 1 .. Len(W) : k \notin 1 .. n => k - n \in 1 .. Len(S) /\ W[k] = S[k - n]
      /\ \A k \in 1 .. Len(S) : k + n \in 1 .. Len(W) /\ W[k + n] = S[k]
  <2>1. C \in Seq(Statements) /\ S \in Seq(Statements)
    BY DEF Statements
  <2> QED
    BY <2>1
<1> HIDE DEF W, n
<1>3. \A k \in 1 .. n : W[k].do = "create"
  BY <1>2, StatementKind
<1>4. ASSUME NEW k \in 1 .. Len(W), IsRow(W, k) \/ IsLink(W, k)
      PROVE  /\ k - n \in 1 .. Len(S) /\ W[k] = S[k - n]
             /\ IsRow(W, k) => IsRow(S, k - n)
             /\ IsLink(W, k) => IsLink(S, k - n)
  BY <1>2, <1>3, <1>4 DEF IsRow, IsLink
<1>5. ASSUME NEW k \in 1 .. Len(S)
      PROVE  /\ k + n \in 1 .. Len(W) /\ W[k + n] = S[k]
             /\ IsRow(S, k) => IsRow(W, k + n)
             /\ IsLink(S, k) => IsLink(W, k + n)
  BY <1>2 DEF IsRow, IsLink
<1>6. \A j, k \in 1 .. Len(W) : IsRow(W, j) /\ IsRow(W, k) /\ W[j].of = W[k].of => j = k
  <2>1. SUFFICES ASSUME NEW j \in 1 .. Len(W), NEW k \in 1 .. Len(W),
                        IsRow(W, j), IsRow(W, k), W[j].of = W[k].of
                 PROVE  j = k
    OBVIOUS
  <2>2. j - n = k - n
    BY <1>4, <2>1 DEF WellFormed
  <2> QED
    BY <1>1, <2>2
<1>7. ASSUME NEW k \in 1 .. Len(W), IsLink(W, k)
      PROVE  Joins(W, k)
  <2>1. k - n \in 1 .. Len(S) /\ W[k] = S[k - n] /\ Joins(S, k - n)
    BY <1>4, <1>7 DEF WellFormed
  <2>2. /\ k - n > 1 /\ IsRow(S, k - n - 1)
        /\ \E m \in 1 .. k - n - 2 :
             /\ IsRow(S, m) /\ IsParent(S[m].of, S[k - n - 1].of)
             /\ S[k - n].table = <<S[m].table[1], S[k - n - 1].table[1]>>
             /\ S[k - n].ids = <<S[m].id, S[k - n - 1].id>>
    BY <2>1 DEF Joins
  <2>3. PICK m \in 1 .. k - n - 2 :
          /\ IsRow(S, m) /\ IsParent(S[m].of, S[k - n - 1].of)
          /\ S[k - n].table = <<S[m].table[1], S[k - n - 1].table[1]>>
          /\ S[k - n].ids = <<S[m].id, S[k - n - 1].id>>
    BY <2>2
  <2>4. /\ k > 1 /\ k - n - 1 \in 1 .. Len(S) /\ (k - n - 1) + n = k - 1
        /\ m \in 1 .. Len(S) /\ m + n \in 1 .. k - 2
    <3>1. k \in Nat /\ k - n \in Nat /\ k - n > 1 /\ k - n <= Len(S)
      BY <1>1, <1>2, <2>1, <2>2
    <3>2. m \in Nat /\ 1 <= m /\ m <= k - n - 2
      BY <3>1
    <3> QED
      BY <1>1, <3>1, <3>2
  <2>5. W[k - 1] = S[k - n - 1] /\ IsRow(W, k - 1)
    BY <1>5, <2>2, <2>4
  <2>6. W[m + n] = S[m] /\ IsRow(W, m + n)
    BY <1>5, <2>3, <2>4
  <2> QED
    BY <2>1, <2>3, <2>4, <2>5, <2>6 DEF Joins
<1>8. RowsOfClick(W, click)
  <2>1. ASSUME NEW k \in 1 .. Len(W), IsRow(W, k)
        PROVE  W[k].of.click = click
    BY <1>4, <2>1 DEF RowsOfClick
  <2> QED
    BY <2>1 DEF RowsOfClick
<1>9. ASSUME NEW e, NEW t, NEW i, NEW k \in 1 .. Len(S), Entry(S, e, t, i, k)
      PROVE  Entry(W, e, t, i, k + n)
  <2> DEFINE Under(y, x) == /\ IsRow(W, y)
                            /\ W[y].of = NodeId(e, t, Documents[e][i].up)
                            /\ W[x + 1].table = <<W[y].table[1], W[x].table[1]>>
                            /\ W[x + 1].ids = <<W[y].id, W[x].id>>
             Linked(x) == IsLink(W, x + 1) /\ \E y \in 1 .. x - 1 : Under(y, x)
  <2>1. /\ IsRow(S, k)
        /\ S[k].of = NodeId(e, t, i)
        /\ S[k].cols = RowColumns(Documents[e], i)
        /\ Documents[e][i].up # 0 =>
             /\ IsLink(S, k + 1)
             /\ \E m \in 1 .. k - 1 :
                  /\ IsRow(S, m)
                  /\ S[m].of = NodeId(e, t, Documents[e][i].up)
                  /\ S[k + 1].table = <<S[m].table[1], S[k].table[1]>>
                  /\ S[k + 1].ids = <<S[m].id, S[k].id>>
    BY <1>9, Zenon DEF Entry
  <2>2. k + n \in 1 .. Len(W) /\ W[k + n] = S[k] /\ IsRow(W, k + n)
    BY <1>5, <2>1
  <2>3. ASSUME Documents[e][i].up # 0
        PROVE  Linked(k + n)
    <3>1. k + 1 \in 1 .. Len(S) /\ k + n + 1 = (k + 1) + n
      BY <1>1, <2>1, <2>3 DEF IsLink
    <3>2. W[k + n + 1] = S[k + 1] /\ IsLink(W, k + n + 1)
      BY <1>5, <2>1, <2>3, <3>1
    <3>3. PICK m \in 1 .. k - 1 :
            /\ IsRow(S, m)
            /\ S[m].of = NodeId(e, t, Documents[e][i].up)
            /\ S[k + 1].table = <<S[m].table[1], S[k].table[1]>>
            /\ S[k + 1].ids = <<S[m].id, S[k].id>>
      BY <2>1, <2>3
    <3>4. m \in 1 .. Len(S) /\ m + n \in 1 .. (k + n) - 1
      BY <1>1
    <3>5. W[m + n] = S[m] /\ IsRow(W, m + n)
      BY <1>5, <3>3, <3>4
    <3>6. Under(m + n, k + n)
      BY <2>2, <3>2, <3>3, <3>5
    <3>7. \E y \in 1 .. (k + n) - 1 : Under(y, k + n)
      <4> HIDE DEF Under
      <4> QED
        BY <3>4, <3>6
    <3> HIDE DEF Under
    <3> QED
      BY <3>2, <3>7, Zenon
  <2>4. /\ W[k + n].of = NodeId(e, t, i)
        /\ W[k + n].cols = RowColumns(Documents[e], i)
    BY <2>1, <2>2
  <2> QED
    BY <2>2, <2>3, <2>4, Zenon DEF Entry
<1>10. Complete(W, d, click)
  <2>1. SUFFICES ASSUME NEW i \in Indices(Documents[d]), Visited(Documents[d], i)
                 PROVE  \E k \in 1 .. Len(W) : Entry(W, d, click, i, k)
    BY Zenon DEF Complete
  <2>2. PICK k \in 1 .. Len(S) : Entry(S, d, click, i, k)
    BY <2>1, Zenon DEF Complete
  <2> QED
    BY <1>5, <1>9, <2>2
<1>11. ASSUME NEW k \in 1 .. Len(W), IsRow(W, k)
       PROVE  Preceded(W, W[k].of.doc, W[k].of.click, W[k].of.node, k)
  <2>1. PICK x : x = k - n
    OBVIOUS
  <2>2. x \in 1 .. Len(S) /\ W[k] = S[x] /\ IsRow(S, x)
    BY <1>4, <1>11, <2>1
  <2>3. PICK e, t, v : e = S[x].of.doc /\ t = S[x].of.click /\ v = S[x].of.node
    OBVIOUS
  <2>4. Preceded(S, e, t, v, x)
    BY <2>2, <2>3 DEF WellFormed, InOrder
  <2>5. ASSUME NEW i \in Indices(Documents[e]), Visited(Documents[e], i), i < v
        PROVE  \E j \in 1 .. k - 1 : Entry(W, e, t, i, j)
    <3>1. PICK j \in 1 .. x - 1 : Entry(S, e, t, i, j)
      BY <2>4, <2>5 DEF Preceded
    <3>2. j \in 1 .. Len(S) /\ j + n \in 1 .. k - 1
      BY <1>1, <2>1, <2>2
    <3> QED
      BY <1>9, <3>1, <3>2
  <2> QED
    BY <2>2, <2>3, <2>5, Zenon DEF Preceded
<1> QED
  BY <1>2, <1>6, <1>7, <1>8, <1>10, <1>11 DEF WellFormed, InOrder, W

\* w is s up to its statement n; behind that is at most one that is cut off.
Begins(w, s, n) ==
  /\ s \in Seq(Statements) /\ w \in Seq(Statements)
  /\ n \in 0 .. Len(s) /\ n <= Len(w)
  /\ \A k \in 1 .. n : w[k] = s[k]
  /\ \A k \in 1 .. Len(w) : w[k].do # "cut" => k \in 1 .. n

LEMMA BeginningBegins ==
  ASSUME NEW s \in Seq(Statements), NEW w \in Beginnings(s)
  PROVE  \E n \in Nat : Begins(w, s, n)
<1>1. PICK n \in 0 .. Len(s) - 1 : w \in {SubSeq(s, 1, n), Append(SubSeq(s, 1, n), CutOff)}
  BY DEF Beginnings
<1>2. Len(s) \in Nat /\ n \in Nat /\ n <= Len(s) /\ n \in 0 .. Len(s)
  BY <1>1
<1>3. CutOff \in Statements /\ CutOff.do = "cut"
  BY StatementKind DEF Statements
<1> DEFINE p == SubSeq(s, 1, n)
<1>4. p \in Seq(Statements) /\ Len(p) = n
  BY <1>2
<1>5. \A k \in 1 .. n : p[k] = s[k]
  BY <1>2
<1>6. w \in {p, Append(p, CutOff)}
  BY <1>1
<1> HIDE DEF p
<1>7. CASE w = p
  <2>1. \A k \in 1 .. Len(w) : k \in 1 .. n
    BY <1>4, <1>7
  <2> QED
    BY <1>2, <1>4, <1>5, <1>7, <2>1 DEF Begins
<1>8. CASE w = Append(p, CutOff)
  <2>1. w \in Seq(Statements) /\ Len(w) = n + 1 /\ w[n + 1] = CutOff
    BY <1>2, <1>3, <1>4, <1>8
  <2>2. \A k \in 1 .. n : w[k] = s[k]
    BY <1>2, <1>4, <1>5, <1>8
  <2>3. \A k \in 1 .. Len(w) : k \in 1 .. n \/ k = n + 1
    BY <1>2, <2>1
  <2>4. \A k \in 1 .. Len(w) : w[k].do # "cut" => k \in 1 .. n
    BY <1>3, <2>1, <2>3
  <2>5. n <= Len(w)
    BY <1>2, <2>1
  <2> QED
    BY <1>2, <2>1, <2>2, <2>4, <2>5 DEF Begins
<1> QED
  BY <1>6, <1>7, <1>8

LEMMA WholeBegins ==
  ASSUME NEW s \in Seq(Statements)
  PROVE  Begins(s, s, Len(s))
<1>1. Len(s) \in Nat
  OBVIOUS
<1> QED
  BY <1>1 DEF Begins

\* Rows and links of a beginning are those of the script.
LEMMA BeginningSays ==
  ASSUME NEW s, NEW w, NEW n, Begins(w, s, n)
  PROVE  /\ Len(s) \in Nat /\ Len(w) \in Nat /\ n \in Nat
         /\ \A k \in 1 .. n : /\ k \in 1 .. Len(w) /\ k \in 1 .. Len(s) /\ w[k] = s[k]
                              /\ (IsRow(w, k) <=> IsRow(s, k)) /\ (IsLink(w, k) <=> IsLink(s, k))
         /\ \A k : IsRow(w, k) \/ IsLink(w, k) => k \in 1 .. n /\ k \in 1 .. Len(w)
<1>1. Len(s) \in Nat /\ Len(w) \in Nat /\ n \in Nat
  BY DEF Begins
<1>2. \A k \in 1 .. n : k \in 1 .. Len(w) /\ k \in 1 .. Len(s) /\ w[k] = s[k]
  BY <1>1 DEF Begins
<1>3. \A k \in 1 .. n : (IsRow(w, k) <=> IsRow(s, k)) /\ (IsLink(w, k) <=> IsLink(s, k))
  BY <1>2 DEF IsRow, IsLink
<1>4. \A k : IsRow(w, k) \/ IsLink(w, k) => k \in 1 .. n /\ k \in 1 .. Len(w)
  <2>1. \A k : IsRow(w, k) \/ IsLink(w, k) => k \in 1 .. Len(w) /\ w[k].do # "cut"
    BY DEF IsRow, IsLink
  <2> QED
    BY <2>1 DEF Begins
<1> QED
  BY <1>1, <1>2, <1>3, <1>4

\* The beginning of a script is a script, with the rows in the same order.
LEMMA BeginningOfScript ==
  ASSUME NEW s, WellFormed(s), NEW click, RowsOfClick(s, click), NEW w, NEW n, Begins(w, s, n)
  PROVE  WellFormed(w) /\ RowsOfClick(w, click)
<1>1. Len(s) \in Nat /\ Len(w) \in Nat /\ n \in Nat
  BY BeginningSays
<1>2. \A k \in 1 .. n : /\ k \in 1 .. Len(w) /\ k \in 1 .. Len(s) /\ w[k] = s[k]
                        /\ (IsRow(w, k) <=> IsRow(s, k)) /\ (IsLink(w, k) <=> IsLink(s, k))
  BY BeginningSays
<1>3. \A k : IsRow(w, k) \/ IsLink(w, k) => k \in 1 .. n /\ k \in 1 .. Len(w)
  BY BeginningSays
<1>4. \A j, k \in 1 .. Len(w) : IsRow(w, j) /\ IsRow(w, k) /\ w[j].of = w[k].of => j = k
  BY <1>2, <1>3 DEF WellFormed
<1>5. ASSUME NEW k \in 1 .. Len(w), IsLink(w, k)
      PROVE  Joins(w, k)
  <2>1. k \in 1 .. n /\ k \in 1 .. Len(s) /\ Joins(s, k)
    BY <1>2, <1>3, <1>5 DEF WellFormed
  <2>2. k > 1 /\ k - 1 \in 1 .. n /\ IsRow(s, k - 1)
    BY <1>1, <2>1 DEF Joins
  <2>3. PICK m \in 1 .. k - 2 :
          /\ IsRow(s, m) /\ IsParent(s[m].of, s[k - 1].of)
          /\ s[k].table = <<s[m].table[1], s[k - 1].table[1]>>
          /\ s[k].ids = <<s[m].id, s[k - 1].id>>
    BY <2>1 DEF Joins
  <2>4. m \in 1 .. n
    BY <1>1, <2>1
  <2>5. w[k] = s[k] /\ w[k - 1] = s[k - 1] /\ w[m] = s[m] /\ IsRow(w, k - 1) /\ IsRow(w, m)
    BY <1>2, <2>1, <2>2, <2>3, <2>4
  <2> QED
    BY <2>2, <2>3, <2>5 DEF Joins
<1>6. ASSUME NEW k \in 1 .. Len(w), IsRow(w, k)
      PROVE  w[k].of.click = click
  BY <1>2, <1>3, <1>6 DEF RowsOfClick
<1>7. ASSUME NEW k \in 1 .. Len(w), IsRow(w, k),
             NEW d, NEW c, NEW i, NEW j \in 1 .. k - 1, Entry(s, d, c, i, j)
      PROVE  Entry(w, d, c, i, j)
  <2>1. k \in 1 .. n /\ IsRow(s, k) /\ j \in 1 .. n /\ j + 1 \in 1 .. n
    BY <1>1, <1>2, <1>3, <1>7
  <2>2. w[j] = s[j] /\ w[j + 1] = s[j + 1] /\ IsRow(w, j) /\ (IsLink(s, j + 1) => IsLink(w, j + 1))
    BY <1>2, <1>7, <2>1 DEF Entry
  <2>3. ASSUME Documents[d][i].up # 0
        PROVE  \E m \in 1 .. j - 1 :
                 /\ IsRow(w, m)
                 /\ w[m].of = NodeId(d, c, Documents[d][i].up)
                 /\ w[j + 1].table = <<w[m].table[1], w[j].table[1]>>
                 /\ w[j + 1].ids = <<w[m].id, w[j].id>>
    <3>1. PICK m \in 1 .. j - 1 :
             /\ IsRow(s, m)
             /\ s[m].of = NodeId(d, c, Documents[d][i].up)
             /\ s[j + 1].table = <<s[m].table[1], s[j].table[1]>>
             /\ s[j + 1].ids = <<s[m].id, s[j].id>>
      BY <1>7, <2>3, Zenon DEF Entry
    <3>2. m \in 1 .. n
      BY <1>1, <2>1, <3>1
    <3>3. IsRow(w, m) /\ w[m] = s[m]
      BY <1>2, <3>1, <3>2
    <3> QED
      BY <2>2, <3>1, <3>3
  <2> QED
    BY <1>7, <2>2, <2>3, Zenon DEF Entry
<1>8. ASSUME NEW k \in 1 .. Len(w), IsRow(w, k)
      PROVE  Preceded(w, w[k].of.doc, w[k].of.click, w[k].of.node, k)
  <2>1. k \in 1 .. Len(s) /\ IsRow(s, k) /\ w[k] = s[k]
    BY <1>2, <1>3, <1>8
  <2>2. Preceded(s, w[k].of.doc, w[k].of.click, w[k].of.node, k)
    BY <2>1 DEF WellFormed, InOrder
  <2> QED
    BY <1>7, <1>8, <2>2, Zenon DEF Preceded
<1>9. w \in Seq(Statements)
  BY DEF Begins
<1> QED
  BY <1>4, <1>5, <1>6, <1>8, <1>9 DEF WellFormed, RowsOfClick, InOrder

----------------------------------------------------------------------------
(* What the actions do                                                     *)

\* The script that generateSql writes at the next click.
LEMMA NewScript ==
  ASSUME ScriptInv, NEW d \in DOMAIN Documents, NEW garbled \in BOOLEAN, clicks < MaxClicks
  PROVE  LET first == TablePass(Documents[d], garbled)
             second == InsertPass(d, clicks + 1)
             all == first.out \o RelationPass(first.rels) \o second.out
         IN  /\ first.rels \in Seq(Names \X Names)
             /\ CounterBound(second.count, (clicks + 1) * Size)
             /\ WellFormed(all)
             /\ RowsOfClick(all, clicks + 1)
             /\ Complete(all, d, clicks + 1)
<1> DEFINE first == TablePass(Documents[d], garbled)
           second == InsertPass(d, clicks + 1)
           c == clicks + 1
           b == clicks * Size
<1>1. /\ clicks \in 0 .. MaxClicks /\ MaxClicks \in Nat /\ clicks \in Nat
      /\ c \in 1 .. MaxClicks /\ c \in 0 .. MaxClicks
  BY XmlAssumption DEF ScriptInv
<1>2. b \in Nat /\ c * Size = b + Size /\ b + Size <= MaxClicks * Size
  BY <1>1, IdentifiersSuffice
<1>3. first.out \in Seq(Creates) /\ first.rels \in Seq(Names \X Names)
  BY TablePassType DEF ScriptInv
<1>4. RelationPass(first.rels) \in Seq(Creates)
  BY <1>3, RelationPassType
<1>5. CounterBound(counters, b)
  BY DEF ScriptInv
<1>6. /\ CounterBound(second.count, b + Size)
      /\ second.out \in Seq(Inserts(Identifiers))
      /\ WellFormed(second.out)
      /\ RowsOfClick(second.out, c)
      /\ Complete(second.out, d, c)
  <2> HIDE DEF c, b
  <2> QED
    BY <1>1, <1>2, <1>5, InsertPassShape DEF c
<1> DEFINE tables == first.out \o RelationPass(first.rels)
<1>7. tables \in Seq(Creates)
  <2> HIDE DEF first
  <2> QED
    BY <1>3, <1>4
<1>8. /\ WellFormed(tables \o second.out)
      /\ RowsOfClick(tables \o second.out, c)
      /\ Complete(tables \o second.out, d, c)
  <2> HIDE DEF tables, c, second
  <2> QED
    BY <1>1, <1>6, <1>7, BehindCreates
<1> QED
  BY <1>2, <1>3, <1>6, <1>8

\* All of it is on the disk, or a beginning.
LEMMA ScriptOnDisk ==
  ASSUME NEW all, NEW c, WellFormed(all), RowsOfClick(all, c),
         script' = all \/ script' \in Beginnings(all)
  PROVE  /\ WellFormed(script') /\ RowsOfClick(script', c)
         /\ \E n \in Nat : Begins(script', all, n)
<1>1. all \in Seq(Statements)
  BY DEF WellFormed
<1>2. CASE script' = all
  <2>1. Len(all) \in Nat
    BY <1>1
  <2> QED
    BY <1>1, <1>2, <2>1, WholeBegins
<1>3. CASE script' \in Beginnings(all)
  <2>1. PICK w : w = script'
    OBVIOUS
  <2>2. PICK n \in Nat : Begins(w, all, n)
    BY <1>1, <1>3, <2>1, BeginningBegins
  <2>3. WellFormed(w) /\ RowsOfClick(w, c)
    BY <2>2, BeginningOfScript
  <2> QED
    BY <2>1, <2>2, <2>3
<1> QED
  BY <1>2, <1>3

LEMMA BuildEffect ==
  ASSUME ScriptInv, NEW d \in DOMAIN Documents, Build(d)
  PROVE  /\ clicks' = clicks + 1 /\ clicks \in 0 .. MaxClicks /\ clicks' \in 0 .. MaxClicks
         /\ relations' \in Seq(Names \X Names)
         /\ CounterBound(counters', clicks' * Size)
         /\ WellFormed(script') /\ RowsOfClick(script', clicks')
         /\ whole' \in BOOLEAN /\ (whole' => Complete(script', d, clicks'))
         /\ pos' = 1 /\ result' = "none" /\ building' = d
         /\ UNCHANGED <<schema, rows, links>>
<1>1. /\ clicks < MaxClicks /\ clicks' = clicks + 1 /\ pos' = 1 /\ result' = "none"
      /\ building' = d /\ UNCHANGED <<schema, rows, links>>
  BY DEF Build, Click, database
<1>2. clicks \in 0 .. MaxClicks /\ clicks' \in 0 .. MaxClicks
  BY <1>1, XmlAssumption DEF ScriptInv
<1>3. PICK garbled \in {FALSE} \union {"stack" \in Faults} :
        LET first == TablePass(Documents[d], garbled)
            second == InsertPass(d, clicks + 1)
            all == first.out \o RelationPass(first.rels) \o second.out
        IN  /\ relations' = first.rels
            /\ counters' = second.count
            /\ \/ whole' = TRUE /\ script' = all
               \/ whole' = FALSE /\ "disk" \in Faults /\ script' \in Beginnings(all)
  BY DEF Build
<1>4. garbled \in BOOLEAN
  <2> DEFINE stack == "stack" \in Faults
  <2>1. stack \in BOOLEAN
    OBVIOUS
  <2>2. garbled \in {FALSE} \union {stack}
    OBVIOUS
  <2> HIDE DEF stack
  <2> QED
    BY <2>1, <2>2
<1> DEFINE first == TablePass(Documents[d], garbled)
           second == InsertPass(d, clicks + 1)
           all == first.out \o RelationPass(first.rels) \o second.out
<1>5. /\ first.rels \in Seq(Names \X Names)
      /\ CounterBound(second.count, (clicks + 1) * Size)
      /\ WellFormed(all)
      /\ RowsOfClick(all, clicks + 1)
      /\ Complete(all, d, clicks + 1)
  BY <1>1, <1>4, NewScript
<1>6. /\ relations' = first.rels /\ counters' = second.count
      /\ whole' \in BOOLEAN /\ (whole' => script' = all)
      /\ script' = all \/ script' \in Beginnings(all)
  BY <1>3
<1> HIDE DEF first, second, all
<1>7. WellFormed(script') /\ RowsOfClick(script', clicks')
  BY <1>1, <1>5, <1>6, ScriptOnDisk
<1> QED
  BY <1>1, <1>2, <1>5, <1>6, <1>7

LEMMA KillEffect ==
  ASSUME ScriptInv, NEW d \in DOMAIN Documents, KilledWhileWriting(d)
  PROVE  /\ clicks' = clicks + 1 /\ clicks \in 0 .. MaxClicks /\ clicks' \in 0 .. MaxClicks
         /\ relations' = <<>> /\ counters' = <<>>
         /\ WellFormed(script') /\ RowsOfClick(script', clicks')
         /\ pos' = 0 /\ result' = "none" /\ building' = 0
         /\ UNCHANGED <<schema, rows, links>>
<1>1. /\ clicks < MaxClicks /\ clicks' = clicks + 1 /\ pos' = 0 /\ result' = "none"
      /\ building' = 0 /\ relations' = <<>> /\ counters' = <<>>
      /\ UNCHANGED <<schema, rows, links>>
  BY DEF KilledWhileWriting, Click, LoseMemory, database
<1>2. clicks \in 0 .. MaxClicks /\ clicks' \in 0 .. MaxClicks
  BY <1>1, XmlAssumption DEF ScriptInv
<1> DEFINE first == TablePass(Documents[d], FALSE)
           all == first.out \o RelationPass(first.rels) \o InsertPass(d, clicks + 1).out
<1>3. WellFormed(all) /\ RowsOfClick(all, clicks + 1)
  BY <1>1, NewScript
<1>4. script' \in Beginnings(all)
  BY DEF KilledWhileWriting
<1>5. WellFormed(script') /\ RowsOfClick(script', clicks')
  <2> HIDE DEF all
  <2> QED
    BY <1>1, <1>3, <1>4, ScriptOnDisk
<1> QED
  BY <1>1, <1>2, <1>5

LEMMA StopEffect ==
  ASSUME OpenFails \/ Refuse \/ Succeed \/ Restart
  PROVE  /\ pos' = 0
         /\ UNCHANGED <<script, clicks, schema, rows, links>>
         /\ relations' \in {relations, <<>>} /\ counters' \in {counters, <<>>}
BY DEF OpenFails, Refuse, Succeed, Restart, LoseMemory, memory, database

\* A statement that is executed is of one of three kinds.
LEMMA ExecuteEffect ==
  ASSUME ScriptInv, Execute
  PROVE  /\ pos \in 1 .. Len(script) /\ pos' = pos + 1 /\ Len(script) \in Nat
         /\ UNCHANGED <<relations, counters, script, clicks, result, building, whole>>
         /\ \/ /\ ~ IsRow(script, pos) /\ ~ IsLink(script, pos)
               /\ script[pos] \in Creates
               /\ schema' \in {schema, Put(schema, script[pos].table, ToSet(script[pos].cols))}
               /\ schema' # schema => script[pos].table \notin DOMAIN schema
               /\ UNCHANGED <<rows, links>>
            \/ /\ IsRow(script, pos) /\ ~ IsLink(script, pos)
               /\ script[pos] \in RowStatements(Identifiers)
               /\ script[pos].table \in DOMAIN schema
               /\ ToSet(script[pos].cols) \subseteq schema[script[pos].table]
               /\ ~ KeyTaken(script[pos])
               /\ rows' = rows \union {RowOf(script[pos])}
               /\ UNCHANGED <<schema, links>>
            \/ /\ IsLink(script, pos) /\ ~ IsRow(script, pos)
               /\ script[pos] \in LinkStatements(Identifiers)
               /\ \E l : /\ l.table = script[pos].table /\ l.ids = script[pos].ids
                         /\ links' = links \union {l}
               /\ UNCHANGED <<schema, rows>>
<1> DEFINE s == script[pos]
<1>1. /\ pos \in 1 .. Len(script) /\ pos' = pos + 1
      /\ UNCHANGED <<relations, counters, script, clicks, result, building, whole>>
  BY DEF Execute, Running, memory, history
<1>2. script \in Seq(Statements) /\ Len(script) \in Nat
  BY DEF ScriptInv, WellFormed
<1>3. s \in Statements
  BY <1>1, <1>2
<1>4. Cause(s) = "none"
  BY DEF Execute
<1>5. /\ schema' = IF s.do = "create" /\ s.table \notin DOMAIN schema
                   THEN Put(schema, s.table, ToSet(s.cols)) ELSE schema
      /\ rows' = IF s.do = "row" THEN rows \union {RowOf(s)} ELSE rows
      /\ s.do # "link" => links' = links
      /\ s.do = "link" => \E l : /\ l.table = s.table /\ l.ids = s.ids
                                 /\ links' = links \union {l}
  <2>1. /\ schema' = IF s.do = "create" /\ s.table \notin DOMAIN schema
                     THEN Put(schema, s.table, ToSet(s.cols)) ELSE schema
        /\ rows' = IF s.do = "row" THEN rows \union {RowOf(s)} ELSE rows
    BY Zenon DEF Execute, RowOf
  <2>2. links' = IF s.do = "link"
                 THEN links \union {[table |-> s.table, ids |-> s.ids,
                        key |-> Cardinality({l \in links : l.table = s.table}) + 1]}
                 ELSE links
    BY Zenon DEF Execute
  <2> DEFINE key == Cardinality({l \in links : l.table = s.table}) + 1
             l == [table |-> s.table, ids |-> s.ids, key |-> key]
  <2> HIDE DEF key
  <2>3. l.table = s.table /\ l.ids = s.ids
    OBVIOUS
  <2>4. s.do = "link" => links' = links \union {l}
    BY <2>2, Zenon DEF key
  <2> HIDE DEF l
  <2> QED
    BY <2>1, <2>2, <2>3, <2>4
<1> HIDE DEF s
<1>6. CASE s \in Creates
  <2>1. s.do = "create"
    BY <1>6, StatementKind
  <2>2. ~ IsRow(script, pos) /\ ~ IsLink(script, pos)
    BY <2>1 DEF IsRow, IsLink, s
  <2> QED
    BY <1>1, <1>2, <1>5, <1>6, <2>1, <2>2 DEF s
<1>7. CASE s \in RowStatements(Identifiers)
  <2>1. s.do = "row"
    BY <1>7 DEF RowStatements
  <2>2. IsRow(script, pos) /\ ~ IsLink(script, pos)
    BY <1>1, <2>1 DEF IsRow, IsLink, s
  <2>3. s.table \in DOMAIN schema /\ ToSet(s.cols) \subseteq schema[s.table] /\ ~ KeyTaken(s)
    BY <1>4, <2>1 DEF Cause
  <2> QED
    BY <1>1, <1>2, <1>5, <1>7, <2>1, <2>2, <2>3 DEF s
<1>8. CASE s \in LinkStatements(Identifiers)
  <2>1. s.do = "link"
    BY <1>8 DEF LinkStatements
  <2>2. IsLink(script, pos) /\ ~ IsRow(script, pos)
    BY <1>1, <2>1 DEF IsRow, IsLink, s
  <2> QED
    BY <1>1, <1>2, <1>5, <1>8, <2>1, <2>2 DEF s
<1>9. CASE s \in {CutOff, NoFile[1]}
  <2>1. s.do \in {"cut", "no file"}
    BY <1>9, StatementKind
  <2>2. Cause(s) = "syntax"
    BY <2>1 DEF Cause
  <2> QED
    BY <1>4, <2>2
<1> QED
  BY <1>3, <1>6, <1>7, <1>8, <1>9 DEF Statements, Inserts

----------------------------------------------------------------------------
(* The script is well formed whatever happens                              *)

LEMMA NothingWritten == NoFile \in Seq(Statements) /\ Len(NoFile) = 1 /\ NoFile[1].do = "no file"
<1> DEFINE s == NoFile[1]
<1>1. NoFile = <<s>>
  BY DEF NoFile
<1>2. s.do = "no file"
  BY DEF NoFile
<1>3. s \in Statements
  BY DEF Statements
<1>4. NoFile \in Seq(Statements) /\ Len(NoFile) = 1
  <2> HIDE DEF s
  <2> QED
    BY <1>1, <1>3
<1> QED
  BY <1>2, <1>4

LEMMA ScriptInvInit == Init => ScriptInv
<1> SUFFICES ASSUME Init PROVE ScriptInv
  OBVIOUS
<1>1. /\ relations = <<>> /\ counters = <<>> /\ script = NoFile /\ pos = 0 /\ clicks = 0
  BY DEF Init
<1>2. relations \in Seq(Names \X Names)
  BY <1>1
<1>3. CounterBound(counters, clicks * Size)
  <2>1. DOMAIN counters = {}
    BY <1>1
  <2> QED
    BY <2>1 DEF CounterBound
<1>4. clicks \in 0 .. MaxClicks /\ pos \in 0 .. Len(script) + 1
  <2>1. MaxClicks \in Nat /\ Len(script) = 1
    BY <1>1, NothingWritten, XmlAssumption
  <2> QED
    BY <1>1, <2>1
<1>5. \A k \in 1 .. Len(script) : ~ IsRow(script, k) /\ ~ IsLink(script, k)
  <2>1. \A k \in 1 .. 1 : k = 1
    OBVIOUS
  <2> QED
    BY <1>1, <2>1, NothingWritten DEF IsRow, IsLink
<1>6. WellFormed(script)
  BY <1>1, <1>5, NothingWritten DEF WellFormed, InOrder
<1> QED
  BY <1>2, <1>3, <1>4, <1>5, <1>6, Zenon DEF ScriptInv

LEMMA EmptyCounters ==
  ASSUME NEW b
  PROVE  CounterBound(<<>>, b)
<1>1. DOMAIN <<>> = {}
  OBVIOUS
<1> QED
  BY <1>1 DEF CounterBound

LEMMA MoreClicks ==
  ASSUME NEW c \in 0 .. MaxClicks, c + 1 \in 0 .. MaxClicks,
         NEW count, CounterBound(count, c * Size)
  PROVE  CounterBound(count, (c + 1) * Size)
<1>1. MaxClicks \in Nat /\ Size \in Nat /\ c \in Nat
  BY XmlAssumption, SizeBounds
<1>2. c * Size \in Nat /\ (c + 1) * Size = c * Size + Size
  BY <1>1, IdentifiersSuffice
<1> DEFINE b == c * Size
<1>3. \A x \in 1 .. b : x \in 1 .. b + Size
  <2> HIDE DEF b
  <2>1. b \in Nat
    BY <1>2 DEF b
  <2> QED
    BY <1>1, <2>1
<1> QED
  BY <1>2, <1>3 DEF CounterBound

LEMMA ScriptInvNext == ScriptInv /\ [Next]_vars => ScriptInv'
<1> SUFFICES ASSUME ScriptInv, [Next]_vars PROVE ScriptInv'
  OBVIOUS
<1> DEFINE Upto(s, c) == \A k \in 1 .. Len(s) : IsRow(s, k) => s[k].of.click <= c
<1>1. ASSUME /\ relations' \in Seq(Names \X Names)
             /\ CounterBound(counters', clicks' * Size)
             /\ clicks' \in 0 .. MaxClicks
             /\ WellFormed(script')
             /\ Upto(script', clicks')
             /\ pos' \in 0 .. Len(script') + 1
      PROVE  ScriptInv'
  BY <1>1, Zenon DEF ScriptInv
<1>2. ASSUME NEW s, RowsOfClick(s, clicks'), clicks' \in 0 .. MaxClicks
      PROVE  Upto(s, clicks')
  BY <1>2, XmlAssumption DEF RowsOfClick
<1>3. ASSUME NEW s, WellFormed(s)
      PROVE  {0, 1} \subseteq 0 .. Len(s) + 1
  <2>1. Len(s) \in Nat
    BY <1>3 DEF WellFormed
  <2> QED
    BY <2>1
<1>4. /\ relations \in Seq(Names \X Names) /\ CounterBound(counters, clicks * Size)
      /\ clicks \in 0 .. MaxClicks /\ WellFormed(script) /\ Upto(script, clicks)
      /\ pos \in 0 .. Len(script) + 1
  BY Zenon DEF ScriptInv
<1> HIDE DEF Upto
<1>5. ASSUME NEW d \in DOMAIN Documents, Build(d)
      PROVE  ScriptInv'
  <2>1. /\ clicks' \in 0 .. MaxClicks /\ relations' \in Seq(Names \X Names)
        /\ CounterBound(counters', clicks' * Size)
        /\ WellFormed(script') /\ RowsOfClick(script', clicks') /\ pos' = 1
    BY <1>5, BuildEffect
  <2>2. Upto(script', clicks') /\ pos' \in 0 .. Len(script') + 1
    BY <1>2, <1>3, <2>1
  <2> QED
    BY <1>1, <2>1, <2>2
<1>6. ASSUME NEW d \in DOMAIN Documents, KilledWhileWriting(d)
      PROVE  ScriptInv'
  <2>1. /\ clicks' \in 0 .. MaxClicks /\ relations' = <<>> /\ counters' = <<>>
        /\ WellFormed(script') /\ RowsOfClick(script', clicks') /\ pos' = 0
    BY <1>6, KillEffect
  <2>2. Upto(script', clicks') /\ pos' \in 0 .. Len(script') + 1
    BY <1>2, <1>3, <2>1
  <2>3. relations' \in Seq(Names \X Names) /\ CounterBound(counters', clicks' * Size)
    BY <2>1, EmptyCounters
  <2> QED
    BY <1>1, <2>1, <2>2, <2>3
<1>7. CASE BuildWithoutScript
  <2>1. /\ clicks < MaxClicks /\ clicks' = clicks + 1 /\ pos' = 1
        /\ UNCHANGED <<relations, counters, script>>
    BY <1>7 DEF BuildWithoutScript, Click, memory
  <2>2. clicks' \in 0 .. MaxClicks
    BY <1>4, <2>1, XmlAssumption
  <2>3. CounterBound(counters', clicks' * Size)
    BY <1>4, <2>1, <2>2, MoreClicks
  <2>4. Upto(script', clicks')
    <3>1. ASSUME NEW k \in 1 .. Len(script), IsRow(script, k)
          PROVE  script[k].of.click <= clicks + 1
      <4>1. script[k] \in Statements /\ script[k].do = "row"
        BY <1>4, <3>1 DEF WellFormed, IsRow
      <4>2. script[k] \in RowStatements(Identifiers)
        BY <4>1, StatementKind DEF Statements, Inserts
      <4>3. script[k].of.click \in 1 .. MaxClicks
        BY <4>2 DEF RowStatements, NodeIds
      <4>4. script[k].of.click <= clicks
        BY <1>4, <3>1 DEF Upto
      <4> QED
        BY <1>4, <4>3, <4>4, XmlAssumption
    <3> QED
      BY <2>1, <3>1 DEF Upto
  <2>5. pos' \in 0 .. Len(script') + 1
    BY <1>3, <1>4, <2>1
  <2> QED
    BY <1>1, <1>4, <2>1, <2>2, <2>3, <2>4, <2>5
<1>8. CASE OpenFails \/ Refuse \/ Succeed \/ Restart
  <2>1. /\ pos' = 0 /\ UNCHANGED <<script, clicks>>
        /\ relations' \in {relations, <<>>} /\ counters' \in {counters, <<>>}
    BY <1>8, StopEffect
  <2>2. relations' \in Seq(Names \X Names)
    <3>1. <<>> \in Seq(Names \X Names)
      OBVIOUS
    <3> QED
      BY <1>4, <2>1, <3>1, Zenon
  <2>3. CounterBound(counters', clicks' * Size)
    BY <1>4, <2>1, EmptyCounters
  <2>4. pos' \in 0 .. Len(script') + 1
    BY <1>3, <1>4, <2>1
  <2> QED
    BY <1>1, <1>4, <2>1, <2>2, <2>3, <2>4
<1>9. CASE Execute
  <2>1. /\ pos \in 1 .. Len(script) /\ pos' = pos + 1 /\ Len(script) \in Nat
        /\ UNCHANGED <<relations, counters, script, clicks>>
    BY <1>9, ExecuteEffect
  <2>2. pos' \in 0 .. Len(script') + 1
    BY <2>1
  <2> QED
    BY <1>1, <1>4, <2>1, <2>2
<1>10. CASE UNCHANGED vars
  <2>1. UNCHANGED <<relations, counters, script, clicks, pos>>
    BY <1>10 DEF vars, memory
  <2> QED
    BY <1>1, <1>4, <2>1
<1> QED
  BY <1>5, <1>6, <1>7, <1>8, <1>9, <1>10 DEF Next

\* The script is always well-formed, also the part of it that a killed process leaves:
\* a row for an element is written once, its link right behind it and after the row of
\* the parent, and identifiers are those counted so far. This is what insertData builds
\* by recursion, carried over to every state in which the script may be executed.
THEOREM ScriptInvHolds == Spec => []ScriptInv
BY ScriptInvInit, ScriptInvNext, PTL DEF Spec

----------------------------------------------------------------------------
(* The rows and links of the database                                      *)

LEMMA DataInvInit == Init => DataInv
<1> SUFFICES ASSUME Init PROVE DataInv
  OBVIOUS
<1>1. rows = {} /\ links = {} /\ pos = 0
  BY DEF Init
<1>2. 1 .. pos - 1 = {}
  BY <1>1
<1>3. ~ IsLink(script, pos)
  BY <1>1 DEF IsLink
<1> QED
  BY <1>1, <1>2, <1>3, Zenon
     DEF DataInv, RowsTyped, RowsUnique, RowsRepeat, RowsExecuted, LinksJoin,
          LinksUnique, ChildIsFresh

\* The handler starts, with the script of the document or with the old one.
LEMMA DataInvClick ==
  ASSUME DataInv, UNCHANGED <<rows, links>>,
         clicks \in 0 .. MaxClicks, clicks' = clicks + 1, pos' \in {0, 1},
         WellFormed(script'), RowsOfClick(script', clicks') \/ script' = script
  PROVE  DataInv'
<1>1. MaxClicks \in Nat /\ clicks \in Nat
  BY XmlAssumption
<1>2. RowsTyped'
  <2>1. ASSUME NEW r \in rows
        PROVE  r.of.click <= clicks'
    <3>1. r \in [table : ElementTables, id : Identifiers, of : NodeIds] /\ r.of.click <= clicks
      BY DEF DataInv, RowsTyped
    <3>2. r.of.click \in 1 .. MaxClicks
      BY <3>1 DEF NodeIds
    <3> QED
      BY <1>1, <3>1, <3>2
  <2> QED
    BY <2>1 DEF DataInv, RowsTyped
<1>3. RowsUnique' /\ LinksJoin' /\ LinksUnique'
  BY DEF DataInv, RowsUnique, LinksJoin, LinksUnique, Ends
<1>4. RowsRepeat'
  <2>1. CASE script' = script
    BY <2>1 DEF DataInv, RowsRepeat
  <2>2. CASE RowsOfClick(script', clicks')
    <3>1. ASSUME NEW r \in rows, NEW k \in 1 .. Len(script'), IsRow(script', k)
          PROVE  script'[k].of # r.of
      <4>1. script'[k].of.click = clicks + 1
        BY <2>2, <3>1 DEF RowsOfClick
      <4>2. r \in [table : ElementTables, id : Identifiers, of : NodeIds] /\ r.of.click <= clicks
        BY DEF DataInv, RowsTyped
      <4>3. r.of.click \in 1 .. MaxClicks
        BY <4>2 DEF NodeIds
      <4>4. r.of.click # clicks + 1
        BY <1>1, <4>2, <4>3
      <4> QED
        BY <4>1, <4>4
    <3> QED
      BY <3>1 DEF RowsRepeat
  <2> QED
    BY <2>1, <2>2
<1>5. RowsExecuted'
  <2>1. ASSUME NEW p \in {0, 1}
        PROVE  1 .. p - 1 = {}
    OBVIOUS
  <2>2. 1 .. pos' - 1 = {}
    BY <2>1
  <2> QED
    BY <2>2 DEF RowsExecuted
<1>6. ChildIsFresh'
  <2>1. ~ IsLink(script', pos')
    <3>1. CASE pos' = 0
      BY <3>1 DEF IsLink
    <3>2. CASE pos' = 1
      <4>1. ~ Joins(script', 1)
        BY DEF Joins
      <4> QED
        BY <3>2, <4>1 DEF WellFormed, IsLink
    <3> QED
      BY <3>1, <3>2
  <2> QED
    BY <2>1 DEF ChildIsFresh
<1> QED
  BY <1>2, <1>3, <1>4, <1>5, <1>6, Zenon DEF DataInv

\* The handler ends.
LEMMA DataInvStop ==
  ASSUME DataInv, UNCHANGED <<rows, links, script, clicks>>, pos' = 0
  PROVE  DataInv'
<1>1. RowsTyped' /\ RowsUnique' /\ RowsRepeat' /\ LinksJoin' /\ LinksUnique'
  BY DEF DataInv, RowsTyped, RowsUnique, RowsRepeat, LinksJoin, LinksUnique, Ends
<1>2. RowsExecuted'
  <2>1. ASSUME NEW p, p = 0
        PROVE  1 .. p - 1 = {}
    BY <2>1
  <2>2. 1 .. pos' - 1 = {}
    BY <2>1
  <2> QED
    BY <2>2 DEF RowsExecuted
<1>3. ChildIsFresh'
  BY DEF ChildIsFresh, IsLink
<1> QED
  BY <1>1, <1>2, <1>3, Zenon DEF DataInv

\* The first part of a link's child.
LEMMA RowOfSays ==
  ASSUME NEW s \in RowStatements(Identifiers)
  PROVE  /\ RowOf(s) \in [table : ElementTables, id : Identifiers, of : NodeIds]
         /\ RowOf(s).table = s.table /\ RowOf(s).id = s.id /\ RowOf(s).of = s.of
         /\ s.table = <<s.table[1]>>
<1>1. s.table \in ElementTables /\ s.id \in Identifiers /\ s.of \in NodeIds
  BY DEF RowStatements
<1>2. \A t \in ElementTables : t = <<t[1]>>
  BY DEF ElementTables
<1> QED
  BY <1>1, <1>2 DEF RowOf

\* The next statement's link is to a row of this statement.
LEMMA LinkFollowsRow ==
  ASSUME ScriptInv, NEW k \in Nat, IsLink(script, k)
  PROVE  /\ k > 1 /\ IsRow(script, k - 1)
         /\ script[k - 1] \in RowStatements(Identifiers)
         /\ script[k].table[2] = script[k - 1].table[1]
         /\ script[k].ids[2] = script[k - 1].id
         /\ \E m \in 1 .. k - 2 :
              /\ IsRow(script, m) /\ IsParent(script[m].of, script[k - 1].of)
              /\ script[m] \in RowStatements(Identifiers)
              /\ script[k].table[1] = script[m].table[1]
              /\ script[k].ids[1] = script[m].id
<1>1. WellFormed(script) /\ k \in 1 .. Len(script)
  BY DEF ScriptInv, IsLink
<1>2. Joins(script, k)
  BY <1>1 DEF WellFormed
<1>3. ASSUME NEW m, IsRow(script, m)
      PROVE  script[m] \in RowStatements(Identifiers)
  <2>1. script[m] \in Statements /\ script[m].do = "row"
    BY <1>1, <1>3 DEF WellFormed, IsRow
  <2> QED
    BY <2>1, StatementKind DEF Statements, Inserts
<1>4. PICK m \in 1 .. k - 2 :
        /\ IsRow(script, m) /\ IsParent(script[m].of, script[k - 1].of)
        /\ script[k].table = <<script[m].table[1], script[k - 1].table[1]>>
        /\ script[k].ids = <<script[m].id, script[k - 1].id>>
  BY <1>2 DEF Joins
<1>5. k > 1 /\ IsRow(script, k - 1)
  BY <1>2 DEF Joins
<1>6. /\ script[k].table[2] = script[k - 1].table[1] /\ script[k].ids[2] = script[k - 1].id
      /\ script[k].table[1] = script[m].table[1] /\ script[k].ids[1] = script[m].id
  BY <1>4
<1> QED
  BY <1>3, <1>4, <1>5, <1>6

\* Whatever is not a row, the next statement is not a link.
LEMMA NoLinkBehind ==
  ASSUME ScriptInv, UNCHANGED script, pos \in Nat, pos' = pos + 1, ~ IsRow(script, pos)
  PROVE  ChildIsFresh'
<1>1. ~ IsLink(script, pos + 1)
  <2>1. SUFFICES ASSUME IsLink(script, pos + 1) PROVE FALSE
    OBVIOUS
  <2>2. pos + 1 \in Nat /\ (pos + 1) - 1 = pos
    OBVIOUS
  <2>3. IsRow(script, (pos + 1) - 1)
    BY <2>1, <2>2, LinkFollowsRow
  <2> QED
    BY <2>2, <2>3
<1> QED
  BY <1>1 DEF ChildIsFresh

LEMMA DataInvExecuteCreate ==
  ASSUME ScriptInv, DataInv, pos \in 1 .. Len(script), pos' = pos + 1,
         UNCHANGED <<script, clicks, rows, links>>, ~ IsRow(script, pos)
  PROVE  DataInv'
<1>1. RowsTyped' /\ RowsUnique' /\ RowsRepeat' /\ LinksJoin' /\ LinksUnique'
  BY DEF DataInv, RowsTyped, RowsUnique, RowsRepeat, LinksJoin, LinksUnique, Ends
<1>2. RowsExecuted'
  <2>1. \A k \in 1 .. pos' - 1 : k = pos \/ k \in 1 .. pos - 1
    OBVIOUS
  <2> QED
    BY <2>1 DEF DataInv, RowsExecuted
<1>3. ChildIsFresh'
  <2>1. pos \in Nat
    OBVIOUS
  <2> QED
    BY <2>1, NoLinkBehind
<1> QED
  BY <1>1, <1>2, <1>3, Zenon DEF DataInv

LEMMA RowIsNew ==
  ASSUME DataInv, IsRow(script, pos), ~ KeyTaken(script[pos]), NEW r \in rows
  PROVE  /\ ~ (r.table = script[pos].table /\ r.id = script[pos].id)
         /\ r.of # script[pos].of
<1>1. ~ (r.table = script[pos].table /\ r.id = script[pos].id)
  BY DEF KeyTaken
<1>2. pos \in 1 .. Len(script)
  BY DEF IsRow
<1> QED
  BY <1>1, <1>2 DEF DataInv, RowsRepeat

LEMMA DataInvExecuteRow ==
  ASSUME ScriptInv, DataInv, pos \in 1 .. Len(script), pos' = pos + 1,
         UNCHANGED <<script, clicks, links>>, IsRow(script, pos),
         script[pos] \in RowStatements(Identifiers), ~ KeyTaken(script[pos]),
         rows' = rows \union {RowOf(script[pos])}
  PROVE  DataInv'
<1> DEFINE s == script[pos]
           new == RowOf(s)
<1>1. /\ new \in [table : ElementTables, id : Identifiers, of : NodeIds]
      /\ new.table = s.table /\ new.id = s.id /\ new.of = s.of
      /\ s.table = <<s.table[1]>>
  BY RowOfSays
<1>2. \A r \in rows : ~ (r.table = s.table /\ r.id = s.id) /\ r.of # s.of
  BY RowIsNew
<1>3. \A k \in 1 .. Len(script) : IsRow(script, k) /\ script[k].of = s.of => k = pos
  BY DEF ScriptInv, WellFormed
<1>4. s.of.click <= clicks
  BY DEF ScriptInv
<1>5. rows' = rows \union {new}
  OBVIOUS
<1> HIDE DEF new
<1>6. RowsTyped'
  BY <1>1, <1>4, <1>5 DEF DataInv, RowsTyped
<1>7. RowsUnique'
  <2>1. SUFFICES ASSUME NEW r \in rows', NEW q \in rows',
                        (r.table = q.table /\ r.id = q.id) \/ r.of = q.of
                 PROVE  r = q
    BY DEF RowsUnique
  <2>2. CASE r \in rows /\ q \in rows
    BY <2>1, <2>2 DEF DataInv, RowsUnique
  <2>3. CASE r = new /\ q \in rows
    BY <1>1, <1>2, <2>1, <2>3
  <2>4. CASE q = new /\ r \in rows
    BY <1>1, <1>2, <2>1, <2>4
  <2> QED
    BY <1>5, <2>2, <2>3, <2>4
<1>8. RowsRepeat'
  <2>1. SUFFICES ASSUME NEW r \in rows', NEW k \in 1 .. Len(script),
                        IsRow(script, k), script[k].of = r.of
                 PROVE  script[k].table = r.table /\ script[k].id = r.id
    BY DEF RowsRepeat
  <2>2. CASE r \in rows
    BY <2>1, <2>2 DEF DataInv, RowsRepeat
  <2>3. CASE r = new
    BY <1>1, <1>3, <2>1, <2>3
  <2> QED
    BY <1>5, <2>2, <2>3
<1>9. RowsExecuted'
  <2>1. \A k \in 1 .. pos' - 1 : k = pos \/ k \in 1 .. pos - 1
    OBVIOUS
  <2> QED
    BY <1>5, <2>1 DEF DataInv, RowsExecuted, new
<1>10. LinksJoin' /\ LinksUnique'
  BY <1>5 DEF DataInv, LinksJoin, LinksUnique, Ends
<1>11. ChildIsFresh'
  <2>1. SUFFICES ASSUME IsLink(script, pos + 1), NEW l \in links, SameChild(l, script[pos + 1])
                 PROVE  FALSE
    BY DEF ChildIsFresh
  <2>2. pos + 1 \in Nat /\ (pos + 1) - 1 = pos
    OBVIOUS
  <2>3. script[pos + 1].table[2] = s.table[1] /\ script[pos + 1].ids[2] = s.id
    BY <2>1, <2>2, LinkFollowsRow
  <2>4. PICK p \in rows, c \in rows : Ends(l, p, c)
    BY DEF DataInv, LinksJoin
  <2>5. c.table = <<l.table[2]>> /\ c.id = l.ids[2] /\ c \in rows
    BY <2>4 DEF Ends
  <2>6. c.table = s.table /\ c.id = s.id
    BY <1>1, <2>1, <2>3, <2>5 DEF SameChild
  <2> QED
    BY <1>2, <2>6
<1> QED
  BY <1>6, <1>7, <1>8, <1>9, <1>10, <1>11, Zenon DEF DataInv

\* A link that is about to be executed has its ends in the database.
LEMMA EndsAreThere ==
  ASSUME ScriptInv, DataInv, pos \in 1 .. Len(script), IsLink(script, pos), NEW l,
         l.table = script[pos].table, l.ids = script[pos].ids
  PROVE  \E p, c \in rows : Ends(l, p, c) /\ IsParent(p.of, c.of)
<1>1. pos \in Nat
  OBVIOUS
<1>2. /\ pos > 1 /\ IsRow(script, pos - 1)
      /\ script[pos - 1] \in RowStatements(Identifiers)
      /\ script[pos].table[2] = script[pos - 1].table[1]
      /\ script[pos].ids[2] = script[pos - 1].id
  BY <1>1, LinkFollowsRow
<1>3. PICK m \in 1 .. pos - 2 :
        /\ IsRow(script, m) /\ IsParent(script[m].of, script[pos - 1].of)
        /\ script[m] \in RowStatements(Identifiers)
        /\ script[pos].table[1] = script[m].table[1]
        /\ script[pos].ids[1] = script[m].id
  BY <1>1, LinkFollowsRow
<1> DEFINE p == RowOf(script[m])
           c == RowOf(script[pos - 1])
<1>4. p \in rows /\ c \in rows
  <2>1. m \in 1 .. pos - 1 /\ pos - 1 \in 1 .. pos - 1
    BY <1>2
  <2> QED
    BY <1>2, <1>3, <2>1 DEF DataInv, RowsExecuted
<1>5. /\ p.table = script[m].table /\ p.id = script[m].id /\ p.of = script[m].of
      /\ script[m].table = <<script[m].table[1]>>
  BY <1>3, RowOfSays
<1>6. /\ c.table = script[pos - 1].table /\ c.id = script[pos - 1].id
      /\ c.of = script[pos - 1].of
      /\ script[pos - 1].table = <<script[pos - 1].table[1]>>
  BY <1>2, RowOfSays
<1>7. Ends(l, p, c)
  <2> HIDE DEF p, c
  <2> QED
    BY <1>2, <1>3, <1>4, <1>5, <1>6 DEF Ends
<1> QED
  BY <1>3, <1>4, <1>5, <1>6, <1>7

LEMMA DataInvExecuteLink ==
  ASSUME ScriptInv, DataInv, pos \in 1 .. Len(script), pos' = pos + 1,
         UNCHANGED <<script, clicks, rows>>, IsLink(script, pos), ~ IsRow(script, pos), NEW l,
         l.table = script[pos].table, l.ids = script[pos].ids, links' = links \union {l}
  PROVE  DataInv'
<1>1. RowsTyped' /\ RowsUnique' /\ RowsRepeat'
  BY DEF DataInv, RowsTyped, RowsUnique, RowsRepeat
<1>2. RowsExecuted'
  <2>1. \A k \in 1 .. pos' - 1 : k = pos \/ k \in 1 .. pos - 1
    OBVIOUS
  <2> QED
    BY <2>1 DEF DataInv, RowsExecuted
<1>3. ChildIsFresh'
  <2>1. pos \in Nat
    OBVIOUS
  <2> QED
    BY <2>1, NoLinkBehind
<1>4. LinksJoin'
  <2>1. ASSUME NEW m \in links'
        PROVE  \E p, c \in rows : Ends(m, p, c) /\ IsParent(p.of, c.of)
    <3>1. CASE m \in links
      BY <3>1 DEF DataInv, LinksJoin
    <3>2. CASE m = l
      BY <3>2, EndsAreThere
    <3> QED
      BY <3>1, <3>2
  <2> QED
    BY <2>1 DEF LinksJoin, Ends
<1>5. LinksUnique'
  <2>1. \A m \in links : ~ SameChild(m, l) /\ ~ SameChild(l, m)
    BY DEF DataInv, ChildIsFresh, SameChild
  <2> QED
    BY <2>1 DEF DataInv, LinksUnique
<1> QED
  BY <1>1, <1>2, <1>3, <1>4, <1>5, Zenon DEF DataInv

LEMMA DataInvNext == ScriptInv /\ DataInv /\ [Next]_vars => DataInv'
<1> SUFFICES ASSUME ScriptInv, DataInv, [Next]_vars PROVE DataInv'
  OBVIOUS
<1>1. ASSUME NEW d \in DOMAIN Documents, Build(d)
      PROVE  DataInv'
  <2>1. /\ clicks' = clicks + 1 /\ clicks \in 0 .. MaxClicks
        /\ WellFormed(script') /\ RowsOfClick(script', clicks') /\ pos' = 1
        /\ UNCHANGED <<rows, links>>
    BY <1>1, BuildEffect
  <2> QED
    BY <2>1, DataInvClick
<1>2. ASSUME NEW d \in DOMAIN Documents, KilledWhileWriting(d)
      PROVE  DataInv'
  <2>1. /\ clicks' = clicks + 1 /\ clicks \in 0 .. MaxClicks
        /\ WellFormed(script') /\ RowsOfClick(script', clicks') /\ pos' = 0
        /\ UNCHANGED <<rows, links>>
    BY <1>2, KillEffect
  <2> QED
    BY <2>1, DataInvClick
<1>3. CASE BuildWithoutScript
  <2>1. /\ clicks' = clicks + 1 /\ pos' = 1 /\ UNCHANGED <<script, rows, links>>
    BY <1>3 DEF BuildWithoutScript, Click, database
  <2>2. clicks \in 0 .. MaxClicks /\ WellFormed(script')
    BY <2>1 DEF ScriptInv
  <2> QED
    BY <2>1, <2>2, DataInvClick
<1>4. CASE OpenFails \/ Refuse \/ Succeed \/ Restart
  BY <1>4, StopEffect, DataInvStop
<1>5. CASE Execute
  <2>1. /\ pos \in 1 .. Len(script) /\ pos' = pos + 1 /\ UNCHANGED <<script, clicks>>
    BY <1>5, ExecuteEffect
  <2>2. CASE ~ IsRow(script, pos) /\ ~ IsLink(script, pos)
    <3>1. UNCHANGED <<rows, links>>
      BY <1>5, <2>2, ExecuteEffect
    <3> QED
      BY <2>1, <2>2, <3>1, DataInvExecuteCreate
  <2>3. CASE IsRow(script, pos)
    <3>1. /\ script[pos] \in RowStatements(Identifiers) /\ ~ KeyTaken(script[pos])
          /\ rows' = rows \union {RowOf(script[pos])} /\ UNCHANGED links
      BY <1>5, <2>3, ExecuteEffect
    <3> QED
      BY <2>1, <2>3, <3>1, DataInvExecuteRow
  <2>4. CASE IsLink(script, pos) /\ ~ IsRow(script, pos)
    <3>1. PICK l : /\ l.table = script[pos].table /\ l.ids = script[pos].ids
                   /\ links' = links \union {l}
      BY <1>5, <2>4, ExecuteEffect
    <3>2. UNCHANGED rows
      BY <1>5, <2>4, ExecuteEffect
    <3> QED
      BY <2>1, <2>4, <3>1, <3>2, DataInvExecuteLink
  <2> QED
    BY <2>2, <2>3, <2>4
<1>6. CASE UNCHANGED vars
  BY <1>6 DEF vars, database, DataInv, RowsTyped, RowsUnique, RowsRepeat, RowsExecuted,
              LinksJoin, LinksUnique, ChildIsFresh, Ends
<1> QED
  BY <1>1, <1>2, <1>3, <1>4, <1>5, <1>6 DEF Next

LEMMA InvHolds == Spec => [](ScriptInv /\ DataInv)
<1>1. Init => ScriptInv /\ DataInv
  BY ScriptInvInit, DataInvInit
<1>2. ScriptInv /\ DataInv /\ [Next]_vars => (ScriptInv /\ DataInv)'
  BY ScriptInvNext, DataInvNext
<1> QED
  BY <1>1, <1>2, PTL DEF Spec

\* A link joins one row to one other.
LEMMA JoinedPair ==
  ASSUME RowsUnique, NEW l, NEW p \in rows, NEW c \in rows, Ends(l, p, c)
  PROVE  Joined(l) = {<<p, c>>}
<1>1. {r \in rows : r.table = <<l.table[1]>> /\ r.id = l.ids[1]} = {p}
  BY DEF RowsUnique, Ends
<1>2. {r \in rows : r.table = <<l.table[2]>> /\ r.id = l.ids[2]} = {c}
  BY DEF RowsUnique, Ends
<1>3. Joined(l) = {p} \X {c}
  BY <1>1, <1>2, Zenon DEF Joined
<1> QED
  BY <1>3

LEMMA LinksResolveInv == DataInv => LinksResolve
<1> SUFFICES ASSUME DataInv PROVE LinksResolve
  OBVIOUS
<1>1. ASSUME NEW l \in links
      PROVE  Cardinality(Joined(l)) = 1 /\ \A j \in Joined(l) : IsParent(j[1].of, j[2].of)
  <2>1. PICK p \in rows, c \in rows : Ends(l, p, c) /\ IsParent(p.of, c.of)
    BY DEF DataInv, LinksJoin
  <2>2. Joined(l) = {<<p, c>>}
    BY <2>1, JoinedPair DEF DataInv
  <2>3. Cardinality({<<p, c>>}) = 1
    BY FS_Singleton
  <2> QED
    BY <2>1, <2>2, <2>3
<1>2. \A l, m \in links : l.table = m.table /\ l.ids = m.ids => l = m
  BY DEF DataInv, LinksUnique, SameChild
<1> QED
  BY <1>1, <1>2 DEF LinksResolve

\* For any documents, any number of clicks and any faults, every link joins the
\* rows of an element and its parent, exactly one each, and no two links join the
\* same, although SQLite enforces neither.
THEOREM LinksResolveHolds == Spec => []LinksResolve
BY InvHolds, LinksResolveInv, PTL

----------------------------------------------------------------------------
(* The refinement of the store of trees                                    *)

Stored == {r.of : r \in rows}
NestingsOf(l) == {<<j[1].of, j[2].of>> : j \in Joined(l)}
Recorded == UNION {NestingsOf(l) : l \in links}

LEMMA NestingOfLink ==
  ASSUME DataInv, NEW l \in links
  PROVE  \E p, c \in rows :
           Ends(l, p, c) /\ Joined(l) = {<<p, c>>} /\ NestingsOf(l) = {<<p.of, c.of>>}
<1>1. PICK p \in rows, c \in rows : Ends(l, p, c)
  BY DEF DataInv, LinksJoin
<1>2. Joined(l) = {<<p, c>>}
  BY <1>1, JoinedPair DEF DataInv
<1>3. NestingsOf(l) = {<<p.of, c.of>>}
  <2>1. <<p, c>>[1] = p /\ <<p, c>>[2] = c
    OBVIOUS
  <2> QED
    BY <1>2, <2>1 DEF NestingsOf
<1> QED
  BY <1>1, <1>2, <1>3

LEMMA StoreInitially == Init => Store!StoreInit
<1> SUFFICES ASSUME Init PROVE Store!StoreInit
  OBVIOUS
<1>1. Stored = {} /\ Recorded = {}
  BY DEF Init, Stored, Recorded
<1> QED
  BY <1>1 DEF Store!StoreInit, Stored, Recorded, NestingsOf

\* Executing the row of an element stores a node.
LEMMA RowIsAddNode ==
  ASSUME ScriptInv, DataInv, DataInv', UNCHANGED links, IsRow(script, pos),
         script[pos] \in RowStatements(Identifiers), ~ KeyTaken(script[pos]),
         rows' = rows \union {RowOf(script[pos])}
  PROVE  Store!StoreNext
<1> DEFINE e == script[pos].of
<1>1. RowOf(script[pos]).of = e /\ e \in NodeIds
  BY RowOfSays DEF RowStatements
<1>2. e \notin Stored
  BY RowIsNew DEF Stored
<1>3. Stored' = Stored \union {e}
  BY <1>1 DEF Stored
<1>4. Recorded' = Recorded
  <2>1. ASSUME NEW l \in links
        PROVE  NestingsOf(l)' = NestingsOf(l)
    <3>1. PICK p \in rows, c \in rows : Ends(l, p, c)
      BY DEF DataInv, LinksJoin
    <3>2. Joined(l) = {<<p, c>>}
      BY <3>1, JoinedPair DEF DataInv
    <3>3. Joined(l)' = {<<p, c>>}
      <4>1. {r \in rows' : r.table = <<l.table[1]>> /\ r.id = l.ids[1]} = {p}
        BY <3>1 DEF Ends, DataInv, RowsUnique
      <4>2. {r \in rows' : r.table = <<l.table[2]>> /\ r.id = l.ids[2]} = {c}
        BY <3>1 DEF Ends, DataInv, RowsUnique
      <4>3. Joined(l)' = {p} \X {c}
        BY <4>1, <4>2, Zenon DEF Joined
      <4> QED
        BY <4>3
    <3> QED
      BY <3>2, <3>3 DEF NestingsOf
  <2> QED
    BY <2>1 DEF Recorded
<1>5. e \in NodeIds
  BY <1>1
<1> HIDE DEF e
<1>6. Store!AddNode(e)
  BY <1>2, <1>3, <1>4 DEF Store!AddNode, Stored, Recorded, NestingsOf
<1> QED
  BY <1>5, <1>6 DEF Store!StoreNext, Store!AddNode

\* Executing a link records the nesting of two nodes that are stored.
LEMMA LinkIsNest ==
  ASSUME ScriptInv, DataInv, UNCHANGED rows, pos \in 1 .. Len(script), IsLink(script, pos), NEW l,
         l.table = script[pos].table, l.ids = script[pos].ids, links' = links \union {l}
  PROVE  Store!StoreNext
<1>1. PICK p \in rows, c \in rows : Ends(l, p, c) /\ IsParent(p.of, c.of)
  BY EndsAreThere
<1>2. NestingsOf(l) = {<<p.of, c.of>>}
  <2>1. Joined(l) = {<<p, c>>}
    BY <1>1, JoinedPair DEF DataInv
  <2>2. <<p, c>>[1] = p /\ <<p, c>>[2] = c
    OBVIOUS
  <2> QED
    BY <2>1, <2>2 DEF NestingsOf
<1>3. \A m : NestingsOf(m)' = NestingsOf(m)
  BY DEF NestingsOf, Joined
<1>4. Recorded' = Recorded \union {<<p.of, c.of>>}
  BY <1>2, <1>3 DEF Recorded
<1>5. <<p.of, c.of>> \notin Recorded
  <2>1. SUFFICES ASSUME NEW m \in links, <<p.of, c.of>> \in NestingsOf(m) PROVE FALSE
    BY DEF Recorded
  <2>2. PICK q \in rows, e \in rows : Ends(m, q, e) /\ NestingsOf(m) = {<<q.of, e.of>>}
    BY NestingOfLink
  <2>3. c.of = e.of
    BY <2>1, <2>2
  <2>4. c = e
    BY <2>3 DEF DataInv, RowsUnique
  <2>5. <<l.table[2]>> = <<m.table[2]>> /\ l.ids[2] = m.ids[2]
    BY <1>1, <2>2, <2>4 DEF Ends
  <2>6. l.table[2] = m.table[2]
    BY <2>5
  <2>7. SameChild(m, script[pos])
    BY <2>5, <2>6 DEF SameChild
  <2> QED
    BY <2>7 DEF DataInv, ChildIsFresh
<1>6. p.of \in Stored /\ c.of \in Stored /\ Stored' = Stored
  BY DEF Stored
<1> DEFINE a == p.of
           b == c.of
<1>7. Store!Nest(a, b)
  <2>1. /\ IsParent(a, b) /\ {a, b} \subseteq Stored /\ <<a, b>> \notin Recorded
        /\ Recorded' = Recorded \union {<<a, b>>} /\ Stored' = Stored
    BY <1>1, <1>4, <1>5, <1>6
  <2> HIDE DEF a, b
  <2> QED
    BY <2>1 DEF Store!Nest, Stored, Recorded, NestingsOf
<1>8. a \in Stored /\ b \in Stored
  BY <1>6
<1> HIDE DEF a, b
<1> QED
  BY <1>7, <1>8 DEF Store!StoreNext, Stored

LEMMA NothingStored ==
  ASSUME UNCHANGED <<rows, links>>
  PROVE  UNCHANGED Store!storeVars
BY DEF Store!storeVars, Joined

LEMMA StoreNextStep ==
  ScriptInv /\ DataInv /\ DataInv' /\ [Next]_vars => [Store!StoreNext]_(Store!storeVars)
<1> SUFFICES ASSUME ScriptInv, DataInv, DataInv', [Next]_vars
             PROVE  Store!StoreNext \/ UNCHANGED Store!storeVars
  OBVIOUS
<1>1. ASSUME NEW d \in DOMAIN Documents, Build(d) \/ KilledWhileWriting(d)
      PROVE  UNCHANGED <<rows, links>>
  BY <1>1, BuildEffect, KillEffect
<1>2. CASE BuildWithoutScript
  BY <1>2, NothingStored DEF BuildWithoutScript, Click, database
<1>3. CASE OpenFails \/ Refuse \/ Succeed \/ Restart
  BY <1>3, StopEffect, NothingStored
<1>4. CASE Execute
  <2>1. pos \in 1 .. Len(script)
    BY <1>4, ExecuteEffect
  <2>2. CASE ~ IsRow(script, pos) /\ ~ IsLink(script, pos)
    BY <1>4, <2>2, ExecuteEffect, NothingStored
  <2>3. CASE IsRow(script, pos)
    <3>1. /\ script[pos] \in RowStatements(Identifiers) /\ ~ KeyTaken(script[pos])
          /\ rows' = rows \union {RowOf(script[pos])} /\ UNCHANGED links
      BY <1>4, <2>3, ExecuteEffect
    <3> QED
      BY <2>3, <3>1, RowIsAddNode
  <2>4. CASE IsLink(script, pos) /\ ~ IsRow(script, pos)
    <3>1. PICK l : /\ l.table = script[pos].table /\ l.ids = script[pos].ids
                   /\ links' = links \union {l}
      BY <1>4, <2>4, ExecuteEffect
    <3>2. UNCHANGED rows
      BY <1>4, <2>4, ExecuteEffect
    <3> QED
      BY <2>1, <2>4, <3>1, <3>2, LinkIsNest
  <2> QED
    BY <2>2, <2>3, <2>4
<1>5. CASE UNCHANGED vars
  BY <1>5, NothingStored DEF vars, database
<1> QED
  BY <1>1, <1>2, <1>3, <1>4, <1>5, NothingStored DEF Next

\* For any documents, clicks and faults the database is a store of trees: it only
\* grows, an element is stored once, and a nesting is recorded once, under the
\* element's own parent, after both ends.
THEOREM ImplementsTreeStoreHolds == Spec => ImplementsTreeStore
<1>1. ScriptInv /\ DataInv /\ (ScriptInv /\ DataInv)' /\ [Next]_vars
        => [Store!StoreNext]_(Store!storeVars)
  BY StoreNextStep
<1> QED
  BY <1>1, StoreInitially, InvHolds, PTL DEF Spec, ImplementsTreeStore, Store!StoreSpec

----------------------------------------------------------------------------
(* Types                                                                   *)

LEMMA CauseType == ASSUME NEW s PROVE Cause(s) \in {"none", "table", "column", "key", "syntax"}
BY DEF Cause

LEMMA FailuresType ==
  ASSUME NEW s, NEW f \in Failures(s)
  PROVE  f \in {"table", "column", "key", "syntax", "disk"}
BY CauseType DEF Failures

LEMMA PutDomain ==
  ASSUME NEW f, NEW k, NEW v
  PROVE  DOMAIN Put(f, k, v) = DOMAIN f \union {k}
BY DEF Put

LEMMA PutElsewhere ==
  ASSUME NEW f, NEW k, NEW v, NEW x \in DOMAIN f, x # k
  PROVE  Put(f, k, v)[x] = f[x]
BY DEF Put

LEMMA TypeInvInit == Init => TypeInv
<1> SUFFICES ASSUME Init PROVE TypeInv
  OBVIOUS
<1>1. DOMAIN schema = {}
  BY DEF Init
<1> QED
  BY <1>1 DEF Init, TypeInv

LEMMA TypeInvNext == ScriptInv /\ TypeInv /\ [Next]_vars => TypeInv'
<1> SUFFICES ASSUME ScriptInv, TypeInv, [Next]_vars PROVE TypeInv'
  OBVIOUS
<1>1. ASSUME NEW d \in DOMAIN Documents, Build(d)
      PROVE  TypeInv'
  BY <1>1 DEF TypeInv, Build, Click, database
<1>2. ASSUME NEW d \in DOMAIN Documents, KilledWhileWriting(d)
      PROVE  TypeInv'
  BY <1>2 DEF TypeInv, KilledWhileWriting, Click, LoseMemory, database
<1>3. CASE BuildWithoutScript
  BY <1>3 DEF TypeInv, BuildWithoutScript, Click, database
<1>4. CASE OpenFails
  BY <1>4 DEF TypeInv, OpenFails, database, history
<1>5. CASE Execute
  <2>1. UNCHANGED <<result, building, whole, built, restarts>>
    BY <1>5 DEF Execute, history
  <2>2. pos \in 1 .. Len(script)
    BY <1>5, ExecuteEffect
  <2>3. CASE ~ IsRow(script, pos) /\ ~ IsLink(script, pos)
    <3>1. /\ script[pos] \in Creates /\ links' = links
          /\ schema' \in {schema, Put(schema, script[pos].table, ToSet(script[pos].cols))}
      BY <1>5, <2>3, ExecuteEffect
    <3>2. script[pos].table \in Tables
      BY <3>1, StatementKind
    <3>3. DOMAIN schema' \subseteq Tables
      <4> DEFINE t == script[pos].table
                 v == ToSet(script[pos].cols)
      <4>1. schema' = schema \/ schema' = Put(schema, t, v)
        BY <3>1
      <4>2. DOMAIN Put(schema, t, v) = DOMAIN schema \union {t}
        BY PutDomain
      <4> HIDE DEF t, v
      <4>3. t \in Tables
        BY <3>2 DEF t
      <4> QED
        BY <4>1, <4>2, <4>3 DEF TypeInv
    <3> QED
      BY <2>1, <3>1, <3>3, Zenon DEF TypeInv
  <2>4. CASE IsRow(script, pos)
    <3>1. UNCHANGED <<schema, links>>
      BY <1>5, <2>4, ExecuteEffect
    <3> QED
      BY <2>1, <3>1 DEF TypeInv
  <2>5. CASE IsLink(script, pos) /\ ~ IsRow(script, pos)
    <3>1. PICK l : /\ l.table = script[pos].table /\ l.ids = script[pos].ids
                   /\ links' = links \union {l}
      BY <1>5, <2>5, ExecuteEffect
    <3>2. UNCHANGED schema /\ script[pos] \in LinkStatements(Identifiers)
      BY <1>5, <2>5, ExecuteEffect
    <3>3. l.table \in Names \X Names /\ l.ids \in Identifiers \X Identifiers
      BY <3>1, <3>2 DEF LinkStatements
    <3>4. \A m \in links' : m.table \in Names \X Names /\ m.ids \in Identifiers \X Identifiers
      BY <3>1, <3>3 DEF TypeInv
    <3> QED
      BY <2>1, <3>2, <3>4, Zenon DEF TypeInv
  <2> QED
    BY <2>3, <2>4, <2>5
<1>6. CASE Refuse
  <2>1. /\ result' \in {"table", "column", "key", "syntax", "disk"}
        /\ UNCHANGED <<schema, links, building, whole, built, restarts>>
    BY <1>6, FailuresType, Zenon DEF Refuse, database, history
  <2> QED
    BY <2>1 DEF TypeInv
<1>7. CASE Succeed
  BY <1>7 DEF TypeInv, Succeed, database, history
<1>8. CASE Restart
  BY <1>8 DEF TypeInv, Restart, LoseMemory, database
<1>9. CASE UNCHANGED vars
  BY <1>9 DEF TypeInv, vars, database, history
<1> QED
  BY <1>1, <1>2, <1>3, <1>4, <1>5, <1>6, <1>7, <1>8, <1>9 DEF Next

LEMMA TypeOKInv == ScriptInv /\ DataInv /\ TypeInv => TypeOK
<1> SUFFICES ASSUME ScriptInv, DataInv, TypeInv PROVE TypeOK
  OBVIOUS
<1>1. relations \in Seq(Names \X Names) /\ clicks \in 0 .. MaxClicks /\ pos \in 0 .. Len(script) + 1
  BY DEF ScriptInv
<1>2. DOMAIN counters \subseteq Names /\ \A n \in DOMAIN counters : counters[n] \in Identifiers
  <2>1. clicks * Size \in Nat /\ clicks * Size <= MaxClicks * Size /\ MaxClicks * Size \in Nat
    <3>1. MaxClicks \in 0 .. MaxClicks
      BY XmlAssumption
    <3> QED
      BY <1>1, <3>1, IdentifiersSuffice
  <2>2. Identifiers = 1 .. MaxClicks * Size
    BY IdentifiersSuffice
  <2> DEFINE b == clicks * Size
             c == MaxClicks * Size
  <2>3. \A x \in 1 .. b : x \in Identifiers
    <3> HIDE DEF b, c
    <3>1. b \in Nat /\ c \in Nat /\ b <= c /\ Identifiers = 1 .. c
      BY <2>1, <2>2 DEF b, c
    <3> QED
      BY <3>1
  <2>4. CounterBound(counters, b)
    BY DEF ScriptInv
  <2> HIDE DEF b
  <2> QED
    BY <2>3, <2>4 DEF CounterBound
<1>3. \A s \in ToSet(script) : s.do \in {"cut", "no file"} \/ s.table \in Tables
  <2>1. \A s \in Statements : s.do \in {"cut", "no file"} \/ s.table \in Tables
    BY StatementKind DEF Statements
  <2>2. script \in Seq(Statements)
    BY DEF ScriptInv, WellFormed
  <2>3. ToSet(script) \subseteq Statements
    BY <2>2 DEF ToSet
  <2> QED
    BY <2>1, <2>3
<1>4. ElementTables \subseteq Tables /\ Names \X Names \subseteq Tables
  BY DEF ElementTables, Tables
<1>5. rows \subseteq [table : Tables, id : Identifiers, of : NodeIds]
  BY <1>4 DEF DataInv, RowsTyped
<1>6. \A l \in links : l.table \in Tables /\ l.ids \in Identifiers \X Identifiers
  BY <1>4 DEF TypeInv
<1> QED
  BY <1>1, <1>2, <1>3, <1>5, <1>6, Zenon DEF TypeOK, TypeInv

\* The variables have their types: above all, the identifiers given out stay below
\* the number of elements of all clicks, whatever is refused or lost.
THEOREM TypeOKHolds == Spec => []TypeOK
<1>1. Init => TypeInv
  BY TypeInvInit
<1>2. ScriptInv /\ DataInv /\ TypeInv /\ [Next]_vars => TypeInv'
  BY TypeInvNext
<1>3. ScriptInv /\ DataInv /\ TypeInv => TypeOK
  BY TypeOKInv
<1> QED
  BY <1>1, <1>2, <1>3, InvHolds, PTL DEF Spec

----------------------------------------------------------------------------
(* Success                                                                 *)

LEMMA ScriptCompleteInit == Init => ScriptComplete
BY DEF Init, ScriptComplete

LEMMA ScriptCompleteNext == ScriptInv /\ ScriptComplete /\ [Next]_vars => ScriptComplete'
<1> SUFFICES ASSUME ScriptInv, ScriptComplete, [Next]_vars,
                    building' # 0, whole', pos' # 0 \/ result' = "success"
             PROVE  Complete(script', building', clicks')
  BY Zenon DEF ScriptComplete
<1>1. ASSUME pos # 0 \/ result = "success", UNCHANGED <<script, building, whole, clicks>>
      PROVE  Complete(script', building', clicks')
  BY <1>1 DEF ScriptComplete
<1>2. ASSUME NEW d \in DOMAIN Documents, Build(d)
      PROVE  Complete(script', building', clicks')
  BY <1>2, BuildEffect
<1>3. ASSUME NEW d \in DOMAIN Documents, KilledWhileWriting(d)
      PROVE  FALSE
  BY <1>3, KillEffect
<1>4. ~ BuildWithoutScript
  BY DEF BuildWithoutScript
<1>5. ~ OpenFails
  BY DEF OpenFails
<1>6. CASE Execute
  <2>1. UNCHANGED <<script, building, whole, clicks>>
    BY <1>6, Zenon DEF Execute, history
  <2>2. pos # 0
    BY <1>6, ExecuteEffect
  <2> QED
    BY <1>1, <2>1, <2>2
<1>7. ~ Refuse
  <2>1. Refuse => pos' = 0 /\ result' # "success"
    BY FailuresType, Zenon DEF Refuse
  <2> QED
    BY <2>1
<1>8. CASE Succeed
  <2>1. UNCHANGED <<script, building, whole, clicks>> /\ pos > Len(script)
    BY <1>8 DEF Succeed, history
  <2>2. pos # 0
    <3>1. Len(script) \in Nat
      BY DEF ScriptInv, WellFormed
    <3> QED
      BY <2>1, <3>1
  <2> QED
    BY <1>1, <2>1, <2>2
<1>9. ~ Restart
  BY DEF Restart, LoseMemory
<1>10. CASE UNCHANGED vars
  BY <1>1, <1>10 DEF vars, history
<1> QED
  BY <1>2, <1>3, <1>4, <1>5, <1>6, <1>7, <1>8, <1>9, <1>10 DEF Next

LEMMA AllDoneInit == Init => AllDone
<1> SUFFICES ASSUME Init PROVE AllDone
  OBVIOUS
<1>1. pos = 0 /\ result = "none"
  BY DEF Init
<1>2. 1 .. pos - 1 = {}
  BY <1>1
<1> QED
  BY <1>1, <1>2 DEF AllDone

\* A statement takes nothing away, and no table changes.
LEMMA ExecuteGrows ==
  ASSUME ScriptInv, Execute
  PROVE  /\ rows \subseteq rows' /\ links \subseteq links'
         /\ DOMAIN schema \subseteq DOMAIN schema'
         /\ \A t \in DOMAIN schema : schema'[t] = schema[t]
<1>1. CASE ~ IsRow(script, pos) /\ ~ IsLink(script, pos)
  <2>1. /\ schema' \in {schema, Put(schema, script[pos].table, ToSet(script[pos].cols))}
        /\ schema' # schema => script[pos].table \notin DOMAIN schema
        /\ UNCHANGED <<rows, links>>
    BY <1>1, ExecuteEffect
  <2> DEFINE t == script[pos].table
             v == ToSet(script[pos].cols)
  <2>2. schema' = schema \/ (schema' = Put(schema, t, v) /\ t \notin DOMAIN schema)
    BY <2>1
  <2>3. DOMAIN Put(schema, t, v) = DOMAIN schema \union {t}
    BY PutDomain
  <2>4. ASSUME t \notin DOMAIN schema
        PROVE  \A x \in DOMAIN schema : Put(schema, t, v)[x] = schema[x]
    <3>1. \A x \in DOMAIN schema : x # t
      BY <2>4
    <3> QED
      BY <3>1, PutElsewhere
  <2> HIDE DEF t, v
  <2> QED
    BY <2>1, <2>2, <2>3, <2>4
<1>2. CASE IsRow(script, pos)
  <2>1. rows' = rows \union {RowOf(script[pos])} /\ UNCHANGED <<schema, links>>
    BY <1>2, ExecuteEffect
  <2> QED
    BY <2>1
<1>3. CASE IsLink(script, pos) /\ ~ IsRow(script, pos)
  <2>1. UNCHANGED <<schema, rows>> /\ \E l : links' = links \union {l}
    BY <1>3, ExecuteEffect
  <2> QED
    BY <2>1
<1> QED
  BY <1>1, <1>2, <1>3

\* Nothing that has been executed is undone.
LEMMA DoneStays ==
  ASSUME NEW k, Done(k), UNCHANGED script, rows \subseteq rows', links \subseteq links',
         DOMAIN schema \subseteq DOMAIN schema',
         \A t \in DOMAIN schema : schema'[t] = schema[t]
  PROVE  Done(k)'
BY DEF Done

LEMMA AllDoneNext == ScriptInv /\ AllDone /\ [Next]_vars => AllDone'
<1> SUFFICES ASSUME ScriptInv, AllDone, [Next]_vars PROVE AllDone'
  OBVIOUS
<1>1. ASSUME pos' \in {0, 1}, result' # "success"
      PROVE  AllDone'
  <2>1. ASSUME NEW p \in {0, 1}
        PROVE  1 .. p - 1 = {}
    OBVIOUS
  <2>2. 1 .. pos' - 1 = {}
    BY <1>1, <2>1
  <2> QED
    BY <1>1, <2>2 DEF AllDone
<1>2. ASSUME NEW d \in DOMAIN Documents, Build(d) \/ KilledWhileWriting(d)
      PROVE  AllDone'
  <2>1. pos' \in {0, 1} /\ result' = "none"
    BY <1>2, BuildEffect, KillEffect
  <2> QED
    BY <1>1, <2>1
<1>3. CASE BuildWithoutScript
  BY <1>1, <1>3 DEF BuildWithoutScript, Click
<1>4. CASE OpenFails \/ Refuse \/ Restart
  <2>1. pos' = 0
    BY <1>4, StopEffect
  <2>2. result' # "success"
    BY <1>4, FailuresType, Zenon DEF OpenFails, Refuse, Restart
  <2> QED
    BY <1>1, <2>1, <2>2
<1>5. CASE Execute
  <2>1. /\ pos \in 1 .. Len(script) /\ pos' = pos + 1 /\ Len(script) \in Nat
        /\ UNCHANGED <<script, result>>
    BY <1>5, ExecuteEffect
  <2>2. result' # "success"
    BY <2>1 DEF AllDone
  <2>3. /\ rows \subseteq rows' /\ links \subseteq links'
        /\ DOMAIN schema \subseteq DOMAIN schema'
        /\ \A t \in DOMAIN schema : schema'[t] = schema[t]
    BY <1>5, ExecuteGrows
  <2>4. ASSUME NEW k, k = pos
        PROVE  Done(k)'
    <3>1. CASE ~ IsRow(script, pos) /\ ~ IsLink(script, pos)
      BY <2>1, <2>4, <3>1 DEF Done
    <3>2. CASE IsRow(script, pos)
      <4>1. /\ rows' = rows \union {RowOf(script[pos])} /\ UNCHANGED schema
            /\ script[pos].table \in DOMAIN schema
            /\ ToSet(script[pos].cols) \subseteq schema[script[pos].table]
            /\ ~ IsLink(script, pos)
        BY <1>5, <3>2, ExecuteEffect
      <4> QED
        BY <2>1, <2>4, <4>1 DEF Done
    <3>3. CASE IsLink(script, pos) /\ ~ IsRow(script, pos)
      <4>1. \E l : /\ l.table = script[pos].table /\ l.ids = script[pos].ids
                   /\ links' = links \union {l}
        BY <1>5, <3>3, ExecuteEffect
      <4> QED
        BY <2>1, <2>4, <3>3, <4>1 DEF Done
    <3> QED
      BY <3>1, <3>2, <3>3
  <2>5. ASSUME NEW k \in 1 .. pos' - 1
        PROVE  Done(k)'
    <3>1. k = pos \/ k \in 1 .. pos - 1
      BY <2>1
    <3>2. CASE k \in 1 .. pos - 1
      BY <2>1, <2>3, <3>2, DoneStays DEF AllDone
    <3> QED
      BY <2>4, <3>1, <3>2
  <2> QED
    BY <2>2, <2>5 DEF AllDone
<1>6. CASE Succeed
  <2>1. /\ pos > Len(script) /\ pos' = 0 /\ result' = "success"
        /\ UNCHANGED <<script, schema, rows, links>>
    BY <1>6 DEF Succeed, database
  <2>2. Len(script) \in Nat /\ pos \in 0 .. Len(script) + 1
    BY DEF ScriptInv, WellFormed
  <2>3. pos = Len(script) + 1
    BY <2>1, <2>2
  <2>4. \A k \in 1 .. Len(script) : Done(k)
    BY <2>2, <2>3 DEF AllDone
  <2>5. \A k \in 1 .. Len(script') : Done(k)'
    BY <2>1, <2>4, DoneStays
  <2>6. \A k \in 1 .. pos' - 1 : Done(k)'
    BY <2>1
  <2> QED
    BY <2>1, <2>5, <2>6 DEF AllDone
<1>7. CASE UNCHANGED vars
  BY <1>7 DEF vars, database, AllDone, Done
<1> QED
  BY <1>2, <1>3, <1>4, <1>5, <1>6, <1>7 DEF Next

\* What insertData visits is what is to be stored.
LEMMA ToStoreSays ==
  ASSUME NEW doc, NEW i
  PROVE  i \in ToStore(doc) <=> i \in Indices(doc) /\ Visited(doc, i)
BY Zenon DEF ToStore, Visited, IsForeignKey

LEMMA RowDone ==
  ASSUME ScriptInv, NEW m, IsRow(script, m), Done(m)
  PROVE  /\ RowOf(script[m]) \in rows
         /\ script[m].table \in DOMAIN schema
         /\ ToSet(script[m].cols) \subseteq schema[script[m].table]
         /\ RowOf(script[m]).table = script[m].table /\ RowOf(script[m]).id = script[m].id
         /\ RowOf(script[m]).of = script[m].of
         /\ script[m].table = <<script[m].table[1]>>
<1>1. m \in 1 .. Len(script) /\ script[m] \in Statements /\ script[m].do = "row"
  BY DEF ScriptInv, WellFormed, IsRow
<1>2. script[m] \in RowStatements(Identifiers)
  BY <1>1, StatementKind DEF Statements, Inserts
<1> QED
  BY <1>2, RowOfSays DEF Done

\* An element is stored when its entry in the script has been executed.
LEMMA EntryStored ==
  ASSUME ScriptInv, DataInv, NEW d, NEW click, NEW i, NEW k, Entry(script, d, click, i, k),
         \A m \in 1 .. k : Done(m), IsLink(script, k + 1) => Done(k + 1)
  PROVE  IsStored(NodeId(d, click, i))
<1> DEFINE doc == Documents[d]
           Of(n) == NodeId(d, click, n)
<1>1. k \in 1 .. Len(script) /\ Len(script) \in Nat /\ IsRow(script, k)
  <2>1. script \in Seq(Statements)
    BY DEF ScriptInv, WellFormed
  <2>2. IsRow(script, k)
    BY Zenon DEF Entry
  <2> QED
    BY <2>1, <2>2 DEF IsRow
<1>2. script[k].of = Of(i) /\ script[k].cols = RowColumns(doc, i)
  BY Zenon DEF Entry
<1>3. doc[i].up # 0 =>
        /\ IsLink(script, k + 1)
        /\ \E m \in 1 .. k - 1 :
             /\ IsRow(script, m)
             /\ script[m].of = Of(doc[i].up)
             /\ script[k + 1].table = <<script[m].table[1], script[k].table[1]>>
             /\ script[k + 1].ids = <<script[m].id, script[k].id>>
  BY Zenon DEF Entry
<1>4. /\ Of(i).doc = d /\ Of(i).node = i
      /\ [Of(i) EXCEPT !.node = doc[i].up] = Of(doc[i].up)
  BY DEF NodeId
<1> HIDE DEF Of, doc
<1> DEFINE c == RowOf(script[k])
<1>5. /\ c \in rows /\ c.table = script[k].table /\ c.id = script[k].id /\ c.of = Of(i)
      /\ script[k].table = <<script[k].table[1]>>
      /\ c.table \in DOMAIN schema /\ ToSet(RowColumns(doc, i)) \subseteq schema[c.table]
  <2>1. k \in 1 .. k
    BY <1>1
  <2> QED
    BY <1>1, <1>2, <2>1, RowDone
<1> HIDE DEF c
<1>6. ASSUME doc[i].up # 0
      PROVE  \E l \in links : \E j \in Joined(l) : j[1].of = Of(doc[i].up) /\ j[2].of = Of(i)
  <2>1. PICK m \in 1 .. k - 1 :
          /\ IsRow(script, m)
          /\ script[m].of = Of(doc[i].up)
          /\ script[k + 1].table = <<script[m].table[1], script[k].table[1]>>
          /\ script[k + 1].ids = <<script[m].id, script[k].id>>
    BY <1>3, <1>6
  <2>2. IsLink(script, k + 1) /\ Done(k + 1)
    BY <1>3, <1>6
  <2>3. PICK l \in links : l.table = script[k + 1].table /\ l.ids = script[k + 1].ids
    BY <2>2 DEF Done
  <2> DEFINE p == RowOf(script[m])
  <2>4. /\ p \in rows /\ p.table = script[m].table /\ p.id = script[m].id /\ p.of = Of(doc[i].up)
        /\ script[m].table = <<script[m].table[1]>>
    <3>1. m \in 1 .. k
      BY <1>1, <2>1
    <3> QED
      BY <2>1, <3>1, RowDone
  <2> HIDE DEF p
  <2>5. /\ l.table[1] = script[m].table[1] /\ l.table[2] = script[k].table[1]
        /\ l.ids[1] = script[m].id /\ l.ids[2] = script[k].id
    BY <2>1, <2>3
  <2>6. Ends(l, p, c)
    BY <1>5, <2>4, <2>5 DEF Ends
  <2>7. <<p, c>> \in Joined(l)
    BY <1>5, <2>4, <2>6, JoinedPair DEF DataInv
  <2>8. <<p, c>>[1].of = Of(doc[i].up) /\ <<p, c>>[2].of = Of(i)
    BY <1>5, <2>4
  <2> QED
    BY <2>7, <2>8
<1>7. IsStored(Of(i))
  BY <1>4, <1>5, <1>6, Zenon DEF IsStored, doc
<1> QED
  BY <1>7 DEF Of

LEMMA WholeScriptInv == ScriptInv /\ DataInv /\ ScriptComplete /\ AllDone => WholeScriptIsStored
<1> SUFFICES ASSUME ScriptInv, DataInv, ScriptComplete, AllDone,
                    result = "success", building # 0, whole
             PROVE  DocumentStored
  BY Zenon DEF WholeScriptIsStored
<1>1. Complete(script, building, clicks)
  BY DEF ScriptComplete
<1>2. \A k \in 1 .. Len(script) : Done(k)
  BY DEF AllDone
<1>3. ASSUME NEW i \in Indices(Documents[building]), Visited(Documents[building], i)
      PROVE  IsStored(NodeId(building, clicks, i))
  <2>1. PICK k \in 1 .. Len(script) : Entry(script, building, clicks, i, k)
    BY <1>1, <1>3, Zenon DEF Complete
  <2>2. \A m \in 1 .. k : m \in 1 .. Len(script)
    <3>1. Len(script) \in Nat
      BY DEF ScriptInv, WellFormed
    <3> QED
      BY <3>1
  <2>3. IsLink(script, k + 1) => Done(k + 1)
    BY <1>2 DEF IsLink
  <2> QED
    BY <1>2, <2>1, <2>2, <2>3, EntryStored
<1> QED
  BY <1>3, ToStoreSays, Zenon DEF DocumentStored, NodeId

\* For any documents, clicks and faults: after the box that says that the script
\* was executed with success, when the click has written that script to the end,
\* every element that insertData visits has its row, in a table with all its
\* columns, and is linked to its parent.
THEOREM WholeScriptIsStoredHolds == Spec => []WholeScriptIsStored
<1>1. Init => ScriptComplete /\ AllDone
  BY ScriptCompleteInit, AllDoneInit
<1>2. ScriptInv /\ ScriptComplete /\ AllDone /\ [Next]_vars => (ScriptComplete /\ AllDone)'
  BY ScriptCompleteNext, AllDoneNext
<1>3. ScriptInv /\ DataInv /\ ScriptComplete /\ AllDone => WholeScriptIsStored
  BY WholeScriptInv
<1> QED
  BY <1>1, <1>2, <1>3, InvHolds, PTL DEF Spec

LEMMA IsStoredStays ==
  ASSUME NEW node, IsStored(node), rows \subseteq rows', links \subseteq links',
         DOMAIN schema \subseteq DOMAIN schema',
         \A t \in DOMAIN schema : schema'[t] = schema[t]
  PROVE  IsStored(node)'
<1> DEFINE doc == Documents[node.doc]
           up == doc[node.node].up
           Parent == [node EXCEPT !.node = up]
<1>1. PICK r \in rows : /\ r.of = node
                        /\ r.table \in DOMAIN schema
                        /\ ToSet(RowColumns(doc, node.node)) \subseteq schema[r.table]
  BY Zenon DEF IsStored
<1>2. up # 0 => \E l \in links : \E j \in Joined(l) : j[1].of = Parent /\ j[2].of = node
  BY Zenon DEF IsStored
<1>3. r \in rows' /\ r.table \in DOMAIN schema' /\ schema'[r.table] = schema[r.table]
  BY <1>1
<1>4. ASSUME NEW l, NEW j \in Joined(l)
      PROVE  j \in Joined(l)'
  BY <1>4 DEF Joined
<1>5. up # 0 => \E l \in links' : \E j \in Joined(l)' : j[1].of = Parent /\ j[2].of = node
  BY <1>2, <1>4
<1> QED
  BY <1>1, <1>3, <1>5, Zenon DEF IsStored

LEMMA StoredInOrderNext ==
  ScriptInv /\ DataInv /\ AllDone /\ StoredInOrder /\ [Next]_vars => StoredInOrder'
<1> SUFFICES ASSUME ScriptInv, DataInv, AllDone, StoredInOrder, [Next]_vars
             PROVE  StoredInOrder'
  OBVIOUS
<1>1. ASSUME UNCHANGED <<schema, rows, links>>
      PROVE  StoredInOrder'
  <2>1. ASSUME NEW node, IsStored(node)
        PROVE  IsStored(node)'
    BY <1>1, <2>1, IsStoredStays
  <2> QED
    BY <1>1, <2>1, Zenon DEF StoredInOrder
<1>2. CASE Execute
  <2>1. ASSUME NEW node, IsStored(node)
        PROVE  IsStored(node)'
    BY <1>2, <2>1, ExecuteGrows, IsStoredStays
  <2>2. CASE ~ IsRow(script, pos)
    <3>1. UNCHANGED rows
      BY <1>2, <2>2, ExecuteEffect
    <3> QED
      BY <2>1, <3>1, Zenon DEF StoredInOrder
  <2>3. CASE IsRow(script, pos)
    <3>1. /\ pos \in 1 .. Len(script) /\ Len(script) \in Nat
          /\ script[pos] \in RowStatements(Identifiers)
          /\ rows' = rows \union {RowOf(script[pos])} /\ ~ IsLink(script, pos)
      BY <1>2, <2>3, ExecuteEffect
    <3>2. PICK e : e = script[pos].of
      OBVIOUS
    <3>3. RowOf(script[pos]).of = e /\ e \in NodeIds
      BY <3>1, <3>2, RowOfSays DEF RowStatements
    <3>4. \A i : [e EXCEPT !.node = i] = NodeId(e.doc, e.click, i)
      BY <3>3 DEF NodeIds, NodeId
    <3>5. Preceded(script, e.doc, e.click, e.node, pos)
      BY <2>3, <3>1, <3>2, Zenon DEF ScriptInv, WellFormed, InOrder
    <3>6. ASSUME NEW i \in ToStore(Documents[e.doc]), i < e.node
          PROVE  IsStored([e EXCEPT !.node = i])
      <4>1. i \in Indices(Documents[e.doc]) /\ Visited(Documents[e.doc], i)
        BY <3>6, ToStoreSays
      <4>2. PICK j \in 1 .. pos - 1 : Entry(script, e.doc, e.click, i, j)
        BY <3>5, <3>6, <4>1, Zenon DEF Preceded
      <4>3. \A m \in 1 .. j : m \in 1 .. pos - 1
        BY <3>1, <4>2
      <4>4. IsLink(script, j + 1) => j + 1 \in 1 .. pos - 1
        <5>1. j + 1 = pos \/ j + 1 \in 1 .. pos - 1
          BY <3>1, <4>2
        <5> QED
          BY <3>1, <5>1
      <4>5. \A m \in 1 .. pos - 1 : Done(m)
        BY DEF AllDone
      <4>6. IsStored(NodeId(e.doc, e.click, i))
        BY <4>2, <4>3, <4>4, <4>5, EntryStored
      <4> QED
        BY <3>4, <4>6
    <3>7. ASSUME NEW r \in rows', NEW i \in ToStore(Documents[r.of.doc]), i < r.of.node
          PROVE  IsStored([r.of EXCEPT !.node = i])
      <4>1. CASE r \in rows
        BY <3>7, <4>1, Zenon DEF StoredInOrder
      <4>2. CASE r = RowOf(script[pos])
        BY <3>3, <3>6, <3>7, <4>2
      <4> QED
        BY <3>1, <4>1, <4>2
    <3> QED
      BY <2>1, <3>7, Zenon DEF StoredInOrder
  <2> QED
    BY <2>2, <2>3
<1>3. ASSUME NEW d \in DOMAIN Documents, Build(d) \/ KilledWhileWriting(d)
      PROVE  UNCHANGED <<schema, rows, links>>
  BY <1>3, BuildEffect, KillEffect
<1>4. BuildWithoutScript => UNCHANGED <<schema, rows, links>>
  BY DEF BuildWithoutScript, Click, database
<1>5. OpenFails \/ Refuse \/ Succeed \/ Restart => UNCHANGED <<schema, rows, links>>
  BY StopEffect
<1>6. UNCHANGED vars => UNCHANGED <<schema, rows, links>>
  BY DEF vars, database
<1> QED
  BY <1>1, <1>2, <1>3, <1>4, <1>5, <1>6 DEF Next

\* For any documents, clicks and faults: the database never holds a row while an
\* element before it in the document lacks its row or its link, whatever part of
\* the script a kill or a full disk has left, and from where it is executed again.
THEOREM StoredInOrderHolds == Spec => []StoredInOrder
<1>1. Init => AllDone /\ StoredInOrder
  <2>1. Init => rows = {}
    BY DEF Init
  <2> QED
    BY <2>1, AllDoneInit DEF StoredInOrder
<1>2. ScriptInv /\ AllDone /\ [Next]_vars => AllDone'
  BY AllDoneNext
<1>3. ScriptInv /\ DataInv /\ AllDone /\ StoredInOrder /\ [Next]_vars => StoredInOrder'
  BY StoredInOrderNext
<1> QED
  BY <1>1, <1>2, <1>3, InvHolds, PTL DEF Spec

----------------------------------------------------------------------------
(* Tidy documents                                                          *)

\* A table and its columns as createTable, or the loop over the relations, declares
\* them for one of the documents D.
Declares(t, c, D) ==
  \/ \E e \in Elements(D) : HasTable(e) /\ t = <<Name(e)>> /\ c = TableColumns(e[1], e[2])
  \/ t \in NestedPairs(D) /\ c = RelationColumns(t)

RelationsOfBuilt == \A k \in 1 .. Len(relations) : relations[k] \in NestedPairs(built)

CreatesDeclare(s, D) ==
  \A k \in 1 .. Len(s) : s[k].do = "create" => Declares(s[k].table, s[k].cols, D)

\* A table of the database has the columns one of these statements gave it.
SchemaOfBuilt == \A t \in DOMAIN schema :
  \/ \E e \in Elements(built) :
       /\ HasTable(e) /\ t = <<Name(e)>> /\ schema[t] = ToSet(TableColumns(e[1], e[2]))
  \/ t \in NestedPairs(built)

\* The identifiers of rows have been counted.
RowsCounted == \A r \in rows : r.id <= LastId(counters, r.table[1])
KeysCounted(s, count) ==
  \A k \in 1 .. Len(s) : IsRow(s, k) => s[k].id <= LastId(count, s[k].table[1])

KeysDistinct(s) == \A j, k \in 1 .. Len(s) :
  IsRow(s, j) /\ IsRow(s, k) /\ s[j].table = s[k].table /\ s[j].id = s[k].id => j = k

\* Every row of s is one of document d, as insertData writes it.
RowsOfDocument(s, d) == \A k \in 1 .. Len(s) : IsRow(s, k) =>
  \E i \in Indices(Documents[d]) :
    /\ Visited(Documents[d], i)
    /\ s[k].table = <<Documents[d][i].name>>
    /\ s[k].cols = RowColumns(Documents[d], i)

\* Rows and links go to tables that have been created before.
AllPrepared(s) == \A k \in 1 .. Len(s) : IsRow(s, k) \/ IsLink(s, k) =>
  \E j \in 1 .. k - 1 : s[j].do = "create" /\ s[j].table = s[k].table

KeysFree == pos > 0 => \A k \in pos .. Len(script) : IsRow(script, k) => ~ KeyTaken(script[k])

CreatesExecuted == \A k \in 1 .. pos - 1 :
  script[k].do = "create" => script[k].table \in DOMAIN schema

\* Until a restart, all that is kept stems from the documents built.
KeptInv ==
  /\ RelationsOfBuilt
  /\ CreatesDeclare(script, built)
  /\ SchemaOfBuilt
  /\ RowsCounted
  /\ KeysCounted(script, counters)

\* The script of the last click, if that has written one.
FreshInv ==
  /\ building \in built
  /\ KeysDistinct(script)
  /\ RowsOfDocument(script, building)
  /\ TidyTogether(built) => AllPrepared(script)
  /\ KeysFree
  /\ CreatesExecuted

TidyInv == ~ restarts => KeptInv /\ (building # 0 => FreshInv)

Has(s, p) == \E k \in 1 .. Len(s) : s[k] = p
Back(p) == <<p[2], p[1]>>

\* addRelation keeps what is recorded, and records the pair unless it is there in
\* one order or the other.
LEMMA AddRelationKeeps ==
  ASSUME NEW rels \in Seq(Names \X Names), NEW a \in Names, NEW b \in Names
  PROVE  /\ AddRelation(rels, a, b) \in Seq(Names \X Names)
         /\ \A p : Has(rels, p) => Has(AddRelation(rels, a, b), p)
         /\ \A p : Has(AddRelation(rels, a, b), p) => Has(rels, p) \/ p = <<a, b>>
         /\ Has(AddRelation(rels, a, b), <<a, b>>) \/ Has(AddRelation(rels, a, b), <<b, a>>)
<1> DEFINE p == <<a, b>>
           q == <<b, a>>
<1>1. ToSet(rels) = {rels[k] : k \in 1 .. Len(rels)} /\ Len(rels) \in Nat
  BY DEF ToSet
<1>2. p \in Names \X Names
  OBVIOUS
<1>3. AddRelation(rels, a, b) = IF {p, q} \intersect ToSet(rels) # {} THEN rels
                                ELSE Append(rels, p)
  BY DEF AddRelation
<1> HIDE DEF p, q
<1>4. CASE {p, q} \intersect ToSet(rels) # {}
  <2>1. AddRelation(rels, a, b) = rels
    BY <1>3, <1>4
  <2>2. Has(rels, p) \/ Has(rels, q)
    BY <1>1, <1>4 DEF Has
  <2> QED
    BY <2>1, <2>2 DEF p, q
<1>5. CASE {p, q} \intersect ToSet(rels) = {}
  <2> DEFINE s == Append(rels, p)
  <2>1. AddRelation(rels, a, b) = s
    BY <1>3, <1>5
  <2>2. /\ s \in Seq(Names \X Names) /\ Len(s) = Len(rels) + 1 /\ s[Len(s)] = p
        /\ \A k \in 1 .. Len(rels) : s[k] = rels[k]
    BY <1>2
  <2> HIDE DEF s
  <2>3. \A x : Has(rels, x) => Has(s, x)
    BY <1>1, <2>2 DEF Has
  <2>4. \A x : Has(s, x) => Has(rels, x) \/ x = p
    BY <1>1, <2>2 DEF Has
  <2>5. Has(s, p)
    BY <1>1, <2>2 DEF Has
  <2> QED
    BY <2>1, <2>2, <2>3, <2>4, <2>5 DEF p, q
<1> QED
  BY <1>4, <1>5

\* The pairs of element e of a document with its children that have children.
Under(doc, e, k) == doc[k].up = e /\ IsForeignKey(doc, k)
PairAt(doc, e, k) == <<doc[e].name, doc[k].name>>

LEMMA AddRelationsRecord ==
  ASSUME NEW d \in DOMAIN Documents, NEW rels \in Seq(Names \X Names),
         NEW e \in 1 .. Len(Documents[d]),
         NEW doc, doc = Documents[d], NEW all, all = AddRelations(rels, doc, e)
  PROVE  /\ all \in Seq(Names \X Names)
         /\ \A p : Has(rels, p) => Has(all, p)
         /\ \A p : Has(all, p) =>
              Has(rels, p) \/ \E k \in 1 .. Len(doc) : Under(doc, e, k) /\ p = PairAt(doc, e, k)
         /\ \A k \in 1 .. Len(doc) : Under(doc, e, k) =>
              Has(all, PairAt(doc, e, k)) \/ Has(all, Back(PairAt(doc, e, k)))
<1> DEFINE N == Len(doc)
           Stays(s) == \A p : Has(rels, p) => Has(s, p)
           FromHere(s) == \A p : Has(s, p) =>
             Has(rels, p) \/ \E k \in 1 .. N : Under(doc, e, k) /\ p = PairAt(doc, e, k)
           Noted(s, k) ==
             Under(doc, e, k) => Has(s, PairAt(doc, e, k)) \/ Has(s, Back(PairAt(doc, e, k)))
           Good(s, n) == /\ s \in Seq(Names \X Names)
                         /\ Stays(s) /\ FromHere(s)
                         /\ \A k \in 1 .. n : Noted(s, k)
<1>1. N \in Nat /\ \A k \in 1 .. N : doc[k].name \in Names
  BY DocumentFacts
<1>2. PICK f : /\ f[0] = rels
               /\ \A k \in 1 .. N : f[k] = RelationOf(f[k - 1], doc, e, k)
               /\ all = f[N]
  BY <1>1, AddRelationsEquation
<1> DEFINE S == {n \in Nat : n <= N => Good(f[n], n)}
<1>3. 0 \in S
  <2>1. Good(rels, 0)
    OBVIOUS
  <2> HIDE DEF Good
  <2> QED
    BY <1>2, <2>1
<1>4. ASSUME NEW n \in Nat, n \in S
      PROVE  n + 1 \in S
  <2>1. SUFFICES ASSUME n + 1 <= N
                 PROVE  Good(f[n + 1], n + 1)
    <3> HIDE DEF Good
    <3> QED
      OBVIOUS
  <2>2. Good(f[n], n)
    <3> HIDE DEF Good
    <3> QED
      BY <1>1, <1>4, <2>1
  <2>3. n + 1 \in 1 .. N /\ (n + 1) - 1 = n /\ (\A k \in 1 .. n + 1 : k \in 1 .. n \/ k = n + 1)
    BY <1>1, <2>1
  <2>4. f[n + 1] = RelationOf(f[n], doc, e, n + 1)
    BY <1>2, <2>3
  <2>5. CASE Under(doc, e, n + 1)
    <3> DEFINE s == AddRelation(f[n], doc[e].name, doc[n + 1].name)
               p == PairAt(doc, e, n + 1)
    <3>1. f[n + 1] = s
      BY <2>4, <2>5 DEF RelationOf, Under
    <3>2. doc[e].name \in Names /\ doc[n + 1].name \in Names /\ f[n] \in Seq(Names \X Names)
      BY <1>1, <2>2, <2>3
    <3>3. /\ s \in Seq(Names \X Names)
          /\ \A x : Has(f[n], x) => Has(s, x)
          /\ \A x : Has(s, x) => Has(f[n], x) \/ x = p
          /\ Has(s, p) \/ Has(s, Back(p))
      <4>1. PICK r, a, b : r = f[n] /\ a = doc[e].name /\ b = doc[n + 1].name
        OBVIOUS
      <4>2. r \in Seq(Names \X Names) /\ a \in Names /\ b \in Names
        BY <3>2, <4>1
      <4>3. p = <<a, b>> /\ Back(p) = <<b, a>> /\ s = AddRelation(r, a, b)
        BY <4>1 DEF PairAt, Back
      <4> HIDE DEF p, s
      <4>4. /\ AddRelation(r, a, b) \in Seq(Names \X Names)
            /\ \A x : Has(r, x) => Has(AddRelation(r, a, b), x)
            /\ \A x : Has(AddRelation(r, a, b), x) => Has(r, x) \/ x = <<a, b>>
            /\ Has(AddRelation(r, a, b), <<a, b>>) \/ Has(AddRelation(r, a, b), <<b, a>>)
        BY <4>2, AddRelationKeeps
      <4> QED
        BY <4>1, <4>3, <4>4
    <3> HIDE DEF s, p
    <3>4. Stays(s)
      BY <2>2, <3>3
    <3>5. FromHere(s)
      BY <2>2, <2>3, <2>5, <3>3 DEF p
    <3>6. ASSUME NEW k \in 1 .. n
          PROVE  Noted(s, k)
      BY <2>2, <3>3
    <3>7. Noted(s, n + 1)
      BY <3>3 DEF p
    <3>8. \A k \in 1 .. n + 1 : Noted(s, k)
      <4> HIDE DEF Noted
      <4> QED
        BY <2>3, <3>6, <3>7
    <3> HIDE DEF Stays, FromHere, Noted
    <3> QED
      BY <3>1, <3>3, <3>4, <3>5, <3>8
  <2>6. CASE ~ Under(doc, e, n + 1)
    <3>1. f[n + 1] = f[n]
      BY <2>4, <2>6 DEF RelationOf, Under
    <3>2. \A k \in 1 .. n + 1 : Noted(f[n], k)
      BY <2>2, <2>3, <2>6
    <3> HIDE DEF Stays, FromHere, Noted
    <3> QED
      BY <2>2, <3>1, <3>2
  <2> HIDE DEF Good
  <2> QED
    BY <2>5, <2>6
<1>5. N \in S
  <2> HIDE DEF S
  <2> QED
    BY <1>1, <1>3, <1>4, InductionInNat
<1>6. Good(all, N)
  <2> HIDE DEF Good
  <2> QED
    BY <1>1, <1>2, <1>5
<1> QED
  BY <1>6

----------------------------------------------------------------------------
(* The identifiers of a script are new                                     *)

\* What the second pass gives out lies above the identifiers given out before,
\* the counters count it, and no two elements of one name have the same.
KeysNew(d, acc) ==
  /\ \A i \in DOMAIN acc.id :
       /\ LastId(counters, Documents[d][i].name) < acc.id[i]
       /\ acc.id[i] <= LastId(acc.count, Documents[d][i].name)
  /\ \A i, j \in DOMAIN acc.id :
       Documents[d][i].name = Documents[d][j].name /\ acc.id[i] = acc.id[j] => i = j
  /\ \A m : LastId(counters, m) <= LastId(acc.count, m)

LEMMA LastIdNat ==
  ASSUME NEW count, NEW b \in Nat, CounterBound(count, b), NEW m
  PROVE  LastId(count, m) \in Nat
BY DEF CounterBound, LastId

LEMMA LastIdPut ==
  ASSUME NEW count, NEW n, NEW v, NEW m
  PROVE  LastId(Put(count, n, v), m) = IF m = n THEN v ELSE LastId(count, m)
BY DEF LastId, Put

LEMMA KeysStep ==
  ASSUME NEW d \in DOMAIN Documents, NEW click, NEW b \in Nat,
         NEW i \in 1 .. Len(Documents[d]), NEW acc, PassInv(d, click, b, i - 1, acc),
         CounterBound(counters, b), KeysNew(d, acc)
  PROVE  KeysNew(d, InsertVisit(d, click, acc, i))
<1> DEFINE a == InsertVisit(d, click, acc, i)
           name(j) == Documents[d][j].name
           Before(m) == LastId(counters, m)
           Given(m) == LastId(acc.count, m)
           new == Given(name(i)) + 1
<1>1. CASE ~ Visited(Documents[d], i)
  <2>1. a = acc
    BY <1>1, VisitSkips
  <2> QED
    BY <2>1
<1>2. CASE Visited(Documents[d], i)
  <2>1. a.count = Put(acc.count, name(i), new) /\ a.id = Put(acc.id, i, new)
    BY <1>2, VisitNumbers DEF NewIdOf
  <2>2. \A m : Before(m) \in Nat /\ Given(m) \in Nat
    <3>1. Len(Documents[d]) \in Nat
      BY DocumentFacts
    <3>2. b + (i - 1) \in Nat /\ CounterBound(acc.count, b + (i - 1))
      BY <3>1 DEF PassInv, Numbered
    <3> QED
      BY <3>2, LastIdNat
  <2>3. /\ \A j \in DOMAIN acc.id : j # i /\ acc.id[j] \in Int
        /\ \A j \in DOMAIN acc.id : Before(name(j)) < acc.id[j] /\ acc.id[j] <= Given(name(j))
        /\ \A j, k \in DOMAIN acc.id : name(j) = name(k) /\ acc.id[j] = acc.id[k] => j = k
        /\ \A m : Before(m) <= Given(m)
    <3>1. Len(Documents[d]) \in Nat
      BY DocumentFacts
    <3>2. /\ DOMAIN acc.id = {j \in 1 .. i - 1 : Visited(Documents[d], j)}
          /\ \A j \in DOMAIN acc.id : acc.id[j] \in 1 .. b + (i - 1)
      BY DEF PassInv, Numbered
    <3>3. \A j \in DOMAIN acc.id : j # i /\ acc.id[j] \in Int
      BY <3>1, <3>2
    <3> QED
      BY <3>3, Zenon DEF KeysNew
  <2>4. /\ DOMAIN a.id = DOMAIN acc.id \union {i}
        /\ a.id[i] = new
        /\ \A j \in DOMAIN acc.id : a.id[j] = acc.id[j]
    <3> HIDE DEF a, new
    <3> QED
      BY <2>1, <2>3 DEF Put
  <2>5. \A m : LastId(a.count, m) = IF m = name(i) THEN new ELSE Given(m)
    <3> HIDE DEF a, new, name
    <3> QED
      BY <2>1, LastIdPut
  <2>6. new \in Nat /\ new = Given(name(i)) + 1
    BY <2>2
  <2> HIDE DEF a, new, name, Before, Given
  <2>7. ASSUME NEW j \in DOMAIN a.id
        PROVE  Before(name(j)) < a.id[j] /\ a.id[j] <= LastId(a.count, name(j))
    <3>1. CASE j = i
      <4>1. Before(name(i)) <= Given(name(i)) /\ Before(name(i)) \in Nat /\ Given(name(i)) \in Nat
        BY <2>2, <2>3
      <4>2. a.id[j] = new /\ LastId(a.count, name(j)) = new
        BY <2>4, <2>5, <3>1
      <4> QED
        BY <2>6, <3>1, <4>1, <4>2
    <3>2. CASE j \in DOMAIN acc.id
      <4>1. a.id[j] = acc.id[j] /\ acc.id[j] \in Int
            /\ Before(name(j)) < acc.id[j] /\ acc.id[j] <= Given(name(j))
        BY <2>3, <2>4, <3>2
      <4>2. LastId(a.count, name(j)) = IF name(j) = name(i) THEN new ELSE Given(name(j))
        BY <2>5
      <4> QED
        BY <2>2, <2>6, <4>1, <4>2
    <3> QED
      BY <2>4, <3>1, <3>2
  <2>8. ASSUME NEW j \in DOMAIN acc.id, name(j) = name(i)
        PROVE  a.id[j] # a.id[i]
    <3>1. acc.id[j] \in Int /\ acc.id[j] <= Given(name(i)) /\ Given(name(i)) \in Nat
      BY <2>2, <2>3, <2>8
    <3>2. acc.id[j] # new
      BY <2>6, <3>1
    <3> QED
      BY <2>4, <3>2
  <2>9. ASSUME NEW j \in DOMAIN a.id, NEW k \in DOMAIN a.id,
               name(j) = name(k), a.id[j] = a.id[k]
        PROVE  j = k
    BY <2>3, <2>4, <2>8, <2>9
  <2>10. ASSUME NEW m
         PROVE  Before(m) <= LastId(a.count, m)
    <3>1. Before(m) \in Nat /\ Given(m) \in Nat /\ Before(m) <= Given(m)
      BY <2>2, <2>3
    <3>2. LastId(a.count, m) = IF m = name(i) THEN new ELSE Given(m)
      BY <2>5
    <3> QED
      BY <2>6, <3>1, <3>2
  <2>11. KeysNew(d, a)
    BY <2>7, <2>9, <2>10, Zenon DEF KeysNew, name, Before
  <2> QED
    BY <2>11 DEF a
<1> QED
  BY <1>1, <1>2

LEMMA KeysNewHolds ==
  ASSUME NEW d \in DOMAIN Documents, NEW click \in 1 .. MaxClicks, NEW b \in Nat,
         CounterBound(counters, b)
  PROVE  /\ PassInv(d, click, b, Len(Documents[d]), InsertPass(d, click))
         /\ KeysNew(d, InsertPass(d, click))
<1> DEFINE N == Len(Documents[d])
<1>1. N \in Nat
  BY DocumentFacts
<1>2. PICK f : /\ f[0] = InsertStart
               /\ \A i \in 1 .. N : f[i] = InsertVisit(d, click, f[i - 1], i)
               /\ InsertPass(d, click) = f[N]
  BY <1>1, InsertPassEquation
<1> DEFINE Both(n) == PassInv(d, click, b, n, f[n]) /\ KeysNew(d, f[n])
           S == {n \in Nat : n <= N => Both(n)}
<1>3. 0 \in S
  <2>1. PassInv(d, click, b, 0, InsertStart)
    BY InsertStartInv
  <2>2. /\ InsertStart.count = counters /\ InsertStart.id = <<>>
    BY DEF InsertStart, CountersBefore
  <2>3. DOMAIN InsertStart.id = {}
    BY <2>2
  <2>4. \A m : LastId(counters, m) \in Nat
    BY LastIdNat
  <2>5. \A m : LastId(counters, m) <= LastId(InsertStart.count, m)
    BY <2>2, <2>4
  <2>6. KeysNew(d, InsertStart)
    BY <2>3, <2>5, Zenon DEF KeysNew
  <2>7. Both(0)
    BY <1>2, <2>1, <2>6, Zenon
  <2> QED
    BY <2>7
<1>4. ASSUME NEW n \in Nat, n \in S
      PROVE  n + 1 \in S
  <2>1. SUFFICES ASSUME n + 1 <= N
                 PROVE  Both(n + 1)
    OBVIOUS
  <2>2. n + 1 \in 1 .. N /\ (n + 1) - 1 = n
    BY <1>1, <1>4, <2>1
  <2>3. Both(n)
    BY <1>1, <1>4, <2>1
  <2>4. PICK acc : acc = f[n]
    OBVIOUS
  <2>5. /\ PassInv(d, click, b, n + 1, InsertVisit(d, click, acc, n + 1))
        /\ KeysNew(d, InsertVisit(d, click, acc, n + 1))
    BY <2>2, <2>3, <2>4, PassStep, KeysStep
  <2>6. f[n + 1] = InsertVisit(d, click, acc, n + 1)
    BY <1>2, <2>2, <2>4
  <2> QED
    BY <2>5, <2>6
<1>5. N \in S
  <2> HIDE DEF S
  <2> QED
    BY <1>1, <1>3, <1>4, InductionInNat
<1> QED
  BY <1>1, <1>2, <1>5

\* The rows that the second pass writes for document d.
LEMMA InsertPassKeys ==
  ASSUME NEW d \in DOMAIN Documents, NEW click \in 1 .. MaxClicks, NEW b \in Nat,
         CounterBound(counters, b),
         NEW acc, acc = InsertPass(d, click), NEW s, s = acc.out
  PROVE  /\ KeysDistinct(s)
         /\ KeysCounted(s, acc.count)
         /\ RowsOfDocument(s, d)
         /\ \A k \in 1 .. Len(s) : IsRow(s, k) => s[k].id > LastId(counters, s[k].table[1])
         /\ \A m : LastId(counters, m) <= LastId(acc.count, m)
<1> DEFINE N == Len(Documents[d])
<1>1. PassInv(d, click, b, N, acc) /\ KeysNew(d, acc)
  BY KeysNewHolds
<1>2. /\ N \in Nat /\ Indices(Documents[d]) = 1 .. N
      /\ DOMAIN acc.id = {i \in 1 .. N : Visited(Documents[d], i)}
  BY <1>1, DocumentFacts DEF PassInv, Numbered
<1>3. ASSUME NEW k \in 1 .. Len(s), IsRow(s, k)
      PROVE  \E i \in DOMAIN acc.id :
               /\ i \in Indices(Documents[d]) /\ Visited(Documents[d], i)
               /\ s[k].table = <<Documents[d][i].name>>
               /\ s[k].table[1] = Documents[d][i].name
               /\ s[k].cols = RowColumns(Documents[d], i)
               /\ s[k].id = acc.id[i]
               /\ s[k].of = NodeId(d, click, i)
  <2>1. PICK i \in DOMAIN acc.id : s[k] = RowFor(d, click, acc.id, i)
    BY <1>1, <1>3 DEF PassInv, RowsStandFor
  <2>2. i \in Indices(Documents[d]) /\ Visited(Documents[d], i)
    BY <1>2
  <2> QED
    BY <2>1, <2>2, RowSays
<1>4. KeysDistinct(s)
  <2>1. SUFFICES ASSUME NEW j \in 1 .. Len(s), NEW k \in 1 .. Len(s), IsRow(s, j), IsRow(s, k),
                        s[j].table = s[k].table, s[j].id = s[k].id
                 PROVE  j = k
    BY DEF KeysDistinct
  <2>2. PICK x \in DOMAIN acc.id : /\ s[j].table[1] = Documents[d][x].name /\ s[j].id = acc.id[x]
                                   /\ s[j].of = NodeId(d, click, x)
    BY <1>3, <2>1
  <2>3. PICK y \in DOMAIN acc.id : /\ s[k].table[1] = Documents[d][y].name /\ s[k].id = acc.id[y]
                                   /\ s[k].of = NodeId(d, click, y)
    BY <1>3, <2>1
  <2>4. x = y
    <3>1. Documents[d][x].name = Documents[d][y].name /\ acc.id[x] = acc.id[y]
      BY <2>1, <2>2, <2>3
    <3> QED
      BY <1>1, <3>1, Zenon DEF KeysNew
  <2> QED
    BY <1>1, <2>1, <2>2, <2>3, <2>4 DEF PassInv, RowsStandFor
<1>5. KeysCounted(s, acc.count)
  BY <1>1, <1>3 DEF KeysCounted, KeysNew
<1>6. RowsOfDocument(s, d)
  BY <1>3 DEF RowsOfDocument
<1>7. ASSUME NEW k \in 1 .. Len(s), IsRow(s, k)
      PROVE  s[k].id > LastId(counters, s[k].table[1])
  <2>1. PICK i \in DOMAIN acc.id : s[k].table[1] = Documents[d][i].name /\ s[k].id = acc.id[i]
    BY <1>3, <1>7
  <2>2. LastId(counters, Documents[d][i].name) < acc.id[i]
    BY <1>1 DEF KeysNew
  <2> QED
    BY <2>1, <2>2
<1> QED
  BY <1>1, <1>4, <1>5, <1>6, <1>7 DEF KeysNew

----------------------------------------------------------------------------
(* The tables of a script, and the relations recorded with them            *)

\* The pairs of f with its children that have children are recorded.
PairsOf(doc, rels, f) == \A k \in 1 .. Len(doc) : Under(doc, f, k) =>
  Has(rels, PairAt(doc, f, k)) \/ Has(rels, Back(PairAt(doc, f, k)))

\* Elements that createTable has gone into, and names that have their table.
EnteredInv(doc, n, acc) ==
  /\ acc.entered \subseteq 0 .. n /\ 0 \in acc.entered
  /\ \A f \in acc.entered : f # 0 => IsForeignKey(doc, f) /\ PairsOf(doc, acc.rels, f)
  /\ \A m \in acc.tables : \E f \in acc.entered : f # 0 /\ doc[f].name = m
  /\ \A i \in 1 .. n :
       IsForeignKey(doc, i) /\ doc[i].up \in acc.entered => doc[i].name \in acc.tables

\* The statement s is the table of element e.
IsTableOf(doc, s, e) ==
  /\ IsForeignKey(doc, e) /\ s.do = "create"
  /\ s.table = <<doc[e].name>> /\ s.cols = TableColumns(doc, e)

WrittenInv(doc, acc) ==
  /\ acc.out \in Seq(Creates)
  /\ \A m \in acc.tables : \E k \in 1 .. Len(acc.out) : acc.out[k].table = <<m>>
  /\ \A k \in 1 .. Len(acc.out) : \E e \in 1 .. Len(doc) : IsTableOf(doc, acc.out[k], e)

RecordedInv(doc, acc) ==
  /\ acc.rels \in Seq(Names \X Names)
  /\ \A p : Has(acc.rels, p) =>
       Has(relations, p) \/ \E e, k \in 1 .. Len(doc) : Under(doc, e, k) /\ p = PairAt(doc, e, k)

TablesInv(doc, n, acc) == EnteredInv(doc, n, acc) /\ WrittenInv(doc, acc) /\ RecordedInv(doc, acc)

Makes(doc, acc, i) ==
  doc[i].up \in acc.entered /\ IsForeignKey(doc, i) /\ doc[i].name \notin acc.tables

LEMMA TableVisitMakes ==
  ASSUME NEW doc, NEW garbled, NEW acc, NEW i, NEW a, a = TableVisit(doc, garbled, acc, i),
         Makes(doc, acc, i)
  PROVE  /\ a.entered = acc.entered \union {i}
         /\ a.tables = acc.tables \union {doc[i].name}
         /\ a.out = Append(acc.out, TableOf(doc, garbled, i))
         /\ a.rels = AddRelations(acc.rels, doc, i)
BY DEF TableVisit, Makes, TableOf

LEMMA TableVisitSkips ==
  ASSUME NEW doc, NEW garbled, NEW acc, NEW i, NEW a, a = TableVisit(doc, garbled, acc, i),
         ~ Makes(doc, acc, i)
  PROVE  /\ a.entered = acc.entered /\ a.tables = acc.tables /\ a.out = acc.out
         /\ a.rels \in {acc.rels, AddRelations(acc.rels, doc, i)}
BY DEF TableVisit, Makes

LEMMA TableOfSays ==
  ASSUME NEW doc, NEW garbled, NEW i, IsForeignKey(doc, i)
  PROVE  IsTableOf(doc, TableOf(doc, garbled, i), i)
BY DEF IsTableOf, TableOf, Create

\* What is recorded stays recorded.
LEMMA PairsStay ==
  ASSUME NEW doc, NEW rels, NEW more, \A p : Has(rels, p) => Has(more, p), NEW f,
         PairsOf(doc, rels, f)
  PROVE  PairsOf(doc, more, f)
BY DEF PairsOf

LEMMA TablesStep ==
  ASSUME NEW d \in DOMAIN Documents, NEW doc, doc = Documents[d], NEW garbled \in BOOLEAN,
         NEW i \in 1 .. Len(doc), NEW acc, TablesInv(doc, i - 1, acc),
         NEW a, a = TableVisit(doc, garbled, acc, i)
  PROVE  TablesInv(doc, i, a)
<1>1. /\ Len(doc) \in Nat /\ i \in Nat /\ i - 1 \in Nat
      /\ \A k \in 1 .. i : k \in 1 .. Len(doc) /\ doc[k].up \in 0 .. k - 1
      /\ \A k \in 1 .. i : k \in 1 .. i - 1 \/ k = i
      /\ \A k \in 0 .. i - 1 : k \in 0 .. i /\ k # i
  <2>1. Len(doc) \in Nat /\ \A k \in 1 .. Len(doc) : doc[k].up \in 0 .. k - 1
    BY DocumentFacts
  <2> QED
    BY <2>1
<1>2. /\ acc.entered \subseteq 0 .. i - 1 /\ 0 \in acc.entered
      /\ \A f \in acc.entered : f # 0 => IsForeignKey(doc, f) /\ PairsOf(doc, acc.rels, f)
      /\ \A m \in acc.tables : \E f \in acc.entered : f # 0 /\ doc[f].name = m
      /\ \A k \in 1 .. i - 1 :
           IsForeignKey(doc, k) /\ doc[k].up \in acc.entered => doc[k].name \in acc.tables
  BY DEF TablesInv, EnteredInv
<1>3. /\ acc.out \in Seq(Creates)
      /\ \A m \in acc.tables : \E k \in 1 .. Len(acc.out) : acc.out[k].table = <<m>>
      /\ \A k \in 1 .. Len(acc.out) : \E e \in 1 .. Len(doc) : IsTableOf(doc, acc.out[k], e)
  BY DEF TablesInv, WrittenInv
<1>4. /\ acc.rels \in Seq(Names \X Names)
      /\ \A p : Has(acc.rels, p) =>
           \/ Has(relations, p)
           \/ \E e, k \in 1 .. Len(doc) : Under(doc, e, k) /\ p = PairAt(doc, e, k)
  BY DEF TablesInv, RecordedInv
<1>5. PICK rels, all : rels = acc.rels /\ all = AddRelations(rels, doc, i)
  OBVIOUS
<1>6. /\ \A p : Has(rels, p) => Has(all, p)
      /\ \A p : Has(all, p) =>
           Has(rels, p) \/ \E k \in 1 .. Len(doc) : Under(doc, i, k) /\ p = PairAt(doc, i, k)
      /\ PairsOf(doc, all, i)
  <2>1. rels \in Seq(Names \X Names)
    BY <1>4, <1>5
  <2> QED
    BY <1>5, <2>1, AddRelationsRecord DEF PairsOf
<1>7. /\ a.rels \in {rels, all}
      /\ Makes(doc, acc, i) => a.rels = all
  BY <1>5, TableVisitMakes, TableVisitSkips
<1>8. RecordedInv(doc, a)
  <2>1. a.rels \in Seq(Names \X Names)
    BY <1>3, <1>4, TableVisitType
  <2> QED
    BY <1>4, <1>5, <1>6, <1>7, <2>1 DEF RecordedInv
<1>9. \A f \in acc.entered : f # 0 => IsForeignKey(doc, f) /\ PairsOf(doc, a.rels, f)
  <2>1. \A p : Has(rels, p) => Has(a.rels, p)
    BY <1>6, <1>7
  <2> QED
    BY <1>2, <1>5, <2>1, PairsStay
<1>10. CASE Makes(doc, acc, i)
  <2>1. /\ a.entered = acc.entered \union {i} /\ a.tables = acc.tables \union {doc[i].name}
        /\ a.out = Append(acc.out, TableOf(doc, garbled, i)) /\ a.rels = all
    BY <1>5, <1>10, TableVisitMakes
  <2>2. EnteredInv(doc, i, a)
    <3>1. a.entered \subseteq 0 .. i /\ 0 \in a.entered
      BY <1>1, <1>2, <2>1
    <3>2. \A f \in a.entered : f # 0 => IsForeignKey(doc, f) /\ PairsOf(doc, a.rels, f)
      BY <1>6, <1>9, <1>10, <2>1 DEF Makes
    <3>3. \A m \in a.tables : \E f \in a.entered : f # 0 /\ doc[f].name = m
      BY <1>1, <1>2, <2>1
    <3>4. ASSUME NEW k \in 1 .. i, IsForeignKey(doc, k), doc[k].up \in a.entered
          PROVE  doc[k].name \in a.tables
      <4>1. CASE k = i
        BY <2>1, <4>1
      <4>2. CASE k \in 1 .. i - 1
        <5>1. doc[k].up \in 0 .. k - 1
          BY <1>1
        <5>2. doc[k].up # i
          <6> DEFINE u == doc[k].up
          <6> HIDE DEF u
          <6>1. u \in 0 .. k - 1
            BY <5>1 DEF u
          <6>2. u # i
            BY <1>1, <4>2, <6>1
          <6> QED
            BY <6>2 DEF u
        <5> QED
          BY <1>2, <2>1, <3>4, <4>2, <5>2
      <4> QED
        BY <1>1, <4>1, <4>2
    <3> QED
      BY <3>1, <3>2, <3>3, <3>4, Zenon DEF EnteredInv
  <2>3. PICK s, t : s = acc.out /\ t = TableOf(doc, garbled, i)
    OBVIOUS
  <2>4. t \in Creates /\ IsTableOf(doc, t, i)
    BY <1>10, <2>3, TableOfTyped, TableOfSays DEF Makes
  <2>5. /\ a.out \in Seq(Creates) /\ Len(a.out) = Len(s) + 1 /\ Len(s) \in Nat
        /\ \A k \in 1 .. Len(s) : k \in 1 .. Len(a.out) /\ a.out[k] = s[k]
        /\ Len(a.out) \in 1 .. Len(a.out) /\ a.out[Len(a.out)] = t
        /\ \A k \in 1 .. Len(a.out) : k \in 1 .. Len(s) \/ k = Len(a.out)
    <3>1. s \in Seq(Creates) /\ a.out = Append(s, t)
      BY <1>3, <2>1, <2>3
    <3> QED
      BY <2>4, <3>1
  <2>6. WrittenInv(doc, a)
    <3>1. ASSUME NEW m \in a.tables
          PROVE  \E k \in 1 .. Len(a.out) : a.out[k].table = <<m>>
      <4>1. CASE m \in acc.tables
        <5>1. PICK k \in 1 .. Len(s) : s[k].table = <<m>>
          BY <1>3, <2>3, <4>1
        <5> QED
          BY <2>5, <5>1
      <4>2. CASE m = doc[i].name
        <5>1. t.table = <<m>>
          BY <2>4, <4>2 DEF IsTableOf
        <5> QED
          BY <2>5, <5>1
      <4> QED
        BY <2>1, <4>1, <4>2
    <3>2. \A k \in 1 .. Len(a.out) : \E e \in 1 .. Len(doc) : IsTableOf(doc, a.out[k], e)
      BY <1>3, <2>3, <2>4, <2>5
    <3> QED
      BY <2>5, <3>1, <3>2 DEF WrittenInv
  <2> QED
    BY <1>8, <2>2, <2>6 DEF TablesInv
<1>11. CASE ~ Makes(doc, acc, i)
  <2>1. a.entered = acc.entered /\ a.tables = acc.tables /\ a.out = acc.out
    BY <1>11, TableVisitSkips
  <2>2. EnteredInv(doc, i, a)
    <3>1. a.entered \subseteq 0 .. i /\ 0 \in a.entered
      BY <1>1, <1>2, <2>1
    <3>2. \A f \in a.entered : f # 0 => IsForeignKey(doc, f) /\ PairsOf(doc, a.rels, f)
      BY <1>9, <2>1
    <3>3. \A m \in a.tables : \E f \in a.entered : f # 0 /\ doc[f].name = m
      BY <1>2, <2>1
    <3>4. \A k \in 1 .. i :
            IsForeignKey(doc, k) /\ doc[k].up \in a.entered => doc[k].name \in a.tables
      BY <1>1, <1>2, <1>11, <2>1 DEF Makes
    <3> QED
      BY <3>1, <3>2, <3>3, <3>4, Zenon DEF EnteredInv
  <2>3. WrittenInv(doc, a)
    BY <1>3, <2>1 DEF WrittenInv
  <2> QED
    BY <1>8, <2>2, <2>3 DEF TablesInv
<1> QED
  BY <1>10, <1>11

LEMMA TablesInvHolds ==
  ASSUME NEW d \in DOMAIN Documents, NEW doc, doc = Documents[d], NEW garbled \in BOOLEAN,
         relations \in Seq(Names \X Names), NEW acc, acc = TablePass(doc, garbled)
  PROVE  TablesInv(doc, Len(doc), acc)
<1> DEFINE N == Len(doc)
<1>1. N \in Nat
  BY DocumentFacts
<1>2. PICK f : /\ f[0] = TableStart
               /\ \A k \in 1 .. N : f[k] = TableVisit(doc, garbled, f[k - 1], k)
               /\ acc = f[N]
  BY <1>1, TablePassEquation
<1> DEFINE S == {n \in Nat : n <= N => TablesInv(doc, n, f[n])}
<1>3. 0 \in S
  <2>1. PICK a : a = TableStart
    OBVIOUS
  <2>2. a.entered = {0} /\ a.tables = {} /\ a.out = <<>> /\ a.rels = relations
    BY <2>1 DEF TableStart
  <2>3. 1 .. 0 = {} /\ 0 \in 0 .. 0 /\ Len(<<>>) = 0 /\ <<>> \in Seq(Creates)
    OBVIOUS
  <2>4. EnteredInv(doc, 0, a)
    BY <2>2, <2>3 DEF EnteredInv
  <2>5. WrittenInv(doc, a)
    BY <2>2, <2>3 DEF WrittenInv
  <2>6. RecordedInv(doc, a)
    BY <2>2 DEF RecordedInv
  <2> QED
    BY <1>2, <2>1, <2>4, <2>5, <2>6 DEF TablesInv
<1>4. ASSUME NEW n \in Nat, n \in S
      PROVE  n + 1 \in S
  <2>1. SUFFICES ASSUME n + 1 <= N
                 PROVE  TablesInv(doc, n + 1, f[n + 1])
    OBVIOUS
  <2>2. TablesInv(doc, n, f[n]) /\ n + 1 \in 1 .. N /\ (n + 1) - 1 = n
    BY <1>1, <1>4, <2>1
  <2>3. PICK r, a : r = f[n] /\ a = f[n + 1]
    OBVIOUS
  <2>4. a = TableVisit(doc, garbled, r, n + 1) /\ TablesInv(doc, n, r)
    BY <1>2, <2>2, <2>3
  <2>5. TablesInv(doc, n + 1, a)
    BY <2>2, <2>4, TablesStep
  <2> QED
    BY <2>3, <2>5
<1>5. N \in S
  <2> HIDE DEF S
  <2> QED
    BY <1>1, <1>3, <1>4, InductionInNat
<1> QED
  BY <1>1, <1>2, <1>5

LEMMA ElementIn ==
  ASSUME NEW D \in SUBSET DOMAIN Documents, NEW d \in D, NEW doc, doc = Documents[d],
         NEW i \in 1 .. Len(doc)
  PROVE  /\ <<doc, i>> \in Elements(D) /\ Name(<<doc, i>>) = doc[i].name
         /\ HasTable(<<doc, i>>) <=> IsForeignKey(doc, i)
<1>1. i \in Indices(Documents[d])
  BY DocumentFacts
<1> QED
  BY <1>1 DEF Elements, Name, HasTable

LEMMA PairIsNested ==
  ASSUME NEW D \in SUBSET DOMAIN Documents, NEW d \in D, NEW doc, doc = Documents[d],
         NEW e \in 1 .. Len(doc), NEW k \in 1 .. Len(doc), Under(doc, e, k)
  PROVE  PairAt(doc, e, k) \in NestedPairs(D)
<1> DEFINE P == {y \in Elements(D) \X Elements(D) :
                   y[1][1] = y[2][1] /\ HasTable(y[2]) /\ y[2][1][y[2][2]].up = y[1][2]}
<1>1. PICK x, y, z : x = <<doc, e>> /\ y = <<doc, k>> /\ z = <<x, y>>
  OBVIOUS
<1>2. /\ x \in Elements(D) /\ Name(x) = doc[e].name
      /\ y \in Elements(D) /\ Name(y) = doc[k].name /\ HasTable(y)
  BY <1>1, ElementIn DEF Under
<1>3. x[1] = doc /\ x[2] = e /\ y[1] = doc /\ y[2] = k /\ z[1] = x /\ z[2] = y
  BY <1>1
<1>4. z \in Elements(D) \X Elements(D)
  BY <1>1, <1>2
<1>5. z \in P
  <2>1. /\ z[1][1] = z[2][1] /\ HasTable(z[2])
        /\ z[2][1][z[2][2]].up = z[1][2]
    BY <1>2, <1>3 DEF Under
  <2> QED
    BY <1>4, <2>1
<1>6. PairAt(doc, e, k) = <<Name(z[1]), Name(z[2])>>
  BY <1>2, <1>3 DEF PairAt
<1>7. NestedPairs(D) = {<<Name(v[1]), Name(v[2])>> : v \in P}
  BY DEF NestedPairs
<1> HIDE DEF P
<1> QED
  BY <1>5, <1>6, <1>7

\* Elements of one name have children of the same names.
SameBelow(doc) ==
  \A e, f, k \in 1 .. Len(doc) :
    IsForeignKey(doc, f) /\ doc[e].name = doc[f].name /\ Under(doc, e, k) =>
      \E c \in 1 .. Len(doc) : Under(doc, f, c) /\ doc[c].name = doc[k].name

LEMMA BelowTheSame ==
  ASSUME NEW D \in SUBSET DOMAIN Documents, TidyTogether(D), NEW d \in D,
         NEW doc, doc = Documents[d]
  PROVE  SameBelow(doc)
<1> SUFFICES ASSUME NEW e \in 1 .. Len(doc), NEW f \in 1 .. Len(doc), NEW k \in 1 .. Len(doc),
                    IsForeignKey(doc, f), doc[e].name = doc[f].name, Under(doc, e, k)
             PROVE  \E c \in 1 .. Len(doc) : Under(doc, f, c) /\ doc[c].name = doc[k].name
  BY DEF SameBelow
<1>1. Indices(doc) = 1 .. Len(doc)
  BY DocumentFacts
<1>2. IsForeignKey(doc, e)
  BY <1>1 DEF Under, IsForeignKey
<1>3. PICK x, y : x = <<doc, e>> /\ y = <<doc, f>>
  OBVIOUS
<1>4. x[1] = doc /\ x[2] = e /\ y[1] = doc /\ y[2] = f
  BY <1>3
<1>5. /\ x \in Elements(D) /\ HasTable(x) /\ y \in Elements(D) /\ HasTable(y)
      /\ Name(x) = Name(y)
  <2>1. /\ <<doc, e>> \in Elements(D) /\ Name(<<doc, e>>) = doc[e].name
        /\ HasTable(<<doc, e>>) <=> IsForeignKey(doc, e)
    BY ElementIn
  <2>2. /\ <<doc, f>> \in Elements(D) /\ Name(<<doc, f>>) = doc[f].name
        /\ HasTable(<<doc, f>>) <=> IsForeignKey(doc, f)
    BY ElementIn
  <2> QED
    BY <1>2, <1>3, <2>1, <2>2
<1>6. Below(x) = Below(y)
  BY <1>5, Zenon DEF TidyTogether
<1>7. \A c \in 1 .. Len(doc) : HasTable(<<doc, c>>) <=> IsForeignKey(doc, c)
  BY ElementIn
<1>8. doc[k].name \in Below(x)
  BY <1>1, <1>4, <1>7 DEF Below, Under
<1>9. doc[k].name \in Below(y)
  BY <1>6, <1>8
<1>10. PICK c \in Indices(doc) : doc[c].up = f /\ HasTable(<<doc, c>>) /\ doc[c].name = doc[k].name
  BY <1>4, <1>9 DEF Below
<1> QED
  BY <1>1, <1>7, <1>10 DEF Under

\* createTable does not go into the children of an element whose name has its
\* table; in tidy documents their tables and relations are there all the same.
LEMMA AllReached ==
  ASSUME NEW D \in SUBSET DOMAIN Documents, TidyTogether(D), NEW d \in D,
         NEW doc, doc = Documents[d], NEW acc, TablesInv(doc, Len(doc), acc),
         \A p : Has(relations, p) => p \in NestedPairs(D)
  PROVE  \A k \in 1 .. Len(doc) : IsForeignKey(doc, k) =>
           /\ doc[k].name \in acc.tables
           /\ doc[k].up # 0 => Has(acc.rels, PairAt(doc, doc[k].up, k))
<1> DEFINE N == Len(doc)
           Reached(k) == IsForeignKey(doc, k) =>
             /\ doc[k].name \in acc.tables
             /\ doc[k].up # 0 => Has(acc.rels, PairAt(doc, doc[k].up, k))
           S == {n \in Nat : \A k \in 1 .. n : k <= N => Reached(k)}
<1>1. N \in Nat /\ Indices(doc) = 1 .. N /\ \A k \in 1 .. N : doc[k].up \in 0 .. k - 1
  BY DocumentFacts
<1>2. /\ acc.entered \subseteq 0 .. N /\ 0 \in acc.entered
      /\ \A f \in acc.entered : f # 0 => IsForeignKey(doc, f) /\ PairsOf(doc, acc.rels, f)
      /\ \A m \in acc.tables : \E f \in acc.entered : f # 0 /\ doc[f].name = m
      /\ \A k \in 1 .. N :
           IsForeignKey(doc, k) /\ doc[k].up \in acc.entered => doc[k].name \in acc.tables
  BY DEF TablesInv, EnteredInv
<1>3. \A p : Has(acc.rels, p) => p \in NestedPairs(D)
  <2>1. \A e, k \in 1 .. N : Under(doc, e, k) => PairAt(doc, e, k) \in NestedPairs(D)
    BY PairIsNested
  <2> QED
    BY <2>1 DEF TablesInv, RecordedInv
<1>4. \A p \in NestedPairs(D) : Back(p) \notin NestedPairs(D)
  BY DEF TidyTogether, Back
<1>5. SameBelow(doc)
  BY BelowTheSame
<1>6. 0 \in S
  OBVIOUS
<1>7. ASSUME NEW n \in Nat, n \in S
      PROVE  n + 1 \in S
  <2> DEFINE k == n + 1
             u == doc[k].up
  <2>1. ASSUME k <= N, IsForeignKey(doc, k)
        PROVE  doc[k].name \in acc.tables /\ (u # 0 => Has(acc.rels, PairAt(doc, u, k)))
    <3>1. k \in 1 .. N /\ u \in 0 .. k - 1 /\ k - 1 = n
      BY <1>1, <2>1
    <3>2. CASE u = 0
      BY <1>2, <2>1, <3>1, <3>2
    <3>3. CASE u # 0
      <4>1. u \in 1 .. n /\ u \in 1 .. N /\ u <= N
        <5> HIDE DEF u
        <5> QED
          BY <1>1, <2>1, <3>1, <3>3
      <4>2. Under(doc, u, k)
        BY <2>1 DEF Under
      <4>3. IsForeignKey(doc, u)
        BY <1>1, <3>1 DEF IsForeignKey
      <4>4. doc[u].name \in acc.tables
        BY <1>7, <4>1, <4>3
      <4>5. PICK f \in acc.entered : f # 0 /\ doc[f].name = doc[u].name
        BY <1>2, <4>4
      <4>6. f \in 1 .. N /\ IsForeignKey(doc, f) /\ PairsOf(doc, acc.rels, f)
        BY <1>1, <1>2, <4>5
      <4> HIDE DEF u, k
      <4>7. PICK c \in 1 .. N : Under(doc, f, c) /\ doc[c].name = doc[k].name
        BY <1>5, <3>1, <4>1, <4>2, <4>5, <4>6 DEF SameBelow
      <4>8. doc[k].name \in acc.tables
        BY <1>2, <4>7 DEF Under
      <4>9. PICK p : p = PairAt(doc, u, k)
        OBVIOUS
      <4>10. Has(acc.rels, p) \/ Has(acc.rels, Back(p))
        <5>1. PairAt(doc, f, c) = p
          BY <4>5, <4>7, <4>9 DEF PairAt
        <5> QED
          BY <4>6, <4>7, <5>1 DEF PairsOf
      <4>11. p \in NestedPairs(D)
        BY <3>1, <4>1, <4>2, <4>9, PairIsNested
      <4>12. ~ Has(acc.rels, Back(p))
        BY <1>3, <1>4, <4>11
      <4> QED
        BY <4>8, <4>9, <4>10, <4>12
    <3> QED
      BY <3>2, <3>3
  <2>2. \A x \in 1 .. n + 1 : x \in 1 .. n \/ x = n + 1
    OBVIOUS
  <2>3. Reached(n + 1) \/ ~ (n + 1 <= N)
    BY <2>1
  <2> HIDE DEF Reached
  <2> QED
    BY <1>7, <2>2, <2>3
<1>8. N \in S
  <2> HIDE DEF S
  <2> QED
    BY <1>1, <1>6, <1>7, InductionInNat
<1>9. \A k \in 1 .. N : k <= N
  BY <1>1
<1> QED
  BY <1>8, <1>9

----------------------------------------------------------------------------
(* What a new script declares and needs                                    *)

\* A script: first what creates tables, then rows and links.
LEMMA BehindTables ==
  ASSUME NEW C \in Seq(Creates), NEW S \in Seq(Inserts(Identifiers)), NEW W, W = C \o S
  PROVE  /\ Len(C) \in Nat /\ Len(S) \in Nat /\ Len(W) = Len(C) + Len(S)
         /\ \A k \in 1 .. Len(C) : /\ k \in 1 .. Len(W) /\ W[k] = C[k]
                                   /\ W[k].do = "create" /\ ~ IsRow(W, k) /\ ~ IsLink(W, k)
         /\ \A k \in 1 .. Len(W) : k \in 1 .. Len(C) \/
              /\ k - Len(C) \in 1 .. Len(S) /\ W[k] = S[k - Len(C)] /\ W[k].do # "create"
              /\ IsRow(W, k) <=> IsRow(S, k - Len(C))
              /\ IsLink(W, k) <=> IsLink(S, k - Len(C))
              /\ \A j \in 1 .. Len(C) : j \in 1 .. k - 1
<1> DEFINE n == Len(C)
<1>1. /\ n \in Nat /\ Len(S) \in Nat /\ Len(W) = n + Len(S)
      /\ \A k \in 1 .. n : k \in 1 .. Len(W) /\ W[k] = C[k]
      /\ \A k \in 1 .. Len(W) : k \notin 1 .. n => k - n \in 1 .. Len(S) /\ W[k] = S[k - n]
  OBVIOUS
<1>2. \A k \in 1 .. n : C[k].do = "create"
  <2>1. \A k \in 1 .. n : C[k] \in Creates
    OBVIOUS
  <2> QED
    BY <2>1, StatementKind
<1>3. \A k \in 1 .. Len(S) : S[k].do # "create"
  <2>1. \A k \in 1 .. Len(S) : S[k] \in Inserts(Identifiers)
    OBVIOUS
  <2>2. \A s \in Inserts(Identifiers) : s.do \in {"row", "link"}
    BY StatementKind
  <2> QED
    BY <2>1, <2>2
<1> HIDE DEF n
<1>4. \A k \in 1 .. n : k \in 1 .. Len(W) /\ W[k] = C[k] /\ W[k].do = "create"
                        /\ ~ IsRow(W, k) /\ ~ IsLink(W, k)
  BY <1>1, <1>2 DEF IsRow, IsLink
<1>5. ASSUME NEW k \in 1 .. Len(W), k \notin 1 .. n
      PROVE  /\ k - n \in 1 .. Len(S) /\ W[k] = S[k - n] /\ W[k].do # "create"
             /\ IsRow(W, k) <=> IsRow(S, k - n)
             /\ IsLink(W, k) <=> IsLink(S, k - n)
             /\ \A j \in 1 .. n : j \in 1 .. k - 1
  <2>1. k - n \in 1 .. Len(S) /\ W[k] = S[k - n] /\ W[k].do # "create"
    BY <1>1, <1>3, <1>5
  <2>2. \A j \in 1 .. n : j \in 1 .. k - 1
    BY <1>1, <1>5
  <2> QED
    BY <2>1, <2>2, Zenon DEF IsRow, IsLink
<1> QED
  BY <1>1, <1>4, <1>5 DEF n

\* What is said of the rows of the second pass is said of those of the script.
LEMMA RowsBehindTables ==
  ASSUME NEW C \in Seq(Creates), NEW S \in Seq(Inserts(Identifiers)), NEW W, W = C \o S,
         NEW d, NEW count, KeysDistinct(S), KeysCounted(S, count), RowsOfDocument(S, d),
         \A k \in 1 .. Len(S) : IsRow(S, k) => S[k].id > LastId(counters, S[k].table[1])
  PROVE  /\ KeysDistinct(W) /\ KeysCounted(W, count) /\ RowsOfDocument(W, d)
         /\ \A k \in 1 .. Len(W) : IsRow(W, k) => W[k].id > LastId(counters, W[k].table[1])
<1> DEFINE n == Len(C)
<1>1. n \in Nat
  OBVIOUS
<1>2. ASSUME NEW k \in 1 .. Len(W), IsRow(W, k)
      PROVE  k - n \in 1 .. Len(S) /\ W[k] = S[k - n] /\ IsRow(S, k - n)
  <2>1. \A j \in 1 .. n : ~ IsRow(W, j)
    BY BehindTables
  <2>2. \/ k \in 1 .. n
        \/ /\ k - n \in 1 .. Len(S) /\ W[k] = S[k - n]
           /\ IsRow(W, k) <=> IsRow(S, k - n)
    BY BehindTables
  <2> QED
    BY <1>2, <2>1, <2>2
<1> HIDE DEF n
<1>3. KeysDistinct(W)
  <2>1. SUFFICES ASSUME NEW j \in 1 .. Len(W), NEW k \in 1 .. Len(W), IsRow(W, j), IsRow(W, k),
                        W[j].table = W[k].table, W[j].id = W[k].id
                 PROVE  j = k
    BY DEF KeysDistinct
  <2>2. /\ j - n \in 1 .. Len(S) /\ k - n \in 1 .. Len(S) /\ IsRow(S, j - n) /\ IsRow(S, k - n)
        /\ S[j - n].table = S[k - n].table /\ S[j - n].id = S[k - n].id
    BY <1>2, <2>1
  <2>3. j - n = k - n
    BY <2>2, Zenon DEF KeysDistinct
  <2>4. j \in Int /\ k \in Int
    OBVIOUS
  <2> QED
    BY <1>1, <2>3, <2>4
<1>4. KeysCounted(W, count)
  BY <1>2 DEF KeysCounted
<1>5. RowsOfDocument(W, d)
  BY <1>2 DEF RowsOfDocument
<1> QED
  BY <1>2, <1>3, <1>4, <1>5

CreatedFor(C, first, D) ==
  /\ C \in Seq(Creates)
  /\ \A k \in 1 .. Len(first.rels) : first.rels[k] \in NestedPairs(D)
  /\ \A k \in 1 .. Len(C) : Declares(C[k].table, C[k].cols, D)
  /\ \A m \in first.tables : \E k \in 1 .. Len(C) : C[k].table = <<m>>
  /\ \A p : Has(first.rels, p) => \E k \in 1 .. Len(C) : C[k].table = p

\* The tables and relations that are created are of the documents D, and a table is
\* created for every name and every pair that is recorded.
LEMMA TablesCreated ==
  ASSUME NEW D \in SUBSET DOMAIN Documents, NEW d \in D, NEW doc, doc = Documents[d],
         NEW first, TablesInv(doc, Len(doc), first),
         \A p : Has(relations, p) => p \in NestedPairs(D),
         NEW C, C = first.out \o RelationPass(first.rels)
  PROVE  CreatedFor(C, first, D)
<1>1. PICK A, rels, B : A = first.out /\ rels = first.rels /\ B = RelationPass(rels)
  OBVIOUS
<1>2. /\ A \in Seq(Creates) /\ rels \in Seq(Names \X Names) /\ B \in Seq(Creates)
      /\ C = A \o B
      /\ \A m \in first.tables : \E k \in 1 .. Len(A) : A[k].table = <<m>>
      /\ \A k \in 1 .. Len(A) : \E e \in 1 .. Len(doc) : IsTableOf(doc, A[k], e)
  BY <1>1, RelationPassType DEF TablesInv, WrittenInv, RecordedInv
<1>3. /\ C \in Seq(Creates)
      /\ Len(A) \in Nat /\ Len(B) \in Nat
      /\ \A k \in 1 .. Len(C) :
           \/ k \in 1 .. Len(A) /\ C[k] = A[k]
           \/ k - Len(A) \in 1 .. Len(B) /\ C[k] = B[k - Len(A)]
      /\ \A k \in 1 .. Len(A) : k \in 1 .. Len(C) /\ C[k] = A[k]
      /\ \A k \in 1 .. Len(B) : k + Len(A) \in 1 .. Len(C) /\ C[k + Len(A)] = B[k]
  BY <1>2
<1>4. \A p : Has(rels, p) => p \in NestedPairs(D)
  <2>1. \A e, k \in 1 .. Len(doc) : Under(doc, e, k) => PairAt(doc, e, k) \in NestedPairs(D)
    BY PairIsNested
  <2> QED
    BY <1>1, <2>1 DEF TablesInv, RecordedInv
<1>5. \A k \in 1 .. Len(rels) : rels[k] \in NestedPairs(D)
  BY <1>4 DEF Has
<1>6. /\ Len(B) = Len(rels)
      /\ \A k \in 1 .. Len(rels) : B[k].table = rels[k] /\ B[k].cols = RelationColumns(rels[k])
  <2>1. DOMAIN rels = 1 .. Len(rels) /\ Len(rels) \in Nat
    BY <1>2
  <2>2. B = [k \in 1 .. Len(rels) |-> Create(rels[k], RelationColumns(rels[k]), FALSE)]
    BY <1>1, <2>1 DEF RelationPass, RelationColumns
  <2>3. \A k \in 1 .. Len(rels) : B[k] = Create(rels[k], RelationColumns(rels[k]), FALSE)
    BY <2>2
  <2>4. Len(B) = Len(rels)
    BY <2>1, <2>2
  <2>5. ASSUME NEW k \in 1 .. Len(rels)
        PROVE  B[k].table = rels[k] /\ B[k].cols = RelationColumns(rels[k])
    <3>1. PICK t, c : t = rels[k] /\ c = RelationColumns(t)
      OBVIOUS
    <3>2. B[k] = Create(t, c, FALSE)
      BY <2>3, <3>1
    <3> QED
      BY <3>1, <3>2 DEF Create
  <2> QED
    BY <2>4, <2>5
<1>7. ASSUME NEW k \in 1 .. Len(C)
      PROVE  Declares(C[k].table, C[k].cols, D)
  <2>1. CASE k \in 1 .. Len(A) /\ C[k] = A[k]
    <3>1. PICK e \in 1 .. Len(doc) : IsTableOf(doc, A[k], e)
      BY <1>2, <2>1
    <3>2. PICK x : x = <<doc, e>>
      OBVIOUS
    <3>3. x[1] = doc /\ x[2] = e /\ x \in Elements(D) /\ HasTable(x) /\ Name(x) = doc[e].name
      BY <3>1, <3>2, ElementIn DEF IsTableOf
    <3>4. C[k].table = <<Name(x)>> /\ C[k].cols = TableColumns(x[1], x[2])
      BY <2>1, <3>1, <3>3 DEF IsTableOf
    <3> QED
      BY <3>3, <3>4 DEF Declares
  <2>2. CASE k - Len(A) \in 1 .. Len(B) /\ C[k] = B[k - Len(A)]
    <3>1. PICK j \in 1 .. Len(B) : C[k] = B[j]
      BY <2>2
    <3>2. C[k].table \in NestedPairs(D) /\ C[k].cols = RelationColumns(C[k].table)
      BY <1>5, <1>6, <3>1
    <3> QED
      BY <3>2 DEF Declares
  <2> QED
    BY <1>3, <2>1, <2>2
<1>8. \A m \in first.tables : \E k \in 1 .. Len(C) : C[k].table = <<m>>
  BY <1>2, <1>3
<1>9. ASSUME NEW p, Has(rels, p)
      PROVE  \E k \in 1 .. Len(C) : C[k].table = p
  <2>1. PICK k \in 1 .. Len(rels) : rels[k] = p
    BY <1>9 DEF Has
  <2>2. k + Len(A) \in 1 .. Len(C) /\ C[k + Len(A)] = B[k] /\ B[k].table = p
    BY <1>3, <1>6, <2>1
  <2> QED
    BY <2>2
<1> QED
  BY <1>1, <1>3, <1>5, <1>7, <1>8, <1>9 DEF CreatedFor

\* In tidy documents the elements with a row have a table, and the tables and the
\* relations that rows and links need are created before.
LEMMA InsertsPrepared ==
  ASSUME NEW D \in SUBSET DOMAIN Documents, TidyTogether(D), NEW d \in D,
         NEW doc, doc = Documents[d], NEW first, TablesInv(doc, Len(doc), first),
         \A p : Has(relations, p) => p \in NestedPairs(D),
         NEW click, NEW b, NEW second, PassInv(d, click, b, Len(doc), second),
         NEW k \in 1 .. Len(second.out), IsRow(second.out, k) \/ IsLink(second.out, k)
  PROVE  \/ \E m \in first.tables : second.out[k].table = <<m>>
         \/ Has(first.rels, second.out[k].table)
<1>1. /\ Indices(doc) = 1 .. Len(doc)
      /\ DOMAIN second.id = {i \in 1 .. Len(doc) : Visited(doc, i)}
  BY DocumentFacts DEF PassInv, Numbered
<1>2. \A i \in 1 .. Len(doc) : IsForeignKey(doc, i) =>
        /\ doc[i].name \in first.tables
        /\ doc[i].up # 0 => Has(first.rels, PairAt(doc, doc[i].up, i))
  BY AllReached
<1>3. ASSUME NEW i \in DOMAIN second.id
      PROVE  IsForeignKey(doc, i)
  <2>1. CASE doc[i].up = 0
    <3>1. PICK e : e = <<doc, i>>
      OBVIOUS
    <3>2. e \in Elements(D) /\ e[1] = doc /\ e[2] = i /\ (HasTable(e) <=> IsForeignKey(doc, i))
      BY <1>1, <3>1, ElementIn
    <3>3. e[1][e[2]].up = 0
      BY <2>1, <3>2
    <3> QED
      BY <3>2, <3>3, Zenon DEF TidyTogether
  <2> QED
    BY <1>1, <2>1 DEF Visited
<1>4. CASE IsRow(second.out, k)
  <2>1. PICK i \in DOMAIN second.id : second.out[k] = RowFor(d, click, second.id, i)
    BY <1>4 DEF PassInv, RowsStandFor
  <2>2. second.out[k].table = <<doc[i].name>>
    BY <2>1, RowSays
  <2> QED
    BY <1>1, <1>2, <1>3, <2>2
<1>5. CASE IsLink(second.out, k)
  <2>1. PICK i \in DOMAIN second.id :
          doc[i].up # 0 /\ second.out[k] = LinkFor(d, second.id, i)
    BY <1>5 DEF PassInv, LinksFollow
  <2>2. second.out[k].table = PairAt(doc, doc[i].up, i)
    BY <2>1, LinkSays DEF PairAt
  <2> QED
    BY <1>1, <1>2, <1>3, <2>1, <2>2
<1> QED
  BY <1>4, <1>5

\* The script W, with what the passes leave for the next click, fits the documents D
\* and the identifiers given out before.
Fits(W, D, d, first, second) ==
  /\ \A k \in 1 .. Len(first.rels) : first.rels[k] \in NestedPairs(D)
  /\ CreatesDeclare(W, D)
  /\ KeysDistinct(W) /\ KeysCounted(W, second.count) /\ RowsOfDocument(W, d)
  /\ \A k \in 1 .. Len(W) : IsRow(W, k) => W[k].id > LastId(counters, W[k].table[1])
  /\ \A m : LastId(counters, m) <= LastId(second.count, m)
  /\ TidyTogether(D) => AllPrepared(W)

LEMMA NewScriptFits ==
  ASSUME ScriptInv, clicks < MaxClicks, NEW D \in SUBSET DOMAIN Documents, NEW d \in D,
         \A p : Has(relations, p) => p \in NestedPairs(D),
         NEW garbled \in BOOLEAN, NEW first, first = TablePass(Documents[d], garbled),
         NEW second, second = InsertPass(d, clicks + 1),
         NEW W, W = first.out \o RelationPass(first.rels) \o second.out
  PROVE  Fits(W, D, d, first, second)
<1> DEFINE c == clicks + 1
           b == clicks * Size
<1>1. /\ clicks \in 0 .. MaxClicks /\ MaxClicks \in Nat /\ clicks \in Nat
      /\ c \in 1 .. MaxClicks /\ c \in 0 .. MaxClicks
  BY XmlAssumption DEF ScriptInv
<1>2. b \in Nat /\ c * Size = b + Size /\ b + Size <= MaxClicks * Size /\ CounterBound(counters, b)
  BY <1>1, IdentifiersSuffice DEF ScriptInv
<1>3. PICK doc, S, C : /\ doc = Documents[d] /\ S = second.out
                       /\ C = first.out \o RelationPass(first.rels)
  OBVIOUS
<1> HIDE DEF c, b
<1>4. S \in Seq(Inserts(Identifiers)) /\ PassInv(d, c, b, Len(doc), second)
  BY <1>1, <1>2, <1>3, InsertPassShape, PassInvHolds DEF c
<1>5. /\ KeysDistinct(S) /\ KeysCounted(S, second.count) /\ RowsOfDocument(S, d)
      /\ \A k \in 1 .. Len(S) : IsRow(S, k) => S[k].id > LastId(counters, S[k].table[1])
      /\ \A m : LastId(counters, m) <= LastId(second.count, m)
  BY <1>1, <1>2, <1>3, InsertPassKeys DEF c
<1>6. TablesInv(doc, Len(doc), first)
  BY <1>3, TablesInvHolds DEF ScriptInv
<1>7. /\ C \in Seq(Creates)
      /\ \A k \in 1 .. Len(first.rels) : first.rels[k] \in NestedPairs(D)
      /\ \A k \in 1 .. Len(C) : Declares(C[k].table, C[k].cols, D)
      /\ \A m \in first.tables : \E k \in 1 .. Len(C) : C[k].table = <<m>>
      /\ \A p : Has(first.rels, p) => \E k \in 1 .. Len(C) : C[k].table = p
  <2>1. CreatedFor(C, first, D)
    BY <1>3, <1>6, TablesCreated
  <2> QED
    BY <2>1 DEF CreatedFor
<1>8. W = C \o S
  BY <1>3
<1>9. /\ KeysDistinct(W) /\ KeysCounted(W, second.count) /\ RowsOfDocument(W, d)
      /\ \A k \in 1 .. Len(W) : IsRow(W, k) => W[k].id > LastId(counters, W[k].table[1])
  BY <1>4, <1>5, <1>7, <1>8, RowsBehindTables
<1>10. /\ \A k \in 1 .. Len(C) : /\ k \in 1 .. Len(W) /\ W[k] = C[k]
                                 /\ W[k].do = "create" /\ ~ IsRow(W, k) /\ ~ IsLink(W, k)
       /\ \A k \in 1 .. Len(W) : k \in 1 .. Len(C) \/
            /\ k - Len(C) \in 1 .. Len(S) /\ W[k] = S[k - Len(C)] /\ W[k].do # "create"
            /\ IsRow(W, k) <=> IsRow(S, k - Len(C))
            /\ IsLink(W, k) <=> IsLink(S, k - Len(C))
            /\ \A j \in 1 .. Len(C) : j \in 1 .. k - 1
  BY <1>4, <1>7, <1>8, BehindTables
<1>11. CreatesDeclare(W, D)
  <2>1. ASSUME NEW k \in 1 .. Len(W), W[k].do = "create"
        PROVE  k \in 1 .. Len(C) /\ W[k] = C[k]
    BY <1>10, <2>1
  <2>2. \A k \in 1 .. Len(W) : W[k].do = "create" => Declares(W[k].table, W[k].cols, D)
    BY <1>7, <2>1
  <2> QED
    BY <2>2 DEF CreatesDeclare
<1>12. ASSUME TidyTogether(D)
       PROVE  AllPrepared(W)
  <2>1. SUFFICES ASSUME NEW k \in 1 .. Len(W), IsRow(W, k) \/ IsLink(W, k)
                 PROVE  \E j \in 1 .. k - 1 : W[j].do = "create" /\ W[j].table = W[k].table
    BY DEF AllPrepared
  <2>2. k \notin 1 .. Len(C)
    BY <1>10, <2>1
  <2>3. PICK x : x = k - Len(C)
    OBVIOUS
  <2>4. /\ x \in 1 .. Len(S) /\ W[k] = S[x] /\ (IsRow(S, x) \/ IsLink(S, x))
        /\ \A j \in 1 .. Len(C) : j \in 1 .. k - 1
    BY <1>10, <2>1, <2>2, <2>3
  <2>5. \/ \E m \in first.tables : S[x].table = <<m>>
        \/ Has(first.rels, S[x].table)
    BY <1>3, <1>4, <1>6, <1>12, <2>4, InsertsPrepared
  <2>6. PICK j \in 1 .. Len(C) : C[j].table = S[x].table
    BY <1>7, <2>5
  <2>7. j \in 1 .. k - 1 /\ W[j] = C[j] /\ W[j].do = "create"
    BY <1>10, <2>4
  <2>8. W[j].table = W[k].table
    BY <2>4, <2>6, <2>7
  <2> QED
    BY <2>7, <2>8
<1> QED
  BY <1>5, <1>7, <1>9, <1>11, <1>12 DEF Fits

LEMMA BeginningFits ==
  ASSUME NEW W, NEW D, NEW d, NEW first, NEW second, Fits(W, D, d, first, second),
         NEW w, NEW n, Begins(w, W, n)
  PROVE  Fits(w, D, d, first, second)
<1>1. Len(W) \in Nat /\ Len(w) \in Nat /\ n \in Nat
  BY BeginningSays
<1>2. \A k \in 1 .. n : /\ k \in 1 .. Len(w) /\ k \in 1 .. Len(W) /\ w[k] = W[k]
                        /\ (IsRow(w, k) <=> IsRow(W, k)) /\ (IsLink(w, k) <=> IsLink(W, k))
  BY BeginningSays
<1>3. \A k : IsRow(w, k) \/ IsLink(w, k) => k \in 1 .. n
  BY BeginningSays
<1>4. CreatesDeclare(w, D)
  <2>1. \A k \in 1 .. Len(w) : w[k].do = "create" => k \in 1 .. n
    BY DEF Begins
  <2>2. CreatesDeclare(W, D)
    BY DEF Fits
  <2> QED
    BY <1>2, <2>1, <2>2 DEF CreatesDeclare
<1>5. KeysDistinct(w)
  <2>1. KeysDistinct(W)
    BY DEF Fits
  <2> QED
    BY <1>2, <1>3, <2>1 DEF KeysDistinct
<1>6. KeysCounted(w, second.count)
  <2>1. KeysCounted(W, second.count)
    BY DEF Fits
  <2> QED
    BY <1>2, <1>3, <2>1 DEF KeysCounted
<1>7. RowsOfDocument(w, d)
  <2>1. RowsOfDocument(W, d)
    BY DEF Fits
  <2> QED
    BY <1>2, <1>3, <2>1 DEF RowsOfDocument
<1>8. \A k \in 1 .. Len(w) : IsRow(w, k) => w[k].id > LastId(counters, w[k].table[1])
  BY <1>2, <1>3 DEF Fits
<1>9. ASSUME TidyTogether(D)
      PROVE  AllPrepared(w)
  <2>1. AllPrepared(W)
    BY <1>9 DEF Fits
  <2>2. SUFFICES ASSUME NEW k \in 1 .. Len(w), IsRow(w, k) \/ IsLink(w, k)
                 PROVE  \E j \in 1 .. k - 1 : w[j].do = "create" /\ w[j].table = w[k].table
    BY DEF AllPrepared
  <2>3. k \in 1 .. n /\ k \in 1 .. Len(W) /\ w[k] = W[k] /\ (IsRow(W, k) \/ IsLink(W, k))
    BY <1>2, <1>3, <2>2
  <2>4. PICK j \in 1 .. k - 1 : W[j].do = "create" /\ W[j].table = W[k].table
    BY <2>1, <2>3 DEF AllPrepared
  <2>5. j \in 1 .. n
    BY <1>1, <2>3, <2>4
  <2> QED
    BY <1>2, <2>3, <2>4, <2>5
<1> QED
  BY <1>4, <1>5, <1>6, <1>7, <1>8, <1>9 DEF Fits

----------------------------------------------------------------------------
(* Tidy documents build                                                    *)

LEMMA MoreDocuments ==
  ASSUME NEW D, NEW E, D \subseteq E
  PROVE  /\ Elements(D) \subseteq Elements(E)
         /\ NestedPairs(D) \subseteq NestedPairs(E)
<1>1. Elements(D) \subseteq Elements(E)
  BY DEF Elements
<1> QED
  BY <1>1 DEF NestedPairs

LEMMA TidyInvInit == Init => TidyInv
<1> SUFFICES ASSUME Init PROVE TidyInv
  OBVIOUS
<1>1. /\ relations = <<>> /\ schema = <<>> /\ rows = {} /\ script = NoFile /\ building = 0
      /\ Len(NoFile) = 1 /\ NoFile[1].do = "no file" /\ \A k \in 1 .. 1 : k = 1
  <2>1. \A k \in 1 .. 1 : k = 1
    OBVIOUS
  <2> QED
    BY <2>1, NothingWritten, Zenon DEF Init
<1>2. RelationsOfBuilt /\ SchemaOfBuilt /\ RowsCounted
  <2>1. Len(<<>>) = 0 /\ DOMAIN <<>> = {} /\ 1 .. 0 = {}
    OBVIOUS
  <2> QED
    BY <1>1, <2>1 DEF RelationsOfBuilt, SchemaOfBuilt, RowsCounted
<1>3. CreatesDeclare(script, built) /\ KeysCounted(script, counters)
  BY <1>1 DEF CreatesDeclare, KeysCounted, IsRow
<1> QED
  BY <1>1, <1>2, <1>3 DEF TidyInv, KeptInv

LEMMA TidyInvBuild ==
  ASSUME ScriptInv, DataInv, TypeInv, TidyInv, NEW d \in DOMAIN Documents, Build(d)
  PROVE  TidyInv'
<1>1. /\ clicks < MaxClicks /\ pos' = 1 /\ building' = d /\ built' = built \union {d}
      /\ UNCHANGED <<schema, rows, links, restarts>>
  BY DEF Build, Click, database
<1>2. SUFFICES ASSUME ~ restarts, KeptInv
               PROVE  KeptInv' /\ FreshInv'
  BY <1>1 DEF TidyInv
<1>3. PICK garbled \in {FALSE} \union {"stack" \in Faults} :
        LET first == TablePass(Documents[d], garbled)
            second == InsertPass(d, clicks + 1)
            all == first.out \o RelationPass(first.rels) \o second.out
        IN  /\ relations' = first.rels
            /\ counters' = second.count
            /\ script' = all \/ script' \in Beginnings(all)
  BY DEF Build
<1>4. garbled \in BOOLEAN
  <2> DEFINE stack == "stack" \in Faults
  <2>1. stack \in BOOLEAN
    OBVIOUS
  <2>2. garbled \in {FALSE} \union {stack}
    OBVIOUS
  <2> HIDE DEF stack
  <2> QED
    BY <2>1, <2>2
<1>5. PICK D, first, second, all, W :
        /\ D = built' /\ first = TablePass(Documents[d], garbled)
        /\ second = InsertPass(d, clicks + 1)
        /\ all = first.out \o RelationPass(first.rels) \o second.out
        /\ W = script'
  OBVIOUS
<1>6. /\ relations' = first.rels /\ counters' = second.count /\ script' = W
      /\ script' = all \/ script' \in Beginnings(all)
  BY <1>3, <1>5
<1>7. D \in SUBSET DOMAIN Documents /\ d \in D /\ built \subseteq D
  BY <1>1, <1>5 DEF TypeInv
<1>8. Elements(built) \subseteq Elements(D) /\ NestedPairs(built) \subseteq NestedPairs(D)
  BY <1>7, MoreDocuments
<1>9. \A p : Has(relations, p) => p \in NestedPairs(D)
  BY <1>2, <1>8 DEF KeptInv, RelationsOfBuilt, Has
<1>10. /\ \A k \in 1 .. Len(first.rels) : first.rels[k] \in NestedPairs(D)
       /\ CreatesDeclare(W, D)
       /\ KeysDistinct(W) /\ KeysCounted(W, second.count) /\ RowsOfDocument(W, d)
       /\ \A k \in 1 .. Len(W) : IsRow(W, k) => W[k].id > LastId(counters, W[k].table[1])
       /\ \A m : LastId(counters, m) <= LastId(second.count, m)
       /\ TidyTogether(D) => AllPrepared(W)
  <2>1. Fits(all, D, d, first, second)
    BY <1>1, <1>4, <1>5, <1>7, <1>9, NewScriptFits
  <2>2. WellFormed(all) /\ RowsOfClick(all, clicks + 1)
    BY <1>1, <1>4, <1>5, NewScript
  <2>3. PICK n \in Nat : Begins(W, all, n)
    BY <1>5, <1>6, <2>2, ScriptOnDisk
  <2>4. Fits(W, D, d, first, second)
    BY <2>1, <2>3, BeginningFits
  <2> QED
    BY <2>4 DEF Fits
<1>11. \A m : LastId(counters, m) \in Nat /\ LastId(second.count, m) \in Nat
  <2>1. /\ CounterBound(counters, clicks * Size) /\ CounterBound(counters', clicks' * Size)
        /\ clicks * Size \in Nat /\ clicks' * Size \in Nat
    BY BuildEffect, IdentifiersSuffice DEF ScriptInv
  <2> QED
    BY <1>6, <2>1, LastIdNat
<1>12. \A r \in rows : r.id \in Nat /\ r.id <= LastId(counters, r.table[1])
  <2>1. Identifiers \subseteq Nat
    BY DEF Identifiers
  <2> QED
    BY <1>2, <2>1 DEF KeptInv, RowsCounted, DataInv, RowsTyped
<1>13. RelationsOfBuilt'
  BY <1>5, <1>6, <1>10 DEF RelationsOfBuilt
<1>14. SchemaOfBuilt'
  BY <1>1, <1>2, <1>5, <1>8 DEF KeptInv, SchemaOfBuilt
<1>15. RowsCounted'
  <2>1. ASSUME NEW r \in rows
        PROVE  r.id <= LastId(second.count, r.table[1])
    BY <1>10, <1>11, <1>12
  <2> QED
    BY <1>1, <1>6, <2>1 DEF RowsCounted
<1>16. KeptInv'
  BY <1>5, <1>6, <1>10, <1>13, <1>14, <1>15 DEF KeptInv
<1>17. KeysFree'
  <2>1. ASSUME NEW k \in 1 .. Len(W), IsRow(W, k), NEW r \in rows,
               r.table = W[k].table, r.id = W[k].id
        PROVE  FALSE
    <3>1. /\ W[k].id > LastId(counters, r.table[1]) /\ W[k].id <= LastId(counters, r.table[1])
          /\ W[k].id \in Nat
      BY <1>10, <1>12, <2>1
    <3> QED
      BY <1>11, <3>1
  <2> QED
    BY <1>1, <1>6, <2>1 DEF KeysFree, KeyTaken
<1>18. CreatesExecuted'
  <2>1. 1 .. pos' - 1 = {}
    BY <1>1
  <2> QED
    BY <2>1 DEF CreatesExecuted
<1> QED
  BY <1>1, <1>5, <1>6, <1>7, <1>10, <1>16, <1>17, <1>18 DEF FreshInv

LEMMA TidyInvExecute ==
  ASSUME ScriptInv, TidyInv, Execute
  PROVE  TidyInv'
<1>1. /\ pos \in 1 .. Len(script) /\ pos' = pos + 1 /\ Len(script) \in Nat
      /\ UNCHANGED <<relations, counters, script, building, built, restarts>>
  BY ExecuteEffect DEF Execute, history
<1>2. PICK s : s = script[pos]
  OBVIOUS
<1>3. /\ schema' = IF s.do = "create" /\ s.table \notin DOMAIN schema
                   THEN Put(schema, s.table, ToSet(s.cols)) ELSE schema
      /\ rows' = IF s.do = "row" THEN rows \union {RowOf(s)} ELSE rows
  BY <1>2, Zenon DEF Execute, RowOf
<1>4. RowOf(s).table = s.table /\ RowOf(s).id = s.id
  BY DEF RowOf
<1>5. s.do = "row" <=> IsRow(script, pos)
  BY <1>1, <1>2 DEF IsRow
<1>6. /\ \A t \in DOMAIN schema : t \in DOMAIN schema' /\ schema'[t] = schema[t]
      /\ \A t \in DOMAIN schema' :
           \/ t \in DOMAIN schema
           \/ s.do = "create" /\ t = s.table /\ schema'[t] = ToSet(s.cols)
      /\ s.do = "create" => s.table \in DOMAIN schema'
  <2>1. CASE s.do = "create" /\ s.table \notin DOMAIN schema
    <3>1. PICK t, v : t = s.table /\ v = ToSet(s.cols)
      OBVIOUS
    <3>2. schema' = Put(schema, t, v)
      BY <1>3, <2>1, <3>1
    <3>3. DOMAIN schema' = DOMAIN schema \union {t} /\ schema'[t] = v
      BY <3>2 DEF Put
    <3>4. \A x \in DOMAIN schema : x # t /\ schema'[x] = schema[x]
      BY <2>1, <3>1, <3>2, PutElsewhere
    <3> QED
      BY <2>1, <3>1, <3>3, <3>4
  <2>2. CASE ~ (s.do = "create" /\ s.table \notin DOMAIN schema)
    <3>1. schema' = schema
      BY <1>3, <2>2
    <3> QED
      BY <2>2, <3>1
  <2> QED
    BY <2>1, <2>2
<1>7. ASSUME KeptInv
      PROVE  KeptInv'
  <2>1. RelationsOfBuilt'
    BY <1>1, <1>7 DEF KeptInv, RelationsOfBuilt
  <2>2. SchemaOfBuilt'
    <3>1. s.do = "create" => Declares(s.table, s.cols, built)
      BY <1>1, <1>2, <1>7 DEF KeptInv, CreatesDeclare
    <3>2. ASSUME NEW t \in DOMAIN schema'
          PROVE  \/ \E e \in Elements(built) :
                      /\ HasTable(e) /\ t = <<Name(e)>>
                      /\ schema'[t] = ToSet(TableColumns(e[1], e[2]))
                 \/ t \in NestedPairs(built)
      <4>1. CASE t \in DOMAIN schema
        BY <1>6, <1>7, <4>1 DEF KeptInv, SchemaOfBuilt
      <4>2. CASE s.do = "create" /\ t = s.table /\ schema'[t] = ToSet(s.cols)
        BY <3>1, <4>2 DEF Declares
      <4> QED
        BY <1>6, <4>1, <4>2
    <3> QED
      BY <1>1, <3>2, Zenon DEF SchemaOfBuilt
  <2>3. RowsCounted'
    BY <1>1, <1>2, <1>3, <1>4, <1>5, <1>7 DEF KeptInv, RowsCounted, KeysCounted
  <2>4. CreatesDeclare(script, built)' /\ KeysCounted(script, counters)'
    BY <1>1, <1>7 DEF KeptInv
  <2> QED
    BY <2>1, <2>2, <2>3, <2>4 DEF KeptInv
<1>8. ASSUME FreshInv
      PROVE  FreshInv'
  <2>1. KeysFree'
    <3>1. ASSUME NEW k \in pos + 1 .. Len(script), IsRow(script, k), NEW r \in rows',
                 r.table = script[k].table, r.id = script[k].id
          PROVE  FALSE
      <4>1. k \in pos .. Len(script) /\ k \in 1 .. Len(script) /\ k # pos /\ pos > 0
        BY <1>1
      <4>2. r \notin rows
        BY <1>8, <3>1, <4>1 DEF FreshInv, KeysFree, KeyTaken
      <4>3. r = RowOf(s) /\ IsRow(script, pos)
        BY <1>3, <1>5, <4>2
      <4>4. script[pos].table = script[k].table /\ script[pos].id = script[k].id
        BY <1>2, <1>4, <3>1, <4>3
      <4>5. pos = k
        BY <1>1, <1>8, <3>1, <4>1, <4>3, <4>4 DEF FreshInv, KeysDistinct
      <4> QED
        BY <4>1, <4>5
    <3> QED
      BY <1>1, <3>1 DEF KeysFree, KeyTaken
  <2>2. CreatesExecuted'
    <3>1. ASSUME NEW k \in 1 .. pos, script[k].do = "create"
          PROVE  script[k].table \in DOMAIN schema'
      <4>1. CASE k = pos
        BY <1>2, <1>6, <3>1, <4>1
      <4>2. CASE k \in 1 .. pos - 1
        BY <1>6, <1>8, <3>1, <4>2 DEF FreshInv, CreatesExecuted
      <4>3. pos \in Nat
        BY <1>1
      <4> QED
        BY <4>1, <4>2, <4>3
    <3>2. \A k \in 1 .. pos' - 1 : k \in 1 .. pos
      BY <1>1
    <3> QED
      BY <1>1, <3>1, <3>2 DEF CreatesExecuted
  <2> QED
    BY <1>1, <1>8, <2>1, <2>2 DEF FreshInv
<1> QED
  BY <1>1, <1>7, <1>8 DEF TidyInv

LEMMA TidyInvStop ==
  ASSUME TidyInv, pos' = 0,
         UNCHANGED <<relations, counters, script, schema, rows, building, built, restarts>>
  PROVE  TidyInv'
<1>1. KeptInv => KeptInv'
  BY DEF KeptInv, RelationsOfBuilt, SchemaOfBuilt, RowsCounted
<1>2. FreshInv => FreshInv'
  <2>1. 1 .. pos' - 1 = {} /\ ~ (pos' > 0)
    OBVIOUS
  <2>2. KeysFree' /\ CreatesExecuted'
    BY <2>1 DEF KeysFree, CreatesExecuted
  <2> QED
    BY <2>2 DEF FreshInv
<1> QED
  BY <1>1, <1>2 DEF TidyInv

LEMMA TidyInvNext == ScriptInv /\ DataInv /\ TypeInv /\ TidyInv /\ [Next]_vars => TidyInv'
<1> SUFFICES ASSUME ScriptInv, DataInv, TypeInv, TidyInv, [Next]_vars PROVE TidyInv'
  OBVIOUS
<1>1. ASSUME NEW d \in DOMAIN Documents, Build(d)
      PROVE  TidyInv'
  BY <1>1, TidyInvBuild
<1>2. CASE (\E d \in DOMAIN Documents : KilledWhileWriting(d)) \/ Restart
  BY <1>2 DEF TidyInv, KilledWhileWriting, Restart, LoseMemory
<1>3. CASE BuildWithoutScript
  <2>1. /\ building' = 0
        /\ UNCHANGED <<relations, counters, script, schema, rows, built, restarts>>
    BY <1>3 DEF BuildWithoutScript, Click, memory, database
  <2>2. KeptInv => KeptInv'
    BY <2>1 DEF KeptInv, RelationsOfBuilt, SchemaOfBuilt, RowsCounted
  <2> QED
    BY <2>1, <2>2 DEF TidyInv
<1>4. CASE OpenFails \/ Refuse \/ Succeed
  <2>1. /\ pos' = 0
        /\ UNCHANGED <<relations, counters, script, schema, rows, building, built, restarts>>
    BY <1>4 DEF OpenFails, Refuse, Succeed, memory, database, history
  <2> QED
    BY <2>1, TidyInvStop
<1>5. CASE Execute
  BY <1>5, TidyInvExecute
<1>6. CASE UNCHANGED vars
  BY <1>6 DEF vars, memory, database, history, TidyInv, KeptInv, FreshInv, RelationsOfBuilt,
              SchemaOfBuilt, RowsCounted, KeysFree, KeyTaken, CreatesExecuted
<1> QED
  BY <1>1, <1>2, <1>3, <1>4, <1>5, <1>6 DEF Next

LEMMA IdColumnSays ==
  ASSUME NEW X, NEW t \in Seq(X), Len(t) > 0
  PROVE  Len(IdColumn(t)) = Len(t) + 1 /\ IdColumn(t)[2] = t[1]
<1> DEFINE Y == X \union {"id"}
           s == <<"id">>
<1>1. s \in Seq(Y) /\ Len(s) = 1 /\ t \in Seq(Y)
  OBVIOUS
<1>2. IdColumn(t) = s \o t
  BY DEF IdColumn
<1> HIDE DEF s, Y
<1>3. Len(s \o t) = Len(s) + Len(t)
  BY <1>1, ConcatProperties
<1>4. (s \o t)[2] = t[1]
  <2>1. Len(t) \in Nat /\ 2 \in 1 .. Len(s) + Len(t) /\ ~ (2 <= Len(s)) /\ 2 - Len(s) = 1
    BY <1>1
  <2>2. \A i \in 1 .. Len(s) + Len(t) :
          (s \o t)[i] = IF i <= Len(s) THEN s[i] ELSE t[i - Len(s)]
    BY <1>1, ConcatProperties
  <2>3. (s \o t)[2] = t[2 - Len(s)]
    BY <2>1, <2>2
  <2> QED
    BY <2>1, <2>3
<1> QED
  BY <1>1, <1>2, <1>3, <1>4

\* A relation of two names has three columns.
LEMMA RelationColumnsDiffer ==
  ASSUME NEW a \in Names, NEW b \in Names, a # b, NEW p, p = <<a, b>>
  PROVE  NoRepetition(RelationColumns(p))
<1>1. PICK x, y, z : x = IdColumn(p) /\ y = IdColumn(<<a>>) /\ z = IdColumn(<<b>>)
  OBVIOUS
<1>2. Len(x) = 3 /\ Len(y) = 2 /\ Len(z) = 2 /\ y[2] = a /\ z[2] = b
  <2>1. PICK q, s, t : q = p /\ s = <<a>> /\ t = <<b>>
    OBVIOUS
  <2>2. /\ q \in Seq(Names) /\ Len(q) = 2 /\ Len(q) > 0
        /\ s \in Seq(Names) /\ Len(s) = 1 /\ Len(s) > 0 /\ s[1] = a
        /\ t \in Seq(Names) /\ Len(t) = 1 /\ Len(t) > 0 /\ t[1] = b
    BY <2>1
  <2>3. Len(IdColumn(q)) = Len(q) + 1
    BY <2>2, IdColumnSays
  <2>4. Len(IdColumn(s)) = Len(s) + 1 /\ IdColumn(s)[2] = s[1]
    BY <2>2, IdColumnSays
  <2>5. Len(IdColumn(t)) = Len(t) + 1 /\ IdColumn(t)[2] = t[1]
    BY <2>2, IdColumnSays
  <2> QED
    BY <1>1, <2>1, <2>2, <2>3, <2>4, <2>5
<1>3. x # y /\ x # z /\ y # z
  BY <1>2
<1>4. RelationColumns(p) = <<x, y, z>>
  BY <1>1 DEF RelationColumns
<1>5. DOMAIN <<x, y, z>> = 1 .. 3 /\ \A k \in 1 .. 3 : k = 1 \/ k = 2 \/ k = 3
  OBVIOUS
<1>6. <<x, y, z>>[1] = x /\ <<x, y, z>>[2] = y /\ <<x, y, z>>[3] = z
  OBVIOUS
<1> QED
  BY <1>3, <1>4, <1>5, <1>6 DEF NoRepetition

LEMMA NestedNames ==
  ASSUME NEW D \in SUBSET DOMAIN Documents, NEW p \in NestedPairs(D)
  PROVE  \E a, b \in Names : p = <<a, b>>
<1>1. Elements(D) \subseteq Elements(DOMAIN Documents)
  BY MoreDocuments
<1>2. PICK x \in Elements(D) \X Elements(D) : p = <<Name(x[1]), Name(x[2])>>
  BY DEF NestedPairs
<1>3. x[1] \in Elements(DOMAIN Documents) /\ x[2] \in Elements(DOMAIN Documents)
  BY <1>1
<1>4. Name(x[1]) \in Names /\ Name(x[2]) \in Names
  BY <1>3 DEF Names
<1> QED
  BY <1>2, <1>4

\* Tidy documents, no restart: what is to be executed next can be.
LEMMA NothingMissing ==
  ASSUME ScriptInv, TypeInv, KeptInv, FreshInv, TidyTogether(built), Running,
         NEW s, s = script[pos]
  PROVE  Cause(s) \in {"none", "syntax"}
<1>1. /\ pos \in 1 .. Len(script) /\ Len(script) \in Nat /\ s \in Statements
      /\ built \in SUBSET DOMAIN Documents
  <2>1. pos \in 1 .. Len(script) /\ script \in Seq(Statements)
    BY DEF Running, ScriptInv, WellFormed
  <2> QED
    BY <2>1 DEF TypeInv
<1>2. ASSUME IsRow(script, pos) \/ IsLink(script, pos)
      PROVE  s.table \in DOMAIN schema
  <2>1. PICK j \in 1 .. pos - 1 : script[j].do = "create" /\ script[j].table = s.table
    BY <1>1, <1>2 DEF FreshInv, AllPrepared
  <2> QED
    BY <2>1 DEF FreshInv, CreatesExecuted
<1>3. CASE s.do = "create"
  <2>1. Declares(s.table, s.cols, built)
    BY <1>1, <1>3 DEF KeptInv, CreatesDeclare
  <2>2. NoRepetition(s.cols)
    <3>1. CASE \E e \in Elements(built) : s.cols = TableColumns(e[1], e[2])
      BY <3>1, Zenon DEF TidyTogether
    <3>2. CASE s.table \in NestedPairs(built) /\ s.cols = RelationColumns(s.table)
      <4>1. PICK a \in Names, b \in Names : s.table = <<a, b>>
        BY <1>1, <3>2, NestedNames
      <4>2. <<b, a>> \notin NestedPairs(built)
        <5>1. \A p \in NestedPairs(built) : <<p[2], p[1]>> \notin NestedPairs(built)
          BY DEF TidyTogether
        <5> QED
          BY <3>2, <4>1, <5>1
      <4>3. a # b
        BY <3>2, <4>1, <4>2
      <4> QED
        BY <3>2, <4>1, <4>3, RelationColumnsDiffer
    <3> QED
      BY <2>1, <3>1, <3>2 DEF Declares
  <2> QED
    BY <1>3, <2>2 DEF Cause
<1>4. CASE s.do = "row"
  <2>1. IsRow(script, pos)
    BY <1>1, <1>4 DEF IsRow
  <2>2. s.table \in DOMAIN schema
    BY <1>2, <2>1
  <2>3. PICK i \in Indices(Documents[building]) :
          /\ Visited(Documents[building], i)
          /\ s.table = <<Documents[building][i].name>>
          /\ s.cols = RowColumns(Documents[building], i)
    BY <1>1, <2>1 DEF FreshInv, RowsOfDocument
  <2>4. PICK doc, x : doc = Documents[building] /\ x = <<doc, i>>
    OBVIOUS
  <2>5. /\ x[1] = doc /\ x[2] = i /\ x \in Elements(built) /\ Name(x) = doc[i].name
        /\ HasTable(x) <=> IsForeignKey(doc, i)
    <3>1. building \in built /\ i \in 1 .. Len(doc)
      BY <2>4 DEF FreshInv, Indices
    <3>2. PICK D, d : D = built /\ d = building
      OBVIOUS
    <3>3. /\ D \in SUBSET DOMAIN Documents /\ d \in D /\ doc = Documents[d]
          /\ i \in 1 .. Len(doc)
      BY <1>1, <2>4, <3>1, <3>2
    <3>4. /\ <<doc, i>> \in Elements(D) /\ Name(<<doc, i>>) = doc[i].name
          /\ HasTable(<<doc, i>>) <=> IsForeignKey(doc, i)
      BY <3>3, ElementIn
    <3> QED
      BY <2>4, <3>2, <3>4
  <2>6. HasTable(x)
    <3>1. doc[i].up = 0 => HasTable(x)
      BY <2>5, Zenon DEF TidyTogether
    <3> QED
      BY <2>3, <2>4, <2>5, <3>1 DEF Visited
  <2>7. PICK e \in Elements(built) : /\ HasTable(e) /\ s.table = <<Name(e)>>
                                     /\ schema[s.table] = ToSet(TableColumns(e[1], e[2]))
    <3>1. s.table \notin NestedPairs(built)
      <4>1. ASSUME NEW a, NEW b, s.table = <<a, b>>
            PROVE  FALSE
        <5>1. Len(s.table) = 2
          BY <4>1
        <5>2. Len(s.table) = 1
          BY <2>3
        <5> QED
          BY <5>1, <5>2
      <4> QED
        BY <1>1, <4>1, NestedNames
    <3> QED
      BY <2>2, <3>1 DEF KeptInv, SchemaOfBuilt
  <2>8. Name(x) = Name(e)
    BY <2>3, <2>4, <2>5, <2>7
  <2>9. ToSet(RowColumns(x[1], x[2])) = ToSet(TableColumns(e[1], e[2]))
    BY <2>5, <2>6, <2>7, <2>8, Zenon DEF TidyTogether
  <2>10. ToSet(s.cols) \subseteq schema[s.table]
    BY <2>3, <2>4, <2>5, <2>7, <2>9
  <2>11. ~ KeyTaken(s)
    <3>1. pos > 0 /\ pos \in pos .. Len(script)
      BY <1>1
    <3> QED
      BY <2>1, <3>1 DEF FreshInv, KeysFree
  <2> QED
    BY <1>4, <2>2, <2>10, <2>11 DEF Cause
<1>5. CASE s.do = "link"
  <2>1. s.table \in DOMAIN schema
    BY <1>1, <1>2, <1>5 DEF IsLink
  <2> QED
    BY <1>5, <2>1 DEF Cause
<1>6. CASE s.do \notin {"create", "row", "link"}
  BY <1>6 DEF Cause
<1> QED
  BY <1>3, <1>4, <1>5, <1>6

LEMMA TidyDocumentsNext ==
  ScriptInv /\ TypeInv /\ TidyInv /\ TidyDocumentsBuild /\ [Next]_vars => TidyDocumentsBuild'
<1> SUFFICES ASSUME ScriptInv, TypeInv, TidyInv, TidyDocumentsBuild, [Next]_vars,
                    result' \in {"table", "column", "key"}, building' # 0, ~ restarts',
                    TidyTogether(built')
             PROVE  FALSE
  BY Zenon DEF TidyDocumentsBuild
<1>1. ~ UNCHANGED <<result, building, built, restarts>>
  BY DEF TidyDocumentsBuild
<1>2. CASE Refuse
  <2>1. /\ Running /\ UNCHANGED <<building, built, restarts>>
        /\ result' \in Failures(script[pos])
    BY <1>2 DEF Refuse, history
  <2>2. KeptInv /\ FreshInv /\ TidyTogether(built)
    BY <2>1 DEF TidyInv
  <2>3. Cause(script[pos]) \in {"none", "syntax"}
    BY <2>1, <2>2, NothingMissing
  <2>4. result' \in {"syntax", "disk"}
    BY <2>1, <2>3 DEF Failures
  <2> QED
    BY <2>4
<1>3. ~ Execute /\ ~ UNCHANGED vars
  BY <1>1 DEF Execute, vars, history
<1>4. ~ OpenFails /\ ~ Succeed
  BY DEF OpenFails, Succeed
<1>5. ~ Restart /\ ~ BuildWithoutScript
  BY DEF Restart, LoseMemory, BuildWithoutScript
<1>6. \A d \in DOMAIN Documents : ~ Build(d) /\ ~ KilledWhileWriting(d)
  BY DEF Build, KilledWhileWriting, Click, LoseMemory
<1> QED
  BY <1>2, <1>3, <1>4, <1>5, <1>6 DEF Next

\* For any documents and clicks: while only tidy documents have been built and the
\* program has not restarted, no statement of a script written for a document is
\* refused for a missing table or column, nor for an identifier that is taken.
THEOREM TidyDocumentsBuildHolds == Spec => []TidyDocumentsBuild
<1>1. Init => TypeInv /\ TidyInv /\ TidyDocumentsBuild
  BY TypeInvInit, TidyInvInit DEF Init, TidyDocumentsBuild
<1>2. ScriptInv /\ DataInv /\ TypeInv /\ TidyInv /\ TidyDocumentsBuild /\ [Next]_vars
        => (TypeInv /\ TidyInv /\ TidyDocumentsBuild)'
  BY TypeInvNext, TidyInvNext, TidyDocumentsNext
<1> QED
  BY <1>1, <1>2, InvHolds, PTL DEF Spec

===============================================================================
