----------------------------- MODULE XmlBuilder -----------------------------
(***************************************************************************)
(* The database builder (src/src/xmlbuilder.c).                            *)
(*                                                                         *)
(* One click reads an XML document, writes a script to output.sql and has  *)
(* SQLite execute that file on my_database.db, statement by statement up   *)
(* to the first that fails.  The relations and the identifiers given out   *)
(* are kept in memory from one click to the next; script and database stay *)
(* when the process ends.  When no script can be written, the one that is  *)
(* on the disk is executed all the same; when it can be written in part    *)
(* only, that part is, for no result of fprintf or fclose is looked at.    *)
(*                                                                         *)
(* A document is the sequence of its elements in document order, without   *)
(* the root: "up" is the position of the parent, 0 under the root.  Table  *)
(* and column names are tuples of the parts that the code joins by "_".    *)
(* Values are not followed: a row knows the element it was made from.      *)
(***************************************************************************)
EXTENDS Integers, Sequences, SequencesExt

CONSTANTS
  Documents,  \* the documents the user may build, a sequence
  MaxClicks,  \* bound on the clicks on "Confirmer"
  Faults      \* what may go wrong: "read", "open", "stack", "disk", "kill"

Indices(doc) == 1 .. Len(doc)

ASSUME XmlAssumption ==
  /\ MaxClicks \in Nat
  /\ Faults \subseteq {"read", "open", "stack", "disk", "kill"}
  /\ Documents \in Seq(Seq([name : STRING, up : Nat, props : Seq(STRING)]))
  /\ \A d \in DOMAIN Documents : \A i \in Indices(Documents[d]) :
       Documents[d][i].up \in 0 .. i - 1

VARIABLES
  relations,  \* relation_attributes: the pairs of tables recorded, in order
  counters,   \* id_counters: the tables that have one, and the last identifier
  script,     \* output.sql, a sequence of statements
  schema,     \* my_database.db: the columns of each table
  rows,       \* the rows of elements: [table, id, of]
  links,      \* the rows of nestings: [table, key, ids]
  pos,        \* the statement to execute next; 0 when no handler runs
  clicks,     \* clicks so far
  result,     \* the last box: "none", "success", or the cause of the failure
  building,   \* history: the document whose script this click has written, or 0
  whole,      \* history: it was written to the end
  built,      \* history: the documents a script was written for
  restarts    \* history: the process has been restarted

memory == <<relations, counters>>
database == <<schema, rows, links>>
history == <<building, whole, built, restarts>>
vars == <<memory, script, database, pos, clicks, result, history>>

\* f with the value v at k.
Put(f, k, v) == [x \in DOMAIN f \union {k} |-> IF x = k THEN v ELSE f[x]]

----------------------------------------------------------------------------
(* What the code sees of a document                                        *)

\* The element children of i, in document order.
Children(doc, i) == SelectSeq([k \in Indices(doc) |-> k], LAMBDA k : doc[k].up = i)

\* isForeignKey and hasChildElements: i has an element child.
IsForeignKey(doc, i) == \E k \in Indices(doc) : doc[k].up = i

Leaves(doc, i) == SelectSeq(Children(doc, i), LAMBDA k : ~ IsForeignKey(doc, k))
ForeignKeys(doc, i) == SelectSeq(Children(doc, i), LAMBDA k : IsForeignKey(doc, k))

IdColumn(table) == <<"id">> \o table
OwnColumns(doc, i) ==
  <<IdColumn(<<doc[i].name>>)>> \o [a \in DOMAIN doc[i].props |-> <<doc[i].props[a]>>]

\* A leaf gives one column for each attribute or, without any, one of its name.
LeafColumns(leaf) ==
  IF leaf.props # <<>>
  THEN [a \in DOMAIN leaf.props |-> <<leaf.name, leaf.props[a]>>]
  ELSE <<<<leaf.name>>>>

\* The columns createTable declares: a leaf without attributes counts once per
\* name among its siblings, one with attributes every time.
TableColumns(doc, i) ==
  LET Repeated(k) ==
        /\ doc[k].props = <<>>
        /\ \E b \in ToSet(Children(doc, i)) : b < k /\ doc[b].name = doc[k].name
      Add(cols, k) == IF Repeated(k) THEN cols ELSE cols \o LeafColumns(doc[k])
  IN  FoldLeft(Add, OwnColumns(doc, i), Leaves(doc, i))

\* The columns insertData names.
RowColumns(doc, i) ==
  LET Add(cols, k) == cols \o LeafColumns(doc[k])
  IN  FoldLeft(Add, OwnColumns(doc, i), Leaves(doc, i))

----------------------------------------------------------------------------
(* generateSql                                                             *)

Create(table, cols, garbled) ==
  [do |-> "create", table |-> table, cols |-> cols, garbled |-> garbled]
Insert(table, cols, id, of) ==
  [do |-> "row", table |-> table, cols |-> cols, id |-> id, of |-> of]
Link(table, ids) == [do |-> "link", table |-> table, ids |-> ids]
CutOff == [do |-> "cut", table |-> <<>>]
NoFile == <<[do |-> "no file", table |-> <<>>]>>

\* addRelation: a pair is recorded once, whatever the order of its tables.
AddRelation(rels, t1, t2) ==
  IF {<<t1, t2>>, <<t2, t1>>} \intersect ToSet(rels) # {}
  THEN rels
  ELSE Append(rels, <<t1, t2>>)

\* The relations of i with its children that have children themselves.
AddRelations(rels, doc, i) ==
  LET add[k \in 0 .. Len(doc)] ==
        IF k = 0 THEN rels
        ELSE IF doc[k].up = i /\ IsForeignKey(doc, k)
        THEN AddRelation(add[k - 1], doc[i].name, doc[k].name)
        ELSE add[k - 1]
  IN  add[Len(doc)]

\* The first pass, over the elements in document order.  createTable returns at
\* once for a leaf and for a name that has its table, and then does not go into
\* the children; "entered" are the elements whose children it visits.  Relations
\* of the children of the root are recorded in any case (lines 341 to 345).
\* "stack": the array foreign_keys is printed and never written (line 221).
TableVisit(doc, garbled, acc, i) ==
  LET makes == /\ doc[i].up \in acc.entered
               /\ IsForeignKey(doc, i)
               /\ doc[i].name \notin acc.tables
  IN  [entered |-> IF makes THEN acc.entered \union {i} ELSE acc.entered,
       tables |-> IF makes THEN acc.tables \union {doc[i].name} ELSE acc.tables,
       out |-> IF makes
               THEN Append(acc.out, Create(<<doc[i].name>>, TableColumns(doc, i),
                                           garbled /\ ForeignKeys(doc, i) # <<>>))
               ELSE acc.out,
       rels |-> IF makes \/ doc[i].up = 0
                THEN AddRelations(acc.rels, doc, i)
                ELSE acc.rels]

TableStart == [entered |-> {0}, tables |-> {}, out |-> <<>>, rels |-> relations]

TablePass(doc, garbled) ==
  LET pass[i \in 0 .. Len(doc)] ==
        IF i = 0 THEN TableStart ELSE TableVisit(doc, garbled, pass[i - 1], i)
  IN  pass[Len(doc)]

\* Seeded fault: the loop over the relations begins at the second.
RelationPassFromSecond(rels) ==
  [k \in 1 .. Len(rels) - 1 |->
     Create(rels[k + 1], <<IdColumn(rels[k + 1]), IdColumn(<<rels[k + 1][1]>>), IdColumn(<<rels[k + 1][2]>>)>>, FALSE)]

\* The tables of all relations recorded so far, of earlier documents too.
RelationPass(rels) ==
  [k \in DOMAIN rels |->
     Create(rels[k], <<IdColumn(rels[k]), IdColumn(<<rels[k][1]>>), IdColumn(<<rels[k][2]>>)>>, FALSE)]

CountersBefore == counters

\* Seeded fault: the identifier given out is the one before the increment.
NewIdBefore(last) == last

NewId(last) == last + 1

LastId(count, name) == IF name \in DOMAIN count THEN count[name] ELSE 0

\* Seeded fault: the row is linked to the first row of the parent's table.
ParentIdFirst(acc, doc, i) == 1

\* The identifier that insertData hands to the children of an element.
ParentId(acc, doc, i) == acc.id[doc[i].up]

\* Seeded fault: the elements under another one are not visited.
VisitedFirstLevel(doc, i) == doc[i].up = 0

\* insertData visits the children of the root and every element with children.
Visited(doc, i) == doc[i].up = 0 \/ IsForeignKey(doc, i)

\* The second pass: getNewId, the row and, under a parent, its link.
InsertVisit(d, click, acc, i) ==
  LET doc == Documents[d]
      name == doc[i].name
      new == NewId(LastId(acc.count, name))
      row == Insert(<<name>>, RowColumns(doc, i), new, [doc |-> d, click |-> click, node |-> i])
      parent == doc[doc[i].up].name
      link == Link(<<parent, name>>, <<ParentId(acc, doc, i), new>>)
  IN  IF ~ Visited(doc, i) THEN acc
      ELSE [count |-> Put(acc.count, name, new),
            id |-> Put(acc.id, i, new),
            out |-> acc.out \o IF doc[i].up = 0 THEN <<row>> ELSE <<row, link>>]

InsertStart == [count |-> CountersBefore, id |-> <<>>, out |-> <<>>]

InsertPass(d, click) ==
  LET pass[i \in 0 .. Len(Documents[d])] ==
        IF i = 0 THEN InsertStart ELSE InsertVisit(d, click, pass[i - 1], i)
  IN  pass[Len(Documents[d])]

----------------------------------------------------------------------------
(* xmlbuilder_confirm                                                      *)

Init ==
  /\ relations = <<>>
  /\ counters = <<>>
  /\ script = NoFile
  /\ schema = <<>>
  /\ rows = {}
  /\ links = {}
  /\ pos = 0
  /\ clicks = 0
  /\ result = "none"
  /\ building = 0
  /\ whole = FALSE
  /\ built = {}
  /\ restarts = FALSE

Click ==
  /\ pos = 0
  /\ clicks < MaxClicks
  /\ clicks' = clicks + 1
  /\ result' = "none"
  /\ UNCHANGED database

\* What a file holds when s was not written to the end: some statements, and the
\* next perhaps cut off.
Beginnings(s) ==
  UNION {{SubSeq(s, 1, n), Append(SubSeq(s, 1, n), CutOff)} : n \in 0 .. Len(s) - 1}

\* parseXml and generateSql: the file is read and its script written, all of it
\* unless the disk is full.  A full disk stays so until the file is closed.
Build(d) ==
  /\ Click
  /\ \E garbled \in {FALSE} \union {"stack" \in Faults} :
       LET first == TablePass(Documents[d], garbled)
           second == InsertPass(d, clicks + 1)
           all == first.out \o RelationPass(first.rels) \o second.out
       IN  /\ relations' = first.rels
           /\ counters' = second.count
           /\ \/ whole' = TRUE /\ script' = all
              \/ whole' = FALSE /\ "disk" \in Faults /\ script' \in Beginnings(all)
  /\ pos' = 1
  /\ building' = d
  /\ built' = built \union {d}
  /\ UNCHANGED restarts

\* The file cannot be read, has no root, or output.sql cannot be opened: a box,
\* and the script on the disk is executed.
BuildWithoutScript ==
  /\ "read" \in Faults
  /\ Click
  /\ pos' = 1
  /\ building' = 0
  /\ whole' = FALSE
  /\ UNCHANGED <<memory, script, built, restarts>>

\* executeSqlFile cannot open the database or the script, or has no memory.
OpenFails ==
  /\ pos = 1
  /\ "open" \in Faults \/ script = NoFile
  /\ pos' = 0
  /\ result' = "open"
  /\ UNCHANGED <<memory, script, database, clicks, history>>

----------------------------------------------------------------------------
(* executeSqlFile: sqlite3_exec                                            *)

NoRepetition(cols) == \A a, b \in DOMAIN cols : cols[a] = cols[b] => a = b

\* Seeded fault: the identifier is not declared as the key of its table.
NoKey(s) == FALSE

\* The identifier, the table's key, is taken.
KeyTaken(s) == \E r \in rows : r.table = s.table /\ r.id = s.id

\* Why SQLite refuses statement s, or "none".  CREATE TABLE IF NOT EXISTS leaves
\* a table that exists as it is; the references between tables are not enforced.
Cause(s) ==
  CASE s.do = "create" -> IF s.table \notin DOMAIN schema /\ ~ NoRepetition(s.cols)
                          THEN "column" ELSE "none"
    [] s.do = "row" -> IF s.table \notin DOMAIN schema THEN "table"
                       ELSE IF ~ (ToSet(s.cols) \subseteq schema[s.table]) THEN "column"
                       ELSE IF KeyTaken(s) THEN "key"
                       ELSE "none"
    [] s.do = "link" -> IF s.table \in DOMAIN schema THEN "none" ELSE "table"
    [] OTHER -> "syntax"

\* A text from the stack may or may not leave the statement readable.
Garbled(s) == s.do = "create" /\ s.garbled

Running == pos \in 1 .. Len(script) /\ script # NoFile

\* The statement is executed and, by SQLite's own commit, stays.
Execute ==
  LET s == script[pos]
  IN
    /\ Running
    /\ Cause(s) = "none"
    /\ schema' = IF s.do = "create" /\ s.table \notin DOMAIN schema
                 THEN Put(schema, s.table, ToSet(s.cols)) ELSE schema
    /\ rows' = IF s.do = "row"
               THEN rows \union {[table |-> s.table, id |-> s.id, of |-> s.of]} ELSE rows
    /\ links' = IF s.do = "link"
                THEN links \union {[table |-> s.table, ids |-> s.ids,
                       key |-> Cardinality({l \in links : l.table = s.table}) + 1]}
                ELSE links
    /\ pos' = pos + 1
    /\ UNCHANGED <<memory, script, clicks, result, history>>

\* Why statement s may fail: what SQLite says of it or, when it is right, a text
\* from the stack or a full disk.
Failures(s) ==
  IF Cause(s) # "none" THEN {Cause(s)}
  ELSE {f \in {"syntax", "disk"} : \/ f = "syntax" /\ Garbled(s)
                                   \/ f = "disk" /\ "disk" \in Faults}

\* Seeded fault: after a statement that fails the next is executed.
RefuseAndGoOn ==
  /\ Running
  /\ result' \in Failures(script[pos])
  /\ pos' = pos + 1
  /\ UNCHANGED <<memory, script, database, clicks, history>>

\* It fails: a box, and the rest of the script is not executed.
Refuse ==
  /\ Running
  /\ result' \in Failures(script[pos])
  /\ pos' = 0
  /\ UNCHANGED <<memory, script, database, clicks, history>>

Succeed ==
  /\ pos > Len(script)
  /\ result' = "success"
  /\ pos' = 0
  /\ UNCHANGED <<memory, script, database, clicks, history>>

----------------------------------------------------------------------------
(* The end of the process, and another start                               *)

\* The memory is lost; database and script stay.
LoseMemory ==
  /\ relations' = <<>>
  /\ counters' = <<>>
  /\ pos' = 0
  /\ building' = 0
  /\ whole' = FALSE
  /\ restarts' = TRUE
  /\ UNCHANGED <<database, built>>

Restart ==
  /\ pos = 0 \/ "kill" \in Faults
  /\ LoseMemory
  /\ result' = "none"
  /\ UNCHANGED <<script, clicks>>

\* The process is killed inside generateSql, before all is written.
KilledWhileWriting(d) ==
  /\ "kill" \in Faults
  /\ Click
  /\ LoseMemory
  /\ LET first == TablePass(Documents[d], FALSE)
     IN  script' \in
           Beginnings(first.out \o RelationPass(first.rels) \o InsertPass(d, clicks + 1).out)

Next ==
  \/ \E d \in DOMAIN Documents : Build(d) \/ KilledWhileWriting(d)
  \/ BuildWithoutScript
  \/ OpenFails
  \/ Execute
  \/ Refuse
  \/ Succeed
  \/ Restart

Spec == Init /\ [][Next]_vars

----------------------------------------------------------------------------
(* Properties                                                              *)

Elements(D) == UNION {{<<Documents[d], i>> : i \in Indices(Documents[d])} : d \in D}
Name(e) == e[1][e[2]].name
HasTable(e) == IsForeignKey(e[1], e[2])
IsParent(p, c) ==
  p.doc = c.doc /\ p.click = c.click /\ Documents[c.doc][c.node].up = p.node

NodeIds == [doc : DOMAIN Documents, click : 1 .. MaxClicks,
            node : UNION {Indices(Documents[d]) : d \in DOMAIN Documents}]
Names == {Name(e) : e \in Elements(DOMAIN Documents)}
Tables == {<<n>> : n \in Names} \union (Names \X Names)
Identifiers == 1 .. MaxClicks * Cardinality(Elements(DOMAIN Documents))

TypeOK ==
  /\ relations \in Seq(Names \X Names)
  /\ DOMAIN counters \subseteq Names
  /\ \A n \in DOMAIN counters : counters[n] \in Identifiers
  /\ \A s \in ToSet(script) : s.do \in {"cut", "no file"} \/ s.table \in Tables
  /\ DOMAIN schema \subseteq Tables
  /\ rows \subseteq [table : Tables, id : Identifiers, of : NodeIds]
  /\ \A l \in links : l.table \in Tables /\ l.ids \in Identifiers \X Identifiers
  /\ pos \in 0 .. Len(script) + 1
  /\ clicks \in 0 .. MaxClicks
  /\ result \in {"none", "success", "open", "table", "column", "key", "syntax", "disk"}
  /\ building \in {0} \union DOMAIN Documents
  /\ whole \in BOOLEAN
  /\ built \subseteq DOMAIN Documents
  /\ restarts \in BOOLEAN

\* The two rows that a link names.
Joined(l) ==
  LET End(k) == {r \in rows : r.table = <<l.table[k]>> /\ r.id = l.ids[k]}
  IN  End(1) \X End(2)

\* SQLite does not enforce the references, and a relation's table has no key that
\* would refuse a second row; yet every link joins exactly one row to one other,
\* those of an element and its parent in one document, and no two links join the
\* same.  This survives restarts, which number from 1 again, and scripts that
\* are executed twice, or up to a failing statement only.
LinksResolve ==
  /\ \A l \in links :
       /\ Cardinality(Joined(l)) = 1
       /\ \A j \in Joined(l) : IsParent(j[1].of, j[2].of)
  /\ \A l, m \in links : l.table = m.table /\ l.ids = m.ids => l = m

\* The database as a store of trees.
Store ==
  INSTANCE TreeStore WITH
    Nodes <- NodeIds,
    nodes <- {r.of : r \in rows},
    nestings <- UNION {{<<j[1].of, j[2].of>> : j \in Joined(l)} : l \in links}

\* Whatever fails, and however often a script is executed, an element is stored
\* once and its nesting recorded once, after both ends are stored.
ImplementsTreeStore == Store!StoreSpec

\* The elements that are to be stored: children of the root, and what has children.
ToStore(doc) == {i \in Indices(doc) : doc[i].up = 0 \/ \E k \in Indices(doc) : doc[k].up = i}

\* An element has its row, in a table with all its columns, and its link.  The
\* values in the columns are another matter: for leaves of one name side by side
\* a row names one column several times, and SQLite keeps one of the values.
IsStored(node) ==
  LET doc == Documents[node.doc]
      up == doc[node.node].up
  IN  /\ \E r \in rows :
           /\ r.of = node
           /\ r.table \in DOMAIN schema
           /\ ToSet(RowColumns(doc, node.node)) \subseteq schema[r.table]
      /\ up # 0 =>
           \E l \in links : \E j \in Joined(l) :
             j[1].of = [node EXCEPT !.node = up] /\ j[2].of = node

\* What is stored of a document is a beginning of it: with a row, all elements
\* before it are stored.  Neither a script that was cut off, by a kill or a full
\* disk, nor one that fails half way and is executed again later, over a restart
\* too, leaves a gap.
StoredInOrder ==
  \A r \in rows : \A i \in ToStore(Documents[r.of.doc]) :
    i < r.of.node => IsStored([r.of EXCEPT !.node = i])

DocumentStored ==
  \A i \in ToStore(Documents[building]) :
    IsStored([doc |-> building, click |-> clicks, node |-> i])

\* "Execution du fichier SQL avec succés" after a click that has written its
\* script to the end: all elements of the document are stored.
WholeScriptIsStored == result = "success" /\ building # 0 /\ whole => DocumentStored

\* The names of elements with a table that stand one below the other.
NestedPairs(D) ==
  {<<Name(x[1]), Name(x[2])>> : x \in
     {y \in Elements(D) \X Elements(D) :
        y[1][1] = y[2][1] /\ HasTable(y[2]) /\ y[2][1][y[2][2]].up = y[1][2]}}

\* The names of the elements with a table below e.
Below(e) == {e[1][k].name : k \in {c \in Indices(e[1]) : e[1][c].up = e[2] /\ HasTable(<<e[1], c>>)}}

\* Documents whose elements of one name have one shape, with no column twice, no
\* leaf under the root, and no two names nested both ways.
TidyTogether(D) ==
  /\ \A e \in Elements(D) :
       /\ e[1][e[2]].up = 0 => HasTable(e)
       /\ NoRepetition(TableColumns(e[1], e[2]))
  /\ \A e, f \in {g \in Elements(D) : HasTable(g)} : Name(e) = Name(f) =>
       /\ ToSet(RowColumns(e[1], e[2])) = ToSet(TableColumns(f[1], f[2]))
       /\ Below(e) = Below(f)
  /\ \A p \in NestedPairs(D) : <<p[2], p[1]>> \notin NestedPairs(D)

\* While only tidy documents have been built and the program has not restarted,
\* the script written for a document is never refused for a missing table or
\* column, nor for an identifier: tables, relations and rows fit together.
TidyDocumentsBuild ==
  result \in {"table", "column", "key"}
    => building = 0 \/ restarts \/ ~ TidyTogether(built)

----------------------------------------------------------------------------
(* What the documentation says and the code does not do                    *)

\* README: the program reads a file, makes the script and executes it, and the box
\* says "Execution du fichier SQL avec succés".  So after this box the document
\* of the click is stored.
SuccessMeansStored == result = "success" /\ building # 0 => DocumentStored

Prepared(k) == \E j \in 1 .. k - 1 : script[j].do = "create" /\ script[j].table = script[k].table

\* README: the script creates the tables.  So no row goes to a table that the
\* script has not created before.
RowsHaveTables == \A k \in DOMAIN script : script[k].do = "row" => Prepared(k)

\* README: the script creates the relations.  So no link goes to a table that
\* the script has not created before.
LinksHaveTables == \A k \in DOMAIN script : script[k].do = "link" => Prepared(k)

\* README: the script made from the XML file is the one that is then executed.
\* So statements are executed only after a click that has written its script.
ScriptIsOfDocument == [][pos # 0 /\ pos' = pos + 1 => building # 0]_vars

=============================================================================
