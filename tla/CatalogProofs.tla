---------------------------- MODULE CatalogProofs ----------------------------
(***************************************************************************)
(* Proofs about the catalog: tables, files, open tables and indexes agree  *)
(* in every reachable state, for any tables, rows and kinds of index, any  *)
(* length of the log and any number of rollbacks and starts.  The          *)
(* theorems are about the program without the cases that the module names  *)
(* in Case, in each of which it goes wrong: Admitted = {}.                 *)
(***************************************************************************)
EXTENDS Catalog, DataLemmas

-----------------------------------------------------------------------------
(* The inductive invariant.                                                *)

\* What the managers keep, when nothing raised.
StateSet ==
  [tabs : SUBSET Table, idxs : SUBSET Index, dat : [Table -> (SUBSET Tuple) \cup {NoFile}],
   idx : [Index -> [Tuple -> Nat] \cup {NoFile}], open : SUBSET Table,
   att : [Table -> SUBSET [index : Index, alive : BOOLEAN]], dict : SUBSET Index, ok : {TRUE}]

\* The objects of the indexes of a table, all of them open.
Objects(is, t) == {[index |-> i, alive |-> TRUE] : i \in Of(t, is)}

\* An index of the catalog is open exactly when its table is, so that open_table finds
\* those that the table lacks; and its file has the rows of the table, open or not.
Sound(s) ==
  /\ s \in StateSet
  /\ s.open \subseteq s.tabs
  /\ \A t \in Table : s.dat[t] # NoFile <=> t \in s.tabs
  /\ \A i \in s.idxs : /\ i.table \in s.tabs
                       /\ s.idx[i] = Once(s.dat[i.table])
                       /\ i \in s.dict <=> i.table \in s.open
  /\ \A t \in Table : s.att[t] = IF t \in s.open THEN Objects(s.idxs, t) ELSE {}

LogRecord == [op : {"ddl_create_table"}, table : Table, what : Table]
               \cup [op : {"table_insert"}, table : Table, what : Tuple]

\* The first n records of a log can be redone and undone in this state: the tables are
\* there and have the rows, a table has no record before it was created, and a row is
\* inserted once.
LogOK(s, lg, n) ==
  /\ \A i \in 1..n : lg[i].table \in s.tabs
  /\ \A i \in 1..n : lg[i].op = "table_insert" => lg[i].what \in s.dat[lg[i].table]
  /\ \A j \in 1..n : \A i \in 1..(j - 1) :
       lg[i].table = lg[j].table => /\ lg[j].op = "table_insert"
                                    /\ lg[i].op = "table_insert" => lg[i].what # lg[j].what

\* The tables that the records from c up to n create.
NewTables(lg, c, n) == {lg[i].table : i \in {j \in c..n : c # 0 /\ lg[j].op = "ddl_create_table"}}

IInv ==
  /\ Sound(State) /\ raised = FALSE
  /\ log \in Seq(LogRecord) /\ LogOK(State, log, Len(log))
  /\ current \in 0..(Len(log) + 1)
  /\ promised \cap NewTables(log, current, Len(log)) = {}
  /\ sys_tables = promised \cup NewTables(log, current, Len(log))

-----------------------------------------------------------------------------
(* States and their fields.                                                *)

\* A state is the record of its fields.
LEMMA StateIs ==
  ASSUME NEW s \in StateSet
  PROVE  /\ s = [tabs |-> s.tabs, idxs |-> s.idxs, dat |-> s.dat, idx |-> s.idx, open |-> s.open,
                 att |-> s.att, dict |-> s.dict, ok |-> s.ok]
         /\ s.tabs \subseteq Table /\ s.idxs \subseteq Index /\ s.open \subseteq Table /\ s.dict \subseteq Index
         /\ s.dat \in [Table -> (SUBSET Tuple) \cup {NoFile}] /\ s.idx \in [Index -> [Tuple -> Nat] \cup {NoFile}]
         /\ s.att \in [Table -> SUBSET [index : Index, alive : BOOLEAN]] /\ s.ok = TRUE
  BY DEF StateSet

\* An index is a table and a kind.
LEMMA IndexIs ==
  ASSUME NEW i \in Index
  PROVE  i.table \in Table /\ i.kind \in Kind /\ i = [table |-> i.table, kind |-> i.kind]
  BY DEF Index

\* The file of a table has a number for each row, and adding or taking a row keeps it so.
LEMMA OnceIs ==
  ASSUME NEW rows \in SUBSET Tuple, NEW r \in Tuple
  PROVE  /\ Once(rows) \in [Tuple -> Nat]
         /\ r \notin rows => Plus(Once(rows), {r}) = Once(rows \cup {r})
         /\ r \in rows => Less(Once(rows), {r}) = Once(rows \ {r})
  BY DEF Once, Plus, Less

\* The objects of a table are those of its indexes.
LEMMA ObjectsAre ==
  ASSUME NEW is \in SUBSET Index, NEW t \in Table
  PROVE  /\ Objects(is, t) \subseteq [index : Index, alive : BOOLEAN]
         /\ \A o \in Objects(is, t) : o.alive = TRUE /\ o.index \in Of(t, is)
         /\ \A i \in Index : (\E o \in Objects(is, t) : o.index = i) <=> i \in Of(t, is)
         /\ {o.index : o \in Objects(is, t)} = Of(t, is)
<1>1. Of(t, is) \subseteq Index
  BY DEF Of
<1>2. ASSUME NEW o \in Objects(is, t)
      PROVE  o \in [index : Index, alive : BOOLEAN] /\ o.alive = TRUE /\ o.index \in Of(t, is)
  <2>1. PICK i \in Of(t, is) : o = [index |-> i, alive |-> TRUE]
    BY DEF Objects
  <2> QED BY <1>1, <2>1
<1>3. ASSUME NEW i \in Of(t, is) PROVE \E o \in Objects(is, t) : o.index = i
  <2>1. [index |-> i, alive |-> TRUE] \in Objects(is, t)
    BY DEF Objects
  <2> QED BY <2>1
<1> QED BY <1>2, <1>3

\* A record of the log.
LEMMA RecordIs ==
  ASSUME NEW r \in LogRecord
  PROVE  /\ r.op \in {"ddl_create_table", "table_insert"} /\ r.table \in Table
         /\ r.op = "table_insert" => r.what \in Tuple
  BY DEF LogRecord

\* Fields of two states of the same tables, files, indexes and objects.
LEMMA SoundFields ==
  ASSUME NEW s, Sound(s), NEW t \in Table
  PROVE  /\ t \in s.tabs <=> s.dat[t] \in SUBSET Tuple
         /\ t \in s.tabs <=> s.dat[t] # NoFile
         /\ t \notin s.tabs => Of(t, s.idxs) = {} /\ t \notin s.open
<1>1. s.dat[t] \in (SUBSET Tuple) \cup {NoFile}
  BY StateIs DEF Sound
<1>2. t \notin s.tabs => Of(t, s.idxs) = {} /\ t \notin s.open
  BY DEF Sound, Of
<1> QED BY <1>1, <1>2, NoFileAssumption DEF Sound

-----------------------------------------------------------------------------
(* The operations of the managers.                                         *)

\* open_table: the table is open, with its indexes, and nothing else changes but the
\* indexes that are built anew, whose file has the rows of the table as before.
LEMMA OpenedIs ==
  ASSUME NEW s, Sound(s), NEW t \in s.tabs, NEW q, q = Opened(s, t)
  PROVE  /\ Sound(q) /\ q.open = s.open \cup {t}
         /\ q.tabs = s.tabs /\ q.idxs = s.idxs /\ q.dat = s.dat
         /\ \A i \in Index : i \notin s.idxs => q.idx[i] = s.idx[i]
<1>1. CASE t \in s.open
  BY <1>1 DEF Opened
<1>2. CASE t \notin s.open
  <2> DEFINE found == Of(t, s.idxs) \ s.dict
  <2>1. /\ s = [tabs |-> s.tabs, idxs |-> s.idxs, dat |-> s.dat, idx |-> s.idx, open |-> s.open,
                att |-> s.att, dict |-> s.dict, ok |-> s.ok]
        /\ s.tabs \subseteq Table /\ s.idxs \subseteq Index /\ s.open \subseteq Table /\ s.dict \subseteq Index
        /\ s.dat \in [Table -> (SUBSET Tuple) \cup {NoFile}] /\ s.idx \in [Index -> [Tuple -> Nat] \cup {NoFile}]
        /\ s.att \in [Table -> SUBSET [index : Index, alive : BOOLEAN]] /\ s.ok = TRUE
    BY StateIs DEF Sound
  <2>2. t \in Table /\ s.dat[t] # NoFile /\ s.dat[t] \in SUBSET Tuple
    BY <2>1, SoundFields
  <2>3. found = Of(t, s.idxs)
    BY <1>2 DEF Sound, Of
  <2>4. q = [s EXCEPT !.dat[t] = IF @ = NoFile THEN {} ELSE @, !.idx = Loaded(s, t, found),
                      !.open = @ \cup {t}, !.dict = @ \cup found,
                      !.att[t] = {[index |-> i, alive |-> TRUE] : i \in found}]
    BY <1>2 DEF Opened
  <2> HIDE DEF found
  <2>5. /\ q = [tabs |-> s.tabs, idxs |-> s.idxs, dat |-> [s.dat EXCEPT ![t] = IF @ = NoFile THEN {} ELSE @],
                idx |-> Loaded(s, t, found), open |-> s.open \cup {t},
                att |-> [s.att EXCEPT ![t] = {[index |-> i, alive |-> TRUE] : i \in found}],
                dict |-> s.dict \cup found, ok |-> s.ok]
    BY ONLY <2>1, <2>4
  <2>6. [s.dat EXCEPT ![t] = IF @ = NoFile THEN {} ELSE @] = s.dat
    BY <2>1, <2>2
  <2>7. /\ q.tabs = s.tabs /\ q.idxs = s.idxs /\ q.dat = s.dat /\ q.idx = Loaded(s, t, found)
        /\ q.open = s.open \cup {t} /\ q.att = [s.att EXCEPT ![t] = Objects(s.idxs, t)]
        /\ q.dict = s.dict \cup Of(t, s.idxs) /\ q.ok = TRUE
    BY <2>1, <2>3, <2>5, <2>6 DEF Objects
  <2>8. \A i \in Index : q.idx[i] = IF i \in found /\ i.kind \in {"hash", "rtree"} THEN Once(s.dat[t]) ELSE s.idx[i]
    BY <2>7 DEF Loaded
  <2>9. q.idx \in [Index -> [Tuple -> Nat] \cup {NoFile}]
    <3>1. Once(s.dat[t]) \in [Tuple -> Nat]
      BY <2>2 DEF Once
    <3>2. q.idx = [i \in Index |-> q.idx[i]]
      BY <2>7 DEF Loaded
    <3> QED BY <2>1, <2>8, <3>1, <3>2
  <2>10. q.att \in [Table -> SUBSET [index : Index, alive : BOOLEAN]]
    <3>1. PICK X : X = Objects(s.idxs, t)
      OBVIOUS
    <3>2. X \in SUBSET [index : Index, alive : BOOLEAN]
      BY <2>1, <2>2, <3>1, ObjectsAre
    <3> QED BY <2>1, <2>7, <3>1, <3>2
  <2>11. q \in StateSet
    <3>1. s.dict \cup Of(t, s.idxs) \subseteq Index /\ s.open \cup {t} \subseteq Table
      BY <2>1, <2>2 DEF Of
    <3>2. q = [tabs |-> q.tabs, idxs |-> q.idxs, dat |-> q.dat, idx |-> q.idx, open |-> q.open,
               att |-> q.att, dict |-> q.dict, ok |-> q.ok]
      BY <2>5
    <3> QED BY <2>1, <2>7, <2>9, <2>10, <3>1, <3>2 DEF StateSet
  <2>12. ASSUME NEW i \in q.idxs
         PROVE  i.table \in q.tabs /\ q.idx[i] = Once(q.dat[i.table]) /\ (i \in q.dict <=> i.table \in q.open)
    <3>1. i \in Index /\ i \in s.idxs
      BY <2>1, <2>7
    <3>2. i.table \in s.tabs /\ s.idx[i] = Once(s.dat[i.table]) /\ (i \in s.dict <=> i.table \in s.open)
      BY <3>1 DEF Sound
    <3>3. i \in found <=> i.table = t
      BY <2>3, <3>1 DEF Of
    <3> QED BY <2>3, <2>7, <2>8, <3>1, <3>2, <3>3
  <2>13. ASSUME NEW u \in Table
         PROVE  q.att[u] = IF u \in q.open THEN Objects(q.idxs, u) ELSE {}
    BY <2>1, <2>7 DEF Sound
  <2>14. \A i \in Index : i \notin s.idxs => q.idx[i] = s.idx[i]
    BY <2>3, <2>8 DEF Of
  <2> QED BY <1>2, <2>7, <2>11, <2>12, <2>13, <2>14 DEF Sound
<1> QED BY <1>1, <1>2

\* A table without a file and without indexes is created, open, and without rows.
LEMMA CreatedIs ==
  ASSUME NEW s, Sound(s), NEW t \in Table, t \notin s.tabs, NEW q, q = Created(s, t)
  PROVE  /\ Sound(q) /\ q.tabs = s.tabs \cup {t}
         /\ \A u \in s.tabs : q.dat[u] = s.dat[u]
<1>1. /\ s = [tabs |-> s.tabs, idxs |-> s.idxs, dat |-> s.dat, idx |-> s.idx, open |-> s.open,
              att |-> s.att, dict |-> s.dict, ok |-> s.ok]
      /\ s.tabs \subseteq Table /\ s.idxs \subseteq Index /\ s.open \subseteq Table /\ s.dict \subseteq Index
      /\ s.dat \in [Table -> (SUBSET Tuple) \cup {NoFile}] /\ s.idx \in [Index -> [Tuple -> Nat] \cup {NoFile}]
      /\ s.att \in [Table -> SUBSET [index : Index, alive : BOOLEAN]] /\ s.ok = TRUE
  BY StateIs DEF Sound
<1>2. s.dat[t] = NoFile /\ Of(t, s.idxs) = {} /\ t \notin s.open
  BY SoundFields
<1>3. PICK p : p = [s EXCEPT !.tabs = @ \cup {t}]
  OBVIOUS
<1>4. p = [tabs |-> s.tabs \cup {t}, idxs |-> s.idxs, dat |-> s.dat, idx |-> s.idx, open |-> s.open,
           att |-> s.att, dict |-> s.dict, ok |-> s.ok]
  BY ONLY <1>1, <1>3
<1>5. q = Opened(p, t)
  BY <1>3 DEF Created
<1>6. q = [p EXCEPT !.dat[t] = IF @ = NoFile THEN {} ELSE @, !.idx = Loaded(p, t, {}),
                    !.open = @ \cup {t}, !.dict = @ \cup {}, !.att[t] = {}]
  <2>1. Of(t, p.idxs) \ p.dict = {} /\ t \notin p.open /\ t \in p.tabs
    BY <1>2, <1>4
  <2>2. {[index |-> i, alive |-> TRUE] : i \in {}} = {}
    OBVIOUS
  <2> QED BY <1>5, <2>1, <2>2 DEF Opened
<1>7. q = [tabs |-> s.tabs \cup {t}, idxs |-> s.idxs, dat |-> [s.dat EXCEPT ![t] = IF @ = NoFile THEN {} ELSE @],
           idx |-> Loaded(p, t, {}), open |-> s.open \cup {t}, att |-> [s.att EXCEPT ![t] = {}],
           dict |-> s.dict \cup {}, ok |-> s.ok]
  BY ONLY <1>4, <1>6
<1>8. Loaded(p, t, {}) = s.idx
  BY <1>1, <1>4 DEF Loaded
<1>9. /\ q.tabs = s.tabs \cup {t} /\ q.idxs = s.idxs /\ q.dat = [s.dat EXCEPT ![t] = {}] /\ q.idx = s.idx
      /\ q.open = s.open \cup {t} /\ q.att = [s.att EXCEPT ![t] = {}] /\ q.dict = s.dict /\ q.ok = TRUE
  BY <1>1, <1>2, <1>7, <1>8
<1>10. q \in StateSet
  <2>1. q = [tabs |-> q.tabs, idxs |-> q.idxs, dat |-> q.dat, idx |-> q.idx, open |-> q.open,
             att |-> q.att, dict |-> q.dict, ok |-> q.ok]
    BY <1>7
  <2>2. q.dat \in [Table -> (SUBSET Tuple) \cup {NoFile}]
    BY <1>1, <1>9
  <2>3. q.att \in [Table -> SUBSET [index : Index, alive : BOOLEAN]]
    BY <1>1, <1>9
  <2> QED BY <1>1, <1>9, <2>1, <2>2, <2>3 DEF StateSet
<1>11. ASSUME NEW i \in q.idxs
       PROVE  i.table \in q.tabs /\ q.idx[i] = Once(q.dat[i.table]) /\ (i \in q.dict <=> i.table \in q.open)
  <2>1. i \in Index /\ i \in s.idxs /\ i.table \in Table
    BY <1>1, <1>9, IndexIs
  <2>2. i.table \in s.tabs /\ s.idx[i] = Once(s.dat[i.table]) /\ (i \in s.dict <=> i.table \in s.open)
    BY <2>1 DEF Sound
  <2> QED BY <1>1, <1>9, <2>1, <2>2
<1>12. ASSUME NEW u \in Table
       PROVE  q.att[u] = IF u \in q.open THEN Objects(q.idxs, u) ELSE {}
  <2>1. Objects(s.idxs, t) = {}
    BY <1>2 DEF Objects
  <2>2. CASE u = t
    BY <1>1, <1>9, <2>1, <2>2
  <2>3. CASE u # t
    <3>1. q.att[u] = s.att[u] /\ (u \in q.open <=> u \in s.open) /\ q.idxs = s.idxs
      BY <1>1, <1>9, <2>3
    <3> QED BY <3>1 DEF Sound
  <2> QED BY <2>2, <2>3
<1>13. \A u \in Table : q.dat[u] # NoFile <=> u \in q.tabs
  <2>1. {} # NoFile
    BY NoFileAssumption
  <2> QED BY <1>1, <1>9, <2>1 DEF Sound
<1>14. q.open \subseteq q.tabs /\ \A u \in s.tabs : q.dat[u] = s.dat[u]
  BY <1>1, <1>9 DEF Sound
<1> QED BY <1>9, <1>10, <1>11, <1>12, <1>13, <1>14 DEF Sound

\* drop_table: neither the table nor an index of it is left in the catalog.
LEMMA DroppedIs ==
  ASSUME NEW s, Sound(s), NEW t \in s.tabs, NEW q, q = Dropped(s, t)
  PROVE  /\ Sound(q) /\ q.tabs = s.tabs \ {t}
         /\ \A u \in q.tabs : q.dat[u] = s.dat[u]
<1> DEFINE kept == [i \in Index |-> IF i.table = t /\ i.kind # "unclustered" THEN NoFile ELSE s.idx[i]]
<1>1. /\ s = [tabs |-> s.tabs, idxs |-> s.idxs, dat |-> s.dat, idx |-> s.idx, open |-> s.open,
              att |-> s.att, dict |-> s.dict, ok |-> s.ok]
      /\ s.tabs \subseteq Table /\ s.idxs \subseteq Index /\ s.open \subseteq Table /\ s.dict \subseteq Index
      /\ s.dat \in [Table -> (SUBSET Tuple) \cup {NoFile}] /\ s.idx \in [Index -> [Tuple -> Nat] \cup {NoFile}]
      /\ s.att \in [Table -> SUBSET [index : Index, alive : BOOLEAN]] /\ s.ok = TRUE
  BY StateIs DEF Sound
<1>2. q = [s EXCEPT !.tabs = @ \ {t}, !.idxs = @ \ Of(t, @), !.open = @ \ {t}, !.att[t] = {}, !.dat[t] = NoFile,
                    !.idx = kept]
  BY DEF Dropped
<1>3. kept \in [Index -> [Tuple -> Nat] \cup {NoFile}]
      /\ \A i \in Index : i.table # t => kept[i] = s.idx[i]
  BY <1>1
<1> HIDE DEF kept
<1>4. q = [tabs |-> s.tabs \ {t}, idxs |-> s.idxs \ Of(t, s.idxs), dat |-> [s.dat EXCEPT ![t] = NoFile],
           idx |-> kept, open |-> s.open \ {t}, att |-> [s.att EXCEPT ![t] = {}],
           dict |-> s.dict, ok |-> s.ok]
  BY ONLY <1>1, <1>2
<1>5. q \in StateSet
  <2>1. [s.dat EXCEPT ![t] = NoFile] \in [Table -> (SUBSET Tuple) \cup {NoFile}]
    BY <1>1
  <2>2. [s.att EXCEPT ![t] = {}] \in [Table -> SUBSET [index : Index, alive : BOOLEAN]]
    BY <1>1
  <2>3. /\ q = [tabs |-> q.tabs, idxs |-> q.idxs, dat |-> q.dat, idx |-> q.idx, open |-> q.open,
                att |-> q.att, dict |-> q.dict, ok |-> q.ok]
        /\ q.dat = [s.dat EXCEPT ![t] = NoFile] /\ q.att = [s.att EXCEPT ![t] = {}] /\ q.idx = kept
    BY <1>4
  <2>4. q.tabs \subseteq Table /\ q.idxs \subseteq Index /\ q.open \subseteq Table /\ q.dict \subseteq Index /\ q.ok = TRUE
    BY <1>1, <1>4
  <2> QED BY <1>3, <2>1, <2>2, <2>3, <2>4 DEF StateSet
<1>6. ASSUME NEW i \in q.idxs
      PROVE  i.table \in q.tabs /\ q.idx[i] = Once(q.dat[i.table]) /\ (i \in q.dict <=> i.table \in q.open)
  <2>1. i \in Index /\ i \in s.idxs /\ i.table \in Table /\ i.table # t
    BY <1>1, <1>4, IndexIs DEF Of
  <2>2. i.table \in s.tabs /\ s.idx[i] = Once(s.dat[i.table]) /\ (i \in s.dict <=> i.table \in s.open)
    BY <2>1 DEF Sound
  <2> QED BY <1>1, <1>3, <1>4, <2>1, <2>2
<1>7. ASSUME NEW u \in Table
      PROVE  q.att[u] = IF u \in q.open THEN Objects(q.idxs, u) ELSE {}
  <2>1. CASE u = t
    BY <1>1, <1>4, <2>1
  <2>2. CASE u # t
    <3>1. Of(u, q.idxs) = Of(u, s.idxs)
      BY <1>4, <2>2 DEF Of
    <3>2. Objects(q.idxs, u) = Objects(s.idxs, u)
      BY <3>1 DEF Objects
    <3>3. q.att[u] = s.att[u] /\ (u \in q.open <=> u \in s.open)
      BY <1>1, <1>4, <2>2
    <3> QED BY <3>2, <3>3 DEF Sound
  <2> QED BY <2>1, <2>2
<1>8. \A u \in Table : q.dat[u] # NoFile <=> u \in q.tabs
  BY <1>1, <1>4 DEF Sound
<1>9. q.open \subseteq q.tabs /\ q.tabs = s.tabs \ {t} /\ \A u \in q.tabs : q.dat[u] = s.dat[u]
  BY <1>1, <1>4 DEF Sound
<1> QED BY <1>5, <1>6, <1>7, <1>8, <1>9 DEF Sound

\* create_*_index on an open table, when no older file of a B+ tree is there: the index
\* is in the catalog, open, and has the rows of the table.  A bitmap or an R-tree may have
\* been there before.
LEMMA BuiltIs ==
  ASSUME NEW s, Sound(s), NEW i \in Index, i.table \in s.open,
         i.kind = "unclustered" => s.idx[i] = NoFile, NEW q, q = Built(s, i)
  PROVE  Sound(q) /\ q.tabs = s.tabs /\ q.dat = s.dat
<1> DEFINE t == i.table
           object == [index |-> i, alive |-> TRUE]
<1>1. /\ s = [tabs |-> s.tabs, idxs |-> s.idxs, dat |-> s.dat, idx |-> s.idx, open |-> s.open,
              att |-> s.att, dict |-> s.dict, ok |-> s.ok]
      /\ s.tabs \subseteq Table /\ s.idxs \subseteq Index /\ s.open \subseteq Table /\ s.dict \subseteq Index
      /\ s.dat \in [Table -> (SUBSET Tuple) \cup {NoFile}] /\ s.idx \in [Index -> [Tuple -> Nat] \cup {NoFile}]
      /\ s.att \in [Table -> SUBSET [index : Index, alive : BOOLEAN]] /\ s.ok = TRUE
  BY StateIs DEF Sound
<1>2. t \in Table /\ t \in s.tabs /\ t \in s.open /\ s.dat[t] \in SUBSET Tuple /\ Once(s.dat[t]) \in [Tuple -> Nat]
  <2>1. t \in Table /\ t \in s.tabs /\ t \in s.open
    BY IndexIs DEF Sound
  <2>2. s.dat[t] \in SUBSET Tuple
    BY <2>1, SoundFields
  <2> QED BY <2>1, <2>2 DEF Once
<1>3. q = [s EXCEPT !.idxs = @ \cup {i}, !.dict = @ \cup {i}, !.idx[i] = Once(s.dat[t]), !.att[t] = @ \cup {object}]
  BY DEF Built
<1>4. object \in [index : Index, alive : BOOLEAN]
  OBVIOUS
<1> HIDE DEF object
<1>5. q = [tabs |-> s.tabs, idxs |-> s.idxs \cup {i}, dat |-> s.dat, idx |-> [s.idx EXCEPT ![i] = Once(s.dat[t])],
           open |-> s.open, att |-> [s.att EXCEPT ![t] = @ \cup {object}], dict |-> s.dict \cup {i}, ok |-> s.ok]
  <2> HIDE DEF t
  <2> QED BY ONLY <1>1, <1>3
<1>6. /\ q.tabs = s.tabs /\ q.idxs = s.idxs \cup {i} /\ q.dat = s.dat /\ q.idx = [s.idx EXCEPT ![i] = Once(s.dat[t])]
      /\ q.open = s.open /\ q.att = [s.att EXCEPT ![t] = @ \cup {object}] /\ q.dict = s.dict \cup {i} /\ q.ok = TRUE
      /\ q = [tabs |-> q.tabs, idxs |-> q.idxs, dat |-> q.dat, idx |-> q.idx, open |-> q.open,
              att |-> q.att, dict |-> q.dict, ok |-> q.ok]
  BY <1>1, <1>5
<1>7. q \in StateSet
  <2>1. q.idx \in [Index -> [Tuple -> Nat] \cup {NoFile}]
    BY <1>1, <1>2, <1>6
  <2>2. q.att \in [Table -> SUBSET [index : Index, alive : BOOLEAN]]
    <3>1. PICK X : X = s.att[t] \cup {object}
      OBVIOUS
    <3>2. X \in SUBSET [index : Index, alive : BOOLEAN]
      BY <1>1, <1>2, <1>4, <3>1
    <3> QED BY <1>1, <1>6, <3>1, <3>2
  <2> QED BY <1>1, <1>6, <2>1, <2>2 DEF StateSet
<1>8. ASSUME NEW j \in q.idxs
      PROVE  j.table \in q.tabs /\ q.idx[j] = Once(q.dat[j.table]) /\ (j \in q.dict <=> j.table \in q.open)
  <2>1. CASE j = i
    BY <1>1, <1>2, <1>6, <2>1
  <2>2. CASE j # i
    <3>1. j \in Index /\ j \in s.idxs
      BY <1>1, <1>6, <2>2
    <3>2. j.table \in s.tabs /\ s.idx[j] = Once(s.dat[j.table]) /\ (j \in s.dict <=> j.table \in s.open)
      BY <3>1 DEF Sound
    <3> QED BY <1>1, <1>6, <2>2, <3>1, <3>2
  <2> QED BY <2>1, <2>2
<1>9. ASSUME NEW u \in Table
      PROVE  q.att[u] = IF u \in q.open THEN Objects(q.idxs, u) ELSE {}
  <2>1. CASE u = t
    <3>1. q.att[t] = s.att[t] \cup {object} /\ s.att[t] = Objects(s.idxs, t)
      BY <1>1, <1>2, <1>6 DEF Sound
    <3>2. Of(t, q.idxs) = Of(t, s.idxs) \cup {i}
      BY <1>6 DEF Of
    <3>3. Objects(q.idxs, t) = Objects(s.idxs, t) \cup {object}
      BY <3>2 DEF Objects, object
    <3> QED BY <1>2, <1>6, <2>1, <3>1, <3>3
  <2>2. CASE u # t
    <3>1. Of(u, q.idxs) = Of(u, s.idxs)
      BY <1>6, <2>2 DEF Of
    <3>2. Objects(q.idxs, u) = Objects(s.idxs, u)
      BY <3>1 DEF Objects
    <3>3. q.att[u] = s.att[u] /\ (u \in q.open <=> u \in s.open)
      BY <1>1, <1>6, <2>2
    <3> QED BY <3>2, <3>3 DEF Sound
  <2> QED BY <2>1, <2>2
<1>10. q.open \subseteq q.tabs /\ \A u \in Table : q.dat[u] # NoFile <=> u \in q.tabs
  <2> HIDE DEF t
  <2> QED BY <1>6 DEF Sound
<1> QED BY <1>6, <1>7, <1>8, <1>9, <1>10 DEF Sound

\* An open table has the objects of its indexes attached, none of them closed.
LEMMA AttachedAre ==
  ASSUME NEW s, Sound(s), NEW t \in s.open
  PROVE  /\ \A o \in s.att[t] : o.alive = TRUE
         /\ \A i \in Index : (\E o \in s.att[t] : o.index = i) <=> i \in Of(t, s.idxs)
         /\ {o.index : o \in s.att[t]} = Of(t, s.idxs)
<1>1. s.idxs \in SUBSET Index /\ t \in Table
  BY StateIs DEF Sound
<1>2. PICK is : is = s.idxs
  OBVIOUS
<1>3. s.att[t] = Objects(is, t)
  BY <1>1, <1>2 DEF Sound
<1>4. /\ \A o \in Objects(is, t) : o.alive = TRUE
      /\ \A i \in Index : (\E o \in Objects(is, t) : o.index = i) <=> i \in Of(t, is)
      /\ {o.index : o \in Objects(is, t)} = Of(t, is)
  BY <1>1, <1>2, ObjectsAre
<1> QED BY <1>2, <1>3, <1>4

\* What a change of one row does to a state: to the file of its table, and to the file
\* of each index of the table.
Rewritten(s, q, t, rows) ==
  /\ q = [tabs |-> s.tabs, idxs |-> s.idxs, dat |-> [s.dat EXCEPT ![t] = rows], idx |-> q.idx, open |-> s.open,
          att |-> s.att, dict |-> s.dict, ok |-> s.ok]
  /\ q.idx \in [Index -> [Tuple -> Nat] \cup {NoFile}]
  /\ \A i \in Index : q.idx[i] = IF i \in Of(t, s.idxs) THEN Once(rows) ELSE s.idx[i]

\* The tables of s have their rows in q, but for one.
RowsBut(s, q, t, rows) == \A u \in s.tabs : q.dat[u] = IF u = t THEN rows ELSE s.dat[u]

\* Such a change keeps all else.
LEMMA RewrittenKeeps ==
  ASSUME NEW s, Sound(s), NEW t \in s.open, NEW rows \in SUBSET Tuple, NEW q, Rewritten(s, q, t, rows)
  PROVE  /\ Sound(q) /\ q.tabs = s.tabs
         /\ RowsBut(s, q, t, rows)
<1>1. /\ s = [tabs |-> s.tabs, idxs |-> s.idxs, dat |-> s.dat, idx |-> s.idx, open |-> s.open,
              att |-> s.att, dict |-> s.dict, ok |-> s.ok]
      /\ s.tabs \subseteq Table /\ s.idxs \subseteq Index /\ s.open \subseteq Table /\ s.dict \subseteq Index
      /\ s.dat \in [Table -> (SUBSET Tuple) \cup {NoFile}] /\ s.idx \in [Index -> [Tuple -> Nat] \cup {NoFile}]
      /\ s.att \in [Table -> SUBSET [index : Index, alive : BOOLEAN]] /\ s.ok = TRUE
  BY StateIs DEF Sound
<1>2. t \in Table /\ t \in s.tabs
  BY <1>1 DEF Sound
<1>6. /\ q.tabs = s.tabs /\ q.idxs = s.idxs /\ q.dat = [s.dat EXCEPT ![t] = rows]
      /\ q.open = s.open /\ q.att = s.att /\ q.dict = s.dict /\ q.ok = TRUE
      /\ q = [tabs |-> q.tabs, idxs |-> q.idxs, dat |-> q.dat, idx |-> q.idx, open |-> q.open,
              att |-> q.att, dict |-> q.dict, ok |-> q.ok]
  BY <1>1 DEF Rewritten
<1>7. q \in StateSet
  <2>1. q.dat \in [Table -> (SUBSET Tuple) \cup {NoFile}]
    BY <1>1, <1>6
  <2>2. q.idx \in [Index -> [Tuple -> Nat] \cup {NoFile}]
    BY DEF Rewritten
  <2> QED BY <1>1, <1>6, <2>1, <2>2 DEF StateSet
<1>8. ASSUME NEW i \in q.idxs
      PROVE  i.table \in q.tabs /\ q.idx[i] = Once(q.dat[i.table]) /\ (i \in q.dict <=> i.table \in q.open)
  <2>1. i \in Index /\ i \in s.idxs /\ i.table \in Table
    BY <1>1, <1>6, IndexIs
  <2>2. i.table \in s.tabs /\ s.idx[i] = Once(s.dat[i.table]) /\ (i \in s.dict <=> i.table \in s.open)
    BY <2>1 DEF Sound
  <2>3. q.idx[i] = IF i.table = t THEN Once(rows) ELSE s.idx[i]
    BY <2>1 DEF Rewritten, Of
  <2> QED BY <1>1, <1>6, <2>1, <2>2, <2>3
<1>9. \A u \in Table : q.dat[u] # NoFile <=> u \in q.tabs
  BY <1>1, <1>2, <1>6, NoFileAssumption DEF Sound
<1>10. RowsBut(s, q, t, rows)
  BY <1>1, <1>6 DEF RowsBut
<1>11. q.open \subseteq q.tabs /\ \A u \in Table : q.att[u] = IF u \in q.open THEN Objects(q.idxs, u) ELSE {}
  BY <1>6 DEF Sound
<1> QED BY <1>6, <1>7, <1>8, <1>9, <1>10, <1>11 DEF Sound

\* A row that is inserted is in the file of its table and of each of its indexes; one
\* that is there already changes nothing.
LEMMA RowInsertedIs ==
  ASSUME NEW s, Sound(s), NEW t \in s.open, NEW r \in Tuple, NEW q, q = RowInserted(s, t, r)
  PROVE  /\ Sound(q) /\ q.tabs = s.tabs /\ (r \in s.dat[t] => q = s)
         /\ RowsBut(s, q, t, s.dat[t] \cup {r})
<1>1. /\ s = [tabs |-> s.tabs, idxs |-> s.idxs, dat |-> s.dat, idx |-> s.idx, open |-> s.open,
              att |-> s.att, dict |-> s.dict, ok |-> s.ok]
      /\ s.tabs \subseteq Table /\ s.idxs \subseteq Index /\ s.open \subseteq Table
      /\ s.idx \in [Index -> [Tuple -> Nat] \cup {NoFile}] /\ s.ok = TRUE
  BY StateIs DEF Sound
<1>2. t \in Table /\ t \in s.tabs /\ s.dat[t] \in SUBSET Tuple /\ s.att[t] = Objects(s.idxs, t)
  <2>1. t \in Table /\ t \in s.tabs /\ s.att[t] = Objects(s.idxs, t)
    BY <1>1 DEF Sound
  <2> QED BY <2>1, SoundFields
<1>3. CASE r \in s.dat[t]
  <2>1. q = s /\ s.dat[t] \cup {r} = s.dat[t]
    BY <1>3 DEF RowInserted
  <2> QED BY <2>1 DEF RowsBut
<1>4. CASE r \notin s.dat[t]
  <2> DEFINE rows == s.dat[t] \cup {r}
             x == [i \in Index |-> IF \E o \in s.att[t] : o.index = i THEN Plus(s.idx[i], {r}) ELSE s.idx[i]]
  <2>1. PICK p : p = [s EXCEPT !.dat[t] = @ \cup {r}]
    OBVIOUS
  <2>2. p = [tabs |-> s.tabs, idxs |-> s.idxs, dat |-> [s.dat EXCEPT ![t] = @ \cup {r}], idx |-> s.idx,
             open |-> s.open, att |-> s.att, dict |-> s.dict, ok |-> s.ok]
    BY ONLY <1>1, <2>1
  <2>3. q = Visited(p, t, "insert", r)
    BY <1>1, <1>4, <2>1 DEF RowInserted
  <2>4. p.att = s.att /\ p.idx = s.idx
    BY <2>2
  <2>5. \A o \in s.att[t] : o.alive = TRUE
    BY AttachedAre
  <2>6. q = [p EXCEPT !.idx = x]
    BY <2>3, <2>4, <2>5 DEF Visited
  <2>7. \A i \in Index : x[i] = IF i \in Of(t, s.idxs) THEN Once(rows) ELSE s.idx[i]
    <3>1. ASSUME NEW i \in Index PROVE (\E o \in s.att[t] : o.index = i) <=> i \in Of(t, s.idxs)
      BY AttachedAre
    <3>2. ASSUME NEW i \in Of(t, s.idxs) PROVE Plus(s.idx[i], {r}) = Once(rows)
      <4>1. s.idx[i] = Once(s.dat[t])
        BY DEF Sound, Of
      <4> QED BY <1>2, <1>4, <4>1, OnceIs
    <3> QED BY <3>1, <3>2
  <2>8. x = [i \in Index |-> x[i]]
    OBVIOUS
  <2> HIDE DEF x
  <2>9. /\ q = [tabs |-> s.tabs, idxs |-> s.idxs, dat |-> [s.dat EXCEPT ![t] = rows], idx |-> x, open |-> s.open,
                  att |-> s.att, dict |-> s.dict, ok |-> s.ok]
        /\ q.idx = x
    BY <1>1, <2>2, <2>6
  <2>10. x \in [Index -> [Tuple -> Nat] \cup {NoFile}]
    <3>1. Once(rows) \in [Tuple -> Nat]
      BY DEF Once
    <3> QED BY <1>1, <2>7, <2>8, <3>1
  <2>11. rows \in SUBSET Tuple
    BY <1>2
  <2>12. Rewritten(s, q, t, rows)
    <3> HIDE DEF rows
    <3> QED BY <2>7, <2>9, <2>10 DEF Rewritten
  <2> HIDE DEF rows
  <2>13. Sound(q) /\ q.tabs = s.tabs /\ RowsBut(s, q, t, rows)
    BY <2>11, <2>12, RewrittenKeeps
  <2> QED BY <1>4, <2>13 DEF rows
<1> QED BY <1>3, <1>4

\* A row that is deleted is in none of these any more.
LEMMA RowDeletedIs ==
  ASSUME NEW s, Sound(s), NEW t \in s.open, NEW r \in s.dat[t], NEW q, q = RowDeleted(s, t, r)
  PROVE  /\ Sound(q) /\ q.tabs = s.tabs
         /\ RowsBut(s, q, t, s.dat[t] \ {r})
<1>1. /\ s = [tabs |-> s.tabs, idxs |-> s.idxs, dat |-> s.dat, idx |-> s.idx, open |-> s.open,
              att |-> s.att, dict |-> s.dict, ok |-> s.ok]
      /\ s.tabs \subseteq Table /\ s.idxs \subseteq Index /\ s.open \subseteq Table
      /\ s.idx \in [Index -> [Tuple -> Nat] \cup {NoFile}] /\ s.ok = TRUE
  BY StateIs DEF Sound
<1>2. t \in Table /\ t \in s.tabs /\ s.dat[t] \in SUBSET Tuple /\ s.att[t] = Objects(s.idxs, t)
  <2>1. t \in Table /\ t \in s.tabs /\ s.att[t] = Objects(s.idxs, t)
    BY <1>1 DEF Sound
  <2> QED BY <2>1, SoundFields
<1> DEFINE rows == s.dat[t] \ {r}
           x == [i \in Index |-> IF \E o \in s.att[t] : o.index = i THEN Less(s.idx[i], {r}) ELSE s.idx[i]]
<1>3. PICK p : p = [s EXCEPT !.dat[t] = @ \ {r}]
  OBVIOUS
<1>4. p = [tabs |-> s.tabs, idxs |-> s.idxs, dat |-> [s.dat EXCEPT ![t] = @ \ {r}], idx |-> s.idx,
           open |-> s.open, att |-> s.att, dict |-> s.dict, ok |-> s.ok]
  BY ONLY <1>1, <1>3
<1>5. q = Visited(p, t, "delete", r)
  BY <1>1, <1>3 DEF RowDeleted
<1>6. p.att = s.att /\ p.idx = s.idx
  BY <1>4
<1>7. \A o \in s.att[t] : o.alive = TRUE
  BY AttachedAre
<1>8. q = [p EXCEPT !.idx = x]
  BY <1>5, <1>6, <1>7 DEF Visited
<1>9. \A i \in Index : x[i] = IF i \in Of(t, s.idxs) THEN Once(rows) ELSE s.idx[i]
  <2>1. ASSUME NEW i \in Index PROVE (\E o \in s.att[t] : o.index = i) <=> i \in Of(t, s.idxs)
    BY AttachedAre
  <2>2. ASSUME NEW i \in Of(t, s.idxs) PROVE Less(s.idx[i], {r}) = Once(rows)
    <3>1. s.idx[i] = Once(s.dat[t])
      BY DEF Sound, Of
    <3> QED BY <1>2, <3>1, OnceIs
  <2> QED BY <2>1, <2>2
<1>10. x = [i \in Index |-> x[i]]
  OBVIOUS
<1> HIDE DEF x
<1>11. /\ q = [tabs |-> s.tabs, idxs |-> s.idxs, dat |-> [s.dat EXCEPT ![t] = rows], idx |-> x, open |-> s.open,
                 att |-> s.att, dict |-> s.dict, ok |-> s.ok]
       /\ q.idx = x
  BY <1>1, <1>4, <1>8
<1>12. x \in [Index -> [Tuple -> Nat] \cup {NoFile}]
  <2>1. Once(rows) \in [Tuple -> Nat]
    BY DEF Once
  <2> QED BY <1>1, <1>9, <1>10, <2>1
<1>13. rows \in SUBSET Tuple
  BY <1>2
<1> HIDE DEF rows
<1>14. Rewritten(s, q, t, rows)
  BY <1>9, <1>11, <1>12 DEF Rewritten
<1>15. Sound(q) /\ q.tabs = s.tabs /\ RowsBut(s, q, t, rows)
  BY <1>13, <1>14, RewrittenKeeps
<1> QED BY <1>15 DEF rows

-----------------------------------------------------------------------------
(* Undo and redo of the log.                                               *)

\* Records of tables that are as they were can still be redone and undone.
LEMMA LogKept ==
  ASSUME NEW s, NEW q, NEW lg, NEW n \in Nat, LogOK(s, lg, n),
         \A i \in 1..n : lg[i].table \in q.tabs /\ s.dat[lg[i].table] \subseteq q.dat[lg[i].table]
  PROVE  LogOK(q, lg, n)
  BY DEF LogOK

\* The tables that are left when a record is undone.
TablesWithout(s, r) == IF r.op = "ddl_create_table" THEN s.tabs \ {r.table} ELSE s.tabs

\* The last record is undone: the table that it created, or the row that it inserted.
LEMMA UndoStep ==
  ASSUME NEW s, Sound(s), NEW lg \in Seq(LogRecord), NEW n \in 1..Len(lg), LogOK(s, lg, n),
         NEW q, q = UndoRecord(s, lg[n])
  PROVE  /\ Sound(q) /\ LogOK(q, lg, n - 1)
         /\ q.tabs = TablesWithout(s, lg[n])
<1> DEFINE t == lg[n].table
<1>1. /\ lg[n].op \in {"ddl_create_table", "table_insert"} /\ t \in Table
      /\ lg[n].op = "table_insert" => lg[n].what \in Tuple
      /\ n \in Nat /\ n - 1 \in Nat
  BY RecordIs, LenProperties
<1>2. t \in s.tabs /\ s.ok = TRUE
  <2>1. s.ok = TRUE
    BY StateIs DEF Sound
  <2> QED BY <2>1 DEF LogOK
<1>3. ASSUME NEW i \in 1..(n - 1)
      PROVE  /\ i \in 1..n /\ lg[i].table \in s.tabs /\ lg[i] \in LogRecord
             /\ lg[i].table = t => /\ lg[n].op = "table_insert"
                                   /\ lg[i].op = "table_insert" => lg[i].what # lg[n].what
  BY <1>1, LenProperties DEF LogOK
<1>4. LogOK(s, lg, n - 1)
  BY <1>1, <1>3 DEF LogOK
<1>5. CASE lg[n].op = "ddl_create_table"
  <2>1. q = Dropped(s, t)
    BY <1>2, <1>5 DEF UndoRecord
  <2>2. Sound(q) /\ q.tabs = s.tabs \ {t} /\ \A u \in q.tabs : q.dat[u] = s.dat[u]
    <3> HIDE DEF t
    <3> QED BY <1>2, <2>1, DroppedIs
  <2>3. ASSUME NEW i \in 1..(n - 1)
        PROVE  lg[i].table \in q.tabs /\ s.dat[lg[i].table] \subseteq q.dat[lg[i].table]
    BY <1>3, <1>5, <2>2
  <2>4. LogOK(q, lg, n - 1)
    BY <1>1, <1>4, <2>3, LogKept
  <2> QED BY <1>5, <2>2, <2>4 DEF TablesWithout
<1>6. CASE lg[n].op = "table_insert"
  <2> DEFINE r == lg[n].what
  <2>1. PICK p : p = Opened(s, t)
    OBVIOUS
  <2>2. Sound(p) /\ t \in p.open /\ p.tabs = s.tabs /\ p.dat = s.dat
    <3> HIDE DEF t
    <3> QED BY <1>2, <2>1, OpenedIs
  <2>3. q = RowDeleted(p, t, r)
    BY <1>2, <1>6, <2>1 DEF UndoRecord
  <2>4. r \in p.dat[t]
    BY <1>1, <1>6, <2>2 DEF LogOK
  <2>5. Sound(q) /\ q.tabs = p.tabs /\ RowsBut(p, q, t, p.dat[t] \ {r})
    <3>1. PICK tt, rr : tt = t /\ rr = r
      OBVIOUS
    <3>2. Sound(p) /\ tt \in p.open /\ rr \in p.dat[tt] /\ q = RowDeleted(p, tt, rr)
      BY <2>2, <2>3, <2>4, <3>1
    <3>3. Sound(q) /\ q.tabs = p.tabs /\ RowsBut(p, q, tt, p.dat[tt] \ {rr})
      BY ONLY <3>2, RowDeletedIs
    <3> QED BY <3>1, <3>3
  <2>6. ASSUME NEW i \in 1..(n - 1)
        PROVE  /\ lg[i].table \in q.tabs
               /\ lg[i].op = "table_insert" => lg[i].what \in q.dat[lg[i].table]
    <3>1. lg[i].table \in s.tabs /\ (lg[i].op = "table_insert" => lg[i].what \in s.dat[lg[i].table])
      BY <1>3 DEF LogOK
    <3> QED BY <1>3, <2>2, <2>5, <3>1 DEF RowsBut
  <2>7. LogOK(q, lg, n - 1)
    BY <1>4, <2>6 DEF LogOK
  <2> QED BY <1>6, <2>2, <2>5, <2>7 DEF TablesWithout
<1> QED BY <1>1, <1>5, <1>6

\* A record is redone on what it did before: at most its table is opened.
LEMMA RedoStep ==
  ASSUME NEW s, Sound(s), NEW lg \in Seq(LogRecord), LogOK(s, lg, Len(lg)), NEW n \in 1..Len(lg),
         NEW q, q = RedoRecord(s, lg[n])
  PROVE  Sound(q) /\ LogOK(q, lg, Len(lg)) /\ q.tabs = s.tabs
<1> DEFINE t == lg[n].table
<1>1. /\ lg[n].op \in {"ddl_create_table", "table_insert"} /\ t \in Table
      /\ lg[n].op = "table_insert" => lg[n].what \in Tuple
  BY RecordIs, LenProperties
<1>2. t \in s.tabs /\ s.ok = TRUE
  <2>1. s.ok = TRUE
    BY StateIs DEF Sound
  <2> QED BY <2>1 DEF LogOK
<1>3. CASE lg[n].op = "ddl_create_table"
  BY <1>2, <1>3 DEF RedoRecord
<1>4. CASE lg[n].op = "table_insert"
  <2> DEFINE r == lg[n].what
  <2>1. PICK p : p = Opened(s, t)
    OBVIOUS
  <2>2. Sound(p) /\ t \in p.open /\ p.tabs = s.tabs /\ p.dat = s.dat
    <3> HIDE DEF t
    <3> QED BY <1>2, <2>1, OpenedIs
  <2>3. q = RowInserted(p, t, r)
    BY <1>2, <1>4, <2>1 DEF RedoRecord
  <2>4. r \in p.dat[t]
    BY <1>4, <2>2 DEF LogOK
  <2>5. q = p
    BY <2>3, <2>4 DEF RowInserted
  <2>6. LogOK(p, lg, Len(lg))
    BY <2>2 DEF LogOK
  <2> QED BY <2>2, <2>5, <2>6
<1> QED BY <1>1, <1>3, <1>4

\* The table that a record creates.
Creates(r) == IF r.op = "ddl_create_table" THEN {r.table} ELSE {}

\* A record more creates one table more, or none.
LEMMA NewTablesGrow ==
  ASSUME NEW lg, NEW c \in Nat \ {0}, NEW n \in Nat, n >= c
  PROVE  NewTables(lg, c, n) = NewTables(lg, c, n - 1) \cup Creates(lg[n])
<1> DEFINE J(k) == {j \in c..k : c # 0 /\ lg[j].op = "ddl_create_table"}
<1>1. J(n) = J(n - 1) \cup IF lg[n].op = "ddl_create_table" THEN {n} ELSE {}
  OBVIOUS
<1> HIDE DEF J
<1>2. NewTables(lg, c, n) = {lg[i].table : i \in J(n)} /\ NewTables(lg, c, n - 1) = {lg[i].table : i \in J(n - 1)}
  BY DEF NewTables, J
<1> QED BY <1>1, <1>2 DEF Creates

\* Rollback: the records of the transaction are undone from the last to the first, and
\* the tables are those that were there without it.
LEMMA UndoneIs ==
  ASSUME NEW s, Sound(s), log \in Seq(LogRecord), LogOK(s, log, Len(log)),
         current \in 1..(Len(log) + 1), NEW old, old \cap NewTables(log, current, Len(log)) = {},
         s.tabs = old \cup NewTables(log, current, Len(log)), NEW q, q = Undone(s, log)
  PROVE  Sound(q) /\ LogOK(q, log, current - 1) /\ q.tabs = old
<1> DEFINE last == Len(log)
           m == last - current + 1
           new(n) == NewTables(log, current, n)
           Good(k) == {x \in StateSet : /\ Sound(x) /\ LogOK(x, log, last - k)
                                        /\ x.tabs = old \cup new(last - k) /\ old \cap new(last - k) = {}}
           G == [k \in 0..m |-> Good(k)]
           T == StateSet
           g == [k \in 1..m |-> [x \in T |-> UndoRecord(x, log[last - k + 1])]]
           Is(f) == f = [n \in 0..m |-> IF n = 0 THEN s ELSE UndoRecord(f[n - 1], log[last - n + 1])]
<1>1. last \in Nat /\ current \in Nat \ {0} /\ m \in Nat /\ last - m = current - 1
  BY LenProperties
<1>2. s \in Good(0)
  BY <1>1 DEF Sound
<1>3. ASSUME NEW k \in 1..m, NEW x \in Good(k - 1)
      PROVE  UndoRecord(x, log[last - k + 1]) \in Good(k)
  <2>1. PICK n : n = last - k + 1
    OBVIOUS
  <2>2. n \in 1..last /\ n \in Nat /\ n >= current /\ last - (k - 1) = n /\ last - k = n - 1
    BY <1>1, <2>1
  <2>3. Sound(x) /\ LogOK(x, log, n) /\ x.tabs = old \cup new(n) /\ old \cap new(n) = {}
    BY <2>2
  <2>4. PICK y : y = UndoRecord(x, log[n])
    OBVIOUS
  <2>5. /\ Sound(y) /\ LogOK(y, log, n - 1)
        /\ y.tabs = TablesWithout(x, log[n])
    <3>1. PICK lg : lg = log
      OBVIOUS
    <3>2. lg \in Seq(LogRecord) /\ n \in 1..Len(lg) /\ Sound(x) /\ LogOK(x, lg, n) /\ y = UndoRecord(x, lg[n])
      BY <2>2, <2>3, <2>4, <3>1
    <3>3. /\ Sound(y) /\ LogOK(y, lg, n - 1)
          /\ y.tabs = TablesWithout(x, lg[n])
      BY ONLY <3>2, UndoStep
    <3> QED BY <3>1, <3>3
  <2>6. new(n) = new(n - 1) \cup Creates(log[n])
    BY <1>1, <2>2, NewTablesGrow
  <2>7. log[n].op = "ddl_create_table" => log[n].table \notin new(n - 1)
    <3> SUFFICES ASSUME log[n].op = "ddl_create_table", NEW i \in current..(n - 1), log[i].table = log[n].table
                 PROVE  FALSE
      BY DEF NewTables
    <3>1. i \in 1..(n - 1) /\ n \in 1..n
      BY <1>1, <2>2
    <3>2. log[n].op = "table_insert"
      BY <2>3, <3>1 DEF LogOK
    <3> QED BY <3>2
  <2> HIDE DEF new
  <2>8. y.tabs = old \cup new(n - 1) /\ old \cap new(n - 1) = {}
    BY <2>3, <2>5, <2>6, <2>7 DEF TablesWithout, Creates
  <2>9. y \in StateSet
    BY <2>5 DEF Sound
  <2> QED BY <2>1, <2>2, <2>4, <2>5, <2>8, <2>9
<1>4. \A k \in 0..m : Good(k) \subseteq T /\ G[k] = Good(k)
  OBVIOUS
<1> HIDE DEF Good, T, m
<1>5. \A k \in 1..m : \A x \in G[k - 1] : x \in T /\ g[k][x] = UndoRecord(x, log[last - k + 1]) /\ g[k][x] \in G[k]
  <2>1. ASSUME NEW k \in 1..m, NEW x \in G[k - 1]
        PROVE  x \in T /\ g[k][x] = UndoRecord(x, log[last - k + 1]) /\ g[k][x] \in G[k]
    <3>1. k - 1 \in 0..m /\ k \in 0..m
      BY <1>1
    <3>2. x \in Good(k - 1) /\ x \in T
      BY <1>4, <3>1
    <3>3. g[k][x] = UndoRecord(x, log[last - k + 1])
      BY <3>2
    <3> HIDE DEF g, G
    <3> QED BY <1>3, <1>4, <3>1, <3>2, <3>3
  <2> QED BY <2>1
<1> HIDE DEF g, G
<1>6. PICK f \in [0..m -> T] : Recurs(f, m, s, g) /\ \A k \in 0..m : f[k] \in G[k]
  <2>1. s \in G[0] /\ \A k \in 0..m : G[k] \subseteq T
    BY <1>1, <1>2, <1>4
  <2> QED BY <1>1, <1>5, <2>1, RecursionStays
<1>7. Is(f)
  <2>1. ASSUME NEW n \in 0..m PROVE f[n] = IF n = 0 THEN s ELSE UndoRecord(f[n - 1], log[last - n + 1])
    <3>1. CASE n = 0
      BY <1>6, <3>1 DEF Recurs
    <3>2. CASE n # 0
      <4>1. n \in 1..m /\ n - 1 \in 0..m
        BY <1>1, <3>2
      <4> QED BY <1>5, <1>6, <3>2, <4>1 DEF Recurs
    <3> QED BY <3>1, <3>2
  <2> HIDE DEF last
  <2> QED BY <1>6, <2>1
<1>8. PICK h : h = (CHOOSE e : Is(e)) /\ Is(h)
  <2> HIDE DEF Is
  <2> QED BY <1>7
<1>9. q = h[m]
  BY <1>8 DEF Undone, m
<1> DEFINE S == {k \in 0..m : h[k] = f[k]}
<1>10. 0 \in S
  <2>1. 0 \in 0..m
    BY <1>1
  <2>2. h[0] = s
    BY <1>8, <2>1
  <2>3. f[0] = s
    BY <1>7, <2>1
  <2> QED BY <2>1, <2>2, <2>3
<1>11. ASSUME NEW k \in 1..m, k - 1 \in S PROVE k \in S
  <2>1. k \in 0..m /\ k # 0
    BY <1>1
  <2>2. h[k] = UndoRecord(h[k - 1], log[last - k + 1]) /\ f[k] = UndoRecord(f[k - 1], log[last - k + 1])
    BY <1>7, <1>8, <2>1
  <2> QED BY <1>11, <2>1, <2>2
<1>12. m \in S
  <2> HIDE DEF S
  <2>1. 0..m \subseteq S
    BY <1>1, <1>10, <1>11, BoundedInduction
  <2> QED BY <1>1, <2>1
<1>13. q \in Good(m)
  BY <1>1, <1>4, <1>6, <1>9, <1>12
<1>14. new(current - 1) = {}
  BY <1>1 DEF NewTables
<1> QED BY <1>1, <1>13, <1>14 DEF Good

\* A start redoes the log on the files that are there: no table more, and none less.
LEMMA RecoveredIs ==
  ASSUME NEW s, Sound(s), log \in Seq(LogRecord), LogOK(s, log, Len(log)), NEW q, q = Recovered(s)
  PROVE  Sound(q) /\ LogOK(q, log, Len(log)) /\ q.tabs = s.tabs
<1> DEFINE m == Len(log)
           T == {x \in StateSet : Sound(x) /\ LogOK(x, log, m) /\ x.tabs = s.tabs}
           G == [k \in 0..m |-> T]
           g == [k \in 1..m |-> [x \in T |-> RedoRecord(x, log[k])]]
           Is(f) == f = [n \in 0..m |-> IF n = 0 THEN s ELSE RedoRecord(f[n - 1], log[n])]
<1>1. m \in Nat
  BY LenProperties
<1>2. s \in T
  BY DEF Sound
<1>3. ASSUME NEW k \in 1..m, NEW x \in T
      PROVE  RedoRecord(x, log[k]) \in T
  <2>1. PICK lg, y : lg = log /\ y = RedoRecord(x, lg[k])
    OBVIOUS
  <2>2. lg \in Seq(LogRecord) /\ k \in 1..Len(lg) /\ Sound(x) /\ LogOK(x, lg, Len(lg)) /\ y = RedoRecord(x, lg[k])
    BY <2>1
  <2>3. Sound(y) /\ LogOK(y, lg, Len(lg)) /\ y.tabs = x.tabs
    BY ONLY <2>2, RedoStep
  <2>4. y \in StateSet
    BY <2>3 DEF Sound
  <2> QED BY <2>1, <2>3, <2>4
<1>4. \A k \in 0..m : G[k] = T
  OBVIOUS
<1> HIDE DEF T, m
<1>5. \A k \in 1..m : \A x \in G[k - 1] : x \in T /\ g[k][x] = RedoRecord(x, log[k]) /\ g[k][x] \in G[k]
  <2>1. ASSUME NEW k \in 1..m, NEW x \in G[k - 1]
        PROVE  x \in T /\ g[k][x] = RedoRecord(x, log[k]) /\ g[k][x] \in G[k]
    <3>1. k - 1 \in 0..m /\ k \in 0..m
      BY <1>1
    <3>2. x \in T
      BY <1>4, <3>1
    <3>3. g[k][x] = RedoRecord(x, log[k])
      BY <3>2
    <3> HIDE DEF g, G
    <3> QED BY <1>3, <1>4, <3>1, <3>2, <3>3
  <2> QED BY <2>1
<1> HIDE DEF g, G
<1>6. PICK f \in [0..m -> T] : Recurs(f, m, s, g) /\ \A k \in 0..m : f[k] \in G[k]
  <2>1. s \in G[0] /\ \A k \in 0..m : G[k] \subseteq T
    BY <1>1, <1>2, <1>4
  <2> QED BY <1>1, <1>5, <2>1, RecursionStays
<1>7. Is(f)
  <2>1. ASSUME NEW n \in 0..m PROVE f[n] = IF n = 0 THEN s ELSE RedoRecord(f[n - 1], log[n])
    <3>1. CASE n = 0
      BY <1>6, <3>1 DEF Recurs
    <3>2. CASE n # 0
      <4>1. n \in 1..m /\ n - 1 \in 0..m
        BY <1>1, <3>2
      <4> QED BY <1>5, <1>6, <3>2, <4>1 DEF Recurs
    <3> QED BY <3>1, <3>2
  <2> QED BY <1>6, <2>1
<1>8. PICK h : h = (CHOOSE e : Is(e)) /\ Is(h)
  <2> HIDE DEF Is
  <2> QED BY <1>7
<1>9. \A i \in DOMAIN log : ~ PagesRaise(s, log[i])
  <2> SUFFICES ASSUME NEW i \in DOMAIN log PROVE ~ PagesRaise(s, log[i])
    OBVIOUS
  <2>1. i \in 1..m /\ log[i] \in LogRecord
    BY LenProperties DEF m
  <2>2. log[i].op \in {"ddl_create_table", "table_insert"} /\ log[i].table \in Table /\ log[i].table \in s.tabs
    <3>1. log[i].table \in s.tabs
      BY <2>1 DEF LogOK, m
    <3> QED BY <2>1, <3>1, RecordIs
  <2>3. s.dat[log[i].table] # NoFile
    BY <2>2 DEF Sound
  <2> QED BY <2>2, <2>3 DEF PagesRaise
<1>10. q = h[m]
  BY <1>8, <1>9 DEF Recovered, m
<1> DEFINE S == {k \in 0..m : h[k] = f[k]}
<1>11. 0 \in S
  <2>1. 0 \in 0..m
    BY <1>1
  <2>2. h[0] = s
    BY <1>8, <2>1
  <2>3. f[0] = s
    BY <1>7, <2>1
  <2> QED BY <2>1, <2>2, <2>3
<1>12. ASSUME NEW k \in 1..m, k - 1 \in S PROVE k \in S
  <2>1. k \in 0..m /\ k # 0
    BY <1>1
  <2>2. h[k] = RedoRecord(h[k - 1], log[k]) /\ f[k] = RedoRecord(f[k - 1], log[k])
    BY <1>7, <1>8, <2>1
  <2> QED BY <1>12, <2>1, <2>2
<1>13. m \in S
  <2> HIDE DEF S
  <2>1. 0..m \subseteq S
    BY <1>1, <1>11, <1>12, BoundedInduction
  <2> QED BY <1>1, <2>1
<1>14. q \in T
  BY <1>6, <1>10, <1>13
<1> QED BY <1>14 DEF T, m

-----------------------------------------------------------------------------
(* The log grows and shrinks.                                              *)

\* A log with a record more.
LEMMA AppendedIs ==
  ASSUME NEW lg \in Seq(LogRecord), NEW r \in LogRecord, NEW q, q = Append(lg, r)
  PROVE  /\ q \in Seq(LogRecord) /\ Len(q) = Len(lg) + 1 /\ q[Len(lg) + 1] = r
         /\ \A i \in 1..Len(lg) : q[i] = lg[i]
  BY AppendProperties, LenProperties

\* A record whose table is there, with its row, and that is new to the log can be undone
\* and redone after the others.
LEMMA LogGrows ==
  ASSUME NEW s, NEW lg \in Seq(LogRecord), LogOK(s, lg, Len(lg)), NEW r \in LogRecord, NEW q, q = Append(lg, r),
         r.table \in s.tabs, r.op = "table_insert" => r.what \in s.dat[r.table],
         \A i \in 1..Len(lg) : lg[i].table = r.table => /\ r.op = "table_insert"
                                                        /\ lg[i].op = "table_insert" => lg[i].what # r.what
  PROVE  LogOK(s, q, Len(q))
<1> DEFINE n == Len(lg)
<1>1. n \in Nat /\ Len(q) = n + 1 /\ q[n + 1] = r /\ \A i \in 1..n : q[i] = lg[i]
  BY LenProperties, AppendedIs
<1> HIDE DEF n
<1>2. LogOK(s, lg, n)
  BY DEF n
<1>3. ASSUME NEW i \in 1..(n + 1)
      PROVE  q[i].table \in s.tabs /\ (q[i].op = "table_insert" => q[i].what \in s.dat[q[i].table])
  <2>1. CASE i = n + 1
    BY <1>1, <2>1
  <2>2. CASE i # n + 1
    <3>1. i \in 1..n /\ q[i] = lg[i]
      BY <1>1, <2>2
    <3> QED BY <1>2, <3>1 DEF LogOK
  <2> QED BY <2>1, <2>2
<1>4. ASSUME NEW j \in 1..(n + 1), NEW i \in 1..(j - 1), q[i].table = q[j].table
      PROVE  q[j].op = "table_insert" /\ (q[i].op = "table_insert" => q[i].what # q[j].what)
  <2>1. i \in 1..n /\ q[i] = lg[i]
    BY <1>1
  <2>2. CASE j = n + 1
    <3>1. i \in 1..Len(lg) /\ lg[i].table = r.table /\ q[j] = r
      BY <1>1, <1>4, <2>1, <2>2 DEF n
    <3> QED BY <2>1, <3>1
  <2>3. CASE j # n + 1
    <3>1. j \in 1..n /\ q[j] = lg[j]
      BY <1>1, <2>3
    <3> QED BY <1>2, <1>4, <2>1, <3>1 DEF LogOK
  <2> QED BY <2>2, <2>3
<1> QED BY <1>1, <1>3, <1>4 DEF LogOK

\* A log that is cut off.
LEMMA CutIs ==
  ASSUME NEW lg \in Seq(LogRecord), NEW n \in 0..Len(lg)
  PROVE  /\ SubSeq(lg, 1, n) \in Seq(LogRecord) /\ Len(SubSeq(lg, 1, n)) = n
         /\ \A i \in 1..n : SubSeq(lg, 1, n)[i] = lg[i]
  BY LenProperties, SubSeqProperties

\* No transaction, or one without records, has created a table.
LEMMA NoNewTables ==
  ASSUME NEW lg, NEW n \in Nat
  PROVE  NewTables(lg, 0, n) = {} /\ NewTables(lg, n + 1, n) = {}
  BY DEF NewTables

\* A record that is added creates one table, or none.
LEMMA NewTablesAppend ==
  ASSUME NEW lg \in Seq(LogRecord), NEW c \in 1..(Len(lg) + 1), NEW r \in LogRecord, NEW q, q = Append(lg, r)
  PROVE  NewTables(q, c, Len(q)) = NewTables(lg, c, Len(lg)) \cup Creates(r)
<1> DEFINE n == Len(lg)
<1>1. n \in Nat /\ Len(q) = n + 1 /\ q[n + 1] = r /\ \A i \in 1..n : q[i] = lg[i]
  BY LenProperties, AppendedIs
<1>2. NewTables(q, c, n + 1) = NewTables(q, c, n) \cup Creates(q[n + 1])
  <2>1. n + 1 \in Nat /\ c \in Nat \ {0} /\ n + 1 >= c /\ (n + 1) - 1 = n
    BY <1>1
  <2>2. PICK k : k = n + 1
    OBVIOUS
  <2>3. NewTables(q, c, k) = NewTables(q, c, k - 1) \cup Creates(q[k])
    BY <2>1, <2>2, NewTablesGrow
  <2> QED BY <2>1, <2>2, <2>3
<1>3. NewTables(q, c, n) = NewTables(lg, c, n)
  BY <1>1 DEF NewTables
<1> QED BY <1>1, <1>2, <1>3

-----------------------------------------------------------------------------
(* The steps.                                                              *)

\* What the invariant says of the state and its fields.
LEMMA InvariantIs ==
  ASSUME IInv, NEW s, s = State
  PROVE  /\ Sound(s) /\ s.tabs = sys_tables /\ s.idxs = sys_indexes /\ s.dat = dat /\ s.idx = idx
         /\ s.open = tables /\ s.att = attached /\ s.dict = open_indexes /\ s.ok = TRUE
         /\ log \in Seq(LogRecord) /\ LogOK(s, log, Len(log)) /\ current \in 0..(Len(log) + 1) /\ Len(log) \in Nat
         /\ promised \cap NewTables(log, current, Len(log)) = {}
         /\ s.tabs = promised \cup NewTables(log, current, Len(log))
<1>1. /\ s.tabs = sys_tables /\ s.idxs = sys_indexes /\ s.dat = dat /\ s.idx = idx
      /\ s.open = tables /\ s.att = attached /\ s.dict = open_indexes /\ s.ok = TRUE
  BY DEF State
<1>2. /\ Sound(s) /\ LogOK(s, log, Len(log))
      /\ log \in Seq(LogRecord) /\ current \in 0..(Len(log) + 1)
      /\ promised \cap NewTables(log, current, Len(log)) = {}
      /\ sys_tables = promised \cup NewTables(log, current, Len(log))
  BY DEF IInv
<1> QED BY <1>1, <1>2, LenProperties

\* What a step has to show.
LEMMA InvariantKept ==
  ASSUME NEW q, Become(q), Sound(q),
         log' \in Seq(LogRecord), LogOK(q, log', Len(log')), current' \in 0..(Len(log') + 1),
         promised' \cap NewTables(log', current', Len(log')) = {},
         q.tabs = promised' \cup NewTables(log', current', Len(log'))
  PROVE  IInv'
<1>1. /\ q = [tabs |-> q.tabs, idxs |-> q.idxs, dat |-> q.dat, idx |-> q.idx, open |-> q.open,
              att |-> q.att, dict |-> q.dict, ok |-> q.ok]
      /\ q.ok = TRUE
  BY StateIs DEF Sound
<1>2. State' = q /\ raised' = FALSE /\ sys_tables' = q.tabs
  BY <1>1 DEF Become, State
<1> QED BY <1>2 DEF IInv

\* A step that leaves the state as it is.
LEMMA StateKept ==
  ASSUME IInv, NEW s, s = State,
         UNCHANGED <<sys_tables, sys_indexes, dat, idx, tables, attached, open_indexes, raised>>
  PROVE  Become(s)
<1>1. raised = FALSE
  BY DEF IInv
<1> QED BY <1>1 DEF Become, State

\* A statement that is not logged, and after which the tables and rows that the log has
\* are there, keeps the invariant when no table comes or goes.
LEMMA NotLoggedKeeps ==
  ASSUME IInv, NEW s, s = State, NEW q, Sound(q), LogOK(q, log, Len(log)), q.tabs = s.tabs, Become(q),
         UNCHANGED <<log, current, promised>>
  PROVE  IInv'
<1>1. /\ log \in Seq(LogRecord) /\ current \in 0..(Len(log) + 1)
      /\ promised \cap NewTables(log, current, Len(log)) = {}
      /\ s.tabs = promised \cup NewTables(log, current, Len(log))
  BY InvariantIs
<1>2. log' = log /\ current' = current /\ promised' = promised
  OBVIOUS
<1>3. /\ log' \in Seq(LogRecord) /\ LogOK(q, log', Len(log')) /\ current' \in 0..(Len(log') + 1)
      /\ promised' \cap NewTables(log', current', Len(log')) = {}
      /\ q.tabs = promised' \cup NewTables(log', current', Len(log'))
  BY <1>1, <1>2
<1> QED BY <1>3, InvariantKept

\* CREATE TABLE: the table is promised at once, or one that the transaction created.
LEMMA CreateTableKeeps ==
  ASSUME Admitted = {}, IInv, NEW t \in Table, CreateTable(t)
  PROVE  IInv'
<1>1. PICK s : s = State
  OBVIOUS
<1>2. /\ Sound(s) /\ s.tabs = sys_tables
      /\ log \in Seq(LogRecord) /\ LogOK(s, log, Len(log)) /\ current \in 0..(Len(log) + 1) /\ Len(log) \in Nat
      /\ promised \cap NewTables(log, current, Len(log)) = {}
      /\ s.tabs = promised \cup NewTables(log, current, Len(log))
  BY <1>1, InvariantIs
<1>3. PICK q : q = Created(s, t)
  OBVIOUS
<1>4. t \notin s.tabs /\ Become(q) /\ current' = current
  BY <1>1, <1>2, <1>3 DEF CreateTable
<1>5. Sound(q) /\ q.tabs = s.tabs \cup {t} /\ \A u \in s.tabs : q.dat[u] = s.dat[u]
  BY <1>2, <1>3, <1>4, CreatedIs
<1>6. \A i \in 1..Len(log) : log[i].table \in s.tabs
  BY <1>2 DEF LogOK
<1>7. LogOK(q, log, Len(log))
  BY <1>2, <1>5, <1>6, LogKept
<1>8. CASE current = 0
  <2>1. log' = log /\ promised' = promised \cup {t} /\ current' = 0
    BY <1>2, <1>4, <1>8 DEF CreateTable, Logged
  <2>2. NewTables(log, current, Len(log)) = {} /\ NewTables(log', current', Len(log')) = {}
    BY <1>2, <1>8, <2>1, NoNewTables
  <2>3. /\ log' \in Seq(LogRecord) /\ LogOK(q, log', Len(log')) /\ current' \in 0..(Len(log') + 1)
        /\ promised' \cap NewTables(log', current', Len(log')) = {}
        /\ q.tabs = promised' \cup NewTables(log', current', Len(log'))
    BY <1>2, <1>5, <1>7, <2>1, <2>2
  <2> QED BY <1>4, <1>5, <2>3, InvariantKept
<1>9. CASE current # 0
  <2>1. PICK r, lg : r = Record("ddl_create_table", t, t) /\ lg = Append(log, r)
    OBVIOUS
  <2>2. r \in LogRecord /\ r.op = "ddl_create_table" /\ r.table = t
    BY <2>1 DEF LogRecord, Record
  <2>3. log' = lg /\ promised' = promised
    <3>1. log' = log \o <<r>> /\ promised' = promised
      BY <1>2, <1>4, <1>9, <2>1 DEF CreateTable, Logged
    <3> QED BY <1>2, <2>1, <2>2, <3>1, AppendIsConcat
  <2>4. lg \in Seq(LogRecord) /\ Len(lg) = Len(log) + 1
    BY <1>2, <2>1, <2>2, AppendedIs
  <2>5. LogOK(q, lg, Len(lg))
    <3>1. r.table \in q.tabs
      BY <1>5, <2>2
    <3>2. \A i \in 1..Len(log) : log[i].table # r.table
      BY <1>4, <1>6, <2>2
    <3> QED BY <1>2, <1>7, <2>1, <2>2, <3>1, <3>2, LogGrows
  <2>6. NewTables(lg, current, Len(lg)) = NewTables(log, current, Len(log)) \cup {t}
    <3>1. current \in 1..(Len(log) + 1)
      BY <1>2, <1>9
    <3>2. NewTables(lg, current, Len(lg)) = NewTables(log, current, Len(log)) \cup Creates(r)
      <4>1. PICK before, c : before = log /\ c = current
        OBVIOUS
      <4>2. before \in Seq(LogRecord) /\ c \in 1..(Len(before) + 1) /\ r \in LogRecord /\ lg = Append(before, r)
        BY <1>2, <2>1, <2>2, <3>1, <4>1
      <4>3. NewTables(lg, c, Len(lg)) = NewTables(before, c, Len(before)) \cup Creates(r)
        BY ONLY <4>2, NewTablesAppend
      <4> QED BY <4>1, <4>3
    <3> QED BY <2>2, <3>2 DEF Creates
  <2>7. /\ log' \in Seq(LogRecord) /\ LogOK(q, log', Len(log')) /\ current' \in 0..(Len(log') + 1)
        /\ promised' \cap NewTables(log', current', Len(log')) = {}
        /\ q.tabs = promised' \cup NewTables(log', current', Len(log'))
    BY <1>2, <1>4, <1>5, <2>3, <2>4, <2>5, <2>6
  <2> QED BY <1>4, <1>5, <2>7, InvariantKept
<1> QED BY <1>8, <1>9

\* DROP TABLE of a table that the log does not have.
LEMMA DropTableKeeps ==
  ASSUME Admitted = {}, IInv, NEW t \in Table, DropTable(t)
  PROVE  IInv'
<1>1. PICK s : s = State
  OBVIOUS
<1>2. /\ Sound(s) /\ s.tabs = sys_tables
      /\ log \in Seq(LogRecord) /\ LogOK(s, log, Len(log)) /\ current \in 0..(Len(log) + 1) /\ Len(log) \in Nat
      /\ promised \cap NewTables(log, current, Len(log)) = {}
      /\ s.tabs = promised \cup NewTables(log, current, Len(log))
  BY <1>1, InvariantIs
<1>3. PICK q : q = Dropped(s, t)
  OBVIOUS
<1>4. /\ t \in s.tabs /\ Become(q) /\ promised' = promised \ {t} /\ log' = log /\ current' = current
      /\ \A i \in DOMAIN log : log[i].table # t
  BY <1>1, <1>2, <1>3 DEF DropTable
<1>5. Sound(q) /\ q.tabs = s.tabs \ {t} /\ \A u \in q.tabs : q.dat[u] = s.dat[u]
  BY <1>2, <1>3, <1>4, DroppedIs
<1>6. \A i \in 1..Len(log) : log[i].table \in q.tabs /\ log[i].table # t
  <2>1. DOMAIN log = 1..Len(log)
    BY <1>2, LenProperties
  <2> QED BY <1>2, <1>4, <1>5, <2>1 DEF LogOK
<1>7. LogOK(q, log, Len(log))
  BY <1>2, <1>5, <1>6, LogKept
<1>8. t \notin NewTables(log, current, Len(log))
  <2> SUFFICES ASSUME NEW i \in current..Len(log), current # 0, log[i].table = t
               PROVE  FALSE
    BY DEF NewTables
  <2>1. i \in 1..Len(log)
    BY <1>2
  <2> QED BY <1>6, <2>1
<1>9. /\ log' \in Seq(LogRecord) /\ LogOK(q, log', Len(log')) /\ current' \in 0..(Len(log') + 1)
      /\ promised' \cap NewTables(log', current', Len(log')) = {}
      /\ q.tabs = promised' \cup NewTables(log', current', Len(log'))
  BY <1>2, <1>4, <1>5, <1>7, <1>8
<1> QED BY <1>4, <1>5, <1>9, InvariantKept

\* CREATE INDEX outside of a transaction, where nothing older is in the way.
LEMMA CreateIndexKeeps ==
  ASSUME Admitted = {}, IInv, NEW i \in Index, CreateIndex(i)
  PROVE  IInv'
<1>1. PICK s, t : s = State /\ t = i.table
  OBVIOUS
<1>2. /\ Sound(s) /\ s.tabs = sys_tables /\ s.idxs = sys_indexes /\ s.idx = idx
      /\ log \in Seq(LogRecord) /\ LogOK(s, log, Len(log)) /\ current \in 0..(Len(log) + 1) /\ Len(log) \in Nat
  BY <1>1, InvariantIs
<1>3. PICK p : p = Opened(s, t)
  OBVIOUS
<1>4. PICK q : q = Built(p, i)
  OBVIOUS
<1>5. /\ t \in s.tabs /\ current = 0 /\ ~ InTheWay(p, i)
      /\ log' = log /\ current' = current /\ promised' = promised
      /\ \E mixed \in SUBSET {j \in {i} : InTheWay(p, j) /\ j.kind = "hash"} : Become(Damaged(q, mixed))
  BY <1>1, <1>2, <1>3, <1>4 DEF CreateIndex, Logged
<1>6. Become(q)
  <2>1. PICK mixed \in SUBSET {j \in {i} : InTheWay(p, j) /\ j.kind = "hash"} : Become(Damaged(q, mixed))
    BY <1>5
  <2>2. mixed = {}
    BY <1>5, <2>1
  <2>3. Damaged(q, mixed) = q
    BY <2>2 DEF Damaged
  <2> QED BY <2>1, <2>3
<1>7. /\ Sound(p) /\ p.tabs = s.tabs /\ p.dat = s.dat
      /\ i.table \in p.open /\ (i.kind = "unclustered" => p.idx[i] = NoFile)
  <2>1. Sound(p) /\ p.open = s.open \cup {t} /\ p.tabs = s.tabs /\ p.dat = s.dat
    BY <1>2, <1>3, <1>5, OpenedIs
  <2> QED BY <1>1, <1>5, <2>1 DEF InTheWay
<1>8. Sound(q) /\ q.tabs = p.tabs /\ q.dat = p.dat
  BY <1>4, <1>7, BuiltIs
<1>9. LogOK(q, log, Len(log))
  BY <1>2, <1>7, <1>8 DEF LogOK
<1> QED BY <1>1, <1>5, <1>6, <1>7, <1>8, <1>9, NotLoggedKeeps

\* An insert: the row is new to its table, hence to the log.
LEMMA InsertKeeps ==
  ASSUME Admitted = {}, IInv, NEW t \in Table, NEW r \in Tuple, Insert(t, r)
  PROVE  IInv'
<1>1. PICK s : s = State
  OBVIOUS
<1>2. /\ Sound(s) /\ s.tabs = sys_tables
      /\ log \in Seq(LogRecord) /\ LogOK(s, log, Len(log)) /\ current \in 0..(Len(log) + 1) /\ Len(log) \in Nat
      /\ promised \cap NewTables(log, current, Len(log)) = {}
      /\ s.tabs = promised \cup NewTables(log, current, Len(log))
  BY <1>1, InvariantIs
<1>3. PICK p : p = Opened(s, t)
  OBVIOUS
<1>4. PICK q : q = RowInserted(p, t, r)
  OBVIOUS
<1>5. t \in s.tabs /\ r \notin p.dat[t] /\ Become(q) /\ current' = current /\ promised' = promised
  BY <1>1, <1>2, <1>3, <1>4 DEF Insert
<1>6. Sound(p) /\ t \in p.open /\ p.tabs = s.tabs /\ p.dat = s.dat
  BY <1>2, <1>3, <1>5, OpenedIs
<1>7. Sound(q) /\ q.tabs = p.tabs /\ RowsBut(p, q, t, p.dat[t] \cup {r})
  BY <1>4, <1>6, RowInsertedIs
<1>8. q.tabs = s.tabs /\ r \notin s.dat[t] /\ r \in q.dat[t] /\ \A u \in s.tabs : s.dat[u] \subseteq q.dat[u]
  BY <1>5, <1>6, <1>7 DEF RowsBut
<1>9. \A i \in 1..Len(log) : /\ log[i].table \in s.tabs
                             /\ log[i].op = "table_insert" => log[i].what \in s.dat[log[i].table]
  BY <1>2 DEF LogOK
<1>10. LogOK(q, log, Len(log))
  BY <1>2, <1>8, <1>9, LogKept
<1>11. CASE current = 0
  <2>1. log' = log
    BY <1>11 DEF Insert, Logged
  <2> QED BY <1>1, <1>5, <1>7, <1>8, <1>10, <2>1, NotLoggedKeeps
<1>12. CASE current # 0
  <2>1. PICK e, lg : e = Record("table_insert", t, r) /\ lg = Append(log, e)
    OBVIOUS
  <2>2. e \in LogRecord /\ e.op = "table_insert" /\ e.table = t /\ e.what = r
    BY <2>1 DEF LogRecord, Record
  <2>3. log' = lg
    <3>1. log' = log \o Append(<<>>, e)
      BY <1>12, <2>1 DEF Insert, Logged, Openable
    <3>2. Append(<<>>, e) = <<e>>
      OBVIOUS
    <3> QED BY <1>2, <2>1, <2>2, <3>1, <3>2, AppendIsConcat
  <2>4. lg \in Seq(LogRecord) /\ Len(lg) = Len(log) + 1
    BY <1>2, <2>1, <2>2, AppendedIs
  <2>5. LogOK(q, lg, Len(lg))
    <3>1. e.table \in q.tabs /\ e.what \in q.dat[e.table]
      BY <1>5, <1>8, <2>2
    <3>2. \A i \in 1..Len(log) : log[i].table = e.table =>
            e.op = "table_insert" /\ (log[i].op = "table_insert" => log[i].what # e.what)
      BY <1>8, <1>9, <2>2
    <3> QED BY <1>2, <1>10, <2>1, <2>2, <3>1, <3>2, LogGrows
  <2>6. NewTables(lg, current, Len(lg)) = NewTables(log, current, Len(log))
    <3>1. PICK before, c : before = log /\ c = current
      OBVIOUS
    <3>2. before \in Seq(LogRecord) /\ c \in 1..(Len(before) + 1) /\ e \in LogRecord /\ lg = Append(before, e)
      BY <1>2, <1>12, <2>1, <2>2, <3>1
    <3>3. NewTables(lg, c, Len(lg)) = NewTables(before, c, Len(before)) \cup Creates(e)
      BY ONLY <3>2, NewTablesAppend
    <3> QED BY <2>2, <3>1, <3>3 DEF Creates
  <2>7. /\ log' \in Seq(LogRecord) /\ LogOK(q, log', Len(log')) /\ current' \in 0..(Len(log') + 1)
        /\ promised' \cap NewTables(log', current', Len(log')) = {}
        /\ q.tabs = promised' \cup NewTables(log', current', Len(log'))
    BY <1>2, <1>5, <1>8, <2>3, <2>4, <2>5, <2>6
  <2> QED BY <1>5, <1>7, <2>7, InvariantKept
<1> QED BY <1>11, <1>12

\* A delete of a row that the log does not have.
LEMMA DeleteKeeps ==
  ASSUME IInv, NEW t \in Table, NEW r \in Tuple, Delete(t, r)
  PROVE  IInv'
<1>1. PICK s : s = State
  OBVIOUS
<1>2. /\ Sound(s) /\ s.tabs = sys_tables /\ log \in Seq(LogRecord) /\ LogOK(s, log, Len(log)) /\ Len(log) \in Nat
  BY <1>1, InvariantIs
<1>3. PICK p : p = Opened(s, t)
  OBVIOUS
<1>4. PICK q : q = RowDeleted(p, t, r)
  OBVIOUS
<1>5. /\ t \in s.tabs /\ r \in p.dat[t] /\ Become(q)
      /\ log' = log /\ current' = current /\ promised' = promised
      /\ ~ \E i \in DOMAIN log : log[i].op = "table_insert" /\ log[i].table = t /\ log[i].what = r
  BY <1>1, <1>2, <1>3, <1>4 DEF Delete
<1>6. Sound(p) /\ t \in p.open /\ p.tabs = s.tabs /\ p.dat = s.dat
  BY <1>2, <1>3, <1>5, OpenedIs
<1>7. Sound(q) /\ q.tabs = p.tabs /\ RowsBut(p, q, t, p.dat[t] \ {r})
  BY <1>4, <1>5, <1>6, RowDeletedIs
<1>8. ASSUME NEW i \in 1..Len(log)
      PROVE  /\ log[i].table \in q.tabs
             /\ log[i].op = "table_insert" => log[i].what \in q.dat[log[i].table]
  <2>1. log[i].table \in s.tabs /\ (log[i].op = "table_insert" => log[i].what \in s.dat[log[i].table])
    BY <1>2 DEF LogOK
  <2>2. i \in DOMAIN log
    BY <1>2, LenProperties
  <2> QED BY <1>5, <1>6, <1>7, <2>1, <2>2 DEF RowsBut
<1>9. LogOK(q, log, Len(log))
  BY <1>2, <1>8 DEF LogOK
<1> QED BY <1>1, <1>5, <1>6, <1>7, <1>9, NotLoggedKeeps

\* A table is opened.
LEMMA UseKeeps ==
  ASSUME Admitted = {}, IInv, NEW t \in Table, Use(t)
  PROVE  IInv'
<1>1. PICK s : s = State
  OBVIOUS
<1>2. Sound(s) /\ s.tabs = sys_tables /\ log \in Seq(LogRecord) /\ LogOK(s, log, Len(log))
  BY <1>1, InvariantIs
<1>3. PICK q : q = Opened(s, t)
  OBVIOUS
<1>4. t \in s.tabs /\ Become(q) /\ log' = log /\ current' = current /\ promised' = promised
  <2>1. /\ t \in s.tabs /\ Become(q) /\ current' = current /\ promised' = promised
        /\ log' = log \/ log' = log \o <<>>
    BY <1>1, <1>2, <1>3 DEF Use, Openable, Logged
  <2> QED BY <1>2, <2>1, ConcatEmptySeq
<1>5. Sound(q) /\ q.tabs = s.tabs /\ q.dat = s.dat
  BY <1>2, <1>3, <1>4, OpenedIs
<1>6. LogOK(q, log, Len(log))
  BY <1>2, <1>5 DEF LogOK
<1> QED BY <1>1, <1>4, <1>5, <1>6, NotLoggedKeeps

\* BEGIN: a transaction that has no record has created no table.
LEMMA BeginKeeps ==
  ASSUME IInv, Begin
  PROVE  IInv'
<1>1. PICK s : s = State
  OBVIOUS
<1>2. /\ Sound(s) /\ log \in Seq(LogRecord) /\ LogOK(s, log, Len(log)) /\ Len(log) \in Nat
      /\ promised \cap NewTables(log, current, Len(log)) = {}
      /\ s.tabs = promised \cup NewTables(log, current, Len(log))
  BY <1>1, InvariantIs
<1>3. Become(s)
  BY <1>1, StateKept DEF Begin
<1>4. current = 0 /\ current' = Len(log) + 1 /\ log' = log /\ promised' = promised
  BY DEF Begin
<1>5. NewTables(log, current, Len(log)) = {} /\ NewTables(log', current', Len(log')) = {}
  BY <1>2, <1>4, NoNewTables
<1>6. /\ log' \in Seq(LogRecord) /\ LogOK(s, log', Len(log')) /\ current' \in 0..(Len(log') + 1)
      /\ promised' \cap NewTables(log', current', Len(log')) = {}
      /\ s.tabs = promised' \cup NewTables(log', current', Len(log'))
  BY <1>2, <1>4, <1>5
<1> QED BY <1>2, <1>3, <1>6, InvariantKept

\* COMMIT: the tables that the transaction created are promised.
LEMMA CommitKeeps ==
  ASSUME IInv, Commit
  PROVE  IInv'
<1>1. PICK s : s = State
  OBVIOUS
<1>2. /\ Sound(s) /\ log \in Seq(LogRecord) /\ LogOK(s, log, Len(log)) /\ Len(log) \in Nat
      /\ s.tabs = promised \cup NewTables(log, current, Len(log))
  BY <1>1, InvariantIs
<1>3. Become(s)
  BY <1>1, StateKept DEF Commit
<1>4. /\ current # 0 /\ current' = 0 /\ log' = log
      /\ promised' = promised \cup {log[i].table : i \in {j \in current..Len(log) : log[j].op = "ddl_create_table"}}
  BY DEF Commit
<1>5. promised' = promised \cup NewTables(log, current, Len(log))
  BY <1>4 DEF NewTables
<1>6. NewTables(log', current', Len(log')) = {}
  BY <1>2, <1>4, NoNewTables
<1>7. /\ log' \in Seq(LogRecord) /\ LogOK(s, log', Len(log')) /\ current' \in 0..(Len(log') + 1)
      /\ promised' \cap NewTables(log', current', Len(log')) = {}
      /\ s.tabs = promised' \cup NewTables(log', current', Len(log'))
  BY <1>2, <1>4, <1>5, <1>6
<1> QED BY <1>2, <1>3, <1>7, InvariantKept

\* ROLLBACK: the tables are the promised ones, and the log is that of the others.
LEMMA RollbackKeeps ==
  ASSUME Admitted = {}, IInv, Rollback
  PROVE  IInv'
<1>1. PICK s, q, old, lg : s = State /\ q = Undone(s, log) /\ old = promised /\ lg = SubSeq(log, 1, current - 1)
  OBVIOUS
<1>2. /\ Sound(s) /\ log \in Seq(LogRecord) /\ LogOK(s, log, Len(log)) /\ Len(log) \in Nat
      /\ current \in 0..(Len(log) + 1)
      /\ old \cap NewTables(log, current, Len(log)) = {}
      /\ s.tabs = old \cup NewTables(log, current, Len(log))
  BY <1>1, InvariantIs
<1>3. current # 0 /\ current' = 0 /\ log' = lg /\ promised' = old /\ Become(q)
  <2>1. /\ current # 0 /\ current' = 0 /\ log' = lg /\ promised' = old
        /\ \E gone \in Gone(s, log, current) : Become(Restored(q, gone))
    BY <1>1 DEF Rollback, RolledBack
  <2>2. Become(Restored(q, {}))
    BY <2>1 DEF Gone
  <2>3. Restored(q, {}) = q
    BY DEF Restored, Damaged
  <2> QED BY <2>1, <2>2, <2>3
<1>4. current \in 1..(Len(log) + 1) /\ current - 1 \in 0..Len(log)
  BY <1>2, <1>3
<1>5. Sound(q) /\ LogOK(q, log, current - 1) /\ q.tabs = old
  BY <1>1, <1>2, <1>4, UndoneIs
<1>6. lg \in Seq(LogRecord) /\ LogOK(q, lg, Len(lg)) /\ Len(lg) \in Nat
  <2>1. PICK n : n = current - 1
    OBVIOUS
  <2>2. n \in 0..Len(log) /\ lg = SubSeq(log, 1, n)
    BY <1>1, <1>4, <2>1
  <2>3. lg \in Seq(LogRecord) /\ Len(lg) = n /\ \A i \in 1..n : lg[i] = log[i]
    BY <1>2, <2>2, CutIs
  <2>4. LogOK(q, log, n) /\ n \in Nat
    BY <1>4, <1>5, <2>1
  <2>5. LogOK(q, lg, n)
    BY <2>3, <2>4 DEF LogOK
  <2> QED BY <2>3, <2>4, <2>5
<1>7. NewTables(log', current', Len(log')) = {}
  BY <1>3, <1>6, NoNewTables
<1>8. /\ log' \in Seq(LogRecord) /\ LogOK(q, log', Len(log')) /\ current' \in 0..(Len(log') + 1)
      /\ promised' \cap NewTables(log', current', Len(log')) = {}
      /\ q.tabs = promised' \cup NewTables(log', current', Len(log'))
  BY <1>3, <1>5, <1>6, <1>7
<1> QED BY <1>3, <1>5, <1>8, InvariantKept

\* When everything is closed, what is left is sound.
LEMMA ClosedIs ==
  ASSUME NEW s, Sound(s), NEW q, q = [s EXCEPT !.open = {}, !.att = [t \in Table |-> {}], !.dict = {}]
  PROVE  Sound(q) /\ q.tabs = s.tabs /\ q.dat = s.dat
<1>1. /\ s = [tabs |-> s.tabs, idxs |-> s.idxs, dat |-> s.dat, idx |-> s.idx, open |-> s.open,
              att |-> s.att, dict |-> s.dict, ok |-> s.ok]
      /\ s.tabs \subseteq Table /\ s.idxs \subseteq Index
      /\ s.dat \in [Table -> (SUBSET Tuple) \cup {NoFile}] /\ s.idx \in [Index -> [Tuple -> Nat] \cup {NoFile}]
      /\ s.ok = TRUE
  BY StateIs DEF Sound
<1>2. PICK none : none = [t \in Table |-> {}]
  OBVIOUS
<1>3. q = [tabs |-> s.tabs, idxs |-> s.idxs, dat |-> s.dat, idx |-> s.idx, open |-> {},
           att |-> none, dict |-> {}, ok |-> s.ok]
  BY ONLY <1>1, <1>2, q = [s EXCEPT !.open = {}, !.att = [t \in Table |-> {}], !.dict = {}]
<1>4. none \in [Table -> SUBSET [index : Index, alive : BOOLEAN]] /\ \A t \in Table : none[t] = {}
  BY <1>2
<1>5. /\ q = [tabs |-> q.tabs, idxs |-> q.idxs, dat |-> q.dat, idx |-> q.idx, open |-> q.open,
              att |-> q.att, dict |-> q.dict, ok |-> q.ok]
      /\ q.tabs = s.tabs /\ q.idxs = s.idxs /\ q.dat = s.dat /\ q.idx = s.idx /\ q.open = {}
      /\ q.att = none /\ q.dict = {} /\ q.ok = TRUE
  BY ONLY <1>1, <1>3
<1>6. q \in StateSet
  BY <1>1, <1>4, <1>5 DEF StateSet
<1>7. ASSUME NEW i \in q.idxs
      PROVE  i.table \in q.tabs /\ q.idx[i] = Once(q.dat[i.table]) /\ (i \in q.dict <=> i.table \in q.open)
  BY <1>5 DEF Sound
<1>8. /\ q.open \subseteq q.tabs
      /\ \A t \in Table : q.dat[t] # NoFile <=> t \in q.tabs
      /\ \A t \in Table : q.att[t] = IF t \in q.open THEN Objects(q.idxs, t) ELSE {}
  BY <1>4, <1>5 DEF Sound
<1> QED BY <1>5, <1>6, <1>7, <1>8 DEF Sound

\* Closing and starting again: no table more or less.
LEMMA RestartKeeps ==
  ASSUME Admitted = {}, IInv, Restart
  PROVE  IInv'
<1>1. PICK s : s = State
  OBVIOUS
<1>2. Sound(s) /\ log \in Seq(LogRecord) /\ LogOK(s, log, Len(log))
  BY <1>1, InvariantIs
<1>3. PICK p : p = [s EXCEPT !.open = {}, !.att = [t \in Table |-> {}], !.dict = {}]
  OBVIOUS
<1>4. PICK q : q = Recovered(p)
  OBVIOUS
<1>5. Become(q) /\ log' = log /\ current' = current /\ promised' = promised
  <2>1. /\ log' = log /\ current' = current /\ promised' = promised
        /\ \E gone \in Gone(s, log, 1) : Become(Recovered(Damaged(p, {f \in gone : f.kind = "bitmap"})))
    BY <1>1, <1>3 DEF Restart
  <2>2. Become(Recovered(Damaged(p, {f \in {} : f.kind = "bitmap"})))
    BY <2>1 DEF Gone
  <2>3. Damaged(p, {f \in {} : f.kind = "bitmap"}) = p
    BY DEF Damaged
  <2> QED BY <1>4, <2>1, <2>2, <2>3
<1>6. Sound(p) /\ p.tabs = s.tabs /\ p.dat = s.dat
  BY <1>2, <1>3, ClosedIs
<1>7. LogOK(p, log, Len(log))
  BY <1>2, <1>6 DEF LogOK
<1>8. Sound(q) /\ LogOK(q, log, Len(log)) /\ q.tabs = p.tabs
  BY <1>2, <1>4, <1>6, <1>7, RecoveredIs
<1> QED BY <1>1, <1>5, <1>6, <1>8, NotLoggedKeeps

-----------------------------------------------------------------------------
(* The theorems.                                                           *)

\* There are no tables at first.
LEMMA InitIInv ==
  ASSUME Init
  PROVE  IInv
<1>1. PICK s : s = State
  OBVIOUS
<1>2. s = [tabs |-> {}, idxs |-> {}, dat |-> [t \in Table |-> NoFile], idx |-> [i \in Index |-> NoFile],
           open |-> {}, att |-> [t \in Table |-> {}], dict |-> {}, ok |-> TRUE]
  BY <1>1 DEF Init, State
<1>3. s \in StateSet
  BY <1>2 DEF StateSet
<1>4. Sound(s)
  BY <1>2, <1>3 DEF Sound
<1>5. log = <<>> /\ Len(log) = 0 /\ log \in Seq(LogRecord) /\ current = 0
  BY DEF Init
<1>6. LogOK(s, log, 0)
  BY DEF LogOK
<1>7. NewTables(log, current, 0) = {}
  BY <1>5, NoNewTables
<1> QED BY <1>1, <1>4, <1>5, <1>6, <1>7 DEF IInv, Init

\* Every statement, the end of a transaction, closing and starting keep the invariant.
LEMMA NextIInv ==
  ASSUME Admitted = {}, IInv, [Next]_vars
  PROVE  IInv'
<1>1. CASE Begin
  BY <1>1, BeginKeeps
<1>2. CASE Commit
  BY <1>2, CommitKeeps
<1>3. CASE Rollback
  BY <1>3, RollbackKeeps
<1>4. CASE Restart
  BY <1>4, RestartKeeps
<1>5. ASSUME NEW t \in Table, CreateTable(t) \/ DropTable(t) \/ Use(t) PROVE IInv'
  BY <1>5, CreateTableKeeps, DropTableKeeps, UseKeeps
<1>6. ASSUME NEW i \in Index, CreateIndex(i) PROVE IInv'
  BY <1>6, CreateIndexKeeps
<1>7. ASSUME NEW t \in Table, NEW r \in Tuple, Insert(t, r) \/ Delete(t, r) PROVE IInv'
  BY <1>7, InsertKeeps, DeleteKeeps
<1>8. CASE UNCHANGED vars
  BY <1>8 DEF vars, IInv, State
<1> QED BY <1>1, <1>2, <1>3, <1>4, <1>5, <1>6, <1>7, <1>8 DEF Next

\* Outside of the named cases, the catalog, the files, the open tables, their indexes and
\* the log agree after every statement, rollback and start.
THEOREM Invariance ==
  ASSUME Admitted = {}
  PROVE  Spec => []IInv
<1>1. Init => IInv
  BY InitIInv
<1>2. IInv /\ [Next]_vars => IInv'
  BY NextIInv
<1> QED BY <1>1, <1>2, PTL DEF Spec

\* Outside of the named cases, the tables are those that committed transactions and single
\* statements created and nobody dropped, each with its file, and no statement, rollback
\* or start raises.
THEOREM TablesAreKept ==
  ASSUME Admitted = {}
  PROVE  Spec => []TablesAsPromised
<1>1. ASSUME IInv PROVE TablesAsPromised
  <2>1. PICK s : s = State
    OBVIOUS
  <2>2. /\ Sound(s) /\ s.tabs = sys_tables /\ s.idxs = sys_indexes /\ s.dat = dat /\ Len(log) \in Nat
        /\ s.tabs = promised \cup NewTables(log, current, Len(log))
    BY <1>1, <2>1, InvariantIs
  <2>3. current = 0 => sys_tables = promised
    BY <2>2, NoNewTables
  <2>4. raised = FALSE
    BY <1>1 DEF IInv
  <2> QED BY <2>2, <2>3, <2>4 DEF Sound, TablesAsPromised
<1> QED BY <1>1, Invariance, PTL

\* Outside of the named cases, an open table keeps up to date exactly the indexes of the
\* catalog, each open and with every row once.
THEOREM IndexesAreKept ==
  ASSUME Admitted = {}
  PROVE  Spec => []IndexesCurrent
<1>1. ASSUME IInv PROVE IndexesCurrent
  <2>1. PICK s : s = State
    OBVIOUS
  <2>2. /\ Sound(s) /\ s.tabs = sys_tables /\ s.idxs = sys_indexes /\ s.dat = dat /\ s.idx = idx
        /\ s.open = tables /\ s.att = attached /\ s.dict = open_indexes
    BY <1>1, <2>1, InvariantIs
  <2>3. ASSUME NEW t \in s.open, NEW o \in s.att[t]
        PROVE  o.alive = TRUE /\ o.index \in s.dict /\ s.idx[o.index] = Once(s.dat[t])
    <3>1. o.alive = TRUE /\ {x.index : x \in s.att[t]} = Of(t, s.idxs)
      BY <2>2, AttachedAre
    <3>2. o.index \in Of(t, s.idxs)
      BY <3>1
    <3>3. o.index \in s.idxs /\ o.index.table = t
      BY <3>2 DEF Of
    <3> QED BY <2>2, <3>1, <3>3 DEF Sound
  <2>4. \A t \in s.open : {o.index : o \in s.att[t]} = Of(t, s.idxs)
    BY <2>2, AttachedAre
  <2> QED BY <2>2, <2>3, <2>4 DEF IndexesCurrent
<1> QED BY <1>1, Invariance, PTL
=============================================================================
