---------------------------- MODULE BackendProofs ---------------------------
(***************************************************************************)
(* Theorems about Backend, for every set of connections and slots, every   *)
(* number of stats and of lines, and every choice of faults.               *)
(***************************************************************************)
EXTENDS Backend, FiniteSetTheorems, TLAPS

(* A finite set of numbers has a greatest one: a smallest set without one  *)
(* would lose an element and gain a greatest.                              *)
LEMMA GreatestExists ==
  ASSUME NEW S, S \subseteq Nat, IsFiniteSet(S), S # {}
  PROVE  \E x \in S : \A y \in S : x >= y
<1> DEFINE top(T) == \E x \in T : \A y \in T : x >= y
           bad == {T \in FiniteSubsetsOf(S) : T # {} /\ ~top(T)}
<1> SUFFICES ASSUME ~top(S) PROVE FALSE
  OBVIOUS
<1>1. S \in bad
  BY DEF FiniteSubsetsOf
<1>2. PICK T \in bad : \A U \in bad : <<U, T>> \notin StrictSubsetOrdering(S)
  <2>1. IsWellFoundedOn(StrictSubsetOrdering(S), FiniteSubsetsOf(S))
    BY FS_StrictSubsetOrderingWellFounded
  <2>2. bad \subseteq FiniteSubsetsOf(S) /\ bad # {}
    BY <1>1
  <2> HIDE DEF bad
  <2> QED BY <2>1, <2>2, WFMin
<1>3. T \subseteq S /\ IsFiniteSet(T) /\ T # {} /\ ~top(T)
  BY DEF FiniteSubsetsOf
<1>4. PICK x \in T : TRUE
  BY <1>3
<1> DEFINE U == T \ {x}
<1>5. IsFiniteSet(U) /\ U \subseteq S /\ U # T
  BY <1>3, <1>4, FS_RemoveElement
<1>6. <<U, T>> \in StrictSubsetOrdering(S)
  BY <1>3, <1>5 DEF StrictSubsetOrdering
<1>7. U = {} \/ top(U)
  BY <1>2, <1>5, <1>6 DEF FiniteSubsetsOf
<1>8. CASE U = {}
  <2>1. \A y \in T : x >= y
    BY <1>3, <1>8
  <2> QED BY <1>3, <2>1
<1>9. CASE top(U)
  <2>1. PICK z \in U : \A y \in U : z >= y
    BY <1>9
  <2>2. x \in Nat /\ z \in Nat /\ z \in T
    BY <1>3, <2>1
  <2>3. CASE x >= z
    <3>1. \A y \in T : x >= y
      BY <1>3, <2>1, <2>2, <2>3
    <3> QED BY <1>3, <3>1
  <2>4. CASE ~(x >= z)
    <3>1. \A y \in T : z >= y
      BY <1>3, <2>1, <2>2, <2>4
    <3> QED BY <1>3, <2>2, <3>1
  <2> QED BY <2>3, <2>4
<1> QED BY <1>7, <1>8, <1>9

(* A new row has a number above those in its table.                        *)
LEMMA NewIdIsNew ==
  ASSUME NEW rows, IsFiniteSet(rows), \A r \in rows : r.id \in Nat
  PROVE  /\ NewId(rows) \in Nat \ {0}
         /\ \A r \in rows : r.id < NewId(rows)
<1> DEFINE ids == {r.id : r \in rows}
           S == {0} \cup ids
<1>1. IsFiniteSet(ids)
  <2>1. [r \in rows |-> r.id] \in Surjection(rows, ids)
    BY DEF Surjection
  <2> HIDE DEF ids
  <2> QED BY <2>1, FS_Surjection
<1>2. IsFiniteSet(S) /\ S # {} /\ S \subseteq Nat
  <2>1. S = ids \cup {0}
    OBVIOUS
  <2>2. S # {} /\ S \subseteq Nat
    OBVIOUS
  <2> HIDE DEF ids
  <2> QED BY <1>1, <2>1, <2>2, FS_AddElement
<1>3. Max(S) \in S /\ \A y \in S : Max(S) >= y
  <2> HIDE DEF S
  <2>1. \E x \in S : \A y \in S : x >= y
    BY <1>2, GreatestExists
  <2> QED BY <2>1, Zenon DEF Max
<1>4. NewId(rows) = Max(S) + 1
  BY DEF NewId
<1>5. \A r \in rows : r.id \in S
  OBVIOUS
<1> HIDE DEF S
<1>6. Max(S) \in Nat
  BY <1>2, <1>3
<1>7. ASSUME NEW r \in rows PROVE r.id < NewId(rows)
  <2>1. r.id \in Nat /\ Max(S) >= r.id
    BY <1>3, <1>5
  <2> QED BY <1>4, <1>6, <2>1
<1> QED BY <1>4, <1>6, <1>7

(* An item's line has a slot and stats.                                    *)
LEMMA ItemLine ==
  ASSUME NEW l \in LineRead, l.kind = "item"
  PROVE  l.slot \in Slot /\ l.stats \in Nat
<1>1. l \notin {[kind |-> k] : k \in {"malformed", "other"}}
  OBVIOUS
<1>2. l \in [kind : {"item"}, slot : Slot, stats : StatCount]
  BY <1>1 DEF LineRead
<1> QED BY <1>2, BackendAssumption

-----------------------------------------------------------------------------
(* The tasks: each has a message of its own, and only one whose line was   *)
(* an item enters insert_item.                                             *)
TasksInv ==
  /\ \A c \in Conn : (current[c] = 0) <=> (task[c] = "read")
  /\ \A c, d \in Conn : current[c] # 0 /\ current[c] = current[d] => c = d
  /\ \A c \in Conn : current[c] \notin answered
  /\ \A c \in Conn : task[c] \in {"insert", "delete", "stats"} =>
                       message[current[c]].kind = "item"
  /\ ~up => \A c \in Conn : task[c] = "read"

StatsOf(id) == {s \in item_stats : s.item_id = id}

(* The tables: a row is in the slot its message named, under the number it *)
(* was inserted with.                                                      *)
RowsInv ==
  /\ IsFiniteSet(item_rows) /\ IsFiniteSet(item_stats)
  /\ StatsBelong
  /\ \A r \in item_rows : /\ message[r.message].kind = "item"
                          /\ message[r.message].slot = r.slot
                          /\ storedAs[r.message] = r.id

(* The task that holds the mutex has a row: last_insert_rowid is its       *)
(* number until it has been read, and the stats counted so far are there.  *)
HeldInv ==
  \A c \in Conn :
    /\ task[c] = "delete" =>
         \E r \in item_rows : r.id = last_insert_rowid /\ r.message = current[c]
    /\ task[c] = "stats" =>
         \E r \in item_rows :
           /\ r.id = item_id[c] /\ r.message = current[c]
           /\ Cardinality(StatsOf(r.id)) + toInsert[c] = message[current[c]].stats

Kept(m) == storedAs[m] # 0 /\ (StoredWhole(m) \/ Superseded(m))

(* What has been processed without a fault is kept, answered or not.       *)
Done(m) ==
  /\ m \in DOMAIN message /\ m \notin hurt /\ message[m].kind = "item"
  /\ \A c \in Conn : task[c] \in {"insert", "delete", "stats"} => current[c] # m

DoneInv == \A m \in MessageNumber : Done(m) => Kept(m)

StoreInv == StoreTypeOK /\ TasksInv /\ RowsInv /\ HeldInv /\ DoneInv

(* What the types say of the numbers of messages and rows.                 *)
LEMMA StoreFacts ==
  ASSUME StoreTypeOK
  PROVE  /\ DOMAIN message = 1..Len(message) /\ Len(message) \in Nat
         /\ LineMax \in Nat \ {0} /\ DOMAIN message \subseteq MessageNumber
         /\ \A m \in DOMAIN message : m \in Nat \ {0} /\ message[m] \in LineRead
         /\ \A r \in item_rows : /\ r.id \in Nat \ {0} /\ r.slot \in Slot
                                 /\ r.message \in DOMAIN message
         /\ \A s \in item_stats : /\ s.id \in Nat \ {0} /\ s.item_id \in Nat
                                  /\ s.message \in DOMAIN message
<1>1. message \in Seq(LineRead) /\ Len(message) <= LineMax /\ LineMax \in Nat \ {0}
  BY BackendAssumption DEF StoreTypeOK
<1>2. /\ DOMAIN message = 1..Len(message) /\ Len(message) \in Nat
      /\ \A m \in DOMAIN message : m \in Nat \ {0} /\ message[m] \in LineRead
  BY <1>1
<1>3. DOMAIN message \subseteq MessageNumber
  BY <1>1, <1>2 DEF MessageNumber
<1>4. /\ item_rows \subseteq
           [id : Nat \ {0}, slot : Slot, message : DOMAIN message]
      /\ item_stats \subseteq
           [id : Nat \ {0}, item_id : Nat, message : DOMAIN message]
  BY DEF StoreTypeOK
<1> QED BY <1>1, <1>2, <1>3, <1>4

(* What is kept stays so as long as its row and stats are left alone.      *)
LEMMA KeptAlone ==
  ASSUME NEW m, Kept(m),
         UNCHANGED <<item_rows, storedAs>>, message'[m] = message[m],
         \A r \in item_rows : r.message = m => StatsOf(r.id)' = StatsOf(r.id)
  PROVE  Kept(m)'
<1>1. StoredWhole(m) => StoredWhole(m)'
  <2> SUFFICES ASSUME StoredWhole(m) PROVE StoredWhole(m)'
    OBVIOUS
  <2>1. PICK r \in item_rows :
          /\ r.message = m
          /\ Cardinality({s \in item_stats : s.item_id = r.id}) = message[m].stats
    BY DEF StoredWhole
  <2>2. {s \in item_stats' : s.item_id = r.id} = {s \in item_stats : s.item_id = r.id}
    BY <2>1 DEF StatsOf
  <2>3. /\ r \in item_rows' /\ r.message = m
        /\ Cardinality({s \in item_stats' : s.item_id = r.id}) = message'[m].stats
    BY <2>1, <2>2
  <2> QED BY <2>3, Zenon DEF StoredWhole
<1>2. Superseded(m) => Superseded(m)'
  BY DEF Superseded
<1> QED BY <1>1, <1>2 DEF Kept

(* The store starts in the invariant.                                      *)
LEMMA StoreInvInit == StoreInit => StoreInv
<1> SUFFICES ASSUME StoreInit PROVE StoreInv
  OBVIOUS
<1>1. message = <<>> /\ Len(message) = 0 /\ DOMAIN message = {}
  BY DEF StoreInit
<1>2. StoreTypeOK
  <2>1. message \in Seq(LineRead) /\ Len(message) <= LineMax
    BY <1>1, BackendAssumption
  <2>2. /\ current \in [Conn -> {0} \cup DOMAIN message]
        /\ item_id \in [Conn -> Nat] /\ toInsert \in [Conn -> Nat]
        /\ task \in [Conn -> {"read", "insert", "delete", "stats", "reply"}]
    BY DEF StoreInit
  <2>3. /\ mutex \in Conn \cup {None}
        /\ \A c \in Conn : mutex = c <=> task[c] \in {"delete", "stats"}
    BY BackendAssumption DEF StoreInit
  <2>4. storedAs \in [MessageNumber -> Nat]
    BY DEF StoreInit
  <2> QED BY <2>1, <2>2, <2>3, <2>4 DEF StoreInit, StoreTypeOK
<1>3. TasksInv
  BY DEF StoreInit, TasksInv
<1>4. RowsInv
  BY FS_EmptySet DEF StoreInit, RowsInv, StatsBelong
<1>5. HeldInv /\ DoneInv
  BY <1>1 DEF StoreInit, HeldInv, DoneInv, Done
<1> QED BY <1>2, <1>3, <1>4, <1>5 DEF StoreInv

-----------------------------------------------------------------------------
(* INSERT OR REPLACE: the row replaced goes with its stats, and the new    *)
(* one has a number that no row and no stat has used.                      *)
LEMMA InsertItemKeeps ==
  ASSUME StoreInv, NEW c \in Conn, InsertItem(c)
  PROVE  StoreInv'
<1> DEFINE m == current[c]
           old == {r \in item_rows : r.slot = message[m].slot}
           row == [id |-> NewId(item_rows), slot |-> message[m].slot, message |-> m]
<1>0. StoreTypeOK /\ TasksInv /\ RowsInv /\ HeldInv /\ DoneInv
  BY DEF StoreInv
<1>1. /\ up /\ task[c] = "insert" /\ mutex = None /\ mutex' = c
      /\ task' = [task EXCEPT ![c] = "delete"]
      /\ UNCHANGED <<up, current, item_id, toInsert, message, answered, hurt>>
      /\ item_rows' = (item_rows \ old) \cup {row}
      /\ item_stats' = {s \in item_stats : \A r \in old : s.item_id # r.id}
      /\ last_insert_rowid' = row.id
      /\ storedAs' = [storedAs EXCEPT ![m] = row.id]
  BY DEF InsertItem, Replace
<1>2. /\ m \in DOMAIN message /\ m \in MessageNumber /\ m # 0
      /\ message[m] \in LineRead /\ message[m].kind = "item"
      /\ message[m].slot \in Slot
  <2>1. m # 0 /\ message[m].kind = "item"
    BY <1>0, <1>1 DEF TasksInv
  <2>2. m \in DOMAIN message
    BY <1>0, <2>1 DEF StoreTypeOK
  <2> QED BY <1>0, <2>1, <2>2, StoreFacts, ItemLine
<1>3. /\ row.id \in Nat \ {0} /\ row.slot = message[m].slot /\ row.message = m
      /\ \A r \in item_rows : r.id < row.id /\ r.id \in Nat \ {0}
  BY <1>0, StoreFacts, NewIdIsNew DEF RowsInv
<1>4. \A d \in Conn : task[d] \notin {"delete", "stats"}
  BY <1>0, <1>1, BackendAssumption DEF StoreTypeOK
<1>5. task' \in [Conn -> {"read", "insert", "delete", "stats", "reply"}]
      /\ task'[c] = "delete" /\ \A d \in Conn \ {c} : task'[d] = task[d]
  BY <1>0, <1>1 DEF StoreTypeOK
<1>6. /\ storedAs' \in [MessageNumber -> Nat] /\ storedAs'[m] = row.id
      /\ \A k \in MessageNumber \ {m} : storedAs'[k] = storedAs[k]
  BY <1>0, <1>1, <1>2, <1>3 DEF StoreTypeOK
<1>7. \A r \in item_rows' : r = row \/ (r \in item_rows /\ r.slot # row.slot)
  BY <1>1
<1>8. row \in item_rows' /\ \A r \in item_rows : r.slot # row.slot => r \in item_rows'
  BY <1>1
<1>9. row \in [id : Nat \ {0}, slot : Slot, message : DOMAIN message]
  BY <1>2, <1>3
<1> HIDE DEF row
<1>10. StoreTypeOK'
  <2>1. item_rows' \subseteq [id : Nat \ {0}, slot : Slot, message : DOMAIN message]
    BY <1>0, <1>1, <1>9 DEF StoreTypeOK
  <2>2. item_stats' \subseteq [id : Nat \ {0}, item_id : Nat, message : DOMAIN message]
    BY <1>0, <1>1 DEF StoreTypeOK
  <2>3. \A d \in Conn : mutex' = d <=> task'[d] \in {"delete", "stats"}
    BY <1>1, <1>4, <1>5
  <2>4. /\ up' \in BOOLEAN /\ current' \in [Conn -> {0} \cup DOMAIN message']
        /\ item_id' \in [Conn -> Nat] /\ toInsert' \in [Conn -> Nat]
        /\ mutex' \in Conn \cup {None} /\ last_insert_rowid' \in Nat
        /\ message' \in Seq(LineRead) /\ Len(message') <= LineMax
        /\ answered' \subseteq DOMAIN message' /\ hurt' \subseteq DOMAIN message'
    BY <1>0, <1>1, <1>3 DEF StoreTypeOK
  <2> HIDE DEF old
  <2> QED BY <1>1, <1>5, <1>6, <2>1, <2>2, <2>3, <2>4 DEF StoreTypeOK
<1>11. TasksInv'
  BY <1>0, <1>1, <1>2, <1>5 DEF TasksInv
<1>12. RowsInv'
  <2>1. IsFiniteSet(item_rows') /\ IsFiniteSet(item_stats')
    <3>1. IsFiniteSet(item_rows \ old) /\ IsFiniteSet(item_stats)
      BY <1>0, FS_Difference DEF RowsInv
    <3>2. item_stats' \in SUBSET item_stats
      BY <1>1
    <3> QED BY <1>1, <3>1, <3>2, FS_AddElement, FS_Subset
  <2>2. \A r, s \in item_rows' : r.slot = s.slot \/ r.id = s.id => r = s
    <3>1. \A r, s \in item_rows : r.slot = s.slot \/ r.id = s.id => r = s
      BY <1>0 DEF RowsInv, StatsBelong
    <3>2. \A r \in item_rows : r.id # row.id
      BY <1>3
    <3> QED BY <1>7, <3>1, <3>2
  <2>3. ASSUME NEW s \in item_stats'
        PROVE  \E r \in item_rows' : s.item_id = r.id /\ s.message = r.message
    <3>1. PICK r \in item_rows : s.item_id = r.id /\ s.message = r.message
      BY <1>0, <1>1 DEF RowsInv, StatsBelong
    <3>2. r.slot # row.slot
      BY <1>1, <1>3, <3>1
    <3> QED BY <1>8, <3>1, <3>2
  <2>4. ASSUME NEW r \in item_rows'
        PROVE  /\ message[r.message].kind = "item"
               /\ message[r.message].slot = r.slot
               /\ storedAs'[r.message] = r.id
    <3>1. CASE r = row
      BY <1>2, <1>3, <1>6, <3>1
    <3>2. CASE r \in item_rows /\ r.slot # row.slot
      <4>1. /\ message[r.message].kind = "item"
            /\ message[r.message].slot = r.slot
            /\ storedAs[r.message] = r.id
        BY <1>0, <3>2 DEF RowsInv
      <4>2. r.message \in MessageNumber /\ r.message # m
        BY <1>0, <1>3, <3>2, <4>1, StoreFacts
      <4> QED BY <1>6, <4>1, <4>2
    <3> QED BY <1>7, <3>1, <3>2
  <2>5. StatsBelong'
    BY <2>2, <2>3 DEF StatsBelong
  <2> QED BY <1>1, <2>1, <2>4, <2>5 DEF RowsInv
<1>13. HeldInv'
  <2>1. \A d \in Conn : task'[d] # "stats" /\ (task'[d] = "delete" => d = c)
    BY <1>4, <1>5
  <2>2. /\ row \in item_rows' /\ row.id = last_insert_rowid'
        /\ row.message = current'[c]
    BY <1>1, <1>3, <1>8
  <2> QED BY <2>1, <2>2 DEF HeldInv
<1>14. ASSUME NEW k \in MessageNumber, k # m, Kept(k) PROVE Kept(k)'
  <2>1. storedAs'[k] = storedAs[k] /\ storedAs[k] # 0
    BY <1>6, <1>14 DEF Kept
  <2>2. CASE StoredWhole(k)
    <3>1. PICK r \in item_rows :
            /\ r.message = k
            /\ Cardinality({s \in item_stats : s.item_id = r.id})
                 = message[k].stats
      BY <2>2 DEF StoredWhole
    <3>2. message[k].slot = r.slot /\ storedAs[k] = r.id
      BY <1>0, <3>1 DEF RowsInv
    <3>3. CASE r.slot = row.slot
      <4>1. row \in item_rows' /\ row.slot = message'[k].slot
            /\ row.id > storedAs'[k]
        BY <1>1, <1>3, <1>8, <2>1, <3>2, <3>3
      <4> QED BY <2>1, <4>1 DEF Kept, Superseded
    <3>4. CASE r.slot # row.slot
      <4>1. \A x \in old : x.id # r.id
        BY <1>0, <1>3, <3>4 DEF RowsInv, StatsBelong
      <4>2. {s \in item_stats' : s.item_id = r.id} = {s \in item_stats : s.item_id = r.id}
        BY <1>1, <4>1
      <4>3. /\ r \in item_rows' /\ r.message = k
            /\ Cardinality({s \in item_stats' : s.item_id = r.id})
                 = message'[k].stats
        BY <1>1, <1>8, <3>1, <3>4, <4>2
      <4>4. StoredWhole(k)'
        BY <4>3, Zenon DEF StoredWhole
      <4> QED BY <2>1, <4>4 DEF Kept
    <3> QED BY <3>3, <3>4
  <2>3. CASE Superseded(k)
    <3>1. PICK x \in item_rows : x.slot = message[k].slot /\ x.id > storedAs[k]
      BY <2>3 DEF Superseded
    <3>2. \E y \in item_rows' : y.slot = message'[k].slot /\ y.id > storedAs'[k]
      <4>1. CASE x.slot = row.slot
        <5>1. storedAs[k] \in Nat /\ x.id < row.id /\ x.id \in Nat /\ row.id \in Nat
          BY <1>0, <1>3 DEF StoreTypeOK
        <5>2. row.id > storedAs[k]
          BY <3>1, <5>1
        <5> QED BY <1>1, <1>8, <2>1, <3>1, <4>1, <5>2
      <4>2. CASE x.slot # row.slot
        BY <1>1, <1>8, <2>1, <3>1, <4>2
      <4> QED BY <4>1, <4>2
    <3> QED BY <2>1, <3>2 DEF Kept, Superseded
  <2> QED BY <1>14, <2>2, <2>3 DEF Kept
<1>15. DoneInv'
  <2> SUFFICES ASSUME NEW k \in MessageNumber, Done(k)' PROVE Kept(k)'
    BY DEF DoneInv
  <2>1. k # m /\ Done(k)
    BY <1>0, <1>1, <1>2, <1>5 DEF Done, TasksInv
  <2> QED BY <1>0, <1>14, <2>1 DEF DoneInv
<1> QED BY <1>10, <1>11, <1>12, <1>13, <1>15 DEF StoreInv

(* The task between two statements of insert_item holds the mutex, and no  *)
(* other task is there.                                                    *)
LEMMA Holder ==
  ASSUME StoreTypeOK, NEW c \in Conn, task[c] \in {"delete", "stats"}
  PROVE  /\ mutex = c /\ c # None
         /\ \A d \in Conn \ {c} : task[d] \notin {"delete", "stats"}
<1>1. \A d \in Conn : mutex = d <=> task[d] \in {"delete", "stats"}
  BY DEF StoreTypeOK
<1> QED BY <1>1, BackendAssumption

(* The message a task is at, and that other tasks are at others.           *)
LEMMA AtWork ==
  ASSUME StoreTypeOK, TasksInv, NEW c \in Conn, task[c] # "read"
  PROVE  /\ current[c] \in DOMAIN message /\ current[c] \in MessageNumber
         /\ current[c] \notin answered
         /\ message[current[c]] \in LineRead
         /\ \A d \in Conn \ {c} : current[d] # current[c]
         /\ up
<1>1. current[c] # 0 /\ up
  BY DEF TasksInv
<1>2. current[c] \in DOMAIN message
  BY <1>1 DEF StoreTypeOK
<1> QED BY <1>1, <1>2, StoreFacts DEF TasksInv

(* The stats of the number inserted last go, which are none of another's.  *)
LEMMA DeleteStatsKeeps ==
  ASSUME StoreInv, NEW c \in Conn, DeleteStats(c)
  PROVE  StoreInv'
<1> DEFINE m == current[c]
<1>0. StoreTypeOK /\ TasksInv /\ RowsInv /\ HeldInv /\ DoneInv
  BY DEF StoreInv
<1>1. /\ task[c] = "delete" /\ task' = [task EXCEPT ![c] = "stats"]
      /\ item_id' = [item_id EXCEPT ![c] = last_insert_rowid]
      /\ item_stats' = {s \in item_stats : s.item_id # last_insert_rowid}
      /\ toInsert' = [toInsert EXCEPT ![c] = message[m].stats]
      /\ UNCHANGED <<up, current, mutex, item_rows, last_insert_rowid, storedAs,
                     message, answered, hurt>>
  BY DEF DeleteStats
<1>2. /\ m \in MessageNumber /\ message[m] \in LineRead /\ m \notin answered
      /\ \A d \in Conn \ {c} : current[d] # m
  BY <1>0, <1>1, AtWork
<1>3. message[m].kind = "item" /\ message[m].stats \in Nat
  <2>1. message[m].kind = "item"
    BY <1>0, <1>1 DEF TasksInv
  <2> QED BY <1>2, <2>1, ItemLine
<1>4. PICK r \in item_rows : r.id = last_insert_rowid /\ r.message = m
  BY <1>0, <1>1 DEF HeldInv
<1>5. mutex = c /\ \A d \in Conn \ {c} : task[d] \notin {"delete", "stats"}
  BY <1>0, <1>1, Holder
<1>6. /\ task' \in [Conn -> {"read", "insert", "delete", "stats", "reply"}]
      /\ task'[c] = "stats" /\ \A d \in Conn \ {c} : task'[d] = task[d]
      /\ item_id' \in [Conn -> Nat] /\ item_id'[c] = last_insert_rowid
      /\ toInsert' \in [Conn -> Nat] /\ toInsert'[c] = message[m].stats
  BY <1>0, <1>1, <1>3 DEF StoreTypeOK
<1> HIDE DEF m
<1>7. StoreTypeOK'
  <2>1. \A d \in Conn : mutex' = d <=> task'[d] \in {"delete", "stats"}
    BY <1>1, <1>5, <1>6
  <2>2. item_stats' \subseteq
          [id : Nat \ {0}, item_id : Nat, message : DOMAIN message']
    BY <1>0, <1>1 DEF StoreTypeOK
  <2> QED BY <1>0, <1>1, <1>6, <2>1, <2>2 DEF StoreTypeOK
<1>8. TasksInv'
  BY <1>0, <1>1, <1>6 DEF TasksInv
<1>9. RowsInv'
  <2>1. IsFiniteSet(item_stats')
    <3>1. item_stats' \in SUBSET item_stats
      BY <1>1
    <3> QED BY <1>0, <3>1, FS_Subset DEF RowsInv
  <2>2. StatsBelong'
    BY <1>0, <1>1 DEF RowsInv, StatsBelong
  <2> QED BY <1>0, <1>1, <2>1, <2>2 DEF RowsInv
<1>10. HeldInv'
  <2>1. Cardinality(StatsOf(r.id)') + toInsert'[c] = message[m].stats
    <3>1. StatsOf(r.id)' = {}
      BY <1>1, <1>4 DEF StatsOf
    <3> QED BY <1>3, <1>6, <3>1, FS_EmptySet
  <2>2. /\ r \in item_rows' /\ r.id = item_id'[c] /\ r.message = current'[c]
        /\ Cardinality(StatsOf(r.id)') + toInsert'[c] = message'[current'[c]].stats
    BY <1>1, <1>4, <1>6, <2>1 DEF m
  <2>3. \A d \in Conn : task'[d] # "delete" /\ (task'[d] = "stats" => d = c)
    BY <1>5, <1>6
  <2> QED BY <2>2, <2>3 DEF HeldInv
<1>11. DoneInv'
  <2> SUFFICES ASSUME NEW k \in MessageNumber, Done(k)' PROVE Kept(k)'
    BY DEF DoneInv
  <2>1. k # m /\ Done(k)
    BY <1>1, <1>2, <1>6 DEF Done, m
  <2>2. ASSUME NEW x \in item_rows, x.message = k
        PROVE  StatsOf(x.id)' = StatsOf(x.id)
    <3>1. x.id # last_insert_rowid
      BY <1>0, <1>4, <2>1, <2>2 DEF RowsInv, StatsBelong
    <3> QED BY <1>1, <3>1 DEF StatsOf
  <2>3. Kept(k)
    BY <1>0, <2>1 DEF DoneInv
  <2> QED BY <1>1, <2>2, <2>3, KeptAlone
<1> QED BY <1>7, <1>8, <1>9, <1>10, <1>11 DEF StoreInv

(* A stat joins those of the row that the mutex keeps in place.            *)
LEMMA InsertStatKeeps ==
  ASSUME StoreInv, NEW c \in Conn, InsertStat(c)
  PROVE  StoreInv'
<1> DEFINE m == current[c]
           new == [id |-> NewId(item_stats), item_id |-> item_id[c], message |-> m]
<1>0. StoreTypeOK /\ TasksInv /\ RowsInv /\ HeldInv /\ DoneInv
  BY DEF StoreInv
<1>1. /\ task[c] = "stats" /\ toInsert[c] > 0
      /\ item_stats' = item_stats \cup {new}
      /\ last_insert_rowid' = new.id
      /\ toInsert' = [toInsert EXCEPT ![c] = @ - 1]
      /\ UNCHANGED <<up, task, current, item_id, mutex, item_rows, storedAs,
                     message, answered, hurt>>
  BY DEF InsertStat
<1>2. /\ m \in DOMAIN message /\ m \notin answered
      /\ message[m] \in LineRead
      /\ \A d \in Conn \ {c} : current[d] # m
  BY <1>0, <1>1, AtWork
<1>3. /\ new.id \in Nat \ {0} /\ \A s \in item_stats : s.id # new.id
      /\ new.item_id = item_id[c] /\ item_id[c] \in Nat /\ new.message = m
  <2>1. IsFiniteSet(item_stats) /\ \A s \in item_stats : s.id \in Nat
    BY <1>0, StoreFacts DEF RowsInv
  <2>2. /\ NewId(item_stats) \in Nat \ {0}
        /\ \A s \in item_stats : s.id < NewId(item_stats)
    BY <2>1, NewIdIsNew
  <2>3. \A s \in item_stats : s.id # NewId(item_stats)
    BY <2>1, <2>2
  <2> QED BY <1>0, <2>2, <2>3 DEF StoreTypeOK
<1>4. PICK r \in item_rows :
        /\ r.id = item_id[c] /\ r.message = m
        /\ Cardinality(StatsOf(r.id)) + toInsert[c] = message[m].stats
  BY <1>0, <1>1 DEF HeldInv
<1>5. mutex = c /\ \A d \in Conn \ {c} : task[d] \notin {"delete", "stats"}
  BY <1>0, <1>1, Holder
<1>6. /\ toInsert' \in [Conn -> Nat] /\ toInsert'[c] = toInsert[c] - 1
      /\ toInsert[c] \in Nat
  BY <1>0, <1>1 DEF StoreTypeOK
<1>7. new \in [id : Nat \ {0}, item_id : Nat, message : DOMAIN message]
  BY <1>2, <1>3
<1> HIDE DEF m, new
<1>8. StoreTypeOK'
  <2>1. item_stats' \subseteq
          [id : Nat \ {0}, item_id : Nat, message : DOMAIN message']
    BY <1>0, <1>1, <1>7 DEF StoreTypeOK
  <2>2. last_insert_rowid' \in Nat
    BY <1>1, <1>3
  <2> QED BY <1>0, <1>1, <1>6, <2>1, <2>2 DEF StoreTypeOK
<1>9. TasksInv'
  BY <1>0, <1>1 DEF TasksInv
<1>10. RowsInv'
  <2>1. IsFiniteSet(item_stats')
    BY <1>0, <1>1, FS_AddElement DEF RowsInv
  <2>2. StatsBelong'
    BY <1>0, <1>1, <1>3, <1>4 DEF RowsInv, StatsBelong
  <2> QED BY <1>0, <1>1, <2>1, <2>2 DEF RowsInv
<1>11. HeldInv'
  <2>1. Cardinality(StatsOf(r.id)') + toInsert'[c] = message[m].stats
    <3>1. StatsOf(r.id)' = StatsOf(r.id) \cup {new}
      BY <1>1, <1>3, <1>4 DEF StatsOf
    <3>2. new \notin StatsOf(r.id)
      BY <1>3 DEF StatsOf
    <3>3. IsFiniteSet(StatsOf(r.id))
      <4>1. StatsOf(r.id) \in SUBSET item_stats
        BY DEF StatsOf
      <4> QED BY <1>0, <4>1, FS_Subset DEF RowsInv
    <3>4. /\ Cardinality(StatsOf(r.id)') = Cardinality(StatsOf(r.id)) + 1
          /\ Cardinality(StatsOf(r.id)) \in Nat
      BY <3>1, <3>2, <3>3, FS_AddElement, FS_CardinalityType
    <3> QED BY <1>4, <1>6, <3>4
  <2>2. /\ r \in item_rows' /\ r.id = item_id'[c] /\ r.message = current'[c]
        /\ Cardinality(StatsOf(r.id)') + toInsert'[c] = message'[current'[c]].stats
    BY <1>1, <1>4, <2>1 DEF m
  <2>3. \A d \in Conn : task'[d] # "delete" /\ (task'[d] = "stats" => d = c)
    BY <1>1, <1>5
  <2> QED BY <2>2, <2>3 DEF HeldInv
<1>12. DoneInv'
  <2> SUFFICES ASSUME NEW k \in MessageNumber, Done(k)' PROVE Kept(k)'
    BY DEF DoneInv
  <2>1. k # m /\ Done(k)
    BY <1>1, <1>2 DEF Done, m
  <2>2. ASSUME NEW x \in item_rows, x.message = k
        PROVE  StatsOf(x.id)' = StatsOf(x.id)
    <3>1. x.id # new.item_id
      BY <1>0, <1>3, <1>4, <2>1, <2>2 DEF RowsInv, StatsBelong
    <3> QED BY <1>1, <3>1 DEF StatsOf
  <2>3. Kept(k)
    BY <1>0, <2>1 DEF DoneInv
  <2> QED BY <1>1, <2>2, <2>3, KeptAlone
<1> QED BY <1>8, <1>9, <1>10, <1>11, <1>12 DEF StoreInv

(* The loop has come to its end: all the stats are there.                  *)
LEMMA InsertedKeeps ==
  ASSUME StoreInv, NEW c \in Conn, Inserted(c)
  PROVE  StoreInv'
<1> DEFINE m == current[c]
<1>0. StoreTypeOK /\ TasksInv /\ RowsInv /\ HeldInv /\ DoneInv
  BY DEF StoreInv
<1>1. /\ task[c] = "stats" /\ toInsert[c] = 0 /\ mutex' = None
      /\ task' = [task EXCEPT ![c] = "reply"]
      /\ UNCHANGED <<up, current, item_id, toInsert, item_rows, item_stats,
                     last_insert_rowid, storedAs, message, answered, hurt>>
  BY DEF Inserted, Leaves, storeVars
<1>2. m \in DOMAIN message /\ message[m] \in LineRead /\ m \in MessageNumber
  BY <1>0, <1>1, AtWork
<1>3. \A d \in Conn \ {c} : task[d] \notin {"delete", "stats"}
  BY <1>0, <1>1, Holder
<1>4. /\ task' \in [Conn -> {"read", "insert", "delete", "stats", "reply"}]
      /\ task'[c] = "reply" /\ \A d \in Conn \ {c} : task'[d] = task[d]
  BY <1>0, <1>1 DEF StoreTypeOK
<1>5. StoreTypeOK'
  <2>1. \A d \in Conn : mutex' = d <=> task'[d] \in {"delete", "stats"}
    BY <1>1, <1>3, <1>4, BackendAssumption
  <2> QED BY <1>0, <1>1, <1>4, <2>1 DEF StoreTypeOK
<1>6. TasksInv'
  BY <1>0, <1>1, <1>4 DEF TasksInv
<1>7. RowsInv'
  BY <1>0, <1>1 DEF RowsInv, StatsBelong
<1>8. HeldInv'
  BY <1>3, <1>4 DEF HeldInv
<1>9. Kept(m)
  <2>1. PICK r \in item_rows :
          /\ r.id = item_id[c] /\ r.message = m
          /\ Cardinality(StatsOf(r.id)) + toInsert[c] = message[m].stats
    BY <1>0, <1>1 DEF HeldInv
  <2>2. IsFiniteSet(StatsOf(r.id))
    <3>1. StatsOf(r.id) \in SUBSET item_stats
      BY DEF StatsOf
    <3> QED BY <1>0, <3>1, FS_Subset DEF RowsInv
  <2>3. Cardinality(StatsOf(r.id)) = message[m].stats
    BY <1>1, <2>1, <2>2, FS_CardinalityType
  <2>4. StoredWhole(m)
    BY <2>1, <2>3, Zenon DEF StoredWhole, StatsOf
  <2>5. storedAs[m] = r.id /\ r.id # 0
    BY <1>0, <2>1, StoreFacts DEF RowsInv
  <2> QED BY <2>4, <2>5 DEF Kept
<1>10. DoneInv'
  <2> SUFFICES ASSUME NEW k \in MessageNumber, Done(k)' PROVE Kept(k)'
    BY DEF DoneInv
  <2>1. k = m \/ Done(k)
    BY <1>1, <1>4 DEF Done
  <2>2. Kept(k)
    BY <1>0, <1>9, <2>1 DEF DoneInv
  <2> QED BY <1>1, <2>2, KeptAlone DEF StatsOf
<1> QED BY <1>5, <1>6, <1>7, <1>8, <1>10 DEF StoreInv

(* A task that gives up lets go of the mutex; its message is hurt.         *)
LEMMA StatementFailsKeeps ==
  ASSUME StoreInv, NEW c \in Conn, StatementFails(c)
  PROVE  StoreInv'
<1> DEFINE m == current[c]
<1>0. StoreTypeOK /\ TasksInv /\ RowsInv /\ HeldInv /\ DoneInv
  BY DEF StoreInv
<1>1. /\ \/ task[c] = "insert" /\ mutex = None
         \/ task[c] \in {"delete", "stats"}
      /\ mutex' = None /\ task' = [task EXCEPT ![c] = "reply"]
      /\ hurt' = hurt \cup {m}
      /\ UNCHANGED <<up, current, item_id, toInsert, item_rows, item_stats,
                     last_insert_rowid, storedAs, message, answered>>
  BY DEF StatementFails, Leaves, storeVars
<1>2. m \in DOMAIN message
  BY <1>0, <1>1, AtWork
<1>3. \A d \in Conn \ {c} : task[d] \notin {"delete", "stats"}
  <2>1. CASE task[c] = "insert" /\ mutex = None
    BY <1>0, <2>1, BackendAssumption DEF StoreTypeOK
  <2>2. CASE task[c] \in {"delete", "stats"}
    BY <1>0, <2>2, Holder
  <2> QED BY <1>1, <2>1, <2>2
<1>4. /\ task' \in [Conn -> {"read", "insert", "delete", "stats", "reply"}]
      /\ task'[c] = "reply" /\ \A d \in Conn \ {c} : task'[d] = task[d]
  BY <1>0, <1>1 DEF StoreTypeOK
<1>5. StoreTypeOK'
  <2>1. \A d \in Conn : mutex' = d <=> task'[d] \in {"delete", "stats"}
    BY <1>1, <1>3, <1>4, BackendAssumption
  <2> QED BY <1>0, <1>1, <1>2, <1>4, <2>1 DEF StoreTypeOK
<1>6. TasksInv'
  BY <1>0, <1>1, <1>4 DEF TasksInv
<1>7. RowsInv'
  BY <1>0, <1>1 DEF RowsInv, StatsBelong
<1>8. HeldInv'
  BY <1>3, <1>4 DEF HeldInv
<1>9. DoneInv'
  <2> SUFFICES ASSUME NEW k \in MessageNumber, Done(k)' PROVE Kept(k)'
    BY DEF DoneInv
  <2>1. Done(k)
    BY <1>1, <1>4 DEF Done
  <2>2. Kept(k)
    BY <1>0, <2>1 DEF DoneInv
  <2> QED BY <1>1, <2>2, KeptAlone DEF StatsOf
<1> QED BY <1>5, <1>6, <1>7, <1>8, <1>9 DEF StoreInv

(* An answer is given for a message that has left insert_item: it is       *)
(* stored whole, superseded, or hurt.                                      *)
LEMMA ReplyKeeps ==
  ASSUME StoreInv, NEW c \in Conn, Reply(c)
  PROVE  StoreInv'
<1> DEFINE m == current[c]
<1>0. StoreTypeOK /\ TasksInv /\ RowsInv /\ HeldInv /\ DoneInv
  BY DEF StoreInv
<1>1. /\ task[c] = "reply"
      /\ answered \subseteq answered' /\ answered' \subseteq answered \cup {m}
      /\ task' = [task EXCEPT ![c] = "read"]
      /\ current' = [current EXCEPT ![c] = 0]
      /\ item_id' = [item_id EXCEPT ![c] = 0]
      /\ toInsert' = [toInsert EXCEPT ![c] = 0]
      /\ UNCHANGED <<up, mutex, item_rows, item_stats, last_insert_rowid,
                     storedAs, message, hurt>>
  BY DEF Reply, storeVars
<1>2. m \in DOMAIN message /\ up /\ \A d \in Conn \ {c} : current[d] # m
  BY <1>0, <1>1, AtWork
<1>3. /\ task' \in [Conn -> {"read", "insert", "delete", "stats", "reply"}]
      /\ task'[c] = "read" /\ \A d \in Conn \ {c} : task'[d] = task[d]
      /\ current' \in [Conn -> {0} \cup DOMAIN message]
      /\ current'[c] = 0 /\ \A d \in Conn \ {c} : current'[d] = current[d]
      /\ item_id' \in [Conn -> Nat] /\ toInsert' \in [Conn -> Nat]
      /\ \A d \in Conn \ {c} : item_id'[d] = item_id[d] /\ toInsert'[d] = toInsert[d]
  BY <1>0, <1>1 DEF StoreTypeOK
<1>4. StoreTypeOK'
  <2>1. \A d \in Conn : mutex' = d <=> task'[d] \in {"delete", "stats"}
    BY <1>0, <1>1, <1>3 DEF StoreTypeOK
  <2> QED BY <1>0, <1>1, <1>2, <1>3, <2>1 DEF StoreTypeOK
<1>5. TasksInv'
  <2>1. \A d \in Conn : current'[d] \notin answered'
    <3>1. 0 \notin answered'
      BY <1>0, <1>1, <1>2, StoreFacts DEF StoreTypeOK
    <3> QED BY <1>0, <1>1, <1>2, <1>3, <3>1 DEF TasksInv
  <2> QED BY <1>0, <1>1, <1>2, <1>3, <2>1 DEF TasksInv
<1>6. RowsInv'
  BY <1>0, <1>1 DEF RowsInv, StatsBelong
<1>7. HeldInv'
  <2> SUFFICES ASSUME NEW d \in Conn, task'[d] \in {"delete", "stats"}
               PROVE  /\ task'[d] = "delete" =>
                           \E r \in item_rows : r.id = last_insert_rowid
                                                /\ r.message = current'[d]
                      /\ task'[d] = "stats" =>
                           \E r \in item_rows :
                             /\ r.id = item_id'[d] /\ r.message = current'[d]
                             /\ Cardinality(StatsOf(r.id)) + toInsert'[d]
                                  = message[current'[d]].stats
    <3>1. \A id : StatsOf(id)' = StatsOf(id)
      BY <1>1 DEF StatsOf
    <3>2. item_rows' = item_rows /\ message' = message
          /\ last_insert_rowid' = last_insert_rowid
      BY <1>1
    <3> QED BY <3>1, <3>2 DEF HeldInv
  <2>1. /\ d # c /\ task'[d] = task[d] /\ current'[d] = current[d]
        /\ item_id'[d] = item_id[d] /\ toInsert'[d] = toInsert[d]
    BY <1>3
  <2> QED BY <1>0, <2>1 DEF HeldInv
<1>8. DoneInv'
  <2> SUFFICES ASSUME NEW k \in MessageNumber, Done(k)' PROVE Kept(k)'
    BY DEF DoneInv
  <2>1. Done(k)
    BY <1>1, <1>3 DEF Done
  <2>2. Kept(k)
    BY <1>0, <2>1 DEF DoneInv
  <2> QED BY <1>1, <2>2, KeptAlone DEF StatsOf
<1> QED BY <1>4, <1>5, <1>6, <1>7, <1>8 DEF StoreInv

(* A line that is read gets a number of its own, which no row, stat or     *)
(* task has.                                                               *)
LEMMA ReadLineKeeps ==
  ASSUME StoreInv, NEW c \in Conn, NEW l \in LineRead, read_line(c, l)
  PROVE  StoreInv'
<1> DEFINE m == Len(message) + 1
<1>0. StoreTypeOK /\ TasksInv /\ RowsInv /\ HeldInv /\ DoneInv
  BY DEF StoreInv
<1>1. /\ up /\ task[c] = "read" /\ Len(message) < LineMax
      /\ message' = Append(message, l)
      /\ current' = [current EXCEPT ![c] = m]
      /\ task' = [task EXCEPT ![c] = IF l.kind = "item" THEN "insert" ELSE "reply"]
      /\ UNCHANGED <<up, item_id, toInsert, mutex, item_rows, item_stats,
                     last_insert_rowid, storedAs, answered, hurt>>
  BY DEF read_line, storeVars
<1>2. /\ message' \in Seq(LineRead) /\ Len(message') <= LineMax
      /\ DOMAIN message \subseteq DOMAIN message' /\ m \in DOMAIN message'
      /\ m \notin DOMAIN message /\ m # 0
      /\ message'[m] = l /\ \A k \in DOMAIN message : message'[k] = message[k]
      /\ \A k \in DOMAIN message' : k \in DOMAIN message \/ k = m
  <2>1. message \in Seq(LineRead) /\ Len(message) \in Nat /\ LineMax \in Nat
    BY <1>0, StoreFacts DEF StoreTypeOK
  <2> QED BY <1>1, <2>1
<1> HIDE DEF m
<1>3. /\ task' \in [Conn -> {"read", "insert", "delete", "stats", "reply"}]
      /\ task'[c] = "insert" \/ task'[c] = "reply"
      /\ task'[c] = "insert" <=> l.kind = "item"
      /\ \A d \in Conn \ {c} : task'[d] = task[d]
      /\ current' \in [Conn -> {0} \cup DOMAIN message']
      /\ current'[c] = m /\ \A d \in Conn \ {c} : current'[d] = current[d]
      /\ \A d \in Conn : current[d] \in {0} \cup DOMAIN message
  BY <1>0, <1>1, <1>2 DEF StoreTypeOK
<1>4. StoreTypeOK'
  <2>1. \A d \in Conn : mutex' = d <=> task'[d] \in {"delete", "stats"}
    BY <1>0, <1>1, <1>3 DEF StoreTypeOK
  <2>2. item_rows' \subseteq
          [id : Nat \ {0}, slot : Slot, message : DOMAIN message']
    BY <1>0, <1>1, <1>2 DEF StoreTypeOK
  <2>3. item_stats' \subseteq
          [id : Nat \ {0}, item_id : Nat, message : DOMAIN message']
    BY <1>0, <1>1, <1>2 DEF StoreTypeOK
  <2>4. answered' \subseteq DOMAIN message' /\ hurt' \subseteq DOMAIN message'
    BY <1>0, <1>1, <1>2 DEF StoreTypeOK
  <2> QED BY <1>0, <1>1, <1>2, <1>3, <2>1, <2>2, <2>3, <2>4 DEF StoreTypeOK
<1>5. TasksInv'
  <2>1. \A d \in Conn : current'[d] \notin answered'
    BY <1>0, <1>1, <1>2, <1>3 DEF TasksInv, StoreTypeOK
  <2>2. \A d \in Conn : (current'[d] = 0) <=> (task'[d] = "read")
    BY <1>0, <1>2, <1>3 DEF TasksInv
  <2>3. \A d, e \in Conn : current'[d] # 0 /\ current'[d] = current'[e] => d = e
    BY <1>0, <1>2, <1>3 DEF TasksInv
  <2>4. ASSUME NEW d \in Conn, task'[d] \in {"insert", "delete", "stats"}
        PROVE  message'[current'[d]].kind = "item"
    <3>1. CASE d = c
      BY <1>2, <1>3, <2>4, <3>1
    <3>2. CASE d # c
      <4>1. current[d] \in DOMAIN message /\ message[current[d]].kind = "item"
        BY <1>0, <1>3, <2>4, <3>2 DEF TasksInv
      <4> QED BY <1>2, <1>3, <3>2, <4>1
    <3> QED BY <3>1, <3>2
  <2> QED BY <1>1, <2>1, <2>2, <2>3, <2>4 DEF TasksInv
<1>6. RowsInv'
  <2>1. \A r \in item_rows : message'[r.message] = message[r.message]
    BY <1>0, <1>2, StoreFacts
  <2> QED BY <1>0, <1>1, <2>1 DEF RowsInv, StatsBelong
<1>7. HeldInv'
  <2> SUFFICES ASSUME NEW d \in Conn, task'[d] \in {"delete", "stats"}
               PROVE  /\ task'[d] = "delete" =>
                           \E r \in item_rows : r.id = last_insert_rowid
                                                /\ r.message = current'[d]
                      /\ task'[d] = "stats" =>
                           \E r \in item_rows :
                             /\ r.id = item_id[d] /\ r.message = current'[d]
                             /\ Cardinality(StatsOf(r.id)) + toInsert[d]
                                  = message'[current'[d]].stats
    BY <1>1 DEF HeldInv, StatsOf
  <2>1. d # c /\ task'[d] = task[d] /\ current'[d] = current[d]
    BY <1>3
  <2>2. message'[current[d]] = message[current[d]]
    BY <1>0, <1>2, <1>3, <2>1 DEF TasksInv
  <2> QED BY <1>0, <2>1, <2>2 DEF HeldInv
<1>8. DoneInv'
  <2> SUFFICES ASSUME NEW k \in MessageNumber, Done(k)' PROVE Kept(k)'
    BY DEF DoneInv
  <2>1. k # m
    BY <1>0, <1>1, <1>2, <1>3 DEF Done, StoreTypeOK
  <2>2. Done(k) /\ k \in DOMAIN message
    BY <1>1, <1>2, <1>3, <2>1 DEF Done
  <2>3. Kept(k)
    BY <1>0, <2>2 DEF DoneInv
  <2> QED BY <1>1, <1>2, <2>2, <2>3, KeptAlone DEF StatsOf
<1> QED BY <1>4, <1>5, <1>6, <1>7, <1>8 DEF StoreInv

(* A crash leaves the tables as they are and hurts what was in work.       *)
LEMMA CrashKeeps ==
  ASSUME StoreInv, Crash
  PROVE  StoreInv'
<1>0. StoreTypeOK /\ TasksInv /\ RowsInv /\ HeldInv /\ DoneInv
  BY DEF StoreInv
<1>1. /\ ~up' /\ hurt' = hurt \cup ({current[c] : c \in Conn} \ {0})
      /\ task' = [c \in Conn |-> "read"] /\ current' = [c \in Conn |-> 0]
      /\ item_id' = [c \in Conn |-> 0] /\ toInsert' = [c \in Conn |-> 0]
      /\ mutex' = None
      /\ UNCHANGED <<item_rows, item_stats, last_insert_rowid, storedAs,
                     message, answered>>
  BY DEF Crash, storeVars
<1>2. StoreTypeOK'
  <2>1. hurt' \subseteq DOMAIN message'
    BY <1>0, <1>1 DEF StoreTypeOK
  <2>2. \A d \in Conn : mutex' = d <=> task'[d] \in {"delete", "stats"}
    BY <1>1, BackendAssumption
  <2>3. up' \in BOOLEAN
    BY DEF Crash
  <2>4. /\ task' \in [Conn -> {"read", "insert", "delete", "stats", "reply"}]
        /\ current' \in [Conn -> {0} \cup DOMAIN message']
        /\ item_id' \in [Conn -> Nat] /\ toInsert' \in [Conn -> Nat]
    BY <1>1
  <2> QED BY <1>0, <1>1, <2>1, <2>2, <2>3, <2>4 DEF StoreTypeOK
<1>3. TasksInv'
  <2>1. 0 \notin answered
    BY <1>0, StoreFacts DEF StoreTypeOK
  <2> QED BY <1>1, <2>1 DEF TasksInv
<1>4. RowsInv'
  BY <1>0, <1>1 DEF RowsInv, StatsBelong
<1>5. HeldInv'
  BY <1>1 DEF HeldInv
<1>6. DoneInv'
  <2> SUFFICES ASSUME NEW k \in MessageNumber, Done(k)' PROVE Kept(k)'
    BY DEF DoneInv
  <2>1. Done(k)
    <3>1. /\ k \in DOMAIN message /\ k \notin hurt /\ message[k].kind = "item"
          /\ k # 0 /\ k \notin {current[d] : d \in Conn} \ {0}
      BY <1>0, <1>1, StoreFacts DEF Done
    <3> QED BY <3>1 DEF Done
  <2>2. Kept(k)
    BY <1>0, <2>1 DEF DoneInv
  <2> QED BY <1>1, <2>2, KeptAlone DEF StatsOf
<1> QED BY <1>2, <1>3, <1>4, <1>5, <1>6 DEF StoreInv

(* Nobody is inside insert_item when the connection to SQLite is new.      *)
LEMMA RestartKeeps ==
  ASSUME StoreInv, Restart
  PROVE  StoreInv'
<1>0. StoreTypeOK /\ TasksInv /\ RowsInv /\ HeldInv /\ DoneInv
  BY DEF StoreInv
<1>1. /\ ~up /\ up' = TRUE /\ last_insert_rowid' = 0
      /\ UNCHANGED <<task, current, item_id, toInsert, mutex, item_rows,
                     item_stats, storedAs, message, answered, hurt>>
  BY DEF Restart, taskVars
<1>2. StoreTypeOK'
  BY <1>0, <1>1 DEF StoreTypeOK
<1>3. TasksInv'
  BY <1>0, <1>1 DEF TasksInv
<1>4. RowsInv'
  BY <1>0, <1>1 DEF RowsInv, StatsBelong
<1>5. HeldInv'
  <2>1. \A c \in Conn : task'[c] = "read"
    BY <1>0, <1>1 DEF TasksInv
  <2> QED BY <2>1 DEF HeldInv
<1>6. DoneInv'
  <2> SUFFICES ASSUME NEW k \in MessageNumber, Done(k)' PROVE Kept(k)'
    BY DEF DoneInv
  <2>1. Done(k)
    BY <1>1 DEF Done
  <2>2. Kept(k)
    BY <1>0, <2>1 DEF DoneInv
  <2> QED BY <1>1, <2>2, KeptAlone DEF StatsOf
<1> QED BY <1>2, <1>3, <1>4, <1>5, <1>6 DEF StoreInv

(* Every step of the store keeps the invariant.                            *)
LEMMA StoreInvNext == StoreInv /\ [StoreNext]_backendVars => StoreInv'
<1> SUFFICES ASSUME StoreInv, [StoreNext]_backendVars PROVE StoreInv'
  OBVIOUS
<1>1. ASSUME NEW c \in Conn, NEW l \in LineRead, read_line(c, l) PROVE StoreInv'
  BY <1>1, ReadLineKeeps
<1>2. ASSUME NEW c \in Conn, InsertItem(c) PROVE StoreInv'
  BY <1>2, InsertItemKeeps
<1>3. ASSUME NEW c \in Conn, DeleteStats(c) PROVE StoreInv'
  BY <1>3, DeleteStatsKeeps
<1>4. ASSUME NEW c \in Conn, InsertStat(c) PROVE StoreInv'
  BY <1>4, InsertStatKeeps
<1>5. ASSUME NEW c \in Conn, Inserted(c) PROVE StoreInv'
  BY <1>5, InsertedKeeps
<1>6. ASSUME NEW c \in Conn, StatementFails(c) PROVE StoreInv'
  BY <1>6, StatementFailsKeeps
<1>7. ASSUME NEW c \in Conn, Reply(c) PROVE StoreInv'
  BY <1>7, ReplyKeeps
<1>8. CASE Crash
  BY <1>8, CrashKeeps
<1>9. CASE Restart
  BY <1>9, RestartKeeps
<1>10. CASE UNCHANGED backendVars
  <2>0. StoreTypeOK /\ TasksInv /\ RowsInv /\ HeldInv /\ DoneInv
    BY DEF StoreInv
  <2>1. UNCHANGED <<up, task, current, item_id, toInsert, item_rows, item_stats,
                    last_insert_rowid, storedAs, mutex, message, answered, hurt>>
    BY <1>10 DEF backendVars, taskVars, storeVars
  <2>2. StoreTypeOK'
    BY <2>0, <2>1 DEF StoreTypeOK
  <2>3. TasksInv'
    BY <2>0, <2>1 DEF TasksInv
  <2>4. RowsInv'
    BY <2>0, <2>1 DEF RowsInv, StatsBelong
  <2>5. HeldInv'
    BY <2>0, <2>1 DEF HeldInv, StatsOf
  <2>6. DoneInv'
    <3> SUFFICES ASSUME NEW k \in MessageNumber, Done(k)' PROVE Kept(k)'
      BY DEF DoneInv
    <3>1. Done(k)
      BY <2>1 DEF Done
    <3>2. Kept(k)
      BY <2>0, <3>1 DEF DoneInv
    <3> QED BY <2>1, <3>2, KeptAlone DEF StatsOf
  <2> QED BY <2>2, <2>3, <2>4, <2>5, <2>6 DEF StoreInv
<1> QED
  BY <1>1, <1>2, <1>3, <1>4, <1>5, <1>6, <1>7, <1>8, <1>9, <1>10 DEF StoreNext

(* The invariant holds in every reachable state.                           *)
LEMMA StoreInvHolds == StoreSpec => []StoreInv
  BY StoreInvInit, StoreInvNext, PTL DEF StoreSpec

(* Types, and that the mutex is held by the task between two statements.   *)
THEOREM StoreTypesCorrect == StoreSpec => []StoreTypeOK
<1>1. StoreInv => StoreTypeOK
  BY DEF StoreInv
<1> QED BY <1>1, StoreInvHolds, PTL

(* No stat ever belongs to an item that has replaced its own.              *)
THEOREM StatsNeverStray == StoreSpec => []StatsBelong
<1>1. StoreInv => StatsBelong
  BY DEF StoreInv, RowsInv
<1> QED BY <1>1, StoreInvHolds, PTL

(* What was answered "ok" and no fault has hit is in the database, whole,  *)
(* or has been replaced by a later item.                                   *)
THEOREM AckedStaysWhole == StoreSpec => []AckedIsWhole
<1>1. StoreInv => AckedIsWhole
  <2> SUFFICES ASSUME StoreInv, NEW m \in answered \ hurt,
                      message[m].kind = "item"
               PROVE  storedAs[m] # 0 /\ (StoredWhole(m) \/ Superseded(m))
    BY DEF AckedIsWhole
  <2>1. StoreTypeOK /\ TasksInv /\ DoneInv
    BY DEF StoreInv
  <2>2. m \in DOMAIN message /\ m \in MessageNumber
    BY <2>1, StoreFacts DEF StoreTypeOK
  <2>3. Kept(m)
    BY <2>1, <2>2 DEF TasksInv, DoneInv, Done
  <2> QED BY <2>3 DEF Kept
<1> QED BY <1>1, StoreInvHolds, PTL

-----------------------------------------------------------------------------
(* What the readers see.  get_all_items and get_items_by_character hold    *)
(* the mutex while they read both tables: they see a state in which nobody *)
(* is inside insert_item.                                                  *)
Whole(r) == Cardinality(StatsOf(r.id)) = message[r.message].stats

ReadersSeeWholeItems ==
  mutex = None => \A r \in item_rows : r.message \in hurt \/ Whole(r)

(* There is no row yet for a message that waits for the mutex.             *)
NoRowBefore ==
  \A c \in Conn, r \in item_rows : task[c] = "insert" => r.message # current[c]

(* Rows come from InsertItem, with a message of the task's own.            *)
LEMMA NextNoRowBefore ==
  StoreInv /\ NoRowBefore /\ [StoreNext]_backendVars => NoRowBefore'
<1> SUFFICES ASSUME StoreInv, NoRowBefore, [StoreNext]_backendVars
             PROVE  NoRowBefore'
  OBVIOUS
<1>0. StoreTypeOK /\ TasksInv /\ RowsInv
  BY DEF StoreInv
<1>1. ASSUME NEW c \in Conn, NEW l \in LineRead, read_line(c, l)
      PROVE  NoRowBefore'
  <2>1. /\ item_rows' = item_rows /\ current'[c] = Len(message) + 1
        /\ \A d \in Conn \ {c} : task'[d] = task[d] /\ current'[d] = current[d]
    BY <1>0, <1>1 DEF read_line, storeVars, StoreTypeOK
  <2>2. \A r \in item_rows : r.message # Len(message) + 1
    BY <1>0, StoreFacts
  <2> QED BY <2>1, <2>2 DEF NoRowBefore
<1>2. ASSUME NEW c \in Conn, InsertItem(c) PROVE NoRowBefore'
  <2>1. /\ task[c] = "insert" /\ task'[c] = "delete" /\ current' = current
        /\ \A d \in Conn \ {c} : task'[d] = task[d]
    BY <1>0, <1>2 DEF InsertItem, StoreTypeOK
  <2>2. \A r \in item_rows' : r \in item_rows \/ r.message = current[c]
    BY <1>2 DEF InsertItem, Replace
  <2>3. \A d \in Conn \ {c} : current[d] # current[c]
    BY <1>0, <2>1 DEF TasksInv
  <2> QED BY <2>1, <2>2, <2>3 DEF NoRowBefore
<1>3. ASSUME item_rows' = item_rows,
             \A d \in Conn : task'[d] = "insert" =>
                               task[d] = "insert" /\ current'[d] = current[d]
      PROVE  NoRowBefore'
  BY <1>3 DEF NoRowBefore
<1> USE DEF StoreTypeOK, storeVars
<1>4. ASSUME NEW c \in Conn, DeleteStats(c) \/ InsertStat(c) \/ Inserted(c)
      PROVE  NoRowBefore'
  BY <1>0, <1>3, <1>4 DEF DeleteStats, InsertStat, Inserted, Leaves
<1>5. ASSUME NEW c \in Conn, StatementFails(c) PROVE NoRowBefore'
  BY <1>0, <1>3, <1>5 DEF StatementFails, Leaves
<1>6. ASSUME NEW c \in Conn, Reply(c) PROVE NoRowBefore'
  BY <1>0, <1>3, <1>6 DEF Reply
<1>7. CASE Crash \/ Restart \/ UNCHANGED backendVars
  BY <1>0, <1>3, <1>7 DEF Crash, Restart, backendVars, taskVars
<1> QED BY <1>1, <1>2, <1>4, <1>5, <1>6, <1>7 DEF StoreNext

(* A row that is there while the mutex is free, and whose message no fault *)
(* has hit, is whole: it is kept, and it is the row it was stored as.      *)
LEMMA StoredIsWhole == StoreInv /\ NoRowBefore => ReadersSeeWholeItems
<1> SUFFICES ASSUME StoreInv, NoRowBefore, mutex = None,
                    NEW r \in item_rows, r.message \notin hurt
             PROVE  Whole(r)
  BY DEF ReadersSeeWholeItems
<1>0. StoreTypeOK /\ TasksInv /\ RowsInv /\ DoneInv /\ StatsBelong
  BY DEF StoreInv, RowsInv
<1> DEFINE m == r.message
<1>1. m \in DOMAIN message /\ m \in MessageNumber
  BY <1>0, StoreFacts
<1>2. message[m].kind = "item" /\ message[m].slot = r.slot /\ storedAs[m] = r.id
  BY <1>0 DEF RowsInv
<1>3. \A c \in Conn : task[c] \notin {"delete", "stats"}
  BY <1>0, BackendAssumption DEF StoreTypeOK
<1>4. Done(m)
  BY <1>1, <1>2, <1>3 DEF NoRowBefore, Done
<1>5. Kept(m)
  BY <1>0, <1>1, <1>4 DEF DoneInv
<1>6. ~Superseded(m)
  <2> SUFFICES ASSUME NEW q \in item_rows, q.slot = message[m].slot, q.id > storedAs[m]
               PROVE  FALSE
    BY DEF Superseded
  <2>1. q = r
    BY <1>0, <1>2 DEF StatsBelong
  <2>2. r.id \in Nat
    BY <1>0, StoreFacts
  <2> QED BY <1>2, <2>1, <2>2
<1>7. PICK q \in item_rows :
        /\ q.message = m
        /\ Cardinality({s \in item_stats : s.item_id = q.id}) = message[m].stats
  BY <1>5, <1>6 DEF Kept, StoredWhole
<1>8. q = r
  <2>1. storedAs[m] = q.id
    BY <1>0, <1>7 DEF RowsInv
  <2> QED BY <1>0, <1>2, <2>1 DEF StatsBelong
<1> QED BY <1>7, <1>8 DEF Whole, StatsOf

(* Who reads the items never meets one whose stats are still being         *)
(* inserted: an item is whole, or a refused statement or a crash has cut   *)
(* it short.                                                               *)
(* The readers of database.rs lock the mutex for this.  Nothing in the     *)
(* server calls them yet.                                                  *)
THEOREM NobodyReadsHalfAnItem == StoreSpec => []ReadersSeeWholeItems
<1>1. StoreInit => NoRowBefore
  BY DEF StoreInit, NoRowBefore
<1> QED
  BY <1>1, NextNoRowBefore, StoredIsWhole, StoreInvHolds, PTL DEF StoreSpec

(* While no statement is refused and the process is not killed, every item *)
(* in the database is whole whenever it is read.                           *)
THEOREM FaultlessStoreIsWhole ==
  ASSUME Faults = {}
  PROVE  StoreSpec => [](mutex = None => \A r \in item_rows : Whole(r))
<1>1. StoreInit => hurt = {}
  BY DEF StoreInit
<1>2. hurt = {} /\ [StoreNext]_backendVars => (hurt = {})'
  BY DEF StoreNext, read_line, InsertItem, DeleteStats, InsertStat, Inserted,
         StatementFails, Reply, Crash, Restart, backendVars
<1>3. ReadersSeeWholeItems /\ hurt = {} => (mutex = None => \A r \in item_rows : Whole(r))
  BY DEF ReadersSeeWholeItems
<1> QED BY <1>1, <1>2, <1>3, NobodyReadsHalfAnItem, PTL DEF StoreSpec

(* A slot, once it has an item, is never empty again, and its item is only *)
(* replaced by one inserted later, whatever is read, fails or is killed.   *)
SlotsMoveOn ==
  \A r \in item_rows : \E q \in item_rows' : q.slot = r.slot /\ (q = r \/ q.id > r.id)

(* SQLite numbers the new row above all others before the old one is gone. *)
THEOREM SlotsOnlyMoveOn == StoreSpec => [][SlotsMoveOn]_backendVars
<1>1. ASSUME StoreInv, [StoreNext]_backendVars PROVE [SlotsMoveOn]_backendVars
  <2>1. ASSUME NEW c \in Conn, InsertItem(c) PROVE SlotsMoveOn
    <3> DEFINE m == current[c]
               old == {r \in item_rows : r.slot = message[m].slot}
               row == [id |-> NewId(item_rows), slot |-> message[m].slot, message |-> m]
    <3>1. item_rows' = (item_rows \ old) \cup {row}
      BY <2>1 DEF InsertItem, Replace
    <3>2. StoreTypeOK /\ IsFiniteSet(item_rows)
      BY <1>1 DEF StoreInv, RowsInv
    <3>3. \A r \in item_rows : r.id < NewId(item_rows) /\ r.id \in Nat
      BY <3>2, StoreFacts, NewIdIsNew
    <3>4. NewId(item_rows) \in Nat
      BY <3>2, StoreFacts, NewIdIsNew
    <3>5. \A r \in item_rows : row.id > r.id
      BY <3>3, <3>4
    <3>6. \A r \in old : row.slot = r.slot
      OBVIOUS
    <3> HIDE DEF row
    <3> QED BY <3>1, <3>5, <3>6 DEF SlotsMoveOn
  <2>2. item_rows' = item_rows => SlotsMoveOn
    BY DEF SlotsMoveOn
  <2> QED
    BY <1>1, <2>1, <2>2
    DEF StoreNext, read_line, DeleteStats, InsertStat, Inserted, StatementFails,
        Reply, Crash, Restart, backendVars, storeVars
<1> QED BY <1>1, StoreInvHolds, PTL DEF StoreSpec

-----------------------------------------------------------------------------
(* The part of EveryItemProcessed that is no matter of fairness: what is    *)
(* left to do for the line that a task is processing.                      *)
WorkLeft(c) ==
  CASE task[c] = "insert" -> message[current[c]].stats + 4
    [] task[c] = "delete" -> message[current[c]].stats + 3
    [] task[c] = "stats"  -> toInsert[c] + 2
    [] task[c] = "reply"  -> 1
    [] task[c] = "read"   -> 0

(* Each step of a task leaves less to do, also one that SQLite refuses,    *)
(* and no step of another task adds to it.                                 *)
WorkShrinks ==
  \A c \in Conn : /\ WorkLeft(c) \in Nat
                  /\ task[c] # "read" => WorkLeft(c)' <= WorkLeft(c)
                  /\ TaskStep(c) \/ Reply(c) \/ StatementFails(c) => WorkLeft(c)' < WorkLeft(c)

(* The work of a task is a number, and none only for one that reads.       *)
LEMMA WorkLeftIsNat ==
  ASSUME StoreInv, NEW c \in Conn
  PROVE  /\ WorkLeft(c) \in Nat
         /\ task[c] \in {"insert", "delete"} => message[current[c]].stats \in Nat
         /\ task[c] \in {"insert", "delete", "stats"} => WorkLeft(c) >= 2
<1>0. StoreTypeOK /\ TasksInv
  BY DEF StoreInv
<1>1. toInsert[c] \in Nat /\ task[c] \in {"read", "insert", "delete", "stats", "reply"}
  BY <1>0 DEF StoreTypeOK
<1>2. ASSUME task[c] \in {"insert", "delete"} PROVE message[current[c]].stats \in Nat
  <2>1. current[c] \in DOMAIN message /\ message[current[c]].kind = "item"
    BY <1>0, <1>2 DEF TasksInv, StoreTypeOK
  <2> QED BY <1>0, <2>1, StoreFacts, ItemLine
<1> QED BY <1>1, <1>2 DEF WorkLeft

(* The same as a formula about all tasks.                                  *)
LEMMA AllWorkIsNat == StoreInv => \A c \in Conn : WorkLeft(c) \in Nat
  BY WorkLeftIsNat

(* And in the next state.                                                  *)
LEMMA AllWorkStaysNat == StoreInv' => (\A c \in Conn : WorkLeft(c) \in Nat)'
  BY AllWorkIsNat, PTL

(* A task that is not touched has the same work before it.                 *)
LEMMA SameWork ==
  ASSUME StoreInv, NEW d \in Conn, task'[d] = task[d], current'[d] = current[d],
         toInsert'[d] = toInsert[d],
         \A m \in DOMAIN message : message'[m] = message[m]
  PROVE  WorkLeft(d)' = WorkLeft(d)
<1>1. task[d] \in {"insert", "delete"} => current[d] \in DOMAIN message
  BY DEF StoreInv, TasksInv, StoreTypeOK
<1>2. CASE task[d] \in {"insert", "delete"}
  <2>1. message'[current'[d]] = message[current[d]]
    BY <1>1, <1>2
  <2> QED BY <1>2, <2>1 DEF WorkLeft
<1>3. CASE task[d] \notin {"insert", "delete"}
  <2>1. task[d] \in {"read", "stats", "reply"}
    BY <1>3 DEF StoreInv, StoreTypeOK
  <2> QED BY <2>1 DEF WorkLeft
<1> QED BY <1>2, <1>3

(* A task's own step brings it nearer to the answer.                       *)
LEMMA OwnStepShrinks ==
  ASSUME StoreInv, NEW c \in Conn, TaskStep(c) \/ Reply(c) \/ StatementFails(c)
  PROVE  WorkLeft(c)' < WorkLeft(c)
<1>0. StoreTypeOK /\ WorkLeft(c) \in Nat
      /\ (task[c] \in {"insert", "delete"} => message[current[c]].stats \in Nat)
      /\ (task[c] \in {"insert", "delete", "stats"} => WorkLeft(c) >= 2)
  BY WorkLeftIsNat DEF StoreInv
<1> USE DEF StoreTypeOK
<1>1. CASE InsertItem(c)
  <2>1. task[c] = "insert" /\ task'[c] = "delete" /\ UNCHANGED <<message, current>>
    BY <1>0, <1>1 DEF InsertItem
  <2> QED BY <1>0, <2>1 DEF WorkLeft
<1>2. CASE DeleteStats(c)
  <2>1. /\ task[c] = "delete" /\ task'[c] = "stats"
        /\ toInsert'[c] = message[current[c]].stats
    BY <1>0, <1>2 DEF DeleteStats
  <2> QED BY <1>0, <2>1 DEF WorkLeft
<1>3. CASE InsertStat(c)
  <2>1. /\ task[c] = "stats" /\ task'[c] = "stats" /\ toInsert[c] \in Nat
        /\ toInsert'[c] = toInsert[c] - 1
    BY <1>0, <1>3 DEF InsertStat
  <2> QED BY <2>1 DEF WorkLeft
<1>4. CASE Inserted(c) \/ StatementFails(c)
  <2>1. task[c] \in {"insert", "delete", "stats"} /\ task'[c] = "reply"
    BY <1>0, <1>4 DEF Inserted, StatementFails, Leaves
  <2>2. WorkLeft(c)' = 1
    BY <2>1 DEF WorkLeft
  <2> QED BY <1>0, <2>1, <2>2
<1>5. CASE Reply(c)
  <2>1. task[c] = "reply" /\ task'[c] = "read"
    BY <1>0, <1>5 DEF Reply
  <2> QED BY <2>1 DEF WorkLeft
<1> QED BY <1>1, <1>2, <1>3, <1>4, <1>5 DEF TaskStep

(* A line is answered after no more steps of its task than its item has    *)
(* stats and four: the task never starts over.                             *)
THEOREM TasksGetOn == StoreSpec => [][WorkShrinks]_backendVars
<1>1. ASSUME StoreInv, [StoreNext]_backendVars PROVE [WorkShrinks]_backendVars
  <2> SUFFICES ASSUME StoreNext, NEW c \in Conn
               PROVE  task[c] # "read" => WorkLeft(c)' <= WorkLeft(c)
    BY <1>1, WorkLeftIsNat, OwnStepShrinks DEF WorkShrinks
  <2> HAVE task[c] # "read"
  <2>0. StoreTypeOK /\ WorkLeft(c) \in Nat
    BY <1>1, WorkLeftIsNat DEF StoreInv
  <2>1. CASE Crash
    <3>1. task'[c] = "read"
      BY <2>1 DEF Crash
    <3>2. WorkLeft(c)' = 0
      BY <3>1 DEF WorkLeft
    <3> QED BY <2>0, <3>2
  <2>2. CASE Restart
    BY <1>1, <2>0, <2>2, SameWork DEF Restart, taskVars
  <2>3. ASSUME NEW d \in Conn, NEW l \in LineRead, read_line(d, l)
        PROVE  WorkLeft(c)' <= WorkLeft(c)
    <3>1. /\ d # c /\ task'[c] = task[c] /\ current'[c] = current[c]
          /\ toInsert'[c] = toInsert[c]
      BY <2>0, <2>3 DEF read_line, StoreTypeOK
    <3>2. \A m \in DOMAIN message : message'[m] = message[m]
      BY <2>0, <2>3 DEF read_line, StoreTypeOK
    <3> QED BY <1>1, <2>0, <3>1, <3>2, SameWork
  <2>4. ASSUME NEW d \in Conn, TaskStep(d) \/ Reply(d) \/ StatementFails(d)
        PROVE  WorkLeft(c)' <= WorkLeft(c)
    <3>1. CASE d = c
      <4>1. WorkLeft(c)' < WorkLeft(c)
        BY <1>1, <2>4, <3>1, OwnStepShrinks
      <4>2. WorkLeft(c)' \in Nat
        <5>1. StoreInv'
          BY <1>1, StoreInvNext
        <5> QED BY <5>1, AllWorkStaysNat
      <4> QED BY <2>0, <4>1, <4>2
    <3>2. CASE d # c
      <4>1. /\ task'[c] = task[c] /\ current'[c] = current[c]
            /\ toInsert'[c] = toInsert[c] /\ message' = message
        BY <2>0, <2>4, <3>2
        DEF TaskStep, InsertItem, DeleteStats, InsertStat, Inserted, StatementFails, Reply,
            Leaves, StoreTypeOK
      <4> QED BY <1>1, <2>0, <4>1, SameWork
    <3> QED BY <3>1, <3>2
  <2> QED BY <2>1, <2>2, <2>3, <2>4 DEF StoreNext, TaskStep
<1> QED BY <1>1, StoreInvHolds, PTL DEF StoreSpec

(* Who waits for the mutex waits for a task that has a statement to run:   *)
(* the holder is inside insert_item, waits for nobody and, by TasksGetOn,  *)
(* leaves it; a failed statement and a crash release it as well.           *)
HolderWorks == mutex # None => up /\ task[mutex] \in {"delete", "stats"}

(* Nobody waits for a mutex that is never given back.                      *)
THEOREM HolderNeverWaits == StoreSpec => []HolderWorks
<1>1. StoreInv => HolderWorks
  BY DEF StoreInv, StoreTypeOK, TasksInv, HolderWorks
<1> QED BY <1>1, StoreInvHolds, PTL
=============================================================================
