------------------------------ MODULE Backend -------------------------------
(***************************************************************************)
(* The store of the Rust backend (gdia-tauri/src/tcp_server.rs and         *)
(* database.rs).                                                           *)
(*                                                                         *)
(* A task per connection reads a line, processes it and answers.  A line   *)
(* with an item is stored by insert_item: the item replaces the one in its *)
(* slot, then its stats are inserted one by one.  Each statement commits   *)
(* by itself; the mutex around the SQLite connection keeps the statements  *)
(* of two tasks apart.  SQLite deletes the stats of a replaced item (ON    *)
(* DELETE CASCADE) and numbers a row one above the highest number in use.  *)
(*                                                                         *)
(* A slot is a character, tab and position.  Messages are numbered in the  *)
(* order they are read, and what a record or a stat says is left out.  An  *)
(* element of Conn is a place for a task: a task ends when its connection  *)
(* does (end of file, a read that fails or is not UTF-8, an answer that    *)
(* cannot be written), and the next connection's task takes the place.     *)
(* Between two lines this leaves no trace.                                 *)
(***************************************************************************)
EXTENDS Naturals, Sequences, FiniteSets, FiniteSetsExt

CONSTANTS
  Conn,        \* connections
  Slot,        \* stash positions
  StatCount,   \* how many stats an item may have
  LineMax,     \* bound on the lines read
  Faults,      \* the faults that may happen
  None         \* nobody holds the mutex

ASSUME BackendAssumption ==
  /\ StatCount \subseteq Nat /\ LineMax \in Nat \ {0}
  /\ Faults \subseteq {"statement",  \* SQLite refuses a statement
                       "crash"}      \* the process is killed
  /\ None \notin Conn

VARIABLES
  up,                \* the process runs
  task,              \* task[c]: "read", "insert", "delete", "stats", "reply"
  current,           \* current[c]: the message being processed, 0 if none
  item_id,           \* item_id[c]: local of insert_item
  toInsert,          \* toInsert[c]: stats the loop has not come to
  mutex,             \* the task inside insert_item
  item_rows,         \* table items: rows [id, slot, message]
  item_stats,        \* table item_stats: rows [id, item_id, message]
  last_insert_rowid, \* of the SQLite connection
  message,           \* history: the lines read
  storedAs,          \* history: the number an item was inserted with
  answered,          \* history: messages whose answer "ok" was written
  hurt               \* history: messages that a fault has hit

taskVars  == <<task, current, item_id, toInsert>>
storeVars == <<item_rows, item_stats, last_insert_rowid, storedAs>>
backendVars  == <<up, taskVars, mutex, storeVars, message, answered, hurt>>

MessageNumber == 1..LineMax

(* The stats of a line are those with a name and a value; others are not   *)
(* passed to insert_item.                                                  *)
LineRead == {[kind |-> k] : k \in {"malformed", "other"}}
          \cup [kind : {"item"}, slot : Slot, stats : StatCount]

StoreInit ==
  /\ up = TRUE
  /\ task = [c \in Conn |-> "read"] /\ current = [c \in Conn |-> 0]
  /\ item_id = [c \in Conn |-> 0] /\ toInsert = [c \in Conn |-> 0]
  /\ mutex = None
  /\ item_rows = {} /\ item_stats = {} /\ last_insert_rowid = 0
  /\ message = <<>>
  /\ storedAs = [m \in MessageNumber |-> 0] /\ answered = {} /\ hurt = {}

-----------------------------------------------------------------------------
(* handle_connection reads a line; process_message parses it.  One without *)
(* item data, with fields missing or of another type is answered "ok".     *)
read_line(c, l) ==
  /\ up /\ task[c] = "read"
  /\ Len(message) < LineMax
  /\ message' = Append(message, l)
  /\ current' = [current EXCEPT ![c] = Len(message) + 1]
  /\ task' = [task EXCEPT ![c] = IF l.kind = "item" THEN "insert" ELSE "reply"]
  /\ UNCHANGED <<up, item_id, toInsert, mutex, storeVars, answered, hurt>>

Leaves(c) ==
  /\ mutex' = None
  /\ task' = [task EXCEPT ![c] = "reply"]

(* Mutant: rows are numbered by counting them.                             *)
NewIdByCount(rows) == Cardinality(rows) + 1

(* A number one above those in use.                                        *)
NewId(rows) == Max({0} \cup {r.id : r \in rows}) + 1

(* INSERT OR REPLACE.                                                      *)
Replace(c) ==
  LET m == current[c]
      old == {r \in item_rows : r.slot = message[m].slot}
      row == [id |-> NewId(item_rows), slot |-> message[m].slot, message |-> m]
  IN /\ item_rows' = (item_rows \ old) \cup {row}
     /\ item_stats' = {s \in item_stats : \A r \in old : s.item_id # r.id}
     /\ last_insert_rowid' = row.id
     /\ storedAs' = [storedAs EXCEPT ![m] = row.id]

(* Mutant: the mutex is taken for each statement.                          *)
InsertItemUnlocked(c) ==
  /\ up /\ task[c] = "insert"
  /\ Replace(c)
  /\ task' = [task EXCEPT ![c] = "delete"]
  /\ UNCHANGED <<up, current, item_id, toInsert, mutex, message, answered,
                 hurt>>

InsertItem(c) ==
  /\ up /\ task[c] = "insert" /\ mutex = None
  /\ mutex' = c
  /\ Replace(c)
  /\ task' = [task EXCEPT ![c] = "delete"]
  /\ UNCHANGED <<up, current, item_id, toInsert, message, answered, hurt>>

(* last_insert_rowid, and the stats of that number are deleted.            *)
DeleteStats(c) ==
  /\ up /\ task[c] = "delete"
  /\ item_id' = [item_id EXCEPT ![c] = last_insert_rowid]
  /\ item_stats' = {s \in item_stats : s.item_id # last_insert_rowid}
  /\ toInsert' = [toInsert EXCEPT ![c] = message[current[c]].stats]
  /\ task' = [task EXCEPT ![c] = "stats"]
  /\ UNCHANGED <<up, current, mutex, item_rows, last_insert_rowid, storedAs,
                 message, answered, hurt>>

InsertStat(c) ==
  /\ up /\ task[c] = "stats" /\ toInsert[c] > 0
  /\ LET id == NewId(item_stats)
     IN /\ item_stats' = item_stats \cup
             {[id |-> id, item_id |-> item_id[c], message |-> current[c]]}
        /\ last_insert_rowid' = id
  /\ toInsert' = [toInsert EXCEPT ![c] = @ - 1]
  /\ UNCHANGED <<up, task, current, item_id, mutex, item_rows, storedAs,
                 message, answered, hurt>>

Inserted(c) ==
  /\ up /\ task[c] = "stats" /\ toInsert[c] = 0
  /\ Leaves(c)
  /\ UNCHANGED <<up, current, item_id, toInsert, storeVars, message, answered,
                 hurt>>

-----------------------------------------------------------------------------
(* Mutant: a failure leaves insert_item without dropping the guard.        *)
StatementFailsLocked(c) ==
  /\ "statement" \in Faults
  /\ up /\ \/ task[c] = "insert" /\ mutex = None
           \/ task[c] = "delete"
           \/ task[c] = "stats" /\ toInsert[c] > 0
  /\ mutex' = c
  /\ task' = [task EXCEPT ![c] = "reply"]
  /\ hurt' = hurt \cup {current[c]}
  /\ UNCHANGED <<up, current, item_id, toInsert, storeVars, message, answered>>

(* SQLite refuses a statement: the error is printed and the line answered  *)
(* "ok" all the same; what was inserted before stays.                      *)
StatementFails(c) ==
  /\ "statement" \in Faults
  /\ up /\ \/ task[c] = "insert" /\ mutex = None
           \/ task[c] = "delete"
           \/ task[c] = "stats" /\ toInsert[c] > 0
  /\ Leaves(c)
  /\ hurt' = hurt \cup {current[c]}
  /\ UNCHANGED <<up, current, item_id, toInsert, storeVars, message, answered>>

(* The answer, "error" for a line that could not be parsed; or none, when  *)
(* write_all fails, which ends the task.  It may also wait for ever, for a *)
(* client that does not read: see StoreFairness.                           *)
Reply(c) ==
  /\ up /\ task[c] = "reply"
  /\ \/ UNCHANGED answered
     \/ /\ message[current[c]].kind # "malformed"
        /\ answered' = answered \cup {current[c]}
  /\ task' = [task EXCEPT ![c] = "read"]
  /\ current' = [current EXCEPT ![c] = 0]
  /\ item_id' = [item_id EXCEPT ![c] = 0]
  /\ toInsert' = [toInsert EXCEPT ![c] = 0]
  /\ UNCHANGED <<up, mutex, storeVars, message, hurt>>

(* The process is killed and started again: the database remains.          *)
Crash ==
  /\ "crash" \in Faults /\ up
  /\ up' = FALSE
  /\ hurt' = hurt \cup ({current[c] : c \in Conn} \ {0})
  /\ task' = [c \in Conn |-> "read"] /\ current' = [c \in Conn |-> 0]
  /\ item_id' = [c \in Conn |-> 0] /\ toInsert' = [c \in Conn |-> 0]
  /\ mutex' = None
  /\ UNCHANGED <<storeVars, message, answered>>

Restart ==
  /\ ~up
  /\ up' = TRUE
  /\ last_insert_rowid' = 0
  /\ UNCHANGED <<taskVars, mutex, item_rows, item_stats, storedAs, message,
                 answered, hurt>>

(* A task in insert_item, which waits for nothing but the mutex.           *)
Storing(c) == task[c] \in {"insert", "delete", "stats"}

TaskStep(c) == InsertItem(c) \/ DeleteStats(c) \/ InsertStat(c) \/ Inserted(c)

StoreNext ==
  \/ \E c \in Conn : \E l \in LineRead : read_line(c, l)
  \/ \E c \in Conn : InsertItem(c)
  \/ \E c \in Conn : DeleteStats(c)
  \/ \E c \in Conn : InsertStat(c)
  \/ \E c \in Conn : Inserted(c)
  \/ \E c \in Conn : StatementFails(c)
  \/ \E c \in Conn : Reply(c)
  \/ Crash
  \/ Restart

StoreSpec == StoreInit /\ [][StoreNext]_backendVars

(* insert_item runs on while it can.  Nothing is assumed of an answer: a   *)
(* client that does not read it keeps its task in write_all.  Nor is the   *)
(* mutex fair; that others get in first ends with the lines they read.     *)
StoreFairness == \A c \in Conn : WF_backendVars(TaskStep(c))

-----------------------------------------------------------------------------
(* The variables hold what their declarations say, and the mutex is held   *)
(* by the task that is between two statements of insert_item.              *)
StoreTypeOK ==
  /\ up \in BOOLEAN
  /\ task \in [Conn -> {"read", "insert", "delete", "stats", "reply"}]
  /\ current \in [Conn -> {0} \cup DOMAIN message]
  /\ item_id \in [Conn -> Nat] /\ toInsert \in [Conn -> Nat]
  /\ mutex \in Conn \cup {None}
  /\ \A c \in Conn : mutex = c <=> task[c] \in {"delete", "stats"}
  /\ item_rows \subseteq [id : Nat \ {0}, slot : Slot, message : DOMAIN message]
  /\ item_stats \subseteq
       [id : Nat \ {0}, item_id : Nat, message : DOMAIN message]
  /\ last_insert_rowid \in Nat
  /\ message \in Seq(LineRead) /\ Len(message) <= LineMax
  /\ storedAs \in [MessageNumber -> Nat]
  /\ answered \subseteq DOMAIN message /\ hurt \subseteq DOMAIN message

(* A slot holds one item, and a stat belongs to an item that is there and  *)
(* came with the same message: never to one that replaced it.              *)
StatsBelong ==
  /\ \A r, s \in item_rows : r.slot = s.slot \/ r.id = s.id => r = s
  /\ \A s \in item_stats : \E r \in item_rows :
       s.item_id = r.id /\ s.message = r.message

StoredWhole(m) == \E r \in item_rows :
  /\ r.message = m
  /\ Cardinality({s \in item_stats : s.item_id = r.id}) = message[m].stats

Superseded(m) ==
  \E r \in item_rows : r.slot = message[m].slot /\ r.id > storedAs[m]

(* An item answered "ok" that no fault has hit is stored with all its      *)
(* stats, unless an item inserted later has taken its slot.                *)
AckedIsWhole ==
  \A m \in answered \ hurt :
    message[m].kind = "item" =>
      storedAs[m] # 0 /\ (StoredWhole(m) \/ Superseded(m))

(* Whoever waits for the mutex gets it and is done with it: every item     *)
(* that is read is stored or refused, unless the process is killed first,  *)
(* though a client that does not read its answers keeps its own task for   *)
(* ever.                                                                   *)
EveryItemProcessed == \A c \in Conn : Storing(c) ~> ~Storing(c)
=============================================================================
