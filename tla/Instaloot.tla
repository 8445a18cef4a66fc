----------------------------- MODULE Instaloot -----------------------------
(***************************************************************************)
(* The item pipeline between the game's transfer stash and Item Assistant  *)
(* (HookDll/Hook/InventorySack_AddItem.cpp).                               *)
(*                                                                         *)
(* An item leaves the game as a CSV in itemqueue\ingoing (HandleItem,      *)
(* Persist) and comes back as a CSV in itemqueue\outgoing\<mode>, which a  *)
(* listener thread (ThreadMain) puts on m_depositQueue and the hook on     *)
(* GameEngine::Update turns into an item, moving the file to               *)
(* itemqueue\deleted, or back to ingoing when the item cannot be created   *)
(* or the tab is full.  Three threads share the state: the game thread,    *)
(* the worker that calls SetActive, and one or more listeners.             *)
(*                                                                         *)
(* A mode stands for a pair (hardcore flag, mod name): each has its own    *)
(* stash and its own outgoing folder.  A file keeps its identity when it   *)
(* is moved: randomFilename never repeats a name, so a path identifies a   *)
(* file and a path that was left behind by a move resolves to nothing.     *)
(* Positions in a tab (SortInventorySack), notifications and logging are   *)
(* left out, and an Update call skipped by the 30-call throttle is a       *)
(* stuttering step.                                                        *)
(***************************************************************************)
EXTENDS Naturals

CONSTANTS
  Item,       \* the items of the player
  File,       \* names of CSV files
  Mode,       \* (hardcore, mod) pairs: a stash and an outgoing folder each
  TwoTabs,    \* modes whose stash has the two tabs the hook asks for
  IA,         \* Item Assistant's own store of items
  Listener,   \* slots for threads running ThreadMain; bounds the threads alive
  MaxCopies,  \* bound on the copies of one item a store may hold
  Faults,     \* the faults that may happen
  None        \* no file, no move in progress

FaultKinds == {"move",     \* MoveFile fails
               "persist",  \* the disk fills up while Persist writes
               "create",   \* a game call throws during a deposit
               "convert",  \* Persist throws after the item's line is written
               "listing",  \* directory_iterator throws
               "partial",  \* Item Assistant's CSV is visible while being written
               "crash"}    \* the game dies in the middle of a deposit

Store == Mode \cup {IA}

FileState == [place   : {"ingoing", "outgoing", "deleted"},
              mode    : Mode,
              item    : Item,
              content : {"whole", "open", "torn"}]

MoveOp == [path : File, to : {"ingoing", "deleted"}, added : BOOLEAN]

ASSUME ConstantsAssumption ==
  /\ IA \notin Mode /\ TwoTabs \subseteq Mode
  /\ MaxCopies \in Nat /\ MaxCopies >= 1
  /\ Faults \subseteq FaultKinds
  /\ None \notin FileState /\ None \notin MoveOp

VARIABLES
  stock,                  \* stock[s][i]: copies of item i in store s
  file,                   \* file[f]: the CSV called f, or None
  mode,                   \* the mode of the character being played
  ready,                  \* neither loading nor waiting, and online
  m_isActive,
  m_isTransferStashOpen,
  m_depositQueue,
  pc,                     \* per listener: "off", "test", "sleep" or "scan"
  knownFiles,             \* per listener
  found,                  \* per listener: entries of the directory_iterator left
  draining,               \* the game thread holds m_mutex and is in the loop
  todo,                   \* queue entries the loop has not come to
  moving,                 \* the entry between ReadReplicaInfo and MoveFile
  stuck,                  \* history: files whose MoveFile failed
  damaged                 \* history: items hit by a fault (see Conservation)

gameVars     == <<mode, ready, m_isTransferStashOpen>>
listenerVars == <<pc, knownFiles, found>>
drainVars    == <<draining, todo, moving>>
vars == <<stock, file, gameVars, m_isActive, m_depositQueue, listenerVars,
          drainVars, stuck, damaged>>

InOutgoing(f) == file[f] # None /\ file[f].place = "outgoing"

(* A name nobody refers to: what randomFilename, or Item Assistant, picks. *)
Fresh(f) == /\ file[f] = None
            /\ f \notin m_depositQueue \cup stuck
            /\ \A t \in Listener : f \notin knownFiles[t] \cup found[t]

(* Every item starts in the stash of one mode; the hook is not active.     *)
Init ==
  /\ \E home \in [Item -> Mode] :
       stock = [s \in Store |-> [i \in Item |-> IF home[i] = s THEN 1 ELSE 0]]
  /\ file = [f \in File |-> None]
  /\ mode \in Mode
  /\ ready = FALSE
  /\ m_isActive = FALSE
  /\ m_isTransferStashOpen = FALSE
  /\ m_depositQueue = {}
  /\ pc = [t \in Listener |-> "off"]
  /\ knownFiles = [t \in Listener |-> {}]
  /\ found = [t \in Listener |-> {}]
  /\ draining = FALSE /\ todo = {} /\ moving = None
  /\ stuck = {} /\ damaged = {}

-----------------------------------------------------------------------------
(* Mutant: turning active forgets to start the listener.                   *)
SetActiveNoThread(isActive) ==
  /\ m_isActive' = isActive
  /\ UNCHANGED <<stock, file, gameVars, m_depositQueue, listenerVars, drainVars,
                 stuck, damaged>>

(* The worker thread, which polls for Item Assistant's window, and the     *)
(* start-up code call SetActive; turning active starts a listener.         *)
SetActive(isActive) ==
  /\ m_isActive' = isActive
  /\ IF isActive /\ ~m_isActive
     THEN \E t \in Listener : /\ pc[t] = "off"
                              /\ pc' = [pc EXCEPT ![t] = "test"]
     ELSE UNCHANGED pc
  /\ UNCHANGED <<stock, file, gameVars, m_depositQueue, knownFiles, found,
                 drainVars, stuck, damaged>>

-----------------------------------------------------------------------------
(* ThreadMain: the test of the loop.  Leaving it drops knownFiles.         *)
ListenerTest(t) ==
  /\ pc[t] = "test"
  /\ IF m_isActive
     THEN pc' = [pc EXCEPT ![t] = "sleep"] /\ UNCHANGED knownFiles
     ELSE /\ pc' = [pc EXCEPT ![t] = "off"]
          /\ knownFiles' = [knownFiles EXCEPT ![t] = {}]
  /\ UNCHANGED <<stock, file, gameVars, m_isActive, m_depositQueue, found,
                 drainVars, stuck, damaged>>

(* After the sleep the folder of the mode played now is listed; the        *)
(* listing may be out of date by the time an entry is looked at.           *)
ListenerList(t) ==
  /\ pc[t] = "sleep"
  /\ pc' = [pc EXCEPT ![t] = "scan"]
  /\ found' = [found EXCEPT ![t] =
       {f \in File : InOutgoing(f) /\ file[f].mode = mode} \ knownFiles[t]]
  /\ UNCHANGED <<stock, file, gameVars, m_isActive, m_depositQueue, knownFiles,
                 drainVars, stuck, damaged>>

(* No engine or no GameInfo yet: the loop continues without listing.       *)
ListenerNoGame(t) ==
  /\ pc[t] = "sleep" /\ ~ready
  /\ pc' = [pc EXCEPT ![t] = "test"]
  /\ UNCHANGED <<stock, file, gameVars, m_isActive, m_depositQueue, knownFiles,
                 found, drainVars, stuck, damaged>>

(* Mutant: the insertion does not take m_mutex.                            *)
ListenerInsertUnlocked(t) ==
  /\ pc[t] = "scan"
  /\ \E f \in found[t] :
       /\ m_depositQueue' = m_depositQueue \cup {f}
       /\ knownFiles' = [knownFiles EXCEPT ![t] = @ \cup {f}]
       /\ found' = [found EXCEPT ![t] = @ \ {f}]
  /\ UNCHANGED <<stock, file, gameVars, m_isActive, pc, drainVars, stuck, damaged>>

(* One entry, under m_mutex: queue it and remember it.                     *)
ListenerInsert(t) ==
  /\ pc[t] = "scan" /\ ~draining
  /\ \E f \in found[t] :
       /\ m_depositQueue' = m_depositQueue \cup {f}
       /\ knownFiles' = [knownFiles EXCEPT ![t] = @ \cup {f}]
       /\ found' = [found EXCEPT ![t] = @ \ {f}]
  /\ UNCHANGED <<stock, file, gameVars, m_isActive, pc, drainVars, stuck, damaged>>

ListenerScanned(t) ==
  /\ pc[t] = "scan" /\ found[t] = {}
  /\ pc' = [pc EXCEPT ![t] = "test"]
  /\ UNCHANGED <<stock, file, gameVars, m_isActive, m_depositQueue, knownFiles,
                 found, drainVars, stuck, damaged>>

(* An exception leaves the loop: the listener is gone, m_isActive is not.  *)
ListenerThrows(t) ==
  /\ "listing" \in Faults
  /\ pc[t] \in {"sleep", "scan"}
  /\ pc' = [pc EXCEPT ![t] = "off"]
  /\ knownFiles' = [knownFiles EXCEPT ![t] = {}]
  /\ found' = [found EXCEPT ![t] = {}]
  /\ UNCHANGED <<stock, file, gameVars, m_isActive, m_depositQueue, drainVars,
                 stuck, damaged>>

-----------------------------------------------------------------------------
(* Mutant: the item is persisted to the folder it would be deposited from. *)
HandleItemToOutgoing(i, f) ==
  /\ m_isActive /\ ready /\ ~draining /\ mode \in TwoTabs
  /\ stock[mode][i] > 0
  /\ Fresh(f)
  /\ stock' = [stock EXCEPT ![mode][i] = @ - 1]
  /\ file' = [file EXCEPT ![f] =
       [place |-> "outgoing", mode |-> mode, item |-> i, content |-> "whole"]]
  /\ UNCHANGED <<gameVars, m_isActive, m_depositQueue, listenerVars, drainVars,
                 stuck, damaged>>

(* Mutant: the item is persisted and the call forwarded as well.           *)
HandleItemForwards(i, f) ==
  /\ m_isActive /\ ready /\ ~draining /\ mode \in TwoTabs
  /\ stock[mode][i] > 0
  /\ Fresh(f)
  /\ file' = [file EXCEPT ![f] =
       [place |-> "ingoing", mode |-> mode, item |-> i, content |-> "whole"]]
  /\ UNCHANGED <<stock, gameVars, m_isActive, m_depositQueue, listenerVars, drainVars,
                 stuck, damaged>>

(* The hook on AddItem: the player drops item i on the tab to loot from.   *)
(* HandleItem persists it and swallows the call, so the game's copy is     *)
(* gone.  An item that is refused, or whose file cannot be opened, is      *)
(* forwarded to the game and nothing changes.  Persist only checks that    *)
(* the file opens again: one cut short by a full disk counts as written.   *)
HandleItem(i, f) ==
  /\ m_isActive /\ ready /\ ~draining /\ mode \in TwoTabs
  /\ stock[mode][i] > 0
  /\ Fresh(f)
  /\ stock' = [stock EXCEPT ![mode][i] = @ - 1]
  /\ \E content \in {"whole"} \cup (IF "persist" \in Faults THEN {"torn"} ELSE {}) :
       /\ file' = [file EXCEPT ![f] =
            [place |-> "ingoing", mode |-> mode, item |-> i, content |-> content]]
       /\ damaged' = IF content = "torn" THEN damaged \cup {i} ELSE damaged
  /\ UNCHANGED <<gameVars, m_isActive, m_depositQueue, listenerVars, drainVars, stuck>>

(* A stat line that cannot be converted makes Persist throw after it has   *)
(* written the line of the item; the hook catches and forwards the call.   *)
HandleItemThrows(i, f) ==
  /\ "convert" \in Faults
  /\ m_isActive /\ ready /\ ~draining /\ mode \in TwoTabs
  /\ stock[mode][i] > 0
  /\ Fresh(f)
  /\ file' = [file EXCEPT ![f] =
       [place |-> "ingoing", mode |-> mode, item |-> i, content |-> "whole"]]
  /\ damaged' = damaged \cup {i}
  /\ UNCHANGED <<stock, gameVars, m_isActive, m_depositQueue, listenerVars,
                 drainVars, stuck>>

(* The hook on SetTransferOpen.                                            *)
SetTransferOpen(isOpen) ==
  /\ ready /\ ~draining
  /\ m_isTransferStashOpen' = isOpen
  /\ UNCHANGED <<stock, file, mode, ready, m_isActive, m_depositQueue,
                 listenerVars, drainVars, stuck, damaged>>

(* The hook on Update, called while the game is not ready.                 *)
UpdateNotReady ==
  /\ m_isActive /\ ~ready /\ ~draining
  /\ m_isTransferStashOpen' = FALSE
  /\ UNCHANGED <<stock, file, mode, ready, m_isActive, m_depositQueue,
                 listenerVars, drainVars, stuck, damaged>>

(* The hook on Update with the stash open takes m_mutex and walks over the *)
(* queue.  With an empty queue it changes nothing, nor with a stash of one *)
(* tab: GetSackToDepositTo gives null, and the queue stays as it is.       *)
DrainBegin ==
  /\ m_isActive /\ ready /\ m_isTransferStashOpen /\ ~draining
  /\ mode \in TwoTabs /\ m_depositQueue # {}
  /\ draining' = TRUE
  /\ todo' = m_depositQueue
  /\ UNCHANGED <<stock, file, gameVars, m_isActive, m_depositQueue,
                 listenerVars, moving, stuck, damaged>>

Readable(f) == InOutgoing(f) /\ file[f].content = "whole"

(* Mutants: a refused item goes to deleted; a refused item was added.      *)
RejectedToDeleted(f) == /\ Readable(f)
                        /\ moving' = [path |-> f, to |-> "deleted", added |-> FALSE]
                        /\ UNCHANGED stock
RejectedButAdded(f) == /\ Readable(f)
                       /\ stock[mode][file[f].item] < MaxCopies
                       /\ stock' = [stock EXCEPT ![mode][file[f].item] = @ + 1]
                       /\ moving' = [path |-> f, to |-> "ingoing", added |-> FALSE]

(* The outcomes of one entry: the item is added to the tab; it cannot be   *)
(* created or does not fit and goes back to ingoing; its file cannot be    *)
(* read, or a game call throws, and it goes to deleted.                    *)
Added(f)    == /\ Readable(f)
               /\ stock[mode][file[f].item] < MaxCopies
               /\ stock' = [stock EXCEPT ![mode][file[f].item] = @ + 1]
               /\ moving' = [path |-> f, to |-> "deleted", added |-> TRUE]
Rejected(f) == /\ Readable(f)
               /\ moving' = [path |-> f, to |-> "ingoing", added |-> FALSE]
               /\ UNCHANGED stock
Invalid(f)  == /\ ~Readable(f) \/ "create" \in Faults
               /\ moving' = [path |-> f, to |-> "deleted", added |-> FALSE]
               /\ UNCHANGED stock

DrainItem ==
  /\ draining /\ moving = None
  /\ \E f \in todo : Added(f) \/ Rejected(f) \/ Invalid(f)
  /\ UNCHANGED <<file, gameVars, m_isActive, m_depositQueue, listenerVars,
                 draining, todo, stuck, damaged>>

(* MoveFile succeeds on a file that exists and that nobody has open.       *)
Movable(f) == InOutgoing(f) /\ file[f].content # "open"

(* An item is hit by a fault when its CSV goes to deleted without the item *)
(* having been added, or stays in outgoing although it has been.           *)
MoveSucceeds ==
  /\ Movable(moving.path)
  /\ file' = [file EXCEPT ![moving.path].place = moving.to]
  /\ stuck' = stuck \ {moving.path}
  /\ damaged' = IF moving.to = "deleted" /\ ~moving.added
                THEN damaged \cup {file[moving.path].item} ELSE damaged

MoveFails ==
  /\ ~Movable(moving.path) \/ "move" \in Faults
  /\ stuck' = IF InOutgoing(moving.path) THEN stuck \cup {moving.path} ELSE stuck
  /\ damaged' = IF moving.added
                THEN damaged \cup {file[moving.path].item} ELSE damaged
  /\ UNCHANGED file

DrainMove ==
  /\ moving # None
  /\ MoveSucceeds \/ MoveFails
  /\ todo' = todo \ {moving.path}
  /\ moving' = None
  /\ UNCHANGED <<stock, gameVars, m_isActive, m_depositQueue, listenerVars, draining>>

(* Mutant: the queue is cleared before the loop has come to its end.       *)
DrainEndEarly ==
  /\ draining /\ moving = None
  /\ m_depositQueue' = {}
  /\ draining' = FALSE
  /\ UNCHANGED <<stock, file, gameVars, m_isActive, listenerVars, todo, moving,
                 stuck, damaged>>

DrainEnd ==
  /\ draining /\ moving = None /\ todo = {}
  /\ m_depositQueue' = {}
  /\ draining' = FALSE
  /\ UNCHANGED <<stock, file, gameVars, m_isActive, listenerVars, todo, moving,
                 stuck, damaged>>

(* SortInventorySack, or another game call after the loop, throws: the     *)
(* queue is not cleared.  (That an item was deposited before is not kept.) *)
DrainThrows ==
  /\ "create" \in Faults
  /\ draining /\ moving = None /\ todo = {}
  /\ draining' = FALSE
  /\ UNCHANGED <<stock, file, gameVars, m_isActive, m_depositQueue, listenerVars,
                 todo, moving, stuck, damaged>>

-----------------------------------------------------------------------------
(* The player leaves for another character, or for the menu and back; the  *)
(* DLL is not told.                                                        *)
GameLoad(m) ==
  /\ ready /\ ~draining
  /\ ready' = FALSE /\ mode' = m
  /\ UNCHANGED <<stock, file, m_isActive, m_isTransferStashOpen, m_depositQueue,
                 listenerVars, drainVars, stuck, damaged>>

GameReady ==
  /\ ~ready
  /\ ready' = TRUE
  /\ UNCHANGED <<stock, file, mode, m_isActive, m_isTransferStashOpen,
                 m_depositQueue, listenerVars, drainVars, stuck, damaged>>

(* The process ends, cleanly or in the middle of a deposit, and starts     *)
(* again: threads, queue and flags are gone, files and stashes remain.     *)
GameRestart ==
  /\ draining => "crash" \in Faults
  /\ ready' = FALSE /\ UNCHANGED mode
  /\ m_isActive' = FALSE /\ m_isTransferStashOpen' = FALSE
  /\ m_depositQueue' = {}
  /\ pc' = [t \in Listener |-> "off"]
  /\ knownFiles' = [t \in Listener |-> {}]
  /\ found' = [t \in Listener |-> {}]
  /\ draining' = FALSE /\ todo' = {} /\ moving' = None
  /\ stuck' = {}
  /\ damaged' = IF moving # None /\ moving.added
                THEN damaged \cup {file[moving.path].item} ELSE damaged
  /\ UNCHANGED <<stock, file>>

-----------------------------------------------------------------------------
(* Item Assistant, a program outside this repository: it imports the files *)
(* of ingoing, writes items it holds to the outgoing folder of a mode, and *)
(* empties the deleted folder.                                             *)
IaImport(f) ==
  /\ file[f] # None /\ file[f].place = "ingoing" /\ file[f].content = "whole"
  /\ stock[IA][file[f].item] < MaxCopies
  /\ stock' = [stock EXCEPT ![IA][file[f].item] = @ + 1]
  /\ file' = [file EXCEPT ![f] = None]
  /\ UNCHANGED <<gameVars, m_isActive, m_depositQueue, listenerVars, drainVars,
                 stuck, damaged>>

IaTransfer(i, f, m) ==
  /\ stock[IA][i] > 0
  /\ Fresh(f)
  /\ stock' = [stock EXCEPT ![IA][i] = @ - 1]
  /\ file' = [file EXCEPT ![f] =
       [place |-> "outgoing", mode |-> m, item |-> i,
        content |-> IF "partial" \in Faults THEN "open" ELSE "whole"]]
  /\ UNCHANGED <<gameVars, m_isActive, m_depositQueue, listenerVars, drainVars,
                 stuck, damaged>>

IaFinishWrite(f) ==
  /\ file[f] # None /\ file[f].content = "open"
  /\ file' = [file EXCEPT ![f].content = "whole"]
  /\ UNCHANGED <<stock, gameVars, m_isActive, m_depositQueue, listenerVars,
                 drainVars, stuck, damaged>>

IaPurge(f) ==
  /\ file[f] # None /\ file[f].place = "deleted"
  /\ file' = [file EXCEPT ![f] = None]
  /\ UNCHANGED <<stock, gameVars, m_isActive, m_depositQueue, listenerVars,
                 drainVars, stuck, damaged>>

-----------------------------------------------------------------------------
ListenerStep(t) == \/ ListenerTest(t) \/ ListenerList(t) \/ ListenerNoGame(t)
                   \/ ListenerInsert(t) \/ ListenerScanned(t) \/ ListenerThrows(t)

Drain == DrainBegin \/ DrainItem \/ DrainMove \/ DrainEnd \/ DrainThrows

GameStep == \/ \E i \in Item, f \in File : HandleItem(i, f) \/ HandleItemThrows(i, f)
            \/ \E isOpen \in BOOLEAN : SetTransferOpen(isOpen)
            \/ \E m \in Mode : GameLoad(m)
            \/ UpdateNotReady \/ GameReady \/ GameRestart

IaStep == \/ \E f \in File : IaImport(f) \/ IaFinishWrite(f) \/ IaPurge(f)
          \/ \E i \in Item, f \in File, m \in Mode : IaTransfer(i, f, m)

Next == \/ \E isActive \in BOOLEAN : SetActive(isActive)
        \/ \E t \in Listener : ListenerStep(t)
        \/ Drain \/ GameStep \/ IaStep

Spec == Init /\ [][Next]_vars

(* Threads that can run do run, and the game keeps calling Update.         *)
Fairness == /\ \A t \in Listener : WF_vars(ListenerStep(t))
            /\ WF_vars(Drain)

FairSpec == Spec /\ Fairness

-----------------------------------------------------------------------------
(* Every variable keeps its type, and the game thread's loop its shape: an *)
(* entry between ReadReplicaInfo and MoveFile is one of those left to do.  *)
TypeOK ==
  /\ stock \in [Store -> [Item -> 0..MaxCopies]]
  /\ file \in [File -> FileState \cup {None}]
  /\ mode \in Mode
  /\ ready \in BOOLEAN
  /\ m_isActive \in BOOLEAN
  /\ m_isTransferStashOpen \in BOOLEAN
  /\ m_depositQueue \in SUBSET File
  /\ pc \in [Listener -> {"off", "test", "sleep", "scan"}]
  /\ knownFiles \in [Listener -> SUBSET File]
  /\ found \in [Listener -> SUBSET File]
  /\ draining \in BOOLEAN
  /\ todo \in SUBSET m_depositQueue
  /\ moving \in MoveOp \cup {None}
  /\ stuck \in SUBSET File
  /\ damaged \in SUBSET Item
  /\ ~draining => todo = {}
  /\ moving # None => draining /\ moving.path \in todo

(* Who holds item i.  A file whose item has been added to the tab but that *)
(* has not been moved yet holds nothing any more.                          *)
Consumed(f) == moving # None /\ moving.path = f /\ moving.added

Holds(f, i) == /\ file[f] # None
               /\ file[f].item = i
               /\ file[f].place \in {"ingoing", "outgoing"}
               /\ ~Consumed(f)

InStore(i) == \E s \in Store : stock[s][i] > 0
InFile(i)  == \E f \in File : Holds(f, i)

(* An item no fault has hit exists exactly once, in a stash, with Item     *)
(* Assistant or as one CSV, whatever the listeners, the deposit loop, mode *)
(* switches, restarts and Item Assistant do in between.                    *)
AtMostOneCopy(i) ==
  /\ \A s \in Store : stock[s][i] <= 1
  /\ \A s1, s2 \in Store : stock[s1][i] > 0 /\ stock[s2][i] > 0 => s1 = s2
  /\ \A f, g \in File : Holds(f, i) /\ Holds(g, i) => f = g
  /\ ~(InStore(i) /\ InFile(i))

Conservation == \A i \in Item \ damaged : /\ AtMostOneCopy(i)
                                          /\ InStore(i) \/ InFile(i)

(* Nothing damages an item when nothing fails: neither two listeners, nor  *)
(* a listing that is out of date, nor a clean restart makes the code       *)
(* soft-delete a CSV that was not deposited.                               *)
NoDamage == damaged = {}

(* While instaloot is active somebody looks for files to deposit, although *)
(* SetActive may switch it off and on again faster than a listener notices *)
(* and never starts a second one for a listener that has died.             *)
ActiveHasListener == m_isActive => \E t \in Listener : pc[t] # "off"

(* A file a listener will skip from now on (it is in its knownFiles) and   *)
(* that still waits in outgoing is in the queue, unless its MoveFile       *)
(* failed: m_depositQueue.clear() forgets no path it has not handled.      *)
NoForgottenFile ==
  \A t \in Listener : \A f \in knownFiles[t] :
    InOutgoing(f) => f \in m_depositQueue \cup stuck

(* An item is deposited into the stash of the mode whose outgoing folder   *)
(* its file was found in.                                                  *)
DepositsIntoItsMode ==
  [][\A f \in File : ~Consumed(f) /\ Consumed(f)' => file[f].mode = mode]_vars

(* While Item Assistant runs and the player stays in one mode with the     *)
(* stash open, and that stash has its two tabs, every CSV of the mode's    *)
(* outgoing folder leaves the folder.                                      *)
Settled(m) == /\ m_isActive /\ ready /\ m_isTransferStashOpen
              /\ mode = m /\ m \in TwoTabs

EveryFileIsHandled ==
  \A m \in Mode : <>[]Settled(m) =>
    \A f \in File : (InOutgoing(f) /\ file[f].mode = m) ~> ~InOutgoing(f)

-----------------------------------------------------------------------------
(* The custody of an item as Instaloot keeps it.                           *)
HolderOf(i) ==
  IF \E m \in Mode : stock[m][i] > 0 THEN "game"
  ELSE IF stock[IA][i] > 0 THEN "ia"
  ELSE IF \E f \in File : Holds(f, i) /\ file[f].place = "ingoing" THEN "ingoing"
  ELSE "outgoing"

Custodian(i) == IF i \in damaged THEN "damaged" ELSE HolderOf(i)

Custody == INSTANCE ItemCustody WITH Unreliable <- Faults \ {"listing"} # {},
                                     holder <- [i \in Item |-> Custodian(i)]

(* Instaloot implements ItemCustody: each step hands over at most one item *)
(* along one of its edges, and damages at most one, which it does only     *)
(* where a fault other than a listing that throws can happen.              *)
ImplementsCustody == Custody!Spec
=============================================================================
