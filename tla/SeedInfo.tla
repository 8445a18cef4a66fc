------------------------------ MODULE SeedInfo ------------------------------
(***************************************************************************)
(* Item stats on demand (HookDll/Hook/OnDemandSeedInfo.cpp).               *)
(*                                                                         *)
(* Item Assistant drops a request, a CSV, in replica\from_ia.  The seed    *)
(* thread (ThreadMain, Process) reads it, puts it on m_itemQueue and       *)
(* deletes the file.  The hook on Engine::Render takes up to a batch of    *)
(* requests off the queue, creates the items, and writes one JSON file of  *)
(* answers to replica\to_ia, renamed to .json once it is complete.  A      *)
(* request the game has no answer to is reported on the hook channel       *)
(* instead.  While the game is not running a character the hook backs off: *)
(* it sets m_sleepMilliseconds, which the seed thread counts down.  _mutex *)
(* keeps the creation of items apart from SetDifficultyRamp.               *)
(*                                                                         *)
(* What a request or an answer says is left out, one tick of the counter   *)
(* is 6 seconds, and a Render call that does nothing is a stuttering step. *)
(* Requests are those of the mode played; those in the folder of another   *)
(* mode wait until it is played.                                           *)
(***************************************************************************)
EXTENDS Naturals, Sequences, FiniteSets

CONSTANTS
  Request,    \* requests of Item Assistant, a CSV file each
  BatchMax,   \* requests served by one Render call (100 in the code)
  QueueMax,   \* bound on the length of m_itemQueue
  Faults,     \* the faults that may happen
  None        \* no entry being looked at

FaultKinds == {"delete",   \* DeleteFile fails on a request
               "partial",  \* Item Assistant's CSV is visible while being written
              "malformed", \* Item Assistant's CSV is no request: too many or too
                           \* few tokens, no known type, a field that is no number
               "throw",    \* a game call or the JSON conversion throws
               "move",     \* MoveFile fails on the answers
               "listing"}  \* directory_iterator throws

ASSUME SeedInfoAssumption ==
  /\ BatchMax \in Nat \ {0} /\ QueueMax \in Nat \ {0}
  /\ Faults \subseteq FaultKinds
  /\ None \notin Request

StartUpTicks == 1   \* 6000 ms
BackOffTicks == 2   \* 12000 ms

VARIABLES
  request,              \* request[r]: "unsent", "open", "file", "bad" (a complete
                        \* file that is no request) or "gone"
  m_isActive,
  m_sleepMilliseconds,  \* in ticks
  m_itemQueue,
  seed,                 \* the seed thread: "off", "begin", "sleep", "list",
                        \* "scan", "delete" or "ended"
  found,                \* entries of the directory_iterator left
  entry,                \* the entry between ReadReplicaInfo and DeleteFile
  queued,               \* that entry has been pushed
  render,               \* the Render hook: "idle", "serve" or "move"
  batch,                \* answers collected by the Render call
  num,                  \* requests taken by the Render call
  rampRunning,          \* SetDifficultyRamp runs and holds _mutex
  inGame,               \* online, and not loading
  answered,             \* history: answers to r in .json files; 2 is 2 or more
  reported,             \* history: requests given up with a report
  spoiled               \* history: requests hit by a fault

threadVars == <<seed, found, entry, queued>>
renderVars == <<render, batch, num>>
doneVars   == <<answered, reported>>
vars == <<request, m_isActive, m_sleepMilliseconds, m_itemQueue, threadVars,
          renderVars, rampRunning, inGame, doneVars, spoiled>>

Init ==
  /\ request = [r \in Request |-> "unsent"]
  /\ m_isActive = FALSE
  /\ m_sleepMilliseconds = 0
  /\ m_itemQueue = <<>>
  /\ seed = "off" /\ found = {} /\ entry = None /\ queued = FALSE
  /\ render = "idle" /\ batch = {} /\ num = 0
  /\ rampRunning = FALSE
  /\ inGame \in BOOLEAN
  /\ answered = [r \in Request |-> 0] /\ reported = {}
  /\ spoiled = {}

-----------------------------------------------------------------------------
(* The worker thread starts the seed thread once; DisableHook stops it.    *)
Start ==
  /\ seed = "off"
  /\ m_isActive' = TRUE
  /\ seed' = "begin"
  /\ UNCHANGED <<request, m_sleepMilliseconds, m_itemQueue, found, entry, queued,
                 renderVars, rampRunning, inGame, doneVars, spoiled>>

Stop ==
  /\ m_isActive
  /\ m_isActive' = FALSE
  /\ UNCHANGED <<request, m_sleepMilliseconds, m_itemQueue, threadVars,
                 renderVars, rampRunning, inGame, doneVars, spoiled>>

SeedBegin ==
  /\ seed = "begin"
  /\ seed' = "sleep"
  /\ m_sleepMilliseconds' = StartUpTicks
  /\ UNCHANGED <<request, m_isActive, m_itemQueue, found, entry, queued,
                 renderVars, rampRunning, inGame, doneVars, spoiled>>

(* The two loops of ThreadMain: count down, then Process.                  *)
SeedCountDown ==
  /\ seed = "sleep" /\ m_isActive /\ m_sleepMilliseconds > 0
  /\ m_sleepMilliseconds' = m_sleepMilliseconds - 1
  /\ UNCHANGED <<request, m_isActive, m_itemQueue, threadVars, renderVars,
                 rampRunning, inGame, doneVars, spoiled>>

SeedProcess ==
  /\ seed = "sleep" /\ m_isActive /\ m_sleepMilliseconds = 0
  /\ seed' = "list"
  /\ UNCHANGED <<request, m_isActive, m_sleepMilliseconds, m_itemQueue, found,
                 entry, queued, renderVars, rampRunning, inGame, doneVars, spoiled>>

(* Mutant: the loop of Process does not test m_isActive.                   *)
SeedLeavesSleepOnly ==
  /\ seed = "sleep" /\ ~m_isActive
  /\ seed' = "ended"
  /\ UNCHANGED <<request, m_isActive, m_sleepMilliseconds, m_itemQueue, found,
                 entry, queued, renderVars, rampRunning, inGame, doneVars, spoiled>>

SeedLeaves ==
  /\ seed \in {"sleep", "list"} /\ ~m_isActive
  /\ seed' = "ended"
  /\ UNCHANGED <<request, m_isActive, m_sleepMilliseconds, m_itemQueue, found,
                 entry, queued, renderVars, rampRunning, inGame, doneVars, spoiled>>

(* Process: one round of its loop lists the folder and goes through it.    *)
InFolder(r) == request[r] \in {"open", "file", "bad"}

SeedList ==
  /\ seed = "list" /\ m_isActive
  /\ found' = {r \in Request : InFolder(r)}
  /\ seed' = "scan"
  /\ UNCHANGED <<request, m_isActive, m_sleepMilliseconds, m_itemQueue, entry,
                 queued, renderVars, rampRunning, inGame, doneVars, spoiled>>

(* Whether a file gives a request.  One that is still being written, or is *)
(* malformed, does not: DeserializeReplicaCsv gives null or throws.        *)
ReadReplicaInfo(r) == request[r] = "file"

(* A file that gives a request is queued.                                  *)
SeedRead(r) ==
  /\ seed = "scan" /\ r \in found
  /\ Len(m_itemQueue) < QueueMax
  /\ entry' = r
  /\ queued' = ReadReplicaInfo(r)
  /\ m_itemQueue' = IF ReadReplicaInfo(r) THEN Append(m_itemQueue, r) ELSE m_itemQueue
  /\ seed' = "delete"
  /\ UNCHANGED <<request, m_isActive, m_sleepMilliseconds, found, renderVars,
                 rampRunning, inGame, doneVars, spoiled>>

(* DeleteFile, whatever came of the reading: it fails on a file that is    *)
(* open.  A request deleted unread (a malformed one among them: the log is *)
(* all that tells of it), or read and not deleted, is spoiled.             *)
SeedDelete ==
  /\ seed = "delete"
  /\ \/ /\ request[entry] \in {"file", "bad"}
        /\ request' = [request EXCEPT ![entry] = "gone"]
        /\ spoiled' = IF queued THEN spoiled ELSE spoiled \cup {entry}
     \/ /\ request[entry] = "open" \/ "delete" \in Faults
        /\ spoiled' = IF queued THEN spoiled \cup {entry} ELSE spoiled
        /\ UNCHANGED request
  /\ found' = found \ {entry}
  /\ entry' = None /\ queued' = FALSE
  /\ seed' = "scan"
  /\ UNCHANGED <<m_isActive, m_sleepMilliseconds, m_itemQueue, renderVars,
                 rampRunning, inGame, doneVars>>

SeedScanned ==
  /\ seed = "scan" /\ found = {}
  /\ seed' = "list"
  /\ UNCHANGED <<request, m_isActive, m_sleepMilliseconds, m_itemQueue, found,
                 entry, queued, renderVars, rampRunning, inGame, doneVars, spoiled>>

(* An exception in the listing ends Process but not ThreadMain.            *)
SeedThrows ==
  /\ "listing" \in Faults
  /\ seed = "scan"
  /\ seed' = "sleep" /\ found' = {}
  /\ UNCHANGED <<request, m_isActive, m_sleepMilliseconds, m_itemQueue, entry,
                 queued, renderVars, rampRunning, inGame, doneVars, spoiled>>

-----------------------------------------------------------------------------
(* Hooked_Engine_Render, while the counter is at zero.                     *)
RenderBackOff ==
  /\ render = "idle" /\ m_sleepMilliseconds = 0 /\ ~inGame
  /\ m_sleepMilliseconds' = BackOffTicks
  /\ UNCHANGED <<request, m_isActive, m_itemQueue, threadVars, renderVars,
                 rampRunning, inGame, doneVars, spoiled>>

(* Mutants: the lock is not tried; the hook waits for a full batch.        *)
RenderBeginUnlocked ==
  /\ render = "idle" /\ m_sleepMilliseconds = 0 /\ inGame
  /\ m_itemQueue # <<>>
  /\ render' = "serve" /\ num' = 0
  /\ UNCHANGED <<request, m_isActive, m_sleepMilliseconds, m_itemQueue, threadVars,
                 batch, rampRunning, inGame, doneVars, spoiled>>

RenderBeginFullBatch ==
  /\ render = "idle" /\ m_sleepMilliseconds = 0 /\ inGame
  /\ ~rampRunning
  /\ Len(m_itemQueue) >= BatchMax
  /\ render' = "serve" /\ num' = 0
  /\ UNCHANGED <<request, m_isActive, m_sleepMilliseconds, m_itemQueue, threadVars,
                 batch, rampRunning, inGame, doneVars, spoiled>>

(* The lock is only tried; when SetDifficultyRamp holds it, Render goes on *)
(* without serving.                                                        *)
RenderBegin ==
  /\ render = "idle" /\ m_sleepMilliseconds = 0 /\ inGame
  /\ ~rampRunning
  /\ m_itemQueue # <<>>
  /\ render' = "serve" /\ num' = 0
  /\ UNCHANGED <<request, m_isActive, m_sleepMilliseconds, m_itemQueue, threadVars,
                 batch, rampRunning, inGame, doneVars, spoiled>>

MoreToServe == m_itemQueue # <<>> /\ num < BatchMax /\ inGame

(* Mutant: the front of the queue is read but not popped.                  *)
RenderServeFront ==
  /\ render = "serve" /\ MoreToServe
  /\ num' = num + 1
  /\ batch' = batch \cup {Head(m_itemQueue)}
  /\ UNCHANGED <<request, m_isActive, m_sleepMilliseconds, m_itemQueue, threadVars,
                 render, rampRunning, inGame, doneVars, spoiled>>

(* Mutant: the requests taken are not counted.                             *)
RenderServeUncounted ==
  /\ render = "serve" /\ MoreToServe
  /\ m_itemQueue' = Tail(m_itemQueue)
  /\ \/ batch' = batch \cup {Head(m_itemQueue)} /\ UNCHANGED reported
     \/ reported' = reported \cup {Head(m_itemQueue)} /\ UNCHANGED batch
  /\ UNCHANGED <<request, m_isActive, m_sleepMilliseconds, threadVars, render, num,
                 rampRunning, inGame, answered, spoiled>>

(* GetItemInfo: an answer; or a report, when there is no game, no          *)
(* character or no such item.                                              *)
RenderServe ==
  /\ render = "serve" /\ MoreToServe
  /\ m_itemQueue' = Tail(m_itemQueue)
  /\ num' = num + 1
  /\ \/ batch' = batch \cup {Head(m_itemQueue)} /\ UNCHANGED reported
     \/ reported' = reported \cup {Head(m_itemQueue)} /\ UNCHANGED batch
  /\ UNCHANGED <<request, m_isActive, m_sleepMilliseconds, threadVars, render,
                 rampRunning, inGame, answered, spoiled>>

(* Mutant: the answers collected so far survive the call.                  *)
RenderThrowsKeeps ==
  /\ "throw" \in Faults
  /\ render = "serve" /\ MoreToServe
  /\ m_itemQueue' = Tail(m_itemQueue)
  /\ spoiled' = spoiled \cup {Head(m_itemQueue)}
  /\ num' = 0 /\ render' = "idle"
  /\ UNCHANGED <<request, m_isActive, m_sleepMilliseconds, threadVars, batch,
                 rampRunning, inGame, doneVars>>

(* An exception takes the request and all answers collected so far with it.*)
RenderThrows ==
  /\ "throw" \in Faults
  /\ render = "serve" /\ MoreToServe
  /\ m_itemQueue' = Tail(m_itemQueue)
  /\ spoiled' = spoiled \cup batch \cup {Head(m_itemQueue)}
  /\ batch' = {} /\ num' = 0
  /\ render' = "idle"
  /\ UNCHANGED <<request, m_isActive, m_sleepMilliseconds, threadVars,
                 rampRunning, inGame, doneVars>>

(* The answers, if any, are written to a file without a suffix.            *)
RenderWrite ==
  /\ render = "serve" /\ ~MoreToServe
  /\ render' = IF batch = {} THEN "idle" ELSE "move"
  /\ num' = 0
  /\ UNCHANGED <<request, m_isActive, m_sleepMilliseconds, m_itemQueue, threadVars,
                 batch, rampRunning, inGame, doneVars, spoiled>>

(* MoveFile to .json, the name Item Assistant looks for.                   *)
RenderMove ==
  /\ render = "move"
  /\ \/ /\ answered' = [r \in Request |->
                          IF r \in batch /\ answered[r] < 2 THEN answered[r] + 1
                                                           ELSE answered[r]]
        /\ UNCHANGED spoiled
     \/ /\ "move" \in Faults
        /\ spoiled' = spoiled \cup batch
        /\ UNCHANGED answered
  /\ batch' = {}
  /\ render' = "idle"
  /\ UNCHANGED <<request, m_isActive, m_sleepMilliseconds, m_itemQueue, threadVars,
                 num, rampRunning, inGame, reported>>

(* The hook on SetDifficultyRamp waits for the lock and holds it.          *)
RampBegin ==
  /\ ~rampRunning /\ render = "idle"
  /\ rampRunning' = TRUE
  /\ UNCHANGED <<request, m_isActive, m_sleepMilliseconds, m_itemQueue, threadVars,
                 renderVars, inGame, doneVars, spoiled>>

RampEnd ==
  /\ rampRunning
  /\ rampRunning' = FALSE
  /\ UNCHANGED <<request, m_isActive, m_sleepMilliseconds, m_itemQueue, threadVars,
                 renderVars, inGame, doneVars, spoiled>>

-----------------------------------------------------------------------------
(* The player loads a character or leaves it, at any time.                 *)
GameChanges ==
  /\ inGame' = ~inGame
  /\ UNCHANGED <<request, m_isActive, m_sleepMilliseconds, m_itemQueue, threadVars,
                 renderVars, rampRunning, doneVars, spoiled>>

(* Item Assistant writes its requests.                                     *)
Complete == {"file"} \cup (IF "malformed" \in Faults THEN {"bad"} ELSE {})

IaRequest(r) ==
  /\ request[r] = "unsent"
  /\ \E state \in (IF "partial" \in Faults THEN {"open"} ELSE Complete) :
       request' = [request EXCEPT ![r] = state]
  /\ UNCHANGED <<m_isActive, m_sleepMilliseconds, m_itemQueue, threadVars,
                 renderVars, rampRunning, inGame, doneVars, spoiled>>

IaFinishWrite(r) ==
  /\ request[r] = "open"
  /\ \E state \in Complete : request' = [request EXCEPT ![r] = state]
  /\ UNCHANGED <<m_isActive, m_sleepMilliseconds, m_itemQueue, threadVars,
                 renderVars, rampRunning, inGame, doneVars, spoiled>>

-----------------------------------------------------------------------------
SeedStep == \/ SeedBegin \/ SeedCountDown \/ SeedProcess \/ SeedLeaves \/ SeedList
            \/ SeedDelete \/ SeedScanned \/ SeedThrows
            \/ \E r \in Request : SeedRead(r)

RenderStep == \/ RenderBackOff \/ RenderBegin \/ RenderServe \/ RenderThrows
              \/ RenderWrite \/ RenderMove

Next == \/ Start \/ Stop \/ SeedStep \/ RenderStep \/ RampBegin \/ RampEnd
        \/ GameChanges
        \/ \E r \in Request : IaRequest(r) \/ IaFinishWrite(r)

Spec == Init /\ [][Next]_vars

(* The seed thread runs, the game keeps rendering, and SetDifficultyRamp   *)
(* returns and is not called all the time.                                 *)
Fairness == /\ WF_vars(SeedStep)
            /\ SF_vars(RenderStep)
            /\ WF_vars(RampEnd)

FairSpec == Spec /\ Fairness

-----------------------------------------------------------------------------
(* Every variable keeps its type; the Render hook collects answers only    *)
(* while it runs.                                                          *)
TypeOK ==
  /\ request \in [Request -> {"unsent", "open", "file", "bad", "gone"}]
  /\ m_isActive \in BOOLEAN
  /\ m_sleepMilliseconds \in 0..BackOffTicks
  /\ m_itemQueue \in Seq(Request) /\ Len(m_itemQueue) <= QueueMax
  /\ seed \in {"off", "begin", "sleep", "list", "scan", "delete", "ended"}
  /\ found \in SUBSET Request
  /\ entry \in Request \cup {None} /\ (entry # None <=> seed = "delete")
  /\ queued \in BOOLEAN
  /\ render \in {"idle", "serve", "move"}
  /\ batch \in SUBSET Request /\ (render = "idle" => batch = {})
  /\ num \in 0..BatchMax
  /\ rampRunning \in BOOLEAN /\ inGame \in BOOLEAN
  /\ answered \in [Request -> 0..2]
  /\ reported \in SUBSET Request /\ spoiled \in SUBSET Request

(* Items are never created, and answers never written, while               *)
(* SetDifficultyRamp runs on another thread.                               *)
RampExcluded == rampRunning => render = "idle"

(* A request no fault has hit is in exactly one place, from the moment it  *)
(* is written: a file, the queue, the answers being collected, an answer   *)
(* or a report.  Between ReadReplicaInfo and DeleteFile its file does not  *)
(* count.  So none is answered twice, and none is dropped.                 *)
Places(r) ==
    Cardinality({k \in DOMAIN m_itemQueue : m_itemQueue[k] = r})
  + (IF InFolder(r) /\ ~(entry = r /\ queued) THEN 1 ELSE 0)
  + (IF r \in batch THEN 1 ELSE 0)
  + answered[r]
  + (IF r \in reported THEN 1 ELSE 0)

RequestConserved ==
  \A r \in Request \ spoiled : Places(r) = IF request[r] = "unsent" THEN 0 ELSE 1

(* The desk serves requests as StatRequests promises: each is answered or  *)
(* reported once, in batches that are published as a whole, whatever the   *)
(* order of the seed thread's and the hook's steps; and no request is      *)
(* spoiled unless a fault other than a failing listing can happen.         *)
At(r) == [waiting  |-> (InFolder(r) /\ ~(entry = r /\ queued))
                         \/ \E k \in DOMAIN m_itemQueue : m_itemQueue[k] = r,
          taken    |-> r \in batch,
          answered |-> answered[r] = 1,
          reported |-> r \in reported]

Desk == INSTANCE StatRequests WITH
  Unreliable <- Faults \ {"listing"} # {},
  where <- [r \in Request |-> IF r \in spoiled THEN {"spoiled"}
                             ELSE {p \in DOMAIN At(r) : At(r)[p]}]

ImplementsRequests == Desk!Spec

(* While the seed thread is active and the player never leaves the game,   *)
(* every file that is a request is answered or reported.                   *)
Settled(r) == answered[r] > 0 \/ r \in reported

ServedWhileInGame ==
  []inGame /\ <>[]m_isActive =>
    \A r \in Request : request[r] = "file" ~> Settled(r)

(* The seed thread ends once it has been stopped.                          *)
StopEndsTheThread == [](seed # "off" /\ ~m_isActive => <>(seed = "ended"))

(* The back-off counter lets the hook back off for a while, not for good.  *)
BackOffEnds == <>[]m_isActive => []<>(m_sleepMilliseconds = 0)
=============================================================================
