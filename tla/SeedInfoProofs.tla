--------------------------- MODULE SeedInfoProofs ---------------------------
(***************************************************************************)
(* Theorems about SeedInfo, for every set of requests, every batch size    *)
(* and every set of faults.                                                *)
(***************************************************************************)
EXTENDS SeedInfo, SequenceTheorems, FiniteSetTheorems, TLAPS

(* A queue with a request added.                                           *)
LEMMA Appended ==
  ASSUME NEW s \in Seq(Request), NEW r \in Request
  PROVE  Append(s, r) \in Seq(Request) /\ Len(Append(s, r)) = Len(s) + 1
  BY AppendProperties

(* A queue without its head.                                               *)
LEMMA Popped ==
  ASSUME NEW s \in Seq(Request), s # <<>>
  PROVE  /\ Head(s) \in Request /\ Tail(s) \in Seq(Request)
         /\ Len(Tail(s)) = Len(s) - 1
  BY HeadTailProperties

(* Every reachable state is well typed, and the Render hook holds answers  *)
(* only while it runs.                                                     *)
LEMMA InitTypeOK == Init => TypeOK
<1> SUFFICES ASSUME Init PROVE TypeOK
  OBVIOUS
<1>1. m_itemQueue \in Seq(Request) /\ Len(m_itemQueue) = 0 /\ Len(m_itemQueue) <= QueueMax
  BY SeedInfoAssumption DEF Init
<1>2. 0 \in 0..BackOffTicks /\ 0 \in 0..BatchMax /\ 0 \in 0..2
  BY SeedInfoAssumption DEF BackOffTicks
<1>3. /\ request \in [Request -> {"unsent", "open", "file", "bad", "gone"}]
      /\ answered \in [Request -> 0..2]
  BY <1>2 DEF Init
<1>4. entry \in Request \cup {None} /\ (entry # None <=> seed = "delete")
  BY DEF Init
<1> QED BY <1>1, <1>2, <1>3, <1>4, Zenon DEF Init, TypeOK

(* Every step keeps the types.                                             *)
LEMMA NextTypeOK == TypeOK /\ [Next]_vars => TypeOK'
<1> SUFFICES ASSUME TypeOK, [Next]_vars PROVE TypeOK'
  OBVIOUS
<1> USE SeedInfoAssumption
    DEF TypeOK, threadVars, renderVars, doneVars, BackOffTicks, StartUpTicks
<1>1. CASE Start \/ Stop
  BY <1>1 DEF Start, Stop
<1>2. CASE SeedStep
  <2>1. CASE SeedBegin \/ SeedCountDown \/ SeedProcess \/ SeedLeaves
    BY <2>1 DEF SeedBegin, SeedCountDown, SeedProcess, SeedLeaves
  <2>2. CASE SeedList
    BY <2>2 DEF SeedList
  <2>3. CASE SeedDelete
    BY <2>3 DEF SeedDelete
  <2>4. CASE SeedScanned \/ SeedThrows
    BY <2>4 DEF SeedScanned, SeedThrows
  <2>5. ASSUME NEW r \in Request, SeedRead(r) PROVE TypeOK'
    <3>1. m_itemQueue' \in Seq(Request) /\ Len(m_itemQueue') <= QueueMax
      BY <2>5, Appended DEF SeedRead, ReadReplicaInfo
    <3>2. entry' \in Request /\ queued' \in BOOLEAN /\ seed' = "delete" /\ r # None
      BY <2>5 DEF SeedRead, ReadReplicaInfo
    <3> QED BY <2>5, <3>1, <3>2 DEF SeedRead, ReadReplicaInfo
  <2> QED BY <1>2, <2>1, <2>2, <2>3, <2>4, <2>5 DEF SeedStep
<1>3. CASE RenderStep
  <2>1. CASE RenderBackOff \/ RenderBegin \/ RenderWrite
    BY <2>1 DEF RenderBackOff, RenderBegin, RenderWrite
  <2>2. CASE RenderServe
    BY <2>2, Popped DEF RenderServe, MoreToServe
  <2>3. CASE RenderThrows
    BY <2>3, Popped DEF RenderThrows, MoreToServe
  <2>4. CASE RenderMove
    BY <2>4 DEF RenderMove
  <2> QED BY <1>3, <2>1, <2>2, <2>3, <2>4 DEF RenderStep
<1>4. CASE RampBegin \/ RampEnd \/ GameChanges
  <2>1. CASE RampBegin
    BY <2>1 DEF RampBegin
  <2>2. CASE RampEnd
    BY <2>2 DEF RampEnd
  <2>3. CASE GameChanges
    BY <2>3 DEF GameChanges
  <2> QED BY ONLY <1>4, <2>1, <2>2, <2>3
<1>5. ASSUME NEW r \in Request, IaRequest(r) \/ IaFinishWrite(r) PROVE TypeOK'
  BY <1>5 DEF IaRequest, IaFinishWrite, Complete
<1>6. CASE UNCHANGED vars
  BY <1>6 DEF vars
<1> QED BY <1>1, <1>2, <1>3, <1>4, <1>5, <1>6 DEF Next

(* The variables keep their types, and the Render hook holds answers only  *)
(* while it runs.                                                          *)
THEOREM TypeCorrect == Spec => []TypeOK
  BY InitTypeOK, NextTypeOK, PTL DEF Spec

(* Whoever holds _mutex, the other one is out: Render only tries the lock, *)
(* SetDifficultyRamp waits for it.                                         *)
THEOREM RampIsExcluded == Spec => []RampExcluded
<1>1. Init => RampExcluded
  BY DEF Init, RampExcluded
<1>2. RampExcluded /\ [Next]_vars => RampExcluded'
  <2> SUFFICES ASSUME RampExcluded, [Next]_vars PROVE RampExcluded'
    OBVIOUS
  <2> USE DEF RampExcluded, renderVars
  <2>1. CASE Start \/ Stop \/ RampBegin \/ RampEnd \/ GameChanges
    BY <2>1 DEF Start, Stop, RampBegin, RampEnd, GameChanges
  <2>2. CASE SeedStep
    BY <2>2 DEF SeedStep, SeedBegin, SeedCountDown, SeedProcess, SeedLeaves, SeedList,
                SeedDelete, SeedScanned, SeedThrows, SeedRead
  <2>3. CASE RenderStep
    BY <2>3 DEF RenderStep, RenderBackOff, RenderBegin, RenderServe, RenderThrows,
                RenderWrite, RenderMove
  <2>4. ASSUME NEW r \in Request, IaRequest(r) \/ IaFinishWrite(r) PROVE RampExcluded'
    BY <2>4 DEF IaRequest, IaFinishWrite
  <2>5. CASE UNCHANGED vars
    BY <2>5 DEF vars
  <2> QED BY <2>1, <2>2, <2>3, <2>4, <2>5 DEF Next
<1> QED BY <1>1, <1>2, PTL DEF Spec

-----------------------------------------------------------------------------
(* Conservation of requests, with the places told apart instead of counted. *)
Queued(r) == \E k \in DOMAIN m_itemQueue : m_itemQueue[k] = r
OnDisk(r) == InFolder(r) /\ ~(entry = r /\ queued)

OnePlace(r) ==
  /\ answered[r] \in {0, 1}
  /\ \A k, l \in DOMAIN m_itemQueue :
       m_itemQueue[k] = r /\ m_itemQueue[l] = r => k = l
  /\ (request[r] # "unsent") <=>
       (Queued(r) \/ OnDisk(r) \/ r \in batch \/ answered[r] = 1 \/ r \in reported)
  /\ Queued(r) =>
       ~OnDisk(r) /\ r \notin batch /\ answered[r] = 0 /\ r \notin reported
  /\ OnDisk(r) => r \notin batch /\ answered[r] = 0 /\ r \notin reported
  /\ r \in batch => answered[r] = 0 /\ r \notin reported
  /\ answered[r] = 1 => r \notin reported

(* A file that is about to be deleted after it has been queued is complete. *)
RequestInv ==
  /\ queued => entry # None /\ request[entry] = "file"
  /\ \A r \in Request \ spoiled : OnePlace(r)

(* A request none of whose places changes stays in one place.              *)
LEMMA SamePlace ==
  ASSUME NEW r, OnePlace(r), UNCHANGED m_itemQueue,
         (request'[r] # "unsent") <=> (request[r] # "unsent"),
         OnDisk(r)' <=> OnDisk(r), (r \in batch') <=> (r \in batch),
         answered'[r] = answered[r], (r \in reported') <=> (r \in reported)
  PROVE  OnePlace(r)'
<1>1. Queued(r)' <=> Queued(r)
  BY DEF Queued
<1> QED BY <1>1, Zenon DEF OnePlace

(* A request appended to the queue, and one taken from its front.          *)
LEMMA QueueGrows ==
  ASSUME NEW s \in Seq(Request), NEW x \in Request, NEW t, t = Append(s, x)
  PROVE  /\ \A r : (\E k \in DOMAIN t : t[k] = r)
                     <=> (r = x \/ \E k \in DOMAIN s : s[k] = r)
         /\ \A r : r # x =>
              ((\A k, l \in DOMAIN t : t[k] = r /\ t[l] = r => k = l)
                 <=> (\A k, l \in DOMAIN s : s[k] = r /\ s[l] = r => k = l))
         /\ (\A k \in DOMAIN s : s[k] # x) =>
              \A k, l \in DOMAIN t : t[k] = x /\ t[l] = x => k = l
<1>1. /\ DOMAIN s = 1..Len(s) /\ Len(s) \in Nat
      /\ DOMAIN t = 1..(Len(s) + 1) /\ t[Len(s) + 1] = x
      /\ \A k \in 1..Len(s) : t[k] = s[k]
  BY AppendProperties
<1>2. \A k \in 1..(Len(s) + 1) : k \in 1..Len(s) \/ k = Len(s) + 1
  BY <1>1
<1>3. Len(s) + 1 \in 1..(Len(s) + 1) /\ 1..Len(s) \subseteq 1..(Len(s) + 1)
  BY <1>1
<1> QED BY <1>1, <1>2, <1>3

(* Taking the head off the queue leaves the other requests in it.          *)
LEMMA OthersStay ==
  ASSUME NEW s \in Seq(Request), s # <<>>, NEW r, r # Head(s)
  PROVE  /\ \A k \in DOMAIN Tail(s) : Tail(s)[k] = r => \E l \in DOMAIN s : s[l] = r
         /\ \A k \in DOMAIN s : s[k] = r =>
              \E l \in DOMAIN Tail(s) : Tail(s)[l] = r
<1> DEFINE t == Tail(s)
<1>1. /\ DOMAIN s = 1..Len(s) /\ Len(s) \in Nat \ {0} /\ Head(s) = s[1]
      /\ DOMAIN t = 1..(Len(s) - 1)
      /\ \A k \in 1..(Len(s) - 1) : t[k] = s[k + 1]
  BY HeadTailProperties
<1> HIDE DEF t
<1>2. ASSUME NEW k \in DOMAIN t, t[k] = r PROVE \E l \in DOMAIN s : s[l] = r
  <2>1. k + 1 \in 1..Len(s) /\ s[k + 1] = r
    BY <1>1, <1>2
  <2> QED BY <1>1, <2>1
<1>3. ASSUME NEW k \in DOMAIN s, s[k] = r PROVE \E l \in DOMAIN t : t[l] = r
  <2>1. k # 1 /\ k - 1 \in 1..(Len(s) - 1)
    BY <1>1, <1>3
  <2>2. t[k - 1] = s[(k - 1) + 1] /\ (k - 1) + 1 = k
    BY <1>1, <2>1
  <2> QED BY <1>1, <1>3, <2>1, <2>2
<1> QED BY <1>2, <1>3 DEF t

(* A queue without repetitions has none without its head, and its head is  *)
(* not in the rest.                                                        *)
LEMMA QueueShrinks ==
  ASSUME NEW s \in Seq(Request), s # <<>>, NEW t, t = Tail(s)
  PROVE  /\ \A r : (\A k, l \in DOMAIN s : s[k] = r /\ s[l] = r => k = l)
              => \A k, l \in DOMAIN t : t[k] = r /\ t[l] = r => k = l
         /\ (\A k, l \in DOMAIN s : s[k] = Head(s) /\ s[l] = Head(s) => k = l)
              => \A k \in DOMAIN t : t[k] # Head(s)
         /\ \E k \in DOMAIN s : s[k] = Head(s)
<1>1. /\ DOMAIN s = 1..Len(s) /\ Len(s) \in Nat \ {0} /\ Head(s) = s[1]
      /\ DOMAIN t = 1..(Len(s) - 1)
      /\ \A k \in 1..(Len(s) - 1) : t[k] = s[k + 1]
  BY HeadTailProperties
<1>2. \A k \in 1..Len(s) : k = 1 \/ k - 1 \in 1..(Len(s) - 1)
  BY <1>1
<1>3. /\ 1 \in 1..Len(s)
      /\ \A k \in 1..(Len(s) - 1) : k + 1 \in 1..Len(s) /\ k + 1 # 1
  BY <1>1
<1>4. \A k \in 1..Len(s) : k # 1 => t[k - 1] = s[k]
  BY <1>1, <1>2
<1>5. \A r : (\A k, l \in DOMAIN s : s[k] = r /\ s[l] = r => k = l)
              => \A k, l \in DOMAIN t : t[k] = r /\ t[l] = r => k = l
  <2> SUFFICES ASSUME NEW r, \A k, l \in DOMAIN s : s[k] = r /\ s[l] = r => k = l,
                      NEW k \in DOMAIN t, NEW l \in DOMAIN t, t[k] = r, t[l] = r
               PROVE  k = l
    OBVIOUS
  <2>1. s[k + 1] = r /\ s[l + 1] = r /\ k + 1 \in DOMAIN s /\ l + 1 \in DOMAIN s
    BY <1>1, <1>3
  <2>2. k + 1 = l + 1 /\ k \in Nat /\ l \in Nat
    BY <1>1, <2>1
  <2> QED BY <2>2
<1>7. (\A k, l \in DOMAIN s : s[k] = Head(s) /\ s[l] = Head(s) => k = l)
        => \A k \in DOMAIN t : t[k] # Head(s)
  BY <1>1, <1>3
<1> QED BY <1>1, <1>3, <1>5, <1>7

(* At first no request is anywhere.                                        *)
LEMMA RequestInvInit == Init => RequestInv
<1> SUFFICES ASSUME Init PROVE RequestInv
  OBVIOUS
<1>1. ASSUME NEW r \in Request PROVE OnePlace(r)
  <2>1. m_itemQueue = <<>> /\ DOMAIN m_itemQueue = {}
    BY DEF Init
  <2> QED BY <2>1 DEF Init, OnePlace, Queued, OnDisk, InFolder
<1> QED BY <1>1 DEF Init, RequestInv

(* A step that touches no request.                                         *)
LEMMA RequestsUntouched ==
  ASSUME RequestInv,
         UNCHANGED <<request, m_itemQueue, entry, queued, batch, answered, reported>>,
         spoiled \subseteq spoiled'
  PROVE  RequestInv'
<1>1. \A r : OnDisk(r)' <=> OnDisk(r)
  BY DEF OnDisk, InFolder
<1>2. ASSUME NEW r \in Request \ spoiled' PROVE OnePlace(r)'
  <2>1. OnePlace(r)
    BY DEF RequestInv
  <2> QED BY <1>1, <2>1, SamePlace
<1> QED BY <1>2 DEF RequestInv

(* A complete file goes to the queue; one that cannot be parsed stays.     *)
LEMMA SeedReadKeeps ==
  ASSUME TypeOK, RequestInv, NEW x \in Request, SeedRead(x)
  PROVE  RequestInv'
<1>1. /\ m_itemQueue \in Seq(Request) /\ entry = None /\ x # None
      /\ entry' = x /\ queued' = (request[x] = "file")
      /\ m_itemQueue' = IF request[x] = "file" THEN Append(m_itemQueue, x)
                        ELSE m_itemQueue
      /\ UNCHANGED <<request, batch, answered, reported, spoiled>>
  BY SeedInfoAssumption DEF SeedRead, ReadReplicaInfo, TypeOK, renderVars, doneVars
<1>2. ASSUME NEW r \in Request \ spoiled PROVE OnePlace(r)'
  <2>1. OnePlace(r)
    BY DEF RequestInv
  <2>2. CASE request[x] # "file"
    <3>1. OnDisk(r)' <=> OnDisk(r)
      BY <1>1, <2>2, SeedInfoAssumption DEF OnDisk, InFolder
    <3> QED BY <1>1, <2>1, <2>2, <3>1, SamePlace
  <2>3. CASE request[x] = "file"
    <3>1. m_itemQueue' = Append(m_itemQueue, x) /\ queued'
      BY <1>1, <2>3
    <3>2. Queued(r)' <=> (r = x \/ Queued(r))
      BY <1>1, <3>1, QueueGrows DEF Queued
    <3>3. CASE r = x
      <4>1. OnDisk(r) /\ ~OnDisk(r)'
        BY <1>1, <2>3, <3>1, <3>3, SeedInfoAssumption DEF OnDisk, InFolder
      <4>2. ~Queued(r)
        BY <2>1, <4>1, Zenon DEF OnePlace
      <4>3. \A k, l \in DOMAIN m_itemQueue' :
              m_itemQueue'[k] = r /\ m_itemQueue'[l] = r => k = l
        BY <1>1, <3>1, <3>3, <4>2, QueueGrows DEF Queued
      <4>4. Queued(r)'
        BY <3>2, <3>3
      <4> QED BY <1>1, <2>1, <4>1, <4>2, <4>3, <4>4, Zenon DEF OnePlace
    <3>4. CASE r # x
      <4>1. OnDisk(r)' <=> OnDisk(r)
        BY <1>1, <3>4, SeedInfoAssumption DEF OnDisk, InFolder
      <4>2. \A k, l \in DOMAIN m_itemQueue :
              m_itemQueue[k] = r /\ m_itemQueue[l] = r => k = l
        BY <2>1, Zenon DEF OnePlace
      <4>3. \A k, l \in DOMAIN m_itemQueue' :
              m_itemQueue'[k] = r /\ m_itemQueue'[l] = r => k = l
        BY <1>1, <3>1, <3>4, <4>2, QueueGrows
      <4>4. Queued(r)' <=> Queued(r)
        BY <3>2, <3>4
      <4> QED BY <1>1, <2>1, <4>1, <4>3, <4>4, Zenon DEF OnePlace
    <3> QED BY <3>3, <3>4
  <2> QED BY <2>2, <2>3
<1>3. queued' => entry' # None /\ request'[entry'] = "file"
  BY <1>1
<1> QED BY <1>1, <1>2, <1>3, Zenon DEF RequestInv

(* A request that a deletion does not spoil was queued, or stays a file.   *)
LEMMA DeleteUnseen ==
  ASSUME TypeOK, SeedDelete, NEW r \in Request \ spoiled'
  PROVE  OnDisk(r)' <=> OnDisk(r)
<1>1. /\ entry' = None /\ queued' = FALSE /\ entry # None /\ entry \in Request
      /\ request \in [Request -> {"unsent", "open", "file", "bad", "gone"}] /\ queued \in BOOLEAN
  BY DEF SeedDelete, TypeOK
<1>2. CASE r # entry
  <2>1. request'[r] = request[r]
    BY <1>1, <1>2 DEF SeedDelete
  <2> QED BY <1>1, <1>2, <2>1 DEF OnDisk, InFolder
<1>3. CASE r = entry /\ queued
  <2>1. request'[r] = "gone"
    BY <1>1, <1>3 DEF SeedDelete
  <2> QED BY <1>1, <1>3, <2>1 DEF OnDisk, InFolder
<1>4. CASE r = entry /\ ~queued
  <2>1. request' = request
    BY <1>1, <1>4 DEF SeedDelete
  <2> QED BY <1>1, <1>4, <2>1 DEF OnDisk, InFolder
<1> QED BY <1>1, <1>2, <1>3, <1>4

(* The file goes once its request is queued; a request that is read twice, *)
(* or not at all, is spoiled.                                              *)
LEMMA SeedDeleteKeeps ==
  ASSUME TypeOK, RequestInv, SeedDelete
  PROVE  RequestInv'
<1>1. /\ entry' = None /\ queued' = FALSE /\ entry # None /\ entry \in Request
      /\ UNCHANGED <<m_itemQueue, batch, answered, reported>>
      /\ spoiled \subseteq spoiled' /\ request \in [Request -> {"unsent", "open", "file", "bad", "gone"}]
      /\ queued \in BOOLEAN
  BY DEF SeedDelete, TypeOK, renderVars, doneVars
<1>2. ASSUME NEW r \in Request \ spoiled' PROVE OnePlace(r)'
  <2>1. OnePlace(r)
    BY <1>1 DEF RequestInv
  <2>2. (request'[r] # "unsent") <=> (request[r] # "unsent")
    BY <1>1 DEF SeedDelete
  <2>3. OnDisk(r)' <=> OnDisk(r)
    BY <1>2, DeleteUnseen
  <2> QED BY <1>1, <2>1, <2>2, <2>3, SamePlace
<1> QED BY <1>1, <1>2 DEF RequestInv

(* The request at the front becomes an answer or a report, or is spoiled   *)
(* together with the answers collected.                                    *)
LEMMA RenderServeKeeps ==
  ASSUME TypeOK, RequestInv, RenderServe \/ RenderThrows
  PROVE  RequestInv'
<1> DEFINE h == Head(m_itemQueue)
<1>1. /\ m_itemQueue \in Seq(Request) /\ m_itemQueue # <<>>
      /\ m_itemQueue' = Tail(m_itemQueue)
      /\ UNCHANGED <<request, entry, queued, answered>>
      /\ spoiled \subseteq spoiled'
      /\ \/ batch' = batch \cup {h} /\ reported' = reported
         \/ batch' = batch /\ reported' = reported \cup {h}
         \/ reported' = reported /\ batch' = {} /\ batch \cup {h} \subseteq spoiled'
  BY DEF RenderServe, RenderThrows, MoreToServe, TypeOK, threadVars, doneVars
<1>2. Queued(h)
  BY <1>1, QueueShrinks DEF Queued
<1> HIDE DEF h
<1>3. ASSUME NEW r \in Request \ spoiled' PROVE OnePlace(r)'
  <2>1. OnePlace(r)
    BY <1>1 DEF RequestInv
  <2>2. OnDisk(r)' <=> OnDisk(r)
    BY <1>1 DEF OnDisk, InFolder
  <2>3. \A k, l \in DOMAIN m_itemQueue :
          m_itemQueue[k] = r /\ m_itemQueue[l] = r => k = l
    BY <2>1, Zenon DEF OnePlace
  <2>4. \A k, l \in DOMAIN m_itemQueue' :
          m_itemQueue'[k] = r /\ m_itemQueue'[l] = r => k = l
    BY <1>1, <2>3, QueueShrinks
  <2>5. CASE r # h
    <3>1. Queued(r)' <=> Queued(r)
      <4>1. /\ r # Head(m_itemQueue) /\ m_itemQueue \in Seq(Request)
            /\ m_itemQueue # <<>> /\ m_itemQueue' = Tail(m_itemQueue)
        BY <1>1, <2>5 DEF h
      <4>2. /\ \A k \in DOMAIN Tail(m_itemQueue) : Tail(m_itemQueue)[k] = r =>
                 \E l \in DOMAIN m_itemQueue : m_itemQueue[l] = r
            /\ \A k \in DOMAIN m_itemQueue : m_itemQueue[k] = r =>
                 \E l \in DOMAIN Tail(m_itemQueue) : Tail(m_itemQueue)[l] = r
        BY <4>1, OthersStay
      <4> QED BY <4>1, <4>2, Zenon DEF Queued
    <3>2. /\ (r \in batch') <=> (r \in batch)
          /\ (r \in reported') <=> (r \in reported)
      BY <1>1, <1>3, <2>5
    <3> QED BY <1>1, <2>1, <2>2, <2>4, <3>1, <3>2, Zenon DEF OnePlace
  <2>6. CASE r = h
    <3>1. ~Queued(r)'
      BY <1>1, <2>3, <2>6, QueueShrinks DEF Queued, h
    <3>2. Queued(r) /\ ~OnDisk(r) /\ r \notin batch /\ answered[r] = 0 /\ r \notin reported
      BY <1>2, <2>1, <2>6, Zenon DEF OnePlace
    <3>3. request[r] # "unsent"
      BY <2>1, <3>2, Zenon DEF OnePlace
    <3>4. \/ r \in batch' /\ r \notin reported'
          \/ r \notin batch' /\ r \in reported'
      BY <1>1, <1>3, <2>6, <3>2
    <3> QED BY <1>1, <2>2, <2>4, <3>1, <3>2, <3>3, <3>4 DEF OnePlace
  <2> QED BY <2>5, <2>6
<1> QED BY <1>1, <1>3, Zenon DEF RequestInv

(* The answers collected become those of a .json file, or are spoiled.     *)
LEMMA RenderMoveKeeps ==
  ASSUME TypeOK, RequestInv, RenderMove
  PROVE  RequestInv'
<1>1. /\ UNCHANGED <<request, m_itemQueue, entry, queued, reported>>
      /\ batch' = {} /\ spoiled \subseteq spoiled'
      /\ \/ answered' = [r \in Request |->
              IF r \in batch /\ answered[r] < 2 THEN answered[r] + 1 ELSE answered[r]]
         \/ answered' = answered /\ batch \subseteq spoiled'
  BY DEF RenderMove, threadVars
<1>2. ASSUME NEW r \in Request \ spoiled' PROVE OnePlace(r)'
  <2>1. OnePlace(r)
    BY <1>1 DEF RequestInv
  <2>2. OnDisk(r)' <=> OnDisk(r)
    BY <1>1 DEF OnDisk, InFolder
  <2>3. CASE r \notin batch
    <3>1. answered'[r] = answered[r]
      BY <1>1, <2>3
    <3> QED BY <1>1, <2>1, <2>2, <2>3, <3>1, SamePlace
  <2>4. CASE r \in batch
    <3>1. answered[r] = 0 /\ r \notin reported /\ ~Queued(r) /\ ~OnDisk(r)
      BY <2>1, <2>4, Zenon DEF OnePlace
    <3>2. answered'[r] = 1
      BY <1>1, <1>2, <2>4, <3>1
    <3>3. Queued(r)' <=> Queued(r)
      BY <1>1 DEF Queued
    <3>4. request[r] # "unsent" /\ \A k, l \in DOMAIN m_itemQueue :
            m_itemQueue[k] = r /\ m_itemQueue[l] = r => k = l
      BY <2>1, <2>4, Zenon DEF OnePlace
    <3> QED BY <1>1, <2>2, <3>1, <3>2, <3>3, <3>4 DEF OnePlace
  <2> QED BY <2>3, <2>4
<1> QED BY <1>1, <1>2, Zenon DEF RequestInv

(* A request starts as a file.                                             *)
LEMMA IaKeeps ==
  ASSUME TypeOK, RequestInv, NEW x \in Request, IaRequest(x) \/ IaFinishWrite(x)
  PROVE  RequestInv'
<1>1. /\ UNCHANGED <<m_itemQueue, entry, queued, batch, answered, reported, spoiled>>
      /\ request[x] \in {"unsent", "open"}
      /\ request' \in [Request -> {"unsent", "open", "file", "bad", "gone"}]
      /\ request'[x] \in {"open", "file", "bad"}
      /\ \A r \in Request \ {x} : request'[r] = request[r]
  BY DEF IaRequest, IaFinishWrite, Complete, TypeOK, threadVars, renderVars, doneVars
<1>2. ~(entry = x /\ queued)
  BY <1>1 DEF RequestInv
<1>3. ASSUME NEW r \in Request \ spoiled PROVE OnePlace(r)'
  <2>1. OnePlace(r)
    BY DEF RequestInv
  <2>2. CASE r # x \/ request[x] = "open"
    <3>1. (request'[r] # "unsent") <=> (request[r] # "unsent")
      BY <1>1, <2>2
    <3>2. OnDisk(r)' <=> OnDisk(r)
      BY <1>1, <2>2 DEF OnDisk, InFolder
    <3> QED BY <1>1, <2>1, <3>1, <3>2, SamePlace
  <2>3. CASE r = x /\ request[x] = "unsent"
    <3>1. ~Queued(r) /\ ~OnDisk(r) /\ r \notin batch /\ answered[r] # 1 /\ r \notin reported
      BY <2>1, <2>3, Zenon DEF OnePlace
    <3>2. OnDisk(r)' /\ request'[r] # "unsent"
      BY <1>1, <1>2, <2>3 DEF OnDisk, InFolder
    <3>3. Queued(r)' <=> Queued(r)
      BY <1>1 DEF Queued
    <3>4. answered[r] \in {0, 1} /\ \A k, l \in DOMAIN m_itemQueue :
            m_itemQueue[k] = r /\ m_itemQueue[l] = r => k = l
      BY <2>1, Zenon DEF OnePlace
    <3> QED BY <1>1, <3>1, <3>2, <3>3, <3>4 DEF OnePlace
  <2> QED BY <1>1, <2>2, <2>3
<1>4. queued' => entry' # None /\ request'[entry'] = "file"
  <2> SUFFICES ASSUME queued PROVE entry # None /\ request'[entry] = "file"
    BY <1>1
  <2>1. entry # x /\ entry # None /\ request[entry] = "file" /\ entry \in Request
    BY <1>2 DEF RequestInv, TypeOK
  <2> QED BY <1>1, <2>1
<1> QED BY <1>1, <1>3, <1>4, Zenon DEF RequestInv

(* Every step keeps each request that no fault has hit in one place.       *)
LEMMA RequestInvNext == TypeOK /\ RequestInv /\ [Next]_vars => RequestInv'
<1> SUFFICES ASSUME TypeOK, RequestInv, [Next]_vars PROVE RequestInv'
  OBVIOUS
<1>1. CASE Start \/ Stop \/ RampBegin \/ RampEnd \/ GameChanges \/ UNCHANGED vars
  <2>1. UNCHANGED <<request, m_itemQueue, entry, queued, batch, answered, reported, spoiled>>
    BY <1>1 DEF Start, Stop, RampBegin, RampEnd, GameChanges, vars, threadVars,
                renderVars, doneVars
  <2> QED BY <2>1, RequestsUntouched
<1>2. CASE \/ SeedBegin \/ SeedCountDown \/ SeedProcess \/ SeedLeaves \/ SeedList
           \/ SeedScanned \/ SeedThrows
  <2>1. UNCHANGED <<request, m_itemQueue, entry, queued, batch, answered, reported, spoiled>>
    BY <1>2 DEF SeedBegin, SeedCountDown, SeedProcess, SeedLeaves, SeedList,
                SeedScanned, SeedThrows, threadVars, renderVars, doneVars
  <2> QED BY <2>1, RequestsUntouched
<1>3. CASE SeedDelete
  BY <1>3, SeedDeleteKeeps
<1>4. ASSUME NEW r \in Request, SeedRead(r) PROVE RequestInv'
  BY <1>4, SeedReadKeeps
<1>5. CASE RenderBackOff \/ RenderBegin \/ RenderWrite
  <2>1. UNCHANGED <<request, m_itemQueue, entry, queued, batch, answered, reported, spoiled>>
    BY <1>5 DEF RenderBackOff, RenderBegin, RenderWrite, threadVars, renderVars,
                doneVars
  <2> QED BY <2>1, RequestsUntouched
<1>6. CASE RenderServe \/ RenderThrows
  BY <1>6, RenderServeKeeps
<1>7. CASE RenderMove
  BY <1>7, RenderMoveKeeps
<1>8. ASSUME NEW r \in Request, IaRequest(r) \/ IaFinishWrite(r) PROVE RequestInv'
  BY <1>8, IaKeeps
<1>9. CASE SeedStep
  BY <1>2, <1>3, <1>4, <1>9 DEF SeedStep
<1>10. CASE RenderStep
  BY <1>5, <1>6, <1>7, <1>10 DEF RenderStep
<1> QED BY <1>1, <1>8, <1>9, <1>10 DEF Next

(* One place is one copy: the positions in the queue are none or one.      *)
LEMMA PlacesOfOne ==
  ASSUME TypeOK, NEW r \in Request, OnePlace(r)
  PROVE  Places(r) = IF request[r] = "unsent" THEN 0 ELSE 1
<1> DEFINE at == {k \in DOMAIN m_itemQueue : m_itemQueue[k] = r}
           q == Cardinality(at)
           f == IF InFolder(r) /\ ~(entry = r /\ queued) THEN 1 ELSE 0
           b == IF r \in batch THEN 1 ELSE 0
           w == IF r \in reported THEN 1 ELSE 0
<1>1. q = IF Queued(r) THEN 1 ELSE 0
  <2>1. CASE ~Queued(r)
    <3>1. at = {}
      BY <2>1 DEF Queued
    <3> QED BY <2>1, <3>1, FS_EmptySet
  <2>2. CASE Queued(r)
    <3>1. PICK k \in DOMAIN m_itemQueue : m_itemQueue[k] = r
      BY <2>2 DEF Queued
    <3>2. \A l \in DOMAIN m_itemQueue : m_itemQueue[l] = r => l = k
      BY <3>1, Zenon DEF OnePlace
    <3>3. at = {k}
      BY <3>1, <3>2
    <3> QED BY <2>2, <3>3, FS_Singleton
  <2> QED BY <2>1, <2>2
<1>2. f = IF OnDisk(r) THEN 1 ELSE 0
  BY DEF OnDisk
<1>3. Places(r) = q + f + b + answered[r] + w
  BY DEF Places
<1> HIDE DEF q, f
<1>4. answered[r] \in {0, 1}
  BY DEF OnePlace
<1> QED BY <1>1, <1>2, <1>3, <1>4 DEF OnePlace

(* A request no fault has hit is in one place, wherever it is.             *)
THEOREM RequestsConserved == Spec => []RequestConserved
<1>1. TypeOK /\ RequestInv => RequestConserved
  BY PlacesOfOne DEF RequestInv, RequestConserved
<1>2. Spec => []RequestInv
  BY RequestInvInit, RequestInvNext, TypeCorrect, PTL DEF Spec
<1> QED BY <1>1, <1>2, TypeCorrect, PTL

-----------------------------------------------------------------------------
(* Refinement: the desk for item stats implements StatRequests.  Where a   *)
(* request is, as the mapping says it.                                     *)
Where(r) == IF r \in spoiled THEN {"spoiled"} ELSE {p \in DOMAIN At(r) : At(r)[p]}

Faulty == Faults \ {"listing"} # {}

(* The Render hook collects no more answers than requests it has taken.    *)
BatchBounded == /\ IsFiniteSet(batch)
                /\ render = "serve" => Cardinality(batch) <= num
                /\ Cardinality(batch) <= BatchMax

(* What the listing found is still there.  Where files appear complete     *)
(* and are requests, each one that is read is queued.                      *)
ListingTrue == /\ \A r \in found : InFolder(r)
               /\ "partial" \notin Faults => \A r \in Request : request[r] # "open"
               /\ "malformed" \notin Faults => \A r \in Request : request[r] # "bad"
               /\ {"partial", "malformed"} \cap Faults = {} /\ entry # None => queued

(* A request that is taken makes the batch larger by one at most.          *)
LEMMA NextBatchBounded == TypeOK /\ BatchBounded /\ [Next]_vars => BatchBounded'
<1> SUFFICES ASSUME TypeOK, BatchBounded, [Next]_vars PROVE BatchBounded'
  OBVIOUS
<1> USE DEF BatchBounded
<1>0. num \in Nat /\ BatchMax \in Nat /\ BatchMax >= 1 /\ Cardinality(batch) \in Nat
  BY FS_CardinalityType, SeedInfoAssumption DEF TypeOK
<1>1. CASE RenderServe
  <2>1. /\ render = "serve" /\ num < BatchMax /\ num' = num + 1
        /\ \/ batch' = batch
           \/ batch' = batch \cup {Head(m_itemQueue)}
    BY <1>1 DEF RenderServe, MoreToServe
  <2>2. CASE batch' = batch
    BY <1>0, <2>1, <2>2
  <2>3. CASE batch' = batch \cup {Head(m_itemQueue)}
    <3>1. /\ IsFiniteSet(batch')
          /\ Cardinality(batch') <= Cardinality(batch) + 1
      BY <1>0, <2>3, FS_AddElement
    <3>2. Cardinality(batch') \in Nat
      BY <3>1, FS_CardinalityType
    <3> QED BY <1>0, <2>1, <3>1, <3>2
  <2> QED BY <2>1, <2>2, <2>3
<1>2. CASE RenderThrows \/ RenderMove
  <2>1. batch' = {} /\ render' = "idle"
    BY <1>2 DEF RenderThrows, RenderMove
  <2> QED BY <1>0, <2>1, FS_EmptySet
<1>3. CASE RenderBegin
  <2>1. batch' = batch /\ batch = {} /\ num' = 0
    BY <1>3 DEF RenderBegin, TypeOK
  <2> QED BY <1>0, <2>1, FS_EmptySet
<1>4. CASE RenderWrite \/ RenderBackOff
  <2>1. batch' = batch /\ (render' = "serve" => render = "serve" /\ num' = num)
    BY <1>4 DEF RenderWrite, RenderBackOff, renderVars
  <2> QED BY <2>1
<1>5. CASE UNCHANGED renderVars
  BY <1>5 DEF renderVars
<1>6. CASE SeedStep
  BY <1>5, <1>6 DEF SeedStep, SeedBegin, SeedCountDown, SeedProcess, SeedLeaves, SeedList,
     SeedDelete, SeedScanned, SeedThrows, SeedRead
<1>7. CASE Start \/ Stop \/ RampBegin \/ RampEnd \/ GameChanges \/ UNCHANGED vars
  BY <1>5, <1>7 DEF Start, Stop, RampBegin, RampEnd, GameChanges, vars
<1>8. ASSUME NEW r \in Request, IaRequest(r) \/ IaFinishWrite(r) PROVE BatchBounded'
  BY <1>5, <1>8 DEF IaRequest, IaFinishWrite
<1> QED BY <1>1, <1>2, <1>3, <1>4, <1>6, <1>7, <1>8 DEF Next, RenderStep

(* Only the seed thread deletes requests, and it forgets those it deletes. *)
LEMMA NextListingTrue == TypeOK /\ ListingTrue /\ [Next]_vars => ListingTrue'
<1> SUFFICES ASSUME TypeOK, ListingTrue, [Next]_vars PROVE ListingTrue'
  OBVIOUS
<1> USE DEF ListingTrue, InFolder
<1>1. CASE UNCHANGED <<request, found, entry, queued>>
  BY <1>1
<1>2. CASE SeedList
  BY <1>2 DEF SeedList
<1>3. ASSUME NEW r \in Request, SeedRead(r) PROVE ListingTrue'
  BY <1>3 DEF SeedRead, ReadReplicaInfo
<1>4. CASE SeedDelete
  <2>1. /\ found' = found \ {entry} /\ entry' = None
        /\ \A r \in Request : r # entry => request'[r] = request[r]
        /\ \A r \in Request : request'[r] = "open" => request[r] = "open"
        /\ \A r \in Request : request'[r] = "bad" => request[r] = "bad"
    BY <1>4 DEF SeedDelete, TypeOK
  <2> QED BY <2>1 DEF TypeOK
<1>5. CASE SeedThrows
  BY <1>5 DEF SeedThrows
<1>6. CASE SeedBegin \/ SeedCountDown \/ SeedProcess \/ SeedLeaves \/ SeedScanned
  BY <1>6, <1>1 DEF SeedBegin, SeedCountDown, SeedProcess, SeedLeaves, SeedScanned,
                     threadVars
<1>7. CASE RenderStep
  BY <1>7, <1>1 DEF RenderStep, RenderBackOff, RenderBegin, RenderServe, RenderThrows,
     RenderWrite, RenderMove, threadVars
<1>8. CASE Start \/ Stop \/ RampBegin \/ RampEnd \/ GameChanges \/ UNCHANGED vars
  BY <1>8, <1>1 DEF Start, Stop, RampBegin, RampEnd, GameChanges, vars, threadVars
<1>9. ASSUME NEW r \in Request, IaRequest(r) \/ IaFinishWrite(r) PROVE ListingTrue'
  <2>1. /\ UNCHANGED <<found, entry, queued>>
        /\ request'[r] \in {"open", "file", "bad"}
        /\ "partial" \notin Faults => request'[r] # "open"
        /\ "malformed" \notin Faults => request'[r] # "bad"
        /\ \A s \in Request : s # r => request'[s] = request[s]
    BY <1>9 DEF IaRequest, IaFinishWrite, Complete, TypeOK, threadVars
  <2> QED BY <2>1 DEF TypeOK
<1> QED BY <1>2, <1>3, <1>4, <1>5, <1>6, <1>7, <1>8, <1>9 DEF Next, SeedStep

DeskInv == TypeOK /\ RequestInv /\ BatchBounded /\ ListingTrue

(* The desk starts in its invariant and stays there.                       *)
LEMMA InitDeskInv == Init => DeskInv
<1>1. Init => BatchBounded
  BY FS_EmptySet, SeedInfoAssumption DEF Init, BatchBounded
<1>2. Init => ListingTrue
  BY DEF Init, ListingTrue
<1> QED BY <1>1, <1>2, InitTypeOK, RequestInvInit DEF DeskInv

(* Every step keeps what the steps of the desk are judged by.              *)
LEMMA NextDeskInv == DeskInv /\ [Next]_vars => DeskInv'
  BY NextTypeOK, RequestInvNext, NextBatchBounded, NextListingTrue DEF DeskInv

(* Where a request is that no fault has hit: in the one place it is in.    *)
WhereOnly(r) ==
  r \notin spoiled /\ OnePlace(r) =>
    /\ request[r] = "unsent" => Where(r) = {}
    /\ request[r] # "unsent" => Where(r) # {}
    /\ Queued(r) \/ OnDisk(r) => Where(r) = {"waiting"}
    /\ r \in batch => Where(r) = {"taken"}
    /\ answered[r] = 1 => Where(r) = {"answered"}
    /\ r \in reported => Where(r) = {"reported"}

(* Every request that no fault has hit is where its parts say it is.       *)
LEMMA WhereIs == \A r : WhereOnly(r)
<1> SUFFICES ASSUME NEW r, r \notin spoiled, OnePlace(r)
             PROVE  /\ request[r] = "unsent" => Where(r) = {}
                    /\ request[r] # "unsent" => Where(r) # {}
                    /\ Queued(r) \/ OnDisk(r) => Where(r) = {"waiting"}
                    /\ r \in batch => Where(r) = {"taken"}
                    /\ answered[r] = 1 => Where(r) = {"answered"}
                    /\ r \in reported => Where(r) = {"reported"}
  BY Zenon DEF WhereOnly
<1>1. /\ DOMAIN At(r) = {"waiting", "taken", "answered", "reported"}
      /\ At(r)["waiting"] = (OnDisk(r) \/ Queued(r))
      /\ At(r)["taken"] = (r \in batch)
      /\ At(r)["answered"] = (answered[r] = 1)
      /\ At(r)["reported"] = (r \in reported)
  BY DEF At, OnDisk, Queued
<1>2. \A p : p \in Where(r) <=> p \in DOMAIN At(r) /\ At(r)[p]
  BY DEF Where
<1>3. /\ "waiting" \in Where(r) <=> OnDisk(r) \/ Queued(r)
      /\ "taken" \in Where(r) <=> r \in batch
      /\ "answered" \in Where(r) <=> answered[r] = 1
      /\ "reported" \in Where(r) <=> r \in reported
      /\ Where(r) \subseteq {"waiting", "taken", "answered", "reported"}
  BY <1>1, <1>2
<1> HIDE DEF Where
<1>4. /\ request[r] # "unsent"
           <=> (Queued(r) \/ OnDisk(r) \/ r \in batch \/ answered[r] = 1 \/ r \in reported)
      /\ Queued(r) => ~OnDisk(r) /\ r \notin batch /\ answered[r] = 0 /\ r \notin reported
      /\ OnDisk(r) => r \notin batch /\ answered[r] = 0 /\ r \notin reported
      /\ r \in batch => answered[r] = 0 /\ r \notin reported
      /\ answered[r] = 1 => r \notin reported
  BY Zenon DEF OnePlace
<1> QED BY <1>3, <1>4

(* What a step does to the places of a request, as the desk sees it.       *)
LEMMA WhereSame ==
  ASSUME NEW r, (r \in spoiled') <=> (r \in spoiled),
         (Queued(r) \/ OnDisk(r))' <=> Queued(r) \/ OnDisk(r),
         (r \in batch') <=> (r \in batch), (answered'[r] = 1) <=> (answered[r] = 1),
         (r \in reported') <=> (r \in reported)
  PROVE  Where(r)' = Where(r)
<1>1. At(r)' = At(r)
  <2>1. /\ At(r) = [waiting |-> Queued(r) \/ OnDisk(r), taken |-> r \in batch,
                    answered |-> answered[r] = 1, reported |-> r \in reported]
        /\ At(r)' = [waiting |-> (Queued(r) \/ OnDisk(r))', taken |-> r \in batch',
                     answered |-> answered'[r] = 1, reported |-> r \in reported']
    BY Zenon DEF At, Queued, OnDisk
  <2> QED BY <2>1
<1> QED BY <1>1 DEF Where

DeskStep == [Desk!Next]_([r \in Request |-> Where(r)])

(* A step that moves no request changes nothing the desk sees.             *)
LEMMA NobodyMoves ==
  ASSUME \A r \in Request : Where(r)' = Where(r)
  PROVE  DeskStep
BY DEF DeskStep

(* Requests that move together.                                            *)
LEMMA MovesTo ==
  ASSUME NEW S, NEW place,
         \A r \in Request : Where(r)' = IF r \in S THEN {place} ELSE Where(r)
  PROVE  Desk!Move(S, place)
BY DEF Desk!Move, Where

(* One request goes into a batch that has room: the desk takes it.         *)
LEMMA OneTaken ==
  ASSUME NEW x \in Request, Where(x) = {"waiting"}, Where(x)' = {"taken"},
         \A r \in Request : r # x => Where(r)' = Where(r),
         Cardinality({r \in Request : Where(r) = {"taken"}}) < BatchMax
  PROVE  DeskStep
<1>1. Desk!Move({x}, "taken")
  BY MovesTo
<1>2. {r \in Request : Where(r) = {"taken"}} = Desk!Taken
  BY DEF Desk!Taken, Where
<1>3. Cardinality(Desk!Taken) < BatchMax
  BY <1>2
<1>4. Desk!Cardinality(Desk!Taken) = Cardinality(Desk!Taken)
  BY DEF Desk!Cardinality, Cardinality
<1>5. Desk!Take(x)
  BY <1>1, <1>3, <1>4 DEF Desk!Take, Where
<1> QED BY <1>5 DEF Desk!Next, DeskStep

(* One waiting request is reported as failed: the desk reports it.         *)
LEMMA OneReported ==
  ASSUME NEW x \in Request, Where(x) = {"waiting"}, Where(x)' = {"reported"},
         \A r \in Request : r # x => Where(r)' = Where(r)
  PROVE  DeskStep
<1>1. Desk!Move({x}, "reported")
  BY MovesTo
<1>2. Desk!Report(x)
  BY <1>1 DEF Desk!Report, Where
<1> QED BY <1>2 DEF Desk!Next, DeskStep

(* One new request waits: Item Assistant has written it.                   *)
LEMMA OneWritten ==
  ASSUME NEW x \in Request, Where(x) = {}, Where(x)' = {"waiting"},
         \A r \in Request : r # x => Where(r)' = Where(r)
  PROVE  DeskStep
<1>1. Desk!Move({x}, "waiting")
  BY MovesTo
<1>2. Desk!Write(x)
  BY <1>1 DEF Desk!Write, Where
<1> QED BY <1>2 DEF Desk!Next, DeskStep

(* Requests that a fault hits at once: the desk is told that they are.     *)
LEMMA SomeSpoiled ==
  ASSUME NEW S \in SUBSET Request, Faulty, \A r \in S : Where(r) # {},
         \A r \in Request : Where(r)' = IF r \in S THEN {"spoiled"} ELSE Where(r)
  PROVE  DeskStep
<1>1. Desk!Move(S, "spoiled")
  BY MovesTo
<1>2. Desk!Spoil
  BY <1>1 DEF Desk!Spoil, Faulty, Where
<1> QED BY <1>2 DEF Desk!Next, DeskStep

(* A file that is read becomes a queued request and is as far as before.   *)
LEMMA ReadStep ==
  ASSUME TypeOK, NEW x \in Request, SeedRead(x)
  PROVE  DeskStep
<1>1. /\ m_itemQueue \in Seq(Request) /\ entry = None /\ x # None
      /\ entry' = x /\ queued' = (request[x] = "file")
      /\ m_itemQueue' = IF request[x] = "file" THEN Append(m_itemQueue, x)
                        ELSE m_itemQueue
      /\ UNCHANGED <<request, batch, answered, reported, spoiled>>
  BY SeedInfoAssumption DEF SeedRead, ReadReplicaInfo, TypeOK, renderVars, doneVars
<1>2. ASSUME NEW r \in Request PROVE (Queued(r) \/ OnDisk(r))' <=> Queued(r) \/ OnDisk(r)
  <2>1. CASE request[x] # "file"
    BY <1>1, <2>1, SeedInfoAssumption DEF Queued, OnDisk, InFolder
  <2>2. CASE request[x] = "file"
    <3>1. Queued(r)' <=> (r = x \/ Queued(r))
      BY <1>1, <2>2, QueueGrows DEF Queued
    <3>2. CASE r = x
      BY <1>1, <2>2, <3>1, <3>2, SeedInfoAssumption DEF OnDisk, InFolder
    <3>3. CASE r # x
      BY <1>1, <3>1, <3>3, SeedInfoAssumption DEF OnDisk, InFolder
    <3> QED BY <3>2, <3>3
  <2> QED BY <2>1, <2>2
<1>3. \A r \in Request : Where(r)' = Where(r)
  BY <1>1, <1>2, WhereSame
<1> QED BY <1>3, NobodyMoves

(* The deletion of a file spoils its request or is not seen.               *)
LEMMA DeleteStep ==
  ASSUME DeskInv, DeskInv', SeedDelete
  PROVE  DeskStep
<1>1. /\ TypeOK /\ RequestInv /\ ListingTrue /\ entry # None /\ entry \in Request
      /\ UNCHANGED <<m_itemQueue, batch, answered, reported>>
      /\ spoiled' = spoiled \/ spoiled' = spoiled \cup {entry}
      /\ spoiled \in SUBSET Request
  BY DEF DeskInv, SeedDelete, TypeOK, renderVars, doneVars
<1>2. \A r : Queued(r)' <=> Queued(r)
  BY <1>1 DEF Queued
<1>3. ASSUME NEW r \in Request, r \notin spoiled' PROVE Where(r)' = Where(r)
  BY <1>1, <1>2, <1>3, DeleteUnseen, WhereSame
<1>4. ASSUME NEW r \in Request, r \in spoiled PROVE Where(r)' = Where(r)
  BY <1>1, <1>4 DEF Where
<1>5. CASE spoiled' = spoiled
  BY <1>3, <1>4, <1>5, NobodyMoves
<1>6. CASE spoiled' = spoiled \cup {entry} /\ entry \notin spoiled
  <2>1. Faulty /\ request[entry] # "unsent"
    <3>1. CASE queued
      <4>1. request[entry] = "file" /\ "delete" \in Faults
        BY <1>1, <1>6, <3>1 DEF SeedDelete, RequestInv
      <4> QED BY <4>1 DEF Faulty
    <3>2. CASE ~queued
      <4>1. request[entry] # "unsent"
        BY <1>1, <1>6, <3>2 DEF SeedDelete
      <4>2. "partial" \in Faults \/ "malformed" \in Faults
        BY <1>1, <3>2 DEF ListingTrue
      <4> QED BY <4>1, <4>2 DEF Faulty
    <3> QED BY <3>1, <3>2
  <2>2. Where(entry) # {}
    <3>1. OnePlace(entry) /\ WhereOnly(entry)
      BY <1>1, <1>6, WhereIs DEF RequestInv
    <3> QED BY <1>6, <2>1, <3>1, Zenon DEF WhereOnly
  <2>3. ASSUME NEW r \in Request
        PROVE  Where(r)' = IF r \in {entry} THEN {"spoiled"} ELSE Where(r)
    <3>1. CASE r = entry
      BY <1>6, <3>1 DEF Where
    <3>2. CASE r # entry
      BY <1>3, <1>4, <1>6, <3>2
    <3> QED BY <3>1, <3>2
  <2> QED BY <1>1, <2>1, <2>2, <2>3, SomeSpoiled
<1> QED BY <1>1, <1>5, <1>6

(* A Render call takes the request at the front, or drops it together with *)
(* those it has taken.                                                     *)
LEMMA ServeStep ==
  ASSUME DeskInv, DeskInv', RenderServe \/ RenderThrows
  PROVE  DeskStep
<1>0. PICK h \in Request : h = Head(m_itemQueue)
  BY Popped DEF DeskInv, TypeOK, RenderServe, RenderThrows, MoreToServe
<1>1. /\ TypeOK /\ RequestInv /\ RequestInv' /\ BatchBounded
      /\ m_itemQueue \in Seq(Request) /\ m_itemQueue # <<>>
      /\ m_itemQueue' = Tail(m_itemQueue)
      /\ UNCHANGED <<request, entry, queued, answered>>
      /\ batch \in SUBSET Request
  BY DEF DeskInv, RenderServe, RenderThrows, MoreToServe, TypeOK, threadVars, doneVars
<1>2. Queued(h)
  BY <1>0, <1>1, QueueShrinks DEF Queued
<1>3. ASSUME NEW r \in Request, r # h
      PROVE  (Queued(r) \/ OnDisk(r))' <=> Queued(r) \/ OnDisk(r)
  <2>1. /\ \A k \in DOMAIN Tail(m_itemQueue) : Tail(m_itemQueue)[k] = r =>
             \E l \in DOMAIN m_itemQueue : m_itemQueue[l] = r
        /\ \A k \in DOMAIN m_itemQueue : m_itemQueue[k] = r =>
             \E l \in DOMAIN Tail(m_itemQueue) : Tail(m_itemQueue)[l] = r
    BY <1>0, <1>1, <1>3, OthersStay
  <2>2. Queued(r)' <=> Queued(r)
    BY <1>1, <2>1, Zenon DEF Queued
  <2>3. OnDisk(r)' <=> OnDisk(r)
    BY <1>1 DEF OnDisk, InFolder
  <2> QED BY <2>2, <2>3
<1>4. (\A r : WhereOnly(r)) /\ (\A r : WhereOnly(r))'
  BY WhereIs, PTL
<1>5. CASE RenderServe
  <2>1. /\ spoiled' = spoiled /\ render = "serve" /\ num < BatchMax
        /\ \/ batch' = batch \cup {h} /\ reported' = reported
           \/ batch' = batch /\ reported' = reported \cup {h}
    BY <1>0, <1>5 DEF RenderServe, MoreToServe
  <2>2. \A r \in Request : r # h => Where(r)' = Where(r)
    BY <1>1, <1>3, <2>1, WhereSame
  <2>3. CASE h \in spoiled
    <3>1. Where(h)' = Where(h)
      BY <2>1, <2>3 DEF Where
    <3> QED BY <2>2, <3>1, NobodyMoves
  <2>4. CASE h \notin spoiled
    <3>1. OnePlace(h) /\ OnePlace(h)'
      BY <1>1, <2>1, <2>4 DEF RequestInv
    <3>2. Where(h) = {"waiting"}
      BY <1>2, <1>4, <2>4, <3>1, Zenon DEF WhereOnly
    <3>3. CASE batch' = batch \cup {h}
      <4>1. Where(h)' = {"taken"}
        <5>1. h \in batch' /\ h \notin spoiled' /\ WhereOnly(h)'
          BY <1>4, <2>1, <2>4, <3>3
        <5> QED BY <3>1, <5>1, Zenon DEF WhereOnly
      <4>2. Cardinality({r \in Request : Where(r) = {"taken"}}) < BatchMax
        <5> DEFINE T == {r \in Request : Where(r) = {"taken"}}
        <5>1. ASSUME NEW r \in T PROVE r \in batch
          <6>1. "taken" \in Where(r) /\ "taken" # "spoiled"
            BY <5>1
          <6>2. "taken" \in DOMAIN At(r) /\ At(r)["taken"]
            BY <6>1 DEF Where
          <6> QED BY <6>2 DEF At
        <5>2. T \subseteq batch
          BY <5>1
        <5>3. IsFiniteSet(batch) /\ Cardinality(batch) <= num
          BY <1>1, <2>1 DEF BatchBounded
        <5> HIDE DEF T
        <5>4. Cardinality(T) <= Cardinality(batch) /\ IsFiniteSet(T)
          BY <5>2, <5>3, FS_Subset
        <5>5. /\ Cardinality(T) \in Nat /\ Cardinality(batch) \in Nat
              /\ num \in Nat /\ BatchMax \in Nat
          BY <1>1, <5>3, <5>4, FS_CardinalityType, SeedInfoAssumption DEF TypeOK
        <5>6. Cardinality(T) < BatchMax
          BY <2>1, <5>3, <5>4, <5>5
        <5> QED BY <5>6 DEF T
      <4> QED BY <2>2, <3>2, <4>1, <4>2, OneTaken
    <3>4. CASE reported' = reported \cup {h}
      <4>1. Where(h)' = {"reported"}
        <5>1. h \in reported' /\ h \notin spoiled' /\ WhereOnly(h)'
          BY <1>4, <2>1, <2>4, <3>4
        <5> QED BY <3>1, <5>1, Zenon DEF WhereOnly
      <4> QED BY <2>2, <3>2, <4>1, OneReported
    <3> QED BY <2>1, <3>3, <3>4
  <2> QED BY <2>3, <2>4
<1>6. CASE RenderThrows
  <2>1. /\ Faulty /\ spoiled' = spoiled \cup batch \cup {h} /\ batch' = {}
        /\ reported' = reported
    BY <1>0, <1>6 DEF RenderThrows, Faulty, doneVars
  <2> DEFINE S == (batch \cup {h}) \ spoiled
  <2>2. ASSUME NEW r \in S PROVE Where(r) # {}
    <3>1. r \notin spoiled /\ r \in Request /\ OnePlace(r) /\ WhereOnly(r)
      BY <1>1, <1>4 DEF RequestInv
    <3>2. Queued(r) \/ r \in batch
      BY <1>2
    <3>3. {"waiting"} # {} /\ {"taken"} # {}
      OBVIOUS
    <3> QED BY <3>1, <3>2, <3>3, Zenon DEF WhereOnly
  <2>3. ASSUME NEW r \in Request
        PROVE  Where(r)' = IF r \in S THEN {"spoiled"} ELSE Where(r)
    <3>1. CASE r \in spoiled'
      BY <2>1, <3>1 DEF Where
    <3>2. CASE r \notin spoiled'
      <4>1. r # h /\ r \notin S /\ r \notin spoiled /\ r \notin batch
        BY <2>1, <3>2
      <4>2. Where(r)' = Where(r)
        BY <1>1, <1>3, <2>1, <3>2, <4>1, WhereSame
      <4> QED BY <4>1, <4>2
    <3> QED BY <3>1, <3>2
  <2>4. S \in SUBSET Request
    BY <1>1
  <2> HIDE DEF S
  <2> QED BY <2>1, <2>2, <2>3, <2>4, SomeSpoiled
<1> QED BY <1>5, <1>6

(* The answers of a batch appear together, or are spoiled together.        *)
LEMMA MoveStep ==
  ASSUME DeskInv, DeskInv', RenderMove
  PROVE  DeskStep
<1>1. /\ TypeOK /\ RequestInv /\ RequestInv' /\ batch \in SUBSET Request /\ batch' = {}
      /\ UNCHANGED <<request, m_itemQueue, entry, queued, reported>>
  BY DEF DeskInv, TypeOK, RenderMove, threadVars
<1>2. \A r : (Queued(r) \/ OnDisk(r))' <=> Queued(r) \/ OnDisk(r)
  BY <1>1 DEF Queued, OnDisk, InFolder
<1>3. (\A r : WhereOnly(r)) /\ (\A r : WhereOnly(r))'
  BY WhereIs, PTL
<1> DEFINE S == batch \ spoiled
<1>4. ASSUME NEW r \in S PROVE Where(r) = {"taken"} /\ OnePlace(r)
  <2>1. r \notin spoiled /\ r \in batch /\ OnePlace(r) /\ WhereOnly(r)
    BY <1>1, <1>3 DEF RequestInv
  <2> QED BY <2>1, Zenon DEF WhereOnly
<1>5. CASE spoiled' = spoiled /\ answered' = [r \in Request |->
             IF r \in batch /\ answered[r] < 2 THEN answered[r] + 1 ELSE answered[r]]
  <2>1. ASSUME NEW r \in S PROVE Where(r)' = {"answered"}
    <3>1. answered[r] = 0
      <4>1. r \in batch /\ OnePlace(r)
        BY <1>4
      <4> QED BY <4>1, Zenon DEF OnePlace
    <3>2. answered'[r] = 1 /\ r \notin spoiled'
      BY <1>1, <1>5, <3>1
    <3>3. OnePlace(r)' /\ WhereOnly(r)'
      BY <1>1, <1>3, <3>2 DEF RequestInv
    <3> QED BY <3>2, <3>3, Zenon DEF WhereOnly
  <2>2. ASSUME NEW r \in Request, r \notin S PROVE Where(r)' = Where(r)
    <3>1. CASE r \in spoiled
      BY <1>5, <3>1 DEF Where
    <3>2. CASE r \notin spoiled
      <4>1. r \notin batch /\ answered'[r] = answered[r]
        BY <1>5, <2>2, <3>2
      <4> QED BY <1>1, <1>2, <1>5, <4>1, WhereSame
    <3> QED BY <3>1, <3>2
  <2>3. S = Desk!Taken
    <3>1. ASSUME NEW r \in Request, Where(r) = {"taken"} PROVE r \in S
      <4>1. "taken" \in Where(r) /\ "taken" # "spoiled"
        BY <3>1
      <4>2. r \notin spoiled /\ "taken" \in DOMAIN At(r) /\ At(r)["taken"]
        BY <4>1 DEF Where
      <4> QED BY <4>2 DEF At
    <3>2. S = {r \in Request : Where(r) = {"taken"}}
      BY <1>1, <1>4, <3>1
    <3> HIDE DEF S
    <3> QED BY <3>2 DEF Desk!Taken, Where
  <2>4. CASE S = {}
    BY <2>2, <2>4, NobodyMoves
  <2>5. CASE S # {}
    <3> HIDE DEF S
    <3>1. Desk!Move(S, "answered")
      BY <2>1, <2>2, MovesTo
    <3>2. Desk!Publish
      BY <2>3, <2>5, <3>1 DEF Desk!Publish
    <3> QED BY <3>2 DEF Desk!Next, DeskStep
  <2> QED BY <2>4, <2>5
<1>6. CASE "move" \in Faults /\ spoiled' = spoiled \cup batch /\ answered' = answered
  <2>1. Faulty
    BY <1>6 DEF Faulty
  <2>2. ASSUME NEW r \in Request
        PROVE  Where(r)' = IF r \in S THEN {"spoiled"} ELSE Where(r)
    <3>1. CASE r \in spoiled'
      BY <1>6, <3>1 DEF Where
    <3>2. CASE r \notin spoiled'
      <4>1. r \notin S /\ r \notin spoiled /\ r \notin batch
        BY <1>6, <3>2
      <4>2. Where(r)' = Where(r)
        BY <1>1, <1>2, <1>6, <3>2, <4>1, WhereSame
      <4> QED BY <4>1, <4>2
    <3> QED BY <3>1, <3>2
  <2>3. S \in SUBSET Request /\ \A r \in S : Where(r) # {}
    BY <1>1, <1>4
  <2> HIDE DEF S
  <2> QED BY <2>1, <2>2, <2>3, SomeSpoiled
<1> QED BY <1>5, <1>6 DEF RenderMove

(* A request waits from the moment its file appears.                       *)
LEMMA IaStep ==
  ASSUME DeskInv, DeskInv', NEW x \in Request, IaRequest(x) \/ IaFinishWrite(x)
  PROVE  DeskStep
<1>1. /\ TypeOK /\ RequestInv /\ RequestInv'
      /\ UNCHANGED <<m_itemQueue, entry, queued, batch, answered, reported, spoiled>>
      /\ request[x] \in {"unsent", "open"} /\ request'[x] \in {"open", "file", "bad"}
      /\ \A r \in Request \ {x} : request'[r] = request[r]
  BY DEF DeskInv, IaRequest, IaFinishWrite, Complete, TypeOK, threadVars, renderVars, doneVars
<1>2. \A r : Queued(r)' <=> Queued(r)
  BY <1>1 DEF Queued
<1>3. ASSUME NEW r \in Request, r # x PROVE Where(r)' = Where(r)
  <2>1. OnDisk(r)' <=> OnDisk(r)
    BY <1>1, <1>3 DEF OnDisk, InFolder
  <2> QED BY <1>1, <1>2, <2>1, WhereSame
<1>4. CASE request[x] = "open" \/ x \in spoiled
  <2>1. CASE x \in spoiled
    BY <1>1, <1>3, <2>1, NobodyMoves DEF Where
  <2>2. CASE request[x] = "open"
    <3>1. OnDisk(x)' <=> OnDisk(x)
      BY <1>1, <2>2 DEF OnDisk, InFolder
    <3>2. Where(x)' = Where(x)
      BY <1>1, <1>2, <3>1, WhereSame
    <3> QED BY <1>3, <3>2, NobodyMoves
  <2> QED BY <1>4, <2>1, <2>2
<1>5. CASE request[x] = "unsent" /\ x \notin spoiled
  <2>1. (\A r : WhereOnly(r)) /\ (\A r : WhereOnly(r))'
    BY WhereIs, PTL
  <2>2. OnePlace(x) /\ OnePlace(x)' /\ x \notin spoiled'
    BY <1>1, <1>5 DEF RequestInv
  <2>3. Where(x) = {}
    BY <1>5, <2>1, <2>2, Zenon DEF WhereOnly
  <2>4. OnDisk(x)'
    <3>1. ~(entry = x /\ queued)
      BY <1>1, <1>5 DEF RequestInv
    <3> QED BY <1>1, <3>1 DEF OnDisk, InFolder
  <2>5. Where(x)' = {"waiting"}
    BY <2>1, <2>2, <2>4, Zenon DEF WhereOnly
  <2> QED BY <1>3, <2>3, <2>5, OneWritten
<1> QED BY <1>1, <1>4, <1>5

(* Every step of the desk is one of StatRequests, or moves no request.     *)
LEMMA StepImplementsRequests == DeskInv /\ DeskInv' /\ [Next]_vars => DeskStep
<1> SUFFICES ASSUME DeskInv, DeskInv', [Next]_vars PROVE DeskStep
  OBVIOUS
<1>1. ASSUME UNCHANGED <<request, m_itemQueue, entry, queued, batch, answered, reported, spoiled>>
      PROVE  DeskStep
  <2>1. \A r : (Queued(r) \/ OnDisk(r))' <=> Queued(r) \/ OnDisk(r)
    BY <1>1 DEF Queued, OnDisk, InFolder
  <2>2. \A r \in Request : Where(r)' = Where(r)
    BY <1>1, <2>1, WhereSame
  <2> QED BY <2>2, NobodyMoves
<1>2. CASE Start \/ Stop \/ RampBegin \/ RampEnd \/ GameChanges \/ UNCHANGED vars
  BY <1>1, <1>2 DEF Start, Stop, RampBegin, RampEnd, GameChanges, vars, threadVars,
     renderVars, doneVars
<1>3. CASE \/ SeedBegin \/ SeedCountDown \/ SeedProcess \/ SeedLeaves \/ SeedList
           \/ SeedScanned \/ SeedThrows
  BY <1>1, <1>3 DEF SeedBegin, SeedCountDown, SeedProcess, SeedLeaves, SeedList,
     SeedScanned, SeedThrows, threadVars, renderVars, doneVars
<1>4. CASE SeedStep
  BY <1>3, <1>4, ReadStep, DeleteStep DEF SeedStep, DeskInv
<1>5. CASE RenderBackOff \/ RenderBegin \/ RenderWrite
  BY <1>1, <1>5 DEF RenderBackOff, RenderBegin, RenderWrite, threadVars, renderVars, doneVars
<1>6. CASE RenderStep
  BY <1>5, <1>6, ServeStep, MoveStep DEF RenderStep
<1>7. ASSUME NEW r \in Request, IaRequest(r) \/ IaFinishWrite(r) PROVE DeskStep
  BY <1>7, IaStep
<1> QED BY <1>2, <1>4, <1>6, <1>7 DEF Next

(* The desk keeps the promises of StatRequests, for every number of        *)
(* requests, every size of a batch and every set of faults.                *)
THEOREM DeskServes == Spec => ImplementsRequests
<1>1. Init => Desk!Init
  <2> SUFFICES ASSUME Init PROVE Desk!Init
    OBVIOUS
  <2>1. ASSUME NEW r \in Request PROVE Where(r) = {}
    <3>1. r \notin spoiled /\ request[r] = "unsent" /\ OnePlace(r)
      BY InitDeskInv DEF Init, DeskInv, RequestInv
    <3> QED BY <3>1, WhereIs, Zenon DEF WhereOnly
  <2> QED BY <2>1 DEF Desk!Init, Where
<1>2. DeskInv /\ DeskInv' /\ [Next]_vars
        => [Desk!Next]_([r \in Request |-> IF r \in spoiled THEN {"spoiled"}
                                           ELSE {p \in DOMAIN At(r) : At(r)[p]}])
  BY StepImplementsRequests DEF DeskStep, Where
<1> QED BY <1>1, <1>2, InitDeskInv, NextDeskInv, PTL DEF Spec, ImplementsRequests, Desk!Spec

(* A listing that fails costs no request: only files that can be seen half *)
(* written or are no request, deletions and renames that fail, and         *)
(* exceptions of the game do.  Without these every request is conserved.   *)
THEOREM ListingFaultHarmless ==
  ASSUME Faults \subseteq {"listing"}
  PROVE  Spec => [](\A r \in Request :
                      Places(r) = IF request[r] = "unsent" THEN 0 ELSE 1)
<1> DEFINE Unspoiled == spoiled = {}
<1>1. Init => Unspoiled
  BY DEF Init
<1>2. DeskInv /\ Unspoiled /\ [Next]_vars => Unspoiled'
  <2> SUFFICES ASSUME DeskInv, spoiled = {}, [Next]_vars PROVE spoiled' = {}
    OBVIOUS
  <2>1. CASE SeedDelete
    <3>1. entry # None /\ queued
      BY <2>1 DEF DeskInv, ListingTrue, TypeOK, SeedDelete
    <3>2. request[entry] = "file"
      BY <3>1 DEF DeskInv, RequestInv
    <3> QED BY <2>1, <3>1, <3>2 DEF SeedDelete
  <2>2. CASE RenderThrows \/ RenderMove
    BY <2>2 DEF RenderThrows, RenderMove
  <2>3. CASE UNCHANGED spoiled
    BY <2>3
  <2>4. CASE SeedStep
    BY <2>1, <2>3, <2>4 DEF SeedStep, SeedBegin, SeedCountDown, SeedProcess, SeedLeaves,
       SeedList, SeedScanned, SeedThrows, SeedRead
  <2>5. CASE RenderStep
    BY <2>2, <2>3, <2>5 DEF RenderStep, RenderBackOff, RenderBegin, RenderServe, RenderWrite
  <2>6. CASE Start \/ Stop \/ RampBegin \/ RampEnd \/ GameChanges \/ UNCHANGED vars
    BY <2>3, <2>6 DEF Start, Stop, RampBegin, RampEnd, GameChanges, vars
  <2>7. ASSUME NEW r \in Request, IaRequest(r) \/ IaFinishWrite(r) PROVE spoiled' = {}
    BY <2>3, <2>7 DEF IaRequest, IaFinishWrite
  <2> QED BY <2>4, <2>5, <2>6, <2>7 DEF Next
<1>3. RequestConserved /\ Unspoiled
        => \A r \in Request : Places(r) = IF request[r] = "unsent" THEN 0 ELSE 1
  BY DEF RequestConserved
<1> QED BY <1>1, <1>2, <1>3, InitDeskInv, NextDeskInv, RequestsConserved, PTL DEF Spec
=============================================================================
