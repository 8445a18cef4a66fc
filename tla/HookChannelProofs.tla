------------------------- MODULE HookChannelProofs -------------------------
(***************************************************************************)
(* Theorems about HookChannel, for every number of hook threads, messages  *)
(* and connections and every size of the socket buffers.                   *)
(***************************************************************************)
EXTENDS HookChannel, SequenceTheorems, TLAPS

(* Appending, and dropping the first element or the end of a sequence.     *)
LEMMA Appended ==
  ASSUME NEW S, NEW s \in Seq(S), NEW e \in S
  PROVE  /\ Append(s, e) \in Seq(S)
         /\ Len(Append(s, e)) = Len(s) + 1
         /\ \A k \in 1..Len(s) : Append(s, e)[k] = s[k]
         /\ Append(s, e)[Len(s) + 1] = e
  BY AppendProperties

(* A sequence without its head.                                            *)
LEMMA Dropped ==
  ASSUME NEW S, NEW s \in Seq(S), s # <<>>
  PROVE  /\ Len(s) >= 1
         /\ Head(s) = s[1] /\ Head(s) \in S
         /\ Tail(s) \in Seq(S)
         /\ Len(Tail(s)) = Len(s) - 1
         /\ \A k \in 1..Len(s) - 1 : Tail(s)[k] = s[k + 1]
  BY HeadTailProperties

(* A sequence cut off behind its n-th element.                             *)
LEMMA Truncated ==
  ASSUME NEW S, NEW s \in Seq(S), NEW n \in 0..Len(s)
  PROVE  /\ SubSeq(s, 1, n) \in Seq(S)
         /\ Len(SubSeq(s, 1, n)) = n
         /\ \A k \in 1..n : SubSeq(s, 1, n)[k] = s[k]
<1>1. 1 \in 1..Len(s) + 1 /\ n \in 1 - 1..Len(s)
  OBVIOUS
<1> QED BY <1>1, SubSeqProperties

(* What the assumptions say of the numbers of messages and connections.    *)
LEMMA Numbers == /\ \A m : m \in Msg <=> m \in Nat /\ 1 <= m /\ m <= MaxMsg
                 /\ \A c : c \in Conn <=> c \in Nat /\ 1 <= c /\ c <= MaxConn
                 /\ MaxMsg \in Nat /\ MaxMsg >= 1 /\ MaxConn \in Nat
                 /\ WireCap \in Nat /\ WireCap >= 1 /\ ReplyCap \in Nat
  BY ChannelAssumption DEF Msg, Conn

(* Every reachable state of the channel is well typed.                     *)
LEMMA InitTypeOK == Init => TypeOK
<1> SUFFICES ASSUME Init PROVE TypeOK
  OBVIOUS
<1>1. <<1>> \in Seq(Msg)
  BY Numbers
<1>2. <<>> \in Seq(Msg) /\ <<>> \in Seq(Conn \X Msg)
  OBVIOUS
<1>3. 0 \in 0..ReplyCap + 1 /\ 0 \in 0..MaxConn /\ 1 \in 0..MaxMsg
  BY Numbers
<1>4. /\ wire \in [Conn -> Seq(Msg)]
      /\ replies \in [Conn -> 0..ReplyCap + 1]
      /\ peerOpen \in [Conn -> BOOLEAN]
      /\ producer \in [Producer -> {"idle", "push"}]
  BY <1>2, <1>3 DEF Init
<1>5. /\ g_dataQueue \in Seq(Msg) /\ received \in Seq(Conn \X Msg)
      /\ pushed \in 0..MaxMsg /\ opened \in 0..MaxConn /\ m_socket \in 0..opened
  BY <1>1, <1>2, <1>3 DEF Init
<1>6. /\ worker \in {"wait", "poll", "drain", "send"}
      /\ inHand \in Msg \cup {0} /\ lost \in SUBSET Msg
      /\ inHand # 0 <=> worker = "send"
  BY DEF Init
<1> QED BY <1>4, <1>5, <1>6, Zenon DEF Init, TypeOK

(* A connection that is opened gets the next number and starts empty.      *)
LEMMA OpensOne ==
  ASSUME TypeOK, ConnectSucceeds
  PROVE  /\ opened' \in Conn /\ opened' \in 0..MaxConn /\ m_socket' \in 0..opened'
         /\ peerOpen' \in [Conn -> BOOLEAN]
         /\ wire' \in [Conn -> Seq(Msg)] /\ replies' \in [Conn -> 0..ReplyCap + 1]
<1>1. opened' \in Conn
  BY ChannelAssumption DEF ConnectSucceeds, TypeOK, Conn
<1> QED BY <1>1, ChannelAssumption DEF ConnectSucceeds, TypeOK

(* Every step keeps the types.                                             *)
LEMMA NextTypeOK == TypeOK /\ [Next]_vars => TypeOK'
<1> SUFFICES ASSUME TypeOK, [Next]_vars PROVE TypeOK'
  OBVIOUS
<1> USE Numbers DEF TypeOK, queueVars, socketVars, windowVars
<1>1. ASSUME NEW p \in Producer, Push(p) \/ SignalEvent(p) PROVE TypeOK'
  <2>1. CASE Push(p)
    <3>1. pushed + 1 \in Msg
      BY <2>1, ChannelAssumption DEF Push, Msg
    <3>2. g_dataQueue' \in Seq(Msg)
      BY ONLY <2>1, <3>1, g_dataQueue \in Seq(Msg), Appended DEF Push
    <3> QED BY <2>1, <3>1, <3>2 DEF Push
  <2>2. CASE SignalEvent(p)
    BY <2>2 DEF SignalEvent
  <2> QED BY <1>1, <2>1, <2>2
<1>2. CASE WorkerStep
  <2>1. CASE WorkerWake
    BY <2>1 DEF WorkerWake
  <2>2. CASE WorkerPoll
    BY <2>2 DEF WorkerPoll
  <2>3. CASE WorkerPop
    <3>1. Head(g_dataQueue) \in Msg /\ Tail(g_dataQueue) \in Seq(Msg)
      BY <2>3, Dropped DEF WorkerPop
    <3>2. Head(g_dataQueue) # 0
      BY <3>1
    <3> QED BY <2>3, <3>1, <3>2 DEF WorkerPop
  <2>4. CASE WorkerEmpty
    BY <2>4 DEF WorkerEmpty
  <2>5. CASE SendConnect
    <3>1. CASE ConnectSucceeds /\ UNCHANGED <<worker, inHand, lost>>
      BY <2>5, <3>1, OpensOne DEF SendConnect
    <3>2. CASE lost' = lost \cup {inHand} /\ inHand' = 0 /\ worker' = "drain"
               /\ UNCHANGED socketVars
      BY <2>5, <3>2 DEF SendConnect
    <3> QED BY <2>5, <3>1, <3>2 DEF SendConnect
  <2>6. CASE SendLine
    <3>1. m_socket \in Conn /\ inHand \in Msg
      BY <2>6, ChannelAssumption DEF SendLine, Conn
    <3>2. wire[m_socket] \in Seq(Msg)
      BY <3>1
    <3>3. Append(wire[m_socket], inHand) \in Seq(Msg)
      BY <3>1, <3>2, Appended
    <3> QED BY <2>6, <3>1, <3>3 DEF SendLine
  <2>7. CASE SendFails
    <3>1. PICK keep \in 0..Len(wire[m_socket]) :
            /\ wire' = [wire EXCEPT ![m_socket] = SubSeq(@, 1, keep)]
            /\ lost' = lost \cup {inHand}
                 \cup {wire[m_socket][k] : k \in keep + 1..Len(wire[m_socket])}
      BY <2>7 DEF SendFails
    <3>2. m_socket \in Conn /\ inHand \in Msg
      BY <2>7, ChannelAssumption DEF SendFails, Conn
    <3>3. wire' \in [Conn -> Seq(Msg)]
      BY <3>1, <3>2, Truncated
    <3>4. lost' \in SUBSET Msg
      <4>1. \A k \in keep + 1..Len(wire[m_socket]) : wire[m_socket][k] \in Msg
        BY <3>2
      <4> QED BY <3>1, <3>2, <4>1
    <3>5. /\ m_socket' = 0 /\ inHand' = 0 /\ worker' = "drain"
          /\ UNCHANGED <<queueVars, g_hEvent, opened, replies, peerOpen, serverUp,
                         received, windowVars>>
      BY <2>7 DEF SendFails
    <3> HIDE <2>7
    <3> QED BY <3>3, <3>4, <3>5
  <2> QED BY <1>2, <2>1, <2>2, <2>3, <2>4, <2>5, <2>6, <2>7 DEF WorkerStep, Send
<1>3. CASE EarlyConnect
  BY <1>3, OpensOne DEF EarlyConnect
<1>4. ASSUME NEW c \in Conn, ServerStep(c) PROVE TypeOK'
  <2>1. CASE ServerRead(c)
    <3>1. wire[c] \in Seq(Msg) /\ wire[c] # <<>>
      BY <2>1 DEF ServerRead
    <3>2. Head(wire[c]) \in Msg /\ Tail(wire[c]) \in Seq(Msg)
      BY <3>1, Dropped
    <3>3. <<c, Head(wire[c])>> \in Conn \X Msg
      BY <3>2
    <3>4. received' \in Seq(Conn \X Msg)
      BY <2>1, <3>3, Appended DEF ServerRead
    <3>5. wire' \in [Conn -> Seq(Msg)]
      BY <2>1, <3>2 DEF ServerRead
    <3>6. replies' \in [Conn -> 0..ReplyCap + 1]
      <4>1. /\ replies[c] \in 0..ReplyCap + 1 /\ replies[c] <= ReplyCap
            /\ replies' = [replies EXCEPT ![c] = @ + 1]
        BY <2>1 DEF ServerRead
      <4>2. replies[c] + 1 \in 0..ReplyCap + 1
        BY <4>1, ChannelAssumption
      <4> QED BY <4>1, <4>2
    <3> QED BY <2>1, <3>4, <3>5, <3>6 DEF ServerRead
  <2>2. CASE ServerEnds(c)
    <3>1. \A k \in 1..Len(wire[c]) : wire[c][k] \in Msg
      OBVIOUS
    <3>2. lost' \in SUBSET Msg
      BY <2>2, <3>1 DEF ServerEnds
    <3>3. /\ wire' \in [Conn -> Seq(Msg)] /\ peerOpen' \in [Conn -> BOOLEAN]
      BY <2>2 DEF ServerEnds
    <3> QED BY <2>2, <3>2, <3>3 DEF ServerEnds
  <2> QED BY <1>4, <2>1, <2>2 DEF ServerStep
<1>5. CASE ServerStop
  <2>1. \A d \in Conn : \A k \in 1..Len(wire[d]) : wire[d][k] \in Msg
    OBVIOUS
  <2>2. lost' \in SUBSET Msg
    BY <1>5, <2>1 DEF ServerStop
  <2>3. wire' \in [Conn -> Seq(Msg)] /\ peerOpen' \in [Conn -> BOOLEAN]
    <3>1. <<>> \in Seq(Msg)
      OBVIOUS
    <3> QED BY <1>5, <3>1 DEF ServerStop
  <2> QED BY <1>5, <2>2, <2>3 DEF ServerStop
<1>6. CASE ServerStart
  BY <1>6 DEF ServerStart
<1>7. CASE IaWindowChanges
  BY <1>7 DEF IaWindowChanges
<1>8. CASE UNCHANGED vars
  BY <1>8 DEF vars
<1> QED BY <1>1, <1>2, <1>3, <1>4, <1>5, <1>6, <1>7, <1>8 DEF Next

(* The variables of the channel keep their types, and the worker holds a   *)
(* message exactly while it sends.                                         *)
THEOREM TypeCorrect == Spec => []TypeOK
  BY InitTypeOK, NextTypeOK, PTL DEF Spec

-----------------------------------------------------------------------------
(* Nobody but the worker resets the event, and it does so before it looks  *)
(* at the queue: NoLostWakeup needs nothing but the types.                 *)
LEMMA NextNoLostWakeup == TypeOK /\ NoLostWakeup /\ [Next]_vars => NoLostWakeup'
<1> SUFFICES ASSUME TypeOK, NoLostWakeup, [Next]_vars PROVE NoLostWakeup'
  OBVIOUS
<1> USE DEF NoLostWakeup, queueVars
<1>1. ASSUME NEW p \in Producer, Push(p) \/ SignalEvent(p) PROVE NoLostWakeup'
  BY <1>1 DEF Push, SignalEvent, TypeOK
<1>2. CASE WorkerStep
  BY <1>2 DEF WorkerStep, WorkerWake, WorkerPoll, WorkerPop, WorkerEmpty, Send,
              SendConnect, SendLine, SendFails
<1>3. CASE EarlyConnect
  BY <1>3 DEF EarlyConnect
<1>4. ASSUME NEW c \in Conn, ServerStep(c) PROVE NoLostWakeup'
  BY <1>4 DEF ServerStep, ServerRead, ServerEnds
<1>5. CASE ServerStop \/ ServerStart \/ IaWindowChanges \/ UNCHANGED vars
  BY <1>5 DEF ServerStop, ServerStart, IaWindowChanges, vars
<1> QED BY <1>1, <1>2, <1>3, <1>4, <1>5 DEF Next

(* The worker never sleeps on a message, however many hooks push.          *)
THEOREM NoWakeupLost == Spec => []NoLostWakeup
<1>1. Init => NoLostWakeup
  BY DEF Init, NoLostWakeup
<1> QED BY <1>1, InitTypeOK, NextTypeOK, NextNoLostWakeup, PTL DEF Spec
-----------------------------------------------------------------------------
(* The queue holds the messages not yet taken, in the order pushed; the    *)
(* one in the worker's hand is the last one taken; all that has left the   *)
(* DLL was taken before.                                                   *)
Taken == pushed - Len(g_dataQueue)

LeftDll(m) == m <= Taken /\ m # inHand

QueueShape == /\ Taken >= 0
              /\ \A k \in 1..Len(g_dataQueue) : g_dataQueue[k] = Taken + k
              /\ inHand # 0 => inHand = Taken

LeftOnly == /\ \A c \in Conn : \A k \in 1..Len(wire[c]) : LeftDll(wire[c][k])
            /\ \A k \in 1..Len(received) : LeftDll(received[k][2])
            /\ \A m \in lost : LeftDll(m)

(* What has left the DLL is in one place, and there once.                  *)
WireSorted == \A c \in Conn : \A j, k \in 1..Len(wire[c]) :
                j < k => wire[c][j] < wire[c][k]

WiresDisjoint == \A c, d \in Conn :
  \A j \in 1..Len(wire[c]), k \in 1..Len(wire[d]) : wire[c][j] = wire[d][k] => c = d

WireOnly == \A c \in Conn : \A j \in 1..Len(wire[c]) :
              /\ wire[c][j] \notin lost
              /\ \A k \in 1..Len(received) : received[k][2] # wire[c][j]

ReceivedOnce == /\ \A k \in 1..Len(received) : received[k][2] \notin lost
                /\ \A j, k \in 1..Len(received) : received[j][2] = received[k][2] => j = k

(* Nothing taken is forgotten.                                             *)
Accounted(m) == \/ m = inHand \/ m \in lost
                \/ \E k \in 1..Len(received) : received[k][2] = m
                \/ \E c \in Conn : \E k \in 1..Len(wire[c]) : wire[c][k] = m

NothingForgotten == \A m \in Msg : m <= Taken => Accounted(m)

(* What a connection still carries is newer than what was read from it.    *)
ReadInOrder ==
  /\ \A j, k \in 1..Len(received) :
       j < k /\ received[j][1] = received[k][1] => received[j][2] < received[k][2]
  /\ \A k \in 1..Len(received) : \A j \in 1..Len(wire[received[k][1]]) :
       received[k][2] < wire[received[k][1]][j]

ChannelInv == /\ TypeOK /\ QueueShape /\ LeftOnly /\ WireSorted /\ WiresDisjoint
              /\ WireOnly /\ ReceivedOnce /\ NothingForgotten /\ ReadInOrder

channelVars == <<pushed, g_dataQueue, inHand, wire, received, lost>>

(* The channel starts in the invariant.                                    *)
LEMMA InitChannelInv == Init => ChannelInv
<1> SUFFICES ASSUME Init PROVE ChannelInv
  OBVIOUS
<1>1. TypeOK
  BY InitTypeOK
<1>2. Len(g_dataQueue) = 1 /\ g_dataQueue[1] = 1 /\ Taken = 0
  BY DEF Init, Taken
<1>3. /\ \A c \in Conn : Len(wire[c]) = 0
      /\ Len(received) = 0 /\ lost = {} /\ inHand = 0
  BY DEF Init
<1>4. QueueShape
  BY <1>2, <1>3 DEF QueueShape
<1>5. LeftOnly /\ WireSorted /\ WiresDisjoint /\ WireOnly /\ ReceivedOnce /\ ReadInOrder
  BY <1>3 DEF LeftOnly, WireSorted, WiresDisjoint, WireOnly, ReceivedOnce, ReadInOrder
<1>6. NothingForgotten
  BY <1>2, ChannelAssumption DEF NothingForgotten, Msg
<1> QED BY <1>1, <1>4, <1>5, <1>6 DEF ChannelInv

(* A step that leaves the messages where they are keeps the invariant.     *)
LEMMA StutterChannelInv ==
  ASSUME ChannelInv, TypeOK', UNCHANGED channelVars
  PROVE  ChannelInv'
<1>1. QueueShape' /\ Taken' = Taken
  BY DEF ChannelInv, QueueShape, Taken, channelVars
<1>2. \A m : LeftDll(m)' <=> LeftDll(m)
  BY <1>1 DEF LeftDll, channelVars
<1>3. LeftOnly'
  BY <1>2 DEF ChannelInv, LeftOnly, channelVars
<1>4. WireSorted' /\ WiresDisjoint' /\ WireOnly' /\ ReceivedOnce' /\ ReadInOrder'
  BY DEF ChannelInv, WireSorted, WiresDisjoint, WireOnly, ReceivedOnce,
         ReadInOrder, channelVars
<1>5. NothingForgotten'
  BY <1>1 DEF ChannelInv, NothingForgotten, Accounted, channelVars
<1> QED BY <1>1, <1>3, <1>4, <1>5 DEF ChannelInv

(* A push adds the next number at the end of the queue.                    *)
LEMMA PushChannelInv ==
  ASSUME ChannelInv, TypeOK', NEW p \in Producer, Push(p)
  PROVE  ChannelInv'
<1>1. g_dataQueue \in Seq(Msg) /\ pushed \in Nat /\ pushed + 1 \in Msg
  BY ChannelAssumption DEF ChannelInv, TypeOK, Push, Msg
<1>2. /\ Len(g_dataQueue') = Len(g_dataQueue) + 1
      /\ \A k \in 1..Len(g_dataQueue) : g_dataQueue'[k] = g_dataQueue[k]
      /\ g_dataQueue'[Len(g_dataQueue) + 1] = pushed + 1
  BY <1>1, Appended DEF Push
<1>3. Taken' = Taken
  BY <1>1, <1>2 DEF Taken, Push
<1>4. inHand' = inHand /\ wire' = wire /\ received' = received /\ lost' = lost
  BY DEF Push, socketVars
<1>5. QueueShape'
  <2> SUFFICES ASSUME NEW k \in 1..Len(g_dataQueue)' PROVE g_dataQueue'[k] = Taken + k
    BY <1>3, <1>4 DEF ChannelInv, QueueShape
  <2>1. CASE k = Len(g_dataQueue) + 1
    BY <2>1, <1>1, <1>2 DEF Taken
  <2>2. CASE k \in 1..Len(g_dataQueue)
    BY <2>2, <1>2 DEF ChannelInv, QueueShape
  <2> QED BY <1>1, <1>2, <2>1, <2>2
<1>6. \A m : LeftDll(m)' <=> LeftDll(m)
  BY <1>3, <1>4 DEF LeftDll
<1>7. LeftOnly'
  BY <1>4, <1>6 DEF ChannelInv, LeftOnly
<1>8. WireSorted' /\ WiresDisjoint' /\ WireOnly' /\ ReceivedOnce' /\ ReadInOrder'
  BY <1>4 DEF ChannelInv, WireSorted, WiresDisjoint, WireOnly, ReceivedOnce, ReadInOrder
<1>9. NothingForgotten'
  BY <1>3, <1>4 DEF ChannelInv, NothingForgotten, Accounted
<1> QED BY <1>5, <1>7, <1>8, <1>9 DEF ChannelInv

(* A pop takes the lowest number that is queued into the worker's hand.    *)
LEMMA PopChannelInv ==
  ASSUME ChannelInv, TypeOK', WorkerPop
  PROVE  ChannelInv'
<1>1. g_dataQueue \in Seq(Msg) /\ pushed \in Nat /\ g_dataQueue # <<>> /\ inHand = 0
  BY DEF ChannelInv, TypeOK, WorkerPop
<1>2. /\ Len(g_dataQueue) >= 1 /\ Len(g_dataQueue') = Len(g_dataQueue) - 1
      /\ inHand' = g_dataQueue[1]
      /\ \A k \in 1..Len(g_dataQueue) - 1 : g_dataQueue'[k] = g_dataQueue[k + 1]
  BY <1>1, Dropped DEF WorkerPop
<1>3. Taken \in Nat /\ Taken' = Taken + 1 /\ inHand' = Taken + 1
  BY <1>1, <1>2 DEF Taken, WorkerPop, ChannelInv, QueueShape
<1>4. wire' = wire /\ received' = received /\ lost' = lost
  BY DEF WorkerPop, socketVars
<1>5. QueueShape'
  BY <1>1, <1>2, <1>3 DEF ChannelInv, QueueShape
<1>6. \A m \in Msg : LeftDll(m) => LeftDll(m)'
  BY <1>1, <1>3 DEF LeftDll, Msg
<1>7. LeftOnly'
  <2>1. \A c \in Conn : \A k \in 1..Len(wire[c]) : wire[c][k] \in Msg
    BY DEF ChannelInv, TypeOK
  <2>2. ASSUME NEW k \in 1..Len(received) PROVE received[k][2] \in Msg
    <3>1. received[k] \in Conn \X Msg
      BY DEF ChannelInv, TypeOK
    <3> QED BY <3>1
  <2>3. \A m \in lost : m \in Msg
    BY DEF ChannelInv, TypeOK
  <2> QED BY <1>4, <1>6, <2>1, <2>2, <2>3 DEF ChannelInv, LeftOnly
<1>8. WireSorted' /\ WiresDisjoint' /\ WireOnly' /\ ReceivedOnce' /\ ReadInOrder'
  BY <1>4 DEF ChannelInv, WireSorted, WiresDisjoint, WireOnly, ReceivedOnce, ReadInOrder
<1>9. NothingForgotten'
  <2> SUFFICES ASSUME NEW m \in Msg, m <= Taken + 1 PROVE Accounted(m)'
    BY <1>3 DEF NothingForgotten
  <2>1. CASE m = Taken + 1
    BY <2>1, <1>3 DEF Accounted
  <2>2. CASE m <= Taken
    <3>1. Accounted(m) /\ m # inHand
      BY <2>2, <1>1 DEF ChannelInv, NothingForgotten, Msg
    <3> QED BY <3>1, <1>4 DEF Accounted
  <2> QED BY <1>3, <2>1, <2>2 DEF Msg
<1> QED BY <1>5, <1>7, <1>8, <1>9 DEF ChannelInv

(* Losses: the message in the worker's hand, or the last lines of some     *)
(* connections, or both, are lost.                                         *)
GivenUp(m) == \/ m = inHand /\ inHand # 0 /\ inHand' = 0
              \/ \E c \in Conn : \E k \in Len(wire'[c]) + 1..Len(wire[c]) : wire[c][k] = m

(* A step that only cuts wires and gives up the message in hand, and       *)
(* counts what it drops as lost, keeps the invariant.                      *)
LEMMA LossChannelInv ==
  ASSUME ChannelInv, TypeOK',
         UNCHANGED <<pushed, g_dataQueue, received>>,
         inHand' = inHand \/ inHand' = 0,
         \A c \in Conn : /\ Len(wire'[c]) <= Len(wire[c])
                         /\ \A k \in 1..Len(wire'[c]) : wire'[c][k] = wire[c][k],
         \A m : m \in lost' <=> m \in lost \/ GivenUp(m)
  PROVE  ChannelInv'
<1> USE DEF ChannelInv
<1>1. Taken' = Taken /\ Taken \in Nat /\ inHand \in Nat
  BY DEF Taken, QueueShape, TypeOK, Msg
<1>2. \A c \in Conn : /\ Len(wire[c]) \in Nat /\ Len(wire'[c]) \in Nat
                      /\ \A k \in 1..Len(wire[c]) : wire[c][k] \in Msg
  BY DEF TypeOK
<1>3. QueueShape'
  BY <1>1 DEF QueueShape
<1>4. \A m \in Msg : LeftDll(m) => LeftDll(m)'
  BY <1>1 DEF LeftDll, Msg
<1>5. \A m \in Msg : GivenUp(m) => LeftDll(m)' /\ m \notin lost
  <2> SUFFICES ASSUME NEW m \in Msg, GivenUp(m) PROVE LeftDll(m)' /\ m \notin lost
    OBVIOUS
  <2>1. CASE m = inHand /\ inHand # 0 /\ inHand' = 0
    BY <2>1, <1>1 DEF LeftOnly, LeftDll, QueueShape, Msg
  <2>2. ASSUME NEW c \in Conn, NEW k \in Len(wire'[c]) + 1..Len(wire[c]), wire[c][k] = m
        PROVE  LeftDll(m)' /\ m \notin lost
    <3>1. k \in 1..Len(wire[c])
      BY <1>2
    <3> QED BY <2>2, <3>1, <1>4 DEF LeftOnly, WireOnly
  <2> QED BY <2>1, <2>2 DEF GivenUp
<1>6. LeftOnly'
  <2>1. ASSUME NEW c \in Conn, NEW k \in 1..Len(wire'[c]) PROVE LeftDll(wire[c][k])'
    <3>1. k \in 1..Len(wire[c])
      BY <1>2
    <3>2. wire'[c][k] = wire[c][k] /\ wire[c][k] \in Msg /\ LeftDll(wire[c][k])
      BY <3>1, <1>2 DEF LeftOnly
    <3> QED BY <3>2, <1>4 DEF LeftDll
  <2>2. ASSUME NEW k \in 1..Len(received') PROVE LeftDll(received[k][2])'
    <3>1. received[k] \in Conn \X Msg
      BY DEF TypeOK
    <3> QED BY <3>1, <1>4 DEF LeftOnly, LeftDll
  <2>3. ASSUME NEW m \in lost' PROVE LeftDll(m)'
    BY <1>4, <1>5 DEF LeftOnly, TypeOK
  <2> QED BY <2>1, <2>2, <2>3 DEF LeftOnly
<1>7. WireSorted'
  BY <1>2 DEF WireSorted
<1>8. WiresDisjoint'
  <2> SUFFICES ASSUME NEW c \in Conn, NEW d \in Conn, NEW j \in 1..Len(wire'[c]),
                      NEW k \in 1..Len(wire'[d]), wire'[c][j] = wire'[d][k]
               PROVE  c = d
    BY DEF WiresDisjoint
  <2>1. j \in 1..Len(wire[c]) /\ k \in 1..Len(wire[d])
    BY <1>2
  <2> QED BY <2>1 DEF WiresDisjoint
<1>9. WireOnly'
  <2> SUFFICES ASSUME NEW c \in Conn, NEW j \in 1..Len(wire'[c])
               PROVE  /\ wire'[c][j] \notin lost'
                      /\ \A k \in 1..Len(received') : received'[k][2] # wire'[c][j]
    BY DEF WireOnly
  <2>1. j \in 1..Len(wire[c]) /\ wire'[c][j] = wire[c][j]
    BY <1>2
  <2>2. ~GivenUp(wire[c][j])
    <3>1. wire[c][j] # inHand
      BY <2>1 DEF LeftOnly, LeftDll
    <3>2. ASSUME NEW d \in Conn, NEW k \in Len(wire'[d]) + 1..Len(wire[d]),
                 wire[d][k] = wire[c][j]
          PROVE  FALSE
      <4>1. k \in 1..Len(wire[d])
        BY <1>2
      <4>2. c = d
        BY <4>1, <2>1, <3>2 DEF WiresDisjoint
      <4>3. j < k
        BY <4>2, <1>2
      <4>4. wire[c][j] < wire[c][k]
        BY <4>1, <4>2, <4>3, <2>1 DEF WireSorted
      <4> QED BY <4>2, <4>4, <3>2, <2>1, <1>2 DEF Msg
    <3> QED BY <3>1, <3>2 DEF GivenUp
  <2> QED BY <2>1, <2>2 DEF WireOnly
<1>10. ReceivedOnce'
  <2>1. ASSUME NEW k \in 1..Len(received) PROVE ~GivenUp(received[k][2])
    <3>1. received[k][2] # inHand
      BY DEF LeftOnly, LeftDll
    <3>2. ASSUME NEW d \in Conn, NEW j \in Len(wire'[d]) + 1..Len(wire[d])
          PROVE  wire[d][j] # received[k][2]
      <4>1. j \in 1..Len(wire[d])
        BY <1>2
      <4> QED BY <4>1 DEF WireOnly
    <3> QED BY <3>1, <3>2 DEF GivenUp
  <2> QED BY <2>1 DEF ReceivedOnce
<1>11. NothingForgotten'
  <2> SUFFICES ASSUME NEW m \in Msg, m <= Taken PROVE Accounted(m)'
    BY <1>1 DEF NothingForgotten
  <2>1. Accounted(m)
    BY DEF NothingForgotten
  <2>2. CASE m = inHand
    BY <2>2, <1>1 DEF Accounted, GivenUp, Msg
  <2>3. ASSUME NEW c \in Conn, NEW k \in 1..Len(wire[c]), wire[c][k] = m
        PROVE  Accounted(m)'
    <3>1. CASE k <= Len(wire'[c])
      BY <3>1, <2>3, <1>2 DEF Accounted
    <3>2. CASE k > Len(wire'[c])
      <4>1. k \in Len(wire'[c]) + 1..Len(wire[c])
        BY <3>2, <1>2
      <4>2. GivenUp(m)
        BY <4>1, <2>3 DEF GivenUp
      <4> QED BY <4>2 DEF Accounted
    <3> QED BY <3>1, <3>2, <1>2
  <2>4. CASE m \in lost \/ \E k \in 1..Len(received) : received[k][2] = m
    BY <2>4 DEF Accounted
  <2> QED BY <2>1, <2>2, <2>3, <2>4 DEF Accounted
<1>12. ReadInOrder'
  <2>1. ASSUME NEW k \in 1..Len(received), NEW j \in 1..Len(wire'[received[k][1]])
        PROVE  received[k][2] < wire'[received[k][1]][j]
    <3>1. received[k] \in Conn \X Msg
      BY DEF TypeOK
    <3>2. j \in 1..Len(wire[received[k][1]])
      BY <3>1, <1>2
    <3> QED BY <3>1, <3>2 DEF ReadInOrder
  <2> QED BY <2>1 DEF ReadInOrder
<1> QED BY <1>3, <1>6, <1>7, <1>8, <1>9, <1>10, <1>11, <1>12

(* The message in the worker's hand goes on the wire: it is newer than     *)
(* whatever has left the DLL before it.                                    *)
LEMMA SendChannelInv ==
  ASSUME ChannelInv, TypeOK', worker = "send", m_socket # 0,
         wire' = [wire EXCEPT ![m_socket] = Append(@, inHand)], inHand' = 0,
         UNCHANGED <<pushed, g_dataQueue, received, lost>>
  PROVE  ChannelInv'
<1> USE DEF ChannelInv
<1>1. m_socket \in Conn /\ inHand \in Msg /\ inHand # 0
  BY ChannelAssumption DEF TypeOK, Conn
<1>2. PICK s \in Conn, h \in Msg : s = m_socket /\ h = inHand
  BY <1>1
<1>3. wire \in [Conn -> Seq(Msg)] /\ wire[s] \in Seq(Msg)
  BY DEF TypeOK
<1>4. /\ Len(wire'[s]) = Len(wire[s]) + 1
      /\ \A k \in 1..Len(wire[s]) : wire'[s][k] = wire[s][k]
      /\ wire'[s][Len(wire[s]) + 1] = h
  <2>1. wire'[s] = Append(wire[s], h)
    BY <1>2, <1>3
  <2> QED BY ONLY <2>1, <1>3, h \in Msg, Appended
<1>5. \A c \in Conn : c # s => wire'[c] = wire[c]
  BY <1>2, <1>3
<1>6. Taken' = Taken /\ Taken \in Nat /\ h = Taken
  BY <1>1, <1>2 DEF Taken, QueueShape, TypeOK, Msg
<1>7. \A c \in Conn : \A k \in 1..Len(wire'[c]) :
        \/ c = s /\ k = Len(wire[s]) + 1 /\ wire'[c][k] = h
        \/ k \in 1..Len(wire[c]) /\ wire'[c][k] = wire[c][k]
  BY <1>3, <1>4, <1>5
<1>8. \A c \in Conn : \A k \in 1..Len(wire[c]) :
        k \in 1..Len(wire'[c]) /\ wire'[c][k] = wire[c][k] /\ wire[c][k] \in Msg
        /\ wire[c][k] < h
  <2> TAKE c \in Conn
  <2> TAKE k \in 1..Len(wire[c])
  <2>1. wire[c] \in Seq(Msg)
    BY <1>3
  <2>2. wire[c][k] \in Msg /\ wire[c][k] <= Taken /\ wire[c][k] # inHand
    BY <2>1 DEF LeftOnly, LeftDll
  <2>3. wire[c][k] < h
    BY <2>2, <1>2, <1>6 DEF Msg
  <2>4. k \in 1..Len(wire'[c]) /\ wire'[c][k] = wire[c][k]
    <3>1. CASE c = s
      BY ONLY <3>1, <1>4, <2>1, k \in 1..Len(wire[c])
    <3>2. CASE c # s
      BY ONLY <3>2, <1>5, k \in 1..Len(wire[c]), c \in Conn
    <3> QED BY ONLY <3>1, <3>2
  <2> QED BY ONLY <2>2, <2>3, <2>4
<1>9. \A k \in 1..Len(received) :
        received[k] \in Conn \X Msg /\ received[k][2] < h
  <2> TAKE k \in 1..Len(received)
  <2>1. received[k] \in Conn \X Msg
    <3>1. received \in Seq(Conn \X Msg)
      BY DEF TypeOK
    <3> QED BY ONLY <3>1, k \in 1..Len(received)
  <2>2. received[k][2] <= Taken /\ received[k][2] # inHand
    BY DEF LeftOnly, LeftDll
  <2> QED BY <2>1, <2>2, <1>2, <1>6 DEF Msg
<1>10. h \notin lost
  BY <1>2 DEF LeftOnly, LeftDll
<1>11. QueueShape'
  BY <1>6 DEF QueueShape
<1>12. LeftOnly'
  <2>1. ASSUME NEW c \in Conn, NEW k \in 1..Len(wire'[c]) PROVE LeftDll(wire[c][k])'
    BY <1>6, <1>7, <1>8 DEF LeftDll, Msg
  <2>2. ASSUME NEW k \in 1..Len(received') PROVE LeftDll(received[k][2])'
    BY <1>6, <1>9 DEF LeftDll, Msg
  <2>3. ASSUME NEW m \in lost' PROVE LeftDll(m)'
    BY <1>6 DEF LeftOnly, LeftDll, TypeOK, Msg
  <2> QED BY <2>1, <2>2, <2>3 DEF LeftOnly
<1>13. WireSorted'
  <2> SUFFICES ASSUME NEW c \in Conn, NEW j \in 1..Len(wire'[c]),
                      NEW k \in 1..Len(wire'[c]), j < k
               PROVE  wire'[c][j] < wire'[c][k]
    BY DEF WireSorted
  <2>1. j \in 1..Len(wire[c])
    BY <1>3, <1>7
  <2> QED BY <2>1, <1>7, <1>8 DEF WireSorted
<1>14. WiresDisjoint'
  <2> SUFFICES ASSUME NEW c \in Conn, NEW d \in Conn, NEW j \in 1..Len(wire'[c]),
                      NEW k \in 1..Len(wire'[d]), wire'[c][j] = wire'[d][k]
               PROVE  c = d
    BY DEF WiresDisjoint
  <2> QED BY <1>7, <1>8 DEF WiresDisjoint, Msg
<1>15. WireOnly'
  <2> SUFFICES ASSUME NEW c \in Conn, NEW j \in 1..Len(wire'[c])
               PROVE  /\ wire'[c][j] \notin lost
                      /\ \A k \in 1..Len(received) : received[k][2] # wire'[c][j]
    BY DEF WireOnly
  <2> QED BY <1>7, <1>9, <1>10 DEF WireOnly, Msg
<1>16. ReceivedOnce'
  BY DEF ReceivedOnce
<1>17. NothingForgotten'
  <2> SUFFICES ASSUME NEW m \in Msg, m <= Taken PROVE Accounted(m)'
    BY <1>6 DEF NothingForgotten
  <2>1. Accounted(m)
    BY DEF NothingForgotten
  <2>2. CASE m = inHand
    <3>1. Len(wire[s]) + 1 \in 1..Len(wire'[s])
      BY <1>3, <1>4
    <3> QED BY <2>2, <3>1, <1>2, <1>4 DEF Accounted
  <2>3. ASSUME NEW c \in Conn, NEW k \in 1..Len(wire[c]), wire[c][k] = m
        PROVE  Accounted(m)'
    BY <2>3, <1>8 DEF Accounted
  <2>4. CASE m \in lost \/ \E k \in 1..Len(received) : received[k][2] = m
    BY <2>4 DEF Accounted
  <2> QED BY <2>1, <2>2, <2>3, <2>4 DEF Accounted
<1>18. ReadInOrder'
  <2>1. ASSUME NEW k \in 1..Len(received), NEW j \in 1..Len(wire'[received[k][1]])
        PROVE  received[k][2] < wire'[received[k][1]][j]
    BY <1>7, <1>9 DEF ReadInOrder
  <2> QED BY <2>1 DEF ReadInOrder
<1> QED BY <1>11, <1>12, <1>13, <1>14, <1>15, <1>16, <1>17, <1>18

(* The backend reads the oldest line of a connection.                      *)
LEMMA ReadChannelInv ==
  ASSUME ChannelInv, TypeOK', NEW c \in Conn, ServerRead(c)
  PROVE  ChannelInv'
<1> USE DEF ChannelInv
<1>1. PICK h \in Msg : h = Head(wire[c])
  BY Dropped DEF TypeOK, ServerRead
<1>2. wire \in [Conn -> Seq(Msg)] /\ wire[c] \in Seq(Msg) /\ wire[c] # <<>>
  BY DEF TypeOK, ServerRead
<1>3. /\ Len(wire[c]) >= 1 /\ h = wire[c][1]
      /\ Len(wire'[c]) = Len(wire[c]) - 1
      /\ \A k \in 1..Len(wire[c]) - 1 : wire'[c][k] = wire[c][k + 1]
  <2>1. wire'[c] = Tail(wire[c])
    BY <1>2 DEF ServerRead
  <2> QED BY ONLY <2>1, <1>1, <1>2, Dropped
<1>4. \A d \in Conn : d # c => wire'[d] = wire[d]
  BY <1>2 DEF ServerRead
<1>5. received \in Seq(Conn \X Msg) /\ <<c, h>> \in Conn \X Msg
      /\ received' = Append(received, <<c, h>>)
  BY <1>1 DEF TypeOK, ServerRead
<1>6. /\ Len(received') = Len(received) + 1
      /\ \A k \in 1..Len(received) : received'[k] = received[k]
      /\ received'[Len(received) + 1] = <<c, h>>
  BY ONLY <1>5, Appended
<1>7. UNCHANGED <<pushed, g_dataQueue, inHand, lost>> /\ Taken' = Taken
  BY DEF ServerRead, queueVars, Taken
<1>8. \A d \in Conn : \A k \in 1..Len(wire'[d]) :
        \E j \in 1..Len(wire[d]) : /\ wire'[d][k] = wire[d][j] /\ (d = c => j = k + 1)
                                   /\ (d # c => j = k)
  BY <1>2, <1>3, <1>4
<1>9. \A k \in 1..Len(received') :
        \/ k \in 1..Len(received) /\ received'[k] = received[k]
        \/ k = Len(received) + 1 /\ received'[k] = <<c, h>>
  BY <1>5, <1>6
<1>10. 1 \in 1..Len(wire[c]) /\ LeftDll(h) /\ h \notin lost
       /\ \A k \in 1..Len(received) : received[k][2] # h
  BY <1>2, <1>3 DEF LeftOnly, WireOnly
<1>11. \A d \in Conn : \A k \in 1..Len(wire'[d]) :
         wire'[d][k] # h /\ (d = c => h < wire'[d][k])
  <2> SUFFICES ASSUME NEW d \in Conn, NEW k \in 1..Len(wire'[d])
               PROVE  wire'[d][k] # h /\ (d = c => h < wire'[d][k])
    OBVIOUS
  <2>1. PICK j \in 1..Len(wire[d]) : /\ wire'[d][k] = wire[d][j] /\ (d = c => j = k + 1)
                                     /\ (d # c => j = k)
    BY <1>8
  <2>2. CASE d = c
    <3>1. 1 < j
      BY <2>1, <2>2, <1>2, <1>3
    <3>2. wire[c][1] < wire[c][j] /\ wire[c][j] \in Msg
      BY <3>1, <2>1, <2>2, <1>2, <1>10 DEF WireSorted
    <3> QED BY <3>2, <2>1, <2>2, <1>3 DEF Msg
  <2>3. CASE d # c
    BY <2>1, <2>3, <1>3, <1>10 DEF WiresDisjoint
  <2> QED BY <2>2, <2>3
<1>12. \A m : LeftDll(m)' <=> LeftDll(m)
  BY <1>7 DEF LeftDll
<1>13. QueueShape'
  BY <1>7 DEF QueueShape
<1>14. LeftOnly'
  <2>1. ASSUME NEW d \in Conn, NEW k \in 1..Len(wire'[d]) PROVE LeftDll(wire[d][k])'
    BY <1>7, <1>8 DEF LeftOnly, LeftDll
  <2>2. ASSUME NEW k \in 1..Len(received') PROVE LeftDll(received[k][2])'
    BY <1>7, <1>9, <1>10 DEF LeftOnly, LeftDll
  <2>3. ASSUME NEW m \in lost' PROVE LeftDll(m)'
    BY <1>7 DEF LeftOnly, LeftDll
  <2> QED BY <2>1, <2>2, <2>3 DEF LeftOnly
<1>15. WireSorted'
  <2> SUFFICES ASSUME NEW d \in Conn, NEW j \in 1..Len(wire'[d]),
                      NEW k \in 1..Len(wire'[d]), j < k
               PROVE  wire'[d][j] < wire'[d][k]
    BY DEF WireSorted
  <2>1. PICK a \in 1..Len(wire[d]) : /\ wire'[d][j] = wire[d][a]
                                     /\ d = c => a = j + 1
                                     /\ d # c => a = j
    BY <1>8
  <2>2. PICK b \in 1..Len(wire[d]) : /\ wire'[d][k] = wire[d][b]
                                     /\ d = c => b = k + 1
                                     /\ d # c => b = k
    BY <1>8
  <2>3. a < b
    BY <2>1, <2>2
  <2> QED BY <2>1, <2>2, <2>3 DEF WireSorted
<1>16. WiresDisjoint'
  <2> SUFFICES ASSUME NEW d \in Conn, NEW e \in Conn, NEW j \in 1..Len(wire'[d]),
                      NEW k \in 1..Len(wire'[e]), wire'[d][j] = wire'[e][k]
               PROVE  d = e
    BY DEF WiresDisjoint
  <2> QED BY <1>8 DEF WiresDisjoint
<1>17. WireOnly'
  <2> SUFFICES ASSUME NEW d \in Conn, NEW j \in 1..Len(wire'[d])
               PROVE  /\ wire'[d][j] \notin lost'
                      /\ \A k \in 1..Len(received') : received'[k][2] # wire'[d][j]
    BY DEF WireOnly
  <2>1. PICK i \in 1..Len(wire[d]) : wire'[d][j] = wire[d][i]
    BY <1>8
  <2>2. wire'[d][j] \notin lost'
    BY <2>1, <1>7 DEF WireOnly
  <2>3. ASSUME NEW k \in 1..Len(received') PROVE received'[k][2] # wire'[d][j]
    <3>1. CASE k \in 1..Len(received)
      BY <2>1, <3>1, <1>6 DEF WireOnly
    <3>2. CASE k = Len(received) + 1
      BY <3>2, <1>6, <1>11
    <3> QED BY <3>1, <3>2, <1>9
  <2> QED BY <2>2, <2>3
<1>18. ReceivedOnce'
  <2>1. ASSUME NEW k \in 1..Len(received') PROVE received'[k][2] \notin lost'
    BY <1>7, <1>9, <1>10 DEF ReceivedOnce
  <2>2. ASSUME NEW j \in 1..Len(received'), NEW k \in 1..Len(received'),
               received'[j][2] = received'[k][2]
        PROVE  j = k
    BY <2>2, <1>9, <1>10 DEF ReceivedOnce
  <2> QED BY <2>1, <2>2 DEF ReceivedOnce
<1>19. NothingForgotten'
  <2> SUFFICES ASSUME NEW m \in Msg, m <= Taken PROVE Accounted(m)'
    BY <1>7 DEF NothingForgotten
  <2>1. Accounted(m)
    BY DEF NothingForgotten
  <2>2. CASE m = inHand \/ m \in lost
    BY <2>2, <1>7 DEF Accounted
  <2>3. ASSUME NEW k \in 1..Len(received), received[k][2] = m PROVE Accounted(m)'
    <3>1. k \in 1..Len(received') /\ received'[k] = received[k]
      BY <1>5, <1>6
    <3> QED BY <2>3, <3>1 DEF Accounted
  <2>4. ASSUME NEW d \in Conn, NEW k \in 1..Len(wire[d]), wire[d][k] = m
        PROVE  Accounted(m)'
    <3>1. CASE d = c /\ k = 1
      <4>1. /\ Len(received) + 1 \in 1..Len(received')
            /\ received'[Len(received) + 1][2] = m
        BY <3>1, <2>4, <1>3, <1>5, <1>6
      <4> QED BY <4>1 DEF Accounted
    <3>2. CASE d = c /\ k # 1
      <4>1. k - 1 \in 1..Len(wire'[c]) /\ wire'[c][k - 1] = m
        BY <3>2, <2>4, <1>2, <1>3
      <4> QED BY <4>1 DEF Accounted
    <3>3. CASE d # c
      BY <3>3, <2>4, <1>4 DEF Accounted
    <3> QED BY <3>1, <3>2, <3>3
  <2> QED BY <2>1, <2>2, <2>3, <2>4 DEF Accounted
<1>20. ReadInOrder'
  <2>1. ASSUME NEW j \in 1..Len(received'), NEW k \in 1..Len(received'),
               j < k, received'[j][1] = received'[k][1]
        PROVE  received'[j][2] < received'[k][2]
    <3>1. j \in 1..Len(received) /\ received'[j] = received[j]
      BY <2>1, <1>5, <1>6, <1>9
    <3>2. CASE k \in 1..Len(received)
      BY <3>1, <3>2, <2>1, <1>6 DEF ReadInOrder
    <3>3. CASE k = Len(received) + 1
      <4>1. received[j][1] = c /\ received'[k][2] = h
        BY <3>1, <3>3, <2>1, <1>6
      <4> QED BY <3>1, <4>1, <1>3, <1>10 DEF ReadInOrder
    <3> QED BY <3>2, <3>3, <1>9
  <2>2. ASSUME NEW k \in 1..Len(received'), NEW j \in 1..Len(wire'[received'[k][1]])
        PROVE  received'[k][2] < wire'[received'[k][1]][j]
    <3>1. CASE k \in 1..Len(received)
      <4>1. received'[k] = received[k] /\ received[k] \in Conn \X Msg
        BY <3>1, <1>5, <1>6
      <4>2. PICK i \in 1..Len(wire[received[k][1]]) :
              wire'[received[k][1]][j] = wire[received[k][1]][i]
        <5>1. received[k][1] \in Conn /\ j \in 1..Len(wire'[received[k][1]])
          BY <4>1, <2>2
        <5> QED BY ONLY <5>1, <1>8
      <4> QED BY <3>1, <4>1, <4>2 DEF ReadInOrder
    <3>2. CASE k = Len(received) + 1
      BY <3>2, <2>2, <1>6, <1>11
    <3> QED BY <3>1, <3>2, <1>9
  <2> QED BY <2>1, <2>2 DEF ReadInOrder
<1> QED BY <1>13, <1>14, <1>15, <1>16, <1>17, <1>18, <1>19, <1>20

(* Every step is a push, a pop, a send, a read, a loss or a stutter as far *)
(* as the messages are concerned.                                          *)
LEMMA NextChannelInv == ChannelInv /\ [Next]_vars => ChannelInv'
<1> SUFFICES ASSUME ChannelInv, [Next]_vars PROVE ChannelInv'
  OBVIOUS
<1>0. TypeOK /\ TypeOK'
  BY NextTypeOK DEF ChannelInv
<1>1. ASSUME NEW p \in Producer, Push(p) \/ SignalEvent(p) PROVE ChannelInv'
  <2>1. CASE Push(p)
    BY <2>1, <1>0, PushChannelInv
  <2>2. CASE SignalEvent(p)
    BY <2>2, <1>0, StutterChannelInv DEF SignalEvent, channelVars, socketVars
  <2> QED BY <1>1, <2>1, <2>2
<1>2. CASE WorkerStep
  <2>1. CASE WorkerWake \/ WorkerPoll \/ WorkerEmpty
    BY <2>1, <1>0, StutterChannelInv
       DEF WorkerWake, WorkerPoll, WorkerEmpty, channelVars, socketVars, queueVars
  <2>2. CASE WorkerPop
    BY <2>2, <1>0, PopChannelInv
  <2>3. CASE SendConnect
    <3>1. CASE ConnectSucceeds /\ UNCHANGED <<worker, inHand, lost>>
      BY <2>3, <3>1, <1>0, StutterChannelInv
         DEF SendConnect, ConnectSucceeds, channelVars, queueVars
    <3>2. CASE lost' = lost \cup {inHand} /\ inHand' = 0 /\ UNCHANGED socketVars
      <4>1. inHand # 0 /\ wire' = wire
        BY <2>3, <3>2, <1>0 DEF SendConnect, TypeOK, socketVars
      <4>2. \A c \in Conn : wire[c] \in Seq(Msg)
        BY <1>0 DEF TypeOK
      <4>3. \A m : GivenUp(m) <=> m = inHand
        BY <4>1, <4>2, <3>2 DEF GivenUp
      <4>4. \A m : m \in lost' <=> m \in lost \/ GivenUp(m)
        BY <3>2, <4>3
      <4>5. \A c \in Conn : /\ Len(wire'[c]) <= Len(wire[c])
                            /\ \A k \in 1..Len(wire'[c]) : wire'[c][k] = wire[c][k]
        BY <4>1, <4>2
      <4>6. UNCHANGED <<pushed, g_dataQueue, received>>
        BY <2>3 DEF SendConnect, queueVars
      <4> QED BY <1>0, <3>2, <4>4, <4>5, <4>6, LossChannelInv
    <3> QED BY <2>3, <3>1, <3>2 DEF SendConnect
  <2>4. CASE SendLine
    <3>1. CASE peerOpen[m_socket]
      BY <2>4, <3>1, <1>0, SendChannelInv DEF SendLine, queueVars
    <3>2. CASE ~peerOpen[m_socket]
      <4>1. /\ inHand # 0 /\ wire' = wire /\ inHand' = 0 /\ lost' = lost \cup {inHand}
            /\ UNCHANGED <<pushed, g_dataQueue, received>>
        BY <2>4, <3>2, <1>0 DEF SendLine, TypeOK, queueVars
      <4>2. \A c \in Conn : wire[c] \in Seq(Msg)
        BY <1>0 DEF TypeOK
      <4>3. \A m : GivenUp(m) <=> m = inHand
        BY <4>1, <4>2 DEF GivenUp
      <4>4. \A m : m \in lost' <=> m \in lost \/ GivenUp(m)
        BY <4>1, <4>3
      <4>5. \A c \in Conn : /\ Len(wire'[c]) <= Len(wire[c])
                            /\ \A k \in 1..Len(wire'[c]) : wire'[c][k] = wire[c][k]
        BY <4>1, <4>2
      <4> QED BY <1>0, <4>1, <4>4, <4>5, LossChannelInv
    <3> QED BY <3>1, <3>2
  <2>5. CASE SendFails
    <3>1. PICK keep \in 0..Len(wire[m_socket]) :
            /\ wire' = [wire EXCEPT ![m_socket] = SubSeq(@, 1, keep)]
            /\ lost' = lost \cup {inHand}
                 \cup {wire[m_socket][k] : k \in keep + 1..Len(wire[m_socket])}
      BY <2>5 DEF SendFails
    <3>2. m_socket \in Conn /\ inHand # 0 /\ inHand' = 0
      BY <2>5, <1>0, ChannelAssumption DEF SendFails, TypeOK, Conn
    <3>3. wire[m_socket] \in Seq(Msg) /\ wire \in [Conn -> Seq(Msg)]
      BY <3>2, <1>0 DEF TypeOK
    <3>4. /\ Len(wire'[m_socket]) = keep
          /\ \A k \in 1..keep : wire'[m_socket][k] = wire[m_socket][k]
      BY <3>1, <3>2, <3>3, Truncated
    <3>5. \A c \in Conn : c # m_socket => wire'[c] = wire[c]
      BY <3>1, <3>3
    <3>6. \A c \in Conn : /\ Len(wire'[c]) <= Len(wire[c])
                          /\ \A k \in 1..Len(wire'[c]) : wire'[c][k] = wire[c][k]
      BY <3>3, <3>4, <3>5
    <3>7. \A m : GivenUp(m) <=> m = inHand \/ \E k \in keep + 1..Len(wire[m_socket]) :
                                                wire[m_socket][k] = m
      BY <3>2, <3>3, <3>4, <3>5 DEF GivenUp
    <3>8. \A m : m \in lost' <=> m \in lost \/ GivenUp(m)
      BY <3>1, <3>7
    <3>9. UNCHANGED <<pushed, g_dataQueue, received>>
      BY <2>5 DEF SendFails, queueVars
    <3> QED BY <1>0, <3>2, <3>6, <3>8, <3>9, LossChannelInv
  <2> QED BY <1>2, <2>1, <2>2, <2>3, <2>4, <2>5 DEF WorkerStep, Send
<1>3. CASE EarlyConnect
  BY <1>3, <1>0, StutterChannelInv
     DEF EarlyConnect, ConnectSucceeds, channelVars, queueVars
<1>4. ASSUME NEW c \in Conn, ServerStep(c) PROVE ChannelInv'
  <2>1. CASE ServerRead(c)
    BY <2>1, <1>0, ReadChannelInv
  <2>2. CASE ServerEnds(c)
    <3>1. wire \in [Conn -> Seq(Msg)]
      BY <1>0 DEF TypeOK
    <3>2. /\ wire'[c] = <<>> /\ Len(wire'[c]) = 0
          /\ \A d \in Conn : d # c => wire'[d] = wire[d]
      BY <2>2, <3>1 DEF ServerEnds
    <3>3. \A d \in Conn : /\ Len(wire'[d]) <= Len(wire[d])
                          /\ \A k \in 1..Len(wire'[d]) : wire'[d][k] = wire[d][k]
      BY <3>1, <3>2
    <3>4. UNCHANGED <<pushed, g_dataQueue, received, inHand>>
      BY <2>2 DEF ServerEnds, queueVars
    <3>5. \A m : GivenUp(m) <=> \E k \in 1..Len(wire[c]) : wire[c][k] = m
      BY <3>1, <3>2, <3>4 DEF GivenUp
    <3>6. \A m : m \in lost' <=> m \in lost \/ GivenUp(m)
      BY <2>2, <3>5 DEF ServerEnds
    <3> QED BY <1>0, <3>3, <3>4, <3>6, LossChannelInv
  <2> QED BY <1>4, <2>1, <2>2 DEF ServerStep
<1>5. CASE ServerStop
  <2>1. wire \in [Conn -> Seq(Msg)]
    BY <1>0 DEF TypeOK
  <2>2. \A d \in Conn : Len(wire'[d]) = 0
    BY <1>5 DEF ServerStop
  <2>3. \A d \in Conn : /\ Len(wire'[d]) <= Len(wire[d])
                        /\ \A k \in 1..Len(wire'[d]) : wire'[d][k] = wire[d][k]
    BY <2>1, <2>2
  <2>4. UNCHANGED <<pushed, g_dataQueue, received, inHand>>
    BY <1>5 DEF ServerStop, queueVars
  <2>5. \A m : GivenUp(m) <=> \E d \in Conn : \E k \in 1..Len(wire[d]) : wire[d][k] = m
    BY <2>1, <2>2, <2>4 DEF GivenUp
  <2>6. \A m : m \in lost' <=> m \in lost \/ GivenUp(m)
    BY <1>5, <2>5 DEF ServerStop
  <2> QED BY <1>0, <2>3, <2>4, <2>6, LossChannelInv
<1>6. CASE ServerStart \/ IaWindowChanges \/ UNCHANGED vars
  BY <1>6, <1>0, StutterChannelInv
     DEF ServerStart, IaWindowChanges, vars, channelVars, socketVars, queueVars
<1> QED BY <1>1, <1>2, <1>3, <1>4, <1>5, <1>6 DEF Next

(* The invariant puts each message in exactly one place.                   *)
LEMMA ChannelInvInOnePlace == ChannelInv => InOnePlace
<1> SUFFICES ASSUME ChannelInv PROVE InOnePlace
  OBVIOUS
<1> USE DEF ChannelInv
<1>1. /\ g_dataQueue \in Seq(Msg) /\ received \in Seq(Conn \X Msg)
      /\ wire \in [Conn -> Seq(Msg)] /\ pushed \in Nat /\ pushed <= MaxMsg
  BY ChannelAssumption DEF TypeOK
<1>2. /\ DOMAIN g_dataQueue = 1..Len(g_dataQueue) /\ DOMAIN received = 1..Len(received)
      /\ \A c \in Conn : DOMAIN wire[c] = 1..Len(wire[c])
  BY <1>1
<1>3. \A m \in Msg : InDll(m) => ~LeftDll(m)
  BY <1>1, <1>2 DEF InDll, LeftDll, QueueShape, Taken, Msg
<1>4. ASSUME NEW m \in 1..pushed
      PROVE  InDll(m) \/ Processed(m) \/ m \in lost \/ \E c \in Conn : OnWire(c, m)
  <2>1. m \in Msg
    BY <1>1, ChannelAssumption DEF Msg
  <2>2. CASE m <= Taken
    BY <2>1, <2>2, <1>2 DEF NothingForgotten, Accounted, InDll, Processed, OnWire
  <2>3. CASE m > Taken
    <3>1. m - Taken \in 1..Len(g_dataQueue)
      BY <2>3, <1>1 DEF QueueShape, Taken
    <3>2. g_dataQueue[m - Taken] = m
      BY <3>1, <1>1 DEF QueueShape, Taken
    <3> QED BY <3>1, <3>2, <1>2 DEF InDll
  <2> QED BY <2>2, <2>3, <1>1 DEF Taken
<1>5. ASSUME NEW m \in Msg
      PROVE  /\ ~(InDll(m) /\ Processed(m))
             /\ m \in lost => ~InDll(m) /\ ~Processed(m)
  BY <1>2, <1>3 DEF LeftOnly, Processed, ReceivedOnce
<1>6. ASSUME NEW m \in Msg, NEW c \in Conn, OnWire(c, m)
      PROVE  /\ ~InDll(m) /\ ~Processed(m) /\ m \notin lost
             /\ \A d \in Conn : OnWire(d, m) => d = c
  <2>1. PICK k \in 1..Len(wire[c]) : wire[c][k] = m
    BY <1>2, <1>6 DEF OnWire
  <2>2. ~InDll(m)
    BY <2>1, <1>3 DEF LeftOnly
  <2>3. ~Processed(m) /\ m \notin lost
    BY <2>1, <1>2 DEF WireOnly, Processed
  <2>4. \A d \in Conn : OnWire(d, m) => d = c
    BY <2>1, <1>2 DEF WiresDisjoint, OnWire
  <2> QED BY <2>2, <2>3, <2>4
<1>7. \A j, k \in DOMAIN received : received[j][2] = received[k][2] => j = k
  BY <1>2 DEF ReceivedOnce
<1> QED BY <1>4, <1>5, <1>6, <1>7 DEF InOnePlace

(* Each message pushed is in exactly one place: it is not sent again after *)
(* a reconnection, not processed twice, and does not disappear unnoticed.  *)
THEOREM EachMessageInOnePlace == Spec => []InOnePlace
  BY InitChannelInv, NextChannelInv, ChannelInvInOnePlace, PTL DEF Spec

(* The backend processes the lines of a connection in the order of the     *)
(* pushes, however often the backend restarts or the client reconnects.    *)
THEOREM ConnectionsAreOrdered == Spec => []OrderedPerConnection
<1>1. ChannelInv => OrderedPerConnection
  <2> SUFFICES ASSUME ChannelInv PROVE OrderedPerConnection
    OBVIOUS
  <2>1. DOMAIN received = 1..Len(received)
    BY DEF ChannelInv, TypeOK
  <2> QED BY <2>1 DEF ChannelInv, ReadInOrder, OrderedPerConnection
<1> QED BY <1>1, InitChannelInv, NextChannelInv, PTL DEF Spec

-----------------------------------------------------------------------------
(* Refinement: the channel implements Delivery.  In what follows the       *)
(* variables of Delivery are written as they are mapped.                   *)
Waiting  == {m \in Msg : InDll(m)}
Line     == [c \in Conn |-> {m \in Msg : OnWire(c, m)}]
Received == {m \in Msg : Processed(m)}
Closed   == {c \in Conn : c <= opened /\ (c = m_socket => ~peerOpen[c])}

(* Only a connection that has been opened carries lines.                   *)
WireOpened == \A c \in Conn : wire[c] # <<>> => c <= opened

(* Lines are put on the connection of the client only, which is open.      *)
LEMMA NextWireOpened == TypeOK /\ WireOpened /\ [Next]_vars => WireOpened'
<1> SUFFICES ASSUME TypeOK, WireOpened, [Next]_vars PROVE WireOpened'
  OBVIOUS
<1> USE DEF WireOpened, TypeOK, socketVars
<1>1. ASSUME NEW p \in Producer, Push(p) \/ SignalEvent(p) PROVE WireOpened'
  BY <1>1 DEF Push, SignalEvent
<1>2. CASE WorkerWake \/ WorkerPoll \/ WorkerPop \/ WorkerEmpty
  BY <1>2 DEF WorkerWake, WorkerPoll, WorkerPop, WorkerEmpty
<1>3. CASE SendConnect \/ EarlyConnect
  <2>1. wire' = wire /\ opened' \in Nat /\ opened <= opened'
    BY <1>3, ChannelAssumption DEF SendConnect, EarlyConnect, ConnectSucceeds
  <2> QED BY <2>1, Numbers
<1>4. CASE SendLine \/ SendFails
  <2>1. opened' = opened /\ m_socket <= opened /\ \A c \in Conn : c # m_socket => wire'[c] = wire[c]
    BY <1>4 DEF SendLine, SendFails
  <2> QED BY <2>1
<1>5. ASSUME NEW c \in Conn, ServerStep(c) PROVE WireOpened'
  <2>1. /\ opened' = opened
        /\ \A d \in Conn : wire'[d] # <<>> => wire[d] # <<>>
    BY <1>5 DEF ServerStep, ServerRead, ServerEnds
  <2> QED BY <2>1
<1>6. CASE ServerStop \/ ServerStart \/ IaWindowChanges \/ UNCHANGED vars
  BY <1>6 DEF ServerStop, ServerStart, IaWindowChanges, vars
<1> QED BY <1>1, <1>2, <1>3, <1>4, <1>5, <1>6 DEF Next, WorkerStep, Send

(* What the DLL holds: the message in the worker's hand, and those above   *)
(* the last one taken.                                                     *)
LEMMA WaitingAre ==
  ASSUME TypeOK, QueueShape
  PROVE  /\ \A m \in Msg : m \in Waiting <=> m = inHand \/ (Taken < m /\ m <= pushed)
         /\ Taken \in Nat
<1>1. /\ DOMAIN g_dataQueue = 1..Len(g_dataQueue) /\ Len(g_dataQueue) \in Nat
      /\ pushed \in Nat
  BY DEF TypeOK
<1>2. Taken \in Nat /\ pushed = Taken + Len(g_dataQueue)
  BY <1>1 DEF Taken, QueueShape
<1>3. ASSUME NEW m \in Msg
      PROVE  (\E k \in 1..Len(g_dataQueue) : g_dataQueue[k] = m) <=> Taken < m /\ m <= pushed
  <2>1. ASSUME NEW k \in 1..Len(g_dataQueue), g_dataQueue[k] = m
        PROVE  Taken < m /\ m <= pushed
    BY <2>1, <1>1, <1>2 DEF QueueShape
  <2>2. ASSUME Taken < m, m <= pushed
        PROVE  \E k \in 1..Len(g_dataQueue) : g_dataQueue[k] = m
    <3>1. m - Taken \in 1..Len(g_dataQueue)
      BY <2>2, <1>1, <1>2 DEF Msg
    <3>2. g_dataQueue[m - Taken] = m
      BY <3>1, <1>2 DEF QueueShape, Msg
    <3> QED BY <3>1, <3>2
  <2> QED BY <2>1, <2>2
<1> QED BY <1>1, <1>2, <1>3 DEF Waiting, InDll

(* The message in the worker's hand is the next to leave.                  *)
LEMMA InHandIsFirst ==
  ASSUME TypeOK, QueueShape, inHand # 0
  PROVE  Promise!First(inHand, Waiting)
<1>1. inHand = Taken /\ inHand \in Msg
  BY DEF TypeOK, QueueShape
<1>2. inHand \in Waiting
  BY <1>1, WaitingAre
<1>3. ASSUME NEW k \in Waiting PROVE inHand <= k
  BY <1>1, WaitingAre DEF Waiting, Msg
<1> QED BY <1>2, <1>3 DEF Promise!First

(* The lines of a connection, as a set.                                    *)
LEMMA LinesAre ==
  ASSUME TypeOK, NEW c \in Conn
  PROVE  \A m : m \in Line[c] <=> \E k \in 1..Len(wire[c]) : wire[c][k] = m
<1>1. wire[c] \in Seq(Msg)
  BY DEF TypeOK
<1>2. DOMAIN wire[c] = 1..Len(wire[c]) /\ \A k \in 1..Len(wire[c]) : wire[c][k] \in Msg
  BY <1>1
<1> QED BY <1>2 DEF Line, OnWire

(* A step that loses messages and closes connections, and does nothing     *)
(* else, is one of Delivery's losses.                                      *)
LEMMA LossDelivers ==
  ASSUME ChannelInv, ChannelInv',
         UNCHANGED <<pushed, g_dataQueue, received>>,
         inHand' = inHand \/ inHand' = 0,
         \A c \in Conn : /\ Len(wire'[c]) <= Len(wire[c])
                         /\ \A k \in 1..Len(wire'[c]) : wire'[c][k] = wire[c][k],
         \A m : m \in lost' <=> m \in lost \/ GivenUp(m),
         Closed \subseteq Closed',
         \A c \in Conn : wire'[c] # wire[c] => c \in Closed'
  PROVE  Promise!Lose
<1>1. /\ TypeOK /\ TypeOK' /\ QueueShape /\ QueueShape' /\ WireSorted
      /\ Taken' = Taken
  BY DEF ChannelInv, Taken
<1>2. Received' = Received
  BY DEF Received, Processed
<1>3. /\ \A m \in Msg : m \in Waiting <=> m = inHand \/ (Taken < m /\ m <= pushed)
      /\ \A m \in Msg : m \in Waiting' <=> m = inHand' \/ (Taken < m /\ m <= pushed)
      /\ Taken \in Nat /\ (inHand # 0 => inHand = Taken) /\ 0 \notin Msg
      /\ Waiting \subseteq Msg /\ Waiting' \subseteq Msg
  <2>1. (\A m \in Msg : m \in Waiting <=> m = inHand \/ (Taken < m /\ m <= pushed))'
    BY <1>1, WaitingAre, PTL
  <2>2. /\ \A m \in Msg : m \in Waiting <=> m = inHand \/ (Taken < m /\ m <= pushed)
        /\ Taken \in Nat
    BY <1>1, WaitingAre
  <2> QED BY <1>1, <2>1, <2>2, Numbers DEF QueueShape, Waiting
<1>4. ASSUME NEW m \in Msg
      PROVE  m \in Waiting \ Waiting' <=> m = inHand /\ inHand # 0 /\ inHand' = 0
  BY <1>3 DEF Msg
<1>5. ASSUME NEW m \in Waiting \ Waiting' PROVE Promise!First(m, Waiting)
  BY <1>1, <1>3, <1>4, <1>5, InHandIsFirst
<1>6. Waiting' \in SUBSET Waiting
  BY <1>3
<1>7. ASSUME NEW c \in Conn
      PROVE  /\ Len(wire[c]) \in Nat /\ Len(wire'[c]) \in Nat
             /\ \A j \in 1..Len(wire[c]) : wire[c][j] \in Nat
             /\ \A m : m \in Line[c] <=> \E k \in 1..Len(wire[c]) : wire[c][k] = m
             /\ \A m : m \in Line'[c] <=> \E k \in 1..Len(wire'[c]) : wire[c][k] = m
  <2>1. wire[c] \in Seq(Msg) /\ wire'[c] \in Seq(Msg)
    BY <1>1 DEF TypeOK
  <2>2. \A m : m \in Line[c] <=> \E k \in 1..Len(wire[c]) : wire[c][k] = m
    BY <1>1, LinesAre
  <2>3. \A m : m \in Line'[c] <=> \E k \in 1..Len(wire'[c]) : wire'[c][k] = m
    <3>1. DOMAIN wire'[c] = 1..Len(wire'[c]) /\ \A k \in 1..Len(wire'[c]) : wire'[c][k] \in Msg
      BY <2>1
    <3> QED BY <3>1 DEF Line, OnWire
  <2>4. \A j \in 1..Len(wire[c]) : wire[c][j] \in Nat
    <3>1. \A j \in 1..Len(wire[c]) : wire[c][j] \in Msg
      BY <2>1
    <3> QED BY <3>1, Msg \subseteq Nat DEF Msg
  <2>5. \A m : (\E k \in 1..Len(wire'[c]) : wire'[c][k] = m)
                 <=> \E k \in 1..Len(wire'[c]) : wire[c][k] = m
    OBVIOUS
  <2>6. Len(wire[c]) \in Nat /\ Len(wire'[c]) \in Nat
    BY <2>1
  <2> QED BY <2>2, <2>3, <2>4, <2>5, <2>6
<1>8. ASSUME NEW c \in Conn, NEW m
      PROVE  m \in Line[c] \ Line'[c]
               <=> \E k \in Len(wire'[c]) + 1..Len(wire[c]) : wire[c][k] = m
  <2>1. ASSUME m \in Line[c] \ Line'[c]
        PROVE  \E k \in Len(wire'[c]) + 1..Len(wire[c]) : wire[c][k] = m
    <3>1. PICK k \in 1..Len(wire[c]) : wire[c][k] = m
      BY <2>1, <1>7
    <3>2. k \notin 1..Len(wire'[c])
      BY <2>1, <3>1, <1>7
    <3> QED BY <3>1, <3>2, <1>7
  <2>2. ASSUME NEW k \in Len(wire'[c]) + 1..Len(wire[c]), wire[c][k] = m
        PROVE  m \in Line[c] \ Line'[c]
    <3>1. k \in 1..Len(wire[c]) /\ m \in Line[c]
      BY <2>2, <1>7
    <3>2. ASSUME NEW j \in 1..Len(wire'[c]) PROVE wire[c][j] # m
      <4>1. j \in 1..Len(wire[c]) /\ j < k
        BY <1>7
      <4>2. wire[c][j] < wire[c][k]
        BY <3>1, <4>1, <1>1 DEF WireSorted
      <4> QED BY <4>1, <4>2, <3>1, <2>2, <1>7
    <3> QED BY <3>1, <3>2, <1>7
  <2> QED BY <2>1, <2>2
<1>9. ASSUME NEW c \in Conn PROVE Promise!CutOff(c)
  <2>1. Line'[c] \subseteq Line[c]
    BY <1>7
  <2>2. ASSUME NEW k \in Line'[c], NEW m \in Line[c] \ Line'[c] PROVE k < m
    <3>1. PICK i \in 1..Len(wire'[c]) : wire[c][i] = k
      BY <1>7
    <3>2. PICK j \in Len(wire'[c]) + 1..Len(wire[c]) : wire[c][j] = m
      BY <1>8
    <3>3. i \in 1..Len(wire[c]) /\ j \in 1..Len(wire[c]) /\ i < j
      BY <1>7
    <3> QED BY <3>1, <3>2, <3>3, <1>1 DEF WireSorted
  <2>3. Line'[c] # Line[c] => c \in Closed'
    BY DEF Line, OnWire
  <2> QED BY <2>1, <2>2, <2>3 DEF Promise!CutOff, Line, Closed
<1>10. lost' = lost \cup (Waiting \ Waiting') \cup UNION {Line[c] \ Line'[c] : c \in Conn}
  <2>1. lost \subseteq Msg /\ lost' \subseteq Msg
    BY <1>1 DEF TypeOK
  <2>2. \A c \in Conn : Line[c] \subseteq Msg
    BY DEF Line
  <2>3. ASSUME NEW m \in Msg
        PROVE  GivenUp(m) <=> m \in Waiting \ Waiting' \/ \E c \in Conn : m \in Line[c] \ Line'[c]
    BY <1>4, <1>8 DEF GivenUp
  <2>4. ASSUME NEW m
        PROVE  m \in lost' <=> m \in lost \cup (Waiting \ Waiting')
                                      \cup UNION {Line[c] \ Line'[c] : c \in Conn}
    BY <1>3, <2>1, <2>2, <2>3
  <2> QED BY <2>4
<1>11. /\ Closed' \in SUBSET Conn /\ Closed \subseteq Closed'
       /\ Line' \in [Conn -> SUBSET Msg]
  BY DEF Closed, Line
<1> QED BY <1>2, <1>5, <1>6, <1>9, <1>10, <1>11
        DEF Promise!Lose, Waiting, Line, Received, Closed

(* A line handed to the socket of an open connection.                      *)
LEMMA SendDelivers ==
  ASSUME ChannelInv, ChannelInv', worker = "send", m_socket # 0, peerOpen[m_socket],
         wire' = [wire EXCEPT ![m_socket] = Append(@, inHand)], inHand' = 0,
         UNCHANGED <<pushed, g_dataQueue, received, lost, opened, m_socket, peerOpen>>
  PROVE  \E m \in Msg, c \in Conn : Promise!Send(m, c)
<1>1. /\ TypeOK /\ TypeOK' /\ QueueShape /\ QueueShape' /\ Taken' = Taken
  BY DEF ChannelInv, Taken
<1>2. m_socket \in Conn /\ inHand \in Msg /\ inHand # 0
  BY <1>1, ChannelAssumption DEF TypeOK, Conn
<1>3. PICK h \in Msg, s \in Conn : h = inHand /\ s = m_socket
  BY <1>2
<1>4. Promise!First(h, Waiting) /\ s \notin Closed
  BY <1>1, <1>2, <1>3, InHandIsFirst DEF Closed
<1>5. Waiting' = Waiting \ {h}
  <2>1. (\A m \in Msg : m \in Waiting <=> m = inHand \/ (Taken < m /\ m <= pushed))'
    BY <1>1, WaitingAre, PTL
  <2>2. /\ \A m \in Msg : m \in Waiting <=> m = inHand \/ (Taken < m /\ m <= pushed)
        /\ Taken \in Nat
    BY <1>1, WaitingAre
  <2>3. inHand = Taken /\ 0 \notin Msg
    BY <1>1, <1>2, Numbers DEF QueueShape
  <2>4. Waiting \subseteq Msg /\ Waiting' \subseteq Msg
    BY DEF Waiting
  <2> QED BY <1>1, <1>3, <2>1, <2>2, <2>3, <2>4
<1>6. Line' = [Line EXCEPT ![s] = @ \cup {h}]
  <2>1. wire \in [Conn -> Seq(Msg)] /\ wire[s] \in Seq(Msg)
    BY <1>1 DEF TypeOK
  <2>2. \A c \in Conn : c # s => wire'[c] = wire[c]
    BY <1>3, <2>1
  <2>3. wire'[s] = Append(wire[s], h)
    BY <1>3, <2>1
  <2>4. /\ wire'[s] \in Seq(Msg) /\ Len(wire'[s]) = Len(wire[s]) + 1 /\ Len(wire[s]) \in Nat
        /\ \A k \in 1..Len(wire[s]) : wire'[s][k] = wire[s][k]
        /\ wire'[s][Len(wire[s]) + 1] = h
    BY ONLY <2>3, <2>1, h \in Msg, Appended
  <2>5. DOMAIN wire'[s] = 1..Len(wire'[s]) /\ DOMAIN wire[s] = 1..Len(wire[s])
    BY <2>1, <2>4
  <2>6. \A m : (\E k \in DOMAIN wire'[s] : wire'[s][k] = m)
                 <=> (\E k \in DOMAIN wire[s] : wire[s][k] = m) \/ m = h
    BY <2>4, <2>5
  <2>7. Line'[s] = Line[s] \cup {h}
    <3>1. Line[s] = {m \in Msg : OnWire(s, m)} /\ Line'[s] = {m \in Msg : OnWire(s, m)'}
      BY DEF Line
    <3>2. \A m : OnWire(s, m)' <=> OnWire(s, m) \/ m = h
      BY <2>6 DEF OnWire
    <3> QED BY <3>1, <3>2
  <2>8. ASSUME NEW c \in Conn, c # s PROVE Line'[c] = Line[c]
    <3>1. \A m : OnWire(c, m)' <=> OnWire(c, m)
      BY <2>2, <2>8 DEF OnWire
    <3> QED BY <3>1 DEF Line
  <2>9. Line' = [c \in Conn |-> Line'[c]] /\ Line = [c \in Conn |-> Line[c]]
    BY DEF Line
  <2> HIDE DEF Line
  <2> QED BY <2>7, <2>8, <2>9
<1>7. Received' = Received /\ Closed' = Closed
  BY DEF Received, Processed, Closed
<1>8. Promise!Send(h, s)
  BY <1>4, <1>5, <1>6, <1>7 DEF Promise!Send, Waiting, Line, Received, Closed
<1> QED BY <1>8

(* A line taken from a connection by its task in the backend.              *)
LEMMA ReadDelivers ==
  ASSUME ChannelInv, NEW c \in Conn, ServerRead(c)
  PROVE  \E m \in Msg : Promise!Receive(m, c)
<1>1. TypeOK /\ WireSorted
  BY DEF ChannelInv
<1>2. wire \in [Conn -> Seq(Msg)] /\ wire[c] \in Seq(Msg) /\ wire[c] # <<>>
  BY <1>1 DEF TypeOK, ServerRead
<1>3. PICK h \in Msg : h = Head(wire[c])
  BY <1>2, Dropped
<1>4. /\ Len(wire[c]) >= 1 /\ h = wire[c][1] /\ wire'[c] \in Seq(Msg)
      /\ Len(wire'[c]) = Len(wire[c]) - 1 /\ Len(wire[c]) \in Nat
      /\ \A k \in 1..Len(wire[c]) - 1 : wire'[c][k] = wire[c][k + 1]
  <2>1. wire'[c] = Tail(wire[c])
    BY <1>2 DEF ServerRead
  <2> QED BY ONLY <2>1, <1>2, <1>3, Dropped
<1>5. \A d \in Conn : d # c => wire'[d] = wire[d]
  BY <1>2 DEF ServerRead
<1>6. \A m : m \in Line[c] <=> \E k \in 1..Len(wire[c]) : wire[c][k] = m
  BY <1>1, LinesAre
<1>7. \A m : m \in Line'[c] <=> \E k \in 1..Len(wire'[c]) : wire'[c][k] = m
  <2>1. DOMAIN wire'[c] = 1..Len(wire'[c]) /\ \A k \in 1..Len(wire'[c]) : wire'[c][k] \in Msg
    BY <1>4
  <2> QED BY <2>1 DEF Line, OnWire
<1>8. \A k \in 2..Len(wire[c]) : wire[c][k] \in Msg /\ h < wire[c][k]
  <2> SUFFICES ASSUME NEW k \in 2..Len(wire[c]) PROVE wire[c][k] \in Msg /\ h < wire[c][k]
    OBVIOUS
  <2>1. 1 \in 1..Len(wire[c]) /\ k \in 1..Len(wire[c]) /\ 1 < k
    BY <1>4
  <2> QED BY <2>1, <1>1, <1>2, <1>4 DEF WireSorted
<1>9. Promise!First(h, Line[c])
  <2>1. h \in Line[c]
    BY <1>4, <1>6
  <2>2. ASSUME NEW m \in Line[c] PROVE h <= m
    <3>1. PICK k \in 1..Len(wire[c]) : wire[c][k] = m
      BY <1>6
    <3>2. k = 1 \/ k \in 2..Len(wire[c])
      BY <1>4
    <3>3. h \in Nat
      BY DEF Msg
    <3>4. CASE k = 1
      BY <3>1, <3>3, <3>4, <1>4
    <3>5. CASE k \in 2..Len(wire[c])
      <4>1. m \in Nat /\ h < m
        BY <3>1, <3>5, <1>8 DEF Msg
      <4> QED BY <4>1, <3>3
    <3> QED BY <3>2, <3>4, <3>5
  <2> QED BY <2>1, <2>2 DEF Promise!First
<1>10. Line'[c] = Line[c] \ {h}
  <2>1. ASSUME NEW m \in Line'[c] PROVE m \in Line[c] \ {h}
    <3>1. PICK k \in 1..Len(wire'[c]) : wire'[c][k] = m
      BY <1>7
    <3>2. wire[c][k + 1] = m /\ k + 1 \in 2..Len(wire[c]) /\ k + 1 \in 1..Len(wire[c])
      BY <3>1, <1>4
    <3> QED BY <3>2, <1>6, <1>8 DEF Msg
  <2>2. ASSUME NEW m \in Line[c] \ {h} PROVE m \in Line'[c]
    <3>1. PICK k \in 1..Len(wire[c]) : wire[c][k] = m
      BY <1>6
    <3>2. k - 1 \in 1..Len(wire'[c]) /\ wire'[c][k - 1] = m
      BY <3>1, <1>4
    <3> QED BY <3>2, <1>7
  <2> QED BY <2>1, <2>2
<1>11. Line' = [Line EXCEPT ![c] = @ \ {h}]
  <2>1. \A d \in Conn : d # c => Line'[d] = Line[d]
    BY <1>5 DEF Line, OnWire
  <2>2. Line' = [d \in Conn |-> Line'[d]] /\ Line = [d \in Conn |-> Line[d]]
    BY DEF Line
  <2> HIDE DEF Line
  <2> QED BY <1>10, <2>1, <2>2
<1>12. Received' = Received \cup {h}
  <2>1. received \in Seq(Conn \X Msg) /\ <<c, h>> \in Conn \X Msg
        /\ received' = Append(received, <<c, h>>)
    BY <1>1, <1>3 DEF TypeOK, ServerRead
  <2>2. /\ Len(received') = Len(received) + 1 /\ Len(received) \in Nat
        /\ received' \in Seq(Conn \X Msg)
        /\ \A k \in 1..Len(received) : received'[k] = received[k]
        /\ received'[Len(received) + 1] = <<c, h>>
    BY ONLY <2>1, Appended
  <2>3. DOMAIN received' = 1..Len(received') /\ DOMAIN received = 1..Len(received)
    BY <2>1, <2>2
  <2>4. \A m : (\E k \in DOMAIN received' : received'[k][2] = m)
                 <=> (\E k \in DOMAIN received : received[k][2] = m) \/ m = h
    <3>1. ASSUME NEW m, NEW k \in 1..Len(received'), received'[k][2] = m
          PROVE  (\E j \in 1..Len(received) : received[j][2] = m) \/ m = h
      <4>1. k \in 1..Len(received) \/ k = Len(received) + 1
        BY <2>2
      <4> QED BY <3>1, <4>1, <2>2
    <3>2. ASSUME NEW m, NEW k \in 1..Len(received), received[k][2] = m
          PROVE  \E j \in 1..Len(received') : received'[j][2] = m
      <4>1. k \in 1..Len(received') /\ received'[k][2] = m
        BY <3>2, <2>2
      <4> QED BY <4>1
    <3>3. \E j \in 1..Len(received') : received'[j][2] = h
      <4>1. Len(received) + 1 \in 1..Len(received')
        BY <2>2
      <4> QED BY <4>1, <2>2
    <3> QED BY <3>1, <3>2, <3>3, <2>3
  <2> QED BY <2>4 DEF Received, Processed
<1>13. /\ UNCHANGED <<pushed, lost>> /\ Waiting' = Waiting /\ Closed' = Closed
  BY DEF ServerRead, queueVars, Waiting, InDll, Closed
<1>14. Promise!Receive(h, c)
  BY <1>9, <1>11, <1>12, <1>13 DEF Promise!Receive, Waiting, Line, Received, Closed
<1> QED BY <1>14

(* A push adds the next number to what waits.                              *)
LEMMA PushDelivers ==
  ASSUME ChannelInv, ChannelInv', NEW p \in Producer, Push(p)
  PROVE  Promise!Push
<1>1. /\ TypeOK /\ TypeOK' /\ QueueShape /\ QueueShape'
  BY DEF ChannelInv
<1>2. /\ pushed' = pushed + 1 /\ pushed \in Nat /\ pushed + 1 \in Msg /\ inHand' = inHand
  BY <1>1, ChannelAssumption DEF Push, TypeOK, Msg
<1>3. Taken' = Taken
  <2>1. g_dataQueue \in Seq(Msg) /\ g_dataQueue' = Append(g_dataQueue, pushed + 1)
    BY <1>1 DEF TypeOK, Push
  <2>2. Len(g_dataQueue') = Len(g_dataQueue) + 1 /\ Len(g_dataQueue) \in Nat
    BY ONLY <2>1, <1>2, Appended
  <2> QED BY <1>2, <2>2 DEF Taken
<1>4. Waiting' = Waiting \cup {pushed + 1}
  <2>1. (\A m \in Msg : m \in Waiting <=> m = inHand \/ (Taken < m /\ m <= pushed))'
    BY <1>1, WaitingAre, PTL
  <2>2. /\ \A m \in Msg : m \in Waiting <=> m = inHand \/ (Taken < m /\ m <= pushed)
        /\ Taken \in Nat
    BY <1>1, WaitingAre
  <2>3. Waiting \subseteq Msg /\ Waiting' \subseteq Msg /\ Msg \subseteq Nat
    BY DEF Waiting, Msg
  <2>4. Taken <= pushed
    BY <1>1, <1>2 DEF Taken, TypeOK
  <2>5. ASSUME NEW m \in Msg PROVE m \in Waiting' <=> m \in Waiting \/ m = pushed + 1
    BY <1>2, <1>3, <2>1, <2>2, <2>3, <2>4
  <2> QED BY <1>2, <2>3, <2>5
<1>5. Line' = Line /\ Received' = Received /\ Closed' = Closed /\ lost' = lost
  BY DEF Push, socketVars, Line, OnWire, Received, Processed, Closed
<1> QED BY <1>2, <1>4, <1>5 DEF Promise!Push, Waiting, Line, Received, Closed

(* A connection given up by either end is not opened again.                *)
LEMMA ClosedGrows == TypeOK /\ [Next]_vars => Closed \subseteq Closed'
<1> SUFFICES ASSUME TypeOK, [Next]_vars PROVE Closed \subseteq Closed'
  OBVIOUS
<1> USE DEF Closed, socketVars
<1>1. ASSUME NEW p \in Producer, Push(p) \/ SignalEvent(p) PROVE Closed \subseteq Closed'
  BY <1>1 DEF Push, SignalEvent
<1>2. CASE WorkerWake \/ WorkerPoll \/ WorkerPop \/ WorkerEmpty \/ SendLine
  BY <1>2 DEF WorkerWake, WorkerPoll, WorkerPop, WorkerEmpty, SendLine
<1>3. CASE SendConnect \/ EarlyConnect
  <2>1. CASE UNCHANGED socketVars
    BY <2>1
  <2>2. CASE ConnectSucceeds
    <3>1. /\ opened' = opened + 1 /\ m_socket' = opened + 1 /\ opened \in Nat
          /\ \A c \in Conn : c <= opened => c # opened + 1 /\ c <= opened + 1
      BY <2>2, Numbers DEF ConnectSucceeds, TypeOK
    <3> QED BY <3>1
  <2> QED BY <1>3, <2>1, <2>2 DEF SendConnect, EarlyConnect
<1>4. CASE SendFails
  <2>1. opened' = opened /\ m_socket' = 0 /\ 0 \notin Conn
    BY <1>4, Numbers DEF SendFails
  <2> QED BY <2>1
<1>5. ASSUME NEW c \in Conn, ServerStep(c) PROVE Closed \subseteq Closed'
  BY <1>5 DEF ServerStep, ServerRead, ServerEnds, TypeOK
<1>6. CASE ServerStop \/ ServerStart \/ IaWindowChanges \/ UNCHANGED vars
  BY <1>6 DEF ServerStop, ServerStart, IaWindowChanges, vars
<1> QED BY <1>1, <1>2, <1>3, <1>4, <1>5, <1>6 DEF Next, WorkerStep, Send

(* A step that leaves the messages where they are is a loss of nothing.    *)
LEMMA StutterDelivers ==
  ASSUME ChannelInv, ChannelInv', UNCHANGED channelVars, Closed \subseteq Closed'
  PROVE  Promise!Lose
<1>1. \A c \in Conn : wire[c] \in Seq(Msg)
  BY DEF ChannelInv, TypeOK
<1>2. \A m : ~GivenUp(m)
  BY <1>1 DEF GivenUp, channelVars
<1> QED BY <1>1, <1>2, LossDelivers DEF channelVars

(* A step of Delivery, or none, as the channel's variables are read.       *)
Step == [Promise!Next]_(<<pushed, Waiting, Line, Received, lost, Closed>>)

(* Every step of the channel is such a step.                               *)
LEMMA StepImplementsDelivery ==
  ASSUME ChannelInv, ChannelInv', WireOpened, [Next]_vars
  PROVE  Step
<1>0. TypeOK /\ TypeOK' /\ Closed \subseteq Closed'
  BY ClosedGrows DEF ChannelInv
<1>a. Promise!Push \/ Promise!Lose => Step
  BY DEF Promise!Next, Step
<1>b. (\E m \in Msg, c \in Conn : Promise!Send(m, c) \/ Promise!Receive(m, c)) => Step
  BY DEF Promise!Next, Step
<1>c. /\ wire \in [Conn -> Seq(Msg)]
      /\ \A c \in Conn : wire[c] \in Seq(Msg) /\ Len(wire[c]) \in Nat
  BY <1>0 DEF TypeOK
<1>1. ASSUME NEW p \in Producer, Push(p) PROVE Step
  BY <1>1, <1>a, PushDelivers
<1>2. CASE UNCHANGED channelVars
  BY <1>0, <1>2, <1>a, StutterDelivers
<1>3. CASE WorkerPop
  <2>1. /\ UNCHANGED <<pushed, wire, received, lost, opened, m_socket, peerOpen>>
        /\ Line' = Line /\ Received' = Received /\ Closed' = Closed
    BY <1>3 DEF WorkerPop, socketVars, Line, OnWire, Received, Processed, Closed
  <2>2. /\ Taken \in Nat /\ Taken' = Taken + 1 /\ inHand' = Taken + 1 /\ inHand = 0
        /\ Taken + 1 <= pushed /\ pushed \in Nat
    <3>1. g_dataQueue \in Seq(Msg) /\ g_dataQueue # <<>> /\ pushed \in Nat /\ inHand = 0
      BY <1>0, <1>3 DEF TypeOK, WorkerPop
    <3>2. /\ Len(g_dataQueue) >= 1 /\ Len(g_dataQueue') = Len(g_dataQueue) - 1
          /\ inHand' = g_dataQueue[1] /\ Len(g_dataQueue) \in Nat
      BY <1>3, <3>1, Dropped DEF WorkerPop
    <3> QED BY <2>1, <3>1, <3>2 DEF ChannelInv, QueueShape, Taken
  <2>3. Waiting' = Waiting
    <3>1. (\A m \in Msg : m \in Waiting <=> m = inHand \/ (Taken < m /\ m <= pushed))'
      BY WaitingAre, PTL DEF ChannelInv
    <3>2. \A m \in Msg : m \in Waiting <=> m = inHand \/ (Taken < m /\ m <= pushed)
      BY WaitingAre DEF ChannelInv
    <3>3. Waiting \subseteq Msg /\ Waiting' \subseteq Msg /\ Msg \subseteq Nat /\ 0 \notin Msg
      BY Numbers DEF Waiting, Msg
    <3>4. ASSUME NEW m \in Msg PROVE m \in Waiting' <=> m \in Waiting
      BY <2>1, <2>2, <3>1, <3>2, <3>3
    <3> QED BY <3>3, <3>4
  <2> QED BY <2>1, <2>3 DEF Step
<1>4. CASE WorkerStep /\ ~WorkerPop
  <2>1. CASE WorkerWake \/ WorkerPoll \/ WorkerEmpty
    BY <2>1, <1>2 DEF WorkerWake, WorkerPoll, WorkerEmpty, channelVars, socketVars, queueVars
  <2>2. CASE SendConnect
    <3>1. CASE ConnectSucceeds /\ UNCHANGED <<worker, inHand, lost>>
      BY <2>2, <3>1, <1>2 DEF SendConnect, ConnectSucceeds, channelVars, queueVars
    <3>2. CASE lost' = lost \cup {inHand} /\ inHand' = 0 /\ UNCHANGED socketVars
      <4>1. /\ inHand # 0 /\ wire' = wire
            /\ UNCHANGED <<pushed, g_dataQueue, received>>
        BY <2>2, <3>2, <1>0 DEF SendConnect, TypeOK, socketVars, queueVars
      <4>2. \A m : GivenUp(m) <=> m = inHand
        BY <4>1, <1>c, <3>2 DEF GivenUp
      <4>3. \A m : m \in lost' <=> m \in lost \/ GivenUp(m)
        BY <3>2, <4>2
      <4>4. \A c \in Conn : /\ Len(wire'[c]) <= Len(wire[c])
                            /\ \A k \in 1..Len(wire'[c]) : wire'[c][k] = wire[c][k]
        BY <4>1, <1>c
      <4> QED BY <1>0, <1>a, <3>2, <4>1, <4>3, <4>4, LossDelivers
    <3> QED BY <2>2, <3>1, <3>2 DEF SendConnect
  <2>3. CASE SendLine
    <3>1. CASE peerOpen[m_socket]
      BY <2>3, <3>1, <1>b, SendDelivers DEF SendLine, queueVars
    <3>2. CASE ~peerOpen[m_socket]
      <4>1. /\ inHand # 0 /\ wire' = wire /\ inHand' = 0 /\ lost' = lost \cup {inHand}
            /\ UNCHANGED <<pushed, g_dataQueue, received>>
        BY <2>3, <3>2, <1>0 DEF SendLine, TypeOK, queueVars
      <4>2. \A m : GivenUp(m) <=> m = inHand
        BY <4>1, <1>c DEF GivenUp
      <4>3. \A m : m \in lost' <=> m \in lost \/ GivenUp(m)
        BY <4>1, <4>2
      <4>4. \A c \in Conn : /\ Len(wire'[c]) <= Len(wire[c])
                            /\ \A k \in 1..Len(wire'[c]) : wire'[c][k] = wire[c][k]
        BY <4>1, <1>c
      <4> QED BY <1>0, <1>a, <4>1, <4>3, <4>4, LossDelivers
    <3> QED BY <3>1, <3>2
  <2>4. CASE SendFails
    <3>1. PICK keep \in 0..Len(wire[m_socket]) :
            /\ wire' = [wire EXCEPT ![m_socket] = SubSeq(@, 1, keep)]
            /\ lost' = lost \cup {inHand}
                 \cup {wire[m_socket][k] : k \in keep + 1..Len(wire[m_socket])}
      BY <2>4 DEF SendFails
    <3>2. /\ m_socket \in Conn /\ inHand # 0 /\ inHand' = 0 /\ m_socket <= opened
          /\ m_socket' = 0 /\ opened' = opened /\ m_socket # 0
          /\ UNCHANGED <<pushed, g_dataQueue, received>>
      BY <2>4, <1>0, ChannelAssumption DEF SendFails, TypeOK, Conn, queueVars
    <3>3. wire[m_socket] \in Seq(Msg)
      BY <3>2, <1>c
    <3>4. /\ Len(wire'[m_socket]) = keep
          /\ \A k \in 1..keep : wire'[m_socket][k] = wire[m_socket][k]
      BY <3>1, <3>2, <3>3, <1>c, Truncated
    <3>5. \A c \in Conn : c # m_socket => wire'[c] = wire[c]
      BY <3>1, <1>c
    <3>6. \A c \in Conn : /\ Len(wire'[c]) <= Len(wire[c])
                          /\ \A k \in 1..Len(wire'[c]) : wire'[c][k] = wire[c][k]
      BY <1>c, <3>4, <3>5
    <3>7. \A m : GivenUp(m) <=> m = inHand \/ \E k \in keep + 1..Len(wire[m_socket]) :
                                                wire[m_socket][k] = m
      BY <3>2, <1>c, <3>4, <3>5 DEF GivenUp
    <3>8. \A m : m \in lost' <=> m \in lost \/ GivenUp(m)
      BY <3>1, <3>7
    <3>9. \A c \in Conn : wire'[c] # wire[c] => c \in Closed'
      BY <3>2, <3>5 DEF Closed
    <3> QED BY <1>0, <1>a, <3>2, <3>6, <3>8, <3>9, LossDelivers
  <2> QED BY <1>4, <2>1, <2>2, <2>3, <2>4 DEF WorkerStep, Send
<1>5. ASSUME NEW c \in Conn, ServerStep(c) PROVE Step
  <2>1. CASE ServerRead(c)
    BY <2>1, <1>b, ReadDelivers
  <2>2. CASE ServerEnds(c)
    <3>1. /\ wire'[c] = <<>> /\ Len(wire'[c]) = 0
          /\ \A d \in Conn : d # c => wire'[d] = wire[d]
          /\ UNCHANGED <<pushed, g_dataQueue, received, inHand>>
      BY <2>2, <1>c DEF ServerEnds, queueVars
    <3>2. \A d \in Conn : /\ Len(wire'[d]) <= Len(wire[d])
                          /\ \A k \in 1..Len(wire'[d]) : wire'[d][k] = wire[d][k]
      BY <1>c, <3>1
    <3>3. \A m : GivenUp(m) <=> \E k \in 1..Len(wire[c]) : wire[c][k] = m
      BY <1>c, <3>1 DEF GivenUp
    <3>4. \A m : m \in lost' <=> m \in lost \/ GivenUp(m)
      BY <2>2, <3>3 DEF ServerEnds
    <3>5. c \in Closed'
      BY <2>2, <1>0 DEF ServerEnds, Closed, TypeOK
    <3> QED BY <1>0, <1>a, <3>1, <3>2, <3>4, <3>5, LossDelivers
  <2> QED BY <1>5, <2>1, <2>2 DEF ServerStep
<1>6. CASE ServerStop
  <2>1. /\ \A d \in Conn : wire'[d] = <<>> /\ Len(wire'[d]) = 0
        /\ UNCHANGED <<pushed, g_dataQueue, received, inHand, opened>>
        /\ \A d \in Conn : ~peerOpen'[d]
    BY <1>6 DEF ServerStop, queueVars
  <2>2. \A d \in Conn : /\ Len(wire'[d]) <= Len(wire[d])
                        /\ \A k \in 1..Len(wire'[d]) : wire'[d][k] = wire[d][k]
    BY <1>c, <2>1
  <2>3. \A m : GivenUp(m) <=> \E d \in Conn : \E k \in 1..Len(wire[d]) : wire[d][k] = m
    BY <1>c, <2>1 DEF GivenUp
  <2>4. \A m : m \in lost' <=> m \in lost \/ GivenUp(m)
    BY <1>6, <2>3 DEF ServerStop
  <2>5. \A d \in Conn : wire'[d] # wire[d] => d \in Closed'
    BY <2>1 DEF WireOpened, Closed
  <2> QED BY <1>0, <1>a, <2>1, <2>2, <2>4, <2>5, LossDelivers
<1>7. CASE EarlyConnect
  BY <1>7, <1>2 DEF EarlyConnect, ConnectSucceeds, channelVars, queueVars
<1>8. ASSUME NEW p \in Producer, SignalEvent(p) PROVE Step
  BY <1>8, <1>2 DEF SignalEvent, channelVars, socketVars
<1>9. CASE ServerStart \/ IaWindowChanges \/ UNCHANGED vars
  BY <1>9, <1>2 DEF ServerStart, IaWindowChanges, vars, channelVars, socketVars, queueVars
<1> QED BY <1>1, <1>3, <1>4, <1>5, <1>6, <1>7, <1>8, <1>9 DEF Next

(* The channel delivers as Delivery promises, through reconnections, full  *)
(* buffers and restarts of the backend, for every number of hooks,         *)
(* messages and connections.                                               *)
THEOREM ChannelDelivers == Spec => ImplementsDelivery
<1>1. Init => Promise!Init
  <2> SUFFICES ASSUME Init PROVE Promise!Init
    OBVIOUS
  <2>1. TypeOK /\ QueueShape /\ inHand = 0 /\ pushed = 1 /\ Taken = 0
    BY InitChannelInv DEF ChannelInv, Init, Taken
  <2>2. Waiting = {1}
    <3>1. \A m \in Msg : m \in Waiting <=> m = inHand \/ (Taken < m /\ m <= pushed)
      BY <2>1, WaitingAre
    <3>2. 1 \in Msg /\ Waiting \subseteq Msg /\ 0 \notin Msg
      BY Numbers DEF Waiting
    <3>3. \A m \in Msg : m \in Waiting <=> m = 1
      <4>1. \A m \in Msg : m \in Nat
        BY DEF Msg
      <4> QED BY <4>1, <2>1, <3>1, <3>2
    <3> QED BY <3>2, <3>3
  <2>3. Line = [c \in Conn |-> {}]
    BY DEF Init, Line, OnWire
  <2>4. Received = {} /\ Closed = {}
    BY Numbers DEF Init, Received, Processed, Closed
  <2> QED BY <2>1, <2>2, <2>3, <2>4
          DEF Promise!Init, Init, Waiting, Line, Received, Closed
<1>2. Init => WireOpened
  BY DEF Init, WireOpened
<1>3. ChannelInv /\ ChannelInv' /\ WireOpened /\ [Next]_vars
        => [Promise!Next]_(Promise!vars)
  BY StepImplementsDelivery DEF Step, Promise!vars, Waiting, Line, Received, Closed
<1>4. ChannelInv => TypeOK
  BY DEF ChannelInv
<1> QED BY <1>1, <1>2, <1>3, <1>4, InitChannelInv, NextChannelInv, NextWireOpened, PTL
        DEF Spec, ImplementsDelivery, Promise!Spec

-----------------------------------------------------------------------------
(* What can be proved of EveryMessageLeavesTheDll.  A message in the DLL   *)
(* leaves it after so many steps of the worker: three for each message     *)
(* before it (pop, connect, send), and what is left of the present turn.   *)
TurnLeft == CASE worker = "wait"  -> 2
              [] worker = "poll"  -> 1
              [] worker = "drain" -> 0
              [] worker = "send"  -> IF m_socket = 0 THEN 2 ELSE 1

StepsToLeave(m) == 3 * (m - Taken) + TurnLeft

(* No step of anybody puts off a message, and each of the worker's brings  *)
(* it nearer to its turn.                                                  *)
GetsOut ==
  \A m \in Msg : InDll(m) =>
    /\ StepsToLeave(m) \in Nat
    /\ InDll(m)' => /\ StepsToLeave(m)' <= StepsToLeave(m)
                    /\ WorkerStep => StepsToLeave(m)' < StepsToLeave(m)

(* What has to do with the distance of a message.                          *)
LEMMA StepsAre ==
  ASSUME TypeOK, QueueShape, NEW m \in Msg, InDll(m)
  PROVE  /\ Taken \in Nat /\ m \in Nat /\ m - Taken \in Nat /\ TurnLeft \in 0..2
         /\ worker # "send" => m - Taken > 0
         /\ StepsToLeave(m) \in Nat
<1>1. m \in Nat /\ Taken \in Nat
  BY WaitingAre, Numbers
<1>2. m = inHand \/ Taken < m
  BY WaitingAre DEF Waiting
<1>3. inHand # 0 => inHand = Taken
  BY DEF QueueShape
<1>4. m # 0 /\ (inHand # 0 <=> worker = "send")
  BY Numbers DEF TypeOK
<1>5. TurnLeft \in 0..2
  BY DEF TurnLeft, TypeOK
<1> QED BY <1>1, <1>2, <1>3, <1>4, <1>5 DEF StepsToLeave

(* The same of all messages, and in the next state.                        *)
LEMMA StepsAreNat ==
  TypeOK /\ QueueShape => \A m \in Msg : InDll(m) => StepsToLeave(m) \in Nat
  BY StepsAre

(* In the next state.                                                      *)
LEMMA StepsLater ==
  TypeOK' /\ QueueShape' => \A m \in Msg : InDll(m)' => StepsToLeave(m)' \in Nat
<1>1. (TypeOK /\ QueueShape)' => (\A m \in Msg : InDll(m) => StepsToLeave(m) \in Nat)'
  BY StepsAreNat, PTL
<1> QED BY <1>1

(* A step that takes no message and leaves the turn no later.              *)
LEMMA SameTurn ==
  ASSUME TypeOK, QueueShape, NEW m \in Msg, InDll(m),
         Taken' = Taken, TurnLeft' \in Nat, TurnLeft' <= TurnLeft
  PROVE  /\ StepsToLeave(m)' <= StepsToLeave(m)
         /\ TurnLeft' < TurnLeft => StepsToLeave(m)' < StepsToLeave(m)
  BY StepsAre DEF StepsToLeave

(* One message fewer before it outweighs any turn.                         *)
LEMMA OneFewer ==
  ASSUME NEW a \in Int, NEW b \in Int, NEW t \in 0..2
  PROVE  3 * (a - (b + 1)) + t < 3 * (a - b) + 0
  OBVIOUS

(* The worker's own steps.                                                 *)
LEMMA WorkerGetsOn ==
  ASSUME TypeOK, QueueShape, TypeOK', QueueShape', WorkerStep,
         NEW m \in Msg, InDll(m), InDll(m)'
  PROVE  StepsToLeave(m)' < StepsToLeave(m)
<1>0. /\ Taken \in Nat /\ m \in Nat /\ m - Taken \in Nat /\ TurnLeft \in 0..2
      /\ worker # "send" => m - Taken > 0
  BY StepsAre
<1>1. CASE WorkerWake \/ WorkerPoll
  <2>1. Taken' = Taken /\ TurnLeft' \in Nat /\ TurnLeft' < TurnLeft
    BY <1>1 DEF WorkerWake, WorkerPoll, TurnLeft, Taken, queueVars
  <2> QED BY <2>1, <1>0, SameTurn
<1>2. CASE WorkerPop
  <2>1. /\ Len(g_dataQueue') = Len(g_dataQueue) - 1 /\ pushed' = pushed
        /\ Len(g_dataQueue) \in Nat /\ pushed \in Nat
    BY <1>2, Dropped DEF WorkerPop, TypeOK
  <2>2. Taken' = Taken + 1
    BY <2>1 DEF Taken
  <2>3. TurnLeft = 0 /\ TurnLeft' \in 0..2
    BY <1>2 DEF WorkerPop, TurnLeft
  <2>4. /\ StepsToLeave(m) = 3 * (m - Taken) + TurnLeft
        /\ StepsToLeave(m)' = 3 * (m - Taken') + TurnLeft'
    BY DEF StepsToLeave
  <2>5. 3 * (m - (Taken + 1)) + TurnLeft' < 3 * (m - Taken) + 0
    <3>1. m \in Int /\ Taken \in Int /\ TurnLeft' \in 0..2
      BY <1>0, <2>3
    <3> QED BY ONLY <3>1, OneFewer
  <2> QED BY <2>2, <2>3, <2>4, <2>5
<1>3. CASE WorkerEmpty
  <2>1. inHand = 0 /\ g_dataQueue = <<>> /\ m # 0
    BY <1>3, Numbers DEF WorkerEmpty, TypeOK
  <2> QED BY <2>1 DEF InDll
<1>4. CASE Send
  <2>1. Taken' = Taken /\ worker = "send" /\ TurnLeft \in {1, 2}
    BY <1>4 DEF Send, SendConnect, SendLine, SendFails, Taken, queueVars, TurnLeft
  <2>2. TurnLeft' \in Nat /\ TurnLeft' < TurnLeft
    <3>1. CASE worker' = "drain"
      BY <2>1, <3>1 DEF TurnLeft
    <3>2. CASE m_socket = 0 /\ worker' = "send" /\ m_socket' # 0
      BY <2>1, <3>2 DEF TurnLeft
    <3>3. CASE SendConnect
      <4>1. CASE ConnectSucceeds /\ UNCHANGED worker
        <5>1. m_socket' = opened + 1 /\ opened \in Nat
          BY <4>1, Numbers DEF ConnectSucceeds, TypeOK
        <5> QED BY <2>1, <3>2, <3>3, <4>1, <5>1 DEF SendConnect
      <4> QED BY <3>1, <3>3, <4>1 DEF SendConnect
    <3>4. CASE SendLine \/ SendFails
      BY <3>1, <3>4 DEF SendLine, SendFails
    <3> QED BY <1>4, <3>3, <3>4 DEF Send
  <2> QED BY <2>1, <2>2, <1>0, SameTurn
<1> QED BY <1>1, <1>2, <1>3, <1>4 DEF WorkerStep

(* The worker rids the DLL of a message in no more than 3 * m + 2 steps of *)
(* its own, whatever hooks push meanwhile and whatever becomes of the      *)
(* connections, the backend and Item Assistant's window.                   *)
THEOREM MessagesGetOut == Spec => [][GetsOut]_vars
<1>1. ASSUME ChannelInv, ChannelInv', [Next]_vars PROVE [GetsOut]_vars
  <2>0. TypeOK /\ QueueShape /\ TypeOK' /\ QueueShape'
    BY <1>1 DEF ChannelInv
  <2> SUFFICES ASSUME Next, NEW m \in Msg, InDll(m)
               PROVE  /\ StepsToLeave(m) \in Nat
                      /\ InDll(m)' => /\ StepsToLeave(m)' <= StepsToLeave(m)
                                      /\ WorkerStep => StepsToLeave(m)' < StepsToLeave(m)
    BY <1>1 DEF GetsOut
  <2>1. StepsToLeave(m) \in Nat /\ TurnLeft \in 0..2
    BY <2>0, StepsAre
  <2> SUFFICES ASSUME InDll(m)'
               PROVE  /\ StepsToLeave(m)' <= StepsToLeave(m)
                      /\ WorkerStep => StepsToLeave(m)' < StepsToLeave(m)
    BY <2>1
  <2>2. WorkerStep => StepsToLeave(m)' < StepsToLeave(m)
    BY <2>0, WorkerGetsOn
  <2>3. StepsToLeave(m)' \in Nat
    BY <2>0, StepsLater
  <2>4. CASE WorkerStep
    BY <2>1, <2>2, <2>3, <2>4
  <2>5. ASSUME NEW p \in Producer, Push(p)
        PROVE  StepsToLeave(m)' <= StepsToLeave(m)
    <3>1. Len(g_dataQueue') = Len(g_dataQueue) + 1 /\ pushed' = pushed + 1
      <4>1. pushed + 1 \in Msg
        BY <2>0, <2>5, Numbers DEF Push, TypeOK
      <4> QED BY <2>0, <2>5, <4>1, Appended DEF Push, TypeOK
    <3>2. Taken' = Taken /\ TurnLeft' = TurnLeft
      BY <2>0, <2>5, <3>1 DEF Taken, TurnLeft, Push, socketVars, TypeOK
    <3> QED BY <2>0, <2>1, <3>2, SameTurn
  <2>6. ASSUME NEW p \in Producer, SignalEvent(p)
        PROVE  StepsToLeave(m)' <= StepsToLeave(m)
    <3>1. Taken' = Taken /\ TurnLeft' = TurnLeft
      BY <2>6 DEF Taken, TurnLeft, SignalEvent, socketVars
    <3> QED BY <2>0, <2>1, <3>1, SameTurn
  <2>7. CASE EarlyConnect
    <3>1. worker # "send" /\ worker' = worker /\ Taken' = Taken
      BY <2>7 DEF EarlyConnect, Taken, queueVars
    <3>2. TurnLeft' = TurnLeft
      BY <2>0, <3>1 DEF TurnLeft, TypeOK
    <3> QED BY <2>0, <2>1, <2>2, <3>1, <3>2, SameTurn
  <2>8. CASE (\E c \in Conn : ServerStep(c)) \/ ServerStop \/ ServerStart \/ IaWindowChanges
    <3>1. UNCHANGED <<pushed, g_dataQueue, worker, m_socket>>
      BY <2>8 DEF ServerStep, ServerRead, ServerEnds, ServerStop, ServerStart,
                  IaWindowChanges, queueVars, socketVars
    <3>2. Taken' = Taken /\ TurnLeft' = TurnLeft
      BY <3>1 DEF Taken, TurnLeft
    <3> QED BY <2>0, <2>1, <2>2, <3>2, SameTurn
  <2> QED BY <2>2, <2>4, <2>5, <2>6, <2>7, <2>8 DEF Next
<1> QED BY <1>1, InitChannelInv, NextChannelInv, PTL DEF Spec

(* No connection carries more lines than its buffers hold.                 *)
BuffersHold == \A c \in Conn : Len(wire[c]) <= WireCap

(* The worker is not without a next step while a message waits.  Asleep,   *)
(* it is woken (NoLostWakeup); and the buffers of its connection, which    *)
(* never hold more than they can, have room, or are full and the send      *)
(* fails in the end.                                                       *)
THEOREM SendGoesOrFails == Spec => [](BuffersHold /\ NoLostWakeup)
<1>1. Init => BuffersHold
  BY Numbers DEF Init, BuffersHold
<1>2. TypeOK /\ BuffersHold /\ [Next]_vars => BuffersHold'
  <2> SUFFICES ASSUME TypeOK, BuffersHold, [Next]_vars PROVE BuffersHold'
    OBVIOUS
  <2>0. \A c \in Conn : wire[c] \in Seq(Msg) /\ Len(wire[c]) \in Nat
    BY DEF TypeOK
  <2>1. CASE UNCHANGED wire
    BY <2>1 DEF BuffersHold
  <2>2. CASE SendLine
    <3> SUFFICES ASSUME wire' # wire, NEW c \in Conn PROVE Len(wire'[c]) <= WireCap
      BY <2>1 DEF BuffersHold
    <3>1. /\ inHand \in Msg /\ m_socket \in DOMAIN wire => wire[m_socket] \in Seq(Msg)
          /\ Len(wire[m_socket]) < WireCap
          /\ wire' = [wire EXCEPT ![m_socket] = Append(@, inHand)]
      BY <2>2 DEF SendLine, TypeOK
    <3>2. CASE c = m_socket
      <4>1. Len(wire'[c]) = Len(wire[c]) + 1
        BY <2>0, <3>1, <3>2, Appended DEF TypeOK
      <4> QED BY <2>0, <3>1, <3>2, <4>1, Numbers
    <3>3. CASE c # m_socket
      BY <3>1, <3>3 DEF BuffersHold, TypeOK
    <3> QED BY <3>2, <3>3
  <2>3. CASE SendFails
    <3> SUFFICES ASSUME NEW c \in Conn PROVE Len(wire'[c]) <= WireCap
      BY DEF BuffersHold
    <3>1. PICK keep \in 0..Len(wire[m_socket]) :
                 wire' = [wire EXCEPT ![m_socket] = SubSeq(@, 1, keep)]
      BY <2>3 DEF SendFails
    <3>2. CASE c = m_socket
      <4>1. Len(wire'[c]) = keep /\ keep <= Len(wire[c])
        BY <2>0, <3>1, <3>2, Truncated DEF TypeOK
      <4> QED BY <2>0, <3>1, <3>2, <4>1, Numbers DEF BuffersHold
    <3>3. CASE c # m_socket
      BY <3>1, <3>3 DEF BuffersHold, TypeOK
    <3> QED BY <3>2, <3>3
  <2>4. ASSUME NEW c \in Conn, ServerStep(c) PROVE BuffersHold'
    <3> SUFFICES ASSUME NEW d \in Conn PROVE Len(wire'[d]) <= WireCap
      BY DEF BuffersHold
    <3>1. CASE d # c
      BY <2>4, <3>1 DEF ServerStep, ServerRead, ServerEnds, BuffersHold, TypeOK
    <3>2. CASE d = c /\ ServerRead(c)
      <4>1. wire'[c] = Tail(wire[c]) /\ wire[c] # <<>>
        BY <3>2 DEF ServerRead, TypeOK
      <4>2. Len(wire'[c]) = Len(wire[c]) - 1
        BY <2>0, <4>1, Dropped
      <4> QED BY <2>0, <3>2, <4>2, Numbers DEF BuffersHold
    <3>3. CASE d = c /\ ServerEnds(c)
      <4>1. wire'[c] = <<>>
        BY <3>3 DEF ServerEnds, TypeOK
      <4> QED BY <3>3, <4>1, Numbers
    <3> QED BY <2>4, <3>1, <3>2, <3>3 DEF ServerStep
  <2>5. CASE ServerStop
    <3>1. \A c \in Conn : wire'[c] = <<>>
      BY <2>5 DEF ServerStop
    <3> QED BY <3>1, Numbers DEF BuffersHold
  <2>6. ASSUME \/ \E p \in Producer : Push(p) \/ SignalEvent(p)
               \/ WorkerWake \/ WorkerPoll \/ WorkerPop \/ WorkerEmpty
               \/ SendConnect \/ EarlyConnect \/ ServerStart \/ IaWindowChanges
               \/ UNCHANGED vars
        PROVE  UNCHANGED wire
    BY <2>6 DEF Push, SignalEvent, WorkerWake, WorkerPoll, WorkerPop, WorkerEmpty,
                SendConnect, EarlyConnect, ConnectSucceeds, ServerStart, IaWindowChanges,
                vars, socketVars
  <2> QED BY <2>1, <2>2, <2>3, <2>4, <2>5, <2>6 DEF Next, WorkerStep, Send
<1> QED BY <1>1, <1>2, TypeCorrect, NoWakeupLost, PTL DEF Spec
=============================================================================
