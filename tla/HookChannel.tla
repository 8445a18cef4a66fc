---------------------------- MODULE HookChannel ----------------------------
(***************************************************************************)
(* The channel from the hooks in the game to the Rust backend, and the     *)
(* worker thread that serves it (HookDll/Hook: dllmain.cpp, DataQueue.h,   *)
(* TcpClient.cpp, BaseMethodHook.cpp; gdia-tauri/src/tcp_server.rs).       *)
(*                                                                         *)
(* A hook, on any game thread, pushes a message on g_dataQueue and then    *)
(* sets g_hEvent, an auto-reset event.  The worker waits for the event,    *)
(* looks for Item Assistant's window, and sends what is queued over one    *)
(* TCP connection, which SendMessage opens when there is none.  The        *)
(* backend serves every connection by a task of its own and answers every  *)
(* line; the DLL never reads the answers.                                  *)
(*                                                                         *)
(* Messages are numbered in the order they are pushed; what they say is    *)
(* left out.  A connection is the lines on their way, the answers nobody   *)
(* reads, and whether each end still has it open.                          *)
(***************************************************************************)
EXTENDS Naturals, Sequences, FiniteSets

CONSTANTS
  Producer,           \* threads that run hooks
  MaxMsg,             \* bound on the messages pushed
  MaxConn,            \* bound on the connections opened
  WireCap,            \* lines the socket buffers of a connection hold
  ReplyCap            \* answers the socket buffers of a connection hold

ASSUME ChannelAssumption ==
  /\ MaxMsg \in Nat \ {0} /\ MaxConn \in Nat
  /\ WireCap \in Nat \ {0} /\ ReplyCap \in Nat

Msg  == 1..MaxMsg
Conn == 1..MaxConn

VARIABLES
  pushed,         \* number of messages pushed so far
  g_dataQueue,
  g_hEvent,       \* the event is signalled
  producer,       \* per hook thread: "idle", or "push" between push and SetEvent
  worker,         \* "wait", "poll", "drain" or "send"
  inHand,         \* the message popped and not yet sent, or 0
  m_socket,       \* the connection of the client, or 0
  opened,         \* number of connections opened so far
  wire,           \* per connection: lines sent and not yet read
  replies,        \* per connection: answers written (see ServerRead)
  peerOpen,       \* per connection: the backend's end is open
  serverUp,
  received,       \* history: <<connection, message>> in the order processed
  lost,           \* history: messages dropped on the way
  g_isRunningInWine,
  iaWindow,       \* Item Assistant's window exists
  g_targetWnd,    \* what FindWindow returned last
  m_isActive      \* instaloot is active

queueVars  == <<pushed, g_dataQueue, producer>>
socketVars == <<m_socket, opened, wire, replies, peerOpen>>
windowVars == <<g_isRunningInWine, iaWindow, g_targetWnd, m_isActive>>
vars == <<queueVars, g_hEvent, worker, inHand, socketVars, serverUp, received,
          lost, windowVars>>

(* StartWorkerThread has pushed its own message and set the event; the     *)
(* hooks are enabled, which leaves instaloot inactive.                     *)
Init ==
  /\ pushed = 1 /\ g_dataQueue = <<1>>
  /\ g_hEvent = TRUE
  /\ producer = [p \in Producer |-> "idle"]
  /\ worker = "wait" /\ inHand = 0
  /\ m_socket = 0 /\ opened = 0
  /\ wire = [c \in Conn |-> <<>>]
  /\ replies = [c \in Conn |-> 0]
  /\ peerOpen = [c \in Conn |-> FALSE]
  /\ serverUp \in BOOLEAN
  /\ received = <<>> /\ lost = {}
  /\ iaWindow \in BOOLEAN /\ g_targetWnd = FALSE
  /\ g_isRunningInWine \in BOOLEAN /\ m_isActive = FALSE

-----------------------------------------------------------------------------
(* TransferData and the reports: push, then SetEvent.                      *)
Push(p) ==
  /\ producer[p] = "idle" /\ pushed < MaxMsg
  /\ pushed' = pushed + 1
  /\ g_dataQueue' = Append(g_dataQueue, pushed + 1)
  /\ producer' = [producer EXCEPT ![p] = "push"]
  /\ UNCHANGED <<g_hEvent, worker, inHand, socketVars, serverUp, received, lost, windowVars>>

SignalEvent(p) ==
  /\ producer[p] = "push"
  /\ producer' = [producer EXCEPT ![p] = "idle"]
  /\ g_hEvent' = TRUE
  /\ UNCHANGED <<pushed, g_dataQueue, worker, inHand, socketVars, serverUp,
                 received, lost, windowVars>>

-----------------------------------------------------------------------------
(* WaitForSingleObject returns and resets the event.                       *)
WorkerWake ==
  /\ worker = "wait" /\ g_hEvent
  /\ g_hEvent' = FALSE
  /\ worker' = "poll"
  /\ UNCHANGED <<queueVars, inHand, socketVars, serverUp, received, lost, windowVars>>

(* Under Wine instaloot is simply on.  Otherwise FindWindow is asked when  *)
(* the last answer was NULL or is more than a second old.                  *)
WorkerPoll ==
  /\ worker = "poll"
  /\ worker' = "drain"
  /\ \/ /\ g_isRunningInWine
        /\ m_isActive' = TRUE /\ UNCHANGED g_targetWnd
     \/ /\ ~g_isRunningInWine
        /\ g_targetWnd' = iaWindow /\ m_isActive' = iaWindow
     \/ /\ ~g_isRunningInWine /\ g_targetWnd
        /\ UNCHANGED <<g_targetWnd, m_isActive>>
  /\ UNCHANGED <<queueVars, g_hEvent, inHand, socketVars, serverUp, received,
                 lost, g_isRunningInWine, iaWindow>>

(* Mutant: the newest message is popped.                                   *)
WorkerPopNewest ==
  /\ worker = "drain" /\ g_dataQueue # <<>>
  /\ inHand' = g_dataQueue[Len(g_dataQueue)]
  /\ g_dataQueue' = SubSeq(g_dataQueue, 1, Len(g_dataQueue) - 1)
  /\ worker' = "send"
  /\ UNCHANGED <<pushed, producer, g_hEvent, socketVars, serverUp, received, lost, windowVars>>

WorkerPop ==
  /\ worker = "drain" /\ g_dataQueue # <<>>
  /\ inHand' = Head(g_dataQueue)
  /\ g_dataQueue' = Tail(g_dataQueue)
  /\ worker' = "send"
  /\ UNCHANGED <<pushed, producer, g_hEvent, socketVars, serverUp, received, lost, windowVars>>

(* Mutant: one message is taken for each time the event is set.            *)
WorkerTakesOne ==
  /\ worker = "drain"
  /\ worker' = "wait"
  /\ UNCHANGED <<queueVars, g_hEvent, inHand, socketVars, serverUp, received, lost, windowVars>>

WorkerEmpty ==
  /\ worker = "drain" /\ g_dataQueue = <<>>
  /\ worker' = "wait"
  /\ UNCHANGED <<queueVars, g_hEvent, inHand, socketVars, serverUp, received, lost, windowVars>>

-----------------------------------------------------------------------------
(* ConnectInternal: nothing to do when connected; otherwise a new socket.  *)
ConnectSucceeds ==
  /\ serverUp /\ opened < MaxConn
  /\ opened' = opened + 1
  /\ m_socket' = opened + 1
  /\ peerOpen' = [peerOpen EXCEPT ![opened + 1] = TRUE]
  /\ UNCHANGED <<wire, replies>>

(* The thread DeferredInit detaches to connect early.                      *)
EarlyConnect ==
  /\ m_socket = 0 /\ opened = 0 /\ worker # "send"
  /\ ConnectSucceeds
  /\ UNCHANGED <<queueVars, g_hEvent, worker, inHand, serverUp, received, lost, windowVars>>

(* SendMessage without a connection: connect and go on, or give up.  The   *)
(* worker goes on to the next message either way.                          *)
SendConnect ==
  /\ worker = "send" /\ m_socket = 0
  /\ \/ ConnectSucceeds /\ UNCHANGED <<worker, inHand, lost>>
     \/ /\ lost' = lost \cup {inHand}
        /\ inHand' = 0 /\ worker' = "drain"
        /\ UNCHANGED socketVars
  /\ UNCHANGED <<queueVars, g_hEvent, serverUp, received, windowVars>>

(* Mutant: the line is sent and the message kept for another attempt.      *)
SendLineAgain ==
  /\ worker = "send" /\ m_socket # 0
  /\ Len(wire[m_socket]) < WireCap
  /\ wire' = [wire EXCEPT ![m_socket] = Append(@, inHand)]
  /\ UNCHANGED <<queueVars, g_hEvent, worker, inHand, m_socket, opened, replies, peerOpen,
                 serverUp, received, lost, windowVars>>

(* send() hands the line to the socket.  A peer that is gone is noticed    *)
(* only later: the line is accepted and lost.                              *)
SendLine ==
  /\ worker = "send" /\ m_socket # 0
  /\ IF peerOpen[m_socket]
     THEN /\ Len(wire[m_socket]) < WireCap
          /\ wire' = [wire EXCEPT ![m_socket] = Append(@, inHand)]
          /\ UNCHANGED lost
     ELSE lost' = lost \cup {inHand} /\ UNCHANGED wire
  /\ inHand' = 0 /\ worker' = "drain"
  /\ UNCHANGED <<queueVars, g_hEvent, m_socket, opened, replies, peerOpen, serverUp,
                 received, windowVars>>

(* Mutants: the socket has no send timeout; the connection that failed is  *)
(* used again; the failed message stays in the worker's hand while it goes *)
(* on to the next.                                                         *)
SendFailsNoTimeout ==
  /\ worker = "send" /\ m_socket # 0
  /\ ~peerOpen[m_socket]
  /\ lost' = lost \cup {inHand}
  /\ m_socket' = 0
  /\ inHand' = 0 /\ worker' = "drain"
  /\ UNCHANGED <<queueVars, g_hEvent, opened, wire, replies, peerOpen, serverUp,
                 received, windowVars>>

SendFailsStaysConnected ==
  /\ worker = "send" /\ m_socket # 0
  /\ ~peerOpen[m_socket] \/ Len(wire[m_socket]) = WireCap
  /\ \E keep \in 0..Len(wire[m_socket]) :
       /\ wire' = [wire EXCEPT ![m_socket] = SubSeq(@, 1, keep)]
       /\ lost' = lost \cup {inHand}
            \cup {wire[m_socket][k] : k \in keep + 1..Len(wire[m_socket])}
  /\ inHand' = 0 /\ worker' = "drain"
  /\ UNCHANGED <<queueVars, g_hEvent, m_socket, opened, replies, peerOpen,
                 serverUp, received, windowVars>>

SendFailsKeeps ==
  /\ worker = "send" /\ m_socket # 0
  /\ ~peerOpen[m_socket] \/ Len(wire[m_socket]) = WireCap
  /\ m_socket' = 0
  /\ worker' = "drain"
  /\ UNCHANGED <<queueVars, g_hEvent, inHand, opened, wire, replies, peerOpen,
                 serverUp, received, lost, windowVars>>

(* send() fails, because the peer is gone or because the buffers stay full *)
(* for the five seconds of SO_SNDTIMEO: DisconnectInternal, and the        *)
(* message is dropped.  Closing a socket with unread answers resets the    *)
(* connection, which may cost the lines the backend has not read yet.      *)
SendFails ==
  /\ worker = "send" /\ m_socket # 0
  /\ ~peerOpen[m_socket] \/ Len(wire[m_socket]) = WireCap
  /\ \E keep \in 0..Len(wire[m_socket]) :
       /\ wire' = [wire EXCEPT ![m_socket] = SubSeq(@, 1, keep)]
       /\ lost' = lost \cup {inHand}
            \cup {wire[m_socket][k] : k \in keep + 1..Len(wire[m_socket])}
  /\ m_socket' = 0
  /\ inHand' = 0 /\ worker' = "drain"
  /\ UNCHANGED <<queueVars, g_hEvent, opened, replies, peerOpen, serverUp, received,
                 windowVars>>

-----------------------------------------------------------------------------
(* handle_connection: one line is processed and answered.  The client      *)
(* never reads, so once ReplyCap answers are buffered the next write_all   *)
(* blocks the task: replies = ReplyCap + 1 is a task that is blocked.      *)
ServerRead(c) ==
  /\ serverUp /\ peerOpen[c] /\ wire[c] # <<>> /\ replies[c] <= ReplyCap
  /\ received' = Append(received, <<c, Head(wire[c])>>)
  /\ wire' = [wire EXCEPT ![c] = Tail(@)]
  /\ replies' = [replies EXCEPT ![c] = @ + 1]
  /\ UNCHANGED <<queueVars, g_hEvent, worker, inHand, m_socket, opened, peerOpen,
                 serverUp, lost, windowVars>>

(* The client has closed the connection: the task ends at the end of file  *)
(* or at the first answer it cannot write.                                 *)
ServerEnds(c) ==
  /\ peerOpen[c] /\ c <= opened /\ m_socket # c
  /\ peerOpen' = [peerOpen EXCEPT ![c] = FALSE]
  /\ lost' = lost \cup {wire[c][k] : k \in 1..Len(wire[c])}
  /\ wire' = [wire EXCEPT ![c] = <<>>]
  /\ UNCHANGED <<queueVars, g_hEvent, worker, inHand, m_socket, opened, replies,
                 serverUp, received, windowVars>>

(* The backend stops, with all its connections, and starts again.          *)
ServerStop ==
  /\ serverUp
  /\ serverUp' = FALSE
  /\ peerOpen' = [c \in Conn |-> FALSE]
  /\ lost' = lost \cup UNION {{wire[c][k] : k \in 1..Len(wire[c])} : c \in Conn}
  /\ wire' = [c \in Conn |-> <<>>]
  /\ UNCHANGED <<queueVars, g_hEvent, worker, inHand, m_socket, opened, replies,
                 received, windowVars>>

ServerStart ==
  /\ ~serverUp
  /\ serverUp' = TRUE
  /\ UNCHANGED <<queueVars, g_hEvent, worker, inHand, socketVars, received, lost, windowVars>>

(* The user starts or closes Item Assistant.                               *)
IaWindowChanges ==
  /\ iaWindow' = ~iaWindow
  /\ UNCHANGED <<queueVars, g_hEvent, worker, inHand, socketVars, serverUp,
                 received, lost, g_isRunningInWine, g_targetWnd, m_isActive>>

-----------------------------------------------------------------------------
Send == SendConnect \/ SendLine \/ SendFails

WorkerStep == WorkerWake \/ WorkerPoll \/ WorkerPop \/ WorkerEmpty \/ Send

ServerStep(c) == ServerRead(c) \/ ServerEnds(c)

Next == \/ \E p \in Producer : Push(p) \/ SignalEvent(p)
        \/ WorkerStep \/ EarlyConnect
        \/ \E c \in Conn : ServerStep(c)
        \/ ServerStop \/ ServerStart \/ IaWindowChanges

Spec == Init /\ [][Next]_vars

(* A hook that has pushed goes on to SetEvent; the worker and the tasks of *)
(* the backend run when they can.                                          *)
Fairness == /\ \A p \in Producer : WF_vars(SignalEvent(p))
            /\ WF_vars(WorkerStep)
            /\ \A c \in Conn : WF_vars(ServerStep(c))

FairSpec == Spec /\ Fairness

-----------------------------------------------------------------------------
(* Every variable keeps its type, and the worker has a message in its hand *)
(* exactly while it sends.                                                 *)
TypeOK ==
  /\ pushed \in 0..MaxMsg
  /\ g_dataQueue \in Seq(Msg)
  /\ g_hEvent \in BOOLEAN
  /\ producer \in [Producer -> {"idle", "push"}]
  /\ worker \in {"wait", "poll", "drain", "send"}
  /\ inHand \in Msg \cup {0}
  /\ inHand # 0 <=> worker = "send"
  /\ m_socket \in 0..opened
  /\ opened \in 0..MaxConn
  /\ wire \in [Conn -> Seq(Msg)]
  /\ replies \in [Conn -> 0..ReplyCap + 1]
  /\ peerOpen \in [Conn -> BOOLEAN]
  /\ serverUp \in BOOLEAN
  /\ received \in Seq(Conn \X Msg)
  /\ lost \in SUBSET Msg
  /\ g_isRunningInWine \in BOOLEAN /\ iaWindow \in BOOLEAN
  /\ g_targetWnd \in BOOLEAN /\ m_isActive \in BOOLEAN

(* The worker never sleeps on a message: while something is queued, the    *)
(* event is signalled or a hook is about to signal it, although pushes and *)
(* signals of several hooks are coalesced and the emptiness test races     *)
(* with them.                                                              *)
NoLostWakeup ==
  worker = "wait" /\ g_dataQueue # <<>> =>
    g_hEvent \/ \E p \in Producer : producer[p] = "push"

(* Where message m can be.                                                 *)
InDll(m)     == inHand = m \/ \E k \in DOMAIN g_dataQueue : g_dataQueue[k] = m
OnWire(c, m) == \E k \in DOMAIN wire[c] : wire[c][k] = m
Processed(m) == \E k \in DOMAIN received : received[k][2] = m

(* Each message pushed is in exactly one place: in the DLL, on one         *)
(* connection, processed, once, or lost; so none is sent again after a     *)
(* reconnection, none is processed twice, and none disappears unnoticed.   *)
InOnePlace ==
  /\ \A m \in 1..pushed :
       InDll(m) \/ Processed(m) \/ m \in lost \/ \E c \in Conn : OnWire(c, m)
  /\ \A m \in Msg : /\ ~(InDll(m) /\ Processed(m))
                    /\ m \in lost => ~InDll(m) /\ ~Processed(m)
                    /\ \A c \in Conn : OnWire(c, m) =>
                         /\ ~InDll(m) /\ ~Processed(m) /\ m \notin lost
                         /\ \A d \in Conn : OnWire(d, m) => d = c
  /\ \A j, k \in DOMAIN received : received[j][2] = received[k][2] => j = k

(* The backend processes the lines of one connection in the order the      *)
(* messages were pushed.                                                   *)
OrderedPerConnection ==
  \A j, k \in DOMAIN received :
    j < k /\ received[j][1] = received[k][1] => received[j][2] < received[k][2]

(* The channel delivers as Delivery promises: messages leave the DLL in    *)
(* the order of the pushes, each once and over a connection that is open   *)
(* at both ends; what is lost on a connection is its last lines, and only  *)
(* when it is closed; a line after a lost one goes over a new connection.  *)
Promise == INSTANCE Delivery WITH
  waiting  <- {m \in Msg : InDll(m)},
  line     <- [c \in Conn |-> {m \in Msg : OnWire(c, m)}],
  received <- {m \in Msg : Processed(m)},
  closed   <- {c \in Conn : c <= opened /\ (c = m_socket => ~peerOpen[c])}

ImplementsDelivery == Promise!Spec

(* No message stays in the DLL for ever: the worker gets to it and gets    *)
(* rid of it, even behind a backend that is blocked on the answers nobody  *)
(* reads or that is not running at all.                                    *)
EveryMessageLeavesTheDll == \A m \in Msg : m <= pushed ~> m <= pushed /\ ~InDll(m)

(* Outside Wine, once Item Assistant's window is gone instaloot is         *)
(* switched off.                                                           *)
IaClosedIsNoticed == []<>(g_isRunningInWine \/ iaWindow \/ ~m_isActive)
=============================================================================
