------------------------------ MODULE Delivery ------------------------------
(***************************************************************************)
(* What the channel from the hooks to the backend promises.  Messages are  *)
(* numbered in the order they are pushed.  They leave the sender in that   *)
(* order, each at most once, over a connection that is open; a connection  *)
(* delivers its lines in order.  Nothing is sent again, so a message may   *)
(* be lost: the next one to leave at any time, and the end of the lines of *)
(* a connection once that is closed.  A connection never goes on after a   *)
(* line it has lost.                                                       *)
(***************************************************************************)
EXTENDS Naturals

CONSTANTS Msg, Conn

VARIABLES
  pushed,         \* the number of messages pushed
  waiting,        \* the messages that have not left the sender
  line,           \* per connection: sent and not yet received
  received,
  lost,
  closed          \* connections the sender has given up or the receiver has ended

vars == <<pushed, waiting, line, received, lost, closed>>

Init ==
  /\ pushed = 1 /\ waiting = {1}
  /\ line = [c \in Conn |-> {}]
  /\ received = {} /\ lost = {} /\ closed = {}

First(m, S) == m \in S /\ \A k \in S : m <= k

Push ==
  /\ pushed + 1 \in Msg
  /\ pushed' = pushed + 1
  /\ waiting' = waiting \cup {pushed + 1}
  /\ UNCHANGED <<line, received, lost, closed>>

Send(m, c) ==
  /\ First(m, waiting) /\ c \notin closed
  /\ waiting' = waiting \ {m}
  /\ line' = [line EXCEPT ![c] = @ \cup {m}]
  /\ UNCHANGED <<pushed, received, lost, closed>>

Receive(m, c) ==
  /\ First(m, line[c])
  /\ line' = [line EXCEPT ![c] = @ \ {m}]
  /\ received' = received \cup {m}
  /\ UNCHANGED <<pushed, waiting, lost, closed>>

(* What is left of the lines of c: all of them, or those up to some line   *)
(* when c is closed.                                                       *)
CutOff(c) ==
  /\ line'[c] \subseteq line[c]
  /\ \A k \in line'[c], m \in line[c] \ line'[c] : k < m
  /\ line'[c] # line[c] => c \in closed'

(* Connections are closed, and messages are lost.                          *)
Lose ==
  /\ closed' \in SUBSET Conn /\ closed \subseteq closed'
  /\ line' \in [Conn -> SUBSET Msg] /\ \A c \in Conn : CutOff(c)
  /\ waiting' \in SUBSET waiting /\ \A m \in waiting \ waiting' : First(m, waiting)
  /\ lost' = lost \cup (waiting \ waiting') \cup UNION {line[c] \ line'[c] : c \in Conn}
  /\ UNCHANGED <<pushed, received>>

Next == \/ Push \/ Lose
        \/ \E m \in Msg, c \in Conn : Send(m, c) \/ Receive(m, c)

Spec == Init /\ [][Next]_vars
=============================================================================
