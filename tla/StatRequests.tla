---------------------------- MODULE StatRequests ----------------------------
(***************************************************************************)
(* What the desk for item stats promises Item Assistant: a request that is *)
(* written waits, is taken into a batch of limited size, and is answered   *)
(* together with all others of its batch; or it is given up with a report. *)
(* Either happens once.  Where the desk is not reliable a request may be   *)
(* spoiled, from the moment it is written: then it may be answered twice   *)
(* or not at all.                                                          *)
(***************************************************************************)
EXTENDS Naturals, FiniteSets

CONSTANTS
  Request,
  BatchMax,     \* requests in a batch
  Unreliable    \* requests may be spoiled

VARIABLE where  \* where[r]: the places request r is in; none before it is written

Place == {"waiting", "taken", "answered", "reported"}

Taken == {r \in Request : where[r] = {"taken"}}

Move(S, place) == where' = [r \in Request |-> IF r \in S THEN {place} ELSE where[r]]

Init == where = [r \in Request |-> {}]

Write(r)  == where[r] = {} /\ Move({r}, "waiting")
Take(r)   == /\ where[r] = {"waiting"} /\ Cardinality(Taken) < BatchMax
             /\ Move({r}, "taken")
Report(r) == where[r] = {"waiting"} /\ Move({r}, "reported")
Publish   == Taken # {} /\ Move(Taken, "answered")
Spoil     == /\ Unreliable
             /\ \E S \in SUBSET {r \in Request : where[r] # {}} : Move(S, "spoiled")

Next == \/ \E r \in Request : Write(r) \/ Take(r) \/ Report(r)
        \/ Publish \/ Spoil

Spec == Init /\ [][Next]_where
=============================================================================
