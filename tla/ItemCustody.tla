---------------------------- MODULE ItemCustody ----------------------------
(***************************************************************************)
(* What the item pipeline promises: at any time each item is in the        *)
(* custody of exactly one party, and one item at a time changes hands      *)
(* along the edges below.  An unreliable pipeline may damage items, one at *)
(* a time; what becomes of a damaged item is not promised.                 *)
(***************************************************************************)
CONSTANTS
  Item,
  Unreliable      \* items may be damaged

VARIABLE holder     \* holder[i]: the party item i is with, or "damaged"

Party == {"game", "ingoing", "ia", "outgoing"}

HandOver ==
  {<<"game", "ingoing">>,      \* looted: HandleItem wrote its CSV
   <<"ingoing", "ia">>,        \* imported by Item Assistant
   <<"ia", "outgoing">>,       \* on its way back to the game
   <<"outgoing", "game">>,     \* deposited
   <<"outgoing", "ingoing">>}  \* refused by the game, back to Item Assistant

Init == holder = [i \in Item |-> "game"]

Move(i, from, to) == /\ holder[i] = from
                     /\ holder' = [holder EXCEPT ![i] = to]

Damage(i) == /\ Unreliable
             /\ holder[i] \in Party
             /\ holder' = [holder EXCEPT ![i] = "damaged"]

Next == \/ \E i \in Item, edge \in HandOver : Move(i, edge[1], edge[2])
        \/ \E i \in Item : Damage(i)

Spec == Init /\ [][Next]_holder
=============================================================================
