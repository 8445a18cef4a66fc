------------------------------ MODULE MCStores ------------------------------
(***************************************************************************)
(* Model-checking instances of the modules without threads of their own:   *)
(* WebItems, Backend and StashTabs.  They share no state; a behaviour      *)
(* exercises one of them and leaves the others in their initial states.    *)
(***************************************************************************)
EXTENDS WebItems, Backend, StashTabs, TLC

VARIABLE part   \* "web", "store" or "tabs"

(* Items that differ in what makes a difference to the DLL; the first may  *)
(* be one of either game.                                                  *)
ItemWith(record, extra, stack) ==
  [f \in Field |-> CASE f = "baseRecord" -> record
                     [] f = "stackSize" -> stack
                     [] f \in PlaytestOnly \ extra -> Absent
                     [] OTHER -> f]

Replicas == {ItemWith("gear", {}, 1), ItemWith("gear", {}, 2),
             ItemWith("materia", {}, 1), ItemWith("gear", PlaytestOnly, 1)}

Settings == {0 - 1, 2, 9}

Init ==
  /\ part \in {"web", "store", "tabs"}
  /\ WebInit /\ StoreInit /\ TabsInit
  /\ part # "tabs" => /\ playtest /\ sacks = 1
                      /\ \A i \in Item : replica[i] = ItemWith("gear", {}, 1)

Next ==
  \/ part = "web" /\ WebNext /\ UNCHANGED <<part, backendVars, tabVars>>
  \/ part = "store" /\ StoreNext /\ UNCHANGED <<part, webVars, tabVars>>
  \/ part = "tabs" /\ TabsNext /\ UNCHANGED <<part, webVars, backendVars>>

Spec ==
  /\ Init /\ [][Next]_<<part, webVars, backendVars, tabVars>>
  /\ WebFairness /\ StoreFairness
=============================================================================
