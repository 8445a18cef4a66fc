-------------------------- MODULE InstalootProofs --------------------------
(***************************************************************************)
(* Theorems about Instaloot, for every set of items, files, modes and      *)
(* listeners and every set of faults.                                      *)
(***************************************************************************)
EXTENDS Instaloot, TLAPS

(* An entry whose item has been added to the tab still has its file in     *)
(* outgoing, and that file is on its way to deleted.                       *)
MovingOK ==
  moving # None /\ moving.added =>
    InOutgoing(moving.path) /\ moving.to = "deleted"

TypeInv == TypeOK /\ MovingOK

(* The type of the variables and the shape of the deposit loop.            *)
LEMMA InitTypeInv == Init => TypeInv
<1> SUFFICES ASSUME Init PROVE TypeInv
  OBVIOUS
<1>1. stock \in [Store -> [Item -> 0..MaxCopies]]
  <2>1. 0 \in 0..MaxCopies /\ 1 \in 0..MaxCopies
    BY ConstantsAssumption
  <2>2. PICK home \in [Item -> Mode] :
          stock = [s \in Store |-> [i \in Item |-> IF home[i] = s THEN 1 ELSE 0]]
    BY DEF Init
  <2> QED BY <2>1, <2>2, Zenon
<1>2. file \in [File -> FileState \cup {None}]
  BY DEF Init
<1> QED BY <1>1, <1>2 DEF Init, TypeInv, TypeOK, MovingOK

(* One action after the other keeps the type invariant.                    *)
LEMMA NextTypeInv == TypeInv /\ [Next]_vars => TypeInv'
<1> SUFFICES ASSUME TypeInv, [Next]_vars PROVE TypeInv'
  OBVIOUS
<1> USE ConstantsAssumption DEF TypeInv, TypeOK, MovingOK, InOutgoing
<1>1. ASSUME NEW isActive \in BOOLEAN, SetActive(isActive) PROVE TypeInv'
  BY <1>1 DEF SetActive, gameVars, drainVars
<1>2. ASSUME NEW t \in Listener, ListenerStep(t) PROVE TypeInv'
  <2>1. CASE ListenerTest(t)
    BY <2>1 DEF ListenerTest, gameVars, drainVars
  <2>2. CASE ListenerList(t)
    BY <2>2 DEF ListenerList, gameVars, drainVars
  <2>3. CASE ListenerNoGame(t)
    BY <2>3 DEF ListenerNoGame, gameVars, drainVars
  <2>4. CASE ListenerInsert(t)
    BY <2>4 DEF ListenerInsert, gameVars, drainVars
  <2>5. CASE ListenerScanned(t)
    BY <2>5 DEF ListenerScanned, gameVars, drainVars
  <2>6. CASE ListenerThrows(t)
    BY <2>6 DEF ListenerThrows, gameVars, drainVars
  <2> QED BY <1>2, <2>1, <2>2, <2>3, <2>4, <2>5, <2>6 DEF ListenerStep
<1>3. CASE Drain
  <2>1. CASE DrainBegin
    BY <2>1 DEF DrainBegin, gameVars, listenerVars
  <2>2. CASE DrainItem
    <3> PICK f \in todo : Added(f) \/ Rejected(f) \/ Invalid(f)
      BY <2>2 DEF DrainItem
    <3> USE <2>2 DEF DrainItem, Readable, gameVars, listenerVars, Store,
                     FileState, MoveOp
    <3>1. CASE Added(f)    BY <3>1 DEF Added
    <3>2. CASE Rejected(f) BY <3>2 DEF Rejected
    <3>3. CASE Invalid(f)  BY <3>3 DEF Invalid
    <3> QED BY <3>1, <3>2, <3>3
  <2>3. CASE DrainMove
    BY <2>3 DEF DrainMove, MoveSucceeds, MoveFails, Movable, gameVars,
                listenerVars, FileState, MoveOp
  <2>4. CASE DrainEnd
    BY <2>4 DEF DrainEnd, gameVars, listenerVars
  <2>5. CASE DrainThrows
    BY <2>5 DEF DrainThrows, gameVars, listenerVars
  <2> QED BY <1>3, <2>1, <2>2, <2>3, <2>4, <2>5 DEF Drain
<1>4. CASE GameStep
  <2>1. ASSUME NEW i \in Item, NEW f \in File, HandleItem(i, f) PROVE TypeInv'
    BY <2>1 DEF HandleItem, Fresh, gameVars, listenerVars, drainVars, Store, FileState
  <2>2. ASSUME NEW isOpen \in BOOLEAN, SetTransferOpen(isOpen) PROVE TypeInv'
    BY <2>2 DEF SetTransferOpen, listenerVars, drainVars
  <2>3. ASSUME NEW m \in Mode, GameLoad(m) PROVE TypeInv'
    BY <2>3 DEF GameLoad, listenerVars, drainVars
  <2>4. CASE UpdateNotReady
    BY <2>4 DEF UpdateNotReady, listenerVars, drainVars
  <2>5. CASE GameReady
    BY <2>5 DEF GameReady, listenerVars, drainVars
  <2>6. CASE GameRestart
    BY <2>6 DEF GameRestart, FileState, MoveOp
  <2>7. ASSUME NEW i \in Item, NEW f \in File, HandleItemThrows(i, f) PROVE TypeInv'
    BY <2>7 DEF HandleItemThrows, Fresh, gameVars, listenerVars, drainVars, FileState
  <2> QED BY <1>4, <2>1, <2>2, <2>3, <2>4, <2>5, <2>6, <2>7 DEF GameStep
<1>5. CASE IaStep
  <2>1. ASSUME NEW f \in File, IaImport(f) PROVE TypeInv'
    BY <2>1 DEF IaImport, gameVars, listenerVars, drainVars, Store, FileState, MoveOp
  <2>2. ASSUME NEW f \in File, IaFinishWrite(f) PROVE TypeInv'
    BY <2>2 DEF IaFinishWrite, gameVars, listenerVars, drainVars, FileState, MoveOp
  <2>3. ASSUME NEW f \in File, IaPurge(f) PROVE TypeInv'
    BY <2>3 DEF IaPurge, gameVars, listenerVars, drainVars, FileState, MoveOp
  <2>4. ASSUME NEW i \in Item, NEW f \in File, NEW m \in Mode, IaTransfer(i, f, m)
        PROVE TypeInv'
    BY <2>4 DEF IaTransfer, Fresh, gameVars, listenerVars, drainVars, Store,
                FileState, MoveOp
  <2> QED BY <1>5, <2>1, <2>2, <2>3, <2>4 DEF IaStep
<1>6. CASE UNCHANGED vars
  BY <1>6 DEF vars, gameVars, listenerVars, drainVars
<1> QED BY <1>1, <1>2, <1>3, <1>4, <1>5, <1>6 DEF Next

(* Every reachable state of the pipeline is well typed.                    *)
THEOREM TypeCorrect == Spec => []TypeInv
  BY InitTypeInv, NextTypeInv, PTL DEF Spec

(* The variables of the pipeline keep their types.                         *)
THEOREM TypesHold == Spec => []TypeOK
<1>1. TypeInv => TypeOK
  BY DEF TypeInv
<1> QED BY <1>1, TypeCorrect, PTL

-----------------------------------------------------------------------------
(* Conservation, item by item.                                             *)
ExactlyOneCopy(i) == AtMostOneCopy(i) /\ (InStore(i) \/ InFile(i))

(* A step that changes neither the copies of an item in the stores nor the *)
(* files that hold it keeps it unique.                                     *)
LEMMA Untouched ==
  ASSUME NEW i \in Item, ExactlyOneCopy(i),
         \A s \in Store : stock'[s][i] = stock[s][i],
         \A f \in File : Holds(f, i)' <=> Holds(f, i)
  PROVE  ExactlyOneCopy(i)'
  BY DEF ExactlyOneCopy, AtMostOneCopy, InStore, InFile

(* A step that takes the item out of store s and into file f, or out of    *)
(* file f and into store s, keeps it unique.                               *)
LEMMA StoreToFile ==
  ASSUME TypeInv, NEW i \in Item, NEW s \in Store, NEW f \in File,
         ExactlyOneCopy(i), stock[s][i] > 0,
         \A r \in Store : stock'[r][i] = IF r = s THEN stock[r][i] - 1 ELSE stock[r][i],
         \A g \in File : Holds(g, i)' <=> (Holds(g, i) \/ g = f)
  PROVE  ExactlyOneCopy(i)'
<1>1. \A r \in Store : stock[r][i] \in Nat
  BY DEF TypeInv, TypeOK
<1>2. stock[s][i] = 1 /\ (\A r \in Store : stock'[r][i] = 0) /\ ~InFile(i)
  BY <1>1 DEF ExactlyOneCopy, AtMostOneCopy, InStore, InFile
<1> QED BY <1>2 DEF ExactlyOneCopy, AtMostOneCopy, InStore, InFile

(* An item that was in one file only, and is put into one store as the     *)
(* file is given up, exists once.                                          *)
LEMMA FileToStore ==
  ASSUME TypeInv, NEW i \in Item, NEW s \in Store, NEW f \in File,
         ExactlyOneCopy(i), Holds(f, i),
         \A r \in Store : stock'[r][i] = IF r = s THEN stock[r][i] + 1 ELSE stock[r][i],
         \A g \in File : Holds(g, i)' <=> (Holds(g, i) /\ g # f)
  PROVE  ExactlyOneCopy(i)'
<1>1. \A r \in Store : stock[r][i] \in Nat
  BY DEF TypeInv, TypeOK
<1>2. (\A r \in Store : stock[r][i] = 0) /\ \A g \in File : ~Holds(g, i)'
  BY <1>1 DEF ExactlyOneCopy, AtMostOneCopy, InStore, InFile
<1>3. \A r \in Store : stock'[r][i] = IF r = s THEN 1 ELSE 0
  BY <1>2
<1> QED BY <1>2, <1>3 DEF ExactlyOneCopy, AtMostOneCopy, InStore, InFile

(* At first each item is in one store and in no file.                      *)
LEMMA InitConservation == Init => Conservation
<1> SUFFICES ASSUME Init, NEW i \in Item PROVE ExactlyOneCopy(i)
  BY DEF Conservation, ExactlyOneCopy
<1>1. PICK home \in [Item -> Mode] :
        stock = [s \in Store |-> [j \in Item |-> IF home[j] = s THEN 1 ELSE 0]]
  BY DEF Init
<1>2. \A s \in Store : stock[s][i] = IF home[i] = s THEN 1 ELSE 0
  BY <1>1
<1>3. home[i] \in Store /\ stock[home[i]][i] = 1
  BY <1>1, <1>2 DEF Store
<1>4. \A f \in File : ~Holds(f, i)
  BY DEF Init, Holds
<1> QED
  BY <1>2, <1>3, <1>4 DEF ExactlyOneCopy, AtMostOneCopy, InStore, InFile

(* Every action keeps every item it does not damage unique.                *)
LEMMA NextConservation == TypeInv /\ Conservation /\ [Next]_vars => Conservation'
<1> SUFFICES ASSUME TypeInv, Conservation, [Next]_vars, NEW i \in Item, i \notin damaged'
             PROVE  ExactlyOneCopy(i)'
  BY DEF Conservation, ExactlyOneCopy, TypeInv, TypeOK
<1>a. i \notin damaged => ExactlyOneCopy(i)
  BY DEF Conservation, ExactlyOneCopy
<1>b. UNCHANGED <<stock, file, moving, damaged>> => ExactlyOneCopy(i)'
  BY <1>a, Untouched DEF Holds, Consumed
<1>1. ASSUME NEW isActive \in BOOLEAN, SetActive(isActive) PROVE ExactlyOneCopy(i)'
  BY <1>1, <1>b DEF SetActive, drainVars
<1>2. ASSUME NEW t \in Listener, ListenerStep(t) PROVE ExactlyOneCopy(i)'
  BY <1>2, <1>b DEF ListenerStep, ListenerTest, ListenerList, ListenerNoGame,
                    ListenerInsert, ListenerScanned, ListenerThrows, drainVars
<1>3. CASE DrainBegin \/ DrainEnd \/ DrainThrows
  BY <1>3, <1>b DEF DrainBegin, DrainEnd, DrainThrows
<1>4. CASE DrainItem
  <2>1. moving = None /\ UNCHANGED <<file, damaged>> /\ ExactlyOneCopy(i)
    BY <1>4, <1>a DEF DrainItem
  <2>2. PICK f \in todo : Added(f) \/ Rejected(f) \/ Invalid(f)
    BY <1>4 DEF DrainItem
  <2>3. f \in File
    BY DEF TypeInv, TypeOK
  <2>4. CASE Rejected(f) \/ Invalid(f)
    BY <2>1, <2>4, Untouched DEF Rejected, Invalid, Holds, Consumed
  <2>5. CASE Added(f)
    <3>1. Consumed(f)' /\ \A g \in File : g # f => ~Consumed(g)'
      <4>1. moving' = [path |-> f, to |-> "deleted", added |-> TRUE]
        BY <2>5 DEF Added
      <4>2. moving' \in MoveOp
        BY <2>3, <4>1 DEF MoveOp
      <4> QED BY <4>1, <4>2, ConstantsAssumption DEF Consumed
    <3>2. mode \in Store /\ file[f].item \in Item
      BY <2>3, <2>5 DEF Added, Readable, InOutgoing, TypeInv, TypeOK, Store, FileState
    <3>3. \A r \in Store, j \in Item :
            stock'[r][j] = IF r = mode /\ j = file[f].item THEN stock[r][j] + 1
                                                           ELSE stock[r][j]
      BY <2>5, <3>2 DEF Added, TypeInv, TypeOK
    <3>4. CASE file[f].item = i
      <4>1. Holds(f, i)
        BY <2>1, <2>5, <3>4 DEF Added, Readable, InOutgoing, Holds, Consumed
      <4>2. \A g \in File : Holds(g, i)' <=> (Holds(g, i) /\ g # f)
        BY <2>1, <3>1 DEF Holds, Consumed
      <4> QED BY <2>1, <2>3, <3>2, <3>3, <3>4, <4>1, <4>2, FileToStore
    <3>5. CASE file[f].item # i
      <4>1. \A g \in File : Holds(g, i)' <=> Holds(g, i)
        BY <2>1, <3>1, <3>5 DEF Holds, Consumed
      <4> QED BY <2>1, <3>3, <3>5, <4>1, Untouched
    <3> QED BY <3>4, <3>5
  <2> QED BY <2>2, <2>4, <2>5
<1>5. CASE DrainMove
  <2>1. moving # None /\ moving.path \in File /\ moving' = None /\ UNCHANGED stock
    BY <1>5 DEF DrainMove, TypeInv, TypeOK, MoveOp
  <2>f. PICK f \in File : f = moving.path
    BY <2>1
  <2>2. CASE MoveSucceeds
    <3>1. InOutgoing(f) /\ file' = [file EXCEPT ![f].place = moving.to]
      BY <2>2, <2>f DEF MoveSucceeds, Movable
    <3>2. file[f] \in FileState
      BY <2>1, <3>1 DEF InOutgoing, TypeInv, TypeOK
    <3>3. file'[f] # None /\ file'[f].item = file[f].item /\ file'[f].place = moving.to
      BY <2>1, <3>1, <3>2, ConstantsAssumption DEF TypeInv, TypeOK, FileState, MoveOp
    <3>4. \A g \in File : g # f => file'[g] = file[g]
      BY <2>1, <3>1 DEF TypeInv, TypeOK
    <3>5. i \notin damaged /\ (moving.to = "deleted" /\ ~moving.added => file[f].item # i)
      BY <2>2, <2>f DEF MoveSucceeds
    <3>6. moving.added \in BOOLEAN /\ moving.to \in {"ingoing", "deleted"}
      BY <2>1 DEF TypeInv, TypeOK, MoveOp
    <3>7. Holds(f, i)' <=> Holds(f, i)
      <4>1. CASE moving.added
        <5>1. Consumed(f) /\ moving.to = "deleted"
          BY <2>1, <2>f, <4>1 DEF Consumed, TypeInv, MovingOK
        <5> QED BY <3>3, <5>1 DEF Holds
      <4>2. CASE ~moving.added
        <5>1. ~Consumed(f) /\ ~Consumed(f)'
          BY <2>1, <2>f, <4>2 DEF Consumed
        <5> QED BY <3>1, <3>3, <3>5, <3>6, <4>2, <5>1 DEF Holds, InOutgoing
      <4> QED BY <3>6, <4>1, <4>2
    <3>8. \A g \in File : g # f => Holds(g, i)' <=> Holds(g, i)
      BY <2>1, <2>f, <3>4 DEF Holds, Consumed
    <3>9. \A g \in File : Holds(g, i)' <=> Holds(g, i)
      BY <3>7, <3>8
    <3> QED BY <1>a, <2>1, <3>5, <3>9, Untouched
  <2>3. CASE MoveFails
    <3>1. i \notin damaged /\ UNCHANGED file /\ (moving.added => file[f].item # i)
      BY <2>3, <2>f DEF MoveFails
    <3>2. \A g \in File : Holds(g, i)' <=> Holds(g, i)
      BY <2>1, <2>f, <3>1 DEF Holds, Consumed
    <3> QED BY <1>a, <2>1, <3>1, <3>2, Untouched
  <2> QED BY <1>5, <2>2, <2>3 DEF DrainMove
<1>6. ASSUME NEW j \in Item, NEW f \in File, HandleItem(j, f)
      PROVE  ExactlyOneCopy(i)'
  <2>1. moving = None /\ moving' = None /\ file[f] = None /\ mode \in Store
    BY <1>6 DEF HandleItem, Fresh, TypeInv, TypeOK, Store, drainVars
  <2>2. PICK c \in {"whole", "torn"} :
          /\ file' = [file EXCEPT ![f] = [place |-> "ingoing", mode |-> mode,
                                          item |-> j, content |-> c]]
          /\ damaged' = IF c = "torn" THEN damaged \cup {j} ELSE damaged
    BY <1>6 DEF HandleItem
  <2>3. \A r \in Store, k \in Item :
          stock'[r][k] = IF r = mode /\ k = j THEN stock[r][k] - 1 ELSE stock[r][k]
    BY <1>6, <2>1 DEF HandleItem, TypeInv, TypeOK
  <2>4. i \notin damaged /\ ExactlyOneCopy(i)
    BY <1>a, <2>2
  <2>5. \A g \in File : Holds(g, i)' <=> (Holds(g, i) \/ (g = f /\ i = j))
    <3>1. file'[f] \in FileState /\ file'[f].item = j /\ file'[f].place = "ingoing"
      BY <2>2 DEF FileState, TypeInv, TypeOK
    <3>2. \A g \in File : g # f => file'[g] = file[g]
      BY <2>2 DEF TypeInv, TypeOK
    <3> QED BY <2>1, <3>1, <3>2, ConstantsAssumption DEF Holds, Consumed
  <2>6. CASE i = j
    BY <1>6, <2>1, <2>3, <2>4, <2>5, <2>6, StoreToFile DEF HandleItem
  <2>7. CASE i # j
    BY <2>3, <2>4, <2>5, <2>7, Untouched
  <2> QED BY <2>6, <2>7
<1>7. CASE \/ \E isOpen \in BOOLEAN : SetTransferOpen(isOpen)
           \/ \E m \in Mode : GameLoad(m)
           \/ UpdateNotReady \/ GameReady
  BY <1>7, <1>b DEF SetTransferOpen, GameLoad, UpdateNotReady, GameReady, drainVars
<1>8. CASE GameRestart
  <2>1. i \notin damaged /\ \A g \in File : Consumed(g) => file[g].item # i
    BY <1>8 DEF GameRestart, Consumed
  <2>2. \A g \in File : Holds(g, i)' <=> Holds(g, i)
    BY <1>8, <2>1 DEF GameRestart, Holds, Consumed
  <2> QED BY <1>8, <1>a, <2>1, <2>2, Untouched DEF GameRestart
<1>9. ASSUME NEW f \in File, IaImport(f) PROVE ExactlyOneCopy(i)'
  <2> DEFINE j == file[f].item
  <2>1. file[f] # None /\ j \in Item /\ IA \in Store /\ UNCHANGED <<moving, damaged>>
    BY <1>9 DEF IaImport, drainVars, Store, TypeInv, TypeOK, FileState
  <2>2. \A r \in Store, k \in Item :
          stock'[r][k] = IF r = IA /\ k = j THEN stock[r][k] + 1 ELSE stock[r][k]
    BY <1>9, <2>1 DEF IaImport, TypeInv, TypeOK
  <2>3. file'[f] = None /\ \A g \in File : g # f => file'[g] = file[g]
    BY <1>9 DEF IaImport, TypeInv, TypeOK
  <2>4. \A g \in File : Holds(g, i)' <=> (Holds(g, i) /\ g # f)
    BY <2>1, <2>3 DEF Holds, Consumed
  <2>5. Holds(f, j)
    BY <1>9, <2>1 DEF IaImport, Holds, Consumed, TypeInv, MovingOK, InOutgoing
  <2>6. CASE i = j
    BY <1>a, <2>1, <2>2, <2>4, <2>5, <2>6, FileToStore
  <2>7. CASE i # j
    BY <1>a, <2>1, <2>2, <2>4, <2>7, Untouched DEF Holds
  <2> QED BY <2>6, <2>7
<1>10. ASSUME NEW f \in File, IaFinishWrite(f) PROVE ExactlyOneCopy(i)'
  <2>1. file[f] \in FileState /\ file[f] # None /\ UNCHANGED <<stock, moving, damaged>>
    BY <1>10 DEF IaFinishWrite, drainVars, TypeInv, TypeOK
  <2>2. file' = [file EXCEPT ![f].content = "whole"]
    BY <1>10 DEF IaFinishWrite
  <2>3. file'[f] # None /\ file'[f].item = file[f].item /\ file'[f].place = file[f].place
    BY <2>1, <2>2, ConstantsAssumption DEF TypeInv, TypeOK, FileState
  <2>4. \A g \in File : g # f => file'[g] = file[g]
    BY <2>2 DEF TypeInv, TypeOK
  <2>5. \A g \in File : Holds(g, i)' <=> Holds(g, i)
    BY <2>1, <2>3, <2>4 DEF Holds, Consumed
  <2> QED BY <1>a, <2>1, <2>5, Untouched
<1>11. ASSUME NEW f \in File, IaPurge(f) PROVE ExactlyOneCopy(i)'
  <2>1. UNCHANGED <<stock, moving, damaged>> /\ ~Holds(f, i) /\ ~Holds(f, i)'
    BY <1>11 DEF IaPurge, drainVars, Holds, TypeInv, TypeOK
  <2>2. \A g \in File : g # f => file'[g] = file[g]
    BY <1>11 DEF IaPurge, TypeInv, TypeOK
  <2>3. \A g \in File : Holds(g, i)' <=> Holds(g, i)
    BY <2>1, <2>2 DEF Holds, Consumed
  <2> QED BY <1>a, <2>1, <2>3, Untouched
<1>12. ASSUME NEW j \in Item, NEW f \in File, NEW m \in Mode, IaTransfer(j, f, m)
       PROVE  ExactlyOneCopy(i)'
  <2>1. /\ UNCHANGED <<moving, damaged>> /\ file[f] = None /\ IA \in Store
        /\ ~Consumed(f)
    BY <1>12 DEF IaTransfer, Fresh, drainVars, Store, TypeInv, MovingOK,
                 Consumed, InOutgoing
  <2>2. \A r \in Store, k \in Item :
          stock'[r][k] = IF r = IA /\ k = j THEN stock[r][k] - 1 ELSE stock[r][k]
    BY <1>12, <2>1 DEF IaTransfer, TypeInv, TypeOK
  <2>3. file'[f] \in FileState /\ file'[f].item = j /\ file'[f].place = "outgoing"
    BY <1>12 DEF IaTransfer, FileState, TypeInv, TypeOK
  <2>4. \A g \in File : g # f => file'[g] = file[g]
    BY <1>12 DEF IaTransfer, TypeInv, TypeOK
  <2>5. \A g \in File : Holds(g, i)' <=> (Holds(g, i) \/ (g = f /\ i = j))
    BY <2>1, <2>3, <2>4, ConstantsAssumption DEF Holds, Consumed
  <2>6. CASE i = j
    BY <1>12, <1>a, <2>1, <2>2, <2>5, <2>6, StoreToFile DEF IaTransfer
  <2>7. CASE i # j
    BY <1>a, <2>1, <2>2, <2>5, <2>7, Untouched
  <2> QED BY <2>6, <2>7
<1>13. CASE UNCHANGED vars
  BY <1>13, <1>b DEF vars, drainVars
<1>14. ASSUME NEW j \in Item, NEW f \in File, HandleItemThrows(j, f)
       PROVE  ExactlyOneCopy(i)'
  <2>1. /\ file[f] = None /\ UNCHANGED <<stock, moving>> /\ i # j /\ i \notin damaged
        /\ moving = None
    BY <1>14 DEF HandleItemThrows, Fresh, TypeInv, TypeOK, drainVars
  <2>2. file'[f].item = j /\ \A g \in File : g # f => file'[g] = file[g]
    BY <1>14 DEF HandleItemThrows, TypeInv, TypeOK
  <2>3. \A g \in File : Holds(g, i)' <=> Holds(g, i)
    BY <2>1, <2>2 DEF Holds, Consumed
  <2> QED BY <1>a, <2>1, <2>3, Untouched
<1> QED
  BY <1>1, <1>2, <1>3, <1>4, <1>5, <1>6, <1>7, <1>8, <1>9, <1>10, <1>11, <1>12, <1>13, <1>14
  DEF Next, Drain, GameStep, IaStep

(* An item no fault has hit exists exactly once, for every number of       *)
(* items, files, modes and listeners.                                      *)
THEOREM ItemsConserved == Spec => []Conservation
  BY InitConservation, NextConservation, TypeCorrect, PTL DEF Spec

-----------------------------------------------------------------------------
(* A file enters outgoing only under a name nobody refers to, and a file   *)
(* whose move failed is forgotten as such only by leaving outgoing or by a *)
(* restart.                                                                *)
LEMMA OutgoingStep ==
  ASSUME TypeInv, [Next]_vars, NEW f \in File, InOutgoing(f)'
  PROVE  /\ InOutgoing(f) \/ Fresh(f)
         /\ f \in stuck /\ ~GameRestart => f \in stuck'
<1> USE DEF InOutgoing, TypeInv, TypeOK
<1>1. CASE UNCHANGED <<file, stuck>>
  BY <1>1
<1>2. CASE DrainMove
  <2>1. PICK g \in File : g = moving.path
    BY <1>2 DEF DrainMove, MoveOp
  <2>2. CASE MoveSucceeds
    <3>1. /\ file' = [file EXCEPT ![g].place = moving.to]
          /\ stuck' = stuck \ {g} /\ moving.to # "outgoing" /\ file[g] \in FileState
      BY <1>2, <2>1, <2>2 DEF DrainMove, MoveSucceeds, Movable, MoveOp
    <3>2. g # f
      BY <3>1 DEF FileState
    <3> QED BY <3>1, <3>2
  <2>3. CASE MoveFails
    BY <2>3 DEF MoveFails
  <2> QED BY <1>2, <2>2, <2>3 DEF DrainMove
<1>3. ASSUME NEW i \in Item, NEW g \in File, HandleItem(i, g) \/ HandleItemThrows(i, g)
      PROVE  f # g /\ InOutgoing(f) /\ stuck' = stuck
  BY <1>3 DEF HandleItem, HandleItemThrows
<1>4. CASE GameRestart
  BY <1>4 DEF GameRestart
<1>5. ASSUME NEW g \in File, IaImport(g) \/ IaPurge(g)
      PROVE  f # g /\ InOutgoing(f) /\ stuck' = stuck
  BY <1>5 DEF IaImport, IaPurge
<1>6. ASSUME NEW g \in File, IaFinishWrite(g)
      PROVE  InOutgoing(f) /\ stuck' = stuck
  BY <1>6 DEF IaFinishWrite, FileState
<1>7. ASSUME NEW i \in Item, NEW g \in File, NEW m \in Mode, IaTransfer(i, g, m)
      PROVE  (InOutgoing(f) \/ Fresh(f)) /\ stuck' = stuck
  BY <1>7 DEF IaTransfer
<1>8. CASE DrainBegin \/ DrainItem \/ DrainEnd \/ DrainThrows \/ UpdateNotReady \/ GameReady
  BY <1>1, <1>8 DEF DrainBegin, DrainItem, DrainEnd, DrainThrows, UpdateNotReady, GameReady
<1>9. ASSUME \/ \E b \in BOOLEAN : SetActive(b) \/ SetTransferOpen(b)
             \/ \E t \in Listener : ListenerStep(t)
             \/ \E m \in Mode : GameLoad(m)
             \/ UNCHANGED vars
      PROVE  UNCHANGED <<file, stuck>>
  BY <1>9 DEF SetActive, SetTransferOpen, GameLoad, vars, ListenerStep, ListenerTest,
              ListenerList, ListenerNoGame, ListenerInsert, ListenerScanned, ListenerThrows
<1> QED
  BY <1>1, <1>2, <1>3, <1>4, <1>5, <1>6, <1>7, <1>8, <1>9
  DEF Next, Drain, GameStep, IaStep

(* What the loop has walked past is out of outgoing or stuck there.        *)
Handled == draining => \A f \in m_depositQueue \ todo : InOutgoing(f) => f \in stuck

(* Every step keeps Handled and NoForgottenFile.                           *)
LEMMA NextNoForgottenFile ==
  TypeInv /\ Handled /\ NoForgottenFile /\ [Next]_vars => Handled' /\ NoForgottenFile'
<1> SUFFICES ASSUME TypeInv, Handled, NoForgottenFile, [Next]_vars
             PROVE  Handled' /\ NoForgottenFile'
  OBVIOUS
<1> USE DEF Handled, NoForgottenFile, TypeInv, TypeOK
<1>1. CASE GameRestart
  BY <1>1 DEF GameRestart
<1>2. ASSUME ~GameRestart,
             m_depositQueue' = m_depositQueue, todo' = todo, draining' = draining,
             \A t \in Listener : knownFiles'[t] \subseteq knownFiles[t]
      PROVE  Handled' /\ NoForgottenFile'
  <2>1. \A f \in m_depositQueue : InOutgoing(f)' =>
          InOutgoing(f) /\ (f \in stuck => f \in stuck')
    BY <1>2, OutgoingStep DEF Fresh
  <2>2. \A t \in Listener : \A f \in knownFiles'[t] : InOutgoing(f)' =>
          InOutgoing(f) /\ (f \in stuck => f \in stuck')
    BY <1>2, OutgoingStep DEF Fresh
  <2>3. Handled'
    BY <1>2, <2>1
  <2>4. NoForgottenFile'
    BY <1>2, <2>2
  <2> QED BY <2>3, <2>4
<1>3. ASSUME NEW t \in Listener, ListenerStep(t) PROVE Handled' /\ NoForgottenFile'
  <2>1. CASE ListenerInsert(t)
    BY <2>1 DEF ListenerInsert, drainVars, InOutgoing
  <2>2. CASE ListenerTest(t)
    BY <2>2 DEF ListenerTest, drainVars, InOutgoing
  <2>3. CASE ListenerList(t) \/ ListenerNoGame(t) \/ ListenerScanned(t)
    BY <2>3 DEF ListenerList, ListenerNoGame, ListenerScanned, drainVars, InOutgoing
  <2>4. CASE ListenerThrows(t)
    BY <2>4 DEF ListenerThrows, drainVars, InOutgoing
  <2> QED BY <1>3, <2>1, <2>2, <2>3, <2>4 DEF ListenerStep
<1>4. CASE DrainBegin
  BY <1>4 DEF DrainBegin, listenerVars, InOutgoing
<1>5. CASE DrainItem
  BY <1>5 DEF DrainItem, listenerVars, InOutgoing
<1>6. CASE DrainMove
  <2>1. PICK g \in File : g = moving.path /\ moving # None /\ g \in m_depositQueue
    BY <1>6 DEF DrainMove, MoveOp
  <2>2. /\ todo' = todo \ {g} /\ draining' = draining
        /\ UNCHANGED <<m_depositQueue, knownFiles>>
    BY <1>6, <2>1 DEF DrainMove, listenerVars
  <2>3. InOutgoing(g)' => g \in stuck'
    <3>1. CASE MoveSucceeds
      <4>1. /\ file' = [file EXCEPT ![g].place = moving.to]
            /\ moving.to # "outgoing" /\ file[g] \in FileState
        BY <1>6, <2>1, <3>1 DEF DrainMove, MoveSucceeds, Movable, MoveOp, InOutgoing
      <4> QED BY <4>1 DEF InOutgoing, FileState
    <3>2. CASE MoveFails
      BY <2>1, <3>2 DEF MoveFails, InOutgoing
    <3> QED BY <1>6, <3>1, <3>2 DEF DrainMove
  <2>4. \A f \in File : f # g /\ InOutgoing(f)' => InOutgoing(f)
    BY <1>6, <2>1 DEF DrainMove, MoveSucceeds, MoveFails, InOutgoing
  <2>5. \A f \in File : f # g /\ f \in stuck => f \in stuck'
    BY <1>6, <2>1 DEF DrainMove, MoveSucceeds, MoveFails
  <2>6. Handled'
    BY <2>2, <2>3, <2>4, <2>5
  <2>7. NoForgottenFile'
    BY <2>2, <2>3, <2>4, <2>5
  <2> QED BY <2>6, <2>7
<1>7. CASE DrainEnd \/ DrainThrows
  BY <1>7 DEF DrainEnd, DrainThrows, listenerVars, InOutgoing
<1>8. ASSUME ~GameRestart, \/ \E b \in BOOLEAN : SetActive(b)
                           \/ GameStep \/ IaStep \/ UNCHANGED vars
      PROVE  Handled' /\ NoForgottenFile'
  BY <1>2, <1>8
  DEF SetActive, GameStep, HandleItem, HandleItemThrows, SetTransferOpen, GameLoad, UpdateNotReady,
      GameReady, IaStep, IaImport, IaFinishWrite, IaPurge, IaTransfer, vars,
      listenerVars, drainVars
<1> QED
  BY <1>1, <1>3, <1>4, <1>5, <1>6, <1>7, <1>8 DEF Next, Drain

(* No path a listener knows is dropped from the queue unhandled.           *)
THEOREM NothingForgotten == Spec => []NoForgottenFile
<1>1. Init => Handled /\ NoForgottenFile
  BY DEF Init, Handled, NoForgottenFile
<1> QED BY <1>1, NextNoForgottenFile, TypeCorrect, PTL DEF Spec

(* A file keeps the mode it was written for while it is in outgoing.       *)
LEMMA ModeOfFile ==
  ASSUME TypeInv, [Next]_vars, NEW f \in File, InOutgoing(f), InOutgoing(f)'
  PROVE  file'[f].mode = file[f].mode
<1> USE DEF InOutgoing, TypeInv, TypeOK
<1>1. CASE UNCHANGED file
  BY <1>1
<1>2. CASE DrainMove
  <2>1. CASE MoveSucceeds
    <3>1. file' = [file EXCEPT ![moving.path].place = moving.to] /\ file[f] \in FileState
      BY <2>1 DEF MoveSucceeds
    <3> QED BY <3>1 DEF FileState
  <2> QED BY <1>2, <2>1 DEF DrainMove, MoveFails
<1>3. ASSUME NEW i \in Item, NEW g \in File, NEW m \in Mode,
             HandleItem(i, g) \/ HandleItemThrows(i, g) \/ IaTransfer(i, g, m)
      PROVE  file'[f].mode = file[f].mode
  <2>1. f # g
    BY <1>3 DEF HandleItem, HandleItemThrows, IaTransfer, Fresh
  <2> QED BY <1>3, <2>1 DEF HandleItem, HandleItemThrows, IaTransfer
<1>4. ASSUME NEW g \in File, IaImport(g) \/ IaPurge(g) \/ IaFinishWrite(g)
      PROVE  file'[f].mode = file[f].mode
  BY <1>4 DEF IaImport, IaPurge, IaFinishWrite, FileState
<1>5. ASSUME \/ \E b \in BOOLEAN : SetActive(b) \/ SetTransferOpen(b)
             \/ \E t \in Listener : ListenerStep(t)
             \/ \E m \in Mode : GameLoad(m)
             \/ DrainBegin \/ DrainItem \/ DrainEnd \/ DrainThrows
             \/ UpdateNotReady \/ GameReady \/ GameRestart \/ UNCHANGED vars
      PROVE  UNCHANGED file
  BY <1>5 DEF SetActive, SetTransferOpen, GameLoad, DrainBegin, DrainItem, DrainEnd,
              DrainThrows, UpdateNotReady, GameReady, GameRestart, vars, ListenerStep,
              ListenerTest, ListenerList, ListenerNoGame, ListenerInsert,
              ListenerScanned, ListenerThrows
<1>6. \E m \in Mode : TRUE
  OBVIOUS
<1> QED
  BY <1>1, <1>2, <1>3, <1>4, <1>5, <1>6 DEF Next, Drain, GameStep, IaStep

(* What is listed and what is queued is for the mode being played.         *)
Here(f) == InOutgoing(f) => file[f].mode = mode

QueuedHere == /\ \A f \in m_depositQueue : Here(f)
              /\ \A t \in Listener : \A f \in found[t] : Here(f)

(* This is so as long as the player stays in one mode.                     *)
LEMMA NextQueuedHere ==
  ASSUME TypeInv, QueuedHere, [Next]_vars, mode' = mode
  PROVE  QueuedHere'
<1> USE DEF TypeInv, TypeOK
<1>1. ASSUME NEW f \in File, Here(f), ~Fresh(f) PROVE Here(f)'
  <2> SUFFICES ASSUME InOutgoing(f)' PROVE file'[f].mode = mode'
    BY DEF Here
  <2>1. InOutgoing(f)
    BY <1>1, OutgoingStep
  <2> QED BY <1>1, <2>1, ModeOfFile DEF Here
<1>2. /\ \A f \in m_depositQueue : Here(f)'
      /\ \A t \in Listener : \A f \in found[t] : Here(f)'
  BY <1>1 DEF QueuedHere, Fresh
<1>3. ASSUME m_depositQueue' \subseteq m_depositQueue,
             \A t \in Listener : found'[t] \subseteq found[t]
      PROVE  QueuedHere'
  BY <1>2, <1>3 DEF QueuedHere
<1>4. ASSUME NEW t \in Listener, ListenerInsert(t) PROVE QueuedHere'
  BY <1>2, <1>4 DEF QueuedHere, ListenerInsert
<1>5. ASSUME NEW t \in Listener, ListenerList(t) PROVE QueuedHere'
  <2>1. \A f \in found'[t] : Here(f)'
    BY <1>5 DEF ListenerList, Here, InOutgoing, gameVars
  <2>2. \A u \in Listener \ {t} : found'[u] = found[u]
    BY <1>5 DEF ListenerList
  <2>3. m_depositQueue' = m_depositQueue
    BY <1>5 DEF ListenerList
  <2> QED BY <1>2, <2>1, <2>2, <2>3 DEF QueuedHere
<1>6. ASSUME NEW t \in Listener,
             ListenerTest(t) \/ ListenerNoGame(t) \/ ListenerScanned(t) \/ ListenerThrows(t)
      PROVE  QueuedHere'
  BY <1>3, <1>6 DEF ListenerTest, ListenerNoGame, ListenerScanned, ListenerThrows
<1>7. CASE Drain
  BY <1>3, <1>7 DEF Drain, DrainBegin, DrainItem, DrainMove, DrainEnd, DrainThrows,
                    listenerVars
<1>8. CASE GameStep
  BY <1>3, <1>8 DEF GameStep, HandleItem, HandleItemThrows, SetTransferOpen, GameLoad,
                    UpdateNotReady, GameReady, GameRestart, listenerVars
<1>9. CASE IaStep \/ (\E b \in BOOLEAN : SetActive(b)) \/ UNCHANGED vars
  BY <1>3, <1>9 DEF IaStep, IaImport, IaFinishWrite, IaPurge, IaTransfer, SetActive, vars,
                    listenerVars
<1> QED BY <1>4, <1>5, <1>6, <1>7, <1>8, <1>9 DEF Next, ListenerStep

(* A player who stays in one mode gets every item in the stash of the mode *)
(* whose outgoing folder its file was in, restarts included: only changing *)
(* the character between the listing and the deposit can lead to another.  *)
THEOREM OneModeDepositsWell == Spec /\ [][mode' = mode]_vars => DepositsIntoItsMode
<1>1. Init => QueuedHere
  BY DEF Init, QueuedHere
<1>2. TypeInv /\ QueuedHere /\ [Next]_vars /\ [mode' = mode]_vars => QueuedHere'
  <2>1. [mode' = mode]_vars => mode' = mode
    BY DEF vars, gameVars
  <2> QED BY <2>1, NextQueuedHere
<1>3. TypeInv /\ QueuedHere /\ [Next]_vars =>
        [\A f \in File : ~Consumed(f) /\ Consumed(f)' => file[f].mode = mode]_vars
  <2> SUFFICES ASSUME TypeInv, QueuedHere, [Next]_vars,
                      NEW f \in File, ~Consumed(f), Consumed(f)'
               PROVE  file[f].mode = mode
    OBVIOUS
  <2>1. moving' # moving /\ moving' # None
    BY DEF Consumed
  <2>2. DrainItem
    BY <2>1
    DEF Next, SetActive, ListenerStep, ListenerTest, ListenerList, ListenerNoGame,
        ListenerInsert, ListenerScanned, ListenerThrows, Drain, DrainBegin, DrainMove,
        DrainEnd, DrainThrows, GameStep, HandleItem, HandleItemThrows, SetTransferOpen,
        GameLoad, UpdateNotReady, GameReady, GameRestart, IaStep, IaImport, IaFinishWrite,
        IaPurge, IaTransfer, vars, drainVars
  <2>3. PICK g \in todo : Added(g) \/ Rejected(g) \/ Invalid(g)
    BY <2>2 DEF DrainItem
  <2>4. g = f /\ Readable(f)
    BY <2>3 DEF Added, Rejected, Invalid, Consumed
  <2> QED BY <2>3, <2>4 DEF QueuedHere, Here, Readable, TypeInv, TypeOK
<1> QED BY <1>1, <1>2, <1>3, TypeCorrect, PTL DEF Spec, DepositsIntoItsMode

(* Where MoveFile only fails for a reason that lasts, no file stays behind *)
(* in outgoing: a path that cannot be moved is one that is gone.           *)
NoOpenFile == /\ stuck = {}
              /\ \A f \in File : file[f] # None => file[f].content # "open"

(* What a listener knows and still sees is then in the queue, between any  *)
(* two steps: clearing the whole queue after a pass forgets no file.       *)
THEOREM KnownFilesAreQueued ==
  ASSUME Faults \cap {"move", "partial"} = {}
  PROVE  Spec => [](\A t \in Listener : \A f \in knownFiles[t] :
                      InOutgoing(f) => f \in m_depositQueue)
<1>1. Init => NoOpenFile
  BY DEF Init, NoOpenFile
<1>2. TypeInv /\ NoOpenFile /\ [Next]_vars => NoOpenFile'
  <2> SUFFICES ASSUME TypeInv, NoOpenFile, [Next]_vars PROVE NoOpenFile'
    OBVIOUS
  <2> USE DEF NoOpenFile, TypeInv, TypeOK
  <2>1. CASE DrainMove
    <3>1. CASE MoveSucceeds
      <4>1. /\ stuck' = {}
            /\ file' = [file EXCEPT ![moving.path].place = moving.to]
        BY <3>1 DEF MoveSucceeds
      <4>2. \A f \in File : file'[f] # None => file[f] # None /\ file'[f].content = file[f].content
        <5>1. moving.path \in File /\ file[moving.path] # None
          BY <2>1, <3>1 DEF DrainMove, MoveSucceeds, Movable, InOutgoing, MoveOp
        <5>2. file[moving.path] \in FileState
          BY <5>1
        <5> QED BY <4>1, <5>1, <5>2 DEF FileState
      <4> QED BY <4>1, <4>2
    <3>2. CASE MoveFails
      <4>1. ~InOutgoing(moving.path)
        BY <2>1, <3>2 DEF DrainMove, MoveFails, Movable, MoveOp, InOutgoing
      <4> QED BY <3>2, <4>1 DEF MoveFails
    <3> QED BY <2>1, <3>1, <3>2 DEF DrainMove
  <2>2. ASSUME NEW i \in Item, NEW g \in File, NEW m \in Mode,
               HandleItem(i, g) \/ HandleItemThrows(i, g) \/ IaTransfer(i, g, m)
        PROVE  NoOpenFile'
    BY <2>2 DEF HandleItem, HandleItemThrows, IaTransfer
  <2>3. ASSUME NEW g \in File, IaImport(g) \/ IaPurge(g) \/ IaFinishWrite(g)
        PROVE  NoOpenFile'
    BY <2>3 DEF IaImport, IaPurge, IaFinishWrite
  <2>4. ASSUME \/ \E b \in BOOLEAN : SetActive(b) \/ SetTransferOpen(b)
               \/ \E t \in Listener : ListenerStep(t)
               \/ \E m \in Mode : GameLoad(m)
               \/ DrainBegin \/ DrainItem \/ DrainEnd \/ DrainThrows
               \/ UpdateNotReady \/ GameReady \/ UNCHANGED vars
        PROVE  NoOpenFile'
    BY <2>4 DEF SetActive, SetTransferOpen, GameLoad, DrainBegin, DrainItem, DrainEnd,
                DrainThrows, UpdateNotReady, GameReady, vars, ListenerStep,
                ListenerTest, ListenerList, ListenerNoGame, ListenerInsert,
                ListenerScanned, ListenerThrows
  <2>5. CASE GameRestart
    BY <2>5 DEF GameRestart
  <2>6. \E m \in Mode : TRUE
    OBVIOUS
  <2> QED
    BY <2>1, <2>2, <2>3, <2>4, <2>5, <2>6 DEF Next, Drain, GameStep, IaStep
<1>3. NoOpenFile /\ NoForgottenFile =>
        \A t \in Listener : \A f \in knownFiles[t] : InOutgoing(f) => f \in m_depositQueue
  BY DEF NoOpenFile, NoForgottenFile
<1> QED BY <1>1, <1>2, <1>3, TypeCorrect, NothingForgotten, PTL DEF Spec

(* While no listing throws, an active instaloot has a listener: one that   *)
(* leaves its loop has seen m_isActive false, and SetActive starts another *)
(* when it sets it again.                                                  *)
LEMMA NextActiveHasListener ==
  ASSUME "listing" \notin Faults, TypeInv, ActiveHasListener, [Next]_vars
  PROVE  ActiveHasListener'
<1> USE DEF ActiveHasListener, TypeInv, TypeOK
<1>1. ASSUME NEW isActive \in BOOLEAN, SetActive(isActive) PROVE ActiveHasListener'
  BY <1>1 DEF SetActive
<1>2. ASSUME NEW t \in Listener, ListenerStep(t) PROVE ActiveHasListener'
  BY <1>2 DEF ListenerStep, ListenerTest, ListenerList, ListenerNoGame, ListenerInsert,
              ListenerScanned, ListenerThrows
<1>3. CASE Drain \/ IaStep \/ UNCHANGED vars
  BY <1>3 DEF Drain, DrainBegin, DrainItem, DrainMove, DrainEnd, DrainThrows, IaStep,
              IaImport, IaTransfer, IaFinishWrite, IaPurge, vars, listenerVars
<1>4. CASE GameStep
  BY <1>4 DEF GameStep, HandleItem, HandleItemThrows, SetTransferOpen, GameLoad,
              UpdateNotReady, GameReady, GameRestart, listenerVars
<1> QED BY <1>1, <1>2, <1>3, <1>4 DEF Next

(* Unless a listing throws, files are looked for whenever instaloot is     *)
(* active, however often SetActive switches it.                            *)
THEOREM AListenerRuns == ASSUME "listing" \notin Faults
                         PROVE  Spec => []ActiveHasListener
<1>1. Init => ActiveHasListener
  BY DEF Init, ActiveHasListener
<1>2. TypeInv /\ ActiveHasListener /\ [Next]_vars => ActiveHasListener'
  BY NextActiveHasListener
<1> QED BY <1>1, <1>2, TypeCorrect, PTL DEF Spec

-----------------------------------------------------------------------------
(* When nothing fails but listings, every CSV is complete as soon as it is *)
(* visible, and a file the loop gives up on has left outgoing already: a   *)
(* listener queued its path from a listing that was out of date.           *)
OnlyListingsFail == Faults \subseteq {"listing"}

FaultFree ==
  /\ damaged = {}
  /\ \A f \in File : file[f] # None => file[f].content = "whole"
  /\ moving # None /\ moving.to = "deleted" /\ ~moving.added =>
       ~InOutgoing(moving.path)

(* Then every step keeps the files whole and the entry being moved fresh.  *)
LEMMA NextFaultFree ==
  ASSUME OnlyListingsFail, TypeInv, FaultFree, [Next]_vars
  PROVE  FaultFree'
<1> USE DEF OnlyListingsFail, FaultFree, TypeInv, TypeOK
<1>a. ASSUME ~GameRestart, moving' = moving, damaged' = damaged,
             \A f \in File : file'[f] # None => file'[f].content = "whole"
      PROVE  FaultFree'
  <2>1. ASSUME moving # None, InOutgoing(moving.path)' PROVE InOutgoing(moving.path)
    <3>1. PICK f \in File : f = moving.path /\ f \in m_depositQueue
      BY <2>1 DEF MoveOp
    <3>2. InOutgoing(f)'
      BY <1>a, <2>1, <3>1 DEF InOutgoing
    <3> QED BY <3>1, <3>2, OutgoingStep DEF Fresh
  <2> QED BY <1>a, <2>1 DEF InOutgoing
<1>1. CASE DrainItem
  <2>1. PICK f \in todo : Added(f) \/ Rejected(f) \/ Invalid(f)
    BY <1>1 DEF DrainItem
  <2>2. f \in File /\ file' = file /\ damaged' = damaged
    BY <1>1 DEF DrainItem
  <2>3. CASE Added(f) \/ Rejected(f)
    BY <2>2, <2>3 DEF Added, Rejected
  <2>4. CASE Invalid(f)
    <3>1. ~InOutgoing(f) /\ moving' = [path |-> f, to |-> "deleted", added |-> FALSE]
      BY <2>2, <2>4 DEF Invalid, Readable, InOutgoing
    <3> QED BY <2>2, <3>1 DEF InOutgoing
  <2> QED BY <2>1, <2>3, <2>4
<1>2. CASE DrainMove
  <2>1. moving # None /\ moving.path \in File /\ moving.added \in BOOLEAN /\ moving' = None
    BY <1>2 DEF DrainMove, MoveOp
  <2>2. CASE MoveSucceeds
    <3>1. InOutgoing(moving.path) /\ damaged' = damaged
      BY <2>1, <2>2 DEF MoveSucceeds, Movable
    <3>2. /\ file' = [file EXCEPT ![moving.path].place = moving.to]
          /\ file[moving.path] \in FileState
      BY <2>1, <2>2, <3>1 DEF MoveSucceeds, InOutgoing
    <3>3. \A f \in File : file'[f] # None => file'[f].content = "whole"
      <4>1. \A f \in File : f # moving.path => file'[f] = file[f]
        BY <2>1, <3>2
      <4>2. file'[moving.path].content = file[moving.path].content
        BY <2>1, <3>2 DEF FileState
      <4> QED BY <2>1, <3>1, <4>1, <4>2 DEF InOutgoing
    <3> QED BY <2>1, <3>1, <3>3
  <2>3. CASE MoveFails
    <3>1. ~Movable(moving.path) /\ file' = file
      BY <2>3 DEF MoveFails
    <3>2. ~moving.added
      BY <2>1, <3>1 DEF Movable, MovingOK, InOutgoing
    <3> QED BY <2>1, <2>3, <3>1, <3>2 DEF MoveFails
  <2> QED BY <1>2, <2>2, <2>3 DEF DrainMove
<1>3. CASE GameRestart
  BY <1>3 DEF GameRestart
<1>4. ASSUME ~GameRestart, NEW i \in Item, NEW f \in File, HandleItem(i, f) PROVE FaultFree'
  <2>1. PICK content \in {"whole"} :
          /\ file' = [file EXCEPT ![f] = [place |-> "ingoing", mode |-> mode,
                                          item |-> i, content |-> content]]
          /\ damaged' = IF content = "torn" THEN damaged \cup {i} ELSE damaged
    BY <1>4 DEF HandleItem
  <2>2. damaged' = damaged /\ moving' = moving
    BY <1>4, <2>1 DEF HandleItem, drainVars
  <2> QED BY <1>a, <1>4, <2>1, <2>2
<1>5. ASSUME ~GameRestart, NEW f \in File, IaImport(f) \/ IaFinishWrite(f) \/ IaPurge(f)
      PROVE  FaultFree'
  BY <1>a, <1>5 DEF IaImport, IaFinishWrite, IaPurge, FileState, drainVars
<1>6. ASSUME ~GameRestart, NEW i \in Item, NEW f \in File, NEW m \in Mode, IaTransfer(i, f, m)
      PROVE  FaultFree'
  BY <1>a, <1>6 DEF IaTransfer, drainVars
<1>7. ASSUME ~GameRestart,
             \/ \E b \in BOOLEAN : SetActive(b) \/ SetTransferOpen(b)
             \/ \E t \in Listener : ListenerStep(t)
             \/ \E m \in Mode : GameLoad(m)
             \/ DrainBegin \/ DrainEnd \/ UpdateNotReady \/ GameReady
             \/ UNCHANGED vars
      PROVE  FaultFree'
  <2>1. UNCHANGED <<file, moving, damaged>>
    BY <1>7 DEF SetActive, SetTransferOpen, GameLoad, DrainBegin, DrainEnd,
                UpdateNotReady, GameReady, vars, drainVars, ListenerStep, ListenerTest,
                ListenerList, ListenerNoGame, ListenerInsert, ListenerScanned, ListenerThrows
  <2> QED BY <1>a, <1>7, <2>1
<1> QED
  BY <1>1, <1>2, <1>3, <1>4, <1>5, <1>6, <1>7
  DEF Next, Drain, DrainThrows, GameStep, HandleItemThrows, IaStep

(* When nothing fails but listings no item is damaged, so that, with       *)
(* Conservation, every item exists exactly once.                           *)
THEOREM NoFaultNoDamage == ASSUME Faults \subseteq {"listing"} PROVE Spec => []NoDamage
<1> USE DEF OnlyListingsFail
<1>1. Init => FaultFree
  BY DEF Init, FaultFree
<1>2. TypeInv /\ FaultFree /\ [Next]_vars => FaultFree'
  BY NextFaultFree
<1>3. FaultFree => NoDamage
  BY DEF FaultFree, NoDamage
<1> QED BY <1>1, <1>2, <1>3, TypeCorrect, PTL DEF Spec

-----------------------------------------------------------------------------
(* Refinement.  The custodian of an item that exists once is where it is.  *)
HolderFacts ==
  \A i \in Item : ExactlyOneCopy(i) =>
    /\ \A m \in Mode : stock[m][i] > 0 => HolderOf(i) = "game"
    /\ stock[IA][i] > 0 => HolderOf(i) = "ia"
    /\ \A f \in File : Holds(f, i) => HolderOf(i) = file[f].place

(* HolderOf says where the only copy of an item is.                        *)
LEMMA HolderIsWhereItIs == TypeInv => HolderFacts
<1> SUFFICES ASSUME TypeInv, NEW i \in Item, ExactlyOneCopy(i)
             PROVE  /\ \A m \in Mode : stock[m][i] > 0 => HolderOf(i) = "game"
                    /\ stock[IA][i] > 0 => HolderOf(i) = "ia"
                    /\ \A f \in File : Holds(f, i) => HolderOf(i) = file[f].place
  BY DEF HolderFacts
<1>1. IA \in Store /\ IA \notin Mode /\ Mode \subseteq Store
  BY ConstantsAssumption DEF Store
<1>2. \A m \in Mode : stock[m][i] > 0 => HolderOf(i) = "game"
  BY DEF HolderOf
<1>3. stock[IA][i] > 0 => HolderOf(i) = "ia"
  BY <1>1 DEF HolderOf, ExactlyOneCopy, AtMostOneCopy
<1>4. ASSUME NEW f \in File, Holds(f, i) PROVE HolderOf(i) = file[f].place
  <2>1. \A g \in File : Holds(g, i) => g = f
    BY <1>4 DEF ExactlyOneCopy, AtMostOneCopy
  <2>2. \A s \in Store : ~(stock[s][i] > 0)
    BY <1>4 DEF ExactlyOneCopy, AtMostOneCopy, InStore, InFile
  <2>3. file[f].place \in {"ingoing", "outgoing"}
    BY <1>4 DEF Holds
  <2> QED BY <1>1, <1>4, <2>1, <2>2, <2>3 DEF HolderOf
<1> QED BY <1>2, <1>3, <1>4

(* An item that stays where it is keeps its holder.                        *)
LEMMA SameHolder ==
  ASSUME NEW i \in Item,
         \A s \in Store : stock'[s][i] = stock[s][i],
         \A f \in File : Holds(f, i)' <=> Holds(f, i),
         \A f \in File : Holds(f, i) => file'[f].place = file[f].place
  PROVE  HolderOf(i)' = HolderOf(i)
  BY DEF HolderOf, Store

(* What a step of the pipeline is to the custody specification.            *)
CustodyStep == [Custody!Next]_[i \in Item |-> Custodian(i)]

(* A step of the pipeline concerns at most one item, which is handed over, *)
(* stays where it is, or is damaged.  The form in which actions show it.   *)
LEMMA OneItem ==
  ASSUME NEW i \in Item,
         damaged' = damaged \/ (~OnlyListingsFail /\ damaged' = damaged \cup {i}),
         i \notin damaged' =>
           HolderOf(i)' = HolderOf(i) \/ <<HolderOf(i), HolderOf(i)'>> \in Custody!HandOver,
         \A j \in Item : j # i => HolderOf(j)' = HolderOf(j)
  PROVE  CustodyStep
<1> DEFINE h == [j \in Item |-> Custodian(j)]
<1>1. \A j \in Item : j # i => Custodian(j)' = Custodian(j)
  BY DEF Custodian
<1>2. CASE Custodian(i)' = Custodian(i)
  BY <1>1, <1>2 DEF CustodyStep
<1>3. CASE Custodian(i)' # Custodian(i) /\ damaged' = damaged
  <2>1. /\ Custodian(i) = HolderOf(i) /\ Custodian(i)' = HolderOf(i)'
        /\ <<HolderOf(i), HolderOf(i)'>> \in Custody!HandOver
    BY <1>3 DEF Custodian
  <2>2. PICK edge \in Custody!HandOver : edge = <<Custodian(i), Custodian(i)'>>
    BY <2>1
  <2>3. h' = [h EXCEPT ![i] = edge[2]] /\ h[i] = edge[1]
    BY <1>1, <2>2
  <2>4. Custody!Move(i, edge[1], edge[2])
    BY <2>3 DEF Custody!Move
  <2> QED BY <2>2, <2>4 DEF CustodyStep, Custody!Next
<1>4. CASE Custodian(i)' # Custodian(i) /\ damaged' # damaged
  <2>1. Faults \ {"listing"} # {} /\ i \notin damaged /\ Custodian(i)' = "damaged"
    BY <1>4 DEF OnlyListingsFail, Custodian
  <2>2. Custodian(i) \in Custody!Party
    BY <2>1 DEF Custodian, HolderOf, Custody!Party
  <2>3. h' = [h EXCEPT ![i] = "damaged"] /\ h[i] \in Custody!Party
    BY <1>1, <2>1, <2>2
  <2>4. Custody!Damage(i)
    BY <2>1, <2>3 DEF Custody!Damage
  <2> QED BY <2>4 DEF CustodyStep, Custody!Next
<1> QED BY <1>2, <1>3, <1>4

(* What every reachable state satisfies, as the steps below use it.        *)
CustodyInv == TypeInv /\ Conservation /\ HolderFacts

(* An item that no fault has hit exists once.                              *)
LEMMA UndamagedOnce ==
  CustodyInv => \A i \in Item : i \notin damaged => ExactlyOneCopy(i)
  BY DEF CustodyInv, Conservation, ExactlyOneCopy

(* A step that moves no item leaves all holders as they are.               *)
LEMMA NothingMoves ==
  ASSUME UNCHANGED damaged, \A i \in Item : HolderOf(i)' = HolderOf(i)
  PROVE  CustodyStep
  BY DEF CustodyStep, Custodian

(* HandleItem takes an item from the game into ingoing, or tears its CSV.  *)
LEMMA HandleItemKeepsCustody ==
  ASSUME CustodyInv, CustodyInv', NEW j \in Item, NEW f \in File, HandleItem(j, f)
  PROVE  CustodyStep
<1> USE DEF CustodyInv
<1>1. moving = None /\ moving' = None /\ file[f] = None /\ mode \in Store /\ mode \in Mode
  BY DEF HandleItem, Fresh, TypeInv, TypeOK, drainVars, Store
<1>2. PICK c \in {"whole", "torn"} :
        /\ file' = [file EXCEPT ![f] = [place |-> "ingoing", mode |-> mode,
                                        item |-> j, content |-> c]]
        /\ damaged' = IF c = "torn" THEN damaged \cup {j} ELSE damaged
        /\ c = "torn" => ~OnlyListingsFail
  BY DEF HandleItem, OnlyListingsFail
<1>3. /\ file'[f].item = j /\ file'[f].place = "ingoing" /\ file'[f] \in FileState
      /\ \A g \in File : g # f => file'[g] = file[g]
  BY <1>2, <1>1 DEF TypeInv, TypeOK, FileState
<1>4. \A r \in Store, k \in Item :
        stock'[r][k] = IF r = mode /\ k = j THEN stock[r][k] - 1 ELSE stock[r][k]
  BY <1>1 DEF HandleItem, TypeInv, TypeOK
<1>5. ASSUME j \notin damaged' PROVE <<HolderOf(j), HolderOf(j)'>> \in Custody!HandOver
  <2>1. ExactlyOneCopy(j) /\ ExactlyOneCopy(j)'
    BY <1>2, <1>5, UndamagedOnce DEF Conservation, ExactlyOneCopy
  <2>2. Holds(f, j)'
    BY <1>1, <1>3, ConstantsAssumption DEF Holds, Consumed
  <2>3. HolderOf(j) = "game"
    BY <1>1, <2>1 DEF HandleItem, HolderFacts
  <2>4. HolderOf(j)' = "ingoing"
    BY <1>3, <2>1, <2>2 DEF HolderFacts
  <2> QED BY <2>3, <2>4 DEF Custody!HandOver
<1>6. ASSUME NEW k \in Item, k # j PROVE HolderOf(k)' = HolderOf(k)
  <2>1. \A g \in File : Holds(g, k)' <=> Holds(g, k)
    BY <1>1, <1>3, <1>6 DEF Holds, Consumed
  <2>2. \A g \in File : Holds(g, k) => file'[g].place = file[g].place
    BY <1>1, <1>3 DEF Holds
  <2> QED BY <1>4, <1>6, <2>1, <2>2, SameHolder
<1> QED BY <1>2, <1>5, <1>6, OneItem

(* A Persist that throws leaves the item in the game and in a CSV as well. *)
LEMMA HandleItemThrowsKeepsCustody ==
  ASSUME CustodyInv, NEW j \in Item, NEW f \in File, HandleItemThrows(j, f)
  PROVE  CustodyStep
<1> USE DEF CustodyInv
<1>1. moving = None /\ moving' = None /\ file[f] = None /\ UNCHANGED stock
  BY DEF HandleItemThrows, Fresh, TypeInv, TypeOK, drainVars
<1>2. /\ file'[f].item = j /\ \A g \in File : g # f => file'[g] = file[g]
      /\ damaged' = damaged \cup {j} /\ ~OnlyListingsFail
  BY DEF HandleItemThrows, OnlyListingsFail, TypeInv, TypeOK
<1>3. ASSUME NEW k \in Item, k # j PROVE HolderOf(k)' = HolderOf(k)
  <2>1. \A g \in File : Holds(g, k)' <=> Holds(g, k)
    BY <1>1, <1>2, <1>3 DEF Holds, Consumed
  <2>2. \A g \in File : Holds(g, k) => file'[g].place = file[g].place
    BY <1>1, <1>2 DEF Holds
  <2> QED BY <1>1, <2>1, <2>2, SameHolder
<1> QED BY <1>2, <1>3, OneItem

(* Item Assistant imports an item.                                         *)
LEMMA ImportKeepsCustody ==
  ASSUME CustodyInv, CustodyInv', NEW f \in File, IaImport(f)
  PROVE  CustodyStep
<1> USE DEF CustodyInv
<1>1. PICK j \in Item : j = file[f].item
  BY DEF IaImport, TypeInv, TypeOK, FileState
<1>2. /\ file[f] # None /\ file[f].place = "ingoing" /\ Holds(f, j)
      /\ moving' = moving /\ damaged' = damaged /\ IA \in Store
  BY <1>1 DEF IaImport, Holds, Consumed, TypeInv, MovingOK, InOutgoing, drainVars, Store
<1>3. \A r \in Store, k \in Item :
        stock'[r][k] = IF r = IA /\ k = j THEN stock[r][k] + 1 ELSE stock[r][k]
  BY <1>1, <1>2 DEF IaImport, TypeInv, TypeOK
<1>4. file'[f] = None /\ \A g \in File : g # f => file'[g] = file[g]
  BY DEF IaImport, TypeInv, TypeOK
<1>5. ASSUME j \notin damaged' PROVE <<HolderOf(j), HolderOf(j)'>> \in Custody!HandOver
  <2>1. ExactlyOneCopy(j) /\ ExactlyOneCopy(j)'
    BY <1>2, <1>5, UndamagedOnce DEF Conservation, ExactlyOneCopy
  <2>2. HolderOf(j) = "ingoing"
    BY <1>2, <2>1 DEF HolderFacts
  <2>3. stock'[IA][j] > 0
    BY <1>2, <1>3 DEF TypeInv, TypeOK
  <2>4. HolderOf(j)' = "ia"
    BY <2>1, <2>3 DEF HolderFacts
  <2> QED BY <2>2, <2>4 DEF Custody!HandOver
<1>6. ASSUME NEW k \in Item, k # j PROVE HolderOf(k)' = HolderOf(k)
  <2>1. \A g \in File : Holds(g, k)' <=> Holds(g, k)
    BY <1>1, <1>2, <1>4, <1>6 DEF Holds, Consumed
  <2>2. \A g \in File : Holds(g, k) => file'[g].place = file[g].place
    BY <1>1, <1>4, <1>6 DEF Holds
  <2> QED BY <1>3, <1>6, <2>1, <2>2, SameHolder
<1> QED BY <1>2, <1>5, <1>6, OneItem

(* Item Assistant writes an item it holds to an outgoing folder.           *)
LEMMA TransferKeepsCustody ==
  ASSUME CustodyInv, CustodyInv', NEW j \in Item, NEW f \in File, NEW m \in Mode,
         IaTransfer(j, f, m)
  PROVE  CustodyStep
<1> USE DEF CustodyInv
<1>1. /\ file[f] = None /\ moving' = moving /\ ~Consumed(f) /\ ~Consumed(f)'
      /\ damaged' = damaged /\ IA \in Store
  BY DEF IaTransfer, Fresh, drainVars, TypeInv, MovingOK, Consumed, InOutgoing, Store
<1>2. /\ file'[f].item = j /\ file'[f].place = "outgoing" /\ file'[f] \in FileState
      /\ \A g \in File : g # f => file'[g] = file[g]
  BY DEF IaTransfer, TypeInv, TypeOK, FileState
<1>3. \A r \in Store, k \in Item :
        stock'[r][k] = IF r = IA /\ k = j THEN stock[r][k] - 1 ELSE stock[r][k]
  BY <1>1 DEF IaTransfer, TypeInv, TypeOK
<1>4. ASSUME j \notin damaged' PROVE <<HolderOf(j), HolderOf(j)'>> \in Custody!HandOver
  <2>1. ExactlyOneCopy(j) /\ ExactlyOneCopy(j)'
    BY <1>1, <1>4, UndamagedOnce DEF Conservation, ExactlyOneCopy
  <2>2. HolderOf(j) = "ia"
    BY <2>1 DEF IaTransfer, HolderFacts
  <2>3. Holds(f, j)'
    BY <1>1, <1>2, ConstantsAssumption DEF Holds
  <2>4. HolderOf(j)' = "outgoing"
    BY <1>2, <2>1, <2>3 DEF HolderFacts
  <2> QED BY <2>2, <2>4 DEF Custody!HandOver
<1>5. ASSUME NEW k \in Item, k # j PROVE HolderOf(k)' = HolderOf(k)
  <2>1. \A g \in File : Holds(g, k)' <=> Holds(g, k)
    BY <1>1, <1>2, <1>5 DEF Holds, Consumed
  <2>2. \A g \in File : Holds(g, k) => file'[g].place = file[g].place
    BY <1>1, <1>2 DEF Holds
  <2> QED BY <1>3, <1>5, <2>1, <2>2, SameHolder
<1> QED BY <1>1, <1>4, <1>5, OneItem

(* One entry of the deposit loop: an item that is added has been           *)
(* deposited, one that is refused is still where it was.                   *)
LEMMA DrainItemKeepsCustody ==
  ASSUME CustodyInv, CustodyInv', DrainItem
  PROVE  CustodyStep
<1> USE DEF CustodyInv
<1>1. PICK f \in File : Added(f) \/ Rejected(f) \/ Invalid(f)
  BY DEF DrainItem, TypeInv, TypeOK
<1>2. moving = None /\ file' = file /\ damaged' = damaged /\ mode \in Mode /\ mode \in Store
  BY DEF DrainItem, TypeInv, TypeOK, Store
<1>3. CASE Rejected(f) \/ Invalid(f)
  <2>1. UNCHANGED <<stock, file>> /\ \A g \in File : ~Consumed(g) /\ ~Consumed(g)'
    BY <1>2, <1>3 DEF Rejected, Invalid, Consumed
  <2>2. \A i \in Item : HolderOf(i)' = HolderOf(i)
    BY <2>1 DEF HolderOf, Holds
  <2> QED BY <1>2, <2>2, NothingMoves
<1>4. CASE Added(f)
  <2>1. PICK j \in Item : j = file[f].item
    BY <1>4 DEF Added, Readable, InOutgoing, TypeInv, TypeOK, FileState
  <2>2. file[f] # None /\ file[f].place = "outgoing" /\ Holds(f, j)
    BY <1>2, <1>4, <2>1 DEF Added, Readable, InOutgoing, Holds, Consumed
  <2>3. \A r \in Store, k \in Item :
          stock'[r][k] = IF r = mode /\ k = j THEN stock[r][k] + 1 ELSE stock[r][k]
    BY <1>2, <1>4, <2>1 DEF Added, TypeInv, TypeOK
  <2>4. ASSUME j \notin damaged' PROVE <<HolderOf(j), HolderOf(j)'>> \in Custody!HandOver
    <3>1. ExactlyOneCopy(j) /\ ExactlyOneCopy(j)'
      BY <1>2, <2>4, UndamagedOnce DEF Conservation, ExactlyOneCopy
    <3>2. HolderOf(j) = "outgoing"
      BY <2>2, <3>1 DEF HolderFacts
    <3>3. stock'[mode][j] > 0
      BY <1>2, <2>3 DEF TypeInv, TypeOK
    <3>4. HolderOf(j)' = "game"
      BY <1>2, <3>1, <3>3 DEF HolderFacts
    <3> QED BY <3>2, <3>4 DEF Custody!HandOver
  <2>5. ASSUME NEW k \in Item, k # j PROVE HolderOf(k)' = HolderOf(k)
    <3>1. \A g \in File : g # f => ~Consumed(g)'
      BY <1>4 DEF Added, Consumed
    <3>2. \A g \in File : Holds(g, k)' <=> Holds(g, k)
      BY <1>2, <2>1, <2>5, <3>1 DEF Holds, Consumed
    <3> QED BY <1>2, <2>3, <2>5, <3>2, SameHolder
  <2> QED BY <1>2, <2>4, <2>5, OneItem
<1> QED BY <1>1, <1>3, <1>4

(* MoveFile: the CSV of a refused item is handed back to ingoing, that of  *)
(* a deposited one holds nothing any more.  An item that was not deposited *)
(* and goes to deleted, or that was and stays in outgoing, is damaged; the *)
(* first does not happen when only listings fail (FaultFree).              *)
LEMMA DrainMoveKeepsCustody ==
  ASSUME CustodyInv, CustodyInv', OnlyListingsFail => FaultFree, DrainMove
  PROVE  CustodyStep
<1> USE DEF CustodyInv
<1>1. PICK f \in File : f = moving.path /\ moving # None
  BY DEF DrainMove, TypeInv, TypeOK, MoveOp
<1>2. /\ moving' = None /\ UNCHANGED stock /\ moving.added \in BOOLEAN
      /\ moving.to \in {"ingoing", "deleted"}
  BY <1>1 DEF DrainMove, TypeInv, TypeOK, MoveOp
<1>3. CASE MoveFails
  <2>1. file' = file
    BY <1>3 DEF MoveFails
  <2>2. CASE ~moving.added
    <3>1. damaged' = damaged
      BY <1>3, <2>2 DEF MoveFails
    <3>2. \A i \in Item : HolderOf(i)' = HolderOf(i)
      BY <1>1, <1>2, <2>1, <2>2 DEF HolderOf, Holds, Consumed
    <3> QED BY <3>1, <3>2, NothingMoves
  <2>3. CASE moving.added
    <3>1. InOutgoing(f)
      BY <1>1, <2>3 DEF TypeInv, MovingOK
    <3>2. PICK j \in Item : j = file[f].item
      BY <3>1 DEF InOutgoing, TypeInv, TypeOK, FileState
    <3>3. damaged' = damaged \cup {j}
      BY <1>1, <1>3, <2>3, <3>2 DEF MoveFails
    <3>4. ~OnlyListingsFail
      BY <1>1, <1>3, <3>1 DEF MoveFails, Movable, InOutgoing, FaultFree, OnlyListingsFail
    <3>5. ASSUME NEW k \in Item, k # j PROVE HolderOf(k)' = HolderOf(k)
      <4>1. \A g \in File : Holds(g, k)' <=> Holds(g, k)
        BY <1>1, <1>2, <2>1, <3>2, <3>5 DEF Holds, Consumed
      <4> QED BY <1>2, <2>1, <4>1, SameHolder
    <3> QED BY <3>3, <3>4, <3>5, OneItem
  <2> QED BY <1>2, <2>2, <2>3
<1>4. CASE MoveSucceeds
  <2>1. /\ InOutgoing(f) /\ file[f] \in FileState
        /\ file' = [file EXCEPT ![f].place = moving.to]
    BY <1>1, <1>4 DEF MoveSucceeds, Movable, InOutgoing, TypeInv, TypeOK
  <2>2. /\ file'[f] # None /\ file'[f].item = file[f].item /\ file'[f].place = moving.to
        /\ \A g \in File : g # f => file'[g] = file[g]
    BY <1>2, <2>1, ConstantsAssumption DEF TypeInv, TypeOK, FileState
  <2>3. PICK j \in Item : j = file[f].item
    BY <2>1 DEF FileState
  <2>4. ASSUME NEW k \in Item, k # j PROVE HolderOf(k)' = HolderOf(k)
    <3>1. \A g \in File : Holds(g, k)' <=> Holds(g, k)
      BY <1>1, <1>2, <2>2, <2>3, <2>4 DEF Holds, Consumed
    <3>2. \A g \in File : Holds(g, k) => file'[g].place = file[g].place
      BY <2>2, <2>3, <2>4 DEF Holds
    <3> QED BY <1>2, <3>1, <3>2, SameHolder
  <2>5. CASE moving.added
    <3>1. Consumed(f) /\ moving.to = "deleted" /\ damaged' = damaged
      BY <1>1, <1>4, <2>5 DEF Consumed, TypeInv, MovingOK, MoveSucceeds
    <3>2. HolderOf(j)' = HolderOf(j)
      <4>1. \A g \in File : Holds(g, j)' <=> Holds(g, j)
        BY <1>1, <1>2, <2>2, <3>1 DEF Holds, Consumed
      <4>2. \A g \in File : Holds(g, j) => file'[g].place = file[g].place
        BY <2>2, <3>1 DEF Holds
      <4> QED BY <1>2, <4>1, <4>2, SameHolder
    <3> QED BY <2>4, <3>1, <3>2, OneItem
  <2>6. CASE ~moving.added /\ moving.to = "deleted"
    <3>1. damaged' = damaged \cup {j}
      BY <1>1, <1>4, <2>3, <2>6 DEF MoveSucceeds
    <3>2. ~OnlyListingsFail
      BY <1>1, <2>1, <2>6 DEF FaultFree
    <3> QED BY <2>4, <3>1, <3>2, OneItem
  <2>7. CASE ~moving.added /\ moving.to = "ingoing"
    <3>1. damaged' = damaged
      BY <1>4, <2>7 DEF MoveSucceeds
    <3>2. Holds(f, j) /\ Holds(f, j)' /\ file[f].place = "outgoing"
      BY <1>1, <1>2, <2>1, <2>2, <2>3, <2>7 DEF Holds, Consumed, InOutgoing
    <3>3. ASSUME j \notin damaged' PROVE <<HolderOf(j), HolderOf(j)'>> \in Custody!HandOver
      <4>1. ExactlyOneCopy(j) /\ ExactlyOneCopy(j)'
        BY <3>1, <3>3, UndamagedOnce DEF Conservation, ExactlyOneCopy
      <4>2. HolderOf(j) = "outgoing" /\ HolderOf(j)' = "ingoing"
        BY <2>2, <2>7, <3>2, <4>1 DEF HolderFacts
      <4> QED BY <4>2 DEF Custody!HandOver
    <3> QED BY <2>4, <3>1, <3>3, OneItem
  <2> QED BY <1>2, <2>5, <2>6, <2>7
<1> QED BY <1>3, <1>4 DEF DrainMove

(* A restart between the deposit and the move leaves the item in the game  *)
(* and its CSV in outgoing; any other restart moves nothing.               *)
LEMMA RestartKeepsCustody ==
  ASSUME CustodyInv, GameRestart
  PROVE  CustodyStep
<1> USE DEF CustodyInv
<1>1. moving' = None /\ UNCHANGED <<stock, file>>
  BY DEF GameRestart
<1>2. CASE moving # None /\ moving.added
  <2>1. PICK f \in File : f = moving.path /\ InOutgoing(f)
    BY <1>2 DEF TypeInv, TypeOK, MovingOK, MoveOp
  <2>2. PICK j \in Item : j = file[f].item
    BY <2>1 DEF InOutgoing, TypeInv, TypeOK, FileState
  <2>3. damaged' = damaged \cup {j} /\ ~OnlyListingsFail
    BY <1>2, <2>1, <2>2 DEF GameRestart, OnlyListingsFail, TypeInv, TypeOK
  <2>4. ASSUME NEW k \in Item, k # j PROVE HolderOf(k)' = HolderOf(k)
    <3>1. \A g \in File : Holds(g, k)' <=> Holds(g, k)
      BY <1>1, <2>1, <2>2, <2>4 DEF Holds, Consumed
    <3> QED BY <1>1, <3>1, SameHolder
  <2> QED BY <2>3, <2>4, OneItem
<1>3. CASE ~(moving # None /\ moving.added)
  <2>1. damaged' = damaged /\ \A g \in File : ~Consumed(g) /\ ~Consumed(g)'
    BY <1>1, <1>3 DEF GameRestart, Consumed
  <2>2. \A i \in Item : HolderOf(i)' = HolderOf(i)
    BY <1>1, <2>1 DEF HolderOf, Holds
  <2> QED BY <2>1, <2>2, NothingMoves
<1> QED BY <1>2, <1>3

(* Item Assistant finishes a CSV or empties the deleted folder.            *)
LEMMA TidyingKeepsCustody ==
  ASSUME CustodyInv, NEW f \in File, IaFinishWrite(f) \/ IaPurge(f)
  PROVE  CustodyStep
<1> USE DEF CustodyInv
<1>1. UNCHANGED <<stock, moving, damaged>> /\ \A g \in File : g # f => file'[g] = file[g]
  BY DEF IaFinishWrite, IaPurge, drainVars, TypeInv, TypeOK
<1>2. \A k \in Item : /\ Holds(f, k)' <=> Holds(f, k)
                      /\ Holds(f, k) => file'[f].place = file[f].place
  <2>1. CASE IaPurge(f)
    BY <1>1, <2>1 DEF IaPurge, Holds, TypeInv, TypeOK
  <2>2. CASE IaFinishWrite(f)
    <3>1. file[f] \in FileState /\ file' = [file EXCEPT ![f].content = "whole"]
      BY <2>2 DEF IaFinishWrite, TypeInv, TypeOK
    <3>2. /\ file[f] # None /\ file'[f] # None
          /\ file'[f].item = file[f].item /\ file'[f].place = file[f].place
      BY <2>2, <3>1, ConstantsAssumption DEF IaFinishWrite, TypeInv, TypeOK, FileState
    <3> QED BY <1>1, <3>2 DEF Holds, Consumed
  <2> QED BY <2>1, <2>2
<1>3. ASSUME NEW k \in Item PROVE HolderOf(k)' = HolderOf(k)
  <2>1. \A g \in File : Holds(g, k)' <=> Holds(g, k)
    BY <1>1, <1>2 DEF Holds, Consumed
  <2>2. \A g \in File : Holds(g, k) => file'[g].place = file[g].place
    BY <1>1, <1>2
  <2> QED BY <1>1, <2>1, <2>2, SameHolder
<1> QED BY <1>1, <1>3, NothingMoves

(* Every step is a step of ItemCustody or leaves all holders as they are.  *)
LEMMA StepImplementsCustody ==
  ASSUME CustodyInv, CustodyInv', OnlyListingsFail => FaultFree, [Next]_vars
  PROVE  CustodyStep
<1>1. ASSUME \/ \E b \in BOOLEAN : SetActive(b) \/ SetTransferOpen(b)
             \/ \E t \in Listener : ListenerStep(t)
             \/ \E m \in Mode : GameLoad(m)
             \/ DrainBegin \/ DrainEnd \/ DrainThrows \/ UpdateNotReady \/ GameReady
             \/ UNCHANGED vars
      PROVE  CustodyStep
  <2>1. UNCHANGED <<stock, file, moving, damaged>>
    BY <1>1 DEF SetActive, SetTransferOpen, GameLoad, DrainBegin, DrainEnd, DrainThrows,
                UpdateNotReady, GameReady, vars, drainVars, ListenerStep, ListenerTest,
                ListenerList, ListenerNoGame, ListenerInsert, ListenerScanned,
                ListenerThrows
  <2>2. \A i \in Item : HolderOf(i)' = HolderOf(i)
    BY <2>1 DEF HolderOf, Holds, Consumed
  <2> QED BY <2>1, <2>2, NothingMoves
<1> QED
  BY <1>1, HandleItemKeepsCustody, HandleItemThrowsKeepsCustody, ImportKeepsCustody,
     TransferKeepsCustody, DrainItemKeepsCustody, DrainMoveKeepsCustody,
     RestartKeepsCustody, TidyingKeepsCustody
  DEF Next, Drain, GameStep, IaStep

(* The pipeline implements the custody specification, whatever fails: each *)
(* step moves one item along one edge or damages one, and none is damaged  *)
(* where nothing but a listing can fail.                                   *)
THEOREM Refinement == Spec => ImplementsCustody
<1>1. Init => Custody!Init
  <2> SUFFICES ASSUME Init, NEW i \in Item PROVE Custodian(i) = "game"
    BY DEF Custody!Init
  <2>1. PICK home \in [Item -> Mode] :
          stock = [s \in Store |-> [j \in Item |-> IF home[j] = s THEN 1 ELSE 0]]
    BY DEF Init
  <2>2. home[i] \in Mode /\ stock[home[i]][i] = 1
    BY <2>1 DEF Store
  <2>3. HolderOf(i) = "game"
    BY <2>2 DEF HolderOf
  <2>4. i \notin damaged
    BY DEF Init
  <2> QED BY <2>3, <2>4 DEF Custodian
<1>2. Init => (OnlyListingsFail => FaultFree)
  BY DEF Init, FaultFree
<1>3. TypeInv /\ (OnlyListingsFail => FaultFree) /\ [Next]_vars
        => (OnlyListingsFail => FaultFree)'
  BY NextFaultFree DEF OnlyListingsFail
<1>4. TypeInv /\ TypeInv' /\ Conservation /\ Conservation' /\ HolderFacts /\ HolderFacts'
        /\ (OnlyListingsFail => FaultFree) /\ [Next]_vars => CustodyStep
  BY StepImplementsCustody DEF CustodyInv
<1> QED
  BY <1>1, <1>2, <1>3, <1>4, TypeCorrect, ItemsConserved, HolderIsWhereItIs, PTL
  DEF Spec, ImplementsCustody, Custody!Spec, CustodyStep
=============================================================================
