------------------------------ MODULE WebItems ------------------------------
(***************************************************************************)
(* The item list of the web view (WebUI/src/components/App.tsx).           *)
(*                                                                         *)
(* Item Assistant sends the list in pages: a page replaces the list or is  *)
(* appended to it.  itemLookupMap says in which row an item stands, so     *)
(* that an update of one item (cloud backup, real stats) need not search   *)
(* the rows.  Updates wait in delayedMessageQueue for a timer of 6         *)
(* seconds.  A transfer removes items from a row, and a row left empty     *)
(* from the list; the map is not told.                                     *)
(*                                                                         *)
(* Every handler runs to completion and is an action; the renderer is      *)
(* left out.  An item is its number, and both types of update, which take  *)
(* the same path, are the number of the item they are for: one with        *)
(* several numbers stands for as many entries of the queue.  What an item  *)
(* shows is left out; missed says which items lack an update.  Rows count  *)
(* from 1 and row 0 is no row.                                             *)
(***************************************************************************)
EXTENDS Naturals, Sequences, FiniteSets

CONSTANTS
  PlayerItem,   \* numbers of player items
  DigitMax,     \* digits by which one number may be longer than another
  RowMax,       \* bound on the rows listed
  UpdateMax,    \* bound on the updates waiting
  RemovedMax    \* bound on the rows removed from one list

ASSUME WebItemsAssumption ==
  /\ PlayerItem \subseteq Nat /\ DigitMax \in Nat
  /\ RowMax \in Nat \ {0} /\ UpdateMax \in Nat \ {0} /\ RemovedMax \in Nat

VARIABLES
  items,               \* the rows: player items, and whether others are shown
  itemLookupMap,       \* the row an item was put into
  delayedMessageQueue, \* the items of the updates waiting
  missed,              \* history: items listed when an update was taken for
                       \* them that did not reach them
  removed              \* history: rows removed from this list

listVars == <<items, itemLookupMap>>
webVars  == <<items, itemLookupMap, delayedMessageQueue, missed, removed>>

Row == [player : SUBSET PlayerItem, other : BOOLEAN]
Listed == UNION {items[i].player : i \in DOMAIN items}

WebInit ==
  /\ items = <<>> /\ itemLookupMap = [p \in PlayerItem |-> 0]
  /\ delayedMessageQueue = <<>>
  /\ missed = {} /\ removed = 0

-----------------------------------------------------------------------------
(* Item Assistant merges equal items into a row: no item stands in two.    *)
Page(row, taken) ==
  /\ row.player # {} \/ row.other
  /\ row.player \cap taken = {}

(* Mutant: the offset of the rows is forgotten.                            *)
ItemLocationsNoOffset(row, offset, map) ==
  [p \in PlayerItem |-> IF p \in row.player THEN 1 ELSE map[p]]

calculateItemLocations(row, offset, map) ==
  [p \in PlayerItem |-> IF p \in row.player THEN offset + 1 ELSE map[p]]

NoMap == [p \in PlayerItem |-> 0]

(* Mutant: the new list is numbered behind the old one.                    *)
SetItemsBehind(row) ==
  /\ Page(row, {})
  /\ items' = <<row>>
  /\ itemLookupMap' = calculateItemLocations(row, Len(items), NoMap)
  /\ missed' = {} /\ removed' = 0
  /\ UNCHANGED delayedMessageQueue

(* SetItems with replaceExistingItems: a new list and a new map.           *)
SetItems(row) ==
  /\ Page(row, {})
  /\ items' = <<row>>
  /\ itemLookupMap' = calculateItemLocations(row, 0, NoMap)
  /\ missed' = {} /\ removed' = 0
  /\ UNCHANGED delayedMessageQueue

SetNoItems ==
  /\ items' = <<>> /\ itemLookupMap' = NoMap
  /\ missed' = {} /\ removed' = 0
  /\ UNCHANGED delayedMessageQueue

(* SetItems that appends: a page of one row, longer pages are as many.     *)
AppendItems(row) ==
  /\ Len(items) < RowMax
  /\ Page(row, Listed)
  /\ items' = Append(items, row)
  /\ itemLookupMap' = calculateItemLocations(row, Len(items), itemLookupMap)
  /\ UNCHANGED <<delayedMessageQueue, missed, removed>>

(* UpdateCloudIconStatus and UpdateItemStats wait for the timer.           *)
Update(p) ==
  /\ Len(delayedMessageQueue) < UpdateMax
  /\ delayedMessageQueue' = Append(delayedMessageQueue, p)
  /\ UNCHANGED <<listVars, missed, removed>>

-----------------------------------------------------------------------------
(* uniqueIdentifier.startsWith("PI/" + p): the digits of p begin q's.      *)
StartsWith(q, p) == q = p \/ \E k \in 1..DigitMax : q \div (10^k) = p

(* What the update for p reaches in the row the map names, which may no    *)
(* longer exist.                                                           *)
Reached(p) ==
  {q \in UNION {items[i].player : i \in DOMAIN items \cap {itemLookupMap[p]}} :
     StartsWith(q, p)}

(* Mutant: the map is not asked whether it has the number.                 *)
FailsUnknown(p) == itemLookupMap[p] \notin DOMAIN items

(* The handler throws at the first update whose row does not exist; what   *)
(* it has marked before stays marked.                                      *)
Fails(p) == itemLookupMap[p] > Len(items)

Processed ==
  {delayedMessageQueue[n] : n \in {k \in DOMAIN delayedMessageQueue :
     \A j \in 1..k : ~Fails(delayedMessageQueue[j])}}

Taken == {delayedMessageQueue[n] : n \in DOMAIN delayedMessageQueue}

(* Mutant: the queue is emptied once the updates have been processed.      *)
TickClearsLast ==
  /\ delayedMessageQueue # <<>>
  /\ delayedMessageQueue' = IF \E p \in Taken : Fails(p)
                            THEN delayedMessageQueue ELSE <<>>
  /\ missed' = (missed \cup (Taken \cap Listed))
                  \ UNION {Reached(p) : p \in Processed}
  /\ UNCHANGED <<listVars, removed>>

Tick ==
  /\ delayedMessageQueue # <<>>
  /\ delayedMessageQueue' = <<>>
  /\ missed' = (missed \cup (Taken \cap Listed))
                  \ UNION {Reached(p) : p \in Processed}
  /\ UNCHANGED <<listVars, removed>>

-----------------------------------------------------------------------------
(* Mutant: a row is never spliced out.                                     *)
ReduceKeepsRow(i, gone) ==
  /\ items' = [items EXCEPT ![i].player = @ \ gone]
  /\ UNCHANGED removed

(* reduceItemCount without the items gone; the first branch is splice.     *)
Reduce(i, gone) ==
  \/ /\ items[i].player = gone /\ ~items[i].other
     /\ removed < RemovedMax
     /\ items' = [j \in 1..(Len(items) - 1) |->
                    items[IF j < i THEN j ELSE j + 1]]
     /\ removed' = removed + 1
  \/ /\ items[i].player # gone \/ items[i].other
     /\ items' = [items EXCEPT ![i].player = @ \ gone]
     /\ UNCHANGED removed

Transferred(i, gone) ==
  /\ Reduce(i, gone)
  /\ missed' = missed \ gone
  /\ UNCHANGED <<itemLookupMap, delayedMessageQueue>>

(* The row is found by mergeIdentifier (findIndex).                        *)
transferSingle ==
  \E i \in DOMAIN items : \E p \in items[i].player : Transferred(i, {p})

transferAll ==
  \E i \in DOMAIN items :
    items[i].player # {} /\ Transferred(i, items[i].player)

WebNext ==
  \/ \E row \in Row : SetItems(row)
  \/ SetNoItems
  \/ \E row \in Row : AppendItems(row)
  \/ \E p \in PlayerItem : Update(p)
  \/ Tick
  \/ transferSingle
  \/ transferAll

WebSpec == WebInit /\ [][WebNext]_webVars

(* setInterval fires for as long as the view lives.                        *)
WebFairness == WF_webVars(Tick)

-----------------------------------------------------------------------------
(* The variables hold what their declarations say.                         *)
WebTypeOK ==
  /\ items \in Seq(Row) /\ Len(items) <= RowMax
  /\ itemLookupMap \in [PlayerItem -> 0..RowMax]
  /\ delayedMessageQueue \in Seq(PlayerItem)
  /\ Len(delayedMessageQueue) <= UpdateMax
  /\ missed \subseteq Listed
  /\ removed \in 0..RemovedMax

(* findIndex "assumes there are no empty arrays": however items are        *)
(* transferred and pages appended, every row shows an item, and no item    *)
(* stands in two rows.                                                     *)
RowsAreSound ==
  /\ \A i \in DOMAIN items : items[i].player # {} \/ items[i].other
  /\ \A i, j \in DOMAIN items :
       i # j => items[i].player \cap items[j].player = {}

(* The map never points above the row an item stands in, and below it by   *)
(* no more rows than have been removed: it is exact until a row goes.      *)
LookupDrift ==
  /\ \A i \in DOMAIN items : \A p \in items[i].player :
       itemLookupMap[p] \in i..(i + removed)
  /\ \A p \in PlayerItem : itemLookupMap[p] <= Len(items) + removed

(* As long as no row has been removed, an update for an item that is       *)
(* listed reaches it, whatever other updates are taken with it.            *)
UpdatesArrive == removed = 0 => missed = {}

(* calculateItemLocations (App.tsx:422-423) "creates a [playerItemId =>    *)
(* idxPosition] map so we know where a given playerItem is located", which *)
(* "gets us to the correct row in the outer array".                        *)
LookupExact ==
  \A i \in DOMAIN items : \A p \in items[i].player : itemLookupMap[p] = i

(* An update that makes the handler throw does not keep the others waiting *)
(* for ever: the queue is always emptied again.                            *)
UpdatesGetThrough == delayedMessageQueue # <<>> ~> delayedMessageQueue = <<>>
=============================================================================
