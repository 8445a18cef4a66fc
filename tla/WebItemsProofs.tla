--------------------------- MODULE WebItemsProofs ---------------------------
(***************************************************************************)
(* Theorems about WebItems, for every set of player items and every bound. *)
(***************************************************************************)
EXTENDS WebItems, TLAPS

(* A row spliced out of a list.                                            *)
LEMMA Spliced ==
  ASSUME NEW S, NEW s \in Seq(S), NEW i \in DOMAIN s,
         NEW t, t = [j \in 1..(Len(s) - 1) |-> s[IF j < i THEN j ELSE j + 1]]
  PROVE  /\ t \in Seq(S) /\ Len(t) = Len(s) - 1 /\ DOMAIN t = 1..(Len(s) - 1)
         /\ \A j \in 1..(Len(s) - 1) : t[j] = s[IF j < i THEN j ELSE j + 1]
<1> DEFINE n == Len(s) - 1
<1>1. Len(s) \in Nat /\ DOMAIN s = 1..Len(s) /\ n \in Nat
  OBVIOUS
<1>2. \A j \in 1..n : s[IF j < i THEN j ELSE j + 1] \in S
  BY <1>1
<1>3. t = [j \in 1..n |-> s[IF j < i THEN j ELSE j + 1]]
  OBVIOUS
<1> HIDE DEF n
<1>4. /\ [j \in 1..n |-> s[IF j < i THEN j ELSE j + 1]] \in Seq(S)
      /\ Len([j \in 1..n |-> s[IF j < i THEN j ELSE j + 1]]) = n
  BY <1>1, <1>2
<1>5. t \in Seq(S) /\ Len(t) = n
  BY <1>3, <1>4, Zenon
<1> QED BY <1>1, <1>3, <1>5 DEF n

WebInv == WebTypeOK /\ RowsAreSound /\ LookupDrift /\ UpdatesArrive

(* The view starts in the invariant.                                       *)
LEMMA WebInvInit == WebInit => WebInv
<1> SUFFICES ASSUME WebInit PROVE WebInv
  OBVIOUS
<1>1. items = <<>> /\ Len(items) = 0 /\ DOMAIN items = {}
  BY DEF WebInit
<1>2. WebTypeOK
  BY <1>1, WebItemsAssumption DEF WebInit, WebTypeOK
<1>3. RowsAreSound
  BY <1>1 DEF RowsAreSound
<1>4. LookupDrift /\ UpdatesArrive
  BY <1>1 DEF WebInit, LookupDrift, UpdatesArrive
<1> QED BY <1>2, <1>3, <1>4 DEF WebInv

(* A list of one row, numbered from the first.                             *)
LEMMA NewListKeeps ==
  ASSUME WebInv, NEW row \in Row, SetItems(row)
  PROVE  WebInv'
<1>1. /\ items' \in Seq(Row) /\ Len(items') = 1
      /\ DOMAIN items' = {1} /\ items'[1] = row
  BY DEF SetItems
<1>2. /\ itemLookupMap' =
           [p \in PlayerItem |-> IF p \in row.player THEN 1 ELSE 0]
      /\ missed' = {} /\ removed' = 0
      /\ UNCHANGED delayedMessageQueue
      /\ row.player # {} \/ row.other
  BY DEF SetItems, calculateItemLocations, NoMap, Page
<1>3. WebTypeOK'
  <2>1. /\ items' \in Seq(Row) /\ Len(items') <= RowMax
        /\ itemLookupMap' \in [PlayerItem -> 0..RowMax]
    BY <1>1, <1>2, WebItemsAssumption
  <2>2. missed' \subseteq Listed' /\ removed' \in 0..RemovedMax
    BY <1>2, WebItemsAssumption
  <2> QED BY <1>2, <2>1, <2>2 DEF WebTypeOK, WebInv
<1>4. RowsAreSound'
  BY <1>1, <1>2 DEF RowsAreSound
<1>5. LookupDrift'
  <2>1. row.player \subseteq PlayerItem
    BY DEF Row
  <2>2. \A p \in row.player : itemLookupMap'[p] = 1
    BY <1>2, <2>1
  <2>3. \A p \in PlayerItem : itemLookupMap'[p] <= 1
    BY <1>2
  <2> QED BY <1>1, <1>2, <2>2, <2>3 DEF LookupDrift
<1>6. UpdatesArrive'
  BY <1>2 DEF UpdatesArrive
<1> QED BY <1>3, <1>4, <1>5, <1>6 DEF WebInv

(* An empty list keeps the invariant.                                      *)
LEMMA NoListKeeps ==
  ASSUME WebInv, SetNoItems
  PROVE  WebInv'
<1>1. items' = <<>> /\ Len(items') = 0 /\ DOMAIN items' = {}
  BY DEF SetNoItems
<1>2. WebTypeOK'
  BY <1>1, WebItemsAssumption DEF SetNoItems, NoMap, WebTypeOK, WebInv
<1>3. RowsAreSound'
  BY <1>1 DEF RowsAreSound
<1>4. LookupDrift' /\ UpdatesArrive'
  BY <1>1 DEF SetNoItems, NoMap, LookupDrift, UpdatesArrive
<1> QED BY <1>2, <1>3, <1>4 DEF WebInv

(* A row appended: its items are not in the rows before it.                *)
LEMMA AppendKeeps ==
  ASSUME WebInv, NEW row \in Row, AppendItems(row)
  PROVE  WebInv'
<1> DEFINE n == Len(items)
<1>1. /\ items \in Seq(Row) /\ n \in Nat /\ DOMAIN items = 1..n
      /\ itemLookupMap \in [PlayerItem -> 0..RowMax]
      /\ n < RowMax /\ RowMax \in Nat /\ removed \in Nat
      /\ \A i \in 1..n : items[i] \in Row
  BY WebItemsAssumption DEF WebInv, WebTypeOK, AppendItems
<1>2. /\ items' \in Seq(Row) /\ Len(items') = n + 1
      /\ DOMAIN items' = 1..(n + 1) /\ items'[n + 1] = row
      /\ \A i \in 1..n : items'[i] = items[i]
  BY <1>1 DEF AppendItems
<1>3. /\ itemLookupMap' =
           [p \in PlayerItem |->
              IF p \in row.player THEN n + 1 ELSE itemLookupMap[p]]
      /\ UNCHANGED <<delayedMessageQueue, missed, removed>>
      /\ row.player # {} \/ row.other
      /\ row.player \cap Listed = {}
  BY DEF AppendItems, calculateItemLocations, Page
<1>4. \A i \in 1..n : items[i].player \subseteq Listed
  BY <1>1 DEF Listed
<1>5. Listed \subseteq Listed'
  BY <1>1, <1>2 DEF Listed
<1> HIDE DEF n
<1>6. WebTypeOK'
  <2>1. itemLookupMap' \in [PlayerItem -> 0..RowMax]
    BY <1>1, <1>3
  <2>2. missed' \subseteq Listed'
    BY <1>3, <1>5 DEF WebInv, WebTypeOK
  <2>3. items' \in Seq(Row) /\ Len(items') <= RowMax
    BY <1>1, <1>2
  <2> QED BY <1>3, <2>1, <2>2, <2>3 DEF WebInv, WebTypeOK
<1>7. RowsAreSound'
  <2>1. \A i \in 1..(n + 1) : items'[i].player # {} \/ items'[i].other
    <3>1. \A i \in 1..n : items[i].player # {} \/ items[i].other
      BY <1>1 DEF WebInv, RowsAreSound
    <3>2. \A i \in 1..(n + 1) : i \in 1..n \/ i = n + 1
      BY <1>1
    <3> QED BY <1>2, <1>3, <3>1, <3>2
  <2>2. ASSUME NEW i \in 1..(n + 1), NEW j \in 1..(n + 1), i # j
        PROVE  items'[i].player \cap items'[j].player = {}
    <3>1. \A k \in 1..(n + 1) : k \in 1..n \/ k = n + 1
      BY <1>1
    <3>2. CASE i \in 1..n /\ j \in 1..n
      <4>1. items[i].player \cap items[j].player = {}
        BY <1>1, <2>2, <3>2 DEF WebInv, RowsAreSound
      <4> QED BY <1>2, <3>2, <4>1
    <3>3. CASE i = n + 1 /\ j \in 1..n
      BY <1>2, <1>3, <1>4, <3>3
    <3>4. CASE i \in 1..n /\ j = n + 1
      BY <1>2, <1>3, <1>4, <3>4
    <3> QED BY <2>2, <3>1, <3>2, <3>3, <3>4
  <2> QED BY <1>2, <2>1, <2>2 DEF RowsAreSound
<1>8. LookupDrift'
  <2>1. ASSUME NEW i \in 1..(n + 1), NEW p \in items'[i].player
        PROVE  itemLookupMap'[p] \in i..(i + removed)
    <3>1. row.player \subseteq PlayerItem
      BY DEF Row
    <3>2. CASE i = n + 1
      BY <1>1, <1>2, <1>3, <3>1, <3>2
    <3>3. CASE i \in 1..n
      <4>1. p \in items[i].player /\ p \notin row.player /\ p \in PlayerItem
        BY <1>1, <1>2, <1>3, <1>4, <3>3 DEF Row
      <4>2. itemLookupMap[p] \in i..(i + removed)
        BY <1>1, <3>3, <4>1 DEF WebInv, LookupDrift
      <4> QED BY <1>3, <4>1, <4>2
    <3> QED BY <1>1, <3>2, <3>3
  <2>2. \A p \in PlayerItem : itemLookupMap'[p] <= n + 1 + removed
    <3>1. \A p \in PlayerItem : itemLookupMap[p] <= n + removed
      BY DEF WebInv, LookupDrift, n
    <3> QED BY <1>1, <1>3, <3>1
  <2> QED BY <1>2, <1>3, <2>1, <2>2 DEF LookupDrift
<1>9. UpdatesArrive'
  BY <1>3 DEF WebInv, UpdatesArrive
<1> QED BY <1>6, <1>7, <1>8, <1>9 DEF WebInv

(* While the map is exact no update fails, and each reaches its item.      *)
LEMMA ExactReaches ==
  ASSUME WebInv, removed = 0, NEW p \in Taken \cap Listed
  PROVE  p \in UNION {Reached(q) : q \in Processed}
<1>1. /\ items \in Seq(Row) /\ DOMAIN items = 1..Len(items) /\ Len(items) \in Nat
      /\ delayedMessageQueue \in Seq(PlayerItem)
      /\ itemLookupMap \in [PlayerItem -> 0..RowMax] /\ RowMax \in Nat
  BY WebItemsAssumption DEF WebInv, WebTypeOK
<1>2. \A q \in PlayerItem : ~Fails(q)
  BY <1>1 DEF WebInv, LookupDrift, Fails
<1>3. p \in Processed
  <2>1. PICK n \in DOMAIN delayedMessageQueue : delayedMessageQueue[n] = p
    BY DEF Taken
  <2>2. \A j \in 1..n : ~Fails(delayedMessageQueue[j])
    <3>1. \A j \in 1..n : delayedMessageQueue[j] \in PlayerItem
      BY <1>1
    <3> QED BY <1>2, <3>1, Zenon
  <2> QED BY <2>1, <2>2, Zenon DEF Processed
<1>4. PICK i \in DOMAIN items : p \in items[i].player
  BY DEF Listed
<1>5. itemLookupMap[p] = i
  BY <1>1, <1>4 DEF WebInv, LookupDrift
<1>6. p \in Reached(p)
  BY <1>4, <1>5 DEF Reached, StartsWith
<1> QED BY <1>3, <1>6, Zenon

(* The timer takes every update, and as long as no row has been removed    *)
(* each of them reaches its item.                                          *)
LEMMA TickKeeps ==
  ASSUME WebInv, Tick
  PROVE  WebInv'
<1>1. UNCHANGED <<items, itemLookupMap, removed>> /\ delayedMessageQueue' = <<>>
  BY DEF Tick, listVars
<1>2. missed' \subseteq missed \cup (Taken \cap Listed)
  BY DEF Tick
<1>3. WebTypeOK'
  <2>1. missed' \subseteq Listed'
    BY <1>1, <1>2 DEF WebInv, WebTypeOK, Listed
  <2>2. /\ delayedMessageQueue' \in Seq(PlayerItem)
        /\ Len(delayedMessageQueue') <= UpdateMax
    BY <1>1, WebItemsAssumption
  <2> QED BY <1>1, <2>1, <2>2 DEF WebInv, WebTypeOK
<1>4. RowsAreSound' /\ LookupDrift'
  BY <1>1 DEF WebInv, RowsAreSound, LookupDrift
<1>5. UpdatesArrive'
  <2> SUFFICES ASSUME removed = 0 PROVE missed' = {}
    BY <1>1 DEF UpdatesArrive
  <2>1. missed = {}
    BY DEF WebInv, UpdatesArrive
  <2>2. missed' = (Taken \cap Listed) \ UNION {Reached(p) : p \in Processed}
    BY <2>1, Zenon DEF Tick
  <2> QED BY <2>2, ExactReaches
<1> QED BY <1>3, <1>4, <1>5 DEF WebInv

(* Items leave a row, and an empty row the list: the rows behind it come   *)
(* one nearer, which the map does not know.                                *)
LEMMA TransferKeeps ==
  ASSUME WebInv, NEW i \in DOMAIN items, NEW gone \in SUBSET items[i].player,
         gone # {}, Transferred(i, gone)
  PROVE  WebInv'
<1> DEFINE n == Len(items)
<1>1. /\ items \in Seq(Row) /\ n \in Nat /\ DOMAIN items = 1..n /\ n <= RowMax
      /\ RowMax \in Nat /\ removed \in Nat /\ i \in 1..n
      /\ \A j \in 1..n : items[j] \in Row
      /\ itemLookupMap \in [PlayerItem -> 0..RowMax]
  BY WebItemsAssumption DEF WebInv, WebTypeOK
<1>2. /\ missed' = missed \ gone
      /\ UNCHANGED <<itemLookupMap, delayedMessageQueue>>
  BY DEF Transferred
<1>3. /\ \A j \in 1..n : items[j].player # {} \/ items[j].other
      /\ \A j, k \in 1..n : j # k => items[j].player \cap items[k].player = {}
      /\ \A j \in 1..n : \A p \in items[j].player :
           itemLookupMap[p] \in j..(j + removed)
      /\ \A p \in PlayerItem : itemLookupMap[p] <= n + removed
  BY <1>1 DEF WebInv, RowsAreSound, LookupDrift
<1>4. missed \subseteq Listed
  BY DEF WebInv, WebTypeOK
<1>5. CASE /\ items[i].player = gone /\ ~items[i].other
           /\ removed < RemovedMax
           /\ items' = [j \in 1..(Len(items) - 1) |->
                          items[IF j < i THEN j ELSE j + 1]]
           /\ removed' = removed + 1
  <2> DEFINE old(j) == IF j < i THEN j ELSE j + 1
  <2>1. /\ items' \in Seq(Row) /\ Len(items') = n - 1
        /\ DOMAIN items' = 1..(n - 1)
        /\ \A j \in 1..(n - 1) : items'[j] = items[old(j)]
    BY <1>1, <1>5, Spliced
  <2>2. removed' = removed + 1 /\ removed' \in 0..RemovedMax /\ n - 1 \in Nat
    BY <1>1, <1>5, WebItemsAssumption
  <2> HIDE DEF n
  <2>3. /\ \A j \in 1..(n - 1) : old(j) \in 1..n /\ old(j) \in j..(j + 1)
        /\ \A j, k \in 1..(n - 1) : j # k => old(j) # old(k)
        /\ \A k \in 1..n : k # i => \E j \in 1..(n - 1) : old(j) = k
    <3>1. \A k \in 1..n : k < i => k \in 1..(n - 1) /\ old(k) = k
      BY <1>1
    <3>2. \A k \in 1..n : k > i => k - 1 \in 1..(n - 1) /\ old(k - 1) = k
      BY <1>1
    <3>3. \A k \in 1..n : k # i => k < i \/ k > i
      BY <1>1
    <3>4. \A k \in 1..n : k # i => \E j \in 1..(n - 1) : old(j) = k
      BY <3>1, <3>2, <3>3
    <3>5. /\ \A j \in 1..(n - 1) : old(j) \in 1..n /\ old(j) \in j..(j + 1)
          /\ \A j, k \in 1..(n - 1) : j # k => old(j) # old(k)
      BY <1>1
    <3> QED BY <3>4, <3>5
  <2> HIDE DEF old
  <2>4. WebTypeOK'
    <3>1. missed' \subseteq Listed'
      <4> SUFFICES ASSUME NEW p \in missed, p \notin gone PROVE p \in Listed'
        BY <1>2
      <4>1. PICK k \in 1..n : p \in items[k].player
        BY <1>1, <1>4 DEF Listed
      <4>2. PICK j \in 1..(n - 1) : old(j) = k
        BY <1>5, <2>3, <4>1
      <4> QED BY <2>1, <4>1, <4>2 DEF Listed
    <3>2. items' \in Seq(Row) /\ Len(items') <= RowMax
      BY <1>1, <2>1
    <3> QED BY <1>2, <2>2, <3>1, <3>2 DEF WebInv, WebTypeOK
  <2>5. RowsAreSound'
    <3>1. \A j \in 1..(n - 1) : items'[j].player # {} \/ items'[j].other
      BY <1>3, <2>1, <2>3
    <3>2. ASSUME NEW j \in 1..(n - 1), NEW k \in 1..(n - 1), j # k
          PROVE  items'[j].player \cap items'[k].player = {}
      <4>1. old(j) # old(k) /\ old(j) \in 1..n /\ old(k) \in 1..n
        BY <2>3, <3>2
      <4>2. items'[j] = items[old(j)] /\ items'[k] = items[old(k)]
        BY <2>1
      <4> QED BY <1>3, <4>1, <4>2
    <3> QED BY <2>1, <3>1, <3>2 DEF RowsAreSound
  <2>6. LookupDrift'
    <3>1. ASSUME NEW j \in 1..(n - 1), NEW p \in items'[j].player
          PROVE  itemLookupMap[p] \in j..(j + (removed + 1))
      <4>1. itemLookupMap[p] \in old(j)..(old(j) + removed)
        BY <1>3, <2>1, <2>3
      <4>2. old(j) = j \/ old(j) = j + 1
        BY <2>3
      <4> QED BY <1>1, <4>1, <4>2
    <3>2. \A p \in PlayerItem : itemLookupMap[p] <= (n - 1) + (removed + 1)
      BY <1>1, <1>3
    <3> QED BY <1>2, <2>1, <2>2, <3>1, <3>2 DEF LookupDrift
  <2>7. UpdatesArrive'
    BY <1>1, <2>2 DEF UpdatesArrive
  <2> QED BY <2>4, <2>5, <2>6, <2>7 DEF WebInv
<1>6. CASE /\ items[i].player # gone \/ items[i].other
           /\ items' = [items EXCEPT ![i].player = @ \ gone]
           /\ UNCHANGED removed
  <2> DEFINE row == [items[i] EXCEPT !.player = @ \ gone]
  <2>1. /\ row \in Row /\ row.player = items[i].player \ gone
        /\ row.other = items[i].other
    BY <1>1 DEF Row
  <2>2. items' = [items EXCEPT ![i] = row]
    BY <1>6
  <2> HIDE DEF row
  <2>3. /\ items' \in Seq(Row) /\ Len(items') = n /\ DOMAIN items' = 1..n
        /\ items'[i] = row
        /\ \A j \in 1..n : j # i => items'[j] = items[j]
    BY <1>1, <2>1, <2>2
  <2>4. \A j \in 1..n : items'[j].player \subseteq items[j].player
    BY <2>1, <2>3
  <2> HIDE DEF n
  <2>5. WebTypeOK'
    <3>1. missed' \subseteq Listed'
      <4> SUFFICES ASSUME NEW p \in missed, p \notin gone PROVE p \in Listed'
        BY <1>2
      <4>1. PICK k \in 1..n : p \in items[k].player
        BY <1>1, <1>4 DEF Listed
      <4> QED BY <2>1, <2>3, <4>1 DEF Listed
    <3> QED BY <1>1, <1>2, <1>6, <2>3, <3>1 DEF WebInv, WebTypeOK
  <2>6. RowsAreSound'
    <3>1. ASSUME NEW j \in 1..n PROVE items'[j].player # {} \/ items'[j].other
      <4>1. CASE j = i
        BY <1>6, <2>1, <2>3, <4>1
      <4>2. CASE j # i
        BY <1>3, <2>3, <4>2
      <4> QED BY <4>1, <4>2
    <3>2. \A j, k \in 1..n :
            j # k => items'[j].player \cap items'[k].player = {}
      BY <1>3, <2>4
    <3> QED BY <2>3, <3>1, <3>2 DEF RowsAreSound
  <2>7. LookupDrift'
    BY <1>2, <1>3, <1>6, <2>3, <2>4 DEF LookupDrift
  <2>8. UpdatesArrive'
    BY <1>2, <1>6 DEF WebInv, UpdatesArrive
  <2> QED BY <2>5, <2>6, <2>7, <2>8 DEF WebInv
<1> QED BY <1>5, <1>6 DEF Transferred, Reduce

(* Every step keeps the invariant.                                         *)
LEMMA WebInvNext == WebInv /\ [WebNext]_webVars => WebInv'
<1> SUFFICES ASSUME WebInv, [WebNext]_webVars PROVE WebInv'
  OBVIOUS
<1>1. ASSUME NEW row \in Row, SetItems(row) PROVE WebInv'
  BY <1>1, NewListKeeps
<1>2. CASE SetNoItems
  BY <1>2, NoListKeeps
<1>3. ASSUME NEW row \in Row, AppendItems(row) PROVE WebInv'
  BY <1>3, AppendKeeps
<1>4. ASSUME NEW p \in PlayerItem, Update(p) PROVE WebInv'
  <2>1. UNCHANGED <<items, itemLookupMap, missed, removed>>
    BY <1>4 DEF Update, listVars
  <2>2. /\ delayedMessageQueue' \in Seq(PlayerItem)
        /\ Len(delayedMessageQueue') <= UpdateMax
    BY <1>4, WebItemsAssumption DEF Update, WebInv, WebTypeOK
  <2>3. WebTypeOK'
    BY <2>1, <2>2 DEF WebInv, WebTypeOK, Listed
  <2> QED
    BY <2>1, <2>3 DEF WebInv, RowsAreSound, LookupDrift, UpdatesArrive
<1>5. CASE Tick
  BY <1>5, TickKeeps
<1>6. CASE transferSingle
  BY <1>6, TransferKeeps DEF transferSingle
<1>7. CASE transferAll
  BY <1>7, TransferKeeps DEF transferAll
<1>8. CASE UNCHANGED webVars
  BY <1>8 DEF webVars, WebInv, WebTypeOK, Listed, RowsAreSound, LookupDrift,
              UpdatesArrive
<1> QED
  BY <1>1, <1>2, <1>3, <1>4, <1>5, <1>6, <1>7, <1>8 DEF WebNext

(* The invariant holds in every reachable state.                           *)
LEMMA WebInvHolds == WebSpec => []WebInv
  BY WebInvInit, WebInvNext, PTL DEF WebSpec

(* Types, and updates missed only by items that are listed.                *)
THEOREM WebTypesCorrect == WebSpec => []WebTypeOK
<1>1. WebInv => WebTypeOK
  BY DEF WebInv
<1> QED BY <1>1, WebInvHolds, PTL

(* However rows are appended and spliced, none is empty and no item stands *)
(* in two of them.                                                         *)
THEOREM RowsStaySound == WebSpec => []RowsAreSound
<1>1. WebInv => RowsAreSound
  BY DEF WebInv
<1> QED BY <1>1, WebInvHolds, PTL

(* The map is off by no more than the rows removed, and never too low.     *)
THEOREM LookupDriftsBounded == WebSpec => []LookupDrift
<1>1. WebInv => LookupDrift
  BY DEF WebInv
<1> QED BY <1>1, WebInvHolds, PTL

(* Until a row is removed, every update for a listed item reaches it.      *)
THEOREM UpdatesReachItems == WebSpec => []UpdatesArrive
<1>1. WebInv => UpdatesArrive
  BY DEF WebInv
<1> QED BY <1>1, WebInvHolds, PTL

(* The map is what calculateItemLocations says of it until a row is        *)
(* removed: nothing else makes it wrong, not appending a page, nor         *)
(* transferring items as long as some of the row are left.                 *)
THEOREM LookupExactUntilRemoval == WebSpec => [](removed = 0 => LookupExact)
<1>1. WebInv => (removed = 0 => LookupExact)
  <2> SUFFICES ASSUME WebInv, removed = 0,
                      NEW i \in DOMAIN items, NEW p \in items[i].player
               PROVE  itemLookupMap[p] = i
    BY DEF LookupExact
  <2>1. itemLookupMap[p] \in i..(i + removed) /\ i \in Nat
    BY DEF WebInv, LookupDrift, WebTypeOK
  <2> QED BY <2>1
<1> QED BY <1>1, WebInvHolds, PTL
=============================================================================
