-------------------------- MODULE StashTabsProofs ---------------------------
(***************************************************************************)
(* Theorems about ReplicaCsv and StashTabs, for every stash, every setting *)
(* and every set of items.                                                 *)
(***************************************************************************)
EXTENDS StashTabs, TLAPS

(* The lines of each format: how many columns, and that they are fields.   *)
LEMMA Layouts ==
  ASSUME NEW n \in Formats
  PROVE  /\ DOMAIN Layout(n) = 1..(n - 2)
         /\ \A k \in 1..(n - 2) : Layout(n)[k] \in Stored
<1> DEFINE short == SubSeq(Columns, 1, 12)
<1>1. /\ Len(Columns) = 15 /\ DOMAIN Columns = 1..15
      /\ \A k \in 1..15 : Columns[k] \in Stored
  BY DEF Columns, Stored
<1>2. /\ Len(short) = 12 /\ DOMAIN short = 1..12
      /\ \A k \in 1..12 : short[k] = Columns[k]
  BY <1>1 DEF Columns
<1>3. CASE n = 17
  BY <1>1, <1>3 DEF Layout
<1>4. CASE n = 16
  BY <1>1, <1>4 DEF Layout, Columns
<1>5. CASE n = 14
  BY <1>1, <1>2, <1>5 DEF Layout
<1>6. CASE n = 13
  <2>1. Layout(n) = Without(short, 5)
    BY <1>6 DEF Layout
  <2> HIDE DEF short
  <2>2. Layout(n) = [j \in 1..11 |-> short[IF j < 5 THEN j ELSE j + 1]]
    BY <2>1, <1>2 DEF Without
  <2>3. \A j \in 1..11 : Layout(n)[j] \in Stored
    BY <2>2, <1>1, <1>2
  <2> QED BY <1>6, <2>2, <2>3
<1> QED BY <1>3, <1>4, <1>5, <1>6 DEF Formats

(* The columns of a format, which has two tokens more.                     *)
LEMMA FormatNumbers ==
  ASSUME NEW n \in Formats
  PROVE  n \in Nat /\ n - 2 \in Nat /\ n - 2 + 2 = n
BY DEF Formats

(* The tokens of a line are its columns, behind mod and hardcore flag.     *)
LEMMA LineTokens ==
  ASSUME NEW m \in Nat, NEW V, NEW c \in [1..m -> V]
  PROVE  /\ Len(Line("mod", 0, c)) = m + 2
         /\ \A k \in 1..m : Line("mod", 0, c)[2 + k] = c[k]
<1> DEFINE W == V \cup {"mod", 0}
<1>1. c \in Seq(W) /\ Len(c) = m
  <2>1. c = [k \in 1..m |-> c[k]] /\ \A k \in 1..m : c[k] \in W
    OBVIOUS
  <2>2. /\ [k \in 1..m |-> c[k]] \in Seq(W)
        /\ Len([k \in 1..m |-> c[k]]) = m
    BY <2>1
  <2> QED BY <2>1, <2>2, Zenon
<1>2. <<"mod", 0>> \in Seq(W) /\ Len(<<"mod", 0>>) = 2
  OBVIOUS
<1> QED BY <1>1, <1>2 DEF Line

(* What is left of an item after lines of these formats.                   *)
After(r, formatsRead) ==
  [f \in Field |-> IF f = "stackSize" \/ \A n \in formatsRead : f \in Carried(n)
                   THEN r[f] ELSE Absent]

(* A line in any of the formats is read, by the build whose items it is,   *)
(* as the item without what the format has no column for.                  *)
LEMMA ReadBack ==
  ASSUME NEW r, NEW n \in Formats, NEW p \in BOOLEAN,
         r["stackSize"] = 1,
         p \/ \A f \in PlaytestOnly : r[f] = Absent
  PROVE  Len(WriteAs(r, n)) = n /\ Deserialize(WriteAs(r, n), p) = After(r, {n})
<1> DEFINE c == [k \in 1..(n - 2) |-> r[Layout(n)[k]]]
           tokens == WriteAs(r, n)
<1>1. n - 2 \in Nat /\ n \in Nat /\ n - 2 + 2 = n
  BY FormatNumbers
<1>2. c \in [1..(n - 2) -> {r[f] : f \in Stored}]
  BY Layouts
<1>3. /\ Len(tokens) = n
      /\ \A k \in 1..(n - 2) : tokens[2 + k] = r[Layout(n)[k]]
  <2>1. tokens = Line("mod", 0, c)
    BY DEF WriteAs
  <2>2. \A k \in 1..(n - 2) : c[k] = r[Layout(n)[k]]
    OBVIOUS
  <2> DEFINE V == {r[f] : f \in Stored}
             m == n - 2
  <2>3. /\ Len(Line("mod", 0, c)) = n - 2 + 2
        /\ \A k \in 1..(n - 2) : Line("mod", 0, c)[2 + k] = c[k]
    <3>1. m \in Nat /\ c \in [1..m -> V]
      BY <1>1, <1>2
    <3> HIDE DEF c, V, m
    <3>2. /\ Len(Line("mod", 0, c)) = m + 2
          /\ \A k \in 1..m : Line("mod", 0, c)[2 + k] = c[k]
      BY ONLY <3>1, LineTokens
    <3> QED BY <3>2 DEF m
  <2> HIDE DEF c, tokens
  <2> QED BY <1>1, <2>1, <2>2, <2>3
<1> HIDE DEF c, tokens
<1>4. ASSUME NEW f
      PROVE  LET at == {k \in DOMAIN Layout(n) : Layout(n)[k] = f}
             IN (IF at = {} THEN Absent ELSE tokens[2 + CHOOSE k \in at : TRUE])
                  = IF f \in Carried(n) THEN r[f] ELSE Absent
  <2> DEFINE at == {k \in DOMAIN Layout(n) : Layout(n)[k] = f}
  <2>1. CASE at = {}
    BY <2>1, Layouts DEF Carried
  <2>2. CASE at # {}
    <3>1. (CHOOSE k \in at : TRUE) \in at
      BY <2>2
    <3>2. f \in Carried(n)
      BY <2>2, Layouts DEF Carried
    <3> QED BY <2>2, <3>1, <3>2, <1>3, Layouts
  <2> QED BY <2>1, <2>2
<1>6. Deserialize(tokens, p) = After(r, {n})
  <2> DEFINE D == Deserialize(tokens, p)
  <2>1. D = [f \in Field |->
               IF f = "stackSize" THEN 1
               ELSE IF f \in PlaytestOnly /\ ~p THEN Absent
               ELSE LET layout == Layout(Len(tokens))
                        at == {k \in DOMAIN layout : layout[k] = f}
                    IN IF at = {} THEN Absent
                       ELSE tokens[2 + CHOOSE k \in at : TRUE]]
    <3>1. Len(tokens) \in Formats
      BY <1>3
    <3> HIDE DEF tokens
    <3> QED BY <3>1, Zenon DEF Deserialize
  <2>2. D = [f \in Field |-> D[f]]
    <3> HIDE DEF tokens
    <3> QED BY <2>1
  <2>3. ASSUME NEW f \in Field PROVE D[f] = After(r, {n})[f]
    <3> HIDE DEF tokens, D
    <3>0. After(r, {n})[f] = IF f = "stackSize" \/ f \in Carried(n) THEN r[f] ELSE Absent
      BY DEF After
    <3>1. CASE f = "stackSize"
      BY <2>1, <3>0, <3>1
    <3>2. CASE f # "stackSize" /\ f \in PlaytestOnly /\ ~p
      BY <2>1, <3>0, <3>2
    <3>3. CASE f # "stackSize" /\ ~(f \in PlaytestOnly /\ ~p)
      <4>1. D[f] = LET layout == Layout(Len(tokens))
                       at == {k \in DOMAIN layout : layout[k] = f}
                   IN IF at = {} THEN Absent
                      ELSE tokens[2 + CHOOSE k \in at : TRUE]
        BY <2>1, <3>3
      <4>2. D[f] = LET at == {k \in DOMAIN Layout(n) : Layout(n)[k] = f}
                   IN IF at = {} THEN Absent
                      ELSE tokens[2 + CHOOSE k \in at : TRUE]
        BY <4>1, <1>3, Zenon
      <4>3. D[f] = IF f \in Carried(n) THEN r[f] ELSE Absent
        BY <4>2, <1>4, Zenon
      <4> QED BY <3>0, <3>3, <4>3
    <3> QED BY <3>1, <3>2, <3>3
  <2>4. After(r, {n}) = [f \in Field |-> After(r, {n})[f]]
    BY DEF After
  <2> HIDE DEF D
  <2>5. D = After(r, {n})
    BY <2>2, <2>3, <2>4
  <2> QED BY <2>5 DEF D
<1> QED BY <1>3, <1>6 DEF tokens

-----------------------------------------------------------------------------
(* Whatever tab is chosen and however many there are, it is one of them.   *)
LEMMA NumberInRange ==
  ASSUME NEW s \in Setting, NEW n \in 2..TabMax
  PROVE  TabNumbered(s, n) \in 0..(n - 1)
<1>1. s \in Int /\ 0 - s < SizeMod - TabMax /\ SizeMod \in Nat /\ TabMax \in Nat
  BY StashTabsAssumption
<1> QED BY <1>1 DEF TabNumbered

(* Both indexes name a tab of the stash.                                   *)
LEMMA IndexInRange ==
  ASSUME TabsTypeOK, EnoughSacks
  PROVE  /\ toLootFrom(sacks) \in 0..(sacks - 1)
         /\ toDepositTo(sacks) \in 0..(sacks - 1)
<1>1. sacks \in 2..TabMax /\ sacks \in Nat /\ TabMax \in Nat
  BY StashTabsAssumption DEF TabsTypeOK, EnoughSacks
<1>2. /\ m_stashTabLootFrom = 0 \/ m_stashTabLootFrom \in Setting
      /\ m_stashTabDepositTo = 0 \/ m_stashTabDepositTo \in Setting
  BY DEF TabsTypeOK
<1> QED BY <1>1, <1>2, NumberInRange DEF toLootFrom, toDepositTo

(* A missing file reads as settings.                                       *)
LEMMA NoFileIsFile == NoFile \in File
  BY DEF NoFile, File

(* The types hold at first.                                                *)
LEMMA TabsTypeInit == TabsInit => TabsTypeOK
<1> SUFFICES ASSUME TabsInit PROVE TabsTypeOK
  OBVIOUS
<1>1. settings \in File
  BY NoFileIsFile DEF TabsInit
<1>2. place \in [Item -> {Hand, Ia} \cup 0..(TabMax - 1)]
  BY DEF TabsInit
<1> QED BY <1>1, <1>2 DEF TabsInit, TabsTypeOK

(* Every step keeps the types.                                             *)
LEMMA TabsTypeNext == TabsTypeOK /\ [TabsNext]_tabVars => TabsTypeOK'
<1> SUFFICES ASSUME TabsTypeOK, [TabsNext]_tabVars PROVE TabsTypeOK'
  OBVIOUS
<1>0. TabMax \in Nat
  BY StashTabsAssumption
<1> USE DEF readVars, itemVars
<1>1. CASE WriteSettings
  <2>1. settings' \in File
    <3>1. settings \in File
      BY DEF TabsTypeOK
    <3>2. ASSUME NEW s \in Setting
          PROVE  /\ [settings EXCEPT !.loot = s] \in File
                 /\ [settings EXCEPT !.deposit = s] \in File
      BY <3>1 DEF File
    <3>3. [settings EXCEPT !.parsed = TRUE] \in File
      BY <3>1 DEF File
    <3> QED BY <1>1, <3>2, <3>3, NoFileIsFile DEF WriteSettings
  <2> QED BY <1>1, <2>1 DEF WriteSettings, TabsTypeOK
<1>2. CASE BuyTab
  BY <1>0, <1>2 DEF BuyTab, TabsTypeOK
<1>3. CASE ReadLootFrom \/ ReadDepositTo \/ ReadParsed
  BY <1>3 DEF ReadLootFrom, ReadDepositTo, ReadParsed, Chosen, TabsTypeOK, File
<1>4. ASSUME NEW i \in Item, NEW t \in 0..(sacks - 1), DropIntoTab(i, t)
      PROVE  TabsTypeOK'
  <2>1. t \in 0..(TabMax - 1)
    BY <1>0 DEF TabsTypeOK
  <2> QED BY <1>4, <2>1 DEF DropIntoTab, TabsTypeOK
<1>5. ASSUME NEW i \in Item, NEW t \in 0..(sacks - 1), DropIntoLootTab(i, t)
      PROVE  TabsTypeOK'
  <2>1. t \in 0..(TabMax - 1) /\ settings.parsed \in BOOLEAN
    BY <1>0 DEF TabsTypeOK, File
  <2>2. m_isGrimDawnParsed' \in BOOLEAN
    BY <1>5 DEF DropIntoLootTab
  <2>3. place' \in [Item -> {Hand, Ia} \cup 0..(TabMax - 1)]
    BY <1>5, <2>1 DEF DropIntoLootTab, TabsTypeOK
  <2> QED BY <1>5, <2>2, <2>3 DEF DropIntoLootTab, TabsTypeOK
<1>6. ASSUME NEW i \in Item, NEW n \in Formats, GiveBack(i, n) PROVE TabsTypeOK'
  BY <1>6 DEF GiveBack, TabsTypeOK
<1>7. ASSUME NEW i \in Item, Deposit(i) PROVE TabsTypeOK'
  <2>1. toDepositTo(sacks) \in 0..(TabMax - 1)
    <3>1. sacks \in Nat /\ sacks <= TabMax /\ EnoughSacks
      BY <1>0, <1>7 DEF Deposit, TabsTypeOK
    <3> QED BY <1>0, <3>1, IndexInRange
  <2>2. place' \in [Item -> {Hand, Ia} \cup 0..(TabMax - 1)]
    BY <1>7, <2>1 DEF Deposit, TabsTypeOK
  <2> QED BY <1>7, <2>2 DEF Deposit, TabsTypeOK
<1>8. ASSUME NEW i \in Item, PickUp(i) PROVE TabsTypeOK'
  BY <1>8 DEF PickUp, TabsTypeOK
<1>9. CASE UNCHANGED tabVars
  BY <1>9 DEF tabVars, TabsTypeOK
<1> QED
  BY <1>1, <1>2, <1>3, <1>4, <1>5, <1>6, <1>7, <1>8, <1>9 DEF TabsNext

(* The variables keep their types.                                         *)
THEOREM TabsTypeCorrect == TabsSpec => []TabsTypeOK
  BY TabsTypeInit, TabsTypeNext, PTL DEF TabsSpec

(* The indexes the DLL passes to at() are those of tabs that exist.        *)
THEOREM TabsAlwaysExist == TabsSpec => []TabsExist
<1>1. TabsTypeOK => TabsExist
  BY IndexInRange DEF TabsExist
<1> QED BY <1>1, TabsTypeCorrect, PTL

(* The tabs used by default differ in every stash that has two.            *)
THEOREM DefaultsApart == TabsSpec => []ApartByDefault
<1>1. TabsTypeOK => ApartByDefault
  <2> SUFFICES ASSUME TabsTypeOK PROVE ApartByDefault
    OBVIOUS
  <2>1. sacks \in Nat
    BY StashTabsAssumption DEF TabsTypeOK
  <2> QED BY <2>1 DEF ApartByDefault, toLootFrom, toDepositTo
<1> QED BY <1>1, TabsTypeCorrect, PTL

-----------------------------------------------------------------------------
(* An item is what the lines it was read from have left of it, and with    *)
(* Item Assistant it is a single one, with a line of one of the formats.   *)
Written(l, r) == r["stackSize"] = 1 /\ \E n \in Formats : l = WriteAs(r, n)

FieldsInv ==
  /\ playtest \in BOOLEAN
  /\ original \in [Item -> Replica]
  /\ replica = [i \in Item |-> replica[i]] /\ formats = [i \in Item |-> formats[i]]
  /\ line = [i \in Item |-> line[i]] /\ place = [i \in Item |-> place[i]]
  /\ \A i \in Item :
       /\ replica[i] = After(original[i], formats[i])
       /\ InGame(replica[i])
       /\ place[i] = Ia => Written(line[i], replica[i])

(* The current format has all the columns.                                 *)
LEMMA CurrentLayout == 17 \in Formats /\ 17 - 2 = 15 /\ Layout(17) = Columns
  BY DEF Formats, Layout

(* What Serialize writes is the current format.                            *)
LEMMA Serialized ==
  ASSUME playtest \in BOOLEAN, NEW r, InGame(r)
  PROVE  Line("mod", 0, Serialize(r, playtest)) = WriteAs(r, 17)
<1>1. 17 \in Formats /\ 17 - 2 = 15 /\ Layout(17) = Columns
  BY CurrentLayout
<1>2. Serialize(r, playtest) = [k \in 1..15 |-> r[Columns[k]]]
  <2>1. ASSUME NEW k \in 1..15, Columns[k] \in PlaytestOnly, ~playtest
        PROVE  Absent = r[Columns[k]]
    BY <2>1, Zenon DEF InGame
  <2> QED BY <2>1, Zenon DEF Serialize
<1> QED BY <1>1, <1>2, Zenon DEF WriteAs

(* A line in the current format tells all the fields, so that one written  *)
(* from it in another format is the line of the same item.                 *)
LEMMA GivenBack ==
  ASSUME NEW l, NEW r, Written(l, r), Len(l) = 17,
         NEW rec, rec = [f \in Stored |-> l[2 + CHOOSE k \in 1..15 : Columns[k] = f]],
         NEW n \in Formats
  PROVE  Written(WriteAs(rec, n), r)
<1>1. PICK m \in Formats : l = WriteAs(r, m)
  BY DEF Written
<1>3. Len(WriteAs(r, m)) = m
  <2> DEFINE c == [k \in 1..(m - 2) |-> r[Layout(m)[k]]]
             V == {r[f] : f \in Stored}
             h == m - 2
  <2>1. h \in Nat /\ h + 2 = m /\ c \in [1..h -> V] /\ WriteAs(r, m) = Line("mod", 0, c)
    <3>1. h \in Nat /\ h + 2 = m
      BY FormatNumbers, Zenon
    <3>2. c \in [1..h -> V]
      BY Layouts
    <3>3. WriteAs(r, m) = Line("mod", 0, c)
      BY DEF WriteAs
    <3> QED BY <3>1, <3>2, <3>3
  <2> HIDE DEF c, V, h
  <2>2. Len(Line("mod", 0, c)) = h + 2
    BY ONLY <2>1, LineTokens
  <2> QED BY <2>1, <2>2
<1>4. m = 17
  BY <1>1, <1>3
<1>5. \A k \in 1..15 : l[2 + k] = r[Columns[k]]
  <2> DEFINE c == [k \in 1..15 |-> r[Columns[k]]]
             V == {r[f] : f \in Stored}
  <2>1. l = Line("mod", 0, c) /\ \A k \in 1..15 : c[k] = r[Columns[k]]
    <3>1. Layout(17) = Columns /\ 17 - 2 = 15
      BY CurrentLayout
    <3> QED BY <1>1, <1>4, <3>1, Zenon DEF WriteAs
  <2>2. c \in [1..15 -> V] /\ 15 \in Nat
    BY DEF Stored
  <2> HIDE DEF c, V
  <2>3. \A k \in 1..15 : Line("mod", 0, c)[2 + k] = c[k]
    BY ONLY <2>2, LineTokens
  <2> QED BY <2>1, <2>3
<1>6. \A f \in Stored : rec[f] = r[f]
  <2> SUFFICES ASSUME NEW f \in Stored PROVE rec[f] = r[f]
    OBVIOUS
  <2> DEFINE at == CHOOSE k \in 1..15 : Columns[k] = f
  <2>1. at \in 1..15 /\ Columns[at] = f
    BY DEF Stored
  <2>2. rec[f] = l[2 + at]
    OBVIOUS
  <2> HIDE DEF at
  <2> QED BY <1>5, <2>1, <2>2
<1>7. WriteAs(rec, n) = WriteAs(r, n)
  <2>1. \A k \in 1..(n - 2) : rec[Layout(n)[k]] = r[Layout(n)[k]]
    BY <1>6, Layouts
  <2>2. [k \in 1..(n - 2) |-> rec[Layout(n)[k]]] = [k \in 1..(n - 2) |-> r[Layout(n)[k]]]
    BY ONLY <2>1
  <2> QED BY <2>2, Zenon DEF WriteAs
<1> QED BY <1>7 DEF Written

(* At first no item has been with Item Assistant.                          *)
LEMMA FieldsInit == TabsInit => FieldsInv
<1> SUFFICES ASSUME TabsInit PROVE FieldsInv
  OBVIOUS
<1>1. \A i \in Item : place[i] = Hand /\ Hand # Ia /\ formats[i] = {}
  BY DEF TabsInit, Hand, Ia
<1>2. ASSUME NEW i \in Item PROVE replica[i] = After(original[i], formats[i])
  <2>1. original[i] = [f \in Field |-> original[i][f]] /\ replica[i] = original[i]
    BY StashTabsAssumption DEF TabsInit
  <2>2. After(original[i], {}) = [f \in Field |-> original[i][f]]
    BY DEF After
  <2> QED BY <1>1, <2>1, <2>2, Zenon
<1>3. /\ line = [i \in Item |-> line[i]] /\ place = [i \in Item |-> place[i]]
      /\ replica = [i \in Item |-> replica[i]] /\ formats = [i \in Item |-> formats[i]]
  BY DEF TabsInit
<1> QED BY <1>1, <1>2, <1>3, Zenon DEF TabsInit, FieldsInv

(* Every step keeps what is left of the items and the lines that carry it. *)
LEMMA FieldsNext == TabsTypeOK /\ FieldsInv /\ [TabsNext]_tabVars => FieldsInv'
<1> SUFFICES ASSUME TabsTypeOK, FieldsInv, [TabsNext]_tabVars PROVE FieldsInv'
  OBVIOUS
<1> USE DEF readVars, itemVars, InGame
<1>1. CASE \/ WriteSettings \/ BuyTab \/ ReadLootFrom \/ ReadDepositTo \/ ReadParsed
           \/ UNCHANGED tabVars
  <2>1. UNCHANGED <<playtest, place, replica, line, original, formats>>
    BY <1>1 DEF WriteSettings, BuyTab, ReadLootFrom, ReadDepositTo, ReadParsed, tabVars
  <2> QED BY <2>1, Zenon DEF FieldsInv
<1>2. ASSUME UNCHANGED <<playtest, replica, line, original, formats>>,
             place' = [j \in Item |-> place'[j]],
             \A j \in Item : place'[j] = Ia => place[j] = Ia
      PROVE  FieldsInv'
  BY <1>2, Zenon DEF FieldsInv
<1>6. ASSUME NEW i \in Item, NEW t \in 0..(sacks - 1), DropIntoTab(i, t)
      PROVE  FieldsInv'
  <2>1. t # Ia
    BY StashTabsAssumption DEF Ia, TabsTypeOK
  <2> QED BY <1>2, <1>6, <2>1 DEF DropIntoTab, FieldsInv
<1>7. ASSUME NEW i \in Item, PickUp(i) PROVE FieldsInv'
  <2>1. Hand # Ia
    BY DEF Hand, Ia
  <2> QED BY <1>2, <1>7, <2>1 DEF PickUp, FieldsInv
<1>3. ASSUME NEW i \in Item, NEW t \in 0..(sacks - 1), DropIntoLootTab(i, t)
      PROVE  FieldsInv'
  <2>1. UNCHANGED <<playtest, replica, original, formats>>
    BY <1>3 DEF DropIntoLootTab
  <2>2. t # Ia
    BY StashTabsAssumption DEF Ia, TabsTypeOK
  <2>3. CASE m_isGrimDawnParsed' /\ IsRelevant(replica[i])
    <3> DEFINE l == Line("mod", 0, Serialize(replica[i], playtest))
    <3>1. /\ place' = [place EXCEPT ![i] = Ia]
          /\ line' = [line EXCEPT ![i] = l]
      BY <1>3, <2>3, Zenon DEF DropIntoLootTab
    <3>2. Written(l, replica[i])
      <4>0. /\ original[i] \in Replica /\ InGame(replica[i]) /\ playtest \in BOOLEAN
            /\ replica[i] = After(original[i], formats[i])
        BY Zenon DEF FieldsInv
      <4>1. /\ original[i] \in Replica /\ InGame(replica[i]) /\ playtest \in BOOLEAN
            /\ replica[i]["stackSize"] = original[i]["stackSize"]
        BY <4>0 DEF After, Field
      <4>2. replica[i]["stackSize"] = 1
        BY <2>3, <4>1, StashTabsAssumption DEF IsRelevant
      <4>3. l = WriteAs(replica[i], 17)
        BY <4>1, Serialized
      <4> HIDE DEF l
      <4> QED BY <4>2, <4>3, CurrentLayout, Zenon DEF Written
    <3> HIDE DEF l
    <3>3. /\ place' = [j \in Item |-> place'[j]] /\ line' = [j \in Item |-> line'[j]]
          /\ line'[i] = l
          /\ \A j \in Item \ {i} : place'[j] = place[j] /\ line'[j] = line[j]
      BY <3>1 DEF FieldsInv
    <3> QED BY <2>1, <3>2, <3>3, Zenon DEF FieldsInv
  <2>4. CASE ~(m_isGrimDawnParsed' /\ IsRelevant(replica[i]))
    <3>1. place' = [place EXCEPT ![i] = t] /\ line' = line
      BY <1>3, <2>4, Zenon DEF DropIntoLootTab
    <3>2. /\ place' = [j \in Item |-> place'[j]]
          /\ \A j \in Item : place'[j] = Ia => place[j] = Ia
      BY <2>2, <3>1 DEF FieldsInv
    <3> QED BY <1>2, <2>1, <3>1, <3>2
  <2> QED BY <2>3, <2>4
<1>4. ASSUME NEW i \in Item, NEW n \in Formats, GiveBack(i, n) PROVE FieldsInv'
  <2> DEFINE rec == [f \in Stored |-> line[i][2 + CHOOSE k \in 1..15 : Columns[k] = f]]
  <2>1. UNCHANGED <<playtest, place, replica, original, formats>>
    BY <1>4 DEF GiveBack
  <2>2. /\ place[i] = Ia /\ Len(line[i]) = 17
        /\ line' = [line EXCEPT ![i] = WriteAs(rec, n)]
    BY <1>4, Zenon DEF GiveBack
  <2>3. Written(line[i], replica[i])
    BY <2>2, Zenon DEF FieldsInv
  <2>4. Written(WriteAs(rec, n), replica[i])
    BY <2>2, <2>3, GivenBack
  <2> HIDE DEF rec
  <2>5. /\ line' = [j \in Item |-> line'[j]] /\ line'[i] = WriteAs(rec, n)
        /\ \A j \in Item \ {i} : line'[j] = line[j]
    BY <2>2 DEF FieldsInv
  <2> QED BY <2>1, <2>4, <2>5, Zenon DEF FieldsInv
<1>5. ASSUME NEW i \in Item, Deposit(i) PROVE FieldsInv'
  <2>1. UNCHANGED <<playtest, original>>
    BY <1>5 DEF Deposit
  <2>2. /\ Written(line[i], replica[i]) /\ InGame(replica[i]) /\ playtest \in BOOLEAN
        /\ replica[i] = After(original[i], formats[i])
    <3>1. place[i] = Ia
      BY <1>5 DEF Deposit
    <3> QED BY <3>1, Zenon DEF FieldsInv
  <2>3. PICK n \in Formats : line[i] = WriteAs(replica[i], n)
    BY <2>2 DEF Written
  <2>4. Len(line[i]) = n /\ Deserialize(line[i], playtest) = After(replica[i], {n})
    BY <2>2, <2>3, ReadBack DEF Written
  <2> DEFINE left == After(replica[i], {n})
  <2>5. left = After(original[i], formats[i] \cup {n})
    <3> DEFINE all == After(original[i], formats[i] \cup {n})
    <3>1. ASSUME NEW f \in Field PROVE left[f] = all[f]
      <4>1. replica[i][f] = IF f = "stackSize" \/ \A k \in formats[i] : f \in Carried(k)
                            THEN original[i][f] ELSE Absent
        BY <2>2 DEF After
      <4>2. left[f] = IF f = "stackSize" \/ f \in Carried(n)
                      THEN replica[i][f] ELSE Absent
        BY DEF After
      <4>3. all[f] = IF f = "stackSize" \/ \A k \in formats[i] \cup {n} : f \in Carried(k)
                     THEN original[i][f] ELSE Absent
        BY DEF After
      <4> HIDE DEF left, all
      <4> QED BY <4>1, <4>2, <4>3
    <3>2. left = [f \in Field |-> left[f]] /\ all = [f \in Field |-> all[f]]
      BY DEF After
    <3> HIDE DEF left, all
    <3>3. left = all
      BY <3>1, <3>2
    <3> QED BY <3>3 DEF all
  <2>6. InGame(left)
    <3>1. \A f \in Field : left[f] = replica[i][f] \/ left[f] = Absent
      BY DEF After
    <3>2. PlaytestOnly \subseteq Field
      <4>1. \A f \in PlaytestOnly : \E k \in 1..15 : f = Columns[k]
        <5>1. /\ Columns[5] = "seedRerolls" /\ Columns[13] = "ascendant1"
              /\ Columns[14] = "ascendant2" /\ Columns[15] = "affixRerolls"
          BY DEF Columns
        <5> QED BY <5>1 DEF PlaytestOnly
      <4> QED BY <4>1 DEF Field, Stored
    <3> HIDE DEF left
    <3> QED BY <2>2, <3>1, <3>2, Zenon
  <2> HIDE DEF left
  <2>7. /\ replica' = [replica EXCEPT ![i] = left]
        /\ formats' = [formats EXCEPT ![i] = formats[i] \cup {n}]
    BY <1>5, <2>4 DEF Deposit, left
  <2>8. toDepositTo(sacks) # Ia
    BY <1>5, IndexInRange, StashTabsAssumption DEF Deposit, Ia, TabsTypeOK
  <2>9. /\ place' = [j \in Item |-> place'[j]] /\ line' = [j \in Item |-> line'[j]]
        /\ place'[i] # Ia
        /\ \A j \in Item \ {i} : place'[j] = place[j] /\ line'[j] = line[j]
    BY <1>5, <2>8 DEF Deposit, FieldsInv
  <2>10. /\ replica' = [j \in Item |-> replica'[j]]
         /\ formats' = [j \in Item |-> formats'[j]]
         /\ replica'[i] = left /\ formats'[i] = formats[i] \cup {n}
         /\ \A j \in Item \ {i} : replica'[j] = replica[j] /\ formats'[j] = formats[j]
    BY <2>7 DEF FieldsInv
  <2>11. ASSUME NEW j \in Item
         PROVE  /\ replica'[j] = After(original[j], formats'[j])
                /\ playtest \/ \A f \in PlaytestOnly : replica'[j][f] = Absent
                /\ place'[j] = Ia => Written(line'[j], replica'[j])
    <3>1. CASE j = i
      BY <2>5, <2>6, <2>9, <2>10, <3>1, Zenon
    <3>2. CASE j # i
      <4>1. /\ replica'[j] = replica[j] /\ formats'[j] = formats[j]
            /\ place'[j] = place[j] /\ line'[j] = line[j]
        BY <2>9, <2>10, <3>2
      <4> QED BY <4>1, Zenon DEF FieldsInv
    <3> QED BY <3>1, <3>2
  <2> QED BY <2>1, <2>9, <2>10, <2>11, Zenon DEF FieldsInv
<1> HIDE DEF readVars, itemVars, InGame
<1> QED
  BY <1>1, <1>3, <1>4, <1>5, <1>6, <1>7 DEF TabsNext

(* However often an item goes to Item Assistant and comes back, it has the *)
(* fields that all the lines it was read from carry, as they were, and     *)
(* nothing of the others.                                                  *)
THEOREM FieldsComeBack == TabsSpec => []FieldsReturn
<1>1. FieldsInv => FieldsReturn
  <2> SUFFICES ASSUME FieldsInv, NEW i \in Item, NEW f \in Field
               PROVE  replica[i][f] =
                        IF f = "stackSize" \/ \A n \in formats[i] : f \in Carried(n)
                        THEN original[i][f] ELSE Absent
    BY Zenon DEF FieldsReturn
  <2>1. replica[i] = After(original[i], formats[i])
    BY Zenon DEF FieldsInv
  <2> QED BY <2>1 DEF After
<1> QED BY <1>1, FieldsInit, FieldsNext, TabsTypeCorrect, PTL DEF TabsSpec
=============================================================================
