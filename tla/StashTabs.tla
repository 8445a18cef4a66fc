------------------------------ MODULE StashTabs -----------------------------
(***************************************************************************)
(* Which items the DLL takes from which tab of the transfer stash, and     *)
(* where it puts them back (IsSackToLootFrom, IsRelevant and               *)
(* GetSackToDepositTo in InventorySack_AddItem.cpp, SettingsReader.cpp).   *)
(*                                                                         *)
(* The tabs are named by settings.json, which Item Assistant writes and    *)
(* the constructor of InventorySack_AddItem reads, once, value by value; a *)
(* file that is missing or half written reads as one without settings.     *)
(* The stash has any number of tabs and the player may buy more.           *)
(*                                                                         *)
(* Module Instaloot follows an item through the files and faults on its    *)
(* way; here the hook is active, Persist succeeds and a deposit finds room.*)
(***************************************************************************)
EXTENDS Integers, ReplicaCsv

CONSTANTS
  Item,       \* items of the player
  Replica,    \* what an item may be
  Setting,    \* tab numbers the settings may have: 0 is "not chosen"
  TabMax,     \* bound on the tabs of the stash
  SizeMod,    \* size_t counts modulo this, 2^64 in the builds
  Unset       \* a setting that is not in the file

ASSUME StashTabsAssumption ==
  /\ Setting \subseteq Int /\ Unset \notin Setting
  /\ TabMax \in Nat /\ SizeMod \in Nat
  /\ \A s \in Setting : 0 - s < SizeMod - TabMax
  /\ \A r \in Replica : /\ r = [f \in Field |-> r[f]]
                        /\ r["stackSize"] \in Nat \ {0}

VARIABLES
  playtest,            \* the build
  settings,            \* settings.json
  reading,             \* what the constructor reads next
  m_stashTabLootFrom,
  m_stashTabDepositTo,
  m_isGrimDawnParsed,
  sacks,               \* tabs of the stash
  place,               \* place[i]: the tab item i is in, Hand or Ia
  replica,             \* replica[i]: what item i is now
  line,                \* line[i]: the tokens of its CSV file
  original,            \* history: what item i was at first
  formats              \* history: the formats of the lines it was read from

readVars == <<reading, m_stashTabLootFrom, m_stashTabDepositTo>>
itemVars == <<place, replica, line, formats>>
tabVars == <<playtest, settings, readVars, m_isGrimDawnParsed, sacks, itemVars,
             original>>

Hand == 0 - 1   \* carried by the player
Ia == 0 - 2     \* with Item Assistant

File == [loot : Setting \cup {Unset}, deposit : Setting \cup {Unset},
         parsed : BOOLEAN]
NoFile == [loot |-> Unset, deposit |-> Unset, parsed |-> FALSE]

(* The live game has no items with the fields of PLAYTEST.                 *)
InGame(r) == playtest \/ \A f \in PlaytestOnly : r[f] = Absent

TabsInit ==
  /\ playtest \in BOOLEAN
  /\ settings = NoFile
  /\ reading = "loot" /\ m_stashTabLootFrom = 0 /\ m_stashTabDepositTo = 0
  /\ m_isGrimDawnParsed = FALSE
  /\ sacks \in 1..TabMax
  /\ place = [i \in Item |-> Hand]
  /\ replica \in [Item -> Replica] /\ \A i \in Item : InGame(replica[i])
  /\ line = [i \in Item |-> <<>>]
  /\ original = replica
  /\ formats = [i \in Item |-> {}]

-----------------------------------------------------------------------------
(* Item Assistant changes a setting; a file half written is no file, and   *)
(* is written again in several steps here.                                 *)
WriteSettings ==
  /\ \/ settings' = NoFile
     \/ \E s \in Setting : settings' = [settings EXCEPT !.loot = s]
     \/ \E s \in Setting : settings' = [settings EXCEPT !.deposit = s]
     \/ settings' = [settings EXCEPT !.parsed = TRUE]
  /\ UNCHANGED <<playtest, readVars, m_isGrimDawnParsed, sacks, itemVars,
                 original>>

BuyTab ==
  /\ sacks < TabMax
  /\ sacks' = sacks + 1
  /\ UNCHANGED <<playtest, settings, readVars, m_isGrimDawnParsed, itemVars,
                 original>>

(* GetStashTabToLootFrom, GetStashTabToDepositTo, GetIsGrimDawnParsed: the *)
(* file is read for each.                                                  *)
Chosen(setting) == IF setting = Unset THEN 0 ELSE setting

ReadLootFrom ==
  /\ reading = "loot" /\ reading' = "deposit"
  /\ m_stashTabLootFrom' = Chosen(settings.loot)
  /\ UNCHANGED <<playtest, settings, m_stashTabDepositTo, m_isGrimDawnParsed,
                 sacks, itemVars, original>>

ReadDepositTo ==
  /\ reading = "deposit" /\ reading' = "parsed"
  /\ m_stashTabDepositTo' = Chosen(settings.deposit)
  /\ UNCHANGED <<playtest, settings, m_stashTabLootFrom, m_isGrimDawnParsed,
                 sacks, itemVars, original>>

ReadParsed ==
  /\ reading = "parsed" /\ reading' = "done"
  /\ m_isGrimDawnParsed' = settings.parsed
  /\ UNCHANGED <<playtest, settings, m_stashTabLootFrom, m_stashTabDepositTo,
                 sacks, itemVars, original>>

-----------------------------------------------------------------------------
(* Mutant: the numbers of the settings are used as indexes.                *)
TabUnclamped(tab, n) == IF tab >= 1 THEN tab - 1 ELSE tab - 1 + SizeMod

(* A setting counts tabs from 1, an index from 0: (size_t)(tab - 1), and   *)
(* no further than the last.                                               *)
TabNumbered(tab, n) ==
  LET index == IF tab >= 1 THEN tab - 1 ELSE tab - 1 + SizeMod
  IN IF index < n - 1 THEN index ELSE n - 1

(* The vector's index of the tab to loot from and of the one to deposit    *)
(* to, in a stash of n tabs.                                               *)
toLootFrom(n) ==
  IF m_stashTabLootFrom = 0 THEN n - 1 ELSE TabNumbered(m_stashTabLootFrom, n)

(* Mutant: the default is the last tab, as the log message says.           *)
toDepositToLast(n) ==
  IF m_stashTabDepositTo = 0 THEN n - 1 ELSE TabNumbered(m_stashTabDepositTo, n)

toDepositTo(n) ==
  IF m_stashTabDepositTo = 0 THEN n - 2 ELSE TabNumbered(m_stashTabDepositTo, n)

EnoughSacks == sacks >= 2

(* What IsRelevant refuses by the path of the record; a few story items    *)
(* are let through.                                                        *)
Refused == {"storyelement", "materia", "misc", "questitem", "crafting",
            "saltbag"}

(* Mutant: stacks are looted too.                                          *)
IsRelevantStacks(r) == r["baseRecord"] \notin Refused

(* IsRelevant, once m_isGrimDawnParsed has been read again.                *)
IsRelevant(r) == r["stackSize"] <= 1 /\ r["baseRecord"] \notin Refused

(* AddItem as the player drops an item into a tab: HandleItem takes it, or *)
(* the game puts it there.                                                 *)
DropIntoTab(i, t) ==
  /\ reading = "done"
  /\ place[i] = Hand
  /\ place' = [place EXCEPT ![i] = t]
  /\ ~(EnoughSacks /\ t = toLootFrom(sacks))
  /\ UNCHANGED <<playtest, settings, readVars, m_isGrimDawnParsed, sacks,
                 replica, line, formats, original>>

DropIntoLootTab(i, t) ==
  /\ reading = "done"
  /\ place[i] = Hand
  /\ EnoughSacks /\ t = toLootFrom(sacks)
  /\ m_isGrimDawnParsed' = (m_isGrimDawnParsed \/ settings.parsed)
  /\ IF m_isGrimDawnParsed' /\ IsRelevant(replica[i])
     THEN /\ place' = [place EXCEPT ![i] = Ia]
          /\ line' = [line EXCEPT ![i] =
               Line("mod", 0, Serialize(replica[i], playtest))]
     ELSE /\ place' = [place EXCEPT ![i] = t]
          /\ UNCHANGED line
  /\ UNCHANGED <<playtest, settings, readVars, sacks, replica, formats, original>>

(* Item Assistant gives an item back in any of the formats, with room for  *)
(* all of it or not.                                                       *)
GiveBack(i, n) ==
  LET record == [f \in Stored |->
                   line[i][2 + CHOOSE k \in 1..15 : Columns[k] = f]]
  IN /\ place[i] = Ia /\ Len(line[i]) = 17
     /\ line' = [line EXCEPT ![i] = WriteAs(record, n)]
     /\ UNCHANGED <<playtest, settings, readVars, m_isGrimDawnParsed, sacks,
                    place, replica, formats, original>>

(* The deposit loop: the item is created from the line and put into the    *)
(* tab by the game's own AddItem, which does not loot it again.            *)
Deposit(i) ==
  /\ reading = "done"
  /\ place[i] = Ia /\ EnoughSacks
  /\ Len(line[i]) \in Formats   \* else no item can be created from it
  /\ replica' = [replica EXCEPT ![i] = Deserialize(line[i], playtest)]
  /\ formats' = [formats EXCEPT ![i] = @ \cup {Len(line[i])}]
  /\ place' = [place EXCEPT ![i] = toDepositTo(sacks)]
  /\ line' = [line EXCEPT ![i] = <<>>]
  /\ UNCHANGED <<playtest, settings, readVars, m_isGrimDawnParsed, sacks,
                 original>>

PickUp(i) ==
  /\ place[i] \notin {Hand, Ia}
  /\ place' = [place EXCEPT ![i] = Hand]
  /\ UNCHANGED <<playtest, settings, readVars, m_isGrimDawnParsed, sacks,
                 replica, line, formats, original>>

TabsNext ==
  \/ WriteSettings
  \/ BuyTab
  \/ ReadLootFrom
  \/ ReadDepositTo
  \/ ReadParsed
  \/ \E i \in Item : \E t \in 0..(sacks - 1) : DropIntoTab(i, t)
  \/ \E i \in Item : \E t \in 0..(sacks - 1) : DropIntoLootTab(i, t)
  \/ \E i \in Item : \E n \in Formats : GiveBack(i, n)
  \/ \E i \in Item : Deposit(i)
  \/ \E i \in Item : PickUp(i)

TabsSpec == TabsInit /\ [][TabsNext]_tabVars

-----------------------------------------------------------------------------
(* The variables hold what their declarations say.                         *)
TabsTypeOK ==
  /\ playtest \in BOOLEAN
  /\ settings \in File
  /\ reading \in {"loot", "deposit", "parsed", "done"}
  /\ m_stashTabLootFrom \in Setting \cup {0}
  /\ m_stashTabDepositTo \in Setting \cup {0}
  /\ m_isGrimDawnParsed \in BOOLEAN
  /\ sacks \in 1..TabMax
  /\ place \in [Item -> {Hand, Ia} \cup 0..(TabMax - 1)]

(* The indexes are used with at(), which throws when there is no such tab: *)
(* whatever the settings say and however many tabs there are, both exist.  *)
TabsExist ==
  EnoughSacks => /\ toLootFrom(sacks) \in 0..(sacks - 1)
                 /\ toDepositTo(sacks) \in 0..(sacks - 1)

(* With no tabs chosen, items are put back into another tab than the one   *)
(* they are looted from, also after the player has bought tabs.            *)
ApartByDefault ==
  EnoughSacks /\ m_stashTabLootFrom = 0 /\ m_stashTabDepositTo = 0 =>
    toLootFrom(sacks) # toDepositTo(sacks)

(* "IA never loots stackable items, so 1 is always the correct count"      *)
(* (GrimTypes.cpp:98-99), and no column is taken for another: an item that *)
(* has been with Item Assistant, however often, has each field that every  *)
(* line it was read from had a column for, as it was, and no trace of the  *)
(* others.  So a line in the current format loses what is in Unwritten, an *)
(* older one the rerolls or the ascendants too.                            *)
FieldsReturn ==
  \A i \in Item : \A f \in Field :
    replica[i][f] =
      IF f = "stackSize" \/ \A n \in formats[i] : f \in Carried(n)
      THEN original[i][f] ELSE Absent
=============================================================================
