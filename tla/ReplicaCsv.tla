----------------------------- MODULE ReplicaCsv -----------------------------
(***************************************************************************)
(* The line of a CSV file that carries an item (Persist in                 *)
(* InventorySack_AddItem.cpp, Serialize and Deserialize in GrimTypes.cpp). *)
(*                                                                         *)
(* The DLL is built for the live game or, with PLAYTEST, for one whose     *)
(* items have rerolls and ascendants.  Records and numbers are values:     *)
(* sanitizeCsvField takes line breaks out of a record, and the records of  *)
(* the game, paths of its database, have no ";".                           *)
(***************************************************************************)
EXTENDS Naturals, Sequences

(* The fields in the order they are written.                               *)
Columns == <<"baseRecord", "prefixRecord", "suffixRecord", "seed",
             "seedRerolls", "modifierRecord", "materiaRecord", "relicBonus",
             "relicSeed", "enchantmentRecord", "enchantmentSeed",
             "transmuteRecord", "ascendant1", "ascendant2", "affixRerolls">>

Stored == {Columns[k] : k \in 1..15}

(* The fields of ItemReplicaInfo without a column: Serialize does not      *)
(* write and Deserialize does not set them.  Those that only one build has *)
(* (visiblePlayerId, droppedPlayerId, unknownDropData) are as "owner" is.  *)
Unwritten == {"id", "enchantmentLevel", "var1", "velocity", "owner"}

Field == Stored \cup Unwritten \cup {"stackSize"}

(* The numbers of tokens a line may have.                                  *)
Formats == {13, 14, 16, 17}

(* What PLAYTEST adds to an item.                                          *)
PlaytestOnly == {"seedRerolls", "ascendant1", "ascendant2", "affixRerolls"}

(* Zero for a number, no text for a record.                                *)
Absent == ""

Serialize(replica, playtest) ==
  [k \in 1..15 |-> IF Columns[k] \in PlaytestOnly /\ ~playtest
                   THEN Absent ELSE replica[Columns[k]]]

(* Persist writes the mod and the hardcore flag first; the line is read    *)
(* back cut at every ";" (GetNextLineAndSplitIntoTokens).                  *)
Line(mod, isHardcore, columns) == <<mod, isHardcore>> \o columns

(* The columns after mod and hardcore flag, by the number of tokens: lines *)
(* of older versions have fewer.                                           *)
Without(columns, k) ==
  [j \in 1..(Len(columns) - 1) |-> columns[IF j < k THEN j ELSE j + 1]]

Layout(n) ==
  CASE n = 13 -> Without(SubSeq(Columns, 1, 12), 5)
    [] n = 14 -> SubSeq(Columns, 1, 12)
    [] n = 16 -> SubSeq(Columns, 1, 14)
    [] n = 17 -> Columns

(* The fields a line of n tokens has a column for.  One of 14 is cut off   *)
(* before the ascendants, which an older version wrote on the next line.   *)
Carried(n) == {Layout(n)[k] : k \in 1..(n - 2)}

(* A line of Item Assistant in one of the formats.                         *)
WriteAs(record, n) ==
  Line("mod", 0, [k \in 1..(n - 2) |-> record[Layout(n)[k]]])

NullReplica == [f \in Field |-> "null"]

(* Mutant: the columns are counted as in the current format.              *)
DeserializeCurrent(tokens, playtest) ==
  IF Len(tokens) \notin Formats THEN NullReplica
  ELSE [f \in Field |->
          IF f = "stackSize" THEN 1
          ELSE IF f \in PlaytestOnly /\ ~playtest THEN Absent
          ELSE LET at == {k \in 1..(Len(tokens) - 2) : Columns[k] = f}
               IN IF at = {} THEN Absent
                  ELSE tokens[2 + CHOOSE k \in at : TRUE]]

(* What a line leaves out is zero; a deposited item is a stack of one.     *)
Deserialize(tokens, playtest) ==
  IF Len(tokens) \notin Formats THEN NullReplica
  ELSE [f \in Field |->
          IF f = "stackSize" THEN 1
          ELSE IF f \in PlaytestOnly /\ ~playtest THEN Absent
          ELSE LET layout == Layout(Len(tokens))
                   at == {k \in DOMAIN layout : layout[k] = f}
               IN IF at = {} THEN Absent
                  ELSE tokens[2 + CHOOSE k \in at : TRUE]]
=============================================================================
