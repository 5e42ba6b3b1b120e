------------------------------ MODULE RecordsProofs ------------------------------
(***************************************************************************)
(* Proofs about the records that are kept and read back: the metrics file  *)
(* (MetricsHistory), the events table under retention and search           *)
(* (EventQueries), and the reports on the dead letter queue (DlqReports).  *)
(* The three services share no variable; each has its own invariant.       *)
(***************************************************************************)
EXTENDS MetricsHistory, EventQueries, DlqReports,
        SequenceTheorems, FiniteSetTheorems, WellFoundedInduction, TLAPS

--------------------------------------------------------------------------------
(* MetricsHistory: what torn lines cost                                    *)

HistoryTypes ==
  /\ process \in {"down", "up", "stopping"}
  /\ saving \subseteq 1 .. taken
  /\ lines \in Seq(Unreadable .. taken)
  /\ tail = << >> \/ \E n \in Unreadable .. taken : tail = <<n>>
  /\ taken \in 0 .. MaxSaves
  /\ saved \in Seq(1 .. taken)
  /\ incidents \in Nat
  /\ lately \in 0 .. Len(saved)

(* The saves reported done that are in no line.                            *)
LostSaves == {i \in DOMAIN saved : \A j \in DOMAIN lines : lines[j] # saved[i]}

(* Each was paid for by an append that was cut off; and the last of these, *)
(* while what it left is still the end of the file, is yet to be.          *)
LossesPaid == Cardinality(LostSaves) + Len(tail) <= incidents

(* After the first save behind a torn line, line follows line.             *)
InOrderSince ==
  lately > 0 =>
    /\ tail = << >>
    /\ lately <= Len(lines)
    /\ \A k \in 0 .. lately - 2 : lines[Len(lines) - k] = saved[Len(saved) - k]

HistoryIndInv == HistoryTypes /\ LossesPaid /\ InOrderSince

(* A sequence over a set is one over every larger set.                     *)
LEMMA SeqWiden ==
  ASSUME NEW S, NEW T, S \subseteq T, NEW s \in Seq(S)
  PROVE  s \in Seq(T)
<1>1. Len(s) \in Nat /\ DOMAIN s = 1 .. Len(s)  BY LenProperties
<1>2. \A i \in 1 .. Len(s) : s[i] \in T  BY ElementOfSeq
<1>3. s \in [1 .. Len(s) -> S]  BY LenProperties
<1>4. s \in [1 .. Len(s) -> T]  BY <1>2, <1>3
<1> QED  BY <1>1, <1>4, SeqDef

(* The end of a sequence, item by item.                                    *)
LEMMA LastItems ==
  ASSUME NEW S, NEW s \in Seq(S), NEW n \in Nat, n <= Len(s)
  PROVE  LET last == SubSeq(s, Len(s) - n + 1, Len(s))
         IN /\ last \in Seq(S) /\ Len(last) = n
            /\ \A i \in 1 .. n : last[i] = s[Len(s) - n + i]
<1> DEFINE m == Len(s) - n + 1
           last == SubSeq(s, m, Len(s))
<1>1. Len(s) \in Nat  BY LenProperties
<1>2. m \in Int /\ m >= 1 /\ m .. Len(s) \subseteq 1 .. Len(s) /\ Len(s) - m + 1 = n
      /\ (m <= Len(s) <=> n # 0)
  BY <1>1
<1>3. \A i \in 1 .. n : m + i - 1 = Len(s) - n + i  BY <1>1
<1>4. \A i \in m .. Len(s) : s[i] \in S  BY <1>1, <1>2, ElementOfSeq
<1> HIDE DEF m
<1>5. /\ last \in Seq(S)
      /\ Len(last) = (IF m <= Len(s) THEN Len(s) - m + 1 ELSE 0)
      /\ \A i \in 1 .. Len(s) - m + 1 : last[i] = s[m + i - 1]
  BY <1>1, <1>2, <1>4, SubSeqProperties
<1> HIDE DEF last
<1>6. /\ last \in Seq(S) /\ Len(last) = n
      /\ \A i \in 1 .. n : last[i] = s[Len(s) - n + i]
  BY <1>2, <1>3, <1>5
<1> QED  BY <1>6 DEF last, m

(* What the file and the history are made of.                              *)
LEMMA HistoryFacts ==
  ASSUME HistoryTypes
  PROVE  /\ Len(lines) \in Nat /\ DOMAIN lines = 1 .. Len(lines)
         /\ \A j \in 1 .. Len(lines) : lines[j] \in Unreadable .. taken
         /\ Len(saved) \in Nat /\ DOMAIN saved = 1 .. Len(saved)
         /\ \A i \in 1 .. Len(saved) : saved[i] \in 1 .. taken
         /\ taken \in Nat /\ Unreadable = 0
         /\ Len(tail) \in {0, 1} /\ (tail = << >> => Len(tail) = 0) /\ (tail # << >> => Len(tail) = 1)
         /\ IsFiniteSet(LostSaves) /\ Cardinality(LostSaves) \in Nat
<1>1. lines \in Seq(Unreadable .. taken) /\ saved \in Seq(1 .. taken)  BY DEF HistoryTypes
<1>2. Len(lines) \in Nat /\ DOMAIN lines = 1 .. Len(lines)
      /\ Len(saved) \in Nat /\ DOMAIN saved = 1 .. Len(saved)
  BY <1>1, LenProperties
<1>3. /\ \A j \in 1 .. Len(lines) : lines[j] \in Unreadable .. taken
      /\ \A i \in 1 .. Len(saved) : saved[i] \in 1 .. taken
  BY <1>1, ElementOfSeq
<1>4. taken \in Nat /\ Unreadable = 0  BY HistoryAssumption DEF HistoryTypes, Unreadable
<1>5. Len(tail) \in {0, 1} /\ (tail = << >> => Len(tail) = 0) /\ (tail # << >> => Len(tail) = 1)
  BY DEF HistoryTypes
<1>6. LostSaves \subseteq 1 .. Len(saved)  BY <1>2 DEF LostSaves
<1>7. IsFiniteSet(1 .. Len(saved))  BY <1>2, FS_Interval
<1>8. IsFiniteSet(LostSaves) /\ Cardinality(LostSaves) \in Nat
  BY <1>6, <1>7, FS_Subset, FS_CardinalityType
<1> QED  BY <1>2, <1>3, <1>4, <1>5, <1>8

(* The file still has every line it had when one more is appended.         *)
LEMMA AppendedLine ==
  ASSUME HistoryTypes, NEW x \in Unreadable .. taken, lines' = Append(lines, x)
  PROVE  /\ lines' \in Seq(Unreadable .. taken)
         /\ Len(lines') = Len(lines) + 1 /\ DOMAIN lines' = 1 .. Len(lines) + 1
         /\ \A j \in 1 .. Len(lines) : lines'[j] = lines[j]
         /\ lines'[Len(lines) + 1] = x
  BY AppendProperties, LenProperties DEF HistoryTypes

(* What is appended behind the end of the file is a line.                  *)
LEMMA GluedIsLine ==
  ASSUME HistoryTypes, NEW n \in 1 .. taken
  PROVE  Glued(n) \in Unreadable .. taken
  BY HistoryFacts DEF Glued

(* No save is lost by lines that are added.                                *)
LEMMA LossesStay ==
  ASSUME HistoryTypes, UNCHANGED saved,
         \/ UNCHANGED lines
         \/ \E x \in Unreadable .. taken : lines' = Append(lines, x)
  PROVE  Cardinality(LostSaves') \in Nat /\ Cardinality(LostSaves') <= Cardinality(LostSaves)
<1>1. LostSaves' \subseteq LostSaves
  <2>1. CASE UNCHANGED lines
    BY <2>1 DEF LostSaves
  <2>2. ASSUME NEW x \in Unreadable .. taken, lines' = Append(lines, x)
        PROVE  LostSaves' \subseteq LostSaves
    <3>1. /\ DOMAIN lines' = 1 .. Len(lines) + 1 /\ DOMAIN lines = 1 .. Len(lines)
          /\ Len(lines) \in Nat
          /\ \A j \in 1 .. Len(lines) : lines'[j] = lines[j]
      BY <2>2, AppendedLine, HistoryFacts
    <3>2. \A j \in DOMAIN lines : j \in DOMAIN lines' /\ lines'[j] = lines[j]
      BY <3>1
    <3> QED  BY <3>2 DEF LostSaves
  <2> QED  BY <2>1, <2>2
<1> QED  BY <1>1, HistoryFacts, FS_Subset, FS_CardinalityType

(* The interval, a start and an end do not touch what was saved.           *)
LEMMA ProcessStep ==
  ASSUME HistoryIndInv, PersistenceStarts \/ SaveStarts \/ FinalSave \/ PersistenceEnds
  PROVE  HistoryIndInv'
<1>1. UNCHANGED <<lines, tail, saved, incidents, lately>>
  BY DEF PersistenceStarts, SaveStarts, FinalSave, PersistenceEnds, TakesSnapshot
<1>2. /\ taken' \in 0 .. MaxSaves /\ taken <= taken' /\ saving' \subseteq 1 .. taken'
      /\ process' \in {"down", "up", "stopping"}
  <2>1. CASE PersistenceStarts \/ PersistenceEnds
    <3>1. taken' = taken /\ saving' \subseteq saving /\ process' \in {"down", "up"}
      BY <2>1 DEF PersistenceStarts, PersistenceEnds
    <3>2. taken \in Nat /\ taken \in 0 .. MaxSaves /\ saving \subseteq 1 .. taken
      BY HistoryFacts DEF HistoryIndInv, HistoryTypes
    <3>3. taken <= taken  BY <3>2
    <3> QED  BY <3>1, <3>2, <3>3
  <2>2. CASE SaveStarts \/ FinalSave
    <3>1. taken < MaxSaves /\ taken' = taken + 1 /\ saving' = saving \cup {taken'}
      BY <2>2 DEF SaveStarts, FinalSave, TakesSnapshot
    <3>2. process' \in {"down", "up", "stopping"}
      BY <2>2 DEF SaveStarts, FinalSave, HistoryIndInv, HistoryTypes
    <3>3. MaxSaves \in Nat /\ taken \in Nat /\ saving \subseteq 1 .. taken
      BY HistoryAssumption, HistoryFacts DEF HistoryIndInv, HistoryTypes
    <3> QED  BY <3>1, <3>2, <3>3
  <2> QED  BY <2>1, <2>2
<1>3. /\ lines \in Seq(Unreadable .. taken') /\ saved \in Seq(1 .. taken')
      /\ \A n \in Unreadable .. taken : n \in Unreadable .. taken'
  <2>1. taken \in Nat /\ taken' \in Nat /\ Unreadable = 0
    BY <1>2, HistoryFacts, HistoryAssumption DEF HistoryIndInv
  <2>2. Unreadable .. taken \subseteq Unreadable .. taken' /\ 1 .. taken \subseteq 1 .. taken'
    BY <1>2, <2>1
  <2>3. lines \in Seq(Unreadable .. taken) /\ saved \in Seq(1 .. taken)
    BY DEF HistoryIndInv, HistoryTypes
  <2>4. lines \in Seq(Unreadable .. taken')  BY <2>2, <2>3, SeqWiden
  <2>5. saved \in Seq(1 .. taken')  BY <2>2, <2>3, SeqWiden
  <2> QED  BY <2>2, <2>4, <2>5
<1>4. HistoryTypes'
  BY <1>1, <1>2, <1>3 DEF HistoryIndInv, HistoryTypes
<1>5. LossesPaid' /\ InOrderSince'
  BY <1>1 DEF HistoryIndInv, LossesPaid, LostSaves, InOrderSince
<1> QED  BY <1>4, <1>5 DEF HistoryIndInv

(* A save is done: behind a torn line it is lost, and the line is closed;  *)
(* else it is the last line of the file.                                   *)
LEMMA SaveSucceedsStep ==
  ASSUME HistoryIndInv, NEW n \in saving, SaveSucceeds(n)
  PROVE  HistoryIndInv'
<1>1. HistoryTypes /\ n \in 1 .. taken
  BY DEF HistoryIndInv, HistoryTypes
<1>2. /\ Len(lines) \in Nat /\ DOMAIN lines = 1 .. Len(lines)
      /\ Len(saved) \in Nat /\ DOMAIN saved = 1 .. Len(saved)
      /\ Len(tail) \in {0, 1} /\ (tail = << >> => Len(tail) = 0) /\ (tail # << >> => Len(tail) = 1)
      /\ IsFiniteSet(LostSaves) /\ Cardinality(LostSaves) \in Nat
  BY <1>1, HistoryFacts
<1>3. /\ lines' = Append(lines, Glued(n)) /\ tail' = << >>
      /\ saved' = Append(saved, n) /\ lately' = lately + 1 /\ saving' \subseteq saving
      /\ UNCHANGED <<process, taken, incidents>>
  BY DEF SaveSucceeds, AppendsLine
<1>4. Glued(n) \in Unreadable .. taken  BY <1>1, GluedIsLine
<1>5. /\ lines' \in Seq(Unreadable .. taken)
      /\ Len(lines') = Len(lines) + 1 /\ DOMAIN lines' = 1 .. Len(lines) + 1
      /\ \A j \in 1 .. Len(lines) : lines'[j] = lines[j]
      /\ lines'[Len(lines) + 1] = Glued(n)
  BY <1>1, <1>3, <1>4, AppendedLine
<1>6. /\ saved' \in Seq(1 .. taken)
      /\ Len(saved') = Len(saved) + 1 /\ DOMAIN saved' = 1 .. Len(saved) + 1
      /\ \A i \in 1 .. Len(saved) : saved'[i] = saved[i]
      /\ saved'[Len(saved) + 1] = n
  BY <1>1, <1>3, AppendProperties, LenProperties DEF HistoryTypes
<1>7. lately \in Nat /\ lately <= Len(saved) /\ incidents \in Nat
  BY <1>1, <1>2 DEF HistoryTypes
<1>8. HistoryTypes'
  <2>1. lately' \in 0 .. Len(saved')  BY <1>2, <1>3, <1>6, <1>7
  <2>2. saving' \subseteq 1 .. taken'  BY <1>1, <1>3 DEF HistoryTypes
  <2> QED  BY <1>1, <1>3, <1>5, <1>6, <2>1, <2>2 DEF HistoryTypes
<1>9. LostSaves' \subseteq LostSaves \cup {Len(saved) + 1}
  <2> SUFFICES ASSUME NEW i \in LostSaves', i # Len(saved) + 1 PROVE i \in LostSaves
    OBVIOUS
  <2>1. i \in DOMAIN saved' /\ \A j \in DOMAIN lines' : lines'[j] # saved'[i]
    BY DEF LostSaves
  <2>2. i \in 1 .. Len(saved)  BY <2>1, <1>2, <1>6
  <2>3. \A j \in DOMAIN lines : j \in DOMAIN lines' /\ lines'[j] = lines[j]
    BY <1>2, <1>5
  <2> QED  BY <2>1, <2>2, <2>3, <1>2, <1>6 DEF LostSaves
<1>10. LossesPaid'
  <2>1. CASE tail = << >>
    <3>1. Glued(n) = n  BY <2>1 DEF Glued
    <3>2. Len(lines) + 1 \in DOMAIN lines'  BY <1>2, <1>5
    <3>3. Len(saved) + 1 \notin LostSaves'
      BY <3>1, <3>2, <1>5, <1>6 DEF LostSaves
    <3>4. LostSaves' \subseteq LostSaves  BY <3>3, <1>9
    <3>5. Cardinality(LostSaves') <= Cardinality(LostSaves) /\ Cardinality(LostSaves') \in Nat
      BY <3>4, <1>2, FS_Subset, FS_CardinalityType
    <3> QED  BY <2>1, <3>5, <1>2, <1>3, <1>7 DEF HistoryIndInv, LossesPaid
  <2>2. CASE tail # << >>
    <3> DEFINE T == LostSaves \cup {Len(saved) + 1}
    <3>1. IsFiniteSet(T) /\ Cardinality(T) <= Cardinality(LostSaves) + 1
      <4>1. CASE Len(saved) + 1 \in LostSaves
        <5>1. T = LostSaves  BY <4>1
        <5> HIDE DEF T
        <5> QED  BY <5>1, <1>2
      <4>2. CASE Len(saved) + 1 \notin LostSaves
        <5>1. IsFiniteSet(T) /\ Cardinality(T) = Cardinality(LostSaves) + 1
          BY <4>2, <1>2, FS_AddElement
        <5> HIDE DEF T
        <5> QED  BY <5>1, <1>2
      <4> QED  BY <4>1, <4>2
    <3>2. Cardinality(LostSaves') <= Cardinality(T) /\ Cardinality(LostSaves') \in Nat
          /\ Cardinality(T) \in Nat
      BY <1>9, <3>1, FS_Subset, FS_CardinalityType
    <3> HIDE DEF T
    <3>3. Len(tail') = 0  BY <1>3
    <3> QED  BY <2>2, <3>1, <3>2, <3>3, <1>2, <1>3, <1>7 DEF HistoryIndInv, LossesPaid
  <2> QED  BY <2>1, <2>2
<1>11. InOrderSince'
  <2>1. CASE lately = 0
    BY <2>1, <1>2, <1>3, <1>5 DEF InOrderSince
  <2>2. CASE lately > 0
    <3>1. /\ tail = << >> /\ lately <= Len(lines)
          /\ \A k \in 0 .. lately - 2 : lines[Len(lines) - k] = saved[Len(saved) - k]
      BY <2>2 DEF HistoryIndInv, InOrderSince
    <3>2. Glued(n) = n  BY <3>1 DEF Glued
    <3>3. ASSUME NEW k \in 0 .. lately' - 2
          PROVE  lines'[Len(lines') - k] = saved'[Len(saved') - k]
      <4>1. CASE k = 0
        BY <4>1, <3>2, <1>2, <1>5, <1>6
      <4>2. CASE k # 0
        <5>1. k - 1 \in 0 .. lately - 2  BY <4>2, <1>3, <1>7
        <5>2. k - 1 \in 0 .. lately - 2 /\ k \in Nat /\ k - 1 \in Nat  BY <5>1
        <5>3. \A size, m, j \in Nat : j \in Nat /\ m <= size /\ j - 1 \in 0 .. m - 2 =>
                /\ size + 1 - j = size - (j - 1)
                /\ size - (j - 1) \in 1 .. size
          OBVIOUS
        <5>4. Len(lines) \in Nat /\ Len(saved) \in Nat  BY <1>2
        <5>5. /\ Len(lines) + 1 - k = Len(lines) - (k - 1)
              /\ Len(lines) - (k - 1) \in 1 .. Len(lines)
          BY <5>2, <5>3, <5>4, <3>1, <1>7
        <5>6. /\ Len(saved) + 1 - k = Len(saved) - (k - 1)
              /\ Len(saved) - (k - 1) \in 1 .. Len(saved)
          BY <5>2, <5>3, <5>4, <1>7
        <5>7. Len(lines') = Len(lines) + 1 /\ Len(saved') = Len(saved) + 1  BY <1>5, <1>6
        <5>8. lines[Len(lines) - (k - 1)] = saved[Len(saved) - (k - 1)]  BY <5>1, <3>1
        <5>9. lines'[Len(lines) - (k - 1)] = lines[Len(lines) - (k - 1)]  BY <5>5, <1>5
        <5>10. saved'[Len(saved) - (k - 1)] = saved[Len(saved) - (k - 1)]  BY <5>6, <1>6
        <5> QED  BY <5>5, <5>6, <5>7, <5>8, <5>9, <5>10
      <4> QED  BY <4>1, <4>2
    <3>4. lately' <= Len(lines')  BY <3>1, <1>2, <1>3, <1>5, <1>7
    <3> QED  BY <3>3, <3>4, <1>3 DEF InOrderSince
  <2> QED  BY <2>1, <2>2, <1>7
<1> QED  BY <1>8, <1>10, <1>11 DEF HistoryIndInv

(* An append is cut off: whatever it left, it is one incident, and what    *)
(* was behind it is not in order any more.                                 *)
LEMMA SaveFailsStep ==
  ASSUME HistoryIndInv, NEW n \in saving, SaveFails(n)
  PROVE  HistoryIndInv'
<1>1. HistoryTypes /\ n \in 1 .. taken
  BY DEF HistoryIndInv, HistoryTypes
<1>2. Glued(n) \in Unreadable .. taken /\ Unreadable \in Unreadable .. taken
  BY <1>1, GluedIsLine, HistoryFacts
<1>3. saving' \subseteq saving /\ UNCHANGED <<process, taken, saved>>  BY DEF SaveFails
<1>4. CASE UNCHANGED <<lines, tail, incidents, lately>>
  <2>1. HistoryTypes'  BY <1>1, <1>3, <1>4 DEF HistoryTypes
  <2>2. LossesPaid' /\ InOrderSince'
    BY <1>3, <1>4 DEF HistoryIndInv, LossesPaid, LostSaves, InOrderSince
  <2> QED  BY <2>1, <2>2 DEF HistoryIndInv
<1>5. CASE /\ \/ tail' = <<Unreadable>> /\ UNCHANGED lines
              \/ tail' = <<Glued(n)>> /\ UNCHANGED lines
              \/ AppendsLine(n)
           /\ incidents' = incidents + 1
           /\ lately' = 0
  <2>1. /\ tail' = << >> \/ \E m \in Unreadable .. taken : tail' = <<m>>
        /\ \/ UNCHANGED lines
           \/ \E x \in Unreadable .. taken : lines' = Append(lines, x)
    BY <1>2, <1>5 DEF AppendsLine
  <2>2. lines' \in Seq(Unreadable .. taken)
    BY <1>1, <2>1, AppendedLine DEF HistoryTypes
  <2>3. incidents \in Nat /\ Len(saved) \in Nat /\ Cardinality(LostSaves) \in Nat
        /\ Len(tail) \in {0, 1}
    BY <1>1, HistoryFacts DEF HistoryTypes
  <2>4. HistoryTypes'
    BY <1>1, <1>3, <1>5, <2>1, <2>2, <2>3 DEF HistoryTypes
  <2>5. Cardinality(LostSaves') \in Nat /\ Cardinality(LostSaves') <= Cardinality(LostSaves)
    BY <1>1, <1>3, <2>1, LossesStay
  <2>6. Len(tail') \in {0, 1}  BY <2>1
  <2>7. Cardinality(LostSaves) + Len(tail) <= incidents  BY DEF HistoryIndInv, LossesPaid
  <2>8. incidents' = incidents + 1  BY <1>5
  <2>9. Cardinality(LostSaves') + Len(tail') <= incidents'
    <3>1. \A l, m, t, u, i \in Nat : l + t <= i /\ m <= l /\ u <= 1 => m + u <= i + 1
      OBVIOUS
    <3>2. \A t \in {0, 1} : t \in Nat /\ t <= 1  OBVIOUS
    <3>3. Len(tail) \in Nat /\ Len(tail') \in Nat /\ Len(tail') <= 1
      BY <2>3, <2>6, <3>2, Zenon
    <3> QED  BY <2>3, <2>5, <2>7, <2>8, <3>1, <3>3, Zenon
  <2>10. LossesPaid'  BY <2>9 DEF LossesPaid
  <2>11. InOrderSince'  BY <1>5 DEF InOrderSince
  <2> QED  BY <2>4, <2>10, <2>11 DEF HistoryIndInv
<1> QED  BY <1>4, <1>5 DEF SaveFails

(* Every step keeps the invariant.                                         *)
LEMMA HistoryStep == HistoryIndInv /\ [HistoryNext]_historyVars => HistoryIndInv'
<1> SUFFICES ASSUME HistoryIndInv, [HistoryNext]_historyVars PROVE HistoryIndInv'
  OBVIOUS
<1>1. CASE UNCHANGED historyVars
  BY <1>1 DEF historyVars, HistoryIndInv, HistoryTypes, LossesPaid, LostSaves, InOrderSince
<1>2. CASE PersistenceStarts \/ SaveStarts \/ FinalSave \/ PersistenceEnds
  BY <1>2, ProcessStep
<1>3. CASE \E n \in saving : SaveSucceeds(n) \/ SaveFails(n)
  BY <1>3, SaveSucceedsStep, SaveFailsStep
<1> QED  BY <1>1, <1>2, <1>3 DEF HistoryNext

(* No file and no history.                                                 *)
LEMMA HistoryStart == HistoryInit => HistoryIndInv
<1> SUFFICES ASSUME HistoryInit PROVE HistoryIndInv
  OBVIOUS
<1>1. HistoryTypes
  <2>1. << >> \in Seq(Unreadable .. 0) /\ << >> \in Seq(1 .. 0) /\ Len(<< >>) = 0
    BY EmptySeq
  <2>2. MaxSaves \in Nat  BY HistoryAssumption
  <2> QED  BY <2>1, <2>2 DEF HistoryInit, HistoryTypes
<1>2. LossesPaid
  <2>1. saved = << >> /\ tail = << >> /\ incidents = 0  BY DEF HistoryInit
  <2>2. LostSaves = {}  BY <2>1 DEF LostSaves
  <2>3. Cardinality(LostSaves) = 0  BY <2>2, FS_EmptySet
  <2> HIDE DEF LostSaves
  <2> QED  BY <2>1, <2>3 DEF LossesPaid
<1>3. InOrderSince  BY DEF HistoryInit, InOrderSince
<1> QED  BY <1>1, <1>2, <1>3 DEF HistoryIndInv

(* The history's invariant holds throughout: torn lines, overlapping saves *)
(* and restarts.                                                           *)
THEOREM HistoryInvariance == HistorySpec => []HistoryIndInv
<1> QED  BY HistoryStart, HistoryStep, PTL DEF HistorySpec

(* No more saves are under way than the bound allows.                      *)
InFlight == IsFiniteSet(saving) /\ Cardinality(saving) <= MaxInFlight

(* A snapshot is taken only while there is room; the other steps start no  *)
(* save.                                                                   *)
LEMMA InFlightStep == InFlight /\ [HistoryNext]_historyVars => InFlight'
<1> SUFFICES ASSUME InFlight, [HistoryNext]_historyVars PROVE InFlight'
  OBVIOUS
<1>1. MaxInFlight \in Nat /\ Cardinality(saving) \in Nat
  BY HistoryAssumption, FS_CardinalityType DEF InFlight
<1>2. CASE UNCHANGED saving
  BY <1>2 DEF InFlight
<1>3. CASE TakesSnapshot
  <2>1. Cardinality(saving) < MaxInFlight /\ saving' = saving \cup {taken'}
    BY <1>3 DEF TakesSnapshot
  <2>2. IsFiniteSet(saving')
        /\ Cardinality(saving') = IF taken' \in saving THEN Cardinality(saving)
                                  ELSE Cardinality(saving) + 1
    BY <2>1, FS_AddElement DEF InFlight
  <2>3. Cardinality(saving') <= MaxInFlight  BY <1>1, <2>1, <2>2
  <2> QED  BY <2>2, <2>3 DEF InFlight
<1>4. CASE saving' \subseteq saving
  <2>1. IsFiniteSet(saving') /\ Cardinality(saving') <= Cardinality(saving)
        /\ Cardinality(saving') \in Nat
    BY <1>4, FS_Subset, FS_CardinalityType DEF InFlight
  <2>2. Cardinality(saving') <= MaxInFlight  BY <1>1, <2>1 DEF InFlight
  <2> QED  BY <2>1, <2>2 DEF InFlight
<1>5. UNCHANGED saving \/ TakesSnapshot \/ saving' \subseteq saving
  BY DEF HistoryNext, historyVars, PersistenceStarts, SaveStarts, FinalSave, SaveSucceeds,
     SaveFails, PersistenceEnds
<1> QED  BY <1>2, <1>3, <1>4, <1>5

(* The file, its torn end and the saves under way keep their types         *)
(* (MetricsPersistenceService).                                            *)
THEOREM HistoryTypeCorrect == HistorySpec => []HistoryTypeOK
<1>1. HistoryInit => InFlight
  BY FS_EmptySet, HistoryAssumption DEF HistoryInit, InFlight
<1>2. HistorySpec => []InFlight
  BY <1>1, InFlightStep, PTL DEF HistorySpec
<1>3. HistoryIndInv /\ InFlight => HistoryTypeOK
  <2> SUFFICES ASSUME HistoryIndInv, InFlight PROVE HistoryTypeOK
    OBVIOUS
  <2>1. tail \in Seq(Unreadable .. taken) /\ Len(tail) <= 1
    <3>1. \A n \in Unreadable .. taken : <<n>> \in Seq(Unreadable .. taken) /\ Len(<<n>>) = 1
      OBVIOUS
    <3>2. << >> \in Seq(Unreadable .. taken) /\ Len(<< >>) = 0  BY EmptySeq
    <3>3. 0 <= 1 /\ 1 <= 1  OBVIOUS
    <3>4. CASE tail = << >>  BY <3>2, <3>3, <3>4
    <3>5. ASSUME NEW n \in Unreadable .. taken, tail = <<n>>
          PROVE  tail \in Seq(Unreadable .. taken) /\ Len(tail) <= 1
      BY <3>1, <3>3, <3>5
    <3> QED  BY <3>4, <3>5 DEF HistoryIndInv, HistoryTypes
  <2> QED  BY <2>1 DEF HistoryIndInv, HistoryTypes, InFlight, HistoryTypeOK
<1> QED  BY <1>2, <1>3, HistoryInvariance, PTL

(* An append that was cut off costs one save at most of those reported     *)
(* done (FileMetricsRepository.saveMetrics).                               *)
THEOREM TearsAreIsolated == HistorySpec => []OneTearOneLoss
<1>1. HistoryIndInv => OneTearOneLoss
  <2> SUFFICES ASSUME HistoryIndInv PROVE OneTearOneLoss
    OBVIOUS
  <2>1. Cardinality(LostSaves) \in Nat /\ Len(tail) \in Nat /\ incidents \in Nat
    BY HistoryFacts DEF HistoryIndInv, HistoryTypes
  <2>2. Cardinality(LostSaves) + Len(tail) <= incidents  BY DEF HistoryIndInv, LossesPaid
  <2>3. Cardinality(LostSaves) <= incidents  BY <2>1, <2>2
  <2> QED  BY <2>3 DEF OneTearOneLoss, LostSaves
<1> QED  BY <1>1, HistoryInvariance, PTL

(* limit + 1 saves after the last torn line, the last limit of them can be *)
(* read, in their order (FileMetricsRepository.getMetricsHistory).         *)
THEOREM LastSavesComeBack == HistorySpec => []LastSavesReadable
<1>1. HistoryIndInv => LastSavesReadable
  <2> SUFFICES ASSUME HistoryIndInv, NEW limit \in 1 .. lately - 1
               PROVE  MetricsHistory(limit) = SubSeq(saved, Len(saved) - limit + 1, Len(saved))
    BY DEF LastSavesReadable
  <2>1. /\ Len(lines) \in Nat /\ DOMAIN lines = 1 .. Len(lines)
        /\ Len(saved) \in Nat /\ DOMAIN saved = 1 .. Len(saved)
        /\ \A i \in 1 .. Len(saved) : saved[i] \in 1 .. taken
        /\ taken \in Nat /\ Unreadable = 0
    BY HistoryFacts DEF HistoryIndInv
  <2>2. /\ lines \in Seq(Unreadable .. taken) /\ saved \in Seq(1 .. taken)
        /\ lately \in Nat /\ lately <= Len(saved)
    BY <2>1 DEF HistoryIndInv, HistoryTypes
  <2>3. /\ tail = << >> /\ lately <= Len(lines)
        /\ \A k \in 0 .. lately - 2 : lines[Len(lines) - k] = saved[Len(saved) - k]
    BY <2>2 DEF HistoryIndInv, InOrderSince
  <2>4. lines \o tail = lines  BY <2>2, <2>3, ConcatEmptySeq
  <2> DEFINE a == SubSeq(lines, Len(lines) - limit + 1, Len(lines))
             b == SubSeq(saved, Len(saved) - limit + 1, Len(saved))
  <2>5. limit \in Nat /\ limit # 0 /\ limit < lately /\ limit < Len(lines) /\ limit < Len(saved)
    BY <2>1, <2>2, <2>3
  <2>6. Latest(lines \o tail, limit) = a
    BY <2>1, <2>4, <2>5 DEF Latest
  <2>7. /\ a \in Seq(Unreadable .. taken) /\ Len(a) = limit
        /\ \A i \in 1 .. limit : a[i] = lines[Len(lines) - limit + i]
    <3>1. limit <= Len(lines)  BY <2>1, <2>5
    <3> QED  BY <2>2, <2>5, <3>1, LastItems
  <2>8. /\ b \in Seq(1 .. taken) /\ Len(b) = limit
        /\ \A i \in 1 .. limit : b[i] = saved[Len(saved) - limit + i]
    <3>1. limit <= Len(saved)  BY <2>1, <2>5
    <3> QED  BY <2>2, <2>5, <3>1, LastItems
  <2> HIDE DEF a, b
  <2>9. ASSUME NEW i \in 1 .. limit PROVE a[i] = b[i] /\ a[i] # Unreadable
    <3>1. limit - i \in 0 .. lately - 2  BY <2>2, <2>5
    <3>2. /\ Len(lines) - (limit - i) = Len(lines) - limit + i
          /\ Len(saved) - (limit - i) = Len(saved) - limit + i
          /\ Len(saved) - limit + i \in 1 .. Len(saved)
      BY <2>1, <2>5
    <3>3. lines[Len(lines) - limit + i] = saved[Len(saved) - limit + i]
      BY <2>3, <3>1, <3>2
    <3>4. saved[Len(saved) - limit + i] \in 1 .. taken  BY <2>1, <3>2
    <3>5. \A top \in Nat : 0 \notin 1 .. top  OBVIOUS
    <3>6. saved[Len(saved) - limit + i] # Unreadable  BY <2>1, <3>4, <3>5
    <3>7. a[i] = lines[Len(lines) - limit + i]  BY <2>7
    <3>8. b[i] = saved[Len(saved) - limit + i]  BY <2>8
    <3> QED  BY <3>3, <3>6, <3>7, <3>8
  <2>10. a = b  BY <2>7, <2>8, <2>9, SeqEqual
  <2>11. DOMAIN a = 1 .. limit  BY <2>7, LenProperties
  <2>12. MetricsHistory(limit) = a  BY <2>6, <2>9, <2>11 DEF MetricsHistory
  <2> QED  BY <2>10, <2>12 DEF b
<1> QED  BY <1>1, HistoryInvariance, PTL

--------------------------------------------------------------------------------
(* EventQueries: sets of rows and the order of their keys                  *)

(* A set of naturals has a least element.                                  *)
LEMMA LeastNatural ==
  ASSUME NEW S \in SUBSET Nat, S # {}
  PROVE  \E x \in S : \A y \in S : x <= y
<1>1. PICK x \in S : \A y \in S : <<y, x>> \notin OpToRel(<, Nat)
  BY WFMin, NatLessThanWellFounded, Zenon
<1>2. \A y \in S : ~ (y < x)
  BY <1>1, Zenon DEF OpToRel
<1> QED  BY <1>2

(* Whether something of T comes first, and something last, by the key f.   *)
HasEnds(T, f) == \E lo, hi \in T : \A t \in T : f[lo] <= f[t] /\ f[t] <= f[hi]

(* Of finitely many things one has the least key, and one the greatest: a  *)
(* smallest set without ends would, less any member, be one still smaller. *)
LEMMA Extremes ==
  ASSUME NEW S, IsFiniteSet(S), S # {}, NEW f, \A s \in S : f[s] \in Int
  PROVE  HasEnds(S, f)
<1> DEFINE Endless == {T \in SUBSET S : T # {} /\ ~ HasEnds(T, f)}
           Sizes == {n \in Nat : \E T \in Endless : Cardinality(T) = n}
<1>1. ASSUME ~ HasEnds(S, f) PROVE FALSE
  <2>1. Cardinality(S) \in Sizes  BY <1>1, FS_CardinalityType
  <2>2. PICK n \in Sizes : \A m \in Sizes : n <= m  BY <2>1, LeastNatural
  <2>3. PICK T \in Endless : Cardinality(T) = n  BY <2>2
  <2>4. PICK x : x \in T  BY <2>3
  <2> DEFINE U == T \ {x}
  <2>5. IsFiniteSet(T) /\ n \in Nat /\ \A t \in T : f[t] \in Int
    BY <2>3, FS_Subset, FS_CardinalityType
  <2>6. IsFiniteSet(U) /\ Cardinality(U) = n - 1
    BY <2>3, <2>4, <2>5, FS_RemoveElement
  <2>7. CASE U = {}
    <3>1. T = {x}  BY <2>4, <2>7
    <3>2. \A t \in T : f[x] <= f[t] /\ f[t] <= f[x]  BY <2>5, <3>1
    <3> QED  BY <2>3, <2>4, <3>2 DEF HasEnds
  <2>8. CASE U # {}
    <3>1. Cardinality(U) \in Nat  BY <2>6, FS_CardinalityType
    <3>2. ~ n <= Cardinality(U)  BY <2>5, <2>6
    <3>3. U \notin Endless  BY <2>2, <3>1, <3>2
    <3>4. HasEnds(U, f)  BY <2>3, <2>8, <3>3
    <3>5. PICK lo, hi \in U : \A t \in U : f[lo] <= f[t] /\ f[t] <= f[hi]
      BY <3>4 DEF HasEnds
    <3> DEFINE lo2 == IF f[x] <= f[lo] THEN x ELSE lo
               hi2 == IF f[hi] <= f[x] THEN x ELSE hi
    <3>6. lo2 \in T /\ hi2 \in T  BY <2>4, <3>5
    <3>7. ASSUME NEW t \in T PROVE f[lo2] <= f[t] /\ f[t] <= f[hi2]
      <4>1. f[x] \in Int /\ f[lo] \in Int /\ f[hi] \in Int /\ f[t] \in Int
        BY <2>4, <2>5, <3>5
      <4>2. t = x \/ (f[lo] <= f[t] /\ f[t] <= f[hi])  BY <3>5
      <4> QED  BY <4>1, <4>2
    <3> HIDE DEF lo2, hi2
    <3>8. HasEnds(T, f)  BY <3>6, <3>7 DEF HasEnds
    <3> QED  BY <2>3, <3>8
  <2> QED  BY <2>7, <2>8
<1> QED  BY <1>1

(* The offsets of time zones have a greatest and a least.                  *)
LEMMA ZoneEnds ==
  \E least, greatest \in Zone : \A z \in Zone : least <= z /\ z <= greatest
<1> DEFINE f == [z \in Zone |-> z]
<1>1. Zone # {} /\ IsFiniteSet(Zone) /\ \A z \in Zone : f[z] \in Int  BY QueriesAssumption
<1>2. HasEnds(Zone, f)  BY <1>1, Extremes
<1> QED  BY <1>2 DEF HasEnds

(* No offset is further behind UTC than BehindUTC.                         *)
LEMMA BehindFacts == BehindUTC \in Int /\ \A z \in Zone : - z <= BehindUTC
<1>1. PICK least, greatest \in Zone : \A z \in Zone : least <= z /\ z <= greatest
  BY ZoneEnds
<1>2. \A z \in Zone : z \in Int  BY QueriesAssumption
<1>3. \A z \in Zone : - z <= - least  BY <1>1, <1>2
<1>4. /\ BehindUTC \in {- z : z \in Zone}
      /\ \A z \in Zone : - z <= BehindUTC
  BY <1>3 DEF BehindUTC
<1> QED  BY <1>2, <1>4

(* The rows that sort above a key, and those that have it.                 *)
Above(rows, k) == {r \in rows : Text(r) > k}
At(rows, k) == {r \in rows : Text(r) = k}

(* What of n rows can be on one page.                                      *)
Fitting(n) == IF n <= 0 THEN 0 ELSE IF n <= PageSize THEN n ELSE PageSize

(* Rows with integer keys, of which there are finitely many.               *)
Keyed(rows) == IsFiniteSet(rows) /\ \A r \in rows : Text(r) \in Int

(* Above a key are those with the next key, and those above that.          *)
LEMMA AboveSplits ==
  ASSUME NEW rows, Keyed(rows), NEW k \in Int, NEW n \in Int, k < n,
         \A r \in rows : Text(r) > k => n <= Text(r)
  PROVE  /\ Cardinality(Above(rows, k)) \in Nat
         /\ Cardinality(Above(rows, n)) \in Nat /\ Cardinality(At(rows, n)) \in Nat
         /\ Cardinality(Above(rows, k)) = Cardinality(Above(rows, n)) + Cardinality(At(rows, n))
<1>1. /\ IsFiniteSet(Above(rows, k))
      /\ IsFiniteSet(Above(rows, n)) /\ IsFiniteSet(At(rows, n))
  BY FS_Subset DEF Above, At, Keyed
<1>2. Above(rows, k) = Above(rows, n) \cup At(rows, n)
  <2>1. \A r \in rows : Text(r) > k <=> Text(r) > n \/ Text(r) = n
    BY DEF Keyed
  <2> QED  BY <2>1 DEF Above, At
<1>3. Above(rows, n) \cap At(rows, n) = {}
  <2>1. \A r \in rows : ~ (Text(r) > n /\ Text(r) = n)  BY DEF Keyed
  <2> QED  BY <2>1 DEF Above, At
<1>4. /\ Cardinality(Above(rows, k)) \in Nat
      /\ Cardinality(Above(rows, n)) \in Nat /\ Cardinality(At(rows, n)) \in Nat
  BY <1>1, FS_CardinalityType
<1>5. Cardinality(Above(rows, n) \cup At(rows, n))
        = Cardinality(Above(rows, n)) + Cardinality(At(rows, n)) - Cardinality({})
  BY <1>1, <1>3, FS_Union
<1> QED  BY <1>2, <1>4, <1>5, FS_EmptySet

(* The share of a page that falls to a key with s rows, a rows ahead.      *)
LEMMA FittingSplits ==
  ASSUME NEW a \in Nat, NEW s \in Nat, NEW offset \in Nat
  PROVE  LET first == IF a > offset THEN a ELSE offset
             last == IF a + s < offset + PageSize THEN a + s ELSE offset + PageSize
         IN Fitting(a + s - offset)
              = Fitting(a - offset) + (IF last > first THEN last - first ELSE 0)
<1>1. PageSize \in Nat \ {0}  BY QueriesAssumption
<1> QED  BY <1>1 DEF Fitting

(* A page, newest first, takes its rows from the offset on and leaves none *)
(* out: of the rows above any key it has as many as fit.                   *)
LEMMA PageCount ==
  ASSUME NEW rows, Keyed(rows), NEW items \in SUBSET rows, NEW offset \in Nat,
         IsPage(items, rows, offset, "DESC"), NEW key \in Int
  PROVE  Cardinality(Above(items, key)) = Fitting(Cardinality(Above(rows, key)) - offset)
<1> DEFINE Fits(k) == Cardinality(Above(items, k)) = Fitting(Cardinality(Above(rows, k)) - offset)
           Sizes == {n \in Nat : \E k \in Int : ~ Fits(k) /\ Cardinality(Above(rows, k)) = n}
<1>1. Keyed(items)  BY FS_Subset DEF Keyed
<1>2. \A k : IsFiniteSet(Above(rows, k)) /\ Cardinality(Above(rows, k)) \in Nat
  BY FS_Subset, FS_CardinalityType DEF Above, Keyed
<1>3. ASSUME NEW bad \in Int, ~ Fits(bad) PROVE FALSE
  <2>1. Cardinality(Above(rows, bad)) \in Sizes  BY <1>2, <1>3
  <2>2. PICK n \in Sizes : \A m \in Sizes : n <= m  BY <2>1, LeastNatural
  <2>3. PICK k \in Int : ~ Fits(k) /\ Cardinality(Above(rows, k)) = n  BY <2>2
  <2>4. CASE Above(rows, k) = {}
    <3>1. Above(items, k) = {}  BY <2>4 DEF Above
    <3>2. Cardinality(Above(rows, k)) = 0 /\ Cardinality(Above(items, k)) = 0
      BY <2>4, <3>1, FS_EmptySet
    <3>3. Fitting(0 - offset) = 0  BY DEF Fitting
    <3> QED  BY <2>3, <3>2, <3>3
  <2>5. CASE Above(rows, k) # {}
    <3> DEFINE f == [r \in Above(rows, k) |-> Text(r)]
    <3>1. \A r \in Above(rows, k) : f[r] \in Int  BY DEF Above, Keyed
    <3>2. HasEnds(Above(rows, k), f)  BY <1>2, <2>5, <3>1, Extremes
    <3>3. PICK low \in Above(rows, k) : \A r \in Above(rows, k) : Text(low) <= Text(r)
      BY <3>2 DEF HasEnds
    <3> DEFINE next == Text(low)
    <3>4. next \in Int /\ k < next /\ low \in rows /\ low \in At(rows, next)
          /\ (\A r \in rows : Text(r) > k => next <= Text(r))
      BY <3>3 DEF Above, At, Keyed
    <3>5. \A r \in items : Text(r) > k => next <= Text(r)  BY <3>4
    <3> HIDE DEF f
    <3> DEFINE a == Cardinality(Above(rows, next))
               s == Cardinality(At(rows, next))
               b == Cardinality(Above(items, next))
               t == Cardinality(At(items, next))
               first == IF a > offset THEN a ELSE offset
               last == IF a + s < offset + PageSize THEN a + s ELSE offset + PageSize
    <3>6. t = (IF last > first THEN last - first ELSE 0)
      <4>1. next \in {Text(r) : r \in rows}  BY <3>4
      <4>2. {r \in rows : Before(Text(r), next, "DESC")} = Above(rows, next)
        BY DEF Before, Above
      <4>3. {r \in rows : Text(r) = next} = At(rows, next)
            /\ {r \in items : Text(r) = next} = At(items, next)
        BY DEF At
      <4> HIDE DEF next
      <4> QED  BY <4>1, <4>2, <4>3 DEF IsPage
    <3>7. a \in Nat /\ s \in Nat /\ Cardinality(Above(rows, k)) = a + s
      BY <3>4, AboveSplits
    <3>8. b \in Nat /\ t \in Nat /\ Cardinality(Above(items, k)) = b + t
      BY <1>1, <3>4, <3>5, AboveSplits
    <3>9. s > 0
      <4>1. IsFiniteSet(At(rows, next))  BY FS_Subset DEF At, Keyed
      <4>2. At(rows, next) # {}  BY <3>4
      <4>3. s # 0  BY <4>1, <4>2, FS_EmptySet
      <4> HIDE DEF s
      <4> QED  BY <3>7, <4>3
    <3> HIDE DEF next
    <3>10. b = Fitting(a - offset)
      <4>1. a < n
        <5> HIDE DEF a, s
        <5> QED  BY <2>3, <3>7, <3>9
      <4>2. n \in Nat /\ a \in Nat /\ ~ n <= a  BY <3>7, <4>1
      <4>3. a \notin Sizes  BY <2>2, <4>2
      <4> QED  BY <3>4, <3>7, <4>3
    <3>11. Fitting(a + s - offset) = Fitting(a - offset) + (IF last > first THEN last - first ELSE 0)
      BY <3>7, FittingSplits
    <3>12. Fitting(a + s - offset) = b + t  BY <3>6, <3>10, <3>11
    <3> QED  BY <2>3, <3>7, <3>8, <3>12
  <2> QED  BY <2>4, <2>5
<1> QED  BY <1>3

--------------------------------------------------------------------------------
(* EventQueries: the invariant                                             *)

WalkTypes ==
  \/ walk = [pc |-> "none"]
  \/ walk \in [pc : {"asking"}, low : Int, high : Int, order : {"ASC", "DESC"},
               page : 1 .. DtoMaxPage, unseen : SUBSET Row]
  \/ walk \in [pc : {"done", "stopped"}, order : {"ASC", "DESC"}, unseen : SUBSET Row]

TableTypes ==
  /\ day \in 0 .. MaxDay
  /\ table \subseteq Row /\ IsFiniteSet(table)
  /\ cleanups \subseteq - RetentionDays .. MaxDay
  /\ IsFiniteSet(cleanups) /\ Cardinality(cleanups) <= MaxCleanups

(* No deletion has a cutoff that would still be too young today.           *)
CutoffsAreOld == \A cutoff \in cleanups : cutoff <= day - RetentionDays

UnseenStay == walk.pc # "none" => walk.unseen \subseteq table

(* What the client has not got yet lies, newest first, behind all it has   *)
(* asked for: as many matching rows are ahead of it as the next offset.    *)
UnseenLiesAhead ==
  walk.pc = "asking" =>
    \A r \in walk.unseen :
      /\ walk.low <= Text(r) /\ Text(r) <= walk.high
      /\ \A q \in table : Text(q) = Text(r) => q = r
      /\ walk.order = "DESC" =>
           Offset(walk.page) <= Cardinality(Above(Matching(table, walk.low, walk.high), Text(r)))

QueriesIndInv ==
  TableTypes /\ WalkTypes /\ CutoffsAreOld /\ UnseenStay /\ UnseenLiesAhead /\ WalkSeesAllThatStayed

(* The types of a timestamp's fields, or a row's: an ISO date sorts like   *)
(* its instant and its offset.                                             *)
Dated(t) ==
  /\ t.at \in 0 .. MaxDay /\ t.text \in Int /\ t.iso \in BOOLEAN
  /\ t.iso => t.text - t.at \in Zone
  /\ Text(t) \in Int

(* Timestamps, and what is stored of them, have integer keys.              *)
LEMMA TextFacts ==
  /\ \A t \in Timestamp : Dated(t)
  /\ \A r \in Row : Dated(r)
<1>1. Zone \subseteq Int /\ OddPlace \subseteq Int /\ MaxDay \in Nat  BY QueriesAssumption
<1>2. ASSUME NEW t \in Timestamp
      PROVE  Dated(t)
  <2>1. CASE \E at \in 0 .. MaxDay, zone \in Zone : t = Iso(at, zone)
    <3>1. PICK at \in 0 .. MaxDay, zone \in Zone : t = Iso(at, zone)  BY <2>1
    <3>2. t.at = at /\ t.text = at + zone /\ t.iso = TRUE  BY <3>1 DEF Iso
    <3>3. at \in Int /\ zone \in Int /\ at + zone \in Int /\ (at + zone) - at = zone
      BY <1>1
    <3> QED  BY <3>2, <3>3 DEF Dated, Text
  <2>2. CASE t \in OtherDate
    BY <1>1, <2>2 DEF OtherDate, Dated, Text
  <2>3. t \in IsoDate \/ t \in OtherDate
    BY <1>2 DEF Timestamp
  <2>4. t \in IsoDate => \E at \in 0 .. MaxDay, zone \in Zone : t = Iso(at, zone)
    BY DEF IsoDate
  <2> HIDE DEF Dated
  <2> QED  BY <2>1, <2>2, <2>3, <2>4
<1>3. ASSUME NEW r \in Row
      PROVE  Dated(r)
  BY DEF Row, Dated, Text
<1> QED  BY <1>2, <1>3

(* A timestamp is stored as it is, or replaced by one of today.            *)
LEMMA NormalizedFacts ==
  ASSUME NEW t \in Timestamp, NEW reasonable \in BOOLEAN, day \in 0 .. MaxDay
  PROVE  Normalized(t, reasonable) \in Timestamp
<1>1. Iso(day, 0) \in Timestamp
  <2>1. Iso(day, 0) \in IsoDate
    BY QueriesAssumption DEF IsoDate
  <2> QED  BY <2>1 DEF Timestamp
<1> QED  BY <1>1 DEF Normalized

(* What a search matches is a finite set of rows with integer keys, as the *)
(* counting lemmas ask.                                                    *)
LEMMA MatchingKeyed ==
  ASSUME TableTypes, NEW low \in Int, NEW high \in Int
  PROVE  Keyed(Matching(table, low, high))
<1>1. Matching(table, low, high) \subseteq table  BY DEF Matching
<1> QED  BY <1>1, TextFacts, FS_Subset DEF Keyed, TableTypes, Dated

(* A request for a page knows what it asks for.                            *)
LEMMA AskingFacts ==
  ASSUME WalkTypes, walk.pc = "asking"
  PROVE  /\ walk \in [pc : {"asking"}, low : Int, high : Int, order : {"ASC", "DESC"},
                      page : 1 .. DtoMaxPage, unseen : SUBSET Row]
         /\ walk.low \in Int /\ walk.high \in Int /\ walk.order \in {"ASC", "DESC"}
         /\ walk.page \in 1 .. DtoMaxPage /\ walk.page \in Nat \ {0} /\ walk.unseen \subseteq Row
<1>1. walk \in [pc : {"asking"}, low : Int, high : Int, order : {"ASC", "DESC"},
                page : 1 .. DtoMaxPage, unseen : SUBSET Row]
  BY DEF WalkTypes
<1>2. DtoMaxPage \in Nat  BY QueriesAssumption
<1> QED  BY <1>1, <1>2

(* Offsets are pages long, as far as there are new pages.                  *)
LEMMA OffsetFacts ==
  ASSUME NEW page \in Nat \ {0}
  PROVE  /\ Offset(page) \in Nat /\ Offset(1) = 0
         /\ Offset(page + 1) <= Offset(page) + PageSize
<1>1. PageSize \in Nat /\ MaxPage \in Nat  BY QueriesAssumption
<1> DEFINE c == (page - 1) * PageSize
           m == MaxPage * PageSize
<1>2. c \in Nat /\ m \in Nat  BY <1>1
<1>3. (page + 1 - 1) * PageSize = c + PageSize  BY <1>1
<1>4. (1 - 1) * PageSize = 0  BY <1>1
<1> HIDE DEF c, m
<1>5. Offset(page) = IF c <= m THEN c ELSE m  BY DEF Offset, c, m
<1>6. Offset(page + 1) = IF c + PageSize <= m THEN c + PageSize ELSE m
  BY <1>3 DEF Offset, m
<1>7. Offset(1) = 0  BY <1>2, <1>4 DEF Offset, m
<1> QED  BY <1>1, <1>2, <1>5, <1>6, <1>7

(* What a step must keep when it takes nothing from the walk but rows that *)
(* are gone or have got company, and takes no row from ahead of another.   *)
WalkGoesOn ==
  \/ UNCHANGED walk /\ walk.pc = "none"
  \/ /\ walk.pc # "none"
     /\ \E rest \in SUBSET walk.unseen :
          /\ walk' = [walk EXCEPT !.unseen = rest]
          /\ rest \subseteq table'
          /\ \A r \in rest :
               /\ walk.pc = "asking" => \A q \in table' : Text(q) = Text(r) => q = r
               /\ \A q \in table : Text(q) > Text(r) => q \in table'

(* Such a step keeps what the walk still owes its client in reach.         *)
LEMMA WalkGoesOnStep ==
  ASSUME QueriesIndInv, TableTypes', WalkGoesOn
  PROVE  WalkTypes' /\ UnseenStay' /\ UnseenLiesAhead' /\ WalkSeesAllThatStayed'
<1>1. CASE walk' = walk /\ walk.pc = "none"
  BY <1>1 DEF QueriesIndInv, WalkTypes, UnseenStay, UnseenLiesAhead, WalkSeesAllThatStayed
<1>2. ASSUME walk.pc # "none", NEW rest \in SUBSET walk.unseen,
             walk' = [walk EXCEPT !.unseen = rest],
             rest \subseteq table',
             \A r \in rest :
               /\ walk.pc = "asking" => \A q \in table' : Text(q) = Text(r) => q = r
               /\ \A q \in table : Text(q) > Text(r) => q \in table'
      PROVE  WalkTypes' /\ UnseenStay' /\ UnseenLiesAhead' /\ WalkSeesAllThatStayed'
  <2>1. walk.unseen \subseteq Row /\ rest \subseteq Row
    BY <1>2 DEF QueriesIndInv, WalkTypes
  <2>2. /\ WalkTypes' /\ walk'.pc = walk.pc /\ walk'.order = walk.order /\ walk'.unseen = rest
        /\ walk.pc = "asking" =>
             walk'.low = walk.low /\ walk'.high = walk.high /\ walk'.page = walk.page
    BY <1>2, <2>1 DEF QueriesIndInv, WalkTypes
  <2>3. UnseenStay'  BY <1>2, <2>2 DEF UnseenStay
  <2>4. WalkSeesAllThatStayed'
    BY <1>2, <2>2 DEF QueriesIndInv, WalkSeesAllThatStayed
  <2>5. UnseenLiesAhead'
    <3> SUFFICES ASSUME walk.pc = "asking", NEW r \in rest
                 PROVE  /\ walk.low <= Text(r) /\ Text(r) <= walk.high
                        /\ walk.order = "DESC" =>
                             Offset(walk.page) <= Cardinality(Above(Matching(table', walk.low, walk.high), Text(r)))
      BY <1>2, <2>2 DEF UnseenLiesAhead, Above, Matching, Text, Offset
    <3>1. /\ walk.low <= Text(r) /\ Text(r) <= walk.high
          /\ walk.order = "DESC" =>
               Offset(walk.page) <= Cardinality(Above(Matching(table, walk.low, walk.high), Text(r)))
      BY DEF QueriesIndInv, UnseenLiesAhead
    <3> DEFINE before == Above(Matching(table, walk.low, walk.high), Text(r))
               after == Above(Matching(table', walk.low, walk.high), Text(r))
    <3>2. before \subseteq after  BY <1>2 DEF Above, Matching
    <3>3. IsFiniteSet(after)
      <4>1. after \subseteq table'  BY DEF Above, Matching
      <4>2. IsFiniteSet(table')  BY DEF TableTypes
      <4> QED  BY <4>1, <4>2, FS_Subset
    <3>4. /\ Cardinality(before) <= Cardinality(after)
          /\ Cardinality(before) \in Nat /\ Cardinality(after) \in Nat
      BY <3>2, <3>3, FS_Subset, FS_CardinalityType
    <3>5. Offset(walk.page) \in Nat  BY AskingFacts, OffsetFacts DEF QueriesIndInv
    <3> HIDE DEF before, after
    <3>6. walk.order = "DESC" => Offset(walk.page) <= Cardinality(after)
      BY <3>1, <3>4, <3>5 DEF before
    <3> QED  BY <3>1, <3>6 DEF after
  <2> QED  BY <2>2, <2>3, <2>4, <2>5
<1> QED  BY <1>1, <1>2 DEF WalkGoesOn

(* An event arrives: its row pushes others back, and takes the company of  *)
(* those with its key.                                                     *)
LEMMA StoreStep ==
  ASSUME QueriesIndInv, NEW e \in Event, NEW t \in Timestamp, NEW reasonable \in BOOLEAN,
         Store(e, t, reasonable)
  PROVE  QueriesIndInv'
<1> DEFINE n == Normalized(t, reasonable)
           row == [id |-> e, at |-> n.at, text |-> n.text, iso |-> n.iso]
<1>1. TableTypes /\ day \in 0 .. MaxDay  BY DEF QueriesIndInv, TableTypes
<1>2. /\ table' = table \cup {row} /\ UNCHANGED <<day, cleanups>>
      /\ walk' = IF walk.pc = "none" THEN walk
                 ELSE [walk EXCEPT !.unseen = {r \in @ : Text(r) # Text(row)}]
  BY DEF Store
<1>3. row \in Row
  <2>1. n \in Timestamp
    BY <1>1, NormalizedFacts
  <2>2. /\ n.at \in 0 .. MaxDay /\ n.text \in Int /\ n.iso \in BOOLEAN
        /\ n.iso => n.text - n.at \in Zone
    BY <2>1, TextFacts DEF Dated
  <2> QED  BY <2>2 DEF Row
<1> HIDE DEF row
<1>4. TableTypes'
  BY <1>1, <1>2, <1>3, FS_AddElement DEF TableTypes
<1>5. WalkGoesOn
  <2>1. CASE walk.pc = "none"
    BY <1>2, <2>1 DEF WalkGoesOn
  <2>2. CASE walk.pc # "none"
    <3> DEFINE rest == {r \in walk.unseen : Text(r) # Text(row)}
    <3>1. walk' = [walk EXCEPT !.unseen = rest]  BY <1>2, <2>2
    <3>2. rest \in SUBSET walk.unseen  OBVIOUS
    <3>3. rest \subseteq table'  BY <1>2, <2>2 DEF QueriesIndInv, UnseenStay
    <3>4. \A r \in rest, q \in table' : walk.pc = "asking" /\ Text(q) = Text(r) => q = r
      BY <1>2 DEF QueriesIndInv, UnseenLiesAhead
    <3>5. \A r \in rest, q \in table : Text(q) > Text(r) => q \in table'
      BY <1>2
    <3> QED  BY <2>2, <3>1, <3>2, <3>3, <3>4, <3>5 DEF WalkGoesOn
  <2> QED  BY <2>1, <2>2
<1>6. CutoffsAreOld'  BY <1>2 DEF QueriesIndInv, CutoffsAreOld
<1> QED  BY <1>4, <1>5, <1>6, WalkGoesOnStep DEF QueriesIndInv

(* A deletion takes the oldest keys, so nothing that is ahead, newest      *)
(* first, of a row that stays.                                             *)
LEMMA DeletesStep ==
  ASSUME QueriesIndInv, NEW cutoff \in cleanups, CleanupDeletes(cutoff)
  PROVE  QueriesIndInv'
<1>1. TableTypes  BY DEF QueriesIndInv
<1>2. /\ table' = {r \in table : ~ Expired(r, cutoff)} /\ cleanups' = cleanups \ {cutoff}
      /\ UNCHANGED day
      /\ walk' = IF walk.pc = "none" THEN walk
                 ELSE [walk EXCEPT !.unseen = @ \cap table']
  BY DEF CleanupDeletes
<1>3. TableTypes'
  <2>1. IsFiniteSet(table') /\ IsFiniteSet(cleanups')
        /\ Cardinality(cleanups') <= Cardinality(cleanups)
        /\ Cardinality(cleanups') \in Nat /\ Cardinality(cleanups) \in Nat
    BY <1>1, <1>2, FS_Subset, FS_CardinalityType DEF TableTypes
  <2>2. MaxCleanups \in Nat  BY QueriesAssumption
  <2>3. Cardinality(cleanups') <= MaxCleanups
    BY <1>1, <2>1, <2>2 DEF TableTypes
  <2> QED  BY <1>1, <1>2, <2>1, <2>3 DEF TableTypes
<1>4. WalkGoesOn
  <2>1. CASE walk.pc = "none"
    BY <1>2, <2>1 DEF WalkGoesOn
  <2>2. CASE walk.pc # "none"
    <3> DEFINE rest == walk.unseen \cap table'
    <3>1. walk' = [walk EXCEPT !.unseen = rest]  BY <1>2, <2>2
    <3>2. rest \in SUBSET walk.unseen /\ rest \subseteq table'  OBVIOUS
    <3>3. \A r \in rest, q \in table' : walk.pc = "asking" /\ Text(q) = Text(r) => q = r
      BY <1>2 DEF QueriesIndInv, UnseenLiesAhead
    <3>4. \A r \in rest, q \in table : Text(q) > Text(r) => q \in table'
      <4> SUFFICES ASSUME NEW r \in rest, NEW q \in table, Text(q) > Text(r)
                   PROVE  q \in table'
        OBVIOUS
      <4>1. Text(r) \in Int /\ Text(q) \in Int /\ cutoff \in Int
        BY <1>1, <1>2, TextFacts, QueriesAssumption DEF TableTypes, Dated
      <4>2. ~ Text(r) < cutoff  BY <1>2 DEF Expired
      <4>3. ~ Text(q) < cutoff  BY <4>1, <4>2
      <4> QED  BY <1>2, <4>3 DEF Expired
    <3> QED  BY <2>2, <3>1, <3>2, <3>3, <3>4 DEF WalkGoesOn
  <2> QED  BY <2>1, <2>2
<1>5. CutoffsAreOld'  BY <1>2 DEF QueriesIndInv, CutoffsAreOld
<1> QED  BY <1>3, <1>4, <1>5, WalkGoesOnStep DEF QueriesIndInv

(* A day passes, and deletions begin and fail, without touching a row.     *)
LEMMA CalendarStep ==
  ASSUME QueriesIndInv,
         DayPasses \/ CleanupStarts \/ (\E cutoff \in cleanups : CleanupFails(cutoff))
  PROVE  QueriesIndInv'
<1>1. /\ day \in Int /\ day <= MaxDay /\ day >= 0 /\ MaxDay \in Nat
      /\ RetentionDays \in Nat /\ MaxCleanups \in Nat
      /\ IsFiniteSet(cleanups) /\ Cardinality(cleanups) \in Nat
      /\ cleanups \subseteq - RetentionDays .. MaxDay /\ Cardinality(cleanups) <= MaxCleanups
  BY QueriesAssumption, FS_CardinalityType DEF QueriesIndInv, TableTypes
<1>2. UNCHANGED <<table, walk>>  BY DEF DayPasses, CleanupStarts, CleanupFails
<1>3. /\ day' \in 0 .. MaxDay /\ day <= day'
      /\ cleanups' \subseteq - RetentionDays .. MaxDay
      /\ IsFiniteSet(cleanups') /\ Cardinality(cleanups') <= MaxCleanups
      /\ \A cutoff \in cleanups' : cutoff \in cleanups \/ cutoff = day - RetentionDays
  <2>1. CASE DayPasses
    BY <1>1, <2>1 DEF DayPasses
  <2>2. CASE CleanupStarts
    <3> DEFINE now == day - RetentionDays
    <3>1. Cardinality(cleanups) < MaxCleanups /\ cleanups' = cleanups \cup {now} /\ day' = day
      BY <2>2 DEF CleanupStarts
    <3>2. now \in - RetentionDays .. MaxDay  BY <1>1
    <3>3. IsFiniteSet(cleanups')
          /\ Cardinality(cleanups') = IF now \in cleanups THEN Cardinality(cleanups)
                                      ELSE Cardinality(cleanups) + 1
      BY <1>1, <3>1, FS_AddElement
    <3>4. Cardinality(cleanups') <= MaxCleanups  BY <1>1, <3>1, <3>3
    <3> QED  BY <1>1, <3>1, <3>2, <3>3, <3>4
  <2>3. CASE \E cutoff \in cleanups : CleanupFails(cutoff)
    <3>1. cleanups' \subseteq cleanups /\ day' = day  BY <2>3 DEF CleanupFails
    <3>2. IsFiniteSet(cleanups') /\ Cardinality(cleanups') <= Cardinality(cleanups)
          /\ Cardinality(cleanups') \in Nat
      BY <1>1, <3>1, FS_Subset, FS_CardinalityType
    <3>3. Cardinality(cleanups') <= MaxCleanups  BY <1>1, <3>2
    <3> QED  BY <1>1, <3>1, <3>2, <3>3
  <2> QED  BY <2>1, <2>2, <2>3
<1>4. TableTypes'  BY <1>2, <1>3 DEF QueriesIndInv, TableTypes
<1>5. CutoffsAreOld'
  <2>1. \A c \in - RetentionDays .. MaxDay : c \in Int  BY <1>1
  <2>2. \A c \in cleanups : c \in Int /\ c <= day - RetentionDays
    BY <1>1, <2>1 DEF QueriesIndInv, CutoffsAreOld
  <2>3. day' \in Int /\ day <= day'  BY <1>1, <1>3
  <2>4. /\ RetentionDays \in Nat /\ day \in Int
        /\ day - RetentionDays \in Int /\ day - RetentionDays <= day - RetentionDays
    BY <1>1
  <2>5. \A c, d, e \in Int, n \in Nat : c <= d - n /\ d <= e => c <= e - n
    OBVIOUS
  <2>6. \A c \in cleanups' : c \in Int /\ c <= day - RetentionDays
    BY <1>3, <2>2, <2>4, Zenon
  <2> QED  BY <2>3, <2>4, <2>5, <2>6, Zenon DEF CutoffsAreOld
<1>6. WalkTypes' /\ UnseenStay' /\ UnseenLiesAhead' /\ WalkSeesAllThatStayed'
  BY <1>2 DEF QueriesIndInv, WalkTypes, UnseenStay, UnseenLiesAhead, WalkSeesAllThatStayed,
     Above, Matching, Offset, Text
<1> QED  BY <1>4, <1>5, <1>6 DEF QueriesIndInv

(* What is still unseen after a page, newest first, lies behind all of it. *)
LEMMA PageMissesOnlyLater ==
  ASSUME QueriesIndInv, walk.pc = "asking", walk.order = "DESC",
         NEW items \in SUBSET Matching(table, walk.low, walk.high),
         IsPage(items, Matching(table, walk.low, walk.high), Offset(walk.page), walk.order),
         NEW r \in walk.unseen \ items
  PROVE  /\ Offset(walk.page) + PageSize
              <= Cardinality(Above(Matching(table, walk.low, walk.high), Text(r)))
         /\ Cardinality(items) >= PageSize
<1> DEFINE rows == Matching(table, walk.low, walk.high)
           key == Text(r)
           offset == Offset(walk.page)
           a == Cardinality(Above(rows, key))
<1>1. r \in table /\ r \in rows /\ \A q \in rows : Text(q) = key => q = r
  BY DEF QueriesIndInv, UnseenStay, UnseenLiesAhead, Matching
<1>2. Keyed(rows) /\ Keyed(items) /\ key \in Int
  <2>1. Keyed(rows)  BY AskingFacts, MatchingKeyed DEF QueriesIndInv
  <2> QED  BY <1>1, <2>1, FS_Subset DEF Keyed
<1>3. offset \in Nat /\ offset <= a /\ a \in Nat /\ PageSize \in Nat \ {0}
  <2>1. offset \in Nat  BY AskingFacts, OffsetFacts DEF QueriesIndInv
  <2>2. offset <= a  BY DEF QueriesIndInv, UnseenLiesAhead
  <2>3. IsFiniteSet(Above(rows, key))  BY <1>2, FS_Subset DEF Above, Keyed
  <2> QED  BY <2>1, <2>2, <2>3, FS_CardinalityType, QueriesAssumption
<1> HIDE DEF offset
<1>4. Cardinality({q \in rows : Text(q) = key}) = 1
  <2>1. {q \in rows : Text(q) = key} = {r}  BY <1>1
  <2> QED  BY <2>1, FS_Singleton
<1>5. Cardinality({q \in items : Text(q) = key}) = 0
  <2>1. {q \in items : Text(q) = key} = {}  BY <1>1
  <2> QED  BY <2>1, FS_EmptySet
<1>6. {q \in rows : Before(Text(q), key, walk.order)} = Above(rows, key)
  BY DEF Before, Above
<1> DEFINE first == IF a > offset THEN a ELSE offset
           last == IF a + 1 < offset + PageSize THEN a + 1 ELSE offset + PageSize
<1>7. key \in {Text(q) : q \in rows}  BY <1>1
<1>8. IsPage(items, rows, offset, "DESC")  BY DEF offset
<1> HIDE DEF rows, key
<1>9. 0 = (IF last > first THEN last - first ELSE 0)
  BY <1>4, <1>5, <1>6, <1>7, <1>8 DEF IsPage
<1> HIDE DEF a
<1>10. offset + PageSize <= a  BY <1>3, <1>9
<1>11. Cardinality(Above(items, key)) = Fitting(a - offset)
  BY <1>2, <1>3, <1>8, PageCount DEF a, rows
<1>12. Fitting(a - offset) = PageSize  BY <1>3, <1>10 DEF Fitting
<1>13. Cardinality(Above(items, key)) <= Cardinality(items)
  BY <1>2, FS_Subset DEF Above, Keyed
<1> QED  BY <1>10, <1>11, <1>12, <1>13 DEF a, rows, key, offset

(* A page arrives: the last, or there is another.                          *)
LEMMA PageArrivesStep ==
  ASSUME QueriesIndInv, PageArrives
  PROVE  QueriesIndInv'
<1> DEFINE rows == Matching(table, walk.low, walk.high)
<1>1. walk.pc = "asking" /\ UNCHANGED <<day, table, cleanups>>
  BY DEF PageArrives
<1>2. PICK items \in SUBSET rows :
        /\ IsPage(items, rows, Offset(walk.page), walk.order)
        /\ \/ Cardinality(items) < PageSize /\ WalkEnds("done", walk.unseen \ items)
           \/ /\ Cardinality(items) = PageSize
              /\ IF IsLastPage(walk.page)
                 THEN WalkEnds("stopped", walk.unseen \ items)
                 ELSE walk' = [walk EXCEPT !.unseen = @ \ items, !.page = @ + 1]
  BY DEF PageArrives
<1>3. TableTypes' /\ CutoffsAreOld'
  BY <1>1 DEF QueriesIndInv, TableTypes, CutoffsAreOld
<1>4. /\ walk \in [pc : {"asking"}, low : Int, high : Int, order : {"ASC", "DESC"},
                   page : 1 .. DtoMaxPage, unseen : SUBSET Row]
      /\ walk.order \in {"ASC", "DESC"} /\ walk.unseen \subseteq Row
      /\ walk.page \in 1 .. DtoMaxPage /\ walk.page \in Nat \ {0}
  BY <1>1, AskingFacts DEF QueriesIndInv
<1>5. walk.unseen \subseteq table  BY <1>1 DEF QueriesIndInv, UnseenStay
<1>6. ASSUME NEW r \in walk.unseen \ items, walk.order = "DESC"
      PROVE  /\ Offset(walk.page) + PageSize <= Cardinality(Above(rows, Text(r)))
             /\ Cardinality(items) >= PageSize
  BY <1>1, <1>2, <1>6, PageMissesOnlyLater
<1>7. CASE Cardinality(items) < PageSize /\ WalkEnds("done", walk.unseen \ items)
  <2>1. walk' = [pc |-> "done", order |-> walk.order, unseen |-> walk.unseen \ items]
    BY <1>7 DEF WalkEnds
  <2>2. WalkTypes' /\ UnseenStay' /\ UnseenLiesAhead'
    BY <1>1, <1>4, <1>5, <2>1 DEF WalkTypes, UnseenStay, UnseenLiesAhead
  <2>3. WalkSeesAllThatStayed'
    <3> SUFFICES ASSUME walk.order = "DESC", NEW r \in walk.unseen \ items PROVE FALSE
      BY <2>1 DEF WalkSeesAllThatStayed
    <3>1. Cardinality(items) >= PageSize  BY <1>6
    <3>2. PageSize \in Nat /\ Cardinality(items) \in Nat
      <4>1. Keyed(rows)  BY <1>1, AskingFacts, MatchingKeyed DEF QueriesIndInv
      <4>2. IsFiniteSet(items)  BY <1>2, <4>1, FS_Subset DEF Keyed
      <4> QED  BY <4>2, FS_CardinalityType, QueriesAssumption
    <3> QED  BY <1>7, <3>1, <3>2
  <2> QED  BY <1>3, <2>2, <2>3 DEF QueriesIndInv
<1>8. CASE WalkEnds("stopped", walk.unseen \ items)
  <2>1. walk' = [pc |-> "stopped", order |-> walk.order, unseen |-> walk.unseen \ items]
    BY <1>8 DEF WalkEnds
  <2>2. WalkTypes' /\ UnseenStay' /\ UnseenLiesAhead' /\ WalkSeesAllThatStayed'
    BY <1>1, <1>4, <1>5, <2>1 DEF WalkTypes, UnseenStay, UnseenLiesAhead, WalkSeesAllThatStayed
  <2> QED  BY <1>3, <2>2 DEF QueriesIndInv
<1>9. CASE /\ ~ IsLastPage(walk.page)
           /\ walk' = [walk EXCEPT !.unseen = @ \ items, !.page = @ + 1]
  <2>1. /\ walk'.pc = "asking" /\ walk'.low = walk.low /\ walk'.high = walk.high
        /\ walk'.order = walk.order /\ walk'.page = walk.page + 1
        /\ walk'.unseen = walk.unseen \ items
    BY <1>1, <1>4, <1>9
  <2>2. walk.page + 1 \in 1 .. DtoMaxPage
    BY <1>4, <1>9, QueriesAssumption DEF IsLastPage
  <2>3. WalkTypes'
    <3>1. walk' \in [pc : {"asking"}, low : Int, high : Int, order : {"ASC", "DESC"},
                     page : 1 .. DtoMaxPage, unseen : SUBSET Row]
      BY <1>4, <1>9, <2>2
    <3> QED  BY <3>1 DEF WalkTypes
  <2>4. UnseenStay' /\ WalkSeesAllThatStayed'
    BY <1>1, <1>5, <2>1 DEF UnseenStay, WalkSeesAllThatStayed
  <2>5. UnseenLiesAhead'
    <3> SUFFICES ASSUME NEW r \in walk.unseen \ items
                 PROVE  /\ walk.low <= Text(r) /\ Text(r) <= walk.high
                        /\ \A q \in table : Text(q) = Text(r) => q = r
                        /\ walk.order = "DESC" =>
                             Offset(walk.page + 1) <= Cardinality(Above(rows, Text(r)))
      BY <1>1, <2>1 DEF UnseenLiesAhead, Above, Matching, Text, Offset
    <3>1. /\ walk.low <= Text(r) /\ Text(r) <= walk.high
          /\ \A q \in table : Text(q) = Text(r) => q = r
      BY <1>1 DEF QueriesIndInv, UnseenLiesAhead
    <3>2. ASSUME walk.order = "DESC"
          PROVE  Offset(walk.page + 1) <= Cardinality(Above(rows, Text(r)))
      <4> DEFINE a == Cardinality(Above(rows, Text(r)))
      <4>1. Offset(walk.page) + PageSize <= a  BY <1>6, <3>2
      <4>2. /\ Offset(walk.page) \in Nat /\ Offset(walk.page + 1) \in Nat
            /\ Offset(walk.page + 1) <= Offset(walk.page) + PageSize /\ PageSize \in Nat
        <5>1. walk.page + 1 \in Nat \ {0}  BY <1>4
        <5> QED  BY <1>4, <5>1, OffsetFacts, QueriesAssumption
      <4>3. a \in Nat
        <5>1. Keyed(rows)  BY <1>1, AskingFacts, MatchingKeyed DEF QueriesIndInv
        <5> HIDE DEF rows
        <5>2. IsFiniteSet(Above(rows, Text(r)))  BY <5>1, FS_Subset DEF Above, Keyed
        <5> QED  BY <5>2, FS_CardinalityType
      <4> HIDE DEF a
      <4>4. Offset(walk.page + 1) <= a  BY <4>1, <4>2, <4>3
      <4> QED  BY <4>4 DEF a
    <3> QED  BY <3>1, <3>2
  <2> QED  BY <1>3, <2>3, <2>4, <2>5 DEF QueriesIndInv
<1> QED  BY <1>2, <1>7, <1>8, <1>9

(* A walk starts with nothing behind it, and ends when a page fails.       *)
LEMMA WalkStartsOrFailsStep ==
  ASSUME QueriesIndInv,
         \/ \E from, to \in Timestamp, order \in {"ASC", "DESC"} : WalkStarts(from, to, order)
         \/ PageFails
  PROVE  QueriesIndInv'
<1>1. CASE PageFails
  <2>1. /\ walk.pc = "asking" /\ UNCHANGED <<day, table, cleanups>>
        /\ walk' = [pc |-> "stopped", order |-> walk.order, unseen |-> walk.unseen]
    BY <1>1 DEF PageFails, WalkEnds
  <2>2. walk.order \in {"ASC", "DESC"} /\ walk.unseen \subseteq Row
    BY <2>1, AskingFacts DEF QueriesIndInv
  <2> QED
    BY <2>1, <2>2 DEF QueriesIndInv, TableTypes, WalkTypes, CutoffsAreOld, UnseenStay,
       UnseenLiesAhead, WalkSeesAllThatStayed
<1>2. ASSUME NEW from \in Timestamp, NEW to \in Timestamp, NEW order \in {"ASC", "DESC"},
             WalkStarts(from, to, order)
      PROVE  QueriesIndInv'
  <2> DEFINE rows == Matching(table, Text(from), Text(to))
  <2>1. /\ UNCHANGED <<day, table, cleanups>>
        /\ walk' = [pc |-> "asking", low |-> Text(from), high |-> Text(to), order |-> order,
                    page |-> 1, unseen |-> AloneAmong(rows)]
    BY <1>2 DEF WalkStarts
  <2>2. Text(from) \in Int /\ Text(to) \in Int  BY TextFacts DEF Dated
  <2>3. /\ AloneAmong(rows) \subseteq rows /\ rows \subseteq table /\ table \subseteq Row
        /\ \A r \in AloneAmong(rows), q \in rows : Text(q) = Text(r) => q = r
    BY DEF AloneAmong, Matching, QueriesIndInv, TableTypes
  <2>4. WalkTypes'
    <3>1. 1 \in 1 .. DtoMaxPage  BY QueriesAssumption
    <3> QED  BY <2>1, <2>2, <2>3, <3>1 DEF WalkTypes
  <2>5. UnseenLiesAhead'
    <3> SUFFICES ASSUME NEW r \in AloneAmong(rows)
                 PROVE  /\ Text(from) <= Text(r) /\ Text(r) <= Text(to)
                        /\ \A q \in table : Text(q) = Text(r) => q = r
                        /\ Offset(1) <= Cardinality(Above(rows, Text(r)))
      BY <2>1 DEF UnseenLiesAhead, Above, Matching, Text, Offset
    <3>1. Text(from) <= Text(r) /\ Text(r) <= Text(to)  BY <2>3 DEF Matching
    <3>2. \A q \in table : Text(q) = Text(r) => q \in rows  BY <3>1 DEF Matching
    <3>3. Offset(1) = 0  BY OffsetFacts
    <3>4. Cardinality(Above(rows, Text(r))) \in Nat
      <4>1. Keyed(rows)  BY <2>2, MatchingKeyed DEF QueriesIndInv
      <4> HIDE DEF rows
      <4>2. IsFiniteSet(Above(rows, Text(r)))  BY <4>1, FS_Subset DEF Above, Keyed
      <4> QED  BY <4>2, FS_CardinalityType
    <3>5. Offset(1) <= Cardinality(Above(rows, Text(r)))
      <4> DEFINE a == Cardinality(Above(rows, Text(r)))
      <4>1. a \in Nat  BY <3>4
      <4> HIDE DEF a
      <4>2. 0 <= a  BY <4>1
      <4> QED  BY <3>3, <4>2 DEF a
    <3> QED  BY <2>3, <3>1, <3>2, <3>5
  <2> HIDE DEF rows
  <2> QED
    BY <2>1, <2>3, <2>4, <2>5 DEF QueriesIndInv, TableTypes, CutoffsAreOld, UnseenStay,
       WalkSeesAllThatStayed
<1> QED  BY <1>1, <1>2

(* The invariant holds of an empty table.                                  *)
LEMMA QueriesStart == QueriesInit => QueriesIndInv
<1> SUFFICES ASSUME QueriesInit PROVE QueriesIndInv
  OBVIOUS
<1>1. TableTypes
  <2>1. MaxDay \in Nat /\ MaxCleanups \in Nat /\ 0 <= MaxCleanups  BY QueriesAssumption
  <2> QED  BY <2>1, FS_EmptySet DEF QueriesInit, TableTypes
<1>2. WalkTypes /\ CutoffsAreOld /\ UnseenStay /\ UnseenLiesAhead /\ WalkSeesAllThatStayed
  BY DEF QueriesInit, WalkTypes, CutoffsAreOld, UnseenStay, UnseenLiesAhead, WalkSeesAllThatStayed
<1> QED  BY <1>1, <1>2 DEF QueriesIndInv

(* Every step keeps it.                                                    *)
LEMMA QueriesStep == QueriesIndInv /\ [QueriesNext]_queriesVars => QueriesIndInv'
<1> SUFFICES ASSUME QueriesIndInv, [QueriesNext]_queriesVars PROVE QueriesIndInv'
  OBVIOUS
<1>1. CASE UNCHANGED queriesVars
  BY <1>1 DEF queriesVars, QueriesIndInv, TableTypes, WalkTypes, CutoffsAreOld, UnseenStay,
     UnseenLiesAhead, WalkSeesAllThatStayed, Above, Matching, Offset, Text
<1>2. CASE DayPasses \/ CleanupStarts \/ (\E cutoff \in cleanups : CleanupFails(cutoff))
  BY <1>2, CalendarStep
<1>3. CASE \E e \in Event, t \in Timestamp, reasonable \in BOOLEAN : Store(e, t, reasonable)
  BY <1>3, StoreStep
<1>4. CASE \E cutoff \in cleanups : CleanupDeletes(cutoff)
  BY <1>4, DeletesStep
<1>5. CASE PageArrives
  BY <1>5, PageArrivesStep
<1>6. CASE \/ \E from, to \in Timestamp, order \in {"ASC", "DESC"} : WalkStarts(from, to, order)
           \/ PageFails
  BY <1>6, WalkStartsOrFailsStep
<1> QED  BY <1>1, <1>2, <1>3, <1>4, <1>5, <1>6 DEF QueriesNext

(* The invariant of the table, the deletions and the walk holds throughout.*)
THEOREM QueriesInvariance == QueriesSpec => []QueriesIndInv
<1> QED  BY QueriesStart, QueriesStep, PTL DEF QueriesSpec

(* Rows, cutoffs and the client's pages keep their types.                  *)
THEOREM QueriesTypeCorrect == QueriesSpec => []QueriesTypeOK
<1>1. QueriesIndInv => QueriesTypeOK
  <2> SUFFICES ASSUME QueriesIndInv PROVE QueriesTypeOK
    OBVIOUS
  <2>1. /\ walk.pc \in {"none", "asking", "done", "stopped"}
        /\ walk.pc = "asking" => walk.page \in 1 .. DtoMaxPage
        /\ walk.pc # "none" => walk.unseen \subseteq table
    BY DEF QueriesIndInv, WalkTypes, UnseenStay
  <2> QED  BY <2>1 DEF QueriesIndInv, TableTypes, QueriesTypeOK
<1> QED  BY <1>1, QueriesInvariance, PTL

(* A client that reads newest first until a page is short has seen every   *)
(* row that matched all the time, whatever is inserted and deleted         *)
(* meanwhile (EventService.findAll with skip and take).                    *)
THEOREM WalksAreComplete == QueriesSpec => []WalkSeesAllThatStayed
<1>1. QueriesIndInv => WalkSeesAllThatStayed  BY DEF QueriesIndInv
<1> QED  BY <1>1, QueriesInvariance, PTL

(* Retention deletes no event dated in ISO that is younger than            *)
(* RETENTION_DAYS by more than its offset from UTC, however late and       *)
(* overlapping its deletions run (deleteOldEvents).                        *)
THEOREM RetentionIsPatient == QueriesSpec => RetentionSparesYoung
<1>1. QueriesIndInv /\ [QueriesNext]_queriesVars
        => [\A r \in table \ table' :
              r.iso => day - r.at > RetentionDays - BehindUTC]_queriesVars
  <2> SUFFICES ASSUME QueriesIndInv, QueriesNext, NEW r \in table \ table', r.iso
               PROVE  day - r.at > RetentionDays - BehindUTC
    OBVIOUS
  <2>1. PICK cutoff \in cleanups : CleanupDeletes(cutoff)
    <3>1. \A e \in Event, t \in Timestamp, reasonable \in BOOLEAN :
            ~ Store(e, t, reasonable)
      BY DEF Store
    <3>2. ~ (DayPasses \/ CleanupStarts \/ PageArrives \/ PageFails)
      BY DEF DayPasses, CleanupStarts, PageArrives, PageFails
    <3>3. \A cutoff \in cleanups : ~ CleanupFails(cutoff)
      BY DEF CleanupFails
    <3>4. \A from, to \in Timestamp, order \in {"ASC", "DESC"} : ~ WalkStarts(from, to, order)
      BY DEF WalkStarts
    <3> QED  BY <3>1, <3>2, <3>3, <3>4 DEF QueriesNext
  <2>2. Text(r) < cutoff  BY <2>1 DEF CleanupDeletes, Expired
  <2> DEFINE at == r.at  zone == r.text - r.at
  <2>3. r.text \in Int /\ at \in Int /\ zone \in Zone /\ r.text < cutoff
    BY <2>2, TextFacts, QueriesAssumption DEF QueriesIndInv, TableTypes, Text, Dated
  <2>4. zone \in Int /\ at + zone < cutoff
    <3>1. at + (r.text - at) = r.text  BY <2>3
    <3> QED  BY <2>3, <3>1, QueriesAssumption
  <2>5. - zone <= BehindUTC /\ BehindUTC \in Int  BY <2>3, BehindFacts
  <2> HIDE DEF at, zone
  <2>6. cutoff \in Int /\ cutoff <= day - RetentionDays /\ day \in Int /\ RetentionDays \in Nat
    BY QueriesAssumption DEF QueriesIndInv, TableTypes, CutoffsAreOld
  <2>7. day - at > RetentionDays - BehindUTC  BY <2>3, <2>4, <2>5, <2>6
  <2> QED  BY <2>7 DEF at
<1> QED  BY <1>1, QueriesInvariance, PTL DEF QueriesSpec, RetentionSparesYoung

--------------------------------------------------------------------------------
(* DlqReports: numbers from different moments                              *)

EntryRow == [id : Entry, service : AnyService, reprocessed : BOOLEAN]
QueryName == {"events", "total", "reprocessed", "pending", "oldest"} \cup Service
Wanted == [services : SUBSET AnyService, marks : SUBSET BOOLEAN, limit : Nat, offset : Nat]
Found == QueryName \X Nat

ReportTypes ==
  /\ entries \subseteq EntryRow /\ IsFiniteSet(entries)
  /\ dlqChanges \in 0 .. MaxDlqChanges
  /\ \/ report = NoReport
     \/ report \in [pc : {"asking", "answered", "failed"}, left : SUBSET QueryName,
                    next : {Service, {}}, wanted : Wanted, got : SUBSET Found,
                    stayed : SUBSET EntryRow, missed : Nat]

(* What stayed is there, and what else is there came by a change each.     *)
StayedAreThere ==
  /\ report.pc # "none" => report.missed <= dlqChanges /\ IsFiniteSet(report.stayed)
  /\ report.pc = "asking" =>
       /\ report.stayed \subseteq entries
       /\ Cardinality(entries \ report.stayed) <= report.missed

(* The statistics end with the number of pending entries.                  *)
PendingIsAsked ==
  report.pc = "asking" /\ report.next # {} =>
    "pending" \in report.left \/ \E g \in report.got : g[1] = "pending"

(* What holds of the answer holds of its parts already.                    *)
Between(n, low, missed) == low <= n /\ n <= low + missed
PartsCountWhatStayed ==
  report.pc \in {"asking", "answered"} =>
    \A g \in report.got : Between(g[2], Answer(g[1], report.stayed, report.wanted), report.missed)

DlqReportsIndInv ==
  ReportTypes /\ StayedAreThere /\ PendingIsAsked /\ PartsCountWhatStayed

(* How many of some rows pass a filter depends on those that are missing   *)
(* one by one.                                                             *)
LEMMA CountIsSteady ==
  ASSUME NEW few, NEW many, few \subseteq many, IsFiniteSet(many), NEW services, NEW marks
  PROVE  /\ CountIn(few, services, marks) \in Nat /\ CountIn(many, services, marks) \in Nat
         /\ Cardinality(many \ few) \in Nat
         /\ Between(CountIn(many, services, marks), CountIn(few, services, marks),
                    Cardinality(many \ few))
<1> DEFINE Fits(rows) == {e \in rows : e.service \in services /\ e.reprocessed \in marks}
<1>1. /\ IsFiniteSet(few) /\ IsFiniteSet(many \ few)
      /\ IsFiniteSet(Fits(few)) /\ IsFiniteSet(Fits(many)) /\ IsFiniteSet(Fits(many \ few))
  BY FS_Subset
<1>2. /\ Cardinality(Fits(few)) \in Nat /\ Cardinality(Fits(many)) \in Nat
      /\ Cardinality(Fits(many \ few)) \in Nat /\ Cardinality(many \ few) \in Nat
  BY <1>1, FS_CardinalityType
<1>3. Fits(many) = Fits(few) \cup Fits(many \ few) /\ Fits(few) \cap Fits(many \ few) = {}
  OBVIOUS
<1>4. Cardinality(Fits(many \ few)) <= Cardinality(many \ few)
  BY <1>1, FS_Subset
<1>5. Cardinality(Fits(few) \cup Fits(many \ few))
        = Cardinality(Fits(few)) + Cardinality(Fits(many \ few)) - Cardinality({})
  BY <1>1, <1>3, FS_Union
<1>6. /\ CountIn(few, services, marks) = Cardinality(Fits(few))
      /\ CountIn(many, services, marks) = Cardinality(Fits(many))
  BY DEF CountIn
<1> HIDE DEF Fits
<1> QED  BY <1>2, <1>3, <1>4, <1>5, <1>6, FS_EmptySet DEF Between

(* So does the length of a page.                                           *)
LEMMA PageLengthIsSteady ==
  ASSUME NEW m \in Nat, NEW n \in Nat, NEW d \in Nat, Between(n, m, d),
         NEW w, w.limit \in Nat, w.offset \in Nat
  PROVE  /\ PageLength(m, w) \in Nat /\ PageLength(n, w) \in Nat
         /\ Between(PageLength(n, w), PageLength(m, w), d)
  BY DEF PageLength, Between

(* So does the answer to every query.                                      *)
LEMMA AnswerIsSteady ==
  ASSUME NEW few, NEW many, few \subseteq many, IsFiniteSet(many), NEW w \in Wanted, NEW query
  PROVE  /\ Answer(query, few, w) \in Nat /\ Answer(query, many, w) \in Nat
         /\ Cardinality(many \ few) \in Nat
         /\ Between(Answer(query, many, w), Answer(query, few, w), Cardinality(many \ few))
<1> DEFINE d == Cardinality(many \ few)
<1>1. \A services, marks :
        /\ CountIn(few, services, marks) \in Nat /\ CountIn(many, services, marks) \in Nat
        /\ Between(CountIn(many, services, marks), CountIn(few, services, marks), d)
  BY CountIsSteady
<1>2. d \in Nat  BY CountIsSteady
<1>3. w.limit \in Nat /\ w.offset \in Nat  BY DEF Wanted
<1> DEFINE one == [limit |-> 1, offset |-> 0]
<1>4. one.limit \in Nat /\ one.offset \in Nat  OBVIOUS
<1>5. /\ Cardinality(few) \in Nat /\ Cardinality(many) \in Nat
      /\ Between(Cardinality(many), Cardinality(few), d)
  <2>1. IsFiniteSet(few) /\ IsFiniteSet(many \ few)  BY FS_Subset
  <2>2. many = few \cup (many \ few) /\ few \cap (many \ few) = {}  OBVIOUS
  <2>3. Cardinality(few \cup (many \ few)) = Cardinality(few) + d - Cardinality({})
    BY <2>1, <2>2, FS_Union
  <2>4. Cardinality(few) \in Nat /\ Cardinality(many) \in Nat  BY <2>1, FS_CardinalityType
  <2> HIDE DEF d
  <2>5. Cardinality(many) = Cardinality(few) + d  BY <1>2, <2>2, <2>3, <2>4, FS_EmptySet
  <2> QED  BY <1>2, <2>4, <2>5 DEF Between
<1> HIDE DEF d, one
<1>6. CASE query = "events"
  <2> DEFINE m == CountIn(few, w.services, w.marks)
             n == CountIn(many, w.services, w.marks)
  <2>1. m \in Nat /\ n \in Nat /\ Between(n, m, d)  BY <1>1
  <2>2. Answer(query, few, w) = PageLength(m, w) /\ Answer(query, many, w) = PageLength(n, w)
    BY <1>6 DEF Answer
  <2> HIDE DEF m, n
  <2> QED  BY <1>2, <1>3, <2>1, <2>2, PageLengthIsSteady DEF d
<1>7. CASE query = "oldest"
  <2>1. /\ Answer(query, few, w) = PageLength(Cardinality(few), one)
        /\ Answer(query, many, w) = PageLength(Cardinality(many), one)
    BY <1>7 DEF Answer, one
  <2> QED  BY <1>2, <1>4, <1>5, <2>1, PageLengthIsSteady DEF d
<1>8. CASE query \notin {"events", "oldest"}
  <2>1. PICK services, marks :
          /\ Answer(query, few, w) = CountIn(few, services, marks)
          /\ Answer(query, many, w) = CountIn(many, services, marks)
    <3>1. CASE query = "total"  BY <3>1 DEF Answer
    <3>2. CASE query = "reprocessed"  BY <3>2 DEF Answer
    <3>3. CASE query = "pending"  BY <3>3 DEF Answer
    <3>4. CASE query \notin {"total", "reprocessed", "pending"}  BY <1>8, <3>4 DEF Answer
    <3> QED  BY <3>1, <3>2, <3>3, <3>4
  <2> QED  BY <1>1, <1>2, <2>1 DEF d
<1> QED  BY <1>6, <1>7, <1>8

(* What a report in progress knows.                                        *)
LEMMA ReportFacts ==
  ASSUME DlqReportsIndInv, report.pc # "none"
  PROVE  /\ report \in [pc : {"asking", "answered", "failed"}, left : SUBSET QueryName,
                        next : {Service, {}}, wanted : Wanted, got : SUBSET Found,
                        stayed : SUBSET EntryRow, missed : Nat]
         /\ report.pc \in {"asking", "answered", "failed"}
         /\ report.left \subseteq QueryName /\ report.next \in {Service, {}}
         /\ report.wanted \in Wanted /\ report.got \subseteq Found
         /\ report.stayed \subseteq EntryRow /\ report.missed \in Nat
         /\ report.missed <= dlqChanges /\ IsFiniteSet(report.stayed)
  BY DEF DlqReportsIndInv, ReportTypes, StayedAreThere, NoReport

(* One entry comes, one goes, or one is exchanged for another: a report in *)
(* progress is off by one more.                                            *)
LEMMA EntriesChangeStep ==
  ASSUME DlqReportsIndInv, NEW now \in SUBSET EntryRow, NEW old, NEW new,
         now \subseteq entries \cup {new}, entries \ now \subseteq {old}, EntriesChange(now)
  PROVE  DlqReportsIndInv'
<1>1. /\ dlqChanges < MaxDlqChanges /\ dlqChanges' = dlqChanges + 1 /\ entries' = now
      /\ report' = IF report.pc \in {"none", "answered", "failed"} THEN report
                   ELSE [report EXCEPT !.stayed = @ \cap now, !.missed = @ + 1]
  BY DEF EntriesChange
<1>2. /\ IsFiniteSet(entries) /\ IsFiniteSet(now) /\ dlqChanges \in Nat
      /\ dlqChanges' \in 0 .. MaxDlqChanges
  <2>1. IsFiniteSet(entries) /\ dlqChanges \in 0 .. MaxDlqChanges /\ MaxDlqChanges \in Nat
    BY DlqReportsAssumption DEF DlqReportsIndInv, ReportTypes
  <2>2. IsFiniteSet(now)  BY <2>1, FS_AddElement, FS_Subset
  <2> QED  BY <1>1, <2>1, <2>2
<1>3. CASE report.pc # "asking"
  <2>1. report' = report
    BY <1>1, <1>3, ReportFacts
  <2>2. ReportTypes'
    BY <1>1, <1>2, <2>1 DEF DlqReportsIndInv, ReportTypes
  <2>3. StayedAreThere'
    <3>1. report.pc # "none" => report.missed <= dlqChanges + 1 /\ IsFiniteSet(report.stayed)
      BY <1>2, ReportFacts
    <3> QED  BY <1>1, <1>3, <2>1, <3>1 DEF StayedAreThere
  <2>4. PendingIsAsked' /\ PartsCountWhatStayed'
    BY <1>3, <2>1 DEF DlqReportsIndInv, PendingIsAsked, PartsCountWhatStayed, Answer, CountIn, AnyService
  <2> QED  BY <2>2, <2>3, <2>4 DEF DlqReportsIndInv
<1>4. CASE report.pc = "asking"
  <2> DEFINE few == report.stayed \cap now
             mst == report.stayed
             missed == report.missed
             w == report.wanted
  <2>1. /\ report.wanted \in Wanted /\ report.got \subseteq Found /\ mst \subseteq EntryRow
        /\ missed \in Nat /\ missed <= dlqChanges /\ mst \subseteq entries
        /\ Cardinality(entries \ mst) <= missed
    BY <1>4, ReportFacts DEF DlqReportsIndInv, StayedAreThere
  <2>2. /\ report'.pc = "asking" /\ report'.left = report.left /\ report'.next = report.next
        /\ report'.wanted = w /\ report'.got = report.got
        /\ report'.stayed = few /\ report'.missed = missed + 1
        /\ report' \in [pc : {"asking", "answered", "failed"}, left : SUBSET QueryName,
                        next : {Service, {}}, wanted : Wanted, got : SUBSET Found,
                        stayed : SUBSET EntryRow, missed : Nat]
    <3> DEFINE Shape == [pc : {"asking", "answered", "failed"}, left : SUBSET QueryName,
                         next : {Service, {}}, wanted : Wanted, got : SUBSET Found,
                         stayed : SUBSET EntryRow, missed : Nat]
    <3>1. report' = [report EXCEPT !.stayed = @ \cap now, !.missed = @ + 1]
      BY <1>1, <1>4
    <3>2. report \in Shape  BY <1>4, ReportFacts
    <3>3. /\ report'.pc = report.pc /\ report'.left = report.left /\ report'.next = report.next
          /\ report'.wanted = report.wanted /\ report'.got = report.got
          /\ report'.stayed = report.stayed \cap now /\ report'.missed = report.missed + 1
      BY <3>1, <3>2
    <3>4. few \in SUBSET EntryRow /\ missed + 1 \in Nat  BY <2>1
    <3>5. report' \in Shape  BY <3>1, <3>2, <3>4
    <3> QED  BY <1>4, <3>3, <3>5
  <2>3. ReportTypes'  BY <1>1, <1>2, <2>2 DEF ReportTypes
  <2>4. StayedAreThere'
    <3>1. now \ few \subseteq (entries \ mst) \cup {new}  OBVIOUS
    <3>2. IsFiniteSet(entries \ mst) /\ Cardinality(entries \ mst) \in Nat
      BY <1>2, FS_Subset, FS_CardinalityType
    <3>3. /\ IsFiniteSet((entries \ mst) \cup {new})
          /\ Cardinality((entries \ mst) \cup {new})
               = IF new \in entries \ mst THEN Cardinality(entries \ mst)
                 ELSE Cardinality(entries \ mst) + 1
      BY <3>2, FS_AddElement
    <3>4. Cardinality(now \ few) <= Cardinality((entries \ mst) \cup {new})
          /\ Cardinality(now \ few) \in Nat
      BY <3>1, <3>3, FS_Subset, FS_CardinalityType
    <3>5. Cardinality(now \ few) <= missed + 1  BY <2>1, <3>2, <3>3, <3>4
    <3>6. missed + 1 <= dlqChanges + 1  BY <1>2, <2>1
    <3>7. IsFiniteSet(few)  BY <1>2, FS_Subset
    <3> QED  BY <1>1, <2>2, <3>5, <3>6, <3>7 DEF StayedAreThere
  <2>5. PendingIsAsked'
    BY <1>4, <2>2 DEF DlqReportsIndInv, PendingIsAsked
  <2>6. PartsCountWhatStayed'
    <3> SUFFICES ASSUME NEW g \in report.got
                 PROVE  Between(g[2], Answer(g[1], few, w), missed + 1)
      BY <2>2 DEF PartsCountWhatStayed
    <3>1. Between(g[2], Answer(g[1], mst, w), missed) /\ g[2] \in Nat
      BY <1>4, <2>1 DEF DlqReportsIndInv, PartsCountWhatStayed, Found
    <3>2. IsFiniteSet(mst)  BY <1>2, <2>1, FS_Subset
    <3>3. /\ Answer(g[1], few, w) \in Nat /\ Answer(g[1], mst, w) \in Nat
          /\ Cardinality(mst \ few) \in Nat
          /\ Between(Answer(g[1], mst, w), Answer(g[1], few, w), Cardinality(mst \ few))
      BY <2>1, <3>2, AnswerIsSteady
    <3>4. Cardinality(mst \ few) <= 1
      <4>1. mst \ few \subseteq {old}  BY <2>1
      <4>2. IsFiniteSet({old}) /\ Cardinality({old}) = 1  BY FS_Singleton
      <4> QED  BY <4>1, <4>2, FS_Subset
    <3> HIDE DEF few, mst, missed, w
    <3> QED  BY <2>1, <3>1, <3>3, <3>4 DEF Between
  <2> QED  BY <2>3, <2>4, <2>5, <2>6 DEF DlqReportsIndInv
<1> QED  BY <1>3, <1>4

(* The table changes by an entry at a time.                                *)
LEMMA TableStep ==
  ASSUME DlqReportsIndInv,
         \/ \E id \in Entry, s \in AnyService : EntryAdded(id, s)
         \/ \E e \in entries : EntrySaved(e) \/ EntryRemoved(e)
  PROVE  DlqReportsIndInv'
<1>1. entries \subseteq EntryRow  BY DEF DlqReportsIndInv, ReportTypes
<1>2. ASSUME NEW id \in Entry, NEW s \in AnyService, EntryAdded(id, s)
      PROVE  DlqReportsIndInv'
  <2> DEFINE new == [id |-> id, service |-> s, reprocessed |-> FALSE]
             now == entries \cup {new}
  <2>1. EntriesChange(now)  BY <1>2 DEF EntryAdded
  <2>2. new \in EntryRow  BY DEF EntryRow
  <2> HIDE DEF new
  <2>3. now \in SUBSET EntryRow /\ now \subseteq entries \cup {new} /\ entries \ now \subseteq {new}
    BY <1>1, <2>2
  <2> QED  BY <2>1, <2>3, EntriesChangeStep
<1>3. ASSUME NEW e \in entries, EntrySaved(e)
      PROVE  DlqReportsIndInv'
  <2> DEFINE new == [e EXCEPT !.reprocessed = ~ @]
             now == (entries \ {e}) \cup {new}
  <2>1. EntriesChange(now)  BY <1>3 DEF EntrySaved
  <2>2. new \in EntryRow  BY <1>1 DEF EntryRow
  <2> HIDE DEF new
  <2>3. now \in SUBSET EntryRow /\ now \subseteq entries \cup {new} /\ entries \ now \subseteq {e}
    BY <1>1, <2>2
  <2> QED  BY <2>1, <2>3, EntriesChangeStep
<1>4. ASSUME NEW e \in entries, EntryRemoved(e)
      PROVE  DlqReportsIndInv'
  <2> DEFINE now == entries \ {e}
  <2>1. EntriesChange(now)  BY <1>4 DEF EntryRemoved
  <2>2. now \in SUBSET EntryRow /\ now \subseteq entries \cup {e} /\ entries \ now \subseteq {e}
    BY <1>1
  <2> QED  BY <2>1, <2>2, EntriesChangeStep
<1> QED  BY <1>2, <1>3, <1>4

(* A report begins: everything has stayed, and nothing was missed.         *)
LEMMA BeginsStep ==
  ASSUME DlqReportsIndInv, NEW queries \in SUBSET QueryName, NEW w \in Wanted,
         NEW next \in {Service, {}}, next # {} => "pending" \in queries, Begins(queries, w, next)
  PROVE  DlqReportsIndInv'
<1>1. /\ UNCHANGED <<entries, dlqChanges>>
      /\ report' = [pc |-> "asking", left |-> queries, next |-> next, wanted |-> w,
                    got |-> {}, stayed |-> entries, missed |-> 0]
  BY DEF Begins
<1>2. /\ entries \subseteq EntryRow /\ IsFiniteSet(entries)
      /\ dlqChanges \in 0 .. MaxDlqChanges /\ MaxDlqChanges \in Nat
  BY DlqReportsAssumption DEF DlqReportsIndInv, ReportTypes
<1>3. ReportTypes'  BY <1>1, <1>2 DEF DlqReportsIndInv, ReportTypes
<1>4. StayedAreThere'
  <2>1. Cardinality(entries \ entries) = 0  BY FS_EmptySet
  <2> QED  BY <1>1, <1>2, <2>1 DEF StayedAreThere
<1>5. PendingIsAsked' /\ PartsCountWhatStayed'
  BY <1>1 DEF PendingIsAsked, PartsCountWhatStayed
<1> QED  BY <1>3, <1>4, <1>5 DEF DlqReportsIndInv

(* Requests for statistics, and for a page.                                *)
LEMMA RequestStep ==
  ASSUME DlqReportsIndInv,
         \/ StatisticsStart
         \/ \E services \in {AnyService} \cup {{s} : s \in Service},
               marks \in {BOOLEAN, {TRUE}, {FALSE}}, asked \in 0 .. 1, offset \in 0 .. 1 :
              ListStarts(services, marks, asked, offset)
  PROVE  DlqReportsIndInv'
<1>1. DefaultLimit \in Nat  BY DlqReportsAssumption
<1>2. CASE StatisticsStart
  <2>1. Everything \in Wanted  BY <1>1 DEF Everything, Wanted
  <2>2. {"total", "reprocessed", "pending", "oldest"} \in SUBSET QueryName  BY DEF QueryName
  <2> QED  BY <1>2, <2>1, <2>2, BeginsStep DEF StatisticsStart
<1>3. ASSUME NEW services \in {AnyService} \cup {{s} : s \in Service},
             NEW marks \in {BOOLEAN, {TRUE}, {FALSE}}, NEW asked \in 0 .. 1, NEW offset \in 0 .. 1,
             ListStarts(services, marks, asked, offset)
      PROVE  DlqReportsIndInv'
  <2> DEFINE w == [services |-> services, marks |-> marks, limit |-> LimitOf(asked), offset |-> offset]
  <2>1. services \subseteq AnyService  BY DEF AnyService
  <2>2. marks \subseteq BOOLEAN  OBVIOUS
  <2>3. LimitOf(asked) \in Nat /\ offset \in Nat  BY <1>1 DEF LimitOf
  <2>4. w \in Wanted  BY <2>1, <2>2, <2>3 DEF Wanted
  <2>5. {"events", "total"} \in SUBSET QueryName  BY DEF QueryName
  <2>6. Begins({"events", "total"}, w, {})  BY <1>3 DEF ListStarts
  <2> HIDE DEF w
  <2> QED  BY <2>4, <2>5, <2>6, BeginsStep
<1> QED  BY <1>2, <1>3

(* What a query finds now counts what stayed: the rest came by the changes.*)
LEMMA FindsCountsWhatStayed ==
  ASSUME DlqReportsIndInv, report.pc = "asking", NEW query \in QueryName
  PROVE  /\ Finds(query) \in Found /\ Finds(query)[1] = query
         /\ Between(Finds(query)[2], Answer(query, report.stayed, report.wanted), report.missed)
<1> DEFINE low == Answer(query, report.stayed, report.wanted)
           n == Answer(query, entries, report.wanted)
           d == Cardinality(entries \ report.stayed)
<1>1. /\ report.stayed \subseteq entries /\ d <= report.missed /\ report.missed \in Nat
      /\ report.wanted \in Wanted /\ IsFiniteSet(entries)
  BY ReportFacts DEF DlqReportsIndInv, StayedAreThere, ReportTypes
<1>2. low \in Nat /\ n \in Nat /\ d \in Nat /\ Between(n, low, d)
  BY <1>1, AnswerIsSteady
<1>3. Finds(query) = <<query, n>>  BY DEF Finds
<1> HIDE DEF low, n, d
<1>4. Between(n, low, report.missed)  BY <1>1, <1>2 DEF Between
<1> QED  BY <1>2, <1>3, <1>4 DEF Found, low

(* A query is answered.                                                    *)
LEMMA QueryAnswersStep ==
  ASSUME DlqReportsIndInv, NEW query \in QueryName, QueryAnswers(query)
  PROVE  DlqReportsIndInv'
<1> DEFINE Shape == [pc : {"asking", "answered", "failed"}, left : SUBSET QueryName,
                     next : {Service, {}}, wanted : Wanted, got : SUBSET Found,
                     stayed : SUBSET EntryRow, missed : Nat]
<1>1. /\ report.pc = "asking" /\ UNCHANGED <<entries, dlqChanges>>
      /\ report' = [report EXCEPT !.left = @ \ {query}, !.got = @ \cup {Finds(query)}]
  BY DEF QueryAnswers
<1>2. report \in Shape /\ report.got \subseteq Found /\ report.left \subseteq QueryName
  BY <1>1, ReportFacts
<1>3. Finds(query) \in Found /\ Finds(query)[1] = query
      /\ Between(Finds(query)[2], Answer(query, report.stayed, report.wanted), report.missed)
  BY <1>1, FindsCountsWhatStayed
<1>4. /\ report'.pc = report.pc /\ report'.left = report.left \ {query}
      /\ report'.next = report.next /\ report'.wanted = report.wanted
      /\ report'.got = report.got \cup {Finds(query)}
      /\ report'.stayed = report.stayed /\ report'.missed = report.missed
  BY <1>1, <1>2
<1>5. report' \in Shape
  <2>1. report.left \ {query} \in SUBSET QueryName /\ report.got \cup {Finds(query)} \in SUBSET Found
    BY <1>2, <1>3
  <2> HIDE DEF Finds
  <2> QED  BY <1>1, <1>2, <2>1
<1>6. ReportTypes' /\ StayedAreThere'
  BY <1>1, <1>4, <1>5 DEF DlqReportsIndInv, ReportTypes, StayedAreThere
<1>7. PendingIsAsked'
  <2> SUFFICES ASSUME report.next # {}
               PROVE  "pending" \in report'.left \/ \E g \in report'.got : g[1] = "pending"
    BY <1>4 DEF PendingIsAsked
  <2>1. "pending" \in report.left \/ \E g \in report.got : g[1] = "pending"
    BY <1>1 DEF DlqReportsIndInv, PendingIsAsked
  <2>2. CASE query = "pending"  BY <1>3, <1>4, <2>2
  <2>3. CASE query # "pending"  BY <1>4, <2>1, <2>3
  <2> QED  BY <2>2, <2>3
<1>8. PartsCountWhatStayed'
  <2> SUFFICES ASSUME NEW g \in report.got \cup {Finds(query)}
               PROVE  Between(g[2], Answer(g[1], report.stayed, report.wanted), report.missed)
    BY <1>4 DEF PartsCountWhatStayed
  <2>1. CASE g = Finds(query)  BY <1>3, <2>1
  <2>2. CASE g \in report.got
    BY <1>1, <2>2 DEF DlqReportsIndInv, PartsCountWhatStayed
  <2> QED  BY <2>1, <2>2
<1> QED  BY <1>6, <1>7, <1>8 DEF DlqReportsIndInv

(* The report is put together, and answered.                               *)
LEMMA ReportDoneStep ==
  ASSUME DlqReportsIndInv, ReportDone
  PROVE  DlqReportsIndInv'
<1> DEFINE Shape == [pc : {"asking", "answered", "failed"}, left : SUBSET QueryName,
                     next : {Service, {}}, wanted : Wanted, got : SUBSET Found,
                     stayed : SUBSET EntryRow, missed : Nat]
           groups == {Finds(s) : s \in report.next}
           pending == IF report.next = {} THEN {} ELSE {<<"pending", PendingOf(report.got)>>}
           others == {g \in report.got : g[1] # "pending"}
           got == others \cup pending \cup groups
           Fits(g) == g \in Found /\ Between(g[2], Answer(g[1], report.stayed, report.wanted), report.missed)
<1>1. /\ report.pc = "asking" /\ report.left = {} /\ UNCHANGED <<entries, dlqChanges>>
      /\ report' = [report EXCEPT !.pc = "answered", !.got = got]
  BY DEF ReportDone
<1>2. report \in Shape /\ report.got \subseteq Found /\ report.next \in {Service, {}}
  BY <1>1, ReportFacts
<1>3. \A g \in report.got : Fits(g)
  BY <1>1, <1>2 DEF DlqReportsIndInv, PartsCountWhatStayed
<1>4. \A g \in groups : Fits(g)
  <2> SUFFICES ASSUME NEW s \in report.next PROVE Fits(Finds(s))
    OBVIOUS
  <2>1. s \in QueryName  BY <1>2 DEF QueryName
  <2> QED  BY <1>1, <2>1, FindsCountsWhatStayed
<1>5. \A g \in pending : Fits(g)
  <2> SUFFICES ASSUME report.next # {} PROVE Fits(<<"pending", PendingOf(report.got)>>)
    OBVIOUS
  <2>1. \E g \in report.got : g[1] = "pending"
    BY <1>1 DEF DlqReportsIndInv, PendingIsAsked
  <2>2. PICK p \in report.got : p[1] = "pending" /\ PendingOf(report.got) = p[2]
    BY <2>1 DEF PendingOf
  <2>3. p \in Found  BY <1>2
  <2>4. p = <<"pending", PendingOf(report.got)>>  BY <2>2, <2>3 DEF Found
  <2>5. Fits(p)  BY <1>3, <2>2
  <2> HIDE DEF Fits
  <2> QED  BY <2>4, <2>5
<1>6. \A g \in got : Fits(g)  BY <1>3, <1>4, <1>5
<1>7. got \in SUBSET Found  BY <1>6
<1> HIDE DEF got, groups, pending, others
<1>8. /\ report'.pc = "answered" /\ report'.got = got
      /\ report'.wanted = report.wanted
      /\ report'.stayed = report.stayed /\ report'.missed = report.missed
  BY <1>1, <1>2
<1>9. report' \in Shape  BY <1>1, <1>2, <1>7
<1>10. ReportTypes' /\ StayedAreThere' /\ PendingIsAsked'
  BY <1>1, <1>8, <1>9 DEF DlqReportsIndInv, ReportTypes, StayedAreThere, PendingIsAsked
<1>11. PartsCountWhatStayed'  BY <1>6, <1>8 DEF PartsCountWhatStayed
<1> QED  BY <1>10, <1>11 DEF DlqReportsIndInv

(* Or one of its queries fails.                                            *)
LEMMA ReportFailsStep ==
  ASSUME DlqReportsIndInv, ReportFails
  PROVE  DlqReportsIndInv'
<1> DEFINE Shape == [pc : {"asking", "answered", "failed"}, left : SUBSET QueryName,
                     next : {Service, {}}, wanted : Wanted, got : SUBSET Found,
                     stayed : SUBSET EntryRow, missed : Nat]
<1>1. /\ report.pc = "asking" /\ UNCHANGED <<entries, dlqChanges>>
      /\ report' = [report EXCEPT !.pc = "failed", !.got = {}, !.left = {}]
  BY DEF ReportFails
<1>2. report \in Shape  BY <1>1, ReportFacts
<1>3. report'.pc = "failed" /\ report'.missed = report.missed  BY <1>1, <1>2
<1>4. report' \in Shape  BY <1>1, <1>2
<1> QED
  BY <1>1, <1>3, <1>4 DEF DlqReportsIndInv, ReportTypes, StayedAreThere, PendingIsAsked,
     PartsCountWhatStayed

(* No entry and no report.                                                 *)
LEMMA DlqReportsStart == DlqReportsInit => DlqReportsIndInv
<1> SUFFICES ASSUME DlqReportsInit PROVE DlqReportsIndInv
  OBVIOUS
<1>1. ReportTypes
  BY FS_EmptySet, DlqReportsAssumption DEF DlqReportsInit, ReportTypes
<1>2. report.pc = "none"  BY DEF DlqReportsInit, NoReport
<1> QED
  BY <1>1, <1>2 DEF DlqReportsIndInv, StayedAreThere, PendingIsAsked, PartsCountWhatStayed

(* Every step keeps the invariant.                                         *)
LEMMA DlqReportsStep == DlqReportsIndInv /\ [DlqReportsNext]_dlqReportVars => DlqReportsIndInv'
<1> SUFFICES ASSUME DlqReportsIndInv, [DlqReportsNext]_dlqReportVars PROVE DlqReportsIndInv'
  OBVIOUS
<1>1. CASE UNCHANGED dlqReportVars
  BY <1>1 DEF dlqReportVars, DlqReportsIndInv, ReportTypes, StayedAreThere, PendingIsAsked,
     PartsCountWhatStayed
<1>2. CASE \/ \E id \in Entry, s \in AnyService : EntryAdded(id, s)
           \/ \E e \in entries : EntrySaved(e) \/ EntryRemoved(e)
  BY <1>2, TableStep
<1>3. CASE \/ StatisticsStart
           \/ \E services \in {AnyService} \cup {{s} : s \in Service},
                 marks \in {BOOLEAN, {TRUE}, {FALSE}}, asked \in 0 .. 1, offset \in 0 .. 1 :
                ListStarts(services, marks, asked, offset)
  BY <1>3, RequestStep
<1>4. CASE \E query \in {"events", "total", "reprocessed", "pending", "oldest"} : QueryAnswers(query)
  <2>1. PICK query \in QueryName : QueryAnswers(query)  BY <1>4 DEF QueryName
  <2> QED  BY <2>1, QueryAnswersStep
<1>5. CASE ReportDone \/ ReportFails
  BY <1>5, ReportDoneStep, ReportFailsStep
<1> QED  BY <1>1, <1>2, <1>3, <1>4, <1>5 DEF DlqReportsNext

(* The invariant of the reports holds throughout.                          *)
THEOREM DlqReportsInvariance == DlqReportsSpec => []DlqReportsIndInv
<1> QED  BY DlqReportsStart, DlqReportsStep, PTL DEF DlqReportsSpec

(* Entries and reports keep their types.                                   *)
THEOREM DlqReportsTypeCorrect == DlqReportsSpec => []DlqReportsTypeOK
<1>1. DlqReportsIndInv => DlqReportsTypeOK
  <2> SUFFICES ASSUME DlqReportsIndInv PROVE DlqReportsTypeOK
    OBVIOUS
  <2>1. report.pc \in {"none", "asking", "answered", "failed"}
    BY ReportFacts
  <2>2. report.pc # "none" => report.missed \in Nat /\ report.missed <= dlqChanges
    BY ReportFacts
  <2>3. dlqChanges \in 0 .. MaxDlqChanges /\ MaxDlqChanges \in Nat
    BY DlqReportsAssumption DEF DlqReportsIndInv, ReportTypes
  <2>4. report.pc # "none" => report.missed \in 0 .. dlqChanges  BY <2>2, <2>3
  <2> QED  BY <2>1, <2>4 DEF DlqReportsIndInv, ReportTypes, DlqReportsTypeOK, EntryRow
<1> QED  BY <1>1, DlqReportsInvariance, PTL

(* Each number of an administrator's report counts what stayed, and is too *)
(* large by no more than what changed (getDLQStatistics, listDLQEvents).   *)
THEOREM ReportsCountWhatStayed == DlqReportsSpec => []ReportCountsWhatStayed
<1>1. DlqReportsIndInv => ReportCountsWhatStayed
  <2> SUFFICES ASSUME DlqReportsIndInv, report.pc = "answered", NEW g \in report.got
               PROVE  LET sure == Answer(g[1], report.stayed, report.wanted)
                      IN g[2] \in sure .. sure + report.missed
    BY DEF ReportCountsWhatStayed
  <2> DEFINE sure == Answer(g[1], report.stayed, report.wanted)
  <2>1. Between(g[2], sure, report.missed)
    BY DEF DlqReportsIndInv, PartsCountWhatStayed
  <2>2. g[2] \in Nat /\ report.missed \in Nat /\ report.wanted \in Wanted
    BY ReportFacts DEF Found
  <2>3. sure \in Nat
    <3>1. IsFiniteSet(report.stayed)  BY ReportFacts
    <3> QED  BY <2>2, <3>1, AnswerIsSteady
  <2> HIDE DEF sure
  <2>4. g[2] \in sure .. sure + report.missed  BY <2>1, <2>2, <2>3 DEF Between
  <2> QED  BY <2>4 DEF sure
<1> QED  BY <1>1, DlqReportsInvariance, PTL

================================================================================
