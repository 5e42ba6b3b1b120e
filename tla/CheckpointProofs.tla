---------------------------- MODULE CheckpointProofs ----------------------------
(***************************************************************************)
(* Proofs about Checkpoint: the types, AcceptedSurvives and OneRowPerStart *)
(* hold, and it implements Recovery, for any events, any number of         *)
(* overlapping saves, starts and I/O failures, and every capacity and      *)
(* batch size.                                                             *)
(*                                                                         *)
(* Neither property is inductive.  That an accepted event survives rests   *)
(* on when it may be in the checkpoint ONLY: while no instance has loaded  *)
(* it and one still may.  From the first load on it is in some memory or   *)
(* in the table, so unlinking or replacing the file costs nothing; a load  *)
(* takes all of a file, because no file ever holds more than a buffer      *)
(* does; and when the last instance fails to read it, what it has is       *)
(* counted as unread.  That one                                            *)
(* start stores an event once rests on what the token's buffer and the     *)
(* batch hold together: never two copies, and none that this start has     *)
(* stored already.                                                         *)
(***************************************************************************)
EXTENDS Checkpoint, SequenceTheorems, TLAPS

Distinct(s) == \A i, j \in DOMAIN s : s[i] = s[j] => i = j

(* What a buffer, a file, a save under way or the batch may hold: accepted *)
(* events, no more than a buffer does, each once.                          *)
Contents == {s \in Seq(accepted) : Len(s) <= MaxSize /\ Distinct(s)}

StateTypes ==
  /\ mem \in [Instance -> Contents]
  /\ phase \in [Instance -> {"loading", "loaded", "up"}]
  /\ saves \in [Save -> SaveCall]
  /\ \A s \in Save : saves[s].events \in Contents
  /\ tmp \in File /\ tmp.events \in Contents
  /\ final \in File /\ final.events \in Contents
  /\ batch \in Contents
  /\ accepted \subseteq Event
  /\ rows \in [Event -> Nat]
  /\ starts \in 1 .. MaxStarts
  /\ lost \subseteq accepted
  /\ unread \subseteq accepted

(* What may go on while the instances start: a buffer is empty until it is *)
(* loaded, and not when it has just been; a save under way has events, and *)
(* began after a load or after all instances had started; and the worker   *)
(* has no batch before they have.                                          *)
StartOrder ==
  /\ \A i \in Instance : phase[i] = "loading" => mem[i] = << >>
  /\ \A i \in Instance : phase[i] = "loaded" => mem[i] # << >>
  /\ \A s \in Save : saves[s].pc # "idle" => ~ Unloaded /\ saves[s].events # << >>
  /\ batch # << >> => Up

(* An event that is in the checkpoint only is there while an instance may  *)
(* load it: AcceptedSurvives, with the time at which the file is needed.   *)
Recoverable ==
  \A e \in accepted :
    \/ InMemory(e) \/ rows[e] > 0
    \/ e \in lost \/ e \in unread
    \/ Unloaded /\ InSeq(e, final.events)

(* The worker's batch holds none of the events in the token's buffer.      *)
BatchApart == \A e \in Event : ~ (InSeq(e, mem["token"]) /\ InSeq(e, batch))

(* Events that this start of the process may still store have no row of    *)
(* its own yet.                                                            *)
OnlyAcceptedStored == \A e \in Event \ accepted : rows[e] = 0
StoredOnce ==
  \A e \in Event :
    /\ rows[e] <= starts
    /\ phase["token"] = "loading" \/ InSeq(e, mem["token"]) \/ InSeq(e, batch)
         => rows[e] < starts

IndInv ==
  /\ StateTypes
  /\ StartOrder
  /\ Recoverable
  /\ BatchApart
  /\ OnlyAcceptedStored
  /\ StoredOnce

--------------------------------------------------------------------------------
(* Sequences without duplicates                                            *)

(* Contents, field by field.                                               *)
LEMMA ContentsFacts ==
  ASSUME NEW s \in Contents
  PROVE  /\ s \in Seq(accepted)
         /\ Len(s) \in Nat /\ Len(s) <= MaxSize
         /\ DOMAIN s = 1 .. Len(s)
         /\ \A i \in 1 .. Len(s) : s[i] \in accepted
         /\ \A i, j \in 1 .. Len(s) : s[i] = s[j] => i = j
<1>1. s \in Seq(accepted)  BY DEF Contents
<1>2. DOMAIN s = 1 .. Len(s) /\ Len(s) \in Nat  BY <1>1, LenProperties
<1>3. \A i \in 1 .. Len(s) : s[i] \in accepted  BY <1>1, ElementOfSeq
<1> QED  BY <1>1, <1>2, <1>3 DEF Contents, Distinct

(* Nothing is always such a sequence.                                      *)
LEMMA EmptyContents == << >> \in Contents /\ \A e : ~ InSeq(e, << >>)
  BY CheckpointAssumption, EmptySeq DEF Contents, Distinct, InSeq

(* A file is loaded whole: none holds more than a buffer may.              *)
LEMMA LoadedWhole ==
  ASSUME NEW s \in Contents
  PROVE  Loaded(s) = s
<1>1. s \in Seq(accepted) /\ Len(s) \in Nat /\ Len(s) <= MaxSize  BY ContentsFacts
<1>2. Least(Len(s), MaxSize) = Len(s)
  BY <1>1, CheckpointAssumption DEF Least
<1>3. /\ SubSeq(s, 1, Len(s)) \in Seq(accepted)
      /\ Len(SubSeq(s, 1, Len(s))) = Len(s)
      /\ \A i \in 1 .. Len(s) : SubSeq(s, 1, Len(s))[i] = s[i]
  BY <1>1, SubSeqProperties
<1>4. SubSeq(s, 1, Len(s)) = s
  BY <1>1, <1>3, SeqEqual
<1> QED  BY <1>2, <1>4 DEF Loaded

(* A batch and the rest of a buffer hold what the buffer held, apart.      *)
LEMMA SplitContents ==
  ASSUME NEW s \in Contents, NEW n \in 0 .. Len(s)
  PROVE  /\ SubSeq(s, 1, n) \in Contents
         /\ SubSeq(s, n + 1, Len(s)) \in Contents
         /\ \A e : InSeq(e, s) <=> InSeq(e, SubSeq(s, 1, n)) \/ InSeq(e, SubSeq(s, n + 1, Len(s)))
         /\ \A e : ~ (InSeq(e, SubSeq(s, 1, n)) /\ InSeq(e, SubSeq(s, n + 1, Len(s))))
<1> DEFINE front == SubSeq(s, 1, n)
           back == SubSeq(s, n + 1, Len(s))
<1>1. /\ s \in Seq(accepted) /\ Len(s) \in Nat /\ Len(s) <= MaxSize
      /\ DOMAIN s = 1 .. Len(s)
      /\ \A i, j \in 1 .. Len(s) : s[i] = s[j] => i = j
  BY ContentsFacts
<1>2. n \in Nat /\ n <= Len(s)  BY <1>1
<1>3. /\ front \in Seq(accepted) /\ Len(front) = n /\ DOMAIN front = 1 .. n
      /\ \A i \in 1 .. n : front[i] = s[i]
  BY <1>1, <1>2, SubSeqProperties, LenProperties
<1>4. /\ back \in Seq(accepted) /\ Len(back) = Len(s) - n /\ DOMAIN back = 1 .. Len(s) - n
      /\ \A i \in 1 .. Len(s) - n : back[i] = s[n + i]
  <2>1. n + 1 \in 1 .. Len(s) + 1 /\ Len(s) \in n .. Len(s)  BY <1>1, <1>2
  <2>2. /\ back \in Seq(accepted)
        /\ Len(back) = IF n + 1 <= Len(s) THEN Len(s) - (n + 1) + 1 ELSE 0
        /\ \A i \in 1 .. Len(s) - (n + 1) + 1 : back[i] = s[(n + 1) + i - 1]
    BY <1>1, <2>1, SubSeqProperties
  <2> HIDE DEF back
  <2>3. Len(back) = Len(s) - n
    <3>1. CASE n + 1 <= Len(s)
      <4>1. Len(back) = Len(s) - (n + 1) + 1  BY <3>1, <2>2
      <4> QED  BY <4>1, <1>1, <1>2
    <3>2. CASE n = Len(s)
      <4>1. ~ (n + 1 <= Len(s)) /\ Len(s) - n = 0  BY <3>2, <1>2
      <4> QED  BY <4>1, <2>2
    <3>3. n + 1 <= Len(s) \/ n = Len(s)
      <4>1. Len(s) \in Nat /\ n \in Nat /\ n <= Len(s)  BY <1>1, <1>2
      <4> QED  BY <4>1
    <3> QED  BY <3>1, <3>2, <3>3
  <2>4. ASSUME NEW i \in 1 .. Len(s) - n PROVE back[i] = s[n + i]
    <3>1. i \in 1 .. Len(s) - (n + 1) + 1 /\ (n + 1) + i - 1 = n + i  BY <1>1, <1>2
    <3> QED  BY <3>1, <2>2
  <2> QED  BY <2>2, <2>3, <2>4, LenProperties
<1> HIDE DEF front, back
<1>5. front \in Contents
  BY <1>1, <1>2, <1>3, CheckpointAssumption DEF Contents, Distinct
<1>6. back \in Contents
  BY <1>1, <1>2, <1>4, CheckpointAssumption DEF Contents, Distinct
<1>7. ASSUME NEW e, InSeq(e, s) PROVE InSeq(e, front) \/ InSeq(e, back)
  <2>1. PICK i \in 1 .. Len(s) : s[i] = e  BY <1>1, <1>7 DEF InSeq
  <2>2. CASE i <= n
    BY <2>1, <2>2, <1>3 DEF InSeq
  <2>3. CASE i > n
    <3>1. i - n \in 1 .. Len(s) - n /\ back[i - n] = e
      BY <2>1, <2>3, <1>1, <1>2, <1>4
    <3> QED  BY <3>1, <1>4 DEF InSeq
  <2> QED  BY <2>1, <2>2, <2>3, <1>2
<1>8. ASSUME NEW e, InSeq(e, front) \/ InSeq(e, back) PROVE InSeq(e, s)
  <2>1. CASE InSeq(e, front)
    BY <2>1, <1>1, <1>2, <1>3 DEF InSeq
  <2>2. CASE InSeq(e, back)
    <3>1. PICK i \in 1 .. Len(s) - n : back[i] = e  BY <2>2, <1>4 DEF InSeq
    <3>2. n + i \in 1 .. Len(s)  BY <1>1, <1>2
    <3> QED  BY <3>1, <3>2, <1>1, <1>4 DEF InSeq
  <2> QED  BY <1>8, <2>1, <2>2
<1>9. ASSUME NEW e, InSeq(e, front), InSeq(e, back) PROVE FALSE
  BY <1>1, <1>2, <1>3, <1>4, <1>9 DEF InSeq
<1> QED  BY <1>5, <1>6, <1>7, <1>8, <1>9 DEF front, back

(* A batch goes back behind a buffer it shares nothing with.               *)
LEMMA JoinContents ==
  ASSUME NEW s \in Contents, NEW t \in Contents,
         Len(s) + Len(t) <= MaxSize,
         \A e : ~ (InSeq(e, s) /\ InSeq(e, t))
  PROVE  /\ s \o t \in Contents
         /\ \A e : InSeq(e, s \o t) <=> InSeq(e, s) \/ InSeq(e, t)
<1> DEFINE u == s \o t
<1>1. /\ s \in Seq(accepted) /\ Len(s) \in Nat /\ DOMAIN s = 1 .. Len(s)
      /\ \A i, j \in 1 .. Len(s) : s[i] = s[j] => i = j
  BY ContentsFacts
<1>2. /\ t \in Seq(accepted) /\ Len(t) \in Nat /\ DOMAIN t = 1 .. Len(t)
      /\ \A i, j \in 1 .. Len(t) : t[i] = t[j] => i = j
  BY ContentsFacts
<1>3. /\ u \in Seq(accepted) /\ Len(u) = Len(s) + Len(t) /\ DOMAIN u = 1 .. Len(s) + Len(t)
      /\ \A i \in 1 .. Len(s) : u[i] = s[i]
      /\ \A i \in 1 .. Len(t) : u[Len(s) + i] = t[i]
  BY <1>1, <1>2, ConcatProperties, LenProperties
<1> HIDE DEF u
<1>4. ASSUME NEW i \in DOMAIN u
      PROVE  \/ i \in 1 .. Len(s) /\ u[i] = s[i]
             \/ i - Len(s) \in 1 .. Len(t) /\ u[i] = t[i - Len(s)]
  <2>1. CASE i <= Len(s)
    BY <2>1, <1>1, <1>3
  <2>2. CASE i > Len(s)
    <3>1. i - Len(s) \in 1 .. Len(t) /\ i = Len(s) + (i - Len(s))
      BY <2>2, <1>1, <1>2, <1>3
    <3> QED  BY <3>1, <1>3
  <2> QED  BY <2>1, <2>2, <1>1, <1>3
<1>5. Distinct(u)
  <2> SUFFICES ASSUME NEW i \in DOMAIN u, NEW j \in DOMAIN u, u[i] = u[j] PROVE i = j
    BY DEF Distinct
  <2>1. i \in Int /\ j \in Int  BY <1>3
  <2>2. CASE i \in 1 .. Len(s) /\ u[i] = s[i] /\ j \in 1 .. Len(s) /\ u[j] = s[j]
    BY <2>2, <1>1
  <2>3. CASE /\ i - Len(s) \in 1 .. Len(t) /\ u[i] = t[i - Len(s)]
             /\ j - Len(s) \in 1 .. Len(t) /\ u[j] = t[j - Len(s)]
    <3>1. i - Len(s) = j - Len(s)  BY <2>3, <1>2
    <3> QED  BY <2>1, <3>1, <1>1
  <2>4. CASE i \in 1 .. Len(s) /\ u[i] = s[i] /\ j - Len(s) \in 1 .. Len(t) /\ u[j] = t[j - Len(s)]
    BY <2>4, <1>1, <1>2 DEF InSeq
  <2>5. CASE j \in 1 .. Len(s) /\ u[j] = s[j] /\ i - Len(s) \in 1 .. Len(t) /\ u[i] = t[i - Len(s)]
    BY <2>5, <1>1, <1>2 DEF InSeq
  <2> QED  BY <2>2, <2>3, <2>4, <2>5, <1>4
<1>6. u \in Contents  BY <1>3, <1>5 DEF Contents
<1>7. ASSUME NEW e, InSeq(e, u) PROVE InSeq(e, s) \/ InSeq(e, t)
  BY <1>7, <1>1, <1>2, <1>4 DEF InSeq
<1>8. ASSUME NEW e, InSeq(e, s) PROVE InSeq(e, u)
  BY <1>8, <1>1, <1>2, <1>3 DEF InSeq
<1>9. ASSUME NEW e, InSeq(e, t) PROVE InSeq(e, u)
  <2>1. PICK i \in 1 .. Len(t) : t[i] = e  BY <1>9, <1>2 DEF InSeq
  <2>2. Len(s) + i \in DOMAIN u  BY <1>1, <1>2, <1>3
  <2> QED  BY <2>1, <2>2, <1>3 DEF InSeq
<1> QED  BY <1>6, <1>7, <1>8, <1>9 DEF u

--------------------------------------------------------------------------------
(* Files and saves                                                         *)

(* Redirecting the saves that write to a file changes nothing else of them.*)
LEMMA MovedFacts ==
  ASSUME NEW all \in [Save -> SaveCall], NEW from,
         NEW to \in {"none", "tmp", "final", "gone"}
  PROVE  /\ Moved(all, from, to) \in [Save -> SaveCall]
         /\ \A s \in Save : Moved(all, from, to)[s].events = all[s].events
                         /\ Moved(all, from, to)[s].pc = all[s].pc
<1> DEFINE new(s) == IF all[s].file = from THEN [all[s] EXCEPT !.file = to] ELSE all[s]
<1>1. ASSUME NEW s \in Save
      PROVE  new(s) \in SaveCall /\ new(s).events = all[s].events /\ new(s).pc = all[s].pc
  <2>1. all[s] \in SaveCall  OBVIOUS
  <2> QED  BY <2>1 DEF SaveCall
<1>2. Moved(all, from, to) = [s \in Save |-> new(s)]  BY DEF Moved
<1> HIDE DEF new
<1> QED  BY <1>1, <1>2

(* What the kinds of file are.                                             *)
LEMMA FileKinds ==
  ASSUME StateTypes
  PROVE  /\ Absent \in File /\ Empty \in File /\ Torn \in File
         /\ Absent.events = << >> /\ Empty.events = << >> /\ Torn.events = << >>
         /\ Contents \subseteq Seq(Event)
         /\ \A s \in Contents : s # << >> => Whole(s) \in File /\ Whole(s).events = s
         /\ \A f \in File : f.kind # "whole" <=> f.events = << >>
         /\ \A f \in File : \A s \in Contents : s # << >> =>
              /\ \A g \in Overwritten(f, s) : g \in File /\ g.events \in {s, << >>}
              /\ \A g \in PartlyWritten(f, s) : g \in File /\ g.events \in {s, f.events, << >>}
<1>1. Contents \subseteq Seq(Event)
  <2> SUFFICES ASSUME NEW s \in Contents PROVE s \in Seq(Event)
    OBVIOUS
  <2>1. /\ s \in Seq(accepted) /\ Len(s) \in Nat /\ DOMAIN s = 1 .. Len(s)
        /\ \A i \in 1 .. Len(s) : s[i] \in Event
    BY ContentsFacts DEF StateTypes
  <2> QED  BY <2>1, SeqDef
<1>2. Absent \in File /\ Empty \in File /\ Torn \in File
  BY DEF File, Absent, Empty, Torn
<1>3. Absent.events = << >> /\ Empty.events = << >> /\ Torn.events = << >>
  BY DEF Absent, Empty, Torn
<1>4. ASSUME NEW s \in Contents, s # << >> PROVE Whole(s) \in File /\ Whole(s).events = s
  BY <1>1, <1>4 DEF File, Whole
<1>5. \A f \in File : f.kind # "whole" <=> f.events = << >>
  BY DEF File
<1>6. ASSUME NEW f \in File, NEW s \in Contents, s # << >>, NEW g \in Overwritten(f, s)
      PROVE  g \in File /\ g.events \in {s, << >>}
  BY <1>2, <1>3, <1>4, <1>6 DEF Overwritten
<1>7. ASSUME NEW f \in File, NEW s \in Contents, s # << >>, NEW g \in PartlyWritten(f, s)
      PROVE  g \in File /\ g.events \in {s, f.events, << >>}
  BY <1>2, <1>3, <1>6, <1>7 DEF PartlyWritten
<1> QED  BY <1>1, <1>2, <1>3, <1>4, <1>5, <1>6, <1>7

(* Once the checkpoint is loaded, or will not be, what is in the files     *)
(* does not matter: steps of saves keep the invariant if they leave files  *)
(* and saves what they are.                                                *)
LEMMA FilesDoNotMatter ==
  ASSUME IndInv,
         UNCHANGED <<mem, phase, batch, accepted, rows, starts, lost, unread>>,
         ~ Unloaded,
         saves' \in [Save -> SaveCall], \A s \in Save : saves'[s].events \in Contents,
         \A s \in Save : saves'[s].pc # "idle" => saves'[s].events # << >>,
         tmp' \in File, tmp'.events \in Contents,
         final' \in File, final'.events \in Contents
  PROVE  IndInv'
<1>1. Contents' = Contents  BY DEF Contents
<1>2. StateTypes'  BY <1>1 DEF IndInv, StateTypes
<1>3. ~ Unloaded'  BY DEF Unloaded
<1>4. StartOrder'  BY <1>3 DEF IndInv, StartOrder, Up
<1>5. Recoverable'
  BY DEF IndInv, Recoverable, InMemory
<1>6. BatchApart' /\ OnlyAcceptedStored' /\ StoredOnce'
  BY DEF IndInv, BatchApart, OnlyAcceptedStored, StoredOnce
<1> QED  BY <1>2, <1>4, <1>5, <1>6 DEF IndInv

(* A save begins with what its instance's buffer holds.                    *)
LEMMA SaveBeginsStep ==
  ASSUME IndInv, NEW s \in Save, NEW i \in Instance, SaveBegins(s, i)
  PROVE  IndInv'
<1> DEFINE new == [pc |-> "opening", owner |-> i, events |-> mem[i], file |-> "none"]
<1>1. mem[i] \in Contents  BY DEF IndInv, StateTypes
<1>2. mem[i] \in Seq(Event) /\ mem[i] # << >>
  BY <1>1, FileKinds DEF IndInv, SaveBegins
<1>3. new \in SaveCall /\ new.events = mem[i]
  BY <1>2 DEF SaveCall
<1> HIDE DEF new
<1>4. saves' = [saves EXCEPT ![s] = new]  BY DEF SaveBegins, new
<1>5. saves' \in [Save -> SaveCall] /\ \A t \in Save : saves'[t].events \in Contents
  BY <1>1, <1>3, <1>4 DEF IndInv, StateTypes
<1>6. \A t \in Save : saves'[t].pc # "idle" => saves'[t].events # << >>
  BY <1>2, <1>3, <1>4 DEF IndInv, StateTypes, StartOrder
<1>7. ~ Unloaded  BY <1>2 DEF Unloaded
<1>8. UNCHANGED <<mem, phase, tmp, final, batch, accepted, rows, starts, lost, unread>>
  BY DEF SaveBegins
<1>9. /\ tmp' \in File /\ tmp'.events \in Contents
      /\ final' \in File /\ final'.events \in Contents
  BY <1>8 DEF IndInv, StateTypes
<1> QED
  BY <1>5, <1>6, <1>7, <1>8, <1>9, FilesDoNotMatter

(* Opening, writing, failing and cleaning up: the save's events are what   *)
(* they were, and the files hold those events or nothing.                  *)
LEMMA SaveMovesStep ==
  ASSUME IndInv, NEW s \in Save,
         SaveOpens(s) \/ SaveWrites(s) \/ SaveRenames(s) \/ SaveFails(s) \/ SaveCleansUp(s)
  PROVE  IndInv'
<1>1. /\ saves \in [Save -> SaveCall] /\ saves[s] \in SaveCall
      /\ \A t \in Save : saves[t].events \in Contents
      /\ \A t \in Save : saves[t].pc # "idle" => saves[t].events # << >>
  BY DEF IndInv, StateTypes, StartOrder
<1>2. saves[s].pc # "idle" /\ UNCHANGED <<mem, phase, batch, accepted, rows, starts, lost, unread>>
  BY DEF SaveOpens, SaveWrites, SaveRenames, SaveFails, SaveCleansUp
<1>3. ~ Unloaded /\ saves[s].events # << >>
  BY <1>2 DEF IndInv, StartOrder
<1>4. NoSave \in SaveCall /\ NoSave.events = << >> /\ NoSave.pc = "idle"
  BY EmptySeq DEF NoSave, SaveCall
<1>5. << >> \in Contents  BY EmptyContents
<1>6. /\ tmp \in File /\ tmp.events \in Contents
      /\ final \in File /\ final.events \in Contents
  BY DEF IndInv, StateTypes
<1>7. ASSUME NEW new \in SaveCall, new.events = saves[s].events,
             saves' = [saves EXCEPT ![s] = new],
             tmp' \in File, tmp'.events \in Contents,
             final' \in File, final'.events \in Contents
      PROVE  IndInv'
  <2>1. saves' \in [Save -> SaveCall] /\ \A t \in Save : saves'[t].events \in Contents
    BY <1>1, <1>7
  <2>2. \A t \in Save : saves'[t].pc # "idle" => saves'[t].events # << >>
    BY <1>1, <1>3, <1>7
  <2> QED  BY <1>2, <1>3, <1>7, <2>1, <2>2, FilesDoNotMatter
<1>8. CASE SaveOpens(s)
  <2> DEFINE new == [saves[s] EXCEPT !.pc = "writing", !.file = "tmp"]
  <2>1. new \in SaveCall /\ new.events = saves[s].events  BY <1>1 DEF SaveCall
  <2>2. saves' = [saves EXCEPT ![s] = new]  BY <1>8, <1>1 DEF SaveOpens
  <2> HIDE DEF new
  <2>3. /\ tmp' \in File /\ tmp'.events \in Contents
        /\ final' \in File /\ final'.events \in Contents
    BY <1>5, <1>6, <1>8, FileKinds DEF SaveOpens, IndInv
  <2> QED  BY <1>7, <2>1, <2>2, <2>3
<1>9. ASSUME NEW possible,
             \A g \in possible : g \in File /\ g.events \in Contents,
             FileBecomes(s, possible)
      PROVE  /\ tmp' \in File /\ tmp'.events \in Contents
             /\ final' \in File /\ final'.events \in Contents
  <2>1. /\ tmp' = tmp \/ tmp' \in possible
        /\ final' = final \/ final' \in possible
    BY <1>9 DEF FileBecomes
  <2> QED  BY <1>6, <1>9, <2>1
<1>10. FileOf(s) \in File /\ FileOf(s).events \in Contents
  BY <1>6 DEF FileOf
<1>11. CASE SaveWrites(s)
  <2> DEFINE new == [saves[s] EXCEPT !.pc = "renaming", !.file = "none"]
             possible == Overwritten(FileOf(s), saves[s].events)
  <2>1. new \in SaveCall /\ new.events = saves[s].events  BY <1>1 DEF SaveCall
  <2>2. saves' = [saves EXCEPT ![s] = new]  BY <1>11, <1>1 DEF SaveWrites
  <2>3. \A g \in possible : g \in File /\ g.events \in Contents
    BY <1>1, <1>3, <1>5, <1>10, FileKinds DEF IndInv
  <2>4. FileBecomes(s, possible)  BY <1>11 DEF SaveWrites
  <2> HIDE DEF new, possible
  <2>5. /\ tmp' \in File /\ tmp'.events \in Contents
        /\ final' \in File /\ final'.events \in Contents
    BY <1>9, <2>3, <2>4
  <2> QED  BY <1>7, <2>1, <2>2, <2>5
<1>12. CASE SaveRenames(s)
  <2> DEFINE once == Moved(saves, "final", "gone")
             twice == Moved(once, "tmp", "final")
  <2>1. /\ once \in [Save -> SaveCall]
        /\ \A t \in Save : once[t].events = saves[t].events /\ once[t].pc = saves[t].pc
    BY <1>1, MovedFacts
  <2> HIDE DEF once
  <2>2. /\ twice \in [Save -> SaveCall]
        /\ \A t \in Save : twice[t].events = once[t].events /\ twice[t].pc = once[t].pc
    BY <2>1, MovedFacts
  <2> HIDE DEF twice
  <2>3. saves' = [twice EXCEPT ![s] = NoSave]
    BY <1>12 DEF SaveRenames, once, twice
  <2>4. saves' \in [Save -> SaveCall] /\ \A t \in Save : saves'[t].events \in Contents
    BY <1>1, <1>4, <1>5, <2>1, <2>2, <2>3
  <2>5. \A t \in Save : saves'[t].pc # "idle" => saves'[t].events # << >>
    BY <1>1, <1>4, <2>1, <2>2, <2>3
  <2>6. /\ tmp' \in File /\ tmp'.events \in Contents
        /\ final' \in File /\ final'.events \in Contents
    BY <1>5, <1>6, <1>12, FileKinds DEF SaveRenames, IndInv
  <2> QED  BY <1>2, <1>3, <2>4, <2>5, <2>6, FilesDoNotMatter
<1>13. CASE SaveFails(s)
  <2> DEFINE new == [saves[s] EXCEPT !.pc = "cleaning", !.file = "none"]
             possible == PartlyWritten(FileOf(s), saves[s].events)
  <2>1. new \in SaveCall /\ new.events = saves[s].events  BY <1>1 DEF SaveCall
  <2>2. saves' = [saves EXCEPT ![s] = new]  BY <1>13, <1>1 DEF SaveFails
  <2>3. \A g \in possible : g \in File /\ g.events \in Contents
    BY <1>1, <1>3, <1>5, <1>10, FileKinds DEF IndInv
  <2>4. UNCHANGED <<tmp, final>> \/ FileBecomes(s, possible)  BY <1>13 DEF SaveFails
  <2> HIDE DEF new, possible
  <2>5. /\ tmp' \in File /\ tmp'.events \in Contents
        /\ final' \in File /\ final'.events \in Contents
    BY <1>6, <1>9, <2>3, <2>4
  <2> QED  BY <1>7, <2>1, <2>2, <2>5
<1>14. CASE SaveCleansUp(s)
  <2> DEFINE once == Moved(saves, "tmp", "gone")
  <2>1. /\ once \in [Save -> SaveCall]
        /\ \A t \in Save : once[t].events = saves[t].events /\ once[t].pc = saves[t].pc
    BY <1>1, MovedFacts
  <2> HIDE DEF once
  <2>2. saves' = [once EXCEPT ![s] = NoSave]
    BY <1>14 DEF SaveCleansUp, once
  <2>3. saves' \in [Save -> SaveCall] /\ \A t \in Save : saves'[t].events \in Contents
    BY <1>1, <1>4, <1>5, <2>1, <2>2
  <2>4. \A t \in Save : saves'[t].pc # "idle" => saves'[t].events # << >>
    BY <1>1, <1>4, <2>1, <2>2
  <2>5. /\ tmp' \in File /\ tmp'.events \in Contents
        /\ final' \in File /\ final'.events \in Contents
    BY <1>5, <1>6, <1>14, FileKinds DEF SaveCleansUp, IndInv
  <2> QED  BY <1>2, <1>3, <2>3, <2>4, <2>5, FilesDoNotMatter
<1> QED  BY <1>8, <1>11, <1>12, <1>13, <1>14

--------------------------------------------------------------------------------
(* Starting, working, crashing                                             *)

(* The first start finds nothing anywhere.                                 *)
LEMMA InitIndInv == Init => IndInv
<1> SUFFICES ASSUME Init PROVE IndInv
  OBVIOUS
<1>1. << >> \in Contents /\ \A e : ~ InSeq(e, << >>)  BY EmptyContents
<1>2. NoSave \in SaveCall /\ NoSave.events = << >> /\ NoSave.pc = "idle"
  BY EmptySeq DEF NoSave, SaveCall
<1>3. Absent \in File /\ Absent.events = << >>  BY DEF Absent, File
<1>4. StateTypes
  BY <1>1, <1>2, <1>3, CheckpointAssumption DEF Init, StateTypes
<1>5. StartOrder  BY <1>2 DEF Init, StartOrder
<1>6. Recoverable /\ OnlyAcceptedStored  BY DEF Init, Recoverable, OnlyAcceptedStored
<1>7. BatchApart /\ StoredOnce  BY <1>1 DEF Init, BatchApart, StoredOnce
<1> QED  BY <1>4, <1>5, <1>6, <1>7 DEF IndInv

(* What a load does: all of the checkpoint comes into an empty buffer.     *)
LEMMA LoadsWhole ==
  ASSUME IndInv, NEW i \in Instance, Loads(i)
  PROVE  /\ mem' = [mem EXCEPT ![i] = final.events]
         /\ phase' = [phase EXCEPT ![i] = IF final.events = << >> THEN "up" ELSE "loaded"]
<1>1. /\ mem \in [Instance -> Contents] /\ final.events \in Contents
      /\ phase[i] = "loading" /\ mem[i] = << >> /\ final \in File
  BY DEF IndInv, StateTypes, StartOrder, Loads
<1>2. final.kind # "whole" <=> final.events = << >>
  BY <1>1, FileKinds DEF IndInv
<1>3. CASE final.kind = "whole"
  BY <1>1, <1>2, <1>3, LoadedWhole DEF Loads
<1>4. CASE final.kind # "whole"
  BY <1>1, <1>2, <1>4 DEF Loads
<1> QED  BY <1>3, <1>4

(* An instance loads the checkpoint.                                       *)
LEMMA LoadsStep ==
  ASSUME IndInv, NEW i \in Instance, Loads(i)
  PROVE  IndInv'
<1>1. /\ mem \in [Instance -> Contents] /\ final.events \in Contents
      /\ phase[i] = "loading" /\ mem[i] = << >>
      /\ phase \in [Instance -> {"loading", "loaded", "up"}]
  BY DEF IndInv, StateTypes, StartOrder, Loads
<1>2. mem' = [mem EXCEPT ![i] = final.events]
  BY LoadsWhole
<1>3. phase' = [phase EXCEPT ![i] = IF final.events = << >> THEN "up" ELSE "loaded"]
  BY LoadsWhole
<1>4. UNCHANGED <<saves, tmp, final, batch, accepted, rows, starts, lost, unread>>
  BY DEF Loads
<1>5. Contents' = Contents  BY <1>4 DEF Contents
<1>6. StateTypes'
  BY <1>1, <1>2, <1>3, <1>4, <1>5 DEF IndInv, StateTypes
<1>7. batch = << >>
  BY <1>1 DEF IndInv, StartOrder, Up
<1>8. ~ Unloaded => ~ Unloaded'
  BY <1>1, <1>2, <1>3 DEF Unloaded
<1>9. StartOrder'
  <2>1. \A j \in Instance : /\ phase'[j] = "loading" => mem'[j] = << >>
                            /\ phase'[j] = "loaded" => mem'[j] # << >>
    BY <1>1, <1>2, <1>3 DEF IndInv, StartOrder
  <2>2. \A s \in Save : saves'[s].pc # "idle" => ~ Unloaded' /\ saves'[s].events # << >>
    BY <1>4, <1>8 DEF IndInv, StartOrder
  <2> QED  BY <1>4, <1>7, <2>1, <2>2 DEF StartOrder
<1>10. Recoverable'
  <2> SUFFICES ASSUME NEW e \in accepted
               PROVE  InMemory(e)' \/ rows[e] > 0 \/ e \in lost \/ e \in unread
    BY <1>4 DEF Recoverable
  <2>1. CASE InMemory(e)
    BY <2>1, <1>1, <1>2, <1>4, EmptyContents DEF InMemory
  <2>2. CASE InSeq(e, final.events)
    BY <2>2, <1>1, <1>2 DEF InMemory
  <2> QED  BY <2>1, <2>2 DEF IndInv, Recoverable
<1>11. BatchApart' /\ OnlyAcceptedStored'
  BY <1>4, <1>7, EmptyContents DEF IndInv, BatchApart, OnlyAcceptedStored
<1>12. StoredOnce'
  <2>1. CASE i = "token"
    BY <2>1, <1>1, <1>4 DEF IndInv, StoredOnce
  <2>2. CASE i # "token"
    BY <2>2, <1>1, <1>2, <1>3, <1>4 DEF IndInv, StoredOnce, Instance
  <2> QED  BY <2>1, <2>2
<1> QED  BY <1>6, <1>9, <1>10, <1>11, <1>12 DEF IndInv

(* The last instance that fails to read the checkpoint is alone: all       *)
(* buffers are empty.  If it is not the last, another one may still load,  *)
(* or has loaded.                                                          *)
LEMMA WhoReads ==
  ASSUME IndInv, NEW i \in Instance, ReadFails(i)
  PROVE  /\ LastToRead(i) => Unloaded /\ ~ Unloaded'
         /\ ~ LastToRead(i) => Unloaded' = Unloaded
<1>1. /\ phase \in [Instance -> {"loading", "loaded", "up"}]
      /\ phase[i] = "loading" /\ mem[i] = << >> /\ mem' = mem
      /\ phase' = [phase EXCEPT ![i] = "up"]
      /\ \A j \in Instance : phase[j] = "loaded" => mem[j] # << >>
  BY DEF ReadFails, IndInv, StateTypes, StartOrder
<1>2. CASE LastToRead(i)
  BY <1>1, <1>2 DEF LastToRead, Unloaded
<1>3. CASE ~ LastToRead(i)
  <2>1. PICK j \in Instance \ {i} : phase[j] # "up" \/ mem[j] # << >>
    BY <1>3 DEF LastToRead
  <2>2. CASE mem[j] # << >>
    <3>1. ~ Unloaded  BY <2>1, <2>2 DEF Unloaded
    <3>2. ~ Unloaded'  BY <1>1, <2>1, <2>2 DEF Unloaded
    <3> QED  BY <1>3, <3>1, <3>2 DEF Unloaded
  <2>3. CASE mem[j] = << >>
    <3>1. phase[j] = "loading" /\ phase'[j] = "loading"
      BY <1>1, <2>1, <2>3
    <3>2. Unloaded <=> \A k \in Instance : mem[k] = << >>  BY <3>1 DEF Unloaded
    <3>3. Unloaded' <=> \A k \in Instance : mem'[k] = << >>  BY <3>1 DEF Unloaded
    <3>4. Unloaded' <=> Unloaded  BY <1>1, <3>2, <3>3
    <3> QED  BY <1>3, <3>4 DEF Unloaded
  <2> QED  BY <2>2, <2>3
<1> QED  BY <1>2, <1>3

(* An instance starts without the checkpoint it could not read.            *)
LEMMA ReadFailsStep ==
  ASSUME IndInv, NEW i \in Instance, ReadFails(i)
  PROVE  IndInv'
<1>1. /\ phase[i] = "loading" /\ phase' = [phase EXCEPT ![i] = "up"]
      /\ phase \in [Instance -> {"loading", "loaded", "up"}]
      /\ UNCHANGED <<mem, saves, tmp, final, batch, accepted, rows, starts, lost>>
  BY DEF ReadFails, IndInv, StateTypes
<1>2. Contents' = Contents  BY <1>1 DEF Contents
<1>3. /\ unread \subseteq unread' /\ unread' \subseteq accepted
      /\ LastToRead(i) => \A e \in accepted : InSeq(e, final.events) => e \in unread'
  BY DEF ReadFails, IndInv, StateTypes
<1>4. StateTypes'
  BY <1>1, <1>2, <1>3 DEF IndInv, StateTypes
<1>5. Unloaded' => Unloaded /\ ~ LastToRead(i)
  BY WhoReads
<1>6. batch = << >>
  BY <1>1 DEF IndInv, StartOrder, Up
<1>7. StartOrder'
  BY <1>1, <1>5, <1>6 DEF IndInv, StartOrder
<1>8. Recoverable'
  <2> SUFFICES ASSUME NEW e \in accepted
               PROVE  \/ InMemory(e) \/ rows[e] > 0 \/ e \in lost \/ e \in unread'
                      \/ Unloaded' /\ InSeq(e, final.events)
    BY <1>1 DEF Recoverable, InMemory
  <2>1. CASE Unloaded /\ InSeq(e, final.events)
    BY <2>1, <1>3, WhoReads
  <2> QED  BY <2>1, <1>3 DEF IndInv, Recoverable
<1>9. BatchApart' /\ OnlyAcceptedStored' /\ StoredOnce'
  BY <1>1 DEF IndInv, BatchApart, OnlyAcceptedStored, StoredOnce, Instance
<1> QED  BY <1>4, <1>7, <1>8, <1>9 DEF IndInv

(* An instance that has loaded deletes the checkpoint: what was in it is   *)
(* in some memory by now, or in the table.                                 *)
LEMMA UnlinksStep ==
  ASSUME IndInv, NEW i \in Instance, Unlinks(i)
  PROVE  IndInv'
<1>1. /\ phase[i] = "loaded" /\ phase' = [phase EXCEPT ![i] = "up"]
      /\ phase \in [Instance -> {"loading", "loaded", "up"}]
      /\ UNCHANGED <<mem, tmp, batch, accepted, rows, starts, lost, unread>>
  BY DEF Unlinks, IndInv, StateTypes
<1>2. Contents' = Contents  BY <1>1 DEF Contents
<1>3. /\ saves' \in [Save -> SaveCall]
      /\ \A s \in Save : saves'[s].events = saves[s].events
  BY MovedFacts DEF Unlinks, IndInv, StateTypes
<1>4. final' \in File /\ final'.events \in Contents
  BY FileKinds, EmptyContents DEF Unlinks, IndInv, StateTypes
<1>5. StateTypes'
  BY <1>1, <1>2, <1>3, <1>4 DEF IndInv, StateTypes
<1>6. ~ Unloaded /\ ~ Unloaded'
  BY <1>1 DEF IndInv, StartOrder, Unloaded
<1>7. StartOrder'
  <2>1. \A s \in Save : saves'[s].pc # "idle" => saves[s].pc # "idle"
    BY MovedFacts DEF Unlinks, IndInv, StateTypes
  <2> QED  BY <1>1, <1>3, <1>6, <2>1 DEF IndInv, StateTypes, StartOrder, Up
<1>8. Recoverable'
  BY <1>1, <1>6 DEF IndInv, Recoverable, InMemory
<1>9. BatchApart' /\ OnlyAcceptedStored' /\ StoredOnce'
  BY <1>1 DEF IndInv, BatchApart, OnlyAcceptedStored, StoredOnce, Instance
<1> QED  BY <1>5, <1>7, <1>8, <1>9 DEF IndInv

(* Once all instances are up, nobody has still to look at the checkpoint.  *)
LEMMA UpHasLoaded ==
  ASSUME Up, phase' = phase
  PROVE  ~ Unloaded /\ ~ Unloaded'
<1>1. \A j \in Instance : phase[j] # "loading" /\ phase'[j] # "loading"
  BY DEF Up
<1> QED  BY <1>1 DEF Unloaded

(* A client's event enters the token's buffer: a new one, that is nowhere. *)
LEMMA AcceptStep ==
  ASSUME IndInv, NEW e \in Event, Accept(e)
  PROVE  IndInv'
<1> DEFINE old == mem["token"]
           new == Append(old, e)
<1>1. /\ mem \in [Instance -> Contents] /\ old \in Contents /\ "token" \in Instance
      /\ accepted' = accepted \cup {e} /\ e \notin accepted
      /\ mem' = [mem EXCEPT !["token"] = new]
      /\ UNCHANGED <<phase, saves, tmp, final, batch, rows, starts, lost, unread>>
      /\ Len(old) < MaxSize
      /\ Up
  BY DEF IndInv, StateTypes, Accept, HasRoom, Instance
<1>2. ASSUME NEW s \in Contents PROVE s \in Contents' /\ ~ InSeq(e, s)
  <2>1. /\ s \in Seq(accepted) /\ Len(s) <= MaxSize /\ DOMAIN s = 1 .. Len(s) /\ Len(s) \in Nat
        /\ \A i \in 1 .. Len(s) : s[i] \in accepted
        /\ \A i, j \in 1 .. Len(s) : s[i] = s[j] => i = j
    BY ContentsFacts
  <2>2. s \in Seq(accepted')
    BY <1>1, <2>1, SeqDef
  <2> QED  BY <1>1, <2>1, <2>2 DEF Contents, Distinct, InSeq
<1>3. /\ old \in Seq(accepted') /\ Len(old) \in Nat /\ DOMAIN old = 1 .. Len(old)
      /\ \A i \in 1 .. Len(old) : old[i] \in accepted
      /\ \A i, j \in 1 .. Len(old) : old[i] = old[j] => i = j
  BY <1>1, <1>2, ContentsFacts DEF Contents
<1>4. /\ new \in Seq(accepted') /\ Len(new) = Len(old) + 1 /\ DOMAIN new = 1 .. Len(old) + 1
      /\ \A i \in 1 .. Len(old) : new[i] = old[i]
      /\ new[Len(old) + 1] = e
  BY <1>1, <1>3, AppendProperties, LenProperties
<1> HIDE DEF old, new
<1>5. new \in Contents'
  <2>1. ASSUME NEW i \in DOMAIN new, NEW j \in DOMAIN new, new[i] = new[j] PROVE i = j
    <3>1. (i \in 1 .. Len(old) \/ i = Len(old) + 1) /\ (j \in 1 .. Len(old) \/ j = Len(old) + 1)
      <4>1. i \in 1 .. Len(old) + 1 /\ j \in 1 .. Len(old) + 1 /\ Len(old) \in Nat  BY <1>3, <1>4
      <4> QED  BY <4>1
    <3>2. CASE i \in 1 .. Len(old)
      <4>1. new[i] # e  BY <3>2, <1>1, <1>3, <1>4
      <4>2. j \in 1 .. Len(old)  BY <2>1, <3>1, <4>1, <1>4
      <4> QED  BY <2>1, <3>2, <4>2, <1>3, <1>4
    <3>3. CASE i = Len(old) + 1
      <4>1. j \notin 1 .. Len(old)  BY <2>1, <3>3, <1>1, <1>3, <1>4
      <4> QED  BY <3>1, <3>3, <4>1
    <3> QED  BY <3>1, <3>2, <3>3
  <2>2. Len(new) <= MaxSize  BY <1>1, <1>3, <1>4, CheckpointAssumption
  <2> QED  BY <2>1, <2>2, <1>4 DEF Contents, Distinct
<1>6. \A f : InSeq(f, new) <=> InSeq(f, old) \/ f = e
  <2>1. ASSUME NEW f, InSeq(f, new) PROVE InSeq(f, old) \/ f = e
    <3>1. PICK i \in 1 .. Len(old) + 1 : new[i] = f  BY <2>1, <1>4 DEF InSeq
    <3>2. i \in 1 .. Len(old) \/ i = Len(old) + 1  BY <1>3
    <3> QED  BY <3>1, <3>2, <1>3, <1>4 DEF InSeq
  <2>2. ASSUME NEW f, InSeq(f, old) PROVE InSeq(f, new)
    BY <2>2, <1>3, <1>4 DEF InSeq
  <2>3. Len(old) + 1 \in DOMAIN new  BY <1>3, <1>4
  <2>4. InSeq(e, new)  BY <2>3, <1>4 DEF InSeq
  <2> QED  BY <2>1, <2>2, <2>4
<1>7. StateTypes'
  <2>1. mem' \in [Instance -> Contents']  BY <1>1, <1>2, <1>5
  <2> QED  BY <2>1, <1>1, <1>2 DEF IndInv, StateTypes
<1>8. StartOrder'
  <2>1. ~ Unloaded'  BY <1>1, UpHasLoaded
  <2>2. \A j \in Instance : phase'[j] # "loading" /\ phase'[j] # "loaded"
    BY <1>1 DEF Up
  <2>3. Up'  BY <1>1 DEF Up
  <2> QED  BY <1>1, <2>1, <2>2, <2>3 DEF IndInv, StartOrder
<1>9. Recoverable'
  <2> SUFFICES ASSUME NEW f \in accepted' PROVE InMemory(f)' \/ rows[f] > 0 \/ f \in lost \/ f \in unread
    BY <1>1 DEF Recoverable
  <2>1. CASE f = e
    <3>1. InSeq(f, mem'["token"])  BY <2>1, <1>1, <1>6
    <3> QED  BY <3>1, <1>1 DEF InMemory
  <2>2. CASE f # e
    <3>1. ~ Unloaded  BY <1>1 DEF Up, Unloaded
    <3>2. InMemory(f) => InMemory(f)'
      BY <1>1, <1>6 DEF InMemory, old
    <3> QED  BY <2>2, <3>1, <3>2, <1>1 DEF IndInv, Recoverable
  <2> QED  BY <2>1, <2>2
<1>10. BatchApart'
  BY <1>1, <1>2, <1>6 DEF IndInv, StateTypes, BatchApart, old
<1>11. OnlyAcceptedStored'
  BY <1>1 DEF IndInv, OnlyAcceptedStored
<1>12. StoredOnce'
  <2>1. rows[e] = 0 /\ starts > 0
    BY <1>1, CheckpointAssumption DEF IndInv, StateTypes, OnlyAcceptedStored
  <2> QED  BY <2>1, <1>1, <1>6 DEF IndInv, StoredOnce, Up, old
<1> QED  BY <1>7, <1>8, <1>9, <1>10, <1>11, <1>12 DEF IndInv

(* The worker takes a batch out of the token's buffer.                     *)
LEMMA DrainsStep ==
  ASSUME IndInv, Drains
  PROVE  IndInv'
<1> DEFINE old == mem["token"]
           n == Least(BatchSize, Len(old))
           front == SubSeq(old, 1, n)
           back == SubSeq(old, n + 1, Len(old))
<1>1. /\ mem \in [Instance -> Contents] /\ old \in Contents /\ "token" \in Instance
      /\ batch = << >> /\ Up
      /\ batch' = front
      /\ mem' = [mem EXCEPT !["token"] = back]
      /\ UNCHANGED <<phase, saves, tmp, final, accepted, rows, starts, lost, unread>>
  BY DEF IndInv, StateTypes, Drains, Undrained, Instance
<1>2. n \in 0 .. Len(old)
  <2>1. Len(old) \in Nat  BY <1>1, ContentsFacts
  <2> QED  BY <2>1, CheckpointAssumption DEF Least
<1>3. /\ front \in Contents /\ back \in Contents
      /\ \A e : InSeq(e, old) <=> InSeq(e, front) \/ InSeq(e, back)
      /\ \A e : ~ (InSeq(e, front) /\ InSeq(e, back))
  <2> HIDE DEF n
  <2> QED  BY <1>1, <1>2, SplitContents
<1> HIDE DEF front, back, n
<1>4. Contents' = Contents  BY <1>1 DEF Contents
<1>5. StateTypes'
  BY <1>1, <1>3, <1>4 DEF IndInv, StateTypes
<1>6. StartOrder'
  <2>1. ~ Unloaded'  BY <1>1, UpHasLoaded
  <2>2. \A j \in Instance : phase'[j] # "loading" /\ phase'[j] # "loaded"
    BY <1>1 DEF Up
  <2>3. Up'  BY <1>1 DEF Up
  <2> QED  BY <1>1, <2>1, <2>2, <2>3 DEF IndInv, StartOrder
<1>7. Recoverable'
  <2> SUFFICES ASSUME NEW f \in accepted PROVE InMemory(f)' \/ rows[f] > 0 \/ f \in lost \/ f \in unread
    BY <1>1 DEF Recoverable
  <2>1. ~ Unloaded  BY <1>1 DEF Up, Unloaded
  <2>2. ASSUME InMemory(f) PROVE InMemory(f)'
    <3>1. PICK i \in Instance : InSeq(f, mem[i])
      BY <1>1, <2>2, EmptyContents DEF InMemory
    <3>2. CASE i = "token"
      BY <3>1, <3>2, <1>1, <1>3 DEF InMemory
    <3>3. CASE i # "token"
      BY <3>1, <3>3, <1>1 DEF InMemory
    <3> QED  BY <3>2, <3>3
  <2> QED  BY <2>1, <2>2 DEF IndInv, Recoverable
<1>8. BatchApart'
  BY <1>1, <1>3 DEF BatchApart
<1>9. OnlyAcceptedStored'
  BY <1>1 DEF IndInv, OnlyAcceptedStored
<1>10. StoredOnce'
  BY <1>1, <1>3 DEF IndInv, StoredOnce
<1> QED  BY <1>5, <1>6, <1>7, <1>8, <1>9, <1>10 DEF IndInv

(* The batch is stored: each of its events gets the row this start owed it.*)
LEMMA BatchStoredStep ==
  ASSUME IndInv, BatchStored
  PROVE  IndInv'
<1>1. /\ batch # << >> /\ batch' = << >>
      /\ rows' = [e \in Event |-> IF InSeq(e, batch) THEN rows[e] + 1 ELSE rows[e]]
      /\ UNCHANGED <<mem, phase, saves, tmp, final, accepted, starts, lost, unread>>
  BY DEF BatchStored
<1>2. Up  BY <1>1 DEF IndInv, StartOrder
<1>3. << >> \in Contents /\ \A e : ~ InSeq(e, << >>)  BY EmptyContents
<1>4. rows \in [Event -> Nat] /\ starts \in Nat /\ batch \in Contents /\ accepted \subseteq Event
  BY CheckpointAssumption DEF IndInv, StateTypes
<1>5. \A e : InSeq(e, batch) => e \in accepted
  BY <1>4, ContentsFacts DEF InSeq
<1>6. \A e \in Event : /\ rows'[e] \in Nat /\ rows'[e] >= rows[e]
                       /\ InSeq(e, batch) => rows'[e] = rows[e] + 1
                       /\ ~ InSeq(e, batch) => rows'[e] = rows[e]
  BY <1>1, <1>4
<1>7. Contents' = Contents  BY <1>1 DEF Contents
<1>8. StateTypes'
  <2>1. rows' \in [Event -> Nat]  BY <1>1, <1>4
  <2> QED  BY <2>1, <1>1, <1>3, <1>7 DEF IndInv, StateTypes
<1>9. StartOrder'
  <2>1. ~ Unloaded'  BY <1>1, <1>2, UpHasLoaded
  <2>2. \A j \in Instance : phase'[j] # "loading" /\ phase'[j] # "loaded"
    BY <1>1, <1>2 DEF Up
  <2>3. Up'  BY <1>1, <1>2 DEF Up
  <2> QED  BY <1>1, <1>2, <2>1, <2>2, <2>3 DEF IndInv, StartOrder
<1>10. Recoverable'
  <2> SUFFICES ASSUME NEW f \in accepted PROVE InMemory(f)' \/ rows'[f] > 0 \/ f \in lost \/ f \in unread
    BY <1>1 DEF Recoverable
  <2>1. ~ Unloaded  BY <1>2 DEF Up, Unloaded, Instance
  <2>2. CASE InSeq(f, batch)
    BY <2>2, <1>4, <1>6
  <2>3. CASE ~ InSeq(f, batch)
    <3>1. InMemory(f) => InMemory(f)'  BY <2>3, <1>1 DEF InMemory
    <3>2. rows'[f] = rows[f]  BY <2>3, <1>4, <1>6
    <3> QED  BY <2>1, <3>1, <3>2 DEF IndInv, Recoverable
  <2> QED  BY <2>2, <2>3
<1>11. BatchApart'
  BY <1>1, <1>3 DEF BatchApart
<1>12. OnlyAcceptedStored'
  BY <1>1, <1>5, <1>6 DEF IndInv, OnlyAcceptedStored
<1>13. StoredOnce'
  <2> SUFFICES ASSUME NEW e \in Event
               PROVE  rows'[e] <= starts /\ (InSeq(e, mem["token"]) => rows'[e] < starts)
    BY <1>1, <1>2, <1>3 DEF StoredOnce, Up, Instance
  <2>1. CASE InSeq(e, batch)
    <3>1. rows[e] < starts /\ ~ InSeq(e, mem["token"])
      BY <2>1 DEF IndInv, StoredOnce, BatchApart
    <3> QED  BY <2>1, <3>1, <1>4, <1>6
  <2>2. CASE ~ InSeq(e, batch)
    BY <2>2, <1>6 DEF IndInv, StoredOnce
  <2> QED  BY <2>1, <2>2
<1> QED  BY <1>8, <1>9, <1>10, <1>11, <1>12, <1>13 DEF IndInv

(* The batch fails and goes back behind the token's buffer.                *)
LEMMA BatchFailsStep ==
  ASSUME IndInv, BatchFails
  PROVE  IndInv'
<1> DEFINE old == mem["token"]
           new == old \o batch
<1>1. /\ mem \in [Instance -> Contents] /\ old \in Contents /\ "token" \in Instance
      /\ batch # << >> /\ batch \in Contents /\ batch' = << >>
      /\ Len(old) + Len(batch) <= MaxSize
      /\ mem' = [mem EXCEPT !["token"] = new]
      /\ accepted \subseteq Event
      /\ UNCHANGED <<phase, saves, tmp, final, accepted, rows, starts, lost, unread>>
  BY DEF IndInv, StateTypes, BatchFails, Instance
<1>2. Up  BY <1>1 DEF IndInv, StartOrder
<1>3. << >> \in Contents /\ \A e : ~ InSeq(e, << >>)  BY EmptyContents
<1>4. \A e : ~ (InSeq(e, old) /\ InSeq(e, batch))
  <2>1. \A e : InSeq(e, old) => e \in Event
    BY <1>1, ContentsFacts DEF InSeq
  <2> QED  BY <2>1 DEF IndInv, BatchApart
<1>5. new \in Contents /\ \A e : InSeq(e, new) <=> InSeq(e, old) \/ InSeq(e, batch)
  BY <1>1, <1>4, JoinContents
<1> HIDE DEF new
<1>6. Contents' = Contents  BY <1>1 DEF Contents
<1>7. StateTypes'
  BY <1>1, <1>3, <1>5, <1>6 DEF IndInv, StateTypes
<1>8. StartOrder'
  <2>1. ~ Unloaded'  BY <1>1, <1>2, UpHasLoaded
  <2>2. \A j \in Instance : phase'[j] # "loading" /\ phase'[j] # "loaded"
    BY <1>1, <1>2 DEF Up
  <2>3. Up'  BY <1>1, <1>2 DEF Up
  <2> QED  BY <1>1, <1>2, <2>1, <2>2, <2>3 DEF IndInv, StartOrder
<1>9. Recoverable'
  <2> SUFFICES ASSUME NEW f \in accepted PROVE InMemory(f)' \/ rows[f] > 0 \/ f \in lost \/ f \in unread
    BY <1>1 DEF Recoverable
  <2>1. ~ Unloaded  BY <1>1, <1>2 DEF Up, Unloaded
  <2>2. InMemory(f) => InMemory(f)'
    BY <1>1, <1>5 DEF InMemory
  <2> QED  BY <2>1, <2>2 DEF IndInv, Recoverable
<1>10. BatchApart' /\ OnlyAcceptedStored'
  BY <1>1, <1>3 DEF IndInv, BatchApart, OnlyAcceptedStored
<1>11. StoredOnce'
  BY <1>1, <1>2, <1>3, <1>5 DEF IndInv, StoredOnce, Up
<1> QED  BY <1>7, <1>8, <1>9, <1>10, <1>11 DEF IndInv

(* The process dies: what was in memory and in no file is lost, the rest   *)
(* is in the table or will be found by whichever instance loads first.     *)
LEMMA CrashStep ==
  ASSUME IndInv, Crash
  PROVE  IndInv'
<1>1. << >> \in Contents /\ \A e : ~ InSeq(e, << >>)  BY EmptyContents
<1>2. NoSave \in SaveCall /\ NoSave.events = << >> /\ NoSave.pc = "idle"
  BY EmptySeq DEF NoSave, SaveCall
<1>3. Contents' = Contents  BY DEF Crash, Contents
<1>4. starts \in Nat /\ starts' = starts + 1 /\ starts' \in 1 .. MaxStarts
      /\ rows \in [Event -> Nat]
  BY CheckpointAssumption DEF Crash, IndInv, StateTypes
<1>5. StateTypes'
  BY <1>1, <1>2, <1>3, <1>4 DEF IndInv, StateTypes, Crash
<1>6. StartOrder'
  BY <1>2 DEF Crash, StartOrder
<1>7. Recoverable'
  <2> SUFFICES ASSUME NEW f \in accepted
               PROVE  rows[f] > 0 \/ f \in lost' \/ f \in unread \/ InSeq(f, final.events)
    BY DEF Crash, Recoverable, Unloaded, Instance
  <2>1. rows[f] \in Nat  BY <1>4 DEF IndInv, StateTypes
  <2> QED  BY <2>1 DEF IndInv, Recoverable, Crash
<1>8. BatchApart' /\ OnlyAcceptedStored'
  BY <1>1 DEF IndInv, BatchApart, OnlyAcceptedStored, Crash
<1>9. StoredOnce'
  BY <1>4 DEF IndInv, StoredOnce, Crash
<1> QED  BY <1>5, <1>6, <1>7, <1>8, <1>9 DEF IndInv

(* Every step keeps the invariant.                                         *)
LEMMA StepIndInv == IndInv /\ [Next]_vars => IndInv'
<1> SUFFICES ASSUME IndInv, [Next]_vars PROVE IndInv'
  OBVIOUS
<1>1. CASE UNCHANGED vars
  <2>1. Contents' = Contents  BY <1>1 DEF vars, Contents
  <2> QED  BY <1>1, <2>1 DEF vars, IndInv, StateTypes, StartOrder, Recoverable, BatchApart,
              OnlyAcceptedStored, StoredOnce, Up, Unloaded, InMemory
<1>2. CASE \E i \in Instance : Loads(i) \/ ReadFails(i) \/ Unlinks(i)
  BY <1>2, LoadsStep, ReadFailsStep, UnlinksStep
<1>3. CASE \E s \in Save : \E i \in Instance : SaveBegins(s, i)
  BY <1>3, SaveBeginsStep
<1>4. CASE \E s \in Save : \/ SaveOpens(s) \/ SaveWrites(s) \/ SaveRenames(s)
                           \/ SaveFails(s) \/ SaveCleansUp(s)
  BY <1>4, SaveMovesStep
<1>5. CASE \E e \in Event : Accept(e)
  BY <1>5, AcceptStep
<1>6. CASE Drains \/ BatchStored \/ BatchFails \/ Crash
  BY <1>6, DrainsStep, BatchStoredStep, BatchFailsStep, CrashStep
<1> QED  BY <1>1, <1>2, <1>3, <1>4, <1>5, <1>6 DEF Next

--------------------------------------------------------------------------------
(* The refinement                                                          *)

(* What a file or a buffer holds was accepted.                             *)
LEMMA HeldIsAccepted ==
  ASSUME IndInv, NEW e
  PROVE  /\ InMemory(e) => e \in accepted
         /\ InSeq(e, final.events) => e \in accepted
<1>1. ASSUME NEW s \in Contents, InSeq(e, s) PROVE e \in accepted
  BY <1>1, ContentsFacts DEF InSeq
<1> QED  BY <1>1 DEF IndInv, StateTypes, InMemory

(* What the checkpoint becomes holds accepted events, whatever it is.      *)
LEMMA FileIsReplaced ==
  ASSUME IndInv, ~ Unloaded,
         UNCHANGED <<mem, batch, accepted, rows, starts, lost, unread>>, ~ Unloaded'
  PROVE  Promised!Replace
<1>1. WorkingEvents' = WorkingEvents  BY DEF WorkingEvents, InMemory
<1>2. SavedEvents' \in SUBSET accepted  BY DEF SavedEvents
<1>3. Unloaded' = Unloaded  BY DEF Unloaded
<1> QED  BY <1>1, <1>2, <1>3 DEF Promised!Replace

(* An instance loads all that is in the checkpoint; nothing is to be seen  *)
(* of it if that is nothing, and another instance has still to look.       *)
LEMMA LoadsRefines ==
  ASSUME IndInv, NEW i \in Instance, Loads(i)
  PROVE  Promised!Recover \/ UNCHANGED Promised!vars
<1>1. /\ mem \in [Instance -> Contents] /\ final.events \in Contents
      /\ phase[i] = "loading" /\ mem[i] = << >>
      /\ phase \in [Instance -> {"loading", "loaded", "up"}]
  BY DEF IndInv, StateTypes, StartOrder, Loads
<1>2. mem' = [mem EXCEPT ![i] = final.events]
  BY LoadsWhole
<1>3. phase' = [phase EXCEPT ![i] = IF final.events = << >> THEN "up" ELSE "loaded"]
  BY LoadsWhole
<1>4. UNCHANGED <<final, batch, accepted, rows, starts, lost, unread>>  BY DEF Loads
<1>5. \A e : InMemory(e)' <=> InMemory(e) \/ InSeq(e, final.events)
  BY <1>1, <1>2, <1>4, EmptyContents DEF InMemory
<1>6. WorkingEvents' = WorkingEvents \cup SavedEvents
  BY <1>4, <1>5 DEF WorkingEvents, SavedEvents
<1>7. SavedEvents' = SavedEvents  BY <1>4 DEF SavedEvents
<1>8. CASE Unloaded'
  <2>1. final.events = << >> /\ Unloaded
    BY <1>1, <1>2, <1>3, <1>8 DEF Unloaded
  <2>2. SavedEvents = {}
    BY <2>1, EmptyContents DEF SavedEvents
  <2> QED  BY <1>4, <1>6, <1>7, <1>8, <2>1, <2>2 DEF Promised!vars, Unloaded
<1>9. CASE ~ Unloaded'
  BY <1>4, <1>6, <1>7, <1>9 DEF Promised!Recover
<1> QED  BY <1>8, <1>9

(* Reading the checkpoint fails for good, or for this instance only.       *)
LEMMA ReadFailsRefines ==
  ASSUME IndInv, NEW i \in Instance, ReadFails(i)
  PROVE  Promised!Skip \/ UNCHANGED Promised!vars
<1>1. UNCHANGED <<mem, final, batch, accepted, rows, starts, lost>>  BY DEF ReadFails
<1>2. WorkingEvents' = WorkingEvents /\ SavedEvents' = SavedEvents
  BY <1>1 DEF WorkingEvents, SavedEvents, InMemory
<1>3. CASE LastToRead(i)
  <2>1. unread' = unread \cup SavedEvents  BY <1>3 DEF ReadFails, SavedEvents
  <2>2. Unloaded /\ ~ Unloaded'  BY <1>3, WhoReads
  <2> QED  BY <1>1, <1>2, <2>1, <2>2 DEF Promised!Skip
<1>4. CASE ~ LastToRead(i)
  <2>1. unread' = unread  BY <1>4 DEF ReadFails
  <2>2. Unloaded' = Unloaded  BY <1>4, WhoReads
  <2> QED  BY <1>1, <1>2, <2>1, <2>2 DEF Promised!vars
<1> QED  BY <1>3, <1>4

(* The deletion comes after this instance's load.                          *)
LEMMA UnlinksRefines ==
  ASSUME IndInv, NEW i \in Instance, Unlinks(i)
  PROVE  Promised!Next
<1>1. mem[i] # << >>
  BY DEF Unlinks, IndInv, StartOrder
<1>2. UNCHANGED <<mem, batch, accepted, rows, starts, lost, unread>>  BY DEF Unlinks
<1>3. ~ Unloaded /\ ~ Unloaded'  BY <1>1, <1>2 DEF Unloaded
<1> QED  BY <1>2, <1>3, FileIsReplaced DEF Promised!Next

(* Whatever a save does to the files, it does it after the first load.     *)
LEMMA SaveRefines ==
  ASSUME IndInv, NEW s \in Save,
         \/ \E i \in Instance : SaveBegins(s, i)
         \/ SaveOpens(s) \/ SaveWrites(s) \/ SaveRenames(s)
         \/ SaveFails(s) \/ SaveCleansUp(s)
  PROVE  Promised!Next
<1>1. UNCHANGED <<mem, phase, batch, accepted, rows, starts, lost, unread>>
  BY DEF SaveBegins, SaveOpens, SaveWrites, SaveRenames, SaveFails, SaveCleansUp
<1>2. ~ Unloaded
  <2>1. CASE \E i \in Instance : SaveBegins(s, i)  BY <2>1 DEF SaveBegins, Unloaded
  <2>2. CASE saves[s].pc # "idle"  BY <2>2 DEF IndInv, StartOrder
  <2> QED
    BY <2>1, <2>2 DEF SaveOpens, SaveWrites, SaveRenames, SaveFails, SaveCleansUp
<1>3. ~ Unloaded'  BY <1>1, <1>2 DEF Unloaded
<1> QED  BY <1>1, <1>2, <1>3, FileIsReplaced DEF Promised!Next

(* An accepted event is in memory, and in no checkpoint yet.               *)
LEMMA AcceptRefines ==
  ASSUME IndInv, NEW e \in Event, Accept(e)
  PROVE  Promised!Accept(e)
<1> DEFINE old == mem["token"]
           new == Append(old, e)
<1>1. /\ mem \in [Instance -> Contents] /\ old \in Contents /\ "token" \in Instance
      /\ accepted' = accepted \cup {e} /\ e \notin accepted
      /\ mem' = [mem EXCEPT !["token"] = new]
      /\ UNCHANGED <<phase, final, batch, rows, starts, lost, unread>>
      /\ Up
  BY DEF IndInv, StateTypes, Accept, Instance
<1>2. old \in Seq(accepted) /\ Len(old) \in Nat /\ DOMAIN old = 1 .. Len(old)
  BY <1>1, ContentsFacts
<1>3. old \in Seq(accepted \cup {e})  BY <1>2, SeqDef
<1>4. /\ DOMAIN new = 1 .. Len(old) + 1
      /\ \A i \in 1 .. Len(old) : new[i] = old[i]
      /\ new[Len(old) + 1] = e
  BY <1>2, <1>3, AppendProperties, LenProperties
<1> HIDE DEF old, new
<1>5. \A f : InSeq(f, new) <=> InSeq(f, old) \/ f = e
  <2>1. 1 .. Len(old) + 1 = 1 .. Len(old) \cup {Len(old) + 1}  BY <1>2
  <2> QED  BY <2>1, <1>2, <1>4 DEF InSeq
<1>6. \A f : InMemory(f)' <=> InMemory(f) \/ f = e
  BY <1>1, <1>5 DEF InMemory, old
<1>7. ~ InMemory(e) /\ ~ InSeq(e, final.events)  BY <1>1, HeldIsAccepted
<1>8. WorkingEvents' = WorkingEvents \cup {e}
  BY <1>1, <1>6, <1>7 DEF WorkingEvents
<1>9. SavedEvents' = SavedEvents  BY <1>1, <1>7 DEF SavedEvents
<1>10. ~ Unloaded /\ Unloaded' = Unloaded  BY <1>1 DEF Up, Unloaded
<1> QED  BY <1>1, <1>8, <1>9, <1>10 DEF Promised!Accept

(* Where files, table and counters are left alone, and what is in memory   *)
(* stays there, nothing is to be seen.                                     *)
LEMMA MemoryMovesOnly ==
  ASSUME \A e : InMemory(e)' <=> InMemory(e),
         Unloaded' = Unloaded,
         UNCHANGED <<final, accepted, rows, starts, lost, unread>>
  PROVE  UNCHANGED Promised!vars
<1>1. WorkingEvents' = WorkingEvents  BY DEF WorkingEvents
<1>2. SavedEvents' = SavedEvents  BY DEF SavedEvents
<1>3. Unloaded' = Unloaded  OBVIOUS
<1> QED  BY <1>1, <1>2, <1>3 DEF Promised!vars

(* A batch that is drained is still in memory.                             *)
LEMMA DrainsRefines ==
  ASSUME IndInv, Drains
  PROVE  UNCHANGED Promised!vars
<1> DEFINE old == mem["token"]
           n == Least(BatchSize, Len(old))
           front == SubSeq(old, 1, n)
           back == SubSeq(old, n + 1, Len(old))
<1>1. /\ mem \in [Instance -> Contents] /\ old \in Contents /\ "token" \in Instance
      /\ batch = << >> /\ Up
      /\ batch' = front
      /\ mem' = [mem EXCEPT !["token"] = back]
      /\ UNCHANGED <<phase, saves, tmp, final, accepted, rows, starts, lost, unread>>
  BY DEF IndInv, StateTypes, Drains, Undrained, Instance
<1>2. n \in 0 .. Len(old)
  <2>1. Len(old) \in Nat  BY <1>1, ContentsFacts
  <2> QED  BY <2>1, CheckpointAssumption DEF Least
<1>3. \A e : InSeq(e, old) <=> InSeq(e, front) \/ InSeq(e, back)
  <2> HIDE DEF n
  <2> QED  BY <1>1, <1>2, SplitContents
<1> HIDE DEF front, back, n
<1>4. \A e : ~ InSeq(e, batch)  BY <1>1, EmptyContents
<1>5. \A e : InMemory(e)' <=> InMemory(e)
  BY <1>1, <1>3, <1>4 DEF InMemory
<1>6. ~ Unloaded /\ ~ Unloaded'  BY <1>1, UpHasLoaded
<1>7. Unloaded' = Unloaded  BY <1>6 DEF Unloaded
<1> QED  BY <1>1, <1>5, <1>7, MemoryMovesOnly

(* So is one that failed and went back.                                    *)
LEMMA BatchFailsRefines ==
  ASSUME IndInv, BatchFails
  PROVE  UNCHANGED Promised!vars
<1> DEFINE old == mem["token"]
           new == old \o batch
<1>1. /\ mem \in [Instance -> Contents] /\ old \in Contents /\ "token" \in Instance
      /\ batch \in Contents /\ batch' = << >>
      /\ Len(old) + Len(batch) <= MaxSize
      /\ mem' = [mem EXCEPT !["token"] = new]
      /\ accepted \subseteq Event
      /\ UNCHANGED <<phase, saves, tmp, final, accepted, rows, starts, lost, unread>>
  BY DEF IndInv, StateTypes, BatchFails, Instance
<1>2. \A e : ~ (InSeq(e, old) /\ InSeq(e, batch))
  <2>1. \A e : InSeq(e, old) => e \in Event
    BY <1>1, ContentsFacts DEF InSeq
  <2> QED  BY <2>1 DEF IndInv, BatchApart
<1>3. \A e : InSeq(e, new) <=> InSeq(e, old) \/ InSeq(e, batch)
  BY <1>1, <1>2, JoinContents
<1> HIDE DEF new
<1>4. \A e : ~ InSeq(e, batch')  BY <1>1, EmptyContents
<1>5. \A e : InMemory(e)' <=> InMemory(e)
  BY <1>1, <1>3, <1>4 DEF InMemory
<1>6. ~ Unloaded /\ ~ Unloaded'
  <2>1. batch # << >>  BY DEF BatchFails
  <2>2. Up  BY <2>1 DEF IndInv, StartOrder
  <2> QED  BY <1>1, <2>2, UpHasLoaded
<1>7. Unloaded' = Unloaded  BY <1>6 DEF Unloaded
<1> QED  BY <1>1, <1>5, <1>7, MemoryMovesOnly

(* A batch that is stored has events without a row of this start.          *)
LEMMA BatchStoredRefines ==
  ASSUME IndInv, BatchStored
  PROVE  Promised!Next
<1> DEFINE stored == {e \in accepted : InSeq(e, batch)}
<1>1. /\ batch # << >> /\ batch' = << >> /\ batch \in Contents /\ accepted \subseteq Event
      /\ rows' = [e \in Event |-> IF InSeq(e, batch) THEN rows[e] + 1 ELSE rows[e]]
      /\ UNCHANGED <<mem, phase, saves, tmp, final, accepted, starts, lost, unread>>
  BY DEF BatchStored, IndInv, StateTypes
<1>2. \A e : InSeq(e, batch) <=> e \in stored
  BY HeldIsAccepted DEF InMemory
<1>3. stored # {}
  <2>1. batch \in Seq(accepted) /\ DOMAIN batch = 1 .. Len(batch) /\ Len(batch) \in Nat
    BY <1>1, ContentsFacts
  <2>2. Len(batch) # 0  BY <1>1, <2>1, EmptySeq
  <2>3. 1 \in DOMAIN batch  BY <2>1, <2>2
  <2>4. InSeq(batch[1], batch)  BY <2>3 DEF InSeq
  <2> QED  BY <1>2, <2>4
<1>4. \A e \in stored : rows[e] < starts
  BY <1>1 DEF IndInv, StoredOnce
<1>5. rows' = [e \in Event |-> IF e \in stored THEN rows[e] + 1 ELSE rows[e]]
  BY <1>1, <1>2
<1>6. \A e : ~ InSeq(e, batch')  BY <1>1, EmptyContents
<1>7. stored \subseteq WorkingEvents  BY DEF WorkingEvents, InMemory
<1>8. WorkingEvents \ stored \subseteq WorkingEvents'
  BY <1>1, <1>2 DEF WorkingEvents, InMemory
<1>9. WorkingEvents' \subseteq WorkingEvents
  BY <1>1, <1>6 DEF WorkingEvents, InMemory
<1>10. ~ Unloaded /\ Unloaded' = Unloaded
  BY <1>1 DEF IndInv, StartOrder, Up, Unloaded, Instance
<1>11. SavedEvents' = SavedEvents  BY <1>1 DEF SavedEvents
<1> HIDE DEF stored
<1>12. Promised!Store(stored)
  BY <1>1, <1>3, <1>4, <1>5, <1>8, <1>9, <1>10, <1>11 DEF Promised!Store
<1> QED  BY <1>7, <1>12 DEF Promised!Next

(* A crash loses what was in memory, and neither stored nor saved.         *)
LEMMA CrashRefines ==
  ASSUME IndInv, Crash
  PROVE  Promised!Crash
<1>1. \A e : ~ InMemory(e)'  BY EmptyContents DEF Crash, InMemory
<1>2. WorkingEvents' = {}  BY <1>1 DEF WorkingEvents
<1>3. SavedEvents' = SavedEvents  BY DEF Crash, SavedEvents
<1>4. Unloaded'  BY DEF Crash, Unloaded, Instance
<1>5. {e \in accepted : InMemory(e) /\ rows[e] = 0 /\ ~ InSeq(e, final.events)}
        = {e \in WorkingEvents \ SavedEvents : rows[e] = 0}
  BY DEF WorkingEvents, SavedEvents
<1>6. lost' = lost \cup {e \in WorkingEvents \ SavedEvents : rows[e] = 0}
  BY <1>5 DEF Crash
<1>7. starts' = starts + 1 /\ UNCHANGED <<accepted, rows, unread>>  BY DEF Crash
<1> QED  BY <1>2, <1>3, <1>4, <1>6, <1>7 DEF Promised!Crash

(* Nothing is accepted, and nothing was read.                              *)
LEMMA InitRefines == Init => Promised!Init
<1> SUFFICES ASSUME Init PROVE Promised!Init
  OBVIOUS
<1>1. WorkingEvents = {} /\ SavedEvents = {} /\ Unloaded = TRUE
  BY DEF Init, WorkingEvents, SavedEvents, Unloaded, Instance
<1> QED  BY <1>1 DEF Init, Promised!Init

(* Every step is one of the promise's, or not seen by it.                  *)
LEMMA StepRefines ==
  ASSUME IndInv, [Next]_vars
  PROVE  [Promised!Next]_Promised!vars
<1>1. CASE UNCHANGED vars
  <2>1. UNCHANGED <<mem, phase, final, batch, accepted, rows, starts, lost, unread>>
    BY <1>1 DEF vars
  <2>2. \A e : InMemory(e)' <=> InMemory(e)  BY <2>1 DEF InMemory
  <2>3. Unloaded' = Unloaded  BY <2>1 DEF Unloaded
  <2> QED  BY <2>1, <2>2, <2>3, MemoryMovesOnly
<1>2. CASE \E i \in Instance : Loads(i) \/ ReadFails(i) \/ Unlinks(i)
  BY <1>2, LoadsRefines, ReadFailsRefines, UnlinksRefines DEF Promised!Next
<1>3. CASE \E s \in Save :
             \/ \E i \in Instance : SaveBegins(s, i)
             \/ SaveOpens(s) \/ SaveWrites(s) \/ SaveRenames(s)
             \/ SaveFails(s) \/ SaveCleansUp(s)
  BY <1>3, SaveRefines
<1>4. CASE \E e \in Event : Accept(e)
  BY <1>4, AcceptRefines DEF Promised!Next
<1>5. CASE Drains \/ BatchFails
  BY <1>5, DrainsRefines, BatchFailsRefines
<1>6. CASE BatchStored  BY <1>6, BatchStoredRefines
<1>7. CASE Crash  BY <1>7, CrashRefines DEF Promised!Next
<1> QED  BY <1>1, <1>2, <1>3, <1>4, <1>5, <1>6, <1>7 DEF Next

(* What the promise keeps, by itself, of accepted events and their rows.   *)
LEMMA KeptStep ==
  ASSUME Promised!Kept, rows \in [Event -> Nat], starts \in Nat, accepted \subseteq Event,
         [Promised!Next]_Promised!vars
  PROVE  Promised!Kept'
<1> USE DEF Promised!Kept
<1>1. CASE UNCHANGED Promised!vars
  <2>1. /\ UNCHANGED <<accepted, rows, starts, lost, unread>> /\ WorkingEvents' = WorkingEvents
        /\ SavedEvents' = SavedEvents /\ Unloaded' = Unloaded
    BY <1>1 DEF Promised!vars
  <2> QED  BY <2>1
<1>2. CASE Promised!Recover \/ Promised!Skip
  BY <1>2 DEF Promised!Recover, Promised!Skip
<1>3. ASSUME NEW e \in Event, Promised!Accept(e) PROVE Promised!Kept'
  BY <1>3 DEF Promised!Accept
<1>4. CASE Promised!Replace  BY <1>4 DEF Promised!Replace
<1>5. ASSUME NEW some \in SUBSET WorkingEvents, Promised!Store(some) PROVE Promised!Kept'
  <2>1. /\ rows' = [e \in Event |-> IF e \in some THEN rows[e] + 1 ELSE rows[e]]
        /\ \A e \in some : rows[e] < starts
        /\ ~ Unloaded /\ starts' = starts /\ accepted' = accepted /\ lost' = lost
        /\ unread' = unread
        /\ WorkingEvents \ some \subseteq WorkingEvents'
    BY <1>5 DEF Promised!Store
  <2>2. \A e \in Event : /\ rows[e] \in Nat
                         /\ e \in some => rows'[e] = rows[e] + 1
                         /\ e \notin some => rows'[e] = rows[e]
    BY <2>1
  <2>3. \A e \in Event : rows'[e] <= starts'  BY <2>1, <2>2
  <2>4. \A e \in some : e \in Event => rows'[e] > 0  BY <2>2
  <2>5. ASSUME NEW e \in accepted' PROVE e \in WorkingEvents' \/ rows'[e] > 0 \/ e \in lost' \/ e \in unread'
    BY <2>1, <2>2, <2>4
  <2> QED  BY <2>3, <2>5
<1>6. CASE Promised!Crash
  <2>1. /\ starts' = starts + 1 /\ UNCHANGED <<accepted, rows, unread>> /\ Unloaded'
        /\ SavedEvents' = SavedEvents
        /\ lost' = lost \cup {e \in WorkingEvents \ SavedEvents : rows[e] = 0}
    BY <1>6 DEF Promised!Crash
  <2>2. \A e \in Event : rows[e] \in Nat  OBVIOUS
  <2>3. \A e \in Event : rows'[e] <= starts'  BY <2>1, <2>2
  <2>4. ASSUME NEW e \in accepted' PROVE rows'[e] > 0 \/ e \in lost' \/ e \in unread' \/ e \in SavedEvents'
    <3>1. e \in accepted /\ rows[e] \in Nat  BY <2>1, <2>2, <2>4
    <3> QED  BY <2>1, <3>1
  <2> QED  BY <2>1, <2>3, <2>4
<1> QED  BY <1>1, <1>2, <1>3, <1>4, <1>5, <1>6 DEF Promised!Next

--------------------------------------------------------------------------------
(* The theorems                                                            *)

(* The invariant holds throughout, whatever fails and however often the    *)
(* process dies.                                                           *)
THEOREM CheckpointInvariance == Spec => []IndInv
<1> QED  BY InitIndInv, StepIndInv, PTL DEF Spec

(* Buffers, files, saves and counters keep their types; no buffer of an    *)
(* instance, whatever it loads, is ever above its capacity.                *)
THEOREM CheckpointTypeCorrect == Spec => []TypeOK
<1>1. IndInv => TypeOK
  <2> SUFFICES ASSUME IndInv PROVE TypeOK
    OBVIOUS
  <2>1. \A s \in Contents : s \in Seq(Event) /\ Len(s) <= MaxSize
    BY FileKinds, ContentsFacts DEF IndInv, File, Whole
  <2> QED  BY <2>1 DEF IndInv, StateTypes, TypeOK
<1> QED  BY <1>1, CheckpointInvariance, PTL

(* loadCheckpoint, saveCheckpoint and the deletion of the file, run by two *)
(* instances over the same paths, never lose an accepted event: only a     *)
(* crash does, one that the checkpoint did not have, or a start in which   *)
(* every instance that could still load the checkpoint failed to read it.  *)
THEOREM AcceptedAlwaysSurvives == Spec => []AcceptedSurvives
<1>1. IndInv => AcceptedSurvives
  BY DEF IndInv, Recoverable, AcceptedSurvives
<1> QED  BY <1>1, CheckpointInvariance, PTL

(* An event has at most one row for each start of the process: recovery    *)
(* from a stale checkpoint stores it again once per start, never more.     *)
THEOREM AtMostOneRowPerStart == Spec => []OneRowPerStart
<1>1. IndInv => OneRowPerStart
  BY DEF IndInv, StoredOnce, OneRowPerStart
<1> QED  BY <1>1, CheckpointInvariance, PTL

(* loadCheckpoint, the deletion, the saves of two instances and the worker *)
(* implement the promise of Recovery: the checkpoint is not touched before *)
(* all of it was loaded or reading it failed for good, whatever happens to *)
(* it afterwards costs nothing but at a crash, and no start stores an      *)
(* event twice.                                                            *)
THEOREM CheckpointKeepsPromise == Spec => ImplementsRecovery
<1>1. Init => IndInv /\ Promised!Init
  BY InitIndInv, InitRefines
<1>2. IndInv /\ [Next]_vars => IndInv' /\ [Promised!Next]_Promised!vars
  BY StepIndInv, StepRefines
<1> QED  BY <1>1, <1>2, PTL DEF Spec, ImplementsRecovery, Promised!Spec

(* What follows from that promise alone: an accepted event is in memory,   *)
(* in the table, lost by a crash or an unreadable checkpoint, or in a      *)
(* checkpoint that is still to be read.                                    *)
THEOREM PromiseKeepsEvents == Spec => []Promised!Kept
<1>1. Promised!Init => Promised!Kept
  BY DEF Promised!Init, Promised!Kept
<1>2. IndInv => rows \in [Event -> Nat] /\ starts \in Nat /\ accepted \subseteq Event
  BY CheckpointAssumption DEF IndInv, StateTypes
<1>3. IndInv /\ Promised!Kept /\ [Promised!Next]_Promised!vars => Promised!Kept'
  BY <1>2, KeptStep
<1> QED
  BY <1>1, <1>3, CheckpointInvariance, CheckpointKeepsPromise, PTL
     DEF ImplementsRecovery, Promised!Spec

================================================================================
