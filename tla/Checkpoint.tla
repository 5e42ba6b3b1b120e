------------------------------- MODULE Checkpoint -------------------------------
(***************************************************************************)
(* The checkpoint file of EventBufferService: the periodic save through a  *)
(* temporary file, the recovery at start-up, and crashes in between.       *)
(*                                                                         *)
(* The module registers the service under its token AND under its class,   *)
(* so Nest creates two instances and starts both.  All code uses the       *)
(* token's; the other one receives nothing and is never drained, but it    *)
(* loads the checkpoint and saves what it loaded, through the same two     *)
(* paths.  Every file operation is an await: saves of both instances, or   *)
(* two of one, interleave.                                                 *)
(*                                                                         *)
(* Abstractions.  A save writes its data in one piece after opening (and   *)
(* truncating) the file.  A batch is stored or fails as a whole, and goes  *)
(* back only if it fits: BatchPipeline has the rest.  A recovered event    *)
(* that was stored before collides with its row, gets a new eventId at     *)
(* the retry and is stored again: one step here.  A crash ends the process *)
(* but not the machine: what was written stays.  onModuleDestroy is never  *)
(* reached, the application does not enable its shutdown hooks.            *)
(***************************************************************************)
EXTENDS Naturals, Sequences, FiniteSets

CONSTANTS
  Event,       (* the events clients post                                  *)
  Save,        (* bound: saveCheckpoint() calls under way at once          *)
  MaxSize,     (* BUFFER_MAX_SIZE                                          *)
  BatchSize,   (* min(BATCH_SIZE, BATCH_MAX_SIZE)                          *)
  MaxStarts,   (* bound: starts of the process                             *)
  SelfOverlap, (* may a save outlast CHECKPOINT_INTERVAL_MS, so that the   *)
               (* next one of the same instance begins?                    *)
  IoFails      (* may file operations fail?                                *)

ASSUME CheckpointAssumption ==
  /\ MaxSize \in Nat \ {0}
  /\ BatchSize \in Nat \ {0}
  /\ MaxStarts \in Nat \ {0}
  /\ SelfOverlap \in BOOLEAN
  /\ IoFails \in BOOLEAN

Instance == {"token", "class"}

VARIABLES
  mem,      (* the active events of each instance's buffer                 *)
  phase,    (* how far each instance's onModuleInit is                     *)
  saves,    (* the saves under way                                         *)
  tmp,      (* what the path buffer-checkpoint.json.tmp names              *)
  final,    (* what the path buffer-checkpoint.json names                  *)
  batch,    (* the events the worker has drained and is inserting          *)
  accepted, (* the events that got their 202                               *)
  rows,     (* how many rows each event has in the events table            *)
  starts,   (* how often the process was started                           *)
  lost,     (* history: unstored events a crash found in no readable file  *)
  unread    (* history: events of a checkpoint no instance could read      *)

vars == <<mem, phase, saves, tmp, final, batch, accepted, rows, starts, lost, unread>>

Least(a, b) == IF a <= b THEN a ELSE b

InSeq(e, s) == \E i \in DOMAIN s : s[i] = e

(* What a path names: nothing, a file just truncated, one that is no JSON  *)
(* array, or a whole array of events.                                      *)
Absent == [kind |-> "absent", events |-> << >>]
Empty == [kind |-> "empty", events |-> << >>]
Torn == [kind |-> "torn", events |-> << >>]
Whole(events) == [kind |-> "whole", events |-> events]

NoSave == [pc |-> "idle", owner |-> "none", events |-> << >>, file |-> "none"]

Init ==
  /\ mem = [i \in Instance |-> << >>]
  /\ phase = [i \in Instance |-> "loading"]
  /\ saves = [s \in Save |-> NoSave]
  /\ tmp = Absent
  /\ final = Absent
  /\ batch = << >>
  /\ accepted = {}
  /\ rows = [e \in Event |-> 0]
  /\ starts = 1
  /\ lost = {}
  /\ unread = {}

--------------------------------------------------------------------------------
(* onModuleInit                                                            *)

(* Faulty variant: loading stops one event before the capacity.            *)
LoadedOneShort(events) == SubSeq(events, 1, Least(Len(events), MaxSize - 1))

(* What loadCheckpoint() takes over.                                       *)
Loaded(events) == SubSeq(events, 1, Least(Len(events), MaxSize))

(* readFile and parse.  A file that is no array is left where it is.       *)
Loads(i) ==
  /\ phase[i] = "loading"
  /\ IF final.kind = "whole"
     THEN /\ mem' = [mem EXCEPT ![i] = Loaded(final.events)]
          /\ phase' = [phase EXCEPT ![i] = "loaded"]
     ELSE /\ phase' = [phase EXCEPT ![i] = "up"]
          /\ UNCHANGED mem
  /\ UNCHANGED <<saves, tmp, final, batch, accepted, rows, starts, lost, unread>>

(* No other instance has taken the checkpoint over, and none still may.    *)
LastToRead(i) == \A j \in Instance \ {i} : phase[j] = "up" /\ mem[j] = << >>

(* readFile fails: the error is logged, and the instance starts without    *)
(* the checkpoint, which stays where it is.                                *)
ReadFails(i) ==
  /\ IoFails
  /\ phase[i] = "loading"
  /\ phase' = [phase EXCEPT ![i] = "up"]
  /\ unread' = IF LastToRead(i)
               THEN unread \cup {e \in accepted : InSeq(e, final.events)}
               ELSE unread
  /\ UNCHANGED <<mem, saves, tmp, final, batch, accepted, rows, starts, lost>>

(* The saves that write to the file that `from' names now write to one     *)
(* that `to' names.                                                        *)
Moved(all, from, to) ==
  [s \in Save |-> IF all[s].file = from THEN [all[s] EXCEPT !.file = to] ELSE all[s]]

(* Faulty variant: the checkpoint is deleted before it was read.           *)
UnlinksUnread(i) ==
  /\ phase[i] # "up"
  /\ phase' = [phase EXCEPT ![i] = "up"]
  /\ final' = Absent
  /\ saves' = Moved(saves, "final", "gone")
  /\ UNCHANGED <<mem, tmp, batch, accepted, rows, starts, lost, unread>>

(* The checkpoint is deleted; deleting a path that names nothing, or a     *)
(* failure, is only logged.                                                *)
Unlinks(i) ==
  /\ phase[i] = "loaded"
  /\ phase' = [phase EXCEPT ![i] = "up"]
  /\ \/ /\ final' = Absent
        /\ saves' = Moved(saves, "final", "gone")
     \/ /\ IoFails
        /\ UNCHANGED <<final, saves>>
  /\ UNCHANGED <<mem, tmp, batch, accepted, rows, starts, lost, unread>>

(* Both instances are initialised before the worker starts and the server  *)
(* listens.                                                                *)
Up == \A i \in Instance : phase[i] = "up"

--------------------------------------------------------------------------------
(* saveCheckpoint()                                                        *)

(* The timer of an instance fires, and its buffer is not empty.            *)
SaveBegins(s, i) ==
  /\ phase[i] = "up"
  /\ mem[i] # << >>
  /\ saves[s].pc = "idle"
  /\ SelfOverlap \/ \A t \in Save : saves[t].owner # i
  /\ saves' = [saves EXCEPT ![s] =
       [pc |-> "opening", owner |-> i, events |-> mem[i], file |-> "none"]]
  /\ UNCHANGED <<mem, phase, tmp, final, batch, accepted, rows, starts, lost, unread>>

(* createWriteStream opens the temporary path: creates or truncates.       *)
SaveOpens(s) ==
  /\ saves[s].pc = "opening"
  /\ tmp' = Empty
  /\ saves' = [saves EXCEPT ![s].pc = "writing", ![s].file = "tmp"]
  /\ UNCHANGED <<mem, phase, final, batch, accepted, rows, starts, lost, unread>>

(* What a file may be once a save has written its events from the start:   *)
(* if another save wrote to it since the truncation, the longer of the two *)
(* may stick out.                                                          *)
Overwritten(file, events) ==
  IF file.kind = "empty" \/ file.events = events
  THEN {Whole(events)}
  ELSE {Whole(events), Torn}

(* ... and once its writing failed: nothing, part of it or all was written.*)
PartlyWritten(file, events) == Overwritten(file, events) \cup {file, Torn}

(* The file save s has open, if it still has a name.                       *)
FileOf(s) == IF saves[s].file = "tmp" THEN tmp ELSE final

FileBecomes(s, possible) ==
  CASE saves[s].file = "tmp" -> tmp' \in possible /\ UNCHANGED final
    [] saves[s].file = "final" -> final' \in possible /\ UNCHANGED tmp
    [] OTHER -> UNCHANGED <<tmp, final>>

(* The stream is written and closed, into the file the save opened, which  *)
(* another save may have renamed or replaced in the meantime.              *)
SaveWrites(s) ==
  /\ saves[s].pc = "writing"
  /\ saves' = [saves EXCEPT ![s].pc = "renaming", ![s].file = "none"]
  /\ FileBecomes(s, Overwritten(FileOf(s), saves[s].events))
  /\ UNCHANGED <<mem, phase, batch, accepted, rows, starts, lost, unread>>

(* rename: whatever the temporary path names becomes the checkpoint.       *)
SaveRenames(s) ==
  /\ saves[s].pc = "renaming"
  /\ tmp.kind # "absent"
  /\ final' = tmp
  /\ tmp' = Absent
  /\ saves' = [Moved(Moved(saves, "final", "gone"), "tmp", "final") EXCEPT ![s] = NoSave]
  /\ UNCHANGED <<mem, phase, batch, accepted, rows, starts, lost, unread>>

(* An operation fails: rename always does when the path names nothing, and *)
(* a write that fails may leave part of its data.                          *)
SaveFails(s) ==
  /\ \/ /\ saves[s].pc = "renaming"
        /\ IoFails \/ tmp.kind = "absent"
        /\ UNCHANGED <<tmp, final>>
     \/ /\ saves[s].pc = "opening"
        /\ IoFails
        /\ UNCHANGED <<tmp, final>>
     \/ /\ saves[s].pc = "writing"
        /\ IoFails
        /\ FileBecomes(s, PartlyWritten(FileOf(s), saves[s].events))
  /\ saves' = [saves EXCEPT ![s] = [@ EXCEPT !.pc = "cleaning", !.file = "none"]]
  /\ UNCHANGED <<mem, phase, batch, accepted, rows, starts, lost, unread>>

(* The catch block unlinks the temporary path, whoever's file it names.    *)
SaveCleansUp(s) ==
  /\ saves[s].pc = "cleaning"
  /\ tmp' = Absent
  /\ saves' = [Moved(saves, "tmp", "gone") EXCEPT ![s] = NoSave]
  /\ UNCHANGED <<mem, phase, final, batch, accepted, rows, starts, lost, unread>>

--------------------------------------------------------------------------------
(* The rest of the program                                                 *)

(* Faulty variant: the capacity check is off by one.                       *)
RoomForOneMore == Len(mem["token"]) <= MaxSize

HasRoom == Len(mem["token"]) < MaxSize

(* POST /events                                                            *)
Accept(e) ==
  /\ Up
  /\ e \notin accepted
  /\ HasRoom
  /\ accepted' = accepted \cup {e}
  /\ mem' = [mem EXCEPT !["token"] = Append(@, e)]
  /\ UNCHANGED <<phase, saves, tmp, final, batch, rows, starts, lost, unread>>

(* Faulty variant: drained events stay in the buffer.                      *)
NothingTaken(n) == mem["token"]

(* What drain(n) leaves in the buffer.                                     *)
Undrained(n) == SubSeq(mem["token"], n + 1, Len(mem["token"]))

(* The worker drains a batch.                                              *)
Drains ==
  /\ Up
  /\ batch = << >>
  /\ mem["token"] # << >>
  /\ LET n == Least(BatchSize, Len(mem["token"]))
     IN /\ batch' = SubSeq(mem["token"], 1, n)
        /\ mem' = [mem EXCEPT !["token"] = Undrained(n)]
  /\ UNCHANGED <<phase, saves, tmp, final, accepted, rows, starts, lost, unread>>

BatchStored ==
  /\ batch # << >>
  /\ rows' = [e \in Event |-> IF InSeq(e, batch) THEN rows[e] + 1 ELSE rows[e]]
  /\ batch' = << >>
  /\ UNCHANGED <<mem, phase, saves, tmp, final, accepted, starts, lost, unread>>

(* The insertion fails and the events are re-enqueued.                     *)
BatchFails ==
  /\ batch # << >>
  /\ Len(mem["token"]) + Len(batch) <= MaxSize
  /\ mem' = [mem EXCEPT !["token"] = @ \o batch]
  /\ batch' = << >>
  /\ UNCHANGED <<phase, saves, tmp, final, accepted, rows, starts, lost, unread>>

InMemory(e) == InSeq(e, batch) \/ \E i \in Instance : InSeq(e, mem[i])

(* The process dies and is started again.  The files stay as they are.     *)
Crash ==
  /\ starts < MaxStarts
  /\ starts' = starts + 1
  /\ lost' = lost \cup
       {e \in accepted : InMemory(e) /\ rows[e] = 0 /\ ~ InSeq(e, final.events)}
  /\ mem' = [i \in Instance |-> << >>]
  /\ phase' = [i \in Instance |-> "loading"]
  /\ saves' = [s \in Save |-> NoSave]
  /\ batch' = << >>
  /\ UNCHANGED <<tmp, final, accepted, rows, unread>>

Next ==
  \/ \E i \in Instance : Loads(i) \/ ReadFails(i) \/ Unlinks(i)
  \/ \E s \in Save :
       \/ \E i \in Instance : SaveBegins(s, i)
       \/ SaveOpens(s) \/ SaveWrites(s) \/ SaveRenames(s)
       \/ SaveFails(s) \/ SaveCleansUp(s)
  \/ \E e \in Event : Accept(e)
  \/ Drains \/ BatchStored \/ BatchFails
  \/ Crash

Spec == Init /\ [][Next]_vars

--------------------------------------------------------------------------------
(* Properties                                                              *)

File ==
  [kind : {"absent", "empty", "torn"}, events : {<< >>}]
    \cup [kind : {"whole"}, events : Seq(Event) \ {<< >>}]

SaveCall ==
  [pc : {"idle", "opening", "writing", "renaming", "cleaning"},
   owner : Instance \cup {"none"}, events : Seq(Event),
   file : {"none", "tmp", "final", "gone"}]

TypeOK ==
  /\ mem \in [Instance -> Seq(Event)]
  /\ \A i \in Instance : Len(mem[i]) <= MaxSize
  /\ phase \in [Instance -> {"loading", "loaded", "up"}]
  /\ saves \in [Save -> SaveCall]
  /\ tmp \in File
  /\ final \in File
  /\ batch \in Seq(Event)
  /\ accepted \subseteq Event
  /\ rows \in [Event -> Nat]
  /\ starts \in 1 .. MaxStarts
  /\ lost \subseteq accepted
  /\ unread \subseteq accepted

(* An accepted event is in memory, in the table or in the checkpoint,      *)
(* unless a crash came while the checkpoint did not have it, or a start in *)
(* which no instance could read the checkpoint, and said so in the log.    *)
(* Loading, deleting, replacing and cleaning up never lose one, although   *)
(* two instances do all of it through the same two paths.                  *)
AcceptedSurvives ==
  \A e \in accepted :
    \/ InMemory(e) \/ rows[e] > 0 \/ InSeq(e, final.events)
    \/ e \in lost \/ e \in unread

(* A stale checkpoint stores an event again, but one start of the process  *)
(* stores it at most once, whichever instance wrote what it recovered.     *)
OneRowPerStart == \A e \in Event : rows[e] <= starts

(* What the instances, the saves and the batches amount to: Recovery.  No  *)
(* step of a file operation takes from the checkpoint what only it has,    *)
(* since whoever deletes or replaces it comes after a load that took all   *)
(* of it, or after the last one that could have failed; and a batch stores *)
(* nothing that this start stored before.                                  *)
WorkingEvents == {e \in accepted : InMemory(e)}
SavedEvents == {e \in accepted : InSeq(e, final.events)}
Unloaded ==
  /\ \E i \in Instance : phase[i] = "loading"
  /\ \A i \in Instance : mem[i] = << >>

Promised == INSTANCE Recovery WITH
  working <- WorkingEvents, saved <- SavedEvents, fresh <- Unloaded

ImplementsRecovery == Promised!Spec

(* saveCheckpoint's comment: the temporary file and the rename prevent     *)
(* partial or corrupted checkpoints.                                       *)
CheckpointIsWhole == final.kind \in {"absent", "whole"}

(* docs/part-a/4-decisiones-clave.md: a crash loses at most the events of  *)
(* the last five seconds, the interval between two saves.  So an event     *)
(* that has come into the checkpoint stays in it until it is stored.       *)
SavedIsRecoverable ==
  [][\A e \in Event :
       InSeq(e, final.events) /\ rows[e] = 0
         => InSeq(e, final'.events) \/ rows'[e] > 0]_vars

================================================================================
