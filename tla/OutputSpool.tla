---------------------------- MODULE OutputSpool ----------------------------
(***************************************************************************)
(* The durable output of ACP turns: what an agent says is cut into         *)
(* segments, each reserved against a quota, published as a file and landed *)
(* (output_stream.rs, output.rs, output_files.rs); a completed task seals  *)
(* its set, and a drain delivers the parts to the Matrix room in order and *)
(* removes the files (output_drain.rs, output_delivery.rs).  The process   *)
(* may die between any two effects; startup recovery (recover_assembling,  *)
(* recover_cleanup, verify_quota) must settle what it finds or the bridge  *)
(* does not start.                                                         *)
(*                                                                         *)
(* A character is its width in bytes, a text a sequence of widths.  Sets   *)
(* are numbered in the order of their created_at.                          *)
(***************************************************************************)
EXTENDS Integers, Sequences, FiniteSets, FiniteSetsExt, SequencesExt

CONSTANTS
    NSets,        \* output sets are 1..NSets
    TaskOf,       \* set -> the task whose turn it holds
    TextOf,       \* set -> the text of the turn
    SpoolBytes,   \* spool_segment_bytes
    MatrixBytes,  \* matrix_segment_bytes
    MaxOutput,    \* max_output_bytes of a turn
    QuotaLimit,   \* process_quota_bytes
    AttemptLimit, \* delivery_attempt_limit
    SpoolFaults,    \* bound: crashes and failed operations
    MaxEpoch      \* bound: process starts

\* DurableOutputPolicy::derive and validate
PolicyValid ==
    /\ 0 < MatrixBytes /\ MatrixBytes <= SpoolBytes /\ SpoolBytes <= MaxOutput
    /\ MaxOutput <= QuotaLimit /\ 0 < AttemptLimit
ASSUME Policy == PolicyValid

OutputSet == 1..NSets
SpoolTask == {TaskOf[s] : s \in OutputSet}

VARIABLES
    sets,   \* acp_output_sets with acp_output_delivery_segments
    segs,   \* acp_output_segments
    quota,  \* acp_output_quota
    lastEvent,  \* kind of the last event of a task
    disk,   \* the directories sets/<set_id>
    job,    \* what the process does with a set
    drain,  \* the OutputSetDrain loop
    room,   \* set -> parts the homeserver shows, in order
    onWire, \* sends whose answer was given up on
    proc,   \* the process: up, epoch, and the result of its last start
    faults,
    failures \* history: failed sends of a set

spoolVars == <<sets, segs, quota, lastEvent, disk, job, drain, room, onWire, proc, faults, failures>>
-----------------------------------------------------------------------------
(* Cutting a text.  A range [from, to] holds the characters from+1..to.    *)

Bytes(text, from, to) == FoldSet(LAMBDA k, acc : acc + text[k], 0, (from + 1)..to)

\* The longest run after `from` that fits; the policy keeps max >= one character.
Fit(text, from, to, max) == Max({from} \cup {k \in from..to : Bytes(text, from, k) <= max})

RECURSIVE RangesFrom(_, _, _, _)
RangesFrom(text, from, to, max) ==
    IF from = to THEN <<>>
    ELSE LET end == Fit(text, from, to, max)
         IN <<[from |-> from, to |-> end]>> \o RangesFrom(text, end, to, max)

utf8_ranges(text, from, to, max) ==
    IF from = to THEN <<[from |-> from, to |-> to]>> ELSE RangesFrom(text, from, to, max)

Whole(s) == Len(TextOf[s])

\* Files of a set: manifest-v1.json is 0, segment-<i-1>.bin is i.
Manifest == 0
Seg(s) == 1..Max({1, Whole(s)})
File(s) == {Manifest} \cup Seg(s)
-----------------------------------------------------------------------------
(* Rows and directories.                                                   *)

NoSet == [state |-> "none", parts |-> <<>>, cursor |-> 0, owner |-> 0, tries |-> 0, failure |-> "none"]
NoSeg == [state |-> "none", owner |-> 0, from |-> 0, to |-> 0]
NoDir(s) == [dir |-> FALSE, temp |-> [f \in File(s) |-> "none"], file |-> {}]
NoJob == [kind |-> "none", at |-> "none", seg |-> 0, from |-> 0, pos |-> 0, chunk |-> 0]
Resting == [at |-> "idle", set |-> 0, cursor |-> 0, tries |-> 0]

LiveSeg == {"reserved", "landed"}
SegIn(s, states) == {i \in Seg(s) : segs[s][i].state \in states}
SegBytes(s, i) == Bytes(TextOf[s], segs[s][i].from, segs[s][i].to)
BytesIn(s, states) == FoldSet(LAMBDA i, acc : acc + SegBytes(s, i), 0, SegIn(s, states))
AllBytes(states) == FoldSet(LAMBDA s, acc : acc + BytesIn(s, states), 0, OutputSet)

\* delivery_parts, add_deliveries: the messages a set's segments are sent as
delivery_parts(s) ==
    FlattenSeq([i \in 1..Cardinality(SegIn(s, {"landed"})) |->
        utf8_ranges(TextOf[s], segs[s][i].from, segs[s][i].to, MatrixBytes)])

\* read_exact_file refuses a file with a second name: an unlinked temp left by
\* a process that died between hard_link and remove_file.
Readable(s, f) == f \in disk[s].file /\ disk[s].temp[f] # "linked"

\* validate_tree: exactly the manifest and its segments, each readable
TreeValid(s) ==
    /\ disk[s].dir
    /\ disk[s].file = {Manifest} \cup SegIn(s, {"landed"})
    /\ \A f \in File(s) : disk[s].temp[f] = "none"

BridgeUp == proc.at = "up"
Running(s) == job[s].kind # "none"

-----------------------------------------------------------------------------
(* The transactions of OutputSpoolStore on segments.                       *)

reserve_segment_ok(s, i, from, to) ==
    /\ quota.reserved + quota.landed + Bytes(TextOf[s], from, to) <= QuotaLimit
    /\ segs[s][i].state = "none"
    /\ sets[s].state = "assembling"
reserve_segment(s, i, from, to) ==
    /\ segs' = [segs EXCEPT ![s][i] = [state |-> "reserved", owner |-> proc.epoch,
                                       from |-> from, to |-> to]]
    /\ quota' = [quota EXCEPT !.reserved = @ + Bytes(TextOf[s], from, to)]

OwnReservation(s, i) == segs[s][i].state = "reserved" /\ segs[s][i].owner = proc.epoch
land_segment(s, i) ==
    /\ segs' = [segs EXCEPT ![s][i].state = "landed"]
    /\ quota' = [quota EXCEPT !.reserved = @ - SegBytes(s, i), !.landed = @ + SegBytes(s, i)]
release_reserved(s, i) ==
    /\ segs' = [segs EXCEPT ![s][i] = NoSeg]
    /\ quota' = [quota EXCEPT !.reserved = @ - SegBytes(s, i)]

\* validate_segments: the landed segments tile the text
validate_segments(s) ==
    LET n == Cardinality(SegIn(s, {"landed"})) IN
    /\ SegIn(s, LiveSeg) = 1..n
    /\ \A i \in 1..n : segs[s][i].from = IF i = 1 THEN 0 ELSE segs[s][i - 1].to
    /\ segs[s][n].to = Whole(s)
seal_set_ok(s) == sets[s].state = "assembling" /\ validate_segments(s)

SetState(s, state) == sets' = [sets EXCEPT ![s].state = state]
Goto(s, step) == job' = [job EXCEPT ![s].at = step]
-----------------------------------------------------------------------------
(* A turn streams its output (StreamingPublisher).  buffer: the characters *)
(* from+1..pos; chunk: end of the text received so far.                    *)

\* prepare_task: the set of the next turn of a running task
Opens(s) ==
    /\ sets[s].state = "none"
    /\ \A r \in 1..(s - 1) : sets[r].state # "none"
    /\ lastEvent[TaskOf[s]] = "running"
    /\ \A r \in OutputSet : TaskOf[r] = TaskOf[s] => ~Running(r) /\ sets[r].state # "assembling"

open_turn(s) ==
    /\ BridgeUp /\ Opens(s)
    /\ SetState(s, "assembling")
    /\ job' = [job EXCEPT ![s] = [NoJob EXCEPT !.kind = "stream", !.at = "open", !.seg = 1]]
    /\ UNCHANGED <<segs, quota, lastEvent, disk, drain, room, onWire, proc, faults, failures>>

\* prepare_set
open_set(s) ==
    /\ Running(s) /\ job[s].at = "open"
    /\ disk' = [disk EXCEPT ![s].dir = TRUE]
    /\ Goto(s, IF job[s].kind = "stream" THEN "recv" ELSE "lookup")
    /\ UNCHANGED <<sets, segs, quota, lastEvent, drain, room, onWire, proc, faults, failures>>

\* The owner of the turn turns an error of the writer into abandonment.
Abandoning(s) == job' = [job EXCEPT ![s] = [NoJob EXCEPT !.kind = "drop", !.at = "abandon"]]

\* append: fill the buffer; a full one, or one the next character does not
\* fit into, is flushed before more is taken
append(s, chunk) ==
    LET j == job[s]
        pos == Fit(TextOf[s], j.from, chunk, SpoolBytes)
        full == Bytes(TextOf[s], j.from, pos) = SpoolBytes \/ pos < chunk
    IN job' = [job EXCEPT ![s].pos = pos, ![s].chunk = chunk,
                          ![s].at = IF full THEN "reserve" ELSE "recv"]

recv(s) ==
    /\ job[s].kind = "stream" /\ job[s].at = "recv"
    /\ \/ /\ job[s].pos < job[s].chunk
          /\ append(s, job[s].chunk)
       \/ /\ job[s].pos = job[s].chunk
          /\ \E chunk \in (job[s].chunk + 1)..Whole(s) :
                IF Bytes(TextOf[s], 0, chunk) > MaxOutput THEN Abandoning(s) ELSE append(s, chunk)
    /\ UNCHANGED <<sets, segs, quota, lastEvent, disk, drain, room, onWire, proc, faults, failures>>

\* finish: flush what is buffered (an empty text still has one segment),
\* then publish the manifest
finish_stream(s) ==
    LET j == job[s] IN
    /\ j.kind = "stream" /\ j.at = "recv" /\ j.chunk = Whole(s) /\ j.pos = j.chunk
    /\ job' = [job EXCEPT ![s] =
                 IF j.from = j.pos /\ (j.seg > 1 \/ j.pos > 0)
                 THEN [j EXCEPT !.seg = Manifest, !.at = "create"]
                 ELSE [j EXCEPT !.at = "reserve"]]
    /\ UNCHANGED <<sets, segs, quota, lastEvent, disk, drain, room, onWire, proc, faults, failures>>

flush(s) ==
    LET j == job[s] IN
    /\ j.kind = "stream" /\ j.at = "reserve"
    /\ IF reserve_segment_ok(s, j.seg, j.from, j.pos)
       THEN reserve_segment(s, j.seg, j.from, j.pos) /\ Goto(s, "create")
       ELSE Abandoning(s) /\ UNCHANGED <<segs, quota>>
    /\ UNCHANGED <<sets, lastEvent, disk, drain, room, onWire, proc, faults, failures>>
-----------------------------------------------------------------------------
(* publish_file: temp, fsync, hard link, unlink.                           *)

InFile(s, step) == Running(s) /\ job[s].at = step
AfterFile(s) == IF job[s].seg = Manifest THEN "seal" ELSE "land"

\* Failure of a step of a job: a stream is abandoned by the owner of the turn,
\* a projection leaves the set assembling, a startup ends.
Failed(s, why) ==
    CASE job[s].kind = "stream" -> Abandoning(s) /\ UNCHANGED proc
      [] job[s].kind \in {"project", "drop"} -> job' = [job EXCEPT ![s] = NoJob] /\ UNCHANGED proc
      [] OTHER -> /\ job' = [r \in OutputSet |-> NoJob]
                  /\ proc' = [proc EXCEPT !.at = "down", !.start = why]

create_temp(s) ==
    LET f == job[s].seg IN
    /\ InFile(s, "create")
    /\ CASE disk[s].temp[f] = "none" -> /\ disk' = [disk EXCEPT ![s].temp[f] = "torn"]
                                        /\ Goto(s, "write") /\ UNCHANGED proc
         [] disk[s].temp[f] = "full" -> Goto(s, "link") /\ UNCHANGED <<disk, proc>>
         [] OTHER -> Failed(s, "failed") /\ UNCHANGED disk
    /\ UNCHANGED <<sets, segs, quota, lastEvent, drain, room, onWire, faults, failures>>

write_temp(s) ==
    /\ InFile(s, "write")
    /\ disk' = [disk EXCEPT ![s].temp[job[s].seg] = "full"]
    /\ Goto(s, "link")
    /\ UNCHANGED <<sets, segs, quota, lastEvent, drain, room, onWire, proc, faults, failures>>

\* An existing target has the same bytes: a set is published from one text.
link_target(s) ==
    LET f == job[s].seg IN
    /\ InFile(s, "link")
    /\ IF f \in disk[s].file
       THEN disk' = [disk EXCEPT ![s].temp[f] = "none"] /\ Goto(s, AfterFile(s))
       ELSE /\ disk' = [disk EXCEPT ![s].file = @ \cup {f}, ![s].temp[f] = "linked"]
            /\ Goto(s, "unlink")
    /\ UNCHANGED <<sets, segs, quota, lastEvent, drain, room, onWire, proc, faults, failures>>

unlink_temp(s) ==
    /\ InFile(s, "unlink")
    /\ disk' = [disk EXCEPT ![s].temp[job[s].seg] = "none"]
    /\ Goto(s, AfterFile(s))
    /\ UNCHANGED <<sets, segs, quota, lastEvent, drain, room, onWire, proc, faults, failures>>

\* An I/O error.  Only a failed hard_link removes the temp.
io_error(s) ==
    /\ faults < SpoolFaults /\ \E step \in {"create", "write", "link"} : InFile(s, step)
    /\ disk' = IF job[s].at = "link" THEN [disk EXCEPT ![s].temp[job[s].seg] = "none"] ELSE disk
    /\ faults' = faults + 1
    /\ Failed(s, "fault")
    /\ UNCHANGED <<sets, segs, quota, lastEvent, drain, room, onWire, failures>>

land(s) ==
    LET j == job[s] IN
    /\ InFile(s, "land")
    /\ IF OwnReservation(s, j.seg)
       THEN /\ land_segment(s, j.seg)
            /\ job' = [job EXCEPT ![s] = IF j.kind = "stream"
                         THEN [j EXCEPT !.seg = @ + 1, !.from = j.pos, !.at = "recv"]
                         ELSE [j EXCEPT !.seg = @ + 1, !.at = "lookup"]]
            /\ UNCHANGED proc
       ELSE Failed(s, "failed") /\ UNCHANGED <<segs, quota>>
    /\ UNCHANGED <<sets, lastEvent, disk, drain, room, onWire, faults, failures>>

\* seal_set: the set is prepared; a projection goes on to activate it
seal(s) ==
    /\ InFile(s, "seal")
    /\ IF seal_set_ok(s)
       THEN /\ sets' = [sets EXCEPT ![s].state = "prepared", ![s].parts = delivery_parts(s)]
            /\ job' = [job EXCEPT ![s] = IF @.kind = "stream" THEN NoJob ELSE [@ EXCEPT !.at = "activate"]]
            /\ UNCHANGED proc
       ELSE Failed(s, "failed") /\ UNCHANGED sets
    /\ UNCHANGED <<segs, quota, lastEvent, disk, drain, room, onWire, faults, failures>>
-----------------------------------------------------------------------------
(* publish: the whole text at once, for an output that was not streamed,   *)
(* and again for a set a dead process left assembling.                     *)

PublishRange(s, i) == utf8_ranges(TextOf[s], 0, Whole(s), SpoolBytes)[i]
PublishCount(s) == Len(utf8_ranges(TextOf[s], 0, Whole(s), SpoolBytes))

\* publish_segment, first half: find the row or reserve it
lookup_segment(s) ==
    LET j == job[s]
        r == PublishRange(s, j.seg)
    IN
    /\ InFile(s, "lookup")
    /\ IF j.seg > PublishCount(s) THEN
         /\ job' = [job EXCEPT ![s].seg = Manifest, ![s].at = "create"]
         /\ UNCHANGED <<segs, quota, proc>>
       ELSE IF segs[s][j.seg].state # "none" THEN
         Goto(s, "decide") /\ UNCHANGED <<segs, quota, proc>>
       ELSE IF reserve_segment_ok(s, j.seg, r.from, r.to) THEN
         reserve_segment(s, j.seg, r.from, r.to) /\ Goto(s, "decide") /\ UNCHANGED proc
       ELSE Failed(s, "failed") /\ UNCHANGED <<segs, quota>>
    /\ UNCHANGED <<sets, lastEvent, disk, drain, room, onWire, faults, failures>>

\* adopt_reserved: the reservation of a dead process becomes ours
Adopted(s, i) == [segs EXCEPT ![s][i].owner = proc.epoch]

\* publish_segment, second half, by the row's state
decide_segment(s) ==
    LET i == job[s].seg
        r == PublishRange(s, i)
        row == segs[s][i]
        same == row.from = r.from /\ row.to = r.to
    IN
    /\ InFile(s, "decide")
    /\ CASE ~same -> Failed(s, "failed") /\ UNCHANGED segs
         [] same /\ row.state = "reserved" /\ row.owner # proc.epoch ->
              segs' = Adopted(s, i) /\ UNCHANGED <<job, proc>>
         [] same /\ row.state = "reserved" /\ row.owner = proc.epoch /\ i \notin disk[s].file ->
              Goto(s, "release") /\ UNCHANGED <<segs, proc>>
         [] same /\ row.state = "reserved" /\ row.owner = proc.epoch /\ Readable(s, i) ->
              Goto(s, "land") /\ UNCHANGED <<segs, proc>>
         [] same /\ row.state = "landed" /\ Readable(s, i) ->
              job' = [job EXCEPT ![s].seg = i + 1, ![s].at = "lookup"] /\ UNCHANGED <<segs, proc>>
         [] OTHER -> Failed(s, "failed") /\ UNCHANGED segs
    /\ UNCHANGED <<sets, quota, lastEvent, disk, drain, room, onWire, faults, failures>>

release_segment(s) ==
    /\ InFile(s, "release")
    /\ release_reserved(s, job[s].seg)
    /\ Goto(s, "rereserve")
    /\ UNCHANGED <<sets, lastEvent, disk, drain, room, onWire, proc, faults, failures>>

rereserve_segment(s) ==
    LET r == PublishRange(s, job[s].seg) IN
    /\ InFile(s, "rereserve")
    /\ IF reserve_segment_ok(s, job[s].seg, r.from, r.to)
       THEN reserve_segment(s, job[s].seg, r.from, r.to) /\ Goto(s, "create") /\ UNCHANGED proc
       ELSE Failed(s, "failed") /\ UNCHANGED <<segs, quota>>
    /\ UNCHANGED <<sets, lastEvent, disk, drain, room, onWire, faults, failures>>

\* activate_prepared: only when the last event of the task is its completion
activate_prepared(s) ==
    /\ InFile(s, "activate")
    /\ IF sets[s].state = "prepared" /\ lastEvent[TaskOf[s]] = "completed"
       THEN SetState(s, "sealed") /\ job' = [job EXCEPT ![s] = NoJob] /\ UNCHANGED proc
       ELSE Failed(s, "failed") /\ UNCHANGED sets
    /\ UNCHANGED <<segs, quota, lastEvent, disk, drain, room, onWire, faults, failures>>
-----------------------------------------------------------------------------
(* The end of a task.                                                      *)

TurnsOf(t) == {s \in OutputSet : TaskOf[s] = t /\ sets[s].state # "none"}
Streaming(t) == \E s \in TurnsOf(t) : Running(s)

\* insert_terminal_projection: the completion seals the set of the last turn,
\* or opens one for an output that was not streamed
complete(t) ==
    /\ BridgeUp /\ lastEvent[t] = "running" /\ ~Streaming(t)
    /\ lastEvent' = [lastEvent EXCEPT ![t] = "completed"]
    /\ \/ /\ TurnsOf(t) # {} /\ sets[Max(TurnsOf(t))].state = "prepared"
          /\ SetState(Max(TurnsOf(t)), "sealed")
          /\ UNCHANGED job
       \/ /\ TurnsOf(t) = {}
          /\ \E s \in OutputSet :
                /\ TaskOf[s] = t /\ Opens(s)
                /\ SetState(s, "assembling")
                /\ job' = [job EXCEPT ![s] = [NoJob EXCEPT !.kind = "project", !.at = "open", !.seg = 1]]
    /\ UNCHANGED <<segs, quota, disk, drain, room, onWire, proc, faults, failures>>

fail(t) ==
    /\ BridgeUp /\ lastEvent[t] = "running" /\ ~Streaming(t) /\ TurnsOf(t) # {}
    /\ lastEvent' = [lastEvent EXCEPT ![t] = "failed"]
    /\ UNCHANGED <<sets, segs, quota, disk, job, drain, room, onWire, proc, faults, failures>>

\* cancel: the writer is aborted where it awaits
cancel(s) ==
    /\ job[s].kind = "stream" /\ job[s].at \in {"recv", "reserve", "land", "seal"}
    /\ Abandoning(s)
    /\ UNCHANGED <<sets, segs, quota, lastEvent, disk, drain, room, onWire, proc, faults, failures>>

\* Mutant: the rows are closed without removing the files.
abandonRowsOnly(s) ==
    /\ InFile(s, "abandon")
    /\ SetState(s, "abandoned") /\ Goto(s, "finish_abandon")
    /\ UNCHANGED <<segs, quota, lastEvent, disk, drain, room, onWire, proc, faults, failures>>

abandon(s) ==
    /\ InFile(s, "abandon")
    /\ IF sets[s].state \in {"assembling", "prepared"}
       THEN /\ SetState(s, "abandoned")
            /\ Goto(s, IF SegIn(s, LiveSeg) = {} THEN "finish_abandon" ELSE "remove")
            /\ UNCHANGED proc
       ELSE Failed(s, "failed") /\ UNCHANGED sets
    /\ UNCHANGED <<segs, quota, lastEvent, disk, drain, room, onWire, faults, failures>>

\* cleanup: the listed segments, the manifest, then the directory, which must
\* be empty by then: a temp file left behind stops it.
Removable(s) == disk[s].file \cap (SegIn(s, LiveSeg) \cup {Manifest})
NextRemoval(s) == IF Removable(s) \ {Manifest} = {} THEN Manifest ELSE Min(Removable(s) \ {Manifest})
DirEmpty(s) == disk[s].file = {} /\ \A f \in File(s) : disk[s].temp[f] = "none"
CleanupDone(s) == ~disk[s].dir
\* Mutant: a directory that is already gone is an error.
CleanupFailsMissing(s) == ~disk[s].dir \/ (Removable(s) = {} /\ ~DirEmpty(s))
CleanupFails(s) == disk[s].dir /\ Removable(s) = {} /\ ~DirEmpty(s)
CleanupStep(s) ==
    /\ disk[s].dir /\ ~CleanupFails(s)
    /\ disk' = IF Removable(s) # {}
               THEN [disk EXCEPT ![s].file = @ \ {NextRemoval(s)}]
               ELSE [disk EXCEPT ![s].dir = FALSE]

cleanup_files(s) ==
    /\ InFile(s, "remove")
    /\ \/ CleanupStep(s) /\ UNCHANGED <<job, proc>>
       \/ CleanupFails(s) /\ Failed(s, "failed") /\ UNCHANGED disk
       \/ /\ CleanupDone(s) /\ UNCHANGED <<disk, proc>>
          /\ Goto(s, IF sets[s].state = "cleaning" THEN "finish_cleanup" ELSE "finish_abandon")
    /\ UNCHANGED <<sets, segs, quota, lastEvent, drain, room, onWire, faults, failures>>

\* finish_abandon and finish_cleanup give the quota back with the rows
Cleaned(s) == [segs EXCEPT ![s] = [i \in Seg(s) |->
                 IF segs[s][i].state \in LiveSeg THEN [segs[s][i] EXCEPT !.state = "cleaned"] ELSE segs[s][i]]]
Returned(s) == [reserved |-> quota.reserved - BytesIn(s, {"reserved"}),
                landed |-> quota.landed - BytesIn(s, {"landed"})]

finish_abandon(s) ==
    /\ InFile(s, "finish_abandon")
    /\ segs' = Cleaned(s) /\ quota' = Returned(s)
    /\ job' = [job EXCEPT ![s] = NoJob]
    /\ UNCHANGED <<sets, lastEvent, disk, drain, room, onWire, proc, faults, failures>>

finish_cleanup(s) ==
    /\ segs' = Cleaned(s) /\ quota' = Returned(s)
    /\ SetState(s, "cleaned")

finish_sweep(s) ==
    /\ InFile(s, "finish_cleanup")
    /\ finish_cleanup(s)
    /\ job' = [job EXCEPT ![s] = NoJob]
    /\ UNCHANGED <<lastEvent, disk, drain, room, onWire, proc, faults, failures>>
-----------------------------------------------------------------------------
(* The drain.                                                              *)

\* claim_next: the oldest sealed set, or one whose claim went stale
Claimable(s) == sets[s].state \in {"sealed", "delivering"}
claim_next(s) ==
    /\ BridgeUp /\ drain.at = "idle"
    /\ Claimable(s) /\ \A r \in 1..(s - 1) : sets[r].state # "sealed"
    /\ sets' = [sets EXCEPT ![s].state = "delivering", ![s].owner = proc.epoch]
    /\ drain' = [at |-> "read", set |-> s, cursor |-> sets[s].cursor, tries |-> sets[s].tries]
    /\ UNCHANGED <<segs, quota, lastEvent, disk, job, room, onWire, proc, faults, failures>>

Draining(step) == BridgeUp /\ drain.at = step
NextPart == drain.cursor + 1

\* next_segment, read_delivery
read_delivery ==
    /\ Draining("read")
    /\ drain' = IF NextPart <= Len(sets[drain.set].parts) /\ TreeValid(drain.set)
                THEN [drain EXCEPT !.at = "send"] ELSE Resting
    /\ UNCHANGED <<sets, segs, quota, lastEvent, disk, job, room, onWire, proc, faults, failures>>

\* Mutant: every send has a transaction id of its own.
ShownAgain(s, k) == [room EXCEPT ![s] = Append(@, sets[s].parts[k])]

\* What the homeserver shows: a stable transaction id is shown once.
Shown(s, k) ==
    LET part == sets[s].parts[k] IN
    IF part \in Range(room[s]) THEN room ELSE [room EXCEPT ![s] = Append(@, part)]

\* send_durable under matrix_send_timeout: an answer, an unknown commit that
\* happened, never happens or happens later, or a permanent refusal
send_durable ==
    /\ Draining("send")
    /\ \E next \in {"ack", "retry", "permanent"} :
         /\ drain' = [drain EXCEPT !.at = next]
         /\ failures' = IF next = "ack" THEN failures ELSE [failures EXCEPT ![drain.set] = @ + 1]
         /\ CASE next = "ack" -> room' = Shown(drain.set, NextPart) /\ UNCHANGED onWire
              [] next = "permanent" -> UNCHANGED <<room, onWire>>
              [] OTHER -> \/ room' = Shown(drain.set, NextPart) /\ UNCHANGED onWire
                          \/ UNCHANGED <<room, onWire>>
                          \/ onWire' = onWire \cup {<<drain.set, NextPart>>} /\ UNCHANGED room
    /\ UNCHANGED <<sets, segs, quota, lastEvent, disk, job, proc, faults>>

late_commit ==
    \E x \in onWire :
        /\ room' = Shown(x[1], x[2])
        /\ onWire' = onWire \ {x}
        /\ UNCHANGED <<sets, segs, quota, lastEvent, disk, job, drain, proc, faults, failures>>

ClaimedSet(s) == sets[s].state = "delivering" /\ sets[s].owner = proc.epoch

acknowledge ==
    LET s == drain.set
        last == NextPart = Len(sets[s].parts)
    IN
    /\ Draining("ack")
    /\ IF ClaimedSet(s) /\ sets[s].cursor = drain.cursor
       THEN /\ sets' = [sets EXCEPT ![s].cursor = NextPart, ![s].tries = 0,
                                    ![s].state = IF last THEN "delivered" ELSE "delivering"]
            /\ drain' = [drain EXCEPT !.cursor = NextPart, !.at = IF last THEN "cleanup" ELSE "read"]
       ELSE drain' = Resting /\ UNCHANGED sets
    /\ UNCHANGED <<segs, quota, lastEvent, disk, job, room, onWire, proc, faults, failures>>

GivesUp(tries, permanent) == permanent \/ tries + 1 >= AttemptLimit

\* attempt_count is the one read by claim_next, whatever was acknowledged since
record_failure ==
    LET s == drain.set
        next == drain.tries + 1
        permanent == drain.at = "permanent"
        terminal == GivesUp(drain.tries, permanent)
    IN
    /\ Draining("retry") \/ Draining("permanent")
    /\ sets' = IF ~ClaimedSet(s) THEN sets
               ELSE [sets EXCEPT ![s].state = IF terminal THEN "partial" ELSE "sealed",
                                 ![s].tries = next, ![s].owner = 0,
                                 ![s].failure = IF permanent THEN "permanent"
                                                ELSE IF terminal THEN "attempts_exhausted" ELSE "none"]
    /\ drain' = Resting
    /\ UNCHANGED <<segs, quota, lastEvent, disk, job, room, onWire, proc, faults, failures>>

begin_cleanup_ok(s) == sets[s].state \in {"delivered", "cleaning"}
drain_begin_cleanup ==
    /\ Draining("cleanup")
    /\ begin_cleanup_ok(drain.set) /\ SetState(drain.set, "cleaning")
    /\ drain' = [drain EXCEPT !.at = "remove"]
    /\ UNCHANGED <<segs, quota, lastEvent, disk, job, room, onWire, proc, faults, failures>>

drain_cleanup_files ==
    /\ Draining("remove")
    /\ IF CleanupFails(drain.set)
       THEN drain' = Resting /\ UNCHANGED disk
       ELSE \/ CleanupStep(drain.set) /\ UNCHANGED drain
            \/ CleanupDone(drain.set) /\ drain' = [drain EXCEPT !.at = "finish"] /\ UNCHANGED disk
    /\ UNCHANGED <<sets, segs, quota, lastEvent, job, room, onWire, proc, faults, failures>>

drain_finish_cleanup ==
    /\ Draining("finish")
    /\ finish_cleanup(drain.set)
    /\ drain' = Resting
    /\ UNCHANGED <<lastEvent, disk, job, room, onWire, proc, faults, failures>>

\* A statement of drain_once fails: it returns and leaves the rows as they are.
drain_error ==
    /\ BridgeUp /\ drain.at \notin {"idle", "send"} /\ faults < SpoolFaults
    /\ drain' = Resting /\ faults' = faults + 1
    /\ UNCHANGED <<sets, segs, quota, lastEvent, disk, job, room, onWire, proc, failures>>
-----------------------------------------------------------------------------
(* The process.                                                            *)

start ==
    /\ proc.at = "down" /\ proc.epoch < MaxEpoch
    /\ proc' = [at |-> "recover", epoch |-> proc.epoch + 1, start |-> "none"]
    /\ UNCHANGED <<sets, segs, quota, lastEvent, disk, job, drain, room, onWire, faults, failures>>

Recovering == proc.at = "recover" /\ \A s \in OutputSet : ~Running(s)
Unsettled == {s \in OutputSet : sets[s].state \in {"assembling", "prepared"}}
Uncleaned == {s \in OutputSet : sets[s].state \in {"delivered", "cleaning"}}
AbandonedSets == {s \in OutputSet : sets[s].state = "abandoned" /\ SegIn(s, LiveSeg) # {}}
BeginJob(s, step) == job' = [job EXCEPT ![s] = [NoJob EXCEPT !.kind = "recover", !.at = step, !.seg = 1]]

\* The next set of recover_assembling: publish and activate the output of a
\* completed task, abandon any other
recover_assembling ==
    LET s == Min(Unsettled) IN
    /\ Recovering /\ Unsettled # {}
    /\ BeginJob(s, IF lastEvent[TaskOf[s]] # "completed" THEN "abandon"
                   ELSE IF sets[s].state = "assembling" THEN "open"
                   ELSE "activate")
    /\ UNCHANGED <<sets, segs, quota, lastEvent, disk, drain, room, onWire, proc, faults, failures>>

\* The next set of recover_cleanup
recover_cleanup ==
    /\ Recovering /\ Unsettled = {}
    /\ \/ /\ Uncleaned # {} /\ BeginJob(Min(Uncleaned), "remove")
          /\ SetState(Min(Uncleaned), "cleaning")
       \/ /\ Uncleaned = {} /\ AbandonedSets # {}
          /\ BeginJob(Min(AbandonedSets), "remove") /\ UNCHANGED sets
    /\ UNCHANGED <<segs, quota, lastEvent, disk, drain, room, onWire, proc, faults, failures>>

QuotaExact ==
    /\ quota.reserved = AllBytes({"reserved"}) /\ quota.landed = AllBytes({"landed"})
    /\ quota.reserved + quota.landed <= QuotaLimit

\* verify_quota ends the recovery
verify_quota ==
    /\ Recovering /\ Unsettled = {} /\ Uncleaned = {} /\ AbandonedSets = {}
    /\ proc' = IF QuotaExact THEN [proc EXCEPT !.at = "up", !.start = "ok"]
                             ELSE [proc EXCEPT !.at = "down", !.start = "failed"]
    /\ UNCHANGED <<sets, segs, quota, lastEvent, disk, job, drain, room, onWire, faults, failures>>

\* What the memory of the process held is gone; a send may still commit.
Ended ==
    /\ proc' = [proc EXCEPT !.at = "down"]
    /\ job' = [s \in OutputSet |-> NoJob] /\ drain' = Resting
    /\ onWire' = IF drain.at = "send" THEN onWire \cup {<<drain.set, NextPart>>} ELSE onWire
    /\ UNCHANGED <<sets, segs, quota, lastEvent, disk, room, failures>>

die == proc.at # "down" /\ faults < SpoolFaults /\ faults' = faults + 1 /\ Ended

\* OutputSetDrainHandle::shutdown aborts the drain where it awaits
stop ==
    /\ BridgeUp /\ \A s \in OutputSet : ~Running(s)
    /\ drain.at # "remove" /\ proc.epoch < MaxEpoch
    /\ UNCHANGED faults /\ Ended
-----------------------------------------------------------------------------
SpoolInit ==
    /\ sets = [s \in OutputSet |-> NoSet] /\ segs = [s \in OutputSet |-> [i \in Seg(s) |-> NoSeg]]
    /\ quota = [reserved |-> 0, landed |-> 0]
    /\ lastEvent = [t \in SpoolTask |-> "running"]
    /\ disk = [s \in OutputSet |-> NoDir(s)]
    /\ job = [s \in OutputSet |-> NoJob] /\ drain = Resting
    /\ room = [s \in OutputSet |-> <<>>] /\ onWire = {}
    /\ proc = [at |-> "up", epoch |-> 1, start |-> "ok"]
    /\ faults = 0 /\ failures = [s \in OutputSet |-> 0]

TurnStep(s) ==
    \/ open_turn(s) \/ open_set(s) \/ recv(s) \/ finish_stream(s) \/ flush(s) \/ cancel(s)
    \/ lookup_segment(s) \/ decide_segment(s) \/ release_segment(s) \/ rereserve_segment(s)
    \/ activate_prepared(s)
FileStep(s) ==
    \/ create_temp(s) \/ write_temp(s) \/ link_target(s) \/ unlink_temp(s) \/ io_error(s)
    \/ land(s) \/ seal(s)
    \/ abandon(s) \/ cleanup_files(s) \/ finish_abandon(s) \/ finish_sweep(s)
DrainStep ==
    \/ \E s \in OutputSet : claim_next(s)
    \/ read_delivery \/ send_durable \/ acknowledge \/ record_failure
    \/ drain_begin_cleanup \/ drain_cleanup_files \/ drain_finish_cleanup
ProcStep == start \/ recover_assembling \/ recover_cleanup \/ verify_quota \/ die \/ stop

SpoolNext ==
    \/ \E s \in OutputSet : TurnStep(s) \/ FileStep(s)
    \/ \E t \in SpoolTask : complete(t) \/ fail(t)
    \/ DrainStep \/ drain_error \/ late_commit \/ ProcStep

Settled == BridgeUp => \A s \in OutputSet : sets[s].state \notin {"sealed", "delivering"}

\* tokio polls the drain task as long as the process is up and there is something
\* to deliver.
SpoolSpec == SpoolInit /\ [][SpoolNext]_spoolVars /\ WF_spoolVars(~Settled /\ DrainStep)
-----------------------------------------------------------------------------
\* The bytes the quota counts are those of the rows, within the limit, at
\* every moment: otherwise verify_quota refuses every later start.
QuotaCountsRows == QuotaExact

\* No segment lies in the spool that no row accounts for: its file has a
\* reserved or landed row, so giving quota back always follows the removal
\* (finish_abandon and finish_cleanup after cleanup_files, across crashes).
FilesHaveRows ==
    \A s \in OutputSet : \A f \in File(s) \ {Manifest} :
        f \in disk[s].file => segs[s][f].state \in LiveSeg

\* The room shows a prefix of the output: parts in order, none twice, none
\* missing, and every acknowledged part, through lost answers, late commits
\* and restarts of drain_once.
RoomShowsPrefix ==
    \A s \in OutputSet :
        /\ \A k \in 1..Len(room[s]) :
              room[s][k].from = IF k = 1 THEN 0 ELSE room[s][k - 1].to
        /\ sets[s].cursor <= Len(room[s])
        /\ sets[s].state \in {"delivered", "cleaning", "cleaned"} =>
              room[s] # <<>> /\ Last(room[s]).to = Whole(s)

\* A set that can still be claimed can be read: its directory holds exactly
\* the manifest and the landed segments, which tile the text, and its task
\* completed.
ClaimableIsReadable ==
    \A s \in OutputSet : sets[s].state \in {"sealed", "delivering"} =>
        /\ TreeValid(s) /\ validate_segments(s)
        /\ lastEvent[TaskOf[s]] = "completed"

\* Startup is refused only by a temp file that publish_file left in a set the start has
\* to publish or to clean, or because the start's own reconciliation lacks room: the
\* next segment that publish reserves for a completed task's output does not fit
\* beside what the rows hold.  Never by an ordinary crash between two transactions.
LeftTemp(s) ==
    /\ sets[s].state \in {"assembling", "abandoned", "cleaning"}
    /\ \E f \in File(s) : disk[s].temp[f] # "none"
LacksRoom(s) ==
    LET todo == {i \in 1..PublishCount(s) : segs[s][i].state = "none"}
    IN  /\ sets[s].state = "assembling" /\ lastEvent[TaskOf[s]] = "completed" /\ todo # {}
        /\ LET r == PublishRange(s, Min(todo))
           IN  AllBytes(LiveSeg) + Bytes(TextOf[s], r.from, r.to) > QuotaLimit
StartRefusedOnlyByLeftovers ==
    proc.start = "failed" => \E s \in OutputSet : LeftTemp(s) \/ LacksRoom(s)

\* record_failure gives a set up as exhausted only after AttemptLimit failed
\* sends.
NoEarlyGiveUp ==
    \A s \in OutputSet : sets[s].failure = "attempts_exhausted" => failures[s] >= AttemptLimit

\* Rows, files and the quota account for each other at every moment.
SpoolSound == QuotaCountsRows /\ FilesHaveRows /\ ClaimableIsReadable /\ NoEarlyGiveUp

=============================================================================
