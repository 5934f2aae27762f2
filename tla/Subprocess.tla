----------------------------- MODULE Subprocess -----------------------------
(***************************************************************************)
(* LocalSubprocessRunner.run (src/dqagent/subprocesses.py): one attempt to *)
(* run a direct child, with the threads and processes it races:            *)
(*                                                                         *)
(*  - the caller's loop: is the run stopped, has the child exited, was the *)
(*    run stopped meanwhile, is the timeout over; then the bounded cleanup *)
(*    terminate -> reap until half the time is gone -> kill -> reap, join  *)
(*    the readers, render what they collected;                             *)
(*  - a reader for each stream, which takes whole chunks from the pipe     *)
(*    until its end and keeps at most a limit of the bytes;                *)
(*  - the child, which writes, blocks when a pipe is full, may ignore a    *)
(*    terminate, and may leave a descendant that holds its pipes open.     *)
(*                                                                         *)
(* Bytes are counted, not named.  Time is the order of three deadlines:    *)
(* the timeout, half of the cleanup time, all of it.                       *)
(***************************************************************************)
EXTENDS Naturals, FiniteSets

CONSTANTS Streams,     \* stdout and stderr
          Capacity,    \* bytes a pipe holds before its writer blocks
          Chunk,       \* stream_chunk_bytes
          Limit,       \* Limit[s]: stdout_limit_bytes, stderr_limit_bytes
          MaxWritten,  \* bound: MaxWritten[s] bytes a process tree writes to s
          None

\* SubprocessStatus; "raised" is an error that leaves run instead of a result.
SubprocessStatuses == {"capability_denied", "spawn_error", "normal", "nonzero", "timeout",
                       "cancelled", "deadline", "output_sanitization_error", "raised"}

\* What the constructors of the request and of the runner accept.
SubprocessAssumption ==
    /\ IsFiniteSet(Streams)
    /\ Capacity \in Nat \ {0} /\ Chunk \in Nat \ {0}
    /\ Limit \in [Streams -> Nat]
    /\ MaxWritten \in [Streams -> Nat]
    /\ None \notin SubprocessStatuses      \* a status is never None

ASSUME SubprocessAssumption

VARIABLES
    pc,            \* where the caller is in run
    stop,          \* what check_active raises: a cancellation outranks the deadline
    overdue,       \* is the process deadline over?
    cleanupTime,   \* how much of the cleanup time is over
    child,         \* none, running, exited, or reaped by a poll or a wait
    code,          \* the child's exit code, once it has exited
    signalled,     \* history: what has been sent to the running child
    byItself,      \* history: did the child exit without having been signalled?
    writers,       \* writers[s]: who holds the write end of stream s
    written,       \* written[s]: bytes written to s so far
    pipe,          \* pipe[s]: bytes in the pipe
    held,          \* held[s]: bytes of a chunk that is not complete yet
    kept,          \* kept[s]: bytes in the _BoundedByteCollector
    cut,           \* cut[s]: its truncated flag
    reader,        \* reader[s]: reading, finished or failed
    status,        \* process_status
    returncode,
    cleanup,       \* the CleanupResult
    shown          \* what the result says of each stream

process == <<child, code, signalled, byItself>>
readers == <<held, kept, cut, reader>>
result == <<status, returncode, cleanup, shown>>
vars == <<pc, stop, overdue, cleanupTime, process, writers, written, pipe, readers, result>>

Codes == {"zero", "nonzero"}
NoCleanup == [requested |-> FALSE, reaped |-> FALSE, drained |-> FALSE]

Unfinished == {"control", "poll", "late", "clock"}
Cleaning == {"terminate", "grace", "kill", "reap", "join", "render"}

RunnerTypeOK ==
    /\ stop \in {None, "cancelled", "deadline"}
    /\ overdue \in BOOLEAN
    /\ cleanupTime \in {"none", "grace", "late", "over"}
    /\ child \in {"none", "running", "exited", "reaped"}
    /\ code \in Codes \cup {None} /\ byItself \in BOOLEAN
    /\ signalled \subseteq {"terminate", "kill"}
    /\ writers \in [Streams -> SUBSET {"child", "descendant"}]
    /\ written \in [Streams -> Nat] /\ \A s \in Streams : written[s] <= MaxWritten[s]
    /\ pipe \in [Streams -> 0..Capacity]
    /\ held \in [Streams -> 0..(Chunk - 1)]
    /\ kept \in [Streams -> Nat] /\ \A s \in Streams : kept[s] <= Limit[s]
    /\ cut \in [Streams -> BOOLEAN]
    /\ reader \in [Streams -> {"reading", "finished", "failed"}]
    /\ status \in SubprocessStatuses \cup {None}
    /\ returncode \in Codes \cup {None}
    /\ cleanup \in [requested : BOOLEAN, reaped : BOOLEAN, drained : BOOLEAN]
    /\ shown # None => shown \in [Streams -> [bytes : Nat, truncated : BOOLEAN]]

RunnerInit ==
    /\ stop = None /\ overdue = FALSE /\ cleanupTime = "none"
    /\ child = "none" /\ code = None /\ signalled = {} /\ byItself = FALSE
    /\ writers = [s \in Streams |-> {}]
    /\ written = [s \in Streams |-> 0]
    /\ pipe = [s \in Streams |-> 0]
    /\ held = [s \in Streams |-> 0]
    /\ kept = [s \in Streams |-> 0]
    /\ cut = [s \in Streams |-> FALSE]
    /\ reader = [s \in Streams |-> "reading"]
    /\ status = None /\ returncode = None /\ cleanup = NoCleanup /\ shown = None

----------------------------------------------------------------------------
(* The caller's loop *)

Stopped == stop # None
Goto(to) == pc' = to

Environment == <<stop, overdue, writers, written, pipe, readers>>

\* Before the spawn: a missing capability, a stopped run, a failed Popen.
RefusedBeforeSpawn ==
    /\ pc = "spawn"
    /\ status' \in {"capability_denied", "spawn_error"} \cup (IF Stopped THEN {stop} ELSE {})
    /\ Goto("returned")
    /\ UNCHANGED <<Environment, cleanupTime, process, returncode, cleanup, shown>>

Spawn ==
    /\ pc = "spawn" /\ ~Stopped
    /\ child' = "running"
    /\ writers' = [s \in Streams |-> {"child"}]
    /\ Goto("control")
    /\ UNCHANGED <<stop, overdue, written, pipe, readers, cleanupTime, code, signalled,
                   byItself, result>>

\* An error after Popen, a reader thread that cannot be started, leaves run
\* with the child still running.
SpawnedThenRaised ==
    /\ pc = "spawn" /\ ~Stopped
    /\ child' = "running"
    /\ writers' = [s \in Streams |-> {"child"}]
    /\ reader' = [s \in Streams |-> "failed"]
    /\ status' = "raised"
    /\ Goto("returned")
    /\ UNCHANGED <<stop, overdue, written, pipe, held, kept, cut, cleanupTime, code,
                   signalled, byItself, returncode, cleanup, shown>>

\* The status is decided: the cleanup and its time begin.
Decide(outcome) ==
    /\ status' = outcome
    /\ cleanupTime' = "grace"
    /\ Goto(IF outcome \in {"timeout", "cancelled", "deadline"} THEN "terminate" ELSE "reap")

CheckControl ==
    /\ pc = "control"
    /\ IF Stopped THEN Decide(stop) ELSE Goto("poll") /\ UNCHANGED <<status, cleanupTime>>
    /\ UNCHANGED <<Environment, process, returncode, cleanup, shown>>

\* Popen.poll also reaps the child it finds exited.
Poll ==
    /\ pc = "poll"
    /\ IF child = "exited"
       THEN child' = "reaped" /\ Goto("late")
       ELSE Goto("clock") /\ UNCHANGED child
    /\ UNCHANGED <<Environment, code, signalled, byItself, cleanupTime, result>>

\* A stop that came before this second look outranks the exit code.
LateControl ==
    /\ pc = "late"
    /\ IF Stopped THEN Decide(stop) /\ UNCHANGED returncode
       ELSE /\ returncode' = code
            /\ Decide(IF code = "zero" THEN "normal" ELSE "nonzero")
    /\ UNCHANGED <<Environment, process, cleanup, shown>>

CheckClock ==
    /\ pc = "clock"
    /\ IF overdue THEN Decide("timeout")
       ELSE Goto("control") /\ UNCHANGED <<status, cleanupTime>>
    /\ UNCHANGED <<Environment, process, returncode, cleanup, shown>>

----------------------------------------------------------------------------
(* The bounded cleanup *)

\* Popen.send_signal sends nothing to a child that is known to have exited;
\* terminate and kill may raise, and the cleanup goes on.
Signal(how) ==
    \/ /\ signalled' = IF child = "running" THEN signalled \cup {how} ELSE signalled
       /\ child' = IF child = "exited" THEN "reaped" ELSE child
    \/ UNCHANGED <<signalled, child>>

Terminate ==
    /\ pc = "terminate"
    /\ Signal("terminate")
    /\ cleanup' = [cleanup EXCEPT !.requested = TRUE]
    /\ Goto("grace")
    /\ UNCHANGED <<Environment, cleanupTime, code, byItself, status, returncode, shown>>

\* _reap: wait until the child has exited or the deadline is over; then poll
\* once more.  An error of the wait itself, which ends it too, is left out.
Reap(over, reaped, otherwise) ==
    /\ \/ /\ child \in {"exited", "reaped"}
          /\ child' = "reaped"
          /\ cleanup' = [cleanup EXCEPT !.reaped = TRUE]
          /\ Goto(reaped)
       \/ /\ child = "running" /\ cleanupTime \in over
          /\ Goto(otherwise) /\ UNCHANGED <<child, cleanup>>
    /\ UNCHANGED <<Environment, cleanupTime, code, signalled, byItself, status, returncode,
                   shown>>

Grace == pc = "grace" /\ Reap({"late", "over"}, "join", "kill")

Kill ==
    /\ pc = "kill"
    /\ Signal("kill")
    /\ Goto("reap")
    /\ UNCHANGED <<Environment, cleanupTime, code, byItself, result>>

LastReap == pc = "reap" /\ Reap({"over"}, "join", "join")

\* Mutant of Join: the readers' state is taken from the reaped child.
JoinByChild ==
    /\ pc = "join"
    /\ cleanup' = [cleanup EXCEPT !.drained = cleanup.reaped]
    /\ Goto("render")
    /\ UNCHANGED <<Environment, cleanupTime, process, status, returncode, shown>>

\* Mutant of Join: it waits for the readers however long they take.
JoinUnbounded ==
    /\ pc = "join"
    /\ \A s \in Streams : reader[s] # "reading"
    /\ cleanup' = [cleanup EXCEPT !.drained = TRUE]
    /\ Goto("render")
    /\ UNCHANGED <<Environment, cleanupTime, process, status, returncode, shown>>

\* _join_streams waits for the readers, but not beyond the cleanup time.
Join ==
    /\ pc = "join"
    /\ LET ended == \A s \in Streams : reader[s] # "reading"
       IN /\ ended \/ cleanupTime = "over"
          /\ cleanup' = [cleanup EXCEPT !.drained = ended]
    /\ Goto("render")
    /\ UNCHANGED <<Environment, cleanupTime, process, status, returncode, shown>>

\* _render_stream: what is kept, once sanitized, may again exceed the limit;
\* a sanitizer that fails leaves nothing to show.
Shown(s, grown, failed) ==
    [bytes |-> IF s \in failed THEN 0 ELSE kept[s], truncated |-> cut[s] \/ s \in grown]

\* A sanitizer that fails replaces the status.
Render ==
    /\ pc = "render"
    /\ \E grown, failed \in SUBSET Streams :
         /\ shown' = [s \in Streams |-> Shown(s, grown, failed)]
         /\ status' = IF failed # {} THEN "output_sanitization_error" ELSE status
    /\ Goto("returned")
    /\ UNCHANGED <<Environment, cleanupTime, process, returncode, cleanup>>

\* CleanupResult.succeeded, as _finish_cleanup leaves it.
CleanupSucceeded == cleanup.reaped /\ cleanup.drained

Runner == \/ RefusedBeforeSpawn \/ Spawn \/ SpawnedThenRaised
          \/ CheckControl \/ Poll \/ LateControl \/ CheckClock
          \/ Terminate \/ Grace \/ Kill \/ LastReap \/ Join \/ Render

----------------------------------------------------------------------------
(* The readers *)

Caller == <<pc, stop, overdue, cleanupTime, process, result>>

\* Mutant of Keep: a chunk that does not fit is kept whole.
KeepWholeChunk(s, count) ==
    LET room == Limit[s] - kept[s]
    IN /\ kept' = [kept EXCEPT ![s] = IF room = 0 THEN @ ELSE @ + count]
       /\ cut' = [cut EXCEPT ![s] = @ \/ count > room]

\* Mutant of Keep: a stream is marked only once its limit is overrun again.
KeepMarkedLate(s, count) ==
    LET room == Limit[s] - kept[s]
    IN /\ kept' = [kept EXCEPT ![s] = IF count > room THEN Limit[s] ELSE @ + count]
       /\ cut' = [cut EXCEPT ![s] = @ \/ (room = 0 /\ count > 0)]

\* _BoundedByteCollector.append
Keep(s, count) ==
    LET room == Limit[s] - kept[s]
    IN /\ kept' = [kept EXCEPT ![s] = IF count > room THEN Limit[s] ELSE @ + count]
       /\ cut' = [cut EXCEPT ![s] = @ \/ count > room]

\* Mutant of TakeByte: the reader stops taking bytes at its limit.
TakeByteToLimit(s) ==
    /\ reader[s] = "reading" /\ pipe[s] > 0 /\ kept[s] + held[s] < Limit[s]
    /\ pipe' = [pipe EXCEPT ![s] = @ - 1]
    /\ IF held[s] + 1 = Chunk
       THEN held' = [held EXCEPT ![s] = 0] /\ Keep(s, Chunk)
       ELSE held' = [held EXCEPT ![s] = @ + 1] /\ UNCHANGED <<kept, cut>>
    /\ UNCHANGED <<Caller, writers, written, reader>>

\* stream.read(chunk_size) returns a whole chunk or, at the end of the
\* stream, what is left; until then its bytes are in no collector.
TakeByte(s) ==
    /\ reader[s] = "reading" /\ pipe[s] > 0
    /\ pipe' = [pipe EXCEPT ![s] = @ - 1]
    /\ IF held[s] + 1 = Chunk
       THEN held' = [held EXCEPT ![s] = 0] /\ Keep(s, Chunk)
       ELSE held' = [held EXCEPT ![s] = @ + 1] /\ UNCHANGED <<kept, cut>>
    /\ UNCHANGED <<Caller, writers, written, reader>>

EndOfStream(s) ==
    /\ reader[s] = "reading" /\ pipe[s] = 0 /\ writers[s] = {} /\ child # "none"
    /\ held' = [held EXCEPT ![s] = 0] /\ Keep(s, held[s])
    /\ reader' = [reader EXCEPT ![s] = "finished"]
    /\ UNCHANGED <<Caller, writers, written, pipe>>

ReadFails(s) ==
    /\ reader[s] = "reading" /\ child # "none"
    /\ reader' = [reader EXCEPT ![s] = "failed"]
    /\ UNCHANGED <<Caller, writers, written, pipe, held, kept, cut>>

Reader(s) == TakeByte(s) \/ EndOfStream(s)

----------------------------------------------------------------------------
(* The child, its descendant, the run's control and time *)

Write(s) ==
    /\ writers[s] # {} /\ pipe[s] < Capacity /\ written[s] < MaxWritten[s]
    /\ pipe' = [pipe EXCEPT ![s] = @ + 1]
    /\ written' = [written EXCEPT ![s] = @ + 1]
    /\ UNCHANGED <<Caller, writers, readers>>

\* A descendant inherits the pipes that are open.
Fork ==
    /\ child = "running"
    /\ \E s \in Streams : "descendant" \notin writers[s]
    /\ writers' = [s \in Streams |-> writers[s] \cup {"descendant"}]
    /\ UNCHANGED <<Caller, written, pipe, readers>>

DescendantExits ==
    /\ \E s \in Streams : "descendant" \in writers[s]
    /\ writers' = [s \in Streams |-> writers[s] \ {"descendant"}]
    /\ UNCHANGED <<Caller, written, pipe, readers>>

\* Of itself or after a signal: only one that was killed cannot end in zero.
ChildExits ==
    /\ child = "running"
    /\ child' = "exited"
    /\ byItself' = (signalled = {})
    /\ code' \in IF "kill" \in signalled THEN {"nonzero"} ELSE Codes
    /\ writers' = [s \in Streams |-> writers[s] \ {"child"}]
    /\ UNCHANGED <<pc, stop, overdue, cleanupTime, signalled, written, pipe, readers, result>>

NotTimed == <<pc, process, writers, written, pipe, readers, result>>

\* Once the status is decided the runner does not look at the control again.
StopRun ==
    /\ pc \in {"prepare", "prepared", "spawn"} \cup Unfinished
    /\ \/ stop = None /\ stop' \in {"cancelled", "deadline"}
       \/ stop = "deadline" /\ stop' = "cancelled"
    /\ UNCHANGED <<overdue, cleanupTime, NotTimed>>

TimeoutPasses ==
    /\ pc \in Unfinished /\ ~overdue
    /\ overdue' = TRUE
    /\ UNCHANGED <<stop, cleanupTime, NotTimed>>

CleanupTimePasses ==
    /\ pc \in Cleaning
    /\ \/ cleanupTime = "grace" /\ cleanupTime' = "late"
       \/ cleanupTime = "late" /\ cleanupTime' = "over"
    /\ UNCHANGED <<stop, overdue, NotTimed>>

Time == TimeoutPasses \/ CleanupTimePasses

World == \/ \E s \in Streams : ReadFails(s) \/ Write(s)
         \/ Fork \/ DescendantExits \/ ChildExits \/ StopRun
=============================================================================
