---------------------------- MODULE CommandTool ----------------------------
(***************************************************************************)
(* The workspace_command tool (src/dqagent/coding_tools.py) around the     *)
(* runner of module Subprocess: _prepare_command resolves the executable   *)
(* and the working directory of a call, the call is authorised (module     *)
(* GovernedAction) while the workspace may change, and _execute_command    *)
(* resolves the directory again, runs the process and says in the call's   *)
(* result or error what effect the command may have had.                   *)
(***************************************************************************)
EXTENDS Subprocess

CONSTANTS AllowShell     \* allow_shell of the trusted composition

Effects == {"none", "complete", "unknown"}     \* EffectState, of a command

ASSUME CommandAssumption == AllowShell \in BOOLEAN /\ None \notin Effects

VARIABLES
    executable,    \* what argv[0] resolves to: None, direct or shell
    cwd,           \* what the working directory is at the moment
    answer         \* what the tool ended with: its code and effect state

command == <<executable, cwd>>
allVars == <<vars, command, answer>>

Directories == {"directory", "missing", "link", "uncontained"}
Errors == {"invalid", "policy_denied", "containment_denied", "execution_error",
           "observation_failure", "capability_missing", "timeout", "process_failure"}
NoAnswer == [code |-> None, effect |-> None]

TypeOK ==
    /\ RunnerTypeOK
    /\ pc \in {"prepare", "prepared", "spawn", "returned", "done"} \cup Unfinished \cup Cleaning
    /\ executable \in {None, "direct", "shell"}
    /\ cwd \in Directories
    /\ answer \in [code : Errors \cup {None, "ok", "control"}, effect : Effects \cup {None}]

Init ==
    /\ RunnerInit
    /\ pc = "prepare"
    /\ executable \in {None, "direct", "shell"}
    /\ cwd \in Directories
    /\ answer = NoAnswer

Unspawned == UNCHANGED <<stop, overdue, cleanupTime, process, writers, written, pipe, readers,
                         result, command>>

Answer(code_, effect) == answer' = [code |-> code_, effect |-> effect] /\ Goto("done")

----------------------------------------------------------------------------
(* Preparation *)

\* _resolve_command_cwd: an existing, contained directory, reached over no link.
CwdAccepted == cwd = "directory"

\* On the allowlist, and no shell unless the composition enables shells.
Allowed == executable = "direct" \/ (executable = "shell" /\ AllowShell)

\* _prepare_command: control, arguments, executable, shell, directory.
Prepare ==
    /\ pc = "prepare"
    /\ \/ Stopped /\ Answer("control", None)
       \/ ~Stopped /\ Answer("invalid", None)
       \/ ~Stopped /\ ~Allowed /\ Answer("policy_denied", None)
       \/ /\ ~Stopped /\ Allowed
          /\ IF CwdAccepted THEN Goto("prepared") /\ UNCHANGED answer
             ELSE Answer("containment_denied", None)
    /\ Unspawned

\* _execute_command, up to the runner; the directory may vanish again before
\* SubprocessRequest resolves it.
Execute ==
    /\ pc = "prepared"
    /\ IF CwdAccepted THEN \/ Goto("spawn") /\ UNCHANGED answer
                           \/ Answer("execution_error", "unknown")
       ELSE Answer("containment_denied", "none")
    /\ Unspawned

----------------------------------------------------------------------------
(* The answer *)

\* _execute_command, after the runner: what the status says of the effect.
Outcome ==
    CASE status \in {"cancelled", "deadline"} -> <<"control", None>>
      [] status = "normal" -> IF CleanupSucceeded THEN <<"ok", "complete">>
                              ELSE <<"observation_failure", "unknown">>
      [] status = "capability_denied" -> <<"capability_missing", "none">>
      [] status = "timeout" -> <<"timeout", "unknown">>
      [] status = "output_sanitization_error" -> <<"observation_failure", "unknown">>
      [] status = "spawn_error" -> <<"process_failure", "none">>
      [] status = "nonzero" -> <<"process_failure", "unknown">>
      [] status = "raised" -> <<"execution_error", "unknown">>

Conclude ==
    /\ pc = "returned"
    /\ Answer(Outcome[1], Outcome[2])
    /\ Unspawned

Tool == Prepare \/ Execute \/ Conclude

CwdChanges ==
    /\ pc \in {"prepare", "prepared"}
    /\ cwd' \in Directories
    /\ UNCHANGED <<vars, executable, answer>>

Done == pc = "done" /\ UNCHANGED allVars

Next == \/ Tool
        \/ CwdChanges
        \/ Done
        \/ (Runner \/ (\E s \in Streams : Reader(s)) \/ World \/ Time) /\ UNCHANGED <<command, answer>>

\* The tool's thread runs, the readers run, and time passes.  Nothing is
\* assumed of the child: it need not read a signal, write, or ever end.
Fairness ==
    /\ WF_allVars(Tool)
    /\ WF_allVars(Runner /\ UNCHANGED <<command, answer>>)
    /\ WF_allVars(Time /\ UNCHANGED <<command, answer>>)
    /\ \A s \in Streams : WF_allVars(Reader(s) /\ UNCHANGED <<command, answer>>)

Spec == Init /\ [][Next]_allVars
FairSpec == Spec /\ Fairness
----------------------------------------------------------------------------
(* Properties *)

\* The result says truly how the process ended.  An exit code is reported
\* only for a child that ended by itself, and is its code; a clean result
\* means that the child is reaped and no reader still reads; a complete effect
\* means besides that it ended by itself with code zero and that no process,
\* a descendant of the child either, can still write to a stream whose reader
\* has finished (one that has closed both streams may live on: the code does
\* not look for it); no effect means that no process was started
\* (docs/phase-9-detailed-design.md on cleanup evidence, docs/adr/0012).
ExitIsTheChilds ==
    returncode # None => byItself /\ returncode = code /\ child = "reaped"

CleanIsReaped == CleanupSucceeded =>
    /\ child = "reaped"
    /\ \A s \in Streams : reader[s] # "reading"

EffectIsTrue ==
    /\ answer.effect = "none" => child = "none"
    /\ answer.effect = "complete" =>
         /\ child = "reaped" /\ code = "zero" /\ byItself
         /\ \A s \in Streams : reader[s] = "finished" => writers[s] = {}

HonestResult == ExitIsTheChilds /\ CleanIsReaped /\ EffectIsTrue

\* Output is either whole or said not to be: if the cleanup succeeded, no
\* reader failed, the sanitizer worked and a stream is not marked truncated,
\* the result shows every byte the process tree wrote to it.
OutputIsWhole ==
    /\ shown # None /\ CleanupSucceeded /\ status # "output_sanitization_error"
    /\ \A s \in Streams : reader[s] # "failed"
    => \A s \in Streams : shown[s].truncated \/ shown[s].bytes = written[s]

\* A command always gets its answer, even from a child that ignores every
\* signal, a descendant that keeps the pipes, or a reader that never ends.
CommandReturns == pc = "spawn" ~> pc = "done"

\* A child is never left blocked on a full pipe by readers that work, however
\* much it writes beyond the limits: it could neither end nor time out early.
NeverBlocked ==
    \A s \in Streams : pipe[s] = Capacity ~> pipe[s] < Capacity \/ reader[s] = "failed"
=============================================================================
