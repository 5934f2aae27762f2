------------------------- MODULE CommandToolProofs -------------------------
(***************************************************************************)
(* What holds of every command, whatever its process tree writes, however  *)
(* the signals, the readers and the three deadlines race, and for every    *)
(* capacity, chunk and limit: the types and bounds, that the result says   *)
(* truly how the process ended, and that output is whole or marked.        *)
(***************************************************************************)
EXTENDS CommandTool, TLAPS

----------------------------------------------------------------------------
(* The inductive invariant *)

Before == {"prepare", "prepared", "spawn"}
Over == {"returned", "done"}

\* Until a child is spawned there is nothing to signal; until the status is
\* decided the child is not signalled, and there is nothing to show before the end.
Stages ==
    /\ pc \in Before => child = "none" /\ returncode = None
    /\ pc \in Before \cup Unfinished => status = None /\ signalled = {}
    /\ pc \in Cleaning \cup {"returned"} => status \in SubprocessStatuses
    /\ pc \notin Over => shown = None
    /\ pc # "done" => answer = NoAnswer

\* A child that has exited has its code and, while nobody signals, did so itself.
Exits ==
    /\ pc = "late" => child = "reaped"
    /\ pc \in Unfinished /\ child \in {"exited", "reaped"} => byItself
    /\ child = "running" => \A s \in Streams : "child" \in writers[s]
    /\ returncode # None => byItself /\ returncode = code /\ child = "reaped"

\* What the status says of the child.
StatusIsTrue ==
    /\ status = "normal" => child = "reaped" /\ code = "zero" /\ byItself
    /\ status \in {"capability_denied", "spawn_error"} => child = "none"

\* A reader that has finished has read all there will ever be.
Finished ==
    \A s \in Streams : reader[s] = "finished" =>
        pipe[s] = 0 /\ held[s] = 0 /\ writers[s] = {} /\ child \in {"exited", "reaped"}

\* Every byte written is in the collector, in an unfinished chunk or in the
\* pipe, unless the stream is marked.
Conserved ==
    \A s \in Streams : cut[s] \/ written[s] = kept[s] + held[s] + pipe[s]

CleanupIsTrue ==
    /\ cleanup.reaped => child = "reaped"
    /\ cleanup.drained => \A s \in Streams : reader[s] # "reading"

IInv == TypeOK /\ Stages /\ Exits /\ StatusIsTrue /\ Finished /\ Conserved
        /\ CleanupIsTrue /\ EffectIsTrue /\ OutputIsWhole

----------------------------------------------------------------------------
(* The caller's steps *)

LEMMA Initially == Init => IInv
<1> SUFFICES ASSUME Init PROVE IInv
  OBVIOUS
<1> USE SubprocessAssumption, CommandAssumption
    DEF Init, RunnerInit, SubprocessAssumption, CommandAssumption
<1>1. RunnerTypeOK
  <2>1. /\ 0 \in 0 .. Chunk - 1 /\ 0 \in 0 .. Capacity
        /\ \A s \in Streams : 0 <= MaxWritten[s] /\ 0 <= Limit[s]
    OBVIOUS
  <2>2. /\ written \in [Streams -> Nat] /\ kept \in [Streams -> Nat]
        /\ pipe \in [Streams -> 0 .. Capacity] /\ held \in [Streams -> 0 .. (Chunk - 1)]
        /\ cut \in [Streams -> BOOLEAN]
        /\ writers \in [Streams -> SUBSET {"child", "descendant"}]
        /\ reader \in [Streams -> {"reading", "finished", "failed"}]
    BY <2>1
  <2>3. \A s \in Streams : written[s] <= MaxWritten[s] /\ kept[s] <= Limit[s]
    BY <2>1
  <2> QED
    BY <2>2, <2>3 DEF RunnerTypeOK, NoCleanup
<1>2. TypeOK
  BY <1>1 DEF TypeOK, NoAnswer
<1>3. Stages /\ Exits /\ StatusIsTrue
  BY DEF Stages, Exits, StatusIsTrue, Cleaning, SubprocessStatuses
<1>4. Finished /\ Conserved /\ CleanupIsTrue
  BY DEF Finished, Conserved, CleanupIsTrue, NoCleanup
<1>5. EffectIsTrue /\ OutputIsWhole
  BY DEF EffectIsTrue, OutputIsWhole, NoAnswer, Effects
<1> QED
  BY <1>2, <1>3, <1>4, <1>5 DEF IInv

LEMMA RefusedBeforeSpawnPreserves == IInv /\ RefusedBeforeSpawn /\ UNCHANGED <<command, answer>> => IInv'
<1> SUFFICES ASSUME IInv, RefusedBeforeSpawn, UNCHANGED <<command, answer>> PROVE IInv'
  OBVIOUS
<1> USE SubprocessAssumption, CommandAssumption
    DEF SubprocessAssumption, CommandAssumption, IInv, RefusedBeforeSpawn, Stopped,
        Goto, Environment, process, readers, result, command
<1>1. TypeOK'
  BY DEF TypeOK, RunnerTypeOK, SubprocessStatuses
<1>2. Stages'
  BY DEF TypeOK, RunnerTypeOK, Stages, Before, Over, Unfinished, SubprocessStatuses
<1>3. Exits'
  BY DEF Exits, Unfinished
<1>4. StatusIsTrue'
  BY DEF TypeOK, RunnerTypeOK, Stages, StatusIsTrue, Before, Cleaning,
         SubprocessStatuses
<1>5. Finished' /\ Conserved'
  BY DEF Finished, Conserved
<1>6. CleanupIsTrue'
  BY DEF CleanupIsTrue
<1>7. EffectIsTrue'
  BY DEF EffectIsTrue, Effects, Before, Over, Unfinished, Cleaning, SubprocessStatuses
<1>8. OutputIsWhole'
  BY DEF Stages, OutputIsWhole, Over, Unfinished, Cleaning
<1> QED
  BY <1>1, <1>2, <1>3, <1>4, <1>5, <1>6, <1>7, <1>8

LEMMA SpawnPreserves == IInv /\ Spawn /\ UNCHANGED <<command, answer>> => IInv'
<1> SUFFICES ASSUME IInv, Spawn, UNCHANGED <<command, answer>> PROVE IInv'
  OBVIOUS
<1> USE SubprocessAssumption, CommandAssumption
    DEF SubprocessAssumption, CommandAssumption, IInv, Spawn, Stopped, Goto,
        Environment, process, readers, result, command
<1>1. TypeOK'
  BY DEF TypeOK, RunnerTypeOK, Unfinished
<1>2. Stages'
  BY DEF Stages, Before, Over, Cleaning
<1>3. Exits'
  BY DEF Stages, Exits, Before
<1>4. StatusIsTrue'
  BY DEF Stages, StatusIsTrue, Before, Cleaning, SubprocessStatuses
<1>5. Finished' /\ Conserved'
  BY DEF Stages, Finished, Conserved, Before
<1>6. CleanupIsTrue'
  BY DEF Stages, CleanupIsTrue, Before
<1>7. EffectIsTrue'
  BY DEF Stages, EffectIsTrue, NoAnswer, Effects, Before, Over, Unfinished, Cleaning,
         SubprocessStatuses
<1>8. OutputIsWhole'
  BY DEF OutputIsWhole, CleanupSucceeded, Over, Unfinished, Cleaning
<1> QED
  BY <1>1, <1>2, <1>3, <1>4, <1>5, <1>6, <1>7, <1>8

LEMMA SpawnedThenRaisedPreserves == IInv /\ SpawnedThenRaised /\ UNCHANGED <<command, answer>> => IInv'
<1> SUFFICES ASSUME IInv, SpawnedThenRaised, UNCHANGED <<command, answer>> PROVE IInv'
  OBVIOUS
<1> USE SubprocessAssumption, CommandAssumption
    DEF SubprocessAssumption, CommandAssumption, IInv, SpawnedThenRaised, Stopped, Goto,
        Environment, process, readers, result, command
<1>1. TypeOK'
  BY DEF TypeOK, RunnerTypeOK, SubprocessStatuses
<1>2. Stages'
  BY DEF Stages, Before, Over, Unfinished, SubprocessStatuses
<1>3. Exits'
  BY DEF Stages, Exits, Before
<1>4. StatusIsTrue'
  BY DEF StatusIsTrue, Cleaning, SubprocessStatuses
<1>5. Finished' /\ Conserved'
  BY DEF Finished, Conserved
<1>6. CleanupIsTrue'
  BY DEF Stages, CleanupIsTrue, Before
<1>7. EffectIsTrue'
  BY DEF Stages, EffectIsTrue, NoAnswer, Effects, Before, Over, Unfinished, Cleaning,
         SubprocessStatuses
<1>8. OutputIsWhole'
  BY DEF OutputIsWhole, Over, Unfinished, Cleaning
<1> QED
  BY <1>1, <1>2, <1>3, <1>4, <1>5, <1>6, <1>7, <1>8

LEMMA CheckControlPreserves == IInv /\ CheckControl /\ UNCHANGED <<command, answer>> => IInv'
<1> SUFFICES ASSUME IInv, CheckControl, UNCHANGED <<command, answer>> PROVE IInv'
  OBVIOUS
<1> USE SubprocessAssumption, CommandAssumption
    DEF SubprocessAssumption, CommandAssumption, IInv, CheckControl, Decide, Stopped,
        Goto, Environment, process, readers, result, command
<1>1. TypeOK'
  BY DEF TypeOK, RunnerTypeOK, Unfinished, Cleaning, SubprocessStatuses
<1>2. Stages'
  BY DEF TypeOK, RunnerTypeOK, Stages, Before, Over, Unfinished, Cleaning,
         SubprocessStatuses
<1>3. Exits'
  BY DEF Exits, Unfinished
<1>4. StatusIsTrue'
  BY DEF TypeOK, RunnerTypeOK, StatusIsTrue, Cleaning, SubprocessStatuses
<1>5. Finished' /\ Conserved'
  BY DEF Finished, Conserved
<1>6. CleanupIsTrue'
  BY DEF CleanupIsTrue
<1>7. EffectIsTrue'
  BY DEF EffectIsTrue, Effects, Before, Over, Unfinished, Cleaning, SubprocessStatuses
<1>8. OutputIsWhole'
  BY DEF Stages, OutputIsWhole, Over, Unfinished, Cleaning
<1> QED
  BY <1>1, <1>2, <1>3, <1>4, <1>5, <1>6, <1>7, <1>8

LEMMA PollPreserves == IInv /\ Poll /\ UNCHANGED <<command, answer>> => IInv'
<1> SUFFICES ASSUME IInv, Poll, UNCHANGED <<command, answer>> PROVE IInv'
  OBVIOUS
<1> USE SubprocessAssumption, CommandAssumption
    DEF SubprocessAssumption, CommandAssumption, IInv, Poll, Stopped, Goto, Environment,
        process, readers, result, command
<1>1. TypeOK'
  BY DEF TypeOK, RunnerTypeOK, Unfinished
<1>2. Stages'
  BY DEF Stages, Before, Over, Unfinished, Cleaning
<1>3. Exits'
  BY DEF Exits, Unfinished
<1>4. StatusIsTrue'
  BY DEF StatusIsTrue, Cleaning, SubprocessStatuses
<1>5. Finished' /\ Conserved'
  BY DEF Finished, Conserved
<1>6. CleanupIsTrue'
  BY DEF CleanupIsTrue
<1>7. EffectIsTrue'
  BY DEF EffectIsTrue, Effects, Before, Over, Unfinished, Cleaning, SubprocessStatuses
<1>8. OutputIsWhole'
  BY DEF OutputIsWhole, CleanupSucceeded, Over, Unfinished, Cleaning
<1> QED
  BY <1>1, <1>2, <1>3, <1>4, <1>5, <1>6, <1>7, <1>8

LEMMA LateControlPreserves == IInv /\ LateControl /\ UNCHANGED <<command, answer>> => IInv'
<1> SUFFICES ASSUME IInv, LateControl, UNCHANGED <<command, answer>> PROVE IInv'
  OBVIOUS
<1> USE SubprocessAssumption, CommandAssumption
    DEF SubprocessAssumption, CommandAssumption, IInv, LateControl, Decide, Codes,
        Stopped, Goto, Environment, process, readers, result, command
<1>1. TypeOK'
  BY DEF TypeOK, RunnerTypeOK, Cleaning, SubprocessStatuses
<1>2. Stages'
  BY DEF TypeOK, RunnerTypeOK, Stages, Before, Over, Unfinished, SubprocessStatuses
<1>3. Exits'
  BY DEF Exits, Unfinished
<1>4. StatusIsTrue'
  BY DEF TypeOK, RunnerTypeOK, Exits, StatusIsTrue, Cleaning, SubprocessStatuses
<1>5. Finished' /\ Conserved'
  BY DEF Finished, Conserved
<1>6. CleanupIsTrue'
  BY DEF CleanupIsTrue
<1>7. EffectIsTrue'
  BY DEF EffectIsTrue, Effects, Before, Over, Unfinished, Cleaning, SubprocessStatuses
<1>8. OutputIsWhole'
  BY DEF Stages, OutputIsWhole, Over, Unfinished, Cleaning
<1> QED
  BY <1>1, <1>2, <1>3, <1>4, <1>5, <1>6, <1>7, <1>8

LEMMA CheckClockPreserves == IInv /\ CheckClock /\ UNCHANGED <<command, answer>> => IInv'
<1> SUFFICES ASSUME IInv, CheckClock, UNCHANGED <<command, answer>> PROVE IInv'
  OBVIOUS
<1> USE SubprocessAssumption, CommandAssumption
    DEF SubprocessAssumption, CommandAssumption, IInv, CheckClock, Decide, Stopped,
        Goto, Environment, process, readers, result, command
<1>1. TypeOK'
  BY DEF TypeOK, RunnerTypeOK, Unfinished, Cleaning, SubprocessStatuses
<1>2. Stages'
  BY DEF Stages, Before, Over, Unfinished, Cleaning, SubprocessStatuses
<1>3. Exits'
  BY DEF Exits, Unfinished
<1>4. StatusIsTrue'
  BY DEF StatusIsTrue, Cleaning, SubprocessStatuses
<1>5. Finished' /\ Conserved'
  BY DEF Finished, Conserved
<1>6. CleanupIsTrue'
  BY DEF CleanupIsTrue
<1>7. EffectIsTrue'
  BY DEF EffectIsTrue, Effects, Before, Over, Unfinished, Cleaning, SubprocessStatuses
<1>8. OutputIsWhole'
  BY DEF Stages, OutputIsWhole, Over, Unfinished, Cleaning
<1> QED
  BY <1>1, <1>2, <1>3, <1>4, <1>5, <1>6, <1>7, <1>8

LEMMA TerminatePreserves == IInv /\ Terminate /\ UNCHANGED <<command, answer>> => IInv'
<1> SUFFICES ASSUME IInv, Terminate, UNCHANGED <<command, answer>> PROVE IInv'
  OBVIOUS
<1> USE SubprocessAssumption, CommandAssumption
    DEF SubprocessAssumption, CommandAssumption, IInv, Terminate, Signal, Stopped, Goto,
        Environment, process, readers, result, command
<1>1. TypeOK'
  <2>1. signalled' \subseteq {"terminate", "kill"}
        /\ child' \in {"none", "running", "exited", "reaped"}
    BY DEF TypeOK, RunnerTypeOK
  <2>2. cleanup' \in [requested : BOOLEAN, reaped : BOOLEAN, drained : BOOLEAN]
    BY DEF TypeOK, RunnerTypeOK
  <2> QED
    BY <2>1, <2>2 DEF TypeOK, RunnerTypeOK, Cleaning
<1>2. Stages'
  BY DEF Stages, Before, Over, Unfinished, Cleaning
<1>3. Exits'
  BY DEF Exits, Unfinished
<1>4. StatusIsTrue'
  BY DEF StatusIsTrue, Cleaning, SubprocessStatuses
<1>5. Finished' /\ Conserved'
  BY DEF Finished, Conserved
<1>6. CleanupIsTrue'
  BY DEF CleanupIsTrue
<1>7. EffectIsTrue'
  BY DEF EffectIsTrue, Effects, Before, Over, Unfinished, Cleaning, SubprocessStatuses
<1>8. OutputIsWhole'
  BY DEF OutputIsWhole, CleanupSucceeded, Over, Unfinished, Cleaning
<1> QED
  BY <1>1, <1>2, <1>3, <1>4, <1>5, <1>6, <1>7, <1>8

LEMMA GracePreserves == IInv /\ Grace /\ UNCHANGED <<command, answer>> => IInv'
<1> SUFFICES ASSUME IInv, Grace, UNCHANGED <<command, answer>> PROVE IInv'
  OBVIOUS
<1> USE SubprocessAssumption, CommandAssumption
    DEF SubprocessAssumption, CommandAssumption, IInv, Grace, Reap, Stopped, Goto,
        Environment, process, readers, result, command
<1>1. TypeOK'
  <2>1. cleanup' \in [requested : BOOLEAN, reaped : BOOLEAN, drained : BOOLEAN]
    BY DEF TypeOK, RunnerTypeOK
  <2>2. child' \in {"none", "running", "exited", "reaped"}
    OBVIOUS
  <2> QED
    BY <2>1, <2>2 DEF TypeOK, RunnerTypeOK, Cleaning
<1>2. Stages'
  BY DEF Stages, Before, Over, Unfinished, Cleaning
<1>3. Exits'
  BY DEF Exits, Unfinished
<1>4. StatusIsTrue'
  BY DEF StatusIsTrue, Cleaning, SubprocessStatuses
<1>5. Finished' /\ Conserved'
  BY DEF Finished, Conserved
<1>6. CleanupIsTrue'
  BY DEF TypeOK, RunnerTypeOK, CleanupIsTrue
<1>7. EffectIsTrue'
  BY DEF EffectIsTrue, Effects, Before, Over, Unfinished, Cleaning, SubprocessStatuses
<1>8. OutputIsWhole'
  BY DEF Stages, OutputIsWhole, Over, Unfinished, Cleaning
<1> QED
  BY <1>1, <1>2, <1>3, <1>4, <1>5, <1>6, <1>7, <1>8

LEMMA KillPreserves == IInv /\ Kill /\ UNCHANGED <<command, answer>> => IInv'
<1> SUFFICES ASSUME IInv, Kill, UNCHANGED <<command, answer>> PROVE IInv'
  OBVIOUS
<1> USE SubprocessAssumption, CommandAssumption
    DEF SubprocessAssumption, CommandAssumption, IInv, Kill, Signal, Stopped, Goto,
        Environment, process, readers, result, command
<1>1. TypeOK'
  <2>1. signalled' \subseteq {"terminate", "kill"}
        /\ child' \in {"none", "running", "exited", "reaped"}
    BY DEF TypeOK, RunnerTypeOK
  <2> QED
    BY <2>1 DEF TypeOK, RunnerTypeOK, Cleaning
<1>2. Stages'
  BY DEF Stages, Before, Over, Unfinished, Cleaning
<1>3. Exits'
  BY DEF Exits, Unfinished
<1>4. StatusIsTrue'
  BY DEF StatusIsTrue, Cleaning, SubprocessStatuses
<1>5. Finished' /\ Conserved'
  BY DEF Finished, Conserved
<1>6. CleanupIsTrue'
  BY DEF CleanupIsTrue
<1>7. EffectIsTrue'
  BY DEF EffectIsTrue, Effects, Before, Over, Unfinished, Cleaning, SubprocessStatuses
<1>8. OutputIsWhole'
  BY DEF OutputIsWhole, CleanupSucceeded, Over, Unfinished, Cleaning
<1> QED
  BY <1>1, <1>2, <1>3, <1>4, <1>5, <1>6, <1>7, <1>8

LEMMA LastReapPreserves == IInv /\ LastReap /\ UNCHANGED <<command, answer>> => IInv'
<1> SUFFICES ASSUME IInv, LastReap, UNCHANGED <<command, answer>> PROVE IInv'
  OBVIOUS
<1> USE SubprocessAssumption, CommandAssumption
    DEF SubprocessAssumption, CommandAssumption, IInv, LastReap, Reap, Stopped, Goto,
        Environment, process, readers, result, command
<1>1. TypeOK'
  <2>1. cleanup' \in [requested : BOOLEAN, reaped : BOOLEAN, drained : BOOLEAN]
    BY DEF TypeOK, RunnerTypeOK
  <2>2. child' \in {"none", "running", "exited", "reaped"}
    OBVIOUS
  <2> QED
    BY <2>1, <2>2 DEF TypeOK, RunnerTypeOK, Cleaning
<1>2. Stages'
  BY DEF Stages, Before, Over, Unfinished, Cleaning
<1>3. Exits'
  BY DEF Exits, Unfinished
<1>4. StatusIsTrue'
  BY DEF StatusIsTrue, Cleaning, SubprocessStatuses
<1>5. Finished' /\ Conserved'
  BY DEF Finished, Conserved
<1>6. CleanupIsTrue'
  BY DEF TypeOK, RunnerTypeOK, CleanupIsTrue
<1>7. EffectIsTrue'
  BY DEF EffectIsTrue, Effects, Before, Over, Unfinished, Cleaning, SubprocessStatuses
<1>8. OutputIsWhole'
  BY DEF Stages, OutputIsWhole, Over, Unfinished, Cleaning
<1> QED
  BY <1>1, <1>2, <1>3, <1>4, <1>5, <1>6, <1>7, <1>8

LEMMA JoinPreserves == IInv /\ Join /\ UNCHANGED <<command, answer>> => IInv'
<1> SUFFICES ASSUME IInv, Join, UNCHANGED <<command, answer>> PROVE IInv'
  OBVIOUS
<1> USE SubprocessAssumption, CommandAssumption
    DEF SubprocessAssumption, CommandAssumption, IInv, Join, Stopped, Goto, Environment,
        process, readers, result, command
<1>1. TypeOK'
  <2>1. cleanup' \in [requested : BOOLEAN, reaped : BOOLEAN, drained : BOOLEAN]
    BY DEF TypeOK, RunnerTypeOK
  <2> QED
    BY <2>1 DEF TypeOK, RunnerTypeOK, Cleaning
<1>2. Stages'
  BY DEF Stages, Before, Over, Unfinished, Cleaning
<1>3. Exits'
  BY DEF Exits, Unfinished
<1>4. StatusIsTrue'
  BY DEF StatusIsTrue, Cleaning, SubprocessStatuses
<1>5. Finished' /\ Conserved'
  BY DEF Finished, Conserved
<1>6. CleanupIsTrue'
  BY DEF CleanupIsTrue
<1>7. EffectIsTrue'
  BY DEF EffectIsTrue, Effects, Before, Over, Unfinished, Cleaning, SubprocessStatuses
<1>8. OutputIsWhole'
  BY DEF Stages, OutputIsWhole, Over, Unfinished, Cleaning
<1> QED
  BY <1>1, <1>2, <1>3, <1>4, <1>5, <1>6, <1>7, <1>8

LEMMA RenderPreserves == IInv /\ Render /\ UNCHANGED <<command, answer>> => IInv'
<1> SUFFICES ASSUME IInv, Render, UNCHANGED <<command, answer>> PROVE IInv'
  OBVIOUS
<1> USE SubprocessAssumption, CommandAssumption
    DEF SubprocessAssumption, CommandAssumption, IInv, Render, Shown, Stopped, Goto,
        Environment, process, readers, result, command
<1>1. TypeOK'
  BY DEF TypeOK, RunnerTypeOK, SubprocessStatuses
<1>2. Stages'
  BY DEF Stages, Before, Over, Unfinished, Cleaning, SubprocessStatuses
<1>3. Exits'
  BY DEF Exits, Unfinished
<1>4. StatusIsTrue'
  BY DEF StatusIsTrue, Cleaning, SubprocessStatuses
<1>5. Finished' /\ Conserved'
  BY DEF Finished, Conserved
<1>6. CleanupIsTrue'
  BY DEF CleanupIsTrue
<1>7. EffectIsTrue'
  BY DEF EffectIsTrue, Effects, Before, Over, Unfinished, Cleaning, SubprocessStatuses
<1>8. OutputIsWhole'
  BY DEF TypeOK, RunnerTypeOK, Finished, Conserved, CleanupIsTrue, OutputIsWhole,
         CleanupSucceeded, Over, Unfinished, Cleaning
<1> QED
  BY <1>1, <1>2, <1>3, <1>4, <1>5, <1>6, <1>7, <1>8

----------------------------------------------------------------------------
(* The readers and the process tree *)

\* A collector keeps within its limit, and every byte unless it is marked.
LEMMA KeepTypes ==
    ASSUME TypeOK, NEW s \in Streams, NEW count \in Nat, Keep(s, count)
    PROVE  /\ kept' \in [Streams -> Nat] /\ cut' \in [Streams -> BOOLEAN]
           /\ \A t \in Streams : kept'[t] <= Limit[t]
           /\ \A t \in Streams \ {s} : kept'[t] = kept[t] /\ cut'[t] = cut[t]
           /\ cut'[s] \/ (~cut[s] /\ kept'[s] = kept[s] + count)
<1> DEFINE room == Limit[s] - kept[s]
           after == IF count > room THEN Limit[s] ELSE kept[s] + count
<1>1. /\ kept \in [Streams -> Nat] /\ cut \in [Streams -> BOOLEAN]
      /\ \A t \in Streams : kept[t] <= Limit[t]
      /\ Limit \in [Streams -> Nat]
  BY SubprocessAssumption DEF TypeOK, RunnerTypeOK, SubprocessAssumption
<1>2. /\ kept' = [kept EXCEPT ![s] = after]
      /\ cut' = [cut EXCEPT ![s] = cut[s] \/ count > room]
  BY DEF Keep
<1>3. after \in Nat /\ after <= Limit[s]
  BY <1>1
<1>4. (cut[s] \/ count > room) \in BOOLEAN
  OBVIOUS
<1>5. count > room \/ after = kept[s] + count
  OBVIOUS
<1> HIDE DEF after, room
<1>6. kept' \in [Streams -> Nat] /\ \A t \in Streams : kept'[t] <= Limit[t]
  BY <1>1, <1>2, <1>3
<1>7. cut' \in [Streams -> BOOLEAN]
  BY <1>1, <1>2, <1>4, Zenon
<1>8. \A t \in Streams \ {s} : kept'[t] = kept[t] /\ cut'[t] = cut[t]
  BY <1>1, <1>2
<1>9. (cut'[s] <=> cut[s] \/ count > room) /\ kept'[s] = after
  BY <1>1, <1>2
<1> QED
  BY <1>5, <1>6, <1>7, <1>8, <1>9

\* The byte is in the chunk that is not complete, or the chunk in the collector.
LEMMA TakeByteTypes ==
    ASSUME TypeOK, NEW s \in Streams, TakeByte(s)
    PROVE  /\ pipe' = [pipe EXCEPT ![s] = pipe[s] - 1] /\ pipe[s] > 0
           /\ held' \in [Streams -> 0 .. (Chunk - 1)]
           /\ kept' \in [Streams -> Nat] /\ cut' \in [Streams -> BOOLEAN]
           /\ \A t \in Streams : kept'[t] <= Limit[t]
           /\ \A t \in Streams \ {s} :
                held'[t] = held[t] /\ kept'[t] = kept[t] /\ cut'[t] = cut[t]
           /\ cut'[s] \/ (~cut[s] /\ kept'[s] + held'[s] = kept[s] + held[s] + 1)
<1>1. /\ kept \in [Streams -> Nat] /\ cut \in [Streams -> BOOLEAN]
      /\ held \in [Streams -> 0 .. (Chunk - 1)] /\ Chunk \in Nat \ {0}
      /\ \A t \in Streams : kept[t] <= Limit[t]
  BY SubprocessAssumption DEF TypeOK, RunnerTypeOK, SubprocessAssumption
<1>2. pipe' = [pipe EXCEPT ![s] = pipe[s] - 1] /\ pipe[s] > 0
  BY DEF TakeByte
<1>3. CASE held[s] + 1 = Chunk /\ held' = [held EXCEPT ![s] = 0] /\ Keep(s, Chunk)
  <2>1. held' \in [Streams -> 0 .. (Chunk - 1)] /\ held'[s] = 0
        /\ \A t \in Streams \ {s} : held'[t] = held[t]
    BY <1>1, <1>3
  <2>2. /\ kept' \in [Streams -> Nat] /\ cut' \in [Streams -> BOOLEAN]
        /\ \A t \in Streams : kept'[t] <= Limit[t]
        /\ \A t \in Streams \ {s} : kept'[t] = kept[t] /\ cut'[t] = cut[t]
        /\ cut'[s] \/ (~cut[s] /\ kept'[s] = kept[s] + Chunk)
    BY <1>1, <1>3, KeepTypes
  <2>3. kept'[s] = kept[s] + Chunk => kept'[s] + held'[s] = kept[s] + held[s] + 1
    BY <1>1, <1>3, <2>1
  <2> QED
    BY <1>2, <2>1, <2>2, <2>3
<1>4. CASE /\ held[s] + 1 # Chunk /\ held' = [held EXCEPT ![s] = held[s] + 1]
           /\ UNCHANGED <<kept, cut>>
  <2>1. held[s] + 1 \in 0 .. (Chunk - 1)
    BY <1>1, <1>4
  <2>2. held' \in [Streams -> 0 .. (Chunk - 1)] /\ held'[s] = held[s] + 1
        /\ \A t \in Streams \ {s} : held'[t] = held[t]
    BY <1>1, <1>4, <2>1
  <2>3. kept'[s] + held'[s] = kept[s] + held[s] + 1
    BY <1>1, <1>4, <2>2
  <2> QED
    BY <1>1, <1>2, <1>4, <2>2, <2>3
<1> QED
  BY <1>3, <1>4 DEF TakeByte

LEMMA TakeBytePreserves ==
    IInv /\ (\E s \in Streams : TakeByte(s)) /\ UNCHANGED <<command, answer>> => IInv'
<1> SUFFICES ASSUME IInv, NEW s \in Streams, TakeByte(s), UNCHANGED <<command, answer>> PROVE IInv'
  OBVIOUS
<1> USE SubprocessAssumption, CommandAssumption
    DEF SubprocessAssumption, CommandAssumption, IInv, TakeByte, Keep, Goto, Caller,
        process, readers, result, command
<1>1. TypeOK'
  <2>1. pipe' \in [Streams -> 0 .. Capacity]
    BY TakeByteTypes DEF TypeOK, RunnerTypeOK
  <2> HIDE DEF TakeByte
  <2>2. /\ held' \in [Streams -> 0 .. (Chunk - 1)]
        /\ kept' \in [Streams -> Nat] /\ cut' \in [Streams -> BOOLEAN]
        /\ \A t \in Streams : kept'[t] <= Limit[t]
    BY TakeByteTypes
  <2>3. UNCHANGED <<Caller, writers, written, reader>>
    BY DEF TakeByte
  <2> QED
    BY <2>1, <2>2, <2>3 DEF TypeOK, RunnerTypeOK
<1>2. Stages'
  BY DEF Stages
<1>3. Exits'
  BY DEF Exits
<1>4. StatusIsTrue'
  BY DEF StatusIsTrue, Cleaning, SubprocessStatuses
<1>5. Finished' /\ Conserved'
  <2>1. /\ pipe' = [pipe EXCEPT ![s] = pipe[s] - 1] /\ pipe[s] > 0
        /\ reader[s] = "reading" /\ UNCHANGED <<Caller, writers, written, reader>>
    OBVIOUS
  <2> HIDE DEF TakeByte
  <2>2. /\ \A t \in Streams \ {s} :
             held'[t] = held[t] /\ kept'[t] = kept[t] /\ cut'[t] = cut[t]
        /\ cut'[s] \/ (~cut[s] /\ kept'[s] + held'[s] = kept[s] + held[s] + 1)
        /\ kept' \in [Streams -> Nat] /\ held' \in [Streams -> 0 .. (Chunk - 1)]
    BY TakeByteTypes
  <2>3. /\ pipe \in [Streams -> 0 .. Capacity] /\ kept \in [Streams -> Nat]
        /\ written \in [Streams -> Nat] /\ held \in [Streams -> 0 .. (Chunk - 1)]
    BY DEF TypeOK, RunnerTypeOK
  <2>4. Finished'
    BY <2>1, <2>2, <2>3 DEF Finished
  <2>5. ASSUME NEW t \in Streams
        PROVE  cut'[t] \/ written'[t] = kept'[t] + held'[t] + pipe'[t]
    <3>1. CASE t = s
      <4>1. pipe'[s] = pipe[s] - 1 /\ written' = written
        BY <2>1, <2>3
      <4>2. cut[s] \/ written[s] = kept[s] + held[s] + pipe[s]
        BY DEF Conserved
      <4>3. /\ pipe[s] \in Nat /\ kept[s] \in Nat /\ written[s] \in Nat /\ held[s] \in Nat
            /\ kept'[s] \in Nat /\ held'[s] \in Nat
        BY <2>2, <2>3
      <4> QED
        BY <3>1, <4>1, <4>2, <4>3, <2>2
    <3>2. CASE t # s
      BY <3>2, <2>1, <2>2, <2>3 DEF Conserved
    <3> QED
      BY <3>1, <3>2
  <2> QED
    BY <2>4, <2>5 DEF Conserved
<1>6. CleanupIsTrue'
  BY DEF CleanupIsTrue
<1>7. EffectIsTrue'
  BY DEF EffectIsTrue, Effects, Before, Over, Unfinished, Cleaning, SubprocessStatuses
<1>8. OutputIsWhole'
  BY DEF OutputIsWhole, CleanupSucceeded, Over, Unfinished, Cleaning
<1> QED
  BY <1>1, <1>2, <1>3, <1>4, <1>5, <1>6, <1>7, <1>8

LEMMA EndOfStreamPreserves ==
    IInv /\ (\E s \in Streams : EndOfStream(s)) /\ UNCHANGED <<command, answer>> => IInv'
<1> SUFFICES ASSUME IInv, NEW s \in Streams, EndOfStream(s), UNCHANGED <<command, answer>> PROVE IInv'
  OBVIOUS
<1> USE SubprocessAssumption, CommandAssumption
    DEF SubprocessAssumption, CommandAssumption, IInv, EndOfStream, Goto, Caller,
        process, readers, result, command
<1>1. TypeOK'
  <2>1. held[s] \in Nat /\ held' \in [Streams -> 0 .. (Chunk - 1)]
    BY DEF TypeOK, RunnerTypeOK
  <2>2. /\ kept' \in [Streams -> Nat] /\ cut' \in [Streams -> BOOLEAN]
        /\ \A t \in Streams : kept'[t] <= Limit[t]
    BY <2>1, KeepTypes
  <2>3. reader' \in [Streams -> {"reading", "finished", "failed"}]
    BY DEF TypeOK, RunnerTypeOK
  <2> QED
    BY <2>1, <2>2, <2>3 DEF TypeOK, RunnerTypeOK
<1>2. Stages'
  BY DEF Stages
<1>3. Exits'
  BY DEF Exits
<1>4. StatusIsTrue'
  BY DEF StatusIsTrue, Cleaning, SubprocessStatuses
<1>5. Finished' /\ Conserved'
  <2>1. /\ reader[s] = "reading" /\ pipe[s] = 0 /\ writers[s] = {} /\ child # "none"
        /\ held' = [held EXCEPT ![s] = 0] /\ Keep(s, held[s])
        /\ reader' = [reader EXCEPT ![s] = "finished"]
        /\ UNCHANGED <<Caller, writers, written, pipe>>
    OBVIOUS
  <2>2. /\ kept \in [Streams -> Nat] /\ written \in [Streams -> Nat]
        /\ held \in [Streams -> 0 .. (Chunk - 1)] /\ pipe \in [Streams -> 0 .. Capacity]
        /\ reader \in [Streams -> {"reading", "finished", "failed"}]
        /\ child \in {"none", "running", "exited", "reaped"}
    BY DEF TypeOK, RunnerTypeOK
  <2>3. /\ \A t \in Streams \ {s} : kept'[t] = kept[t] /\ cut'[t] = cut[t]
        /\ cut'[s] \/ (~cut[s] /\ kept'[s] = kept[s] + held[s])
        /\ kept' \in [Streams -> Nat]
    <3>1. held[s] \in Nat
      BY <2>2
    <3> QED
      BY <2>1, <3>1, KeepTypes
  <2> HIDE DEF EndOfStream
  <2>4. Finished'
    <3>1. child \in {"exited", "reaped"}
      BY <2>1, <2>2 DEF Exits
    <3> QED
      BY <2>1, <2>2, <3>1 DEF Finished
  <2>5. Conserved'
    BY <2>1, <2>2, <2>3 DEF Conserved
  <2> QED
    BY <2>4, <2>5
<1>6. CleanupIsTrue'
  BY DEF CleanupIsTrue
<1>7. EffectIsTrue'
  BY DEF EffectIsTrue, Effects, Before, Over, Unfinished, Cleaning, SubprocessStatuses
<1>8. OutputIsWhole'
  BY DEF OutputIsWhole, CleanupSucceeded, Over, Unfinished, Cleaning
<1> QED
  BY <1>1, <1>2, <1>3, <1>4, <1>5, <1>6, <1>7, <1>8

LEMMA ReadFailsPreserves ==
    IInv /\ (\E s \in Streams : ReadFails(s)) /\ UNCHANGED <<command, answer>> => IInv'
<1> SUFFICES ASSUME IInv, NEW s \in Streams, ReadFails(s), UNCHANGED <<command, answer>> PROVE IInv'
  OBVIOUS
<1> USE SubprocessAssumption, CommandAssumption
    DEF SubprocessAssumption, CommandAssumption, IInv, ReadFails, Goto, Caller, process,
        readers, result, command
<1>1. TypeOK'
  BY DEF TypeOK, RunnerTypeOK
<1>2. Stages'
  BY DEF Stages
<1>3. Exits'
  BY DEF Exits
<1>4. StatusIsTrue'
  BY DEF StatusIsTrue, Cleaning, SubprocessStatuses
<1>5. Finished' /\ Conserved'
  BY DEF Finished, Conserved
<1>6. CleanupIsTrue'
  BY DEF CleanupIsTrue
<1>7. EffectIsTrue'
  BY DEF EffectIsTrue, Effects, Before, Over, Unfinished, Cleaning, SubprocessStatuses
<1>8. OutputIsWhole'
  BY DEF OutputIsWhole, CleanupSucceeded, Over, Unfinished, Cleaning
<1> QED
  BY <1>1, <1>2, <1>3, <1>4, <1>5, <1>6, <1>7, <1>8

LEMMA WritePreserves ==
    IInv /\ (\E s \in Streams : Write(s)) /\ UNCHANGED <<command, answer>> => IInv'
<1> SUFFICES ASSUME IInv, NEW s \in Streams, Write(s), UNCHANGED <<command, answer>> PROVE IInv'
  OBVIOUS
<1> USE SubprocessAssumption, CommandAssumption
    DEF SubprocessAssumption, CommandAssumption, IInv, Write, Goto, Caller, process,
        readers, result, command
<1>1. TypeOK'
  <2>1. pipe' \in [Streams -> 0 .. Capacity]
    BY DEF TypeOK, RunnerTypeOK
  <2>2. /\ written \in [Streams -> Nat] /\ \A t \in Streams : written[t] <= MaxWritten[t]
        /\ written' = [written EXCEPT ![s] = written[s] + 1] /\ written[s] < MaxWritten[s]
    BY DEF TypeOK, RunnerTypeOK
  <2> HIDE DEF Write
  <2>3. written' \in [Streams -> Nat]
    BY <2>2
  <2>4. ASSUME NEW t \in Streams
        PROVE  written'[t] <= MaxWritten[t]
    BY <2>2
  <2> QED
    BY <2>1, <2>3, <2>4 DEF TypeOK, RunnerTypeOK, Write
<1>2. Stages'
  BY DEF Stages
<1>3. Exits'
  BY DEF Exits
<1>4. StatusIsTrue'
  BY DEF StatusIsTrue, Cleaning, SubprocessStatuses
<1>5. Finished' /\ Conserved'
  BY DEF TypeOK, RunnerTypeOK, Finished, Conserved
<1>6. CleanupIsTrue'
  BY DEF CleanupIsTrue
<1>7. EffectIsTrue'
  BY DEF EffectIsTrue, Effects, Before, Over, Unfinished, Cleaning, SubprocessStatuses
<1>8. OutputIsWhole'
  BY DEF TypeOK, RunnerTypeOK, Finished, CleanupIsTrue, OutputIsWhole, CleanupSucceeded,
         Over, Unfinished, Cleaning
<1> QED
  BY <1>1, <1>2, <1>3, <1>4, <1>5, <1>6, <1>7, <1>8

LEMMA ForkPreserves == IInv /\ Fork /\ UNCHANGED <<command, answer>> => IInv'
<1> SUFFICES ASSUME IInv, Fork, UNCHANGED <<command, answer>> PROVE IInv'
  OBVIOUS
<1> USE SubprocessAssumption, CommandAssumption
    DEF SubprocessAssumption, CommandAssumption, IInv, Fork, Goto, Caller, process,
        readers, result, command
<1>1. TypeOK'
  BY DEF TypeOK, RunnerTypeOK
<1>2. Stages'
  BY DEF Stages
<1>3. Exits'
  BY DEF Exits
<1>4. StatusIsTrue'
  BY DEF StatusIsTrue, Cleaning, SubprocessStatuses
<1>5. Finished' /\ Conserved'
  BY DEF Finished, Conserved
<1>6. CleanupIsTrue'
  BY DEF CleanupIsTrue
<1>7. EffectIsTrue'
  BY DEF EffectIsTrue, Effects, Before, Over, Unfinished, Cleaning, SubprocessStatuses
<1>8. OutputIsWhole'
  BY DEF OutputIsWhole, CleanupSucceeded, Over, Unfinished, Cleaning
<1> QED
  BY <1>1, <1>2, <1>3, <1>4, <1>5, <1>6, <1>7, <1>8

LEMMA DescendantExitsPreserves == IInv /\ DescendantExits /\ UNCHANGED <<command, answer>> => IInv'
<1> SUFFICES ASSUME IInv, DescendantExits, UNCHANGED <<command, answer>> PROVE IInv'
  OBVIOUS
<1> USE SubprocessAssumption, CommandAssumption
    DEF SubprocessAssumption, CommandAssumption, IInv, DescendantExits, Goto, Caller,
        process, readers, result, command
<1>1. TypeOK'
  BY DEF TypeOK, RunnerTypeOK
<1>2. Stages'
  BY DEF Stages
<1>3. Exits'
  BY DEF Exits
<1>4. StatusIsTrue'
  BY DEF StatusIsTrue, Cleaning, SubprocessStatuses
<1>5. Finished' /\ Conserved'
  BY DEF Finished, Conserved
<1>6. CleanupIsTrue'
  BY DEF CleanupIsTrue
<1>7. EffectIsTrue'
  BY DEF EffectIsTrue, Effects, Before, Over, Unfinished, Cleaning, SubprocessStatuses
<1>8. OutputIsWhole'
  BY DEF OutputIsWhole, CleanupSucceeded, Over, Unfinished, Cleaning
<1> QED
  BY <1>1, <1>2, <1>3, <1>4, <1>5, <1>6, <1>7, <1>8

LEMMA ChildExitsPreserves == IInv /\ ChildExits /\ UNCHANGED <<command, answer>> => IInv'
<1> SUFFICES ASSUME IInv, ChildExits, UNCHANGED <<command, answer>> PROVE IInv'
  OBVIOUS
<1> USE SubprocessAssumption, CommandAssumption
    DEF SubprocessAssumption, CommandAssumption, IInv, ChildExits, Codes, Goto, Caller,
        process, readers, result, command
<1>1. TypeOK'
  BY DEF TypeOK, RunnerTypeOK
<1>2. Stages'
  BY DEF Stages
<1>3. Exits'
  BY DEF Stages, Exits
<1>4. StatusIsTrue'
  BY DEF StatusIsTrue, Cleaning, SubprocessStatuses
<1>5. Finished' /\ Conserved'
  BY DEF Finished, Conserved
<1>6. CleanupIsTrue'
  BY DEF CleanupIsTrue
<1>7. EffectIsTrue'
  BY DEF EffectIsTrue, Effects, Before, Over, Unfinished, Cleaning, SubprocessStatuses
<1>8. OutputIsWhole'
  BY DEF OutputIsWhole, CleanupSucceeded, Over, Unfinished, Cleaning
<1> QED
  BY <1>1, <1>2, <1>3, <1>4, <1>5, <1>6, <1>7, <1>8

LEMMA StopRunPreserves == IInv /\ StopRun /\ UNCHANGED <<command, answer>> => IInv'
<1> SUFFICES ASSUME IInv, StopRun, UNCHANGED <<command, answer>> PROVE IInv'
  OBVIOUS
<1> USE SubprocessAssumption, CommandAssumption
    DEF SubprocessAssumption, CommandAssumption, IInv, StopRun, NotTimed, process,
        readers, result, command
<1>1. TypeOK'
  BY DEF TypeOK, RunnerTypeOK
<1>2. Stages'
  BY DEF Stages
<1>3. Exits'
  BY DEF Exits
<1>4. StatusIsTrue'
  BY DEF StatusIsTrue, Cleaning, SubprocessStatuses
<1>5. Finished' /\ Conserved'
  BY DEF Finished, Conserved
<1>6. CleanupIsTrue'
  BY DEF CleanupIsTrue
<1>7. EffectIsTrue'
  BY DEF EffectIsTrue, Effects, Before, Over, Unfinished, Cleaning, SubprocessStatuses
<1>8. OutputIsWhole'
  BY DEF OutputIsWhole, CleanupSucceeded, Over, Unfinished, Cleaning
<1> QED
  BY <1>1, <1>2, <1>3, <1>4, <1>5, <1>6, <1>7, <1>8

LEMMA TimeoutPassesPreserves == IInv /\ TimeoutPasses /\ UNCHANGED <<command, answer>> => IInv'
<1> SUFFICES ASSUME IInv, TimeoutPasses, UNCHANGED <<command, answer>> PROVE IInv'
  OBVIOUS
<1> USE SubprocessAssumption, CommandAssumption
    DEF SubprocessAssumption, CommandAssumption, IInv, TimeoutPasses, NotTimed, process,
        readers, result, command
<1>1. TypeOK'
  BY DEF TypeOK, RunnerTypeOK
<1>2. Stages'
  BY DEF Stages
<1>3. Exits'
  BY DEF Exits
<1>4. StatusIsTrue'
  BY DEF StatusIsTrue, Cleaning, SubprocessStatuses
<1>5. Finished' /\ Conserved'
  BY DEF Finished, Conserved
<1>6. CleanupIsTrue'
  BY DEF CleanupIsTrue
<1>7. EffectIsTrue'
  BY DEF EffectIsTrue, Effects, Before, Over, Unfinished, Cleaning, SubprocessStatuses
<1>8. OutputIsWhole'
  BY DEF OutputIsWhole, CleanupSucceeded, Over, Unfinished, Cleaning
<1> QED
  BY <1>1, <1>2, <1>3, <1>4, <1>5, <1>6, <1>7, <1>8

LEMMA CleanupTimePassesPreserves == IInv /\ CleanupTimePasses /\ UNCHANGED <<command, answer>> => IInv'
<1> SUFFICES ASSUME IInv, CleanupTimePasses, UNCHANGED <<command, answer>> PROVE IInv'
  OBVIOUS
<1> USE SubprocessAssumption, CommandAssumption
    DEF SubprocessAssumption, CommandAssumption, IInv, CleanupTimePasses, NotTimed,
        process, readers, result, command
<1>1. TypeOK'
  BY DEF TypeOK, RunnerTypeOK
<1>2. Stages'
  BY DEF Stages
<1>3. Exits'
  BY DEF Exits
<1>4. StatusIsTrue'
  BY DEF StatusIsTrue, Cleaning, SubprocessStatuses
<1>5. Finished' /\ Conserved'
  BY DEF Finished, Conserved
<1>6. CleanupIsTrue'
  BY DEF CleanupIsTrue
<1>7. EffectIsTrue'
  BY DEF EffectIsTrue, Effects, Before, Over, Unfinished, Cleaning, SubprocessStatuses
<1>8. OutputIsWhole'
  BY DEF OutputIsWhole, CleanupSucceeded, Over, Unfinished, Cleaning
<1> QED
  BY <1>1, <1>2, <1>3, <1>4, <1>5, <1>6, <1>7, <1>8

----------------------------------------------------------------------------
(* The tool around the runner *)

LEMMA PreparePreserves == IInv /\ Prepare => IInv'
<1> SUFFICES ASSUME IInv, Prepare PROVE IInv'
  OBVIOUS
<1> USE SubprocessAssumption, CommandAssumption
    DEF SubprocessAssumption, CommandAssumption, IInv, Prepare, Allowed, CwdAccepted,
        Unspawned, Stopped, Goto, Answer, process, readers, result, command, vars,
        Errors, Directories, NoAnswer
<1>1. TypeOK'
  BY DEF TypeOK, RunnerTypeOK
<1>2. Stages'
  BY DEF Stages, Before, Over, Cleaning
<1>3. Exits'
  BY DEF Exits, Unfinished
<1>4. StatusIsTrue'
  BY DEF StatusIsTrue, Cleaning, SubprocessStatuses
<1>5. Finished' /\ Conserved'
  BY DEF Finished, Conserved
<1>6. CleanupIsTrue'
  BY DEF CleanupIsTrue
<1>7. EffectIsTrue'
  BY DEF EffectIsTrue, Effects, Before, Over, Unfinished, Cleaning, SubprocessStatuses
<1>8. OutputIsWhole'
  BY DEF OutputIsWhole, CleanupSucceeded, Over, Unfinished, Cleaning
<1> QED
  BY <1>1, <1>2, <1>3, <1>4, <1>5, <1>6, <1>7, <1>8

LEMMA ExecutePreserves == IInv /\ Execute => IInv'
<1> SUFFICES ASSUME IInv, Execute PROVE IInv'
  OBVIOUS
<1> USE SubprocessAssumption, CommandAssumption
    DEF SubprocessAssumption, CommandAssumption, IInv, Execute, CwdAccepted, Unspawned,
        Stopped, Goto, Answer, process, readers, result, command, vars, Errors,
        Directories, NoAnswer
<1>1. TypeOK'
  <2>1. answer' \in [code : Errors \cup {None, "ok", "control"}, effect : Effects \cup {None}]
    BY DEF Stages, Effects
  <2>2. RunnerTypeOK'
    BY DEF TypeOK, RunnerTypeOK
  <2> QED
    BY <2>1, <2>2 DEF TypeOK
<1>2. Stages'
  BY DEF Stages, Before, Over, Cleaning
<1>3. Exits'
  BY DEF Exits, Unfinished
<1>4. StatusIsTrue'
  BY DEF StatusIsTrue, Cleaning, SubprocessStatuses
<1>5. Finished' /\ Conserved'
  BY DEF Finished, Conserved
<1>6. CleanupIsTrue'
  BY DEF CleanupIsTrue
<1>7. EffectIsTrue'
  BY DEF Stages, EffectIsTrue, Effects, Before, Over, Unfinished, Cleaning,
         SubprocessStatuses
<1>8. OutputIsWhole'
  BY DEF OutputIsWhole, CleanupSucceeded, Over, Unfinished, Cleaning
<1> QED
  BY <1>1, <1>2, <1>3, <1>4, <1>5, <1>6, <1>7, <1>8

LEMMA ConcludePreserves == IInv /\ Conclude => IInv'
<1> SUFFICES ASSUME IInv, Conclude PROVE IInv'
  OBVIOUS
<1> USE SubprocessAssumption, CommandAssumption
    DEF SubprocessAssumption, CommandAssumption, IInv, Conclude, Outcome,
        CleanupSucceeded, Unspawned, Stopped, Goto, Answer, process, readers, result,
        command, vars, Errors, Directories, NoAnswer
<1>1. TypeOK'
  <2>1. answer' \in [code : Errors \cup {None, "ok", "control"}, effect : Effects \cup {None}]
    BY DEF Stages, Effects, SubprocessStatuses
  <2>2. RunnerTypeOK'
    BY DEF TypeOK, RunnerTypeOK
  <2> QED
    BY <2>1, <2>2 DEF TypeOK
<1>2. Stages'
  BY DEF Stages, Before, Over, Unfinished
<1>3. Exits'
  BY DEF Exits, Unfinished
<1>4. StatusIsTrue'
  BY DEF StatusIsTrue, Cleaning, SubprocessStatuses
<1>5. Finished' /\ Conserved'
  BY DEF Finished, Conserved
<1>6. CleanupIsTrue'
  BY DEF CleanupIsTrue
<1>7. EffectIsTrue'
  BY DEF Stages, StatusIsTrue, Finished, EffectIsTrue, Effects, Before, Over,
         Unfinished, Cleaning, SubprocessStatuses
<1>8. OutputIsWhole'
  BY DEF OutputIsWhole, Over, Unfinished, Cleaning
<1> QED
  BY <1>1, <1>2, <1>3, <1>4, <1>5, <1>6, <1>7, <1>8

LEMMA CwdChangesPreserves == IInv /\ CwdChanges => IInv'
<1> SUFFICES ASSUME IInv, CwdChanges PROVE IInv'
  OBVIOUS
<1> USE SubprocessAssumption, CommandAssumption
    DEF SubprocessAssumption, CommandAssumption, IInv, CwdChanges, Unspawned, Stopped,
        Goto, Answer, process, readers, result, command, vars, Errors, Directories,
        NoAnswer
<1>1. TypeOK'
  BY DEF TypeOK, RunnerTypeOK
<1>2. Stages'
  BY DEF Stages
<1>3. Exits'
  BY DEF Exits
<1>4. StatusIsTrue'
  BY DEF StatusIsTrue, Cleaning, SubprocessStatuses
<1>5. Finished' /\ Conserved'
  BY DEF Finished, Conserved
<1>6. CleanupIsTrue'
  BY DEF CleanupIsTrue
<1>7. EffectIsTrue'
  BY DEF EffectIsTrue, Effects, Before, Over, Unfinished, Cleaning, SubprocessStatuses
<1>8. OutputIsWhole'
  BY DEF OutputIsWhole, CleanupSucceeded, Over, Unfinished, Cleaning
<1> QED
  BY <1>1, <1>2, <1>3, <1>4, <1>5, <1>6, <1>7, <1>8

LEMMA StutterPreserves == IInv /\ UNCHANGED allVars => IInv'
<1> SUFFICES ASSUME IInv, UNCHANGED allVars PROVE IInv'
  OBVIOUS
<1> USE DEF IInv, allVars, vars, command, process, readers, result
<1>1. TypeOK' /\ Stages'
  BY DEF TypeOK, RunnerTypeOK, Stages
<1>2. Exits' /\ StatusIsTrue' /\ Finished' /\ Conserved' /\ CleanupIsTrue'
  BY DEF Exits, StatusIsTrue, Finished, Conserved, CleanupIsTrue
<1>3. EffectIsTrue' /\ OutputIsWhole'
  BY DEF EffectIsTrue, OutputIsWhole, CleanupSucceeded
<1> QED
  BY <1>1, <1>2, <1>3

----------------------------------------------------------------------------
(* The theorems *)

\* The parts hold together in every state of every command.
THEOREM Inductive == Spec => []IInv
<1>1. IInv /\ Tool => IInv'
  BY PreparePreserves, ExecutePreserves, ConcludePreserves DEF Tool
<1>2. IInv /\ Runner /\ UNCHANGED <<command, answer>> => IInv'
  BY RefusedBeforeSpawnPreserves, SpawnPreserves, SpawnedThenRaisedPreserves,
     CheckControlPreserves, PollPreserves, LateControlPreserves, CheckClockPreserves,
     TerminatePreserves, GracePreserves, KillPreserves, LastReapPreserves,
     JoinPreserves, RenderPreserves
     DEF Runner
<1>3. IInv /\ (\E s \in Streams : Reader(s)) /\ UNCHANGED <<command, answer>> => IInv'
  BY TakeBytePreserves, EndOfStreamPreserves DEF Reader
<1>4. IInv /\ World /\ UNCHANGED <<command, answer>> => IInv'
  BY ReadFailsPreserves, WritePreserves, ForkPreserves, DescendantExitsPreserves,
     ChildExitsPreserves, StopRunPreserves
     DEF World
<1>5. IInv /\ Time /\ UNCHANGED <<command, answer>> => IInv'
  BY TimeoutPassesPreserves, CleanupTimePassesPreserves DEF Time
<1>6. IInv /\ [Next]_allVars => IInv'
  BY <1>1, <1>2, <1>3, <1>4, <1>5, CwdChangesPreserves, StutterPreserves DEF Next, Done
<1> QED
  BY <1>6, Initially, PTL DEF Spec

\* A chunk never overfills a collector, a writer never a pipe, and every part
\* of the result keeps its type.
THEOREM TypeCorrect == Spec => []TypeOK
<1>1. IInv => TypeOK
  BY DEF IInv
<1> QED
  BY <1>1, Inductive, PTL

\* An exit code, a clean cleanup and an effect are reported only of a child
\* that ended that way, however its end races the timeout, the stop and the
\* signals.
THEOREM ResultIsHonest == Spec => []HonestResult
<1>1. IInv => HonestResult
  BY DEF IInv, HonestResult, Exits, ExitIsTheChilds, CleanIsReaped, CleanupIsTrue,
         CleanupSucceeded
<1> QED
  BY <1>1, Inductive, PTL

\* For every capacity, chunk and limit, a stream of a clean result shows every
\* byte that was written to it or is marked truncated.
THEOREM OutputIsKept == Spec => []OutputIsWhole
<1>1. IInv => OutputIsWhole
  BY DEF IInv
<1> QED
  BY <1>1, Inductive, PTL
=============================================================================
