----------------------------- MODULE CommandProofs -----------------------------
(***************************************************************************)
(* What the commands guarantee that run as long as a sandbox does: the     *)
(* session that starts, ends and restores a stack of targets               *)
(* (RuntimeSession), and the measurement that counts rows in one of them   *)
(* while others change files, receipts and containers (MigrationImpact).   *)
(*                                                                         *)
(* For the session, of every stack of targets, every project and any       *)
(* number of interruptions, the invariant has a part for each thing that   *)
(* outlives a step: the manager that is running, the errors on their way   *)
(* to the command's end, the interruptions, the application, and the       *)
(* targets with a receipt.  The outcome is a function of the error and of  *)
(* the cancellation, so the parts speak of those, and the properties of    *)
(* the outcome follow.                                                     *)
(*                                                                         *)
(* For the measurement, of any directories, histories and acts of others,  *)
(* receipts, retirements and containers have numbers that only grow: what  *)
(* has the number of the first look at the last was never exchanged, and   *)
(* so it was the same when the snapshot was taken.  What is counted then   *)
(* stands under the names of the plan because their tables are locked and  *)
(* so are the schemas they are in: the numbers that the queries return are *)
(* those of the rows that the statements would meet.                       *)
(***************************************************************************)
EXTENDS RuntimeSession, MigrationImpact, FiniteSetTheorems, TLAPS

Phases == {"guard", "working", "changed", "failing", "finished"}

Levels == {"absent", "stopped", "running"}

Jobs ==
  [of : {"manager", "command"}, action : Actions \cup {"prove"},
   target : Targets, phase : Phases, before : Levels]

\* Where a command goes on as long as nothing is thrown.
Going == {"begin", "admit", "check", "execute", "prepare", "prove", "launch",
          "ready", "handoff", "attach", "hold"}

\* Where only a command with an application comes.
Hosting == {"launch", "ready", "handoff", "attach", "hold", "halt", "policy",
            "prove"}

\* Where a stack of targets is executed.
Stacking == {"admit", "check", "execute", "cleanup", "leave", "return"}

Stages == Going \cup Hosting \cup Stacking \cup {"end"}

Errors == {"none", "failed", "cancelled", "incomplete"}

WorldOK ==
  /\ config \in [project : DOMAIN Projects, command : Commands,
                 mode : {"keep", "stop", "discard"}, protected : SUBSET Targets,
                 readiness : BOOLEAN]
  /\ runtime \in [Targets -> Levels] /\ wiped \subseteq Targets
  /\ child = NoChild \/ child \in Children(Jobs)
  /\ aborted \in BOOLEAN /\ signals \in Nat /\ outcome \in Errors \cup {"ok"}

ProgramOK ==
  /\ stage \in Stages /\ frame \in {"main", "verify", "policy"}
  /\ todo \subseteq Targets /\ done \subseteq Targets /\ receipted \subseteq Targets

ErrorsOK == error \in Errors /\ held \in Errors

FlagsOK ==
  /\ admitted \in BOOLEAN /\ missed \in BOOLEAN /\ shielded \in BOOLEAN
  /\ lost \in BOOLEAN /\ ticketLost \in BOOLEAN

InputOK ==
  /\ group \in {"none", "leader", "orphans", "gone"}
  /\ stopping \in {"no", "term", "kill", "done", "stuck"}
  /\ closing \in {"no", "startup", "session"}
  /\ listener \in {"none", "command", "startup", "session"}
  /\ mishap \in {"none", "fault", "residue"}

TypeOK == WorldOK /\ ProgramOK /\ ErrorsOK /\ FlagsOK /\ InputOK

Down(t) == runtime[t] # "running"

\* What is asked of the manager of the current target.
Asked == IF stage = "cleanup" THEN Completion ELSE Work

\* The completion of the command is on its way.
Completing == frame = "policy" /\ stage # "end"

\* The process belongs to the stage; it was started for a target that is not
\* protected from it, and it succeeds only when it has done what was asked.
Process ==
  Running =>
    /\ stage \in {"execute", "cleanup", "prepare", "prove"}
    /\ stage \in {"execute", "cleanup"} =>
         child.job.of = "manager" /\ child.job.action = Asked /\ child.job.target \in todo
    /\ stage \in {"prepare", "prove"} => child.job.of = "command"
    /\ child.alive <=> child.status = "none"
    /\ child.job.of = "manager" =>
         /\ child.status = "ok" => child.job.phase = "finished"
         /\ child.job.phase = "failing" => child.job.action \in Undoable
         /\ child.job.phase # "guard" /\ child.job.action \in Destructive =>
              child.job.target \notin config.protected
         /\ child.job.phase \in {"changed", "finished"} /\ child.job.action \in Ending =>
              Down(child.job.target)

\* A process is told to end by the cancellation, if it is bound to it, or
\* because it wrote too much; otherwise its failure is a mishap.
Telling ==
  Running =>
    /\ shielded => ~child.bound
    /\ child.told => child.flooded \/ child.bound
    /\ child.flooded => mishap # "none"
    /\ child.status = "failed" \/ child.job.phase = "failing" =>
         mishap # "none" \/ child.bound

\* A command gets beyond its beginning only with a stack that loads, and data
\* is replaced or removed only where no protection stands against it.
Protection ==
  /\ stage \notin {"begin", "end"} => Loads
  /\ ProtectedDataKept

\* Where errors are, and what they stand for.
Failures ==
  /\ stage \in Going => error = "none"
  /\ stage = "cleanup" => error # "none"
  /\ error = "incomplete" \/ held = "incomplete" \/ missed => mishap # "none"
  /\ Completing /\ error # "none" => mishap # "none"
  /\ lost => \/ stopping = "stuck" \/ error = "incomplete"
             \/ Completing /\ held = "incomplete"
             \/ stage = "cleanup" /\ missed

\* Which stages belong to which stack, and what is shielded.
Stacks ==
  /\ stage = "begin" => frame = "main"
  /\ frame = "verify" => Attended
  /\ frame = "policy" => stage \in Stacking \cup {"end"} /\ Attended /\ Completion # "none"
  /\ Completing => shielded
  /\ stage = "cleanup" => frame = "main" /\ shielded /\ Completion # "none"
  /\ stage \in Hosting => Attended

\* One signal has one addressee, and the error tells which.
Signals ==
  /\ signals = 0 => ~aborted /\ closing = "no"
  /\ signals <= 1 =>
       /\ ~aborted \/ closing = "no"
       /\ error = "cancelled" \/ held = "cancelled" => aborted \/ closing = "startup"
       /\ closing = "startup" =>
            stage = "ready" \/ error # "none" \/ (Completing /\ held # "none")
  /\ CanCancel /\ outcome = "none" => listener # "none"
  /\ listener = "startup" => stage = "ready" \/ (stage = "halt" /\ error # "none")
  /\ listener = "session" => stage \in {"hold", "halt"}

\* The application is gone, or it is reported as the error e that it is not.
Retired(e) == group \in {"none", "gone"} \/ (stopping = "stuck" /\ e # "none")

Application ==
  /\ stage \in {"begin", "prepare", "launch"} \cup Stacking /\ frame # "policy" =>
       group = "none"
  /\ stage \in {"ready", "handoff", "attach", "hold", "halt"} => group # "none"
  /\ group = "none" => stopping = "no"
  /\ stopping = "done" => group = "gone"
  /\ stage \in {"policy", "end"} => Retired(error)
  /\ Completing => Retired(held)

\* What has been taken down stays down, and what was not is on record.
Receipts ==
  /\ frame = "main" /\ stage \in {"begin", "admit", "check"} => receipted = {}
  /\ frame = "main" /\ stage = "execute" => receipted = done
  /\ stage = "execute" /\ Work \in Ending => \A t \in Targets \ todo : Down(t)
  /\ stage = "execute" /\ Work \in Ending /\ Running =>
       \A t \in todo : t <= child.job.target
  /\ stage = "cleanup" => missed \/ \A t \in receipted \ todo : Down(t)
  /\ frame = "policy" /\ stage \in {"leave", "return"} /\ error = "none" =>
       \A t \in Targets : Down(t)
  /\ Bounded /\ ~ticketLost /\ stage \in {"leave", "return"} /\ frame = "main"
       /\ error # "none" => missed \/ \A t \in receipted : Down(t)
  /\ Bounded /\ ~ticketLost /\ stage = "end" =>
       (missed /\ error # "none") \/ \A t \in receipted : Down(t)

Verdict ==
  CASE aborted /\ error # "incomplete" -> "cancelled"
    [] ~aborted /\ error = "none" -> "ok"
    [] OTHER -> error

\* The command is over when its outcome is said.
Conclusion == outcome # "none" => stage = "end" /\ outcome = Verdict

Inv == /\ TypeOK /\ Process /\ Telling /\ Protection /\ Failures /\ Stacks
       /\ Signals /\ Application /\ Receipts /\ Conclusion

-----------------------------------------------------------------------------
(* What the parts speak of.                                                *)

\* No process is not a process.
LEMMA NobodyIsNoChild == \A c \in Children(Jobs) : c # NoChild
BY DEF Children, NoChild

\* What depends on the configuration and the stack alone.
LEMMA Fixed ==
  ASSUME UNCHANGED config
  PROVE  /\ Completion' = Completion /\ (Attended <=> Attended')
         /\ (CanCancel <=> CanCancel') /\ (Loads <=> Loads')
         /\ (Bounded <=> Bounded')
         /\ frame' = frame => Work' = Work
BY DEF Completion, Attended, CanCancel, Loads, Bounded, Work

\* What a stack asks of its managers.
LEMMA Asking ==
  ASSUME TypeOK
  PROVE  /\ Completion \in {"none", "stop", "discard"}
         /\ Attended => CanCancel
         /\ frame = "policy" => Work = Completion
         /\ frame = "verify" => Work = "verify"
         /\ frame = "main" => Work \in Actions
         /\ frame = "main" /\ Attended => Work \in {"run", "start"}
         /\ CleansUp <=> Work \in {"run", "start"} /\ frame = "main" /\ Completion # "none"
<1>1. config.command \in Actions \cup {"open"}
  BY SessionAssumption DEF TypeOK, WorldOK, Actions
<1>2. config.mode \in {"keep", "stop", "discard"}
  BY DEF TypeOK, WorldOK
<1>3. Completion \in {"none", "stop", "discard"}
  BY <1>2 DEF Completion
<1>4. Attended => CanCancel
  BY DEF Attended, CanCancel, Cancellable
<1>5. /\ frame = "policy" => Work = Completion
      /\ frame = "verify" => Work = "verify"
      /\ frame = "main" => Work = IF config.command = "open" THEN "start"
                                                           ELSE config.command
  BY DEF Work
<1> QED BY <1>1, <1>3, <1>4, <1>5 DEF Attended, CleansUp, Actions

\* A set of numbers has a least.
LEMMA LeastIsMember ==
  ASSUME NEW S \in SUBSET Nat, S # {}
  PROVE  \E n \in S : \A m \in S : n <= m
<1> DEFINE below == {0 .. n : n \in S}
<1>1. below \subseteq FiniteSubsetsOf(Nat) /\ below # {}
  <2>1. \A n \in S : 0 .. n \in SUBSET Nat /\ IsFiniteSet(0 .. n)
    BY FS_Interval, SMT
  <2> QED BY <2>1 DEF FiniteSubsetsOf
<1>2. PICK b \in below : \A c \in below : <<c, b>> \notin StrictSubsetOrdering(Nat)
  BY <1>1, FS_StrictSubsetOrderingWellFounded, WFMin, Zenon
<1>3. PICK n \in S : b = 0 .. n
  BY <1>2
<1>4. ASSUME NEW m \in S, m < n PROVE FALSE
  <2>1. 0 .. m \in SUBSET Nat /\ 0 .. n \in SUBSET Nat
    BY SMT
  <2>2. n \in 0 .. n /\ n \notin 0 .. m /\ 0 .. m \subseteq 0 .. n
    BY <1>4, SMT
  <2>3. <<0 .. m, b>> \in StrictSubsetOrdering(Nat)
    BY <1>3, <2>1, <2>2, SMT DEF StrictSubsetOrdering
  <2> QED BY <1>2, <2>3
<1> QED BY <1>4

\* The first and the last of a set of targets.
LEMMA Extremes ==
  ASSUME NEW S \in SUBSET Targets, S # {}
  PROVE  First(S) \in S /\ Final(S) \in S /\ \A u \in S : u <= Final(S)
<1>1. S \subseteq Nat /\ Size \in Nat
  BY SessionAssumption DEF Targets
<1>2. PICK low \in S : \A u \in S : low <= u
  BY <1>1, LeastIsMember
<1>3. PICK high \in S : \A u \in S : u <= high
  <2> DEFINE above == {Size - u : u \in S}
  <2>1. above \in SUBSET Nat /\ above # {}
    BY <1>1 DEF Targets
  <2>2. PICK d \in above : \A e \in above : d <= e
    BY <2>1, LeastIsMember
  <2>3. PICK t \in S : d = Size - t
    BY <2>2
  <2>4. \A u \in S : Size - t <= Size - u
    BY <2>2, <2>3
  <2>5. ASSUME NEW u \in S PROVE u <= t
    <3>1. u \in Nat /\ t \in Nat /\ Size - t <= Size - u
      BY <1>1, <2>4
    <3> QED BY <1>1, <3>1
  <2> QED BY <2>5
<1> QED BY <1>1, <1>2, <1>3 DEF First, Final

-----------------------------------------------------------------------------
(* What the process does.                                                  *)

\* A step of the process for whose end the command waits changes the runtime
\* of its own target at most.
LEMMA ProcessKeeps ==
  ASSUME Inv, Running, Quiet,
         child' \in Children(Jobs), child'.job.target = child.job.target,
         runtime' \in [Targets -> Levels],
         \A t \in Targets :
           child.job.of = "command" \/ t # child.job.target => runtime'[t] = runtime[t],
         wiped' = wiped \/ (wiped' = wiped \cup {child.job.target}
                            /\ child.job.target \notin config.protected),
         mishap' \in {"none", "fault", "residue"}, mishap # "none" => mishap' # "none",
         Process', Telling'
  PROVE  Inv'
<1> USE DEF Inv, Quiet, program, verdict, input
<1>1. child \in Children(Jobs) /\ child.job.target \in Targets
  BY DEF TypeOK, WorldOK, ProgramOK, Running, Children, Jobs
<1>2. TypeOK'
  BY <1>1 DEF TypeOK, WorldOK, ProgramOK, ErrorsOK, FlagsOK, InputOK
<1>3. /\ Completion' = Completion /\ (Attended <=> Attended') /\ (CanCancel <=> CanCancel')
      /\ (Loads <=> Loads') /\ (Bounded <=> Bounded') /\ Work' = Work
  BY Fixed
<1>4. stage \in {"execute", "cleanup", "prepare", "prove"}
  BY DEF Process
<1>5. Protection'
  BY <1>3, <1>4 DEF Protection, ProtectedDataKept
<1>6. Failures' /\ Stacks' /\ Signals'
  BY <1>3 DEF Failures, Stacks, Signals, Completing
<1>7. Application'
  BY DEF Application, Completing, Retired
<1>8. Running'
  BY NobodyIsNoChild DEF Running
<1>9. Receipts'
  BY <1>1, <1>3, <1>4, <1>8 DEF Receipts, Process, Down, TypeOK, WorldOK, ProgramOK
<1>10. Conclusion'
  BY DEF Conclusion, Verdict
<1> QED BY <1>2, <1>5, <1>6, <1>7, <1>9, <1>10

\* The same of a step that leaves the targets alone.
LEMMA QuietProcessKeeps ==
  ASSUME Inv, Running, Quiet, UNCHANGED world,
         child' \in Children(Jobs), child'.job.target = child.job.target,
         mishap' \in {"none", "fault", "residue"}, mishap # "none" => mishap' # "none",
         Process', Telling'
  PROVE  Inv'
BY ProcessKeeps DEF Inv, TypeOK, WorldOK, world

\* Something failed, and that is on record.
LEMMA WorseIsWorse ==
  ASSUME TypeOK, NEW m \in {"fault", "residue"}, Worse(m)
  PROVE  mishap' \in {"fault", "residue"}
BY DEF TypeOK, Worse

\* The phase of a manager, and the end of a process.
LEMMA Phased ==
  ASSUME Inv, Running, NEW p \in Phases, Phase(p)
  PROVE  /\ child' \in Children(Jobs) /\ child'.job.phase = p
         /\ child'.job.of = child.job.of /\ child'.job.action = child.job.action
         /\ child'.job.target = child.job.target /\ child'.job.before = child.job.before
         /\ child'.alive = child.alive /\ child'.piped = child.piped
         /\ child'.bound = child.bound /\ child'.told = child.told
         /\ child'.flooded = child.flooded /\ child'.status = child.status
BY DEF Inv, TypeOK, WorldOK, Running, Phase, Children, Jobs

LEMMA Stopped ==
  ASSUME Inv, Running, NEW s \in {"ok", "failed"}, child' = Exited(child, s)
  PROVE  /\ child' \in Children(Jobs) /\ child'.job = child.job
         /\ ~child'.alive /\ child'.piped = child.piped
         /\ child'.bound = child.bound /\ child'.told = child.told
         /\ child'.flooded = child.flooded /\ child'.status = s
BY DEF Inv, TypeOK, WorldOK, Running, Exited, Children

\* What the invariant says of the process that runs.
LEMMA Working ==
  ASSUME Inv, Running
  PROVE  /\ child \in Children(Jobs) /\ child.job.target \in Targets
         /\ child.job.action \in Actions \cup {"prove"} /\ child.job.before \in Levels
         /\ child.alive \in BOOLEAN /\ child.bound \in BOOLEAN /\ child.told \in BOOLEAN
         /\ child.flooded \in BOOLEAN
BY DEF Inv, TypeOK, WorldOK, Running, Children, Jobs

\* A manager's record of its phase belongs to the process, whatever it has done.
LEMMA PhaseKeeps ==
  ASSUME Inv, Running, child.job.of = "manager", child.alive, NEW p \in Phases, Phase(p),
         mishap # "none" => mishap' # "none",
         UNCHANGED <<config, program, verdict>>,
         p = "failing" =>
           child.job.action \in Undoable /\ (mishap' # "none" \/ child.bound),
         p # "guard" /\ child.job.action \in Destructive =>
           child.job.target \notin config.protected,
         p \in {"changed", "finished"} /\ child.job.action \in Ending =>
           runtime'[child.job.target] # "running"
  PROVE  Process' /\ Telling'
<1> USE DEF Inv, program, verdict
<1>1. Completion' = Completion /\ Work' = Work
  BY Fixed
<1>2. Process'
  BY <1>1, Phased, Working DEF Process, Asked, Down
<1>3. Telling'
  BY Phased, Working DEF Telling
<1> QED BY <1>2, <1>3

\* The end of a process, if its failure is on record or is the cancellation's.
LEMMA StopKeeps ==
  ASSUME Inv, Running, NEW s \in {"ok", "failed"}, child' = Exited(child, s),
         mishap # "none" => mishap' # "none",
         UNCHANGED <<config, program, verdict>>,
         child.job.phase = "failing" \/ UNCHANGED runtime,
         s = "ok" /\ child.job.of = "manager" => child.job.phase = "finished",
         s = "failed" => mishap' # "none" \/ child.bound
  PROVE  Process' /\ Telling'
<1> USE DEF Inv, program, verdict
<1>1. Completion' = Completion /\ Work' = Work
  BY Fixed
<1>2. Process'
  BY <1>1, Stopped, Working DEF Process, Asked, Down
<1>3. Telling'
  BY Stopped, Working DEF Telling
<1> QED BY <1>2, <1>3

LEMMA ManagerStartsKeeps == Inv /\ ManagerStarts => Inv'
<1> SUFFICES ASSUME Inv, ManagerStarts PROVE Inv'
  OBVIOUS
<1>1. Running /\ child.alive /\ child.job.of = "manager" /\ Phase("working") /\ Quiet
      /\ UNCHANGED <<world, mishap>>
      /\ ~(child.job.target \in config.protected /\ child.job.action \in Destructive)
  BY DEF ManagerStarts, Manager
<1>2. Process' /\ Telling'
  BY <1>1, PhaseKeeps DEF Quiet, Phases
<1> QED BY <1>1, <1>2, Phased, QuietProcessKeeps DEF Phases, Inv, TypeOK, InputOK

LEMMA ManagerRefusesKeeps == Inv /\ ManagerRefuses => Inv'
<1> SUFFICES ASSUME Inv, ManagerRefuses PROVE Inv'
  OBVIOUS
<1>1. Running /\ child.alive /\ child' = Exited(child, "failed") /\ Quiet /\ UNCHANGED world
      /\ IF Told THEN UNCHANGED mishap ELSE Worse("fault")
  BY DEF ManagerRefuses, Manager
<1>2. mishap' \in {"none", "fault", "residue"} /\ (mishap # "none" => mishap' # "none")
      /\ (mishap' # "none" \/ child.bound)
  BY <1>1, WorseIsWorse DEF Told, Inv, TypeOK, InputOK
<1>3. Process' /\ Telling'
  BY <1>1, <1>2, StopKeeps DEF Quiet, world
<1> QED BY <1>1, <1>2, <1>3, Stopped, QuietProcessKeeps

\* The runtime of its target is what was asked for; a protected one keeps its
\* data, for its manager has gone by the guard.
LEMMA ManagerChangesKeeps == Inv /\ ManagerChanges => Inv'
<1> SUFFICES ASSUME Inv, ManagerChanges PROVE Inv'
  OBVIOUS
<1> DEFINE t == child.job.target
           a == child.job.action
<1>1. Running /\ child.alive /\ child.job.of = "manager" /\ child.job.phase = "working"
      /\ Phase("changed") /\ Quiet /\ UNCHANGED mishap
      /\ runtime' = [runtime EXCEPT ![t] = Reached(a, @)]
      /\ wiped' = IF a \in {"run", "reset", "discard"} /\ runtime[t] # "absent"
                  THEN wiped \cup {t} ELSE wiped
  BY DEF ManagerChanges, Manager
<1>2. t \in Targets /\ runtime[t] \in Levels
  BY <1>1, Working DEF Inv, TypeOK, WorldOK
<1>3. Reached(a, runtime[t]) \in Levels
      /\ (a \in Ending => Reached(a, runtime[t]) # "running")
  BY <1>2 DEF Reached, Ending, Levels
<1>4. /\ runtime' \in [Targets -> Levels]
      /\ \A u \in Targets : u # t => runtime'[u] = runtime[u]
      /\ runtime'[t] = Reached(a, runtime[t])
  BY <1>1, <1>2, <1>3 DEF Inv, TypeOK, WorldOK
<1>5. a \in Destructive => t \notin config.protected
  BY <1>1 DEF Inv, Process
<1>6. wiped' = wiped \/ (wiped' = wiped \cup {t} /\ t \notin config.protected)
  BY <1>1, <1>5 DEF Destructive
<1>7. Process' /\ Telling'
  BY <1>1, <1>3, <1>4, <1>5, PhaseKeeps DEF Quiet, Phases
<1> QED BY <1>1, <1>4, <1>6, <1>7, Phased, ProcessKeeps DEF Phases, Inv, TypeOK, InputOK

LEMMA ManagerFailsKeeps == Inv /\ ManagerFails => Inv'
<1> SUFFICES ASSUME Inv, ManagerFails PROVE Inv'
  OBVIOUS
<1>1. Running /\ child.alive /\ child.job.of = "manager" /\ Quiet /\ UNCHANGED world
      /\ child.job.phase # "guard"
      /\ IF Told THEN UNCHANGED mishap ELSE Worse("fault")
  BY DEF ManagerFails, Manager
<1>2. mishap' \in {"none", "fault", "residue"} /\ (mishap # "none" => mishap' # "none")
      /\ (mishap' # "none" \/ child.bound)
  BY <1>1, WorseIsWorse DEF Told, Inv, TypeOK, InputOK
<1>3. CASE child.job.action \in Undoable /\ Phase("failing")
  <2>1. Process' /\ Telling'
    BY <1>1, <1>2, <1>3, PhaseKeeps DEF Quiet, Phases, Inv, Process
  <2> QED BY <1>1, <1>2, <1>3, <2>1, Phased, QuietProcessKeeps DEF Phases
<1>4. CASE child' = Exited(child, "failed")
  <2>1. Process' /\ Telling'
    BY <1>1, <1>2, <1>4, StopKeeps DEF Quiet, world
  <2> QED BY <1>1, <1>2, <1>4, <2>1, Stopped, QuietProcessKeeps
<1> QED BY <1>3, <1>4 DEF ManagerFails, Phase

\* Undoing what a manager did never costs a protected target its data: what
\* start undoes was there before, and the rest was not allowed to begin.
LEMMA ManagerUndoesKeeps == Inv /\ ManagerUndoes => Inv'
<1> SUFFICES ASSUME Inv, ManagerUndoes PROVE Inv'
  OBVIOUS
<1> DEFINE t == child.job.target
<1>1. PICK s \in Undone(child.job) :
        /\ runtime' = [runtime EXCEPT ![t] = s]
        /\ wiped' = IF child.job.before # "absent" /\ s = "absent"
                    THEN wiped \cup {t} ELSE wiped
  BY DEF ManagerUndoes
<1>2. Running /\ child.alive /\ child.job.of = "manager" /\ child.job.phase = "failing"
      /\ child' = Exited(child, "failed") /\ Quiet /\ UNCHANGED mishap
  BY DEF ManagerUndoes, Manager
<1>3. t \in Targets /\ child.job.before \in Levels /\ child.job.action \in Undoable
      /\ (child.job.action \in Destructive => t \notin config.protected)
  BY <1>2, Working DEF Inv, Process
<1>4. s \in Levels /\ (child.job.action = "start" => s = child.job.before)
  BY <1>1, <1>3 DEF Undone, Levels
<1>5. /\ runtime' \in [Targets -> Levels]
      /\ \A u \in Targets : u # t => runtime'[u] = runtime[u]
  BY <1>1, <1>3, <1>4 DEF Inv, TypeOK, WorldOK
<1>6. wiped' = wiped \/ (wiped' = wiped \cup {t} /\ t \notin config.protected)
  BY <1>1, <1>3, <1>4 DEF Undoable, Destructive
<1>7. Process' /\ Telling'
  BY <1>2, StopKeeps DEF Quiet, Inv, Telling
<1> QED BY <1>2, <1>5, <1>6, <1>7, Stopped, ProcessKeeps DEF Inv, TypeOK, InputOK

LEMMA ManagerFailsToUndoKeeps == Inv /\ ManagerFailsToUndo => Inv'
<1> SUFFICES ASSUME Inv, ManagerFailsToUndo PROVE Inv'
  OBVIOUS
<1>1. Running /\ child.alive /\ child' = Exited(child, "failed") /\ Quiet /\ UNCHANGED world
      /\ Worse("residue")
  BY DEF ManagerFailsToUndo, Manager
<1>2. mishap' \in {"none", "fault", "residue"} /\ mishap' # "none"
  BY <1>1, WorseIsWorse DEF Inv
<1>3. Process' /\ Telling'
  BY <1>1, <1>2, StopKeeps DEF Quiet, world
<1> QED BY <1>1, <1>2, <1>3, Stopped, QuietProcessKeeps

LEMMA ManagerFinishesKeeps == Inv /\ ManagerFinishes => Inv'
<1> SUFFICES ASSUME Inv, ManagerFinishes PROVE Inv'
  OBVIOUS
<1>1. Running /\ child.alive /\ child.job.of = "manager" /\ child.job.phase = "changed"
      /\ Phase("finished") /\ Quiet /\ UNCHANGED <<world, mishap>>
  BY DEF ManagerFinishes, Manager
<1>2. Process' /\ Telling'
  BY <1>1, PhaseKeeps DEF Quiet, Phases, world, Inv, Process, Down
<1> QED BY <1>1, <1>2, Phased, QuietProcessKeeps DEF Phases, Inv, TypeOK, InputOK

LEMMA ManagerExitsKeeps == Inv /\ ManagerExits => Inv'
<1> SUFFICES ASSUME Inv, ManagerExits PROVE Inv'
  OBVIOUS
<1>1. PICK s \in {"ok", "failed"} :
        child' = Exited(child, s) /\ (s = "failed" => child.bound)
  BY DEF ManagerExits, Told
<1>2. Running /\ child.job.phase = "finished" /\ Quiet /\ UNCHANGED <<world, mishap>>
  BY DEF ManagerExits, Manager
<1>3. Process' /\ Telling'
  BY <1>1, <1>2, StopKeeps DEF Quiet, world
<1> QED BY <1>1, <1>2, <1>3, Stopped, QuietProcessKeeps DEF Inv, TypeOK, InputOK

LEMMA CommandExitsKeeps == Inv /\ CommandExits => Inv'
<1> SUFFICES ASSUME Inv, CommandExits PROVE Inv'
  OBVIOUS
<1>1. PICK s \in {"ok", "failed"} :
        /\ child' = Exited(child, s)
        /\ IF s = "ok" \/ child.told THEN UNCHANGED mishap ELSE Worse("fault")
  BY DEF CommandExits
<1>2. Running /\ child.job.of = "command" /\ Quiet /\ UNCHANGED world
  BY DEF CommandExits
<1>3. mishap' \in {"none", "fault", "residue"} /\ (mishap # "none" => mishap' # "none")
      /\ (s = "failed" => mishap' # "none" \/ child.bound)
  BY <1>1, <1>2, WorseIsWorse DEF Inv, TypeOK, InputOK, Telling
<1>4. Process' /\ Telling'
  BY <1>1, <1>2, <1>3, StopKeeps DEF Quiet, world
<1> QED BY <1>1, <1>2, <1>3, <1>4, Stopped, QuietProcessKeeps

LEMMA ProcessKilledKeeps == Inv /\ ProcessKilled => Inv'
<1> SUFFICES ASSUME Inv, ProcessKilled PROVE Inv'
  OBVIOUS
<1>1. Running /\ child' = Exited(child, "failed") /\ Quiet /\ UNCHANGED world
      /\ (Worse("residue") \/ Worse("fault"))
  BY DEF ProcessKilled, KilledExits
<1>2. mishap' \in {"none", "fault", "residue"} /\ mishap' # "none"
  BY <1>1, WorseIsWorse DEF Inv
<1>3. Process' /\ Telling'
  BY <1>1, <1>2, StopKeeps DEF Quiet, world
<1> QED BY <1>1, <1>2, <1>3, Stopped, QuietProcessKeeps

\* What the process is told, and its output, are the process's own.
LEMMA ToldKeeps ==
  ASSUME Inv, Running, Quiet, UNCHANGED world,
         child' \in Children(Jobs), child'.job = child.job, child'.alive = child.alive,
         child'.bound = child.bound, child'.status = child.status,
         child'.told => child'.flooded \/ child.bound,
         child'.flooded => mishap' # "none",
         mishap' \in {"none", "fault", "residue"}, mishap # "none" => mishap' # "none"
  PROVE  Inv'
<1> USE DEF Quiet, program, verdict, world
<1>1. Completion' = Completion /\ Work' = Work
  BY Fixed
<1>2. Process'
  BY <1>1 DEF Inv, Process, Asked, Down
<1>3. Telling'
  BY DEF Inv, Telling
<1> QED BY <1>2, <1>3, QuietProcessKeeps

LEMMA ProcessFloodsKeeps == Inv /\ ProcessFloods => Inv'
<1> SUFFICES ASSUME Inv, ProcessFloods PROVE Inv'
  OBVIOUS
<1>1. Running /\ Quiet /\ UNCHANGED world /\ Worse("fault")
      /\ child' = [child EXCEPT !.flooded = TRUE, !.told = TRUE]
  BY DEF ProcessFloods, Flood
<1>2. mishap' \in {"none", "fault", "residue"} /\ mishap' # "none"
  BY <1>1, WorseIsWorse DEF Inv
<1>3. child \in Children(Jobs)
  BY <1>1, Working
<1>4. /\ child' \in Children(Jobs) /\ child'.job = child.job /\ child'.alive = child.alive
      /\ child'.bound = child.bound /\ child'.status = child.status /\ child'.flooded
  BY <1>1, <1>3 DEF Children
<1> QED BY <1>1, <1>2, <1>4, ToldKeeps

LEMMA ProcessForcedKeeps == Inv /\ ProcessForced => Inv'
<1> SUFFICES ASSUME Inv, ProcessForced PROVE Inv'
  OBVIOUS
<1>1. Running /\ Quiet /\ UNCHANGED <<world, mishap>>
      /\ child' = [child EXCEPT !.forced = TRUE]
  BY DEF ProcessForced, ForceTimer
<1>2. /\ child' \in Children(Jobs) /\ child'.job = child.job /\ child'.alive = child.alive
      /\ child'.bound = child.bound /\ child'.status = child.status
      /\ child'.told = child.told /\ child'.flooded = child.flooded
  BY <1>1, Working DEF Children
<1> QED BY <1>1, <1>2, ToldKeeps DEF Inv, TypeOK, InputOK, Telling

LEMMA OutputClosesKeeps == Inv /\ OutputCloses => Inv'
<1> SUFFICES ASSUME Inv, OutputCloses PROVE Inv'
  OBVIOUS
<1>1. Running /\ Quiet /\ UNCHANGED <<world, mishap>>
      /\ child' = [child EXCEPT !.piped = FALSE]
  BY DEF OutputCloses, PipesClose
<1>2. /\ child' \in Children(Jobs) /\ child'.job = child.job /\ child'.alive = child.alive
      /\ child'.bound = child.bound /\ child'.status = child.status
      /\ child'.told = child.told /\ child'.flooded = child.flooded
  BY <1>1, Working DEF Children
<1> QED BY <1>1, <1>2, ToldKeeps DEF Inv, TypeOK, InputOK, Telling

-----------------------------------------------------------------------------
(* The user and the application.                                           *)

LEMMA SignalKeeps == Inv /\ Signal => Inv'
<1> SUFFICES ASSUME Inv, Signal PROVE Inv'
  OBVIOUS
<1> USE DEF Inv, world, program, verdict, history
<1>1. /\ CanCancel /\ outcome = "none" /\ signals' = signals + 1
      /\ UNCHANGED <<config, world, group, stopping, program, verdict, listener, outcome,
                     history>>
      /\ \/ /\ listener = "command" /\ aborted' = TRUE /\ closing' = closing
            /\ child' = Interrupted(child)
         \/ /\ listener # "command" /\ closing' = listener /\ aborted' = aborted
            /\ child' = child
  BY DEF Signal
<1>2. /\ Completion' = Completion /\ (Attended <=> Attended') /\ (CanCancel <=> CanCancel')
      /\ (Loads <=> Loads') /\ (Bounded <=> Bounded') /\ Work' = Work
  BY <1>1, Fixed
<1>3. /\ (Running <=> Running') /\ (child' = NoChild \/ child' \in Children(Jobs))
      /\ Running => /\ child'.job = child.job /\ child'.alive = child.alive
                    /\ child'.bound = child.bound /\ child'.flooded = child.flooded
                    /\ child'.status = child.status
                    /\ (child'.told => child.told \/ child.bound)
  <2>1. CASE child' = child
    BY <2>1 DEF Running, TypeOK, WorldOK
  <2>2. CASE child' = Interrupted(child)
    <3>1. CASE Running /\ child.alive
      <4>1. child' = [child EXCEPT !.told = child.told \/ child.bound]
        BY <2>2, <3>1 DEF Interrupted, Running
      <4>2. child \in Children(Jobs)
        BY <3>1, Working
      <4>3. child' \in Children(Jobs)
        BY <4>1, <4>2 DEF Children
      <4> QED BY <3>1, <4>1, <4>2, <4>3, NobodyIsNoChild DEF Children, Running
    <3>2. CASE ~(Running /\ child.alive)
      BY <2>2, <3>2 DEF Interrupted, Running, TypeOK, WorldOK
    <3> QED BY <3>1, <3>2
  <2> QED BY <1>1, <2>1, <2>2
<1>4. TypeOK'
  <2>1. listener # "none"
    BY <1>1 DEF Signals
  <2>2. signals' \in Nat
    BY <1>1 DEF TypeOK, WorldOK
  <2>3. closing' \in {"no", "startup", "session"} /\ aborted' \in BOOLEAN
    BY <1>1, <2>1 DEF TypeOK, WorldOK, ProgramOK, ErrorsOK, FlagsOK, InputOK
  <2> QED BY <1>1, <1>3, <2>2, <2>3
            DEF TypeOK, WorldOK, ProgramOK, ErrorsOK, FlagsOK, InputOK
<1>5. Process' /\ Telling'
  BY <1>1, <1>2, <1>3 DEF Process, Telling, Asked, Down
<1>6. Protection' /\ Failures' /\ Stacks'
  BY <1>1, <1>2 DEF Protection, ProtectedDataKept, Failures, Stacks, Completing
<1>7. Signals'
  BY <1>1, <1>2 DEF Signals, Completing, TypeOK, WorldOK
<1>8. Application' /\ Conclusion'
  BY <1>1 DEF Application, Completing, Retired, Conclusion
<1>9. Receipts'
  BY <1>1, <1>2, <1>3 DEF Receipts, Down
<1> QED BY <1>4, <1>5, <1>6, <1>7, <1>8, <1>9

\* The application ends, or cannot be ended; neither is taken back.
LEMMA ApplicationStepKeeps == Inv /\ ApplicationStep => Inv'
<1> SUFFICES ASSUME Inv, ApplicationStep PROVE Inv'
  OBVIOUS
<1> USE DEF Inv, world, program, verdict, input, history
<1>1. /\ UNCHANGED <<child, config, world, program, verdict, input, outcome, history>>
      /\ group' \in {"none", "leader", "orphans", "gone"}
      /\ stopping' \in {"no", "term", "kill", "done", "stuck"}
      /\ (group = "none" <=> group' = "none") /\ (group = "none" => stopping' = stopping)
      /\ (group = "gone" => group' = "gone")
      /\ (stopping = "stuck" => stopping' = "stuck")
      /\ (stopping' = "done" => group' = "gone")
  BY DEF ApplicationStep, LeaderExits, OrphansExit, ObserveGroup, GroupEnds,
         Application,
         TypeOK, InputOK
<1>2. /\ Completion' = Completion /\ (Attended <=> Attended') /\ (CanCancel <=> CanCancel')
      /\ (Loads <=> Loads') /\ (Bounded <=> Bounded') /\ Work' = Work
  BY <1>1, Fixed
<1>3. TypeOK'
  BY <1>1 DEF TypeOK, WorldOK, ProgramOK, ErrorsOK, FlagsOK, InputOK
<1>4. Process' /\ Telling'
  BY <1>1, <1>2 DEF Process, Telling, Asked, Down, Running
<1>5. Protection' /\ Failures' /\ Stacks' /\ Signals'
  BY <1>1, <1>2
    DEF Protection, ProtectedDataKept, Failures, Stacks, Signals, Completing
<1>6. Application'
  BY <1>1 DEF Application, Completing, Retired
<1>7. Receipts' /\ Conclusion'
  BY <1>1, <1>2 DEF Receipts, Down, Running, Conclusion, Verdict
<1> QED BY <1>3, <1>4, <1>5, <1>6, <1>7

-----------------------------------------------------------------------------
(* The command's own steps.                                                *)

\* The command begins, or declines.
LEMMA BeginKeeps == Inv /\ Begin => Inv'
<1> SUFFICES ASSUME Inv, Begin PROVE Inv'
  OBVIOUS
<1> USE DEF Inv, Begin, Aside, Worse, Cancelled, world, input, Going, Hosting,
            Stacking, Stages, Errors
<1>1. UNCHANGED <<config, runtime, wiped, aborted, signals, outcome>>
  OBVIOUS
<1>2. /\ Completion' = Completion /\ (Attended <=> Attended') /\ (CanCancel <=> CanCancel')
      /\ (Loads <=> Loads') /\ (Bounded <=> Bounded') /\ (frame' = frame => Work' = Work)
  BY <1>1, Fixed
<1>3. TypeOK'
  <2>1. WorldOK'
    BY <1>1 DEF TypeOK, WorldOK, Running
  <2>2. ProgramOK'
    BY DEF TypeOK, ProgramOK, Dependents
  <2>3. ErrorsOK'
    BY DEF TypeOK, ErrorsOK
  <2>4. FlagsOK'
    BY DEF TypeOK, FlagsOK
  <2>5. InputOK'
    BY DEF TypeOK, InputOK
  <2> QED BY <2>1, <2>2, <2>3, <2>4, <2>5 DEF TypeOK
<1>4. Process' /\ Telling'
  BY <1>1, <1>2 DEF Process, Telling, Asked, Down, Running
<1>5. Protection'
  BY <1>1, <1>2 DEF Protection, ProtectedDataKept
<1>6. Failures'
  BY <1>1, <1>2 DEF Failures, Completing, Stacks
<1>7. Stacks'
  BY <1>1, <1>2 DEF Stacks, Completing
<1>8. Signals'
  BY <1>1, <1>2 DEF Signals, Completing, Failures, Stacks, Application, TypeOK, ErrorsOK
<1>9. Application'
  BY <1>1, <1>2 DEF Application, Completing, Retired, Stacks, Failures
<1>10. Receipts'
  BY <1>1, <1>2 DEF Receipts, Down, Stacks, Bounded
<1>11. Conclusion'
  BY <1>1 DEF Conclusion, Verdict
<1> QED BY <1>3, <1>4, <1>5, <1>6, <1>7, <1>8, <1>9, <1>10, <1>11

\* Admission: only heavy work takes a ticket.
LEMMA AdmitKeeps == Inv /\ Admit => Inv'
<1> SUFFICES ASSUME Inv, Admit PROVE Inv'
  OBVIOUS
<1> USE DEF Inv, Admit, Ending, Aside, Worse, Cancelled, Heavy, world, input, Going,
            Hosting, Stacking, Stages, Errors
<1>1. UNCHANGED <<config, runtime, wiped, aborted, signals, outcome>>
  OBVIOUS
<1>2. /\ Completion' = Completion /\ (Attended <=> Attended') /\ (CanCancel <=> CanCancel')
      /\ (Loads <=> Loads') /\ (Bounded <=> Bounded') /\ (frame' = frame => Work' = Work)
  BY <1>1, Fixed
<1>3. TypeOK'
  <2>1. WorldOK'
    BY <1>1 DEF TypeOK, WorldOK, Running
  <2>2. ProgramOK'
    BY DEF TypeOK, ProgramOK, Dependents
  <2>3. ErrorsOK'
    BY DEF TypeOK, ErrorsOK
  <2>4. FlagsOK'
    BY DEF TypeOK, FlagsOK
  <2>5. InputOK'
    BY DEF TypeOK, InputOK
  <2> QED BY <2>1, <2>2, <2>3, <2>4, <2>5 DEF TypeOK
<1>4. Process' /\ Telling'
  BY <1>1, <1>2 DEF Process, Telling, Asked, Down, Running
<1>5. Protection'
  BY <1>1, <1>2 DEF Protection, ProtectedDataKept
<1>6. Failures'
  BY <1>1, <1>2 DEF Failures, Completing, Stacks
<1>7. Stacks'
  BY <1>1, <1>2 DEF Stacks, Completing
<1>8. Signals'
  BY <1>1, <1>2 DEF Signals, Completing
<1>9. Application'
  BY <1>1, <1>2 DEF Application, Completing, Retired
<1>10. Receipts'
  BY <1>1, <1>2 DEF Receipts, Down
<1>11. Conclusion'
  BY <1>1 DEF Conclusion, Verdict
<1> QED BY <1>3, <1>4, <1>5, <1>6, <1>7, <1>8, <1>9, <1>10, <1>11

\* The stack is checked before its first manager.
LEMMA CheckKeeps == Inv /\ Check => Inv'
<1> SUFFICES ASSUME Inv, Check PROVE Inv'
  OBVIOUS
<1> USE DEF Inv, Check, Ending, Aside, Worse, Cancelled, Heavy, world, input, Going,
            Hosting, Stacking, Stages, Errors
<1>1. UNCHANGED <<config, runtime, wiped, aborted, signals, outcome>>
  OBVIOUS
<1>2. /\ Completion' = Completion /\ (Attended <=> Attended') /\ (CanCancel <=> CanCancel')
      /\ (Loads <=> Loads') /\ (Bounded <=> Bounded') /\ (frame' = frame => Work' = Work)
  BY <1>1, Fixed
<1>3. TypeOK'
  <2>1. WorldOK'
    BY <1>1 DEF TypeOK, WorldOK, Running
  <2>2. ProgramOK'
    BY DEF TypeOK, ProgramOK, Dependents
  <2>3. ErrorsOK'
    BY DEF TypeOK, ErrorsOK
  <2>4. FlagsOK'
    BY DEF TypeOK, FlagsOK
  <2>5. InputOK'
    BY DEF TypeOK, InputOK
  <2> QED BY <2>1, <2>2, <2>3, <2>4, <2>5 DEF TypeOK
<1>4. Process' /\ Telling'
  BY <1>1, <1>2 DEF Process, Telling, Asked, Down, Running
<1>5. Protection'
  BY <1>1, <1>2 DEF Protection, ProtectedDataKept
<1>6. Failures'
  BY <1>1, <1>2 DEF Failures, Completing, Stacks
<1>7. Stacks'
  BY <1>1, <1>2 DEF Stacks, Completing
<1>8. Signals'
  BY <1>1, <1>2 DEF Signals, Completing
<1>9. Application'
  BY <1>1, <1>2 DEF Application, Completing, Retired
<1>10. Receipts'
  BY <1>1, <1>2, Asking
    DEF Receipts, Stacks, Failures, Down, Running, Bounded, Completing, Process, TypeOK,
        ProgramOK, ErrorsOK
<1>11. Conclusion'
  BY <1>1 DEF Conclusion, Verdict
<1> QED BY <1>3, <1>4, <1>5, <1>6, <1>7, <1>8, <1>9, <1>10, <1>11

\* A manager that is not launched fails its stack.
LEMMA ExecuteRefusedKeeps == Inv /\ ExecuteRefused => Inv'
<1> SUFFICES ASSUME Inv, ExecuteRefused PROVE Inv'
  OBVIOUS
<1> USE DEF Inv, ExecuteRefused, Aside, Worse, StackFails, world, input, Going,
            Hosting, Stacking, Stages, Errors
<1>1. UNCHANGED <<config, runtime, wiped, aborted, signals, outcome>>
  OBVIOUS
<1>2. /\ Completion' = Completion /\ (Attended <=> Attended') /\ (CanCancel <=> CanCancel')
      /\ (Loads <=> Loads') /\ (Bounded <=> Bounded') /\ (frame' = frame => Work' = Work)
  BY <1>1, Fixed
<1>3. TypeOK'
  <2>1. WorldOK'
    BY <1>1 DEF TypeOK, WorldOK, Running
  <2>2. ProgramOK'
    BY DEF TypeOK, ProgramOK, Dependents
  <2>3. ErrorsOK'
    BY DEF TypeOK, ErrorsOK
  <2>4. FlagsOK'
    BY DEF TypeOK, FlagsOK
  <2>5. InputOK'
    BY DEF TypeOK, InputOK
  <2> QED BY <2>1, <2>2, <2>3, <2>4, <2>5 DEF TypeOK
<1>4. Process' /\ Telling'
  BY <1>1, <1>2 DEF Process, Telling, Asked, Down, Running
<1>5. Protection'
  BY <1>1, <1>2 DEF Protection, ProtectedDataKept
<1>6. Failures'
  BY <1>1, <1>2 DEF Failures, Completing
<1>7. Stacks'
  BY <1>1, <1>2, Asking DEF Stacks, Completing
<1>8. Signals'
  BY <1>1, <1>2 DEF Signals, Completing
<1>9. Application'
  BY <1>1, <1>2 DEF Application, Completing, Retired
<1>10. Receipts'
  BY <1>1, <1>2, Asking DEF Receipts, Down, Stacks, Bounded, Failures
<1>11. Conclusion'
  BY <1>1 DEF Conclusion, Verdict
<1> QED BY <1>3, <1>4, <1>5, <1>6, <1>7, <1>8, <1>9, <1>10, <1>11

\* A cleanup that is not launched is missed, and the next target is cleaned.
LEMMA CleanRefusedKeeps == Inv /\ CleanRefused => Inv'
<1> SUFFICES ASSUME Inv, CleanRefused PROVE Inv'
  OBVIOUS
<1> USE DEF Inv, CleanRefused, Aside, Worse, world, input, Going, Hosting, Stacking,
            Stages, Errors
<1>1. UNCHANGED <<config, runtime, wiped, aborted, signals, outcome>>
  OBVIOUS
<1>2. /\ Completion' = Completion /\ (Attended <=> Attended') /\ (CanCancel <=> CanCancel')
      /\ (Loads <=> Loads') /\ (Bounded <=> Bounded') /\ (frame' = frame => Work' = Work)
  BY <1>1, Fixed
<1>3. TypeOK'
  <2>1. WorldOK'
    BY <1>1 DEF TypeOK, WorldOK, Running
  <2>2. ProgramOK'
    BY DEF TypeOK, ProgramOK, Dependents
  <2>3. ErrorsOK'
    BY DEF TypeOK, ErrorsOK
  <2>4. FlagsOK'
    BY DEF TypeOK, FlagsOK
  <2>5. InputOK'
    BY DEF TypeOK, InputOK
  <2> QED BY <2>1, <2>2, <2>3, <2>4, <2>5 DEF TypeOK
<1>4. Process' /\ Telling'
  BY <1>1, <1>2 DEF Process, Telling, Asked, Down, Running
<1>5. Protection'
  BY <1>1, <1>2 DEF Protection, ProtectedDataKept
<1>6. Failures'
  BY <1>1, <1>2 DEF Failures, Completing
<1>7. Stacks'
  BY <1>1, <1>2 DEF Stacks, Completing
<1>8. Signals'
  BY <1>1, <1>2 DEF Signals, Completing
<1>9. Application'
  BY <1>1, <1>2 DEF Application, Completing, Retired
<1>10. Receipts'
  BY <1>1, <1>2 DEF Receipts, Down
<1>11. Conclusion'
  BY <1>1 DEF Conclusion, Verdict
<1> QED BY <1>3, <1>4, <1>5, <1>6, <1>7, <1>8, <1>9, <1>10, <1>11

\* The cleanup ends with the stack's error, or as incomplete.
LEMMA CleanupEndsKeeps == Inv /\ CleanupEnds => Inv'
<1> SUFFICES ASSUME Inv, CleanupEnds PROVE Inv'
  OBVIOUS
<1> USE DEF Inv, CleanupEnds, Aside, world, input, history, Going, Hosting,
            Stacking, Stages, Errors
<1>1. UNCHANGED <<config, runtime, wiped, aborted, signals, outcome>>
  OBVIOUS
<1>2. /\ Completion' = Completion /\ (Attended <=> Attended') /\ (CanCancel <=> CanCancel')
      /\ (Loads <=> Loads') /\ (Bounded <=> Bounded') /\ (frame' = frame => Work' = Work)
  BY <1>1, Fixed
<1>3. TypeOK'
  <2>1. WorldOK'
    BY <1>1 DEF TypeOK, WorldOK, Running
  <2>2. ProgramOK'
    BY DEF TypeOK, ProgramOK, Dependents
  <2>3. ErrorsOK'
    BY DEF TypeOK, ErrorsOK
  <2>4. FlagsOK'
    BY DEF TypeOK, FlagsOK
  <2>5. InputOK'
    BY DEF TypeOK, InputOK
  <2> QED BY <2>1, <2>2, <2>3, <2>4, <2>5 DEF TypeOK
<1>4. Process' /\ Telling'
  BY <1>1, <1>2 DEF Process, Telling, Asked, Down, Running
<1>5. Protection'
  BY <1>1, <1>2 DEF Protection, ProtectedDataKept
<1>6. Failures'
  BY <1>1, <1>2 DEF Failures, Completing
<1>7. Stacks'
  BY <1>1, <1>2 DEF Stacks, Completing
<1>8. Signals'
  BY <1>1, <1>2 DEF Signals, Completing
<1>9. Application'
  BY <1>1, <1>2 DEF Application, Completing, Retired
<1>10. Receipts'
  BY <1>1, <1>2 DEF Receipts, Down, Stacks, Bounded
<1>11. Conclusion'
  BY <1>1 DEF Conclusion, Verdict
<1> QED BY <1>3, <1>4, <1>5, <1>6, <1>7, <1>8, <1>9, <1>10, <1>11

\* The last manager has reported: a stack that goes down is down.
LEMMA StackCompletesKeeps == Inv /\ StackCompletes => Inv'
<1> SUFFICES ASSUME Inv, StackCompletes PROVE Inv'
  OBVIOUS
<1> USE DEF Inv, StackCompletes, Aside, Worse, Ending, world, input, Going, Hosting,
            Stacking, Stages, Errors
<1>1. UNCHANGED <<config, runtime, wiped, aborted, signals, outcome>>
  OBVIOUS
<1>2. /\ Completion' = Completion /\ (Attended <=> Attended') /\ (CanCancel <=> CanCancel')
      /\ (Loads <=> Loads') /\ (Bounded <=> Bounded') /\ (frame' = frame => Work' = Work)
  BY <1>1, Fixed
<1>3. TypeOK'
  <2>1. WorldOK'
    BY <1>1 DEF TypeOK, WorldOK, Running
  <2>2. ProgramOK'
    BY DEF TypeOK, ProgramOK, Dependents
  <2>3. ErrorsOK'
    BY DEF TypeOK, ErrorsOK
  <2>4. FlagsOK'
    BY DEF TypeOK, FlagsOK
  <2>5. InputOK'
    BY DEF TypeOK, InputOK
  <2> QED BY <2>1, <2>2, <2>3, <2>4, <2>5 DEF TypeOK
<1>4. Process' /\ Telling'
  BY <1>1, <1>2 DEF Process, Telling, Asked, Down, Running
<1>5. Protection'
  BY <1>1, <1>2 DEF Protection, ProtectedDataKept
<1>6. Failures'
  BY <1>1, <1>2 DEF Failures, Completing
<1>7. Stacks'
  BY <1>1, <1>2 DEF Stacks, Completing
<1>8. Signals'
  BY <1>1, <1>2 DEF Signals, Completing
<1>9. Application'
  BY <1>1, <1>2 DEF Application, Completing, Retired
<1>10. Receipts'
  BY <1>1, <1>2, Asking DEF Receipts, Down, Stacks, Bounded, Failures
<1>11. Conclusion'
  BY <1>1 DEF Conclusion, Verdict
<1> QED BY <1>3, <1>4, <1>5, <1>6, <1>7, <1>8, <1>9, <1>10, <1>11

\* The ticket is released, or lost.
LEMMA LeaveKeeps == Inv /\ Leave => Inv'
<1> SUFFICES ASSUME Inv, Leave PROVE Inv'
  OBVIOUS
<1> USE DEF Inv, Leave, Aside, Worse, world, input, Going, Hosting, Stacking,
            Stages, Errors
<1>1. UNCHANGED <<config, runtime, wiped, aborted, signals, outcome>>
  OBVIOUS
<1>2. /\ Completion' = Completion /\ (Attended <=> Attended') /\ (CanCancel <=> CanCancel')
      /\ (Loads <=> Loads') /\ (Bounded <=> Bounded') /\ (frame' = frame => Work' = Work)
  BY <1>1, Fixed
<1>3. TypeOK'
  <2>1. WorldOK'
    BY <1>1 DEF TypeOK, WorldOK, Running
  <2>2. ProgramOK'
    BY DEF TypeOK, ProgramOK, Dependents
  <2>3. ErrorsOK'
    BY DEF TypeOK, ErrorsOK
  <2>4. FlagsOK'
    BY DEF TypeOK, FlagsOK
  <2>5. InputOK'
    BY DEF TypeOK, InputOK
  <2> QED BY <2>1, <2>2, <2>3, <2>4, <2>5 DEF TypeOK
<1>4. Process' /\ Telling'
  BY <1>1, <1>2 DEF Process, Telling, Asked, Down, Running
<1>5. Protection'
  BY <1>1, <1>2 DEF Protection, ProtectedDataKept
<1>6. Failures'
  BY <1>1, <1>2 DEF Failures, Completing
<1>7. Stacks'
  BY <1>1, <1>2 DEF Stacks, Completing
<1>8. Signals'
  BY <1>1, <1>2 DEF Signals, Completing
<1>9. Application'
  BY <1>1, <1>2 DEF Application, Completing, Retired
<1>10. Receipts'
  BY <1>1, <1>2 DEF Receipts, Down
<1>11. Conclusion'
  BY <1>1 DEF Conclusion, Verdict
<1> QED BY <1>3, <1>4, <1>5, <1>6, <1>7, <1>8, <1>9, <1>10, <1>11

\* From the main stack to what the command does next, or to its end.
LEMMA ReturnMainKeeps == Inv /\ ReturnMain => Inv'
<1> SUFFICES ASSUME Inv, ReturnMain PROVE Inv'
  OBVIOUS
<1> USE DEF Inv, ReturnMain, Aside, world, verdict, input, history, Going, Hosting,
            Stacking, Stages, Errors
<1>1. UNCHANGED <<config, runtime, wiped, aborted, signals, outcome>>
  OBVIOUS
<1>2. /\ Completion' = Completion /\ (Attended <=> Attended') /\ (CanCancel <=> CanCancel')
      /\ (Loads <=> Loads') /\ (Bounded <=> Bounded') /\ (frame' = frame => Work' = Work)
  BY <1>1, Fixed
<1>3. TypeOK'
  <2>1. WorldOK'
    BY <1>1 DEF TypeOK, WorldOK, Running
  <2>2. ProgramOK'
    BY DEF TypeOK, ProgramOK, Dependents
  <2>3. ErrorsOK'
    BY DEF TypeOK, ErrorsOK
  <2>4. FlagsOK'
    BY DEF TypeOK, FlagsOK
  <2>5. InputOK'
    BY DEF TypeOK, InputOK
  <2> QED BY <2>1, <2>2, <2>3, <2>4, <2>5 DEF TypeOK
<1>4. Process' /\ Telling'
  BY <1>1, <1>2 DEF Process, Telling, Asked, Down, Running
<1>5. Protection'
  BY <1>1, <1>2 DEF Protection, ProtectedDataKept
<1>6. Failures'
  BY <1>1, <1>2 DEF Failures, Completing
<1>7. Stacks'
  BY <1>1, <1>2, Asking DEF Stacks, Completing, Attended
<1>8. Signals'
  BY <1>1, <1>2 DEF Signals, Completing
<1>9. Application'
  BY <1>1, <1>2 DEF Application, Completing, Retired
<1>10. Receipts'
  BY <1>1, <1>2, Asking
    DEF Receipts, Stacks, Failures, Down, Running, Bounded, Completing, Process, TypeOK,
        ProgramOK, ErrorsOK, Attended
<1>11. Conclusion'
  BY <1>1 DEF Conclusion, Verdict
<1> QED BY <1>3, <1>4, <1>5, <1>6, <1>7, <1>8, <1>9, <1>10, <1>11

\* From the verification of a stack that was open.
LEMMA ReturnVerifyKeeps == Inv /\ ReturnVerify => Inv'
<1> SUFFICES ASSUME Inv, ReturnVerify PROVE Inv'
  OBVIOUS
<1> USE DEF Inv, ReturnVerify, Aside, world, verdict, input, history, Going,
            Hosting, Stacking, Stages, Errors
<1>1. UNCHANGED <<config, runtime, wiped, aborted, signals, outcome>>
  OBVIOUS
<1>2. /\ Completion' = Completion /\ (Attended <=> Attended') /\ (CanCancel <=> CanCancel')
      /\ (Loads <=> Loads') /\ (Bounded <=> Bounded') /\ (frame' = frame => Work' = Work)
  BY <1>1, Fixed
<1>3. TypeOK'
  <2>1. WorldOK'
    BY <1>1 DEF TypeOK, WorldOK, Running
  <2>2. ProgramOK'
    BY DEF TypeOK, ProgramOK, Dependents
  <2>3. ErrorsOK'
    BY DEF TypeOK, ErrorsOK
  <2>4. FlagsOK'
    BY DEF TypeOK, FlagsOK
  <2>5. InputOK'
    BY DEF TypeOK, InputOK
  <2> QED BY <2>1, <2>2, <2>3, <2>4, <2>5 DEF TypeOK
<1>4. Process' /\ Telling'
  BY <1>1, <1>2 DEF Process, Telling, Asked, Down, Running
<1>5. Protection'
  BY <1>1, <1>2 DEF Protection, ProtectedDataKept
<1>6. Failures'
  BY <1>1, <1>2 DEF Failures, Completing
<1>7. Stacks'
  BY <1>1, <1>2 DEF Stacks, Completing
<1>8. Signals'
  BY <1>1, <1>2 DEF Signals, Completing
<1>9. Application'
  BY <1>1, <1>2 DEF Application, Completing, Retired
<1>10. Receipts'
  BY <1>1, <1>2 DEF Receipts, Down
<1>11. Conclusion'
  BY <1>1 DEF Conclusion, Verdict
<1> QED BY <1>3, <1>4, <1>5, <1>6, <1>7, <1>8, <1>9, <1>10, <1>11

\* From the completion to the end, with the error it was begun with.
LEMMA ReturnPolicyKeeps == Inv /\ ReturnPolicy => Inv'
<1> SUFFICES ASSUME Inv, ReturnPolicy PROVE Inv'
  OBVIOUS
<1> USE DEF Inv, ReturnPolicy, Aside, world, input, history, Going, Hosting,
            Stacking, Stages, Errors
<1>1. UNCHANGED <<config, runtime, wiped, aborted, signals, outcome>>
  OBVIOUS
<1>2. /\ Completion' = Completion /\ (Attended <=> Attended') /\ (CanCancel <=> CanCancel')
      /\ (Loads <=> Loads') /\ (Bounded <=> Bounded') /\ (frame' = frame => Work' = Work)
  BY <1>1, Fixed
<1>3. TypeOK'
  <2>1. WorldOK'
    BY <1>1 DEF TypeOK, WorldOK, Running
  <2>2. ProgramOK'
    BY DEF TypeOK, ProgramOK, Dependents
  <2>3. ErrorsOK'
    BY DEF TypeOK, ErrorsOK
  <2>4. FlagsOK'
    BY DEF TypeOK, FlagsOK
  <2>5. InputOK'
    BY DEF TypeOK, InputOK
  <2> QED BY <2>1, <2>2, <2>3, <2>4, <2>5 DEF TypeOK
<1>4. Process' /\ Telling'
  BY <1>1, <1>2 DEF Process, Telling, Asked, Down, Running
<1>5. Protection'
  BY <1>1, <1>2 DEF Protection, ProtectedDataKept
<1>6. Failures'
  BY <1>1, <1>2 DEF Failures, Completing
<1>7. Stacks'
  BY <1>1, <1>2 DEF Stacks, Completing
<1>8. Signals'
  BY <1>1, <1>2 DEF Signals, Completing
<1>9. Application'
  BY <1>1, <1>2 DEF Application, Completing, Retired
<1>10. Receipts'
  BY <1>1, <1>2, Asking
    DEF Receipts, Stacks, Failures, Down, Running, Bounded, Completing, Process, TypeOK,
        ProgramOK, ErrorsOK
<1>11. Conclusion'
  BY <1>1 DEF Conclusion, Verdict
<1> QED BY <1>3, <1>4, <1>5, <1>6, <1>7, <1>8, <1>9, <1>10, <1>11

\* The dependents are prepared.
LEMMA PreparedKeeps == Inv /\ Prepared => Inv'
<1> SUFFICES ASSUME Inv, Prepared PROVE Inv'
  OBVIOUS
<1> USE DEF Inv, Prepared, Aside, world, verdict, input, history, Going, Hosting,
            Stacking, Stages, Errors
<1>1. UNCHANGED <<config, runtime, wiped, aborted, signals, outcome>>
  OBVIOUS
<1>2. /\ Completion' = Completion /\ (Attended <=> Attended') /\ (CanCancel <=> CanCancel')
      /\ (Loads <=> Loads') /\ (Bounded <=> Bounded') /\ (frame' = frame => Work' = Work)
  BY <1>1, Fixed
<1>3. TypeOK'
  <2>1. WorldOK'
    BY <1>1 DEF TypeOK, WorldOK, Running
  <2>2. ProgramOK'
    BY DEF TypeOK, ProgramOK, Dependents
  <2>3. ErrorsOK'
    BY DEF TypeOK, ErrorsOK
  <2>4. FlagsOK'
    BY DEF TypeOK, FlagsOK
  <2>5. InputOK'
    BY DEF TypeOK, InputOK
  <2> QED BY <2>1, <2>2, <2>3, <2>4, <2>5 DEF TypeOK
<1>4. Process' /\ Telling'
  BY <1>1, <1>2 DEF Process, Telling, Asked, Down, Running
<1>5. Protection'
  BY <1>1, <1>2 DEF Protection, ProtectedDataKept
<1>6. Failures'
  BY <1>1, <1>2 DEF Failures, Completing, Stacks
<1>7. Stacks'
  BY <1>1, <1>2 DEF Stacks, Completing
<1>8. Signals'
  BY <1>1, <1>2 DEF Signals, Completing, Failures, Stacks, Application, TypeOK, ErrorsOK
<1>9. Application'
  BY <1>1, <1>2 DEF Application, Completing, Retired, Stacks, Failures
<1>10. Receipts'
  BY <1>1, <1>2 DEF Receipts, Down, Stacks, Bounded
<1>11. Conclusion'
  BY <1>1 DEF Conclusion, Verdict
<1> QED BY <1>3, <1>4, <1>5, <1>6, <1>7, <1>8, <1>9, <1>10, <1>11

\* The application is launched; its startup listens.
LEMMA LaunchApplicationKeeps == Inv /\ LaunchApplication => Inv'
<1> SUFFICES ASSUME Inv, LaunchApplication PROVE Inv'
  OBVIOUS
<1> USE DEF Inv, LaunchApplication, Calm, Cancelled, world, Going, Hosting,
            Stacking, Stages, Errors
<1>1. UNCHANGED <<config, runtime, wiped, aborted, signals, outcome>>
  OBVIOUS
<1>2. /\ Completion' = Completion /\ (Attended <=> Attended') /\ (CanCancel <=> CanCancel')
      /\ (Loads <=> Loads') /\ (Bounded <=> Bounded') /\ (frame' = frame => Work' = Work)
  BY <1>1, Fixed
<1>3. TypeOK'
  <2>1. WorldOK'
    BY <1>1 DEF TypeOK, WorldOK, Running
  <2>2. ProgramOK'
    BY DEF TypeOK, ProgramOK, Dependents
  <2>3. ErrorsOK'
    BY DEF TypeOK, ErrorsOK
  <2>4. FlagsOK'
    BY DEF TypeOK, FlagsOK
  <2>5. InputOK'
    BY DEF TypeOK, InputOK
  <2> QED BY <2>1, <2>2, <2>3, <2>4, <2>5 DEF TypeOK
<1>4. Process' /\ Telling'
  BY <1>1, <1>2 DEF Process, Telling, Asked, Down, Running
<1>5. Protection'
  BY <1>1, <1>2 DEF Protection, ProtectedDataKept
<1>6. Failures'
  BY <1>1, <1>2 DEF Failures, Completing, Stacks, Application
<1>7. Stacks'
  BY <1>1, <1>2 DEF Stacks, Completing
<1>8. Signals'
  BY <1>1, <1>2 DEF Signals, Completing
<1>9. Application'
  BY <1>1, <1>2 DEF Application, Completing, Retired, Stacks, Failures
<1>10. Receipts'
  BY <1>1, <1>2 DEF Receipts, Down
<1>11. Conclusion'
  BY <1>1 DEF Conclusion, Verdict
<1> QED BY <1>3, <1>4, <1>5, <1>6, <1>7, <1>8, <1>9, <1>10, <1>11

\* No application is launched.
LEMMA LaunchFailsKeeps == Inv /\ LaunchFails => Inv'
<1> SUFFICES ASSUME Inv, LaunchFails PROVE Inv'
  OBVIOUS
<1> USE DEF Inv, LaunchFails, Calm, Worse, Unwind, world, Going, Hosting, Stacking,
            Stages, Errors
<1>1. UNCHANGED <<config, runtime, wiped, aborted, signals, outcome>>
  OBVIOUS
<1>2. /\ Completion' = Completion /\ (Attended <=> Attended') /\ (CanCancel <=> CanCancel')
      /\ (Loads <=> Loads') /\ (Bounded <=> Bounded') /\ (frame' = frame => Work' = Work)
  BY <1>1, Fixed
<1>3. TypeOK'
  <2>1. WorldOK'
    BY <1>1 DEF TypeOK, WorldOK, Running
  <2>2. ProgramOK'
    BY DEF TypeOK, ProgramOK, Dependents
  <2>3. ErrorsOK'
    BY DEF TypeOK, ErrorsOK
  <2>4. FlagsOK'
    BY DEF TypeOK, FlagsOK
  <2>5. InputOK'
    BY DEF TypeOK, InputOK
  <2> QED BY <2>1, <2>2, <2>3, <2>4, <2>5 DEF TypeOK
<1>4. Process' /\ Telling'
  BY <1>1, <1>2 DEF Process, Telling, Asked, Down, Running
<1>5. Protection'
  BY <1>1, <1>2 DEF Protection, ProtectedDataKept
<1>6. Failures'
  BY <1>1, <1>2 DEF Failures, Completing, Stacks
<1>7. Stacks'
  BY <1>1, <1>2 DEF Stacks, Completing
<1>8. Signals'
  BY <1>1, <1>2 DEF Signals, Completing
<1>9. Application'
  BY <1>1, <1>2, Asking
    DEF Application, Stacks, Failures, Completing, Retired, Signals, Conclusion, TypeOK,
        ProgramOK, ErrorsOK, InputOK
<1>10. Receipts'
  BY <1>1, <1>2 DEF Receipts, Down, Stacks, Bounded
<1>11. Conclusion'
  BY <1>1 DEF Conclusion, Verdict
<1> QED BY <1>3, <1>4, <1>5, <1>6, <1>7, <1>8, <1>9, <1>10, <1>11

\* The application answers; the command listens again.
LEMMA ApplicationReadyKeeps == Inv /\ ApplicationReady => Inv'
<1> SUFFICES ASSUME Inv, ApplicationReady PROVE Inv'
  OBVIOUS
<1> USE DEF Inv, ApplicationReady, Calm, world, Going, Hosting, Stacking, Stages,
            Errors
<1>1. UNCHANGED <<config, runtime, wiped, aborted, signals, outcome>>
  OBVIOUS
<1>2. /\ Completion' = Completion /\ (Attended <=> Attended') /\ (CanCancel <=> CanCancel')
      /\ (Loads <=> Loads') /\ (Bounded <=> Bounded') /\ (frame' = frame => Work' = Work)
  BY <1>1, Fixed
<1>3. TypeOK'
  <2>1. WorldOK'
    BY <1>1 DEF TypeOK, WorldOK, Running
  <2>2. ProgramOK'
    BY DEF TypeOK, ProgramOK, Dependents
  <2>3. ErrorsOK'
    BY DEF TypeOK, ErrorsOK
  <2>4. FlagsOK'
    BY DEF TypeOK, FlagsOK
  <2>5. InputOK'
    BY DEF TypeOK, InputOK
  <2> QED BY <2>1, <2>2, <2>3, <2>4, <2>5 DEF TypeOK
<1>4. Process' /\ Telling'
  BY <1>1, <1>2 DEF Process, Telling, Asked, Down, Running
<1>5. Protection'
  BY <1>1, <1>2 DEF Protection, ProtectedDataKept
<1>6. Failures'
  BY <1>1, <1>2 DEF Failures, Completing
<1>7. Stacks'
  BY <1>1, <1>2 DEF Stacks, Completing
<1>8. Signals'
  BY <1>1, <1>2 DEF Signals, Completing
<1>9. Application'
  BY <1>1, <1>2 DEF Application, Completing, Retired
<1>10. Receipts'
  BY <1>1, <1>2 DEF Receipts, Down
<1>11. Conclusion'
  BY <1>1 DEF Conclusion, Verdict
<1> QED BY <1>3, <1>4, <1>5, <1>6, <1>7, <1>8, <1>9, <1>10, <1>11

\* The startup is interrupted, or fails.
LEMMA StartupFailsKeeps == Inv /\ StartupFails => Inv'
<1> SUFFICES ASSUME Inv, StartupFails PROVE Inv'
  OBVIOUS
<1> USE DEF Inv, StartupFails, Calm, Stop, Worse, Unwind, world, Going, Hosting,
            Stacking, Stages, Errors
<1>1. UNCHANGED <<config, runtime, wiped, aborted, signals, outcome>>
  OBVIOUS
<1>2. /\ Completion' = Completion /\ (Attended <=> Attended') /\ (CanCancel <=> CanCancel')
      /\ (Loads <=> Loads') /\ (Bounded <=> Bounded') /\ (frame' = frame => Work' = Work)
  BY <1>1, Fixed
<1>3. TypeOK'
  <2>1. WorldOK'
    BY <1>1 DEF TypeOK, WorldOK, Running
  <2>2. ProgramOK'
    BY DEF TypeOK, ProgramOK, Dependents
  <2>3. ErrorsOK'
    BY DEF TypeOK, ErrorsOK
  <2>4. FlagsOK'
    BY DEF TypeOK, FlagsOK
  <2>5. InputOK'
    BY DEF TypeOK, InputOK
  <2> QED BY <2>1, <2>2, <2>3, <2>4, <2>5 DEF TypeOK
<1>4. Process' /\ Telling'
  BY <1>1, <1>2 DEF Process, Telling, Asked, Down, Running
<1>5. Protection'
  BY <1>1, <1>2 DEF Protection, ProtectedDataKept
<1>6. Failures'
  BY <1>1, <1>2 DEF Failures, Completing, Stacks
<1>7. Stacks'
  BY <1>1, <1>2 DEF Stacks, Completing
<1>8. Signals'
  BY <1>1, <1>2 DEF Signals, Completing, Failures, Stacks, Application, TypeOK, ErrorsOK
<1>9. Application'
  BY <1>1, <1>2 DEF Application, Completing, Retired, Stacks, Failures
<1>10. Receipts'
  BY <1>1, <1>2 DEF Receipts, Down, Stacks, Bounded
<1>11. Conclusion'
  BY <1>1 DEF Conclusion, Verdict
<1> QED BY <1>3, <1>4, <1>5, <1>6, <1>7, <1>8, <1>9, <1>10, <1>11

\* The session takes over from the command.
LEMMA HandoffKeeps == Inv /\ Handoff => Inv'
<1> SUFFICES ASSUME Inv, Handoff PROVE Inv'
  OBVIOUS
<1> USE DEF Inv, Handoff, Calm, Stop, Unwind, Cancelled, world, Going, Hosting,
            Stacking, Stages, Errors
<1>1. UNCHANGED <<config, runtime, wiped, aborted, signals, outcome>>
  OBVIOUS
<1>2. /\ Completion' = Completion /\ (Attended <=> Attended') /\ (CanCancel <=> CanCancel')
      /\ (Loads <=> Loads') /\ (Bounded <=> Bounded') /\ (frame' = frame => Work' = Work)
  BY <1>1, Fixed
<1>3. TypeOK'
  <2>1. WorldOK'
    BY <1>1 DEF TypeOK, WorldOK, Running
  <2>2. ProgramOK'
    BY DEF TypeOK, ProgramOK, Dependents
  <2>3. ErrorsOK'
    BY DEF TypeOK, ErrorsOK
  <2>4. FlagsOK'
    BY DEF TypeOK, FlagsOK
  <2>5. InputOK'
    BY DEF TypeOK, InputOK
  <2> QED BY <2>1, <2>2, <2>3, <2>4, <2>5 DEF TypeOK
<1>4. Process' /\ Telling'
  BY <1>1, <1>2 DEF Process, Telling, Asked, Down, Running
<1>5. Protection'
  BY <1>1, <1>2 DEF Protection, ProtectedDataKept
<1>6. Failures'
  BY <1>1, <1>2 DEF Failures, Completing, Stacks
<1>7. Stacks'
  BY <1>1, <1>2 DEF Stacks, Completing
<1>8. Signals'
  BY <1>1, <1>2 DEF Signals, Completing, Failures, Stacks, Application, TypeOK, ErrorsOK
<1>9. Application'
  BY <1>1, <1>2 DEF Application, Completing, Retired, Stacks, Failures
<1>10. Receipts'
  BY <1>1, <1>2 DEF Receipts, Down, Stacks, Bounded
<1>11. Conclusion'
  BY <1>1 DEF Conclusion, Verdict
<1> QED BY <1>3, <1>4, <1>5, <1>6, <1>7, <1>8, <1>9, <1>10, <1>11

\* The session is over, whatever closed it.
LEMMA SessionClosesKeeps == Inv /\ SessionCloses => Inv'
<1> SUFFICES ASSUME Inv, SessionCloses PROVE Inv'
  OBVIOUS
<1> USE DEF Inv, SessionCloses, Calm, Stop, Worse, world, Going, Hosting, Stacking,
            Stages, Errors
<1>1. UNCHANGED <<config, runtime, wiped, aborted, signals, outcome>>
  OBVIOUS
<1>2. /\ Completion' = Completion /\ (Attended <=> Attended') /\ (CanCancel <=> CanCancel')
      /\ (Loads <=> Loads') /\ (Bounded <=> Bounded') /\ (frame' = frame => Work' = Work)
  BY <1>1, Fixed
<1>3. TypeOK'
  <2>1. WorldOK'
    BY <1>1 DEF TypeOK, WorldOK, Running
  <2>2. ProgramOK'
    BY DEF TypeOK, ProgramOK, Dependents
  <2>3. ErrorsOK'
    BY DEF TypeOK, ErrorsOK
  <2>4. FlagsOK'
    BY DEF TypeOK, FlagsOK
  <2>5. InputOK'
    BY DEF TypeOK, InputOK
  <2> QED BY <2>1, <2>2, <2>3, <2>4, <2>5 DEF TypeOK
<1>4. Process' /\ Telling'
  BY <1>1, <1>2 DEF Process, Telling, Asked, Down, Running
<1>5. Protection'
  BY <1>1, <1>2 DEF Protection, ProtectedDataKept
<1>6. Failures'
  BY <1>1, <1>2 DEF Failures, Completing
<1>7. Stacks'
  BY <1>1, <1>2 DEF Stacks, Completing
<1>8. Signals'
  BY <1>1, <1>2 DEF Signals, Completing
<1>9. Application'
  BY <1>1, <1>2 DEF Application, Completing, Retired
<1>10. Receipts'
  BY <1>1, <1>2 DEF Receipts, Down
<1>11. Conclusion'
  BY <1>1 DEF Conclusion, Verdict
<1> QED BY <1>3, <1>4, <1>5, <1>6, <1>7, <1>8, <1>9, <1>10, <1>11

\* The proofs over HTTP.
LEMMA HttpProofsKeeps == Inv /\ HttpProofs => Inv'
<1> SUFFICES ASSUME Inv, HttpProofs PROVE Inv'
  OBVIOUS
<1> USE DEF Inv, HttpProofs, Calm, Worse, Unwind, world, Going, Hosting, Stacking,
            Stages, Errors
<1>1. UNCHANGED <<config, runtime, wiped, aborted, signals, outcome>>
  OBVIOUS
<1>2. /\ Completion' = Completion /\ (Attended <=> Attended') /\ (CanCancel <=> CanCancel')
      /\ (Loads <=> Loads') /\ (Bounded <=> Bounded') /\ (frame' = frame => Work' = Work)
  BY <1>1, Fixed
<1>3. TypeOK'
  <2>1. WorldOK'
    BY <1>1 DEF TypeOK, WorldOK, Running
  <2>2. ProgramOK'
    BY DEF TypeOK, ProgramOK, Dependents
  <2>3. ErrorsOK'
    BY DEF TypeOK, ErrorsOK
  <2>4. FlagsOK'
    BY DEF TypeOK, FlagsOK
  <2>5. InputOK'
    BY DEF TypeOK, InputOK
  <2> QED BY <2>1, <2>2, <2>3, <2>4, <2>5 DEF TypeOK
<1>4. Process' /\ Telling'
  BY <1>1, <1>2 DEF Process, Telling, Asked, Down, Running
<1>5. Protection'
  BY <1>1, <1>2 DEF Protection, ProtectedDataKept
<1>6. Failures'
  BY <1>1, <1>2 DEF Failures, Completing, Stacks
<1>7. Stacks'
  BY <1>1, <1>2 DEF Stacks, Completing
<1>8. Signals'
  BY <1>1, <1>2 DEF Signals, Completing, Failures, Stacks, Application, TypeOK, ErrorsOK
<1>9. Application'
  BY <1>1, <1>2, Asking
    DEF Application, Stacks, Failures, Completing, Retired, Signals, Conclusion, TypeOK,
        ProgramOK, ErrorsOK, InputOK
<1>10. Receipts'
  BY <1>1, <1>2 DEF Receipts, Down, Stacks, Bounded
<1>11. Conclusion'
  BY <1>1 DEF Conclusion, Verdict
<1> QED BY <1>3, <1>4, <1>5, <1>6, <1>7, <1>8, <1>9, <1>10, <1>11

\* The application is gone, or the error says that it is not.
LEMMA HaltApplicationKeeps == Inv /\ HaltApplication => Inv'
<1> SUFFICES ASSUME Inv, HaltApplication PROVE Inv'
  OBVIOUS
<1> USE DEF Inv, HaltApplication, Calm, Stop, Worse, world, Going, Hosting,
            Stacking, Stages, Errors
<1>1. UNCHANGED <<config, runtime, wiped, aborted, signals, outcome>>
  OBVIOUS
<1>2. /\ Completion' = Completion /\ (Attended <=> Attended') /\ (CanCancel <=> CanCancel')
      /\ (Loads <=> Loads') /\ (Bounded <=> Bounded') /\ (frame' = frame => Work' = Work)
  BY <1>1, Fixed
<1>3. TypeOK'
  <2>1. WorldOK'
    BY <1>1 DEF TypeOK, WorldOK, Running
  <2>2. ProgramOK'
    BY DEF TypeOK, ProgramOK, Dependents
  <2>3. ErrorsOK'
    BY DEF TypeOK, ErrorsOK
  <2>4. FlagsOK'
    BY DEF TypeOK, FlagsOK
  <2>5. InputOK'
    BY DEF TypeOK, InputOK
  <2> QED BY <2>1, <2>2, <2>3, <2>4, <2>5 DEF TypeOK
<1>4. Process' /\ Telling'
  BY <1>1, <1>2 DEF Process, Telling, Asked, Down, Running
<1>5. Protection'
  BY <1>1, <1>2 DEF Protection, ProtectedDataKept
<1>6. Failures'
  BY <1>1, <1>2 DEF Failures, Completing
<1>7. Stacks'
  BY <1>1, <1>2 DEF Stacks, Completing
<1>8. Signals'
  BY <1>1, <1>2 DEF Signals, Completing
<1>9. Application'
  BY <1>1, <1>2 DEF Application, Completing, Retired
<1>10. Receipts'
  BY <1>1, <1>2 DEF Receipts, Down
<1>11. Conclusion'
  BY <1>1 DEF Conclusion, Verdict
<1> QED BY <1>3, <1>4, <1>5, <1>6, <1>7, <1>8, <1>9, <1>10, <1>11

\* The completion begins, with the error put by.
LEMMA PolicyKeeps == Inv /\ Policy => Inv'
<1> SUFFICES ASSUME Inv, Policy PROVE Inv'
  OBVIOUS
<1> USE DEF Inv, Policy, Aside, world, input, history, Going, Hosting, Stacking,
            Stages, Errors
<1>1. UNCHANGED <<config, runtime, wiped, aborted, signals, outcome>>
  OBVIOUS
<1>2. /\ Completion' = Completion /\ (Attended <=> Attended') /\ (CanCancel <=> CanCancel')
      /\ (Loads <=> Loads') /\ (Bounded <=> Bounded') /\ (frame' = frame => Work' = Work)
  BY <1>1, Fixed
<1>3. TypeOK'
  <2>1. WorldOK'
    BY <1>1 DEF TypeOK, WorldOK, Running
  <2>2. ProgramOK'
    BY DEF TypeOK, ProgramOK, Dependents
  <2>3. ErrorsOK'
    BY DEF TypeOK, ErrorsOK
  <2>4. FlagsOK'
    BY DEF TypeOK, FlagsOK
  <2>5. InputOK'
    BY DEF TypeOK, InputOK
  <2> QED BY <2>1, <2>2, <2>3, <2>4, <2>5 DEF TypeOK
<1>4. Process' /\ Telling'
  BY <1>1, <1>2 DEF Process, Telling, Asked, Down, Running
<1>5. Protection'
  BY <1>1, <1>2 DEF Protection, ProtectedDataKept
<1>6. Failures'
  BY <1>1, <1>2 DEF Failures, Completing, Stacks
<1>7. Stacks'
  BY <1>1, <1>2 DEF Stacks, Completing
<1>8. Signals'
  BY <1>1, <1>2 DEF Signals, Completing, Failures, Stacks, Application, TypeOK, ErrorsOK
<1>9. Application'
  BY <1>1, <1>2 DEF Application, Completing, Retired
<1>10. Receipts'
  BY <1>1, <1>2 DEF Receipts, Down, Stacks, Bounded
<1>11. Conclusion'
  BY <1>1 DEF Conclusion, Verdict
<1> QED BY <1>3, <1>4, <1>5, <1>6, <1>7, <1>8, <1>9, <1>10, <1>11

-----------------------------------------------------------------------------
(* The command and its processes.                                          *)

\* A process is launched with its job, and bound unless it is shielded.
LEMMA Launching ==
  ASSUME Inv, NEW of \in {"manager", "command"}, NEW a \in Actions \cup {"prove"},
         NEW t \in Targets, Launch(of, a, t)
  PROVE  /\ child' \in Children(Jobs) /\ Running'
         /\ child'.job.of = of /\ child'.job.action = a /\ child'.job.target = t
         /\ child'.job.phase = "guard" /\ child'.alive /\ child'.status = "none"
         /\ ~child'.flooded /\ (shielded => ~child'.bound)
         /\ (child'.told => child'.bound)
<1> DEFINE job == Job(of, a, t)
<1>1. job \in Jobs /\ job.of = of /\ job.action = a /\ job.target = t /\ job.phase = "guard"
  BY DEF Job, Jobs, Phases, Inv, TypeOK, WorldOK
<1> HIDE DEF job
<1>2. child' = Launched(job, CanCancel /\ ~shielded, aborted)
  BY DEF Launch, job
<1>3. (CanCancel /\ ~shielded) \in BOOLEAN /\ ((CanCancel /\ ~shielded) /\ aborted) \in BOOLEAN
  OBVIOUS
<1>4. child' \in Children(Jobs)
  BY <1>1, <1>2, <1>3 DEF Launched, Children
<1>5. Running'
  BY <1>4, NobodyIsNoChild DEF Running
<1> QED BY <1>1, <1>2, <1>4, <1>5 DEF Launched

\* What the end of a process means, and what its caller throws.
LEMMA Settling ==
  ASSUME Inv, Settle
  PROVE  /\ Running /\ child' = NoChild /\ ~Running'
         /\ Thrown \in Errors /\ lost' \in BOOLEAN
         /\ Thrown = "none" => child.status = "ok"
         /\ Thrown = "cancelled" => aborted
         /\ lost' => lost \/ Thrown = "incomplete"
         /\ mishap' \in {"none", "fault", "residue"} /\ (mishap # "none" => mishap' # "none")
         /\ Thrown = "incomplete" => mishap' # "none"
         /\ shielded /\ Thrown # "none" => mishap' # "none"
<1>1. Running /\ child' = NoChild /\ ~Running'
  BY DEF Settle, Settled, Closed, Overdue, Running
<1>2. child \in Children(Jobs)
  BY <1>1, Working
<1>3. CASE Closed
  <2>1. UNCHANGED <<mishap, lost>> /\ child.alive = FALSE
    BY <1>2, <1>3 DEF Settle, Closed, Children, Inv, TypeOK, FlagsOK
  <2>2. child.status \in {"ok", "failed"}
    BY <1>1, <1>2, <2>1 DEF Inv, Process, Children
  <2>3. Thrown = IF Cancelled THEN IF child.flooded THEN "failed" ELSE "cancelled"
                 ELSE IF Succeeded THEN "none" ELSE "failed"
    BY <1>3 DEF Thrown
  <2>4. child.flooded \/ child.status = "failed" =>
          mishap # "none" \/ child.bound
    BY <1>1 DEF Inv, Telling
  <2>5. shielded => ~child.bound /\ ~Cancelled
    BY <1>1 DEF Inv, Telling, Cancelled
  <2> QED BY <1>1, <2>1, <2>2, <2>3, <2>4, <2>5
          DEF Succeeded, Cancelled, Errors, Inv, TypeOK, FlagsOK, InputOK
<1>4. CASE ~Closed
  <2>1. Thrown = "incomplete"
    BY <1>4 DEF Thrown
  <2>2. mishap' \in {"fault", "residue"}
    BY <1>4, WorseIsWorse DEF Settle, Inv
  <2>3. lost' \in BOOLEAN
    BY DEF Settle
  <2> QED BY <1>1, <2>1, <2>2, <2>3 DEF Errors
<1> QED BY <1>3, <1>4

\* A process that is launched as its stage has it changes nothing else.
LEMMA LaunchKeeps ==
  ASSUME Inv, ~Running, stage \in {"execute", "cleanup", "prepare", "prove"},
         UNCHANGED <<program, verdict, history, config, world, group, stopping, input,
                     outcome>>,
         child' \in Children(Jobs), Running',
         stage \in {"execute", "cleanup"} =>
           child'.job.of = "manager" /\ child'.job.action = Asked
             /\ child'.job.target \in todo,
         stage \in {"prepare", "prove"} => child'.job.of = "command",
         stage = "execute" /\ Work \in Ending => \A u \in todo : u <= child'.job.target,
         child'.job.phase = "guard", child'.alive, child'.status = "none",
         ~child'.flooded, shielded => ~child'.bound, child'.told => child'.bound
  PROVE  Inv'
<1> USE DEF Inv, program, verdict, history, world, input
<1>1. /\ Completion' = Completion /\ (Attended <=> Attended') /\ (CanCancel <=> CanCancel')
      /\ (Loads <=> Loads') /\ (Bounded <=> Bounded') /\ Work' = Work
  BY Fixed
<1>2. TypeOK'
  BY DEF TypeOK, WorldOK, ProgramOK, ErrorsOK, FlagsOK, InputOK
<1>3. Process' /\ Telling'
  BY <1>1 DEF Process, Telling, Asked
<1>4. Protection' /\ Failures' /\ Stacks' /\ Signals'
  BY <1>1 DEF Protection, ProtectedDataKept, Failures, Stacks, Signals, Completing
<1>5. Application' /\ Conclusion'
  BY DEF Application, Completing, Retired, Conclusion, Verdict
<1>6. Receipts'
  BY <1>1 DEF Receipts, Down
<1> QED BY <1>2, <1>3, <1>4, <1>5, <1>6

\* A manager is launched for the next target of the stack.
LEMMA ExecuteTargetKeeps == Inv /\ ExecuteTarget => Inv'
<1> SUFFICES ASSUME Inv, ExecuteTarget PROVE Inv'
  OBVIOUS
<1> USE DEF Inv
<1>1. /\ stage = "execute" /\ ~Running /\ todo # {} /\ Launch("manager", Work, NextTarget)
      /\ UNCHANGED <<program, verdict, history, config, world, group, stopping, input, outcome>>
  BY DEF ExecuteTarget, Aside
<1>2. NextTarget \in todo /\ (Work \in Ending => \A u \in todo : u <= NextTarget)
  BY <1>1, Extremes DEF NextTarget, TypeOK, ProgramOK
<1>3. Work \in Actions
  BY Asking, <1>1 DEF Stacks, TypeOK, ProgramOK, Actions
<1>4. NextTarget \in Targets
  BY <1>2 DEF TypeOK, ProgramOK
<1>5. /\ child' \in Children(Jobs) /\ Running'
      /\ child'.job.of = "manager" /\ child'.job.action = Work /\ child'.job.target = NextTarget
      /\ child'.job.phase = "guard" /\ child'.alive /\ child'.status = "none"
      /\ ~child'.flooded /\ (shielded => ~child'.bound)
      /\ (child'.told => child'.bound)
  BY <1>1, <1>3, <1>4, Launching
<1>6. Asked = Work
  BY <1>1 DEF Asked
<1> HIDE DEF Inv
<1> QED BY <1>1, <1>2, <1>5, <1>6, LaunchKeeps

\* A manager is launched to take down the last target that is left.
LEMMA CleanTargetKeeps == Inv /\ CleanTarget => Inv'
<1> SUFFICES ASSUME Inv, CleanTarget PROVE Inv'
  OBVIOUS
<1>1. /\ stage = "cleanup" /\ ~Running /\ todo # {}
      /\ Launch("manager", Completion, Final(todo))
      /\ UNCHANGED <<program, verdict, history, config, world, group, stopping, input, outcome>>
  BY DEF CleanTarget, Aside
<1>2. Final(todo) \in todo /\ Final(todo) \in Targets
  BY <1>1, Extremes DEF Inv, TypeOK, ProgramOK
<1>3. Completion \in Actions /\ Asked = Completion
  BY Asking, <1>1 DEF Inv, Stacks, Actions, Asked
<1>4. /\ child' \in Children(Jobs) /\ Running'
      /\ child'.job.of = "manager" /\ child'.job.action = Completion
      /\ child'.job.target = Final(todo)
      /\ child'.job.phase = "guard" /\ child'.alive /\ child'.status = "none"
      /\ ~child'.flooded /\ (shielded => ~child'.bound)
      /\ (child'.told => child'.bound)
  BY <1>1, <1>2, <1>3, Launching
<1> QED BY <1>1, <1>2, <1>3, <1>4, LaunchKeeps

\* A command of the project is launched, or a dependent has none to launch.
LEMMA RunCommandKeeps == Inv /\ RunCommand => Inv'
<1> SUFFICES ASSUME Inv, RunCommand PROVE Inv'
  OBVIOUS
<1>1. /\ stage \in {"prepare", "prove"} /\ ~Running /\ todo # {}
      /\ UNCHANGED <<stage, frame, done, admitted, verdict, history, config, world, group,
                     stopping, input, outcome>>
  BY DEF RunCommand, Aside
<1>2. CASE Launch("command", "prove", ProofNext) /\ UNCHANGED todo
  <2>1. ProofNext \in Targets
    <3>1. 1 \in Targets
      BY SessionAssumption DEF Targets
    <3>2. todo \cap Dependents \subseteq Targets
      BY DEF Dependents
    <3> QED BY <3>1, <3>2, Extremes DEF ProofNext
  <2>2. /\ child' \in Children(Jobs) /\ Running' /\ child'.job.of = "command"
        /\ child'.job.phase = "guard" /\ child'.alive /\ child'.status = "none"
        /\ ~child'.flooded /\ (shielded => ~child'.bound)
        /\ (child'.told => child'.bound)
    BY <1>2, <2>1, Launching
  <2> QED BY <1>1, <1>2, <2>2, LaunchKeeps DEF program
<1>3. CASE todo' = todo \ {ProofNext} /\ UNCHANGED child
  <2> USE DEF Inv, verdict, history, world, input
  <2>1. /\ Completion' = Completion /\ (Attended <=> Attended') /\ (CanCancel <=> CanCancel')
        /\ (Loads <=> Loads') /\ (Bounded <=> Bounded') /\ Work' = Work
    BY <1>1, Fixed
  <2>2. TypeOK'
    BY <1>1, <1>3 DEF TypeOK, WorldOK, ProgramOK, ErrorsOK, FlagsOK, InputOK
  <2>3. Process' /\ Telling'
    BY <1>1, <1>3 DEF Process, Telling, Running
  <2>4. Protection' /\ Failures' /\ Stacks' /\ Signals'
    BY <1>1, <2>1
      DEF Protection, ProtectedDataKept, Failures, Stacks, Signals, Completing
  <2>5. Application' /\ Conclusion'
    BY <1>1 DEF Application, Completing, Retired, Conclusion, Verdict
  <2>6. Receipts'
    BY <1>1, <2>1 DEF Receipts, Down
  <2> QED BY <2>2, <2>3, <2>4, <2>5, <2>6
<1> QED BY <1>2, <1>3 DEF RunCommand

\* A target is executed and has its receipt, or the stack fails.
LEMMA TargetExecutedKeeps == Inv /\ TargetExecuted => Inv'
<1> SUFFICES ASSUME Inv, TargetExecuted PROVE Inv'
  OBVIOUS
<1> USE DEF Inv
<1>1. /\ stage = "execute" /\ Settle
      /\ UNCHANGED <<frame, admitted, held, missed, ticketLost, config, runtime, wiped,
                     group, stopping, aborted, closing, listener, signals, outcome>>
  BY DEF TargetExecuted, Aside, world, input
<1>2. /\ Completion' = Completion /\ (Attended <=> Attended') /\ (CanCancel <=> CanCancel')
      /\ (Loads <=> Loads') /\ (Bounded <=> Bounded') /\ Work' = Work
  BY <1>1, Fixed
<1>3. /\ Running /\ child' = NoChild /\ ~Running'
      /\ Thrown \in Errors /\ lost' \in BOOLEAN
      /\ Thrown = "cancelled" => aborted
      /\ lost' => lost \/ Thrown = "incomplete"
      /\ mishap' \in {"none", "fault", "residue"} /\ (mishap # "none" => mishap' # "none")
      /\ Thrown = "incomplete" => mishap' # "none"
      /\ shielded /\ Thrown # "none" => mishap' # "none"
  BY <1>1, Settling
<1>4. Process' /\ Telling'
  BY <1>3 DEF Process, Telling
<1>5. child.job.target \in todo /\ child.job.target \in Targets
  BY <1>1, <1>3 DEF Process, TypeOK, ProgramOK
<1>6. CASE /\ Thrown = "none"
           /\ done' = done \cup {child.job.target} /\ todo' = todo \ {child.job.target}
           /\ receipted' = IF frame = "main" THEN done' ELSE receipted
           /\ UNCHANGED <<stage, error, shielded>>
  <2>1. TypeOK'
    BY <1>1, <1>3, <1>5, <1>6 DEF TypeOK, WorldOK, ProgramOK, ErrorsOK, FlagsOK, InputOK
  <2>2. Protection' /\ Failures' /\ Stacks' /\ Signals'
    BY <1>1, <1>2, <1>3, <1>6
      DEF Protection, ProtectedDataKept, Failures, Stacks, Signals, Completing
  <2>3. Application' /\ Conclusion'
    BY <1>1, <1>6 DEF Application, Completing, Retired, Conclusion, Verdict
  <2>4. Work \in Ending => Down(child.job.target)
    <3>1. /\ child.job.of = "manager" /\ child.job.action = Work
          /\ child.job.phase = "finished"
      BY <1>1, <1>3, <1>6, Settling DEF Process, Asked
    <3> QED BY <1>3, <3>1 DEF Process
  <2>5. Receipts'
    BY <1>1, <1>2, <1>3, <1>5, <1>6, <2>4 DEF Receipts, Down, TypeOK, ProgramOK
  <2> QED BY <1>4, <2>1, <2>2, <2>3, <2>5
<1>7. CASE Thrown # "none" /\ StackFails(Thrown) /\ UNCHANGED receipted
  <2> USE DEF StackFails, Going, Hosting, Stacking
  <2>1. /\ error' = Thrown /\ done' = done
        /\ \/ /\ CleansUp /\ done # {} /\ stage' = "cleanup" /\ todo' = done
              /\ shielded' = TRUE
           \/ /\ ~(CleansUp /\ done # {}) /\ stage' = "leave" /\ todo' = todo
              /\ shielded' = shielded
    BY <1>7
  <2>2. TypeOK'
    <3>1. WorldOK' /\ FlagsOK'
      BY <1>1, <1>3, <2>1 DEF TypeOK, WorldOK, FlagsOK
    <3>2. ProgramOK' /\ ErrorsOK' /\ InputOK'
      BY <1>1, <1>3, <1>7, <2>1 DEF TypeOK, ProgramOK, ErrorsOK, InputOK, Stages
    <3> QED BY <3>1, <3>2 DEF TypeOK
  <2>3. CleansUp => Completion # "none" /\ frame = "main"
    BY Asking
  <2>4. Protection' /\ Stacks'
    BY <1>1, <1>2, <2>1, <2>3 DEF Protection, ProtectedDataKept, Stacks, Completing
  <2>5. Failures'
    BY <1>1, <1>2, <1>3, <1>7, <2>1, <2>3 DEF Failures, Stacks, Completing
  <2>6. Signals'
    BY <1>1, <1>2, <1>3, <1>7, <2>1 DEF Signals, Failures, Completing
  <2>7. Application' /\ Conclusion'
    BY <1>1, <1>7, <2>1 DEF Application, Completing, Retired, Conclusion, Verdict
  <2>8. Receipts'
    BY <1>1, <1>2, <1>3, <1>7, <2>1, <2>3, Asking DEF Receipts, Bounded, Down, Stacks
  <2> QED BY <1>4, <2>2, <2>4, <2>5, <2>6, <2>7, <2>8
<1> QED BY <1>6, <1>7 DEF TargetExecuted

\* A target is taken down, or its cleanup is missed.
LEMMA TargetCleanedKeeps == Inv /\ TargetCleaned => Inv'
<1> SUFFICES ASSUME Inv, TargetCleaned PROVE Inv'
  OBVIOUS
<1> USE DEF Inv
<1>1. /\ stage = "cleanup" /\ Settle
      /\ todo' = todo \ {child.job.target} /\ missed' = (missed \/ Thrown # "none")
      /\ UNCHANGED <<stage, frame, done, admitted, error, held, shielded, receipted,
                     ticketLost, config, runtime, wiped, group, stopping, aborted,
                     closing, listener, signals, outcome>>
  BY DEF TargetCleaned, Aside, world, input
<1>2. /\ Completion' = Completion /\ (Attended <=> Attended') /\ (CanCancel <=> CanCancel')
      /\ (Loads <=> Loads') /\ (Bounded <=> Bounded') /\ Work' = Work
  BY <1>1, Fixed
<1>3. /\ Running /\ child' = NoChild /\ ~Running' /\ lost' \in BOOLEAN
      /\ lost' => lost \/ Thrown = "incomplete"
      /\ mishap' \in {"none", "fault", "residue"} /\ (mishap # "none" => mishap' # "none")
      /\ shielded /\ Thrown # "none" => mishap' # "none"
  BY <1>1, Settling
<1>4. TypeOK'
  BY <1>1, <1>3 DEF TypeOK, WorldOK, ProgramOK, ErrorsOK, FlagsOK, InputOK
<1>5. Process' /\ Telling'
  BY <1>3 DEF Process, Telling
<1>6. Protection' /\ Stacks' /\ Signals'
  BY <1>1, <1>2 DEF Protection, ProtectedDataKept, Stacks, Signals, Completing
<1>7. Failures'
  BY <1>1, <1>2, <1>3 DEF Failures, Stacks, Completing
<1>8. Application' /\ Conclusion'
  BY <1>1 DEF Application, Completing, Retired, Conclusion, Verdict
<1>9. Thrown = "none" => Down(child.job.target)
  <2> SUFFICES ASSUME Thrown = "none" PROVE Down(child.job.target)
    OBVIOUS
  <2>1. /\ child.job.of = "manager" /\ child.job.action = Completion
        /\ child.job.phase = "finished"
    BY <1>1, <1>3, Settling DEF Process, Asked
  <2>2. Completion \in Ending
    BY <1>1, Asking DEF Stacks, Ending
  <2> QED BY <1>3, <2>1, <2>2 DEF Process
<1>10. Receipts'
  BY <1>1, <1>2, <1>3, <1>9 DEF Receipts, Down
<1> QED BY <1>4, <1>5, <1>6, <1>7, <1>8, <1>10

\* A command of the project has ended: on to the next, or unwind.
LEMMA CommandSettledKeeps == Inv /\ CommandSettled => Inv'
<1> SUFFICES ASSUME Inv, CommandSettled PROVE Inv'
  OBVIOUS
<1> USE DEF Inv
<1>1. /\ stage \in {"prepare", "prove"} /\ Settle
      /\ UNCHANGED <<frame, done, admitted, held, missed, shielded, receipted, ticketLost,
                     config, runtime, wiped, group, stopping, aborted, closing, listener,
                     signals, outcome>>
  BY DEF CommandSettled, Aside, world, input
<1>2. /\ Completion' = Completion /\ (Attended <=> Attended') /\ (CanCancel <=> CanCancel')
      /\ (Loads <=> Loads') /\ (Bounded <=> Bounded') /\ Work' = Work
  BY <1>1, Fixed
<1>3. /\ Running /\ child' = NoChild /\ ~Running'
      /\ Thrown \in Errors /\ lost' \in BOOLEAN
      /\ Thrown = "cancelled" => aborted
      /\ lost' => lost \/ Thrown = "incomplete"
      /\ mishap' \in {"none", "fault", "residue"} /\ (mishap # "none" => mishap' # "none")
      /\ Thrown = "incomplete" => mishap' # "none"
  BY <1>1, Settling
<1>4. Process' /\ Telling'
  BY <1>3 DEF Process, Telling
<1>5. CASE Thrown = "none" /\ todo' = todo \ {child.job.target} /\ UNCHANGED <<stage, error>>
  <2>1. TypeOK'
    BY <1>1, <1>3, <1>5 DEF TypeOK, WorldOK, ProgramOK, ErrorsOK, FlagsOK, InputOK
  <2>2. Protection' /\ Failures' /\ Stacks' /\ Signals'
    BY <1>1, <1>2, <1>3, <1>5
      DEF Protection, ProtectedDataKept, Failures, Stacks, Signals, Completing
  <2>3. Application' /\ Conclusion'
    BY <1>1, <1>5 DEF Application, Completing, Retired, Conclusion, Verdict
  <2>4. Receipts'
    BY <1>1, <1>2, <1>5 DEF Receipts, Down
  <2> QED BY <1>4, <2>1, <2>2, <2>3, <2>4
<1>6. CASE Thrown # "none" /\ Unwind(Thrown) /\ UNCHANGED todo
  <2> USE DEF Going, Hosting, Stacking
  <2>1. /\ error' = Thrown
        /\ \/ ~Attended /\ stage' = "end"
           \/ Attended /\ stage' = "halt" /\ group # "none"
           \/ Attended /\ stage' = "policy" /\ group = "none" /\ listener = "command"
    <3>1. Attended => listener = "command"
      BY <1>1, Asking DEF Signals, Conclusion, TypeOK, InputOK
    <3> QED BY <1>6, <3>1 DEF Unwind
  <2>2. TypeOK'
    <3>1. WorldOK' /\ FlagsOK'
      BY <1>1, <1>3 DEF TypeOK, WorldOK, FlagsOK
    <3>2. ProgramOK' /\ ErrorsOK' /\ InputOK'
      BY <1>1, <1>3, <1>6, <2>1 DEF TypeOK, ProgramOK, ErrorsOK, InputOK, Stages
    <3> QED BY <3>1, <3>2 DEF TypeOK
  <2>3. frame # "policy" /\ error = "none" /\ (~Attended => stage = "prepare")
    BY <1>1 DEF Stacks, Failures
  <2>4. Protection' /\ Stacks'
    BY <1>1, <1>2, <2>1, <2>3 DEF Protection, ProtectedDataKept, Stacks, Completing
  <2>5. Failures'
    BY <1>1, <1>2, <1>3, <1>6, <2>1, <2>3 DEF Failures, Completing
  <2>6. Signals'
    BY <1>1, <1>2, <1>3, <1>6, <2>1, <2>3 DEF Signals, Completing
  <2>7. Application' /\ Conclusion'
    BY <1>1, <1>6, <2>1, <2>3 DEF Application, Completing, Retired, Conclusion, Verdict
  <2>8. Receipts'
    BY <1>1, <1>2, <2>1, <2>3 DEF Receipts, Bounded, Down
  <2> QED BY <1>4, <2>2, <2>4, <2>5, <2>6, <2>7, <2>8
<1> QED BY <1>5, <1>6 DEF CommandSettled

\* The outcome follows from the error and the cancellation.
LEMMA FinishKeeps == Inv /\ Finish => Inv'
<1> SUFFICES ASSUME Inv, Finish PROVE Inv'
  OBVIOUS
<1> USE DEF Inv, world, processes, program, verdict, history
<1>1. /\ stage = "end" /\ outcome = "none" /\ listener' = "none" /\ outcome' = Verdict
      /\ UNCHANGED <<config, world, processes, program, verdict, aborted, closing, signals,
                     history>>
  BY DEF Finish, Verdict
<1>2. /\ Completion' = Completion /\ (Attended <=> Attended') /\ (CanCancel <=> CanCancel')
      /\ (Loads <=> Loads') /\ (Bounded <=> Bounded') /\ Work' = Work
  BY <1>1, Fixed
<1>3. Verdict \in Errors \cup {"ok"} /\ Verdict' = Verdict
  BY <1>1 DEF Verdict, Errors, TypeOK, ErrorsOK
<1>4. TypeOK'
  BY <1>1, <1>3 DEF TypeOK, WorldOK, ProgramOK, ErrorsOK, FlagsOK, InputOK
<1>5. Process' /\ Telling'
  BY <1>1, <1>2 DEF Process, Telling, Running
<1>6. Protection' /\ Failures' /\ Stacks'
  BY <1>1, <1>2 DEF Protection, ProtectedDataKept, Failures, Stacks, Completing
<1>7. Signals'
  BY <1>1, <1>2, <1>3 DEF Signals, Completing, Verdict
<1>8. Application' /\ Conclusion'
  BY <1>1, <1>3 DEF Application, Completing, Retired, Conclusion
<1>9. Receipts'
  BY <1>1, <1>2 DEF Receipts, Down
<1> QED BY <1>4, <1>5, <1>6, <1>7, <1>8, <1>9

-----------------------------------------------------------------------------
(* The invariant, and what follows from it.                                *)

LEMMA Beginning == Init => Inv
<1> SUFFICES ASSUME Init PROVE Inv
  OBVIOUS
<1>1. Init
  OBVIOUS
<1>2. /\ stage = "begin" /\ frame = "main" /\ todo = {} /\ done = {} /\ receipted = {}
      /\ error = "none" /\ held = "none" /\ outcome = "none" /\ mishap = "none"
      /\ ~missed /\ ~shielded /\ ~aborted /\ ~lost /\ closing = "no" /\ signals = 0
      /\ group = "none" /\ stopping = "no" /\ wiped = {} /\ child = NoChild
      /\ listener = IF CanCancel THEN "command" ELSE "none"
  BY DEF Init, CanCancel
<1>3. TypeOK
  <2>1. WorldOK
    BY DEF Init, WorldOK, Levels, Errors
  <2>2. ProgramOK /\ ErrorsOK /\ InputOK
    BY <1>2 DEF ProgramOK, ErrorsOK, InputOK, Stages, Going, Errors
  <2>3. FlagsOK
    BY DEF Init, FlagsOK
  <2> QED BY <2>1, <2>2, <2>3 DEF TypeOK
<1>4. Process /\ Telling
  BY <1>2 DEF Process, Telling, Running
<1>5. Protection /\ Failures
  BY <1>2 DEF Protection, ProtectedDataKept, Failures, Completing
<1>6. Stacks /\ Signals
  BY <1>2 DEF Stacks, Signals, Completing, Hosting
<1>7. Application /\ Receipts /\ Conclusion
  BY <1>2 DEF Application, Receipts, Conclusion, Completing, Retired
<1> QED BY <1>3, <1>4, <1>5, <1>6, <1>7 DEF Inv

LEMMA Induction == Inv /\ [Next]_vars => Inv'
<1> SUFFICES ASSUME Inv, [Next]_vars PROVE Inv'
  OBVIOUS
<1>1. CASE ManagerStep
  BY <1>1, ManagerStartsKeeps, ManagerRefusesKeeps, ManagerChangesKeeps,
     ManagerFailsKeeps,
     ManagerUndoesKeeps, ManagerFailsToUndoKeeps, ManagerFinishesKeeps, ManagerExitsKeeps,
     CommandExitsKeeps, Zenon DEF ManagerStep
<1>2. CASE ProcessStep
  BY <1>2, ProcessKilledKeeps, ProcessFloodsKeeps, ProcessForcedKeeps,
     OutputClosesKeeps,
     Zenon DEF ProcessStep
<1>3. CASE StackStep
  BY <1>3, AdmitKeeps, CheckKeeps, ExecuteTargetKeeps, ExecuteRefusedKeeps,
     TargetExecutedKeeps, CleanTargetKeeps, CleanRefusedKeeps, TargetCleanedKeeps,
     CleanupEndsKeeps, StackCompletesKeeps, LeaveKeeps, Zenon DEF StackStep
<1>4. CASE CommandStep
  BY <1>4, BeginKeeps, ReturnMainKeeps, ReturnVerifyKeeps, ReturnPolicyKeeps,
     RunCommandKeeps, CommandSettledKeeps, PreparedKeeps, LaunchApplicationKeeps,
     LaunchFailsKeeps, ApplicationReadyKeeps, StartupFailsKeeps, HandoffKeeps,
     HttpProofsKeeps, HaltApplicationKeeps, PolicyKeeps, FinishKeeps, Zenon DEF CommandStep
<1>5. CASE UNCHANGED vars
  <2> USE DEF Inv, vars, world, processes, program, verdict, input, history
  <2>1. /\ Completion' = Completion /\ (Attended <=> Attended') /\ (CanCancel <=> CanCancel')
        /\ (Loads <=> Loads') /\ (Bounded <=> Bounded') /\ (frame' = frame => Work' = Work)
    BY <1>5, Fixed
  <2>2. TypeOK'
    BY <1>5 DEF TypeOK, WorldOK, ProgramOK, ErrorsOK, FlagsOK, InputOK
  <2>3. Process' /\ Telling'
    BY <1>5, <2>1 DEF Process, Telling, Asked, Down, Running
  <2>4. Protection' /\ Failures' /\ Stacks' /\ Signals'
    BY <1>5, <2>1
      DEF Protection, ProtectedDataKept, Failures, Stacks, Signals, Completing
  <2>5. Application' /\ Conclusion'
    BY <1>5 DEF Application, Completing, Retired, Conclusion, Verdict
  <2>6. Receipts'
    BY <1>5, <2>1 DEF Receipts, Down, Running
  <2> QED BY <2>2, <2>3, <2>4, <2>5, <2>6
<1> QED BY <1>1, <1>2, <1>3, <1>4, <1>5, SignalKeeps, ApplicationStepKeeps,
           SessionClosesKeeps, Zenon DEF Next

\* The inductive invariant holds throughout.
THEOREM Invariant == Spec => []Inv
<1>1. Init => Inv
  BY Beginning
<1>2. Inv /\ [Next]_vars => Inv'
  BY Induction
<1> QED BY <1>1, <1>2, PTL DEF Spec

-----------------------------------------------------------------------------
(* What went wrong reaches the end of the command.                         *)

Grave(e) == e \in {"failed", "incomplete"}

\* The process that is waited for has failed, or is about to.
Spoiled ==
  Running /\ \/ child.flooded \/ child.status = "failed"
             \/ child.job.of = "manager" /\ child.alive /\ child.job.phase = "failing"

\* What failed is among the errors that are thrown, or will be when the process
\* has ended, unless the command was cancelled by then; and what a cleanup or
\* the completion missed is part of the error.
Reported ==
  /\ mishap # "none" => \/ aborted \/ Grave(error) \/ Spoiled
                        \/ Completing /\ Grave(held)
  /\ missed => \/ stage = "cleanup"
               \/ stage \in {"leave", "return", "end"} /\ frame # "verify"
                    /\ error = "incomplete"
               \/ stage = "end" /\ held = "none" /\ error = "failed"
  /\ Completing => error # "cancelled"
  /\ stage = "cleanup" /\ error = "cancelled" => aborted

\* A step that leaves the errors and the way to them as they are.
LEMMA ErrorsStay ==
  ASSUME Inv, Reported, UNCHANGED <<stage, frame, error, held, missed>>,
         aborted => aborted',
         mishap' # "none" => aborted' \/ Spoiled' \/ (mishap # "none" /\ (Spoiled => Spoiled'))
  PROVE  Reported'
BY DEF Reported, Completing, Grave

\* Whatever a process does that the command waits for.
LEMMA ProcessReported ==
  ASSUME Inv, Reported, ManagerStep \/ ProcessStep
  PROVE  Reported'
<1>1. UNCHANGED <<stage, frame, error, held, missed, aborted>>
  BY DEF ManagerStep, ProcessStep, ManagerStarts, ManagerRefuses, ManagerChanges, ManagerFails,
         ManagerUndoes, ManagerFailsToUndo, ManagerFinishes, ManagerExits, CommandExits,
         ProcessKilled, ProcessFloods, ProcessForced, OutputCloses, Quiet, program, verdict, input
<1>2. Running
  BY DEF ManagerStep, ProcessStep, ManagerStarts, ManagerRefuses, ManagerChanges, ManagerFails,
         ManagerUndoes, ManagerFailsToUndo, ManagerFinishes, ManagerExits, CommandExits,
         ProcessKilled, ProcessFloods, ProcessForced, OutputCloses, Manager, KilledExits, Flood,
         ForceTimer, PipesClose
<1>3. child \in Children(Jobs) /\ child.job \in Jobs
  BY <1>2 DEF Inv, TypeOK, WorldOK, Running, Children
<1>4. ASSUME NEW s \in {"ok", "failed"}, child' = Exited(child, s)
      PROVE  /\ s = "failed" => Spoiled'
             /\ child.flooded => Spoiled'
  BY <1>2, <1>4, Stopped, NobodyIsNoChild DEF Spoiled, Running
<1>5. ASSUME NEW p \in Phases, Phase(p)
      PROVE  /\ child.flooded => Spoiled'
             /\ child.job.of = "manager" /\ child.alive /\ p = "failing" => Spoiled'
             /\ child.status = "failed" => Spoiled'
  BY <1>2, <1>5, Phased, NobodyIsNoChild DEF Spoiled, Running
<1>6. CASE ManagerStarts \/ ManagerChanges \/ ManagerFinishes
  <2>1. /\ UNCHANGED mishap /\ child.job.phase # "failing"
        /\ \E p \in Phases : Phase(p)
    BY <1>6 DEF ManagerStarts, ManagerChanges, ManagerFinishes, Manager, Phases
  <2> QED BY <1>1, <1>5, <2>1, ErrorsStay DEF Spoiled
<1>7. CASE ManagerRefuses \/ ManagerUndoes \/ ManagerFailsToUndo \/ ProcessKilled
  <2>1. child' = Exited(child, "failed")
    BY <1>7 DEF ManagerRefuses, ManagerUndoes, ManagerFailsToUndo, ProcessKilled, KilledExits
  <2> QED BY <1>1, <1>4, <2>1, ErrorsStay
<1>8. CASE ManagerFails
  <2>1. CASE child.job.action \in Undoable
    <3>1. Phase("failing") /\ child.job.of = "manager" /\ child.alive
      BY <1>8, <2>1 DEF ManagerFails, Phase, Manager
    <3> QED BY <1>1, <1>5, <3>1, ErrorsStay DEF Phases
  <2>2. CASE child.job.action \notin Undoable
    <3>1. child' = Exited(child, "failed")
      BY <1>8, <2>2 DEF ManagerFails
    <3> QED BY <1>1, <1>4, <3>1, ErrorsStay
  <2> QED BY <2>1, <2>2
<1>9. CASE ManagerExits
  <2>1. /\ UNCHANGED mishap /\ child.job.phase = "finished" /\ child.alive
        /\ \E s \in {"ok", "failed"} : child' = Exited(child, s)
    BY <1>9 DEF ManagerExits, Manager
  <2>2. child.status = "none"
    BY <1>2, <2>1 DEF Inv, Process
  <2> QED BY <1>1, <1>4, <2>1, <2>2, ErrorsStay DEF Spoiled
<1>10. CASE CommandExits
  <2>1. child.job.of = "command" /\ child.alive
    BY <1>10 DEF CommandExits
  <2>2. PICK s \in {"ok", "failed"} :
          /\ child' = Exited(child, s)
          /\ IF s = "ok" \/ child.told THEN UNCHANGED mishap ELSE Worse("fault")
    BY <1>10 DEF CommandExits
  <2>3. child.status = "none"
    BY <1>2, <2>1 DEF Inv, Process
  <2> QED BY <1>1, <1>4, <2>1, <2>2, <2>3, ErrorsStay DEF Spoiled
<1>11. CASE ProcessFloods
  <2>1. child' = [child EXCEPT !.flooded = TRUE, !.told = TRUE]
    BY <1>11 DEF ProcessFloods, Flood
  <2>2. child' \in Children(Jobs) /\ child'.flooded
    BY <1>3, <2>1 DEF Children
  <2>3. Spoiled'
    BY <2>2, NobodyIsNoChild DEF Spoiled, Running
  <2> QED BY <1>1, <2>3, ErrorsStay
<1>12. CASE ProcessForced \/ OutputCloses
  <2>1. /\ UNCHANGED mishap
        /\ \/ child' = [child EXCEPT !.forced = TRUE]
           \/ child' = [child EXCEPT !.piped = FALSE]
    BY <1>12 DEF ProcessForced, OutputCloses, ForceTimer, PipesClose
  <2>2. /\ child' \in Children(Jobs) /\ child'.flooded = child.flooded
        /\ child'.status = child.status /\ child'.job = child.job /\ child'.alive = child.alive
    BY <1>3, <2>1 DEF Children
  <2>3. Spoiled => Spoiled'
    BY <2>2, NobodyIsNoChild DEF Spoiled, Running
  <2> QED BY <1>1, <2>1, <2>3, ErrorsStay
<1> QED BY <1>6, <1>7, <1>8, <1>9, <1>10, <1>11, <1>12 DEF ManagerStep, ProcessStep

\* An interruption, the application and the launch of a process change no error.
LEMMA OthersReported ==
  ASSUME Inv, Reported,
         \/ Signal \/ ApplicationStep \/ Finish \/ ExecuteTarget \/ CleanTarget \/ RunCommand
         \/ UNCHANGED vars
  PROVE  Reported'
<1>1. CASE Signal
  <2>1. UNCHANGED <<stage, frame, error, held, missed, mishap>> /\ (aborted => aborted')
        /\ (aborted' \/ UNCHANGED child)
    BY <1>1 DEF Signal, program, verdict, history
  <2> QED BY <2>1, ErrorsStay DEF Spoiled, Running
<1>2. CASE ApplicationStep \/ Finish \/ UNCHANGED vars
  <2>1. UNCHANGED <<stage, frame, error, held, missed, mishap, aborted, child>>
    BY <1>2 DEF ApplicationStep, LeaderExits, OrphansExit, ObserveGroup, GroupEnds, Finish, vars,
                processes, program, verdict, history, input
  <2> QED BY <2>1, ErrorsStay DEF Spoiled, Running
<1>3. CASE ExecuteTarget \/ CleanTarget \/ RunCommand
  <2>1. UNCHANGED <<stage, frame, error, held, missed, mishap, aborted>> /\ ~Spoiled
    BY <1>3 DEF ExecuteTarget, CleanTarget, RunCommand, Aside, program, verdict, history, input,
                Spoiled
  <2> QED BY <2>1, ErrorsStay
<1> QED BY <1>1, <1>2, <1>3

\* What the end of a process leaves of it.
LEMMA SettlingReported ==
  ASSUME Inv, Settle
  PROVE  /\ ~Spoiled' /\ (Spoiled => Thrown # "none")
         /\ mishap' = mishap \/ Thrown = "incomplete"
         /\ Thrown # "none" => Grave(Thrown) \/ aborted
         /\ shielded => Thrown # "cancelled"
<1>1. Running /\ ~Running' /\ Thrown \in Errors /\ (Thrown = "cancelled" => aborted)
      /\ (Thrown = "none" => child.status = "ok")
  BY Settling
<1>2. child.flooded => Thrown # "none"
  BY <1>1 DEF Thrown, Succeeded
<1>3. child.alive => Thrown # "none"
  BY DEF Thrown, Closed
<1>4. mishap' = mishap \/ Thrown = "incomplete"
  BY DEF Settle, Thrown
<1>5. shielded => Thrown # "cancelled"
  BY DEF Thrown, Cancelled
<1> QED BY <1>1, <1>2, <1>3, <1>4, <1>5 DEF Spoiled, Errors, Grave

\* A stack of targets.
LEMMA StackReported ==
  ASSUME Inv, Reported, StackStep, ~ExecuteTarget, ~CleanTarget
  PROVE  Reported'
<1> USE DEF Grave, Completing
<1>1. error \in Errors /\ missed \in BOOLEAN
  BY DEF Inv, TypeOK, ErrorsOK, FlagsOK
<1>2. CASE TargetExecuted
  <2>1. /\ stage = "execute" /\ Settle /\ UNCHANGED <<frame, held, missed, aborted>>
        /\ error = "none" /\ ~missed
    BY <1>1, <1>2 DEF TargetExecuted, Aside, input, Inv, Failures, Going, Reported
  <2>2. CASE Thrown = "none" /\ UNCHANGED <<stage, error>>
    BY <2>1, <2>2, SettlingReported DEF Reported
  <2>3. CASE Thrown # "none" /\ StackFails(Thrown)
    <3>1. error' = Thrown /\ stage' \in {"cleanup", "leave"}
      BY <2>3 DEF StackFails
    <3>2. Completing => Thrown # "cancelled"
      BY <2>1, SettlingReported DEF Inv, Stacks
    <3>3. stage' = "leave" \/ frame' = "main"
      BY <2>1, <2>3 DEF StackFails, CleansUp
    <3> QED BY <2>1, <2>3, <3>1, <3>2, SettlingReported, Settling DEF Reported
  <2> QED BY <1>2, <2>2, <2>3 DEF TargetExecuted
<1>3. CASE TargetCleaned
  <2>1. /\ stage = "cleanup" /\ Settle
        /\ UNCHANGED <<stage, frame, error, held, aborted>>
    BY <1>3 DEF TargetCleaned, Aside, input
  <2>2. error # "none" /\ frame = "main"
    BY <2>1 DEF Inv, Failures, Stacks
  <2> QED BY <1>1, <2>1, <2>2, SettlingReported DEF Reported, Errors
<1>4. CASE CleanupEnds
  <2>1. /\ stage = "cleanup" /\ stage' = "leave" /\ ~Running
        /\ error' = IF missed THEN "incomplete" ELSE error
        /\ UNCHANGED <<frame, held, missed, aborted, mishap>> /\ frame = "main" /\ error # "none"
        /\ ~Spoiled
    BY <1>4 DEF CleanupEnds, Aside, input, history, Inv, Failures, Stacks, Spoiled
  <2> QED BY <1>1, <2>1 DEF Reported, Errors
<1>5. CASE Leave
  <2>1. /\ stage = "leave" /\ stage' = "return" /\ UNCHANGED <<frame, held, missed, aborted, child>>
        /\ \/ UNCHANGED <<error, mishap>>
           \/ error' = IF error = "none" THEN "failed" ELSE "incomplete"
    BY <1>5 DEF Leave, Aside, input
  <2>2. Spoiled' <=> Spoiled
    BY <2>1 DEF Spoiled, Running
  <2> QED BY <1>1, <2>1, <2>2 DEF Reported, Errors
<1>6. CASE CleanRefused
  <2>1. /\ stage = "cleanup" /\ UNCHANGED <<stage, frame, error, held, aborted>> /\ error # "none"
    BY <1>6 DEF CleanRefused, Aside, input, Inv, Failures
  <2> QED BY <1>1, <2>1 DEF Reported, Errors, Inv, Stacks
<1>7. CASE Admit \/ Check \/ ExecuteRefused \/ StackCompletes
  <2>1. /\ stage \in {"admit", "check", "execute"} /\ error = "none" /\ ~missed
        /\ UNCHANGED <<frame, held, missed, aborted>> /\ frame' = frame
        /\ stage' \in {"check", "return", "execute", "leave", "cleanup"}
    BY <1>1, <1>7 DEF Admit, Check, ExecuteRefused, StackCompletes, StackFails, Aside, input, Inv,
                      Failures, Going, Reported
  <2>2. ~Running
    BY <1>7 DEF Admit, Check, ExecuteRefused, StackCompletes, Inv, Process
  <2>3. \/ error' = "none" /\ mishap' = mishap /\ stage' # "cleanup"
        \/ error' = "failed"
        \/ error' = "cancelled" /\ Cancelled /\ mishap' = mishap /\ stage' # "cleanup"
    BY <1>7, <2>1 DEF Admit, Check, ExecuteRefused, StackCompletes, StackFails
  <2>4. Completing => shielded
    BY DEF Inv, Stacks
  <2> QED BY <2>1, <2>2, <2>3, <2>4 DEF Reported, Spoiled, Cancelled
<1> QED BY <1>2, <1>3, <1>4, <1>5, <1>6, <1>7 DEF StackStep

\* The steps between the stacks.
LEMMA CommandReported ==
  ASSUME Inv, Reported, CommandStep \/ SessionCloses, ~RunCommand, ~Finish
  PROVE  Reported'
<1> USE DEF Grave, Completing
<1>1. error \in Errors /\ held \in Errors /\ missed \in BOOLEAN
  BY DEF Inv, TypeOK, ErrorsOK, FlagsOK
<1>2. CASE CommandSettled
  <2>1. /\ stage \in {"prepare", "prove"} /\ Settle
        /\ UNCHANGED <<frame, held, missed, aborted>>
        /\ error = "none" /\ ~missed /\ frame # "policy"
    BY <1>1, <1>2 DEF CommandSettled, Aside, input, Inv, Failures, Stacks, Stacking, Going, Reported
  <2>2. CASE Thrown = "none" /\ UNCHANGED <<stage, error>>
    BY <2>1, <2>2, SettlingReported DEF Reported
  <2>3. CASE Thrown # "none" /\ Unwind(Thrown)
    <3>1. error' = Thrown /\ stage' \in {"end", "halt", "policy"}
      BY <2>3 DEF Unwind
    <3> QED BY <2>1, <2>3, <3>1, SettlingReported DEF Reported
  <2> QED BY <1>2, <2>2, <2>3 DEF CommandSettled
<1>3. ASSUME ~CommandSettled PROVE ~Running /\ ~Running'
  <2>1. ~Running
    BY <1>3 DEF CommandStep, SessionCloses, Begin, ReturnMain, ReturnVerify, ReturnPolicy, Prepared,
       LaunchApplication, LaunchFails, ApplicationReady, StartupFails, Handoff, HttpProofs,
       HaltApplication, Policy, Inv, Process
  <2>2. UNCHANGED child
    BY <1>3 DEF CommandStep, SessionCloses, Begin, ReturnMain, ReturnVerify, ReturnPolicy, Prepared,
       LaunchApplication, LaunchFails, ApplicationReady, StartupFails, Handoff, HttpProofs,
       HaltApplication, Policy, Calm
  <2> QED BY <2>1, <2>2 DEF Running
<1>4. ASSUME Begin \/ ReturnMain \/ ReturnVerify \/ Prepared
      PROVE  Reported'
  <2>1. /\ ~Spoiled /\ UNCHANGED <<held, missed, aborted>> /\ frame # "policy"
        /\ stage \in {"begin", "return", "prepare"}
    BY <1>3, <1>4 DEF Begin, ReturnMain, ReturnVerify, Prepared, CommandSettled, Spoiled, Aside,
       input, verdict, Inv, Stacks, Stacking
  <2>2. CASE Begin
    <3>1. error = "none" /\ ~missed /\ UNCHANGED frame
      BY <1>1, <2>1, <2>2 DEF Begin, Inv, Failures, Going, Reported
    <3> QED BY <2>1, <2>2, <3>1 DEF Begin, Reported
  <2>3. CASE ReturnMain
    BY <1>1, <2>1, <2>3 DEF ReturnMain, Reported, verdict, history
  <2>4. CASE ReturnVerify
    BY <1>1, <2>1, <2>4 DEF ReturnVerify, Reported, verdict, history
  <2>5. CASE Prepared
    <3>1. error = "none" /\ ~missed
      BY <1>1, <2>5 DEF Prepared, Inv, Failures, Going, Reported
    <3> QED BY <2>1, <2>5, <3>1 DEF Prepared, Reported, verdict, history
  <2> QED BY <1>4, <2>2, <2>3, <2>4, <2>5
<1>5. CASE ReturnPolicy
  <2>1. /\ stage = "return" /\ frame = "policy" /\ stage' = "end"
        /\ UNCHANGED <<held, frame, aborted, mishap>>
        /\ missed' = (missed \/ error # "none") /\ error # "cancelled" /\ ~Spoiled
        /\ error' = CASE error = "none" -> held
                      [] error # "none" /\ (held # "none" \/ aborted) -> "incomplete"
                      [] OTHER -> error
    BY <1>3, <1>5 DEF ReturnPolicy, Aside, input, history, Reported, Spoiled, CommandSettled
  <2>2. CASE error = "none"
    BY <1>1, <2>1, <2>2 DEF Reported
  <2>3. CASE error # "none" /\ (held # "none" \/ aborted)
    BY <1>1, <2>1, <2>3 DEF Reported
  <2>4. CASE error # "none" /\ held = "none" /\ ~aborted
    <3>1. error' = error /\ error \in {"failed", "incomplete"}
      BY <1>1, <2>1, <2>4 DEF Errors
    <3> QED BY <2>1, <2>4, <3>1 DEF Reported
  <2> QED BY <2>2, <2>3, <2>4
<1>6. CASE Policy
  <2>1. /\ stage = "policy" /\ ~missed /\ ~Spoiled /\ UNCHANGED <<missed, aborted, mishap>>
        /\ \/ stage' = "end" /\ UNCHANGED <<error, held, frame>>
           \/ stage' = "admit" /\ frame' = "policy" /\ held' = error /\ error' = "none"
    BY <1>1, <1>3, <1>6 DEF Policy, Aside, input, history, Reported, Spoiled, CommandSettled
  <2>2. frame # "policy"
    BY <2>1 DEF Inv, Stacks, Stacking
  <2> QED BY <1>1, <2>1, <2>2 DEF Reported
<1>7. CASE HaltApplication
  <2>1. /\ stage = "halt" /\ stage' \in {"halt", "policy"} /\ ~missed /\ ~Spoiled
        /\ UNCHANGED <<frame, held, missed, aborted>>
        /\ \/ UNCHANGED <<error, mishap>>
           \/ error' \in {"failed", "incomplete"}
    BY <1>1, <1>3, <1>7 DEF HaltApplication, Calm, Reported, Spoiled, CommandSettled
  <2>2. frame # "policy"
    BY <2>1 DEF Inv, Stacks, Stacking
  <2> QED BY <1>1, <1>3, <1>7, <2>1, <2>2 DEF Reported, CommandSettled
<1>8. CASE LaunchApplication \/ LaunchFails \/ ApplicationReady \/ StartupFails \/ Handoff
           \/ HttpProofs \/ SessionCloses
  <2>1. /\ error = "none" /\ ~missed /\ ~Spoiled /\ frame # "policy"
        /\ UNCHANGED <<frame, held, missed, aborted>>
    BY <1>1, <1>3, <1>8 DEF LaunchApplication, LaunchFails, ApplicationReady, StartupFails, Handoff,
       HttpProofs, SessionCloses, Calm, Inv, Failures, Stacks, Stacking, Going, Reported, Spoiled,
       CommandSettled
  <2>2. stage' \notin {"cleanup"} /\ stage' \in {"halt", "ready", "end", "policy", "prove",
                                                "handoff", "attach", "hold"}
    BY <1>8 DEF LaunchApplication, LaunchFails, ApplicationReady, StartupFails, Handoff,
       HttpProofs, SessionCloses, Unwind
  <2>3. mishap' # "none" => mishap # "none" \/ error' = "failed"
    BY <1>8 DEF LaunchApplication, LaunchFails, ApplicationReady, StartupFails, Handoff,
       HttpProofs, SessionCloses, Unwind
  <2> QED BY <2>1, <2>2, <2>3 DEF Reported
<1> QED BY <1>2, <1>4, <1>5, <1>6, <1>7, <1>8 DEF CommandStep

\* What went wrong is on record in every reachable state.
THEOREM ReportedHolds == Spec => []Reported
<1>1. Init => Reported
  BY DEF Init, Reported
<1>2. Inv /\ Reported /\ [Next]_vars => Reported'
  BY ProcessReported, OthersReported, StackReported, CommandReported
    DEF Next, StackStep, CommandStep
<1> QED BY <1>1, <1>2, Invariant, PTL DEF Spec

-----------------------------------------------------------------------------
(* The properties of the session.                                          *)

\* Whatever a command does, and however it fails, is undone or interrupted, no
\* protected target loses its data, and nobody does in a stack that does not
\* load.
THEOREM ProtectionHolds == Spec => []ProtectedDataKept
<1>1. Inv => ProtectedDataKept
  BY DEF Inv, Protection
<1> QED BY <1>1, Invariant, PTL

\* The outcome that a command reports is what happened: a failure for a step
\* that failed before any cancellation, incomplete for an end that is unconfirmed
\* and for a cleanup or completion that failed on top of another error, never
\* incomplete for an interruption alone, cancelled for the signal that cancelled.
THEOREM OutcomesAreTrue == Spec => []OutcomeIsTrue
<1>1. ASSUME Inv PROVE CleanupNotCutShort
  <2> SUFFICES ASSUME outcome = "incomplete" PROVE mishap # "none"
    BY DEF CleanupNotCutShort
  <2>1. error = "incomplete"
    BY <1>1 DEF Inv, Conclusion, Verdict
  <2> QED BY <1>1, <2>1 DEF Inv, Failures
<1>2. ASSUME Inv PROVE UnconfirmedIsReported
  <2> SUFFICES ASSUME Ended, lost PROVE outcome = "incomplete" \/ stopping = "stuck"
    BY DEF UnconfirmedIsReported
  <2>1. stage = "end" /\ outcome = Verdict
    BY <1>2 DEF Inv, Conclusion, Ended
  <2>2. stopping = "stuck" \/ error = "incomplete"
    BY <1>2, <2>1 DEF Inv, Failures, Completing
  <2> QED BY <2>1, <2>2 DEF Verdict
<1>3. ASSUME Inv PROVE SignalHasOneMeaning
  <2> SUFFICES ASSUME Ended, signals = 1
               PROVE  /\ closing = "session" => outcome # "cancelled"
                      /\ closing = "startup" => ~aborted /\ outcome # "ok"
    BY DEF SignalHasOneMeaning
  <2>1. stage = "end" /\ outcome = Verdict
    BY <1>3 DEF Inv, Conclusion, Ended
  <2>2. /\ ~aborted \/ closing = "no"
        /\ error = "cancelled" => aborted \/ closing = "startup"
        /\ closing = "startup" => error # "none"
    BY <1>3, <2>1 DEF Inv, Signals, Completing
  <2>3. error \in Errors
    BY <1>3 DEF Inv, TypeOK, ErrorsOK
  <2> QED BY <2>1, <2>2, <2>3 DEF Verdict, Errors
<1>4. ASSUME Inv, Reported, Ended
      PROVE  /\ stage = "end" /\ outcome = Verdict /\ error \in Errors
             /\ mishap # "none" => aborted \/ Grave(error)
             /\ missed => error = "incomplete" \/ (held = "none" /\ error = "failed")
  <2>1. stage = "end" /\ outcome = Verdict /\ error \in Errors
    BY <1>4 DEF Inv, Conclusion, Ended, TypeOK, ErrorsOK
  <2>2. ~Running
    BY <1>4, <2>1 DEF Inv, Process
  <2>3. ~Completing /\ ~Spoiled /\ stage # "cleanup"
    BY <2>1, <2>2 DEF Completing, Spoiled
  <2>4. mishap # "none" => aborted \/ Grave(error)
    BY <1>4, <2>3 DEF Reported
  <2>5. missed => error = "incomplete" \/ (held = "none" /\ error = "failed")
    BY <1>4, <2>3 DEF Reported
  <2> QED BY <2>1, <2>4, <2>5
<1>5. ASSUME Inv, Reported PROVE MishapIsTold
  BY <1>4, <1>5 DEF MishapIsTold, Verdict, Grave
<1>6. ASSUME Inv, Reported PROVE FailedCleanupIsTold
  BY <1>4, <1>6 DEF FailedCleanupIsTold, Verdict
<1>7. Inv /\ Reported => OutcomeIsTrue
  BY <1>1, <1>2, <1>3, <1>5, <1>6 DEF OutcomeIsTrue
<1> QED BY <1>7, Invariant, ReportedHolds, PTL

\* A command leaves no application behind that it does not report.
THEOREM ApplicationsAreRetired == Spec => []ApplicationRetired
<1>1. ASSUME Inv PROVE ApplicationRetired
  <2> SUFFICES ASSUME Ended
               PROVE  \/ group \in {"none", "gone"}
                      \/ stopping = "stuck" /\ outcome # "ok"
    BY DEF ApplicationRetired
  <2>1. stage = "end" /\ outcome = Verdict
    BY <1>1 DEF Inv, Conclusion, Ended
  <2>2. Retired(error) /\ error \in Errors
    BY <1>1, <2>1 DEF Inv, Application, TypeOK, ErrorsOK
  <2> QED BY <2>1, <2>2 DEF Retired, Verdict, Errors
<1> QED BY <1>1, Invariant, PTL

\* Only the runtime of the target whose manager is running ever changes.
LEMMA RuntimeMoves ==
  ASSUME Inv, [Next]_vars, NEW t \in Targets, runtime'[t] # runtime[t]
  PROVE  Running /\ child.job.of = "manager" /\ child.job.target = t
<1> USE DEF vars, world, program, verdict, input, history
<1>1. ASSUME ManagerChanges \/ ManagerUndoes
      PROVE  Running /\ child.job.of = "manager" /\ child.job.target = t
  BY <1>1 DEF ManagerChanges, ManagerUndoes, Manager, Inv, TypeOK, WorldOK
<1>2. ASSUME ManagerStep, ~ManagerChanges, ~ManagerUndoes PROVE UNCHANGED runtime
  BY <1>2
    DEF ManagerStep, ManagerStarts, ManagerRefuses, ManagerFails, ManagerFailsToUndo,
        ManagerFinishes, ManagerExits, CommandExits
<1>3. ASSUME ProcessStep \/ ApplicationStep \/ Signal PROVE UNCHANGED runtime
  BY <1>3
    DEF ProcessStep, ProcessKilled, ProcessFloods, ProcessForced, OutputCloses,
        ApplicationStep, Signal
<1>4. ASSUME StackStep PROVE UNCHANGED runtime
  BY <1>4
    DEF StackStep, Admit, Check, ExecuteTarget, ExecuteRefused, TargetExecuted,
        CleanTarget, CleanRefused, TargetCleaned, CleanupEnds, StackCompletes, Leave, Aside
<1>5. ASSUME CommandStep \/ SessionCloses PROVE UNCHANGED runtime
  BY <1>5
    DEF CommandStep, Begin, ReturnMain, ReturnVerify, ReturnPolicy, RunCommand,
        CommandSettled, Prepared, LaunchApplication, LaunchFails, ApplicationReady,
        StartupFails, Handoff, HttpProofs, HaltApplication, Policy, Finish, SessionCloses,
        Aside, Calm
<1>6. ASSUME UNCHANGED vars PROVE UNCHANGED runtime
  BY <1>6
<1> QED BY <1>1, <1>2, <1>3, <1>4, <1>5, <1>6 DEF Next

\* A stack is taken down from its dependents to its primary; and however run or
\* open ends, a completion mode leaves no target running for which the command
\* has a receipt, unless that is reported or the ticket was lost.
THEOREM StacksGoDown == Spec => StackGoesDown
<1>1. ASSUME Inv PROVE ReceiptedTargetsDown
  <2> SUFFICES ASSUME Ended, Bounded, ~ticketLost,
                      NEW t \in receipted, runtime[t] = "running"
               PROVE  missed /\ outcome # "ok"
    BY DEF ReceiptedTargetsDown
  <2>1. stage = "end" /\ outcome = Verdict
    BY <1>1 DEF Inv, Conclusion, Ended
  <2>2. missed /\ error # "none" /\ error \in Errors
    BY <1>1, <2>1 DEF Inv, Receipts, Down, TypeOK, ErrorsOK
  <2> QED BY <2>1, <2>2 DEF Verdict, Errors
<1>2. ASSUME Inv, [Next]_vars, NEW t \in Targets, NEW u \in Targets,
             runtime[t] = "running", runtime'[t] # "running",
             stage = "execute", Work \in Ending, t < u
      PROVE  runtime[u] # "running"
  <2>1. Running /\ child.job.target = t
    BY <1>2, RuntimeMoves
  <2>2. u \notin todo
    <3>1. \A v \in todo : v <= t
      BY <1>2, <2>1 DEF Inv, Receipts
    <3>2. t \in Nat /\ u \in Nat
      BY SessionAssumption DEF Targets
    <3> QED BY <1>2, <3>1, <3>2
  <2> QED BY <1>2, <2>2 DEF Inv, Receipts, Down
<1>3. Inv /\ [Next]_vars =>
        [\A t \in Targets :
           /\ runtime[t] = "running" /\ runtime'[t] # "running"
           /\ stage = "execute" /\ Work \in Ending
           => \A u \in Targets : t < u => runtime[u] # "running"]_vars
  BY <1>2
<1> QED BY <1>1, <1>3, Invariant, PTL DEF Spec, StackGoesDown, DependentsDownFirst

-----------------------------------------------------------------------------
(* The measurement of pending migrations. *)

\* The steps of a measurement: those that follow its look at the receipt, and
\* those of them that follow its look at the container.
Opened == {"first", "second", "third", "send", "run", "fail", "conclude", "rereading"}
Located == {"inspect"} \cup Opened
Steps == {"idle", "reading", "open"} \cup Located

Sessions == {"none", "preflight", "lock", "check", "count", "done", "failed"}

\* What the command and its session remember are records with these fields.
ClientOK ==
  client \in [at : Steps, check : {"none", "opened", "before", "after", "final"},
              held : {client.held}, candidates : {client.candidates},
              tasks : {client.tasks}, gen : {client.gen},
              receipt : {client.receipt}, protected : {client.protected},
              box : {client.box}, retirement : {client.retirement}, failed : BOOLEAN]

SessionOK ==
  session \in [at : Sessions, oids : {session.oids}, locks : {session.locks},
               snap : {session.snap}, task : {session.task}, counts : {session.counts},
               truth : {session.truth}]

\* Every inode and every container has a number of its own, given out in order.
NumbersOK ==
  /\ receipt \in [id : Nat, gen : {receipt.gen}, protected : BOOLEAN]
  /\ retirement \in [id : Nat, of : {retirement.of}]
  /\ box \in [id : Nat, up : BOOLEAN, configured : BOOLEAN, new : BOOLEAN]
  /\ last \in Nat /\ receipt.id <= last /\ retirement.id <= last /\ box.id <= last

\* A receipt is the one the command has opened, or a later one.
OfReceipt(r) ==
  /\ r.id \in Nat /\ client.receipt <= r.id
  /\ r.id = client.receipt => r.gen = client.gen /\ r.protected = client.protected

\* So is a retirement that the command goes by, and it keeps that receipt.
OfRetirement(r) ==
  client.retirement # None =>
    /\ r.id \in Nat /\ client.retirement <= r.id
    /\ r.id = client.retirement => r.of = client.receipt

\* The container that the command has opened is taken for what it is.
OfBox(b) == b.configured <=> client.retirement = None

ReceiptKnown ==
  client.at \in Located => client.receipt \in Nat /\ OfReceipt(receipt)

ContainerKnown ==
  /\ client.at \in {"open", "inspect"} => client.retirement = None
  /\ client.at \in Opened =>
       /\ client.box \in Nat /\ client.box <= box.id
       /\ box.id = client.box => OfBox(box)
       /\ client.retirement \in Nat \cup {None}
       /\ client.retirement # None => client.protected
       /\ OfRetirement(retirement)
  /\ client.at \in {"first", "second", "third", "run"} => client.check # "none"

\* A session that runs does so in the container that was opened.
Active == {"preflight", "lock", "check", "count"}
InContainer ==
  session.at \in Active => client.at = "run" /\ box.id = client.box /\ box.up

\* What was noted of the runtime at the instant of the snapshot.
Instant(w) ==
  /\ OfReceipt(w.receipt) /\ w.receipt.id <= receipt.id
  /\ OfRetirement(w.retirement)
  /\ client.retirement # None => w.retirement.id <= retirement.id
  /\ OfBox(w.box) /\ w.box.up

Countable == session.at \in {"check", "count"} \/ Counted(session.counts) # {}
Witnessed == Countable => client.at \in Opened /\ Instant(session.truth)

\* The last look at the container vouches for the container and its retirement,
\* the last look at the receipt for the receipt.
KeptBox(w) == w.box.configured \/ (client.protected /\ w.retirement.of = client.receipt)
Reviewed(w, gen) ==
  /\ w.receipt.gen = gen /\ w.box.up
  /\ w.box.configured \/ (w.receipt.protected /\ w.retirement.of = w.receipt.id)
Confirmed ==
  Counted(session.counts) # {} =>
    /\ client.at = "third" /\ client.check = "final" => KeptBox(session.truth)
    /\ client.at \in {"conclude", "rereading"} => Reviewed(session.truth, client.gen)

ImpactInv ==
  /\ ClientOK /\ SessionOK /\ NumbersOK
  /\ ReceiptKnown /\ ContainerKnown /\ InContainer /\ Witnessed /\ Confirmed
  /\ MeasuredAsReviewed

-----------------------------------------------------------------------------

\* A report with counts stands for an instant that was reviewed.
LEMMA NothingCounted ==
  /\ Measurements(Nothing) = {} /\ Counted(Nothing) = {}
  /\ Counted(<<>>) = {}
<1>1. Counted(Nothing) = {} /\ Counted(<<>>) = {}
  BY DEF Counted, Nothing
<1> QED BY <1>1 DEF Measurements

\* Where the command ends, only what it says matters.
LEMMA EndKeeps ==
  ASSUME ImpactInv, NEW said, End(said), UNCHANGED <<sandbox, last>>,
         said.measured # {} => Reviewed(said.truth, said.gen)
  PROVE  ImpactInv'
<1> USE DEF ImpactInv
<1>1. client' = Blank /\ session' = NoSession /\ report' = said
  BY DEF End
<1>2. ClientOK' /\ SessionOK'
  BY <1>1 DEF ClientOK, SessionOK, Blank, NoSession, Steps, Sessions
<1>3. NumbersOK'
  BY DEF NumbersOK, sandbox
<1>4. ReceiptKnown' /\ ContainerKnown' /\ InContainer'
  BY <1>1 DEF ReceiptKnown, ContainerKnown, InContainer, Blank, NoSession, Located,
    Opened, Active
<1>5. Counted(session'.counts) = {} /\ session'.at = "none"
  BY <1>1, NothingCounted DEF NoSession
<1>6. Witnessed' /\ Confirmed'
  BY <1>5 DEF Witnessed, Confirmed, Countable
<1>7. MeasuredAsReviewed'
  BY <1>1 DEF MeasuredAsReviewed, Reviewed
<1> QED BY <1>2, <1>3, <1>4, <1>6, <1>7

LEMMA RefuseKeeps == ASSUME ImpactInv, Refuse PROVE ImpactInv'
BY EndKeeps DEF Refuse, NoReport, others

LEMMA GiveUpKeeps == ASSUME ImpactInv, GiveUp PROVE ImpactInv'
BY EndKeeps, NothingCounted DEF GiveUp, Report, others

-----------------------------------------------------------------------------

\* Most steps of the command change nothing but what it remembers.
LEMMA ContinueKeeps ==
  ASSUME ImpactInv, NEW c, Continue(c), ClientOK', ReceiptKnown', ContainerKnown',
         InContainer', Witnessed', Confirmed'
  PROVE  ImpactInv'
<1>1. UNCHANGED <<session, receipt, retirement, box, last, report>>
  BY DEF Continue, sandbox, others
<1> QED BY <1>1 DEF ImpactInv, SessionOK, NumbersOK, MeasuredAsReviewed

LEMMA BeginReadingKeeps ==
  ASSUME ImpactInv, NEW from \in {"idle", "conclude"}, NEW to, BeginReading(from, to),
         to = IF from = "idle" THEN "reading" ELSE "rereading"
  PROVE  ImpactInv'
<1> USE DEF ImpactInv
<1>1. CASE Continue([client EXCEPT !.at = to, !.held = Hold])
  <2> DEFINE c == [client EXCEPT !.at = to, !.held = Hold]
  <2>1. client' = c /\ UNCHANGED <<session, receipt, retirement, box, last, report>>
    BY <1>1 DEF Continue, sandbox, others
  <2>2. client.at = from
    BY DEF BeginReading
  <2>3. /\ client'.at = to /\ client'.gen = client.gen /\ client'.receipt = client.receipt
        /\ client'.protected = client.protected /\ client'.box = client.box
        /\ client'.retirement = client.retirement
    BY <2>1 DEF ClientOK
  <2>4. ClientOK'
    BY <2>1 DEF ClientOK, Steps, Located, Opened
  <2>5. ReceiptKnown' /\ ContainerKnown' /\ InContainer'
    BY <2>1, <2>2, <2>3 DEF ReceiptKnown, ContainerKnown, InContainer, OfReceipt,
      OfRetirement, OfBox, Located, Opened
  <2>6. Witnessed' /\ Confirmed'
    BY <2>1, <2>2, <2>3 DEF Witnessed, Confirmed, Countable, Instant, OfReceipt,
      OfRetirement, OfBox, Opened
  <2> QED BY <1>1, <2>4, <2>5, <2>6, ContinueKeeps
<1> QED BY <1>1, RefuseKeeps DEF BeginReading

LEMMA ReadingKeeps == ASSUME ImpactInv, Measure \/ ReadAgain PROVE ImpactInv'
<1>1. CASE BeginReading("idle", "reading")
  BY <1>1, BeginReadingKeeps
<1>2. CASE BeginReading("conclude", "rereading")
  BY <1>2, BeginReadingKeeps
<1> QED BY <1>1, <1>2 DEF Measure, ReadAgain

LEMMA PrepareKeeps ==
  ASSUME ImpactInv, Prepare
  PROVE  ImpactInv'
<1> USE DEF ImpactInv
<1> DEFINE tasks == Tasks(client.held.candidates)
           said == [NoReport EXCEPT !.status = Status(client.held.candidates, {}),
                                    !.candidates = client.held.candidates, !.gen = active]
           c == [Blank EXCEPT !.at = "open", !.candidates = client.held.candidates,
                              !.tasks = tasks, !.gen = active]
<1>1. CASE End(said) /\ UNCHANGED <<project, sandbox, database, confirmed, others>>
  <2>1. said.measured = {}
    BY DEF NoReport
  <2> QED BY <1>1, <2>1, EndKeeps DEF others
<1>2. CASE client' = c /\ report' = NoReport
           /\ UNCHANGED <<project, sandbox, database, session, left, confirmed, others>>
  <2>1. UNCHANGED <<session, receipt, retirement, box, last>> /\ client.at = "reading"
    BY <1>2 DEF sandbox, others, Prepare
  <2>2. client'.at = "open" /\ client'.retirement = None
    BY <1>2 DEF Blank
  <2>3. ClientOK' /\ SessionOK' /\ NumbersOK'
    <3>1. client' = [at |-> "open", check |-> "none", held |-> None,
                     candidates |-> client.held.candidates, tasks |-> tasks,
                     gen |-> active, receipt |-> None,
                     protected |-> FALSE, box |-> None, retirement |-> None,
                     failed |-> FALSE]
      BY <1>2 DEF Blank
    <3>2. ClientOK'
      BY <3>1 DEF ClientOK, Steps, Located, Opened
    <3> QED BY <2>1, <3>2 DEF SessionOK, NumbersOK
  <2>4. ReceiptKnown' /\ ContainerKnown' /\ InContainer'
    BY <2>1, <2>2 DEF ReceiptKnown, ContainerKnown, InContainer, Located, Opened
  <2>5. Witnessed' /\ Confirmed'
    BY <2>1, <2>2 DEF Witnessed, Confirmed, Countable, Opened
  <2>6. MeasuredAsReviewed'
    BY <1>2 DEF MeasuredAsReviewed, NoReport
  <2> QED BY <2>3, <2>4, <2>5, <2>6
<1> QED BY <1>1, <1>2, RefuseKeeps DEF Prepare

\* What was counted is reported only after the last looks at the runtime.
LEMMA ConcludeKeeps ==
  ASSUME ImpactInv, Conclude
  PROVE  ImpactInv'
<1> USE DEF ImpactInv
<1> DEFINE said == Report(session.counts)
<1>1. CASE End(said) /\ UNCHANGED <<project, sandbox, database, confirmed, others>>
  <2>1. /\ said.measured = Measurements(session.counts)
        /\ said.gen = client.gen /\ said.truth = session.truth
    BY DEF Report
  <2>2. said.measured # {} => Counted(session.counts) # {}
    BY <2>1 DEF Measurements
  <2>3. said.measured # {} => Reviewed(said.truth, said.gen)
    BY <2>1, <2>2 DEF Conclude, Confirmed
  <2> QED BY <1>1, <2>3, EndKeeps DEF others
<1> QED BY <1>1, RefuseKeeps DEF Conclude

LEMMA OpenReceiptKeeps ==
  ASSUME ImpactInv, OpenReceipt
  PROVE  ImpactInv'
<1> USE DEF ImpactInv
<1> DEFINE c == [client EXCEPT !.at = "inspect", !.receipt = receipt.id,
                               !.protected = receipt.protected]
<1>1. CASE MarkerMatches /\ Continue(c)
  <2>1. client' = c /\ UNCHANGED <<session, receipt, retirement, box, last, report>>
    BY <1>1 DEF Continue, sandbox, others
  <2>2. client.at = "open"
    BY DEF OpenReceipt
  <2>3. /\ client'.at = "inspect" /\ client'.gen = client.gen
        /\ client'.receipt = receipt.id /\ client'.protected = receipt.protected
        /\ client'.retirement = client.retirement
    BY <2>1 DEF ClientOK
  <2>4. ClientOK'
    BY <2>1 DEF ClientOK, Steps, Located, Opened
  <2>5. ReceiptKnown' /\ ContainerKnown' /\ InContainer'
    BY <1>1, <2>1, <2>2, <2>3 DEF ReceiptKnown, ContainerKnown, InContainer, OfReceipt,
      MarkerMatches, NumbersOK, Located, Opened
  <2>6. Witnessed' /\ Confirmed'
    BY <2>1, <2>2, <2>3 DEF Witnessed, Confirmed, Countable, Opened
  <2> QED BY <1>1, <2>4, <2>5, <2>6, ContinueKeeps
<1> QED BY <1>1, RefuseKeeps DEF OpenReceipt

LEMMA OpenContainerKeeps ==
  ASSUME ImpactInv, OpenContainer
  PROVE  ImpactInv'
<1> USE DEF ImpactInv
<1> DEFINE c == [client EXCEPT !.at = "first", !.check = "opened", !.box = box.id,
                               !.retirement = NotedRetirement]
<1>1. CASE Answers /\ Continue(c)
  <2>1. client' = c /\ UNCHANGED <<session, receipt, retirement, box, last, report>>
    BY <1>1 DEF Continue, sandbox, others
  <2>2. client.at = "inspect"
    BY DEF OpenContainer
  <2>3. /\ client'.at = "first" /\ client'.check = "opened" /\ client'.gen = client.gen
        /\ client'.receipt = client.receipt /\ client'.protected = client.protected
        /\ client'.box = box.id /\ client'.retirement = NotedRetirement
    BY <2>1 DEF ClientOK
  <2>4. ClientOK'
    BY <2>1 DEF ClientOK, Steps, Located, Opened
  <2>5. ReceiptKnown' /\ InContainer'
    BY <2>1, <2>2, <2>3 DEF ReceiptKnown, InContainer, OfReceipt, Located, Opened
  <2>6. ContainerKnown'
    <3>1. CASE box.configured
      BY <2>1, <2>2, <2>3, <3>1 DEF ContainerKnown, OfRetirement, OfBox, NumbersOK,
        NotedRetirement, Opened
    <3>2. CASE ~box.configured
      <4>1. client'.retirement = retirement.id /\ retirement.id \in Nat
        BY <2>3, <3>2 DEF NotedRetirement, NumbersOK
      <4>2. client.protected /\ retirement.of = client.receipt
        BY <1>1, <3>2 DEF Answers, RetiredImage
      <4> QED BY <2>1, <2>3, <3>2, <4>1, <4>2, ImpactAssumption
              DEF ContainerKnown, OfRetirement, OfBox, NumbersOK, Opened
    <3> QED BY <3>1, <3>2
  <2>7. Witnessed' /\ Confirmed'
    BY <2>1, <2>2, <2>3 DEF Witnessed, Confirmed, Countable, Opened
  <2> QED BY <1>1, <2>4, <2>5, <2>6, <2>7, ContinueKeeps
<1> QED BY <1>1, RefuseKeeps DEF OpenContainer

\* From one look to the next, what was opened stays what it was.
LEMMA OpenedStays ==
  ASSUME ImpactInv, NEW c, Continue(c), ClientOK', client.at \in Opened,
         client'.at \in Opened,
         client'.at \in {"first", "second", "third", "run"} => client'.check # "none",
         client'.gen = client.gen, client'.receipt = client.receipt,
         client'.protected = client.protected, client'.box = client.box,
         client'.retirement = client.retirement,
         client.at = "run" => session.at \notin Active,
         Confirmed'
  PROVE  ImpactInv'
<1> USE DEF ImpactInv
<1>1. UNCHANGED <<session, receipt, retirement, box, last, report>>
  BY DEF Continue, sandbox, others
<1>2. session.at \notin Active
  BY DEF InContainer
<1>3. ReceiptKnown' /\ ContainerKnown' /\ InContainer'
  BY <1>1, <1>2 DEF ReceiptKnown, ContainerKnown, InContainer, OfReceipt, OfRetirement,
    OfBox, Located, Opened
<1>4. Witnessed'
  BY <1>1 DEF Witnessed, Countable, Instant, OfReceipt, OfRetirement, OfBox
<1> QED BY <1>3, <1>4, ContinueKeeps

LEMMA AssertReceiptKeeps ==
  ASSUME ImpactInv, AssertReceipt
  PROVE  ImpactInv'
<1> USE DEF ImpactInv
<1>1. CASE Continue([client EXCEPT !.at = "second"])
  <2>1. client' = [client EXCEPT !.at = "second"] /\ client.at = "first"
        /\ UNCHANGED session
    BY <1>1 DEF Continue, AssertReceipt
  <2>2. /\ ClientOK' /\ client'.at = "second" /\ client'.check = client.check
        /\ client'.gen = client.gen /\ client'.receipt = client.receipt
        /\ client'.protected = client.protected /\ client'.box = client.box
        /\ client'.retirement = client.retirement
    BY <2>1 DEF ClientOK, Steps, Located, Opened
  <2>3. Confirmed'
    BY <2>1, <2>2 DEF Confirmed
  <2> QED BY <1>1, <2>1, <2>2, <2>3, OpenedStays DEF Opened, ContainerKnown
<1> QED BY <1>1, RefuseKeeps DEF AssertReceipt

\* The container that answers now answered at the instant of the snapshot.
LEMMA AssertContainerKeeps ==
  ASSUME ImpactInv, AssertContainer
  PROVE  ImpactInv'
<1> USE DEF ImpactInv
<1>1. CASE /\ box.id = client.box /\ Answers
           /\ Continue([client EXCEPT !.at = "third", !.retirement = NotedRetirement])
  <2>1. /\ client' = [client EXCEPT !.at = "third", !.retirement = NotedRetirement]
        /\ client.at = "second" /\ UNCHANGED session
    BY <1>1 DEF Continue, AssertContainer
  <2>2. OfBox(box) /\ client.retirement \in Nat \cup {None} /\ OfRetirement(retirement)
    BY <1>1, <2>1 DEF ContainerKnown, Opened
  <2>3. ~box.configured => /\ client.protected /\ retirement.of = client.receipt
                           /\ client.retirement = retirement.id
    BY <1>1, <2>2 DEF Answers, RetiredImage, OfBox
  <2>4. NotedRetirement = client.retirement
    BY <2>2, <2>3 DEF NotedRetirement
  <2>5. /\ ClientOK' /\ client'.at = "third" /\ client'.check = client.check
        /\ client'.gen = client.gen /\ client'.receipt = client.receipt
        /\ client'.protected = client.protected /\ client'.box = client.box
        /\ client'.retirement = client.retirement
    BY <2>1, <2>4 DEF ClientOK, Steps, Located, Opened
  <2>6. Confirmed'
    <3> DEFINE w == session.truth
    <3>1. SUFFICES ASSUME Counted(session.counts) # {} PROVE KeptBox(w)'
      BY <2>1, <2>5 DEF Confirmed
    <3>2. Instant(w)
      BY <3>1 DEF Witnessed, Countable
    <3>3. CASE box.configured
      BY <2>1, <2>2, <3>2, <3>3 DEF Instant, OfBox, KeptBox
    <3>4. CASE ~box.configured
      <4>1. /\ w.retirement.id \in Nat /\ client.retirement <= w.retirement.id
            /\ w.retirement.id <= retirement.id /\ retirement.id \in Nat
            /\ w.retirement.id = client.retirement => w.retirement.of = client.receipt
        BY <2>2, <3>2, <3>4 DEF Instant, OfBox, OfRetirement, NumbersOK
      <4>2. w.retirement.of = client.receipt
        BY <2>3, <3>4, <4>1
      <4> QED BY <2>1, <2>3, <2>5, <3>4, <4>2 DEF KeptBox
    <3> QED BY <3>3, <3>4
  <2> QED BY <1>1, <2>1, <2>5, <2>6, OpenedStays DEF Opened, ContainerKnown
<1> QED BY <1>1, RefuseKeeps DEF AssertContainer

\* The receipt that stands now stood at the instant of the snapshot.
LEMMA AssertReceiptAgainKeeps ==
  ASSUME ImpactInv, AssertReceiptAgain
  PROVE  ImpactInv'
<1> USE DEF ImpactInv
<1>1. CASE ReceiptStands /\ Continue(Passed)
  <2>1. client' = Passed /\ client.at = "third" /\ UNCHANGED session
    BY <1>1 DEF Continue, AssertReceiptAgain
  <2>2. client.check \in {"opened", "before", "after", "final"}
    BY <2>1 DEF ContainerKnown, ClientOK
  <2>3. /\ ClientOK' /\ client'.at \in Opened \ {"third"} /\ client'.check # "none"
        /\ client'.gen = client.gen /\ client'.receipt = client.receipt
        /\ client'.protected = client.protected /\ client'.box = client.box
        /\ client'.retirement = client.retirement
        /\ client'.at \in {"conclude", "rereading"} => client.check = "final"
    <3> USE DEF ClientOK, Steps, Located, Opened
    <3>1. CASE client.check = "opened"
      BY <2>1, <3>1 DEF Passed
    <3>2. CASE client.check = "before"
      BY <2>1, <3>2 DEF Passed
    <3>3. CASE client.check = "after" /\ client.failed
      BY <2>1, <3>3 DEF Passed
    <3>5. CASE client.check = "after" /\ ~client.failed
      BY <2>1, <3>5 DEF Passed
    <3>4. CASE client.check = "final"
      BY <2>1, <3>4 DEF Passed
    <3> QED BY <2>2, <3>1, <3>2, <3>3, <3>4, <3>5
  <2>4. Confirmed'
    <3> DEFINE w == session.truth
    <3>1. SUFFICES ASSUME Counted(session.counts) # {}, client.check = "final"
                   PROVE  Reviewed(w, client.gen)
      BY <2>1, <2>3 DEF Confirmed, Reviewed
    <3>2. Instant(w) /\ KeptBox(w)
      BY <2>1, <3>1 DEF Witnessed, Countable, Confirmed
    <3>3. w.receipt.id = client.receipt
      BY <1>1, <2>1, <3>2 DEF Instant, OfReceipt, ReceiptStands, SameReceipt, NumbersOK,
        ReceiptKnown, Located, Opened
    <3> QED BY <3>2, <3>3 DEF Instant, OfReceipt, KeptBox, Reviewed
  <2> QED BY <1>1, <2>1, <2>3, <2>4, OpenedStays DEF Opened
<1> QED BY <1>1, RefuseKeeps DEF AssertReceiptAgain

LEMMA ReceiveKeeps ==
  ASSUME ImpactInv, Receive
  PROVE  ImpactInv'
<1> USE DEF ImpactInv
<1> DEFINE c == [client EXCEPT !.at = "first", !.failed = (session.at = "failed")]
<1>1. client' = c /\ client.at = "run" /\ session.at \notin Active /\ UNCHANGED session
  BY DEF Continue, Receive, Active
<1>2. /\ ClientOK' /\ client'.at = "first" /\ client'.check = client.check
      /\ client'.gen = client.gen /\ client'.receipt = client.receipt
      /\ client'.protected = client.protected /\ client'.box = client.box
      /\ client'.retirement = client.retirement
  BY <1>1 DEF ClientOK, Steps, Located, Opened
<1>3. Confirmed'
  BY <1>1, <1>2 DEF Confirmed
<1>4. client.check # "none"
  BY <1>1 DEF ContainerKnown
<1> QED BY <1>1, <1>2, <1>3, <1>4, OpenedStays DEF Opened, Receive

\* psql finds the container that was opened, or fails.
LEMMA SendKeeps ==
  ASSUME ImpactInv, Send
  PROVE  ImpactInv'
<1> USE DEF ImpactInv
<1>1. /\ client' = [client EXCEPT !.at = "run", !.check = "after"] /\ client.at = "send"
      /\ UNCHANGED <<receipt, retirement, box, last, report>>
  BY DEF Send, sandbox, others
<1>2. /\ ClientOK' /\ client'.at = "run" /\ client'.check = "after"
      /\ client'.gen = client.gen /\ client'.receipt = client.receipt
      /\ client'.protected = client.protected /\ client'.box = client.box
      /\ client'.retirement = client.retirement
  BY <1>1 DEF ClientOK, Steps, Located, Opened
<1>3. /\ SessionOK' /\ session'.at \in {"preflight", "failed"}
      /\ session'.at = "preflight" => box.id = client.box /\ box.up
      /\ session'.counts = <<>>
  BY DEF Send, SessionOK, NoSession, Sessions
<1>4. ReceiptKnown' /\ ContainerKnown' /\ InContainer'
  BY <1>1, <1>2, <1>3 DEF ReceiptKnown, ContainerKnown, InContainer, OfReceipt,
    OfRetirement, OfBox, Located, Opened, Active
<1>5. Counted(session'.counts) = {}
  BY <1>3, NothingCounted
<1>6. Witnessed' /\ Confirmed'
  BY <1>3, <1>5 DEF Witnessed, Confirmed, Countable
<1>7. NumbersOK' /\ MeasuredAsReviewed'
  BY <1>1 DEF NumbersOK, MeasuredAsReviewed
<1> QED BY <1>2, <1>3, <1>4, <1>6, <1>7

-----------------------------------------------------------------------------

\* The steps of the session.
LEMMA StepKeeps ==
  ASSUME ImpactInv, NEW s, Step(s), SessionOK', session.at \in Active, Witnessed'
  PROVE  ImpactInv'
<1> USE DEF ImpactInv
<1>1. UNCHANGED <<client, receipt, retirement, box, last, report>>
  BY DEF Step, sandbox, others
<1>2. client.at = "run" /\ box.id = client.box /\ box.up
  BY DEF InContainer
<1>3. /\ ClientOK' /\ NumbersOK' /\ ReceiptKnown' /\ ContainerKnown' /\ InContainer'
  BY <1>1, <1>2 DEF ClientOK, NumbersOK, ReceiptKnown, ContainerKnown, InContainer,
    OfReceipt, OfRetirement, OfBox
<1>4. Confirmed' /\ MeasuredAsReviewed'
  BY <1>1, <1>2 DEF Confirmed, MeasuredAsReviewed
<1> QED BY <1>3, <1>4

\* Most of them leave what was noted and what was counted as it is.
LEMMA SilentStepKeeps ==
  ASSUME ImpactInv, NEW s, Step(s), SessionOK', session.at \in Active,
         session'.truth = session.truth,
         \/ Counted(session'.counts) = {}
         \/ session'.counts = session.counts
         \/ session.at \in {"check", "count"},
         session'.at \in {"check", "count"} => session.at \in {"check", "count"}
  PROVE  ImpactInv'
<1>1. UNCHANGED <<client, receipt, retirement, box>>
  BY DEF Step, sandbox, others
<1>2. Countable' => Countable
  BY DEF Countable
<1>3. Witnessed'
  BY <1>1, <1>2 DEF ImpactInv, Witnessed, Instant, OfReceipt, OfRetirement, OfBox
<1> QED BY <1>3, StepKeeps

LEMMA UnsupportedServerKeeps == ASSUME ImpactInv, UnsupportedServer PROVE ImpactInv'
<1> DEFINE s == [session EXCEPT !.at = "done", !.counts = Nothing]
<1>1. Step(s) /\ session' = s /\ session.at = "preflight"
  BY DEF UnsupportedServer, Step
<1>2. SessionOK' /\ session'.at = "done" /\ session'.counts = Nothing
      /\ session'.truth = session.truth
  BY <1>1 DEF ImpactInv, SessionOK, Sessions
<1> HIDE DEF s
<1> QED BY <1>1, <1>2, NothingCounted, SilentStepKeeps DEF Active

LEMMA PreflightKeeps ==
  ASSUME ImpactInv, NEW r \in Relations, Preflight(r)
  PROVE  ImpactInv'
<1>1. PICK o : /\ Step([session EXCEPT !.oids[r] = o]) /\ session.at = "preflight"
  BY DEF Preflight
<1>2. session' = [session EXCEPT !.oids[r] = o]
  BY <1>1 DEF Step
<1>3. SessionOK' /\ session'.at = "preflight" /\ session'.counts = session.counts
      /\ session'.truth = session.truth
  BY <1>1, <1>2 DEF ImpactInv, SessionOK, Sessions
<1> QED BY <1>1, <1>3, SilentStepKeeps DEF Active

LEMMA LockingKeeps ==
  ASSUME ImpactInv, LockNamespace \/ LockTables
  PROVE  ImpactInv'
<1> USE DEF ImpactInv, SessionOK, Sessions, Step
<1>1. /\ SessionOK' /\ session.at \in Active /\ session'.at \notin {"check", "count"}
      /\ session'.truth = session.truth /\ session'.counts = session.counts
  <2>1. CASE LockNamespace
    BY <2>1 DEF LockNamespace, Active
  <2>2. CASE LockTables
    <3>1. PICK r \in Wanted :
            \/ session' = [session EXCEPT !.at = "failed", !.locks = {}]
            \/ session' = [session EXCEPT !.locks = @ \cup {catalog[r]}]
      BY <2>2 DEF LockTables
    <3> QED BY <2>2, <3>1 DEF LockTables, Active
  <2> QED BY <2>1, <2>2
<1>2. \E s : Step(s)
  BY DEF LockNamespace, LockTables
<1> QED BY <1>1, <1>2, SilentStepKeeps

\* The snapshot is taken in the container that was opened, under a receipt and a
\* retirement that are those the command goes by, or later ones.
LEMMA SnapshotKeeps ==
  ASSUME ImpactInv, Snapshot
  PROVE  ImpactInv'
<1> USE DEF ImpactInv
<1> DEFINE w == [catalog |-> catalog, tables |-> tables, receipt |-> receipt,
                 retirement |-> retirement, box |-> box]
           s == [session EXCEPT !.at = "check",
                                !.snap = [catalog |-> catalog, tables |-> tables],
                                !.truth = w]
<1>1. Step(s) /\ session' = s /\ session.at = "lock"
  BY DEF Snapshot, Step
<1>2. SessionOK' /\ session'.truth = w
  BY <1>1 DEF SessionOK, Sessions
<1>3. /\ client.at = "run" /\ box.id = client.box /\ box.up
      /\ UNCHANGED <<client, receipt, retirement, box>>
  BY <1>1 DEF InContainer, Active, Step, sandbox
<1>4. Instant(w)
  BY <1>3 DEF Instant, NumbersOK, ReceiptKnown, ContainerKnown, OfReceipt, OfRetirement,
    OfBox, Located, Opened
<1>5. Witnessed'
  BY <1>2, <1>3, <1>4 DEF Witnessed, Instant, OfReceipt, OfRetirement, OfBox, Opened
<1> HIDE DEF s
<1> QED BY <1>1, <1>2, <1>5, StepKeeps DEF Active

LEMMA CountingKeeps ==
  ASSUME ImpactInv,
         (\E t \in client.tasks : MetadataCheck(t)) \/ CountRows \/ Rollback \/ SessionFails
  PROVE  ImpactInv'
<1> USE DEF ImpactInv, SessionOK, Sessions, Step
<1>1. /\ SessionOK' /\ session'.truth = session.truth /\ session.at \in Active
      /\ \/ session.at \in {"check", "count"}
         \/ session'.at = "failed" /\ session'.counts = session.counts
  <2>1. CASE \E t \in client.tasks : MetadataCheck(t)
    <3>1. session.at = "check"
      BY <2>1 DEF MetadataCheck
    <3>2. PICK t :
            \/ session' = [session EXCEPT !.at = "count", !.task = t]
            \/ session' = [session EXCEPT !.counts = Answered(t, None)]
      BY <2>1 DEF MetadataCheck
    <3> QED BY <3>1, <3>2 DEF Active
  <2>2. CASE CountRows
    <3>1. session.at = "count"
      BY <2>2 DEF CountRows
    <3>2. \/ session' = [session EXCEPT !.at = "failed", !.locks = {}]
          \/ \E n : session' = [session EXCEPT !.at = "check", !.counts = n]
      <4> DEFINE t == session.task
                 n == Answered(t, CountQuery(t.metric, Visible(t.rel), Visible(t.ref)))
      <4>1. \/ session' = [session EXCEPT !.at = "failed", !.locks = {}]
            \/ session' = [session EXCEPT !.at = "check", !.counts = n]
        BY <2>2 DEF CountRows
      <4> QED BY <4>1
    <3> QED BY <3>1, <3>2 DEF Active
  <2>3. CASE Rollback
    BY <2>3 DEF Rollback, Active
  <2>4. CASE SessionFails
    BY <2>4 DEF SessionFails, Active
  <2> QED BY <2>1, <2>2, <2>3, <2>4
<1>2. \E s : Step(s)
  BY DEF MetadataCheck, CountRows, Rollback, SessionFails
<1> QED BY <1>1, <1>2, SilentStepKeeps

-----------------------------------------------------------------------------

\* What others do in the database or to the files is not looked at here.
LEMMA AsideKeeps ==
  ASSUME ImpactInv, UNCHANGED <<sandbox, client, session, report>>, last' \in Nat,
         last <= last'
  PROVE  ImpactInv'
<1> USE DEF ImpactInv
<1>1. UNCHANGED <<receipt, retirement, box>>
  BY DEF sandbox
<1>2. ClientOK' /\ SessionOK' /\ NumbersOK'
  BY <1>1 DEF ClientOK, SessionOK, NumbersOK
<1>3. ReceiptKnown' /\ ContainerKnown' /\ InContainer'
  BY <1>1 DEF ReceiptKnown, ContainerKnown, InContainer, OfReceipt, OfRetirement, OfBox
<1>4. Witnessed' /\ Confirmed' /\ MeasuredAsReviewed'
  BY <1>1 DEF Witnessed, Countable, Instant, OfReceipt, OfRetirement, OfBox, Confirmed,
    KeptBox, Reviewed, MeasuredAsReviewed
<1> QED BY <1>2, <1>3, <1>4

LEMMA BystandersKeep ==
  ASSUME ImpactInv,
         \/ Review \/ LeftoverEnds \/ EditFiles \/ Activate \/ SwapSchemas
         \/ \E o \in Oids : Write(o) \/ Alter(o)
         \/ \E r \in Relations : Rename(r)
  PROVE  ImpactInv'
<1>1. UNCHANGED <<sandbox, client, session, report>>
  BY DEF Review, LeftoverEnds, EditFiles, Activate, SwapSchemas, Write, Alter, Rename
<1>2. last' = last \/ last' = last + 1
  BY DEF Review, LeftoverEnds, EditFiles, Activate, SwapSchemas, Write, Alter, Rename,
    others
<1>3. last \in Nat
  BY DEF ImpactInv, NumbersOK
<1> QED BY <1>1, <1>2, <1>3, AsideKeeps

\* A file that is written anew is later than the one the command goes by.
LEMMA RewriteKeeps ==
  ASSUME ImpactInv, RewriteReceipt \/ RewriteRetirement
  PROVE  ImpactInv'
<1> USE DEF ImpactInv
<1>1. /\ UNCHANGED <<box, client, session, report>> /\ last' = last + 1
      /\ last \in Nat /\ receipt.id \in Nat /\ retirement.id \in Nat
      /\ receipt.id <= last /\ retirement.id <= last
      /\ receipt' = receipt \/ receipt'.id = last + 1
      /\ retirement' = retirement \/ retirement'.id = last + 1
  BY DEF RewriteReceipt, RewriteRetirement, NumbersOK
<1>2. ClientOK' /\ SessionOK'
  BY <1>1 DEF ClientOK, SessionOK
<1>3. NumbersOK'
  BY DEF RewriteReceipt, RewriteRetirement, NumbersOK
<1>4. ReceiptKnown'
  BY <1>1 DEF ReceiptKnown, OfReceipt
<1>5. ContainerKnown' /\ InContainer'
  BY <1>1 DEF ContainerKnown, InContainer, OfRetirement, OfBox
<1>6. Witnessed'
  <2>1. receipt.id <= receipt'.id /\ retirement.id <= retirement'.id
    BY <1>1
  <2>2. /\ receipt'.id \in Nat /\ retirement'.id \in Nat
    BY <1>3 DEF NumbersOK
  <2>3. SUFFICES ASSUME Countable PROVE Instant(session.truth)'
    BY <1>1 DEF Witnessed, Countable
  <2>4. Instant(session.truth)
    BY <2>3 DEF Witnessed
  <2>5. session.truth.receipt.id \in Nat /\ session.truth.receipt.id <= receipt.id
    BY <2>4 DEF Instant, OfReceipt
  <2>6. client.retirement # None =>
          session.truth.retirement.id \in Nat /\ session.truth.retirement.id <= retirement.id
    BY <2>4 DEF Instant, OfRetirement
  <2> QED BY <1>1, <2>1, <2>2, <2>4, <2>5, <2>6
          DEF Instant, OfReceipt, OfRetirement, OfBox
<1>7. Confirmed' /\ MeasuredAsReviewed'
  BY <1>1 DEF Confirmed, KeptBox, Reviewed, MeasuredAsReviewed
<1> QED BY <1>2, <1>3, <1>4, <1>5, <1>6, <1>7

\* A container that comes or goes ends the session in it.
LEMMA ContainerKeeps ==
  ASSUME ImpactInv, ReplaceContainer \/ ToggleContainer
  PROVE  ImpactInv'
<1> USE DEF ImpactInv
<1>1. /\ UNCHANGED <<receipt, retirement, client, report>> /\ session' = Killed
      /\ last \in Nat /\ box.id \in Nat /\ box.id <= last
      /\ \/ box'.id = last + 1 /\ last' = last + 1
         \/ box'.id = box.id /\ box'.configured = box.configured /\ last' = last
      /\ NumbersOK'
  <2>1. /\ UNCHANGED <<receipt, retirement, client, report>> /\ session' = Killed
        /\ last \in Nat /\ box.id \in Nat /\ box.id <= last
    BY DEF ReplaceContainer, ToggleContainer, NumbersOK
  <2>2. CASE ReplaceContainer
    <3>1. PICK c \in BOOLEAN, n \in BOOLEAN :
            box' = [id |-> last + 1, up |-> TRUE, configured |-> c, new |-> n]
      BY <2>2 DEF ReplaceContainer
    <3>2. last' = last + 1
      BY <2>2 DEF ReplaceContainer
    <3> QED BY <2>1, <3>1, <3>2 DEF NumbersOK
  <2>3. CASE ToggleContainer
    <3>1. box' = [box EXCEPT !.up = ~@] /\ last' = last
      BY <2>3 DEF ToggleContainer
    <3> QED BY <2>1, <3>1 DEF NumbersOK
  <2> QED BY <2>1, <2>2, <2>3
<1>2. NumbersOK'
  BY <1>1
<1>3. /\ SessionOK' /\ session'.at \notin Active
      /\ session'.counts = session.counts /\ session'.truth = session.truth
  BY <1>1 DEF Killed, SessionOK, Sessions, Active
<1>4. ClientOK' /\ ReceiptKnown' /\ ContainerKnown' /\ InContainer'
  BY <1>1, <1>3 DEF ClientOK, ReceiptKnown, ContainerKnown, InContainer, OfReceipt,
    OfRetirement, OfBox
<1>5. Witnessed'
  BY <1>1, <1>3 DEF Witnessed, Countable, Instant, OfReceipt, OfRetirement, OfBox, Active
<1>6. Confirmed' /\ MeasuredAsReviewed'
  BY <1>1, <1>3 DEF Confirmed, KeptBox, Reviewed, MeasuredAsReviewed
<1> QED BY <1>2, <1>3, <1>4, <1>5, <1>6

-----------------------------------------------------------------------------

LEMMA ImpactBegins == ImpactInit => ImpactInv
<1> SUFFICES ASSUME ImpactInit PROVE ImpactInv
  OBVIOUS
<1>1. /\ client = Blank /\ session = NoSession /\ report = NoReport
  BY DEF ImpactInit
<1>2. ClientOK /\ SessionOK
  BY <1>1 DEF ClientOK, SessionOK, Blank, NoSession, Steps, Sessions
<1>3. NumbersOK
  <2>1. box \in [id : {1}, up : {TRUE}, configured : BOOLEAN, new : {TRUE}]
    BY DEF ImpactInit
  <2>2. /\ receipt = [id |-> 1, gen |-> active, protected |-> ~box.configured]
        /\ retirement = [id |-> 1, of |-> 1] /\ last = 1
    BY DEF ImpactInit
  <2>3. receipt \in [id : Nat, gen : {receipt.gen}, protected : BOOLEAN] /\ receipt.id = 1
    BY <2>2
  <2>4. box \in [id : Nat, up : BOOLEAN, configured : BOOLEAN, new : BOOLEAN] /\ box.id = 1
    <3>1. PICK c \in BOOLEAN : box = [id |-> 1, up |-> TRUE, configured |-> c, new |-> TRUE]
      BY <2>1
    <3> QED BY <3>1
  <2> QED BY <2>2, <2>3, <2>4 DEF NumbersOK
<1>4. ReceiptKnown /\ ContainerKnown /\ InContainer
  BY <1>1 DEF ReceiptKnown, ContainerKnown, InContainer, Blank, NoSession, Located,
    Opened, Active
<1>5. Counted(session.counts) = {} /\ session.at = "none"
  BY <1>1, NothingCounted DEF NoSession
<1>6. Witnessed /\ Confirmed /\ MeasuredAsReviewed
  BY <1>1, <1>5 DEF Witnessed, Confirmed, Countable, MeasuredAsReviewed, NoReport
<1> QED BY <1>2, <1>3, <1>4, <1>6 DEF ImpactInv

LEMMA ImpactInduction == ImpactInv /\ [ImpactNext]_impactVars => ImpactInv'
<1> SUFFICES ASSUME ImpactInv, [ImpactNext]_impactVars PROVE ImpactInv'
  OBVIOUS
<1>1. CASE \/ Measure \/ Prepare \/ ReadAgain \/ Conclude \/ OpenReceipt \/ OpenContainer
           \/ AssertReceipt \/ AssertContainer \/ AssertReceiptAgain \/ Send \/ Receive
  BY <1>1, ReadingKeeps, PrepareKeeps, ConcludeKeeps, OpenReceiptKeeps,
     OpenContainerKeeps, AssertReceiptKeeps, AssertContainerKeeps,
     AssertReceiptAgainKeeps, SendKeeps, ReceiveKeeps
<1>2. CASE ReportFailure \/ TimeOut \/ Cancel
  BY <1>2, GiveUpKeeps, RefuseKeeps DEF ReportFailure, TimeOut, Cancel
<1>3. CASE \/ UnsupportedServer \/ LockNamespace \/ LockTables \/ Snapshot
           \/ \E r \in Relations : Preflight(r)
           \/ \E t \in client.tasks : MetadataCheck(t)
           \/ CountRows \/ Rollback \/ SessionFails
  BY <1>3, UnsupportedServerKeeps, LockingKeeps, SnapshotKeeps, PreflightKeeps,
     CountingKeeps
<1>4. CASE \/ Review \/ LeftoverEnds \/ EditFiles \/ Activate \/ SwapSchemas
           \/ \E o \in Oids : Write(o) \/ Alter(o)
           \/ \E r \in Relations : Rename(r)
  BY <1>4, BystandersKeep
<1>5. CASE \/ RewriteReceipt \/ RewriteRetirement \/ ReplaceContainer \/ ToggleContainer
  BY <1>5, RewriteKeeps, ContainerKeeps
<1>6. CASE UNCHANGED impactVars
  <2>1. last' = last /\ last \in Nat
    BY <1>6 DEF impactVars, ImpactInv, NumbersOK
  <2> QED BY <1>6, <2>1, AsideKeeps DEF impactVars, sandbox
<1> QED BY <1>1, <1>2, <1>3, <1>4, <1>5, <1>6 DEF ImpactNext

\* What measure impact counted, it counted under the receipt of the baseline that
\* the reviewed candidates follow, in the configured container or in the one that
\* this receipt's retirement kept, whatever was edited, replaced, stopped or
\* rewritten meanwhile.
THEOREM ImpactIsReviewed == ImpactSpec => []MeasuredAsReviewed
<1>1. ImpactInit => ImpactInv
  BY ImpactBegins
<1>2. ImpactInv /\ [ImpactNext]_impactVars => ImpactInv'
  BY ImpactInduction
<1>3. ImpactInv => MeasuredAsReviewed
  BY DEF ImpactInv
<1> QED BY <1>1, <1>2, <1>3, PTL DEF ImpactSpec

-----------------------------------------------------------------------------
(* What is counted.                                                        *)

\* The tables and the names they go by.
TablesOK ==
  /\ catalog \in [Relations -> Oids \cup {None}]
  /\ tables \in [Oids -> [plain : BOOLEAN, values : Contents]]

\* The command counts what its candidates are planned to have counted.
TasksKnown ==
  /\ client.at \in {"idle", "reading"} => client.tasks = {}
  /\ client.at \notin {"idle", "reading"} => client.tasks = Tasks(client.candidates)

\* From the snapshot on, no name that was found can come to stand for another
\* table: the tables are locked, and so are the schemas.
Pinned ==
  /\ session.at \in {"lock", "check", "count"} => Namespace \in session.locks
  /\ session.at \in {"check", "count"} =>
       /\ \A r \in Wanted : session.oids[r] = 0 \/ catalog[r] \in session.locks
       /\ session.snap.catalog = session.truth.catalog
       /\ session.snap.tables = session.truth.tables
       /\ session.snap.tables \in [Oids -> [plain : BOOLEAN, values : Contents]]
  /\ session.at = "count" =>
       session.task \in client.tasks /\ SameTable(session.task.rel) /\ SameTable(session.task.ref)

\* What the query of a task counts in the tables of the instant w.
IsCount(t, n, w) ==
  /\ w.catalog[t.rel] \in Oids /\ w.tables \in [Oids -> [plain : BOOLEAN, values : Contents]]
  /\ w.tables[w.catalog[t.rel]].plain
  /\ n = CountQuery(t.metric, w.tables[w.catalog[t.rel]].values,
                    w.tables[w.catalog[t.ref]].values)

CountsOK ==
  /\ session.at \in {"none", "preflight", "lock"} => session.counts = <<>>
  /\ DOMAIN session.counts \subseteq client.tasks
  /\ \A t \in Counted(session.counts) : IsCount(t, session.counts[t], session.truth)

CountingInv == TablesOK /\ TasksKnown /\ Pinned /\ CountsOK /\ CountsAreTrue

\* A task stands for the statement it was planned for.
LEMMA TaskOfPlan ==
  ASSUME NEW candidates, NEW t \in Tasks(candidates)
  PROVE  /\ t.file \in DOMAIN candidates /\ t.line \in DOMAIN candidates[t.file][2]
         /\ t = Task(t.file, t.line, candidates[t.file][2][t.line])
         /\ IsRecognised(candidates[t.file][2][t.line])
         /\ {t.rel, t.ref} \subseteq Relations
<1>0. PICK i \in DOMAIN candidates :
        \E line \in PlanFile(candidates[i][2]) : t = Task(i, line, candidates[i][2][line])
  BY DEF Tasks, Planned
<1>1. PICK line \in PlanFile(candidates[i][2]) : t = Task(i, line, candidates[i][2][line])
  BY <1>0
<1>2. line \in DOMAIN candidates[i][2] /\ IsRecognised(candidates[i][2][line])
  BY DEF PlanFile, Recognised
<1>3. /\ t.file = i /\ t.line = line
      /\ t.rel = candidates[i][2][line].rel /\ t.ref = Referenced(candidates[i][2][line])
  BY <1>1 DEF Task
<1> QED BY <1>1, <1>2, <1>3 DEF IsRecognised

\* A value is counted more than once if it stands in another row as well.
LEMMA FoundTwice ==
  ASSUME NEW values \in Seq(Nat), NEW i \in DOMAIN values
  PROVE  Among(values, {values[i]}) > 1
           <=> \E j \in DOMAIN values \ {i} : values[j] = values[i]
<1> DEFINE S == {j \in DOMAIN values : values[j] \in {values[i]}}
<1>1. IsFiniteSet(S) /\ i \in S
  <2>1. DOMAIN values = 1 .. Len(values) /\ Len(values) \in Nat
    OBVIOUS
  <2>2. IsFiniteSet(DOMAIN values)
    BY <2>1, FS_Interval
  <2> QED BY <2>2, FS_Subset
<1>2. Cardinality(S) \in Nat /\ Cardinality(S) # 0
  BY <1>1, FS_CardinalityType, FS_EmptySet
<1>3. Cardinality(S) = 1 <=> S = {i}
  <2>1. Cardinality(S) = 1 <=> \E x : S = {x}
    BY <1>1, FS_Singleton
  <2> QED BY <1>1, <2>1
<1>4. S = {i} <=> ~\E j \in DOMAIN values \ {i} : values[j] = values[i]
  BY <1>1
<1> QED BY <1>2, <1>3, <1>4 DEF Among

\* The query of a task counts the rows that its statement would meet.
LEMMA QueriesCount ==
  ASSUME NEW statement, statement.op \in Supported, NEW w,
         w.tables[w.catalog[statement.rel]].values \in Seq(Nat)
  PROVE  CountQuery(Metric(statement.op), w.tables[w.catalog[statement.rel]].values,
                    w.tables[w.catalog[Referenced(statement)]].values)
           = Affected(statement, w)
<1> DEFINE values == w.tables[w.catalog[statement.rel]].values
           theirs == w.tables[w.catalog[Referenced(statement)]].values
           at == DOMAIN values
<1>1. ToSet(values) = {values[i] : i \in at}
  BY DEF ToSet
<1>2. CASE statement.op \in {"drop_table", "truncate", "broad_delete"}
  <2>1. {i \in at : values[i] \in ToSet(values)} = at
    BY <1>1
  <2> QED BY <1>2, <2>1 DEF CountQuery, Metric, Among, Affected
<1>3. CASE statement.op = "drop_column"
  <2>1. {i \in at : values[i] \in ToSet(values) \ {0}} = {i \in at : values[i] # 0}
    BY <1>1
  <2> QED BY <1>3, <2>1 DEF CountQuery, Metric, Among, Affected
<1>4. CASE statement.op = "not_null"
  <2>1. {i \in at : values[i] \in {0}} = {i \in at : values[i] = 0}
    OBVIOUS
  <2> QED BY <1>4, <2>1 DEF CountQuery, Metric, Among, Affected
<1>5. CASE statement.op = "unique"
  <2>1. \A i \in at : Among(values, {values[i]}) > 1
                        <=> \E j \in at \ {i} : values[j] = values[i]
    BY FoundTwice
  <2>2. {i \in at : values[i] \in {v \in ToSet(values) \ {0} : Among(values, {v}) > 1}}
          = {i \in at : values[i] # 0 /\ \E j \in at \ {i} : values[j] = values[i]}
    BY <1>1, <2>1
  <2> QED BY <1>5, <2>2 DEF CountQuery, Metric, Among, Affected
<1>6. CASE statement.op = "foreign_key"
  <2>1. theirs = w.tables[w.catalog[statement.ref]].values
    BY <1>6 DEF Referenced
  <2>2. {i \in at : values[i] \in (ToSet(values) \ {0}) \ ToSet(theirs)}
          = {i \in at : values[i] \notin {0} \cup ToSet(theirs)}
    BY <1>1
  <2> QED BY <1>6, <2>1, <2>2 DEF CountQuery, Metric, Among, Affected
<1> QED BY <1>2, <1>3, <1>4, <1>5, <1>6 DEF Supported

\* What CountsAreTrue asks of a report.
Truthful(said) ==
  /\ \A c \in said.measured :
       LET statement == said.candidates[c.file][2][c.line]
       IN  /\ c.count = Affected(statement, said.truth)
           /\ said.truth.tables[said.truth.catalog[statement.rel]].plain
           /\ c.metric = Metric(statement.op)
  /\ said.status \in {"measured", "not_required"} =>
       \A i \in DOMAIN said.candidates : \A line \in DOMAIN said.candidates[i][2] :
         \E c \in said.measured : c.file = i /\ c.line = line

LEMMA CompleteStatus ==
  ASSUME NEW candidates, NEW counted,
         Status(candidates, counted) \in {"measured", "not_required"}
  PROVE  /\ counted = Tasks(candidates)
         /\ \A i \in DOMAIN candidates : \A line \in DOMAIN candidates[i][2] :
              Task(i, line, candidates[i][2][line]) \in Tasks(candidates)
<1>1. counted = Tasks(candidates) /\ \A i \in DOMAIN candidates : IsComplete(candidates, i)
  BY DEF Status
<1> QED BY <1>1 DEF IsComplete

LEMMA TrueReport ==
  ASSUME NEW counts, client.tasks = Tasks(client.candidates), DOMAIN counts \subseteq client.tasks,
         \A t \in Counted(counts) : IsCount(t, counts[t], session.truth)
  PROVE  Truthful(Report(counts))
<1> DEFINE said == Report(counts)
<1>1. /\ said.measured = Measurements(counts) /\ said.candidates = client.candidates
      /\ said.truth = session.truth
      /\ said.status = Status(client.candidates, Counted(counts))
  BY DEF Report
<1>2. ASSUME NEW c \in said.measured
      PROVE  LET statement == said.candidates[c.file][2][c.line]
             IN  /\ c.count = Affected(statement, said.truth)
                 /\ said.truth.tables[said.truth.catalog[statement.rel]].plain
                 /\ c.metric = Metric(statement.op)
  <2>1. PICK t \in Counted(counts) :
          c = [file |-> t.file, line |-> t.line, metric |-> t.metric, count |-> counts[t]]
    BY <1>1, <1>2 DEF Measurements
  <2> DEFINE statement == client.candidates[t.file][2][t.line]
             w == session.truth
  <2>2. t \in Tasks(client.candidates) /\ IsCount(t, counts[t], w)
    BY <2>1 DEF Counted
  <2>3. t = Task(t.file, t.line, statement) /\ IsRecognised(statement)
    BY <2>2, TaskOfPlan
  <2>4. /\ t.metric = Metric(statement.op) /\ t.rel = statement.rel
        /\ t.ref = Referenced(statement)
    BY <2>3 DEF Task
  <2>5. w.tables[w.catalog[statement.rel]].values \in Seq(Nat)
    BY <2>2, <2>4, ImpactAssumption DEF IsCount
  <2>6. counts[t] = Affected(statement, w)
    <3>1. counts[t] = CountQuery(Metric(statement.op), w.tables[w.catalog[statement.rel]].values,
                                 w.tables[w.catalog[Referenced(statement)]].values)
      BY <2>2, <2>4 DEF IsCount
    <3>2. statement.op \in Supported
      BY <2>3 DEF IsRecognised
    <3> HIDE DEF statement, w
    <3> QED BY <2>5, <3>1, <3>2, QueriesCount
  <2>7. w.tables[w.catalog[statement.rel]].plain
    BY <2>2, <2>4 DEF IsCount
  <2> QED BY <1>1, <2>1, <2>4, <2>6, <2>7
<1>3. ASSUME said.status \in {"measured", "not_required"},
             NEW i \in DOMAIN said.candidates, NEW line \in DOMAIN said.candidates[i][2]
      PROVE  \E c \in said.measured : c.file = i /\ c.line = line
  <2> DEFINE t == Task(i, line, client.candidates[i][2][line])
  <2>1. t \in Counted(counts)
    BY <1>1, <1>3, CompleteStatus
  <2>2. t.file = i /\ t.line = line
    BY DEF Task
  <2> DEFINE c == [file |-> t.file, line |-> t.line, metric |-> t.metric, count |-> counts[t]]
  <2>3. c \in said.measured
    BY <1>1, <2>1 DEF Measurements
  <2>4. c.file = i /\ c.line = line
    BY <2>2
  <2> HIDE DEF c
  <2> QED BY <2>3, <2>4
<1> QED BY <1>2, <1>3 DEF Truthful

\* Only what is reported decides whether it is true.
LEMMA TrueWhenSaid ==
  ASSUME NEW said, Truthful(said), report' = said
  PROVE  CountsAreTrue'
<1>1. CountsAreTrue' <=> Truthful(report')
  BY Zenon DEF Truthful, CountsAreTrue
<1>2. Truthful(report')
  OBVIOUS
<1> QED BY <1>1, <1>2

LEMMA StillTrue ==
  ASSUME CountsAreTrue, UNCHANGED report
  PROVE  CountsAreTrue'
<1>1. Truthful(report)
  BY Zenon DEF Truthful, CountsAreTrue
<1> QED BY <1>1, TrueWhenSaid

\* Where the command ends, its report alone matters.
LEMMA EndCounts ==
  ASSUME CountingInv, NEW said, End(said), Truthful(said), UNCHANGED database
  PROVE  CountingInv'
<1>1. /\ client' = Blank /\ session' = NoSession /\ report' = said
      /\ UNCHANGED <<catalog, tables>>
  BY DEF End, database
<1>2. /\ client'.at = "idle" /\ client'.tasks = {}
      /\ session'.at = "none" /\ session'.counts = <<>>
  BY <1>1 DEF Blank, NoSession
<1>3. TablesOK'
  BY <1>1 DEF CountingInv, TablesOK
<1>4. TasksKnown' /\ Pinned'
  BY <1>2 DEF TasksKnown, Pinned
<1>5. CountsOK'
  BY <1>2 DEF CountsOK, Counted
<1>6. CountsAreTrue'
  BY <1>1, TrueWhenSaid
<1> QED BY <1>3, <1>4, <1>5, <1>6 DEF CountingInv

LEMMA NoReportIsTrue ==
  ASSUME NEW said, said.measured = {}, said.status \notin {"measured", "not_required"}
  PROVE  Truthful(said)
BY DEF Truthful

LEMMA RefuseCounts == ASSUME CountingInv, Refuse PROVE CountingInv'
<1>1. Truthful(NoReport)
  BY NoReportIsTrue DEF NoReport
<1> QED BY <1>1, EndCounts DEF Refuse

LEMMA GiveUpCounts ==
  ASSUME CountingInv, GiveUp, client.at \notin {"idle", "reading"}
  PROVE  CountingInv'
<1>1. Counted(Nothing) = {} /\ DOMAIN Nothing = client.tasks
  BY DEF Counted, Nothing
<1>2. Truthful(Report(Nothing))
  BY <1>1, TrueReport DEF CountingInv, TasksKnown
<1> QED BY <1>2, EndCounts DEF GiveUp

\* Neither a look at files, receipt and container nor a step of others outside
\* the database touches what is counted.
LEMMA AsideCounts ==
  ASSUME CountingInv, UNCHANGED <<session, catalog, tables, report>>,
         client'.tasks = client.tasks, client'.candidates = client.candidates,
         client.at \in {"idle", "reading"} <=> client'.at \in {"idle", "reading"}
  PROVE  CountingInv'
<1> USE DEF CountingInv
<1>1. TablesOK' /\ TasksKnown' /\ CountsAreTrue'
  BY DEF TablesOK, TasksKnown, CountsAreTrue
<1>2. Wanted' = Wanted
  BY DEF Wanted
<1>3. Pinned'
  BY <1>2 DEF Pinned, SameTable
<1>4. CountsOK'
  BY DEF CountsOK
<1> QED BY <1>1, <1>3, <1>4

LEMMA LooksCount ==
  ASSUME ImpactInv, CountingInv,
         \/ Measure \/ ReadAgain \/ OpenReceipt \/ OpenContainer
         \/ AssertReceipt \/ AssertContainer \/ AssertReceiptAgain \/ Receive
  PROVE  CountingInv'
<1>1. CASE Refuse
  BY <1>1, RefuseCounts
<1>2. CASE ~Refuse
  <2>1. /\ UNCHANGED <<session, catalog, tables, report>>
        /\ client'.tasks = client.tasks /\ client'.candidates = client.candidates
        /\ client.at \in {"idle", "reading"} <=> client'.at \in {"idle", "reading"}
    <3> USE <1>2 DEF ImpactInv, ClientOK, Continue, database, Steps, Located, Opened
    <3>1. CASE Measure \/ ReadAgain
      BY <3>1 DEF Measure, ReadAgain, BeginReading
    <3>2. CASE OpenReceipt
      BY <3>2 DEF OpenReceipt
    <3>3. CASE OpenContainer
      BY <3>3 DEF OpenContainer
    <3>4. CASE AssertReceipt
      BY <3>4 DEF AssertReceipt
    <3>5. CASE AssertContainer
      BY <3>5 DEF AssertContainer
    <3>6. CASE AssertReceiptAgain
      <4>1. Continue(Passed) /\ client.at = "third"
        BY <3>6 DEF AssertReceiptAgain
      <4>2. client.check \in {"opened", "before", "after", "final"}
        BY <4>1 DEF ContainerKnown
      <4> QED BY <4>1, <4>2 DEF Passed
    <3>7. CASE Receive
      BY <3>7 DEF Receive
    <3> QED BY <3>1, <3>2, <3>3, <3>4, <3>5, <3>6, <3>7
  <2> QED BY <2>1, AsideCounts
<1> QED BY <1>1, <1>2

LEMMA PrepareCounts == ASSUME ImpactInv, CountingInv, Prepare PROVE CountingInv'
<1> USE DEF CountingInv
<1> DEFINE plan == client.held.candidates
           said == [NoReport EXCEPT !.status = Status(plan, {}),
                                    !.candidates = plan, !.gen = active]
           c == [Blank EXCEPT !.at = "open", !.candidates = plan,
                              !.tasks = Tasks(plan), !.gen = active]
<1>1. CASE End(said) /\ UNCHANGED database /\ Tasks(plan) = {}
  <2>1. said.measured = {} /\ said.status = Status(plan, {}) /\ said.candidates = plan
    BY DEF NoReport
  <2>2. Truthful(said)
    <3>1. ASSUME said.status \in {"measured", "not_required"},
                 NEW i \in DOMAIN plan, NEW line \in DOMAIN plan[i][2]
          PROVE  FALSE
      BY <1>1, <2>1, <3>1, CompleteStatus
    <3> HIDE DEF said
    <3> QED BY <2>1, <3>1 DEF Truthful
  <2> QED BY <1>1, <2>2, EndCounts
<1>2. CASE client' = c /\ report' = NoReport /\ UNCHANGED <<database, session>>
  <2>1. /\ client.at = "reading" /\ client.tasks = {} /\ UNCHANGED <<catalog, tables>>
    BY <1>2 DEF Prepare, TasksKnown, database
  <2>2. /\ client'.at = "open" /\ client'.tasks = Tasks(plan) /\ client'.candidates = plan
    BY <1>2 DEF Blank
  <2>3. session.at \notin Active
    BY <2>1 DEF ImpactInv, InContainer
  <2>4. TablesOK' /\ TasksKnown'
    BY <1>2, <2>1, <2>2 DEF TablesOK, TasksKnown
  <2>5. Pinned'
    BY <1>2, <2>3 DEF Pinned, Active
  <2>6. DOMAIN session.counts = {}
    BY <2>1 DEF CountsOK
  <2>7. CountsOK'
    BY <1>2, <2>6 DEF CountsOK, Counted
  <2>8. Truthful(NoReport)
    BY NoReportIsTrue DEF NoReport
  <2>9. CountsAreTrue'
    <3>1. report' = NoReport
      BY <1>2
    <3> QED BY <2>8, <3>1, TrueWhenSaid
  <2> QED BY <2>4, <2>5, <2>7, <2>9
<1> QED BY <1>1, <1>2, RefuseCounts DEF Prepare

LEMMA ConcludeCounts == ASSUME CountingInv, Conclude PROVE CountingInv'
<1>1. Truthful(Report(session.counts))
  BY TrueReport DEF CountingInv, TasksKnown, CountsOK, Conclude
<1> QED BY <1>1, EndCounts, RefuseCounts DEF Conclude

LEMMA SendCounts == ASSUME ImpactInv, CountingInv, Send PROVE CountingInv'
<1> USE DEF CountingInv
<1>1. /\ client.at = "send" /\ client'.at = "run" /\ client'.tasks = client.tasks
      /\ client'.candidates = client.candidates
      /\ UNCHANGED <<catalog, tables, report>>
  BY DEF Send, ImpactInv, ClientOK, database
<1>2. session'.at \in {"preflight", "failed"} /\ session'.counts = <<>>
  BY DEF Send, NoSession
<1>3. /\ TablesOK' /\ TasksKnown' /\ Pinned'
      /\ CountsAreTrue'
  BY <1>1, <1>2, StillTrue DEF TablesOK, TasksKnown, Pinned
<1>4. CountsOK'
  BY <1>2 DEF CountsOK, Counted
<1> QED BY <1>3, <1>4

\* A step of the session changes nothing but what the session knows.
LEMMA StepCounts ==
  ASSUME CountingInv, NEW s, Step(s), Pinned', CountsOK'
  PROVE  CountingInv'
<1>1. UNCHANGED <<client, catalog, tables, report>>
  BY DEF Step, database
<1>2. TablesOK' /\ TasksKnown'
  BY <1>1 DEF CountingInv, TablesOK, TasksKnown
<1>3. CountsAreTrue'
  BY <1>1, StillTrue DEF CountingInv
<1> QED BY <1>2, <1>3 DEF CountingInv

LEMMA LockingCounts ==
  ASSUME ImpactInv, CountingInv,
         \/ UnsupportedServer \/ LockNamespace \/ LockTables \/ Rollback \/ SessionFails
         \/ \E r \in Relations : Preflight(r)
  PROVE  CountingInv'
<1> USE DEF CountingInv, ImpactInv, SessionOK, Sessions, Step
<1>1. CASE UnsupportedServer
  <2>1. session'.at = "done" /\ session'.counts = Nothing
    BY <1>1 DEF UnsupportedServer
  <2>2. Counted(Nothing) = {} /\ DOMAIN Nothing = client.tasks /\ client' = client
    BY <1>1 DEF UnsupportedServer, Counted, Nothing
  <2>3. Pinned' /\ CountsOK'
    BY <2>1, <2>2 DEF Pinned, CountsOK, Counted
  <2> QED BY <1>1, <2>3, StepCounts DEF UnsupportedServer
<1>2. ASSUME NEW r \in Relations, Preflight(r) PROVE CountingInv'
  <2>1. session'.at = "preflight" /\ session'.counts = <<>> /\ client' = client
    BY <1>2 DEF Preflight, CountsOK
  <2>2. Pinned' /\ CountsOK'
    BY <2>1 DEF Pinned, CountsOK, Counted
  <2> QED BY <1>2, <2>2, StepCounts DEF Preflight
<1>3. CASE LockNamespace
  <2>1. /\ session'.at = "lock" /\ session'.counts = <<>> /\ client' = client
        /\ session'.locks = {Namespace}
    BY <1>3 DEF LockNamespace, CountsOK
  <2>2. Pinned' /\ CountsOK'
    BY <2>1 DEF Pinned, CountsOK, Counted
  <2> QED BY <1>3, <2>2, StepCounts DEF LockNamespace
<1>4. CASE LockTables
  <2>1. PICK r \in Wanted :
          \/ session' = [session EXCEPT !.at = "failed", !.locks = {}]
          \/ session' = [session EXCEPT !.locks = @ \cup {catalog[r]}]
    BY <1>4 DEF LockTables
  <2>2. /\ session.at = "lock" /\ session'.counts = <<>> /\ client' = client
        /\ session'.at \in {"lock", "failed"}
        /\ session'.at = "lock" => Namespace \in session'.locks
    BY <1>4, <2>1 DEF LockTables, CountsOK, Pinned
  <2>3. Pinned' /\ CountsOK'
    BY <2>2 DEF Pinned, CountsOK, Counted
  <2> QED BY <1>4, <2>3, StepCounts DEF LockTables
<1>5. CASE Rollback \/ SessionFails
  <2>1. /\ session'.at \in {"done", "failed"} /\ client' = client
        /\ session'.counts = session.counts /\ session'.truth = session.truth
    BY <1>5 DEF Rollback, SessionFails
  <2>2. Pinned' /\ CountsOK'
    BY <2>1 DEF Pinned, CountsOK
  <2> QED BY <1>5, <2>2, StepCounts DEF Rollback, SessionFails
<1> QED BY <1>1, <1>2, <1>3, <1>4, <1>5

LEMMA SnapshotCounts == ASSUME ImpactInv, CountingInv, Snapshot PROVE CountingInv'
<1> USE DEF CountingInv, ImpactInv, SessionOK, Sessions, Step
<1> DEFINE w == [catalog |-> catalog, tables |-> tables, receipt |-> receipt,
                 retirement |-> retirement, box |-> box]
<1>1. /\ session.at = "lock" /\ session'.at = "check" /\ session'.counts = <<>>
      /\ session'.snap = [catalog |-> catalog, tables |-> tables]
      /\ session'.truth = w
      /\ UNCHANGED <<client, catalog, tables>>
      /\ session'.oids = session.oids /\ session'.locks = session.locks
  BY DEF Snapshot, CountsOK, database
<1>2. Wanted' = Wanted
  BY <1>1 DEF Wanted
<1>3. \A r \in Wanted : session.oids[r] = 0 \/ catalog[r] \in session.locks
  BY DEF Snapshot, AllLocked, UnlockedName
<1>4. Pinned'
  BY <1>1, <1>2, <1>3 DEF Pinned, TablesOK
<1>5. CountsOK'
  BY <1>1 DEF CountsOK, Counted
<1> QED BY <1>4, <1>5, StepCounts DEF Snapshot

LEMMA MetadataCheckCounts ==
  ASSUME ImpactInv, CountingInv, NEW t \in client.tasks, MetadataCheck(t)
  PROVE  CountingInv'
<1> USE DEF CountingInv, ImpactInv, SessionOK, Sessions
<1>1. session.at = "check" /\ UNCHANGED <<client, catalog, tables>>
  BY DEF MetadataCheck, Step, database
<1>2. Wanted' = Wanted
  BY <1>1 DEF Wanted
<1>3. CASE SameTable(t.rel) /\ SameTable(t.ref) /\ Step([session EXCEPT !.at = "count", !.task = t])
  <2>1. /\ session'.at = "count" /\ session'.task = t /\ session'.oids = session.oids
        /\ session'.locks = session.locks /\ session'.snap = session.snap
        /\ session'.truth = session.truth /\ session'.counts = session.counts
    BY <1>3 DEF Step
  <2>2. Pinned'
    BY <1>1, <1>2, <1>3, <2>1 DEF Pinned, SameTable
  <2>3. CountsOK'
    BY <1>1, <2>1 DEF CountsOK
  <2> QED BY <1>3, <2>2, <2>3, StepCounts
<1>4. CASE Step([session EXCEPT !.counts = Answered(t, None)])
  <2>1. /\ session'.at = "check" /\ session'.oids = session.oids
        /\ session'.locks = session.locks /\ session'.snap = session.snap
        /\ session'.truth = session.truth /\ session'.counts = Answered(t, None)
    BY <1>1, <1>4 DEF Step
  <2>2. Pinned'
    BY <1>1, <1>2, <2>1 DEF Pinned
  <2>3. /\ DOMAIN Answered(t, None) \subseteq client.tasks
        /\ \A u \in Counted(Answered(t, None)) :
             u \in Counted(session.counts) /\ Answered(t, None)[u] = session.counts[u]
    BY DEF Answered, Counted, CountsOK
  <2>4. CountsOK'
    BY <1>1, <2>1, <2>3 DEF CountsOK
  <2> QED BY <1>4, <2>2, <2>4, StepCounts
<1> QED BY <1>3, <1>4 DEF MetadataCheck

\* The names still stand for the tables of the snapshot when they are counted.
LEMMA CountRowsCounts == ASSUME ImpactInv, CountingInv, CountRows PROVE CountingInv'
<1> USE DEF CountingInv, ImpactInv, SessionOK, Sessions
<1> DEFINE t == session.task
           n == CountQuery(t.metric, Visible(t.rel), Visible(t.ref))
<1>1. session.at = "count" /\ UNCHANGED <<client, catalog, tables>>
  BY DEF CountRows, Step, database
<1>2. Wanted' = Wanted
  BY <1>1 DEF Wanted
<1>3. CASE Step([session EXCEPT !.at = "failed", !.locks = {}])
  <2>1. /\ session'.at = "failed"
        /\ session'.counts = session.counts /\ session'.truth = session.truth
    BY <1>3 DEF Step
  <2>2. Pinned' /\ CountsOK'
    BY <1>1, <2>1 DEF Pinned, CountsOK
  <2> QED BY <1>3, <2>2, StepCounts
<1>4. CASE Step([session EXCEPT !.at = "check", !.counts = Answered(t, n)])
  <2>1. /\ session'.at = "check" /\ session'.oids = session.oids
        /\ session'.locks = session.locks /\ session'.snap = session.snap
        /\ session'.truth = session.truth /\ session'.counts = Answered(t, n)
    BY <1>4 DEF Step
  <2>2. Pinned'
    BY <1>1, <1>2, <2>1 DEF Pinned
  <2>3. t \in client.tasks /\ SameTable(t.rel) /\ SameTable(t.ref)
    BY <1>1 DEF Pinned
  <2>4. IsCount(t, n, session.truth)
    <3>1. /\ session.snap.catalog = session.truth.catalog
          /\ session.snap.tables = session.truth.tables
          /\ session.truth.tables \in [Oids -> [plain : BOOLEAN, values : Contents]]
      BY <1>1 DEF Pinned
    <3>2. /\ catalog[t.rel] = session.truth.catalog[t.rel]
          /\ catalog[t.ref] = session.truth.catalog[t.ref]
          /\ session.truth.catalog[t.rel] \in Oids
          /\ session.truth.tables[session.truth.catalog[t.rel]].plain
      BY <2>3, <3>1 DEF SameTable, IsPlain
    <3> QED BY <3>1, <3>2 DEF IsCount, Visible
  <2>5. /\ DOMAIN Answered(t, n) \subseteq client.tasks
        /\ \A u \in Counted(Answered(t, n)) :
             \/ u = t /\ Answered(t, n)[u] = n
             \/ u \in Counted(session.counts) /\ Answered(t, n)[u] = session.counts[u]
    <3> HIDE DEF n
    <3> QED BY <2>3 DEF Answered, Counted, CountsOK
  <2>6. CountsOK'
    <3> HIDE DEF n, t
    <3> QED BY <1>1, <2>1, <2>4, <2>5 DEF CountsOK
  <2> QED BY <1>4, <2>2, <2>6, StepCounts
<1> QED BY <1>3, <1>4 DEF CountRows

\* What others do in the database spares the names that are locked.
LEMMA TablesChange ==
  ASSUME CountingInv, NEW o \in Oids, Write(o) \/ Alter(o)
  PROVE  CountingInv'
<1> USE DEF CountingInv
<1>1. UNCHANGED <<client, session, catalog, report>>
  BY DEF Write, Alter
<1>2. TablesOK'
  <2>1. tables \in [Oids -> [plain : BOOLEAN, values : Contents]]
    BY DEF TablesOK
  <2>2. CASE Write(o)
    <3>1. PICK v \in Contents : tables' = [tables EXCEPT ![o].values = v]
      BY <2>2 DEF Write
    <3> QED BY <1>1, <2>1, <3>1 DEF TablesOK
  <2>3. CASE Alter(o)
    <3>1. tables' = [tables EXCEPT ![o].plain = ~@]
      BY <2>3 DEF Alter
    <3>2. (~tables[o].plain) \in BOOLEAN
      OBVIOUS
    <3> QED BY <1>1, <2>1, <3>1, <3>2 DEF TablesOK
  <2> QED BY <2>2, <2>3
<1>3. Wanted' = Wanted
  BY <1>1 DEF Wanted
<1>4. TasksKnown' /\ Pinned' /\ CountsOK' /\ CountsAreTrue'
  BY <1>1, <1>3, StillTrue DEF TasksKnown, Pinned, SameTable, CountsOK
<1> QED BY <1>2, <1>4

LEMMA NamesChange ==
  ASSUME ImpactInv, CountingInv, SwapSchemas \/ \E r \in Relations : Rename(r)
  PROVE  CountingInv'
<1> USE DEF CountingInv
<1>1. UNCHANGED <<client, session, tables, report>>
  BY DEF Rename, SwapSchemas
<1>2. TablesOK'
  <2>1. CASE SwapSchemas
    BY <1>1, <2>1 DEF TablesOK, SwapSchemas
  <2>2. ASSUME NEW r \in Relations, Rename(r) PROVE TablesOK'
    <3>1. PICK o \in Oids \cup {None} : catalog' = [catalog EXCEPT ![r] = o]
      BY <2>2 DEF Rename
    <3> QED BY <1>1, <3>1 DEF TablesOK
  <2> QED BY <2>1, <2>2
<1>3. Wanted' = Wanted
  BY <1>1 DEF Wanted
<1>4. session.at \in {"check", "count"} =>
        \A q \in Relations : catalog[q] \in session.locks => catalog'[q] = catalog[q]
  <2>1. CASE SwapSchemas
    BY <2>1 DEF SwapSchemas, Held, Pinned
  <2>2. ASSUME NEW r \in Relations, Rename(r), NEW q \in Relations,
               catalog[q] \in session.locks
        PROVE  catalog'[q] = catalog[q]
    <3>1. q # r
      BY <2>2 DEF Rename, Held
    <3>2. PICK o : catalog' = [catalog EXCEPT ![r] = o]
      BY <2>2 DEF Rename
    <3> QED BY <3>1, <3>2 DEF TablesOK
  <2> QED BY <2>1, <2>2
<1>5. Wanted \subseteq Relations
  <2>1. client.tasks = {} \/ client.tasks = Tasks(client.candidates)
    BY DEF TasksKnown
  <2> QED BY <2>1, TaskOfPlan DEF Wanted
<1>6. Pinned'
  <2>1. session.at \in {"check", "count"} =>
          \A r \in Wanted :
            \/ session.oids[r] = 0
            \/ catalog'[r] = catalog[r] /\ catalog[r] \in session.locks
    BY <1>4, <1>5 DEF Pinned
  <2>2. ASSUME session.at = "count"
        PROVE  SameTable(session.task.rel)' /\ SameTable(session.task.ref)'
    <3>1. {session.task.rel, session.task.ref} \subseteq Wanted
      BY <2>2 DEF Pinned, Wanted
    <3>2. session.oids[session.task.rel] # 0 /\ session.oids[session.task.ref] # 0
      BY <2>2, ImpactAssumption DEF Pinned, SameTable
    <3> QED BY <1>1, <2>1, <2>2, <3>1, <3>2 DEF Pinned, SameTable
  <2> QED BY <1>1, <1>3, <2>1, <2>2 DEF Pinned
<1>7. TasksKnown' /\ CountsOK' /\ CountsAreTrue'
  BY <1>1, StillTrue DEF TasksKnown, CountsOK
<1> QED BY <1>2, <1>6, <1>7

LEMMA KilledCounts ==
  ASSUME ImpactInv, CountingInv, ReplaceContainer \/ ToggleContainer
  PROVE  CountingInv'
<1> USE DEF CountingInv
<1>1. UNCHANGED <<client, catalog, tables, report>> /\ session' = Killed
  BY DEF ReplaceContainer, ToggleContainer, database
<1>2. /\ session'.counts = session.counts /\ session'.truth = session.truth
      /\ session'.at = session.at \/ session'.at = "failed"
      /\ session'.at \in {"none", "done", "failed"}
  BY <1>1 DEF ImpactInv, SessionOK, Killed
<1>3. /\ TablesOK' /\ TasksKnown'
      /\ CountsAreTrue'
  BY <1>1, StillTrue DEF TablesOK, TasksKnown
<1>4. Pinned' /\ CountsOK'
  BY <1>1, <1>2 DEF Pinned, CountsOK
<1> QED BY <1>3, <1>4

LEMMA CountingBegins == ImpactInit => CountingInv
<1> SUFFICES ASSUME ImpactInit PROVE CountingInv
  OBVIOUS
<1>1. /\ client.at = "idle" /\ client.tasks = {} /\ session.at = "none"
      /\ session.counts = <<>> /\ report = NoReport
  BY DEF ImpactInit, Blank, NoSession
<1>2. TablesOK
  BY DEF ImpactInit, TablesOK
<1>3. TasksKnown /\ Pinned
  BY <1>1 DEF TasksKnown, Pinned
<1>4. CountsOK
  BY <1>1 DEF CountsOK, Counted
<1>5. Truthful(NoReport)
  BY NoReportIsTrue DEF NoReport
<1>6. CountsAreTrue
  BY <1>1, <1>5 DEF CountsAreTrue, Truthful
<1> QED BY <1>2, <1>3, <1>4, <1>6 DEF CountingInv

LEMMA CountingInduction ==
  ASSUME ImpactInv, CountingInv, [ImpactNext]_impactVars
  PROVE  CountingInv'
<1>1. CASE \/ Measure \/ ReadAgain \/ OpenReceipt \/ OpenContainer
           \/ AssertReceipt \/ AssertContainer \/ AssertReceiptAgain \/ Receive
           \/ Prepare \/ Conclude \/ Send
  BY <1>1, LooksCount, PrepareCounts, ConcludeCounts, SendCounts
<1>2. CASE ReportFailure \/ TimeOut \/ Cancel
  BY <1>2, GiveUpCounts, RefuseCounts DEF ReportFailure, TimeOut, Cancel
<1>3. CASE \/ UnsupportedServer \/ LockNamespace \/ LockTables \/ Snapshot
           \/ \E r \in Relations : Preflight(r)
           \/ \E t \in client.tasks : MetadataCheck(t)
           \/ CountRows \/ Rollback \/ SessionFails
  BY <1>3, LockingCounts, SnapshotCounts, MetadataCheckCounts, CountRowsCounts
<1>4. CASE Review \/ LeftoverEnds \/ EditFiles \/ Activate \/ RewriteReceipt \/ RewriteRetirement
  BY <1>4, AsideCounts
     DEF Review, LeftoverEnds, EditFiles, Activate, RewriteReceipt, RewriteRetirement, database
<1>5. CASE \/ SwapSchemas \/ ReplaceContainer \/ ToggleContainer
           \/ \E o \in Oids : Write(o) \/ Alter(o)
           \/ \E r \in Relations : Rename(r)
  BY <1>5, NamesChange, KilledCounts, TablesChange
<1>6. CASE UNCHANGED impactVars
  BY <1>6, AsideCounts DEF impactVars
<1> QED BY <1>1, <1>2, <1>3, <1>4, <1>5, <1>6 DEF ImpactNext

\* What measure impact reports of a statement is what it would have met at one
\* instant, in an ordinary table of the name it uses, whatever was written, renamed
\* or swapped meanwhile; and what it calls complete is.
THEOREM ImpactIsCounted == ImpactSpec => []CountsAreTrue
<1>1. ImpactInit => ImpactInv /\ CountingInv
  BY ImpactBegins, CountingBegins
<1>2. ImpactInv /\ CountingInv /\ [ImpactNext]_impactVars => (ImpactInv /\ CountingInv)'
  BY ImpactInduction, CountingInduction
<1>3. CountingInv => CountsAreTrue
  BY DEF CountingInv
<1> QED BY <1>1, <1>2, <1>3, PTL DEF ImpactSpec
=============================================================================
