---------------------------- MODULE RuntimeSession ----------------------------
(***************************************************************************)
(* One lifecycle command of the CLI over a stack of targets                *)
(* (cli/runtime/runtime_commands.mts, runtime_stack_runner.mts,            *)
(* runtime_stack_execution.mts, runtime/lifecycle/persistence.mts,         *)
(* cli/commands/runtime_action_handlers.mts): admission, one manager       *)
(* process per target, the project's own commands, the application, the    *)
(* configured completion, and what an interruption does at each of these.  *)
(*                                                                         *)
(* A manager process (scripts/runtime/manage_database.mts) is a program of *)
(* its own; what it does to its target's runtime in detail is the subject  *)
(* of PostgresqlRuntime.  Target 1 is the primary, the others depend on it.*)
(***************************************************************************)
EXTENDS OwnedProcess, RuntimeTopology

CONSTANTS Size,        \* number of targets
          Projects,    \* the configuration files a project may have: for each
                       \* of its names, the documents by their paths
          Commands,    \* the commands a behaviour may start
          MaxSignals   \* bound: interruptions by the user

ASSUME SessionAssumption ==
  /\ Size \in Nat \ {0} /\ MaxSignals \in Nat
  /\ Commands \subseteq {"run", "open", "start", "reset", "migrate", "stop",
                         "discard"}
  /\ \A p \in DOMAIN Projects : Len(StackOf(Projects[p], PrimaryPath)) = Size

VARIABLES
  config,      \* the project, the command, its completion mode, protection and
               \* readiness, which vary beside the documents
  runtime,     \* the containers of each target
  wiped,       \* targets whose data was replaced or removed
  stage,       \* where the command is
  frame,       \* which runtime stack is being executed
  todo,        \* targets still to be handled in this stage
  done,        \* targets this stack has a receipt for
  admitted,    \* the workload ticket is held
  error,       \* what is being thrown: an AggregateError is "incomplete"
  held,        \* the operation's error while its completion runs
  missed,      \* a step of the cleanup or of the completion failed
  shielded,    \* withOperationCancellationShield
  aborted,     \* the cancellation signal
  closing,     \* who was interrupted instead: the startup or the session
  listener,    \* the owner of the terminal input
  signals,     \* interruptions so far
  outcome,     \* how the command ended
  receipted,   \* history: targets the main stack had a receipt for
  mishap,      \* history: something failed, or left something behind
  lost,        \* history: a process whose end was not confirmed
  ticketLost   \* history: the ticket could not be released

world == <<runtime, wiped>>
program == <<stage, frame, todo, done, admitted>>
verdict == <<error, held, missed, shielded>>
input == <<aborted, closing, listener, signals>>
history == <<receipted, mishap, lost, ticketLost>>
vars == <<config, world, processes, program, verdict, input, outcome, history>>

-----------------------------------------------------------------------------

Targets == 1 .. Size
Dependents == Targets \ {1}
Actions == {"run", "start", "reset", "migrate", "verify", "stop", "discard"}
Heavy == {"run", "start", "reset", "migrate"}
Destructive == {"run", "reset", "migrate", "discard"}
Cancellable == {"run", "open", "start", "reset", "migrate"}
Ending == {"stop", "discard"}

First(S) == CHOOSE t \in S : \A u \in S : t <= u
Final(S) == CHOOSE t \in S : \A u \in S : u <= t

\* runtimeCompletionAction of the mode that goes with the command.
Completion ==
  IF config.command \in {"run", "open", "start"} /\ config.mode # "keep"
  THEN config.mode ELSE "none"

\* What the managers of the current stack are asked to do.
Work == CASE frame = "verify" -> "verify"
          [] frame = "policy" -> Completion
          [] frame = "main" -> IF config.command = "open" THEN "start"
                                                          ELSE config.command

Attended == config.command \in {"run", "open"}
CanCancel == config.command \in Cancellable
Cancelled == aborted /\ ~shielded

\* loadRuntimeTopology, at the start of a command and of each stack of targets.
Loads == TopologyLoads(Projects[config.project], PrimaryPath)

\* selectRuntimeTargets and assertRuntimeCompletionAllowed.
Allowed ==
  /\ Work \in Destructive => config.protected = {}
  /\ Work \in {"run", "start"} /\ Completion = "discard" =>
       config.protected = {}

Worse(m) == mishap' = IF mishap = "residue" THEN mishap ELSE m

Init ==
  /\ config \in [project : DOMAIN Projects, command : Commands,
                 mode : {"keep", "stop", "discard"}, protected : SUBSET Targets,
                 readiness : BOOLEAN]
  /\ config.command \notin {"run", "open", "start"} => config.mode = "keep"
  /\ config.command # "run" => config.readiness
  /\ runtime \in [Targets -> {"absent", "stopped", "running"}]
  /\ wiped = {}
  /\ child = NoChild /\ group = "none" /\ stopping = "no"
  /\ stage = "begin" /\ frame = "main" /\ todo = {} /\ done = {}
  /\ admitted = FALSE
  /\ error = "none" /\ held = "none" /\ missed = FALSE /\ shielded = FALSE
  /\ aborted = FALSE /\ closing = "no" /\ signals = 0
  /\ listener = IF config.command \in Cancellable THEN "command" ELSE "none"
  /\ outcome = "none"
  /\ receipted = {} /\ mishap = "none" /\ lost = FALSE /\ ticketLost = FALSE

-----------------------------------------------------------------------------
(* Interruption.  Every owner of the terminal installs handlers; only the  *)
(* last one acts on a signal.                                              *)

Signal ==
  /\ CanCancel /\ outcome = "none" /\ signals < MaxSignals
  /\ signals' = signals + 1
  /\ IF listener = "command"
     THEN /\ aborted' = TRUE /\ child' = Interrupted(child)
          /\ UNCHANGED closing
     ELSE /\ closing' = listener
          /\ UNCHANGED <<aborted, child>>
  /\ UNCHANGED <<config, world, group, stopping, program, verdict, listener,
                 outcome, history>>

-----------------------------------------------------------------------------
(* The manager of one target.                                              *)

Manager(phase) ==
  Running /\ child.alive /\ child.job.of = "manager" /\ child.job.phase = phase

Quiet == UNCHANGED <<config, group, stopping, program, verdict, input, outcome,
                     receipted, lost, ticketLost>>

Phase(p) == child' = [child EXCEPT !.job.phase = p]

\* Interrupted by its own handlers; without them SIGTERM ends a process.
Told == child.told /\ child.bound

\* guardRuntimeManagerAction, runRuntimeLifecycle.
ManagerStarts ==
  /\ Manager("guard") /\ ~Told
  /\ ~(child.job.target \in config.protected /\ child.job.action \in Destructive)
  /\ Phase("working")
  /\ UNCHANGED <<world, mishap>> /\ Quiet

ManagerRefuses ==
  /\ Manager("guard")
  /\ child' = Exited(child, "failed")
  /\ IF Told THEN UNCHANGED mishap ELSE Worse("fault")
  /\ UNCHANGED world /\ Quiet

Possible(a, s) ==
  /\ a = "verify" => s = "running"
  /\ a = "migrate" => s # "absent"

Reached(a, s) ==
  CASE a = "discard" -> "absent"
    [] a = "stop" -> IF s = "absent" THEN s ELSE "stopped"
    [] OTHER -> "running"

ManagerChanges ==
  /\ Manager("working")
  /\ LET t == child.job.target
         a == child.job.action
     IN  /\ Possible(a, runtime[t])
         /\ runtime' = [runtime EXCEPT ![t] = Reached(a, @)]
         /\ wiped' = IF /\ a \in {"run", "reset", "discard"}
                        /\ runtime[t] # "absent"
                     THEN wiped \cup {t} ELSE wiped
  /\ Phase("changed")
  /\ UNCHANGED mishap /\ Quiet

Undoable == {"run", "reset", "migrate", "start"}

\* The operation fails by itself or at a checkpoint; some have a rollback.
ManagerFails ==
  /\ Manager("working") \/ Manager("changed")
  /\ child' = IF child.job.action \in Undoable
              THEN [child EXCEPT !.job.phase = "failing"]
              ELSE Exited(child, "failed")
  /\ IF Told THEN UNCHANGED mishap ELSE Worse("fault")
  /\ UNCHANGED world /\ Quiet

UndoneByRemoval(job) == {"absent"}

\* withOwnedRuntimeRollback and withRuntimeStartupCleanup.
Undone(job) ==
  CASE job.action = "start" -> {job.before}
    [] job.action = "run" -> {"absent", "stopped"}
    [] OTHER -> {"absent"}

ManagerUndoes ==
  /\ Manager("failing")
  /\ LET t == child.job.target IN
     \E s \in Undone(child.job) :
       /\ runtime' = [runtime EXCEPT ![t] = s]
       /\ wiped' = IF child.job.before # "absent" /\ s = "absent"
                   THEN wiped \cup {t} ELSE wiped
  /\ child' = Exited(child, "failed")
  /\ UNCHANGED mishap /\ Quiet

ManagerFailsToUndo ==
  /\ Manager("failing")
  /\ child' = Exited(child, "failed")
  /\ Worse("residue")
  /\ UNCHANGED world /\ Quiet

\* The last checkpoint: a cancellation that comes later is not rolled back.
ManagerFinishes ==
  /\ Manager("changed") /\ ~(Told /\ child.job.action \in Undoable)
  /\ Phase("finished")
  /\ UNCHANGED <<world, mishap>> /\ Quiet

ManagerExits ==
  /\ Manager("finished")
  /\ child' = Exited(child, IF Told THEN "failed" ELSE "ok")
  /\ UNCHANGED <<world, mishap>> /\ Quiet

\* A project's command does as it likes.
CommandExits ==
  /\ Running /\ child.alive /\ child.job.of = "command"
  /\ \E s \in {"ok", "failed"} :
       /\ child' = Exited(child, s)
       /\ IF s = "ok" \/ child.told THEN UNCHANGED mishap ELSE Worse("fault")
  /\ UNCHANGED world /\ Quiet

\* Killed after its grace, or, without handlers, by the first signal.
ProcessKilled ==
  /\ \/ KilledExits
     \/ /\ Running /\ child.alive /\ child.told /\ ~child.bound
        /\ child' = Exited(child, "failed")
  /\ IF child.job.of = "manager" /\ child.job.phase \notin {"guard", "finished"}
     THEN Worse("residue") ELSE Worse("fault")
  /\ UNCHANGED world /\ Quiet

ProcessFloods ==
  /\ Flood /\ Worse("fault") /\ UNCHANGED world /\ Quiet

ProcessForced ==
  /\ ForceTimer /\ UNCHANGED <<world, mishap>> /\ Quiet

OutputCloses ==
  /\ PipesClose /\ UNCHANGED <<world, mishap>> /\ Quiet

ApplicationStep ==
  /\ LeaderExits \/ OrphansExit \/ ObserveGroup \/ GroupEnds
  /\ UNCHANGED <<config, world, program, verdict, input, outcome, history>>

-----------------------------------------------------------------------------
(* runOwnedProcess as its caller sees it.                                  *)

Job(of, a, t) ==
  [of |-> of, action |-> a, target |-> t, phase |-> "guard",
   before |-> runtime[t]]

Launch(of, a, t) ==
  child' = Launched(Job(of, a, t), CanCancel /\ ~shielded, aborted)

Settled == Closed \/ Overdue

ThrownCancelledFirst ==
  CASE Cancelled -> "cancelled"
    [] ~Cancelled /\ ~Closed -> "incomplete"
    [] ~Cancelled /\ Closed /\ ~Succeeded -> "failed"
    [] OTHER -> "none"

\* What executeManager and runProjectCommand throw: the unconfirmed end first,
\* then the cancellation, whatever the process reports, then its failure.
Thrown ==
  CASE ~Closed -> "incomplete"
    [] Closed /\ child.flooded /\ Cancelled -> "failed"
    [] Closed /\ ~child.flooded /\ Cancelled -> "cancelled"
    [] Closed /\ ~Cancelled /\ ~Succeeded -> "failed"
    [] OTHER -> "none"

Settle ==
  /\ Settled
  /\ child' = NoChild
  /\ lost' = (lost \/ child.alive)
  /\ IF Closed THEN UNCHANGED mishap ELSE Worse("residue")

Aside == UNCHANGED <<config, world, group, stopping, input, outcome>>

-----------------------------------------------------------------------------
(* executeRuntimeStack: admission, checks, the managers in order.          *)

\* openRuntimeApplication and prepareCandidateConfirmation, which may decline.
Begin ==
  /\ stage = "begin"
  /\ \/ /\ Loads
        /\ config.command = "open" =>
             /\ ~Cancelled
             /\ Completion = "discard" => config.protected = {}
             /\ \A t \in Targets : runtime[t] # "absent"
        /\ stage' = "admit" /\ UNCHANGED <<error, mishap>>
     \/ stage' = "end" /\ error' = "failed" /\ Worse("fault")
     \/ stage' = "end" /\ UNCHANGED <<error, mishap>>
  /\ UNCHANGED <<child, frame, todo, done, admitted, held, missed, shielded,
                 receipted, lost, ticketLost>>
  /\ Aside

Admit ==
  /\ stage = "admit"
  /\ \/ /\ Work \in Heavy /\ ~Cancelled
        /\ admitted' = TRUE /\ stage' = "check" /\ UNCHANGED <<error, mishap>>
     \/ /\ Work \in Heavy
        /\ stage' = "return"
        /\ error' = IF Cancelled THEN "cancelled" ELSE "failed"
        /\ IF Cancelled THEN UNCHANGED mishap ELSE Worse("fault")
        /\ UNCHANGED admitted
     \/ /\ Work \notin Heavy
        /\ stage' = "check" /\ UNCHANGED <<admitted, error, mishap>>
  /\ UNCHANGED <<child, frame, todo, done, held, missed, shielded, receipted,
                 lost, ticketLost>>
  /\ Aside

Check ==
  /\ stage = "check"
  /\ \/ /\ Allowed /\ ~(Work \in Heavy /\ Cancelled)
        /\ stage' = "execute" /\ todo' = Targets /\ done' = {}
        /\ UNCHANGED <<error, mishap>>
     \/ /\ stage' = "leave"
        /\ error' = IF Work \in Heavy /\ Cancelled THEN "cancelled" ELSE "failed"
        /\ IF Work \in Heavy /\ Cancelled THEN UNCHANGED mishap
                                          ELSE Worse("fault")
        /\ UNCHANGED <<todo, done>>
  /\ UNCHANGED <<child, frame, admitted, held, missed, shielded, receipted,
                 lost, ticketLost>>
  /\ Aside

\* stop and discard go from the dependents to the primary.
NextTarget == IF Work \in Ending THEN Final(todo) ELSE First(todo)

ExecuteTarget ==
  /\ stage = "execute" /\ ~Running /\ todo # {}
  /\ Launch("manager", Work, NextTarget)
  /\ UNCHANGED <<program, verdict, history>> /\ Aside

CleansUp ==
  /\ Work \in {"run", "start"} /\ frame = "main" /\ Completion # "none"

StackFailsFast(e) ==
  error' = e /\ stage' = "leave" /\ UNCHANGED <<todo, done, shielded>>

\* executeRuntimeTargetStack stops the targets that it has a receipt for.
StackFails(e) ==
  /\ error' = e
  /\ IF CleansUp /\ done # {}
     THEN stage' = "cleanup" /\ todo' = done /\ shielded' = TRUE
     ELSE stage' = "leave" /\ UNCHANGED <<todo, shielded>>
  /\ UNCHANGED done

\* The configuration, the engine or the package changed before the launch.
ExecuteRefused ==
  /\ stage = "execute" /\ ~Running /\ todo # {}
  /\ StackFails("failed") /\ Worse("fault")
  /\ UNCHANGED <<child, frame, admitted, held, missed, receipted, lost,
                 ticketLost>>
  /\ Aside

TargetExecuted ==
  /\ stage = "execute" /\ Settle
  /\ IF Thrown = "none"
     THEN /\ done' = done \cup {child.job.target}
          /\ todo' = todo \ {child.job.target}
          /\ receipted' = IF frame = "main" THEN done' ELSE receipted
          /\ UNCHANGED <<stage, error, shielded>>
     ELSE StackFails(Thrown) /\ UNCHANGED receipted
  /\ UNCHANGED <<frame, admitted, held, missed, ticketLost>>
  /\ Aside

CleanTarget ==
  /\ stage = "cleanup" /\ ~Running /\ todo # {}
  /\ Launch("manager", Completion, Final(todo))
  /\ UNCHANGED <<program, verdict, history>> /\ Aside

CleanRefused ==
  /\ stage = "cleanup" /\ ~Running /\ todo # {}
  /\ todo' = todo \ {Final(todo)} /\ missed' = TRUE /\ Worse("fault")
  /\ UNCHANGED <<child, stage, frame, done, admitted, error, held, shielded,
                 receipted, lost, ticketLost>>
  /\ Aside

TargetCleaned ==
  /\ stage = "cleanup" /\ Settle
  /\ todo' = todo \ {child.job.target}
  /\ missed' = (missed \/ Thrown # "none")
  /\ UNCHANGED <<stage, frame, done, admitted, error, held, shielded, receipted,
                 ticketLost>>
  /\ Aside

CleanupEnds ==
  /\ stage = "cleanup" /\ ~Running /\ todo = {}
  /\ error' = IF missed THEN "incomplete" ELSE error
  /\ stage' = "leave" /\ shielded' = FALSE
  /\ UNCHANGED <<child, frame, todo, done, admitted, held, missed, history>>
  /\ Aside

\* A stack that went down releases the engine Rehearsal started, if idle.
StackCompletes ==
  /\ stage = "execute" /\ ~Running /\ todo = {}
  /\ stage' = "leave"
  /\ \/ UNCHANGED <<error, mishap>>
     \/ Work \in Ending /\ error' = "failed" /\ Worse("fault")
  /\ UNCHANGED <<child, frame, todo, done, admitted, held, missed, shielded,
                 receipted, lost, ticketLost>>
  /\ Aside

\* withWorkloadAdmission releases its ticket whatever happened.
Leave ==
  /\ stage = "leave" /\ stage' = "return" /\ admitted' = FALSE
  /\ \/ UNCHANGED <<error, mishap, ticketLost>>
     \/ /\ admitted /\ ticketLost' = TRUE /\ Worse("fault")
        /\ error' = IF error = "none" THEN "failed" ELSE "incomplete"
  /\ UNCHANGED <<child, frame, todo, done, held, missed, shielded, receipted,
                 lost>>
  /\ Aside

-----------------------------------------------------------------------------
(* What the command does between its stacks.                               *)

ReturnMain ==
  /\ stage = "return" /\ frame = "main"
  /\ IF error # "none" THEN stage' = "end" /\ UNCHANGED <<frame, todo>>
     ELSE CASE config.command = "open" ->
                 stage' = "admit" /\ frame' = "verify" /\ UNCHANGED todo
            [] config.command \in {"run", "reset", "migrate"} ->
                 stage' = "prepare" /\ todo' = Dependents /\ UNCHANGED frame
            [] OTHER -> stage' = "end" /\ UNCHANGED <<frame, todo>>
  /\ UNCHANGED <<child, done, admitted, verdict, history>>
  /\ Aside

ReturnVerify ==
  /\ stage = "return" /\ frame = "verify"
  /\ IF error = "none" THEN stage' = "prepare" /\ todo' = Dependents
                       ELSE stage' = "policy" /\ UNCHANGED todo
  /\ UNCHANGED <<child, frame, done, admitted, verdict, history>>
  /\ Aside

\* applyRuntimePersistence: a failed completion with anything else that went
\* wrong by now is an AggregateError.
ReturnPolicy ==
  /\ stage = "return" /\ frame = "policy"
  /\ stage' = "end" /\ shielded' = FALSE
  /\ error' = CASE error = "none" -> held
                [] error # "none" /\ (held # "none" \/ aborted) -> "incomplete"
                [] OTHER -> error
  /\ missed' = (missed \/ error # "none")
  /\ UNCHANGED <<child, frame, todo, done, admitted, held, history>>
  /\ Aside

\* After the operation: the application first, if there is one.
Unwind(e) ==
  /\ error' = e
  /\ stage' = CASE ~Attended -> "end"
                [] Attended /\ listener # "command" -> "halt"
                [] Attended /\ group # "none" -> "halt"
                [] OTHER -> "policy"

\* prepareDependentTargets and proveRuntimeStack run the project's commands; a
\* dependent may have none to prepare it.
ProofNext == IF todo \cap Dependents # {} THEN First(todo \cap Dependents) ELSE 1

RunCommand ==
  /\ stage \in {"prepare", "prove"} /\ ~Running /\ todo # {}
  /\ \/ Launch("command", "prove", ProofNext) /\ UNCHANGED todo
     \/ /\ stage = "prepare" /\ todo' = todo \ {ProofNext}
        /\ UNCHANGED child
  /\ UNCHANGED <<stage, frame, done, admitted, verdict, history>>
  /\ Aside

CommandSettled ==
  /\ stage \in {"prepare", "prove"} /\ Settle
  /\ IF Thrown = "none" THEN /\ todo' = todo \ {child.job.target}
                             /\ UNCHANGED <<stage, error>>
                        ELSE Unwind(Thrown) /\ UNCHANGED todo
  /\ UNCHANGED <<frame, done, admitted, held, missed, shielded, receipted,
                 ticketLost>>
  /\ Aside

Prepared ==
  /\ stage = "prepare" /\ ~Running /\ todo = {}
  /\ CASE ~Attended -> stage' = "end" /\ UNCHANGED todo
       [] Attended /\ config.readiness -> stage' = "launch" /\ UNCHANGED todo
       [] OTHER -> stage' = "prove" /\ todo' = Targets
  /\ UNCHANGED <<child, frame, done, admitted, verdict, history>>
  /\ Aside

Calm == UNCHANGED <<config, world, child, frame, done, admitted, held, missed,
                    shielded, aborted, signals, outcome, receipted, lost,
                    ticketLost>>

\* startApplicationSession.
LaunchApplication ==
  /\ stage = "launch"
  /\ group' = "leader" /\ listener' = "startup"
  /\ IF Cancelled
     THEN error' = "cancelled" /\ stage' = "halt" /\ stopping' = "term"
     ELSE stage' = "ready" /\ UNCHANGED <<error, stopping>>
  /\ UNCHANGED <<todo, closing, mishap>> /\ Calm

LaunchFails ==
  /\ stage = "launch"
  /\ Unwind("failed") /\ Worse("fault")
  /\ UNCHANGED <<group, stopping, todo, listener, closing>> /\ Calm

Stop == stopping' = IF stopping = "no" THEN "term" ELSE stopping

ApplicationReady ==
  /\ stage = "ready" /\ group = "leader" /\ closing = "no"
  /\ listener' = "command"
  /\ IF config.command = "open"
     THEN stage' = "handoff" /\ UNCHANGED todo
     ELSE stage' = "prove" /\ todo' = Targets
  /\ UNCHANGED <<group, stopping, closing, error, mishap>> /\ Calm

\* It exits, it takes too long, or the user does not wait for it.
StartupFails ==
  /\ stage = "ready"
  /\ Unwind(IF closing = "startup" THEN "cancelled" ELSE "failed") /\ Stop
  /\ IF closing = "startup" THEN UNCHANGED mishap ELSE Worse("fault")
  /\ UNCHANGED <<group, todo, closing, listener>> /\ Calm

HandoffDrops ==
  /\ stage \in {"handoff", "attach"}
  /\ IF Cancelled THEN error' = "cancelled" /\ stage' = "policy"
                  ELSE /\ stage' = IF stage = "handoff" THEN "attach" ELSE "hold"
                       /\ UNCHANGED error
  /\ listener' = IF stage = "attach" THEN "session" ELSE listener
  /\ UNCHANGED <<group, stopping, todo, closing, mishap>> /\ Calm

\* A signal may come before the session listens: checked on both sides.
Handoff ==
  /\ stage \in {"handoff", "attach"}
  /\ IF Cancelled THEN Unwind("cancelled") /\ Stop
                  ELSE /\ stage' = IF stage = "handoff" THEN "attach" ELSE "hold"
                       /\ UNCHANGED <<error, stopping>>
  /\ listener' = IF stage = "attach" THEN "session" ELSE listener
  /\ UNCHANGED <<group, todo, closing, mishap>> /\ Calm

\* holdApplicationSession: interrupted, idle for too long, or exited.
SessionCloses ==
  /\ stage = "hold" /\ Stop /\ stage' = "halt"
  /\ \/ UNCHANGED <<error, mishap>>
     \/ error' = "failed" /\ Worse("fault")
  /\ UNCHANGED <<group, todo, closing, listener>> /\ Calm

HttpProofs ==
  /\ stage = "prove" /\ ~Running /\ todo = {}
  /\ \/ Unwind("none") /\ UNCHANGED mishap
     \/ Unwind("failed") /\ Worse("fault")
  /\ UNCHANGED <<group, stopping, todo, closing, listener>> /\ Calm

\* Both ways to stop wait for the one retirement of the group. run's own
\* finally replaces the error of its proofs.
HaltApplication ==
  /\ stage = "halt"
  /\ \/ stopping = "no" /\ Stop /\ UNCHANGED <<stage, error, listener, mishap>>
     \/ /\ stopping = "done" /\ stage' = "policy" /\ listener' = "command"
        /\ UNCHANGED <<stopping, error, mishap>>
     \/ /\ stopping = "stuck" /\ stage' = "policy" /\ listener' = "command"
        /\ error' = IF \/ listener = "startup"
                       \/ config.command = "open" /\ error # "none"
                    THEN "incomplete" ELSE "failed"
        /\ Worse("residue") /\ UNCHANGED stopping
  /\ UNCHANGED <<group, todo, closing>> /\ Calm

Policy ==
  /\ stage = "policy"
  /\ IF Completion = "none" THEN /\ stage' = "end"
                                 /\ UNCHANGED <<frame, error, held, shielded>>
     ELSE /\ stage' = "admit" /\ frame' = "policy" /\ shielded' = TRUE
          /\ held' = error /\ error' = "none"
  /\ UNCHANGED <<child, todo, done, admitted, missed, history>>
  /\ Aside

\* runWithOperationCancellation.
Finish ==
  /\ stage = "end" /\ outcome = "none"
  /\ outcome' = CASE aborted /\ error # "incomplete" -> "cancelled"
                  [] ~aborted /\ error = "none" -> "ok"
                  [] OTHER -> error
  /\ listener' = "none"
  /\ UNCHANGED <<config, world, processes, program, verdict, aborted, closing,
                 signals, history>>

-----------------------------------------------------------------------------

ManagerStep ==
  \/ ManagerStarts \/ ManagerRefuses \/ ManagerChanges \/ ManagerFails
  \/ ManagerUndoes \/ ManagerFailsToUndo \/ ManagerFinishes \/ ManagerExits
  \/ CommandExits

ProcessStep ==
  ProcessKilled \/ ProcessFloods \/ ProcessForced \/ OutputCloses

StackStep ==
  \/ Admit \/ Check \/ ExecuteTarget \/ ExecuteRefused \/ TargetExecuted
  \/ CleanTarget \/ CleanRefused \/ TargetCleaned \/ CleanupEnds
  \/ StackCompletes \/ Leave

CommandStep ==
  \/ Begin \/ ReturnMain \/ ReturnVerify \/ ReturnPolicy
  \/ RunCommand \/ CommandSettled \/ Prepared \/ LaunchApplication
  \/ LaunchFails \/ ApplicationReady \/ StartupFails \/ Handoff
  \/ HttpProofs \/ HaltApplication \/ Policy \/ Finish

Next ==
  \/ Signal \/ ManagerStep \/ ProcessStep \/ ApplicationStep \/ StackStep
  \/ CommandStep \/ SessionCloses

Spec == Init /\ [][Next]_vars

\* The event loop runs the command and its timers. The user owes nothing, and
\* neither does a process that can be forced; a manager that is not bound to
\* the cancellation (it completes or cleans up) is assumed to end.
Fairness ==
  /\ WF_vars(StackStep \/ CommandStep)
  /\ WF_vars(ProcessForced)
  /\ WF_vars(ApplicationStep /\ stopping' # stopping)
  /\ WF_vars(Running /\ ~child.bound /\ (ManagerStep \/ ProcessKilled))

FairSpec == Spec /\ Fairness

-----------------------------------------------------------------------------
(* Properties.                                                             *)

Ended == outcome # "none"
Bounded == Attended /\ Completion # "none"

\* However run or open ends, a completion mode leaves no target running that
\* the command has a manager's receipt for, unless a stop failed and that is
\* reported (persistence.mts, runtime_stack_execution.mts). A ticket that
\* could not be released is the exception.
ReceiptedTargetsDown ==
  Ended /\ Bounded /\ ~ticketLost
    /\ (\E t \in receipted : runtime[t] = "running")
      => missed /\ outcome # "ok"

\* No command, completion, rollback or cleanup replaces or removes the data of
\* a protected target, whatever fails and whoever interrupts, or any data of a
\* project whose targets would share what only one of them may have.
ProtectedDataKept ==
  wiped \cap (IF Loads THEN config.protected ELSE Targets) = {}

\* Interrupting a command never cuts its own cleanup short: partial cleanup is
\* reported only when something else really failed (the shield).
CleanupNotCutShort == outcome = "incomplete" => mishap # "none"

\* When the command has ended, its application is gone, or could not be
\* stopped and the command does not claim success.
ApplicationRetired ==
  Ended => \/ group \in {"none", "gone"}
           \/ stopping = "stuck" /\ outcome # "ok"

\* A process whose end is unconfirmed makes the command end as incomplete; only
\* an application that cannot be stopped either hides it.
UnconfirmedIsReported ==
  Ended /\ lost => outcome = "incomplete" \/ stopping = "stuck"

\* One signal means one thing: it closes the attached session, which ends as it
\* would without it, or it cancels the command; interrupting the startup is
\* never success.
SignalHasOneMeaning ==
  Ended /\ signals = 1 =>
    /\ closing = "session" => outcome # "cancelled"
    /\ closing = "startup" => ~aborted /\ outcome # "ok"

\* A stack goes down from its dependents to its primary: a target is stopped or
\* removed only when no dependent of it is running any more.
DependentsDownFirst ==
  [][\A t \in Targets :
       /\ runtime[t] = "running" /\ runtime'[t] # "running"
       /\ stage = "execute" /\ Work \in Ending
       => \A u \in Targets : t < u => runtime[u] # "running"]_vars

\* A cancelled command ends, even when the process it waits for ignores every
\* signal and keeps its output open.
CancellationEnds == aborted ~> Ended

\* A stack is taken down whole, and from its dependents to its primary.
StackGoesDown == [][ReceiptedTargetsDown']_vars /\ DependentsDownFirst

\* What fails or is left behind makes the command fail, whichever of its steps
\* it was; only a cancellation that has come by then may hide it (the manager's
\* own account is not read after one).
MishapIsTold ==
  Ended /\ mishap # "none" => outcome \in {"failed", "incomplete"} \/ aborted

\* A cleanup of completed targets or a completion that failed makes the outcome
\* incomplete, cancelled or not, unless it is all that went wrong: then its own
\* failure is thrown, which a later signal may still replace.
FailedCleanupIsTold ==
  Ended /\ missed => outcome = "incomplete" \/ (held = "none" /\ error = "failed")

\* The outcome of a command tells what happened: it fails when a step of it did
\* and no cancellation came first, it is incomplete when an end is unconfirmed
\* or, on top of another error or a cancellation, a cleanup or the completion
\* failed, but not because its user interrupted it, and it is cancelled when the
\* signal cancelled it, not when it closed the session.
OutcomeIsTrue ==
  /\ CleanupNotCutShort /\ UnconfirmedIsReported /\ SignalHasOneMeaning
  /\ MishapIsTold /\ FailedCleanupIsTold

\* "cleanup failure is not reported as clean cancellation" (docs/commands.md, of
\* an open that is cancelled before its session).  Not so: what the manager
\* reports of its failed rollback is not read once the command is cancelled.
CancellationIsClean ==
  config.command = "open" /\ outcome = "cancelled" => mishap # "residue"

\* "A later interruption must not let the outer cancellation owner replace a
\* real cleanup fault with clean130" (persistence.mts).  It may, from the moment
\* the fault has been thrown until the command has recorded its end and given
\* its lock up.
CleanupFaultStays == missed => outcome # "cancelled"

===============================================================================
