---------------------------- MODULE OperationGuard ----------------------------
(***************************************************************************)
(* The project operation lock (shared/operation_guard.mts): a directory    *)
(* every state-changing command makes for its project, with its owner      *)
(* record and its progress record inside, taken over when the recorded     *)
(* owner is found dead, and removed when the operation is over; and the    *)
(* history of operations that the lock protects                            *)
(* (shared/operation_progress.mts, operation_progress_storage.mts).        *)
(*                                                                         *)
(* Every access goes through the path of the directory, so it meets        *)
(* whatever stands under that name at that moment.  Between two accesses   *)
(* the process waits, and the other processes go on.                       *)
(*                                                                         *)
(* A directory is the value of its two files.  A lock that was moved aside *)
(* is out of everybody's reach and is dropped from the state.  An owner    *)
(* file that is not wholly written reads like a missing one.               *)
(*                                                                         *)
(* Every access may also fail although the path is as it should be (a full *)
(* disk, an I/O error): such a failure is a disjunct of the step it ends.  *)
(***************************************************************************)
EXTENDS Naturals, FiniteSets

CONSTANTS Procs,      \* commands that change the project, one process each
          Killable,   \* processes that may be killed
          Recycled,   \* processes whose id another process may take over
          Unlucky     \* processes whose accesses to the disk may fail

ASSUME GuardAssumption == Killable \cup Recycled \cup Unlucky \subseteq Procs

VARIABLES
  lock,       \* the directory under the lock's name, a set of at most one
  place,      \* where a process is
  attempt,    \* the round of acquireProjectOperation, 0 or 1
  found,      \* the owner a process read from the lock it met
  report,     \* the operation state the next progress record publishes
  history,    \* the operations recorded in the project's history file
  base,       \* the history a process read before it writes it again
  displaced   \* history: a lock was moved aside that nobody had examined

guardVars == <<lock, place, attempt, found, report, history, base, displaced>>

-----------------------------------------------------------------------------

Empty == [owner |-> {}, progress |-> {}]

Reports == {"running", "completed", "failed"}

Progress == [by : Procs, state : Reports]

Directories == [owner : SUBSET Procs, progress : SUBSET Progress]

\* The process has not exited, whatever it still does.  A process that lost
\* an access which nothing makes up for is "failing" until it exits "failed".
Alive(p) == place[p] \notin {"idle", "dead", "gone", "failed"}

\* readPrivateLockOwner and assertOwnership: the record under the lock's
\* name is the one this process wrote.
Owns(p) == \E d \in lock : d.owner = {p}

MoveTo(p, where) == place' = [place EXCEPT ![p] = where]

-----------------------------------------------------------------------------
(* acquireProjectOperation.                                                *)

Begin(p) ==
  /\ place[p] = "idle"
  /\ MoveTo(p, "mkdir")
  /\ UNCHANGED <<lock, attempt, found, report, history, base, displaced>>

\* The directory, or the owner file, is there already: look at it once.
MeetLock(p) == MoveTo(p, IF attempt[p] = 0 THEN "examine" ELSE "refused")

\* An access failed for a reason that is not in the lock.
AccessFails(p, where) == p \in Unlucky /\ MoveTo(p, where)

\* MakeDirectory, taking over what stands there (a seeded fault).
MakeDirectoryAnyway(p) ==
  /\ place[p] = "mkdir"
  /\ lock' = {Empty} /\ MoveTo(p, "own")
  /\ UNCHANGED <<attempt, found, report, history, base, displaced>>

MakeDirectory(p) ==
  /\ place[p] = "mkdir"
  /\ \/ lock = {} /\ lock' = {Empty} /\ MoveTo(p, "own")
     \/ lock # {} /\ MeetLock(p) /\ UNCHANGED lock
     \/ AccessFails(p, "refused") /\ UNCHANGED lock
  /\ UNCHANGED <<attempt, found, report, history, base, displaced>>

\* The last disjunct: the write fails in the directory just made.  The error
\* is thrown on, and nothing removes the directory.
WriteOwner(p) ==
  /\ place[p] = "own"
  /\ \/ lock = {} /\ MoveTo(p, "refused") /\ UNCHANGED lock
     \/ \E d \in lock : d.owner = {} /\ lock' = {[d EXCEPT !.owner = {p}]}
                        /\ MoveTo(p, "working")
     \/ \E d \in lock : d.owner # {} /\ MeetLock(p) /\ UNCHANGED lock
     \/ AccessFails(p, "failing") /\ UNCHANGED lock
  /\ UNCHANGED <<attempt, found, report, history, base, displaced>>

\* lstat of the lock directory; its disappearance is an error.
ExamineLock(p) ==
  /\ place[p] = "examine"
  /\ \/ MoveTo(p, IF lock = {} THEN "refused" ELSE "read")
     \/ AccessFails(p, "refused")
  /\ UNCHANGED <<lock, attempt, found, report, history, base, displaced>>

\* A record that is missing, incomplete or unreadable refuses the command.
ReadOwner(p) ==
  /\ place[p] = "read"
  /\ \/ \E d \in lock : d.owner # {} /\ found' = [found EXCEPT ![p] = d.owner]
                        /\ MoveTo(p, "judge")
     \/ (\A d \in lock : d.owner = {}) /\ MoveTo(p, "refused") /\ UNCHANGED found
     \/ AccessFails(p, "refused") /\ UNCHANGED found
  /\ UNCHANGED <<lock, attempt, report, history, base, displaced>>

\* processIsAlive: signal 0, which a process that took over the id answers.
ExamineOwner(p) ==
  /\ place[p] = "judge"
  /\ \E o \in found[p] :
       \/ ~Alive(o) /\ MoveTo(p, "aside")
       \/ (Alive(o) \/ o \in Recycled) /\ MoveTo(p, "refused")
  /\ UNCHANGED <<lock, attempt, found, report, history, base, displaced>>

\* The rename: whatever stands under the name now is moved out of the way,
\* and is then removed; or it is gone already.  Both try mkdir once more.
MoveAside(p) ==
  /\ place[p] = "aside"
  /\ \/ /\ lock' = {}
        /\ displaced' = (displaced \/ \E d \in lock : d.owner # found[p])
        /\ attempt' = [attempt EXCEPT ![p] = 1]
        /\ MoveTo(p, IF lock = {} THEN "mkdir" ELSE "sweep")
     \/ AccessFails(p, "refused") /\ UNCHANGED <<lock, displaced, attempt>>
  /\ UNCHANGED <<found, report, history, base>>

SweepAside(p) ==
  /\ place[p] = "sweep"
  /\ MoveTo(p, "mkdir") \/ AccessFails(p, "refused")
  /\ UNCHANGED <<lock, attempt, found, report, history, base, displaced>>

-----------------------------------------------------------------------------
(* The operation: withOperationProgress publishes its stages and its end.  *)

PublishStage(p) ==
  /\ place[p] = "working"
  /\ MoveTo(p, "publish")
  /\ UNCHANGED <<lock, attempt, found, report, history, base, displaced>>

FinishTask(p) ==
  /\ place[p] = "working"
  /\ \E outcome \in {"completed", "failed"} :
       report' = [report EXCEPT ![p] = outcome]
  /\ MoveTo(p, "publish")
  /\ UNCHANGED <<lock, attempt, found, history, base, displaced>>

\* A record that cannot be published fails the operation.  The records are
\* chained, so after the first failure no later one is written either.
PublishFails(p) ==
  /\ report' = [report EXCEPT ![p] = "failed"]
  /\ MoveTo(p, "closing")
  /\ UNCHANGED lock

CheckOwner(p) ==
  /\ place[p] = "publish"
  /\ \/ Owns(p) /\ MoveTo(p, "record") /\ UNCHANGED <<lock, report>>
     \/ (~Owns(p) \/ p \in Unlucky) /\ PublishFails(p)
  /\ UNCHANGED <<attempt, found, history, base, displaced>>

RecordProgress(p) ==
  /\ place[p] = "record"
  /\ \/ /\ \E d \in lock :
             lock' = {[d EXCEPT !.progress = {[by |-> p, state |-> report[p]]}]}
        /\ MoveTo(p, IF report[p] = "running" THEN "working" ELSE "closing")
        /\ UNCHANGED report
     \/ (lock = {} \/ p \in Unlucky) /\ PublishFails(p)
  /\ UNCHANGED <<attempt, found, history, base, displaced>>

-----------------------------------------------------------------------------
(* release, and releaseSync of the exit shortcut.                          *)

\* assertOwnership, and the reading of the record before it: another owner's
\* record ends the release, and so does one that cannot be read.
GoOnIfOwner(p, next) ==
  MoveTo(p, IF Owns(p) THEN next ELSE "lost") \/ AccessFails(p, "failing")

CheckRelease(p) ==
  /\ place[p] = "closing"
  /\ GoOnIfOwner(p, "archive")
  /\ UNCHANGED <<lock, attempt, found, report, history, base, displaced>>

\* The record to archive: the releaser's own, of an operation that ended.
EndedRecord(p) ==
  \E d \in lock : \E r \in d.progress : r.by = p /\ r.state # "running"

\* Without such a record, or a history that can be read and written, the
\* release just goes on.
ReadHistory(p) ==
  /\ place[p] = "archive"
  /\ \/ /\ EndedRecord(p)
        /\ base' = [base EXCEPT ![p] = history]
        /\ MoveTo(p, "append")
     \/ MoveTo(p, "recheck") /\ UNCHANGED base
  /\ UNCHANGED <<lock, attempt, found, report, history, displaced>>

AppendHistory(p) ==
  /\ place[p] = "append"
  /\ history' = base[p] \cup {p}
  /\ MoveTo(p, "recheck")
  /\ UNCHANGED <<lock, attempt, found, report, base, displaced>>

\* RecheckOwner, leaving the lock where it is (a seeded fault).
RecheckSkipped(p) ==
  /\ place[p] = "recheck"
  /\ MoveTo(p, "done")
  /\ UNCHANGED <<lock, attempt, found, report, history, base, displaced>>

RecheckOwner(p) ==
  /\ place[p] = "recheck"
  /\ GoOnIfOwner(p, "remove")
  /\ UNCHANGED <<lock, attempt, found, report, history, base, displaced>>

\* rm, recursively: one file after the other, in any order, then the
\* directory, each by its path.
RemoveLock(p) ==
  /\ place[p] = "remove"
  /\ \/ \E d \in lock : /\ d.owner # {}
                        /\ lock' = {[d EXCEPT !.owner = {}]}
                        /\ UNCHANGED place
     \/ \E d \in lock : /\ d.progress # {}
                        /\ lock' = {[d EXCEPT !.progress = {}]}
                        /\ UNCHANGED place
     \/ lock \subseteq {Empty} /\ lock' = {} /\ MoveTo(p, "done")
     \/ AccessFails(p, "failing") /\ UNCHANGED lock
  /\ UNCHANGED <<attempt, found, report, history, base, displaced>>

\* Ctrl+Z in the guided session: check, remove and exit.
ExitShortcut(p) ==
  /\ place[p] \in {"working", "publish", "record"} /\ report[p] = "running"
  /\ GoOnIfOwner(p, "remove")
  /\ UNCHANGED <<lock, attempt, found, report, history, base, displaced>>

-----------------------------------------------------------------------------
(* The end of a process.                                                   *)

LoseMemory(p) ==
  /\ attempt' = [attempt EXCEPT ![p] = 0]
  /\ found' = [found EXCEPT ![p] = {}]
  /\ report' = [report EXCEPT ![p] = "running"]
  /\ base' = [base EXCEPT ![p] = {}]

Exit(p) ==
  /\ place[p] \in {"done", "refused", "lost", "failing"}
  /\ MoveTo(p, IF place[p] = "failing" THEN "failed" ELSE "gone") /\ LoseMemory(p)
  /\ UNCHANGED <<lock, history, displaced>>

ProcessDies(p) ==
  /\ p \in Killable
  /\ Alive(p) /\ place[p] \notin {"done", "refused", "lost", "failing"}
  /\ MoveTo(p, "dead") /\ LoseMemory(p)
  /\ UNCHANGED <<lock, history, displaced>>

-----------------------------------------------------------------------------

GuardInit ==
  /\ lock = {}
  /\ place = [p \in Procs |-> "idle"]
  /\ attempt = [p \in Procs |-> 0]
  /\ found = [p \in Procs |-> {}]
  /\ report = [p \in Procs |-> "running"]
  /\ history = {}
  /\ base = [p \in Procs |-> {}]
  /\ displaced = FALSE

Acquire(p) ==
  MakeDirectory(p) \/ WriteOwner(p) \/ ExamineLock(p) \/ ReadOwner(p)
  \/ ExamineOwner(p) \/ MoveAside(p) \/ SweepAside(p)

Operate(p) == CheckOwner(p) \/ RecordProgress(p)

Release(p) ==
  CheckRelease(p) \/ ReadHistory(p) \/ AppendHistory(p) \/ RecheckOwner(p)
  \/ RemoveLock(p)

GuardNext ==
  \E p \in Procs :
    Begin(p) \/ Acquire(p) \/ PublishStage(p) \/ FinishTask(p) \/ Operate(p)
    \/ Release(p) \/ ExitShortcut(p) \/ Exit(p) \/ ProcessDies(p)

GuardSpec == GuardInit /\ [][GuardNext]_guardVars

\* A process that is not killed goes on, and every operation ends.
GuardFairness ==
  \A p \in Procs :
    /\ WF_guardVars(Acquire(p) \/ Operate(p) \/ Release(p))
    /\ SF_guardVars(FinishTask(p))

GuardFairSpec == GuardSpec /\ GuardFairness

-----------------------------------------------------------------------------
(* Properties.                                                             *)

\* States in which the command may change the project.
Mutating == {"working", "publish", "record"}

\* States in which the lock is the process's own to keep.
Keeping ==
  Mutating \cup {"closing", "archive", "append", "recheck"}

States ==
  Keeping \cup {"idle", "mkdir", "own", "examine", "read", "judge", "aside",
                "sweep", "remove", "done", "refused", "lost", "gone", "dead",
                "failing", "failed"}

GuardTypeOK ==
  /\ lock \in SUBSET Directories
  /\ place \in [Procs -> States]
  /\ attempt \in [Procs -> {0, 1}]
  /\ found \in [Procs -> SUBSET Procs]
  /\ report \in [Procs -> Reports]
  /\ history \subseteq Procs
  /\ base \in [Procs -> SUBSET Procs]
  /\ displaced \in BOOLEAN

\* "Only one state-changing Rehearsal command may own a project at a time"
\* (docs/security-model.md).
OneOperation ==
  \A p, q \in Procs : place[p] \in Mutating /\ place[q] \in Mutating => p = q

\* The takeover rename is the only way to lose the lock: as long as it moved
\* nothing but the lock whose owner was found dead, one process at a time
\* keeps the lock, under its own owner record, from mkdir to the last unlink.
OwnerKeepsLock ==
  displaced \/
    /\ OneOperation
    /\ \A p \in Procs : place[p] \in Keeping => Owns(p)
    /\ \A p, q \in Procs :
         place[p] \in Keeping \cup {"remove"} /\ place[q] \in Keeping \cup {"own", "remove"}
           => p = q

\* The inductive invariant behind OwnerKeepsLock: one process keeps the lock,
\* and whoever is about to move a lock aside found its owner dead.
Keepers == {p \in Procs : place[p] \in Keeping \cup {"own", "remove"}}

GuardInvariant ==
  /\ GuardTypeOK
  /\ \A d, e \in lock : d = e
  /\ \A p \in Procs : place[p] \in {"judge", "aside"} =>
       \E o \in Procs : /\ found[p] = {o} /\ place[o] # "idle"
                        /\ place[p] = "aside" => place[o] \in {"gone", "dead", "failed"}
  /\ \A d \in lock : \A p \in d.owner : d.owner = {p} /\ place[p] # "idle"
  /\ displaced \/
       /\ \A p, q \in Keepers : p = q
       /\ \A p \in Procs : place[p] \in Keeping => Owns(p)
       /\ \A p \in Procs : place[p] = "own" => lock # {} /\ \A d \in lock : d.owner = {}
       /\ \A p \in Procs : place[p] = "remove" =>
            lock # {} /\ \A d \in lock : d.owner \subseteq {p}

\* The process was killed, or an access failed while it wrote its owner record
\* or gave the lock up.
CutOff(p) == place[p] \in {"dead", "failing", "failed"}

\* A lock does not outlive its operation.  The record of a process leaves the
\* lock, whatever becomes of the others, and a lock without any owner, or of
\* any process, goes too, unless a process was killed or its file system failed
\* while it wrote the owner record or released.  A progress or history record
\* that cannot be written never keeps a lock.
LockIsGivenUp ==
  /\ \A p \in Procs : Owns(p) ~> (~Owns(p) \/ CutOff(p))
  /\ lock # {} ~> (lock = {} \/ displaced \/ \E p \in Procs : CutOff(p))

=============================================================================
