----------------------------- MODULE OwnedProcess -----------------------------
(***************************************************************************)
(* What Rehearsal knows of the processes it launches.  runOwnedProcess     *)
(* (shared/owned_process.mts) runs one child in a process group of its own *)
(* until its pipes close, forwards a cancellation to it, and bounds what   *)
(* follows; the application of a session (application/session.mts,         *)
(* application/process_group.mts) is a group that is stopped as a group.   *)
(*                                                                         *)
(* The timers of one child fire in the order in which they were armed:     *)
(* SIGKILL after the grace, the verdict "unconfirmed" one second later.    *)
(***************************************************************************)
EXTENDS Naturals

VARIABLES
  child,     \* the process that runOwnedProcess waits for, or NoChild
  group,     \* the application's process group
  stopping   \* stopOwnedPosixProcessGroup, called at most once

processes == <<child, group, stopping>>

NoChild == [alive |-> FALSE]

\* alive: the leader runs; piped: somebody holds its output; bound: cancellation
\* is forwarded to it; told: SIGTERM or the like was sent; forced: SIGKILL was
\* sent; flooded: it wrote too much; status: how the leader ended.
Children(Jobs) ==
  [job : Jobs, alive : BOOLEAN, piped : BOOLEAN, bound : BOOLEAN,
   told : BOOLEAN, forced : BOOLEAN, flooded : BOOLEAN,
   status : {"none", "ok", "failed"}]

Running == child # NoChild

-----------------------------------------------------------------------------
(* One child.                                                              *)

\* A child that is bound to a cancellation that already came is told at once.
Launched(job, bound, aborted) ==
  [job |-> job, alive |-> TRUE, piped |-> TRUE, bound |-> bound,
   told |-> bound /\ aborted, forced |-> FALSE, flooded |-> FALSE,
   status |-> "none"]

\* The abort event: forwarded once, and never to a leader that has exited.
Interrupted(c) ==
  IF c # NoChild /\ c.alive THEN [c EXCEPT !.told = c.told \/ c.bound] ELSE c

\* The leader ends; what it left behind may go on holding the pipes.
Exited(c, status) == [c EXCEPT !.alive = FALSE, !.status = status]

Flood ==
  /\ Running /\ child.alive /\ ~child.flooded
  /\ child' = [child EXCEPT !.flooded = TRUE, !.told = TRUE]

ForceFloodOnly ==
  /\ Running /\ child.alive /\ child.flooded /\ ~child.forced
  /\ child' = [child EXCEPT !.forced = TRUE]

\* forceTimer and outputLimitForceTimer.
ForceTimer ==
  /\ Running /\ child.alive /\ child.told /\ ~child.forced
  /\ child.bound \/ child.flooded
  /\ child' = [child EXCEPT !.forced = TRUE]

\* The kernel may take its time to end a killed process.
KilledExits ==
  /\ Running /\ child.alive /\ child.forced
  /\ child' = Exited(child, "failed")

PipesClose ==
  /\ Running /\ ~child.alive /\ child.piped
  /\ child' = [child EXCEPT !.piped = FALSE]

\* "close": the promise resolves with the status, or with the flood's error.
Closed == Running /\ ~child.alive /\ ~child.piped

\* The close timer: after the grace, or a second after the exit.
Overdue == Running /\ ~Closed /\ (~child.alive \/ child.forced)

Succeeded == child.status = "ok" /\ ~child.flooded

-----------------------------------------------------------------------------
(* The application's group.                                                *)

\* Descendants may outlive the leader; its exit starts the retirement.
LeaderExits ==
  /\ group = "leader"
  /\ group' \in {"orphans", "gone"}
  /\ stopping' = IF stopping = "no" THEN "term" ELSE stopping
  /\ UNCHANGED child

OrphansExit ==
  /\ group = "orphans" /\ group' = "gone"
  /\ UNCHANGED <<child, stopping>>

\* Each probe finds the group absent, present, or (macOS) cannot tell; SIGKILL
\* is sent only to a group known to be present.
ObserveGroup ==
  /\ \/ stopping \in {"term", "kill"} /\ group = "gone" /\ stopping' = "done"
     \/ stopping = "term" /\ group # "gone" /\ stopping' \in {"kill", "stuck"}
     \/ stopping = "kill" /\ group # "gone" /\ stopping' = "stuck"
  /\ UNCHANGED <<child, group>>

\* A signalled group ends, or does not.
GroupEnds ==
  /\ stopping \in {"term", "kill"} /\ group # "gone" /\ group # "none"
  /\ group' = "gone"
  /\ UNCHANGED <<child, stopping>>
===============================================================================
