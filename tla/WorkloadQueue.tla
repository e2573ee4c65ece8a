---------------------------- MODULE WorkloadQueue ----------------------------
(***************************************************************************)
(* The cooperative admission queue of the local user                       *)
(* (runtime/resources/workload_queue.mts and workload_queue_store.mts).    *)
(*                                                                         *)
(* Every request that wants to run a guarded runtime phase owns one ticket *)
(* file in a shared directory.  It publishes the ticket as "choosing",     *)
(* reads the other tickets, publishes it again as "queued" with a number   *)
(* above all those it saw, and polls the directory until no other ticket   *)
(* stands before it; then it publishes the ticket as "held" and works.     *)
(* Nothing locks the directory: a listing opens the files one after the    *)
(* other, and the liveness of a ticket's owner is asked after the file was *)
(* read.  Requests die at any point, their process id may be taken over by *)
(* a foreign process, dead waiters are reclaimed by their competitors, and *)
(* a dead holder only by an operator who confirms the digest of a review.  *)
(*                                                                         *)
(* A ticket file is replaced by rename only, once per phase and only by    *)
(* its owner, so its phase and number stand for its file identity (device, *)
(* inode, size, times).                                                    *)
(***************************************************************************)
EXTENDS Naturals, FiniteSets

CONSTANTS Requests,     \* requests of all processes, a set of ordered tokens
          Operators,    \* invocations of `rehearsal workloads recover'
          Capacity,     \* tickets at which a new request is refused (64)
          NumberLimit,  \* largest ticket number (Number.MAX_SAFE_INTEGER)
          Mortal,       \* requests whose process may end before it is done
          Impatient,    \* requests that may give up or meet a store failure
          Reusable,     \* requests whose process id may be taken over
          InOrder       \* listings open the names in ascending order only

ASSUME QueueAssumption ==
  /\ Requests \subseteq Nat
  /\ Operators \cap Requests = {}
  /\ Capacity \in Nat /\ NumberLimit \in Nat \ {0}
  /\ InOrder \in BOOLEAN
  /\ Mortal \cup Impatient \cup Reusable \subseteq Requests

VARIABLES
  ticket,     \* the ticket files: the phase and the number each one records
  pc,         \* where a request or an operator is
  number,     \* the number a request took, in its memory
  todo,       \* the names a listing has still to open
  seen,       \* the entries a listing returned so far
  cursor,     \* the one file being handled: read, or about to be unlinked
  confirmed,  \* the reviewed entries an operator's digest stands for
  running,    \* requests whose guarded commands or their children still run
  reused,     \* dead requests whose process id names a live process again
  ahead       \* history: the tickets queued when a request published its own

vars == <<ticket, pc, number, todo, seen, cursor, confirmed, running, reused,
          ahead>>

-----------------------------------------------------------------------------
(* Seeded faults: each one stands in for the definition it varies when the *)
(* strength of a property is tested, and is used nowhere else.             *)

\* Earlier, by token alone.
EarlierByToken(t, m, u, n) == t < u

\* Abandoned: without asking for the owner; every dead owner; nobody.
AbandonedByName(p) == {e \in seen[p] : e.id # p /\ e.phase # "held"}
AbandonedHolders(p) == {e \in seen[p] : e.id # p /\ ~e.alive}
AbandonedNever(p) == {}

\* Blocks, without waiting for a ticket that still chooses its number.
BlocksOnceQueued(e, p) ==
  \/ e.phase = "held"
  \/ e.phase = "queued" /\ (e.number < number[p]
                            \/ (e.number = number[p] /\ e.id < p))

\* Unchanged, without comparing the file with the listing.
UnchangedAssumed(e) == TRUE

-----------------------------------------------------------------------------
(* The files and what a reader makes of them.                              *)

Scanners == Requests \cup Operators

Phases == {"choosing", "queued", "held"}

Missing == [phase |-> "none", number |-> 0]

Present(t) == ticket[t].phase # "none"

\* workloadOwnerAlive: signal 0 reaches the process id the ticket records.
OwnerAlive(t) == pc[t] # "dead" \/ t \in reused

\* The order of two tickets: number first, then token.
Earlier(t, m, u, n) == m < n \/ (m = n /\ t < u)

Snapshot(t) == [id |-> t, phase |-> ticket[t].phase, number |-> ticket[t].number]

Contents == [id : Requests, phase : Phases, number : Nat]
Entries == [id : Requests, phase : Phases, number : Nat, alive : BOOLEAN]

ContentOf(e) == [id |-> e.id, phase |-> e.phase, number |-> e.number]

\* Holders found dead: what the recovery digest is computed from.
Stale(entries) ==
  {ContentOf(e) : e \in {f \in entries : ~f.alive /\ f.phase = "held"}}

\* Waiters found dead: their owner never began guarded work.
Abandoned(p) ==
  {e \in seen[p] : e.id # p /\ ~e.alive /\ e.phase # "held"}

Blocks(e, p) ==
  \/ e.phase \in {"choosing", "held"}
  \/ Earlier(e.id, e.number, p, number[p])

Blocked(p) ==
  \E e \in seen[p] \ Abandoned(p) : e.id # p /\ Blocks(e, p)

OwnIntact(p) ==
  \E e \in seen[p] : e.id = p /\ e.phase = "queued" /\ e.number = number[p]

-----------------------------------------------------------------------------
(* Listing the directory.                                                  *)

Listing == {"count", "number", "poll", "review", "rescan"}

StartListing(s, where) ==
  /\ pc' = [pc EXCEPT ![s] = where]
  /\ todo' = [todo EXCEPT ![s] = Requests]
  /\ seen' = [seen EXCEPT ![s] = {}]

\* A step inside the program of s that leaves the listing it made behind.
Goto(s, where) ==
  /\ pc' = [pc EXCEPT ![s] = where]
  /\ todo' = [todo EXCEPT ![s] = {}]
  /\ seen' = [seen EXCEPT ![s] = {}]

Listed(s, where) == pc[s] = where /\ todo[s] = {} /\ cursor[s] = {}

\* The next name of the directory: read the file, or find it gone.
OpenTicket(s, t) ==
  /\ pc[s] \in Listing /\ cursor[s] = {} /\ t \in todo[s]
  /\ InOrder => \A u \in todo[s] : t <= u
  /\ todo' = [todo EXCEPT ![s] = @ \ {t}]
  /\ cursor' = [cursor EXCEPT ![s] = IF Present(t) THEN {Snapshot(t)} ELSE {}]
  /\ UNCHANGED <<ticket, pc, number, seen, confirmed, running, reused, ahead>>

\* Having read the file, ask whether its owner is alive.
Judged(c) ==
  [id |-> c.id, phase |-> c.phase, number |-> c.number,
   alive |-> OwnerAlive(c.id)]

JudgeOwner(s) ==
  /\ pc[s] \in Listing /\ cursor[s] # {}
  /\ seen' = [seen EXCEPT ![s] = @ \cup {Judged(c) : c \in cursor[s]}]
  /\ cursor' = [cursor EXCEPT ![s] = {}]
  /\ UNCHANGED <<ticket, pc, number, todo, confirmed, running, reused, ahead>>

List(s) == (\E t \in Requests : OpenTicket(s, t)) \/ JudgeOwner(s)

-----------------------------------------------------------------------------
(* Removing the ticket of another request (WorkloadQueueStore.remove): the *)
(* file is read again, must be the one that was listed, and is unlinked.   *)

Unlink(s) ==
  /\ pc[s] \in {"judge", "clear"}
  /\ \E c \in cursor[s] : ticket' = [ticket EXCEPT ![c.id] = Missing]
  /\ cursor' = [cursor EXCEPT ![s] = {}]
  /\ UNCHANGED <<pc, number, todo, seen, confirmed, running, reused, ahead>>

\* The file of entry e as it is now, if the listing still describes it.
Unchanged(e) == ticket[e.id] = [phase |-> e.phase, number |-> e.number]

RemoveListed(s, e, onChange) ==
  /\ cursor[s] = {}
  /\ IF Present(e.id) /\ ~Unchanged(e)
       THEN Goto(s, onChange) /\ UNCHANGED cursor
       ELSE /\ cursor' = [cursor EXCEPT ![s] =
                            IF Present(e.id) THEN {ContentOf(e)} ELSE {}]
            /\ seen' = [seen EXCEPT ![s] = @ \ {e}]
            /\ UNCHANGED <<pc, todo>>
  /\ UNCHANGED <<ticket, number, confirmed, running, reused, ahead>>

-----------------------------------------------------------------------------
(* A request: acquireWorkload, the guarded work, release.                  *)

Request(p) ==
  /\ pc[p] = "idle"
  /\ StartListing(p, "count")
  /\ UNCHANGED <<ticket, number, cursor, confirmed, running, reused, ahead>>

\* Too many tickets refuse the request before it has one of its own.
CountTickets(p) ==
  /\ Listed(p, "count")
  /\ Goto(p, IF Cardinality(seen[p]) >= Capacity THEN "refused" ELSE "link")
  /\ UNCHANGED <<ticket, number, cursor, confirmed, running, reused, ahead>>

\* store.write(ticket, true): the draft is linked under the ticket's name;
\* removing the draft can fail, which throws with the ticket in place.
PublishChoosing(p) ==
  /\ pc[p] = "link"
  /\ ticket' = [ticket EXCEPT ![p] = [phase |-> "choosing", number |-> 0]]
  /\ ahead' = [ahead EXCEPT ![p] =
                 {q \in Requests : ticket[q].phase = "queued"}]
  /\ \/ StartListing(p, "number")
     \/ Goto(p, "retire")
  /\ UNCHANGED <<number, cursor, confirmed, running, reused>>

IsNext(n, entries) ==
  /\ \A e \in entries : e.number < n
  /\ n = 1 \/ \E e \in entries : n = e.number + 1

TakeNumber(p) ==
  /\ Listed(p, "number")
  /\ \E n \in 1 .. NumberLimit :
       IsNext(n, seen[p]) /\ number' = [number EXCEPT ![p] = n]
  /\ Goto(p, "publish")
  /\ UNCHANGED <<ticket, cursor, confirmed, running, reused, ahead>>

NumberLimitReached(p) ==
  /\ Listed(p, "number")
  /\ \E e \in seen[p] : e.number >= NumberLimit
  /\ Goto(p, "retire")
  /\ UNCHANGED <<ticket, number, cursor, confirmed, running, reused, ahead>>

\* One more than the largest number there is, unless it is not a safe integer.
ChooseNumber(p) ==
  IF \E e \in seen[p] : e.number >= NumberLimit
  THEN NumberLimitReached(p) ELSE TakeNumber(p)

PublishQueued(p) ==
  /\ pc[p] = "publish"
  /\ ticket' = [ticket EXCEPT ![p] = [phase |-> "queued", number |-> number[p]]]
  /\ StartListing(p, "poll")
  /\ UNCHANGED <<number, cursor, confirmed, running, reused, ahead>>

\* A poll's listing is complete: the request's own ticket must be in it.
Judge(p) ==
  /\ Listed(p, "poll")
  /\ IF OwnIntact(p) THEN pc' = [pc EXCEPT ![p] = "judge"] /\ UNCHANGED seen
                     ELSE pc' = [pc EXCEPT ![p] = "retire"]
                          /\ seen' = [seen EXCEPT ![p] = {}]
  /\ UNCHANGED <<ticket, number, todo, cursor, confirmed, running, reused,
                 ahead>>

Reclaim(p) ==
  /\ pc[p] = "judge"
  /\ \E e \in Abandoned(p) : RemoveListed(p, e, "retire")

\* Nothing left to reclaim: wait for the next poll, or go ahead.
Decide(p) ==
  /\ pc[p] = "judge" /\ cursor[p] = {} /\ Abandoned(p) = {}
  /\ IF Blocked(p) THEN StartListing(p, "poll") ELSE Goto(p, "admit")
  /\ UNCHANGED <<ticket, number, cursor, confirmed, running, reused, ahead>>

PublishHeld(p) ==
  /\ pc[p] = "admit"
  /\ ticket' = [ticket EXCEPT ![p] = [phase |-> "held", number |-> number[p]]]
  /\ Goto(p, "held")
  /\ UNCHANGED <<number, cursor, confirmed, running, reused, ahead>>

\* withWorkloadAdmission: a cancelled request releases without executing.
Execute(p) ==
  /\ pc[p] = "held"
  /\ \/ Goto(p, "working") /\ running' = running \cup {p}
     \/ Goto(p, "retire") /\ UNCHANGED running
  /\ UNCHANGED <<ticket, number, cursor, confirmed, reused, ahead>>

\* The guarded phase returns or throws, its commands awaited.
Finish(p) ==
  /\ pc[p] = "working"
  /\ running' = running \ {p}
  /\ Goto(p, "retire")
  /\ UNCHANGED <<ticket, number, cursor, confirmed, reused, ahead>>

\* removeOwned, from the finally block or from release().
Retire(p) ==
  /\ pc[p] = "retire"
  /\ ticket' = [ticket EXCEPT ![p] = Missing]
  /\ Goto(p, "done")
  /\ UNCHANGED <<number, cursor, confirmed, running, reused, ahead>>

\* removeOwned throws: the process goes on and its ticket stays.
RetireFails(p) ==
  /\ p \in Impatient /\ pc[p] = "retire"
  /\ Goto(p, "leaked")
  /\ UNCHANGED <<ticket, number, cursor, confirmed, running, reused, ahead>>

\* Inside the try block: the wait expired, the signal aborted, a store
\* operation failed.
Throw(p) ==
  /\ p \in Impatient
  /\ pc[p] \in {"link", "number", "publish", "poll", "judge", "admit"}
  /\ Goto(p, "retire")
  /\ cursor' = [cursor EXCEPT ![p] = {}]
  /\ UNCHANGED <<ticket, number, confirmed, running, reused, ahead>>

\* The process ends, wherever it is; what it started may outlive it.
Die(p) ==
  /\ p \in Mortal
  /\ pc[p] \notin {"idle", "dead", "done", "refused"}
  /\ Goto(p, "dead")
  /\ cursor' = [cursor EXCEPT ![p] = {}]
  /\ UNCHANGED <<ticket, number, confirmed, running, reused, ahead>>

OrphanExits(p) ==
  /\ pc[p] = "dead" /\ p \in running
  /\ running' = running \ {p}
  /\ UNCHANGED <<ticket, pc, number, todo, seen, cursor, confirmed, reused,
                 ahead>>

ReusePid(p) ==
  /\ p \in Reusable /\ pc[p] = "dead"
  /\ reused' = IF p \in reused THEN reused \ {p} ELSE reused \cup {p}
  /\ UNCHANGED <<ticket, pc, number, todo, seen, cursor, confirmed, running,
                 ahead>>

-----------------------------------------------------------------------------
(* An operator: inspectWorkloads, the review, recoverWorkloads.            *)

Inspect(o) ==
  /\ pc[o] = "idle"
  /\ StartListing(o, "review")
  /\ UNCHANGED <<ticket, number, cursor, confirmed, running, reused, ahead>>

\* The operator takes over the digest of what was listed, after checking
\* that no command of those holders is running any more.
Confirm(o) ==
  /\ Listed(o, "review")
  /\ IF Stale(seen[o]) # {} /\ \A c \in Stale(seen[o]) : c.id \notin running
       THEN /\ StartListing(o, "rescan")
            /\ confirmed' = [confirmed EXCEPT ![o] = Stale(seen[o])]
       ELSE Goto(o, "idle") /\ UNCHANGED confirmed
  /\ UNCHANGED <<ticket, number, cursor, running, reused, ahead>>

\* The confirmed digest must be the digest of the second listing.
CompareDigest(o) ==
  /\ Listed(o, "rescan")
  /\ IF Stale(seen[o]) = confirmed[o]
       THEN /\ pc' = [pc EXCEPT ![o] = "recheck"]
            /\ seen' = [seen EXCEPT ![o] =
                          {e \in @ : ~e.alive /\ e.phase = "held"}]
            /\ todo' = [todo EXCEPT ![o] = {c.id : c \in confirmed[o]}]
            /\ UNCHANGED confirmed
       ELSE /\ Goto(o, "idle")
            /\ confirmed' = [confirmed EXCEPT ![o] = {}]
  /\ UNCHANGED <<ticket, number, cursor, running, reused, ahead>>

\* Each eligible ticket is read once more before the first is removed.
Recheck(o) ==
  /\ pc[o] = "recheck"
  /\ \E e \in seen[o] :
       /\ e.id \in todo[o]
       /\ IF Unchanged(e) /\ ~OwnerAlive(e.id)
            THEN /\ todo' = [todo EXCEPT ![o] = @ \ {e.id}]
                 /\ pc' = [pc EXCEPT ![o] =
                             IF todo[o] = {e.id} THEN "clear" ELSE @]
                 /\ UNCHANGED <<seen, confirmed>>
            ELSE /\ Goto(o, "idle")
                 /\ confirmed' = [confirmed EXCEPT ![o] = {}]
  /\ UNCHANGED <<ticket, number, cursor, running, reused, ahead>>

Clear(o) ==
  /\ pc[o] = "clear"
  /\ \E e \in seen[o] : RemoveListed(o, e, "idle")

Recovered(o) ==
  /\ pc[o] = "clear" /\ seen[o] = {} /\ cursor[o] = {}
  /\ Goto(o, "idle")
  /\ confirmed' = [confirmed EXCEPT ![o] = {}]
  /\ UNCHANGED <<ticket, number, cursor, running, reused, ahead>>

-----------------------------------------------------------------------------

Init ==
  /\ ticket = [t \in Requests |-> Missing]
  /\ pc = [s \in Scanners |-> "idle"]
  /\ number = [t \in Requests |-> 0]
  /\ todo = [s \in Scanners |-> {}]
  /\ seen = [s \in Scanners |-> {}]
  /\ cursor = [s \in Scanners |-> {}]
  /\ confirmed = [o \in Operators |-> {}]
  /\ running = {} /\ reused = {}
  /\ ahead = [t \in Requests |-> {}]

\* What a live request does on its own, without anything going wrong.
Advance(p) ==
  \/ CountTickets(p) \/ PublishChoosing(p)
  \/ ChooseNumber(p) \/ PublishQueued(p)
  \/ Judge(p) \/ Reclaim(p) \/ Decide(p) \/ PublishHeld(p)
  \/ Execute(p) \/ Finish(p) \/ Retire(p)

Disturb(p) ==
  Request(p) \/ RetireFails(p) \/ Throw(p) \/ Die(p) \/ OrphanExits(p)
  \/ ReusePid(p)

Recover(o) ==
  \/ Inspect(o) \/ Confirm(o) \/ CompareDigest(o) \/ Recheck(o) \/ Clear(o)
  \/ Recovered(o)

Next ==
  \/ \E p \in Requests : Advance(p) \/ Disturb(p)
  \/ \E o \in Operators : Recover(o)
  \/ \E s \in Scanners : List(s) \/ Unlink(s)

Spec == Init /\ [][Next]_vars

\* A live process keeps running its own code, and guarded work ends.
Fairness ==
  \A p \in Requests : WF_vars(Advance(p) \/ List(p) \/ Unlink(p))

FairSpec == Spec /\ Fairness

-----------------------------------------------------------------------------
(* Properties.                                                             *)

RequestStates ==
  {"idle", "count", "link", "number", "publish", "poll", "judge", "admit",
   "held", "working", "retire", "done", "leaked", "refused", "dead"}

OperatorStates == {"idle", "review", "rescan", "recheck", "clear"}

TypeOK ==
  /\ ticket \in [Requests -> [phase : Phases \cup {"none"}, number : Nat]]
  /\ pc \in [Scanners -> RequestStates \cup OperatorStates]
  /\ \A p \in Requests : pc[p] \in RequestStates
  /\ \A o \in Operators : pc[o] \in OperatorStates
  /\ number \in [Requests -> Nat]
  /\ todo \in [Scanners -> SUBSET Requests]
  /\ seen \in [Scanners -> SUBSET Entries]
  /\ cursor \in [Scanners -> SUBSET Contents]
  /\ confirmed \in [Operators -> SUBSET Contents]
  /\ running \subseteq Requests /\ reused \subseteq Requests
  /\ ahead \in [Requests -> SUBSET Requests]

\* The commands of two guarded phases never run at the same time: neither
\* those of two live requests, nor those of a new one beside the children a
\* dead holder left behind.
GuardedWorkNeverOverlaps == \A p, q \in running : p = q

\* The ticket of a request that is alive and has not retired it is the one
\* the request last wrote: no reclaimer or operator ever removes it.
OwnTicketStays(p) ==
  /\ pc[p] \in {"number", "publish"} => ticket[p].phase = "choosing"
  /\ pc[p] \in {"poll", "judge", "admit"} =>
       ticket[p] = [phase |-> "queued", number |-> number[p]]
  /\ pc[p] \in {"held", "working"} =>
       ticket[p] = [phase |-> "held", number |-> number[p]]

LiveTicketStays == \A p \in Requests : OwnTicketStays(p)

\* Admission is first come, first served: a request is not let in while a
\* live request still waits that was queued when it published its ticket.
NoOvertaking ==
  \A p \in Requests :
    pc[p] \in {"admit", "held", "working"} =>
      \A q \in ahead[p] : pc[q] # "dead" => ticket[q].phase # "queued"

\* The ticket of a dead holder disappears only by an operator's recovery,
\* and only if it is one of the records that operator reviewed.
DeadHolderNeedsReview ==
  [][\A t \in Requests :
       ticket[t].phase = "held" /\ pc[t] = "dead" /\ ticket'[t] # ticket[t] =>
         \E o \in Operators : pc[o] = "clear" /\ Snapshot(t) \in confirmed[o]
    ]_vars

\* What the queue promises, with everything about its files left out.
HoldersOf == {t \in Requests : ticket[t].phase = "held"}

Lease == INSTANCE WorkloadLease WITH
  slot <- HoldersOf,
  lost <- \E t \in HoldersOf : pc[t] = "dead",
  busy <- running

\* Every step of the queue is a step of the lease, or changes nothing there.
ImplementsLease == Lease!Spec

\* A ticket that can stand before others for good: a dead holder, an owner
\* that failed to remove it, or a dead owner whose process id is in use.
Stuck ==
  \E t \in Requests :
    /\ Present(t)
    /\ pc[t] = "leaked" \/ t \in reused
       \/ (pc[t] = "dead" /\ ticket[t].phase = "held")

\* A request that waits is admitted, gives up or dies, unless such a ticket
\* turns up: dead and cancelled competitors alone never hold it back.
WaitersProgress ==
  \A p \in Requests : pc[p] = "poll" ~> (pc[p] \notin Listing \cup {"judge"}
                                         \/ Stuck)

-----------------------------------------------------------------------------
(* The inductive invariant behind the theorems of LockProofs.             *)

\* What a ticket file says about its owner, the converse of LiveTicketStays.
TellsOwner(p) ==
  /\ ticket[p].phase = "none" => ticket[p] = Missing
  /\ ticket[p].phase = "choosing" =>
       /\ pc[p] \in {"number", "publish", "retire", "leaked", "dead"}
       /\ ticket[p].number = 0
  /\ ticket[p].phase = "queued" =>
       /\ pc[p] \in {"poll", "judge", "admit", "retire", "leaked", "dead"}
       /\ ticket[p].number = number[p]
  /\ ticket[p].phase = "held" =>
       /\ pc[p] \in {"held", "working", "retire", "leaked", "dead"}
       /\ ticket[p].number = number[p]

TicketTellsOwner == \A p \in Requests : TellsOwner(p)

\* Found dead is dead, and what is about to be unlinked is not rewritten.
DeadStayDead(s) == \A e \in seen[s] : ~e.alive => pc[e.id] = "dead"

RemovesDead(s) ==
  pc[s] \in {"judge", "clear"} =>
    \A c \in cursor[s] :
      /\ pc[c.id] = "dead"
      /\ ticket[c.id] \in {Missing, [phase |-> c.phase, number |-> c.number]}
      /\ pc[s] = "judge" => c.phase # "held"

ObservationsHold == \A s \in Scanners : DeadStayDead(s) /\ RemovesDead(s)

\* Guarded work runs under a held ticket, and never under a reviewed one.
CoversWork(p) ==
  /\ p \in running => ticket[p].phase = "held" /\ pc[p] \in {"working", "dead"}
  /\ pc[p] = "working" => p \in running

ReviewedIdle(o) ==
  /\ \A c \in confirmed[o] : pc[c.id] = "dead" /\ c.id \notin running
  /\ pc[o] \in {"recheck", "clear"} =>
       /\ \A e \in seen[o] : ~e.alive /\ ContentOf(e) \in confirmed[o]
       /\ cursor[o] \subseteq confirmed[o]
  /\ pc[o] = "recheck" => cursor[o] = {}

WorkIsCovered ==
  /\ \A p \in Requests : CoversWork(p)
  /\ \A o \in Operators : ReviewedIdle(o)

\* Something p read about q keeps this poll of p from ending in admission.
HeldUp(p, q) ==
  \/ pc[p] = "poll" /\ \E c \in cursor[p] : c.id = q /\ Blocks(c, p)
  \/ \E e \in seen[p] :
       /\ e.id = q
       /\ \/ (e.alive \/ e.phase = "held") /\ Blocks(e, p)
          \/ ~e.alive /\ e.phase # "held" /\ ticket[q].phase = "held"

\* p is past the ticket of q.
Passed(p, q) ==
  \/ pc[p] = "poll" /\ q \notin todo[p] /\ ~HeldUp(p, q)
  \/ pc[p] = "judge" /\ ~HeldUp(p, q)
  \/ pc[p] = "admit"
  \/ ticket[p].phase = "held"

\* q has taken note of the number of p, or will before it takes its own.
Noted(q, p) ==
  \/ p \in todo[q]
  \/ \E c \in cursor[q] : c.id = p /\ c.number = number[p]
  \/ \E e \in seen[q] : e.id = p /\ e.number = number[p]

\* q cannot pass p as long as the ticket of p stands.
Behind(q, p) ==
  \/ pc[q] \in {"idle", "count", "link", "refused", "done"}
  \/ pc[q] = "dead" /\ ticket[q].phase # "held"
  \/ /\ pc[q] \in {"retire", "leaked"} /\ ticket[q].phase # "held"
     /\ ticket[q].phase = "queued" => Earlier(p, number[p], q, number[q])
  \/ pc[q] = "number" /\ Noted(q, p)
  \/ pc[q] = "publish" /\ number[q] > number[p]
  \/ /\ pc[q] \in {"poll", "judge"}
     /\ Earlier(p, number[p], q, number[q]) /\ ~Passed(q, p)

BakeryOrder ==
  \A p, q \in Requests : p # q /\ Passed(p, q) => Behind(q, p)

\* A request takes a number above those queued when it published its ticket.
ArrivalOrder ==
  \A p \in Requests : \A q \in ahead[p] :
    /\ q # p /\ pc[q] \notin {"idle", "count", "link", "number", "publish"}
    /\ ticket[q].phase = "queued" =>
         /\ pc[p] = "number" => Noted(p, q)
         /\ pc[p] \in {"publish", "poll", "judge", "admit", "held", "working"} =>
              number[p] > number[q]

QueueInvariant ==
  /\ TypeOK /\ LiveTicketStays /\ TicketTellsOwner /\ ObservationsHold
  /\ WorkIsCovered /\ BakeryOrder /\ ArrivalOrder
=============================================================================
