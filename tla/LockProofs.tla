------------------------------ MODULE LockProofs ------------------------------
(***************************************************************************)
(* Proofs about what keeps commands apart: the two locks that are kept in  *)
(* the file system, the workload queue, for any number of requests,        *)
(* operators and tickets, and the project operation lock, for any number   *)
(* of processes; and the shared container engine, which knows no lock, for *)
(* any projects and bounds.  The three share no variable.                  *)
(***************************************************************************)
EXTENDS WorkloadQueue, OperationGuard, ContainerEngine, TLAPS

\* The program counter, the open listing and what it returned keep their
\* types when one actor moves on.
PlaceOK ==
  /\ pc \in [Scanners -> RequestStates \cup OperatorStates]
  /\ \A p \in Requests : pc[p] \in RequestStates
  /\ \A o \in Operators : pc[o] \in OperatorStates
  /\ todo \in [Scanners -> SUBSET Requests]
  /\ seen \in [Scanners -> SUBSET Entries]

LEMMA MoveRequest ==
  ASSUME TypeOK, NEW p \in Requests, NEW w \in RequestStates,
         Goto(p, w) \/ StartListing(p, w)
  PROVE  PlaceOK'
<1>1. p \in Scanners /\ Operators \cap Requests = {}
  BY QueueAssumption DEF Scanners
<1>2. PICK names \in SUBSET Requests :
        /\ pc' = [pc EXCEPT ![p] = w]
        /\ todo' = [todo EXCEPT ![p] = names]
        /\ seen' = [seen EXCEPT ![p] = {}]
  BY DEF Goto, StartListing
<1>3. /\ pc' \in [Scanners -> RequestStates \cup OperatorStates]
      /\ todo' \in [Scanners -> SUBSET Requests]
      /\ seen' \in [Scanners -> SUBSET Entries]
  BY <1>1, <1>2 DEF TypeOK
<1>4. \A r \in Requests : pc'[r] \in RequestStates
  BY <1>1, <1>2 DEF TypeOK, Scanners
<1>5. \A r \in Operators : pc'[r] \in OperatorStates
  BY <1>1, <1>2 DEF TypeOK, Scanners
<1>6. QED
  BY <1>3, <1>4, <1>5 DEF PlaceOK

LEMMA MoveOperator ==
  ASSUME TypeOK, NEW o \in Operators, NEW w \in OperatorStates,
         Goto(o, w) \/ StartListing(o, w)
  PROVE  PlaceOK'
<1>1. o \in Scanners /\ Operators \cap Requests = {}
  BY QueueAssumption DEF Scanners
<1>2. PICK names \in SUBSET Requests :
        /\ pc' = [pc EXCEPT ![o] = w]
        /\ todo' = [todo EXCEPT ![o] = names]
        /\ seen' = [seen EXCEPT ![o] = {}]
  BY DEF Goto, StartListing
<1>3. /\ pc' \in [Scanners -> RequestStates \cup OperatorStates]
      /\ todo' \in [Scanners -> SUBSET Requests]
      /\ seen' \in [Scanners -> SUBSET Entries]
  BY <1>1, <1>2 DEF TypeOK
<1>4. \A r \in Requests : pc'[r] \in RequestStates
  BY <1>1, <1>2 DEF TypeOK, Scanners
<1>5. \A r \in Operators : pc'[r] \in OperatorStates
  BY <1>1, <1>2 DEF TypeOK, Scanners
<1>6. QED
  BY <1>3, <1>4, <1>5 DEF PlaceOK

\* Every variable keeps its type: one step of any actor.
LEMMA TypeStep ==
  ASSUME TypeOK, [Next]_vars
  PROVE  TypeOK'
<1> DEFINE Rest ==
      /\ ticket \in [Requests -> [phase : Phases \cup {"none"}, number : Nat]]
      /\ number \in [Requests -> Nat]
      /\ cursor \in [Scanners -> SUBSET Contents]
      /\ confirmed \in [Operators -> SUBSET Contents]
      /\ running \subseteq Requests /\ reused \subseteq Requests
      /\ ahead \in [Requests -> SUBSET Requests]
<1>a. PlaceOK' /\ Rest' => TypeOK'
  BY DEF TypeOK, PlaceOK
<1>b. PlaceOK /\ Rest
  BY DEF TypeOK, PlaceOK
<1>c. Requests \subseteq Scanners /\ Operators \subseteq Scanners
  BY DEF Scanners
<1> USE DEF RequestStates, OperatorStates, Phases, Missing
<1>1. ASSUME NEW p \in Requests, Request(p) \/ CountTickets(p)
      PROVE  TypeOK'
  <2>1. PlaceOK'
    BY <1>1, MoveRequest DEF Request, CountTickets
  <2>2. Rest'
    BY <1>1, <1>b DEF Request, CountTickets
  <2>3. QED
    BY <2>1, <2>2, <1>a
<1>2. ASSUME NEW p \in Requests, PublishChoosing(p) PROVE TypeOK'
  <2>1. PlaceOK'
    BY <1>2, MoveRequest DEF PublishChoosing
  <2>2. Rest'
    BY <1>2, <1>b DEF PublishChoosing
  <2>3. QED
    BY <2>1, <2>2, <1>a
<1>3. ASSUME NEW p \in Requests, TakeNumber(p) \/ NumberLimitReached(p)
      PROVE  TypeOK'
  <2>1. PlaceOK'
    BY <1>3, MoveRequest DEF TakeNumber, NumberLimitReached
  <2>2. Rest'
    <3>1. CASE TakeNumber(p)
      <4>1. PICK n \in 1 .. NumberLimit : number' = [number EXCEPT ![p] = n]
        BY <3>1 DEF TakeNumber
      <4>2. n \in Nat
        BY QueueAssumption
      <4>3. QED
        BY <3>1, <4>1, <4>2, <1>b DEF TakeNumber
    <3>2. CASE NumberLimitReached(p)
      BY <3>2, <1>b DEF NumberLimitReached
    <3>3. QED
      BY <1>3, <3>1, <3>2
  <2>3. QED
    BY <2>1, <2>2, <1>a
<1>4. ASSUME NEW p \in Requests, PublishQueued(p) \/ PublishHeld(p)
      PROVE  TypeOK'
  <2>1. PlaceOK'
    BY <1>4, MoveRequest DEF PublishQueued, PublishHeld
  <2>2. Rest'
    BY <1>4, <1>b DEF PublishQueued, PublishHeld
  <2>3. QED
    BY <2>1, <2>2, <1>a
<1>5. ASSUME NEW p \in Requests, Judge(p) PROVE TypeOK'
  <2>1. PICK w \in {"judge", "retire"} : pc' = [pc EXCEPT ![p] = w]
    BY <1>5 DEF Judge
  <2>2. seen' = seen \/ seen' = [seen EXCEPT ![p] = {}]
    BY <1>5 DEF Judge
  <2>3. PlaceOK'
    <3>1. /\ pc' \in [Scanners -> RequestStates \cup OperatorStates]
          /\ UNCHANGED todo
          /\ seen' \in [Scanners -> SUBSET Entries]
      BY <1>5, <1>b, <1>c, <2>1, <2>2 DEF Judge, PlaceOK
    <3>2. \A r \in Requests : pc'[r] \in RequestStates
      BY <1>b, <1>c, <2>1 DEF PlaceOK
    <3>3. \A o \in Operators : pc'[o] = pc[o]
      BY <1>b, <1>c, <2>1, QueueAssumption DEF PlaceOK
    <3>4. QED
      BY <1>b, <3>1, <3>2, <3>3 DEF PlaceOK
  <2>4. Rest'
    BY <1>5, <1>b DEF Judge
  <2>5. QED
    BY <2>3, <2>4, <1>a
<1>6. ASSUME NEW s \in Scanners, NEW e \in seen[s], NEW w,
             RemoveListed(s, e, w),
             \/ s \in Requests /\ w = "retire"
             \/ s \in Operators /\ w = "idle"
      PROVE  TypeOK'
  <2>1. ContentOf(e) \in Contents
    BY <1>b DEF ContentOf, PlaceOK, Entries, Contents
  <2>2. CASE Goto(s, w) /\ UNCHANGED cursor
    <3>1. PlaceOK'
      BY <1>6, <2>2, MoveRequest, MoveOperator
    <3>2. Rest'
      BY <1>6, <2>2, <1>b DEF RemoveListed
    <3>3. QED
      BY <3>1, <3>2, <1>a
  <2>3. CASE /\ UNCHANGED <<pc, todo>>
             /\ seen' = [seen EXCEPT ![s] = @ \ {e}]
             /\ \/ cursor' = [cursor EXCEPT ![s] = {}]
                \/ cursor' = [cursor EXCEPT ![s] = {ContentOf(e)}]
    <3>1. PlaceOK'
      BY <2>3, <1>b DEF PlaceOK
    <3>2. Rest'
      BY <1>6, <2>1, <2>3, <1>b DEF RemoveListed
    <3>3. QED
      BY <3>1, <3>2, <1>a
  <2>4. QED
    BY <1>6, <2>2, <2>3 DEF RemoveListed
<1>7. ASSUME NEW p \in Requests, Decide(p) PROVE TypeOK'
  <2>1. PlaceOK'
    BY <1>7, MoveRequest DEF Decide
  <2>2. Rest'
    BY <1>7, <1>b DEF Decide
  <2>3. QED
    BY <2>1, <2>2, <1>a
<1>8. ASSUME NEW p \in Requests, Execute(p) \/ Finish(p) PROVE TypeOK'
  <2>1. PlaceOK'
    BY <1>8, MoveRequest DEF Execute, Finish
  <2>2. Rest'
    BY <1>8, <1>b DEF Execute, Finish
  <2>3. QED
    BY <2>1, <2>2, <1>a
<1>9. ASSUME NEW p \in Requests,
             Retire(p) \/ RetireFails(p) \/ Throw(p) \/ Die(p)
      PROVE  TypeOK'
  <2>1. PlaceOK'
    BY <1>9, MoveRequest DEF Retire, RetireFails, Throw, Die
  <2>2. Rest'
    BY <1>9, <1>b DEF Retire, RetireFails, Throw, Die
  <2>3. QED
    BY <2>1, <2>2, <1>a
<1>10. ASSUME NEW p \in Requests, OrphanExits(p) \/ ReusePid(p) PROVE TypeOK'
  <2>1. PlaceOK'
    BY <1>10, <1>b DEF OrphanExits, ReusePid, PlaceOK
  <2>2. reused' \subseteq Requests /\ running' \subseteq Requests
    BY <1>10, <1>b DEF OrphanExits, ReusePid
  <2>3. Rest'
    BY <1>10, <2>2, <1>b DEF OrphanExits, ReusePid
  <2>4. QED
    BY <2>1, <2>3, <1>a
<1>11. ASSUME NEW o \in Operators, Inspect(o) \/ Recovered(o) PROVE TypeOK'
  <2>1. PlaceOK'
    BY <1>11, MoveOperator DEF Inspect, Recovered
  <2>2. Rest'
    BY <1>11, <1>b DEF Inspect, Recovered
  <2>3. QED
    BY <2>1, <2>2, <1>a
<1>12. ASSUME NEW o \in Operators, Confirm(o) PROVE TypeOK'
  <2>1. Stale(seen[o]) \subseteq Contents
    BY <1>b, <1>c DEF Stale, ContentOf, PlaceOK, Entries, Contents
  <2>2. PlaceOK'
    BY <1>12, MoveOperator DEF Confirm
  <2>3. Rest'
    BY <1>12, <2>1, <1>b DEF Confirm
  <2>4. QED
    BY <2>2, <2>3, <1>a
<1>13. ASSUME NEW o \in Operators, CompareDigest(o) PROVE TypeOK'
  <2>1. CASE Stale(seen[o]) = confirmed[o]
    <3>1. {c.id : c \in confirmed[o]} \subseteq Requests
      BY <1>b DEF Contents
    <3>2. /\ pc' = [pc EXCEPT ![o] = "recheck"]
          /\ seen' = [seen EXCEPT ![o] =
                        {e \in @ : ~e.alive /\ e.phase = "held"}]
          /\ todo' = [todo EXCEPT ![o] = {c.id : c \in confirmed[o]}]
      BY <1>13, <2>1 DEF CompareDigest
    <3>3. PlaceOK'
      BY <1>b, <1>c, <3>1, <3>2, QueueAssumption DEF PlaceOK
    <3>4. Rest'
      BY <1>13, <2>1, <1>b DEF CompareDigest
    <3>5. QED
      BY <3>3, <3>4, <1>a
  <2>2. CASE Stale(seen[o]) # confirmed[o]
    <3>1. PlaceOK'
      BY <1>13, <2>2, MoveOperator DEF CompareDigest
    <3>2. Rest'
      BY <1>13, <2>2, <1>b DEF CompareDigest
    <3>3. QED
      BY <3>1, <3>2, <1>a
  <2>3. QED
    BY <2>1, <2>2
<1>14. ASSUME NEW o \in Operators, Recheck(o) PROVE TypeOK'
  <2>1. PlaceOK'
    <3>1. CASE Goto(o, "idle")
      BY <3>1, MoveOperator
    <3>2. CASE \E e \in seen[o] :
                 /\ todo' = [todo EXCEPT ![o] = @ \ {e.id}]
                 /\ pc' = [pc EXCEPT ![o] =
                             IF todo[o] = {e.id} THEN "clear" ELSE @]
                 /\ UNCHANGED seen
      BY <3>2, <1>b, <1>c, QueueAssumption DEF PlaceOK
    <3>3. QED
      BY <1>14, <3>1, <3>2 DEF Recheck
  <2>2. Rest'
    BY <1>14, <1>b DEF Recheck
  <2>3. QED
    BY <2>1, <2>2, <1>a
<1>15. ASSUME NEW s \in Scanners, NEW t \in Requests, OpenTicket(s, t)
       PROVE  TypeOK'
  <2>1. Present(t) => Snapshot(t) \in Contents
    BY <1>b DEF Present, Snapshot, Contents
  <2>2. PlaceOK'
    BY <1>15, <1>b DEF OpenTicket, PlaceOK
  <2>3. Rest'
    BY <1>15, <2>1, <1>b DEF OpenTicket
  <2>4. QED
    BY <2>2, <2>3, <1>a
<1>16. ASSUME NEW s \in Scanners, JudgeOwner(s) PROVE TypeOK'
  <2>1. {Judged(c) : c \in cursor[s]} \subseteq Entries
    <3>1. ASSUME NEW c \in cursor[s] PROVE Judged(c) \in Entries
      <4>1. c \in Contents
        BY <1>b
      <4>2. OwnerAlive(c.id) \in BOOLEAN
        BY DEF OwnerAlive
      <4>3. QED
        BY <4>1, <4>2 DEF Judged, Contents, Entries
    <3>2. QED
      BY <3>1
  <2>2. seen' = [seen EXCEPT ![s] = @ \cup {Judged(c) : c \in cursor[s]}]
    BY <1>16 DEF JudgeOwner
  <2>3. PlaceOK'
    BY <1>16, <2>1, <2>2, <1>b DEF JudgeOwner, PlaceOK
  <2>4. Rest'
    BY <1>16, <1>b DEF JudgeOwner
  <2>5. QED
    BY <2>3, <2>4, <1>a
<1>17. ASSUME NEW s \in Scanners, Unlink(s) PROVE TypeOK'
  <2>1. PlaceOK'
    BY <1>17, <1>b DEF Unlink, PlaceOK
  <2>2. Rest'
    BY <1>17, <1>b DEF Unlink, Contents
  <2>3. QED
    BY <2>1, <2>2, <1>a
<1>18. CASE UNCHANGED vars
  BY <1>18 DEF vars, TypeOK, Scanners
<1>19. ASSUME NEW p \in Requests, Reclaim(p) PROVE TypeOK'
  BY <1>6, <1>19, <1>c DEF Reclaim, Abandoned
<1>20. ASSUME NEW o \in Operators, Clear(o) PROVE TypeOK'
  BY <1>6, <1>20, <1>c DEF Clear
<1>21. QED
  BY <1>1, <1>2, <1>3, <1>4, <1>5, <1>7, <1>8, <1>9, <1>10, <1>11,
     <1>12, <1>13, <1>14, <1>15, <1>16, <1>17, <1>18, <1>19, <1>20
  DEF Next, Advance, ChooseNumber, Disturb, Recover, List

\* What the ticket files, the listings and the reviews say of each other.
Basics ==
  TypeOK /\ LiveTicketStays /\ TicketTellsOwner /\ ObservationsHold
  /\ WorkIsCovered

\* Only the memory of s changes: every other actor, and every ticket but
\* that of s, is what it was.
OnlyActor(s) ==
  /\ \A r \in Requests \ {s} : ticket'[r] = ticket[r] /\ number'[r] = number[r]
  /\ \A r \in Scanners \ {s} :
       pc'[r] = pc[r] /\ todo'[r] = todo[r] /\ seen'[r] = seen[r]
       /\ cursor'[r] = cursor[r]

LEMMA RequestKeepsBasics ==
  ASSUME Basics, TypeOK', NEW p \in Requests, OnlyActor(p), pc[p] # "dead",
         OwnTicketStays(p)', TellsOwner(p)', CoversWork(p)',
         running' \ {p} = running \ {p}, confirmed' = confirmed,
         seen'[p] \subseteq seen[p],
         pc'[p] = "judge" => RemovesDead(p)',
         pc'[p] # "clear"
  PROVE  Basics'
<1>a. Requests \subseteq Scanners /\ Operators \subseteq Scanners /\ p \notin Operators
  BY QueueAssumption DEF Scanners
<1>1. LiveTicketStays'
  BY <1>a DEF Basics, LiveTicketStays, OwnTicketStays, OnlyActor
<1>2. TicketTellsOwner'
  BY <1>a DEF Basics, TicketTellsOwner, TellsOwner, OnlyActor, Missing
<1>3. ASSUME NEW r \in Requests, pc[r] = "dead"
      PROVE  pc'[r] = "dead" /\ ticket'[r] = ticket[r]
  BY <1>3, <1>a DEF OnlyActor
<1>4. \A s \in Scanners : \A e \in seen[s] : e.id \in Requests
  BY DEF Basics, TypeOK, Entries
<1>5. \A s \in Scanners : \A c \in cursor[s] : c.id \in Requests
  BY DEF Basics, TypeOK, Contents
<1>6. ObservationsHold'
  <2>1. ASSUME NEW s \in Scanners PROVE DeadStayDead(s)'
    BY <1>3, <1>4 DEF Basics, ObservationsHold, DeadStayDead, OnlyActor
  <2>2. ASSUME NEW s \in Scanners \ {p} PROVE RemovesDead(s)'
    <3>1. pc'[s] = pc[s] /\ cursor'[s] = cursor[s]
      BY DEF OnlyActor
    <3>2. RemovesDead(s)
      BY DEF Basics, ObservationsHold
    <3>3. SUFFICES ASSUME pc[s] \in {"judge", "clear"}, NEW c \in cursor[s]
                   PROVE  /\ pc'[c.id] = "dead"
                          /\ ticket'[c.id] = ticket[c.id]
      BY <3>1, <3>2 DEF RemovesDead, Missing
    <3>4. pc[c.id] = "dead"
      BY <3>2, <3>3 DEF RemovesDead
    <3>5. QED
      BY <1>3, <1>5, <3>4
  <2>3. RemovesDead(p)'
    BY DEF RemovesDead
  <2>4. QED
    BY <2>1, <2>2, <2>3 DEF ObservationsHold
<1>7. WorkIsCovered'
  <2>1. ASSUME NEW r \in Requests PROVE CoversWork(r)'
    BY <1>a DEF Basics, WorkIsCovered, CoversWork, OnlyActor
  <2>2. ASSUME NEW o \in Operators PROVE ReviewedIdle(o)'
    <3>1. \A c \in confirmed[o] :
            c.id \in Requests /\ pc[c.id] = "dead" /\ c.id \notin running
      BY DEF Basics, TypeOK, Contents, WorkIsCovered, ReviewedIdle
    <3>2. \A c \in confirmed'[o] : pc'[c.id] = "dead" /\ c.id \notin running'
      BY <1>3, <3>1
    <3>3. pc'[o] = pc[o] /\ seen'[o] = seen[o] /\ cursor'[o] = cursor[o]
      BY <1>a DEF OnlyActor
    <3>4. QED
      BY <3>2, <3>3 DEF Basics, WorkIsCovered, ReviewedIdle, ContentOf
  <2>3. QED
    BY <2>1, <2>2 DEF WorkIsCovered
<1>8. QED
  BY <1>1, <1>2, <1>6, <1>7 DEF Basics

\* A step that touches no ticket and moves no request disturbs the basics
\* only through what its actor has listed, is removing or has confirmed.
LEMMA ReaderKeepsBasics ==
  ASSUME Basics, TypeOK', NEW s \in Scanners, OnlyActor(s),
         UNCHANGED <<ticket, number>>,
         \A r \in Requests : pc'[r] = pc[r],
         running' = running,
         \A o \in Operators \ {s} : confirmed'[o] = confirmed[o],
         DeadStayDead(s)', RemovesDead(s)',
         s \in Operators => ReviewedIdle(s)'
  PROVE  Basics'
<1>a. Requests \subseteq Scanners /\ Operators \subseteq Scanners
  BY DEF Scanners
<1>1. LiveTicketStays' /\ TicketTellsOwner'
  BY DEF Basics, LiveTicketStays, OwnTicketStays, TicketTellsOwner, TellsOwner,
         Missing
<1>2. \A r \in Scanners : \A e \in seen[r] : e.id \in Requests
  BY DEF Basics, TypeOK, Entries
<1>3. \A r \in Scanners : \A c \in cursor[r] : c.id \in Requests
  BY DEF Basics, TypeOK, Contents
<1>4. ASSUME NEW r \in Scanners \ {s} PROVE DeadStayDead(r)' /\ RemovesDead(r)'
  BY <1>2, <1>3 DEF Basics, ObservationsHold, DeadStayDead, RemovesDead,
                    OnlyActor, Missing
<1>5. ASSUME NEW r \in Requests PROVE CoversWork(r)'
  BY DEF Basics, WorkIsCovered, CoversWork
<1>6. ASSUME NEW o \in Operators \ {s} PROVE ReviewedIdle(o)'
  <2>1. \A c \in confirmed[o] : c.id \in Requests
    BY DEF Basics, TypeOK, Contents
  <2>2. QED
    BY <1>a, <2>1 DEF Basics, WorkIsCovered, ReviewedIdle, OnlyActor, ContentOf
<1>7. QED
  BY <1>1, <1>4, <1>5, <1>6
  DEF Basics, ObservationsHold, WorkIsCovered

LEMMA BasicsStep ==
  ASSUME Basics, [Next]_vars
  PROVE  Basics'
<1>a. /\ TypeOK' /\ Requests \subseteq Scanners /\ Operators \subseteq Scanners
      /\ Operators \cap Requests = {}
  BY TypeStep, QueueAssumption DEF Scanners, Basics
<1>b. /\ \A p \in Requests : /\ OwnTicketStays(p) /\ TellsOwner(p)
                             /\ CoversWork(p)
      /\ \A s \in Scanners : DeadStayDead(s) /\ RemovesDead(s)
      /\ \A o \in Operators : ReviewedIdle(o)
  BY DEF Basics, LiveTicketStays, TicketTellsOwner, WorkIsCovered,
         ObservationsHold
<1>c. TypeOK
  BY DEF Basics
<1>1. ASSUME NEW p \in Requests,
             Request(p) \/ CountTickets(p) \/ TakeNumber(p)
             \/ NumberLimitReached(p) \/ Decide(p) \/ RetireFails(p)
             \/ Throw(p) \/ Die(p)
      PROVE  Basics'
  <2> USE DEF Request, CountTickets, TakeNumber, NumberLimitReached, Decide,
              RetireFails, Throw, Die, Goto, StartListing, Listed
  <2>1. OnlyActor(p) /\ pc[p] # "dead"
    BY <1>1, <1>c DEF OnlyActor, TypeOK
  <2>2. OwnTicketStays(p)' /\ TellsOwner(p)' /\ CoversWork(p)'
    BY <1>1, <1>a, <1>b, <1>c
    DEF OwnTicketStays, TellsOwner, CoversWork, Missing, TypeOK
  <2>3. UNCHANGED <<running, confirmed>>
    BY <1>1
  <2>4. seen'[p] \subseteq seen[p] /\ pc'[p] \notin {"judge", "clear"}
    BY <1>1, <1>a, <1>c DEF TypeOK
  <2>5. QED
    BY <1>a, <2>1, <2>2, <2>3, <2>4, RequestKeepsBasics
<1>2. ASSUME NEW p \in Requests,
             PublishChoosing(p) \/ PublishQueued(p) \/ PublishHeld(p)
             \/ Retire(p)
      PROVE  Basics'
  <2> USE DEF PublishChoosing, PublishQueued, PublishHeld, Retire, Goto,
              StartListing
  <2>1. OnlyActor(p) /\ pc[p] # "dead"
    BY <1>2, <1>c DEF OnlyActor, TypeOK
  <2>2. OwnTicketStays(p)' /\ TellsOwner(p)' /\ CoversWork(p)'
    BY <1>2, <1>a, <1>b, <1>c
    DEF OwnTicketStays, TellsOwner, CoversWork, Missing, TypeOK
  <2>3. UNCHANGED <<running, confirmed>>
    BY <1>2
  <2>4. seen'[p] \subseteq seen[p] /\ pc'[p] \notin {"judge", "clear"}
    BY <1>2, <1>a, <1>c DEF TypeOK
  <2>5. QED
    BY <1>a, <2>1, <2>2, <2>3, <2>4, RequestKeepsBasics
<1>3. ASSUME NEW p \in Requests, Execute(p) \/ Finish(p)
      PROVE  Basics'
  <2> USE DEF Execute, Finish, Goto
  <2>1. OnlyActor(p) /\ pc[p] # "dead"
    BY <1>3, <1>c DEF OnlyActor, TypeOK
  <2>2. OwnTicketStays(p)' /\ TellsOwner(p)' /\ CoversWork(p)'
    BY <1>3, <1>a, <1>b, <1>c
    DEF OwnTicketStays, TellsOwner, CoversWork, Missing, TypeOK
  <2>3. running' \ {p} = running \ {p} /\ UNCHANGED confirmed
    BY <1>3
  <2>4. seen'[p] \subseteq seen[p] /\ pc'[p] \notin {"judge", "clear"}
    BY <1>3, <1>a, <1>c DEF TypeOK
  <2>5. QED
    BY <1>a, <2>1, <2>2, <2>3, <2>4, RequestKeepsBasics
<1>4. ASSUME NEW p \in Requests, Judge(p) PROVE Basics'
  <2>1. OnlyActor(p) /\ pc[p] = "poll" /\ pc'[p] \in {"judge", "retire"}
    BY <1>4, <1>a, <1>c DEF OnlyActor, TypeOK, Judge, Listed
  <2>2. OwnTicketStays(p)' /\ TellsOwner(p)' /\ CoversWork(p)'
    BY <1>4, <2>1, <1>a, <1>b, <1>c
    DEF Judge, OwnTicketStays, TellsOwner, CoversWork, Missing, TypeOK
  <2>3. UNCHANGED <<running, confirmed>> /\ seen'[p] \subseteq seen[p]
    BY <1>4, <1>a, <1>c DEF Judge, TypeOK
  <2>4. RemovesDead(p)'
    BY <1>4, <1>a, <1>c DEF Judge, Listed, RemovesDead
  <2>5. QED
    BY <1>a, <2>1, <2>2, <2>3, <2>4, RequestKeepsBasics
<1>5. ASSUME NEW p \in Requests, NEW e \in Abandoned(p),
             pc[p] = "judge", RemoveListed(p, e, "retire")
      PROVE  Basics'
  <2>1. OnlyActor(p) /\ pc'[p] \in {"judge", "retire"}
    BY <1>5, <1>a, <1>c DEF RemoveListed, OnlyActor, TypeOK, Goto
  <2>2. OwnTicketStays(p)' /\ TellsOwner(p)' /\ CoversWork(p)'
    BY <1>5, <2>1, <1>a, <1>b, <1>c
    DEF RemoveListed, OwnTicketStays, TellsOwner, CoversWork, Missing, TypeOK
  <2>3. UNCHANGED <<running, confirmed>> /\ seen'[p] \subseteq seen[p]
    BY <1>5, <1>a, <1>c DEF RemoveListed, TypeOK, Goto
  <2>4. pc'[p] = "judge" => RemovesDead(p)'
    <3>1. /\ e \in seen[p] /\ ~e.alive /\ e.phase # "held" /\ pc[e.id] = "dead"
          /\ e.id \in Requests
      BY <1>a, <1>b, <1>c DEF Abandoned, DeadStayDead, TypeOK, Entries
    <3>2. e.id # p
      BY <3>1, <1>5
    <3>3. CASE ~Present(e.id)
      BY <3>3, <1>5, <1>a, <1>c DEF RemoveListed, RemovesDead, TypeOK
    <3>4. CASE Present(e.id) /\ Unchanged(e)
      <4>1. cursor'[p] = {ContentOf(e)} /\ UNCHANGED <<pc, ticket>>
        BY <3>4, <1>5, <1>a, <1>c DEF RemoveListed, TypeOK
      <4>2. \A c \in cursor'[p] :
              /\ c.id = e.id /\ c.phase = e.phase /\ c.number = e.number
        BY <4>1 DEF ContentOf
      <4>3. QED
        BY <3>1, <3>4, <4>1, <4>2 DEF RemovesDead, Unchanged
    <3>5. CASE Present(e.id) /\ ~Unchanged(e)
      BY <3>5, <1>5, <1>a, <1>c DEF RemoveListed, TypeOK, Goto
    <3>6. QED
      BY <3>3, <3>4, <3>5
  <2>5. QED
    BY <1>5, <1>a, <2>1, <2>2, <2>3, <2>4, RequestKeepsBasics
<1>6. ASSUME NEW p \in Requests, OrphanExits(p) \/ ReusePid(p) PROVE Basics'
  <2>1. UNCHANGED <<ticket, pc, number, todo, seen, cursor, confirmed>>
    BY <1>6 DEF OrphanExits, ReusePid
  <2>2. running' \subseteq running
    BY <1>6 DEF OrphanExits, ReusePid
  <2>3. \A r \in Requests : pc[r] = "working" => r \in running'
    BY <1>6, <1>b DEF OrphanExits, ReusePid, CoversWork
  <2>4. WorkIsCovered'
    BY <2>1, <2>2, <2>3, <1>b DEF WorkIsCovered, CoversWork, ReviewedIdle,
                                  ContentOf
  <2>5. LiveTicketStays' /\ TicketTellsOwner' /\ ObservationsHold'
    BY <2>1 DEF Basics, LiveTicketStays, TicketTellsOwner, ObservationsHold,
                OwnTicketStays, TellsOwner, DeadStayDead, RemovesDead, Missing
  <2>6. QED
    BY <1>a, <2>4, <2>5 DEF Basics
<1>7. ASSUME NEW o \in Operators, Inspect(o) \/ Recovered(o) \/ Recheck(o)
      PROVE  Basics'
  <2> USE DEF Inspect, Recovered, Recheck, Goto, StartListing
  <2>1. /\ OnlyActor(o) /\ UNCHANGED <<ticket, number, running>>
        /\ \A r \in Requests : pc'[r] = pc[r]
        /\ \A r \in Operators \ {o} : confirmed'[r] = confirmed[r]
    BY <1>7, <1>a, <1>c DEF OnlyActor, TypeOK
  <2>2. seen'[o] \subseteq seen[o] /\ cursor'[o] = cursor[o]
    BY <1>7, <1>a, <1>c DEF TypeOK
  <2>3. \A e \in seen[o] : e.id \in Requests
    BY <1>a, <1>c DEF TypeOK, Entries
  <2>4. DeadStayDead(o)'
    BY <1>a, <1>b, <2>1, <2>2, <2>3 DEF DeadStayDead
  <2>5. /\ pc'[o] \in {"recheck", "clear"} =>
             pc[o] = "recheck" /\ UNCHANGED <<seen, confirmed>>
        /\ confirmed'[o] \subseteq confirmed[o]
    BY <1>7, <1>a, <1>c DEF TypeOK
  <2>6. ReviewedIdle(o)'
    <3>1. \A c \in confirmed[o] : c.id \in Requests
      BY <1>c DEF TypeOK, Contents
    <3>2. QED
      BY <1>a, <1>b, <2>1, <2>2, <2>5, <3>1 DEF ReviewedIdle, ContentOf
  <2>7. pc'[o] = "clear" => cursor'[o] = {}
    BY <1>7, <1>a, <1>b, <1>c DEF TypeOK, ReviewedIdle
  <2>8. RemovesDead(o)'
    BY <1>7, <1>a, <1>c, <2>7 DEF RemovesDead, TypeOK
  <2>9. QED
    BY <1>a, <2>1, <2>4, <2>6, <2>8, ReaderKeepsBasics
<1>8. ASSUME NEW o \in Operators, Confirm(o) PROVE Basics'
  <2> USE DEF Confirm, Goto, StartListing, Listed
  <2>1. /\ OnlyActor(o) /\ UNCHANGED <<ticket, number, running>>
        /\ \A r \in Requests : pc'[r] = pc[r]
        /\ \A r \in Operators \ {o} : confirmed'[r] = confirmed[r]
    BY <1>8, <1>a, <1>c DEF OnlyActor, TypeOK
  <2>2. /\ seen'[o] = {} /\ cursor'[o] = {}
        /\ pc'[o] \notin {"recheck", "clear", "judge"}
    BY <1>8, <1>a, <1>c DEF TypeOK
  <2>3. DeadStayDead(o)' /\ RemovesDead(o)'
    BY <2>2 DEF DeadStayDead, RemovesDead
  <2>4. \A c \in confirmed'[o] : pc'[c.id] = "dead" /\ c.id \notin running'
    <3>1. CASE confirmed' = confirmed
      <4>1. \A c \in confirmed[o] : c.id \in Requests
        BY <1>c DEF TypeOK, Contents
      <4>2. QED
        BY <3>1, <4>1, <2>1, <1>b DEF ReviewedIdle
    <3>2. CASE /\ \A c \in Stale(seen[o]) : c.id \notin running
               /\ confirmed' = [confirmed EXCEPT ![o] = Stale(seen[o])]
      <4>1. \A c \in Stale(seen[o]) : c.id \in Requests /\ pc[c.id] = "dead"
        BY <1>a, <1>b, <1>c
        DEF Stale, ContentOf, DeadStayDead, TypeOK, Entries
      <4>2. QED
        BY <3>2, <4>1, <2>1, <1>c DEF TypeOK
    <3>3. QED
      BY <1>8, <3>1, <3>2
  <2>5. ReviewedIdle(o)'
    BY <2>2, <2>4 DEF ReviewedIdle
  <2>6. QED
    BY <1>a, <2>1, <2>3, <2>5, ReaderKeepsBasics
<1>9. ASSUME NEW o \in Operators, CompareDigest(o) PROVE Basics'
  <2> USE DEF CompareDigest, Goto, Listed
  <2>1. /\ OnlyActor(o) /\ UNCHANGED <<ticket, number, running>>
        /\ \A r \in Requests : pc'[r] = pc[r]
        /\ \A r \in Operators \ {o} : confirmed'[r] = confirmed[r]
        /\ cursor'[o] = {} /\ pc'[o] \in {"idle", "recheck"}
        /\ confirmed'[o] \subseteq confirmed[o]
        /\ seen'[o] \subseteq seen[o]
    BY <1>9, <1>a, <1>c DEF OnlyActor, TypeOK
  <2>2. \A e \in seen[o] : e.id \in Requests
    BY <1>a, <1>c DEF TypeOK, Entries
  <2>3. DeadStayDead(o)' /\ RemovesDead(o)'
    BY <1>a, <1>b, <2>1, <2>2 DEF DeadStayDead, RemovesDead
  <2>4. \A c \in confirmed'[o] : pc'[c.id] = "dead" /\ c.id \notin running'
    <3>1. \A c \in confirmed[o] : c.id \in Requests
      BY <1>c DEF TypeOK, Contents
    <3>2. QED
      BY <3>1, <2>1, <1>b DEF ReviewedIdle
  <2>5. pc'[o] = "recheck" =>
          \A e \in seen'[o] : ~e.alive /\ ContentOf(e) \in confirmed'[o]
    <3>1. SUFFICES ASSUME Stale(seen[o]) = confirmed[o], NEW e \in seen[o],
                          ~e.alive, e.phase = "held", confirmed' = confirmed
                   PROVE  ContentOf(e) \in confirmed[o]
      BY <1>9, <1>a, <1>c DEF TypeOK
    <3>2. QED
      BY <3>1 DEF Stale
  <2>6. \A e : ContentOf(e)' = ContentOf(e)
    BY DEF ContentOf
  <2>7. ReviewedIdle(o)'
    BY <2>1, <2>4, <2>5, <2>6 DEF ReviewedIdle, ContentOf
  <2>8. QED
    BY <1>a, <2>1, <2>3, <2>7, ReaderKeepsBasics
<1>10. ASSUME NEW o \in Operators, NEW e \in seen[o], pc[o] = "clear",
              RemoveListed(o, e, "idle")
       PROVE  Basics'
  <2>1. /\ OnlyActor(o) /\ UNCHANGED <<ticket, number, running, confirmed>>
        /\ \A r \in Requests : pc'[r] = pc[r]
        /\ pc'[o] \in {"idle", "clear"} /\ seen'[o] \subseteq seen[o]
    BY <1>10, <1>a, <1>c DEF RemoveListed, OnlyActor, TypeOK, Goto
  <2>2. /\ e.id \in Requests /\ pc[e.id] = "dead"
        /\ ContentOf(e) \in confirmed[o]
    BY <1>10, <1>a, <1>b, <1>c DEF ReviewedIdle, DeadStayDead, TypeOK, Entries
  <2>3. pc'[o] = "clear" =>
          \/ cursor'[o] = {}
          \/ cursor'[o] = {ContentOf(e)} /\ Unchanged(e)
    BY <1>10, <1>a, <1>c DEF RemoveListed, TypeOK, Goto
  <2>4. \A x \in seen[o] : x.id \in Requests
    BY <1>a, <1>c DEF TypeOK, Entries
  <2>5. DeadStayDead(o)'
    BY <1>a, <1>b, <2>1, <2>4 DEF DeadStayDead
  <2>6. RemovesDead(o)'
    <3>1. \A c \in {ContentOf(e)} :
            c.id = e.id /\ c.phase = e.phase /\ c.number = e.number
      BY DEF ContentOf
    <3>2. QED
      BY <2>1, <2>2, <2>3, <3>1 DEF RemovesDead, Unchanged
  <2>7. ReviewedIdle(o)'
    <3>1. \A c \in confirmed[o] : c.id \in Requests
      BY <1>c DEF TypeOK, Contents
    <3>2. QED
      BY <1>10, <1>b, <2>1, <2>2, <2>3, <3>1 DEF ReviewedIdle, ContentOf
  <2>8. QED
    BY <1>a, <2>1, <2>5, <2>6, <2>7, ReaderKeepsBasics
<1>11. ASSUME NEW s \in Scanners, NEW t \in Requests, OpenTicket(s, t)
       PROVE  Basics'
  <2>1. /\ OnlyActor(s) /\ pc[s] \in Listing
        /\ UNCHANGED <<ticket, pc, number, seen, running, confirmed>>
    BY <1>11, <1>a, <1>c DEF OpenTicket, OnlyActor, TypeOK
  <2>2. DeadStayDead(s)' /\ RemovesDead(s)'
    BY <1>b, <2>1 DEF DeadStayDead, RemovesDead, Listing
  <2>3. s \in Operators => ReviewedIdle(s)'
    BY <1>b, <2>1 DEF ReviewedIdle, Listing
  <2>4. QED
    BY <1>a, <2>1, <2>2, <2>3, ReaderKeepsBasics
<1>12. ASSUME NEW s \in Scanners, JudgeOwner(s) PROVE Basics'
  <2>1. /\ OnlyActor(s) /\ pc[s] \in Listing
        /\ UNCHANGED <<ticket, pc, number, running, confirmed>>
    BY <1>12, <1>a, <1>c DEF JudgeOwner, OnlyActor, TypeOK
  <2>2. seen'[s] = seen[s] \cup {Judged(c) : c \in cursor[s]}
    BY <1>12, <1>c DEF JudgeOwner, TypeOK
  <2>3. DeadStayDead(s)'
    <3>1. \A c \in cursor[s] : ~Judged(c).alive => pc[Judged(c).id] = "dead"
      BY DEF Judged, OwnerAlive
    <3>2. QED
      BY <1>b, <2>1, <2>2, <3>1 DEF DeadStayDead
  <2>4. RemovesDead(s)' /\ (s \in Operators => ReviewedIdle(s)')
    BY <1>b, <2>1 DEF RemovesDead, ReviewedIdle, Listing
  <2>5. QED
    BY <1>a, <2>1, <2>3, <2>4, ReaderKeepsBasics
<1>13. ASSUME NEW s \in Scanners, Unlink(s) PROVE Basics'
  <2>1. PICK c \in cursor[s] : ticket' = [ticket EXCEPT ![c.id] = Missing]
    BY <1>13 DEF Unlink
  <2>2. /\ c.id \in Requests /\ pc[c.id] = "dead" /\ c.id \notin Operators
        /\ pc[s] = "judge" => c.phase # "held"
        /\ ticket[c.id] \in {Missing, [phase |-> c.phase, number |-> c.number]}
    <3>1. c.id \in Requests
      BY <1>c DEF TypeOK, Contents
    <3>2. RemovesDead(s) /\ pc[s] \in {"judge", "clear"}
      BY <1>13, <1>b DEF Unlink
    <3>3. QED
      BY <3>1, <3>2, <1>a DEF RemovesDead
  <2>3. /\ UNCHANGED <<pc, number, seen, running, confirmed>>
        /\ cursor' = [cursor EXCEPT ![s] = {}]
    BY <1>13 DEF Unlink
  <2>4. c.id \notin running
    <3>1. CASE s \in Requests
      <4>1. ticket[c.id].phase # "held"
        BY <1>13, <1>c, <2>2, <3>1
        DEF Unlink, TypeOK, RequestStates, Missing
      <4>2. QED
        BY <1>b, <2>2, <4>1 DEF CoversWork
    <3>2. CASE s \in Operators
      BY <1>13, <1>b, <1>c, <3>2
      DEF Unlink, ReviewedIdle, TypeOK, OperatorStates
    <3>3. QED
      BY <3>1, <3>2 DEF Scanners
  <2>5. /\ ticket'[c.id] = Missing
        /\ \A r \in Requests : r # c.id => ticket'[r] = ticket[r]
    BY <1>c, <2>1, <2>2 DEF TypeOK
  <2>6. LiveTicketStays' /\ TicketTellsOwner'
    <3>1. ASSUME NEW r \in Requests, r # c.id
          PROVE  OwnTicketStays(r)' /\ TellsOwner(r)'
      BY <3>1, <1>b, <2>3, <2>5 DEF OwnTicketStays, TellsOwner, Missing
    <3>2. OwnTicketStays(c.id)'
      BY <2>2, <2>3 DEF OwnTicketStays
    <3>3. TellsOwner(c.id)'
      BY <2>5 DEF TellsOwner, Missing
    <3>4. QED
      BY <3>1, <3>2, <3>3 DEF LiveTicketStays, TicketTellsOwner
  <2>7. ObservationsHold'
    <3>1. ASSUME NEW r \in Scanners PROVE DeadStayDead(r)'
      BY <1>b, <2>3 DEF DeadStayDead
    <3>2. ASSUME NEW r \in Scanners PROVE RemovesDead(r)'
      <4>1. cursor'[r] \subseteq cursor[r]
        BY <1>c, <2>3 DEF TypeOK
      <4>2. \A d \in cursor[r] : d.id \in Requests
        BY <1>c DEF TypeOK, Contents
      <4>3. \A d \in cursor[r] : ticket'[d.id] = ticket[d.id]
                                  \/ ticket'[d.id] = Missing
        BY <2>5, <4>2
      <4>4. \A d \in cursor[r] :
              ticket[d.id] \in {Missing, [phase |-> d.phase, number |-> d.number]}
              => ticket'[d.id] \in {Missing,
                                    [phase |-> d.phase, number |-> d.number]}
        BY <4>3
      <4>5. QED
        BY <1>b, <2>3, <4>1, <4>4 DEF RemovesDead, Missing
    <3>3. QED
      BY <3>1, <3>2 DEF ObservationsHold
  <2>8. WorkIsCovered'
    <3>1. ASSUME NEW r \in Requests PROVE CoversWork(r)'
      BY <1>b, <2>2, <2>3, <2>4, <2>5 DEF CoversWork
    <3>2. ASSUME NEW o \in Operators PROVE ReviewedIdle(o)'
      <4>1. cursor'[o] \subseteq cursor[o]
        BY <1>a, <1>c, <2>3 DEF TypeOK
      <4>2. QED
        BY <1>b, <2>3, <4>1 DEF ReviewedIdle, ContentOf
    <3>3. QED
      BY <3>1, <3>2 DEF WorkIsCovered
  <2>9. QED
    BY <1>a, <2>6, <2>7, <2>8 DEF Basics
<1>14. CASE UNCHANGED vars
  BY <1>14, <1>a DEF vars, Basics, LiveTicketStays, TicketTellsOwner,
     ObservationsHold, OwnTicketStays, TellsOwner, DeadStayDead, RemovesDead,
     WorkIsCovered, CoversWork, ReviewedIdle, ContentOf, Missing
<1>15. ASSUME NEW p \in Requests, Reclaim(p) PROVE Basics'
  BY <1>5, <1>15 DEF Reclaim
<1>16. ASSUME NEW o \in Operators, Clear(o) PROVE Basics'
  BY <1>10, <1>16 DEF Clear
<1>17. QED
  BY <1>1, <1>2, <1>3, <1>4, <1>6, <1>7, <1>8, <1>9, <1>11, <1>12, <1>13,
     <1>14, <1>15, <1>16
  DEF Next, Advance, ChooseNumber, Disturb, Recover, List

-----------------------------------------------------------------------------
(* The order in which requests pass each other.                            *)

\* Two tickets with different tokens are ordered one way only.
LEMMA EarlierOrder ==
  ASSUME NEW p \in Requests, NEW q \in Requests, p # q,
         NEW m \in Nat, NEW n \in Nat
  PROVE  /\ Earlier(p, m, q, n) \/ Earlier(q, n, p, m)
         /\ ~(Earlier(p, m, q, n) /\ Earlier(q, n, p, m))
<1>1. p \in Nat /\ q \in Nat
  BY QueueAssumption
<1>2. QED
  BY <1>1 DEF Earlier

\* A request that is past another knows it is ahead: where the ticket of the
\* first stands, with the number it took.
LEMMA PassedIsQueued ==
  ASSUME Basics, NEW p \in Requests, NEW q \in Requests, Passed(p, q)
  PROVE  /\ ticket[p].phase \in {"queued", "held"}
         /\ ticket[p].number = number[p]
         /\ ticket[p].phase = "queued" => pc[p] # "dead"
<1>1. OwnTicketStays(p) /\ TellsOwner(p)
  BY DEF Basics, LiveTicketStays, TicketTellsOwner
<1>2. CASE pc[p] \in {"poll", "judge", "admit"}
  <2>1. ticket[p] = [phase |-> "queued", number |-> number[p]]
    BY <1>1, <1>2 DEF OwnTicketStays
  <2>2. QED
    BY <1>2, <2>1
<1>3. CASE ticket[p].phase = "held"
  BY <1>1, <1>3 DEF TellsOwner
<1>4. QED
  BY <1>2, <1>3 DEF Passed

\* An admitted request and a request past it exclude each other.
LEMMA OneAdmitted ==
  ASSUME Basics, BakeryOrder, NEW p \in Requests, NEW q \in Requests, p # q,
         pc[p] = "admit" \/ ticket[p].phase = "held"
  PROVE  ~(pc[q] = "admit" \/ ticket[q].phase = "held")
<1>1. Behind(q, p)
  BY DEF BakeryOrder, Passed
<1>2. TellsOwner(q) /\ OwnTicketStays(q)
  BY DEF Basics, LiveTicketStays, TicketTellsOwner
<1>3. CASE pc[q] = "admit"
  BY <1>1, <1>3 DEF Behind
<1>4. CASE ticket[q].phase = "held"
  <2>1. pc[q] \in {"held", "working", "retire", "leaked", "dead"}
    BY <1>2, <1>4 DEF TellsOwner
  <2>2. QED
    BY <1>1, <1>4, <2>1 DEF Behind
<1>5. QED
  BY <1>3, <1>4
\* The part of the state that a request alone writes.
Kept(p) ==
  /\ pc'[p] = pc[p] /\ number'[p] = number[p] /\ todo'[p] = todo[p]
  /\ seen'[p] = seen[p] /\ cursor'[p] = cursor[p] /\ ticket'[p] = ticket[p]

\* A request that stays behind while only the other one moves.
LEMMA BehindFrame ==
  ASSUME NEW p \in Requests, NEW q \in Requests, Behind(q, p), Kept(q),
         number'[p] = number[p],
         ticket[p].phase = "held" => ticket'[p].phase = "held"
  PROVE  Behind(q, p)'
<1>1. HeldUp(q, p) => HeldUp(q, p)'
  BY DEF HeldUp, Kept, Blocks, Earlier
<1>2. Noted(q, p) => Noted(q, p)'
  BY DEF Noted, Kept
<1>3. Passed(q, p)' => Passed(q, p)
  BY <1>1 DEF Passed, Kept
<1>4. QED
  BY <1>2, <1>3 DEF Behind, Kept, Earlier

\* A request that is newly past another took a step of its own, or the other
\* one is dead and lost its held ticket.
LEMMA PassedFrame ==
  ASSUME NEW p \in Requests, NEW q \in Requests, Passed(p, q)', Kept(p),
         DeadStayDead(p),
         ticket[q].phase = "held" /\ pc[q] = "dead" =>
           ticket'[q].phase = "held"
  PROVE  Passed(p, q)
<1>1. HeldUp(p, q) => HeldUp(p, q)'
  BY DEF HeldUp, Kept, Blocks, Earlier, DeadStayDead
<1>2. QED
  BY <1>1 DEF Passed, Kept
\* Every step but an unlink writes the part of one actor only.
LEMMA OneActorMoves ==
  ASSUME TypeOK
  PROVE  /\ \A p \in Requests : Advance(p) \/ Disturb(p) => OnlyActor(p)
         /\ \A o \in Operators : Recover(o) => OnlyActor(o)
         /\ \A s \in Scanners : List(s) => OnlyActor(s)
<1> USE DEF TypeOK, Scanners, Goto, StartListing, RemoveListed, OnlyActor
<1>1. ASSUME NEW p \in Requests,
             Request(p) \/ CountTickets(p) \/ PublishChoosing(p)
             \/ TakeNumber(p) \/ NumberLimitReached(p) \/ PublishQueued(p)
      PROVE  OnlyActor(p)
  BY <1>1 DEF Request, CountTickets, PublishChoosing, TakeNumber,
              NumberLimitReached, PublishQueued
<1>2. ASSUME NEW p \in Requests,
             Judge(p) \/ Reclaim(p) \/ Decide(p) \/ PublishHeld(p)
             \/ Execute(p) \/ Finish(p)
      PROVE  OnlyActor(p)
  BY <1>2 DEF Judge, Reclaim, Decide, PublishHeld, Execute, Finish
<1>3. ASSUME NEW p \in Requests,
             Retire(p) \/ RetireFails(p) \/ Throw(p) \/ Die(p)
             \/ OrphanExits(p) \/ ReusePid(p)
      PROVE  OnlyActor(p)
  BY <1>3 DEF Retire, RetireFails, Throw, Die, OrphanExits, ReusePid
<1>4. ASSUME NEW o \in Operators, Recover(o) PROVE OnlyActor(o)
  BY <1>4 DEF Recover, Inspect, Confirm, CompareDigest, Recheck, Clear,
              Recovered
<1>5. ASSUME NEW s \in Scanners, List(s) PROVE OnlyActor(s)
  BY <1>5 DEF List, OpenTicket, JudgeOwner
<1>6. QED
  BY <1>1, <1>2, <1>3, <1>4, <1>5 DEF Advance, ChooseNumber, Disturb

\* What keeps a poll from admitting its request is still there when the poll
\* decides, unless it starts over.
LEMMA HeldUpDecides ==
  ASSUME NEW p \in Requests, NEW q \in Requests, p # q, pc[p] = "judge",
         HeldUp(p, q), Abandoned(p) = {}
  PROVE  Blocked(p)
<1>1. PICK e \in seen[p] :
        /\ e.id = q
        /\ \/ (e.alive \/ e.phase = "held") /\ Blocks(e, p)
           \/ ~e.alive /\ e.phase # "held"
  BY DEF HeldUp
<1>2. e.alive \/ e.phase = "held"
  BY <1>1 DEF Abandoned
<1>3. QED
  BY <1>1, <1>2 DEF Blocked

\* The request behind takes a step.
LEMMA SecondMoves ==
  ASSUME Basics, Basics', BakeryOrder, NEW p \in Requests, NEW q \in Requests,
         p # q, Passed(p, q)', Kept(p),
         Advance(q) \/ Disturb(q) \/ List(q)
  PROVE  Behind(q, p)'
<1>a. /\ TypeOK /\ q \in Scanners /\ p \in Scanners
      /\ OwnTicketStays(q) /\ TellsOwner(q)
      /\ TellsOwner(q)' /\ OwnTicketStays(q)'
      /\ DeadStayDead(p) /\ DeadStayDead(q)
  BY DEF Basics, LiveTicketStays, TicketTellsOwner, ObservationsHold, Scanners
<1> USE DEF Goto, StartListing, Listed
<1>1. CASE OrphanExits(q) \/ ReusePid(q)
  <2>1. UNCHANGED <<ticket, pc, number, todo, seen, cursor>>
    BY <1>1 DEF OrphanExits, ReusePid
  <2>2. Passed(p, q)
    BY <2>1, <1>a, PassedFrame
  <2>3. QED
    BY <2>1, <2>2, BehindFrame DEF BakeryOrder, Kept
<1>2. CASE ~(OrphanExits(q) \/ ReusePid(q))
  <2>0. pc[q] # "dead"
    <3>1. CASE Advance(q)
      BY <3>1 DEF Advance, ChooseNumber, CountTickets, PublishChoosing, TakeNumber,
         NumberLimitReached, PublishQueued, Judge, Reclaim, Decide,
         PublishHeld, Execute, Finish, Retire
    <3>2. CASE Disturb(q)
      BY <1>2, <3>2 DEF Disturb, Request, RetireFails, Throw, Die
    <3>3. CASE List(q)
      BY <3>3 DEF List, OpenTicket, JudgeOwner, Listing
    <3>4. QED
      BY <3>1, <3>2, <3>3
  <2>1. Passed(p, q)
    BY <2>0, <1>a, PassedFrame
  <2>2. Behind(q, p)
    BY <2>1 DEF BakeryOrder
  <2>3. /\ ticket[p].phase \in {"queued", "held"} /\ Present(p)
        /\ ticket[p].number = number[p]
        /\ ticket[p].phase = "queued" => pc[p] # "dead"
    BY <2>1, PassedIsQueued DEF Present
  <2>4. number'[p] = number[p] /\ ticket'[p] = ticket[p]
    BY DEF Kept
  <2>5. CASE Request(q) \/ CountTickets(q)
    BY <2>5, <1>a DEF Request, CountTickets, Behind, TypeOK
  <2>6. CASE PublishChoosing(q)
    BY <2>6, <1>a DEF PublishChoosing, Behind, Noted, TypeOK
  <2>7. CASE TakeNumber(q)
    <3>1. pc[q] = "number" /\ Noted(q, p) /\ todo[q] = {} /\ cursor[q] = {}
      BY <2>2, <2>7 DEF TakeNumber, Behind
    <3>2. PICK e \in seen[q] : e.number = number[p]
      BY <3>1 DEF Noted
    <3>3. PICK n \in 1 .. NumberLimit :
            IsNext(n, seen[q]) /\ number' = [number EXCEPT ![q] = n]
      BY <2>7 DEF TakeNumber
    <3>4. number'[q] > number'[p]
      BY <1>a, <2>4, <3>2, <3>3 DEF IsNext, TypeOK
    <3>5. pc'[q] = "publish"
      BY <2>7, <1>a DEF TakeNumber, TypeOK
    <3>6. QED
      BY <3>4, <3>5 DEF Behind
  <2>8. CASE NumberLimitReached(q) \/ Throw(q)
    <3>1. pc'[q] = "retire" /\ UNCHANGED <<ticket, number>>
      BY <2>8, <1>a DEF NumberLimitReached, Throw, TypeOK
    <3>2. ticket[q].phase # "held"
      BY <2>8, <1>a DEF NumberLimitReached, Throw, TellsOwner
    <3>3. ticket[q].phase = "queued" => pc[q] \in {"poll", "judge"}
      BY <2>2, <2>8, <1>a
      DEF NumberLimitReached, Throw, TellsOwner, Behind
    <3>4. QED
      BY <2>2, <2>4, <3>1, <3>2, <3>3 DEF Behind, Earlier
  <2>9. CASE PublishQueued(q)
    <3>1. /\ pc'[q] = "poll" /\ p \in todo'[q] /\ ticket'[q].phase = "queued"
          /\ number' = number /\ pc[q] = "publish"
      BY <2>9, <1>a DEF PublishQueued, TypeOK
    <3>2. number[q] > number[p]
      BY <2>2, <3>1 DEF Behind
    <3>3. Earlier(p, number[p], q, number[q])'
      BY <1>a, <3>1, <3>2 DEF Earlier, TypeOK
    <3>4. QED
      BY <3>1, <3>3 DEF Behind, Passed
  <2>10. CASE Judge(q)
    <3>1. /\ Earlier(p, number[p], q, number[q]) /\ ~Passed(q, p)
          /\ pc[q] = "poll" /\ todo[q] = {} /\ cursor[q] = {}
          /\ UNCHANGED <<ticket, number, cursor>>
      BY <2>2, <2>10 DEF Judge, Behind
    <3>2. HeldUp(q, p) /\ ticket[q].phase # "held"
      BY <3>1 DEF Passed
    <3>3. CASE pc'[q] = "judge" /\ seen' = seen
      <4>1. HeldUp(q, p)'
        BY <3>1, <3>2, <3>3 DEF HeldUp, Blocks, Earlier
      <4>2. QED
        BY <3>1, <3>2, <3>3, <4>1 DEF Behind, Passed, Earlier
    <3>4. CASE pc'[q] = "retire"
      BY <3>1, <3>2, <3>4 DEF Behind, Earlier
    <3>5. QED
      BY <2>10, <3>3, <3>4, <1>a DEF Judge, TypeOK
  <2>11. CASE Reclaim(q)
    <3>1. PICK e \in Abandoned(q) : RemoveListed(q, e, "retire")
      BY <2>11 DEF Reclaim
    <3>2. /\ Earlier(p, number[p], q, number[q]) /\ ~Passed(q, p)
          /\ pc[q] = "judge" /\ UNCHANGED <<ticket, number>>
          /\ e \in seen[q] /\ ~e.alive /\ e.phase # "held"
          /\ pc[e.id] = "dead"
      BY <2>2, <2>11, <3>1, <1>a
      DEF Reclaim, RemoveListed, Behind, Abandoned, DeadStayDead
    <3>3. HeldUp(q, p) /\ ticket[q].phase # "held"
      BY <3>2 DEF Passed
    <3>4. CASE Present(e.id) /\ ~Unchanged(e)
      <4>1. pc'[q] = "retire"
        BY <3>1, <3>4, <1>a DEF RemoveListed, TypeOK
      <4>2. QED
        BY <3>2, <3>3, <4>1 DEF Behind, Earlier
    <3>5. CASE ~Present(e.id) \/ Unchanged(e)
      <4>1. pc' = pc /\ seen'[q] = seen[q] \ {e}
        BY <3>1, <3>5, <1>a DEF RemoveListed, TypeOK
      <4>2. e.id # p
        <5>1. SUFFICES ASSUME e.id = p PROVE FALSE
          OBVIOUS
        <5>2. ticket[p].phase = "held"
          BY <2>3, <3>2, <5>1
        <5>3. QED
          BY <2>3, <3>2, <3>5, <5>1, <5>2 DEF Unchanged
      <4>3. HeldUp(q, p)'
        BY <3>2, <3>3, <4>1, <4>2 DEF HeldUp, Blocks, Earlier
      <4>4. QED
        BY <3>2, <3>3, <4>1, <4>3 DEF Behind, Passed, Earlier
    <3>6. QED
      BY <3>4, <3>5
  <2>12. CASE Decide(q)
    <3>1. /\ Earlier(p, number[p], q, number[q]) /\ ~Passed(q, p)
          /\ pc[q] = "judge" /\ UNCHANGED <<ticket, number>>
      BY <2>2, <2>12 DEF Decide, Behind
    <3>2. HeldUp(q, p) /\ ticket[q].phase # "held"
      BY <3>1 DEF Passed
    <3>3. Blocked(q)
      BY <2>12, <3>1, <3>2, HeldUpDecides DEF Decide
    <3>4. pc'[q] = "poll" /\ p \in todo'[q]
      BY <2>12, <3>3, <1>a DEF Decide, TypeOK
    <3>5. QED
      BY <3>1, <3>2, <3>4 DEF Behind, Passed, Earlier
  <2>13. CASE PublishHeld(q) \/ Execute(q) \/ Finish(q)
    BY <2>2, <2>13 DEF PublishHeld, Execute, Finish, Behind
  <2>14. CASE Retire(q) \/ RetireFails(q)
    BY <2>2, <2>4, <2>14, <1>a
    DEF Retire, RetireFails, Behind, TypeOK, Earlier
  <2>15. CASE Die(q)
    <3>1. pc'[q] = "dead" /\ UNCHANGED <<ticket, number>>
      BY <2>15, <1>a DEF Die, TypeOK
    <3>2. ticket[q].phase # "held"
      BY <2>0, <2>2, <1>a DEF Behind, TellsOwner
    <3>3. QED
      BY <3>1, <3>2 DEF Behind
  <2>16. ASSUME NEW t \in Requests, OpenTicket(q, t) PROVE Behind(q, p)'
    <3>1. /\ UNCHANGED <<ticket, pc, number, seen>>
          /\ todo'[q] = todo[q] \ {t} /\ cursor[q] = {}
          /\ cursor'[q] = IF Present(t) THEN {Snapshot(t)} ELSE {}
      BY <2>16, <1>a DEF OpenTicket, TypeOK
    <3>2. ASSUME pc[q] = "number", Noted(q, p) PROVE Noted(q, p)'
      <4>1. CASE t = p
        <5>1. cursor'[q] = {Snapshot(p)}
          BY <2>3, <3>1, <4>1
        <5>2. Snapshot(p).id = p /\ Snapshot(p).number = number[p]
          BY <2>3 DEF Snapshot
        <5>3. QED
          BY <3>1, <5>1, <5>2 DEF Noted
      <4>2. CASE t # p
        BY <3>1, <3>2, <4>2 DEF Noted
      <4>3. QED
        BY <4>1, <4>2
    <3>3. ASSUME pc[q] \in {"poll", "judge"}, ~Passed(q, p),
                 Earlier(p, number[p], q, number[q])
          PROVE  ~Passed(q, p)'
      <4>1. pc[q] = "poll" /\ ticket[q].phase # "held"
        BY <2>16, <3>3 DEF OpenTicket, Listing, Passed
      <4>2. CASE t = p
        <5>1. cursor'[q] = {Snapshot(p)}
          BY <2>3, <3>1, <4>2
        <5>2. Blocks(Snapshot(p), q)
          BY <2>3, <3>3 DEF Blocks, Snapshot
        <5>3. Snapshot(p).id = p
          BY DEF Snapshot
        <5>4. HeldUp(q, p)'
          BY <3>1, <4>1, <5>1, <5>2, <5>3 DEF HeldUp, Blocks, Earlier
        <5>5. QED
          BY <3>1, <4>1, <5>4 DEF Passed
      <4>3. CASE t # p
        <5>1. HeldUp(q, p) => HeldUp(q, p)'
          BY <3>1 DEF HeldUp, Blocks, Earlier
        <5>2. QED
          BY <3>1, <3>3, <4>1, <4>3, <5>1 DEF Passed
      <4>4. QED
        BY <4>2, <4>3
    <3>4. QED
      BY <2>2, <3>1, <3>2, <3>3 DEF Behind, Earlier
  <2>17. CASE JudgeOwner(q)
    <3>1. /\ seen'[q] = seen[q] \cup {Judged(c) : c \in cursor[q]}
          /\ UNCHANGED <<ticket, pc, number, todo>>
          /\ pc[q] # "judge"
      BY <2>17, <1>a DEF JudgeOwner, TypeOK, Listing
    <3>2. ASSUME pc[q] = "number", Noted(q, p) PROVE Noted(q, p)'
      <4>1. \A c \in cursor[q] : Judged(c).id = c.id /\ Judged(c).number = c.number
        BY DEF Judged
      <4>2. QED
        BY <3>1, <3>2, <4>1 DEF Noted
    <3>3. ASSUME pc[q] = "poll", ~Passed(q, p) PROVE ~Passed(q, p)'
      <4>1. CASE \E c \in cursor[q] : c.id = p /\ Blocks(c, q)
        <5>1. PICK c \in cursor[q] : c.id = p /\ Blocks(c, q)
          BY <4>1
        <5>2. /\ Judged(c).id = c.id /\ Judged(c).phase = c.phase
              /\ Judged(c).number = c.number
              /\ OwnerAlive(c.id) => Judged(c).alive
          BY DEF Judged
        <5>3. PICK f \in seen'[q] :
                /\ f.id = p /\ f.phase = c.phase /\ f.number = c.number
                /\ OwnerAlive(p) => f.alive
          BY <3>1, <5>1, <5>2
        <5>4. OwnerAlive(p) \/ ticket[p].phase = "held"
          BY <2>3 DEF OwnerAlive
        <5>5. HeldUp(q, p)'
          <6>1. Blocks(f, q)'
            BY <3>1, <5>1, <5>3 DEF Blocks, Earlier
          <6>2. \/ f.alive \/ f.phase = "held"
                \/ ~f.alive /\ f.phase # "held" /\ ticket'[p].phase = "held"
            BY <3>1, <5>3, <5>4
          <6>3. QED
            BY <5>3, <6>1, <6>2 DEF HeldUp
        <5>6. QED
          BY <3>1, <3>3, <5>5 DEF Passed
      <4>2. CASE ~\E c \in cursor[q] : c.id = p /\ Blocks(c, q)
        <5>1. HeldUp(q, p) => HeldUp(q, p)'
          BY <3>1, <4>2 DEF HeldUp, Blocks, Earlier
        <5>2. QED
          BY <3>1, <3>3, <5>1 DEF Passed
      <4>3. QED
        BY <4>1, <4>2
    <3>4. QED
      BY <2>2, <3>1, <3>2, <3>3 DEF Behind, Earlier
  <2>18. QED
    BY <1>2, <2>5, <2>6, <2>7, <2>8, <2>9, <2>10, <2>11, <2>12, <2>13, <2>14,
       <2>15, <2>16, <2>17
    DEF Advance, ChooseNumber, Disturb, List
<1>3. QED
  BY <1>1, <1>2

\* A request that opens the ticket of another is past it only if that one
\* comes later or does not compete.
LEMMA OpensTicket ==
  ASSUME Basics, BakeryOrder, NEW p \in Requests, NEW q \in Requests,
         p # q, pc[p] = "poll", OpenTicket(p, q), Passed(p, q)'
  PROVE  Behind(q, p)'
<1>a. /\ TypeOK /\ q \in Scanners /\ p \in Scanners
      /\ OwnTicketStays(q) /\ TellsOwner(q) /\ OwnTicketStays(p)
      /\ DeadStayDead(p) /\ DeadStayDead(q)
  BY DEF Basics, LiveTicketStays, TicketTellsOwner, ObservationsHold, Scanners
<1>b. number[p] \in Nat /\ number[q] \in Nat
  BY <1>a DEF TypeOK
<1>1. /\ UNCHANGED <<ticket, pc, number, seen>>
      /\ todo'[q] = todo[q] /\ cursor'[q] = cursor[q] /\ seen'[q] = seen[q]
      /\ cursor'[p] = IF Present(q) THEN {Snapshot(q)} ELSE {}
  BY <1>a DEF OpenTicket, TypeOK
<1>2. Kept(q)
  BY <1>1 DEF Kept
<1>3. ~HeldUp(p, q)'
  BY <1>1, <1>a DEF Passed, OwnTicketStays
<1>4. CASE ~Present(q)
  <2>1. /\ ticket[q].phase = "none"
        /\ pc[q] \notin {"number", "publish", "poll", "judge", "admit", "held",
                         "working"}
    BY <1>4, <1>a DEF Present, OwnTicketStays
  <2>2. pc[q] \in RequestStates
    BY <1>a DEF TypeOK
  <2>3. QED
    BY <1>1, <2>1, <2>2 DEF Behind, RequestStates
<1>5. CASE Present(q)
  <2>1. cursor'[p] = {Snapshot(q)}
    BY <1>1, <1>5
  <2>2. Snapshot(q).id = q /\ Snapshot(q).phase = ticket[q].phase
        /\ Snapshot(q).number = ticket[q].number
    BY DEF Snapshot
  <2>3. ~(ticket[q].phase \in {"choosing", "held"}
          \/ Earlier(q, ticket[q].number, p, number[p]))
    BY <1>1, <1>3, <2>1, <2>2 DEF HeldUp, Blocks, Earlier
  <2>4. ticket[q].phase \in {"choosing", "queued", "held"}
    BY <1>5, <1>a DEF Present, TypeOK, Phases
  <2>5. ticket[q].phase = "queued"
    BY <2>3, <2>4
  <2>6. /\ ticket[q].number = number[q]
        /\ pc[q] \in {"poll", "judge", "admit", "retire", "leaked", "dead"}
    BY <1>a, <2>5 DEF TellsOwner
  <2>7. /\ Earlier(p, number[p], q, number[q])
        /\ ~Earlier(q, number[q], p, number[p])
    BY <1>b, <2>3, <2>6, EarlierOrder
  <2>8. ~Passed(q, p)
    BY <2>7 DEF BakeryOrder, Behind
  <2>9. ~Passed(q, p)'
    BY <1>1, <1>2, <1>a, <2>8, PassedFrame
  <2>10. pc[q] # "admit"
    BY <2>8 DEF Passed
  <2>11. QED
    BY <1>1, <2>5, <2>6, <2>7, <2>9, <2>10 DEF Behind, Earlier
<1>6. QED
  BY <1>4, <1>5

\* A request that judges the owner of a ticket it read.
LEMMA JudgesOwner ==
  ASSUME Basics, NEW p \in Requests, NEW q \in Requests,
         p # q, pc[p] = "poll", JudgeOwner(p), Passed(p, q)', ~Passed(p, q)
  PROVE  Behind(q, p)'
<1>a. /\ TypeOK /\ p \in Scanners /\ OwnTicketStays(p)
  BY DEF Basics, LiveTicketStays, Scanners
<1>1. /\ UNCHANGED <<ticket, pc, number, todo>>
      /\ seen'[p] = seen[p] \cup {Judged(c) : c \in cursor[p]}
  BY <1>a DEF JudgeOwner, TypeOK
<1>2. ~HeldUp(p, q)' /\ HeldUp(p, q)
  BY <1>1, <1>a DEF Passed, OwnTicketStays
<1>3. PICK c \in cursor[p] : c.id = q /\ Blocks(c, p)
  BY <1>1, <1>2 DEF HeldUp, Blocks, Earlier
<1>4. /\ Judged(c).id = c.id /\ Judged(c).phase = c.phase
      /\ Judged(c).number = c.number /\ Judged(c).alive = OwnerAlive(c.id)
  BY DEF Judged
<1>5. PICK f \in seen'[p] :
        /\ f.id = q /\ f.phase = c.phase /\ f.number = c.number
        /\ OwnerAlive(q) => f.alive
  BY <1>1, <1>3, <1>4
<1>6. Blocks(f, p)'
  BY <1>1, <1>3, <1>5 DEF Blocks, Earlier
<1>7. ~f.alive /\ f.phase # "held" /\ ticket[q].phase # "held"
  BY <1>1, <1>2, <1>5, <1>6 DEF HeldUp
<1>8. pc[q] = "dead"
  BY <1>5, <1>7 DEF OwnerAlive
<1>9. QED
  BY <1>1, <1>7, <1>8 DEF Behind

\* Apart from those two steps a request is past another only if it was.
LEMMA FirstMoves ==
  ASSUME Basics, BakeryOrder, NEW p \in Requests, NEW q \in Requests,
         p # q, Passed(p, q)', Kept(q),
         Advance(p) \/ Disturb(p) \/ List(p)
  PROVE  Behind(q, p)'
<1>a. /\ TypeOK /\ p \in Scanners /\ OwnTicketStays(p) /\ TellsOwner(p)
  BY DEF Basics, LiveTicketStays, TicketTellsOwner, Scanners
<1> USE DEF Goto, StartListing, Listed
<1>b. ASSUME Passed(p, q), number'[p] = number[p],
             ticket[p].phase = "held" => ticket'[p].phase = "held"
      PROVE  Behind(q, p)'
  BY <1>b, BehindFrame DEF BakeryOrder
<1>1. CASE Request(p) \/ CountTickets(p) \/ NumberLimitReached(p)
           \/ Execute(p) \/ Finish(p) \/ RetireFails(p) \/ Throw(p) \/ Die(p)
  <2>1. /\ UNCHANGED <<ticket, number>>
        /\ pc'[p] \notin {"poll", "judge", "admit"}
    BY <1>1, <1>a DEF Request, CountTickets, NumberLimitReached, Execute,
       Finish, RetireFails, Throw, Die, TypeOK
  <2>2. QED
    BY <1>b, <2>1 DEF Passed
<1>2. CASE PublishChoosing(p) \/ TakeNumber(p) \/ PublishQueued(p) \/ Retire(p)
  <2>1. pc'[p] \notin {"judge", "admit"} /\ (pc'[p] = "poll" => q \in todo'[p])
    BY <1>2, <1>a DEF PublishChoosing, TakeNumber, PublishQueued, Retire, TypeOK
  <2>2. ticket'[p].phase # "held"
    BY <1>2, <1>a DEF PublishChoosing, TakeNumber, PublishQueued, Retire,
                      TypeOK, Missing, OwnTicketStays
  <2>3. QED
    BY <2>1, <2>2 DEF Passed
<1>3. CASE Judge(p)
  <2>1. /\ UNCHANGED <<ticket, number, cursor>>
        /\ pc[p] = "poll" /\ todo[p] = {} /\ cursor[p] = {}
        /\ ticket[p].phase # "held"
    BY <1>3, <1>a DEF Judge, OwnTicketStays
  <2>2. pc'[p] = "judge" /\ seen' = seen
    BY <1>3, <1>a, <2>1 DEF Judge, Passed, TypeOK
  <2>3. ~HeldUp(p, q)
    BY <2>1, <2>2 DEF Passed, HeldUp, Blocks, Earlier
  <2>4. QED
    BY <1>b, <2>1, <2>3 DEF Passed
<1>4. CASE Reclaim(p)
  <2>1. PICK e \in Abandoned(p) : RemoveListed(p, e, "retire")
    BY <1>4 DEF Reclaim
  <2>2. /\ UNCHANGED <<ticket, number>> /\ pc[p] = "judge"
        /\ ticket[p].phase # "held"
    BY <1>4, <1>a, <2>1 DEF Reclaim, RemoveListed, OwnTicketStays
  <2>3. ~(Present(e.id) /\ ~Unchanged(e))
    BY <1>a, <2>1, <2>2 DEF RemoveListed, Passed, TypeOK
  <2>4. pc' = pc /\ seen'[p] = seen[p] \ {e} /\ ~e.alive /\ e.phase # "held"
    BY <1>a, <2>1, <2>3 DEF RemoveListed, Abandoned, TypeOK
  <2>5. e.id = q => ticket[q].phase # "held"
    BY <2>3, <2>4 DEF Present, Unchanged
  <2>6. HeldUp(p, q) => HeldUp(p, q)'
    BY <2>2, <2>4, <2>5 DEF HeldUp, Blocks, Earlier
  <2>7. QED
    BY <1>b, <2>2, <2>4, <2>6 DEF Passed
<1>5. CASE Decide(p)
  <2>1. /\ UNCHANGED <<ticket, number>> /\ pc[p] = "judge"
        /\ Abandoned(p) = {} /\ ticket[p].phase # "held"
    BY <1>5, <1>a DEF Decide, OwnTicketStays
  <2>2. ~Blocked(p)
    BY <1>5, <1>a, <2>1 DEF Decide, Passed, TypeOK
  <2>3. ~HeldUp(p, q)
    BY <2>1, <2>2, HeldUpDecides
  <2>4. QED
    BY <1>b, <2>1, <2>3 DEF Passed
<1>6. CASE PublishHeld(p)
  <2>1. Passed(p, q) /\ UNCHANGED number /\ ticket[p].phase # "held"
    BY <1>6, <1>a DEF PublishHeld, Passed, OwnTicketStays
  <2>2. QED
    BY <1>b, <2>1
<1>7. CASE OrphanExits(p) \/ ReusePid(p)
  <2>1. UNCHANGED <<ticket, pc, number, todo, seen, cursor>>
    BY <1>7 DEF OrphanExits, ReusePid
  <2>2. Passed(p, q)
    BY <2>1 DEF Passed, HeldUp, Blocks, Earlier
  <2>3. QED
    BY <1>b, <2>1, <2>2
<1>8. ASSUME NEW t \in Requests, OpenTicket(p, t) PROVE Behind(q, p)'
  <2>1. /\ UNCHANGED <<ticket, pc, number, seen>>
        /\ todo'[p] = todo[p] \ {t} /\ cursor[p] = {}
    BY <1>8, <1>a DEF OpenTicket, TypeOK
  <2>2. CASE pc[p] = "poll" /\ t = q
    BY <1>8, <2>2, OpensTicket
  <2>3. CASE ~(pc[p] = "poll" /\ t = q)
    <3>1. HeldUp(p, q) => HeldUp(p, q)'
      BY <2>1 DEF HeldUp, Blocks, Earlier
    <3>2. Passed(p, q)
      BY <2>1, <2>3, <3>1 DEF Passed
    <3>3. QED
      BY <1>b, <2>1, <3>2
  <2>4. QED
    BY <2>2, <2>3
<1>9. CASE JudgeOwner(p)
  <2>1. UNCHANGED <<ticket, pc, number, todo>> /\ pc[p] \in Listing
    BY <1>9 DEF JudgeOwner
  <2>2. CASE Passed(p, q)
    BY <1>b, <2>1, <2>2
  <2>3. CASE ~Passed(p, q)
    <3>1. pc[p] = "poll"
      BY <2>1, <2>3 DEF Passed, Listing
    <3>2. QED
      BY <1>9, <2>3, <3>1, JudgesOwner
  <2>4. QED
    BY <2>2, <2>3
<1>10. QED
  BY <1>1, <1>2, <1>3, <1>4, <1>5, <1>6, <1>7, <1>8, <1>9
  DEF Advance, ChooseNumber, Disturb, List

\* A dead owner's ticket is unlinked.
LEMMA UnlinkKeepsOrder ==
  ASSUME Basics, Basics', BakeryOrder, NEW s \in Scanners, Unlink(s),
         NEW p \in Requests, NEW q \in Requests, p # q, Passed(p, q)'
  PROVE  Behind(q, p)'
<1>a. TypeOK /\ p \in Scanners /\ q \in Scanners
      /\ DeadStayDead(p) /\ DeadStayDead(q) /\ RemovesDead(s)
  BY DEF Basics, ObservationsHold, Scanners
<1>1. PICK c \in cursor[s] : ticket' = [ticket EXCEPT ![c.id] = Missing]
  BY DEF Unlink
<1>2. /\ UNCHANGED <<pc, number, todo, seen>>
      /\ cursor' = [cursor EXCEPT ![s] = {}]
      /\ pc[s] \in {"judge", "clear"}
  BY DEF Unlink
<1>3. c.id \in Requests /\ pc[c.id] = "dead"
  <2>1. cursor[s] \subseteq Contents
    BY <1>a DEF TypeOK
  <2>2. c.id \in Requests
    BY <2>1 DEF Contents
  <2>3. pc[c.id] = "dead"
    BY <1>a, <1>2 DEF RemovesDead
  <2>4. QED
    BY <2>2, <2>3
<1>4. \A r \in Requests \ {c.id} : ticket'[r] = ticket[r]
  BY <1>1, <1>3, <1>a DEF TypeOK
<1>5. ticket'[c.id] = Missing
  BY <1>1, <1>3, <1>a DEF TypeOK
<1>6. CASE c.id = q
  BY <1>2, <1>3, <1>5, <1>6 DEF Behind, Missing
<1>7. CASE c.id = p
  BY <1>2, <1>3, <1>5, <1>7 DEF Passed, Missing
<1>8. CASE c.id # p /\ c.id # q
  <2>1. ASSUME NEW r \in {p, q} PROVE Kept(r) \/ (r = s /\ cursor'[r] = {})
    BY <1>2, <1>4, <1>8, <1>a DEF Kept, TypeOK
  <2>2. ASSUME NEW r \in {p, q}, NEW t \in {p, q}, HeldUp(r, t)
        PROVE  HeldUp(r, t)'
    <3>1. \/ pc[r] = "poll" /\ cursor'[r] = cursor[r]
          \/ pc[r] # "poll"
      BY <1>2, <1>a DEF TypeOK
    <3>2. ticket'[t] = ticket[t]
      BY <1>4, <1>8
    <3>3. QED
      BY <1>2, <2>2, <3>1, <3>2 DEF HeldUp, Blocks, Earlier
  <2>3. ASSUME NEW r \in {p, q}, NEW t \in {p, q}, Passed(r, t)'
        PROVE  Passed(r, t)
    BY <1>2, <1>4, <1>8, <2>2, <2>3 DEF Passed
  <2>4. Behind(q, p)
    BY <2>3 DEF BakeryOrder
  <2>5. pc[q] = "number" => cursor'[q] = cursor[q]
    BY <1>2, <1>a DEF TypeOK
  <2>6. pc[q] = "number" /\ Noted(q, p) => Noted(q, p)'
    BY <1>2, <2>5 DEF Noted
  <2>7. QED
    BY <1>2, <1>4, <1>8, <2>3, <2>4, <2>6 DEF Behind, Earlier
<1>9. QED
  BY <1>6, <1>7, <1>8

\* No step breaks the order in which requests pass each other.
LEMMA BakeryStep ==
  ASSUME Basics, Basics', BakeryOrder, [Next]_vars
  PROVE  BakeryOrder'
<1> SUFFICES ASSUME NEW p \in Requests, NEW q \in Requests, p # q, Passed(p, q)'
             PROVE  Behind(q, p)'
  BY DEF BakeryOrder
<1>a. TypeOK /\ p \in Scanners /\ q \in Scanners /\ DeadStayDead(p)
      /\ Operators \cap Requests = {}
  BY QueueAssumption DEF Basics, ObservationsHold, Scanners
<1>1. ASSUME NEW s \in Scanners, OnlyActor(s), s # p, s # q
      PROVE  Behind(q, p)'
  <2>1. Kept(p) /\ Kept(q)
    BY <1>1, <1>a DEF OnlyActor, Kept
  <2>2. Passed(p, q)
    BY <1>a, <2>1, PassedFrame DEF Kept
  <2>3. QED
    BY <2>1, <2>2, BehindFrame DEF BakeryOrder, Kept
<1>2. ASSUME NEW s \in Requests, Advance(s) \/ Disturb(s) \/ List(s)
      PROVE  Behind(q, p)'
  <2>1. OnlyActor(s) /\ s \in Scanners
    BY <1>2, <1>a, OneActorMoves DEF Scanners
  <2>2. CASE s = p
    <3>1. Kept(q)
      BY <1>a, <2>1, <2>2 DEF OnlyActor, Kept
    <3>2. QED
      BY <1>2, <2>2, <3>1, FirstMoves
  <2>3. CASE s = q
    <3>1. Kept(p)
      BY <1>a, <2>1, <2>3 DEF OnlyActor, Kept
    <3>2. QED
      BY <1>2, <2>3, <3>1, SecondMoves
  <2>4. QED
    BY <1>1, <2>1, <2>2, <2>3
<1>3. ASSUME NEW s \in Operators, Recover(s) \/ List(s) PROVE Behind(q, p)'
  <2>1. OnlyActor(s) /\ s \in Scanners /\ s # p /\ s # q
    BY <1>3, <1>a, OneActorMoves DEF Scanners
  <2>2. QED
    BY <1>1, <2>1
<1>4. ASSUME NEW s \in Scanners, Unlink(s) PROVE Behind(q, p)'
  BY <1>4, UnlinkKeepsOrder
<1>5. CASE UNCHANGED vars
  <2>1. Passed(p, q)
    BY <1>5 DEF vars, Passed, HeldUp, Blocks, Earlier
  <2>2. Kept(q)
    BY <1>5 DEF vars, Kept
  <2>3. QED
    BY <1>5, <2>1, <2>2, BehindFrame DEF vars, BakeryOrder
<1>6. QED
  BY <1>2, <1>3, <1>4, <1>5 DEF Next, Scanners

\* A request takes a number once.
LEMMA QueuedOnce ==
  ASSUME Basics, NEW q \in Requests, [Next]_vars,
         pc[q] \notin {"idle", "count", "link", "number", "publish"}
  PROVE  /\ pc'[q] \notin {"idle", "count", "link", "number", "publish"}
         /\ number'[q] = number[q]
         /\ ticket'[q].phase = "queued" => ticket[q].phase = "queued"
<1>a. TypeOK /\ q \in Scanners /\ Operators \cap Requests = {}
      /\ \A s \in Scanners : \A c \in cursor[s] : c.id \in Requests
  BY QueueAssumption DEF Basics, TypeOK, Contents, Scanners
<1> USE DEF Goto, StartListing, Listed
<1>1. ASSUME NEW s \in Scanners, OnlyActor(s), s # q
      PROVE  pc'[q] = pc[q] /\ number'[q] = number[q] /\ ticket'[q] = ticket[q]
  BY <1>1, <1>a DEF OnlyActor
<1>2. ASSUME Advance(q) \/ Disturb(q) \/ List(q)
      PROVE  /\ pc'[q] \notin {"idle", "count", "link", "number", "publish"}
             /\ number'[q] = number[q]
             /\ ticket'[q].phase = "queued" => ticket[q].phase = "queued"
  <2>1. CASE Judge(q) \/ Reclaim(q) \/ Decide(q)
    BY <1>a, <2>1 DEF Judge, Reclaim, Decide, RemoveListed, TypeOK
  <2>2. CASE PublishHeld(q) \/ Execute(q) \/ Finish(q) \/ Retire(q)
    BY <1>a, <2>2 DEF PublishHeld, Execute, Finish, Retire, Missing, TypeOK
  <2>3. CASE RetireFails(q) \/ Throw(q) \/ Die(q) \/ OrphanExits(q) \/ ReusePid(q)
    BY <1>a, <2>3 DEF RetireFails, Throw, Die, OrphanExits, ReusePid, TypeOK
  <2>4. CASE List(q)
    BY <2>4 DEF List, OpenTicket, JudgeOwner
  <2>5. QED
    BY <1>2, <2>1, <2>2, <2>3, <2>4
    DEF Advance, ChooseNumber, Disturb, Request, CountTickets, PublishChoosing, TakeNumber,
        NumberLimitReached, PublishQueued
<1>3. ASSUME NEW s \in Scanners, Unlink(s)
      PROVE  /\ UNCHANGED <<pc, number>>
             /\ ticket'[q].phase = "queued" => ticket[q].phase = "queued"
  BY <1>3, <1>a DEF Unlink, TypeOK, Missing
<1>4. CASE UNCHANGED vars
  BY <1>4 DEF vars
<1>5. ASSUME NEW s \in Requests \ {q}, Advance(s) \/ Disturb(s) \/ List(s)
      PROVE  pc'[q] = pc[q] /\ number'[q] = number[q] /\ ticket'[q] = ticket[q]
  BY <1>1, <1>5, <1>a, OneActorMoves DEF Scanners
<1>6. ASSUME NEW s \in Operators, Recover(s) \/ List(s)
      PROVE  pc'[q] = pc[q] /\ number'[q] = number[q] /\ ticket'[q] = ticket[q]
  BY <1>1, <1>6, <1>a, OneActorMoves DEF Scanners
<1>7. QED
  BY <1>2, <1>3, <1>4, <1>5, <1>6 DEF Next, Scanners

\* The history a request keeps is written when it publishes its ticket.
LEMMA AheadKept ==
  ASSUME [Next]_vars, NEW p \in Requests, TypeOK
  PROVE  ahead'[p] = ahead[p] \/ PublishChoosing(p)
<1>1. ASSUME NEW s \in Requests, Advance(s), s # p PROVE ahead'[p] = ahead[p]
  BY <1>1 DEF Advance, ChooseNumber, CountTickets, PublishChoosing, TakeNumber,
     NumberLimitReached, PublishQueued, Judge, Reclaim, RemoveListed, Decide,
     PublishHeld, Execute, Finish, Retire, TypeOK
<1>2. ASSUME Advance(p), ~PublishChoosing(p) PROVE ahead' = ahead
  BY <1>2 DEF Advance, ChooseNumber, CountTickets, TakeNumber,
     NumberLimitReached, PublishQueued, Judge, Reclaim, RemoveListed, Decide,
     PublishHeld, Execute, Finish, Retire
<1>3. ASSUME NEW s \in Requests, Disturb(s) PROVE ahead' = ahead
  BY <1>3 DEF Disturb, Request, RetireFails, Throw, Die, OrphanExits, ReusePid
<1>4. ASSUME NEW s \in Operators, Recover(s) PROVE ahead' = ahead
  BY <1>4 DEF Recover, Inspect, Confirm, CompareDigest, Recheck, Clear,
     RemoveListed, Recovered
<1>5. ASSUME NEW s \in Scanners, List(s) \/ Unlink(s) PROVE ahead' = ahead
  BY <1>5 DEF List, OpenTicket, JudgeOwner, Unlink
<1>6. CASE UNCHANGED vars
  BY <1>6 DEF vars
<1>7. QED
  BY <1>1, <1>2, <1>3, <1>4, <1>5, <1>6 DEF Next

\* A request notes the tickets queued before its own, and takes a number
\* above theirs.
Follows(p, q) ==
  /\ pc[p] = "number" => Noted(p, q)
  /\ pc[p] \in {"publish", "poll", "judge", "admit", "held", "working"} =>
       number[p] > number[q]

LEMMA ArrivalStep ==
  ASSUME Basics, Basics', ArrivalOrder, [Next]_vars
  PROVE  ArrivalOrder'
<1>a. /\ TypeOK /\ TypeOK' /\ Operators \cap Requests = {}
      /\ \A r \in Requests : TellsOwner(r) /\ OwnTicketStays(r)
  BY QueueAssumption DEF Basics, LiveTicketStays, TicketTellsOwner
<1> SUFFICES ASSUME NEW p \in Requests, NEW q \in ahead'[p]
             PROVE  /\ q # p
                    /\ pc'[q] \notin {"idle", "count", "link", "number",
                                       "publish"}
                    /\ ticket'[q].phase = "queued" => Follows(p, q)'
  BY DEF ArrivalOrder, Follows
<1>b. q \in Requests /\ p \in Scanners /\ q \in Scanners
  BY <1>a DEF TypeOK, Scanners
<1> USE DEF Goto, StartListing, Listed
<1>1. CASE PublishChoosing(p)
  <2>1. q # p /\ ticket[q].phase = "queued" /\ ticket'[q] = ticket[q]
    BY <1>1, <1>a, <1>b DEF PublishChoosing, TellsOwner, TypeOK
  <2>2. pc[q] \notin {"idle", "count", "link", "number", "publish"}
    BY <1>a, <1>b, <2>1 DEF TellsOwner
  <2>3. pc'[p] = "retire" \/ (pc'[p] = "number" /\ todo'[p] = Requests)
    BY <1>1, <1>a, <1>b DEF PublishChoosing, TypeOK
  <2>4. QED
    BY <1>b, <2>1, <2>2, <2>3, QueuedOnce DEF Follows, Noted
<1>2. CASE ~PublishChoosing(p)
  <2>1. q \in ahead[p]
    BY <1>2, <1>a, AheadKept
  <2>2. q # p /\ pc[q] \notin {"idle", "count", "link", "number", "publish"}
    BY <2>1 DEF ArrivalOrder
  <2>3. /\ pc'[q] \notin {"idle", "count", "link", "number", "publish"}
        /\ number'[q] = number[q]
        /\ ticket'[q].phase = "queued" => ticket[q].phase = "queued"
    BY <1>b, <2>2, QueuedOnce
  <2> SUFFICES ASSUME ticket'[q].phase = "queued" PROVE Follows(p, q)'
    BY <2>2, <2>3
  <2>4. Follows(p, q) /\ ticket[q].phase = "queued"
        /\ ticket[q].number = number[q] /\ Present(q)
    BY <1>a, <1>b, <2>1, <2>3 DEF ArrivalOrder, Follows, TellsOwner, Present
  <2>5. ASSUME Kept(p) PROVE Follows(p, q)'
    BY <2>3, <2>4, <2>5 DEF Follows, Kept, Noted
  <2>6. ASSUME NEW s \in Scanners, OnlyActor(s), s # p PROVE Follows(p, q)'
    BY <1>b, <2>5, <2>6 DEF OnlyActor, Kept
  <2>7. ASSUME Advance(p) \/ Disturb(p) PROVE Follows(p, q)'
    <3>1. CASE TakeNumber(p)
      <4>1. Noted(p, q) /\ todo[p] = {} /\ cursor[p] = {}
        BY <2>4, <3>1 DEF TakeNumber, Follows
      <4>2. PICK e \in seen[p] : e.number = number[q]
        BY <4>1 DEF Noted
      <4>3. PICK n \in 1 .. NumberLimit :
              IsNext(n, seen[p]) /\ number' = [number EXCEPT ![p] = n]
        BY <3>1 DEF TakeNumber
      <4>4. number'[p] > number'[q]
        BY <1>a, <1>b, <2>3, <4>2, <4>3 DEF IsNext, TypeOK
      <4>5. pc'[p] = "publish"
        BY <3>1, <1>a, <1>b DEF TakeNumber, TypeOK
      <4>6. QED
        BY <4>4, <4>5 DEF Follows
    <3>2. CASE PublishQueued(p) \/ PublishHeld(p) \/ Execute(p)
      BY <1>a, <1>b, <2>3, <2>4, <3>2
      DEF PublishQueued, PublishHeld, Execute, Follows, TypeOK
    <3>3. CASE Judge(p) \/ Reclaim(p) \/ Decide(p)
      BY <1>a, <1>b, <2>3, <2>4, <3>3
      DEF Judge, Reclaim, RemoveListed, Decide, Follows, TypeOK
    <3>4. CASE OrphanExits(p) \/ ReusePid(p)
      <4>1. UNCHANGED <<ticket, pc, number, todo, seen, cursor>>
        BY <3>4 DEF OrphanExits, ReusePid
      <4>2. QED
        BY <2>5, <4>1 DEF Kept
    <3>5. CASE Request(p) \/ CountTickets(p) \/ NumberLimitReached(p)
               \/ Finish(p) \/ Retire(p) \/ RetireFails(p) \/ Throw(p) \/ Die(p)
      BY <1>a, <1>b, <3>5
      DEF Request, CountTickets, NumberLimitReached, Finish, Retire,
          RetireFails, Throw, Die, Follows, TypeOK
    <3>6. QED
      BY <1>2, <2>7, <3>1, <3>2, <3>3, <3>4, <3>5 DEF Advance, ChooseNumber, Disturb
  <2>8. ASSUME NEW t \in Requests, OpenTicket(p, t) PROVE Follows(p, q)'
    <3>1. /\ UNCHANGED <<ticket, pc, number, seen>>
          /\ todo'[p] = todo[p] \ {t} /\ cursor[p] = {}
          /\ cursor'[p] = IF Present(t) THEN {Snapshot(t)} ELSE {}
      BY <2>8, <1>a, <1>b DEF OpenTicket, TypeOK
    <3>2. ASSUME Noted(p, q) PROVE Noted(p, q)'
      <4>1. CASE t = q
        <5>1. cursor'[p] = {Snapshot(q)}
          BY <2>4, <3>1, <4>1
        <5>2. Snapshot(q).id = q /\ Snapshot(q).number = number[q]
          BY <2>4 DEF Snapshot
        <5>3. QED
          BY <3>1, <5>1, <5>2 DEF Noted
      <4>2. CASE t # q
        BY <3>1, <3>2, <4>2 DEF Noted
      <4>3. QED
        BY <4>1, <4>2
    <3>3. QED
      BY <2>4, <3>1, <3>2 DEF Follows
  <2>9. ASSUME JudgeOwner(p) PROVE Follows(p, q)'
    <3>1. /\ seen'[p] = seen[p] \cup {Judged(c) : c \in cursor[p]}
          /\ UNCHANGED <<ticket, pc, number, todo>>
      BY <2>9, <1>a, <1>b DEF JudgeOwner, TypeOK
    <3>2. \A c \in cursor[p] : Judged(c).id = c.id /\ Judged(c).number = c.number
      BY DEF Judged
    <3>3. Noted(p, q) => Noted(p, q)'
      BY <3>1, <3>2 DEF Noted
    <3>4. QED
      BY <2>4, <3>1, <3>3 DEF Follows
  <2>10. ASSUME NEW s \in Scanners, Unlink(s) PROVE Follows(p, q)'
    <3>1. /\ UNCHANGED <<pc, number, todo, seen>>
          /\ pc[s] \in {"judge", "clear"} /\ cursor' = [cursor EXCEPT ![s] = {}]
      BY <2>10 DEF Unlink
    <3>2. pc[p] = "number" => cursor'[p] = cursor[p]
      BY <1>a, <1>b, <3>1 DEF TypeOK
    <3>3. QED
      BY <2>4, <3>1, <3>2 DEF Follows, Noted
  <2>11. CASE UNCHANGED vars
    BY <2>5, <2>11 DEF vars, Kept
  <2>12. ASSUME NEW s \in Requests, s # p, Advance(s) \/ Disturb(s) \/ List(s)
         PROVE  Follows(p, q)'
    BY <1>a, <2>6, <2>12, OneActorMoves DEF Scanners
  <2>13. ASSUME NEW s \in Operators, Recover(s) \/ List(s) PROVE Follows(p, q)'
    BY <1>a, <2>6, <2>13, OneActorMoves DEF Scanners
  <2>14. ASSUME NEW s \in Scanners, List(s) PROVE Follows(p, q)'
    BY <2>8, <2>9, <2>12, <2>13, <2>14 DEF List, Scanners
  <2>15. QED
    BY <2>7, <2>10, <2>11, <2>12, <2>13, <2>14 DEF Next
<1>3. QED
  BY <1>1, <1>2

-----------------------------------------------------------------------------
(* The theorems.                                                           *)

\* The empty queue satisfies the invariant.
LEMMA InitInvariant == Init => QueueInvariant
<1> SUFFICES ASSUME Init PROVE QueueInvariant
  OBVIOUS
<1> USE DEF Init, Missing, Scanners
<1>1. TypeOK
  BY DEF TypeOK, RequestStates, OperatorStates
<1>2. LiveTicketStays /\ TicketTellsOwner
  BY DEF LiveTicketStays, OwnTicketStays, TicketTellsOwner, TellsOwner
<1>3. ObservationsHold /\ WorkIsCovered
  BY DEF ObservationsHold, DeadStayDead, RemovesDead, WorkIsCovered,
         CoversWork, ReviewedIdle
<1>4. BakeryOrder /\ ArrivalOrder
  BY DEF BakeryOrder, Passed, ArrivalOrder
<1>5. QED
  BY <1>1, <1>2, <1>3, <1>4 DEF QueueInvariant

\* Every step keeps it.
LEMMA StepInvariant == QueueInvariant /\ [Next]_vars => QueueInvariant'
<1> SUFFICES ASSUME QueueInvariant, [Next]_vars PROVE QueueInvariant'
  OBVIOUS
<1>1. Basics /\ BakeryOrder /\ ArrivalOrder
  BY DEF QueueInvariant, Basics
<1>2. Basics'
  BY <1>1, BasicsStep
<1>3. BakeryOrder' /\ ArrivalOrder'
  BY <1>1, <1>2, BakeryStep, ArrivalStep
<1>4. QED
  BY <1>2, <1>3 DEF QueueInvariant, Basics

\* The inductive invariant holds in every state the queue reaches.
THEOREM QueueInvariantHolds == Spec => []QueueInvariant
  BY InitInvariant, StepInvariant, PTL DEF Spec

\* Every variable keeps its type.
THEOREM TypeCorrect == Spec => []TypeOK
<1>1. QueueInvariant => TypeOK
  BY DEF QueueInvariant
<1>2. QED
  BY <1>1, QueueInvariantHolds, PTL

\* withWorkloadAdmission: the guarded commands of two requests never overlap,
\* children of dead holders included, however many requests and operators.
THEOREM GuardedWorkExclusive == Spec => []GuardedWorkNeverOverlaps
<1>1. ASSUME QueueInvariant PROVE GuardedWorkNeverOverlaps
  <2>1. Basics /\ BakeryOrder
    BY <1>1 DEF QueueInvariant, Basics
  <2>2. \A p \in running : p \in Requests /\ ticket[p].phase = "held"
    BY <2>1 DEF Basics, TypeOK, WorkIsCovered, CoversWork
  <2>3. QED
    BY <2>1, <2>2, OneAdmitted DEF GuardedWorkNeverOverlaps
<1>2. QED
  BY <1>1, QueueInvariantHolds, PTL

\* No reclaimer and no operator removes the ticket of a live request.
THEOREM LiveTicketsKept == Spec => []LiveTicketStays
<1>1. QueueInvariant => LiveTicketStays
  BY DEF QueueInvariant
<1>2. QED
  BY <1>1, QueueInvariantHolds, PTL

\* acquireWorkload admits in the order in which tickets were queued.
THEOREM FirstComeFirstServed == Spec => []NoOvertaking
<1>1. ASSUME QueueInvariant PROVE NoOvertaking
  <2>1. Basics /\ BakeryOrder /\ ArrivalOrder
    BY <1>1 DEF QueueInvariant, Basics
  <2> SUFFICES ASSUME NEW p \in Requests, pc[p] \in {"admit", "held", "working"},
                      NEW q \in ahead[p], pc[q] # "dead",
                      ticket[q].phase = "queued"
               PROVE  FALSE
    BY DEF NoOvertaking
  <2>2. q \in Requests /\ TellsOwner(q) /\ OwnTicketStays(p)
        /\ number[p] \in Nat /\ number[q] \in Nat
    BY <2>1 DEF Basics, TypeOK, TicketTellsOwner, LiveTicketStays
  <2>3. p # q
    BY <2>1 DEF ArrivalOrder
  <2>4. number[p] > number[q]
    BY <2>1, <2>3 DEF ArrivalOrder
  <2>5. Passed(p, q)
    BY <2>2 DEF Passed, OwnTicketStays
  <2>6. Behind(q, p)
    BY <2>1, <2>2, <2>3, <2>5 DEF BakeryOrder
  <2>7. pc[q] \in {"poll", "judge", "admit", "retire", "leaked"}
    BY <2>2 DEF TellsOwner
  <2>8. Earlier(p, number[p], q, number[q])
    BY <2>6, <2>7 DEF Behind
  <2>9. QED
    BY <2>2, <2>4, <2>8 DEF Earlier
<1>2. QED
  BY <1>1, QueueInvariantHolds, PTL

\* recoverWorkloads: only a confirmed review removes a dead holder's ticket.
THEOREM DeadHoldersReviewed == Spec => DeadHolderNeedsReview
<1> DEFINE Reviewed ==
      \A t \in Requests :
        ticket[t].phase = "held" /\ pc[t] = "dead" /\ ticket'[t] # ticket[t] =>
          \E o \in Operators : pc[o] = "clear" /\ Snapshot(t) \in confirmed[o]
<1>1. ASSUME QueueInvariant, [Next]_vars PROVE Reviewed
  <2>1. Basics /\ TypeOK /\ \A s \in Scanners : RemovesDead(s)
    BY <1>1 DEF QueueInvariant, Basics, ObservationsHold
  <2> SUFFICES ASSUME NEW t \in Requests, ticket[t].phase = "held",
                      pc[t] = "dead", ticket'[t] # ticket[t]
               PROVE  \E o \in Operators :
                        pc[o] = "clear" /\ Snapshot(t) \in confirmed[o]
    OBVIOUS
  <2>2. \A p \in Requests : ~Advance(p) /\ ~Disturb(p)
    <3>1. ASSUME NEW p \in Requests, Advance(p) \/ Disturb(p) PROVE FALSE
      <4>1. p = t
        BY <2>1, <3>1, OneActorMoves DEF OnlyActor
      <4>2. QED
        BY <3>1, <4>1 DEF Advance, ChooseNumber, Disturb, Request, CountTickets, Listed,
           PublishChoosing, TakeNumber, NumberLimitReached, PublishQueued,
           Judge, Reclaim, Decide, PublishHeld, Execute, Finish, Retire,
           RetireFails, Throw, Die, OrphanExits, ReusePid
    <3>2. QED
      BY <3>1
  <2>3. \A o \in Operators : ~Recover(o)
    <3>1. ASSUME NEW o \in Operators, Recover(o) PROVE UNCHANGED ticket
      BY <3>1 DEF Recover, Inspect, Confirm, CompareDigest, Recheck, Clear,
         RemoveListed, Recovered
    <3>2. QED
      BY <3>1
  <2>4. \A s \in Scanners : ~List(s)
    BY DEF List, OpenTicket, JudgeOwner
  <2>5. PICK s \in Scanners : Unlink(s)
    BY <1>1, <2>2, <2>3, <2>4 DEF Next, vars
  <2>6. PICK c \in cursor[s] : ticket' = [ticket EXCEPT ![c.id] = Missing]
    BY <2>5 DEF Unlink
  <2>7. c \in Contents /\ c.id = t /\ pc[s] \in {"judge", "clear"}
    <3>1. cursor[s] \subseteq Contents
      BY <2>1 DEF TypeOK
    <3>2. c.id = t
      BY <2>1, <2>6 DEF TypeOK
    <3>3. QED
      BY <2>5, <3>1, <3>2 DEF Unlink
  <2>8. ticket[t] = [phase |-> c.phase, number |-> c.number]
    BY <2>1, <2>7, <2>6 DEF RemovesDead, Missing
  <2>9. pc[s] = "clear"
    BY <2>1, <2>6, <2>7, <2>8 DEF RemovesDead
  <2>10. s \in Operators
    BY <2>1, <2>9 DEF TypeOK, RequestStates, Scanners
  <2>11. Snapshot(t) = c
    BY <2>7, <2>8 DEF Snapshot, Contents
  <2>12. c \in confirmed[s]
    BY <2>1, <2>6, <2>9, <2>10 DEF Basics, WorkIsCovered, ReviewedIdle
  <2>13. QED
    BY <2>9, <2>10, <2>11, <2>12
<1>2. QED
  BY <1>1, QueueInvariantHolds, PTL DEF Spec, DeadHolderNeedsReview

\* What a step of the queue is for the lease: a grant, the begin or the end
\* of work, a return, a death, a review, or nothing.
LEMMA LeaseStep ==
  ASSUME QueueInvariant, QueueInvariant', [Next]_vars
  PROVE  [Lease!Next]_(Lease!vars)
<1>a. /\ Basics /\ BakeryOrder /\ TypeOK /\ Operators \cap Requests = {}
      /\ Basics' /\ BakeryOrder' /\ TypeOK'
      /\ \A r \in Requests : /\ TellsOwner(r) /\ OwnTicketStays(r) /\ CoversWork(r)
                            /\ TellsOwner(r)' /\ OwnTicketStays(r)'
      /\ \A s \in Scanners : RemovesDead(s)
      /\ \A o \in Operators : ReviewedIdle(o)
  BY QueueAssumption
  DEF QueueInvariant, Basics, LiveTicketStays, TicketTellsOwner,
      ObservationsHold, WorkIsCovered
<1> DEFINE lost == \E t \in HoldersOf : pc[t] = "dead"
<1> USE DEF Goto, StartListing, Listed
\* At most one request holds the slot, and running work is the holder's.
<1>b. \A p \in HoldersOf : HoldersOf = {p}
  BY <1>a, OneAdmitted DEF HoldersOf
<1>c. running \subseteq HoldersOf
  BY <1>a DEF HoldersOf, CoversWork, TypeOK
<1>d. \A p \in HoldersOf' : HoldersOf' = {p}
  <2>1. ASSUME NEW p \in Requests, NEW q \in Requests, p # q,
               ticket'[p].phase = "held", ticket'[q].phase = "held"
        PROVE  FALSE
    <3>1. Passed(p, q)'
      BY <2>1 DEF Passed
    <3>2. Behind(q, p)'
      BY <1>a, <2>1, <3>1 DEF BakeryOrder
    <3>3. pc'[q] \in {"held", "working", "retire", "leaked", "dead"}
      BY <1>a, <2>1 DEF TellsOwner
    <3>4. QED
      BY <2>1, <3>2, <3>3 DEF Behind
  <2>2. QED
    BY <2>1 DEF HoldersOf
\* Most steps change none of the three.
<1>1. ASSUME UNCHANGED running,
             \A t \in Requests : pc[t] = "dead" <=> pc'[t] = "dead",
             \A t \in Requests : ticket[t].phase = "held" <=> ticket'[t].phase = "held"
      PROVE  [Lease!Next]_(Lease!vars)
  <2>1. HoldersOf' = HoldersOf
    BY <1>1 DEF HoldersOf
  <2>2. lost' = lost
    BY <1>1, <2>1 DEF HoldersOf
  <2>3. QED
    BY <1>1, <2>1, <2>2 DEF Lease!vars
<1>2. ASSUME NEW p \in Requests,
             Request(p) \/ CountTickets(p) \/ TakeNumber(p)
             \/ NumberLimitReached(p) \/ Judge(p) \/ Reclaim(p) \/ Decide(p)
             \/ RetireFails(p) \/ Throw(p) \/ ReusePid(p)
      PROVE  [Lease!Next]_(Lease!vars)
  <2>1. UNCHANGED <<ticket, running>>
    BY <1>2 DEF Request, CountTickets, TakeNumber, NumberLimitReached, Judge,
       Reclaim, RemoveListed, Decide, RetireFails, Throw, ReusePid
  <2>2. ASSUME NEW t \in Requests PROVE pc[t] = "dead" <=> pc'[t] = "dead"
    <3>1. CASE Request(p) \/ CountTickets(p) \/ TakeNumber(p)
      BY <1>a, <3>1 DEF Request, CountTickets, TakeNumber, TypeOK, Scanners
    <3>2. CASE NumberLimitReached(p) \/ RetireFails(p) \/ Throw(p) \/ ReusePid(p)
      BY <1>a, <3>2 DEF NumberLimitReached, RetireFails, Throw, ReusePid,
                        TypeOK, Scanners
    <3>3. CASE Judge(p) \/ Reclaim(p) \/ Decide(p)
      BY <1>a, <3>3 DEF Judge, Reclaim, RemoveListed, Decide, TypeOK, Scanners
    <3>4. QED
      BY <1>2, <3>1, <3>2, <3>3
  <2>3. QED
    BY <1>1, <2>1, <2>2
<1>3. ASSUME NEW p \in Requests, PublishChoosing(p) \/ PublishQueued(p)
      PROVE  [Lease!Next]_(Lease!vars)
  <2>1. /\ ticket[p].phase # "held" /\ pc[p] # "dead"
        /\ ticket'[p].phase # "held" /\ pc'[p] # "dead"
    <3>1. pc[p] \in {"link", "publish"} /\ ticket[p].phase # "held"
      BY <1>3, <1>a DEF PublishChoosing, PublishQueued, TellsOwner
    <3>2. CASE PublishChoosing(p)
      BY <1>a, <3>1, <3>2 DEF PublishChoosing, TypeOK, Scanners
    <3>3. CASE PublishQueued(p)
      BY <1>a, <3>1, <3>3 DEF PublishQueued, TypeOK, Scanners
    <3>4. QED
      BY <1>3, <3>1, <3>2, <3>3
  <2>2. OnlyActor(p) /\ UNCHANGED running
    BY <1>3, <1>a, OneActorMoves DEF Advance, ChooseNumber, PublishChoosing, PublishQueued
  <2>3. QED
    BY <1>1, <2>1, <2>2 DEF OnlyActor, Scanners
<1>4. ASSUME NEW o \in Operators, Recover(o) PROVE [Lease!Next]_(Lease!vars)
  <2>1. UNCHANGED <<ticket, running>>
    BY <1>4 DEF Recover, Inspect, Confirm, CompareDigest, Recheck, Clear,
       RemoveListed, Recovered
  <2>2. \A t \in Requests : pc'[t] = pc[t]
    BY <1>4, <1>a, OneActorMoves DEF OnlyActor, Scanners
  <2>3. QED
    BY <1>1, <2>1, <2>2
<1>5. ASSUME NEW s \in Scanners, List(s) PROVE [Lease!Next]_(Lease!vars)
  BY <1>1, <1>5 DEF List, OpenTicket, JudgeOwner
<1>6. ASSUME NEW p \in Requests, PublishHeld(p)
      PROVE  [Lease!Next]_(Lease!vars)
  <2>1. HoldersOf = {}
    <3>1. pc[p] = "admit" /\ ticket[p].phase # "held"
      <4>1. pc[p] = "admit"
        BY <1>6 DEF PublishHeld
      <4>2. ticket[p] = [phase |-> "queued", number |-> number[p]]
        BY <1>a, <4>1 DEF OwnTicketStays
      <4>3. QED
        BY <4>1, <4>2
    <3>2. \A q \in Requests : p # q => ticket[q].phase # "held"
      BY <1>a, <3>1, OneAdmitted
    <3>3. QED
      BY <3>1, <3>2 DEF HoldersOf
  <2>2. ticket'[p].phase = "held" /\ UNCHANGED running /\ pc'[p] = "held"
    BY <1>6, <1>a DEF PublishHeld, TypeOK, Scanners
  <2>3. HoldersOf' = {p}
    BY <1>d, <2>2 DEF HoldersOf
  <2>4. ~lost /\ ~lost'
    BY <2>1, <2>2, <2>3
  <2>5. Lease!Grant(p)
    BY <2>1, <2>2, <2>3, <2>4 DEF Lease!Grant
  <2>6. QED
    BY <2>5 DEF Lease!Next
<1>7. ASSUME NEW p \in Requests, Execute(p) \/ Finish(p)
      PROVE  [Lease!Next]_(Lease!vars)
  <2>1. /\ HoldersOf = {p} /\ UNCHANGED ticket
        /\ pc[p] \notin {"dead"} /\ pc'[p] # "dead"
    <3>1. ticket[p].phase = "held" /\ pc[p] # "dead" /\ UNCHANGED ticket
      <4>1. pc[p] \in {"held", "working"} /\ UNCHANGED ticket
        BY <1>7 DEF Execute, Finish
      <4>2. ticket[p] = [phase |-> "held", number |-> number[p]]
        BY <1>a, <4>1 DEF OwnTicketStays
      <4>3. QED
        BY <4>1, <4>2
    <3>2. pc'[p] # "dead"
      BY <1>7, <1>a DEF Execute, Finish, TypeOK, Scanners
    <3>3. QED
      BY <1>b, <3>1, <3>2 DEF HoldersOf
  <2>2. HoldersOf' = {p}
    BY <2>1 DEF HoldersOf
  <2>3. ~lost /\ ~lost'
    BY <2>1, <2>2
  <2>4. CASE Execute(p) /\ UNCHANGED running
    BY <2>1, <2>2, <2>3, <2>4 DEF Lease!vars
  <2>5. CASE Execute(p) /\ running' = running \cup {p}
    <3>1. p \notin running
      BY <1>a, <2>5 DEF Execute, CoversWork
    <3>2. running = {} /\ running' = {p}
      BY <1>c, <2>1, <2>5, <3>1
    <3>3. Lease!Begin
      BY <2>1, <2>2, <2>3, <3>2 DEF Lease!Begin
    <3>4. QED
      BY <3>3 DEF Lease!Next
  <2>6. CASE Finish(p)
    <3>1. p \in running /\ running' = running \ {p}
      BY <1>a, <2>6 DEF Finish, CoversWork
    <3>2. running = {p} /\ running' = {}
      BY <1>c, <2>1, <3>1
    <3>3. Lease!End
      BY <2>1, <2>2, <2>3, <3>2 DEF Lease!End
    <3>4. QED
      BY <3>3 DEF Lease!Next
  <2>7. QED
    BY <1>7, <2>4, <2>5, <2>6 DEF Execute
<1>8. ASSUME NEW p \in Requests, Retire(p) PROVE [Lease!Next]_(Lease!vars)
  <2>1. /\ ticket'[p].phase = "none" /\ pc[p] = "retire" /\ pc'[p] = "done"
        /\ UNCHANGED running /\ OnlyActor(p)
    BY <1>8, <1>a, OneActorMoves DEF Advance, ChooseNumber, Retire, Missing, TypeOK, Scanners
  <2>2. \A t \in Requests \ {p} : ticket'[t] = ticket[t] /\ pc'[t] = pc[t]
    BY <2>1 DEF OnlyActor, Scanners
  <2>3. CASE ticket[p].phase # "held"
    BY <1>1, <2>1, <2>2, <2>3
  <2>4. CASE ticket[p].phase = "held"
    <3>1. HoldersOf = {p} /\ HoldersOf' = {}
      BY <1>b, <2>1, <2>2, <2>4 DEF HoldersOf
    <3>2. ~lost /\ ~lost'
      BY <2>1, <3>1
    <3>3. p \notin running
      BY <1>a, <2>1 DEF CoversWork
    <3>4. Lease!GiveBack
      BY <1>c, <2>1, <3>1, <3>2, <3>3 DEF Lease!GiveBack
    <3>5. QED
      BY <3>4 DEF Lease!Next
  <2>5. QED
    BY <2>3, <2>4
<1>9. ASSUME NEW p \in Requests, Die(p) PROVE [Lease!Next]_(Lease!vars)
  <2>1. /\ pc[p] # "dead" /\ pc'[p] = "dead" /\ UNCHANGED <<ticket, running>>
        /\ OnlyActor(p)
    BY <1>9, <1>a, OneActorMoves DEF Disturb, Die, TypeOK, Scanners
  <2>2. HoldersOf' = HoldersOf
    BY <2>1 DEF HoldersOf
  <2>3. CASE p \notin HoldersOf
    <3>1. \A t \in HoldersOf : pc'[t] = pc[t]
      BY <2>1, <2>3 DEF OnlyActor, HoldersOf, Scanners
    <3>2. lost' = lost
      BY <2>2, <3>1
    <3>3. QED
      BY <2>1, <2>2, <3>2 DEF Lease!vars
  <2>4. CASE p \in HoldersOf
    <3>1. HoldersOf = {p}
      BY <1>b, <2>4
    <3>2. ~lost /\ lost'
      BY <2>1, <2>2, <3>1
    <3>3. Lease!HolderDies
      BY <2>1, <2>2, <3>1, <3>2 DEF Lease!HolderDies
    <3>4. QED
      BY <3>3 DEF Lease!Next
  <2>5. QED
    BY <2>3, <2>4
<1>10. ASSUME NEW p \in Requests, OrphanExits(p) PROVE [Lease!Next]_(Lease!vars)
  <2>1. /\ UNCHANGED <<ticket, pc>> /\ p \in running
        /\ running' = running \ {p}
    BY <1>10 DEF OrphanExits
  <2>2. running' = {} /\ running # {}
    BY <1>b, <1>c, <2>1
  <2>3. HoldersOf' = HoldersOf
    BY <2>1 DEF HoldersOf
  <2>4. lost' = lost
    BY <2>1, <2>3
  <2>5. Lease!End
    BY <2>2, <2>3, <2>4 DEF Lease!End
  <2>6. QED
    BY <2>5 DEF Lease!Next
<1>11. ASSUME NEW s \in Scanners, Unlink(s) PROVE [Lease!Next]_(Lease!vars)
  <2>1. PICK c \in cursor[s] : ticket' = [ticket EXCEPT ![c.id] = Missing]
    BY <1>11 DEF Unlink
  <2>2. UNCHANGED <<pc, running>> /\ pc[s] \in {"judge", "clear"}
    BY <1>11 DEF Unlink
  <2>3. c.id \in Requests
    <3>1. cursor[s] \subseteq Contents
      BY <1>a DEF TypeOK
    <3>2. QED
      BY <3>1 DEF Contents
  <2>4. /\ \A t \in Requests \ {c.id} : ticket'[t] = ticket[t]
        /\ ticket'[c.id].phase = "none"
    BY <1>a, <2>1, <2>3 DEF TypeOK, Missing
  <2>5. CASE ticket[c.id].phase # "held"
    BY <1>1, <2>2, <2>3, <2>4, <2>5
  <2>6. CASE ticket[c.id].phase = "held"
    <3>1. HoldersOf = {c.id} /\ HoldersOf' = {}
      BY <1>b, <2>3, <2>4, <2>6 DEF HoldersOf
    <3>2. /\ pc[c.id] = "dead"
          /\ ticket[c.id] = [phase |-> c.phase, number |-> c.number]
      BY <1>a, <2>1, <2>2, <2>6 DEF RemovesDead, Missing
    <3>3. pc[s] = "clear"
      BY <1>a, <2>1, <2>2, <2>6, <3>2 DEF RemovesDead
    <3>4. s \in Operators
      BY <1>a, <3>3 DEF TypeOK, RequestStates, Scanners
    <3>5. c.id \notin running
      BY <1>a, <2>1, <3>3, <3>4 DEF ReviewedIdle
    <3>6. lost /\ ~lost' /\ running = {} /\ UNCHANGED running
      BY <1>c, <2>2, <3>1, <3>2, <3>5
    <3>7. Lease!Review
      BY <3>1, <3>6 DEF Lease!Review
    <3>8. QED
      BY <3>7 DEF Lease!Next
  <2>7. QED
    BY <2>5, <2>6
<1>12. CASE UNCHANGED vars
  BY <1>1, <1>12 DEF vars
<1>13. QED
  BY <1>2, <1>3, <1>4, <1>5, <1>6, <1>7, <1>8, <1>9, <1>10, <1>11, <1>12
  DEF Next, Advance, ChooseNumber, Disturb, Scanners

\* The queue implements the lease of one slot: every step of it grants,
\* begins, ends, gives back, loses or reviews that slot, or leaves it alone.
THEOREM QueueImplementsLease == Spec => ImplementsLease
<1>1. Init => Lease!Init
  <2> SUFFICES ASSUME Init PROVE Lease!Init
    OBVIOUS
  <2>1. HoldersOf = {} /\ running = {}
    BY DEF Init, HoldersOf, Missing
  <2>2. QED
    BY <2>1 DEF Lease!Init
<1>2. QueueInvariant /\ QueueInvariant' /\ [Next]_vars
        => [Lease!Next]_(Lease!vars)
  BY LeaseStep
<1>3. QED
  BY <1>1, <1>2, QueueInvariantHolds, PTL DEF Spec, ImplementsLease, Lease!Spec

-----------------------------------------------------------------------------
(* The project operation lock.                                             *)

\* The parts of the invariant, by name.
OneDirectory == \A d, e \in lock : d = e

TakeoverJudged ==
  \A p \in Procs : place[p] \in {"judge", "aside"} =>
    \E o \in Procs : /\ found[p] = {o} /\ place[o] # "idle"
                     /\ place[p] = "aside" => place[o] \in {"gone", "dead", "failed"}

OwnersStarted ==
  \A d \in lock : \A p \in d.owner : d.owner = {p} /\ place[p] # "idle"

KeeperStands ==
  displaced \/
    /\ \A p, q \in Keepers : p = q
    /\ \A p \in Procs : place[p] \in Keeping => Owns(p)
    /\ \A p \in Procs : place[p] = "own" => lock # {} /\ \A d \in lock : d.owner = {}
    /\ \A p \in Procs : place[p] = "remove" =>
         lock # {} /\ \A d \in lock : d.owner \subseteq {p}

LEMMA GuardParts ==
  GuardInvariant <=> /\ GuardTypeOK /\ OneDirectory /\ TakeoverJudged
                     /\ OwnersStarted /\ KeeperStands
  BY DEF GuardInvariant, OneDirectory, TakeoverJudged, OwnersStarted, KeeperStands

\* A step that leaves the lock and moves one process between two states that
\* are the same to the lock keeps the invariant.
LEMMA QuietOwner ==
  ASSUME GuardInvariant, GuardTypeOK', NEW p \in Procs, NEW w \in States, MoveTo(p, w),
         place[p] # "idle" => w # "idle",
         UNCHANGED <<lock, displaced>>,
         \A q \in Procs : q # p => found'[q] = found[q],
         place[p] \notin {"gone", "dead", "failed"},
         w \in {"judge", "aside"} =>
           \E o \in Procs : /\ found'[p] = {o} /\ place'[o] # "idle"
                            /\ w = "aside" => place'[o] \in {"gone", "dead", "failed"},
         w # "own",
         w \in Keeping => place[p] \in Keeping,
         w = "remove" => place[p] \in Keeping /\ Owns(p)
  PROVE  GuardInvariant'
<1>1. place' = [place EXCEPT ![p] = w] /\ place \in [Procs -> States]
  BY DEF MoveTo, GuardInvariant, GuardTypeOK
<1>2. place'[p] = w /\ \A q \in Procs : q # p => place'[q] = place[q]
  BY <1>1
<1>3. OneDirectory'
  BY DEF GuardInvariant, OneDirectory
<1>4. TakeoverJudged'
  <2> SUFFICES ASSUME NEW q \in Procs, place'[q] \in {"judge", "aside"}
               PROVE  \E o \in Procs :
                        /\ found'[q] = {o} /\ place'[o] # "idle"
                        /\ place'[q] = "aside" => place'[o] \in {"gone", "dead", "failed"}
    BY DEF TakeoverJudged
  <2>1. CASE q = p
    <3>1. w \in {"judge", "aside"} /\ place'[q] = w
      BY <1>2, <2>1
    <3>2. PICK o \in Procs : /\ found'[p] = {o} /\ place'[o] # "idle"
                             /\ w = "aside" => place'[o] \in {"gone", "dead", "failed"}
      BY <3>1
    <3>3. QED
      BY <2>1, <3>1, <3>2
  <2>2. CASE q # p
    <3>1. PICK o \in Procs :
            /\ found[q] = {o} /\ place[o] # "idle"
            /\ place[q] = "aside" => place[o] \in {"gone", "dead", "failed"}
      BY <1>2, <2>2, GuardParts DEF TakeoverJudged
    <3>3. place'[o] # "idle" /\ (place[q] = "aside" => place'[o] \in {"gone", "dead", "failed"})
      BY <1>2, <3>1
    <3>4. QED
      BY <1>2, <2>2, <3>1, <3>3
  <2>3. QED
    BY <2>1, <2>2
<1>5. OwnersStarted'
  <2>1. \A d \in lock : d.owner \subseteq Procs
    BY DEF GuardInvariant, GuardTypeOK, Directories
  <2>2. QED
    BY <1>2, <2>1 DEF GuardInvariant, OwnersStarted
<1>6. KeeperStands'
  <2> SUFFICES ASSUME ~displaced PROVE KeeperStands'
    BY DEF KeeperStands
  <2>1. Keepers' \subseteq Keepers
    BY <1>2 DEF Keepers
  <2>2. \A q \in Procs : Owns(q)' <=> Owns(q)
    BY DEF Owns
  <2>3. \A q \in Procs : place'[q] \in Keeping => Owns(q)'
    BY <1>2, <2>2 DEF GuardInvariant
  <2>4. \A q \in Procs : place'[q] = "own" => lock' # {} /\ \A d \in lock' : d.owner = {}
    BY <1>2 DEF GuardInvariant
  <2>5. \A q \in Procs : place'[q] = "remove" =>
          lock' # {} /\ \A d \in lock' : d.owner \subseteq {q}
    <3>1. Owns(p) => lock # {} /\ \A d \in lock : d.owner \subseteq {p}
      BY DEF Owns, GuardInvariant
    <3>2. QED
      BY <1>2, <3>1 DEF GuardInvariant
  <2>6. QED
    BY <2>1, <2>3, <2>4, <2>5 DEF KeeperStands, GuardInvariant
<1>7. QED
  BY <1>3, <1>4, <1>5, <1>6
  DEF GuardInvariant, OneDirectory, TakeoverJudged, OwnersStarted, KeeperStands

LEMMA GuardTypeStep ==
  ASSUME GuardTypeOK, [GuardNext]_guardVars
  PROVE  GuardTypeOK'
<1> USE DEF GuardTypeOK, MoveTo, AccessFails, GoOnIfOwner, States, Keeping, Mutating, Reports
<1>a. Empty \in Directories
  BY DEF Empty, Directories
<1>1. ASSUME NEW p \in Procs,
             Begin(p) \/ MakeDirectory(p) \/ ExamineLock(p) \/ MoveAside(p)
             \/ SweepAside(p) \/ ExamineOwner(p)
      PROVE  GuardTypeOK'
  <2>1. CASE Begin(p) \/ ExamineLock(p) \/ SweepAside(p) \/ ExamineOwner(p)
    BY <2>1 DEF Begin, ExamineLock, SweepAside, ExamineOwner
  <2>2. CASE MakeDirectory(p)
    BY <2>2, <1>a DEF MakeDirectory, MeetLock
  <2>3. CASE MoveAside(p)
    BY <2>3 DEF MoveAside
  <2>4. QED
    BY <1>1, <2>1, <2>2, <2>3
<1>2. ASSUME NEW p \in Procs, WriteOwner(p) PROVE GuardTypeOK'
  <2>1. \A d \in lock : [d EXCEPT !.owner = {p}] \in Directories
    BY DEF Directories
  <2>2. lock' \in SUBSET Directories
    BY <1>2, <2>1 DEF WriteOwner
  <2>3. QED
    BY <1>2, <2>2 DEF WriteOwner, MeetLock
<1>3. ASSUME NEW p \in Procs, ReadOwner(p) PROVE GuardTypeOK'
  <2>1. \A d \in lock : d.owner \in SUBSET Procs
    BY DEF Directories
  <2>2. QED
    BY <1>3, <2>1 DEF ReadOwner
<1>4. ASSUME NEW p \in Procs,
             PublishStage(p) \/ FinishTask(p) \/ CheckOwner(p)
      PROVE  GuardTypeOK'
  BY <1>4 DEF PublishStage, FinishTask, CheckOwner, PublishFails
<1>5. ASSUME NEW p \in Procs, RecordProgress(p) PROVE GuardTypeOK'
  <2>1. [by |-> p, state |-> report[p]] \in Progress
    BY DEF Progress
  <2>2. \A d \in lock :
          [d EXCEPT !.progress = {[by |-> p, state |-> report[p]]}] \in Directories
    BY <2>1 DEF Directories
  <2>3. lock' \in SUBSET Directories
    BY <1>5, <2>2 DEF RecordProgress, PublishFails
  <2>4. QED
    BY <1>5, <2>3 DEF RecordProgress, PublishFails
<1>6. ASSUME NEW p \in Procs,
             CheckRelease(p) \/ ReadHistory(p) \/ AppendHistory(p)
             \/ RecheckOwner(p) \/ ExitShortcut(p)
      PROVE  GuardTypeOK'
  BY <1>6 DEF CheckRelease, ReadHistory, AppendHistory, RecheckOwner, ExitShortcut
<1>7. ASSUME NEW p \in Procs, RemoveLock(p) PROVE GuardTypeOK'
  <2>1. \A d \in lock : /\ [d EXCEPT !.owner = {}] \in Directories
                        /\ [d EXCEPT !.progress = {}] \in Directories
    BY DEF Directories
  <2>2. lock' \in SUBSET Directories
    BY <1>7, <2>1 DEF RemoveLock
  <2>3. QED
    BY <1>7, <2>2 DEF RemoveLock
<1>8. ASSUME NEW p \in Procs, Exit(p) \/ ProcessDies(p) PROVE GuardTypeOK'
  BY <1>8 DEF Exit, ProcessDies, LoseMemory
<1>9. CASE UNCHANGED guardVars
  BY <1>9 DEF guardVars
<1>10. QED
  BY <1>1, <1>2, <1>3, <1>4, <1>5, <1>6, <1>7, <1>8, <1>9
  DEF GuardNext, Acquire, Operate, Release

LEMMA GuardStep ==
  ASSUME GuardInvariant, [GuardNext]_guardVars
  PROVE  GuardInvariant'
<1>a. /\ GuardTypeOK /\ GuardTypeOK' /\ place \in [Procs -> States]
      /\ \A d \in lock : d.owner \subseteq Procs
  BY GuardTypeStep DEF GuardInvariant, GuardTypeOK, Directories
<1>b. OneDirectory /\ TakeoverJudged /\ OwnersStarted /\ KeeperStands
  BY GuardParts
<1> USE DEF MoveTo
\* A process that keeps nothing yet goes on, or gives up.
<1>c. ASSUME NEW p \in Procs, NEW w \in {"examine", "refused", "failing", "read", "mkdir"}, MoveTo(p, w),
             UNCHANGED <<lock, displaced, found>>,
             place[p] \notin {"idle", "gone", "dead", "failed"}
      PROVE  GuardInvariant'
  <2>1. w \in States /\ w \notin Keeping
    BY DEF States, Keeping, Mutating
  <2>2. QED
    BY <1>c, <1>a, <2>1, QuietOwner
<1>1. ASSUME NEW p \in Procs, Begin(p) PROVE GuardInvariant'
  <2>1. "mkdir" \in States
    BY DEF States
  <2>2. QED
    BY <1>1, <1>a, <2>1, QuietOwner DEF Begin, Keeping, Mutating
<1>2. ASSUME NEW p \in Procs, MakeDirectory(p), lock' # lock PROVE GuardInvariant'
  <2>1. /\ lock = {} /\ lock' = {Empty} /\ place'[p] = "own"
        /\ \A q \in Procs : q # p => place'[q] = place[q]
        /\ UNCHANGED <<found, displaced>>
    BY <1>2, <1>a DEF MakeDirectory, MeetLock, AccessFails
  <2>2. OneDirectory' /\ OwnersStarted'
    BY <2>1 DEF OneDirectory, OwnersStarted, Empty
  <2>3. TakeoverJudged'
    BY <1>2, <1>b, <2>1 DEF TakeoverJudged, MakeDirectory
  <2>4. KeeperStands'
    <3> SUFFICES ASSUME ~displaced PROVE KeeperStands'
      BY <2>1 DEF KeeperStands
    <3>1. Keepers = {}
      BY <2>1, <1>b DEF KeeperStands, Keepers, Owns
    <3>2. Keepers' = {p} /\ \A q \in Procs : place'[q] \in Keeping \cup {"own", "remove"} => q = p
      BY <2>1, <3>1 DEF Keepers
    <3>3. place'[p] \notin Keeping \cup {"remove"}
      BY <2>1 DEF Keeping, Mutating
    <3>4. QED
      BY <2>1, <3>2, <3>3 DEF KeeperStands, Empty
  <2>5. QED
    BY <1>a, <2>2, <2>3, <2>4
    DEF GuardInvariant, OneDirectory, TakeoverJudged, OwnersStarted, KeeperStands
<1>3. ASSUME NEW p \in Procs, WriteOwner(p) PROVE GuardInvariant'
  <2>1. PICK w \in {"examine", "refused", "working", "failing"} : MoveTo(p, w)
    BY <1>3 DEF WriteOwner, MeetLock, AccessFails
  <2>2. CASE w # "working"
    BY <1>c, <1>3, <2>1, <2>2, <1>a DEF WriteOwner, MeetLock, AccessFails
  <2>3. CASE w = "working"
    <3>1. PICK d \in lock : d.owner = {} /\ lock' = {[d EXCEPT !.owner = {p}]}
      BY <1>3, <2>1, <2>3, <1>a DEF WriteOwner, MeetLock, AccessFails
    <3>2. /\ place[p] = "own" /\ place'[p] = "working"
          /\ \A q \in Procs : q # p => place'[q] = place[q]
          /\ UNCHANGED <<found, displaced>>
      BY <1>3, <2>1, <2>3, <1>a DEF WriteOwner
    <3>3. [d EXCEPT !.owner = {p}].owner = {p}
      BY <1>a, <3>1 DEF GuardTypeOK, Directories
    <3>4. OneDirectory' /\ OwnersStarted' /\ Owns(p)'
      BY <3>1, <3>2, <3>3 DEF OneDirectory, OwnersStarted, Owns
    <3>5. TakeoverJudged'
      BY <1>b, <3>2 DEF TakeoverJudged
    <3>6. KeeperStands'
      <4> SUFFICES ASSUME ~displaced PROVE KeeperStands'
        BY <3>2 DEF KeeperStands
      <4>1. Keepers = {p}
        BY <1>b, <3>2 DEF KeeperStands, Keepers
      <4>2. \A q \in Procs : place'[q] \in Keeping \cup {"own", "remove"} => q = p
        BY <3>2, <4>1 DEF Keepers
      <4>3. QED
        BY <3>2, <3>4, <4>2 DEF KeeperStands, Keepers
    <3>7. QED
      BY <1>a, <3>4, <3>5, <3>6
      DEF GuardInvariant, OneDirectory, TakeoverJudged, OwnersStarted, KeeperStands
  <2>4. QED
    BY <2>2, <2>3
<1>4. ASSUME NEW p \in Procs,
             \/ MakeDirectory(p) /\ lock' = lock
             \/ ExamineLock(p)
             \/ SweepAside(p)
      PROVE  GuardInvariant'
  <2>1. PICK w \in {"examine", "refused", "read", "mkdir"} : MoveTo(p, w)
    BY <1>4 DEF MakeDirectory, MeetLock, ExamineLock, SweepAside, AccessFails
  <2>2. /\ UNCHANGED <<lock, displaced, found>>
        /\ place[p] \notin {"idle", "gone", "dead", "failed"}
    BY <1>4 DEF MakeDirectory, ExamineLock, SweepAside
  <2>3. QED
    BY <2>1, <2>2, <1>c
<1>5. ASSUME NEW p \in Procs, ReadOwner(p) PROVE GuardInvariant'
  <2>1. /\ UNCHANGED <<lock, displaced>> /\ place[p] = "read"
        /\ \A q \in Procs : q # p => found'[q] = found[q]
    BY <1>5, <1>a DEF ReadOwner, GuardTypeOK
  <2>2. {"refused", "judge"} \subseteq States /\ "refused" \notin Keeping
        /\ "judge" \notin Keeping
    BY DEF States, Keeping, Mutating
  <2>3. CASE MoveTo(p, "refused")
    BY <1>a, <2>1, <2>2, <2>3, QuietOwner
  <2>4. CASE \E d \in lock : /\ d.owner # {} /\ found' = [found EXCEPT ![p] = d.owner]
                             /\ MoveTo(p, "judge")
    <3>1. PICK d \in lock : /\ d.owner # {} /\ found' = [found EXCEPT ![p] = d.owner]
                            /\ MoveTo(p, "judge")
      BY <2>4
    <3>2. PICK o \in Procs : d.owner = {o} /\ place[o] # "idle"
      BY <1>a, <1>b, <3>1 DEF OwnersStarted
    <3>3. found'[p] = {o}
      BY <1>a, <3>1, <3>2 DEF GuardTypeOK
    <3>4. place'[o] # "idle"
      BY <1>a, <3>1, <3>2
    <3>5. QED
      BY <1>a, <2>1, <2>2, <3>1, <3>3, <3>4, QuietOwner
  <2>5. QED
    BY <1>5, <2>3, <2>4 DEF ReadOwner, AccessFails
<1>6. ASSUME NEW p \in Procs, ExamineOwner(p) PROVE GuardInvariant'
  <2>1. /\ UNCHANGED <<lock, displaced, found>> /\ place[p] = "judge"
    BY <1>6 DEF ExamineOwner
  <2>2. {"refused", "aside"} \subseteq States /\ "refused" \notin Keeping
        /\ "aside" \notin Keeping
    BY DEF States, Keeping, Mutating
  <2>3. PICK o \in Procs : found[p] = {o} /\ place[o] # "idle"
    BY <1>b, <2>1 DEF TakeoverJudged
  <2>4. CASE MoveTo(p, "refused")
    BY <1>a, <2>1, <2>2, <2>4, QuietOwner
  <2>5. CASE MoveTo(p, "aside") /\ ~Alive(o)
    <3>1. place[o] \in {"gone", "dead", "failed"} /\ o # p
      BY <2>1, <2>3, <2>5 DEF Alive
    <3>2. found'[p] = {o} /\ place'[o] # "idle" /\ place'[o] \in {"gone", "dead", "failed"}
      BY <1>a, <2>1, <2>3, <2>5, <3>1
    <3>3. QED
      BY <1>a, <2>1, <2>2, <2>5, <3>2, QuietOwner
  <2>6. QED
    BY <1>6, <2>3, <2>4, <2>5 DEF ExamineOwner
<1>7. ASSUME NEW p \in Procs, MoveAside(p), ~MoveTo(p, "refused")
      PROVE  GuardInvariant'
  <2>1. /\ place[p] = "aside" /\ lock' = {} /\ UNCHANGED found
        /\ displaced' = (displaced \/ \E d \in lock : d.owner # found[p])
        /\ place'[p] \in {"mkdir", "sweep"}
        /\ \A q \in Procs : q # p => place'[q] = place[q]
    BY <1>7, <1>a DEF MoveAside, AccessFails
  <2>2. OneDirectory' /\ OwnersStarted' /\ TakeoverJudged'
    BY <1>b, <2>1 DEF OneDirectory, OwnersStarted, TakeoverJudged
  <2>3. KeeperStands'
    <3> SUFFICES ASSUME ~displaced' PROVE KeeperStands'
      BY DEF KeeperStands
    <3>1. ~displaced /\ \A d \in lock : d.owner = found[p]
      BY <2>1, <1>a DEF GuardTypeOK
    <3>2. PICK o \in Procs : found[p] = {o} /\ place[o] \in {"gone", "dead", "failed"}
      BY <1>b, <2>1 DEF TakeoverJudged
    <3>3. ASSUME NEW q \in Procs, place[q] \in Keeping PROVE FALSE
      <4>1. Owns(q)
        BY <1>b, <3>1, <3>3 DEF KeeperStands
      <4>2. q = o
        BY <3>1, <3>2, <4>1 DEF Owns
      <4>3. QED
        BY <3>2, <3>3, <4>2 DEF Keeping, Mutating
    <3>4. ASSUME NEW q \in Procs, place[q] \in {"own", "remove"} PROVE FALSE
      <4>1. PICK d \in lock : d.owner \subseteq {q}
        BY <1>b, <3>1, <3>4 DEF KeeperStands
      <4>2. q = o
        BY <3>1, <3>2, <4>1
      <4>3. QED
        BY <3>2, <3>4, <4>2
    <3>5. place'[p] \notin Keeping
      BY <2>1 DEF Keeping, Mutating
    <3>6. QED
      BY <2>1, <3>3, <3>4, <3>5 DEF KeeperStands, Keepers
  <2>4. QED
    BY <1>a, <2>2, <2>3
    DEF GuardInvariant, OneDirectory, TakeoverJudged, OwnersStarted, KeeperStands
<1>8. ASSUME NEW p \in Procs,
             \/ PublishStage(p) \/ FinishTask(p) \/ CheckOwner(p)
             \/ CheckRelease(p) \/ ReadHistory(p) \/ AppendHistory(p)
             \/ (RecordProgress(p) /\ lock' = lock /\ PublishFails(p))
      PROVE  GuardInvariant'
  <2>1. PICK w \in Keeping \cup {"lost", "failing"} : MoveTo(p, w)
    BY <1>8 DEF PublishStage, FinishTask, CheckOwner, PublishFails, CheckRelease,
       ReadHistory, AppendHistory, RecordProgress, GoOnIfOwner, AccessFails, Keeping, Mutating
  <2>2. /\ UNCHANGED <<lock, displaced, found>> /\ place[p] \in Keeping
    BY <1>8 DEF PublishStage, FinishTask, CheckOwner, PublishFails, CheckRelease,
       ReadHistory, AppendHistory, RecordProgress, Keeping, Mutating
  <2>3. /\ w \in States /\ w \notin {"judge", "aside", "own", "remove", "idle"}
        /\ place[p] \notin {"gone", "dead", "failed"}
    BY <2>2 DEF States, Keeping, Mutating
  <2>4. QED
    BY <1>a, <2>1, <2>2, <2>3, QuietOwner
<1>9. ASSUME NEW p \in Procs, RecheckOwner(p) \/ ExitShortcut(p)
       PROVE  GuardInvariant'
  <2>1. /\ UNCHANGED <<lock, displaced, found>> /\ place[p] \in Keeping
        /\ place[p] \notin {"idle", "gone", "dead", "failed"}
    BY <1>9 DEF RecheckOwner, ExitShortcut, Keeping, Mutating
  <2>2. {"remove", "lost"} \subseteq States /\ "remove" \notin Keeping
        /\ "lost" \notin Keeping
    BY DEF States, Keeping, Mutating
  <2>3. CASE Owns(p) /\ MoveTo(p, "remove")
    BY <1>a, <2>1, <2>2, <2>3, QuietOwner
  <2>4. CASE MoveTo(p, "lost")
    BY <1>a, <2>1, <2>2, <2>4, QuietOwner
  <2>5. CASE MoveTo(p, "failing")
    BY <1>c, <2>1, <2>5
  <2>6. QED
    BY <1>9, <2>3, <2>4, <2>5 DEF RecheckOwner, ExitShortcut, GoOnIfOwner, AccessFails
\* The lock's directory keeps its owner record.
<1>10. ASSUME NEW p \in Procs, RecordProgress(p), ~PublishFails(p) PROVE GuardInvariant'
  <2>1. PICK d \in lock :
          lock' = {[d EXCEPT !.progress = {[by |-> p, state |-> report[p]]}]}
    BY <1>10 DEF RecordProgress
  <2>2. PICK w \in {"working", "closing"} : MoveTo(p, w)
    BY <1>10 DEF RecordProgress
  <2>3. /\ UNCHANGED <<found, displaced>> /\ place[p] = "record" /\ place'[p] = w
        /\ \A q \in Procs : q # p => place'[q] = place[q]
    BY <1>10, <1>a, <2>2 DEF RecordProgress
  <2>4. [d EXCEPT !.progress = {[by |-> p, state |-> report[p]]}].owner = d.owner
    BY <1>a DEF GuardTypeOK, Directories
  <2>5. PICK e : lock' = {e} /\ e.owner = d.owner
    BY <2>1, <2>4
  <2>6. lock = {d}
    BY <1>b DEF OneDirectory
  <2>a. OneDirectory'
    BY <2>5 DEF OneDirectory
  <2>b. OwnersStarted'
    <3>1. PICK g : lock' = {g} /\ g.owner = d.owner
      BY <2>5
    <3>2. \A q \in d.owner : d.owner = {q} /\ place[q] # "idle"
      BY <1>b DEF OwnersStarted
    <3>3. d.owner \subseteq Procs
      BY <1>a DEF GuardTypeOK, Directories
    <3>4. \A q \in d.owner : place'[q] # "idle"
      BY <2>3, <3>2, <3>3
    <3>5. QED
      BY <3>1, <3>2, <3>4 DEF OwnersStarted
  <2>c. TakeoverJudged'
    <3> SUFFICES ASSUME NEW q \in Procs, place'[q] \in {"judge", "aside"}
                 PROVE  \E o \in Procs :
                          /\ found'[q] = {o} /\ place'[o] # "idle"
                          /\ place'[q] = "aside" => place'[o] \in {"gone", "dead", "failed"}
      BY DEF TakeoverJudged
    <3>1. q # p /\ place'[q] = place[q] /\ found'[q] = found[q]
      BY <2>3
    <3>2. PICK o \in Procs :
            /\ found[q] = {o} /\ place[o] # "idle"
            /\ place[q] = "aside" => place[o] \in {"gone", "dead", "failed"}
      BY <1>b, <3>1 DEF TakeoverJudged
    <3>3. place'[o] # "idle" /\ (place[q] = "aside" => place'[o] \in {"gone", "dead", "failed"})
      BY <2>3, <3>2
    <3>4. QED
      BY <3>1, <3>2, <3>3
  <2>7. OneDirectory' /\ OwnersStarted' /\ TakeoverJudged'
    BY <2>a, <2>b, <2>c
  <2>8. KeeperStands'
    <3> SUFFICES ASSUME ~displaced PROVE KeeperStands'
      BY <2>3 DEF KeeperStands
    <3>1. \A q \in Procs : Owns(q) => Owns(q)'
      BY <2>5, <2>6 DEF Owns
    <3>2. w \in Keeping /\ w \notin {"own", "remove"} /\ place[p] \in Keeping
      BY <2>3 DEF Keeping, Mutating
    <3>3. Keepers' = Keepers
      BY <2>3, <3>2 DEF Keepers
    <3>4. \A q \in Procs : place'[q] \in Keeping => Owns(q)'
      BY <1>b, <2>3, <3>1, <3>2 DEF KeeperStands
    <3>5. \A q \in Procs : place'[q] \in {"own", "remove"} => place[q] = place'[q]
      BY <2>3, <3>2
    <3>6. QED
      BY <1>b, <2>5, <2>6, <3>3, <3>4, <3>5 DEF KeeperStands
  <2>9. QED
    BY <1>a, <2>7, <2>8
    DEF GuardInvariant, OneDirectory, TakeoverJudged, OwnersStarted, KeeperStands
<1>11. ASSUME NEW p \in Procs, RemoveLock(p) PROVE GuardInvariant'
  <2>1. /\ place[p] = "remove" /\ UNCHANGED <<found, displaced>>
    BY <1>11 DEF RemoveLock
  <2>2. CASE \E d, e \in Directories :
               /\ d \in lock /\ lock' = {e} /\ e.owner \in {{}, d.owner}
               /\ UNCHANGED place
    <3>1. PICK d, e \in Directories :
               /\ d \in lock /\ lock' = {e} /\ e.owner \in {{}, d.owner}
               /\ UNCHANGED place
      BY <2>2
    <3>2. OneDirectory' /\ OwnersStarted' /\ TakeoverJudged'
      BY <1>b, <2>1, <3>1 DEF OneDirectory, OwnersStarted, TakeoverJudged
    <3>3. KeeperStands'
      <4> SUFFICES ASSUME ~displaced PROVE KeeperStands'
        BY <2>1 DEF KeeperStands
      <4>1. Keepers = {p} /\ d.owner \subseteq {p}
        BY <1>b, <2>1, <3>1 DEF KeeperStands, Keepers
      <4>2. \A q \in Procs : place[q] \in Keeping \cup {"own", "remove"} => q = p
        BY <4>1 DEF Keepers
      <4>3. place[p] \notin Keeping
        BY <2>1 DEF Keeping, Mutating
      <4>4. QED
        BY <2>1, <3>1, <4>1, <4>2, <4>3 DEF KeeperStands, Keepers
    <3>4. QED
      BY <1>a, <3>2, <3>3
      DEF GuardInvariant, OneDirectory, TakeoverJudged, OwnersStarted, KeeperStands
  <2>3. CASE lock' = {} /\ MoveTo(p, "done")
    <3>1. place'[p] = "done" /\ \A q \in Procs : q # p => place'[q] = place[q]
      BY <1>a, <2>3
    <3>2. OneDirectory' /\ OwnersStarted' /\ TakeoverJudged'
      BY <1>b, <2>1, <2>3, <3>1 DEF OneDirectory, OwnersStarted, TakeoverJudged
    <3>3. KeeperStands'
      <4> SUFFICES ASSUME ~displaced PROVE KeeperStands'
        BY <2>1 DEF KeeperStands
      <4>1. Keepers = {p}
        BY <1>b, <2>1 DEF KeeperStands, Keepers
      <4>2. \A q \in Procs : place'[q] \notin Keeping \cup {"own", "remove"}
        BY <3>1, <4>1 DEF Keepers, Keeping, Mutating
      <4>3. QED
        BY <4>2 DEF KeeperStands, Keepers
    <3>4. QED
      BY <1>a, <3>2, <3>3
      DEF GuardInvariant, OneDirectory, TakeoverJudged, OwnersStarted, KeeperStands
  <2>4. \A d \in lock : /\ [d EXCEPT !.owner = {}] \in Directories
                        /\ [d EXCEPT !.progress = {}] \in Directories
                        /\ [d EXCEPT !.owner = {}].owner = {}
                        /\ [d EXCEPT !.progress = {}].owner = d.owner
                        /\ d \in Directories
    BY <1>a DEF GuardTypeOK, Directories
  <2>5. CASE \E d \in lock : lock' = {[d EXCEPT !.owner = {}]} /\ UNCHANGED place
    <3>1. PICK d \in lock : lock' = {[d EXCEPT !.owner = {}]} /\ UNCHANGED place
      BY <2>5
    <3>2. /\ [d EXCEPT !.owner = {}] \in Directories /\ d \in Directories
          /\ [d EXCEPT !.owner = {}].owner \in {{}, d.owner}
      BY <2>4
    <3>3. QED
      BY <2>2, <3>1, <3>2
  <2>6. CASE \E d \in lock : lock' = {[d EXCEPT !.progress = {}]} /\ UNCHANGED place
    <3>1. PICK d \in lock : lock' = {[d EXCEPT !.progress = {}]} /\ UNCHANGED place
      BY <2>6
    <3>2. /\ [d EXCEPT !.progress = {}] \in Directories /\ d \in Directories
          /\ [d EXCEPT !.progress = {}].owner \in {{}, d.owner}
      BY <2>4
    <3>3. QED
      BY <2>2, <3>1, <3>2
  <2>7. CASE AccessFails(p, "failing") /\ UNCHANGED lock
    BY <1>c, <2>1, <2>7 DEF AccessFails
  <2>8. QED
    BY <1>11, <2>3, <2>5, <2>6, <2>7 DEF RemoveLock
\* A process that is gone keeps nothing, and stays gone.
<1>12. ASSUME NEW p \in Procs, Exit(p) \/ ProcessDies(p) PROVE GuardInvariant'
  <2>1. PICK w \in {"gone", "dead", "failed"} : MoveTo(p, w)
    BY <1>12 DEF Exit, ProcessDies
  <2>2. /\ UNCHANGED <<lock, displaced>> /\ place[p] \notin {"idle", "gone", "dead", "failed"}
        /\ \A q \in Procs : q # p => found'[q] = found[q]
    BY <1>12, <1>a DEF Exit, ProcessDies, LoseMemory, Alive, GuardTypeOK
  <2>3. w \in States /\ w \notin Keeping
    BY DEF States, Keeping, Mutating
  <2>4. QED
    BY <1>a, <2>1, <2>2, <2>3, QuietOwner
<1>13. CASE UNCHANGED guardVars
  BY <1>13, <1>a DEF guardVars, GuardInvariant, Keepers, Owns
<1>14. ASSUME NEW p \in Procs, MoveAside(p), MoveTo(p, "refused") PROVE GuardInvariant'
  <2>1. /\ UNCHANGED <<lock, displaced, found>>
        /\ place[p] \notin {"idle", "gone", "dead", "failed"}
    BY <1>14, <1>a DEF MoveAside, AccessFails
  <2>2. QED
    BY <1>c, <1>14, <2>1
<1>15. ASSUME NEW p \in Procs, RecordProgress(p), PublishFails(p) PROVE GuardInvariant'
  BY <1>8, <1>15 DEF PublishFails
<1>16. QED
  BY <1>1, <1>2, <1>3, <1>4, <1>5, <1>6, <1>7, <1>8, <1>9, <1>10, <1>11,
     <1>12, <1>13, <1>14, <1>15
  DEF GuardNext, Acquire, Operate, Release

\* The lock's inductive invariant holds in every reachable state.
THEOREM GuardInvariantHolds == GuardSpec => []GuardInvariant
<1>1. GuardInit => GuardInvariant
  BY DEF GuardInit, GuardInvariant, GuardTypeOK, States, Reports, Keepers, Keeping, Mutating
<1>2. GuardInvariant /\ [GuardNext]_guardVars => GuardInvariant'
  BY GuardStep
<1>3. QED
  BY <1>1, <1>2, PTL DEF GuardSpec

\* acquireProjectOperation and release: unless the takeover moved a lock that
\* nobody had examined, one process keeps the lock under its own record.
THEOREM OwnersKeepTheirLock == GuardSpec => []OwnerKeepsLock
<1>1. ASSUME GuardInvariant PROVE OwnerKeepsLock
  <2>1. CASE displaced
    BY <2>1 DEF OwnerKeepsLock
  <2>2. CASE ~displaced
    <3>1. /\ \A p, q \in Keepers : p = q
          /\ \A p \in Procs : place[p] \in Keeping => Owns(p)
      BY <1>1, <2>2 DEF GuardInvariant
    <3>2. Mutating \subseteq Keeping
      BY DEF Keeping
    <3>3. OneOperation
      BY <3>1, <3>2 DEF OneOperation, Keepers
    <3>4. QED
      BY <3>1, <3>3 DEF OwnerKeepsLock, Keepers
  <2>3. QED
    BY <2>1, <2>2
<1>2. QED
  BY <1>1, GuardInvariantHolds, PTL

-----------------------------------------------------------------------------
(* The shared engine.                                                      *)

Containers == [id : Nat, run : BOOLEAN, at : Nat]

Memories ==
  [boot : Nat, own : Nat, before : Containers \cup {None}, chosen : Containers,
   impact : [Projects -> Containers] \cup {None}, round : {"plan", "first", "second"}]

\* The boots are numbered, and the one that is up is the last.
Kinds ==
  /\ boots \in Nat /\ vm \in {0, boots} /\ starts \in Nat
  /\ box \in [Projects -> Containers]
  /\ receipt \in [Projects -> Nat]
  /\ at = [a \in Actors |-> at[a]]
  /\ tool = [a \in Actors |-> tool[a]]
  /\ mem \in [Actors -> Memories]
  /\ since \in [Actors -> SUBSET Projects]
  /\ steady \in [Actors -> BOOLEAN]

\* Ids and times of starts come from one clock, and receipts name boots.
Dated(p) ==
  /\ box[p].id <= box[p].at /\ box[p].at <= starts
  /\ box[p].run => box[p].id # 0
  /\ receipt[p] <= boots

\* What a startup finds under its container's name, once it has captured what
\* was there: nothing, the same container, not older, or a newer one.
Working == {"work", "cleanup", "recheck", "halt"}
Succeeds(now, then) ==
  \/ now.id = 0
  \/ now.id = then.id /\ now.at >= then.at
  \/ now.id > then.at

Captured(p) ==
  at[p] \in Working =>
    /\ mem[p].before \in Containers /\ mem[p].before.at <= starts
    /\ Succeeds(box[p], mem[p].before)

\* What its cleanup has chosen to stop was started after that, and whoever has
\* that id now was, too.
Chosen(p) ==
  /\ at[p] \in {"recheck", "halt", "verify"} => mem[p].chosen.id # 0
  /\ at[p] \in {"recheck", "halt"} =>
       /\ ~mem[p].before.run /\ mem[p].chosen.at > mem[p].before.at
       /\ mem[p].chosen.id <= starts
       /\ box[p].id = mem[p].chosen.id => box[p].at >= mem[p].chosen.at

\* The boot that a release has identified, and the receipt it has read: a later
\* boot's at first, of the same one once that boot is qualified.
Settled == {"again", "final", "dispatch"}
Identified(p) ==
  /\ at[p] \in {"validate", "observe", "qualify"} \cup Settled => mem[p].boot \in 1 .. boots
  /\ at[p] \in {"observe", "qualify"} \cup Settled =>
       mem[p].own = receipt[p] /\ mem[p].boot <= mem[p].own
  /\ at[p] \in Settled => mem[p].own = mem[p].boot
  /\ at[p] = "retire" => vm = 0 \/ vm # receipt[p]

\* A stop that is under way, or about to be, was preceded by a look at which
\* nothing ran, and at a boot that its project's receipt names.
Supported(p) ==
  /\ Watches(p) => Running \subseteq since[p]
  /\ tool[p] = "asked" \/ at[p] \in Settled => (steady[p] /\ vm # 0 => receipt[p] = vm)

\* Likewise of what the user of engine stop was shown.
Shown ==
  /\ at[Reviewer] \in {"qualify"} \cup Settled => mem[Reviewer].own = mem[Reviewer].boot
  /\ at[Reviewer] \in Settled \cup {"stopping"} =>
       (steady[Reviewer] /\ vm # 0 => vm = mem[Reviewer].own)
  /\ at[Reviewer] = "dispatch" \/ (at[Reviewer] = "stopping" /\ tool[Reviewer] = "asked") =>
       \A p \in Running \ since[Reviewer] : box[p] = mem[Reviewer].impact[p]

\* FailedStartUndone, of one project.
Undone(p) == at[p] = "failed" /\ p \in mine /\ box[p].run => mem[p].before.run

OfProject(p) ==
  Dated(p) /\ Captured(p) /\ Chosen(p) /\ Identified(p) /\ Supported(p) /\ Undone(p)

EngineInvariant ==
  /\ Kinds /\ Shown /\ locks \subseteq joined
  /\ \A p \in Projects : OfProject(p)

\* The places at which something is claimed of a command.
Bound ==
  Working \cup Settled
    \cup {"verify", "failed", "validate", "observe", "qualify", "retire", "stopping"}

\* What belongs to the other actors stays as it is.
Others(a) ==
  /\ \A b \in Actors \ {a} : /\ at'[b] = at[b] /\ mem'[b] = mem[b] /\ tool'[b] = tool[b]
                             /\ since'[b] = since[b] /\ steady'[b] = steady[b]
  /\ \A q \in Projects \ {a} : receipt'[q] = receipt[q]
  /\ locks' \subseteq joined'

\* A step that leaves the engine alone touches nothing but its actor's claims.
LEMMA OwnStep ==
  ASSUME EngineInvariant, Kinds', NEW a \in Actors, Others(a),
         UNCHANGED <<vm, boots, box, starts>>, mine' \subseteq mine,
         a \in Projects => OfProject(a)', a = Reviewer => Shown'
  PROVE  EngineInvariant'
<1>1. Reviewer \in Actors /\ Reviewer \notin Projects /\ Projects \subseteq Actors
  BY EngineAssumption DEF Actors
<1>2. Shown'
  <2>1. CASE a = Reviewer
    BY <2>1
  <2>2. CASE a # Reviewer
    BY <1>1, <2>2 DEF EngineInvariant, Shown, Others, Running
  <2>3. QED
    BY <2>1, <2>2
<1>3. ASSUME NEW p \in Projects PROVE OfProject(p)'
  <2>1. CASE p = a
    BY <2>1
  <2>2. CASE p # a
    <3>1. /\ at'[p] = at[p] /\ mem'[p] = mem[p] /\ tool'[p] = tool[p]
          /\ since'[p] = since[p] /\ steady'[p] = steady[p] /\ receipt'[p] = receipt[p]
      BY <1>1, <2>2 DEF Others
    <3>2. OfProject(p)
      BY DEF EngineInvariant
    <3>3. Dated(p)' /\ Captured(p)' /\ Chosen(p)' /\ Identified(p)' /\ Undone(p)'
      BY <3>1, <3>2 DEF OfProject, Dated, Captured, Chosen, Identified, Undone
    <3>4. Supported(p)'
      BY <3>1, <3>2 DEF OfProject, Supported, Watches, Running
    <3>5. QED
      BY <3>3, <3>4 DEF OfProject
  <2>3. QED
    BY <2>1, <2>2
<1>4. QED
  BY <1>2, <1>3 DEF EngineInvariant, Others

\* A command of a project goes on to a place at which nothing is claimed.
LEMMA Passes ==
  ASSUME EngineInvariant, NEW p \in Projects, NEW w, w \notin Bound,
         at' = [at EXCEPT ![p] = w],
         mem' = mem \/ mem' = [mem EXCEPT ![p] = Nothing],
         UNCHANGED <<vm, boots, box, starts, receipt, tool>>, mine' \subseteq mine,
         UNCHANGED <<since, steady>> \/ (tool[p] # "asked" /\ Unwatched(p)),
         locks' \subseteq joined'
  PROVE  EngineInvariant'
<1>1. p \in Actors /\ p # Reviewer
  BY EngineAssumption DEF Actors
<1>2. Nothing \in Memories
  BY DEF Nothing, Memories, NoBox, Containers
<1>3. at'[p] = w /\ \A b \in Actors \ {p} : at'[b] = at[b]
  BY <1>1 DEF EngineInvariant, Kinds
<1>4. Kinds'
  <2>1. Kinds
    BY DEF EngineInvariant
  <2>2. mem' \in [Actors -> Memories]
    BY <1>1, <1>2, <2>1 DEF Kinds
  <2>3. since' \in [Actors -> SUBSET Projects] /\ steady' \in [Actors -> BOOLEAN]
    BY <1>1, <2>1 DEF Kinds, Unwatched
  <2>4. at' = [b \in Actors |-> at'[b]]
    BY <2>1 DEF Kinds
  <2>5. QED
    BY <2>1, <2>2, <2>3, <2>4 DEF Kinds
<1>5. Others(p)
  <2>1. \A b \in Actors \ {p} : mem'[b] = mem[b]
    BY DEF EngineInvariant, Kinds
  <2>2. \A b \in Actors \ {p} : since'[b] = since[b] /\ steady'[b] = steady[b]
    BY DEF EngineInvariant, Kinds, Unwatched
  <2>3. QED
    BY <1>3, <2>1, <2>2 DEF Others
<1>6. OfProject(p)'
  <2>1. OfProject(p)
    BY DEF EngineInvariant
  <2>2. Dated(p)' /\ Captured(p)' /\ Chosen(p)' /\ Identified(p)' /\ Undone(p)'
    BY <1>3, <2>1 DEF OfProject, Dated, Captured, Chosen, Identified, Undone, Bound, Working
  <2>3. Supported(p)'
    <3>1. Watches(p)' => tool[p] = "asked"
      BY <1>3 DEF Watches, Looking, Bound, Settled
    <3>2. tool[p] = "asked" => UNCHANGED <<since, steady>>
      OBVIOUS
    <3>3. QED
      BY <1>3, <2>1, <3>1, <3>2 DEF OfProject, Supported, Watches, Running, Bound
  <2>4. QED
    BY <2>2, <2>3 DEF OfProject
<1>7. QED
  BY <1>1, <1>4, <1>5, <1>6, OwnStep

LEMMA Places ==
  ASSUME EngineInvariant, NEW a \in Actors, NEW w, at' = [at EXCEPT ![a] = w]
  PROVE  /\ at'[a] = w /\ \A b \in Actors \ {a} : at'[b] = at[b]
         /\ at' = [b \in Actors |-> at'[b]]
BY DEF EngineInvariant, Kinds

\* The steps after which nothing is claimed of the command.
LEMMA PassingSteps ==
  ASSUME EngineInvariant, NEW p \in Projects,
         \/ BeginCommand(p) \/ Admit(p) \/ FinishCommand(p) \/ Kill(p)
         \/ Probe(p) \/ Claim(p) \/ Started(p) \/ Preserve(p) \/ ToolReturns(p)
  PROVE  EngineInvariant'
<1> USE DEF Bound, Working, Settled
<1>0. locks \subseteq joined
  BY DEF EngineInvariant
<1>1. CASE BeginCommand(p)
  BY <1>0, <1>1, Passes DEF BeginCommand, Go, engine
<1>2. CASE Admit(p)
  BY <1>0, <1>2, Passes DEF Admit, Step, Go, engine, looks, bounds
<1>3. CASE FinishCommand(p)
  BY <1>0, <1>3, Passes DEF FinishCommand, Forget, Go, looks, bounds
<1>4. CASE Kill(p)
  BY <1>0, <1>4, Passes DEF Kill, Forget, Go, coordination, looks
<1>5. CASE Probe(p)
  BY <1>0, <1>5, Passes DEF Probe, Go, engine, coordination, looks, bounds
<1>6. CASE Claim(p)
  BY <1>0, <1>6, Passes DEF Claim, Go, engine, coordination, looks, bounds
<1>7. CASE Started(p)
  BY <1>0, <1>7, Passes DEF Started, Step, Go, engine, coordination, looks, bounds
<1>8. CASE Preserve(p)
  BY <1>0, <1>8, Passes DEF Preserve, GivenUp, Unwatched, Go, engine, coordination, looks, bounds
<1>9. CASE ToolReturns(p)
  BY <1>0, <1>9, Passes DEF ToolReturns, Step, Go, engine, coordination, looks, bounds
<1>10. QED
  BY <1>1, <1>2, <1>3, <1>4, <1>5, <1>6, <1>7, <1>8, <1>9

LEMMA WriteReceiptKeeps ==
  ASSUME EngineInvariant, NEW p \in Projects, WriteReceipt(p)
  PROVE  EngineInvariant'
<1> USE DEF WriteReceipt, Go, engine, coordination, looks, bounds
<1>1. p \in Actors /\ p # Reviewer
  BY EngineAssumption DEF Actors
<1>2. OfProject(p) /\ Kinds /\ locks \subseteq joined
  BY DEF EngineInvariant
<1>3. CASE UNCHANGED receipt
  <2>1. PICK w \in {"capture", "end"} : at' = [at EXCEPT ![p] = w]
    OBVIOUS
  <2>2. QED
    BY <1>2, <1>3, <2>1, Passes DEF Bound, Working, Settled
<1>4. CASE vm # 0 /\ Go(p, "capture") /\ receipt' = [receipt EXCEPT ![p] = vm]
  <2>1. at'[p] = "capture" /\ Others(p) /\ receipt'[p] = vm
    BY <1>1, <1>2, <1>4, Places DEF Others, Kinds
  <2>2. Kinds'
    BY <1>1, <1>2, <1>4 DEF Kinds
  <2>3. OfProject(p)'
    <3>1. Dated(p)' /\ Captured(p)' /\ Chosen(p)' /\ Identified(p)' /\ Undone(p)'
      BY <1>2, <2>1 DEF OfProject, Kinds, Dated, Captured, Chosen, Identified, Undone, Working,
         Settled
    <3>2. Supported(p)'
      BY <1>2, <2>1 DEF OfProject, Supported, Watches, Looking, Running, Settled
    <3>3. QED
      BY <3>1, <3>2 DEF OfProject
  <2>4. QED
    BY <1>1, <2>1, <2>2, <2>3, OwnStep
<1>5. QED
  BY <1>3, <1>4

\* A command goes on at work on its container, or at the end of that.
LEMMA Works ==
  ASSUME EngineInvariant, NEW p \in Projects, NEW w, at' = [at EXCEPT ![p] = w],
         w \in Working \cup {"failed"},
         NEW m \in Memories, mem' = [mem EXCEPT ![p] = m],
         UNCHANGED <<vm, boots, box, starts, mine, receipt, coordination, tool, looks>>,
         Captured(p)', Chosen(p)', Undone(p)'
  PROVE  EngineInvariant'
<1>1. p \in Actors /\ p # Reviewer
  BY EngineAssumption DEF Actors
<1>2. OfProject(p) /\ Kinds /\ locks \subseteq joined
  BY DEF EngineInvariant
<1>3. at'[p] = w /\ Others(p) /\ UNCHANGED <<since, steady, locks, joined>>
  BY <1>1, <1>2, Places DEF Others, Kinds, coordination, looks
<1>4. Kinds'
  BY <1>1, <1>2, <1>3 DEF Kinds
<1>5. OfProject(p)'
  <2>1. Dated(p)' /\ Identified(p)'
    BY <1>2, <1>3 DEF OfProject, Dated, Identified, Working, Settled
  <2>2. Supported(p)'
    BY <1>2, <1>3 DEF OfProject, Supported, Watches, Looking, Running, Working, Settled
  <2>3. QED
    BY <2>1, <2>2 DEF OfProject
<1>6. QED
  BY <1>1, <1>3, <1>4, <1>5, OwnStep

LEMMA CaptureKeeps ==
  ASSUME EngineInvariant, NEW p \in Projects, Capture(p)
  PROVE  EngineInvariant'
<1> USE DEF Capture, Go, Remember, engine, coordination, looks, bounds
<1>1. p \in Actors
  BY DEF Actors
<1>2. OfProject(p) /\ Kinds /\ locks \subseteq joined
  BY DEF EngineInvariant
<1>3. CASE Go(p, "end") /\ UNCHANGED mem
  BY <1>2, <1>3, Passes DEF Bound, Working, Settled
<1>4. CASE Go(p, "work") /\ Remember(p, [mem[p] EXCEPT !.before = box[p]])
  <2> DEFINE m == [mem[p] EXCEPT !.before = box[p]]
  <2>1. m \in Memories /\ m.before = box[p] /\ box[p] \in Containers
    <3>1. mem[p] \in Memories /\ box[p] \in Containers
      BY <1>1, <1>2 DEF Kinds
    <3>2. QED
      BY <3>1 DEF Memories
  <2>2. at'[p] = "work" /\ mem'[p] = m
    BY <1>1, <1>2, <1>4, Places DEF Kinds
  <2> HIDE DEF m
  <2>3. Captured(p)' /\ Chosen(p)' /\ Undone(p)'
    BY <1>2, <2>1, <2>2 DEF OfProject, Dated, Captured, Succeeds, Chosen, Undone, Containers
  <2>4. QED
    BY <1>4, <2>1, <2>3, Works DEF m, Working
<1>5. QED
  BY <1>3, <1>4

LEMMA CleanupKeeps ==
  ASSUME EngineInvariant, NEW p \in Projects,
         WorkFails(p) \/ Select(p) \/ RecheckChosen(p)
  PROVE  EngineInvariant'
<1> USE DEF Go, Remember, engine, coordination, looks, bounds
<1>1. p \in Actors
  BY DEF Actors
<1>2. OfProject(p) /\ Kinds /\ locks \subseteq joined
  BY DEF EngineInvariant
<1>3. mem[p] \in Memories /\ mem = [mem EXCEPT ![p] = mem[p]]
  BY <1>1, <1>2 DEF Kinds
<1>4. CASE WorkFails(p)
  <2>1. at[p] = "work" /\ at'[p] = "cleanup"
    BY <1>1, <1>4, Places DEF WorkFails, Step
  <2>2. Captured(p)' /\ Chosen(p)' /\ Undone(p)'
    BY <1>2, <1>4, <2>1 DEF WorkFails, OfProject, Captured, Chosen, Undone, Working
  <2>3. QED
    BY <1>3, <1>4, <2>2, Works DEF WorkFails, Step, Working
<1>5. CASE Select(p)
  <2>1. CASE ~Selected(p) /\ Go(p, "failed") /\ UNCHANGED mem
    <3>1. at'[p] = "failed"
      BY <1>1, <2>1, Places
    <3>2. Captured(p)' /\ Chosen(p)' /\ Undone(p)'
      BY <1>5, <2>1, <3>1 DEF Select, Selected, Captured, Chosen, Undone, Working
    <3>3. QED
      BY <1>3, <1>5, <2>1, <3>2, Works DEF Select
  <2>2. CASE /\ Selected(p) /\ ~Unproved(p) /\ Go(p, "recheck")
             /\ Remember(p, [mem[p] EXCEPT !.chosen = box[p]])
    <3> DEFINE m == [mem[p] EXCEPT !.chosen = box[p]]
    <3>1. /\ m \in Memories /\ m.chosen = box[p] /\ m.before = mem[p].before
          /\ box[p] \in Containers
      BY <1>1, <1>2, <1>3 DEF Kinds, Memories
    <3>2. at[p] = "cleanup" /\ at'[p] = "recheck" /\ mem'[p] = m
      BY <1>1, <1>2, <1>5, <2>2, Places DEF Kinds, Select
    <3> HIDE DEF m
    <3>3. Captured(p)
      BY <1>2 DEF OfProject
    <3>4. Captured(p)' /\ Undone(p)'
      BY <1>5, <3>1, <3>2, <3>3 DEF Select, Captured, Undone, Working
    <3>5. Chosen(p)'
      <4>1. /\ mem[p].before \in Containers /\ mem[p].before.at <= starts
            /\ Succeeds(box[p], mem[p].before) /\ starts \in Nat
        BY <1>2, <3>2, <3>3 DEF Captured, Working, Kinds
      <4>2. /\ box[p].run /\ ~mem[p].before.run
            /\ ~(box[p].id = mem[p].before.id /\ box[p].at = mem[p].before.at)
        BY <2>2 DEF Selected, Unproved
      <4>3. box[p].id <= box[p].at /\ box[p].at <= starts /\ box[p].id # 0
        BY <1>2, <4>2 DEF OfProject, Dated
      <4>4. box[p].at > mem[p].before.at
        BY <3>1, <4>1, <4>2, <4>3 DEF Succeeds, Containers
      <4>5. QED
        BY <1>5, <3>1, <3>2, <4>1, <4>2, <4>3, <4>4 DEF Select, Chosen, Containers
    <3>6. QED
      BY <1>5, <2>2, <3>1, <3>4, <3>5, Works DEF Select, m, Working
  <2>3. CASE Go(p, "end") /\ UNCHANGED mem
    BY <1>2, <1>5, <2>3, Passes DEF Select, Bound, Working, Settled
  <2>4. QED
    BY <1>5, <2>1, <2>2, <2>3 DEF Select
<1>6. CASE RecheckChosen(p)
  <2>1. CASE Go(p, "halt")
    <3>1. at[p] = "recheck" /\ at'[p] = "halt"
      BY <1>1, <1>6, <2>1, Places DEF RecheckChosen
    <3>2. Captured(p)' /\ Chosen(p)' /\ Undone(p)'
      BY <1>2, <1>6, <3>1 DEF RecheckChosen, OfProject, Captured, Chosen, Undone, Working
    <3>3. QED
      BY <1>3, <1>6, <2>1, <3>2, Works DEF RecheckChosen, Working
  <2>2. CASE Go(p, "end")
    BY <1>2, <1>6, <2>2, Passes DEF RecheckChosen, Bound, Working, Settled
  <2>3. QED
    BY <1>6, <2>1, <2>2 DEF RecheckChosen
<1>7. QED
  BY <1>4, <1>5, <1>6

LEMMA VerifyKeeps ==
  ASSUME EngineInvariant, NEW p \in Projects, Verify(p)
  PROVE  EngineInvariant'
<1> USE DEF Verify, Go, engine, coordination, looks, bounds
<1>1. p \in Actors
  BY DEF Actors
<1>2. OfProject(p) /\ Kinds /\ locks \subseteq joined
  BY DEF EngineInvariant
<1>3. mem[p] \in Memories /\ mem = [mem EXCEPT ![p] = mem[p]]
  BY <1>1, <1>2 DEF Kinds
<1>4. CASE Go(p, "end")
  BY <1>2, <1>4, Passes DEF Bound, Working, Settled
<1>5. CASE ~box[p].run /\ Go(p, "failed")
  <2>1. at'[p] = "failed"
    BY <1>1, <1>5, Places
  <2>2. Captured(p)' /\ Chosen(p)' /\ Undone(p)'
    BY <1>5, <2>1 DEF Captured, Chosen, Undone, Working
  <2>3. QED
    BY <1>3, <1>5, <2>2, Works
<1>6. QED
  BY <1>4, <1>5

-----------------------------------------------------------------------------
(* The release of an idle engine.                                          *)

\* A release looks once more.
LEMMA ReleaseKeeps ==
  ASSUME EngineInvariant, NEW p \in Projects,
         \/ Identify(p) \/ Validate(p) \/ Observe(p) \/ Qualify(p) \/ Again(p) \/ Final(p)
  PROVE  EngineInvariant'
<1> USE DEF Go, Remember, engine, coordination, looks, bounds
<1>1. p \in Actors /\ p # Reviewer
  BY EngineAssumption DEF Actors
<1>2. OfProject(p) /\ Kinds /\ locks \subseteq joined
  BY DEF EngineInvariant
<1>3. mem[p] \in Memories /\ vm \in Nat /\ boots \in Nat /\ receipt[p] \in Nat
  BY <1>1, <1>2 DEF Kinds
<1>4. Dated(p)'
  BY <1>2 DEF OfProject, Dated, Identify, Validate, Observe, Qualify, Again, Final
<1>5. CASE Identify(p)
  <2> DEFINE m == [mem[p] EXCEPT !.boot = vm]
  <2>1. m \in Memories /\ m.boot = vm
    BY <1>3 DEF Memories
  <2>2. at'[p] = "validate" /\ mem'[p] = m
    BY <1>1, <1>2, <1>5, Places DEF Kinds, Identify, Step
  <2>3. Kinds'
    BY <1>1, <1>2, <1>5, <2>1 DEF Kinds, Identify, Step, Looked
  <2>4. Others(p)
    BY <1>1, <1>2, <1>5 DEF Kinds, Others, Identify, Step, Looked
  <2> HIDE DEF m
  <2>5. Captured(p)' /\ Chosen(p)' /\ Identified(p)' /\ Undone(p)'
    BY <1>2, <1>3, <1>5, <2>1, <2>2 DEF Kinds, Captured, Chosen, Identified, Undone, Working,
       Settled, Identify, Step
  <2>6. Supported(p)'
    BY <1>1, <1>2, <1>5, <2>2 DEF Kinds, OfProject, Supported, Watches, Looking, Running,
       Settled, Identify, Step, Looked
  <2>7. QED
    BY <1>1, <1>4, <1>5, <2>3, <2>4, <2>5, <2>6, OwnStep DEF OfProject, Identify
<1>6. CASE Validate(p)
  <2> DEFINE m == [mem[p] EXCEPT !.own = receipt[p]]
  <2>1. m \in Memories /\ m.boot = mem[p].boot /\ m.own = receipt[p]
    BY <1>3 DEF Memories
  <2>2. at[p] = "validate" /\ at'[p] = "observe" /\ mem'[p] = m
    BY <1>1, <1>2, <1>6, Places DEF Kinds, Validate, Step
  <2>3. Kinds'
    BY <1>1, <1>2, <1>6, <2>1 DEF Kinds, Validate, Step
  <2>4. Others(p)
    BY <1>1, <1>2, <1>6 DEF Kinds, Others, Validate, Step
  <2> HIDE DEF m
  <2>5. Captured(p)' /\ Chosen(p)' /\ Undone(p)'
    BY <2>2 DEF Captured, Chosen, Undone, Working
  <2>6. Identified(p)'
    BY <1>2, <1>3, <1>6, <2>1, <2>2 DEF Kinds, OfProject, Identified, ReceiptStands, Settled,
       Validate
  <2>7. Supported(p)'
    BY <1>2, <1>6, <2>2 DEF OfProject, Supported, Watches, Looking, Running, Settled, Validate
  <2>8. QED
    BY <1>1, <1>4, <1>6, <2>3, <2>4, <2>5, <2>6, <2>7, OwnStep DEF OfProject, Validate
<1>7. CASE Observe(p) \/ Final(p)
  <2>1. \/ at[p] = "observe" /\ at'[p] = "qualify"
        \/ at[p] = "final" /\ at'[p] = "dispatch"
    BY <1>1, <1>7, Places DEF Observe, Final, Step
  <2>2. Kinds'
    BY <1>1, <1>2, <1>7 DEF Kinds, Observe, Final, Step, SawContainers
  <2>3. Others(p)
    BY <1>1, <1>2, <1>7 DEF Kinds, Others, Observe, Final, Step, SawContainers
  <2>4. Captured(p)' /\ Chosen(p)' /\ Undone(p)'
    BY <2>1 DEF Captured, Chosen, Undone, Working
  <2>5. Identified(p)'
    BY <1>2, <1>3, <1>7, <2>1 DEF OfProject, Identified, Settled, Observe, Final
  <2>6. Supported(p)'
    <3>1. UNCHANGED <<mem, receipt, vm, box, tool, steady>> /\ Running = {}
      BY <1>7 DEF Observe, Final
    <3>2. QED
      BY <1>2, <2>1, <3>1 DEF OfProject, Supported, Watches, Looking, Running, Settled
  <2>7. QED
    BY <1>1, <1>4, <1>7, <2>2, <2>3, <2>4, <2>5, <2>6, OwnStep DEF OfProject, Observe, Final
<1>8. CASE Qualify(p) \/ Again(p)
  <2>1. \/ at[p] = "qualify" /\ at'[p] = "again"
        \/ at[p] = "again" /\ at'[p] = "final"
    BY <1>1, <1>8, Places DEF Qualify, Again, Step
  <2>2. vm # 0 /\ vm = mem[p].boot /\ UNCHANGED <<mem, receipt, vm, boots, box, tool, since>>
    BY <1>8 DEF Qualify, Qualified, Again
  <2>3. Kinds'
    BY <1>1, <1>2, <1>8 DEF Kinds, Qualify, Again, Step, Looked
  <2>4. Others(p)
    BY <1>1, <1>2, <1>8 DEF Kinds, Others, Qualify, Again, Step, Looked
  <2>5. Captured(p)' /\ Chosen(p)' /\ Undone(p)'
    BY <2>1 DEF Captured, Chosen, Undone, Working
  <2>6. receipt[p] <= boots /\ mem[p].own = receipt[p] /\ mem[p].boot <= mem[p].own
    BY <1>2, <2>1 DEF OfProject, Dated, Identified, Settled
  <2>7. mem[p].own = mem[p].boot
    <3>1. vm = boots
      BY <1>2, <2>2 DEF Kinds
    <3>2. QED
      BY <1>3, <2>2, <2>6, <3>1
  <2>8. Identified(p)'
    BY <1>2, <2>1, <2>2, <2>6, <2>7 DEF OfProject, Identified, Settled
  <2>9. Supported(p)'
    BY <1>2, <2>1, <2>2, <2>6, <2>7 DEF OfProject, Supported, Watches, Looking, Running, Settled
  <2>10. QED
    BY <1>1, <1>4, <1>8, <2>3, <2>4, <2>5, <2>8, <2>9, OwnStep DEF OfProject, Qualify, Again
<1>9. QED
  BY <1>5, <1>6, <1>7, <1>8

\* The engine is found to be off, and the receipt retired.
LEMMA RetirementKeeps ==
  ASSUME EngineInvariant, NEW p \in Projects, ConfirmOff(p) \/ RetireReceipt(p)
  PROVE  EngineInvariant'
<1> USE DEF Go, Step, engine, coordination, looks, bounds
<1>1. p \in Actors /\ p # Reviewer
  BY EngineAssumption DEF Actors
<1>2. OfProject(p) /\ Kinds /\ locks \subseteq joined
  BY DEF EngineInvariant
<1>3. CASE ConfirmOff(p) /\ vm # 0
  BY <1>2, <1>3, Passes DEF ConfirmOff, Off, Bound, Working, Settled
<1>4. CASE ConfirmOff(p) /\ vm = 0
  <2>1. at'[p] = "retire" /\ Others(p)
    BY <1>1, <1>2, <1>4, Places DEF ConfirmOff, Off, Others
  <2>2. Kinds'
    BY <1>1, <1>2, <1>4 DEF Kinds, ConfirmOff
  <2>3. Dated(p)' /\ Captured(p)' /\ Chosen(p)' /\ Identified(p)' /\ Undone(p)'
    BY <1>2, <1>4, <2>1 DEF ConfirmOff, OfProject, Dated, Captured, Chosen, Identified, Undone,
       Working, Settled
  <2>4. Supported(p)'
    BY <1>2, <1>4, <2>1 DEF ConfirmOff, OfProject, Supported, Watches, Looking, Running, Settled
  <2>5. QED
    BY <1>1, <1>4, <2>1, <2>2, <2>3, <2>4, OwnStep DEF OfProject, ConfirmOff
<1>5. CASE RetireReceipt(p)
  <2>1. at[p] = "retire" /\ at'[p] = "end" /\ Others(p)
    BY <1>1, <1>2, <1>5, Places DEF RetireReceipt, Others, Kinds
  <2>2. PICK r \in {0, receipt[p]} : receipt' = [receipt EXCEPT ![p] = r]
    BY <1>5 DEF RetireReceipt
  <2>3. receipt[p] \in Nat /\ receipt'[p] = r
    BY <1>2, <2>2 DEF Kinds
  <2>4. Kinds'
    <3>1. receipt' \in [Projects -> Nat]
      BY <1>2, <2>2, <2>3 DEF Kinds
    <3>2. QED
      BY <1>1, <1>2, <1>5, <3>1 DEF Kinds, RetireReceipt
  <2>5. vm = 0 \/ vm # receipt[p]
    BY <1>2, <2>1 DEF OfProject, Identified
  <2>6. Dated(p)' /\ Captured(p)' /\ Chosen(p)' /\ Identified(p)' /\ Undone(p)'
    BY <1>2, <1>5, <2>1, <2>3 DEF RetireReceipt, Kinds, OfProject, Dated, Captured, Chosen,
       Identified, Undone, Working, Settled
  <2>7. Supported(p)'
    BY <1>2, <1>5, <2>1, <2>3, <2>5 DEF RetireReceipt, OfProject, Supported, Watches, Looking,
       Running, Settled
  <2>8. QED
    BY <1>1, <1>5, <2>1, <2>4, <2>6, <2>7, OwnStep DEF OfProject, RetireReceipt
<1>6. QED
  BY <1>3, <1>4, <1>5

\* colima stop is asked for; it fails, or finds the engine off.
LEMMA DispatchKeeps ==
  ASSUME EngineInvariant, NEW a \in Actors, Dispatch(a)
  PROVE  EngineInvariant'
<1> USE DEF Go, Step, engine, coordination, looks, bounds
<1>1. Kinds /\ locks \subseteq joined /\ Shown
  BY DEF EngineInvariant
<1>2. at[a] = "dispatch" /\ at'[a] = "stopping" /\ tool[a] # "asked" /\ tool'[a] = "asked"
  BY <1>1, Places DEF Dispatch, Kinds
<1>3. Others(a) /\ Kinds'
  BY <1>1, <1>2, Places DEF Dispatch, Others, Kinds
<1>4. ASSUME a \in Projects PROVE OfProject(a)'
  <2>1. OfProject(a)
    BY <1>4 DEF EngineInvariant
  <2>2. Dated(a)' /\ Captured(a)' /\ Chosen(a)' /\ Identified(a)' /\ Undone(a)'
    BY <1>2, <2>1 DEF Dispatch, OfProject, Dated, Captured, Chosen, Identified, Undone,
       Working, Settled
  <2>3. Supported(a)'
    BY <1>2, <2>1 DEF Dispatch, OfProject, Supported, Watches, Looking, Running, Settled
  <2>4. QED
    BY <2>2, <2>3 DEF OfProject
<1>5. ASSUME a = Reviewer PROVE Shown'
  BY <1>1, <1>2, <1>5 DEF Dispatch, Shown, Running, Settled
<1>6. QED
  BY <1>3, <1>4, <1>5, OwnStep DEF Dispatch

LEMMA FutileKeeps ==
  ASSUME EngineInvariant, NEW a \in Actors,
         ToolFails(a) \/ (TakeDown(a) /\ vm = 0)
  PROVE  EngineInvariant'
<1> USE DEF engine, coordination, looks, bounds
<1>1. Kinds /\ locks \subseteq joined /\ Shown
  BY DEF EngineInvariant
<1>2. /\ tool[a] = "asked" /\ tool' = [tool EXCEPT ![a] = "none"] /\ Over(a)
      /\ UNCHANGED <<vm, boots, box, starts, mine, receipt, locks, at, mem, joined>>
  BY DEF ToolFails, TakeDown, Over, Unwatched
<1>3. tool'[a] = "none" /\ (at[a] \in Looking => UNCHANGED <<since, steady>>)
  BY <1>1, <1>2 DEF Kinds, Over
<1>4. Kinds'
  BY <1>1, <1>2 DEF Kinds, Over, Unwatched
<1>5. Others(a)
  BY <1>1, <1>2 DEF Kinds, Others, Over, Unwatched
<1>6. ASSUME a \in Projects PROVE OfProject(a)'
  <2>1. OfProject(a)
    BY <1>6 DEF EngineInvariant
  <2>2. Dated(a)' /\ Captured(a)' /\ Chosen(a)' /\ Identified(a)' /\ Undone(a)'
    BY <1>2, <2>1 DEF OfProject, Dated, Captured, Chosen, Identified, Undone
  <2>3. Supported(a)'
    BY <1>2, <1>3, <2>1 DEF OfProject, Supported, Watches, Looking, Running, Settled
  <2>4. QED
    BY <2>2, <2>3 DEF OfProject
<1>7. ASSUME a = Reviewer PROVE Shown'
  <2>1. CASE at[a] \in Looking
    BY <1>1, <1>2, <1>3, <1>7, <2>1 DEF Shown, Running, Looking, Settled
  <2>2. CASE at[a] \notin Looking
    <3>1. steady'[a] = FALSE
      BY <1>1, <1>2, <2>2 DEF Over, Unwatched, Kinds
    <3>2. QED
      BY <1>1, <1>2, <1>3, <1>7, <2>2, <3>1 DEF Shown, Looking, Settled
  <2>3. QED
    BY <2>1, <2>2
<1>8. QED
  BY <1>2, <1>4, <1>5, <1>6, <1>7, OwnStep

-----------------------------------------------------------------------------
(* The user of engine stop.                                                *)

\* What the reviewer does says nothing of the projects.
LEMMA ReviewStep ==
  ASSUME EngineInvariant, NEW w, at' = [at EXCEPT ![Reviewer] = w],
         NEW m \in Memories, mem' = [mem EXCEPT ![Reviewer] = m],
         UNCHANGED <<vm, boots, box, starts, mine, receipt, locks, tool>>,
         NEW s \in SUBSET Projects, since' = [since EXCEPT ![Reviewer] = s],
         NEW d \in BOOLEAN, steady' = [steady EXCEPT ![Reviewer] = d],
         locks' \subseteq joined', Shown'
  PROVE  EngineInvariant'
<1>1. Reviewer \in Actors /\ Reviewer \notin Projects
  BY EngineAssumption DEF Actors
<1>2. Kinds
  BY DEF EngineInvariant
<1>3. Kinds'
  BY <1>1, <1>2 DEF Kinds
<1>4. Others(Reviewer)
  BY <1>1, <1>2, Places DEF Others, Kinds
<1>5. QED
  BY <1>1, <1>3, <1>4, OwnStep

LEMMA EngineStopKeeps ==
  ASSUME EngineInvariant, EngineStop \/ ToolReturns(Reviewer)
  PROVE  EngineInvariant'
<1> USE DEF Go, Step, Remember, engine, coordination, looks, bounds
<1> DEFINE r == Reviewer
<1>1. r \in Actors
  BY DEF Actors
<1>2. Kinds /\ Shown /\ locks \subseteq joined
  BY DEF EngineInvariant
<1>3. /\ mem[r] \in Memories /\ mem = [mem EXCEPT ![r] = mem[r]]
      /\ since[r] \in SUBSET Projects /\ since = [since EXCEPT ![r] = since[r]]
      /\ steady[r] \in BOOLEAN /\ steady = [steady EXCEPT ![r] = steady[r]]
      /\ vm \in Nat /\ Nothing \in Memories
  BY <1>1, <1>2 DEF Kinds, Nothing, Memories, NoBox, Containers
\* Places at which nothing is claimed of the review.
<1>4. ASSUME NEW w, at' = [at EXCEPT ![r] = w], w \notin {"qualify", "stopping"} \cup Settled
      PROVE  Shown'
  <2>1. at'[r] = w
    BY <1>1, <1>4, Places
  <2>2. QED
    BY <1>4, <2>1 DEF Shown, Settled
<1>5. CASE Review \/ ConfirmReviewed \/ ToolReturns(r)
  BY <1>2, <1>3, <1>4, <1>5, ReviewStep DEF Review, ConfirmReviewed, ToolReturns, Settled
<1>6. CASE Refuse
  <2>1. UNCHANGED joined /\ Shown' /\ at' = [at EXCEPT ![r] = "end"]
    BY <1>4, <1>6 DEF Refuse, GivenUp, Unwatched, Settled
  <2>2. CASE tool[r] = "asked"
    BY <1>2, <1>3, <1>6, <2>1, <2>2, ReviewStep DEF Refuse, GivenUp
  <2>3. CASE tool[r] # "asked"
    <3>1. /\ since' = [since EXCEPT ![r] = {}] /\ steady' = [steady EXCEPT ![r] = FALSE]
          /\ {} \in SUBSET Projects /\ FALSE \in BOOLEAN
          /\ UNCHANGED <<vm, boots, box, starts, mine, receipt, locks, tool, mem>>
      BY <1>6, <2>3 DEF Refuse, GivenUp, Unwatched
    <3>2. QED
      BY <1>2, <1>3, <2>1, <3>1, ReviewStep
  <2>4. QED
    BY <2>2, <2>3
<1>7. CASE FinishReview
  BY <1>2, <1>3, <1>4, <1>7, ReviewStep DEF FinishReview, Forget, Settled
<1>8. CASE ObserveProof
  <2>1. [mem[r] EXCEPT !.boot = vm] \in Memories
    BY <1>3 DEF Memories
  <2>2. QED
    BY <1>2, <1>3, <1>4, <1>8, <2>1, ReviewStep DEF ObserveProof, Settled
<1>9. CASE ObservePlan
  <2>1. [mem[r] EXCEPT !.impact = Impact, !.own = mem[r].boot] \in Memories
    BY <1>2, <1>3 DEF Memories, Impact, Kinds
  <2>2. QED
    BY <1>2, <1>3, <1>4, <1>9, <2>1, ReviewStep DEF ObservePlan, Settled
<1>10. CASE AcquireSlot
  <2>1. [mem[r] EXCEPT !.round = "first"] \in Memories
    BY <1>3 DEF Memories
  <2>2. QED
    BY <1>2, <1>3, <1>4, <1>10, <2>1, ReviewStep DEF AcquireSlot, Settled
<1>11. CASE ObserveFirst
  <2>1. [mem[r] EXCEPT !.round = "second"] \in Memories
    BY <1>3 DEF Memories
  <2>2. QED
    BY <1>2, <1>3, <1>4, <1>11, <2>1, ReviewStep DEF ObserveFirst, Settled
<1>12. CASE ObserveSecond
  <2>1. at'[r] = "qualify" /\ UNCHANGED mem /\ mem[r].boot = mem[r].own
    BY <1>1, <1>12, Places DEF ObserveSecond, AsReviewed
  <2>2. Shown'
    BY <2>1 DEF Shown, Settled
  <2>3. QED
    BY <1>2, <1>3, <1>12, <2>2, ReviewStep DEF ObserveSecond
<1>13. CASE FinalProof
  <2>1. at[r] = "qualify" /\ at'[r] = "again" /\ UNCHANGED <<mem, vm>> /\ vm = mem[r].boot
    BY <1>1, <1>13, Places DEF FinalProof, Qualified
  <2>2. Shown'
    BY <1>2, <2>1 DEF Shown, Settled
  <2>3. (steady[r] \/ tool[r] # "asked") \in BOOLEAN
    OBVIOUS
  <2>4. steady' = [steady EXCEPT ![r] = steady[r] \/ tool[r] # "asked"]
    BY <1>1, <1>2, <1>13 DEF FinalProof, Looked, Kinds
  <2>5. QED
    BY <1>2, <1>3, <1>13, <2>2, <2>3, <2>4, ReviewStep DEF FinalProof, Looked
<1>14. CASE FinalCoordination
  <2>1. at[r] = "again" /\ at'[r] = "final" /\ UNCHANGED <<mem, vm, steady>>
    BY <1>1, <1>14, Places DEF FinalCoordination
  <2>2. Shown'
    BY <1>2, <2>1 DEF Shown, Settled
  <2>3. locks' \subseteq joined'
    BY <1>14 DEF FinalCoordination, Alone
  <2>4. QED
    BY <1>3, <1>14, <2>2, <2>3, ReviewStep DEF FinalCoordination
<1>15. CASE FinalImpact
  <2>1. /\ at[r] = "final" /\ at'[r] = "dispatch"
        /\ UNCHANGED <<mem, vm, steady, box>> /\ box = mem[r].impact
    BY <1>1, <1>15, Places DEF FinalImpact, Impact
  <2>2. Shown'
    BY <1>2, <2>1 DEF Shown, Settled, Running
  <2>3. \E s \in SUBSET Projects : since' = [since EXCEPT ![r] = s]
    BY <1>3, <1>15 DEF FinalImpact, SawContainers
  <2>4. QED
    BY <1>2, <1>3, <1>15, <2>2, <2>3, ReviewStep DEF FinalImpact, SawContainers
<1>16. QED
  BY <1>5, <1>6, <1>7, <1>8, <1>9, <1>10, <1>11, <1>12, <1>13, <1>14, <1>15 DEF EngineStop

-----------------------------------------------------------------------------
(* The machine.                                                            *)

\* One container comes up, is stopped or removed, or the engine comes up with or
\* without one; a command that does it goes on to a place at which nothing is
\* claimed, or stays where it is.
StartedAs(q) ==
  /\ box'[q].run /\ box'[q].at = starts + 1
  /\ (box'[q].id = box[q].id /\ box[q].id # 0) \/ box'[q].id = starts + 1
StoppedOrGone(q) ==
  /\ ~box'[q].run
  /\ (box'[q].id = box[q].id /\ box'[q].at = box[q].at) \/ box'[q] = NoBox
Free(b, w) == w \notin Bound \/ (w = "verify" /\ mem[b].chosen.id # 0)
Stays(b) == at'[b] = at[b] \/ (Free(b, at'[b]) /\ at[b] \notin Looking)

LEMMA MachineStep ==
  ASSUME EngineInvariant, Kinds',
         UNCHANGED <<mem, receipt, tool, locks, joined>>,
         \A b \in Actors : Stays(b), at'[Reviewer] = at[Reviewer],
         \/ UNCHANGED <<vm, boots, steady>>
         \/ vm' = boots + 1 /\ boots' = boots + 1 /\ \A b \in Actors : ~steady'[b],
         starts' >= starts,
         \A q \in Projects : /\ box'[q] # box[q] => \/ StartedAs(q) /\ starts' = starts + 1
                                                    \/ StoppedOrGone(q)
                             /\ q \in mine' /\ at'[q] = "failed" =>
                                  (q \in mine /\ box'[q] = box[q]) \/ ~box'[q].run,
         \A b \in Actors : Watches(b) =>
           since[b] \cup {q \in Projects : box'[q].run /\ box'[q] # box[q]} \subseteq since'[b]
  PROVE  EngineInvariant'
<1>1. Kinds /\ Shown /\ locks \subseteq joined /\ \A p \in Projects : OfProject(p)
  BY DEF EngineInvariant
<1>2. boots \in Nat /\ vm \in Nat /\ starts \in Nat /\ starts' \in Nat
  BY <1>1 DEF Kinds
<1>3. Reviewer \in Actors /\ Projects \subseteq Actors
  BY DEF Actors
<1>4. \A b \in Actors : Watches(b) => Running' \ since'[b] \subseteq Running \ since[b]
  BY DEF Running
<1>5. Shown'
  <2>1. at[Reviewer] = "dispatch" \/ (at[Reviewer] = "stopping" /\ tool[Reviewer] = "asked")
          => Watches(Reviewer)
    BY DEF Watches, Looking
  <2>2. \A p \in Projects : Watches(Reviewer) /\ p \in Running' \ since'[Reviewer] =>
          box'[p] = box[p]
    BY <1>3 DEF Running
  <2>3. QED
    BY <1>1, <1>3, <1>4, <2>1, <2>2 DEF Shown, Running
<1>6. ASSUME NEW p \in Projects PROVE OfProject(p)'
  <2>1. OfProject(p)
    BY <1>1
  <2>2. /\ box[p] \in Containers /\ box'[p] \in Containers /\ receipt[p] \in Nat
        /\ mem[p] \in Memories /\ Stays(p)
    BY <1>1, <1>3, <1>6 DEF Kinds
  <2>3. box'[p] = box[p] \/ (StartedAs(p) /\ starts' = starts + 1) \/ StoppedOrGone(p)
    BY <1>6
  <2>4. Dated(p)'
    <3>1. receipt'[p] <= boots'
      BY <1>2, <2>1, <2>2 DEF OfProject, Dated
    <3>2. QED
      BY <1>2, <2>1, <2>2, <2>3, <3>1 DEF OfProject, Dated, StartedAs, StoppedOrGone, NoBox,
         Containers
  <2>5. Captured(p)'
    <3> SUFFICES ASSUME at'[p] \in Working PROVE Captured(p)'
      BY DEF Captured
    <3>1. at[p] = at'[p]
      BY <2>2 DEF Stays, Free, Bound, Working
    <3>2. /\ mem[p].before \in Containers /\ mem[p].before.at <= starts
          /\ Succeeds(box[p], mem[p].before)
      BY <2>1, <3>1 DEF OfProject, Captured
    <3>3. Succeeds(box'[p], mem[p].before)
      BY <1>2, <2>1, <2>2, <2>3, <3>2 DEF OfProject, Dated, Succeeds, StartedAs, StoppedOrGone,
         NoBox, Containers
    <3>4. QED
      BY <1>2, <3>2, <3>3 DEF Captured, Containers
  <2>6. Chosen(p)'
    <3>1. CASE at'[p] = at[p]
      <4>1. mem[p].chosen \in Containers
        BY <2>2 DEF Memories
      <4>2. QED
        BY <1>2, <2>1, <2>2, <2>3, <3>1, <4>1 DEF OfProject, Dated, Chosen, StartedAs,
           StoppedOrGone, NoBox, Containers
    <3>2. CASE at'[p] # at[p]
      BY <2>2, <3>2 DEF Stays, Free, Bound, Working, Chosen
    <3>3. QED
      BY <3>1, <3>2
  <2>7. Identified(p)'
    <3>1. mem[p].boot \in Nat
      BY <2>2 DEF Memories
    <3>2. at'[p] \in {"validate", "observe", "qualify", "retire"} \cup Settled => at[p] = at'[p]
      BY <2>2 DEF Stays, Free, Bound, Settled
    <3>3. QED
      BY <1>1, <1>2, <2>1, <2>2, <3>1, <3>2 DEF OfProject, Dated, Identified, Kinds
  <2>8. Supported(p)'
    <3>1. Watches(p)' => Watches(p)
      BY <2>2 DEF Watches, Stays, Free, Bound, Looking, Settled
    <3>2. Watches(p)' => Running' \subseteq since'[p]
      BY <1>3, <1>4, <2>1, <3>1 DEF OfProject, Supported
    <3>3. at'[p] \in Settled => at[p] = at'[p]
      BY <2>2 DEF Stays, Free, Bound, Settled
    <3>4. QED
      BY <1>3, <2>1, <3>2, <3>3 DEF OfProject, Supported
  <2>9. Undone(p)'
    <3> SUFFICES ASSUME at'[p] = "failed", p \in mine', box'[p].run
                 PROVE  mem'[p].before.run
      BY DEF Undone
    <3>1. at[p] = "failed"
      BY <2>2 DEF Stays, Free, Bound
    <3>2. QED
      BY <1>6, <2>1, <3>1 DEF OfProject, Undone
  <2>10. QED
    BY <2>4, <2>5, <2>6, <2>7, <2>8, <2>9 DEF OfProject
<1>7. QED
  BY <1>1, <1>5, <1>6 DEF EngineInvariant

\* Starts, of the container of q, by an actor that stays or has nothing claimed.
LEMMA StartsKeep ==
  ASSUME EngineInvariant, NEW q \in Projects, NEW own \in BOOLEAN,
         \/ Starts(q, box[q].id, own) /\ box[q].id # 0
         \/ Starts(q, starts + 1, own) /\ box[q].id = 0,
         own => at[q] \in {"work", "verify"},
         UNCHANGED <<mem, receipt, tool, locks, joined>>,
         \/ UNCHANGED at
         \/ \E p \in Projects, w \in {"receipt", "end"} :
              at[p] = "boot" /\ at' = [at EXCEPT ![p] = w],
         \/ UNCHANGED <<vm, boots, steady>>
         \/ vm' = boots + 1 /\ boots' = boots + 1 /\ steady' = [a \in Actors |-> FALSE]
  PROVE  EngineInvariant'
<1>1. Kinds /\ Reviewer \notin Projects /\ Reviewer \in Actors /\ Projects \subseteq Actors
  BY EngineAssumption DEF EngineInvariant, Actors
<1>2. PICK i \in {box[q].id, starts + 1} :
        /\ (i = box[q].id /\ i # 0) \/ i = starts + 1
        /\ Starts(q, i, own)
  OBVIOUS
<1>3. /\ starts' = starts + 1 /\ starts \in Nat /\ i \in Nat
      /\ box' = [box EXCEPT ![q] = [id |-> i, run |-> TRUE, at |-> starts + 1]]
      /\ since' = [a \in Actors |-> IF Watches(a) THEN since[a] \cup {q} ELSE {}]
      /\ mine' = IF own THEN mine \cup {q} ELSE mine \ {q}
  BY <1>1, <1>2 DEF Starts, Kinds, Containers
<1>4. /\ box'[q] = [id |-> i, run |-> TRUE, at |-> starts + 1]
      /\ \A p \in Projects \ {q} : box'[p] = box[p]
  BY <1>1, <1>3 DEF Kinds
<1>5. Kinds'
  <2>1. box' \in [Projects -> Containers] /\ starts' \in Nat
    BY <1>1, <1>3 DEF Kinds, Containers
  <2>2. since' \in [Actors -> SUBSET Projects]
    BY <1>1, <1>3 DEF Kinds
  <2>3. boots' \in Nat /\ vm' \in {0, boots'} /\ steady' \in [Actors -> BOOLEAN]
    <3>1. CASE UNCHANGED <<vm, boots, steady>>
      BY <1>1, <3>1 DEF Kinds
    <3>2. CASE vm' = boots + 1 /\ boots' = boots + 1 /\ steady' = [a \in Actors |-> FALSE]
      BY <1>1, <3>2 DEF Kinds
    <3>3. QED
      BY <3>1, <3>2
  <2>4. at' = [a \in Actors |-> at'[a]]
    BY <1>1 DEF Kinds
  <2>5. QED
    BY <1>1, <2>1, <2>2, <2>3, <2>4 DEF Kinds
<1>6. (\A b \in Actors : Stays(b)) /\ at'[Reviewer] = at[Reviewer]
  <2>1. CASE UNCHANGED at
    BY <2>1 DEF Stays
  <2>2. CASE \E p \in Projects, w \in {"receipt", "end"} :
               at[p] = "boot" /\ at' = [at EXCEPT ![p] = w]
    <3>1. PICK p \in Projects, w \in {"receipt", "end"} :
            at[p] = "boot" /\ at' = [at EXCEPT ![p] = w]
      BY <2>2
    <3>2. at'[p] = w /\ \A b \in Actors \ {p} : at'[b] = at[b]
      BY <1>1, <3>1, Places
    <3>3. QED
      BY <1>1, <3>1, <3>2 DEF Stays, Free, Bound, Working, Settled, Looking
  <2>3. QED
    BY <2>1, <2>2
<1>7. StartedAs(q)
  BY <1>2, <1>4 DEF StartedAs
<1>8. ASSUME NEW p \in Projects
      PROVE  /\ box'[p] # box[p] => \/ StartedAs(p) /\ starts' = starts + 1
                                    \/ StoppedOrGone(p)
             /\ p \in mine' /\ at'[p] = "failed" =>
                  (p \in mine /\ box'[p] = box[p]) \/ ~box'[p].run
  <2>1. at'[p] = "failed" => at[p] = "failed"
    BY <1>1, <1>6, <1>8 DEF Stays, Free, Bound
  <2>2. QED
    BY <1>3, <1>4, <1>7, <2>1
<1>9. \A b \in Actors : Watches(b) =>
        since[b] \cup {p \in Projects : box'[p].run /\ box'[p] # box[p]} \subseteq since'[b]
  BY <1>3, <1>4
<1>10. \/ UNCHANGED <<vm, boots, steady>>
       \/ vm' = boots + 1 /\ boots' = boots + 1 /\ \A b \in Actors : ~steady'[b]
  OBVIOUS
<1>11. starts' >= starts
  BY <1>3
<1>12. QED
  BY <1>5, <1>6, <1>8, <1>9, <1>10, <1>11, MachineStep

\* A step that stops or removes the container of q, and does not start any.
LEMMA StopsKeep ==
  ASSUME EngineInvariant, NEW q \in Projects, NEW c \in {[box[q] EXCEPT !.run = FALSE], NoBox},
         box' = [box EXCEPT ![q] = c], mine' \subseteq mine,
         UNCHANGED <<vm, boots, starts, mem, receipt, tool, locks, looks>>,
         UNCHANGED at \/ \E w : /\ at' = [at EXCEPT ![q] = w] /\ Free(q, w)
                                /\ at[q] \notin Looking
  PROVE  EngineInvariant'
<1>1. Kinds /\ Reviewer \notin Projects /\ Reviewer \in Actors /\ Projects \subseteq Actors
  BY EngineAssumption DEF EngineInvariant, Actors
<1>2. c \in Containers /\ ~c.run /\ ((c.id = box[q].id /\ c.at = box[q].at) \/ c = NoBox)
  <2>1. NoBox \in Containers /\ ~NoBox.run
    BY DEF NoBox, Containers
  <2>2. box[q] \in Containers
    BY <1>1 DEF Kinds
  <2>3. CASE c = [box[q] EXCEPT !.run = FALSE]
    BY <2>2, <2>3 DEF Containers
  <2>4. QED
    BY <2>1, <2>3
<1>3. box'[q] = c /\ \A p \in Projects \ {q} : box'[p] = box[p]
  BY <1>1 DEF Kinds
<1>4. Kinds'
  <2>1. box' \in [Projects -> Containers]
    BY <1>1, <1>2 DEF Kinds
  <2>2. at' = [a \in Actors |-> at'[a]]
    BY <1>1 DEF Kinds
  <2>3. QED
    BY <1>1, <2>1, <2>2 DEF Kinds, looks
<1>5. (\A b \in Actors : Stays(b)) /\ at'[Reviewer] = at[Reviewer]
  <2>1. CASE UNCHANGED at
    BY <2>1 DEF Stays
  <2>2. CASE \E w : /\ at' = [at EXCEPT ![q] = w] /\ Free(q, w)
                    /\ at[q] \notin Looking
    <3>1. PICK w : at' = [at EXCEPT ![q] = w] /\ Free(q, w) /\ at[q] \notin Looking
      BY <2>2
    <3>2. at'[q] = w /\ \A b \in Actors \ {q} : at'[b] = at[b]
      BY <1>1, <3>1, Places
    <3>3. QED
      BY <1>1, <3>1, <3>2 DEF Stays
  <2>3. QED
    BY <2>1, <2>2
<1>6. StoppedOrGone(q)
  BY <1>2, <1>3 DEF StoppedOrGone
<1>7. \A p \in Projects :
        /\ box'[p] # box[p] => \/ StartedAs(p) /\ starts' = starts + 1
                               \/ StoppedOrGone(p)
        /\ p \in mine' /\ at'[p] = "failed" => (p \in mine /\ box'[p] = box[p]) \/ ~box'[p].run
  BY <1>2, <1>3, <1>6
<1>8. \A b \in Actors : Watches(b) =>
        since[b] \cup {p \in Projects : box'[p].run /\ box'[p] # box[p]} \subseteq since'[b]
  BY <1>2, <1>3 DEF looks
<1>9. starts' >= starts
  BY <1>1 DEF Kinds
<1>10. QED
  BY <1>4, <1>5, <1>7, <1>8, <1>9, MachineStep DEF looks

\* Everything goes down.
LEMMA DownKeeps ==
  ASSUME EngineInvariant, Kinds', Down, UNCHANGED <<at, mem, receipt, locks, joined>>
  PROVE  EngineInvariant'
<1>1. Kinds /\ Shown /\ locks \subseteq joined /\ \A p \in Projects : OfProject(p)
  BY DEF EngineInvariant
<1>2. \A p \in Projects : box'[p].id = box[p].id /\ box'[p].at = box[p].at /\ ~box'[p].run
  BY <1>1 DEF Kinds, Containers, Down
<1>3. Running' = {} /\ vm' = 0 /\ UNCHANGED <<boots, starts>> /\ mine' = {}
  BY <1>2 DEF Running, Down
<1>4. Shown'
  BY <1>1, <1>3 DEF Shown
<1>5. ASSUME NEW p \in Projects PROVE OfProject(p)'
  <2>1. OfProject(p)
    BY <1>1
  <2>2. Dated(p)' /\ Captured(p)' /\ Chosen(p)' /\ Identified(p)' /\ Undone(p)'
    BY <1>2, <1>3, <2>1 DEF OfProject, Dated, Captured, Succeeds, Chosen, Identified, Undone
  <2>3. Supported(p)'
    BY <1>3 DEF Supported
  <2>4. QED
    BY <2>2, <2>3 DEF OfProject
<1>6. QED
  BY <1>1, <1>4, <1>5 DEF EngineInvariant

\* The engine comes up, with at most one container.
LEMMA BootsKeep ==
  ASSUME EngineInvariant, Boots,
         UNCHANGED <<mem, receipt, tool, locks, joined>>,
         \/ UNCHANGED at
         \/ \E p \in Projects, w \in {"receipt", "end"} :
              at[p] = "boot" /\ at' = [at EXCEPT ![p] = w]
  PROVE  EngineInvariant'
<1>1. Kinds /\ Reviewer \notin Projects /\ Reviewer \in Actors /\ Projects \subseteq Actors
  BY EngineAssumption DEF EngineInvariant, Actors
<1>2. vm' = boots + 1 /\ boots' = boots + 1 /\ steady' = [a \in Actors |-> FALSE]
  BY DEF Boots
<1>3. CASE UNCHANGED <<box, starts, since, mine>>
  <2>1. Kinds'
    BY <1>1, <1>2, <1>3 DEF Kinds
  <2>2. (\A b \in Actors : Stays(b)) /\ at'[Reviewer] = at[Reviewer]
    <3>1. CASE UNCHANGED at
      BY <3>1 DEF Stays
    <3>2. CASE ~UNCHANGED at
      <4>1. PICK p \in Projects, w \in {"receipt", "end"} :
              at[p] = "boot" /\ at' = [at EXCEPT ![p] = w]
        BY <3>2
      <4>2. at'[p] = w /\ \A b \in Actors \ {p} : at'[b] = at[b]
        BY <1>1, <4>1, Places
      <4>3. QED
        BY <1>1, <4>1, <4>2 DEF Stays, Free, Bound, Working, Settled, Looking
    <3>3. QED
      BY <3>1, <3>2
  <2>3. \A b \in Actors : Watches(b) =>
          since[b] \cup {p \in Projects : box'[p].run /\ box'[p] # box[p]} \subseteq since'[b]
    BY <1>3
  <2>4. starts' >= starts
    BY <1>1, <1>3 DEF Kinds
  <2>5. QED
    BY <1>2, <1>3, <2>1, <2>2, <2>3, <2>4, MachineStep
<1>4. ASSUME NEW q \in Projects, box[q].id # 0, Starts(q, box[q].id, FALSE)
      PROVE  EngineInvariant'
  BY <1>2, <1>4, StartsKeep
<1>5. QED
  BY <1>3, <1>4 DEF Boots

LEMMA ContainerStepsKeep ==
  ASSUME EngineInvariant, NEW p \in Projects,
         \/ Boot(p) \/ Remove(p) \/ Run(p) \/ Halt(p) \/ Resume(p) \/ StopContainer(p)
  PROVE  EngineInvariant'
<1> USE DEF Go, engine, coordination, looks, bounds
<1>1. Kinds /\ locks \subseteq joined
  BY DEF EngineInvariant
<1>2. CASE Boot(p)
  <2>1. CASE Boots /\ (Go(p, "receipt") \/ Go(p, "end"))
    BY <1>2, <2>1, BootsKeep DEF Boot
  <2>2. CASE (Go(p, "receipt") \/ Go(p, "end")) /\ UNCHANGED <<engine, since, steady>>
    BY <1>1, <1>2, <2>2, Passes DEF Boot, Bound, Working, Settled
  <2>3. QED
    BY <1>2, <2>1, <2>2 DEF Boot
<1>3. CASE Remove(p)
  BY <1>3, StopsKeep DEF Remove
<1>4. CASE Run(p)
  BY <1>4, StartsKeep DEF Run
<1>5. CASE Resume(p)
  <2>1. OfProject(p)
    BY DEF EngineInvariant
  <2>2. box[p].id # 0
    BY <1>5, <2>1 DEF OfProject, Chosen, Resume
  <2>3. QED
    BY <1>5, <2>2, StartsKeep DEF Resume
<1>6. CASE Halt(p)
  <2>1. CASE Go(p, "end") /\ UNCHANGED box
    BY <1>1, <1>6, <2>1, Passes DEF Halt, Bound, Working, Settled
  <2>2. CASE box' = [box EXCEPT ![p].run = FALSE] /\ (Go(p, "verify") \/ Go(p, "end"))
    <3>1. box' = [box EXCEPT ![p] = [box[p] EXCEPT !.run = FALSE]]
      BY <1>1, <2>2 DEF Kinds
    <3>2. at[p] \notin Looking /\ Free(p, "verify") /\ Free(p, "end")
      <4>1. OfProject(p)
        BY DEF EngineInvariant
      <4>2. QED
        BY <1>6, <4>1 DEF Halt, OfProject, Chosen, Free, Looking, Bound, Working, Settled
    <3>3. QED
      BY <1>6, <2>2, <3>1, <3>2, StopsKeep DEF Halt
  <2>3. QED
    BY <1>6, <2>1, <2>2 DEF Halt
<1>7. CASE StopContainer(p)
  <2>1. CASE Go(p, "end") /\ UNCHANGED box
    BY <1>1, <1>7, <2>1, Passes DEF StopContainer, Bound, Working, Settled
  <2>2. CASE box' = [box EXCEPT ![p].run = FALSE]
             /\ Go(p, IF p \in Idle THEN "identify" ELSE "end")
    <3>1. box' = [box EXCEPT ![p] = [box[p] EXCEPT !.run = FALSE]]
      BY <1>1, <2>2 DEF Kinds
    <3>2. at[p] \notin Looking /\ Free(p, "identify") /\ Free(p, "end")
      BY <1>7 DEF StopContainer, Free, Looking, Bound, Working, Settled
    <3>3. QED
      BY <1>7, <2>2, <3>1, <3>2, StopsKeep DEF StopContainer
  <2>3. QED
    BY <1>7, <2>1, <2>2 DEF StopContainer
<1>8. QED
  BY <1>2, <1>3, <1>4, <1>5, <1>6, <1>7

LEMMA MeddleKeeps ==
  ASSUME EngineInvariant, Meddle
  PROVE  EngineInvariant'
<1> USE DEF coordination, bounds
<1>1. Kinds
  BY DEF EngineInvariant
<1>2. UNCHANGED <<receipt, locks, at, mem, tool, joined>>
  BY DEF Meddle
<1>3. CASE Boots
  BY <1>2, <1>3, BootsKeep
<1>4. CASE Down /\ UNCHANGED <<since, steady>>
  <2>1. Kinds'
    BY <1>1, <1>2, <1>4 DEF Kinds, Down, Containers
  <2>2. QED
    BY <1>2, <1>4, <2>1, DownKeeps
<1>5. ASSUME NEW p \in Projects, UNCHANGED <<vm, boots, steady>>,
             Starts(p, IF box[p].id = 0 THEN starts + 1 ELSE box[p].id, FALSE)
      PROVE  EngineInvariant'
  BY <1>2, <1>5, StartsKeep
<1>6. ASSUME NEW p \in Projects, UNCHANGED <<vm, boots, steady>>,
             box' = [box EXCEPT ![p].run = FALSE], UNCHANGED <<starts, since, mine>>
      PROVE  EngineInvariant'
  <2>1. box' = [box EXCEPT ![p] = [box[p] EXCEPT !.run = FALSE]]
    BY <1>1, <1>6 DEF Kinds
  <2>2. QED
    BY <1>2, <1>6, <2>1, StopsKeep DEF looks
<1>7. QED
  BY <1>3, <1>4, <1>5, <1>6 DEF Meddle

LEMMA TakeDownKeeps ==
  ASSUME EngineInvariant, NEW a \in Actors, TakeDown(a)
  PROVE  EngineInvariant'
<1>1. CASE vm = 0
  BY <1>1, FutileKeeps
<1>2. CASE vm # 0
  <2>1. /\ Kinds /\ Down /\ UNCHANGED <<at, mem, receipt, locks, joined>>
        /\ tool' = [tool EXCEPT ![a] = "none"] /\ Over(a)
    BY <1>2 DEF EngineInvariant, TakeDown, Over, Unwatched, coordination, looks
  <2>2. Kinds'
    <3>1. box' \in [Projects -> Containers]
      BY <2>1 DEF Kinds, Down, Containers
    <3>2. since' \in [Actors -> SUBSET Projects] /\ steady' \in [Actors -> BOOLEAN]
      BY <2>1 DEF Kinds, Over, Unwatched, looks
    <3>3. tool' = [b \in Actors |-> tool'[b]]
      BY <2>1 DEF Kinds
    <3>4. QED
      BY <2>1, <3>1, <3>2, <3>3 DEF Kinds, Down
  <2>3. QED
    BY <2>1, <2>2, DownKeeps
<1>3. QED
  BY <1>1, <1>2

-----------------------------------------------------------------------------

LEMMA EngineInitKeeps ==
  ASSUME EngineInit
  PROVE  EngineInvariant
<1> USE DEF EngineInit
<1>1. NoBox \in Containers /\ Nothing \in Memories
  BY DEF NoBox, Nothing, Containers, Memories
<1>2. Kinds
  BY <1>1 DEF Kinds, Actors
<1>3. Reviewer \in Actors /\ Projects \subseteq Actors
  BY DEF Actors
<1>4. Shown
  BY <1>3 DEF Shown, Settled
<1>5. \A p \in Projects : OfProject(p)
  BY <1>3 DEF OfProject, Dated, Captured, Chosen, Identified, Supported, Undone, Watches,
     Looking, Working, Settled, NoBox, Running
<1>6. QED
  BY <1>2, <1>4, <1>5 DEF EngineInvariant

LEMMA StutterKeeps ==
  ASSUME EngineInvariant, UNCHANGED engineVars
  PROVE  EngineInvariant'
<1> USE DEF engineVars, engine, coordination, looks, bounds
<1>1. Kinds' /\ Shown' /\ (locks \subseteq joined)'
  BY DEF EngineInvariant, Kinds, Shown, Running
<1>2. ASSUME NEW p \in Projects PROVE OfProject(p)'
  <2>1. OfProject(p)
    BY DEF EngineInvariant
  <2>2. Dated(p)' /\ Captured(p)' /\ Chosen(p)' /\ Identified(p)' /\ Undone(p)'
    BY <2>1 DEF OfProject, Dated, Captured, Chosen, Identified, Undone
  <2>3. Supported(p)'
    BY <2>1 DEF OfProject, Supported, Watches, Running
  <2>4. QED
    BY <2>2, <2>3 DEF OfProject
<1>3. QED
  BY <1>1, <1>2 DEF EngineInvariant

LEMMA EngineKeeps ==
  ASSUME EngineInvariant, [EngineNext]_engineVars
  PROVE  EngineInvariant'
<1>1. ASSUME NEW p \in Projects,
             BeginCommand(p) \/ Admit(p) \/ FinishCommand(p) \/ Kill(p)
      PROVE  EngineInvariant'
  BY <1>1, PassingSteps
<1>2. ASSUME NEW p \in Projects, Start(p) PROVE EngineInvariant'
  BY <1>2, PassingSteps, WriteReceiptKeeps, CaptureKeeps, CleanupKeeps, VerifyKeeps,
     ContainerStepsKeep DEF Start
<1>3. ASSUME NEW p \in Projects, ReleaseWhenIdle(p) PROVE EngineInvariant'
  BY <1>3, PassingSteps, ReleaseKeeps, RetirementKeeps, ContainerStepsKeep
     DEF ReleaseWhenIdle
<1>4. ASSUME NEW a \in Actors, Dispatch(a) \/ TakeDown(a) \/ ToolFails(a)
      PROVE  EngineInvariant'
  BY <1>4, DispatchKeeps, TakeDownKeeps, FutileKeeps
<1>5. ASSUME NEW a \in Actors, ToolReturns(a) PROVE EngineInvariant'
  BY <1>5, PassingSteps, EngineStopKeeps DEF Actors
<1>6. CASE EngineStop
  BY <1>6, EngineStopKeeps
<1>7. CASE Meddle
  BY <1>7, MeddleKeeps
<1>8. CASE UNCHANGED engineVars
  BY <1>8, StutterKeeps
<1>9. QED
  BY <1>1, <1>2, <1>3, <1>4, <1>5, <1>6, <1>7, <1>8 DEF EngineNext

THEOREM EngineInvariantHolds == EngineSpec => []EngineInvariant
<1>1. EngineInit => EngineInvariant
  BY EngineInitKeeps
<1>2. EngineInvariant /\ [EngineNext]_engineVars => EngineInvariant'
  BY EngineKeeps
<1>3. QED
  BY <1>1, <1>2, PTL DEF EngineSpec

\* Only two actions change a receipt.
LEMMA WhoChangesReceipts ==
  ASSUME EngineInvariant, [EngineNext]_engineVars, NEW p \in Projects,
         receipt'[p] # receipt[p]
  PROVE  WriteReceipt(p) \/ RetireReceipt(p)
<1> USE DEF engineVars, engine, coordination, looks, bounds
<1>1. receipt \in [Projects -> Nat]
  BY DEF EngineInvariant, Kinds
<1>2. ASSUME NEW q \in Projects, WriteReceipt(q) \/ RetireReceipt(q) PROVE q = p
  <2>1. \E r : receipt' = [receipt EXCEPT ![q] = r]
    BY <1>1, <1>2 DEF WriteReceipt, RetireReceipt
  <2>2. QED
    BY <1>1, <2>1
<1>3. ASSUME NEW q \in Projects,
             BeginCommand(q) \/ Admit(q) \/ FinishCommand(q) \/ Kill(q)
      PROVE  UNCHANGED receipt
  BY <1>3 DEF BeginCommand, Admit, FinishCommand, Kill
<1>4. ASSUME NEW q \in Projects, Start(q), ~WriteReceipt(q) PROVE UNCHANGED receipt
  BY <1>4 DEF Start, Probe, Claim, Boot, Capture, Remove, Run, Started, WorkFails, Select,
     RecheckChosen, Halt, Resume, Verify
<1>5. ASSUME NEW q \in Projects, ReleaseWhenIdle(q), ~RetireReceipt(q)
      PROVE  UNCHANGED receipt
  BY <1>5 DEF ReleaseWhenIdle, StopContainer, Preserve, Identify, Validate, Observe, Qualify,
     Again, Final, ConfirmOff
<1>6. ASSUME NEW a \in Actors, Dispatch(a) \/ TakeDown(a) \/ ToolFails(a) \/ ToolReturns(a)
      PROVE  UNCHANGED receipt
  BY <1>6 DEF Dispatch, TakeDown, ToolFails, ToolReturns
<1>7. EngineStop \/ Meddle => UNCHANGED receipt
  BY DEF EngineStop, Review, ObserveProof, ObservePlan, AcquireSlot, ObserveFirst,
     ObserveSecond, FinalProof, FinalCoordination, FinalImpact, ConfirmReviewed, Refuse,
     FinishReview, Meddle
<1>8. QED
  BY <1>2, <1>3, <1>4, <1>5, <1>6, <1>7 DEF EngineNext

\* releaseOwnedColimaWhenIdle and engine stop: the engine goes down only on what
\* was proven or reviewed, and no receipt goes before the boot it names.
THEOREM EngineStopsOnProof == EngineSpec => StopsAreProven
<1> DEFINE
      Idly == \A p \in Projects :
                tool[p] = "asked" /\ TakeDown(p) /\ vm # 0 =>
                  /\ Running \subseteq since[p]
                  /\ steady[p] => receipt[p] = vm
      Lasting == \A p \in Projects :
                receipt[p] # 0 /\ receipt'[p] # receipt[p] => vm # receipt[p]
      Shut == at[Reviewer] = "stopping" /\ TakeDown(Reviewer) /\ vm # 0 =>
                /\ steady[Reviewer] => vm = mem[Reviewer].own
                /\ \A p \in Running \ since[Reviewer] : box[p] = mem[Reviewer].impact[p]
                /\ locks \subseteq joined
<1>1. EngineInvariant => Idly
  BY DEF EngineInvariant, OfProject, Supported, Watches
<1>2. EngineInvariant /\ [EngineNext]_engineVars => Lasting
  <2> SUFFICES ASSUME EngineInvariant, [EngineNext]_engineVars, NEW p \in Projects,
                      receipt[p] # 0, receipt'[p] # receipt[p]
               PROVE  vm # receipt[p]
    OBVIOUS
  <2>1. Kinds /\ OfProject(p)
    BY DEF EngineInvariant
  <2>2. CASE WriteReceipt(p)
    <3>1. receipt' = [receipt EXCEPT ![p] = vm]
      BY <2>2 DEF WriteReceipt
    <3>2. receipt'[p] = vm
      BY <2>1, <3>1 DEF Kinds
    <3>3. QED
      BY <3>2
  <2>3. CASE RetireReceipt(p)
    BY <2>1, <2>3 DEF RetireReceipt, Step, OfProject, Identified
  <2>4. QED
    BY <2>2, <2>3, WhoChangesReceipts
<1>3. EngineInvariant => Shut
  BY DEF EngineInvariant, Shown, TakeDown
<1>4. QED
  BY <1>1, <1>2, <1>3, EngineInvariantHolds, PTL
     DEF EngineSpec, StopsAreProven, IdleStopIsProven, ReceiptOutlivesBoot, ReviewedStop

\* Only its own command, or the end of it, moves a project on from a place.
LEMMA WhoEndsHalt ==
  ASSUME EngineInvariant, [EngineNext]_engineVars, NEW p \in Projects,
         at[p] = "halt", at'[p] # "halt"
  PROVE  Halt(p) \/ Kill(p)
<1> USE DEF engineVars, engine, coordination, looks, bounds, Go, Step
<1>1. p \in Actors /\ p # Reviewer
  BY EngineAssumption DEF Actors
<1>2. ASSUME NEW a \in Actors, NEW w, at' = [at EXCEPT ![a] = w] PROVE a = p
  BY <1>1, <1>2, Places
<1>3. Projects \subseteq Actors /\ Reviewer \in Actors
  BY DEF Actors
<1>4. ASSUME NEW q \in Projects, BeginCommand(q) \/ Admit(q) \/ FinishCommand(q)
      PROVE  FALSE
  BY <1>2, <1>3, <1>4 DEF BeginCommand, Admit, FinishCommand, Ends
<1>5. ASSUME NEW q \in Projects, Kill(q) PROVE q = p
  BY <1>2, <1>3, <1>5 DEF Kill
<1>6. ASSUME NEW q \in Projects, Start(q) PROVE Halt(p)
  BY <1>2, <1>3, <1>6 DEF Start, Probe, Claim, Boot, WriteReceipt, Capture, Remove, Run,
     Started, WorkFails, Select, RecheckChosen, Halt, Resume, Verify
<1>7. ASSUME NEW q \in Projects, ReleaseWhenIdle(q) PROVE FALSE
  BY <1>2, <1>3, <1>7 DEF ReleaseWhenIdle, StopContainer, Preserve, Identify, Validate,
     Observe, Qualify, Again, Final, ConfirmOff, RetireReceipt
<1>8. ASSUME NEW a \in Actors, Dispatch(a) \/ TakeDown(a) \/ ToolFails(a) \/ ToolReturns(a)
      PROVE  FALSE
  BY <1>2, <1>8 DEF Dispatch, TakeDown, ToolFails, ToolReturns
<1>9. EngineStop \/ Meddle => FALSE
  BY <1>1, <1>2, <1>3 DEF EngineStop, Review, ObserveProof, ObservePlan, AcquireSlot,
     ObserveFirst, ObserveSecond, FinalProof, FinalCoordination, FinalImpact,
     ConfirmReviewed, Refuse, FinishReview, Meddle
<1>10. QED
  BY <1>4, <1>5, <1>6, <1>7, <1>8, <1>9 DEF EngineNext

\* withRuntimeStartupCleanup: a failed startup that reports nothing retained has
\* left nothing running that it started, and has stopped nothing that ran before.
THEOREM CleanupTakesItsOwn == EngineSpec => CleanupIsExact
<1> DEFINE
      Spared == \A p \in Projects :
        at[p] = "halt" /\ box[p].run /\ ~box'[p].run /\ vm' = vm /\ at'[p] # "halt" =>
          ~mem[p].before.run /\ box[p].at > mem[p].before.at
<1>1. EngineInvariant => FailedStartUndone
  BY DEF EngineInvariant, OfProject, Undone, FailedStartUndone
<1>2. EngineInvariant /\ [EngineNext]_engineVars => Spared
  <2> SUFFICES ASSUME EngineInvariant, [EngineNext]_engineVars, NEW p \in Projects,
                      at[p] = "halt", box[p].run, ~box'[p].run, at'[p] # "halt"
               PROVE  ~mem[p].before.run /\ box[p].at > mem[p].before.at
    OBVIOUS
  <2>1. Kinds /\ OfProject(p)
    BY DEF EngineInvariant
  <2>2. Halt(p)
    BY WhoEndsHalt DEF Kill
  <2>3. box[p].id = mem[p].chosen.id
    BY <2>2 DEF Halt
  <2>4. /\ ~mem[p].before.run /\ mem[p].chosen.at > mem[p].before.at
        /\ box[p].at >= mem[p].chosen.at /\ mem[p].before \in Containers
    BY <2>1, <2>3 DEF OfProject, Captured, Chosen, Working
  <2>5. box[p].at \in Nat /\ mem[p].chosen.at \in Nat /\ mem[p].before.at \in Nat
    BY <2>1, <2>4 DEF Kinds, Memories, Containers, Actors
  <2>6. QED
    BY <2>4, <2>5
<1>3. QED
  BY <1>1, <1>2, EngineInvariantHolds, PTL
     DEF EngineSpec, CleanupIsExact, RunningBeforeKept

=============================================================================
