----------------------------- MODULE ResourceProofs -----------------------------
(***************************************************************************)
(* What the two models of runtime/resources keep, RestoreCache and         *)
(* SharedDocker.                                                           *)
(*                                                                         *)
(* For any finite set of restores, any baselines, sizes, budget and number *)
(* of disturbances, the inductive invariant Inv says three things of each  *)
(* restore (Own): whatever it has let through a check is the reviewed text *)
(* (Sound), as long as nobody interfered with it every check turns out in  *)
(* its favour (Calm), and so it fails only when somebody did (Spared).     *)
(* Restores meet in the cache only, where a number tells whose lock and    *)
(* whose temporary files are whose (Distinct); Local is what a step of one *)
(* leaves to the others, and OthersKeep that this is enough for them.      *)
(*                                                                         *)
(* For any containers, volumes, tags, labels and policies, and any number  *)
(* of events, DockerInvariant says what a command on the shared daemon     *)
(* knows at each of its stages: the plan it works on is the confirmed one, *)
(* and what its last look has shown is so still, or is among what other    *)
(* tools have changed since.  The commands share no variable with a cache. *)
(***************************************************************************)
EXTENDS RestoreCache, SharedDocker, FiniteSetTheorems, FunctionTheorems, TLAPS

Temporaries == [owner : Nat, gen : Generations, kind : {"copy", "receipt"}]

Idle == {"idle", "committed", "failed", "killed"}

\* The restore has created the writer lock and not yet removed it.
Locked == {"key", "encode", "write-copy", "write-receipt", "place-copy",
           "place-receipt", "clean", "unlock"}

Stages == Looks \cup Idle \cup Locked \cup {"inventory", "lock"}

\* What a restore remembers is a record with these fields.
Manager(m) ==
  m \in [run : Nat, gen : Generations \cup {None}, plain : BOOLEAN, moved : BOOLEAN,
         key : {m.key}, receipt : {m.receipt}, bytes : {m.bytes},
         opened : SUBSET Temporaries, sent : SUBSET Texts, cached : BOOLEAN,
         then : {m.then}]

Shape ==
  /\ source \in [Generations -> Texts]
  /\ receipt = [g \in Generations |-> receipt[g]]
  /\ copy = [g \in Generations |-> copy[g]]
  /\ temps \subseteq Temporaries /\ IsFiniteSet(temps)
  /\ at \in [Restores -> Stages]
  /\ my = [p \in Restores |-> my[p]] /\ \A p \in Restores : Manager(my[p])
  /\ database \in [Restores -> SUBSET Texts]
  /\ excused \in [Restores -> BOOLEAN]

\* Receipts are signed for the reviewed text only.
Signed == \A g \in Generations : receipt[g] # None => receipt[g].text = "reviewed"

\* No two restores under way have the same number.
Distinct ==
  \A p, q \in Restores : Working(p) /\ my[p].run = my[q].run => p = q

\* What passed a check is the reviewed text, and so is what is streamed without
\* one unless somebody wrote the file meanwhile.
Sound(p) ==
  /\ Working(p) <=> at[p] \notin Idle
  /\ Working(p) => my[p].gen \in Generations
  /\ \A t \in my[p].opened : t.owner = my[p].run
  /\ at[p] = "copy" => my[p].receipt.text = "reviewed"
  /\ my[p].cached => my[p].sent = {"reviewed"}
  /\ at[p] \in {"begin", "stream", "last"} => ~my[p].cached
  /\ at[p] \notin {"last", "end", "suffix"} => my[p].sent \subseteq {"reviewed"}
  /\ at[p] \in {"begin", "stream", "last", "end"} /\ my[p].plain /\ p \notin exposed =>
       source[my[p].gen] = "reviewed" /\ my[p].sent \subseteq {"reviewed"}
  /\ at[p] = "suffix" /\ p \notin exposed => my[p].sent \subseteq {"reviewed"}
  /\ at[p] \in {"clean", "unlock"} => my[p].then \in {"verify", "failed"}
  /\ p \notin exposed => database[p] \subseteq {"reviewed"}

\* A restore nobody interfered with finds every check in its favour.
Calm(p) ==
  Working(p) /\ ~excused[p] =>
    /\ ~my[p].moved /\ source[my[p].gen] = "reviewed"
    /\ my[p].sent \subseteq {"reviewed"}
    /\ at[p] \in {"last", "end"} => my[p].sent # {}
    /\ my[p].opened \subseteq temps
    /\ at[p] \in Locked => lock = my[p].run
    /\ at[p] \in {"clean", "unlock"} => my[p].then # "failed"

Spared(p) == at[p] = "failed" => excused[p]

Own(p) == Sound(p) /\ Calm(p) /\ Spared(p)

Inv == Shape /\ Signed /\ Distinct /\ \A p \in Restores : Own(p)

\* The image of a finite set.
LEMMA FiniteOwners ==
  ASSUME NEW S, IsFiniteSet(S), NEW f, f \in [S -> {f[x] : x \in S}]
  PROVE  IsFiniteSet({f[x] : x \in S})
<1> DEFINE T == {f[x] : x \in S}
<1>1. f \in Surjection(S, T)
  BY DEF Surjection
<1> QED BY <1>1, FS_Surjection

\* Only finitely many numbers are in use, so a restore can draw one that is not.
LEMMA NumberIsFresh ==
  ASSUME IsFiniteSet(temps)
  PROVE  FreshNumber \in Nat \ {0} /\ FreshNumber \notin Used
<1> DEFINE N == Cardinality(Used)
<1>1. IsFiniteSet(Used)
  <2> DEFINE run == [p \in Restores |-> my[p].run]
             owner == [t \in temps |-> t.owner]
  <2>1. IsFiniteSet({run[p] : p \in Restores})
    <3>1. IsFiniteSet(Restores)
      BY RestoreAssumption
    <3> QED BY <3>1, FiniteOwners
  <2>2. IsFiniteSet({owner[t] : t \in temps})
    BY FiniteOwners
  <2>3. IsFiniteSet({lock})
    BY FS_Singleton
  <2>4. IsFiniteSet({run[p] : p \in Restores} \cup {lock})
    BY <2>1, <2>3, FS_Union
  <2>5. Used = {run[p] : p \in Restores} \cup {lock} \cup {owner[t] : t \in temps}
    BY DEF Used
  <2> QED BY <2>2, <2>4, <2>5, FS_Union
<1>2. N \in Nat
  BY <1>1, FS_CardinalityType
<1>3. \E n \in 1 .. N + 1 : n \notin Used
  <2> SUFFICES ASSUME 1 .. N + 1 \subseteq Used PROVE FALSE
    OBVIOUS
  <2>2. Cardinality(1 .. N + 1) <= N
    BY <1>1, FS_Subset
  <2>3. Cardinality(1 .. N + 1) = N + 1
    BY <1>2, FS_Interval
  <2> QED BY <1>2, <2>2, <2>3
<1> QED BY <1>2, <1>3 DEF FreshNumber

-----------------------------------------------------------------------------

\* What a step of one restore leaves alone.
Local(p) ==
  /\ source' = source
  /\ \A q \in Restores \ {p} :
       /\ at'[q] = at[q] /\ my'[q] = my[q]
       /\ database'[q] = database[q] /\ excused'[q] = excused[q]
       /\ q \in exposed' <=> q \in exposed
  /\ \A t \in temps : t.owner # my[p].run => t \in temps'
  /\ lock' = lock \/ lock \in {None, my[p].run}

\* A step of p that is Local leaves every other restore as sound as it was.
LEMMA OthersKeep ==
  ASSUME Inv, NEW p \in Restores, Local(p), NEW q \in Restores, q # p
  PROVE  Own(q)'
<1>1. /\ at'[q] = at[q] /\ my'[q] = my[q] /\ source' = source
      /\ database'[q] = database[q] /\ excused'[q] = excused[q]
      /\ q \in exposed' <=> q \in exposed
  BY DEF Local
<1>2. Sound(q)'
  BY <1>1 DEF Inv, Own, Sound, Working
<1>3. Spared(q)'
  BY <1>1 DEF Inv, Own, Spared
<1>4. Calm(q)'
  <2> SUFFICES ASSUME Working(q), ~excused[q]
               PROVE  /\ my[q].opened \subseteq temps'
                      /\ at[q] \in Locked => lock' = my[q].run
    BY <1>1 DEF Calm, Working, Inv, Own
  <2>1. my[q].run # my[p].run
    BY DEF Inv, Distinct
  <2>2. \A t \in my[q].opened : t \in temps /\ t.owner = my[q].run
    BY DEF Inv, Own, Sound, Calm
  <2>3. my[q].opened \subseteq temps'
    BY <2>1, <2>2 DEF Local
  <2>4. ASSUME at[q] \in Locked PROVE lock' = my[q].run
    <3>1. lock = my[q].run /\ my[q].run \in Nat
      BY <2>4 DEF Inv, Own, Calm, Shape, Manager
    <3> QED BY <2>1, <3>1, RestoreAssumption DEF Local
  <2> QED BY <2>3, <2>4
<1> QED BY <1>2, <1>3, <1>4 DEF Own

\* What a step of p makes of it: where it is, and what it remembers.
Step(p, a, m) ==
  /\ a \in Stages /\ Manager(m)
  /\ m.run \in {0, my[p].run} \/ m.run \notin Used
  /\ at' = [at EXCEPT ![p] = a] /\ my' = [my EXCEPT ![p] = m]

\* The bookkeeping of such a step.
LEMMA Stepped ==
  ASSUME Inv, NEW p \in Restores, NEW a, NEW m, Step(p, a, m)
  PROVE  /\ at' \in [Restores -> Stages]
         /\ my' = [q \in Restores |-> my'[q]]
         /\ \A q \in Restores : Manager(my[q])'
         /\ at'[p] = a /\ my'[p] = m
         /\ \A q \in Restores \ {p} : at'[q] = at[q] /\ my'[q] = my[q]
         /\ Distinct'
<1>1. /\ at' \in [Restores -> Stages]
      /\ my' = [q \in Restores |-> my'[q]]
      /\ at'[p] = a /\ my'[p] = m
      /\ \A q \in Restores \ {p} : at'[q] = at[q] /\ my'[q] = my[q]
  BY DEF Inv, Shape, Step
<1>2. \A q \in Restores : Manager(my[q])'
  BY <1>1 DEF Inv, Shape, Step, Manager
<1>3. Distinct'
  BY <1>1 DEF Inv, Distinct, Step, Working, Used
<1> QED BY <1>1, <1>2, <1>3

\* A step of one restore that leaves the rest to the others.
LEMMA StepKeeps ==
  ASSUME Inv, NEW p \in Restores, NEW a, NEW m, Step(p, a, m), Local(p), Own(p)',
         receipt' = [g \in Generations |-> receipt'[g]], Signed',
         copy' = [g \in Generations |-> copy'[g]],
         temps' \subseteq Temporaries, IsFiniteSet(temps'),
         database' \in [Restores -> SUBSET Texts], excused' \in [Restores -> BOOLEAN]
  PROVE  Inv'
<1>1. Shape' /\ Distinct'
  BY Stepped DEF Inv, Shape, Local
<1>2. \A q \in Restores : Own(q)'
  BY OthersKeep
<1> QED BY <1>1, <1>2 DEF Inv

\* Most steps change nothing but the restore's own memory.
LEMMA QuietStepKeeps ==
  ASSUME Inv, NEW p \in Restores, NEW a, NEW m, Step(p, a, m), Own(p)',
         UNCHANGED <<source, cache, database, excused, exposed>>
  PROVE  Inv'
<1>1. Local(p)
  BY Stepped DEF Local, cache
<1>2. Signed'
  BY DEF Inv, Signed, cache
<1> QED BY <1>1, <1>2, StepKeeps DEF Inv, Shape, cache

\* A restore that is not under way remembers nothing.
LEMMA BlankManager ==
  /\ Manager(Blank) /\ Blank.run = 0 /\ Blank.opened = {} /\ ~Blank.cached
  /\ Blank.sent = {} /\ ~Blank.plain
BY DEF Manager, Blank

\* A restore that is over has nothing to be said of but its verdict.
LEMMA Ended ==
  ASSUME Inv, NEW p \in Restores, NEW v \in Idle, End(p, v),
         p \notin exposed' => database'[p] \subseteq {"reviewed"},
         v = "failed" => excused'[p]
  PROVE  Step(p, v, Blank) /\ Own(p)'
<1>1. Step(p, v, Blank)
  BY BlankManager DEF End, Goto, Step, Stages
<1>2. at'[p] = v /\ my'[p] = Blank
  BY <1>1, Stepped
<1>3. Own(p)'
  BY <1>2, BlankManager DEF Own, Sound, Calm, Spared, Working, Idle
<1> QED BY <1>1, <1>3

\* The two differ at most in what was read of the cache.
Alike(m, n) ==
  /\ Manager(m) /\ m.run = n.run /\ m.gen = n.gen /\ m.moved = n.moved
  /\ m.opened = n.opened /\ m.sent = n.sent /\ m.cached = n.cached /\ m.then = n.then

\* What is noted of the cache does not touch the rest of the memory.
LEMMA Noted ==
  ASSUME NEW m, Manager(m), NEW k, NEW b
  PROVE  /\ Alike([m EXCEPT !.key = k, !.receipt = b], m)
         /\ [m EXCEPT !.key = k, !.receipt = b].receipt = b
         /\ Alike([m EXCEPT !.key = k, !.bytes = b], m)
         /\ Alike([m EXCEPT !.bytes = b], m)
BY DEF Alike, Manager

\* One lemma for each step of a restore: the invariant survives it.
LEMMA ReadSourceKeeps ==
  ASSUME Inv, NEW p \in Restores, ReadSource(p)
  PROVE  Inv'
<1> USE DEF Idle, Locked, Looks, Stages, Own, Inv
<1>1. at[p] = "read" /\ UNCHANGED <<source, cache, database, excused, exposed>>
  BY DEF ReadSource, history
<1>2. CASE VerifySourceHandle(p) /\ Goto(p, "inventory") /\ UNCHANGED my
  <2>1. Step(p, "inventory", my[p])
    BY <1>2 DEF Step, Shape, Goto
  <2>2. Own(p)'
    BY <1>1, <2>1, Stepped DEF Sound, Calm, Spared, Working, cache
  <2> QED BY <1>1, <2>1, <2>2, QuietStepKeeps
<1>3. CASE ~VerifySourceHandle(p) /\ End(p, "failed")
  <2>1. excused[p]
    BY <1>1, <1>3 DEF Sound, Calm, VerifySourceHandle
  <2> QED BY <1>1, <1>3, <2>1, Ended, QuietStepKeeps DEF Sound, Shape
<1> QED BY <1>2, <1>3 DEF ReadSource

LEMMA InventoryKeeps ==
  ASSUME Inv, NEW p \in Restores, Inventory(p)
  PROVE  Inv'
<1> USE DEF Idle, Locked, Looks, Stages, Own, Inv
<1>1. PICK a \in {"receipt", "verify"} : Step(p, a, my[p])
  BY DEF Inventory, Goto, Step, Shape
<1>2. at[p] = "inventory" /\ UNCHANGED <<source, cache, database, excused, exposed>>
  BY DEF Inventory, history
<1>3. Own(p)'
  BY <1>1, <1>2, Stepped DEF Sound, Calm, Spared, Working, cache
<1> QED BY <1>1, <1>2, <1>3, QuietStepKeeps

LEMMA ReadReceiptKeeps ==
  ASSUME Inv, NEW p \in Restores, ReadReceipt(p)
  PROVE  Inv'
<1> USE DEF Idle, Locked, Looks, Stages, Own, Inv
<1>1. at[p] = "receipt" /\ UNCHANGED <<source, cache, database, excused, exposed>>
  BY DEF ReadReceipt, history
<1>2. CASE /\ receipt[my[p].gen] # None
           /\ my' = [my EXCEPT ![p].key = key, ![p].receipt = receipt[my[p].gen]]
           /\ Goto(p, "copy")
  <2> DEFINE m == [my[p] EXCEPT !.key = key, !.receipt = receipt[my[p].gen]]
  <2>1. Step(p, "copy", m)
    BY <1>2 DEF Step, Goto, Shape, Manager
  <2>2. Alike(m, my[p]) /\ m.receipt = receipt[my[p].gen]
    <3>1. Manager(my[p])
      BY DEF Shape
    <3> QED BY <3>1 DEF Manager, Alike
  <2>3. m.receipt.text = "reviewed"
    BY <1>1, <1>2, <2>2 DEF Signed, Sound
  <2> HIDE DEF m
  <2>4. Own(p)'
    BY <1>1, <2>1, <2>2, <2>3, Stepped DEF Alike, Sound, Calm, Spared, Working, cache
  <2> QED BY <1>1, <2>1, <2>4, QuietStepKeeps
<1>3. CASE Goto(p, "lock") /\ UNCHANGED my
  <2>1. Step(p, "lock", my[p])
    BY <1>3 DEF Step, Shape, Goto
  <2>2. Own(p)'
    BY <1>1, <2>1, Stepped DEF Sound, Calm, Spared, Working, cache
  <2> QED BY <1>1, <2>1, <2>2, QuietStepKeeps
<1> QED BY <1>2, <1>3 DEF ReadReceipt

LEMMA ReadCopyKeeps ==
  ASSUME Inv, NEW p \in Restores, ReadCopy(p)
  PROVE  Inv'
<1> USE DEF Idle, Locked, Looks, Stages, Own, Inv
<1>1. at[p] = "copy" /\ UNCHANGED <<source, cache, database, excused, exposed>>
  BY DEF ReadCopy, history
<1> DEFINE text == copy[my[p].gen]
<1>2. CASE Vouched(p, text) /\ my' = FromMemory(p, text) /\ Goto(p, "verify")
  <2> DEFINE m == [my[p] EXCEPT !.cached = TRUE, !.sent = {text}, !.key = None,
                                !.receipt = None]
  <2>1. text = "reviewed"
    BY <1>1, <1>2 DEF Vouched, Sound
  <2>2. /\ Manager(m) /\ m.run = my[p].run /\ m.gen = my[p].gen
        /\ m.moved = my[p].moved /\ m.opened = my[p].opened
        /\ m.sent = {"reviewed"} /\ m.cached
    <3>1. Manager(my[p])
      BY DEF Shape
    <3> QED BY <2>1, <3>1 DEF Manager, Texts
  <2>3. my' = [my EXCEPT ![p] = m]
    BY <1>2 DEF FromMemory, Shape
  <2> HIDE DEF m
  <2>4. Step(p, "verify", m)
    BY <1>2, <2>2, <2>3 DEF Step, Goto
  <2>5. Own(p)'
    BY <1>1, <2>2, <2>4, Stepped DEF Sound, Calm, Spared, Working, cache
  <2> QED BY <1>1, <2>4, <2>5, QuietStepKeeps
<1>3. CASE /\ my' = [my EXCEPT ![p].key = None, ![p].receipt = None]
           /\ Goto(p, "lock")
  <2> DEFINE m == [my[p] EXCEPT !.key = None, !.receipt = None]
  <2>1. Step(p, "lock", m)
    BY <1>3 DEF Step, Goto, Shape, Manager
  <2>2. Alike(m, my[p])
    BY Noted DEF Shape
  <2> HIDE DEF m
  <2>3. Own(p)'
    BY <1>1, <2>1, <2>2, Stepped DEF Alike, Sound, Calm, Spared, Working, cache
  <2> QED BY <1>1, <2>1, <2>3, QuietStepKeeps
<1> QED BY <1>2, <1>3 DEF ReadCopy

LEMMA TakeLockKeeps ==
  ASSUME Inv, NEW p \in Restores, TakeLock(p)
  PROVE  Inv'
<1> USE DEF Idle, Locked, Looks, Stages, Own, Inv
<1>1. /\ at[p] = "lock"
      /\ UNCHANGED <<source, key, receipt, copy, temps, database, excused, exposed>>
  BY DEF TakeLock, history
<1>2. PICK a \in {"key", "verify"} :
        /\ Step(p, a, my[p])
        /\ a = "key" => lock = None /\ lock' = my[p].run
        /\ a = "verify" => lock' = lock
  BY DEF TakeLock, Goto, Step, Shape, LockIsFree
<1>3. Own(p)'
  BY <1>1, <1>2, Stepped DEF Sound, Calm, Spared, Working
<1>4. Local(p)
  BY <1>1, <1>2, Stepped DEF Local
<1> QED BY <1>1, <1>2, <1>3, <1>4, StepKeeps DEF Shape, Signed

\* A restore that leaves the cache goes by way of its cleanup.
LEMMA Leaving ==
  ASSUME Inv, NEW p \in Restores, NEW step \in {"verify", "failed"}, Leave(p, step),
         at[p] \in Locked, step = "failed" => excused'[p],
         excused[p] => excused'[p],
         p \notin exposed => database'[p] \subseteq {"reviewed"},
         UNCHANGED <<source, lock, temps, exposed>>
  PROVE  Step(p, "clean", [my[p] EXCEPT !.then = step]) /\ Own(p)'
<1> USE DEF Idle, Locked, Looks, Stages, Own, Inv
<1> DEFINE m == [my[p] EXCEPT !.then = step]
<1>1. Step(p, "clean", m)
  <2>1. Manager(m) /\ m.run = my[p].run
    <3>1. Manager(my[p])
      BY DEF Shape
    <3> QED BY <3>1 DEF Manager
  <2>2. my' = [my EXCEPT ![p] = m]
    BY DEF Leave, Shape, Manager
  <2> QED BY <2>1, <2>2 DEF Step, Leave, Goto
<1>2. at'[p] = "clean" /\ my'[p] = m
  BY <1>1, Stepped
<1>3. Sound(p)' /\ Spared(p)'
  BY <1>2 DEF Shape, Manager, Sound, Spared, Working
<1>4. Calm(p)'
  BY <1>2 DEF Shape, Manager, Calm, Working
<1> QED BY <1>1, <1>3, <1>4

LEMMA EnsureKeyKeeps ==
  ASSUME Inv, NEW p \in Restores, EnsureKey(p)
  PROVE  Inv'
<1> USE DEF Idle, Locked, Looks, Stages, Own, Inv
<1>1. /\ at[p] = "key"
      /\ UNCHANGED <<source, lock, receipt, copy, temps, database, excused, exposed>>
  BY DEF EnsureKey, history
<1>2. CASE \E k, b : /\ my' = [my EXCEPT ![p].key = k, ![p].bytes = b]
                     /\ Goto(p, "encode")
  <2>1. PICK k, b : /\ my' = [my EXCEPT ![p].key = k, ![p].bytes = b]
                    /\ Goto(p, "encode")
    BY <1>2
  <2> DEFINE m == [my[p] EXCEPT !.key = k, !.bytes = b]
  <2>2. Step(p, "encode", m)
    BY <2>1 DEF Step, Goto, Shape, Manager
  <2>3. Alike(m, my[p])
    BY Noted DEF Shape
  <2> HIDE DEF m
  <2>5. Own(p)'
    BY <1>1, <2>2, <2>3, Stepped DEF Alike, Sound, Calm, Spared, Working
  <2>4. Local(p)
    BY <1>1, <2>2, Stepped DEF Local
  <2> QED BY <1>1, <2>2, <2>4, <2>5, StepKeeps DEF Shape, Signed
<1>3. CASE Leave(p, "verify")
  <2>1. Step(p, "clean", [my[p] EXCEPT !.then = "verify"]) /\ Own(p)'
    BY <1>1, <1>3, Leaving DEF Sound
  <2>2. Local(p)
    BY <1>1, <2>1, Stepped DEF Local
  <2> QED BY <1>1, <2>1, <2>2, StepKeeps DEF Shape, Signed
<1> QED BY <1>2, <1>3 DEF EnsureKey

LEMMA EncodeKeeps ==
  ASSUME Inv, NEW p \in Restores, Encode(p)
  PROVE  Inv'
<1> USE DEF Idle, Locked, Looks, Stages, Own, Inv
<1>1. at[p] = "encode" /\ UNCHANGED <<source, cache, database, excused, exposed>>
  BY DEF Encode, history
<1>2. CASE Goto(p, "write-copy") /\ my' = [my EXCEPT ![p].bytes = 0]
  <2> DEFINE m == [my[p] EXCEPT !.bytes = 0]
  <2>1. Step(p, "write-copy", m)
    BY <1>2 DEF Step, Goto, Shape, Manager
  <2>2. Alike(m, my[p])
    BY Noted DEF Shape
  <2> HIDE DEF m
  <2>3. Own(p)'
    BY <1>1, <2>1, <2>2, Stepped DEF Alike, Sound, Calm, Spared, Working, cache
  <2> QED BY <1>1, <2>1, <2>3, QuietStepKeeps
<1>3. CASE Leave(p, "verify")
  BY <1>1, <1>3, Leaving, QuietStepKeeps DEF Sound, cache
<1> QED BY <1>2, <1>3 DEF Encode

LEMMA WriteTemporaryKeeps ==
  ASSUME Inv, NEW p \in Restores, NEW kind \in {"copy", "receipt"},
         NEW next \in {"write-receipt", "place-copy"},
         at[p] \in {"write-copy", "write-receipt"}, WriteTemporary(p, kind, next)
  PROVE  Inv'
<1> USE DEF Idle, Locked, Looks, Stages, Own, Inv
<1> DEFINE t == Temporary(p, kind)
           m == [my[p] EXCEPT !.opened = @ \cup {t}]
           n == [my[p] EXCEPT !.opened = @ \cup {t}, !.then = "verify"]
<1>1. /\ UNCHANGED <<source, key, lock, receipt, copy, database, excused, exposed>>
      /\ temps' = temps \cup {t} /\ Working(p)
  BY DEF WriteTemporary, history, Sound
<1>2. t \in Temporaries /\ t.owner = my[p].run
  BY <1>1 DEF Temporary, Temporaries, Sound, Shape, Manager
<1>3. /\ Manager(m) /\ m.run = my[p].run /\ m.gen = my[p].gen
      /\ m.moved = my[p].moved /\ m.opened = my[p].opened \cup {t}
      /\ m.sent = my[p].sent /\ m.cached = my[p].cached /\ m.then = my[p].then
  BY <1>2 DEF Shape, Manager
<1>4. /\ Manager(n) /\ n.run = my[p].run /\ n.gen = my[p].gen
      /\ n.moved = my[p].moved /\ n.opened = my[p].opened \cup {t}
      /\ n.sent = my[p].sent /\ n.cached = my[p].cached /\ n.then = "verify"
  BY <1>2 DEF Shape, Manager
<1>5. \/ my' = [my EXCEPT ![p] = m] /\ at' = [at EXCEPT ![p] = next]
      \/ my' = [my EXCEPT ![p] = n] /\ at' = [at EXCEPT ![p] = "clean"]
  BY DEF WriteTemporary, Goto, Shape, Manager
<1> HIDE DEF t, m, n
<1>6. PICK a \in {next, "clean"}, r \in {m, n} :
        Step(p, a, r) /\ (a = "clean" => r = n)
  BY <1>3, <1>4, <1>5 DEF Step
<1>7. Own(p)'
  BY <1>1, <1>2, <1>3, <1>4, <1>6, Stepped DEF Sound, Calm, Spared, Working
<1>8. Local(p)
  BY <1>1, <1>6, Stepped DEF Local
<1>9. IsFiniteSet(temps') /\ temps' \subseteq Temporaries
  BY <1>1, <1>2, FS_AddElement DEF Shape
<1> QED BY <1>1, <1>6, <1>7, <1>8, <1>9, StepKeeps DEF Shape, Signed

\* The temporary files of others stay where they are.
LEMMA Taken ==
  ASSUME Inv, NEW S \in SUBSET Temporaries
  PROVE  IsFiniteSet(temps \ S) /\ temps \ S \subseteq Temporaries
BY FS_Subset DEF Inv, Shape

LEMMA PlaceCopyKeeps ==
  ASSUME Inv, NEW p \in Restores, PlaceCopy(p)
  PROVE  Inv'
<1> USE DEF Idle, Locked, Looks, Stages, Own, Inv
<1>1. /\ at[p] = "place-copy"
      /\ UNCHANGED <<source, key, lock, receipt, database, excused, exposed>>
  BY DEF PlaceCopy, history
<1>2. CASE Misplaced(p, "copy") /\ UNCHANGED copy
  <2>1. Step(p, "clean", [my[p] EXCEPT !.then = "verify"]) /\ Own(p)'
    BY <1>1, <1>2, Leaving DEF Sound, Misplaced
  <2>2. Local(p)
    BY <1>1, <1>2, <2>1, Stepped DEF Local, Misplaced
  <2> QED BY <1>1, <1>2, <2>1, <2>2, StepKeeps DEF Shape, Signed, Misplaced
<1>3. CASE /\ Place(p, "copy")
           /\ copy' = [copy EXCEPT ![my[p].gen] = "reviewed"]
           /\ my' = [my EXCEPT ![p].opened = @ \ {Temporary(p, "copy")}]
           /\ Goto(p, "place-receipt")
  <2> DEFINE t == Temporary(p, "copy")
             m == [my[p] EXCEPT !.opened = @ \ {t}]
  <2>1. /\ t \in temps /\ temps' = temps \ {t} /\ t.owner = my[p].run
        /\ t \in Temporaries
    BY <1>3 DEF Place, Temporary, Shape
  <2>2. /\ Manager(m) /\ m.run = my[p].run /\ m.gen = my[p].gen
        /\ m.moved = my[p].moved /\ m.opened = my[p].opened \ {t}
        /\ m.sent = my[p].sent /\ m.cached = my[p].cached
    BY DEF Shape, Manager
  <2>3. my' = [my EXCEPT ![p] = m]
    BY <1>3 DEF Shape, Manager
  <2> HIDE DEF m, t
  <2>4. Step(p, "place-receipt", m)
    BY <1>3, <2>2, <2>3 DEF Step, Goto
  <2>5. Own(p)'
    BY <1>1, <2>1, <2>2, <2>4, Stepped DEF Sound, Calm, Spared, Working
  <2>6. Local(p)
    BY <1>1, <2>1, <2>4, Stepped DEF Local
  <2>7. IsFiniteSet(temps') /\ temps' \subseteq Temporaries
    BY <2>1, Taken
  <2>8. copy' = [g \in Generations |-> copy'[g]]
    BY <1>3 DEF Shape
  <2> QED BY <1>1, <2>4, <2>5, <2>6, <2>7, <2>8, StepKeeps DEF Shape, Signed
<1> QED BY <1>2, <1>3 DEF PlaceCopy

LEMMA PlaceReceiptKeeps ==
  ASSUME Inv, NEW p \in Restores, PlaceReceipt(p)
  PROVE  Inv'
<1> USE DEF Idle, Locked, Looks, Stages, Own, Inv
<1>1. /\ at[p] = "place-receipt"
      /\ UNCHANGED <<source, key, lock, copy, database, excused, exposed>>
  BY DEF PlaceReceipt, history
<1>2. CASE Misplaced(p, "receipt") /\ UNCHANGED receipt
  <2>1. Step(p, "clean", [my[p] EXCEPT !.then = "verify"]) /\ Own(p)'
    BY <1>1, <1>2, Leaving DEF Sound, Misplaced
  <2>2. Local(p)
    BY <1>1, <1>2, <2>1, Stepped DEF Local, Misplaced
  <2> QED BY <1>1, <1>2, <2>1, <2>2, StepKeeps DEF Shape, Signed, Misplaced
<1>3. CASE /\ Place(p, "receipt")
           /\ receipt' = [receipt EXCEPT ![my[p].gen] =
                            [key |-> my[p].key, text |-> "reviewed"]]
           /\ my' = [FromMemory(p, "reviewed") EXCEPT ![p].opened = {},
                                                      ![p].then = "verify"]
           /\ Goto(p, "clean")
  <2> DEFINE t == Temporary(p, "receipt")
             m == [my[p] EXCEPT !.cached = TRUE, !.sent = {"reviewed"}, !.key = None,
                                !.receipt = None, !.opened = {}, !.then = "verify"]
  <2>1. /\ t \in temps /\ temps' = temps \ {t} /\ t.owner = my[p].run
        /\ t \in Temporaries
    BY <1>3 DEF Place, Temporary, Shape
  <2>2. /\ Manager(m) /\ m.run = my[p].run /\ m.gen = my[p].gen
        /\ m.moved = my[p].moved /\ m.opened = {}
        /\ m.sent = {"reviewed"} /\ m.cached /\ m.then = "verify"
    <3>1. Manager(my[p])
      BY DEF Shape
    <3> QED BY <3>1 DEF Manager, Texts
  <2>3. my' = [my EXCEPT ![p] = m]
    BY <1>3 DEF FromMemory, Shape, Manager
  <2> HIDE DEF m, t
  <2>4. Step(p, "clean", m)
    BY <1>3, <2>2, <2>3 DEF Step, Goto
  <2>5. Own(p)'
    BY <1>1, <2>1, <2>2, <2>4, Stepped DEF Sound, Calm, Spared, Working
  <2>6. Local(p)
    BY <1>1, <2>1, <2>4, Stepped DEF Local
  <2>7. IsFiniteSet(temps') /\ temps' \subseteq Temporaries
    BY <2>1, Taken
  <2>8. receipt' = [g \in Generations |-> receipt'[g]] /\ Signed'
    BY <1>3 DEF Shape, Signed
  <2> QED BY <1>1, <2>4, <2>5, <2>6, <2>7, <2>8, StepKeeps DEF Shape
<1> QED BY <1>2, <1>3 DEF PlaceReceipt

LEMMA CleanKeeps ==
  ASSUME Inv, NEW p \in Restores, Clean(p)
  PROVE  Inv'
<1> USE DEF Idle, Locked, Looks, Stages, Own, Inv
<1>1. /\ at[p] = "clean" /\ temps' = temps \ my[p].opened
      /\ UNCHANGED <<source, key, lock, receipt, copy, database, excused, exposed>>
  BY DEF Clean, history
<1>2. /\ \A t \in my[p].opened : t.owner = my[p].run
      /\ my[p].opened \subseteq Temporaries
  BY DEF Sound, Shape, Manager
<1>3. IsFiniteSet(temps') /\ temps' \subseteq Temporaries
  BY <1>1, <1>2, Taken
<1>4. CASE /\ my[p].opened \subseteq temps /\ Goto(p, "unlock")
           /\ my' = [my EXCEPT ![p].opened = {}, ![p].key = None, ![p].bytes = 0]
  <2> DEFINE m == [my[p] EXCEPT !.opened = {}, !.key = None, !.bytes = 0]
  <2>1. /\ Manager(m) /\ m.run = my[p].run /\ m.gen = my[p].gen
        /\ m.moved = my[p].moved /\ m.opened = {} /\ m.then = my[p].then
        /\ m.sent = my[p].sent /\ m.cached = my[p].cached
    <3>1. Manager(my[p])
      BY DEF Shape
    <3> QED BY <3>1 DEF Manager
  <2>2. my' = [my EXCEPT ![p] = m]
    BY <1>4 DEF Shape, Manager
  <2> HIDE DEF m
  <2>3. Step(p, "unlock", m)
    BY <1>4, <2>1, <2>2 DEF Step, Goto
  <2>4. Own(p)'
    BY <1>1, <2>1, <2>3, Stepped DEF Sound, Calm, Spared, Working
  <2>5. Local(p)
    BY <1>1, <1>2, <2>3, Stepped DEF Local
  <2> QED BY <1>1, <1>3, <2>3, <2>4, <2>5, StepKeeps DEF Shape, Signed
<1>5. CASE ~(my[p].opened \subseteq temps) /\ End(p, "failed")
  <2>1. excused[p]
    BY <1>1, <1>5 DEF Sound, Calm
  <2>2. Step(p, "failed", Blank) /\ Own(p)'
    BY <1>1, <1>5, <2>1, Ended DEF Sound
  <2>3. Local(p)
    BY <1>1, <1>2, <2>2, Stepped DEF Local
  <2> QED BY <1>1, <1>3, <2>2, <2>3, StepKeeps DEF Shape, Signed
<1> QED BY <1>4, <1>5 DEF Clean

LEMMA UnlockKeeps ==
  ASSUME Inv, NEW p \in Restores, Unlock(p)
  PROVE  Inv'
<1> USE DEF Idle, Locked, Looks, Stages, Own, Inv
<1>1. /\ at[p] = "unlock" /\ (lock' = lock \/ lock = my[p].run)
      /\ UNCHANGED <<source, key, receipt, copy, temps, database, excused, exposed>>
  BY DEF Unlock, history, OwnsLock
<1>2. CASE End(p, "failed")
  <2>1. excused[p]
    BY <1>1, <1>2 DEF Unlock, OwnsLock, Sound, Calm, Goto, End, Shape
  <2>2. Step(p, "failed", Blank) /\ Own(p)'
    BY <1>1, <1>2, <2>1, Ended DEF Sound
  <2>3. Local(p)
    BY <1>1, <2>2, Stepped DEF Local
  <2> QED BY <1>1, <2>2, <2>3, StepKeeps DEF Shape, Signed
<1>3. CASE /\ OwnsLock(p) /\ my[p].then = "verify" /\ Goto(p, "verify")
           /\ my' = [my EXCEPT ![p].then = None]
  <2> DEFINE m == [my[p] EXCEPT !.then = None]
  <2>1. /\ Manager(m) /\ m.run = my[p].run /\ m.gen = my[p].gen
        /\ m.moved = my[p].moved /\ m.opened = my[p].opened
        /\ m.sent = my[p].sent /\ m.cached = my[p].cached
    BY DEF Shape, Manager
  <2>2. Step(p, "verify", m)
    BY <1>3, <2>1 DEF Step, Goto, Shape, Manager
  <2> HIDE DEF m
  <2>3. Own(p)'
    BY <1>1, <2>1, <2>2, Stepped DEF Sound, Calm, Spared, Working
  <2>4. Local(p)
    BY <1>1, <2>2, Stepped DEF Local
  <2> QED BY <1>1, <2>2, <2>3, <2>4, StepKeeps DEF Shape, Signed
<1> QED BY <1>1, <1>2, <1>3 DEF Unlock, Sound

LEMMA OpenStreamKeeps ==
  ASSUME Inv, NEW p \in Restores, OpenStream(p)
  PROVE  Inv'
<1> USE DEF Idle, Locked, Looks, Stages, Own, Inv
<1>1. at[p] = "verify" /\ UNCHANGED <<source, cache, database, excused, exposed>>
  BY DEF OpenStream, history
<1>2. CASE VerifySourceHandle(p) /\ UNCHANGED my
           /\ Goto(p, IF my[p].cached THEN "end" ELSE "stream")
  <2>1. Step(p, IF my[p].cached THEN "end" ELSE "stream", my[p])
    BY <1>2 DEF Step, Shape, Goto
  <2>2. /\ at'[p] \in {"end", "stream"} /\ my'[p] = my[p]
        /\ at'[p] = "end" <=> my[p].cached
    BY <2>1, Stepped
  <2>3. Sound(p)'
    BY <1>1, <1>2, <2>2 DEF Sound, Working, VerifySourceHandle
  <2>4. Calm(p)' /\ Spared(p)'
    BY <1>1, <2>2 DEF Sound, Calm, Spared, Working, cache
  <2> QED BY <1>1, <2>1, <2>3, <2>4, QuietStepKeeps
<1>3. CASE ~VerifySourceHandle(p) /\ End(p, "failed")
  <2>1. excused[p]
    BY <1>1, <1>3 DEF Sound, Calm, VerifySourceHandle
  <2> QED BY <1>1, <1>3, <2>1, Ended, QuietStepKeeps DEF Sound, Shape
<1> QED BY <1>2, <1>3 DEF OpenStream

LEMMA ReadChunkKeeps ==
  ASSUME Inv, NEW p \in Restores, ReadChunk(p)
  PROVE  Inv'
<1> USE DEF Idle, Locked, Looks, Stages, Own, Inv
<1> DEFINE m == [my[p] EXCEPT !.sent = @ \cup {source[my[p].gen]}]
<1>1. /\ at[p] \in {"stream", "last"} /\ Working(p) /\ ~my[p].cached
      /\ UNCHANGED <<source, cache, database, excused, exposed>>
  BY DEF ReadChunk, history, Sound
<1>2. source[my[p].gen] \in Texts
  BY <1>1 DEF Sound, Shape
<1>3. /\ Manager(m) /\ m.run = my[p].run /\ m.gen = my[p].gen
      /\ m.moved = my[p].moved /\ m.opened = my[p].opened /\ m.plain = my[p].plain
      /\ m.sent = my[p].sent \cup {source[my[p].gen]} /\ m.cached = my[p].cached
  BY <1>2 DEF Shape, Manager
<1>4. my' = [my EXCEPT ![p] = m]
  BY DEF ReadChunk, Shape, Manager
<1> HIDE DEF m
<1>5. PICK a \in {"last", "end"} : Step(p, a, m)
  BY <1>3, <1>4 DEF Step, ReadChunk, Goto
<1>6. at[p] = "stream" => at'[p] = "last"
  BY DEF ReadChunk, Goto, Shape
<1>7. Own(p)'
  BY <1>1, <1>3, <1>5, <1>6, Stepped DEF Sound, Calm, Spared, Working, cache
<1> QED BY <1>1, <1>5, <1>7, QuietStepKeeps

LEMMA EndStreamKeeps ==
  ASSUME Inv, NEW p \in Restores, EndStream(p)
  PROVE  Inv'
<1> USE DEF Idle, Locked, Looks, Stages, Own, Inv
<1>1. at[p] = "end" /\ UNCHANGED <<source, cache, database, excused, exposed>>
  BY DEF EndStream, history
<1>2. CASE Consumed(p) /\ Goto(p, "suffix") /\ UNCHANGED my
  <2>1. Step(p, "suffix", my[p])
    BY <1>2 DEF Step, Shape, Goto
  <2>2. Own(p)'
    BY <1>1, <1>2, <2>1, Stepped DEF Consumed, Sound, Calm, Spared, Working, cache
  <2> QED BY <1>1, <2>1, <2>2, QuietStepKeeps
<1>3. CASE ~Consumed(p) /\ End(p, "failed")
  <2>1. excused[p]
    BY <1>1, <1>3 DEF Sound, Calm, Consumed
  <2> QED BY <1>1, <1>3, <2>1, Ended, QuietStepKeeps DEF Sound, Shape
<1> QED BY <1>2, <1>3 DEF EndStream

\* A text that does not load is one that somebody wrote.
LEMMA UnloadableKeeps ==
  ASSUME Inv, NEW p \in Restores, Unloadable(p)
  PROVE  Inv'
<1> USE DEF Idle, Locked, Looks, Stages, Own, Inv
<1>1. /\ at[p] \in {"last", "end", "suffix"} /\ "altered" \in my[p].sent /\ End(p, "failed")
      /\ UNCHANGED <<source, cache, database, excused, exposed>>
  BY DEF Unloadable, history
<1>2. excused[p]
  BY <1>1 DEF Sound, Calm
<1> QED BY <1>1, <1>2, Ended, QuietStepKeeps DEF Sound, Shape

\* The transaction that was under way leaves reviewed data or what was there.
LEMMA Interruption ==
  ASSUME Inv, NEW p \in Restores, Interrupted(p)
  PROVE  /\ database' \in [Restores -> SUBSET Texts]
         /\ p \notin exposed => database'[p] \subseteq {"reviewed"}
         /\ \A q \in Restores \ {p} : database'[q] = database[q]
<1>1. /\ my[p].sent \subseteq Texts
      /\ at[p] = "suffix" /\ p \notin exposed => my[p].sent \subseteq {"reviewed"}
  BY DEF Inv, Own, Sound, Shape, Manager
<1>2. /\ database \in [Restores -> SUBSET Texts]
      /\ p \notin exposed => database[p] \subseteq {"reviewed"}
  BY DEF Inv, Shape, Own, Sound
<1> QED BY <1>1, <1>2 DEF Interrupted, CommitTakesEffect

LEMMA CommitKeeps ==
  ASSUME Inv, NEW p \in Restores, Commit(p)
  PROVE  Inv'
<1> USE DEF Idle, Locked, Looks, Stages, Own, Inv
<1>1. /\ at[p] = "suffix" /\ End(p, "committed") /\ Interrupted(p)
      /\ UNCHANGED <<source, cache, excused, exposed>>
  BY DEF Commit, history, Interrupted
<1>2. Step(p, "committed", Blank) /\ Own(p)'
  BY <1>1, Interruption, Ended
<1>3. Local(p)
  BY <1>1, <1>2, Stepped, Interruption DEF Local, cache
<1> QED BY <1>1, <1>2, <1>3, Interruption, StepKeeps DEF Shape, Signed, cache

LEMMA AbortKeeps ==
  ASSUME Inv, NEW p \in Restores, Abort(p)
  PROVE  Inv'
<1> USE DEF Idle, Locked, Looks, Stages, Own, Inv
<1>1. /\ Interrupted(p) /\ UNCHANGED <<source, cache, exposed>>
      /\ excused' = [excused EXCEPT ![p] = TRUE]
  BY DEF Abort
<1>2. /\ excused' \in [Restores -> BOOLEAN] /\ excused'[p]
      /\ \A q \in Restores \ {p} : excused'[q] = excused[q]
  BY <1>1 DEF Shape
<1>3. CASE at[p] \in Locked /\ Leave(p, "failed")
  <2>1. Step(p, "clean", [my[p] EXCEPT !.then = "failed"]) /\ Own(p)'
    BY <1>1, <1>2, <1>3, Leaving, Interruption DEF cache
  <2>2. Local(p)
    BY <1>1, <1>2, <2>1, Stepped, Interruption DEF Local, cache
  <2> QED BY <1>1, <1>2, <2>1, <2>2, Interruption, StepKeeps DEF Shape, Signed, cache
<1>4. CASE End(p, "failed")
  <2>1. Step(p, "failed", Blank) /\ Own(p)'
    BY <1>1, <1>2, <1>4, Ended, Interruption
  <2>2. Local(p)
    BY <1>1, <1>2, <2>1, Stepped, Interruption DEF Local, cache
  <2> QED BY <1>1, <1>2, <2>1, <2>2, Interruption, StepKeeps DEF Shape, Signed, cache
<1> QED BY <1>3, <1>4 DEF Abort

LEMMA KillKeeps ==
  ASSUME Inv, NEW p \in Restores, Kill(p)
  PROVE  Inv'
<1> USE DEF Idle, Locked, Looks, Stages, Own, Inv
<1>1. /\ Interrupted(p) /\ End(p, "killed")
      /\ UNCHANGED <<source, lock, receipt, copy, temps, excused, exposed>>
  BY DEF Kill
<1>2. Step(p, "killed", Blank) /\ Own(p)'
  BY <1>1, Ended, Interruption
<1>3. Local(p)
  BY <1>1, <1>2, Stepped, Interruption DEF Local
<1> QED BY <1>1, <1>2, <1>3, Interruption, StepKeeps DEF Shape, Signed

LEMMA BeginKeeps ==
  ASSUME Inv, NEW p \in Restores, NEW g \in Generations, NEW plain \in BOOLEAN,
         Begin(p, g, plain)
  PROVE  Inv'
<1> USE DEF Idle, Locked, Looks, Stages, Own, Inv
<1> DEFINE m == [Blank EXCEPT !.run = FreshNumber, !.gen = g, !.plain = plain]
<1>1. /\ UNCHANGED <<source, cache>> /\ my' = [my EXCEPT ![p] = m]
      /\ source[g] = "reviewed"
      /\ database' = [database EXCEPT ![p] = {}]
      /\ excused' = [excused EXCEPT ![p] = FALSE] /\ exposed' = exposed \ {p}
  BY DEF Begin
<1>2. FreshNumber \in Nat \ {0} /\ FreshNumber \notin Used
  BY NumberIsFresh DEF Shape
<1>3. /\ Manager(m) /\ m.run = FreshNumber /\ m.gen = g /\ ~m.moved
      /\ m.opened = {} /\ m.sent = {} /\ ~m.cached
  BY <1>2 DEF Manager, Blank
<1> HIDE DEF m
<1>4. Step(p, "begin", m)
  BY <1>1, <1>2, <1>3 DEF Begin, Step, Goto
<1>5. /\ excused' \in [Restores -> BOOLEAN]
      /\ \A q \in Restores \ {p} : excused'[q] = excused[q]
      /\ database' \in [Restores -> SUBSET Texts] /\ database'[p] = {}
      /\ \A q \in Restores \ {p} : database'[q] = database[q]
  BY <1>1 DEF Shape
<1>6. Own(p)'
  <2>1. at'[p] = "begin" /\ my'[p] = m
    BY <1>4, Stepped
  <2>2. Sound(p)'
    BY <1>1, <1>2, <1>3, <1>5, <2>1 DEF Sound, Working
  <2>3. Calm(p)'
    BY <1>1, <1>3, <1>5, <2>1 DEF Calm
  <2>4. Spared(p)'
    BY <2>1 DEF Spared
  <2> QED BY <2>2, <2>3, <2>4
<1>7. Local(p)
  BY <1>1, <1>4, <1>5, Stepped DEF Local, cache
<1> QED BY <1>1, <1>4, <1>5, <1>6, <1>7, StepKeeps DEF Shape, Signed, cache

LEMMA BeginPlainKeeps ==
  ASSUME Inv, NEW p \in Restores, BeginPlain(p)
  PROVE  Inv'
<1> USE DEF Idle, Locked, Looks, Stages, Own, Inv
<1>1. /\ at[p] = "begin" /\ UNCHANGED my
      /\ UNCHANGED <<source, cache, database, excused, exposed>>
  BY DEF BeginPlain, history
<1>2. Step(p, "stream", my[p])
  BY <1>1 DEF BeginPlain, Step, Shape, Goto
<1>3. Own(p)'
  BY <1>1, <1>2, Stepped DEF Sound, Calm, Spared, Working, cache
<1> QED BY <1>1, <1>2, <1>3, QuietStepKeeps

LEMMA BeginCachedKeeps ==
  ASSUME Inv, NEW p \in Restores, BeginCached(p)
  PROVE  Inv'
<1> USE DEF Idle, Locked, Looks, Stages, Own, Inv
<1> DEFINE m == [my[p] EXCEPT !.moved = FALSE]
<1>1. /\ at[p] = "begin" /\ ~my[p].plain
      /\ UNCHANGED <<source, cache, database, excused, exposed>>
  BY DEF BeginCached, history
<1>2. /\ Manager(m) /\ m.run = my[p].run /\ m.gen = my[p].gen /\ ~m.moved
      /\ m.opened = my[p].opened /\ m.sent = my[p].sent /\ m.cached = my[p].cached
  BY DEF Shape, Manager
<1>3. my' = [my EXCEPT ![p] = m]
  BY DEF BeginCached, Shape, Manager
<1> HIDE DEF m
<1>4. PICK a \in {"verify", "read"} : Step(p, a, m)
  BY <1>2, <1>3 DEF BeginCached, Step, Goto
<1>5. Own(p)'
  BY <1>1, <1>2, <1>4, Stepped DEF Sound, Calm, Spared, Working, cache
<1> QED BY <1>1, <1>4, <1>5, QuietStepKeeps

\* And for each act of others: editing the baseline, a copy, emptying the cache.
LEMMA EditSourceKeeps ==
  ASSUME Inv, NEW g \in Generations, NEW text \in Texts, EditSource(g, text)
  PROVE  Inv'
<1> USE DEF Own, Inv
<1> DEFINE Readers == {p \in Restores : my[p].gen = g}
<1>1. /\ source' = [source EXCEPT ![g] = text] /\ UNCHANGED <<cache, at, database>>
      /\ excused' = [p \in Restores |-> excused[p] \/ p \in Readers]
      /\ exposed' = exposed \cup {p \in Readers : my[p].plain}
  BY DEF EditSource, Touch
<1>2. /\ my' = [q \in Restores |-> my'[q]]
      /\ \A p \in Restores : /\ Manager(my[p])' /\ my'[p].run = my[p].run
                             /\ my'[p].gen = my[p].gen /\ my'[p].receipt = my[p].receipt
                             /\ my'[p].opened = my[p].opened /\ my'[p].sent = my[p].sent
                             /\ my'[p].cached = my[p].cached /\ my'[p].then = my[p].then
                             /\ my'[p].plain = my[p].plain
                             /\ p \notin Readers => my'[p].moved = my[p].moved
  <2>1. CASE UNCHANGED my
    BY <2>1 DEF Shape, Manager
  <2>2. CASE my' = [p \in Restores |-> IF p \in Readers THEN [my[p] EXCEPT !.moved = TRUE]
                                                        ELSE my[p]]
    <3>1. my' = [q \in Restores |-> my'[q]]
      BY <2>2
    <3> SUFFICES ASSUME NEW p \in Restores
                 PROVE  /\ Manager(my[p])' /\ my'[p].run = my[p].run
                        /\ my'[p].gen = my[p].gen /\ my'[p].receipt = my[p].receipt
                        /\ my'[p].opened = my[p].opened /\ my'[p].sent = my[p].sent
                        /\ my'[p].cached = my[p].cached /\ my'[p].then = my[p].then
                        /\ my'[p].plain = my[p].plain
                        /\ p \notin Readers => my'[p].moved = my[p].moved
      BY <3>1
    <3>2. Manager(my[p])
      BY DEF Shape
    <3>3. CASE p \in Readers
      <4>1. my'[p] = [my[p] EXCEPT !.moved = TRUE]
        BY <2>2, <3>3
      <4> QED BY <3>2, <3>3, <4>1 DEF Manager
    <3>4. CASE p \notin Readers
      BY <2>2, <3>2, <3>4 DEF Manager
    <3> QED BY <3>3, <3>4
  <2> QED BY <2>1, <2>2 DEF EditSource
<1> HIDE DEF Readers
<1>3. Shape' /\ Signed' /\ Distinct'
  <2>1. Shape'
    BY <1>1, <1>2 DEF Shape, cache
  <2>2. Signed' /\ Distinct'
    BY <1>1, <1>2 DEF Signed, Distinct, Working, cache
  <2> QED BY <2>1, <2>2
<1>4. ASSUME NEW p \in Restores PROVE Own(p)'
  <2>1. Sound(p)' /\ Spared(p)'
    <3>1. /\ p \notin exposed' => p \notin exposed
          /\ my[p].plain /\ p \notin exposed' => p \notin Readers
          /\ p \notin Readers /\ Working(p) => source'[my[p].gen] = source[my[p].gen]
      BY <1>1 DEF Shape, Sound, Readers
    <3>2. Working(p) => my[p].gen \in Generations
      BY DEF Sound
    <3>3. Sound(p)'
      BY <1>1, <1>2, <3>1 DEF Sound, Working, Idle
    <3>4. Spared(p)'
      BY <1>1 DEF Spared
    <3> QED BY <3>3, <3>4
  <2>2. Calm(p)'
    <3>1. ASSUME Working(p), ~excused'[p]
          PROVE  p \notin Readers /\ ~excused[p] /\ source'[my[p].gen] = source[my[p].gen]
      BY <1>1, <3>1 DEF Shape, Sound, Readers
    <3> QED BY <1>1, <1>2, <3>1 DEF Calm, Working, cache
  <2> QED BY <2>1, <2>2
<1> QED BY <1>3, <1>4

LEMMA EditCopyKeeps ==
  ASSUME Inv, NEW g \in Generations, EditCopy(g)
  PROVE  Inv'
<1>1. /\ UNCHANGED <<source, key, lock, receipt, temps, at, my, database, excused, exposed>>
      /\ copy' = [copy EXCEPT ![g] = "altered"]
  BY DEF EditCopy
<1>2. Shape' /\ Signed' /\ Distinct'
  BY <1>1 DEF Inv, Shape, Signed, Distinct, Working
<1>3. ASSUME NEW p \in Restores PROVE Own(p)'
  BY <1>1 DEF Inv, Own, Sound, Calm, Spared, Working
<1> QED BY <1>2, <1>3 DEF Inv

LEMMA EmptyKeeps ==
  ASSUME Inv, Empty
  PROVE  Inv'
<1> USE DEF Own, Inv
<1>1. /\ UNCHANGED <<source, at, my, database>> /\ temps' = {}
      /\ receipt' = [g \in Generations |-> None]
      /\ copy' = [g \in Generations |-> None]
      /\ excused' = [p \in Restores |-> excused[p] \/ Working(p)]
      /\ UNCHANGED exposed
  BY DEF Empty, Touch
<1>2. Shape' /\ Signed' /\ Distinct'
  BY <1>1, FS_EmptySet DEF Shape, Signed, Distinct, Working
<1>3. ASSUME NEW p \in Restores PROVE Own(p)'
  BY <1>1 DEF Sound, Calm, Spared, Working, Shape
<1> QED BY <1>2, <1>3

\* Before the first restore there is nothing to be said of any.
LEMMA Beginning == Init => Inv
<1> SUFFICES ASSUME Init PROVE Inv
  OBVIOUS
<1>1. Shape
  BY BlankManager, FS_EmptySet DEF Init, Shape, Texts, Stages, Idle
<1>2. Signed /\ Distinct
  BY BlankManager DEF Init, Signed, Distinct, Working
<1>3. ASSUME NEW p \in Restores PROVE Own(p)
  BY BlankManager DEF Init, Own, Sound, Calm, Spared, Working, Idle
<1> QED BY <1>1, <1>2, <1>3 DEF Inv

\* Every step keeps the invariant.
LEMMA Induction == Inv /\ [Next]_vars => Inv'
<1> SUFFICES ASSUME Inv, [Next]_vars PROVE Inv'
  OBVIOUS
<1>1. ASSUME NEW p \in Restores,
             \/ \E g \in Generations, plain \in BOOLEAN : Begin(p, g, plain)
             \/ BeginPlain(p) \/ BeginCached(p)
             \/ ReadSource(p) \/ Inventory(p) \/ ReadReceipt(p) \/ ReadCopy(p)
             \/ TakeLock(p) \/ EnsureKey(p) \/ Encode(p)
      PROVE  Inv'
  BY <1>1, BeginKeeps, BeginPlainKeeps, BeginCachedKeeps, ReadSourceKeeps,
     InventoryKeeps, ReadReceiptKeeps, ReadCopyKeeps, TakeLockKeeps, EnsureKeyKeeps,
     EncodeKeeps
<1>2. ASSUME NEW p \in Restores, WriteCopy(p) \/ WriteReceipt(p)
      PROVE  Inv'
  BY <1>2, WriteTemporaryKeeps DEF WriteCopy, WriteReceipt
<1>3. ASSUME NEW p \in Restores,
             \/ PlaceCopy(p) \/ PlaceReceipt(p) \/ Clean(p) \/ Unlock(p)
             \/ OpenStream(p) \/ ReadChunk(p) \/ EndStream(p) \/ Commit(p)
             \/ Unloadable(p) \/ Abort(p) \/ Kill(p)
      PROVE  Inv'
  BY <1>3, PlaceCopyKeeps, PlaceReceiptKeeps, CleanKeeps, UnlockKeeps,
     OpenStreamKeeps, ReadChunkKeeps, EndStreamKeeps, CommitKeeps, UnloadableKeeps,
     AbortKeeps, KillKeeps
<1>4. ASSUME NEW g \in Generations,
             (\E text \in Texts : EditSource(g, text)) \/ EditCopy(g)
      PROVE  Inv'
  BY <1>4, EditSourceKeeps, EditCopyKeeps
<1>5. CASE UNCHANGED vars
  BY <1>5 DEF vars, cache, history, Inv, Shape, Signed, Distinct, Own, Sound, Calm,
    Spared, Working
<1> QED BY <1>1, <1>2, <1>3, <1>4, <1>5, EmptyKeeps DEF Next

\* The inductive invariant of the restores and of the cache they share holds in
\* every reachable state of restore.mts and restore_cache.mts.
THEOREM Invariant == Spec => []Inv
<1>1. Init => Inv
  BY Beginning
<1>2. Inv /\ [Next]_vars => Inv'
  BY Induction
<1> QED BY <1>1, <1>2, PTL DEF Spec

\* Nothing but the reviewed baseline, whole, is ever committed, whatever other
\* restores, dead writers and hands in the cache leave there, unless the restore
\* has no policy and its file was written after the manager verified it.
THEOREM RestoresAreReviewed == Spec => []RestoredIsReviewed
<1>1. Inv => RestoredIsReviewed
  BY DEF Inv, Own, Sound, RestoredIsReviewed
<1> QED BY <1>1, Invariant, PTL

\* No state of the cache makes a restore fail.
THEOREM CacheIsOptional == Spec => []CacheNeverCosts
<1>1. Inv => CacheNeverCosts
  BY DEF Inv, Own, Spared, CacheNeverCosts
<1> QED BY <1>1, Invariant, PTL
-----------------------------------------------------------------------------
\* The budget: RetainedBytes is the cardinality of a set, Retained, that grows by
\* at most the size of one file in a step.  Budget says what a writer may rely
\* on at its place under the lock, so that no step takes it beyond the budget.

\* The bytes of a set of files.
Held(S) == UNION {Bytes(f) : f \in S}

\* A file has as many bytes as its size.
LEMMA SizeOfFile ==
  ASSUME NEW f, Size(f) \in Nat
  PROVE  IsFiniteSet(Bytes(f)) /\ Cardinality(Bytes(f)) = Size(f)
<1>1. IsFiniteSet({f}) /\ Cardinality({f}) = 1
  BY FS_Singleton
<1>2. IsFiniteSet(1 .. Size(f)) /\ Cardinality(1 .. Size(f)) = Size(f)
  BY FS_Interval
<1> DEFINE I == 1 .. Size(f)
<1>3. IsFiniteSet({f} \X I) /\ Cardinality({f} \X I) = Cardinality({f}) * Cardinality(I)
  <2>1. IsFiniteSet(I)
    BY <1>2
  <2> HIDE DEF I
  <2> QED BY <1>1, <2>1, FS_Product
<1>4. Bytes(f) = {f} \X I
  BY DEF Bytes
<1> QED BY <1>1, <1>2, <1>3, <1>4

\* Fewer files have no more bytes.
LEMMA FewerFiles ==
  ASSUME NEW T, IsFiniteSet(Held(T)), NEW S, S \subseteq T
  PROVE  /\ IsFiniteSet(Held(S)) /\ Cardinality(Held(S)) \in Nat
         /\ Cardinality(Held(S)) <= Cardinality(Held(T))
<1>1. Held(S) \subseteq Held(T)
  BY DEF Held
<1> QED BY <1>1, FS_Subset, FS_CardinalityType

\* One more file adds at most its size.
LEMMA OneMoreFile ==
  ASSUME NEW S, IsFiniteSet(Held(S)), NEW f, Size(f) \in Nat
  PROVE  /\ IsFiniteSet(Held(S \cup {f})) /\ Cardinality(Held(S \cup {f})) \in Nat
         /\ Cardinality(Held(S \cup {f})) <= Cardinality(Held(S)) + Size(f)
<1>1. Held(S \cup {f}) = Held(S) \cup Bytes(f)
  BY DEF Held
<1>2. IsFiniteSet(Held(S) \cap Bytes(f))
  BY FS_Subset, Held(S) \cap Bytes(f) \in SUBSET Held(S)
<1>3. IsFiniteSet(Bytes(f)) /\ Cardinality(Bytes(f)) = Size(f)
  BY SizeOfFile
<1>4. /\ IsFiniteSet(Held(S) \cup Bytes(f))
      /\ Cardinality(Held(S) \cup Bytes(f)) =
           Cardinality(Held(S)) + Size(f) - Cardinality(Held(S) \cap Bytes(f))
  BY <1>3, FS_Union
<1>5. /\ Cardinality(Held(S)) \in Nat /\ Cardinality(Held(S) \cap Bytes(f)) \in Nat
      /\ Cardinality(Held(S) \cup Bytes(f)) \in Nat
  BY <1>2, <1>4, FS_CardinalityType
<1>6. Cardinality(Held(S) \cup Bytes(f)) <= Cardinality(Held(S)) + Size(f)
  BY <1>4, <1>5
<1> QED BY <1>1, <1>4, <1>5, <1>6

\* A file that is renamed keeps its size.
LEMMA RenamedFile ==
  ASSUME NEW S, IsFiniteSet(Held(S)), NEW t \in S, NEW f, Size(f) \in Nat,
         Size(t) = Size(f)
  PROVE  /\ IsFiniteSet(Held((S \ {t}) \cup {f}))
         /\ Cardinality(Held((S \ {t}) \cup {f})) \in Nat
         /\ Cardinality(Held((S \ {t}) \cup {f})) <= Cardinality(Held(S))
<1>1. IsFiniteSet(Bytes(t)) /\ Cardinality(Bytes(t)) = Size(f)
  BY SizeOfFile
<1>2. Held(S \ {t}) = Held(S) \ Bytes(t)
  <2>1. \A h : h # t => Bytes(h) \cap Bytes(t) = {}
    BY DEF Bytes
  <2> QED BY <2>1 DEF Held
<1>3. Held(S) \cap Bytes(t) = Bytes(t)
  BY DEF Held
<1>4. /\ IsFiniteSet(Held(S \ {t}))
      /\ Cardinality(Held(S \ {t})) = Cardinality(Held(S)) - Size(f)
  <2>1. /\ IsFiniteSet(Held(S) \ Bytes(t))
        /\ Cardinality(Held(S) \ Bytes(t)) =
             Cardinality(Held(S)) - Cardinality(Held(S) \cap Bytes(t))
    BY FS_Difference
  <2> QED BY <1>1, <1>2, <1>3, <2>1
<1>5. Cardinality(Held(S)) \in Nat /\ Cardinality(Held(S \ {t})) \in Nat
  BY <1>4, FS_CardinalityType
<1>6. /\ IsFiniteSet(Held((S \ {t}) \cup {f}))
      /\ Cardinality(Held((S \ {t}) \cup {f})) \in Nat
      /\ Cardinality(Held((S \ {t}) \cup {f})) <= Cardinality(Held(S \ {t})) + Size(f)
  BY <1>4, OneMoreFile
<1> QED BY <1>4, <1>5, <1>6

-----------------------------------------------------------------------------

\* What a writer may rely on: the lock is its own, the key exists, and what the
\* inventory found is still all there is, less what it wrote since.
Room(p) ==
  at[p] \in Locked =>
    /\ lock = my[p].run
    /\ at[p] \notin {"key", "clean", "unlock"} => key # None
    /\ at[p] = "encode" => my[p].bytes \in Nat /\ RetainedBytes <= my[p].bytes
    /\ at[p] = "write-copy" =>
         RetainedBytes + Encoded[my[p].gen] + ReceiptBytes <= MaximumBytes
    /\ at[p] = "write-receipt" => RetainedBytes + ReceiptBytes <= MaximumBytes

\* The cache without its key is empty, so a key cut short is alone.
Budgeted ==
  /\ RetainedBytes <= MaximumBytes
  /\ key = None => Regular = {}
  /\ \A p \in Restores : Room(p)

Budget == IsFiniteSet(Retained) /\ disturbed \in Nat /\ (~lifted => Budgeted)

LEMMA RetainedHeld == Retained = Held(Regular) /\ RetainedBytes = Cardinality(Held(Regular))
BY DEF Retained, Held, RetainedBytes

LEMMA RetainedHeldNext ==
  Retained' = Held(Regular') /\ RetainedBytes' = Cardinality(Held(Regular'))
BY DEF Retained, Held, RetainedBytes, Bytes, Size

LEMMA SameFiles ==
  ASSUME UNCHANGED <<key, receipt, copy, temps>>
  PROVE  Regular' = Regular /\ Retained' = Retained /\ RetainedBytes' = RetainedBytes
<1>1. Regular' = Regular
  BY DEF Regular, Final
<1> QED BY <1>1, RetainedHeld, RetainedHeldNext

\* No more than one writer is at work: a step of the lock's owner, one that finds
\* the lock free, or one that leaves the cache as it is leaves the others their room.
LEMMA OthersHaveRoom ==
  ASSUME Inv, ~lifted, Budgeted, NEW p \in Restores,
         \A q \in Restores \ {p} : at'[q] = at[q] /\ my'[q] = my[q],
         \/ at[p] \in Locked
         \/ lock = None
         \/ UNCHANGED cache,
         NEW q \in Restores, q # p
  PROVE  Room(q)'
<1>1. CASE UNCHANGED cache
  <2>1. RetainedBytes' = RetainedBytes
    BY <1>1, SameFiles DEF cache
  <2> QED BY <1>1, <2>1 DEF Budgeted, Room, cache
<1>2. CASE at[p] \in Locked \/ lock = None
  <2>1. SUFFICES ASSUME at[q] \in Locked PROVE FALSE
    BY DEF Room
  <2>2. lock = my[q].run /\ my[q].run \in Nat
    BY <2>1 DEF Budgeted, Room, Inv, Shape, Manager
  <2>3. at[p] \in Locked => Working(p) /\ lock = my[p].run
    BY DEF Budgeted, Room, Inv, Own, Sound, Locked, Idle
  <2> QED BY <1>2, <2>2, <2>3, RestoreAssumption DEF Inv, Distinct
<1> QED BY <1>1, <1>2

\* A step of one restore keeps the budget if its own part of it is kept.
LEMMA StepKeepsBudget ==
  ASSUME Inv, Budget, NEW p \in Restores,
         \A q \in Restores \ {p} : at'[q] = at[q] /\ my'[q] = my[q],
         at[p] \in Locked \/ lock = None \/ UNCHANGED cache,
         IsFiniteSet(Retained'), disturbed' \in Nat, lifted' = lifted,
         ~lifted => /\ RetainedBytes' <= MaximumBytes
                    /\ (key = None => Regular = {})'
                    /\ Room(p)'
  PROVE  Budget'
<1>1. ASSUME ~lifted, NEW q \in Restores PROVE Room(q)'
  BY <1>1, OthersHaveRoom DEF Budget
<1> QED BY <1>1 DEF Budget, Budgeted

\* A step that leaves the files as they are and goes where its room suffices.
LEMMA FilesStay ==
  ASSUME Inv, Budget, NEW p \in Restores,
         \A q \in Restores \ {p} : at'[q] = at[q] /\ my'[q] = my[q],
         UNCHANGED <<key, receipt, copy, temps>>, lifted' = lifted, disturbed' \in Nat,
         at[p] \in Locked \/ lock = None \/ UNCHANGED cache,
         ~lifted /\ RetainedBytes' = RetainedBytes => Room(p)'
  PROVE  Budget'
<1>1. Regular' = Regular /\ Retained' = Retained /\ RetainedBytes' = RetainedBytes
  BY SameFiles
<1> QED BY <1>1, StepKeepsBudget DEF Budget, Budgeted

\* Most steps leave the cache alone and the lock behind them.
LEMMA OutsideTheLock ==
  ASSUME Inv, Budget, NEW p \in Restores,
         \A q \in Restores \ {p} : at'[q] = at[q] /\ my'[q] = my[q],
         UNCHANGED cache, disturbed' \in Nat, lifted' = lifted, at'[p] \notin Locked
  PROVE  Budget'
BY FilesStay DEF cache, Room

\* Of the steps taken before the lock and after it, none touches the files.
LEMMA LooksKeepBudget ==
  ASSUME Inv, Budget, NEW p \in Restores,
         \/ \E g \in Generations, plain \in BOOLEAN : Begin(p, g, plain)
         \/ BeginPlain(p) \/ BeginCached(p)
         \/ ReadSource(p) \/ Inventory(p) \/ ReadReceipt(p) \/ ReadCopy(p)
         \/ OpenStream(p) \/ ReadChunk(p) \/ EndStream(p) \/ Commit(p) \/ Unloadable(p)
  PROVE  Budget'
<1> USE DEF Inv, Shape, Goto, End, Locked, history
<1>1. UNCHANGED <<cache, lifted, disturbed>>
  BY DEF Begin, BeginPlain, BeginCached, ReadSource, Inventory, ReadReceipt, ReadCopy,
    OpenStream, ReadChunk, EndStream, Commit, Unloadable
<1>2. /\ \A q \in Restores \ {p} : at'[q] = at[q] /\ my'[q] = my[q]
      /\ at'[p] \notin Locked
  <2>1. CASE \/ \E g \in Generations, plain \in BOOLEAN : Begin(p, g, plain)
             \/ BeginPlain(p) \/ BeginCached(p)
    BY <2>1 DEF Begin, BeginPlain, BeginCached
  <2>2. CASE ReadSource(p) \/ Inventory(p) \/ ReadReceipt(p)
    BY <2>2 DEF ReadSource, Inventory, ReadReceipt
  <2>3. CASE ReadCopy(p)
    BY <2>3 DEF ReadCopy, FromMemory
  <2>4. CASE OpenStream(p) \/ ReadChunk(p) \/ EndStream(p) \/ Commit(p) \/ Unloadable(p)
    BY <2>4 DEF OpenStream, ReadChunk, EndStream, Commit, Unloadable
  <2> QED BY <2>1, <2>2, <2>3, <2>4
<1> QED BY <1>1, <1>2, OutsideTheLock DEF Budget

LEMMA TakeLockKeepsBudget ==
  ASSUME Inv, Budget, NEW p \in Restores, TakeLock(p)
  PROVE  Budget'
<1>1. /\ \A q \in Restores \ {p} : at'[q] = at[q] /\ my'[q] = my[q]
      /\ UNCHANGED <<key, receipt, copy, temps, lifted, disturbed>>
      /\ my'[p] = my[p] /\ at'[p] \in {"key", "verify"}
      /\ at'[p] = "key" => lock = None /\ lock' = my[p].run
      /\ at'[p] = "verify" => lock' = lock
  BY DEF TakeLock, Goto, LockIsFree, Inv, Shape, history
<1>2. Room(p)'
  BY <1>1 DEF Room, Locked
<1> QED BY <1>1, <1>2, FilesStay DEF Budget, cache

\* On the way out of the cache only the lock matters.
LEMMA LeavingKeepsBudget ==
  ASSUME Inv, Budget, NEW p \in Restores, NEW step, Leave(p, step), at[p] \in Locked,
         UNCHANGED <<cache, lifted>>, disturbed' \in Nat
  PROVE  Budget'
<1>1. /\ \A q \in Restores \ {p} : at'[q] = at[q] /\ my'[q] = my[q]
      /\ at'[p] = "clean" /\ my'[p].run = my[p].run
  BY DEF Leave, Goto, Inv, Shape, Manager
<1>2. ~lifted => Room(p)'
  BY <1>1 DEF Budget, Budgeted, Room, cache
<1> QED BY <1>1, <1>2, FilesStay DEF cache

LEMMA EnsureKeyKeepsBudget ==
  ASSUME Inv, Budget, NEW p \in Restores, EnsureKey(p)
  PROVE  Budget'
<1> USE DEF Inv, Shape, Goto
<1>1. /\ at[p] = "key" /\ at[p] \in Locked
      /\ UNCHANGED <<lock, receipt, copy, temps, lifted, disturbed>>
  BY DEF EnsureKey, history, Locked
<1>2. CASE /\ key \notin {None, 0} /\ Goto(p, "encode") /\ UNCHANGED key
           /\ my' = [my EXCEPT ![p].key = key, ![p].bytes = RetainedBytes]
  <2>1. /\ \A q \in Restores \ {p} : at'[q] = at[q] /\ my'[q] = my[q]
        /\ at'[p] = "encode" /\ my'[p].run = my[p].run /\ my'[p].bytes = RetainedBytes
    BY <1>2 DEF Manager
  <2>2. RetainedBytes \in Nat
    BY FS_CardinalityType DEF Budget, RetainedBytes
  <2>3. ASSUME ~lifted, RetainedBytes' = RetainedBytes PROVE Room(p)'
    BY <1>1, <1>2, <2>1, <2>2, <2>3 DEF Budget, Budgeted, Room
  <2> QED BY <1>1, <1>2, <2>1, <2>3, FilesStay DEF Budget
<1>3. CASE /\ key = None /\ RetainedBytes + KeyBytes <= MaximumBytes
           /\ key' = disturbed + 1 /\ Goto(p, "encode")
           /\ my' = [my EXCEPT ![p].key = disturbed + 1,
                               ![p].bytes = RetainedBytes + KeyBytes]
  <2> DEFINE f == Final(None, "key")
  <2>1. /\ \A q \in Restores \ {p} : at'[q] = at[q] /\ my'[q] = my[q]
        /\ at'[p] = "encode" /\ my'[p].run = my[p].run
        /\ my'[p].bytes = RetainedBytes + KeyBytes
    BY <1>3 DEF Manager
  <2>2. key' # None
    BY <1>3, RestoreAssumption DEF Budget
  <2>3. Regular' = Regular \cup {f}
    BY <1>1, <1>3, <2>2 DEF Regular, Final
  <2>4. Size(f) = KeyBytes /\ KeyBytes = 1
    BY DEF Size, Final, KeyBytes
  <2>5. /\ IsFiniteSet(Retained') /\ RetainedBytes' \in Nat
        /\ RetainedBytes' <= RetainedBytes + KeyBytes
    BY <2>3, <2>4, RetainedHeld, RetainedHeldNext, OneMoreFile DEF Budget
  <2>6. RetainedBytes \in Nat
    BY FS_CardinalityType DEF Budget, RetainedBytes
  <2>7. ASSUME ~lifted PROVE RetainedBytes' <= MaximumBytes /\ Room(p)'
    BY <1>1, <1>3, <2>1, <2>2, <2>4, <2>5, <2>6, <2>7, RestoreAssumption
    DEF Budget, Budgeted, Room
  <2> QED BY <1>1, <2>1, <2>2, <2>5, <2>7, StepKeepsBudget DEF Budget
<1>4. CASE Leave(p, "verify") /\ UNCHANGED key
  BY <1>1, <1>4, LeavingKeepsBudget DEF Budget, cache
<1> QED BY <1>2, <1>3, <1>4 DEF EnsureKey

\* The inventory under the lock makes room for the copy and for the receipt.
LEMMA EncodeKeepsBudget ==
  ASSUME Inv, Budget, NEW p \in Restores, Encode(p)
  PROVE  Budget'
<1> USE DEF Inv, Shape, Goto
<1>1. at[p] = "encode" /\ at[p] \in Locked /\ UNCHANGED <<cache, lifted, disturbed>>
  BY DEF Encode, history, Locked
<1>2. CASE Fits(p) /\ Goto(p, "write-copy") /\ my' = [my EXCEPT ![p].bytes = 0]
  <2>1. /\ \A q \in Restores \ {p} : at'[q] = at[q] /\ my'[q] = my[q]
        /\ at'[p] = "write-copy" /\ my'[p].run = my[p].run /\ my'[p].gen = my[p].gen
    BY <1>2 DEF Manager
  <2>2. RetainedBytes \in Nat /\ ReceiptBytes \in Nat /\ Encoded[my[p].gen] \in Nat
    <3>1. my[p].gen \in Generations
      BY <1>1 DEF Own, Sound, Idle
    <3> QED BY <3>1, FS_CardinalityType, RestoreAssumption
            DEF Budget, RetainedBytes, ReceiptBytes
  <2>3. ASSUME ~lifted, RetainedBytes' = RetainedBytes PROVE Room(p)'
    <3>1. my[p].bytes \in Nat /\ RetainedBytes <= my[p].bytes /\ key # None
          /\ lock = my[p].run
      BY <1>1, <2>3 DEF Budget, Budgeted, Room
    <3>2. RetainedBytes + Encoded[my[p].gen] + ReceiptBytes <= MaximumBytes
      BY <1>2, <2>2, <3>1, RestoreAssumption DEF Fits
    <3> QED BY <1>1, <2>1, <2>3, <3>1, <3>2 DEF Room, cache
  <2> QED BY <1>1, <2>1, <2>3, FilesStay DEF Budget, cache
<1>3. CASE Leave(p, "verify")
  BY <1>1, <1>3, LeavingKeepsBudget DEF Budget
<1> QED BY <1>2, <1>3 DEF Encode

\* A temporary file is one more file of the size that was reckoned with.
LEMMA WriteTemporaryKeepsBudget ==
  ASSUME Inv, Budget, NEW p \in Restores, NEW kind \in {"copy", "receipt"},
         NEW next \in {"write-receipt", "place-copy"},
         \/ at[p] = "write-copy" /\ kind = "copy" /\ next = "write-receipt"
         \/ at[p] = "write-receipt" /\ kind = "receipt" /\ next = "place-copy",
         WriteTemporary(p, kind, next)
  PROVE  Budget'
<1> USE DEF Inv, Shape, Goto
<1> DEFINE t == Temporary(p, kind)
<1>1. /\ at[p] \in Locked /\ Working(p) /\ my[p].gen \in Generations
      /\ UNCHANGED <<key, lock, receipt, copy, lifted, disturbed>>
      /\ temps' = temps \cup {t}
  BY DEF WriteTemporary, history, Locked, Idle, Own, Sound
<1>2. /\ \A q \in Restores \ {p} : at'[q] = at[q] /\ my'[q] = my[q]
      /\ at'[p] \in {next, "clean"}
      /\ my'[p].run = my[p].run /\ my'[p].gen = my[p].gen
  BY DEF WriteTemporary, Manager
<1>3. Regular' = Regular \cup {t}
  BY <1>1 DEF Regular, Final
<1>4. /\ Size(t) = IF kind = "copy" THEN Encoded[my[p].gen] ELSE ReceiptBytes
      /\ Encoded[my[p].gen] \in Nat /\ ReceiptBytes = 1
  BY <1>1, RestoreAssumption DEF Size, Temporary, ReceiptBytes
<1> HIDE DEF t
<1>5. /\ IsFiniteSet(Retained') /\ RetainedBytes' \in Nat
      /\ RetainedBytes' <= RetainedBytes + Size(t)
  BY <1>3, <1>4, RetainedHeld, RetainedHeldNext, OneMoreFile DEF Budget
<1>6. RetainedBytes \in Nat
  BY FS_CardinalityType DEF Budget, RetainedBytes
<1>7. ASSUME ~lifted
      PROVE  RetainedBytes' <= MaximumBytes /\ key # None /\ Room(p)'
  <2>1. key # None /\ lock = my[p].run
    BY <1>1, <1>7 DEF Budget, Budgeted, Room
  <2>2. CASE kind = "copy"
    <3>1. RetainedBytes' + ReceiptBytes <= MaximumBytes
      <4>1. RetainedBytes + Encoded[my[p].gen] + ReceiptBytes <= MaximumBytes
        BY <1>1, <1>7, <2>2 DEF Budget, Budgeted, Room
      <4> QED BY <1>4, <1>5, <1>6, <2>2, <4>1, RestoreAssumption
    <3> QED BY <1>1, <1>2, <1>4, <1>5, <2>1, <2>2, <3>1, RestoreAssumption DEF Room
  <2>3. CASE kind = "receipt"
    <3>1. RetainedBytes + ReceiptBytes <= MaximumBytes
      BY <1>1, <1>7, <2>3 DEF Budget, Budgeted, Room
    <3>2. RetainedBytes' <= MaximumBytes
      BY <1>4, <1>5, <1>6, <2>3, <3>1, RestoreAssumption
    <3> QED BY <1>1, <1>2, <2>1, <2>3, <3>2 DEF Room
  <2> QED BY <2>2, <2>3
<1> QED BY <1>1, <1>2, <1>5, <1>7, StepKeepsBudget DEF Budget

\* A file that gets its final name takes the place of its temporary one.
LEMMA Placed ==
  ASSUME Inv, Budget, NEW p \in Restores, Working(p), NEW kind \in {"copy", "receipt"},
         Place(p, kind),
         Regular' \subseteq (Regular \ {Temporary(p, kind)})
                               \cup {Final(my[p].gen, kind)}
  PROVE  /\ IsFiniteSet(Retained') /\ RetainedBytes' \in Nat
         /\ RetainedBytes' <= RetainedBytes
<1> DEFINE t == Temporary(p, kind)
           f == Final(my[p].gen, kind)
           S == (Regular \ {t}) \cup {f}
<1>1. t \in Regular
  BY DEF Place, Regular
<1>2. Size(f) \in Nat /\ Size(t) = Size(f)
  <2>1. my[p].gen \in Generations
    BY DEF Inv, Own, Sound
  <2> QED BY <2>1, RestoreAssumption DEF Size, Temporary, Final, ReceiptBytes
<1> HIDE DEF t, f
<1>3. IsFiniteSet(Held(Regular)) /\ Cardinality(Held(Regular)) \in Nat
  BY RetainedHeld, FS_CardinalityType DEF Budget
<1>4. /\ IsFiniteSet(Held(S)) /\ Cardinality(Held(S)) \in Nat
      /\ Cardinality(Held(S)) <= Cardinality(Held(Regular))
  BY <1>1, <1>2, <1>3, RenamedFile
<1>5. Regular' \subseteq S
  BY DEF t, f
<1> HIDE DEF S
<1>6. /\ IsFiniteSet(Held(Regular')) /\ Cardinality(Held(Regular')) \in Nat
      /\ Cardinality(Held(Regular')) <= Cardinality(Held(S))
  BY <1>4, <1>5, FewerFiles
<1> QED BY <1>3, <1>4, <1>6, RetainedHeld, RetainedHeldNext

LEMMA PlaceKeepsBudget ==
  ASSUME Inv, Budget, NEW p \in Restores, PlaceCopy(p) \/ PlaceReceipt(p)
  PROVE  Budget'
<1> USE DEF Inv, Shape, Goto
<1>1. /\ at[p] \in {"place-copy", "place-receipt"} /\ at[p] \in Locked /\ Working(p)
      /\ UNCHANGED <<key, lock, lifted, disturbed>>
  BY DEF PlaceCopy, PlaceReceipt, history, Locked, Idle, Own, Sound
<1>2. CASE \E kind \in {"copy", "receipt"} : Misplaced(p, kind) /\ UNCHANGED <<copy, receipt>>
  BY <1>1, <1>2, LeavingKeepsBudget DEF Budget, Misplaced, cache
<1>3. CASE \E kind \in {"copy", "receipt"} :
             /\ Place(p, kind) /\ at'[p] \in {"place-receipt", "clean"}
             /\ \A q \in Restores \ {p} : at'[q] = at[q] /\ my'[q] = my[q]
             /\ my'[p].run = my[p].run
             /\ Regular' \subseteq (Regular \ {Temporary(p, kind)})
                               \cup {Final(my[p].gen, kind)}
  <2>1. /\ IsFiniteSet(Retained') /\ RetainedBytes' \in Nat
        /\ RetainedBytes' <= RetainedBytes
    BY <1>1, <1>3, Placed
  <2>2. RetainedBytes \in Nat
    BY FS_CardinalityType DEF Budget, RetainedBytes
  <2>3. ASSUME ~lifted
        PROVE  RetainedBytes' <= MaximumBytes /\ key # None /\ Room(p)'
    BY <1>1, <1>3, <2>1, <2>2, <2>3, RestoreAssumption DEF Budget, Budgeted, Room
  <2> QED BY <1>1, <1>3, <2>1, <2>3, StepKeepsBudget DEF Budget
<1>4. CASE PlaceCopy(p) /\ Place(p, "copy") /\ Goto(p, "place-receipt")
           /\ copy' = [copy EXCEPT ![my[p].gen] = "reviewed"]
           /\ my' = [my EXCEPT ![p].opened = @ \ {Temporary(p, "copy")}]
  <2>1. /\ \A q \in Restores \ {p} : at'[q] = at[q] /\ my'[q] = my[q]
        /\ my'[p].run = my[p].run /\ at'[p] = "place-receipt"
    BY <1>4 DEF Manager
  <2>2. \A h \in Generations : h # my[p].gen => copy'[h] = copy[h]
    BY <1>4 DEF Shape
  <2>3. Regular' \subseteq (Regular \ {Temporary(p, "copy")})
                               \cup {Final(my[p].gen, "copy")}
    <3>1. receipt' = receipt /\ key' = key /\ temps' = temps \ {Temporary(p, "copy")}
      BY <1>4 DEF PlaceCopy, Place
    <3>2. Temporary(p, "copy").owner # 0
      BY <1>1 DEF Temporary, Working
    <3> QED BY <2>2, <3>1, <3>2 DEF Regular, Final
  <2> QED BY <1>3, <1>4, <2>1, <2>3
<1>5. CASE PlaceReceipt(p) /\ Place(p, "receipt") /\ Goto(p, "clean")
           /\ receipt' = [receipt EXCEPT ![my[p].gen] =
                            [key |-> my[p].key, text |-> "reviewed"]]
           /\ my' = [FromMemory(p, "reviewed") EXCEPT ![p].opened = {},
                                                      ![p].then = "verify"]
  <2>1. /\ \A q \in Restores \ {p} : at'[q] = at[q] /\ my'[q] = my[q]
        /\ my'[p].run = my[p].run /\ at'[p] = "clean"
    BY <1>5 DEF Manager, FromMemory
  <2>2. \A h \in Generations : h # my[p].gen => receipt'[h] = receipt[h]
    BY <1>5
  <2>3. Regular' \subseteq (Regular \ {Temporary(p, "receipt")})
                               \cup {Final(my[p].gen, "receipt")}
    <3>1. copy' = copy /\ key' = key /\ temps' = temps \ {Temporary(p, "receipt")}
      BY <1>5 DEF PlaceReceipt, Place
    <3>2. Temporary(p, "receipt").owner # 0
      BY <1>1 DEF Temporary, Working
    <3> QED BY <2>2, <3>1, <3>2 DEF Regular, Final
  <2> QED BY <1>3, <1>5, <2>1, <2>3
<1> QED BY <1>2, <1>4, <1>5 DEF PlaceCopy, PlaceReceipt

LEMMA CleanKeepsBudget ==
  ASSUME Inv, Budget, NEW p \in Restores, Clean(p)
  PROVE  Budget'
<1> USE DEF Inv, Shape, Goto, End
<1>1. /\ at[p] = "clean" /\ at[p] \in Locked
      /\ UNCHANGED <<key, lock, receipt, copy, lifted, disturbed>>
  BY DEF Clean, history, Locked
<1>2. /\ \A q \in Restores \ {p} : at'[q] = at[q] /\ my'[q] = my[q]
      /\ at'[p] \in {"unlock", "failed"}
      /\ at'[p] = "unlock" => my'[p].run = my[p].run
  BY DEF Clean, Manager
<1>3. Regular' \subseteq Regular
  BY <1>1 DEF Regular, Final, Clean
<1>4. /\ IsFiniteSet(Retained') /\ RetainedBytes' \in Nat
      /\ RetainedBytes' <= RetainedBytes
  BY <1>3, RetainedHeld, RetainedHeldNext, FewerFiles DEF Budget
<1>5. RetainedBytes \in Nat
  BY FS_CardinalityType DEF Budget, RetainedBytes
<1>6. ASSUME ~lifted PROVE Room(p)'
  BY <1>1, <1>2, <1>6 DEF Budget, Budgeted, Room, Locked
<1>7. ASSUME ~lifted PROVE RetainedBytes' <= MaximumBytes /\ (key = None => Regular = {})'
  BY <1>1, <1>3, <1>4, <1>5, <1>7, RestoreAssumption DEF Budget, Budgeted
<1> QED BY <1>1, <1>2, <1>4, <1>6, <1>7, StepKeepsBudget DEF Budget

LEMMA UnlockKeepsBudget ==
  ASSUME Inv, Budget, NEW p \in Restores, Unlock(p)
  PROVE  Budget'
<1>1. /\ \A q \in Restores \ {p} : at'[q] = at[q] /\ my'[q] = my[q]
      /\ at[p] \in Locked /\ at'[p] \notin Locked
      /\ UNCHANGED <<key, receipt, copy, temps, lifted, disturbed>>
  BY DEF Unlock, Goto, End, Inv, Shape, Own, Sound, history, Locked
<1> QED BY <1>1, FilesStay DEF Budget, Room

LEMMA AbortKeepsBudget ==
  ASSUME Inv, Budget, NEW p \in Restores, Abort(p)
  PROVE  Budget'
<1>1. UNCHANGED <<cache, lifted>> /\ disturbed' \in Nat
  BY DEF Abort, Disturb, Budget
<1>2. CASE at[p] \in {"key", "encode", "place-copy"} /\ Leave(p, "failed")
  BY <1>1, <1>2, LeavingKeepsBudget DEF Locked
<1>3. CASE End(p, "failed")
  <2>1. /\ \A q \in Restores \ {p} : at'[q] = at[q] /\ my'[q] = my[q]
        /\ at'[p] \notin Locked
    BY <1>3 DEF End, Goto, Inv, Shape, Locked
  <2> QED BY <1>1, <2>1, OutsideTheLock
<1> QED BY <1>2, <1>3 DEF Abort

\* A writer that is killed leaves its files, and perhaps a key cut short: the
\* first file of an empty cache.
LEMMA KillKeepsBudget ==
  ASSUME Inv, Budget, NEW p \in Restores, Kill(p)
  PROVE  Budget'
<1>1. /\ UNCHANGED <<lock, receipt, copy, temps, lifted>> /\ disturbed' \in Nat
      /\ \A q \in Restores \ {p} : at'[q] = at[q] /\ my'[q] = my[q]
      /\ at'[p] \notin Locked
  BY DEF Kill, Disturb, Budget, End, Goto, Inv, Shape, Locked
<1>2. CASE UNCHANGED key
  BY <1>1, <1>2, OutsideTheLock DEF cache
<1>3. CASE at[p] = "key" /\ key = None /\ key' = 0
  <2> DEFINE f == Final(None, "key")
  <2>1. Regular' = Regular \cup {f}
    BY <1>1, <1>3, RestoreAssumption DEF Regular, Final
  <2>2. Size(f) = 1
    BY DEF Size, Final, KeyBytes
  <2>3. /\ IsFiniteSet(Retained') /\ RetainedBytes' \in Nat
        /\ RetainedBytes' <= RetainedBytes + 1
    BY <2>1, <2>2, RetainedHeld, RetainedHeldNext, OneMoreFile DEF Budget
  <2>4. ASSUME ~lifted PROVE RetainedBytes' <= MaximumBytes
    <3>1. Regular = {}
      BY <1>3, <2>4 DEF Budget, Budgeted
    <3>2. RetainedBytes = 0
      BY <3>1, RetainedHeld, FS_EmptySet DEF Held
    <3> QED BY <2>3, <3>2, RestoreAssumption
  <2>5. key' # None /\ Room(p)' /\ at[p] \in Locked
    BY <1>1, <1>3, RestoreAssumption DEF Room, Locked
  <2> QED BY <1>1, <2>3, <2>4, <2>5, StepKeepsBudget DEF Budget
<1> QED BY <1>2, <1>3 DEF Kill

LEMMA EditSourceKeepsBudget ==
  ASSUME Inv, Budget, NEW g \in Generations, NEW text, EditSource(g, text)
  PROVE  Budget'
<1>1. /\ UNCHANGED <<key, lock, receipt, copy, temps, at, lifted>> /\ disturbed' \in Nat
  BY DEF EditSource, Disturb, Budget, cache
<1>2. ASSUME NEW p \in Restores
      PROVE  /\ my'[p].run = my[p].run /\ my'[p].gen = my[p].gen
             /\ my'[p].bytes = my[p].bytes
  <2>1. Manager(my[p])
    BY DEF Inv, Shape
  <2>2. my'[p] = my[p] \/ my'[p] = [my[p] EXCEPT !.moved = TRUE]
    BY DEF EditSource
  <2> QED BY <2>1, <2>2 DEF Manager
<1>3. Regular' = Regular /\ Retained' = Retained /\ RetainedBytes' = RetainedBytes
  BY <1>1, SameFiles
<1> QED BY <1>1, <1>2, <1>3 DEF Budget, Budgeted, Room

\* What fits beside more fits beside less.
LEMMA FewerFit ==
  ASSUME NEW fewer \in Nat, NEW more \in Nat, NEW added \in Nat, NEW limit \in Nat,
         fewer <= more, more + added <= limit
  PROVE  fewer + added <= limit
OBVIOUS

LEMMA EditCopyKeepsBudget ==
  ASSUME Inv, Budget, NEW g \in Generations, EditCopy(g)
  PROVE  Budget'
<1>1. /\ UNCHANGED <<key, lock, receipt, temps, at, my, lifted>> /\ disturbed' \in Nat
  BY DEF EditCopy, Disturb, Budget
<1>2. \A h \in Generations : copy'[h] # None => copy[h] # None
  BY DEF EditCopy, Inv, Shape
<1>3. Regular' \subseteq Regular
  BY <1>1, <1>2 DEF Regular, Final
<1>4. /\ IsFiniteSet(Retained') /\ RetainedBytes' \in Nat
      /\ RetainedBytes' <= RetainedBytes
  BY <1>3, RetainedHeld, RetainedHeldNext, FewerFiles DEF Budget
<1>5. RetainedBytes \in Nat
  BY FS_CardinalityType DEF Budget, RetainedBytes
<1>6. ASSUME ~lifted
      PROVE  RetainedBytes' <= MaximumBytes /\ (key = None => Regular = {})'
  BY <1>1, <1>3, <1>4, <1>5, <1>6, RestoreAssumption DEF Budget, Budgeted
<1>7. ASSUME ~lifted, NEW p \in Restores PROVE Room(p)'
  <2>1. Room(p)
    BY <1>7 DEF Budget, Budgeted
  <2>2. ASSUME at[p] = "write-copy"
        PROVE  RetainedBytes' + Encoded[my[p].gen] + ReceiptBytes <= MaximumBytes
    <3>1. Encoded[my[p].gen] \in Nat
      BY <2>2, RestoreAssumption DEF Inv, Own, Sound, Idle
    <3>2. RetainedBytes + Encoded[my[p].gen] + ReceiptBytes <= MaximumBytes
      BY <2>1, <2>2 DEF Room, Locked
    <3> QED BY <1>4, <1>5, <3>1, <3>2, RestoreAssumption DEF ReceiptBytes
  <2>3. ASSUME at[p] = "write-receipt"
        PROVE  RetainedBytes' + ReceiptBytes <= MaximumBytes
    <3>1. RetainedBytes + ReceiptBytes <= MaximumBytes
      BY <2>1, <2>3 DEF Room, Locked
    <3>2. MaximumBytes \in Nat /\ ReceiptBytes \in Nat
      BY RestoreAssumption DEF ReceiptBytes
    <3> QED BY <1>4, <1>5, <3>1, <3>2, FewerFit
  <2>4. ASSUME at[p] = "encode"
        PROVE  my[p].bytes \in Nat /\ RetainedBytes' <= my[p].bytes
    BY <1>4, <1>5, <2>1, <2>4 DEF Room, Locked
  <2> QED BY <1>1, <2>1, <2>2, <2>3, <2>4 DEF Room
<1> QED BY <1>1, <1>4, <1>6, <1>7 DEF Budget, Budgeted

LEMMA EmptyKeepsBudget ==
  ASSUME Inv, Budget, Empty
  PROVE  Budget'
<1>1. Regular' = {} /\ lifted' /\ disturbed' \in Nat
  BY DEF Empty, Disturb, Regular, Budget
<1>2. Retained' = {}
  BY <1>1, RetainedHeldNext DEF Held
<1> QED BY <1>1, <1>2, FS_EmptySet DEF Budget

LEMMA BeginsInBudget == Init => Budget
<1> SUFFICES ASSUME Init PROVE Budget
  OBVIOUS
<1>1. Regular = {}
  BY DEF Init, Regular
<1>2. Retained = {} /\ IsFiniteSet(Retained) /\ RetainedBytes = 0
  BY <1>1, FS_EmptySet DEF Retained, RetainedBytes
<1>3. \A p \in Restores : Room(p)
  BY DEF Init, Room, Locked
<1> QED BY <1>1, <1>2, <1>3, RestoreAssumption DEF Init, Budget, Budgeted

LEMMA BudgetInduction == Inv /\ Budget /\ [Next]_vars => Budget'
<1> SUFFICES ASSUME Inv, Budget, [Next]_vars PROVE Budget'
  OBVIOUS
<1>1. ASSUME NEW p \in Restores,
             \/ \E g \in Generations, plain \in BOOLEAN : Begin(p, g, plain)
             \/ BeginPlain(p) \/ BeginCached(p)
             \/ ReadSource(p) \/ Inventory(p) \/ ReadReceipt(p) \/ ReadCopy(p)
             \/ OpenStream(p) \/ ReadChunk(p) \/ EndStream(p) \/ Commit(p)
             \/ Unloadable(p)
      PROVE  Budget'
  BY <1>1, LooksKeepBudget
<1>2. ASSUME NEW p \in Restores, WriteCopy(p) \/ WriteReceipt(p)
      PROVE  Budget'
  BY <1>2, WriteTemporaryKeepsBudget DEF WriteCopy, WriteReceipt
<1>3. ASSUME NEW p \in Restores,
             \/ TakeLock(p) \/ EnsureKey(p) \/ Encode(p) \/ PlaceCopy(p)
             \/ PlaceReceipt(p) \/ Clean(p) \/ Unlock(p) \/ Abort(p) \/ Kill(p)
      PROVE  Budget'
  BY <1>3, TakeLockKeepsBudget, EnsureKeyKeepsBudget, EncodeKeepsBudget,
     PlaceKeepsBudget, CleanKeepsBudget, UnlockKeepsBudget, AbortKeepsBudget,
     KillKeepsBudget
<1>4. ASSUME NEW g \in Generations,
             (\E text \in Texts : EditSource(g, text)) \/ EditCopy(g)
      PROVE  Budget'
  BY <1>4, EditSourceKeepsBudget, EditCopyKeepsBudget
<1>5. CASE UNCHANGED vars
  <2>1. Regular' = Regular /\ Retained' = Retained /\ RetainedBytes' = RetainedBytes
    BY <1>5, SameFiles DEF vars, cache
  <2> QED BY <1>5, <2>1 DEF vars, cache, history, Budget, Budgeted, Room
<1> QED BY <1>1, <1>2, <1>3, <1>4, <1>5, EmptyKeepsBudget DEF Next

\* The cache never outgrows the policy's budget, temporary files and what killed
\* writers left included, for any number of restores, generations and sizes.
THEOREM BudgetIsKept == Spec => []BudgetKept
<1>1. Init => Budget
  BY BeginsInBudget
<1>2. Inv /\ Budget /\ [Next]_vars => Budget'
  BY BudgetInduction
<1>3. Budget => BudgetKept
  BY DEF Budget, Budgeted, BudgetKept
<1> QED BY <1>1, <1>2, <1>3, Invariant, PTL DEF Spec

-----------------------------------------------------------------------------
(* One Docker daemon.                                                      *)

ClaimStages ==
  {"inspect", "volumes", "remove", "confirm", "preserved", "recheck", "recheck-volumes"}
TagStages == {"in-use", "tag", "in-use-again", "untag"}
TargetStages == {"refresh", "bind", "stop", "proof"}
Applied == {"next", "runtime"} \cup ClaimStages \cup TagStages \cup TargetStages
Listing == {"list-volumes", "measure", "list-images", "shown", "quota", "admitted"}
Sampling == {"standing", "stats", "free", "standing-again", "evaluate"}

Machine ==
  /\ now \in Nat
  /\ box \in [Boxes -> [state : {"none", "running", "exited", "gone"}, since : Nat]]
  /\ volume \in [Volumes -> Nat]
  /\ tag \in [DOMAIN Tags -> Nat \cup {Nothing}]

\* What a plan to apply is about; the user is shown no conflict to stop.
WellMade(p) ==
  /\ p.kind \in {"retire", "images", "stale"}
  /\ p.kind = "retire" => DOMAIN p.boxes = Claimed
  /\ p.kind = "images" => \A i \in DOMAIN p.images : p.images[i] \subseteq DOMAIN Tags
  /\ p.kind = "stale" => \A e \in DOMAIN p.targets : \A c \in DOMAIN p.targets[e] :
       c \in Boxes /\ ~OwnershipConflicts(BoxLabels[c], e)

\* A command that applies a plan works on the confirmed one.
AsConfirmed ==
  /\ stage \in Applied => plan = consent /\ WellMade(plan) /\ todo \subseteq Work(plan)
  /\ stage \in ClaimStages => plan.kind = "retire" /\ current \in todo
  /\ stage \in TagStages => plan.kind = "images" /\ current \in todo
  /\ stage \in TargetStages => plan.kind = "stale" /\ current \in todo
  /\ stage = "runtime" => plan.kind = "images" /\ plan.included /\ Primary \notin Sheltered

\* What its last look at the item at hand has shown, unless it has changed since.
AtHand ==
  /\ stage \notin {"preserved", "recheck", "recheck-volumes"} => answer = Nothing
  /\ stage \in {"preserved", "recheck", "recheck-volumes"} =>
       \/ answer \in {Nothing, Gone(current)} \/ Item("box", current) \in changed
  /\ stage = "preserved" => answer = TRUE
  /\ stage \in {"volumes", "remove"} =>
       SnapshotHolds(current) \/ Item("box", current) \in changed
  /\ stage \in {"in-use-again", "untag"} =>
       tag[current] = ImageOfTag(current) \/ Item("tag", current) \in changed
  /\ stage = "untag" =>
       Unused(ImageOfTag(current)) \/ Item("use", ImageOfTag(current)) \in changed
  /\ stage = "stop" => \A c \in DOMAIN plan.targets[current] :
       box[c] = plan.targets[current][c] \/ Item("box", c) \in changed

Inventoried(p) ==
  /\ p = [kind |-> p.kind, boxes |-> p.boxes, volumes |-> p.volumes, sizes |-> p.sizes,
          named |-> p.named, available |-> p.available, memory |-> p.memory]
  /\ p.kind \in {"inspect", "start"} /\ p.volumes \subseteq Volumes

\* What an inventory has listed so far, unless it has changed since.
SeenSince(c) ==
  \/ Stands(c) /\ c \in DOMAIN plan.boxes /\ plan.boxes[c] = box[c]
  \/ ~Stands(c) /\ c \notin DOMAIN plan.boxes
  \/ Touched(c) \subseteq changed

Listed ==
  /\ stage \in {"list"} \cup Listing \cup Sampling =>
       Inventoried(plan) /\ (plan.available \/ stage = "shown")
  /\ stage \in Listing /\ plan.available => \A c \in Boxes : SeenSince(c)
  /\ stage \in Listing \ {"list-volumes"} /\ plan.available =>
       plan.volumes = SeenVolumes \/ changed \cap VolumeItems # {}
  /\ stage = "shown" /\ plan.available => plan.named = Named \/ changed \cap TagItems # {}
  /\ stage = "admitted" /\ Quota # Nothing => BytesOf(OfProject(plan.volumes)) <= Quota

\* What a measurement has found.
Measured ==
  /\ stage \in Sampling \ {"standing"} => plan.boxes \subseteq Boxes
  /\ stage \in {"standing-again", "evaluate"} =>
       plan.memory \in Int /\ plan.memory + MemoryOf(plan.boxes) <= EngineMemory
  /\ stage = "evaluate" => plan.boxes = RunningBoxes \/ changed \cap BoxItems # {}

DockerInvariant == Machine /\ AsConfirmed /\ AtHand /\ Listed /\ Measured

\* The sets of stages exclude each other.
LEMMA OnlyApplied ==
  ASSUME stage' \in Applied
  PROVE  Listed' /\ Measured'
BY DEF Applied, ClaimStages, TagStages, TargetStages, Listing, Sampling, Listed, Measured

LEMMA OnlyLooking ==
  ASSUME stage' \in {"list"} \cup Listing \cup Sampling, answer' = Nothing
  PROVE  AsConfirmed' /\ AtHand'
BY DEF Applied, ClaimStages, TagStages, TargetStages, Listing, Sampling, AsConfirmed, AtHand

LEMMA EndKeeps ==
  ASSUME Machine', EndCommand
  PROVE  DockerInvariant'
<1>1. stage' = "idle" /\ answer' = Nothing
  BY DEF EndCommand
<1>2. AsConfirmed'
  BY <1>1 DEF AsConfirmed, Applied, ClaimStages, TagStages, TargetStages
<1>3. AtHand'
  BY <1>1 DEF AtHand
<1>4. Listed' /\ Measured'
  BY <1>1 DEF Listed, Measured, Listing, Sampling
<1>5. QED
  BY <1>2, <1>3, <1>4 DEF DockerInvariant

\* planRetirementSteps, planRehearsalCleanup, createStopStalePlan: what a plan
\* may be about.
LEMMA PlansAreWellMade ==
  ASSUME NEW kind \in {"retire", "images", "cleanup", "stale"}
  PROVE  /\ WellMade(PlanOf(kind))
         /\ PlanOf(kind).kind = IF kind = "cleanup" THEN "images" ELSE kind
         /\ kind = "cleanup" => PlanOf(kind).included
<1>1. CASE kind = "retire"
  BY <1>1 DEF PlanOf, RetirementPlan, WellMade
<1>2. CASE kind \in {"images", "cleanup"}
  <2>1. PICK included \in BOOLEAN :
          PlanOf(kind) = ImagePlan(included) /\ (kind = "cleanup" => included)
    BY <1>2 DEF PlanOf
  <2>2. \A i \in OlderUnused : {t \in DOMAIN Tags : tag[t] = i} \subseteq DOMAIN Tags
    OBVIOUS
  <2>3. QED
    BY <1>2, <2>1, <2>2 DEF ImagePlan, WellMade
<1>3. CASE kind = "stale"
  <2>1. PlanOf(kind) = StalePlan /\ StalePlan.kind = "stale"
    BY <1>3 DEF PlanOf, StalePlan
  <2>2. ASSUME NEW e \in DOMAIN StalePlan.targets, NEW c \in DOMAIN StalePlan.targets[e]
        PROVE  c \in Boxes /\ ~OwnershipConflicts(BoxLabels[c], e)
    <3>1. /\ StalePlan.targets = [f \in {g \in Environments : Due(g)} |->
                                    [d \in OfTarget(f) |-> box[d]]]
      BY DEF StalePlan
    <3>2. Due(e) /\ c \in OfTarget(e)
      BY <3>1
    <3>3. QED
      BY <3>2 DEF Due, OfTarget, BoxConflict, Seen
  <2>3. QED
    BY <1>3, <2>1, <2>2 DEF WellMade
<1>4. QED
  BY <1>1, <1>2, <1>3

LEMMA PreviewKeeps ==
  ASSUME DockerInvariant, NEW kind \in {"retire", "images", "cleanup", "stale"}, Preview(kind)
  PROVE  DockerInvariant'
<1>1. stage = "idle" /\ stage' = "idle" /\ answer' = answer /\ UNCHANGED <<world, now>>
  BY DEF Preview
<1>2. Machine'
  BY <1>1 DEF DockerInvariant, Machine, world, Volumes
<1>3. AsConfirmed' /\ Listed' /\ Measured'
  BY <1>1 DEF AsConfirmed, Applied, ClaimStages, TagStages, TargetStages, Listed, Measured,
              Listing, Sampling
<1>4. AtHand'
  BY <1>1 DEF DockerInvariant, AtHand
<1>5. QED
  BY <1>2, <1>3, <1>4 DEF DockerInvariant

LEMMA ApplyKeeps ==
  ASSUME DockerInvariant, NEW kind \in {"retire", "images", "cleanup", "stale"}, Apply(kind)
  PROVE  DockerInvariant'
<1>1. /\ stage = "idle" /\ answer' = answer /\ UNCHANGED <<world, now>>
      /\ plan' = PlanOf(kind) /\ todo' = Work(plan') /\ consent' = consent /\ plan' = consent
      /\ stage' \in {"runtime", "next"} /\ (stage' = "runtime" => kind = "cleanup")
      /\ kind = "cleanup" => Primary \notin Sheltered
  BY DEF Apply, Confirmed, Possible, CanClean
<1>2. Machine'
  BY <1>1 DEF DockerInvariant, Machine, world, Volumes
<1>3. AsConfirmed'
  <2>1. WellMade(plan')
    BY <1>1, PlansAreWellMade
  <2>2. WellMade(plan)'
    BY <2>1 DEF WellMade
  <2>3. todo' = Work(plan)'
    BY <1>1 DEF Work
  <2>4. stage' = "runtime" => plan'.kind = "images" /\ plan'.included /\ Primary \notin Sheltered
    BY <1>1, PlansAreWellMade
  <2>5. QED
    BY <1>1, <2>2, <2>3, <2>4 DEF AsConfirmed, ClaimStages, TagStages, TargetStages
<1>4. AtHand'
  <2>1. answer = Nothing
    BY <1>1 DEF DockerInvariant, AtHand
  <2>2. QED
    BY <1>1, <2>1 DEF AtHand
<1>5. Listed' /\ Measured'
  BY <1>1, OnlyApplied DEF Applied
<1>6. QED
  BY <1>2, <1>3, <1>4, <1>5 DEF DockerInvariant

\* Most steps of a command leave the machine as it is.
LEMMA LookOnly ==
  ASSUME DockerInvariant, UNCHANGED <<world, now>>
  PROVE  Machine'
BY DEF DockerInvariant, Machine, world, Volumes

\* A step that goes on with the same plan and item.
LEMMA SamePlan ==
  ASSUME DockerInvariant, stage \in Applied, stage' \in Applied \ {"runtime"},
         UNCHANGED <<plan, consent>>, todo' \subseteq todo,
         stage' \in ClaimStages \cup TagStages \cup TargetStages => current' \in todo',
         \/ stage' \in ClaimStages /\ plan.kind = "retire"
         \/ stage' \in TagStages /\ plan.kind = "images"
         \/ stage' \in TargetStages /\ plan.kind = "stale"
         \/ stage' = "next"
  PROVE  AsConfirmed'
<1>1. WellMade(plan)' /\ todo' \subseteq Work(plan)'
  BY DEF DockerInvariant, AsConfirmed, WellMade, Work
<1>2. QED
  BY <1>1 DEF DockerInvariant, AsConfirmed, ClaimStages, TagStages, TargetStages

LEMMA AdvanceKeeps ==
  ASSUME DockerInvariant, Advance
  PROVE  DockerInvariant'
<1>1. Machine'
  BY LookOnly DEF Advance
<1>2. CASE EndCommand
  BY <1>1, <1>2, EndKeeps
<1>3. CASE ~EndCommand
  <2>1. /\ stage = "next" /\ current' \in todo /\ UNCHANGED <<consent, plan, todo, answer, changed>>
        /\ stage' = CASE plan.kind = "retire" -> "inspect"
                      [] plan.kind = "images" -> "in-use"
                      [] plan.kind = "stale"  -> "refresh"
    BY <1>3 DEF Advance
  <2>2. plan.kind \in {"retire", "images", "stale"} /\ answer = Nothing
    BY <2>1 DEF DockerInvariant, AsConfirmed, Applied, AtHand, WellMade
  <2>3. stage' \in {"inspect", "in-use", "refresh"}
    BY <2>1, <2>2
  <2>4. AsConfirmed'
    BY <2>1, <2>2, <2>3, SamePlan DEF Applied, ClaimStages, TagStages, TargetStages
  <2>5. AtHand'
    BY <2>1, <2>2, <2>3 DEF AtHand
  <2>6. QED
    BY <1>1, <2>3, <2>4, <2>5, OnlyApplied
    DEF DockerInvariant, Applied, ClaimStages, TagStages, TargetStages
<1>4. QED
  BY <1>2, <1>3

LEMMA FailKeeps ==
  ASSUME DockerInvariant, Fail
  PROVE  DockerInvariant'
BY LookOnly, EndKeeps DEF Fail

-----------------------------------------------------------------------------
(* Retirement.                                                             *)

LEMMA InspectClaimKeeps ==
  ASSUME DockerInvariant, InspectClaim \/ InspectVolumes
  PROVE  DockerInvariant'
<1>1. Machine'
  BY LookOnly DEF InspectClaim, InspectVolumes
<1>2. CASE EndCommand
  BY <1>1, <1>2, EndKeeps
<1>3. CASE ~EndCommand
  <2>1. /\ UNCHANGED <<world, consent, plan, todo, current, answer>>
        /\ \/ stage = "inspect" /\ stage' = "volumes" /\ SnapshotHolds(current)
           \/ stage = "volumes" /\ stage' = "remove" /\ changed' = changed
    BY <1>3 DEF InspectClaim, InspectVolumes, Abandon, Continue
  <2>2. AsConfirmed'
    <3>1. plan.kind = "retire" /\ current \in todo
      BY <2>1 DEF DockerInvariant, AsConfirmed, ClaimStages
    <3>2. QED
      BY <2>1, <3>1, SamePlan DEF Applied, ClaimStages
  <2>3. AtHand'
    BY <2>1 DEF DockerInvariant, AtHand, SnapshotHolds, world
  <2>4. QED
    BY <1>1, <2>1, <2>2, <2>3, OnlyApplied DEF DockerInvariant, Applied, ClaimStages
<1>4. QED
  BY <1>2, <1>3

LEMMA RemoveContainerKeeps ==
  ASSUME DockerInvariant, RemoveContainer
  PROVE  DockerInvariant'
<1>1. /\ UNCHANGED <<volume, tag, now, consent, plan, todo, current, answer>>
      /\ stage = "remove" /\ stage' \in {"confirm", "recheck"}
      /\ box' \in {box, [box EXCEPT ![current].state = "gone"]}
  BY DEF RemoveContainer, Continue, Lost
<1>2. Machine'
  <2>1. box' \in [Boxes -> [state : {"none", "running", "exited", "gone"}, since : Nat]]
    BY <1>1 DEF DockerInvariant, Machine
  <2>2. QED
    BY <1>1, <2>1 DEF DockerInvariant, Machine, Volumes
<1>3. AsConfirmed'
  <2>1. plan.kind = "retire" /\ current \in todo
    BY <1>1 DEF DockerInvariant, AsConfirmed, ClaimStages
  <2>2. QED
    BY <1>1, <2>1, SamePlan DEF Applied, ClaimStages
<1>4. AtHand'
  BY <1>1 DEF DockerInvariant, AtHand
<1>5. QED
  BY <1>1, <1>2, <1>3, <1>4, OnlyApplied DEF DockerInvariant, Applied, ClaimStages

LEMMA ConfirmKeeps ==
  ASSUME DockerInvariant, ConfirmRemoval \/ ConfirmVolumes
  PROVE  DockerInvariant'
<1>1. Machine'
  BY LookOnly DEF ConfirmRemoval, ConfirmVolumes
<1>2. /\ UNCHANGED <<world, consent, plan>> /\ todo' \subseteq todo
      /\ stage \in {"confirm", "preserved"}
      /\ \/ /\ stage' \in {"preserved", "recheck"} /\ UNCHANGED <<todo, current>>
            /\ \/ answer' = answer /\ stage' = "recheck"
               \/ answer' = TRUE /\ Gone(current)
            /\ changed \subseteq changed'
         \/ stage' = "next" /\ answer' = Nothing
  BY DEF ConfirmRemoval, ConfirmVolumes, Lost, Continue, Done
<1>3. plan.kind = "retire" /\ current \in todo
  BY <1>2 DEF DockerInvariant, AsConfirmed, ClaimStages
<1>4. AsConfirmed'
  <2>1. CASE stage' = "next"
    BY <1>2, <1>3, <2>1, SamePlan DEF Applied, ClaimStages, TagStages, TargetStages
  <2>2. CASE stage' # "next"
    BY <1>2, <1>3, <2>2, SamePlan DEF Applied, ClaimStages
  <2>3. QED
    BY <2>1, <2>2
<1>5. AtHand'
  <2>1. \/ answer \in {Nothing, Gone(current)} \/ Item("box", current) \in changed
    BY <1>2 DEF DockerInvariant, AtHand
  <2>2. stage' # "next" => Gone(current)' = Gone(current)
    BY <1>2 DEF Gone, Is, world
  <2>3. stage' # "next" =>
          answer' \in {Nothing, Gone(current)'} \/ Item("box", current') \in changed'
    <3>1. Gone(current) \in BOOLEAN
      BY DEF Gone, Is
    <3>2. QED
      BY <1>2, <2>1, <2>2, <3>1
  <2>4. QED
    BY <1>2, <2>3 DEF AtHand
<1>6. QED
  BY <1>1, <1>2, <1>4, <1>5, OnlyApplied DEF DockerInvariant, Applied, ClaimStages

LEMMA RecheckKeeps ==
  ASSUME DockerInvariant, Recheck \/ RecheckVolumes
  PROVE  DockerInvariant'
<1>1. Machine'
  BY LookOnly DEF Recheck, RecheckVolumes
<1>2. CASE EndCommand
  BY <1>1, <1>2, EndKeeps
<1>3. CASE ~EndCommand
  <2>1. /\ UNCHANGED <<world, consent, plan, todo, current>>
        /\ stage = "recheck" /\ stage' = "recheck-volumes" /\ answer' = Gone(current)
    BY <1>3 DEF Recheck, RecheckVolumes, Abandon
  <2>2. AsConfirmed'
    <3>1. plan.kind = "retire" /\ current \in todo
      BY <2>1 DEF DockerInvariant, AsConfirmed, ClaimStages
    <3>2. QED
      BY <2>1, <3>1, SamePlan DEF Applied, ClaimStages
  <2>3. AtHand'
    <3>1. Gone(current)' = Gone(current)
      BY <2>1 DEF Gone, Is, world
    <3>2. QED
      BY <2>1, <3>1 DEF AtHand
  <2>4. QED
    BY <1>1, <2>1, <2>2, <2>3, OnlyApplied DEF DockerInvariant, Applied, ClaimStages
<1>4. QED
  BY <1>2, <1>3

-----------------------------------------------------------------------------
(* Runtime and images.                                                     *)

LEMMA RemoveRuntimeKeeps ==
  ASSUME DockerInvariant, RemoveRuntime
  PROVE  DockerInvariant'
<1>1. PICK S \in SUBSET Boxes, V \in SUBSET Volumes :
        /\ TakeAway(S, V) /\ UNCHANGED <<tag, now, consent>>
        /\ stage = "runtime" /\ (Continue("next", {}) \/ EndCommand)
  <2> DEFINE own == {c \in DOMAIN Seen : Bears(BoxLabels[c], Primary)}
             vols == {v \in SeenVolumes : Bears(VolumeLabels[v], Primary)}
  <2>1. own \in SUBSET Boxes /\ vols \in SUBSET Volumes
    BY DEF Seen, SeenVolumes
  <2>2. CASE TakeAway(own, vols) /\ Continue("next", {})
    BY <2>1, <2>2 DEF RemoveRuntime
  <2>3. CASE \E some \in SUBSET own : TakeAway(some, {}) /\ EndCommand
    BY <2>1, <2>3 DEF RemoveRuntime
  <2>4. QED
    BY <2>2, <2>3 DEF RemoveRuntime
<1>2. Machine'
  <2>1. \A c \in Boxes : [box[c] EXCEPT !.state = "gone"]
                           \in [state : {"none", "running", "exited", "gone"}, since : Nat]
    BY DEF DockerInvariant, Machine
  <2>2. box' \in [Boxes -> [state : {"none", "running", "exited", "gone"}, since : Nat]]
    BY <1>1, <2>1 DEF DockerInvariant, Machine, TakeAway
  <2>3. volume' \in [Volumes -> Nat]
    BY <1>1 DEF DockerInvariant, Machine, TakeAway
  <2>4. QED
    BY <1>1, <2>2, <2>3 DEF DockerInvariant, Machine
<1>3. CASE EndCommand
  BY <1>2, <1>3, EndKeeps
<1>4. CASE Continue("next", {})
  <2>1. stage' = "next" /\ UNCHANGED <<plan, todo, current, answer>>
    BY <1>4 DEF Continue
  <2>2. AsConfirmed'
    BY <1>1, <2>1, SamePlan DEF Applied, ClaimStages, TagStages, TargetStages
  <2>3. AtHand'
    BY <1>1, <2>1 DEF DockerInvariant, AtHand
  <2>4. QED
    BY <1>2, <2>1, <2>2, <2>3, OnlyApplied DEF DockerInvariant, Applied
<1>5. QED
  BY <1>1, <1>3, <1>4

\* The image whose tag is at hand is one of the plan's, and the tag one of its.
LEMMA TagOfPlan ==
  ASSUME DockerInvariant, stage \in TagStages
  PROVE  /\ plan = consent /\ plan.kind = "images" /\ current \in todo
         /\ ImageOfTag(current) \in DOMAIN plan.images
         /\ current \in plan.images[ImageOfTag(current)] /\ current \in DOMAIN Tags
<1>1. plan = consent /\ plan.kind = "images" /\ current \in todo /\ todo \subseteq Work(plan)
      /\ WellMade(plan)
  BY DEF DockerInvariant, AsConfirmed, Applied
<1>2. current \in UNION {plan.images[i] : i \in DOMAIN plan.images}
  BY <1>1 DEF Work
<1>3. PICK i \in DOMAIN plan.images : current \in plan.images[i]
  BY <1>2
<1>4. /\ ImageOfTag(current) \in DOMAIN plan.images
      /\ current \in plan.images[ImageOfTag(current)]
  BY <1>3 DEF ImageOfTag
<1>5. QED
  BY <1>1, <1>4 DEF WellMade

LEMMA TagLooksKeep ==
  ASSUME DockerInvariant,
         LookForUse("in-use", "tag") \/ InspectTag \/ LookForUse("in-use-again", "untag")
  PROVE  DockerInvariant'
<1>1. Machine'
  BY LookOnly DEF LookForUse, InspectTag
<1>2. CASE EndCommand
  BY <1>1, <1>2, EndKeeps
<1>3. CASE ~EndCommand
  <2> DEFINE image == ImageOfTag(current)
  <2>1. /\ UNCHANGED <<world, consent, plan, todo, current, answer>>
        /\ \/ stage = "in-use" /\ stage' = "tag"
           \/ stage = "tag" /\ stage' = "in-use-again" /\ tag[current] = image
           \/ /\ stage = "in-use-again" /\ stage' = "untag" /\ Unused(image)
              /\ changed' = changed \ {Item("use", image)}
    BY <1>3 DEF LookForUse, InspectTag, Continue
  <2>2. stage \in TagStages /\ stage' \in TagStages
    BY <2>1 DEF TagStages
  <2>3. AsConfirmed'
    BY <2>1, <2>2, TagOfPlan, SamePlan DEF Applied
  <2>4. /\ image' = image /\ InUse(image)' = InUse(image) /\ tag' = tag
        /\ Item("tag", current) # Item("use", image)
    BY <2>1 DEF ImageOfTag, InUse, UsedBy, Seen, Stands, world, Item
  <2>5. AtHand'
    BY <2>1, <2>4 DEF DockerInvariant, AtHand, Unused
  <2>6. QED
    BY <1>1, <2>2, <2>3, <2>5, OnlyApplied DEF DockerInvariant, Applied
<1>4. QED
  BY <1>2, <1>3

LEMMA RemoveTagKeeps ==
  ASSUME DockerInvariant, RemoveTag
  PROVE  DockerInvariant'
<1>1. /\ stage = "untag" /\ UNCHANGED <<box, volume, now, consent>>
      /\ tag' \in {tag, [tag EXCEPT ![current] = Nothing]} /\ (Done \/ EndCommand)
  BY DEF RemoveTag
<1>2. Machine'
  BY <1>1 DEF DockerInvariant, Machine, Volumes
<1>3. CASE EndCommand
  BY <1>2, <1>3, EndKeeps
<1>4. CASE Done
  <2>1. stage' = "next" /\ todo' \subseteq todo /\ answer' = Nothing /\ UNCHANGED plan
    BY <1>4 DEF Done
  <2>2. AsConfirmed'
    BY <1>1, <2>1, SamePlan DEF Applied, ClaimStages, TagStages, TargetStages
  <2>3. AtHand'
    BY <2>1 DEF AtHand
  <2>4. QED
    BY <1>2, <2>1, <2>2, <2>3, OnlyApplied DEF DockerInvariant, Applied
<1>5. QED
  BY <1>1, <1>3, <1>4

-----------------------------------------------------------------------------
(* Stale environments.                                                     *)

LEMMA TargetLooksKeep ==
  ASSUME DockerInvariant, Refresh \/ Bind \/ ProveStopped
  PROVE  DockerInvariant'
<1>1. Machine'
  BY LookOnly DEF Refresh, Bind, ProveStopped
<1>2. CASE EndCommand
  BY <1>1, <1>2, EndKeeps
<1>3. CASE ~EndCommand
  <2>1. /\ UNCHANGED <<world, consent, plan>> /\ stage \in TargetStages
        /\ \/ stage' = "bind" /\ UNCHANGED <<todo, current, answer>>
           \/ stage' = "stop" /\ UNCHANGED <<todo, current, answer>> /\ BindingHolds(current)
           \/ stage' = "next" /\ todo' \subseteq todo /\ answer' = Nothing
        /\ stage \notin {"preserved", "recheck", "recheck-volumes"}
    BY <1>3 DEF Refresh, Bind, ProveStopped, Continue, Done, TargetStages
  <2>2. plan.kind = "stale" /\ current \in todo
    BY <2>1 DEF DockerInvariant, AsConfirmed
  <2>3. AsConfirmed'
    <3>1. CASE stage' = "next"
      BY <2>1, <2>2, <3>1, SamePlan DEF Applied, ClaimStages, TagStages, TargetStages
    <3>2. CASE stage' # "next"
      BY <2>1, <2>2, <3>2, SamePlan DEF Applied, TargetStages
    <3>3. QED
      BY <3>1, <3>2
  <2>4. AtHand'
    BY <2>1 DEF DockerInvariant, AtHand, BindingHolds, world
  <2>5. QED
    BY <1>1, <2>1, <2>3, <2>4, OnlyApplied DEF DockerInvariant, Applied, TargetStages
<1>4. QED
  BY <1>2, <1>3

LEMMA StopContainersKeeps ==
  ASSUME DockerInvariant, StopContainers
  PROVE  DockerInvariant'
<1>1. /\ stage = "stop" /\ UNCHANGED <<volume, tag, now, consent>>
      /\ \E S : Stopped(S) /\ (Continue("proof", {}) \/ EndCommand)
  BY DEF StopContainers
<1>2. Machine'
  <2>1. [state |-> "exited", since |-> now]
          \in [state : {"none", "running", "exited", "gone"}, since : Nat]
    BY DEF DockerInvariant, Machine
  <2>2. box' \in [Boxes -> [state : {"none", "running", "exited", "gone"}, since : Nat]]
    BY <1>1, <2>1 DEF DockerInvariant, Machine, Stopped
  <2>3. QED
    BY <1>1, <2>2 DEF DockerInvariant, Machine, Volumes
<1>3. CASE EndCommand
  BY <1>2, <1>3, EndKeeps
<1>4. CASE Continue("proof", {})
  <2>1. stage' = "proof" /\ UNCHANGED <<plan, todo, current, answer>>
    BY <1>4 DEF Continue
  <2>2. plan.kind = "stale" /\ current \in todo
    BY <1>1 DEF DockerInvariant, AsConfirmed, TargetStages
  <2>3. AsConfirmed'
    BY <1>1, <2>1, <2>2, SamePlan DEF Applied, TargetStages
  <2>4. AtHand'
    BY <1>1, <2>1 DEF DockerInvariant, AtHand
  <2>5. QED
    BY <1>2, <2>1, <2>3, <2>4, OnlyApplied DEF DockerInvariant, Applied, TargetStages
<1>5. QED
  BY <1>1, <1>3, <1>4

-----------------------------------------------------------------------------
(* Inventory.                                                              *)

LEMMA NewInventories ==
  ASSUME NEW kind \in {"inspect", "start"}, NEW p,
         p \in {NewInventory(kind), [NewInventory(kind) EXCEPT !.available = FALSE]}
  PROVE  Inventoried(p) /\ p.available = (p = NewInventory(kind))
<1>1. CASE p = NewInventory(kind)
  BY <1>1 DEF Inventoried, NewInventory
<1>2. CASE p = [NewInventory(kind) EXCEPT !.available = FALSE]
  <2>1. p = [kind |-> kind, boxes |-> {}, volumes |-> {}, sizes |-> {}, named |-> {},
             available |-> FALSE, memory |-> 0]
    BY <1>2 DEF NewInventory
  <2>2. NewInventory(kind).available = TRUE /\ p.available = FALSE
    BY <2>1 DEF NewInventory
  <2>3. Inventoried(p)
    BY <2>1 DEF Inventoried
  <2>4. p # NewInventory(kind)
    BY <2>2
  <2>5. QED
    BY <2>2, <2>3, <2>4
<1>3. QED
  BY <1>1, <1>2

\* What of an inventory stays true when its plan and the machine do.
LEMMA StillListed ==
  ASSUME DockerInvariant, UNCHANGED world, NEW S, changed' = changed \ S,
         stage \in Listing, plan'.boxes = plan.boxes, plan.available,
         \A c \in Boxes : Touched(c) \cap S = {}
  PROVE  \A c \in Boxes : SeenSince(c)'
BY DEF DockerInvariant, Listed, SeenSince, Stands, world, Touched

\* Items of two kinds differ.
LEMMA ItemsDiffer ==
  /\ VolumeItems \cap TagItems = {} /\ VolumeItems \cap BoxItems = {}
  /\ TagItems \cap BoxItems = {}
  /\ \A c \in Boxes : Touched(c) \subseteq BoxItems
BY DEF VolumeItems, TagItems, BoxItems, Item, Touched, Images

LEMMA LookBegins ==
  ASSUME DockerInvariant, Inspect \/ MeasureHost
  PROVE  DockerInvariant'
<1>1. Machine' /\ stage = "idle" /\ answer' = Nothing
  BY LookOnly DEF Inspect, MeasureHost, Keep, DockerInvariant, AtHand
<1>2. PICK kind \in {"inspect", "start"} :
        \/ stage' \in {"list", "standing"} /\ plan' = NewInventory(kind)
        \/ stage' = "shown" /\ plan' = [NewInventory(kind) EXCEPT !.available = FALSE]
  BY DEF Inspect, MeasureHost, Keep
<1>3. AsConfirmed' /\ AtHand'
  BY <1>1, <1>2, OnlyLooking DEF Listing, Sampling
<1>4. Inventoried(plan') /\ (plan'.available \/ stage' = "shown")
      /\ (stage' = "shown" => ~plan'.available)
  <2>1. NewInventory(kind).available # [NewInventory(kind) EXCEPT !.available = FALSE].available
    BY DEF NewInventory
  <2>2. QED
    BY <1>2, <2>1, NewInventories
<1>5. Listed' /\ Measured'
  BY <1>2, <1>4 DEF Listed, Measured, Listing, Sampling, Inventoried
<1>6. QED
  BY <1>1, <1>3, <1>5 DEF DockerInvariant

LEMMA SeeContainersKeeps ==
  ASSUME DockerInvariant, SeeContainers
  PROVE  DockerInvariant'
<1>1. /\ stage = "list" /\ stage' = "list-volumes" /\ plan' = [plan EXCEPT !.boxes = Seen]
      /\ answer' = answer /\ UNCHANGED <<world, now>>
  BY DEF SeeContainers, Keep
<1>2. Inventoried(plan) /\ plan.available /\ answer = Nothing
  BY <1>1 DEF DockerInvariant, Listed, AtHand
<1>3. Inventoried(plan') /\ plan'.available = plan.available /\ plan'.boxes = Seen
  BY <1>1, <1>2 DEF Inventoried
<1>4. \A c \in Boxes : SeenSince(c)'
  BY <1>1, <1>3 DEF SeenSince, Seen, Stands, world
<1>5. AsConfirmed' /\ AtHand' /\ Machine'
  BY <1>1, <1>2, OnlyLooking, LookOnly DEF Listing
<1>6. Listed' /\ Measured'
  BY <1>1, <1>2, <1>3, <1>4 DEF Listed, Measured, Listing, Sampling, Inventoried
<1>7. QED
  BY <1>5, <1>6 DEF DockerInvariant

LEMMA SeeVolumesKeeps ==
  ASSUME DockerInvariant, SeeVolumes
  PROVE  DockerInvariant'
<1>1. /\ stage = "list-volumes" /\ stage' = "measure"
      /\ plan' = [plan EXCEPT !.volumes = SeenVolumes] /\ changed' = changed \ VolumeItems
      /\ answer' = answer /\ UNCHANGED <<world, now>>
  BY DEF SeeVolumes, Keep
<1>2. Inventoried(plan) /\ plan.available /\ answer = Nothing /\ SeenVolumes \subseteq Volumes
  BY <1>1 DEF DockerInvariant, Listed, AtHand, Listing, SeenVolumes
<1>3. /\ Inventoried(plan') /\ plan'.available = plan.available /\ plan'.boxes = plan.boxes
      /\ plan'.volumes = SeenVolumes
  BY <1>1, <1>2 DEF Inventoried
<1>4. \A c \in Boxes : SeenSince(c)'
  BY <1>1, <1>2, <1>3, StillListed, ItemsDiffer DEF Listing
<1>5. AsConfirmed' /\ AtHand' /\ Machine'
  BY <1>1, <1>2, OnlyLooking, LookOnly DEF Listing
<1>6. SeenVolumes' = SeenVolumes
  BY <1>1 DEF SeenVolumes, Volumes, world
<1>7. Listed' /\ Measured'
  BY <1>1, <1>2, <1>3, <1>4, <1>6 DEF Listed, Measured, Listing, Sampling, Inventoried
<1>8. QED
  BY <1>5, <1>7 DEF DockerInvariant

LEMMA MeasureVolumesKeeps ==
  ASSUME DockerInvariant, MeasureVolumes
  PROVE  DockerInvariant'
<1>1. PICK sizes : plan' = [plan EXCEPT !.sizes = sizes]
  BY DEF MeasureVolumes, Keep
<1>2. /\ stage = "measure" /\ stage' \in {"quota", "list-images"}
      /\ answer' = answer /\ UNCHANGED <<world, now, changed>>
  BY DEF MeasureVolumes, Keep
<1>3. Inventoried(plan) /\ plan.available /\ answer = Nothing
  BY <1>2 DEF DockerInvariant, Listed, AtHand, Listing
<1>4. /\ Inventoried(plan') /\ plan'.available = plan.available /\ plan'.boxes = plan.boxes
      /\ plan'.volumes = plan.volumes
  BY <1>1, <1>3 DEF Inventoried
<1>5. \A c \in Boxes : SeenSince(c)'
  <2>1. changed' = changed \ {}
    BY <1>2
  <2>2. \A c \in Boxes : Touched(c) \cap {} = {}
    OBVIOUS
  <2>3. QED
    BY <1>2, <1>3, <1>4, <2>1, <2>2, StillListed DEF Listing
<1>6. AsConfirmed' /\ AtHand' /\ Machine'
  BY <1>2, <1>3, OnlyLooking, LookOnly DEF Listing
<1>7. SeenVolumes' = SeenVolumes /\ VolumeItems' = VolumeItems
  BY <1>2 DEF SeenVolumes, Volumes, world, VolumeItems
<1>8. plan.volumes = SeenVolumes \/ changed \cap VolumeItems # {}
  BY <1>2, <1>3 DEF DockerInvariant, Listed, Listing
<1>9. Listed' /\ Measured'
  BY <1>2, <1>3, <1>4, <1>5, <1>7, <1>8
  DEF Listed, Measured, Listing, Sampling, Inventoried
<1>10. QED
  BY <1>6, <1>9 DEF DockerInvariant

LEMMA SeeImagesKeeps ==
  ASSUME DockerInvariant, SeeImages
  PROVE  DockerInvariant'
<1>1. /\ stage = "list-images" /\ stage' = "shown"
      /\ plan' = [plan EXCEPT !.named = Named] /\ changed' = changed \ TagItems
      /\ answer' = answer /\ UNCHANGED <<world, now>>
  BY DEF SeeImages, Keep
<1>2. Inventoried(plan) /\ plan.available /\ answer = Nothing
  BY <1>1 DEF DockerInvariant, Listed, AtHand, Listing
<1>3. /\ Inventoried(plan') /\ plan'.available = plan.available /\ plan'.boxes = plan.boxes
      /\ plan'.volumes = plan.volumes /\ plan'.named = Named
  BY <1>1, <1>2 DEF Inventoried
<1>4. \A c \in Boxes : SeenSince(c)'
  BY <1>1, <1>2, <1>3, StillListed, ItemsDiffer DEF Listing
<1>5. AsConfirmed' /\ AtHand' /\ Machine'
  BY <1>1, <1>2, OnlyLooking, LookOnly DEF Listing
<1>6. /\ SeenVolumes' = SeenVolumes /\ Named' = Named
      /\ changed' \cap VolumeItems' = changed \cap VolumeItems
  BY <1>1, ItemsDiffer DEF SeenVolumes, Volumes, world, Named, VolumeItems
<1>7. plan.volumes = SeenVolumes \/ changed \cap VolumeItems # {}
  BY <1>1, <1>2 DEF DockerInvariant, Listed, Listing
<1>8. Listed' /\ Measured'
  BY <1>1, <1>2, <1>3, <1>4, <1>6, <1>7
  DEF Listed, Measured, Listing, Sampling, Inventoried
<1>9. QED
  BY <1>5, <1>8 DEF DockerInvariant

LEMMA ShownKeeps ==
  ASSUME DockerInvariant, Close \/ Admitted
  PROVE  DockerInvariant'
BY LookOnly, EndKeeps DEF Close, Admitted

-----------------------------------------------------------------------------
(* Sums, counted byte by byte.                                             *)

LEMMA FiniteBytes ==
  ASSUME NEW S, IsFiniteSet(S), NEW size, \A x \in S : size[x] \in Nat
  PROVE  IsFiniteSet(UNION {{x} \X (1 .. size[x]) : x \in S})
<1>1. ASSUME NEW x \in S PROVE IsFiniteSet({x} \X (1 .. size[x]))
  <2> DEFINE bytes == 1 .. size[x]
  <2>1. size[x] \in Int /\ 1 \in Int
    OBVIOUS
  <2>2. IsFiniteSet({x}) /\ IsFiniteSet(bytes)
    BY <2>1, FS_Singleton, FS_Interval
  <2> HIDE DEF bytes
  <2>3. IsFiniteSet({x} \X bytes)
    BY <2>2, FS_Product
  <2>4. QED
    BY <2>3 DEF bytes
<1>2. IsFiniteSet({{x} \X (1 .. size[x]) : x \in S})
  <2> DEFINE all == {{x} \X (1 .. size[x]) : x \in S}
             f == [x \in S |-> {x} \X (1 .. size[x])]
  <2>1. f \in [S -> all] /\ \A y \in all : \E x \in S : f[x] = y
    OBVIOUS
  <2>2. f \in Surjection(S, all)
    BY <2>1, Fun_IsSurj
  <2> HIDE DEF f, all
  <2>3. IsFiniteSet(all)
    BY <2>2, FS_Surjection
  <2>4. QED
    BY <2>3 DEF all
<1> DEFINE all == {{x} \X (1 .. size[x]) : x \in S}
<1>3. \A s \in all : IsFiniteSet(s)
  BY <1>1
<1>4. QED
  BY <1>2, <1>3, FS_UNION

LEMMA MemoryIsNat ==
  ASSUME NEW S \in SUBSET Boxes
  PROVE  MemoryOf(S) \in Nat
<1>1. IsFiniteSet(S)
  BY CapacityAssumption, FS_Subset
<1>2. \A x \in S : Memory[x] \in Nat
  BY CapacityAssumption
<1>3. QED
  BY <1>1, <1>2, FiniteBytes, FS_CardinalityType DEF MemoryOf

LEMMA BytesAreNat ==
  ASSUME NEW V \in SUBSET Volumes
  PROVE  /\ IsFiniteSet(UNION {{v} \X (1 .. VolumeBytes[v]) : v \in V})
         /\ BytesOf(V) \in Nat
<1>1. IsFiniteSet(V)
  BY InventoryAssumption, FS_Subset DEF Volumes
<1>2. \A x \in V : VolumeBytes[x] \in Nat
  BY InventoryAssumption DEF Volumes
<1>3. QED
  BY <1>1, <1>2, FiniteBytes, FS_CardinalityType DEF BytesOf

-----------------------------------------------------------------------------
(* Admission.                                                              *)

LEMMA SamplesKeep ==
  ASSUME DockerInvariant, ListStanding \/ SampleStanding
  PROVE  DockerInvariant'
<1>1. /\ stage \in {"standing", "stats"} /\ stage' \in {"stats", "free"}
      /\ answer' = answer /\ UNCHANGED <<world, now>>
      /\ \/ plan' = [plan EXCEPT !.boxes = RunningBoxes]
         \/ plan' = plan /\ plan.boxes \subseteq RunningBoxes
  BY DEF ListStanding, SampleStanding, Keep
<1>2. Inventoried(plan) /\ plan.available /\ answer = Nothing
  BY <1>1 DEF DockerInvariant, Listed, AtHand, Sampling
<1>3. Inventoried(plan') /\ plan'.available = plan.available
  BY <1>1, <1>2 DEF Inventoried
<1>4. plan'.boxes \subseteq Boxes
  <2>1. RunningBoxes \subseteq Boxes
    BY DEF RunningBoxes
  <2>2. QED
    BY <1>1, <1>2, <2>1 DEF Inventoried
<1>5. AsConfirmed' /\ AtHand' /\ Machine'
  BY <1>1, <1>2, OnlyLooking, LookOnly DEF Sampling
<1>6. Listed' /\ Measured'
  BY <1>1, <1>2, <1>3, <1>4 DEF Listed, Measured, Listing, Sampling, Inventoried
<1>7. QED
  BY <1>5, <1>6 DEF DockerInvariant

LEMMA MeasureGuestKeeps ==
  ASSUME DockerInvariant, MeasureGuest
  PROVE  DockerInvariant'
<1> DEFINE free == EngineMemory - MemoryOf(RunningBoxes)
           unused == EngineMemory - MemoryOf(plan.boxes)
           least == IF free < unused THEN free ELSE unused
<1>1. /\ stage = "free" /\ stage' = "standing-again"
      /\ plan' = [plan EXCEPT !.memory = least]
      /\ answer' = answer /\ UNCHANGED <<world, now>>
  BY DEF MeasureGuest, Keep
<1>2. Inventoried(plan) /\ plan.available /\ answer = Nothing /\ plan.boxes \subseteq Boxes
  BY <1>1 DEF DockerInvariant, Listed, AtHand, Sampling, Measured
<1>3. least \in Int /\ least + MemoryOf(plan.boxes) <= EngineMemory
  <2>1. MemoryOf(RunningBoxes) \in Nat /\ MemoryOf(plan.boxes) \in Nat
    BY <1>2, MemoryIsNat DEF RunningBoxes
  <2>2. QED
    BY <2>1, CapacityAssumption
<1> HIDE DEF least
<1>4. /\ Inventoried(plan') /\ plan'.available = plan.available /\ plan'.boxes = plan.boxes
      /\ plan'.memory = least
  BY <1>1, <1>2 DEF Inventoried
<1>5. MemoryOf(plan.boxes)' = MemoryOf(plan.boxes)
  BY <1>4 DEF MemoryOf
<1>6. AsConfirmed' /\ AtHand' /\ Machine'
  BY <1>1, <1>2, OnlyLooking, LookOnly DEF Sampling
<1>7. Listed' /\ Measured'
  BY <1>1, <1>2, <1>3, <1>4, <1>5 DEF Listed, Measured, Listing, Sampling, Inventoried
<1>8. QED
  BY <1>6, <1>7 DEF DockerInvariant

LEMMA ListStandingAgainKeeps ==
  ASSUME DockerInvariant, ListStandingAgain
  PROVE  DockerInvariant'
<1>1. Machine'
  BY LookOnly DEF ListStandingAgain
<1>2. CASE EndCommand
  BY <1>1, <1>2, EndKeeps
<1>3. CASE ~EndCommand
  <2>1. /\ stage = "standing-again" /\ stage' = "evaluate" /\ RunningBoxes = plan.boxes
        /\ UNCHANGED <<world, plan, answer>>
    BY <1>3 DEF ListStandingAgain, StandingHolds
  <2>2. Inventoried(plan) /\ plan.available /\ answer = Nothing
    BY <2>1 DEF DockerInvariant, Listed, AtHand, Sampling
  <2>3. AsConfirmed' /\ AtHand'
    BY <2>1, <2>2, OnlyLooking DEF Sampling
  <2>4. RunningBoxes' = RunningBoxes /\ MemoryOf(plan.boxes)' = MemoryOf(plan.boxes)
    BY <2>1 DEF RunningBoxes, Is, world, MemoryOf
  <2>5. Listed' /\ Measured'
    BY <2>1, <2>2, <2>4
    DEF DockerInvariant, Listed, Measured, Listing, Sampling, Inventoried
  <2>6. QED
    BY <1>1, <2>3, <2>5 DEF DockerInvariant
<1>4. QED
  BY <1>2, <1>3

LEMMA EvaluateCapacityKeeps ==
  ASSUME DockerInvariant, EvaluateCapacity
  PROVE  DockerInvariant'
<1>1. Machine'
  BY LookOnly DEF EvaluateCapacity
<1>2. CASE EndCommand
  BY <1>1, <1>2, EndKeeps
<1>3. CASE ~EndCommand
  <2>1. /\ stage = "evaluate" /\ stage' = "list" /\ plan' = NewInventory("start")
        /\ answer' = answer
    BY <1>3 DEF EvaluateCapacity, Keep
  <2>2. answer = Nothing
    BY <2>1 DEF DockerInvariant, AtHand
  <2>3. AsConfirmed' /\ AtHand'
    BY <2>1, <2>2, OnlyLooking
  <2>4. Inventoried(plan') /\ plan'.available
    BY <2>1, NewInventories
  <2>5. Listed' /\ Measured'
    BY <2>1, <2>4 DEF Listed, Measured, Listing, Sampling, Inventoried
  <2>6. QED
    BY <1>1, <2>3, <2>5 DEF DockerInvariant
<1>4. QED
  BY <1>2, <1>3

\* Volumes that environments share out add up to no more than the parts do.
LEMMA PartsAddUp ==
  ASSUME NEW V \in SUBSET Volumes, NEW part \in [Environments -> SUBSET V],
         \A v \in V : \E e \in Environments : v \in part[e]
  PROVE  BytesOf(V) <=
           Cardinality(UNION {{e} \X (1 .. BytesOf(part[e])) : e \in Environments})
<1> DEFINE all == UNION {{v} \X (1 .. VolumeBytes[v]) : v \in V}
           bytes == [e \in Environments |-> UNION {{v} \X (1 .. VolumeBytes[v]) : v \in part[e]}]
           size == [e \in Environments |-> BytesOf(part[e])]
           sum == UNION {{e} \X (1 .. size[e]) : e \in Environments}
           home == [v \in V |-> CHOOSE e \in Environments : v \in part[e]]
           rank == [e \in Environments |-> CHOOSE f : f \in Bijection(bytes[e], 1 .. size[e])]
           map == [x \in all |-> <<home[x[1]], rank[home[x[1]]][x]>>]
<1>1. \A e \in Environments : size[e] \in Nat /\ IsFiniteSet(bytes[e])
                               /\ Cardinality(bytes[e]) = size[e]
  <2> TAKE e \in Environments
  <2>1. part[e] \in SUBSET Volumes
    OBVIOUS
  <2>2. QED
    BY <2>1, BytesAreNat DEF BytesOf
<1>2. ASSUME NEW e \in Environments PROVE rank[e] \in Bijection(bytes[e], 1 .. size[e])
  <2> DEFINE n == size[e]
             S == bytes[e]
             T == 1 .. n
  <2>1. n \in Nat /\ IsFiniteSet(S) /\ Cardinality(S) = n
    BY <1>1
  <2> HIDE DEF n, S
  <2>2. n \in Int /\ 1 \in Int /\ n - 1 + 1 = n
    BY <2>1
  <2>3. IsFiniteSet(T) /\ Cardinality(T) = n
    BY <2>1, <2>2, FS_Interval
  <2> HIDE DEF T
  <2>4. ExistsBijection(S, T)
    BY <2>1, <2>3, FS_SameCardinalityBij
  <2>5. \E f : f \in Bijection(S, T)
    BY <2>4 DEF ExistsBijection
  <2>6. (CHOOSE f : f \in Bijection(S, T)) \in Bijection(S, T)
    BY <2>5
  <2>7. QED
    BY <2>6 DEF S, T, n
<1>3. ASSUME NEW v \in V PROVE home[v] \in Environments /\ v \in part[home[v]]
  OBVIOUS
<1>4. ASSUME NEW x \in all
      PROVE  /\ x[1] \in V /\ home[x[1]] \in Environments /\ x \in bytes[home[x[1]]]
  <2>1. PICK v \in V : x \in {v} \X (1 .. VolumeBytes[v])
    OBVIOUS
  <2>2. x[1] = v
    BY <2>1
  <2>3. home[v] \in Environments /\ v \in part[home[v]]
    BY <1>3
  <2> HIDE DEF home
  <2>4. x \in bytes[home[v]]
    BY <2>1, <2>3
  <2>5. QED
    BY <2>2, <2>3, <2>4
<1> HIDE DEF home, rank, bytes, size, all
<1>5. ASSUME NEW x \in all
      PROVE  rank[home[x[1]]][x] \in 1 .. size[home[x[1]]]
  <2> DEFINE e == home[x[1]]
             T == 1 .. size[e]
  <2>1. e \in Environments /\ x \in bytes[e]
    BY <1>4
  <2>2. rank[e] \in Bijection(bytes[e], T)
    BY <1>2, <2>1
  <2> HIDE DEF e, T
  <2>3. rank[e] \in [bytes[e] -> T]
    BY <2>2, Fun_BijectionProperties
  <2>4. rank[e][x] \in T
    BY <2>1, <2>3
  <2>5. QED
    BY <2>4 DEF e, T
<1>6. \A x \in all : map[x] = <<home[x[1]], rank[home[x[1]]][x]>> /\ map[x] \in sum
  BY <1>4, <1>5
<1>7. ASSUME NEW x \in all, NEW y \in all, map[x] = map[y] PROVE x = y
  <2>1. home[x[1]] = home[y[1]] /\ rank[home[x[1]]][x] = rank[home[x[1]]][y]
    BY <1>6, <1>7
  <2> DEFINE e == home[x[1]]
  <2>2. e \in Environments /\ x \in bytes[e] /\ y \in bytes[e]
    BY <1>4, <2>1
  <2> HIDE DEF e
  <2>3. \A a, b \in bytes[e] : rank[e][a] = rank[e][b] => a = b
    BY <1>2, <2>2, Fun_BijectionProperties
  <2>4. QED
    BY <2>1, <2>2, <2>3 DEF e
<1>8. map \in [all -> sum]
  BY <1>6
<1>9. map \in Injection(all, sum)
  <2> HIDE DEF map, sum
  <2>1. \A x, y \in all : map[x] = map[y] => x = y
    BY <1>7
  <2>2. QED
    BY <1>8, <2>1, Fun_IsInj
<1>10. IsFiniteSet(sum)
  BY <1>1, InventoryAssumption, FiniteBytes
<1>11. Cardinality(all) <= Cardinality(sum)
  <2> HIDE DEF map, sum
  <2>1. QED
    BY <1>9, <1>10, FS_Injection
<1>12. sum = UNION {{e} \X (1 .. BytesOf(part[e])) : e \in Environments}
  BY DEF size
<1>13. QED
  BY <1>11, <1>12 DEF all, BytesOf

\* evaluateResourcePolicy: within the quota are all volumes of the project.
LEMMA WithinQuota ==
  ASSUME Inventoried(plan), plan.available, Quota # Nothing, AllowsStartup(ShownPolicy)
  PROVE  BytesOf(OfProject(plan.volumes)) <= Quota
<1> DEFINE V == OfProject(plan.volumes)
           part == [e \in Environments |-> OwnVolumes(e, plan.boxes, plan.volumes)]
<1>1. ShownEntries = [e \in Environments |->
                         Entry(e, plan.boxes, plan.volumes, plan.sizes, now)]
  BY DEF ShownEntries, Entries
<1>2. OwnedBytes(ShownEntries) # Nothing /\ ~(OwnedBytes(ShownEntries) > Quota)
  BY DEF AllowsStartup, ShownPolicy, PolicyStatus, QuotaState
<1>3. /\ \A e \in Environments : ShownEntries[e].state # "unavailable"
      /\ \A e \in Environments : ShownEntries[e].volumes = 0 \/ ShownEntries[e].bytes # Nothing
  BY <1>1, <1>2 DEF OwnedBytes, Known
<1>4. ASSUME NEW e \in Environments
      PROVE  /\ ~HasConflict(e, plan.boxes, plan.volumes)
             /\ ShownEntries[e].bytes = BytesOf(part[e]) /\ ShownEntries[e].bytes # Nothing
  <2>1. /\ ShownEntries[e].state = EnvironmentState(e, plan.boxes, plan.volumes)
        /\ ShownEntries[e].volumes = Cardinality(part[e])
        /\ ShownEntries[e].bytes = DiskUsage(e, plan.boxes, plan.volumes, plan.sizes)
    BY <1>1 DEF Entry
  <2>2. ~HasConflict(e, plan.boxes, plan.volumes)
    BY <1>3, <2>1 DEF EnvironmentState, OwnBoxes, OwnVolumes, RunningOf
  <2>3. part[e] \in SUBSET Volumes
    BY DEF OwnVolumes, Inventoried
  <2>4. IsFiniteSet(part[e]) /\ BytesOf(part[e]) \in Nat
    BY <2>3, BytesAreNat, InventoryAssumption, FS_Subset DEF Volumes
  <2>5. ShownEntries[e].bytes # Nothing
    <3>1. CASE ShownEntries[e].volumes = 0
      <4>1. part[e] = {}
        BY <2>1, <2>4, <3>1, FS_EmptySet
      <4>2. DiskUsage(e, plan.boxes, plan.volumes, plan.sizes) = BytesOf(part[e])
        BY <2>2, <4>1 DEF DiskUsage
      <4>3. QED
        BY <2>1, <2>4, <4>2, RemovalAssumption
    <3>2. QED
      BY <1>3, <3>1
  <2>6. ShownEntries[e].bytes = BytesOf(part[e])
    BY <2>1, <2>5 DEF DiskUsage
  <2>7. QED
    BY <2>2, <2>5, <2>6
<1>5. part \in [Environments -> SUBSET V] /\ V \in SUBSET Volumes
  BY <1>4 DEF OwnVolumes, OfProject, Inventoried
<1>6. \A v \in V : \E e \in Environments : v \in part[e]
  BY <1>4 DEF OwnVolumes, OfProject
<1>7. OwnedBytes(ShownEntries) =
        Cardinality(UNION {{e} \X (1 .. BytesOf(part[e])) : e \in Environments})
  <2>1. DOMAIN ShownEntries = Environments
    BY <1>1
  <2>2. {f \in DOMAIN ShownEntries : ShownEntries[f].bytes # Nothing} = Environments
    BY <1>4, <2>1
  <2>3. OwnedBytes(ShownEntries) =
          Cardinality(UNION {{e} \X (1 .. ShownEntries[e].bytes) :
                              e \in {f \in DOMAIN ShownEntries : ShownEntries[f].bytes # Nothing}})
    BY <1>2 DEF OwnedBytes
  <2>4. {{e} \X (1 .. ShownEntries[e].bytes) : e \in Environments}
          = {{e} \X (1 .. BytesOf(part[e])) : e \in Environments}
    BY <1>4
  <2>5. QED
    BY <2>2, <2>3, <2>4
<1> HIDE DEF V, part
<1>8. BytesOf(V) <= OwnedBytes(ShownEntries)
  BY <1>5, <1>6, <1>7, PartsAddUp
<1>9. BytesOf(V) \in Nat /\ Quota \in Nat
  BY <1>5, BytesAreNat, InventoryAssumption
<1>10. OwnedBytes(ShownEntries) \in Nat
  <2>1. \A e \in Environments : part[e] \in SUBSET Volumes
    BY <1>5
  <2>2. \A e \in Environments : BytesOf(part[e]) \in Nat
    BY <2>1, BytesAreNat
  <2> DEFINE size == [e \in Environments |-> BytesOf(part[e])]
  <2>3. IsFiniteSet(UNION {{e} \X (1 .. size[e]) : e \in Environments})
    <3>1. \A e \in Environments : size[e] \in Nat
      BY <2>2
    <3>2. IsFiniteSet(Environments)
      BY InventoryAssumption
    <3> HIDE DEF size
    <3>3. QED
      BY <3>1, <3>2, FiniteBytes
  <2>4. {{e} \X (1 .. size[e]) : e \in Environments}
          = {{e} \X (1 .. BytesOf(part[e])) : e \in Environments}
    OBVIOUS
  <2>5. QED
    BY <1>7, <2>3, <2>4, FS_CardinalityType
<1>11. QED
  BY <1>2, <1>8, <1>9, <1>10 DEF V

LEMMA EvaluateQuotaKeeps ==
  ASSUME DockerInvariant, EvaluateQuota
  PROVE  DockerInvariant'
<1>1. Machine'
  BY LookOnly DEF EvaluateQuota
<1>2. CASE EndCommand
  BY <1>1, <1>2, EndKeeps
<1>3. CASE ~EndCommand
  <2>1. /\ stage = "quota" /\ stage' = "admitted" /\ AllowsStartup(ShownPolicy)
        /\ UNCHANGED <<world, plan, answer, changed>>
    BY <1>3 DEF EvaluateQuota
  <2>2. /\ Inventoried(plan) /\ plan.available /\ answer = Nothing
        /\ \A c \in Boxes : SeenSince(c)
        /\ plan.volumes = SeenVolumes \/ changed \cap VolumeItems # {}
    BY <2>1 DEF DockerInvariant, Listed, AtHand, Listing
  <2>3. AsConfirmed' /\ AtHand'
    BY <2>1, <2>2, OnlyLooking DEF Listing
  <2>4. SeenVolumes' = SeenVolumes /\ \A c \in Boxes : SeenSince(c)'
    BY <2>1, <2>2 DEF SeenVolumes, Volumes, SeenSince, Stands, world, Touched
  <2>5. Quota # Nothing => BytesOf(OfProject(plan'.volumes)) <= Quota
    BY <2>1, <2>2, WithinQuota
  <2>6. Listed' /\ Measured'
    BY <2>1, <2>2, <2>4, <2>5
    DEF Listed, Measured, Listing, Sampling, Inventoried, VolumeItems, BytesOf, OfProject
  <2>7. QED
    BY <1>1, <2>3, <2>6 DEF DockerInvariant
<1>4. QED
  BY <1>2, <1>3

-----------------------------------------------------------------------------
(* Other tools.                                                            *)

\* What they change is among the items of the event.
Within(item) ==
  /\ \A c \in Boxes : box'[c] = box[c] \/ Touched(c) \subseteq item
  /\ \A v \in Volumes : volume'[v] = volume[v] \/ Item("volume", v) \in item
  /\ \A t \in DOMAIN Tags : tag'[t] = tag[t] \/ Item("tag", t) \in item

LEMMA OthersTouch ==
  ASSUME DockerInvariant, OthersStep
  PROVE  \E item : Event(item) /\ Machine' /\ Within(item)
<1> DEFINE States == {"none", "running", "exited", "gone"}
<1>1. /\ now \in Nat /\ box \in [Boxes -> [state : States, since : Nat]]
      /\ volume \in [Volumes -> Nat] /\ tag \in [DOMAIN Tags -> Nat \cup {Nothing}]
  BY DEF DockerInvariant, Machine
<1>2. ASSUME NEW item, Event(item), UNCHANGED box,
             volume' \in [Volumes -> Nat] /\ tag' \in [DOMAIN Tags -> Nat \cup {Nothing}]
      PROVE  Machine'
  BY <1>1, <1>2 DEF Event, Machine, Volumes
<1>3. ASSUME NEW c \in Boxes, NEW s \in [state : States, since : Nat], NEW item, Event(item),
             box' = [box EXCEPT ![c] = s],
             volume' \in [Volumes -> Nat] /\ UNCHANGED tag
      PROVE  /\ Machine' /\ \A d \in Boxes : d # c => box'[d] = box[d]
  BY <1>1, <1>3 DEF Event, Machine, Volumes
<1>4. ASSUME NEW c \in Boxes, Create(c)
      PROVE  \E item : Event(item) /\ Machine' /\ Within(item)
  <2> DEFINE item == Touched(c) \cup {Item("volume", v) : v \in Mounts[c]}
             s == [state |-> "running", since |-> now + 1]
  <2>1. /\ Event(item) /\ box' = [box EXCEPT ![c] = s] /\ UNCHANGED tag
        /\ volume' = [v \in Volumes |-> IF v \in Mounts[c] /\ volume[v] = 0 THEN now + 1
                                                                        ELSE volume[v]]
    BY <1>4 DEF Create
  <2>2. s \in [state : States, since : Nat] /\ volume' \in [Volumes -> Nat]
    BY <1>1, <2>1
  <2>3. Machine' /\ \A d \in Boxes : d # c => box'[d] = box[d]
    BY <1>3, <2>1, <2>2
  <2>4. \A v \in Volumes : volume'[v] = volume[v] \/ Item("volume", v) \in item
    BY <2>1
  <2>5. Within(item)
    BY <2>1, <2>3, <2>4 DEF Within
  <2>6. QED
    BY <2>1, <2>3, <2>5
<1>5. ASSUME NEW c \in Boxes, StartOrExit(c) \/ Restart(c) \/ Discard(c)
      PROVE  \E item : Event(item) /\ Machine' /\ Within(item)
  <2>1. Event(Touched(c)) /\ UNCHANGED <<volume, tag>>
    BY <1>5 DEF StartOrExit, Restart, Discard
  <2>2. PICK s \in [state : States, since : Nat] : box' = [box EXCEPT ![c] = s]
    <3>1. now + 1 \in Nat /\ box[c] \in [state : States, since : Nat]
      BY <1>1
    <3>2. CASE StartOrExit(c)
      <4> DEFINE s == [state |-> IF box[c].state = "running" THEN "exited" ELSE "running",
                       since |-> now + 1]
      <4>1. s \in [state : States, since : Nat] /\ box' = [box EXCEPT ![c] = s]
        BY <3>1, <3>2 DEF StartOrExit
      <4>2. QED
        BY <4>1
    <3>3. CASE Restart(c)
      <4> DEFINE s == [box[c] EXCEPT !.since = now + 1]
      <4>1. s \in [state : States, since : Nat] /\ box' = [box EXCEPT ![c] = s]
        BY <1>1, <3>1, <3>3 DEF Restart
      <4>2. QED
        BY <4>1
    <3>4. CASE Discard(c)
      <4> DEFINE s == [box[c] EXCEPT !.state = "gone"]
      <4>1. s \in [state : States, since : Nat] /\ box' = [box EXCEPT ![c] = s]
        BY <1>1, <3>1, <3>4 DEF Discard
      <4>2. QED
        BY <4>1
    <3>5. QED
      BY <1>5, <3>2, <3>3, <3>4
  <2>3. volume' \in [Volumes -> Nat] /\ UNCHANGED tag
    BY <1>1, <2>1
  <2>4. Machine' /\ \A d \in Boxes : d # c => box'[d] = box[d]
    BY <1>3, <2>1, <2>2, <2>3
  <2>5. Within(Touched(c))
    BY <2>1, <2>4 DEF Within
  <2>6. QED
    BY <2>1, <2>4, <2>5
<1>6. ASSUME NEW v \in Volumes, ChangeVolume(v)
      PROVE  \E item : Event(item) /\ Machine' /\ Within(item)
  <2>1. /\ Event({Item("volume", v)}) /\ UNCHANGED <<box, tag>>
        /\ volume' \in {[volume EXCEPT ![v] = 0], [volume EXCEPT ![v] = now + 1]}
    BY <1>6 DEF ChangeVolume
  <2>2. volume' \in [Volumes -> Nat] /\ tag' \in [DOMAIN Tags -> Nat \cup {Nothing}]
    BY <1>1, <2>1
  <2>3. Machine'
    BY <1>2, <2>1, <2>2
  <2>4. Within({Item("volume", v)})
    BY <1>1, <2>1 DEF Within
  <2>5. QED
    BY <2>1, <2>3, <2>4
<1>7. ASSUME NEW t \in DOMAIN Tags, NEW image \in Images, Retag(t, image)
      PROVE  \E item : Event(item) /\ Machine' /\ Within(item)
  <2>1. /\ Event({Item("tag", t)}) /\ UNCHANGED <<box, volume>>
        /\ tag' = [tag EXCEPT ![t] = image] /\ image \in Nat
    BY <1>7, RemovalAssumption DEF Retag, Images
  <2>2. volume' \in [Volumes -> Nat] /\ tag' \in [DOMAIN Tags -> Nat \cup {Nothing}]
    BY <1>1, <2>1
  <2>3. Machine'
    BY <1>2, <2>1, <2>2
  <2>4. Within({Item("tag", t)})
    BY <1>1, <2>1 DEF Within
  <2>5. QED
    BY <2>1, <2>3, <2>4
<1>8. ASSUME Pass
      PROVE  \E item : Event(item) /\ Machine' /\ Within(item)
  <2>1. Event({}) /\ UNCHANGED <<box, volume, tag>>
    BY <1>8 DEF Pass, world
  <2>2. Machine'
    BY <1>1, <1>2, <2>1
  <2>3. Within({})
    BY <2>1 DEF Within
  <2>4. QED
    BY <2>1, <2>2, <2>3
<1>9. QED
  BY <1>4, <1>5, <1>6, <1>7, <1>8 DEF OthersStep

LEMMA ClaimedAreBoxes == Claimed \subseteq Boxes
<1>1. \A i \in DOMAIN Claims : Claims[i] \in Boxes
  BY RemovalAssumption
<1>2. QED
  BY <1>1 DEF Claimed

LEMMA OthersKeepThem ==
  ASSUME DockerInvariant, OthersStep
  PROVE  DockerInvariant'
<1>1. PICK item : Event(item) /\ Machine' /\ Within(item)
  BY OthersTouch
<1>2. UNCHANGED <<stage, consent, plan, todo, current, outcomes, answer>>
  BY <1>1 DEF Event, command
<1>3. AsConfirmed'
  BY <1>2 DEF DockerInvariant, AsConfirmed, WellMade, Work
<1>4. CASE stage = "idle"
  <2>1. AtHand'
    BY <1>2, <1>4 DEF DockerInvariant, AtHand
  <2>2. Listed' /\ Measured'
    BY <1>2, <1>4 DEF Listed, Measured, Listing, Sampling
  <2>3. QED
    BY <1>1, <1>3, <2>1, <2>2 DEF DockerInvariant
<1>5. CASE stage # "idle"
  <2>1. changed' = changed \cup (item \cap Concerned(plan.kind))
    BY <1>1, <1>5 DEF Event
  <2>2. AtHand'
    <3>1. stage \in {"preserved", "recheck", "recheck-volumes"} =>
            answer' \in {Nothing, Gone(current)'} \/ Item("box", current)' \in changed'
      <4> SUFFICES ASSUME stage \in {"preserved", "recheck", "recheck-volumes"}
                   PROVE  answer \in {Nothing, Gone(current)'} \/ Item("box", current) \in changed'
        BY <1>2 DEF Item
      <4>1. answer \in {Nothing, Gone(current)} \/ Item("box", current) \in changed
        BY DEF DockerInvariant, AtHand
      <4>2. plan.kind = "retire" /\ current \in Claimed
        BY DEF DockerInvariant, AsConfirmed, ClaimStages, Applied, Work
      <4>3. current \in Boxes /\ Item("box", current) \in Concerned(plan.kind)
        BY <4>2, ClaimedAreBoxes DEF Concerned
      <4>4. CASE box'[current] = box[current]
        BY <1>2, <2>1, <4>1, <4>4 DEF Gone, Is
      <4>5. CASE box'[current] # box[current]
        BY <1>1, <2>1, <4>3, <4>5 DEF Within, Touched
      <4>6. QED
        BY <4>4, <4>5
    <3>2. stage \in {"volumes", "remove"} =>
            SnapshotHolds(current)' \/ Item("box", current)' \in changed'
      <4> SUFFICES ASSUME stage \in {"volumes", "remove"}
                   PROVE  box'[current] = plan.boxes[current] \/ Item("box", current) \in changed'
        BY <1>2 DEF Item, SnapshotHolds
      <4>1. box[current] = plan.boxes[current] \/ Item("box", current) \in changed
        BY DEF DockerInvariant, AtHand, SnapshotHolds
      <4>2. plan.kind = "retire" /\ current \in Claimed
        BY DEF DockerInvariant, AsConfirmed, ClaimStages, Applied, Work
      <4>3. current \in Boxes /\ Item("box", current) \in Concerned(plan.kind)
        BY <4>2, ClaimedAreBoxes DEF Concerned
      <4>4. CASE box'[current] = box[current]
        BY <2>1, <4>1, <4>4
      <4>5. CASE box'[current] # box[current]
        BY <1>1, <2>1, <4>3, <4>5 DEF Within, Touched
      <4>6. QED
        BY <4>4, <4>5
    <3>3. stage \in {"in-use-again", "untag"} =>
            tag'[current'] = ImageOfTag(current)' \/ Item("tag", current)' \in changed'
      <4> SUFFICES ASSUME stage \in {"in-use-again", "untag"}
                   PROVE  tag'[current] = ImageOfTag(current) \/ Item("tag", current) \in changed'
        BY <1>2 DEF Item, ImageOfTag
      <4>1. tag[current] = ImageOfTag(current) \/ Item("tag", current) \in changed
        BY DEF DockerInvariant, AtHand
      <4>2. plan.kind = "images" /\ current \in DOMAIN Tags
        BY TagOfPlan DEF TagStages
      <4>3. Item("tag", current) \in Concerned(plan.kind)
        BY <4>2 DEF Concerned
      <4>4. QED
        BY <1>1, <2>1, <4>1, <4>2, <4>3 DEF Within
    <3>4. stage = "untag" => Unused(ImageOfTag(current))'
                               \/ Item("use", ImageOfTag(current))' \in changed'
      <4> DEFINE image == ImageOfTag(current)
      <4> SUFFICES ASSUME stage = "untag", ~Unused(image)'
                   PROVE  Item("use", image) \in changed'
        BY <1>2 DEF Item, ImageOfTag
      <4>1. Unused(image) \/ Item("use", image) \in changed
        BY DEF DockerInvariant, AtHand
      <4>2. plan.kind = "images" /\ image' = image
        BY <1>2, TagOfPlan DEF TagStages, ImageOfTag
      <4>3. PICK c \in Boxes : Stands(c)' /\ ImageOf[c] = image
        BY <4>2 DEF Unused, InUse, UsedBy, Seen
      <4>4. CASE Stands(c)
        <5>1. ~Unused(image)
          BY <4>3, <4>4 DEF Unused, InUse, UsedBy, Seen
        <5>2. QED
          BY <2>1, <4>1, <5>1
      <4>5. CASE ~Stands(c)
        <5>1. box'[c] # box[c]
          BY <4>3, <4>5 DEF Stands
        <5>2. Item("use", image) \in Touched(c) /\ Item("use", image) \in Concerned(plan.kind)
          BY <4>2, <4>3 DEF Touched, Concerned, Images
        <5>3. QED
          BY <1>1, <2>1, <5>1, <5>2 DEF Within
      <4>6. QED
        BY <4>4, <4>5
    <3>5. stage = "stop" => \A c \in DOMAIN plan.targets[current] :
            box'[c] = plan.targets[current][c] \/ Item("box", c) \in changed'
      <4> SUFFICES ASSUME stage = "stop", NEW c \in DOMAIN plan.targets[current]
                   PROVE  box'[c] = plan.targets[current][c] \/ Item("box", c) \in changed'
        OBVIOUS
      <4>1. box[c] = plan.targets[current][c] \/ Item("box", c) \in changed
        BY DEF DockerInvariant, AtHand
      <4>2. plan.kind = "stale" /\ current \in DOMAIN plan.targets /\ WellMade(plan)
        BY DEF DockerInvariant, AsConfirmed, TargetStages, Applied, Work
      <4>3. c \in Boxes /\ Item("box", c) \in Concerned(plan.kind)
        BY <4>2 DEF WellMade, Concerned
      <4>4. QED
        BY <1>1, <2>1, <4>1, <4>3 DEF Within, Touched
    <3>6. stage \notin {"preserved", "recheck", "recheck-volumes"} => answer = Nothing
      BY DEF DockerInvariant, AtHand
    <3>7. stage = "preserved" => answer = TRUE
      BY DEF DockerInvariant, AtHand
    <3>8. QED
      BY <1>2, <3>1, <3>2, <3>3, <3>4, <3>5, <3>6, <3>7 DEF AtHand, Item
  <2>3. Listed' /\ Measured'
    <3>1. CASE stage \in {"list"} \cup Listing \cup Sampling
      <4>1. Inventoried(plan) /\ (plan.available \/ stage = "shown")
        BY <3>1 DEF DockerInvariant, Listed
      <4>2. Concerned(plan.kind) = BoxItems \cup VolumeItems \cup TagItems
        BY <4>1 DEF Inventoried, Concerned, BoxItems, VolumeItems, TagItems
      <4>3. \A c \in Boxes : box'[c] = box[c] \/ Touched(c) \subseteq changed'
        BY <1>1, <2>1, <4>2, ItemsDiffer DEF Within
      <4>4. SeenVolumes' = SeenVolumes \/ changed' \cap VolumeItems # {}
        <5>1. CASE \A v \in Volumes : volume'[v] = volume[v]
          BY <5>1 DEF SeenVolumes, Volumes
        <5>2. CASE \E v \in Volumes : volume'[v] # volume[v]
          BY <1>1, <2>1, <4>2, <5>2 DEF Within, VolumeItems
        <5>3. QED
          BY <5>1, <5>2
      <4>5. Named' = Named \/ changed' \cap TagItems # {}
        <5>1. CASE \A t \in DOMAIN Tags : tag'[t] = tag[t]
          BY <5>1 DEF Named
        <5>2. CASE \E t \in DOMAIN Tags : tag'[t] # tag[t]
          BY <1>1, <2>1, <4>2, <5>2 DEF Within, TagItems
        <5>3. QED
          BY <5>1, <5>2
      <4>6. RunningBoxes' = RunningBoxes \/ changed' \cap BoxItems # {}
        <5>1. CASE \A c \in Boxes : box'[c] = box[c]
          BY <5>1 DEF RunningBoxes, Is
        <5>2. CASE \E c \in Boxes : box'[c] # box[c]
          BY <4>3, <5>2 DEF Touched, BoxItems
        <5>3. QED
          BY <5>1, <5>2
      <4>7. changed \subseteq changed'
        BY <2>1
      <4>8. ASSUME NEW c \in Boxes, SeenSince(c) PROVE SeenSince(c)'
        BY <1>2, <4>3, <4>7, <4>8 DEF SeenSince, Stands, Touched
      <4>9. Listed'
        <5>1. UNCHANGED <<Inventoried(plan), BytesOf(OfProject(plan.volumes))>>
          BY <1>2 DEF Inventoried, BytesOf, OfProject, Volumes
        <5>2. QED
          BY <1>2, <4>1, <4>4, <4>5, <4>7, <4>8, <5>1
          DEF DockerInvariant, Listed, Listing, Sampling, VolumeItems, TagItems
      <4>10. Measured'
        BY <1>2, <4>6, <4>7
        DEF DockerInvariant, Measured, Sampling, MemoryOf, BoxItems
      <4>11. QED
        BY <4>9, <4>10
    <3>2. CASE stage \notin {"list"} \cup Listing \cup Sampling
      BY <1>2, <3>2 DEF Listed, Measured, Listing, Sampling
    <3>3. QED
      BY <3>1, <3>2
  <2>4. QED
    BY <1>1, <1>3, <2>2, <2>3 DEF DockerInvariant
<1>6. QED
  BY <1>4, <1>5

-----------------------------------------------------------------------------

LEMMA DockerInduction ==
  ASSUME DockerInvariant, [DockerNext]_dockerVars
  PROVE  DockerInvariant'
<1>1. CASE RemovalStep
  <2>1. ASSUME NEW kind \in {"retire", "images", "cleanup", "stale"}, Preview(kind) \/ Apply(kind)
        PROVE  DockerInvariant'
    BY <2>1, PreviewKeeps, ApplyKeeps
  <2>2. CASE Advance \/ Fail
    BY <2>2, AdvanceKeeps, FailKeeps
  <2>3. CASE InspectClaim \/ InspectVolumes \/ RemoveContainer \/ ConfirmRemoval
               \/ ConfirmVolumes \/ Recheck \/ RecheckVolumes
    BY <2>3, InspectClaimKeeps, RemoveContainerKeeps, ConfirmKeeps, RecheckKeeps
  <2>4. CASE RemoveRuntime
    BY <2>4, RemoveRuntimeKeeps
  <2>5. CASE LookForUse("in-use", "tag") \/ InspectTag \/ LookForUse("in-use-again", "untag")
               \/ RemoveTag
    BY <2>5, TagLooksKeep, RemoveTagKeeps
  <2>6. CASE Refresh \/ Bind \/ StopContainers \/ ProveStopped
    BY <2>6, TargetLooksKeep, StopContainersKeeps
  <2>7. QED
    BY <1>1, <2>1, <2>2, <2>3, <2>4, <2>5, <2>6 DEF RemovalStep
<1>2. CASE InventoryStep
  BY <1>2, LookBegins, SeeContainersKeeps, SeeVolumesKeeps, MeasureVolumesKeeps,
     SeeImagesKeeps, ShownKeeps
  DEF InventoryStep
<1>3. CASE AdmissionStep
  BY <1>3, LookBegins, SamplesKeep, MeasureGuestKeeps, ListStandingAgainKeeps,
     EvaluateCapacityKeeps, EvaluateQuotaKeeps, ShownKeeps
  DEF AdmissionStep
<1>4. CASE OthersStep
  BY <1>4, OthersKeepThem
<1>5. CASE UNCHANGED dockerVars
  BY <1>5 DEF dockerVars, world, command, DockerInvariant, Machine, Volumes, AsConfirmed,
     WellMade, Work, AtHand, Gone, Is, SnapshotHolds, ImageOfTag, Unused, InUse, UsedBy, Seen,
     Stands, Listed, Inventoried, SeenSince, SeenVolumes, Named, Measured, MemoryOf,
     RunningBoxes, BytesOf, OfProject
<1>6. QED
  BY <1>1, <1>2, <1>3, <1>4, <1>5 DEF DockerNext

\* Every look of a command is current or has been overtaken by other tools.
THEOREM DockerInvariantHolds == DockerSpec => []DockerInvariant
<1>1. ASSUME DockerInit PROVE DockerInvariant
  <2>1. /\ stage = "idle" /\ answer = Nothing /\ now = 1 /\ tag = Tags
        /\ volume = [v \in Volumes |-> IF \E c \in Boxes \ Later : v \in Mounts[c] THEN 1 ELSE 0]
        /\ \E running : box = [c \in Boxes |->
             [state |-> IF c \in Later THEN "none"
                        ELSE IF c \in running THEN "running" ELSE "exited",
              since |-> 0]]
    BY <1>1 DEF DockerInit, RemovalInit
  <2>2. Machine
    BY <2>1, RemovalAssumption DEF Machine
  <2>3. AsConfirmed /\ AtHand
    BY <2>1 DEF AsConfirmed, AtHand, Applied, ClaimStages, TagStages, TargetStages
  <2>4. Listed /\ Measured
    BY <2>1 DEF Listed, Measured, Listing, Sampling
  <2>5. QED
    BY <2>2, <2>3, <2>4 DEF DockerInvariant
<1>2. QED
  BY <1>1, DockerInduction, PTL DEF DockerSpec

-----------------------------------------------------------------------------
(* Acts.                                                                   *)

\* The steps that change the machine without taking the time of others.
LEMMA Acts ==
  ASSUME DockerInvariant, [DockerNext]_dockerVars, CommandActs
  PROVE  UNCHANGED world \/ RemoveContainer \/ RemoveRuntime \/ RemoveTag \/ StopContainers
<1>1. CASE OthersStep
  <2>1. now' = now + 1 /\ now \in Nat
    BY <1>1 DEF OthersStep, Create, StartOrExit, Restart, Discard, ChangeVolume, Retag, Pass,
                Event, DockerInvariant, Machine
  <2>2. QED
    BY <2>1 DEF CommandActs
<1>2. CASE InventoryStep \/ AdmissionStep
  BY <1>2 DEF InventoryStep, AdmissionStep, Inspect, SeeContainers, SeeVolumes, MeasureVolumes,
     SeeImages, Close, MeasureHost, ListStanding, SampleStanding, MeasureGuest,
     ListStandingAgain, EvaluateCapacity, EvaluateQuota, Admitted
<1>3. CASE RemovalStep
  BY <1>3 DEF RemovalStep, Preview, Apply, Advance, Fail, InspectClaim, InspectVolumes,
     ConfirmRemoval, ConfirmVolumes, Recheck, RecheckVolumes, LookForUse, InspectTag,
     Refresh, Bind, ProveStopped
<1>4. CASE UNCHANGED dockerVars
  BY <1>4 DEF dockerVars
<1>5. QED
  BY <1>1, <1>2, <1>3, <1>4 DEF DockerNext

\* What RemovedAsReviewed says of one step.
BoxesRemoved ==
  \A c \in Boxes : CommandActs /\ Stands(c) /\ box'[c].state = "gone" =>
    \/ /\ consent.kind = "retire" /\ c \in DOMAIN consent.boxes
       /\ box[c] = consent.boxes[c] \/ Item("box", c) \in changed
    \/ /\ consent.kind = "images" /\ consent.included
       /\ Bears(BoxLabels[c], Primary) /\ Primary \notin Sheltered
TagsRemoved ==
  \A t \in DOMAIN Tags : CommandActs /\ tag'[t] # tag[t] =>
    /\ consent.kind = "images"
    /\ \/ Item("tag", t) \in changed
       \/ /\ tag[t] \in DOMAIN consent.images /\ t \in consent.images[tag[t]]
          /\ InUse(tag[t]) => Item("use", tag[t]) \in changed
VolumesRemoved ==
  \A v \in Volumes : CommandActs /\ volume'[v] # volume[v] =>
    /\ consent.kind = "images" /\ consent.included
    /\ Bears(VolumeLabels[v], Primary)
BoxesStopped ==
  \A c \in Boxes : CommandActs /\ Is(c, "running") /\ box'[c].state = "exited" =>
    /\ consent.kind = "stale"
    /\ \E e \in DOMAIN consent.targets :
         /\ c \in DOMAIN consent.targets[e]
         /\ ~OwnershipConflicts(BoxLabels[c], e)
         /\ box[c] = consent.targets[e][c] \/ Item("box", c) \in changed

LEMMA StepActsAsReviewed ==
  ASSUME DockerInvariant, [DockerNext]_dockerVars
  PROVE  BoxesRemoved /\ TagsRemoved /\ VolumesRemoved /\ BoxesStopped
<1> SUFFICES ASSUME CommandActs
             PROVE  BoxesRemoved /\ TagsRemoved /\ VolumesRemoved /\ BoxesStopped
  BY DEF BoxesRemoved, TagsRemoved, VolumesRemoved, BoxesStopped
<1> USE DEF CommandActs
<1>1. box \in [Boxes -> [state : {"none", "running", "exited", "gone"}, since : Nat]]
  BY DEF DockerInvariant, Machine
<1>2. CASE UNCHANGED world
  BY <1>2 DEF world, BoxesRemoved, TagsRemoved, VolumesRemoved, BoxesStopped, Stands, Is
<1>3. CASE RemoveContainer
  <2>1. /\ UNCHANGED <<volume, tag>> /\ stage = "remove"
        /\ box' \in {box, [box EXCEPT ![current].state = "gone"]}
    BY <1>3 DEF RemoveContainer
  <2>2. /\ plan = consent /\ plan.kind = "retire" /\ current \in DOMAIN plan.boxes
        /\ box[current] = plan.boxes[current] \/ Item("box", current) \in changed
    BY <2>1 DEF DockerInvariant, AsConfirmed, AtHand, Applied, ClaimStages, WellMade, Work,
                SnapshotHolds
  <2>3. \A c \in Boxes : c # current => box'[c] = box[c]
    BY <1>1, <2>1
  <2>4. BoxesRemoved
    BY <2>2, <2>3 DEF BoxesRemoved, Stands
  <2>5. BoxesStopped
    BY <1>1, <2>1, <2>3 DEF BoxesStopped, Is
  <2>6. QED
    BY <2>1, <2>4, <2>5 DEF TagsRemoved, VolumesRemoved
<1>4. CASE RemoveRuntime
  <2> DEFINE own == {c \in DOMAIN Seen : Bears(BoxLabels[c], Primary)}
             vols == {v \in SeenVolumes : Bears(VolumeLabels[v], Primary)}
  <2>1. PICK S \in SUBSET own, V \in SUBSET vols :
          TakeAway(S, V) /\ UNCHANGED tag /\ stage = "runtime"
    <3>1. CASE TakeAway(own, vols) /\ Continue("next", {})
      BY <1>4, <3>1 DEF RemoveRuntime
    <3>2. CASE \E some \in SUBSET own : TakeAway(some, {}) /\ EndCommand
      BY <1>4, <3>2 DEF RemoveRuntime
    <3>3. QED
      BY <1>4, <3>1, <3>2 DEF RemoveRuntime
  <2>2. /\ plan = consent /\ plan.kind = "images" /\ plan.included
        /\ Primary \notin Sheltered
    BY <2>1 DEF DockerInvariant, AsConfirmed, Applied
  <2>3. \A c \in Boxes : \/ box'[c] = box[c]
                         \/ c \in own /\ box'[c].state = "gone"
    BY <1>1, <2>1 DEF TakeAway
  <2>4. BoxesRemoved
    BY <2>2, <2>3 DEF BoxesRemoved, Stands
  <2>5. BoxesStopped
    BY <2>3 DEF BoxesStopped, Is
  <2>6. VolumesRemoved
    BY <2>1, <2>2 DEF VolumesRemoved, TakeAway
  <2>7. QED
    BY <2>1, <2>4, <2>5, <2>6 DEF TagsRemoved
<1>5. CASE RemoveTag
  <2>1. /\ UNCHANGED <<box, volume>> /\ stage = "untag"
        /\ tag' \in {tag, [tag EXCEPT ![current] = Nothing]}
    BY <1>5 DEF RemoveTag
  <2>2. /\ plan = consent /\ plan.kind = "images"
        /\ ImageOfTag(current) \in DOMAIN plan.images
        /\ current \in plan.images[ImageOfTag(current)]
    BY <2>1, TagOfPlan DEF TagStages
  <2>3. /\ tag[current] = ImageOfTag(current) \/ Item("tag", current) \in changed
        /\ Unused(ImageOfTag(current)) \/ Item("use", ImageOfTag(current)) \in changed
    BY <2>1 DEF DockerInvariant, AtHand
  <2>4. \A t \in DOMAIN Tags : t # current => tag'[t] = tag[t]
    BY <2>1 DEF DockerInvariant, Machine
  <2>5. TagsRemoved
    BY <2>2, <2>3, <2>4 DEF TagsRemoved, Unused
  <2>6. QED
    BY <2>1, <2>5 DEF BoxesRemoved, VolumesRemoved, BoxesStopped, Stands, Is
<1>6. CASE StopContainers
  <2>1. PICK S : /\ UNCHANGED <<volume, tag>> /\ stage = "stop" /\ Stopped(S)
                 /\ S \subseteq DOMAIN plan.targets[current]
    BY <1>6 DEF StopContainers
  <2>2. /\ plan = consent /\ plan.kind = "stale" /\ current \in DOMAIN plan.targets
        /\ WellMade(plan)
    BY <2>1 DEF DockerInvariant, AsConfirmed, Applied, TargetStages, Work
  <2>3. \A c \in DOMAIN plan.targets[current] :
          /\ box[c] = plan.targets[current][c] \/ Item("box", c) \in changed
          /\ ~OwnershipConflicts(BoxLabels[c], current)
    BY <2>1, <2>2 DEF DockerInvariant, AtHand, WellMade
  <2>4. \A c \in Boxes : \/ box'[c] = box[c]
                         \/ c \in S /\ box'[c].state = "exited"
    BY <2>1 DEF Stopped
  <2>5. BoxesStopped
    BY <2>1, <2>2, <2>3, <2>4 DEF BoxesStopped, Is
  <2>6. BoxesRemoved
    BY <2>4 DEF BoxesRemoved, Stands
  <2>7. QED
    BY <2>1, <2>5, <2>6 DEF TagsRemoved, VolumesRemoved
<1>7. QED
  BY <1>2, <1>3, <1>4, <1>5, <1>6, Acts

LEMMA HeadroomIsThere ==
  ASSUME DockerInvariant
  PROVE  AdmittedWithHeadroom
<1>1. ASSUME stage = "evaluate", Headroom(plan.memory, Cardinality(plan.boxes)),
             changed \cap BoxItems = {}
      PROVE  MemoryOf(RunningBoxes) + Demand.memory + EngineReserve <= EngineMemory
  <2>1. /\ plan.boxes = RunningBoxes /\ plan.memory \in Int
        /\ plan.memory + MemoryOf(plan.boxes) <= EngineMemory
    BY <1>1 DEF DockerInvariant, Measured
  <2>2. MemoryOf(plan.boxes) \in Nat
    BY <2>1, MemoryIsNat DEF RunningBoxes
  <2>3. plan.memory - Demand.memory >= EngineReserve
    BY <1>1 DEF Headroom
  <2>4. Demand.memory \in Nat /\ EngineReserve \in Nat /\ EngineMemory \in Nat
    BY CapacityAssumption
  <2>5. QED
    BY <2>1, <2>2, <2>3, <2>4
<1>2. ASSUME stage = "admitted", Quota # Nothing, changed \cap (VolumeItems \cup BoxItems) = {}
      PROVE  BytesOf(OfProject(SeenVolumes)) <= Quota
  <2>1. plan.available /\ BytesOf(OfProject(plan.volumes)) <= Quota
    BY <1>2 DEF DockerInvariant, Listed, Listing
  <2>2. plan.volumes = SeenVolumes
    BY <1>2, <2>1 DEF DockerInvariant, Listed, Listing
  <2>3. QED
    BY <2>1, <2>2
<1>3. QED
  BY <1>1, <1>2 DEF AdmittedWithHeadroom

\* retireContainerSteps, applyRehearsalCleanup, stopReviewedStaleTarget,
\* evaluateWorkloadCapacity: nothing but what its user has reviewed is removed
\* or stopped, and nothing is started on a measurement that no longer holds,
\* unless another tool has changed it after the last look.
THEOREM ActsAreReviewed == DockerSpec => ActsAsReviewed
<1>1. DockerInvariant /\ [DockerNext]_dockerVars =>
        [/\ BoxesRemoved /\ TagsRemoved /\ VolumesRemoved]_dockerVars
  BY StepActsAsReviewed
<1>2. DockerInvariant /\ [DockerNext]_dockerVars => [BoxesStopped]_dockerVars
  BY StepActsAsReviewed
<1>3. DockerInvariant' => AdmittedWithHeadroom'
  BY HeadroomIsThere, PTL
<1>4. DockerSpec => RemovedAsReviewed
  BY <1>1, DockerInvariantHolds, PTL
  DEF DockerSpec, RemovedAsReviewed, BoxesRemoved, TagsRemoved, VolumesRemoved
<1>5. DockerSpec => StoppedAsReviewed
  BY <1>2, DockerInvariantHolds, PTL DEF DockerSpec, StoppedAsReviewed, BoxesStopped
<1>6. DockerSpec => [][AdmittedWithHeadroom']_dockerVars
  BY <1>3, DockerInvariantHolds, PTL DEF DockerSpec
<1>7. QED
  BY <1>4, <1>5, <1>6 DEF ActsAsReviewed

-----------------------------------------------------------------------------
(* Reports.                                                                *)

\* What RemovalReportIsTrue says of one step.
Reported ==
  \A r \in outcomes' \ outcomes :
    r.status \in {"removed", "failed"} /\ r.removed # Nothing =>
      \/ r.removed = (box'[r.box].state = "gone")
      \/ Item("box", r.box) \in changed

LEMMA StepReportsTheTruth ==
  ASSUME DockerInvariant, [DockerNext]_dockerVars
  PROVE  Reported
<1>1. CASE outcomes' \subseteq outcomes
  BY <1>1 DEF Reported
\* A container that was not tried.
<1>2. CASE InspectClaim \/ InspectVolumes
  <2>1. \A r \in outcomes' \ outcomes : r.status = "refused"
    BY <1>2 DEF InspectClaim, InspectVolumes, Abandon, Report
  <2>2. QED
    BY <2>1 DEF Reported
<1>3. CASE ConfirmVolumes \/ Recheck \/ RecheckVolumes
  <2>1. /\ stage \in {"preserved", "recheck", "recheck-volumes"} /\ UNCHANGED box
        /\ \A r \in outcomes' \ outcomes :
             \/ r.status = "refused"
             \/ r.box = current /\ r.removed = answer
             \/ r.box = current /\ r.removed = TRUE /\ stage = "preserved"
    BY <1>3 DEF ConfirmVolumes, Recheck, RecheckVolumes, Abandon, Report, world
  <2>2. /\ answer \in {Nothing, Gone(current)} \/ Item("box", current) \in changed
        /\ stage = "preserved" => answer = TRUE
    BY <2>1 DEF DockerInvariant, AtHand
  <2>3. QED
    BY <2>1, <2>2, RemovalAssumption DEF Reported, Gone, Is
<1>4. CASE OthersStep \/ UNCHANGED dockerVars
  <2>1. outcomes' = outcomes
    BY <1>4 DEF OthersStep, Create, StartOrExit, Restart, Discard, ChangeVolume, Retag, Pass,
                Event, command, dockerVars
  <2>2. QED
    BY <1>1, <2>1
<1>5. CASE InventoryStep \/ AdmissionStep
  <2>1. outcomes' \subseteq outcomes
    BY <1>5 DEF InventoryStep, AdmissionStep, Inspect, SeeContainers, SeeVolumes,
       MeasureVolumes, SeeImages, Close, MeasureHost, ListStanding, SampleStanding,
       MeasureGuest, ListStandingAgain, EvaluateCapacity, EvaluateQuota, Admitted
  <2>2. QED
    BY <1>1, <2>1
<1>6. CASE RemovalStep
  <2>1. \/ outcomes' \subseteq outcomes
        \/ InspectClaim \/ InspectVolumes
        \/ ConfirmVolumes \/ Recheck \/ RecheckVolumes
    BY <1>6 DEF RemovalStep, Preview, Apply, Advance, Fail, RemoveContainer, ConfirmRemoval,
       RemoveRuntime, LookForUse, InspectTag, RemoveTag, Refresh, Bind, StopContainers,
       ProveStopped
  <2>2. QED
    BY <1>1, <1>2, <1>3, <2>1
<1>7. QED
  BY <1>4, <1>5, <1>6 DEF DockerNext

\* What the user of an inventory is shown.
LEMMA InventoryIsShown ==
  ASSUME DockerInvariant
  PROVE  InventoryIsTrue
<1> SUFFICES ASSUME stage = "shown", plan.available PROVE InventoryIsTrue
  BY DEF InventoryIsTrue
<1> DEFINE cs == plan.boxes
           vs == plan.volumes
<1>1. /\ \A c \in Boxes : SeenSince(c)
      /\ plan.named = Named \/ changed \cap TagItems # {}
  BY DEF DockerInvariant, Listed, Listing
<1>2. ASSUME NEW e \in StoppedEntries(ShownEntries)
      PROVE  /\ e \notin Sheltered
             /\ \A c \in Claimants(e) : Is(c, "running") => Item("box", c) \in changed
  <2>1. /\ e \in Environments /\ ShownEntries[e].eligibility = "preview-required"
        /\ ShownEntries[e].eligibility = CleanupEligibility(e, EnvironmentState(e, cs, vs))
    BY DEF StoppedEntries, ShownEntries, Entries, Entry
  <2>2. /\ e \notin Sheltered
        /\ EnvironmentState(e, cs, vs) \notin {"unavailable", "absent", "running", "mixed"}
    <3>1. EnvironmentState(e, cs, vs) \in {"unavailable", "absent", "stopped", "running", "mixed"}
      BY DEF EnvironmentState
    <3>2. QED
      BY <2>1, <3>1 DEF CleanupEligibility
  <2>3. ~HasConflict(e, cs, vs) /\ RunningOf(OwnBoxes(e, cs, vs), cs) = {}
    BY <2>2 DEF EnvironmentState, OwnBoxes, OwnVolumes, RunningOf
  <2>4. ASSUME NEW c \in Claimants(e), Is(c, "running") PROVE Item("box", c) \in changed
    <3>1. c \in Boxes /\ Bears(BoxLabels[c], e) /\ Stands(c)
      BY <2>4 DEF Claimants, Is, Stands
    <3>2. CASE c \in DOMAIN cs /\ cs[c] = box[c]
      BY <2>3, <2>4, <3>1, <3>2 DEF OwnBoxes, RunningOf, Is
    <3>3. CASE ~(c \in DOMAIN cs /\ cs[c] = box[c])
      BY <1>1, <3>1, <3>3 DEF SeenSince, Touched
    <3>4. QED
      BY <3>2, <3>3
  <2>5. QED
    BY <2>2, <2>4
<1>3. ASSUME NEW e \in Environments, NEW f \in Environments, e # f
      PROVE  /\ OwnBoxes(e, cs, vs) \cap OwnBoxes(f, cs, vs) = {}
             /\ OwnVolumes(e, cs, vs) \cap OwnVolumes(f, cs, vs) = {}
  <2>1. ASSUME NEW labels, Bears(labels, e), Bears(labels, f)
        PROVE  OwnershipConflicts(labels, e)
    <3>1. labels[Provider[f]] \notin {Nothing, e} /\ Provider[f] \in OwnershipLabels
      BY <1>3, <2>1, InventoryAssumption DEF Bears
    <3>2. QED
      BY <2>1, <3>1 DEF OwnershipConflicts
  <2>2. QED
    BY <2>1 DEF OwnBoxes, OwnVolumes, HasConflict, BoxConflict
<1>4. ASSUME NEW i \in plan.named, ShownCatalog.images[i] = "candidate"
      PROVE  /\ InUse(i) => Item("use", i) \in changed
             /\ Superseded(i, Named) \/ changed \cap TagItems # {}
  <2>1. ImageState(i, cs, plan.named) = "candidate"
    BY <1>4 DEF ShownCatalog, Catalog
  <2>2. UsedBy(cs, i) = {} /\ Superseded(i, plan.named)
    BY <2>1 DEF ImageState, OlderUnusedOf
  <2>3. ASSUME InUse(i) PROVE Item("use", i) \in changed
    <3>1. PICK c \in Boxes : Stands(c) /\ ImageOf[c] = i
      BY <2>3 DEF InUse, UsedBy, Seen
    <3>2. c \notin DOMAIN cs
      BY <2>2, <3>1 DEF UsedBy
    <3>3. QED
      BY <1>1, <3>1, <3>2 DEF SeenSince, Touched
  <2>4. QED
    BY <1>1, <2>2, <2>3
<1>5. ASSUME NEW c \in OtherContainers(cs), NEW e \in Environments, c \in OwnBoxes(e, cs, vs)
      PROVE  FALSE
  <2>1. /\ Ownership(BoxLabels[c]) # "project" /\ Bears(BoxLabels[c], e)
        /\ ~OwnershipConflicts(BoxLabels[c], e)
    BY <1>5 DEF OtherContainers, OwnBoxes, HasConflict, BoxConflict
  <2>2. \A l \in OwnershipLabels : BoxLabels[c][l] \in {Nothing, e}
    BY <2>1 DEF OwnershipConflicts
  <2>3. \A f \in Environments : Bears(BoxLabels[c], f) => f = e
    <3>1. TAKE f \in Environments
    <3>2. Provider[f] \in OwnershipLabels /\ f # Nothing
      BY InventoryAssumption
    <3>3. QED
      BY <2>2, <3>2 DEF Bears
  <2>4. Owners(BoxLabels[c]) = {e}
    BY <2>1, <2>3 DEF Owners
  <2>5. Ownership(BoxLabels[c]) = "project"
    BY <2>2, <2>4 DEF Ownership
  <2>6. QED
    BY <2>1, <2>5
<1>6. QED
  BY <1>2, <1>3, <1>4, <1>5 DEF InventoryIsTrue

\* retireContainerSteps, inspectRehearsalResources and buildResourceCatalog: what
\* is reported, of a removal and of the resources, is so, unless another tool has
\* changed it after the last look.
THEOREM ReportsAreSo == DockerSpec => ReportsAreTrue
<1>1. DockerInvariant /\ [DockerNext]_dockerVars => [Reported]_dockerVars
  BY StepReportsTheTruth
<1>2. DockerInvariant' => InventoryIsTrue'
  BY InventoryIsShown, PTL
<1>3. DockerSpec => RemovalReportIsTrue
  BY <1>1, DockerInvariantHolds, PTL DEF DockerSpec, RemovalReportIsTrue, Reported
<1>4. DockerSpec => [][InventoryIsTrue']_dockerVars
  BY <1>2, DockerInvariantHolds, PTL DEF DockerSpec
<1>5. QED
  BY <1>3, <1>4 DEF ReportsAreTrue

=============================================================================
