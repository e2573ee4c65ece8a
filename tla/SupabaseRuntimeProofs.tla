------------------------ MODULE SupabaseRuntimeProofs ------------------------
(***************************************************************************)
(* What SupabaseRuntime promises, for any baselines, migrations and         *)
(* directories, and however often it is interfered with.                   *)
(*                                                                         *)
(* The first part is about histories: a directory lists as exactly one     *)
(* history, and what is applied next continues it.  The invariant then      *)
(* follows a command from step to step: a runtime is either being made      *)
(* (Rebuilding), with no marker anybody would take for valid, or was found  *)
(* with a valid marker (Opened).  For each step there is a lemma that it    *)
(* keeps the invariant.                                                    *)
(***************************************************************************)
EXTENDS SupabaseRuntime, FiniteSetTheorems, TLAPS

ST == INSTANCE SequenceTheorems

-----------------------------------------------------------------------------
(* Directories and the histories they are listed as.                       *)

\* A directory whose files can be listed.
Listable(directory) ==
    /\ IsFiniteSet(directory) /\ IsDirectory(directory)
    /\ \A f \in directory : Name(f) \in Nat

\* How many files come before one of them tells it from the others.
LEMMA RanksAscend ==
  ASSUME NEW S, Listable(S), NEW f \in S, NEW g \in S
  PROVE  /\ Cardinality(Before(S, f)) \in 0 .. Cardinality(S) - 1
         /\ Name(f) < Name(g) => Cardinality(Before(S, f)) < Cardinality(Before(S, g))
<1>1. Before(S, f) \subseteq S \ {f} /\ Before(S, g) \subseteq S
  BY DEF Before, Listable
<1>2. IsFiniteSet(S \ {f}) /\ Cardinality(S \ {f}) = Cardinality(S) - 1 /\ Cardinality(S) \in Nat
  BY FS_RemoveElement, FS_CardinalityType DEF Listable
<1>3. /\ IsFiniteSet(Before(S, f)) /\ Cardinality(Before(S, f)) <= Cardinality(S) - 1
      /\ Cardinality(Before(S, f)) \in Nat
  BY <1>1, <1>2, FS_Subset, FS_CardinalityType
<1>4. IsFiniteSet(Before(S, g)) /\ Cardinality(Before(S, g)) \in Nat
  BY <1>1, FS_Subset, FS_CardinalityType DEF Listable
<1>5. ASSUME Name(f) < Name(g)
      PROVE  Cardinality(Before(S, f)) < Cardinality(Before(S, g))
  <2>1. Before(S, f) \cup {f} \subseteq Before(S, g) /\ f \notin Before(S, f)
    BY <1>5 DEF Before, Listable
  <2>2. Cardinality(Before(S, f) \cup {f}) = Cardinality(Before(S, f)) + 1
    BY <1>3, <2>1, FS_AddElement
  <2>3. Cardinality(Before(S, f) \cup {f}) <= Cardinality(Before(S, g))
    BY <1>4, <2>1, FS_Subset
  <2> QED BY <1>3, <1>4, <2>2, <2>3
<1> QED BY <1>2, <1>3, <1>5

LEMMA RanksDiffer ==
  ASSUME NEW S, Listable(S), NEW f \in S, NEW g \in S,
         Cardinality(Before(S, f)) = Cardinality(Before(S, g))
  PROVE  f = g
<1>1. /\ Name(f) < Name(g) => Cardinality(Before(S, f)) < Cardinality(Before(S, g))
      /\ Name(g) < Name(f) => Cardinality(Before(S, g)) < Cardinality(Before(S, f))
  BY RanksAscend
<1>2. Cardinality(Before(S, f)) \in Int
  BY RanksAscend
<1>3. Name(f) = Name(g)
  BY <1>1, <1>2 DEF Listable
<1> QED BY <1>3 DEF Listable, IsDirectory

\* Every rank below the number of files is somebody's.
LEMMA RanksAreTaken ==
  ASSUME NEW S, Listable(S), NEW i \in 1 .. Cardinality(S)
  PROVE  \E f \in S : Cardinality(Before(S, f)) = i - 1
<1> DEFINE n == Cardinality(S)
           rank == [f \in S |-> Cardinality(Before(S, f))]
<1>1. IsFiniteSet(S) /\ n \in Nat
  BY FS_CardinalityType DEF Listable
<1>2. IsFiniteSet(0 .. n - 1) /\ Cardinality(0 .. n - 1) = n
  <2>1. 0 \in Int /\ n - 1 \in Int /\ (0 > n - 1 => n = 0)
    BY <1>1
  <2>2. /\ IsFiniteSet(0 .. n - 1)
        /\ Cardinality(0 .. n - 1) = IF 0 > n - 1 THEN 0 ELSE (n - 1) - 0 + 1
    BY <2>1, FS_Interval
  <2> QED BY <1>1, <2>1, <2>2
<1>3. rank \in Injection(S, 0 .. n - 1)
  BY RanksAscend, RanksDiffer DEF Injection, IsInjective
<1>4. rank \in Surjection(S, 0 .. n - 1)
  BY <1>1, <1>2, <1>3, FS_Injection
<1>5. i - 1 \in 0 .. n - 1
  BY <1>1
<1>6. PICK f \in S : rank[f] = i - 1
  BY <1>4, <1>5 DEF Surjection
<1> QED BY <1>6

\* A listing names each file once, in ascending order.
LEMMA ListingIsHistory ==
  ASSUME NEW S, Listable(S)
  PROVE  /\ Inventory(S) \in Seq(S) /\ Len(Inventory(S)) = Cardinality(S)
         /\ DOMAIN Inventory(S) = 1 .. Cardinality(S) /\ Cardinality(S) \in Nat
         /\ IsHistory(Inventory(S)) /\ ToSet(Inventory(S)) = S
<1> DEFINE n == Cardinality(S)
           h == Inventory(S)
<1>1. n \in Nat
  BY FS_CardinalityType DEF Listable
<1>2. ASSUME NEW i \in 1 .. n
      PROVE  h[i] \in S /\ Cardinality(Before(S, h[i])) = i - 1
  <2>1. \E f \in S : Cardinality(Before(S, f)) = i - 1
    BY RanksAreTaken
  <2>2. h[i] = CHOOSE f \in S : Cardinality(Before(S, f)) = i - 1
    BY DEF Inventory
  <2> QED BY <2>1, <2>2
<1>3. h \in [1 .. n -> S] /\ DOMAIN h = 1 .. n
  BY <1>2 DEF Inventory
<1>4. h \in Seq(S) /\ Len(h) = n
  BY <1>1, <1>3, Z3
<1>5. ASSUME NEW f \in S PROVE \E i \in 1 .. n : h[i] = f
  <2>1. Cardinality(Before(S, f)) + 1 \in 1 .. n
    BY <1>1, RanksAscend
  <2>2. PICK i \in 1 .. n : Cardinality(Before(S, f)) = i - 1
    BY <2>1, RanksAscend
  <2> QED BY <1>2, <2>2, RanksDiffer
<1>6. ToSet(h) = S
  BY <1>2, <1>3, <1>5 DEF ToSet
<1>7. ASSUME NEW i \in 1 .. n, NEW j \in 1 .. n, i < j
      PROVE  Name(h[i]) < Name(h[j])
  <2>1. /\ Name(h[j]) < Name(h[i]) =>
             Cardinality(Before(S, h[j])) < Cardinality(Before(S, h[i]))
        /\ Name(h[i]) \in Nat /\ Name(h[j]) \in Nat
    BY <1>2, RanksAscend DEF Listable
  <2>2. Name(h[i]) # Name(h[j])
    BY <1>2, <1>7 DEF Listable, IsDirectory
  <2> QED BY <1>2, <1>7, <2>1, <2>2
<1>8. IsHistory(h)
  BY <1>2, <1>3, <1>4, <1>6, <1>7 DEF IsHistory, Listable
<1> QED BY <1>1, <1>3, <1>4, <1>6, <1>8

LEMMA CountUpTo ==
  ASSUME NEW n \in Nat
  PROVE  IsFiniteSet(1 .. n) /\ Cardinality(1 .. n) = n
<1>1. 1 \in Int /\ n \in Int
  OBVIOUS
<1>2. IsFiniteSet(1 .. n) /\ Cardinality(1 .. n) = IF 1 > n THEN 0 ELSE n - 1 + 1
  BY <1>1, FS_Interval
<1> QED BY <1>2

\* The indices of a history.
LEMMA HistoryShape ==
  ASSUME NEW h, IsHistory(h)
  PROVE  /\ Len(h) \in Nat /\ DOMAIN h = 1 .. Len(h)
         /\ h \in Seq(ToSet(h))
         /\ \A i \in 1 .. Len(h) : h[i] \in ToSet(h) /\ Name(h[i]) \in Nat
         /\ \A i, j \in 1 .. Len(h) : i < j => Name(h[i]) < Name(h[j])
         /\ \A i, j \in 1 .. Len(h) : Name(h[i]) = Name(h[j]) => i = j
<1>1. h \in Seq(ToSet(h)) /\ Len(h) \in Nat /\ DOMAIN h = 1 .. Len(h)
  BY DEF IsHistory
<1>2. /\ \A i \in 1 .. Len(h) : h[i] \in ToSet(h) /\ Name(h[i]) \in Nat
      /\ \A i, j \in 1 .. Len(h) : i < j => Name(h[i]) < Name(h[j])
  BY <1>1 DEF IsHistory, ToSet
<1>3. ASSUME NEW i \in 1 .. Len(h), NEW j \in 1 .. Len(h), Name(h[i]) = Name(h[j])
      PROVE  i = j
  BY <1>1, <1>2, <1>3
<1> QED BY <1>1, <1>2, <1>3

\* The files a history names list as that history.
LEMMA HistoryLists ==
  ASSUME NEW h, IsHistory(h)
  PROVE  /\ Listable(ToSet(h)) /\ Inventory(ToSet(h)) = h
         /\ Cardinality(ToSet(h)) = Len(h)
<1> DEFINE S == ToSet(h)
           n == Len(h)
<1>1. /\ n \in Nat /\ DOMAIN h = 1 .. n /\ h \in Seq(S)
      /\ \A i \in 1 .. n : h[i] \in S /\ Name(h[i]) \in Nat
      /\ \A i, j \in 1 .. n : i < j => Name(h[i]) < Name(h[j])
      /\ \A i, j \in 1 .. n : Name(h[i]) = Name(h[j]) => i = j
  BY HistoryShape
<1>2. \A f \in S : \E i \in 1 .. n : f = h[i]
  BY <1>1 DEF ToSet
<1>3. h \in Bijection(1 .. n, S)
  <2>1. h \in [1 .. n -> S]
    BY <1>1
  <2>2. \A i, j \in 1 .. n : h[i] = h[j] => i = j
    BY <1>1
  <2> QED BY <1>2, <2>1, <2>2 DEF Bijection, Injection, Surjection, IsInjective
<1>4. IsFiniteSet(1 .. n) /\ Cardinality(1 .. n) = n
  BY <1>1, CountUpTo
<1>5. IsFiniteSet(S) /\ Cardinality(S) = n
  BY <1>3, <1>4, FS_Bijection DEF ExistsBijection
<1>6. Listable(S)
  BY <1>1, <1>2, <1>5 DEF Listable, IsDirectory
<1>7. ASSUME NEW i \in 1 .. n PROVE Cardinality(Before(S, h[i])) = i - 1
  <2> DEFINE lower == [j \in 1 .. i - 1 |-> h[j]]
  <2>1. Before(S, h[i]) = {h[j] : j \in 1 .. i - 1}
    <3>1. \A j \in 1 .. i - 1 : h[j] \in Before(S, h[i])
      BY <1>1 DEF Before
    <3>2. ASSUME NEW f \in Before(S, h[i]) PROVE \E j \in 1 .. i - 1 : f = h[j]
      <4>1. f \in S /\ Name(f) < Name(h[i])
        BY DEF Before
      <4>2. PICK j \in 1 .. n : f = h[j]
        BY <1>2, <4>1
      <4>3. j < i
        BY <1>1, <4>1, <4>2
      <4> QED BY <1>1, <4>2, <4>3
    <3> QED BY <3>1, <3>2
  <2>2. lower \in Bijection(1 .. i - 1, Before(S, h[i]))
    <3>1. lower \in [1 .. i - 1 -> Before(S, h[i])]
      BY <2>1
    <3>2. \A j, k \in 1 .. i - 1 : lower[j] = lower[k] => j = k
      BY <1>1
    <3>3. \A f \in Before(S, h[i]) : \E j \in 1 .. i - 1 : lower[j] = f
      BY <2>1
    <3> QED BY <3>1, <3>2, <3>3 DEF Bijection, Injection, Surjection, IsInjective
  <2>3. IsFiniteSet(1 .. i - 1) /\ Cardinality(1 .. i - 1) = i - 1
    BY <1>1, CountUpTo
  <2> QED BY <2>2, <2>3, FS_Bijection DEF ExistsBijection
<1>8. ASSUME NEW i \in 1 .. n PROVE Inventory(S)[i] = h[i]
  <2>1. Inventory(S)[i] = CHOOSE f \in S : Cardinality(Before(S, f)) = i - 1
    BY <1>5 DEF Inventory
  <2>2. h[i] \in S /\ Cardinality(Before(S, h[i])) = i - 1
    BY <1>1, <1>7
  <2>3. \A f \in S : Cardinality(Before(S, f)) = i - 1 => f = h[i]
    BY <1>6, <2>2, RanksDiffer
  <2> QED BY <2>1, <2>2, <2>3
<1>9. Inventory(S) = h
  <2>1. Inventory(S) \in Seq(S) /\ Len(Inventory(S)) = n
    BY <1>5, <1>6, ListingIsHistory
  <2> QED BY <1>1, <1>8, <2>1, ST!SeqEqual
<1> QED BY <1>5, <1>6, <1>9

-----------------------------------------------------------------------------
(* The invariant.                                                          *)

Plans == Seq(Texts) \cup {None}

Removing == {"remove", "cliRemove", "rmContainers", "rmVolumes", "rmWork"}
Preparing == {"config", "copyHistory", "preliminary"}
Starting == {"cliStart", "noRestart", "up", "status"}
Restoring == {"schema", "compareSchema", "rows", "assets", "localRows"}
Finishing == {"configure", "export"}
Marking == {"truncate", "mark"}
Comparing == {"read", "confirm", "copy", "upCandidates", "compare", "prove", "receipt"}
Steps == Removing \cup Preparing \cup Starting \cup Restoring \cup Finishing \cup Marking
           \cup Comparing \cup {"match", "stop", "idle"}
Phases == {"reset", "start", "verify", "migrate", "stop", "discard"}

Tasks == [name : Commands \cup {None}, pc : Steps, phase : Phases \cup {None},
          owned : BOOLEAN, undo : BOOLEAN, gen : Generations \cup {None},
          plan : Plans, copied : Nat, reviewed : Plans]
Receipts == {None} \cup [gen : Generations, plan : Plans]
Workdirs == [config : BOOLEAN, migrations : SUBSET Texts, marker : Markers, receipt : Receipts]

TypeInv ==
  /\ active \in Generations /\ files \in Directories
  /\ work \in Workdirs /\ Listable(work.migrations)
  /\ exported \in BOOLEAN /\ box \in {"none", "exited", "running"}
  /\ vol \in Volumes \cup {None}
  /\ cmd \in Tasks
  /\ outcome \in {None, "ok", "failed", "unrecovered", "killed"}
  /\ raced \in BOOLEAN /\ trouble \in 0 .. MaxTrouble

\* The command makes the runtime anew, or works with one whose marker it found
\* valid.
Rebuilding ==
  \/ cmd.pc \in Preparing \cup Restoring \cup Marking
  \/ cmd.owned /\ cmd.pc \in Starting \cup Finishing
Opened ==
  \/ cmd.pc \in Comparing
  \/ ~cmd.owned /\ cmd.pc \in Starting \cup Finishing

\* Which step belongs to which command and phase.
Control ==
  /\ cmd.pc = "idle" => cmd = Idle
  /\ cmd.pc # "idle" =>
       /\ cmd.name \in Commands /\ cmd.phase \in Phases /\ cmd.gen = active
       /\ IF cmd.name = "run" THEN cmd.phase \in {"reset", "migrate", "verify"}
          ELSE cmd.phase = cmd.name
  /\ cmd.undo => cmd.pc \in Removing
  /\ cmd.pc \in Removing /\ ~cmd.undo => ~cmd.owned
  /\ cmd.pc \in Preparing \cup Restoring \cup Marking \cup {"copy", "upCandidates"} => cmd.owned
  /\ cmd.pc \in {"match", "read", "confirm", "prove", "stop"} => ~cmd.owned
  /\ cmd.phase = "stop" <=> cmd.pc = "stop"
  /\ cmd.phase = "discard" => cmd.pc \in Removing
  /\ cmd.phase = "reset" => cmd.pc \in Removing \/ Rebuilding
  /\ cmd.pc \in {"confirm", "copy", "upCandidates", "receipt"} => cmd.phase = "migrate"
  /\ cmd.pc = "prove" => cmd.phase = "verify"
  /\ cmd.pc = "compare" /\ cmd.phase = "verify" => ~cmd.owned
  /\ cmd.pc \in {"read", "compare"} => cmd.phase \in {"verify", "migrate"}

\* What a removal and the preparation after it have left.
Emptied ==
  /\ cmd.pc \in Preparing \cup {"rmWork"} \/ (cmd.owned /\ cmd.pc = "cliStart") =>
       vol = None /\ box = "none"
  /\ cmd.pc = "rmVolumes" => box = "none"
  /\ cmd.pc \in {"config", "copyHistory"} => work.migrations = {}

Final == work.marker # None /\ work.marker.schema

\* What a valid marker stands for.
Trusted ==
  Final /\ vol # None =>
    vol.gen = work.marker.gen /\ (vol.stage = Whole \/ vol.hollow)

\* Nobody takes a runtime that is being made for a restored one.
Vouched ==
  /\ Rebuilding => ~Final
  /\ Opened => Matches(work.marker, cmd.gen)

\* The database the command has brought up.
Present ==
  /\ (Rebuilding \/ Opened) /\ cmd.pc \notin Preparing \cup {"cliStart"} => vol # None
  /\ Rebuilding /\ vol # None => vol.gen = cmd.gen
  /\ Rebuilding /\ cmd.pc \in Finishing \cup Marking => vol.stage = Whole

\* Candidates of a plan continue the history of the baseline.
Fits(g, plan) == plan \in Seq(Texts) /\ IsHistory(Represented[g] \o plan)

\* The ledger is a beginning of a history.
Begins(ledger, whole) ==
  Len(ledger) <= Len(whole) /\ \A i \in 1 .. Len(ledger) : ledger[i] = whole[i]

\* A runtime that is being made has the migrations of its baseline.
Baselined ==
  /\ Rebuilding /\ cmd.pc \notin {"config", "copyHistory"} =>
       work.migrations = ToSet(Represented[cmd.gen])
  /\ Rebuilding /\ vol # None => Begins(vol.ledger, Represented[cmd.gen])
  /\ Rebuilding /\ cmd.pc \in {"status"} \cup Restoring \cup Finishing \cup Marking =>
       vol.ledger = Represented[cmd.gen]

Copied == {cmd.plan[i] : i \in 1 .. cmd.copied}

\* The plan that is being taken over was confirmed.
Planned ==
  /\ cmd.pc \in {"confirm", "copy", "upCandidates", "compare", "receipt"} =>
       Fits(cmd.gen, cmd.plan)
  /\ cmd.pc \notin {"copy", "upCandidates", "compare", "prove", "receipt"} /\ ~cmd.undo =>
       cmd.copied = 0
  /\ cmd.pc = "confirm" => cmd.plan # <<>>
  /\ cmd.pc = "copy" =>
       ToSet(cmd.plan) \subseteq approved /\ cmd.copied < Len(cmd.plan)

\* What was not confirmed is in neither the database nor a workdir that would
\* be taken for valid.
Confined ==
  ~raced =>
    /\ vol # None => ToSet(vol.ledger) \subseteq ToSet(Represented[vol.gen]) \cup approved
    /\ Final => work.migrations \subseteq ToSet(Represented[work.marker.gen]) \cup approved

\* A rehearsal past its reset.
Continuing == cmd.name = "run" /\ cmd.phase \in {"migrate", "verify"} /\ ~cmd.undo

\* Workdir and database hold one history.
Hold(whole) == work.migrations = ToSet(whole) /\ vol.ledger = whole

Reviewed(plan) == plan = cmd.reviewed \/ plan = <<>>

\* While it migrates: until the plan is taken over, the two hold the history of
\* the baseline; then the workdir takes it over, and then the database.
Early == {"match", "read", "confirm"} \cup Starting \cup Finishing
Migrating ==
  /\ cmd.pc \in Early => Hold(Represented[cmd.gen])
  /\ cmd.pc = "copy" =>
       /\ work.migrations = ToSet(Represented[cmd.gen]) \cup Copied
       /\ vol.ledger = Represented[cmd.gen]
  /\ cmd.pc \in {"copy", "upCandidates", "compare", "receipt"} => Reviewed(cmd.plan)
  /\ cmd.pc = "upCandidates" =>
       /\ work.migrations = ToSet(Represented[cmd.gen] \o cmd.plan)
       /\ Begins(vol.ledger, Represented[cmd.gen] \o cmd.plan)
  /\ cmd.pc \in {"compare", "receipt"} => Hold(Represented[cmd.gen] \o cmd.plan)

\* While it verifies, they hold what the receipt names.
Verifying ==
  /\ Fits(cmd.gen, work.receipt.plan) /\ Reviewed(work.receipt.plan)
  /\ Hold(Represented[cmd.gen] \o work.receipt.plan)

Rehearsing ==
  Continuing =>
    /\ cmd.pc = "match" \/ Opened
    /\ vol # None /\ Matches(work.marker, cmd.gen)
    /\ ~raced /\ cmd.phase = "migrate" => Migrating
    /\ ~raced /\ cmd.phase = "verify" => Verifying

Inv == /\ TypeInv /\ Control /\ Emptied /\ Trusted /\ Vouched /\ Present
       /\ Baselined /\ Planned /\ Confined /\ Rehearsing

-----------------------------------------------------------------------------
(* Histories that continue one another.                                    *)

\* What is left of a history is its own next entry.
LEMMA NextOfHistory ==
  ASSUME NEW h, IsHistory(h), NEW T, NEW l \in Seq(T), Begins(l, h)
  PROVE  /\ Pending(ToSet(h), l) = <<>> => l = h
         /\ Pending(ToSet(h), l) # <<>> => Begins(Append(l, Head(Pending(ToSet(h), l))), h)
<1> DEFINE n == Len(h)
           m == Len(l)
           S == ToSet(h) \cup T
           rest == SubSeq(h, m + 1, n)
<1>1. /\ n \in Nat /\ DOMAIN h = 1 .. n /\ h \in Seq(ToSet(h))
      /\ \A i \in 1 .. n : h[i] \in ToSet(h)
  BY HistoryShape
<1>2. m \in Nat /\ l \in Seq(S) /\ h \in Seq(S) /\ m <= n
  BY <1>1, ST!SeqMonotonic DEF Begins
<1>3. Pending(ToSet(h), l) = rest
  BY HistoryLists DEF Pending
<1>4. /\ Len(rest) = IF m + 1 <= n THEN n - m ELSE 0
      /\ rest \in Seq(S)
      /\ \A i \in 1 .. n - m : rest[i] = h[m + i]
  <2>1. m + 1 \in Int /\ n \in Int /\ \A i \in m + 1 .. n : h[i] \in S
    BY <1>1, <1>2
  <2>2. /\ SubSeq(h, m + 1, n) \in Seq(S)
        /\ Len(SubSeq(h, m + 1, n)) = IF m + 1 <= n THEN n - (m + 1) + 1 ELSE 0
        /\ \A i \in 1 .. n - (m + 1) + 1 : SubSeq(h, m + 1, n)[i] = h[(m + 1) + i - 1]
    BY <2>1, ST!SubSeqProperties
  <2>3. n - (m + 1) + 1 = n - m /\ \A i \in 1 .. n - m : (m + 1) + i - 1 = m + i
    BY <1>1, <1>2
  <2> QED BY <2>2, <2>3
<1>5. CASE rest = <<>>
  <2>1. m = n
    <3>1. Len(rest) = 0
      BY <1>5, ST!EmptySeq
    <3> QED BY <1>1, <1>2, <1>4, <3>1
  <2>2. \A i \in 1 .. Len(l) : l[i] = h[i]
    BY DEF Begins
  <2>3. l = h
    BY <1>2, <2>1, <2>2, ST!SeqEqual
  <2> QED BY <1>3, <1>5, <2>3
<1>6. CASE rest # <<>>
  <2>1. m < n /\ rest[1] = h[m + 1]
    <3>1. Len(rest) # 0
      BY <1>4, <1>6, ST!EmptySeq
    <3> QED BY <1>1, <1>2, <1>4, <3>1
  <2>2. Head(rest) = h[m + 1] /\ h[m + 1] \in S
    BY <1>1, <1>2, <2>1
  <2>3. /\ Len(Append(l, h[m + 1])) = m + 1
        /\ \A i \in 1 .. m : Append(l, h[m + 1])[i] = l[i]
        /\ Append(l, h[m + 1])[m + 1] = h[m + 1]
    BY <1>2, <2>2, ST!AppendProperties
  <2>4. \A i \in 1 .. m + 1 : Append(l, h[m + 1])[i] = h[i]
    BY <1>2, <2>3 DEF Begins
  <2>5. Begins(Append(l, h[m + 1]), h)
    BY <1>1, <1>2, <2>1, <2>3, <2>4 DEF Begins
  <2> QED BY <1>3, <1>6, <2>2, <2>5
<1> QED BY <1>5, <1>6

\* Of a history that is there, nothing is left.
LEMMA NothingLeft ==
  ASSUME NEW h, IsHistory(h)
  PROVE  Pending(ToSet(h), h) = <<>> /\ Begins(h, h)
<1>1. Len(h) \in Nat /\ h \in Seq(ToSet(h))
  BY HistoryShape
<1>2. Begins(h, h)
  BY <1>1 DEF Begins
<1>3. ASSUME Pending(ToSet(h), h) # <<>> PROVE FALSE
  <2>1. Begins(Append(h, Head(Pending(ToSet(h), h))), h)
    BY <1>1, <1>2, <1>3, NextOfHistory
  <2>2. Len(Append(h, Head(Pending(ToSet(h), h)))) = Len(h) + 1
    BY <1>1
  <2> QED BY <1>1, <2>1, <2>2 DEF Begins
<1> QED BY <1>2, <1>3

\* What is applied next is a file of the directory.
LEMMA NextOfDirectory ==
  ASSUME NEW M, Listable(M), NEW T, NEW l \in Seq(T), Pending(M, l) # <<>>
  PROVE  Head(Pending(M, l)) \in M
<1> DEFINE n == Cardinality(M)
           h == Inventory(M)
<1>1. n \in Nat /\ Len(l) \in Nat /\ \A i \in 1 .. n : h[i] \in M
  BY ListingIsHistory
<1>2. Len(l) + 1 \in Int /\ n \in Int /\ \A i \in Len(l) + 1 .. n : h[i] \in M
  BY <1>1
<1>3. Pending(M, l) \in Seq(M)
  BY <1>2, ST!SubSeqProperties DEF Pending
<1> QED BY <1>3, ST!HeadTailProperties

\* The constants.
LEMMA Constancy ==
  /\ MaxTrouble \in Nat
  /\ None \notin Generations /\ None \notin Commands /\ None \notin Volumes
  /\ None \notin [gen : Generations, schema : BOOLEAN]
  /\ \A g \in Generations :
       /\ IsHistory(Represented[g]) /\ Represented[g] \in Seq(Texts) /\ Represented[g] # <<>>
       /\ ToSet(Represented[g]) \subseteq Texts /\ Listable(ToSet(Represented[g]))
  /\ \A d \in Directories : Listable(d) /\ d \subseteq Texts
<1>1. ASSUME NEW g \in Generations
      PROVE  /\ IsHistory(Represented[g]) /\ Represented[g] \in Seq(Texts) /\ Represented[g] # <<>>
             /\ ToSet(Represented[g]) \subseteq Texts /\ Listable(ToSet(Represented[g]))
  <2>1. IsHistory(Represented[g]) /\ Represented[g] # <<>>
    BY SupabaseAssumption DEF SupabaseAssumption
  <2>2. ToSet(Represented[g]) \in {ToSet(Represented[k]) : k \in Generations}
    OBVIOUS
  <2>3. ToSet(Represented[g]) \subseteq Texts
    BY <2>2, SMT DEF Texts
  <2>4. Represented[g] \in Seq(Texts)
    BY <2>1, <2>3, HistoryShape, ST!SeqMonotonic
  <2> QED BY <2>1, <2>3, <2>4, HistoryLists
<1>2. ASSUME NEW d \in Directories
      PROVE  Listable(d) /\ d \subseteq Texts
  BY SupabaseAssumption DEF SupabaseAssumption, Listable, Texts
<1> QED BY <1>1, <1>2, SupabaseAssumption DEF SupabaseAssumption

\* A plan continues the history of its baseline.
LEMMA PlansFit ==
  ASSUME NEW g \in Generations, NEW d \in Directories
  PROVE  /\ PlanOf(g, d) \in Plans
         /\ PlanOf(g, d) # None => Fits(g, PlanOf(g, d))
<1> DEFINE r == Represented[g]
           h == Inventory(d)
           plan == SubSeq(h, Len(r) + 1, Len(h))
<1>1. r \in Seq(Texts) /\ h \in Seq(Texts) /\ IsHistory(h)
  <2>1. Listable(d) /\ d \subseteq Texts /\ r \in Seq(Texts)
    BY Constancy
  <2>2. h \in Seq(d) /\ IsHistory(h)
    BY <2>1, ListingIsHistory
  <2> QED BY <2>1, <2>2, ST!SeqMonotonic
<1>2. CASE IsPrefix(r, h)
  <2>1. Len(r) \in Nat /\ Len(h) \in Nat /\ Len(r) <= Len(h)
    BY <1>1, <1>2, ST!LenProperties DEF IsPrefix
  <2>2. SubSeq(r, 1, Len(r)) = r
    BY <1>1, ST!SubSeqFull
  <2>3. r \o plan = SubSeq(h, 1, Len(h))
    <3>1. 1 \in 1 .. Len(h) + 1 /\ Len(r) \in 1 - 1 .. Len(h) /\ Len(h) \in Len(r) .. Len(h)
      BY <2>1
    <3>2. SubSeq(h, 1, Len(r)) \o SubSeq(h, Len(r) + 1, Len(h)) = SubSeq(h, 1, Len(h))
      BY <1>1, <3>1, ST!ConcatAdjacentSubSeq
    <3> QED BY <1>2, <2>2, <3>2 DEF IsPrefix
  <2>4. r \o plan = h
    BY <1>1, <2>3, ST!SubSeqFull
  <2>5. plan \in Seq(Texts)
    <3>1. \A i \in Len(r) + 1 .. Len(h) : h[i] \in Texts
      BY <1>1, <2>1
    <3>2. Len(r) + 1 \in Int /\ Len(h) \in Int
      BY <2>1
    <3> QED BY <3>1, <3>2, ST!SubSeqProperties
  <2>6. PlanOf(g, d) = plan
    BY <1>2 DEF PlanOf, RepresentsBaseline, Candidates
  <2> QED BY <1>1, <2>4, <2>5, <2>6 DEF Fits, Plans
<1>3. CASE ~IsPrefix(r, h)
  BY <1>3 DEF PlanOf, RepresentsBaseline, Plans
<1> QED BY <1>2, <1>3

\* A plan and the history it continues, entry by entry.
LEMMA PlanShape ==
  ASSUME NEW g \in Generations, NEW plan, Fits(g, plan)
  PROVE  /\ Len(plan) \in Nat /\ DOMAIN plan = 1 .. Len(plan)
         /\ Represented[g] \o plan \in Seq(Texts)
         /\ ToSet(Represented[g] \o plan) = ToSet(Represented[g]) \cup ToSet(plan)
         /\ \A i \in 1 .. Len(plan) : plan[i] \in Texts /\ Name(plan[i]) \in Nat
         /\ \A i \in 1 .. Len(plan) :
              \A f \in ToSet(Represented[g]) \cup {plan[j] : j \in 1 .. i - 1} :
                 Name(f) < Name(plan[i])
<1> DEFINE r == Represented[g]
           h == r \o plan
           k == Len(r)
           n == Len(plan)
<1>1. r \in Seq(Texts) /\ plan \in Seq(Texts) /\ IsHistory(h) /\ IsHistory(r)
  BY Constancy DEF Fits
<1>2. /\ k \in Nat /\ n \in Nat /\ DOMAIN r = 1 .. k /\ DOMAIN plan = 1 .. n
      /\ \A i \in 1 .. n : plan[i] \in Texts
  BY <1>1, ST!LenProperties, ST!ElementOfSeq
<1>3. /\ h \in Seq(Texts) /\ Len(h) = k + n
      /\ \A i \in 1 .. k + n : h[i] = IF i <= k THEN r[i] ELSE plan[i - k]
  BY <1>1, ST!ConcatProperties
<1>4. /\ \A i \in 1 .. k : i \in 1 .. k + n /\ h[i] = r[i]
      /\ \A i \in 1 .. n : k + i \in 1 .. k + n /\ h[k + i] = plan[i]
  <2>1. ASSUME NEW i \in 1 .. k PROVE i \in 1 .. k + n /\ h[i] = r[i]
    <3>1. i \in 1 .. k + n /\ i <= k
      BY <1>2
    <3> QED BY <1>3, <3>1
  <2>2. ASSUME NEW i \in 1 .. n PROVE k + i \in 1 .. k + n /\ h[k + i] = plan[i]
    <3>1. k + i \in 1 .. k + n /\ ~(k + i <= k) /\ (k + i) - k = i
      BY <1>2
    <3> QED BY <1>3, <3>1
  <2> QED BY <2>1, <2>2
<1>5. ToSet(h) = ToSet(r) \cup ToSet(plan)
  <2>1. DOMAIN h = 1 .. k + n
    BY <1>3, ST!LenProperties
  <2>2. \A i \in 1 .. k + n : i \in 1 .. k \/ i - k \in 1 .. n
    BY <1>2
  <2>3. \A i \in 1 .. k + n : h[i] \in ToSet(r) \cup ToSet(plan)
    <3> SUFFICES ASSUME NEW i \in 1 .. k + n PROVE h[i] \in ToSet(r) \cup ToSet(plan)
      OBVIOUS
    <3>1. CASE i \in 1 .. k
      BY <1>2, <1>4, <3>1 DEF ToSet
    <3>2. CASE i \notin 1 .. k
      <4>1. i - k \in 1 .. n /\ k + (i - k) = i
        BY <1>2, <2>2, <3>2
      <4>2. h[i] = plan[i - k]
        BY <1>4, <4>1
      <4> QED BY <1>2, <4>1, <4>2 DEF ToSet
    <3> QED BY <3>1, <3>2
  <2>4. ToSet(h) = {h[i] : i \in 1 .. k + n}
    BY <2>1 DEF ToSet
  <2>5. ToSet(r) \subseteq ToSet(h)
    BY <1>2, <1>4, <2>4 DEF ToSet
  <2>6. ToSet(plan) \subseteq ToSet(h)
    BY <1>2, <1>4, <2>4 DEF ToSet
  <2> QED BY <2>3, <2>4, <2>5, <2>6
<1>6. /\ \A i \in 1 .. k + n : Name(h[i]) \in Nat
      /\ \A i, j \in 1 .. k + n : i < j => Name(h[i]) < Name(h[j])
  BY <1>1, <1>3, HistoryShape
<1>7. ASSUME NEW i \in 1 .. n, NEW f \in ToSet(r) \cup {plan[j] : j \in 1 .. i - 1}
      PROVE  Name(f) < Name(plan[i])
  <2>1. CASE f \in ToSet(r)
    <3>1. PICK j \in 1 .. k : f = r[j]
      BY <1>2, <2>1 DEF ToSet
    <3>2. j < k + i
      BY <1>2
    <3> QED BY <1>4, <1>6, <3>1, <3>2
  <2>2. CASE f \in {plan[j] : j \in 1 .. i - 1}
    <3>1. PICK j \in 1 .. i - 1 : f = plan[j]
      BY <2>2
    <3>2. j \in 1 .. n /\ k + j < k + i
      BY <1>2
    <3> QED BY <1>4, <1>6, <3>1, <3>2
  <2> QED BY <2>1, <2>2
<1> QED BY <1>2, <1>3, <1>4, <1>5, <1>6, <1>7

\* Taking over the next candidate adds it to the directory.
LEMMA CopyAddsNext ==
  ASSUME NEW g \in Generations, NEW plan, Fits(g, plan), NEW k \in Nat, k < Len(plan)
  PROVE  LET taken(i) == ToSet(Represented[g]) \cup {plan[j] : j \in 1 .. i}
         IN  /\ CopyOver(taken(k), {plan[k + 1]}) = taken(k + 1)
             /\ k + 1 = Len(plan) => taken(k + 1) = ToSet(Represented[g] \o plan)
<1> DEFINE taken(i) == ToSet(Represented[g]) \cup {plan[j] : j \in 1 .. i}
<1>1. k + 1 \in 1 .. Len(plan) /\ (k + 1) - 1 = k
  BY PlanShape
<1>2. \A f \in taken(k) : Name(f) < Name(plan[k + 1])
  BY <1>1, PlanShape
<1>3. Name(plan[k + 1]) \in Nat
  BY <1>1, PlanShape
<1>4. \A f \in taken(k) : Name(f) # Name(plan[k + 1])
  BY <1>2, <1>3
<1>5. {plan[j] : j \in 1 .. k + 1} = {plan[j] : j \in 1 .. k} \cup {plan[k + 1]}
  <2>1. \A j : j \in 1 .. k + 1 <=> j \in 1 .. k \/ j = k + 1
    OBVIOUS
  <2> QED BY <2>1
<1>6. CopyOver(taken(k), {plan[k + 1]}) = taken(k + 1)
  BY <1>4, <1>5 DEF CopyOver
<1>7. ASSUME k + 1 = Len(plan) PROVE taken(k + 1) = ToSet(Represented[g] \o plan)
  BY <1>7, PlanShape DEF ToSet
<1> QED BY <1>6, <1>7

\* The history of a baseline begins every continuation of it.
LEMMA BeginsWhole ==
  ASSUME NEW g \in Generations, NEW plan, Fits(g, plan)
  PROVE  Begins(Represented[g], Represented[g] \o plan)
<1>1. Represented[g] \in Seq(Texts) /\ plan \in Seq(Texts)
  BY Constancy DEF Fits
<1>2. Len(Represented[g]) \in Nat /\ Len(plan) \in Nat
  BY <1>1, ST!LenProperties
<1>3. /\ Len(Represented[g] \o plan) = Len(Represented[g]) + Len(plan)
      /\ \A i \in 1 .. Len(Represented[g]) + Len(plan) :
           (Represented[g] \o plan)[i] =
              IF i <= Len(Represented[g]) THEN Represented[g][i]
              ELSE plan[i - Len(Represented[g])]
  BY <1>1, ST!ConcatProperties
<1> QED BY <1>2, <1>3 DEF Begins

\* A plan that adds nothing, and what is there before its first copy.
LEMMA NothingTaken ==
  ASSUME NEW g \in Generations
  PROVE  /\ Represented[g] \o <<>> = Represented[g] /\ Fits(g, <<>>)
         /\ \A plan : {plan[i] : i \in 1 .. 0} = {}
<1>1. Represented[g] \o <<>> = Represented[g] /\ IsHistory(Represented[g])
  BY Constancy, ST!ConcatEmptySeq
<1>2. <<>> \in Seq(Texts)
  BY ST!EmptySeq
<1> QED BY <1>1, <1>2 DEF Fits

LEMMA AppendAdds ==
  ASSUME NEW T, NEW l \in Seq(T), NEW e \in T
  PROVE  ToSet(Append(l, e)) = ToSet(l) \cup {e}
<1> DEFINE n == Len(l)
           m == Append(l, e)
<1>1. n \in Nat /\ DOMAIN l = 1 .. n /\ DOMAIN m = 1 .. n + 1
  BY ST!LenProperties, ST!AppendProperties
<1>2. (\A i \in 1 .. n : m[i] = l[i]) /\ m[n + 1] = e
  BY ST!AppendProperties
<1>3. \A i \in 1 .. n + 1 : i \in 1 .. n \/ i = n + 1
  BY <1>1
<1>4. ToSet(m) \subseteq ToSet(l) \cup {e}
  BY <1>1, <1>2, <1>3 DEF ToSet
<1>5. ToSet(l) \cup {e} \subseteq ToSet(m)
  <2>1. \A i \in 1 .. n : i \in 1 .. n + 1
    BY <1>1
  <2>2. n + 1 \in 1 .. n + 1
    BY <1>1
  <2> QED BY <1>1, <1>2, <2>1, <2>2 DEF ToSet
<1> QED BY <1>4, <1>5

\* Copying leaves a directory that can be listed.
LEMMA CopyLists ==
  ASSUME NEW M, Listable(M), NEW C, Listable(C)
  PROVE  Listable(CopyOver(M, C))
<1> DEFINE kept == {f \in M : \A c \in C : Name(f) # Name(c)}
<1>1. IsFiniteSet(kept)
  BY FS_Subset DEF Listable
<1>2. IsFiniteSet(CopyOver(M, C))
  BY <1>1, FS_Union DEF CopyOver, Listable
<1>3. IsDirectory(CopyOver(M, C))
  BY DEF CopyOver, Listable, IsDirectory
<1> QED BY <1>2, <1>3 DEF CopyOver, Listable

LEMMA FilesList ==
  ASSUME NEW d \in Directories, NEW f \in d
  PROVE  Listable({f})
<1>1. Name(f) \in Nat
  BY Constancy DEF Listable
<1> QED BY <1>1, FS_Singleton DEF Listable, IsDirectory

-----------------------------------------------------------------------------
(* The steps.                                                              *)

USE DEF Removing, Preparing, Starting, Restoring, Finishing, Marking, Comparing, Rebuilding, Opened

\* Going to another step leaves the rest of the command.
LEMMA GoesTo ==
  ASSUME cmd \in Tasks, NEW pc \in Steps, Goto(pc)
  PROVE  /\ cmd' \in Tasks /\ cmd'.pc = pc
         /\ cmd'.name = cmd.name /\ cmd'.phase = cmd.phase /\ cmd'.owned = cmd.owned
         /\ cmd'.undo = cmd.undo /\ cmd'.gen = cmd.gen /\ cmd'.plan = cmd.plan
         /\ cmd'.copied = cmd.copied /\ cmd'.reviewed = cmd.reviewed
BY DEF Goto, Tasks

LEMMA StepsAre ==
  {"remove", "cliRemove", "rmContainers", "rmVolumes", "rmWork", "config", "copyHistory",
   "preliminary", "cliStart", "noRestart", "up", "status", "schema", "compareSchema", "rows",
   "assets", "localRows", "configure", "export", "truncate", "mark", "read", "confirm", "copy",
   "upCandidates", "compare", "prove", "receipt", "match", "stop", "idle"} \subseteq Steps
BY DEF Steps

LEMMA WorkFields ==
  ASSUME work \in Workdirs
  PROVE  /\ \A M \in SUBSET Texts :
              /\ [work EXCEPT !.migrations = M] \in Workdirs
              /\ [work EXCEPT !.migrations = M].migrations = M
              /\ [work EXCEPT !.migrations = M].marker = work.marker
              /\ [work EXCEPT !.migrations = M].receipt = work.receipt
         /\ \A m \in Markers :
              /\ [work EXCEPT !.marker = m] \in Workdirs
              /\ [work EXCEPT !.marker = m].marker = m
              /\ [work EXCEPT !.marker = m].migrations = work.migrations
              /\ [work EXCEPT !.marker = m].receipt = work.receipt
         /\ \A r \in Receipts :
              /\ [work EXCEPT !.receipt = r] \in Workdirs
              /\ [work EXCEPT !.receipt = r].receipt = r
              /\ [work EXCEPT !.receipt = r].migrations = work.migrations
              /\ [work EXCEPT !.receipt = r].marker = work.marker
         /\ \A c \in BOOLEAN :
              /\ [work EXCEPT !.config = c] \in Workdirs
              /\ [work EXCEPT !.config = c].migrations = work.migrations
              /\ [work EXCEPT !.config = c].marker = work.marker
              /\ [work EXCEPT !.config = c].receipt = work.receipt
BY DEF Workdirs

LEMMA VolumeFields ==
  ASSUME vol \in Volumes
  PROVE  /\ vol # None /\ vol.gen \in Generations /\ vol.ledger \in Seq(Texts)
         /\ \A l \in Seq(Texts) :
              /\ [vol EXCEPT !.ledger = l] \in Volumes /\ [vol EXCEPT !.ledger = l] # None
              /\ [vol EXCEPT !.ledger = l].ledger = l /\ [vol EXCEPT !.ledger = l].gen = vol.gen
              /\ [vol EXCEPT !.ledger = l].stage = vol.stage
              /\ [vol EXCEPT !.ledger = l].hollow = vol.hollow
         /\ \A s \in Built .. Whole :
              /\ [vol EXCEPT !.stage = s] \in Volumes /\ [vol EXCEPT !.stage = s] # None
              /\ [vol EXCEPT !.stage = s].stage = s /\ [vol EXCEPT !.stage = s].gen = vol.gen
              /\ [vol EXCEPT !.stage = s].ledger = vol.ledger
              /\ [vol EXCEPT !.stage = s].hollow = vol.hollow
<1>1. None \notin Volumes
  BY Constancy
<1>2. \A l \in Seq(Texts) : [vol EXCEPT !.ledger = l] \in Volumes
  BY DEF Volumes
<1>3. \A s \in Built .. Whole : [vol EXCEPT !.stage = s] \in Volumes
  BY DEF Volumes
<1> QED BY <1>1, <1>2, <1>3 DEF Volumes

LEMMA IdleFields ==
  /\ Idle \in Tasks /\ Idle.pc = "idle" /\ ~Idle.undo /\ ~Idle.owned
  /\ Idle.name = None /\ Idle.phase = None /\ Idle.gen = None /\ Idle.copied = 0
BY DEF Idle, Tasks, Steps, Plans

\* A command that ends leaves what stands for itself.
LEMMA EndKeeps ==
  ASSUME cmd' = Idle, TypeInv', Trusted', Confined'
  PROVE  Inv'
<1>1. (Control /\ Emptied /\ Vouched /\ Present)'
  BY IdleFields, Constancy, SMT DEF Control, Emptied, Vouched, Present, Commands
<1>2. (Baselined /\ Planned /\ Rehearsing)'
  BY IdleFields, Constancy, SMT DEF Baselined, Planned, Rehearsing, Continuing, Commands
<1> QED BY <1>1, <1>2 DEF Inv

\* So does one that begins, or begins to remove.
LEMMA RemovalKeeps ==
  ASSUME Control', cmd'.pc = "remove", TypeInv', Trusted', Confined', ~Continuing',
         ~cmd'.undo => cmd'.copied = 0
  PROVE  Inv'
<1>1. (Emptied /\ Vouched /\ Present /\ Baselined /\ Planned)'
  BY SMT DEF Emptied, Vouched, Present, Baselined, Planned
<1> QED BY <1>1 DEF Inv, Rehearsing

\* And one that looks for the marker.
LEMMA MatchKeeps ==
  ASSUME Control', cmd'.pc = "match", TypeInv', Trusted', Confined', Rehearsing', cmd'.copied = 0
  PROVE  Inv'
<1>1. (Emptied /\ Vouched /\ Present /\ Baselined /\ Planned)'
  BY SMT DEF Emptied, Vouched, Present, Baselined, Planned
<1> QED BY <1>1 DEF Inv

\* The runtime and its history, when neither changes.
LEMMA SameRuntime ==
  ASSUME Inv, UNCHANGED <<work, vol, history>>
  PROVE  Trusted' /\ Confined'
BY DEF Inv, Trusted, Confined, Final, history

LEMMA SameCommand ==
  ASSUME Inv, UNCHANGED <<cmd, work, vol, history>>
  PROVE  (Trusted /\ Vouched /\ Present /\ Baselined /\ Planned /\ Confined /\ Rehearsing)'
<1>1. (Trusted /\ Vouched /\ Present /\ Baselined /\ Confined)'
  BY DEF Inv, Trusted, Vouched, Present, Baselined, Confined, Final, history
<1>2. Planned'
  BY DEF Inv, Planned, history
<1>3. Rehearsing'
  BY DEF Inv, Rehearsing, Continuing, Migrating, Verifying, Copied, Hold, Reviewed,
         history
<1> QED BY <1>1, <1>2, <1>3

LEMMA TroubleCounts ==
  ASSUME TypeInv, Trouble
  PROVE  trouble' \in 0 .. MaxTrouble
BY Constancy DEF TypeInv, Trouble

-----------------------------------------------------------------------------
(* What happens around the commands.                                       *)

LEMMA KillKeeps ==
  ASSUME Inv, Kill
  PROVE  Inv'
<1>1. cmd' = Idle /\ Trusted' /\ Confined'
  BY SameRuntime DEF Kill, End, runtime, history
<1>2. TypeInv'
  BY <1>1, IdleFields, TroubleCounts DEF Inv, TypeInv, Kill, End, runtime, history
<1> QED BY <1>1, <1>2, EndKeeps

LEMMA EngineStopsKeeps ==
  ASSUME Inv, EngineStops
  PROVE  Inv'
<1>1. TypeInv'
  <2>1. trouble' \in 0 .. MaxTrouble
    BY TroubleCounts DEF Inv, EngineStops
  <2> QED BY <2>1 DEF Inv, TypeInv, EngineStops, history
<1>2. Control' /\ Emptied'
  BY DEF Inv, Control, Emptied, EngineStops
<1> QED BY <1>1, <1>2, SameCommand DEF EngineStops, Inv

LEMMA PruneKeeps ==
  ASSUME Inv, Prune
  PROVE  Inv'
<1>1. cmd' = Idle
  BY DEF Inv, Control, Prune, Running
<1>2. TypeInv' /\ Trusted' /\ Confined'
  BY TroubleCounts DEF Inv, TypeInv, Trusted, Confined, Final, Prune, history
<1> QED BY <1>1, <1>2, EndKeeps

LEMMA EmptyWorkFields ==
  /\ EmptyWork \in Workdirs /\ Listable(EmptyWork.migrations)
  /\ EmptyWork.migrations = {} /\ EmptyWork.marker = None
BY FS_EmptySet DEF EmptyWork, Workdirs, Markers, Receipts, Listable, IsDirectory

LEMMA DeleteWorkdirKeeps ==
  ASSUME Inv, DeleteWorkdir
  PROVE  Inv'
<1>1. cmd' = Idle
  BY DEF Inv, Control, DeleteWorkdir, Running
<1>2. TypeInv' /\ Trusted' /\ Confined'
  BY EmptyWorkFields, TroubleCounts
    DEF Inv, TypeInv, Trusted, Confined, Final, DeleteWorkdir, history
<1> QED BY <1>1, <1>2, EndKeeps

LEMMA EditMigrationsKeeps ==
  ASSUME Inv, EditMigrations
  PROVE  Inv'
<1>1. TypeInv'
  <2>1. trouble' \in 0 .. MaxTrouble
    BY TroubleCounts DEF Inv, EditMigrations
  <2> QED BY <2>1 DEF Inv, TypeInv, EditMigrations, runtime, history
<1>2. Control' /\ Emptied'
  BY DEF Inv, Control, Emptied, EditMigrations, runtime
<1> QED BY <1>1, <1>2, SameCommand DEF EditMigrations, Inv, runtime

LEMMA RefreshBaselineKeeps ==
  ASSUME Inv, RefreshBaseline
  PROVE  Inv'
<1>1. cmd' = Idle
  BY DEF Inv, Control, RefreshBaseline, Running
<1>2. TypeInv'
  <2>1. trouble' \in 0 .. MaxTrouble
    BY TroubleCounts DEF Inv, RefreshBaseline
  <2> QED BY <2>1 DEF Inv, TypeInv, RefreshBaseline, runtime, history
<1>3. Trusted' /\ Confined'
  BY SameRuntime DEF RefreshBaseline, runtime
<1> QED BY <1>1, <1>2, <1>3, EndKeeps

-----------------------------------------------------------------------------
(* Beginning, failing and removing.                                        *)

LEMMA BeginKeeps ==
  ASSUME Inv, NEW name \in Commands, Begin(name)
  PROVE  Inv'
<1> DEFINE task == [Idle EXCEPT !.name = name, !.phase = PhaseOf(name),
                      !.pc = FirstStep(PhaseOf(name)), !.gen = active,
                      !.reviewed = PlanOf(active, files)]
<1>1. /\ task.name = name /\ task.phase = PhaseOf(name) /\ task.pc = FirstStep(PhaseOf(name))
      /\ task.gen = active /\ ~task.owned /\ ~task.undo /\ task.copied = 0
  BY DEF Idle
<1>2. PhaseOf(name) \in Phases /\ FirstStep(PhaseOf(name)) \in {"remove", "match", "stop"}
  BY DEF PhaseOf, FirstStep, Phases, Commands
<1>3. task \in Tasks
  <2>1. active \in Generations /\ PlanOf(active, files) \in Plans
    BY PlansFit DEF Inv, TypeInv
  <2> QED BY <1>2, <2>1 DEF Idle, Tasks, Steps, Plans
<1>4. cmd' = task /\ TypeInv' /\ Trusted' /\ Confined'
  <2>1. cmd' = task
    BY DEF Begin
  <2>2. TypeInv'
    BY <1>3, <2>1 DEF Inv, TypeInv, Begin, runtime, history, outside
  <2> QED BY <2>1, <2>2, SameRuntime DEF Begin, runtime, history
<1>5. ~Continuing' \/ task.pc = "match"
  BY <1>1, <1>4, Constancy
    DEF Control, Continuing, PhaseOf, FirstStep, Commands, Phases, Begin, outside
<1>6. Control' /\ Rehearsing'
  BY <1>1, <1>4
    DEF Control, Continuing, Rehearsing, PhaseOf, FirstStep, Commands, Phases, Begin,
        outside
<1>7. CASE task.pc = "stop"
  <2>1. (Emptied /\ Vouched /\ Present /\ Baselined /\ Planned)'
    BY <1>1, <1>4, <1>7, SMT DEF Emptied, Vouched, Present, Baselined, Planned
  <2> QED BY <1>4, <1>6, <2>1 DEF Inv
<1>8. CASE task.pc = "match"
  BY <1>1, <1>4, <1>6, <1>8, MatchKeeps
<1>9. CASE task.pc = "remove"
  BY <1>1, <1>4, <1>5, <1>6, <1>9, RemovalKeeps
<1> QED BY <1>1, <1>2, <1>7, <1>8, <1>9

LEMMA FailKeeps ==
  ASSUME Inv, Fail
  PROVE  Inv'
<1>1. Trusted' /\ Confined' /\ UNCHANGED <<runtime, history, outside>>
  BY SameRuntime DEF Fail, runtime, history
<1>2. ASSUME NEW how \in {"failed", "unrecovered"}, End(how)
      PROVE  Inv'
  <2>1. TypeInv'
    BY <1>1, <1>2, IdleFields DEF Inv, TypeInv, End, runtime, history, outside
  <2> QED BY <1>1, <1>2, <2>1, EndKeeps DEF End
<1>3. CASE /\ cmd' = [cmd EXCEPT !.undo = TRUE, !.pc = "remove"] /\ UNCHANGED outcome
           /\ cmd.owned /\ ~cmd.undo
  <2>1. cmd \in Tasks
    BY DEF Inv, TypeInv
  <2>2. /\ cmd' \in Tasks /\ cmd'.pc = "remove" /\ cmd'.undo /\ cmd'.name = cmd.name
        /\ cmd'.phase = cmd.phase /\ cmd'.gen = cmd.gen
    BY <1>3, <2>1 DEF Tasks, Steps
  <2>3. TypeInv'
    BY <1>1, <1>3, <2>2 DEF Inv, TypeInv, runtime, history, outside
  <2>4. Control'
    BY <1>1, <1>3, <2>2 DEF Inv, Control, Fail, Running, outside
  <2> QED BY <1>1, <2>2, <2>3, <2>4, RemovalKeeps DEF Continuing
<1> QED BY <1>2, <1>3 DEF Fail

\* A removal does not care for what it removes.
LEMMA RemovingKeeps ==
  ASSUME Inv, cmd.pc \in Removing, \E pc \in Removing : Goto(pc) \/ cmd' = cmd,
         TypeInv', Emptied', Trusted', Confined', active' = active
  PROVE  Inv'
<1>1. /\ cmd'.pc \in Removing
      /\ cmd'.name = cmd.name /\ cmd'.phase = cmd.phase /\ cmd'.owned = cmd.owned
      /\ cmd'.undo = cmd.undo /\ cmd'.gen = cmd.gen /\ cmd'.copied = cmd.copied
  <2>1. PICK pc \in Removing : Goto(pc) \/ cmd' = cmd
    OBVIOUS
  <2>2. pc \in Steps /\ cmd \in Tasks
    BY StepsAre DEF Inv, TypeInv
  <2> QED BY <2>1, <2>2, GoesTo
<1>2. Control'
  BY <1>1, SMT DEF Inv, Control
<1>3. (Vouched /\ Present /\ Baselined /\ Planned)'
  BY <1>1, SMT DEF Inv, Vouched, Present, Baselined, Planned
<1>4. ~Continuing'
  BY <1>1, SMT DEF Inv, Rehearsing, Continuing
<1> QED BY <1>2, <1>3, <1>4 DEF Inv, Rehearsing

LEMMA LookForRuntimeKeeps ==
  ASSUME Inv, LookForRuntime
  PROVE  Inv'
<1> DEFINE pc == IF Removable THEN "cliRemove" ELSE "rmWork"
<1>1. cmd \in Tasks /\ pc \in Removing /\ pc \in Steps /\ Goto(pc) /\ cmd.pc \in Removing
  BY StepsAre DEF Inv, TypeInv, LookForRuntime, At
<1>2. cmd' \in Tasks /\ cmd'.pc = pc
  BY <1>1, GoesTo
<1>3. TypeInv'
  BY <1>2 DEF Inv, TypeInv, LookForRuntime, runtime, history, outside
<1>4. Emptied'
  BY <1>2, SMT DEF Inv, Emptied, LookForRuntime, Removable, ResourcesExist, runtime
<1>5. Trusted' /\ Confined' /\ active' = active
  BY SameRuntime DEF LookForRuntime, runtime, outside
<1> QED BY <1>1, <1>3, <1>4, <1>5, RemovingKeeps

\* The steps that remove containers and volume.
LEMMA ResourcesRemovedKeeps ==
  ASSUME Inv, CliRemove \/ CliRemoveFails \/ RemoveContainers \/ RemoveVolumes
  PROVE  Inv'
<1>1. PICK pc \in {"rmWork", "rmContainers", "rmVolumes"} :
        /\ Goto(pc) /\ cmd.pc \in Removing
        /\ UNCHANGED <<work, exported, outcome, history, outside>>
        /\ box' \in {"none", box} /\ vol' \in {None, vol}
        /\ pc = "rmWork" => vol' = None /\ (box' = "none" \/ (box' = box /\ At("rmVolumes")))
        /\ pc = "rmVolumes" => box' = "none"
  <2>1. CASE CliRemove
    BY <2>1 DEF CliRemove, At
  <2>2. CASE CliRemoveFails
    BY <2>2 DEF CliRemoveFails, At
  <2>3. CASE RemoveContainers
    BY <2>3 DEF RemoveContainers, At
  <2>4. CASE RemoveVolumes
    BY <2>4 DEF RemoveVolumes, At
  <2> QED BY <2>1, <2>2, <2>3, <2>4
<1>2. pc \in Removing /\ pc \in Steps /\ cmd \in Tasks
  BY StepsAre DEF Inv, TypeInv
<1>3. cmd' \in Tasks /\ cmd'.pc = pc
  BY <1>1, <1>2, GoesTo
<1>4. TypeInv'
  BY <1>1, <1>3 DEF Inv, TypeInv, history, outside
<1>5. Emptied'
  BY <1>1, <1>3, SMT DEF Inv, Emptied, At
<1>6. Trusted' /\ Confined' /\ active' = active
  BY <1>1 DEF Inv, Trusted, Confined, Final, history, outside
<1> QED BY <1>1, <1>2, <1>4, <1>5, <1>6, RemovingKeeps

LEMMA RemovePartKeeps ==
  ASSUME Inv, RemovePart
  PROVE  Inv'
<1>1. cmd.pc = "rmWork" /\ UNCHANGED <<exported, box, vol, cmd, outcome, history, outside>>
  BY DEF RemovePart, At
<1>2. /\ work' \in Workdirs /\ Listable(work'.migrations)
      /\ work'.migrations \subseteq work.migrations /\ work'.marker \in {None, work.marker}
  <2>1. PICK part \in {"config", "migrations", "marker", "receipt"} :
          work' = [work EXCEPT ![part] = EmptyWork[part]]
    BY DEF RemovePart, PartsOfWork, EmptyWork
  <2>2. work \in Workdirs /\ Listable(work.migrations)
    BY DEF Inv, TypeInv
  <2>3. Listable({}) /\ {} \in SUBSET Texts /\ None \in Markers /\ None \in Receipts
    BY FS_EmptySet DEF Listable, IsDirectory, Markers, Receipts
  <2>4. CASE part = "config"
    BY <2>1, <2>2, <2>4, WorkFields DEF EmptyWork
  <2>5. CASE part = "migrations"
    BY <2>1, <2>2, <2>3, <2>5, WorkFields DEF EmptyWork
  <2>6. CASE part = "marker"
    BY <2>1, <2>2, <2>3, <2>6, WorkFields DEF EmptyWork
  <2>7. CASE part = "receipt"
    BY <2>1, <2>2, <2>3, <2>7, WorkFields DEF EmptyWork
  <2> QED BY <2>4, <2>5, <2>6, <2>7
<1>3. TypeInv'
  BY <1>1, <1>2 DEF Inv, TypeInv, history, outside
<1>4. Emptied'
  BY <1>1, <1>2, SMT DEF Inv, Emptied
<1>5. Trusted' /\ Confined' /\ active' = active
  <2>1. Final' => Final /\ work'.marker = work.marker
    BY <1>2 DEF Final
  <2> QED BY <1>1, <1>2, <2>1 DEF Inv, Trusted, Confined, history, outside
<1> QED BY <1>1, <1>3, <1>4, <1>5, RemovingKeeps

\* With the workdir gone, the command ends or the workdir is made anew.
LEMMA WorkIsGoneKeeps ==
  ASSUME Inv, WorkIsGone
  PROVE  Inv'
<1>1. /\ cmd.pc = "rmWork" /\ exported' = FALSE /\ AfterRemoval
      /\ UNCHANGED <<work, box, vol, history, outside>>
      /\ work.migrations = {} /\ work.marker = None /\ vol = None /\ box = "none"
  BY DEF WorkIsGone, At, PartsOfWork, EmptyWork, Inv, Emptied
<1>2. Trusted' /\ Confined'
  BY <1>1, SameRuntime
<1>3. ASSUME NEW how \in {"failed", "ok"}, End(how)
      PROVE  Inv'
  <2>1. TypeInv'
    BY <1>1, <1>3, IdleFields DEF Inv, TypeInv, End, history, outside
  <2> QED BY <1>2, <1>3, <2>1, EndKeeps DEF End
<1>4. CASE /\ cmd' = [cmd EXCEPT !.pc = "config", !.owned = TRUE] /\ UNCHANGED outcome
           /\ ~cmd.undo /\ cmd.phase # "discard"
  <2>1. cmd \in Tasks
    BY DEF Inv, TypeInv
  <2>2. /\ cmd' \in Tasks /\ cmd'.pc = "config" /\ cmd'.owned /\ cmd'.name = cmd.name
        /\ cmd'.phase = cmd.phase /\ cmd'.gen = cmd.gen /\ cmd'.undo = cmd.undo
        /\ cmd'.copied = cmd.copied
    BY <1>4, <2>1 DEF Tasks, Steps
  <2>3. TypeInv'
    BY <1>1, <1>4, <2>2 DEF Inv, TypeInv, history, outside
  <2>4. Control'
    BY <1>1, <1>4, <2>2, SMT DEF Inv, Control, outside
  <2>5. ~Continuing'
    BY <1>1, <1>4, <2>2, SMT DEF Inv, Rehearsing, Continuing
  <2>6. (Emptied /\ Vouched /\ Present /\ Baselined /\ Planned)'
    BY <1>1, <1>4, <2>2, SMT
      DEF Inv, Emptied, Vouched, Present, Baselined, Planned, Final
  <2> QED BY <1>2, <2>3, <2>4, <2>5, <2>6 DEF Inv, Rehearsing
<1> QED BY <1>1, <1>3, <1>4 DEF AfterRemoval

-----------------------------------------------------------------------------
(* Making a runtime anew.                                                  *)

\* What all steps of a reset, but its last, keep.
LEMMA RebuildKeeps ==
  ASSUME Inv, Rebuilding, active' = active,
         \E pc \in Preparing \cup Starting \cup Restoring \cup Finishing \cup Marking :
           Goto(pc) \/ cmd' = cmd,
         TypeInv', Emptied', ~Final', Present', Baselined', Confined'
  PROVE  Inv'
<1>1. /\ \/ cmd'.pc \in Preparing \cup Starting \cup Restoring \cup Finishing \cup Marking
         \/ cmd'.pc = cmd.pc
      /\ cmd'.name = cmd.name /\ cmd'.phase = cmd.phase /\ cmd'.owned = cmd.owned
      /\ cmd'.undo = cmd.undo /\ cmd'.gen = cmd.gen /\ cmd'.copied = cmd.copied
  <2>1. PICK pc \in Preparing \cup Starting \cup Restoring \cup Finishing \cup Marking :
          Goto(pc) \/ cmd' = cmd
    OBVIOUS
  <2>2. pc \in Steps /\ cmd \in Tasks
    BY StepsAre DEF Inv, TypeInv
  <2> QED BY <2>1, <2>2, GoesTo
<1>2. cmd.owned /\ ~cmd.undo
  BY SMT DEF Inv, Control
<1>3. Control'
  BY <1>1, <1>2, SMT DEF Inv, Control
<1>4. (Trusted /\ Vouched /\ Planned)'
  BY <1>1, <1>2, SMT DEF Inv, Trusted, Vouched, Planned
<1>5. ~Continuing'
  BY <1>1, <1>2, SMT DEF Inv, Rehearsing, Continuing
<1> QED BY <1>3, <1>4, <1>5 DEF Inv, Rehearsing

LEMMA WriteConfigurationKeeps ==
  ASSUME Inv, WriteConfiguration
  PROVE  Inv'
<1>1. /\ cmd.pc = "config" /\ Goto("copyHistory") /\ work' = [work EXCEPT !.config = TRUE]
      /\ approved' = {} /\ UNCHANGED <<exported, box, vol, outcome, raced, outside>>
      /\ vol = None /\ box = "none" /\ work.migrations = {} /\ ~Final /\ cmd.owned
  BY DEF WriteConfiguration, At, Inv, Emptied, Vouched, Control
<1>2. /\ work' \in Workdirs /\ work'.migrations = work.migrations /\ work'.marker = work.marker
  BY <1>1, WorkFields DEF Inv, TypeInv
<1>3. cmd' \in Tasks /\ cmd'.pc = "copyHistory" /\ cmd'.gen = cmd.gen
  BY <1>1, GoesTo, StepsAre DEF Inv, TypeInv
<1>4. TypeInv'
  BY <1>1, <1>2, <1>3 DEF Inv, TypeInv, outside
<1>5. (Emptied /\ ~Final /\ Present /\ Baselined /\ Confined)'
  BY <1>1, <1>2, <1>3, SMT DEF Emptied, Final, Present, Baselined, Confined
<1> QED BY <1>1, <1>4, <1>5, RebuildKeeps DEF outside

LEMMA CopyHistoryKeeps ==
  ASSUME Inv, CopyHistory
  PROVE  Inv'
<1> DEFINE M == ToSet(Represented[cmd.gen])
<1>1. /\ cmd.pc = "copyHistory" /\ Goto("preliminary")
      /\ work' = [work EXCEPT !.migrations = CopyOver(work.migrations, M)]
      /\ UNCHANGED <<exported, box, vol, outcome, history, outside>>
      /\ vol = None /\ box = "none" /\ work.migrations = {} /\ ~Final /\ cmd.owned
      /\ cmd.gen \in Generations
  BY DEF CopyHistory, At, Inv, TypeInv, Emptied, Vouched, Control
<1>2. CopyOver(work.migrations, M) = M
  BY <1>1 DEF CopyOver
<1>3. M \in SUBSET Texts /\ Listable(M)
  BY <1>1, Constancy
<1>4. /\ work' \in Workdirs /\ work'.migrations = M /\ work'.marker = work.marker
  BY <1>1, <1>2, <1>3, WorkFields DEF Inv, TypeInv
<1>5. cmd' \in Tasks /\ cmd'.pc = "preliminary" /\ cmd'.gen = cmd.gen
  BY <1>1, GoesTo, StepsAre DEF Inv, TypeInv
<1>6. TypeInv'
  BY <1>1, <1>3, <1>4, <1>5 DEF Inv, TypeInv, history, outside
<1>7. (Emptied /\ ~Final /\ Present /\ Baselined /\ Confined)'
  BY <1>1, <1>4, <1>5, SMT DEF Emptied, Final, Present, Baselined, Confined
<1> QED BY <1>1, <1>6, <1>7, RebuildKeeps DEF outside

LEMMA WritePreliminaryMarkerKeeps ==
  ASSUME Inv, WritePreliminaryMarker
  PROVE  Inv'
<1>1. /\ cmd.pc = "preliminary" /\ Goto("cliStart")
      /\ work' = [work EXCEPT !.marker = PreliminaryMarker(cmd.gen)]
      /\ UNCHANGED <<exported, box, vol, outcome, history, outside>>
      /\ vol = None /\ box = "none" /\ cmd.owned /\ cmd.gen \in Generations
      /\ work.migrations = ToSet(Represented[cmd.gen])
  BY DEF WritePreliminaryMarker, At, Inv, TypeInv, Emptied, Vouched, Control, Baselined
<1>2. PreliminaryMarker(cmd.gen) \in Markers /\ ~PreliminaryMarker(cmd.gen).schema
  BY <1>1 DEF PreliminaryMarker, Markers
<1>3. /\ work' \in Workdirs /\ work'.migrations = work.migrations
      /\ work'.marker = PreliminaryMarker(cmd.gen)
  BY <1>1, <1>2, WorkFields DEF Inv, TypeInv
<1>4. cmd' \in Tasks /\ cmd'.pc = "cliStart" /\ cmd'.gen = cmd.gen
  BY <1>1, GoesTo, StepsAre DEF Inv, TypeInv
<1>5. TypeInv'
  BY <1>1, <1>3, <1>4 DEF Inv, TypeInv, history, outside
<1>6. (Emptied /\ ~Final /\ Present /\ Baselined /\ Confined)'
  BY <1>1, <1>2, <1>3, <1>4, SMT DEF Emptied, Final, Present, Baselined, Confined
<1> QED BY <1>1, <1>5, <1>6, RebuildKeeps DEF outside

-----------------------------------------------------------------------------
(* Starting.                                                               *)

\* A marker that matches is a valid one of that baseline.
LEMMA MarkerMatches ==
  ASSUME NEW g \in Generations, Matches(work.marker, g)
  PROVE  Final /\ work.marker # None /\ work.marker.gen = g
<1>1. work.marker = [gen |-> g, schema |-> TRUE]
  BY DEF Matches
<1>2. work.marker \in [gen : Generations, schema : BOOLEAN]
  BY <1>1
<1>3. None \notin [gen : Generations, schema : BOOLEAN]
  BY Constancy
<1>4. work.marker # None
  BY <1>2, <1>3
<1>5. work.marker.schema = TRUE /\ work.marker.gen = g
  BY <1>1
<1> QED BY <1>4, <1>5 DEF Final

\* The parts of a command that its steps leave alone.
SameTask ==
  /\ cmd'.name = cmd.name /\ cmd'.phase = cmd.phase /\ cmd'.owned = cmd.owned
  /\ cmd'.undo = cmd.undo /\ cmd'.gen = cmd.gen /\ cmd'.plan = cmd.plan
  /\ cmd'.copied = cmd.copied /\ cmd'.reviewed = cmd.reviewed

\* A rehearsal in which nothing moves but the step.
LEMMA RehearsalWaits ==
  ASSUME Inv, SameTask, UNCHANGED <<work, vol, raced>>, cmd.pc \in Early, cmd'.pc \in Early,
         cmd'.pc = "match" \/ Opened'
  PROVE  Rehearsing'
<1>1. Migrating => Migrating'
  BY DEF Migrating, Early, SameTask, Hold
<1>2. Verifying => Verifying'
  BY DEF Verifying, SameTask, Hold, Reviewed
<1>3. Continuing' => Continuing
  BY DEF Continuing, SameTask
<1> QED BY <1>1, <1>2, <1>3, Zenon DEF Inv, Rehearsing, SameTask

LEMMA MatchMarkerKeeps ==
  ASSUME Inv, MatchMarker
  PROVE  Inv'
<1>1. cmd.pc = "match" /\ UNCHANGED <<runtime, outcome, history, outside>>
  BY DEF MatchMarker, At
<1>2. Trusted' /\ Confined'
  BY <1>1, SameRuntime DEF runtime
<1>3. CASE work.marker = None /\ Goto("remove")
  <2>1. /\ cmd' \in Tasks /\ cmd'.pc = "remove" /\ cmd'.name = cmd.name /\ cmd'.undo = cmd.undo
        /\ cmd'.phase = cmd.phase /\ cmd'.gen = cmd.gen /\ cmd'.copied = cmd.copied
        /\ cmd'.owned = cmd.owned
    BY <1>3, GoesTo, StepsAre DEF Inv, TypeInv
  <2>2. TypeInv'
    BY <1>1, <2>1 DEF Inv, TypeInv, runtime, history, outside
  <2>3. Control'
    BY <1>1, <2>1, SMT DEF Inv, Control, outside
  <2>4. ~Continuing'
    <3>2. cmd.gen \in Generations
      BY <1>1 DEF Inv, TypeInv, Control
    <3>3. ~Matches(work.marker, cmd.gen)
      BY <1>3, <3>2, MarkerMatches
    <3>4. ~Continuing
      BY <3>3 DEF Inv, Rehearsing
    <3> QED BY <2>1, <3>4 DEF Continuing
  <2>5. cmd'.copied = 0
    BY <1>1, <2>1, SMT DEF Inv, Planned, Control
  <2> QED BY <1>2, <2>1, <2>2, <2>3, <2>4, <2>5, RemovalKeeps
<1>4. CASE Matches(work.marker, cmd.gen) /\ Goto("cliStart")
  <2>1. /\ cmd' \in Tasks /\ cmd'.pc = "cliStart" /\ cmd'.name = cmd.name /\ cmd'.undo = cmd.undo
        /\ cmd'.phase = cmd.phase /\ cmd'.gen = cmd.gen /\ cmd'.copied = cmd.copied
        /\ cmd'.owned = cmd.owned /\ cmd'.reviewed = cmd.reviewed
    BY <1>4, GoesTo, StepsAre DEF Inv, TypeInv
  <2>2. TypeInv'
    BY <1>1, <2>1 DEF Inv, TypeInv, runtime, history, outside
  <2>3. ~cmd.owned /\ ~cmd.undo /\ cmd.copied = 0
    BY <1>1, SMT DEF Inv, Control, Planned
  <2>4. (Control /\ Emptied /\ Vouched /\ Present /\ Baselined /\ Planned)'
    BY <1>1, <1>4, <2>1, <2>3, SMT
      DEF Inv, Control, Emptied, Vouched, Present, Baselined, Planned,
       Matches, runtime, outside
  <2>6. cmd'.plan = cmd.plan
    BY <1>4, GoesTo, StepsAre DEF Inv, TypeInv
  <2>5. Rehearsing'
    <3>1. cmd.pc \in Early /\ cmd'.pc \in Early /\ Opened'
      BY <1>1, <2>1, <2>3, SMT DEF Early
    <3>2. SameTask
      BY <2>1, <2>6 DEF SameTask
    <3> QED BY <1>1, <3>1, <3>2, RehearsalWaits DEF runtime, history
  <2> QED BY <1>2, <2>2, <2>4, <2>5 DEF Inv
<1> QED BY <1>3, <1>4 DEF MatchMarker

\* The steps that only look.
LEMMA LooksKeep ==
  ASSUME Inv, PreventRestart \/ ReadLocalEnvironment \/ CompareSchema \/ ConfigureProject
  PROVE  Inv'
<1>1. UNCHANGED <<runtime, outcome, history, outside>>
  BY DEF PreventRestart, ReadLocalEnvironment, CompareSchema, ConfigureProject
<1>2. PICK pc \in {"up", "schema", "configure", "rows", "export"} :
        /\ Goto(pc)
        /\ pc = "up" => cmd.pc = "noRestart"
        /\ pc = "schema" => cmd.pc = "status" /\ cmd.owned
        /\ pc = "configure" => cmd.pc = "status" /\ ~cmd.owned
        /\ pc = "rows" => cmd.pc = "compareSchema"
        /\ pc = "export" => cmd.pc = "configure"
  <2>1. CASE PreventRestart
    BY <2>1 DEF PreventRestart, At
  <2>2. CASE ReadLocalEnvironment /\ cmd.owned
    BY <2>2 DEF ReadLocalEnvironment, At
  <2>3. CASE ReadLocalEnvironment /\ ~cmd.owned
    BY <2>3 DEF ReadLocalEnvironment, At
  <2>4. CASE CompareSchema
    BY <2>4 DEF CompareSchema, At
  <2>5. CASE ConfigureProject
    BY <2>5 DEF ConfigureProject, At
  <2> QED BY <2>1, <2>2, <2>3, <2>4, <2>5
<1>3. /\ cmd' \in Tasks /\ cmd'.pc = pc /\ cmd'.name = cmd.name /\ cmd'.undo = cmd.undo
      /\ cmd'.phase = cmd.phase /\ cmd'.gen = cmd.gen /\ cmd'.copied = cmd.copied
      /\ cmd'.owned = cmd.owned /\ cmd'.reviewed = cmd.reviewed /\ cmd'.plan = cmd.plan
  BY <1>2, GoesTo, StepsAre DEF Inv, TypeInv
<1>4. TypeInv'
  BY <1>1, <1>3 DEF Inv, TypeInv, runtime, history, outside
<1>5. Trusted' /\ Confined'
  BY <1>1, SameRuntime DEF runtime
<1>6. (Control /\ Emptied /\ Planned)'
  BY <1>1, <1>2, <1>3, SMT DEF Inv, Control, Emptied, Planned, runtime, outside
<1>7. (Vouched /\ Present /\ Baselined)'
  BY <1>1, <1>2, <1>3, SMT DEF Inv, Control, Vouched, Present, Baselined, Final, runtime
<1>8. Rehearsing'
  <2>1. CASE Continuing
    <3>1. cmd.pc = "match" \/ Opened
      BY <2>1 DEF Inv, Rehearsing
    <3>2. cmd.pc \in Early /\ cmd'.pc \in Early /\ Opened'
      BY <1>2, <1>3, <3>1, SMT DEF Early, Inv, Control
    <3> QED BY <1>1, <1>3, <3>2, RehearsalWaits DEF SameTask, runtime, history
  <2>2. CASE ~Continuing
    BY <1>3, <2>2 DEF Continuing, Rehearsing
  <2> QED BY <2>1, <2>2
<1> QED BY <1>4, <1>5, <1>6, <1>7, <1>8 DEF Inv

LEMMA CliStartKeeps ==
  ASSUME Inv, CliStart
  PROVE  Inv'
<1>1. /\ cmd.pc = "cliStart" /\ box' = "running" /\ Goto("noRestart")
      /\ vol' = IF vol = None THEN Fresh(cmd.gen, ~cmd.owned) ELSE vol
      /\ UNCHANGED <<work, exported, outcome, history, outside>>
      /\ cmd.gen \in Generations /\ cmd.gen = active /\ ~cmd.undo
  BY DEF CliStart, At, Inv, TypeInv, Control
<1>2. /\ cmd' \in Tasks /\ cmd'.pc = "noRestart" /\ cmd'.name = cmd.name /\ cmd'.undo = cmd.undo
      /\ cmd'.phase = cmd.phase /\ cmd'.gen = cmd.gen /\ cmd'.copied = cmd.copied
      /\ cmd'.owned = cmd.owned /\ cmd'.reviewed = cmd.reviewed /\ cmd'.plan = cmd.plan
  BY <1>1, GoesTo, StepsAre DEF Inv, TypeInv
<1>3. ASSUME NEW hollow \in BOOLEAN
      PROVE  LET v == Fresh(cmd.gen, hollow)
             IN  /\ v \in Volumes /\ v # None /\ v.gen = cmd.gen /\ v.hollow = hollow
                 /\ v.ledger = <<>> /\ Len(v.ledger) = 0 /\ ToSet(v.ledger) = {}
  <2>1. <<>> \in Seq(Texts) /\ Len(<<>>) = 0
    BY ST!EmptySeq
  <2>2. ToSet(<<>>) = {}
    BY <2>1, ST!LenProperties DEF ToSet
  <2>3. Built \in Built .. Whole
    BY DEF Built, Whole
  <2>4. Fresh(cmd.gen, hollow) \in Volumes
    BY <1>1, <2>1, <2>3 DEF Fresh, Volumes
  <2> QED BY <2>1, <2>2, <2>4, Constancy DEF Fresh
<1>4. cmd.owned \in BOOLEAN /\ (~cmd.owned) \in BOOLEAN
  BY DEF Inv, TypeInv, Tasks
<1>5. /\ vol' \in Volumes /\ vol' # None
      /\ vol = None => /\ vol'.gen = cmd.gen /\ vol'.hollow = ~cmd.owned /\ vol'.ledger = <<>>
                       /\ Len(vol'.ledger) = 0 /\ ToSet(vol'.ledger) = {}
      /\ vol # None => vol' = vol
  <2>1. CASE vol = None
    BY <1>1, <1>3, <1>4, <2>1
  <2>2. CASE vol # None
    BY <1>1, <2>2 DEF Inv, TypeInv
  <2> QED BY <2>1, <2>2
<1>6. TypeInv'
  BY <1>1, <1>2, <1>5 DEF Inv, TypeInv, history, outside
<1>7. (Control /\ Emptied /\ Planned)'
  BY <1>1, <1>2, SMT DEF Inv, Control, Emptied, Planned, outside
<1>8. cmd.owned => vol = None /\ ~Final
  BY <1>1, SMT DEF Inv, Emptied, Vouched
<1>9. ~cmd.owned => Matches(work.marker, cmd.gen)
  BY <1>1, SMT DEF Inv, Vouched
<1>10. (Trusted /\ Vouched /\ Present)'
  <2>1. Final' <=> Final
    BY <1>1 DEF Final
  <2>2. ~cmd.owned => Final /\ work.marker.gen = cmd.gen
    BY <1>1, <1>9, MarkerMatches
  <2>3. Trusted'
    <3>1. CASE vol = None /\ Final
      BY <1>1, <1>5, <1>8, <2>2, <3>1 DEF Trusted
    <3>2. CASE vol # None
      BY <1>1, <1>5, <2>1, <3>2 DEF Inv, Trusted
    <3>3. CASE ~Final
      BY <2>1, <3>3 DEF Trusted
    <3> QED BY <3>1, <3>2, <3>3
  <2>4. Vouched'
    <3>1. work'.marker = work.marker
      BY <1>1
    <3> QED BY <1>2, <1>4, <1>8, <1>9, <2>1, <3>1, SMT DEF Vouched, Matches
  <2>5. Present'
    <3>1. cmd.owned => vol'.gen = cmd.gen
      BY <1>5, <1>8
    <3> QED BY <1>2, <1>5, <3>1, SMT DEF Present
  <2> QED BY <2>3, <2>4, <2>5
<1>11. Baselined'
  <2>1. ASSUME cmd.owned
        PROVE  /\ work'.migrations = ToSet(Represented[cmd.gen])
               /\ Begins(vol'.ledger, Represented[cmd.gen])
    <3>1. Len(Represented[cmd.gen]) \in Nat
      BY <1>1, Constancy, ST!LenProperties
    <3> QED BY <1>1, <1>5, <1>8, <2>1, <3>1 DEF Inv, Baselined, Begins
  <2> QED BY <1>2, <1>5, <2>1, SMT DEF Baselined
<1>12. Confined'
  <2>1. Final' <=> Final
    BY <1>1 DEF Final
  <2> QED BY <1>1, <1>5, <2>1 DEF Inv, Confined, history
<1>13. Rehearsing'
  <2>1. CASE Continuing
    <3>1. Opened /\ vol # None
      BY <1>1, <2>1 DEF Inv, Rehearsing
    <3>2. cmd.pc \in Early /\ cmd'.pc \in Early /\ Opened'
      BY <1>1, <1>2, <3>1, SMT DEF Early
    <3> QED BY <1>1, <1>2, <1>5, <3>1, <3>2, RehearsalWaits DEF SameTask, history
  <2>2. CASE ~Continuing
    BY <1>2, <2>2 DEF Continuing, Rehearsing
  <2> QED BY <2>1, <2>2
<1> QED BY <1>6, <1>7, <1>10, <1>11, <1>12, <1>13 DEF Inv

-----------------------------------------------------------------------------
(* Applying migrations.                                                    *)

\* What the workdir may hold of a database the command works with.
LEMMA WorkIsApproved ==
  ASSUME Inv, Rebuilding \/ Opened, vol # None, cmd.pc # "copyHistory", ~raced,
         cmd.pc # "config"
  PROVE  work.migrations \subseteq ToSet(Represented[vol.gen]) \cup approved
<1>1. cmd.gen \in Generations
  BY DEF Inv, TypeInv, Control
<1>2. CASE Rebuilding
  BY <1>2 DEF Inv, Present, Baselined
<1>3. CASE Opened
  <2>1. Final /\ work.marker.gen = cmd.gen
    BY <1>1, <1>3, MarkerMatches DEF Inv, Vouched
  <2> QED BY <2>1 DEF Inv, Trusted, Confined
<1> QED BY <1>2, <1>3

LEMMA ApplyMigrationKeeps ==
  ASSUME Inv, ApplyMigration
  PROVE  Inv'
<1> DEFINE next == Head(Pending(work.migrations, vol.ledger))
<1>1. /\ cmd.pc \in {"up", "upCandidates"} /\ vol # None /\ box = "running"
      /\ Pending(work.migrations, vol.ledger) # <<>>
      /\ vol' = [vol EXCEPT !.ledger = Append(vol.ledger, next)]
      /\ UNCHANGED <<work, exported, box, cmd, outcome, history, outside>>
      /\ cmd.gen \in Generations /\ ~cmd.undo /\ vol \in Volumes
      /\ work.migrations \in SUBSET Texts /\ Listable(work.migrations)
  BY SMT DEF ApplyMigration, At, Reachable, LeftToApply, Inv, TypeInv, Control, Workdirs
<1>2. vol.ledger \in Seq(Texts) /\ vol.gen \in Generations
  BY <1>1, VolumeFields
<1>3. next \in work.migrations /\ next \in Texts
  BY <1>1, <1>2, NextOfDirectory
<1>4. Append(vol.ledger, next) \in Seq(Texts)
  BY <1>2, <1>3
<1>5. /\ vol' \in Volumes /\ vol' # None /\ vol'.gen = vol.gen /\ vol'.stage = vol.stage
      /\ vol'.hollow = vol.hollow /\ vol'.ledger = Append(vol.ledger, next)
  BY <1>1, <1>4, VolumeFields
<1>6. ToSet(vol'.ledger) = ToSet(vol.ledger) \cup {next}
  BY <1>2, <1>3, <1>5, AppendAdds
<1>7. TypeInv'
  BY <1>1, <1>5 DEF Inv, TypeInv, history, outside
<1>8. (Control /\ Emptied /\ Planned)'
  BY <1>1, SMT DEF Inv, Control, Emptied, Planned, history, outside
<1>9. (Trusted /\ Vouched /\ Present)'
  <2>1. Final' <=> Final
    BY <1>1 DEF Final
  <2>2. Trusted'
    BY <1>1, <1>5, <2>1 DEF Inv, Trusted
  <2>3. Vouched'
    BY <1>1, <2>1 DEF Inv, Vouched
  <2>4. Present'
    BY <1>1, <1>5 DEF Inv, Present
  <2> QED BY <2>2, <2>3, <2>4
<1>10. Confined'
  <2>1. Rebuilding \/ Opened
    BY <1>1 DEF Inv, Control
  <2>2. ~raced => next \in ToSet(Represented[vol.gen]) \cup approved
    BY <1>1, <1>3, <2>1, WorkIsApproved
  <2>3. Final' <=> Final
    BY <1>1 DEF Final
  <2> QED BY <1>1, <1>5, <1>6, <2>2, <2>3 DEF Inv, Confined, history
<1>11. Baselined'
  <2>1. ASSUME Rebuilding
        PROVE  cmd.pc = "up" /\ Begins(vol'.ledger, Represented[cmd.gen])
    <3>1. cmd.pc = "up"
      BY <1>1, <2>1
    <3>2. work.migrations = ToSet(Represented[cmd.gen]) /\ Begins(vol.ledger, Represented[cmd.gen])
      BY <1>1, <2>1, <3>1 DEF Inv, Baselined
    <3>3. IsHistory(Represented[cmd.gen])
      BY <1>1, Constancy
    <3>4. Begins(Append(vol.ledger, next), Represented[cmd.gen])
      BY <1>1, <1>2, <3>2, <3>3, NextOfHistory
    <3> QED BY <1>5, <3>1, <3>4
  <2> QED BY <1>1, <2>1 DEF Inv, Baselined
<1>12. Rehearsing'
  <2>1. ASSUME Continuing, ~raced, cmd.pc = "up" PROVE FALSE
    <3>1. ASSUME NEW h, IsHistory(h), Hold(h) PROVE FALSE
      BY <1>1, <3>1, NothingLeft DEF Hold
    <3>2. CASE cmd.phase = "migrate"
      <4>1. Hold(Represented[cmd.gen])
        BY <2>1, <3>2 DEF Inv, Rehearsing, Migrating, Early
      <4> QED BY <1>1, <3>1, <4>1, Constancy
    <3>3. CASE cmd.phase = "verify"
      <4>1. Fits(cmd.gen, work.receipt.plan) /\ Hold(Represented[cmd.gen] \o work.receipt.plan)
        BY <2>1, <3>3 DEF Inv, Rehearsing, Verifying
      <4> QED BY <3>1, <4>1 DEF Fits
    <3> QED BY <2>1, <3>2, <3>3 DEF Continuing
  <2>2. ASSUME Continuing, ~raced, cmd.pc = "upCandidates"
        PROVE  cmd.phase = "migrate" /\ Migrating'
    <3> DEFINE h == Represented[cmd.gen] \o cmd.plan
    <3>1. cmd.phase = "migrate" /\ IsHistory(h)
      BY <2>2 DEF Inv, Control, Planned, Fits
    <3>2. work.migrations = ToSet(h) /\ Begins(vol.ledger, h) /\ Reviewed(cmd.plan)
      BY <2>2, <3>1 DEF Inv, Rehearsing, Migrating
    <3>3. Begins(Append(vol.ledger, next), h)
      BY <1>1, <1>2, <3>1, <3>2, NextOfHistory
    <3>4. Reviewed(cmd.plan)'
      BY <1>1, <3>2 DEF Reviewed
    <3>5. work'.migrations = ToSet(h) /\ Begins(vol'.ledger, h)
      BY <1>1, <1>5, <3>2, <3>3
    <3>6. cmd' = cmd
      BY <1>1
    <3> QED BY <2>2, <3>1, <3>4, <3>5, <3>6, SMT DEF Migrating, Early
  <2>3. Continuing' <=> Continuing
    BY <1>1 DEF Continuing
  <2>4. ASSUME Continuing
        PROVE  (cmd'.pc = "match" \/ Opened') /\ Matches(work.marker, cmd.gen)'
    BY <1>1, <2>4 DEF Inv, Rehearsing, Matches
  <2> QED BY <1>1, <1>5, <2>1, <2>2, <2>3, <2>4 DEF Rehearsing, history
<1> QED BY <1>7, <1>8, <1>9, <1>10, <1>11, <1>12 DEF Inv

LEMMA AllAppliedKeeps ==
  ASSUME Inv, AllApplied
  PROVE  Inv'
<1> DEFINE pc == IF At("upCandidates") THEN "compare" ELSE "status"
<1>1. /\ cmd.pc \in {"up", "upCandidates"} /\ vol # None
      /\ Pending(work.migrations, vol.ledger) = <<>> /\ Goto(pc)
      /\ pc = IF cmd.pc = "upCandidates" THEN "compare" ELSE "status"
      /\ UNCHANGED <<runtime, outcome, history, outside>>
      /\ cmd.gen \in Generations /\ ~cmd.undo /\ vol \in Volumes
  BY SMT DEF AllApplied, At, Reachable, LeftToApply, Inv, TypeInv, Control
<1>2. cmd' \in Tasks /\ cmd'.pc = pc /\ SameTask
  BY <1>1, GoesTo, StepsAre DEF Inv, TypeInv, SameTask
<1>3. TypeInv'
  BY <1>1, <1>2 DEF Inv, TypeInv, runtime, history, outside
<1>4. Trusted' /\ Confined'
  BY <1>1, SameRuntime DEF runtime
<1>5. vol.ledger \in Seq(Texts)
  BY <1>1, VolumeFields
<1>6. ASSUME NEW h, IsHistory(h), work.migrations = ToSet(h), Begins(vol.ledger, h)
      PROVE  vol.ledger = h
  BY <1>1, <1>5, <1>6, NextOfHistory
<1>7. (Control /\ Emptied /\ Vouched /\ Present /\ Planned)'
  <2>1. Control'
    BY <1>1, <1>2, SMT DEF Inv, Control, SameTask, outside
  <2>2. Emptied'
    BY <1>1, <1>2, SMT DEF Inv, Emptied, SameTask, runtime
  <2>3. Vouched' /\ Present'
    BY <1>1, <1>2, SMT DEF Inv, Control, Vouched, Present, Final, SameTask, runtime
  <2>4. Planned'
    BY <1>1, <1>2, SMT DEF Inv, Planned, SameTask, history
  <2> QED BY <2>1, <2>2, <2>3, <2>4
<1>8. Baselined'
  <2>1. ASSUME Rebuilding'
        PROVE  Rebuilding /\ cmd.pc = "up"
    BY <1>1, <1>2, <2>1, SMT DEF SameTask
  <2>2. ASSUME Rebuilding, cmd.pc = "up"
        PROVE  /\ work.migrations = ToSet(Represented[cmd.gen])
               /\ Begins(vol.ledger, Represented[cmd.gen]) /\ vol.ledger = Represented[cmd.gen]
    <3>1. work.migrations = ToSet(Represented[cmd.gen]) /\ Begins(vol.ledger, Represented[cmd.gen])
      BY <1>1, <2>2 DEF Inv, Baselined
    <3> QED BY <1>1, <1>6, <3>1, Constancy
  <2> QED BY <1>1, <1>2, <2>1, <2>2 DEF Baselined, SameTask, runtime
<1>9. Rehearsing'
  <2>1. CASE Continuing /\ cmd.pc = "up"
    <3>1. cmd.pc \in Early /\ cmd'.pc \in Early /\ Opened'
      BY <1>1, <1>2, <2>1, SMT DEF Inv, Rehearsing, Early, SameTask
    <3> QED BY <1>1, <1>2, <3>1, RehearsalWaits DEF runtime, history
  <2>2. CASE Continuing /\ cmd.pc = "upCandidates"
    <3> DEFINE h == Represented[cmd.gen] \o cmd.plan
    <3>1. cmd.phase = "migrate" /\ IsHistory(h)
      BY <2>2 DEF Inv, Control, Planned, Fits
    <3>2. ASSUME ~raced PROVE Migrating'
      <4>1. work.migrations = ToSet(h) /\ Begins(vol.ledger, h) /\ Reviewed(cmd.plan)
        BY <2>2, <3>1, <3>2 DEF Inv, Rehearsing, Migrating
      <4>2. Hold(h)
        BY <1>6, <3>1, <4>1 DEF Hold
      <4>3. Hold(h)' /\ Reviewed(cmd.plan)' /\ h' = h
        BY <1>1, <1>2, <4>1, <4>2 DEF Hold, Reviewed, SameTask, runtime
      <4>4. cmd'.pc = "compare"
        BY <1>1, <1>2, <2>2
      <4> QED BY <4>3, <4>4, Zenon DEF Migrating, Early
    <3>3. cmd'.pc = "compare" /\ Matches(work.marker, cmd.gen)'
      BY <1>1, <1>2, <2>2 DEF Inv, Rehearsing, Matches, SameTask, runtime
    <3> QED BY <1>1, <1>2, <3>1, <3>2, <3>3 DEF Rehearsing, SameTask, runtime, history
  <2>3. CASE ~Continuing
    BY <1>2, <2>3 DEF Rehearsing, Continuing, SameTask
  <2> QED BY <1>1, <2>1, <2>2, <2>3
<1> QED BY <1>3, <1>4, <1>7, <1>8, <1>9 DEF Inv

-----------------------------------------------------------------------------
(* Restoring and marking.                                                  *)

LEMMA RestoreKeeps ==
  ASSUME Inv, RestoreSchema \/ RestoreRows \/ RestoreAssets \/ ApplyLocalRows
  PROVE  Inv'
<1>1. PICK stage \in Built .. Whole, pc \in Restoring \cup {"configure"} :
        /\ Goto(pc) /\ vol' = [vol EXCEPT !.stage = stage] /\ vol # None
        /\ cmd.pc \in Restoring /\ (pc = "configure" => stage = Whole)
        /\ UNCHANGED <<work, exported, box, outcome, history, outside>>
  <2>1. {Schema, Rows, Assets, Whole} \subseteq Built .. Whole
    BY DEF Schema, Rows, Assets, Whole, Built
  <2>2. CASE RestoreSchema
    BY <2>1, <2>2 DEF RestoreSchema, RestoreStage, At, Reachable
  <2>3. CASE RestoreRows
    BY <2>1, <2>3 DEF RestoreRows, RestoreStage, At, Reachable
  <2>4. CASE RestoreAssets
    BY <2>1, <2>4 DEF RestoreAssets, RestoreStage, At, Reachable
  <2>5. CASE ApplyLocalRows
    BY <2>1, <2>5 DEF ApplyLocalRows, RestoreStage, At, Reachable
  <2> QED BY <2>2, <2>3, <2>4, <2>5
<1>2. vol \in Volumes /\ cmd.gen \in Generations /\ cmd \in Tasks /\ pc \in Steps /\ cmd.owned
  BY <1>1, StepsAre DEF Inv, TypeInv, Control
<1>3. /\ vol' \in Volumes /\ vol' # None /\ vol'.gen = vol.gen /\ vol'.stage = stage
      /\ vol'.ledger = vol.ledger
  BY <1>1, <1>2, VolumeFields
<1>4. cmd' \in Tasks /\ cmd'.pc = pc /\ cmd'.gen = cmd.gen /\ cmd'.owned = cmd.owned
  BY <1>1, <1>2, GoesTo
<1>5. TypeInv'
  BY <1>1, <1>3, <1>4 DEF Inv, TypeInv, history, outside
<1>6. Emptied'
  BY <1>1, <1>4, SMT DEF Emptied
<1>7. ~Final'
  BY <1>1 DEF Inv, Vouched, Final
<1>8. Present'
  <2>1. vol.gen = cmd.gen
    BY <1>1 DEF Inv, Present
  <2>2. cmd'.pc \notin Marking /\ (cmd'.pc \in Finishing => cmd'.pc = "configure")
    BY <1>1, <1>4
  <2> QED BY <1>1, <1>3, <1>4, <2>1, <2>2, SMT DEF Present
<1>9. Baselined'
  <2>1. /\ work.migrations = ToSet(Represented[cmd.gen])
        /\ Begins(vol.ledger, Represented[cmd.gen]) /\ vol.ledger = Represented[cmd.gen]
    BY <1>1 DEF Inv, Baselined
  <2> QED BY <1>1, <1>3, <1>4, <2>1 DEF Baselined
<1>10. Confined'
  BY <1>1, <1>3, <1>7 DEF Inv, Confined, history
<1> QED BY <1>1, <1>5, <1>6, <1>7, <1>8, <1>9, <1>10, RebuildKeeps DEF outside

LEMMA TruncateMarkerKeeps ==
  ASSUME Inv, TruncateMarker
  PROVE  Inv'
<1>1. /\ cmd.pc = "truncate" /\ Goto("mark") /\ work' = [work EXCEPT !.marker = Torn]
      /\ UNCHANGED <<exported, box, vol, outcome, history, outside>> /\ cmd.gen \in Generations
  BY DEF TruncateMarker, At, Inv, TypeInv, Control
<1>2. Torn \in Markers /\ ~Torn.schema
  BY DEF Torn, Markers
<1>3. work' \in Workdirs /\ work'.migrations = work.migrations /\ work'.marker = Torn
  BY <1>1, <1>2, WorkFields DEF Inv, TypeInv
<1>4. cmd' \in Tasks /\ cmd'.pc = "mark" /\ cmd'.gen = cmd.gen /\ cmd'.owned = cmd.owned
  BY <1>1, GoesTo, StepsAre DEF Inv, TypeInv
<1>5. TypeInv'
  BY <1>1, <1>3, <1>4 DEF Inv, TypeInv, history, outside
<1>6. ~Final'
  BY <1>2, <1>3 DEF Final
<1>7. Emptied' /\ Confined'
  BY <1>1, <1>4, <1>6, SMT DEF Inv, Emptied, Confined, history
<1>8. Present' /\ Baselined'
  BY <1>1, <1>3, <1>4 DEF Inv, Present, Baselined
<1> QED BY <1>1, <1>5, <1>6, <1>7, <1>8, RebuildKeeps DEF outside

\* The next phase of a rehearsal looks for the marker.
LEMMA PhaseDoneGoesOn ==
  ASSUME Inv, PhaseDone, Running
  PROVE  \/ cmd' = Idle /\ outcome' = "ok" /\ Following = None
         \/ /\ cmd.name = "run" /\ outcome' = outcome /\ cmd' \in Tasks /\ cmd'.pc = "match"
            /\ \/ cmd.phase = "reset" /\ cmd'.phase = "migrate"
               \/ cmd.phase = "migrate" /\ cmd'.phase = "verify"
            /\ cmd'.name = "run" /\ cmd'.gen = cmd.gen /\ cmd'.undo = cmd.undo
            /\ cmd'.reviewed = cmd.reviewed /\ ~cmd'.owned /\ cmd'.copied = 0
<1>1. CASE Following = None
  BY <1>1 DEF PhaseDone, End
<1>2. CASE Following # None
  <2>1. /\ cmd.name = "run" /\ cmd \in Tasks
        /\ \/ cmd.phase = "reset" /\ Following = "migrate"
           \/ cmd.phase = "migrate" /\ Following = "verify"
    BY <1>2 DEF Following, Inv, Control, TypeInv, Running
  <2>2. Following \in Phases /\ "match" \in Steps /\ None \in Plans /\ 0 \in Nat
    BY <2>1 DEF Phases, Steps, Plans
  <2> QED BY <1>2, <2>1, <2>2 DEF PhaseDone, Tasks
<1> QED BY <1>1, <1>2

\* What ends a command or leads to its next phase.
LEMMA DoneKeeps ==
  ASSUME Inv, PhaseDone, Running, ~cmd.undo, active' = active,
         work' \in Workdirs, Listable(work'.migrations), vol' = vol, box' \in {"none", box},
         exported' \in BOOLEAN, UNCHANGED <<history, outside>>, Trusted', Confined',
         cmd'.name = "run" => Rehearsing'
  PROVE  Inv'
<1>1. CASE cmd' = Idle /\ outcome' = "ok"
  <2>1. TypeInv'
    BY <1>1, IdleFields DEF Inv, TypeInv, history, outside
  <2> QED BY <1>1, <2>1, EndKeeps
<1>2. CASE /\ cmd.name = "run" /\ outcome' = outcome /\ cmd' \in Tasks /\ cmd'.pc = "match"
           /\ \/ cmd.phase = "reset" /\ cmd'.phase = "migrate"
              \/ cmd.phase = "migrate" /\ cmd'.phase = "verify"
           /\ cmd'.name = "run" /\ cmd'.gen = cmd.gen /\ cmd'.undo = cmd.undo
           /\ cmd'.reviewed = cmd.reviewed /\ ~cmd'.owned /\ cmd'.copied = 0
  <2>1. TypeInv'
    BY <1>2 DEF Inv, TypeInv, history, outside
  <2>2. Control'
    BY <1>2, SMT DEF Inv, Control, Running, Commands, Phases
  <2> QED BY <1>2, <2>1, <2>2, MatchKeeps
<1> QED BY <1>1, <1>2, PhaseDoneGoesOn

LEMMA ExportEnvironmentKeeps ==
  ASSUME Inv, ExportEnvironment
  PROVE  Inv'
<1>1. /\ cmd.pc = "export" /\ vol # None /\ exported' = TRUE /\ cmd.gen \in Generations
      /\ UNCHANGED <<work, box, vol, history, outside>> /\ ~cmd.undo /\ cmd \in Tasks
  BY SMT DEF ExportEnvironment, At, Reachable, Inv, TypeInv, Control
<1>2. Trusted' /\ Confined'
  BY <1>1, SameRuntime
<1>3. CASE cmd.owned /\ Goto("truncate") /\ UNCHANGED outcome
  <2>1. cmd' \in Tasks /\ cmd'.pc = "truncate" /\ cmd'.gen = cmd.gen /\ cmd'.owned = cmd.owned
    BY <1>1, <1>3, GoesTo, StepsAre
  <2>2. TypeInv'
    BY <1>1, <1>3, <2>1 DEF Inv, TypeInv, history, outside
  <2>3. Emptied' /\ ~Final'
    BY <1>1, <1>3, <2>1, SMT DEF Inv, Emptied, Vouched, Final
  <2>4. Present' /\ Baselined'
    BY <1>1, <1>3, <2>1 DEF Inv, Present, Baselined
  <2> QED BY <1>1, <1>2, <1>3, <2>2, <2>3, <2>4, RebuildKeeps DEF outside
<1>4. CASE /\ ~cmd.owned /\ cmd.phase \in {"verify", "migrate"} /\ UNCHANGED outcome
           /\ cmd' = [cmd EXCEPT !.pc = "read", !.owned = FALSE]
  <2>1. cmd' \in Tasks /\ cmd'.pc = "read" /\ SameTask
    BY <1>1, <1>4 DEF Tasks, Steps, SameTask
  <2>2. TypeInv'
    BY <1>1, <1>4, <2>1 DEF Inv, TypeInv, history, outside
  <2>3. (Control /\ Emptied /\ Vouched /\ Present /\ Baselined /\ Planned)'
    <3>1. Control'
      BY <1>1, <1>4, <2>1, SMT DEF Inv, Control, SameTask, outside
    <3>2. Emptied' /\ Baselined' /\ Planned'
      BY <1>1, <1>4, <2>1, SMT DEF Inv, Emptied, Baselined, Planned, SameTask
    <3>3. Vouched' /\ Present'
      BY <1>1, <1>4, <2>1, SMT DEF Inv, Vouched, Present, Final, SameTask
    <3> QED BY <3>1, <3>2, <3>3
  <2>4. cmd.pc \in Early /\ cmd'.pc \in Early /\ Opened'
    BY <1>1, <2>1 DEF Early
  <2> QED BY <1>1, <1>2, <2>1, <2>2, <2>3, <2>4, RehearsalWaits DEF Inv, history
<1>5. CASE ~cmd.owned /\ cmd.phase \notin {"verify", "migrate"} /\ PhaseDone
  <2>1. Running /\ cmd.name # "run"
    BY <1>1, <1>5 DEF Inv, Control, Running
  <2>2. cmd' = Idle
    BY <1>5, <2>1, PhaseDoneGoesOn
  <2>3. cmd'.name # "run"
    BY <2>2, IdleFields, Constancy DEF Commands
  <2> QED BY <1>1, <1>2, <1>5, <2>1, <2>3, DoneKeeps DEF Inv, TypeInv, outside
<1> QED BY <1>3, <1>4, <1>5 DEF ExportEnvironment, AfterStart

LEMMA WriteMarkerKeeps ==
  ASSUME Inv, WriteMarker
  PROVE  Inv'
<1> DEFINE m == [gen |-> cmd.gen, schema |-> TRUE]
<1>1. /\ cmd.pc = "mark" /\ work' = [work EXCEPT !.marker = m] /\ cmd \in Tasks
      /\ UNCHANGED <<exported, box, vol, history, outside>> /\ cmd.gen \in Generations
      /\ ~cmd.undo /\ cmd.owned /\ cmd.copied = 0
  BY SMT DEF WriteMarker, At, Inv, TypeInv, Control, Planned
<1>2. /\ vol # None /\ vol.gen = cmd.gen /\ vol.stage = Whole
      /\ work.migrations = ToSet(Represented[cmd.gen]) /\ vol.ledger = Represented[cmd.gen]
  BY <1>1 DEF Inv, Present, Baselined
<1>3. m \in Markers
  BY <1>1 DEF Markers
<1>4. /\ work' \in Workdirs /\ work'.migrations = work.migrations /\ work'.marker = m
  BY <1>1, <1>3, WorkFields DEF Inv, TypeInv
<1>5. Matches(work'.marker, cmd.gen) /\ work'.marker.gen = cmd.gen
  BY <1>4 DEF Matches
<1>6. Trusted' /\ Confined'
  BY <1>1, <1>2, <1>4, <1>5 DEF Trusted, Confined
<1>7. ~Continuing
  BY <1>1 DEF Inv, Rehearsing
<1>8. CASE /\ cmd.phase \in {"verify", "migrate"} /\ UNCHANGED outcome
           /\ cmd' = [cmd EXCEPT !.pc = "read", !.owned = FALSE]
  <2>1. /\ cmd' \in Tasks /\ cmd'.pc = "read" /\ cmd'.name = cmd.name /\ cmd'.phase = cmd.phase
        /\ cmd'.undo = cmd.undo /\ cmd'.gen = cmd.gen /\ cmd'.copied = cmd.copied /\ ~cmd'.owned
    BY <1>1, <1>8 DEF Tasks, Steps
  <2>2. TypeInv'
    BY <1>1, <1>4, <1>8, <2>1 DEF Inv, TypeInv, history, outside
  <2>3. Control'
    BY <1>1, <1>8, <2>1, SMT DEF Inv, Control, outside
  <2>4. (Emptied /\ Baselined /\ Planned)'
    BY <1>1, <1>8, <2>1, SMT DEF Emptied, Baselined, Planned
  <2>5. (Vouched /\ Present)'
    BY <1>1, <1>2, <1>5, <2>1, SMT DEF Vouched, Present, Matches
  <2>6. ~Continuing'
    BY <1>7, <2>1 DEF Continuing
  <2> QED BY <1>6, <2>2, <2>3, <2>4, <2>5, <2>6 DEF Inv, Rehearsing
<1>9. CASE cmd.phase \notin {"verify", "migrate"} /\ PhaseDone
  <2>1. Running
    BY <1>1 DEF Running
  <2>2. ASSUME cmd'.name = "run" PROVE Rehearsing'
    <3>1. cmd' # Idle
      BY <2>2, IdleFields, Constancy DEF Commands
    <3>2. cmd'.pc = "match" /\ cmd'.phase = "migrate" /\ cmd'.gen = cmd.gen
      BY <1>9, <2>1, <3>1, PhaseDoneGoesOn
    <3>3. Hold(Represented[cmd.gen])'
      BY <1>1, <1>2, <1>4, <3>2 DEF Hold
    <3>4. Migrating'
      BY <3>2, <3>3, Zenon DEF Migrating
    <3>5. vol' # None /\ Matches(work'.marker, cmd'.gen)
      BY <1>1, <1>2, <1>5, <3>2
    <3> QED BY <3>2, <3>4, <3>5 DEF Rehearsing
  <2> QED BY <1>1, <1>4, <1>6, <1>9, <2>1, <2>2, DoneKeeps DEF Inv, TypeInv, outside
<1> QED BY <1>8, <1>9 DEF WriteMarker, AfterStart

-----------------------------------------------------------------------------
(* Migrating and verifying.                                                *)

LEMMA ReadPlanKeeps ==
  ASSUME Inv, ReadPlan
  PROVE  Inv'
<1> DEFINE plan == PlanOf(cmd.gen, files)
           pc == CASE cmd.phase = "verify" -> "compare"
                   [] OTHER -> IF plan = <<>> THEN "receipt" ELSE "confirm"
<1>1. /\ cmd.pc = "read" /\ plan # None /\ cmd' = [cmd EXCEPT !.plan = plan, !.pc = pc]
      /\ UNCHANGED <<runtime, outcome, history, outside>> /\ cmd \in Tasks
      /\ ~cmd.undo /\ ~cmd.owned /\ cmd.phase \in {"verify", "migrate"} /\ cmd.copied = 0
      /\ cmd.gen \in Generations /\ files \in Directories
  BY SMT DEF ReadPlan, At, Inv, TypeInv, Control, Planned
<1>2. plan \in Plans /\ Fits(cmd.gen, plan)
  BY <1>1, PlansFit
<1>3. /\ cmd.phase = "verify" => pc = "compare"
      /\ cmd.phase = "migrate" /\ plan = <<>> => pc = "receipt"
      /\ cmd.phase = "migrate" /\ plan # <<>> => pc = "confirm"
  OBVIOUS
<1>4. pc \in {"compare", "receipt", "confirm"} /\ pc \in Steps
  BY StepsAre
<1>5. /\ cmd' \in Tasks /\ cmd'.pc = pc /\ cmd'.plan = plan /\ cmd'.name = cmd.name
      /\ cmd'.phase = cmd.phase /\ cmd'.undo = cmd.undo /\ cmd'.gen = cmd.gen
      /\ cmd'.copied = cmd.copied /\ cmd'.owned = cmd.owned /\ cmd'.reviewed = cmd.reviewed
  BY <1>1, <1>2, <1>4 DEF Tasks
<1>6. TypeInv'
  BY <1>1, <1>5 DEF Inv, TypeInv, runtime, history, outside
<1>7. Trusted' /\ Confined'
  BY <1>1, SameRuntime DEF runtime
<1>8. (Control /\ Emptied /\ Vouched /\ Present /\ Baselined /\ Planned)'
  <2>1. Control'
    BY <1>1, <1>3, <1>4, <1>5, SMT DEF Inv, Control, outside
  <2>2. Emptied' /\ Baselined'
    BY <1>1, <1>4, <1>5, SMT DEF Emptied, Baselined
  <2>3. Vouched' /\ Present'
    BY <1>1, <1>4, <1>5, SMT DEF Inv, Vouched, Present, Final, runtime
  <2>4. Planned'
    BY <1>1, <1>2, <1>3, <1>4, <1>5 DEF Planned
  <2> QED BY <2>1, <2>2, <2>3, <2>4
<1>9. ASSUME Continuing PROVE Rehearsing'
  <2>1. vol' # None /\ Matches(work'.marker, cmd'.gen) /\ Opened'
    BY <1>1, <1>4, <1>5, <1>9 DEF Inv, Rehearsing, runtime
  <2>2. ASSUME ~raced, cmd.phase = "migrate" PROVE Migrating'
    <3>1. Hold(Represented[cmd.gen])
      BY <1>1, <1>9, <2>2 DEF Inv, Rehearsing, Migrating, Early
    <3>2. Hold(Represented[cmd.gen])'
      BY <1>1, <1>5, <3>1 DEF Hold, runtime
    <3>3. CASE plan = <<>>
      <4>1. Represented[cmd.gen] \o plan = Represented[cmd.gen]
        BY <1>1, <3>3, NothingTaken
      <4>2. Hold(Represented[cmd.gen] \o cmd.plan)' /\ Reviewed(cmd.plan)'
        BY <1>5, <3>2, <3>3, <4>1 DEF Hold, Reviewed
      <4>3. cmd'.pc = "receipt"
        BY <1>3, <1>5, <2>2, <3>3
      <4> QED BY <3>2, <4>2, <4>3, Zenon DEF Migrating, Early
    <3>4. CASE plan # <<>>
      <4>1. cmd'.pc = "confirm" /\ cmd'.gen = cmd.gen
        BY <1>3, <1>5, <2>2, <3>4
      <4> QED BY <3>2, <4>1, Zenon DEF Migrating
    <3> QED BY <3>3, <3>4
  <2>3. Verifying => Verifying'
    BY <1>1, <1>5 DEF Verifying, Hold, Reviewed, runtime
  <2> QED BY <1>1, <1>5, <1>9, <2>1, <2>2, <2>3 DEF Inv, Rehearsing, history
<1>10. Rehearsing'
  <2>1. ~Continuing => ~Continuing'
    BY <1>5 DEF Continuing
  <2> QED BY <1>9, <2>1 DEF Rehearsing
<1> QED BY <1>6, <1>7, <1>8, <1>10 DEF Inv

LEMMA ConfirmPlanKeeps ==
  ASSUME Inv, ConfirmPlan
  PROVE  Inv'
<1>1. /\ cmd.pc = "confirm" /\ cmd.reviewed = cmd.plan
      /\ approved' = approved \cup ToSet(cmd.reviewed)
      /\ cmd' = [cmd EXCEPT !.pc = "copy", !.owned = TRUE]
      /\ UNCHANGED <<runtime, outcome, raced, outside>> /\ cmd \in Tasks
      /\ ~cmd.undo /\ cmd.phase = "migrate" /\ cmd.copied = 0
      /\ cmd.gen \in Generations
  BY SMT DEF ConfirmPlan, Confirmed, At, Inv, TypeInv, Control, Planned
<1>2. /\ cmd' \in Tasks /\ cmd'.pc = "copy" /\ cmd'.plan = cmd.plan /\ cmd'.name = cmd.name
      /\ cmd'.phase = cmd.phase /\ cmd'.undo = cmd.undo /\ cmd'.gen = cmd.gen
      /\ cmd'.copied = cmd.copied /\ cmd'.owned /\ cmd'.reviewed = cmd.reviewed
  BY <1>1 DEF Tasks, Steps
<1>3. TypeInv'
  BY <1>1, <1>2 DEF Inv, TypeInv, runtime, outside
<1>4. Trusted' /\ Confined'
  BY <1>1 DEF Inv, Trusted, Confined, Final, runtime
<1>5. (Control /\ Emptied /\ Vouched /\ Present /\ Baselined)'
  <2>1. Control'
    BY <1>1, <1>2, SMT DEF Inv, Control, outside
  <2>2. Emptied' /\ Baselined'
    BY <1>1, <1>2, SMT DEF Emptied, Baselined
  <2>3. Vouched' /\ Present'
    BY <1>1, <1>2, SMT DEF Inv, Vouched, Present, Final, runtime
  <2> QED BY <2>1, <2>2, <2>3
<1>6. Planned'
  <2>1. Fits(cmd.gen, cmd.plan) /\ cmd.plan # <<>>
    BY <1>1 DEF Inv, Planned
  <2>2. 0 < Len(cmd.plan)
    BY <2>1, ST!EmptySeq DEF Fits
  <2> QED BY <1>1, <1>2, <2>1, <2>2 DEF Planned
<1>7. Rehearsing'
  <2>1. CASE Continuing
    <3>1. vol' # None /\ Matches(work'.marker, cmd'.gen) /\ Opened'
      BY <1>1, <1>2, <2>1 DEF Inv, Rehearsing, runtime
    <3>2. ASSUME ~raced PROVE Migrating'
      <4>1. Hold(Represented[cmd.gen])
        BY <1>1, <2>1, <3>2 DEF Inv, Rehearsing, Migrating, Early
      <4>2. cmd'.plan = cmd'.reviewed /\ Copied' = {}
        BY <1>1, <1>2 DEF Copied
      <4>3. /\ work'.migrations = ToSet(Represented[cmd'.gen]) \cup Copied'
            /\ vol'.ledger = Represented[cmd'.gen]
        BY <1>1, <1>2, <4>1, <4>2 DEF Hold, runtime
      <4>4. cmd'.pc = "copy" /\ "copy" \notin Early
        BY <1>2 DEF Early
      <4> QED BY <4>2, <4>3, <4>4 DEF Migrating, Reviewed
    <3> QED BY <1>1, <1>2, <3>1, <3>2 DEF Rehearsing
  <2>2. CASE ~Continuing
    BY <1>2, <2>2 DEF Rehearsing, Continuing
  <2> QED BY <2>1, <2>2
<1> QED BY <1>3, <1>4, <1>5, <1>6, <1>7 DEF Inv

LEMMA CopyCandidateKeeps ==
  ASSUME Inv, CopyCandidate
  PROVE  Inv'
<1> DEFINE k == cmd.copied + 1
           pc == IF k = Len(cmd.plan) THEN "upCandidates" ELSE "copy"
<1>1. /\ cmd.pc = "copy" /\ cmd' = [cmd EXCEPT !.copied = k, !.pc = pc]
      /\ UNCHANGED <<exported, box, vol, outcome, approved, outside>> /\ cmd \in Tasks
      /\ ~cmd.undo /\ cmd.owned /\ cmd.phase = "migrate" /\ cmd.copied \in Nat
      /\ cmd.gen \in Generations /\ files \in Directories
  BY SMT DEF CopyCandidate, At, Inv, TypeInv, Control, Tasks
<1>2. PICK file \in files :
        /\ work' = [work EXCEPT !.migrations = CopyOver(work.migrations, {file})]
        /\ raced' = (raced \/ file # cmd.plan[k])
  BY DEF CopyCandidate, Candidate
<1>3. /\ Fits(cmd.gen, cmd.plan) /\ ToSet(cmd.plan) \subseteq approved
      /\ cmd.copied < Len(cmd.plan)
  BY <1>1 DEF Inv, Planned
<1>4. /\ Len(cmd.plan) \in Nat /\ DOMAIN cmd.plan = 1 .. Len(cmd.plan)
      /\ k \in 1 .. Len(cmd.plan) /\ cmd.plan[k] \in approved
  <2>1. Len(cmd.plan) \in Nat /\ DOMAIN cmd.plan = 1 .. Len(cmd.plan)
    BY <1>1, <1>3, PlanShape
  <2>2. k \in 1 .. Len(cmd.plan)
    BY <1>1, <1>3, <2>1
  <2> QED BY <1>3, <2>1, <2>2 DEF ToSet
<1>5. /\ pc \in {"upCandidates", "copy"} /\ pc \in Steps
      /\ pc = "copy" => k < Len(cmd.plan)
      /\ pc = "upCandidates" => k = Len(cmd.plan)
  BY <1>4, StepsAre
<1>6. /\ cmd' \in Tasks /\ cmd'.pc = pc /\ cmd'.plan = cmd.plan /\ cmd'.name = cmd.name
      /\ cmd'.phase = cmd.phase /\ cmd'.undo = cmd.undo /\ cmd'.gen = cmd.gen
      /\ cmd'.copied = k /\ cmd'.owned = cmd.owned /\ cmd'.reviewed = cmd.reviewed
  <2>1. k \in Nat
    BY <1>1
  <2>2. ASSUME NEW n \in Nat, NEW step \in Steps, cmd' = [cmd EXCEPT !.copied = n, !.pc = step]
        PROVE  /\ cmd' \in Tasks /\ cmd'.pc = step /\ cmd'.plan = cmd.plan
               /\ cmd'.name = cmd.name /\ cmd'.phase = cmd.phase /\ cmd'.undo = cmd.undo
               /\ cmd'.gen = cmd.gen /\ cmd'.copied = n /\ cmd'.owned = cmd.owned
               /\ cmd'.reviewed = cmd.reviewed
    BY <1>1, <2>2 DEF Tasks
  <2> HIDE DEF k, pc
  <2> QED BY <1>1, <1>5, <2>1, <2>2
<1>7. /\ work' \in Workdirs /\ Listable(work'.migrations) /\ work'.marker = work.marker
      /\ work'.migrations = CopyOver(work.migrations, {file})
      /\ work'.migrations \subseteq work.migrations \cup {file}
  <2>1. work \in Workdirs /\ work.migrations \in SUBSET Texts /\ Listable(work.migrations)
    BY DEF Inv, TypeInv, Workdirs
  <2>2. file \in Texts /\ Listable({file})
    BY <1>1, <1>2, Constancy, FilesList
  <2>3. CopyOver(work.migrations, {file}) \subseteq work.migrations \cup {file}
    BY DEF CopyOver
  <2>4. CopyOver(work.migrations, {file}) \in SUBSET Texts
    BY <2>1, <2>2, <2>3
  <2>5. Listable(CopyOver(work.migrations, {file}))
    BY <2>1, <2>2, CopyLists
  <2> QED BY <1>2, <2>1, <2>3, <2>4, <2>5, WorkFields
<1>8. raced' \in BOOLEAN /\ (~raced' => ~raced /\ file = cmd.plan[k])
  BY <1>2 DEF Inv, TypeInv
<1>9. TypeInv'
  BY <1>1, <1>6, <1>7, <1>8 DEF Inv, TypeInv, outside
<1>10. Trusted' /\ Confined'
  <2>1. Final' <=> Final
    BY <1>7 DEF Final
  <2>2. Trusted'
    BY <1>1, <1>7, <2>1 DEF Inv, Trusted
  <2>3. Confined'
    BY <1>1, <1>4, <1>7, <1>8, <2>1 DEF Inv, Confined
  <2> QED BY <2>2, <2>3
<1>11. (Control /\ Emptied /\ Vouched /\ Present /\ Baselined)'
  <2>1. Control'
    BY <1>1, <1>5, <1>6, SMT DEF Inv, Control, outside
  <2>2. Emptied' /\ Baselined'
    BY <1>1, <1>5, <1>6, SMT DEF Emptied, Baselined
  <2>3. Vouched' /\ Present'
    BY <1>1, <1>5, <1>6, <1>7, SMT DEF Inv, Vouched, Present
  <2> QED BY <2>1, <2>2, <2>3
<1>12. Planned'
  BY <1>1, <1>3, <1>5, <1>6 DEF Planned
<1>13. Rehearsing'
  <2>1. CASE Continuing
    <3>1. vol' # None /\ Matches(work'.marker, cmd'.gen) /\ Opened'
      BY <1>1, <1>5, <1>6, <1>7, <2>1 DEF Inv, Rehearsing
    <3>2. ASSUME ~raced' PROVE Migrating'
      <4> DEFINE r == Represented[cmd.gen]
                 taken(i) == ToSet(r) \cup {cmd.plan[j] : j \in 1 .. i}
      <4>1. /\ work.migrations = taken(cmd.copied) /\ vol.ledger = r /\ Reviewed(cmd.plan)
        BY <1>1, <1>8, <2>1, <3>2 DEF Inv, Rehearsing, Migrating, Copied
      <4>2. /\ CopyOver(taken(cmd.copied), {cmd.plan[k]}) = taken(k)
            /\ k = Len(cmd.plan) => taken(k) = ToSet(r \o cmd.plan)
        BY <1>1, <1>3, CopyAddsNext
      <4>3. work'.migrations = taken(k) /\ vol'.ledger = r
        BY <1>1, <1>7, <1>8, <3>2, <4>1, <4>2
      <4>4. Reviewed(cmd.plan)'
        BY <1>6, <4>1 DEF Reviewed
      <4>5. CASE pc = "copy"
        <5>1. work'.migrations = ToSet(Represented[cmd'.gen]) \cup Copied'
          BY <1>6, <4>3 DEF Copied
        <5>2. vol'.ledger = Represented[cmd'.gen] /\ cmd'.pc = "copy" /\ "copy" \notin Early
          BY <1>6, <4>3, <4>5 DEF Early
        <5> QED BY <4>4, <5>1, <5>2 DEF Migrating
      <4>6. CASE pc = "upCandidates"
        <5>1. work'.migrations = ToSet(Represented[cmd'.gen] \o cmd'.plan)
          BY <1>5, <1>6, <4>2, <4>3, <4>6
        <5>2. Begins(r, r \o cmd.plan)
          BY <1>1, <1>3, BeginsWhole
        <5>3. /\ Begins(vol'.ledger, Represented[cmd'.gen] \o cmd'.plan)
              /\ cmd'.pc = "upCandidates" /\ "upCandidates" \notin Early
          BY <1>6, <4>3, <4>6, <5>2 DEF Early
        <5> QED BY <4>4, <5>1, <5>3 DEF Migrating
      <4> QED BY <1>5, <4>5, <4>6
    <3> QED BY <1>1, <1>6, <3>1, <3>2 DEF Rehearsing
  <2>2. CASE ~Continuing
    BY <1>6, <2>2 DEF Rehearsing, Continuing
  <2> QED BY <2>1, <2>2
<1> QED BY <1>9, <1>10, <1>11, <1>12, <1>13 DEF Inv

LEMMA CompareHistoryKeeps ==
  ASSUME Inv, CompareHistory
  PROVE  Inv'
<1>1. PICK pc \in {"prove", "receipt"} :
        /\ cmd.pc = "compare" /\ Goto(pc) /\ UNCHANGED <<runtime, outcome, history, outside>>
        /\ (pc = "prove" <=> cmd.phase = "verify") /\ ~cmd.undo
  BY SMT DEF CompareHistory, At, Inv, Control
<1>2. cmd' \in Tasks /\ cmd'.pc = pc /\ SameTask
  BY <1>1, GoesTo, StepsAre DEF Inv, TypeInv, SameTask
<1>3. TypeInv'
  BY <1>1, <1>2 DEF Inv, TypeInv, runtime, history, outside
<1>4. Trusted' /\ Confined'
  BY <1>1, SameRuntime DEF runtime
<1>5. (Control /\ Emptied /\ Vouched /\ Present /\ Baselined /\ Planned)'
  <2>1. Control'
    BY <1>1, <1>2, SMT DEF Inv, Control, SameTask, outside
  <2>2. Emptied' /\ Baselined'
    BY <1>1, <1>2, SMT DEF Emptied, Baselined, SameTask
  <2>3. Vouched' /\ Present'
    BY <1>1, <1>2, SMT DEF Inv, Vouched, Present, Final, SameTask, runtime
  <2>4. Planned'
    BY <1>1, <1>2, SMT DEF Inv, Planned, SameTask
  <2> QED BY <2>1, <2>2, <2>3, <2>4
<1>6. Rehearsing'
  <2>1. CASE Continuing
    <3>1. vol' # None /\ Matches(work'.marker, cmd'.gen) /\ Opened'
      BY <1>1, <1>2, <2>1 DEF Inv, Rehearsing, SameTask, runtime
    <3>2. ASSUME ~raced, cmd.phase = "migrate" PROVE Migrating'
      <4>1. Hold(Represented[cmd.gen] \o cmd.plan) /\ Reviewed(cmd.plan)
        BY <1>1, <2>1, <3>2 DEF Inv, Rehearsing, Migrating
      <4>2. Hold(Represented[cmd.gen] \o cmd.plan)' /\ Reviewed(cmd.plan)'
        BY <1>1, <1>2, <4>1 DEF Hold, Reviewed, SameTask, runtime
      <4>3. cmd'.pc = "receipt" /\ "receipt" \notin Early
        BY <1>1, <1>2, <3>2 DEF Early
      <4> QED BY <4>2, <4>3 DEF Migrating
    <3>3. Verifying => Verifying'
      BY <1>1, <1>2 DEF Verifying, Hold, Reviewed, SameTask, runtime
    <3> QED BY <1>1, <1>2, <2>1, <3>1, <3>2, <3>3 DEF Inv, Rehearsing, SameTask, history
  <2>2. CASE ~Continuing
    BY <1>2, <2>2 DEF Rehearsing, Continuing, SameTask
  <2> QED BY <2>1, <2>2
<1> QED BY <1>3, <1>4, <1>5, <1>6 DEF Inv

LEMMA VerifyProjectKeeps ==
  ASSUME Inv, VerifyProject
  PROVE  Inv' /\ cmd' = Idle
<1>1. /\ cmd.pc = "prove" /\ PhaseDone /\ UNCHANGED <<runtime, history, outside>>
      /\ cmd.phase = "verify" /\ Running
  BY SMT DEF VerifyProject, At, Inv, Control, Running
<1>2. cmd' = Idle /\ outcome' = "ok"
  BY <1>1, PhaseDoneGoesOn
<1>3. TypeInv' /\ Trusted' /\ Confined'
  BY <1>1, <1>2, IdleFields, SameRuntime DEF Inv, TypeInv, runtime, history, outside
<1> QED BY <1>2, <1>3, EndKeeps

LEMMA WriteReceiptKeeps ==
  ASSUME Inv, WriteReceipt
  PROVE  Inv'
<1> DEFINE receipt == [gen |-> cmd.gen, plan |-> cmd.plan]
<1>1. /\ cmd.pc = "receipt" /\ PhaseDone /\ work' = [work EXCEPT !.receipt = receipt]
      /\ UNCHANGED <<exported, box, vol, history, outside>>
      /\ cmd.phase = "migrate" /\ ~cmd.undo /\ Running /\ cmd.gen \in Generations
  BY SMT DEF WriteReceipt, At, Inv, TypeInv, Control, Running
<1>2. Fits(cmd.gen, cmd.plan)
  BY <1>1 DEF Inv, Planned
<1>3. receipt \in Receipts
  BY <1>1, <1>2 DEF Receipts, Plans, Fits
<1>4. /\ work' \in Workdirs /\ work'.migrations = work.migrations /\ work'.marker = work.marker
      /\ work'.receipt.plan = cmd.plan /\ Listable(work'.migrations)
  BY <1>1, <1>3, WorkFields DEF Inv, TypeInv
<1>5. Trusted' /\ Confined'
  BY <1>1, <1>4 DEF Inv, Trusted, Confined, Final, history
<1>6. ASSUME cmd'.name = "run" PROVE Rehearsing'
  <2>1. cmd' # Idle
    BY <1>6, IdleFields, Constancy DEF Commands
  <2>2. /\ cmd.name = "run" /\ cmd'.pc = "match" /\ cmd'.phase = "verify" /\ cmd'.gen = cmd.gen
        /\ cmd'.reviewed = cmd.reviewed
    BY <1>1, <2>1, PhaseDoneGoesOn
  <2>3. Continuing
    BY <1>1, <2>2 DEF Continuing
  <2>4. vol' # None /\ Matches(work'.marker, cmd'.gen)
    BY <1>1, <1>4, <2>2, <2>3 DEF Inv, Rehearsing
  <2>5. ASSUME ~raced PROVE Verifying'
    <3>1. Hold(Represented[cmd.gen] \o cmd.plan) /\ Reviewed(cmd.plan)
      BY <1>1, <2>3, <2>5 DEF Inv, Rehearsing, Migrating
    <3> QED BY <1>1, <1>2, <1>4, <2>2, <3>1 DEF Verifying, Hold, Reviewed
  <2> QED BY <1>1, <2>2, <2>4, <2>5 DEF Rehearsing, history
<1> QED BY <1>1, <1>4, <1>5, <1>6, DoneKeeps DEF Inv, TypeInv, outside

LEMMA StopKeeps ==
  ASSUME Inv, Stop
  PROVE  Inv'
<1>1. /\ cmd.pc = "stop" /\ PhaseDone /\ UNCHANGED <<work, exported, vol, history, outside>>
      /\ box' \in {"none", box} /\ cmd.phase = "stop" /\ ~cmd.undo /\ Running
      /\ cmd.name # "run"
  BY SMT DEF Stop, At, Inv, Control, Running
<1>2. cmd' = Idle
  BY <1>1, PhaseDoneGoesOn
<1>3. Trusted' /\ Confined' /\ cmd'.name # "run"
  BY <1>1, <1>2, SameRuntime, IdleFields, Constancy DEF Commands
<1> QED BY <1>1, <1>3, DoneKeeps DEF Inv, TypeInv, outside

-----------------------------------------------------------------------------
(* The theorems.                                                           *)

LEMMA InitHolds == Init => Inv
<1> SUFFICES ASSUME Init PROVE Inv
  OBVIOUS
<1>1. /\ cmd = Idle /\ work = EmptyWork /\ vol = None /\ ~raced
      /\ work.marker = None
  BY EmptyWorkFields DEF Init
<1>2. TypeInv
  <2>1. trouble \in 0 .. MaxTrouble
    BY Constancy DEF Init
  <2>2. active \in Generations /\ files \in Directories
    BY DEF Init
  <2> QED BY <1>1, <2>1, <2>2, IdleFields, EmptyWorkFields DEF Init, TypeInv
<1>3. Control /\ Emptied /\ Vouched /\ Present
  BY <1>1, IdleFields, Constancy, SMT DEF Control, Emptied, Vouched, Present, Commands
<1>4. Baselined /\ Planned /\ Rehearsing
  BY <1>1, IdleFields, Constancy, SMT
    DEF Baselined, Planned, Rehearsing, Continuing, Commands
<1>5. Trusted /\ Confined
  BY <1>1 DEF Trusted, Confined, Final
<1> QED BY <1>2, <1>3, <1>4, <1>5 DEF Inv

LEMMA StepKeeps == Inv /\ [Next]_vars => Inv'
<1> SUFFICES ASSUME Inv, [Next]_vars PROVE Inv'
  OBVIOUS
<1>1. ASSUME NEW name \in Commands, Begin(name) PROVE Inv'
  BY <1>1, BeginKeeps
<1>2. CASE Fail
  BY <1>2, FailKeeps
<1>3. CASE RemoveRuntime
  BY <1>3, LookForRuntimeKeeps, ResourcesRemovedKeeps, RemovePartKeeps, WorkIsGoneKeeps
     DEF RemoveRuntime
<1>4. CASE Prepare
  BY <1>4, WriteConfigurationKeeps, CopyHistoryKeeps, WritePreliminaryMarkerKeeps
    DEF Prepare
<1>5. CASE Start
  BY <1>5, MatchMarkerKeeps, CliStartKeeps, LooksKeep, ApplyMigrationKeeps,
     AllAppliedKeeps,
     ExportEnvironmentKeeps DEF Start
<1>6. CASE Restore
  BY <1>6, RestoreKeeps, LooksKeep, TruncateMarkerKeeps, WriteMarkerKeeps DEF Restore
<1>7. CASE Migrate
  BY <1>7, ReadPlanKeeps, ConfirmPlanKeeps, CopyCandidateKeeps, CompareHistoryKeeps,
     WriteReceiptKeeps, VerifyProjectKeeps DEF Migrate
<1>8. CASE Stop
  BY <1>8, StopKeeps
<1>9. CASE Others
  BY <1>9, KillKeeps, EngineStopsKeeps, PruneKeeps, DeleteWorkdirKeeps,
     EditMigrationsKeeps,
     RefreshBaselineKeeps DEF Others
<1>10. CASE UNCHANGED vars
  <2>1. TypeInv' /\ Control' /\ Emptied'
    BY <1>10 DEF Inv, TypeInv, Control, Emptied, vars
  <2> QED BY <1>10, <2>1, SameCommand DEF Inv, vars, history
<1> QED BY <1>1, <1>2, <1>3, <1>4, <1>5, <1>6, <1>7, <1>8, <1>9, <1>10 DEF Next

\* The invariant holds of every behaviour, whatever fails, is killed, pruned or
\* edited between two steps of a command.
THEOREM Invariant == Spec => []Inv
BY InitHolds, StepKeeps, PTL DEF Spec

\* Every variable keeps its type: workdir, marker, volume and command are what
\* the code writes and reads.
THEOREM TypeCorrect == Spec => []TypeOK
<1>1. Inv => TypeOK
  <2> SUFFICES ASSUME Inv PROVE TypeOK
    OBVIOUS
  <2>1. DOMAIN work = PartsOfWork
    BY DEF Inv, TypeInv, Workdirs, PartsOfWork, EmptyWork
  <2> QED BY <2>1 DEF Inv, TypeInv, TypeOK, Workdirs, Tasks, Listable
<1> QED BY <1>1, Invariant, PTL

\* The steps a command can end well with.
LEMMA Ending ==
  ASSUME Inv, Next, cmd' = Idle, outcome' = "ok", cmd # Idle
  PROVE  \/ WorkIsGone /\ cmd.phase = "discard" /\ ~cmd.undo
         \/ /\ PhaseDone /\ Following = None /\ UNCHANGED <<vol, active>>
            /\ \/ (ExportEnvironment \/ WriteMarker) /\ cmd.phase \notin {"verify", "migrate"}
               \/ VerifyProject \/ WriteReceipt \/ Stop
<1>1. cmd.pc # "idle" /\ cmd \in Tasks /\ Running
  BY SMT DEF Inv, TypeInv, Control, Running
<1>2. ASSUME NEW pc, pc # "idle", Goto(pc) PROVE FALSE
  BY <1>1, <1>2, IdleFields DEF Goto, Tasks
<1>3. PhaseDone => Following = None
  <2>1. ASSUME NEW phase, cmd' = [cmd EXCEPT !.phase = phase, !.pc = "match", !.owned = FALSE,
                                             !.plan = None, !.copied = 0]
        PROVE  FALSE
    BY <1>1, <2>1, IdleFields DEF Tasks
  <2> QED BY <2>1 DEF PhaseDone
<1>4. ~\E name \in Commands : Begin(name)
  BY <1>1 DEF Begin
<1>5. ~Fail
  <2>1. ASSUME cmd' = [cmd EXCEPT !.undo = TRUE, !.pc = "remove"] PROVE FALSE
    BY <1>1, <2>1, IdleFields DEF Tasks
  <2> QED BY <2>1 DEF Fail, End
<1>6. ASSUME cmd' = [cmd EXCEPT !.pc = "read", !.owned = FALSE] PROVE FALSE
  BY <1>1, <1>6, IdleFields DEF Tasks
<1>7. CASE RemoveRuntime
  <2>1. WorkIsGone
    BY <1>2, <1>7
      DEF RemoveRuntime, LookForRuntime, CliRemove, CliRemoveFails, RemoveContainers,
       RemoveVolumes, RemovePart
  <2>2. ASSUME cmd' = [cmd EXCEPT !.pc = "config", !.owned = TRUE] PROVE FALSE
    BY <1>1, <2>2, IdleFields DEF Tasks
  <2>3. cmd.undo => ~AfterRemoval
    BY DEF AfterRemoval, End
  <2>4. ~cmd.undo /\ cmd.phase # "discard" => ~AfterRemoval
    BY <2>2 DEF AfterRemoval, End
  <2> QED BY <2>1, <2>3, <2>4 DEF WorkIsGone
<1>8. ~Prepare
  BY <1>2 DEF Prepare, WriteConfiguration, CopyHistory, WritePreliminaryMarker
<1>9. CASE Start
  <2>1. ~(MatchMarker \/ CliStart \/ PreventRestart \/ ReadLocalEnvironment \/ ConfigureProject)
    BY <1>2
      DEF MatchMarker, CliStart, PreventRestart, ReadLocalEnvironment, ConfigureProject
  <2>2. ~(ApplyMigration \/ AllApplied)
    BY <1>2 DEF ApplyMigration, AllApplied
  <2>3. ExportEnvironment
    BY <1>9, <2>1, <2>2 DEF Start
  <2>4. cmd.phase \notin {"verify", "migrate"} /\ PhaseDone /\ UNCHANGED <<vol, active>>
    BY <1>2, <1>6, <2>3 DEF ExportEnvironment, AfterStart, outside
  <2> QED BY <1>3, <2>3, <2>4
<1>10. CASE Restore
  <2>1. WriteMarker
    BY <1>2, <1>10
      DEF Restore, RestoreSchema, RestoreRows, RestoreAssets, ApplyLocalRows,
       RestoreStage, CompareSchema, TruncateMarker
  <2>2. cmd.phase \notin {"verify", "migrate"} /\ PhaseDone /\ UNCHANGED <<vol, active>>
    BY <1>6, <2>1 DEF WriteMarker, AfterStart, outside
  <2> QED BY <1>3, <2>1, <2>2
<1>11. CASE Migrate
  <2>1. ~ReadPlan
    <3>1. ASSUME ReadPlan PROVE FALSE
      <4> DEFINE plan == PlanOf(cmd.gen, files)
                 pc == CASE cmd.phase = "verify" -> "compare"
                         [] OTHER -> IF plan = <<>> THEN "receipt" ELSE "confirm"
      <4>1. cmd' = [cmd EXCEPT !.plan = plan, !.pc = pc]
        BY <3>1 DEF ReadPlan
      <4>2. pc # "idle"
        OBVIOUS
      <4> HIDE DEF plan, pc
      <4> QED BY <1>1, <4>1, <4>2, IdleFields DEF Tasks
    <3> QED BY <3>1
  <2>2. ~ConfirmPlan
    <3>1. ASSUME cmd' = [cmd EXCEPT !.pc = "copy", !.owned = TRUE] PROVE FALSE
      BY <1>1, <3>1, IdleFields DEF Tasks
    <3> QED BY <3>1 DEF ConfirmPlan
  <2>3. ~CopyCandidate
    <3>1. ASSUME CopyCandidate PROVE FALSE
      <4> DEFINE n == cmd.copied + 1
                 pc == IF n = Len(cmd.plan) THEN "upCandidates" ELSE "copy"
      <4>1. cmd' = [cmd EXCEPT !.copied = n, !.pc = pc]
        BY <3>1 DEF CopyCandidate
      <4>2. pc # "idle"
        OBVIOUS
      <4> HIDE DEF n, pc
      <4> QED BY <1>1, <4>1, <4>2, IdleFields DEF Tasks
    <3> QED BY <3>1
  <2>4. ~CompareHistory
    BY <1>2 DEF CompareHistory
  <2>5. VerifyProject \/ WriteReceipt
    BY <1>11, <2>1, <2>2, <2>3, <2>4 DEF Migrate
  <2> QED BY <1>3, <2>5 DEF VerifyProject, WriteReceipt, runtime, outside
<1>12. CASE Stop
  BY <1>3, <1>12 DEF Stop, outside
<1>13. ~Others
  BY <1>1 DEF Others, Kill, End, EngineStops, Prune, DeleteWorkdir, EditMigrations,
     RefreshBaseline
<1> QED BY <1>4, <1>5, <1>7, <1>8, <1>9, <1>10, <1>11, <1>12, <1>13 DEF Next

\* A command that brings the runtime up and succeeds leaves the wholly restored
\* database of the active baseline, or one that the CLI made in the place of a
\* volume that vanished behind a valid marker.
THEOREM ServedCommandsRestore == Spec => ServedIsRestored
<1>1. ASSUME Inv, Next, Succeeds(Served)
      PROVE  vol # None /\ vol.gen = active /\ (vol.stage = Whole \/ vol.hollow)
  <2>1. cmd' = Idle /\ outcome' = "ok" /\ cmd # Idle /\ cmd.name \in Served
    BY <1>1, IdleFields, Constancy DEF Succeeds, Served, Commands
  <2>2. cmd.gen = active /\ active \in Generations
    BY <1>1, <2>1 DEF Inv, TypeInv, Control
  <2>3. ASSUME Opened, cmd.pc # "cliStart"
        PROVE  vol # None /\ vol.gen = active /\ (vol.stage = Whole \/ vol.hollow)
    <3>1. vol # None
      BY <1>1, <2>3 DEF Inv, Present
    <3>2. Final /\ work.marker.gen = active
      BY <1>1, <2>2, <2>3, MarkerMatches DEF Inv, Vouched
    <3> QED BY <1>1, <3>1, <3>2 DEF Inv, Trusted
  <2>4. CASE WorkIsGone /\ cmd.phase = "discard"
    BY <1>1, <2>1, <2>4 DEF Inv, Control, Served
  <2>5. CASE ExportEnvironment /\ PhaseDone /\ cmd.phase \notin {"verify", "migrate"}
    <3>1. cmd.pc = "export" /\ ~cmd.owned
      <4>1. ASSUME Goto("truncate") PROVE FALSE
        BY <1>1, <2>1, <4>1, IdleFields DEF Goto, Inv, TypeInv, Tasks
      <4> QED BY <2>5, <4>1 DEF ExportEnvironment, At
    <3> QED BY <2>3, <3>1
  <2>6. CASE WriteMarker
    BY <1>1, <2>2, <2>6 DEF WriteMarker, At, Inv, Present
  <2>7. CASE VerifyProject \/ WriteReceipt
    BY <2>3, <2>7 DEF VerifyProject, WriteReceipt, At
  <2>8. CASE Stop
    BY <1>1, <2>1, <2>8 DEF Stop, At, Inv, Control, Served
  <2> QED BY <1>1, <2>1, <2>4, <2>5, <2>6, <2>7, <2>8, Ending
<1>2. ASSUME Succeeds(Served), vars' = vars PROVE FALSE
  BY <1>2, IdleFields, Constancy DEF Succeeds, Served, Commands, vars
<1> QED BY <1>1, <1>2, Invariant, PTL DEF ServedIsRestored, Spec

\* What a command that removes can end with.
LEMMA RemovalEnds ==
  ASSUME Inv, Next, cmd.pc \in Removing, cmd' = Idle,
         \/ cmd.undo /\ outcome' = "failed"
         \/ outcome' = "ok"
  PROVE  WorkIsGone
<1>1. cmd # Idle /\ Running
  BY IdleFields DEF Running
<1>2. CASE outcome' = "ok"
  <2>1. ~(ExportEnvironment \/ WriteMarker \/ VerifyProject \/ WriteReceipt \/ Stop)
    BY DEF ExportEnvironment, WriteMarker, VerifyProject, WriteReceipt, Stop, At
  <2> QED BY <1>1, <1>2, <2>1, Ending
<1>3. CASE cmd.undo /\ outcome' = "failed"
  <2>1. ~\E name \in Commands : Begin(name)
    BY <1>1 DEF Begin
  <2>2. ~Fail /\ ~Others
    BY <1>1, <1>3, SMT DEF Fail, End, Others, Kill, EngineStops, Prune, DeleteWorkdir,
       EditMigrations, RefreshBaseline, Running
  <2>3. ~Prepare /\ ~Start /\ ~Restore /\ ~Migrate /\ ~Stop
    BY SMT DEF At, Prepare, WriteConfiguration, CopyHistory, WritePreliminaryMarker,
       Start, MatchMarker, CliStart, PreventRestart, ApplyMigration, AllApplied,
       ReadLocalEnvironment, ConfigureProject, ExportEnvironment, Restore, RestoreSchema,
       RestoreRows, RestoreAssets, ApplyLocalRows, RestoreStage, CompareSchema, TruncateMarker,
       WriteMarker, Migrate, ReadPlan, ConfirmPlan, CopyCandidate, CompareHistory,
       VerifyProject, WriteReceipt, Stop
  <2>4. ASSUME NEW pc, pc # "idle", Goto(pc) PROVE FALSE
    BY <2>4, IdleFields DEF Goto, Inv, TypeInv, Tasks
  <2>5. CASE RemoveRuntime
    BY <1>1, <2>4, <2>5 DEF RemoveRuntime, LookForRuntime, CliRemove, CliRemoveFails,
       RemoveContainers, RemoveVolumes, RemovePart
  <2> QED BY <2>1, <2>2, <2>3, <2>5 DEF Next
<1> QED BY <1>2, <1>3

\* A rollback that succeeded and a discard that succeeded leave nothing: volume,
\* containers, workdir and environment file are gone.
THEOREM RemovalsRemove == Spec => RemovedIsGone
<1> DEFINE Removal == \/ cmd.undo /\ outcome' = "failed" /\ cmd' = Idle
                      \/ Succeeds({"discard"})
<1>1. ASSUME Inv, Next, Removal
      PROVE  vol' = None /\ box' = "none" /\ work' = EmptyWork /\ ~exported'
  <2>1. cmd' = Idle /\ cmd.pc \in Removing
    BY <1>1, IdleFields, Constancy DEF Succeeds, Inv, Control, Commands
  <2>2. WorkIsGone
    BY <1>1, <2>1, RemovalEnds DEF Succeeds
  <2>3. work = EmptyWork
    <3>1. work \in Workdirs
      BY <1>1 DEF Inv, TypeInv
    <3>2. /\ work.config = EmptyWork.config /\ work.migrations = EmptyWork.migrations
          /\ work.marker = EmptyWork.marker /\ work.receipt = EmptyWork.receipt
      BY <2>2 DEF WorkIsGone, PartsOfWork, EmptyWork
    <3> QED BY <3>1, <3>2 DEF Workdirs, EmptyWork
  <2> QED BY <1>1, <2>2, <2>3 DEF WorkIsGone, At, Inv, Emptied
<1>2. ASSUME Inv, Removal, vars' = vars PROVE FALSE
  BY <1>2, IdleFields, Constancy DEF Succeeds, vars, Commands
<1> QED BY <1>1, <1>2, Invariant, PTL DEF RemovedIsGone, Spec

\* What a database has beyond its baseline was confirmed in that text for this
\* runtime, and a whole rehearsal ends with exactly what its receipt names.
THEOREM NothingUnapproved == Spec => OnlyApproved
<1>1. Inv => AppliedIsApproved
  BY DEF Inv, Confined, AppliedIsApproved
<1>2. ASSUME Inv, Next, Succeeds({"run"}), ~raced
      PROVE  /\ vol.ledger = Represented[active] \o work.receipt.plan
             /\ work.receipt.plan \in {cmd.reviewed, <<>>}
  <2>1. cmd' = Idle /\ outcome' = "ok" /\ cmd # Idle /\ cmd.name = "run"
    BY <1>2, IdleFields, Constancy DEF Succeeds, Commands
  <2>2. cmd.phase \in {"reset", "migrate", "verify"} /\ cmd.gen = active
    BY <1>2, <2>1 DEF Inv, Control
  <2>3. VerifyProject /\ cmd.phase = "verify"
    <3>1. ~(WorkIsGone /\ cmd.phase = "discard")
      BY <2>2
    <3>2. Following = None
      BY <1>2, <2>1, <3>1, Ending
    <3>3. cmd.phase = "verify"
      BY <2>1, <2>2, <3>2, Constancy DEF Following, Commands
    <3>4. ~Stop /\ ~WriteReceipt
      BY <1>2, <3>3 DEF Stop, WriteReceipt, At, Inv, Control
    <3> QED BY <1>2, <2>1, <3>1, <3>3, <3>4, Ending
  <2>4. Continuing
    BY <1>2, <2>1, <2>3 DEF Continuing, VerifyProject, At, Inv, Control
  <2> QED BY <1>2, <2>2, <2>3, <2>4 DEF Inv, Rehearsing, Verifying, Hold, Reviewed
<1>3. ASSUME Succeeds({"run"}), vars' = vars PROVE FALSE
  BY <1>3, IdleFields, Constancy DEF Succeeds, Commands, vars
<1>4. Spec => [][AppliedIsApproved']_vars
  BY <1>1, Invariant, PTL DEF Spec
<1>5. Spec => RehearsedIsApproved
  BY <1>2, <1>3, Invariant, PTL DEF RehearsedIsApproved, Spec
<1> QED BY <1>4, <1>5, PTL DEF OnlyApproved

=============================================================================
