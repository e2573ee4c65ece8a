-------------------------- MODULE SqliteRuntimeProofs --------------------------
(***************************************************************************)
(* Proofs about the embedded runtime, for any number of managers, of files *)
(* and of disturbances.  The invariant says, for each place of a manager,  *)
(* what it may still rely on although another one, orphaned by a kill, is  *)
(* at work on the same files.                                              *)
(***************************************************************************)
EXTENDS SqliteRuntime, FiniteSetTheorems, WellFoundedInduction, TLAPS

Databases == {"database", "staged", "previous"}
Migrating == {"migrating", "settle", "settled", "spoil", "lost"}

\* From the last look at the directory until the copy has lost its first name.
Window == {"handles", "retire", "disable", "retain", "unlink", "install", "unstage"}

\* Places where a manager has nothing to write that depends on what it knows.
Quiet == {"open", "owner", "snapshot", "activate", "record", "directory", "final", "ok"}

\* Managers in the window; those whose copy still has its first name; those
\* whose copy is the database or is just about to be; those that have claimed
\* the journal; and those whose worker is at work.
Windowed == {m \in Managers : at[m] \in Window}
Stagers == {m \in Managers : at[m] = "swap" \/ at[m] \in Window}
Placers == {m \in Managers : at[m] \in {"unstage", "enable"} \/ (at[m] = "mark" /\ cmd[m] = "reset")}
Installers == {m \in Managers : at[m] = "install"} \cup Placers
Copiers == Stagers \cup Placers
Claimers == {m \in Managers : at[m] = "mark" /\ cmd[m] = "migrate"}
Workers == {m \in Managers : Live(work[m])}

Inputs == [config : Nat, policy : Nat, plan : Nat]

Sights == [input : Inputs, base : Nat]
Sides == Files \cup {0}
Memories == [db : Sides, side : Sides, old : Sides, was : {"running", "stopped", "dirty"}]
Jobs == [state : {"none", "queued", "open", "inside", "done", "failed"},
         file : Sides, journal : Sides, from : Nat, to : Nat]
Rows == [id : Files, base : Nat, applied : Nat, hot : BOOLEAN]

Domains ==
  /\ DOMAIN leaf = Names /\ DOMAIN at = Managers /\ DOMAIN cmd = Managers
  /\ DOMAIN seen = Managers /\ DOMAIN held = Managers /\ DOMAIN valid = Managers
  /\ DOMAIN own = Managers /\ DOMAIN work = Managers

Shape ==
  /\ inputs \in Inputs /\ active \in Nat
  /\ \A n \in Names \ {"metadata"} : leaf[n] \subseteq Files
  /\ disk \subseteq Rows
  /\ marker # None => marker \in Markers
  /\ \A m \in Managers :
       /\ held[m] # None => held[m] \in Markers
       /\ own[m] \in Memories
       /\ work[m] \in Jobs

\* Every file of a database has one content, and nothing else has.
Contents ==
  /\ \A d \in disk : /\ \E n \in Databases : d.id \in leaf[n]
                     /\ \A e \in disk : d.id = e.id => d = e
  /\ \A n \in Databases : \A f \in leaf[n] : \E d \in disk : d.id = f

\* What a manager knows of the marker it has read, and of its own command.
Reads ==
  /\ marker # None /\ marker.closure # "confirmed" => marker.state = "dirty"
  /\ \A m \in Managers :
       /\ at[m] # "idle" => seen[m] \in Sights /\ seen[m].base <= active
       /\ valid[m] => marker # None /\ held[m] = marker
       /\ at[m] \in {"stage", "swap", "enable"} \cup Window => cmd[m] = "reset"
       /\ (\/ at[m] \in {"closed", "discard", "sidecars", "database"} \cup Migrating
           \/ at[m] \in Window \ {"install", "unstage"}
           \/ (at[m] = "mark" /\ cmd[m] # "reset")) => held[m] # None
       /\ held[m] # None /\ at[m] \notin Migrating => held[m].closure = "confirmed"
       /\ at[m] \in {"check", "checked"} \/ (at[m] = "mark" /\ cmd[m] \in {"start", "migrate"})
          => held[m] # None /\ held[m].state # "dirty"
       /\ at[m] \in Migrating => held[m].state = "dirty"
       /\ at[m] \in Migrating \/ (at[m] = "mark" /\ cmd[m] = "migrate") => own[m].was # "dirty"
       /\ at[m] \in {"settle", "settled"} => held[m].closure = "confirmed"

\* There is one worker at work at most; it has the journal, the marker, unless
\* it was discarded meanwhile, names that journal and says that the worker may
\* be at work, and nobody but its own manager has read such a marker.
AtWork ==
  \A m \in Workers :
    /\ leaf["journal"] = {work[m].journal}
    /\ marker # None => marker.closure # "confirmed" /\ marker.journal = work[m].journal
    /\ \A n \in Managers : held[n] # None /\ held[n].journal = work[m].journal => n = m
    /\ \A n \in Workers : n = m
    /\ at[m] \in {"idle", "migrating", "lost"}

\* A journal that is claimed is alone, and no marker names it yet.
Claims ==
  \A m \in Claimers :
    /\ own[m].side # 0 /\ leaf["journal"] = {own[m].side}
    /\ marker # None => marker.journal # own[m].side
    /\ \A n \in Managers : held[n] # None => held[n].journal # own[m].side
    /\ \A n \in Claimers : n = m
    /\ Workers = {}

Original(m) == [id |-> own[m].db, base |-> seen[m].base, applied |-> 0, hot |-> FALSE]

\* The copy that a reset makes is known to nobody else.
Copies ==
  \A m \in Copiers :
    /\ own[m].db \in Files /\ own[m].db \notin leaf["previous"]
    /\ marker # None => marker.db # own[m].db
    /\ \A n \in Managers : /\ held[n] # None => held[n].db # own[m].db
                           /\ own[n].old # own[m].db
    /\ \A n \in Copiers : own[n].db = own[m].db => n = m
    /\ m \in Stagers => own[m].db \in leaf["staged"]
    /\ m \notin Placers => /\ own[m].db \notin leaf["database"]
                         /\ \A n \in Managers : work[n].file # own[m].db

\* As long as the reset may still write its marker nobody changes the copy.  It
\* may be of a later baseline than the one that was loaded, but then the reset
\* does not get past the swap.
Intact ==
  \A m \in Copiers : m \notin Placers \/ held[m] = None \/ valid[m] =>
    \A d \in disk : d.id = own[m].db =>
      d = Original(m) \/ (at[m] = "swap" /\ seen[m].base < active)

\* What stands under the database's name while a reset replaces it.
Placed ==
  /\ \A m \in Windowed :
       /\ at[m] \in {"disable", "retain", "unlink"} => leaf["database"] \subseteq {held[m].db}
       /\ at[m] = "unlink" => leaf["database"] \subseteq leaf["previous"]
       /\ at[m] = "install" => leaf["database"] = {}
       /\ \A n \in Windowed : n = m
  /\ \A m \in Placers : leaf["database"] = {own[m].db}
  /\ \A m \in Installers : held[m] = None => leaf["journal"] = {}

\* What a reset retains is not what the marker names any more.
Retained ==
  \A m \in Managers : at[m] = "tidy" /\ marker # None => marker.db # own[m].old

\* A marker's file is of its baseline and, unless the marker is dirty, exact.
Exact ==
  /\ marker # None => \A d \in disk : d.id = marker.db =>
       /\ d.base = marker.base
       /\ marker.state # "dirty" => d.applied = marker.applied /\ d.hot = FALSE
  /\ \A m \in Managers : at[m] = "settled" /\ valid[m] =>
       \A d \in disk : d.id = marker.db => d.applied = Candidates(m) /\ d.hot = FALSE

Inv ==
  /\ Domains /\ Shape /\ Contents /\ Reads /\ AtWork /\ Claims /\ Copies /\ Intact /\ Placed /\ Retained /\ Exact

LEMMA LeastIn ==
  ASSUME NEW S, S \subseteq Nat, S # {}
  PROVE  Least(S) \in S
<1>1. PICK x \in S : \A y \in S : <<y, x>> \notin OpToRel(<, Nat)
  BY WFMin, NatLessThanWellFounded, Zenon
<1>2. ASSUME NEW y \in S PROVE x <= y
  <2>1. <<y, x>> \in Nat \X Nat /\ x \in Nat /\ y \in Nat
    OBVIOUS
  <2>2. ~(<<y, x>>[1] < <<y, x>>[2])
    BY <1>1, <2>1, Zenon DEF OpToRel
  <2> QED BY <2>1, <2>2
<1> QED BY <1>2 DEF Least

LEMMA FewLinks ==
  ASSUME NEW f
  PROVE  /\ \A n \in Databases : f \in leaf[n] =>
              (Links(n, f) = 1 <=> \A x \in Databases \ {n} : f \notin leaf[x])
         /\ Stands("database", f) <=> /\ leaf["database"] = {f}
                                      /\ f \notin leaf["staged"] /\ f \notin leaf["previous"]
         /\ Stands("journal", f) <=> leaf["journal"] = {f}
         /\ Stands("environment", f) <=> leaf["environment"] = {f}
<1>1. \A n \in Databases : f \in leaf[n] =>
              (Links(n, f) = 1 <=> \A x \in Databases \ {n} : f \notin leaf[x])
  <2> TAKE n \in Databases
  <2> HAVE f \in leaf[n]
  <2> DEFINE T == {x \in Databases : f \in leaf[x]}
  <2>1. n \in T /\ Links(n, f) = Cardinality(T)
    BY DEF Links, Databases
  <2>2. IsFiniteSet(Databases)
    <3>1. IsFiniteSet({"database"}) /\ IsFiniteSet({"staged"}) /\ IsFiniteSet({"previous"})
      BY FS_Singleton
    <3>2. IsFiniteSet(({"database"} \cup {"staged"}) \cup {"previous"})
      BY <3>1, FS_Union
    <3> QED BY <3>2 DEF Databases
  <2>3. IsFiniteSet(T)
    BY <2>2, FS_Subset
  <2>4. Cardinality(T) = 1 <=> T = {n}
    <3>1. Cardinality({n}) = 1
      BY FS_Singleton
    <3>2. Cardinality(T) = 1 => \E x : T = {x}
      BY <2>3, FS_Singleton
    <3> QED BY <3>1, <3>2, <2>1
  <2> QED BY <2>1, <2>4
<1>2. ASSUME NEW n \in {"journal", "environment"}, leaf[n] = {f} PROVE Links(n, f) = 1
  <2>1. {x \in {n} : f \in leaf[x]} = {n} /\ n \notin {"database", "staged", "previous"}
    BY <1>2
  <2> QED BY <2>1, FS_Singleton DEF Links
<1>3. /\ Stands("journal", f) <=> leaf["journal"] = {f}
      /\ Stands("environment", f) <=> leaf["environment"] = {f}
  BY <1>2 DEF Stands
<1>4. leaf["database"] = {f} => f \in leaf["database"]
  OBVIOUS
<1> QED BY <1>1, <1>3, <1>4 DEF Stands, Databases

\* A transaction changes what one file holds and nothing else.
LEMMA OnlyContent ==
  ASSUME Shape, Contents, NEW g, NEW a \in Nat, NEW h \in BOOLEAN, Content(g, a, h)
  PROVE  /\ disk' \subseteq Rows
         /\ \A e \in disk' : \E d \in disk : e.id = d.id /\ e.base = d.base /\ (d.id # g => e = d)
         /\ \A d \in disk : \E e \in disk' : e.id = d.id
         /\ \A d, e \in disk' : d.id = e.id => d = e
<1> DEFINE F(d) == IF d.id = g THEN [d EXCEPT !.applied = a, !.hot = h] ELSE d
<1>1. disk' = {F(d) : d \in disk} /\ disk \subseteq Rows
  BY DEF Content, Shape
<1>2. \A d \in Rows : F(d) \in Rows /\ F(d).id = d.id /\ F(d).base = d.base
  BY DEF Rows
<1>3. \A d \in disk : d.id # g => F(d) = d
  OBVIOUS
<1> HIDE DEF F
<1>4. \A d, e \in disk : d.id = e.id => d = e
  BY DEF Contents
<1> QED BY <1>1, <1>2, <1>3, <1>4

\* An identity from one of the pools is nobody's.
LEMMA FreshDatabase ==
  ASSUME NewDatabase # {}
  PROVE  LET f == Least(NewDatabase) IN
           /\ f \in Files /\ f \notin leaf["database"] /\ f \notin leaf["staged"]
           /\ f \notin leaf["previous"] /\ (marker # None => marker.db # f)
           /\ \A n \in Managers : held[n] # None => held[n].db # f
           /\ \A n \in Managers : own[n].db # f /\ own[n].old # f /\ work[n].file # f
<1> DEFINE f == Least(NewDatabase)
<1>1. f \in NewDatabase
  BY LeastIn, SqliteAssumption DEF NewDatabase
<1> DEFINE L == UNION {leaf[n] : n \in {"database", "staged", "previous"}}
           A == {own[m].db : m \in Managers}
           B == {own[m].old : m \in Managers}
           C == {work[m].file : m \in Managers}
<1>2. NewDatabase = Files \ (L \cup Known("db") \cup A \cup B \cup C)
  BY DEF NewDatabase
<1> HIDE DEF f, L, A, B, C
<1>3. f \in Files /\ f \notin L /\ f \notin Known("db") /\ f \notin A /\ f \notin B /\ f \notin C
  BY <1>1, <1>2
<1>4. f \notin leaf["database"] /\ f \notin leaf["staged"] /\ f \notin leaf["previous"]
  BY <1>3 DEF L
<1>5. (marker # None => marker.db # f) /\ \A n \in Managers : held[n] # None => held[n].db # f
  BY <1>3 DEF Known
<1>6. \A n \in Managers : own[n].db # f /\ own[n].old # f /\ work[n].file # f
  BY <1>3 DEF A, B, C
<1> QED BY <1>3, <1>4, <1>5, <1>6 DEF f

LEMMA FreshJournal ==
  ASSUME NewJournal # {}
  PROVE  LET f == Least(NewJournal) IN
           /\ f \in Files /\ f # 0 /\ (marker # None => marker.journal # f)
           /\ \A n \in Managers : held[n] # None => held[n].journal # f
<1> DEFINE f == Least(NewJournal)
<1>1. f \in NewJournal
  BY LeastIn, SqliteAssumption DEF NewJournal
<1> HIDE DEF f
<1>2. f \in Files /\ f # 0 /\ f \notin Known("journal")
  BY <1>1, SqliteAssumption DEF NewJournal
<1>3. (marker # None => marker.journal # f)
        /\ \A n \in Managers : held[n] # None => held[n].journal # f
  BY <1>2 DEF Known
<1> QED BY <1>2, <1>3 DEF f

LEMMA FreshEnvironment ==
  ASSUME NewEnvironment # {} PROVE Least(NewEnvironment) \in Files
BY LeastIn, SqliteAssumption DEF NewEnvironment

LEMMA CloseKeeps ==
  ASSUME Inv, NEW m \in Managers,
         Close(m)
  PROVE  Inv'
<1>1. /\ at[m] = "closed" /\ held[m] # None
      /\ at'[m] = (IF cmd[m] = "reset" THEN "stage" ELSE "discard") /\ \A n \in Managers : n # m => at'[n] = at[n]
      /\ UNCHANGED <<inputs, active, leaf, disk, marker, cmd, seen, held, valid, own, work>>
  BY DEF Close, Go, world, files, Reads, Inv, Domains
<1>2. /\ m \notin Windowed /\ Windowed' = Windowed
      /\ m \notin Stagers /\ Stagers' = Stagers
      /\ m \notin Placers /\ Placers' = Placers
      /\ m \notin Installers /\ Installers' = Installers
      /\ m \notin Claimers /\ Claimers' = Claimers
      /\ Workers' = Workers
      /\ Windowed \subseteq Stagers
      /\ Stagers \cup Placers \cup Windowed \cup Installers \cup Claimers \cup Workers \subseteq Managers
  BY <1>1 DEF Inv, Reads, Windowed, Stagers, Placers, Installers, Claimers, Workers,
       Window, Live
<1>3. Domains'
  BY DEF Inv, Domains, Close, Go, world, files
<1>4. Shape'
  BY <1>1 DEF Inv, Shape, Names
<1>5. Contents'
  BY <1>1, <1>2 DEF Inv, Contents, Databases
<1>6. Reads'
  BY <1>1, <1>2 DEF Inv, Reads, Window, Migrating
<1>7. AtWork'
  BY <1>1, <1>2 DEF Inv, AtWork
<1>8. Claims'
  BY <1>1, <1>2 DEF Inv, Claims
<1>9. Copies'
  BY <1>1, <1>2 DEF Inv, Copies, Copiers
<1>10. Intact'
  BY <1>1, <1>2 DEF Inv, Intact, Copiers, Original
<1>11. Placed'
  BY <1>1, <1>2 DEF Inv, Placed
<1>12. Retained'
  BY <1>1, <1>2 DEF Inv, Retained
<1>13. Exact'
  BY <1>1, <1>2 DEF Inv, Exact, Candidates
<1> QED BY <1>3, <1>4, <1>5, <1>6, <1>7, <1>8, <1>9, <1>10, <1>11, <1>12, <1>13 DEF Inv

LEMMA CheckKeeps ==
  ASSUME Inv, NEW m \in Managers,
         Check(m)
  PROVE  Inv'
<1>1. /\ at[m] = "check"
      /\ at'[m] = "checked" /\ \A n \in Managers : n # m => at'[n] = at[n]
      /\ UNCHANGED <<inputs, active, leaf, disk, marker, cmd, seen, held, valid, own, work>>
  BY DEF Check, Step, Go, world, files, Inv, Domains
<1>2. /\ m \notin Windowed /\ Windowed' = Windowed
      /\ m \notin Stagers /\ Stagers' = Stagers
      /\ m \notin Placers /\ Placers' = Placers
      /\ m \notin Installers /\ Installers' = Installers
      /\ m \notin Claimers /\ Claimers' = Claimers
      /\ Workers' = Workers
      /\ Windowed \subseteq Stagers
      /\ Stagers \cup Placers \cup Windowed \cup Installers \cup Claimers \cup Workers \subseteq Managers
  BY <1>1 DEF Inv, Reads, Windowed, Stagers, Placers, Installers, Claimers, Workers,
       Window, Live
<1>3. Domains'
  BY DEF Inv, Domains, Check, Step, Go, world, files
<1>4. Shape'
  BY <1>1 DEF Inv, Shape, Names
<1>5. Contents'
  BY <1>1, <1>2 DEF Inv, Contents, Databases
<1>6. Reads'
  BY <1>1, <1>2 DEF Inv, Reads, Window, Migrating
<1>7. AtWork'
  BY <1>1, <1>2 DEF Inv, AtWork
<1>8. Claims'
  BY <1>1, <1>2 DEF Inv, Claims
<1>9. Copies'
  BY <1>1, <1>2 DEF Inv, Copies, Copiers
<1>10. Intact'
  BY <1>1, <1>2 DEF Inv, Intact, Copiers, Original
<1>11. Placed'
  BY <1>1, <1>2 DEF Inv, Placed
<1>12. Retained'
  BY <1>1, <1>2 DEF Inv, Retained
<1>13. Exact'
  BY <1>1, <1>2 DEF Inv, Exact, Candidates
<1> QED BY <1>3, <1>4, <1>5, <1>6, <1>7, <1>8, <1>9, <1>10, <1>11, <1>12, <1>13 DEF Inv

LEMMA SwapKeeps ==
  ASSUME Inv, NEW m \in Managers,
         Swap(m)
  PROVE  Inv'
<1>1. /\ at[m] = "swap" /\ cmd[m] = "reset" /\ ~(seen[m].base < active)
      /\ own[m].db \in leaf["staged"] /\ leaf["staged"] \subseteq {own[m].db}
      /\ \A n \in Managers : n # m => at'[n] = at[n]
      /\ \/ held[m] = None /\ at'[m] = "install" /\ leaf["database"] = {} /\ leaf["journal"] = {}
         \/ held[m] # None /\ at'[m] = "handles"
      /\ UNCHANGED <<inputs, active, leaf, disk, marker, cmd, seen, held, valid, own, work>>
  BY DEF Swap, Leaves, Go, Proper, Reads, Shape, world, files, Inv, Domains
<1>2. /\ m \notin Windowed /\ Windowed' = Windowed \cup {m}
      /\ m \in Stagers /\ Stagers' = Stagers
      /\ m \notin Placers /\ Placers' = Placers
      /\ Installers' = IF held[m] = None THEN Installers \cup {m} ELSE Installers
      /\ m \notin Claimers /\ Claimers' = Claimers
      /\ Workers' = Workers
      /\ Windowed \subseteq Stagers
      /\ Stagers \cup Placers \cup Windowed \cup Installers \cup Claimers \cup Workers \subseteq Managers
  BY <1>1 DEF Inv, Reads, Windowed, Stagers, Placers, Installers, Claimers, Workers,
       Window, Live
<1>3. Domains'
  BY DEF Inv, Domains, Swap, Leaves, Go, Proper, Shape, world, files
<1>4. Shape'
  BY <1>1 DEF Inv, Shape, Names
<1>5. Contents'
  BY <1>1, <1>2 DEF Inv, Contents, Databases
<1>6. Reads'
  BY <1>1, <1>2 DEF Inv, Reads, Window, Migrating
<1>7. AtWork'
  BY <1>1, <1>2 DEF Inv, AtWork
<1>8. Claims'
  BY <1>1, <1>2 DEF Inv, Claims
<1>9. Copies'
  BY <1>1, <1>2 DEF Inv, Copies, Copiers
<1>10. Intact'
  BY <1>1, <1>2 DEF Inv, Intact, Copiers, Original
<1>11. Placed'
  BY <1>1, <1>2 DEF Inv, Placed, Copies, Copiers
<1>12. Retained'
  BY <1>1, <1>2 DEF Inv, Retained
<1>13. Exact'
  BY <1>1, <1>2 DEF Inv, Exact, Candidates
<1> QED BY <1>3, <1>4, <1>5, <1>6, <1>7, <1>8, <1>9, <1>10, <1>11, <1>12, <1>13 DEF Inv

LEMMA HandlesKeeps ==
  ASSUME Inv, NEW m \in Managers,
         Handles(m)
  PROVE  Inv'
<1>1. /\ at[m] = "handles" /\ held[m] # None
      /\ at'[m] = "retire" /\ \A n \in Managers : n # m => at'[n] = at[n]
      /\ UNCHANGED <<inputs, active, leaf, disk, marker, cmd, seen, held, valid, own, work>>
  BY DEF Handles, Step, Go, Window, Reads, world, files, Inv, Domains
<1>2. /\ m \in Windowed /\ Windowed' = Windowed
      /\ m \in Stagers /\ Stagers' = Stagers
      /\ m \notin Placers /\ Placers' = Placers
      /\ m \notin Installers /\ Installers' = Installers
      /\ m \notin Claimers /\ Claimers' = Claimers
      /\ Workers' = Workers
      /\ Windowed \subseteq Stagers
      /\ Stagers \cup Placers \cup Windowed \cup Installers \cup Claimers \cup Workers \subseteq Managers
  BY <1>1 DEF Inv, Reads, Windowed, Stagers, Placers, Installers, Claimers, Workers,
       Window, Live
<1>3. Domains'
  BY DEF Inv, Domains, Handles, Step, Go, Window, world, files
<1>4. Shape'
  BY <1>1 DEF Inv, Shape, Names
<1>5. Contents'
  BY <1>1, <1>2 DEF Inv, Contents, Databases
<1>6. Reads'
  BY <1>1, <1>2 DEF Inv, Reads, Window, Migrating
<1>7. AtWork'
  BY <1>1, <1>2 DEF Inv, AtWork
<1>8. Claims'
  BY <1>1, <1>2 DEF Inv, Claims
<1>9. Copies'
  BY <1>1, <1>2 DEF Inv, Copies, Copiers
<1>10. Intact'
  BY <1>1, <1>2 DEF Inv, Intact, Copiers, Original
<1>11. Placed'
  BY <1>1, <1>2 DEF Inv, Placed
<1>12. Retained'
  BY <1>1, <1>2 DEF Inv, Retained
<1>13. Exact'
  BY <1>1, <1>2 DEF Inv, Exact, Candidates
<1> QED BY <1>3, <1>4, <1>5, <1>6, <1>7, <1>8, <1>9, <1>10, <1>11, <1>12, <1>13 DEF Inv

LEMMA MigrationFailsKeeps ==
  ASSUME Inv, NEW m \in Managers,
         MigrationFails(m)
  PROVE  Inv'
<1>1. /\ \A n \in Managers : n # m => at'[n] = at[n]
      /\ \/ at'[m] = "spoil" /\ at[m] \in {"migrating", "settle", "settled"} /\ m \notin Workers
         \/ at'[m] = "lost" /\ at[m] \in {"migrating", "settle", "settled"}
      /\ UNCHANGED <<inputs, active, leaf, disk, marker, cmd, seen, held, valid, own, work>>
  BY DEF MigrationFails, Go, Live, Workers, AtWork, world, files, Inv, Domains
<1>2. /\ m \notin Windowed /\ Windowed' = Windowed
      /\ m \notin Stagers /\ Stagers' = Stagers
      /\ m \notin Placers /\ Placers' = Placers
      /\ m \notin Installers /\ Installers' = Installers
      /\ m \notin Claimers /\ Claimers' = Claimers
      /\ Workers' = Workers
      /\ Windowed \subseteq Stagers
      /\ Stagers \cup Placers \cup Windowed \cup Installers \cup Claimers \cup Workers \subseteq Managers
  BY <1>1 DEF Inv, Reads, Windowed, Stagers, Placers, Installers, Claimers, Workers,
       Window, Live
<1>3. Domains'
  BY DEF Inv, Domains, MigrationFails, Go, Live, Workers, AtWork, world, files
<1>4. Shape'
  BY <1>1 DEF Inv, Shape, Names
<1>5. Contents'
  BY <1>1, <1>2 DEF Inv, Contents, Databases
<1>6. Reads'
  BY <1>1, <1>2 DEF Inv, Reads, Window, Migrating
<1>7. AtWork'
  BY <1>1, <1>2 DEF Inv, AtWork
<1>8. Claims'
  BY <1>1, <1>2 DEF Inv, Claims
<1>9. Copies'
  BY <1>1, <1>2 DEF Inv, Copies, Copiers
<1>10. Intact'
  BY <1>1, <1>2 DEF Inv, Intact, Copiers, Original
<1>11. Placed'
  BY <1>1, <1>2 DEF Inv, Placed
<1>12. Retained'
  BY <1>1, <1>2 DEF Inv, Retained
<1>13. Exact'
  BY <1>1, <1>2 DEF Inv, Exact, Candidates
<1> QED BY <1>3, <1>4, <1>5, <1>6, <1>7, <1>8, <1>9, <1>10, <1>11, <1>12, <1>13 DEF Inv

LEMMA OpenKeeps ==
  ASSUME Inv, NEW m \in Managers,
         Open(m)
  PROVE  Inv'
<1>1. /\ at[m] = "open"
      /\ \A n \in Managers : n # m => at'[n] = at[n]
      /\ \/ at'[m] = "stage" /\ cmd[m] = "reset"
         \/ at'[m] = "closed" /\ marker # None
         \/ at'[m] = "check" /\ marker # None /\ marker.state # "dirty"
      /\ marker # None => marker.closure = "confirmed"
      /\ held'[m] = marker /\ \A n \in Managers : n # m => held'[n] = held[n]
      /\ \A n \in Managers : n # m => valid'[n] = valid[n]
      /\ valid'[m] => marker # None
      /\ UNCHANGED <<inputs, active, leaf, disk, marker, cmd, seen, own, work>>
  BY DEF Open, Go, Read, Readable, LeavesProven, world, files, Inv, Domains
<1>2. /\ m \notin Windowed /\ Windowed' = Windowed
      /\ m \notin Stagers /\ Stagers' = Stagers
      /\ m \notin Placers /\ Placers' = Placers
      /\ m \notin Installers /\ Installers' = Installers
      /\ m \notin Claimers /\ Claimers' = Claimers
      /\ Workers' = Workers
      /\ Windowed \subseteq Stagers
      /\ Stagers \cup Placers \cup Windowed \cup Installers \cup Claimers \cup Workers \subseteq Managers
  BY <1>1 DEF Inv, Reads, Windowed, Stagers, Placers, Installers, Claimers, Workers,
       Window, Live
<1>3. Domains'
  BY DEF Inv, Domains, Open, Go, Read, Readable, LeavesProven, world, files
<1>4. Shape'
  BY <1>1 DEF Inv, Shape, Names
<1>5. Contents'
  BY <1>1, <1>2 DEF Inv, Contents, Databases
<1>6. Reads'
  BY <1>1, <1>2 DEF Inv, Reads, Window, Migrating
<1>7. AtWork'
  BY <1>1, <1>2 DEF Inv, AtWork
<1>8. Claims'
  BY <1>1, <1>2 DEF Inv, Claims
<1>9. Copies'
  BY <1>1, <1>2 DEF Inv, Copies, Copiers
<1>10. Intact'
  BY <1>1, <1>2 DEF Inv, Intact, Copiers, Original
<1>11. Placed'
  BY <1>1, <1>2 DEF Inv, Placed
<1>12. Retained'
  BY <1>1, <1>2 DEF Inv, Retained
<1>13. Exact'
  BY <1>1, <1>2 DEF Inv, Exact, Candidates
<1> QED BY <1>3, <1>4, <1>5, <1>6, <1>7, <1>8, <1>9, <1>10, <1>11, <1>12, <1>13 DEF Inv

LEMMA RetireKeeps ==
  ASSUME Inv, NEW m \in Managers,
         Retire(m)
  PROVE  Inv'
<1>1. /\ at[m] = "retire" /\ held[m] # None
      /\ at'[m] = "disable" /\ \A n \in Managers : n # m => at'[n] = at[n]
      /\ leaf["database"] = {held[m].db}
      /\ held[m].journal # 0 => leaf["journal"] = {held[m].journal} \/ leaf["journal"] = {}
      /\ leaf'["journal"] = (IF held[m].journal = 0 THEN leaf["journal"] ELSE {})
      /\ leaf'["database"] = leaf["database"] /\ leaf'["environment"] = leaf["environment"]
      /\ leaf'["staged"] = leaf["staged"] /\ leaf'["previous"] = leaf["previous"]
      /\ UNCHANGED <<inputs, active, disk, marker, cmd, seen, held, valid, own, work>>
  BY FewLinks DEF Retire, Step, Go, Put, SidecarsStand, Window, world, Reads, Names,
       Inv, Domains
<1>2. /\ m \in Windowed /\ Windowed' = Windowed
      /\ m \in Stagers /\ Stagers' = Stagers
      /\ m \notin Placers /\ Placers' = Placers
      /\ m \notin Installers /\ Installers' = Installers
      /\ m \notin Claimers /\ Claimers' = Claimers
      /\ Workers' = Workers
      /\ Windowed \subseteq Stagers
      /\ Stagers \cup Placers \cup Windowed \cup Installers \cup Claimers \cup Workers \subseteq Managers
  BY <1>1 DEF Inv, Reads, Windowed, Stagers, Placers, Installers, Claimers, Workers,
       Window, Live
<1>3. Domains'
  BY DEF Inv, Domains, Retire, Step, Go, Put, SidecarsStand, Window, world, Names
<1>4. Shape'
  BY <1>1 DEF Inv, Shape, Names
<1>5. Contents'
  BY <1>1, <1>2 DEF Inv, Contents, Databases
<1>6. Reads'
  BY <1>1, <1>2 DEF Inv, Reads, Window, Migrating
<1>7. AtWork'
  BY <1>1, <1>2 DEF Inv, AtWork
<1>8. Claims'
  BY <1>1, <1>2 DEF Inv, Claims
<1>9. Copies'
  BY <1>1, <1>2 DEF Inv, Copies, Copiers
<1>10. Intact'
  BY <1>1, <1>2 DEF Inv, Intact, Copiers, Original
<1>11. Placed'
  BY <1>1, <1>2 DEF Inv, Placed
<1>12. Retained'
  BY <1>1, <1>2 DEF Inv, Retained
<1>13. Exact'
  BY <1>1, <1>2 DEF Inv, Exact, Candidates
<1> QED BY <1>3, <1>4, <1>5, <1>6, <1>7, <1>8, <1>9, <1>10, <1>11, <1>12, <1>13 DEF Inv

LEMMA DisableKeeps ==
  ASSUME Inv, NEW m \in Managers,
         Disable(m)
  PROVE  Inv'
<1>1. /\ at[m] = "disable" /\ held[m] # None
      /\ at'[m] = "retain" /\ \A n \in Managers : n # m => at'[n] = at[n]
      /\ leaf'["database"] = leaf["database"] /\ leaf'["journal"] = leaf["journal"]
      /\ leaf'["staged"] = leaf["staged"] /\ leaf'["previous"] = leaf["previous"]
      /\ leaf'["environment"] \subseteq Files
      /\ UNCHANGED <<inputs, active, disk, marker, cmd, seen, held, valid, own, work>>
  BY DEF Disable, Step, Go, Put, world, Window, Reads, Names, Inv, Domains
<1>2. /\ m \in Windowed /\ Windowed' = Windowed
      /\ m \in Stagers /\ Stagers' = Stagers
      /\ m \notin Placers /\ Placers' = Placers
      /\ m \notin Installers /\ Installers' = Installers
      /\ m \notin Claimers /\ Claimers' = Claimers
      /\ Workers' = Workers
      /\ Windowed \subseteq Stagers
      /\ Stagers \cup Placers \cup Windowed \cup Installers \cup Claimers \cup Workers \subseteq Managers
  BY <1>1 DEF Inv, Reads, Windowed, Stagers, Placers, Installers, Claimers, Workers,
       Window, Live
<1>3. Domains'
  BY DEF Inv, Domains, Disable, Step, Go, Put, world, Window, Names
<1>4. Shape'
  BY <1>1 DEF Inv, Shape, Names
<1>5. Contents'
  BY <1>1, <1>2 DEF Inv, Contents, Databases
<1>6. Reads'
  BY <1>1, <1>2 DEF Inv, Reads, Window, Migrating
<1>7. AtWork'
  BY <1>1, <1>2 DEF Inv, AtWork
<1>8. Claims'
  BY <1>1, <1>2 DEF Inv, Claims
<1>9. Copies'
  BY <1>1, <1>2 DEF Inv, Copies, Copiers
<1>10. Intact'
  BY <1>1, <1>2 DEF Inv, Intact, Copiers, Original
<1>11. Placed'
  BY <1>1, <1>2 DEF Inv, Placed
<1>12. Retained'
  BY <1>1, <1>2 DEF Inv, Retained
<1>13. Exact'
  BY <1>1, <1>2 DEF Inv, Exact, Candidates
<1> QED BY <1>3, <1>4, <1>5, <1>6, <1>7, <1>8, <1>9, <1>10, <1>11, <1>12, <1>13 DEF Inv

LEMMA UnlinkKeeps ==
  ASSUME Inv, NEW m \in Managers,
         Unlink(m)
  PROVE  Inv'
<1>1. /\ at[m] = "unlink" /\ held[m] # None
      /\ at'[m] = "install" /\ \A n \in Managers : n # m => at'[n] = at[n]
      /\ leaf["database"] = {held[m].db} /\ held[m].db \in leaf["previous"]
      /\ leaf'["database"] = {}
      /\ leaf'["journal"] = leaf["journal"] /\ leaf'["environment"] = leaf["environment"]
      /\ leaf'["staged"] = leaf["staged"] /\ leaf'["previous"] = leaf["previous"]
      /\ UNCHANGED <<inputs, active, disk, marker, cmd, seen, held, valid, own, work>>
  BY FewLinks DEF Unlink, Step, Go, Put, Drop, Window, Windowed, world, Shape, Reads,
       Placed, Names, Databases, Inv, Domains
<1>2. /\ m \in Windowed /\ Windowed' = Windowed
      /\ m \in Stagers /\ Stagers' = Stagers
      /\ m \notin Placers /\ Placers' = Placers
      /\ m \notin Installers /\ Installers' = Installers \cup {m}
      /\ m \notin Claimers /\ Claimers' = Claimers
      /\ Workers' = Workers
      /\ Windowed \subseteq Stagers
      /\ Stagers \cup Placers \cup Windowed \cup Installers \cup Claimers \cup Workers \subseteq Managers
  BY <1>1 DEF Inv, Reads, Windowed, Stagers, Placers, Installers, Claimers, Workers,
       Window, Live
<1>3. Domains'
  BY DEF Inv, Domains, Unlink, Step, Go, Put, Drop, Window, Windowed, world, Shape,
       Names, Databases
<1>4. Shape'
  BY <1>1 DEF Inv, Shape, Names
<1>5. Contents'
  BY <1>1, <1>2 DEF Inv, Contents, Databases
<1>6. Reads'
  BY <1>1, <1>2 DEF Inv, Reads, Window, Migrating
<1>7. AtWork'
  BY <1>1, <1>2 DEF Inv, AtWork
<1>8. Claims'
  BY <1>1, <1>2 DEF Inv, Claims
<1>9. Copies'
  BY <1>1, <1>2 DEF Inv, Copies, Copiers
<1>10. Intact'
  BY <1>1, <1>2 DEF Inv, Intact, Copiers, Original
<1>11. Placed'
  BY <1>1, <1>2 DEF Inv, Placed, Copies, Copiers, Installers
<1>12. Retained'
  BY <1>1, <1>2 DEF Inv, Retained
<1>13. Exact'
  BY <1>1, <1>2 DEF Inv, Exact, Candidates
<1> QED BY <1>3, <1>4, <1>5, <1>6, <1>7, <1>8, <1>9, <1>10, <1>11, <1>12, <1>13 DEF Inv

LEMMA InstallKeeps ==
  ASSUME Inv, NEW m \in Managers,
         Install(m)
  PROVE  Inv'
<1>1. /\ at[m] = "install"
      /\ at'[m] = "unstage" /\ \A n \in Managers : n # m => at'[n] = at[n]
      /\ leaf["database"] = {} /\ own[m].db \in leaf["staged"]
      /\ leaf'["database"] = {own[m].db}
      /\ leaf'["journal"] = leaf["journal"] /\ leaf'["environment"] = leaf["environment"]
      /\ leaf'["staged"] = leaf["staged"] /\ leaf'["previous"] = leaf["previous"]
      /\ UNCHANGED <<inputs, active, disk, marker, cmd, seen, held, valid, own, work>>
  BY DEF Install, Step, Go, Put, world, Names, Inv, Domains
<1>2. /\ m \in Windowed /\ Windowed' = Windowed
      /\ m \in Stagers /\ Stagers' = Stagers
      /\ m \notin Placers /\ Placers' = Placers \cup {m}
      /\ m \in Installers /\ Installers' = Installers
      /\ m \notin Claimers /\ Claimers' = Claimers
      /\ Workers' = Workers
      /\ Windowed \subseteq Stagers
      /\ Stagers \cup Placers \cup Windowed \cup Installers \cup Claimers \cup Workers \subseteq Managers
  BY <1>1 DEF Inv, Reads, Windowed, Stagers, Placers, Installers, Claimers, Workers,
       Window, Live
<1>3. Domains'
  BY DEF Inv, Domains, Install, Step, Go, Put, world, Names
<1>4. Shape'
  BY <1>1 DEF Inv, Shape, Names
<1>5. Contents'
  BY <1>1, <1>2 DEF Inv, Contents, Databases
<1>6. Reads'
  BY <1>1, <1>2 DEF Inv, Reads, Window, Migrating
<1>7. AtWork'
  BY <1>1, <1>2 DEF Inv, AtWork
<1>8. Claims'
  BY <1>1, <1>2 DEF Inv, Claims
<1>9. Copies'
  BY <1>1, <1>2 DEF Inv, Copies, Copiers
<1>10. Intact'
  BY <1>1, <1>2 DEF Inv, Intact, Copiers, Original
<1>11. Placed'
  BY <1>1, <1>2 DEF Inv, Placed
<1>12. Retained'
  BY <1>1, <1>2 DEF Inv, Retained
<1>13. Exact'
  BY <1>1, <1>2 DEF Inv, Exact, Candidates
<1> QED BY <1>3, <1>4, <1>5, <1>6, <1>7, <1>8, <1>9, <1>10, <1>11, <1>12, <1>13 DEF Inv

LEMMA UnstageKeeps ==
  ASSUME Inv, NEW m \in Managers,
         Unstage(m)
  PROVE  Inv'
<1>1. /\ at[m] = "unstage" /\ cmd[m] = "reset"
      /\ at'[m] = "enable" /\ \A n \in Managers : n # m => at'[n] = at[n]
      /\ leaf["database"] = {own[m].db} /\ own[m].db \in leaf["staged"]
      /\ leaf'["staged"] = leaf["staged"] \ {own[m].db}
      /\ leaf'["database"] = leaf["database"] /\ leaf'["journal"] = leaf["journal"]
      /\ leaf'["environment"] = leaf["environment"] /\ leaf'["previous"] = leaf["previous"]
      /\ UNCHANGED <<inputs, active, disk, marker, cmd, seen, held, valid, own, work>>
  BY FewLinks DEF Unstage, Step, Go, Put, Drop, Window, Placers, Copiers, Stagers,
       world, Reads, Copies, Placed, Names, Databases, Inv, Domains
<1>2. /\ m \in Windowed /\ Windowed' = Windowed \ {m}
      /\ m \in Stagers /\ Stagers' = Stagers \ {m}
      /\ m \in Placers /\ Placers' = Placers
      /\ m \in Installers /\ Installers' = Installers
      /\ m \notin Claimers /\ Claimers' = Claimers
      /\ Workers' = Workers
      /\ Windowed \subseteq Stagers
      /\ Stagers \cup Placers \cup Windowed \cup Installers \cup Claimers \cup Workers \subseteq Managers
  BY <1>1 DEF Inv, Reads, Windowed, Stagers, Placers, Installers, Claimers, Workers,
       Window, Live
<1>3. Domains'
  BY DEF Inv, Domains, Unstage, Step, Go, Put, Drop, Window, Placers, Copiers,
       Stagers, world, Names, Databases
<1>4. Shape'
  BY <1>1 DEF Inv, Shape, Names
<1>5. Contents'
  BY <1>1, <1>2 DEF Inv, Contents, Databases
<1>6. Reads'
  BY <1>1, <1>2 DEF Inv, Reads, Window, Migrating
<1>7. AtWork'
  BY <1>1, <1>2 DEF Inv, AtWork
<1>8. Claims'
  BY <1>1, <1>2 DEF Inv, Claims
<1>9. Copies'
  BY <1>1, <1>2 DEF Inv, Copies, Copiers
<1>10. Intact'
  BY <1>1, <1>2 DEF Inv, Intact, Copiers, Original
<1>11. Placed'
  BY <1>1, <1>2 DEF Inv, Placed
<1>12. Retained'
  BY <1>1, <1>2 DEF Inv, Retained
<1>13. Exact'
  BY <1>1, <1>2 DEF Inv, Exact, Candidates
<1> QED BY <1>3, <1>4, <1>5, <1>6, <1>7, <1>8, <1>9, <1>10, <1>11, <1>12, <1>13 DEF Inv

LEMMA TidyKeeps ==
  ASSUME Inv, NEW m \in Managers,
         Tidy(m)
  PROVE  Inv'
<1>1. /\ at[m] = "tidy"
      /\ at'[m] = "final" /\ \A n \in Managers : n # m => at'[n] = at[n]
      /\ own[m].old \in leaf["previous"] /\ own[m].old \notin leaf["database"] /\ own[m].old \notin leaf["staged"]
      /\ leaf'["previous"] = leaf["previous"] \ {own[m].old}
      /\ leaf'["database"] = leaf["database"] /\ leaf'["journal"] = leaf["journal"]
      /\ leaf'["environment"] = leaf["environment"] /\ leaf'["staged"] = leaf["staged"]
      /\ disk' = {d \in disk : d.id # own[m].old}
      /\ UNCHANGED <<inputs, active, marker, cmd, seen, held, valid, own, work>>
  BY FewLinks DEF Tidy, Step, Go, Put, Drop, world, Names, Databases, Inv, Domains
<1>2. /\ m \notin Windowed /\ Windowed' = Windowed
      /\ m \notin Stagers /\ Stagers' = Stagers
      /\ m \notin Placers /\ Placers' = Placers
      /\ m \notin Installers /\ Installers' = Installers
      /\ m \notin Claimers /\ Claimers' = Claimers
      /\ Workers' = Workers
      /\ Windowed \subseteq Stagers
      /\ Stagers \cup Placers \cup Windowed \cup Installers \cup Claimers \cup Workers \subseteq Managers
  BY <1>1 DEF Inv, Reads, Windowed, Stagers, Placers, Installers, Claimers, Workers,
       Window, Live
<1>3. Domains'
  BY DEF Inv, Domains, Tidy, Step, Go, Put, Drop, world, Names, Databases
<1>4. Shape'
  BY <1>1 DEF Inv, Shape, Names
<1>5. Contents'
  BY <1>1, <1>2 DEF Inv, Contents, Databases
<1>6. Reads'
  BY <1>1, <1>2 DEF Inv, Reads, Window, Migrating
<1>7. AtWork'
  BY <1>1, <1>2 DEF Inv, AtWork
<1>8. Claims'
  BY <1>1, <1>2 DEF Inv, Claims
<1>9. Copies'
  BY <1>1, <1>2 DEF Inv, Copies, Copiers
<1>10. Intact'
  BY <1>1, <1>2 DEF Inv, Intact, Copiers, Original
<1>11. Placed'
  BY <1>1, <1>2 DEF Inv, Placed
<1>12. Retained'
  BY <1>1, <1>2 DEF Inv, Retained
<1>13. Exact'
  BY <1>1, <1>2 DEF Inv, Exact, Candidates
<1> QED BY <1>3, <1>4, <1>5, <1>6, <1>7, <1>8, <1>9, <1>10, <1>11, <1>12, <1>13 DEF Inv

LEMMA DisableStopKeeps ==
  ASSUME Inv, NEW m \in Managers,
         DisableStop(m)
  PROVE  Inv'
<1>1. /\ at[m] = "open" /\ cmd[m] = "stop"
      /\ marker # None /\ marker.closure = "confirmed"
      /\ at'[m] = "mark" /\ \A n \in Managers : n # m => at'[n] = at[n]
      /\ leaf'["database"] = leaf["database"] /\ leaf'["journal"] = leaf["journal"]
      /\ leaf'["staged"] = leaf["staged"] /\ leaf'["previous"] = leaf["previous"]
      /\ leaf'["environment"] \subseteq Files
      /\ held'[m] = marker /\ \A n \in Managers : n # m => held'[n] = held[n]
      /\ \A n \in Managers : n # m => valid'[n] = valid[n]
      /\ UNCHANGED <<inputs, active, disk, marker, cmd, seen, own, work>>
  BY DEF DisableStop, Step, Go, Put, Read, Readable, LeavesProven, world, Names, Inv,
       Domains
<1>2. /\ m \notin Windowed /\ Windowed' = Windowed
      /\ m \notin Stagers /\ Stagers' = Stagers
      /\ m \notin Placers /\ Placers' = Placers
      /\ m \notin Installers /\ Installers' = Installers
      /\ m \notin Claimers /\ Claimers' = Claimers
      /\ Workers' = Workers
      /\ Windowed \subseteq Stagers
      /\ Stagers \cup Placers \cup Windowed \cup Installers \cup Claimers \cup Workers \subseteq Managers
  BY <1>1 DEF Inv, Reads, Windowed, Stagers, Placers, Installers, Claimers, Workers,
       Window, Live
<1>3. Domains'
  BY DEF Inv, Domains, DisableStop, Step, Go, Put, Read, Readable, LeavesProven,
       world, Names
<1>4. Shape'
  BY <1>1 DEF Inv, Shape, Names
<1>5. Contents'
  BY <1>1, <1>2 DEF Inv, Contents, Databases
<1>6. Reads'
  BY <1>1, <1>2 DEF Inv, Reads, Window, Migrating
<1>7. AtWork'
  BY <1>1, <1>2 DEF Inv, AtWork
<1>8. Claims'
  BY <1>1, <1>2 DEF Inv, Claims
<1>9. Copies'
  BY <1>1, <1>2 DEF Inv, Copies, Copiers
<1>10. Intact'
  BY <1>1, <1>2 DEF Inv, Intact, Copiers, Original
<1>11. Placed'
  BY <1>1, <1>2 DEF Inv, Placed
<1>12. Retained'
  BY <1>1, <1>2 DEF Inv, Retained
<1>13. Exact'
  BY <1>1, <1>2 DEF Inv, Exact, Candidates
<1> QED BY <1>3, <1>4, <1>5, <1>6, <1>7, <1>8, <1>9, <1>10, <1>11, <1>12, <1>13 DEF Inv

LEMMA DiscardKeeps ==
  ASSUME Inv, NEW m \in Managers,
         Discard(m)
  PROVE  Inv'
<1>1. /\ at[m] = "discard" /\ held[m] # None
      /\ at'[m] = "sidecars" /\ \A n \in Managers : n # m => at'[n] = at[n]
      /\ leaf'["database"] = leaf["database"] /\ leaf'["journal"] = leaf["journal"]
      /\ leaf'["staged"] = leaf["staged"] /\ leaf'["previous"] = leaf["previous"]
      /\ leaf'["environment"] \subseteq Files
      /\ UNCHANGED <<inputs, active, disk, marker, cmd, seen, held, valid, own, work>>
  BY DEF Discard, Step, Go, Put, world, Reads, Names, Inv, Domains
<1>2. /\ m \notin Windowed /\ Windowed' = Windowed
      /\ m \notin Stagers /\ Stagers' = Stagers
      /\ m \notin Placers /\ Placers' = Placers
      /\ m \notin Installers /\ Installers' = Installers
      /\ m \notin Claimers /\ Claimers' = Claimers
      /\ Workers' = Workers
      /\ Windowed \subseteq Stagers
      /\ Stagers \cup Placers \cup Windowed \cup Installers \cup Claimers \cup Workers \subseteq Managers
  BY <1>1 DEF Inv, Reads, Windowed, Stagers, Placers, Installers, Claimers, Workers,
       Window, Live
<1>3. Domains'
  BY DEF Inv, Domains, Discard, Step, Go, Put, world, Names
<1>4. Shape'
  BY <1>1 DEF Inv, Shape, Names
<1>5. Contents'
  BY <1>1, <1>2 DEF Inv, Contents, Databases
<1>6. Reads'
  BY <1>1, <1>2 DEF Inv, Reads, Window, Migrating
<1>7. AtWork'
  BY <1>1, <1>2 DEF Inv, AtWork
<1>8. Claims'
  BY <1>1, <1>2 DEF Inv, Claims
<1>9. Copies'
  BY <1>1, <1>2 DEF Inv, Copies, Copiers
<1>10. Intact'
  BY <1>1, <1>2 DEF Inv, Intact, Copiers, Original
<1>11. Placed'
  BY <1>1, <1>2 DEF Inv, Placed
<1>12. Retained'
  BY <1>1, <1>2 DEF Inv, Retained
<1>13. Exact'
  BY <1>1, <1>2 DEF Inv, Exact, Candidates
<1> QED BY <1>3, <1>4, <1>5, <1>6, <1>7, <1>8, <1>9, <1>10, <1>11, <1>12, <1>13 DEF Inv

LEMMA DiscardSidecarsKeeps ==
  ASSUME Inv, NEW m \in Managers,
         DiscardSidecars(m)
  PROVE  Inv'
<1>1. /\ at[m] = "sidecars" /\ held[m] # None
      /\ at'[m] = "database" /\ \A n \in Managers : n # m => at'[n] = at[n]
      /\ held[m].journal # 0 => leaf["journal"] = {held[m].journal} \/ leaf["journal"] = {}
      /\ leaf'["journal"] = (IF held[m].journal = 0 THEN leaf["journal"] ELSE {})
      /\ leaf'["database"] = leaf["database"] /\ leaf'["environment"] = leaf["environment"]
      /\ leaf'["staged"] = leaf["staged"] /\ leaf'["previous"] = leaf["previous"]
      /\ UNCHANGED <<inputs, active, disk, marker, cmd, seen, held, valid, own, work>>
  BY FewLinks DEF DiscardSidecars, Step, Go, Put, SidecarsStand, world, Reads, Names,
       Inv, Domains
<1>2. /\ m \notin Windowed /\ Windowed' = Windowed
      /\ m \notin Stagers /\ Stagers' = Stagers
      /\ m \notin Placers /\ Placers' = Placers
      /\ m \notin Installers /\ Installers' = Installers
      /\ m \notin Claimers /\ Claimers' = Claimers
      /\ Workers' = Workers
      /\ Windowed \subseteq Stagers
      /\ Stagers \cup Placers \cup Windowed \cup Installers \cup Claimers \cup Workers \subseteq Managers
  BY <1>1 DEF Inv, Reads, Windowed, Stagers, Placers, Installers, Claimers, Workers,
       Window, Live
<1>3. Domains'
  BY DEF Inv, Domains, DiscardSidecars, Step, Go, Put, SidecarsStand, world, Names
<1>4. Shape'
  BY <1>1 DEF Inv, Shape, Names
<1>5. Contents'
  BY <1>1, <1>2 DEF Inv, Contents, Databases
<1>6. Reads'
  BY <1>1, <1>2 DEF Inv, Reads, Window, Migrating
<1>7. AtWork'
  BY <1>1, <1>2 DEF Inv, AtWork
<1>8. Claims'
  BY <1>1, <1>2 DEF Inv, Claims
<1>9. Copies'
  BY <1>1, <1>2 DEF Inv, Copies, Copiers
<1>10. Intact'
  BY <1>1, <1>2 DEF Inv, Intact, Copiers, Original
<1>11. Placed'
  BY <1>1, <1>2 DEF Inv, Placed
<1>12. Retained'
  BY <1>1, <1>2 DEF Inv, Retained
<1>13. Exact'
  BY <1>1, <1>2 DEF Inv, Exact, Candidates
<1> QED BY <1>3, <1>4, <1>5, <1>6, <1>7, <1>8, <1>9, <1>10, <1>11, <1>12, <1>13 DEF Inv

LEMMA DiscardDatabaseKeeps ==
  ASSUME Inv, NEW m \in Managers,
         DiscardDatabase(m)
  PROVE  Inv'
<1>1. /\ at[m] = "database" /\ held[m] # None
      /\ at'[m] = "marker" /\ \A n \in Managers : n # m => at'[n] = at[n]
      /\ leaf["database"] = {held[m].db} /\ held[m].db \notin leaf["previous"] /\ held[m].db \notin leaf["staged"]
      /\ leaf'["database"] = {}
      /\ leaf'["journal"] = leaf["journal"] /\ leaf'["environment"] = leaf["environment"]
      /\ leaf'["staged"] = leaf["staged"] /\ leaf'["previous"] = leaf["previous"]
      /\ disk' = {d \in disk : d.id # held[m].db}
      /\ UNCHANGED <<inputs, active, marker, cmd, seen, held, valid, own, work>>
  BY FewLinks DEF DiscardDatabase, Step, Go, Put, Drop, world, Reads, Names,
       Databases, Inv, Domains
<1>2. /\ m \notin Windowed /\ Windowed' = Windowed
      /\ m \notin Stagers /\ Stagers' = Stagers
      /\ m \notin Placers /\ Placers' = Placers
      /\ m \notin Installers /\ Installers' = Installers
      /\ m \notin Claimers /\ Claimers' = Claimers
      /\ Workers' = Workers
      /\ Windowed \subseteq Stagers
      /\ Stagers \cup Placers \cup Windowed \cup Installers \cup Claimers \cup Workers \subseteq Managers
  BY <1>1 DEF Inv, Reads, Windowed, Stagers, Placers, Installers, Claimers, Workers,
       Window, Live
<1>3. Domains'
  BY DEF Inv, Domains, DiscardDatabase, Step, Go, Put, Drop, world, Names, Databases
<1>4. Shape'
  BY <1>1 DEF Inv, Shape, Names
<1>5. Contents'
  BY <1>1, <1>2 DEF Inv, Contents, Databases
<1>6. Reads'
  BY <1>1, <1>2 DEF Inv, Reads, Window, Migrating
<1>7. AtWork'
  BY <1>1, <1>2 DEF Inv, AtWork
<1>8. Claims'
  BY <1>1, <1>2 DEF Inv, Claims
<1>9. Copies'
  BY <1>1, <1>2 DEF Inv, Copies, Copiers
<1>10. Intact'
  BY <1>1, <1>2 DEF Inv, Intact, Copiers, Original
<1>11. Placed'
  BY <1>1, <1>2 DEF Inv, Placed, Copies, Copiers, Installers
<1>12. Retained'
  BY <1>1, <1>2 DEF Inv, Retained
<1>13. Exact'
  BY <1>1, <1>2 DEF Inv, Exact, Candidates
<1> QED BY <1>3, <1>4, <1>5, <1>6, <1>7, <1>8, <1>9, <1>10, <1>11, <1>12, <1>13 DEF Inv

LEMMA DiscardMarkerKeeps ==
  ASSUME Inv, NEW m \in Managers,
         DiscardMarker(m)
  PROVE  Inv'
<1>1. /\ at[m] = "marker"
      /\ at'[m] = "record" /\ \A n \in Managers : n # m => at'[n] = at[n]
      /\ marker' = None
      /\ held'[m] = None /\ \A n \in Managers : n # m => held'[n] = held[n]
      /\ \A n \in Managers : ~valid'[n]
      /\ UNCHANGED <<inputs, active, leaf, disk, cmd, seen, own, work>>
  BY DEF DiscardMarker, Step, Go, Write, world, Inv, Domains
<1>2. /\ m \notin Windowed /\ Windowed' = Windowed
      /\ m \notin Stagers /\ Stagers' = Stagers
      /\ m \notin Placers /\ Placers' = Placers
      /\ m \notin Installers /\ Installers' = Installers
      /\ m \notin Claimers /\ Claimers' = Claimers
      /\ Workers' = Workers
      /\ Windowed \subseteq Stagers
      /\ Stagers \cup Placers \cup Windowed \cup Installers \cup Claimers \cup Workers \subseteq Managers
  BY <1>1 DEF Inv, Reads, Windowed, Stagers, Placers, Installers, Claimers, Workers,
       Window, Live
<1>3. Domains'
  BY DEF Inv, Domains, DiscardMarker, Step, Go, Write, world
<1>4. Shape'
  BY <1>1 DEF Inv, Shape, Names
<1>5. Contents'
  BY <1>1, <1>2 DEF Inv, Contents, Databases
<1>6. Reads'
  BY <1>1, <1>2 DEF Inv, Reads, Window, Migrating
<1>7. AtWork'
  BY <1>1, <1>2 DEF Inv, AtWork
<1>8. Claims'
  BY <1>1, <1>2 DEF Inv, Claims
<1>9. Copies'
  BY <1>1, <1>2 DEF Inv, Copies, Copiers
<1>10. Intact'
  BY <1>1, <1>2 DEF Inv, Intact, Copiers, Original
<1>11. Placed'
  BY <1>1, <1>2 DEF Inv, Placed
<1>12. Retained'
  BY <1>1, <1>2 DEF Inv, Retained
<1>13. Exact'
  BY <1>1, <1>2 DEF Inv, Exact, Candidates
<1> QED BY <1>3, <1>4, <1>5, <1>6, <1>7, <1>8, <1>9, <1>10, <1>11, <1>12, <1>13 DEF Inv

LEMMA SettleKeeps ==
  ASSUME Inv, NEW m \in Managers,
         Settle(m)
  PROVE  Inv'
<1>1. /\ at[m] = "settle"
      /\ at'[m] = "settled" /\ \A n \in Managers : n # m => at'[n] = at[n]
      /\ leaf["database"] = {held[m].db}
      /\ \E d \in disk : d.id = held[m].db /\ d.applied = Candidates(m) /\ d.hot = FALSE
      /\ UNCHANGED <<inputs, active, leaf, disk, marker, cmd, seen, held, valid, own, work>>
  <2>1. held[m] # None
    BY DEF Settle, Step, Inv, Reads, Migrating
  <2>2. Stands("database", held[m].db)
    BY <2>1 DEF Settle, Settled, LeavesProven
  <2>3. at[m] = "settle"
    BY DEF Settle, Step, Inv, Reads
  <2>4. at'[m] = "settled" /\ \A n \in Managers : n # m => at'[n] = at[n]
    BY DEF Settle, Step, Go, Inv, Domains
  <2>5. leaf["database"] = {held[m].db}
    BY <2>2 DEF Stands
  <2>6. \E d \in disk : d.id = held[m].db /\ d.applied = Candidates(m) /\ d.hot = FALSE
    BY <2>5 DEF Settle, Verifies, Inv, Shape, Rows
  <2>7. UNCHANGED <<inputs, active, leaf, disk, marker, cmd, seen, held, valid, own, work>>
    BY DEF Settle, Step, Go, world, files
  <2> QED BY <2>3, <2>4, <2>5, <2>6, <2>7
<1>2. /\ m \notin Windowed /\ Windowed' = Windowed
      /\ m \notin Stagers /\ Stagers' = Stagers
      /\ m \notin Placers /\ Placers' = Placers
      /\ m \notin Installers /\ Installers' = Installers
      /\ m \notin Claimers /\ Claimers' = Claimers
      /\ Workers' = Workers
      /\ Windowed \subseteq Stagers
      /\ Stagers \cup Placers \cup Windowed \cup Installers \cup Claimers \cup Workers \subseteq Managers
  BY <1>1 DEF Inv, Reads, Windowed, Stagers, Placers, Installers, Claimers, Workers,
       Window, Live
<1>3. Domains'
  BY DEF Inv, Domains, Settle, Step, Go, Settled, world, files
<1>4. Shape'
  BY <1>1 DEF Inv, Shape, Names
<1>5. Contents'
  BY <1>1, <1>2 DEF Inv, Contents, Databases
<1>6. Reads'
  BY <1>1, <1>2 DEF Inv, Reads, Window, Migrating
<1>7. AtWork'
  BY <1>1, <1>2 DEF Inv, AtWork
<1>8. Claims'
  BY <1>1, <1>2 DEF Inv, Claims
<1>9. Copies'
  BY <1>1, <1>2 DEF Inv, Copies, Copiers
<1>10. Intact'
  BY <1>1, <1>2 DEF Inv, Intact, Copiers, Original
<1>11. Placed'
  BY <1>1, <1>2 DEF Inv, Placed
<1>12. Retained'
  BY <1>1, <1>2 DEF Inv, Retained
<1>13. Exact'
  BY <1>1, <1>2 DEF Inv, Exact, Contents, Reads, Candidates
<1> QED BY <1>3, <1>4, <1>5, <1>6, <1>7, <1>8, <1>9, <1>10, <1>11, <1>12, <1>13 DEF Inv

LEMMA StageKeeps ==
  ASSUME Inv, NEW m \in Managers,
         Stage(m)
  PROVE  Inv'
<1> DEFINE f == Least(NewDatabase)
<1>0. /\ f \in Files /\ f \notin leaf["database"] /\ f \notin leaf["staged"]
      /\ f \notin leaf["previous"] /\ (marker # None => marker.db # f)
      /\ \A n \in Managers : held[n] # None => held[n].db # f
      /\ \A n \in Managers : own[n].db # f /\ own[n].old # f /\ work[n].file # f
  BY FreshDatabase DEF Stage
<1> DEFINE row == [id |-> f, base |-> active, applied |-> 0, hot |-> FALSE]
<1> HIDE DEF f, row
<1>1. /\ cmd[m] = "reset" /\ seen[m].base <= active
      /\ at[m] = "stage"
      /\ at'[m] = "swap" /\ \A n \in Managers : n # m => at'[n] = at[n]
      /\ leaf'["staged"] = leaf["staged"] \cup {f}
      /\ leaf'["database"] = leaf["database"] /\ leaf'["journal"] = leaf["journal"]
      /\ leaf'["environment"] = leaf["environment"] /\ leaf'["previous"] = leaf["previous"]
      /\ disk' = disk \cup {row} /\ row.id = f /\ row.base = active
      /\ disk' \subseteq Rows
      /\ \A d \in disk : d.id # f
      /\ own'[m].db = f /\ own'[m].old = own[m].old
      /\ own'[m].was = own[m].was /\ own'[m].side = own[m].side
      /\ seen[m].base < active \/ seen[m].base = active
      /\ seen[m].base = active => row = Original(m)'
      /\ row.hot = FALSE /\ row.applied = 0
      /\ own'[m] \in Memories
      /\ \A n \in Managers : n # m => own'[n] = own[n]
      /\ UNCHANGED <<inputs, active, marker, cmd, seen, held, valid, work>>
  <2>1. own' = [own EXCEPT ![m].db = f]
    BY DEF Stage, f
  <2>2. own[m] \in Memories /\ active \in Nat
    BY DEF Inv, Shape
  <2>3. row \in Rows
    BY <1>0, <2>2 DEF Rows, row
  <2>4. cmd[m] = "reset" /\ seen[m].base <= active
    BY DEF Stage, Step, Inv, Reads
  <2>5. at[m] = "stage"
    BY DEF Stage, Step, Inv, Reads
  <2>6. at'[m] = "swap" /\ \A n \in Managers : n # m => at'[n] = at[n]
    BY DEF Stage, Step, Go, Inv, Domains
  <2>7. /\ leaf'["staged"] = leaf["staged"] \cup {f}
         /\ leaf'["database"] = leaf["database"] /\ leaf'["journal"] = leaf["journal"]
         /\ leaf'["environment"] = leaf["environment"] /\ leaf'["previous"] = leaf["previous"]
    BY DEF Stage, Put, Inv, Domains, Names, f
  <2>8. disk' = disk \cup {row} /\ row.id = f /\ row.base = active
    BY DEF Stage, f, row
  <2>9. disk' \subseteq Rows
    BY <2>3, <2>8 DEF Inv, Shape
  <2>10. \A d \in disk : d.id # f
    BY <1>0 DEF Inv, Contents, Databases
  <2>11. own'[m].db = f /\ own'[m].old = own[m].old
    BY <2>1, <2>2 DEF Inv, Domains, Memories
  <2>12. own'[m].was = own[m].was /\ own'[m].side = own[m].side
    BY <2>1, <2>2 DEF Inv, Domains, Memories
  <2>13. seen[m].base < active \/ seen[m].base = active
    BY <2>2, <2>4, <2>5 DEF Inv, Reads, Sights
  <2>14. seen[m].base = active => row = Original(m)'
    BY <2>11 DEF Stage, Original, row
  <2>15. row.hot = FALSE /\ row.applied = 0
    BY DEF row
  <2>16. own'[m] \in Memories
    BY <1>0, <2>1, <2>2 DEF Inv, Domains, Memories, Sides
  <2>17. \A n \in Managers : n # m => own'[n] = own[n]
    BY <2>1 DEF Inv, Domains
  <2>18. UNCHANGED <<inputs, active, marker, cmd, seen, held, valid, work>>
    BY DEF Stage, Step, Go, Put, world
  <2> QED BY <2>4, <2>5, <2>6, <2>7, <2>8, <2>9, <2>10, <2>11, <2>12, <2>13, <2>14,
       <2>15, <2>16, <2>17, <2>18
<1>2. /\ m \notin Windowed /\ Windowed' = Windowed
      /\ m \notin Stagers /\ Stagers' = Stagers \cup {m}
      /\ m \notin Placers /\ Placers' = Placers
      /\ m \notin Installers /\ Installers' = Installers
      /\ m \notin Claimers /\ Claimers' = Claimers
      /\ Workers' = Workers
      /\ Windowed \subseteq Stagers
      /\ Stagers \cup Placers \cup Windowed \cup Installers \cup Claimers \cup Workers \subseteq Managers
  BY <1>1 DEF Inv, Reads, Windowed, Stagers, Placers, Installers, Claimers, Workers,
       Window, Live
<1>3. Domains'
  BY DEF Inv, Domains, Stage, Step, Go, Put, world
<1>4. Shape'
  BY <1>1, <1>0 DEF Inv, Shape, Names
<1>5. Contents'
  BY <1>1, <1>2, <1>0 DEF Inv, Contents, Databases
<1>6. Reads'
  BY <1>1, <1>2, <1>0 DEF Inv, Reads, Window, Migrating
<1>7. AtWork'
  BY <1>1, <1>2, <1>0 DEF Inv, AtWork
<1>8. Claims'
  BY <1>1, <1>2, <1>0 DEF Inv, Claims
<1>9. Copies'
  BY <1>1, <1>2, <1>0 DEF Inv, Copies, Copiers
<1>10. Intact'
  BY <1>1, <1>2, <1>0 DEF Inv, Intact, Copiers, Original
<1>11. Placed'
  BY <1>1, <1>2, <1>0 DEF Inv, Placed
<1>12. Retained'
  BY <1>1, <1>2, <1>0 DEF Inv, Retained
<1>13. Exact'
  BY <1>1, <1>2, <1>0 DEF Inv, Exact, Reads, Candidates
<1> QED BY <1>3, <1>4, <1>5, <1>6, <1>7, <1>8, <1>9, <1>10, <1>11, <1>12, <1>13 DEF Inv

LEMMA EnableKeeps ==
  ASSUME Inv, NEW m \in Managers,
         Enable(m)
  PROVE  Inv'
<1>1. /\ at[m] = "enable" /\ cmd[m] = "reset"
      /\ at'[m] = "mark" /\ \A n \in Managers : n # m => at'[n] = at[n]
      /\ leaf'["database"] = leaf["database"] /\ leaf'["journal"] = leaf["journal"]
      /\ leaf'["staged"] = leaf["staged"] /\ leaf'["previous"] = leaf["previous"]
      /\ leaf'["environment"] \subseteq Files
      /\ own'[m].db = own[m].db /\ own'[m].old = own[m].old /\ own'[m].was = own[m].was
      /\ own'[m] \in Memories
      /\ \A n \in Managers : n # m => own'[n] = own[n]
      /\ UNCHANGED <<inputs, active, disk, marker, cmd, seen, held, valid, work>>
  <2>1. own' = [own EXCEPT ![m].side = Least(NewEnvironment)]
    BY DEF Enable, MakeEnvironment
  <2>2. own[m] \in Memories /\ Least(NewEnvironment) \in Files
    BY FreshEnvironment DEF Inv, Shape, Enable, MakeEnvironment
  <2>3. at[m] = "enable" /\ cmd[m] = "reset"
    BY DEF Enable, Step, Inv, Reads
  <2>4. at'[m] = "mark" /\ \A n \in Managers : n # m => at'[n] = at[n]
    BY DEF Enable, Step, Go, Inv, Domains
  <2>5. /\ leaf'["database"] = leaf["database"] /\ leaf'["journal"] = leaf["journal"]
         /\ leaf'["staged"] = leaf["staged"] /\ leaf'["previous"] = leaf["previous"]
         /\ leaf'["environment"] \subseteq Files
    BY <2>2 DEF Enable, MakeEnvironment, Put, Inv, Domains, Names
  <2>6. own'[m].db = own[m].db /\ own'[m].old = own[m].old /\ own'[m].was = own[m].was
    BY <2>1, <2>2 DEF Inv, Domains, Memories
  <2>7. own'[m] \in Memories
    BY <2>1, <2>2 DEF Inv, Domains, Memories, Sides
  <2>8. \A n \in Managers : n # m => own'[n] = own[n]
    BY <2>1 DEF Inv, Domains
  <2>9. UNCHANGED <<inputs, active, disk, marker, cmd, seen, held, valid, work>>
    BY DEF Enable, Step, Go, Put, MakeEnvironment, world
  <2> QED BY <2>3, <2>4, <2>5, <2>6, <2>7, <2>8, <2>9
<1>2. /\ m \notin Windowed /\ Windowed' = Windowed
      /\ m \notin Stagers /\ Stagers' = Stagers
      /\ m \in Placers /\ Placers' = Placers
      /\ m \in Installers /\ Installers' = Installers
      /\ m \notin Claimers /\ Claimers' = Claimers
      /\ Workers' = Workers
      /\ Windowed \subseteq Stagers
      /\ Stagers \cup Placers \cup Windowed \cup Installers \cup Claimers \cup Workers \subseteq Managers
  BY <1>1 DEF Inv, Reads, Windowed, Stagers, Placers, Installers, Claimers, Workers,
       Window, Live
<1>3. Domains'
  BY DEF Inv, Domains, Enable, Step, Go, Put, MakeEnvironment, world
<1>4. Shape'
  BY <1>1 DEF Inv, Shape, Names
<1>5. Contents'
  BY <1>1, <1>2 DEF Inv, Contents, Databases
<1>6. Reads'
  BY <1>1, <1>2 DEF Inv, Reads, Window, Migrating
<1>7. AtWork'
  BY <1>1, <1>2 DEF Inv, AtWork
<1>8. Claims'
  BY <1>1, <1>2 DEF Inv, Claims
<1>9. Copies'
  BY <1>1, <1>2 DEF Inv, Copies, Copiers
<1>10. Intact'
  BY <1>1, <1>2 DEF Inv, Intact, Copiers, Original
<1>11. Placed'
  BY <1>1, <1>2 DEF Inv, Placed
<1>12. Retained'
  BY <1>1, <1>2 DEF Inv, Retained
<1>13. Exact'
  BY <1>1, <1>2 DEF Inv, Exact, Candidates
<1> QED BY <1>3, <1>4, <1>5, <1>6, <1>7, <1>8, <1>9, <1>10, <1>11, <1>12, <1>13 DEF Inv

LEMMA EnableStartKeeps ==
  ASSUME Inv, NEW m \in Managers,
         EnableStart(m)
  PROVE  Inv'
<1>1. /\ at[m] = "checked" /\ cmd[m] = "start" /\ held[m] # None /\ held[m].state # "dirty"
      /\ at'[m] = "mark" /\ \A n \in Managers : n # m => at'[n] = at[n]
      /\ leaf'["database"] = leaf["database"] /\ leaf'["journal"] = leaf["journal"]
      /\ leaf'["staged"] = leaf["staged"] /\ leaf'["previous"] = leaf["previous"]
      /\ leaf'["environment"] \subseteq Files
      /\ own'[m].db = own[m].db /\ own'[m].old = own[m].old /\ own'[m].was = own[m].was
      /\ own'[m] \in Memories
      /\ \A n \in Managers : n # m => own'[n] = own[n]
      /\ UNCHANGED <<inputs, active, disk, marker, cmd, seen, held, valid, work>>
  <2>1. \/ own' = [own EXCEPT ![m].side = Least(NewEnvironment)] /\ NewEnvironment # {}
        \/ own' = [own EXCEPT ![m].side = held[m].env]
    BY DEF EnableStart, MakeEnvironment
  <2>2. held[m] # None
    BY DEF EnableStart, Checked, Inv, Reads
  <2>3. own[m] \in Memories /\ held[m].env \in Sides /\ (NewEnvironment # {} => Least(NewEnvironment) \in Files)
    BY <2>2, FreshEnvironment DEF Inv, Shape, Markers, Sides
  <2>4. at[m] = "checked" /\ cmd[m] = "start" /\ held[m] # None /\ held[m].state # "dirty"
    BY <2>2 DEF EnableStart, Checked, Inv, Reads
  <2>5. at'[m] = "mark" /\ \A n \in Managers : n # m => at'[n] = at[n]
    BY DEF EnableStart, Go, Inv, Domains
  <2>6. /\ leaf'["database"] = leaf["database"] /\ leaf'["journal"] = leaf["journal"]
         /\ leaf'["staged"] = leaf["staged"] /\ leaf'["previous"] = leaf["previous"]
         /\ leaf'["environment"] \subseteq Files
    BY <2>3 DEF EnableStart, MakeEnvironment, Put, Inv, Domains, Names, Shape
  <2>7. own'[m].db = own[m].db /\ own'[m].old = own[m].old /\ own'[m].was = own[m].was
    BY <2>1, <2>3 DEF Inv, Domains, Memories
  <2>8. own'[m] \in Memories
    BY <2>1, <2>3 DEF Inv, Domains, Memories, Sides
  <2>9. \A n \in Managers : n # m => own'[n] = own[n]
    BY <2>1 DEF Inv, Domains
  <2>10. UNCHANGED <<inputs, active, disk, marker, cmd, seen, held, valid, work>>
    BY DEF EnableStart, Checked, Go, Put, MakeEnvironment, world
  <2> QED BY <2>4, <2>5, <2>6, <2>7, <2>8, <2>9, <2>10
<1>2. /\ m \notin Windowed /\ Windowed' = Windowed
      /\ m \notin Stagers /\ Stagers' = Stagers
      /\ m \notin Placers /\ Placers' = Placers
      /\ m \notin Installers /\ Installers' = Installers
      /\ m \notin Claimers /\ Claimers' = Claimers
      /\ Workers' = Workers
      /\ Windowed \subseteq Stagers
      /\ Stagers \cup Placers \cup Windowed \cup Installers \cup Claimers \cup Workers \subseteq Managers
  BY <1>1 DEF Inv, Reads, Windowed, Stagers, Placers, Installers, Claimers, Workers,
       Window, Live
<1>3. Domains'
  BY DEF Inv, Domains, EnableStart, Checked, Go, Put, MakeEnvironment, world
<1>4. Shape'
  BY <1>1 DEF Inv, Shape, Names
<1>5. Contents'
  BY <1>1, <1>2 DEF Inv, Contents, Databases
<1>6. Reads'
  BY <1>1, <1>2 DEF Inv, Reads, Window, Migrating
<1>7. AtWork'
  BY <1>1, <1>2 DEF Inv, AtWork
<1>8. Claims'
  BY <1>1, <1>2 DEF Inv, Claims
<1>9. Copies'
  BY <1>1, <1>2 DEF Inv, Copies, Copiers
<1>10. Intact'
  BY <1>1, <1>2 DEF Inv, Intact, Copiers, Original
<1>11. Placed'
  BY <1>1, <1>2 DEF Inv, Placed
<1>12. Retained'
  BY <1>1, <1>2 DEF Inv, Retained
<1>13. Exact'
  BY <1>1, <1>2 DEF Inv, Exact, Candidates
<1> QED BY <1>3, <1>4, <1>5, <1>6, <1>7, <1>8, <1>9, <1>10, <1>11, <1>12, <1>13 DEF Inv

LEMMA ClaimJournalKeeps ==
  ASSUME Inv, NEW m \in Managers,
         ClaimJournal(m)
  PROVE  Inv'
<1> DEFINE f == Least(NewJournal)
<1>0. /\ f \in Files /\ f # 0 /\ (marker # None => marker.journal # f)
      /\ \A n \in Managers : held[n] # None => held[n].journal # f
  BY FreshJournal DEF ClaimJournal
<1> HIDE DEF f
<1>1. /\ at[m] = "checked" /\ cmd[m] = "migrate" /\ held[m] # None /\ held[m].state # "dirty"
      /\ at'[m] = "mark" /\ \A n \in Managers : n # m => at'[n] = at[n]
      /\ leaf["journal"] = {} /\ leaf["database"] = {held[m].db}
      /\ \A n \in Installers : held[n] # None
      /\ leaf'["journal"] = {f}
      /\ leaf'["database"] = leaf["database"] /\ leaf'["environment"] = leaf["environment"]
      /\ leaf'["staged"] = leaf["staged"] /\ leaf'["previous"] = leaf["previous"]
      /\ own'[m].db = own[m].db /\ own'[m].old = own[m].old
      /\ own'[m].side = f /\ own'[m].was = held[m].state
      /\ own'[m] \in Memories
      /\ \A n \in Managers : n # m => own'[n] = own[n]
      /\ UNCHANGED <<inputs, active, disk, marker, cmd, seen, held, valid, work>>
  <2>1. own' = [own EXCEPT ![m].side = f, ![m].was = held[m].state]
    BY DEF ClaimJournal, f
  <2>2. held[m] # None /\ held[m] \in Markers
    BY DEF ClaimJournal, Checked, Inv, Reads, Shape
  <2>3. own[m] \in Memories
    BY DEF Inv, Shape
  <2>4. held[m].state \in {"running", "stopped", "dirty"}
    BY <2>2 DEF Markers
  <2>5. at[m] = "checked" /\ cmd[m] = "migrate" /\ held[m] # None /\ held[m].state # "dirty"
    BY <2>2 DEF ClaimJournal, Checked, Inv, Reads
  <2>6. at'[m] = "mark" /\ \A n \in Managers : n # m => at'[n] = at[n]
    BY DEF ClaimJournal, Go, Inv, Domains
  <2>7. leaf["journal"] = {} /\ leaf["database"] = {held[m].db}
    BY DEF ClaimJournal, Checked, Stands
  <2>8. \A n \in Installers : held[n] # None
    <3>1. leaf["database"] # {}
      BY <2>7
    <3>2. \A n \in Windowed : at[n] # "install"
      BY <3>1 DEF Inv, Placed
    <3>3. Installers \subseteq Placers
      BY <3>2 DEF Installers, Windowed, Window
    <3>4. \A n \in Placers : leaf["database"] = {own[n].db} /\ own[n].db # marker.db /\ held[m] = marker
      BY DEF ClaimJournal, Checked, Inv, Placed, Copies, Copiers, Reads
    <3> QED BY <2>7, <3>3, <3>4
  <2>9. /\ leaf'["journal"] = {f}
         /\ leaf'["database"] = leaf["database"] /\ leaf'["environment"] = leaf["environment"]
         /\ leaf'["staged"] = leaf["staged"] /\ leaf'["previous"] = leaf["previous"]
    BY DEF ClaimJournal, Put, Inv, Domains, Names, f
  <2>10. own'[m].db = own[m].db /\ own'[m].old = own[m].old
    BY <2>1, <2>3 DEF Inv, Domains, Memories
  <2>11. own'[m].side = f /\ own'[m].was = held[m].state
    BY <2>1, <2>3 DEF Inv, Domains, Memories
  <2>12. own'[m] \in Memories
    BY <1>0, <2>1, <2>3, <2>4 DEF Inv, Domains, Memories, Sides
  <2>13. \A n \in Managers : n # m => own'[n] = own[n]
    BY <2>1 DEF Inv, Domains
  <2>14. UNCHANGED <<inputs, active, disk, marker, cmd, seen, held, valid, work>>
    BY DEF ClaimJournal, Checked, Go, Put, world
  <2> QED BY <2>5, <2>6, <2>7, <2>8, <2>9, <2>10, <2>11, <2>12, <2>13, <2>14
<1>2. /\ m \notin Windowed /\ Windowed' = Windowed
      /\ m \notin Stagers /\ Stagers' = Stagers
      /\ m \notin Placers /\ Placers' = Placers
      /\ m \notin Installers /\ Installers' = Installers
      /\ m \notin Claimers /\ Claimers' = Claimers \cup {m}
      /\ Workers' = Workers
      /\ Windowed \subseteq Stagers
      /\ Stagers \cup Placers \cup Windowed \cup Installers \cup Claimers \cup Workers \subseteq Managers
  BY <1>1 DEF Inv, Reads, Windowed, Stagers, Placers, Installers, Claimers, Workers,
       Window, Live
<1>3. Domains'
  BY DEF Inv, Domains, ClaimJournal, Checked, Go, Put, world
<1>4. Shape'
  BY <1>1, <1>0 DEF Inv, Shape, Names
<1>5. Contents'
  BY <1>1, <1>2, <1>0 DEF Inv, Contents, Databases
<1>6. Reads'
  BY <1>1, <1>2, <1>0 DEF Inv, Reads, Window, Migrating
<1>7. AtWork'
  BY <1>1, <1>2, <1>0 DEF Inv, AtWork, Claims
<1>8. Claims'
  <2>1. Claimers = {} /\ Workers = {}
    BY <1>1 DEF Inv, Claims, AtWork
  <2>2. Claimers' = {m} /\ Workers' = {}
    BY <1>2, <2>1
  <2> QED BY <1>0, <1>1, <2>2 DEF Claims
<1>9. Copies'
  BY <1>1, <1>2, <1>0 DEF Inv, Copies, Copiers
<1>10. Intact'
  BY <1>1, <1>2, <1>0 DEF Inv, Intact, Copiers, Original
<1>11. Placed'
  <2>1. Windowed' = Windowed /\ Placers' = Placers /\ Installers' = Installers
    BY <1>2
  <2>2. \A n \in Windowed \cup Placers \cup Installers :
          n # m /\ at'[n] = at[n] /\ own'[n] = own[n] /\ held'[n] = held[n]
    BY <1>1, <1>2
  <2>3. /\ leaf'["database"] = leaf["database"] /\ leaf'["previous"] = leaf["previous"]
        /\ \A n \in Installers : held[n] # None
    BY <1>1
  <2> QED BY <2>1, <2>2, <2>3 DEF Inv, Placed
<1>12. Retained'
  BY <1>1, <1>2, <1>0 DEF Inv, Retained
<1>13. Exact'
  BY <1>1, <1>2, <1>0 DEF Inv, Exact, Candidates
<1> QED BY <1>3, <1>4, <1>5, <1>6, <1>7, <1>8, <1>9, <1>10, <1>11, <1>12, <1>13 DEF Inv

LEMMA RetainKeeps ==
  ASSUME Inv, NEW m \in Managers,
         Retain(m)
  PROVE  Inv'
<1>1. /\ at[m] = "retain" /\ held[m] # None
      /\ at'[m] = "unlink" /\ \A n \in Managers : n # m => at'[n] = at[n]
      /\ leaf["database"] = {held[m].db} /\ held[m].db \in Files
      /\ leaf'["previous"] = leaf["previous"] \cup leaf["database"]
      /\ leaf'["database"] = leaf["database"] /\ leaf'["journal"] = leaf["journal"]
      /\ leaf'["environment"] = leaf["environment"] /\ leaf'["staged"] = leaf["staged"]
      /\ own'[m].db = own[m].db /\ own'[m].old = held[m].db
      /\ own'[m].was = own[m].was /\ own'[m].side = own[m].side
      /\ own'[m] \in Memories
      /\ \A n \in Managers : n # m => own'[n] = own[n]
      /\ UNCHANGED <<inputs, active, disk, marker, cmd, seen, held, valid, work>>
  <2>1. own' = [own EXCEPT ![m].old = held[m].db]
    BY DEF Retain
  <2>2. held[m] # None /\ held[m] \in Markers /\ own[m] \in Memories
    BY DEF Retain, Step, Inv, Reads, Window, Shape
  <2>3. leaf["database"] \subseteq {held[m].db}
    BY DEF Retain, Step, Inv, Placed, Windowed, Window
  <2>4. at[m] = "retain" /\ held[m] # None
    BY DEF Retain, Step, Inv, Reads, Window
  <2>5. at'[m] = "unlink" /\ \A n \in Managers : n # m => at'[n] = at[n]
    BY DEF Retain, Step, Go, Inv, Domains
  <2>6. leaf["database"] = {held[m].db} /\ held[m].db \in Files
    BY <2>2, <2>3 DEF Retain, Markers
  <2>7. /\ leaf'["previous"] = leaf["previous"] \cup leaf["database"]
         /\ leaf'["database"] = leaf["database"] /\ leaf'["journal"] = leaf["journal"]
         /\ leaf'["environment"] = leaf["environment"] /\ leaf'["staged"] = leaf["staged"]
    BY DEF Retain, Put, Inv, Domains, Names
  <2>8. own'[m].db = own[m].db /\ own'[m].old = held[m].db
    BY <2>1, <2>2 DEF Inv, Domains, Memories
  <2>9. own'[m].was = own[m].was /\ own'[m].side = own[m].side
    BY <2>1, <2>2 DEF Inv, Domains, Memories
  <2>10. own'[m] \in Memories
    BY <2>1, <2>2 DEF Inv, Domains, Memories, Sides, Markers
  <2>11. \A n \in Managers : n # m => own'[n] = own[n]
    BY <2>1 DEF Inv, Domains
  <2>12. UNCHANGED <<inputs, active, disk, marker, cmd, seen, held, valid, work>>
    BY DEF Retain, Step, Go, Put, world
  <2> QED BY <2>4, <2>5, <2>6, <2>7, <2>8, <2>9, <2>10, <2>11, <2>12
<1>2. /\ m \in Windowed /\ Windowed' = Windowed
      /\ m \in Stagers /\ Stagers' = Stagers
      /\ m \notin Placers /\ Placers' = Placers
      /\ m \notin Installers /\ Installers' = Installers
      /\ m \notin Claimers /\ Claimers' = Claimers
      /\ Workers' = Workers
      /\ Windowed \subseteq Stagers
      /\ Stagers \cup Placers \cup Windowed \cup Installers \cup Claimers \cup Workers \subseteq Managers
  BY <1>1 DEF Inv, Reads, Windowed, Stagers, Placers, Installers, Claimers, Workers,
       Window, Live
<1>3. Domains'
  BY DEF Inv, Domains, Retain, Step, Go, Put, world
<1>4. Shape'
  BY <1>1 DEF Inv, Shape, Names
<1>5. Contents'
  BY <1>1, <1>2 DEF Inv, Contents, Databases
<1>6. Reads'
  BY <1>1, <1>2 DEF Inv, Reads, Window, Migrating
<1>7. AtWork'
  BY <1>1, <1>2 DEF Inv, AtWork
<1>8. Claims'
  BY <1>1, <1>2 DEF Inv, Claims
<1>9. Copies'
  BY <1>1, <1>2 DEF Inv, Copies, Copiers
<1>10. Intact'
  BY <1>1, <1>2 DEF Inv, Intact, Copiers, Original
<1>11. Placed'
  BY <1>1, <1>2 DEF Inv, Placed
<1>12. Retained'
  BY <1>1, <1>2 DEF Inv, Retained
<1>13. Exact'
  BY <1>1, <1>2 DEF Inv, Exact, Candidates
<1> QED BY <1>3, <1>4, <1>5, <1>6, <1>7, <1>8, <1>9, <1>10, <1>11, <1>12, <1>13 DEF Inv

LEMMA MarkStartKeeps ==
  ASSUME Inv, NEW m \in Managers,
         MarkStart(m)
  PROVE  Inv'
<1>1. /\ at[m] = "mark" /\ cmd[m] = "start" /\ held[m].state # "dirty"
      /\ held[m] # None /\ held[m] = marker /\ valid[m]
      /\ held[m].closure = "confirmed"
      /\ marker' \in Markers /\ marker' # None
      /\ marker'.base = held[m].base /\ marker'.db = held[m].db /\ marker'.applied = held[m].applied
      /\ marker'.state = "running" /\ marker'.closure = held[m].closure /\ marker'.journal = held[m].journal
      /\ held'[m] = marker' /\ \A n \in Managers : n # m => held'[n] = held[n]
      /\ \A n \in Managers : valid'[n] => n = m
      /\ at'[m] = "ok" /\ \A n \in Managers : n # m => at'[n] = at[n]
      /\ UNCHANGED <<inputs, active, leaf, disk, cmd, seen, own, work>>
  <2>1. /\ held[m] # None /\ held[m] \in Markers /\ held[m] = marker /\ valid[m]
        /\ held[m].closure = "confirmed"
    BY DEF MarkStart, Step, Current, Inv, Reads, Shape, Migrating
  <2>2. marker' = [held[m] EXCEPT !.state = "running", !.env = own[m].side]
    BY DEF MarkStart, Write
  <2>3. own[m].side \in Sides
    BY DEF Inv, Shape, Memories
  <2>4. at[m] = "mark" /\ cmd[m] = "start" /\ held[m].state # "dirty"
    BY <2>1 DEF MarkStart, Step, Inv, Reads, Live, Migrating
  <2>5. held[m] # None /\ held[m] = marker /\ valid[m]
    BY <2>1
  <2>6. held[m].closure = "confirmed"
    BY <2>1
  <2>7. marker' \in Markers /\ marker' # None
    BY <2>1, <2>2, <2>3, SqliteAssumption DEF Markers, Sides
  <2>8. marker'.base = held[m].base /\ marker'.db = held[m].db /\ marker'.applied = held[m].applied
    BY <2>1, <2>2 DEF Markers
  <2>9. marker'.state = "running" /\ marker'.closure = held[m].closure /\ marker'.journal = held[m].journal
    BY <2>1, <2>2 DEF Markers
  <2>10. held'[m] = marker' /\ \A n \in Managers : n # m => held'[n] = held[n]
    BY DEF MarkStart, Write, Inv, Domains
  <2>11. \A n \in Managers : valid'[n] => n = m
    BY DEF MarkStart, Write, Inv, Domains
  <2>12. at'[m] = "ok" /\ \A n \in Managers : n # m => at'[n] = at[n]
    BY DEF MarkStart, Step, Go, Inv, Domains
  <2>13. UNCHANGED <<inputs, active, leaf, disk, cmd, seen, own, work>>
    BY DEF MarkStart, Step, Go, Write, world
  <2> QED BY <2>4, <2>5, <2>6, <2>7, <2>8, <2>9, <2>10, <2>11, <2>12, <2>13
<1>2. /\ m \notin Windowed /\ Windowed' = Windowed
      /\ m \notin Stagers /\ Stagers' = Stagers
      /\ m \notin Placers /\ Placers' = Placers
      /\ m \notin Installers /\ Installers' = Installers
      /\ m \notin Claimers /\ Claimers' = Claimers
      /\ Workers' = Workers
      /\ Windowed \subseteq Stagers
      /\ Stagers \cup Placers \cup Windowed \cup Installers \cup Claimers \cup Workers \subseteq Managers
  BY <1>1 DEF Inv, Reads, Windowed, Stagers, Placers, Installers, Claimers, Workers,
       Window, Live
<1>3. Domains'
  BY DEF Inv, Domains, MarkStart, Step, Go, Write, world
<1>4. Shape'
  BY <1>1 DEF Inv, Shape, Names
<1>5. Contents'
  BY <1>1, <1>2 DEF Inv, Contents, Databases
<1>6. Reads'
  BY <1>1, <1>2 DEF Inv, Reads, Window, Migrating
<1>7. AtWork'
  BY <1>1, <1>2 DEF Inv, AtWork, Reads
<1>8. Claims'
  BY <1>1, <1>2 DEF Inv, Claims
<1>9. Copies'
  BY <1>1, <1>2 DEF Inv, Copies, Copiers
<1>10. Intact'
  BY <1>1, <1>2 DEF Inv, Intact, Copiers, Original
<1>11. Placed'
  BY <1>1, <1>2 DEF Inv, Placed
<1>12. Retained'
  BY <1>1, <1>2 DEF Inv, Retained
<1>13. Exact'
  BY <1>1, <1>2 DEF Inv, Exact, Candidates
<1> QED BY <1>3, <1>4, <1>5, <1>6, <1>7, <1>8, <1>9, <1>10, <1>11, <1>12, <1>13 DEF Inv

LEMMA MarkStopKeeps ==
  ASSUME Inv, NEW m \in Managers,
         MarkStop(m)
  PROVE  Inv'
<1>1. /\ at[m] = "mark" /\ cmd[m] = "stop"
      /\ held[m] # None /\ held[m] = marker /\ valid[m]
      /\ held[m].closure = "confirmed"
      /\ marker' \in Markers /\ marker' # None
      /\ marker'.base = held[m].base /\ marker'.db = held[m].db /\ marker'.applied = held[m].applied
      /\ marker'.state = (IF held[m].state = "dirty" THEN "dirty" ELSE "stopped") /\ marker'.closure = held[m].closure /\ marker'.journal = held[m].journal
      /\ held'[m] = marker' /\ \A n \in Managers : n # m => held'[n] = held[n]
      /\ \A n \in Managers : valid'[n] => n = m
      /\ at'[m] = "ok" /\ \A n \in Managers : n # m => at'[n] = at[n]
      /\ UNCHANGED <<inputs, active, leaf, disk, cmd, seen, own, work>>
  <2>1. /\ held[m] # None /\ held[m] \in Markers /\ held[m] = marker /\ valid[m]
        /\ held[m].closure = "confirmed"
    BY DEF MarkStop, Step, Current, Inv, Reads, Shape, Migrating
  <2>2. marker' = [held[m] EXCEPT !.env = 0,
                                  !.state = IF @ = "dirty" THEN "dirty" ELSE "stopped"]
    BY DEF MarkStop, Write
  <2>3. at[m] = "mark" /\ cmd[m] = "stop"
    BY <2>1 DEF MarkStop, Step, Inv, Reads, Live, Migrating
  <2>4. held[m] # None /\ held[m] = marker /\ valid[m]
    BY <2>1
  <2>5. held[m].closure = "confirmed"
    BY <2>1
  <2>6. marker' \in Markers /\ marker' # None
    BY <2>1, <2>2, SqliteAssumption DEF Markers
  <2>7. marker'.base = held[m].base /\ marker'.db = held[m].db /\ marker'.applied = held[m].applied
    BY <2>1, <2>2 DEF Markers
  <2>8. marker'.state = (IF held[m].state = "dirty" THEN "dirty" ELSE "stopped") /\ marker'.closure = held[m].closure /\ marker'.journal = held[m].journal
    BY <2>1, <2>2 DEF Markers
  <2>9. held'[m] = marker' /\ \A n \in Managers : n # m => held'[n] = held[n]
    BY DEF MarkStop, Write, Inv, Domains
  <2>10. \A n \in Managers : valid'[n] => n = m
    BY DEF MarkStop, Write, Inv, Domains
  <2>11. at'[m] = "ok" /\ \A n \in Managers : n # m => at'[n] = at[n]
    BY DEF MarkStop, Step, Go, Inv, Domains
  <2>12. UNCHANGED <<inputs, active, leaf, disk, cmd, seen, own, work>>
    BY DEF MarkStop, Step, Go, Write, world
  <2> QED BY <2>3, <2>4, <2>5, <2>6, <2>7, <2>8, <2>9, <2>10, <2>11, <2>12
<1>2. /\ m \notin Windowed /\ Windowed' = Windowed
      /\ m \notin Stagers /\ Stagers' = Stagers
      /\ m \notin Placers /\ Placers' = Placers
      /\ m \notin Installers /\ Installers' = Installers
      /\ m \notin Claimers /\ Claimers' = Claimers
      /\ Workers' = Workers
      /\ Windowed \subseteq Stagers
      /\ Stagers \cup Placers \cup Windowed \cup Installers \cup Claimers \cup Workers \subseteq Managers
  BY <1>1 DEF Inv, Reads, Windowed, Stagers, Placers, Installers, Claimers, Workers,
       Window, Live
<1>3. Domains'
  BY DEF Inv, Domains, MarkStop, Step, Go, Write, world
<1>4. Shape'
  BY <1>1 DEF Inv, Shape, Names
<1>5. Contents'
  BY <1>1, <1>2 DEF Inv, Contents, Databases
<1>6. Reads'
  BY <1>1, <1>2 DEF Inv, Reads, Window, Migrating
<1>7. AtWork'
  BY <1>1, <1>2 DEF Inv, AtWork, Reads
<1>8. Claims'
  BY <1>1, <1>2 DEF Inv, Claims
<1>9. Copies'
  BY <1>1, <1>2 DEF Inv, Copies, Copiers
<1>10. Intact'
  BY <1>1, <1>2 DEF Inv, Intact, Copiers, Original
<1>11. Placed'
  BY <1>1, <1>2 DEF Inv, Placed
<1>12. Retained'
  BY <1>1, <1>2 DEF Inv, Retained
<1>13. Exact'
  BY <1>1, <1>2 DEF Inv, Exact, Candidates
<1> QED BY <1>3, <1>4, <1>5, <1>6, <1>7, <1>8, <1>9, <1>10, <1>11, <1>12, <1>13 DEF Inv

LEMMA MigratedKeeps ==
  ASSUME Inv, NEW m \in Managers,
         Migrated(m)
  PROVE  Inv'
<1>1. /\ at[m] = "migrating" /\ ~Live(work[m]) /\ held[m].state = "dirty"
      /\ held[m] # None /\ held[m] = marker /\ valid[m]
      /\ marker' \in Markers /\ marker' # None
      /\ marker'.base = held[m].base /\ marker'.db = held[m].db /\ marker'.applied = held[m].applied
      /\ marker'.state = held[m].state /\ marker'.closure = "confirmed" /\ marker'.journal = held[m].journal
      /\ held'[m] = marker' /\ \A n \in Managers : n # m => held'[n] = held[n]
      /\ \A n \in Managers : valid'[n] => n = m
      /\ at'[m] = "settle" /\ \A n \in Managers : n # m => at'[n] = at[n]
      /\ UNCHANGED <<inputs, active, leaf, disk, cmd, seen, own, work>>
  <2>1. /\ held[m] # None /\ held[m] \in Markers /\ held[m] = marker /\ valid[m]
    BY DEF Migrated, Step, Current, Inv, Reads, Shape, Migrating
  <2>2. marker' = [held[m] EXCEPT !.closure = "confirmed"]
    BY DEF Migrated, Write
  <2>3. at[m] = "migrating" /\ ~Live(work[m]) /\ held[m].state = "dirty"
    BY <2>1 DEF Migrated, Step, Inv, Reads, Live, Migrating
  <2>4. held[m] # None /\ held[m] = marker /\ valid[m]
    BY <2>1
  <2>5. marker' \in Markers /\ marker' # None
    BY <2>1, <2>2, SqliteAssumption DEF Markers
  <2>6. marker'.base = held[m].base /\ marker'.db = held[m].db /\ marker'.applied = held[m].applied
    BY <2>1, <2>2 DEF Markers
  <2>7. marker'.state = held[m].state /\ marker'.closure = "confirmed" /\ marker'.journal = held[m].journal
    BY <2>1, <2>2 DEF Markers
  <2>8. held'[m] = marker' /\ \A n \in Managers : n # m => held'[n] = held[n]
    BY DEF Migrated, Write, Inv, Domains
  <2>9. \A n \in Managers : valid'[n] => n = m
    BY DEF Migrated, Write, Inv, Domains
  <2>10. at'[m] = "settle" /\ \A n \in Managers : n # m => at'[n] = at[n]
    BY DEF Migrated, Step, Go, Inv, Domains
  <2>11. UNCHANGED <<inputs, active, leaf, disk, cmd, seen, own, work>>
    BY DEF Migrated, Step, Go, Write, world
  <2> QED BY <2>3, <2>4, <2>5, <2>6, <2>7, <2>8, <2>9, <2>10, <2>11
<1>2. /\ m \notin Windowed /\ Windowed' = Windowed
      /\ m \notin Stagers /\ Stagers' = Stagers
      /\ m \notin Placers /\ Placers' = Placers
      /\ m \notin Installers /\ Installers' = Installers
      /\ m \notin Claimers /\ Claimers' = Claimers
      /\ m \notin Workers /\ Workers' = Workers
      /\ Windowed \subseteq Stagers
      /\ Stagers \cup Placers \cup Windowed \cup Installers \cup Claimers \cup Workers \subseteq Managers
  BY <1>1 DEF Inv, Reads, Windowed, Stagers, Placers, Installers, Claimers, Workers,
       Window, Live
<1>3. Domains'
  BY DEF Inv, Domains, Migrated, Step, Go, Write, world
<1>4. Shape'
  BY <1>1 DEF Inv, Shape, Names
<1>5. Contents'
  BY <1>1, <1>2 DEF Inv, Contents, Databases
<1>6. Reads'
  BY <1>1, <1>2 DEF Inv, Reads, Window, Migrating
<1>7. AtWork'
  BY <1>1, <1>2 DEF Inv, AtWork
<1>8. Claims'
  BY <1>1, <1>2 DEF Inv, Claims
<1>9. Copies'
  BY <1>1, <1>2 DEF Inv, Copies, Copiers
<1>10. Intact'
  BY <1>1, <1>2 DEF Inv, Intact, Copiers, Original
<1>11. Placed'
  BY <1>1, <1>2 DEF Inv, Placed
<1>12. Retained'
  BY <1>1, <1>2 DEF Inv, Retained
<1>13. Exact'
  BY <1>1, <1>2 DEF Inv, Exact, Candidates
<1> QED BY <1>3, <1>4, <1>5, <1>6, <1>7, <1>8, <1>9, <1>10, <1>11, <1>12, <1>13 DEF Inv

LEMMA MarkMigratedKeeps ==
  ASSUME Inv, NEW m \in Managers,
         MarkMigrated(m)
  PROVE  Inv'
<1>1. /\ at[m] = "settled" /\ own[m].was # "dirty"
      /\ held[m] # None /\ held[m] = marker /\ valid[m]
      /\ held[m].closure = "confirmed"
      /\ marker' \in Markers /\ marker' # None
      /\ marker'.base = held[m].base /\ marker'.db = held[m].db /\ marker'.applied = Candidates(m)
      /\ marker'.state = own[m].was /\ marker'.closure = held[m].closure /\ marker'.journal = 0
      /\ held'[m] = marker' /\ \A n \in Managers : n # m => held'[n] = held[n]
      /\ \A n \in Managers : valid'[n] => n = m
      /\ at'[m] = "ok" /\ \A n \in Managers : n # m => at'[n] = at[n]
      /\ UNCHANGED <<inputs, active, leaf, disk, cmd, seen, own, work>>
  <2>1. /\ held[m] # None /\ held[m] \in Markers /\ held[m] = marker /\ valid[m]
        /\ held[m].closure = "confirmed"
    BY DEF MarkMigrated, Step, Current, Inv, Reads, Shape, Migrating
  <2>2. marker' = [held[m] EXCEPT !.applied = Candidates(m), !.state = own[m].was, !.journal = 0]
    BY DEF MarkMigrated, Write
  <2>3. Candidates(m) \in Nat /\ own[m].was \in {"running", "stopped", "dirty"}
    BY DEF MarkMigrated, Step, Candidates, Inv, Reads, Shape, Sights, Inputs, Memories
  <2>4. at[m] = "settled" /\ own[m].was # "dirty"
    BY <2>1 DEF MarkMigrated, Step, Inv, Reads, Live, Migrating
  <2>5. held[m] # None /\ held[m] = marker /\ valid[m]
    BY <2>1
  <2>6. held[m].closure = "confirmed"
    BY <2>1
  <2>7. marker' \in Markers /\ marker' # None
    BY <2>1, <2>2, <2>3, SqliteAssumption DEF Markers
  <2>8. marker'.base = held[m].base /\ marker'.db = held[m].db /\ marker'.applied = Candidates(m)
    BY <2>1, <2>2 DEF Markers
  <2>9. marker'.state = own[m].was /\ marker'.closure = held[m].closure /\ marker'.journal = 0
    BY <2>1, <2>2 DEF Markers
  <2>10. held'[m] = marker' /\ \A n \in Managers : n # m => held'[n] = held[n]
    BY DEF MarkMigrated, Write, Inv, Domains
  <2>11. \A n \in Managers : valid'[n] => n = m
    BY DEF MarkMigrated, Write, Inv, Domains
  <2>12. at'[m] = "ok" /\ \A n \in Managers : n # m => at'[n] = at[n]
    BY DEF MarkMigrated, Step, Go, Inv, Domains
  <2>13. UNCHANGED <<inputs, active, leaf, disk, cmd, seen, own, work>>
    BY DEF MarkMigrated, Step, Go, Write, world
  <2> QED BY <2>4, <2>5, <2>6, <2>7, <2>8, <2>9, <2>10, <2>11, <2>12, <2>13
<1>2. /\ m \notin Windowed /\ Windowed' = Windowed
      /\ m \notin Stagers /\ Stagers' = Stagers
      /\ m \notin Placers /\ Placers' = Placers
      /\ m \notin Installers /\ Installers' = Installers
      /\ m \notin Claimers /\ Claimers' = Claimers
      /\ Workers' = Workers
      /\ Windowed \subseteq Stagers
      /\ Stagers \cup Placers \cup Windowed \cup Installers \cup Claimers \cup Workers \subseteq Managers
  BY <1>1 DEF Inv, Reads, Windowed, Stagers, Placers, Installers, Claimers, Workers,
       Window, Live
<1>3. Domains'
  BY DEF Inv, Domains, MarkMigrated, Step, Go, Write, world
<1>4. Shape'
  BY <1>1 DEF Inv, Shape, Names
<1>5. Contents'
  BY <1>1, <1>2 DEF Inv, Contents, Databases
<1>6. Reads'
  BY <1>1, <1>2 DEF Inv, Reads, Window, Migrating
<1>7. AtWork'
  BY <1>1, <1>2 DEF Inv, AtWork, Reads
<1>8. Claims'
  BY <1>1, <1>2 DEF Inv, Claims
<1>9. Copies'
  BY <1>1, <1>2 DEF Inv, Copies, Copiers
<1>10. Intact'
  BY <1>1, <1>2 DEF Inv, Intact, Copiers, Original
<1>11. Placed'
  BY <1>1, <1>2 DEF Inv, Placed
<1>12. Retained'
  BY <1>1, <1>2 DEF Inv, Retained
<1>13. Exact'
  BY <1>1, <1>2 DEF Inv, Exact, Candidates
<1> QED BY <1>3, <1>4, <1>5, <1>6, <1>7, <1>8, <1>9, <1>10, <1>11, <1>12, <1>13 DEF Inv

LEMMA MarkDirtyKeeps ==
  ASSUME Inv, NEW m \in Managers,
         MarkDirty(m)
  PROVE  Inv'
<1>1. /\ at[m] = "mark" /\ cmd[m] = "migrate"
      /\ held[m] # None /\ held[m] = marker /\ valid[m]
      /\ held[m].closure = "confirmed"
      /\ marker' \in Markers /\ marker' # None
      /\ marker'.base = held[m].base /\ marker'.db = held[m].db /\ marker'.applied = held[m].applied
      /\ marker'.state = "dirty" /\ marker'.closure = "pending" /\ marker'.journal = own[m].side
      /\ held'[m] = marker' /\ \A n \in Managers : n # m => held'[n] = held[n]
      /\ \A n \in Managers : valid'[n] => n = m
      /\ at'[m] = "migrating" /\ \A n \in Managers : n # m => at'[n] = at[n]
      /\ work'[m].file = 0 /\ work'[m].journal = own[m].side /\ Live(work'[m]) /\ 0 \notin Files
      /\ work'[m] \in Jobs
      /\ \A n \in Managers : n # m => work'[n] = work[n]
      /\ own[m].was # "dirty"
      /\ UNCHANGED <<inputs, active, leaf, disk, cmd, seen, own>>
  <2>1. /\ held[m] # None /\ held[m] \in Markers /\ held[m] = marker /\ valid[m]
        /\ held[m].closure = "confirmed"
    BY DEF MarkDirty, Step, Current, Inv, Reads, Shape, Migrating
  <2>2. marker' = [held[m] EXCEPT !.state = "dirty", !.closure = "pending",
                                  !.journal = own[m].side]
    BY DEF MarkDirty, Write
  <2>3. own[m].side \in Sides /\ held[m].applied \in Nat /\ 0 \notin Files
    BY <2>1, SqliteAssumption DEF Inv, Shape, Memories, Markers
  <2>4. Candidates(m) \in Nat
    BY DEF MarkDirty, Step, Candidates, Inv, Reads, Sights, Inputs
  <2>5. work' = [work EXCEPT ![m] = [state |-> "queued", file |-> 0, journal |-> own[m].side,
                                       from |-> held[m].applied, to |-> Candidates(m)]]
    BY DEF MarkDirty
  <2>6. at[m] = "mark" /\ cmd[m] = "migrate"
    BY <2>1 DEF MarkDirty, Step, Inv, Reads, Live, Migrating
  <2>7. held[m] # None /\ held[m] = marker /\ valid[m]
    BY <2>1
  <2>8. held[m].closure = "confirmed"
    BY <2>1
  <2>9. marker' \in Markers /\ marker' # None
    BY <2>1, <2>2, <2>3, SqliteAssumption DEF Markers, Sides
  <2>10. marker'.base = held[m].base /\ marker'.db = held[m].db /\ marker'.applied = held[m].applied
    BY <2>1, <2>2 DEF Markers
  <2>11. marker'.state = "dirty" /\ marker'.closure = "pending" /\ marker'.journal = own[m].side
    BY <2>1, <2>2 DEF Markers
  <2>12. held'[m] = marker' /\ \A n \in Managers : n # m => held'[n] = held[n]
    BY DEF MarkDirty, Write, Inv, Domains
  <2>13. \A n \in Managers : valid'[n] => n = m
    BY DEF MarkDirty, Write, Inv, Domains
  <2>14. at'[m] = "migrating" /\ \A n \in Managers : n # m => at'[n] = at[n]
    BY DEF MarkDirty, Step, Go, Inv, Domains
  <2>15. work'[m].file = 0 /\ work'[m].journal = own[m].side /\ Live(work'[m]) /\ 0 \notin Files
    BY <2>3, <2>5 DEF Inv, Domains, Live
  <2>16. work'[m] \in Jobs
    BY <2>3, <2>4, <2>5 DEF Inv, Domains, Jobs, Sides
  <2>17. \A n \in Managers : n # m => work'[n] = work[n]
    BY <2>5 DEF Inv, Domains
  <2>18. own[m].was # "dirty"
    BY DEF MarkDirty, Step, Inv, Reads
  <2>19. UNCHANGED <<inputs, active, leaf, disk, cmd, seen, own>>
    BY DEF MarkDirty, Step, Go, Write, world
  <2> QED BY <2>6, <2>7, <2>8, <2>9, <2>10, <2>11, <2>12, <2>13, <2>14, <2>15, <2>16,
       <2>17, <2>18, <2>19
<1>2. /\ m \notin Windowed /\ Windowed' = Windowed
      /\ m \notin Stagers /\ Stagers' = Stagers
      /\ m \notin Placers /\ Placers' = Placers
      /\ m \notin Installers /\ Installers' = Installers
      /\ m \in Claimers /\ Claimers' = Claimers \ {m}
      /\ m \notin Workers /\ Workers' = Workers \cup {m}
      /\ Windowed \subseteq Stagers
      /\ Stagers \cup Placers \cup Windowed \cup Installers \cup Claimers \cup Workers \subseteq Managers
  BY <1>1 DEF Inv, Reads, Claims, Windowed, Stagers, Placers, Installers, Claimers,
       Workers, Window, Live
<1>3. Domains'
  BY DEF Inv, Domains, MarkDirty, Step, Go, Write, world
<1>4. Shape'
  BY <1>1 DEF Inv, Shape, Names
<1>5. Contents'
  BY <1>1, <1>2 DEF Inv, Contents, Databases
<1>6. Reads'
  BY <1>1, <1>2 DEF Inv, Reads, Window, Migrating
<1>7. AtWork'
  BY <1>1, <1>2 DEF Inv, AtWork, Claims
<1>8. Claims'
  BY <1>1, <1>2 DEF Inv, Claims
<1>9. Copies'
  BY <1>1, <1>2 DEF Inv, Copies, Copiers
<1>10. Intact'
  BY <1>1, <1>2 DEF Inv, Intact, Copiers, Original
<1>11. Placed'
  BY <1>1, <1>2 DEF Inv, Placed
<1>12. Retained'
  BY <1>1, <1>2 DEF Inv, Retained
<1>13. Exact'
  BY <1>1, <1>2 DEF Inv, Exact, Candidates
<1> QED BY <1>3, <1>4, <1>5, <1>6, <1>7, <1>8, <1>9, <1>10, <1>11, <1>12, <1>13 DEF Inv

LEMMA MarkResetKeeps ==
  ASSUME Inv, NEW m \in Managers,
         MarkReset(m)
  PROVE  Inv'
<1>1. /\ at[m] = "mark" /\ cmd[m] = "reset"
      /\ IF held[m] = None THEN marker = None
         ELSE valid[m] /\ held[m] = marker /\ held[m].closure = "confirmed"
      /\ Workers = {}
      /\ marker' \in Markers /\ marker' # None
      /\ marker'.base = seen[m].base /\ marker'.db = own[m].db /\ marker'.applied = 0
      /\ marker'.state = "running" /\ marker'.closure = "confirmed" /\ marker'.journal = 0
      /\ held'[m] = marker' /\ \A n \in Managers : n # m => held'[n] = held[n]
      /\ \A n \in Managers : valid'[n] => n = m
      /\ at'[m] = (IF held[m] = None THEN "final" ELSE "tidy") /\ \A n \in Managers : n # m => at'[n] = at[n]
      /\ UNCHANGED <<inputs, active, leaf, disk, cmd, seen, own, work>>
  <2>1. m \in Copiers /\ m \in Placers
    BY DEF MarkReset, Copiers, Placers
  <2>2. own[m].db \in Files /\ own[m].side \in Sides /\ seen[m] \in Sights
    BY <2>1 DEF MarkReset, Inv, Shape, Copies, Memories, Reads
  <2>3. marker' = [config |-> seen[m].input.config, base |-> seen[m].base, db |-> own[m].db,
                  applied |-> 0, state |-> "running", closure |-> "confirmed",
                  journal |-> 0, env |-> own[m].side]
    BY DEF MarkReset, Write
  <2>4. at[m] = "mark" /\ cmd[m] = "reset"
    BY DEF MarkReset
  <2>5. /\ IF held[m] = None THEN marker = None
            ELSE valid[m] /\ held[m] = marker /\ held[m].closure = "confirmed"
    BY DEF MarkReset, Current, Inv, Reads, Migrating
  <2>6. Workers = {}
    BY <2>1, <2>5 DEF Inv, AtWork, Placed, Installers
  <2>7. marker' \in Markers /\ marker' # None
    BY <2>2, <2>3, SqliteAssumption DEF Markers, Sights, Inputs, Sides
  <2>8. marker'.base = seen[m].base /\ marker'.db = own[m].db /\ marker'.applied = 0
    BY <2>3
  <2>9. marker'.state = "running" /\ marker'.closure = "confirmed" /\ marker'.journal = 0
    BY <2>3
  <2>10. held'[m] = marker' /\ \A n \in Managers : n # m => held'[n] = held[n]
    BY DEF MarkReset, Write, Inv, Domains
  <2>11. \A n \in Managers : valid'[n] => n = m
    BY DEF MarkReset, Write, Inv, Domains
  <2>12. at'[m] = (IF held[m] = None THEN "final" ELSE "tidy") /\ \A n \in Managers : n # m => at'[n] = at[n]
    BY DEF MarkReset, Go, Inv, Domains
  <2>13. UNCHANGED <<inputs, active, leaf, disk, cmd, seen, own, work>>
    BY DEF MarkReset, Go, Write, world
  <2> QED BY <2>4, <2>5, <2>6, <2>7, <2>8, <2>9, <2>10, <2>11, <2>12, <2>13
<1>2. /\ m \notin Windowed /\ Windowed' = Windowed
      /\ m \notin Stagers /\ Stagers' = Stagers
      /\ m \in Placers /\ Placers' = Placers \ {m}
      /\ m \in Installers /\ Installers' = Installers \ {m}
      /\ m \notin Claimers /\ Claimers' = Claimers
      /\ Workers' = Workers
      /\ Windowed \subseteq Stagers
      /\ Stagers \cup Placers \cup Windowed \cup Installers \cup Claimers \cup Workers \subseteq Managers
  BY <1>1 DEF Inv, Reads, Windowed, Stagers, Placers, Installers, Claimers, Workers,
       Window, Live
<1>3. Domains'
  BY DEF Inv, Domains, MarkReset, Go, Write, world
<1>4. Shape'
  BY <1>1 DEF Inv, Shape, Names
<1>5. Contents'
  BY <1>1, <1>2 DEF Inv, Contents, Databases
<1>6. Reads'
  BY <1>1, <1>2 DEF Inv, Reads, Window, Migrating
<1>7. AtWork'
  BY <1>1, <1>2 DEF Inv, AtWork
<1>8. Claims'
  BY <1>1, <1>2 DEF Inv, Claims
<1>9. Copies'
  BY <1>1, <1>2 DEF Inv, Copies, Placed, Copiers
<1>10. Intact'
  BY <1>1, <1>2 DEF Inv, Intact, Copiers, Original
<1>11. Placed'
  BY <1>1, <1>2 DEF Inv, Placed
<1>12. Retained'
  BY <1>1, <1>2 DEF Inv, Retained, Copies, Copiers
<1>13. Exact'
  BY <1>1, <1>2 DEF Inv, Exact, Intact, Copiers, Original, Candidates
<1> QED BY <1>3, <1>4, <1>5, <1>6, <1>7, <1>8, <1>9, <1>10, <1>11, <1>12, <1>13 DEF Inv

LEMMA WorkerOpenKeeps ==
  ASSUME Inv, NEW m \in Managers,
         WorkerOpen(m)
  PROVE  Inv'
<1>1. /\ work'[m].file \in leaf["database"] /\ work'[m].journal = work[m].journal
      /\ Live(work[m]) /\ Live(work'[m])
      /\ work'[m] \in Jobs
      /\ \A n \in Managers : n # m => work'[n] = work[n]
      /\ UNCHANGED <<inputs, active, leaf, disk, marker, at, cmd, seen, held, valid, own>>
  <2>1. work[m] \in Jobs
    BY DEF Inv, Shape
  <2>2. \E f \in Files : f \in leaf["database"]
            /\ work' = [work EXCEPT ![m].state = "open", ![m].file = f]
    BY DEF WorkerOpen, Inv, Shape, Names
  <2>3. \E f \in Files : f \in leaf["database"]
            /\ work'[m] = [work[m] EXCEPT !.state = "open", !.file = f]
    BY <2>1, <2>2 DEF Inv, Domains, Jobs
  <2>4. work'[m].file \in leaf["database"] /\ work'[m].journal = work[m].journal
    BY <2>1, <2>3 DEF Jobs
  <2>5. Live(work[m]) /\ Live(work'[m])
    BY <2>1, <2>3 DEF WorkerOpen, Jobs, Live
  <2>6. work'[m] \in Jobs
    BY <2>1, <2>3 DEF Jobs, Sides
  <2>7. \A n \in Managers : n # m => work'[n] = work[n]
    BY <2>2 DEF Inv, Domains
  <2>8. UNCHANGED <<inputs, active, leaf, disk, marker, at, cmd, seen, held, valid, own>>
    BY DEF WorkerOpen, world, files, memory
  <2> QED BY <2>4, <2>5, <2>6, <2>7, <2>8
<1>2. /\ m \in Workers /\ Workers' = Workers
      /\ Windowed' = Windowed /\ Stagers' = Stagers /\ Placers' = Placers
      /\ Installers' = Installers /\ Claimers' = Claimers
      /\ Windowed \subseteq Stagers
      /\ Stagers \cup Placers \cup Windowed \cup Installers \cup Claimers \cup Workers \subseteq Managers
  BY <1>1 DEF Inv, Reads, Windowed, Stagers, Placers, Installers, Claimers, Workers,
       Window, Live
<1>3. Domains'
  BY DEF Inv, Domains, WorkerOpen, world, files, memory
<1>4. Shape'
  BY <1>1 DEF Inv, Shape, Names
<1>5. Contents'
  BY <1>1, <1>2 DEF Inv, Contents, Databases
<1>6. Reads'
  BY <1>1, <1>2 DEF Inv, Reads, Window, Migrating
<1>7. AtWork'
  BY <1>1, <1>2 DEF Inv, AtWork
<1>8. Claims'
  BY <1>1, <1>2 DEF Inv, Claims
<1>9. Copies'
  BY <1>1, <1>2 DEF Inv, Copies, Copiers
<1>10. Intact'
  BY <1>1, <1>2 DEF Inv, Intact, Copiers, Original
<1>11. Placed'
  BY <1>1, <1>2 DEF Inv, Placed
<1>12. Retained'
  BY <1>1, <1>2 DEF Inv, Retained
<1>13. Exact'
  BY <1>1, <1>2 DEF Inv, Exact, Candidates
<1> QED BY <1>3, <1>4, <1>5, <1>6, <1>7, <1>8, <1>9, <1>10, <1>11, <1>12, <1>13 DEF Inv

LEMMA WorkerBeginKeeps ==
  ASSUME Inv, NEW m \in Managers,
         WorkerBegin(m)
  PROVE  Inv'
<1>1. /\ work'[m].journal = work[m].journal /\ work'[m].file = work[m].file
      /\ Live(work[m]) /\ Live(work'[m])
      /\ \A n \in Placers : held[n] # None /\ ~valid[n]
      /\ work'[m] \in Jobs
      /\ \A n \in Managers : n # m => work'[n] = work[n]
      /\ 0 \notin Files
      /\ disk' \subseteq Rows
      /\ \A e \in disk' : \E d \in disk :
           e.id = d.id /\ e.base = d.base /\ (d.id # work[m].file => e = d)
      /\ \A d \in disk : \E e \in disk' : e.id = d.id
      /\ \A d, e \in disk' : d.id = e.id => d = e
      /\ UNCHANGED <<inputs, active, leaf, marker, at, cmd, seen, held, valid, own>>
  <2>1. work[m] \in Jobs /\ Shape /\ Contents
    BY DEF Inv, Shape
  <2>2. work[m].from \in Nat /\ Content(work[m].file, work[m].from, TRUE)
    BY <2>1 DEF WorkerBegin, Jobs
  <2>3. work' = [work EXCEPT ![m] = [work[m] EXCEPT !.state = "inside"]]
    BY DEF WorkerBegin, Work
  <2>4. work'[m].journal = work[m].journal /\ work'[m].file = work[m].file
    BY <2>1, <2>3 DEF Inv, Domains, Jobs
  <2>5. Live(work[m]) /\ Live(work'[m])
    BY <2>1, <2>3 DEF WorkerBegin, Inv, Domains, Jobs, Live
  <2>6. \A n \in Placers : held[n] # None /\ ~valid[n]
    BY <2>5 DEF Inv, AtWork, Reads, Placed, Workers, Installers, Placers, Migrating
  <2>7. work'[m] \in Jobs
    BY <2>1, <2>3 DEF Inv, Domains, Jobs, Sides, NoWork
  <2>8. \A n \in Managers : n # m => work'[n] = work[n]
    BY <2>3 DEF Inv, Domains
  <2>9. 0 \notin Files
    BY SqliteAssumption
  <2>10. disk' \subseteq Rows
    BY <2>1, <2>2, OnlyContent
  <2>11. /\ \A e \in disk' : \E d \in disk :
              e.id = d.id /\ e.base = d.base /\ (d.id # work[m].file => e = d)
    BY <2>1, <2>2, OnlyContent
  <2>12. \A d \in disk : \E e \in disk' : e.id = d.id
    BY <2>1, <2>2, OnlyContent
  <2>13. \A d, e \in disk' : d.id = e.id => d = e
    BY <2>1, <2>2, OnlyContent
  <2>14. UNCHANGED <<inputs, active, leaf, marker, at, cmd, seen, held, valid, own>>
    BY DEF WorkerBegin, world, files, memory, Work, Content, Put
  <2> QED BY <2>4, <2>5, <2>6, <2>7, <2>8, <2>9, <2>10, <2>11, <2>12, <2>13, <2>14
<1>2. /\ m \in Workers /\ Workers' = Workers
      /\ Windowed' = Windowed /\ Stagers' = Stagers /\ Placers' = Placers
      /\ Installers' = Installers /\ Claimers' = Claimers
      /\ Windowed \subseteq Stagers
      /\ Stagers \cup Placers \cup Windowed \cup Installers \cup Claimers \cup Workers \subseteq Managers
  BY <1>1 DEF Inv, Reads, Windowed, Stagers, Placers, Installers, Claimers, Workers,
       Window, Live
<1>3. Domains'
  BY DEF Inv, Domains, WorkerBegin, world, files, memory, Work, Content, Put
<1>4. Shape'
  BY <1>1 DEF Inv, Shape, Names
<1>5. Contents'
  BY <1>1, <1>2 DEF Inv, Contents, Databases
<1>6. Reads'
  BY <1>1, <1>2 DEF Inv, Reads, Window, Migrating
<1>7. AtWork'
  BY <1>1, <1>2 DEF Inv, AtWork
<1>8. Claims'
  BY <1>1, <1>2 DEF Inv, Claims, AtWork
<1>9. Copies'
  BY <1>1, <1>2 DEF Inv, Copies, Copiers
<1>10. Intact'
  BY <1>1, <1>2 DEF Inv, Intact, Copies, Copiers, Original
<1>11. Placed'
  BY <1>1, <1>2 DEF Inv, Placed
<1>12. Retained'
  BY <1>1, <1>2 DEF Inv, Retained
<1>13. Exact'
  BY <1>1, <1>2 DEF Inv, Exact, AtWork, Reads, Candidates
<1> QED BY <1>3, <1>4, <1>5, <1>6, <1>7, <1>8, <1>9, <1>10, <1>11, <1>12, <1>13 DEF Inv

LEMMA WorkerCommitKeeps ==
  ASSUME Inv, NEW m \in Managers,
         WorkerCommit(m)
  PROVE  Inv'
<1>1. /\ work'[m].file = work[m].file \/ work'[m].file = 0
      /\ Live(work[m]) /\ ~Live(work'[m])
      /\ \A n \in Placers : held[n] # None /\ ~valid[n]
      /\ work'[m] \in Jobs
      /\ \A n \in Managers : n # m => work'[n] = work[n]
      /\ 0 \notin Files
      /\ disk' \subseteq Rows
      /\ \A e \in disk' : \E d \in disk :
           e.id = d.id /\ e.base = d.base /\ (d.id # work[m].file => e = d)
      /\ \A d \in disk : \E e \in disk' : e.id = d.id
      /\ \A d, e \in disk' : d.id = e.id => d = e
      /\ leaf'["journal"] = {}
      /\ leaf'["database"] = leaf["database"] /\ leaf'["environment"] = leaf["environment"]
      /\ leaf'["staged"] = leaf["staged"] /\ leaf'["previous"] = leaf["previous"]
      /\ UNCHANGED <<inputs, active, marker, at, cmd, seen, held, valid, own>>
  <2>1. work[m] \in Jobs /\ Shape /\ Contents
    BY DEF Inv, Shape
  <2>2. work[m].to \in Nat /\ Content(work[m].file, work[m].to, FALSE)
    BY <2>1 DEF WorkerCommit, Jobs
  <2>3. \E s \in {"done", "failed"} :
        work' = [work EXCEPT ![m] = IF at[m] = "idle" THEN NoWork ELSE [work[m] EXCEPT !.state = s]]
    BY DEF WorkerCommit, Work
  <2>4. work'[m].file = work[m].file \/ work'[m].file = 0
    BY <2>1, <2>3 DEF Inv, Domains, Jobs, NoWork
  <2>5. Live(work[m]) /\ ~Live(work'[m])
    BY <2>1, <2>3 DEF WorkerCommit, Inv, Domains, Jobs, NoWork, Live
  <2>6. \A n \in Placers : held[n] # None /\ ~valid[n]
    BY <2>5 DEF Inv, AtWork, Reads, Placed, Workers, Installers, Placers, Migrating
  <2>7. work'[m] \in Jobs
    BY <2>1, <2>3 DEF Inv, Domains, Jobs, Sides, NoWork
  <2>8. \A n \in Managers : n # m => work'[n] = work[n]
    BY <2>3 DEF Inv, Domains
  <2>9. 0 \notin Files
    BY SqliteAssumption
  <2>10. disk' \subseteq Rows
    BY <2>1, <2>2, OnlyContent
  <2>11. /\ \A e \in disk' : \E d \in disk :
              e.id = d.id /\ e.base = d.base /\ (d.id # work[m].file => e = d)
    BY <2>1, <2>2, OnlyContent
  <2>12. \A d \in disk : \E e \in disk' : e.id = d.id
    BY <2>1, <2>2, OnlyContent
  <2>13. \A d, e \in disk' : d.id = e.id => d = e
    BY <2>1, <2>2, OnlyContent
  <2>14. /\ leaf'["journal"] = {}
         /\ leaf'["database"] = leaf["database"] /\ leaf'["environment"] = leaf["environment"]
         /\ leaf'["staged"] = leaf["staged"] /\ leaf'["previous"] = leaf["previous"]
    BY DEF WorkerCommit, Put, Inv, Domains, Names
  <2>15. UNCHANGED <<inputs, active, marker, at, cmd, seen, held, valid, own>>
    BY DEF WorkerCommit, world, files, memory, Work, Content, Put
  <2> QED BY <2>4, <2>5, <2>6, <2>7, <2>8, <2>9, <2>10, <2>11, <2>12, <2>13, <2>14,
       <2>15
<1>2. /\ m \in Workers /\ Workers' = Workers \ {m}
      /\ Windowed' = Windowed /\ Stagers' = Stagers /\ Placers' = Placers
      /\ Installers' = Installers /\ Claimers' = Claimers
      /\ Windowed \subseteq Stagers
      /\ Stagers \cup Placers \cup Windowed \cup Installers \cup Claimers \cup Workers \subseteq Managers
  BY <1>1 DEF Inv, Reads, Windowed, Stagers, Placers, Installers, Claimers, Workers,
       Window, Live
<1>3. Domains'
  BY DEF Inv, Domains, WorkerCommit, world, files, memory, Work, Content, Put
<1>4. Shape'
  BY <1>1 DEF Inv, Shape, Names
<1>5. Contents'
  BY <1>1, <1>2 DEF Inv, Contents, Databases
<1>6. Reads'
  BY <1>1, <1>2 DEF Inv, Reads, Window, Migrating
<1>7. AtWork'
  BY <1>1, <1>2 DEF Inv, AtWork
<1>8. Claims'
  BY <1>1, <1>2 DEF Inv, Claims, AtWork
<1>9. Copies'
  BY <1>1, <1>2 DEF Inv, Copies, Copiers
<1>10. Intact'
  BY <1>1, <1>2 DEF Inv, Intact, Copies, Copiers, Original
<1>11. Placed'
  BY <1>1, <1>2 DEF Inv, Placed
<1>12. Retained'
  BY <1>1, <1>2 DEF Inv, Retained
<1>13. Exact'
  BY <1>1, <1>2 DEF Inv, Exact, AtWork, Reads, Candidates
<1> QED BY <1>3, <1>4, <1>5, <1>6, <1>7, <1>8, <1>9, <1>10, <1>11, <1>12, <1>13 DEF Inv

LEMMA WorkerRollbackKeeps ==
  ASSUME Inv, NEW m \in Managers,
         WorkerRollback(m)
  PROVE  Inv'
<1>1. /\ work'[m].file = work[m].file \/ work'[m].file = 0
      /\ Live(work[m]) /\ ~Live(work'[m])
      /\ \A n \in Placers : held[n] # None /\ ~valid[n]
      /\ work'[m] \in Jobs
      /\ \A n \in Managers : n # m => work'[n] = work[n]
      /\ 0 \notin Files
      /\ disk' \subseteq Rows
      /\ \A e \in disk' : \E d \in disk :
           e.id = d.id /\ e.base = d.base /\ (d.id # work[m].file => e = d)
      /\ \A d \in disk : \E e \in disk' : e.id = d.id
      /\ \A d, e \in disk' : d.id = e.id => d = e
      /\ leaf'["journal"] = {}
      /\ leaf'["database"] = leaf["database"] /\ leaf'["environment"] = leaf["environment"]
      /\ leaf'["staged"] = leaf["staged"] /\ leaf'["previous"] = leaf["previous"]
      /\ UNCHANGED <<inputs, active, marker, at, cmd, seen, held, valid, own>>
  <2>1. work[m] \in Jobs /\ Shape /\ Contents
    BY DEF Inv, Shape
  <2>2. work[m].from \in Nat /\ Content(work[m].file, work[m].from, FALSE)
    BY <2>1 DEF WorkerRollback, Jobs
  <2>3. work' = [work EXCEPT ![m] =
                     IF at[m] = "idle" THEN NoWork ELSE [work[m] EXCEPT !.state = "failed"]]
    BY DEF WorkerRollback, Work
  <2>4. work'[m].file = work[m].file \/ work'[m].file = 0
    BY <2>1, <2>3 DEF Inv, Domains, Jobs, NoWork
  <2>5. Live(work[m]) /\ ~Live(work'[m])
    BY <2>1, <2>3 DEF WorkerRollback, Inv, Domains, Jobs, NoWork, Live
  <2>6. \A n \in Placers : held[n] # None /\ ~valid[n]
    BY <2>5 DEF Inv, AtWork, Reads, Placed, Workers, Installers, Placers, Migrating
  <2>7. work'[m] \in Jobs
    BY <2>1, <2>3 DEF Inv, Domains, Jobs, Sides, NoWork
  <2>8. \A n \in Managers : n # m => work'[n] = work[n]
    BY <2>3 DEF Inv, Domains
  <2>9. 0 \notin Files
    BY SqliteAssumption
  <2>10. disk' \subseteq Rows
    BY <2>1, <2>2, OnlyContent
  <2>11. /\ \A e \in disk' : \E d \in disk :
              e.id = d.id /\ e.base = d.base /\ (d.id # work[m].file => e = d)
    BY <2>1, <2>2, OnlyContent
  <2>12. \A d \in disk : \E e \in disk' : e.id = d.id
    BY <2>1, <2>2, OnlyContent
  <2>13. \A d, e \in disk' : d.id = e.id => d = e
    BY <2>1, <2>2, OnlyContent
  <2>14. /\ leaf'["journal"] = {}
         /\ leaf'["database"] = leaf["database"] /\ leaf'["environment"] = leaf["environment"]
         /\ leaf'["staged"] = leaf["staged"] /\ leaf'["previous"] = leaf["previous"]
    BY DEF WorkerRollback, Put, Inv, Domains, Names
  <2>15. UNCHANGED <<inputs, active, marker, at, cmd, seen, held, valid, own>>
    BY DEF WorkerRollback, world, files, memory, Work, Content, Put
  <2> QED BY <2>4, <2>5, <2>6, <2>7, <2>8, <2>9, <2>10, <2>11, <2>12, <2>13, <2>14,
       <2>15
<1>2. /\ m \in Workers /\ Workers' = Workers \ {m}
      /\ Windowed' = Windowed /\ Stagers' = Stagers /\ Placers' = Placers
      /\ Installers' = Installers /\ Claimers' = Claimers
      /\ Windowed \subseteq Stagers
      /\ Stagers \cup Placers \cup Windowed \cup Installers \cup Claimers \cup Workers \subseteq Managers
  BY <1>1 DEF Inv, Reads, Windowed, Stagers, Placers, Installers, Claimers, Workers,
       Window, Live
<1>3. Domains'
  BY DEF Inv, Domains, WorkerRollback, world, files, memory, Work, Content, Put
<1>4. Shape'
  BY <1>1 DEF Inv, Shape, Names
<1>5. Contents'
  BY <1>1, <1>2 DEF Inv, Contents, Databases
<1>6. Reads'
  BY <1>1, <1>2 DEF Inv, Reads, Window, Migrating
<1>7. AtWork'
  BY <1>1, <1>2 DEF Inv, AtWork
<1>8. Claims'
  BY <1>1, <1>2 DEF Inv, Claims, AtWork
<1>9. Copies'
  BY <1>1, <1>2 DEF Inv, Copies, Copiers
<1>10. Intact'
  BY <1>1, <1>2 DEF Inv, Intact, Copies, Copiers, Original
<1>11. Placed'
  BY <1>1, <1>2 DEF Inv, Placed
<1>12. Retained'
  BY <1>1, <1>2 DEF Inv, Retained
<1>13. Exact'
  BY <1>1, <1>2 DEF Inv, Exact, AtWork, Reads, Candidates
<1> QED BY <1>3, <1>4, <1>5, <1>6, <1>7, <1>8, <1>9, <1>10, <1>11, <1>12, <1>13 DEF Inv

LEMMA WorkerDiesKeeps ==
  ASSUME Inv, NEW m \in Managers,
         WorkerDies(m)
  PROVE  Inv'
<1>1. /\ work'[m].file = work[m].file \/ work'[m].file = 0
      /\ Live(work[m]) /\ ~Live(work'[m])
      /\ work'[m] \in Jobs
      /\ \A n \in Managers : n # m => work'[n] = work[n]
      /\ 0 \notin Files
      /\ UNCHANGED <<inputs, active, leaf, disk, marker, at, cmd, seen, held, valid, own>>
  <2>1. work[m] \in Jobs
    BY DEF Inv, Shape
  <2>2. work' = [work EXCEPT ![m] =
                     IF at[m] = "idle" THEN NoWork ELSE [work[m] EXCEPT !.state = "failed"]]
    BY DEF WorkerDies, Work
  <2>3. work'[m].file = work[m].file \/ work'[m].file = 0
    BY <2>1, <2>2 DEF Inv, Domains, Jobs, NoWork
  <2>4. Live(work[m]) /\ ~Live(work'[m])
    BY <2>1, <2>2 DEF WorkerDies, Inv, Domains, Jobs, NoWork, Live
  <2>5. work'[m] \in Jobs
    BY <2>1, <2>2 DEF Inv, Domains, Jobs, Sides, NoWork
  <2>6. \A n \in Managers : n # m => work'[n] = work[n]
    BY <2>2 DEF Inv, Domains
  <2>7. 0 \notin Files
    BY SqliteAssumption
  <2>8. UNCHANGED <<inputs, active, leaf, disk, marker, at, cmd, seen, held, valid, own>>
    BY DEF WorkerDies, world, files, memory, Work
  <2> QED BY <2>3, <2>4, <2>5, <2>6, <2>7, <2>8
<1>2. /\ m \in Workers /\ Workers' = Workers \ {m}
      /\ Windowed' = Windowed /\ Stagers' = Stagers /\ Placers' = Placers
      /\ Installers' = Installers /\ Claimers' = Claimers
      /\ Windowed \subseteq Stagers
      /\ Stagers \cup Placers \cup Windowed \cup Installers \cup Claimers \cup Workers \subseteq Managers
  BY <1>1 DEF Inv, Reads, Windowed, Stagers, Placers, Installers, Claimers, Workers,
       Window, Live
<1>3. Domains'
  BY DEF Inv, Domains, WorkerDies, world, files, memory, Work
<1>4. Shape'
  BY <1>1 DEF Inv, Shape, Names
<1>5. Contents'
  BY <1>1, <1>2 DEF Inv, Contents, Databases
<1>6. Reads'
  BY <1>1, <1>2 DEF Inv, Reads, Window, Migrating
<1>7. AtWork'
  BY <1>1, <1>2 DEF Inv, AtWork
<1>8. Claims'
  BY <1>1, <1>2 DEF Inv, Claims, AtWork
<1>9. Copies'
  BY <1>1, <1>2 DEF Inv, Copies, Copiers
<1>10. Intact'
  BY <1>1, <1>2 DEF Inv, Intact, Copiers, Original
<1>11. Placed'
  BY <1>1, <1>2 DEF Inv, Placed
<1>12. Retained'
  BY <1>1, <1>2 DEF Inv, Retained
<1>13. Exact'
  BY <1>1, <1>2 DEF Inv, Exact, Candidates
<1> QED BY <1>3, <1>4, <1>5, <1>6, <1>7, <1>8, <1>9, <1>10, <1>11, <1>12, <1>13 DEF Inv

LEMMA BeginKeeps ==
  ASSUME Inv, NEW m \in Managers, NEW c \in Commands,
         Begin(m, c)
  PROVE  Inv'
<1>1. /\ at[m] = "idle" /\ m \notin Workers
      /\ at'[m] = "open" /\ \A n \in Managers : n # m => at'[n] = at[n]
      /\ cmd'[m] = c /\ \A n \in Managers : n # m => cmd'[n] = cmd[n]
      /\ seen'[m] \in Sights /\ seen'[m].base <= active
      /\ \A n \in Managers : n # m => seen'[n] = seen[n]
      /\ UNCHANGED <<inputs, active, leaf, disk, marker, held, valid, own, work>>
  <2>1. at[m] = "idle" /\ m \notin Workers
    BY DEF Begin, Workers
  <2>2. at'[m] = "open" /\ \A n \in Managers : n # m => at'[n] = at[n]
    BY DEF Begin, Go, Inv, Domains
  <2>3. cmd'[m] = c /\ \A n \in Managers : n # m => cmd'[n] = cmd[n]
    BY DEF Begin, Inv, Domains
  <2>4. seen'[m] \in Sights /\ seen'[m].base <= active
    BY DEF Begin, Inv, Domains, Shape, Sights
  <2>5. \A n \in Managers : n # m => seen'[n] = seen[n]
    BY DEF Begin, Inv, Domains
  <2>6. UNCHANGED <<inputs, active, leaf, disk, marker, held, valid, own, work>>
    BY DEF Begin, Go, world, files
  <2> QED BY <2>1, <2>2, <2>3, <2>4, <2>5, <2>6
<1>2. /\ m \notin Windowed /\ Windowed' = Windowed
      /\ m \notin Stagers /\ Stagers' = Stagers
      /\ m \notin Placers /\ Placers' = Placers
      /\ m \notin Installers /\ Installers' = Installers
      /\ m \notin Claimers /\ Claimers' = Claimers
      /\ Workers' = Workers
      /\ Windowed \subseteq Stagers
      /\ Stagers \cup Placers \cup Windowed \cup Installers \cup Claimers \cup Workers \subseteq Managers
  BY <1>1 DEF Inv, Reads, Windowed, Stagers, Placers, Installers, Claimers, Workers,
       Window, Live
<1>3. Domains'
  BY DEF Inv, Domains, Begin, Go, world, files
<1>4. Shape'
  BY <1>1 DEF Inv, Shape, Names
<1>5. Contents'
  BY <1>1, <1>2 DEF Inv, Contents, Databases
<1>6. Reads'
  BY <1>1, <1>2 DEF Inv, Reads, Sights, Window, Migrating
<1>7. AtWork'
  BY <1>1, <1>2 DEF Inv, AtWork
<1>8. Claims'
  BY <1>1, <1>2 DEF Inv, Claims
<1>9. Copies'
  BY <1>1, <1>2 DEF Inv, Copies, Copiers
<1>10. Intact'
  BY <1>1, <1>2 DEF Inv, Intact, Copiers, Original
<1>11. Placed'
  BY <1>1, <1>2 DEF Inv, Placed
<1>12. Retained'
  BY <1>1, <1>2 DEF Inv, Retained
<1>13. Exact'
  BY <1>1, <1>2 DEF Inv, Exact, Candidates
<1> QED BY <1>3, <1>4, <1>5, <1>6, <1>7, <1>8, <1>9, <1>10, <1>11, <1>12, <1>13 DEF Inv

LEMMA ForgetKeeps ==
  ASSUME Inv, NEW m \in Managers,
         Forget(m),
         at[m] \in Migrating => at[m] \in {"migrating", "lost"} \/ m \notin Workers,
         UNCHANGED <<inputs, active, disk, marker>>,
         DOMAIN leaf' = Names, \A n \in Names \ {"metadata"} : leaf'[n] = leaf[n]
  PROVE  Inv'
<1>1. /\ at'[m] = "idle" /\ \A n \in Managers : n # m => at'[n] = at[n]
      /\ cmd'[m] = "none" /\ \A n \in Managers : n # m => cmd'[n] = cmd[n]
      /\ \A n \in Managers : n # m => seen'[n] = seen[n]
      /\ held'[m] = None /\ \A n \in Managers : n # m => held'[n] = held[n]
      /\ own'[m].db = 0 /\ own'[m].old = 0 /\ own'[m].was # "dirty" /\ 0 \notin Files
      /\ own'[m] \in Memories
      /\ \A n \in Managers : n # m => own'[n] = own[n]
      /\ work'[m].file = work[m].file \/ work'[m].file = 0
      /\ Live(work'[m]) <=> Live(work[m])
      /\ m \in Workers => work'[m] = work[m]
      /\ work'[m] \in Jobs
      /\ \A n \in Managers : n # m => work'[n] = work[n]
      /\ at[m] \in Migrating => at[m] \in {"migrating", "lost"} \/ m \notin Workers
      /\ \A n \in Managers : valid'[n] => n # m /\ valid[n]
      /\ leaf'["database"] = leaf["database"] /\ leaf'["journal"] = leaf["journal"] /\ leaf'["environment"] = leaf["environment"]
      /\ leaf'["staged"] = leaf["staged"] /\ leaf'["previous"] = leaf["previous"]
      /\ UNCHANGED <<inputs, active, disk, marker>>
  <2>1. work[m] \in Jobs /\ 0 \notin Files
    BY SqliteAssumption DEF Inv, Shape
  <2>2. work' = [work EXCEPT ![m] = IF Live(@) THEN @ ELSE NoWork] /\ own' = [own EXCEPT ![m] = Nothing]
    BY DEF Forget
  <2>3. at'[m] = "idle" /\ \A n \in Managers : n # m => at'[n] = at[n]
    BY DEF Forget, Go, Inv, Domains
  <2>4. cmd'[m] = "none" /\ \A n \in Managers : n # m => cmd'[n] = cmd[n]
    BY DEF Forget, Inv, Domains
  <2>5. \A n \in Managers : n # m => seen'[n] = seen[n]
    BY DEF Forget, Inv, Domains
  <2>6. held'[m] = None /\ \A n \in Managers : n # m => held'[n] = held[n]
    BY DEF Forget, Inv, Domains
  <2>7. own'[m].db = 0 /\ own'[m].old = 0 /\ own'[m].was # "dirty" /\ 0 \notin Files
    BY <2>1, <2>2 DEF Inv, Domains, Nothing
  <2>8. own'[m] \in Memories
    BY <2>2 DEF Inv, Domains, Nothing, Memories, Sides
  <2>9. \A n \in Managers : n # m => own'[n] = own[n]
    BY <2>2 DEF Inv, Domains
  <2>10. work'[m].file = work[m].file \/ work'[m].file = 0
    BY <2>2 DEF Inv, Domains, NoWork
  <2>11. Live(work'[m]) <=> Live(work[m])
    BY <2>2 DEF Inv, Domains, NoWork, Live
  <2>12. m \in Workers => work'[m] = work[m]
    BY <2>2 DEF Inv, Domains, Workers
  <2>13. work'[m] \in Jobs
    BY <2>1, <2>2 DEF Inv, Domains, NoWork, Jobs, Sides
  <2>14. \A n \in Managers : n # m => work'[n] = work[n]
    BY <2>2 DEF Inv, Domains
  <2>15. at[m] \in Migrating => at[m] \in {"migrating", "lost"} \/ m \notin Workers
    OBVIOUS
  <2>16. \A n \in Managers : valid'[n] => n # m /\ valid[n]
    BY DEF Forget, Inv, Domains
  <2>17. /\ leaf'["database"] = leaf["database"] /\ leaf'["journal"] = leaf["journal"] /\ leaf'["environment"] = leaf["environment"]
         /\ leaf'["staged"] = leaf["staged"] /\ leaf'["previous"] = leaf["previous"]
    BY DEF Names
  <2>18. UNCHANGED <<inputs, active, disk, marker>>
    OBVIOUS
  <2> QED BY <2>3, <2>4, <2>5, <2>6, <2>7, <2>8, <2>9, <2>10, <2>11, <2>12, <2>13,
       <2>14, <2>15, <2>16, <2>17, <2>18
<1>2. /\ Windowed' = Windowed \ {m}
      /\ Stagers' = Stagers \ {m}
      /\ Placers' = Placers \ {m}
      /\ Installers' = Installers \ {m}
      /\ Claimers' = Claimers \ {m}
      /\ Workers' = Workers
      /\ Windowed \subseteq Stagers
      /\ Stagers \cup Placers \cup Windowed \cup Installers \cup Claimers \cup Workers \subseteq Managers
  BY <1>1 DEF Inv, Reads, Windowed, Stagers, Placers, Installers, Claimers, Workers,
       Window, Live
<1>3. Domains'
  BY DEF Inv, Domains, Forget, Go
<1>4. Shape'
  BY <1>1 DEF Inv, Shape, Names
<1>5. Contents'
  BY <1>1, <1>2 DEF Inv, Contents, Databases
<1>6. Reads'
  BY <1>1, <1>2 DEF Inv, Reads, Sights, Window, Migrating
<1>7. AtWork'
  BY <1>1, <1>2 DEF Inv, AtWork, Migrating
<1>8. Claims'
  BY <1>1, <1>2 DEF Inv, Claims
<1>9. Copies'
  BY <1>1, <1>2 DEF Inv, Copies, Copiers
<1>10. Intact'
  BY <1>1, <1>2 DEF Inv, Intact, Copiers, Original
<1>11. Placed'
  BY <1>1, <1>2 DEF Inv, Placed
<1>12. Retained'
  BY <1>1, <1>2 DEF Inv, Retained
<1>13. Exact'
  BY <1>1, <1>2 DEF Inv, Exact, Candidates
<1> QED BY <1>3, <1>4, <1>5, <1>6, <1>7, <1>8, <1>9, <1>10, <1>11, <1>12, <1>13 DEF Inv

LEMMA SpoilKeeps ==
  ASSUME Inv, NEW m \in Managers,
         Spoil(m)
  PROVE  Inv'
<1>1. /\ at'[m] = "idle" /\ \A n \in Managers : n # m => at'[n] = at[n]
      /\ cmd'[m] = "none" /\ \A n \in Managers : n # m => cmd'[n] = cmd[n]
      /\ \A n \in Managers : n # m => seen'[n] = seen[n]
      /\ held'[m] = None /\ \A n \in Managers : n # m => held'[n] = held[n]
      /\ own'[m].db = 0 /\ own'[m].old = 0 /\ own'[m].was # "dirty" /\ 0 \notin Files
      /\ own'[m] \in Memories
      /\ \A n \in Managers : n # m => own'[n] = own[n]
      /\ work'[m].file = work[m].file \/ work'[m].file = 0
      /\ Live(work'[m]) <=> Live(work[m])
      /\ m \in Workers => work'[m] = work[m]
      /\ work'[m] \in Jobs
      /\ \A n \in Managers : n # m => work'[n] = work[n]
      /\ at[m] \in {"spoil", "lost"} /\ held[m] # None /\ held[m].state = "dirty"
      /\ \A n \in Managers : valid'[n] => n # m /\ valid[n] /\ marker' = marker
      /\ valid[m] => held[m] = marker /\ marker # None
      /\ \/ marker' = marker
         \/ /\ valid[m] /\ held[m] = marker /\ marker # None /\ marker.state = "dirty"
            /\ marker' \in Markers /\ marker' # None
            /\ marker'.base = marker.base /\ marker'.db = marker.db /\ marker'.applied = marker.applied
            /\ marker'.state = "dirty" /\ marker'.journal = marker.journal
            /\ marker'.closure = IF at[m] = "lost" THEN "unconfirmed" ELSE "confirmed"
      /\ UNCHANGED <<inputs, active, leaf, disk>>
  <2>1. work[m] \in Jobs /\ 0 \notin Files
    BY SqliteAssumption DEF Inv, Shape
  <2>2. work' = [work EXCEPT ![m] = IF Live(@) THEN @ ELSE NoWork] /\ own' = [own EXCEPT ![m] = Nothing]
    BY DEF Spoil
  <2>3. at'[m] = "idle" /\ \A n \in Managers : n # m => at'[n] = at[n]
    BY DEF Spoil, Go, Inv, Domains
  <2>4. cmd'[m] = "none" /\ \A n \in Managers : n # m => cmd'[n] = cmd[n]
    BY DEF Spoil, Inv, Domains
  <2>5. \A n \in Managers : n # m => seen'[n] = seen[n]
    BY DEF Spoil, Inv, Domains
  <2>6. held'[m] = None /\ \A n \in Managers : n # m => held'[n] = held[n]
    BY DEF Spoil, Inv, Domains
  <2>7. own'[m].db = 0 /\ own'[m].old = 0 /\ own'[m].was # "dirty" /\ 0 \notin Files
    BY <2>1, <2>2 DEF Inv, Domains, Nothing
  <2>8. own'[m] \in Memories
    BY <2>2 DEF Inv, Domains, Nothing, Memories, Sides
  <2>9. \A n \in Managers : n # m => own'[n] = own[n]
    BY <2>2 DEF Inv, Domains
  <2>10. work'[m].file = work[m].file \/ work'[m].file = 0
    BY <2>2 DEF Inv, Domains, NoWork
  <2>11. Live(work'[m]) <=> Live(work[m])
    BY <2>2 DEF Inv, Domains, NoWork, Live
  <2>12. m \in Workers => work'[m] = work[m]
    BY <2>2 DEF Inv, Domains, Workers
  <2>13. work'[m] \in Jobs
    BY <2>1, <2>2 DEF Inv, Domains, NoWork, Jobs, Sides
  <2>14. \A n \in Managers : n # m => work'[n] = work[n]
    BY <2>2 DEF Inv, Domains
  <2>15. at[m] \in {"spoil", "lost"} /\ held[m] # None /\ held[m].state = "dirty"
    BY DEF Spoil, Inv, Reads, Migrating
  <2>16. \A n \in Managers : valid'[n] => n # m /\ valid[n] /\ marker' = marker
    BY DEF Spoil, Inv, Domains
  <2>17. valid[m] => held[m] = marker /\ marker # None
    BY DEF Inv, Reads
  <2>18. /\ \/ marker' = marker
            \/ /\ valid[m] /\ held[m] = marker /\ marker # None /\ marker.state = "dirty"
               /\ marker' \in Markers /\ marker' # None
               /\ marker'.base = marker.base /\ marker'.db = marker.db /\ marker'.applied = marker.applied
               /\ marker'.state = "dirty" /\ marker'.journal = marker.journal
               /\ marker'.closure = IF at[m] = "lost" THEN "unconfirmed" ELSE "confirmed"
    BY <2>15, <2>17, SqliteAssumption DEF Spoil, Closure, Inv, Shape, Markers
  <2>19. UNCHANGED <<inputs, active, leaf, disk>>
    BY DEF Spoil, world, Go
  <2> QED BY <2>3, <2>4, <2>5, <2>6, <2>7, <2>8, <2>9, <2>10, <2>11, <2>12, <2>13,
       <2>14, <2>15, <2>16, <2>17, <2>18, <2>19
<1>2. /\ Windowed' = Windowed \ {m}
      /\ Stagers' = Stagers \ {m}
      /\ Placers' = Placers \ {m}
      /\ Installers' = Installers \ {m}
      /\ Claimers' = Claimers \ {m}
      /\ Workers' = Workers
      /\ Windowed \subseteq Stagers
      /\ Stagers \cup Placers \cup Windowed \cup Installers \cup Claimers \cup Workers \subseteq Managers
  BY <1>1 DEF Inv, Reads, Windowed, Stagers, Placers, Installers, Claimers, Workers,
       Window, Live
<1>3. Domains'
  BY DEF Inv, Domains, Spoil, Go
<1>4. Shape'
  BY <1>1 DEF Inv, Shape, Names
<1>5. Contents'
  BY <1>1, <1>2 DEF Inv, Contents, Databases
<1>6. Reads'
  BY <1>1, <1>2 DEF Inv, Reads, Sights, Window, Migrating
<1>7. AtWork'
  BY <1>1, <1>2 DEF Inv, AtWork, Migrating
<1>8. Claims'
  BY <1>1, <1>2 DEF Inv, Claims
<1>9. Copies'
  BY <1>1, <1>2 DEF Inv, Copies, Copiers
<1>10. Intact'
  BY <1>1, <1>2 DEF Inv, Intact, Copiers, Original
<1>11. Placed'
  BY <1>1, <1>2 DEF Inv, Placed
<1>12. Retained'
  BY <1>1, <1>2 DEF Inv, Retained
<1>13. Exact'
  BY <1>1, <1>2 DEF Inv, Exact, Candidates
<1> QED BY <1>3, <1>4, <1>5, <1>6, <1>7, <1>8, <1>9, <1>10, <1>11, <1>12, <1>13 DEF Inv

LEMMA PlainKeeps ==
  ASSUME Inv, NEW m \in Managers,
         at[m] # "idle", at[m] \notin Migrating, active' \in Nat, active <= active',
         at'[m] \in Quiet, \E q \in Quiet : at' = [at EXCEPT ![m] = q],
         UNCHANGED <<inputs, leaf, disk, marker, cmd, seen, held, valid, own, work>>
  PROVE  Inv'
<1>1. /\ at[m] # "idle" /\ at[m] \notin Migrating /\ active' \in Nat
      /\ at'[m] \in Quiet /\ \A n \in Managers : n # m => at'[n] = at[n]
      /\ \A n \in Managers : at[n] # "idle" => seen[n].base <= active' /\ (seen[n].base < active => seen[n].base < active')
      /\ UNCHANGED <<inputs, leaf, disk, marker, cmd, seen, held, valid, own, work>>
  <2>1. at[m] # "idle" /\ at[m] \notin Migrating /\ active' \in Nat
    OBVIOUS
  <2>2. at'[m] \in Quiet /\ \A n \in Managers : n # m => at'[n] = at[n]
    BY DEF Inv, Domains
  <2>3. \A n \in Managers : at[n] # "idle" => seen[n].base <= active' /\ (seen[n].base < active => seen[n].base < active')
    BY DEF Inv, Shape, Reads, Sights
  <2>4. UNCHANGED <<inputs, leaf, disk, marker, cmd, seen, held, valid, own, work>>
    OBVIOUS
  <2> QED BY <2>1, <2>2, <2>3, <2>4
<1>2. /\ Windowed' = Windowed \ {m}
      /\ Stagers' = Stagers \ {m}
      /\ Placers' = Placers \ {m}
      /\ Installers' = Installers \ {m}
      /\ Claimers' = Claimers \ {m}
      /\ Workers' = Workers
      /\ Windowed \subseteq Stagers
      /\ Stagers \cup Placers \cup Windowed \cup Installers \cup Claimers \cup Workers \subseteq Managers
  BY <1>1 DEF Quiet, Migrating, Windowed, Stagers, Placers, Installers, Claimers,
       Workers, Window, Live
<1>3. Domains'
  BY DEF Inv, Domains, Quiet
<1>4. Shape'
  BY <1>1 DEF Inv, Shape, Names
<1>5. Contents'
  BY <1>1, <1>2 DEF Inv, Contents, Databases
<1>6. Reads'
  BY <1>1, <1>2 DEF Inv, Reads, Quiet, Window, Migrating
<1>7. AtWork'
  BY <1>1, <1>2 DEF Inv, AtWork, Migrating, Quiet
<1>8. Claims'
  BY <1>1, <1>2 DEF Inv, Claims
<1>9. Copies'
  BY <1>1, <1>2 DEF Inv, Copies, Copiers
<1>10. Intact'
  BY <1>1, <1>2 DEF Inv, Intact, Quiet, Copiers, Original
<1>11. Placed'
  BY <1>1, <1>2 DEF Inv, Placed, Quiet
<1>12. Retained'
  BY <1>1, <1>2 DEF Inv, Retained, Quiet
<1>13. Exact'
  BY <1>1, <1>2 DEF Inv, Exact, Quiet, Candidates
<1> QED BY <1>3, <1>4, <1>5, <1>6, <1>7, <1>8, <1>9, <1>10, <1>11, <1>12, <1>13 DEF Inv
LEMMA UntouchedKeeps ==
  ASSUME Inv, inputs' \in Inputs,
         UNCHANGED <<active, leaf, disk, marker, at, cmd, seen, held, valid, own, work>>
  PROVE  Inv'
<1>1. /\ Windowed' = Windowed /\ Stagers' = Stagers /\ Placers' = Placers
      /\ Installers' = Installers /\ Claimers' = Claimers /\ Workers' = Workers
  BY DEF Windowed, Stagers, Placers, Installers, Claimers, Workers, Live
<1>2. Domains' /\ Shape' /\ Contents'
  BY DEF Inv, Domains, Shape, Contents
<1>3. Reads' /\ Retained'
  BY DEF Inv, Reads, Retained
<1>4. AtWork' /\ Claims'
  BY <1>1 DEF Inv, AtWork, Claims
<1>5. Copies' /\ Intact'
  BY <1>1 DEF Inv, Copies, Intact, Copiers, Original
<1>6. Placed'
  BY <1>1 DEF Inv, Placed
<1>7. Exact'
  BY DEF Inv, Exact, Candidates
<1> QED BY <1>2, <1>3, <1>4, <1>5, <1>6, <1>7 DEF Inv

LEMMA InitInv == Init => Inv
<1> SUFFICES ASSUME Init PROVE Inv
  OBVIOUS
<1>1. Windowed = {} /\ Stagers = {} /\ Placers = {} /\ Installers = {} /\ Claimers = {} /\ Workers = {}
  BY DEF Init, Windowed, Window, Stagers, Placers, Installers, Claimers, Workers,
       Live, NoWork
<1>2. Domains /\ Shape
  BY SqliteAssumption DEF Init, Domains, Shape, Inputs, Names, Nothing, NoWork,
       Memories, Jobs, Sides
<1>3. Contents
  BY DEF Init, Contents, Databases, Names
<1>4. Reads
  BY DEF Init, Reads, Migrating, Window, Nothing
<1>5. AtWork /\ Claims /\ Copies /\ Intact /\ Placed
  BY <1>1 DEF AtWork, Claims, Copies, Intact, Placed, Copiers
<1>6. Retained /\ Exact
  BY DEF Init, Retained, Exact
<1> QED BY <1>2, <1>3, <1>4, <1>5, <1>6 DEF Inv

LEMMA StepInv == Inv /\ [Next]_vars => Inv'
<1> SUFFICES ASSUME Inv, [Next]_vars PROVE Inv'
  OBVIOUS
<1>1. CASE UNCHANGED vars
  BY <1>1, UntouchedKeeps DEF vars, world, files, memory, Inv, Shape
<1>2. CASE Edit
  <2>1. inputs' \in Inputs
    BY <1>2 DEF Edit, Inv, Shape, Inputs
  <2> QED BY <1>2, <2>1, UntouchedKeeps DEF Edit, files, memory
<1>3. ASSUME NEW m \in Managers, Orphan(m) PROVE Inv'
  BY <1>3, UntouchedKeeps DEF Orphan, world, files, memory, Inv, Shape
<1>4. ASSUME NEW m \in Managers, NEW c \in Commands, Begin(m, c) PROVE Inv'
  BY <1>4, BeginKeeps
<1>5. ASSUME NEW m \in Managers, Return(m) \/ Fail(m) \/ Kill(m) PROVE Inv'
  <2>1. Forget(m) /\ UNCHANGED <<inputs, active, disk, marker>>
    BY <1>5 DEF Return, Fail, Kill, world, files
  <2>2. DOMAIN leaf' = Names /\ \A n \in Names \ {"metadata"} : leaf'[n] = leaf[n]
    BY <1>5 DEF Return, Fail, Kill, files, Put, Inv, Domains
  <2>3. at[m] \in Migrating => at[m] \in {"migrating", "lost"} \/ m \notin Workers
    BY DEF Inv, AtWork, Migrating
  <2> QED BY <2>1, <2>2, <2>3, ForgetKeeps
<1>6. ASSUME NEW m \in Managers, MakeDirectory(m) PROVE Inv'
  <2>1. /\ at[m] # "idle" /\ at[m] \notin Migrating
        /\ \E q \in Quiet : at' = [at EXCEPT ![m] = q]
    BY <1>6 DEF MakeDirectory, Step, Go, world, files, Migrating, Quiet
  <2>2. at'[m] \in Quiet /\ active' \in Nat /\ active <= active'
    BY <1>6, <2>1 DEF MakeDirectory, Inv, Domains, Shape, world
  <2>3. UNCHANGED <<inputs, leaf, disk, marker, cmd, seen, held, valid, own, work>>
    BY <1>6 DEF MakeDirectory, Step, Go, world, files
  <2> QED BY <2>1, <2>2, <2>3, PlainKeeps
<1>7. ASSUME NEW m \in Managers, OwnDirectory(m) PROVE Inv'
  <2>1. /\ at[m] # "idle" /\ at[m] \notin Migrating
        /\ \E q \in Quiet : at' = [at EXCEPT ![m] = q]
    BY <1>7 DEF OwnDirectory, Step, Go, world, Migrating, Quiet
  <2>2. at'[m] \in Quiet /\ active' \in Nat /\ active <= active'
    BY <1>7, <2>1 DEF OwnDirectory, Inv, Domains, Shape, world
  <2>3. UNCHANGED <<inputs, leaf, disk, marker, cmd, seen, held, valid, own, work>>
    BY <1>7 DEF OwnDirectory, Step, Go, world
  <2> QED BY <2>1, <2>2, <2>3, PlainKeeps
<1>8. ASSUME NEW m \in Managers, Verified(m) PROVE Inv'
  <2>1. /\ at[m] # "idle" /\ at[m] \notin Migrating
        /\ \E q \in Quiet : at' = [at EXCEPT ![m] = q]
    BY <1>8 DEF Verified, Checked, Go, world, files, Migrating, Quiet
  <2>2. at'[m] \in Quiet /\ active' \in Nat /\ active <= active'
    BY <1>8, <2>1 DEF Verified, Inv, Domains, Shape, world
  <2>3. UNCHANGED <<inputs, leaf, disk, marker, cmd, seen, held, valid, own, work>>
    BY <1>8 DEF Verified, Checked, Go, world, files
  <2> QED BY <2>1, <2>2, <2>3, PlainKeeps
<1>9. ASSUME NEW m \in Managers, Final(m) PROVE Inv'
  <2>1. /\ at[m] # "idle" /\ at[m] \notin Migrating
        /\ \E q \in Quiet : at' = [at EXCEPT ![m] = q]
    BY <1>9 DEF Final, Step, Go, world, files, Migrating, Quiet
  <2>2. at'[m] \in Quiet /\ active' \in Nat /\ active <= active'
    BY <1>9, <2>1 DEF Final, Inv, Domains, Shape, world
  <2>3. UNCHANGED <<inputs, leaf, disk, marker, cmd, seen, held, valid, own, work>>
    BY <1>9 DEF Final, Step, Go, world, files
  <2> QED BY <2>1, <2>2, <2>3, PlainKeeps
<1>10. ASSUME NEW m \in Managers, Snapshot(m) PROVE Inv'
  <2>1. /\ at[m] # "idle" /\ at[m] \notin Migrating
        /\ \E q \in Quiet : at' = [at EXCEPT ![m] = q]
    BY <1>10 DEF Snapshot, Step, Go, files, Migrating, Quiet
  <2>2. at'[m] \in Quiet /\ active' \in Nat /\ active <= active'
    BY <1>10, <2>1 DEF Snapshot, Inv, Domains, Shape
  <2>3. UNCHANGED <<inputs, leaf, disk, marker, cmd, seen, held, valid, own, work>>
    BY <1>10 DEF Snapshot, Step, Go, files
  <2> QED BY <2>1, <2>2, <2>3, PlainKeeps
<1>11. ASSUME NEW m \in Managers, Sanitize(m) PROVE Inv'
  <2>1. /\ at[m] # "idle" /\ at[m] \notin Migrating
        /\ \E q \in Quiet : at' = [at EXCEPT ![m] = q]
    BY <1>11 DEF Sanitize, Step, Go, files, Migrating, Quiet
  <2>2. at'[m] \in Quiet /\ active' \in Nat /\ active <= active'
    BY <1>11, <2>1 DEF Sanitize, Inv, Domains, Shape
  <2>3. UNCHANGED <<inputs, leaf, disk, marker, cmd, seen, held, valid, own, work>>
    BY <1>11 DEF Sanitize, Step, Go, files
  <2> QED BY <2>1, <2>2, <2>3, PlainKeeps
<1>12. ASSUME NEW m \in Managers, Activate(m) PROVE Inv'
  <2>1. /\ at[m] # "idle" /\ at[m] \notin Migrating
        /\ \E q \in Quiet : at' = [at EXCEPT ![m] = q]
    BY <1>12 DEF Activate, Step, Go, files, Migrating, Quiet
  <2>2. at'[m] \in Quiet /\ active' \in Nat /\ active <= active'
    BY <1>12, <2>1 DEF Activate, Inv, Domains, Shape
  <2>3. UNCHANGED <<inputs, leaf, disk, marker, cmd, seen, held, valid, own, work>>
    BY <1>12 DEF Activate, Step, Go, files
  <2> QED BY <2>1, <2>2, <2>3, PlainKeeps
<1>13. ASSUME NEW m \in Managers, DiscardRecord(m) PROVE Inv'
  <2>1. /\ at[m] # "idle" /\ at[m] \notin Migrating
        /\ \E q \in Quiet : at' = [at EXCEPT ![m] = q]
    BY <1>13 DEF DiscardRecord, Step, Go, world, Migrating, Quiet
  <2>2. at'[m] \in Quiet /\ active' \in Nat /\ active <= active'
    BY <1>13, <2>1 DEF DiscardRecord, Inv, Domains, Shape, world
  <2>3. UNCHANGED <<inputs, leaf, disk, marker, cmd, seen, held, valid, own, work>>
    BY <1>13 DEF DiscardRecord, Step, Go, world
  <2> QED BY <2>1, <2>2, <2>3, PlainKeeps
<1>14. ASSUME NEW m \in Managers, DiscardDirectory(m) PROVE Inv'
  <2>1. /\ at[m] # "idle" /\ at[m] \notin Migrating
        /\ \E q \in Quiet : at' = [at EXCEPT ![m] = q]
    BY <1>14 DEF DiscardDirectory, Step, Go, world, Migrating, Quiet
  <2>2. at'[m] \in Quiet /\ active' \in Nat /\ active <= active'
    BY <1>14, <2>1 DEF DiscardDirectory, Inv, Domains, Shape, world
  <2>3. UNCHANGED <<inputs, leaf, disk, marker, cmd, seen, held, valid, own, work>>
    BY <1>14 DEF DiscardDirectory, Step, Go, world
  <2> QED BY <2>1, <2>2, <2>3, PlainKeeps
<1>15. ASSUME NEW m \in Managers,
               Open(m) \/ Close(m) \/ Check(m) \/ Stage(m)
        PROVE  Inv'
  BY <1>15, OpenKeeps, CloseKeeps, CheckKeeps, StageKeeps
<1>16. ASSUME NEW m \in Managers,
               Swap(m) \/ Handles(m) \/ Retire(m) \/ Disable(m) \/ Retain(m) \/ Unlink(m)
               \/ Install(m) \/ Unstage(m) \/ Enable(m) \/ MarkReset(m) \/ Tidy(m)
        PROVE  Inv'
  BY <1>16, SwapKeeps, HandlesKeeps, RetireKeeps, DisableKeeps, RetainKeeps,
       UnlinkKeeps, InstallKeeps, UnstageKeeps, EnableKeeps, MarkResetKeeps, TidyKeeps
<1>17. ASSUME NEW m \in Managers,
               EnableStart(m) \/ MarkStart(m) \/ DisableStop(m) \/ MarkStop(m)
        PROVE  Inv'
  BY <1>17, EnableStartKeeps, MarkStartKeeps, DisableStopKeeps, MarkStopKeeps
<1>18. ASSUME NEW m \in Managers,
               ClaimJournal(m) \/ MarkDirty(m) \/ Migrated(m) \/ MigrationFails(m) \/ Spoil(m) \/ Settle(m)
               \/ MarkMigrated(m)
        PROVE  Inv'
  BY <1>18, ClaimJournalKeeps, MarkDirtyKeeps, MigratedKeeps, MigrationFailsKeeps,
       SpoilKeeps, SettleKeeps, MarkMigratedKeeps
<1>19. ASSUME NEW m \in Managers,
               WorkerOpen(m) \/ WorkerBegin(m) \/ WorkerCommit(m) \/ WorkerRollback(m) \/ WorkerDies(m)
        PROVE  Inv'
  BY <1>19, WorkerOpenKeeps, WorkerBeginKeeps, WorkerCommitKeeps,
       WorkerRollbackKeeps, WorkerDiesKeeps
<1>20. ASSUME NEW m \in Managers,
               Discard(m) \/ DiscardSidecars(m) \/ DiscardDatabase(m) \/ DiscardMarker(m)
        PROVE  Inv'
  BY <1>20, DiscardKeeps, DiscardSidecarsKeeps, DiscardDatabaseKeeps, DiscardMarkerKeeps
<1> QED BY <1>1, <1>2, <1>3, <1>4, <1>5, <1>6, <1>7, <1>8, <1>9, <1>10, <1>11, <1>12,
     <1>13, <1>14, <1>15, <1>16, <1>17, <1>18, <1>19, <1>20 DEF Next, Reset, Migrate,
     Worker, Remove

\* Inv is an invariant of the embedded runtime, for every number of managers,
\* files, disturbances and migrations (sqlite_manager.mts).
THEOREM Invariant == Spec => []Inv
<1>1. Init => Inv
  BY InitInv
<1>2. Inv /\ [Next]_vars => Inv'
  BY StepInv
<1> QED BY <1>1, <1>2, PTL DEF Spec

\* The word of the marker is true: beside the database it names, a marker that
\* is not dirty describes it exactly, and one whose closure is confirmed has no
\* worker left (the catch of migrate and the assertions of sqlite_manager.mts).
THEOREM MarkersAreTrue == Spec => []MarkerIsTrue
<1>1. Inv => TrustedIsExact
  <2> SUFFICES ASSUME Inv, marker # None, marker.state # "dirty", Stands("database", marker.db)
               PROVE  [id |-> marker.db, base |-> marker.base, applied |-> marker.applied,
                       hot |-> FALSE] \in disk
    BY DEF TrustedIsExact
  <2>1. marker.db \in leaf["database"]
    BY DEF Stands
  <2>2. PICK d \in disk : d.id = marker.db
    BY <2>1 DEF Inv, Contents, Databases
  <2>3. d \in Rows /\ d.base = marker.base /\ d.applied = marker.applied /\ d.hot = FALSE
    BY <2>2 DEF Inv, Shape, Exact
  <2>4. d = [id |-> marker.db, base |-> marker.base, applied |-> marker.applied, hot |-> FALSE]
    BY <2>2, <2>3 DEF Rows
  <2> QED BY <2>4
<1>2. Inv => ConfirmedIsClosed
  BY DEF Inv, AtWork, Workers, ConfirmedIsClosed
<1> QED BY <1>1, <1>2, Invariant, PTL DEF MarkerIsTrue

-----------------------------------------------------------------------------
(* Resets.                                                                 *)

\* Nobody takes the last name of the database that the marker names, except
\* the discard of that database.
KeepsEvidence ==
  marker # None /\ marker.db \in leaf["database"] \cup leaf["previous"] =>
    \/ marker.db \in leaf'["database"] \cup leaf'["previous"]
    \/ \E m \in Managers : at[m] = "database" /\ held[m].db = marker.db

LEMMA OtherNames ==
  ASSUME Inv, NEW n \in Names, NEW S, Put(n, S), n \notin {"database", "previous"}
  PROVE  KeepsEvidence
<1>1. leaf'["database"] = leaf["database"] /\ leaf'["previous"] = leaf["previous"]
  BY DEF Put, Inv, Domains, Names
<1> QED BY <1>1 DEF KeepsEvidence

LEMMA EvidenceStep == Inv /\ [Next]_vars => KeepsEvidence
<1> SUFFICES ASSUME Inv, [Next]_vars PROVE KeepsEvidence
  OBVIOUS
<1>1. CASE UNCHANGED leaf
  BY <1>1 DEF KeepsEvidence
<1>2. ASSUME NEW m \in Managers, NEW n \in {"journal", "environment", "staged", "metadata"},
             NEW S, Put(n, S)
      PROVE  KeepsEvidence
  BY <1>2, OtherNames DEF Names
<1>3. ASSUME NEW m \in Managers, Retain(m) PROVE KeepsEvidence
  <2>1. leaf'["database"] = leaf["database"]
    BY <1>3 DEF Retain, Put, Inv, Domains, Names
  <2>2. leaf["previous"] \subseteq leaf'["previous"]
    BY <1>3 DEF Retain, Put, Inv, Domains, Names
  <2> QED BY <2>1, <2>2 DEF KeepsEvidence
<1>4. ASSUME NEW m \in Managers, Unlink(m) PROVE KeepsEvidence
  <2>1. leaf'["previous"] = leaf["previous"]
    BY <1>4 DEF Unlink, Drop, Put, Inv, Domains, Names
  <2>2. leaf["database"] \subseteq leaf["previous"]
    BY <1>4 DEF Unlink, Step, Inv, Placed, Windowed, Window
  <2> QED BY <2>1, <2>2 DEF KeepsEvidence
<1>5. ASSUME NEW m \in Managers, Install(m) PROVE KeepsEvidence
  <2>1. leaf'["previous"] = leaf["previous"] /\ leaf["database"] = {}
    BY <1>5 DEF Install, Put, Inv, Domains, Names
  <2> QED BY <2>1 DEF KeepsEvidence
<1>6. ASSUME NEW m \in Managers, Tidy(m) PROVE KeepsEvidence
  <2>1. /\ leaf'["database"] = leaf["database"]
        /\ leaf'["previous"] = leaf["previous"] \ {own[m].old}
    BY <1>6 DEF Tidy, Drop, Put, Inv, Domains, Names
  <2>2. marker # None => marker.db # own[m].old
    BY <1>6 DEF Tidy, Step, Inv, Retained
  <2> QED BY <2>1, <2>2 DEF KeepsEvidence
<1>7. ASSUME NEW m \in Managers, DiscardDatabase(m) PROVE KeepsEvidence
  <2>1. /\ leaf'["database"] = leaf["database"] \ {held[m].db}
        /\ leaf'["previous"] = leaf["previous"]
    BY <1>7 DEF DiscardDatabase, Drop, Put, Inv, Domains, Names
  <2>2. at[m] = "database"
    BY <1>7 DEF DiscardDatabase, Step
  <2> QED BY <2>1, <2>2 DEF KeepsEvidence

<1>8. ASSUME NEW m \in Managers, \E c \in Commands : Begin(m, c) PROVE KeepsEvidence
  BY <1>8, <1>1 DEF Begin, files
<1>9. ASSUME NEW m \in Managers, Return(m) \/ Fail(m) \/ Kill(m) \/ Orphan(m) PROVE KeepsEvidence
  BY <1>9, <1>1, <1>2 DEF Return, Fail, Kill, Orphan, files
<1>10. ASSUME NEW m \in Managers, Open(m) \/ Close(m) \/ Check(m) \/ Verified(m) PROVE KeepsEvidence
  BY <1>10, <1>1 DEF Open, Close, Check, Verified, files
<1>11. ASSUME NEW m \in Managers, MakeDirectory(m) \/ OwnDirectory(m) \/ Swap(m) \/ Handles(m) \/ MarkReset(m) \/ Final(m) PROVE KeepsEvidence
  BY <1>11, <1>1 DEF MakeDirectory, OwnDirectory, Swap, Handles, MarkReset, Final, files
<1>12. ASSUME NEW m \in Managers, Stage(m) \/ Retire(m) \/ Disable(m) \/ Unstage(m) \/ Enable(m) PROVE KeepsEvidence
  BY <1>12, <1>1, <1>2 DEF Stage, Retire, Disable, Unstage, Enable, Drop,
       MakeEnvironment
<1>13. ASSUME NEW m \in Managers, EnableStart(m) \/ MarkStart(m) \/ DisableStop(m) \/ MarkStop(m) PROVE KeepsEvidence
  BY <1>13, <1>1, <1>2 DEF EnableStart, MarkStart, DisableStop, MarkStop,
       MakeEnvironment
<1>14. ASSUME NEW m \in Managers, Migrate(m) PROVE KeepsEvidence
  BY <1>14, <1>1, <1>2 DEF Migrate, ClaimJournal, MarkDirty, Migrated,
       MigrationFails, Spoil, Settle, MarkMigrated, files
<1>15. ASSUME NEW m \in Managers, Worker(m) PROVE KeepsEvidence
  BY <1>15, <1>1, <1>2 DEF Worker, WorkerOpen, WorkerBegin, WorkerCommit,
       WorkerRollback, WorkerDies, files
<1>16. ASSUME NEW m \in Managers, Discard(m) \/ DiscardSidecars(m) \/ DiscardMarker(m) \/ DiscardRecord(m) \/ DiscardDirectory(m) PROVE KeepsEvidence
  BY <1>16, <1>1, <1>2 DEF Discard, DiscardSidecars, DiscardMarker, DiscardRecord,
       DiscardDirectory
<1>17. ASSUME NEW m \in Managers, Snapshot(m) \/ Sanitize(m) \/ Activate(m) PROVE KeepsEvidence
  BY <1>17, <1>1 DEF Snapshot, Sanitize, Activate, files
<1>18. CASE Edit
  BY <1>18, <1>1 DEF Edit, files
<1>19. CASE UNCHANGED vars
  BY <1>19, <1>1 DEF vars, files
<1> QED BY <1>1, <1>2, <1>3, <1>4, <1>5, <1>6, <1>7, <1>8, <1>9, <1>10, <1>11, <1>12,
     <1>13, <1>14, <1>15, <1>16, <1>17, <1>18, <1>19 DEF Next, Reset, Remove


\* A directory with nothing in it that a reset or a kill leaves there.
Bare ==
  dir = "owned" /\ leaf["staged"] = {} /\ leaf["previous"] = {} /\ leaf["metadata"] = {}

\* Everything in it is what the marker mk names.
Composed(mk) ==
  /\ Bare /\ leaf["database"] = {mk.db} /\ EnvironmentProven(mk)
  /\ leaf["journal"] # {} => mk.journal # 0 /\ leaf["journal"] = {mk.journal}

\* Without a kill there is one manager at a time.
Alone == killed = 0 => \A m \in Managers : at[m] # "idle" => lock = m

Composure ==
  marker # None /\ marker.state = "dirty" /\ (\A m \in Managers : at[m] \notin Delicate) =>
    Composed(marker)

\* What m has seen of the directory, where it is about to make a marker dirty,
\* to write a dirty one again, or to leave a delicate place.
Ordered(m) ==
  /\ at[m] \in {"check", "checked"} => Bare
  /\ at[m] = "mark" /\ cmd[m] = "migrate" =>
       Bare /\ leaf["database"] = {held[m].db} /\ EnvironmentProven(held[m])
  /\ at[m] = "mark" /\ cmd[m] = "stop" =>
       /\ Bare /\ leaf["database"] = {held[m].db} /\ leaf["environment"] = {}
       /\ leaf["journal"] # {} => held[m].journal # 0 /\ leaf["journal"] = {held[m].journal}
  /\ at[m] \in {"owner", "tidy", "final"} /\ marker # None => marker.state # "dirty"
  /\ at[m] \in {"record", "directory"} => marker = None

\* As long as nobody was killed and nothing failed at a delicate place, what
\* stands beside a dirty marker is what it names.
Orderly ==
  killed = 0 /\ ~upset => Composure /\ \A m \in Managers : Ordered(m)

Undisturbed == killed \in Nat /\ Alone /\ Orderly

LEMMA Before ==
  ASSUME Undisturbed, killed = 0, ~upset, NEW m \in Managers, at[m] # "idle"
  PROVE  /\ lock = m /\ \A n \in Managers \ {m} : at[n] = "idle"
         /\ marker # None /\ marker.state = "dirty" /\ at[m] \notin Delicate => Composed(marker)
         /\ Ordered(m)
<1>1. lock = m /\ \A n \in Managers \ {m} : at[n] = "idle"
  BY DEF Undisturbed, Alone
<1>2. "idle" \notin Delicate
  BY DEF Delicate
<1> QED BY <1>1, <1>2 DEF Undisturbed, Orderly, Composure

\* A step of a manager at work needs to be looked at for that manager only.
LEMMA Moves ==
  ASSUME Inv, Undisturbed, NEW m \in Managers, at[m] # "idle",
         \A n \in Managers \ {m} : at'[n] = at[n],
         at'[m] # "idle" => lock' = lock, killed' = killed,
         upset => upset',
         killed = 0 /\ ~upset /\ ~upset' =>
           /\ marker' # None /\ marker'.state = "dirty" /\ at'[m] \notin Delicate => Composed(marker)'
           /\ Ordered(m)'
  PROVE  Undisturbed'
<1>1. Alone'
  <2> SUFFICES ASSUME killed' = 0, NEW n \in Managers, at'[n] # "idle" PROVE lock' = n
    BY DEF Alone
  <2>1. lock = m /\ \A x \in Managers \ {m} : at[x] = "idle"
    BY DEF Undisturbed, Alone
  <2> QED BY <2>1
<1>2. Orderly'
  <2> SUFFICES ASSUME killed' = 0, ~upset' PROVE Composure' /\ \A n \in Managers : Ordered(n)'
    BY DEF Orderly
  <2>1. \A n \in Managers \ {m} : at'[n] = "idle"
    BY Before
  <2>2. \A n \in Managers \ {m} : Ordered(n)'
    BY <2>1 DEF Ordered
  <2>3. Composure'
    BY DEF Composure
  <2> QED BY <2>2, <2>3
<1> QED BY <1>1, <1>2 DEF Undisturbed


\* Looking does not disturb anything.
LEMMA LooksCalm ==
  ASSUME Undisturbed, killed = 0, ~upset, NEW m \in Managers, at[m] # "idle",
         at[m] \notin Delicate, UNCHANGED <<dir, leaf, marker>>,
         at'[m] \notin {"mark", "owner", "tidy", "final", "record", "directory"},
         at'[m] \in {"check", "checked"} => Bare
  PROVE  /\ marker' # None /\ marker'.state = "dirty" /\ at'[m] \notin Delicate => Composed(marker)'
         /\ Ordered(m)'
<1>1. marker # None /\ marker.state = "dirty" => Composed(marker)
  BY Before
<1>2. marker' # None /\ marker'.state = "dirty" => Composed(marker)'
  BY <1>1 DEF Composed, Bare, EnvironmentProven, Stands, Links
<1>3. Ordered(m)'
  BY DEF Ordered, Bare
<1> QED BY <1>2, <1>3


LEMMA SwapCalm ==
  ASSUME Inv, Undisturbed, NEW m \in Managers, Swap(m)
  PROVE  Undisturbed'
<1>1. at[m] # "idle" /\ (\A n \in Managers \ {m} : at'[n] = at[n]) /\ DOMAIN at = Managers
      /\ lock' = lock /\ killed' = killed /\ upset' = upset
  BY DEF Swap, Step, Go, Checked, counts, Inv, Domains
<1>2. ASSUME killed = 0, ~upset
      PROVE  /\ marker' # None /\ marker'.state = "dirty" /\ at'[m] \notin Delicate => Composed(marker)'
             /\ Ordered(m)'
  BY <1>1, <1>2, Before DEF Swap, Step, Go, Ordered, Delicate, files, Composed, Bare,
       EnvironmentProven, Stands, Links
<1> QED BY <1>1, <1>2, Moves


LEMMA HandlesCalm ==
  ASSUME Inv, Undisturbed, NEW m \in Managers, Handles(m)
  PROVE  Undisturbed'
<1>1. at[m] # "idle" /\ (\A n \in Managers \ {m} : at'[n] = at[n]) /\ DOMAIN at = Managers
      /\ lock' = lock /\ killed' = killed /\ upset' = upset
  BY DEF Handles, Step, Go, Checked, counts, Inv, Domains
<1>2. ASSUME killed = 0, ~upset
      PROVE  /\ marker' # None /\ marker'.state = "dirty" /\ at'[m] \notin Delicate => Composed(marker)'
             /\ Ordered(m)'
  BY <1>1, <1>2, Before DEF Handles, Step, Go, Ordered, Delicate, files, Composed,
       Bare, EnvironmentProven, Stands, Links
<1> QED BY <1>1, <1>2, Moves


LEMMA CloseCalm ==
  ASSUME Inv, Undisturbed, NEW m \in Managers, Close(m)
  PROVE  Undisturbed'
<1>1. at[m] # "idle" /\ (\A n \in Managers \ {m} : at'[n] = at[n]) /\ DOMAIN at = Managers
      /\ lock' = lock /\ killed' = killed /\ upset' = upset
  BY DEF Close, Step, Go, Checked, counts, Inv, Domains
<1>2. ASSUME killed = 0, ~upset
      PROVE  /\ marker' # None /\ marker'.state = "dirty" /\ at'[m] \notin Delicate => Composed(marker)'
             /\ Ordered(m)'
  <2>1. /\ at[m] \notin Delicate /\ UNCHANGED <<dir, leaf, marker>>
        /\ at'[m] \notin {"mark", "owner", "tidy", "final", "record", "directory"}
    BY <1>1 DEF Close, Step, Go, files, Delicate
  <2>2. at'[m] \in {"check", "checked"} => Bare
    BY <1>1, <1>2 DEF Close, Step, Go
  <2> QED BY <1>1, <1>2, <2>1, <2>2, LooksCalm
<1> QED BY <1>1, <1>2, Moves


LEMMA CheckCalm ==
  ASSUME Inv, Undisturbed, NEW m \in Managers, Check(m)
  PROVE  Undisturbed'
<1>1. at[m] # "idle" /\ (\A n \in Managers \ {m} : at'[n] = at[n]) /\ DOMAIN at = Managers
      /\ lock' = lock /\ killed' = killed /\ upset' = upset
  BY DEF Check, Step, Go, Checked, counts, Inv, Domains
<1>2. ASSUME killed = 0, ~upset
      PROVE  /\ marker' # None /\ marker'.state = "dirty" /\ at'[m] \notin Delicate => Composed(marker)'
             /\ Ordered(m)'
  <2>1. /\ at[m] \notin Delicate /\ UNCHANGED <<dir, leaf, marker>>
        /\ at'[m] \notin {"mark", "owner", "tidy", "final", "record", "directory"}
    BY <1>1 DEF Check, Step, Go, files, Delicate
  <2>2. at'[m] \in {"check", "checked"} => Bare
    BY <1>1, <1>2, Before DEF Check, Step, Go, Ordered
  <2> QED BY <1>1, <1>2, <2>1, <2>2, LooksCalm
<1> QED BY <1>1, <1>2, Moves


LEMMA SettleCalm ==
  ASSUME Inv, Undisturbed, NEW m \in Managers, Settle(m)
  PROVE  Undisturbed'
<1>1. at[m] # "idle" /\ (\A n \in Managers \ {m} : at'[n] = at[n]) /\ DOMAIN at = Managers
      /\ lock' = lock /\ killed' = killed /\ upset' = upset
  BY DEF Settle, Step, Go, Checked, counts, Inv, Domains
<1>2. ASSUME killed = 0, ~upset
      PROVE  /\ marker' # None /\ marker'.state = "dirty" /\ at'[m] \notin Delicate => Composed(marker)'
             /\ Ordered(m)'
  <2>1. /\ at[m] \notin Delicate /\ UNCHANGED <<dir, leaf, marker>>
        /\ at'[m] \notin {"mark", "owner", "tidy", "final", "record", "directory"}
    BY <1>1 DEF Settle, Step, Go, files, Delicate
  <2>2. at'[m] \in {"check", "checked"} => Bare
    BY <1>1, <1>2 DEF Settle, Step, Go
  <2> QED BY <1>1, <1>2, <2>1, <2>2, LooksCalm
<1> QED BY <1>1, <1>2, Moves


LEMMA VerifiedCalm ==
  ASSUME Inv, Undisturbed, NEW m \in Managers, Verified(m)
  PROVE  Undisturbed'
<1>1. at[m] # "idle" /\ (\A n \in Managers \ {m} : at'[n] = at[n]) /\ DOMAIN at = Managers
      /\ lock' = lock /\ killed' = killed /\ upset' = upset
  BY DEF Verified, Step, Go, Checked, counts, Inv, Domains
<1>2. ASSUME killed = 0, ~upset
      PROVE  /\ marker' # None /\ marker'.state = "dirty" /\ at'[m] \notin Delicate => Composed(marker)'
             /\ Ordered(m)'
  <2>1. /\ at[m] \notin Delicate /\ UNCHANGED <<dir, leaf, marker>>
        /\ at'[m] \notin {"mark", "owner", "tidy", "final", "record", "directory"}
    BY <1>1 DEF Verified, Step, Go, files, Delicate, Checked
  <2>2. at'[m] \in {"check", "checked"} => Bare
    BY <1>1, <1>2 DEF Verified, Step, Go
  <2> QED BY <1>1, <1>2, <2>1, <2>2, LooksCalm
<1> QED BY <1>1, <1>2, Moves


LEMMA FinalCalm ==
  ASSUME Inv, Undisturbed, NEW m \in Managers, Final(m)
  PROVE  Undisturbed'
<1>1. at[m] # "idle" /\ (\A n \in Managers \ {m} : at'[n] = at[n]) /\ DOMAIN at = Managers
      /\ lock' = lock /\ killed' = killed /\ upset' = upset
  BY DEF Final, Step, Go, Checked, counts, Inv, Domains
<1>2. ASSUME killed = 0, ~upset
      PROVE  /\ marker' # None /\ marker'.state = "dirty" /\ at'[m] \notin Delicate => Composed(marker)'
             /\ Ordered(m)'
  BY <1>1, <1>2, Before DEF Final, Step, Go, Ordered, Delicate, files, Composed,
       Bare, EnvironmentProven, Stands, Links
<1> QED BY <1>1, <1>2, Moves


LEMMA MakeDirectoryCalm ==
  ASSUME Inv, Undisturbed, NEW m \in Managers, MakeDirectory(m)
  PROVE  Undisturbed'
<1>1. at[m] # "idle" /\ (\A n \in Managers \ {m} : at'[n] = at[n]) /\ DOMAIN at = Managers
      /\ lock' = lock /\ killed' = killed /\ upset' = upset
  BY DEF MakeDirectory, Step, Go, Checked, counts, Inv, Domains
<1>2. ASSUME killed = 0, ~upset
      PROVE  /\ marker' # None /\ marker'.state = "dirty" /\ at'[m] \notin Delicate => Composed(marker)'
             /\ Ordered(m)'
  BY <1>1, <1>2, Before DEF MakeDirectory, Step, Go, Ordered, Delicate, Composed,
       Bare, EnvironmentProven, Stands, Links
<1> QED BY <1>1, <1>2, Moves


LEMMA OwnDirectoryCalm ==
  ASSUME Inv, Undisturbed, NEW m \in Managers, OwnDirectory(m)
  PROVE  Undisturbed'
<1>1. at[m] # "idle" /\ (\A n \in Managers \ {m} : at'[n] = at[n]) /\ DOMAIN at = Managers
      /\ lock' = lock /\ killed' = killed /\ upset' = upset
  BY DEF OwnDirectory, Step, Go, Checked, counts, Inv, Domains
<1>2. ASSUME killed = 0, ~upset
      PROVE  /\ marker' # None /\ marker'.state = "dirty" /\ at'[m] \notin Delicate => Composed(marker)'
             /\ Ordered(m)'
  BY <1>1, <1>2, Before DEF OwnDirectory, Step, Go, Ordered, Delicate
<1> QED BY <1>1, <1>2, Moves


LEMMA OpenCalm ==
  ASSUME Inv, Undisturbed, NEW m \in Managers, Open(m)
  PROVE  Undisturbed'
<1>1. at[m] # "idle" /\ (\A n \in Managers \ {m} : at'[n] = at[n]) /\ DOMAIN at = Managers
      /\ lock' = lock /\ killed' = killed /\ upset' = upset
  BY DEF Open, Step, Go, Checked, counts, Inv, Domains
<1>2. ASSUME killed = 0, ~upset
      PROVE  /\ marker' # None /\ marker'.state = "dirty" /\ at'[m] \notin Delicate => Composed(marker)'
             /\ Ordered(m)'
  <2>1. /\ at[m] \notin Delicate /\ UNCHANGED <<dir, leaf, marker>>
        /\ at'[m] \notin {"mark", "owner", "tidy", "final", "record", "directory"}
    BY <1>1 DEF Open, Step, Go, files, Delicate
  <2>2. at'[m] \in {"check", "checked"} => Bare
    BY <1>1, <1>2 DEF Open, Step, Go, LeavesProven, Leaves, Bare
  <2> QED BY <1>1, <1>2, <2>1, <2>2, LooksCalm
<1> QED BY <1>1, <1>2, Moves


LEMMA StageCalm ==
  ASSUME Inv, Undisturbed, NEW m \in Managers, Stage(m)
  PROVE  Undisturbed'
<1>1. at[m] # "idle" /\ (\A n \in Managers \ {m} : at'[n] = at[n]) /\ DOMAIN at = Managers
      /\ lock' = lock /\ killed' = killed /\ upset' = upset
  BY DEF Stage, Step, Go, Checked, counts, Inv, Domains
<1>2. ASSUME killed = 0, ~upset
      PROVE  /\ marker' # None /\ marker'.state = "dirty" /\ at'[m] \notin Delicate => Composed(marker)'
             /\ Ordered(m)'
  BY <1>1, <1>2, Before DEF Stage, Step, Go, Ordered, Delicate, Put
<1> QED BY <1>1, <1>2, Moves


LEMMA RetireCalm ==
  ASSUME Inv, Undisturbed, NEW m \in Managers, Retire(m)
  PROVE  Undisturbed'
<1>1. at[m] # "idle" /\ (\A n \in Managers \ {m} : at'[n] = at[n]) /\ DOMAIN at = Managers
      /\ lock' = lock /\ killed' = killed /\ upset' = upset
  BY DEF Retire, Step, Go, Checked, counts, Inv, Domains
<1>2. ASSUME killed = 0, ~upset
      PROVE  /\ marker' # None /\ marker'.state = "dirty" /\ at'[m] \notin Delicate => Composed(marker)'
             /\ Ordered(m)'
  BY <1>1, <1>2, Before DEF Retire, Step, Go, Ordered, Delicate, Put
<1> QED BY <1>1, <1>2, Moves


LEMMA DisableCalm ==
  ASSUME Inv, Undisturbed, NEW m \in Managers, Disable(m)
  PROVE  Undisturbed'
<1>1. at[m] # "idle" /\ (\A n \in Managers \ {m} : at'[n] = at[n]) /\ DOMAIN at = Managers
      /\ lock' = lock /\ killed' = killed /\ upset' = upset
  BY DEF Disable, Step, Go, Checked, counts, Inv, Domains
<1>2. ASSUME killed = 0, ~upset
      PROVE  /\ marker' # None /\ marker'.state = "dirty" /\ at'[m] \notin Delicate => Composed(marker)'
             /\ Ordered(m)'
  BY <1>1, <1>2, Before DEF Disable, Step, Go, Ordered, Delicate, Put
<1> QED BY <1>1, <1>2, Moves


LEMMA RetainCalm ==
  ASSUME Inv, Undisturbed, NEW m \in Managers, Retain(m)
  PROVE  Undisturbed'
<1>1. at[m] # "idle" /\ (\A n \in Managers \ {m} : at'[n] = at[n]) /\ DOMAIN at = Managers
      /\ lock' = lock /\ killed' = killed /\ upset' = upset
  BY DEF Retain, Step, Go, Checked, counts, Inv, Domains
<1>2. ASSUME killed = 0, ~upset
      PROVE  /\ marker' # None /\ marker'.state = "dirty" /\ at'[m] \notin Delicate => Composed(marker)'
             /\ Ordered(m)'
  BY <1>1, <1>2, Before DEF Retain, Step, Go, Ordered, Delicate, Put
<1> QED BY <1>1, <1>2, Moves


LEMMA InstallCalm ==
  ASSUME Inv, Undisturbed, NEW m \in Managers, Install(m)
  PROVE  Undisturbed'
<1>1. at[m] # "idle" /\ (\A n \in Managers \ {m} : at'[n] = at[n]) /\ DOMAIN at = Managers
      /\ lock' = lock /\ killed' = killed /\ upset' = upset
  BY DEF Install, Step, Go, Checked, counts, Inv, Domains
<1>2. ASSUME killed = 0, ~upset
      PROVE  /\ marker' # None /\ marker'.state = "dirty" /\ at'[m] \notin Delicate => Composed(marker)'
             /\ Ordered(m)'
  BY <1>1, <1>2, Before DEF Install, Step, Go, Ordered, Delicate, Put
<1> QED BY <1>1, <1>2, Moves


LEMMA UnlinkCalm ==
  ASSUME Inv, Undisturbed, NEW m \in Managers, Unlink(m)
  PROVE  Undisturbed'
<1>1. at[m] # "idle" /\ (\A n \in Managers \ {m} : at'[n] = at[n]) /\ DOMAIN at = Managers
      /\ lock' = lock /\ killed' = killed /\ upset' = upset
  BY DEF Unlink, Step, Go, Checked, counts, Inv, Domains
<1>2. ASSUME killed = 0, ~upset
      PROVE  /\ marker' # None /\ marker'.state = "dirty" /\ at'[m] \notin Delicate => Composed(marker)'
             /\ Ordered(m)'
  BY <1>1, <1>2, Before DEF Unlink, Step, Go, Ordered, Delicate, Drop, Put
<1> QED BY <1>1, <1>2, Moves


LEMMA UnstageCalm ==
  ASSUME Inv, Undisturbed, NEW m \in Managers, Unstage(m)
  PROVE  Undisturbed'
<1>1. at[m] # "idle" /\ (\A n \in Managers \ {m} : at'[n] = at[n]) /\ DOMAIN at = Managers
      /\ lock' = lock /\ killed' = killed /\ upset' = upset
  BY DEF Unstage, Step, Go, Checked, counts, Inv, Domains
<1>2. ASSUME killed = 0, ~upset
      PROVE  /\ marker' # None /\ marker'.state = "dirty" /\ at'[m] \notin Delicate => Composed(marker)'
             /\ Ordered(m)'
  BY <1>1, <1>2, Before DEF Unstage, Step, Go, Ordered, Delicate, Drop, Put
<1> QED BY <1>1, <1>2, Moves


LEMMA TidyCalm ==
  ASSUME Inv, Undisturbed, NEW m \in Managers, Tidy(m)
  PROVE  Undisturbed'
<1>1. at[m] # "idle" /\ (\A n \in Managers \ {m} : at'[n] = at[n]) /\ DOMAIN at = Managers
      /\ lock' = lock /\ killed' = killed /\ upset' = upset
  BY DEF Tidy, Step, Go, Checked, counts, Inv, Domains
<1>2. ASSUME killed = 0, ~upset
      PROVE  /\ marker' # None /\ marker'.state = "dirty" /\ at'[m] \notin Delicate => Composed(marker)'
             /\ Ordered(m)'
  BY <1>1, <1>2, Before DEF Tidy, Step, Go, Ordered, Delicate, Drop, Put
<1> QED BY <1>1, <1>2, Moves


LEMMA EnableCalm ==
  ASSUME Inv, Undisturbed, NEW m \in Managers, Enable(m)
  PROVE  Undisturbed'
<1>1. at[m] # "idle" /\ (\A n \in Managers \ {m} : at'[n] = at[n]) /\ DOMAIN at = Managers
      /\ lock' = lock /\ killed' = killed /\ upset' = upset
  BY DEF Enable, Step, Go, Checked, counts, Inv, Domains
<1>2. ASSUME killed = 0, ~upset
      PROVE  /\ marker' # None /\ marker'.state = "dirty" /\ at'[m] \notin Delicate => Composed(marker)'
             /\ Ordered(m)'
  <2>1. at'[m] = "mark" /\ cmd'[m] = "reset" /\ "mark" \in Delicate
    BY <1>1 DEF Enable, Step, Go, Delicate, Inv, Reads
  <2> QED BY <2>1 DEF Ordered
<1> QED BY <1>1, <1>2, Moves


LEMMA MarkResetCalm ==
  ASSUME Inv, Undisturbed, NEW m \in Managers, MarkReset(m)
  PROVE  Undisturbed'
<1>1. at[m] # "idle" /\ (\A n \in Managers \ {m} : at'[n] = at[n]) /\ DOMAIN at = Managers
      /\ lock' = lock /\ killed' = killed /\ upset' = upset
  BY DEF MarkReset, Step, Go, Checked, counts, Inv, Domains
<1>2. ASSUME killed = 0, ~upset
      PROVE  /\ marker' # None /\ marker'.state = "dirty" /\ at'[m] \notin Delicate => Composed(marker)'
             /\ Ordered(m)'
  <2>1. /\ marker' # None => marker'.state = "running"
        /\ at'[m] \in {"final", "tidy"}
    BY <1>1 DEF MarkReset, Write, Go
  <2> QED BY <2>1 DEF Ordered
<1> QED BY <1>1, <1>2, Moves


LEMMA EnableStartCalm ==
  ASSUME Inv, Undisturbed, NEW m \in Managers, EnableStart(m)
  PROVE  Undisturbed'
<1>1. at[m] # "idle" /\ (\A n \in Managers \ {m} : at'[n] = at[n]) /\ DOMAIN at = Managers
      /\ lock' = lock /\ killed' = killed /\ upset' = upset
  BY DEF EnableStart, Step, Go, Checked, counts, Inv, Domains
<1>2. ASSUME killed = 0, ~upset
      PROVE  /\ marker' # None /\ marker'.state = "dirty" /\ at'[m] \notin Delicate => Composed(marker)'
             /\ Ordered(m)'
  <2>1. at'[m] = "mark" /\ cmd'[m] = "start" /\ "mark" \in Delicate
    BY <1>1 DEF EnableStart, Checked, Go, Delicate
  <2> QED BY <2>1 DEF Ordered
<1> QED BY <1>1, <1>2, Moves


LEMMA MarkStartCalm ==
  ASSUME Inv, Undisturbed, NEW m \in Managers, MarkStart(m)
  PROVE  Undisturbed'
<1>1. at[m] # "idle" /\ (\A n \in Managers \ {m} : at'[n] = at[n]) /\ DOMAIN at = Managers
      /\ lock' = lock /\ killed' = killed /\ upset' = upset
  BY DEF MarkStart, Step, Go, Checked, counts, Inv, Domains
<1>2. ASSUME killed = 0, ~upset
      PROVE  /\ marker' # None /\ marker'.state = "dirty" /\ at'[m] \notin Delicate => Composed(marker)'
             /\ Ordered(m)'
  <2>1. at'[m] = "ok" /\ marker'.state = "running"
    <3>1. held[m] \in Markers
      BY DEF MarkStart, Step, Inv, Reads, Shape
    <3> QED BY <1>1, <3>1 DEF MarkStart, Step, Go, Write, Markers
  <2> QED BY <2>1 DEF Ordered
<1> QED BY <1>1, <1>2, Moves


LEMMA DisableStopCalm ==
  ASSUME Inv, Undisturbed, NEW m \in Managers, DisableStop(m)
  PROVE  Undisturbed'
<1>1. at[m] # "idle" /\ (\A n \in Managers \ {m} : at'[n] = at[n]) /\ DOMAIN at = Managers
      /\ lock' = lock /\ killed' = killed /\ upset' = upset
  BY DEF DisableStop, Step, Go, Checked, counts, Inv, Domains
<1>2. ASSUME killed = 0, ~upset
      PROVE  /\ marker' # None /\ marker'.state = "dirty" /\ at'[m] \notin Delicate => Composed(marker)'
             /\ Ordered(m)'
  <2>1. at'[m] = "mark" /\ cmd'[m] = "stop" /\ "mark" \in Delicate
    BY <1>1 DEF DisableStop, Step, Go, Delicate
  <2>2. /\ leaf'["environment"] = {} /\ dir' = dir
        /\ \A n \in Names \ {"environment"} : leaf'[n] = leaf[n]
    BY DEF DisableStop, Put, Inv, Domains, Names
  <2>3. marker # None /\ held'[m] = marker
    BY DEF DisableStop, Readable, Read, Inv, Domains
  <2>4. Bare /\ leaf["database"] = {marker.db}
        /\ (leaf["journal"] # {} => marker.journal # 0 /\ leaf["journal"] = {marker.journal})
    BY <2>3 DEF DisableStop, LeavesProven, Leaves, SidecarsStand, Stands, Bare
  <2> QED BY <2>1, <2>2, <2>3, <2>4 DEF Ordered, Bare, Names
<1> QED BY <1>1, <1>2, Moves


LEMMA MarkStopCalm ==
  ASSUME Inv, Undisturbed, NEW m \in Managers, MarkStop(m)
  PROVE  Undisturbed'
<1>1. at[m] # "idle" /\ (\A n \in Managers \ {m} : at'[n] = at[n]) /\ DOMAIN at = Managers
      /\ lock' = lock /\ killed' = killed /\ upset' = upset
  BY DEF MarkStop, Step, Go, Checked, counts, Inv, Domains
<1>2. ASSUME killed = 0, ~upset
      PROVE  /\ marker' # None /\ marker'.state = "dirty" /\ at'[m] \notin Delicate => Composed(marker)'
             /\ Ordered(m)'
  <2>1. at'[m] = "ok" /\ dir' = dir /\ leaf' = leaf
    BY <1>1 DEF MarkStop, Step, Go
  <2>2. held[m] \in Markers
    BY DEF MarkStop, Step, Inv, Reads, Shape
  <2>3. marker' # None => marker'.env = 0 /\ marker'.db = held[m].db /\ marker'.journal = held[m].journal
    BY <2>2 DEF MarkStop, Write, Markers
  <2>4. /\ Bare /\ leaf["database"] = {held[m].db} /\ leaf["environment"] = {}
        /\ leaf["journal"] # {} => held[m].journal # 0 /\ leaf["journal"] = {held[m].journal}
    BY <1>1, <1>2, Before DEF MarkStop, Step, Ordered
  <2> QED BY <2>1, <2>3, <2>4 DEF Ordered, Composed, Bare, EnvironmentProven
<1> QED BY <1>1, <1>2, Moves


LEMMA ClaimJournalCalm ==
  ASSUME Inv, Undisturbed, NEW m \in Managers, ClaimJournal(m)
  PROVE  Undisturbed'
<1>1. at[m] # "idle" /\ (\A n \in Managers \ {m} : at'[n] = at[n]) /\ DOMAIN at = Managers
      /\ lock' = lock /\ killed' = killed /\ upset' = upset
  BY DEF ClaimJournal, Step, Go, Checked, counts, Inv, Domains
<1>2. ASSUME killed = 0, ~upset
      PROVE  /\ marker' # None /\ marker'.state = "dirty" /\ at'[m] \notin Delicate => Composed(marker)'
             /\ Ordered(m)'
  <2>1. at'[m] = "mark" /\ cmd'[m] = "migrate" /\ "mark" \in Delicate
    BY <1>1 DEF ClaimJournal, Checked, Go, Delicate
  <2>2. dir' = dir /\ held' = held /\ \A n \in Names \ {"journal"} : leaf'[n] = leaf[n]
    BY DEF ClaimJournal, Put, Inv, Domains, Names
  <2>3. Bare /\ leaf["database"] = {held[m].db} /\ EnvironmentProven(held[m])
    BY <1>1, <1>2, Before DEF ClaimJournal, Checked, Ordered, Stands
  <2>4. EnvironmentProven(held[m])'
    BY <2>2, <2>3 DEF EnvironmentProven, Stands, Links, Names
  <2> QED BY <2>1, <2>2, <2>3, <2>4 DEF Ordered, Bare, Names
<1> QED BY <1>1, <1>2, Moves


LEMMA MarkDirtyCalm ==
  ASSUME Inv, Undisturbed, NEW m \in Managers, MarkDirty(m)
  PROVE  Undisturbed'
<1>1. at[m] # "idle" /\ (\A n \in Managers \ {m} : at'[n] = at[n]) /\ DOMAIN at = Managers
      /\ lock' = lock /\ killed' = killed /\ upset' = upset
  BY DEF MarkDirty, Step, Go, Checked, counts, Inv, Domains
<1>2. ASSUME killed = 0, ~upset
      PROVE  /\ marker' # None /\ marker'.state = "dirty" /\ at'[m] \notin Delicate => Composed(marker)'
             /\ Ordered(m)'
  <2>1. at'[m] = "migrating" /\ dir' = dir /\ leaf' = leaf
    BY <1>1 DEF MarkDirty, Step, Go
  <2>2. held[m] \in Markers /\ own[m].side # 0 /\ leaf["journal"] = {own[m].side}
    BY DEF MarkDirty, Step, Inv, Reads, Shape, Claims, Claimers
  <2>3. /\ marker'.env = held[m].env /\ marker'.db = held[m].db
        /\ marker'.journal = own[m].side
    BY <2>2 DEF MarkDirty, Write, Markers
  <2>4. Bare /\ leaf["database"] = {held[m].db} /\ EnvironmentProven(held[m])
    BY <1>1, <1>2, Before DEF MarkDirty, Step, Ordered
  <2>5. held[m] # None
    BY DEF MarkDirty, Step, Inv, Reads
  <2>6. marker' # None => Composed(marker)'
    BY <2>1, <2>2, <2>3, <2>4, <2>5 DEF Composed, Bare, EnvironmentProven, Stands, Links
  <2> QED BY <2>1, <2>6 DEF Ordered
<1> QED BY <1>1, <1>2, Moves


LEMMA MigratedCalm ==
  ASSUME Inv, Undisturbed, NEW m \in Managers, Migrated(m)
  PROVE  Undisturbed'
<1>1. at[m] # "idle" /\ (\A n \in Managers \ {m} : at'[n] = at[n]) /\ DOMAIN at = Managers
      /\ lock' = lock /\ killed' = killed /\ upset' = upset
  BY DEF Migrated, Step, Go, Checked, counts, Inv, Domains
<1>2. ASSUME killed = 0, ~upset
      PROVE  /\ marker' # None /\ marker'.state = "dirty" /\ at'[m] \notin Delicate => Composed(marker)'
             /\ Ordered(m)'
  <2>1. at[m] = "migrating" /\ at'[m] = "settle" /\ dir' = dir /\ leaf' = leaf /\ valid[m]
    BY <1>1 DEF Migrated, Step, Go
  <2>2. held[m] = marker /\ marker # None /\ marker \in Markers /\ marker.state = "dirty"
    BY <2>1 DEF Inv, Reads, Shape, Migrating
  <2>3. /\ marker'.env = marker.env /\ marker'.db = marker.db /\ marker'.journal = marker.journal
    BY <2>2 DEF Migrated, Write, Markers
  <2>4. Composed(marker)
    BY <1>1, <1>2, <2>1, <2>2, Before DEF Delicate
  <2>5. marker' # None => Composed(marker)'
    BY <2>1, <2>2, <2>3, <2>4 DEF Composed, Bare, EnvironmentProven, Stands, Links
  <2> QED BY <2>1, <2>5 DEF Ordered
<1> QED BY <1>1, <1>2, Moves


LEMMA MigrationFailsCalm ==
  ASSUME Inv, Undisturbed, NEW m \in Managers, MigrationFails(m)
  PROVE  Undisturbed'
<1>1. at[m] # "idle" /\ (\A n \in Managers \ {m} : at'[n] = at[n]) /\ DOMAIN at = Managers
      /\ lock' = lock /\ killed' = killed /\ upset' = upset
  BY DEF MigrationFails, Step, Go, Checked, counts, Inv, Domains
<1>2. ASSUME killed = 0, ~upset
      PROVE  /\ marker' # None /\ marker'.state = "dirty" /\ at'[m] \notin Delicate => Composed(marker)'
             /\ Ordered(m)'
  <2>1. /\ at[m] \notin Delicate /\ UNCHANGED <<dir, leaf, marker>>
        /\ at'[m] \notin {"mark", "owner", "tidy", "final", "record", "directory"}
    BY <1>1 DEF MigrationFails, Step, Go, files, Delicate
  <2>2. at'[m] \in {"check", "checked"} => Bare
    BY <1>1, <1>2 DEF MigrationFails, Step, Go
  <2> QED BY <1>1, <1>2, <2>1, <2>2, LooksCalm
<1> QED BY <1>1, <1>2, Moves


LEMMA MarkMigratedCalm ==
  ASSUME Inv, Undisturbed, NEW m \in Managers, MarkMigrated(m)
  PROVE  Undisturbed'
<1>1. at[m] # "idle" /\ (\A n \in Managers \ {m} : at'[n] = at[n]) /\ DOMAIN at = Managers
      /\ lock' = lock /\ killed' = killed /\ upset' = upset
  BY DEF MarkMigrated, Step, Go, Checked, counts, Inv, Domains
<1>2. ASSUME killed = 0, ~upset
      PROVE  /\ marker' # None /\ marker'.state = "dirty" /\ at'[m] \notin Delicate => Composed(marker)'
             /\ Ordered(m)'
  <2>1. at'[m] = "ok" /\ own[m].was # "dirty"
    BY <1>1 DEF MarkMigrated, Step, Go, Inv, Reads, Migrating
  <2>2. held[m] \in Markers
    BY DEF MarkMigrated, Step, Inv, Reads, Shape, Migrating
  <2>3. marker'.state # "dirty"
    BY <2>1, <2>2 DEF MarkMigrated, Write, Markers
  <2> QED BY <2>1, <2>3 DEF Ordered
<1> QED BY <1>1, <1>2, Moves


LEMMA DiscardCalm ==
  ASSUME Inv, Undisturbed, NEW m \in Managers, Discard(m)
  PROVE  Undisturbed'
<1>1. at[m] # "idle" /\ (\A n \in Managers \ {m} : at'[n] = at[n]) /\ DOMAIN at = Managers
      /\ lock' = lock /\ killed' = killed /\ upset' = upset
  BY DEF Discard, Step, Go, Checked, counts, Inv, Domains
<1>2. ASSUME killed = 0, ~upset
      PROVE  /\ marker' # None /\ marker'.state = "dirty" /\ at'[m] \notin Delicate => Composed(marker)'
             /\ Ordered(m)'
  BY <1>1, <1>2, Before DEF Discard, Step, Go, Ordered, Delicate, Put
<1> QED BY <1>1, <1>2, Moves


LEMMA DiscardSidecarsCalm ==
  ASSUME Inv, Undisturbed, NEW m \in Managers, DiscardSidecars(m)
  PROVE  Undisturbed'
<1>1. at[m] # "idle" /\ (\A n \in Managers \ {m} : at'[n] = at[n]) /\ DOMAIN at = Managers
      /\ lock' = lock /\ killed' = killed /\ upset' = upset
  BY DEF DiscardSidecars, Step, Go, Checked, counts, Inv, Domains
<1>2. ASSUME killed = 0, ~upset
      PROVE  /\ marker' # None /\ marker'.state = "dirty" /\ at'[m] \notin Delicate => Composed(marker)'
             /\ Ordered(m)'
  BY <1>1, <1>2, Before DEF DiscardSidecars, Step, Go, Ordered, Delicate, Put
<1> QED BY <1>1, <1>2, Moves


LEMMA DiscardDatabaseCalm ==
  ASSUME Inv, Undisturbed, NEW m \in Managers, DiscardDatabase(m)
  PROVE  Undisturbed'
<1>1. at[m] # "idle" /\ (\A n \in Managers \ {m} : at'[n] = at[n]) /\ DOMAIN at = Managers
      /\ lock' = lock /\ killed' = killed /\ upset' = upset
  BY DEF DiscardDatabase, Step, Go, Checked, counts, Inv, Domains
<1>2. ASSUME killed = 0, ~upset
      PROVE  /\ marker' # None /\ marker'.state = "dirty" /\ at'[m] \notin Delicate => Composed(marker)'
             /\ Ordered(m)'
  BY <1>1, <1>2, Before DEF DiscardDatabase, Step, Go, Ordered, Delicate, Drop
<1> QED BY <1>1, <1>2, Moves


LEMMA DiscardMarkerCalm ==
  ASSUME Inv, Undisturbed, NEW m \in Managers, DiscardMarker(m)
  PROVE  Undisturbed'
<1>1. at[m] # "idle" /\ (\A n \in Managers \ {m} : at'[n] = at[n]) /\ DOMAIN at = Managers
      /\ lock' = lock /\ killed' = killed /\ upset' = upset
  BY DEF DiscardMarker, Step, Go, Checked, counts, Inv, Domains
<1>2. ASSUME killed = 0, ~upset
      PROVE  /\ marker' # None /\ marker'.state = "dirty" /\ at'[m] \notin Delicate => Composed(marker)'
             /\ Ordered(m)'
  BY <1>1, <1>2, Before DEF DiscardMarker, Step, Go, Ordered, Delicate, Write
<1> QED BY <1>1, <1>2, Moves


LEMMA DiscardRecordCalm ==
  ASSUME Inv, Undisturbed, NEW m \in Managers, DiscardRecord(m)
  PROVE  Undisturbed'
<1>1. at[m] # "idle" /\ (\A n \in Managers \ {m} : at'[n] = at[n]) /\ DOMAIN at = Managers
      /\ lock' = lock /\ killed' = killed /\ upset' = upset
  BY DEF DiscardRecord, Step, Go, Checked, counts, Inv, Domains
<1>2. ASSUME killed = 0, ~upset
      PROVE  /\ marker' # None /\ marker'.state = "dirty" /\ at'[m] \notin Delicate => Composed(marker)'
             /\ Ordered(m)'
  BY <1>1, <1>2, Before DEF DiscardRecord, Step, Go, Ordered, Delicate
<1> QED BY <1>1, <1>2, Moves


LEMMA DiscardDirectoryCalm ==
  ASSUME Inv, Undisturbed, NEW m \in Managers, DiscardDirectory(m)
  PROVE  Undisturbed'
<1>1. at[m] # "idle" /\ (\A n \in Managers \ {m} : at'[n] = at[n]) /\ DOMAIN at = Managers
      /\ lock' = lock /\ killed' = killed /\ upset' = upset
  BY DEF DiscardDirectory, Step, Go, Checked, counts, Inv, Domains
<1>2. ASSUME killed = 0, ~upset
      PROVE  /\ marker' # None /\ marker'.state = "dirty" /\ at'[m] \notin Delicate => Composed(marker)'
             /\ Ordered(m)'
  BY <1>1, <1>2, Before DEF DiscardDirectory, Step, Go, Ordered, Delicate
<1> QED BY <1>1, <1>2, Moves


LEMMA SnapshotCalm ==
  ASSUME Inv, Undisturbed, NEW m \in Managers, Snapshot(m)
  PROVE  Undisturbed'
<1>1. at[m] # "idle" /\ (\A n \in Managers \ {m} : at'[n] = at[n]) /\ DOMAIN at = Managers
      /\ lock' = lock /\ killed' = killed /\ upset' = upset
  BY DEF Snapshot, Step, Go, Checked, counts, Inv, Domains
<1>2. ASSUME killed = 0, ~upset
      PROVE  /\ marker' # None /\ marker'.state = "dirty" /\ at'[m] \notin Delicate => Composed(marker)'
             /\ Ordered(m)'
  <2>1. /\ at[m] \notin Delicate /\ UNCHANGED <<dir, leaf, marker>>
        /\ at'[m] \notin {"mark", "owner", "tidy", "final", "record", "directory"}
    BY <1>1 DEF Snapshot, Step, Go, files, Delicate
  <2>2. at'[m] \in {"check", "checked"} => Bare
    BY <1>1, <1>2 DEF Snapshot, Step, Go
  <2> QED BY <1>1, <1>2, <2>1, <2>2, LooksCalm
<1> QED BY <1>1, <1>2, Moves


LEMMA SanitizeCalm ==
  ASSUME Inv, Undisturbed, NEW m \in Managers, Sanitize(m)
  PROVE  Undisturbed'
<1>1. at[m] # "idle" /\ (\A n \in Managers \ {m} : at'[n] = at[n]) /\ DOMAIN at = Managers
      /\ lock' = lock /\ killed' = killed /\ upset' = upset
  BY DEF Sanitize, Step, Go, Checked, counts, Inv, Domains
<1>2. ASSUME killed = 0, ~upset
      PROVE  /\ marker' # None /\ marker'.state = "dirty" /\ at'[m] \notin Delicate => Composed(marker)'
             /\ Ordered(m)'
  <2>1. /\ at[m] \notin Delicate /\ UNCHANGED <<dir, leaf, marker>>
        /\ at'[m] \notin {"mark", "owner", "tidy", "final", "record", "directory"}
    BY <1>1 DEF Sanitize, Step, Go, files, Delicate
  <2>2. at'[m] \in {"check", "checked"} => Bare
    BY <1>1, <1>2 DEF Sanitize, Step, Go
  <2> QED BY <1>1, <1>2, <2>1, <2>2, LooksCalm
<1> QED BY <1>1, <1>2, Moves


LEMMA ActivateCalm ==
  ASSUME Inv, Undisturbed, NEW m \in Managers, Activate(m)
  PROVE  Undisturbed'
<1>1. at[m] # "idle" /\ (\A n \in Managers \ {m} : at'[n] = at[n]) /\ DOMAIN at = Managers
      /\ lock' = lock /\ killed' = killed /\ upset' = upset
  BY DEF Activate, Step, Go, Checked, counts, Inv, Domains
<1>2. ASSUME killed = 0, ~upset
      PROVE  /\ marker' # None /\ marker'.state = "dirty" /\ at'[m] \notin Delicate => Composed(marker)'
             /\ Ordered(m)'
  <2>1. /\ at[m] \notin Delicate /\ UNCHANGED <<dir, leaf, marker>>
        /\ at'[m] \notin {"mark", "owner", "tidy", "final", "record", "directory"}
    BY <1>1 DEF Activate, Step, Go, files, Delicate
  <2>2. at'[m] \in {"check", "checked"} => Bare
    BY <1>1, <1>2 DEF Activate, Step, Go
  <2> QED BY <1>1, <1>2, <2>1, <2>2, LooksCalm
<1> QED BY <1>1, <1>2, Moves


LEMMA ForgetCalm ==
  ASSUME Inv, Undisturbed, NEW m \in Managers, Return(m) \/ Fail(m)
  PROVE  Undisturbed'
<1>1. /\ at[m] # "idle" /\ \A n \in Managers \ {m} : at'[n] = at[n]
      /\ at'[m] = "idle" /\ killed' = killed /\ (upset => upset')
      /\ at[m] \in Delicate => upset'
  <2>1. at[m] # "idle" /\ at' = [at EXCEPT ![m] = "idle"]
    BY DEF Return, Fail, Forget, Go
  <2>2. killed' = killed /\ (upset => upset')
    <3>1. CASE Return(m)
      BY <3>1 DEF Return, counts
    <3>2. CASE Fail(m)
      BY <3>2 DEF Fail
    <3> QED BY <3>1, <3>2
  <2>3. at[m] \in Delicate => upset'
    <3>1. CASE Return(m)
      BY <3>1 DEF Return, Delicate
    <3>2. CASE Fail(m)
      BY <3>2 DEF Fail
    <3> QED BY <3>1, <3>2
  <2> QED BY <2>1, <2>2, <2>3 DEF Inv, Domains
<1>2. UNCHANGED files
  BY DEF Return, Fail
<1>3. ASSUME killed = 0, ~upset, ~upset'
      PROVE  marker' # None /\ marker'.state = "dirty" => Composed(marker)'
  BY <1>1, <1>2, <1>3, Before DEF files, Composed, Bare, EnvironmentProven, Stands,
       Links
<1>4. Ordered(m)'
  BY <1>1 DEF Ordered
<1> QED BY <1>1, <1>3, <1>4, Moves

LEMMA SpoilCalm ==
  ASSUME Inv, Undisturbed, NEW m \in Managers, Spoil(m)
  PROVE  Undisturbed'
<1>1. /\ at[m] \in {"spoil", "lost"} /\ \A n \in Managers \ {m} : at'[n] = at[n]
      /\ at'[m] = "idle" /\ killed' = killed /\ upset' = upset
  BY DEF Spoil, Go, counts, Inv, Domains
<1>2. dir' = dir /\ leaf' = leaf
  BY DEF Spoil
<1>3. ASSUME killed = 0, ~upset, marker' # None, marker'.state = "dirty"
      PROVE  Composed(marker)'
  <2>1. marker # None /\ marker.state = "dirty" => Composed(marker)
    BY <1>1, <1>3, Before DEF Delicate
  <2>2. CASE marker' = marker
    BY <1>2, <1>3, <2>1, <2>2 DEF Composed, Bare, EnvironmentProven, Stands, Links
  <2>3. CASE valid[m] /\ marker' = [held[m] EXCEPT !.closure = Closure(m)]
    <3>1. held[m] = marker /\ marker # None /\ marker \in Markers /\ marker.state = "dirty"
      BY <1>1, <2>3 DEF Inv, Reads, Shape, Migrating
    <3>2. marker'.env = marker.env /\ marker'.db = marker.db /\ marker'.journal = marker.journal
      BY <2>3, <3>1 DEF Markers
    <3> QED
      BY <1>2, <1>3, <2>1, <3>1, <3>2 DEF Composed, Bare, EnvironmentProven, Stands,
           Links
  <2> QED BY <2>2, <2>3 DEF Spoil
<1>4. Ordered(m)'
  BY <1>1 DEF Ordered
<1> QED BY <1>1, <1>3, <1>4, Moves

LEMMA WorkerCalm ==
  ASSUME Inv, Undisturbed, NEW m \in Managers, Worker(m)
  PROVE  Undisturbed'
<1>1. UNCHANGED <<at, cmd, held, lock, killed, upset, dir, marker>>
  BY DEF Worker, WorkerOpen, WorkerBegin, WorkerCommit, WorkerRollback, WorkerDies,
         files, memory, counts
<1>2. \/ leaf' = leaf
      \/ leaf'["journal"] = {} /\ \A n \in Names \ {"journal"} : leaf'[n] = leaf[n]
  BY DEF Worker, WorkerOpen, WorkerBegin, WorkerCommit, WorkerRollback, WorkerDies,
         files, Put, Inv, Domains, Names
<1>3. /\ \A n \in Names \ {"journal"} : leaf'[n] = leaf[n]
      /\ leaf'["journal"] # {} => leaf'["journal"] = leaf["journal"]
  BY <1>2
<1>4. Bare => Bare'
  BY <1>1, <1>3 DEF Bare, Names
<1>5. \A mk : EnvironmentProven(mk) => EnvironmentProven(mk)'
  BY <1>3 DEF EnvironmentProven, Stands, Links, Names
<1>6. Alone'
  BY <1>1 DEF Undisturbed, Alone
<1>7. Composure => Composure'
  BY <1>1, <1>3, <1>4, <1>5 DEF Composure, Composed, EnvironmentProven, Stands,
       Links, Names
<1>8. \A n \in Managers : Ordered(n) => Ordered(n)'
  BY <1>1, <1>3, <1>4, <1>5 DEF Ordered, EnvironmentProven, Stands, Links, Names
<1>9. Orderly'
  BY <1>1, <1>7, <1>8 DEF Undisturbed, Orderly
<1> QED BY <1>1, <1>6, <1>9 DEF Undisturbed

LEMMA BeginCalm ==
  ASSUME Inv, Undisturbed, NEW m \in Managers, NEW c \in Commands, Begin(m, c)
  PROVE  Undisturbed'
<1>1. /\ at[m] = "idle" /\ lock = None /\ lock' = m /\ at'[m] = "open"
      /\ \A n \in Managers \ {m} : at'[n] = at[n]
      /\ UNCHANGED <<killed, upset, dir, leaf, marker>>
  BY DEF Begin, Go, files, counts, Inv, Domains
<1>2. killed = 0 => \A n \in Managers : at[n] = "idle"
  BY <1>1, SqliteAssumption DEF Undisturbed, Alone
<1>3. Alone'
  BY <1>1, <1>2 DEF Alone
<1>4. ASSUME killed = 0, ~upset PROVE Composure'
  <2>1. \A n \in Managers : at[n] \notin Delicate
    BY <1>2, <1>4 DEF Delicate
  <2>2. marker # None /\ marker.state = "dirty" => Composed(marker)
    BY <1>4, <2>1 DEF Undisturbed, Orderly, Composure
  <2> QED
    BY <1>1, <2>2 DEF Composure, Composed, Bare, EnvironmentProven, Stands, Links
<1>5. ASSUME killed = 0, NEW n \in Managers PROVE Ordered(n)'
  <2>1. at'[n] \in {"idle", "open"}
    BY <1>1, <1>2, <1>5
  <2> QED BY <2>1 DEF Ordered
<1>6. Orderly'
  BY <1>1, <1>4, <1>5 DEF Orderly
<1> QED BY <1>1, <1>3, <1>6 DEF Undisturbed

LEMMA UntouchedCalm ==
  ASSUME Undisturbed, UNCHANGED <<dir, leaf, marker, at, cmd, held, lock, killed, upset>>
  PROVE  Undisturbed'
<1>1. Alone'
  BY DEF Undisturbed, Alone
<1>2. Composure => Composure'
  BY DEF Composure, Composed, Bare, EnvironmentProven, Stands, Links
<1>3. \A n \in Managers : Ordered(n) => Ordered(n)'
  BY DEF Ordered, Bare, EnvironmentProven, Stands, Links
<1> QED BY <1>1, <1>2, <1>3 DEF Undisturbed, Orderly

LEMMA StepCalm == Inv /\ Undisturbed /\ [Next]_vars => Undisturbed'
<1> SUFFICES ASSUME Inv, Undisturbed, [Next]_vars PROVE Undisturbed'
  OBVIOUS
<1>1. CASE UNCHANGED vars
  BY <1>1, UntouchedCalm DEF vars, files, memory, counts
<1>2. CASE Edit
  BY <1>2, UntouchedCalm DEF Edit, files, memory
<1>3. ASSUME NEW m \in Managers, NEW c \in Commands, Begin(m, c) PROVE Undisturbed'
  BY <1>3, BeginCalm
<1>4. ASSUME NEW m \in Managers, Kill(m) \/ Orphan(m) PROVE Undisturbed'
  <2>1. killed' \in Nat /\ killed' # 0
    BY <1>4 DEF Kill, Orphan, Undisturbed
  <2> QED BY <2>1 DEF Undisturbed, Alone, Orderly
<1>5. ASSUME NEW m \in Managers, Return(m) \/ Fail(m) PROVE Undisturbed'
  BY <1>5, ForgetCalm
<1>6. ASSUME NEW m \in Managers, Open(m) \/ Close(m) \/ Check(m) \/ Verified(m)
      PROVE  Undisturbed'
  BY <1>6, OpenCalm, CloseCalm, CheckCalm, VerifiedCalm
<1>7. ASSUME NEW m \in Managers, Reset(m) PROVE Undisturbed'
  BY <1>7, MakeDirectoryCalm, OwnDirectoryCalm, StageCalm, SwapCalm, HandlesCalm,
     RetireCalm, DisableCalm, RetainCalm, UnlinkCalm, InstallCalm, UnstageCalm,
     EnableCalm, MarkResetCalm, TidyCalm, FinalCalm
  DEF Reset
<1>8. ASSUME NEW m \in Managers,
             EnableStart(m) \/ MarkStart(m) \/ DisableStop(m) \/ MarkStop(m)
      PROVE  Undisturbed'
  BY <1>8, EnableStartCalm, MarkStartCalm, DisableStopCalm, MarkStopCalm
<1>9. ASSUME NEW m \in Managers, Migrate(m) PROVE Undisturbed'
  BY <1>9, ClaimJournalCalm, MarkDirtyCalm, MigratedCalm, MigrationFailsCalm,
     SpoilCalm, SettleCalm, MarkMigratedCalm
  DEF Migrate
<1>10. ASSUME NEW m \in Managers, Worker(m) PROVE Undisturbed'
  BY <1>10, WorkerCalm
<1>11. ASSUME NEW m \in Managers, Remove(m) PROVE Undisturbed'
  BY <1>11, DiscardCalm, DiscardSidecarsCalm, DiscardDatabaseCalm, DiscardMarkerCalm,
     DiscardRecordCalm, DiscardDirectoryCalm
  DEF Remove
<1>12. ASSUME NEW m \in Managers, Snapshot(m) \/ Sanitize(m) \/ Activate(m)
       PROVE  Undisturbed'
  BY <1>12, SnapshotCalm, SanitizeCalm, ActivateCalm
<1> QED
  BY <1>1, <1>2, <1>3, <1>4, <1>5, <1>6, <1>7, <1>8, <1>9, <1>10, <1>11, <1>12 DEF Next

LEMMA CalmlyPossible == Inv /\ Undisturbed => ResetStaysPossible
<1> SUFFICES ASSUME Inv, Undisturbed, marker # None, lock = None, ~upset, killed = 0,
                    marker.state = "dirty", marker.closure = "confirmed"
             PROVE  LeavesProven(marker) /\ EnvironmentProven(marker)
  BY DEF ResetStaysPossible
<1>1. \A m \in Managers : at[m] \notin Delicate
  BY SqliteAssumption DEF Undisturbed, Alone, Delicate
<1>2. Composed(marker)
  BY <1>1 DEF Undisturbed, Orderly, Composure
<1>3. Stands("database", marker.db)
  BY <1>2, FewLinks DEF Composed, Bare
<1>4. leaf["journal"] # {} => Stands("journal", marker.journal)
  BY <1>2, FewLinks DEF Composed
<1>5. SidecarsStand(marker)
  BY <1>4 DEF SidecarsStand
<1>6. Leaves(marker, {})
  BY <1>2 DEF Leaves, Composed, Bare
<1> QED BY <1>2, <1>3, <1>5, <1>6 DEF LeavesProven, Composed

\* No reset, however it ends and whoever else is at work, takes the last name
\* of the database that the marker names; and a migration that failed without
\* a kill leaves a directory in which a reset finds everything as its dirty
\* marker says (the catch of migrate; assertLeaves and assertEnvironment).
THEOREM ResetsAreSafe == Spec => ResetIsSafe
<1>1. Init => Undisturbed
  BY DEF Init, Undisturbed, Alone, Orderly, Composure, Ordered
<1>2. Inv /\ Undisturbed /\ [Next]_vars => Undisturbed'
  BY StepCalm
<1>3. Inv /\ Undisturbed => ResetStaysPossible
  BY CalmlyPossible
<1>4. Inv /\ [Next]_vars =>
        [LET f == marker.db IN
           marker # None /\ f \in leaf["database"] \cup leaf["previous"] =>
             \/ f \in leaf'["database"] \cup leaf'["previous"]
             \/ \E m \in Managers : at[m] = "database" /\ held[m].db = f]_vars
  BY EvidenceStep DEF KeepsEvidence
<1>5. Spec => []Undisturbed
  BY <1>1, <1>2, Invariant, PTL DEF Spec
<1>6. Spec => [][ResetStaysPossible']_vars
  BY <1>3, <1>5, Invariant, PTL
<1>7. Spec => EvidenceKept
  BY <1>4, Invariant, PTL DEF Spec, EvidenceKept
<1> QED BY <1>6, <1>7 DEF ResetIsSafe
====
