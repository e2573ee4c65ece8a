--------------------------- MODULE MigrationImpact ---------------------------
(***************************************************************************)
(* measure impact: how many rows the pending migrations would drop, empty, *)
(* break or find in their way, counted in one read-only transaction of the *)
(* running sandbox.  The counts are bound to the reviewed files, to the    *)
(* receipt of the active baseline and to one container, while somebody     *)
(* edits the files, replaces receipt or container, writes rows, renames    *)
(* tables and swaps schemas (runtime/migrations/impact,                    *)
(* targets/migration_impact_runtime.mts).                                  *)
(*                                                                         *)
(* A statement is its form and the tables it names; a table has one        *)
(* column, in which 0 stands for NULL; a file is the sequence of its       *)
(* statements.  Relations are numbers, in the order their names sort.      *)
(***************************************************************************)
EXTENDS Integers, Sequences, FiniteSets, SequencesExt, MigrationHistory

CONSTANTS
    Relations,      \* schema-qualified names
    Oids,           \* tables that exist, whatever they are called
    Contents,       \* what a table may hold: rows of one value each, 0 is NULL
    Directories,    \* sets of migration files <<name, statements>>
    Represented,    \* for a baseline generation, the history it was made from
    Namespace,      \* the catalog of schemas, which can be locked like a table
    None,
    MaxMeasurements, \* of one plan; a hundred in the code
    MaxEvents       \* bound: acts of others

Generations == DOMAIN Represented

ASSUME ImpactAssumption ==
    /\ Relations \subseteq Nat /\ {None, Namespace, 0} \cap Oids = {}
    /\ None \notin Nat \cup Oids
    /\ Contents \subseteq Seq(Nat)
    /\ \A d \in Directories : IsDirectory(d)
    /\ MaxMeasurements \in Nat /\ MaxEvents \in Nat

VARIABLES
    files,      \* the project's migration directory
    stamp,      \* the times and inodes of its files
    active,     \* the active baseline generation
    receipt,    \* baseline.json of the runtime: its inode, generation, protection
    retirement, \* container-retirement.json: its inode and the receipt it names
    box,        \* the container of the target's name
    catalog,    \* which table a name stands for, None if there is no such table
    tables,     \* for a table, whether it is an ordinary one, and its values
    client,     \* the command measure impact
    session,    \* its database session
    left,       \* what the session of a command that gave up still locks
    confirmed,  \* the candidates the user reviewed with inspect impact
    report,     \* what the last measurement said
    last,       \* ids given out
    events
impactVars == <<files, stamp, active, receipt, retirement, box, catalog, tables,
                client, session, left, confirmed, report, last, events>>
project == <<files, stamp, active>>
sandbox == <<receipt, retirement, box>>
database == <<catalog, tables>>
others == <<last, events>>

-----------------------------------------------------------------------------
(* What is recognised in a file, and what is counted for it. *)

Supported == {"drop_table", "truncate", "broad_delete", "drop_column", "not_null",
              "unique", "foreign_key"}
Metric(op) ==
    CASE op \in {"drop_table", "truncate", "broad_delete"} -> "rows"
      [] op = "drop_column" -> "populated"
      [] op = "not_null" -> "nulls"
      [] op = "unique" -> "duplicate_rows"
      [] op = "foreign_key" -> "orphan_rows"

(* One exact form of each statement is recognised, and only with the schemas *)
(* of its tables; any other is unknown.                                     *)
Referenced(statement) ==
    IF statement.op = "foreign_key" THEN statement.ref ELSE statement.rel
IsRecognised(statement) ==
    /\ statement.op \in Supported
    /\ {statement.rel, Referenced(statement)} \subseteq Relations
Recognised(text) == {line \in DOMAIN text : IsRecognised(text[line])}

(* Transaction commands, and more statements than one plan may count, make  *)
(* the whole file unknown.                                                  *)
IsRefused(text) ==
    \/ \E line \in DOMAIN text : text[line].op = "transaction"
    \/ Cardinality(Recognised(text)) > MaxMeasurements
PlanFile(text) == IF IsRefused(text) THEN {} ELSE Recognised(text)

Task(file, line, statement) ==
    [file |-> file, line |-> line, metric |-> Metric(statement.op),
     rel |-> statement.rel, ref |-> Referenced(statement)]
Planned(candidates) ==
    UNION {{Task(i, line, candidates[i][2][line]) : line \in PlanFile(candidates[i][2])} :
             i \in DOMAIN candidates}
Precedes(t, u) == t.file < u.file \/ (t.file = u.file /\ t.line < u.line)

(* The files share one allowance; what exceeds it is cut off and said. *)
Tasks(candidates) ==
    {t \in Planned(candidates) :
       Cardinality({u \in Planned(candidates) : Precedes(u, t)}) < MaxMeasurements}
IsComplete(candidates, i) ==
    LET text == candidates[i][2] IN
    /\ ~IsRefused(text) /\ Recognised(text) = DOMAIN text
    /\ \A line \in DOMAIN text : Task(i, line, text[line]) \in Tasks(candidates)

(* The aggregate queries, over the values of the relation and, for a        *)
(* foreign key, of the one referenced.                                      *)
Among(values, wanted) == Cardinality({i \in DOMAIN values : values[i] \in wanted})
CountQuery(metric, values, referenced) ==
    LET populated == ToSet(values) \ {0}
    IN  CASE metric = "rows" -> Among(values, ToSet(values))
          [] metric = "populated" -> Among(values, populated)
          [] metric = "nulls" -> Among(values, {0})
          [] metric = "duplicate_rows" ->
                Among(values, {v \in populated : Among(values, {v}) > 1})
          [] metric = "orphan_rows" -> Among(values, populated \ ToSet(referenced))

-----------------------------------------------------------------------------
(* The report: every task, whatever was counted for it, which answers with  *)
(* the task's index, and how complete that is.                              *)

Counted(counts) == {t \in DOMAIN counts : counts[t] # None}
Measurements(counts) ==
    {[file |-> t.file, line |-> t.line, metric |-> t.metric, count |-> counts[t]] :
       t \in Counted(counts)}
Status(candidates, counted) ==
    LET unknown == \/ \E i \in DOMAIN candidates : ~IsComplete(candidates, i)
                   \/ counted # Tasks(candidates)
    IN  IF unknown THEN IF counted = {} THEN "unknown" ELSE "partial"
        ELSE IF Tasks(candidates) = {} THEN "not_required" ELSE "measured"

NoReport == [status |-> "none", measured |-> {}, candidates |-> <<>>, gen |-> None, truth |-> None]
Report(counts) ==
    [status |-> Status(client.candidates, Counted(counts)), measured |-> Measurements(counts),
     candidates |-> client.candidates, gen |-> client.gen, truth |-> session.truth]
Nothing == [t \in client.tasks |-> None]

NoSession == [at |-> "none", oids |-> [r \in Relations |-> None], locks |-> {},
          snap |-> None, task |-> None, counts |-> <<>>, truth |-> None]
Blank == [at |-> "idle", check |-> "none", held |-> None, candidates |-> <<>>, tasks |-> {},
          gen |-> None, receipt |-> None, protected |-> FALSE, box |-> None,
          retirement |-> None, failed |-> FALSE]

(* A command that ends leaves its session to its own deadline. *)
End(said) ==
    /\ client' = Blank /\ session' = NoSession /\ report' = said
    /\ left' = left \cup session.locks
Refuse == End(NoReport) /\ UNCHANGED <<project, sandbox, database, confirmed, others>>
GiveUp == /\ End(Report(Nothing))
          /\ UNCHANGED <<project, sandbox, database, confirmed, others>>
Continue(c) ==
    /\ client' = c
    /\ UNCHANGED <<project, sandbox, database, session, left, confirmed, report, others>>

-----------------------------------------------------------------------------
(* The inputs: the candidate files of the directory, bound by hash, and the *)
(* baseline they follow.                                                    *)

IsPrepared == RepresentsBaseline(Represented[active], Inventory(files))
CandidateFiles == Candidates(Represented[active], Inventory(files))

(* inspect impact prints the digest of the whole plan; it covers the        *)
(* candidates, not the baseline.                                            *)
Review ==
    /\ client.at = "idle" /\ IsPrepared /\ confirmed # CandidateFiles
    /\ confirmed' = CandidateFiles
    /\ UNCHANGED <<project, sandbox, database, client, session, left, report, others>>

(* A directory is held open while its files are read: every read is framed  *)
(* by looks at the identities and times of the files and their folders, so  *)
(* that a write in between fails it.  The baseline is verified afterwards,  *)
(* and must still be the one the candidates were taken by.                  *)
Hold == [stamp |-> stamp, candidates |-> CandidateFiles, gen |-> active]
Unchanged == stamp = client.held.stamp /\ active = client.held.gen
BeginReading(from, to) ==
    /\ client.at = from
    /\ IF IsPrepared THEN Continue([client EXCEPT !.at = to, !.held = Hold]) ELSE Refuse

(* measure impact reads them before it does anything else, and refuses what *)
(* was not confirmed; a plan with nothing to count ends here.               *)
Measure ==
    /\ confirmed # <<>> /\ IsPrepared
    /\ BeginReading("idle", "reading")
Prepare ==
    /\ client.at = "reading"
    /\ LET tasks == Tasks(client.held.candidates)
       IN  IF ~Unchanged \/ client.held.candidates # confirmed THEN Refuse
           ELSE IF tasks = {}
           THEN /\ End([NoReport EXCEPT !.status = Status(client.held.candidates, {}),
                                        !.candidates = client.held.candidates, !.gen = active])
                /\ UNCHANGED <<project, sandbox, database, confirmed, others>>
           ELSE /\ client' = [Blank EXCEPT !.at = "open", !.candidates = client.held.candidates,
                                           !.tasks = tasks, !.gen = active]
                /\ report' = NoReport
                /\ UNCHANGED <<project, sandbox, database, session, left, confirmed, others>>

(* Afterwards everything is read again and must be as bound. *)
ReadAgain == BeginReading("conclude", "rereading")
BindingHolds ==
    Unchanged /\ client.held.candidates = client.candidates /\ client.held.gen = client.gen
Conclude ==
    /\ client.at = "rereading"
    /\ IF BindingHolds THEN /\ End(Report(session.counts))
                            /\ UNCHANGED <<project, sandbox, database, confirmed, others>>
       ELSE Refuse

-----------------------------------------------------------------------------
(* The runtime: its receipt, and the container that answers to its name. *)

MarkerMatches == receipt.gen = client.gen
SameReceiptText(r) == r.gen = client.gen
SameReceipt(r) == r.id = client.receipt

(* A container of another image than the configured one is taken only for   *)
(* the one a retirement kept, and only under the receipt that keeps it.     *)
RetiredImage ==
    /\ client.protected
    /\ retirement.of = client.receipt
    /\ client.retirement \in {None, retirement.id}
Answers ==
    /\ box.up
    /\ IF box.configured THEN client.retirement = None ELSE RetiredImage
NotedRetirement == IF box.configured THEN client.retirement ELSE retirement.id

OpenReceipt ==
    /\ client.at = "open"
    /\ IF MarkerMatches
       THEN Continue([client EXCEPT !.at = "inspect", !.receipt = receipt.id,
                                    !.protected = receipt.protected])
       ELSE Refuse
OpenContainer ==
    /\ client.at = "inspect"
    /\ IF Answers
       THEN Continue([client EXCEPT !.at = "first", !.check = "opened", !.box = box.id,
                                    !.retirement = NotedRetirement])
       ELSE Refuse

(* The check that nothing changed: receipt, container by its id, receipt.   *)
(* The daemon's own id is compared between the two; a container of another  *)
(* daemon has another id, so the container stands for both.                 *)
ReceiptStands == MarkerMatches /\ SameReceipt(receipt)
Passed ==
    CASE client.check = "opened" -> [client EXCEPT !.at = "first", !.check = "before"]
      [] client.check = "before" -> [client EXCEPT !.at = "send"]
      [] client.check = "after" -> IF client.failed THEN [client EXCEPT !.at = "fail"]
                                   ELSE [client EXCEPT !.at = "first", !.check = "final"]
      [] client.check = "final" -> [client EXCEPT !.at = "conclude"]
AssertReceipt ==
    /\ client.at = "first"
    /\ IF ReceiptStands THEN Continue([client EXCEPT !.at = "second"]) ELSE Refuse
AssertContainer ==
    /\ client.at = "second"
    /\ IF box.id = client.box /\ Answers
       THEN Continue([client EXCEPT !.at = "third", !.retirement = NotedRetirement])
       ELSE Refuse
AssertReceiptAgain ==
    /\ client.at = "third"
    /\ IF ReceiptStands THEN Continue(Passed) ELSE Refuse

(* psql runs in the pinned container; its failure is reported only after    *)
(* the runtime has been checked once more.                                  *)
Send ==
    /\ client.at = "send"
    /\ client' = [client EXCEPT !.at = "run", !.check = "after"]
    /\ session' = [NoSession EXCEPT !.at = IF box.id = client.box /\ box.up THEN "preflight"
                                              ELSE "failed"]
    /\ UNCHANGED <<project, sandbox, database, left, confirmed, report, others>>
Receive ==
    /\ client.at = "run" /\ session.at \in {"done", "failed"}
    /\ Continue([client EXCEPT !.at = "first", !.failed = (session.at = "failed")])
ReportFailure == client.at = "fail" /\ GiveUp

(* The total deadline strikes at any step; a cancelled command says nothing. *)
TimeOut == client.at \notin {"idle", "reading", "fail"} /\ GiveUp
Cancel == client.at # "idle" /\ Refuse

-----------------------------------------------------------------------------
(* The session: a preflight of its own, then locks, snapshot and counts. *)

Wanted == UNION {{t.rel, t.ref} : t \in client.tasks}
Step(s) ==
    /\ session' = s
    /\ UNCHANGED <<project, sandbox, database, client, left, confirmed, report, others>>
IsPlain(table) == table.plain
Ordinary(o) == o # None /\ IsPlain(tables[o])

(* A server without transaction_timeout is not asked for anything else. *)
UnsupportedServer ==
    /\ session.at = "preflight" /\ ~box.new
    /\ Step([session EXCEPT !.at = "done",
                            !.counts = Nothing])

(* Read committed: every relation is looked up by a statement of its own. *)
Preflight(r) ==
    /\ session.at = "preflight" /\ box.new
    /\ r \in Wanted /\ session.oids[r] = None
    /\ \A q \in Wanted : q < r => session.oids[q] # None
    /\ Step([session EXCEPT !.oids[r] = IF Ordinary(catalog[r]) THEN catalog[r] ELSE 0])
LockNamespace ==
    /\ session.at = "preflight" /\ box.new
    /\ \A r \in Wanted : session.oids[r] # None
    /\ Step([session EXCEPT !.at = "lock", !.locks = {Namespace}])

(* Tables are locked by name, in the order of the names.  A name that is    *)
(* gone fails the script.                                                   *)
UnlockedName(r) == session.oids[r] # 0 /\ catalog[r] \notin session.locks
LockTables ==
    /\ session.at = "lock"
    /\ \E r \in Wanted :
        /\ UnlockedName(r) /\ \A q \in Wanted : q < r => ~UnlockedName(q)
        /\ catalog[r] \notin left
        /\ Step(IF catalog[r] = None THEN [session EXCEPT !.at = "failed", !.locks = {}]
                ELSE [session EXCEPT !.locks = @ \cup {catalog[r]}])
AllLockedAssumed == TRUE
AllLocked == \A r \in Wanted : ~UnlockedName(r)
Snapshot ==
    /\ session.at = "lock" /\ AllLocked
    /\ Step([session EXCEPT !.at = "check",
             !.snap = [catalog |-> catalog, tables |-> tables],
             !.truth = [catalog |-> catalog, tables |-> tables, receipt |-> receipt,
                        retirement |-> retirement, box |-> box]])

(* One task after the other. *)
Left == client.tasks \ DOMAIN session.counts
IsNext(t) == t \in Left /\ \A u \in Left : ~Precedes(u, t)
Answered(t, count) ==
    [u \in DOMAIN session.counts \cup {t} |-> IF u = t THEN count ELSE session.counts[u]]
SameTable(r) ==
    /\ session.oids[r] \in Oids
    /\ session.snap.catalog[r] = session.oids[r]
    /\ catalog[r] = session.oids[r]
    /\ IsPlain(session.snap.tables[session.oids[r]])

(* The check reads catalog rows of the snapshot, and resolves the name as   *)
(* it stands now; the query that follows resolves it again.                 *)
MetadataCheck(t) ==
    /\ session.at = "check" /\ IsNext(t)
    /\ Step(IF SameTable(t.rel) /\ SameTable(t.ref)
            THEN [session EXCEPT !.at = "count", !.task = t]
            ELSE [session EXCEPT !.counts = Answered(t, None)])
Visible(r) == session.snap.tables[catalog[r]].values
CountRows ==
    LET t == session.task IN
    /\ session.at = "count"
    /\ Step(IF None \in {catalog[t.rel], catalog[t.ref]}
            THEN [session EXCEPT !.at = "failed", !.locks = {}]
            ELSE [session EXCEPT !.at = "check",
                  !.counts = Answered(t, CountQuery(t.metric, Visible(t.rel), Visible(t.ref)))])
Rollback ==
    /\ session.at = "check" /\ Left = {}
    /\ Step([session EXCEPT !.at = "done", !.locks = {}])

(* lock_timeout, statement_timeout, transaction_timeout, a failing query. *)
SessionFails ==
    /\ session.at \in {"preflight", "lock", "check", "count"}
    /\ Step([session EXCEPT !.at = "failed", !.locks = {}])
LeftoverEnds ==
    /\ left # {} /\ left' = {}
    /\ UNCHANGED <<project, sandbox, database, client, session, confirmed, report, others>>

-----------------------------------------------------------------------------
(* Others: the developer's editor and baselines, other commands' traces on  *)
(* disk, Docker, and the sessions that use the sandbox meanwhile.           *)

(* They act while a command runs, which may be one that gives up: the next  *)
(* one finds what they did before it.                                       *)
Event == events < MaxEvents /\ client.at # "idle" /\ events' = events + 1
Held(o) == o \in session.locks \cup left

EditFiles ==
    /\ Event /\ last' = last + 1 /\ stamp' = last + 1
    /\ \E d \in Directories \ {files} : files' = d
    /\ UNCHANGED <<active, sandbox, database, client, session, left, confirmed, report>>
Activate ==
    /\ Event /\ \E g \in Generations \ {active} : active' = g
    /\ UNCHANGED <<files, stamp, sandbox, database, client, session, left, confirmed, report, last>>
RewriteReceipt ==
    /\ Event /\ last' = last + 1
    /\ \E g \in Generations, p \in BOOLEAN : receipt' = [id |-> last + 1, gen |-> g, protected |-> p]
    /\ UNCHANGED <<project, retirement, box, database, client, session, left, confirmed, report>>
RewriteRetirement ==
    /\ Event /\ last' = last + 1
    /\ retirement' = [id |-> last + 1, of |-> receipt.id]
    /\ UNCHANGED <<project, receipt, box, database, client, session, left, confirmed, report>>
Killed == IF session.at \in {"none", "done"} THEN session
          ELSE [session EXCEPT !.at = "failed", !.locks = {}]
ReplaceContainer ==
    /\ Event /\ last' = last + 1
    /\ \E c, n \in BOOLEAN :
        /\ c \/ n
        /\ box' = [id |-> last + 1, up |-> TRUE, configured |-> c, new |-> n]
    /\ session' = Killed /\ left' = {}
    /\ UNCHANGED <<project, receipt, retirement, database, client, confirmed, report>>
ToggleContainer ==
    /\ Event /\ box' = [box EXCEPT !.up = ~@]
    /\ session' = Killed /\ left' = {}
    /\ UNCHANGED <<project, receipt, retirement, database, client, confirmed, report, last>>
Write(o) ==
    /\ Event /\ box.up /\ ~Held(o) /\ \E r \in Relations : catalog[r] = o
    /\ \E v \in Contents \ {tables[o].values} : tables' = [tables EXCEPT ![o].values = v]
    /\ UNCHANGED <<project, sandbox, catalog, client, session, left, confirmed, report, last>>
Alter(o) ==
    /\ Event /\ box.up /\ ~Held(o)
    /\ tables' = [tables EXCEPT ![o].plain = ~@]
    /\ UNCHANGED <<project, sandbox, catalog, client, session, left, confirmed, report, last>>
(* A rename takes the name's table away and perhaps puts another there. *)
Rename(r) ==
    /\ Event /\ box.up /\ ~Held(catalog[r])
    /\ \E o \in (Oids \ {catalog[q] : q \in Relations}) \cup ({None} \ {catalog[r]}) :
         ~Held(o) /\ catalog' = [catalog EXCEPT ![r] = o]
    /\ UNCHANGED <<project, sandbox, tables, client, session, left, confirmed, report, last>>
(* A schema is renamed without a lock on its tables. *)
SwapSchemas ==
    /\ Event /\ box.up /\ ~Held(Namespace)
    /\ \E q, r \in Relations :
        /\ q < r
        /\ catalog' = [catalog EXCEPT ![q] = catalog[r], ![r] = catalog[q]]
    /\ UNCHANGED <<project, sandbox, tables, client, session, left, confirmed, report, last>>

ImpactInit ==
    /\ files \in Directories /\ stamp = 1 /\ active \in Generations
    /\ box \in [id : {1}, up : {TRUE}, configured : BOOLEAN, new : {TRUE}]
    /\ receipt = [id |-> 1, gen |-> active, protected |-> ~box.configured]
    /\ retirement = [id |-> 1, of |-> 1]
    /\ catalog \in [Relations -> Oids] /\ \A q, r \in Relations : catalog[q] = catalog[r] => q = r
    /\ tables \in {t \in [Oids -> [plain : {TRUE}, values : Contents]] :
                     \A q, r \in Relations : t[catalog[q]] = t[catalog[r]] => q = r}
    /\ client = Blank /\ session = NoSession /\ left = {}
    /\ confirmed = <<>> /\ report = NoReport /\ last = 1 /\ events = 0

ImpactNext ==
    \/ Review \/ Measure \/ Prepare \/ ReadAgain \/ OpenReceipt \/ OpenContainer
    \/ AssertReceipt \/ AssertContainer \/ AssertReceiptAgain
    \/ Send \/ Receive \/ ReportFailure \/ TimeOut \/ Cancel \/ Conclude
    \/ UnsupportedServer \/ LockNamespace \/ LockTables \/ Snapshot
    \/ \E r \in Relations : Preflight(r)
    \/ \E t \in client.tasks : MetadataCheck(t)
    \/ CountRows \/ Rollback \/ SessionFails \/ LeftoverEnds
    \/ EditFiles \/ Activate \/ RewriteReceipt \/ RewriteRetirement
    \/ ReplaceContainer \/ ToggleContainer
    \/ \E o \in Oids : Write(o) \/ Alter(o)
    \/ \E r \in Relations : Rename(r)
    \/ SwapSchemas
ImpactSpec == ImpactInit /\ [][ImpactNext]_impactVars

-----------------------------------------------------------------------------
(* What a statement would meet, said of the rows themselves. *)
Affected(statement, w) ==
    LET values == w.tables[w.catalog[statement.rel]].values
        at == DOMAIN values
        hit == CASE statement.op \in {"drop_table", "truncate", "broad_delete"} -> at
                 [] statement.op = "drop_column" -> {i \in at : values[i] # 0}
                 [] statement.op = "not_null" -> {i \in at : values[i] = 0}
                 [] statement.op = "unique" ->
                      {i \in at : values[i] # 0 /\ \E j \in at \ {i} : values[j] = values[i]}
                 [] statement.op = "foreign_key" ->
                      {i \in at : values[i] \notin {0} \cup
                                    ToSet(w.tables[w.catalog[statement.ref]].values)}
    IN  Cardinality(hit)

(* Every count of a report is what its own statement would meet at one      *)
(* instant, in ordinary tables under the names it uses; a report that calls *)
(* itself complete has counted every statement of every candidate           *)
(* (migration_impact.mts, reportFor; migration_impact_queries.mts,          *)
(* buildMigrationImpactScript).                                             *)
CountsAreTrue ==
    /\ \A c \in report.measured :
        LET statement == report.candidates[c.file][2][c.line]
        IN  /\ c.count = Affected(statement, report.truth)
            /\ report.truth.tables[report.truth.catalog[statement.rel]].plain
            /\ c.metric = Metric(statement.op)
    /\ report.status \in {"measured", "not_required"} =>
        \A i \in DOMAIN report.candidates : \A line \in DOMAIN report.candidates[i][2] :
            \E c \in report.measured : c.file = i /\ c.line = line

(* The rows were counted in the runtime that the reviewed plan is about: at *)
(* that instant its receipt named the baseline the candidates follow, and   *)
(* the container was of the configured image or the one that receipt's      *)
(* retirement kept (migration_impact_runtime.mts, assertCurrent).           *)
MeasuredAsReviewed ==
    report.measured # {} =>
        /\ report.truth.receipt.gen = report.gen
        /\ report.truth.box.up
        /\ \/ report.truth.box.configured
           \/ report.truth.receipt.protected /\ report.truth.retirement.of = report.truth.receipt.id

ImpactTypeOK ==
    /\ files \in Directories /\ stamp \in Nat /\ active \in Generations
    /\ receipt \in [id : Nat, gen : Generations, protected : BOOLEAN]
    /\ retirement \in [id : Nat, of : Nat]
    /\ box \in [id : Nat, up : BOOLEAN, configured : BOOLEAN, new : BOOLEAN]
    /\ catalog \in [Relations -> Oids \cup {None}]
    /\ tables \in [Oids -> [plain : BOOLEAN, values : Contents]]
    /\ left \subseteq Oids \cup {Namespace} /\ last \in Nat /\ events \in 0..MaxEvents
=============================================================================
