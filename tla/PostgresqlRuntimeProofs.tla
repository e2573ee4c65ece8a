------------------------ MODULE PostgresqlRuntimeProofs ------------------------
(***************************************************************************)
(* The properties of PostgresqlRuntime, for any number of candidates,      *)
(* baselines and volumes.  They rest on one inductive invariant, which     *)
(* says for each stage of a command what its files, its container and its  *)
(* volume have in common.                                                  *)
(***************************************************************************)
EXTENDS PostgresqlRuntime, TLAPS

Removing == {"drop-container", "drop-volume", "drop-files"}

\* The sandbox of a reset, from its first volume to its marker.
Building == {"make-volume", "run-shell", "restore", "mark", "marking"}

\* Between a marker that was accepted, or written, and the end.
Opened == {"built", "resume", "inspect", "create", "confirm", "await", "boot",
           "ready", "ledger"} \cup MigrateSteps

Retiring == {"retire", "halt", "back-up", "backing-up", "prepare", "protect",
             "remove-shell", "complete"}

\* The container was there when this stage was reached.
Attached == {"restore", "mark", "marking", "built", "confirm", "await", "boot",
             "ready", "ledger"} \cup MigrateSteps

\* The command that ends well here has reported the runtime ready.
Reports == pc = "ok" /\ cmd \notin {"stop", "discard"}

\* It has verified, or applied, the migrations.
Verified == pc = "ok" /\ cmd \in {"verify", "migrate"}

\* Which command reaches which stage.
Program ==
  /\ cmd = "none" <=> pc = "idle"
  /\ cmd \in {"reset", "migrate", "discard"} => ~config.protected
  /\ rolling =>
       pc \in Removing \cup Retiring \cup {"mark-failed", "failed", "cleanup"}
  /\ rolling /\ pc \in Removing => cmd # "discard"
  /\ pc \in Retiring => cmd = "stop" \/ (cmd = "migrate" /\ rolling)
  /\ pc = "mark-failed" => cmd = "migrate" /\ rolling
  /\ pc \in MigrateSteps => cmd = "migrate"
  /\ pc = "ledger" => cmd \in {"verify", "migrate"}
  /\ pc \in Removing => cmd # "stop"
  /\ pc \in Building \cup {"built"} => cmd \notin {"stop", "discard"}
  /\ pc \in (Opened \cup {"open"}) \ {"built"} =>
       cmd \in {"start", "verify", "migrate"}

\* What a step finds of container and volume.
Sandbox ==
  /\ container # "absent" => volume # {}
  /\ pc \in {"drop-volume", "drop-files", "make-volume", "run-shell"} =>
       container = "absent"
  /\ pc \in {"drop-files", "make-volume"} => volume = {}
  /\ pc \in Attached \/ Reports => container # "absent" \/ meddled
  /\ \A v \in volume : v.made <= born
  /\ served \subseteq 1 .. born

\* A retired marker stands beside the backup it was made from, wherever a
\* volume is there or is about to be made behind it.
BackedUp == marker.form = "retired" => Protect(backup) = marker

\* The marker and the candidate receipt, as the stages leave them.
Papers ==
  /\ pc \in Building => marker.form \in {"none", "torn"} /\ recorded = {}
  /\ pc = "make-volume" => receipt = NoReceipt
  /\ pc \in {"mark", "marking"} => \A v \in volume : v.gen = active
  /\ pc \in Opened \/ Reports => Readable(marker) /\ marker.gen = active
  /\ volume # {} \/ pc = "create" => BackedUp
  /\ recorded \in {{}, {Candidates}}
  /\ pc = "built" => recorded = {}
  /\ pc \in {"applying", "record"} =>
       (recorded = {} \/ replaced) /\ \A v \in volume : v.ledger < Candidates

\* Data in service has a marker, and only what may replace it is on its way
\* to remove it.
InService ==
  /\ \A v \in volume : v.made \in served => Readable(marker)
  /\ pc \in Building \cup {"built"} => \A v \in volume : v.made \notin served
  /\ pc \in {"drop-container", "drop-volume"} =>
       \/ cmd \in {"reset", "discard"}
       \/ cmd = "migrate" /\ rolling /\ config.tool = "sql"
       \/ \A v \in volume : v.made \notin served

\* A retirement knows the marker it protects and the volume it keeps.
Retirement ==
  /\ pc \in {"halt", "back-up", "backing-up", "prepare", "protect"} =>
       held = marker /\ Readable(held)
  /\ pc = "backing-up" => held.form = "plain"
  /\ pc \in {"prepare", "protect"} =>
       backup.form = "plain" /\ Protect(backup) = Protect(held)
  /\ pc \in {"back-up", "backing-up", "prepare", "protect", "remove-shell",
             "complete"} => \A v \in volume : v.made = bound
  /\ pc \in {"protect", "remove-shell", "complete"} =>
       receipt.state # "none" /\ receipt.made = bound
  /\ pc = "protect" => receipt.sha = Protect(held) /\ receipt.prior = held
  /\ pc \in {"remove-shell", "complete"} =>
       receipt.sha = marker /\ marker.form = "retired"
  /\ receipt.state # "none" => receipt.sha.form = "retired"

\* A candidate that was started and has not ended.
Begun(v) ==
  \A i \in 1 .. Candidates : v.runs[i] = IF i <= v.ledger + 1 THEN 1 ELSE 0

\* What the ledger says of the data.  The native tool marks what it left
\* unfinished; after SQL only the rollback is sure to take it away.
Unsure == config.tool = "sql" /\ escaped

History ==
  /\ pc \in {"applying", "record"} => Unsure \/ \A v \in volume : Begun(v)
  /\ pc = "record" => \A v \in volume : ~v.torn
  /\ config.tool = "native" =>
       /\ pc # "record"
       /\ pc \in {"apply", "migrated"} \/ Verified => \A v \in volume : ~v.torn
       /\ \A v \in volume : v.torn \/ Exact(v)
       /\ pc = "applying" => \A v \in volume : v.torn
  /\ config.tool = "sql" =>
       \/ escaped
       \/ pc \in {"applying", "record"}
       \/ rolling /\ cmd = "migrate" /\ pc \in {"drop-container", "drop-volume"}
       \/ \A v \in volume : Exact(v)

\* The marker and the candidate receipt tell the truth about the volume.
Vouched ==
  /\ Readable(marker) /\ ~replaced =>
       \A v \in volume : v.made = marker.made /\ v.gen = marker.gen
  /\ recorded # {} /\ ~replaced => \A v \in volume : v.ledger \in recorded

Inv == /\ TypeOK /\ Program /\ Sandbox /\ Papers /\ InService /\ Retirement
       /\ History /\ Vouched /\ RemovedShellHasReceipt

-----------------------------------------------------------------------------
(* What the records are made of.                                           *)

\* The marker that is absent, the one being written, and their receipt.
LEMMA Blanks ==
  /\ NoMarker \in Markers /\ NoMarker.form = "none"
  /\ [form |-> "torn", gen |-> 0, made |-> 0] \in Markers
  /\ NoReceipt \in Receipts /\ NoReceipt.state = "none"
BY RuntimeAssumption DEF NoMarker, NoReceipt, Markers, Receipts

\* Protection changes the form of a marker and nothing else.
LEMMA Protection ==
  ASSUME NEW m \in Markers
  PROVE  /\ Protect(m) \in Markers /\ Protect(m).form = "retired"
         /\ Protect(m).gen = m.gen /\ Protect(m).made = m.made
         /\ m.form = "retired" => Protect(m) = m
BY DEF Protect, Markers

\* A new volume is empty.
LEMMA NewVolume ==
  ASSUME NEW n \in 0 .. MaxVolumes, n < MaxVolumes
  PROVE  LET v == Blank(n + 1)
         IN  /\ v \in Volumes /\ v.made = n + 1 /\ v.ledger = 0
             /\ Exact(v)
BY RuntimeAssumption DEF Blank, Volumes, Exact

\* The restore writes the baseline into it.
LEMMA RestoredVolume ==
  ASSUME NEW v \in Volumes, NEW g \in 0 .. Generations
  PROVE  LET w == [v EXCEPT !.gen = g]
         IN  /\ w \in Volumes /\ w.made = v.made /\ w.gen = g
             /\ w.ledger = v.ledger /\ w.torn = v.torn /\ w.runs = v.runs
BY DEF Volumes

\* A candidate begins, ends and is recorded.
LEMMA BegunVolume ==
  ASSUME NEW v \in Volumes, v.ledger < Candidates, v.runs[v.ledger + 1] < 2
  PROVE  LET w == [v EXCEPT !.runs[v.ledger + 1] = @ + 1, !.torn = TRUE]
         IN  /\ w \in Volumes /\ w.made = v.made /\ w.gen = v.gen
             /\ w.ledger = v.ledger /\ w.torn
             /\ Exact(v) => Begun(w)
<1> DEFINE i == v.ledger + 1
           r == [v.runs EXCEPT ![i] = @ + 1]
<1>1. /\ i \in 1 .. Candidates /\ v.runs \in [1 .. Candidates -> 0 .. 2]
      /\ v.runs[i] \in 0 .. 1 /\ v.ledger \in 0 .. Candidates
  BY RuntimeAssumption DEF Volumes
<1>2. /\ r \in [1 .. Candidates -> 0 .. 2]
      /\ \A j \in 1 .. Candidates :
           r[j] = IF j = i THEN v.runs[i] + 1 ELSE v.runs[j]
  <2>1. v.runs[i] + 1 \in 0 .. 2
    BY <1>1
  <2>2. r \in [1 .. Candidates -> 0 .. 2]
    BY <1>1, <2>1, Zenon
  <2> QED BY <1>1, <2>2
<1> HIDE DEF r
<1> DEFINE w == [v EXCEPT !.runs = r, !.torn = TRUE]
<1>3. /\ w \in Volumes /\ w.made = v.made /\ w.gen = v.gen
      /\ w.ledger = v.ledger /\ w.torn /\ w.runs = r
  BY <1>2 DEF Volumes
<1>4. Exact(v) => Begun(w)
  BY <1>1, <1>2, <1>3 DEF Exact, Begun
<1>5. w = [v EXCEPT !.runs[v.ledger + 1] = @ + 1, !.torn = TRUE]
  BY DEF r, Volumes
<1> QED BY <1>3, <1>4, <1>5

LEMMA EndedVolume ==
  ASSUME NEW v \in Volumes, NEW n \in BOOLEAN, v.ledger < Candidates
  PROVE  LET w == [v EXCEPT !.torn = FALSE, !.ledger = IF n THEN @ + 1 ELSE @]
         IN  /\ w \in Volumes /\ w.made = v.made /\ w.gen = v.gen /\ ~w.torn
             /\ ~n => w.ledger = v.ledger
             /\ ~n /\ Begun(v) => Begun(w)
             /\ n /\ Begun(v) => Exact(w)
<1> DEFINE w == [v EXCEPT !.torn = FALSE, !.ledger = IF n THEN @ + 1 ELSE @]
<1>1. /\ w.made = v.made /\ w.gen = v.gen /\ w.torn = FALSE /\ w.runs = v.runs
      /\ w.ledger = (IF n THEN v.ledger + 1 ELSE v.ledger)
  BY DEF Volumes
<1>2. w \in Volumes
  <2>1. v.ledger \in Nat /\ v.ledger + 1 \in 0 .. Candidates
    BY RuntimeAssumption DEF Volumes
  <2> QED BY <2>1 DEF Volumes
<1>3. /\ ~n /\ Begun(v) => Begun(w)
      /\ n /\ Begun(v) => Exact(w)
  BY <1>1 DEF Volumes, Exact, Begun
<1> QED BY <1>1, <1>2, <1>3

LEMMA RecordedVolume ==
  ASSUME NEW v \in Volumes, v.ledger < Candidates
  PROVE  LET w == [v EXCEPT !.ledger = @ + 1]
         IN  /\ w \in Volumes /\ w.made = v.made /\ w.gen = v.gen
             /\ w.torn = v.torn
             /\ Begun(v) /\ ~v.torn => Exact(w)
BY RuntimeAssumption DEF Volumes, Exact, Begun

-----------------------------------------------------------------------------
(* The steps: the effect of each action, then the parts of the invariant.  *)

\* Removing: the container, the volume, then the files.
LEMMA RemoveKeeps == Inv /\ Remove => Inv'
<1> SUFFICES ASSUME Inv, Remove PROVE Inv'
  OBVIOUS
<1> USE DEF Inv, Removing, Building, Opened, Retiring, Attached, BuildSteps,
            MigrateSteps, Reports
<1>1. CASE DropContainer
  <2>1. /\ pc = "drop-container"
        /\ pc' = "drop-volume"
        /\ container' = "absent"
        /\ condemned' = condemned \cup {v.made : v \in volume}
        /\ UNCHANGED <<config, active, volume, born, marker, backup, receipt,
                       failed, recorded, cmd, held, bound, fresh, rolling,
                       served, escaped, replaced, meddled>>
    BY <1>1 DEF DropContainer, Goto, docker, files, memory, history
  <2>2. condemned' \subseteq 1 .. MaxVolumes
    <3>1. \A v \in volume : v.made \in 1 .. MaxVolumes
      BY DEF TypeOK, Volumes
    <3> QED BY <2>1, <3>1 DEF TypeOK
  <2>3. TypeOK'
    BY <2>1, <2>2 DEF TypeOK, FinalSteps, Steps
  <2>4. Program' /\ Retirement'
    BY <2>1 DEF Program, Retirement
  <2>5. Sandbox'
    BY <2>1, <2>2 DEF Program, Sandbox
  <2>6. Papers' /\ InService'
    BY <2>1 DEF Program, Sandbox, Papers, BackedUp, Readable, InService
  <2>7. History'
    BY <2>1 DEF Program, History, Unsure, Verified
  <2>8. Vouched' /\ RemovedShellHasReceipt'
    BY <2>1
      DEF Program, Papers, Vouched, Readable, Sandbox, InService,
          RemovedShellHasReceipt, Stored
  <2> QED BY <2>3, <2>4, <2>5, <2>6, <2>7, <2>8 DEF Inv
<1>2. CASE DropVolume
  <2>1. /\ pc = "drop-volume"
        /\ pc' = "drop-files"
        /\ container = "absent"
        /\ volume' = {}
        /\ UNCHANGED <<config, active, container, born, marker, backup,
                       receipt, failed, recorded, cmd, held, bound, fresh,
                       rolling, served, condemned, escaped, replaced, meddled>>
    BY <1>2 DEF DropVolume, Goto, docker, files, memory, history
  <2>2. TypeOK'
    BY <2>1 DEF TypeOK, FinalSteps, Steps
  <2>3. Program' /\ Sandbox' /\ Retirement'
    BY <2>1 DEF Program, Sandbox, Retirement
  <2>4. Papers' /\ InService'
    BY <2>1 DEF Program, Sandbox, Papers, BackedUp, Readable, InService
  <2>5. History'
    BY <2>1 DEF Program, History, Unsure, Verified
  <2>6. Vouched' /\ RemovedShellHasReceipt'
    BY <2>1
      DEF Program, Papers, Vouched, Readable, Sandbox, InService,
          RemovedShellHasReceipt, Stored
  <2> QED BY <2>2, <2>3, <2>4, <2>5, <2>6 DEF Inv
<1>3. CASE DropFile
  <2>1. /\ pc = "drop-files"
        /\ marker' \in {marker, NoMarker}
        /\ receipt' \in {receipt, NoReceipt}
        /\ backup' \in {backup, NoMarker}
        /\ recorded' \in {recorded, {}}
        /\ UNCHANGED <<config, active, container, volume, born, cmd, pc, held,
                       bound, fresh, rolling, served, condemned, escaped,
                       replaced, meddled>>
    BY <1>3 DEF DropFile, Goto, docker, files, memory, history
  <2>2. failed' \in BOOLEAN
    BY <1>3, ZenonT(30) DEF DropFile, TypeOK
  <2>3. TypeOK'
    BY <2>1, <2>2, Blanks DEF TypeOK, FinalSteps, Steps
  <2>4. Program' /\ Sandbox'
    BY <2>1 DEF Program, Sandbox
  <2>5. Papers'
    BY <2>1, Blanks DEF Program, Sandbox, Papers, BackedUp, Readable
  <2>6. InService'
    BY <2>1, Blanks DEF Program, Sandbox, Papers, InService, Readable
  <2>7. Retirement'
    BY <2>1, Blanks DEF Program, Retirement
  <2>8. History'
    BY <2>1 DEF Program, History, Unsure, Verified
  <2>9. Vouched'
    BY <2>1, Blanks DEF Program, Papers, Vouched, Readable
  <2>10. RemovedShellHasReceipt'
    BY <2>1
      DEF Program, Sandbox, InService, RemovedShellHasReceipt, Stored, Readable
  <2> QED BY <2>3, <2>4, <2>5, <2>6, <2>7, <2>8, <2>9, <2>10 DEF Inv
<1>4. CASE Dropped
  <2>1. /\ pc = "drop-files"
        /\ marker = NoMarker
        /\ receipt = NoReceipt
        /\ recorded = {}
        /\ pc' \in {"cleanup", "failed", "ok", "make-volume"}
        /\ rolling => pc' \in {"cleanup", "failed"}
        /\ ~rolling /\ cmd = "discard" => pc' = "ok"
        /\ ~rolling /\ cmd # "discard" => pc' = "make-volume"
        /\ pc' = "cleanup" => cmd = "start"
        /\ UNCHANGED <<config, active, container, volume, born, marker, backup,
                       receipt, failed, recorded, cmd, held, bound, fresh,
                       rolling, served, condemned, escaped, replaced, meddled>>
    BY <1>4 DEF Dropped, Abandon, Goto, docker, files, memory, history
  <2>2. TypeOK'
    BY <2>1 DEF TypeOK, FinalSteps, Steps
  <2>3. Program' /\ Sandbox' /\ Retirement'
    BY <2>1 DEF Program, Sandbox, Retirement
  <2>4. Papers'
    BY <2>1, Blanks DEF Program, Sandbox, Papers, BackedUp, Readable
  <2>5. InService'
    BY <2>1, Blanks DEF Program, Sandbox, Papers, InService, Readable
  <2>6. History'
    BY <2>1 DEF Program, History, Unsure, Verified
  <2>7. Vouched' /\ RemovedShellHasReceipt'
    BY <2>1
      DEF Program, Papers, Vouched, Readable, Sandbox, InService,
          RemovedShellHasReceipt, Stored
  <2> QED BY <2>2, <2>3, <2>4, <2>5, <2>6, <2>7 DEF Inv
<1> QED BY <1>1, <1>2, <1>3, <1>4 DEF Remove

\* A reset builds the sandbox and writes its marker last.
LEMMA BuildKeeps == Inv /\ Build => Inv'
<1> SUFFICES ASSUME Inv, Build PROVE Inv'
  OBVIOUS
<1> USE DEF Inv, Removing, Building, Opened, Retiring, Attached, BuildSteps,
            MigrateSteps, Reports
<1>1. CASE MakeVolume
  <2>1. /\ pc = "make-volume"
        /\ pc' = "run-shell"
        /\ born < MaxVolumes /\ born' = born + 1
        /\ \E w \in Volumes : /\ volume' = {w} /\ w.made = born'
                                 /\ w.ledger = 0 /\ Exact(w)
        /\ UNCHANGED <<config, active, container, marker, backup, receipt,
                       failed, recorded, cmd, held, bound, fresh, rolling,
                       served, condemned, escaped, replaced, meddled>>
    BY <1>1, RuntimeAssumption, NewVolume
      DEF MakeVolume, TypeOK, Sandbox, Goto, docker, files, memory, history
  <2>2. TypeOK'
    BY <2>1, RuntimeAssumption DEF TypeOK, FinalSteps, Steps
  <2>3. Program' /\ Retirement'
    BY <2>1 DEF Program, Retirement
  <2>4. Sandbox'
    BY <2>1, RuntimeAssumption DEF Program, Sandbox, TypeOK
  <2>5. Papers'
    BY <2>1 DEF Program, Sandbox, Papers, BackedUp, Readable
  <2>6. InService'
    BY <2>1, RuntimeAssumption
      DEF Program, Sandbox, Papers, InService, Readable, TypeOK
  <2>7. History'
    BY <2>1 DEF Program, History, Unsure, Verified
  <2>8. Vouched'
    BY <2>1 DEF Program, Papers, Vouched, Readable
  <2>9. RemovedShellHasReceipt'
    BY <2>1, RuntimeAssumption
      DEF Program, Sandbox, InService, RemovedShellHasReceipt, Stored,
          Readable, TypeOK
  <2> QED BY <2>2, <2>3, <2>4, <2>5, <2>6, <2>7, <2>8, <2>9 DEF Inv
<1>2. CASE RunShell
  <2>1. /\ pc = "run-shell"
        /\ pc' = "restore"
        /\ container' = "running"
        /\ \/ volume # {} /\ UNCHANGED <<volume, born, replaced>>
           \/ /\ volume = {} /\ born < MaxVolumes /\ born' = born + 1
              /\ replaced' = TRUE
              /\ \E w \in Volumes : /\ volume' = {w} /\ w.made = born'
                                       /\ w.ledger = 0 /\ Exact(w)
        /\ UNCHANGED <<config, active, marker, backup, receipt, failed,
                       recorded, cmd, held, bound, rolling, served, condemned,
                       escaped, meddled>>
    BY <1>2, RuntimeAssumption, NewVolume
      DEF RunShell, Attach, TypeOK, Goto, docker, files, memory, history
  <2>2. fresh' \in BOOLEAN /\ replaced' \in BOOLEAN
    BY <1>2, ZenonT(30) DEF RunShell, Attach, TypeOK
  <2>3. TypeOK'
    BY <2>1, <2>2, RuntimeAssumption DEF TypeOK, FinalSteps, Steps
  <2>4. Program' /\ Retirement'
    BY <2>1 DEF Program, Retirement
  <2>5. Sandbox'
    BY <2>1, RuntimeAssumption DEF Program, Sandbox, TypeOK
  <2>6. Papers'
    BY <2>1 DEF Program, Sandbox, Papers, BackedUp, Readable
  <2>7. InService'
    BY <2>1, RuntimeAssumption
      DEF Program, Sandbox, Papers, InService, Readable, TypeOK
  <2>8. History'
    BY <2>1 DEF Program, History, Unsure, Verified
  <2>9. Vouched'
    BY <2>1 DEF Program, Papers, Vouched, Readable
  <2>10. RemovedShellHasReceipt'
    BY <2>1, RuntimeAssumption
      DEF Program, Sandbox, InService, RemovedShellHasReceipt, Stored,
          Readable, TypeOK
  <2> QED BY <2>3, <2>4, <2>5, <2>6, <2>7, <2>8, <2>9, <2>10 DEF Inv
<1>3. CASE Restore
  <2>1. /\ pc = "restore"
        /\ pc' = "mark"
        /\ container = "running"
        /\ volume # {} => volume' # {}
        /\ \A w, x \in volume' : w = x
        /\ \A w \in volume' : \E v \in volume :
             /\ w \in Volumes /\ w.gen = active /\ w.made = v.made
             /\ w.torn = v.torn /\ (Exact(v) => Exact(w))
        /\ UNCHANGED <<config, active, container, born, marker, backup,
                       receipt, failed, recorded, cmd, held, bound, fresh,
                       rolling, served, condemned, escaped, replaced, meddled>>
    <3>1. /\ pc = "restore" /\ pc' = "mark" /\ container = "running"
          /\ volume' = {[v EXCEPT !.gen = active] : v \in volume}
          /\ UNCHANGED <<config, active, container, born, marker, backup,
                         receipt, failed, recorded, cmd, held, bound, fresh,
                         rolling, served, condemned, escaped, replaced,
                         meddled>>
      BY <1>3 DEF Restore, Goto, docker, files, memory, history
    <3>2. /\ active \in 0 .. Generations /\ volume \subseteq Volumes
          /\ \A v, w \in volume : v = w
      BY RuntimeAssumption DEF TypeOK
    <3>3. ASSUME NEW v \in volume
          PROVE  LET w == [v EXCEPT !.gen = active]
                 IN  /\ w \in Volumes /\ w.made = v.made /\ w.gen = active
                     /\ w.torn = v.torn /\ (Exact(v) => Exact(w))
      BY <3>2, RestoredVolume DEF Exact
    <3> QED BY <3>1, <3>2, <3>3
  <2>2. TypeOK'
    BY <2>1 DEF TypeOK, FinalSteps, Steps
  <2>3. Program' /\ Sandbox' /\ Retirement'
    BY <2>1 DEF Program, Sandbox, Retirement
  <2>4. Papers' /\ InService'
    BY <2>1 DEF Program, Sandbox, Papers, BackedUp, Readable, InService
  <2>5. History'
    BY <2>1 DEF Program, History, Unsure, Verified
  <2>6. Vouched' /\ RemovedShellHasReceipt'
    BY <2>1
      DEF Program, Papers, Vouched, Readable, Sandbox, InService,
          RemovedShellHasReceipt, Stored
  <2> QED BY <2>2, <2>3, <2>4, <2>5, <2>6 DEF Inv
<1>4. CASE TearMarker
  <2>1. /\ pc = "mark"
        /\ pc' = "marking"
        /\ marker' = [form |-> "torn", gen |-> 0, made |-> 0]
        /\ UNCHANGED <<config, active, container, volume, born, backup,
                       receipt, failed, recorded, cmd, held, bound, fresh,
                       rolling, served, condemned, escaped, replaced, meddled>>
    BY <1>4 DEF TearMarker, Goto, docker, files, memory, history
  <2>2. TypeOK'
    BY <2>1, Blanks DEF TypeOK, FinalSteps, Steps
  <2>3. Program' /\ Sandbox' /\ Retirement'
    BY <2>1 DEF Program, Sandbox, Retirement
  <2>4. Papers' /\ InService'
    BY <2>1 DEF Program, Sandbox, Papers, BackedUp, Readable, InService
  <2>5. History'
    BY <2>1 DEF Program, History, Unsure, Verified
  <2>6. Vouched' /\ RemovedShellHasReceipt'
    BY <2>1
      DEF Program, Papers, Vouched, Readable, Sandbox, InService,
          RemovedShellHasReceipt, Stored
  <2> QED BY <2>2, <2>3, <2>4, <2>5, <2>6 DEF Inv
<1>5. CASE WriteMarker
  <2>1. /\ pc = "marking"
        /\ pc' = "built"
        /\ \E v \in volume :
             marker' = [form |-> "plain", gen |-> active, made |-> v.made]
        /\ UNCHANGED <<config, active, container, volume, born, backup,
                       receipt, failed, recorded, cmd, held, bound, fresh,
                       rolling, served, condemned, escaped, replaced, meddled>>
    BY <1>5 DEF WriteMarker, Goto, docker, files, memory, history
  <2>2. TypeOK'
    BY <2>1, RuntimeAssumption DEF TypeOK, FinalSteps, Steps, Volumes, Markers
  <2>3. Program' /\ Sandbox' /\ Retirement'
    BY <2>1 DEF Program, Sandbox, Retirement
  <2>4. Papers'
    BY <2>1 DEF Program, Sandbox, Papers, BackedUp, Readable
  <2>5. InService'
    BY <2>1 DEF Program, Sandbox, Papers, InService, Readable, TypeOK
  <2>6. History'
    BY <2>1 DEF Program, History, Unsure, Verified
  <2>7. Vouched'
    BY <2>1 DEF Program, Papers, Vouched, Readable, TypeOK
  <2>8. RemovedShellHasReceipt'
    BY <2>1
      DEF Program, Sandbox, InService, RemovedShellHasReceipt, Stored, Readable
  <2> QED BY <2>2, <2>3, <2>4, <2>5, <2>6, <2>7, <2>8 DEF Inv
<1>6. CASE Built
  <2>1. /\ pc = "built"
        /\ pc' = (IF cmd \in {"reset", "start"} THEN "ok" ELSE "ledger")
        /\ UNCHANGED <<config, active, container, volume, born, marker, backup,
                       receipt, failed, recorded, cmd, held, bound, fresh,
                       rolling, served, condemned, escaped, replaced, meddled>>
    BY <1>6 DEF Built, Goto, docker, files, memory, history
  <2>2. TypeOK'
    BY <2>1 DEF TypeOK, FinalSteps, Steps
  <2>3. Program'
    BY <2>1 DEF Program, TypeOK, Commands
  <2>4. Sandbox' /\ Retirement'
    BY <2>1 DEF Program, Sandbox, Retirement
  <2>5. Papers' /\ InService'
    BY <2>1 DEF Program, Sandbox, Papers, BackedUp, Readable, InService
  <2>6. History'
    BY <2>1 DEF Program, History, Unsure, Verified
  <2>7. Vouched' /\ RemovedShellHasReceipt'
    BY <2>1
      DEF Program, Papers, Vouched, Readable, Sandbox, InService,
          RemovedShellHasReceipt, Stored
  <2> QED BY <2>2, <2>3, <2>4, <2>5, <2>6, <2>7 DEF Inv
<1> QED BY <1>1, <1>2, <1>3, <1>4, <1>5, <1>6 DEF Build

\* A start opens what the marker vouches for, or resumes it.
LEMMA StartKeeps == Inv /\ Start => Inv'
<1> SUFFICES ASSUME Inv, Start PROVE Inv'
  OBVIOUS
<1> USE DEF Inv, Removing, Building, Opened, Retiring, Attached, BuildSteps,
            MigrateSteps, Reports
<1>1. CASE Open
  <2>1. /\ pc = "open"
        /\ pc' \in {"cleanup", "failed", "drop-container", "resume"}
        /\ pc' = "cleanup" => cmd = "start"
        /\ pc' = "drop-container" => marker.form = "none"
        /\ pc' = "resume" => Readable(marker) /\ marker.gen = active
        /\ UNCHANGED <<config, active, container, volume, born, marker, backup,
                       receipt, failed, recorded, cmd, held, bound, fresh,
                       rolling, served, condemned, escaped, replaced, meddled>>
    BY <1>1 DEF Open, Abandon, Goto, docker, files, memory, history
  <2>2. TypeOK'
    BY <2>1 DEF TypeOK, FinalSteps, Steps
  <2>3. Program' /\ Sandbox' /\ Retirement'
    BY <2>1 DEF Program, Sandbox, Retirement
  <2>4. Papers' /\ InService'
    BY <2>1 DEF Program, Sandbox, Papers, BackedUp, Readable, InService
  <2>5. History'
    BY <2>1 DEF Program, History, Unsure, Verified
  <2>6. Vouched' /\ RemovedShellHasReceipt'
    BY <2>1
      DEF Program, Papers, Vouched, Readable, Sandbox, InService,
          RemovedShellHasReceipt, Stored
  <2> QED BY <2>2, <2>3, <2>4, <2>5, <2>6 DEF Inv
<1>2. CASE Resume
  <2>1. /\ pc = "resume"
        /\ pc' \in {"cleanup", "failed", "boot", "inspect"}
        /\ pc' = "cleanup" => cmd = "start"
        /\ pc' = "boot" => container # "absent"
        /\ bound' \in {bound, receipt.made}
        /\ UNCHANGED <<config, active, container, volume, born, marker, backup,
                       receipt, failed, recorded, cmd, held, fresh, rolling,
                       served, condemned, escaped, replaced, meddled>>
    BY <1>2 DEF Resume, Abandon, Stored, Goto, docker, files, memory, history
  <2>2. TypeOK'
    BY <2>1 DEF TypeOK, FinalSteps, Steps, Receipts
  <2>3. Program' /\ Sandbox' /\ Retirement'
    BY <2>1 DEF Program, Sandbox, Retirement
  <2>4. Papers' /\ InService'
    BY <2>1 DEF Program, Sandbox, Papers, BackedUp, Readable, InService
  <2>5. History'
    BY <2>1 DEF Program, History, Unsure, Verified
  <2>6. Vouched' /\ RemovedShellHasReceipt'
    BY <2>1
      DEF Program, Papers, Vouched, Readable, Sandbox, InService,
          RemovedShellHasReceipt, Stored
  <2> QED BY <2>2, <2>3, <2>4, <2>5, <2>6 DEF Inv
<1>3. CASE Inspect
  <2>1. /\ pc = "inspect"
        /\ pc' \in {"cleanup", "failed", "create"}
        /\ pc' = "cleanup" => cmd = "start"
        /\ pc' = "create" => container = "absent" /\ volume # {}
        /\ UNCHANGED <<config, active, container, volume, born, marker, backup,
                       receipt, failed, recorded, cmd, held, bound, fresh,
                       rolling, served, condemned, escaped, replaced, meddled>>
    BY <1>3 DEF Inspect, Abandon, Retained, Goto, docker, files, memory, history
  <2>2. TypeOK'
    BY <2>1 DEF TypeOK, FinalSteps, Steps
  <2>3. Program' /\ Sandbox' /\ Retirement'
    BY <2>1 DEF Program, Sandbox, Retirement
  <2>4. Papers' /\ InService'
    BY <2>1 DEF Program, Sandbox, Papers, BackedUp, Readable, InService
  <2>5. History'
    BY <2>1 DEF Program, History, Unsure, Verified
  <2>6. Vouched' /\ RemovedShellHasReceipt'
    BY <2>1
      DEF Program, Papers, Vouched, Readable, Sandbox, InService,
          RemovedShellHasReceipt, Stored
  <2> QED BY <2>2, <2>3, <2>4, <2>5, <2>6 DEF Inv
<1>4. CASE CreateShell
  <2>1. /\ pc = "create"
        /\ pc' = "confirm"
        /\ container' = "running"
        /\ \/ volume # {} /\ UNCHANGED <<volume, born, replaced>>
           \/ /\ volume = {} /\ born < MaxVolumes /\ born' = born + 1
              /\ replaced' = TRUE
              /\ \E w \in Volumes : /\ volume' = {w} /\ w.made = born'
                                       /\ w.ledger = 0 /\ Exact(w)
        /\ UNCHANGED <<config, active, marker, backup, receipt, failed,
                       recorded, cmd, held, bound, rolling, served, condemned,
                       escaped, meddled>>
    BY <1>4, RuntimeAssumption, NewVolume
      DEF CreateShell, Attach, TypeOK, Goto, docker, files, memory, history
  <2>2. fresh' \in BOOLEAN /\ replaced' \in BOOLEAN
    BY <1>4, ZenonT(30) DEF CreateShell, Attach, TypeOK
  <2>3. TypeOK'
    BY <2>1, <2>2, RuntimeAssumption DEF TypeOK, FinalSteps, Steps
  <2>4. Program' /\ Retirement'
    BY <2>1 DEF Program, Retirement
  <2>5. Sandbox'
    BY <2>1, RuntimeAssumption DEF Program, Sandbox, TypeOK
  <2>6. Papers'
    BY <2>1 DEF Program, Sandbox, Papers, BackedUp, Readable
  <2>7. InService'
    BY <2>1, RuntimeAssumption
      DEF Program, Sandbox, Papers, InService, Readable, TypeOK
  <2>8. History'
    BY <2>1 DEF Program, History, Unsure, Verified
  <2>9. Vouched'
    BY <2>1 DEF Program, Papers, Vouched, Readable
  <2>10. RemovedShellHasReceipt'
    BY <2>1, RuntimeAssumption
      DEF Program, Sandbox, InService, RemovedShellHasReceipt, Stored,
          Readable, TypeOK
  <2> QED BY <2>3, <2>4, <2>5, <2>6, <2>7, <2>8, <2>9, <2>10 DEF Inv
<1>5. CASE ConfirmShell
  <2>1. /\ pc = "confirm"
        /\ pc' \in {"cleanup", "failed", "await"}
        /\ pc' = "cleanup" => cmd = "start"
        /\ pc' = "await" => container = "running"
        /\ UNCHANGED <<config, active, container, volume, born, marker, backup,
                       receipt, failed, recorded, cmd, held, bound, fresh,
                       rolling, served, condemned, escaped, replaced, meddled>>
    BY <1>5 DEF ConfirmShell, Abandon, Goto, docker, files, memory, history
  <2>2. TypeOK'
    BY <2>1 DEF TypeOK, FinalSteps, Steps
  <2>3. Program' /\ Sandbox' /\ Retirement'
    BY <2>1 DEF Program, Sandbox, Retirement
  <2>4. Papers' /\ InService'
    BY <2>1 DEF Program, Sandbox, Papers, BackedUp, Readable, InService
  <2>5. History'
    BY <2>1 DEF Program, History, Unsure, Verified
  <2>6. Vouched' /\ RemovedShellHasReceipt'
    BY <2>1
      DEF Program, Papers, Vouched, Readable, Sandbox, InService,
          RemovedShellHasReceipt, Stored
  <2> QED BY <2>2, <2>3, <2>4, <2>5, <2>6 DEF Inv
<1>6. CASE AwaitShell
  <2>1. /\ pc = "await"
        /\ pc' \in {"cleanup", "failed", "boot"}
        /\ pc' = "cleanup" => cmd = "start"
        /\ pc' = "boot" => container = "running"
        /\ UNCHANGED <<config, active, container, volume, born, marker, backup,
                       receipt, failed, recorded, cmd, held, bound, fresh,
                       rolling, served, condemned, escaped, replaced, meddled>>
    BY <1>6 DEF AwaitShell, Abandon, Goto, docker, files, memory, history
  <2>2. TypeOK'
    BY <2>1 DEF TypeOK, FinalSteps, Steps
  <2>3. Program' /\ Sandbox' /\ Retirement'
    BY <2>1 DEF Program, Sandbox, Retirement
  <2>4. Papers' /\ InService'
    BY <2>1 DEF Program, Sandbox, Papers, BackedUp, Readable, InService
  <2>5. History'
    BY <2>1 DEF Program, History, Unsure, Verified
  <2>6. Vouched' /\ RemovedShellHasReceipt'
    BY <2>1
      DEF Program, Papers, Vouched, Readable, Sandbox, InService,
          RemovedShellHasReceipt, Stored
  <2> QED BY <2>2, <2>3, <2>4, <2>5, <2>6 DEF Inv
<1>7. CASE Boot
  <2>1. /\ pc = "boot"
        /\ pc' = "ready"
        /\ container # "absent"
        /\ container' = "running"
        /\ UNCHANGED <<config, active, volume, born, marker, backup, receipt,
                       failed, recorded, cmd, held, bound, rolling, served,
                       condemned, escaped, replaced, meddled>>
    BY <1>7 DEF Boot, Goto, docker, files, memory, history
  <2>2. fresh' \in BOOLEAN
    BY <1>7, ZenonT(30) DEF Boot, TypeOK
  <2>3. TypeOK'
    BY <2>1, <2>2 DEF TypeOK, FinalSteps, Steps
  <2>4. Program' /\ Sandbox' /\ Retirement'
    BY <2>1 DEF Program, Sandbox, Retirement
  <2>5. Papers' /\ InService'
    BY <2>1 DEF Program, Sandbox, Papers, BackedUp, Readable, InService
  <2>6. History'
    BY <2>1 DEF Program, History, Unsure, Verified
  <2>7. Vouched' /\ RemovedShellHasReceipt'
    BY <2>1
      DEF Program, Papers, Vouched, Readable, Sandbox, InService,
          RemovedShellHasReceipt, Stored
  <2> QED BY <2>3, <2>4, <2>5, <2>6, <2>7 DEF Inv
<1>8. CASE Ready
  <2>1. /\ pc = "ready"
        /\ container = "running"
        /\ pc' = (IF cmd = "start" THEN "ok" ELSE "ledger")
        /\ UNCHANGED <<config, active, container, volume, born, marker, backup,
                       receipt, failed, recorded, cmd, held, bound, fresh,
                       rolling, served, condemned, escaped, replaced, meddled>>
    BY <1>8 DEF Ready, Goto, docker, files, memory, history
  <2>2. TypeOK'
    BY <2>1 DEF TypeOK, FinalSteps, Steps
  <2>3. Program'
    BY <2>1 DEF Program, TypeOK, Commands
  <2>4. Sandbox' /\ Retirement'
    BY <2>1 DEF Program, Sandbox, Retirement
  <2>5. Papers' /\ InService'
    BY <2>1 DEF Program, Sandbox, Papers, BackedUp, Readable, InService
  <2>6. History'
    BY <2>1 DEF Program, History, Unsure, Verified
  <2>7. Vouched' /\ RemovedShellHasReceipt'
    BY <2>1
      DEF Program, Papers, Vouched, Readable, Sandbox, InService,
          RemovedShellHasReceipt, Stored
  <2> QED BY <2>2, <2>3, <2>4, <2>5, <2>6, <2>7 DEF Inv
<1>9. CASE StopStarted
  <2>1. /\ pc = "cleanup"
        /\ pc' = "failed"
        /\ \/ container = "running" /\ container' = "stopped"
           \/ UNCHANGED container
        /\ UNCHANGED <<config, active, volume, born, marker, backup, receipt,
                       failed, recorded, cmd, held, bound, fresh, rolling,
                       served, condemned, escaped, replaced, meddled>>
    BY <1>9 DEF StopStarted, Goto, docker, files, memory, history
  <2>2. TypeOK'
    BY <2>1 DEF TypeOK, FinalSteps, Steps
  <2>3. Program' /\ Sandbox' /\ Retirement'
    BY <2>1 DEF Program, Sandbox, Retirement
  <2>4. Papers' /\ InService'
    BY <2>1 DEF Program, Sandbox, Papers, BackedUp, Readable, InService
  <2>5. History'
    BY <2>1 DEF Program, History, Unsure, Verified
  <2>6. Vouched' /\ RemovedShellHasReceipt'
    BY <2>1
      DEF Program, Papers, Vouched, Readable, Sandbox, InService,
          RemovedShellHasReceipt, Stored
  <2> QED BY <2>2, <2>3, <2>4, <2>5, <2>6 DEF Inv
<1> QED BY <1>1, <1>2, <1>3, <1>4, <1>5, <1>6, <1>7, <1>8, <1>9 DEF Start

\* The ledger is verified and the candidates are applied.
LEMMA MigrateKeeps == Inv /\ Migrate => Inv'
<1> SUFFICES ASSUME Inv, Migrate PROVE Inv'
  OBVIOUS
<1> USE DEF Inv, Removing, Building, Opened, Retiring, Attached, BuildSteps,
            MigrateSteps, Reports
<1>1. CASE VerifyLedger
  <2>1. /\ pc = "ledger"
        /\ pc' \in {"cleanup", "failed", "ok", "apply"}
        /\ container = "running"
        /\ pc' = "cleanup" => cmd = "start"
        /\ pc' = "ok" => cmd = "verify"
        /\ pc' = "apply" => cmd # "verify"
        /\ pc' \in {"ok", "apply"} => \A v \in volume : LedgerStands(v)
        /\ UNCHANGED <<config, active, container, volume, born, marker, backup,
                       receipt, failed, recorded, cmd, held, bound, fresh,
                       rolling, served, condemned, escaped, replaced, meddled>>
    BY <1>1 DEF VerifyLedger, Abandon, Goto, docker, files, memory, history
  <2>2. TypeOK'
    BY <2>1 DEF TypeOK, FinalSteps, Steps
  <2>3. Program' /\ Sandbox' /\ Retirement'
    BY <2>1 DEF Program, Sandbox, Retirement
  <2>4. Papers' /\ InService'
    BY <2>1 DEF Program, Sandbox, Papers, BackedUp, Readable, InService
  <2>5. History'
    BY <2>1
      DEF Program, History, Unsure, Verified, LedgerStands, TypeOK, Exact,
          Volumes
  <2>6. Vouched' /\ RemovedShellHasReceipt'
    BY <2>1
      DEF Program, Papers, Vouched, Readable, Sandbox, InService,
          RemovedShellHasReceipt, Stored
  <2> QED BY <2>2, <2>3, <2>4, <2>5, <2>6 DEF Inv
<1>2. CASE BeginCandidate
  <2>1. /\ pc = "apply"
        /\ pc' = "applying"
        /\ \E v \in volume, w \in Volumes :
             /\ volume' = {w} /\ w.made = v.made /\ w.gen = v.gen
             /\ w.ledger = v.ledger /\ v.ledger < Candidates
             /\ w.torn /\ (Exact(v) => Begun(w))
        /\ UNCHANGED <<config, active, container, born, marker, backup,
                       receipt, failed, recorded, cmd, held, bound, fresh,
                       rolling, served, condemned, escaped, replaced, meddled>>
    <3>1. PICK v \in volume :
            /\ v.ledger < Candidates /\ v.runs[v.ledger + 1] < 2
            /\ volume' = {[v EXCEPT !.runs[v.ledger + 1] = @ + 1, !.torn = TRUE]}
      BY <1>2 DEF BeginCandidate
    <3>2. v \in Volumes
      BY DEF TypeOK
    <3>3. /\ pc = "apply" /\ pc' = "applying"
          /\ UNCHANGED <<config, active, container, born, marker, backup,
                         receipt, failed, recorded, cmd, held, bound, fresh,
                         rolling, served, condemned, escaped, replaced,
                         meddled>>
      BY <1>2 DEF BeginCandidate, Goto, docker, files, memory, history
    <3> QED BY <3>1, <3>2, <3>3, BegunVolume
  <2>2. TypeOK'
    BY <2>1 DEF TypeOK, FinalSteps, Steps
  <2>3. Program' /\ Sandbox' /\ Retirement'
    BY <2>1 DEF Program, Sandbox, Retirement
  <2>4. Papers'
    BY <2>1, RuntimeAssumption
      DEF Program, Sandbox, Papers, BackedUp, Readable, Vouched, TypeOK,
          Volumes
  <2>5. InService'
    BY <2>1 DEF Program, Sandbox, Papers, InService, Readable
  <2>6. History'
    BY <2>1, RuntimeAssumption, Zenon
      DEF Program, History, Unsure, Verified, TypeOK
  <2>7. Vouched' /\ RemovedShellHasReceipt'
    BY <2>1
      DEF Program, Papers, Vouched, Readable, Sandbox, InService,
          RemovedShellHasReceipt, Stored
  <2> QED BY <2>2, <2>3, <2>4, <2>5, <2>6, <2>7 DEF Inv
<1>3. CASE EndCandidate
  <2>1. /\ pc = "applying"
        /\ pc' = (IF config.tool = "native" THEN "apply" ELSE "record")
        /\ volume # {} => volume' # {}
        /\ \A w, x \in volume' : w = x
        /\ \A w \in volume' : \E v \in volume :
             /\ w \in Volumes /\ w.made = v.made /\ w.gen = v.gen /\ ~w.torn
             /\ config.tool # "native" => w.ledger = v.ledger
             /\ Begun(v) => IF config.tool = "native" THEN Exact(w) ELSE Begun(w)
        /\ UNCHANGED <<config, active, container, born, marker, backup,
                       receipt, failed, recorded, cmd, held, bound, fresh,
                       rolling, served, condemned, escaped, replaced, meddled>>
    <3> DEFINE N == config.tool = "native"
               W(v) == [v EXCEPT !.torn = FALSE, !.ledger = IF N THEN @ + 1 ELSE @]
    <3>1. /\ pc = "applying" /\ volume' = {W(v) : v \in volume}
          /\ pc' = (IF N THEN "apply" ELSE "record")
          /\ UNCHANGED <<config, active, container, born, marker, backup,
                         receipt, failed, recorded, cmd, held, bound, fresh,
                         rolling, served, condemned, escaped, replaced,
                         meddled>>
      BY <1>3 DEF EndCandidate, Goto, docker, files, memory, history
    <3>2. ASSUME NEW v \in volume
          PROVE  /\ W(v) \in Volumes /\ W(v).made = v.made /\ W(v).gen = v.gen
                 /\ ~W(v).torn /\ (~N => W(v).ledger = v.ledger)
                 /\ Begun(v) => IF N THEN Exact(W(v)) ELSE Begun(W(v))
      <4>1. v \in Volumes /\ v.ledger < Candidates /\ N \in BOOLEAN
        BY <3>1 DEF TypeOK, Papers
      <4> HIDE DEF N
      <4> QED BY <4>1, EndedVolume
    <3>3. \A v, w \in volume : v = w
      BY DEF TypeOK
    <3> HIDE DEF W
    <3> QED BY <3>1, <3>2, <3>3
  <2>2. TypeOK'
    BY <2>1 DEF TypeOK, FinalSteps, Steps
  <2>3. Program' /\ Sandbox' /\ Retirement'
    BY <2>1 DEF Program, Sandbox, Retirement
  <2>4. Papers' /\ InService'
    BY <2>1 DEF Program, Sandbox, Papers, BackedUp, Readable, InService
  <2>5. History'
    BY <2>1 DEF Program, History, Unsure, Verified
  <2>6. Vouched' /\ RemovedShellHasReceipt'
    BY <2>1
      DEF Program, Papers, Vouched, Readable, Sandbox, InService,
          RemovedShellHasReceipt, Stored
  <2> QED BY <2>2, <2>3, <2>4, <2>5, <2>6 DEF Inv
<1>4. CASE RecordCandidate
  <2>1. /\ pc = "record"
        /\ pc' = "apply"
        /\ volume # {} => volume' # {}
        /\ \A w, x \in volume' : w = x
        /\ \A w \in volume' : \E v \in volume :
             /\ w \in Volumes /\ w.made = v.made /\ w.gen = v.gen
             /\ Begun(v) => Exact(w)
        /\ UNCHANGED <<config, active, container, born, marker, backup,
                       receipt, failed, recorded, cmd, held, bound, fresh,
                       rolling, served, condemned, escaped, replaced, meddled>>
    <3> DEFINE W(v) == [v EXCEPT !.ledger = @ + 1]
    <3>1. /\ pc = "record" /\ volume' = {W(v) : v \in volume} /\ pc' = "apply"
          /\ UNCHANGED <<config, active, container, born, marker, backup,
                         receipt, failed, recorded, cmd, held, bound, fresh,
                         rolling, served, condemned, escaped, replaced,
                         meddled>>
      BY <1>4 DEF RecordCandidate, Goto, docker, files, memory, history
    <3>2. ASSUME NEW v \in volume
          PROVE  /\ W(v) \in Volumes /\ W(v).made = v.made /\ W(v).gen = v.gen
                 /\ Begun(v) => Exact(W(v))
      <4>1. v \in Volumes /\ v.ledger < Candidates /\ ~v.torn
        BY <3>1 DEF TypeOK, Papers, History
      <4> QED BY <4>1, RecordedVolume
    <3>3. \A v, w \in volume : v = w
      BY DEF TypeOK
    <3> HIDE DEF W
    <3> QED BY <3>1, <3>2, <3>3
  <2>2. TypeOK'
    BY <2>1 DEF TypeOK, FinalSteps, Steps
  <2>3. Program' /\ Sandbox' /\ Retirement'
    BY <2>1 DEF Program, Sandbox, Retirement
  <2>4. Papers' /\ InService'
    BY <2>1 DEF Program, Sandbox, Papers, BackedUp, Readable, InService
  <2>5. History'
    BY <2>1 DEF Program, History, Unsure, Verified
  <2>6. Vouched' /\ RemovedShellHasReceipt'
    BY <2>1
      DEF Program, Papers, Vouched, Readable, Sandbox, InService,
          RemovedShellHasReceipt, Stored
  <2> QED BY <2>2, <2>3, <2>4, <2>5, <2>6 DEF Inv
<1>5. CASE FinishMigration
  <2>1. /\ pc = "apply"
        /\ pc' = "migrated"
        /\ recorded' = {Candidates}
        /\ \A v \in volume : v.ledger = Candidates /\ LedgerStands(v)
        /\ UNCHANGED <<config, active, container, volume, born, marker, backup,
                       receipt, failed, cmd, held, bound, fresh, rolling,
                       served, condemned, escaped, replaced, meddled>>
    BY <1>5 DEF FinishMigration, Goto, docker, files, memory, history
  <2>2. TypeOK'
    BY <2>1, RuntimeAssumption DEF TypeOK, FinalSteps, Steps
  <2>3. Program' /\ Sandbox' /\ Retirement'
    BY <2>1 DEF Program, Sandbox, Retirement
  <2>4. Papers' /\ InService'
    BY <2>1 DEF Program, Sandbox, Papers, BackedUp, Readable, InService
  <2>5. History'
    BY <2>1 DEF Program, History, Unsure, Verified, LedgerStands, TypeOK
  <2>6. Vouched' /\ RemovedShellHasReceipt'
    BY <2>1
      DEF Program, Papers, Vouched, Readable, Sandbox, InService,
          RemovedShellHasReceipt, Stored
  <2> QED BY <2>2, <2>3, <2>4, <2>5, <2>6 DEF Inv
<1>6. CASE Migrated
  <2>1. /\ pc = "migrated"
        /\ pc' = "ok"
        /\ UNCHANGED <<config, active, container, volume, born, marker, backup,
                       receipt, failed, recorded, cmd, held, bound, fresh,
                       rolling, served, condemned, escaped, replaced, meddled>>
    BY <1>6 DEF Migrated, Goto, docker, files, memory, history
  <2>2. TypeOK'
    BY <2>1 DEF TypeOK, FinalSteps, Steps
  <2>3. Program' /\ Sandbox' /\ Retirement'
    BY <2>1 DEF Program, Sandbox, Retirement
  <2>4. Papers' /\ InService'
    BY <2>1 DEF Program, Sandbox, Papers, BackedUp, Readable, InService
  <2>5. History'
    BY <2>1 DEF Program, History, Unsure, Verified
  <2>6. Vouched' /\ RemovedShellHasReceipt'
    BY <2>1
      DEF Program, Papers, Vouched, Readable, Sandbox, InService,
          RemovedShellHasReceipt, Stored
  <2> QED BY <2>2, <2>3, <2>4, <2>5, <2>6 DEF Inv
<1>7. CASE MarkFailed
  <2>1. /\ pc = "mark-failed"
        /\ pc' = "retire"
        /\ UNCHANGED <<config, active, container, volume, born, marker, backup,
                       receipt, recorded, cmd, held, bound, fresh, rolling,
                       served, condemned, escaped, replaced, meddled>>
    BY <1>7 DEF MarkFailed, Goto, docker, files, memory, history
  <2>2. failed' \in BOOLEAN
    BY <1>7, ZenonT(30) DEF MarkFailed, TypeOK
  <2>3. TypeOK'
    BY <2>1, <2>2 DEF TypeOK, FinalSteps, Steps
  <2>4. Program' /\ Sandbox' /\ Retirement'
    BY <2>1 DEF Program, Sandbox, Retirement
  <2>5. Papers' /\ InService'
    BY <2>1 DEF Program, Sandbox, Papers, BackedUp, Readable, InService
  <2>6. History'
    BY <2>1 DEF Program, History, Unsure, Verified
  <2>7. Vouched' /\ RemovedShellHasReceipt'
    BY <2>1
      DEF Program, Papers, Vouched, Readable, Sandbox, InService,
          RemovedShellHasReceipt, Stored
  <2> QED BY <2>3, <2>4, <2>5, <2>6, <2>7 DEF Inv
<1> QED BY <1>1, <1>2, <1>3, <1>4, <1>5, <1>6, <1>7 DEF Migrate

\* A stop retires the container and keeps the volume.
LEMMA RetireKeeps == Inv /\ Retire => Inv'
<1> SUFFICES ASSUME Inv, Retire PROVE Inv'
  OBVIOUS
<1> USE DEF Inv, Removing, Building, Opened, Retiring, Attached, BuildSteps,
            MigrateSteps, Reports
<1>1. CASE NothingToRetire
  <2>1. /\ pc = "retire"
        /\ pc' = IF rolling THEN "failed" ELSE "ok"
        /\ UNCHANGED <<config, active, container, volume, born, marker, backup,
                       receipt, failed, recorded, cmd, held, bound, fresh,
                       rolling, served, condemned, escaped, replaced, meddled>>
    BY <1>1 DEF NothingToRetire, Settle, Goto, docker, files, memory, history
  <2>2. TypeOK'
    BY <2>1 DEF TypeOK, FinalSteps, Steps
  <2>3. Program' /\ Sandbox' /\ Retirement'
    BY <2>1 DEF Program, Sandbox, Retirement
  <2>4. Papers' /\ InService'
    BY <2>1 DEF Program, Sandbox, Papers, BackedUp, Readable, InService
  <2>5. History'
    BY <2>1 DEF Program, History, Unsure, Verified
  <2>6. Vouched' /\ RemovedShellHasReceipt'
    BY <2>1
      DEF Program, Papers, Vouched, Readable, Sandbox, InService,
          RemovedShellHasReceipt, Stored
  <2> QED BY <2>2, <2>3, <2>4, <2>5, <2>6 DEF Inv
<1>2. CASE ReadMarker
  <2>1. /\ pc = "retire"
        /\ container # "absent"
        /\ \/ pc' = "halt" /\ Readable(marker) /\ held' = marker
           \/ pc' = "failed" /\ held' = held
        /\ UNCHANGED <<config, active, container, volume, born, marker, backup,
                       receipt, failed, recorded, cmd, bound, fresh, rolling,
                       served, condemned, escaped, replaced, meddled>>
    <3>1. /\ pc = "retire"
          /\ container # "absent"
          /\ UNCHANGED <<config, active, container, volume, born, marker,
                         backup, receipt, failed, recorded, cmd, bound, fresh,
                         rolling, served, condemned, escaped, replaced,
                         meddled>>
      BY <1>2 DEF ReadMarker, Goto, docker, files, memory, history
    <3>2.
          \/ pc' = "halt" /\ Readable(marker) /\ held' = marker
          \/ pc' = "failed" /\ held' = held
      BY <1>2 DEF ReadMarker, Goto
    <3> QED BY <3>1, <3>2
  <2>2. TypeOK'
    BY <2>1 DEF TypeOK, FinalSteps, Steps
  <2>3. Program' /\ Sandbox' /\ Retirement'
    BY <2>1 DEF Program, Sandbox, Retirement
  <2>4. Papers' /\ InService'
    BY <2>1 DEF Program, Sandbox, Papers, BackedUp, Readable, InService
  <2>5. History'
    BY <2>1 DEF Program, History, Unsure, Verified
  <2>6. Vouched' /\ RemovedShellHasReceipt'
    BY <2>1
      DEF Program, Papers, Vouched, Readable, Sandbox, InService,
          RemovedShellHasReceipt, Stored
  <2> QED BY <2>2, <2>3, <2>4, <2>5, <2>6 DEF Inv
<1>3. CASE Halt
  <2>1. /\ pc = "halt"
        /\ pc' = "back-up"
        /\ container # "absent"
        /\ container' = "stopped"
        /\ \E v \in volume : bound' = v.made
        /\ UNCHANGED <<config, active, volume, born, marker, backup, receipt,
                       failed, recorded, cmd, held, fresh, rolling, served,
                       condemned, escaped, replaced, meddled>>
    BY <1>3 DEF Halt, Goto, docker, files, memory, history
  <2>2. TypeOK'
    BY <2>1 DEF TypeOK, FinalSteps, Steps, Volumes
  <2>3. Program' /\ Sandbox'
    BY <2>1 DEF Program, Sandbox
  <2>4. Papers' /\ InService'
    BY <2>1 DEF Program, Sandbox, Papers, BackedUp, Readable, InService
  <2>5. Retirement'
    BY <2>1 DEF Program, Retirement, TypeOK
  <2>6. History'
    BY <2>1 DEF Program, History, Unsure, Verified
  <2>7. Vouched' /\ RemovedShellHasReceipt'
    BY <2>1
      DEF Program, Papers, Vouched, Readable, Sandbox, InService,
          RemovedShellHasReceipt, Stored
  <2> QED BY <2>2, <2>3, <2>4, <2>5, <2>6, <2>7 DEF Inv
<1>4. CASE ReadReceipt
  <2>1. /\ pc = "retire"
        /\ container = "absent"
        /\ \/ /\ pc' = "back-up" /\ Readable(marker) /\ receipt.state # "none"
              /\ held' = marker /\ bound' = receipt.made
              /\ \E v \in volume : v.made = bound'
           \/ pc' = "failed" /\ held' = held /\ bound' = bound
        /\ UNCHANGED <<config, active, container, volume, born, marker, backup,
                       receipt, failed, recorded, cmd, fresh, rolling, served,
                       condemned, escaped, replaced, meddled>>
    <3>1. /\ pc = "retire"
          /\ container = "absent"
          /\ UNCHANGED <<config, active, container, volume, born, marker,
                         backup, receipt, failed, recorded, cmd, fresh,
                         rolling, served, condemned, escaped, replaced,
                         meddled>>
      BY <1>4
        DEF ReadReceipt, Stored, Readable, Goto, docker, files, memory, history
    <3>2.
          \/ /\ pc' = "back-up" /\ Readable(marker) /\ receipt.state # "none"
             /\ held' = marker /\ bound' = receipt.made
             /\ \E v \in volume : v.made = bound'
          \/ pc' = "failed" /\ held' = held /\ bound' = bound
      BY <1>4 DEF ReadReceipt, Stored, Readable, Goto
    <3> QED BY <3>1, <3>2
  <2>2. TypeOK'
    BY <2>1 DEF TypeOK, FinalSteps, Steps, Receipts
  <2>3. Program' /\ Sandbox'
    BY <2>1 DEF Program, Sandbox
  <2>4. Papers' /\ InService'
    BY <2>1 DEF Program, Sandbox, Papers, BackedUp, Readable, InService
  <2>5. Retirement'
    BY <2>1 DEF Program, Retirement, TypeOK
  <2>6. History'
    BY <2>1 DEF Program, History, Unsure, Verified
  <2>7. Vouched' /\ RemovedShellHasReceipt'
    BY <2>1
      DEF Program, Papers, Vouched, Readable, Sandbox, InService,
          RemovedShellHasReceipt, Stored
  <2> QED BY <2>2, <2>3, <2>4, <2>5, <2>6, <2>7 DEF Inv
<1>5. CASE CreateBackup
  <2>1. /\ pc = "back-up"
        /\ pc' = "backing-up"
        /\ held.form = "plain"
        /\ backup' = [form |-> "torn", gen |-> 0, made |-> 0]
        /\ UNCHANGED <<config, active, container, volume, born, marker,
                       receipt, failed, recorded, cmd, held, bound, fresh,
                       rolling, served, condemned, escaped, replaced, meddled>>
    BY <1>5 DEF CreateBackup, Goto, docker, files, memory, history
  <2>2. TypeOK'
    BY <2>1, Blanks DEF TypeOK, FinalSteps, Steps
  <2>3. Program' /\ Sandbox' /\ Retirement'
    BY <2>1 DEF Program, Sandbox, Retirement
  <2>4. Papers'
    BY <2>1, Protection
      DEF Program, Sandbox, Papers, BackedUp, Readable, TypeOK, Retirement
  <2>5. InService'
    BY <2>1 DEF Program, Sandbox, Papers, InService, Readable
  <2>6. History'
    BY <2>1 DEF Program, History, Unsure, Verified
  <2>7. Vouched' /\ RemovedShellHasReceipt'
    BY <2>1
      DEF Program, Papers, Vouched, Readable, Sandbox, InService,
          RemovedShellHasReceipt, Stored
  <2> QED BY <2>2, <2>3, <2>4, <2>5, <2>6, <2>7 DEF Inv
<1>6. CASE WriteBackup
  <2>1. /\ pc = "backing-up"
        /\ pc' = "prepare"
        /\ backup' = held
        /\ UNCHANGED <<config, active, container, volume, born, marker,
                       receipt, failed, recorded, cmd, held, bound, fresh,
                       rolling, served, condemned, escaped, replaced, meddled>>
    BY <1>6 DEF WriteBackup, Goto, docker, files, memory, history
  <2>2. TypeOK'
    BY <2>1 DEF TypeOK, FinalSteps, Steps
  <2>3. Program' /\ Sandbox'
    BY <2>1 DEF Program, Sandbox
  <2>4. Papers'
    BY <2>1, Protection
      DEF Program, Sandbox, Papers, BackedUp, Readable, TypeOK, Retirement
  <2>5. InService'
    BY <2>1 DEF Program, Sandbox, Papers, InService, Readable
  <2>6. Retirement'
    BY <2>1, Protection DEF Program, Retirement, TypeOK
  <2>7. History'
    BY <2>1 DEF Program, History, Unsure, Verified
  <2>8. Vouched' /\ RemovedShellHasReceipt'
    BY <2>1
      DEF Program, Papers, Vouched, Readable, Sandbox, InService,
          RemovedShellHasReceipt, Stored
  <2> QED BY <2>2, <2>3, <2>4, <2>5, <2>6, <2>7, <2>8 DEF Inv
<1>7. CASE CheckBackup
  <2>1. /\ pc = "back-up"
        /\ pc' \in {"prepare", "failed"}
        /\ pc' = "prepare" => /\ backup.form = "plain"
                              /\ \/ backup = held
                                 \/ held.form = "retired" /\ Protect(backup) = held
        /\ UNCHANGED <<config, active, container, volume, born, marker, backup,
                       receipt, failed, recorded, cmd, held, bound, fresh,
                       rolling, served, condemned, escaped, replaced, meddled>>
    BY <1>7 DEF CheckBackup, Goto, docker, files, memory, history
  <2>2. TypeOK'
    BY <2>1 DEF TypeOK, FinalSteps, Steps
  <2>3. Program' /\ Sandbox'
    BY <2>1 DEF Program, Sandbox
  <2>4. Papers' /\ InService'
    BY <2>1 DEF Program, Sandbox, Papers, BackedUp, Readable, InService
  <2>5. Retirement'
    <3>1. held \in Markers /\ backup \in Markers
      BY DEF TypeOK
    <3>2. held.form = "retired" => Protect(held) = held
      BY <3>1, Protection
    <3>3. pc' = "prepare" => backup.form = "plain" /\ Protect(backup) = Protect(held)
      BY <2>1, <3>2
    <3> QED BY <2>1, <3>3 DEF Program, Retirement
  <2>6. History'
    BY <2>1 DEF Program, History, Unsure, Verified
  <2>7. Vouched' /\ RemovedShellHasReceipt'
    BY <2>1
      DEF Program, Papers, Vouched, Readable, Sandbox, InService,
          RemovedShellHasReceipt, Stored
  <2> QED BY <2>2, <2>3, <2>4, <2>5, <2>6, <2>7 DEF Inv
<1>8. CASE PrepareReceipt
  <2>1. /\ pc = "prepare"
        /\ pc' = "protect"
        /\ receipt' = [state |-> "prepared", made |-> bound,
                        sha |-> Protect(held), prior |-> held]
        /\ UNCHANGED <<config, active, container, volume, born, marker, backup,
                       failed, recorded, cmd, held, bound, fresh, rolling,
                       served, condemned, escaped, replaced, meddled>>
    BY <1>8 DEF PrepareReceipt, Goto, docker, files, memory, history
  <2>2. TypeOK'
    BY <2>1, Protection DEF TypeOK, FinalSteps, Steps, Receipts
  <2>3. Program' /\ Sandbox'
    BY <2>1 DEF Program, Sandbox
  <2>4. Papers' /\ InService'
    BY <2>1 DEF Program, Sandbox, Papers, BackedUp, Readable, InService
  <2>5. Retirement'
    BY <2>1, Protection DEF Program, Retirement, TypeOK
  <2>6. History'
    BY <2>1 DEF Program, History, Unsure, Verified
  <2>7. Vouched'
    BY <2>1 DEF Program, Papers, Vouched, Readable
  <2>8. RemovedShellHasReceipt'
    BY <2>1, Protection
      DEF Program, Sandbox, InService, RemovedShellHasReceipt, Stored,
          Readable, TypeOK, Retirement
  <2> QED BY <2>2, <2>3, <2>4, <2>5, <2>6, <2>7, <2>8 DEF Inv
<1>9. CASE ProtectMarker
  <2>1. /\ pc = "protect"
        /\ marker' = Protect(held)
        /\ pc' \in {"complete", "remove-shell"}
        /\ UNCHANGED <<config, active, container, volume, born, backup,
                       receipt, failed, recorded, cmd, held, bound, fresh,
                       rolling, served, condemned, escaped, replaced, meddled>>
    BY <1>9 DEF ProtectMarker, Goto, docker, files, memory, history
  <2>2. TypeOK'
    BY <2>1, Protection DEF TypeOK, FinalSteps, Steps
  <2>3. Program' /\ Sandbox'
    BY <2>1 DEF Program, Sandbox
  <2>4. Papers'
    BY <2>1, Protection
      DEF Program, Sandbox, Papers, BackedUp, Readable, TypeOK, Retirement
  <2>5. InService'
    BY <2>1, Protection
      DEF Program, Sandbox, Papers, InService, Readable, TypeOK, Retirement
  <2>6. Retirement'
    BY <2>1, Protection DEF Program, Retirement, TypeOK
  <2>7. History'
    BY <2>1 DEF Program, History, Unsure, Verified
  <2>8. Vouched'
    BY <2>1, Protection
      DEF Program, Papers, Vouched, Readable, TypeOK, Retirement
  <2>9. RemovedShellHasReceipt'
    BY <2>1, Protection
      DEF Program, Sandbox, InService, RemovedShellHasReceipt, Stored,
          Readable, TypeOK, Retirement
  <2> QED BY <2>2, <2>3, <2>4, <2>5, <2>6, <2>7, <2>8, <2>9 DEF Inv
<1>10. CASE RemoveShell
  <2>1. /\ pc = "remove-shell"
        /\ pc' = "complete"
        /\ container' = "absent"
        /\ UNCHANGED <<config, active, volume, born, marker, backup, receipt,
                       failed, recorded, cmd, held, bound, fresh, rolling,
                       served, condemned, escaped, replaced, meddled>>
    BY <1>10 DEF RemoveShell, Goto, docker, files, memory, history
  <2>2. TypeOK'
    BY <2>1 DEF TypeOK, FinalSteps, Steps
  <2>3. Program' /\ Sandbox' /\ Retirement'
    BY <2>1 DEF Program, Sandbox, Retirement
  <2>4. Papers' /\ InService'
    BY <2>1 DEF Program, Sandbox, Papers, BackedUp, Readable, InService
  <2>5. History'
    BY <2>1 DEF Program, History, Unsure, Verified
  <2>6. Vouched'
    BY <2>1 DEF Program, Papers, Vouched, Readable
  <2>7. RemovedShellHasReceipt'
    BY <2>1, Protection
      DEF Program, Sandbox, InService, RemovedShellHasReceipt, Stored,
          Readable, TypeOK, Retirement
  <2> QED BY <2>2, <2>3, <2>4, <2>5, <2>6, <2>7 DEF Inv
<1>11. CASE CompleteReceipt
  <2>1. /\ pc = "complete"
        /\ receipt' = [receipt EXCEPT !.state = "completed"]
        /\ pc' = IF rolling THEN "failed" ELSE "ok"
        /\ UNCHANGED <<config, active, container, volume, born, marker, backup,
                       failed, recorded, cmd, held, bound, fresh, rolling,
                       served, condemned, escaped, replaced, meddled>>
    BY <1>11 DEF CompleteReceipt, Settle, Goto, docker, files, memory, history
  <2>2. TypeOK'
    BY <2>1 DEF TypeOK, FinalSteps, Steps, Receipts
  <2>3. Program' /\ Sandbox'
    BY <2>1 DEF Program, Sandbox
  <2>4. Papers' /\ InService'
    BY <2>1 DEF Program, Sandbox, Papers, BackedUp, Readable, InService
  <2>5. Retirement'
    BY <2>1 DEF Program, Retirement, TypeOK, Receipts
  <2>6. History'
    BY <2>1 DEF Program, History, Unsure, Verified
  <2>7. Vouched'
    BY <2>1 DEF Program, Papers, Vouched, Readable
  <2>8. RemovedShellHasReceipt'
    BY <2>1
      DEF Program, Sandbox, InService, RemovedShellHasReceipt, Stored,
          Readable, TypeOK, Retirement, Receipts
  <2> QED BY <2>2, <2>3, <2>4, <2>5, <2>6, <2>7, <2>8 DEF Inv
<1> QED BY <1>1, <1>2, <1>3, <1>4, <1>5, <1>6, <1>7, <1>8, <1>9, <1>10, <1>11
  DEF Retire

\* Failures, deaths, another baseline, and the world around.
LEMMA EnvironmentKeeps == Inv /\ Environment => Inv'
<1> SUFFICES ASSUME Inv, Environment PROVE Inv'
  OBVIOUS
<1> USE DEF Inv, Removing, Building, Opened, Retiring, Attached, BuildSteps,
            MigrateSteps, Reports
<1>1. CASE RollBack
  <2>1. /\ pc \in BuildSteps \cup MigrateSteps
        /\ rolling' = TRUE
        /\ pc' \in {"mark-failed", "drop-container"}
        /\ pc' = "mark-failed" => pc \in MigrateSteps /\ config.tool = "native"
        /\ pc' = "drop-container" => pc \in BuildSteps \/ config.tool # "native"
        /\ UNCHANGED <<config, active, container, volume, born, marker, backup,
                       receipt, failed, recorded, cmd, held, bound, fresh,
                       served, condemned, escaped, replaced, meddled>>
    BY <1>1 DEF RollBack, Goto, docker, files, memory, history
  <2>2. TypeOK'
    BY <2>1 DEF TypeOK, FinalSteps, Steps
  <2>3. Program' /\ Sandbox' /\ Retirement'
    BY <2>1 DEF Program, Sandbox, Retirement
  <2>4. Papers'
    BY <2>1 DEF Program, Sandbox, Papers, BackedUp, Readable
  <2>5. InService'
    <3>1. config.tool \in {"sql", "native"}
      BY RuntimeAssumption DEF TypeOK
    <3>2. CASE pc \in BuildSteps
      BY <2>1, <3>2 DEF InService, Readable
    <3>3. CASE pc \in MigrateSteps
      BY <2>1, <3>1, <3>3 DEF Program, InService, Readable
    <3> QED BY <2>1, <3>2, <3>3
  <2>6. History'
    BY <2>1 DEF Program, History, Unsure, Verified
  <2>7. Vouched' /\ RemovedShellHasReceipt'
    BY <2>1
      DEF Program, Papers, Vouched, Readable, Sandbox, InService,
          RemovedShellHasReceipt, Stored
  <2> QED BY <2>2, <2>3, <2>4, <2>5, <2>6, <2>7 DEF Inv
<1>2. CASE Fail
  <2>1. /\ pc \notin BuildSteps \cup MigrateSteps \cup FinalSteps
        /\ pc' \in {"cleanup", "failed"}
        /\ escaped => escaped'
        /\ rolling /\ cmd = "migrate" => escaped'
        /\ UNCHANGED <<config, active, container, volume, born, marker, backup,
                       receipt, failed, recorded, cmd, held, bound, fresh,
                       rolling, served, condemned, replaced, meddled>>
    <3>1. /\ pc \notin BuildSteps \cup MigrateSteps \cup FinalSteps
          /\ pc' \in {"cleanup", "failed"}
          /\ UNCHANGED <<config, active, container, volume, born, marker,
                         backup, receipt, failed, recorded, cmd, held, bound,
                         fresh, rolling, served, condemned, replaced, meddled>>
      BY <1>2
        DEF Fail, Abandon, FinalSteps, Goto, docker, files, memory, history
    <3>2. /\ escaped => escaped'
          /\ rolling /\ cmd = "migrate" => escaped'
      BY <1>2, Zenon DEF Fail
    <3> QED BY <3>1, <3>2
  <2>2. escaped' \in BOOLEAN
    BY <1>2, ZenonT(30) DEF Fail, Abandon, TypeOK
  <2>3. TypeOK'
    BY <2>1, <2>2 DEF TypeOK, FinalSteps, Steps
  <2>4. Program'
    BY <2>1 DEF Program, FinalSteps
  <2>5. Sandbox' /\ Retirement'
    BY <2>1 DEF Program, Sandbox, Retirement
  <2>6. Papers' /\ InService'
    BY <2>1 DEF Program, Sandbox, Papers, BackedUp, Readable, InService
  <2>7. History'
    BY <2>1 DEF Program, History, Unsure, Verified, FinalSteps
  <2>8. Vouched' /\ RemovedShellHasReceipt'
    BY <2>1
      DEF Program, Papers, Vouched, Readable, Sandbox, InService,
          RemovedShellHasReceipt, Stored
  <2> QED BY <2>3, <2>4, <2>5, <2>6, <2>7, <2>8 DEF Inv
<1>3. CASE Crash
  <2>1. /\ cmd # "none"
        /\ cmd' = "none" /\ pc' = "idle"
        /\ held' = NoMarker /\ bound' = 0 /\ ~rolling'
        /\ escaped => escaped'
        /\ cmd = "migrate" /\ (rolling \/ pc \in MigrateSteps) => escaped'
        /\ UNCHANGED <<config, active, container, volume, born, marker, backup,
                       receipt, failed, recorded, served, condemned, replaced,
                       meddled>>
    <3>1. /\ cmd # "none"
          /\ cmd' = "none" /\ pc' = "idle"
          /\ held' = NoMarker /\ bound' = 0 /\ ~rolling'
          /\ UNCHANGED <<config, active, container, volume, born, marker,
                         backup, receipt, failed, recorded, served, condemned,
                         replaced, meddled>>
      BY <1>3 DEF Crash, Forget, Goto, docker, files, memory, history
    <3>2. /\ escaped => escaped'
          /\ cmd = "migrate" /\ (rolling \/ pc \in MigrateSteps) => escaped'
      BY <1>3, Zenon DEF Crash
    <3> QED BY <3>1, <3>2
  <2>2. fresh' \in BOOLEAN /\ rolling' \in BOOLEAN /\ escaped' \in BOOLEAN
    BY <1>3, ZenonT(30) DEF Crash, Forget, TypeOK
  <2>3. TypeOK'
    BY <2>1, <2>2, RuntimeAssumption, Blanks DEF TypeOK, FinalSteps, Steps
  <2>4. Program' /\ Sandbox' /\ Retirement'
    BY <2>1 DEF Program, Sandbox, Retirement
  <2>5. Papers' /\ InService'
    BY <2>1 DEF Program, Sandbox, Papers, BackedUp, Readable, InService
  <2>6. History'
    BY <2>1 DEF Program, History, Unsure, Verified
  <2>7. Vouched' /\ RemovedShellHasReceipt'
    BY <2>1
      DEF Program, Papers, Vouched, Readable, Sandbox, InService,
          RemovedShellHasReceipt, Stored
  <2> QED BY <2>3, <2>4, <2>5, <2>6, <2>7 DEF Inv
<1>4. CASE Refresh
  <2>1. /\ cmd = "none"
        /\ active < Generations
        /\ active' = active + 1
        /\ UNCHANGED <<config, container, volume, born, marker, backup,
                       receipt, failed, recorded, cmd, pc, held, bound, fresh,
                       rolling, served, condemned, escaped, replaced, meddled>>
    BY <1>4 DEF Refresh, Goto, docker, files, memory, history
  <2>2. TypeOK'
    BY <2>1, RuntimeAssumption DEF TypeOK, FinalSteps, Steps
  <2>3. Program' /\ Sandbox' /\ Retirement'
    BY <2>1 DEF Program, Sandbox, Retirement
  <2>4. Papers' /\ InService'
    BY <2>1 DEF Program, Sandbox, Papers, BackedUp, Readable, InService
  <2>5. History'
    BY <2>1 DEF Program, History, Unsure, Verified
  <2>6. Vouched' /\ RemovedShellHasReceipt'
    BY <2>1
      DEF Program, Papers, Vouched, Readable, Sandbox, InService,
          RemovedShellHasReceipt, Stored
  <2> QED BY <2>2, <2>3, <2>4, <2>5, <2>6 DEF Inv
<1>5. CASE EngineRestart
  <2>1. /\ container = "running"
        /\ container' = "stopped"
        /\ UNCHANGED <<config, active, volume, born, marker, backup, receipt,
                       failed, recorded, cmd, pc, held, bound, fresh, rolling,
                       served, condemned, escaped, replaced, meddled>>
    BY <1>5 DEF EngineRestart, Goto, docker, files, memory, history
  <2>2. TypeOK'
    BY <2>1 DEF TypeOK, FinalSteps, Steps
  <2>3. Program' /\ Sandbox' /\ Retirement'
    BY <2>1 DEF Program, Sandbox, Retirement
  <2>4. Papers' /\ InService'
    BY <2>1 DEF Program, Sandbox, Papers, BackedUp, Readable, InService
  <2>5. History'
    BY <2>1 DEF Program, History, Unsure, Verified
  <2>6. Vouched' /\ RemovedShellHasReceipt'
    BY <2>1
      DEF Program, Papers, Vouched, Readable, Sandbox, InService,
          RemovedShellHasReceipt, Stored
  <2> QED BY <2>2, <2>3, <2>4, <2>5, <2>6 DEF Inv
<1>6. CASE ForeignRemoval
  <2>1. /\ meddled' = TRUE
        /\ \/ container = "stopped" /\ container' = "absent" /\ volume' = volume
           \/ container = "absent" /\ volume' = {} /\ container' = container
        /\ UNCHANGED <<config, active, born, marker, backup, receipt, failed,
                       recorded, cmd, pc, held, bound, fresh, rolling, served,
                       condemned, escaped, replaced>>
    BY <1>6 DEF ForeignRemoval, Goto, docker, files, memory, history
  <2>2. TypeOK'
    BY <2>1 DEF TypeOK, FinalSteps, Steps
  <2>3. Program' /\ Sandbox' /\ Retirement'
    BY <2>1 DEF Program, Sandbox, Retirement
  <2>4. Papers' /\ InService'
    BY <2>1 DEF Program, Sandbox, Papers, BackedUp, Readable, InService
  <2>5. History'
    BY <2>1 DEF Program, History, Unsure, Verified
  <2>6. Vouched' /\ RemovedShellHasReceipt'
    BY <2>1
      DEF Program, Papers, Vouched, Readable, Sandbox, InService,
          RemovedShellHasReceipt, Stored
  <2> QED BY <2>2, <2>3, <2>4, <2>5, <2>6 DEF Inv
<1> QED BY <1>1, <1>2, <1>3, <1>4, <1>5, <1>6 DEF Environment

\* Every step of a command, and every step around it.
LEMMA Induction == Inv /\ [Next]_vars => Inv'
<1> SUFFICES ASSUME Inv, [Next]_vars PROVE Inv'
  OBVIOUS
<1>1. ASSUME NEW c \in Commands, Invoke(c) PROVE Inv'
  <2> USE DEF Inv, Removing, Building, Opened, Retiring, Attached, BuildSteps,
              MigrateSteps, Reports
  <2>1. /\ cmd = "none"
        /\ cmd' = c
        /\ config.protected => c \notin {"reset", "migrate", "discard"}
        /\ pc' \in {"drop-container", "retire", "open"}
        /\ pc' = "drop-container" => c \in {"reset", "discard"}
        /\ pc' = "retire" => c = "stop"
        /\ pc' = "open" => c \in {"start", "verify", "migrate"}
        /\ UNCHANGED <<config, active, container, volume, born, marker, backup,
                       receipt, failed, recorded, held, bound, fresh, rolling,
                       served, condemned, escaped, replaced, meddled>>
    BY <1>1 DEF Invoke, Entry, Commands, Goto, docker, files, memory, history
  <2>2. TypeOK'
    BY <2>1 DEF TypeOK, FinalSteps, Steps
  <2>3. Program' /\ Sandbox' /\ Retirement'
    BY <2>1 DEF Program, Sandbox, Retirement
  <2>4. Papers' /\ InService'
    BY <2>1 DEF Program, Sandbox, Papers, BackedUp, Readable, InService
  <2>5. History'
    BY <2>1 DEF Program, History, Unsure, Verified
  <2>6. Vouched' /\ RemovedShellHasReceipt'
    BY <2>1
      DEF Program, Papers, Vouched, Readable, Sandbox, InService,
          RemovedShellHasReceipt, Stored
  <2> QED BY <2>2, <2>3, <2>4, <2>5, <2>6 DEF Inv
<1>2. CASE Return
  <2> USE DEF Inv, Removing, Building, Opened, Retiring, Attached, BuildSteps,
              MigrateSteps, Reports
  <2>1. /\ pc \in {"ok", "failed"}
        /\ cmd' = "none" /\ pc' = "idle"
        /\ held' = NoMarker /\ bound' = 0 /\ ~rolling'
        /\ \/ served' = served
           \/ Reports /\ served' = served \cup {v.made : v \in volume}
        /\ UNCHANGED <<config, active, container, volume, born, marker, backup,
                       receipt, failed, recorded, condemned, escaped, replaced,
                       meddled>>
    BY <1>2 DEF Return, Forget, Goto, docker, files, memory, history
  <2>2. fresh' \in BOOLEAN /\ rolling' \in BOOLEAN
    BY <1>2, ZenonT(30) DEF Return, Forget, TypeOK
  <2>3. served' \subseteq 1 .. MaxVolumes /\ served' \subseteq 1 .. born
    <3>1. \A v \in volume : v.made \in 1 .. MaxVolumes /\ v.made \in 1 .. born
      BY RuntimeAssumption DEF TypeOK, Volumes, Sandbox
    <3> QED BY <2>1, <3>1 DEF TypeOK, Sandbox
  <2>4. TypeOK'
    BY <2>1, <2>2, <2>3, RuntimeAssumption, Blanks DEF TypeOK, FinalSteps, Steps
  <2>5. Program' /\ Retirement'
    BY <2>1 DEF Program, Retirement
  <2>6. Sandbox'
    BY <2>1, <2>3, RuntimeAssumption DEF Program, Sandbox, TypeOK
  <2>7. Papers' /\ InService'
    BY <2>1 DEF Program, Sandbox, Papers, BackedUp, Readable, InService
  <2>8. History'
    BY <2>1 DEF Program, History, Unsure, Verified
  <2>9. Vouched' /\ RemovedShellHasReceipt'
    BY <2>1
      DEF Program, Papers, Vouched, Readable, Sandbox, InService,
          RemovedShellHasReceipt, Stored
  <2> QED BY <2>4, <2>5, <2>6, <2>7, <2>8, <2>9 DEF Inv
<1>3. CASE UNCHANGED vars
  <2> USE DEF Inv, Removing, Building, Opened, Retiring, Attached, BuildSteps,
              MigrateSteps, Reports
  <2>1. UNCHANGED <<config, active, container, volume, born, marker, backup,
                    receipt, failed, recorded, cmd, pc, held, bound, fresh,
                    rolling, served, condemned, escaped, replaced, meddled>>
    BY <1>3 DEF vars, docker, files, memory, history
  <2>2. TypeOK'
    BY <2>1 DEF TypeOK, FinalSteps, Steps
  <2>3. Program' /\ Sandbox' /\ Retirement'
    BY <2>1 DEF Program, Sandbox, Retirement
  <2>4. Papers' /\ InService'
    BY <2>1 DEF Program, Sandbox, Papers, BackedUp, Readable, InService
  <2>5. History'
    BY <2>1 DEF Program, History, Unsure, Verified
  <2>6. Vouched' /\ RemovedShellHasReceipt'
    BY <2>1
      DEF Program, Papers, Vouched, Readable, Sandbox, InService,
          RemovedShellHasReceipt, Stored
  <2> QED BY <2>2, <2>3, <2>4, <2>5, <2>6 DEF Inv
<1> QED BY <1>1, <1>2, <1>3, RemoveKeeps, BuildKeeps, StartKeeps, MigrateKeeps,
          RetireKeeps, EnvironmentKeeps DEF Next

LEMMA Beginning == Init => Inv
<1> SUFFICES ASSUME Init PROVE Inv
  OBVIOUS
<1> USE DEF Init
<1>1. TypeOK
  <2>1. /\ 1 \in 1 .. Generations /\ 0 \in 0 .. MaxVolumes
        /\ "idle" \in Steps
    BY RuntimeAssumption DEF Steps, FinalSteps
  <2> QED BY <2>1, Blanks, Zenon DEF TypeOK
<1>2. Program /\ Sandbox /\ Papers /\ InService
  BY Blanks DEF Program, Sandbox, Papers, InService, Readable, BackedUp, Reports,
    Removing, Building, Opened, Retiring, Attached, BuildSteps, MigrateSteps
<1>3. Retirement /\ History /\ Vouched /\ RemovedShellHasReceipt
  BY Blanks DEF Retirement, History, Vouched, RemovedShellHasReceipt, Readable,
    Verified
<1> QED BY <1>1, <1>2, <1>3 DEF Inv

\* The inductive invariant holds throughout.
THEOREM Invariant == Spec => []Inv
<1>1. Init => Inv
  BY Beginning
<1>2. Inv /\ [Next]_vars => Inv'
  BY Induction
<1> QED BY <1>1, <1>2, PTL DEF Spec

-----------------------------------------------------------------------------
(* What a command finds, and what it reports.                              *)

\* Whatever is interrupted, a readable marker tells the truth about the
\* volume, the candidate receipt about its ledger, and a container that was
\* removed has left a receipt that start accepts.
THEOREM RecordsAreTrue == Spec => []RecordsVouch
<1>1. Inv => RecordsVouch
  BY DEF Inv, Papers, BackedUp, Vouched, RecordsVouch, MarkerVouches
<1> QED BY <1>1, Invariant, PTL

\* The step that ends a command well moves nothing else.
LEMMA EndMovesNothing ==
  Next /\ pc # "ok" /\ pc' = "ok" =>
    UNCHANGED <<config, active, container, volume, cmd, escaped, replaced, meddled>>
<1> SUFFICES ASSUME Next, pc # "ok", pc' = "ok"
             PROVE  UNCHANGED <<config, active, container, volume, cmd, escaped,
                                replaced, meddled>>
  OBVIOUS
<1> USE DEF Goto, docker, memory
<1>1. CASE \E c \in Commands : Invoke(c)
  BY <1>1 DEF Invoke, Entry
<1>2. CASE Return
  BY <1>2 DEF Return, Forget
<1>3. CASE Remove
  BY <1>3, Zenon DEF Remove, DropContainer, DropVolume, DropFile, Dropped, history
<1>4. CASE Build
  BY <1>4 DEF Build, MakeVolume, RunShell, Restore, TearMarker, WriteMarker, Built,
    history
<1>5. CASE Start
  BY <1>5 DEF Start, Open, Resume, Inspect, CreateShell, ConfirmShell, AwaitShell,
    Boot, Ready, StopStarted, Abandon, history
<1>6. CASE Migrate
  BY <1>6 DEF Migrate, VerifyLedger, BeginCandidate, EndCandidate, RecordCandidate,
    FinishMigration, Migrated, MarkFailed, history
<1>7. CASE Retire
  BY <1>7 DEF Retire, NothingToRetire, ReadMarker, Halt, ReadReceipt, CreateBackup,
    WriteBackup, CheckBackup, PrepareReceipt, ProtectMarker, RemoveShell,
    CompleteReceipt, history
<1>8. CASE Environment
  BY <1>8 DEF Environment, RollBack, Fail, Crash, Refresh, EngineRestart,
    ForeignRemoval, Abandon, Forget
<1> QED BY <1>1, <1>2, <1>3, <1>4, <1>5, <1>6, <1>7, <1>8 DEF Next

\* A command reports the runtime ready only over a complete restore of the
\* active baseline.
THEOREM ReadyIsRestored == Spec => ReadyMeansRestored
<1>1. Inv /\ Inv' /\ [Next]_vars =>
        [pc # "ok" /\ pc' = "ok" /\ cmd \notin {"stop", "discard"} =>
           replaced \/ /\ container # "absent" \/ meddled
                       /\ \A v \in volume : v.gen = active]_vars
  <2> SUFFICES ASSUME Inv', Next, pc # "ok", pc' = "ok",
                      cmd \notin {"stop", "discard"}, ~replaced
               PROVE  /\ container # "absent" \/ meddled
                      /\ \A v \in volume : v.gen = active
    BY DEF vars
  <2>1. UNCHANGED <<active, container, volume, cmd, replaced, meddled>>
    BY EndMovesNothing
  <2>2. /\ container' # "absent" \/ meddled'
        /\ Readable(marker)' /\ marker'.gen = active'
        /\ \A v \in volume' : v.gen = marker'.gen
    BY <2>1 DEF Inv, Sandbox, Papers, Vouched, Reports
  <2> QED BY <2>1, <2>2
<1> QED BY <1>1, Invariant, PTL DEF Spec, ReadyMeansRestored

\* What verify or migrate reports about the history is so of the data.
THEOREM VerifiedHistoryIsExact == Spec => VerifiedIsExact
<1>1. Inv' /\ [Next]_vars =>
        [pc # "ok" /\ pc' = "ok" /\ cmd \in {"verify", "migrate"} =>
           replaced \/ (config.tool = "sql" /\ escaped) \/ \A v \in volume : Exact(v)
          ]_vars
  <2> SUFFICES ASSUME Inv', Next, pc # "ok", pc' = "ok",
                      cmd \in {"verify", "migrate"},
                      ~(config.tool = "sql" /\ escaped)
               PROVE  \A v \in volume : Exact(v)
    BY DEF vars
  <2>1. UNCHANGED <<config, volume, cmd, escaped>>
    BY EndMovesNothing
  <2>2. config'.tool \in {"sql", "native"}
    BY RuntimeAssumption DEF Inv, TypeOK
  <2>3. Verified'
    BY <2>1 DEF Verified
  <2>4. \A v \in volume' : Exact(v)
    BY <2>1, <2>2, <2>3, Zenon DEF Inv, History, Verified
  <2> QED BY <2>1, <2>4
<1> QED BY <1>1, Invariant, PTL DEF Spec, VerifiedIsExact

\* Only a removal takes a volume away.
LEMMA VolumesStay ==
  Inv /\ Next /\ ~DropVolume /\ ~ForeignRemoval =>
    \A v \in volume : \E w \in volume' : w.made = v.made
<1> SUFFICES ASSUME Inv, Next, ~DropVolume, ~ForeignRemoval, NEW v \in volume
             PROVE  \E w \in volume' : w.made = v.made
  OBVIOUS
<1> USE DEF Goto, docker
<1>1. v \in Volumes /\ \A w \in volume : w = v
  BY DEF Inv, TypeOK
<1>2. CASE UNCHANGED volume
  BY <1>2
<1>3. CASE Remove
  BY <1>2, <1>3, Zenon DEF Remove, DropContainer, DropFile, Dropped
<1>4. CASE Build
  <2>1. CASE Restore
    <3>1. [v EXCEPT !.gen = active] \in volume'
      BY <2>1 DEF Restore
    <3> QED BY <1>1, <3>1 DEF Volumes
  <2> QED BY <1>2, <1>4, <2>1 DEF Build, MakeVolume, RunShell, Attach, TearMarker,
            WriteMarker, Built
<1>5. CASE Start
  BY <1>2, <1>5 DEF Start, Open, Resume, Inspect, CreateShell, Attach, ConfirmShell,
    AwaitShell, Boot, Ready, StopStarted
<1>6. CASE Migrate
  <2>1. CASE BeginCandidate
    <3>1. [v EXCEPT !.runs[v.ledger + 1] = @ + 1, !.torn = TRUE] \in volume'
      BY <1>1, <2>1 DEF BeginCandidate
    <3> QED BY <1>1, <3>1 DEF Volumes
  <2>2. CASE EndCandidate
    <3>1. [v EXCEPT !.torn = FALSE,
                    !.ledger = IF config.tool = "native" THEN @ + 1 ELSE @]
            \in volume'
      BY <2>2 DEF EndCandidate
    <3> QED BY <1>1, <3>1 DEF Volumes
  <2>3. CASE RecordCandidate
    <3>1. [v EXCEPT !.ledger = @ + 1] \in volume'
      BY <2>3 DEF RecordCandidate
    <3> QED BY <1>1, <3>1 DEF Volumes
  <2> QED BY <1>2, <1>6, <2>1, <2>2, <2>3 DEF Migrate, VerifyLedger,
            FinishMigration, Migrated, MarkFailed
<1>7. CASE Retire
  BY <1>2, <1>7 DEF Retire, NothingToRetire, ReadMarker, Halt, ReadReceipt,
    CreateBackup, WriteBackup, CheckBackup, PrepareReceipt, ProtectMarker,
    RemoveShell, CompleteReceipt
<1>8. CASE Environment
  BY <1>2, <1>8 DEF Environment, RollBack, Fail, Crash, Refresh, EngineRestart
<1>9. CASE (\E c \in Commands : Invoke(c)) \/ Return
  BY <1>2, <1>9 DEF Invoke, Return
<1> QED BY <1>3, <1>4, <1>5, <1>6, <1>7, <1>8, <1>9 DEF Next

\* Data that was in service is removed by what may replace it and by nothing
\* else, whatever fails or dies on the way.
THEOREM ServedDataIsKept == Spec => ServedDataKept
<1>1. Inv /\ [Next]_vars =>
        [\A v \in volume :
           v.made \in served /\ (\A w \in volume' : w.made # v.made) =>
             \/ meddled'
             \/ /\ ~config.protected
                /\ \/ cmd \in {"reset", "discard"}
                   \/ cmd = "migrate" /\ rolling /\ config.tool = "sql"]_vars
  <2> SUFFICES ASSUME Inv, Next, NEW v \in volume, v.made \in served,
                      \A w \in volume' : w.made # v.made, ~meddled'
               PROVE  /\ ~config.protected
                      /\ \/ cmd \in {"reset", "discard"}
                         \/ cmd = "migrate" /\ rolling /\ config.tool = "sql"
    BY DEF vars
  <2>1. DropVolume
    BY VolumesStay DEF ForeignRemoval
  <2>2. \/ cmd \in {"reset", "discard"}
        \/ cmd = "migrate" /\ rolling /\ config.tool = "sql"
    BY <2>1 DEF DropVolume, Inv, InService
  <2> QED BY <2>2 DEF Inv, Program
<1> QED BY <1>1, Invariant, PTL DEF Spec, ServedDataKept
=============================================================================
