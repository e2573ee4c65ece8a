---------------------------- MODULE MCRuntimeSession ----------------------------
(***************************************************************************)
(* The projects of a run: a primary and one dependent that keep apart, and *)
(* two that both listen on one port.  Every way two targets can meet is    *)
(* checked on its own, before the run: none of these stacks loads.         *)
(***************************************************************************)
EXTENDS RuntimeSession

LOCAL Url(scheme, port) == [scheme |-> scheme, port |-> port]

LOCAL Main ==
  [target |-> "supabase", projectId |-> "main", dependentTargets |->
     <<[name |-> "ledger", configPath |-> "ledger"]>>,
   ports |-> [api |-> 1, database |-> 2, studio |-> 3],
   applicationUrl |-> Url("http", 100), readiness |-> {Url("http", 101)},
   profiles |-> {Url("http", 100)},
   applicationEnvironment |-> "main.env", rehearsalConfig |-> "main.toml",
   artifactDirectory |-> <<"app", ".rehearsal">>]

LOCAL Ledger ==
  [target |-> "postgresql", projectId |-> "ledger", dependentTargets |-> <<>>,
   ports |-> [database |-> 4],
   applicationUrl |-> Url("https", 0), readiness |-> {},
   profiles |-> {},
   applicationEnvironment |-> "ledger.env", rehearsalConfig |-> Absent,
   artifactDirectory |-> <<"app", "ledger", ".rehearsal">>]

LOCAL Documents(dependent) == [primary |-> Main, ledger |-> dependent]

ProjectFiles ==
  [apart   |-> Documents(Ledger),
   meeting |-> Documents([Ledger EXCEPT !.ports.database = 3])]

LOCAL Standalone ==
  [primary |-> [Main EXCEPT !.target = "sqlite", !.dependentTargets = <<>>]]

LOCAL MeetingDependents ==
  {[Ledger EXCEPT !.dependentTargets = <<[name |-> "x", configPath |-> "x"]>>],
   [Ledger EXCEPT !.target = "sqlite"],
   [Ledger EXCEPT !.projectId = "main"],
   [Ledger EXCEPT !.ports.database = 3],
   [Ledger EXCEPT !.ports.database = 101],
   [Ledger EXCEPT !.ports.database = 443],
   [Ledger EXCEPT !.applicationUrl = Url("http", 2)],
   [Ledger EXCEPT !.profiles = {Url("http", 4)}],
   [Ledger EXCEPT !.applicationEnvironment = "main.env"],
   [Ledger EXCEPT !.rehearsalConfig = "main.toml"],
   [Ledger EXCEPT !.artifactDirectory = <<"app", ".rehearsal">>],
   [Ledger EXCEPT !.artifactDirectory = <<"app", ".rehearsal", "ledger">>]}

ASSUME TopologiesAreSorted ==
  /\ TopologyLoads(ProjectFiles.apart, PrimaryPath)
  /\ TopologyLoads(Standalone, PrimaryPath)
  /\ \A d \in MeetingDependents : ~TopologyLoads(Documents(d), PrimaryPath)
================================================================================
