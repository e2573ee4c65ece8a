---------------------------- MODULE RuntimeTopology ----------------------------
(***************************************************************************)
(* Which configurations make up one project's stack of targets             *)
(* (runtime/lifecycle/topology.mts, topology_application_ports.mts): the   *)
(* primary's document names its dependents' documents, and the stack loads *)
(* only if no two targets would share a name, a port, a file or a          *)
(* directory they write to.                                                *)
(*                                                                         *)
(* A document is what loadRehearsalConfig makes of one file, which is      *)
(* itself outside this module.  A path is the sequence of its segments.    *)
(***************************************************************************)
EXTENDS Naturals, Sequences, SequencesExt

Absent == "absent"  \* a field whose value is null
PrimaryPath == "primary"  \* the file a command loads

TargetFrom(name, path, documents) ==
  [name |-> name, configPath |-> path, config |-> documents[path]]

\* The stack in its order: the primary, then the dependents as it names them.
StackOf(documents, path) ==
  LET dependents == documents[path].dependentTargets
  IN  <<TargetFrom("primary", path, documents)>> \o
      [i \in DOMAIN dependents |->
         TargetFrom(dependents[i].name, dependents[i].configPath, documents)]

NotNested(stack) ==
  \A i \in 2 .. Len(stack) : stack[i].config.dependentTargets = <<>>

StandaloneSqlite(stack) ==
  Len(stack) > 1 => \A i \in DOMAIN stack : stack[i].config.target # "sqlite"

\* A target by its own name, its file and its Compose project.
IdentitiesApart(stack) ==
  /\ IsInjective([i \in DOMAIN stack |-> stack[i].name])
  /\ IsInjective([i \in DOMAIN stack |-> stack[i].configPath])
  /\ IsInjective([i \in DOMAIN stack |-> stack[i].config.projectId])

\* Every port a target's services listen on, with whose it is.
Services(stack) ==
  UNION {{[target |-> i, kind |-> kind, port |-> stack[i].config.ports[kind]] :
             kind \in DOMAIN stack[i].config.ports} : i \in DOMAIN stack}

PortsApart(stack) ==
  \A s, u \in Services(stack) : s.port = u.port => s = u

\* Where a target's application is expected to answer: its address, that of
\* its readiness check if it has one, and those its profiles have.
Endpoints(config) ==
  {config.applicationUrl} \cup config.readiness \cup config.profiles

\* A URL without a port has the number 0 here.
EndpointPort(url) ==
  IF url.port # 0 THEN url.port ELSE IF url.scheme = "https" THEN 443 ELSE 80

ApplicationPortsApart(stack) ==
  \A i \in DOMAIN stack :
    \A url \in Endpoints(stack[i].config) :
      \A s \in Services(stack) : s.port # EndpointPort(url)

\* The file an application's environment is exported to, and the template a
\* Supabase project is started from, where there is one.
FilesApart(stack) ==
  /\ IsInjective([i \in DOMAIN stack |-> stack[i].config.applicationEnvironment])
  /\ \A i, j \in DOMAIN stack :
       /\ stack[i].config.rehearsalConfig # Absent
       /\ stack[i].config.rehearsalConfig = stack[j].config.rehearsalConfig
       => i = j

\* isInside: a directory is inside itself.
IsInside(parent, candidate) == IsPrefix(parent, candidate)

ArtifactsApart(stack) ==
  \A i, j \in DOMAIN stack :
    i # j => ~IsInside(stack[i].config.artifactDirectory,
                       stack[j].config.artifactDirectory)

\* loadRuntimeTopology throws where one of these fails.
TopologyLoads(documents, path) ==
  LET stack == StackOf(documents, path)
  IN  /\ NotNested(stack) /\ StandaloneSqlite(stack)
      /\ IdentitiesApart(stack)
      /\ PortsApart(stack) /\ ApplicationPortsApart(stack)
      /\ FilesApart(stack) /\ ArtifactsApart(stack)
================================================================================
