------------------------------ MODULE BaselineStore -----------------------------
(***************************************************************************)
(* The private store of baseline generations (baseline/artifact.mts): one  *)
(* directory per generation, whole from the moment it is renamed into      *)
(* place, and one link that names the active one.  A removal is not one    *)
(* step: it deletes file by file.                                          *)
(*                                                                         *)
(* A generation's name is its time of creation and a random suffix; names  *)
(* are ordered as strings. A clock that steps back makes a new name that   *)
(* is smaller than an older one.                                           *)
(***************************************************************************)
EXTENDS Naturals, FiniteSets

CONSTANTS Names,    \* bound: names that generations may get, in their order
          Retain    \* retainBaselineGenerations

ASSUME StoreAssumption == Names \subseteq Nat /\ Retain \in Nat \ {0}

VARIABLES stored,   \* the generation directories and what is in them
          current,  \* the link to the active one
          building, \* whose build directory there is
          used      \* names given so far

storeVars == <<stored, current, building, used>>

Generations == DOMAIN stored

-----------------------------------------------------------------------------

ActiveIsNewest == CHOOSE g \in Generations : \A h \in Generations : h <= g

\* resolveActiveBaselinePaths.
ActiveGeneration == current

\* verifyActiveBaseline reads and hashes every file.
Verified(g) == g \in Generations /\ stored[g] = "whole"

\* The n last of a set of names in their order.
Latest(S, n) == {g \in S : Cardinality({h \in S : g < h}) < n}

\* planBaselineGenerationPrune: the active one first, then the latest.
PrunePlan ==
  LET others == Generations \ {ActiveGeneration}
  IN  others \ Latest(others, Retain - 1)

\* planBaselineReplacementPrune: the one to come is taken to be the latest.
ReplacementPlan == Generations \ Latest(Generations, Retain - 1)

StartBuild(kind) == building' = kind /\ UNCHANGED <<stored, current, used>>

\* The build directory is renamed into place when everything is in it.
FinishBuild(g) ==
  /\ g \in Names \ used
  /\ stored' = [h \in Generations \cup {g} |->
                  IF h = g THEN "whole" ELSE stored[h]]
  /\ used' = used \cup {g} /\ building' = "none"
  /\ UNCHANGED current

\* The catch of createAndActivateBaseline; its removal may fail.
GiveUpBuild ==
  building' \in {building, "none"} /\ UNCHANGED <<stored, current, used>>

\* activateBaselineGeneration reads the manifest, then renames a new link over
\* the old one.
ActivateGeneration(g) ==
  g \in Generations /\ current' = g /\ UNCHANGED <<stored, building, used>>

\* rm -r: some files are gone, then the directory is.
RemoveGeneration(g) ==
  /\ g \in Generations
  /\ stored' = IF stored[g] = "whole" THEN [stored EXCEPT ![g] = "torn"]
               ELSE [h \in Generations \ {g} |-> stored[h]]
  /\ UNCHANGED <<current, building, used>>
===============================================================================
