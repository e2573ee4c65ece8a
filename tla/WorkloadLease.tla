---------------------------- MODULE WorkloadLease ----------------------------
(***************************************************************************)
(* What the workload queue promises to a participating project: one slot   *)
(* for guarded runtime work.  It is granted when free, given back by its   *)
(* holder, and survives the holder's death until a review finds that the   *)
(* work it covered is over.                                                *)
(***************************************************************************)
CONSTANT Requests

VARIABLES
  slot,   \* the request the slot is granted to, as a set of at most one
  lost,   \* the holder is dead
  busy    \* the request whose guarded work runs, as a set of at most one

vars == <<slot, lost, busy>>

Init == slot = {} /\ lost = FALSE /\ busy = {}

Grant(p) == slot = {} /\ slot' = {p} /\ UNCHANGED <<lost, busy>>

Begin == ~lost /\ busy = {} /\ slot # {} /\ busy' = slot /\ UNCHANGED <<slot, lost>>

End == busy # {} /\ busy' = {} /\ UNCHANGED <<slot, lost>>

GiveBack == ~lost /\ busy = {} /\ slot' = {} /\ UNCHANGED <<lost, busy>>

HolderDies == ~lost /\ slot # {} /\ lost' = TRUE /\ UNCHANGED <<slot, busy>>

Review == lost /\ busy = {} /\ slot' = {} /\ lost' = FALSE /\ UNCHANGED busy

Next ==
  (\E p \in Requests : Grant(p)) \/ Begin \/ End \/ GiveBack \/ HolderDies
  \/ Review

Spec == Init /\ [][Next]_vars
=============================================================================
