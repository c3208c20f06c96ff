------------------------- MODULE DelegationsClaims -------------------------
(***************************************************************************)
(* What the repository says of handoffs and the code does not do.          *)
(***************************************************************************)
EXTENDS Delegations

(* Every handoff that was queued is on its way or has an outcome: the      *)
(* delegating bot "must see a terminal state even when the channel or      *)
(* target is gone" (server/index.ts:3467-3468).  Two handoffs to one bot   *)
(* whose starts are refused in the same tick share one watch, and the      *)
(* first of them loses its receipt.                                        *)
HandoffsEndInAReceipt ==
  \A d \in queued \ (died \cup robbed) :
    \/ d \in pending \/ receipt[d] # "none"
    \/ \E b \in Bots : watch[b] = d
============================================================================
