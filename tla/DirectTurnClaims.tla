------------------------- MODULE DirectTurnClaims -------------------------
(***************************************************************************)
(* What comments of the repository say of direct turns and the code does   *)
(* not do.  Each formula is checked by a run of its own, which finds the   *)
(* behaviour that breaks it; README.md tells the stories.                  *)
(***************************************************************************)
EXTENDS DirectTurn

(* server/index.ts:2377-2380: "Keep ownership during that grace period so  *)
(* another turn cannot overlap the process we are stopping. The normal     *)
(* turn.completed fold clears it first".  The timer should then release    *)
(* only the turn that stalled.                                             *)
GraceReleasesItsOwnTurn ==
  [][\A g \in grace \ grace' : latest # g.turn => activity' = activity]_vars

(* server/steer-queue.ts:17-18: "stop-then-steer (queue a correction, hit  *)
(* Stop, the correction runs) is the feature": the correction that follows *)
(* a Stop is not refused because the stopped process holds the thread.     *)
CorrectionIsNotRefused == \A t \in Turns : provider[t] # "rejected"

(* server/turn-watchdog.ts:10-11: "Turns parked on a human approval are    *)
(* exempt — waiting on a person is not a stall."                           *)
ParkedTurnsAreExempt ==
  [][\A g \in grace' \ grace : g.turn # None => openAsks[g.turn] = 0]_vars
============================================================================
