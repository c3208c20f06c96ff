---------------------------- MODULE RoomsClaims ----------------------------
(* What comments of the repository say of rooms and the code does not do. *)
EXTENDS Rooms

(* "A follow-up sent while this operation was running belongs to the       *)
(* harness ... Hand the next one to the ordinary channel runner as soon as *)
(* the channel is truly idle" (server/index.ts:1757).                      *)
FollowUpsLeaveAnIdleRoom == ~RoomWorking /\ ~redrain => Queued = {}

(* "A timed-out provider still owns the room thread until its interrupt    *)
(* produces turn.completed (or the stall watchdog's grace fallback runs).  *)
(* Do not clear busy or start the next member on that same thread early."  *)
(* (server/index.ts:5697).                                                 *)
NextMemberWaitsForTheStoppedOne ==
  \A t \in release : At("sent") => Here # ThreadOf(t)
============================================================================
