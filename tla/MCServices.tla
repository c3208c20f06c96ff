----------------------------- MODULE MCServices -----------------------------
(***************************************************************************)
(* Three subsystems that share no state, for one run: the first state      *)
(* chooses which of them works.                                            *)
(***************************************************************************)
EXTENDS Routines, DataDirLease, BoxCreation, TLC

CONSTANTS hourly, goal, c1, bot, room, a, b, c, d, k, x, y

OwnerOfEach == hourly :> bot @@ goal :> room
PeriodOf == [def \in {hourly, goal} |-> 1]
Plan(def, kind, action) ==
  [schedule |-> def :> kind, card |-> c1 :> [def |-> def, action |-> action]]
PlansOf == {Plan(hourly, "interval", "run_now"), Plan(hourly, "daily", "pause"),
            Plan(goal, "once", "delete")}
ParentOf == a :> NoProcess @@ b :> NoProcess @@ c :> NoProcess @@ d :> NoProcess @@ k :> a

VARIABLE part
servicesVars == <<part, routinesVars, leaseVars, boxVars>>

ServicesInit ==
  /\ RoutinesInit /\ LeaseInit /\ BoxInit
  /\ \/ part = "routines"
     \/ part \in {"lease", "boxes"} /\ plan = Plan(goal, "once", "delete")

ServicesNext ==
  \/ part = "routines" /\ RoutinesNext /\ UNCHANGED <<part, leaseVars, boxVars>>
  \/ part = "lease" /\ LeaseNext /\ UNCHANGED <<part, routinesVars, boxVars>>
  \/ part = "boxes" /\ BoxNext /\ UNCHANGED <<part, routinesVars, leaseVars>>

ServicesSpec == ServicesInit /\ [][ServicesNext]_servicesVars
=============================================================================
