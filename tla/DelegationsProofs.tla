------------------------- MODULE DelegationsProofs -------------------------
(***************************************************************************)
(* Proofs about Delegations, for any finite fleet of bots, any set of      *)
(* handoffs and any limits.                                                *)
(***************************************************************************)
EXTENDS Delegations, FiniteSetTheorems, TLAPS

USE RoutesAssumption, NoneAssumption

Holding == {"card", "settled", "started", "refused"}

(* A drain handles items of its own thread, each once per snapshot. *)
DrainsOwnItems ==
  \A b \in Bots :
    /\ left[b] \subseteq OfThread(Items, b)
    /\ stage[b] \in Holding =>
         item[b] \in Items /\ From[item[b]] = b /\ item[b] \notin left[b]

TypeInv == TypeOK /\ DrainsOwnItems

(* What was charged for the target's turn still waits for its end. *)
ChargedStillWaits == \A d \in charged : d \in waiting /\ Busy(To[d])

(* A handoff that has used up this life of the process is not met again. *)
Spent(d) == starts[d] = 1 + used.restarts

SpentIsOver ==
  /\ \A d \in Items : starts[d] <= 1 + used.restarts
  /\ \A d \in Items \ queued : starts[d] = 0
  /\ pending \subseteq queued
  /\ \A b \in Bots : left[b] \subseteq queued
  /\ \A b \in Bots : stage[b] \in Holding => item[b] \in queued
  /\ \A d \in Items : Spent(d) =>
       /\ d \notin left[From[d]]
       /\ item[From[d]] = d => stage[From[d]] # "card"
       /\ d \in pending => item[From[d]] = d /\ stage[From[d]] = "started"

(* A handoff that left its queue has its outcome, or a watch that will     *)
(* give it one, or is one of the three known losses.                        *)
Accounted(d) ==
  \/ receipt[d] # "none" \/ d \in died \cup refused \cup robbed
  \/ \E b \in Bots : watch[b] = d

AccountedFirst ==
  \A b \in Bots : stage[b] \in Holding \ {"card"} => Accounted(item[b])

------------------------------------------------------------------------------
(* Type correctness.                                                       *)

CountersTyped ==
  used \in [turns : 0..MaxTurns, restarts : 0..MaxUpsets, stalls : 0..MaxUpsets]

(* Bounded counters stay within their bounds. *)
LEMMA TurnsAreCounted ==
  ASSUME CountersTyped, NEW bs \in SUBSET Bots, TurnsBegin(bs)
  PROVE  CountersTyped' /\ used'.restarts = used.restarts
<1>1. Cardinality(bs) \in Nat
  BY BotsAssumption, FS_Subset, FS_CardinalityType
<1> QED
  BY <1>1, LimitsAssumption DEF CountersTyped, TurnsBegin

LEMMA UpsetsAreCounted ==
  ASSUME CountersTyped, moved \subseteq Bots, MoreUpsets
  PROVE  used.restarts + 1 \in 0..MaxUpsets /\ used.stalls + 1 \in 0..MaxUpsets
<1>1. Cardinality(moved) \in Nat
  BY BotsAssumption, FS_Subset, FS_CardinalityType
<1> QED
  BY <1>1, LimitsAssumption DEF CountersTyped, MoreUpsets

LEMMA ReloadsAreCounted ==
  ASSUME CountersTyped, moved \subseteq Bots, NEW again \in SUBSET Bots, Reload(again)
  PROVE  CountersTyped'
<1>1. Cardinality(again) \in Nat
  BY BotsAssumption, FS_Subset, FS_CardinalityType
<1>2. used.restarts + 1 \in 0..MaxUpsets
  BY UpsetsAreCounted DEF Reload
<1>3. used.turns \in Nat
  BY DEF CountersTyped
<1>4. used.turns + Cardinality(again) \in 0..MaxTurns
  BY <1>1, <1>3, LimitsAssumption DEF Reload
<1> QED
  BY <1>2, <1>4 DEF CountersTyped, Reload

(* A drain that begins takes a snapshot of its own thread. *)
LEMMA StartDrainsTyped ==
  ASSUME TypeInv, NEW bs \in SUBSET Bots, StartDrains(bs)
  PROVE  /\ stage' \in [Bots -> Stages] /\ item' = item
         /\ left' \in [Bots -> SUBSET Items] /\ snap' \in [Bots -> SUBSET Items]
         /\ redrain' \subseteq Bots
         /\ DrainsOwnItems'
BY DEF TypeInv, TypeOK, DrainsOwnItems, StartDrains, Redrained, OfThread, Stages, Holding

LEMMA TypeInit == Init => TypeInv
BY LimitsAssumption DEF Init, TypeInv, TypeOK, DrainsOwnItems, Stages, Holding, Outcomes,
   Graces, OfThread

(* Steps that leave the drains alone. *)
LEMMA EventsTyped ==
  ASSUME TypeInv, NEW b \in Bots,
         \/ BeginTurn(b) \/ Move(b) \/ Refuse(b) \/ Stall(b) \/ ReleasedSetupEnds(b)
         \/ \E next \in {"idle", "own"} : DispatchFails(b, next) \/ GraceEnds(b, next)
         \/ \E d \in Items, approved \in BOOLEAN : Queue(d, approved)
  PROVE  TypeInv'
<1> USE DEF TypeInv, TypeOK, DrainsOwnItems, queueVars, drainVars, history, outside
<1>1. CASE BeginTurn(b)
  BY <1>1, TurnsAreCounted DEF BeginTurn, Runs, Releases, CountersTyped, Graces
<1>2. CASE Move(b)
  BY <1>2 DEF Move
<1>3. CASE Refuse(b)
  BY <1>3 DEF Refuse
<1>4. ASSUME NEW next \in {"idle", "own"}, DispatchFails(b, next)
      PROVE  TypeInv'
  BY <1>4, TurnsAreCounted
  DEF DispatchFails, Continues, Releases, CountersTyped, Record, Unwatched, Outcomes
<1>5. ASSUME NEW d \in Items, NEW approved \in BOOLEAN, Queue(d, approved)
      PROVE  TypeInv'
  BY <1>5 DEF Queue
<1>6. CASE Stall(b)
  <2>1. CountersTyped'
    BY <1>6, UpsetsAreCounted DEF Stall, CountersTyped
  <2> QED
    BY <1>6, <2>1 DEF Stall, CountersTyped, Record, Unwatched, Outcomes, Graces
<1>7. CASE ReleasedSetupEnds(b)
  BY <1>7 DEF ReleasedSetupEnds, Record, Unwatched, Outcomes, Graces
<1>8. ASSUME NEW next \in {"idle", "own"}, GraceEnds(b, next)
      PROVE  TypeInv'
  <2>1. CASE Busy(b)
    <3>1. CountersTyped'
      BY <1>8, <2>1, TurnsAreCounted DEF GraceEnds, Continues, CountersTyped
    <3>2. /\ run' \in [Bots -> Items \cup {"idle", "own"}] /\ charged' \subseteq Items
      BY <1>8, <2>1 DEF GraceEnds, Continues, Releases
    <3>4. /\ retry' \subseteq Bots /\ fresh' \subseteq Items /\ survivors' \subseteq Items
      BY <1>8, <2>1 DEF GraceEnds, OfThread
    <3>5. robbed' \subseteq Items
      BY <1>8, <2>1 DEF GraceEnds, Watched
    <3>3. grace' \in [Bots -> Graces]
      BY <1>8, <2>1 DEF GraceEnds, Leaves, Graces
    <3> QED
      BY <1>8, <2>1, <3>1, <3>2, <3>3, <3>4, <3>5 DEF GraceEnds, CountersTyped
  <2>2. CASE ~Busy(b)
    BY <1>8, <2>2 DEF GraceEnds, Graces
  <2> QED
    BY <2>1, <2>2
<1> QED
  BY <1>1, <1>2, <1>3, <1>4, <1>5, <1>6, <1>7, <1>8

(* What the checks of processOne may change, and what a drain's steps do   *)
(* besides.                                                                *)
ChecksTyped ==
  /\ attempts \in [Items -> 0..MaxAttempts - 1] /\ waiting \subseteq Items
  /\ run \in [Bots -> Items \cup {"idle", "own"}]
  /\ watch \in [Bots -> Items \cup {None}] /\ grace \in [Bots -> Graces]
  /\ receipt \in [Items -> Outcomes \cup {"none"}]
  /\ charged \subseteq Items /\ refused \subseteq Items
  /\ starts \in [Items -> Nat]

DrainTyped ==
  /\ stage \in [Bots -> Stages] /\ item \in [Bots -> Items \cup {None}]
  /\ left \in [Bots -> SUBSET Items]
  /\ DrainsOwnItems

LEMMA StepVarsTyped ==
  ASSUME TypeInv, ChecksTyped', DrainTyped', UNCHANGED StepVars
  PROVE  TypeInv'
BY DEF TypeInv, TypeOK, ChecksTyped, DrainTyped, StepVars, outside

LEMMA UnreachableTyped ==
  ASSUME TypeInv, NEW b \in Bots, NEW d \in Items, Unreachable(b, d)
  PROVE  ChecksTyped' /\ \E s \in Stages : stage' = [stage EXCEPT ![b] = s]
BY DEF TypeInv, TypeOK, ChecksTyped, Unreachable, Record, Settled, Outcomes, Stages

LEMMA TargetBusyTyped ==
  ASSUME TypeInv, NEW b \in Bots, NEW d \in Items, TargetBusy(b, d)
  PROVE  ChecksTyped' /\ \E s \in Stages : stage' = [stage EXCEPT ![b] = s]
<1> USE DEF TypeInv, TypeOK, ChecksTyped, TargetBusy, Stages, Outcomes
<1>1. CASE Counted(d)
  BY <1>1
<1>2. CASE ~Counted(d) /\ ~LastAttempt(d)
  BY <1>2, LimitsAssumption DEF LastAttempt
<1>3. CASE ~Counted(d) /\ LastAttempt(d)
  BY <1>3 DEF Record
<1> QED
  BY <1>1, <1>2, <1>3

LEMMA DispatchedTyped ==
  ASSUME TypeInv, NEW b \in Bots, NEW d \in Items, Dispatched(b, d),
         attempts' = attempts, waiting' \subseteq Items
  PROVE  ChecksTyped' /\ \E s \in Stages : stage' = [stage EXCEPT ![b] = s]
<1> USE DEF TypeInv, TypeOK, ChecksTyped, Dispatched, Stages, Outcomes
<1>1. CASE To[d] \in refusing
  BY <1>1
<1>2. CASE To[d] \notin refusing
  <2>1. /\ run' \in [Bots -> Items \cup {"idle", "own"}] /\ charged' \subseteq Items
    BY <1>2 DEF Runs, Releases
  <2>4. grace' \in [Bots -> Graces]
    <3>1. /\ To[d] \in Bots /\ grace \in [Bots -> Graces]
          /\ \E g \in Graces : grace' = [grace EXCEPT ![To[d]] = g]
      BY <1>2 DEF Runs, Graces
    <3> QED
      BY <3>1
  <2>2. starts' \in [Items -> Nat] /\ watch' \in [Bots -> Items \cup {None}]
    BY <1>2
  <2>3. UNCHANGED <<receipt, refused>> /\ stage' = [stage EXCEPT ![b] = "started"]
    BY <1>2
  <2> QED
    BY <2>1, <2>2, <2>3, <2>4
<1> QED
  BY <1>1, <1>2

LEMMA TakeUpTyped ==
  ASSUME TypeInv, NEW b \in Bots, NEW d \in Items, TakeUp(b, d)
  PROVE  TypeInv'
<1>1. ChecksTyped' /\ \E s \in Stages : stage' = [stage EXCEPT ![b] = s]
  <2>1. CASE Unreachable(b, d)
    BY <2>1, UnreachableTyped
  <2>2. CASE TargetBusy(b, d)
    BY <2>2, TargetBusyTyped
  <2>3. CASE Dispatched(b, d) /\ waiting' = waiting \ {d} /\ attempts' = attempts
    <3>1. waiting' \subseteq Items
      BY <2>3 DEF TypeInv, TypeOK
    <3> QED
      BY <2>3, <3>1, DispatchedTyped
  <2>4. CASE /\ stage' = [stage EXCEPT ![b] = "card"]
             /\ waiting' = waiting \ {d} /\ attempts' = attempts
             /\ UNCHANGED <<run, watch, grace, receipt, charged, refused, starts>>
    BY <2>4 DEF TypeInv, TypeOK, ChecksTyped, Stages
  <2> QED
    BY <2>1, <2>2, <2>3, <2>4 DEF TakeUp
<1>2. DrainTyped'
  BY <1>1 DEF TypeInv, TypeOK, DrainsOwnItems, DrainTyped, TakeUp, OfThread, Holding
<1> QED
  BY <1>1, <1>2, StepVarsTyped DEF TakeUp

LEMMA AnswerCardTyped ==
  ASSUME TypeInv, NEW b \in Bots, NEW allow \in BOOLEAN, AnswerCard(b, allow)
  PROVE  TypeInv'
<1>1. item[b] \in Items
  BY DEF AnswerCard, TypeInv, DrainsOwnItems, Holding
<1>2. ChecksTyped' /\ \E s \in Stages : stage' = [stage EXCEPT ![b] = s]
  <2>1. CASE Unreachable(b, item[b])
    BY <1>1, <2>1, UnreachableTyped
  <2>2. CASE TargetBusy(b, item[b])
    BY <1>1, <2>2, TargetBusyTyped
  <2>3. CASE Dispatched(b, item[b]) /\ UNCHANGED <<waiting, attempts>>
    <3>1. waiting' \subseteq Items
      BY <2>3 DEF TypeInv, TypeOK
    <3> QED
      BY <1>1, <2>3, <3>1, DispatchedTyped
  <2>4. CASE /\ Record({item[b]}, "denied") /\ Settled(b)
             /\ UNCHANGED <<waiting, attempts, charged, refused, starts>>
    BY <2>4 DEF TypeInv, TypeOK, ChecksTyped, Record, Settled, Outcomes, Stages
  <2> QED
    BY <2>1, <2>2, <2>3, <2>4 DEF AnswerCard, AllowReads
<1>3. DrainTyped'
  BY <1>2 DEF TypeInv, TypeOK, DrainsOwnItems, DrainTyped, AnswerCard, OfThread, Holding
<1> QED
  BY <1>2, <1>3, StepVarsTyped DEF AnswerCard

(* The steps of a drain. *)
LEMMA DrainStepsTyped ==
  ASSUME TypeInv, NEW b \in Bots, Acknowledge(b) \/ DrainEnds(b) \/ Retry(b)
  PROVE  TypeInv'
<1> USE DEF TypeInv, TypeOK, queueVars, drainVars, history, outside
<1>1. CASE Acknowledge(b)
  BY <1>1
  DEF DrainsOwnItems, Acknowledge, Remaining, Record, Watched, Unwatched, Stages, Outcomes, Holding
<1>2. CASE DrainEnds(b)
  BY <1>2 DEF DrainsOwnItems, DrainEnds, OfThread, Stages, Holding
<1>3. CASE Retry(b)
  <2> DEFINE bs == {From[d] : d \in Held(b)}
  <2>1. bs \in SUBSET Bots
    BY DEF Held, ItemsFor
  <2> HIDE DEF bs
  <2>2. CASE Busy(b)
    BY <1>3, <2>2 DEF Retry, DrainsOwnItems
  <2>3. CASE ~Busy(b) /\ StartDrains(bs)
    BY <1>3, <2>1, <2>3, StartDrainsTyped DEF Retry
  <2> QED
    BY <1>3, <2>2, <2>3 DEF Retry, bs
<1> QED
  BY <1>1, <1>2, <1>3

(* The end of a turn. *)
LEMMA TurnEndsTyped ==
  ASSUME TypeInv, NEW b \in Bots, NEW ok \in BOOLEAN, NEW next \in {"idle", "own"},
         TurnEnds(b, ok, next) \/ LateTurnEnds(b, ok, next)
  PROVE  TypeInv'
<1> USE DEF TypeInv, TypeOK, queueVars, drainVars, Outcomes
<1>0. Completion(b, ok, next)
  BY DEF TurnEnds, LateTurnEnds
<1>1. CountersTyped'
  BY <1>0, TurnsAreCounted DEF Completion, Continues, CountersTyped
<1>2. /\ stage' \in [Bots -> Stages] /\ item' \in [Bots -> Items \cup {None}]
      /\ left' \in [Bots -> SUBSET Items] /\ snap' \in [Bots -> SUBSET Items]
      /\ redrain' \subseteq Bots
      /\ DrainsOwnItems'
  BY <1>0, StartDrainsTyped DEF Completion, DrainsOwnItems
<1>3. grace' \in [Bots -> Graces]
  BY DEF TurnEnds, LateTurnEnds, Graces
<1>4. /\ run' \in [Bots -> Items \cup {"idle", "own"}] /\ charged' \subseteq Items
      /\ watch' \in [Bots -> Items \cup {None}]
      /\ receipt' \in [Items -> Outcomes \cup {"none"}]
  BY <1>0 DEF Completion, Continues, Releases, Unwatched
<1> QED
  BY <1>0, <1>1, <1>2, <1>3, <1>4 DEF Completion, CountersTyped

(* The process or its provider fleet goes down. *)
LEMMA UpsetsTyped ==
  ASSUME TypeInv, Restart \/ \E again \in SUBSET Bots : Reload(again)
  PROVE  TypeInv'
<1> USE DEF TypeInv, TypeOK, DrainsOwnItems, queueVars, drainVars, Outcomes, Stages, Holding,
        Graces
<1>1. CASE Restart
  <2>1. CountersTyped'
    BY <1>1, UpsetsAreCounted DEF Restart, CountersTyped
  <2>2. DrainTyped' /\ snap' \in [Bots -> SUBSET Items]
    BY <1>1 DEF Restart, DrainTyped, OfThread
  <2>3. died' \subseteq Items
    BY <1>1 DEF Restart, Watched
  <2> QED
    BY <1>1, <2>1, <2>2, <2>3 DEF Restart, DrainTyped, CountersTyped
<1>2. ASSUME NEW again \in SUBSET Bots, Reload(again)
      PROVE  TypeInv'
  <2>2. CountersTyped'
    BY <1>2, ReloadsAreCounted DEF CountersTyped
  <2> QED
    BY <1>2, <2>2 DEF Reload, Record, Unwatched, CountersTyped
<1> QED
  BY <1>1, <1>2

LEMMA TypeStep == TypeInv /\ [Next]_vars => TypeInv'
<1> SUFFICES ASSUME TypeInv, [Next]_vars
             PROVE  TypeInv'
  OBVIOUS
<1>1. CASE UNCHANGED vars
  BY <1>1 DEF TypeInv, TypeOK, DrainsOwnItems, vars, queueVars, drainVars, history, outside
<1> QED
  BY <1>1, EventsTyped, TakeUpTyped, AnswerCardTyped, DrainStepsTyped, TurnEndsTyped,
     UpsetsTyped DEF Next, Microtask

(* The inductive type invariant: every variable is typed, and a drain is   *)
(* only ever at an item of its own thread that it will not meet again.     *)
THEOREM TypeInvariant == Spec => []TypeInv
<1> QED
  BY TypeInit, TypeStep, PTL DEF Spec

(* Every reachable state is well typed. *)
THEOREM TypeCorrect == Spec => []TypeOK
<1>1. TypeInv => TypeOK
  BY DEF TypeInv
<1> QED
  BY <1>1, TypeInvariant, PTL
------------------------------------------------------------------------------
(* Dispatch.                                                               *)

(* A drain's check either changes nothing outside the queue, or it has     *)
(* just seen that the target may be contacted and is free.                 *)
Checked(b, d) == Reachable(d) /\ ~Busy(To[d]) /\ Dispatched(b, d)

Check(b, d) == TakeUp(b, d) \/ (d = item[b] /\ \E allow \in BOOLEAN : AnswerCard(b, allow))

LEMMA ChecksMove ==
  ASSUME NEW b \in Bots, NEW d, Check(b, d)
  PROVE  /\ UNCHANGED <<run, watch, refused, starts>> \/ Checked(b, d)
         /\ UNCHANGED <<died, robbed>>
BY DEF Check, TakeUp, AnswerCard, AllowReads, Unreachable, TargetBusy, Settled, Checked, StepVars

LEMMA StepCases ==
  ASSUME TypeInv, [Next]_vars
  PROVE  \/ \E b \in Bots, d \in Items : Check(b, d)
         \/ UNCHANGED starts
<1>1. ASSUME NEW b \in Bots, NEW allow \in BOOLEAN, AnswerCard(b, allow)
      PROVE  \E d \in Items : Check(b, d)
  BY <1>1 DEF AnswerCard, TypeInv, DrainsOwnItems, Holding, Check
<1>2. ASSUME NEW b \in Bots, Microtask(b)
      PROVE  (\E d \in Items : Check(b, d)) \/ UNCHANGED starts
  BY <1>2 DEF Microtask, Check, Acknowledge, DrainEnds, Retry, history
<1>3. ASSUME NEW b \in Bots,
             BeginTurn(b) \/ Move(b) \/ Refuse(b) \/ Stall(b) \/ ReleasedSetupEnds(b)
      PROVE  UNCHANGED starts
  BY <1>3 DEF BeginTurn, Move, Refuse, Stall, ReleasedSetupEnds, history
<1>4. ASSUME NEW b \in Bots, NEW next \in {"idle", "own"},
             \/ DispatchFails(b, next) \/ GraceEnds(b, next)
             \/ \E ok \in BOOLEAN : TurnEnds(b, ok, next) \/ LateTurnEnds(b, ok, next)
      PROVE  UNCHANGED starts
  BY <1>4 DEF DispatchFails, GraceEnds, TurnEnds, LateTurnEnds, Completion
<1>5. ASSUME NEW d \in Items, NEW approved \in BOOLEAN, Queue(d, approved)
      PROVE  UNCHANGED starts
  BY <1>5 DEF Queue
<1>6. CASE Restart \/ \E again \in SUBSET Bots : Reload(again)
  BY <1>6 DEF Restart, Reload
<1>7. CASE UNCHANGED vars
  BY <1>7 DEF vars, history
<1> QED
  BY <1>1, <1>2, <1>3, <1>4, <1>5, <1>6, <1>7 DEF Next

(* A turn never starts for a handoff whose target is busy or out of its    *)
(* sender's reach at that moment, wherever the handoff was waiting.        *)
THEOREM StartsAreCheckedLast == Spec => DispatchIsCheckedLast
<1> DEFINE Step == \A d \in Items : starts'[d] # starts[d] => Reachable(d) /\ ~Busy(To[d])
<1>1. ASSUME TypeInv, [Next]_vars
      PROVE  Step
  <2>1. CASE UNCHANGED starts
    BY <2>1
  <2>2. ASSUME NEW b \in Bots, NEW e \in Items, Check(b, e)
        PROVE  Step
    <3>1. CASE UNCHANGED starts
      BY <3>1
    <3>2. CASE Checked(b, e)
      <4>1. starts' = starts \/ starts' = [starts EXCEPT ![e] = @ + 1]
        BY <3>2 DEF Checked, Dispatched
      <4>2. \A d \in Items : starts'[d] # starts[d] => d = e
        BY <1>1, <4>1 DEF TypeInv, TypeOK
      <4> QED
        BY <3>2, <4>2 DEF Checked
    <3> QED
      BY <2>2, <3>1, <3>2, ChecksMove
  <2> QED
    BY <1>1, <2>1, <2>2, StepCases
<1> QED
  BY <1>1, TypeInvariant, PTL DEF Spec, DispatchIsCheckedLast
------------------------------------------------------------------------------
(* The watch.                                                              *)

WatchInv == TypeInv /\ WatchIsOfTheRunningTurn

LEMMA WatchStep == WatchInv /\ [Next]_vars => WatchIsOfTheRunningTurn'
<1> SUFFICES ASSUME TypeInv, WatchIsOfTheRunningTurn, [Next]_vars
             PROVE  WatchIsOfTheRunningTurn'
  BY DEF WatchInv
<1> USE DEF TypeInv, TypeOK, WatchIsOfTheRunningTurn
<1>1. ASSUME NEW b \in Bots, NEW d \in Items, Check(b, d)
      PROVE  WatchIsOfTheRunningTurn'
  <2>0. UNCHANGED robbed
    BY <1>1, ChecksMove
  <2>1. CASE UNCHANGED <<run, watch, refused, starts>>
    BY <2>0, <2>1
  <2>2. CASE Checked(b, d) /\ To[d] \in refusing
    BY <2>0, <2>2 DEF Checked, Dispatched
  <2>3. CASE Checked(b, d) /\ To[d] \notin refusing
    BY <2>0, <2>3 DEF Checked, Dispatched, Runs, Releases
  <2> QED
    BY <1>1, <2>1, <2>2, <2>3, ChecksMove
<1>2. ASSUME NEW b \in Bots,
             \/ Acknowledge(b) \/ DrainEnds(b) \/ Retry(b) \/ Move(b) \/ Refuse(b)
             \/ Stall(b) \/ ReleasedSetupEnds(b)
      PROVE  WatchIsOfTheRunningTurn'
  BY <1>2
  DEF Acknowledge, Unwatched, DrainEnds, Retry, Move, Refuse, Stall, ReleasedSetupEnds, history
<1>3. ASSUME NEW b \in Bots, BeginTurn(b)
      PROVE  WatchIsOfTheRunningTurn'
  BY <1>3 DEF BeginTurn, Busy, Runs, Releases
<1>4. ASSUME NEW b \in Bots, NEW next \in {"idle", "own"},
             \/ DispatchFails(b, next)
             \/ \E ok \in BOOLEAN : TurnEnds(b, ok, next) \/ LateTurnEnds(b, ok, next)
      PROVE  WatchIsOfTheRunningTurn'
  BY <1>4
  DEF DispatchFails, TurnEnds, LateTurnEnds, Completion, Continues, Releases, Unwatched
<1>10. ASSUME NEW b \in Bots, NEW next \in {"idle", "own"}, GraceEnds(b, next)
       PROVE  WatchIsOfTheRunningTurn'
  <2>1. CASE Busy(b)
    <3>1. /\ run' = [run EXCEPT ![b] = next] /\ UNCHANGED <<watch, refused>>
          /\ robbed' = robbed \cup Watched(b)
      BY <1>10, <2>1 DEF GraceEnds, Continues, Releases
    <3> QED
      BY <3>1 DEF Watched
  <2>2. CASE ~Busy(b)
    BY <1>10, <2>2 DEF GraceEnds
  <2> QED
    BY <2>1, <2>2
<1>5. ASSUME NEW d \in Items, NEW approved \in BOOLEAN, Queue(d, approved)
      PROVE  WatchIsOfTheRunningTurn'
  BY <1>5 DEF Queue
<1>6. CASE Restart
  BY <1>6 DEF Restart
<1>7. ASSUME NEW again \in SUBSET Bots, Reload(again)
      PROVE  WatchIsOfTheRunningTurn'
  BY <1>7 DEF Reload, Unwatched, Busy
<1>8. CASE UNCHANGED vars
  BY <1>8 DEF vars, history
<1>9. ASSUME NEW b \in Bots, NEW allow \in BOOLEAN, AnswerCard(b, allow)
      PROVE  \E d \in Items : Check(b, d)
  BY <1>9 DEF AnswerCard, DrainsOwnItems, Holding, Check
<1> QED
  BY <1>1, <1>2, <1>3, <1>4, <1>5, <1>6, <1>7, <1>8, <1>9, <1>10 DEF Next, Microtask, Check

(* A turn's end is reported as the outcome of the handoff it ran: the      *)
(* watch of a bot never outlives the turn it was set for, unless that turn *)
(* was refused and is about to be reported as such, or the release timer   *)
(* of an earlier, stalled turn released it.                                *)
THEOREM WatchFollowsTheTurn == Spec => []WatchIsOfTheRunningTurn
<1>1. Init => WatchIsOfTheRunningTurn
  BY DEF Init, WatchIsOfTheRunningTurn
<1>2. WatchInv /\ [Next]_vars => WatchInv'
  BY TypeStep, WatchStep DEF WatchInv
<1>3. WatchInv => WatchIsOfTheRunningTurn
  BY DEF WatchInv
<1>4. Init => WatchInv
  BY <1>1, TypeInit DEF WatchInv
<1> QED
  BY <1>2, <1>3, <1>4, PTL DEF Spec
------------------------------------------------------------------------------
(* The bounded retries.                                                    *)

LEMMA ChargedStep ==
  ASSUME TypeInv, ChargedStillWaits, [Next]_vars
  PROVE  ChargedStillWaits'
<1> USE DEF TypeInv, TypeOK, ChargedStillWaits, Busy
<1>1. ASSUME NEW b \in Bots, NEW d \in Items, Check(b, d)
      PROVE  ChargedStillWaits'
  <2>1. CASE Unreachable(b, d)
    BY <2>1 DEF Unreachable, Settled
  <2>2. CASE TargetBusy(b, d)
    BY <2>2 DEF TargetBusy
  <2>3. CASE ~Busy(To[d]) /\ (waiting' = waiting \ {d} \/ UNCHANGED waiting)
             /\ UNCHANGED <<run, charged>>
    BY <2>3
  <2>4. CASE ~Busy(To[d]) /\ (waiting' = waiting \ {d} \/ UNCHANGED waiting)
             /\ Releases(To[d], d)
    BY <2>4 DEF Releases, ItemsFor
  <2>5. CASE UNCHANGED <<waiting, charged, run>>
    BY <2>5
  <2> QED
    BY <1>1, <2>1, <2>2, <2>3, <2>4, <2>5
    DEF Check, TakeUp, AnswerCard, AllowReads, Dispatched, Settled, Runs
<1>2. ASSUME NEW b \in Bots,
             \/ Acknowledge(b) \/ DrainEnds(b) \/ Move(b) \/ Refuse(b)
             \/ Stall(b) \/ ReleasedSetupEnds(b)
      PROVE  ChargedStillWaits'
  BY <1>2
  DEF Acknowledge, DrainEnds, Move, Refuse, Stall, ReleasedSetupEnds, history, queueVars
<1>3. ASSUME NEW b \in Bots, Retry(b)
      PROVE  ChargedStillWaits'
  BY <1>3 DEF Retry, ItemsFor, history
<1>4. ASSUME NEW b \in Bots, BeginTurn(b)
      PROVE  ChargedStillWaits'
  BY <1>4 DEF BeginTurn, Runs, Releases, ItemsFor, queueVars
<1>5. ASSUME NEW b \in Bots, NEW next \in {"idle", "own"},
             \/ DispatchFails(b, next) \/ GraceEnds(b, next)
             \/ \E ok \in BOOLEAN : TurnEnds(b, ok, next) \/ LateTurnEnds(b, ok, next)
      PROVE  ChargedStillWaits'
  <2>1. UNCHANGED waiting
    BY <1>5 DEF DispatchFails, GraceEnds, TurnEnds, LateTurnEnds, Completion, queueVars
  <2>2. Releases(b, next) \/ UNCHANGED <<run, charged>>
    BY <1>5 DEF DispatchFails, GraceEnds, TurnEnds, LateTurnEnds, Completion, Continues
  <2> QED
    BY <2>1, <2>2 DEF Releases, ItemsFor
<1>6. ASSUME NEW d \in Items, NEW approved \in BOOLEAN, Queue(d, approved)
      PROVE  ChargedStillWaits'
  BY <1>6 DEF Queue
<1>7. CASE Restart \/ \E again \in SUBSET Bots : Reload(again)
  BY <1>7 DEF Restart, Reload
<1>8. CASE UNCHANGED vars
  BY <1>8 DEF vars, history, queueVars
<1>9. ASSUME NEW b \in Bots, NEW allow \in BOOLEAN, AnswerCard(b, allow)
      PROVE  \E d \in Items : Check(b, d)
  BY <1>9 DEF AnswerCard, DrainsOwnItems, Holding, Check
<1> QED
  BY <1>1, <1>2, <1>3, <1>4, <1>5, <1>6, <1>7, <1>8, <1>9 DEF Next, Microtask, Check

KeepsCharge(d) ==
  /\ attempts'[d] = attempts[d]
  /\ receipt'[d] = "busy_gave_up" => receipt[d] = "busy_gave_up"

LEMMA ChargeStep ==
  ASSUME TypeInv, ChargedStillWaits, [Next]_vars, NEW d \in charged
  PROVE  KeepsCharge(d)
<1> USE DEF TypeInv, TypeOK, KeepsCharge
<1>1. ASSUME NEW b \in Bots, NEW e \in Items, Check(b, e)
      PROVE  KeepsCharge(d)
  <2>1. CASE Unreachable(b, e) /\ UNCHANGED attempts
    BY <2>1 DEF Unreachable, Record
  <2>2. CASE TargetBusy(b, e)
    <3>1. Counted(e) \/ d # e
      BY DEF ChargedStillWaits, Counted
    <3> QED
      BY <2>2, <3>1 DEF TargetBusy, Record
  <2>3. CASE UNCHANGED <<receipt, attempts>>
    BY <2>3
  <2>4. CASE Record({e}, "denied") /\ UNCHANGED attempts
    BY <2>4 DEF Record
  <2> QED
    BY <1>1, <2>1, <2>2, <2>3, <2>4
    DEF Check, TakeUp, AnswerCard, AllowReads, Dispatched, Unreachable
<1>2. ASSUME NEW b \in Bots, Acknowledge(b)
      PROVE  KeepsCharge(d)
  BY <1>2 DEF Acknowledge, Record
<1>3. ASSUME NEW b \in Bots,
             \/ DrainEnds(b) \/ Move(b) \/ Refuse(b) \/ Retry(b) \/ BeginTurn(b)
             \/ Stall(b) \/ ReleasedSetupEnds(b)
      PROVE  KeepsCharge(d)
  BY <1>3
  DEF DrainEnds, Move, Refuse, Retry, BeginTurn, Stall, ReleasedSetupEnds, Record, queueVars
<1>4. ASSUME NEW b \in Bots, NEW next \in {"idle", "own"},
             \/ DispatchFails(b, next) \/ GraceEnds(b, next)
             \/ \E ok \in BOOLEAN : TurnEnds(b, ok, next) \/ LateTurnEnds(b, ok, next)
      PROVE  KeepsCharge(d)
  BY <1>4 DEF DispatchFails, GraceEnds, TurnEnds, LateTurnEnds, Completion, Record, queueVars
<1>5. ASSUME NEW e \in Items, NEW approved \in BOOLEAN, Queue(e, approved)
      PROVE  KeepsCharge(d)
  BY <1>5 DEF Queue
<1>6. CASE Restart
  BY <1>6 DEF Restart, queueVars
<1>7. ASSUME NEW again \in SUBSET Bots, Reload(again)
      PROVE  KeepsCharge(d)
  BY <1>7 DEF Reload, Record, queueVars
<1>8. CASE UNCHANGED vars
  BY <1>8 DEF vars, queueVars
<1>9. ASSUME NEW b \in Bots, NEW allow \in BOOLEAN, AnswerCard(b, allow)
      PROVE  \E e \in Items : Check(b, e)
  BY <1>9 DEF AnswerCard, DrainsOwnItems, Holding, Check
<1> QED
  BY <1>1, <1>2, <1>3, <1>4, <1>5, <1>6, <1>7, <1>8, <1>9 DEF Next, Microtask, Check

(* A handoff is charged one attempt for each busy period of its target,    *)
(* however often its thread is drained while that period lasts.            *)
THEOREM BusyPeriodsAreCountedOnce == Spec => RetriesCountBusyPeriods
<1> DEFINE Inv == TypeInv /\ ChargedStillWaits
<1>1. Init => Inv
  BY TypeInit DEF Init, ChargedStillWaits
<1>2. Inv /\ [Next]_vars => Inv'
  BY TypeStep, ChargedStep
<1>3. Inv /\ [Next]_vars => \A d \in charged : KeepsCharge(d)
  BY ChargeStep
<1>4. (\A d \in charged : KeepsCharge(d)) <=>
      (\A d \in charged :
         /\ attempts'[d] = attempts[d]
         /\ receipt'[d] = "busy_gave_up" => receipt[d] = "busy_gave_up")
  BY DEF KeepsCharge
<1> QED
  BY <1>1, <1>2, <1>3, <1>4, PTL DEF Spec, RetriesCountBusyPeriods
------------------------------------------------------------------------------
(* One start in each life of the process.                                  *)

SpentInv == TypeInv /\ SpentIsOver

LEMMA SpentCheckStep ==
  ASSUME TypeInv, SpentIsOver, NEW b \in Bots, NEW d \in Items, Check(b, d)
  PROVE  SpentIsOver'
<1> USE DEF TypeInv, TypeOK, DrainsOwnItems, SpentIsOver, Spent, Holding
<1>0. /\ starts[d] <= used.restarts /\ d \in queued /\ From[d] = b /\ stage[b] \in {"next", "card"}
      /\ d \notin left'[b]
      /\ item' = [item EXCEPT ![b] = d]
      /\ \A c \in Bots : c # b => left'[c] = left[c]
      /\ left'[b] \subseteq left[b]
      /\ UNCHANGED <<pending, queued, used>>
  BY DEF Check, TakeUp, AnswerCard, StepVars, OfThread, outside
<1>1. /\ \E s \in Stages : stage' = [stage EXCEPT ![b] = s]
      /\ \/ UNCHANGED starts /\ (stage'[b] = "card" => stage[b] = "next")
         \/ starts' = [starts EXCEPT ![d] = @ + 1] /\ stage'[b] = "started"
  BY DEF Check, TakeUp, AnswerCard, AllowReads, Unreachable, TargetBusy, Dispatched, Settled,
         Stages
<1>2. /\ (d \in left[b] => ~Spent(d))
      /\ item'[b] = d /\ \A c \in Bots \ {b} : item'[c] = item[c] /\ stage'[c] = stage[c]
      /\ \A c \in Bots : left'[c] \subseteq left[c]
  BY <1>0, <1>1
<1>3. \A e \in Items : e # d => starts'[e] = starts[e]
  <2>1. starts \in [Items -> Nat]
    OBVIOUS
  <2> HIDE DEF TypeInv, TypeOK, DrainsOwnItems, SpentIsOver, Spent, Holding
  <2> QED
    BY <1>1, <2>1
<1>4. \/ starts'[d] = starts[d]
      \/ starts'[d] = starts[d] + 1 /\ stage'[b] = "started"
  <2>1. starts \in [Items -> Nat]
    OBVIOUS
  <2> HIDE DEF TypeInv, TypeOK, DrainsOwnItems, SpentIsOver, Spent, Holding
  <2> QED
    BY <1>1, <2>1
<1>5. starts'[d] <= 1 + used.restarts /\ (Spent(d) => starts'[d] = starts[d])
  BY <1>0, <1>4
<1> QED
  BY <1>0, <1>1, <1>2, <1>3, <1>4, <1>5

LEMMA SpentStartDrains ==
  ASSUME TypeInv, SpentIsOver, NEW bs \in SUBSET Bots, StartDrains(bs),
         pending' \subseteq pending, UNCHANGED <<queued, starts>>,
         used'.restarts = used.restarts
  PROVE  SpentIsOver'
<1> DEFINE begun == {b \in bs : stage[b] = "off" /\ OfThread(pending, b) # {}}
<1>1. /\ stage' = [b \in Bots |-> IF b \in begun THEN "next" ELSE stage[b]]
      /\ left' = [b \in Bots |-> IF b \in begun THEN OfThread(pending, b) ELSE left[b]]
      /\ item' = item
  BY DEF StartDrains
<1>2. \A d \in Items : Spent(d) /\ d \in pending => From[d] \notin begun
  BY DEF SpentIsOver
<1>3. \A b \in begun : left'[b] \subseteq pending /\ stage'[b] = "next"
  BY <1>1 DEF OfThread
<1>4. \A b \in Bots \ begun : left'[b] = left[b] /\ stage'[b] = stage[b]
  BY <1>1
<1> HIDE DEF begun
<1>5. \A b \in Bots : left'[b] \subseteq queued' /\ (stage'[b] \in Holding => item'[b] \in queued')
  BY <1>1, <1>3, <1>4 DEF SpentIsOver, Holding
<1>6. ASSUME NEW d \in Items, Spent(d)'
      PROVE  /\ d \notin left'[From[d]]
             /\ item'[From[d]] = d => stage'[From[d]] # "card"
             /\ d \in pending' => item'[From[d]] = d /\ stage'[From[d]] = "started"
  <2>1. Spent(d) /\ From[d] \in Bots
    BY <1>6 DEF Spent
  <2>2. CASE From[d] \in begun
    BY <1>1, <1>2, <1>3, <2>1, <2>2 DEF SpentIsOver
  <2>3. CASE From[d] \notin begun
    BY <1>1, <1>4, <2>1, <2>3 DEF SpentIsOver
  <2> QED
    BY <2>2, <2>3
<1> QED
  BY <1>5, <1>6 DEF SpentIsOver

LEMMA SpentStep == SpentInv /\ [Next]_vars => SpentIsOver'
<1> SUFFICES ASSUME TypeInv, SpentIsOver, [Next]_vars
             PROVE  SpentIsOver'
  BY DEF SpentInv
<1>1. ASSUME NEW b \in Bots, Acknowledge(b)
      PROVE  SpentIsOver'
  BY <1>1
  DEF Acknowledge, Remaining, history, outside, TypeInv, TypeOK, SpentIsOver, Spent, Holding
<1>2. ASSUME NEW b \in Bots, DrainEnds(b)
      PROVE  SpentIsOver'
  BY <1>2
  DEF DrainEnds, OfThread, queueVars, history, outside, TypeInv, TypeOK, SpentIsOver, Spent,
      Holding
<1>3. ASSUME NEW b \in Bots, Retry(b)
      PROVE  SpentIsOver'
  <2> DEFINE bs == {From[d] : d \in Held(b)}
  <2>1. bs \in SUBSET Bots
    BY DEF Held, ItemsFor, TypeInv, TypeOK
  <2> HIDE DEF bs
  <2>2. CASE Busy(b)
    BY <1>3, <2>2 DEF Retry, drainVars, history, outside, SpentIsOver, Spent
  <2>3. CASE ~Busy(b) /\ StartDrains(bs)
    BY <1>3, <2>1, <2>3, SpentStartDrains DEF Retry, history, outside
  <2> QED
    BY <1>3, <2>2, <2>3 DEF Retry, bs
<1>4. ASSUME NEW b \in Bots, BeginTurn(b) \/ Move(b) \/ Refuse(b)
      PROVE  SpentIsOver'
  <2>1. used'.restarts = used.restarts
    BY <1>4, TurnsAreCounted DEF BeginTurn, Move, Refuse, TypeInv, TypeOK, CountersTyped, outside
  <2> QED
    BY <1>4, <2>1
    DEF BeginTurn, Move, Refuse, queueVars, drainVars, history, SpentIsOver, Spent
<1>5. ASSUME NEW b \in Bots, NEW next \in {"idle", "own"}, DispatchFails(b, next)
      PROVE  SpentIsOver'
  <2>1. used'.restarts = used.restarts
    BY <1>5, TurnsAreCounted DEF DispatchFails, Continues, TypeInv, TypeOK, CountersTyped
  <2> QED
    BY <1>5, <2>1 DEF DispatchFails, queueVars, drainVars, SpentIsOver, Spent
<1>12. ASSUME NEW b \in Bots, NEW next \in {"idle", "own"}, GraceEnds(b, next)
       PROVE  SpentIsOver'
  <2>1. used'.restarts = used.restarts
    BY <1>12, TurnsAreCounted DEF GraceEnds, Continues, TypeInv, TypeOK, CountersTyped
  <2> QED
    BY <1>12, <2>1 DEF GraceEnds, queueVars, drainVars, SpentIsOver, Spent
<1>13. ASSUME NEW b \in Bots, Stall(b) \/ ReleasedSetupEnds(b)
       PROVE  SpentIsOver'
  <2>1. used'.restarts = used.restarts
    BY <1>13 DEF Stall, ReleasedSetupEnds, TypeInv, TypeOK, outside
  <2> QED
    BY <1>13, <2>1
    DEF Stall, ReleasedSetupEnds, queueVars, drainVars, history, SpentIsOver, Spent
<1>6. ASSUME NEW b \in Bots, NEW ok \in BOOLEAN, NEW next \in {"idle", "own"},
             TurnEnds(b, ok, next) \/ LateTurnEnds(b, ok, next)
      PROVE  SpentIsOver'
  <2>0. Completion(b, ok, next)
    BY <1>6 DEF TurnEnds, LateTurnEnds
  <2>1. used'.restarts = used.restarts
    BY <2>0, TurnsAreCounted DEF Completion, Continues, TypeInv, TypeOK, CountersTyped
  <2>2. pending' \subseteq pending /\ UNCHANGED <<queued, starts>>
    BY <2>0 DEF Completion
  <2>3. CASE StartDrains({b})
    BY <2>1, <2>2, <2>3, SpentStartDrains
  <2>4. CASE UNCHANGED drainVars
    BY <2>1, <2>2, <2>4 DEF drainVars, SpentIsOver, Spent
  <2> QED
    BY <2>0, <2>3, <2>4 DEF Completion
<1>7. ASSUME NEW d \in Items, NEW approved \in BOOLEAN, Queue(d, approved)
      PROVE  SpentIsOver'
  BY <1>7 DEF Queue, drainVars, outside, TypeInv, TypeOK, SpentIsOver, Spent
<1>8. CASE Restart
  BY <1>8 DEF Restart, queueVars, OfThread, TypeInv, TypeOK, SpentIsOver, Spent, Holding
<1>9. ASSUME NEW again \in SUBSET Bots, Reload(again)
      PROVE  SpentIsOver'
  BY <1>9 DEF Reload, queueVars, drainVars, TypeInv, TypeOK, SpentIsOver, Spent
<1>10. CASE UNCHANGED vars
  BY <1>10 DEF vars, queueVars, drainVars, history, outside, SpentIsOver, Spent
<1>11. ASSUME NEW b \in Bots, NEW allow \in BOOLEAN, AnswerCard(b, allow)
      PROVE  \E e \in Items : Check(b, e)
  BY <1>11 DEF AnswerCard, TypeInv, DrainsOwnItems, Holding, Check
<1> QED
  BY <1>1, <1>2, <1>3, <1>4, <1>5, <1>6, <1>7, <1>8, <1>9, <1>10, <1>11, <1>12, <1>13,
     SpentCheckStep
  DEF Next, Microtask, Check

(* Whatever is retried, drained again or answered late, a handoff starts   *)
(* one turn in each life of the process and its provider fleet.            *)
THEOREM HandoffsRunOnce == Spec => []HandoffsStartOnce
<1>1. Init => SpentInv
  <2>1. Init => SpentIsOver
    BY DEF Init, SpentIsOver, Spent, Holding
  <2> QED
    BY <2>1, TypeInit DEF SpentInv
<1>2. SpentInv /\ [Next]_vars => SpentInv'
  BY TypeStep, SpentStep DEF SpentInv
<1>3. SpentInv => HandoffsStartOnce
  BY DEF SpentInv, SpentIsOver, HandoffsStartOnce
<1> QED
  BY <1>1, <1>2, <1>3, PTL DEF Spec
------------------------------------------------------------------------------
(* Nothing is forgotten.                                                   *)

AccountInv == WatchInv /\ AccountedFirst /\ NothingIsForgotten

KeepsAccounts == \A d \in Items : Accounted(d) => Accounted(d)'

(* A check that settles its item accounts for it; a watch it replaces was  *)
(* that of a refused start, or of a turn that a timer released.            *)
LEMMA CheckAccounts ==
  ASSUME TypeInv, WatchIsOfTheRunningTurn, NEW b \in Bots, NEW d \in Items, Check(b, d)
  PROVE  /\ KeepsAccounts
         /\ stage'[b] \in {"settled", "started", "refused"} => Accounted(d)'
         /\ item' = [item EXCEPT ![b] = d]
         /\ \A c \in Bots : c # b => stage'[c] = stage[c]
         /\ UNCHANGED <<pending, queued>>
<1> USE DEF TypeInv, TypeOK, DrainsOwnItems, KeepsAccounts, Accounted, Holding
<1>1. /\ item' = [item EXCEPT ![b] = d] /\ UNCHANGED <<pending, queued, died, robbed>>
      /\ To[d] \in Bots
  BY DEF Check, TakeUp, AnswerCard, StepVars
<1>2. CASE Unreachable(b, d)
  BY <1>1, <1>2 DEF Unreachable, Record, Settled
<1>3. CASE TargetBusy(b, d)
  BY <1>1, <1>3 DEF TargetBusy, Record
<1>4. CASE Dispatched(b, d) /\ ~Busy(To[d])
  <2>1. watch[To[d]] # None => watch[To[d]] \in refused \cup robbed
    BY <1>1, <1>4 DEF WatchIsOfTheRunningTurn, Busy
  <2> QED
    BY <1>1, <1>4, <2>1 DEF Dispatched
<1>5. CASE Record({d}, "denied") /\ Settled(b) /\ UNCHANGED refused
  BY <1>1, <1>5 DEF Record, Settled
<1>6. CASE /\ stage' = [stage EXCEPT ![b] = "card"]
           /\ UNCHANGED <<watch, receipt, refused>>
  BY <1>1, <1>6
<1> QED
  BY <1>1, <1>2, <1>3, <1>4, <1>5, <1>6 DEF Check, TakeUp, AnswerCard, AllowReads

(* Consuming a watch leaves the receipt in its place. *)
LEMMA FinalizeAccounts ==
  ASSUME TypeInv, NEW bs \in SUBSET Bots,
         watch' = Unwatched(bs), receipt' \in [Items -> Outcomes \cup {"none"}],
         \A b \in bs : watch[b] # None => receipt'[watch[b]] # "none",
         \A d \in Items : receipt[d] # "none" => receipt'[d] # "none",
         UNCHANGED <<died, refused>>, robbed \subseteq robbed'
  PROVE  KeepsAccounts
BY DEF TypeInv, TypeOK, Unwatched, KeepsAccounts, Accounted

LEMMA AccountStep == AccountInv /\ [Next]_vars => AccountedFirst' /\ NothingIsForgotten'
<1> SUFFICES ASSUME TypeInv, WatchIsOfTheRunningTurn, AccountedFirst, NothingIsForgotten,
                    [Next]_vars
             PROVE  AccountedFirst' /\ NothingIsForgotten'
  BY DEF AccountInv, WatchInv
<1> DEFINE Good == AccountedFirst' /\ NothingIsForgotten'
<1>1. \A d \in queued : d \in pending \/ Accounted(d)
  BY DEF NothingIsForgotten, Accounted
<1>2. ASSUME \A d \in queued' : d \in pending' \/ Accounted(d)'
      PROVE  NothingIsForgotten'
  BY <1>2 DEF NothingIsForgotten, Accounted
<1>3. ASSUME NEW b \in Bots, NEW d \in Items, Check(b, d)
      PROVE  Good
  <2>1. KeepsAccounts
    BY <1>3, CheckAccounts
  <2>2. AccountedFirst'
    BY <1>3, <2>1, CheckAccounts
    DEF AccountedFirst, KeepsAccounts, Holding, TypeInv, TypeOK, DrainsOwnItems
  <2>3. \A d2 \in queued' : d2 \in pending' \/ Accounted(d2)'
    BY <1>1, <1>3, <2>1, CheckAccounts DEF KeepsAccounts, TypeInv, TypeOK
  <2> QED
    BY <1>2, <2>2, <2>3
(* Steps of a drain, and events that leave every drain where it is. *)
<1>4. ASSUME KeepsAccounts,
             \A b \in Bots : \/ stage'[b] = stage[b] /\ item'[b] = item[b]
                             \/ stage'[b] \in {"off", "next", "card"},
             \A d \in queued' : d \in queued \/ d \in pending',
             \A d \in pending \ pending' : Accounted(d) \/ receipt'[d] # "none"
      PROVE  Good
  <2>1. AccountedFirst'
    BY <1>4 DEF AccountedFirst, KeepsAccounts, Holding, TypeInv, DrainsOwnItems
  <2>2. \A d \in queued' : d \in pending' \/ Accounted(d)'
    BY <1>1, <1>4 DEF KeepsAccounts, TypeInv, TypeOK, Accounted
  <2> QED
    BY <1>2, <2>1, <2>2
<1>5. ASSUME NEW b \in Bots, Acknowledge(b)
      PROVE  Good
  <2>1. KeepsAccounts
    <3>1. CASE stage[b] = "refused"
      <4> DEFINE t == To[item[b]]
      <4>1. t \in Bots /\ Watched(t) \subseteq Items
        BY <1>5, <3>1 DEF TypeInv, TypeOK, DrainsOwnItems, Holding, Watched
      <4>2. /\ watch' = Unwatched({t}) /\ UNCHANGED <<died, refused, robbed>>
            /\ receipt' = [d \in Items |-> IF d \in Watched(t) THEN "failed" ELSE receipt[d]]
        BY <1>5, <3>1 DEF Acknowledge, Record, history
      <4>3. /\ \A c \in {t} : watch[c] # None => receipt'[watch[c]] # "none"
            /\ receipt' \in [Items -> Outcomes \cup {"none"}]
            /\ \A d \in Items : receipt[d] # "none" => receipt'[d] # "none"
        BY <4>1, <4>2 DEF TypeInv, TypeOK, Watched, Outcomes
      <4> QED
        BY <4>1, <4>2, <4>3, FinalizeAccounts
    <3>2. CASE stage[b] # "refused"
      BY <1>5, <3>2 DEF Acknowledge, KeepsAccounts, Accounted, history
    <3> QED
      BY <3>1, <3>2
  <2>2. \A d \in pending \ pending' : Accounted(d)
    BY <1>5 DEF Acknowledge, Remaining, AccountedFirst, Holding
  <2>3. queued' = queued /\ item' = item /\ stage' = [stage EXCEPT ![b] = "next"]
    BY <1>5 DEF Acknowledge, history
  <2> QED
    BY <1>4, <2>1, <2>2, <2>3 DEF TypeInv, TypeOK
<1>6. ASSUME NEW b \in Bots, DrainEnds(b) \/ Retry(b)
      PROVE  Good
  <2>1. UNCHANGED <<pending, queued, receipt, watch, died, refused, robbed>>
    BY <1>6 DEF DrainEnds, Retry, queueVars, history
  <2>2. \A c \in Bots : \/ stage'[c] = stage[c] /\ item'[c] = item[c]
                        \/ stage'[c] \in {"off", "next", "card"}
    BY <1>6 DEF DrainEnds, Retry, StartDrains, drainVars, TypeInv, TypeOK
  <2>3. KeepsAccounts
    BY <2>1 DEF KeepsAccounts, Accounted
  <2> QED
    BY <1>4, <2>1, <2>2, <2>3
<1>7. ASSUME NEW b \in Bots, BeginTurn(b) \/ Move(b) \/ Refuse(b)
      PROVE  Good
  <2>1. UNCHANGED <<pending, queued, receipt, watch, died, refused, robbed, stage, item>>
    BY <1>7 DEF BeginTurn, Move, Refuse, queueVars, drainVars, history
  <2>2. KeepsAccounts
    BY <2>1 DEF KeepsAccounts, Accounted
  <2> QED
    BY <1>4, <2>1, <2>2
<1>8. ASSUME NEW b \in Bots,
             \/ \E next \in {"idle", "own"} : DispatchFails(b, next)
             \/ Stall(b) \/ ReleasedSetupEnds(b)
      PROVE  Good
  <2>1. /\ watch' = Unwatched({b})
        /\ receipt' = [d \in Items |-> IF d \in Watched(b) THEN "failed" ELSE receipt[d]]
        /\ UNCHANGED <<pending, queued, died, refused, robbed, stage, item>>
    BY <1>8
    DEF DispatchFails, Stall, ReleasedSetupEnds, Record, queueVars, drainVars, history
  <2>2. /\ watch[b] # None => receipt'[watch[b]] # "none"
        /\ receipt' \in [Items -> Outcomes \cup {"none"}]
        /\ \A d \in Items : receipt[d] # "none" => receipt'[d] # "none"
    BY <2>1 DEF TypeInv, TypeOK, Watched, Outcomes
  <2>3. KeepsAccounts
    BY <2>1, <2>2, FinalizeAccounts
  <2> QED
    BY <1>4, <2>1, <2>3
<1>15. ASSUME NEW b \in Bots, NEW next \in {"idle", "own"}, GraceEnds(b, next)
       PROVE  Good
  <2>1. UNCHANGED <<pending, queued, receipt, watch, died, refused, stage, item>>
    BY <1>15 DEF GraceEnds, queueVars, drainVars
  <2>2. robbed \subseteq robbed'
    BY <1>15 DEF GraceEnds
  <2>3. KeepsAccounts
    BY <2>1, <2>2 DEF KeepsAccounts, Accounted
  <2> QED
    BY <1>4, <2>1, <2>3
<1>9. ASSUME NEW b \in Bots, NEW ok \in BOOLEAN, NEW next \in {"idle", "own"},
             TurnEnds(b, ok, next) \/ LateTurnEnds(b, ok, next)
      PROVE  Good
  <2> DEFINE dropped == IF ok THEN {} ELSE OfThread(pending, b)
  <2>1. /\ watch' = Unwatched({b})
        /\ receipt' = [d \in Items |->
             IF d \in dropped THEN "dropped"
             ELSE IF d \in Watched(b) THEN (IF ok THEN "done" ELSE "failed")
             ELSE receipt[d]]
        /\ pending' = pending \ dropped
        /\ UNCHANGED <<queued, died, refused, robbed>>
    BY <1>9 DEF TurnEnds, LateTurnEnds, Completion
  <2>2. \A c \in Bots : \/ stage'[c] = stage[c] /\ item'[c] = item[c]
                        \/ stage'[c] \in {"off", "next", "card"}
    BY <1>9 DEF TurnEnds, LateTurnEnds, Completion, StartDrains, drainVars, TypeInv, TypeOK
  <2> HIDE DEF dropped
  <2>3. /\ watch[b] # None => receipt'[watch[b]] # "none"
        /\ receipt' \in [Items -> Outcomes \cup {"none"}]
        /\ \A d \in Items : receipt[d] # "none" => receipt'[d] # "none"
        /\ \A d \in pending \ pending' : receipt'[d] # "none"
    BY <2>1 DEF TypeInv, TypeOK, Watched, Outcomes
  <2>4. KeepsAccounts
    BY <2>1, <2>3, FinalizeAccounts
  <2> QED
    BY <1>4, <2>1, <2>2, <2>3, <2>4
<1>10. ASSUME NEW d \in Items, NEW approved \in BOOLEAN, Queue(d, approved)
       PROVE  Good
  <2>1. /\ UNCHANGED <<receipt, watch, died, refused, robbed, stage, item>>
        /\ queued' = queued \cup {d} /\ pending' = pending \cup {d}
    BY <1>10 DEF Queue, drainVars
  <2>2. KeepsAccounts
    BY <2>1 DEF KeepsAccounts, Accounted
  <2> QED
    BY <1>4, <2>1, <2>2
<1>11. CASE Restart
  <2>1. \A b \in Bots : stage'[b] \in {"off", "next"}
    BY <1>11 DEF Restart
  <2>2. \A d \in queued' : d \in pending' \/ Accounted(d)'
    <3> DEFINE lost == UNION {Watched(b) : b \in Bots}
    <3>1. /\ UNCHANGED <<pending, queued, receipt, refused, robbed>>
          /\ died' = died \cup (lost \ pending)
      BY <1>11 DEF Restart, queueVars
    <3>2. ASSUME NEW d \in Items \ pending, NEW b \in Bots, watch[b] = d
          PROVE  d \in died'
      <4>1. d \in Watched(b)
        BY <3>2 DEF Watched
      <4>2. d \in lost
        BY <4>1
      <4> HIDE DEF lost
      <4> QED
        BY <3>1, <4>2
    <3>3. queued \subseteq Items
      BY DEF TypeInv, TypeOK
    <3> QED
      BY <1>1, <3>1, <3>2, <3>3 DEF Accounted
  <2>3. AccountedFirst'
    BY <2>1 DEF AccountedFirst, Holding
  <2> QED
    BY <1>2, <2>2, <2>3
<1>12. ASSUME NEW again \in SUBSET Bots, Reload(again)
       PROVE  Good
  <2> DEFINE killed == {b \in Bots : Busy(b)}
             ended == UNION {Watched(b) : b \in killed}
  <2>1. /\ watch' = Unwatched(killed)
        /\ receipt' = [d \in Items |-> IF d \in ended THEN "failed" ELSE receipt[d]]
        /\ UNCHANGED <<pending, queued, died, refused, robbed, stage, item>>
    BY <1>12 DEF Reload, Record, queueVars, drainVars
  <2>2. \A b \in killed : watch[b] # None => watch[b] \in ended
    BY DEF Watched
  <2>3. killed \in SUBSET Bots
    OBVIOUS
  <2> HIDE DEF killed, ended
  <2>4. /\ \A b \in killed : watch[b] # None => receipt'[watch[b]] # "none"
        /\ receipt' \in [Items -> Outcomes \cup {"none"}]
        /\ \A d \in Items : receipt[d] # "none" => receipt'[d] # "none"
    BY <2>1, <2>2, <2>3 DEF TypeInv, TypeOK, Outcomes
  <2>5. KeepsAccounts
    BY <2>1, <2>3, <2>4, FinalizeAccounts
  <2> QED
    BY <1>4, <2>1, <2>5
<1>13. CASE UNCHANGED vars
  <2>1. KeepsAccounts
    BY <1>13 DEF vars, history, KeepsAccounts, Accounted
  <2> QED
    BY <1>4, <1>13, <2>1 DEF vars, queueVars, drainVars, history
<1>14. ASSUME NEW b \in Bots, NEW allow \in BOOLEAN, AnswerCard(b, allow)
       PROVE  \E e \in Items : Check(b, e)
  BY <1>14 DEF AnswerCard, TypeInv, DrainsOwnItems, Holding, Check
<1> QED
  BY <1>3, <1>5, <1>6, <1>7, <1>8, <1>9, <1>10, <1>11, <1>12, <1>13, <1>14, <1>15
  DEF Next, Microtask, Check

(* Until the delegating bot can read its outcome, a handoff is queued or   *)
(* watched, the three known losses apart.                                  *)
THEOREM HandoffsAreNotForgotten == Spec => []NothingIsForgotten
<1>1. Init => AccountInv
  <2>1. Init => WatchIsOfTheRunningTurn /\ AccountedFirst /\ NothingIsForgotten
    BY DEF Init, WatchIsOfTheRunningTurn, AccountedFirst, NothingIsForgotten, Holding
  <2> QED
    BY <2>1, TypeInit DEF AccountInv, WatchInv
<1>2. AccountInv /\ [Next]_vars => AccountInv'
  BY TypeStep, WatchStep, AccountStep DEF AccountInv, WatchInv
<1>3. AccountInv => NothingIsForgotten
  BY DEF AccountInv
<1> QED
  BY <1>1, <1>2, <1>3, PTL DEF Spec
------------------------------------------------------------------------------
(* Nothing is stranded.                                                    *)

WillBeTaken(d) ==
  \/ d \in fresh
  \/ d \in left[From[d]] \/ (item[From[d]] = d /\ stage[From[d]] # "next")
  \/ From[d] \in redrain
  \/ stage[From[d]] # "off" /\ d \notin snap[From[d]]
  \/ d \in waiting /\ (Busy(To[d]) \/ To[d] \in retry)

Stranded(d) == d \in pending \ survivors /\ starts[d] = 0 /\ ~WillBeTaken(d)

LEMMA StrandedMeans == NothingIsStranded <=> \A d \in pending : ~Stranded(d)
BY DEF NothingIsStranded, Stranded, WillBeTaken

(* A drain of d's thread is asked for: it begins with d or looks again. *)
LEMMA DrainTakes ==
  ASSUME TypeInv, NEW bs \in SUBSET Bots, StartDrains(bs), NEW d \in Items
  PROVE  /\ d \in pending /\ From[d] \in bs => d \in left'[From[d]] \/ From[d] \in redrain'
         /\ d \in pending /\ d \in left[From[d]] => d \in left'[From[d]]
         /\ item[From[d]] = d /\ stage[From[d]] # "next" /\ d \in pending =>
              d \in left'[From[d]] \/ (item'[From[d]] = d /\ stage'[From[d]] # "next")
         /\ redrain \subseteq redrain'
         /\ stage[From[d]] # "off" /\ d \notin snap[From[d]] =>
              stage'[From[d]] # "off" /\ d \notin snap'[From[d]]
BY DEF StartDrains, Redrained, OfThread, TypeInv, TypeOK

LEMMA StrandedStep ==
  ASSUME TypeInv, [Next]_vars, NEW d \in Items, d \in pending => ~Stranded(d)
  PROVE  d \in pending' => ~Stranded(d)'
<1> SUFFICES ASSUME d \in pending', d \notin survivors', starts'[d] = 0
             PROVE  WillBeTaken(d)'
  BY DEF Stranded
<1> DEFINE Was == d \in pending \ survivors /\ starts[d] = 0 => WillBeTaken(d)
<1> Was
  BY DEF Stranded
<1> USE DEF TypeInv, TypeOK
<1>1. ASSUME NEW b \in Bots, NEW e \in Items, Check(b, e)
      PROVE  WillBeTaken(d)'
  <2>1. /\ item' = [item EXCEPT ![b] = e] /\ UNCHANGED <<pending, survivors, redrain, fresh, retry, snap>>
        /\ From[e] = b
        /\ \/ stage[b] = "next" /\ left' = [left EXCEPT ![b] = @ \ {e}]
           \/ stage[b] = "card" /\ item[b] = e /\ UNCHANGED left
    BY <1>1 DEF Check, TakeUp, AnswerCard, StepVars, DrainsOwnItems, Holding, OfThread
  <2>2. \E s \in Stages : stage' = [stage EXCEPT ![b] = s]
    BY <1>1, UnreachableTyped, TargetBusyTyped, Zenon
    DEF Check, TakeUp, AnswerCard, AllowReads, Unreachable, TargetBusy, Dispatched, Settled, Stages
  <2>3. /\ stage'[b] # "off"
        /\ starts[d] = 0
        /\ \A c \in Bots : Busy(c) => Busy(c)'
    BY <1>1
    DEF Check, TakeUp, AnswerCard, AllowReads, Unreachable, TargetBusy, Dispatched, Settled, Runs,
        Releases, Busy
  <2>4. d # e => (d \in waiting => d \in waiting')
    BY <1>1
    DEF Check, TakeUp, AnswerCard, AllowReads, Unreachable, TargetBusy, Dispatched, Settled
  <2>5. \/ stage'[b] # "next"
        \/ e \in waiting' /\ Busy(To[e])
    BY <1>1
    DEF Check, TakeUp, AnswerCard, AllowReads, Unreachable, TargetBusy, Dispatched, Settled, Counted
  <2>6. CASE d = e
    BY <2>1, <2>2, <2>3, <2>5, <2>6 DEF WillBeTaken
  <2>7. CASE d # e
    BY <2>1, <2>2, <2>3, <2>4, <2>7 DEF WillBeTaken
  <2> QED
    BY <2>6, <2>7
<1>2. ASSUME NEW b \in Bots, Acknowledge(b)
      PROVE  WillBeTaken(d)'
  BY <1>2 DEF Acknowledge, Remaining, WillBeTaken, history, Busy, DrainsOwnItems, Holding
<1>3. ASSUME NEW b \in Bots, DrainEnds(b)
      PROVE  WillBeTaken(d)'
  BY <1>3 DEF DrainEnds, LooksAgain, OfThread, WillBeTaken, history, queueVars, Busy
<1>4. ASSUME NEW b \in Bots, Retry(b)
      PROVE  WillBeTaken(d)'
  <2> DEFINE bs == {From[e] : e \in Held(b)}
  <2>1. bs \in SUBSET Bots
    BY DEF Held, ItemsFor
  <2>2. To[d] = b /\ d \in waiting /\ d \in pending => From[d] \in bs
    BY DEF Held, ItemsFor
  <2> HIDE DEF bs
  <2>3. CASE Busy(b)
    BY <1>4, <2>3 DEF Retry, WillBeTaken, history, drainVars, Busy
  <2>4. CASE ~Busy(b) /\ StartDrains(bs)
    <3>1. /\ UNCHANGED <<pending, survivors, starts, fresh, run>>
          /\ waiting' = waiting \ ItemsFor(pending, b) /\ retry' = retry \ {b}
      BY <1>4, <2>4 DEF Retry, history
    <3> QED
      BY <2>1, <2>2, <2>4, <3>1, DrainTakes DEF WillBeTaken, ItemsFor, Busy
  <2> QED
    BY <1>4, <2>3, <2>4 DEF Retry, bs
<1>5. ASSUME NEW b \in Bots,
             BeginTurn(b) \/ Move(b) \/ Refuse(b) \/ Stall(b) \/ ReleasedSetupEnds(b)
      PROVE  WillBeTaken(d)'
  BY <1>5
  DEF BeginTurn, Runs, Releases, Move, Refuse, Stall, ReleasedSetupEnds, WillBeTaken, queueVars,
      drainVars, history, Busy
<1>6. ASSUME NEW b \in Bots, NEW next \in {"idle", "own"}, DispatchFails(b, next)
      PROVE  WillBeTaken(d)'
  BY <1>6 DEF DispatchFails, Continues, Releases, WillBeTaken, queueVars, drainVars, Busy
<1>13. ASSUME NEW b \in Bots, NEW next \in {"idle", "own"}, GraceEnds(b, next)
       PROVE  WillBeTaken(d)'
  <2>1. CASE Busy(b)
    <3>1. /\ UNCHANGED <<pending, waiting, starts, stage, item, left, snap, redrain>>
          /\ run' = [run EXCEPT ![b] = next] /\ retry' = retry \cup {b}
          /\ survivors' = survivors \cup OfThread(fresh, b)
          /\ fresh' = fresh \ OfThread(Items, b)
      BY <1>13, <2>1 DEF GraceEnds, Continues, Releases, queueVars, drainVars
    <3> QED
      BY <3>1 DEF WillBeTaken, OfThread, Busy
  <2>2. CASE ~Busy(b)
    BY <1>13, <2>2 DEF GraceEnds, WillBeTaken, queueVars, drainVars, Busy
  <2> QED
    BY <2>1, <2>2
<1>7. ASSUME NEW b \in Bots, NEW ok \in BOOLEAN, NEW next \in {"idle", "own"},
             TurnEnds(b, ok, next) \/ LateTurnEnds(b, ok, next)
      PROVE  WillBeTaken(d)'
  <2>1. /\ UNCHANGED <<waiting, survivors, starts>>
        /\ fresh' = fresh \ OfThread(Items, b) /\ retry' = retry \cup {b}
        /\ \A c \in Bots : Busy(c) => Busy(c)' \/ c = b
        /\ pending' = pending \ (IF ok THEN {} ELSE OfThread(pending, b))
    BY <1>7 DEF TurnEnds, LateTurnEnds, Completion, Continues, Releases, Busy
  <2>2. CASE ok /\ StartDrains({b})
    BY <2>1, <2>2, DrainTakes DEF WillBeTaken, OfThread
  <2>3. CASE ~ok /\ UNCHANGED drainVars
    BY <2>1, <2>3 DEF WillBeTaken, OfThread, drainVars
  <2> QED
    BY <1>7, <2>2, <2>3 DEF TurnEnds, LateTurnEnds, Completion
<1>8. ASSUME NEW e \in Items, NEW approved \in BOOLEAN, Queue(e, approved)
      PROVE  WillBeTaken(d)'
  BY <1>8 DEF Queue, WillBeTaken, drainVars, Busy
<1>9. CASE Restart
  BY <1>9 DEF Restart, WillBeTaken, OfThread, queueVars
<1>10. ASSUME NEW again \in SUBSET Bots, Reload(again)
       PROVE  WillBeTaken(d)'
  BY <1>10 DEF Reload, WillBeTaken, queueVars, drainVars, Busy
<1>11. CASE UNCHANGED vars
  BY <1>11 DEF vars, WillBeTaken, queueVars, drainVars, history, Busy
<1>12. ASSUME NEW b \in Bots, NEW allow \in BOOLEAN, AnswerCard(b, allow)
       PROVE  \E e \in Items : Check(b, e)
  BY <1>12 DEF AnswerCard, DrainsOwnItems, Holding, Check
<1> QED
  BY <1>1, <1>2, <1>3, <1>4, <1>5, <1>6, <1>7, <1>8, <1>9, <1>10, <1>11, <1>12, <1>13
  DEF Next, Microtask, Check

(* A queued handoff that never ran always has something that takes it up,  *)
(* unless a fleet restart killed, or the watchdog released, the turn that  *)
(* queued it: only what is queued under a turn that ends as turns do is    *)
(* sure to be taken up.                                                    *)
THEOREM HandoffsAreNotStranded == Spec => []NothingIsStranded
<1> DEFINE Inv == TypeInv /\ \A d \in Items : d \in pending => ~Stranded(d)
<1>1. Init => Inv
  BY TypeInit DEF Init
<1>2. Inv /\ [Next]_vars => Inv'
  BY TypeStep, StrandedStep
<1>3. Inv => NothingIsStranded
  BY StrandedMeans DEF TypeInv, TypeOK
<1> QED
  BY <1>1, <1>2, <1>3, PTL DEF Spec
============================================================================
