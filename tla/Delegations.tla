---------------------------- MODULE Delegations ----------------------------
(***************************************************************************)
(* Handing work to a peer (server/delegations.ts and its callers in        *)
(* server/index.ts): the durable queue of each source thread, the drain    *)
(* that dispatches it once the source's turn has settled, the approval     *)
(* card, the bounded retries while the target is busy, the watch that      *)
(* turns the end of the target's turn into a receipt, and the restart.     *)
(*                                                                         *)
(* Every bot has one conversation here, so a thread is named by its bot.   *)
(* The items of a thread are handled one after the other; their order is   *)
(* left open.  A step of a drain is what runs between two awaits: such     *)
(* steps are microtasks, and nothing else happens while one is due.        *)
(***************************************************************************)
EXTENDS Naturals, FiniteSets

CONSTANTS
  Bots,
  Items,         \* handoffs
  From, To,      \* the bot that queues an item, the bot it is for
  Gated,         \* bots with approvePeerComms
  None,
  MaxQueued,     \* MAX_QUEUED_PER_THREAD
  MaxAttempts,   \* MAX_BUSY_ATTEMPTS
  MaxTurns,      \* bound: turns that are not handoffs
  MaxUpsets,     \* bound: restarts of the process or of its provider fleet,
                 \*   stalls, and bots that stop being allowed peers
  Refusable      \* bots whose settings or computer may make startTurn refuse

ASSUME RoutesAssumption ==
  /\ From \in [Items -> Bots] /\ To \in [Items -> Bots]
  /\ \A d \in Items : From[d] # To[d]
ASSUME GatedAssumption == Gated \subseteq Bots /\ Refusable \subseteq Bots
ASSUME BotsAssumption == IsFiniteSet(Bots)
ASSUME NoneAssumption == {None, "idle", "own"} \cap Items = {}
ASSUME LimitsAssumption ==
  /\ {MaxQueued, MaxTurns, MaxUpsets} \subseteq Nat
  /\ MaxAttempts \in Nat \ {0}

VARIABLES
  pending,       \* pendingDelegations, on disk as in memory
  attempts,      \* busy retries each item has used
  waiting,       \* items with waitingOnBusy
  granted,       \* items with approvalAlreadyGranted
  stage,         \* drainingThreads, and what each drain is at
  item,          \* the item a drain is at
  left,          \* items of the drain's snapshot still to come
  snap,          \* the drain's snapshot
  redrain,       \* queuedRedrains
  retry,         \* delegationRetryBots: retry microtasks that are due
  run,           \* what each bot runs: "idle", a turn of its "own", or an item
  watch,         \* delegationWatch
  grace,         \* the release timer of each bot's stalled turn, and what
                 \*   the release leaves behind
  receipt,       \* the receipt of each item
  moved,         \* bots no sender may contact any more
  refusing,      \* bots for which startTurn answers 409 for now
  queued,        \* history: items that were queued
  fresh,         \* history: items whose source turn still runs
  survivors,     \* history: items whose source turn was released without its end
  charged,       \* history: items charged for the target's current turn
  refused,       \* history: items whose target refused to start
  died,          \* history: items whose turn died with the process
  robbed,        \* history: items whose turn an earlier turn's timer released
  starts,        \* history: turns started for each item
  used           \* how much of each bound is spent

queueVars == <<pending, attempts, waiting, granted>>
drainVars == <<stage, item, left, snap, redrain>>
history == <<queued, fresh, survivors, charged, refused, died, robbed, starts>>
outside == <<moved, refusing, used>>
vars == <<queueVars, drainVars, retry, run, watch, grace, receipt, history, outside>>
------------------------------------------------------------------------------
Stages == {"off", "next", "card", "settled", "started", "refused"}
Outcomes == {"done", "failed", "denied", "busy_gave_up", "dropped"}

Busy(b) == run[b] # "idle"
OfThread(ds, b) == {d \in ds : From[d] = b}
ItemsFor(ds, b) == {d \in ds : To[d] = b}
Reachable(d) == To[d] \notin moved

MoreUpsets == used.restarts + used.stalls + Cardinality(moved) < MaxUpsets

(* "armed": the turn of the bot has stalled, and its timer runs; "stale":  *)
(* that turn is over, and the timer still runs; "mute", "able": the bot    *)
(* was released, and its provider still has the turn, without or with the  *)
(* means to delegate; "setup": a turn was released before its provider.    *)
Graces == {"off", "armed", "stale", "mute", "able", "setup"}

(* The adapter takes no second turn while it has the old one. *)
Occupied(b) == grace[b] \in {"mute", "able"}

(* No microtask is due: the event loop may take up the next event. *)
Quiet == retry = {} /\ \A b \in Bots : stage[b] \in {"off", "card"}

Init ==
  /\ pending = {} /\ waiting = {} /\ granted = {}
  /\ attempts = [d \in Items |-> 0]
  /\ stage = [b \in Bots |-> "off"] /\ item = [b \in Bots |-> None]
  /\ left = [b \in Bots |-> {}] /\ snap = [b \in Bots |-> {}]
  /\ redrain = {} /\ retry = {}
  /\ run = [b \in Bots |-> "idle"] /\ watch = [b \in Bots |-> None]
  /\ grace = [b \in Bots |-> "off"]
  /\ receipt = [d \in Items |-> "none"] /\ moved = {} /\ refusing = {}
  /\ queued = {} /\ fresh = {} /\ survivors = {} /\ charged = {}
  /\ refused = {} /\ died = {} /\ robbed = {}
  /\ starts = [d \in Items |-> 0]
  /\ used = [turns |-> 0, restarts |-> 0, stalls |-> 0]

Record(ds, outcome) ==
  receipt' = [d \in Items |-> IF d \in ds THEN outcome ELSE receipt[d]]

(* The bot runs something else from now on, or nothing: what was charged   *)
(* for its turn was charged for a busy period that is over.                *)
Releases(b, what) ==
  /\ run' = [run EXCEPT ![b] = what]
  /\ charged' = charged \ ItemsFor(Items, b)

(* A new turn takes the capabilities of its thread's earlier ones.         *)
Runs(b, what) ==
  /\ Releases(b, what)
  /\ grace' = [grace EXCEPT ![b] =
       IF @ = "armed" THEN "stale"
       ELSE IF @ = "able" /\ what # "idle" THEN "mute" ELSE @]

TurnsBegin(bs) ==
  /\ used.turns + Cardinality(bs) <= MaxTurns
  /\ used' = [used EXCEPT !.turns = @ + Cardinality(bs)]

(* A turn of b is over, and words queued behind it may start the next one. *)
Continues(b, next) ==
  /\ TurnsBegin(IF next = "own" THEN {b} ELSE {})
  /\ next = "own" => b \notin refusing
  /\ Releases(b, next)

(* drainDelegations for the threads of bs: a drain already under way is    *)
(* asked to look again when it ends.                                       *)
Redrained_Lost(bs) == redrain
Redrained(bs) == redrain \cup {b \in bs : stage[b] # "off"}

StartDrains(bs) ==
  LET begun == {b \in bs : stage[b] = "off" /\ OfThread(pending, b) # {}} IN
  /\ stage' = [b \in Bots |-> IF b \in begun THEN "next" ELSE stage[b]]
  /\ left' = [b \in Bots |-> IF b \in begun THEN OfThread(pending, b) ELSE left[b]]
  /\ snap' = [b \in Bots |-> IF b \in begun THEN OfThread(pending, b) ELSE snap[b]]
  /\ redrain' = Redrained(bs)
  /\ UNCHANGED item
------------------------------------------------------------------------------
(* The person, a routine or a wake starts a turn of the bot's own. *)
BeginTurn(b) ==
  /\ Quiet /\ ~Busy(b) /\ b \notin refusing
  /\ TurnsBegin({b})
  /\ Runs(b, "own")
  /\ UNCHANGED <<queueVars, drainVars, retry, watch, receipt, moved, refusing, queued, fresh,
                 survivors, refused, died, robbed, starts>>

(* delegate_bot, or an ask_bot that found its peer busy after the person   *)
(* had approved it.  A delegated turn is too deep to delegate, a stalled   *)
(* one has lost its capabilities, and one that was released early has not. *)
MayDelegate(b) == run[b] = "own" /\ grace[b] # "armed" /\ ~Occupied(b)
MayStillDelegate(b) == run[b] = "idle" /\ grace[b] = "able"

Queue(d, approved) ==
  /\ Quiet /\ d \notin queued /\ Reachable(d)
  /\ MayDelegate(From[d]) \/ MayStillDelegate(From[d])
  /\ approved => From[d] \in Gated /\ Busy(To[d])
  /\ Cardinality(OfThread(pending, From[d])) < MaxQueued
  /\ pending' = pending \cup {d}
  /\ granted' = IF approved THEN granted \cup {d} ELSE granted
  /\ queued' = queued \cup {d}
  /\ IF Busy(From[d])
       THEN fresh' = fresh \cup {d} /\ UNCHANGED survivors
       ELSE survivors' = survivors \cup {d} /\ UNCHANGED fresh
  /\ UNCHANGED <<attempts, waiting, drainVars, retry, run, watch, grace, receipt, outside,
                 charged, refused, died, robbed, starts>>

(* finalizeDelegationWatch: the watch of b is consumed by one receipt. *)
Watched_Forgotten(b) == {}
Watched(b) == {watch[b]} \ {None}

Unwatched_Kept(bs) == watch
Unwatched(bs) == [b \in Bots |-> IF b \in bs THEN None ELSE watch[b]]

(* turn.completed on the thread of b.  The fold releases the bot and       *)
(* finalizes the watch; then the queue of its thread is discarded or       *)
(* drained, and the handoffs that found b busy are retried.                *)
Completion(b, ok, next) ==
  LET dropped == IF ok THEN {} ELSE OfThread(pending, b) IN
  /\ Quiet
  /\ Continues(b, next)
  /\ watch' = Unwatched({b})
  /\ receipt' = [d \in Items |->
       IF d \in dropped THEN "dropped"
       ELSE IF d \in Watched(b) THEN (IF ok THEN "done" ELSE "failed")
       ELSE receipt[d]]
  /\ pending' = pending \ dropped
  /\ fresh' = fresh \ OfThread(Items, b)
  /\ IF ok THEN StartDrains({b}) ELSE UNCHANGED drainVars
  /\ retry' = retry \cup {b}
  /\ UNCHANGED <<attempts, waiting, granted, moved, refusing, queued, survivors, refused, died,
                 robbed, starts>>

(* The turn that the bot runs completes. *)
TurnEnds(b, ok, next) ==
  /\ Busy(b) /\ ~Occupied(b)
  /\ Completion(b, ok, next)
  /\ grace' = [grace EXCEPT ![b] = IF @ = "armed" THEN "stale" ELSE @]

(* A turn that the bot was released from completes after all: the fold     *)
(* goes by the thread, and idles the bot under a turn that prepares.       *)
LateTurnEnds(b, ok, next) ==
  /\ Occupied(b)
  /\ Completion(b, ok, next)
  /\ grace' = [grace EXCEPT ![b] = IF Busy(b) THEN "setup" ELSE "off"]

(* The turn failed before it reached its provider: no turn.completed, so   *)
(* the bot's own queue is left alone.                                      *)
DispatchFails(b, next) ==
  /\ Quiet /\ Busy(b) /\ OfThread(fresh, b) = {} /\ grace[b] # "armed"
  /\ Continues(b, next)
  /\ Record(Watched(b), "failed")
  /\ watch' = Unwatched({b})
  /\ retry' = retry \cup {b}
  /\ UNCHANGED <<queueVars, drainVars, grace, moved, refusing, queued, fresh, survivors, refused,
                 died, robbed, starts>>

(* The preparation of a released turn notices.  Its report consumes the    *)
(* watch of the thread, whose turn it may be by now.                       *)
ReleasedSetupEnds(b) ==
  /\ Quiet /\ grace[b] = "setup"
  /\ grace' = [grace EXCEPT ![b] = "off"]
  /\ Record(Watched(b), "failed")
  /\ watch' = Unwatched({b})
  /\ UNCHANGED <<queueVars, drainVars, retry, run, history, outside>>
------------------------------------------------------------------------------
(* The watchdog finds the turn of b silent: its watch is settled, its      *)
(* capabilities are revoked, its provider is interrupted, and the release  *)
(* timer is set.                                                           *)
Stall(b) ==
  /\ Quiet /\ Busy(b) /\ grace[b] = "off" /\ MoreUpsets
  /\ used' = [used EXCEPT !.stalls = @ + 1]
  /\ grace' = [grace EXCEPT ![b] = "armed"]
  /\ Record(Watched(b), "failed")
  /\ watch' = Unwatched({b})
  /\ UNCHANGED <<queueVars, drainVars, retry, run, history, moved, refusing>>

(* releaseOwnership, six seconds later: whatever keeps b busy by then is   *)
(* released, without a turn.completed: what it queued is neither drained   *)
(* nor discarded, and its watch stays.                                     *)
Leaves(b) ==
  IF grace[b] = "armed" THEN {"mute"}
  ELSE (IF OfThread(fresh, b) = {} THEN {"setup"} ELSE {})
       \cup {IF run[b] = "own" THEN "able" ELSE "mute"}

GraceEnds(b, next) ==
  /\ Quiet /\ grace[b] \in {"armed", "stale"}
  /\ IF Busy(b)
       THEN /\ Continues(b, next)
            /\ \E g \in Leaves(b) :
                 grace' = [grace EXCEPT ![b] = IF g = "able" /\ next = "own" THEN "mute" ELSE g]
            /\ retry' = retry \cup {b}
            /\ survivors' = survivors \cup OfThread(fresh, b)
            /\ fresh' = fresh \ OfThread(Items, b)
            /\ robbed' = robbed \cup Watched(b)
       ELSE /\ next = "idle"
            /\ grace' = [grace EXCEPT ![b] = "off"]
            /\ UNCHANGED <<retry, run, charged, fresh, survivors, robbed, used>>
  /\ UNCHANGED <<queueVars, drainVars, watch, receipt, moved, refusing, queued, refused, died,
                 starts>>

(* A bot moves to another section, or off the senders' peer lists. *)
Move(b) ==
  /\ Quiet /\ b \notin moved /\ MoreUpsets
  /\ moved' = moved \cup {b}
  /\ UNCHANGED <<queueVars, drainVars, retry, run, watch, grace, receipt, history, refusing, used>>

(* Its model is not to be had, its effort is not on offer, its computer is *)
(* being changed: startTurn refuses the bot, or does so no longer.         *)
Refuse(b) ==
  /\ Quiet /\ b \in Refusable
  /\ refusing' = IF b \in refusing THEN refusing \ {b} ELSE refusing \cup {b}
  /\ UNCHANGED <<queueVars, drainVars, retry, run, watch, grace, receipt, history, moved, used>>
------------------------------------------------------------------------------
(* Steps of processOne. *)
Settled(b) == stage' = [stage EXCEPT ![b] = "settled"] /\ UNCHANGED <<run, watch, grace>>

Unreachable(b, d) ==
  /\ ~Reachable(d)
  /\ Record({d}, "dropped")
  /\ Settled(b)
  /\ UNCHANGED <<waiting, attempts, charged, refused, starts>>

(* The item stays queued until its target's busy period is over; the last  *)
(* attempt gives up.                                                       *)
Counted_EveryDrain(d) == FALSE
Counted(d) == d \in waiting

LastAttempt_OffByOne(d) == attempts[d] + 1 > MaxAttempts
LastAttempt(d) == attempts[d] + 1 >= MaxAttempts

TargetBusy(b, d) ==
  /\ Reachable(d) /\ Busy(To[d])
  /\ \/ /\ Counted(d)
        /\ stage' = [stage EXCEPT ![b] = "next"]
        /\ UNCHANGED <<attempts, waiting, receipt, charged>>
     \/ /\ ~Counted(d) /\ ~LastAttempt(d)
        /\ attempts' = [attempts EXCEPT ![d] = @ + 1]
        /\ waiting' = waiting \cup {d}
        /\ charged' = charged \cup {d}
        /\ stage' = [stage EXCEPT ![b] = "next"]
        /\ UNCHANGED receipt
     \/ /\ ~Counted(d) /\ LastAttempt(d)
        /\ Record({d}, "busy_gave_up")
        /\ stage' = [stage EXCEPT ![b] = "settled"]
        /\ UNCHANGED <<attempts, waiting, charged>>
  /\ UNCHANGED <<run, watch, grace, refused, starts>>

(* runDelegatedTurn: the watch is set before startTurn is called. *)
Dispatched(b, d) ==
  /\ watch' = [watch EXCEPT ![To[d]] = d]
  /\ \/ /\ To[d] \notin refusing
        /\ Runs(To[d], d)
        /\ starts' = [starts EXCEPT ![d] = @ + 1]
        /\ stage' = [stage EXCEPT ![b] = "started"]
        /\ UNCHANGED refused
     \/ /\ To[d] \in refusing
        /\ refused' = refused \cup {d}
        /\ stage' = [stage EXCEPT ![b] = "refused"]
        /\ UNCHANGED <<run, grace, charged, starts>>
  /\ UNCHANGED receipt

StepVars == <<pending, granted, snap, redrain, retry, queued, fresh, survivors, died, robbed,
              outside>>

(* The drain takes up its next item. *)
TakeUp(b, d) ==
  /\ stage[b] = "next" /\ d \in left[b]
  /\ left' = [left EXCEPT ![b] = @ \ {d}]
  /\ item' = [item EXCEPT ![b] = d]
  /\ \/ Unreachable(b, d)
     \/ TargetBusy(b, d)
     \/ /\ Reachable(d) /\ ~Busy(To[d])
        /\ waiting' = waiting \ {d}
        /\ IF b \in Gated /\ d \notin granted
             THEN /\ stage' = [stage EXCEPT ![b] = "card"]
                  /\ UNCHANGED <<run, watch, grace, receipt, charged, refused, starts>>
             ELSE Dispatched(b, d)
        /\ UNCHANGED attempts
  /\ UNCHANGED StepVars

(* The person answers the card, or its fifteen minutes run out, or Stop    *)
(* closes it.  What was checked before the card is checked again.          *)
AllowReads_Stale(b, d) == Dispatched(b, d) /\ UNCHANGED <<waiting, attempts>>
AllowReads(b, d) ==
  \/ Unreachable(b, d)
  \/ TargetBusy(b, d)
  \/ Reachable(d) /\ ~Busy(To[d]) /\ Dispatched(b, d) /\ UNCHANGED <<waiting, attempts>>

AnswerCard(b, allow) ==
  /\ Quiet /\ stage[b] = "card"
  /\ \/ allow /\ AllowReads(b, item[b])
     \/ /\ ~allow
        /\ Record({item[b]}, "denied")
        /\ Settled(b)
        /\ UNCHANGED <<waiting, attempts, charged, refused, starts>>
  /\ UNCHANGED <<left, item, StepVars>>

(* acknowledgeDelegation.  A refused start is reported first, through the  *)
(* watch of the target as it is by now.                                    *)
Remaining_Started(b) == IF stage[b] = "started" THEN pending ELSE pending \ {item[b]}
Remaining(b) == pending \ {item[b]}

Acknowledge(b) ==
  /\ stage[b] \in {"settled", "started", "refused"}
  /\ pending' = Remaining(b)
  /\ stage' = [stage EXCEPT ![b] = "next"]
  /\ IF stage[b] = "refused"
       THEN /\ Record(Watched(To[item[b]]), "failed")
            /\ watch' = Unwatched({To[item[b]]})
       ELSE UNCHANGED <<receipt, watch>>
  /\ UNCHANGED <<attempts, waiting, granted, item, left, snap, redrain, retry, run, grace, history,
                 outside>>

(* The drain is through its snapshot. *)
LooksAgain(b) == b \in redrain \/ OfThread(pending, b) \ snap[b] # {}

DrainEnds(b) ==
  LET more == LooksAgain(b) /\ OfThread(pending, b) # {} IN
  /\ stage[b] = "next" /\ left[b] = {}
  /\ redrain' = redrain \ {b}
  /\ stage' = [stage EXCEPT ![b] = IF more THEN "next" ELSE "off"]
  /\ left' = [left EXCEPT ![b] = IF more THEN OfThread(pending, b) ELSE {}]
  /\ snap' = [snap EXCEPT ![b] = IF more THEN OfThread(pending, b) ELSE {}]
  /\ item' = [item EXCEPT ![b] = None]
  /\ UNCHANGED <<queueVars, retry, run, watch, grace, receipt, history, outside>>

(* retryDelegationsWaitingOn: unless another turn took the bot meanwhile,  *)
(* the items that found it busy are released and their threads drained.    *)
Held_AfterRelease(b) == ItemsFor(pending \cap (waiting \ ItemsFor(pending, b)), b)
Held(b) == ItemsFor(pending \cap waiting, b)

Retry(b) ==
  /\ b \in retry
  /\ retry' = retry \ {b}
  /\ IF Busy(b)
       THEN UNCHANGED <<waiting, drainVars>>
       ELSE /\ waiting' = waiting \ ItemsFor(pending, b)
            /\ StartDrains({From[d] : d \in Held(b)})
  /\ UNCHANGED <<pending, attempts, granted, run, watch, grace, receipt, history, outside>>
------------------------------------------------------------------------------
(* The process dies between two steps and comes back: the queue and the    *)
(* receipts are on disk, everything else is gone, and every thread with    *)
(* something queued is drained.                                            *)
Restart ==
  LET back == {b \in Bots : OfThread(pending, b) # {}} IN
  /\ MoreUpsets
  /\ used' = [used EXCEPT !.restarts = @ + 1]
  /\ run' = [b \in Bots |-> "idle"] /\ watch' = [b \in Bots |-> None]
  /\ grace' = [b \in Bots |-> "off"]
  /\ redrain' = {} /\ retry' = {}
  /\ stage' = [b \in Bots |-> IF b \in back THEN "next" ELSE "off"]
  /\ left' = [b \in Bots |-> OfThread(pending, b)]
  /\ snap' = [b \in Bots |-> OfThread(pending, b)]
  /\ item' = [b \in Bots |-> None]
  /\ fresh' = {} /\ charged' = {}
  /\ died' = died \cup ((UNION {Watched(b) : b \in Bots}) \ pending)
  /\ UNCHANGED <<queueVars, receipt, moved, refusing, queued, survivors, refused, robbed, starts>>

(* reloadProviders: the fleet is rebuilt, and every bot it finds busy is   *)
(* settled without a turn.completed.  Words queued behind a turn it killed *)
(* start the next one.  Timers run on.                                     *)
Reload(again) ==
  LET killed == {b \in Bots : Busy(b)} IN
  /\ Quiet /\ killed # {} /\ again \subseteq killed \ refusing
  /\ MoreUpsets /\ used.turns + Cardinality(again) <= MaxTurns
  /\ used' = [used EXCEPT !.turns = @ + Cardinality(again), !.restarts = @ + 1]
  /\ run' = [b \in Bots |-> IF b \in again THEN "own" ELSE "idle"]
  /\ Record(UNION {Watched(b) : b \in killed}, "failed")
  /\ watch' = Unwatched(killed)
  /\ grace' = [b \in Bots |-> IF grace[b] = "armed" THEN "stale"
                              ELSE IF Occupied(b) THEN "off" ELSE grace[b]]
  /\ retry' = retry \cup killed
  /\ fresh' = {} /\ survivors' = survivors \cup fresh /\ charged' = {}
  /\ UNCHANGED <<queueVars, drainVars, moved, refusing, queued, refused, died, robbed, starts>>
------------------------------------------------------------------------------
Microtask(b) ==
  \/ \E d \in Items : TakeUp(b, d)
  \/ Acknowledge(b) \/ DrainEnds(b) \/ Retry(b)

Next ==
  \/ \E b \in Bots : BeginTurn(b) \/ Move(b) \/ Refuse(b) \/ Stall(b) \/ ReleasedSetupEnds(b)
                    \/ Microtask(b)
  \/ \E b \in Bots, next \in {"idle", "own"} :
       DispatchFails(b, next) \/ GraceEnds(b, next)
       \/ \E ok \in BOOLEAN : TurnEnds(b, ok, next) \/ LateTurnEnds(b, ok, next)
  \/ \E b \in Bots, allow \in BOOLEAN : AnswerCard(b, allow)
  \/ \E d \in Items, approved \in BOOLEAN : Queue(d, approved)
  \/ Restart
  \/ \E again \in SUBSET Bots : Reload(again)

(* Microtasks run before anything else, a card is answered within its      *)
(* fifteen minutes, and turns end: DirectTurn shows why.  A stalled turn   *)
(* need not, but its timer fires; a turn that the adapter has no place for *)
(* fails.                                                                  *)
TurnIsOver(b) ==
  \E next \in {"idle", "own"} :
    IF Occupied(b) THEN DispatchFails(b, next)
    ELSE grace[b] # "armed" /\ \E ok \in BOOLEAN : TurnEnds(b, ok, next)

Fairness ==
  \A b \in Bots :
    /\ WF_vars(Microtask(b))
    /\ WF_vars(\E allow \in BOOLEAN : AnswerCard(b, allow))
    /\ WF_vars(TurnIsOver(b))
    /\ WF_vars(\E next \in {"idle", "own"} : GraceEnds(b, next))

Spec == Init /\ [][Next]_vars
FairSpec == Spec /\ Fairness
------------------------------------------------------------------------------
TypeOK ==
  /\ pending \subseteq Items /\ waiting \subseteq Items /\ granted \subseteq Items
  /\ attempts \in [Items -> 0..MaxAttempts - 1]
  /\ stage \in [Bots -> Stages] /\ item \in [Bots -> Items \cup {None}]
  /\ left \in [Bots -> SUBSET Items] /\ snap \in [Bots -> SUBSET Items]
  /\ redrain \subseteq Bots /\ retry \subseteq Bots
  /\ run \in [Bots -> Items \cup {"idle", "own"}]
  /\ watch \in [Bots -> Items \cup {None}] /\ grace \in [Bots -> Graces]
  /\ receipt \in [Items -> Outcomes \cup {"none"}] 
  /\ moved \subseteq Bots /\ refusing \subseteq Bots
  /\ queued \subseteq Items /\ fresh \subseteq Items /\ survivors \subseteq Items
  /\ charged \subseteq Items /\ refused \subseteq Items
  /\ died \subseteq Items /\ robbed \subseteq Items
  /\ starts \in [Items -> Nat]
  /\ used \in [turns : 0..MaxTurns, restarts : 0..MaxUpsets, stalls : 0..MaxUpsets]

(* A handoff is never simply forgotten: until the delegating bot can read  *)
(* its outcome it is queued or watched.  Three losses are known and left   *)
(* out here: the turn that dies with the process, the one that the timer   *)
(* of an earlier turn releases, and a refused start, which                 *)
(* HandoffsEndInAReceipt of DelegationsClaims is about.                    *)
NothingIsForgotten ==
  \A d \in queued \ (died \cup refused \cup robbed) :
    \/ d \in pending \/ receipt[d] # "none"
    \/ \E b \in Bots : watch[b] = d

(* A queued handoff that never ran always has something that will take it  *)
(* up: the turn that queued it, a drain of its thread, or the end of the   *)
(* turn its target is busy with.  (A turn that a fleet restart kills or    *)
(* the watchdog releases neither drains nor discards what it queued.)      *)
NothingIsStranded ==
  \A d \in pending \ survivors : starts[d] = 0 =>
    \/ d \in fresh
    \/ d \in left[From[d]] \/ (item[From[d]] = d /\ stage[From[d]] # "next")
    \/ From[d] \in redrain
    \/ stage[From[d]] # "off" /\ d \notin snap[From[d]]
    \/ d \in waiting /\ (Busy(To[d]) \/ To[d] \in retry)

(* The end of a turn is reported as the outcome of the handoff it ran, and *)
(* of no other -- unless the timer of an earlier turn released it.         *)
WatchIsOfTheRunningTurn ==
  \A b \in Bots : watch[b] # None =>
    run[b] = watch[b] \/ watch[b] \in refused \cup robbed

(* Between two restarts a handoff starts one turn, however often its       *)
(* thread is drained.                                                      *)
HandoffsStartOnce == \A d \in Items : starts[d] <= 1 + used.restarts

(* The bounded retries count busy periods of the target, not drains.       *)
RetriesCountBusyPeriods ==
  [][\A d \in charged :
       /\ attempts'[d] = attempts[d]
       /\ receipt'[d] = "busy_gave_up" => receipt[d] = "busy_gave_up"]_vars

(* A turn never starts on a bot its sender may not contact any more,       *)
(* however long the handoff waited for its target or for a person, and     *)
(* never on a bot that is busy.                                            *)
DispatchIsCheckedLast ==
  [][\A d \in Items : starts'[d] # starts[d] =>
       Reachable(d) /\ ~Busy(To[d])]_vars

(* Every handoff comes to an end the delegating bot can read about.  What  *)
(* was queued stays in the history queued, so it is enough that again and  *)
(* again there is a moment at which all of it has ended.                   *)
HandoffsSettle ==
  []<>(\A d \in queued : receipt[d] # "none" \/ d \in died \cup refused \cup robbed \cup survivors)
============================================================================
