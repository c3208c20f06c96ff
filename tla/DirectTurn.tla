---------------------------- MODULE DirectTurn ----------------------------
(***************************************************************************)
(* The life of one bot's one-to-one turns (server/index.ts): the dispatch  *)
(* claim, the two-stage Stop quarantine, the provider's turn events, the   *)
(* per-turn capability generation, the stall watchdog with its grace       *)
(* timer, and the work that queues behind a busy bot.                      *)
(*                                                                         *)
(* The harness is one JavaScript thread: an action is everything a handler *)
(* does between two awaits, and the queue drain a settle triggers runs in  *)
(* the same action as the settle.  A turn is named by the id of its claim. *)
(***************************************************************************)
EXTENDS Naturals, Sequences, FiniteSets

CONSTANTS
  Threads,       \* the bot's tasks
  Turns,         \* claim ids (randomUUID), one per startTurn
  Words,         \* messages the person sends
  None,          \* no turn, no thread
  Behaviours,    \* what this instance lets the environment do, see below
  MaxAsks,       \* bound: requests open at once in one turn
  MaxStops,      \* bound: calls of the interrupt endpoint
  MaxStalls,     \* bound: stalls the watchdog reports
  MaxResumes     \* bound: continuations (wakes and card resumes) that arrive

(***************************************************************************)
(* "early": turn.completed may precede the resolution of sendTurn;         *)
(* "relaunch": the driver may relaunch the CLI under a new turn id;        *)
(* "hang": sendTurn may outlive the 30 s quarantine;                       *)
(* "slow": an interrupted provider may outlive the 6 s grace period;       *)
(* "steer": the adapter accepts words into its running turn;               *)
(* "gate": another subsystem may make startTurn refuse with a 409.         *)
(***************************************************************************)
AllBehaviours == {"early", "relaunch", "hang", "slow", "steer", "gate"}

ASSUME BehavioursAssumption == Behaviours \subseteq AllBehaviours
ASSUME NoneAssumption == None \notin Turns /\ None \notin Threads
ASSUME BoundsAssumption == {MaxAsks, MaxStops, MaxStalls, MaxResumes} \subseteq Nat

VARIABLES
  activity,      \* bot.activity; bot.busy is derived from it
  current,       \* bot.threadId, the open task
  gate,          \* startTurn is admitted by the other subsystems
  claim,         \* directTurnDispatchClaims.get(bot)
  latest,        \* directTurnGenerationByBot.get(bot)
  turnThread,    \* the thread each turn was started on
  pc,            \* where the asynchronous half of each startTurn stands
  provider,      \* the provider's side of each turn
  adapter,       \* the adapter's active map: thread -> running turn
  interrupted,   \* turns whose process stop() was called on
  relaunched,    \* turns the driver relaunched under a second turn id
  openAsks,      \* requests each turn's provider has open
  retired,       \* retiredProviderTurns
  pending,       \* owners in pendingCancelledProviderHandshakes
  activeGen,     \* activeInternalGenerationByThread
  bound,         \* turns whose provider id is bound to their generation
  completed,     \* provider ids completed in the generation registry
  watch,         \* the watchdog's entry for each thread
  grace,         \* scheduled releaseOwnership timers
  stops,         \* interrupt requests between their claim and adapter steps
  queue,         \* the steer queue: thread -> waiting words
  resumes,       \* continuations waiting for the bot: <<thread, kind>>
  fate,          \* what became of each word
  into,          \* the turn each word was given to
  steering,      \* words whose adapter.steer is awaited: <<word, thread>>
  cancelled,     \* history: turns whose claim a Stop took away
  used           \* how much of each bound is spent

vars == <<activity, current, gate, claim, latest, turnThread, pc, provider,
          adapter, interrupted, relaunched, openAsks, retired, pending,
          activeGen, bound, completed, watch, grace, stops, queue, resumes,
          fate, into, steering, cancelled, used>>

(* Groups of variables that steps leave alone together. *)
dispatchVars == <<activity, claim, latest, turnThread, pc, activeGen, bound>>
providerVars == <<provider, adapter, interrupted, relaunched, openAsks>>
quarantineVars == <<retired, pending>>
waitingVars == <<queue, resumes, fate, into>>
------------------------------------------------------------------------------
Activities == {"idle", "working", "waiting", "dead"}
ResumeKinds == {"wake", "connector", "secret"}
ProviderIds == Turns \X {1, 2}
Pcs == {"none", "setup", "waiting", "sending", "stopping",
        "cancelled", "failed", "done"}
Fates == {"unsent", "steering", "steered", "queued", "handed", "refused", "returned"}
NoClaim == [id |-> None, phase |-> "setup"]

Busy == activity \in {"working", "waiting"}
IdOf(t) == <<t, IF t \in relaunched THEN 2 ELSE 1>>
Gate(th) == \E o \in pending : turnThread[o] = th
ClaimExists(t) == claim.id = t
ClaimIsCurrent_NoClaim(t) == Busy
ClaimIsCurrent(t) == ClaimExists(t) /\ Busy
ItemsOf(s) == {s[i] : i \in DOMAIN s}

(* isTurnEventQuarantined: a retired id, or any event while the thread has *)
(* an unresolved cancelled handshake.                                      *)
Quarantined_RetiredOnly(t) == IdOf(t) \in retired
Quarantined(t) == IdOf(t) \in retired \/ Gate(turnThread[t])

(* The ids an ignored event leaves in the retired registry. *)
Revealed(t) == IF Gate(turnThread[t]) THEN {IdOf(t)} ELSE {}

RevokeThread_Forgotten(gens, th) == gens
RevokeThread(gens, th) == [gens EXCEPT ![th] = None]
RevokeGen(gens, t) ==
  [th \in Threads |-> IF gens[th] = t THEN None ELSE gens[th]]

Init ==
  /\ activity = "idle" /\ current \in Threads /\ gate = TRUE
  /\ claim = NoClaim /\ latest = None
  /\ turnThread = [t \in Turns |-> None]
  /\ pc = [t \in Turns |-> "none"]
  /\ provider = [t \in Turns |-> "none"]
  /\ adapter = [th \in Threads |-> None]
  /\ interrupted = {} /\ relaunched = {}
  /\ openAsks = [t \in Turns |-> 0]
  /\ retired = {} /\ pending = {}
  /\ activeGen = [th \in Threads |-> None]
  /\ bound = {} /\ completed = {}
  /\ watch = [th \in Threads |-> "off"]
  /\ grace = {} /\ stops = {}
  /\ queue = [th \in Threads |-> <<>>]
  /\ resumes = {}
  /\ fate = [w \in Words |-> "unsent"]
  /\ into = [w \in Words |-> None]
  /\ steering = {} /\ cancelled = {}
  /\ used = [stops |-> 0, stalls |-> 0, resumes |-> 0]
------------------------------------------------------------------------------
(* The synchronous half of startTurn: the claim, its generation and busy   *)
(* are published before the handler first yields.  p, gens and bnd are pc, *)
(* activeGen and bound as the calling step leaves them.                    *)
Begin(t, th, p, gens, bnd) ==
  /\ p[t] = "none"
  /\ activity' = "working"
  /\ claim' = [id |-> t, phase |-> "setup"]
  /\ latest' = t
  /\ turnThread' = [turnThread EXCEPT ![t] = th]
  /\ pc' = [p EXCEPT ![t] = "setup"]
  /\ activeGen' = [gens EXCEPT ![th] = t]
  /\ bound' = bnd \ {gens[th]}

Hand(ws, t) ==
  /\ fate' = [w \in Words |-> IF w \in ws THEN "handed" ELSE fate[w]]
  /\ into' = [w \in Words |-> IF w \in ws THEN t ELSE into[w]]

(* The step ends with the bot in activity act and starts no turn. *)
Rest(p, cl, gens, bnd, act) ==
  /\ activity' = act /\ claim' = cl /\ pc' = p
  /\ activeGen' = gens /\ bound' = bnd
  /\ UNCHANGED <<latest, turnThread>>

QueuedThreads_None == {}
QueuedThreads == {th \in Threads : queue[th] # <<>>}
QueuedWords == UNION {ItemsOf(queue[th]) : th \in Threads}

(* A drained entry leaves the map before its turn starts. *)
TakeQueue_Kept(th) == UNCHANGED queue
TakeQueue(th) == queue' = [queue EXCEPT ![th] = <<>>]

(* The bot was released: everything queued behind it is drained.  The       *)
(* first startTurn that is admitted takes the bot, the others see it busy; *)
(* a refused one leaves its words in the transcript under an error chip.   *)
Drain(kinds, p, cl, gens, bnd, act) ==
  LET held == {c \in resumes : c[2] \in kinds} IN
  \/ /\ ~gate
     /\ queue' = [th \in Threads |-> <<>>]
     /\ fate' = [w \in Words |-> IF w \in QueuedWords THEN "refused" ELSE fate[w]]
     /\ resumes' = resumes \ held
     /\ Rest(p, cl, gens, bnd, act)
     /\ UNCHANGED into
  \/ /\ gate /\ QueuedThreads = {} /\ held = {}
     /\ Rest(p, cl, gens, bnd, act)
     /\ UNCHANGED waitingVars
  \/ /\ gate
     /\ \E th \in QueuedThreads, t \in Turns :
          /\ Begin(t, th, p, gens, bnd)
          /\ Hand(ItemsOf(queue[th]), t)
          /\ TakeQueue(th)
     /\ UNCHANGED resumes
  \/ /\ gate /\ QueuedThreads = {}
     /\ \E c \in held, t \in Turns :
          /\ Begin(t, c[1], p, gens, bnd)
          /\ resumes' = resumes \ {c}
     /\ UNCHANGED <<queue, fate, into>>
------------------------------------------------------------------------------
(* POST /api/bots/:id/messages on the open task. *)
Send(w) ==
  /\ fate[w] = "unsent"
  /\ \/ /\ ~Busy /\ gate
        /\ \E t \in Turns : Begin(t, current, pc, activeGen, bound) /\ Hand({w}, t)
        /\ UNCHANGED queue
     \/ /\ ~Busy /\ ~gate          \* startTurn throws before it changes anything
        /\ fate' = [fate EXCEPT ![w] = "returned"]
        /\ UNCHANGED <<dispatchVars, queue, into>>
     \/ /\ Busy                   \* no live steering, or the message has images
        /\ queue' = [queue EXCEPT ![current] = Append(@, w)]
        /\ fate' = [fate EXCEPT ![w] = "queued"]
        /\ UNCHANGED <<dispatchVars, into>>
     \/ /\ Busy /\ "steer" \in Behaviours   \* adapter.steer is awaited
        /\ fate' = [fate EXCEPT ![w] = "steering"]
        /\ into' = [into EXCEPT ![w] =
             IF adapter[current] \in interrupted THEN None ELSE adapter[current]]
        /\ UNCHANGED <<dispatchVars, queue>>
  /\ steering' = IF fate'[w] = "steering" THEN steering \cup {<<w, current>>} ELSE steering
  /\ UNCHANGED <<current, gate, providerVars, quarantineVars, completed, watch,
                 grace, stops, resumes, cancelled, used>>

(* The await of adapter.steer returns: accepted when the words reached a   *)
(* running turn.  Ownership is read again before anything is recorded.     *)
Accepted_Ignored(w) == FALSE
Accepted(w) == into[w] # None

SteerReturns(w, th) ==
  /\ <<w, th>> \in steering
  /\ steering' = steering \ {<<w, th>>}
  /\ \/ /\ th # current \/ (Accepted(w) /\ ~Busy) \/ (~Busy /\ ~gate)
        /\ fate' = [fate EXCEPT ![w] = "returned"]
        /\ UNCHANGED <<dispatchVars, queue, into>>
     \/ /\ th = current /\ Accepted(w) /\ Busy
        /\ fate' = [fate EXCEPT ![w] = "steered"]
        /\ UNCHANGED <<dispatchVars, queue, into>>
     \/ /\ th = current /\ ~Accepted(w) /\ Busy
        /\ queue' = [queue EXCEPT ![th] = Append(@, w)]
        /\ fate' = [fate EXCEPT ![w] = "queued"]
        /\ UNCHANGED <<dispatchVars, into>>
     \/ /\ th = current /\ ~Accepted(w) /\ ~Busy /\ gate
        /\ \E t \in Turns : Begin(t, th, pc, activeGen, bound) /\ Hand({w}, t)
        /\ UNCHANGED queue
  /\ UNCHANGED <<current, gate, providerVars, quarantineVars, completed, watch,
                 grace, stops, resumes, cancelled, used>>

(* DELETE /api/bots/:id/queue/:queueId *)
CancelQueued(w) ==
  /\ \E th \in Threads : \E i \in DOMAIN queue[th] :
       /\ queue[th][i] = w
       /\ queue' = [queue EXCEPT ![th] =
                      SubSeq(@, 1, i - 1) \o SubSeq(@, i + 1, Len(@))]
  /\ fate' = [fate EXCEPT ![w] = "returned"]
  /\ UNCHANGED <<dispatchVars, current, gate, providerVars, quarantineVars, completed,
                 watch, grace, stops, resumes, into, steering, cancelled, used>>

(* A delegated reply lands, or a connector or credential card is answered: *)
(* the turn the bot should resume starts now or waits for the bot.         *)
ResumeArrives(th, k) ==
  /\ used.resumes < MaxResumes
  /\ used' = [used EXCEPT !.resumes = @ + 1]
  /\ \/ /\ Busy
        /\ resumes' = resumes \cup {<<th, k>>}
        /\ UNCHANGED dispatchVars
     \/ /\ ~Busy /\ gate
        /\ \E t \in Turns : Begin(t, th, pc, activeGen, bound)
        /\ UNCHANGED resumes
     \/ /\ ~Busy /\ ~gate           \* an error chip is all that remains
        /\ UNCHANGED <<dispatchVars, resumes>>
  /\ UNCHANGED <<current, gate, providerVars, quarantineVars, completed, watch,
                 grace, stops, queue, fate, into, steering, cancelled>>

(* POST /api/bots/:id/tasks/:threadId *)
SwitchTask(th) ==
  /\ ~Busy /\ th # current
  /\ current' = th
  /\ UNCHANGED <<dispatchVars, gate, providerVars, quarantineVars, completed, watch,
                 grace, stops, waitingVars, steering, cancelled, used>>

(* An approval grant, a provider transition, a checkpoint restore or a     *)
(* cloud lifecycle change begins or ends.                                  *)
ToggleGate ==
  /\ "gate" \in Behaviours
  /\ gate' = ~gate
  /\ UNCHANGED <<dispatchVars, current, providerVars, quarantineVars, completed, watch,
                 grace, stops, waitingVars, steering, cancelled, used>>
------------------------------------------------------------------------------
(* clearCancelledProviderHandshake *)
Cleared_Forgotten(t) == pending
Cleared(t) == pending \ {t}

(* The catch block up to its await of the browser release. *)
CatchEntry(t, kind) ==
  /\ pending' = Cleared(t)
  /\ claim' = IF ClaimExists(t) THEN NoClaim ELSE claim
  /\ activeGen' = RevokeGen(activeGen, t)
  /\ bound' = bound \ {t}
  /\ pc' = [pc EXCEPT ![t] = kind]
  /\ UNCHANGED <<activity, latest, turnThread>>

(* The computer, the checkpoint and the browser are ready. *)
SetupEnds(t) ==
  /\ pc[t] = "setup"
  /\ \/ /\ ClaimIsCurrent(t)
        /\ pc' = [pc EXCEPT ![t] = "waiting"]
        /\ UNCHANGED <<activity, claim, latest, turnThread, activeGen, bound, pending>>
     \/ /\ ~ClaimIsCurrent(t)
        /\ CatchEntry(t, "cancelled")
  /\ UNCHANGED <<current, gate, providerVars, retired, completed, watch,
                 grace, stops, waitingVars, steering, cancelled, used>>

SetupFails(t) ==
  /\ pc[t] = "setup"
  /\ CatchEntry(t, "failed")
  /\ UNCHANGED <<current, gate, providerVars, retired, completed, watch,
                 grace, stops, waitingVars, steering, cancelled, used>>

WatchTurn_Never(th) == UNCHANGED watch
WatchTurn(th) == watch' = [watch EXCEPT ![th] = "on"]

(* waitForClear resolved: mark the claim dispatching and call sendTurn,    *)
(* which throws when the adapter still runs a turn on the thread.          *)
Dispatch(t) ==
  LET th == turnThread[t] IN
  /\ pc[t] = "waiting" /\ ~Gate(th)
  /\ \/ /\ ClaimIsCurrent(t)
        /\ claim' = [claim EXCEPT !.phase = "dispatching"]
        /\ WatchTurn(th)
        /\ pc' = [pc EXCEPT ![t] = "sending"]
        /\ provider' = [provider EXCEPT ![t] =
                          IF adapter[th] = None THEN "pending" ELSE "rejected"]
        /\ UNCHANGED <<activity, latest, turnThread, activeGen, bound, pending>>
     \/ /\ ~ClaimIsCurrent(t)
        /\ CatchEntry(t, "cancelled")
        /\ UNCHANGED <<watch, provider>>
  /\ UNCHANGED <<current, gate, adapter, interrupted, relaunched, openAsks, retired,
                 completed, grace, stops, waitingVars, steering, cancelled, used>>

(* interruptTurn stops whatever the adapter runs on the thread. *)
Interrupt_Unchecked(th) == interrupted' = interrupted \cup {adapter[th]}
Interrupt(th) == interrupted' = interrupted \cup ({adapter[th]} \ {None})

SecondInterrupt_Missing(t) == UNCHANGED interrupted
SecondInterrupt(t) == Interrupt(turnThread[t])

(* sendTurn returned the turn id: guardTurnDispatch asks whether the claim *)
(* still stands, and stops the provider a second time if it does not.      *)
SendResolves(t) ==
  /\ pc[t] = "sending" /\ provider[t] \in {"live", "done"}
  /\ \/ /\ ClaimExists(t)
        /\ claim' = NoClaim
        /\ pc' = [pc EXCEPT ![t] = "done"]
        /\ IF <<t, 1>> \in completed \/ ~Busy
             THEN activeGen' = RevokeGen(activeGen, t) /\ bound' = bound \ {t}
             ELSE activeGen' = activeGen /\ bound' = bound \cup {t}
        /\ UNCHANGED interrupted
     \/ /\ ~ClaimExists(t)
        /\ SecondInterrupt(t)
        /\ pc' = [pc EXCEPT ![t] = "stopping"]
        /\ UNCHANGED <<claim, activeGen, bound>>
  /\ UNCHANGED <<activity, latest, turnThread, current, gate, provider, adapter,
                 relaunched, openAsks, quarantineVars, completed, watch, grace, stops,
                 waitingVars, steering, cancelled, used>>

SendRejects(t) ==
  /\ pc[t] = "sending" /\ provider[t] \in {"pending", "rejected"}
  /\ provider' = [provider EXCEPT ![t] = "done"]
  /\ CatchEntry(t, "failed")
  /\ UNCHANGED <<current, gate, adapter, interrupted, relaunched, openAsks, retired,
                 completed, watch, grace, stops, waitingVars, steering, cancelled, used>>

(* The second interrupt returned: the late turn id is retired. *)
GuardStopReturns(t) ==
  /\ pc[t] = "stopping"
  /\ retired' = retired \cup {<<t, 1>>}
  /\ CatchEntry(t, "cancelled")
  /\ UNCHANGED <<current, gate, providerVars, completed, watch, grace, stops,
                 waitingVars, steering, cancelled, used>>

(* The rest of the catch block.  Only the newest generation may release    *)
(* the bot; a failed dispatch idles it outright.                           *)
AfterCatch_StillBusy(t) == activity
AfterCatch(t) == IF Busy \/ pc[t] = "failed" THEN "idle" ELSE activity

CatchKinds_NoWakes == {"connector", "secret"}
CatchKinds == ResumeKinds

CatchEnds(t) ==
  /\ pc[t] \in {"cancelled", "failed"}
  /\ LET p == [pc EXCEPT ![t] = "done"] IN
     \/ /\ latest = t
        /\ watch' = [watch EXCEPT ![turnThread[t]] = "off"]
        /\ Drain(CatchKinds, p, claim, activeGen, bound, AfterCatch(t))
     \/ /\ latest # t
        /\ pc' = p
        /\ UNCHANGED <<activity, claim, latest, turnThread, activeGen, bound,
                       watch, waitingVars>>
  /\ UNCHANGED <<current, gate, providerVars, quarantineVars, completed, grace,
                 stops, steering, cancelled, used>>
------------------------------------------------------------------------------
(* The provider.  Every event passes shouldIgnoreProviderEvent first.      *)
Running(t) == provider[t] = "live"

(* The adapter registers the turn and emits turn.started. *)
ProviderStarts(t) ==
  /\ provider[t] = "pending"
  /\ provider' = [provider EXCEPT ![t] = "live"]
  /\ adapter' = [adapter EXCEPT ![turnThread[t]] = t]
  /\ retired' = retired \cup Revealed(t)
  /\ UNCHANGED <<dispatchVars, current, gate, interrupted, relaunched, openAsks, pending,
                 completed, watch, grace, stops, waitingVars, steering, cancelled, used>>

(* A transient failure: the driver relaunches the CLI after a backoff and  *)
(* the relaunch mints a turn id of its own.                                *)
Relaunch(t) ==
  /\ "relaunch" \in Behaviours
  /\ Running(t) /\ pc[t] # "sending" /\ openAsks[t] = 0
  /\ t \notin interrupted \cup relaunched
  /\ relaunched' = relaunched \cup {t}
  /\ retired' = retired \cup (IF Gate(turnThread[t]) THEN {<<t, 1>>, <<t, 2>>} ELSE {})
  /\ UNCHANGED <<dispatchVars, current, gate, provider, adapter, interrupted, openAsks,
                 pending, completed, watch, grace, stops, waitingVars, steering,
                 cancelled, used>>

SetWaitingOnHuman(th, state) ==
  watch' = [watch EXCEPT ![th] = IF @ = "off" THEN @ ELSE state]

(* request.opened reaches a person: the bot waits on them, and so does the *)
(* watchdog.                                                               *)
Ask(t) ==
  /\ Running(t) /\ t \notin interrupted /\ openAsks[t] < MaxAsks
  /\ openAsks' = [openAsks EXCEPT ![t] = @ + 1]
  /\ \/ /\ Quarantined(t)
        /\ UNCHANGED <<watch, activity>>
     \/ /\ ~Quarantined(t)
        /\ SetWaitingOnHuman(turnThread[t], "human")
        /\ activity' = IF Busy THEN "waiting" ELSE activity
  /\ retired' = retired \cup Revealed(t)
  /\ UNCHANGED <<claim, latest, turnThread, pc, activeGen, bound, current, gate, provider,
                 adapter, interrupted, relaunched, pending, completed, grace, stops,
                 waitingVars, steering, cancelled, used>>

(* request.resolved *)
Answer(t) ==
  /\ Running(t) /\ openAsks[t] > 0
  /\ openAsks' = [openAsks EXCEPT ![t] = @ - 1]
  /\ \/ /\ Quarantined(t)
        /\ UNCHANGED <<watch, activity>>
     \/ /\ ~Quarantined(t)
        /\ SetWaitingOnHuman(turnThread[t], "on")
        /\ activity' = IF activity = "waiting" THEN "working" ELSE activity
  /\ retired' = retired \cup Revealed(t)
  /\ UNCHANGED <<claim, latest, turnThread, pc, activeGen, bound, current, gate, provider,
                 adapter, interrupted, relaunched, pending, completed, grace, stops,
                 waitingVars, steering, cancelled, used>>

(* turn.completed, alone or right behind a setup error ("dead").  The fold *)
(* goes by the thread: it idles the bot, settles the watchdog, revokes the *)
(* generation bound to the id and drains what queued behind the turn.      *)
Settle(t, setupError) ==
  LET th  == turnThread[t]
      mine == t \in bound /\ IdOf(t) = <<t, 1>>
  IN
  /\ Running(t) \/ (provider[t] = "pending" /\ setupError)
  /\ pc[t] = "sending" => "early" \in Behaviours
  /\ provider' = [provider EXCEPT ![t] = "done"]
  /\ adapter' = IF Running(t) THEN [adapter EXCEPT ![th] = None] ELSE adapter
  /\ openAsks' = [openAsks EXCEPT ![t] = 0]
  /\ retired' = retired \cup Revealed(t)
  /\ \/ /\ Quarantined(t)
        /\ UNCHANGED <<dispatchVars, completed, watch, waitingVars>>
     \/ /\ ~Quarantined(t)
        /\ completed' = completed \cup {IdOf(t)}
        /\ watch' = [watch EXCEPT ![th] = "off"]
        /\ Drain(ResumeKinds, pc, claim,
                 IF mine THEN RevokeGen(activeGen, t) ELSE activeGen,
                 IF mine THEN bound \ {t} ELSE bound,
                 IF setupError \/ activity = "dead" THEN "dead" ELSE "idle")
  /\ UNCHANGED <<current, gate, interrupted, relaunched, pending, grace, stops,
                 steering, cancelled, used>>
------------------------------------------------------------------------------
(* POST /api/bots/:id/interrupt.  The first half cancels the claim and     *)
(* revokes the capabilities; the adapter is reached after an await.        *)
(* stops remembers which turn held the bot, for the properties below.      *)
Stop(expected) ==
  LET id   == claim.id
      ours == id # None /\ (expected = None \/ turnThread[id] = expected)
      th   == IF ours THEN turnThread[id] ELSE current
  IN
  /\ used.stops < MaxStops
  /\ expected = None \/ expected = current \/ (id # None /\ turnThread[id] = expected)
  /\ used' = [used EXCEPT !.stops = @ + 1]
  /\ claim' = IF ours THEN NoClaim ELSE claim
  /\ pending' = IF ours /\ claim.phase = "dispatching" THEN pending \cup {id} ELSE pending
  /\ cancelled' = IF ours THEN cancelled \cup {id} ELSE cancelled
  /\ activeGen' = RevokeThread(activeGen, th)
  /\ bound' = bound \ {activeGen[th]}
  /\ stops' = stops \cup {[thread |-> th, turn |-> IF Busy THEN latest ELSE None]}
  /\ UNCHANGED <<activity, latest, turnThread, pc, current, gate, providerVars, retired,
                 completed, watch, grace, waitingVars, steering>>

StopReaches(s) ==
  /\ s \in stops
  /\ stops' = stops \ {s}
  /\ Interrupt(s.thread)
  /\ UNCHANGED <<dispatchVars, current, gate, provider, adapter, relaunched, openAsks,
                 quarantineVars, completed, watch, grace, waitingVars, steering,
                 cancelled, used>>

(* The 30 s quarantine of a handshake that never resolved runs out. *)
ExpireHandshake(t) ==
  /\ "hang" \in Behaviours
  /\ t \in pending
  /\ pending' = pending \ {t}
  /\ UNCHANGED <<dispatchVars, current, gate, providerVars, retired, completed, watch,
                 grace, stops, waitingVars, steering, cancelled, used>>

(* TurnWatchdog.sweep finds a silent thread and calls onStall. *)
Stall(th) ==
  /\ used.stalls < MaxStalls
  /\ watch[th] = "on"
  /\ used' = [used EXCEPT !.stalls = @ + 1]
  /\ watch' = [watch EXCEPT ![th] = "off"]
  /\ activeGen' = RevokeThread(activeGen, th)
  /\ bound' = bound \ {activeGen[th]}
  /\ Interrupt(th)
  /\ grace' = grace \cup {[thread |-> th, turn |-> latest]}
  /\ UNCHANGED <<activity, claim, latest, turnThread, pc, current, gate, provider, adapter,
                 relaunched, openAsks, quarantineVars, completed, stops, waitingVars,
                 steering, cancelled>>

(* releaseOwnership, six seconds later.  Delegation wakes are not drained. *)
GraceKinds_None == {}
GraceKinds == {"connector", "secret"}

GraceEnds(g) ==
  /\ g \in grace
  /\ "slow" \notin Behaviours => ~Running(g.turn)
  /\ grace' = grace \ {g}
  /\ \/ /\ Busy
        /\ Drain(GraceKinds, pc, claim, activeGen, bound, "idle")
     \/ /\ ~Busy
        /\ UNCHANGED <<dispatchVars, waitingVars>>
  /\ UNCHANGED <<current, gate, providerVars, quarantineVars, completed, watch, stops,
                 steering, cancelled, used>>
------------------------------------------------------------------------------
TurnStep(t) ==
  \/ SetupEnds(t) \/ SetupFails(t) \/ Dispatch(t) \/ SendResolves(t)
  \/ SendRejects(t) \/ GuardStopReturns(t) \/ CatchEnds(t)

ProviderStep(t) ==
  \/ ProviderStarts(t) \/ Relaunch(t) \/ Ask(t) \/ Answer(t)
  \/ \E setupError \in BOOLEAN : Settle(t, setupError)

Next ==
  \/ \E w \in Words : Send(w) \/ CancelQueued(w)
  \/ \E w \in Words, th \in Threads : SteerReturns(w, th)
  \/ \E th \in Threads, k \in ResumeKinds : ResumeArrives(th, k)
  \/ \E th \in Threads : SwitchTask(th) \/ Stall(th)
  \/ ToggleGate
  \/ \E t \in Turns : TurnStep(t) \/ ProviderStep(t) \/ ExpireHandshake(t)
  \/ \E e \in Threads \cup {None} : Stop(e)
  \/ \E s \in stops : StopReaches(s)
  \/ \E g \in grace : GraceEnds(g)

Spec == Init /\ [][Next]_vars

(***************************************************************************)
(* Fairness.  The harness keeps running: every await it makes itself ends. *)
(* FairSpec adds a provider that answers and ends its turns, and a person  *)
(* who answers the cards; WedgedSpec adds no provider at all and relies on *)
(* the watchdog, which sweeps every minute.                                *)
(***************************************************************************)
HarnessFairness ==
  /\ \A t \in Turns : /\ WF_vars(SetupEnds(t) \/ SetupFails(t))
                      /\ WF_vars(Dispatch(t))
                      /\ WF_vars(GuardStopReturns(t))
                      /\ WF_vars(CatchEnds(t))
  /\ WF_vars(\E s \in stops : StopReaches(s))
  /\ WF_vars(\E g \in grace : GraceEnds(g))
  /\ \A w \in Words, th \in Threads : WF_vars(SteerReturns(w, th))

ProviderFairness ==
  \A t \in Turns :
    /\ WF_vars(SendResolves(t) \/ SendRejects(t))
    /\ WF_vars(ProviderStarts(t) \/ SendRejects(t))
    /\ WF_vars(Answer(t))
    /\ SF_vars((openAsks[t] = 0 \/ t \in interrupted) /\ Settle(t, FALSE))

WatchdogFairness ==
  /\ \A th \in Threads : WF_vars(Stall(th))
  /\ \A t \in Turns : WF_vars(ExpireHandshake(t))

FairSpec == Spec /\ HarnessFairness /\ ProviderFairness
WedgedSpec == Spec /\ HarnessFairness /\ WatchdogFairness
------------------------------------------------------------------------------
TypeOK ==
  /\ activity \in Activities /\ current \in Threads /\ gate \in BOOLEAN
  /\ claim \in [id : Turns \cup {None}, phase : {"setup", "dispatching"}]
  /\ latest \in Turns \cup {None}
  /\ turnThread \in [Turns -> Threads \cup {None}]
  /\ pc \in [Turns -> Pcs]
  /\ provider \in [Turns -> {"none", "pending", "live", "rejected", "done"}]
  /\ adapter \in [Threads -> Turns \cup {None}]
  /\ interrupted \subseteq Turns /\ relaunched \subseteq Turns
  /\ openAsks \in [Turns -> 0..MaxAsks]
  /\ retired \subseteq ProviderIds /\ pending \subseteq Turns
  /\ activeGen \in [Threads -> Turns \cup {None}]
  /\ bound \subseteq Turns /\ completed \subseteq ProviderIds
  /\ watch \in [Threads -> {"off", "on", "human"}]
  /\ grace \subseteq [thread : Threads, turn : Turns \cup {None}]
  /\ stops \subseteq [thread : Threads, turn : Turns \cup {None}]
  /\ queue \in [Threads -> Seq(Words)]
  /\ resumes \subseteq Threads \X ResumeKinds
  /\ fate \in [Words -> Fates] /\ into \in [Words -> Turns \cup {None}]
  /\ steering \subseteq Words \X Threads /\ cancelled \subseteq Turns
  /\ used \in [stops : 0..MaxStops, stalls : 0..MaxStalls, resumes : 0..MaxResumes]

(* Two provider turns never run at once for one bot, the ones already told *)
(* to stop aside: the claim, the adapter's active map and the quarantine   *)
(* of unresolved handshakes keep a replacement out until then.             *)
OneProviderTurn ==
  \A t, u \in {x \in Turns : provider[x] \in {"pending", "live"}} \ interrupted : t = u

(* A busy bot is held by something that will release it: the newest        *)
(* startTurn, a provider turn whose events still count, or a grace timer.  *)
BusyBotHasOwner ==
  Busy => \/ latest # None /\ pc[latest] \notin {"none", "done"}
          \/ \E t \in Turns : Running(t) /\ IdOf(t) \notin retired
          \/ grace # {}

(* A capability generation is active only for a turn whose dispatch is not *)
(* over yet or whose provider runs: no bearer token outlives the turn it   *)
(* was minted for, and a stopped turn keeps none.                          *)
CapabilityHasLiveTurn ==
  \A th \in Threads : activeGen[th] # None =>
    LET t == activeGen[th] IN
    /\ turnThread[t] = th
    /\ t \notin cancelled
    /\ pc[t] \in {"setup", "waiting", "sending", "stopping"} \/ Running(t)

(* Nothing waits behind an idle bot: whatever releases the bot also drains *)
(* the steer queue and the card resumes, or they would wait for a turn     *)
(* that nobody starts.                                                     *)
IdleBotHasEmptyQueues ==
  ~Busy => /\ QueuedThreads = {}
           /\ \A c \in resumes : c[2] = "wake"

(* The same for the wake a delegated reply leaves for its source bot.      *)
IdleBotHasNoHeldWake == ~Busy => resumes = {}

(* A queued word is in exactly one place, once, and a word that left the   *)
(* queue is in none: a settle racing another settle cannot run it twice.   *)
WordsAreInOnePlace ==
  /\ QueuedWords = {w \in Words : fate[w] = "queued"}
  /\ \A th, h \in Threads : \A i \in DOMAIN queue[th], j \in DOMAIN queue[h] :
       queue[th][i] = queue[h][j] => th = h /\ i = j

(* The words of one message never reach two turns. *)
WordsReachOneTurn ==
  [][\A w \in Words : into[w] # None => into'[w] = into[w]]_vars

(* The completion of a turn that Stop cancelled moves nothing: it neither  *)
(* idles the bot under its replacement nor drains the queue.               *)
CancelledTurnNeverSettlesBot ==
  [][\A t \in cancelled :
       provider[t] \in {"pending", "live"} /\ provider'[t] = "done"
         => UNCHANGED <<activity, claim, watch, queue, resumes>>]_vars

(* A turn stopped before its dispatch never reaches the provider. *)
StoppedBeforeDispatchNeverRuns ==
  [][\A t \in cancelled : provider[t] = "none" => provider'[t] = "none"]_vars

(* The bot always comes back. *)
BusyBotBecomesIdle == Busy ~> ~Busy

(* The same when nothing can be said of the provider: the watchdog and its *)
(* grace timer alone bring the bot back.                                   *)
WedgedBotBecomesIdle == Busy ~> ~Busy

(* Words held for a busy bot leave the queue. *)
QueuedWordsLeave == \A w \in Words : fate[w] = "queued" ~> fate[w] # "queued"
------------------------------------------------------------------------------
(* A bot keeps the promise of TurnQueue: the turn that holds it is the     *)
(* newest claim while it is busy, and the steer queue is the lanes.        *)
Began == {t \in Turns : pc[t] # "none"}
PlaceOf(f) == CASE f = "unsent" -> "new"
                [] f = "steering" -> "offered"
                [] f = "queued" -> "held"
                [] f \in {"steered", "handed"} -> "taken"
                [] OTHER -> f

Queue == INSTANCE TurnQueue WITH
  Lanes <- Threads, holder <- IF Busy THEN latest ELSE None, started <- Began,
  lane <- queue, place <- [w \in Words |-> PlaceOf(fate[w])], by <- into

ImplementsTurnQueue == Queue!Spec
============================================================================
