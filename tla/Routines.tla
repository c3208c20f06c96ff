------------------------------ MODULE Routines ------------------------------
(***************************************************************************)
(* The routine scheduler (server/routines.ts) and the confirmation cards   *)
(* that change it (server/routine-requests.ts): definitions with a cursor  *)
(* to their next occurrence, runs that wait for their bot or room, the     *)
(* turns they start, run limits, cancellation, restart, and the receipts   *)
(* that make a confirmed card take effect once.  Every step saves the file *)
(* before it yields, so a crash loses what is in memory only: the turns,   *)
(* the tick and the bots' activity.                                        *)
(***************************************************************************)
EXTENDS Naturals, FiniteSets, SequencesExt

CONSTANTS
  Defs,          \* routine definitions
  Plans,         \* what to start from: the schedules of some definitions, and of
                 \* each card the definition it is about and what it asks for
  Goals,         \* definitions whose target is a room goal
  Owner,         \* the bot, or the room, each definition runs in
  Period,        \* distance of the occurrences, the first being at 0
  OnceAt,        \* when a one-time routine is due
  Hook,          \* a webhook, as the definition of the runs it queues
  HookBot,       \* its bot
  RoutineCards,  \* confirmation cards open in transcripts
  NoTime,
  CatchUp,       \* CATCH_UP_MS
  RunLimit,      \* timeoutMinutes
  KeepRuns,      \* MAX_RUNS
  MaxClock,      \* bound: time
  MaxEdits,      \* bound: requests that change definitions or queue runs
  MaxTrouble     \* bound: crashes, turns given up, other conversations, deliveries

Kinds == {"once", "interval", "daily"}
Owners == {Owner[d] : d \in Defs} \cup {HookBot}

Actions == {"run_now", "pause", "delete"}
AllPlans == [schedule : UNION {[D -> Kinds] : D \in SUBSET Defs},
             card : [RoutineCards -> [def : Defs, action : Actions]]]

ASSUME RoutineDefsAssumption ==
  /\ IsFiniteSet(Defs) /\ Plans \subseteq AllPlans /\ Goals \subseteq Defs
  /\ Period \in [Defs -> Nat \ {0}] /\ OnceAt \in Nat
  /\ Hook \notin Defs /\ NoTime \notin Nat
ASSUME RoutineBoundsAssumption ==
  /\ CatchUp \in Nat /\ RunLimit \in Nat \ {0} /\ KeepRuns \in Nat
  /\ MaxClock \in Nat /\ MaxEdits \in Nat /\ MaxTrouble \in Nat

VARIABLES
  clock,
  plan,        \* the schedules, and what the cards ask for
  defs,        \* routines: present, enabled, nextRunAt, and whether updatedAt has moved
  runs,        \* runs, whose ids number them in the order they were created
  lastId,      \* how many runs were ever created
  setup,       \* turns that runs started and that are being set up
  liveRuns,    \* turns (or goal operations) that run
  stopped,     \* runs whose live turn was asked to stop
  elsewhere,   \* bots and rooms busy with other work
  gone,        \* rooms that lost their coordinator, deleted bots
  tick,        \* where tick stands
  wakeTick,    \* a tick is due as a microtask
  cards,       \* how each card was answered
  receipts,    \* routineRequestReceipts
  started,     \* history: runs that started a turn
  slots,       \* history: occurrences of repeating routines that started
  applied,     \* history: how often each card changed the scheduler
  leftOpen,    \* history: runs that their turn left open: the bot was freed without its
               \* event, or the team stopped to wait for the person
  spent        \* how much of each bound is spent

turnSets == <<setup, liveRuns, stopped>>
worldVars == <<plan, elsewhere, gone>>
cardVars == <<cards, receipts, applied>>
histVars == <<started, slots, leftOpen>>
routinesVars == <<clock, plan, defs, runs, lastId, setup, liveRuns, stopped, elsewhere, gone, tick,
                  wakeTick, cards, receipts, started, slots, applied, leftOpen, spent>>
------------------------------------------------------------------------------
Ending == {"completed", "failed", "cancelled", "missed"}
Active == {"running", "waiting"}
Unended == Active \cup {"queued"}
NoTick == [phase |-> "off", now |-> 0, at |-> 1, todo |-> {}]

Is(i, states) == \E r \in runs : r.id = i /\ r.status \in states
TurnOf(r) == [run |-> r.id, owner |-> r.owner, goal |-> r.def \in Goals]

(* save: past MAX_RUNS the oldest ended runs are dropped, never the others. *)
Evictable_Any(r) == TRUE
Evictable(r) == r.status \in Ending
Evicted(s) ==
  {r \in s : /\ Evictable(r)
             /\ Cardinality({q \in s : Evictable(q) /\ q.id <= r.id}) + KeepRuns
                  <= Cardinality(s)}
Saved(s) == s \ Evicted(s)
Mapped(Op(_)) == Saved({Op(r) : r \in runs})
Ended(r, status) == [r EXCEPT !.status = status, !.since = 0]
With(i, status) ==
  Mapped(LAMBDA r : IF r.id # i THEN r
                    ELSE IF status \in Ending THEN Ended(r, status) ELSE [r EXCEPT !.status = status])

NewRun(i, d, at, trigger, status) ==
  [id |-> i, def |-> d, slot |-> at, trigger |-> trigger, status |-> status,
   owner |-> IF d = Hook THEN HookBot ELSE Owner[d], since |-> 0]

(* Occurrences of interval and daily routines are multiples of the period. *)
NextOccurrence_Reached(d, after) ==
  IF plan.schedule[d] = "once" THEN NoTime ELSE Period[d] * ((after + Period[d] - 1) \div Period[d])
NextOccurrence(d, after) ==
  IF plan.schedule[d] = "once" THEN NoTime ELSE Period[d] * (after \div Period[d] + 1)
LatestOccurrence(d, at) == Period[d] * (at \div Period[d])
InitialOccurrence(d, at) == IF plan.schedule[d] = "once" THEN OnceAt ELSE NextOccurrence(d, at)

NoDefinition == [present |-> FALSE, enabled |-> FALSE, edited |-> TRUE, next |-> NoTime]

RoutinesInit ==
  /\ clock = 0
  /\ plan \in Plans
  /\ defs = [d \in Defs |->
       IF d \notin DOMAIN plan.schedule THEN NoDefinition
       ELSE [present |-> TRUE, enabled |-> TRUE, edited |-> FALSE,
             next |-> InitialOccurrence(d, 0)]]
  /\ runs = {} /\ lastId = 0
  /\ setup = {} /\ liveRuns = {} /\ stopped = {}
  /\ elsewhere = {} /\ gone = {}
  /\ tick = NoTick /\ wakeTick = TRUE
  /\ cards = [c \in RoutineCards |-> "open"] /\ receipts = {}
  /\ started = {} /\ slots = {} /\ leftOpen = {}
  /\ applied = [c \in RoutineCards |-> 0]
  /\ spent = [edits |-> 0, trouble |-> 0]
------------------------------------------------------------------------------
Busy(o) == o \in elsewhere \/ \E t \in setup \cup liveRuns : t.owner = o

(* A microtask tick that finds a tick under way does nothing. *)
WakeTick == wakeTick' = (tick.phase = "off")

(* failThread, finishGoalRun and the settling half of handleRuntimeEvent:  *)
(* only an active run answers to its thread.                               *)
Settles_WhenRunning(i, status) ==
  /\ runs' = IF Is(i, {"running"}) THEN With(i, status) ELSE runs
  /\ IF Is(i, {"running"}) THEN WakeTick ELSE UNCHANGED wakeTick
Settles(i, status) ==
  /\ runs' = IF Is(i, Active) THEN With(i, status) ELSE runs
  /\ IF Is(i, Active) THEN WakeTick ELSE UNCHANGED wakeTick

(* tick, first part: runs past their limit fail and are interrupted, each  *)
(* interruption awaited.  The loop goes by position, so it passes over a   *)
(* run that the save before moved forward in the list.                     *)
TickBegins ==
  /\ tick.phase = "off"
  /\ tick' = [NoTick EXCEPT !.phase = "limit", !.now = clock]
  /\ wakeTick' = FALSE
  /\ UNCHANGED <<clock, defs, runs, lastId, turnSets, worldVars, cardVars, histVars, spent>>

Position(r) == Cardinality({q \in runs : q.id <= r.id})
OverLimit ==
  {r \in runs : /\ r.status \in Active /\ r.def # Hook
                /\ tick.now >= r.since + RunLimit /\ Position(r) >= tick.at}
Stopping(turns) == stopped' = stopped \cup {t.run : t \in turns}

TickLimit ==
  /\ tick.phase = "limit"
  /\ \E late \in OverLimit :
       /\ \A r \in OverLimit : late.id <= r.id
       /\ runs' = With(late.id, "failed")
       /\ Stopping({t \in setup \cup liveRuns : t.run = late.id})
       /\ tick' = [tick EXCEPT !.phase = "awaiting", !.at = Position(late) + 1]
  /\ UNCHANGED <<clock, defs, lastId, setup, liveRuns, worldVars, wakeTick, cardVars,
                 histVars, spent>>

InterruptAnswers ==
  /\ tick.phase = "awaiting"
  /\ tick' = [tick EXCEPT !.phase = "limit"]
  /\ UNCHANGED <<clock, defs, runs, lastId, turnSets, worldVars, wakeTick, cardVars,
                 histVars, spent>>

(* tick, second part: due definitions queue a run, or record a missed one, *)
(* and move their cursor on.                                               *)
Due == {d \in Defs : /\ defs[d].present /\ defs[d].enabled
                     /\ defs[d].next # NoTime /\ defs[d].next <= tick.now}
IsLate(d) == defs[d].next + CatchUp < tick.now
SlotOf(d) == IF plan.schedule[d] = "interval" /\ ~IsLate(d) THEN LatestOccurrence(d, tick.now)
             ELSE defs[d].next
Overlapping(d) == /\ plan.schedule[d] = "interval"
                  /\ \E r \in runs : r.def = d /\ r.status \in Unended

TickDue ==
  /\ tick.phase = "limit" /\ OverLimit = {}
  /\ LET firing == SetToSeq({d \in Due : ~Overlapping(d)})
         new == {NewRun(lastId + k, firing[k], SlotOf(firing[k]), "schedule",
                        IF IsLate(firing[k]) THEN "missed" ELSE "queued") : k \in DOMAIN firing}
         all == IF Due = {} THEN runs ELSE Saved(runs \cup new)
     IN /\ runs' = all
        /\ lastId' = lastId + Len(firing)
        /\ tick' = [tick EXCEPT !.phase = "start", !.at = 1, !.todo = {r.id : r \in all}]
  /\ defs' = [d \in Defs |->
       IF d \notin Due THEN defs[d]
       ELSE IF plan.schedule[d] = "once"
            THEN [defs[d] EXCEPT !.next = NoTime, !.enabled = FALSE, !.edited = TRUE]
            ELSE [defs[d] EXCEPT !.next = NextOccurrence(d, tick.now)]]
  /\ UNCHANGED <<clock, turnSets, worldVars, wakeTick, cardVars, histVars, spent>>

(* tick, third part: every queued run whose bot or room is free starts,    *)
(* the last created first, an interval run for the newest occurrence.      *)
Aligned(r) == IF /\ r.trigger = "schedule" /\ defs[r.def].present
                 /\ plan.schedule[r.def] = "interval" /\ LatestOccurrence(r.def, tick.now) > r.slot
              THEN LatestOccurrence(r.def, tick.now) ELSE r.slot

Repeats(r) == r.trigger = "schedule" /\ plan.schedule[r.def] # "once"

StaysQueued(r) ==
  /\ r.owner \notin gone /\ Busy(r.owner)
  /\ runs' = Mapped(LAMBDA q : IF q.id = r.id THEN [q EXCEPT !.slot = Aligned(r)] ELSE q)
  /\ UNCHANGED <<setup, wakeTick, started, slots>>

CannotStart(r) ==
  /\ r.owner \in gone \/ ~Busy(r.owner)
  /\ runs' = With(r.id, "failed")
  /\ wakeTick' \in BOOLEAN
  /\ UNCHANGED <<setup, started, slots>>

Begun(q, at) == [q EXCEPT !.slot = at, !.status = "running", !.since = clock]
Starts(r) ==
  /\ r.owner \notin gone /\ ~Busy(r.owner)
  /\ runs' = Mapped(LAMBDA q : IF q.id = r.id THEN Begun(q, Aligned(r)) ELSE q)
  /\ setup' = setup \cup {TurnOf(r)}
  /\ started' = started \cup {r.id}
  /\ slots' = IF Repeats(r) THEN slots \cup {<<r.def, Aligned(r)>>} ELSE slots
  /\ UNCHANGED wakeTick

TickStart ==
  /\ tick.phase = "start"
  /\ \E i \in tick.todo :
       /\ \A j \in tick.todo : j <= i
       /\ tick' = [tick EXCEPT !.todo = @ \ {i}]
       /\ \/ ~Is(i, {"queued"}) /\ UNCHANGED <<runs, setup, wakeTick, started, slots>>
          \/ \E r \in runs : /\ r.id = i /\ r.status = "queued"
                             /\ StaysQueued(r) \/ CannotStart(r) \/ Starts(r)
  /\ UNCHANGED <<clock, defs, lastId, liveRuns, stopped, worldVars, cardVars, leftOpen, spent>>

TickEnds ==
  /\ tick.phase = "start" /\ tick.todo = {}
  /\ tick' = NoTick
  /\ UNCHANGED <<clock, defs, runs, lastId, turnSets, worldVars, wakeTick, cardVars,
                 histVars, spent>>
------------------------------------------------------------------------------
(* The turns. *)
Trouble == /\ spent.trouble < MaxTrouble
           /\ spent' = [spent EXCEPT !.trouble = @ + 1]
Gone(t) == stopped' = stopped \ {t.run}

(* What waits for the owner, a queued message for one, may take it before  *)
(* the tick that follows.                                                  *)
Frees(t) ==
  \/ UNCHANGED <<elsewhere, spent>>
  \/ Trouble /\ t.owner \notin gone /\ elsewhere' = elsewhere \cup {t.owner}

SetupEnds(t) ==
  /\ t \in setup
  /\ setup' = setup \ {t}
  /\ \/ /\ t.run \notin stopped \/ t.goal
        /\ liveRuns' = liveRuns \cup {t}
        /\ UNCHANGED <<runs, wakeTick, stopped, elsewhere, spent>>
     \/ /\ ~t.goal
        /\ Settles(t.run, "failed")
        /\ Gone(t) /\ Frees(t)
        /\ UNCHANGED liveRuns
  /\ UNCHANGED <<clock, defs, lastId, plan, gone, tick, cardVars, histVars>>

(* turn.completed of a bot's run; finishGoalRun of a goal, which also      *)
(* reports that the team waits for an answer.                              *)
Outcomes(t) ==
  {"completed", "failed"} \cup (IF t.goal THEN {"cancelled", "waiting"} ELSE {})
TurnEnds(t) ==
  /\ t \in liveRuns
  /\ liveRuns' = liveRuns \ {t}
  /\ \E status \in Outcomes(t) :
       /\ Settles(t.run, status)
       /\ leftOpen' = IF status = "waiting" THEN leftOpen \cup {t.run} ELSE leftOpen
  /\ Gone(t) /\ Frees(t)
  /\ UNCHANGED <<clock, defs, lastId, plan, gone, setup, tick, cardVars, started, slots>>

(* request.opened and request.resolved *)
Asks(t) ==
  /\ t \in liveRuns /\ Is(t.run, {"running"})
  /\ runs' = With(t.run, "waiting")
  /\ UNCHANGED <<clock, defs, lastId, turnSets, worldVars, tick, wakeTick, cardVars,
                 histVars, spent>>
Resolves_Any(t) == Is(t.run, Unended \cup Ending)
Resolves(t) == Is(t.run, Active)
Answered(t) ==
  /\ t \in liveRuns /\ Resolves(t)
  /\ runs' = With(t.run, "running")
  /\ UNCHANGED <<clock, defs, lastId, turnSets, worldVars, tick, wakeTick, cardVars,
                 histVars, spent>>

(* A bot's turn that is given up: a grace timer of the watchdog, its own   *)
(* or a stale one, or a reload of the fleet frees the bot, and nothing is  *)
(* said to the scheduler.                                                  *)
FallsSilent(t) ==
  /\ t \in setup \cup liveRuns /\ ~t.goal
  /\ Trouble
  /\ setup' = setup \ {t} /\ liveRuns' = liveRuns \ {t}
  /\ leftOpen' = leftOpen \cup {t.run} /\ Gone(t)
  /\ UNCHANGED <<clock, defs, runs, lastId, worldVars, tick, wakeTick, cardVars,
                 started, slots>>

(* Events are told apart by their thread only.  While an active run has no *)
(* turn of its own, a later turn in its task, or what a turn given up      *)
(* still says, moves it all the same; a turn's end settles a bot's run and *)
(* means nothing to a goal.                                                *)
HasTurn(i) == \E t \in setup \cup liveRuns : t.run = i
LaterEvent(r) ==
  /\ r.status \in Active /\ ~HasTurn(r.id)
  /\ \/ /\ \E status \in Active : runs' = With(r.id, status)
        /\ UNCHANGED <<wakeTick, elsewhere>>
     \/ /\ r.def \notin Goals
        /\ \E status \in {"completed", "failed"} : Settles(r.id, status)
        /\ elsewhere' \in {elsewhere, elsewhere \ {r.owner}}
  /\ UNCHANGED <<clock, defs, lastId, turnSets, plan, gone, tick, cardVars, histVars, spent>>

BusyElsewhere(o) ==
  /\ ~Busy(o) /\ o \notin gone
  /\ Trouble
  /\ elsewhere' = elsewhere \cup {o}
  /\ UNCHANGED <<clock, defs, runs, lastId, turnSets, plan, gone, tick, wakeTick, cardVars, histVars>>
IdleAgain(o) ==
  /\ o \in elsewhere
  /\ elsewhere' = elsewhere \ {o}
  /\ UNCHANGED <<clock, defs, runs, lastId, turnSets, plan, gone, tick, wakeTick, cardVars,
                 histVars, spent>>

(* A restart: no local process still owns the turns, the file's runs that  *)
(* were active have failed, receipts of answered cards are dropped, and    *)
(* the scheduler ticks at once.                                            *)
Recovered_Requeued(r) ==
  IF r.status \in Active THEN [r EXCEPT !.status = "queued"] ELSE r
Recovered(r) == IF r.status \in Active THEN Ended(r, "failed") ELSE r
Reachable_None == {}
Reachable == {c \in RoutineCards : cards[c] = "open"}
Restart ==
  /\ Trouble
  /\ runs' = Mapped(Recovered)
  /\ receipts' = receipts \cap Reachable
  /\ setup' = {} /\ liveRuns' = {} /\ stopped' = {} /\ elsewhere' = {}
  /\ tick' = NoTick /\ wakeTick' = TRUE
  /\ UNCHANGED <<clock, defs, lastId, plan, gone, cards, applied, histVars>>
------------------------------------------------------------------------------
(* Requests.  A mutation and its receipt are one atomic save, undone in    *)
(* memory when the save fails.                                             *)
Edit == /\ spent.edits < MaxEdits
        /\ spent' = [spent EXCEPT !.edits = @ + 1]

Cancelled(r, which) == IF which THEN Ended(r, "cancelled") ELSE r
Waits(r, d) == r.def = d /\ r.status = "queued"

Pause_KeepsCursor(d) ==
  /\ Owner[d] \notin gone
  /\ defs' = [defs EXCEPT ![d].enabled = FALSE, ![d].edited = TRUE]
  /\ runs' = Mapped(LAMBDA r : Cancelled(r, Waits(r, d)))
  /\ UNCHANGED <<lastId, wakeTick>>
Pause(d) ==
  /\ Owner[d] \notin gone
  /\ defs' = [defs EXCEPT ![d].enabled = FALSE, ![d].next = NoTime, ![d].edited = TRUE]
  /\ runs' = Mapped(LAMBDA r : Cancelled(r, Waits(r, d)))
  /\ UNCHANGED <<lastId, wakeTick>>
Withdraw(d) ==
  /\ defs' = [defs EXCEPT ![d] = NoDefinition]
  /\ runs' = Mapped(LAMBDA r : Cancelled(r, Waits(r, d)))
  /\ UNCHANGED <<lastId, wakeTick>>
RunNow(d) ==
  /\ lastId' = lastId + 1
  /\ runs' = Saved(runs \cup {NewRun(lastId', d, clock, "manual", "queued")})
  /\ WakeTick
  /\ UNCHANGED defs
Operation(action, d) ==
  /\ defs[d].present
  /\ \/ action = "pause" /\ Pause(d)
     \/ action = "delete" /\ Withdraw(d)
     \/ action = "run_now" /\ RunNow(d)

(* PATCH, DELETE and run routes of the calendar *)
Request(action, d) ==
  /\ Edit /\ Operation(action, d)
  /\ UNCHANGED <<clock, turnSets, worldVars, tick, cardVars, histVars>>

(* Any other update, whether it enables the definition, renames it or      *)
(* reschedules it: the cursor is computed anew.                            *)
Update(d) ==
  /\ Edit /\ defs[d].present /\ Owner[d] \notin gone
  /\ \E on \in {TRUE, defs[d].enabled} :
       defs' = [defs EXCEPT ![d].enabled = on, ![d].edited = TRUE,
                            ![d].next = IF on THEN InitialOccurrence(d, clock) ELSE NoTime]
  /\ UNCHANGED <<clock, runs, lastId, turnSets, worldVars, tick, wakeTick, cardVars, histVars>>

(* enqueueWebhook *)
Deliver ==
  /\ Trouble /\ HookBot \notin gone
  /\ lastId' = lastId + 1
  /\ runs' = Saved(runs \cup {NewRun(lastId', Hook, clock, "webhook", "queued")})
  /\ WakeTick
  /\ UNCHANGED <<clock, defs, turnSets, worldVars, tick, cardVars, histVars>>

(* cancelQueuedWebhook: the webhook was paused or removed *)
CancelDeliveries ==
  /\ Edit /\ \E r \in runs : Waits(r, Hook)
  /\ runs' = Mapped(LAMBDA r : Cancelled(r, Waits(r, Hook)))
  /\ UNCHANGED <<clock, defs, lastId, turnSets, worldVars, tick, wakeTick, cardVars, histVars>>

(* cancelRun: of a run with a turn, the tick follows the interruption *)
CancelRun(i) ==
  /\ Edit /\ Is(i, Unended)
  /\ runs' = With(i, "cancelled")
  /\ Stopping({t \in setup \cup liveRuns : t.run = i})
  /\ IF Is(i, {"queued"}) THEN WakeTick ELSE UNCHANGED wakeTick
  /\ UNCHANGED <<clock, defs, lastId, setup, liveRuns, worldVars, tick, cardVars, histVars>>

(* disableForBot and disableForGroup *)
Disable(o) ==
  /\ Edit /\ o \notin gone
  /\ gone' = gone \cup {o} /\ elsewhere' = elsewhere \ {o}
  /\ defs' = [d \in Defs |-> IF Owner[d] = o /\ defs[d].enabled
                THEN [defs[d] EXCEPT !.enabled = FALSE, !.next = NoTime, !.edited = TRUE]
                ELSE defs[d]]
  /\ runs' = Mapped(LAMBDA r : Cancelled(r, r.owner = o /\ r.status \in Unended))
  /\ Stopping({t \in setup \cup liveRuns : t.owner = o})
  /\ UNCHANGED <<clock, plan, lastId, setup, liveRuns, tick, wakeTick, cardVars, histVars>>

(* A room's coordinator is hidden or leaves: its definitions stay.         *)
CoordinatorLeaves(o) ==
  /\ Edit /\ o \notin gone /\ \E d \in Goals : Owner[d] = o
  /\ gone' = gone \cup {o}
  /\ UNCHANGED <<clock, defs, runs, lastId, turnSets, plan, elsewhere, tick, wakeTick,
                 cardVars, histVars>>
------------------------------------------------------------------------------
(* A card.  Confirming it applies the operation together with a receipt,   *)
(* marks the card in the transcript, and forgets the receipt: three        *)
(* writes, any of which may be the last.  A card with a receipt was        *)
(* applied already, whatever is answered now.                              *)
Confirm(c) ==
  /\ cards[c] = "open"
  /\ \/ /\ c \in receipts
        /\ UNCHANGED <<defs, runs, lastId, wakeTick, applied>>
     \/ /\ c \notin receipts
        /\ ~defs[plan.card[c].def].edited
        /\ Operation(plan.card[c].action, plan.card[c].def)
        /\ applied' = [applied EXCEPT ![c] = @ + 1]
  /\ \/ receipts' = receipts \cup {c} /\ UNCHANGED cards
     \/ receipts' = receipts \cup {c} /\ cards' = [cards EXCEPT ![c] = "allow"]
     \/ receipts' = receipts \ {c} /\ cards' = [cards EXCEPT ![c] = "allow"]
  /\ UNCHANGED <<clock, turnSets, worldVars, tick, histVars, spent>>

Refuse(c) ==
  /\ cards[c] = "open"
  /\ \/ c \in receipts /\ cards' = [cards EXCEPT ![c] = "allow"] /\ receipts' = receipts \ {c}
     \/ c \notin receipts /\ cards' = [cards EXCEPT ![c] = "deny"] /\ UNCHANGED receipts
  /\ UNCHANGED <<clock, defs, runs, lastId, turnSets, worldVars, tick, wakeTick, applied,
                 histVars, spent>>

(* Another answer to a settled card retries the cleanup. *)
AnswerAgain(c) ==
  /\ cards[c] # "open" /\ c \in receipts
  /\ receipts' = receipts \ {c}
  /\ UNCHANGED <<clock, defs, runs, lastId, turnSets, worldVars, tick, wakeTick, cards,
                 applied, histVars, spent>>

Advance ==
  /\ clock < MaxClock
  /\ clock' = clock + 1
  /\ UNCHANGED <<defs, runs, lastId, turnSets, worldVars, tick, wakeTick, cardVars, histVars,
                 spent>>
------------------------------------------------------------------------------
Ticking == tick.phase \in {"limit", "start"}

TickSteps == TickLimit \/ TickDue \/ TickStart \/ TickEnds

TurnSteps ==
  \/ \E t \in setup : SetupEnds(t)
  \/ \E t \in liveRuns : TurnEnds(t) \/ Asks(t) \/ Answered(t)
  \/ \E t \in setup \cup liveRuns : FallsSilent(t)
  \/ \E r \in runs : LaterEvent(r)
  \/ \E o \in Owners : BusyElsewhere(o) \/ IdleAgain(o)

Requests ==
  \/ \E d \in Defs : Update(d) \/ \E a \in Actions : Request(a, d)
  \/ Deliver \/ CancelDeliveries
  \/ \E i \in 1 .. lastId : CancelRun(i)
  \/ \E o \in Owners : Disable(o) \/ CoordinatorLeaves(o)
  \/ \E c \in RoutineCards : Confirm(c) \/ Refuse(c) \/ AnswerAgain(c)

RoutinesNext ==
  \/ Restart
  \/ TickBegins
  \/ Ticking /\ TickSteps
  \/ ~Ticking /\ ~wakeTick /\ (InterruptAnswers \/ TurnSteps \/ Requests \/ Advance)

RoutinesSpec == RoutinesInit /\ [][RoutinesNext]_routinesVars
------------------------------------------------------------------------------
RunsOK ==
  runs \subseteq [id : 1 .. lastId, def : Defs \cup {Hook}, slot : Nat,
                   trigger : {"schedule", "manual", "webhook"},
                   status : Unended \cup Ending, owner : Owners, since : Nat]

RoutinesTypeOK ==
  /\ clock \in Nat /\ lastId \in Nat /\ plan \in AllPlans
  /\ defs \in [Defs -> [present : BOOLEAN, enabled : BOOLEAN, edited : BOOLEAN,
                        next : Nat \cup {NoTime}]]
  /\ \A d \in Defs : ~defs[d].enabled => defs[d].next = NoTime
  /\ RunsOK
  /\ setup \cup liveRuns \subseteq [run : 1 .. lastId, owner : Owners, goal : BOOLEAN]
  /\ stopped \subseteq 1 .. lastId
  /\ elsewhere \subseteq Owners /\ gone \subseteq Owners
  /\ tick.phase \in {"off", "limit", "awaiting", "start"}
  /\ tick.now \in Nat /\ tick.at \in Nat /\ tick.todo \subseteq 1 .. lastId
  /\ wakeTick \in BOOLEAN
  /\ cards \in [RoutineCards -> {"open", "allow", "deny"}] /\ receipts \subseteq RoutineCards
  /\ started \subseteq 1 .. lastId /\ leftOpen \subseteq started
  /\ slots \subseteq Defs \X Nat
  /\ applied \in [RoutineCards -> Nat]
  /\ spent \in [edits : 0 .. MaxEdits, trouble : 0 .. MaxTrouble]

(* A run that is shown as running or waiting has a turn that will end it,  *)
(* unless that turn was given up or left its goal waiting for the person:  *)
(* no ending, card, tick or edit leaves another run without one.           *)
ActiveRunHasTurn ==
  \A r \in runs : r.status \in Active =>
    \/ TurnOf(r) \in setup \cup liveRuns
    \/ r.id \in leftOpen

(* A turn that nobody asked to stop belongs to a run that is on record as  *)
(* active: pruning, restarts and edits never orphan it, so it can be       *)
(* cancelled, limited and settled.                                         *)
TurnHasActiveRun ==
  \A t \in setup \cup liveRuns : t.run \notin stopped => Is(t.run, Active)

(* A confirmed card changes the scheduler once, whatever writes fail or    *)
(* restarts happen in between, and a refused card never does.              *)
CardsApplyOnce ==
  \A c \in RoutineCards :
    /\ applied[c] <= 1
    /\ cards[c] = "allow" => applied[c] = 1
    /\ cards[c] = "deny" => applied[c] = 0

(* No run starts a second turn, and no occurrence a second run. *)
RunsStartOnce ==
  [][/\ \A t \in setup' \ setup : t.run \notin started
     /\ \A t \in setup' \ setup, r \in runs :
          t.run = r.id /\ Repeats(r) => slots' # slots]_routinesVars

(* What has ended stays as it ended. *)
EndedRunsStayEnded ==
  [][\A r \in runs, q \in runs' :
       r.id = q.id /\ r.status \in Ending => q.status = r.status]_routinesVars
=============================================================================
