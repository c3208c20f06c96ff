# A verification development for the OpenMakiBot harness

OpenMakiBot (called OpenMausBot in its code) is a local-first chat application whose
contacts are AI agents. One Node process, the *harness* (`src/server/`), owns the bots,
drives a coding-agent CLI for each running turn, and serves a React client, a desktop
shell, a phone companion and a hosted control plane. What is hard in it is not the
rendering but the protocol between the person, the harness and providers that answer late,
twice or never: who owns a bot, what a Stop means for work that has already left, what
happens to the words and handoffs that arrive meanwhile, and what survives a restart.

The modules here model that protocol from the code. TLC checks them on small instances, and
TLAPS proves the safety results for every value of the constants.

    tlc -workers 2 -config DirectTurn.cfg MCDirectTurn.tla
    tlapm DirectTurnProofs.tla

The proofs are in `DirectTurnProofs`, `DirectTurnWords`, `DirectTurnOwner`,
`DelegationsProofs`, `RoomsProofs`, `RoutinesProofs`, `DataDirLeaseProofs` and
`BoxCreationProofs`; the configurations are named after the runs of `PROJECT.json`.

## 1. The system: its parts, their state, how they interact

The harness is single-threaded JavaScript. Atomicity is therefore exact: everything between
two `await`s is one step, and every `await`, timer, provider event and HTTP request is a
point where something else may run. That is how the code is cut into actions.

| part | source (under `src/`) | state it keeps | operations | talks to | what makes it correct |
|---|---|---|---|---|---|
| Direct turns | `server/index.ts`, `server/turn-dispatch-guard.ts` | `bot.activity`, dispatch claims, generations, retired ids, cancelled handshakes, capability maps | send, startTurn, Stop, fold of provider events, catch block | adapters, watchdog, queues | one provider turn per bot; a cancelled turn neither starts nor settles; a busy bot is always released; capabilities die with their turn |
| Steer queue | `server/steer-queue.ts` | words per thread | enqueue, cancel, drain, live steer | direct turns | each message reaches one turn; nothing waits behind an idle bot |
| Turn watchdog | `server/turn-watchdog.ts` | per-thread entry, waiting-on-human flag | watch, touch, settle, sweep | direct turns, rooms | a wedged turn is released, a turn parked on a person is not |
| Peer handoffs | `server/delegations.ts` | durable queue, drain flags, retries, receipts | queue, drain, acknowledge, retry, discard | direct turns, approval cards | each handoff runs once and ends in an outcome its sender can read |
| Approval cards | `server/peer-approval.ts` | open cards and their timers | raise, answer, time out, close | handoffs, ask_bot | what was checked before the card is checked after it |
| Provider adapters | `server/drivers/{claude,codex}.ts`, `drivers/acp/` | active turn per thread | sendTurn, steer, interrupt, relaunch | direct turns, rooms | every started turn ends in one terminal event |
| Rooms | `server/index.ts`, `channel-queue.ts`, `room-turn-timeout.ts`, `group-goal-run.ts`, `room-post-budget.ts` | room turn, follow-up queue, pausable deadline, goal run, post budget | group turn, stall, requeue, goal steps | adapters, handoffs | one speaker at a time; the queue drains; a goal run stops within its cap |
| Routines | `server/routines.ts`, `routine-requests.ts` | due times, run records, confirmation cards | tick, run now, recover, confirm | direct turns, rooms, webhooks | a due slot fires once or is recorded as missed; a card is applied once |
| Webhooks | `server/webhooks.ts` | deliveries | verify, enqueue | routines | a delivery is not run twice |
| Send idempotency | `server/send-idempotency.ts` | sequencer per key | send again after a lost answer | store | a retried send appends once |
| Event bus | `server/harness/bus.ts` | subscribers, log outage flag | publish | everything | subscribers see a thread's events in order; an outage is marked once |
| Leases and computers | `local-vm-lease.ts`, `local-vm-idle.ts`, `computer-control.ts`, `box.ts`, `box-create-idempotency.ts` | lease holders, idle timers, creation journal | acquire, renew, release, create | direct turns | a machine is not stopped under a turn; a paid box is not created twice |
| Store | `store.ts`, `message-db.ts`, `message-file.ts`, `atomic.ts` | bots, threads, messages | append, branch, edit, restore | everything | the file and its mirror agree after a crash |
| Shell and services | `electron/`, `companion/`, `cloudflare/` | data-directory lease, update state, devices, endpoints | start, update, pair, route | harness | one writer per data directory |
| Clients and text | `src/`, `android/`, `ios/`, `skills.ts`, `system-prompt.ts` | none of their own | render, format | harness | — |

`PROJECT.json` repeats this list with what is and is not modelled of each part, and
lists the hazards of the code line by line. The modules are:

| module | models |
|---|---|
| `DirectTurn` | one bot's turns with the steer queue, the watchdog and the adapter as the harness sees it |
| `TurnQueue` | what a bot promises about messages; `DirectTurn` implements it |
| `Delegations` | peer handoffs with their approval cards |
| `Rooms` | a channel's chat rounds, their member turns, follow-ups, Stop and timers |
| `Routines` | the scheduler: ticks, runs, webhooks, confirmation cards, restart |
| `DataDirLease` | the data-directory lease of the desktop shell and its server child |
| `BoxCreation` | creation and removal of a bot's paid cloud machine |

`MC*` instantiate them for TLC, `*Claims` state sentences of the repository that the code
does not keep, and `*Proofs` (with `DirectTurnWords` and `DirectTurnOwner`) hold theorems.
They compose by assumption: `Delegations`, `Rooms` and `Routines` take from `DirectTurn` that
a turn ends once, and see another part's claim on a bot as the bot being busy.

The behaviours that decide the design:

* **Stop in two stages.** A Stop may arrive while `startTurn` is still setting up (nothing
  has been sent), while `sendTurn` is awaited (something has been sent but has no id yet), or
  while the provider runs. The guard cancels the claim, and in the second case quarantines
  the whole thread until the handshake resolves or 30 s pass.
* **Late and doubled endings.** A provider may complete before `sendTurn` resolves, fail
  after Stop, or never answer. The fold goes by thread, not by turn.
* **Release and drain.** A bot is released from five places (fold, two catch blocks, grace
  timer, fleet reload), and each must also start what queued behind the bot. `DirectTurn` has
  the first four; the fleet reload is an action of `Delegations` and `Rooms`, and one of the
  causes of `FallsSilent` in `Routines`.
* **Handoffs outlive turns.** They are durable, wait for a busy target, may wait a quarter
  of an hour for a person, and are found again after a restart.
* **Work held by several owners.** A member of a room may be claimed by its own chat, a
  handoff or a routine during every await of a room turn.
* **Effects that outlive the process.** A started routine run, a lease file and a request for
  a paid machine are still there after a crash, and the code must find out what they became.

## 2. `DirectTurn`: one bot's turns

**State.** A turn is named by its claim id. `claim`, `latest`, `retired`, `pending` are the
maps of `turn-dispatch-guard.ts` and `directTurnGenerationByBot`; `activeGen`, `bound`,
`completed` the internal-capability registry; `pc` is where the asynchronous half of each
`startTurn` stands between two awaits; `provider`, `adapter`, `interrupted`, `relaunched`,
`openAsks` are the adapter's side; `watch` and `grace` the watchdog and its six-second
timer; `queue` and `resumes` what waits behind the bot; `fate`, `into`, `cancelled` are
history. Each variable's comment names the field it stands for.

**Actions.** `Send`, `SteerReturns`, `CancelQueued`, `ResumeArrives`, `SwitchTask`, `Stop`,
`StopReaches` are the requests of a person; `SetupEnds`, `SetupFails`, `Dispatch`,
`SendResolves`, `SendRejects`, `GuardStopReturns`, `CatchEnds` the stages of `startTurn`;
`ProviderStarts`, `Relaunch`, `Ask`, `Answer`, `Settle` what a provider emits and the fold
does with it; `ExpireHandshake`, `Stall`, `GraceEnds` the timers; `ToggleGate` stands for
the other subsystems that make `startTurn` refuse with a 409 (approval grants, provider
transitions, checkpoint restore, cloud lifecycle). `Drain` is part of the releasing step,
never a step of its own. `PROJECT.json` "map" gives the lines of every definition.

**What the environment may do** is the constant `Behaviours`, a set of switches: turning one
off excludes a behaviour of a provider, never a check of the harness. Each run says which
are on; the theorems hold for every subset unless they say otherwise.

**Left out.** The fleet reload (`index.ts:7396-7438`): what `DirectTurn` shows is shown of one
life of the provider fleet. Other bots (they share a computer lease, see section 9); images, models, browser and
checkpoint contents; the text of messages; the transcript; edits and branches.

**What it implements.** `TurnQueue` is the promise without the machinery: each message is
new, waiting, given to one turn or returned to its sender, and a message that was given or
returned stays so. `ImplementsTurnQueue` maps `fate` and `into` to it; a step of `DirectTurn`
that drains a queue into one turn moves all its messages at once, and what the provider, the
timers and Stop do is a release of the bot or a stutter.

### Runs

| run | environment | checks | shows |
|---|---|---|---|
| `direct_turn` | 2 tasks, 3 turns, 2 messages, 1 continuation, 1 Stop; early completion, gate, live steering | `TypeOK`, `OneProviderTurn`, `WordsAreInOnePlace`, `IdleBotHasNoHeldWake`, `WordsReachOneTurn`, `CancelledTurnNeverSettlesBot`, `StoppedBeforeDispatchNeverRuns`, `ImplementsTurnQueue` | races of Stop, queue and settle; no message in two turns, no late ending under a replacement |
| `direct_turn_wedged` | a provider that hangs in its handshake or outlives its interrupt, one stall | `BusyBotHasOwner`, `CapabilityHasLiveTurn`, `IdleBotHasEmptyQueues`, `WedgedBotBecomesIdle` | nothing is left holding a bot or a token, no words are left behind, and the timers alone bring a wedged bot back |
| `direct_turn_fair` | provider and person answer | `BusyBotBecomesIdle`, `QueuedWordsLeave` | no interleaving wedges a bot or its queue |
| `claim_grace`, `claim_refused`, `claim_parked` | smallest instance for each | one comment each | section 8 |

**Bounds.** Every start consumes a message or a continuation, so `MCDirectTurn` assumes
`|Words| + MaxResumes <= |Turns|`: the supply of claim ids never blocks a start. Three turns
on two tasks are enough for a turn, the correction that replaces it, and one behind that;
all races above need a cancelled turn, its replacement and a late event. One Stop meets
every stage of a turn because TLC places it anywhere. `MaxAsks` is 2 in `claim_parked`
because one request cannot show the counter problem. The watchdog
and the stop are bounded by `MaxStalls` and `MaxStops`; the real clock is absent, so a stall
may come as soon as the watchdog's entry is `on`, which is more than the 20-minute threshold
(`OMB_TURN_STALL_MS`) allows. `CHECK_DEADLOCK FALSE` is set in every configuration because an idle bot to which
nobody writes is the system's normal rest.
The switch `relaunch` is off in `direct_turn_wedged`: see section 9.

**Fairness.** `HarnessFairness` says that awaits the harness makes for itself end (setup
succeeds or fails, a timer fires, `waitForClear` resumes): they are promises of local work or
timers. `ProviderFairness` adds a provider that answers `sendTurn` and ends its turns, and a
person who answers cards; a strong condition is needed for `Settle`, since cards open and
close. `WatchdogFairness` instead relies on the sweep of each minute and the 30 s expiry, so
that `WedgedBotBecomesIdle` says nothing about the provider.

## 3. `Delegations`: handing work to a peer

**State.** `pending`, `attempts`, `waiting`, `granted` are the fields of a queued item on
disk; `stage`, `item`, `left`, `snap`, `redrain` are one `drainDelegations` call per source
thread between two awaits; `retry` the due retry microtasks; `run` what each bot runs;
`watch` is `delegationWatch`; `grace` the watchdog's release timer of a bot, and what the
release leaves behind; `receipt` the durable outcome. The rest is history the properties need
(`fresh`, `charged`, `starts`, `refused`, `died`, `robbed`, `survivors`) and is read by no
guard, with two exceptions that only name things: an item is queued once (`queued`), and a
turn that never reached its provider cannot have queued anything (`fresh` in
`DispatchFails` and `Leaves`).

**Actions.** `Queue` is `delegate_bot` (or `ask_bot` falling back to it once approved);
`TakeUp` takes an item through the reach, busy and card checks of `processOne`; `AnswerCard`
re-reads what was checked before the card; `Dispatched` sets the watch, then starts the turn;
`Acknowledge` removes the item after its handler; `DrainEnds` looks again at what was queued
meanwhile; `TurnEnds` is the fold's part (watch, discard or drain, retry), `DispatchFails`
the catch block's; `Restart` is a crash at any instant, `Reload` the rebuild of the provider
fleet.

`Stall` is the watchdog's verdict: it settles the watch and takes the turn's capabilities.
`GraceEnds` is `releaseOwnership`, six seconds later: it idles the bot without draining or
discarding what its turn had queued, and, since it asks only whether the bot is busy, it may
release the *next* turn, whose watch it leaves behind. `LateTurnEnds` and `ReleasedSetupEnds`
are what may still come of a released turn: its `turn.completed`, which the fold takes by
thread, or, if it never reached its provider, the report of its preparation. A turn that was
released by the timer of an earlier one still has its capabilities, and may queue handoffs
while its bot is idle (`MayStillDelegate`).

A drain's steps are microtasks: the guard `Quiet` on every other action says that the
event loop takes nothing up while one is due. A crash needs no such guard.

| run | checks | shows |
|---|---|---|
| `delegations` | `TypeOK`, `NothingIsForgotten`, `NothingIsStranded`, `WatchIsOfTheRunningTurn`, `HandoffsStartOnce`, `RetriesCountBusyPeriods`, `DispatchIsCheckedLast`, `HandoffsSettle` | four handoffs among three bots (two sources with one target, one source with two targets), failing turns, refusals, one upset: apart from the exemptions below nothing is lost or stranded; nothing is run twice or against a revoked permission, and every handoff comes to an end |
| `claim_receipt` | `HandoffsEndInAReceipt` | section 8 |

**Bounds.** Two turns of the bots' own (`MaxTurns`), `MaxAttempts` 2 where the code has 3,
`MaxQueued` 2 where it has 4, one restart, reload, stall or lost peer (`MaxUpsets`). One stall
is enough for a release that strands what was queued, for a timer that meets the next turn,
and for a late completion behind it (0.94 million states); with two upsets the safety
properties held as well, run by hand (7.3 million states). Two attempts
are the least with both a retry and a last one. Of the four handoffs `d1` and `d2` have one
source and one target, so that one is busy work for the other and the last attempt is reached
with two turns; `d3` (a second source, the same target) makes the drain of one thread meet the
busy target of another; `d4` (the first source, a second target) is a third for a queue of two.
Bot `a` is gated by cards, `b` may refuse to start.

**Exemptions, each a fact about the code.** `NothingIsForgotten` exempts handoffs whose turn
died with the process (`delegationWatch` is not on disk), refused starts (the claim run), and
*robbed* ones, whose turn was released by the timer of an earlier turn: the watch stays behind,
and the next turn of that target overwrites it or reports its own outcome through it.
`NothingIsStranded` and `HandoffsSettle` exempt *survivors*: what a turn had queued when a fleet
reload killed it (`index.ts:7396-7438`) or the watchdog released it (`index.ts:2397-2412`), which
is neither drained nor discarded until the thread's next turn, and what a released turn queues.

**Fairness.** Microtasks run; a card is answered or times out after 15 minutes; a turn that has
not stalled ends, which is what `DirectTurn` shows under its own fairness; a stalled one need
not, but its six-second timer fires. A turn that the adapter has no place for, because it still
has the released one, fails.

**Left out.** One conversation per bot, so handoffs from rooms and from a routine's own
thread are not here; deleted bots and tasks; pruning of receipts (100, 48 h); the ask_bot
timeout ticket; the wake budget (the wake itself is `ResumeArrives` of `DirectTurn`); always
allow, which behaves like an ungated bot; the order of items in a thread, left open; the
awaits inside `reloadProviders`, collapsed into one step; the branch at
`delegations.ts:545` that settles an item whose source thread was deleted.

## 4. `Rooms`: a channel's chat rounds

**State.** `chain` is the promise chain of `groupQueues`: the operations that have begun and
not finished; `body` says where the first one stands (which responder, which hop, which await).
`cancelled`, `handshake`, `opGate`, `turnGate`, `retired`, `abandoned` are what the dispatch
guard knows; `busy`, `direct`, `busyBot`, `speaker` who has whom; `live`, `awaiting`, `stopping`
the provider's side of each member turn; `watch`, `release` the watchdog and the six-second
timers; `queue`, `fate`, `redrain` the follow-ups; `open`, `resumes` the cards; `strays` what a
stalled turn of a member's other conversation still has to come. `taken` is history: the bots
that were freed while the room held them and that it has not claimed anew since.

**Actions.** `Send`, `Withdraw`, `SwitchTask`, `Card`, `Interrupt` are a person's requests;
`BeginOp`, `NextResponder`, `WaitStopped`, `EnterTurn`, `TurnStopped`, `TurnGivenUp`,
`TurnSettled`, `Redrain` continue resolved promises, and `RoomsNext` takes them before anything
from outside, as the microtask queue does; `SetupEnds`, `BrowserEnds`, `Dispatch`,
`SendResolves`, `SecondInterruptSettles`, `SendRejects`, `Completes` are a member turn's awaits
and events; `WaitCap`, `DeadlineFires`, `Stall`, `ReleaseOwnership` the timers;
`ElsewhereStarts`, `ElsewhereEnds`, `ElsewhereStalls` a member's other conversations;
`ElsewhereTimer` the six-second timer of such a turn, which asks only whether the bot is busy,
and `ElsewhereLateEnd` its late `turn.completed`: both may come when the room holds the bot.
`Reload` is the rebuild of the provider fleet: every turn dies unheard, every bot is idled and
drained, and the room's speaker, operation and timers stay.

| run | checks | shows |
|---|---|---|
| `rooms` | `RoomsTypeOK`, `OneConversationPerBot`, `BusyRoomHasOwner`, `RunningTurnIsAwaitedOrIgnored`, `IdleRoomHasNoFollowUps`, `GivenUpTurnNeverSettlesRoom`, `StoppedRoundSendsNothing` | a member that nobody freed under the room is in one conversation at a time, a busy room has something that will free it, a late completion is never taken for the next speaker's, follow-ups wait only while the room works |
| `claim_followups`, `claim_continuation` | one sentence each | section 8 |

**Bounds.** Two members, one of whom (`b`) other conversations use too; two messages in two
tasks and a card of `b` in the first task: enough for an operation, the one behind it on the
chain, a follow-up in the other task, a chained mention, and a continuation that joins while
a given-up turn still runs. One Stop and one fault, anywhere (5.5 million states): a deadline, a
stall of the room's turn or of the other conversation's, or a fleet reload (`MaxFaults` counts
them together). With three faults a smaller instance, one message and one card for the shared
member, held as well when run by hand (1.5 million states).

**Exemptions.** `OneConversationPerBot` exempts the bots in `taken`: a reload, a stale timer or a
late end of another conversation idles a bot that the room still holds, and whoever comes next
may have it (section 9). The exemption ends when a room turn claims the bot from nobody.
`GivenUpTurnNeverSettlesRoom` exempts the reload, which frees every bot at once.
`IdleRoomHasNoFollowUps` excuses an idle room that a grace timer freed: the claim run shows why.

**Left out.** The loop of goal runs (`group-goal-run.ts`), the arithmetic of
`RoomTurnDeadline` (a deadline may come whenever a turn is at its provider, which is more than
its pauses allow), the budget of posts (`room-post-budget.ts`), several rooms, deleted rooms
and members, the transcript. `WaitCap` stands for the wait that ran out. Liveness is left to
`DirectTurn`: a room ends a turn by the same events and timers.

## 5. `Routines`: the scheduler and its cards

**State.** `defs` (enabled, `nextRunAt`, whether `updatedAt` has moved) and `runs` are the
file, a run's `id` being its place in the order of creation, from which its position in the
code's list (the last created is at the end, and a tick starts from there) follows; `setup`,
`liveRuns`, `stopped` the turns that runs started, `leftOpen` the runs whose turn left them open;
`tick` where the scheduler's tick stands between its awaits; `cards`, `receipts` the confirmation cards and the receipts
that survive a crash between the scheduler's write and the transcript's.

**Actions.** `TickBegins`, `TickLimit`, `InterruptAnswers`, `TickDue`, `TickStart`, `TickEnds`
are one tick, which awaits every interruption and goes through `runs` by position while `save`
prunes them; `SetupEnds`, `TurnEnds`, `Asks`, `Answered` what the turn of a run does;
`FallsSilent` a turn that the app gives up (its own grace timer or a stale one, or a fleet
reload) without telling the scheduler; `LaterEvent` an event of a later turn in the task of a
run that has no turn any more, for `handleRuntimeEvent` goes by thread
(`routines.ts:1175-1219`): it sets the run running or waiting, or ends a bot's run;
`Request`, `Update`, `Deliver`, `CancelDeliveries`, `CancelRun`, `Disable`,
`CoordinatorLeaves` the routes; `Confirm`, `Refuse`, `AnswerAgain` the cards; `Restart` a
crash anywhere.

The run `services` checks `RoutinesTypeOK`, `ActiveRunHasTurn`, `TurnHasActiveRun`, `CardsApplyOnce`,
`RunsStartOnce` and `EndedRunsStayEnded`. **Bounds:** a repeating and a one-time goal routine,
one of which a card is about (run it now, pause it, delete it); clock 0 to 2 with occurrences
one apart, a catch-up window and a run limit of one, so that late, missed and overlapping
occurrences all happen; two runs kept, so that pruning happens; one edit and one trouble
(crash, turn given up, delivery, other conversation). Two larger instances held as well when run
by hand: `MaxEdits` 2 (18.2 million states), `MaxTrouble` 2 (21.7 million).

**Left out.** Calendar arithmetic (daylight saving, weekdays): occurrences are multiples of a
period. The steps inside a goal run, failure texts, the webhook table with its signatures: a
delivery enters as `Deliver`.

**Exemption.** `ActiveRunHasTurn` exempts the runs in `leftOpen`, a history of the runs that their
own turn left open: it was given up without its event, or its team stopped to wait for the
person. What a later turn in that task does to such a run is in the model, and no run without
that mark is ever active without its turn. Section 9 says what becomes of them.

## 6. `DataDirLease` and `BoxCreation`: effects that outlive the process

**`DataDirLease`** has one record per lease path (`lease`), the election records that
contenders append for each dead owner (`reapers`), and where each process stands between two
file-system calls (`at`, `seen`, `generation`). Every step is one call of the file system or
one question to the kernel, and `Die` may come between any two. A desktop holds the primary
lease, its server child the second one. Checked: `LiveHolderOwnsTheFile` and
`NobodyIsRefusedByTheDead`, on four desktops and a child of the first, two elections per dead
owner: a dead owner, two contenders, and a reaper that dies with its successor elected.

**`BoxCreation`** has the bot's record in the journal (`journal`), the `provisionBox` calls
under way (`calls`, `loose` once a fleet restart has settled their turns), the deletion from the
settings, and the provider: keys it may still act on (`inflight`), boxes it `made` per key, what
is `live`, `named`, `deleting`. `Provision` to `ConfirmRemoval` are the call's stages between
two answers, each of which may be lost; `ProviderCreates` and `ProviderDeletes` act late;
`DayPasses` lets a key expire; `ServerCrashes`, `FleetRestarts` and `RemovedByHand` are the
faults. Checked: `OneBoxPerBot`, `NoBoxIsForgotten`, `CleanupSparesReadyBoxes`, on two calls,
two keys and two faults; with three keys and one fault (6.4 million states, by hand) they hold
as well. `BoxRejected` may answer any request at any time, one that the
provider has acted on or will still act on too: the code takes a definite 4xx as proof that
the key made no box (`box.ts:818-821`), which a retry refused by a rate limit or a revoked
token is not. What the provider made of a request that was answered with a rejection is
`Astray`; the two invariants are about all other boxes and requests.

**`services`** checks `Routines`, `DataDirLease` and `BoxCreation` in one run. They share no
state: the initial state chooses which of them moves, so the run is three searches, one after
the other (4.0 million states together).

**Left out.** Of the lease: torn or foreign records, which end in a refusal, and a pid that the kernel
gives to another process (section 9 tells of a guard that is read too early). Of boxes: several
bots, adopted machines with names of an older form (`adoptResolvedBox`), waking and stopping a
box, the journal's own file lock.

## 7. What is proved

Every invariant and every action property that a passing run checks is also a theorem, and so
is the refinement of the turn queue: for all sets (finite or not, unless said otherwise) of
tasks, turns, messages, bots, handoffs, routines, processes, calls and cards, for all periods
and limits and for all bounds.

| module | theorem | property | argument |
|---|---|---|---|
| `DirectTurnProofs` | `TypeInvariant`, `TypeCorrect` | `TypeOK` | `TypeOK` is not inductive: the step that reads `turnThread[t]` needs that a turn with a `pc`, a claim or a provider has a thread. `Started` adds that; the two together are `TypeInv`, on which everything below rests. |
| | `IdleBotKeepsNothingWaiting` | `IdleBotHasEmptyQueues` | Every step that may idle the bot goes through `Drain` (it empties what it is given or makes the bot busy), all others leave the queues or keep the bot busy (`IdleStep`). |
| | `StopBeforeDispatchIsFinal` | `StoppedBeforeDispatchNeverRuns` | The only step that gives a turn to its provider is `Dispatch`, which requires the claim; a cancelled turn has lost it and claims are never reissued (`ClaimMoves`, `CancelledLostClaim`). |
| | `StoppedTurnCannotSettle` | `CancelledTurnNeverSettlesBot` | `QuarantineInv`: a cancelled turn that was sent is covered, by its thread's quarantine (handshake still open) or by its retired id. Needs `"hang"` and `"relaunch"` outside `Behaviours`: with the first the quarantine may run out before the handshake ends, with the second a turn gets an id that nobody retired. |
| `DirectTurnWords` | `WordsAreTakenOnce` | `WordsReachOneTurn` | `WordsInv`: a queued word stands in one place (`QueuedOnce`), is known as queued and was taken by no turn, and a word whose steering is awaited is nowhere else. |
| | `WordsWaitOnce` | `WordsAreInOnePlace` | The same, with the converse `QueuedWaits`; `RemovedWord` says what deleting a position does to a sequence. |
| | `BotIsATurnQueue` | `ImplementsTurnQueue` | Every step that moves a message moves it along one edge of the abstract queue: queued words are not yet in a turn (`WordsInv`), so a drain gives each to the turn it starts and to no other. |
| `DirectTurnOwner` | `CapabilitiesEndWithTheirTurn` | `CapabilityHasLiveTurn` | `ActiveIsHeld`: an active generation is of a turn in its setup, or one sent from an unquarantined thread, whose completion, had it come, is on record, or one that runs with its id bound. Needs `"relaunch"` off: see section 9. |
| | `BusyBotsAreHeld` | `BusyBotHasOwner` | `BusyInv`: the claim is of the newest turn; while it is being sent its events count and none has completed it unless that idled the bot; so when `sendTurn` returns the provider holds the bot. |
| | `TurnsRunAlone` | `OneProviderTurn` | `AloneInv`: a turn at its provider is the newest one of a busy bot, or it was told to stop and its only id is retired; and the adapter's map names what runs. Needs `MaxStalls = 0`: a grace timer releases a bot whose provider may still run (section 8, item 1). |
| | `WakesAreNotHeld` | `IdleBotHasNoHeldWake` | As for the queues; needs `MaxStalls = 0`, for the grace timer alone drains no wakes. |
| `DelegationsProofs` | `TypeInvariant`, `TypeCorrect` | `TypeOK` | With `DrainsOwnItems`: a drain is only ever at an item of its own thread that is not in the rest of its snapshot. |
| | `StartsAreCheckedLast` | `DispatchIsCheckedLast` | By cases on what may raise `starts`: each goes through the check of its own step, after the card as well as before. |
| | `WatchFollowsTheTurn` | `WatchIsOfTheRunningTurn` | Inductive with `TypeInv`, the refused start and the robbed turn being the exceptions. |
| | `BusyPeriodsAreCountedOnce` | `RetriesCountBusyPeriods` | `ChargedStillWaits`: what was charged for the present turn is marked as waiting, and its target is busy. |
| | `HandoffsRunOnce` | `HandoffsStartOnce` | `SpentIsOver`: a handoff that started a turn in this life of the process and its fleet is run, refused, settled, or about to leave the queue, and no drain will meet it again. |
| | `HandoffsAreNotForgotten` | `NothingIsForgotten` | `Accounted`: until there is a receipt, some bot's watch, or the queue, has the handoff; `AccountedFirst` says it of the drain that is between the start and the acknowledgement. |
| | `HandoffsAreNotStranded` | `NothingIsStranded` | `WillBeTaken`: the item's thread has a drain that still meets it, a redrain or a retry, its source turn runs, or its target does and will retry. The steps that end a source turn without a drain or a discard (`GraceEnds`, `Reload`) make what it queued survivors, and no other step does. |
| `DataDirLeaseProofs` | `LeaseInvariant`, `LiveHoldersOwnTheFile`, `OneLiveHolder` | `LiveHolderOwnsTheFile` | The reapers elected for one dead owner form a list in which all but the last are dead (`EarlierReapersAreDead`, `ReaperIsTheLast`), so at most one live process unlinks, and what it unlinks is still the dead owner's record (`UnlinkedIsSeen`). |
| | `DeathLocksNobodyOut` | `NobodyIsRefusedByTheDead` | `RefusalInv`: a contender competes for the record of another process, and stands in one election of each owner (`ElectedOnce`). |
| `BoxCreationProofs` | `BoxInvariant`, `OneBox`, `BoxesAreNotForgotten` | `OneBoxPerBot`, `NoBoxIsForgotten` | `RecordInv`: but for rejected keys (`Kept`, `Pending`), a key in flight is the one on record and the box that exists is the one on record; no key in flight has made a box, and a rejected key never returns to the record. `CallsKnow`: a call that sends an older key sends one that was rejected or has already made its box. `GoneBoxSettles`: a box on record that is gone leaves nothing in flight, so the record may go. |
| | `CleanupsSpareReadyBoxes` | `CleanupSparesReadyBoxes` | `CleanupInv`: only one call is not loose, and a box that it created was handed to nobody. |
| `RoomsProofs` | `RoomInvariant`, `RoomsTypeCorrect` | `RoomsTypeOK` | `TypeInv` adds that a round under way has an operation whose body stands at one of its own responders (`BodyIsOfChain`), without which the steps that read it are undefined. `RoomInv` joins it with the three invariants below; TLC checked it on the instance of the run before it was proved. |
| | `BotsHaveOneConversation`, `BusyRoomIsOwned` | `OneConversationPerBot`, `BusyRoomHasOwner` | `OwnerInv`: from its claim to the end of its outcome the operation owns its member, and a grace timer the member of the turn it was armed for: that member is busy, in no other conversation and held once, unless it was freed under the room (`HeldAlone`), and every busy bot is somebody's (`BusyIsHeld`). The room names a member that the operation or a timer will clear (`SpeakerHolds`); an operation that stalled hands its member to its timer (`StallIsOwed`); the watchdog watches the operation's turn only (`WatchIsOfTheTurn`). |
| | `NoTurnIsForgotten` | `RunningTurnIsAwaitedOrIgnored` | `TurnsAreIgnored`: a turn that runs is awaited, retired by its id, or keeps the gate of its thread closed until its id is known. |
| | `LateCompletionIsHarmless` | `GivenUpTurnNeverSettlesRoom` | A completion that is heard is of the turn awaited now, which must not be one given up earlier under the same operation and member: that is `OnceInv`, the next line. |
| | `OperationsRunOnce` | — | `OnceInv`: a card is open, waits for its bot or is on the chain, a message waits in one queue or was started, and neither passes twice; so the operation of a given-up turn is over and names no later turn (`GivenUpIsOver`). |
| | `StopIsFinal` | `StoppedRoundSendsNothing` | No invariant needed: of all steps only `Dispatch` gives a turn to its provider (`TurnsBeginAtDispatch`), and it looks at the operation again. |
| | `FollowUpsAreDrained` | `IdleRoomHasNoFollowUps` | By cases on the steps that end a round or free the room: each leaves a redrain due, the room at work, or the mark of the grace timer. |
| `RoutinesProofs` | `RoutineInvariant`, `RoutinesTypeCorrect` | `RoutinesTypeOK` | Every step either replaces each run by a later state of itself (`Follows`) or adds new ones (`Adds`), and then saves, which drops ended runs only (`SaveKeeps`); so ids stay distinct and every run that has not ended stays on record. `KnownDefinitions`: what has a cursor or a scheduled run has a schedule. |
| | `ActiveRunsHaveTurns`, `TurnsHaveActiveRuns`, `EndedRunsAreFinal` | `ActiveRunHasTurn`, `TurnHasActiveRun`, `EndedRunsStayEnded` | `TurnInv`: an active run that its turn did not leave open has one turn, in its setup or live, which agrees with the run; a queued run has none and never had one (`QueuedUnstarted`), so a turn that outlived its run is never taken for that of another. |
| | `NothingStartsTwice` | `RunsStartOnce` | `SlotInv`: the cursor of a repeating routine is a multiple of its period and lies beyond every occurrence that was queued or started; a queued run waits for an occurrence that nothing has started and no other run waits for. An interval routine has at most one queued run, later than all that started, so that moving it to the latest occurrence (`Aligned`) keeps it distinct. |
| | `ReceiptsTellTheTruth`, `CardsAreAppliedOnce` | `CardsApplyOnce` | `ReceiptTells`: the receipt of an open card says whether the card was applied, so an answer that comes again finds out; a restart forgets the receipts of answered cards only (`ForgettingReceipts`). |

Assumptions used: `NoneAssumption`, `BehavioursAssumption`, `BoundsAssumption` of
`DirectTurn`; `RoutesAssumption`, `GatedAssumption`, `NoneAssumption` (no handoff is named
like one of the values of `run`), `LimitsAssumption` and `BotsAssumption` (a finite fleet,
for the turns a reload begins are counted) of `Delegations`;
`RoomsTasksAssumption` to `RoomsBoundsAssumption` of `Rooms` (a message has a task and addresses
members, a card is of one bot, messages are not cards, and `None` is nobody);
`RoutineDefsAssumption` and `RoutineBoundsAssumption` of `Routines` (an array of routines, hence
finitely many, with positive periods and limits);
`LeaseAssumption` of `DataDirLease`; `BoxAssumption` of `BoxCreation`. No theorem bounds the number of
Stops, continuations, turns or upsets. The proofs follow one shape: initial states satisfy
the invariant, each action of `Next` preserves it, with the drain that a releasing step ends
in as a lemma of its own, and `PTL` closes the temporal theorem.

**Model-checked only.** Liveness: `BusyBotBecomesIdle`, `QueuedWordsLeave`,
`WedgedBotBecomesIdle`, `HandoffsSettle`; fairness and `ENABLED` are outside the prover's reach.
The runs named `claim_*` look for a counterexample, and there is nothing to prove of them.

## 8. Where the code and its own text disagree

Six runs are expected to fail: each checks one sentence of the repository.

1. `claim_grace`. `server/index.ts:2377-2380` says ownership is kept through the grace
   period and the normal fold clears it first. The timer compares nothing: if the stalled
   turn does end within six seconds and a queued message starts the next one, the timer finds
   the bot busy and idles *that* turn. Its provider runs on behind an idle bot.
2. `claim_refused`. `steer-queue.ts:17-18` promises that a correction queued before a Stop
   runs. When the provider completes late, the correction's `sendTurn` finds the stopped turn
   still in the adapter's active map and is refused.
3. `claim_parked`. `turn-watchdog.ts:10-11` exempts turns parked on a person. The flag is a
   boolean: with two requests open, answering one clears it, and the turn that still waits
   is stopped as stalled.
4. `claim_receipt`. `index.ts:3467-3468` says a delegating bot must see a terminal state.
   Two handoffs drained in one tick to a target that refuses to start share one watch: the
   second `set` overwrites the first, whose receipt is never written. The run reaches
   this through the boot drain of one thread each.
5. `claim_followups`. `index.ts:1757-1759` says a follow-up is handed on as soon as the channel
   is idle. The grace timer that frees a room after a deadline or a stall
   (`index.ts:2403-2409`) drains everything but the room's follow-ups: they stay in an idle room
   until something else runs there.
6. `claim_continuation`. `index.ts:5697-5699` says the next member does not start on a thread
   whose timed-out turn is still being stopped. A card continuation asks only whether its own
   bot is busy (`index.ts:6873`, `7012-7040`), and starts another member there.

## 9. What else reading the code showed

Not checked by a run, but visible in the models or beside them, and worth a maintainer's eye.

*Turns and handoffs*

* A retry or redrain drains the *whole* source thread, so handoffs that a still running turn
  has just queued start before that turn settles (`delegations.ts:400`), against
  `delegations.ts:143-145`. Items that are discarded while an earlier one shows its card still
  run, because the drain works from its snapshot (`delegations.ts:352`).
* A fleet reload (`index.ts:7414`) and the grace release (`index.ts:2403-2409`) settle a busy bot
  without draining or discarding the handoffs its turn had queued, against the comment at
  `index.ts:3689-3691`: they wait for the thread's next turn or a restart (`survivors`).
* A stale grace timer that releases the turn of a handoff leaves its watch set: the handoff's
  outcome is that of whatever ends next on the target's thread, or none (`robbed`).
* Neither the reload nor the grace release calls `drainDelegationWakes`; hence
  `IdleBotHasEmptyQueues` exempts wakes, and `IdleBotHasNoHeldWake` is checked without stalls.
* A relaunched CLI gets a second turn id (`drivers/claude.ts:1224`) that is bound to no
  capability generation, so the generation is not revoked when the turn completes; hence
  `relaunch` is off where `CapabilityHasLiveTurn` is checked.
* The guard reads a replaced claim as a cancellation (`index.ts:4504`). A Stop that matches
  no claim goes to the open task (`index.ts:11508`); one delayed by the browser release may
  interrupt the correction instead (`index.ts:11510-11511`). An accepted steer may be
  recorded under a turn that has replaced the one that took the words (`index.ts:11230`).
* A scheduler save that throws at `index.ts:2879` aborts the fold of `turn.completed`, and the
  bot stays busy.
* A steer the adapter accepted, whose turn ended before the acknowledgement, is answered 409
  (`index.ts:11232-11238`): the client's resend delivers the words twice. The match of a repeated
  `sendId` against queued words is in memory and lost on a restart.

*Rooms*

* A fleet reload idles the member that a room operation holds and drains queued messages into
  it (`index.ts:7411-7430`) without clearing the room's `busyBotId` and speaker or resolving the
  room turn's promise; the operation later frees the bot of whoever has it by then
  (`index.ts:5738-5740`). The stale six-second timer of a member's direct turn
  (`index.ts:2397-2401`), and that turn's late completion, do the same to one bot. This is `taken`.
* A responder who waits is skipped, although `index.ts:6314-6316` says it never is, when
  `drainQueuedSends` gives the freed bot to a queued message first.
* A Stop during a room turn's browser setup or gate wait (`index.ts:5477-5484`, `5563-5578`)
  idles the bot without the drains that the other endings run.
* A responder still queued in a round counts as working from its start (`index.ts:6258`), so a
  Stop in that bot's own chat is refused or cancels the room (`index.ts:11487-11500`).
* The cap of a goal run is odd so that the last turn is the coordinator's
  (`group-goal-run.ts:3-5`), but the retry of a transient failure costs a turn too
  (`index.ts:5921-5938`): after one retry the last turn is a worker's.

*Routines and webhooks*

* The grace release (`index.ts:2358-2412`) and the error path of an older generation
  (`index.ts:4565`) tell the scheduler nothing: the run stays "running" until its limit, a
  cancellation or a restart, although the comment at `index.ts:2403` calls the release the
  replacement of a missing `turn.completed`. This is `FallsSilent`, which a fleet reload causes too.
* Events find their run by thread (`routines.ts:1176`): a later turn in the task of a run left open
  sets it running or waiting again. A bot's run then ends with *that* turn's outcome; of a goal
  run the turn's completion is dropped (`routines.ts:1182-1185`), so that it is shown as running
  with no turn until its limit, a cancellation or a restart.
* Any edit between the due instant and the tick, a renaming too, moves the cursor past the due
  occurrence (`routines.ts:751-757`). A save that fails at `routines.ts:1134` leaves a run
  "running" without a turn.
* `tick` awaits `interruptTurn` without a limit: one hanging interrupt stops every routine. Its
  limit loop iterates a list that `save` prunes (`tick.at` models it).
* A goal that needs input stays waiting and blocks later occurrences of an interval. A goal
  routine whose coordinator left can only be deleted, and keeps producing failed runs.
* A delivery is queued before its receipt is written (`webhooks.ts:473-486`): after a crash
  between the two the sender's retry runs it twice.

*Machines and the data directory*

* A definite 4xx answered to a *retry* discards the key although the first attempt may have
  created the box (`box.ts:818-821`): that box is off the record, nobody deletes it, and a second
  one may follow. These are the boxes `Astray`, which the two invariants leave out.
* An ambiguous request with the trial's lifetime stays on record with the trial body, and every
  later provisioning begins with the default body and is refused
  (`box-create-idempotency.ts:370-373`); deletion of the bot stays blocked.
* A renaming that was applied but whose answer was lost leaves the record unresolved for good:
  `findBox` finds the box by name and never resolves it.
* A call that outlives a fleet restart (`index.ts:7399`) may remove a box that a newer call made
  ready; `CleanupSparesReadyBoxes` exempts it (`loose`).
* A new owner of the data directory asks for a live server child before it acquires and never
  again. If the old desktop's child acquires just after the question and that desktop then
  crashes, the new owner retires the dead lease and works beside the orphaned server, which
  `index.ts:12916-12918` means to exclude.
* The local VM lease (30 minutes, renewed by provider events) lapses while a turn is parked on
  a person's card, and another bot may take the desktop, against `local-vm-lease.ts:47-50`.

## 10. What is not modelled, and why

* **Local VM lease, idle timers, computer control**: the lease is renewed by every provider
  event and lapses on a clock; a model of its own would need the event rates.
* **Send idempotency**: the sequencer chains the sends of one key in memory (one map), and the
  durable half is a lookup in the database.
* **Goal loop, room deadline arithmetic, post budget**: sequential counters over one await each;
  the races around them are those of `Rooms` (`DeadlineFires`, `Interrupt`).
* **Store, message database, checkpoints**: an atomic write is one step wherever state is
  durable here; branches, edits and git restores are data transformations without interleaving.
* **Browser, sessions, pairing, profile and calendar cards, updater, companion, control plane,
  clients, prompts**: listed in `PROJECT.json` with the reason. The profile and calendar cards
  have the shape of the routine cards of section 5.
* **Composition** is by assumption, not in one state space: `DirectTurn` shows that turns end,
  the others rely on it; three million states each leave no room for a product.
