------------------------------- MODULE Rooms -------------------------------
(***************************************************************************)
(* Chat rounds of one team channel (server/index.ts): the operations that  *)
(* run one behind the other on the room's chain, the member turn each      *)
(* responder takes, the follow-ups that wait while the room works, the     *)
(* card continuations that join the chain, Stop, the room deadline and the *)
(* stall watchdog with the grace timer that frees the room after either.   *)
(* A member's other conversations are seen from here only as a claim on    *)
(* the bot, and as what may still free it when they are over: the grace    *)
(* timer of a stalled turn and that turn's late completion.  A fleet       *)
(* reload kills every turn at once.                                        *)
(*                                                                         *)
(* The harness is one JavaScript thread.  A step that only continues a     *)
(* resolved promise runs before the next event of the outside world, so    *)
(* Next takes such steps first (Soon).                                     *)
(***************************************************************************)
EXTENDS Naturals, Sequences, FiniteSets, SequencesExt

CONSTANTS
  Bots,        \* the members
  Threads,     \* the channel's tasks
  Sends,       \* messages the person sends to the channel
  Cards,       \* connector or credential cards that members left open
  TaskOf,      \* the task each message is sent to and each card was left in
  Asks,        \* whom each message addresses; the one bot of each card
  Shared,      \* the members that other conversations use as well
  None,
  MaxFaults,   \* bound: deadlines, stalls and fleet reloads
  MaxStops     \* bound: calls of the interrupt endpoint

Ops == Sends \cup Cards
Turns == Ops \X Bots

ASSUME RoomsTasksAssumption == TaskOf \in [Ops -> Threads]
ASSUME RoomsAsksAssumption == Asks \in [Ops -> Seq(Bots)]
ASSUME RoomsSharedAssumption == Shared \subseteq Bots
ASSUME RoomsCardsAssumption == \A c \in Cards : Len(Asks[c]) = 1
ASSUME RoomsKindsAssumption == Sends \cap Cards = {}
ASSUME RoomsNoneAssumption == None \notin Bots \cup Threads
ASSUME RoomsBoundsAssumption == MaxFaults \in Nat /\ MaxStops \in Nat

VARIABLES
  current,     \* group.threadId, the open task
  chain,       \* operations that have begun and not finished, in order
  cancelled,   \* operations Stop has cancelled
  handshake,   \* operations with providerHandshakePending
  body,        \* where the body of the first operation of the chain stands
  busy,        \* bots with bot.busy
  direct,      \* bots that another conversation has claimed
  strays,      \* what another conversation's stalled turn still has to come
  taken,       \* history: bots that were freed while the room held them, and
               \*   that it has not claimed since from nobody
  open,        \* cards the person has not settled
  resumes,     \* cards whose continuation waits for its bot
  busyBot,     \* group.busyBotId
  speaker,     \* groupSpeakers
  live,        \* turns whose provider still runs
  awaiting,    \* turns whose sendTurn has not answered
  stopping,    \* turns whose second interrupt is awaited
  abandoned,   \* turns given up by the deadline or the watchdog
  retired,     \* retiredProviderTurns, of the turns that still run
  opGate,      \* group:<op> owners of pendingCancelledProviderHandshakes
  turnGate,    \* room-abandoned owners of it
  watch,       \* the watchdog's turn on each thread
  release,     \* turns with a pending releaseOwnership timer
  queue,       \* queued follow-ups of each thread
  fate,        \* what became of each message
  redrain,     \* a drain of the follow-ups is due
  lapsed,      \* history: a timer freed the room since an operation ended
  used         \* how much of each bound is spent

roundVars == <<chain, cancelled, handshake, body>>
botVars == <<busy, direct, resumes>>
roomVars == <<busyBot, speaker>>
turnVars == <<live, awaiting, stopping, abandoned, retired>>
gateVars == <<opGate, turnGate>>
timerVars == <<watch, release>>
followVars == <<queue, fate>>
outerVars == <<strays, taken>>
otherVars == <<current, open, lapsed, used, outerVars>>

roomsVars == <<current, chain, cancelled, handshake, body, busy, direct, open,
               resumes, busyBot, speaker, live, awaiting, stopping,
               abandoned, retired, opGate, turnGate, watch, release, queue, fate, redrain,
               lapsed, used, strays, taken>>
------------------------------------------------------------------------------
RoomStages == {"idle", "next", "wait", "entry", "setup", "browser", "gate",
               "sent", "after"}
RoomOutcomes == {"settled", "dispatch_failed", "stalled", "timed_out", "cancelled"}
MaxHops == 1   \* MAX_GROUP_HOPS
IdleBody == [stage |-> "idle", who |-> None, hop |-> 0, todo |-> <<>>,
             spoken |-> {}, tried |-> FALSE, outcome |-> "settled"]

Op == Head(chain)
Here == TaskOf[Op]
Turn == <<Op, body.who>>
OpCancelled == Op \in cancelled
At(stage) == chain # <<>> /\ body.stage = stage
Go(stage) == body' = [body EXCEPT !.stage = stage]

ThreadOf(t) == TaskOf[t[1]]
GatedThread(th) == \/ \E o \in opGate : TaskOf[o] = th
                   \/ \E t \in turnGate : ThreadOf(t) = th
EventIgnored_Open(t) == t \in retired
EventIgnored(t) == t \in retired \/ GatedThread(ThreadOf(t))

RoomWorking == busyBot # None \/ chain # <<>>
Queued == {th \in Threads : queue[th] # <<>>}

RoomsInit ==
  /\ current \in Threads
  /\ chain = <<>> /\ open = Cards
  /\ cancelled = {} /\ handshake = {} /\ body = IdleBody
  /\ busy = {} /\ direct = {} /\ resumes = {}
  /\ busyBot = None /\ speaker = [th \in Threads |-> None]
  /\ live = {} /\ awaiting = {} /\ stopping = {}
  /\ abandoned = {} /\ retired = {} /\ opGate = {} /\ turnGate = {}
  /\ watch = [th \in Threads |-> None] /\ release = {}
  /\ queue = [th \in Threads |-> <<>>] /\ fate = [s \in Sends |-> "unsent"]
  /\ redrain = FALSE /\ lapsed = FALSE
  /\ used = [faults |-> 0, stops |-> 0]
  /\ strays = {} /\ taken = {}
------------------------------------------------------------------------------
(* Freeing the bots fr and draining what waits for idle bots: the direct   *)
(* messages of the bots woken start a conversation at once, then the card  *)
(* continuations of the bots still idle join the chain.                    *)
MayWake(fr) == SUBSET (fr \cap Shared)
WokenCards(fr, woken) == {c \in resumes : Head(Asks[c]) \notin (busy \ fr) \cup woken}
Drain(fr, woken) ==
  /\ busy' = (busy \ fr) \cup woken
  /\ resumes' = resumes \ WokenCards(fr, woken)
  /\ chain' = chain \o SetToSeq(WokenCards(fr, woken))

(* Freeing the bots alone: the paths that do not drain. *)
Free(fr) == busy' = busy \ fr /\ UNCHANGED <<direct, resumes>>

(* A responder's wait latches the moment its bot is set idle. *)
Latched(fr) == IF body.stage = "wait" /\ body.who \in fr
               THEN [body EXCEPT !.stage = "entry"] ELSE body

ClearSpeaker(th) ==
  /\ busyBot' = None
  /\ speaker' = [speaker EXCEPT ![th] = None]

(* finishGroupTurnOperation; c is the chain as the calling step leaves it. *)
EndOp_NoDrain(c) ==
  /\ chain' = Tail(c)
  /\ body' = IdleBody
  /\ opGate' = opGate \ {Op}
  /\ lapsed' = FALSE
  /\ UNCHANGED redrain
EndOp(c) ==
  /\ chain' = Tail(c)
  /\ body' = IdleBody
  /\ opGate' = opGate \ {Op}
  /\ lapsed' = FALSE
  /\ redrain' = TRUE

(* startGroupTurn.  A message nobody can answer begins no operation. *)
StartRound(s) ==
  /\ fate' = [fate EXCEPT ![s] = "started"]
  /\ chain' = IF Asks[s] = <<>> THEN chain ELSE Append(chain, s)

(* POST /api/groups/:id/messages *)
Send(s) ==
  /\ fate[s] = "unsent" /\ current = TaskOf[s]
  /\ \/ /\ RoomWorking
        /\ fate' = [fate EXCEPT ![s] = "queued"]
        /\ queue' = [queue EXCEPT ![current] = Append(@, s)]
        /\ UNCHANGED chain
     \/ /\ ~RoomWorking
        /\ StartRound(s)
        /\ UNCHANGED queue
  /\ UNCHANGED <<cancelled, handshake, body, botVars, roomVars, turnVars,
                 gateVars, timerVars, redrain, otherVars>>

(* DELETE /api/groups/:id/queue/:id *)
Withdraw(s) ==
  /\ \E th \in Threads : \E i \in DOMAIN queue[th] :
       queue[th][i] = s /\ queue' = [queue EXCEPT ![th] = RemoveAt(@, i)]
  /\ fate' = [fate EXCEPT ![s] = "withdrawn"]
  /\ UNCHANGED <<roundVars, botVars, roomVars, turnVars, gateVars, timerVars,
                 redrain, otherVars>>

(* POST /api/groups/:id/tasks/:id, channelTaskSwitchBlocked *)
SwitchTask(th) ==
  /\ th # current
  /\ ~RoomWorking \/ \E i \in DOMAIN chain :
                       chain[i] \notin cancelled /\ TaskOf[chain[i]] = th
  /\ current' = th
  /\ UNCHANGED <<roundVars, botVars, roomVars, turnVars, gateVars, timerVars,
                 followVars, redrain, open, lapsed, used, outerVars>>

(* One turn of drainChannelMessages' loop.  It runs when an operation      *)
(* finishes and once more, as a microtask, after each message it starts.   *)
Redrain ==
  /\ redrain
  /\ \/ /\ RoomWorking \/ Queued = {}
        /\ redrain' = FALSE
        /\ UNCHANGED <<chain, queue, fate>>
     \/ /\ ~RoomWorking
        /\ \E th \in Queued :
             /\ StartRound(Head(queue[th]))
             /\ queue' = [queue EXCEPT ![th] = Tail(@)]
        /\ UNCHANGED redrain
  /\ UNCHANGED <<cancelled, handshake, body, botVars, roomVars, turnVars,
                 gateVars, timerVars, otherVars>>

(* dispatchConnectorResume and dispatchSecretResume: the person settles a  *)
(* card that a member left in one of the tasks.                            *)
Card(c) ==
  /\ c \in open
  /\ open' = open \ {c}
  /\ \/ /\ Head(Asks[c]) \in busy
        /\ resumes' = resumes \cup {c}
        /\ UNCHANGED chain
     \/ /\ Head(Asks[c]) \notin busy
        /\ chain' = Append(chain, c)
        /\ UNCHANGED resumes
  /\ UNCHANGED <<cancelled, handshake, body, busy, direct, roomVars, turnVars,
                 gateVars, timerVars, followVars, redrain, current, lapsed, used,
                 outerVars>>
------------------------------------------------------------------------------
(* The bots a room turn holds: the one in the operation's hands from the   *)
(* claim until the outcome or the fold that came before it, and those a    *)
(* grace timer of the room still has to free.                              *)
BodyHolds == IF \/ chain # <<>> /\ body.stage \in {"browser", "gate", "sent"}
                \/ At("after") /\ busyBot = body.who
             THEN {body.who} ELSE {}
RoomHolds == BodyHolds \cup {t[2] : t \in release}

(* Another conversation claims an idle bot. *)
ElsewhereStarts(b) ==
  /\ b \notin busy
  /\ busy' = busy \cup {b} /\ direct' = direct \cup {b}
  /\ UNCHANGED <<resumes, roundVars, roomVars, turnVars, gateVars, timerVars,
                 followVars, redrain, otherVars>>

(* The other conversation settles: the bot is idle, the waiting responder  *)
(* latches, and then the drain may give the bot away again.                *)
ElsewhereEnds(b) ==
  /\ b \in direct
  /\ \E woken \in MayWake({b}) :
       /\ Drain({b}, woken)
       /\ direct' = (direct \ {b}) \cup woken
  /\ body' = Latched({b})
  /\ UNCHANGED <<cancelled, handshake, roomVars, turnVars, gateVars,
                 timerVars, followVars, redrain, otherVars>>

(* The watchdog stops the other conversation's turn: a grace timer will    *)
(* free the bot, and the turn may end before it or after it.               *)
ElsewhereStalls(b) ==
  /\ b \in direct /\ used.faults < MaxFaults
  /\ used' = [used EXCEPT !.faults = @ + 1]
  /\ strays' = strays \cup {<<b, "timer">>}
  /\ UNCHANGED <<roundVars, botVars, roomVars, turnVars, gateVars, timerVars,
                 followVars, redrain, current, open, lapsed, taken>>

(* The stray that comes frees the bot without asking whose it is by now.   *)
StrayFrees(b) ==
  /\ \E woken \in MayWake({b}) :
       /\ Drain({b}, woken)
       /\ direct' = (direct \ {b}) \cup woken
  /\ body' = Latched({b})
  /\ taken' = taken \cup ({b} \cap busy \cap RoomHolds)

StrayVars == <<cancelled, handshake, roomVars, turnVars, gateVars, timerVars,
               followVars, redrain, current, open, lapsed, used>>

(* releaseOwnership of the direct turn: only whether the bot is busy.  A   *)
(* turn that has not ended by then may still do so.                        *)
ElsewhereTimer(b) ==
  /\ <<b, "timer">> \in strays
  /\ strays' = (strays \ {<<b, "timer">>}) \cup ({<<b, "turn">>} \cap (direct \X {"turn"}))
  /\ \/ b \in busy /\ StrayFrees(b)
     \/ b \notin busy /\ UNCHANGED <<botVars, chain, body, taken>>
  /\ UNCHANGED StrayVars

(* The late turn.completed of that turn: the fold goes by the thread.      *)
ElsewhereLateEnd(b) ==
  /\ <<b, "turn">> \in strays
  /\ strays' = strays \ {<<b, "turn">>}
  /\ StrayFrees(b)
  /\ UNCHANGED StrayVars

(* reloadProviders: every turn dies without its turn.completed, every bot  *)
(* is set idle and what waits for them drains.  The operation, the room's  *)
(* speaker, the timers and the calls not answered stay as they are.        *)
Reload ==
  /\ used.faults < MaxFaults
  /\ used' = [used EXCEPT !.faults = @ + 1]
  /\ live' = {} /\ retired' = {}
  /\ abandoned' = abandoned \cap (awaiting \cup stopping)
  /\ strays' = strays \ (Bots \X {"turn"})
  /\ \E woken \in MayWake(busy) : Drain(busy, woken) /\ direct' = woken
  /\ body' = Latched(busy)
  /\ taken' = taken \cup (busy \cap RoomHolds)
  /\ UNCHANGED <<cancelled, handshake, roomVars, awaiting, stopping, gateVars,
                 timerVars, followVars, redrain, current, open, lapsed>>
------------------------------------------------------------------------------
(* The chain reaches an operation. *)
NotDispatched(s) == fate' = [fate EXCEPT ![s] = "undispatched"]

BeginOp ==
  /\ At("idle")
  /\ \/ /\ OpCancelled
        /\ EndOp(chain)
        /\ UNCHANGED <<fate, resumes>>
     \/ /\ ~OpCancelled /\ Op \in Sends /\ busyBot # None
        /\ NotDispatched(Op)
        /\ EndOp(chain)
        /\ UNCHANGED resumes
     \/ /\ ~OpCancelled /\ Op \in Sends /\ busyBot = None
        /\ body' = [IdleBody EXCEPT !.stage = "next",
                      !.todo = [i \in DOMAIN Asks[Op] |-> <<Asks[Op][i], 0>>]]
        /\ UNCHANGED <<chain, redrain, lapsed, opGate, fate, resumes>>
     \/ /\ ~OpCancelled /\ Op \in Cards /\ Head(Asks[Op]) \in busy
        /\ resumes' = resumes \cup {Op}
        /\ EndOp(chain)
        /\ UNCHANGED fate
     \/ /\ ~OpCancelled /\ Op \in Cards /\ Head(Asks[Op]) \notin busy
        /\ body' = [IdleBody EXCEPT !.stage = "entry", !.who = Head(Asks[Op])]
        /\ UNCHANGED <<chain, redrain, lapsed, opGate, fate, resumes>>
  /\ UNCHANGED <<cancelled, handshake, busy, direct, roomVars, turnVars,
                 turnGate, timerVars, queue, current, open, used, outerVars>>

(* The round's loop over its responders and chained mentions.  A responder *)
(* who is busy elsewhere is waited for; a card continuation never waits.   *)
NextResponder ==
  /\ At("next")
  /\ \/ /\ OpCancelled \/ body.todo = <<>>
        /\ EndOp(chain)
     \/ /\ ~OpCancelled /\ body.todo # <<>>
        /\ LET next == Head(body.todo)[1]
               rest == [body EXCEPT !.todo = Tail(@)]
           IN body' = IF next \in body.spoken THEN rest
                      ELSE [rest EXCEPT !.who = next, !.hop = Head(body.todo)[2],
                              !.tried = FALSE,
                              !.stage = IF Op \in Sends /\ next \in busy
                                        THEN "wait" ELSE "entry"]
        /\ UNCHANGED <<chain, redrain, lapsed, opGate>>
  /\ UNCHANGED <<cancelled, handshake, botVars, roomVars, turnVars,
                 turnGate, timerVars, followVars, current, open, used, outerVars>>

PassOver(spoken) == body' = [body EXCEPT !.stage = "next", !.spoken = spoken]
Spoke == body.spoken \cup {body.who}

(* waitForChatRoomMember: Stop ends the round, the cap passes the bot over. *)
WaitStopped ==
  /\ At("wait") /\ OpCancelled
  /\ EndOp(chain)
  /\ UNCHANGED <<cancelled, handshake, botVars, roomVars, turnVars,
                 turnGate, timerVars, followVars, current, open, used, outerVars>>
WaitCap ==
  /\ At("wait")
  /\ PassOver(Spoke)
  /\ UNCHANGED <<chain, cancelled, handshake, botVars, roomVars, turnVars,
                 gateVars, timerVars, followVars, redrain, otherVars>>

(* runGroupMemberTurn up to its first await: an approval grant in flight   *)
(* or a missing model passes the bot over, as does a bot claimed between   *)
(* the wait and this turn.                                                 *)
EnterTurn ==
  /\ At("entry")
  /\ \/ OpCancelled /\ EndOp(chain)
     \/ /\ ~OpCancelled
        /\ \/ \E spoken \in {body.spoken, Spoke} : PassOver(spoken)
           \/ body.who \in busy /\ PassOver(Spoke)
           \/ /\ body.who \notin busy
              /\ body' = [body EXCEPT !.stage = "setup", !.spoken = Spoke]
        /\ UNCHANGED <<chain, redrain, lapsed, opGate>>
  /\ UNCHANGED <<cancelled, handshake, botVars, roomVars, turnVars,
                 turnGate, timerVars, followVars, current, open, used, outerVars>>

Claimable_AtEntry == TRUE
Claimable == body.who \notin busy

(* Connected-app discovery has answered.  It failed, or the settings       *)
(* changed meanwhile (one more try), or the bot's computer is being        *)
(* changed, or somebody claimed the bot; otherwise the turn claims it.     *)
SetupEnds ==
  /\ At("setup")
  /\ \/ OpCancelled /\ EndOp(chain) /\ UNCHANGED <<busy, taken>>
     \/ /\ PassOver(Spoke)
        /\ UNCHANGED <<chain, redrain, lapsed, opGate, busy, taken>>
     \/ /\ ~OpCancelled /\ ~body.tried
        /\ body' = [body EXCEPT !.stage = "entry", !.tried = TRUE]
        /\ UNCHANGED <<chain, redrain, lapsed, opGate, busy, taken>>
     \/ /\ ~OpCancelled /\ Claimable
        /\ busy' = busy \cup {body.who}
        /\ taken' = taken \ ({body.who} \ (direct \cup RoomHolds))
        /\ Go("browser")
        /\ UNCHANGED <<chain, redrain, lapsed, opGate>>
  /\ UNCHANGED <<cancelled, handshake, direct, resumes, roomVars,
                 turnVars, turnGate, timerVars, followVars, current, open, used, strays>>

(* The browser capability is registered, or Stop came first. *)
BrowserEnds ==
  /\ At("browser")
  /\ \/ /\ OpCancelled \/ body.who \notin busy
        /\ Free({body.who}) /\ EndOp(chain)
        /\ UNCHANGED roomVars
     \/ /\ ~OpCancelled /\ body.who \in busy
        /\ busyBot' = body.who
        /\ speaker' = [speaker EXCEPT ![Here] = body.who]
        /\ Go("gate")
        /\ UNCHANGED <<chain, redrain, lapsed, opGate, botVars>>
  /\ UNCHANGED <<cancelled, handshake, turnVars, turnGate, timerVars,
                 followVars, current, open, used, outerVars>>

(* waitForClear: no unresolved cancelled handshake is left on the thread.  *)
(* The turn goes out, or gives back what it claimed.                       *)
Dispatchable_Claimed == busyBot = body.who /\ body.who \in busy
Dispatchable == ~OpCancelled /\ busyBot = body.who /\ body.who \in busy
Dispatch ==
  /\ At("gate") /\ ~GatedThread(Here)
  /\ \/ /\ ~Dispatchable
        /\ IF busyBot = body.who THEN ClearSpeaker(Here) ELSE UNCHANGED roomVars
        /\ Free({body.who}) /\ EndOp(chain)
        /\ UNCHANGED <<live, awaiting, watch, handshake>>
     \/ /\ Dispatchable
        /\ live' = live \cup {Turn}
        /\ awaiting' = awaiting \cup {Turn}
        /\ watch' = [watch EXCEPT ![Here] = Turn]
        /\ handshake' = handshake \cup {Op}
        /\ Go("sent")
        /\ UNCHANGED <<chain, redrain, lapsed, opGate, roomVars, botVars>>
  /\ UNCHANGED <<cancelled, stopping, abandoned, retired, turnGate,
                 release, followVars, current, open, used, outerVars>>
------------------------------------------------------------------------------
(* The outcome reaches the turn's promise; later ones are ignored. *)
Awaits(t) == At("sent") /\ Turn = t
Outcome(o) == [body EXCEPT !.stage = "after", !.outcome = o]
OutcomeOf(t, o) == IF Awaits(t) THEN Outcome(o) ELSE body

HandshakeSettled(o) ==
  /\ handshake' = handshake \ {o}
  /\ opGate' = opGate \ {o}

IdKnown(t) == t \notin awaiting \cup stopping

(* sendTurn resolves.  A turn that was cancelled or given up meanwhile is  *)
(* interrupted a second time before anything is bound.                     *)
SendResolves(t) ==
  /\ t \in awaiting
  /\ awaiting' = awaiting \ {t}
  /\ \/ /\ t \in abandoned \/ t[1] \in cancelled
        /\ stopping' = stopping \cup {t}
        /\ UNCHANGED <<handshake, opGate>>
     \/ /\ t \notin abandoned /\ t[1] \notin cancelled
        /\ HandshakeSettled(t[1])
        /\ UNCHANGED stopping
  /\ UNCHANGED <<chain, cancelled, body, live, abandoned, retired,
                 botVars, roomVars, turnGate, timerVars, followVars, redrain,
                 otherVars>>

SecondInterruptSettles(t) ==
  /\ t \in stopping
  /\ stopping' = stopping \ {t}
  /\ retired' = retired \cup ({t} \cap live)
  /\ turnGate' = turnGate \ {t}
  /\ abandoned' = abandoned \ ({t} \ live)
  /\ HandshakeSettled(t[1])
  /\ body' = OutcomeOf(t, "cancelled")
  /\ UNCHANGED <<chain, cancelled, live, awaiting, botVars, roomVars,
                 timerVars, followVars, redrain, otherVars>>

(* sendTurn rejects: the turn is refused, or its provider has gone.        *)
SendRejects(t) ==
  /\ t \in awaiting
  /\ awaiting' = awaiting \ {t} /\ live' = live \ {t}
  /\ HandshakeSettled(t[1])
  /\ turnGate' = turnGate \ {t}
  /\ abandoned' = abandoned \ {t}
  /\ \/ t \in abandoned /\ UNCHANGED <<body, watch>>
     \/ /\ t \notin abandoned
        /\ watch' = [watch EXCEPT ![ThreadOf(t)] = None]
        /\ body' = OutcomeOf(t, "dispatch_failed")
  /\ UNCHANGED <<chain, cancelled, stopping, retired, botVars, roomVars,
                 release, followVars, redrain, otherVars>>

(* A turn hears every completion on its thread until it knows its own id. *)
Hears(t) == At("sent") /\ Here = ThreadOf(t) /\ (Turn = t \/ ~IdKnown(Turn))

(* turn.completed: the watchdog, the fold, the drains and the turn's own   *)
(* subscriber, unless the event is quarantined.                            *)
Completes(t) ==
  /\ t \in live
  /\ live' = live \ {t}
  /\ retired' = retired \ {t}
  /\ abandoned' = IF IdKnown(t) THEN abandoned \ {t} ELSE abandoned
  /\ LET th == ThreadOf(t)
         sp == speaker[th]
         clears == sp # None /\ busyBot = sp
         freed == IF clears THEN {sp} ELSE {}
     IN \/ /\ EventIgnored(t)
           /\ UNCHANGED <<watch, roomVars, botVars, chain, body>>
        \/ /\ ~EventIgnored(t)
           /\ watch' = [watch EXCEPT ![th] = None]
           /\ IF clears THEN ClearSpeaker(th) ELSE UNCHANGED roomVars
           /\ \E woken \in MayWake(freed) :
                Drain(freed, woken) /\ direct' = direct \cup woken
           /\ body' = IF Hears(t) THEN Outcome("settled") ELSE Latched(freed)
  /\ UNCHANGED <<cancelled, handshake, awaiting, stopping,
                 gateVars, release, followVars, redrain, otherVars>>

(* abandonProviderTurn: the watchdog lets go, and the turn's events are    *)
(* ignored, by its id when that is known and by the thread's gate if not.  *)
Abandon_NoGate(t) ==
  /\ abandoned' = abandoned \cup {t}
  /\ retired' = IF IdKnown(t) THEN retired \cup ({t} \cap live) ELSE retired
  /\ UNCHANGED turnGate
Abandon(t) ==
  /\ abandoned' = abandoned \cup {t}
  /\ retired' = IF IdKnown(t) THEN retired \cup ({t} \cap live) ELSE retired
  /\ turnGate' = IF IdKnown(t) THEN turnGate ELSE turnGate \cup {t}

(* RoomTurnDeadline fires. *)
DeadlineFires ==
  /\ At("sent") /\ used.faults < MaxFaults
  /\ used' = [used EXCEPT !.faults = @ + 1]
  /\ Abandon(Turn)
  /\ watch' = [watch EXCEPT ![Here] = None]
  /\ body' = Outcome("timed_out")
  /\ UNCHANGED <<chain, cancelled, handshake, live, awaiting, stopping, botVars,
                 roomVars, opGate, release, followVars, redrain, current, open, lapsed, outerVars>>

(* The watchdog's sweep finds a silent thread. *)
Stall(th) ==
  /\ watch[th] # None /\ used.faults < MaxFaults
  /\ used' = [used EXCEPT !.faults = @ + 1]
  /\ watch' = [watch EXCEPT ![th] = None]
  /\ release' = release \cup {watch[th]}
  /\ \/ /\ At("sent") /\ Here = th
        /\ Abandon(Turn)
        /\ body' = Outcome("stalled")
     \/ /\ ~(At("sent") /\ Here = th)
        /\ UNCHANGED <<abandoned, retired, turnGate, body>>
  /\ UNCHANGED <<chain, cancelled, handshake, live, awaiting, stopping, botVars,
                 roomVars, opGate, followVars, redrain, current, open, lapsed, outerVars>>

(* releaseOwnership, six seconds after a deadline or a stall. *)
ReleaseOwnership(t) ==
  /\ t \in release
  /\ release' = release \ {t}
  /\ LET member == t[2]
         th == ThreadOf(t)
         clears == busyBot = member /\ speaker[th] = member
         freed == busy \cap {member}
     IN /\ IF clears THEN ClearSpeaker(th) /\ lapsed' = TRUE
                     ELSE UNCHANGED <<roomVars, lapsed>>
        /\ \/ /\ freed # {}
              /\ \E woken \in MayWake(freed) :
                   Drain(freed, woken) /\ direct' = direct \cup woken
           \/ freed = {} /\ UNCHANGED <<botVars, chain>>
        /\ body' = Latched(freed)
  /\ UNCHANGED <<cancelled, handshake, turnVars, gateVars, watch,
                 followVars, redrain, current, open, used, outerVars>>

(* What runGroupMemberTurn does once its outcome is known.  A deadline     *)
(* leaves the room to the grace timer; the watchdog has set its own.       *)
GraceOwed_None(o) == {}
GraceOwed(o) == IF o = "timed_out" THEN {Turn} ELSE {}
MayMention_EveryHop == ~OpCancelled
MayMention == ~OpCancelled /\ body.hop < MaxHops
Mentions == {<<>>} \cup
  (IF MayMention THEN {<<<<b, body.hop + 1>>>> : b \in Bots \ {body.who}} ELSE {})

TurnStopped ==
  /\ At("after") /\ body.outcome = "cancelled"
  /\ LET freed == busy \cap {body.who}
     IN /\ IF busyBot = body.who THEN ClearSpeaker(Here) ELSE UNCHANGED roomVars
        /\ \E woken \in MayWake(freed) :
             Drain(freed, woken) /\ direct' = direct \cup woken
        /\ watch' = [watch EXCEPT ![Here] = None]
        /\ body' = [body EXCEPT !.stage = "next"]
  /\ UNCHANGED <<cancelled, handshake, turnVars, gateVars, release,
                 followVars, redrain, otherVars>>

TurnGivenUp ==
  /\ At("after") /\ body.outcome \in {"timed_out", "stalled"}
  /\ release' = release \cup GraceOwed(body.outcome)
  /\ EndOp(chain)
  /\ UNCHANGED <<cancelled, handshake, botVars, roomVars, turnVars,
                 turnGate, watch, followVars, current, open, used, outerVars>>

TurnSettled ==
  /\ At("after") /\ body.outcome \in {"settled", "dispatch_failed"}
  /\ LET owned == busyBot = body.who
         freed == IF owned THEN busy \cap {body.who} ELSE {}
     IN /\ IF owned THEN ClearSpeaker(Here) ELSE UNCHANGED roomVars
        /\ \/ /\ body.outcome = "settled"
              /\ Free(freed)
              /\ UNCHANGED chain
              /\ \E m \in Mentions : body' = [body EXCEPT !.stage = "next", !.todo = m \o @]
           \/ /\ body.outcome = "dispatch_failed"
              /\ \E woken \in MayWake(freed) :
                   Drain(freed, woken) /\ direct' = direct \cup woken
              /\ Go("next")
  /\ UNCHANGED <<cancelled, handshake, turnVars, gateVars, timerVars,
                 followVars, redrain, otherVars>>

(* POST /api/groups/:id/interrupt (and the Stop of a bot that is working   *)
(* for the room): every operation of the tasks ths is cancelled before the *)
(* first interrupt is awaited, and the ones between sendTurn and its       *)
(* answer close the gate of their thread.                                  *)
ActiveThreads == {TaskOf[chain[i]] : i \in {j \in DOMAIN chain : chain[j] \notin cancelled}}
StopOps(ths) == {chain[i] : i \in {j \in DOMAIN chain : TaskOf[chain[j]] \in ths}}
Interrupt(ths) ==
  /\ used.stops < MaxStops /\ StopOps(ths) # {}
  /\ ths = ActiveThreads \/ \E th \in ActiveThreads : ths = {th}
  /\ used' = [used EXCEPT !.stops = @ + 1]
  /\ cancelled' = cancelled \cup StopOps(ths)
  /\ opGate' = opGate \cup (StopOps(ths) \cap handshake)
  /\ UNCHANGED <<chain, handshake, body, botVars, roomVars, turnVars,
                 turnGate, timerVars, followVars, redrain, current, open, lapsed, outerVars>>
------------------------------------------------------------------------------
(* What runs before the outside world is heard again. *)
Soon == \/ redrain
        \/ chain # <<>> /\ body.stage \in {"idle", "next", "entry", "after"}
        \/ At("wait") /\ OpCancelled

Continuations ==
  \/ Redrain \/ BeginOp \/ NextResponder \/ WaitStopped \/ EnterTurn
  \/ TurnStopped \/ TurnGivenUp \/ TurnSettled

Person ==
  \/ \E s \in Sends : Send(s) \/ Withdraw(s)
  \/ \E th \in Threads : SwitchTask(th)
  \/ \E c \in Cards : Card(c)
  \/ \E ths \in SUBSET Threads : Interrupt(ths)

Elsewhere == \E b \in Shared :
  \/ ElsewhereStarts(b) \/ ElsewhereEnds(b)
  \/ ElsewhereStalls(b) \/ ElsewhereTimer(b) \/ ElsewhereLateEnd(b)

Provider ==
  \/ SetupEnds \/ BrowserEnds \/ Dispatch
  \/ \E t \in Turns : \/ SendResolves(t) \/ SendRejects(t)
                      \/ SecondInterruptSettles(t) \/ Completes(t)

Timers ==
  \/ WaitCap \/ DeadlineFires
  \/ \E th \in Threads : Stall(th)
  \/ \E t \in Turns : ReleaseOwnership(t)

RoomsNext ==
  \/ Soon /\ Continuations
  \/ ~Soon /\ (Person \/ Elsewhere \/ Provider \/ Timers \/ Reload)

RoomsSpec == RoomsInit /\ [][RoomsNext]_roomsVars

------------------------------------------------------------------------------
Bodies == [stage : RoomStages, who : Bots \cup {None}, hop : 0 .. MaxHops,
           todo : Seq(Bots \X (0 .. MaxHops)), spoken : SUBSET Bots, tried : BOOLEAN,
           outcome : RoomOutcomes]

RoomsTypeOK ==
  /\ current \in Threads
  /\ chain \in Seq(Ops) /\ open \subseteq Cards
  /\ cancelled \subseteq Ops /\ handshake \subseteq Ops
  /\ body \in Bodies
  /\ busy \subseteq Bots /\ direct \subseteq Bots
  /\ resumes \subseteq Cards
  /\ busyBot \in Bots \cup {None} /\ speaker \in [Threads -> Bots \cup {None}]
  /\ live \subseteq Turns /\ awaiting \subseteq Turns /\ stopping \subseteq Turns
  /\ abandoned \subseteq Turns /\ retired \subseteq Turns
  /\ opGate \subseteq Ops /\ turnGate \subseteq Turns
  /\ watch \in [Threads -> Turns \cup {None}] /\ release \subseteq Turns
  /\ queue \in [Threads -> Seq(Sends)]
  /\ fate \in [Sends -> {"unsent", "queued", "started", "withdrawn", "undispatched"}]
  /\ redrain \in BOOLEAN /\ lapsed \in BOOLEAN
  /\ used \in [faults : 0 .. MaxFaults, stops : 0 .. MaxStops]
  /\ strays \subseteq Bots \X {"timer", "turn"} /\ taken \subseteq Bots

(* A bot runs one conversation at a time: none is in the hands of the room *)
(* and of another conversation at once, whoever claims it during the       *)
(* room's awaits.  What breaks it is a fleet reload, or the stray of a     *)
(* stalled turn, that frees a bot in the room's hands; it holds again once *)
(* both have let go of the bot and the room claims it anew.                *)
OneConversationPerBot == direct \cap RoomHolds \subseteq taken

(* A room that names a busy speaker, and a bot that a room turn made busy, *)
(* have somebody who will free them: the operation or a grace timer.       *)
BusyRoomHasOwner ==
  /\ busyBot # None => busyBot \in RoomHolds
  /\ busy \subseteq direct \cup RoomHolds

(* An operation never moves past a provider turn that still runs, unless   *)
(* the turn's events are ignored from then on: a late completion would be  *)
(* taken for the next speaker's.                                           *)
RunningTurnIsAwaitedOrIgnored ==
  \A t \in live : Awaits(t) \/ EventIgnored(t)

(* The late completion of a turn that was given up moves nothing of the    *)
(* room: not its speaker, its bots, nor the operation that runs now.  (A   *)
(* fleet reload ends the turn too, and every bot's with it.)               *)
GivenUpTurnNeverSettlesRoom ==
  [][\A t \in abandoned : t \in live \ live'
       => Reload \/ UNCHANGED <<roomVars, busy, body, watch>>]_roomsVars

(* Once Stop has returned no operation it cancelled sends a turn. *)
StoppedRoundSendsNothing ==
  [][\A t \in live' \ live : t[1] \notin cancelled]_roomsVars

(* A follow-up waits only while the room works, unless a grace timer freed *)
(* the room: that path does not drain (see FollowUpsLeaveAnIdleRoom).      *)
IdleRoomHasNoFollowUps == ~RoomWorking /\ ~redrain /\ ~lapsed => Queued = {}
============================================================================
