---------------------------- MODULE RoomsProofs ----------------------------
(***************************************************************************)
(* Rooms, for every set of members, tasks, messages and cards: who holds   *)
(* the room and its members and will free them, that a provider turn the   *)
(* room no longer awaits is ignored, that a cancelled round sends nothing, *)
(* and that an idle room keeps no follow-up waiting.                       *)
(***************************************************************************)
EXTENDS Rooms, SequenceTheorems, FiniteSetTheorems, TLAPS

USE DEF outerVars

(* An empty chain has no body at work, and one at work has its member. *)
BodyIsOfChain ==
  /\ chain = <<>> => body.stage = "idle"
  /\ body.stage \notin {"idle", "next"} => body.who \in Bots

TypeInv == RoomsTypeOK /\ BodyIsOfChain /\ IsFiniteSet(resumes)

(* From the claim on, the operation owns its member, until an outcome      *)
(* other than a completion has been dealt with; a completion is folded     *)
(* before the operation hears of it.  A grace timer owns its turn's member *)
(* until it fires.                                                         *)
Ending == At("after") /\ body.outcome # "settled"
Owns == \/ chain # <<>> /\ body.stage \in {"browser", "gate", "sent"}
        \/ Ending
OwedStall == At("after") /\ body.outcome = "stalled"
Holders == release \cup (IF Owns THEN {Turn} ELSE {})

(* A member that was not taken from the room is busy, in no other          *)
(* conversation, and held once.                                            *)
HeldAlone(turns) ==
  \A t \in turns : t[2] \notin taken =>
    /\ t[2] \in busy \ direct
    /\ \A u \in turns : u[2] = t[2] => u = t

BusyIsHeld(turns) ==
  /\ busy \subseteq direct \cup {t[2] : t \in turns}
  /\ direct \subseteq busy \cup taken

(* While an operation speaks, the room names its member or nobody; when    *)
(* none does, it names the member of a turn a grace timer still watches.   *)
Speaking == \/ chain # <<>> /\ body.stage \in {"gate", "sent"}
            \/ At("after")
OperationSpeaks ==
  /\ busyBot \in {body.who, None}
  /\ busyBot = body.who => speaker[Here] = body.who
  /\ busyBot = None => body.who \notin busy \ direct
  /\ At("after") /\ body.outcome = "settled" => busyBot = None
TimerSpeaks ==
  busyBot # None => \E u \in release : u[2] = busyBot /\ speaker[ThreadOf(u)] = busyBot
SpeakerHolds == IF Speaking THEN OperationSpeaks ELSE TimerSpeaks

(* The watchdog leaves its timer before the operation hears of the stall,  *)
(* and no operation begins a turn that has one.                            *)
StallIsOwed ==
  /\ OwedStall => Turn \in release
  /\ Owns /\ body.who \notin taken /\ Turn \in release => OwedStall

(* The watchdog watches the turn of the operation, and no other. *)
WatchIsOfTheTurn ==
  \A th \in Threads : watch[th] # None =>
    /\ watch[th] = Turn /\ th = Here
    /\ At("sent") \/ (At("after") /\ body.outcome = "cancelled")

OwnerInv ==
  /\ HeldAlone(Holders)
  /\ BusyIsHeld(Holders)
  /\ SpeakerHolds
  /\ StallIsOwed
  /\ WatchIsOfTheTurn

(* A turn that still runs though the operation went on is known by its id, *)
(* or keeps the gate of its thread closed until its id is known.           *)
TurnsAreIgnored == \A t \in live : Awaits(t) \/ t \in retired \cup turnGate

(* A message or a card is in one place of the room and passes each once:   *)
(* a card is open, waits for its bot or is on the chain, a message is not  *)
(* sent, waits among the follow-ups or was started.                        *)
ChainRunsOnce ==
  /\ open \cap resumes = {}
  /\ \A i \in DOMAIN chain :
       /\ chain[i] \notin open \cup resumes
       /\ chain[i] \in Sends => fate[chain[i]] = "started"
       /\ \A j \in DOMAIN chain : chain[i] = chain[j] => i = j

FollowUpsWaitOnce ==
  \A th \in Threads : \A i \in DOMAIN queue[th] :
    /\ TaskOf[queue[th][i]] = th /\ fate[queue[th][i]] = "queued"
    /\ \A j \in DOMAIN queue[th] : queue[th][i] = queue[th][j] => i = j

(* The operation of a turn that was given up is over, or about to be.      *)
GivenUp == At("after") /\ body.outcome \in {"timed_out", "stalled"}
GivenUpIsOver ==
  \A t \in abandoned :
    /\ t[1] \notin open \cup resumes
    /\ t[1] \in Sends => fate[t[1]] = "started"
    /\ \A i \in DOMAIN chain : chain[i] = t[1] => GivenUp /\ i = 1

OnceInv == ChainRunsOnce /\ FollowUpsWaitOnce /\ GivenUpIsOver

RoomInv == TypeInv /\ OwnerInv /\ TurnsAreIgnored /\ OnceInv
------------------------------------------------------------------------------
(* Types. *)

LEMMA SetToSeqLists ==
  ASSUME NEW S, IsFiniteSet(S)
  PROVE  SetToSeq(S) \in Seq(S)
<1> DEFINE n == Cardinality(S)
<1>1. n \in Nat /\ ExistsBijection(1..n, S)
  BY FS_CardinalityType
<1>2. \E f \in [1..n -> S] : IsInjective(f)
  BY <1>1 DEF ExistsBijection, Bijection, Injection, IsInjective
<1> QED
  BY <1>1, <1>2 DEF SetToSeq

LEMMA OpsFacts ==
  /\ \A c \in Cards : Asks[c] \in Seq(Bots) /\ Head(Asks[c]) \in Bots /\ Head(Asks[c]) # None
  /\ \A o \in Ops : TaskOf[o] \in Threads /\ TaskOf[o] # None /\ Asks[o] \in Seq(Bots)
  /\ \A b \in Bots : b # None
BY RoomsTasksAssumption, RoomsAsksAssumption, RoomsCardsAssumption, RoomsNoneAssumption DEF Ops

LEMMA HeadOfChain ==
  ASSUME TypeInv, chain # <<>>
  PROVE  Op \in Ops /\ Here \in Threads /\ Tail(chain) \in Seq(Ops)
BY OpsFacts DEF TypeInv, RoomsTypeOK, Op, Here

(* What joins the chain leaves the operation at its head alone. *)
LEMMA ChainGrows ==
  ASSUME TypeInv, NEW more \in Seq(Ops), chain' = chain \o more
  PROVE  /\ chain' \in Seq(Ops)
         /\ chain # <<>> => chain' # <<>> /\ Op' = Op /\ Here' = Here
<1>1. chain \in Seq(Ops)
  BY DEF TypeInv, RoomsTypeOK
<1>2. chain' \in Seq(Ops) /\ Len(chain') = Len(chain) + Len(more)
      /\ \A i \in 1 .. Len(chain) : chain'[i] = chain[i]
  BY <1>1, ConcatProperties
<1>3. ASSUME chain # <<>> PROVE chain' # <<>> /\ Head(chain') = Head(chain)
  <2>1. Len(chain) \in Nat \ {0} /\ Len(more) \in Nat
    BY <1>1, <1>3
  <2> QED
    BY <1>1, <1>2, <2>1
<1> QED
  BY <1>2, <1>3 DEF Op, Here

LEMMA ChainAppends ==
  ASSUME TypeInv, NEW o \in Ops, chain' = Append(chain, o)
  PROVE  /\ chain' \in Seq(Ops) /\ chain' # <<>>
         /\ chain # <<>> => Op' = Op /\ Here' = Here
<1>1. chain \in Seq(Ops)
  BY DEF TypeInv, RoomsTypeOK
<1>2. chain' = chain \o <<o>> /\ chain' # <<>>
  BY <1>1, AppendIsConcat, AppendProperties
<1>3. <<o>> \in Seq(Ops)
  OBVIOUS
<1> QED
  BY <1>2, <1>3, ChainGrows

LEMMA DrainTyped ==
  ASSUME TypeInv, NEW fr \in SUBSET Bots, NEW woken \in MayWake(fr), Drain(fr, woken)
  PROVE  /\ busy' \subseteq Bots /\ woken \subseteq fr
         /\ resumes' \subseteq Cards /\ IsFiniteSet(resumes')
         /\ chain' \in Seq(Ops)
         /\ chain # <<>> => chain' # <<>> /\ Op' = Op /\ Here' = Here
<1> DEFINE cs == WokenCards(fr, woken)
<1>1. cs \subseteq resumes /\ resumes \subseteq Cards /\ IsFiniteSet(resumes)
  BY DEF TypeInv, RoomsTypeOK, WokenCards
<1>2. IsFiniteSet(cs) /\ IsFiniteSet(resumes \ cs)
  BY <1>1, FS_Subset
<1>3. SetToSeq(cs) \in Seq(Ops)
  BY <1>1, <1>2, SetToSeqLists, SeqMonotonic DEF Ops
<1>4. chain' = chain \o SetToSeq(cs) /\ resumes' = resumes \ cs
      /\ busy' = (busy \ fr) \cup woken /\ woken \subseteq fr
  BY DEF Drain, MayWake
<1> HIDE DEF cs
<1>5. chain' \in Seq(Ops) /\ (chain # <<>> => chain' # <<>> /\ Op' = Op /\ Here' = Here)
  BY <1>3, <1>4, ChainGrows
<1> QED
  BY <1>1, <1>2, <1>4, <1>5 DEF TypeInv, RoomsTypeOK

LEMMA IdleBodyTyped == IdleBody \in Bodies
<1>1. <<>> \in Seq(Bots \X (0 .. MaxHops)) /\ {} \in SUBSET Bots /\ 0 \in 0 .. MaxHops
  BY DEF MaxHops
<1> QED
  BY <1>1 DEF IdleBody, Bodies, RoomStages, RoomOutcomes

LEMMA EndOpTyped ==
  ASSUME TypeInv, chain # <<>>, EndOp(chain)
  PROVE  /\ chain' \in Seq(Ops) /\ body' \in Bodies /\ BodyIsOfChain'
         /\ opGate' \subseteq Ops /\ lapsed' \in BOOLEAN /\ redrain' \in BOOLEAN
<1>1. chain' \in Seq(Ops)
  BY HeadOfChain DEF EndOp
<1>2. body' = IdleBody /\ body' \in Bodies /\ body'.stage = "idle"
  BY IdleBodyTyped DEF EndOp, IdleBody
<1> QED
  BY <1>1, <1>2 DEF EndOp, BodyIsOfChain, TypeInv, RoomsTypeOK

LEMMA TurnTyped ==
  ASSUME TypeInv, chain # <<>>, body.stage \notin {"idle", "next"}
  PROVE  Turn \in Turns /\ body.who \in Bots
BY HeadOfChain DEF Turn, Turns, TypeInv, BodyIsOfChain

LEMMA SendTyped ==
  ASSUME TypeInv, NEW s \in Sends, Send(s)
  PROVE  TypeInv'
<1> USE DEF TypeInv, RoomsTypeOK
<1>1. s \in Ops
  BY DEF Ops
<1>2. chain' \in Seq(Ops) /\ BodyIsOfChain'
  <2>1. CASE chain' = chain
    BY <2>1 DEF Send, roundVars, BodyIsOfChain
  <2>2. CASE chain' = Append(chain, s)
    BY <1>1, <2>2, ChainAppends DEF Send, BodyIsOfChain
  <2> QED
    BY <2>1, <2>2 DEF Send, StartRound
<1>3. queue' \in [Threads -> Seq(Sends)]
  <2>1. Append(queue[current], s) \in Seq(Sends)
    OBVIOUS
  <2> QED
    BY <2>1 DEF Send
<1>4. fate' \in [Sends -> {"unsent", "queued", "started", "withdrawn", "undispatched"}]
  BY DEF Send, StartRound
<1> QED
  BY <1>2, <1>3, <1>4
     DEF Send, botVars, roomVars, turnVars, gateVars, timerVars, otherVars

LEMMA WithdrawTyped ==
  ASSUME TypeInv, NEW s \in Sends, Withdraw(s)
  PROVE  TypeInv'
<1> USE DEF TypeInv, RoomsTypeOK
<1>0. PICK th \in Threads :
        \E i \in DOMAIN queue[th] : queue' = [queue EXCEPT ![th] = RemoveAt(@, i)]
  BY DEF Withdraw
<1>1. PICK i \in DOMAIN queue[th] : queue' = [queue EXCEPT ![th] = RemoveAt(@, i)]
  BY <1>0
<1>2. RemoveAt(queue[th], i) \in Seq(Sends)
  <2>1. queue[th] \in Seq(Sends) /\ i \in 1 .. Len(queue[th])
    BY <1>1
  <2>2. SubSeq(queue[th], 1, i - 1) \in Seq(Sends)
        /\ SubSeq(queue[th], i + 1, Len(queue[th])) \in Seq(Sends)
    BY <2>1
  <2> QED
    BY <2>2 DEF RemoveAt
<1>3. queue' \in [Threads -> Seq(Sends)]
  BY <1>1, <1>2
<1>4. fate' \in [Sends -> {"unsent", "queued", "started", "withdrawn", "undispatched"}]
  BY DEF Withdraw
<1>5. BodyIsOfChain'
  BY DEF Withdraw, roundVars, BodyIsOfChain
<1> QED
  BY <1>3, <1>4, <1>5 DEF Withdraw, roundVars, botVars, roomVars, turnVars,
                          gateVars, timerVars, otherVars

LEMMA SwitchTaskTyped ==
  ASSUME TypeInv, NEW th \in Threads, SwitchTask(th)
  PROVE  TypeInv'
BY DEF SwitchTask, TypeInv, RoomsTypeOK, BodyIsOfChain, roundVars, botVars, roomVars, turnVars,
       gateVars, timerVars, followVars

LEMMA RedrainTyped ==
  ASSUME TypeInv, Redrain
  PROVE  TypeInv'
<1> USE DEF TypeInv, RoomsTypeOK
<1>1. CASE UNCHANGED <<chain, queue, fate>> /\ redrain' = FALSE
  BY <1>1 DEF Redrain, BodyIsOfChain, botVars, roomVars, turnVars, gateVars, timerVars, otherVars
<1>2. ASSUME NEW th \in Queued, StartRound(Head(queue[th])),
             queue' = [queue EXCEPT ![th] = Tail(@)], UNCHANGED redrain
      PROVE  TypeInv'
  <2> DEFINE s == Head(queue[th])
  <2>1. th \in Threads /\ s \in Sends /\ s \in Ops /\ Tail(queue[th]) \in Seq(Sends)
    BY <1>2 DEF Queued, Ops
  <2>2. chain' \in Seq(Ops) /\ BodyIsOfChain'
    <3>1. CASE chain' = chain
      BY <3>1 DEF Redrain, BodyIsOfChain
    <3>2. CASE chain' = Append(chain, s)
      BY <2>1, <3>2, ChainAppends DEF Redrain, BodyIsOfChain
    <3> QED
      BY <3>1, <3>2, <1>2 DEF StartRound
  <2>3. queue' \in [Threads -> Seq(Sends)]
    BY <1>2, <2>1
  <2>4. fate' \in [Sends -> {"unsent", "queued", "started", "withdrawn", "undispatched"}]
    BY <1>2, <2>1 DEF StartRound
  <2> QED
    BY <1>2, <2>2, <2>3, <2>4
       DEF Redrain, botVars, roomVars, turnVars, gateVars, timerVars, otherVars
<1> QED
  BY <1>1, <1>2 DEF Redrain

LEMMA CardTyped ==
  ASSUME TypeInv, NEW c \in Cards, Card(c)
  PROVE  TypeInv'
<1> USE DEF TypeInv, RoomsTypeOK
<1>1. c \in Ops
  BY DEF Ops
<1>2. chain' \in Seq(Ops) /\ BodyIsOfChain'
  <2>1. CASE chain' = chain
    BY <2>1 DEF Card, BodyIsOfChain
  <2>2. CASE chain' = Append(chain, c)
    BY <1>1, <2>2, ChainAppends DEF Card, BodyIsOfChain
  <2> QED
    BY <2>1, <2>2 DEF Card
<1>3. resumes' \subseteq Cards /\ IsFiniteSet(resumes')
  <2>1. IsFiniteSet(resumes \cup {c})
    BY FS_AddElement
  <2> QED
    BY <2>1 DEF Card
<1> QED
  BY <1>2, <1>3 DEF Card, roomVars, turnVars, gateVars, timerVars, followVars

LEMMA FaultCounted ==
  ASSUME TypeInv, used.faults < MaxFaults, used' = [used EXCEPT !.faults = @ + 1]
  PROVE  used' \in [faults : 0 .. MaxFaults, stops : 0 .. MaxStops]
<1>1. used \in [faults : 0 .. MaxFaults, stops : 0 .. MaxStops]
  BY DEF TypeInv, RoomsTypeOK
<1>2. used.faults + 1 \in 0 .. MaxFaults
  BY <1>1, RoomsBoundsAssumption
<1> QED
  BY <1>1, <1>2

(* What the other conversations and a fleet reload do to the room: they    *)
(* set bots idle, and what waits for these bots joins the chain.           *)
SetsIdle(fr) ==
  \E woken \in MayWake(fr) :
    /\ Drain(fr, woken) /\ direct' \subseteq direct \cup woken
    /\ body' = Latched(fr)

LEMMA IdledFacts ==
  ASSUME TypeInv, NEW fr \in SUBSET Bots, SetsIdle(fr)
  PROVE  /\ busy' \subseteq Bots /\ direct' \subseteq Bots
         /\ resumes' \subseteq Cards /\ IsFiniteSet(resumes')
         /\ chain' \in Seq(Ops) /\ body' \in Bodies /\ BodyIsOfChain'
         /\ chain # <<>> => chain' # <<>> /\ Op' = Op /\ Here' = Here
         /\ body.stage # "wait" => body' = body
<1>1. PICK woken \in MayWake(fr) : /\ Drain(fr, woken) /\ direct' \subseteq direct \cup woken
                                   /\ body' = Latched(fr)
  BY DEF SetsIdle
<1>2. /\ busy' \subseteq Bots /\ woken \subseteq fr
      /\ resumes' \subseteq Cards /\ IsFiniteSet(resumes')
      /\ chain' \in Seq(Ops)
      /\ chain # <<>> => chain' # <<>> /\ Op' = Op /\ Here' = Here
  BY <1>1, DrainTyped
<1>3. body' \in Bodies /\ BodyIsOfChain' /\ (body.stage # "wait" => body' = body)
  BY <1>1, <1>2 DEF Latched, Bodies, RoomStages, BodyIsOfChain, TypeInv, RoomsTypeOK
<1> QED
  BY <1>1, <1>2, <1>3 DEF TypeInv, RoomsTypeOK

LEMMA OutsideSteps ==
  ASSUME TypeInv, Elsewhere \/ Reload
  PROVE  /\ UNCHANGED <<current, open, cancelled, handshake, awaiting, stopping, roomVars,
                        gateVars, timerVars, followVars, redrain, lapsed>>
         /\ live' \subseteq live /\ retired' \subseteq retired /\ abandoned' \subseteq abandoned
         /\ live' \cap retired \subseteq retired'
         /\ \/ UNCHANGED <<chain, body, resumes>>
            \/ \E fr \in SUBSET Bots : SetsIdle(fr)
<1>1. CASE Reload
  <2>1. SetsIdle(busy) /\ busy \in SUBSET Bots
    BY <1>1 DEF Reload, SetsIdle, TypeInv, RoomsTypeOK
  <2> QED
    BY <1>1, <2>1 DEF Reload
<1>2. ASSUME NEW b \in Shared, \/ ElsewhereEnds(b)
                               \/ StrayFrees(b) /\ UNCHANGED StrayVars
      PROVE  SetsIdle({b}) /\ {b} \in SUBSET Bots
  BY <1>2, RoomsSharedAssumption DEF ElsewhereEnds, StrayFrees, SetsIdle
<1>3. CASE Elsewhere
  <2>1. PICK b \in Shared : \/ ElsewhereStarts(b) \/ ElsewhereEnds(b)
                            \/ ElsewhereStalls(b) \/ ElsewhereTimer(b) \/ ElsewhereLateEnd(b)
    BY <1>3 DEF Elsewhere
  <2>2. CASE ElsewhereStarts(b) \/ ElsewhereStalls(b)
    BY <2>2 DEF ElsewhereStarts, ElsewhereStalls, roundVars, botVars, turnVars, otherVars
  <2>3. CASE ElsewhereEnds(b)
    BY <1>2, <2>3 DEF ElsewhereEnds, turnVars, otherVars
  <2>4. CASE ElsewhereTimer(b) \/ ElsewhereLateEnd(b)
    <3>1. \/ UNCHANGED <<chain, body, resumes>>
          \/ \E fr \in SUBSET Bots : SetsIdle(fr)
      BY <1>2, <2>4 DEF ElsewhereTimer, ElsewhereLateEnd, botVars
    <3> QED
      BY <2>4, <3>1 DEF ElsewhereTimer, ElsewhereLateEnd, StrayVars, turnVars
  <2> QED
    BY <2>1, <2>2, <2>3, <2>4
<1> QED
  BY <1>1, <1>3

LEMMA OutsideTyped ==
  ASSUME TypeInv, Elsewhere \/ Reload
  PROVE  TypeInv'
<1>1. /\ busy' \subseteq Bots /\ direct' \subseteq Bots
      /\ resumes' \subseteq Cards /\ IsFiniteSet(resumes')
      /\ chain' \in Seq(Ops) /\ body' \in Bodies /\ BodyIsOfChain'
  <2>1. CASE \E fr \in SUBSET Bots : SetsIdle(fr)
    BY <2>1, IdledFacts
  <2>2. CASE ~\E fr \in SUBSET Bots : SetsIdle(fr)
    <3>1. UNCHANGED <<chain, body, resumes>>
      BY <2>2, OutsideSteps
    <3>2. ~Reload
      BY <2>2 DEF Reload, SetsIdle, TypeInv, RoomsTypeOK
    <3>3. \A b \in Shared : ~ElsewhereEnds(b) /\ ~StrayFrees(b)
      BY <2>2, RoomsSharedAssumption DEF ElsewhereEnds, StrayFrees, SetsIdle
    <3>4. PICK b \in Shared : \/ ElsewhereStarts(b) \/ ElsewhereStalls(b)
                              \/ ElsewhereTimer(b) /\ UNCHANGED botVars
      BY <3>2, <3>3 DEF Elsewhere, ElsewhereTimer, ElsewhereLateEnd
    <3>5. busy' \subseteq busy \cup {b} /\ direct' \subseteq direct \cup {b} /\ b \in Bots
      BY <3>4, RoomsSharedAssumption DEF ElsewhereStarts, ElsewhereStalls, botVars
    <3> QED
      BY <3>1, <3>5 DEF TypeInv, RoomsTypeOK, BodyIsOfChain
  <2> QED
    BY <2>1, <2>2
<1>2. used' \in [faults : 0 .. MaxFaults, stops : 0 .. MaxStops]
  BY FaultCounted DEF Elsewhere, ElsewhereStarts, ElsewhereEnds, ElsewhereStalls, ElsewhereTimer,
     ElsewhereLateEnd, StrayVars, Reload, otherVars, TypeInv, RoomsTypeOK
<1>3. strays' \subseteq Bots \X {"timer", "turn"} /\ taken' \subseteq Bots
  <2>0. /\ strays \subseteq Bots \X {"timer", "turn"} /\ taken \subseteq Bots
        /\ busy \subseteq Bots /\ direct \subseteq Bots /\ Shared \subseteq Bots
    BY RoomsSharedAssumption DEF TypeInv, RoomsTypeOK
  <2>1. CASE Reload
    BY <2>0, <2>1 DEF Reload
  <2>2. ASSUME NEW b \in Shared, ElsewhereStarts(b) \/ ElsewhereEnds(b) \/ ElsewhereStalls(b)
        PROVE  strays' \subseteq Bots \X {"timer", "turn"} /\ taken' \subseteq Bots
    BY <2>0, <2>2 DEF ElsewhereStarts, ElsewhereEnds, ElsewhereStalls, otherVars
  <2>3. ASSUME NEW b \in Shared, ElsewhereTimer(b) \/ ElsewhereLateEnd(b)
        PROVE  strays' \subseteq Bots \X {"timer", "turn"} /\ taken' \subseteq Bots
    <3>1. taken' = taken \/ taken' = taken \cup ({b} \cap busy \cap RoomHolds)
      BY <2>3 DEF ElsewhereTimer, ElsewhereLateEnd, StrayFrees
    <3>2. strays' \subseteq strays \cup (direct \X {"turn"})
      BY <2>3 DEF ElsewhereTimer, ElsewhereLateEnd
    <3> QED
      BY <2>0, <3>1, <3>2
  <2> QED
    BY <2>1, <2>2, <2>3 DEF Elsewhere
<1>4. /\ live' \subseteq Turns /\ awaiting' \subseteq Turns /\ stopping' \subseteq Turns
      /\ abandoned' \subseteq Turns /\ retired' \subseteq Turns
  BY OutsideSteps DEF TypeInv, RoomsTypeOK
<1>5. UNCHANGED <<current, open, cancelled, handshake, busyBot, speaker, opGate, turnGate,
                  watch, release, queue, fate, redrain, lapsed>>
  BY OutsideSteps DEF roomVars, gateVars, timerVars, followVars
<1> QED
  BY <1>1, <1>2, <1>3, <1>4, <1>5 DEF TypeInv, RoomsTypeOK

LEMMA BeginOpTyped ==
  ASSUME TypeInv, BeginOp
  PROVE  TypeInv'
<1> USE DEF TypeInv, RoomsTypeOK
<1>1. chain # <<>> /\ body.stage = "idle" /\ Op \in Ops
  BY HeadOfChain DEF BeginOp, At
<1>2. /\ chain' \in Seq(Ops) /\ body' \in Bodies /\ BodyIsOfChain'
      /\ opGate' \subseteq Ops /\ lapsed' \in BOOLEAN /\ redrain' \in BOOLEAN
  <2>1. CASE EndOp(chain)
    BY <1>1, <2>1, EndOpTyped
  <2>2. CASE UNCHANGED <<chain, redrain, lapsed, opGate>>
             /\ body' = [IdleBody EXCEPT !.stage = "next",
                           !.todo = [i \in DOMAIN Asks[Op] |-> <<Asks[Op][i], 0>>]]
    <3>1. Asks[Op] \in Seq(Bots)
      BY <1>1, OpsFacts
    <3>2. [i \in DOMAIN Asks[Op] |-> <<Asks[Op][i], 0>>] \in Seq(Bots \X (0 .. MaxHops))
      <4>1. 0 \in 0 .. MaxHops
        BY DEF MaxHops
      <4>2. DOMAIN Asks[Op] = 1 .. Len(Asks[Op]) /\ Len(Asks[Op]) \in Nat
            /\ \A i \in 1 .. Len(Asks[Op]) : Asks[Op][i] \in Bots
        BY <3>1
      <4>3. [i \in 1 .. Len(Asks[Op]) |-> <<Asks[Op][i], 0>>] \in Seq(Bots \X (0 .. MaxHops))
        BY <4>1, <4>2
      <4> QED
        BY <4>2, <4>3
    <3>3. body' \in Bodies /\ body'.stage = "next"
      BY <2>2, <3>2, IdleBodyTyped DEF Bodies, RoomStages
    <3> QED
      BY <1>1, <2>2, <3>3 DEF BodyIsOfChain
  <2>3. CASE UNCHANGED <<chain, redrain, lapsed, opGate>> /\ Op \in Cards
             /\ body' = [IdleBody EXCEPT !.stage = "entry", !.who = Head(Asks[Op])]
    <3>1. Head(Asks[Op]) \in Bots
      BY <2>3, OpsFacts
    <3>2. body' \in Bodies /\ body'.stage = "entry" /\ body'.who \in Bots
      BY <2>3, <3>1, IdleBodyTyped DEF Bodies, RoomStages
    <3> QED
      BY <1>1, <2>3, <3>2 DEF BodyIsOfChain
  <2> QED
    BY <2>1, <2>2, <2>3 DEF BeginOp
<1>3. fate' \in [Sends -> {"unsent", "queued", "started", "withdrawn", "undispatched"}]
  BY <1>1 DEF BeginOp, NotDispatched
<1>4. resumes' \subseteq Cards /\ IsFiniteSet(resumes')
  <2>1. CASE resumes' = resumes
    BY <2>1
  <2>2. CASE Op \in Cards /\ resumes' = resumes \cup {Op}
    BY <2>2, FS_AddElement
  <2> QED
    BY <2>1, <2>2 DEF BeginOp
<1> QED
  BY <1>2, <1>3, <1>4 DEF BeginOp, roomVars, turnVars, timerVars

LEMMA NextResponderTyped ==
  ASSUME TypeInv, NextResponder
  PROVE  TypeInv'
<1> USE DEF TypeInv, RoomsTypeOK
<1>1. chain # <<>>
  BY DEF NextResponder, At
<1>2. /\ chain' \in Seq(Ops) /\ body' \in Bodies /\ BodyIsOfChain'
      /\ opGate' \subseteq Ops /\ lapsed' \in BOOLEAN /\ redrain' \in BOOLEAN
  <2>1. CASE EndOp(chain)
    BY <1>1, <2>1, EndOpTyped
  <2>2. CASE body.todo # <<>> /\ UNCHANGED <<chain, redrain, lapsed, opGate>>
    <3> DEFINE b == Head(body.todo)[1]
               h == Head(body.todo)[2]
               rest == [body EXCEPT !.todo = Tail(@)]
    <3>1. Head(body.todo) \in Bots \X (0 .. MaxHops) /\ Tail(body.todo) \in Seq(Bots \X (0 .. MaxHops))
      BY <2>2 DEF Bodies
    <3>2. b \in Bots /\ h \in 0 .. MaxHops
      BY <3>1
    <3>3. rest \in Bodies /\ rest.stage = body.stage
      BY <3>1 DEF Bodies
    <3>4. CASE body' = rest
      BY <1>1, <2>2, <3>3, <3>4 DEF NextResponder, At, BodyIsOfChain
    <3>5. ASSUME NEW st \in {"wait", "entry"},
                 body' = [rest EXCEPT !.who = b, !.hop = h, !.tried = FALSE, !.stage = st]
          PROVE  body' \in Bodies /\ BodyIsOfChain'
      <4> HIDE DEF b, h, rest
      <4>1. body' \in Bodies /\ body'.who \in Bots
        BY <3>2, <3>3, <3>5 DEF Bodies, RoomStages
      <4>2. chain' = chain
        BY <2>2
      <4> QED
        BY <1>1, <4>1, <4>2 DEF BodyIsOfChain
    <3>6. \/ body' = rest \/ EndOp(chain)
          \/ \E st \in {"wait", "entry"} :
               body' = [rest EXCEPT !.who = b, !.hop = h, !.tried = FALSE, !.stage = st]
      BY DEF NextResponder
    <3>7. body' \in Bodies /\ BodyIsOfChain'
      BY <2>1, <3>4, <3>5, <3>6
    <3> QED
      BY <2>2, <3>7
  <2> QED
    BY <2>1, <2>2 DEF NextResponder
<1> QED
  BY <1>2 DEF NextResponder, botVars, roomVars, turnVars, timerVars, followVars

LEMMA WaitStoppedTyped ==
  ASSUME TypeInv, WaitStopped
  PROVE  TypeInv'
<1>1. chain # <<>> /\ EndOp(chain)
  BY DEF WaitStopped, At
<1> QED
  BY <1>1, EndOpTyped
     DEF TypeInv, RoomsTypeOK, WaitStopped, botVars, roomVars, turnVars, timerVars, followVars

LEMMA PassOverTyped ==
  ASSUME TypeInv, chain # <<>>, NEW spoken \in {body.spoken, Spoke},
         body.stage \notin {"idle", "next"}, chain' = chain, PassOver(spoken)
  PROVE  body' \in Bodies /\ BodyIsOfChain'
<1>1. body.who \in Bots /\ spoken \in SUBSET Bots
  BY DEF TypeInv, RoomsTypeOK, BodyIsOfChain, Bodies, Spoke
<1>2. body' \in Bodies /\ body'.stage = "next"
  BY <1>1 DEF PassOver, TypeInv, RoomsTypeOK, Bodies, RoomStages
<1> QED
  BY <1>2 DEF BodyIsOfChain

LEMMA WaitCapTyped ==
  ASSUME TypeInv, WaitCap
  PROVE  TypeInv'
<1>1. body' \in Bodies /\ BodyIsOfChain'
  BY PassOverTyped DEF WaitCap, At
<1> QED
  BY <1>1 DEF TypeInv, RoomsTypeOK, WaitCap, botVars, roomVars, turnVars, gateVars, timerVars,
              followVars, otherVars

LEMMA EnterTurnTyped ==
  ASSUME TypeInv, EnterTurn
  PROVE  TypeInv'
<1> USE DEF TypeInv, RoomsTypeOK
<1>1. chain # <<>> /\ body.stage = "entry"
  BY DEF EnterTurn, At
<1>2. /\ chain' \in Seq(Ops) /\ body' \in Bodies /\ BodyIsOfChain'
      /\ opGate' \subseteq Ops /\ lapsed' \in BOOLEAN /\ redrain' \in BOOLEAN
  <2>1. CASE EndOp(chain)
    BY <1>1, <2>1, EndOpTyped
  <2>2. ASSUME NEW spoken \in {body.spoken, Spoke}, PassOver(spoken),
               UNCHANGED <<chain, redrain, lapsed, opGate>>
        PROVE  body' \in Bodies /\ BodyIsOfChain'
    BY <1>1, <2>2, PassOverTyped
  <2>3. ASSUME body' = [body EXCEPT !.stage = "setup", !.spoken = Spoke],
               UNCHANGED <<chain, redrain, lapsed, opGate>>
        PROVE  body' \in Bodies /\ BodyIsOfChain'
    BY <1>1, <2>3 DEF Spoke, Bodies, RoomStages, BodyIsOfChain
  <2> QED
    BY <2>1, <2>2, <2>3 DEF EnterTurn
<1> QED
  BY <1>2 DEF EnterTurn, botVars, roomVars, turnVars, timerVars, followVars

LEMMA SetupEndsTyped ==
  ASSUME TypeInv, SetupEnds
  PROVE  TypeInv'
<1> USE DEF TypeInv, RoomsTypeOK
<1>1. chain # <<>> /\ body.stage = "setup" /\ body.who \in Bots
  BY TurnTyped DEF SetupEnds, At
<1>2. /\ chain' \in Seq(Ops) /\ body' \in Bodies /\ BodyIsOfChain'
      /\ opGate' \subseteq Ops /\ lapsed' \in BOOLEAN /\ redrain' \in BOOLEAN
  <2>1. CASE EndOp(chain)
    BY <1>1, <2>1, EndOpTyped
  <2>2. ASSUME PassOver(Spoke), UNCHANGED <<chain, redrain, lapsed, opGate>>
        PROVE  body' \in Bodies /\ BodyIsOfChain'
    BY <1>1, <2>2, PassOverTyped
  <2>3. ASSUME body' = [body EXCEPT !.stage = "entry", !.tried = TRUE],
               UNCHANGED <<chain, redrain, lapsed, opGate>>
        PROVE  body' \in Bodies /\ BodyIsOfChain'
    BY <1>1, <2>3 DEF Bodies, RoomStages, BodyIsOfChain
  <2>4. ASSUME Go("browser"), UNCHANGED <<chain, redrain, lapsed, opGate>>
        PROVE  body' \in Bodies /\ BodyIsOfChain'
    BY <1>1, <2>4 DEF Go, Bodies, RoomStages, BodyIsOfChain
  <2> QED
    BY <2>1, <2>2, <2>3, <2>4 DEF SetupEnds
<1>3. busy' \subseteq Bots /\ taken' \subseteq Bots
  BY <1>1 DEF SetupEnds
<1> QED
  BY <1>2, <1>3 DEF SetupEnds, roomVars, turnVars, timerVars, followVars

LEMMA BrowserEndsTyped ==
  ASSUME TypeInv, BrowserEnds
  PROVE  TypeInv'
<1> USE DEF TypeInv, RoomsTypeOK
<1>1. chain # <<>> /\ body.stage = "browser" /\ body.who \in Bots /\ Here \in Threads
  BY TurnTyped, HeadOfChain DEF BrowserEnds, At
<1>2. /\ chain' \in Seq(Ops) /\ body' \in Bodies /\ BodyIsOfChain'
      /\ opGate' \subseteq Ops /\ lapsed' \in BOOLEAN /\ redrain' \in BOOLEAN
  <2>1. CASE EndOp(chain)
    BY <1>1, <2>1, EndOpTyped
  <2>2. ASSUME Go("gate"), UNCHANGED <<chain, redrain, lapsed, opGate>>
        PROVE  body' \in Bodies /\ BodyIsOfChain'
    BY <1>1, <2>2 DEF Go, Bodies, RoomStages, BodyIsOfChain
  <2> QED
    BY <2>1, <2>2 DEF BrowserEnds
<1>3. UNCHANGED <<direct, resumes>> /\ busy' \subseteq Bots
  BY DEF BrowserEnds, Free, botVars
<1>4. busyBot' \in Bots \cup {None} /\ speaker' \in [Threads -> Bots \cup {None}]
  BY <1>1 DEF BrowserEnds, roomVars
<1> QED
  BY <1>2, <1>3, <1>4 DEF BrowserEnds, turnVars, timerVars, followVars

LEMMA ClearSpeakerTyped ==
  ASSUME TypeInv, NEW th \in Threads, ClearSpeaker(th) \/ UNCHANGED roomVars
  PROVE  busyBot' \in Bots \cup {None} /\ speaker' \in [Threads -> Bots \cup {None}]
BY DEF TypeInv, RoomsTypeOK, ClearSpeaker, roomVars

LEMMA DispatchTyped ==
  ASSUME TypeInv, Dispatch
  PROVE  TypeInv'
<1> USE DEF TypeInv, RoomsTypeOK
<1>1. chain # <<>> /\ body.stage = "gate" /\ Turn \in Turns /\ Op \in Ops /\ Here \in Threads
  BY TurnTyped, HeadOfChain DEF Dispatch, At
<1>2. /\ chain' \in Seq(Ops) /\ body' \in Bodies /\ BodyIsOfChain'
      /\ opGate' \subseteq Ops /\ lapsed' \in BOOLEAN /\ redrain' \in BOOLEAN
  <2>1. CASE EndOp(chain)
    BY <1>1, <2>1, EndOpTyped
  <2>2. ASSUME Go("sent"), UNCHANGED <<chain, redrain, lapsed, opGate>>
        PROVE  body' \in Bodies /\ BodyIsOfChain'
    BY <1>1, <2>2 DEF Go, Bodies, RoomStages, BodyIsOfChain
  <2> QED
    BY <2>1, <2>2 DEF Dispatch
<1>3. UNCHANGED <<direct, resumes>> /\ busy' \subseteq Bots
  BY DEF Dispatch, Free, botVars
<1>4. busyBot' \in Bots \cup {None} /\ speaker' \in [Threads -> Bots \cup {None}]
  BY <1>1, ClearSpeakerTyped DEF Dispatch
<1>5. /\ live' \subseteq Turns /\ awaiting' \subseteq Turns /\ handshake' \subseteq Ops
      /\ watch' \in [Threads -> Turns \cup {None}]
  BY <1>1 DEF Dispatch
<1> QED
  BY <1>2, <1>3, <1>4, <1>5 DEF Dispatch, followVars

LEMMA OutcomeTyped ==
  ASSUME TypeInv, chain # <<>>, body.stage \notin {"idle", "next"}, chain' # <<>>,
         NEW o \in RoomOutcomes, body' = Outcome(o)
  PROVE  body' \in Bodies /\ BodyIsOfChain'
BY DEF TypeInv, RoomsTypeOK, Outcome, Bodies, RoomStages, BodyIsOfChain

LEMMA OutcomeOfTyped ==
  ASSUME TypeInv, chain' = chain, NEW t, NEW o \in RoomOutcomes, body' = OutcomeOf(t, o)
  PROVE  body' \in Bodies /\ BodyIsOfChain'
<1>1. CASE Awaits(t)
  BY <1>1, OutcomeTyped DEF OutcomeOf, Awaits, At
<1>2. CASE ~Awaits(t)
  BY <1>2 DEF OutcomeOf, TypeInv, RoomsTypeOK, BodyIsOfChain
<1> QED
  BY <1>1, <1>2

LEMMA SendResolvesTyped ==
  ASSUME TypeInv, NEW t \in Turns, SendResolves(t)
  PROVE  TypeInv'
BY DEF SendResolves, HandshakeSettled, TypeInv, RoomsTypeOK, BodyIsOfChain, botVars, roomVars,
       timerVars, followVars, otherVars

LEMMA SecondInterruptSettlesTyped ==
  ASSUME TypeInv, NEW t \in Turns, SecondInterruptSettles(t)
  PROVE  TypeInv'
<1>1. body' \in Bodies /\ BodyIsOfChain'
  BY OutcomeOfTyped DEF SecondInterruptSettles, RoomOutcomes
<1> QED
  BY <1>1 DEF SecondInterruptSettles, HandshakeSettled, TypeInv, RoomsTypeOK, botVars, roomVars,
              timerVars, followVars, otherVars

LEMMA SendRejectsTyped ==
  ASSUME TypeInv, NEW t \in Turns, SendRejects(t)
  PROVE  TypeInv'
<1>1. body' \in Bodies /\ BodyIsOfChain'
  <2>1. CASE body' = body
    BY <2>1 DEF SendRejects, TypeInv, RoomsTypeOK, BodyIsOfChain
  <2>2. CASE body' = OutcomeOf(t, "dispatch_failed")
    BY <2>2, OutcomeOfTyped DEF SendRejects, RoomOutcomes
  <2> QED
    BY <2>1, <2>2 DEF SendRejects
<1>2. watch' \in [Threads -> Turns \cup {None}]
  BY DEF SendRejects, TypeInv, RoomsTypeOK
<1> QED
  BY <1>1, <1>2 DEF SendRejects, HandshakeSettled, TypeInv, RoomsTypeOK, botVars, roomVars,
                    followVars, otherVars

LEMMA CompletesTyped ==
  ASSUME TypeInv, NEW t \in Turns, Completes(t)
  PROVE  TypeInv'
<1> USE DEF TypeInv, RoomsTypeOK
<1> DEFINE th == ThreadOf(t)
           clears == speaker[th] # None /\ busyBot = speaker[th]
           freed == IF clears THEN {speaker[th]} ELSE {}
<1>1. th \in Threads
  BY OpsFacts DEF ThreadOf, Turns
<1>2. freed \in SUBSET Bots
  BY <1>1
<1>3. live' \subseteq Turns /\ retired' \subseteq Turns /\ abandoned' \subseteq Turns
  BY DEF Completes
<1>4. CASE UNCHANGED <<watch, roomVars, botVars, chain, body>>
  BY <1>3, <1>4 DEF Completes, BodyIsOfChain, roomVars, botVars, gateVars, followVars, otherVars
<1>5. ASSUME NEW woken \in MayWake(freed), Drain(freed, woken), direct' = direct \cup woken,
             watch' = [watch EXCEPT ![th] = None],
             ClearSpeaker(th) \/ UNCHANGED roomVars,
             body' = IF Hears(t) THEN Outcome("settled") ELSE Latched(freed)
      PROVE  TypeInv'
  <2>1. /\ busy' \subseteq Bots /\ woken \subseteq freed
        /\ resumes' \subseteq Cards /\ IsFiniteSet(resumes')
        /\ chain' \in Seq(Ops)
        /\ chain # <<>> => chain' # <<>>
    BY <1>2, <1>5, DrainTyped
  <2>2. body' \in Bodies /\ BodyIsOfChain'
    <3>1. CASE Hears(t)
      BY <1>5, <2>1, <3>1, OutcomeTyped DEF Hears, At, RoomOutcomes
    <3>2. CASE ~Hears(t)
      BY <1>5, <2>1, <3>2 DEF Latched, Bodies, RoomStages, BodyIsOfChain
    <3> QED
      BY <3>1, <3>2
  <2>3. busyBot' \in Bots \cup {None} /\ speaker' \in [Threads -> Bots \cup {None}]
    BY <1>1, <1>5, ClearSpeakerTyped
  <2>4. watch' \in [Threads -> Turns \cup {None}] /\ direct' \subseteq Bots
    BY <1>1, <1>2, <1>5, <2>1
  <2> QED
    BY <1>3, <2>1, <2>2, <2>3, <2>4 DEF Completes, gateVars, followVars, otherVars
<1> QED
  BY <1>4, <1>5 DEF Completes

LEMMA AbandonTyped ==
  ASSUME TypeInv, NEW t \in Turns, Abandon(t)
  PROVE  abandoned' \subseteq Turns /\ retired' \subseteq Turns /\ turnGate' \subseteq Turns
BY DEF Abandon, TypeInv, RoomsTypeOK

LEMMA DeadlineFiresTyped ==
  ASSUME TypeInv, DeadlineFires
  PROVE  TypeInv'
<1> USE DEF TypeInv, RoomsTypeOK
<1>1. chain # <<>> /\ body.stage = "sent" /\ Turn \in Turns /\ Here \in Threads
  BY TurnTyped, HeadOfChain DEF DeadlineFires, At
<1>2. abandoned' \subseteq Turns /\ retired' \subseteq Turns /\ turnGate' \subseteq Turns
  BY <1>1, AbandonTyped DEF DeadlineFires
<1>3. body' \in Bodies /\ BodyIsOfChain'
  BY <1>1, OutcomeTyped DEF DeadlineFires, RoomOutcomes
<1>4. watch' \in [Threads -> Turns \cup {None}]
  BY <1>1 DEF DeadlineFires
<1>5. used' \in [faults : 0 .. MaxFaults, stops : 0 .. MaxStops]
  BY FaultCounted DEF DeadlineFires
<1> QED
  BY <1>2, <1>3, <1>4, <1>5 DEF DeadlineFires, botVars, roomVars, followVars

LEMMA StallTyped ==
  ASSUME TypeInv, NEW th \in Threads, Stall(th)
  PROVE  TypeInv'
<1> USE DEF TypeInv, RoomsTypeOK
<1>1. abandoned' \subseteq Turns /\ retired' \subseteq Turns /\ turnGate' \subseteq Turns
      /\ body' \in Bodies /\ BodyIsOfChain'
  <2>1. CASE At("sent") /\ Abandon(Turn) /\ body' = Outcome("stalled")
    <3>1. chain # <<>> /\ body.stage = "sent" /\ Turn \in Turns /\ chain' = chain
      BY <2>1, TurnTyped DEF Stall, At
    <3> QED
      BY <2>1, <3>1, AbandonTyped, OutcomeTyped DEF RoomOutcomes
  <2>2. CASE UNCHANGED <<abandoned, retired, turnGate, body>>
    BY <2>2 DEF Stall, BodyIsOfChain
  <2> QED
    BY <2>1, <2>2 DEF Stall
<1>2. watch' \in [Threads -> Turns \cup {None}] /\ release' \subseteq Turns
  BY DEF Stall
<1>3. used' \in [faults : 0 .. MaxFaults, stops : 0 .. MaxStops]
  BY FaultCounted DEF Stall
<1> QED
  BY <1>1, <1>2, <1>3 DEF Stall, botVars, roomVars, followVars

LEMMA ReleaseOwnershipTyped ==
  ASSUME TypeInv, NEW t \in Turns, ReleaseOwnership(t)
  PROVE  TypeInv'
<1> USE DEF TypeInv, RoomsTypeOK
<1> DEFINE freed == busy \cap {t[2]}
<1>1. ThreadOf(t) \in Threads /\ freed \in SUBSET Bots
  BY OpsFacts DEF ThreadOf, Turns
<1>2. busyBot' \in Bots \cup {None} /\ speaker' \in [Threads -> Bots \cup {None}]
  BY <1>1, ClearSpeakerTyped DEF ReleaseOwnership
<1>3. lapsed' \in BOOLEAN /\ release' \subseteq Turns
  BY DEF ReleaseOwnership
<1>4. /\ busy' \subseteq Bots /\ direct' \subseteq Bots
      /\ resumes' \subseteq Cards /\ IsFiniteSet(resumes')
      /\ chain' \in Seq(Ops) /\ (chain # <<>> => chain' # <<>>)
  <2>1. CASE UNCHANGED <<botVars, chain>>
    BY <2>1 DEF botVars
  <2>2. ASSUME NEW woken \in MayWake(freed), Drain(freed, woken), direct' = direct \cup woken
        PROVE  /\ busy' \subseteq Bots /\ direct' \subseteq Bots
               /\ resumes' \subseteq Cards /\ IsFiniteSet(resumes')
               /\ chain' \in Seq(Ops) /\ (chain # <<>> => chain' # <<>>)
    <3>1. direct \subseteq Bots /\ TypeInv
      OBVIOUS
    <3> HIDE DEF TypeInv, RoomsTypeOK, freed
    <3>2. /\ busy' \subseteq Bots /\ woken \subseteq freed
          /\ resumes' \subseteq Cards /\ IsFiniteSet(resumes')
          /\ chain' \in Seq(Ops) /\ (chain # <<>> => chain' # <<>>)
      BY <1>1, <2>2, <3>1, DrainTyped
    <3> QED
      BY <1>1, <2>2, <3>1, <3>2
  <2> QED
    BY <2>1, <2>2 DEF ReleaseOwnership
<1>5. body' \in Bodies /\ BodyIsOfChain'
  BY <1>4 DEF ReleaseOwnership, Latched, Bodies, RoomStages, BodyIsOfChain
<1> QED
  BY <1>2, <1>3, <1>4, <1>5 DEF ReleaseOwnership, turnVars, gateVars, followVars

LEMMA TurnGivenUpTyped ==
  ASSUME TypeInv, TurnGivenUp
  PROVE  TypeInv'
<1> USE DEF TypeInv, RoomsTypeOK
<1>1. chain # <<>> /\ EndOp(chain) /\ Turn \in Turns
  BY TurnTyped DEF TurnGivenUp, At
<1>2. release' \subseteq Turns
  BY <1>1 DEF TurnGivenUp, GraceOwed
<1> QED
  BY <1>1, <1>2, EndOpTyped DEF TurnGivenUp, botVars, roomVars, turnVars, followVars

LEMMA TurnStoppedTyped ==
  ASSUME TypeInv, TurnStopped
  PROVE  TypeInv'
<1> USE DEF TypeInv, RoomsTypeOK
<1> DEFINE freed == busy \cap {body.who}
<1>1. chain # <<>> /\ body.stage = "after" /\ body.who \in Bots /\ Here \in Threads
      /\ freed \in SUBSET Bots
  BY TurnTyped, HeadOfChain DEF TurnStopped, At
<1>2. PICK woken \in MayWake(freed) : Drain(freed, woken) /\ direct' = direct \cup woken
  BY DEF TurnStopped
<1>3. /\ busy' \subseteq Bots /\ direct' \subseteq Bots
      /\ resumes' \subseteq Cards /\ IsFiniteSet(resumes')
      /\ chain' \in Seq(Ops) /\ (chain # <<>> => chain' # <<>>)
  BY <1>1, <1>2, DrainTyped
<1>4. busyBot' \in Bots \cup {None} /\ speaker' \in [Threads -> Bots \cup {None}]
  BY <1>1, ClearSpeakerTyped DEF TurnStopped
<1>5. body' \in Bodies /\ BodyIsOfChain'
  BY <1>1, <1>3 DEF TurnStopped, Bodies, RoomStages, BodyIsOfChain
<1>6. watch' \in [Threads -> Turns \cup {None}]
  BY <1>1 DEF TurnStopped
<1> QED
  BY <1>3, <1>4, <1>5, <1>6 DEF TurnStopped, turnVars, gateVars, followVars, otherVars

LEMMA MentionsTyped ==
  ASSUME TypeInv, chain # <<>>, NEW m \in Mentions
  PROVE  m \in Seq(Bots \X (0 .. MaxHops))
<1>1. CASE m = <<>>
  BY <1>1
<1>2. CASE m # <<>>
  <2>1. MayMention
    BY <1>2 DEF Mentions
  <2>2. PICK b \in Bots \ {body.who} : m = <<<<b, body.hop + 1>>>>
    BY <1>2, <2>1 DEF Mentions
  <2>3. body.hop + 1 \in 0 .. MaxHops
    BY <2>1 DEF MayMention, TypeInv, RoomsTypeOK, Bodies, MaxHops
  <2>4. <<b, body.hop + 1>> \in Bots \X (0 .. MaxHops)
    BY <2>3
  <2> QED
    BY <2>2, <2>4
<1> QED
  BY <1>1, <1>2

LEMMA TurnSettledTyped ==
  ASSUME TypeInv, TurnSettled
  PROVE  TypeInv'
<1> USE DEF TypeInv, RoomsTypeOK
<1> DEFINE freed == IF busyBot = body.who THEN busy \cap {body.who} ELSE {}
<1>1. chain # <<>> /\ body.stage = "after" /\ body.who \in Bots /\ Here \in Threads
      /\ freed \in SUBSET Bots
  BY TurnTyped, HeadOfChain DEF TurnSettled, At
<1>2. busyBot' \in Bots \cup {None} /\ speaker' \in [Threads -> Bots \cup {None}]
  BY <1>1, ClearSpeakerTyped DEF TurnSettled
<1>3. CASE Free(freed) /\ UNCHANGED chain
           /\ \E m \in Mentions : body' = [body EXCEPT !.stage = "next", !.todo = m \o @]
  <2>1. PICK m \in Mentions : body' = [body EXCEPT !.stage = "next", !.todo = m \o @]
    BY <1>3
  <2>2. m \o body.todo \in Seq(Bots \X (0 .. MaxHops))
    BY <1>1, MentionsTyped, ConcatProperties DEF Bodies
  <2>3. body' \in Bodies /\ body'.stage = "next"
    BY <2>1, <2>2 DEF Bodies, RoomStages
  <2> QED
    BY <1>1, <1>2, <1>3, <2>3 DEF TurnSettled, Free, BodyIsOfChain, turnVars, gateVars, timerVars,
                                  followVars, otherVars
<1>4. ASSUME NEW woken \in MayWake(freed), Drain(freed, woken), direct' = direct \cup woken,
             Go("next")
      PROVE  TypeInv'
  <2>1. /\ busy' \subseteq Bots /\ direct' \subseteq Bots
        /\ resumes' \subseteq Cards /\ IsFiniteSet(resumes')
        /\ chain' \in Seq(Ops) /\ (chain # <<>> => chain' # <<>>)
    BY <1>1, <1>4, DrainTyped
  <2>2. body' \in Bodies /\ BodyIsOfChain'
    BY <1>1, <1>4, <2>1 DEF Go, Bodies, RoomStages, BodyIsOfChain
  <2> QED
    BY <1>2, <2>1, <2>2 DEF TurnSettled, turnVars, gateVars, timerVars, followVars, otherVars
<1> QED
  BY <1>3, <1>4 DEF TurnSettled

LEMMA InterruptTyped ==
  ASSUME TypeInv, NEW ths \in SUBSET Threads, Interrupt(ths)
  PROVE  TypeInv'
<1> USE DEF TypeInv, RoomsTypeOK
<1>1. StopOps(ths) \subseteq Ops
  BY DEF StopOps
<1>2. used' \in [faults : 0 .. MaxFaults, stops : 0 .. MaxStops]
  <2>1. used.stops < MaxStops /\ used' = [used EXCEPT !.stops = @ + 1]
    BY DEF Interrupt
  <2>2. used.stops \in Nat /\ used.stops + 1 \in 0 .. MaxStops
    BY <2>1, RoomsBoundsAssumption
  <2> QED
    BY <2>1, <2>2
<1> QED
  BY <1>1, <1>2 DEF Interrupt, BodyIsOfChain, botVars, roomVars, turnVars, timerVars, followVars

LEMMA InitTyped ==
  ASSUME RoomsInit
  PROVE  TypeInv
<1>1. IsFiniteSet({}) /\ {} \subseteq Cards
  BY FS_EmptySet
<1>2. body \in Bodies /\ body.stage = "idle"
  BY IdleBodyTyped DEF RoomsInit, IdleBody
<1>3. <<>> \in Seq(Ops) /\ <<>> \in Seq(Sends)
  OBVIOUS
<1>4. used \in [faults : 0 .. MaxFaults, stops : 0 .. MaxStops]
  BY RoomsBoundsAssumption DEF RoomsInit
<1> QED
  BY <1>1, <1>2, <1>3, <1>4 DEF RoomsInit, TypeInv, RoomsTypeOK, BodyIsOfChain

LEMMA StepTyped ==
  ASSUME TypeInv, [RoomsNext]_roomsVars
  PROVE  TypeInv'
<1>1. CASE UNCHANGED roomsVars
  BY <1>1 DEF roomsVars, TypeInv, RoomsTypeOK, BodyIsOfChain
<1>2. CASE Continuations
  BY <1>2, RedrainTyped, BeginOpTyped, NextResponderTyped, WaitStoppedTyped, EnterTurnTyped,
     TurnStoppedTyped, TurnGivenUpTyped, TurnSettledTyped DEF Continuations
<1>3. CASE Person
  BY <1>3, SendTyped, WithdrawTyped, SwitchTaskTyped, CardTyped, InterruptTyped DEF Person
<1>4. CASE Elsewhere
  BY <1>4, OutsideTyped
<1>5. CASE Provider
  BY <1>5, SetupEndsTyped, BrowserEndsTyped, DispatchTyped, SendResolvesTyped, SendRejectsTyped,
     SecondInterruptSettlesTyped, CompletesTyped DEF Provider
<1>6. CASE Timers
  BY <1>6, WaitCapTyped, DeadlineFiresTyped, StallTyped, ReleaseOwnershipTyped DEF Timers
<1>7. CASE Reload
  BY <1>7, OutsideTyped
<1> QED
  BY <1>1, <1>2, <1>3, <1>4, <1>5, <1>6, <1>7 DEF RoomsNext
------------------------------------------------------------------------------
(* Every message and every card runs once. *)

LEMMA SetToSeqOnce ==
  ASSUME NEW S, IsFiniteSet(S)
  PROVE  \A i, j \in DOMAIN SetToSeq(S) :
           /\ SetToSeq(S)[i] \in S
           /\ SetToSeq(S)[i] = SetToSeq(S)[j] => i = j
<1> DEFINE n == Cardinality(S)
<1>1. n \in Nat /\ ExistsBijection(1..n, S)
  BY FS_CardinalityType
<1>2. \E f \in [1..n -> S] : IsInjective(f)
  BY <1>1 DEF ExistsBijection, Bijection, Injection, IsInjective
<1>3. SetToSeq(S) \in [1..n -> S] /\ IsInjective(SetToSeq(S))
  BY <1>2 DEF SetToSeq
<1> QED
  BY <1>3 DEF IsInjective

(* The operations that more adds behind the chain are new to it. *)
LEMMA JoinsOnce ==
  ASSUME TypeInv, ChainRunsOnce, NEW more \in Seq(Ops), chain' = chain \o more,
         \A k \in DOMAIN more : \A j \in DOMAIN more : more[k] = more[j] => k = j,
         \A k \in DOMAIN more : \A i \in DOMAIN chain : more[k] # chain[i]
  PROVE  /\ \A i, j \in DOMAIN chain' : chain'[i] = chain'[j] => i = j
         /\ \A i \in DOMAIN chain' : \/ i \in DOMAIN chain /\ chain'[i] = chain[i]
                                     \/ \E k \in DOMAIN more : chain'[i] = more[k]
<1> DEFINE n == Len(chain)
<1>1. chain \in Seq(Ops) /\ n \in Nat /\ Len(more) \in Nat
  BY DEF TypeInv, RoomsTypeOK
<1>2. /\ chain' \in Seq(Ops) /\ Len(chain') = n + Len(more)
      /\ \A i \in 1 .. Len(chain') : chain'[i] = IF i <= n THEN chain[i] ELSE more[i - n]
  BY <1>1, ConcatProperties
<1>3. ASSUME NEW i \in DOMAIN chain'
      PROVE  \/ i \in 1 .. n /\ chain'[i] = chain[i]
             \/ i - n \in DOMAIN more /\ chain'[i] = more[i - n]
  BY <1>1, <1>2
<1>4. \A i, j \in 1 .. n : chain[i] = chain[j] => i = j
  BY <1>1 DEF ChainRunsOnce
<1>5. ASSUME NEW i \in DOMAIN chain', NEW j \in DOMAIN chain', chain'[i] = chain'[j]
      PROVE  i = j
  <2>1. i \in Nat /\ j \in Nat /\ DOMAIN chain = 1 .. n
    BY <1>1, <1>2
  <2> QED
    BY <1>1, <1>3, <1>4, <1>5, <2>1
<1> QED
  BY <1>1, <1>3, <1>5

(* The operations go on: some cards or messages join the chain, none       *)
(* leaves it.                                                              *)
LEMMA OnceGoesOn ==
  ASSUME TypeInv, OnceInv, NEW more \in Seq(Ops), chain' = chain \o more,
         \A k \in DOMAIN more : \A j \in DOMAIN more : more[k] = more[j] => k = j,
         \A k \in DOMAIN more :
           /\ more[k] \in Sends => fate[more[k]] # "started" /\ fate'[more[k]] = "started"
           /\ more[k] \in Cards => more[k] \in open \cup resumes
           /\ more[k] \notin open' \cup resumes',
         open' \cup resumes' \subseteq open \cup resumes, open' \cap resumes' = {},
         \A s \in Sends : fate[s] = "started" => fate'[s] = "started",
         abandoned' \subseteq abandoned, GivenUp => GivenUp', FollowUpsWaitOnce'
  PROVE  OnceInv'
<1> USE DEF OnceInv
<1>0. \A i \in DOMAIN chain : chain[i] \in Ops
  BY DEF TypeInv, RoomsTypeOK
<1>1. \A k \in DOMAIN more : more[k] \in Ops
  OBVIOUS
<1>2. \A k \in DOMAIN more : \A i \in DOMAIN chain : more[k] # chain[i]
  BY <1>1 DEF ChainRunsOnce, Ops
<1>3. \A k \in DOMAIN more : \A t \in abandoned : more[k] # t[1]
  BY <1>1 DEF GivenUpIsOver, Ops
<1>4. /\ \A i, j \in DOMAIN chain' : chain'[i] = chain'[j] => i = j
      /\ \A i \in DOMAIN chain' : \/ i \in DOMAIN chain /\ chain'[i] = chain[i]
                                  \/ \E k \in DOMAIN more : chain'[i] = more[k]
  BY <1>2, JoinsOnce
<1>5. ChainRunsOnce'
  <2>1. ASSUME NEW i \in DOMAIN chain'
        PROVE  /\ chain'[i] \notin open' \cup resumes'
               /\ chain'[i] \in Sends => fate'[chain'[i]] = "started"
    <3>1. CASE i \in DOMAIN chain /\ chain'[i] = chain[i]
      BY <3>1 DEF ChainRunsOnce
    <3>2. CASE \E k \in DOMAIN more : chain'[i] = more[k]
      BY <3>2
    <3> QED
      BY <1>4, <3>1, <3>2
  <2> QED
    BY <1>4, <2>1 DEF ChainRunsOnce
<1>6. GivenUpIsOver'
  BY <1>3, <1>4 DEF GivenUpIsOver
<1> QED
  BY <1>5, <1>6

LEMMA ChainUnchanged ==
  ASSUME TypeInv, chain' = chain
  PROVE  chain' = chain \o <<>>
BY ConcatEmptySeq DEF TypeInv, RoomsTypeOK

(* A step that touches none of this. *)
LEMMA OnceStays ==
  ASSUME TypeInv, OnceInv, UNCHANGED <<chain, open, resumes, fate, queue>>,
         abandoned' \subseteq abandoned, GivenUp => GivenUp'
  PROVE  OnceInv'
<1>1. FollowUpsWaitOnce'
  BY DEF OnceInv, FollowUpsWaitOnce
<1>2. chain' = chain \o <<>> /\ <<>> \in Seq(Ops) /\ DOMAIN <<>> = {}
  BY ChainUnchanged
<1>3. open \cap resumes = {}
  BY DEF OnceInv, ChainRunsOnce
<1> QED
  BY <1>1, <1>2, <1>3, OnceGoesOn

(* The cards a drain wakes join the chain. *)
LEMMA OnceDrains ==
  ASSUME TypeInv, OnceInv, NEW fr, NEW woken, Drain(fr, woken), UNCHANGED <<open, fate, queue>>,
         abandoned' \subseteq abandoned, GivenUp => GivenUp'
  PROVE  OnceInv'
<1> DEFINE cs == WokenCards(fr, woken)
           more == SetToSeq(cs)
<1>1. FollowUpsWaitOnce'
  BY DEF OnceInv, FollowUpsWaitOnce
<1>2. cs \subseteq resumes /\ resumes \subseteq Cards /\ IsFiniteSet(resumes)
  BY DEF TypeInv, RoomsTypeOK, WokenCards
<1>3. IsFiniteSet(cs)
  BY <1>2, FS_Subset
<1>4. more \in Seq(Ops)
  BY <1>2, <1>3, SetToSeqLists, SeqMonotonic DEF Ops
<1>5. \A i, j \in DOMAIN more : more[i] \in cs /\ (more[i] = more[j] => i = j)
  BY <1>3, SetToSeqOnce
<1>6. chain' = chain \o more /\ resumes' = resumes \ cs
  BY DEF Drain
<1>7. open \cap resumes = {} /\ Sends \cap Cards = {}
  BY RoomsKindsAssumption DEF OnceInv, ChainRunsOnce
<1> HIDE DEF cs, more
<1>8. \A k \in DOMAIN more :
        /\ more[k] \in Sends => fate[more[k]] # "started" /\ fate'[more[k]] = "started"
        /\ more[k] \in Cards => more[k] \in open \cup resumes
        /\ more[k] \notin open' \cup resumes'
  BY <1>2, <1>5, <1>6, <1>7
<1>9. open' \cup resumes' \subseteq open \cup resumes /\ open' \cap resumes' = {}
  BY <1>6, <1>7
<1> QED
  BY <1>1, <1>4, <1>5, <1>6, <1>8, <1>9, OnceGoesOn

(* The operation at the head of the chain ends. *)
LEMMA OnceEnds ==
  ASSUME TypeInv, OnceInv, chain # <<>>, EndOp(chain), UNCHANGED <<open, queue, abandoned>>,
         \/ UNCHANGED <<resumes, fate>>
         \/ ~GivenUp /\ NotDispatched(Op) /\ UNCHANGED resumes
         \/ ~GivenUp /\ Op \in Cards /\ resumes' = resumes \cup {Op} /\ UNCHANGED fate
  PROVE  OnceInv'
<1> USE DEF OnceInv
<1>1. chain \in Seq(Ops) /\ fate \in [Sends -> {"unsent", "queued", "started", "withdrawn", "undispatched"}]
  BY DEF TypeInv, RoomsTypeOK
<1>2. /\ chain' \in Seq(Ops) /\ Op = chain[1] /\ 1 \in DOMAIN chain
      /\ \A i \in DOMAIN chain' : i + 1 \in DOMAIN chain /\ i + 1 # 1 /\ i \in Nat /\ chain'[i] = chain[i + 1]
  BY <1>1 DEF EndOp, Op
<1>3. \A i \in DOMAIN chain' : chain'[i] # Op
  BY <1>2 DEF ChainRunsOnce
<1>4. Op \notin open \cup resumes /\ (Op \in Sends => fate[Op] = "started")
  BY <1>2 DEF ChainRunsOnce
<1>5. /\ resumes \subseteq resumes' /\ resumes' \subseteq resumes \cup {Op}
      /\ \A s \in Sends : s # Op => fate'[s] = fate[s]
  BY <1>1 DEF NotDispatched
<1>6. ChainRunsOnce'
  <2>1. ASSUME NEW i \in DOMAIN chain', NEW j \in DOMAIN chain', chain'[i] = chain'[j]
        PROVE  i = j
    BY <1>2, <2>1 DEF ChainRunsOnce
  <2>2. ASSUME NEW i \in DOMAIN chain'
        PROVE  chain'[i] \notin open' \cup resumes'
               /\ (chain'[i] \in Sends => fate'[chain'[i]] = "started")
    BY <1>2, <1>3, <1>5 DEF ChainRunsOnce
  <2>3. open' \cap resumes' = {}
    BY <1>4, <1>5 DEF ChainRunsOnce
  <2> QED
    BY <2>1, <2>2, <2>3 DEF ChainRunsOnce
<1>7. FollowUpsWaitOnce'
  <2>1. ASSUME NEW th \in Threads, NEW i \in DOMAIN queue[th]
        PROVE  fate'[queue[th][i]] = "queued"
    <3>1. queue[th][i] \in Sends /\ fate[queue[th][i]] = "queued"
      BY DEF TypeInv, RoomsTypeOK, FollowUpsWaitOnce
    <3> QED
      BY <1>4, <1>5, <3>1
  <2> QED
    BY <2>1 DEF FollowUpsWaitOnce
<1>8. GivenUpIsOver'
  <2>1. ASSUME NEW t \in abandoned, NEW i \in DOMAIN chain'
        PROVE  chain'[i] # t[1]
    BY <1>2 DEF GivenUpIsOver
  <2>2. ASSUME NEW t \in abandoned
        PROVE  t[1] \notin open \cup resumes' /\ (t[1] \in Sends => fate'[t[1]] = "started")
    <3>1. CASE UNCHANGED <<resumes, fate>>
      BY <3>1 DEF GivenUpIsOver
    <3>2. CASE ~GivenUp
      <4>1. t[1] # Op
        BY <1>2, <3>2 DEF GivenUpIsOver
      <4> QED
        BY <1>5, <4>1 DEF GivenUpIsOver
    <3> QED
      BY <3>1, <3>2
  <2> QED
    BY <2>1, <2>2 DEF GivenUpIsOver
<1> QED
  BY <1>6, <1>7, <1>8

(* One follow-up leaves its queue, and its fate is no longer to wait. *)
LEMMA FollowUpLeaves ==
  ASSUME TypeInv, FollowUpsWaitOnce, NEW th \in Threads, NEW k \in DOMAIN queue[th],
         NEW r \in Seq(Sends), Len(r) = Len(queue[th]) - 1,
         \A i \in DOMAIN r : r[i] = IF i < k THEN queue[th][i] ELSE queue[th][i + 1],
         queue' = [queue EXCEPT ![th] = r],
         NEW what, fate' = [fate EXCEPT ![queue[th][k]] = what]
  PROVE  FollowUpsWaitOnce'
<1> DEFINE s == queue[th][k]
<1>1. /\ queue \in [Threads -> Seq(Sends)] /\ queue[th] \in Seq(Sends) /\ s \in Sends
      /\ fate \in [Sends -> {"unsent", "queued", "started", "withdrawn", "undispatched"}]
  BY DEF TypeInv, RoomsTypeOK
<1>2. ASSUME NEW u \in Threads \ {th}, NEW i \in DOMAIN queue'[u]
      PROVE  /\ TaskOf[queue'[u][i]] = u /\ fate'[queue'[u][i]] = "queued"
             /\ \A j \in DOMAIN queue'[u] : queue'[u][i] = queue'[u][j] => i = j
  <2>1. queue'[u] = queue[u] /\ queue[u][i] \in Sends
    BY <1>1, <1>2
  <2>2. queue[u][i] # s
    BY <2>1, <1>2 DEF FollowUpsWaitOnce
  <2> QED
    BY <1>1, <2>1, <2>2 DEF FollowUpsWaitOnce
<1>3. ASSUME NEW i \in DOMAIN r
      PROVE  /\ TaskOf[r[i]] = th /\ fate'[r[i]] = "queued"
             /\ \A j \in DOMAIN r : r[i] = r[j] => i = j
  <2> DEFINE at(m) == IF m < k THEN m ELSE m + 1
  <2>1. \A m \in DOMAIN r : m \in Nat /\ at(m) \in DOMAIN queue[th] /\ at(m) # k /\ r[m] = queue[th][at(m)]
    BY <1>1
  <2>2. k \in Nat
    BY <1>1
  <2>3. \A j \in DOMAIN r : at(i) = at(j) => i = j
    BY <2>1, <2>2
  <2>4. r[i] # s /\ r[i] \in Sends
    BY <2>1 DEF FollowUpsWaitOnce
  <2> HIDE DEF at
  <2> QED
    BY <1>1, <2>1, <2>3, <2>4 DEF FollowUpsWaitOnce
<1> QED
  BY <1>1, <1>2, <1>3 DEF FollowUpsWaitOnce

LEMMA StartJoins ==
  ASSUME TypeInv, NEW s \in Ops, chain' \in {chain, Append(chain, s)}
  PROVE  \E more \in Seq(Ops) : chain' = chain \o more /\ more \in {<<>>, <<s>>}
<1>1. chain \in Seq(Ops) /\ <<>> \in Seq(Ops) /\ <<s>> \in Seq(Ops)
  BY DEF TypeInv, RoomsTypeOK
<1>2. chain = chain \o <<>> /\ Append(chain, s) = chain \o <<s>>
  BY <1>1, ConcatEmptySeq, AppendIsConcat
<1> QED
  BY <1>1, <1>2

LEMMA SendOnce ==
  ASSUME TypeInv, OnceInv, NEW s \in Sends, Send(s)
  PROVE  OnceInv'
<1> USE DEF OnceInv
<1>1. /\ s \in Ops /\ s \notin Cards /\ fate[s] = "unsent" /\ TaskOf[s] = current /\ current \in Threads
      /\ fate \in [Sends -> {"unsent", "queued", "started", "withdrawn", "undispatched"}]
      /\ open \subseteq Cards /\ resumes \subseteq Cards /\ open \cap resumes = {}
      /\ UNCHANGED <<open, resumes, abandoned, body>>
  BY RoomsKindsAssumption
     DEF Ops, Send, TypeInv, RoomsTypeOK, botVars, otherVars, turnVars, ChainRunsOnce
<1>2. chain # <<>> => chain' # <<>>
  BY ChainAppends, <1>1 DEF Send, StartRound
<1>3. GivenUp => GivenUp'
  BY <1>1, <1>2 DEF GivenUp, At
<1>4. CASE fate' = [fate EXCEPT ![s] = "queued"] /\ UNCHANGED chain
           /\ queue' = [queue EXCEPT ![current] = Append(@, s)]
  <2> DEFINE q == queue[current]
  <2>1. /\ q \in Seq(Sends) /\ queue'[current] = Append(q, s)
        /\ \A u \in Threads \ {current} : queue'[u] = queue[u]
    BY <1>1, <1>4 DEF TypeInv, RoomsTypeOK
  <2>2. \A u \in Threads : \A i \in DOMAIN queue[u] : queue[u][i] # s /\ queue[u][i] \in Sends
    BY <1>1 DEF FollowUpsWaitOnce, TypeInv, RoomsTypeOK
  <2>3. ASSUME NEW u \in Threads \ {current}, NEW i \in DOMAIN queue'[u]
        PROVE  /\ TaskOf[queue'[u][i]] = u /\ fate'[queue'[u][i]] = "queued"
               /\ \A j \in DOMAIN queue'[u] : queue'[u][i] = queue'[u][j] => i = j
    BY <1>1, <1>4, <2>1, <2>2, <2>3 DEF FollowUpsWaitOnce
  <2>4. ASSUME NEW i \in DOMAIN Append(q, s)
        PROVE  /\ TaskOf[Append(q, s)[i]] = current /\ fate'[Append(q, s)[i]] = "queued"
               /\ \A j \in DOMAIN Append(q, s) : Append(q, s)[i] = Append(q, s)[j] => i = j
    <3>1. \A j \in DOMAIN Append(q, s) : \/ j \in DOMAIN q /\ Append(q, s)[j] = q[j]
                                         \/ j = Len(q) + 1 /\ Append(q, s)[j] = s
      BY <2>1
    <3> QED
      BY <1>1, <1>4, <2>1, <2>2, <3>1 DEF FollowUpsWaitOnce
  <2>5. FollowUpsWaitOnce'
    BY <2>1, <2>3, <2>4 DEF FollowUpsWaitOnce
  <2>6. chain' = chain \o <<>> /\ <<>> \in Seq(Ops) /\ DOMAIN <<>> = {}
    BY <1>4, ChainUnchanged
  <2>7. \A u \in Sends : fate[u] = "started" => fate'[u] = "started"
    BY <1>1, <1>4
  <2> QED
    BY <1>1, <1>3, <2>5, <2>6, <2>7, OnceGoesOn
<1>5. CASE StartRound(s) /\ UNCHANGED queue
  <2>1. fate'[s] = "started" /\ \A u \in Sends : u # s => fate'[u] = fate[u]
    BY <1>1, <1>5 DEF StartRound
  <2>2. FollowUpsWaitOnce'
    <3>1. \A th \in Threads : \A i \in DOMAIN queue[th] : queue[th][i] # s /\ queue[th][i] \in Sends
      BY <1>1 DEF FollowUpsWaitOnce, TypeInv, RoomsTypeOK
    <3> QED
      BY <1>5, <2>1, <3>1 DEF FollowUpsWaitOnce
  <2>3. PICK more \in Seq(Ops) : chain' = chain \o more /\ more \in {<<>>, <<s>>}
    BY <1>1, <1>5, StartJoins DEF StartRound
  <2>4. \A k \in DOMAIN more : k = 1 /\ more[k] = s
    BY <2>3
  <2> QED
    BY <1>1, <1>3, <2>1, <2>2, <2>3, <2>4, OnceGoesOn
<1> QED
  BY <1>4, <1>5 DEF Send

LEMMA RemoveAtProperties ==
  ASSUME NEW S, NEW q \in Seq(S), NEW k \in 1 .. Len(q)
  PROVE  /\ RemoveAt(q, k) \in Seq(S) /\ Len(RemoveAt(q, k)) = Len(q) - 1
         /\ \A i \in DOMAIN RemoveAt(q, k) :
              RemoveAt(q, k)[i] = IF i < k THEN q[i] ELSE q[i + 1]
<1> DEFINE front == SubSeq(q, 1, k - 1)
           back == SubSeq(q, k + 1, Len(q))
<1>1. Len(q) \in Nat /\ k \in Nat /\ 1 <= k /\ k <= Len(q)
  OBVIOUS
<1>2. /\ front \in Seq(S) /\ Len(front) = k - 1
      /\ \A i \in 1 .. k - 1 : front[i] = q[i]
  BY <1>1
<1>3. /\ back \in Seq(S) /\ Len(back) = Len(q) - k
      /\ \A i \in 1 .. Len(q) - k : back[i] = q[k + i]
  BY <1>1
<1>4. RemoveAt(q, k) = front \o back
  BY DEF RemoveAt
<1> HIDE DEF front, back
<1>5. /\ front \o back \in Seq(S) /\ Len(front \o back) = Len(front) + Len(back)
      /\ \A i \in 1 .. Len(front) + Len(back) :
           (front \o back)[i] = IF i <= Len(front) THEN front[i] ELSE back[i - Len(front)]
  BY <1>2, <1>3, ConcatProperties
<1>6. Len(front) + Len(back) = Len(q) - 1 /\ DOMAIN (front \o back) = 1 .. Len(q) - 1
  BY <1>1, <1>2, <1>3, <1>5
<1>7. ASSUME NEW i \in 1 .. Len(q) - 1
      PROVE  (front \o back)[i] = IF i < k THEN q[i] ELSE q[i + 1]
  <2>1. (front \o back)[i] = IF i <= k - 1 THEN front[i] ELSE back[i - (k - 1)]
    BY <1>2, <1>5, <1>6
  <2>2. CASE i < k
    <3>1. i <= k - 1 /\ i \in 1 .. k - 1
      BY <1>1, <2>2
    <3> QED
      BY <1>2, <2>1, <2>2, <3>1
  <2>3. CASE ~(i < k)
    <3>1. i - (k - 1) \in 1 .. Len(q) - k /\ k + (i - (k - 1)) = i + 1 /\ ~(i <= k - 1)
      BY <1>1, <2>3
    <3> QED
      BY <1>3, <2>1, <2>3, <3>1
  <2> QED
    BY <2>2, <2>3
<1> QED
  BY <1>4, <1>5, <1>6, <1>7

LEMMA WithdrawOnce ==
  ASSUME TypeInv, OnceInv, NEW s \in Sends, Withdraw(s)
  PROVE  OnceInv'
<1> USE DEF OnceInv
<1>1. PICK th \in Threads :
        \E k \in DOMAIN queue[th] : queue[th][k] = s /\ queue' = [queue EXCEPT ![th] = RemoveAt(@, k)]
  BY DEF Withdraw
<1>2. PICK k \in DOMAIN queue[th] : queue[th][k] = s /\ queue' = [queue EXCEPT ![th] = RemoveAt(@, k)]
  BY <1>1
<1> DEFINE q == queue[th]
           r == RemoveAt(q, k)
<1>3. q \in Seq(Sends) /\ k \in 1 .. Len(q)
  BY DEF TypeInv, RoomsTypeOK
<1>4. /\ r \in Seq(Sends) /\ Len(r) = Len(q) - 1
      /\ \A i \in DOMAIN r : r[i] = IF i < k THEN q[i] ELSE q[i + 1]
  BY <1>3, RemoveAtProperties
<1>5. queue' = [queue EXCEPT ![th] = r] /\ fate' = [fate EXCEPT ![q[k]] = "withdrawn"]
  BY <1>2 DEF Withdraw
<1> HIDE DEF r
<1>6. FollowUpsWaitOnce'
  BY <1>4, <1>5, FollowUpLeaves
<1>7. chain' = chain \o <<>> /\ <<>> \in Seq(Ops) /\ DOMAIN <<>> = {}
  BY ChainUnchanged DEF Withdraw, roundVars
<1>8. \A u \in Sends : fate[u] = "started" => fate'[u] = "started"
  <2>1. fate[s] = "queued"
    BY <1>2 DEF FollowUpsWaitOnce
  <2> QED
    BY <2>1 DEF Withdraw, TypeInv, RoomsTypeOK
<1>9. UNCHANGED <<open, resumes, abandoned, body, chain>> /\ open \cap resumes = {}
  BY DEF Withdraw, botVars, otherVars, turnVars, roundVars, ChainRunsOnce
<1> QED
  BY <1>6, <1>7, <1>8, <1>9, OnceGoesOn DEF GivenUp, At

LEMMA RedrainOnce ==
  ASSUME TypeInv, OnceInv, Redrain
  PROVE  OnceInv'
<1> USE DEF OnceInv
<1>1. /\ UNCHANGED <<open, resumes, abandoned, body>> /\ open \cap resumes = {}
      /\ open \subseteq Cards /\ resumes \subseteq Cards
  BY DEF Redrain, botVars, otherVars, turnVars, ChainRunsOnce, TypeInv, RoomsTypeOK
<1>2. CASE UNCHANGED <<chain, queue, fate>>
  BY <1>1, <1>2, OnceStays DEF GivenUp, At
<1>3. ASSUME NEW th \in Queued, StartRound(Head(queue[th])),
             queue' = [queue EXCEPT ![th] = Tail(@)], ~RoomWorking
      PROVE  OnceInv'
  <2> DEFINE q == queue[th]
             s == Head(q)
  <2>1. /\ th \in Threads /\ q \in Seq(Sends) /\ q # <<>> /\ s \in Sends /\ s \in Ops /\ s = q[1]
        /\ 1 \in DOMAIN q /\ s \notin Cards
    BY <1>3, RoomsKindsAssumption DEF Queued, Ops, TypeInv, RoomsTypeOK
  <2>2. fate[s] = "queued" /\ fate \in [Sends -> {"unsent", "queued", "started", "withdrawn", "undispatched"}]
    BY <2>1 DEF FollowUpsWaitOnce, TypeInv, RoomsTypeOK
  <2>3. fate' = [fate EXCEPT ![q[1]] = "started"]
    BY <1>3, <2>1 DEF StartRound
  <2>4. /\ Tail(q) \in Seq(Sends) /\ Len(Tail(q)) = Len(q) - 1
        /\ \A i \in DOMAIN Tail(q) : Tail(q)[i] = IF i < 1 THEN q[i] ELSE q[i + 1]
    BY <2>1
  <2>5. FollowUpsWaitOnce'
    BY <1>3, <2>1, <2>3, <2>4, FollowUpLeaves
  <2>6. PICK more \in Seq(Ops) : chain' = chain \o more /\ more \in {<<>>, <<s>>}
    BY <1>3, <2>1, StartJoins DEF StartRound
  <2>7. \A k \in DOMAIN more : k = 1 /\ more[k] = s
    BY <2>6
  <2>8. fate'[s] = "started" /\ \A u \in Sends : fate[u] = "started" => fate'[u] = "started"
    BY <2>1, <2>2, <2>3
  <2>9. ~GivenUp
    BY <1>3 DEF GivenUp, At, RoomWorking
  <2> HIDE DEF s, q, OnceInv
  <2>10. \A k \in DOMAIN more : \A j \in DOMAIN more : more[k] = more[j] => k = j
    BY <2>7
  <2>11. \A k \in DOMAIN more :
           /\ more[k] \in Sends => fate[more[k]] # "started" /\ fate'[more[k]] = "started"
           /\ more[k] \in Cards => more[k] \in open \cup resumes
           /\ more[k] \notin open' \cup resumes'
    BY <1>1, <2>1, <2>2, <2>7, <2>8
  <2>12. open' \cup resumes' \subseteq open \cup resumes /\ open' \cap resumes' = {}
    BY <1>1
  <2> QED
    BY <1>1, <2>5, <2>6, <2>8, <2>9, <2>10, <2>11, <2>12, OnceGoesOn
<1> QED
  BY <1>2, <1>3 DEF Redrain

LEMMA CardOnce ==
  ASSUME TypeInv, OnceInv, NEW c \in Cards, Card(c)
  PROVE  OnceInv'
<1> USE DEF OnceInv
<1>1. /\ UNCHANGED <<fate, queue, abandoned, body>> /\ c \in open /\ open' = open \ {c}
      /\ open \cap resumes = {} /\ c \in Ops /\ c \notin Sends
  BY RoomsKindsAssumption DEF Card, followVars, turnVars, ChainRunsOnce, Ops
<1>2. FollowUpsWaitOnce'
  BY <1>1 DEF FollowUpsWaitOnce
<1>3. CASE UNCHANGED chain /\ resumes' = resumes \cup {c}
  <2>1. chain' = chain \o <<>> /\ <<>> \in Seq(Ops) /\ DOMAIN <<>> = {}
    BY <1>3, ChainUnchanged
  <2>2. open' \cup resumes' \subseteq open \cup resumes /\ open' \cap resumes' = {}
    BY <1>1, <1>3
  <2>3. GivenUp => GivenUp'
    BY <1>1, <1>3 DEF GivenUp, At
  <2> QED
    BY <1>1, <1>2, <2>1, <2>2, <2>3, OnceGoesOn
<1>4. CASE chain' = Append(chain, c) /\ UNCHANGED resumes
  <2>1. chain' = chain \o <<c>> /\ <<c>> \in Seq(Ops) /\ chain' # <<>>
    BY <1>1, <1>4, AppendIsConcat, ChainAppends DEF TypeInv, RoomsTypeOK
  <2>2. \A k \in DOMAIN <<c>> : k = 1 /\ <<c>>[k] = c
    OBVIOUS
  <2>3. GivenUp => GivenUp'
    BY <1>1, <2>1 DEF GivenUp, At
  <2>4. open' \cup resumes' \subseteq open \cup resumes /\ open' \cap resumes' = {}
        /\ c \notin open' \cup resumes'
    BY <1>1, <1>4
  <2> QED
    BY <1>1, <1>2, <2>1, <2>2, <2>3, <2>4, OnceGoesOn
<1> QED
  BY <1>3, <1>4 DEF Card

(* The turn of the operation is given up. *)
LEMMA AbandonOnce ==
  ASSUME TypeInv, OnceInv, At("sent"), Abandon(Turn), NEW o \in {"timed_out", "stalled"},
         body' = Outcome(o), UNCHANGED <<chain, open, resumes, fate, queue>>
  PROVE  OnceInv'
<1> USE DEF OnceInv
<1>1. chain \in Seq(Ops) /\ chain # <<>> /\ Op = chain[1] /\ Op \in Ops /\ Turn[1] = Op
      /\ 1 \in DOMAIN chain
  BY HeadOfChain DEF At, TypeInv, RoomsTypeOK, Op, Turn
<1>2. GivenUp' /\ ~GivenUp
  BY <1>1 DEF GivenUp, At, Outcome, TypeInv, RoomsTypeOK, Bodies
<1>3. abandoned' = abandoned \cup {Turn}
  BY DEF Abandon
<1>4. /\ Op \notin open \cup resumes /\ (Op \in Sends => fate[Op] = "started")
      /\ \A i \in DOMAIN chain : chain[i] = Op => i = 1
  BY <1>1 DEF ChainRunsOnce
<1>5. GivenUpIsOver'
  BY <1>1, <1>2, <1>3, <1>4 DEF GivenUpIsOver
<1>6. ChainRunsOnce' /\ FollowUpsWaitOnce'
  BY DEF ChainRunsOnce, FollowUpsWaitOnce
<1> QED
  BY <1>5, <1>6

LEMMA BeginOpOnce ==
  ASSUME TypeInv, OnceInv, BeginOp
  PROVE  OnceInv'
<1>1. chain # <<>> /\ ~GivenUp /\ UNCHANGED <<open, queue, abandoned>>
  BY DEF BeginOp, At, GivenUp, turnVars
<1>2. CASE EndOp(chain)
  BY <1>1, <1>2, OnceEnds DEF BeginOp
<1>3. CASE UNCHANGED <<chain, fate, resumes>>
  BY <1>1, <1>3, OnceStays
<1> QED
  BY <1>2, <1>3 DEF BeginOp

LEMMA CompletesOnce ==
  ASSUME TypeInv, OnceInv, NEW t \in Turns, Completes(t)
  PROVE  OnceInv'
<1>1. UNCHANGED <<open, fate, queue>> /\ abandoned' \subseteq abandoned
  BY DEF Completes, followVars, otherVars
<1>2. CASE UNCHANGED <<watch, roomVars, botVars, chain, body>>
  BY <1>1, <1>2, OnceStays DEF botVars, GivenUp, At
<1>3. ASSUME NEW freed \in SUBSET Bots, NEW woken \in MayWake(freed), Drain(freed, woken),
             body' = IF Hears(t) THEN Outcome("settled") ELSE Latched(freed)
      PROVE  OnceInv'
  <2>1. GivenUp => body' = body
    BY <1>3 DEF GivenUp, Hears, At, Latched
  <2>2. GivenUp => GivenUp'
    BY <1>3, <2>1, DrainTyped DEF GivenUp, At
  <2> QED
    BY <1>1, <1>3, <2>2, OnceDrains
<1>4. ThreadOf(t) \in Threads
  BY OpsFacts DEF ThreadOf, Turns
<1> QED
  BY <1>2, <1>3, <1>4 DEF Completes, TypeInv, RoomsTypeOK

LEMMA ReleaseOwnershipOnce ==
  ASSUME TypeInv, OnceInv, NEW t \in Turns, ReleaseOwnership(t)
  PROVE  OnceInv'
<1> DEFINE freed == busy \cap {t[2]}
<1>1. UNCHANGED <<open, fate, queue, abandoned>> /\ freed \in SUBSET Bots
  BY DEF ReleaseOwnership, followVars, turnVars, TypeInv, RoomsTypeOK
<1>2. GivenUp => body' = body
  BY DEF ReleaseOwnership, Latched, GivenUp, At
<1>3. CASE UNCHANGED <<botVars, chain>>
  BY <1>1, <1>2, <1>3, OnceStays DEF botVars, GivenUp, At
<1>4. ASSUME NEW woken \in MayWake(freed), Drain(freed, woken)
      PROVE  OnceInv'
  <2>1. GivenUp => GivenUp'
    BY <1>1, <1>2, <1>4, DrainTyped DEF GivenUp, At
  <2> QED
    BY <1>1, <1>4, <2>1, OnceDrains
<1> QED
  BY <1>3, <1>4 DEF ReleaseOwnership

LEMMA AfterTurnOnce ==
  ASSUME TypeInv, OnceInv, TurnStopped \/ TurnGivenUp \/ TurnSettled
  PROVE  OnceInv'
<1>1. CASE TurnStopped
  <2>1. ~GivenUp /\ UNCHANGED <<open, fate, queue, abandoned>>
    BY <1>1 DEF TurnStopped, GivenUp, followVars, otherVars, turnVars
  <2> QED
    BY <1>1, <2>1, OnceDrains DEF TurnStopped
<1>2. CASE TurnGivenUp
  <2>1. chain # <<>> /\ EndOp(chain) /\ UNCHANGED <<open, fate, queue, abandoned, resumes>>
    BY <1>2 DEF TurnGivenUp, At, followVars, botVars, turnVars
  <2> QED
    BY <2>1, OnceEnds
<1>3. CASE TurnSettled
  <2>1. ~GivenUp /\ UNCHANGED <<open, fate, queue, abandoned>>
    BY <1>3 DEF TurnSettled, GivenUp, followVars, otherVars, turnVars
  <2>2. CASE UNCHANGED <<chain, resumes>>
    BY <2>1, <2>2, OnceStays
  <2>3. CASE \E fr : \E woken \in MayWake(fr) : Drain(fr, woken)
    BY <2>1, <2>3, OnceDrains
  <2> QED
    BY <1>3, <2>2, <2>3 DEF TurnSettled, Free
<1> QED
  BY <1>1, <1>2, <1>3

LEMMA OutsideOnce ==
  ASSUME TypeInv, OnceInv, Elsewhere \/ Reload
  PROVE  OnceInv'
<1>1. UNCHANGED <<open, fate, queue>> /\ abandoned' \subseteq abandoned
  BY OutsideSteps DEF followVars
<1>2. CASE UNCHANGED <<chain, body, resumes>>
  BY <1>1, <1>2, OnceStays DEF GivenUp, At
<1>3. ASSUME NEW fr \in SUBSET Bots, SetsIdle(fr)
      PROVE  OnceInv'
  <2>1. GivenUp => GivenUp'
    BY <1>3, IdledFacts DEF GivenUp, At
  <2> QED
    BY <1>1, <1>3, <2>1, OnceDrains DEF SetsIdle
<1> QED
  BY <1>2, <1>3, OutsideSteps

LEMMA StepOnce ==
  ASSUME TypeInv, OnceInv, [RoomsNext]_roomsVars
  PROVE  OnceInv'
<1> USE DEF botVars, roundVars, turnVars, followVars, otherVars, GivenUp, At
<1>1. CASE UNCHANGED roomsVars
  BY <1>1, OnceStays DEF roomsVars
<1>2. CASE Continuations
  <2>1. CASE NextResponder
    BY <2>1, OnceStays, OnceEnds DEF NextResponder
  <2>2. CASE WaitStopped
    BY <2>2, OnceEnds DEF WaitStopped
  <2>3. CASE EnterTurn
    BY <2>3, OnceStays, OnceEnds DEF EnterTurn
  <2> QED
    BY <1>2, <2>1, <2>2, <2>3, RedrainOnce, BeginOpOnce, AfterTurnOnce DEF Continuations
<1>3. CASE Person
  <2>1. ASSUME NEW th \in Threads, SwitchTask(th)
        PROVE  OnceInv'
    BY <2>1, OnceStays DEF SwitchTask
  <2>2. ASSUME NEW ths \in SUBSET Threads, Interrupt(ths)
        PROVE  OnceInv'
    BY <2>2, OnceStays DEF Interrupt
  <2> QED
    BY <1>3, <2>1, <2>2, SendOnce, WithdrawOnce, CardOnce DEF Person
<1>4. CASE Elsewhere \/ Reload
  BY <1>4, OutsideOnce
<1>5. CASE Provider
  <2>1. CASE SetupEnds
    BY <2>1, OnceStays, OnceEnds DEF SetupEnds
  <2>2. CASE BrowserEnds
    BY <2>2, OnceStays, OnceEnds DEF BrowserEnds, Free
  <2>3. CASE Dispatch
    BY <2>3, OnceStays, OnceEnds DEF Dispatch, Free
  <2>4. ASSUME NEW t \in Turns, SendResolves(t)
        PROVE  OnceInv'
    BY <2>4, OnceStays DEF SendResolves
  <2>5. ASSUME NEW t \in Turns, SendRejects(t) \/ SecondInterruptSettles(t)
        PROVE  OnceInv'
    BY <2>5, OnceStays DEF SendRejects, SecondInterruptSettles, OutcomeOf, Awaits
  <2> QED
    BY <1>5, <2>1, <2>2, <2>3, <2>4, <2>5, CompletesOnce DEF Provider
<1>6. CASE Timers
  <2>1. CASE WaitCap
    BY <2>1, OnceStays DEF WaitCap
  <2>2. CASE DeadlineFires
    BY <2>2, AbandonOnce DEF DeadlineFires
  <2>3. ASSUME NEW th \in Threads, Stall(th)
        PROVE  OnceInv'
    BY <2>3, AbandonOnce, OnceStays DEF Stall
  <2> QED
    BY <1>6, <2>1, <2>2, <2>3, ReleaseOwnershipOnce DEF Timers
<1> QED
  BY <1>1, <1>2, <1>3, <1>4, <1>5, <1>6 DEF RoomsNext

LEMMA InitOnce ==
  ASSUME RoomsInit
  PROVE  OnceInv
BY DEF RoomsInit, OnceInv, ChainRunsOnce, FollowUpsWaitOnce, GivenUpIsOver
------------------------------------------------------------------------------
(* Who holds the room and its members. *)

(* What a step does with the operation at the head of the chain, when it   *)
(* stays there.                                                            *)
StaysAtHead == chain # <<>> => chain' # <<>> /\ Op' = Op /\ Here' = Here

LEMMA HoldersTyped ==
  ASSUME TypeInv
  PROVE  /\ \A t \in release : t[2] \in Bots /\ t[2] # None
         /\ Owns \/ Speaking =>
              /\ chain # <<>> /\ Here \in Threads
              /\ Turn[2] = body.who /\ ThreadOf(Turn) = Here
              /\ body.who \in Bots /\ body.who # None
         /\ \A t \in Holders : t[2] \in Bots /\ t[2] # None
<1>1. \A t \in release : t[2] \in Bots /\ t[2] # None
  BY OpsFacts DEF TypeInv, RoomsTypeOK, Turns
<1>2. Owns \/ Speaking => chain # <<>> /\ body.stage \notin {"idle", "next"}
  BY DEF Owns, Ending, Speaking, At
<1>3. Turn[2] = body.who /\ ThreadOf(Turn) = Here
  BY DEF Turn, ThreadOf, Here
<1>4. Owns \/ Speaking => body.who \in Bots /\ body.who # None /\ Here \in Threads
  BY <1>2, TurnTyped, HeadOfChain, OpsFacts
<1> QED
  BY <1>1, <1>2, <1>3, <1>4 DEF Holders

LEMMA HoldersHold ==
  ASSUME TypeInv, OwnerInv
  PROVE  /\ RoomHolds \subseteq {t[2] : t \in Holders}
         /\ \A t \in Holders : t[2] \in RoomHolds \/ t[2] \notin busy \ direct
         /\ ~At("after") => \A t \in Holders : t[2] \in RoomHolds
<1>1. BodyHolds \subseteq {t[2] : t \in Holders}
  <2>1. SUFFICES ASSUME BodyHolds # {}
                 PROVE  Owns
    BY HoldersTyped DEF BodyHolds, Holders
  <2>2. CASE chain # <<>> /\ body.stage \in {"browser", "gate", "sent"}
    BY <2>2 DEF Owns
  <2>3. CASE At("after") /\ busyBot = body.who
    <3>1. Speaking /\ OperationSpeaks /\ busyBot # None
      BY <2>3, HoldersTyped DEF OwnerInv, SpeakerHolds, Speaking
    <3> QED
      BY <2>3, <3>1 DEF OperationSpeaks, Owns, Ending
  <2> QED
    BY <2>1, <2>2, <2>3 DEF BodyHolds
<1>2. Owns => body.who \in BodyHolds \/ (At("after") /\ body.who \notin busy \ direct)
  <2>1. CASE At("after")
    <3>1. OperationSpeaks
      BY <2>1 DEF OwnerInv, SpeakerHolds, Speaking
    <3> QED
      BY <2>1, <3>1 DEF OperationSpeaks, BodyHolds
  <2> QED
    BY <2>1 DEF Owns, Ending, BodyHolds
<1> QED
  BY <1>1, <1>2, HoldersTyped DEF RoomHolds, Holders

LEMMA OwnersAreSafe ==
  ASSUME TypeInv, OwnerInv
  PROVE  OneConversationPerBot /\ BusyRoomHasOwner
<1>1. OneConversationPerBot
  BY HoldersHold DEF OneConversationPerBot, OwnerInv, HeldAlone
<1>2. busyBot # None => busyBot \in RoomHolds
  BY DEF OwnerInv, SpeakerHolds, OperationSpeaks, TimerSpeaks, Speaking, RoomHolds, BodyHolds
<1>3. busy \subseteq direct \cup RoomHolds
  BY HoldersHold DEF OwnerInv, BusyIsHeld
<1> QED
  BY <1>1, <1>2, <1>3 DEF BusyRoomHasOwner

(* No member turn is in hand: only grace timers own anything. *)
Quiet == chain = <<>> \/ body.stage \notin {"browser", "gate", "sent", "after"}
QuietlyOwned ==
  /\ HeldAlone(release) /\ BusyIsHeld(release)
  /\ TimerSpeaks
  /\ \A th \in Threads : watch[th] = None

LEMMA QuietLeaves ==
  ASSUME TypeInv, OwnerInv, Quiet
  PROVE  QuietlyOwned
<1>1. ~Owns /\ ~Speaking /\ ~At("sent") /\ ~At("after") /\ Holders = release
  BY DEF Quiet, Owns, Ending, Speaking, Holders, At
<1> QED
  BY <1>1 DEF OwnerInv, SpeakerHolds, WatchIsOfTheTurn, QuietlyOwned

LEMMA QuietEnters ==
  ASSUME QuietlyOwned, Quiet
  PROVE  OwnerInv
<1>1. ~Owns /\ ~Speaking /\ ~OwedStall /\ Holders = release
  BY DEF Quiet, Owns, Ending, Speaking, OwedStall, Holders, At
<1> QED
  BY <1>1 DEF QuietlyOwned, OwnerInv, SpeakerHolds, WatchIsOfTheTurn, StallIsOwed

LEMMA QuietEntersNext ==
  ASSUME QuietlyOwned', Quiet'
  PROVE  OwnerInv'
<1>1. ~Owns' /\ ~Speaking' /\ ~OwedStall' /\ Holders' = release'
  BY DEF Quiet, Owns, Ending, Speaking, OwedStall, Holders, At
<1> QED
  BY <1>1 DEF QuietlyOwned, OwnerInv, SpeakerHolds, WatchIsOfTheTurn, StallIsOwed

LEMMA QuietStays ==
  ASSUME TypeInv, OwnerInv, Quiet, Quiet',
         UNCHANGED <<busy, direct, taken, busyBot, speaker, release, watch>>
  PROVE  OwnerInv'
<1>1. QuietlyOwned
  BY QuietLeaves
<1>2. QuietlyOwned'
  BY <1>1 DEF QuietlyOwned, HeldAlone, BusyIsHeld, TimerSpeaks, ThreadOf
<1> QED
  BY <1>2, QuietEntersNext

(* The step leaves the operation where it stands. *)
LEMMA StandsStill ==
  ASSUME TypeInv, StaysAtHead, UNCHANGED <<body, release>>
  PROVE  /\ Owns' = Owns /\ Speaking' = Speaking /\ OwedStall' = OwedStall
         /\ At("after")' = At("after") /\ At("sent")' = At("sent")
         /\ Holders' = Holders
         /\ Owns \/ Speaking \/ At("sent") \/ OwedStall => Turn' = Turn /\ Here' = Here
<1>1. body.stage # "idle" => chain # <<>> /\ chain' # <<>> /\ Op' = Op /\ Here' = Here
  BY DEF TypeInv, BodyIsOfChain, StaysAtHead
<1>2. /\ Owns' = Owns /\ Speaking' = Speaking /\ OwedStall' = OwedStall
      /\ At("after")' = At("after") /\ At("sent")' = At("sent")
  BY <1>1 DEF Owns, Ending, Speaking, OwedStall, At
<1>3. Owns \/ Speaking \/ At("sent") \/ OwedStall => Turn' = Turn /\ Here' = Here
  BY <1>1 DEF Owns, Ending, Speaking, OwedStall, At, Turn
<1> QED
  BY <1>2, <1>3 DEF Holders

LEMMA OwnerStays ==
  ASSUME TypeInv, OwnerInv, StaysAtHead,
         UNCHANGED <<body, busy, direct, taken, busyBot, speaker, release>>,
         \A th \in Threads : watch'[th] \in {watch[th], None}
  PROVE  OwnerInv'
<1>1. /\ Owns' = Owns /\ Speaking' = Speaking /\ OwedStall' = OwedStall
      /\ At("after")' = At("after") /\ At("sent")' = At("sent")
      /\ Holders' = Holders
      /\ Owns \/ Speaking \/ At("sent") \/ OwedStall => Turn' = Turn /\ Here' = Here
  BY StandsStill
<1>2. HeldAlone(Holders)' /\ BusyIsHeld(Holders)'
  BY <1>1 DEF OwnerInv, HeldAlone, BusyIsHeld
<1>3. SpeakerHolds'
  BY <1>1 DEF OwnerInv, SpeakerHolds, OperationSpeaks, TimerSpeaks, ThreadOf
<1>4. StallIsOwed'
  BY <1>1 DEF OwnerInv, StallIsOwed
<1>5. WatchIsOfTheTurn'
  <2>1. At("after") /\ body.outcome = "cancelled" => Speaking
    BY DEF Speaking
  <2> QED
    BY <1>1, <2>1 DEF OwnerInv, WatchIsOfTheTurn
<1> QED
  BY <1>2, <1>3, <1>4, <1>5 DEF OwnerInv

LEMMA EndOpIsQuiet ==
  ASSUME NEW c, EndOp(c)
  PROVE  Quiet'
BY DEF EndOp, IdleBody, Quiet

(* The claim: the member is nobody else's unless it was taken before and   *)
(* is still in two hands.                                                  *)
LEMMA MemberClaimed ==
  ASSUME TypeInv, OwnerInv, Quiet, chain # <<>>, body.who \in Bots, body.who \notin busy,
         busy' = busy \cup {body.who}, Go("browser"), StaysAtHead,
         taken' = taken \ ({body.who} \ (direct \cup RoomHolds)),
         UNCHANGED <<direct, busyBot, speaker, release, watch>>
  PROVE  OwnerInv'
<1>1. QuietlyOwned
  BY QuietLeaves
<1>2. body'.who = body.who /\ body'.stage = "browser" /\ Turn' = Turn /\ Turn[2] = body.who
  BY DEF Go, TypeInv, RoomsTypeOK, Bodies, StaysAtHead, Turn
<1>3. /\ Owns' /\ ~Speaking' /\ ~At("after")' /\ ~OwedStall'
      /\ Holders' = release \cup {Turn}
  BY <1>2 DEF StaysAtHead, Owns, Ending, Speaking, At, OwedStall, Holders
<1>4. \A t \in release : t[2] \notin taken' =>
         t[2] \notin taken /\ t[2] \in busy \ direct /\ t[2] # body.who
  <2>1. \A t \in release : t[2] \in RoomHolds
    BY DEF RoomHolds
  <2>2. \A t \in release : t[2] \notin taken' => t[2] \notin taken
    BY <2>1
  <2> QED
    BY <1>1, <2>2 DEF QuietlyOwned, HeldAlone
<1>5. body.who \notin taken' => body.who \notin direct
  BY <1>1 DEF QuietlyOwned, BusyIsHeld
<1>6. HeldAlone(Holders)'
  <2>1. SUFFICES ASSUME NEW t \in release \cup {Turn}, t[2] \notin taken'
                 PROVE  /\ t[2] \in busy' \ direct
                        /\ \A u \in release \cup {Turn} : u[2] = t[2] => u = t
    BY <1>3 DEF HeldAlone
  <2>2. CASE t \in release
    BY <1>1, <1>2, <1>4, <2>1, <2>2 DEF QuietlyOwned, HeldAlone
  <2>3. CASE t = Turn
    BY <1>2, <1>4, <1>5, <2>1, <2>3
  <2> QED
    BY <2>1, <2>2, <2>3
<1>7. BusyIsHeld(Holders)'
  <2>1. busy \subseteq direct \cup {t[2] : t \in release}
    BY <1>1 DEF QuietlyOwned, BusyIsHeld
  <2>2. busy' \subseteq direct \cup {t[2] : t \in release \cup {Turn}}
    BY <1>2, <2>1
  <2>3. direct \subseteq busy' \cup taken'
    BY <1>1 DEF QuietlyOwned, BusyIsHeld
  <2> QED
    BY <1>3, <2>2, <2>3 DEF BusyIsHeld
<1>8. SpeakerHolds'
  BY <1>1, <1>3 DEF QuietlyOwned, SpeakerHolds, TimerSpeaks, ThreadOf
<1>9. StallIsOwed'
  BY <1>2, <1>3, <1>4 DEF StallIsOwed
<1>10. WatchIsOfTheTurn'
  BY <1>1 DEF QuietlyOwned, WatchIsOfTheTurn
<1> QED
  BY <1>6, <1>7, <1>8, <1>9, <1>10 DEF OwnerInv

LEMMA SetupEndsOwned ==
  ASSUME TypeInv, OwnerInv, SetupEnds
  PROVE  OwnerInv'
<1>1. chain # <<>> /\ body.stage = "setup" /\ body.who \in Bots /\ Quiet
  BY TurnTyped DEF SetupEnds, At, Quiet
<1>2. UNCHANGED <<direct, busyBot, speaker, release, watch>>
  BY DEF SetupEnds, roomVars, timerVars
<1>3. CASE Quiet' /\ UNCHANGED <<busy, taken>>
  BY <1>1, <1>2, <1>3, QuietStays
<1>4. CASE Claimable /\ busy' = busy \cup {body.who} /\ Go("browser") /\ UNCHANGED chain
           /\ taken' = taken \ ({body.who} \ (direct \cup RoomHolds))
  <2>1. body.who \notin busy /\ StaysAtHead
    BY <1>4 DEF Claimable, StaysAtHead, Op, Here
  <2> QED
    BY <1>1, <1>2, <1>4, <2>1, MemberClaimed
<1>5. CASE EndOp(chain) /\ UNCHANGED <<busy, taken>>
  BY <1>3, <1>5, EndOpIsQuiet
<1>6. CASE PassOver(Spoke) /\ UNCHANGED <<busy, taken>>
  <2>1. Quiet'
    BY <1>6 DEF PassOver, Quiet, TypeInv, RoomsTypeOK, Bodies
  <2> QED
    BY <1>3, <1>6, <2>1
<1>7. CASE body' = [body EXCEPT !.stage = "entry", !.tried = TRUE] /\ UNCHANGED <<busy, taken>>
  <2>1. Quiet'
    BY <1>7 DEF Quiet, TypeInv, RoomsTypeOK, Bodies
  <2> QED
    BY <1>3, <1>7, <2>1
<1> QED
  BY <1>4, <1>5, <1>6, <1>7 DEF SetupEnds

(* The operation gives its member back, whatever waits for the member. *)
LEMMA MemberGivenBack ==
  ASSUME TypeInv, OwnerInv, Owns, ~OwedStall, NEW woken \in SUBSET {body.who},
         busy' = (busy \ {body.who}) \cup woken, direct' = direct \cup woken,
         \/ ~Speaking /\ UNCHANGED <<busyBot, speaker>>
         \/ Speaking /\ busyBot = body.who /\ busyBot' = None
         \/ Speaking /\ busyBot # body.who /\ UNCHANGED busyBot,
         UNCHANGED <<release, taken>>,
         \A th \in Threads : watch'[th] = None
  PROVE  QuietlyOwned'
<1>1. Holders = release \cup {Turn} /\ Turn[2] = body.who
  BY HoldersTyped DEF Holders
<1>2. body.who \notin taken => body.who \in busy \ direct
  BY <1>1 DEF OwnerInv, HeldAlone
<1>3. \A t \in release : t[2] \notin taken =>
        /\ t[2] \in busy \ direct /\ t[2] # body.who
        /\ \A u \in release : u[2] = t[2] => u = t
  <2>1. SUFFICES ASSUME NEW t \in release, t[2] \notin taken, t[2] = body.who
                 PROVE  FALSE
    BY <1>1 DEF OwnerInv, HeldAlone
  <2>2. t = Turn
    BY <1>1, <2>1 DEF OwnerInv, HeldAlone
  <2> QED
    BY <2>1, <2>2 DEF OwnerInv, StallIsOwed
<1>4. HeldAlone(release)'
  BY <1>3 DEF HeldAlone
<1>5. BusyIsHeld(release)'
  BY <1>1, <1>2 DEF OwnerInv, BusyIsHeld
<1>6. TimerSpeaks'
  <2>1. CASE ~Speaking
    BY <2>1 DEF OwnerInv, SpeakerHolds, TimerSpeaks, ThreadOf
  <2>2. CASE Speaking
    <3>1. busyBot' = None
      BY <2>2 DEF OwnerInv, SpeakerHolds, OperationSpeaks
    <3> QED
      BY <3>1 DEF TimerSpeaks
  <2> QED
    BY <2>1, <2>2
<1> QED
  BY <1>4, <1>5, <1>6 DEF QuietlyOwned

(* The member was given back already: a timer freed the room. *)
LEMMA MemberGone ==
  ASSUME TypeInv, OwnerInv, Speaking, busyBot # body.who,
         UNCHANGED <<busy, direct, taken, busyBot, release>>,
         \A th \in Threads : watch'[th] = None
  PROVE  QuietlyOwned'
<1>1. busyBot' = None /\ body.who \notin busy \ direct
  BY DEF OwnerInv, SpeakerHolds, OperationSpeaks
<1>2. Holders \subseteq release \cup {Turn} /\ release \subseteq Holders /\ Turn[2] = body.who
  BY HoldersTyped DEF Holders
<1>3. HeldAlone(release)'
  BY <1>2 DEF OwnerInv, HeldAlone
<1>4. BusyIsHeld(release)'
  BY <1>1, <1>2 DEF OwnerInv, BusyIsHeld
<1>5. TimerSpeaks'
  BY <1>1 DEF TimerSpeaks
<1> QED
  BY <1>3, <1>4, <1>5 DEF QuietlyOwned

LEMMA WatchElsewhere ==
  ASSUME TypeInv, OwnerInv, ~At("sent"), ~(At("after") /\ body.outcome = "cancelled")
  PROVE  \A th \in Threads : watch[th] = None
BY DEF OwnerInv, WatchIsOfTheTurn

LEMMA BrowserEndsOwned ==
  ASSUME TypeInv, OwnerInv, BrowserEnds
  PROVE  OwnerInv'
<1>1. chain # <<>> /\ body.stage = "browser" /\ Owns /\ ~OwedStall /\ ~Speaking
  BY DEF BrowserEnds, At, Owns, OwedStall, Speaking
<1>2. UNCHANGED <<release, watch, taken>> /\ \A th \in Threads : watch[th] = None
  BY <1>1, WatchElsewhere DEF BrowserEnds, timerVars, At
<1>3. CASE Free({body.who}) /\ EndOp(chain) /\ UNCHANGED roomVars
  <2>1. busy' = (busy \ {body.who}) \cup {} /\ direct' = direct \cup {} /\ {} \in SUBSET {body.who}
        /\ UNCHANGED <<busyBot, speaker>>
    BY <1>3 DEF Free, roomVars
  <2>2. QuietlyOwned'
    BY <1>1, <1>2, <2>1, MemberGivenBack
  <2> QED
    BY <1>3, <2>2, EndOpIsQuiet, QuietEntersNext
<1>4. CASE /\ busyBot' = body.who /\ speaker' = [speaker EXCEPT ![Here] = body.who]
           /\ Go("gate") /\ UNCHANGED <<chain, botVars>>
  <2>1. body'.who = body.who /\ body'.stage = "gate" /\ chain' = chain /\ Here' = Here
        /\ Turn' = Turn /\ UNCHANGED <<busy, direct>>
    BY <1>4 DEF Go, TypeInv, RoomsTypeOK, Bodies, Here, Op, Turn, botVars
  <2>2. ~At("after")' /\ ~OwedStall' /\ ~OwedStall /\ Owns' /\ Speaking' /\ Holders' = Holders
    BY <1>1, <1>2, <2>1 DEF At, OwedStall, Owns, Speaking, Holders
  <2>3. speaker'[Here] = body.who /\ body.who # None
    BY <1>1, <1>4, HoldersTyped DEF TypeInv, RoomsTypeOK
  <2>4. HeldAlone(Holders)' /\ BusyIsHeld(Holders)'
    BY <1>2, <2>1, <2>2 DEF OwnerInv, HeldAlone, BusyIsHeld
  <2>5. SpeakerHolds'
    BY <1>4, <2>1, <2>2, <2>3 DEF SpeakerHolds, OperationSpeaks
  <2>6. StallIsOwed'
    BY <1>1, <1>2, <2>1, <2>2 DEF OwnerInv, StallIsOwed
  <2>7. WatchIsOfTheTurn'
    BY <1>2 DEF WatchIsOfTheTurn
  <2> QED
    BY <2>4, <2>5, <2>6, <2>7 DEF OwnerInv
<1> QED
  BY <1>3, <1>4 DEF BrowserEnds

LEMMA DispatchOwned ==
  ASSUME TypeInv, OwnerInv, Dispatch
  PROVE  OwnerInv'
<1>1. /\ chain # <<>> /\ body.stage = "gate" /\ UNCHANGED <<release, taken>>
      /\ Owns /\ ~OwedStall /\ Speaking
  BY DEF Dispatch, At, Owns, OwedStall, Speaking
<1>2. \A th \in Threads : watch[th] = None
  BY <1>1, WatchElsewhere DEF At
<1>3. CASE /\ IF busyBot = body.who THEN ClearSpeaker(Here) ELSE UNCHANGED roomVars
           /\ Free({body.who}) /\ EndOp(chain) /\ UNCHANGED watch
  <2>1. busy' = (busy \ {body.who}) \cup {} /\ direct' = direct \cup {} /\ {} \in SUBSET {body.who}
    BY <1>3 DEF Free
  <2>2. \/ busyBot = body.who /\ busyBot' = None
        \/ busyBot # body.who /\ UNCHANGED busyBot
    BY <1>3 DEF ClearSpeaker, roomVars
  <2>3. QuietlyOwned'
    BY <1>1, <1>2, <1>3, <2>1, <2>2, MemberGivenBack
  <2> QED
    BY <1>3, <2>3, EndOpIsQuiet, QuietEntersNext
<1>4. CASE /\ watch' = [watch EXCEPT ![Here] = Turn] /\ Go("sent")
           /\ UNCHANGED <<chain, roomVars, botVars>>
  <2>1. body'.who = body.who /\ body'.stage = "sent" /\ chain' = chain /\ Here' = Here /\ Turn' = Turn
        /\ UNCHANGED <<busy, direct, busyBot, speaker>>
    BY <1>4 DEF Go, TypeInv, RoomsTypeOK, Bodies, Here, Op, Turn, botVars, roomVars
  <2>2. /\ ~At("after")' /\ ~At("after") /\ ~OwedStall' /\ At("sent")'
        /\ Owns' /\ Speaking' /\ Holders' = Holders
    BY <1>1, <2>1 DEF At, OwedStall, Owns, Speaking, Holders
  <2>3. HeldAlone(Holders)' /\ BusyIsHeld(Holders)'
    BY <1>1, <2>1, <2>2 DEF OwnerInv, HeldAlone, BusyIsHeld
  <2>4. SpeakerHolds'
    BY <1>1, <2>1, <2>2 DEF OwnerInv, SpeakerHolds, OperationSpeaks
  <2>5. StallIsOwed'
    BY <1>1, <2>1, <2>2 DEF OwnerInv, StallIsOwed
  <2>6. WatchIsOfTheTurn'
    BY <1>2, <1>4, <2>1, <2>2 DEF WatchIsOfTheTurn, TypeInv, RoomsTypeOK
  <2> QED
    BY <2>3, <2>4, <2>5, <2>6 DEF OwnerInv
<1> QED
  BY <1>3, <1>4 DEF Dispatch

(* An outcome reaches the operation; the room stays the operation's. *)
LEMMA OutcomeOwned ==
  ASSUME TypeInv, OwnerInv, At("sent"),
         UNCHANGED <<chain, busy, direct, taken, busyBot, speaker>>,
         NEW o \in RoomOutcomes \ {"settled"}, body' = Outcome(o),
         release' = IF o = "stalled" THEN release \cup {Turn} ELSE release,
         \/ \A th \in Threads : watch'[th] = None
         \/ o = "cancelled" /\ UNCHANGED watch
  PROVE  OwnerInv'
<1>1. chain # <<>> /\ body.stage = "sent" /\ Owns /\ Speaking /\ ~OwedStall
  BY DEF At, Owns, Speaking, OwedStall
<1>2. /\ body'.who = body.who /\ body'.stage = "after" /\ body'.outcome = o
      /\ Here' = Here /\ Turn' = Turn
  BY DEF Outcome, TypeInv, RoomsTypeOK, Bodies, Here, Op, Turn
<1>3. /\ At("after")' /\ ~At("sent")' /\ (OwedStall' <=> o = "stalled")
      /\ Owns' /\ Speaking'
  BY <1>1, <1>2 DEF At, OwedStall, Owns, Ending, Speaking
<1>4. Holders' = Holders
  BY <1>1, <1>2, <1>3 DEF Holders
<1>5. HeldAlone(Holders)' /\ BusyIsHeld(Holders)'
  BY <1>4 DEF OwnerInv, HeldAlone, BusyIsHeld
<1>6. SpeakerHolds'
  BY <1>1, <1>2, <1>3 DEF OwnerInv, SpeakerHolds, OperationSpeaks
<1>7. StallIsOwed'
  BY <1>1, <1>2, <1>3 DEF OwnerInv, StallIsOwed
<1>8. WatchIsOfTheTurn'
  BY <1>2, <1>3 DEF OwnerInv, WatchIsOfTheTurn
<1> QED
  BY <1>5, <1>6, <1>7, <1>8 DEF OwnerInv

LEMMA WatchCleared ==
  ASSUME TypeInv, OwnerInv, watch' = [watch EXCEPT ![Here] = None], chain # <<>>
  PROVE  \A th \in Threads : watch'[th] = None
BY HeadOfChain DEF OwnerInv, WatchIsOfTheTurn, TypeInv, RoomsTypeOK

LEMMA SecondInterruptSettlesOwned ==
  ASSUME TypeInv, OwnerInv, NEW t \in Turns, SecondInterruptSettles(t)
  PROVE  OwnerInv'
<1>1. UNCHANGED <<chain, busy, direct, taken, busyBot, speaker, release, watch>>
  BY DEF SecondInterruptSettles, botVars, roomVars, timerVars, otherVars
<1>2. CASE Awaits(t)
  <2>1. At("sent") /\ body' = Outcome("cancelled")
    BY <1>2 DEF SecondInterruptSettles, OutcomeOf, Awaits
  <2> QED
    BY <1>1, <2>1, OutcomeOwned DEF RoomOutcomes
<1>3. CASE ~Awaits(t)
  <2>1. body' = body /\ StaysAtHead
    BY <1>1, <1>3 DEF SecondInterruptSettles, OutcomeOf, StaysAtHead, Op, Here
  <2> QED
    BY <1>1, <2>1, OwnerStays
<1> QED
  BY <1>2, <1>3

LEMMA SendRejectsOwned ==
  ASSUME TypeInv, OwnerInv, NEW t \in Turns, SendRejects(t)
  PROVE  OwnerInv'
<1>1. UNCHANGED <<chain, busy, direct, taken, busyBot, speaker, release>> /\ StaysAtHead
  BY DEF SendRejects, botVars, roomVars, otherVars, StaysAtHead, Op, Here
<1>2. CASE UNCHANGED <<body, watch>>
  BY <1>1, <1>2, OwnerStays
<1>3. CASE watch' = [watch EXCEPT ![ThreadOf(t)] = None] /\ body' = OutcomeOf(t, "dispatch_failed")
  <2>1. CASE Awaits(t)
    <3>1. At("sent") /\ chain # <<>> /\ body' = Outcome("dispatch_failed") /\ ThreadOf(t) = Here
      BY <1>3, <2>1 DEF OutcomeOf, Awaits, At, Turn, ThreadOf, Here
    <3>2. \A th \in Threads : watch'[th] = None
      BY <1>3, <3>1, WatchCleared
    <3> QED
      BY <1>1, <3>1, <3>2, OutcomeOwned DEF RoomOutcomes
  <2>2. CASE ~Awaits(t)
    <3>1. body' = body
      BY <1>3, <2>2 DEF OutcomeOf
    <3>2. \A th \in Threads : watch'[th] \in {watch[th], None}
      BY <1>3 DEF TypeInv, RoomsTypeOK
    <3> QED
      BY <1>1, <3>1, <3>2, OwnerStays
  <2> QED
    BY <2>1, <2>2
<1> QED
  BY <1>2, <1>3 DEF SendRejects

(* A completion that is heard is that of the turn the operation awaits. *)
LEMMA HeardIsAwaited ==
  ASSUME TypeInv, OwnerInv, TurnsAreIgnored, NEW t \in live, ~EventIgnored(t)
  PROVE  /\ Awaits(t) /\ At("sent") /\ Turn = t /\ Here = ThreadOf(t) /\ chain # <<>>
         /\ Speaking /\ OperationSpeaks /\ body.who # None
<1>1. t \notin retired /\ t \notin turnGate
  BY DEF EventIgnored, GatedThread
<1>2. Awaits(t) /\ At("sent") /\ Turn = t /\ chain # <<>> /\ body.stage = "sent"
  BY <1>1 DEF TurnsAreIgnored, Awaits, At
<1>3. Here = ThreadOf(t)
  BY <1>2 DEF Here, ThreadOf, Turn
<1>4. Speaking
  BY <1>2 DEF Speaking
<1> QED
  BY <1>2, <1>3, <1>4, HoldersTyped DEF OwnerInv, SpeakerHolds

(* The completion was folded: the operation has nothing left in hand. *)
LEMMA SettledOwned ==
  ASSUME QuietlyOwned', chain' # <<>>, body'.stage = "after", body'.outcome = "settled",
         busyBot' = None, body'.who \notin busy' \ direct', body'.who # None
  PROVE  OwnerInv'
<1>1. At("after")' /\ ~Owns' /\ ~OwedStall' /\ Speaking' /\ Holders' = release'
  BY DEF At, Owns, Ending, OwedStall, Speaking, Holders
<1>2. SpeakerHolds'
  BY <1>1 DEF SpeakerHolds, OperationSpeaks
<1> QED
  BY <1>1, <1>2 DEF QuietlyOwned, OwnerInv, StallIsOwed, WatchIsOfTheTurn

LEMMA CompletesOwned ==
  ASSUME TypeInv, OwnerInv, TurnsAreIgnored, NEW t \in Turns, Completes(t)
  PROVE  OwnerInv'
<1>1. UNCHANGED <<release, taken>>
  BY DEF Completes, otherVars
<1>2. CASE EventIgnored(t)
  <2>1. UNCHANGED <<watch, roomVars, botVars, chain, body>>
    BY <1>2 DEF Completes
  <2> QED
    BY <1>1, <2>1, OwnerStays DEF roomVars, botVars, StaysAtHead, Op, Here
<1>3. CASE ~EventIgnored(t)
  <2> DEFINE clears == speaker[Here] # None /\ busyBot = speaker[Here]
             freed == IF clears THEN {speaker[Here]} ELSE {}
  <2>1. /\ At("sent") /\ Turn = t /\ Here = ThreadOf(t) /\ chain # <<>>
        /\ Speaking /\ OperationSpeaks /\ body.who # None
    BY <1>3, HeardIsAwaited DEF Completes
  <2>2. /\ IF clears THEN ClearSpeaker(Here) ELSE UNCHANGED roomVars
        /\ watch' = [watch EXCEPT ![Here] = None]
        /\ body' = Outcome("settled")
        /\ \E woken \in MayWake(freed) : Drain(freed, woken) /\ direct' = direct \cup woken
    BY <1>3, <2>1 DEF Completes, Hears
  <2>3. PICK woken \in MayWake(freed) : Drain(freed, woken) /\ direct' = direct \cup woken
    BY <2>2
  <2>4. body.who \in Bots /\ body.stage = "sent" /\ Owns /\ ~OwedStall
    BY <2>1, HoldersTyped DEF At, Owns, OwedStall
  <2>5. IF busyBot = body.who THEN clears /\ freed = {body.who} ELSE ~clears /\ freed = {}
    BY <2>1 DEF OperationSpeaks
  <2>6. freed \in SUBSET Bots
    BY <2>4, <2>5
  <2> HIDE DEF clears, freed
  <2>7. chain' # <<>> /\ woken \subseteq freed /\ busy' = (busy \ freed) \cup woken
    BY <2>1, <2>3, <2>6, DrainTyped DEF Drain
  <2>8. \A th \in Threads : watch'[th] = None
    BY <2>1, <2>2, WatchCleared
  <2>9. body'.who = body.who /\ body'.stage = "after" /\ body'.outcome = "settled"
    BY <2>2 DEF Outcome, TypeInv, RoomsTypeOK, Bodies
  <2>10. CASE busyBot = body.who
    <3>1. busyBot' = None /\ busy' = (busy \ {body.who}) \cup woken /\ woken \in SUBSET {body.who}
      BY <2>2, <2>5, <2>7, <2>10 DEF ClearSpeaker
    <3>2. QuietlyOwned'
      BY <1>1, <2>1, <2>3, <2>4, <2>8, <2>10, <3>1, MemberGivenBack
    <3> QED
      BY <2>1, <2>3, <2>7, <2>9, <3>1, <3>2, SettledOwned
  <2>11. CASE busyBot # body.who
    <3>1. UNCHANGED <<busy, direct, busyBot>>
      BY <2>2, <2>3, <2>5, <2>7, <2>11 DEF roomVars
    <3>2. QuietlyOwned'
      BY <1>1, <2>1, <2>8, <2>11, <3>1, MemberGone
    <3>3. busyBot' = None /\ body.who \notin busy' \ direct'
      BY <2>1, <2>11, <3>1 DEF OperationSpeaks
    <3> QED
      BY <2>1, <2>7, <2>9, <3>2, <3>3, SettledOwned
  <2> QED
    BY <2>10, <2>11
<1> QED
  BY <1>2, <1>3

LEMMA DeadlineFiresOwned ==
  ASSUME TypeInv, OwnerInv, DeadlineFires
  PROVE  OwnerInv'
<1>1. /\ At("sent") /\ chain # <<>> /\ body' = Outcome("timed_out")
      /\ UNCHANGED <<chain, busy, direct, taken, busyBot, speaker, release>>
  BY DEF DeadlineFires, At, botVars, roomVars
<1>2. \A th \in Threads : watch'[th] = None
  BY <1>1, WatchCleared DEF DeadlineFires
<1> QED
  BY <1>1, <1>2, OutcomeOwned DEF RoomOutcomes

(* The watchdog only finds the turn the operation awaits. *)
LEMMA StallFindsTheTurn ==
  ASSUME TypeInv, OwnerInv, ~Soon, NEW th \in Threads, Stall(th)
  PROVE  /\ At("sent") /\ chain # <<>> /\ Here = th /\ watch[th] = Turn
         /\ Abandon(Turn) /\ body' = Outcome("stalled")
<1>1. watch[th] = Turn /\ th = Here /\ (At("sent") \/ At("after"))
  BY DEF Stall, OwnerInv, WatchIsOfTheTurn
<1>2. At("sent") /\ chain # <<>>
  BY <1>1 DEF Soon, At
<1> QED
  BY <1>1, <1>2 DEF Stall

LEMMA StallOwned ==
  ASSUME TypeInv, OwnerInv, ~Soon, NEW th \in Threads, Stall(th)
  PROVE  OwnerInv'
<1>1. At("sent") /\ chain # <<>> /\ Here = th /\ watch[th] = Turn /\ body' = Outcome("stalled")
  BY StallFindsTheTurn
<1>2. /\ UNCHANGED <<chain, busy, direct, taken, busyBot, speaker>>
      /\ release' = release \cup {Turn} /\ watch' = [watch EXCEPT ![Here] = None]
  BY <1>1 DEF Stall, botVars, roomVars
<1>3. \A u \in Threads : watch'[u] = None
  BY <1>1, <1>2, WatchCleared
<1> QED
  BY <1>1, <1>2, <1>3, OutcomeOwned DEF RoomOutcomes

(* After an outcome the operation gives back what is still its own. *)
LEMMA TurnStoppedOwned ==
  ASSUME TypeInv, OwnerInv, TurnStopped
  PROVE  OwnerInv'
<1> DEFINE freed == busy \cap {body.who}
<1>1. /\ chain # <<>> /\ UNCHANGED <<release, taken>> /\ body.who \in Bots
      /\ Owns /\ ~OwedStall /\ Speaking
  BY TurnTyped DEF TurnStopped, At, otherVars, Owns, Ending, OwedStall, Speaking
<1>2. PICK woken \in MayWake(freed) : Drain(freed, woken) /\ direct' = direct \cup woken
  BY DEF TurnStopped
<1>3. woken \in SUBSET {body.who} /\ busy' = (busy \ {body.who}) \cup woken
  BY <1>2 DEF Drain, MayWake
<1>4. \A th \in Threads : watch'[th] = None
  BY <1>1, WatchCleared DEF TurnStopped
<1>5. \/ busyBot = body.who /\ busyBot' = None
      \/ busyBot # body.who /\ UNCHANGED busyBot
  BY DEF TurnStopped, ClearSpeaker, roomVars
<1>6. QuietlyOwned'
  BY <1>1, <1>2, <1>3, <1>4, <1>5, MemberGivenBack
<1>7. Quiet'
  BY DEF TurnStopped, Quiet, TypeInv, RoomsTypeOK, Bodies
<1> QED
  BY <1>6, <1>7, QuietEntersNext

LEMMA TurnGivenUpOwned ==
  ASSUME TypeInv, OwnerInv, TurnGivenUp
  PROVE  OwnerInv'
<1>1. /\ At("after") /\ EndOp(chain) /\ Owns /\ Speaking
      /\ body.outcome \in {"timed_out", "stalled"} /\ (OwedStall <=> body.outcome = "stalled")
      /\ UNCHANGED <<busy, direct, taken, busyBot, speaker, watch>>
  BY DEF TurnGivenUp, botVars, roomVars, Owns, Ending, Speaking, OwedStall
<1>2. release' = release \cup {Turn} /\ release' = Holders
  BY <1>1 DEF TurnGivenUp, GraceOwed, OwnerInv, StallIsOwed, Holders
<1>3. HeldAlone(release)' /\ BusyIsHeld(release)'
  BY <1>1, <1>2 DEF OwnerInv, HeldAlone, BusyIsHeld
<1>4. TimerSpeaks'
  <2>1. busyBot # None => busyBot = body.who /\ speaker[Here] = body.who
    BY <1>1 DEF OwnerInv, SpeakerHolds, OperationSpeaks
  <2>2. Turn[2] = body.who /\ ThreadOf(Turn) = Here
    BY <1>1, HoldersTyped
  <2> QED
    BY <1>1, <1>2, <2>1, <2>2 DEF TimerSpeaks, ThreadOf
<1>5. \A th \in Threads : watch[th] = None
  BY <1>1, WatchElsewhere DEF At
<1>6. QuietlyOwned'
  BY <1>1, <1>3, <1>4, <1>5 DEF QuietlyOwned
<1> QED
  BY <1>1, <1>6, EndOpIsQuiet, QuietEntersNext

LEMMA TurnSettledOwned ==
  ASSUME TypeInv, OwnerInv, TurnSettled
  PROVE  OwnerInv'
<1>1. /\ chain # <<>> /\ At("after") /\ Speaking /\ body.outcome \in {"settled", "dispatch_failed"}
      /\ UNCHANGED <<release, watch, taken>> /\ body.who \in Bots /\ body.who # None
  BY TurnTyped, OpsFacts DEF TurnSettled, At, Speaking, timerVars, otherVars
<1>2. Quiet'
  BY DEF TurnSettled, Go, Quiet, TypeInv, RoomsTypeOK, Bodies
<1>3. \A th \in Threads : watch'[th] = None
  BY <1>1, WatchElsewhere DEF At
<1>4. CASE busyBot # body.who
  <2>1. UNCHANGED <<busy, direct, busyBot>>
    <3>1. CASE body.outcome = "settled"
      BY <1>4, <3>1 DEF TurnSettled, Free, roomVars
    <3>2. CASE body.outcome = "dispatch_failed"
      BY <1>4, <3>2 DEF TurnSettled, Drain, MayWake, roomVars
    <3> QED
      BY <1>1, <3>1, <3>2
  <2>2. QuietlyOwned'
    BY <1>1, <1>3, <1>4, <2>1, MemberGone
  <2> QED
    BY <1>2, <2>2, QuietEntersNext
<1>5. CASE busyBot = body.who
  <2> DEFINE freed == busy \cap {body.who}
  <2>1. body.outcome = "dispatch_failed" /\ Owns /\ ~OwedStall
    BY <1>1, <1>5 DEF OwnerInv, SpeakerHolds, OperationSpeaks, Owns, Ending, OwedStall
  <2>2. /\ busyBot' = None
        /\ \E woken \in MayWake(freed) : Drain(freed, woken) /\ direct' = direct \cup woken
    BY <1>5, <2>1 DEF TurnSettled, ClearSpeaker
  <2>3. PICK woken \in MayWake(freed) : Drain(freed, woken) /\ direct' = direct \cup woken
    BY <2>2
  <2>4. woken \in SUBSET {body.who} /\ busy' = (busy \ {body.who}) \cup woken
    BY <2>3 DEF Drain, MayWake
  <2>5. QuietlyOwned'
    BY <1>1, <1>3, <1>5, <2>1, <2>2, <2>3, <2>4, MemberGivenBack
  <2> QED
    BY <1>2, <2>5, QuietEntersNext
<1> QED
  BY <1>4, <1>5

(* Bots are freed that the room does not hold, or that are taken from it.  *)
LEMMA BotsFreed ==
  ASSUME TypeInv, OwnerInv, StaysAtHead, ~At("after"), NEW fr \in SUBSET Bots,
         body' = Latched(fr), NEW woken \in SUBSET fr, busy' = (busy \ fr) \cup woken,
         direct' \subseteq direct \cup woken, ((direct \cap busy) \ fr) \cup woken \subseteq direct',
         direct' \cap fr \subseteq woken \cup taken', taken \subseteq taken',
         release' \subseteq release, UNCHANGED watch,
         \A t \in release \ release' : t[2] \notin busy \ fr,
         \A t \in Holders : (t \in release' \/ t \notin release) /\ t[2] \in fr => t[2] \in taken',
         \/ busyBot' = None /\ busyBot \notin busy' \ direct'
         \/ /\ UNCHANGED <<busyBot, speaker>>
            /\ \A t \in release \ release' : ~(busyBot = t[2] /\ speaker[ThreadOf(t)] = t[2])
  PROVE  OwnerInv'
<1>1. /\ body'.who = body.who
      /\ \A st \in {"browser", "gate", "sent", "after"} : body'.stage = st <=> body.stage = st
      /\ body.stage = "idle" => body'.stage = "idle"
  BY DEF Latched, TypeInv, RoomsTypeOK, Bodies
<1>2. body.stage # "idle" => chain # <<>> /\ chain' # <<>> /\ Turn' = Turn /\ Here' = Here
  BY <1>1 DEF TypeInv, BodyIsOfChain, StaysAtHead, Turn
<1>3. /\ Owns' <=> Owns
      /\ Speaking' <=> Speaking
      /\ ~At("after")' /\ ~OwedStall /\ ~OwedStall'
      /\ At("sent")' <=> At("sent")
  BY <1>1, <1>2 DEF Owns, Ending, Speaking, OwedStall, At
<1>4. Owns \/ Speaking \/ At("sent") => Turn' = Turn /\ Here' = Here
  BY <1>2 DEF Owns, Ending, Speaking, At
<1>5. Owns /\ Turn \in release => Turn[2] \in taken
  BY <1>3, HoldersTyped DEF OwnerInv, StallIsOwed
<1>6. /\ Holders' \subseteq Holders /\ release \subseteq Holders
      /\ \A t \in Holders' : t[2] \in fr => t[2] \in taken'
  <2>1. Holders' = release' \cup (IF Owns THEN {Turn} ELSE {})
    BY <1>3, <1>4 DEF Holders
  <2> QED
    BY <1>5, <2>1 DEF Holders
<1>7. HeldAlone(Holders)'
  <2>1. SUFFICES ASSUME NEW t \in Holders', t[2] \notin taken'
                 PROVE  t[2] \in busy' \ direct' /\ \A u \in Holders' : u[2] = t[2] => u = t
    BY DEF HeldAlone
  <2>2. t[2] \in busy \ direct /\ \A u \in Holders : u[2] = t[2] => u = t
    BY <1>6, <2>1 DEF OwnerInv, HeldAlone
  <2> QED
    BY <1>6, <2>1, <2>2
<1>8. BusyIsHeld(Holders)'
  <2>1. ASSUME NEW b \in busy', b \notin direct'
        PROVE  \E t \in Holders' : t[2] = b
    <3>1. b \in busy /\ b \notin direct /\ b \notin fr
      BY <2>1
    <3>2. PICK t \in Holders : t[2] = b
      BY <3>1 DEF OwnerInv, BusyIsHeld
    <3>3. t \in Holders'
      BY <1>3, <1>4, <3>1, <3>2 DEF Holders
    <3> QED
      BY <3>2, <3>3
  <2>2. direct' \subseteq busy' \cup taken'
    BY DEF OwnerInv, BusyIsHeld
  <2> QED
    BY <2>1, <2>2 DEF BusyIsHeld
<1>9. SpeakerHolds'
  <2>1. CASE Speaking
    <3>1. OperationSpeaks /\ body.who # None
      BY <2>1, HoldersTyped DEF OwnerInv, SpeakerHolds
    <3>2. busyBot' = None => body.who \notin busy' \ direct'
      BY <3>1 DEF OperationSpeaks
    <3>3. OperationSpeaks'
      BY <1>1, <1>3, <1>4, <2>1, <3>1, <3>2 DEF OperationSpeaks
    <3> QED
      BY <1>3, <2>1, <3>3 DEF SpeakerHolds
  <2>2. CASE ~Speaking
    <3>1. TimerSpeaks
      BY <2>2 DEF OwnerInv, SpeakerHolds
    <3>2. TimerSpeaks'
      BY <3>1 DEF TimerSpeaks, ThreadOf
    <3> QED
      BY <1>3, <2>2, <3>2 DEF SpeakerHolds
  <2> QED
    BY <2>1, <2>2
<1>10. StallIsOwed'
  BY <1>1, <1>3, <1>4, <1>5, HoldersTyped DEF StallIsOwed
<1>11. WatchIsOfTheTurn'
  BY <1>3, <1>4 DEF OwnerInv, WatchIsOfTheTurn
<1> QED
  BY <1>7, <1>8, <1>9, <1>10, <1>11 DEF OwnerInv

LEMMA ReleaseOwnershipOwned ==
  ASSUME TypeInv, OwnerInv, ~Soon, NEW t \in Turns, ReleaseOwnership(t)
  PROVE  OwnerInv'
<1> DEFINE m == t[2]
           freed == busy \cap {m}
<1>1. /\ m \in Bots /\ ~At("after") /\ t \in release /\ t \in Holders
      /\ release' = release \ {t} /\ UNCHANGED <<watch, taken>> /\ body' = Latched(freed)
  BY DEF Turns, Soon, At, ReleaseOwnership, Holders
<1>2. PICK woken \in SUBSET freed :
        busy' = (busy \ freed) \cup woken /\ direct' = direct \cup woken /\ StaysAtHead
  <2>1. CASE freed = {} /\ UNCHANGED <<botVars, chain>>
    BY <2>1 DEF botVars, StaysAtHead, Op, Here
  <2>2. ASSUME NEW woken \in MayWake(freed), Drain(freed, woken), direct' = direct \cup woken
        PROVE  woken \in SUBSET freed /\ busy' = (busy \ freed) \cup woken /\ StaysAtHead
    BY <1>1, <2>2, DrainTyped DEF Drain, StaysAtHead
  <2> QED
    BY <2>1, <2>2 DEF ReleaseOwnership
<1>3. \/ busyBot = m /\ busyBot' = None
      \/ ~(busyBot = m /\ speaker[ThreadOf(t)] = m) /\ UNCHANGED <<busyBot, speaker>>
  BY DEF ReleaseOwnership, ClearSpeaker, roomVars
<1>4. \A u \in Holders : (u \in release' \/ u \notin release) /\ u[2] \in freed => u[2] \in taken'
  BY <1>1 DEF OwnerInv, HeldAlone
<1>5. m \in direct => m \in taken
  BY <1>1 DEF OwnerInv, HeldAlone
<1>6. direct' \cap freed \subseteq woken \cup taken'
  BY <1>1, <1>2, <1>5
<1>7. m \notin busy' \ direct'
  BY <1>2
<1> HIDE DEF m
<1> QED
  BY <1>1, <1>2, <1>3, <1>4, <1>6, <1>7, BotsFreed DEF m

LEMMA ElsewhereEndsOwned ==
  ASSUME TypeInv, OwnerInv, ~Soon, NEW b \in Shared, ElsewhereEnds(b)
  PROVE  OwnerInv'
<1>1. /\ {b} \in SUBSET Bots /\ b \in direct /\ ~At("after") /\ body' = Latched({b})
      /\ UNCHANGED <<busyBot, speaker, release, watch, taken>>
  BY RoomsSharedAssumption DEF ElsewhereEnds, Soon, At, roomVars, timerVars, otherVars
<1>2. PICK woken \in MayWake({b}) : Drain({b}, woken) /\ direct' = (direct \ {b}) \cup woken
  BY DEF ElsewhereEnds
<1>3. woken \in SUBSET {b} /\ busy' = (busy \ {b}) \cup woken /\ StaysAtHead
  BY <1>1, <1>2, DrainTyped DEF Drain, StaysAtHead
<1>4. \A t \in Holders : t[2] = b => b \in taken
  BY <1>1 DEF OwnerInv, HeldAlone
<1> QED
  BY <1>1, <1>2, <1>3, <1>4, BotsFreed

(* A bot the room holds is marked as taken when something else frees it.   *)
LEMMA TakenAreMarked ==
  ASSUME TypeInv, OwnerInv, ~At("after"), NEW fr,
         taken' = taken \cup (fr \cap busy \cap RoomHolds)
  PROVE  taken \subseteq taken' /\ \A t \in Holders : t[2] \in fr => t[2] \in taken'
BY HoldersHold DEF OwnerInv, HeldAlone

LEMMA StrayFreesOwned ==
  ASSUME TypeInv, OwnerInv, ~Soon, NEW b \in Shared, StrayFrees(b), UNCHANGED StrayVars
  PROVE  OwnerInv'
<1>1. /\ {b} \in SUBSET Bots /\ ~At("after") /\ body' = Latched({b})
      /\ UNCHANGED <<busyBot, speaker, release, watch>>
  BY RoomsSharedAssumption DEF StrayFrees, StrayVars, Soon, At, roomVars, timerVars
<1>2. PICK woken \in MayWake({b}) : Drain({b}, woken) /\ direct' = (direct \ {b}) \cup woken
  BY DEF StrayFrees
<1>3. woken \in SUBSET {b} /\ busy' = (busy \ {b}) \cup woken /\ StaysAtHead
  BY <1>1, <1>2, DrainTyped DEF Drain, StaysAtHead
<1>4. taken \subseteq taken' /\ \A t \in Holders : t[2] \in {b} => t[2] \in taken'
  BY <1>1, TakenAreMarked DEF StrayFrees
<1> QED
  BY <1>1, <1>2, <1>3, <1>4, BotsFreed

LEMMA ReloadOwned ==
  ASSUME TypeInv, OwnerInv, ~Soon, Reload
  PROVE  OwnerInv'
<1>1. /\ busy \in SUBSET Bots /\ ~At("after") /\ body' = Latched(busy)
      /\ UNCHANGED <<busyBot, speaker, release, watch>>
  BY DEF TypeInv, RoomsTypeOK, Reload, Soon, At, roomVars, timerVars
<1>2. PICK woken \in MayWake(busy) : Drain(busy, woken) /\ direct' = woken
  BY DEF Reload
<1>3. woken \in SUBSET busy /\ busy' = (busy \ busy) \cup woken /\ StaysAtHead
  BY <1>1, <1>2, DrainTyped DEF Drain, StaysAtHead
<1>4. taken \subseteq taken' /\ \A t \in Holders : t[2] \in busy => t[2] \in taken'
  <2>1. taken' = taken \cup (busy \cap busy \cap RoomHolds)
    BY DEF Reload
  <2> QED
    BY <1>1, <2>1, TakenAreMarked
<1>5. direct \ busy \subseteq taken
  BY DEF OwnerInv, BusyIsHeld
<1> QED
  BY <1>1, <1>2, <1>3, <1>4, <1>5, BotsFreed

LEMMA ElsewhereStartsOwned ==
  ASSUME TypeInv, OwnerInv, NEW b \in Shared, ElsewhereStarts(b)
  PROVE  OwnerInv'
<1>1. /\ b \notin busy /\ busy' = busy \cup {b} /\ direct' = direct \cup {b}
      /\ UNCHANGED <<body, chain, taken, busyBot, speaker, release, watch>> /\ StaysAtHead
  BY DEF ElsewhereStarts, roundVars, roomVars, timerVars, otherVars, StaysAtHead, Op, Here
<1>2. /\ Owns' = Owns /\ Speaking' = Speaking /\ OwedStall' = OwedStall
      /\ At("after")' = At("after") /\ At("sent")' = At("sent")
      /\ Holders' = Holders /\ Turn' = Turn /\ Here' = Here
  BY <1>1, StandsStill DEF Turn, Here, Op
<1>3. HeldAlone(Holders)'
  BY <1>1, <1>2 DEF OwnerInv, HeldAlone
<1>4. BusyIsHeld(Holders)'
  BY <1>1, <1>2 DEF OwnerInv, BusyIsHeld
<1>5. SpeakerHolds'
  BY <1>1, <1>2 DEF OwnerInv, SpeakerHolds, OperationSpeaks, TimerSpeaks, ThreadOf
<1>6. StallIsOwed' /\ WatchIsOfTheTurn'
  BY <1>1, <1>2 DEF OwnerInv, StallIsOwed, WatchIsOfTheTurn
<1> QED
  BY <1>3, <1>4, <1>5, <1>6 DEF OwnerInv

LEMMA ElsewhereOwned ==
  ASSUME TypeInv, OwnerInv, ~Soon, Elsewhere
  PROVE  OwnerInv'
<1>1. PICK b \in Shared : \/ ElsewhereStarts(b) \/ ElsewhereEnds(b)
                          \/ ElsewhereStalls(b) \/ ElsewhereTimer(b) \/ ElsewhereLateEnd(b)
  BY DEF Elsewhere
<1>2. CASE \/ ElsewhereStalls(b)
           \/ b \notin busy /\ ElsewhereTimer(b)
  <2>1. UNCHANGED <<chain, body, busy, direct, taken, busyBot, speaker, release, watch>>
        /\ StaysAtHead
    BY <1>2 DEF ElsewhereStalls, ElsewhereTimer, StrayVars, roundVars, botVars, roomVars, timerVars,
                StaysAtHead, Op, Here
  <2> QED
    BY <2>1, OwnerStays
<1>3. CASE \/ b \in busy /\ ElsewhereTimer(b)
           \/ ElsewhereLateEnd(b)
  BY <1>3, StrayFreesOwned DEF ElsewhereTimer, ElsewhereLateEnd
<1> QED
  BY <1>1, <1>2, <1>3, ElsewhereStartsOwned, ElsewhereEndsOwned

LEMMA StepOwned ==
  ASSUME TypeInv, OwnerInv, TurnsAreIgnored, [RoomsNext]_roomsVars
  PROVE  OwnerInv'
<1> USE DEF botVars, roomVars, timerVars, roundVars, otherVars, StaysAtHead
<1>0. chain' = chain => StaysAtHead
  BY DEF Op, Here
<1>1. CASE UNCHANGED roomsVars
  BY <1>0, <1>1, OwnerStays DEF roomsVars
<1>2. CASE Continuations
  <2>1. CASE Redrain
    <3>1. CASE UNCHANGED chain
      BY <1>0, <2>1, <3>1, OwnerStays DEF Redrain
    <3>2. CASE ~RoomWorking
      <4>1. chain = <<>>
        BY <3>2 DEF RoomWorking
      <4> QED
        BY <2>1, <4>1, OwnerStays DEF Redrain
    <3> QED
      BY <2>1, <3>1, <3>2 DEF Redrain
  <2>2. CASE BeginOp
    <3>1. Quiet
      BY <2>2 DEF BeginOp, At, Quiet
    <3>2. Quiet'
      BY <2>2, EndOpIsQuiet DEF BeginOp, Quiet, IdleBody
    <3> QED
      BY <2>2, <3>1, <3>2, QuietStays DEF BeginOp
  <2>3. CASE NextResponder
    <3>1. Quiet
      BY <2>3 DEF NextResponder, At, Quiet
    <3>2. CASE EndOp(chain)
      BY <2>3, <3>1, <3>2, EndOpIsQuiet, QuietStays DEF NextResponder
    <3>3. CASE ~EndOp(chain)
      <4>1. body'.stage \in {"next", "wait", "entry"}
        BY <2>3, <3>3 DEF NextResponder, At, TypeInv, RoomsTypeOK, Bodies
      <4> QED
        BY <2>3, <3>1, <4>1, QuietStays DEF NextResponder, Quiet
    <3> QED
      BY <3>2, <3>3
  <2>4. CASE WaitStopped
    <3>1. Quiet /\ Quiet'
      BY <2>4, EndOpIsQuiet DEF WaitStopped, At, Quiet
    <3> QED
      BY <2>4, <3>1, QuietStays DEF WaitStopped
  <2>5. CASE EnterTurn
    <3>1. Quiet
      BY <2>5 DEF EnterTurn, At, Quiet
    <3>2. Quiet'
      <4>1. CASE EndOp(chain)
        BY <4>1, EndOpIsQuiet
      <4>2. CASE \E spoken : PassOver(spoken)
        BY <4>2 DEF PassOver, Quiet, TypeInv, RoomsTypeOK, Bodies
      <4>3. CASE body' = [body EXCEPT !.stage = "setup", !.spoken = Spoke]
        BY <4>3 DEF Quiet, TypeInv, RoomsTypeOK, Bodies
      <4> QED
        BY <2>5, <4>1, <4>2, <4>3 DEF EnterTurn
    <3> QED
      BY <2>5, <3>1, <3>2, QuietStays DEF EnterTurn
  <2> QED
    BY <1>2, <2>1, <2>2, <2>3, <2>4, <2>5, TurnStoppedOwned, TurnGivenUpOwned, TurnSettledOwned
       DEF Continuations
<1>3. CASE ~Soon /\ Person
  <2>1. ASSUME NEW s \in Sends, Send(s)
        PROVE  OwnerInv'
    <3>1. s \in Ops
      BY DEF Ops
    <3>2. StaysAtHead
      BY <1>0, <2>1, <3>1, ChainAppends DEF Send, StartRound
    <3> QED
      BY <2>1, <3>2, OwnerStays DEF Send
  <2>2. ASSUME NEW s \in Sends, Withdraw(s)
        PROVE  OwnerInv'
    BY <1>0, <2>2, OwnerStays DEF Withdraw
  <2>3. ASSUME NEW th \in Threads, SwitchTask(th)
        PROVE  OwnerInv'
    BY <1>0, <2>3, OwnerStays DEF SwitchTask
  <2>4. ASSUME NEW c \in Cards, Card(c)
        PROVE  OwnerInv'
    <3>1. c \in Ops
      BY DEF Ops
    <3>2. StaysAtHead
      BY <1>0, <2>4, <3>1, ChainAppends DEF Card
    <3> QED
      BY <2>4, <3>2, OwnerStays DEF Card
  <2>5. ASSUME NEW ths \in SUBSET Threads, Interrupt(ths)
        PROVE  OwnerInv'
    BY <1>0, <2>5, OwnerStays DEF Interrupt
  <2> QED
    BY <1>3, <2>1, <2>2, <2>3, <2>4, <2>5 DEF Person
<1>4. CASE ~Soon /\ Elsewhere
  BY <1>4, ElsewhereOwned
<1>5. CASE ~Soon /\ Provider
  <2>1. ASSUME NEW t \in Turns, SendResolves(t)
        PROVE  OwnerInv'
    BY <1>0, <2>1, OwnerStays DEF SendResolves
  <2> QED
    BY <1>5, <2>1, SetupEndsOwned, BrowserEndsOwned, DispatchOwned, SendRejectsOwned,
       SecondInterruptSettlesOwned, CompletesOwned DEF Provider
<1>6. CASE ~Soon /\ Timers
  <2>1. CASE WaitCap
    <3>1. Quiet /\ Quiet'
      BY <2>1 DEF WaitCap, PassOver, At, Quiet, TypeInv, RoomsTypeOK, Bodies
    <3> QED
      BY <2>1, <3>1, QuietStays DEF WaitCap
  <2> QED
    BY <1>6, <2>1, DeadlineFiresOwned, StallOwned, ReleaseOwnershipOwned DEF Timers
<1>7. CASE ~Soon /\ Reload
  BY <1>7, ReloadOwned
<1> QED
  BY <1>1, <1>2, <1>3, <1>4, <1>5, <1>6, <1>7 DEF RoomsNext

LEMMA InitOwned ==
  ASSUME RoomsInit
  PROVE  OwnerInv
<1>1. Quiet
  BY DEF RoomsInit, Quiet
<1>2. QuietlyOwned
  BY DEF RoomsInit, QuietlyOwned, HeldAlone, BusyIsHeld, TimerSpeaks
<1> QED
  BY <1>1, <1>2, QuietEnters
------------------------------------------------------------------------------
(* A turn the operation no longer awaits is ignored. *)
LEMMA IgnoredStays ==
  ASSUME TurnsAreIgnored, live' \subseteq live,
         \A t \in live' : t \in retired \cup turnGate => t \in retired' \cup turnGate',
         At("sent") => \/ body' = body /\ StaysAtHead
                       \/ Turn \notin live'
                       \/ Turn \in retired' \cup turnGate'
  PROVE  TurnsAreIgnored'
<1>1. ASSUME NEW t \in live'
      PROVE  Awaits(t)' \/ t \in retired' \cup turnGate'
  <2>1. CASE Awaits(t)
    BY <2>1 DEF Awaits, At, Turn, StaysAtHead
  <2>2. CASE t \in retired \cup turnGate
    BY <2>2
  <2> QED
    BY <2>1, <2>2 DEF TurnsAreIgnored
<1> QED
  BY <1>1 DEF TurnsAreIgnored

LEMMA AbandonIgnores ==
  ASSUME TurnsAreIgnored, At("sent"), Abandon(Turn), UNCHANGED live
  PROVE  TurnsAreIgnored'
<1>1. /\ \A t \in live' : t \in retired \cup turnGate => t \in retired' \cup turnGate'
      /\ Turn \in live' => Turn \in retired' \cup turnGate'
  BY DEF Abandon
<1> QED
  BY <1>1, IgnoredStays

LEMMA DispatchIgnored ==
  ASSUME TypeInv, TurnsAreIgnored, Dispatch
  PROVE  TurnsAreIgnored'
<1>1. body.stage = "gate" /\ chain # <<>> /\ ~At("sent") /\ UNCHANGED <<retired, turnGate>>
  BY DEF Dispatch, At
<1>2. CASE live' = live
  BY <1>1, <1>2, IgnoredStays
<1>3. CASE live' = live \cup {Turn} /\ Go("sent") /\ UNCHANGED chain
  <2>1. At("sent")' /\ Turn' = Turn
    BY <1>1, <1>3 DEF Go, At, Turn, Op, TypeInv, RoomsTypeOK, Bodies
  <2>2. \A t \in live : t \in retired \cup turnGate
    BY <1>1 DEF TurnsAreIgnored, Awaits
  <2> QED
    BY <1>1, <1>3, <2>1, <2>2 DEF TurnsAreIgnored, Awaits
<1> QED
  BY <1>2, <1>3 DEF Dispatch

LEMMA CompletesIgnored ==
  ASSUME TypeInv, OwnerInv, TurnsAreIgnored, NEW t \in Turns, Completes(t)
  PROVE  TurnsAreIgnored'
<1>1. t \in live /\ live' = live \ {t} /\ retired' = retired \ {t} /\ turnGate' = turnGate
  BY DEF Completes, gateVars
<1>2. CASE EventIgnored(t)
  BY <1>1, <1>2, IgnoredStays DEF Completes, StaysAtHead, Op, Here
<1>3. CASE ~EventIgnored(t)
  BY <1>1, <1>3, HeardIsAwaited, IgnoredStays
<1> QED
  BY <1>2, <1>3

LEMMA SecondInterruptSettlesIgnored ==
  ASSUME TurnsAreIgnored, NEW t \in Turns, SecondInterruptSettles(t)
  PROVE  TurnsAreIgnored'
<1>1. /\ live' = live /\ retired' = retired \cup ({t} \cap live) /\ turnGate' = turnGate \ {t}
      /\ UNCHANGED chain /\ (body' = body \/ Awaits(t))
  BY DEF SecondInterruptSettles, OutcomeOf
<1>2. At("sent") => \/ body' = body /\ StaysAtHead
                    \/ Turn \notin live'
                    \/ Turn \in retired' \cup turnGate'
  BY <1>1 DEF Awaits, StaysAtHead, Op, Here
<1> QED
  BY <1>1, <1>2, IgnoredStays

LEMMA SendRejectsIgnored ==
  ASSUME TurnsAreIgnored, NEW t \in Turns, SendRejects(t)
  PROVE  TurnsAreIgnored'
<1>1. /\ live' = live \ {t} /\ retired' = retired /\ turnGate' = turnGate \ {t}
      /\ UNCHANGED chain /\ (body' = body \/ Awaits(t))
  BY DEF SendRejects, OutcomeOf
<1>2. At("sent") => \/ body' = body /\ StaysAtHead
                    \/ Turn \notin live'
  BY <1>1 DEF Awaits, StaysAtHead, Op, Here
<1> QED
  BY <1>1, <1>2, IgnoredStays

LEMMA OutsideIgnored ==
  ASSUME TypeInv, TurnsAreIgnored, Elsewhere \/ Reload
  PROVE  TurnsAreIgnored'
<1>1. /\ live' \subseteq live /\ turnGate' = turnGate
      /\ \A t \in live' : t \in retired => t \in retired'
  BY OutsideSteps DEF gateVars
<1>2. At("sent") => body' = body /\ StaysAtHead
  <2>1. CASE UNCHANGED <<chain, body, resumes>>
    BY <2>1 DEF StaysAtHead, Op, Here
  <2>2. CASE \E fr \in SUBSET Bots : SetsIdle(fr)
    BY <2>2, IdledFacts DEF StaysAtHead, At
  <2> QED
    BY <2>1, <2>2, OutsideSteps
<1> QED
  BY <1>1, <1>2, IgnoredStays

LEMMA StepIgnored ==
  ASSUME TypeInv, OwnerInv, TurnsAreIgnored, [RoomsNext]_roomsVars
  PROVE  TurnsAreIgnored'
<1> USE DEF roundVars, turnVars, gateVars, StaysAtHead
<1>0. chain' = chain => StaysAtHead
  BY DEF Op, Here
<1>1. CASE UNCHANGED roomsVars
  BY <1>0, <1>1, IgnoredStays DEF roomsVars
<1>2. CASE UNCHANGED <<live, retired, turnGate>> /\ ~At("sent")
  BY <1>2, IgnoredStays
<1>3. CASE UNCHANGED <<live, retired, turnGate, body>> /\ StaysAtHead
  BY <1>3, IgnoredStays
<1>4. CASE Continuations
  <2>1. CASE Redrain
    <3>1. StaysAtHead
      BY <1>0, <2>1 DEF Redrain, RoomWorking
    <3> QED
      BY <1>3, <2>1, <3>1 DEF Redrain
  <2>2. CASE BeginOp
    BY <1>2, <2>2 DEF BeginOp, At
  <2>3. CASE NextResponder
    BY <1>2, <2>3 DEF NextResponder, At
  <2>4. CASE WaitStopped \/ EnterTurn
    BY <1>2, <2>4 DEF WaitStopped, EnterTurn, At
  <2>5. CASE TurnStopped \/ TurnGivenUp \/ TurnSettled
    BY <1>2, <2>5 DEF TurnStopped, TurnGivenUp, TurnSettled, At
  <2> QED
    BY <1>4, <2>1, <2>2, <2>3, <2>4, <2>5 DEF Continuations
<1>5. CASE Person
  <2>1. ASSUME NEW s \in Sends, Send(s)
        PROVE  StaysAtHead
    <3>1. s \in Ops
      BY DEF Ops
    <3> QED
      BY <1>0, <2>1, <3>1, ChainAppends DEF Send, StartRound
  <2>2. ASSUME NEW c \in Cards, Card(c)
        PROVE  StaysAtHead
    <3>1. c \in Ops
      BY DEF Ops
    <3> QED
      BY <1>0, <2>2, <3>1, ChainAppends DEF Card
  <2> QED
    BY <1>0, <1>3, <1>5, <2>1, <2>2 DEF Person, Send, Withdraw, SwitchTask, Card, Interrupt
<1>6. CASE Elsewhere \/ Reload
  BY <1>6, OutsideIgnored
<1>7. CASE ~Soon /\ Provider
  <2>1. CASE SetupEnds \/ BrowserEnds
    BY <1>2, <2>1 DEF SetupEnds, BrowserEnds, At
  <2>2. ASSUME NEW t \in Turns, SendResolves(t)
        PROVE  TurnsAreIgnored'
    BY <1>0, <1>3, <2>2 DEF SendResolves
  <2> QED
    BY <1>7, <2>1, <2>2, DispatchIgnored, CompletesIgnored, SecondInterruptSettlesIgnored,
       SendRejectsIgnored DEF Provider
<1>8. CASE ~Soon /\ Timers
  <2>1. CASE WaitCap
    BY <1>2, <2>1 DEF WaitCap, At
  <2>2. CASE DeadlineFires
    BY <2>2, AbandonIgnores DEF DeadlineFires
  <2>3. ASSUME NEW th \in Threads, Stall(th)
        PROVE  TurnsAreIgnored'
    BY <1>8, <2>3, StallFindsTheTurn, AbandonIgnores DEF Stall
  <2>4. ASSUME NEW t \in Turns, ReleaseOwnership(t)
        PROVE  TurnsAreIgnored'
    <3>1. StaysAtHead
      <4>1. CASE UNCHANGED chain
        BY <1>0, <4>1
      <4>2. CASE \E woken \in MayWake(busy \cap {t[2]}) : Drain(busy \cap {t[2]}, woken)
        <5>1. busy \cap {t[2]} \in SUBSET Bots
          BY DEF TypeInv, RoomsTypeOK
        <5> QED
          BY <4>2, <5>1, DrainTyped
      <4> QED
        BY <2>4, <4>1, <4>2 DEF ReleaseOwnership
    <3> QED
      BY <1>2, <1>3, <2>4, <3>1 DEF ReleaseOwnership, Latched, At
  <2> QED
    BY <1>8, <2>1, <2>2, <2>3, <2>4 DEF Timers
<1> QED
  BY <1>1, <1>4, <1>5, <1>6, <1>7, <1>8 DEF RoomsNext
------------------------------------------------------------------------------
(* The theorems. *)

(* The inductive invariant: types, owners, ignored turns, single runs. *)
THEOREM RoomInvariant == RoomsSpec => []RoomInv
<1>1. RoomsInit => RoomInv
  BY InitTyped, InitOwned, InitOnce DEF RoomInv, RoomsInit, TurnsAreIgnored
<1>2. RoomInv /\ [RoomsNext]_roomsVars => RoomInv'
  BY StepTyped, StepOwned, StepOnce, StepIgnored DEF RoomInv
<1> QED
  BY <1>1, <1>2, PTL DEF RoomsSpec

(* Every variable of the room keeps its type (server/index.ts, the state   *)
(* of a channel and of its operations).                                    *)
THEOREM RoomsTypeCorrect == RoomsSpec => []RoomsTypeOK
<1>1. RoomInv => RoomsTypeOK
  BY DEF RoomInv, TypeInv
<1> QED
  BY <1>1, RoomInvariant, PTL

(* A bot in the hands of a room turn, or of the grace timer that outlives  *)
(* one, is in no other conversation: every claim after an await looks at   *)
(* bot.busy again (runGroupMemberTurn, tryStartTurn).  The exception is a  *)
(* bot that was taken: a fleet reload (reloadProviders), or what came late *)
(* of another conversation's stalled turn, freed it in the room's hands.   *)
THEOREM BotsHaveOneConversation == RoomsSpec => []OneConversationPerBot
<1>1. RoomInv => OneConversationPerBot
  BY OwnersAreSafe DEF RoomInv
<1> QED
  BY <1>1, RoomInvariant, PTL

(* A room that names a busy speaker and a bot that a room turn made busy   *)
(* have somebody who frees them: the operation, on each of its ways out,   *)
(* or a releaseOwnership timer.                                            *)
THEOREM BusyRoomIsOwned == RoomsSpec => []BusyRoomHasOwner
<1>1. RoomInv => BusyRoomHasOwner
  BY OwnersAreSafe DEF RoomInv
<1> QED
  BY <1>1, RoomInvariant, PTL

(* An operation never moves past a provider turn that still runs unless    *)
(* the turn's events are ignored from then on (retiredProviderTurns and    *)
(* the room-abandoned gate).                                               *)
THEOREM NoTurnIsForgotten == RoomsSpec => []RunningTurnIsAwaitedOrIgnored
<1>1. RoomInv => RunningTurnIsAwaitedOrIgnored
  BY DEF RoomInv, TurnsAreIgnored, RunningTurnIsAwaitedOrIgnored, EventIgnored, GatedThread
<1> QED
  BY <1>1, RoomInvariant, PTL

(* A message runs at most once and a card at most once: nothing is at the  *)
(* same time on the chain and among the follow-ups, the open cards or the  *)
(* continuations that wait, and an operation that gave its turn up does    *)
(* not return.                                                             *)
THEOREM OperationsRunOnce == RoomsSpec => []OnceInv
<1>1. RoomInv => OnceInv
  BY DEF RoomInv
<1> QED
  BY <1>1, RoomInvariant, PTL

LEMMA TurnsEndByThemselves ==
  ASSUME RoomsNext, NEW t \in live \ live'
  PROVE  Reload \/ (~Soon /\ t \in Turns /\ (Completes(t) \/ SendRejects(t)))
<1> USE DEF turnVars
<1>1. ~Continuations
  BY DEF Continuations, Redrain, BeginOp, NextResponder, WaitStopped, EnterTurn, TurnStopped,
         TurnGivenUp, TurnSettled
<1>2. ~Person
  BY DEF Person, Send, Withdraw, SwitchTask, Card, Interrupt
<1>3. ~Elsewhere
  BY DEF Elsewhere, ElsewhereStarts, ElsewhereEnds, ElsewhereStalls, ElsewhereTimer,
         ElsewhereLateEnd, StrayVars
<1>4. ~Timers
  BY DEF Timers, WaitCap, DeadlineFires, Stall, ReleaseOwnership
<1>5. ~SetupEnds /\ ~BrowserEnds /\ ~Dispatch
  BY DEF SetupEnds, BrowserEnds, Dispatch
<1>6. \A u \in Turns : ~SendResolves(u) /\ ~SecondInterruptSettles(u)
  BY DEF SendResolves, SecondInterruptSettles
<1>7. \A u \in Turns : Completes(u) \/ SendRejects(u) => u = t
  BY DEF Completes, SendRejects
<1> QED
  BY <1>1, <1>2, <1>3, <1>4, <1>5, <1>6, <1>7 DEF RoomsNext, Provider

(* The late completion of a turn that was given up moves nothing of the    *)
(* room (abandonProviderTurn, consumeProviderEvent); only a fleet reload,  *)
(* which ends every turn, does.                                            *)
THEOREM LateCompletionIsHarmless == RoomsSpec => GivenUpTurnNeverSettlesRoom
<1>1. ASSUME RoomInv, RoomsNext, NEW t \in abandoned, t \in live \ live', ~Reload
      PROVE  UNCHANGED <<roomVars, busy, body, watch>>
  <2>1. t \in Turns /\ (Completes(t) \/ SendRejects(t))
    BY <1>1, TurnsEndByThemselves
  <2>2. CASE Completes(t)
    <3>1. EventIgnored(t)
      <4>1. SUFFICES ASSUME ~EventIgnored(t) PROVE FALSE
        OBVIOUS
      <4>2. At("sent") /\ Turn = t /\ chain # <<>>
        BY <1>1, <4>1, HeardIsAwaited DEF RoomInv
      <4>3. chain[1] = t[1] /\ 1 \in DOMAIN chain
        BY <1>1, <4>2 DEF Turn, Op, RoomInv, TypeInv, RoomsTypeOK
      <4>4. GivenUp
        BY <1>1, <4>3 DEF RoomInv, OnceInv, GivenUpIsOver
      <4> QED
        BY <4>2, <4>4 DEF GivenUp, At
    <3> QED
      BY <2>2, <3>1 DEF Completes, botVars
  <2>3. CASE SendRejects(t)
    BY <1>1, <2>3 DEF SendRejects, botVars
  <2> QED
    BY <2>1, <2>2, <2>3
<1>2. RoomInv /\ [RoomsNext]_roomsVars
        => [\A t \in abandoned : t \in live \ live'
              => Reload \/ UNCHANGED <<roomVars, busy, body, watch>>]_roomsVars
  BY <1>1
<1> QED
  BY <1>2, RoomInvariant, PTL DEF RoomsSpec, GivenUpTurnNeverSettlesRoom

LEMMA TurnsBeginAtDispatch ==
  ASSUME RoomsNext, NEW t \in live' \ live
  PROVE  Dispatch
<1> USE DEF turnVars
<1>1. ~Continuations
  BY DEF Continuations, Redrain, BeginOp, NextResponder, WaitStopped, EnterTurn, TurnStopped,
         TurnGivenUp, TurnSettled
<1>2. ~Person
  BY DEF Person, Send, Withdraw, SwitchTask, Card, Interrupt
<1>3. ~Elsewhere
  BY DEF Elsewhere, ElsewhereStarts, ElsewhereEnds, ElsewhereStalls, ElsewhereTimer,
         ElsewhereLateEnd, StrayVars
<1>4. ~Timers
  BY DEF Timers, WaitCap, DeadlineFires, Stall, ReleaseOwnership
<1>5. ~SetupEnds /\ ~BrowserEnds
  BY DEF SetupEnds, BrowserEnds
<1>6. \A u \in Turns : ~SendResolves(u) /\ ~SecondInterruptSettles(u)
                       /\ ~Completes(u) /\ ~SendRejects(u)
  BY DEF SendResolves, SecondInterruptSettles, Completes, SendRejects
<1>7. ~Reload
  BY DEF Reload
<1> QED
  BY <1>1, <1>2, <1>3, <1>4, <1>5, <1>6, <1>7 DEF RoomsNext, Provider

(* Once Stop has returned no operation it cancelled sends a turn           *)
(* (waitForClear looks at the operation again before sendTurn).            *)
THEOREM StopIsFinal == RoomsSpec => StoppedRoundSendsNothing
<1>1. ASSUME RoomsNext, NEW t \in live' \ live
      PROVE  t[1] \notin cancelled
  BY <1>1, TurnsBeginAtDispatch DEF Dispatch, Dispatchable, OpCancelled, Turn
<1>2. [RoomsNext]_roomsVars => [\A t \in live' \ live : t[1] \notin cancelled]_roomsVars
  BY <1>1
<1> QED
  BY <1>2, PTL DEF RoomsSpec, StoppedRoundSendsNothing
------------------------------------------------------------------------------
(* Follow-ups. *)

LEMMA WaitersStay ==
  ASSUME TypeInv, IdleRoomHasNoFollowUps, UNCHANGED <<queue, redrain>>,
         chain # <<>> => chain' # <<>>, lapsed => lapsed',
         RoomWorking /\ busyBot' = None => chain # <<>> \/ lapsed'
  PROVE  IdleRoomHasNoFollowUps'
BY DEF IdleRoomHasNoFollowUps, RoomWorking, Queued

LEMMA DrainKeepsWorking ==
  ASSUME TypeInv, NEW fr \in SUBSET Bots, NEW woken \in MayWake(fr), Drain(fr, woken)
  PROVE  chain # <<>> => chain' # <<>>
BY DrainTyped

LEMMA EndOpDrains ==
  ASSUME NEW c, EndOp(c)
  PROVE  IdleRoomHasNoFollowUps'
BY DEF EndOp, IdleRoomHasNoFollowUps

LEMMA PersonKeepsFollowUps ==
  ASSUME TypeInv, IdleRoomHasNoFollowUps, Person
  PROVE  IdleRoomHasNoFollowUps'
<1>1. ASSUME NEW s \in Sends, Send(s)
      PROVE  IdleRoomHasNoFollowUps'
  <2>1. s \in Ops /\ UNCHANGED <<busyBot, redrain, lapsed>>
    BY <1>1 DEF Ops, Send, roomVars, otherVars
  <2>2. CASE RoomWorking /\ UNCHANGED chain
    BY <2>1, <2>2 DEF IdleRoomHasNoFollowUps, RoomWorking
  <2>3. CASE ~RoomWorking /\ UNCHANGED queue
    BY <2>1, <2>3 DEF IdleRoomHasNoFollowUps, RoomWorking, Queued
  <2> QED
    BY <1>1, <2>2, <2>3 DEF Send
<1>2. ASSUME NEW s \in Sends, Withdraw(s)
      PROVE  IdleRoomHasNoFollowUps'
  <2>1. PICK th \in Threads : \E i \in DOMAIN queue[th] : queue[th][i] = s
    BY <1>2 DEF Withdraw
  <2>2. queue[th] # <<>>
    BY <2>1
  <2>3. Queued # {}
    BY <2>2 DEF Queued
  <2> QED
    BY <1>2, <2>3 DEF Withdraw, IdleRoomHasNoFollowUps, RoomWorking, roundVars, roomVars, otherVars
<1>3. ASSUME NEW th \in Threads, SwitchTask(th)
      PROVE  IdleRoomHasNoFollowUps'
  BY <1>3 DEF SwitchTask, IdleRoomHasNoFollowUps, RoomWorking, Queued, roundVars, roomVars, followVars
<1>4. ASSUME NEW c \in Cards, Card(c)
      PROVE  IdleRoomHasNoFollowUps'
  <2>1. chain # <<>> => chain' # <<>>
    <3>1. c \in Ops
      BY DEF Ops
    <3> QED
      BY <1>4, <3>1, ChainAppends DEF Card
  <2> QED
    BY <1>4, <2>1, WaitersStay DEF Card, roomVars, followVars, RoomWorking
<1>5. ASSUME NEW ths \in SUBSET Threads, Interrupt(ths)
      PROVE  IdleRoomHasNoFollowUps'
  BY <1>5 DEF Interrupt, IdleRoomHasNoFollowUps, RoomWorking, Queued, roomVars, followVars
<1> QED
  BY <1>1, <1>2, <1>3, <1>4, <1>5 DEF Person

LEMMA ContinuationsKeepFollowUps ==
  ASSUME TypeInv, IdleRoomHasNoFollowUps, Continuations
  PROVE  IdleRoomHasNoFollowUps'
<1> USE DEF roomVars, followVars, otherVars, botVars
<1>1. CASE Redrain
  BY <1>1 DEF Redrain, IdleRoomHasNoFollowUps, RoomWorking, Queued
<1>2. CASE BeginOp
  <2>1. CASE UNCHANGED <<chain, redrain, lapsed>>
    BY <1>2, <2>1 DEF BeginOp, At, IdleRoomHasNoFollowUps, RoomWorking
  <2> QED
    BY <1>2, <2>1, EndOpDrains DEF BeginOp
<1>3. CASE NextResponder
  <2>1. CASE UNCHANGED <<chain, redrain, lapsed>>
    BY <1>3, <2>1 DEF NextResponder, At, IdleRoomHasNoFollowUps, RoomWorking
  <2> QED
    BY <1>3, <2>1, EndOpDrains DEF NextResponder
<1>4. CASE WaitStopped \/ TurnGivenUp
  BY <1>4, EndOpDrains DEF WaitStopped, TurnGivenUp
<1>5. CASE EnterTurn
  <2>1. CASE UNCHANGED <<chain, redrain, lapsed>>
    BY <1>5, <2>1 DEF EnterTurn, At, IdleRoomHasNoFollowUps, RoomWorking
  <2> QED
    BY <1>5, <2>1, EndOpDrains DEF EnterTurn
<1>6. CASE TurnStopped \/ TurnSettled
  <2>1. chain # <<>>
    BY <1>6 DEF TurnStopped, TurnSettled, At
  <2>2. chain' # <<>>
    <3>1. \A fr : busy \cap fr \in SUBSET Bots /\ {} \in SUBSET Bots
      BY DEF TypeInv, RoomsTypeOK
    <3>2. CASE TurnStopped
      BY <2>1, <3>1, <3>2, DrainKeepsWorking DEF TurnStopped
    <3>3. CASE TurnSettled
      BY <2>1, <3>1, <3>3, DrainKeepsWorking DEF TurnSettled
    <3> QED
      BY <1>6, <3>2, <3>3
  <2> QED
    BY <2>2 DEF IdleRoomHasNoFollowUps, RoomWorking
<1> QED
  BY <1>1, <1>2, <1>3, <1>4, <1>5, <1>6 DEF Continuations

LEMMA EventsKeepFollowUps ==
  ASSUME RoomInv, IdleRoomHasNoFollowUps, Elsewhere \/ Provider \/ Timers \/ Reload
  PROVE  IdleRoomHasNoFollowUps'
<1> USE DEF RoomInv, roundVars, roomVars, followVars, otherVars, botVars
<1>1. CASE Elsewhere \/ Reload
  <2>1. UNCHANGED <<queue, redrain, lapsed, busyBot>>
    BY <1>1, OutsideSteps
  <2>2. chain # <<>> => chain' # <<>>
    BY <1>1, OutsideSteps, IdledFacts
  <2> QED
    BY <2>1, <2>2, WaitersStay DEF RoomWorking
<1>2. CASE SetupEnds
  BY <1>2, EndOpDrains, WaitersStay DEF SetupEnds, RoomWorking
<1>3. CASE BrowserEnds
  BY <1>3, EndOpDrains, WaitersStay DEF BrowserEnds, At
<1>4. CASE Dispatch
  BY <1>4, EndOpDrains, WaitersStay DEF Dispatch, At
<1>5. ASSUME NEW t \in Turns, SendResolves(t) \/ SendRejects(t) \/ SecondInterruptSettles(t)
      PROVE  IdleRoomHasNoFollowUps'
  BY <1>5, WaitersStay DEF SendResolves, SendRejects, SecondInterruptSettles, RoomWorking
<1>6. ASSUME NEW t \in Turns, Completes(t)
      PROVE  IdleRoomHasNoFollowUps'
  <2>1. UNCHANGED <<queue, redrain, lapsed>>
    BY <1>6 DEF Completes
  <2>2. CASE EventIgnored(t)
    BY <1>6, <2>1, <2>2, WaitersStay DEF Completes, RoomWorking
  <2>3. CASE ~EventIgnored(t)
    <3>1. chain # <<>> /\ ThreadOf(t) \in Threads
      BY <1>6, <2>3, HeardIsAwaited, HeadOfChain DEF Completes
    <3>2. chain' # <<>>
      BY <1>6, <2>3, <3>1, DrainKeepsWorking DEF Completes, TypeInv, RoomsTypeOK
    <3> QED
      BY <3>2 DEF IdleRoomHasNoFollowUps, RoomWorking
  <2> QED
    BY <2>2, <2>3
<1>7. CASE WaitCap \/ DeadlineFires
  BY <1>7, WaitersStay DEF WaitCap, DeadlineFires, RoomWorking
<1>8. ASSUME NEW th \in Threads, Stall(th)
      PROVE  IdleRoomHasNoFollowUps'
  BY <1>8, WaitersStay DEF Stall, RoomWorking
<1>9. ASSUME NEW t \in Turns, ReleaseOwnership(t)
      PROVE  IdleRoomHasNoFollowUps'
  <2>1. busy \cap {t[2]} \in SUBSET Bots
    BY DEF TypeInv, RoomsTypeOK
  <2>2. chain # <<>> => chain' # <<>>
    BY <1>9, <2>1, DrainKeepsWorking DEF ReleaseOwnership
  <2>3. UNCHANGED <<queue, redrain>> /\ (UNCHANGED <<busyBot, lapsed>> \/ lapsed' = TRUE)
    BY <1>9 DEF ReleaseOwnership
  <2> QED
    BY <2>2, <2>3, WaitersStay DEF RoomWorking
<1> QED
  BY <1>1, <1>2, <1>3, <1>4, <1>5, <1>6, <1>7, <1>8, <1>9 DEF Elsewhere, Provider, Timers

(* A follow-up waits only while the room works or a drain is due, unless a *)
(* grace timer freed the room (finishGroupTurnOperation and                *)
(* drainChannelMessages).                                                  *)
THEOREM FollowUpsAreDrained == RoomsSpec => []IdleRoomHasNoFollowUps
<1>1. RoomsInit => IdleRoomHasNoFollowUps
  BY DEF RoomsInit, IdleRoomHasNoFollowUps, Queued
<1>2. RoomInv /\ IdleRoomHasNoFollowUps /\ [RoomsNext]_roomsVars => IdleRoomHasNoFollowUps'
  <2>1. CASE UNCHANGED roomsVars
    BY <2>1 DEF roomsVars, IdleRoomHasNoFollowUps, RoomWorking, Queued
  <2> QED
    BY <2>1, PersonKeepsFollowUps, ContinuationsKeepFollowUps, EventsKeepFollowUps
       DEF RoomsNext, RoomInv
<1> QED
  BY <1>1, <1>2, RoomInvariant, PTL DEF RoomsSpec
============================================================================
