------------------------- MODULE DirectTurnProofs -------------------------
(***************************************************************************)
(* What holds of DirectTurn for every set of tasks, turns and messages,    *)
(* every bound and, unless a theorem says otherwise, every behaviour of    *)
(* the environment.                                                        *)
(***************************************************************************)
EXTENDS DirectTurn, TLAPS

Claims == [id : Turns \cup {None}, phase : {"setup", "dispatching"}]
Gens == [Threads -> Turns \cup {None}]
Counts == [stops : 0..MaxStops, stalls : 0..MaxStalls, resumes : 0..MaxResumes]

(* A turn that was not started has left no trace, one that was not         *)
(* dispatched has reached no provider, and a started one has a task.       *)
Started ==
  /\ \A t \in Turns : pc[t] = "none" => t \notin cancelled /\ t \notin pending
  /\ \A t \in Turns : pc[t] \in {"none", "setup", "waiting"} =>
       provider[t] = "none" /\ <<t, 1>> \notin retired
  /\ \A t \in Turns : pc[t] # "none" => turnThread[t] \in Threads
  /\ claim.id # None => pc[claim.id] # "none"

TypeInv == TypeOK /\ Started

(* The parts of TypeInv that a step which may start a turn has to keep. *)
DispatchTyped ==
  /\ activity \in Activities /\ claim \in Claims
  /\ latest \in Turns \cup {None}
  /\ turnThread \in [Turns -> Threads \cup {None}]
  /\ pc \in [Turns -> Pcs]
  /\ activeGen \in Gens /\ bound \subseteq Turns
  /\ \A t \in Turns : pc[t] # "none" => turnThread[t] \in Threads
  /\ claim.id # None => pc[claim.id] # "none"

WaitingTyped ==
  /\ queue \in [Threads -> Seq(Words)]
  /\ resumes \subseteq Threads \X ResumeKinds
  /\ fate \in [Words -> Fates] /\ into \in [Words -> Turns \cup {None}]

(* p may stand for pc in a step that starts a turn afterwards. *)
SameProgress(p) ==
  /\ p \in [Turns -> Pcs]
  /\ \A u \in Turns : /\ p[u] = "none" <=> pc[u] = "none"
                      /\ p[u] \in {"setup", "waiting"} => pc[u] \in {"setup", "waiting"}

(* pc only moves on, except that the turn a step begins is in its setup. *)
Onwards ==
  \A u \in Turns : pc'[u] \in {"none", "setup", "waiting"} =>
                     pc[u] \in {"none", "setup", "waiting"}

StaysUnstarted == \A u \in Turns : pc'[u] = "none" => pc[u] = "none"

(* A turn that begins is a new one, on a task of the bot. *)
LEMMA BeginStarts ==
  ASSUME TypeInv, NEW t \in Turns, NEW th \in Threads, NEW p, SameProgress(p),
         NEW gens \in Gens, NEW bnd \in SUBSET Turns,
         Begin(t, th, p, gens, bnd)
  PROVE  DispatchTyped' /\ Onwards /\ StaysUnstarted /\ pc[t] = "none"
<1>1. pc' = [p EXCEPT ![t] = "setup"] /\ pc' \in [Turns -> Pcs] /\ pc[t] = "none"
  BY DEF Begin, Pcs, SameProgress
<1>2. turnThread' = [turnThread EXCEPT ![t] = th]
      /\ turnThread' \in [Turns -> Threads \cup {None}]
  BY DEF Begin, TypeInv, TypeOK
<1>3. activeGen' \in Gens
  BY DEF Begin, Gens
<1>4. /\ claim' \in Claims /\ claim'.id = t /\ latest' = t
      /\ activity' \in Activities /\ bound' \subseteq Turns
  BY DEF Begin, Claims, Activities
<1>5. \A u \in Turns : pc'[u] # "none" => turnThread'[u] \in Threads
  BY <1>1, <1>2 DEF TypeInv, TypeOK, Started, SameProgress
<1>6. Onwards /\ StaysUnstarted /\ pc'[t] # "none"
  BY <1>1 DEF Onwards, StaysUnstarted, SameProgress
<1> QED
  BY <1>1, <1>2, <1>3, <1>4, <1>5, <1>6 DEF DispatchTyped

(* A release of the bot ends in the activity it was given, or in a turn    *)
(* that begins with words or a continuation that waited.                   *)
LEMMA DrainMoves ==
  ASSUME TypeInv, NEW kinds, NEW p, SameProgress(p), NEW cl, NEW gens, NEW bnd, NEW act,
         Drain(kinds, p, cl, gens, bnd, act)
  PROVE  /\ WaitingTyped'
         /\ \/ Rest(p, cl, gens, bnd, act)
            \/ \E t \in Turns, th \in Threads : Begin(t, th, p, gens, bnd)
<1> USE DEF TypeInv, TypeOK, WaitingTyped
<1>1. ASSUME ~gate, Rest(p, cl, gens, bnd, act), UNCHANGED into,
             queue' = [th \in Threads |-> <<>>],
             fate' = [w \in Words |-> IF w \in QueuedWords THEN "refused" ELSE fate[w]],
             resumes' \subseteq resumes
      PROVE  WaitingTyped' /\ Rest(p, cl, gens, bnd, act)
  <2>1. queue' \in [Threads -> Seq(Words)]
    BY <1>1
  <2>2. fate' \in [Words -> Fates]
    BY <1>1 DEF Fates
  <2> QED
    BY <1>1, <2>1, <2>2
<1>2. CASE gate /\ Rest(p, cl, gens, bnd, act) /\ UNCHANGED waitingVars
  BY <1>2 DEF waitingVars
<1>3. ASSUME NEW th \in QueuedThreads, NEW t \in Turns, gate,
             Begin(t, th, p, gens, bnd), Hand(ItemsOf(queue[th]), t), TakeQueue(th),
             UNCHANGED resumes
      PROVE  /\ WaitingTyped'
             /\ \E u \in Turns, h \in Threads : Begin(u, h, p, gens, bnd)
  <2>1. th \in Threads /\ queue' \in [Threads -> Seq(Words)]
    BY <1>3 DEF QueuedThreads, TakeQueue
  <2>2. fate' \in [Words -> Fates] /\ into' \in [Words -> Turns \cup {None}]
    BY <1>3 DEF Hand, Fates
  <2> QED
    BY <1>3, <2>1, <2>2
<1>4. ASSUME NEW c \in resumes, NEW t \in Turns, gate,
             Begin(t, c[1], p, gens, bnd), resumes' = resumes \ {c},
             UNCHANGED <<queue, fate, into>>
      PROVE  /\ WaitingTyped'
             /\ \E u \in Turns, h \in Threads : Begin(u, h, p, gens, bnd)
  BY <1>4
<1> QED
  BY <1>1, <1>2, <1>3, <1>4 DEF Drain

(* Both ends of a release keep the variables of dispatch well-formed. *)
LEMMA DrainTyped ==
  ASSUME TypeInv, NEW kinds, NEW p, SameProgress(p), NEW cl \in Claims,
         cl.id # None => p[cl.id] # "none",
         NEW gens \in Gens, NEW bnd \in SUBSET Turns, NEW act \in Activities,
         Drain(kinds, p, cl, gens, bnd, act)
  PROVE  WaitingTyped' /\ DispatchTyped' /\ Onwards /\ StaysUnstarted
<1>1. CASE Rest(p, cl, gens, bnd, act)
  BY <1>1, DrainMoves
     DEF Rest, DispatchTyped, Onwards, StaysUnstarted, TypeInv, TypeOK, Started, SameProgress
<1>2. CASE \E t \in Turns, th \in Threads : Begin(t, th, p, gens, bnd)
  BY <1>2, DrainMoves, BeginStarts
<1> QED
  BY <1>1, <1>2, DrainMoves
------------------------------------------------------------------------------
LEMMA TypeInit == Init => TypeInv
<1> SUFFICES ASSUME Init PROVE TypeInv
  OBVIOUS
<1>1. TypeOK
  BY NoneAssumption, BoundsAssumption
     DEF Init, TypeOK, NoClaim, Activities, Pcs, Fates, ResumeKinds, ProviderIds
<1>2. Started
  BY NoneAssumption DEF Init, Started, NoClaim
<1> QED
  BY <1>1, <1>2 DEF TypeInv

(* The bot is free: a message or a continuation starts a turn at once.     *)
LEMMA BeginTyped ==
  ASSUME TypeInv, NEW t \in Turns, NEW th \in Threads,
         Begin(t, th, pc, activeGen, bound)
  PROVE  DispatchTyped' /\ Onwards /\ StaysUnstarted
<1> SameProgress(pc) /\ activeGen \in Gens /\ bound \in SUBSET Turns
  BY DEF SameProgress, TypeInv, TypeOK, Gens
<1> QED
  BY BeginStarts

(* What is left to show once the variables of dispatch and the waiting     *)
(* work are known to be well-formed.                                       *)
OthersTyped ==
  /\ current \in Threads /\ gate \in BOOLEAN
  /\ provider \in [Turns -> {"none", "pending", "live", "rejected", "done"}]
  /\ adapter \in [Threads -> Turns \cup {None}]
  /\ interrupted \subseteq Turns /\ relaunched \subseteq Turns
  /\ openAsks \in [Turns -> 0..MaxAsks]
  /\ retired \subseteq ProviderIds /\ pending \subseteq Turns
  /\ completed \subseteq ProviderIds
  /\ watch \in [Threads -> {"off", "on", "human"}]
  /\ grace \subseteq [thread : Threads, turn : Turns \cup {None}]
  /\ stops \subseteq [thread : Threads, turn : Turns \cup {None}]
  /\ steering \subseteq Words \X Threads /\ cancelled \subseteq Turns
  /\ used \in Counts
  /\ \A t \in Turns : pc[t] = "none" => t \notin cancelled /\ t \notin pending
  /\ \A t \in Turns : pc[t] \in {"none", "setup", "waiting"} =>
       provider[t] = "none" /\ <<t, 1>> \notin retired

LEMMA TypeParts == TypeInv <=> DispatchTyped /\ WaitingTyped /\ OthersTyped
BY DEF TypeInv, TypeOK, Started, DispatchTyped, WaitingTyped, OthersTyped, Claims, Gens, Counts

LEMMA TypePartsNext ==
  DispatchTyped' /\ WaitingTyped' /\ OthersTyped' => TypeInv'
BY DEF TypeInv, TypeOK, Started, DispatchTyped, WaitingTyped, OthersTyped, Claims, Gens, Counts

(* A bound that is not spent yet can be spent once more.                   *)
LEMMA CountsGrow ==
  ASSUME used \in Counts
  PROVE  /\ used.stops < MaxStops => [used EXCEPT !.stops = @ + 1] \in Counts
         /\ used.stalls < MaxStalls => [used EXCEPT !.stalls = @ + 1] \in Counts
         /\ used.resumes < MaxResumes => [used EXCEPT !.resumes = @ + 1] \in Counts
<1>1. MaxStops \in Nat /\ MaxStalls \in Nat /\ MaxResumes \in Nat
  BY BoundsAssumption
<1>2. /\ used.stops \in 0..MaxStops /\ used.stalls \in 0..MaxStalls
      /\ used.resumes \in 0..MaxResumes
  BY DEF Counts
<1>3. /\ used.stops < MaxStops => used.stops + 1 \in 0..MaxStops
      /\ used.stalls < MaxStalls => used.stalls + 1 \in 0..MaxStalls
      /\ used.resumes < MaxResumes => used.resumes + 1 \in 0..MaxResumes
  BY <1>1, <1>2
<1> QED
  BY <1>3 DEF Counts

(* Steps of the person and of the rest of the harness.                     *)
LEMMA SendTyped ==
  ASSUME TypeInv, NEW w \in Words, Send(w)
  PROVE  TypeInv'
<1>1. DispatchTyped' /\ Onwards /\ StaysUnstarted
  <2>1. CASE \E t \in Turns : Begin(t, current, pc, activeGen, bound)
    BY <2>1, BeginTyped DEF TypeInv, TypeOK
  <2>2. CASE UNCHANGED dispatchVars
    BY <2>2, TypeParts DEF dispatchVars, DispatchTyped, Onwards, StaysUnstarted
  <2> QED
    BY <2>1, <2>2 DEF Send, dispatchVars
<1>2. WaitingTyped'
  <2> current \in Threads /\ adapter[current] \in Turns \cup {None} /\ WaitingTyped
    BY TypeParts DEF TypeInv, TypeOK
  <2>1. resumes' \subseteq Threads \X ResumeKinds
    BY DEF Send, WaitingTyped
  <2>2. queue' \in [Threads -> Seq(Words)]
    <3>1. Append(queue[current], w) \in Seq(Words)
      BY DEF WaitingTyped
    <3>2. queue' = queue \/ queue' = [queue EXCEPT ![current] = Append(queue[current], w)]
      BY DEF Send
    <3> QED
      BY <3>1, <3>2 DEF WaitingTyped
  <2>3. fate' \in [Words -> Fates]
    BY DEF Send, WaitingTyped, Fates, Hand
  <2>4. into' \in [Words -> Turns \cup {None}]
    BY DEF Send, WaitingTyped, Hand
  <2> QED
    BY <2>1, <2>2, <2>3, <2>4 DEF WaitingTyped
<1>3. steering' \subseteq Words \X Threads
  BY DEF Send, TypeInv, TypeOK
<1>4. OthersTyped'
  BY <1>1, <1>3, TypeParts
     DEF Send, OthersTyped, Onwards, StaysUnstarted, providerVars, quarantineVars
<1> QED
  BY <1>1, <1>2, <1>4, TypePartsNext

LEMMA SteerTyped ==
  ASSUME TypeInv, NEW w \in Words, NEW th \in Threads, SteerReturns(w, th)
  PROVE  TypeInv'
<1>1. DispatchTyped' /\ Onwards /\ StaysUnstarted
  <2>1. CASE \E t \in Turns : Begin(t, th, pc, activeGen, bound)
    BY <2>1, BeginTyped
  <2>2. CASE UNCHANGED dispatchVars
    BY <2>2, TypeParts DEF dispatchVars, DispatchTyped, Onwards, StaysUnstarted
  <2> QED
    BY <2>1, <2>2 DEF SteerReturns, dispatchVars
<1>2. WaitingTyped'
  <2> WaitingTyped
    BY TypeParts
  <2>1. resumes' \subseteq Threads \X ResumeKinds
    BY DEF SteerReturns, WaitingTyped
  <2>2. queue' \in [Threads -> Seq(Words)]
    <3>1. Append(queue[th], w) \in Seq(Words)
      BY DEF WaitingTyped
    <3>2. queue' = queue \/ queue' = [queue EXCEPT ![th] = Append(queue[th], w)]
      BY DEF SteerReturns
    <3> QED
      BY <3>1, <3>2 DEF WaitingTyped
  <2>3. fate' \in [Words -> Fates]
    BY DEF SteerReturns, WaitingTyped, Fates, Hand
  <2>4. into' \in [Words -> Turns \cup {None}]
    BY DEF SteerReturns, WaitingTyped, Hand
  <2> QED
    BY <2>1, <2>2, <2>3, <2>4 DEF WaitingTyped
<1>3. OthersTyped'
  BY <1>1, TypeParts
     DEF SteerReturns, TypeInv, TypeOK, OthersTyped, Onwards, StaysUnstarted, providerVars, quarantineVars
<1> QED
  BY <1>1, <1>2, <1>3, TypePartsNext

LEMMA CancelTyped ==
  ASSUME TypeInv, NEW w \in Words, CancelQueued(w)
  PROVE  TypeInv'
<1>1. WaitingTyped'
  <2>1. ASSUME NEW th \in Threads, NEW i \in DOMAIN queue[th]
        PROVE  SubSeq(queue[th], 1, i - 1) \o SubSeq(queue[th], i + 1, Len(queue[th])) \in Seq(Words)
    BY <2>1 DEF TypeInv, TypeOK
  <2>2. queue' \in [Threads -> Seq(Words)]
    BY <2>1 DEF CancelQueued, TypeInv, TypeOK
  <2>3. fate' \in [Words -> Fates]
    BY DEF CancelQueued, TypeInv, TypeOK, Fates
  <2> QED
    BY <2>2, <2>3 DEF CancelQueued, TypeInv, TypeOK, WaitingTyped
<1>2. DispatchTyped' /\ OthersTyped'
  BY TypeParts
     DEF CancelQueued, DispatchTyped, OthersTyped, dispatchVars, providerVars, quarantineVars
<1> QED
  BY <1>1, <1>2, TypePartsNext

LEMMA ResumeTyped ==
  ASSUME TypeInv, NEW th \in Threads, NEW k \in ResumeKinds, ResumeArrives(th, k)
  PROVE  TypeInv'
<1>1. DispatchTyped' /\ Onwards /\ StaysUnstarted
  <2>1. CASE \E t \in Turns : Begin(t, th, pc, activeGen, bound)
    BY <2>1, BeginTyped
  <2>2. CASE UNCHANGED dispatchVars
    BY <2>2, TypeParts DEF dispatchVars, DispatchTyped, Onwards, StaysUnstarted
  <2> QED
    BY <2>1, <2>2 DEF ResumeArrives, dispatchVars
<1>2. WaitingTyped'
  BY DEF ResumeArrives, TypeInv, TypeOK, WaitingTyped
<1>3. used' \in Counts
  BY CountsGrow DEF ResumeArrives, TypeInv, TypeOK, Counts
<1>4. OthersTyped'
  BY <1>1, <1>3, TypeParts
     DEF ResumeArrives, OthersTyped, Onwards, StaysUnstarted, providerVars, quarantineVars
<1> QED
  BY <1>1, <1>2, <1>4, TypePartsNext

LEMMA SwitchTyped ==
  ASSUME TypeInv, NEW th \in Threads, SwitchTask(th)
  PROVE  TypeInv'
BY TypeParts, TypePartsNext
   DEF SwitchTask, DispatchTyped, WaitingTyped, OthersTyped, dispatchVars, providerVars,
       quarantineVars, waitingVars

LEMMA GateTyped ==
  ASSUME TypeInv, ToggleGate
  PROVE  TypeInv'
BY TypeParts, TypePartsNext
   DEF ToggleGate, DispatchTyped, WaitingTyped, OthersTyped, dispatchVars, providerVars,
       quarantineVars, waitingVars

(***************************************************************************)
(* The asynchronous half of startTurn.                                     *)
(***************************************************************************)
LEMMA CatchTyped ==
  ASSUME TypeInv, NEW t \in Turns, pc[t] # "none", NEW kind \in {"cancelled", "failed"},
         CatchEntry(t, kind)
  PROVE  /\ DispatchTyped' /\ Onwards /\ StaysUnstarted
         /\ pending' \subseteq pending
<1>1. pc' = [pc EXCEPT ![t] = kind] /\ pc' \in [Turns -> Pcs]
  BY DEF CatchEntry, TypeInv, TypeOK, Pcs
<1>2. claim' \in Claims /\ (claim'.id # None => claim' = claim)
  BY NoneAssumption DEF CatchEntry, TypeInv, TypeOK, Claims, NoClaim
<1>3. activeGen' \in Gens /\ bound' \subseteq Turns
  BY DEF CatchEntry, RevokeGen, TypeInv, TypeOK, Gens
<1>4. Onwards /\ StaysUnstarted
  BY <1>1 DEF Onwards, StaysUnstarted, TypeInv, TypeOK
<1>5. \A u \in Turns : pc'[u] # "none" => pc[u] # "none"
  BY <1>1 DEF TypeInv, TypeOK
<1>6. /\ \A u \in Turns : pc'[u] # "none" => turnThread'[u] \in Threads
      /\ claim'.id # None => pc'[claim'.id] # "none"
  BY <1>1, <1>2, <1>4, <1>5 DEF CatchEntry, TypeInv, TypeOK, Started, StaysUnstarted
<1>7. pending' \subseteq pending
  BY DEF CatchEntry, Cleared
<1> QED
  BY <1>1, <1>2, <1>3, <1>4, <1>6, <1>7 DEF CatchEntry, DispatchTyped, TypeInv, TypeOK

LEMMA SetupEndsTyped ==
  ASSUME TypeInv, NEW t \in Turns, SetupEnds(t) \/ SetupFails(t)
  PROVE  TypeInv'
<1>1. DispatchTyped' /\ Onwards /\ StaysUnstarted /\ pending' \subseteq pending
  <2>1. CASE CatchEntry(t, "cancelled") \/ CatchEntry(t, "failed")
    BY <2>1, CatchTyped DEF SetupEnds, SetupFails
  <2>2. CASE /\ pc[t] = "setup" /\ pc' = [pc EXCEPT ![t] = "waiting"]
             /\ UNCHANGED <<activity, claim, latest, turnThread, activeGen, bound, pending>>
    BY <2>2 DEF TypeInv, TypeOK, Started, DispatchTyped, Onwards, StaysUnstarted, Pcs, Claims, Gens
  <2> QED
    BY <2>1, <2>2 DEF SetupEnds, SetupFails
<1>2. WaitingTyped' /\ OthersTyped'
  BY <1>1, TypeParts
     DEF SetupEnds, SetupFails, WaitingTyped, OthersTyped, Onwards, StaysUnstarted,
         providerVars, waitingVars
<1> QED
  BY <1>1, <1>2, TypePartsNext

LEMMA DispatchStepTyped ==
  ASSUME TypeInv, NEW t \in Turns, Dispatch(t)
  PROVE  TypeInv'
<1>1. turnThread[t] \in Threads /\ pc[t] = "waiting" /\ TypeInv
  BY DEF Dispatch, TypeInv, Started
<1>2. CASE ~ClaimIsCurrent(t)
  <2>1. CatchEntry(t, "cancelled")
    BY <1>2 DEF Dispatch
  <2>2. DispatchTyped' /\ Onwards /\ StaysUnstarted /\ pending' \subseteq pending
    BY <1>1, <2>1, CatchTyped
  <2>3. WaitingTyped' /\ OthersTyped'
    BY <1>2, <2>2, TypeParts
       DEF Dispatch, WaitingTyped, OthersTyped, Onwards, StaysUnstarted, waitingVars
  <2> QED
    BY <2>2, <2>3, TypePartsNext
<1>3. CASE ClaimIsCurrent(t)
  <2>1. DispatchTyped' /\ pc' = [pc EXCEPT ![t] = "sending"]
    <3>1. pc' = [pc EXCEPT ![t] = "sending"] /\ pc' \in [Turns -> Pcs]
      BY <1>1, <1>3 DEF Dispatch, TypeInv, TypeOK, Pcs
    <3>2. claim' \in Claims /\ claim'.id = claim.id
      BY <1>1, <1>3 DEF Dispatch, TypeInv, TypeOK, Claims
    <3>3. UNCHANGED <<activity, latest, turnThread, activeGen, bound>>
      BY <1>3 DEF Dispatch
    <3>4. \A u \in Turns : pc'[u] # "none" <=> pc[u] # "none"
      BY <1>1, <3>1 DEF TypeInv, TypeOK
    <3> QED
      BY <3>1, <3>2, <3>3, <3>4 DEF TypeInv, TypeOK, Started, DispatchTyped, Gens
  <2>2. provider' \in [Turns -> {"none", "pending", "live", "rejected", "done"}]
    BY <1>1, <1>3 DEF Dispatch, TypeInv, TypeOK
  <2>3. watch' \in [Threads -> {"off", "on", "human"}]
    BY <1>1, <1>3 DEF Dispatch, WatchTurn, TypeInv, TypeOK
  <2>4. \A u \in Turns : pc'[u] \in {"none", "setup", "waiting"} =>
          pc'[u] = pc[u] /\ provider'[u] = provider[u]
    BY <1>1, <1>3, <2>1 DEF Dispatch, TypeInv, TypeOK
  <2>5. WaitingTyped' /\ OthersTyped'
    BY <1>3, <2>2, <2>3, <2>4, TypeParts
       DEF Dispatch, WaitingTyped, OthersTyped, waitingVars
  <2> QED
    BY <2>1, <2>5, TypePartsNext
<1> QED
  BY <1>2, <1>3

(* Stopping a thread marks turns only. *)
LEMMA InterruptTyped ==
  ASSUME TypeInv, NEW th \in Threads, Interrupt(th)
  PROVE  interrupted' \subseteq Turns
BY DEF Interrupt, TypeInv, TypeOK

LEMMA SendResolvesTyped ==
  ASSUME TypeInv, NEW t \in Turns, SendResolves(t)
  PROVE  TypeInv'
<1>1. turnThread[t] \in Threads /\ pc[t] = "sending"
  BY DEF SendResolves, TypeInv, Started
<1>2. interrupted' \subseteq Turns
  BY <1>1, InterruptTyped DEF SendResolves, SecondInterrupt, TypeInv, TypeOK
<1>3. claim' \in Claims /\ (claim'.id # None => claim' = claim)
  BY DEF SendResolves, TypeInv, TypeOK, Claims, NoClaim
<1>4. activeGen' \in Gens /\ bound' \subseteq Turns
  BY DEF SendResolves, RevokeGen, TypeInv, TypeOK, Gens
<1>5. /\ pc' \in [Turns -> Pcs] /\ Onwards /\ StaysUnstarted
      /\ \A u \in Turns : pc'[u] # "none" => pc[u] # "none"
  BY <1>1 DEF SendResolves, TypeInv, TypeOK, Pcs, Onwards, StaysUnstarted
<1>6. DispatchTyped'
  BY <1>3, <1>4, <1>5
     DEF SendResolves, TypeInv, TypeOK, Started, DispatchTyped, StaysUnstarted
<1>7. WaitingTyped' /\ OthersTyped'
  BY <1>2, <1>5, TypeParts
     DEF SendResolves, WaitingTyped, OthersTyped, Onwards, StaysUnstarted, quarantineVars, waitingVars
<1> QED
  BY <1>6, <1>7, TypePartsNext

LEMMA SendRejectsTyped ==
  ASSUME TypeInv, NEW t \in Turns, SendRejects(t)
  PROVE  TypeInv'
<1>1. pc[t] = "sending" /\ CatchEntry(t, "failed") /\ TypeInv
  BY DEF SendRejects
<1>2. DispatchTyped' /\ Onwards /\ StaysUnstarted /\ pending' \subseteq pending
  BY <1>1, CatchTyped
<1>3. /\ provider' \in [Turns -> {"none", "pending", "live", "rejected", "done"}]
      /\ \A u \in Turns : pc[u] \in {"none", "setup", "waiting"} => provider'[u] = provider[u]
  BY <1>1 DEF SendRejects, TypeInv, TypeOK
<1>4. WaitingTyped' /\ OthersTyped'
  BY <1>2, <1>3, TypeParts
     DEF SendRejects, WaitingTyped, OthersTyped, Onwards, StaysUnstarted, waitingVars
<1> QED
  BY <1>2, <1>4, TypePartsNext

LEMMA GuardStopTyped ==
  ASSUME TypeInv, NEW t \in Turns, GuardStopReturns(t)
  PROVE  TypeInv'
<1>1. pc[t] = "stopping" /\ CatchEntry(t, "cancelled") /\ TypeInv
  BY DEF GuardStopReturns
<1>2. DispatchTyped' /\ Onwards /\ StaysUnstarted /\ pending' \subseteq pending
  BY <1>1, CatchTyped
<1>3. /\ retired' \subseteq ProviderIds
      /\ \A u \in Turns : pc[u] \in {"none", "setup", "waiting"} =>
            (<<u, 1>> \in retired' <=> <<u, 1>> \in retired)
  BY <1>1 DEF GuardStopReturns, TypeInv, TypeOK, ProviderIds
<1>4. WaitingTyped' /\ OthersTyped'
  BY <1>2, <1>3, TypeParts
     DEF GuardStopReturns, WaitingTyped, OthersTyped, Onwards, StaysUnstarted, providerVars, waitingVars
<1> QED
  BY <1>2, <1>4, TypePartsNext

LEMMA CatchEndsTyped ==
  ASSUME TypeInv, NEW t \in Turns, CatchEnds(t)
  PROVE  TypeInv'
<1> DEFINE p == [pc EXCEPT ![t] = "done"]
<1>1. SameProgress(p) /\ pc[t] \in {"cancelled", "failed"} /\ TypeInv
  BY DEF CatchEnds, SameProgress, TypeInv, TypeOK, Pcs
<1>2. turnThread[t] \in Threads
  BY <1>1 DEF TypeInv, Started
<1>3. WaitingTyped' /\ DispatchTyped' /\ Onwards /\ StaysUnstarted
  <2>1. CASE Drain(CatchKinds, p, claim, activeGen, bound, AfterCatch(t))
    <3>1. /\ claim \in Claims /\ activeGen \in Gens /\ bound \in SUBSET Turns
          /\ AfterCatch(t) \in Activities
      BY DEF TypeInv, TypeOK, Claims, Gens, AfterCatch, Activities
    <3>2. claim.id # None => p[claim.id] # "none"
      BY <1>1 DEF TypeInv, TypeOK, Started
    <3> QED
      BY <1>1, <2>1, <3>1, <3>2, DrainTyped
  <2>2. CASE /\ pc' = p
             /\ UNCHANGED <<activity, claim, latest, turnThread, activeGen, bound, watch, waitingVars>>
    BY <1>1, <2>2
       DEF SameProgress, TypeInv, TypeOK, Started, WaitingTyped, DispatchTyped, Onwards,
           StaysUnstarted, waitingVars, Claims, Gens
  <2> QED
    BY <2>1, <2>2 DEF CatchEnds
<1>4. watch' \in [Threads -> {"off", "on", "human"}]
  BY <1>2 DEF CatchEnds, TypeInv, TypeOK
<1>5. OthersTyped'
  BY <1>3, <1>4, TypeParts
     DEF CatchEnds, OthersTyped, Onwards, StaysUnstarted, providerVars, quarantineVars
<1> QED
  BY <1>3, <1>5, TypePartsNext

(***************************************************************************)
(* The provider.  A turn whose provider has something to say was           *)
(* dispatched, so the ids an event retires are not those of a turn that    *)
(* has still to start.                                                     *)
(***************************************************************************)
LEMMA RevealTyped ==
  ASSUME TypeInv, NEW t \in Turns, provider[t] # "none"
  PROVE  /\ turnThread[t] \in Threads
         /\ retired \cup Revealed(t) \subseteq ProviderIds
         /\ \A u \in Turns : pc[u] \in {"none", "setup", "waiting"} =>
              u # t /\ <<u, 1>> \notin retired \cup Revealed(t)
<1>1. pc[t] \notin {"none", "setup", "waiting"}
  BY DEF TypeInv, TypeOK, Started
<1> QED
  BY <1>1 DEF TypeInv, TypeOK, Started, Revealed, IdOf, ProviderIds

LEMMA ProviderStartsTyped ==
  ASSUME TypeInv, NEW t \in Turns, ProviderStarts(t)
  PROVE  TypeInv'
<1>1. provider[t] # "none" /\ TypeInv
  BY DEF ProviderStarts
<1>2. /\ adapter' \in [Threads -> Turns \cup {None}]
      /\ provider' \in [Turns -> {"none", "pending", "live", "rejected", "done"}]
      /\ \A u \in Turns : u # t => provider'[u] = provider[u]
  BY DEF ProviderStarts, TypeInv, TypeOK
<1>3. DispatchTyped' /\ WaitingTyped' /\ OthersTyped'
  BY <1>1, <1>2, RevealTyped, TypeParts
     DEF ProviderStarts, DispatchTyped, WaitingTyped, OthersTyped, dispatchVars, waitingVars
<1> QED
  BY <1>3, TypePartsNext

LEMMA RelaunchTyped ==
  ASSUME TypeInv, NEW t \in Turns, Relaunch(t)
  PROVE  TypeInv'
<1>1. provider[t] # "none" /\ TypeInv
  BY DEF Relaunch, Running
<1>2. /\ retired' \subseteq ProviderIds /\ relaunched' \subseteq Turns
      /\ \A u \in Turns : u # t => (<<u, 1>> \in retired' <=> <<u, 1>> \in retired)
  BY DEF Relaunch, TypeInv, TypeOK, ProviderIds
<1>3. DispatchTyped' /\ WaitingTyped' /\ OthersTyped'
  BY <1>1, <1>2, RevealTyped, TypeParts
     DEF Relaunch, DispatchTyped, WaitingTyped, OthersTyped, dispatchVars, waitingVars
<1> QED
  BY <1>3, TypePartsNext

LEMMA AskAnswerTyped ==
  ASSUME TypeInv, NEW t \in Turns, Ask(t) \/ Answer(t)
  PROVE  TypeInv'
<1>1. provider[t] # "none" /\ TypeInv
  BY DEF Ask, Answer, Running
<1>2. turnThread[t] \in Threads
  BY <1>1, RevealTyped
<1>3. openAsks' \in [Turns -> 0..MaxAsks]
  <2>1. MaxAsks \in Nat /\ openAsks \in [Turns -> 0..MaxAsks]
    BY BoundsAssumption DEF TypeInv, TypeOK
  <2>2. /\ openAsks[t] < MaxAsks => openAsks[t] + 1 \in 0..MaxAsks
        /\ openAsks[t] > 0 => openAsks[t] - 1 \in 0..MaxAsks
    BY <2>1
  <2>3. \/ openAsks[t] < MaxAsks /\ openAsks' = [openAsks EXCEPT ![t] = openAsks[t] + 1]
        \/ openAsks[t] > 0 /\ openAsks' = [openAsks EXCEPT ![t] = openAsks[t] - 1]
    BY DEF Ask, Answer
  <2> QED
    BY <2>1, <2>2, <2>3
<1>4. watch' \in [Threads -> {"off", "on", "human"}]
  <2>1. watch \in [Threads -> {"off", "on", "human"}]
    BY DEF TypeInv, TypeOK
  <2>2. \/ UNCHANGED watch
        \/ SetWaitingOnHuman(turnThread[t], "human") \/ SetWaitingOnHuman(turnThread[t], "on")
    BY DEF Ask, Answer
  <2> QED
    BY <1>2, <2>1, <2>2 DEF SetWaitingOnHuman
<1>5. activity' \in Activities
  BY DEF Ask, Answer, TypeInv, TypeOK, Activities
<1>6. DispatchTyped' /\ WaitingTyped' /\ OthersTyped'
  BY <1>1, <1>3, <1>4, <1>5, RevealTyped, TypeParts
     DEF Ask, Answer, DispatchTyped, WaitingTyped, OthersTyped, waitingVars
<1> QED
  BY <1>6, TypePartsNext

LEMMA SettleTyped ==
  ASSUME TypeInv, NEW t \in Turns, NEW setupError \in BOOLEAN, Settle(t, setupError)
  PROVE  TypeInv'
<1>1. provider[t] # "none" /\ TypeInv
  BY DEF Settle, Running
<1>2. turnThread[t] \in Threads
  BY <1>1, RevealTyped
<1>3. WaitingTyped' /\ DispatchTyped' /\ Onwards /\ StaysUnstarted
  <2>1. CASE Quarantined(t)
    BY <2>1, TypeParts
       DEF Settle, WaitingTyped, DispatchTyped, Onwards, StaysUnstarted, dispatchVars, waitingVars
  <2>2. ASSUME NEW gens \in {RevokeGen(activeGen, t), activeGen},
               NEW bnd \in {bound \ {t}, bound}, NEW act \in Activities,
               Drain(ResumeKinds, pc, claim, gens, bnd, act)
        PROVE  WaitingTyped' /\ DispatchTyped' /\ Onwards /\ StaysUnstarted
    <3>1. /\ SameProgress(pc) /\ claim \in Claims
          /\ claim.id # None => pc[claim.id] # "none"
      BY DEF SameProgress, TypeInv, TypeOK, Started, Claims
    <3>2. gens \in Gens /\ bnd \in SUBSET Turns
      BY <2>2 DEF RevokeGen, TypeInv, TypeOK, Gens
    <3> QED
      BY <2>2, <3>1, <3>2, DrainTyped
  <2>3. CASE ~Quarantined(t)
    <3> DEFINE mine == t \in bound /\ IdOf(t) = <<t, 1>>
    <3>1. Drain(ResumeKinds, pc, claim,
                IF mine THEN RevokeGen(activeGen, t) ELSE activeGen,
                IF mine THEN bound \ {t} ELSE bound,
                IF setupError \/ activity = "dead" THEN "dead" ELSE "idle")
      BY <2>3 DEF Settle
    <3> QED
      BY <2>2, <3>1 DEF Activities
  <2> QED
    BY <2>1, <2>3
<1>4. /\ adapter' \in [Threads -> Turns \cup {None}]
      /\ provider' \in [Turns -> {"none", "pending", "live", "rejected", "done"}]
      /\ \A u \in Turns : u # t => provider'[u] = provider[u]
  BY <1>2 DEF Settle, TypeInv, TypeOK
<1>5. openAsks' \in [Turns -> 0..MaxAsks]
  <2>1. MaxAsks \in Nat /\ 0 \in 0..MaxAsks
    BY BoundsAssumption
  <2>2. openAsks \in [Turns -> 0..MaxAsks] /\ openAsks' = [openAsks EXCEPT ![t] = 0]
    BY DEF Settle, TypeInv, TypeOK
  <2> QED
    BY <2>1, <2>2
<1>6. completed' \subseteq ProviderIds /\ watch' \in [Threads -> {"off", "on", "human"}]
  <2>1. IdOf(t) \in ProviderIds
    BY DEF IdOf, ProviderIds
  <2>2. completed' = completed \/ completed' = completed \cup {IdOf(t)}
    BY DEF Settle
  <2>3. watch' = watch \/ watch' = [watch EXCEPT ![turnThread[t]] = "off"]
    BY DEF Settle
  <2> QED
    BY <1>2, <2>1, <2>2, <2>3 DEF TypeInv, TypeOK
<1>7. /\ retired' \subseteq ProviderIds
      /\ \A u \in Turns : pc[u] \in {"none", "setup", "waiting"} =>
           u # t /\ <<u, 1>> \notin retired'
  BY <1>1, RevealTyped DEF Settle
<1>8. /\ \A u \in Turns : pc'[u] = "none" => u \notin cancelled' /\ u \notin pending'
      /\ \A u \in Turns : pc'[u] \in {"none", "setup", "waiting"} =>
           provider'[u] = "none" /\ <<u, 1>> \notin retired'
  BY <1>3, <1>4, <1>7 DEF Settle, TypeInv, Started, Onwards, StaysUnstarted
<1>9. OthersTyped'
  BY <1>4, <1>5, <1>6, <1>7, <1>8 DEF Settle, OthersTyped, TypeInv, TypeOK, Counts
<1> QED
  BY <1>3, <1>9, TypePartsNext

(***************************************************************************)
(* Stop, the quarantine's expiry and the watchdog.                         *)
(***************************************************************************)
LEMMA StopTyped ==
  ASSUME TypeInv, NEW e \in Threads \cup {None}, Stop(e)
  PROVE  TypeInv'
<1> DEFINE id == claim.id
           ours == id # None /\ (e = None \/ turnThread[id] = e)
           th == IF ours THEN turnThread[id] ELSE current
<1>1. id \in Turns \cup {None} /\ th \in Threads /\ (ours => id \in Turns /\ pc[id] # "none")
  BY DEF TypeInv, TypeOK, Started
<1>2. /\ claim' = IF ours THEN NoClaim ELSE claim
      /\ pending' = IF ours /\ claim.phase = "dispatching" THEN pending \cup {id} ELSE pending
      /\ cancelled' = IF ours THEN cancelled \cup {id} ELSE cancelled
      /\ activeGen' = RevokeThread(activeGen, th)
      /\ bound' = bound \ {activeGen[th]}
      /\ stops' = stops \cup {[thread |-> th, turn |-> IF Busy THEN latest ELSE None]}
      /\ used.stops < MaxStops /\ used' = [used EXCEPT !.stops = @ + 1]
      /\ UNCHANGED <<activity, latest, turnThread, pc, current, gate, providerVars, retired,
                     completed, watch, grace, waitingVars, steering>>
  BY DEF Stop
<1> HIDE DEF id, ours, th
<1>3. claim' \in Claims /\ (claim'.id # None => claim' = claim)
  BY <1>2 DEF TypeInv, TypeOK, Claims, NoClaim
<1>4. activeGen' \in Gens /\ bound' \subseteq Turns
  BY <1>1, <1>2 DEF RevokeThread, TypeInv, TypeOK, Gens
<1>5. DispatchTyped'
  BY <1>2, <1>3, <1>4 DEF DispatchTyped, TypeInv, TypeOK, Started
<1>6. /\ pending' \subseteq Turns /\ cancelled' \subseteq Turns
      /\ \A u \in Turns : pc[u] = "none" => u \notin cancelled' /\ u \notin pending'
  BY <1>1, <1>2 DEF TypeInv, TypeOK, Started
<1>7. stops' \subseteq [thread : Threads, turn : Turns \cup {None}]
  BY <1>1, <1>2 DEF TypeInv, TypeOK
<1>8. used' \in Counts
  BY <1>2, CountsGrow DEF TypeInv, TypeOK, Counts
<1>9. WaitingTyped' /\ OthersTyped'
  BY <1>2, <1>6, <1>7, <1>8, TypeParts
     DEF WaitingTyped, OthersTyped, providerVars, waitingVars
<1> QED
  BY <1>5, <1>9, TypePartsNext

LEMMA StopReachesTyped ==
  ASSUME TypeInv, NEW s \in stops, StopReaches(s)
  PROVE  TypeInv'
<1>1. s.thread \in Threads
  BY DEF TypeInv, TypeOK
<1>2. interrupted' \subseteq Turns /\ stops' \subseteq stops
  BY <1>1, InterruptTyped DEF StopReaches
<1>3. DispatchTyped' /\ WaitingTyped' /\ OthersTyped'
  BY <1>2, TypeParts
     DEF StopReaches, DispatchTyped, WaitingTyped, OthersTyped, dispatchVars, quarantineVars,
         waitingVars
<1> QED
  BY <1>3, TypePartsNext

LEMMA ExpireTyped ==
  ASSUME TypeInv, NEW t \in Turns, ExpireHandshake(t)
  PROVE  TypeInv'
<1>1. pending' \subseteq pending
  BY DEF ExpireHandshake
<1>2. DispatchTyped' /\ WaitingTyped' /\ OthersTyped'
  BY <1>1, TypeParts
     DEF ExpireHandshake, DispatchTyped, WaitingTyped, OthersTyped, dispatchVars, providerVars,
         waitingVars
<1> QED
  BY <1>2, TypePartsNext

LEMMA StallTyped ==
  ASSUME TypeInv, NEW th \in Threads, Stall(th)
  PROVE  TypeInv'
<1>1. interrupted' \subseteq Turns
  BY InterruptTyped DEF Stall
<1>2. activeGen' \in Gens /\ bound' \subseteq Turns
  BY DEF Stall, RevokeThread, TypeInv, TypeOK, Gens
<1>3. watch' \in [Threads -> {"off", "on", "human"}]
  BY DEF Stall, TypeInv, TypeOK
<1>4. used' \in Counts
  BY CountsGrow DEF Stall, TypeInv, TypeOK, Counts
<1>5. grace' \subseteq [thread : Threads, turn : Turns \cup {None}]
  BY DEF Stall, TypeInv, TypeOK
<1>6. DispatchTyped' /\ WaitingTyped' /\ OthersTyped'
  BY <1>1, <1>2, <1>3, <1>4, <1>5, TypeParts
     DEF Stall, DispatchTyped, WaitingTyped, OthersTyped, quarantineVars, waitingVars
<1> QED
  BY <1>6, TypePartsNext

LEMMA GraceEndsTyped ==
  ASSUME TypeInv, NEW g \in grace, GraceEnds(g)
  PROVE  TypeInv'
<1>1. WaitingTyped' /\ DispatchTyped' /\ Onwards /\ StaysUnstarted
  <2>1. CASE Drain(GraceKinds, pc, claim, activeGen, bound, "idle")
    <3>1. /\ SameProgress(pc) /\ claim \in Claims
          /\ claim.id # None => pc[claim.id] # "none"
          /\ activeGen \in Gens /\ bound \in SUBSET Turns /\ "idle" \in Activities
      BY DEF SameProgress, TypeInv, TypeOK, Started, Claims, Gens, Activities
    <3> QED
      BY <2>1, <3>1, DrainTyped
  <2>2. CASE UNCHANGED <<dispatchVars, waitingVars>>
    BY <2>2, TypeParts
       DEF WaitingTyped, DispatchTyped, Onwards, StaysUnstarted, dispatchVars, waitingVars
  <2> QED
    BY <2>1, <2>2 DEF GraceEnds
<1>2. OthersTyped'
  BY <1>1, TypeParts
     DEF GraceEnds, OthersTyped, Onwards, StaysUnstarted, providerVars, quarantineVars
<1> QED
  BY <1>1, <1>2, TypePartsNext
------------------------------------------------------------------------------
LEMMA TypeStep == TypeInv /\ [Next]_vars => TypeInv'
<1> SUFFICES ASSUME TypeInv, [Next]_vars PROVE TypeInv'
  OBVIOUS
<1>1. CASE UNCHANGED vars
  BY <1>1, TypeParts, TypePartsNext
     DEF vars, DispatchTyped, WaitingTyped, OthersTyped
<1>2. CASE Next
  BY <1>2, SendTyped, SteerTyped, CancelTyped, ResumeTyped, SwitchTyped, GateTyped,
     SetupEndsTyped, DispatchStepTyped, SendResolvesTyped, SendRejectsTyped, GuardStopTyped,
     CatchEndsTyped, ProviderStartsTyped, RelaunchTyped, AskAnswerTyped, SettleTyped,
     StopTyped, StopReachesTyped, ExpireTyped, StallTyped, GraceEndsTyped
     DEF Next, TurnStep, ProviderStep
<1> QED
  BY <1>1, <1>2

THEOREM TypeInvariant == Spec => []TypeInv
BY TypeInit, TypeStep, PTL DEF Spec

(* Every variable keeps its type, for any number of tasks and turns and    *)
(* under every behaviour of the provider and of the other subsystems.      *)
THEOREM TypeCorrect == Spec => []TypeOK
<1>1. TypeInv => TypeOK
  BY DEF TypeInv
<1> QED
  BY <1>1, TypeInvariant, PTL
------------------------------------------------------------------------------
(***************************************************************************)
(* Nothing waits behind an idle bot.                                       *)
(***************************************************************************)
LEMMA DrainEmpties ==
  ASSUME TypeInv, NEW kinds \in SUBSET ResumeKinds, {"connector", "secret"} \subseteq kinds,
         NEW p, NEW cl, NEW gens, NEW bnd, NEW act,
         Drain(kinds, p, cl, gens, bnd, act)
  PROVE  IdleBotHasEmptyQueues'
<1>1. ASSUME NEW t, NEW th, Begin(t, th, p, gens, bnd)
      PROVE  IdleBotHasEmptyQueues'
  BY <1>1 DEF Begin, IdleBotHasEmptyQueues, Busy
<1>2. ASSUME NEW c \in resumes, c[2] \notin kinds
      PROVE  c[2] = "wake"
  BY <1>2 DEF TypeInv, TypeOK, ResumeKinds
<1>3. ASSUME queue' = [th \in Threads |-> <<>>], resumes' = resumes \ {c \in resumes : c[2] \in kinds}
      PROVE  IdleBotHasEmptyQueues'
  BY <1>2, <1>3 DEF IdleBotHasEmptyQueues, QueuedThreads
<1>4. ASSUME QueuedThreads = {}, {c \in resumes : c[2] \in kinds} = {}, UNCHANGED <<queue, resumes>>
      PROVE  IdleBotHasEmptyQueues'
  BY <1>2, <1>4 DEF IdleBotHasEmptyQueues, QueuedThreads
<1> QED
  BY <1>1, <1>3, <1>4 DEF Drain, waitingVars

LEMMA IdleStep ==
  TypeInv /\ IdleBotHasEmptyQueues /\ [Next]_vars => IdleBotHasEmptyQueues'
<1> SUFFICES ASSUME TypeInv, IdleBotHasEmptyQueues, [Next]_vars
             PROVE  IdleBotHasEmptyQueues'
  OBVIOUS
<1>1. ASSUME UNCHANGED <<queue, resumes>>, Busy' <=> Busy
      PROVE  IdleBotHasEmptyQueues'
  BY <1>1 DEF IdleBotHasEmptyQueues, QueuedThreads
<1>2. ASSUME Busy' PROVE IdleBotHasEmptyQueues'
  BY <1>2 DEF IdleBotHasEmptyQueues
<1>3. ASSUME NEW t, NEW th, NEW p, NEW gens, NEW bnd, Begin(t, th, p, gens, bnd)
      PROVE  IdleBotHasEmptyQueues'
  BY <1>2, <1>3 DEF Begin, Busy
<1>4. ASSUME NEW w \in Words, Send(w) PROVE IdleBotHasEmptyQueues'
  BY <1>1, <1>2, <1>3, <1>4 DEF Send, dispatchVars, Busy
<1>5. ASSUME NEW w \in Words, NEW th \in Threads, SteerReturns(w, th)
      PROVE  IdleBotHasEmptyQueues'
  BY <1>1, <1>2, <1>3, <1>5 DEF SteerReturns, dispatchVars, Busy
<1>6. ASSUME NEW w \in Words, CancelQueued(w) PROVE IdleBotHasEmptyQueues'
  <2>1. QueuedThreads # {}
    BY <1>6 DEF CancelQueued, QueuedThreads
  <2> QED
    BY <1>2, <1>6, <2>1 DEF CancelQueued, dispatchVars, IdleBotHasEmptyQueues, Busy
<1>7. ASSUME NEW th \in Threads, NEW k \in ResumeKinds, ResumeArrives(th, k)
      PROVE  IdleBotHasEmptyQueues'
  BY <1>1, <1>2, <1>3, <1>7 DEF ResumeArrives, dispatchVars, Busy
<1>8. ASSUME NEW t \in Turns, Ask(t) \/ Answer(t) PROVE IdleBotHasEmptyQueues'
  BY <1>1, <1>8 DEF Ask, Answer, waitingVars, Busy
<1>9. ASSUME NEW t \in Turns, CatchEnds(t) PROVE IdleBotHasEmptyQueues'
  BY <1>1, <1>9, DrainEmpties DEF CatchEnds, CatchKinds, ResumeKinds, waitingVars, Busy
<1>10. ASSUME NEW t \in Turns, NEW e \in BOOLEAN, Settle(t, e) PROVE IdleBotHasEmptyQueues'
  BY <1>1, <1>10, DrainEmpties DEF Settle, ResumeKinds, dispatchVars, waitingVars, Busy
<1>11. ASSUME NEW g \in grace, GraceEnds(g) PROVE IdleBotHasEmptyQueues'
  BY <1>1, <1>11, DrainEmpties DEF GraceEnds, GraceKinds, ResumeKinds, dispatchVars, waitingVars, Busy
<1>12. ASSUME UNCHANGED <<activity, queue, resumes>> PROVE IdleBotHasEmptyQueues'
  BY <1>1, <1>12 DEF Busy
<1>13. ASSUME NEW t \in Turns,
              \/ SetupEnds(t) \/ SetupFails(t) \/ Dispatch(t) \/ SendResolves(t)
              \/ SendRejects(t) \/ GuardStopReturns(t) \/ ProviderStarts(t) \/ Relaunch(t)
              \/ ExpireHandshake(t)
       PROVE  IdleBotHasEmptyQueues'
  BY <1>12, <1>13
     DEF SetupEnds, SetupFails, Dispatch, SendResolves, SendRejects, GuardStopReturns,
         ProviderStarts, Relaunch, ExpireHandshake, CatchEntry, dispatchVars, waitingVars
<1>14. ASSUME \/ \E th \in Threads : SwitchTask(th) \/ Stall(th)
              \/ ToggleGate
              \/ \E e \in Threads \cup {None} : Stop(e)
              \/ \E s \in stops : StopReaches(s)
              \/ UNCHANGED vars
       PROVE  IdleBotHasEmptyQueues'
  BY <1>12, <1>14
     DEF SwitchTask, Stall, ToggleGate, Stop, StopReaches, vars, dispatchVars, waitingVars
<1> QED
  BY <1>4, <1>5, <1>6, <1>7, <1>8, <1>9, <1>10, <1>11, <1>13, <1>14
     DEF Next, TurnStep, ProviderStep

(* However many tasks, messages and continuations there are, an idle bot   *)
(* leaves no message and no answered card behind: of all the code that     *)
(* releases the bot, only the grace timer may leave a delegation wake.     *)
THEOREM IdleBotKeepsNothingWaiting == Spec => []IdleBotHasEmptyQueues
<1>1. Init => IdleBotHasEmptyQueues
  BY DEF Init, IdleBotHasEmptyQueues, QueuedThreads
<1> QED
  BY <1>1, IdleStep, TypeInvariant, PTL DEF Spec
------------------------------------------------------------------------------
(***************************************************************************)
(* The claim.  A step keeps it, gives it up, hands it to a turn that was   *)
(* not started yet, or marks it dispatching for the turn it sends.         *)
(***************************************************************************)
Handed(t) == /\ t \in Turns /\ pc[t] = "none" /\ pc'[t] = "setup"
             /\ claim' = [id |-> t, phase |-> "setup"]

Marked(t) == /\ t \in Turns /\ claim.id = t /\ Dispatch(t)
             /\ pc' = [pc EXCEPT ![t] = "sending"]
             /\ claim' = [claim EXCEPT !.phase = "dispatching"]

ClaimMoves ==
  \/ UNCHANGED claim
  \/ claim' = NoClaim
  \/ \E t \in Turns : Handed(t)
  \/ \E t \in Turns : Marked(t)

LEMMA BeginHands ==
  ASSUME TypeInv, NEW t \in Turns, NEW th, NEW p, SameProgress(p), NEW gens, NEW bnd,
         Begin(t, th, p, gens, bnd)
  PROVE  Handed(t)
BY DEF Begin, SameProgress, Handed

LEMMA DrainHands ==
  ASSUME TypeInv, NEW kinds, NEW p, SameProgress(p), NEW gens, NEW bnd, NEW act,
         Drain(kinds, p, claim, gens, bnd, act)
  PROVE  ClaimMoves
BY DrainMoves, BeginHands DEF Rest, ClaimMoves

LEMMA ClaimStep == TypeInv /\ [Next]_vars => ClaimMoves
<1> SUFFICES ASSUME TypeInv, [Next]_vars PROVE ClaimMoves
  OBVIOUS
<1>1. SameProgress(pc)
  BY DEF SameProgress, TypeInv, TypeOK
<1>2. ASSUME NEW t \in Turns, NEW th, Begin(t, th, pc, activeGen, bound) PROVE ClaimMoves
  BY <1>1, <1>2, BeginHands DEF ClaimMoves
<1>3. ASSUME NEW w \in Words, \/ Send(w) \/ CancelQueued(w)
                              \/ \E th \in Threads : SteerReturns(w, th)
      PROVE  ClaimMoves
  BY <1>2, <1>3 DEF Send, CancelQueued, SteerReturns, dispatchVars, ClaimMoves
<1>4. ASSUME NEW th \in Threads, NEW k \in ResumeKinds, ResumeArrives(th, k) PROVE ClaimMoves
  BY <1>2, <1>4 DEF ResumeArrives, dispatchVars, ClaimMoves
<1>5. ASSUME NEW t \in Turns, CatchEnds(t) PROVE ClaimMoves
  <2>1. SameProgress([pc EXCEPT ![t] = "done"])
    BY <1>5 DEF CatchEnds, SameProgress, TypeInv, TypeOK, Pcs
  <2> QED
    BY <1>5, <2>1, DrainHands DEF CatchEnds, ClaimMoves
<1>6. ASSUME NEW t \in Turns, NEW e \in BOOLEAN, Settle(t, e) PROVE ClaimMoves
  BY <1>1, <1>6, DrainHands DEF Settle, dispatchVars, ClaimMoves
<1>7. ASSUME NEW g \in grace, GraceEnds(g) PROVE ClaimMoves
  BY <1>1, <1>7, DrainHands DEF GraceEnds, dispatchVars, ClaimMoves
<1>8. ASSUME NEW t \in Turns, Dispatch(t) PROVE ClaimMoves
  <2>1. CASE ClaimIsCurrent(t)
    <3> Marked(t)
      BY <1>8, <2>1 DEF Dispatch, ClaimIsCurrent, ClaimExists, Marked
    <3> QED
      BY DEF ClaimMoves
  <2>2. CASE ~ClaimIsCurrent(t)
    BY <1>8, <2>2 DEF Dispatch, CatchEntry, ClaimMoves
  <2> QED
    BY <2>1, <2>2
<1>9. ASSUME NEW t \in Turns,
             \/ SetupEnds(t) \/ SetupFails(t) \/ SendResolves(t) \/ SendRejects(t)
             \/ GuardStopReturns(t) \/ ProviderStarts(t) \/ Relaunch(t) \/ ExpireHandshake(t)
             \/ Ask(t) \/ Answer(t)
      PROVE  ClaimMoves
  BY <1>9
     DEF SetupEnds, SetupFails, SendResolves, SendRejects, GuardStopReturns, ProviderStarts,
         Relaunch, ExpireHandshake, Ask, Answer, CatchEntry, dispatchVars, ClaimMoves
<1>10. ASSUME \/ \E th \in Threads : SwitchTask(th) \/ Stall(th)
              \/ ToggleGate
              \/ \E e \in Threads \cup {None} : Stop(e)
              \/ \E s \in stops : StopReaches(s)
              \/ UNCHANGED vars
       PROVE  ClaimMoves
  BY <1>10
     DEF SwitchTask, Stall, ToggleGate, Stop, StopReaches, vars, dispatchVars, ClaimMoves
<1> QED
  BY <1>3, <1>4, <1>5, <1>6, <1>7, <1>8, <1>9, <1>10
     DEF Next, TurnStep, ProviderStep

(* Only Stop adds to the history of cancelled turns, and it takes the      *)
(* claim away in the same step.                                            *)
LEMMA CancelStep ==
  [Next]_vars => \/ UNCHANGED cancelled
                 \/ /\ claim.id # None /\ cancelled' = cancelled \cup {claim.id}
                    /\ claim' = NoClaim /\ UNCHANGED <<pc, provider, retired>>
                    /\ pending' = IF claim.phase = "dispatching"
                                  THEN pending \cup {claim.id} ELSE pending
<1> SUFFICES ASSUME [Next]_vars
             PROVE  \/ UNCHANGED cancelled
                    \/ /\ claim.id # None /\ cancelled' = cancelled \cup {claim.id}
                       /\ claim' = NoClaim /\ UNCHANGED <<pc, provider, retired>>
                       /\ pending' = IF claim.phase = "dispatching"
                                     THEN pending \cup {claim.id} ELSE pending
  OBVIOUS
<1>1. CASE \E e \in Threads \cup {None} : Stop(e)
  BY <1>1 DEF Stop, providerVars
<1>2. ASSUME NEW w \in Words, \/ Send(w) \/ CancelQueued(w)
                              \/ \E th \in Threads : SteerReturns(w, th)
      PROVE  UNCHANGED cancelled
  BY <1>2 DEF Send, CancelQueued, SteerReturns
<1>3. ASSUME NEW t \in Turns, TurnStep(t) \/ ProviderStep(t) \/ ExpireHandshake(t)
      PROVE  UNCHANGED cancelled
  BY <1>3
     DEF TurnStep, ProviderStep, SetupEnds, SetupFails, Dispatch, SendResolves, SendRejects,
         GuardStopReturns, CatchEnds, ProviderStarts, Relaunch, ExpireHandshake, Ask, Answer, Settle
<1>4. ASSUME \/ \E th \in Threads : SwitchTask(th) \/ Stall(th)
             \/ \E th \in Threads, k \in ResumeKinds : ResumeArrives(th, k)
             \/ ToggleGate
             \/ \E s \in stops : StopReaches(s)
             \/ \E g \in grace : GraceEnds(g)
             \/ UNCHANGED vars
      PROVE  UNCHANGED cancelled
  BY <1>4 DEF SwitchTask, Stall, ResumeArrives, ToggleGate, StopReaches, GraceEnds, vars
<1> QED
  BY <1>1, <1>2, <1>3, <1>4 DEF Next

(* No cancelled turn holds the claim. *)
CancelledLostClaim == \A t \in cancelled : claim.id # t

LEMMA CancelledLostClaimStep ==
  TypeInv /\ CancelledLostClaim /\ [Next]_vars => CancelledLostClaim'
<1> SUFFICES ASSUME TypeInv, CancelledLostClaim, [Next]_vars PROVE CancelledLostClaim'
  OBVIOUS
<1>1. CASE UNCHANGED cancelled
  <2>1. \A t \in Turns : pc[t] = "none" => t \notin cancelled
    BY DEF TypeInv, Started
  <2>2. ASSUME NEW t \in Turns, Handed(t) PROVE CancelledLostClaim'
    BY <1>1, <2>1, <2>2 DEF Handed, CancelledLostClaim
  <2>3. ASSUME NEW t \in Turns, Marked(t) PROVE CancelledLostClaim'
    BY <1>1, <2>3 DEF Marked, CancelledLostClaim, TypeInv, TypeOK
  <2>4. ASSUME claim' = NoClaim PROVE CancelledLostClaim'
    BY <1>1, <2>4, NoneAssumption DEF CancelledLostClaim, NoClaim, TypeInv, TypeOK
  <2>5. ASSUME UNCHANGED claim PROVE CancelledLostClaim'
    BY <1>1, <2>5 DEF CancelledLostClaim
  <2> QED
    BY <2>2, <2>3, <2>4, <2>5, ClaimStep DEF ClaimMoves
<1>2. CASE claim' = NoClaim /\ cancelled' = cancelled \cup {claim.id} /\ claim.id # None
  BY <1>2, NoneAssumption DEF CancelledLostClaim, NoClaim, TypeInv, TypeOK
<1> QED
  BY <1>1, <1>2, CancelStep

(* The providers of turns move only in the step that dispatches a turn,    *)
(* and in the steps its provider takes afterwards.                         *)
LEMMA ProviderMoves ==
  TypeInv /\ [Next]_vars =>
    \A t \in Turns : \/ provider'[t] = provider[t]
                     \/ Dispatch(t) /\ ClaimIsCurrent(t)
                     \/ ProviderStarts(t)
                     \/ SendRejects(t)
                     \/ \E e \in BOOLEAN : Settle(t, e)
<1> SUFFICES ASSUME TypeInv, [Next]_vars, NEW t \in Turns,
                    provider'[t] # provider[t]
             PROVE  \/ Dispatch(t) /\ ClaimIsCurrent(t)
                    \/ ProviderStarts(t)
                    \/ SendRejects(t)
                    \/ \E e \in BOOLEAN : Settle(t, e)
  OBVIOUS
<1>1. ASSUME UNCHANGED provider PROVE FALSE
  BY <1>1
<1>2. ASSUME NEW w \in Words, \/ Send(w) \/ CancelQueued(w)
                              \/ \E th \in Threads : SteerReturns(w, th)
      PROVE  FALSE
  BY <1>1, <1>2 DEF Send, CancelQueued, SteerReturns, providerVars
<1>3. ASSUME \/ \E th \in Threads : SwitchTask(th) \/ Stall(th)
             \/ \E th \in Threads, k \in ResumeKinds : ResumeArrives(th, k)
             \/ ToggleGate
             \/ \E e \in Threads \cup {None} : Stop(e)
             \/ \E s \in stops : StopReaches(s)
             \/ \E g \in grace : GraceEnds(g)
             \/ UNCHANGED vars
      PROVE  FALSE
  BY <1>1, <1>3
     DEF SwitchTask, Stall, ResumeArrives, ToggleGate, Stop, StopReaches, GraceEnds, vars,
         providerVars
<1>4. ASSUME NEW u \in Turns,
             \/ SetupEnds(u) \/ SetupFails(u) \/ SendResolves(u) \/ GuardStopReturns(u)
             \/ CatchEnds(u) \/ Relaunch(u) \/ Ask(u) \/ Answer(u) \/ ExpireHandshake(u)
      PROVE  FALSE
  BY <1>1, <1>4
     DEF SetupEnds, SetupFails, SendResolves, GuardStopReturns, CatchEnds, Relaunch, Ask, Answer,
         ExpireHandshake, providerVars
<1>5. ASSUME NEW u \in Turns, provider' = [provider EXCEPT ![u] = provider'[u]]
      PROVE  u = t
  BY <1>5 DEF TypeInv, TypeOK
<1>6. ASSUME NEW u \in Turns, Dispatch(u) PROVE Dispatch(t) /\ ClaimIsCurrent(t)
  <2>1. CASE ClaimIsCurrent(u)
    <3> u = t
      BY <1>6, <2>1 DEF Dispatch, TypeInv, TypeOK
    <3> QED
      BY <1>6, <2>1
  <2>2. CASE ~ClaimIsCurrent(u)
    BY <1>1, <1>6, <2>2 DEF Dispatch
  <2> QED
    BY <2>1, <2>2
<1>7. ASSUME NEW u \in Turns, NEW e \in BOOLEAN,
             ProviderStarts(u) \/ SendRejects(u) \/ Settle(u, e)
      PROVE  u = t
  BY <1>7 DEF ProviderStarts, SendRejects, Settle, TypeInv, TypeOK
<1> QED
  BY <1>2, <1>3, <1>4, <1>6, <1>7 DEF Next, TurnStep, ProviderStep

LEMMA NeverRunsStep ==
  TypeInv /\ CancelledLostClaim /\ [Next]_vars =>
    \A t \in cancelled : provider[t] = "none" => provider'[t] = "none"
<1> SUFFICES ASSUME TypeInv, CancelledLostClaim, [Next]_vars, NEW t \in cancelled,
                    provider[t] = "none", provider'[t] # provider[t]
             PROVE  FALSE
  OBVIOUS
<1>1. t \in Turns
  BY DEF TypeInv, TypeOK
<1>2. ~ClaimIsCurrent(t)
  BY DEF CancelledLostClaim, ClaimIsCurrent, ClaimExists
<1>3. ~ProviderStarts(t) /\ ~SendRejects(t) /\ \A e \in BOOLEAN : ~Settle(t, e)
  BY DEF ProviderStarts, SendRejects, Settle, Running
<1> QED
  BY <1>1, <1>2, <1>3, ProviderMoves

(* A Stop that arrives while the computer, the checkpoint or the browser   *)
(* is still being prepared is final: whatever the other turns, the         *)
(* provider and the timers do, the turn never reaches the adapter.         *)
THEOREM StopBeforeDispatchIsFinal == Spec => StoppedBeforeDispatchNeverRuns
<1>1. Init => CancelledLostClaim
  BY DEF Init, CancelledLostClaim
<1>2. TypeInv /\ CancelledLostClaim /\ [Next]_vars =>
        [\A t \in cancelled : provider[t] = "none" => provider'[t] = "none"]_vars
  BY NeverRunsStep
<1> QED
  BY <1>1, <1>2, CancelledLostClaimStep, TypeInvariant, PTL
     DEF Spec, StoppedBeforeDispatchNeverRuns
------------------------------------------------------------------------------
(***************************************************************************)
(* The quarantine.  A turn whose claim is still in setup has no provider,  *)
(* so a Stop then has nothing to quarantine; from the dispatch on, the     *)
(* gate on the thread holds until the late turn id is retired.             *)
(***************************************************************************)
SetupClaimIsEarly ==
  claim.id # None /\ claim.phase = "setup" => pc[claim.id] \in {"setup", "waiting"}

LEMMA SetupClaimStep ==
  TypeInv /\ SetupClaimIsEarly /\ [Next]_vars => SetupClaimIsEarly'
<1> SUFFICES ASSUME TypeInv, SetupClaimIsEarly, [Next]_vars,
                    claim'.id # None, claim'.phase = "setup"
             PROVE  pc'[claim'.id] \in {"setup", "waiting"}
  BY DEF SetupClaimIsEarly
<1> DEFINE id == claim.id
<1>1. ASSUME NEW t \in Turns, Handed(t) PROVE pc'[claim'.id] \in {"setup", "waiting"}
  BY <1>1 DEF Handed
<1>2. ASSUME NEW t \in Turns, Marked(t) PROVE FALSE
  BY <1>2 DEF Marked, TypeInv, TypeOK
<1>3. claim' # NoClaim
  BY DEF NoClaim
<1>4. SUFFICES ASSUME UNCHANGED claim
               PROVE  pc'[id] \in {"setup", "waiting"}
  BY <1>1, <1>2, <1>3, ClaimStep DEF ClaimMoves
<1>5. id \in Turns /\ claim.phase = "setup" /\ pc[id] \in {"setup", "waiting"}
  BY <1>4 DEF SetupClaimIsEarly, TypeInv, TypeOK
<1> HIDE DEF id
<1>6. ASSUME NEW p, NEW u \in Turns, SameProgress(p), p[id] = pc[id], pc' = [p EXCEPT ![u] = "setup"]
      PROVE  pc'[id] \in {"setup", "waiting"}
  BY <1>5, <1>6 DEF SameProgress
<1>7. ASSUME NEW u \in Turns, pc[u] \notin {"setup", "waiting"}, NEW v,
             pc' = [pc EXCEPT ![u] = v]
      PROVE  pc'[id] \in {"setup", "waiting"}
  BY <1>5, <1>7 DEF TypeInv, TypeOK
<1>8. SameProgress(pc)
  BY DEF SameProgress, TypeInv, TypeOK
<1>9. ASSUME NEW u \in Turns, NEW th, NEW gens, NEW bnd, Begin(u, th, pc, gens, bnd)
      PROVE  pc'[id] \in {"setup", "waiting"}
  BY <1>6, <1>8, <1>9 DEF Begin
<1>10. ASSUME UNCHANGED pc PROVE pc'[id] \in {"setup", "waiting"}
  BY <1>5, <1>10
<1>11. ASSUME NEW kinds, NEW gens, NEW bnd, NEW act, Drain(kinds, pc, claim, gens, bnd, act)
       PROVE  pc'[id] \in {"setup", "waiting"}
  BY <1>8, <1>9, <1>10, <1>11, DrainMoves DEF Rest
<1>12. ASSUME NEW w \in Words, \/ Send(w) \/ CancelQueued(w)
                               \/ \E th \in Threads : SteerReturns(w, th)
       PROVE  pc'[id] \in {"setup", "waiting"}
  BY <1>9, <1>10, <1>12 DEF Send, CancelQueued, SteerReturns, dispatchVars
<1>13. ASSUME NEW th \in Threads, NEW k \in ResumeKinds, ResumeArrives(th, k)
       PROVE  pc'[id] \in {"setup", "waiting"}
  BY <1>9, <1>10, <1>13 DEF ResumeArrives, dispatchVars
<1>14. ASSUME NEW u \in Turns, NEW kind, CatchEntry(u, kind)
       PROVE  pc'[id] \in {"setup", "waiting"}
  <2>1. u # id
    BY <1>4, <1>5, <1>14, NoneAssumption DEF CatchEntry, ClaimExists, NoClaim, id
  <2> QED
    BY <1>5, <1>14, <2>1 DEF CatchEntry, TypeInv, TypeOK
<1>15. ASSUME NEW u \in Turns, SetupEnds(u) \/ SetupFails(u) \/ SendRejects(u) \/ GuardStopReturns(u)
       PROVE  pc'[id] \in {"setup", "waiting"}
  <2>1. CASE pc[u] = "setup" /\ pc' = [pc EXCEPT ![u] = "waiting"]
    BY <1>5, <2>1 DEF TypeInv, TypeOK
  <2> QED
    BY <1>14, <1>15, <2>1 DEF SetupEnds, SetupFails, SendRejects, GuardStopReturns
<1>16. ASSUME NEW u \in Turns, Dispatch(u)
       PROVE  pc'[id] \in {"setup", "waiting"}
  <2>1. ~ClaimIsCurrent(u)
    BY <1>2, <1>4, <1>5, <1>16 DEF Dispatch, TypeInv, TypeOK
  <2> QED
    BY <1>14, <1>16, <2>1 DEF Dispatch
<1>17. ASSUME NEW u \in Turns, SendResolves(u)
       PROVE  pc'[id] \in {"setup", "waiting"}
  BY <1>7, <1>17 DEF SendResolves
<1>18. ASSUME NEW u \in Turns, CatchEnds(u)
       PROVE  pc'[id] \in {"setup", "waiting"}
  <2> DEFINE p == [pc EXCEPT ![u] = "done"]
  <2>1. u # id /\ SameProgress(p) /\ p[id] = pc[id]
    BY <1>5, <1>18 DEF CatchEnds, SameProgress, TypeInv, TypeOK, Pcs
  <2>2. CASE pc' = p
    BY <1>5, <2>1, <2>2
  <2>3. ASSUME NEW t \in Turns, NEW th, Begin(t, th, p, activeGen, bound)
        PROVE  pc'[id] \in {"setup", "waiting"}
    BY <1>6, <2>1, <2>3 DEF Begin
  <2> HIDE DEF p
  <2>4. CASE Drain(CatchKinds, p, claim, activeGen, bound, AfterCatch(u))
    BY <2>1, <2>2, <2>3, <2>4, DrainMoves DEF Rest
  <2> QED
    BY <1>18, <2>2, <2>4 DEF CatchEnds, p
<1>19. ASSUME NEW u \in Turns, NEW e \in BOOLEAN, Settle(u, e)
       PROVE  pc'[id] \in {"setup", "waiting"}
  BY <1>10, <1>11, <1>19 DEF Settle, dispatchVars
<1>20. ASSUME NEW g \in grace, GraceEnds(g)
       PROVE  pc'[id] \in {"setup", "waiting"}
  BY <1>10, <1>11, <1>20 DEF GraceEnds, dispatchVars
<1>21. ASSUME \/ \E u \in Turns : \/ ProviderStarts(u) \/ Relaunch(u) \/ Ask(u) \/ Answer(u)
                                 \/ ExpireHandshake(u)
              \/ \E th \in Threads : SwitchTask(th) \/ Stall(th)
              \/ ToggleGate
              \/ \E e \in Threads \cup {None} : Stop(e)
              \/ \E s \in stops : StopReaches(s)
              \/ UNCHANGED vars
       PROVE  pc'[id] \in {"setup", "waiting"}
  BY <1>10, <1>21
     DEF ProviderStarts, Relaunch, Ask, Answer, ExpireHandshake, SwitchTask, Stall, ToggleGate,
         Stop, StopReaches, vars, dispatchVars
<1> QED
  BY <1>12, <1>13, <1>15, <1>16, <1>17, <1>18, <1>19, <1>20, <1>21
     DEF Next, TurnStep, ProviderStep

(* Retirement is for good. *)
LEMMA RetiredGrows == [Next]_vars => retired \subseteq retired'
<1> SUFFICES ASSUME [Next]_vars PROVE retired \subseteq retired'
  OBVIOUS
<1>1. ASSUME NEW w \in Words, \/ Send(w) \/ CancelQueued(w)
                              \/ \E th \in Threads : SteerReturns(w, th)
      PROVE  UNCHANGED retired
  BY <1>1 DEF Send, CancelQueued, SteerReturns, quarantineVars
<1>2. ASSUME \/ \E th \in Threads : SwitchTask(th) \/ Stall(th)
             \/ \E th \in Threads, k \in ResumeKinds : ResumeArrives(th, k)
             \/ ToggleGate
             \/ \E e \in Threads \cup {None} : Stop(e)
             \/ \E s \in stops : StopReaches(s)
             \/ \E g \in grace : GraceEnds(g)
             \/ UNCHANGED vars
      PROVE  UNCHANGED retired
  BY <1>2 DEF SwitchTask, Stall, ResumeArrives, ToggleGate, Stop, StopReaches, GraceEnds, vars,
              quarantineVars
<1>3. ASSUME NEW t \in Turns, TurnStep(t) \/ ProviderStep(t) \/ ExpireHandshake(t)
      PROVE  retired \subseteq retired'
  BY <1>3
     DEF TurnStep, ProviderStep, SetupEnds, SetupFails, Dispatch, SendResolves, SendRejects,
         GuardStopReturns, CatchEnds, ProviderStarts, Relaunch, ExpireHandshake, Ask, Answer,
         Settle, quarantineVars
<1> QED
  BY <1>1, <1>2, <1>3 DEF Next

(* A thread's gate opens when the turn's own dispatch comes to its end, or *)
(* when the quarantine has lasted its thirty seconds.                      *)
LEMMA PendingMoves ==
  [Next]_vars =>
    \A t \in pending \ pending' :
      \/ SetupEnds(t) \/ SetupFails(t) \/ Dispatch(t) \/ SendRejects(t)
      \/ GuardStopReturns(t) \/ ExpireHandshake(t)
<1> SUFFICES ASSUME [Next]_vars, NEW t \in pending, t \notin pending'
             PROVE  \/ SetupEnds(t) \/ SetupFails(t) \/ Dispatch(t) \/ SendRejects(t)
                    \/ GuardStopReturns(t) \/ ExpireHandshake(t)
  OBVIOUS
<1>1. ASSUME NEW w \in Words, \/ Send(w) \/ CancelQueued(w)
                              \/ \E th \in Threads : SteerReturns(w, th)
      PROVE  FALSE
  BY <1>1 DEF Send, CancelQueued, SteerReturns, quarantineVars
<1>2. ASSUME \/ \E th \in Threads : SwitchTask(th) \/ Stall(th)
             \/ \E th \in Threads, k \in ResumeKinds : ResumeArrives(th, k)
             \/ ToggleGate
             \/ \E e \in Threads \cup {None} : Stop(e)
             \/ \E s \in stops : StopReaches(s)
             \/ \E g \in grace : GraceEnds(g)
             \/ UNCHANGED vars
      PROVE  FALSE
  BY <1>2 DEF SwitchTask, Stall, ResumeArrives, ToggleGate, Stop, StopReaches, GraceEnds, vars,
              quarantineVars
<1>3. ASSUME NEW u \in Turns, \/ SendResolves(u) \/ CatchEnds(u) \/ ProviderStep(u)
      PROVE  FALSE
  BY <1>3
     DEF ProviderStep, SendResolves, CatchEnds, ProviderStarts, Relaunch, Ask, Answer, Settle,
         quarantineVars
<1>4. ASSUME NEW u \in Turns, \/ SetupEnds(u) \/ SetupFails(u) \/ Dispatch(u) \/ SendRejects(u)
                              \/ GuardStopReturns(u) \/ ExpireHandshake(u)
      PROVE  u = t
  BY <1>4 DEF SetupEnds, SetupFails, Dispatch, SendRejects, GuardStopReturns, ExpireHandshake,
              CatchEntry, Cleared
<1> QED
  BY <1>1, <1>2, <1>3, <1>4 DEF Next, TurnStep

LEMMA RelaunchedStep ==
  ASSUME "relaunch" \notin Behaviours
  PROVE  relaunched = {} /\ [Next]_vars => relaunched' = {}
<1> SUFFICES ASSUME relaunched = {}, [Next]_vars PROVE relaunched' = {}
  OBVIOUS
<1>1. ASSUME NEW w \in Words, \/ Send(w) \/ CancelQueued(w)
                              \/ \E th \in Threads : SteerReturns(w, th)
      PROVE  UNCHANGED relaunched
  BY <1>1 DEF Send, CancelQueued, SteerReturns, providerVars
<1>2. ASSUME \/ \E th \in Threads : SwitchTask(th) \/ Stall(th)
             \/ \E th \in Threads, k \in ResumeKinds : ResumeArrives(th, k)
             \/ ToggleGate
             \/ \E e \in Threads \cup {None} : Stop(e)
             \/ \E s \in stops : StopReaches(s)
             \/ \E g \in grace : GraceEnds(g)
             \/ UNCHANGED vars
      PROVE  UNCHANGED relaunched
  BY <1>2 DEF SwitchTask, Stall, ResumeArrives, ToggleGate, Stop, StopReaches, GraceEnds, vars,
              providerVars
<1>3. ASSUME NEW t \in Turns, TurnStep(t) \/ ProviderStep(t) \/ ExpireHandshake(t)
      PROVE  UNCHANGED relaunched
  BY <1>3
     DEF TurnStep, ProviderStep, SetupEnds, SetupFails, Dispatch, SendResolves, SendRejects,
         GuardStopReturns, CatchEnds, ProviderStarts, Relaunch, ExpireHandshake, Ask, Answer,
         Settle, providerVars
<1> QED
  BY <1>1, <1>2, <1>3 DEF Next

(* A cancelled turn whose provider may still speak is quarantined.         *)
QuarantineHolds ==
  \A t \in cancelled : provider[t] \in {"pending", "live"} =>
                         t \in pending \/ <<t, 1>> \in retired

QuarantineInv ==
  /\ CancelledLostClaim /\ SetupClaimIsEarly /\ QuarantineHolds
  /\ relaunched = {}

LEMMA QuarantineHoldsStep ==
  ASSUME "hang" \notin Behaviours
  PROVE  TypeInv /\ QuarantineInv /\ [Next]_vars => QuarantineHolds'
<1> SUFFICES ASSUME TypeInv, QuarantineInv, [Next]_vars, NEW t \in cancelled',
                    provider'[t] \in {"pending", "live"},
                    t \notin pending', <<t, 1>> \notin retired'
             PROVE  FALSE
  BY DEF QuarantineHolds
<1>1. t \in Turns /\ TypeInv'
  <2> TypeInv'
    BY TypeStep
  <2> QED
    BY DEF TypeInv, TypeOK
<1>2. CASE t \notin cancelled
  <2>1. /\ t = claim.id /\ UNCHANGED <<pc, provider, retired>>
        /\ pending' = IF claim.phase = "dispatching" THEN pending \cup {claim.id} ELSE pending
    BY <1>2, CancelStep
  <2>2. claim.phase = "setup" /\ claim.id # None
    BY <1>1, <2>1, NoneAssumption DEF TypeInv, TypeOK
  <2>3. pc[t] \in {"setup", "waiting"}
    BY <2>1, <2>2 DEF QuarantineInv, SetupClaimIsEarly
  <2> QED
    BY <1>1, <2>1, <2>3 DEF TypeInv, Started
<1>3. CASE t \in cancelled
  <2>1. provider[t] \in {"pending", "live"}
    <3>1. ~ClaimIsCurrent(t)
      BY <1>3 DEF QuarantineInv, CancelledLostClaim, ClaimIsCurrent, ClaimExists
    <3>2. ~SendRejects(t) /\ \A e \in BOOLEAN : ~Settle(t, e)
      BY <1>1 DEF SendRejects, Settle, TypeInv, TypeOK
    <3> QED
      BY <1>1, <3>1, <3>2, ProviderMoves DEF ProviderStarts
  <2>2. t \in pending
    BY <1>3, <2>1, RetiredGrows DEF QuarantineInv, QuarantineHolds
  <2>3. pc[t] \notin {"setup", "waiting"}
    BY <1>1, <2>1 DEF TypeInv, Started
  <2>4. ~SendRejects(t) /\ ~GuardStopReturns(t)
    BY <1>1 DEF SendRejects, GuardStopReturns, TypeInv, TypeOK
  <2> QED
    BY <2>2, <2>3, <2>4, PendingMoves
       DEF SetupEnds, SetupFails, Dispatch, ExpireHandshake
<1> QED
  BY <1>2, <1>3

LEMMA CancelledSettleIsIgnored ==
  TypeInv /\ QuarantineInv /\ [Next]_vars =>
    \A t \in cancelled :
      provider[t] \in {"pending", "live"} /\ provider'[t] = "done"
        => UNCHANGED <<activity, claim, watch, queue, resumes>>
<1> SUFFICES ASSUME TypeInv, QuarantineInv, [Next]_vars, NEW t \in cancelled,
                    provider[t] \in {"pending", "live"}, provider'[t] = "done"
             PROVE  UNCHANGED <<activity, claim, watch, queue, resumes>>
  OBVIOUS
<1>1. t \in Turns /\ ~ClaimExists(t)
  BY DEF TypeInv, TypeOK, QuarantineInv, CancelledLostClaim, ClaimExists
<1>2. CASE SendRejects(t)
  BY <1>1, <1>2 DEF SendRejects, CatchEntry, waitingVars
<1>3. ASSUME NEW e \in BOOLEAN, Settle(t, e)
      PROVE  UNCHANGED <<activity, claim, watch, queue, resumes>>
  <2>1. IdOf(t) = <<t, 1>>
    BY DEF IdOf, QuarantineInv
  <2>2. t \in pending \/ <<t, 1>> \in retired
    BY DEF QuarantineInv, QuarantineHolds
  <2>3. Quarantined(t)
    BY <2>1, <2>2 DEF Quarantined, Gate
  <2> QED
    BY <1>3, <2>3 DEF Settle, dispatchVars, waitingVars
<1>4. CASE ClaimIsCurrent(t) \/ ProviderStarts(t)
  BY <1>1, <1>4 DEF ClaimIsCurrent, ProviderStarts, TypeInv, TypeOK
<1> QED
  BY <1>1, <1>2, <1>3, <1>4, ProviderMoves

(* While a handshake resolves within its thirty seconds and no turn is     *)
(* relaunched under a second id, the completion of a turn that Stop        *)
(* cancelled neither idles the bot, nor frees its claim, nor drains what   *)
(* waits for it.                                                           *)
THEOREM StoppedTurnCannotSettle ==
  ASSUME "hang" \notin Behaviours, "relaunch" \notin Behaviours
  PROVE  Spec => CancelledTurnNeverSettlesBot
<1>1. Init => QuarantineInv
  BY NoneAssumption
     DEF Init, QuarantineInv, CancelledLostClaim, SetupClaimIsEarly, QuarantineHolds, NoClaim
<1>2. TypeInv /\ QuarantineInv /\ [Next]_vars => QuarantineInv'
  BY CancelledLostClaimStep, SetupClaimStep, QuarantineHoldsStep, RelaunchedStep
     DEF QuarantineInv
<1>3. TypeInv /\ QuarantineInv /\ [Next]_vars =>
        [\A t \in cancelled :
           provider[t] \in {"pending", "live"} /\ provider'[t] = "done"
             => UNCHANGED <<activity, claim, watch, queue, resumes>>]_vars
  BY CancelledSettleIsIgnored
<1> QED
  BY <1>1, <1>2, <1>3, TypeInvariant, PTL DEF Spec, CancelledTurnNeverSettlesBot
============================================================================
