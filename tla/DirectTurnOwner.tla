-------------------------- MODULE DirectTurnOwner --------------------------
(***************************************************************************)
(* Who holds a busy bot in DirectTurn, for every set of tasks, turns and   *)
(* messages: something that will release it, and, while the watchdog finds *)
(* no stall, at most one provider turn that was not told to stop; then an  *)
(* idle bot keeps no wake waiting either.  And what a turn holds: its      *)
(* capability generation, and no longer than the turn.                     *)
(***************************************************************************)
EXTENDS DirectTurnProofs

(* The events of t count: nothing on its thread is quarantined, and no id  *)
(* of t is retired.                                                        *)
Heard(t) == ~Gate(turnThread[t]) /\ {<<t, 1>>, <<t, 2>>} \cap retired = {}

(* The claim is of the newest startTurn, which is not over. *)
ClaimIsNewest ==
  /\ claim.id # None => claim.id = latest /\ pc[claim.id] \in {"setup", "waiting", "sending"}
  /\ latest # None => pc[latest] # "none"
  /\ Busy => latest # None

SecondIdIsLate ==
  \A t \in Turns : pc[t] \in {"none", "setup", "waiting"} => <<t, 2>> \notin retired

(* A turn that still holds its claim when sendTurn returns was heard all   *)
(* along: had it completed already, that completion has idled the bot.     *)
ClaimedIsHeard ==
  \A t \in Turns : claim.id = t /\ pc[t] = "sending" =>
                      Heard(t) /\ (provider[t] = "done" => ~Busy)

NewestIsHeard ==
  \A t \in Turns : Busy /\ latest = t /\ pc[t] = "done" =>
                      grace # {} \/ (Running(t) /\ Heard(t))

BusyInv == ClaimIsNewest /\ SecondIdIsLate /\ ClaimedIsHeard /\ NewestIsHeard

LEMMA BeginKeepsOwner ==
  ASSUME TypeInv, BusyInv, NEW t \in Turns, NEW th \in Threads, NEW p, SameProgress(p),
         NEW gens, NEW bnd, Begin(t, th, p, gens, bnd), retired' = retired
  PROVE  BusyInv'
<1>1. /\ pc' = [p EXCEPT ![t] = "setup"] /\ claim' = [id |-> t, phase |-> "setup"]
      /\ latest' = t /\ pc'[t] = "setup" /\ pc[t] = "none" /\ t # None
  BY NoneAssumption DEF Begin, SameProgress
<1>2. ClaimIsNewest'
  BY <1>1 DEF ClaimIsNewest
<1>3. SecondIdIsLate'
  BY <1>1 DEF BusyInv, SecondIdIsLate, SameProgress
<1>4. ClaimedIsHeard' /\ NewestIsHeard'
  BY <1>1 DEF ClaimedIsHeard, NewestIsHeard
<1> QED
  BY <1>2, <1>3, <1>4 DEF BusyInv

LEMMA DrainKeepsOwner ==
  ASSUME TypeInv, BusyInv, NEW kinds, NEW p, SameProgress(p), NEW gens, NEW bnd,
         NEW act \in {"idle", "dead"}, Drain(kinds, p, claim, gens, bnd, act),
         UNCHANGED <<retired, pending>>,
         claim.id # None => p[claim.id] = pc[claim.id]
  PROVE  BusyInv'
<1>1. CASE Rest(p, claim, gens, bnd, act)
  <2>1. /\ ~Busy' /\ pc' = p /\ UNCHANGED <<claim, latest, turnThread>>
    BY <1>1 DEF Rest, Busy
  <2>2. ClaimIsNewest' /\ SecondIdIsLate'
    BY <2>1 DEF BusyInv, ClaimIsNewest, SecondIdIsLate, SameProgress, TypeInv, TypeOK
  <2>3. ClaimedIsHeard' /\ NewestIsHeard'
    BY <2>1, NoneAssumption DEF BusyInv, ClaimedIsHeard, NewestIsHeard, Heard, Gate
  <2> QED
    BY <2>2, <2>3 DEF BusyInv
<1>2. ASSUME NEW t \in Turns, NEW th \in Threads, Begin(t, th, p, gens, bnd)
      PROVE  BusyInv'
  BY <1>2, BeginKeepsOwner
<1> QED
  BY <1>1, <1>2, DrainMoves

(* Steps that move no turn and quarantine nothing. *)
LEMMA QuietKeepsOwner ==
  ASSUME BusyInv, UNCHANGED <<claim, latest, turnThread, pc, retired, provider, grace>>,
         pending' \subseteq pending, Busy' <=> Busy
  PROVE  BusyInv'
BY DEF BusyInv, ClaimIsNewest, SecondIdIsLate, ClaimedIsHeard, NewestIsHeard, Heard, Gate, Running

LEMMA PersonKeepsOwner ==
  ASSUME TypeInv, BusyInv,
         \/ \E w \in Words : Send(w) \/ CancelQueued(w)
         \/ \E w \in Words, th \in Threads : SteerReturns(w, th)
         \/ \E th \in Threads, k \in ResumeKinds : ResumeArrives(th, k)
  PROVE  BusyInv'
<1>1. current \in Threads /\ UNCHANGED <<retired, pending, provider, grace>> /\ SameProgress(pc)
  BY DEF TypeInv, TypeOK, SameProgress, Send, CancelQueued, SteerReturns, ResumeArrives,
         quarantineVars, providerVars
<1>2. ASSUME NEW t \in Turns, NEW th \in Threads, Begin(t, th, pc, activeGen, bound)
      PROVE  BusyInv'
  BY <1>1, <1>2, BeginKeepsOwner
<1>3. ASSUME UNCHANGED dispatchVars PROVE BusyInv'
  BY <1>1, <1>3, QuietKeepsOwner DEF dispatchVars, Busy
<1> QED
  BY <1>1, <1>2, <1>3 DEF Send, CancelQueued, SteerReturns, ResumeArrives, dispatchVars

LEMMA OtherStepsKeepOwner ==
  ASSUME BusyInv, \/ \E th \in Threads : SwitchTask(th)
                  \/ \E t \in Turns : ExpireHandshake(t)
                  \/ \E s \in stops : StopReaches(s)
                  \/ ToggleGate \/ UNCHANGED vars
  PROVE  BusyInv'
<1>1. UNCHANGED <<activity, claim, latest, turnThread, pc, retired, provider, grace>>
      /\ pending' \subseteq pending
  BY DEF SwitchTask, ExpireHandshake, StopReaches, ToggleGate, vars, dispatchVars,
         quarantineVars, providerVars
<1> QED
  BY <1>1, QuietKeepsOwner DEF Busy

(* The claim that a Stop takes away is of the newest turn, which then is   *)
(* in its catch block or on its way there.                                 *)
LEMMA StopKeepsOwner ==
  ASSUME TypeInv, BusyInv, NEW e \in Threads \cup {None}, Stop(e)
  PROVE  BusyInv'
<1>1. UNCHANGED <<activity, latest, turnThread, pc, retired, provider, grace>>
  BY DEF Stop, providerVars
<1>2. CASE UNCHANGED <<claim, pending>>
  BY <1>1, <1>2, QuietKeepsOwner DEF Busy
<1>3. CASE claim' = NoClaim /\ claim.id # None /\ pending' \subseteq pending \cup {claim.id}
  <2>1. ClaimIsNewest' /\ SecondIdIsLate' /\ ClaimedIsHeard'
    BY <1>1, <1>3, NoneAssumption
    DEF BusyInv, ClaimIsNewest, SecondIdIsLate, ClaimedIsHeard, NoClaim, Busy
  <2>2. NewestIsHeard'
    BY <1>1, <1>3 DEF BusyInv, ClaimIsNewest, NewestIsHeard, Busy
  <2> QED
    BY <2>1, <2>2 DEF BusyInv
<1> QED
  BY <1>2, <1>3 DEF Stop

LEMMA StallKeepsOwner ==
  ASSUME BusyInv, NEW th \in Threads, Stall(th)
  PROVE  BusyInv'
<1>1. /\ UNCHANGED <<activity, claim, latest, turnThread, pc, retired, pending, provider>>
      /\ grace' # {}
  BY DEF Stall, quarantineVars
<1> QED
  BY <1>1
  DEF BusyInv, ClaimIsNewest, SecondIdIsLate, ClaimedIsHeard, NewestIsHeard, Heard, Gate, Busy

LEMMA GraceEndsKeepsOwner ==
  ASSUME TypeInv, BusyInv, NEW g \in grace, GraceEnds(g)
  PROVE  BusyInv'
<1>1. UNCHANGED <<retired, pending, provider>> /\ SameProgress(pc)
  BY DEF GraceEnds, quarantineVars, providerVars, SameProgress, TypeInv, TypeOK
<1>2. CASE Drain(GraceKinds, pc, claim, activeGen, bound, "idle")
  BY <1>1, <1>2, DrainKeepsOwner
<1>3. CASE ~Busy /\ UNCHANGED dispatchVars
  BY <1>1, <1>3 DEF dispatchVars, BusyInv, ClaimIsNewest, SecondIdIsLate, ClaimedIsHeard,
                    NewestIsHeard, Heard, Gate, Busy
<1> QED
  BY <1>2, <1>3 DEF GraceEnds
------------------------------------------------------------------------------
(* The asynchronous half of startTurn.                                     *)
LEMMA CatchKeepsOwner ==
  ASSUME TypeInv, BusyInv, NEW t \in Turns, NEW kind \in {"cancelled", "failed"},
         CatchEntry(t, kind), pc[t] # "none", retired' \subseteq retired \cup {<<t, 1>>},
         \A u \in Turns \ {t} : provider'[u] = provider[u], UNCHANGED grace
  PROVE  BusyInv'
<1>1. /\ UNCHANGED <<activity, latest, turnThread>> /\ pc'[t] = kind
      /\ \A u \in Turns \ {t} : pc'[u] = pc[u]
      /\ claim' = NoClaim \/ (claim' = claim /\ claim.id # t)
      /\ pending' \subseteq pending
  BY DEF CatchEntry, Cleared, ClaimExists, TypeInv, TypeOK
<1>2. claim.id \in Turns \cup {None} /\ latest \in Turns \cup {None}
  BY DEF TypeInv, TypeOK
<1>3. ClaimIsNewest'
  BY <1>1, <1>2, NoneAssumption DEF BusyInv, ClaimIsNewest, NoClaim, Busy
<1>4. SecondIdIsLate'
  BY <1>1 DEF BusyInv, SecondIdIsLate
<1>5. ASSUME NEW u \in Turns, Heard(u), u # t PROVE Heard(u)'
  BY <1>1, <1>5 DEF Heard, Gate
<1>6. ClaimedIsHeard' /\ NewestIsHeard'
  BY <1>1, <1>5, NoneAssumption
  DEF BusyInv, ClaimedIsHeard, NewestIsHeard, NoClaim, Busy, Running
<1> QED
  BY <1>3, <1>4, <1>6 DEF BusyInv

(* A step of t from one await to the next, or to its end. *)
LEMMA AwaitKeepsOwner ==
  ASSUME TypeInv, BusyInv, NEW t \in Turns, pc[t] # "none", NEW v \in Pcs \ {"none"},
         v \in {"setup", "waiting"} => pc[t] \in {"setup", "waiting"},
         pc' = [pc EXCEPT ![t] = v], UNCHANGED <<activity, latest, turnThread, pending, retired, grace>>,
         \A u \in Turns \ {t} : provider'[u] = provider[u],
         claim'.id = None \/ (claim'.id = claim.id /\ (claim.id = t => v \in {"waiting", "sending"})),
         claim'.id = t /\ v = "sending" => Heard(t) /\ provider'[t] # "done",
         Busy /\ latest = t /\ v = "done" => Heard(t) /\ provider'[t] = "live"
  PROVE  BusyInv'
<1>1. pc'[t] = v /\ \A u \in Turns \ {t} : pc'[u] = pc[u]
  BY DEF TypeInv, TypeOK
<1>2. claim.id \in Turns \cup {None} /\ latest \in Turns \cup {None}
  BY DEF TypeInv, TypeOK
<1>3. ClaimIsNewest'
  BY <1>1, <1>2, NoneAssumption DEF BusyInv, ClaimIsNewest, Busy
<1>4. SecondIdIsLate'
  BY <1>1 DEF BusyInv, SecondIdIsLate
<1>5. \A u \in Turns : Heard(u) => Heard(u)'
  BY DEF Heard, Gate
<1>6. ClaimedIsHeard' /\ NewestIsHeard'
  BY <1>1, <1>2, <1>5, NoneAssumption
  DEF BusyInv, ClaimedIsHeard, NewestIsHeard, Busy, Running
<1> QED
  BY <1>3, <1>4, <1>6 DEF BusyInv

LEMMA AbandonKeepsOwner ==
  ASSUME TypeInv, BusyInv, NEW t \in Turns,
         SetupEnds(t) \/ SetupFails(t) \/ SendRejects(t) \/ GuardStopReturns(t)
  PROVE  BusyInv'
<1>1. ASSUME NEW kind \in {"cancelled", "failed"}, CatchEntry(t, kind) PROVE BusyInv'
  <2>1. /\ pc[t] # "none" /\ retired' \subseteq retired \cup {<<t, 1>>} /\ UNCHANGED grace
        /\ \A u \in Turns \ {t} : provider'[u] = provider[u]
    BY DEF SetupEnds, SetupFails, SendRejects, GuardStopReturns, providerVars, TypeInv, TypeOK
  <2> QED
    BY <1>1, <2>1, CatchKeepsOwner
<1>2. ASSUME pc[t] = "setup", pc' = [pc EXCEPT ![t] = "waiting"],
             UNCHANGED <<activity, claim, latest, turnThread, pending, retired, grace, provider>>
      PROVE  BusyInv'
  BY <1>2, AwaitKeepsOwner DEF Pcs
<1> QED
  BY <1>1, <1>2 DEF SetupEnds, SetupFails, SendRejects, GuardStopReturns, providerVars

LEMMA DispatchKeepsOwner ==
  ASSUME TypeInv, BusyInv, NEW t \in Turns, Dispatch(t)
  PROVE  BusyInv'
<1>1. pc[t] = "waiting" /\ ~Gate(turnThread[t]) /\ UNCHANGED <<retired, grace>>
  BY DEF Dispatch
<1>2. Heard(t)
  BY <1>1 DEF BusyInv, SecondIdIsLate, Heard, TypeInv, Started
<1>3. CASE CatchEntry(t, "cancelled") /\ UNCHANGED provider
  BY <1>1, <1>3, CatchKeepsOwner
<1>4. ASSUME pc' = [pc EXCEPT ![t] = "sending"], claim' = [claim EXCEPT !.phase = "dispatching"],
             provider' = [provider EXCEPT ![t] =
                            IF adapter[turnThread[t]] = None THEN "pending" ELSE "rejected"],
             UNCHANGED <<activity, latest, turnThread, pending>>
      PROVE  BusyInv'
  <2>1. provider'[t] # "done" /\ \A u \in Turns \ {t} : provider'[u] = provider[u]
    BY <1>4 DEF TypeInv, TypeOK
  <2>2. claim'.id = claim.id
    BY <1>4 DEF TypeInv, TypeOK
  <2> QED
    BY <1>1, <1>2, <1>4, <2>1, <2>2, AwaitKeepsOwner DEF Pcs
<1> QED
  BY <1>3, <1>4 DEF Dispatch

LEMMA SendResolvesKeepsOwner ==
  ASSUME TypeInv, BusyInv, NEW t \in Turns, SendResolves(t)
  PROVE  BusyInv'
<1>1. /\ pc[t] = "sending" /\ provider[t] \in {"live", "done"}
      /\ UNCHANGED <<activity, latest, turnThread, pending, retired, grace, provider>>
  BY DEF SendResolves, quarantineVars
<1>2. CASE claim.id = t /\ claim' = NoClaim /\ pc' = [pc EXCEPT ![t] = "done"]
  <2>1. Heard(t) /\ (Busy => provider[t] = "live")
    BY <1>1, <1>2 DEF BusyInv, ClaimedIsHeard
  <2> QED
    BY <1>1, <1>2, <2>1, AwaitKeepsOwner, NoneAssumption DEF Pcs, NoClaim
<1>3. CASE claim.id # t /\ claim' = claim /\ pc' = [pc EXCEPT ![t] = "stopping"]
  BY <1>1, <1>3, AwaitKeepsOwner DEF Pcs
<1> QED
  BY <1>2, <1>3 DEF SendResolves, ClaimExists

LEMMA CatchEndsKeepsOwner ==
  ASSUME TypeInv, BusyInv, NEW t \in Turns, CatchEnds(t)
  PROVE  BusyInv'
<1> DEFINE p == [pc EXCEPT ![t] = "done"]
<1>1. SameProgress(p) /\ UNCHANGED <<retired, pending, grace, provider>>
  BY DEF CatchEnds, SameProgress, TypeInv, TypeOK, Pcs, quarantineVars, providerVars
<1>2. pc[t] \in {"cancelled", "failed"} /\ claim.id # t
  BY NoneAssumption DEF CatchEnds, BusyInv, ClaimIsNewest
<1>3. CASE Drain(CatchKinds, p, claim, activeGen, bound, AfterCatch(t))
  <2>1. claim.id # None => p[claim.id] = pc[claim.id]
    BY <1>2 DEF TypeInv, TypeOK
  <2>2. AfterCatch(t) \in {"idle", "dead"}
    BY DEF AfterCatch, Busy, TypeInv, TypeOK, Activities
  <2> HIDE DEF p
  <2> QED
    BY <1>1, <1>3, <2>1, <2>2, DrainKeepsOwner
<1>4. CASE latest # t /\ pc' = p /\ UNCHANGED <<activity, claim, latest, turnThread>>
  BY <1>1, <1>2, <1>4, AwaitKeepsOwner DEF Pcs
<1> QED
  BY <1>3, <1>4 DEF CatchEnds
------------------------------------------------------------------------------
(* The provider.                                                           *)
LEMMA Reveals ==
  ASSUME NEW t, retired' \subseteq retired \cup (IF Gate(turnThread[t]) THEN {<<t, 1>>, <<t, 2>>} ELSE {}),
         UNCHANGED <<turnThread, pending>>, NEW u, Heard(u)
  PROVE  Heard(u)'
BY DEF Heard, Gate

LEMMA EventKeepsOwner ==
  ASSUME TypeInv, BusyInv, NEW t \in Turns,
         ProviderStarts(t) \/ Relaunch(t) \/ Ask(t) \/ Answer(t)
  PROVE  BusyInv'
<1>1. /\ UNCHANGED <<claim, latest, turnThread, pc, pending, grace>> /\ (Busy' <=> Busy)
      /\ retired' \subseteq
           retired \cup (IF Gate(turnThread[t]) THEN {<<t, 1>>, <<t, 2>>} ELSE {})
  BY DEF ProviderStarts, Relaunch, Ask, Answer, dispatchVars, Revealed, IdOf, Busy
<1>2. /\ provider[t] \in {"pending", "live"} /\ provider'[t] = "live"
      /\ \A u \in Turns \ {t} : provider'[u] = provider[u]
  BY DEF ProviderStarts, Relaunch, Ask, Answer, Running, TypeInv, TypeOK
<1>3. pc[t] \notin {"none", "setup", "waiting"}
  BY <1>2 DEF TypeInv, Started
<1>4. \A u \in Turns : Heard(u) => Heard(u)'
  BY <1>1, Reveals
<1>5. ClaimIsNewest' /\ SecondIdIsLate'
  BY <1>1, <1>3 DEF BusyInv, ClaimIsNewest, SecondIdIsLate
<1>6. ClaimedIsHeard'
  BY <1>1, <1>2, <1>4 DEF BusyInv, ClaimedIsHeard
<1>7. NewestIsHeard'
  BY <1>1, <1>2, <1>4 DEF BusyInv, NewestIsHeard, Running
<1> QED
  BY <1>5, <1>6, <1>7 DEF BusyInv

LEMMA SettleKeepsOwner ==
  ASSUME TypeInv, BusyInv, NEW t \in Turns, NEW e \in BOOLEAN, Settle(t, e)
  PROVE  BusyInv'
<1>1. /\ provider[t] \in {"pending", "live"} /\ UNCHANGED <<pending, grace>>
      /\ retired' = retired \cup Revealed(t)
      /\ \A u \in Turns \ {t} : provider'[u] = provider[u]
  BY DEF Settle, Running, TypeInv, TypeOK
<1>2. pc[t] \notin {"none", "setup", "waiting"}
  BY <1>1 DEF TypeInv, Started
<1>3. CASE Quarantined(t)
  <2>1. UNCHANGED <<activity, claim, latest, turnThread, pc>>
    BY <1>3 DEF Settle, dispatchVars
  <2>2. ~Heard(t)
    BY <1>3 DEF Quarantined, Heard, IdOf
  <2>3. \A u \in Turns : Heard(u) => Heard(u)'
    BY <1>1, <2>1, Reveals DEF Revealed, IdOf
  <2>4. ClaimIsNewest' /\ SecondIdIsLate'
    BY <1>1, <1>2, <2>1 DEF BusyInv, ClaimIsNewest, SecondIdIsLate, Revealed, IdOf, Busy
  <2>5. ClaimedIsHeard' /\ NewestIsHeard'
    BY <1>1, <2>1, <2>2, <2>3 DEF BusyInv, ClaimedIsHeard, NewestIsHeard, Busy, Running
  <2> QED
    BY <2>4, <2>5 DEF BusyInv
<1>4. CASE ~Quarantined(t)
  <2>1. retired' = retired /\ SameProgress(pc)
    BY <1>1, <1>4 DEF Quarantined, Revealed, SameProgress, TypeInv, TypeOK
  <2>2. ASSUME NEW gens, NEW bnd, NEW act \in {"idle", "dead"},
               Drain(ResumeKinds, pc, claim, gens, bnd, act)
        PROVE  BusyInv'
    BY <1>1, <2>1, <2>2, DrainKeepsOwner
  <2> QED
    BY <1>4, <2>2 DEF Settle
<1> QED
  BY <1>3, <1>4

LEMMA BusyStep == TypeInv /\ BusyInv /\ [Next]_vars => BusyInv'
<1> SUFFICES ASSUME TypeInv, BusyInv, [Next]_vars PROVE BusyInv'
  OBVIOUS
<1>1. ASSUME NEW t \in Turns, TurnStep(t) PROVE BusyInv'
  BY <1>1, AbandonKeepsOwner, DispatchKeepsOwner, SendResolvesKeepsOwner, CatchEndsKeepsOwner
     DEF TurnStep
<1>2. ASSUME NEW t \in Turns, ProviderStep(t) PROVE BusyInv'
  BY <1>2, EventKeepsOwner, SettleKeepsOwner DEF ProviderStep
<1> QED
  BY <1>1, <1>2, PersonKeepsOwner, OtherStepsKeepOwner, StopKeepsOwner, StallKeepsOwner,
     GraceEndsKeepsOwner DEF Next

LEMMA BusyInit == Init => BusyInv
BY NoneAssumption
   DEF Init, BusyInv, ClaimIsNewest, SecondIdIsLate, ClaimedIsHeard, NewestIsHeard, NoClaim, Busy

(* Whatever the provider does and whenever the timers fire, a busy bot has *)
(* a dispatch that is under way, a provider turn whose end the fold will   *)
(* not ignore, or a grace timer: nothing leaves it busy for ever.          *)
THEOREM BusyBotsAreHeld == Spec => []BusyBotHasOwner
<1>1. TypeInv /\ BusyInv => BusyBotHasOwner
  <2> SUFFICES ASSUME TypeInv, BusyInv, Busy, grace = {}, pc[latest] \in {"none", "done"}
               PROVE  \E t \in Turns : Running(t) /\ IdOf(t) \notin retired
    BY DEF BusyBotHasOwner, BusyInv, ClaimIsNewest
  <2>1. latest \in Turns /\ pc[latest] = "done"
    BY DEF BusyInv, ClaimIsNewest, TypeInv, TypeOK
  <2>2. Running(latest) /\ Heard(latest)
    BY <2>1 DEF BusyInv, NewestIsHeard
  <2> QED
    BY <2>1, <2>2 DEF Heard, IdOf
<1> QED
  BY <1>1, BusyInit, BusyStep, TypeInvariant, PTL DEF Spec
------------------------------------------------------------------------------
(***************************************************************************)
(* One provider turn.  Without stalls, a turn at its provider either holds *)
(* the busy bot or was stopped after its dispatch: then its first id is    *)
(* retired, and it gets no second one.                                     *)
(***************************************************************************)
Active(t) == provider[t] \in {"pending", "live"}
Ended(t) == t \in interrupted /\ <<t, 1>> \in retired /\ t \notin relaunched

ActiveIsOwned ==
  \A t \in Turns : Active(t) =>
    /\ (latest = t /\ Busy) \/ Ended(t)
    /\ pc[t] = "stopping" => t \in interrupted
    /\ pc[t] \in {"cancelled", "failed"} => Ended(t)

(* The adapter runs what it says it runs.  The primed part is what a step  *)
(* that ends in a drain leaves behind; p is pc before that drain.          *)
AdapterBefore(p) ==
  /\ \A t \in Turns : provider'[t] = "pending" =>
       p[t] = "sending" /\ adapter'[turnThread[t]] = None
  /\ \A t \in Turns : provider'[t] = "live" => adapter'[turnThread[t]] = t
  /\ \A th \in Threads : adapter'[th] # None =>
       provider'[adapter'[th]] = "live" /\ turnThread[adapter'[th]] = th
  /\ \A t \in interrupted' : provider'[t] \notin {"none", "pending"}
  /\ \A t \in relaunched' : p[t] = "done"

AdapterIsRight ==
  /\ \A t \in Turns : provider[t] = "pending" =>
       pc[t] = "sending" /\ adapter[turnThread[t]] = None
  /\ \A t \in Turns : provider[t] = "live" => adapter[turnThread[t]] = t
  /\ \A th \in Threads : adapter[th] # None =>
       provider[adapter[th]] = "live" /\ turnThread[adapter[th]] = th
  /\ \A t \in interrupted : provider[t] \notin {"none", "pending"}
  /\ \A t \in relaunched : pc[t] = "done"

AloneInv == grace = {} /\ ActiveIsOwned /\ AdapterIsRight

LEMMA BeginKeepsAlone ==
  ASSUME TypeInv, TypeInv', NEW t \in Turns, NEW th \in Threads, NEW p, SameProgress(p),
         NEW gens, NEW bnd, Begin(t, th, p, gens, bnd), grace' = {},
         AdapterBefore(p), provider'[t] = "none",
         \A u \in Turns : Active(u)' => Ended(u)'
  PROVE  AloneInv'
<1>1. /\ pc' = [p EXCEPT ![t] = "setup"] /\ p[t] = "none"
      /\ turnThread' = [turnThread EXCEPT ![t] = th]
  BY DEF Begin
<1>2. \A u \in Turns \ {t} : pc'[u] = p[u] /\ turnThread'[u] = turnThread[u]
  BY <1>1 DEF SameProgress, TypeInv, TypeOK
<1>3. /\ interrupted' \subseteq Turns /\ relaunched' \subseteq Turns
      /\ adapter' \in [Threads -> Turns \cup {None}]
  BY DEF TypeInv, TypeOK
<1>4. ActiveIsOwned'
  BY DEF ActiveIsOwned, Ended
<1>5. /\ \A u \in Turns : provider'[u] = "pending" =>
            pc'[u] = "sending" /\ adapter'[turnThread'[u]] = None
      /\ \A u \in Turns : provider'[u] = "live" => adapter'[turnThread'[u]] = u
  BY <1>2 DEF AdapterBefore
<1>6. \A h \in Threads : adapter'[h] # None =>
         provider'[adapter'[h]] = "live" /\ turnThread'[adapter'[h]] = h
  BY <1>2, <1>3 DEF AdapterBefore
<1>7. \A u \in relaunched' : pc'[u] = "done"
  BY <1>1, <1>2, <1>3 DEF AdapterBefore
<1>8. AdapterIsRight'
  BY <1>5, <1>6, <1>7 DEF AdapterBefore, AdapterIsRight
<1> QED
  BY <1>4, <1>8 DEF AloneInv

LEMMA DrainKeepsAlone ==
  ASSUME TypeInv, TypeInv', NEW kinds, NEW p, SameProgress(p), NEW cl, NEW gens, NEW bnd,
         NEW act, Drain(kinds, p, cl, gens, bnd, act), grace' = {}, AdapterBefore(p),
         \A u \in Turns : pc[u] = "none" => provider'[u] = "none",
         \A u \in Turns : Active(u)' => Ended(u)'
  PROVE  AloneInv'
<1>1. CASE Rest(p, cl, gens, bnd, act)
  <2>1. ActiveIsOwned'
    BY DEF ActiveIsOwned, Ended
  <2>2. AdapterIsRight'
    BY <1>1 DEF Rest, AdapterBefore, AdapterIsRight
  <2> QED
    BY <2>1, <2>2 DEF AloneInv
<1>2. ASSUME NEW t \in Turns, NEW th \in Threads, Begin(t, th, p, gens, bnd)
      PROVE  AloneInv'
  <2>1. pc[t] = "none"
    BY <1>2 DEF Begin, SameProgress
  <2> QED
    BY <1>2, <2>1, BeginKeepsAlone
<1> QED
  BY <1>1, <1>2, DrainMoves

(* Steps that leave the turns where they are: they may retire ids and tell *)
(* running turns to stop.                                                  *)
LEMMA QuietKeepsAlone ==
  ASSUME TypeInv, AloneInv,
         UNCHANGED <<latest, turnThread, pc, provider, adapter, relaunched, grace>>,
         Busy' <=> Busy, retired \subseteq retired', interrupted \subseteq interrupted',
         \A u \in interrupted' \ interrupted : \E th \in Threads : adapter[th] = u /\ u # None
  PROVE  AloneInv'
<1>1. ActiveIsOwned'
  BY DEF AloneInv, ActiveIsOwned, Active, Ended
<1>2. \A u \in interrupted' : provider'[u] \notin {"none", "pending"}
  BY DEF AloneInv, AdapterIsRight
<1>3. AdapterIsRight'
  BY <1>2 DEF AloneInv, AdapterIsRight
<1> QED
  BY <1>1, <1>3 DEF AloneInv

LEMMA PersonKeepsAlone ==
  ASSUME TypeInv, TypeInv', AloneInv,
         \/ \E w \in Words : Send(w) \/ CancelQueued(w)
         \/ \E w \in Words, th \in Threads : SteerReturns(w, th)
         \/ \E th \in Threads, k \in ResumeKinds : ResumeArrives(th, k)
  PROVE  AloneInv'
<1>1. /\ current \in Threads /\ SameProgress(pc)
      /\ UNCHANGED <<retired, provider, adapter, interrupted, relaunched, grace>>
  BY DEF TypeInv, TypeOK, SameProgress, Send, CancelQueued, SteerReturns, ResumeArrives,
         quarantineVars, providerVars
<1>2. ASSUME NEW t \in Turns, NEW th \in Threads, Begin(t, th, pc, activeGen, bound), ~Busy
      PROVE  AloneInv'
  <2>1. provider'[t] = "none"
    BY <1>1, <1>2 DEF Begin, TypeInv, Started
  <2>2. \A u \in Turns : Active(u)' => Ended(u)'
    BY <1>1, <1>2 DEF AloneInv, ActiveIsOwned, Active, Ended
  <2>3. AdapterBefore(pc) /\ grace' = {}
    BY <1>1 DEF AloneInv, AdapterIsRight, AdapterBefore
  <2> QED
    BY <1>1, <1>2, <2>1, <2>2, <2>3, BeginKeepsAlone
<1>3. ASSUME UNCHANGED dispatchVars PROVE AloneInv'
  BY <1>1, <1>3, QuietKeepsAlone DEF dispatchVars, Busy
<1> QED
  BY <1>1, <1>2, <1>3 DEF Send, CancelQueued, SteerReturns, ResumeArrives, dispatchVars

LEMMA OtherStepsKeepAlone ==
  ASSUME TypeInv, AloneInv,
         \/ \E th \in Threads : SwitchTask(th)
         \/ \E t \in Turns : ExpireHandshake(t) \/ Ask(t) \/ Answer(t)
         \/ \E e \in Threads \cup {None} : Stop(e)
         \/ \E s \in stops : StopReaches(s)
         \/ ToggleGate \/ UNCHANGED vars
  PROVE  AloneInv'
<1>1. /\ UNCHANGED <<latest, turnThread, pc, provider, adapter, relaunched, grace>>
      /\ (Busy' <=> Busy) /\ retired \subseteq retired'
  BY DEF SwitchTask, ExpireHandshake, Ask, Answer, Stop, StopReaches, ToggleGate, vars,
         dispatchVars, quarantineVars, providerVars, Busy
<1>2. interrupted' = interrupted \/ \E s \in stops : Interrupt(s.thread)
  BY DEF SwitchTask, ExpireHandshake, Ask, Answer, Stop, StopReaches, ToggleGate, vars, providerVars
<1>3. \A s \in stops : s.thread \in Threads
  BY DEF TypeInv, TypeOK
<1> QED
  BY <1>1, <1>2, <1>3, QuietKeepsAlone DEF Interrupt
------------------------------------------------------------------------------
(* The asynchronous half of startTurn.                                     *)
LEMMA CatchKeepsAlone ==
  ASSUME TypeInv, AloneInv, NEW t \in Turns, NEW kind, CatchEntry(t, kind),
         \/ pc[t] \in {"setup", "waiting", "stopping"} /\ provider' = provider
         \/ /\ pc[t] = "sending" /\ provider[t] \in {"pending", "rejected"}
            /\ provider' = [provider EXCEPT ![t] = "done"],
         Active(t)' => Ended(t)',
         retired \subseteq retired', UNCHANGED <<adapter, interrupted, relaunched, grace>>
  PROVE  AloneInv'
<1>1. /\ UNCHANGED <<activity, latest, turnThread>>
      /\ \A u \in Turns \ {t} : pc'[u] = pc[u] /\ provider'[u] = provider[u]
  BY DEF CatchEntry, TypeInv, TypeOK
<1>2. /\ provider'[t] # "pending" /\ (provider'[t] = "live" <=> provider[t] = "live")
      /\ (provider'[t] = "none" => provider[t] = "none") /\ t \notin relaunched
  BY DEF AloneInv, AdapterIsRight, TypeInv, TypeOK
<1>3. ActiveIsOwned'
  <2>1. \A u \in Turns : u # t /\ Ended(u) => Ended(u)'
    BY DEF Ended
  <2>2. \A u \in Turns : u # t /\ Active(u)' => Active(u)
    BY <1>1 DEF Active
  <2> QED
    BY <1>1, <2>1, <2>2 DEF AloneInv, ActiveIsOwned, Busy, Ended
<1>4. \A th \in Threads : adapter[th] # None => provider'[adapter[th]] = "live"
  BY <1>1, <1>2 DEF AloneInv, AdapterIsRight, TypeInv, TypeOK
<1>5. \A u \in interrupted : provider'[u] \notin {"none", "pending"}
  BY <1>1, <1>2 DEF AloneInv, AdapterIsRight, TypeInv, TypeOK
<1>6. AdapterIsRight'
  BY <1>1, <1>2, <1>4, <1>5 DEF AloneInv, AdapterIsRight, TypeInv, TypeOK
<1> QED
  BY <1>3, <1>6 DEF AloneInv

LEMMA AbandonKeepsAlone ==
  ASSUME TypeInv, AloneInv, NEW t \in Turns,
         SetupEnds(t) \/ SetupFails(t) \/ SendRejects(t) \/ GuardStopReturns(t)
  PROVE  AloneInv'
<1>1. CASE SendRejects(t)
  <2>1. provider' = [provider EXCEPT ![t] = "done"] /\ provider'[t] = "done"
    BY <1>1 DEF SendRejects, TypeInv, TypeOK
  <2> QED
    BY <1>1, <2>1, CatchKeepsAlone DEF SendRejects, Active
<1>2. CASE GuardStopReturns(t)
  <2>1. pc[t] = "stopping" /\ UNCHANGED <<provider, interrupted, relaunched>>
        /\ retired' = retired \cup {<<t, 1>>}
    BY <1>2 DEF GuardStopReturns, providerVars
  <2>2. Active(t)' => Ended(t)'
    BY <2>1 DEF AloneInv, ActiveIsOwned, AdapterIsRight, Active, Ended
  <2> QED
    BY <1>2, <2>1, <2>2, CatchKeepsAlone DEF GuardStopReturns, providerVars
<1>3. ASSUME pc[t] = "setup", UNCHANGED <<providerVars, retired, grace>>
      PROVE  provider[t] = "none" /\ ~Active(t)'
  BY <1>3 DEF Active, providerVars, TypeInv, Started
<1>4. ASSUME NEW kind, CatchEntry(t, kind), pc[t] = "setup", UNCHANGED <<providerVars, retired, grace>>
      PROVE  AloneInv'
  BY <1>3, <1>4, CatchKeepsAlone DEF providerVars
<1>5. ASSUME pc[t] = "setup", pc' = [pc EXCEPT ![t] = "waiting"],
             UNCHANGED <<activity, latest, turnThread, providerVars, retired, grace>>
      PROVE  AloneInv'
  <2>1. \A u \in Turns \ {t} : pc'[u] = pc[u]
    BY <1>5 DEF TypeInv, TypeOK
  <2>2. provider[t] = "none"
    BY <1>3, <1>5
  <2>3. ActiveIsOwned'
    BY <1>5, <2>1, <2>2 DEF AloneInv, ActiveIsOwned, Active, Ended, Busy, providerVars
  <2>4. AdapterIsRight'
    BY <1>5, <2>1, <2>2 DEF AloneInv, AdapterIsRight, providerVars, TypeInv, TypeOK
  <2> QED
    BY <1>5, <2>3, <2>4 DEF AloneInv
<1> QED
  BY <1>1, <1>2, <1>4, <1>5 DEF SetupEnds, SetupFails

(* A turn is sent while it holds the claim, so it is the newest one. *)
LEMMA DispatchKeepsAlone ==
  ASSUME TypeInv, BusyInv, AloneInv, NEW t \in Turns, Dispatch(t)
  PROVE  AloneInv'
<1>1. /\ pc[t] = "waiting" /\ provider[t] = "none"
      /\ UNCHANGED <<adapter, interrupted, relaunched, retired, grace>>
  BY DEF Dispatch, TypeInv, Started
<1>2. CASE CatchEntry(t, "cancelled") /\ UNCHANGED provider
  BY <1>1, <1>2, CatchKeepsAlone DEF Active
<1>3. ASSUME ClaimIsCurrent(t), pc' = [pc EXCEPT ![t] = "sending"],
             provider' = [provider EXCEPT ![t] =
                            IF adapter[turnThread[t]] = None THEN "pending" ELSE "rejected"],
             UNCHANGED <<activity, latest, turnThread>>
      PROVE  AloneInv'
  <2>1. /\ pc'[t] = "sending" /\ provider'[t] \in {"pending", "rejected"}
        /\ (provider'[t] = "pending" => adapter[turnThread[t]] = None)
        /\ \A u \in Turns \ {t} : pc'[u] = pc[u] /\ provider'[u] = provider[u]
    BY <1>3 DEF TypeInv, TypeOK
  <2>2. latest = t /\ Busy
    BY <1>3, NoneAssumption DEF ClaimIsCurrent, ClaimExists, BusyInv, ClaimIsNewest
  <2>3. ActiveIsOwned'
    BY <1>1, <1>3, <2>1, <2>2 DEF AloneInv, ActiveIsOwned, Active, Ended, Busy
  <2>4. t \notin interrupted /\ t \notin relaunched
    BY <1>1 DEF AloneInv, AdapterIsRight
  <2>5. \A th \in Threads : adapter[th] # None => adapter[th] \in Turns \ {t}
    BY <1>1 DEF AloneInv, AdapterIsRight, TypeInv, TypeOK
  <2>6. AdapterIsRight'
    BY <1>1, <1>3, <2>1, <2>4, <2>5 DEF AloneInv, AdapterIsRight, TypeInv, TypeOK
  <2> QED
    BY <1>1, <2>3, <2>6 DEF AloneInv
<1> QED
  BY <1>2, <1>3 DEF Dispatch

LEMMA SendResolvesKeepsAlone ==
  ASSUME TypeInv, AloneInv, NEW t \in Turns, SendResolves(t)
  PROVE  AloneInv'
<1>1. /\ pc[t] = "sending" /\ provider[t] \in {"live", "done"}
      /\ UNCHANGED <<activity, latest, turnThread, provider, adapter, relaunched, retired, grace>>
  BY DEF SendResolves, quarantineVars
<1>2. PICK v \in {"done", "stopping"} : pc' = [pc EXCEPT ![t] = v]
  BY DEF SendResolves
<1>3. pc'[t] = v /\ \A u \in Turns \ {t} : pc'[u] = pc[u]
  BY <1>2 DEF TypeInv, TypeOK
<1>4. interrupted' = interrupted \/ interrupted' = interrupted \cup ({adapter[turnThread[t]]} \ {None})
  BY DEF SendResolves, SecondInterrupt, Interrupt
<1>5. turnThread[t] \in Threads
  BY <1>1 DEF TypeInv, Started
<1>6. interrupted \subseteq interrupted' /\ \A u \in interrupted' : provider[u] \notin {"none", "pending"}
  BY <1>4, <1>5 DEF AloneInv, AdapterIsRight
<1>7. v = "stopping" /\ provider[t] = "live" => t \in interrupted'
  <2>1. v = "stopping" => SecondInterrupt(t)
    BY <1>3 DEF SendResolves, TypeInv, TypeOK
  <2>2. provider[t] = "live" => adapter[turnThread[t]] = t
    BY DEF AloneInv, AdapterIsRight
  <2> QED
    BY <2>1, <2>2, NoneAssumption DEF SecondInterrupt, Interrupt
<1>8. ActiveIsOwned'
  <2>1. \A u \in Turns : Ended(u) => Ended(u)'
    BY <1>1, <1>6 DEF Ended
  <2> QED
    BY <1>1, <1>3, <1>6, <1>7, <2>1 DEF AloneInv, ActiveIsOwned, Active, Busy
<1>9. AdapterIsRight'
  <2>1. t \notin relaunched
    BY <1>1 DEF AloneInv, AdapterIsRight
  <2>2. \A u \in Turns : provider'[u] = "pending" =>
          pc'[u] = "sending" /\ adapter'[turnThread'[u]] = None
    BY <1>1, <1>3 DEF AloneInv, AdapterIsRight
  <2>3. \A u \in relaunched' : pc'[u] = "done"
    BY <1>1, <1>3, <2>1 DEF AloneInv, AdapterIsRight, TypeInv, TypeOK
  <2>4. \A u \in interrupted' : provider'[u] \notin {"none", "pending"}
    BY <1>1, <1>6
  <2> QED
    BY <1>1, <2>2, <2>3, <2>4 DEF AloneInv, AdapterIsRight
<1> QED
  BY <1>1, <1>8, <1>9 DEF AloneInv

(* A turn whose catch block ends was stopped with its provider, or never   *)
(* reached it, so what the release starts runs alone.                      *)
LEMMA CatchEndsKeepsAlone ==
  ASSUME TypeInv, TypeInv', AloneInv, NEW t \in Turns, CatchEnds(t)
  PROVE  AloneInv'
<1> DEFINE p == [pc EXCEPT ![t] = "done"]
<1>1. /\ SameProgress(p) /\ pc[t] \in {"cancelled", "failed"}
      /\ UNCHANGED <<provider, adapter, interrupted, relaunched, retired, grace>>
  BY DEF CatchEnds, SameProgress, TypeInv, TypeOK, Pcs, quarantineVars, providerVars
<1>2. p[t] = "done" /\ \A u \in Turns \ {t} : p[u] = pc[u]
  BY DEF TypeInv, TypeOK
<1> HIDE DEF p
<1>3. AdapterBefore(p) /\ grace' = {}
  <2>1. relaunched \subseteq Turns /\ \A u \in relaunched : pc[u] = "done"
    BY DEF AloneInv, AdapterIsRight, TypeInv, TypeOK
  <2>2. \A u \in relaunched : p[u] = "done"
    BY <1>2, <2>1
  <2> QED
    BY <1>1, <1>2, <2>2 DEF AloneInv, AdapterIsRight, AdapterBefore
<1>4. CASE latest = t /\ Drain(CatchKinds, p, claim, activeGen, bound, AfterCatch(t))
  <2>1. \A u \in Turns : Active(u)' => Ended(u)'
    BY <1>1, <1>4 DEF AloneInv, ActiveIsOwned, Active, Ended
  <2>2. \A u \in Turns : pc[u] = "none" => provider'[u] = "none"
    BY <1>1 DEF TypeInv, Started
  <2> QED
    BY <1>1, <1>3, <1>4, <2>1, <2>2, DrainKeepsAlone
<1>5. CASE pc' = p /\ UNCHANGED <<activity, latest, turnThread>>
  <2>1. ActiveIsOwned'
    BY <1>1, <1>2, <1>5 DEF AloneInv, ActiveIsOwned, Active, Ended, Busy
  <2>2. AdapterIsRight'
    BY <1>3, <1>5 DEF AdapterBefore, AdapterIsRight
  <2> QED
    BY <1>3, <2>1, <2>2 DEF AloneInv
<1> QED
  BY <1>4, <1>5 DEF CatchEnds, p
------------------------------------------------------------------------------
(* The provider.                                                           *)
LEMMA StartKeepsAlone ==
  ASSUME TypeInv, AloneInv, NEW t \in Turns, ProviderStarts(t)
  PROVE  AloneInv'
<1> DEFINE th == turnThread[t]
<1>1. /\ provider[t] = "pending" /\ pc[t] = "sending" /\ th \in Threads /\ adapter[th] = None
      /\ UNCHANGED <<activity, latest, turnThread, pc, interrupted, relaunched, grace>>
      /\ retired \subseteq retired'
  BY DEF ProviderStarts, dispatchVars, AloneInv, AdapterIsRight, TypeInv, Started
<1>2. /\ provider'[t] = "live" /\ \A u \in Turns \ {t} : provider'[u] = provider[u]
      /\ adapter'[th] = t /\ \A h \in Threads \ {th} : adapter'[h] = adapter[h]
  BY <1>1 DEF ProviderStarts, TypeInv, TypeOK
<1>3. ActiveIsOwned'
  BY <1>1, <1>2 DEF AloneInv, ActiveIsOwned, Active, Ended, Busy
<1>4. \A u \in Turns : provider[u] = "pending" => u = t
  BY <1>1 DEF AloneInv, ActiveIsOwned, AdapterIsRight, Active, Ended
<1>5. \A u \in Turns : provider[u] = "live" => turnThread[u] # th
  BY <1>1, NoneAssumption DEF AloneInv, AdapterIsRight
<1>6. \A u \in Turns : provider[u] = "live" => turnThread[u] \in Threads
  BY DEF TypeInv, Started
<1>7. \A h \in Threads : adapter'[h] # None =>
         provider'[adapter'[h]] = "live" /\ turnThread'[adapter'[h]] = h
  BY <1>1, <1>2 DEF AloneInv, AdapterIsRight, TypeInv, TypeOK
<1>8. \A u \in interrupted' : provider'[u] \notin {"none", "pending"}
  BY <1>1, <1>2 DEF AloneInv, AdapterIsRight, TypeInv, TypeOK
<1>9. AdapterIsRight'
  BY <1>1, <1>2, <1>4, <1>5, <1>6, <1>7, <1>8 DEF AloneInv, AdapterIsRight
<1> QED
  BY <1>1, <1>3, <1>9 DEF AloneInv

LEMMA RelaunchKeepsAlone ==
  ASSUME TypeInv, AloneInv, NEW t \in Turns, Relaunch(t)
  PROVE  AloneInv'
<1>1. /\ provider[t] = "live" /\ pc[t] # "sending" /\ t \notin interrupted
      /\ relaunched' = relaunched \cup {t} /\ retired \subseteq retired'
      /\ UNCHANGED <<activity, latest, turnThread, pc, provider, adapter, interrupted, grace>>
  BY DEF Relaunch, Running, dispatchVars
<1>2. pc[t] = "done"
  BY <1>1 DEF AloneInv, ActiveIsOwned, Active, Ended, TypeInv, TypeOK, Started, Pcs
<1>3. ActiveIsOwned'
  BY <1>1 DEF AloneInv, ActiveIsOwned, Active, Ended, Busy
<1>4. AdapterIsRight'
  BY <1>1, <1>2 DEF AloneInv, AdapterIsRight
<1> QED
  BY <1>1, <1>3, <1>4 DEF AloneInv

(* A completion that the fold does not ignore is of the turn that holds    *)
(* the bot, so what the release starts runs alone.                         *)
LEMMA SettleKeepsAlone ==
  ASSUME TypeInv, TypeInv', AloneInv, NEW t \in Turns, NEW e \in BOOLEAN, Settle(t, e)
  PROVE  AloneInv'
<1> DEFINE th == turnThread[t]
<1>1. /\ Active(t) /\ provider'[t] = "done" /\ \A u \in Turns \ {t} : provider'[u] = provider[u]
      /\ UNCHANGED <<interrupted, relaunched, grace>> /\ retired \subseteq retired'
      /\ adapter' = IF provider[t] = "live" THEN [adapter EXCEPT ![th] = None] ELSE adapter
  BY DEF Settle, Active, Running, TypeInv, TypeOK
<1>2. pc[t] # "none" /\ th \in Threads
  BY <1>1 DEF Active, TypeInv, Started
<1>3. \A h \in Threads : adapter'[h] = adapter[h] \/ adapter'[h] = None
  BY <1>1, <1>2 DEF TypeInv, TypeOK
<1>4. \A h \in Threads : adapter'[h] # t
  <2>1. provider[t] = "live" => \A h \in Threads \ {th} : adapter[h] # t
    BY NoneAssumption DEF AloneInv, AdapterIsRight
  <2>2. provider[t] = "live" => adapter'[th] = None
    BY <1>1, <1>2 DEF TypeInv, TypeOK
  <2>3. provider[t] = "pending" => adapter' = adapter /\ \A h \in Threads : adapter[h] # t
    BY <1>1, NoneAssumption DEF AloneInv, AdapterIsRight
  <2> QED
    BY <1>1, <1>3, <2>1, <2>2, <2>3, NoneAssumption DEF Active
<1>5. \A u \in Turns \ {t} : provider[u] = "live" => adapter'[turnThread[u]] = u
  <2>1. ASSUME NEW u \in Turns \ {t}, provider[u] = "live" PROVE adapter'[turnThread[u]] = u
    <3>1. turnThread[u] \in Threads /\ adapter[turnThread[u]] = u
      BY <2>1 DEF AloneInv, AdapterIsRight, TypeInv, Started
    <3>2. provider[t] = "live" => turnThread[u] # th
      BY <2>1, <3>1 DEF AloneInv, AdapterIsRight
    <3> QED
      BY <1>1, <1>2, <3>1, <3>2 DEF TypeInv, TypeOK
  <2> QED
    BY <2>1
<1>6. \A u \in Turns : provider[u] = "pending" => turnThread[u] \in Threads
  BY DEF TypeInv, Started
<1>7. AdapterBefore(pc)
  <2>1. \A u \in Turns : provider'[u] = "pending" =>
          pc[u] = "sending" /\ adapter'[turnThread[u]] = None
    BY <1>1, <1>3, <1>6 DEF AloneInv, AdapterIsRight
  <2>2. \A u \in Turns : provider'[u] = "live" => adapter'[turnThread[u]] = u
    BY <1>1, <1>5
  <2>3. \A h \in Threads : adapter'[h] # None =>
          provider'[adapter'[h]] = "live" /\ turnThread[adapter'[h]] = h
    BY <1>1, <1>3, <1>4 DEF AloneInv, AdapterIsRight, TypeInv, TypeOK
  <2>4. \A u \in interrupted' : provider'[u] \notin {"none", "pending"}
    BY <1>1 DEF AloneInv, AdapterIsRight, TypeInv, TypeOK
  <2>5. \A u \in relaunched' : pc[u] = "done"
    BY <1>1 DEF AloneInv, AdapterIsRight
  <2> QED
    BY <2>1, <2>2, <2>3, <2>4, <2>5 DEF AdapterBefore
<1>8. /\ \A u \in Turns : Ended(u) => Ended(u)'
      /\ \A u \in Turns : Active(u)' => Active(u) /\ u # t
  BY <1>1 DEF Ended, Active
<1>9. CASE Quarantined(t)
  <2>1. UNCHANGED <<activity, latest, turnThread, pc>>
    BY <1>9 DEF Settle, dispatchVars
  <2>2. ActiveIsOwned'
    BY <1>1, <1>8, <2>1 DEF AloneInv, ActiveIsOwned, Busy
  <2>3. AdapterIsRight'
    BY <1>7, <2>1 DEF AdapterBefore, AdapterIsRight
  <2> QED
    BY <1>1, <2>2, <2>3 DEF AloneInv
<1>10. CASE ~Quarantined(t)
  <2>1. ~Ended(t)
    BY <1>10 DEF Quarantined, Ended, IdOf
  <2>2. latest = t
    BY <1>1, <2>1 DEF AloneInv, ActiveIsOwned
  <2>3. \A u \in Turns : Active(u)' => Ended(u)'
    BY <1>8, <2>2 DEF AloneInv, ActiveIsOwned
  <2>4. \A u \in Turns : pc[u] = "none" => provider'[u] = "none"
    BY <1>1, <1>2 DEF TypeInv, Started
  <2>5. SameProgress(pc) /\ grace' = {}
    BY <1>1 DEF SameProgress, AloneInv, TypeInv, TypeOK
  <2>6. ASSUME NEW gens, NEW bnd, NEW act, Drain(ResumeKinds, pc, claim, gens, bnd, act)
        PROVE  AloneInv'
    BY <1>7, <2>3, <2>4, <2>5, <2>6, DrainKeepsAlone
  <2> QED
    BY <1>10, <2>6 DEF Settle
<1> QED
  BY <1>9, <1>10

LEMMA NoStall == ASSUME MaxStalls = 0, TypeInv, NEW th PROVE ~Stall(th)
BY DEF Stall, TypeInv, TypeOK

LEMMA AloneStep ==
  ASSUME MaxStalls = 0
  PROVE  TypeInv /\ BusyInv /\ AloneInv /\ [Next]_vars => AloneInv'
<1> SUFFICES ASSUME TypeInv, BusyInv, AloneInv, [Next]_vars PROVE AloneInv'
  OBVIOUS
<1>1. TypeInv'
  BY TypeStep
<1>2. ASSUME NEW t \in Turns, TurnStep(t) PROVE AloneInv'
  BY <1>1, <1>2, AbandonKeepsAlone, DispatchKeepsAlone, SendResolvesKeepsAlone,
     CatchEndsKeepsAlone DEF TurnStep
<1>3. ASSUME NEW t \in Turns, ProviderStep(t) PROVE AloneInv'
  BY <1>1, <1>3, StartKeepsAlone, RelaunchKeepsAlone, OtherStepsKeepAlone, SettleKeepsAlone
     DEF ProviderStep
<1>4. grace = {}
  BY DEF AloneInv
<1> QED
  BY <1>1, <1>2, <1>3, <1>4, PersonKeepsAlone, OtherStepsKeepAlone, NoStall DEF Next

(* As long as the watchdog finds no stall, two provider turns never run at *)
(* once, turns that were told to stop aside: whatever the Stops, relaunches*)
(* and expired quarantines, the claim, the adapter and the retired ids     *)
(* keep a replacement out until the turn before it has ended.              *)
THEOREM TurnsRunAlone ==
  ASSUME MaxStalls = 0
  PROVE  Spec => []OneProviderTurn
<1>1. Init => AloneInv
  BY DEF Init, AloneInv, ActiveIsOwned, AdapterIsRight, Active
<1>2. AloneInv => OneProviderTurn
  BY DEF AloneInv, ActiveIsOwned, Active, Ended, OneProviderTurn
<1> QED
  BY <1>1, <1>2, AloneStep, BusyInit, BusyStep, TypeInvariant, PTL DEF Spec
------------------------------------------------------------------------------
(* Without the grace timer, whatever releases the bot drains the wakes too.*)
LEMMA DrainLeavesNoWake ==
  ASSUME TypeInv, NEW p, NEW cl, NEW gens, NEW bnd, NEW act,
         Drain(ResumeKinds, p, cl, gens, bnd, act)
  PROVE  IdleBotHasNoHeldWake'
<1>1. \A c \in resumes : c[2] \in ResumeKinds
  BY DEF TypeInv, TypeOK
<1>2. CASE resumes' = {}
  BY <1>2 DEF IdleBotHasNoHeldWake
<1>3. ASSUME NEW t, NEW th, Begin(t, th, p, gens, bnd) PROVE IdleBotHasNoHeldWake'
  BY <1>3 DEF Begin, IdleBotHasNoHeldWake, Busy
<1> QED
  BY <1>1, <1>2, <1>3 DEF Drain, waitingVars

LEMMA NoWakeStep ==
  TypeInv /\ grace = {} /\ IdleBotHasNoHeldWake /\ [Next]_vars => IdleBotHasNoHeldWake'
<1> SUFFICES ASSUME TypeInv, grace = {}, IdleBotHasNoHeldWake, [Next]_vars
             PROVE  IdleBotHasNoHeldWake'
  OBVIOUS
<1>1. ASSUME resumes' \subseteq resumes, Busy' <=> Busy PROVE IdleBotHasNoHeldWake'
  BY <1>1 DEF IdleBotHasNoHeldWake
<1>2. ASSUME NEW t, NEW th, NEW p, NEW gens, NEW bnd, Begin(t, th, p, gens, bnd)
      PROVE  IdleBotHasNoHeldWake'
  BY <1>2 DEF Begin, IdleBotHasNoHeldWake, Busy
<1>3. ASSUME Busy, UNCHANGED activity PROVE IdleBotHasNoHeldWake'
  BY <1>3 DEF IdleBotHasNoHeldWake, Busy
<1>4. ASSUME UNCHANGED dispatchVars, resumes' \subseteq resumes PROVE IdleBotHasNoHeldWake'
  BY <1>1, <1>4 DEF dispatchVars, Busy
<1>5. ASSUME NEW w \in Words, \/ Send(w) \/ CancelQueued(w)
                              \/ \E th \in Threads : SteerReturns(w, th)
      PROVE  IdleBotHasNoHeldWake'
  BY <1>2, <1>4, <1>5 DEF Send, CancelQueued, SteerReturns, dispatchVars
<1>6. ASSUME NEW th \in Threads, NEW k \in ResumeKinds, ResumeArrives(th, k)
      PROVE  IdleBotHasNoHeldWake'
  BY <1>2, <1>3, <1>4, <1>6 DEF ResumeArrives, dispatchVars
<1>7. ASSUME NEW t \in Turns, CatchEnds(t) PROVE IdleBotHasNoHeldWake'
  BY <1>1, <1>7, DrainLeavesNoWake DEF CatchEnds, CatchKinds, waitingVars, Busy
<1>8. ASSUME NEW t \in Turns, NEW e \in BOOLEAN, Settle(t, e) PROVE IdleBotHasNoHeldWake'
  BY <1>4, <1>8, DrainLeavesNoWake DEF Settle, waitingVars
<1>9. ASSUME NEW t \in Turns, \/ SetupEnds(t) \/ SetupFails(t) \/ Dispatch(t)
                              \/ SendResolves(t) \/ SendRejects(t) \/ GuardStopReturns(t)
                              \/ ProviderStarts(t) \/ Relaunch(t) \/ Ask(t) \/ Answer(t)
                              \/ ExpireHandshake(t)
      PROVE  IdleBotHasNoHeldWake'
  <2>1. (Busy' <=> Busy) /\ resumes' = resumes
    BY <1>9 DEF SetupEnds, SetupFails, Dispatch, SendResolves, SendRejects, GuardStopReturns,
                ProviderStarts, Relaunch, Ask, Answer, ExpireHandshake, CatchEntry,
                dispatchVars, waitingVars, Busy
  <2> QED
    BY <1>1, <2>1
<1>10. ASSUME \/ \E th \in Threads : SwitchTask(th) \/ Stall(th)
              \/ ToggleGate
              \/ \E e \in Threads \cup {None} : Stop(e)
              \/ \E s \in stops : StopReaches(s)
              \/ UNCHANGED vars
       PROVE  IdleBotHasNoHeldWake'
  <2>1. UNCHANGED <<activity, resumes>>
    BY <1>10 DEF SwitchTask, Stall, ToggleGate, Stop, StopReaches, vars, dispatchVars, waitingVars
  <2> QED
    BY <1>1, <2>1 DEF Busy
<1> QED
  BY <1>5, <1>6, <1>7, <1>8, <1>9, <1>10 DEF Next, TurnStep, ProviderStep

(* As long as the watchdog finds no stall, an idle bot has no wake of a    *)
(* delegated reply waiting for it either.                                  *)
THEOREM WakesAreNotHeld ==
  ASSUME MaxStalls = 0
  PROVE  Spec => []IdleBotHasNoHeldWake
<1>1. Init => AloneInv /\ IdleBotHasNoHeldWake
  BY DEF Init, AloneInv, ActiveIsOwned, AdapterIsRight, Active, IdleBotHasNoHeldWake
<1>2. AloneInv => grace = {}
  BY DEF AloneInv
<1> QED
  BY <1>1, <1>2, AloneStep, NoWakeStep, BusyInit, BusyStep, TypeInvariant, PTL DEF Spec

------------------------------------------------------------------------------
(* The capability generations: whatever a provider does but relaunch, none *)
(* stays active after the turn it was minted for.                          *)


(* Why the generation of t may be active on th: its dispatch is under way, *)
(* or its provider runs and the generation is bound to the id whose end    *)
(* will revoke it.  From the dispatch on, nothing of it is quarantined.    *)
(* The primed part is what a step that ends in a drain leaves behind;      *)
(* p and bnd are pc and bound before that drain.                           *)
HeldBefore(th, t, p, bnd) ==
  /\ t \in Turns /\ turnThread[t] = th /\ t \notin cancelled' /\ <<t, 1>> \notin retired'
  /\ \/ p[t] \in {"setup", "waiting"}
     \/ p[t] \in {"sending", "stopping"} /\ (\A o \in pending' : turnThread[o] # th)
     \/ /\ p[t] = "done" /\ provider'[t] = "live" /\ t \in bnd
        /\ \A o \in pending' : turnThread[o] # th
  /\ p[t] = "sending" /\ provider'[t] = "done" => <<t, 1>> \in completed'

Held(th, t) ==
  /\ t \in Turns /\ turnThread[t] = th /\ t \notin cancelled /\ <<t, 1>> \notin retired
  /\ \/ pc[t] \in {"setup", "waiting"}
     \/ pc[t] \in {"sending", "stopping"} /\ ~Gate(th)
     \/ pc[t] = "done" /\ provider[t] = "live" /\ t \in bound /\ ~Gate(th)
  /\ pc[t] = "sending" /\ provider[t] = "done" => <<t, 1>> \in completed

ActiveIsHeld == \A th \in Threads : activeGen[th] # None => Held(th, activeGen[th])

CapInv == ActiveIsHeld /\ relaunched = {}

(* What a step that may start a turn leaves to the others. *)
NothingNewPending ==
  /\ cancelled' = cancelled /\ pending' \subseteq pending
  /\ \A u \in Turns : pc[u] = "none" => <<u, 1>> \notin retired' /\ provider'[u] = "none"

LEMMA BeginKeepsHeld ==
  ASSUME TypeInv, NEW t \in Turns, NEW th \in Threads, NEW p, SameProgress(p),
         NEW gens \in Gens, NEW bnd \in SUBSET Turns, Begin(t, th, p, gens, bnd),
         NothingNewPending,
         \A h \in Threads : gens[h] # None => HeldBefore(h, gens[h], p, bnd)
  PROVE  ActiveIsHeld'
<1>1. /\ pc[t] = "none" /\ p[t] = "none" /\ pc' = [p EXCEPT ![t] = "setup"]
      /\ turnThread' = [turnThread EXCEPT ![t] = th]
      /\ activeGen' = [gens EXCEPT ![th] = t] /\ bound' = bnd \ {gens[th]}
  BY DEF Begin, SameProgress
<1>2. t \notin pending' /\ t \notin cancelled' /\ <<t, 1>> \notin retired' /\ provider'[t] = "none"
  BY <1>1 DEF NothingNewPending, TypeInv, Started
<1>3. pending' \subseteq Turns
  BY DEF NothingNewPending, TypeInv, TypeOK
<1>4. Held(th, t)'
  BY <1>1, <1>2 DEF Held, TypeInv, TypeOK, SameProgress, Gate
<1>5. ASSUME NEW h \in Threads \ {th}, gens[h] # None
      PROVE  Held(h, gens[h])'
  <2> DEFINE u == gens[h]
  <2>1. HeldBefore(h, u, p, bnd)
    BY <1>5
  <2>2. u \in Turns /\ u # t
    BY <1>1, <2>1 DEF HeldBefore
  <2>3. u # gens[th]
    <3>1. CASE gens[th] = None
      BY <1>5, <3>1
    <3>2. CASE gens[th] # None
      <4>1. HeldBefore(th, gens[th], p, bnd)
        BY <3>2
      <4> QED
        BY <1>5, <2>1, <4>1 DEF HeldBefore
    <3> QED
      BY <3>1, <3>2
  <2> HIDE DEF u
  <2>4. /\ pc'[u] = p[u] /\ turnThread'[u] = turnThread[u] /\ (u \in bnd => u \in bound')
        /\ \A o \in pending' : turnThread'[o] = turnThread[o]
    BY <1>1, <1>2, <1>3, <2>2, <2>3 DEF SameProgress, TypeInv, TypeOK
  <2>5. Held(h, u)'
    BY <2>1, <2>4 DEF HeldBefore, Held, Gate
  <2> QED
    BY <2>5 DEF u
<1> QED
  BY <1>1, <1>4, <1>5 DEF ActiveIsHeld, Gens

LEMMA DrainKeepsHeld ==
  ASSUME TypeInv, NEW kinds, NEW p, SameProgress(p), NEW cl, NEW gens \in Gens,
         NEW bnd \in SUBSET Turns, NEW act, Drain(kinds, p, cl, gens, bnd, act),
         NothingNewPending,
         \A h \in Threads : gens[h] # None => HeldBefore(h, gens[h], p, bnd)
  PROVE  ActiveIsHeld'
<1>1. CASE Rest(p, cl, gens, bnd, act)
  BY <1>1 DEF Rest, ActiveIsHeld, Held, HeldBefore, Gate
<1>2. ASSUME NEW t \in Turns, NEW th \in Threads, Begin(t, th, p, gens, bnd)
      PROVE  ActiveIsHeld'
  BY <1>2, BeginKeepsHeld
<1> QED
  BY <1>1, <1>2, DrainMoves

(* Steps that start no turn and leave the quarantine as it is. *)
LEMMA QuietKeepsHeld ==
  ASSUME CapInv, UNCHANGED <<activeGen, turnThread, cancelled, retired, pc, provider, bound,
                             completed>>,
         pending' \subseteq pending
  PROVE  ActiveIsHeld'
BY DEF CapInv, ActiveIsHeld, Held, Gate

LEMMA StartKeepsHeld ==
  ASSUME TypeInv, CapInv, NEW t \in Turns, NEW th \in Threads,
         Begin(t, th, pc, activeGen, bound),
         UNCHANGED <<cancelled, retired, pending, provider, completed>>
  PROVE  ActiveIsHeld'
<1>1. SameProgress(pc) /\ activeGen \in Gens /\ bound \in SUBSET Turns
  BY DEF SameProgress, TypeInv, TypeOK, Gens
<1>2. NothingNewPending
  BY DEF NothingNewPending, TypeInv, Started
<1>3. \A h \in Threads : activeGen[h] # None => HeldBefore(h, activeGen[h], pc, bound)
  BY DEF CapInv, ActiveIsHeld, Held, HeldBefore, Gate
<1> QED
  BY <1>1, <1>2, <1>3, BeginKeepsHeld
------------------------------------------------------------------------------
(* Steps of the person and of the rest of the harness that start no turn   *)
(* behind a release.                                                       *)
LEMMA PersonKeepsHeld ==
  ASSUME TypeInv, CapInv, NEW w \in Words, \/ Send(w) \/ CancelQueued(w)
                                            \/ \E th \in Threads : SteerReturns(w, th)
  PROVE  ActiveIsHeld'
<1>1. current \in Threads /\ UNCHANGED <<cancelled, retired, pending, provider, completed>>
  BY DEF TypeInv, TypeOK, Send, CancelQueued, SteerReturns, quarantineVars, providerVars
<1>2. ASSUME NEW t \in Turns, NEW th \in Threads, Begin(t, th, pc, activeGen, bound)
      PROVE  ActiveIsHeld'
  BY <1>1, <1>2, StartKeepsHeld
<1>3. ASSUME UNCHANGED dispatchVars PROVE ActiveIsHeld'
  BY <1>1, <1>3, QuietKeepsHeld DEF dispatchVars
<1> QED
  BY <1>1, <1>2, <1>3 DEF Send, CancelQueued, SteerReturns, dispatchVars

LEMMA ResumeKeepsHeld ==
  ASSUME TypeInv, CapInv, NEW th \in Threads, NEW k \in ResumeKinds, ResumeArrives(th, k)
  PROVE  ActiveIsHeld'
<1>1. UNCHANGED <<cancelled, retired, pending, provider, completed>>
  BY DEF ResumeArrives, quarantineVars, providerVars
<1>2. ASSUME NEW t \in Turns, Begin(t, th, pc, activeGen, bound) PROVE ActiveIsHeld'
  BY <1>1, <1>2, StartKeepsHeld
<1>3. ASSUME UNCHANGED dispatchVars PROVE ActiveIsHeld'
  BY <1>1, <1>3, QuietKeepsHeld DEF dispatchVars
<1> QED
  BY <1>2, <1>3 DEF ResumeArrives, dispatchVars

LEMMA OtherStepsKeepHeld ==
  ASSUME CapInv, \/ \E th \in Threads : SwitchTask(th)
                 \/ \E t \in Turns : ExpireHandshake(t)
                 \/ \E s \in stops : StopReaches(s)
                 \/ ToggleGate \/ UNCHANGED vars
  PROVE  ActiveIsHeld'
<1>1. UNCHANGED <<activeGen, turnThread, cancelled, retired, pc, provider, bound, completed>>
      /\ pending' \subseteq pending
  BY DEF SwitchTask, ExpireHandshake, StopReaches, ToggleGate, vars, dispatchVars,
         quarantineVars, providerVars
<1> QED
  BY <1>1, QuietKeepsHeld

(* A Stop and a stall revoke whatever is active on their thread, and the   *)
(* claim they take away, if any, is of a turn on that thread.              *)
LEMMA RevocationKeepsHeld ==
  ASSUME TypeInv, CapInv, NEW th \in Threads,
         activeGen' = RevokeThread(activeGen, th), bound' = bound \ {activeGen[th]},
         UNCHANGED <<turnThread, retired, pc, provider, completed>>,
         \A o \in pending' \ pending : turnThread[o] = th,
         \A o \in cancelled' \ cancelled : turnThread[o] = th
  PROVE  ActiveIsHeld'
<1> SUFFICES ASSUME NEW h \in Threads, activeGen'[h] # None PROVE Held(h, activeGen[h])' 
  BY DEF ActiveIsHeld, Held
<1> DEFINE u == activeGen[h]
<1>1. h # th /\ activeGen'[h] = u /\ u # None
  BY DEF RevokeThread, TypeInv, TypeOK
<1>2. Held(h, u)
  BY <1>1 DEF CapInv, ActiveIsHeld
<1>3. u \in bound => u \in bound'
  <2>1. ASSUME activeGen[th] = u PROVE FALSE
    BY <1>1, <1>2, <2>1 DEF CapInv, ActiveIsHeld, Held
  <2> QED
    BY <2>1
<1> HIDE DEF u
<1>4. u \notin cancelled' /\ (~Gate(h) => ~Gate(h)')
  BY <1>1, <1>2 DEF Held, Gate
<1> QED
  BY <1>1, <1>2, <1>3, <1>4 DEF Held

LEMMA StopKeepsHeld ==
  ASSUME TypeInv, CapInv, NEW e \in Threads \cup {None}, Stop(e)
  PROVE  ActiveIsHeld'
<1> DEFINE ours == claim.id # None /\ (e = None \/ turnThread[claim.id] = e)
           th   == IF ours THEN turnThread[claim.id] ELSE current
<1>1. th \in Threads
  BY DEF TypeInv, TypeOK, Started
<1>2. /\ activeGen' = RevokeThread(activeGen, th) /\ bound' = bound \ {activeGen[th]}
      /\ UNCHANGED <<turnThread, retired, pc, provider, completed>>
  BY DEF Stop, providerVars
<1>3. /\ \A o \in pending' \ pending : turnThread[o] = th
      /\ \A o \in cancelled' \ cancelled : turnThread[o] = th
  BY DEF Stop
<1> QED
  BY <1>1, <1>2, <1>3, RevocationKeepsHeld

LEMMA StallKeepsHeld ==
  ASSUME TypeInv, CapInv, NEW th \in Threads, Stall(th)
  PROVE  ActiveIsHeld'
BY RevocationKeepsHeld DEF Stall, quarantineVars
------------------------------------------------------------------------------
(* The asynchronous half of startTurn.                                     *)
LEMMA CatchKeepsHeld ==
  ASSUME TypeInv, CapInv, NEW t \in Turns, NEW kind, CatchEntry(t, kind),
         retired' \subseteq retired \cup {<<t, 1>>}, UNCHANGED <<cancelled, completed>>,
         \A u \in Turns \ {t} : provider'[u] = provider[u]
  PROVE  ActiveIsHeld'
<1> SUFFICES ASSUME NEW h \in Threads, activeGen'[h] # None PROVE Held(h, activeGen[h])'
  BY DEF ActiveIsHeld, Held
<1> DEFINE u == activeGen[h]
<1>1. u # t /\ activeGen'[h] = u /\ u # None
  BY DEF CatchEntry, RevokeGen
<1>2. Held(h, u)
  BY <1>1 DEF CapInv, ActiveIsHeld
<1>3. u \in Turns
  BY <1>2 DEF Held
<1> HIDE DEF u
<1>4. /\ pc'[u] = pc[u] /\ provider'[u] = provider[u] /\ <<u, 1>> \notin retired'
      /\ (u \in bound => u \in bound') /\ (~Gate(h) => ~Gate(h)')
  BY <1>1, <1>2, <1>3 DEF CatchEntry, Cleared, Held, Gate, TypeInv, TypeOK
<1> QED
  BY <1>1, <1>2, <1>4 DEF Held, CatchEntry

(* A step of t that leaves everybody else's generation alone.              *)
LEMMA OwnStepKeepsHeld ==
  ASSUME TypeInv, CapInv, NEW t \in Turns,
         \A h \in Threads : activeGen'[h] # None => activeGen'[h] = activeGen[h],
         UNCHANGED <<turnThread, cancelled, completed>>,
         pending' = pending, retired' \subseteq retired \cup {<<t, 1>>},
         bound \ {t} \subseteq bound',
         \A u \in Turns \ {t} : pc'[u] = pc[u] /\ provider'[u] = provider[u],
         \A h \in Threads : activeGen'[h] = t /\ Held(h, t) => Held(h, t)'
  PROVE  ActiveIsHeld'
<1> SUFFICES ASSUME NEW h \in Threads, activeGen'[h] # None PROVE Held(h, activeGen[h])'
  BY DEF ActiveIsHeld, Held
<1> DEFINE u == activeGen[h]
<1>1. activeGen'[h] = u /\ u # None
  OBVIOUS
<1>2. Held(h, u)
  BY <1>1 DEF CapInv, ActiveIsHeld
<1>3. u \in Turns
  BY <1>2 DEF Held
<1> HIDE DEF u
<1>4. CASE u = t
  BY <1>1, <1>2, <1>4 DEF Held
<1>5. CASE u # t
  <2>1. /\ pc'[u] = pc[u] /\ provider'[u] = provider[u] /\ <<u, 1>> \notin retired'
        /\ (u \in bound => u \in bound') /\ (~Gate(h) => ~Gate(h)')
    BY <1>2, <1>3, <1>5 DEF Held, Gate
  <2> QED
    BY <1>1, <1>2, <2>1 DEF Held
<1> QED
  BY <1>4, <1>5

LEMMA AbandonKeepsHeld ==
  ASSUME TypeInv, CapInv, NEW t \in Turns,
         SetupEnds(t) \/ SetupFails(t) \/ SendRejects(t) \/ GuardStopReturns(t)
  PROVE  ActiveIsHeld'
<1>1. ASSUME NEW kind, CatchEntry(t, kind) PROVE ActiveIsHeld'
  <2>1. /\ retired' \subseteq retired \cup {<<t, 1>>} /\ UNCHANGED <<cancelled, completed>>
        /\ \A u \in Turns \ {t} : provider'[u] = provider[u]
    BY DEF SetupEnds, SetupFails, SendRejects, GuardStopReturns, providerVars, TypeInv, TypeOK
  <2> QED
    BY <1>1, <2>1, CatchKeepsHeld
<1>2. ASSUME pc[t] = "setup", pc' = [pc EXCEPT ![t] = "waiting"],
             UNCHANGED <<turnThread, activeGen, bound, pending, retired, completed, cancelled,
                         provider>>
      PROVE  ActiveIsHeld'
  <2>1. \A u \in Turns \ {t} : pc'[u] = pc[u]
    BY <1>2 DEF TypeInv, TypeOK
  <2>2. pc'[t] = "waiting"
    BY <1>2 DEF TypeInv, TypeOK
  <2>3. \A h \in Threads : Held(h, t) => Held(h, t)'
    BY <1>2, <2>2 DEF Held
  <2> QED
    BY <1>2, <2>1, <2>3, OwnStepKeepsHeld
<1> QED
  BY <1>1, <1>2 DEF SetupEnds, SetupFails, SendRejects, GuardStopReturns, providerVars

LEMMA DispatchKeepsHeld ==
  ASSUME TypeInv, CapInv, NEW t \in Turns, Dispatch(t)
  PROVE  ActiveIsHeld'
<1>1. CASE CatchEntry(t, "cancelled") /\ UNCHANGED provider
  BY <1>1, CatchKeepsHeld DEF Dispatch
<1>2. ASSUME pc' = [pc EXCEPT ![t] = "sending"],
             provider' = [provider EXCEPT ![t] =
                            IF adapter[turnThread[t]] = None THEN "pending" ELSE "rejected"],
             UNCHANGED <<turnThread, activeGen, bound, pending, retired, completed, cancelled>>
      PROVE  ActiveIsHeld'
  <2>1. \A u \in Turns \ {t} : pc'[u] = pc[u] /\ provider'[u] = provider[u]
    BY <1>2 DEF TypeInv, TypeOK
  <2>2. pc'[t] = "sending" /\ provider'[t] # "done"
    BY <1>2 DEF TypeInv, TypeOK
  <2>3. ~Gate(turnThread[t])
    BY DEF Dispatch
  <2>4. \A h \in Threads : Held(h, t) => Held(h, t)'
    BY <1>2, <2>2, <2>3 DEF Held, Gate
  <2> QED
    BY <1>2, <2>1, <2>4, OwnStepKeepsHeld
<1> QED
  BY <1>1, <1>2 DEF Dispatch

LEMMA SendResolvesKeepsHeld ==
  ASSUME TypeInv, CapInv, NEW t \in Turns, SendResolves(t)
  PROVE  ActiveIsHeld'
<1>1. /\ pc[t] = "sending" /\ provider[t] \in {"live", "done"}
      /\ UNCHANGED <<turnThread, cancelled, completed, provider, pending, retired>>
  BY DEF SendResolves, quarantineVars
<1>2. ASSUME NEW v, pc' = [pc EXCEPT ![t] = v]
      PROVE  pc'[t] = v /\ \A u \in Turns \ {t} : pc'[u] = pc[u]
  BY <1>2 DEF TypeInv, TypeOK
<1>3. CASE pc' = [pc EXCEPT ![t] = "stopping"] /\ UNCHANGED <<activeGen, bound>>
  <2>1. pc'[t] = "stopping" /\ \A u \in Turns \ {t} : pc'[u] = pc[u]
    BY <1>2, <1>3
  <2>2. \A h \in Threads : Held(h, t) => Held(h, t)'
    BY <1>1, <2>1 DEF Held, Gate
  <2> QED
    BY <1>1, <1>3, <2>1, <2>2, OwnStepKeepsHeld
<1>4. CASE pc' = [pc EXCEPT ![t] = "done"] /\ activeGen' = RevokeGen(activeGen, t)
           /\ bound' = bound \ {t}
  <2>1. /\ \A u \in Turns \ {t} : pc'[u] = pc[u]
        /\ \A h \in Threads : activeGen'[h] # t
        /\ \A h \in Threads : activeGen'[h] # None => activeGen'[h] = activeGen[h]
    BY <1>2, <1>4, NoneAssumption DEF RevokeGen
  <2> QED
    BY <1>1, <1>4, <2>1, OwnStepKeepsHeld
<1>5. CASE pc' = [pc EXCEPT ![t] = "done"] /\ <<t, 1>> \notin completed
           /\ activeGen' = activeGen /\ bound' = bound \cup {t}
  <2>1. pc'[t] = "done" /\ \A u \in Turns \ {t} : pc'[u] = pc[u]
    BY <1>2, <1>5
  <2>2. \A h \in Threads : Held(h, t) => Held(h, t)'
    BY <1>1, <1>5, <2>1 DEF Held, Gate
  <2> QED
    BY <1>1, <1>5, <2>1, <2>2, OwnStepKeepsHeld
<1> QED
  BY <1>3, <1>4, <1>5 DEF SendResolves

LEMMA CatchEndsKeepsHeld ==
  ASSUME TypeInv, CapInv, NEW t \in Turns, CatchEnds(t)
  PROVE  ActiveIsHeld'
<1> DEFINE p == [pc EXCEPT ![t] = "done"]
<1>1. SameProgress(p) /\ activeGen \in Gens /\ bound \in SUBSET Turns
  BY DEF CatchEnds, SameProgress, TypeInv, TypeOK, Gens, Pcs
<1>2. UNCHANGED <<cancelled, retired, pending, provider, completed>>
  BY DEF CatchEnds, quarantineVars, providerVars
<1>3. NothingNewPending
  BY <1>2 DEF NothingNewPending, TypeInv, Started
<1>4. \A h \in Threads : activeGen[h] # None => HeldBefore(h, activeGen[h], p, bound)
  <2> SUFFICES ASSUME NEW h \in Threads, activeGen[h] # None
               PROVE  HeldBefore(h, activeGen[h], p, bound)
    OBVIOUS
  <2> DEFINE u == activeGen[h]
  <2>1. Held(h, u)
    BY DEF CapInv, ActiveIsHeld
  <2> HIDE DEF u
  <2>2. p[u] = pc[u]
    BY <2>1 DEF Held, CatchEnds, TypeInv, TypeOK
  <2> HIDE DEF p
  <2>3. HeldBefore(h, u, p, bound)
    BY <1>2, <2>1, <2>2 DEF Held, HeldBefore, Gate
  <2> QED
    BY <2>3 DEF u
<1> HIDE DEF p
<1>5. CASE Drain(CatchKinds, p, claim, activeGen, bound, AfterCatch(t))
  BY <1>1, <1>3, <1>4, <1>5, DrainKeepsHeld
<1>6. CASE pc' = p /\ UNCHANGED <<turnThread, activeGen, bound>>
  BY <1>2, <1>4, <1>6 DEF ActiveIsHeld, Held, HeldBefore, Gate
<1> QED
  BY <1>5, <1>6 DEF CatchEnds, p
------------------------------------------------------------------------------
(* The provider.  An event that counts is of a thread without quarantine.  *)
LEMMA IdOfFirst == ASSUME CapInv, NEW t PROVE IdOf(t) = <<t, 1>>
BY DEF CapInv, IdOf

LEMMA EventKeepsHeld ==
  ASSUME TypeInv, CapInv, NEW t \in Turns,
         ProviderStarts(t) \/ Ask(t) \/ Answer(t)
  PROVE  ActiveIsHeld'
<1>1. /\ UNCHANGED <<turnThread, activeGen, bound, pc, cancelled, completed, pending>>
      /\ retired' = retired \cup Revealed(t)
  BY DEF ProviderStarts, Ask, Answer, dispatchVars
<1>2. /\ \/ provider[t] = "pending" /\ provider' = [provider EXCEPT ![t] = "live"]
         \/ provider[t] = "live" /\ provider' = provider
      /\ \A u \in Turns \ {t} : provider'[u] = provider[u]
      /\ provider'[t] = "live"
  BY DEF ProviderStarts, Ask, Answer, Running, TypeInv, TypeOK
<1>3. Revealed(t) \subseteq {<<t, 1>>}
  BY IdOfFirst DEF Revealed
<1>4. ASSUME NEW h \in Threads, Held(h, t) PROVE Held(h, t)'
  <2>1. pc[t] \notin {"setup", "waiting"}
    BY <1>2 DEF TypeInv, Started
  <2>2. ~Gate(h) /\ turnThread[t] = h
    BY <1>4, <2>1 DEF Held
  <2>3. retired' = retired
    BY <1>1, <2>2 DEF Revealed
  <2> QED
    BY <1>1, <1>2, <1>4, <2>1, <2>3 DEF Held, Gate
<1> QED
  BY <1>1, <1>2, <1>3, <1>4, OwnStepKeepsHeld

LEMMA SettleKeepsHeld ==
  ASSUME TypeInv, CapInv, NEW t \in Turns, NEW e \in BOOLEAN, Settle(t, e)
  PROVE  ActiveIsHeld'
<1> DEFINE mine == t \in bound /\ IdOf(t) = <<t, 1>>
           gens == IF mine THEN RevokeGen(activeGen, t) ELSE activeGen
           bnd  == IF mine THEN bound \ {t} ELSE bound
           act  == IF e \/ activity = "dead" THEN "dead" ELSE "idle"
<1>1. /\ provider[t] \in {"live", "pending"} /\ provider' = [provider EXCEPT ![t] = "done"]
      /\ UNCHANGED <<cancelled, pending>> /\ retired' = retired \cup Revealed(t)
  BY DEF Settle, Running
<1>2. provider'[t] = "done" /\ \A u \in Turns \ {t} : provider'[u] = provider[u]
  BY <1>1 DEF TypeInv, TypeOK
<1>3. pc[t] \notin {"none", "setup", "waiting"}
  BY <1>1 DEF TypeInv, Started
<1>4. IdOf(t) = <<t, 1>> /\ Revealed(t) \subseteq {<<t, 1>>}
  BY IdOfFirst DEF Revealed
<1>5. CASE Quarantined(t)
  <2>1. UNCHANGED <<turnThread, activeGen, bound, pc, completed>>
    BY <1>5 DEF Settle, dispatchVars
  <2>2. \A h \in Threads : ~Held(h, t)
    BY <1>3, <1>4, <1>5 DEF Held, Quarantined
  <2> QED
    BY <1>1, <1>2, <1>4, <2>1, <2>2, OwnStepKeepsHeld
<1>6. CASE ~Quarantined(t)
  <2>1. /\ Drain(ResumeKinds, pc, claim, gens, bnd, act)
        /\ completed' = completed \cup {<<t, 1>>} /\ retired' = retired
    BY <1>1, <1>4, <1>6 DEF Settle, Revealed, Quarantined
  <2>2. gens \in Gens /\ bnd \in SUBSET Turns /\ SameProgress(pc)
    BY DEF RevokeGen, Gens, SameProgress, TypeInv, TypeOK
  <2>3. NothingNewPending
    <3>1. \A u \in Turns : pc[u] = "none" => <<u, 1>> \notin retired /\ provider[u] = "none"
      BY DEF TypeInv, Started
    <3> QED
      BY <1>1, <1>2, <1>3, <2>1, <3>1 DEF NothingNewPending
  <2>4. ASSUME NEW h \in Threads, gens[h] # None
        PROVE  HeldBefore(h, gens[h], pc, bnd)
    <3> DEFINE u == activeGen[h]
    <3>1. gens[h] = u /\ u # None /\ (mine => u # t)
      BY <2>4 DEF RevokeGen
    <3>2. Held(h, u)
      BY <3>1 DEF CapInv, ActiveIsHeld
    <3>3. u \in Turns
      BY <3>2 DEF Held
    <3>4. u = t => t \notin bound
      BY <1>4, <3>1
    <3>5. u \in bound => u \in bnd
      BY <3>1
    <3> HIDE DEF u, gens, bnd, mine
    <3>6. HeldBefore(h, u, pc, bnd)
      BY <1>1, <1>2, <1>3, <2>1, <3>2, <3>3, <3>4, <3>5 DEF Held, HeldBefore, Gate
    <3> QED
      BY <3>1, <3>6
  <2> HIDE DEF gens, bnd, act
  <2> QED
    BY <2>1, <2>2, <2>3, <2>4, DrainKeepsHeld
<1> QED
  BY <1>5, <1>6

LEMMA GraceEndsKeepsHeld ==
  ASSUME TypeInv, CapInv, NEW g \in grace, GraceEnds(g)
  PROVE  ActiveIsHeld'
<1>1. UNCHANGED <<cancelled, retired, pending, provider, completed>>
  BY DEF GraceEnds, quarantineVars, providerVars
<1>2. CASE Drain(GraceKinds, pc, claim, activeGen, bound, "idle")
  <2>1. SameProgress(pc) /\ activeGen \in Gens /\ bound \in SUBSET Turns
    BY DEF SameProgress, TypeInv, TypeOK, Gens
  <2>2. NothingNewPending
    BY <1>1 DEF NothingNewPending, TypeInv, Started
  <2>3. \A h \in Threads : activeGen[h] # None => HeldBefore(h, activeGen[h], pc, bound)
    BY <1>1 DEF CapInv, ActiveIsHeld, Held, HeldBefore, Gate
  <2> QED
    BY <1>2, <2>1, <2>2, <2>3, DrainKeepsHeld
<1>3. CASE UNCHANGED dispatchVars
  BY <1>1, <1>3, QuietKeepsHeld DEF dispatchVars
<1> QED
  BY <1>2, <1>3 DEF GraceEnds
------------------------------------------------------------------------------
LEMMA CapStep ==
  ASSUME "relaunch" \notin Behaviours
  PROVE  TypeInv /\ CapInv /\ [Next]_vars => CapInv'
<1> SUFFICES ASSUME TypeInv, CapInv, [Next]_vars PROVE ActiveIsHeld'
  BY RelaunchedStep DEF CapInv
<1>1. ASSUME NEW t \in Turns, TurnStep(t) PROVE ActiveIsHeld'
  BY <1>1, AbandonKeepsHeld, DispatchKeepsHeld, SendResolvesKeepsHeld, CatchEndsKeepsHeld
     DEF TurnStep
<1>2. ASSUME NEW t \in Turns, ProviderStep(t) PROVE ActiveIsHeld'
  BY <1>2, EventKeepsHeld, SettleKeepsHeld DEF ProviderStep, Relaunch
<1> QED
  BY <1>1, <1>2, PersonKeepsHeld, ResumeKeepsHeld, OtherStepsKeepHeld, StopKeepsHeld,
     StallKeepsHeld, GraceEndsKeepsHeld DEF Next

(* While no turn is relaunched under a second id, a capability generation  *)
(* is active on a task only for a turn of that task that no Stop took away *)
(* and whose dispatch is not over or whose provider still runs: no bearer  *)
(* token outlives its turn, whichever of completion, Stop, stall and       *)
(* resolution of sendTurn comes first.                                     *)
THEOREM CapabilitiesEndWithTheirTurn ==
  ASSUME "relaunch" \notin Behaviours
  PROVE  Spec => []CapabilityHasLiveTurn
<1>1. Init => CapInv
  BY DEF Init, CapInv, ActiveIsHeld
<1>2. CapInv => CapabilityHasLiveTurn
  BY DEF CapInv, ActiveIsHeld, Held, CapabilityHasLiveTurn, Running
<1> QED
  BY <1>1, <1>2, CapStep, TypeInvariant, PTL DEF Spec
============================================================================
