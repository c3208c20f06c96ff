--------------------------- MODULE RoutinesProofs ---------------------------
(***************************************************************************)
(* The scheduler, for any definitions, schedules, owners and cards: runs   *)
(* that are shown as working have a turn and turns have such a run, what   *)
(* ended stays as it ended, no run and no occurrence starts twice, and a   *)
(* confirmed card changes the scheduler once.                              *)
(***************************************************************************)
EXTENDS Routines, FiniteSetTheorems, TLAPS
------------------------------------------------------------------------------
(* The runs and their turns.  Ids name runs; a turn is the turn of the run *)
(* it names for as long as that run is on record; a run that has started   *)
(* is never queued again, so no run gets a second turn.                    *)
Turns == setup \cup liveRuns

RunRecords(n) ==
  [id : 1 .. n, def : Defs \cup {Hook}, slot : Nat,
   trigger : {"schedule", "manual", "webhook"},
   status : Unended \cup Ending, owner : Owners, since : Nat]

IdsDistinct == \A r, q \in runs : r.id = q.id => r = q

KnownDefinitions ==
  /\ \A d \in Defs : defs[d].present => d \in DOMAIN plan.schedule
  /\ \A d \in Defs : defs[d].enabled => defs[d].present
  /\ \A r \in runs : r.trigger = "schedule" => r.def \in DOMAIN plan.schedule

TypeInv == RoutinesTypeOK /\ IdsDistinct /\ KnownDefinitions

TurnsMatch == \A t \in Turns, r \in runs : t.run = r.id => t = TurnOf(r)
OneTurnPerRun ==
  /\ \A t, u \in Turns : t.run = u.run => t = u
  /\ setup \cap liveRuns = {}
TurnsStarted == \A t \in Turns : t.run \in started
QueuedUnstarted == \A r \in runs : r.status = "queued" => r.id \notin started

TurnInv ==
  /\ TurnsMatch /\ OneTurnPerRun /\ TurnsStarted /\ QueuedUnstarted
  /\ ActiveRunHasTurn /\ TurnHasActiveRun

(* The occurrences of a repeating routine: its cursor is an occurrence and *)
(* lies beyond every occurrence that was queued or started.  Queued runs   *)
(* wait for occurrences of their own; at most one waits for an interval    *)
(* routine, for an occurrence after all that started.                      *)
Waiting == {r \in runs : r.status = "queued" /\ Repeats(r)}
Cursors == {d \in DOMAIN plan.schedule : plan.schedule[d] # "once" /\ defs[d].next # NoTime}

CursorAhead ==
  \A d \in Cursors :
    /\ \E m \in Nat : defs[d].next = Period[d] * m
    /\ \A at \in Nat : <<d, at>> \in slots => at < defs[d].next
    /\ \A r \in Waiting : r.def = d => r.slot < defs[d].next
    /\ tick.phase = "start" => tick.now < defs[d].next
OccurrencesPast ==
  /\ tick.now <= clock
  /\ \A d \in Defs, at \in Nat : <<d, at>> \in slots => at <= clock
  /\ \A r \in Waiting : r.slot <= clock
OwnOccurrence ==
  /\ \A r \in Waiting : <<r.def, r.slot>> \notin slots
  /\ \A r, q \in Waiting : r.def = q.def /\ r.slot = q.slot => r = q
  /\ \A r \in Waiting : plan.schedule[r.def] = "interval" =>
       /\ \A q \in Waiting : q.def = r.def => q = r
       /\ \A at \in Nat : <<r.def, at>> \in slots => at < r.slot

SlotInv == CursorAhead /\ OccurrencesPast /\ OwnOccurrence

RoutineInv == TypeInv /\ TurnInv /\ SlotInv
------------------------------------------------------------------------------
(* The helpers.  A save drops runs that have ended and no other; every     *)
(* change of the runs either replaces each run by a later state of itself  *)
(* (Follows) or adds new ones (Adds), and saves.                           *)
LEMMA SaveKeeps ==
  ASSUME NEW s
  PROVE  /\ Saved(s) \subseteq s
         /\ \A r \in s : r.status \in Unended => r \in Saved(s)
BY DEF Saved, Evicted, Evictable, Unended, Active, Ending

Same(q, r) == q.id = r.id /\ q.def = r.def /\ q.trigger = r.trigger /\ q.owner = r.owner

Follows(f) ==
  /\ f \in [runs -> RunRecords(lastId)]
  /\ runs' \subseteq {f[r] : r \in runs}
  /\ \A r \in runs :
       /\ Same(f[r], r)
       /\ r.status \in Ending => f[r] = r
       /\ f[r].status \in Unended => f[r] \in runs'

(* Nothing goes back to the queue, and only what starts changes its slot. *)
Advances(f) ==
  Follows(f) /\ \A r \in runs : f[r].status = "queued" => f[r] = r

Adds(new) ==
  /\ lastId' \in Nat /\ lastId <= lastId'
  /\ runs' \subseteq runs \cup new
  /\ \A r \in runs \cup new : r.status \in Unended => r \in runs'
  /\ new \subseteq RunRecords(lastId')
  /\ \A r \in new : /\ r.id > lastId /\ r.status \in {"queued", "missed"}
                    /\ r.trigger = "schedule" => r.def \in DOMAIN plan.schedule
  /\ \A r, q \in new : r.id = q.id => r = q

LEMMA RunsAreRecords == TypeInv => runs \subseteq RunRecords(lastId)
BY DEF TypeInv, RoutinesTypeOK, RunsOK, RunRecords

LEMMA SavedFollows ==
  ASSUME NEW f \in [runs -> RunRecords(lastId)],
         \A r \in runs : Same(f[r], r) /\ (r.status \in Ending => f[r] = r),
         runs' = Saved({f[r] : r \in runs})
  PROVE  Follows(f)
<1> DEFINE s == {f[r] : r \in runs}
<1>1. runs' = Saved(s)
  OBVIOUS
<1>2. \A r \in runs : f[r] \in s
  OBVIOUS
<1> HIDE DEF s
<1>3. runs' \subseteq s /\ \A r \in s : r.status \in Unended => r \in runs'
  BY <1>1, SaveKeeps
<1> QED
  BY <1>2, <1>3 DEF Follows, s

LEMMA UnchangedFollows ==
  ASSUME TypeInv, runs' = runs
  PROVE  Advances([r \in runs |-> r])
BY RunsAreRecords DEF Follows, Advances, Same

(* With: one run that has not ended gets a new status. *)
Sets(f, i, status) ==
  \A r \in runs : IF r.id = i THEN f[r].status = status /\ f[r].slot = r.slot ELSE f[r] = r

LEMMA WithFollows ==
  ASSUME TypeInv, NEW i, NEW status \in Ending \cup Active, Is(i, Unended),
         runs' = With(i, status)
  PROVE  \E f : Advances(f) /\ Sets(f, i, status)
<1> DEFINE Op(r) == IF r.id # i THEN r
                    ELSE IF status \in Ending THEN Ended(r, status) ELSE [r EXCEPT !.status = status]
           f == [r \in runs |-> Op(r)]
<1>1. runs \subseteq RunRecords(lastId)
  BY RunsAreRecords
<1>2. \A r \in runs : r.id = i => r.status \in Unended
  BY DEF Is, TypeInv, IdsDistinct
<1>3. runs' = Saved({f[r] : r \in runs})
  <2>1. {f[r] : r \in runs} = {Op(r) : r \in runs}
    OBVIOUS
  <2>2. runs' = Saved({Op(r) : r \in runs})
    BY DEF With, Mapped
  <2> QED
    BY <2>1, <2>2
<1>4. \A r \in RunRecords(lastId) :
        /\ Op(r) \in RunRecords(lastId) /\ Same(Op(r), r) /\ Op(r).slot = r.slot
        /\ r.id = i => Op(r).status = status
  BY DEF RunRecords, Ended, Same, Unended
<1>5. \A r \in runs : r.status \in Ending => Op(r) = r
  BY <1>2 DEF Ending, Unended, Active
<1>6. Follows(f)
  <2>1. f \in [runs -> RunRecords(lastId)] /\ \A r \in runs : f[r] = Op(r)
    BY <1>1, <1>4
  <2> HIDE DEF f, Op
  <2> QED
    BY <2>1, <1>1, <1>3, <1>4, <1>5, SavedFollows
<1>7. Advances(f)
  BY <1>1, <1>4, <1>6 DEF Advances, Ending, Active
<1>8. Sets(f, i, status)
  BY <1>1, <1>4 DEF Sets
<1> QED
  BY <1>7, <1>8

(* Cancelled: some runs that have not ended are cancelled. *)
Cancels(f, C) == \A r \in runs : IF r \in C THEN f[r].status = "cancelled" ELSE f[r] = r

LEMMA CancelFollows ==
  ASSUME TypeInv, NEW C, \A r \in C : r.status \in Unended,
         runs' = Saved({Cancelled(r, r \in C) : r \in runs})
  PROVE  \E f : Advances(f) /\ Cancels(f, C)
<1> DEFINE f == [r \in runs |-> Cancelled(r, r \in C)]
<1>1. runs \subseteq RunRecords(lastId)
  BY RunsAreRecords
<1>2. runs' = Saved({f[r] : r \in runs})
  <2>1. {f[r] : r \in runs} = {Cancelled(r, r \in C) : r \in runs}
    OBVIOUS
  <2> QED
    BY <2>1
<1>3. \A r \in RunRecords(lastId) :
        /\ Ended(r, "cancelled") \in RunRecords(lastId) /\ Same(Ended(r, "cancelled"), r)
        /\ Ended(r, "cancelled").status = "cancelled"
        /\ Same(r, r)
  BY DEF RunRecords, Ended, Same, Ending
<1>4. f \in [runs -> RunRecords(lastId)]
  BY <1>1, <1>3 DEF Cancelled
<1>5. \A r \in runs : /\ r \in C => f[r] = Ended(r, "cancelled")
                      /\ r \notin C => f[r] = r
  BY DEF Cancelled
<1>6. \A r \in C : r.status \notin Ending
  BY DEF Ending, Unended, Active
<1> HIDE DEF f
<1>7. Follows(f)
  BY <1>1, <1>2, <1>3, <1>4, <1>5, <1>6, SavedFollows
<1>8. Advances(f) /\ Cancels(f, C)
  BY <1>1, <1>3, <1>5, <1>7 DEF Advances, Cancels
<1> QED
  BY <1>8
------------------------------------------------------------------------------
(* The types, and what a change of the runs keeps of them. *)
RunsPart ==
  /\ RunsOK /\ IdsDistinct
  /\ \A r \in runs : r.trigger = "schedule" => r.def \in DOMAIN plan.schedule

LEMMA RunsPartOfInv == TypeInv => RunsPart
BY DEF TypeInv, RoutinesTypeOK, RunsPart, KnownDefinitions

LEMMA FollowsTyped ==
  ASSUME RunsPart, UNCHANGED <<lastId, plan>>, NEW f, Follows(f)
  PROVE  RunsPart'
<1>1. runs' \subseteq RunRecords(lastId)
  BY DEF Follows
<1>2. \A q \in runs' : \E r \in runs : q = f[r] /\ Same(q, r)
  BY DEF Follows
<1> QED
  BY <1>1, <1>2 DEF RunsPart, RunsOK, RunRecords, IdsDistinct, Same

LEMMA AddsTyped ==
  ASSUME RunsPart, lastId \in Nat, UNCHANGED plan, NEW new, Adds(new)
  PROVE  RunsPart'
<1>1. runs \subseteq RunRecords(lastId)
  BY DEF RunsPart, RunsOK, RunRecords
<1>2. RunRecords(lastId) \subseteq RunRecords(lastId')
  <2>1. 1 .. lastId \subseteq 1 .. lastId'
    BY DEF Adds
  <2> QED
    BY <2>1 DEF RunRecords
<1>3. runs' \subseteq RunRecords(lastId')
  BY <1>1, <1>2 DEF Adds
<1>4. \A r \in runs : r.id <= lastId /\ r.id \in Nat
  BY <1>1 DEF RunRecords
<1>5. \A r \in new : r.id > lastId /\ r.id \in Nat
  BY DEF Adds, RunRecords
<1>6. IdsDistinct'
  <2> SUFFICES ASSUME NEW r \in runs', NEW q \in runs', r.id = q.id PROVE r = q
    BY DEF IdsDistinct
  <2>1. r \in runs \cup new /\ q \in runs \cup new
    BY DEF Adds
  <2>2. (r \in runs /\ q \in runs) \/ (r \in new /\ q \in new)
    BY <2>1, <1>4, <1>5
  <2> QED
    BY <2>2 DEF RunsPart, IdsDistinct, Adds
<1>7. \A r \in runs' : r.trigger = "schedule" => r.def \in DOMAIN plan'.schedule
  BY DEF Adds, RunsPart
<1> QED
  BY <1>3, <1>6, <1>7 DEF RunsPart, RunsOK, RunRecords

LEMMA PlanFacts ==
  TypeInv =>
    /\ DOMAIN plan.schedule \subseteq Defs
    /\ \A d \in DOMAIN plan.schedule : plan.schedule[d] \in Kinds
    /\ \A c \in RoutineCards : plan.card[c].def \in Defs /\ plan.card[c].action \in Actions
BY DEF TypeInv, RoutinesTypeOK, AllPlans

(* Occurrences are multiples of the period: the next one lies after the    *)
(* given time, the latest one not, and no multiple lies between.           *)
LEMMA Multiples ==
  ASSUME NEW p \in Nat \ {0}, NEW x \in Nat
  PROVE  /\ x \div p \in Nat /\ p * (x \div p) \in Nat /\ p * (x \div p + 1) \in Nat
         /\ p * (x \div p) <= x /\ x < p * (x \div p + 1)
OBVIOUS

LEMMA NoMultipleBetween ==
  ASSUME NEW p \in Nat \ {0}, NEW x \in Nat, NEW m \in Nat, p * m <= x
  PROVE  p * m <= p * (x \div p)
<1> DEFINE n == x \div p
<1>1. n \in Nat /\ p * n \in Nat /\ x < p * (n + 1)
  BY Multiples
<1> HIDE DEF n
<1>2. CASE m <= n
  <2>1. n - m \in Nat /\ n = m + (n - m)
    BY <1>1, <1>2
  <2>2. p * n = p * m + p * (n - m) /\ p * (n - m) \in Nat /\ p * m \in Nat
    BY <2>1, <1>1
  <2> QED
    BY <2>2, <1>1 DEF n
<1>3. CASE m >= n + 1
  <2>1. m - (n + 1) \in Nat /\ m = (n + 1) + (m - (n + 1))
    BY <1>1, <1>3
  <2>2. p * m = p * (n + 1) + p * (m - (n + 1)) /\ p * (m - (n + 1)) \in Nat /\ p * (n + 1) \in Nat
    BY <2>1, <1>1
  <2> QED
    BY <2>2, <1>1
<1> QED
  BY <1>1, <1>2, <1>3

LEMMA Occurrences ==
  ASSUME NEW d \in Defs, NEW at \in Nat
  PROVE  /\ NextOccurrence(d, at) \in Nat \cup {NoTime}
         /\ InitialOccurrence(d, at) \in Nat \cup {NoTime}
         /\ LatestOccurrence(d, at) \in Nat /\ LatestOccurrence(d, at) <= at
         /\ plan.schedule[d] # "once" =>
              /\ NextOccurrence(d, at) \in Nat /\ at < NextOccurrence(d, at)
              /\ InitialOccurrence(d, at) = NextOccurrence(d, at)
              /\ \E m \in Nat : NextOccurrence(d, at) = Period[d] * m
              /\ \A m \in Nat : Period[d] * m <= at => Period[d] * m <= LatestOccurrence(d, at)
<1>1. Period[d] \in Nat \ {0} /\ OnceAt \in Nat
  BY RoutineDefsAssumption
<1>2. at \div Period[d] + 1 \in Nat
  BY <1>1, Multiples
<1> QED
  BY <1>1, <1>2, Multiples, NoMultipleBetween
     DEF NextOccurrence, InitialOccurrence, LatestOccurrence
------------------------------------------------------------------------------
(* Every step keeps the types.  The parts that most steps leave alone:     *)
DefsPart ==
  /\ defs \in [Defs -> [present : BOOLEAN, enabled : BOOLEAN, edited : BOOLEAN,
                        next : Nat \cup {NoTime}]]
  /\ \A d \in Defs : ~defs[d].enabled => defs[d].next = NoTime
  /\ \A d \in Defs : defs[d].present => d \in DOMAIN plan.schedule
  /\ \A d \in Defs : defs[d].enabled => defs[d].present
TurnsPart ==
  /\ Turns \subseteq [run : 1 .. lastId, owner : Owners, goal : BOOLEAN]
  /\ stopped \subseteq 1 .. lastId /\ started \subseteq 1 .. lastId /\ leftOpen \subseteq started
  /\ slots \subseteq Defs \X Nat
TickPart ==
  /\ tick.phase \in {"off", "limit", "awaiting", "start"}
  /\ tick.now \in Nat /\ tick.at \in Nat /\ tick.todo \subseteq 1 .. lastId
  /\ wakeTick \in BOOLEAN
WorldPart ==
  /\ clock \in Nat /\ lastId \in Nat /\ plan \in AllPlans
  /\ elsewhere \subseteq Owners /\ gone \subseteq Owners
  /\ cards \in [RoutineCards -> {"open", "allow", "deny"}] /\ receipts \subseteq RoutineCards
  /\ applied \in [RoutineCards -> Nat]
  /\ spent \in [edits : 0 .. MaxEdits, trouble : 0 .. MaxTrouble]

LEMMA Parts ==
  /\ TypeInv <=> RunsPart /\ DefsPart /\ TurnsPart /\ TickPart /\ WorldPart
  /\ RunsPart' /\ DefsPart' /\ TurnsPart' /\ TickPart' /\ WorldPart' => TypeInv'
BY DEF TypeInv, RoutinesTypeOK, RunsOK, IdsDistinct, KnownDefinitions, RunsPart, DefsPart,
       TurnsPart, TickPart, WorldPart, Turns

LEMMA PartsUnchanged ==
  /\ RunsPart /\ UNCHANGED <<runs, lastId, plan>> => RunsPart'
  /\ DefsPart /\ UNCHANGED <<defs, plan>> => DefsPart'
  /\ TurnsPart /\ UNCHANGED <<turnSets, lastId, histVars>> => TurnsPart'
  /\ TickPart /\ UNCHANGED <<tick, lastId, wakeTick>> => TickPart'
  /\ WorldPart /\ UNCHANGED <<clock, lastId, worldVars, cardVars, spent>> => WorldPart'
<1>1. RunsPart /\ UNCHANGED <<runs, lastId, plan>> => RunsPart'
  BY DEF RunsPart, RunsOK, IdsDistinct
<1>2. DefsPart /\ UNCHANGED <<defs, plan>> => DefsPart'
  BY DEF DefsPart
<1>3. TurnsPart /\ UNCHANGED <<turnSets, lastId, histVars>> => TurnsPart'
  BY DEF TurnsPart, Turns, turnSets, histVars
<1>4. TickPart /\ UNCHANGED <<tick, lastId, wakeTick>> => TickPart'
  BY DEF TickPart
<1>5. WorldPart /\ UNCHANGED <<clock, lastId, worldVars, cardVars, spent>> => WorldPart'
  BY DEF WorldPart, worldVars, cardVars
<1> QED
  BY <1>1, <1>2, <1>3, <1>4, <1>5

(* More runs leave room for what refers to the earlier ones. *)
LEMMA PartsGrow ==
  ASSUME lastId \in Nat, lastId' \in Nat, lastId <= lastId'
  PROVE  /\ TurnsPart /\ UNCHANGED <<turnSets, histVars>> => TurnsPart'
         /\ TickPart /\ UNCHANGED tick /\ wakeTick' \in BOOLEAN => TickPart'
         /\ WorldPart /\ UNCHANGED <<clock, worldVars, cardVars, spent>> => WorldPart'
<1>1. 1 .. lastId \subseteq 1 .. lastId'
  OBVIOUS
<1>2. TurnsPart /\ UNCHANGED <<turnSets, histVars>> => TurnsPart'
  BY <1>1 DEF TurnsPart, Turns, turnSets, histVars
<1>3. TickPart /\ UNCHANGED tick /\ wakeTick' \in BOOLEAN => TickPart'
  BY <1>1 DEF TickPart
<1>4. WorldPart /\ UNCHANGED <<clock, worldVars, cardVars, spent>> => WorldPart'
  BY DEF WorldPart, worldVars, cardVars
<1> QED
  BY <1>2, <1>3, <1>4

LEMMA SpentTyped ==
  ASSUME WorldPart
  PROVE  /\ Edit => spent' \in [edits : 0 .. MaxEdits, trouble : 0 .. MaxTrouble]
         /\ Trouble => spent' \in [edits : 0 .. MaxEdits, trouble : 0 .. MaxTrouble]
BY RoutineBoundsAssumption DEF WorldPart, Edit, Trouble

(* What a settled turn does to the runs. *)
LEMMA SettlesFollows ==
  ASSUME TypeInv, NEW i, NEW status \in Ending \cup Active, Settles(i, status)
  PROVE  \E f : /\ Advances(f)
                /\ IF Is(i, Active) THEN Sets(f, i, status) ELSE \A r \in runs : f[r] = r
<1>1. CASE Is(i, Active)
  <2>1. Is(i, Unended) /\ runs' = With(i, status)
    BY <1>1 DEF Settles, Is, Unended
  <2> QED
    BY <1>1, <2>1, WithFollows
<1>2. CASE ~Is(i, Active)
  BY <1>2, UnchangedFollows DEF Settles
<1> QED
  BY <1>1, <1>2

(* An event of a turn that is not the run's own (handleRuntimeEvent). *)
LEMMA LaterEventFollows ==
  ASSUME TypeInv, NEW r \in runs, LaterEvent(r)
  PROVE  \E status \in Ending \cup Active : \E f : Advances(f) /\ Sets(f, r.id, status)
<1>1. Is(r.id, Active) /\ Is(r.id, Unended)
  BY DEF LaterEvent, Is, Unended
<1>2. PICK status \in Ending \cup Active :
        runs' = With(r.id, status) \/ Settles(r.id, status)
  BY DEF LaterEvent, Ending
<1>3. runs' = With(r.id, status)
  BY <1>1, <1>2 DEF Settles
<1>4. \E f : Advances(f) /\ Sets(f, r.id, status)
  BY <1>1, <1>3, WithFollows
<1> QED
  BY <1>2, <1>4

LEMMA SettlesWakes == \A i, status : TickPart /\ Settles(i, status) => wakeTick' \in BOOLEAN
BY DEF Settles, WakeTick, TickPart

(* The cancellations of a definition, of a webhook and of an owner. *)
LEMMA WaitsFollows ==
  ASSUME TypeInv, NEW d, runs' = Saved({Cancelled(r, Waits(r, d)) : r \in runs})
  PROVE  \E f : Advances(f) /\ Cancels(f, {r \in runs : Waits(r, d)})
<1> DEFINE C == {r \in runs : Waits(r, d)}
<1>1. {Cancelled(r, Waits(r, d)) : r \in runs} = {Cancelled(r, r \in C) : r \in runs}
  <2>1. \A r \in runs : Cancelled(r, Waits(r, d)) = Cancelled(r, r \in C)
    BY DEF Cancelled
  <2> HIDE DEF C
  <2> QED
    BY <2>1
<1>2. runs' = Saved({Cancelled(r, r \in C) : r \in runs})
  BY <1>1
<1>3. \A r \in C : r.status \in Unended
  BY DEF Waits, Unended
<1> HIDE DEF C
<1>4. \E f : Advances(f) /\ Cancels(f, C)
  BY <1>2, <1>3, CancelFollows
<1> QED
  BY <1>4 DEF C

LEMMA OwnerFollows ==
  ASSUME TypeInv, NEW o,
         runs' = Saved({Cancelled(r, r.owner = o /\ r.status \in Unended) : r \in runs})
  PROVE  \E f : Advances(f) /\ Cancels(f, {r \in runs : r.owner = o /\ r.status \in Unended})
<1> DEFINE C == {r \in runs : r.owner = o /\ r.status \in Unended}
<1>1. {Cancelled(r, r.owner = o /\ r.status \in Unended) : r \in runs}
        = {Cancelled(r, r \in C) : r \in runs}
  <2>1. \A r \in runs : Cancelled(r, r.owner = o /\ r.status \in Unended) = Cancelled(r, r \in C)
    BY DEF Cancelled
  <2> HIDE DEF C
  <2> QED
    BY <2>1
<1>2. runs' = Saved({Cancelled(r, r \in C) : r \in runs})
  BY <1>1
<1>3. \A r \in C : r.status \in Unended
  OBVIOUS
<1> HIDE DEF C
<1>4. \E f : Advances(f) /\ Cancels(f, C)
  BY <1>2, <1>3, CancelFollows
<1> QED
  BY <1>4 DEF C

LEMMA RecoveredFollows ==
  ASSUME TypeInv, runs' = Mapped(Recovered)
  PROVE  \E f : /\ Advances(f)
                /\ \A r \in runs : IF r.status \in Active THEN f[r].status = "failed" ELSE f[r] = r
<1> DEFINE f == [r \in runs |-> Recovered(r)]
<1>1. runs \subseteq RunRecords(lastId)
  BY RunsAreRecords
<1>2. runs' = Saved({f[r] : r \in runs})
  <2>1. {f[r] : r \in runs} = {Recovered(r) : r \in runs}
    OBVIOUS
  <2> QED
    BY <2>1 DEF Mapped
<1>3. \A r \in RunRecords(lastId) :
        /\ Recovered(r) \in RunRecords(lastId) /\ Same(Recovered(r), r)
        /\ r.status \in Active => Recovered(r).status = "failed"
        /\ r.status \notin Active => Recovered(r) = r
  BY DEF RunRecords, Recovered, Ended, Same, Ending
<1>4. f \in [runs -> RunRecords(lastId)] /\ \A r \in runs : f[r] = Recovered(r)
  BY <1>1, <1>3
<1>5. \A r \in runs : r.status \in Ending => r.status \notin Active
  BY DEF Ending, Active
<1> HIDE DEF f
<1>6. Follows(f)
  BY <1>1, <1>2, <1>3, <1>4, <1>5, SavedFollows
<1>7. Advances(f)
  <2>1. \A r \in runs : f[r].status = "queued" => f[r] = r
    <3>1. \A r \in runs : r.status \in Active => f[r].status = "failed"
      BY <1>1, <1>3, <1>4
    <3>2. \A r \in runs : r.status \notin Active => f[r] = r
      BY <1>1, <1>3, <1>4
    <3> QED
      BY <3>1, <3>2
  <2> QED
    BY <1>6, <2>1 DEF Advances
<1> QED
  BY <1>1, <1>3, <1>4, <1>7
------------------------------------------------------------------------------
(* The tick's three parts. *)
LEMMA LimitRuns ==
  ASSUME TypeInv, TickLimit
  PROVE  \E late \in OverLimit :
           /\ \E f : Advances(f) /\ Sets(f, late.id, "failed")
           /\ Stopping({t \in setup \cup liveRuns : t.run = late.id})
           /\ tick' = [tick EXCEPT !.phase = "awaiting", !.at = Position(late) + 1]
<1>1. PICK late \in OverLimit :
        /\ runs' = With(late.id, "failed")
        /\ Stopping({t \in setup \cup liveRuns : t.run = late.id})
        /\ tick' = [tick EXCEPT !.phase = "awaiting", !.at = Position(late) + 1]
  BY DEF TickLimit
<1>2. Is(late.id, Unended)
  BY DEF OverLimit, Is, Unended
<1>3. \E f : Advances(f) /\ Sets(f, late.id, "failed")
  BY <1>1, <1>2, WithFollows DEF Ending
<1> QED
  BY <1>1, <1>3

LEMMA RunsFinite ==
  ASSUME RunsPart, lastId \in Nat
  PROVE  IsFiniteSet(runs)
<1> DEFINE g == [r \in runs |-> r.id]
<1>1. g \in [runs -> 1 .. lastId] /\ \A r, q \in runs : g[r] = g[q] => r = q
  BY DEF RunsPart, RunsOK, IdsDistinct
<1>2. g \in Injection(runs, 1 .. lastId)
  BY <1>1 DEF Injection, IsInjective
<1>3. IsFiniteSet(1 .. lastId)
  BY FS_Interval
<1> QED
  BY <1>2, <1>3, FS_Injection

LEMMA PositionsCount ==
  ASSUME RunsPart, lastId \in Nat
  PROVE  \A r \in runs : Position(r) \in Nat
<1> SUFFICES ASSUME NEW r \in runs PROVE Position(r) \in Nat
  OBVIOUS
<1> DEFINE upTo == {q \in runs : q.id <= r.id}
<1>1. IsFiniteSet(upTo)
  BY RunsFinite, FS_Subset
<1> QED
  BY <1>1, FS_CardinalityType DEF Position

LEMMA AlignedForward ==
  ASSUME TypeInv, NEW r \in runs
  PROVE  /\ Aligned(r) \in Nat /\ Aligned(r) >= r.slot
         /\ ~(Repeats(r) /\ plan.schedule[r.def] = "interval") => Aligned(r) = r.slot
         /\ Aligned(r) # r.slot => Aligned(r) <= tick.now
<1>1. r.slot \in Nat /\ tick.now \in Nat
  BY RunsAreRecords DEF TypeInv, RoutinesTypeOK, RunRecords
<1>2. r.trigger = "schedule" => r.def \in Defs
  BY PlanFacts DEF TypeInv, KnownDefinitions
<1>3. r.trigger = "schedule" =>
        LatestOccurrence(r.def, tick.now) \in Nat /\ LatestOccurrence(r.def, tick.now) <= tick.now
  BY <1>1, <1>2, Occurrences
<1> QED
  BY <1>1, <1>3 DEF Aligned, Repeats

(* A queued run that goes on waiting, or starts, for its aligned slot. *)
Realigns(f, r, status) ==
  /\ f[r].status = status /\ f[r].slot = Aligned(r)
  /\ \A q \in runs : q # r => f[q] = q

LEMMA StaysRuns ==
  ASSUME TypeInv, NEW r \in runs, r.status = "queued", StaysQueued(r)
  PROVE  \E f : Follows(f) /\ Realigns(f, r, "queued")
<1> DEFINE Op(q) == IF q.id = r.id THEN [q EXCEPT !.slot = Aligned(r)] ELSE q
           f == [q \in runs |-> Op(q)]
<1>1. runs \subseteq RunRecords(lastId) /\ Aligned(r) \in Nat
  BY RunsAreRecords, AlignedForward
<1>2. \A q \in runs : q.id = r.id => q = r
  BY DEF TypeInv, IdsDistinct
<1>3. runs' = Saved({f[q] : q \in runs})
  <2>1. {f[q] : q \in runs} = {Op(q) : q \in runs}
    OBVIOUS
  <2> QED
    BY <2>1 DEF StaysQueued, Mapped
<1>4. \A q \in RunRecords(lastId) :
        /\ Op(q) \in RunRecords(lastId) /\ Same(Op(q), q) /\ Op(q).status = q.status
        /\ q.id = r.id => Op(q).slot = Aligned(r)
  BY <1>1 DEF RunRecords, Same
<1>5. \A q \in runs : q.status \in Ending => Op(q) = q
  BY <1>2 DEF Ending
<1>6. \A q \in runs : q # r => Op(q) = q
  BY <1>2
<1>7. f \in [runs -> RunRecords(lastId)] /\ \A q \in runs : f[q] = Op(q)
  BY <1>1, <1>4
<1> HIDE DEF f, Op
<1>8. Follows(f)
  BY <1>1, <1>3, <1>4, <1>5, <1>7, SavedFollows
<1>9. Realigns(f, r, "queued")
  BY <1>1, <1>4, <1>6, <1>7 DEF Realigns
<1> QED
  BY <1>8, <1>9

LEMMA StartsRuns ==
  ASSUME TypeInv, NEW r \in runs, r.status = "queued", Starts(r)
  PROVE  \E f : Advances(f) /\ Realigns(f, r, "running")
<1> DEFINE Op(q) == IF q.id = r.id THEN Begun(q, Aligned(r)) ELSE q
           f == [q \in runs |-> Op(q)]
<1>1. runs \subseteq RunRecords(lastId) /\ Aligned(r) \in Nat /\ clock \in Nat
  BY RunsAreRecords, AlignedForward DEF TypeInv, RoutinesTypeOK
<1>2. \A q \in runs : q.id = r.id => q = r
  BY DEF TypeInv, IdsDistinct
<1>3. runs' = Saved({f[q] : q \in runs})
  <2>1. {f[q] : q \in runs} = {Op(q) : q \in runs}
    OBVIOUS
  <2> QED
    BY <2>1 DEF Starts, Mapped
<1>4. \A q \in RunRecords(lastId) :
        /\ Op(q) \in RunRecords(lastId) /\ Same(Op(q), q)
        /\ q.id = r.id => Op(q).slot = Aligned(r) /\ Op(q).status = "running"
        /\ q.id # r.id => Op(q) = q
  BY <1>1 DEF RunRecords, Same, Begun, Unended, Active
<1>5. \A q \in runs : q.status \in Ending => Op(q) = q
  BY <1>2 DEF Ending
<1>6. \A q \in runs : q # r => Op(q) = q
  BY <1>2
<1>7. f \in [runs -> RunRecords(lastId)] /\ \A q \in runs : f[q] = Op(q)
  BY <1>1, <1>4
<1> HIDE DEF f, Op
<1>8. Follows(f)
  BY <1>1, <1>3, <1>4, <1>5, <1>7, SavedFollows
<1>9. Realigns(f, r, "running")
  BY <1>1, <1>4, <1>6, <1>7 DEF Realigns
<1>10. Advances(f)
  BY <1>8, <1>9 DEF Advances, Realigns
<1> QED
  BY <1>9, <1>10

LEMMA CannotStartRuns ==
  ASSUME TypeInv, NEW r \in runs, r.status = "queued", CannotStart(r)
  PROVE  \E f : Advances(f) /\ Sets(f, r.id, "failed")
BY WithFollows DEF CannotStart, Is, Unended, Ending

(* The runs of the definitions that fire. *)
LEMMA ListedOnce ==
  ASSUME NEW S, IsFiniteSet(S)
  PROVE  /\ Len(SetToSeq(S)) \in Nat /\ DOMAIN SetToSeq(S) = 1 .. Len(SetToSeq(S))
         /\ \A i \in DOMAIN SetToSeq(S) : SetToSeq(S)[i] \in S
         /\ \A i, j \in DOMAIN SetToSeq(S) : SetToSeq(S)[i] = SetToSeq(S)[j] => i = j
<1> DEFINE n == Cardinality(S)
<1>1. n \in Nat /\ ExistsBijection(1 .. n, S)
  BY FS_CardinalityType
<1>2. \E f \in [1 .. n -> S] : IsInjective(f)
  BY <1>1 DEF ExistsBijection, Bijection, Injection, IsInjective
<1>3. SetToSeq(S) \in [1 .. n -> S] /\ IsInjective(SetToSeq(S))
  BY <1>2 DEF SetToSeq
<1>4. SetToSeq(S) \in Seq(S)
  BY <1>1, <1>3
<1>5. \A i, j \in DOMAIN SetToSeq(S) : SetToSeq(S)[i] = SetToSeq(S)[j] => i = j
  BY <1>3 DEF IsInjective
<1> HIDE DEF n
<1> QED
  BY <1>4, <1>5

Fired(new) ==
  /\ \A r \in new : /\ r.def \in Due /\ ~Overlapping(r.def)
                    /\ r.trigger = "schedule" /\ r.slot = SlotOf(r.def)
                    /\ r.status = "queued" => ~IsLate(r.def)
  /\ \A r, q \in new : r.def = q.def => r = q

LEMMA SlotsTyped ==
  ASSUME TypeInv
  PROVE  \A d \in Due : SlotOf(d) \in Nat
<1>1. tick.now \in Nat /\ \A d \in Due : d \in Defs /\ defs[d].next \in Nat
  BY DEF TypeInv, RoutinesTypeOK, Due
<1> QED
  BY <1>1, Occurrences DEF SlotOf

LEMMA NewRunFacts ==
  ASSUME NEW n \in Nat, NEW i \in 1 .. n, NEW d \in Defs \cup {Hook}, NEW at \in Nat,
         NEW trigger \in {"schedule", "manual", "webhook"}, NEW status \in {"queued", "missed"}
  PROVE  /\ NewRun(i, d, at, trigger, status) \in RunRecords(n)
         /\ NewRun(i, d, at, trigger, status).id = i
         /\ NewRun(i, d, at, trigger, status).def = d
         /\ NewRun(i, d, at, trigger, status).slot = at
         /\ NewRun(i, d, at, trigger, status).trigger = trigger
         /\ NewRun(i, d, at, trigger, status).status = status
<1>1. (IF d = Hook THEN HookBot ELSE Owner[d]) \in Owners
  BY DEF Owners
<1> QED
  BY <1>1 DEF NewRun, RunRecords, Unended, Ending

LEMMA DueRuns ==
  ASSUME TypeInv, TickDue
  PROVE  \E new : Adds(new) /\ Fired(new)
<1> DEFINE S == {d \in Due : ~Overlapping(d)}
           firing == SetToSeq(S)
           status(k) == IF IsLate(firing[k]) THEN "missed" ELSE "queued"
           run(k) == NewRun(lastId + k, firing[k], SlotOf(firing[k]), "schedule", status(k))
           new == {run(k) : k \in DOMAIN firing}
<1>1. lastId \in Nat /\ DOMAIN plan.schedule \subseteq Defs
      /\ \A d \in Due : d \in Defs /\ d \in DOMAIN plan.schedule
  BY PlanFacts DEF TypeInv, RoutinesTypeOK, KnownDefinitions, Due
<1>2. IsFiniteSet(S)
  <2>1. S \subseteq Defs
    BY <1>1
  <2> QED
    BY <2>1, RoutineDefsAssumption, FS_Subset
<1>3. /\ Len(firing) \in Nat /\ DOMAIN firing = 1 .. Len(firing)
      /\ \A k \in DOMAIN firing : firing[k] \in S
      /\ \A j, k \in DOMAIN firing : firing[j] = firing[k] => j = k
  <2> HIDE DEF S
  <2> QED
    BY <1>2, ListedOnce
<1>4. lastId' = lastId + Len(firing) /\ lastId' \in Nat /\ lastId <= lastId'
  <2>1. lastId' = lastId + Len(firing)
    BY DEF TickDue
  <2> HIDE DEF firing
  <2> QED
    BY <1>1, <1>3, <2>1
<1>5. runs' = IF Due = {} THEN runs ELSE Saved(runs \cup new)
  BY DEF TickDue
<1>6. \A k \in DOMAIN firing :
        /\ lastId + k \in 1 .. lastId' /\ lastId + k > lastId
        /\ firing[k] \in Due /\ ~Overlapping(firing[k]) /\ SlotOf(firing[k]) \in Nat
        /\ firing[k] \in Defs /\ firing[k] \in DOMAIN plan.schedule
  BY <1>1, <1>3, <1>4, SlotsTyped
<1>7. \A k \in DOMAIN firing :
        /\ run(k) \in RunRecords(lastId') /\ run(k).id = lastId + k /\ run(k).def = firing[k]
        /\ run(k).slot = SlotOf(firing[k]) /\ run(k).trigger = "schedule"
        /\ run(k).status = status(k)
  <2> TAKE k \in DOMAIN firing
  <2>1. status(k) \in {"queued", "missed"}
    OBVIOUS
  <2> HIDE DEF firing, status
  <2> QED
    BY <1>4, <1>6, <2>1, NewRunFacts
<1>8. Due = {} => new = {}
  <2>1. \A k \in DOMAIN firing : firing[k] \in Due
    BY <1>3
  <2> HIDE DEF firing
  <2> QED
    BY <2>1
<1>9. runs' \subseteq runs \cup new /\ \A r \in runs \cup new : r.status \in Unended => r \in runs'
  <2> HIDE DEF new
  <2> QED
    BY <1>5, <1>8, SaveKeeps
<1>10. \A r \in new : \E k \in DOMAIN firing : r = run(k)
  OBVIOUS
<1>11. \A k \in DOMAIN firing : status(k) \in {"queued", "missed"}
                               /\ (status(k) = "queued" => ~IsLate(firing[k]))
  OBVIOUS
<1>12. \A j, k \in DOMAIN firing : j \in Nat /\ k \in Nat
  BY <1>3
<1> HIDE DEF new, run, status, firing, S
<1>13. Adds(new)
  <2>1. new \subseteq RunRecords(lastId')
    BY <1>7, <1>10
  <2>2. \A r \in new : /\ r.id > lastId /\ r.status \in {"queued", "missed"}
                       /\ r.trigger = "schedule" => r.def \in DOMAIN plan.schedule
    BY <1>6, <1>7, <1>10, <1>11
  <2>3. \A r, q \in new : r.id = q.id => r = q
    <3> SUFFICES ASSUME NEW r \in new, NEW q \in new, r.id = q.id PROVE r = q
      OBVIOUS
    <3>1. PICK j \in DOMAIN firing : r = run(j)
      BY <1>10
    <3>2. PICK k \in DOMAIN firing : q = run(k)
      BY <1>10
    <3>3. lastId + j = lastId + k
      BY <1>7, <3>1, <3>2
    <3>4. j = k
      BY <1>1, <1>12, <3>3
    <3> QED
      BY <3>1, <3>2, <3>4
  <2> QED
    BY <1>4, <1>9, <2>1, <2>2, <2>3 DEF Adds
<1>14. Fired(new)
  <2>1. ASSUME NEW r \in new
        PROVE  /\ r.def \in Due /\ ~Overlapping(r.def)
               /\ r.trigger = "schedule" /\ r.slot = SlotOf(r.def)
               /\ r.status = "queued" => ~IsLate(r.def)
    BY <1>6, <1>7, <1>10, <1>11
  <2>2. ASSUME NEW r \in new, NEW q \in new, r.def = q.def PROVE r = q
    <3>1. PICK j \in DOMAIN firing : r = run(j)
      BY <1>10
    <3>2. PICK k \in DOMAIN firing : q = run(k)
      BY <1>10
    <3>3. firing[j] = firing[k]
      BY <1>7, <2>2, <3>1, <3>2
    <3> QED
      BY <1>3, <3>1, <3>2, <3>3
  <2> QED
    BY <2>1, <2>2 DEF Fired
<1> QED
  BY <1>13, <1>14

(* A run that is asked for, or delivered. *)
LEMMA OneRunAdds ==
  ASSUME TypeInv, NEW d \in Defs \cup {Hook}, NEW trigger \in {"manual", "webhook"},
         lastId' = lastId + 1,
         runs' = Saved(runs \cup {NewRun(lastId', d, clock, trigger, "queued")})
  PROVE  \E new : Adds(new) /\ \A r \in new : r.trigger # "schedule"
<1> DEFINE r == NewRun(lastId', d, clock, trigger, "queued")
<1>1. lastId \in Nat /\ clock \in Nat
  BY DEF TypeInv, RoutinesTypeOK
<1>2. lastId' \in Nat /\ lastId' \in 1 .. lastId' /\ lastId <= lastId' /\ lastId' > lastId
  BY <1>1
<1>3. r \in RunRecords(lastId') /\ r.id = lastId' /\ r.trigger = trigger /\ r.status = "queued"
  BY <1>1, <1>2, NewRunFacts
<1>4. runs' = Saved(runs \cup {r})
  OBVIOUS
<1> HIDE DEF r
<1>5. runs' \subseteq runs \cup {r} /\ \A q \in runs \cup {r} : q.status \in Unended => q \in runs'
  BY <1>4, SaveKeeps
<1>6. Adds({r})
  BY <1>2, <1>3, <1>5 DEF Adds
<1> QED
  BY <1>3, <1>6

(* The operations of the calendar and of a card. *)
LEMMA OperationRuns ==
  ASSUME TypeInv, NEW d \in Defs, NEW action, Operation(action, d)
  PROVE  /\ defs[d].present
         /\ \/ /\ action = "run_now"
               /\ UNCHANGED defs
               /\ wakeTick' = (tick.phase = "off")
               /\ \E new : Adds(new) /\ \A r \in new : r.trigger # "schedule"
            \/ /\ action \in {"pause", "delete"}
               /\ UNCHANGED <<lastId, wakeTick>>
               /\ defs' = [defs EXCEPT ![d] = defs'[d]]
               /\ defs'[d] \in {NoDefinition,
                     [defs[d] EXCEPT !.enabled = FALSE, !.next = NoTime, !.edited = TRUE]}
               /\ \E f : Advances(f) /\ Cancels(f, {r \in runs : Waits(r, d)})
<1>1. defs \in [Defs -> [present : BOOLEAN, enabled : BOOLEAN, edited : BOOLEAN,
                         next : Nat \cup {NoTime}]]
  BY DEF TypeInv, RoutinesTypeOK
<1>2. defs[d].present
  BY DEF Operation
<1>3. ASSUME action = "pause", Pause(d)
      PROVE  /\ UNCHANGED <<lastId, wakeTick>>
             /\ defs' = [defs EXCEPT ![d] = defs'[d]]
             /\ defs'[d] = [defs[d] EXCEPT !.enabled = FALSE, !.next = NoTime, !.edited = TRUE]
             /\ \E f : Advances(f) /\ Cancels(f, {r \in runs : Waits(r, d)})
  <2>1. runs' = Saved({Cancelled(r, Waits(r, d)) : r \in runs})
    BY <1>3 DEF Pause, Mapped
  <2> QED
    BY <1>1, <1>3, <2>1, WaitsFollows DEF Pause
<1>4. ASSUME action = "delete", Withdraw(d)
      PROVE  /\ UNCHANGED <<lastId, wakeTick>>
             /\ defs' = [defs EXCEPT ![d] = defs'[d]]
             /\ defs'[d] = NoDefinition
             /\ \E f : Advances(f) /\ Cancels(f, {r \in runs : Waits(r, d)})
  <2>1. runs' = Saved({Cancelled(r, Waits(r, d)) : r \in runs})
    BY <1>4 DEF Withdraw, Mapped
  <2> QED
    BY <1>1, <1>4, <2>1, WaitsFollows DEF Withdraw
<1>5. ASSUME action = "run_now", RunNow(d)
      PROVE  /\ UNCHANGED defs /\ wakeTick' = (tick.phase = "off")
             /\ \E new : Adds(new) /\ \A r \in new : r.trigger # "schedule"
  BY <1>5, OneRunAdds DEF RunNow, WakeTick
<1>6. \/ action = "pause" /\ Pause(d)
      \/ action = "delete" /\ Withdraw(d)
      \/ action = "run_now" /\ RunNow(d)
  BY DEF Operation
<1>7. CASE action = "pause" /\ Pause(d)
  BY <1>2, <1>3, <1>7
<1>8. CASE action = "delete" /\ Withdraw(d)
  BY <1>2, <1>4, <1>8
<1>9. CASE action = "run_now" /\ RunNow(d)
  BY <1>2, <1>5, <1>9
<1> QED
  BY <1>6, <1>7, <1>8, <1>9
------------------------------------------------------------------------------
LEMMA TypesInit == RoutinesInit => TypeInv
<1> SUFFICES ASSUME RoutinesInit PROVE TypeInv
  OBVIOUS
<1> USE DEF RoutinesInit
<1>1. plan \in AllPlans
  BY RoutineDefsAssumption
<1>2. RunsPart
  BY DEF RunsPart, RunsOK, IdsDistinct
<1>3. DefsPart
  <2>1. \A d \in Defs : InitialOccurrence(d, 0) \in Nat \cup {NoTime}
    BY Occurrences
  <2> QED
    BY <2>1 DEF DefsPart, NoDefinition
<1>4. TurnsPart
  BY DEF TurnsPart, Turns
<1>5. TickPart
  BY DEF TickPart, NoTick
<1>6. WorldPart
  <2>1. spent \in [edits : 0 .. MaxEdits, trouble : 0 .. MaxTrouble]
    BY RoutineBoundsAssumption
  <2> QED
    BY <1>1, <2>1 DEF WorldPart
<1> QED
  BY <1>2, <1>3, <1>4, <1>5, <1>6, Parts

LEMMA TickTypes ==
  ASSUME TypeInv
  PROVE  /\ TickBegins => TypeInv'
         /\ TickLimit => TypeInv'
         /\ InterruptAnswers => TypeInv'
         /\ TickEnds => TypeInv'
<1>1. RunsPart /\ DefsPart /\ TurnsPart /\ TickPart /\ WorldPart
  BY Parts
<1>2. ASSUME TickBegins PROVE TypeInv'
  <2>1. TickPart'
    BY <1>1, <1>2 DEF TickBegins, TickPart, WorldPart, NoTick
  <2> QED
    BY <1>1, <1>2, <2>1, PartsUnchanged, Parts DEF TickBegins, worldVars
<1>3. ASSUME TickLimit PROVE TypeInv'
  <2>1. PICK late \in OverLimit :
          /\ \E f : Advances(f) /\ Sets(f, late.id, "failed")
          /\ Stopping({t \in setup \cup liveRuns : t.run = late.id})
          /\ tick' = [tick EXCEPT !.phase = "awaiting", !.at = Position(late) + 1]
    BY <1>3, LimitRuns
  <2>2. UNCHANGED <<clock, defs, lastId, setup, liveRuns, worldVars, wakeTick, cardVars,
                    histVars, spent, plan>>
    BY <1>3 DEF TickLimit, worldVars
  <2>3. RunsPart'
    BY <1>1, <2>1, <2>2, FollowsTyped DEF Advances
  <2>4. Position(late) \in Nat
    BY <1>1, PositionsCount DEF OverLimit, WorldPart
  <2>5. TickPart'
    BY <1>1, <2>1, <2>2, <2>4 DEF TickPart
  <2>6. TurnsPart'
    BY <1>1, <2>1, <2>2 DEF TurnsPart, Turns, Stopping, histVars
  <2> QED
    BY <1>1, <2>2, <2>3, <2>5, <2>6, PartsUnchanged, Parts
<1>4. ASSUME InterruptAnswers PROVE TypeInv'
  <2>1. TickPart'
    BY <1>1, <1>4 DEF InterruptAnswers, TickPart
  <2> QED
    BY <1>1, <1>4, <2>1, PartsUnchanged, Parts DEF InterruptAnswers, worldVars
<1>5. ASSUME TickEnds PROVE TypeInv'
  <2>1. TickPart'
    BY <1>1, <1>5 DEF TickEnds, TickPart, NoTick
  <2> QED
    BY <1>1, <1>5, <2>1, PartsUnchanged, Parts DEF TickEnds, worldVars
<1> QED
  BY <1>2, <1>3, <1>4, <1>5

LEMMA DueTypes == TypeInv /\ TickDue => TypeInv'
<1> SUFFICES ASSUME TypeInv, TickDue PROVE TypeInv'
  OBVIOUS
<1>1. RunsPart /\ DefsPart /\ TurnsPart /\ TickPart /\ WorldPart
  BY Parts
<1>2. PICK new : Adds(new) /\ Fired(new)
  BY DueRuns
<1>3. UNCHANGED <<clock, turnSets, worldVars, wakeTick, cardVars, histVars, spent, plan>>
  BY DEF TickDue, worldVars
<1>4. lastId \in Nat /\ lastId' \in Nat /\ lastId <= lastId'
  BY <1>1, <1>2 DEF WorldPart, Adds
<1>5. RunsPart'
  BY <1>1, <1>2, <1>3, <1>4, AddsTyped
<1>6. tick' = [tick EXCEPT !.phase = "start", !.at = 1, !.todo = {r.id : r \in runs'}]
  BY DEF TickDue
<1>7. TickPart'
  BY <1>1, <1>3, <1>5, <1>6 DEF TickPart, RunsPart, RunsOK
<1>8. DefsPart'
  <2>1. defs' = [d \in Defs |->
          IF d \notin Due THEN defs[d]
          ELSE IF plan.schedule[d] = "once"
               THEN [defs[d] EXCEPT !.next = NoTime, !.enabled = FALSE, !.edited = TRUE]
               ELSE [defs[d] EXCEPT !.next = NextOccurrence(d, tick.now)]]
    BY DEF TickDue
  <2>2. \A d \in Defs : NextOccurrence(d, tick.now) \in Nat \cup {NoTime}
    BY <1>1, Occurrences DEF TickPart
  <2>3. \A d \in Due : defs[d].enabled
    BY DEF Due
  <2>4. ASSUME NEW d \in Defs
        PROVE  /\ defs'[d] \in [present : BOOLEAN, enabled : BOOLEAN, edited : BOOLEAN,
                                next : Nat \cup {NoTime}]
               /\ ~defs'[d].enabled => defs'[d].next = NoTime
               /\ defs'[d].present => defs[d].present
               /\ defs'[d].enabled => defs'[d].present
    <3>1. /\ defs[d] \in [present : BOOLEAN, enabled : BOOLEAN, edited : BOOLEAN,
                           next : Nat \cup {NoTime}]
          /\ ~defs[d].enabled => defs[d].next = NoTime
          /\ defs[d].enabled => defs[d].present
      BY <1>1 DEF DefsPart
    <3>2. CASE d \notin Due
      BY <2>1, <3>1, <3>2
    <3>3. CASE d \in Due /\ plan.schedule[d] = "once"
      BY <2>1, <3>1, <3>3
    <3>4. CASE d \in Due /\ plan.schedule[d] # "once"
      BY <2>1, <2>2, <2>3, <3>1, <3>4
    <3> QED
      BY <3>2, <3>3, <3>4
  <2> QED
    BY <1>1, <1>3, <2>1, <2>4 DEF DefsPart
<1> QED
  BY <1>1, <1>3, <1>4, <1>5, <1>7, <1>8, PartsGrow, Parts

LEMMA TurnOfTyped ==
  ASSUME TypeInv, NEW r \in runs
  PROVE  TurnOf(r) \in [run : 1 .. lastId, owner : Owners, goal : BOOLEAN]
BY RunsAreRecords DEF TurnOf, RunRecords

LEMMA StartTypes == TypeInv /\ TickStart => TypeInv'
<1> SUFFICES ASSUME TypeInv, TickStart PROVE TypeInv'
  OBVIOUS
<1>1. RunsPart /\ DefsPart /\ TurnsPart /\ TickPart /\ WorldPart
  BY Parts
<1>2. UNCHANGED <<clock, defs, lastId, liveRuns, stopped, worldVars, cardVars, leftOpen, spent, plan>>
  BY DEF TickStart, worldVars
<1>3. PICK i \in tick.todo :
        /\ tick' = [tick EXCEPT !.todo = @ \ {i}]
        /\ \/ ~Is(i, {"queued"}) /\ UNCHANGED <<runs, setup, wakeTick, started, slots>>
           \/ \E r \in runs : /\ r.id = i /\ r.status = "queued"
                              /\ StaysQueued(r) \/ CannotStart(r) \/ Starts(r)
  BY DEF TickStart
<1>4. /\ tick'.phase = tick.phase /\ tick'.now = tick.now /\ tick'.at = tick.at
      /\ tick'.todo \subseteq tick.todo
  BY <1>1, <1>3 DEF TickPart
<1>5. wakeTick' \in BOOLEAN => TickPart'
  BY <1>1, <1>2, <1>4 DEF TickPart
<1>6. DefsPart' /\ WorldPart'
  BY <1>1, <1>2, PartsUnchanged
<1>7. CASE UNCHANGED <<runs, setup, wakeTick, started, slots>>
  <2>1. TurnsPart'
    BY <1>1, <1>2, <1>7 DEF TurnsPart, Turns
  <2> QED
    BY <1>1, <1>2, <1>5, <1>6, <1>7, <2>1, PartsUnchanged, Parts DEF TickPart
<1>8. ASSUME NEW r \in runs, r.status = "queued", StaysQueued(r) PROVE TypeInv'
  <2>1. RunsPart'
    BY <1>1, <1>2, <1>8, StaysRuns, FollowsTyped
  <2>2. UNCHANGED <<setup, wakeTick, started, slots>>
    BY <1>8 DEF StaysQueued
  <2>3. TurnsPart'
    BY <1>1, <1>2, <2>2 DEF TurnsPart, Turns
  <2> QED
    BY <1>1, <1>5, <1>6, <2>1, <2>2, <2>3, Parts DEF TickPart
<1>9. ASSUME NEW r \in runs, r.status = "queued", CannotStart(r) PROVE TypeInv'
  <2>1. RunsPart'
    BY <1>1, <1>2, <1>9, CannotStartRuns, FollowsTyped DEF Advances
  <2>2. UNCHANGED <<setup, started, slots>> /\ wakeTick' \in BOOLEAN
    BY <1>9 DEF CannotStart
  <2>3. TurnsPart'
    BY <1>1, <1>2, <2>2 DEF TurnsPart, Turns
  <2> QED
    BY <1>1, <1>5, <1>6, <2>1, <2>2, <2>3, Parts DEF TickPart
<1>10. ASSUME NEW r \in runs, r.status = "queued", Starts(r) PROVE TypeInv'
  <2>1. RunsPart'
    BY <1>1, <1>2, <1>10, StartsRuns, FollowsTyped DEF Advances
  <2>2. /\ setup' = setup \cup {TurnOf(r)} /\ started' = started \cup {r.id}
        /\ slots' = IF Repeats(r) THEN slots \cup {<<r.def, Aligned(r)>>} ELSE slots
        /\ UNCHANGED wakeTick
    BY <1>10 DEF Starts
  <2>3. r.id \in 1 .. lastId /\ Aligned(r) \in Nat /\ (Repeats(r) => r.def \in Defs)
    BY <1>10, RunsAreRecords, AlignedForward, PlanFacts DEF RunRecords, Repeats, TypeInv, KnownDefinitions
  <2>4. TurnsPart'
    <3>1. TurnOf(r) \in [run : 1 .. lastId, owner : Owners, goal : BOOLEAN]
      BY <1>10, TurnOfTyped
    <3>2. Turns' \subseteq [run : 1 .. lastId', owner : Owners, goal : BOOLEAN]
      BY <1>1, <1>2, <2>2, <3>1 DEF TurnsPart, Turns
    <3>3. slots' \subseteq Defs \X Nat
      BY <1>1, <2>2, <2>3 DEF TurnsPart
    <3>4. stopped' \subseteq 1 .. lastId' /\ started' \subseteq 1 .. lastId' /\ leftOpen' \subseteq started'
      BY <1>1, <1>2, <2>2, <2>3 DEF TurnsPart
    <3> QED
      BY <3>2, <3>3, <3>4 DEF TurnsPart
  <2> QED
    BY <1>1, <1>5, <1>6, <2>1, <2>2, <2>4, Parts DEF TickPart
<1> QED
  BY <1>3, <1>7, <1>8, <1>9, <1>10

LEMMA TurnTypes ==
  ASSUME TypeInv, TurnsStarted
  PROVE  /\ \A t : SetupEnds(t) \/ TurnEnds(t) => TypeInv'
         /\ \A t : Asks(t) \/ Answered(t) => TypeInv'
<1>1. RunsPart /\ DefsPart /\ TurnsPart /\ TickPart /\ WorldPart
  BY Parts
<1>2. ASSUME NEW t, t \in Turns, Gone(t), Frees(t),
             NEW status \in Ending \cup Active, Settles(t.run, status),
             UNCHANGED <<clock, defs, lastId, plan, gone, tick, cardVars, started, slots>>,
             leftOpen' \subseteq leftOpen \cup {t.run},
             setup' \subseteq setup, liveRuns' \subseteq liveRuns
      PROVE  TypeInv'
  <2>1. RunsPart'
    BY <1>1, <1>2, SettlesFollows, FollowsTyped DEF Advances
  <2>2. DefsPart'
    BY <1>1, <1>2, PartsUnchanged
  <2>3. TurnsPart'
    BY <1>1, <1>2 DEF TurnsPart, Turns, Gone, TurnsStarted
  <2>4. TickPart'
    BY <1>1, <1>2, SettlesWakes DEF TickPart
  <2>5. t.owner \in Owners
    BY <1>1, <1>2 DEF TurnsPart
  <2>6. WorldPart'
    BY <1>1, <1>2, <2>5, SpentTyped DEF Frees, WorldPart, cardVars
  <2> QED
    BY <2>1, <2>2, <2>3, <2>4, <2>6, Parts
<1>3. ASSUME NEW t, SetupEnds(t) PROVE TypeInv'
  <2>1. /\ t \in Turns /\ setup' = setup \ {t}
        /\ UNCHANGED <<clock, defs, lastId, plan, gone, tick, cardVars, histVars>>
    BY <1>3 DEF SetupEnds, Turns
  <2>2. CASE liveRuns' = liveRuns \cup {t} /\ UNCHANGED <<runs, wakeTick, stopped, elsewhere, spent>>
    <3>1. TurnsPart'
      BY <1>1, <2>1, <2>2 DEF TurnsPart, Turns, histVars
    <3> QED
      BY <1>1, <2>1, <2>2, <3>1, PartsUnchanged, Parts DEF worldVars
  <2>3. CASE Settles(t.run, "failed") /\ Gone(t) /\ Frees(t) /\ UNCHANGED liveRuns
    BY <1>2, <2>1, <2>3 DEF Ending, histVars
  <2> QED
    BY <1>3, <2>2, <2>3 DEF SetupEnds
<1>4. ASSUME NEW t, TurnEnds(t) PROVE TypeInv'
  <2>1. /\ t \in Turns /\ liveRuns' = liveRuns \ {t} /\ Gone(t) /\ Frees(t)
        /\ UNCHANGED <<clock, defs, lastId, plan, gone, setup, tick, cardVars, started, slots>>
        /\ leftOpen' \subseteq leftOpen \cup {t.run}
    BY <1>4 DEF TurnEnds, Turns
  <2>2. PICK status \in Outcomes(t) : Settles(t.run, status)
    BY <1>4 DEF TurnEnds
  <2>3. status \in Ending \cup Active
    BY DEF Outcomes, Ending, Active
  <2> QED
    BY <1>2, <2>1, <2>2, <2>3
<1>5. ASSUME NEW t, Asks(t) PROVE TypeInv'
  <2>1. /\ Is(t.run, Unended) /\ runs' = With(t.run, "waiting") /\ "waiting" \in Active
        /\ UNCHANGED <<clock, defs, lastId, turnSets, worldVars, tick, wakeTick, cardVars, histVars,
                       spent, plan>>
    BY <1>5 DEF Asks, Is, Unended, Active, worldVars
  <2>2. RunsPart'
    BY <1>1, <2>1, WithFollows, FollowsTyped DEF Advances
  <2> QED
    BY <1>1, <2>1, <2>2, PartsUnchanged, Parts
<1>6. ASSUME NEW t, Answered(t) PROVE TypeInv'
  <2>1. /\ Is(t.run, Unended) /\ runs' = With(t.run, "running") /\ "running" \in Active
        /\ UNCHANGED <<clock, defs, lastId, turnSets, worldVars, tick, wakeTick, cardVars, histVars,
                       spent, plan>>
    BY <1>6 DEF Answered, Resolves, Is, Unended, Active, worldVars
  <2>2. RunsPart'
    BY <1>1, <2>1, WithFollows, FollowsTyped DEF Advances
  <2> QED
    BY <1>1, <2>1, <2>2, PartsUnchanged, Parts
<1> QED
  BY <1>3, <1>4, <1>5, <1>6

LEMMA SilentTypes ==
  ASSUME TypeInv, TurnsStarted, NEW t, FallsSilent(t)
  PROVE  TypeInv'
<1>1. RunsPart /\ DefsPart /\ TurnsPart /\ TickPart /\ WorldPart
  BY Parts
<1>2. /\ t \in Turns /\ setup' = setup \ {t} /\ liveRuns' = liveRuns \ {t}
      /\ leftOpen' = leftOpen \cup {t.run} /\ Gone(t) /\ Trouble
      /\ UNCHANGED <<clock, defs, runs, lastId, worldVars, tick, wakeTick, cardVars, started, slots, plan>>
  BY DEF FallsSilent, Turns, worldVars
<1>3. TurnsPart'
  BY <1>1, <1>2 DEF TurnsPart, Turns, Gone, TurnsStarted
<1>4. WorldPart'
  BY <1>1, <1>2, SpentTyped DEF WorldPart, worldVars, cardVars
<1> QED
  BY <1>1, <1>2, <1>3, <1>4, PartsUnchanged, Parts

LEMMA LaterTypes ==
  ASSUME TypeInv, NEW r \in runs, LaterEvent(r)
  PROVE  TypeInv'
<1>1. RunsPart /\ DefsPart /\ TurnsPart /\ TickPart /\ WorldPart
  BY Parts
<1>2. /\ UNCHANGED <<clock, defs, lastId, turnSets, plan, gone, tick, cardVars, histVars, spent>>
      /\ elsewhere' \subseteq elsewhere
  BY DEF LaterEvent
<1>3. RunsPart'
  BY <1>1, <1>2, LaterEventFollows, FollowsTyped DEF Advances
<1>4. wakeTick' \in BOOLEAN
  BY <1>1, SettlesWakes DEF LaterEvent, TickPart
<1>5. TickPart' /\ WorldPart'
  BY <1>1, <1>2, <1>4 DEF TickPart, WorldPart, cardVars
<1>6. TurnsPart' /\ DefsPart'
  BY <1>1, <1>2, PartsUnchanged
<1> QED
  BY <1>3, <1>5, <1>6, Parts

LEMMA WorldTypes ==
  ASSUME TypeInv
  PROVE  /\ \A o \in Owners : BusyElsewhere(o) \/ IdleAgain(o) => TypeInv'
         /\ Restart => TypeInv'
         /\ Advance => TypeInv'
         /\ UNCHANGED routinesVars => TypeInv'
<1>1. RunsPart /\ DefsPart /\ TurnsPart /\ TickPart /\ WorldPart
  BY Parts
<1>2. ASSUME NEW o \in Owners, BusyElsewhere(o) PROVE TypeInv'
  <2>1. WorldPart'
    BY <1>1, <1>2, SpentTyped DEF BusyElsewhere, WorldPart, cardVars
  <2> QED
    BY <1>1, <1>2, <2>1, PartsUnchanged, Parts DEF BusyElsewhere
<1>3. ASSUME NEW o \in Owners, IdleAgain(o) PROVE TypeInv'
  <2>1. WorldPart'
    BY <1>1, <1>3 DEF IdleAgain, WorldPart, cardVars
  <2> QED
    BY <1>1, <1>3, <2>1, PartsUnchanged, Parts DEF IdleAgain
<1>4. ASSUME Restart PROVE TypeInv'
  <2>1. /\ Trouble /\ receipts' = receipts \cap Reachable /\ elsewhere' = {}
        /\ setup' = {} /\ liveRuns' = {} /\ stopped' = {} /\ tick' = NoTick /\ wakeTick' = TRUE
        /\ UNCHANGED <<clock, defs, lastId, plan, gone, cards, applied, histVars>>
    BY <1>4 DEF Restart
  <2>2. RunsPart'
    BY <1>1, <1>4, <2>1, RecoveredFollows, FollowsTyped DEF Restart, Advances
  <2>3. TurnsPart'
    BY <1>1, <2>1 DEF TurnsPart, Turns, histVars
  <2>4. TickPart'
    BY <2>1 DEF TickPart, NoTick
  <2>5. WorldPart'
    BY <1>1, <2>1, SpentTyped DEF WorldPart
  <2> QED
    BY <1>1, <2>1, <2>2, <2>3, <2>4, <2>5, PartsUnchanged, Parts
<1>5. ASSUME Advance PROVE TypeInv'
  <2>1. WorldPart'
    BY <1>1, <1>5 DEF Advance, WorldPart, worldVars, cardVars
  <2> QED
    BY <1>1, <1>5, <2>1, PartsUnchanged, Parts DEF Advance, worldVars
<1>6. ASSUME UNCHANGED routinesVars PROVE TypeInv'
  BY <1>1, <1>6, PartsUnchanged, Parts DEF routinesVars, turnSets, worldVars, cardVars, histVars
<1> QED
  BY <1>2, <1>3, <1>4, <1>5, <1>6

LEMMA OperationTypes ==
  ASSUME TypeInv, NEW d \in Defs, NEW action, Operation(action, d),
         UNCHANGED <<clock, turnSets, worldVars, tick, histVars>>, TickPart
  PROVE  RunsPart' /\ DefsPart' /\ TurnsPart' /\ TickPart' /\ lastId' \in Nat
<1>1. RunsPart /\ DefsPart /\ TurnsPart /\ WorldPart /\ lastId \in Nat /\ UNCHANGED plan
  BY Parts DEF WorldPart, worldVars
<1>2. CASE /\ UNCHANGED defs /\ wakeTick' = (tick.phase = "off")
           /\ \E new : Adds(new) /\ \A r \in new : r.trigger # "schedule"
  <2>1. lastId' \in Nat /\ lastId <= lastId' /\ RunsPart'
    BY <1>1, <1>2, AddsTyped DEF Adds
  <2> QED
    BY <1>1, <1>2, <2>1, PartsGrow, PartsUnchanged
<1>3. CASE /\ UNCHANGED <<lastId, wakeTick>> /\ defs' = [defs EXCEPT ![d] = defs'[d]]
           /\ defs'[d] \in {NoDefinition,
                [defs[d] EXCEPT !.enabled = FALSE, !.next = NoTime, !.edited = TRUE]}
           /\ \E f : Advances(f) /\ Cancels(f, {r \in runs : Waits(r, d)})
  <2>1. RunsPart'
    BY <1>1, <1>3, FollowsTyped DEF Advances
  <2>2. defs'[d] \in [present : BOOLEAN, enabled : {FALSE}, edited : BOOLEAN, next : {NoTime}]
        /\ (defs'[d].present => defs[d].present)
    <3>1. defs[d] \in [present : BOOLEAN, enabled : BOOLEAN, edited : BOOLEAN, next : Nat \cup {NoTime}]
      BY <1>1 DEF DefsPart
    <3>2. CASE defs'[d] = NoDefinition
      BY <3>2 DEF NoDefinition
    <3>3. CASE defs'[d] = [defs[d] EXCEPT !.enabled = FALSE, !.next = NoTime, !.edited = TRUE]
      BY <3>1, <3>3
    <3> QED
      BY <1>3, <3>2, <3>3
  <2>3. DefsPart'
    BY <1>1, <1>3, <2>2 DEF DefsPart
  <2> QED
    BY <1>1, <1>3, <2>1, <2>3, PartsUnchanged
<1> QED
  BY <1>2, <1>3, OperationRuns

LEMMA RequestTypes ==
  ASSUME TypeInv, NEW d \in Defs
  PROVE  /\ \A a \in Actions : Request(a, d) => TypeInv'
         /\ Update(d) => TypeInv'
<1>1. RunsPart /\ DefsPart /\ TurnsPart /\ TickPart /\ WorldPart
  BY Parts
<1>2. ASSUME NEW a \in Actions, Request(a, d) PROVE TypeInv'
  <2>1. /\ Edit /\ Operation(a, d)
        /\ UNCHANGED <<clock, turnSets, worldVars, tick, cardVars, histVars>>
    BY <1>2 DEF Request
  <2>2. RunsPart' /\ DefsPart' /\ TurnsPart' /\ TickPart' /\ lastId' \in Nat
    BY <1>1, <2>1, OperationTypes
  <2>3. WorldPart'
    BY <1>1, <2>1, <2>2, SpentTyped DEF WorldPart, worldVars, cardVars
  <2> QED
    BY <2>2, <2>3, Parts
<1>3. ASSUME Update(d) PROVE TypeInv'
  <2>1. /\ Edit /\ defs[d].present
        /\ UNCHANGED <<clock, runs, lastId, turnSets, worldVars, tick, wakeTick, cardVars, histVars, plan>>
    BY <1>3 DEF Update, worldVars
  <2>2. PICK on \in {TRUE, defs[d].enabled} :
          defs' = [defs EXCEPT ![d].enabled = on, ![d].edited = TRUE,
                               ![d].next = IF on THEN InitialOccurrence(d, clock) ELSE NoTime]
    BY <1>3 DEF Update
  <2>3. InitialOccurrence(d, clock) \in Nat \cup {NoTime} /\ on \in BOOLEAN
    BY <1>1, Occurrences DEF WorldPart, DefsPart
  <2>4. DefsPart'
    <3> DEFINE def == [defs[d] EXCEPT !.enabled = on, !.edited = TRUE,
                                      !.next = IF on THEN InitialOccurrence(d, clock) ELSE NoTime]
    <3>1. defs[d] \in [present : BOOLEAN, enabled : BOOLEAN, edited : BOOLEAN, next : Nat \cup {NoTime}]
      BY <1>1 DEF DefsPart
    <3>2. /\ def \in [present : BOOLEAN, enabled : BOOLEAN, edited : BOOLEAN, next : Nat \cup {NoTime}]
          /\ def.present /\ (~def.enabled => def.next = NoTime)
      BY <2>1, <2>3, <3>1
    <3>3. defs' = [defs EXCEPT ![d] = def]
      BY <1>1, <2>2 DEF DefsPart
    <3> HIDE DEF def
    <3> QED
      BY <1>1, <2>1, <3>2, <3>3 DEF DefsPart
  <2>5. WorldPart'
    BY <1>1, <2>1, SpentTyped DEF WorldPart, worldVars, cardVars
  <2> QED
    BY <1>1, <2>1, <2>4, <2>5, PartsUnchanged, Parts
<1> QED
  BY <1>2, <1>3

LEMMA HookTypes ==
  ASSUME TypeInv
  PROVE  /\ Deliver => TypeInv'
         /\ CancelDeliveries => TypeInv'
<1>1. RunsPart /\ DefsPart /\ TurnsPart /\ TickPart /\ WorldPart
  BY Parts
<1>2. ASSUME Deliver PROVE TypeInv'
  <2>1. /\ Trouble /\ WakeTick
        /\ UNCHANGED <<clock, defs, turnSets, worldVars, tick, cardVars, histVars, plan>>
    BY <1>2 DEF Deliver, worldVars
  <2>2. PICK new : Adds(new)
    BY <1>2, OneRunAdds DEF Deliver
  <2>3. lastId \in Nat /\ lastId' \in Nat /\ lastId <= lastId' /\ RunsPart'
    BY <1>1, <2>1, <2>2, AddsTyped DEF Adds, WorldPart
  <2>4. TickPart'
    BY <1>1, <2>1, <2>3, PartsGrow DEF WakeTick
  <2>5. WorldPart'
    BY <1>1, <2>1, <2>3, SpentTyped DEF WorldPart, worldVars, cardVars
  <2> QED
    BY <1>1, <2>1, <2>3, <2>4, <2>5, PartsGrow, PartsUnchanged, Parts
<1>3. ASSUME CancelDeliveries PROVE TypeInv'
  <2>1. /\ Edit /\ runs' = Saved({Cancelled(r, Waits(r, Hook)) : r \in runs})
        /\ UNCHANGED <<clock, defs, lastId, turnSets, worldVars, tick, wakeTick, cardVars, histVars, plan>>
    BY <1>3 DEF CancelDeliveries, worldVars, Mapped
  <2>2. RunsPart'
    <3>1. PICK f : Advances(f)
      BY <2>1, WaitsFollows
    <3> QED
      BY <1>1, <2>1, <3>1, FollowsTyped DEF Advances
  <2>3. WorldPart'
    BY <1>1, <2>1, SpentTyped DEF WorldPart, worldVars, cardVars
  <2> QED
    BY <1>1, <2>1, <2>2, <2>3, PartsUnchanged, Parts
<1> QED
  BY <1>2, <1>3

LEMMA CancelTypes ==
  ASSUME TypeInv
  PROVE  /\ \A i \in 1 .. lastId : CancelRun(i) => TypeInv'
         /\ \A o \in Owners : Disable(o) \/ CoordinatorLeaves(o) => TypeInv'
<1>1. RunsPart /\ DefsPart /\ TurnsPart /\ TickPart /\ WorldPart
  BY Parts
<1>2. ASSUME NEW i \in 1 .. lastId, CancelRun(i) PROVE TypeInv'
  <2>1. /\ Edit /\ Is(i, Unended) /\ runs' = With(i, "cancelled") /\ "cancelled" \in Ending
        /\ Stopping({t \in setup \cup liveRuns : t.run = i})
        /\ UNCHANGED <<clock, defs, lastId, setup, liveRuns, worldVars, tick, cardVars, histVars, plan>>
        /\ (WakeTick \/ UNCHANGED wakeTick)
    BY <1>2 DEF CancelRun, Ending, worldVars
  <2>2. RunsPart'
    BY <1>1, <2>1, WithFollows, FollowsTyped DEF Advances
  <2>3. TurnsPart'
    BY <1>1, <2>1 DEF TurnsPart, Turns, Stopping, histVars
  <2>4. TickPart'
    BY <1>1, <2>1 DEF TickPart, WakeTick
  <2>5. WorldPart'
    BY <1>1, <2>1, SpentTyped DEF WorldPart, worldVars, cardVars
  <2> QED
    BY <1>1, <2>1, <2>2, <2>3, <2>4, <2>5, PartsUnchanged, Parts
<1>3. ASSUME NEW o \in Owners, Disable(o) PROVE TypeInv'
  <2>1. /\ Edit /\ gone' = gone \cup {o} /\ elsewhere' = elsewhere \ {o}
        /\ defs' = [d \in Defs |-> IF Owner[d] = o /\ defs[d].enabled
              THEN [defs[d] EXCEPT !.enabled = FALSE, !.next = NoTime, !.edited = TRUE]
              ELSE defs[d]]
        /\ Stopping({t \in setup \cup liveRuns : t.owner = o})
        /\ UNCHANGED <<clock, plan, lastId, setup, liveRuns, tick, wakeTick, cardVars, histVars>>
    BY <1>3 DEF Disable
  <2>2. RunsPart'
    <3>1. runs' = Saved({Cancelled(r, r.owner = o /\ r.status \in Unended) : r \in runs})
      BY <1>3 DEF Disable, Mapped
    <3>2. PICK f : Advances(f)
      BY <3>1, OwnerFollows
    <3> QED
      BY <1>1, <2>1, <3>2, FollowsTyped DEF Advances
  <2>3. TurnsPart'
    BY <1>1, <2>1 DEF TurnsPart, Turns, Stopping, histVars
  <2>4. DefsPart'
    BY <1>1, <2>1 DEF DefsPart
  <2>5. WorldPart'
    BY <1>1, <1>3, <2>1, SpentTyped DEF WorldPart, cardVars
  <2> QED
    BY <1>1, <2>1, <2>2, <2>3, <2>4, <2>5, PartsUnchanged, Parts
<1>4. ASSUME NEW o \in Owners, CoordinatorLeaves(o) PROVE TypeInv'
  <2>1. WorldPart'
    BY <1>1, <1>4, SpentTyped DEF CoordinatorLeaves, WorldPart, cardVars
  <2> QED
    BY <1>1, <1>4, <2>1, PartsUnchanged, Parts DEF CoordinatorLeaves
<1> QED
  BY <1>2, <1>3, <1>4

LEMMA CardTypes ==
  ASSUME TypeInv, NEW c \in RoutineCards
  PROVE  Confirm(c) \/ Refuse(c) \/ AnswerAgain(c) => TypeInv'
<1>1. RunsPart /\ DefsPart /\ TurnsPart /\ TickPart /\ WorldPart
  BY Parts
<1>2. ASSUME Confirm(c) PROVE TypeInv'
  <2>1. /\ receipts' \subseteq RoutineCards
        /\ cards' \in [RoutineCards -> {"open", "allow", "deny"}]
        /\ UNCHANGED <<clock, turnSets, worldVars, tick, histVars, spent, plan>>
    BY <1>1, <1>2 DEF Confirm, WorldPart, worldVars
  <2>2. CASE c \in receipts /\ UNCHANGED <<defs, runs, lastId, wakeTick, applied>>
    <3>1. WorldPart'
      BY <1>1, <2>1, <2>2 DEF WorldPart, worldVars
    <3> QED
      BY <1>1, <2>1, <2>2, <3>1, PartsUnchanged, Parts
  <2>3. CASE /\ Operation(plan.card[c].action, plan.card[c].def)
             /\ applied' = [applied EXCEPT ![c] = @ + 1]
    <3>1. plan.card[c].def \in Defs
      BY PlanFacts
    <3>2. RunsPart' /\ DefsPart' /\ TurnsPart' /\ TickPart' /\ lastId' \in Nat
      BY <1>1, <2>1, <2>3, <3>1, OperationTypes
    <3>3. WorldPart'
      BY <1>1, <2>1, <2>3, <3>2 DEF WorldPart, worldVars
    <3> QED
      BY <3>2, <3>3, Parts
  <2> QED
    BY <1>2, <2>2, <2>3 DEF Confirm
<1>3. ASSUME Refuse(c) \/ AnswerAgain(c) PROVE TypeInv'
  <2>1. /\ receipts' \subseteq RoutineCards
        /\ cards' \in [RoutineCards -> {"open", "allow", "deny"}]
    BY <1>1, <1>3 DEF Refuse, AnswerAgain, WorldPart
  <2>2. UNCHANGED <<clock, defs, runs, lastId, turnSets, worldVars, tick, wakeTick, applied,
                    histVars, spent, plan>>
    BY <1>3 DEF Refuse, AnswerAgain, worldVars
  <2>3. WorldPart'
    BY <1>1, <2>1, <2>2 DEF WorldPart, worldVars
  <2> QED
    BY <1>1, <2>2, <2>3, PartsUnchanged, Parts
<1> QED
  BY <1>2, <1>3

LEMMA TypesStep == TypeInv /\ TurnsStarted /\ [RoutinesNext]_routinesVars => TypeInv'
<1> SUFFICES ASSUME TypeInv, TurnsStarted, [RoutinesNext]_routinesVars PROVE TypeInv'
  OBVIOUS
<1>1. TickBegins \/ TickSteps \/ InterruptAnswers => TypeInv'
  BY TickTypes, DueTypes, StartTypes DEF TickSteps
<1>2. TurnSteps => TypeInv'
  BY TurnTypes, SilentTypes, LaterTypes, WorldTypes DEF TurnSteps
<1>3. Requests => TypeInv'
  BY RequestTypes, HookTypes, CancelTypes, CardTypes DEF Requests
<1> QED
  BY <1>1, <1>2, <1>3, WorldTypes DEF RoutinesNext
------------------------------------------------------------------------------
(* Every step keeps the runs and their turns together.                     *)
LEMMA SameTurn ==
  ASSUME NEW q, NEW r, Same(q, r)
  PROVE  TurnOf(q) = TurnOf(r)
BY DEF Same, TurnOf

(* A step that starts no turn: a run that is shown as working was so       *)
(* before, and keeps its turn or was left open by it; a turn that goes on  *)
(* and was not asked to stop keeps its run.                                *)
LEMMA TurnsFollow ==
  ASSUME TypeInv, TurnInv, NEW f, Follows(f),
         UNCHANGED started, leftOpen \subseteq leftOpen',
         Turns' \subseteq Turns, (setup \cap liveRuns = {})',
         \A r \in runs : f[r].status = "queued" => r.status = "queued",
         \A r \in runs : f[r].status \in Active =>
           /\ r.status \in Active
           /\ TurnOf(r) \in Turns => TurnOf(r) \in Turns' \/ r.id \in leftOpen',
         \A t \in Turns' : t.run \notin stopped' =>
           /\ t.run \notin stopped
           /\ \A r \in runs : r.id = t.run /\ r.status \in Active => f[r].status \in Active
  PROVE  TurnInv'
<1>1. /\ TurnsMatch /\ OneTurnPerRun /\ TurnsStarted /\ QueuedUnstarted
      /\ ActiveRunHasTurn /\ TurnHasActiveRun
  BY DEF TurnInv
<1>2. \A q \in runs' : \E r \in runs : q = f[r] /\ Same(q, r) /\ TurnOf(q) = TurnOf(r)
  BY SameTurn DEF Follows
<1>3. TurnsMatch'
  <2> SUFFICES ASSUME NEW t \in Turns', NEW q \in runs', t.run = q.id PROVE t = TurnOf(q)
    BY DEF TurnsMatch, TurnOf
  <2>1. PICK r \in runs : Same(q, r) /\ TurnOf(q) = TurnOf(r)
    BY <1>2
  <2> QED
    BY <1>1, <2>1 DEF TurnsMatch, Same
<1>4. OneTurnPerRun' /\ TurnsStarted'
  BY <1>1 DEF OneTurnPerRun, TurnsStarted
<1>5. QueuedUnstarted'
  BY <1>1, <1>2 DEF QueuedUnstarted, Same
<1>6. ActiveRunHasTurn'
  <2> SUFFICES ASSUME NEW q \in runs', q.status \in Active
               PROVE  TurnOf(q) \in Turns' \/ q.id \in leftOpen'
    BY DEF ActiveRunHasTurn, Turns, TurnOf
  <2>1. PICK r \in runs : q = f[r] /\ Same(q, r) /\ TurnOf(q) = TurnOf(r)
    BY <1>2
  <2>2. r.status \in Active
    BY <2>1
  <2>3. TurnOf(r) \in Turns \/ r.id \in leftOpen
    BY <1>1, <2>2 DEF ActiveRunHasTurn, Turns
  <2> QED
    BY <2>1, <2>3 DEF Same
<1>7. TurnHasActiveRun'
  <2> SUFFICES ASSUME NEW t \in Turns', t.run \notin stopped'
               PROVE  \E q \in runs' : q.id = t.run /\ q.status \in Active
    BY DEF TurnHasActiveRun, Turns, Is
  <2>1. Is(t.run, Active)
    BY <1>1 DEF TurnHasActiveRun, Turns
  <2>2. PICK r \in runs : r.id = t.run /\ r.status \in Active
    BY <2>1 DEF Is
  <2>3. f[r].status \in Active
    BY <2>2
  <2>4. f[r] \in runs' /\ f[r].id = r.id
    BY <2>3 DEF Follows, Same, Unended
  <2> QED
    BY <2>2, <2>3, <2>4
<1> QED
  BY <1>3, <1>4, <1>5, <1>6, <1>7 DEF TurnInv

(* A step that only ends runs, and asks the turns of those to stop. *)
LEMMA TurnsEnd ==
  ASSUME TypeInv, TurnInv, NEW f, Advances(f), NEW ended,
         \A r \in runs : IF r \in ended THEN f[r].status \in Ending ELSE f[r] = r,
         UNCHANGED <<setup, liveRuns, started, leftOpen>>, stopped \subseteq stopped',
         \A r \in runs, t \in Turns :
           r \in ended /\ r.status \in Active /\ t = TurnOf(r) => t.run \in stopped'
  PROVE  TurnInv'
<1>1. Turns' = Turns /\ (setup \cap liveRuns = {})'
  BY DEF Turns, TurnInv, OneTurnPerRun
<1>2. Follows(f) /\ \A r \in runs : f[r].status = "queued" => r.status = "queued"
  BY DEF Advances
<1>3. \A r \in runs : f[r].status \in Active => f[r] = r
  BY DEF Ending, Active
<1>4. ASSUME NEW t \in Turns, t.run \notin stopped', NEW r \in runs, r.id = t.run, r.status \in Active
      PROVE  f[r].status \in Active
  <2>1. t = TurnOf(r)
    BY <1>4 DEF TurnInv, TurnsMatch
  <2> QED
    BY <1>4, <2>1
<1> QED
  BY <1>1, <1>2, <1>3, <1>4, TurnsFollow

LEMMA TurnsUnchanged ==
  ASSUME TypeInv, TurnInv, UNCHANGED <<runs, setup, liveRuns, stopped, started, leftOpen>>
  PROVE  TurnInv'
<1>1. \E f : Advances(f) /\ \A r \in runs : f[r] = r
  BY UnchangedFollows
<1>2. PICK f : Advances(f) /\ \A r \in runs : f[r] = r
  BY <1>1
<1> DEFINE none == {}
<1>3. \A r \in runs : IF r \in none THEN f[r].status \in Ending ELSE f[r] = r
  BY <1>2
<1>4. \A r \in runs, t \in Turns :
        r \in none /\ r.status \in Active /\ t = TurnOf(r) => t.run \in stopped'
  OBVIOUS
<1> HIDE DEF none
<1> QED
  BY <1>2, <1>3, <1>4, TurnsEnd

LEMMA TurnsAdd ==
  ASSUME TypeInv, TurnInv, NEW new, Adds(new),
         UNCHANGED <<setup, liveRuns, stopped, started, leftOpen>>
  PROVE  TurnInv'
<1>1. /\ TurnsMatch /\ OneTurnPerRun /\ TurnsStarted /\ QueuedUnstarted
      /\ ActiveRunHasTurn /\ TurnHasActiveRun /\ Turns' = Turns
  BY DEF TurnInv, Turns
<1>2. lastId \in Nat /\ (\A t \in Turns : t.run \in 1 .. lastId) /\ started \subseteq 1 .. lastId
  BY DEF TypeInv, RoutinesTypeOK, Turns
<1>3. \A r \in new : r.id \in Nat /\ r.id > lastId /\ r.status \notin Active
  BY DEF Adds, RunRecords, Active
<1>4. \A r \in new : r.id \notin 1 .. lastId
  BY <1>2, <1>3
<1>5. \A q \in runs' : q \in runs \/ q \in new
  BY DEF Adds
<1>6. \A r \in runs : r.status \in Active => r \in runs'
  BY DEF Adds, Unended
<1>7. TurnsMatch'
  BY <1>1, <1>2, <1>4, <1>5 DEF TurnsMatch, TurnOf
<1>8. OneTurnPerRun' /\ TurnsStarted'
  BY <1>1 DEF OneTurnPerRun, TurnsStarted
<1>9. QueuedUnstarted'
  BY <1>1, <1>2, <1>4, <1>5 DEF QueuedUnstarted
<1>10. ActiveRunHasTurn'
  BY <1>1, <1>3, <1>5 DEF ActiveRunHasTurn, TurnOf
<1>11. TurnHasActiveRun'
  BY <1>1, <1>6 DEF TurnHasActiveRun, Is
<1> QED
  BY <1>7, <1>8, <1>9, <1>10, <1>11 DEF TurnInv

LEMMA TurnsInit == RoutinesInit => TurnInv
BY DEF RoutinesInit, TurnInv, TurnsMatch, OneTurnPerRun, TurnsStarted, QueuedUnstarted,
       ActiveRunHasTurn, TurnHasActiveRun, Turns

LEMMA TurnsTick ==
  ASSUME TypeInv, TurnInv
  PROVE  /\ TickBegins \/ TickEnds \/ InterruptAnswers => TurnInv'
         /\ TickLimit => TurnInv'
         /\ TickDue => TurnInv'
<1>1. ASSUME TickBegins \/ TickEnds \/ InterruptAnswers PROVE TurnInv'
  BY <1>1, TurnsUnchanged DEF TickBegins, TickEnds, InterruptAnswers, turnSets, histVars
<1>2. ASSUME TickLimit PROVE TurnInv'
  <2>1. PICK late \in OverLimit :
          /\ \E f : Advances(f) /\ Sets(f, late.id, "failed")
          /\ Stopping({t \in setup \cup liveRuns : t.run = late.id})
    BY <1>2, LimitRuns
  <2>2. PICK f : Advances(f) /\ Sets(f, late.id, "failed")
    BY <2>1
  <2>3. UNCHANGED <<setup, liveRuns, started, leftOpen>>
    BY <1>2 DEF TickLimit, histVars
  <2>4. \A r \in runs : IF r \in {q \in runs : q.id = late.id} THEN f[r].status \in Ending ELSE f[r] = r
    BY <2>2 DEF Sets, Ending
  <2>5. /\ stopped \subseteq stopped'
        /\ \A t \in Turns : t.run = late.id => t.run \in stopped'
    BY <2>1 DEF Stopping, Turns
  <2>6. \A r \in runs, t \in Turns :
          r \in {q \in runs : q.id = late.id} /\ t = TurnOf(r) => t.run \in stopped'
    BY <2>5 DEF TurnOf
  <2> QED
    BY <2>2, <2>3, <2>4, <2>5, <2>6, TurnsEnd
<1>3. ASSUME TickDue PROVE TurnInv'
  <2>1. \E new : Adds(new)
    BY <1>3, DueRuns
  <2> QED
    BY <1>3, <2>1, TurnsAdd DEF TickDue, turnSets, histVars
<1> QED
  BY <1>1, <1>2, <1>3

LEMMA TurnsStart == TypeInv /\ TurnInv /\ TickStart => TurnInv'
<1> SUFFICES ASSUME TypeInv, TurnInv, TickStart PROVE TurnInv'
  OBVIOUS
<1>1. UNCHANGED <<liveRuns, stopped, leftOpen, lastId>>
  BY DEF TickStart
<1>2. CASE UNCHANGED <<runs, setup, started>>
  BY <1>1, <1>2, TurnsUnchanged
<1>3. ASSUME NEW r \in runs, r.status = "queued", StaysQueued(r) PROVE TurnInv'
  <2>1. PICK f : Follows(f) /\ Realigns(f, r, "queued")
    BY <1>3, StaysRuns
  <2>2. UNCHANGED <<setup, started>> /\ Turns' = Turns /\ (setup \cap liveRuns = {})'
    BY <1>1, <1>3 DEF StaysQueued, Turns, TurnInv, OneTurnPerRun
  <2>3. \A q \in runs : f[q].status = q.status
    BY <1>3, <2>1 DEF Realigns
  <2> QED
    BY <1>1, <2>1, <2>2, <2>3, TurnsFollow
<1>4. ASSUME NEW r \in runs, r.status = "queued", CannotStart(r) PROVE TurnInv'
  <2>1. PICK f : Advances(f) /\ Sets(f, r.id, "failed")
    BY <1>4, CannotStartRuns
  <2>2. UNCHANGED <<setup, started>>
    BY <1>4 DEF CannotStart
  <2>3. \A q \in runs : IF q \in {r} THEN f[q].status \in Ending ELSE f[q] = q
    BY <2>1 DEF Sets, Ending, TypeInv, IdsDistinct
  <2>4. \A q \in runs, t \in Turns :
          q \in {r} /\ q.status \in Active /\ t = TurnOf(q) => t.run \in stopped'
    BY <1>4 DEF Active
  <2> QED
    BY <1>1, <2>1, <2>2, <2>3, <2>4, TurnsEnd
<1>5. ASSUME NEW r \in runs, r.status = "queued", Starts(r) PROVE TurnInv'
  <2>1. PICK f : Advances(f) /\ Realigns(f, r, "running")
    BY <1>5, StartsRuns
  <2>2. setup' = setup \cup {TurnOf(r)} /\ started' = started \cup {r.id}
        /\ Turns' = Turns \cup {TurnOf(r)}
    BY <1>1, <1>5 DEF Starts, Turns
  <2>3. /\ TurnsMatch /\ OneTurnPerRun /\ TurnsStarted /\ QueuedUnstarted
        /\ ActiveRunHasTurn /\ TurnHasActiveRun
    BY DEF TurnInv
  <2>4. r.id \notin started /\ TurnOf(r).run = r.id /\ \A t \in Turns : t.run # r.id
    BY <1>5, <2>3 DEF QueuedUnstarted, TurnsStarted, TurnOf
  <2>5. \A q \in runs' : \E p \in runs : /\ q = f[p] /\ Same(q, p) /\ TurnOf(q) = TurnOf(p)
                                         /\ (p = r \/ q = p)
    BY <2>1, SameTurn DEF Advances, Follows, Realigns
  <2>6. \A p \in runs : p.id = r.id => p = r
    BY DEF TypeInv, IdsDistinct
  <2>7. f[r].status = "running" /\ f[r] \in runs' /\ f[r].id = r.id
    BY <2>1 DEF Advances, Follows, Realigns, Same, Unended, Active
  <2>8. TurnsMatch'
    <3> SUFFICES ASSUME NEW t \in Turns', NEW q \in runs', t.run = q.id PROVE t = TurnOf(q)
      BY DEF TurnsMatch, TurnOf
    <3>1. PICK p \in runs : Same(q, p) /\ TurnOf(q) = TurnOf(p)
      BY <2>5
    <3>2. t.run = p.id
      BY <3>1 DEF Same
    <3>3. CASE t \in Turns
      BY <2>3, <3>1, <3>2, <3>3 DEF TurnsMatch
    <3>4. CASE t = TurnOf(r)
      BY <2>4, <2>6, <3>1, <3>2, <3>4
    <3> QED
      BY <2>2, <3>3, <3>4
  <2>9. OneTurnPerRun'
    <3>1. TurnOf(r) \notin Turns
      BY <2>4
    <3> QED
      BY <1>1, <2>2, <2>3, <2>4, <3>1 DEF OneTurnPerRun, Turns
  <2>10. TurnsStarted'
    BY <2>2, <2>3, <2>4 DEF TurnsStarted
  <2>11. QueuedUnstarted'
    <3> SUFFICES ASSUME NEW q \in runs', q.status = "queued" PROVE q.id \notin started'
      BY DEF QueuedUnstarted
    <3>1. PICK p \in runs : q = f[p] /\ Same(q, p) /\ (p = r \/ q = p)
      BY <2>5
    <3>2. p # r /\ q = p
      BY <2>7, <3>1
    <3> QED
      BY <2>2, <2>3, <2>6, <3>2 DEF QueuedUnstarted
  <2>12. ActiveRunHasTurn'
    <3> SUFFICES ASSUME NEW q \in runs', q.status \in Active
                 PROVE  TurnOf(q) \in Turns' \/ q.id \in leftOpen'
      BY DEF ActiveRunHasTurn, Turns, TurnOf
    <3>1. PICK p \in runs : TurnOf(q) = TurnOf(p) /\ (p = r \/ q = p)
      BY <2>5
    <3> QED
      BY <1>1, <2>2, <2>3, <3>1 DEF ActiveRunHasTurn, Turns
  <2>13. TurnHasActiveRun'
    <3> SUFFICES ASSUME NEW t \in Turns', t.run \notin stopped'
                 PROVE  \E q \in runs' : q.id = t.run /\ q.status \in Active
      BY DEF TurnHasActiveRun, Turns, Is
    <3>1. CASE t = TurnOf(r)
      BY <2>4, <2>7, <3>1 DEF Active
    <3>2. CASE t \in Turns
      <4>1. PICK p \in runs : p.id = t.run /\ p.status \in Active
        BY <1>1, <2>3, <3>2 DEF TurnHasActiveRun, Turns, Is
      <4>2. p # r
        BY <1>5, <4>1 DEF Active
      <4>3. f[p] = p /\ p \in runs'
        BY <2>1, <4>1, <4>2 DEF Realigns, Advances, Follows, Unended
      <4> QED
        BY <4>1, <4>3
    <3> QED
      BY <2>2, <3>1, <3>2
  <2> QED
    BY <2>8, <2>9, <2>10, <2>11, <2>12, <2>13 DEF TurnInv
<1> QED
  BY <1>2, <1>3, <1>4, <1>5 DEF TickStart

(* A turn that goes, having settled its run. *)
LEMMA TurnGoes ==
  ASSUME TypeInv, TurnInv, NEW t \in Turns, NEW status \in Ending \cup Active,
         Settles(t.run, status), status \in Active => t.run \in leftOpen',
         setup' = setup \ {t}, liveRuns' = liveRuns \ {t}, stopped' = stopped \ {t.run},
         UNCHANGED started, leftOpen \subseteq leftOpen'
  PROVE  TurnInv'
<1>1. PICK f : /\ Advances(f)
               /\ IF Is(t.run, Active) THEN Sets(f, t.run, status) ELSE \A r \in runs : f[r] = r
  BY SettlesFollows
<1>2. Turns' = Turns \ {t} /\ (setup \cap liveRuns = {})'
  BY DEF Turns, TurnInv, OneTurnPerRun
<1>3. \A r \in runs : r.id # t.run => f[r] = r
  BY <1>1 DEF Sets
<1>4. \A r \in runs : r.id = t.run =>
        f[r].status = status \/ (f[r] = r /\ r.status \notin Active)
  <2>1. CASE Is(t.run, Active)
    <3>1. Sets(f, t.run, status)
      BY <1>1, <2>1
    <3> QED
      BY <3>1 DEF Sets
  <2>2. CASE ~Is(t.run, Active)
    BY <1>1, <2>2 DEF Is
  <2> QED
    BY <2>1, <2>2
<1>5. \A u \in Turns' : u.run # t.run
  BY <1>2 DEF TurnInv, OneTurnPerRun
<1>6. \A r \in runs : r.id # t.run => TurnOf(r) # t
  BY DEF TurnOf
<1>7. Follows(f) /\ \A r \in runs : f[r].status = "queued" => r.status = "queued"
  BY <1>1 DEF Advances
<1>8. ASSUME NEW r \in runs, f[r].status \in Active
      PROVE  /\ r.status \in Active
             /\ TurnOf(r) \in Turns => TurnOf(r) \in Turns' \/ r.id \in leftOpen'
  <2>1. CASE r.id # t.run
    BY <1>2, <1>3, <1>6, <1>8, <2>1
  <2>2. CASE r.id = t.run
    <3>1. f[r].status = status /\ r.id \in leftOpen'
      BY <1>4, <1>8, <2>2
    <3>2. Is(t.run, Active)
      BY <1>1, <1>8, <2>2 DEF Is
    <3>3. r.status \in Active
      BY <2>2, <3>2 DEF Is, TypeInv, IdsDistinct
    <3> QED
      BY <3>1, <3>3
  <2> QED
    BY <2>1, <2>2
<1>9. ASSUME NEW u \in Turns', u.run \notin stopped'
       PROVE  /\ u.run \notin stopped
              /\ \A r \in runs : r.id = u.run /\ r.status \in Active => f[r].status \in Active
  BY <1>3, <1>5, <1>9
<1> QED
  BY <1>2, <1>7, <1>8, <1>9, TurnsFollow

LEMMA TurnsSettle ==
  ASSUME TypeInv, TurnInv, NEW t
  PROVE  SetupEnds(t) \/ TurnEnds(t) => TurnInv'
<1>1. setup \cap liveRuns = {}
  BY DEF TurnInv, OneTurnPerRun
<1>2. ASSUME SetupEnds(t) PROVE TurnInv'
  <2>1. t \in Turns /\ t \notin liveRuns /\ setup' = setup \ {t} /\ UNCHANGED <<started, leftOpen>>
    BY <1>1, <1>2 DEF SetupEnds, Turns, histVars
  <2>2. CASE liveRuns' = liveRuns \cup {t} /\ UNCHANGED <<runs, stopped>>
    <3>1. Turns' = Turns /\ (setup \cap liveRuns = {})'
      BY <1>1, <1>2, <2>1, <2>2 DEF Turns, SetupEnds
    <3>2. PICK f : Advances(f) /\ \A r \in runs : f[r] = r
      BY <2>2, UnchangedFollows
    <3>3. Follows(f)
      BY <3>2 DEF Advances
    <3> QED
      BY <2>1, <2>2, <3>1, <3>2, <3>3, TurnsFollow
  <2>3. CASE Settles(t.run, "failed") /\ Gone(t) /\ UNCHANGED liveRuns
    <3>1. liveRuns' = liveRuns \ {t} /\ stopped' = stopped \ {t.run}
      BY <2>1, <2>3 DEF Gone
    <3> QED
      BY <2>1, <2>3, <3>1, TurnGoes DEF Ending, Active
  <2> QED
    BY <1>2, <2>2, <2>3 DEF SetupEnds
<1>3. ASSUME TurnEnds(t) PROVE TurnInv'
  <2>1. /\ t \in Turns /\ t \notin setup /\ liveRuns' = liveRuns \ {t} /\ stopped' = stopped \ {t.run}
        /\ setup' = setup \ {t} /\ UNCHANGED started /\ leftOpen \subseteq leftOpen'
    BY <1>1, <1>3 DEF TurnEnds, Turns, Gone
  <2>2. PICK status \in Outcomes(t) :
          Settles(t.run, status) /\ (status = "waiting" => t.run \in leftOpen')
    BY <1>3 DEF TurnEnds
  <2>3. status \in Ending \cup Active /\ (status \in Active => t.run \in leftOpen')
    BY <2>2 DEF Outcomes, Ending, Active
  <2> QED
    BY <2>1, <2>2, <2>3, TurnGoes
<1> QED
  BY <1>2, <1>3

LEMMA TurnsAsk ==
  ASSUME TypeInv, TurnInv, NEW t, Asks(t) \/ Answered(t)
  PROVE  TurnInv'
<1>1. t \in Turns /\ Is(t.run, Active)
      /\ UNCHANGED <<setup, liveRuns, stopped, started, leftOpen>>
  BY DEF Asks, Answered, Resolves, Is, Active, Turns, turnSets, histVars
<1>2. PICK status \in {"waiting", "running"} : runs' = With(t.run, status)
  BY DEF Asks, Answered
<1>3. status \in Active /\ Is(t.run, Unended)
  BY <1>1 DEF Active, Is, Unended
<1>4. PICK f : Advances(f) /\ Sets(f, t.run, status)
  BY <1>2, <1>3, WithFollows
<1>5. \A r \in runs : r.id = t.run => /\ TurnOf(r) = t /\ r.status \in Active
                                      /\ f[r].status \in Active
  BY <1>1, <1>3, <1>4 DEF TurnInv, TurnsMatch, Is, TypeInv, IdsDistinct, Sets
<1>6. \A r \in runs : r.id # t.run => f[r] = r
  BY <1>4 DEF Sets
<1>7. Turns' = Turns /\ (setup \cap liveRuns = {})'
  BY <1>1 DEF Turns, TurnInv, OneTurnPerRun
<1>8. Follows(f) /\ \A r \in runs : f[r].status = "queued" => r.status = "queued"
  BY <1>4 DEF Advances
<1>9. ASSUME NEW r \in runs, f[r].status \in Active
      PROVE  /\ r.status \in Active
             /\ TurnOf(r) \in Turns => TurnOf(r) \in Turns'
  BY <1>1, <1>5, <1>6, <1>7, <1>9
<1>10. \A r \in runs : r.status \in Active => f[r].status \in Active
  BY <1>5, <1>6
<1> QED
  BY <1>1, <1>7, <1>8, <1>9, <1>10, TurnsFollow

LEMMA TurnsSilent ==
  ASSUME TypeInv, TurnInv, NEW t, FallsSilent(t)
  PROVE  TurnInv'
<1>1. /\ t \in Turns /\ setup' = setup \ {t} /\ liveRuns' = liveRuns \ {t}
      /\ leftOpen' = leftOpen \cup {t.run} /\ stopped' = stopped \ {t.run}
      /\ UNCHANGED <<runs, started>>
  BY DEF FallsSilent, Turns, Gone
<1>2. Turns' = Turns \ {t} /\ (setup \cap liveRuns = {})'
  BY <1>1 DEF Turns, TurnInv, OneTurnPerRun
<1>3. PICK f : Advances(f) /\ \A r \in runs : f[r] = r
  BY <1>1, UnchangedFollows
<1>4. \A u \in Turns' : u.run # t.run
  BY <1>1, <1>2 DEF TurnInv, OneTurnPerRun
<1>5. \A r \in runs : TurnOf(r) \in Turns => TurnOf(r) \in Turns' \/ r.id \in leftOpen'
  BY <1>1, <1>2 DEF TurnOf
<1>6. Follows(f)
  BY <1>3 DEF Advances
<1> QED
  BY <1>1, <1>2, <1>3, <1>4, <1>5, <1>6, TurnsFollow

LEMMA TurnsLater ==
  ASSUME TypeInv, TurnInv, NEW r \in runs, LaterEvent(r)
  PROVE  TurnInv'
<1>1. /\ UNCHANGED <<setup, liveRuns, stopped, started, leftOpen>>
      /\ r.status \in Active /\ \A t \in Turns : t.run # r.id
  BY DEF LaterEvent, HasTurn, Turns, turnSets, histVars
<1>2. PICK status \in Ending \cup Active : \E f : Advances(f) /\ Sets(f, r.id, status)
  BY LaterEventFollows
<1>3. PICK f : Advances(f) /\ Sets(f, r.id, status)
  BY <1>2
<1>4. /\ \A q \in runs : q.id = r.id => q = r
      /\ \A q \in runs : q.id # r.id => f[q] = q
  BY <1>3 DEF TypeInv, IdsDistinct, Sets
<1>5. Turns' = Turns /\ (setup \cap liveRuns = {})'
  BY <1>1 DEF Turns, TurnInv, OneTurnPerRun
<1>6. Follows(f) /\ \A q \in runs : f[q].status = "queued" => q.status = "queued"
  BY <1>3 DEF Advances
<1>7. \A q \in runs : f[q].status \in Active =>
        q.status \in Active /\ (TurnOf(q) \in Turns => TurnOf(q) \in Turns')
  BY <1>1, <1>4, <1>5
<1>8. \A t \in Turns', q \in runs : q.id = t.run /\ q.status \in Active => f[q].status \in Active
  BY <1>1, <1>4, <1>5
<1> QED
  BY <1>1, <1>5, <1>6, <1>7, <1>8, TurnsFollow

LEMMA TurnsRestart == TypeInv /\ TurnInv /\ Restart => TurnInv'
<1> SUFFICES ASSUME TypeInv, TurnInv, Restart PROVE TurnInv'
  OBVIOUS
<1>1. PICK f : /\ Advances(f)
               /\ \A r \in runs : IF r.status \in Active THEN f[r].status = "failed" ELSE f[r] = r
  BY RecoveredFollows DEF Restart
<1>2. Turns' = {} /\ (setup \cap liveRuns = {})' /\ UNCHANGED <<started, leftOpen>>
  BY DEF Restart, Turns, histVars
<1>3. \A r \in runs : f[r].status \notin Active
  BY <1>1 DEF Active
<1>4. Follows(f) /\ \A r \in runs : f[r].status = "queued" => r.status = "queued"
  BY <1>1 DEF Advances
<1> QED
  BY <1>2, <1>3, <1>4, TurnsFollow

LEMMA TurnsOperation ==
  ASSUME TypeInv, TurnInv, NEW d \in Defs, NEW action, Operation(action, d),
         UNCHANGED <<setup, liveRuns, stopped, started, leftOpen>>
  PROVE  TurnInv'
<1>1. CASE \E new : Adds(new)
  BY <1>1, TurnsAdd
<1>2. CASE \E f : Advances(f) /\ Cancels(f, {r \in runs : Waits(r, d)})
  <2> DEFINE ended == {r \in runs : Waits(r, d)}
  <2>1. PICK f : Advances(f) /\ Cancels(f, ended)
    BY <1>2
  <2>2. \A r \in runs : IF r \in ended THEN f[r].status \in Ending ELSE f[r] = r
    BY <2>1 DEF Cancels, Ending
  <2>3. \A r \in runs, t \in Turns :
          r \in ended /\ r.status \in Active /\ t = TurnOf(r) => t.run \in stopped'
    BY DEF Waits, Active
  <2> HIDE DEF ended
  <2> QED
    BY <2>1, <2>2, <2>3, TurnsEnd
<1> QED
  BY <1>1, <1>2, OperationRuns

LEMMA TurnsRequests == TypeInv /\ TurnInv /\ Requests => TurnInv'
<1> SUFFICES ASSUME TypeInv, TurnInv, Requests PROVE TurnInv'
  OBVIOUS
<1>1. ASSUME NEW d \in Defs, NEW a \in Actions, Request(a, d) PROVE TurnInv'
  BY <1>1, TurnsOperation DEF Request, turnSets, histVars
<1>2. ASSUME NEW d \in Defs, Update(d) PROVE TurnInv'
  BY <1>2, TurnsUnchanged DEF Update, turnSets, histVars
<1>3. ASSUME Deliver PROVE TurnInv'
  <2>1. \E new : Adds(new)
    BY <1>3, OneRunAdds DEF Deliver
  <2> QED
    BY <1>3, <2>1, TurnsAdd DEF Deliver, turnSets, histVars
<1>4. ASSUME CancelDeliveries PROVE TurnInv'
  <2> DEFINE ended == {r \in runs : Waits(r, Hook)}
  <2>1. runs' = Saved({Cancelled(r, Waits(r, Hook)) : r \in runs})
    BY <1>4 DEF CancelDeliveries, Mapped
  <2>2. PICK f : Advances(f) /\ Cancels(f, ended)
    BY <2>1, WaitsFollows
  <2>3. \A r \in runs : IF r \in ended THEN f[r].status \in Ending ELSE f[r] = r
    BY <2>2 DEF Cancels, Ending
  <2>4. \A r \in runs, t \in Turns :
          r \in ended /\ r.status \in Active /\ t = TurnOf(r) => t.run \in stopped'
    BY DEF Waits, Active
  <2>5. UNCHANGED <<setup, liveRuns, stopped, started, leftOpen>>
    BY <1>4 DEF CancelDeliveries, turnSets, histVars
  <2> HIDE DEF ended
  <2> QED
    BY <2>2, <2>3, <2>4, <2>5, TurnsEnd
<1>5. ASSUME NEW i \in 1 .. lastId, CancelRun(i) PROVE TurnInv'
  <2> DEFINE ended == {r \in runs : r.id = i}
  <2>1. /\ Is(i, Unended) /\ runs' = With(i, "cancelled")
        /\ stopped' = stopped \cup {t.run : t \in {u \in setup \cup liveRuns : u.run = i}}
        /\ UNCHANGED <<setup, liveRuns, started, leftOpen>>
    BY <1>5 DEF CancelRun, Stopping, histVars
  <2>2. PICK f : Advances(f) /\ Sets(f, i, "cancelled")
    BY <2>1, WithFollows DEF Ending
  <2>3. \A r \in runs : IF r \in ended THEN f[r].status \in Ending ELSE f[r] = r
    BY <2>2 DEF Sets, Ending
  <2>4. \A t \in Turns : t.run = i => t.run \in stopped'
    BY <2>1 DEF Turns
  <2>5. \A r \in runs, t \in Turns :
          r \in ended /\ r.status \in Active /\ t = TurnOf(r) => t.run \in stopped'
    BY <2>4 DEF TurnOf
  <2> HIDE DEF ended
  <2> QED
    BY <2>1, <2>2, <2>3, <2>5, TurnsEnd
<1>6. ASSUME NEW o \in Owners, Disable(o) PROVE TurnInv'
  <2> DEFINE ended == {r \in runs : r.owner = o /\ r.status \in Unended}
  <2>1. /\ runs' = Saved({Cancelled(r, r.owner = o /\ r.status \in Unended) : r \in runs})
        /\ stopped' = stopped \cup {t.run : t \in {u \in setup \cup liveRuns : u.owner = o}}
        /\ UNCHANGED <<setup, liveRuns, started, leftOpen>>
    BY <1>6 DEF Disable, Stopping, histVars, Mapped
  <2>2. PICK f : Advances(f) /\ Cancels(f, ended)
    BY <2>1, OwnerFollows
  <2>3. \A r \in runs : IF r \in ended THEN f[r].status \in Ending ELSE f[r] = r
    BY <2>2 DEF Cancels, Ending
  <2>4. \A t \in Turns : t.owner = o => t.run \in stopped'
    BY <2>1 DEF Turns
  <2>5. \A r \in runs, t \in Turns :
          r \in ended /\ r.status \in Active /\ t = TurnOf(r) => t.run \in stopped'
    BY <2>4 DEF TurnOf
  <2> HIDE DEF ended
  <2> QED
    BY <2>1, <2>2, <2>3, <2>5, TurnsEnd
<1>7. ASSUME NEW o \in Owners, CoordinatorLeaves(o) PROVE TurnInv'
  BY <1>7, TurnsUnchanged DEF CoordinatorLeaves, turnSets, histVars
<1>8. ASSUME NEW c \in RoutineCards, Confirm(c) PROVE TurnInv'
  <2>1. UNCHANGED <<setup, liveRuns, stopped, started, leftOpen>>
    BY <1>8 DEF Confirm, turnSets, histVars
  <2>2. UNCHANGED runs \/ Operation(plan.card[c].action, plan.card[c].def)
    BY <1>8 DEF Confirm
  <2>3. plan.card[c].def \in Defs
    BY PlanFacts
  <2> QED
    BY <2>1, <2>2, <2>3, TurnsOperation, TurnsUnchanged
<1>9. ASSUME NEW c \in RoutineCards, Refuse(c) \/ AnswerAgain(c) PROVE TurnInv'
  BY <1>9, TurnsUnchanged DEF Refuse, AnswerAgain, turnSets, histVars
<1> QED
  BY <1>1, <1>2, <1>3, <1>4, <1>5, <1>6, <1>7, <1>8, <1>9 DEF Requests

LEMMA TurnsStep == TypeInv /\ TurnInv /\ [RoutinesNext]_routinesVars => TurnInv'
<1> SUFFICES ASSUME TypeInv, TurnInv, [RoutinesNext]_routinesVars PROVE TurnInv'
  OBVIOUS
<1>1. TickBegins \/ TickSteps \/ InterruptAnswers => TurnInv'
  BY TurnsTick, TurnsStart DEF TickSteps
<1>2. \A o : BusyElsewhere(o) \/ IdleAgain(o) => TurnInv'
  BY TurnsUnchanged DEF BusyElsewhere, IdleAgain, turnSets, histVars
<1>3. TurnSteps => TurnInv'
  BY <1>2, TurnsSettle, TurnsAsk, TurnsSilent, TurnsLater DEF TurnSteps
<1>4. Advance \/ UNCHANGED routinesVars => TurnInv'
  BY TurnsUnchanged DEF Advance, routinesVars, turnSets, histVars
<1> QED
  BY <1>1, <1>3, <1>4, TurnsRestart, TurnsRequests DEF RoutinesNext
------------------------------------------------------------------------------
(* Every step keeps the occurrences apart. *)
LEMMA CursorFacts ==
  ASSUME TypeInv
  PROVE  /\ \A d \in Cursors : /\ d \in Defs /\ plan.schedule[d] # "once"
                               /\ defs[d].next \in Nat /\ defs[d].enabled /\ defs[d].present
         /\ \A r \in Waiting : /\ r \in runs /\ r.def \in Defs /\ r.slot \in Nat
                               /\ r.def \in DOMAIN plan.schedule /\ plan.schedule[r.def] # "once"
         /\ tick.now \in Nat /\ clock \in Nat
<1>1. \A d \in Cursors : d \in Defs
  BY PlanFacts DEF Cursors
<1>2. \A d \in Cursors : /\ plan.schedule[d] # "once"
                         /\ defs[d].next \in Nat /\ defs[d].enabled /\ defs[d].present
  BY <1>1 DEF Cursors, TypeInv, RoutinesTypeOK, KnownDefinitions
<1>3. \A r \in Waiting : r \in runs /\ r.def \in DOMAIN plan.schedule /\ plan.schedule[r.def] # "once"
  BY DEF Waiting, Repeats, TypeInv, KnownDefinitions
<1>4. \A r \in Waiting : r.def \in Defs /\ r.slot \in Nat
  BY <1>3, PlanFacts, RunsAreRecords DEF RunRecords
<1> QED
  BY <1>1, <1>2, <1>3, <1>4 DEF TypeInv, RoutinesTypeOK

LEMMA AdvancesWaiting ==
  ASSUME UNCHANGED plan, NEW f, Advances(f)
  PROVE  Waiting' \subseteq Waiting
<1> SUFFICES ASSUME NEW q \in runs', q.status = "queued", Repeats(q) PROVE q \in Waiting
  BY DEF Waiting, Repeats
<1>1. PICK r \in runs : q = f[r]
  BY DEF Advances, Follows
<1>2. q = r
  BY <1>1 DEF Advances
<1> QED
  BY <1>2 DEF Waiting

LEMMA AddsWaiting ==
  ASSUME UNCHANGED plan, NEW new, Adds(new), \A r \in new : r.trigger # "schedule"
  PROVE  Waiting' \subseteq Waiting
BY DEF Adds, Waiting, Repeats

(* A step that queues and starts nothing, and moves a cursor, if at all,   *)
(* to the next occurrence.                                                 *)
LEMMA SlotsKept ==
  ASSUME TypeInv, SlotInv, UNCHANGED <<plan, slots>>, Waiting' \subseteq Waiting,
         clock' \in Nat, clock <= clock', tick'.now \in Nat, tick'.now <= clock',
         tick'.phase = "start" => tick.phase = "start" /\ tick'.now = tick.now,
         \A d \in Cursors' :
           \/ d \in Cursors /\ defs'[d].next = defs[d].next
           \/ tick'.phase # "start" /\ defs'[d].next = NextOccurrence(d, clock)
  PROVE  SlotInv'
<1>1. CursorAhead /\ OccurrencesPast /\ OwnOccurrence
  BY DEF SlotInv
<1>2. CursorAhead'
  <2> SUFFICES ASSUME NEW d \in Cursors'
               PROVE  /\ \E m \in Nat : defs'[d].next = Period[d] * m
                      /\ \A at \in Nat : <<d, at>> \in slots => at < defs'[d].next
                      /\ \A r \in Waiting : r.def = d => r.slot < defs'[d].next
                      /\ tick'.phase = "start" => tick'.now < defs'[d].next
    BY DEF CursorAhead
  <2>1. CASE d \in Cursors /\ defs'[d].next = defs[d].next
    BY <1>1, <2>1 DEF CursorAhead
  <2>2. CASE tick'.phase # "start" /\ defs'[d].next = NextOccurrence(d, clock)
    <3>1. d \in Defs /\ plan.schedule[d] # "once"
      BY PlanFacts DEF Cursors
    <3>2. /\ NextOccurrence(d, clock) \in Nat /\ clock < NextOccurrence(d, clock)
          /\ \E m \in Nat : NextOccurrence(d, clock) = Period[d] * m
      BY <3>1, CursorFacts, Occurrences
    <3>3. \A at \in Nat : <<d, at>> \in slots => at <= clock
      BY <1>1, <3>1 DEF OccurrencesPast
    <3>4. \A r \in Waiting : r.slot \in Nat /\ r.slot <= clock
      BY <1>1, CursorFacts DEF OccurrencesPast
    <3> QED
      BY <2>2, <3>2, <3>3, <3>4, CursorFacts
  <2> QED
    BY <2>1, <2>2
<1>3. OccurrencesPast'
  <2>1. \A d \in Defs, at \in Nat : <<d, at>> \in slots => at <= clock'
    BY <1>1, CursorFacts DEF OccurrencesPast
  <2>2. \A r \in Waiting' : r.slot <= clock'
    BY <1>1, CursorFacts DEF OccurrencesPast
  <2> QED
    BY <2>1, <2>2 DEF OccurrencesPast
<1>4. OwnOccurrence'
  BY <1>1 DEF OwnOccurrence
<1> QED
  BY <1>2, <1>3, <1>4 DEF SlotInv

(* In particular one that leaves the clock, the definitions and the tick.  *)
LEMMA SlotsUnchanged ==
  ASSUME TypeInv, SlotInv, UNCHANGED <<plan, slots, clock, defs, tick>>,
         Waiting' \subseteq Waiting
  PROVE  SlotInv'
<1>1. Cursors' = Cursors
  BY DEF Cursors
<1>2. clock \in Nat /\ tick.now \in Nat /\ tick.now <= clock
  BY CursorFacts DEF SlotInv, OccurrencesPast
<1> QED
  BY <1>1, <1>2, SlotsKept

LEMMA WaitingUnchanged ==
  UNCHANGED <<runs, plan>> => Waiting' \subseteq Waiting
BY DEF Waiting, Repeats

LEMMA SlotsInit == RoutinesInit => SlotInv
<1> SUFFICES ASSUME RoutinesInit PROVE SlotInv
  OBVIOUS
<1>1. /\ slots = {} /\ Waiting = {} /\ clock = 0 /\ tick.now = 0 /\ tick.phase = "off"
  BY DEF RoutinesInit, Waiting, NoTick
<1>2. TypeInv
  BY TypesInit
<1>3. \A d \in Cursors : \E m \in Nat : defs[d].next = Period[d] * m
  <2> TAKE d \in Cursors
  <2>1. d \in Defs /\ plan.schedule[d] # "once" /\ d \in DOMAIN plan.schedule
    BY <1>2, CursorFacts DEF Cursors
  <2>2. defs[d].next = InitialOccurrence(d, 0)
    BY <2>1 DEF RoutinesInit
  <2> QED
    BY <2>1, <2>2, Occurrences
<1> QED
  BY <1>1, <1>3 DEF SlotInv, CursorAhead, OccurrencesPast, OwnOccurrence

(* A run that waits for the newest occurrence is not behind it: its slot   *)
(* lies before the cursor, and no earlier start took it.                   *)
LEMMA AlignedOwn ==
  ASSUME TypeInv, SlotInv, tick.phase = "start", NEW r \in Waiting
  PROVE  /\ Aligned(r) \in Nat /\ Aligned(r) >= r.slot /\ Aligned(r) <= clock
         /\ plan.schedule[r.def] # "interval" => Aligned(r) = r.slot
         /\ r.def \in Cursors => Aligned(r) < defs[r.def].next
         /\ <<r.def, Aligned(r)>> \notin slots
         /\ plan.schedule[r.def] = "interval" =>
              \A at \in Nat : <<r.def, at>> \in slots => at < Aligned(r)
<1>1. CursorAhead /\ OccurrencesPast /\ OwnOccurrence
  BY DEF SlotInv
<1>2. /\ r \in runs /\ Repeats(r) /\ r.slot \in Nat /\ r.slot <= clock
      /\ tick.now \in Nat /\ clock \in Nat /\ tick.now <= clock
  BY <1>1, CursorFacts DEF Waiting, OccurrencesPast
<1>3. /\ Aligned(r) \in Nat /\ Aligned(r) >= r.slot
      /\ plan.schedule[r.def] # "interval" => Aligned(r) = r.slot
      /\ Aligned(r) = r.slot \/ Aligned(r) <= tick.now
  BY <1>2, AlignedForward
<1>4. r.def \in Cursors => Aligned(r) < defs[r.def].next
  <2>1. ASSUME r.def \in Cursors
        PROVE  r.slot < defs[r.def].next /\ tick.now < defs[r.def].next /\ defs[r.def].next \in Nat
    BY <1>1, <2>1, CursorFacts DEF CursorAhead
  <2> QED
    BY <1>2, <1>3, <2>1
<1>5. plan.schedule[r.def] = "interval" =>
        \A at \in Nat : <<r.def, at>> \in slots => at < Aligned(r)
  <2>1. plan.schedule[r.def] = "interval" =>
          \A at \in Nat : <<r.def, at>> \in slots => at < r.slot
    BY <1>1 DEF OwnOccurrence
  <2> QED
    BY <1>2, <1>3, <2>1
<1>6. <<r.def, Aligned(r)>> \notin slots
  <2>1. CASE plan.schedule[r.def] = "interval"
    BY <1>3, <1>5, <2>1
  <2>2. CASE plan.schedule[r.def] # "interval"
    BY <1>1, <1>3, <2>2 DEF OwnOccurrence
  <2> QED
    BY <2>1, <2>2
<1> QED
  BY <1>2, <1>3, <1>4, <1>5, <1>6

LEMMA SlotsStay ==
  ASSUME TypeInv, SlotInv, tick.phase = "start",
         NEW r \in runs, r.status = "queued", StaysQueued(r),
         UNCHANGED <<plan, clock, defs>>, tick'.phase = tick.phase, tick'.now = tick.now
  PROVE  SlotInv'
<1>1. PICK f : Follows(f) /\ Realigns(f, r, "queued")
  BY StaysRuns
<1>2. UNCHANGED slots
  BY DEF StaysQueued
<1>3. CursorAhead /\ OccurrencesPast /\ OwnOccurrence
  BY DEF SlotInv
(* Each that waits is one that waited, with its slot aligned if it is r. *)
<1> DEFINE At(p) == IF p = r THEN Aligned(r) ELSE p.slot
<1>4. \A q \in Waiting' : \E p \in Waiting : q = f[p] /\ q.def = p.def /\ q.slot = At(p)
  <2> SUFFICES ASSUME NEW q \in runs', q.status = "queued", Repeats(q)
               PROVE  \E p \in Waiting : q = f[p] /\ q.def = p.def /\ q.slot = At(p)
    BY DEF Waiting, Repeats
  <2>1. PICK p \in runs : q = f[p] /\ Same(q, p)
    BY <1>1 DEF Follows
  <2>2. Repeats(p) /\ q.def = p.def
    BY <2>1 DEF Repeats, Same
  <2>3. p.status = "queued" /\ q.slot = At(p)
    BY <1>1, <2>1 DEF Realigns
  <2> QED
    BY <2>1, <2>2, <2>3 DEF Waiting
<1>5. ASSUME NEW p \in Waiting
      PROVE  /\ At(p) \in Nat /\ At(p) <= clock
             /\ plan.schedule[p.def] # "interval" => At(p) = p.slot
             /\ p.def \in Cursors => At(p) < defs[p.def].next
             /\ <<p.def, At(p)>> \notin slots
             /\ plan.schedule[p.def] = "interval" =>
                  \A at \in Nat : <<p.def, at>> \in slots => at < At(p)
  <2>1. CASE p = r
    BY <2>1, AlignedOwn
  <2>2. CASE p # r
    BY <1>3, <2>2, CursorFacts DEF CursorAhead, OccurrencesPast, OwnOccurrence
  <2> QED
    BY <2>1, <2>2
<1>6. Cursors' = Cursors
  BY DEF Cursors
<1> HIDE DEF At
<1>7. CursorAhead'
  <2> SUFFICES ASSUME NEW d \in Cursors
               PROVE  /\ \E m \in Nat : defs[d].next = Period[d] * m
                      /\ \A at \in Nat : <<d, at>> \in slots => at < defs[d].next
                      /\ \A q \in Waiting' : q.def = d => q.slot < defs[d].next
                      /\ tick.phase = "start" => tick.now < defs[d].next
    BY <1>2, <1>6 DEF CursorAhead
  <2> QED
    <3>1. ASSUME NEW q \in Waiting', q.def = d PROVE q.slot < defs[d].next
      <4>1. PICK p \in Waiting : q.def = p.def /\ q.slot = At(p)
        BY <1>4
      <4> QED
        BY <1>5, <3>1, <4>1
    <3> QED
      BY <1>3, <3>1 DEF CursorAhead
<1>8. OccurrencesPast'
  BY <1>2, <1>3, <1>4, <1>5 DEF OccurrencesPast
<1>9. OwnOccurrence'
  <2>1. \A q \in Waiting' : <<q.def, q.slot>> \notin slots
    BY <1>4, <1>5
  <2>2. ASSUME NEW q \in Waiting', NEW q2 \in Waiting', q.def = q2.def,
               plan.schedule[q.def] = "interval" \/ q.slot = q2.slot
        PROVE  q = q2
    <3>1. PICK p \in Waiting : q = f[p] /\ q.def = p.def /\ q.slot = At(p)
      BY <1>4
    <3>2. PICK p2 \in Waiting : q2 = f[p2] /\ q2.def = p2.def /\ q2.slot = At(p2)
      BY <1>4
    <3>3. CASE plan.schedule[q.def] = "interval"
      BY <1>3, <2>2, <3>1, <3>2, <3>3 DEF OwnOccurrence
    <3>4. CASE plan.schedule[q.def] # "interval"
      <4>1. p.slot = p2.slot /\ p.def = p2.def
        BY <1>5, <2>2, <3>1, <3>2, <3>4
      <4> QED
        BY <1>3, <3>1, <3>2, <4>1 DEF OwnOccurrence
    <3> QED
      BY <3>3, <3>4
  <2>3. \A q \in Waiting' : plan.schedule[q.def] = "interval" =>
          \A at \in Nat : <<q.def, at>> \in slots => at < q.slot
    BY <1>4, <1>5
  <2> QED
    BY <1>2, <2>1, <2>2, <2>3 DEF OwnOccurrence
<1> QED
  BY <1>7, <1>8, <1>9 DEF SlotInv

LEMMA SlotsStarted ==
  ASSUME TypeInv, SlotInv, tick.phase = "start",
         NEW r \in runs, r.status = "queued", Starts(r),
         UNCHANGED <<plan, clock, defs>>, tick'.phase = tick.phase, tick'.now = tick.now
  PROVE  /\ SlotInv'
         /\ Repeats(r) => slots' # slots
<1>1. PICK f : Advances(f) /\ Realigns(f, r, "running")
  BY StartsRuns
<1>2. Waiting' \subseteq Waiting \ {r}
  <2> SUFFICES ASSUME NEW q \in runs', q.status = "queued", Repeats(q)
               PROVE  q \in Waiting /\ q # r
    BY DEF Waiting, Repeats
  <2>1. PICK p \in runs : q = f[p]
    BY <1>1 DEF Advances, Follows
  <2>2. q = p /\ p # r
    BY <1>1, <2>1 DEF Advances, Realigns
  <2> QED
    BY <2>2 DEF Waiting
<1>3. CASE ~Repeats(r)
  <2>1. UNCHANGED slots
    BY <1>3 DEF Starts
  <2>2. Cursors' = Cursors
    BY DEF Cursors
  <2>3. clock \in Nat /\ tick.now \in Nat /\ tick.now <= clock
    BY CursorFacts DEF SlotInv, OccurrencesPast
  <2> QED
    BY <1>2, <1>3, <2>1, <2>2, <2>3, SlotsKept
<1>4. CASE Repeats(r)
  <2>1. r \in Waiting
    BY <1>4 DEF Waiting
  <2>2. slots' = slots \cup {<<r.def, Aligned(r)>>}
    BY <1>4 DEF Starts
  <2>3. CursorAhead /\ OccurrencesPast /\ OwnOccurrence
    BY DEF SlotInv
  <2>4. Cursors' = Cursors
    BY DEF Cursors
  <2>5. \A d, at : <<d, at>> \in slots' => <<d, at>> \in slots \/ (d = r.def /\ at = Aligned(r))
    BY <2>2
  <2>6. CursorAhead'
    <3> SUFFICES ASSUME NEW d \in Cursors
                 PROVE  /\ \E m \in Nat : defs[d].next = Period[d] * m
                        /\ \A at \in Nat : <<d, at>> \in slots' => at < defs[d].next
                        /\ \A q \in Waiting' : q.def = d => q.slot < defs[d].next
                        /\ tick.phase = "start" => tick.now < defs[d].next
      BY <2>4 DEF CursorAhead
    <3>1. \A at \in Nat : <<d, at>> \in slots' => at < defs[d].next
      BY <2>1, <2>3, <2>5, AlignedOwn DEF CursorAhead
    <3> QED
      BY <1>2, <2>3, <3>1 DEF CursorAhead
  <2>7. OccurrencesPast'
    BY <1>2, <2>1, <2>3, <2>5, AlignedOwn DEF OccurrencesPast
  <2>8. OwnOccurrence'
    <3>1. ASSUME NEW q \in Waiting' PROVE <<q.def, q.slot>> \notin slots'
      <4>1. q \in Waiting /\ q # r /\ <<q.def, q.slot>> \notin slots
        BY <1>2, <2>3 DEF OwnOccurrence
      <4>2. ASSUME q.def = r.def, q.slot = Aligned(r) PROVE FALSE
        <5>1. CASE plan.schedule[r.def] = "interval"
          BY <2>1, <2>3, <4>1, <4>2, <5>1 DEF OwnOccurrence
        <5>2. CASE plan.schedule[r.def] # "interval"
          BY <2>1, <2>3, <4>1, <4>2, <5>2, AlignedOwn DEF OwnOccurrence
        <5> QED
          BY <5>1, <5>2
      <4> QED
        BY <2>5, <4>1, <4>2
    <3>2. ASSUME NEW q \in Waiting', plan.schedule[q.def] = "interval"
          PROVE  \A at \in Nat : <<q.def, at>> \in slots' => at < q.slot
      <4>1. q \in Waiting /\ q # r /\ q.def # r.def
        BY <1>2, <2>1, <2>3, <3>2 DEF OwnOccurrence
      <4> QED
        BY <2>3, <2>5, <3>2, <4>1 DEF OwnOccurrence
    <3> QED
      BY <1>2, <2>3, <3>1, <3>2 DEF OwnOccurrence
  <2>9. slots' # slots
    BY <2>1, <2>2, AlignedOwn
  <2> QED
    BY <2>6, <2>7, <2>8, <2>9 DEF SlotInv
<1> QED
  BY <1>3, <1>4

(* The definitions that are due: a run is queued for an occurrence that no *)
(* run had, and the cursor moves beyond the time of the tick.              *)
LEMMA SlotsDue == TypeInv /\ SlotInv /\ TickDue => SlotInv'
<1> SUFFICES ASSUME TypeInv, SlotInv, TickDue PROVE SlotInv'
  OBVIOUS
<1>1. CursorAhead /\ OccurrencesPast /\ OwnOccurrence
  BY DEF SlotInv
<1>2. PICK new : Adds(new) /\ Fired(new)
  BY DueRuns
<1>3. UNCHANGED <<plan, clock, slots>> /\ tick.now \in Nat /\ tick'.now = tick.now
      /\ clock \in Nat /\ tick.now <= clock
  <2>1. UNCHANGED <<plan, clock, slots>>
    BY DEF TickDue, worldVars, histVars
  <2>2. tick'.now = tick.now
    <3>1. \E todo : tick' = [tick EXCEPT !.phase = "start", !.at = 1, !.todo = todo]
      BY DEF TickDue
    <3> QED
      BY <3>1
  <2> QED
    BY <1>1, <2>1, <2>2, CursorFacts DEF OccurrencesPast
<1>4. \A q \in Waiting' : q \in Waiting \/ (q \in new /\ q.status = "queued" /\ Repeats(q))
  BY <1>2, <1>3 DEF Adds, Waiting, Repeats
<1>5. ASSUME NEW q \in new, q.status = "queued", Repeats(q)
      PROVE  /\ q.def \in Cursors /\ q.slot \in Nat
             /\ defs[q.def].next <= q.slot /\ q.slot <= tick.now /\ q.slot <= clock
             /\ ~Overlapping(q.def)
  <2> DEFINE d == q.def
  <2>1. d \in Due /\ ~Overlapping(d) /\ q.slot = SlotOf(d) /\ ~IsLate(d)
    BY <1>2, <1>5 DEF Fired
  <2>2. d \in DOMAIN plan.schedule /\ plan.schedule[d] # "once" /\ defs[d].next # NoTime
        /\ defs[d].next <= tick.now
    BY <1>2, <1>5, <2>1 DEF Adds, Repeats, Due
  <2>3. d \in Cursors /\ d \in Defs /\ defs[d].next \in Nat
    BY <2>2, CursorFacts DEF Cursors
  <2>4. CASE plan.schedule[d] = "interval"
    <3>1. q.slot = LatestOccurrence(d, tick.now)
      BY <2>1, <2>4 DEF SlotOf
    <3>2. PICK m \in Nat : defs[d].next = Period[d] * m
      BY <1>1, <2>3 DEF CursorAhead
    <3>3. /\ LatestOccurrence(d, tick.now) \in Nat /\ LatestOccurrence(d, tick.now) <= tick.now
          /\ Period[d] * m <= tick.now => Period[d] * m <= LatestOccurrence(d, tick.now)
      BY <1>3, <2>2, <2>3, Occurrences
    <3> HIDE DEF d
    <3> QED
      BY <1>3, <2>1, <2>2, <2>3, <3>1, <3>2, <3>3 DEF d
  <2>5. CASE plan.schedule[d] # "interval"
    <3>1. q.slot = defs[d].next
      BY <2>1, <2>5 DEF SlotOf
    <3> QED
      BY <1>3, <2>1, <2>2, <2>3, <3>1
  <2> QED
    BY <2>4, <2>5
<1>6. ASSUME NEW d \in Cursors'
      PROVE  /\ d \in Cursors /\ defs'[d].next \in Nat /\ tick.now < defs'[d].next
             /\ defs[d].next \in Nat /\ defs[d].next <= defs'[d].next
             /\ \E m \in Nat : defs'[d].next = Period[d] * m
  <2>1. d \in DOMAIN plan.schedule /\ plan.schedule[d] # "once" /\ defs'[d].next # NoTime /\ d \in Defs
    BY <1>3, <1>6, PlanFacts DEF Cursors
  <2>2. defs'[d] = IF d \notin Due THEN defs[d]
                   ELSE [defs[d] EXCEPT !.next = NextOccurrence(d, tick.now)]
    BY <2>1 DEF TickDue
  <2>3. CASE d \in Due
    <3>1. d \in Cursors /\ defs[d].next <= tick.now
      BY <2>1, <2>3 DEF Due, Cursors
    <3>2. defs'[d].next = NextOccurrence(d, tick.now)
      <4>1. defs[d] \in [present : BOOLEAN, enabled : BOOLEAN, edited : BOOLEAN, next : Nat \cup {NoTime}]
        BY <2>1 DEF TypeInv, RoutinesTypeOK
      <4> QED
        BY <2>2, <2>3, <4>1
    <3> QED
      BY <1>3, <2>1, <3>1, <3>2, CursorFacts, Occurrences
  <2>4. CASE d \notin Due
    <3>1. defs'[d] = defs[d] /\ d \in Cursors
      BY <2>1, <2>2, <2>4 DEF Cursors
    <3>2. defs[d].enabled /\ defs[d].present /\ defs[d].next \in Nat /\ defs[d].next # NoTime
      BY <3>1, CursorFacts DEF Cursors
    <3>3. ~(defs[d].next <= tick.now)
      BY <2>1, <2>4, <3>2 DEF Due
    <3> QED
      BY <1>1, <1>3, <3>1, <3>2, <3>3 DEF CursorAhead
  <2> QED
    BY <2>3, <2>4
<1>7. CursorAhead'
  <2> SUFFICES ASSUME NEW d \in Cursors'
               PROVE  /\ \E m \in Nat : defs'[d].next = Period[d] * m
                      /\ \A at \in Nat : <<d, at>> \in slots => at < defs'[d].next
                      /\ \A q \in Waiting' : q.def = d => q.slot < defs'[d].next
                      /\ tick.now < defs'[d].next
    BY <1>3 DEF CursorAhead
  <2>1. \A at \in Nat : <<d, at>> \in slots => at < defs'[d].next
    <3>1. \A at \in Nat : <<d, at>> \in slots => at < defs[d].next
      BY <1>1, <1>6 DEF CursorAhead
    <3> QED
      BY <1>6, <3>1
  <2>2. ASSUME NEW q \in Waiting', q.def = d PROVE q.slot < defs'[d].next
    <3>1. CASE q \in Waiting
      <4>1. q.slot < defs[d].next /\ q.slot \in Nat
        BY <1>1, <1>6, <2>2, <3>1, CursorFacts DEF CursorAhead
      <4> QED
        BY <1>6, <4>1
    <3>2. CASE q \in new /\ q.status = "queued" /\ Repeats(q)
      BY <1>3, <1>5, <1>6, <2>2, <3>2
    <3> QED
      BY <1>4, <3>1, <3>2
  <2> QED
    BY <1>6, <2>1, <2>2
<1>8. OccurrencesPast'
  <2>1. ASSUME NEW q \in Waiting' PROVE q.slot <= clock
    BY <1>1, <1>4, <1>5 DEF OccurrencesPast
  <2> QED
    BY <1>1, <1>3, <2>1 DEF OccurrencesPast
<1>9. OwnOccurrence'
  <2>1. ASSUME NEW q \in new, q.status = "queued", Repeats(q)
        PROVE  /\ \A at \in Nat : <<q.def, at>> \in slots => at < q.slot
               /\ <<q.def, q.slot>> \notin slots
               /\ \A p \in Waiting : p.def = q.def =>
                    p.slot # q.slot /\ plan.schedule[q.def] # "interval"
    <3>1. q.def \in Cursors /\ q.slot \in Nat /\ defs[q.def].next <= q.slot /\ ~Overlapping(q.def)
          /\ defs[q.def].next \in Nat
      BY <1>5, <2>1, CursorFacts
    <3>2. \A at \in Nat : <<q.def, at>> \in slots => at < defs[q.def].next
      BY <1>1, <3>1 DEF CursorAhead
    <3>3. \A at \in Nat : <<q.def, at>> \in slots => at < q.slot
      BY <3>1, <3>2
    <3>4. \A p \in Waiting : p.def = q.def => p.slot < defs[q.def].next /\ p.slot \in Nat
      BY <1>1, <3>1, CursorFacts DEF CursorAhead
    <3>5. \A p \in Waiting : p.def = q.def => plan.schedule[q.def] # "interval"
      BY <3>1 DEF Overlapping, Waiting, Unended
    <3> QED
      BY <3>1, <3>3, <3>4, <3>5
  <2>2. \A q \in Waiting' : <<q.def, q.slot>> \notin slots
    BY <1>1, <1>4, <2>1 DEF OwnOccurrence
  <2>3. ASSUME NEW q \in Waiting', NEW p \in Waiting', q.def = p.def,
               plan.schedule[q.def] = "interval" \/ q.slot = p.slot
        PROVE  q = p
    <3>1. CASE q \in Waiting /\ p \in Waiting
      BY <1>1, <2>3, <3>1 DEF OwnOccurrence
    <3>2. CASE q \in new /\ p \in new
      BY <1>2, <2>3, <3>2 DEF Fired
    <3>3. CASE q \in new /\ q.status = "queued" /\ Repeats(q) /\ p \in Waiting
      BY <2>1, <2>3, <3>3
    <3>4. CASE p \in new /\ p.status = "queued" /\ Repeats(p) /\ q \in Waiting
      BY <2>1, <2>3, <3>4
    <3> QED
      BY <1>4, <3>1, <3>2, <3>3, <3>4
  <2>4. \A q \in Waiting' : plan.schedule[q.def] = "interval" =>
          \A at \in Nat : <<q.def, at>> \in slots => at < q.slot
    BY <1>1, <1>4, <2>1 DEF OwnOccurrence
  <2> QED
    BY <1>3, <2>2, <2>3, <2>4 DEF OwnOccurrence
<1> QED
  BY <1>7, <1>8, <1>9 DEF SlotInv

LEMMA SlotsStart == TypeInv /\ SlotInv /\ TickStart => SlotInv'
<1> SUFFICES ASSUME TypeInv, SlotInv, TickStart PROVE SlotInv'
  OBVIOUS
<1>1. tick.phase = "start" /\ UNCHANGED <<plan, clock, defs>>
      /\ tick'.phase = tick.phase /\ tick'.now = tick.now
  <2>1. tick.phase = "start" /\ UNCHANGED <<plan, clock, defs>>
        /\ \E todo : tick' = [tick EXCEPT !.todo = todo]
    BY DEF TickStart, worldVars
  <2> QED
    BY <2>1
<1>2. Cursors' = Cursors /\ clock \in Nat /\ tick.now \in Nat /\ tick.now <= clock
  BY <1>1, CursorFacts DEF Cursors, SlotInv, OccurrencesPast
<1>3. ASSUME UNCHANGED slots, Waiting' \subseteq Waiting PROVE SlotInv'
  BY <1>1, <1>2, <1>3, SlotsKept
<1>4. CASE UNCHANGED <<runs, slots>>
  BY <1>1, <1>3, <1>4, WaitingUnchanged
<1>5. ASSUME NEW r \in runs, r.status = "queued", CannotStart(r) PROVE SlotInv'
  BY <1>1, <1>3, <1>5, CannotStartRuns, AdvancesWaiting DEF CannotStart
<1> QED
  BY <1>1, <1>4, <1>5, SlotsStay, SlotsStarted DEF TickStart

LEMMA SlotsTick ==
  ASSUME TypeInv, SlotInv
  PROVE  TickBegins \/ TickLimit \/ InterruptAnswers \/ TickEnds \/ Restart \/ Advance => SlotInv'
<1>1. clock \in Nat /\ tick.now \in Nat /\ tick.now <= clock
  BY CursorFacts DEF SlotInv, OccurrencesPast
<1>2. ASSUME UNCHANGED <<plan, slots, defs>>, Waiting' \subseteq Waiting, clock' \in Nat,
             clock <= clock', tick'.now \in Nat, tick'.now <= clock',
             tick'.phase = "start" => tick.phase = "start" /\ tick'.now = tick.now
      PROVE  SlotInv'
  <2>1. Cursors' = Cursors
    BY <1>2 DEF Cursors
  <2> QED
    BY <1>2, <2>1, SlotsKept
<1>3. ASSUME TickBegins PROVE SlotInv'
  <2>1. UNCHANGED <<plan, slots, defs, clock, runs>> /\ tick'.now = clock /\ tick'.phase = "limit"
    BY <1>3 DEF TickBegins, NoTick, worldVars, histVars
  <2> QED
    BY <1>1, <1>2, <2>1, WaitingUnchanged
<1>4. ASSUME TickLimit PROVE SlotInv'
  <2>1. UNCHANGED <<plan, slots, defs, clock>>
    BY <1>4 DEF TickLimit, worldVars, histVars
  <2>2. PICK late \in OverLimit :
          /\ \E f : Advances(f)
          /\ tick' = [tick EXCEPT !.phase = "awaiting", !.at = Position(late) + 1]
    BY <1>4, LimitRuns
  <2>3. tick'.now = tick.now /\ tick'.phase = "awaiting"
    BY <2>2 DEF TypeInv, RoutinesTypeOK, TickLimit
  <2> QED
    BY <1>1, <1>2, <2>1, <2>2, <2>3, AdvancesWaiting
<1>5. ASSUME InterruptAnswers PROVE SlotInv'
  <2>1. UNCHANGED <<plan, slots, defs, clock, runs>> /\ tick' = [tick EXCEPT !.phase = "limit"]
    BY <1>5 DEF InterruptAnswers, worldVars, histVars
  <2>2. tick'.now = tick.now /\ tick'.phase # "start"
    BY <1>5, <2>1 DEF InterruptAnswers
  <2> QED
    BY <1>1, <1>2, <2>1, <2>2, WaitingUnchanged
<1>6. ASSUME TickEnds PROVE SlotInv'
  <2>1. UNCHANGED <<plan, slots, defs, clock, runs>> /\ tick'.now = 0 /\ tick'.phase = "off"
    BY <1>6 DEF TickEnds, NoTick, worldVars, histVars
  <2> QED
    BY <1>1, <1>2, <2>1, WaitingUnchanged
<1>7. ASSUME Restart PROVE SlotInv'
  <2>1. UNCHANGED <<plan, slots, defs, clock>> /\ tick'.now = 0 /\ tick'.phase = "off"
    BY <1>7 DEF Restart, NoTick, histVars
  <2>2. \E f : Advances(f)
    BY <1>7, RecoveredFollows DEF Restart
  <2> QED
    BY <1>1, <1>2, <2>1, <2>2, AdvancesWaiting
<1>8. ASSUME Advance PROVE SlotInv'
  <2>1. UNCHANGED <<plan, slots, defs, tick, runs>> /\ clock' = clock + 1
    BY <1>8 DEF Advance, worldVars, histVars
  <2> QED
    BY <1>1, <1>2, <2>1, WaitingUnchanged
<1> QED
  BY <1>3, <1>4, <1>5, <1>6, <1>7, <1>8

LEMMA SlotsTurns == TypeInv /\ SlotInv /\ TurnSteps => SlotInv'
<1> SUFFICES ASSUME TypeInv, SlotInv, TurnSteps PROVE SlotInv'
  OBVIOUS
<1>1. UNCHANGED <<plan, slots, clock, defs, tick>>
  BY DEF TurnSteps, SetupEnds, TurnEnds, Asks, Answered, FallsSilent, LaterEvent, BusyElsewhere,
         IdleAgain, worldVars, histVars
<1>2. CASE \E t : SetupEnds(t)
  <2>1. PICK t : SetupEnds(t)
    BY <1>2
  <2>2. CASE UNCHANGED runs
    BY <1>1, <2>2, WaitingUnchanged, SlotsUnchanged
  <2>3. CASE Settles(t.run, "failed")
    BY <1>1, <2>3, SettlesFollows, AdvancesWaiting, SlotsUnchanged DEF Ending
  <2> QED
    BY <2>1, <2>2, <2>3 DEF SetupEnds
<1>3. CASE \E t : TurnEnds(t)
  <2>1. PICK t : TurnEnds(t)
    BY <1>3
  <2>2. PICK status \in Outcomes(t) : Settles(t.run, status)
    BY <2>1 DEF TurnEnds
  <2>3. status \in Ending \cup Active
    BY DEF Outcomes, Ending, Active
  <2> QED
    BY <1>1, <2>2, <2>3, SettlesFollows, AdvancesWaiting, SlotsUnchanged
<1>4. CASE \E t : Asks(t) \/ Answered(t)
  <2>1. PICK t : Asks(t) \/ Answered(t)
    BY <1>4
  <2>2. Is(t.run, Unended)
    BY <2>1 DEF Asks, Answered, Resolves, Is, Unended, Active
  <2>3. PICK status \in {"waiting", "running"} : runs' = With(t.run, status)
    BY <2>1 DEF Asks, Answered
  <2>4. status \in Ending \cup Active
    BY DEF Active
  <2> QED
    BY <1>1, <2>2, <2>3, <2>4, WithFollows, AdvancesWaiting, SlotsUnchanged
<1>5. CASE UNCHANGED runs
  BY <1>1, <1>5, WaitingUnchanged, SlotsUnchanged
<1>6. (\E t : FallsSilent(t)) \/ (\E o : BusyElsewhere(o) \/ IdleAgain(o)) => UNCHANGED runs
  BY DEF FallsSilent, BusyElsewhere, IdleAgain
<1>7. ASSUME NEW r \in runs, LaterEvent(r) PROVE SlotInv'
  BY <1>1, <1>7, LaterEventFollows, AdvancesWaiting, SlotsUnchanged
<1> QED
  BY <1>2, <1>3, <1>4, <1>5, <1>6, <1>7 DEF TurnSteps

(* What withdraws cursors and cancels runs. *)
LEMMA SlotsWithdrawn ==
  ASSUME TypeInv, SlotInv, UNCHANGED <<plan, slots, clock, tick>>, Waiting' \subseteq Waiting,
         \A d \in Defs : defs'[d] = defs[d] \/ defs'[d].next = NoTime
  PROVE  SlotInv'
<1>1. \A d \in Cursors' : d \in Cursors /\ defs'[d].next = defs[d].next
  <2> TAKE d \in Cursors'
  <2>1. d \in DOMAIN plan.schedule /\ plan.schedule[d] # "once" /\ defs'[d].next # NoTime
    BY DEF Cursors
  <2>2. d \in Defs
    BY <2>1, PlanFacts
  <2> QED
    BY <2>1, <2>2 DEF Cursors
<1>2. clock \in Nat /\ tick.now \in Nat /\ tick.now <= clock
  BY CursorFacts DEF SlotInv, OccurrencesPast
<1> QED
  BY <1>1, <1>2, SlotsKept

LEMMA SlotsOperation ==
  ASSUME TypeInv, SlotInv, NEW d \in Defs, NEW action, Operation(action, d),
         UNCHANGED <<plan, slots, clock, tick>>
  PROVE  SlotInv'
<1>1. CASE UNCHANGED defs /\ \E new : Adds(new) /\ \A r \in new : r.trigger # "schedule"
  BY <1>1, AddsWaiting, SlotsUnchanged
<1>2. CASE /\ defs' = [defs EXCEPT ![d] = defs'[d]]
           /\ defs'[d] \in {NoDefinition,
                [defs[d] EXCEPT !.enabled = FALSE, !.next = NoTime, !.edited = TRUE]}
           /\ \E f : Advances(f)
  <2>1. defs'[d].next = NoTime
    <3>1. defs[d] \in [present : BOOLEAN, enabled : BOOLEAN, edited : BOOLEAN, next : Nat \cup {NoTime}]
      BY DEF TypeInv, RoutinesTypeOK
    <3>2. CASE defs'[d] = NoDefinition
      BY <3>2 DEF NoDefinition
    <3>3. CASE defs'[d] = [defs[d] EXCEPT !.enabled = FALSE, !.next = NoTime, !.edited = TRUE]
      BY <3>1, <3>3
    <3> QED
      BY <1>2, <3>2, <3>3
  <2>2. \A e \in Defs : defs'[e] = defs[e] \/ defs'[e].next = NoTime
    BY <1>2, <2>1 DEF TypeInv, RoutinesTypeOK
  <2> QED
    BY <1>2, <2>2, AdvancesWaiting, SlotsWithdrawn
<1> QED
  BY <1>1, <1>2, OperationRuns

LEMMA SlotsRequests == TypeInv /\ SlotInv /\ ~Ticking /\ Requests => SlotInv'
<1> SUFFICES ASSUME TypeInv, SlotInv, ~Ticking, Requests PROVE SlotInv'
  OBVIOUS
<1>1. ASSUME NEW d \in Defs, NEW a \in Actions, Request(a, d) PROVE SlotInv'
  BY <1>1, SlotsOperation DEF Request, worldVars, histVars
<1>2. ASSUME NEW d \in Defs, Update(d) PROVE SlotInv'
  <2>1. UNCHANGED <<plan, slots, clock, tick, runs>> /\ tick.phase # "start"
    BY <1>2 DEF Update, worldVars, histVars, Ticking
  <2>2. PICK on \in {TRUE, defs[d].enabled} :
          defs' = [defs EXCEPT ![d].enabled = on, ![d].edited = TRUE,
                               ![d].next = IF on THEN InitialOccurrence(d, clock) ELSE NoTime]
    BY <1>2 DEF Update
  <2>3. /\ \A e \in Defs \ {d} : defs'[e] = defs[e]
        /\ defs'[d].next = InitialOccurrence(d, clock) \/ defs'[d].next = NoTime
    BY <2>2 DEF TypeInv, RoutinesTypeOK
  <2>4. ASSUME NEW e \in Cursors'
        PROVE  \/ e \in Cursors /\ defs'[e].next = defs[e].next
               \/ tick'.phase # "start" /\ defs'[e].next = NextOccurrence(e, clock)
    <3>1. e \in DOMAIN plan.schedule /\ plan.schedule[e] # "once" /\ defs'[e].next # NoTime /\ e \in Defs
      BY <2>1, <2>4, PlanFacts DEF Cursors
    <3>2. CASE e = d
      BY <2>1, <2>3, <3>1, <3>2 DEF InitialOccurrence
    <3>3. CASE e # d
      BY <2>3, <3>1, <3>3 DEF Cursors
    <3> QED
      BY <3>2, <3>3
  <2>5. clock \in Nat /\ tick.now \in Nat /\ tick.now <= clock
    BY CursorFacts DEF SlotInv, OccurrencesPast
  <2> QED
    BY <2>1, <2>4, <2>5, WaitingUnchanged, SlotsKept
<1>3. ASSUME Deliver PROVE SlotInv'
  <2>1. \E new : Adds(new) /\ \A r \in new : r.trigger # "schedule"
    BY <1>3, OneRunAdds DEF Deliver
  <2> QED
    BY <1>3, <2>1, AddsWaiting, SlotsUnchanged DEF Deliver, worldVars, histVars
<1>4. ASSUME CancelDeliveries PROVE SlotInv'
  <2>1. runs' = Saved({Cancelled(r, Waits(r, Hook)) : r \in runs})
    BY <1>4 DEF CancelDeliveries, Mapped
  <2>2. \E f : Advances(f)
    BY <2>1, WaitsFollows
  <2> QED
    BY <1>4, <2>2, AdvancesWaiting, SlotsUnchanged DEF CancelDeliveries, worldVars, histVars
<1>5. ASSUME NEW i \in 1 .. lastId, CancelRun(i) PROVE SlotInv'
  <2>1. \E f : Advances(f)
    BY <1>5, WithFollows DEF CancelRun, Ending
  <2> QED
    BY <1>5, <2>1, AdvancesWaiting, SlotsUnchanged DEF CancelRun, worldVars, histVars
<1>6. ASSUME NEW o \in Owners, Disable(o) PROVE SlotInv'
  <2>1. runs' = Saved({Cancelled(r, r.owner = o /\ r.status \in Unended) : r \in runs})
    BY <1>6 DEF Disable, Mapped
  <2>2. \E f : Advances(f)
    BY <2>1, OwnerFollows
  <2>3. UNCHANGED <<plan, slots, clock, tick>>
    BY <1>6 DEF Disable, histVars
  <2>4. \A d \in Defs : defs'[d] = defs[d] \/ defs'[d].next = NoTime
    BY <1>6 DEF Disable, TypeInv, RoutinesTypeOK
  <2> QED
    BY <2>2, <2>3, <2>4, AdvancesWaiting, SlotsWithdrawn
<1>7. ASSUME NEW o \in Owners, CoordinatorLeaves(o) PROVE SlotInv'
  BY <1>7, WaitingUnchanged, SlotsUnchanged DEF CoordinatorLeaves, histVars
<1>8. ASSUME NEW c \in RoutineCards, Confirm(c) PROVE SlotInv'
  <2>1. UNCHANGED <<plan, slots, clock, tick>>
    BY <1>8 DEF Confirm, worldVars, histVars
  <2>2. UNCHANGED <<runs, defs>> \/ Operation(plan.card[c].action, plan.card[c].def)
    BY <1>8 DEF Confirm
  <2>3. plan.card[c].def \in Defs
    BY PlanFacts
  <2> QED
    BY <2>1, <2>2, <2>3, SlotsOperation, WaitingUnchanged, SlotsUnchanged
<1>9. ASSUME NEW c \in RoutineCards, Refuse(c) \/ AnswerAgain(c) PROVE SlotInv'
  BY <1>9, WaitingUnchanged, SlotsUnchanged DEF Refuse, AnswerAgain, worldVars, histVars
<1> QED
  BY <1>1, <1>2, <1>3, <1>4, <1>5, <1>6, <1>7, <1>8, <1>9 DEF Requests

LEMMA SlotsStep == TypeInv /\ SlotInv /\ [RoutinesNext]_routinesVars => SlotInv'
<1> SUFFICES ASSUME TypeInv, SlotInv, [RoutinesNext]_routinesVars PROVE SlotInv'
  OBVIOUS
<1>1. UNCHANGED routinesVars => SlotInv'
  BY WaitingUnchanged, SlotsUnchanged DEF routinesVars
<1> QED
  BY <1>1, SlotsTick, SlotsDue, SlotsStart, SlotsTurns, SlotsRequests DEF RoutinesNext, TickSteps
------------------------------------------------------------------------------
(* In every reachable state of the scheduler the runs, their turns and the *)
(* occurrences agree.                                                      *)
THEOREM RoutineInvariant == RoutinesSpec => []RoutineInv
<1>1. RoutinesInit => RoutineInv
  BY TypesInit, TurnsInit, SlotsInit DEF RoutineInv
<1>2. RoutineInv /\ [RoutinesNext]_routinesVars => RoutineInv'
  BY TypesStep, TurnsStep, SlotsStep DEF RoutineInv, TurnInv
<1> QED
  BY <1>1, <1>2, PTL DEF RoutinesSpec

(* The routines file, the runs and the tick keep their shapes, a disabled  *)
(* routine has no cursor, and turns name runs that were created.           *)
THEOREM RoutinesTypeCorrect == RoutinesSpec => []RoutinesTypeOK
<1>1. RoutineInv => RoutinesTypeOK
  BY DEF RoutineInv, TypeInv
<1> QED
  BY <1>1, RoutineInvariant, PTL

(* No run stays "running" or "waiting" with no turn to end it, but those   *)
(* that their turn left open, given up by the app or waiting for the       *)
(* person, whatever a later turn in their task made of them since:         *)
(* settling, limits, cancellation, pruning and restart all leave the       *)
(* others with their turn (handleRuntimeEvent, finishGoalRun, failThread,  *)
(* the constructor).                                                       *)
THEOREM ActiveRunsHaveTurns == RoutinesSpec => []ActiveRunHasTurn
<1>1. RoutineInv => ActiveRunHasTurn
  BY DEF RoutineInv, TurnInv
<1> QED
  BY <1>1, RoutineInvariant, PTL

(* A turn that nobody asked to stop can still be cancelled, limited and    *)
(* settled: its run is on record, and a save never drops it (save).        *)
THEOREM TurnsHaveActiveRuns == RoutinesSpec => []TurnHasActiveRun
<1>1. RoutineInv => TurnHasActiveRun
  BY DEF RoutineInv, TurnInv
<1> QED
  BY <1>1, RoutineInvariant, PTL
------------------------------------------------------------------------------
(* Every step replaces runs by later states of themselves or adds new ones.*)
LEMMA EveryStep ==
  ASSUME TypeInv, [RoutinesNext]_routinesVars
  PROVE  (\E f : Follows(f)) \/ (\E new : Adds(new))
<1>1. (\E f : Advances(f)) => \E f : Follows(f)
  BY DEF Advances
<1>2. UNCHANGED runs => \E f : Follows(f)
  BY <1>1, UnchangedFollows
<1>3. TickBegins \/ InterruptAnswers \/ TickEnds \/ Advance \/ UNCHANGED routinesVars
        => UNCHANGED runs
  BY DEF TickBegins, InterruptAnswers, TickEnds, Advance, routinesVars
<1>4. TickLimit => \E f : Follows(f)
  BY <1>1, LimitRuns
<1>5. TickDue => \E new : Adds(new)
  BY DueRuns
<1>6. TickStart => \E f : Follows(f)
  BY <1>1, <1>2, StaysRuns, StartsRuns, CannotStartRuns DEF TickStart
<1>7. Restart => \E f : Follows(f)
  BY <1>1, RecoveredFollows DEF Restart
<1>8. TurnSteps => \E f : Follows(f)
  <2>1. ASSUME NEW t, NEW status \in Ending \cup Active, Settles(t.run, status)
        PROVE  \E f : Follows(f)
    BY <1>1, <2>1, SettlesFollows
  <2>2. \A t : SetupEnds(t) => \E f : Follows(f)
    BY <1>2, <2>1 DEF SetupEnds, Ending
  <2>3. \A t : TurnEnds(t) => \E f : Follows(f)
    <3> SUFFICES ASSUME NEW t, TurnEnds(t) PROVE \E f : Follows(f)
      OBVIOUS
    <3>1. PICK status \in Outcomes(t) : Settles(t.run, status)
      BY DEF TurnEnds
    <3>2. status \in Ending \cup Active
      BY DEF Outcomes, Ending, Active
    <3> QED
      BY <2>1, <3>1, <3>2
  <2>4. \A t : Asks(t) \/ Answered(t) => \E f : Follows(f)
    <3> SUFFICES ASSUME NEW t, Asks(t) \/ Answered(t) PROVE \E f : Follows(f)
      OBVIOUS
    <3>1. Is(t.run, Unended)
      BY DEF Asks, Answered, Resolves, Is, Unended, Active
    <3>2. PICK status \in Active : runs' = With(t.run, status)
      BY DEF Asks, Answered, Active
    <3> QED
      BY <1>1, <3>1, <3>2, WithFollows
  <2>5. (\E t : FallsSilent(t)) \/ (\E o : BusyElsewhere(o) \/ IdleAgain(o)) => UNCHANGED runs
    BY DEF FallsSilent, BusyElsewhere, IdleAgain
  <2>6. \A r \in runs : LaterEvent(r) => \E f : Follows(f)
    BY <1>1, LaterEventFollows
  <2> QED
    BY <1>2, <2>2, <2>3, <2>4, <2>5, <2>6 DEF TurnSteps
<1>9. ASSUME Requests PROVE (\E f : Follows(f)) \/ (\E new : Adds(new))
  <2>1. ASSUME NEW d \in Defs, NEW action, Operation(action, d)
        PROVE  (\E f : Follows(f)) \/ (\E new : Adds(new))
    BY <1>1, <2>1, OperationRuns
  <2>2. \A d \in Defs : \A a : Request(a, d) => Operation(a, d)
    BY DEF Request
  <2>3. \A c \in RoutineCards : Confirm(c) =>
          UNCHANGED runs \/ Operation(plan.card[c].action, plan.card[c].def)
    BY DEF Confirm
  <2>4. (\E d : Update(d)) \/ (\E o : CoordinatorLeaves(o)) \/ (\E c : Refuse(c) \/ AnswerAgain(c))
          => UNCHANGED runs
    BY DEF Update, CoordinatorLeaves, Refuse, AnswerAgain
  <2>5. Deliver => \E new : Adds(new)
    BY OneRunAdds DEF Deliver
  <2>6. CancelDeliveries => \E f : Follows(f)
    <3>1. CancelDeliveries => runs' = Saved({Cancelled(r, Waits(r, Hook)) : r \in runs})
      BY DEF CancelDeliveries, Mapped
    <3> QED
      BY <1>1, <3>1, WaitsFollows
  <2>7. \A i : CancelRun(i) => \E f : Follows(f)
    BY <1>1, WithFollows DEF CancelRun, Ending
  <2>8. \A o : Disable(o) => \E f : Follows(f)
    <3>1. \A o : Disable(o) =>
            runs' = Saved({Cancelled(r, r.owner = o /\ r.status \in Unended) : r \in runs})
      BY DEF Disable, Mapped
    <3> QED
      BY <1>1, <3>1, OwnerFollows
  <2>9. \A c \in RoutineCards : plan.card[c].def \in Defs
    BY PlanFacts
  <2> QED
    BY <1>2, <1>9, <2>1, <2>2, <2>3, <2>4, <2>5, <2>6, <2>7, <2>8, <2>9 DEF Requests
<1> QED
  BY <1>1, <1>2, <1>3, <1>4, <1>5, <1>6, <1>7, <1>8, <1>9 DEF RoutinesNext, TickSteps

(* What has ended stays as it ended, for as long as it is on record: no    *)
(* late event, answer or cancellation reopens it or rewrites its outcome.  *)
THEOREM EndedRunsAreFinal == RoutinesSpec => EndedRunsStayEnded
<1> DEFINE Final == \A r \in runs, q \in runs' : r.id = q.id /\ r.status \in Ending => q.status = r.status
<1>1. ASSUME RoutineInv, [RoutinesNext]_routinesVars PROVE Final
  <2> SUFFICES ASSUME NEW r \in runs, NEW q \in runs', r.id = q.id, r.status \in Ending
               PROVE  q.status = r.status
    OBVIOUS
  <2>1. TypeInv /\ IdsDistinct
    BY <1>1 DEF RoutineInv, TypeInv
  <2>2. ASSUME NEW f, Follows(f) PROVE q.status = r.status
    <3>1. PICK p \in runs : q = f[p] /\ Same(q, p)
      BY <2>2 DEF Follows
    <3>2. p = r
      BY <2>1, <3>1 DEF Same, IdsDistinct
    <3> QED
      BY <2>2, <3>1, <3>2 DEF Follows
  <2>3. ASSUME NEW new, Adds(new) PROVE q.status = r.status
    <3>1. r.id \in Nat /\ r.id <= lastId /\ lastId \in Nat
      BY <2>1, RunsAreRecords DEF RunRecords, TypeInv, RoutinesTypeOK
    <3>2. q \notin new
      BY <2>3, <3>1 DEF Adds, RunRecords
    <3>3. q \in runs
      BY <2>3, <3>2 DEF Adds
    <3> QED
      BY <2>1, <3>3 DEF IdsDistinct
  <2> QED
    BY <1>1, <2>1, <2>2, <2>3, EveryStep
<1>2. RoutineInv /\ [RoutinesNext]_routinesVars => [Final]_routinesVars
  BY <1>1
<1> QED
  BY <1>2, RoutineInvariant, PTL DEF RoutinesSpec, EndedRunsStayEnded

(* Only a run that starts gets a turn. *)
LEMMA OnlyStartsSetUp ==
  ASSUME TypeInv, [RoutinesNext]_routinesVars
  PROVE  \/ setup' \subseteq setup
         \/ tick.phase = "start" /\ \E r \in runs : r.status = "queued" /\ Starts(r)
<1>1. TickBegins \/ InterruptAnswers \/ TickEnds \/ TickLimit \/ TickDue \/ Restart \/ Advance
        \/ UNCHANGED routinesVars => setup' \subseteq setup
  BY DEF TickBegins, InterruptAnswers, TickEnds, TickLimit, TickDue, Restart, Advance,
         routinesVars, turnSets
<1>2. TickStart => \/ setup' \subseteq setup
                   \/ tick.phase = "start" /\ \E r \in runs : r.status = "queued" /\ Starts(r)
  BY DEF TickStart, StaysQueued, CannotStart
<1>3. TurnSteps => setup' \subseteq setup
  BY DEF TurnSteps, SetupEnds, TurnEnds, Asks, Answered, FallsSilent, LaterEvent, BusyElsewhere,
         IdleAgain, turnSets
<1>4. Requests => setup' \subseteq setup
  BY DEF Requests, Update, Request, Deliver, CancelDeliveries, CancelRun, Disable,
         CoordinatorLeaves, Confirm, Refuse, AnswerAgain, turnSets
<1> QED
  BY <1>1, <1>2, <1>3, <1>4 DEF RoutinesNext, TickSteps

(* A run starts one turn, and an occurrence of a repeating routine one run *)
(* -- however late a run starts, whatever moves its cursor meanwhile, and   *)
(* whatever a restart interrupts (tick, newRun, latestIntervalOccurrence). *)
THEOREM NothingStartsTwice == RoutinesSpec => RunsStartOnce
<1> DEFINE Once == /\ \A t \in setup' \ setup : t.run \notin started
                   /\ \A t \in setup' \ setup, r \in runs :
                        t.run = r.id /\ Repeats(r) => slots' # slots
<1>1. ASSUME RoutineInv, [RoutinesNext]_routinesVars PROVE Once
  <2>1. TypeInv /\ TurnInv /\ SlotInv
    BY <1>1 DEF RoutineInv
  <2>2. CASE setup' \subseteq setup
    BY <2>2
  <2>3. ASSUME tick.phase = "start", NEW r \in runs, r.status = "queued", Starts(r) PROVE Once
    <3>1. \A t \in setup' \ setup : t = TurnOf(r) /\ t.run = r.id
      BY <2>3 DEF Starts, TurnOf
    <3>2. r.id \notin started
      BY <2>1, <2>3 DEF TurnInv, QueuedUnstarted
    <3>3. \A q \in runs : q.id = r.id => q = r
      BY <2>1 DEF TypeInv, IdsDistinct
    <3>4. ASSUME Repeats(r) PROVE slots' # slots
      <4>1. r \in Waiting
        BY <2>3, <3>4 DEF Waiting
      <4>2. slots' = slots \cup {<<r.def, Aligned(r)>>}
        BY <2>3, <3>4 DEF Starts
      <4> QED
        BY <2>1, <2>3, <4>1, <4>2, AlignedOwn
    <3> QED
      BY <3>1, <3>2, <3>3, <3>4
  <2> QED
    BY <1>1, <2>1, <2>2, <2>3, OnlyStartsSetUp
<1>2. RoutineInv /\ [RoutinesNext]_routinesVars => [Once]_routinesVars
  BY <1>1
<1> QED
  BY <1>2, RoutineInvariant, PTL DEF RoutinesSpec, RunsStartOnce
------------------------------------------------------------------------------
(* The confirmation cards.  A card and the scheduler's file are written    *)
(* separately, in three writes any of which may be the last before a       *)
(* failure or a restart: the receipt that is saved with the change says    *)
(* whether an open card was applied.                                       *)

(* What the receipt says of an open card; an answered one needs none. *)
ReceiptTells ==
  \A c \in RoutineCards :
    /\ cards[c] = "open" => applied[c] = IF c \in receipts THEN 1 ELSE 0
    /\ cards[c] = "allow" => applied[c] = 1
    /\ cards[c] = "deny" => applied[c] = 0

CardsTyped ==
  /\ cards \in [RoutineCards -> {"open", "allow", "deny"}]
  /\ applied \in [RoutineCards -> Nat]

CardInv == CardsTyped /\ ReceiptTells

LEMMA CardInit == RoutinesInit => CardInv
BY DEF RoutinesInit, CardInv, CardsTyped, ReceiptTells

(* What leaves the cards, the receipts and the history alone keeps it. *)
LEMMA CardStutter == CardInv /\ UNCHANGED cardVars => CardInv'
BY DEF CardInv, CardsTyped, ReceiptTells, cardVars

(* Receipts may be forgotten, those of open cards excepted. *)
LEMMA ForgettingReceipts ==
  ASSUME CardInv, UNCHANGED <<cards, applied>>,
         \A c \in RoutineCards : cards[c] = "open" => (c \in receipts' <=> c \in receipts)
  PROVE  CardInv'
BY DEF CardInv, CardsTyped, ReceiptTells

(* The scheduler's ticks never touch a card. *)
LEMMA TicksLeaveCards ==
  TickBegins \/ TickSteps \/ InterruptAnswers => UNCHANGED cardVars
<1>1. TickBegins => UNCHANGED cardVars
  BY DEF TickBegins
<1>2. TickLimit => UNCHANGED cardVars
  BY DEF TickLimit
<1>3. TickDue => UNCHANGED cardVars
  BY DEF TickDue
<1>4. TickStart => UNCHANGED cardVars
  BY DEF TickStart
<1>5. TickEnds => UNCHANGED cardVars
  BY DEF TickEnds
<1>6. InterruptAnswers => UNCHANGED cardVars
  BY DEF InterruptAnswers
<1> QED
  BY <1>1, <1>2, <1>3, <1>4, <1>5, <1>6 DEF TickSteps

(* Nor do the turns that runs started. *)
LEMMA TurnsLeaveCards == TurnSteps => UNCHANGED cardVars
<1>1. \A t : SetupEnds(t) => UNCHANGED cardVars
  BY DEF SetupEnds
<1>2. \A t : TurnEnds(t) => UNCHANGED cardVars
  BY DEF TurnEnds
<1>3. \A t : Asks(t) \/ Answered(t) => UNCHANGED cardVars
  BY DEF Asks, Answered
<1>4. \A t : FallsSilent(t) => UNCHANGED cardVars
  BY DEF FallsSilent
<1>5. \A o : BusyElsewhere(o) \/ IdleAgain(o) => UNCHANGED cardVars
  BY DEF BusyElsewhere, IdleAgain
<1>6. \A r : LaterEvent(r) => UNCHANGED cardVars
  BY DEF LaterEvent
<1> QED
  BY <1>1, <1>2, <1>3, <1>4, <1>5, <1>6 DEF TurnSteps

(* Nor does the calendar, a delivery, a cancellation or a deleted bot. *)
LEMMA RequestsLeaveCards ==
  /\ \A d, a : Update(d) \/ Request(a, d) => UNCHANGED cardVars
  /\ Deliver \/ CancelDeliveries => UNCHANGED cardVars
  /\ \A i : CancelRun(i) => UNCHANGED cardVars
  /\ \A o : Disable(o) \/ CoordinatorLeaves(o) => UNCHANGED cardVars
<1>1. \A d, a : Update(d) \/ Request(a, d) => UNCHANGED cardVars
  BY DEF Update, Request
<1>2. Deliver \/ CancelDeliveries => UNCHANGED cardVars
  BY DEF Deliver, CancelDeliveries
<1>3. \A i : CancelRun(i) => UNCHANGED cardVars
  BY DEF CancelRun
<1>4. \A o : Disable(o) \/ CoordinatorLeaves(o) => UNCHANGED cardVars
  BY DEF Disable, CoordinatorLeaves
<1> QED
  BY <1>1, <1>2, <1>3, <1>4

(* Confirming applies an open card unless its receipt says it was applied. *)
LEMMA ConfirmKeepsCards ==
  ASSUME CardInv, NEW c \in RoutineCards, Confirm(c)
  PROVE  CardInv'
<1> USE DEF CardInv, CardsTyped, ReceiptTells
<1>1. cards[c] = "open"
  BY DEF Confirm
<1>2. /\ applied' \in [RoutineCards -> Nat] /\ applied'[c] = 1
      /\ \A d \in RoutineCards \ {c} : applied'[d] = applied[d]
  <2>1. \/ c \in receipts /\ applied' = applied
        \/ c \notin receipts /\ applied' = [applied EXCEPT ![c] = @ + 1]
    BY DEF Confirm
  <2> QED
    BY <1>1, <2>1
<1>3. \A d \in RoutineCards \ {c} : d \in receipts' <=> d \in receipts
  BY DEF Confirm
<1>4. \/ c \in receipts' /\ cards' = cards
      \/ cards' = [cards EXCEPT ![c] = "allow"]
  BY DEF Confirm
<1> QED
  BY <1>1, <1>2, <1>3, <1>4

(* Refusing finds out from the receipt that the card was applied. *)
LEMMA RefuseKeepsCards ==
  ASSUME CardInv, NEW c \in RoutineCards, Refuse(c)
  PROVE  CardInv'
<1> USE DEF CardInv, CardsTyped, ReceiptTells
<1>1. /\ cards[c] = "open" /\ applied' = applied
      /\ \A d \in RoutineCards \ {c} : d \in receipts' <=> d \in receipts
  BY DEF Refuse
<1>2. \/ c \in receipts /\ cards' = [cards EXCEPT ![c] = "allow"]
      \/ c \notin receipts /\ cards' = [cards EXCEPT ![c] = "deny"]
  BY DEF Refuse
<1> QED
  BY <1>1, <1>2

LEMMA CardStep == CardInv /\ [RoutinesNext]_routinesVars => CardInv'
<1> SUFFICES ASSUME CardInv, [RoutinesNext]_routinesVars PROVE CardInv'
  OBVIOUS
<1>1. CASE Restart
  <2>1. /\ UNCHANGED <<cards, applied>>
        /\ receipts' = receipts \cap {c \in RoutineCards : cards[c] = "open"}
    BY <1>1 DEF Restart, Reachable
  <2> QED
    BY <2>1, ForgettingReceipts
<1>2. CASE TickBegins \/ TickSteps \/ InterruptAnswers
  BY <1>2, TicksLeaveCards, CardStutter
<1>3. CASE TurnSteps
  BY <1>3, TurnsLeaveCards, CardStutter
<1>4. CASE Requests
  <2>1. ASSUME NEW c \in RoutineCards, Confirm(c) PROVE CardInv'
    BY <2>1, ConfirmKeepsCards
  <2>2. ASSUME NEW c \in RoutineCards, Refuse(c) PROVE CardInv'
    BY <2>2, RefuseKeepsCards
  <2>3. ASSUME NEW c \in RoutineCards, AnswerAgain(c) PROVE CardInv'
    <3>1. cards[c] # "open" /\ receipts' = receipts \ {c} /\ UNCHANGED <<cards, applied>>
      BY <2>3 DEF AnswerAgain
    <3> QED
      BY <3>1, ForgettingReceipts
  <2> QED
    BY <1>4, <2>1, <2>2, <2>3, RequestsLeaveCards, CardStutter DEF Requests
<1>5. CASE Advance
  BY <1>5, CardStutter DEF Advance
<1>6. CASE UNCHANGED routinesVars
  BY <1>6, CardStutter DEF routinesVars, cardVars
<1> QED
  BY <1>1, <1>2, <1>3, <1>4, <1>5, <1>6 DEF RoutinesNext

(* The receipt of an open card is the record of its application, in every  *)
(* reachable state.                                                        *)
THEOREM ReceiptsTellTheTruth == RoutinesSpec => []CardInv
BY CardInit, CardStep, PTL DEF RoutinesSpec

(* A confirmed card changes the scheduler once, whatever write fails or    *)
(* whatever restarts happen in between, and a refused card never does      *)
(* (applyRoutineRequest, routineRequestReceipts).                          *)
THEOREM CardsAreAppliedOnce == RoutinesSpec => []CardsApplyOnce
<1>1. CardInv => CardsApplyOnce
  BY DEF CardInv, CardsTyped, ReceiptTells, CardsApplyOnce
<1> QED
  BY <1>1, ReceiptsTellTheTruth, PTL
=============================================================================
