-------------------------- MODULE BoxCreationProofs --------------------------
(***************************************************************************)
(* One box per bot and none forgotten, for any number of calls, keys and   *)
(* faults, and whatever the provider rejects.  The argument: but for keys  *)
(* that were rejected, a key in flight is the one on record and has made   *)
(* no box yet, and while it is in flight there is no other box; whatever   *)
(* drops the record has seen that the box it names is gone, or that its    *)
(* key was rejected; and a key that was rejected never returns to it.      *)
(***************************************************************************)
EXTENDS BoxCreation, FiniteSetTheorems, TLAPS

(* Boxes and requests that the code has not let go of by a rejection. *)
Kept == live \ Astray
Pending == inflight \ refusedKeys

(* What the record says of the provider. *)
RecordIsTrue ==
  /\ journal.key = 0 => journal.box = 0
  /\ journal.resolved => journal.box # 0
  /\ ~journal.expired /\ journal.box # 0 => made[journal.key] = journal.box
  /\ journal.key \notin refusedKeys

(* Boxes that exist, and requests that may yet make one. *)
BoxesAreOnRecord ==
  /\ \A box \in Kept : /\ botExists /\ journal.key # 0
                       /\ journal.box # 0 => box = journal.box
                       /\ ~journal.expired => box = made[journal.key]
  /\ \A b1, b2 \in Kept : b1 = b2
RequestsAreOnRecord == \A k \in Pending : botExists /\ k = journal.key /\ ~journal.expired
InFlightUnmade == \A k \in inflight : made[k] = 0

RecordInv ==
  RecordIsTrue /\ BoxesAreOnRecord /\ RequestsAreOnRecord /\ InFlightUnmade

(* What a call knows.  One that sends an old key cannot make it pending,   *)
(* and one that has a box has the one on record, if its key is on record.  *)
Sending == {"post", "answer"}
Holding == {"inspect", "rename", "cleanup", "confirm"}
Knows(r) ==
  /\ r.at = "idle" => r = IdleCall
  /\ r.at = "find" => r.key = 0
  /\ r.at # "idle" => botExists
  /\ r.startedNow => r.key # 0
  /\ r.at \in Sending =>
       /\ r.key # 0 /\ ~journal.expired
       /\ r.key = journal.key \/ r.key \in refusedKeys \/ made[r.key] # 0
  /\ r.at = "inspect" /\ r.key # journal.key => ~journal.expired
  /\ r.at \in Holding => r.key # 0
  /\ r.at \in Holding \cup {"setup"} /\ r.key # 0 =>
       r.box # 0 /\ (r.key = journal.key => r.box = journal.box)
CallsKnow == \A c \in Calls : Knows(calls[c])

LooseAreUnderway == \A c \in loose : calls[c].at # "idle"
SettingsKnowTheBox == settings.at = "confirm" => settings.box # 0

BoxInv ==
  BoxTypeOK /\ RecordInv /\ CallsKnow /\ LooseAreUnderway /\ SettingsKnowTheBox

(* For the cleanup: at most one call is not loose, and the box it created, *)
(* or its key may have created, was handed to nobody.                      *)
NewBoxIsUnready(r) ==
  /\ r.at = "cleanup" => r.startedNow
  /\ r.startedNow => r.box \notin ready /\ made[r.key] \notin ready
CleanupInv ==
  /\ \A c, d \in Underway \ loose : c = d
  /\ \A c \in Underway \ loose : NewBoxIsUnready(calls[c])
  /\ \A k \in (lastKey + 1) .. MaxKeys : made[k] = 0

(* What every call knew it still knows. *)
KnowledgeStays == \A r \in CallRecords : Knows(r) => Knows(r)'

(* One call moves to a record that fits the new state. *)
LEMMA OneCallChanges ==
  ASSUME BoxInv, NEW c \in Calls, NEW new \in CallRecords',
         calls' = [calls EXCEPT ![c] = new], CallRecords \subseteq CallRecords',
         loose' \in {loose, loose \ {c}}, new.at = "idle" => c \notin loose',
         KnowledgeStays, Knows(new)'
  PROVE  calls' \in [Calls -> CallRecords'] /\ loose' \subseteq Calls /\ CallsKnow' /\ LooseAreUnderway'
<1>1. calls \in [Calls -> CallRecords]
  BY DEF BoxInv, BoxTypeOK
<1>2. calls' \in [Calls -> CallRecords']
  BY <1>1
<1>3. calls'[c] = new /\ \A d \in Calls \ {c} : calls'[d] = calls[d]
  BY <1>1
<1>4. CallsKnow'
  <2> SUFFICES ASSUME NEW d \in Calls PROVE Knows(calls[d])'
    BY DEF CallsKnow
  <2>1. CASE d = c
    <3>1. calls'[d] = new
      BY <1>3, <2>1
    <3> QED
      BY <3>1 DEF Knows
  <2>2. CASE d # c
    <3>1. calls'[d] = calls[d] /\ calls[d] \in CallRecords
      BY <1>1, <1>3, <2>2
    <3>2. Knows(calls[d])
      BY DEF BoxInv, CallsKnow
    <3>3. PICK r \in CallRecords : r = calls[d]
      BY <3>1
    <3>4. Knows(r)'
      BY <3>2, <3>3 DEF KnowledgeStays
    <3> QED
      BY <3>1, <3>3, <3>4 DEF Knows
  <2> QED
    BY <2>1, <2>2
<1>5. LooseAreUnderway' /\ loose' \subseteq Calls
  BY <1>3 DEF BoxInv, BoxTypeOK, LooseAreUnderway
<1> QED
  BY <1>2, <1>4, <1>5

(* The record stays; requests may be refused and boxes may go. *)
LEMMA RecordStays ==
  ASSUME BoxInv, UNCHANGED <<journal, made, botExists>>, live' \subseteq live,
         inflight' \subseteq inflight, refusedKeys \subseteq refusedKeys',
         journal.key \notin refusedKeys'
  PROVE  RecordInv' /\ KnowledgeStays
<1>1. Kept' \subseteq Kept /\ Pending' \subseteq Pending
  BY DEF Kept, Pending, Astray
<1>2. RecordInv'
  BY <1>1 DEF BoxInv, RecordInv, RecordIsTrue, BoxesAreOnRecord, RequestsAreOnRecord, InFlightUnmade
<1>3. KnowledgeStays
  BY DEF KnowledgeStays, Knows
<1> QED
  BY <1>2, <1>3

(* The record's key, if there is one, can bring no (other) box. *)
Settled(refused) ==
  \/ journal.key = 0
  \/ journal.key \in refused
  \/ ~journal.expired => made[journal.key] # 0

(* The record goes, or makes way for a new key, when no box is kept and no *)
(* request is pending.                                                     *)
LEMMA RecordDropped ==
  ASSUME BoxInv, Kept' = {}, Pending' = {}, inflight' \subseteq inflight,
         UNCHANGED <<made, botExists>>,
         refusedKeys \subseteq refusedKeys', refusedKeys' \subseteq 1 .. lastKey,
         Settled(refusedKeys'),
         journal'.key \notin 1 .. lastKey, journal'.box = 0,
         ~journal'.resolved, ~journal'.expired
  PROVE  RecordInv' /\ KnowledgeStays
<1>1. RecordInv'
  BY DEF BoxInv, RecordInv, RecordIsTrue, BoxesAreOnRecord, RequestsAreOnRecord, InFlightUnmade
<1>2. KnowledgeStays
  <2> SUFFICES ASSUME NEW r \in CallRecords, Knows(r) PROVE Knows(r)'
    BY DEF KnowledgeStays
  <2>1. r.key \in 0 .. lastKey
    BY DEF CallRecords, Keys
  <2>2. r.key # 0 => r.key # journal'.key
    BY <2>1 DEF BoxInv, BoxTypeOK
  <2> QED
    BY <2>2 DEF Knows, Settled, Holding, Sending
<1> QED
  BY <1>1, <1>2

(* The box on record is gone: nothing else is kept or pending. *)
LEMMA GoneBoxSettles ==
  ASSUME BoxInv, journal.box # 0, journal.box \notin live
  PROVE  Kept = {} /\ Pending = {} /\ Settled(refusedKeys)
<1>1. Kept = {}
  BY DEF BoxInv, RecordInv, BoxesAreOnRecord, Kept
<1>2. ~journal.expired => made[journal.key] # 0
  BY DEF BoxInv, RecordInv, RecordIsTrue
<1>3. Pending = {}
  BY <1>2 DEF BoxInv, RecordInv, RequestsAreOnRecord, InFlightUnmade, Pending
<1> QED
  BY <1>1, <1>2, <1>3 DEF Settled

LEMMA NoRecordNoBox ==
  ASSUME BoxInv, journal.key = 0
  PROVE  Kept = {} /\ Pending = {} /\ Settled(refusedKeys)
<1>1. Kept = {}
  BY DEF BoxInv, RecordInv, BoxesAreOnRecord
<1>2. Pending = {}
  BY DEF BoxInv, RecordInv, RequestsAreOnRecord, BoxTypeOK, Pending
<1> QED
  BY <1>1, <1>2 DEF Settled

LEMMA IdleCallFits ==
  ASSUME BoxInv, lastKey' \in Nat, boxCount' \in Nat
  PROVE  IdleCall \in CallRecords /\ IdleCall \in CallRecords' /\ Knows(IdleCall) /\ Knows(IdleCall)'
<1>1. IdleCall \in CallRecords
  BY DEF IdleCall, CallRecords, CallPlaces, Bodies, Keys, Boxes, BoxInv, BoxTypeOK
<1>2. IdleCall \in CallRecords'
  BY DEF IdleCall, CallRecords, CallPlaces, Bodies, Keys, Boxes
<1>3. Knows(IdleCall)
  BY DEF Knows, IdleCall, Holding, Sending
<1>4. Knows(IdleCall)'
  BY DEF Knows, IdleCall, Holding, Sending
<1> QED
  BY <1>1, <1>2, <1>3, <1>4

(* A call moves and nothing else that the invariant reads. *)
LEMMA MoveKeeps ==
  ASSUME BoxInv, NEW c \in Calls, NEW new \in CallRecords, Knows(new),
         calls' = [calls EXCEPT ![c] = new],
         loose' \in {loose, loose \ {c}}, new.at = "idle" => c \notin loose',
         UNCHANGED <<journal, lastKey, settings, botExists, requestVars, live, boxCount, faults>>,
         named' \subseteq 1 .. boxCount, deleting' \subseteq 1 .. boxCount,
         ready' \subseteq 1 .. boxCount
  PROVE  BoxInv'
<1> USE DEF requestVars
<1>1. RecordInv' /\ KnowledgeStays
  BY RecordStays DEF BoxInv, RecordInv, RecordIsTrue
<1>2. CallRecords = CallRecords'
  BY DEF CallRecords, Keys, Boxes
<1>3. Knows(new)'
  BY <1>1 DEF KnowledgeStays
<1>4. calls' \in [Calls -> CallRecords'] /\ loose' \subseteq Calls /\ CallsKnow' /\ LooseAreUnderway'
  BY <1>1, <1>2, <1>3, OneCallChanges
<1>5. BoxTypeOK'
  BY <1>2, <1>4 DEF BoxInv, BoxTypeOK, BoxRequests, Keys, Boxes
<1>6. SettingsKnowTheBox'
  BY DEF BoxInv, SettingsKnowTheBox
<1> QED
  BY <1>1, <1>4, <1>5, <1>6 DEF BoxInv

LEMMA CallEndingKeeps ==
  ASSUME BoxInv, NEW c \in Calls, CallEnds(c),
         UNCHANGED <<journal, lastKey, settings, botExists, requestVars, live, boxCount, faults>>,
         named' \subseteq 1 .. boxCount, deleting' \subseteq 1 .. boxCount,
         ready' \subseteq 1 .. boxCount
  PROVE  BoxInv'
<1>1. IdleCall \in CallRecords /\ Knows(IdleCall)
  BY IdleCallFits DEF BoxInv, BoxTypeOK
<1>2. IdleCall.at = "idle"
  BY DEF IdleCall
<1> QED
  BY <1>1, <1>2, MoveKeeps DEF CallEnds

(* A call moves on, with the same key and box. *)
LEMMA PlaceKeeps ==
  ASSUME BoxInv, NEW c \in Calls, NEW place \in CallPlaces \ {"idle"}, CallAt(c, place),
         Knows([calls[c] EXCEPT !.at = place]), UNCHANGED loose,
         UNCHANGED <<journal, lastKey, settings, botExists, requestVars, live, boxCount, faults>>,
         named' \subseteq 1 .. boxCount, deleting' \subseteq 1 .. boxCount,
         ready' \subseteq 1 .. boxCount
  PROVE  BoxInv'
<1> DEFINE new == [calls[c] EXCEPT !.at = place]
<1>1. calls[c] \in CallRecords
  BY DEF BoxInv, BoxTypeOK
<1>2. new \in CallRecords /\ new.at # "idle"
  BY <1>1 DEF CallRecords
<1>3. calls' = [calls EXCEPT ![c] = new]
  BY DEF CallAt
<1> HIDE DEF new
<1>4. Knows(new)
  BY DEF new
<1> QED
  BY <1>2, <1>3, <1>4, MoveKeeps

LEMMA CallFacts ==
  ASSUME BoxInv, NEW c \in Calls
  PROVE  calls[c] \in CallRecords /\ Knows(calls[c])
BY DEF BoxInv, BoxTypeOK, CallsKnow

LEMMA ProvisionKeeps ==
  ASSUME BoxInv, NEW c \in Calls, Provision(c)
  PROVE  BoxInv'
<1>1. Knows([calls[c] EXCEPT !.at = "find"])
  BY CallFacts DEF Provision, Knows, IdleCall, Holding, Sending
<1> QED
  BY <1>1, PlaceKeeps DEF Provision, accountVars, CallPlaces, BoxInv, BoxTypeOK

LEMMA UnclearKeeps ==
  ASSUME BoxInv, NEW c \in Calls, Unclear(c)
  PROVE  BoxInv'
<1>1. calls[c] \in CallRecords /\ Knows(calls[c]) /\ calls[c].at = "answer"
  BY CallFacts DEF Unclear
<1>2. UNCHANGED <<journal, lastKey, settings, botExists, requestVars, live, boxCount, faults>>
  BY DEF Unclear, AfterAmbiguity, accountVars
<1>3. named' \subseteq 1 .. boxCount /\ deleting' \subseteq 1 .. boxCount /\ ready' \subseteq 1 .. boxCount
  BY DEF Unclear, accountVars, BoxInv, BoxTypeOK
<1>4. CASE calls' = [calls EXCEPT ![c].at = "post", ![c].retried = TRUE] /\ UNCHANGED loose
  <2> DEFINE new == [calls[c] EXCEPT !.at = "post", !.retried = TRUE]
  <2>1. new \in CallRecords /\ new.at # "idle"
    BY <1>1 DEF CallRecords, CallPlaces
  <2>2. Knows(new)
    BY <1>1 DEF Knows, Sending, Holding, CallRecords
  <2>3. calls' = [calls EXCEPT ![c] = new]
    BY <1>4
  <2> HIDE DEF new
  <2> QED
    BY <1>2, <1>3, <1>4, <2>1, <2>2, <2>3, MoveKeeps
<1>5. CASE CallAt(c, "post") /\ UNCHANGED loose
  <2>1. Knows([calls[c] EXCEPT !.at = "post"])
    BY <1>1 DEF Knows, Sending, Holding, CallRecords
  <2> QED
    BY <1>2, <1>3, <1>5, <2>1, PlaceKeeps DEF CallPlaces
<1>6. CASE CallEnds(c)
  BY <1>2, <1>3, <1>6, CallEndingKeeps
<1> QED
  BY <1>4, <1>5, <1>6 DEF Unclear

(* A call that created its box fails: it goes to remove it, with what it   *)
(* knows.                                                                  *)
LEMMA FailureKeeps ==
  ASSUME BoxInv, NEW c \in Calls, CallFails(c), calls[c].at \in {"rename", "setup"},
         UNCHANGED <<journal, lastKey, settings, botExists, requestVars, live, boxCount, faults>>,
         named' \subseteq 1 .. boxCount, deleting' \subseteq 1 .. boxCount,
         ready' \subseteq 1 .. boxCount
  PROVE  BoxInv'
<1>1. CASE calls[c].startedNow
  <2>1. Knows([calls[c] EXCEPT !.at = "cleanup"])
    BY <1>1, CallFacts DEF Knows, Sending, Holding, CallRecords
  <2> QED
    BY <1>1, <2>1, PlaceKeeps DEF CallFails, CallPlaces
<1>2. CASE ~calls[c].startedNow
  BY <1>2, CallEndingKeeps DEF CallFails
<1> QED
  BY <1>1, <1>2

LEMMA BoxSetupKeeps ==
  ASSUME BoxInv, NEW c \in Calls, BoxSetup(c)
  PROVE  BoxInv'
<1>1. /\ UNCHANGED <<journal, lastKey, settings, botExists, requestVars, live, boxCount, faults>>
      /\ named' \subseteq 1 .. boxCount /\ deleting' \subseteq 1 .. boxCount
      /\ ready' \subseteq 1 .. boxCount
  BY DEF BoxSetup, accountVars, BoxInv, BoxTypeOK
<1>2. CASE CallEnds(c)
  BY <1>1, <1>2, CallEndingKeeps
<1>3. CASE CallFails(c)
  BY <1>1, <1>3, FailureKeeps DEF BoxSetup
<1> QED
  BY <1>2, <1>3 DEF BoxSetup

(* A call ends, and drops its key from the record if that is settled.      *)
LEMMA DroppingKeeps ==
  ASSUME BoxInv, NEW c \in Calls, CallEnds(c), NEW key, journal' = Discarded(key),
         key = journal.key => Kept' = {} /\ Pending' = {} /\ Settled(refusedKeys'),
         key # journal.key => journal.key \notin refusedKeys',
         inflight' \subseteq inflight,
         refusedKeys \subseteq refusedKeys', refusedKeys' \subseteq 1 .. lastKey,
         UNCHANGED <<lastKey, settings, botExists, made, live, boxCount, named, ready, faults>>,
         deleting' \subseteq 1 .. boxCount
  PROVE  BoxInv'
<1>1. IdleCall \in CallRecords' /\ Knows(IdleCall)' /\ IdleCall.at = "idle"
  BY IdleCallFits DEF BoxInv, BoxTypeOK, IdleCall
<1>2. RecordInv' /\ KnowledgeStays
  <2>1. CASE key = journal.key
    <3>1. journal' = NoRequest
      BY <2>1 DEF Discarded
    <3> QED
      BY <2>1, <3>1, RecordDropped DEF NoRequest
  <2>2. CASE key # journal.key
    BY <2>2, RecordStays DEF Discarded
  <2> QED
    BY <2>1, <2>2
<1>3. CallRecords = CallRecords' /\ BoxRequests = BoxRequests'
  BY DEF CallRecords, BoxRequests, Keys, Boxes
<1>4. calls' \in [Calls -> CallRecords'] /\ loose' \subseteq Calls /\ CallsKnow' /\ LooseAreUnderway'
  <2>1. PICK new : new = IdleCall
    OBVIOUS
  <2>2. Knows(new)'
    BY <1>1, <2>1 DEF Knows
  <2> QED
    BY <1>1, <1>2, <1>3, <2>1, <2>2, OneCallChanges DEF CallEnds
<1>5. journal' \in BoxRequests'
  BY <1>3 DEF Discarded, NoRequest, BoxRequests, Bodies, Keys, Boxes, BoxInv, BoxTypeOK
<1>6. BoxTypeOK'
  BY <1>4, <1>5 DEF BoxInv, BoxTypeOK, Boxes
<1>7. SettingsKnowTheBox'
  BY DEF BoxInv, SettingsKnowTheBox
<1> QED
  BY <1>2, <1>4, <1>6, <1>7 DEF BoxInv

(* The same, when the box the call created is gone. *)
LEMMA DroppingGoneBoxKeeps ==
  ASSUME BoxInv, NEW c \in Calls, CallEnds(c), calls[c].at \in {"cleanup", "confirm"},
         calls[c].box \notin live, journal' = Discarded(calls[c].key),
         UNCHANGED <<lastKey, settings, botExists, requestVars, live, boxCount, named, ready, faults>>,
         deleting' \subseteq 1 .. boxCount
  PROVE  BoxInv'
<1> USE DEF requestVars
<1>1. calls[c].key = journal.key => journal.box # 0 /\ journal.box \notin live
  BY CallFacts DEF Knows, Holding
<1>2. calls[c].key = journal.key => Kept' = {} /\ Pending' = {} /\ Settled(refusedKeys')
  BY <1>1, GoneBoxSettles DEF Kept, Pending, Astray
<1>3. journal.key \notin refusedKeys'
  BY DEF BoxInv, RecordInv, RecordIsTrue
<1>4. refusedKeys' \subseteq 1 .. lastKey
  BY DEF BoxInv, BoxTypeOK
<1> QED
  BY <1>2, <1>3, <1>4, DroppingKeeps

LEMMA CleanupKeeps ==
  ASSUME BoxInv, NEW c \in Calls, Cleanup(c)
  PROVE  BoxInv'
<1>1. /\ UNCHANGED <<lastKey, settings, botExists, requestVars, live, boxCount, named, ready, faults>>
      /\ named' \subseteq 1 .. boxCount /\ deleting' \subseteq 1 .. boxCount
      /\ ready' \subseteq 1 .. boxCount
  BY CallFacts DEF Cleanup, BoxInv, BoxTypeOK
<1>2. CASE CallAt(c, "confirm") /\ UNCHANGED <<journal, loose>>
  <2>1. Knows([calls[c] EXCEPT !.at = "confirm"])
    BY CallFacts DEF Cleanup, Knows, Sending, Holding, CallRecords
  <2> QED
    BY <1>1, <1>2, <2>1, PlaceKeeps DEF CallPlaces
<1>3. CASE calls[c].box \notin live /\ journal' = Discarded(calls[c].key) /\ CallEnds(c)
  BY <1>1, <1>3, DroppingGoneBoxKeeps DEF Cleanup
<1>4. CASE CallEnds(c) /\ UNCHANGED journal
  BY <1>1, <1>4, CallEndingKeeps
<1> QED
  BY <1>2, <1>3, <1>4 DEF Cleanup

LEMMA ConfirmRemovalKeeps ==
  ASSUME BoxInv, NEW c \in Calls, ConfirmRemoval(c)
  PROVE  BoxInv'
<1>1. /\ UNCHANGED <<lastKey, settings, botExists, requestVars, live, boxCount, named, ready, faults>>
      /\ named' \subseteq 1 .. boxCount /\ deleting' \subseteq 1 .. boxCount
      /\ ready' \subseteq 1 .. boxCount
  BY DEF ConfirmRemoval, accountVars, BoxInv, BoxTypeOK
<1>2. CASE calls[c].box \notin live /\ journal' = Discarded(calls[c].key)
  BY <1>1, <1>2, DroppingGoneBoxKeeps DEF ConfirmRemoval
<1>3. CASE UNCHANGED journal
  BY <1>1, <1>3, CallEndingKeeps DEF ConfirmRemoval
<1> QED
  BY <1>2, <1>3 DEF ConfirmRemoval

LEMMA RenameKeeps ==
  ASSUME BoxInv, NEW c \in Calls, Rename(c)
  PROVE  BoxInv'
<1>1. /\ calls[c] \in CallRecords /\ Knows(calls[c]) /\ calls[c].at = "rename"
      /\ UNCHANGED <<lastKey, settings, botExists, requestVars, live, boxCount, deleting, ready, faults>>
      /\ named' \subseteq 1 .. boxCount
  BY CallFacts DEF Rename, BoxInv, BoxTypeOK
<1>2. CASE CallFails(c) /\ UNCHANGED journal
  BY <1>1, <1>2, FailureKeeps DEF BoxInv, BoxTypeOK
<1>3. CASE /\ journal.key = calls[c].key /\ journal.box = calls[c].box
           /\ journal' = [journal EXCEPT !.resolved = TRUE]
           /\ CallAt(c, "setup") /\ UNCHANGED loose
  <2> USE DEF requestVars
  <2>1. journal \in BoxRequests /\ journal.box # 0
    BY <1>1, <1>3 DEF BoxInv, BoxTypeOK, Knows, Holding
  <2>2. /\ journal'.key = journal.key /\ journal'.box = journal.box
        /\ journal'.expired = journal.expired /\ journal' \in BoxRequests
    BY <1>3, <2>1 DEF BoxRequests
  <2>3. RecordInv'
    BY <1>1, <2>1, <2>2
       DEF BoxInv, RecordInv, RecordIsTrue, BoxesAreOnRecord, RequestsAreOnRecord, InFlightUnmade,
           Kept, Pending, Astray
  <2>4. KnowledgeStays
    BY <1>1, <2>2 DEF KnowledgeStays, Knows
  <2>5. PICK new : new = [calls[c] EXCEPT !.at = "setup"]
    OBVIOUS
  <2>6. new \in CallRecords /\ CallRecords' = CallRecords /\ BoxRequests' = BoxRequests /\ new.at = "setup"
    BY <1>1, <2>5 DEF CallRecords, CallPlaces, Keys, Boxes, BoxRequests
  <2>7. Knows(new)
    BY <1>1, <2>5 DEF Knows, Sending, Holding, CallRecords
  <2>8. Knows(new)'
    BY <2>4, <2>6, <2>7 DEF KnowledgeStays
  <2>9. calls' \in [Calls -> CallRecords'] /\ loose' \subseteq Calls /\ CallsKnow' /\ LooseAreUnderway'
    BY <1>3, <2>4, <2>5, <2>6, <2>8, OneCallChanges DEF CallAt
  <2>10. BoxTypeOK'
    BY <1>1, <2>2, <2>6, <2>9 DEF BoxInv, BoxTypeOK, Boxes
  <2> QED
    BY <1>1, <2>3, <2>9, <2>10 DEF BoxInv, SettingsKnowTheBox
<1> QED
  BY <1>2, <1>3 DEF Rename

(* The box the provider answers with is the only one there is.             *)
LEMMA BoxMadeKeeps ==
  ASSUME BoxInv, NEW c \in Calls, BoxMade(c)
  PROVE  BoxInv'
<1> DEFINE box == made[calls[c].key]
<1>1. /\ calls[c] \in CallRecords /\ Knows(calls[c]) /\ calls[c].at = "answer"
      /\ UNCHANGED <<lastKey, settings, botExists, requestVars, accountVars, ready, faults>>
      /\ named' \subseteq 1 .. boxCount /\ deleting' \subseteq 1 .. boxCount
      /\ ready' \subseteq 1 .. boxCount
      /\ live' = live /\ boxCount' = boxCount
  BY CallFacts DEF BoxMade, accountVars, BoxInv, BoxTypeOK
<1>2. CASE CallEnds(c) /\ UNCHANGED journal
  BY <1>1, <1>2, CallEndingKeeps
<1>3. CASE /\ OnRecord(c, box) /\ journal' = [journal EXCEPT !.box = box]
           /\ calls' = [calls EXCEPT ![c].at = "rename", ![c].box = box] /\ UNCHANGED loose
  <2> USE DEF requestVars
  <2>1. /\ journal \in BoxRequests /\ box # 0 /\ box \in Boxes /\ calls[c].key # 0 /\ ~journal.expired
        /\ journal.key = calls[c].key /\ journal.box \in {0, box}
    BY <1>1, <1>3 DEF BoxInv, BoxTypeOK, Knows, Sending, BoxMade, OnRecord, CallRecords, Keys
  <2> HIDE DEF box
  <2>2. /\ journal'.key = journal.key /\ journal'.box = box /\ journal'.resolved = journal.resolved
        /\ journal'.expired = journal.expired /\ journal' \in BoxRequests
    BY <1>3, <2>1 DEF BoxRequests
  <2>3. made[journal.key] = box
    BY <2>1 DEF box
  <2>4. RecordInv'
    BY <1>1, <2>1, <2>2, <2>3
       DEF BoxInv, RecordInv, RecordIsTrue, BoxesAreOnRecord, RequestsAreOnRecord, InFlightUnmade,
           Kept, Pending, Astray
  <2>5. KnowledgeStays
    BY <1>1, <2>1, <2>2 DEF KnowledgeStays, Knows
  <2>6. PICK new : new = [calls[c] EXCEPT !.at = "rename", !.box = box]
    OBVIOUS
  <2>7. /\ new \in CallRecords /\ CallRecords' = CallRecords /\ BoxRequests' = BoxRequests
        /\ new.at = "rename" /\ new.key = calls[c].key /\ new.box = box
        /\ new.startedNow = calls[c].startedNow
    BY <1>1, <2>1, <2>6 DEF CallRecords, CallPlaces, Keys, Boxes, BoxRequests
  <2>8. Knows(new)'
    BY <1>1, <2>1, <2>2, <2>7 DEF Knows, Sending, Holding
  <2>9. calls' \in [Calls -> CallRecords'] /\ loose' \subseteq Calls /\ CallsKnow' /\ LooseAreUnderway'
    BY <1>3, <2>5, <2>6, <2>7, <2>8, OneCallChanges
  <2>10. BoxTypeOK'
    BY <1>1, <2>2, <2>7, <2>9 DEF BoxInv, BoxTypeOK, Boxes
  <2> QED
    BY <1>1, <2>4, <2>9, <2>10 DEF BoxInv, SettingsKnowTheBox
<1> QED
  BY <1>2, <1>3 DEF BoxMade

LEMMA PostKeeps ==
  ASSUME BoxInv, NEW c \in Calls, Post(c)
  PROVE  BoxInv'
<1>1. /\ calls[c] \in CallRecords /\ Knows(calls[c]) /\ calls[c].at = "post"
      /\ UNCHANGED <<journal, lastKey, loose, settings, botExists, made, refusedKeys, ready, faults>>
      /\ UNCHANGED <<live, boxCount, named, deleting>>
  BY CallFacts DEF Post, accountVars
<1>2. \A k \in inflight' \ inflight :
        /\ k = calls[c].key /\ made[k] = 0 /\ k # 0
        /\ k \notin refusedKeys => k = journal.key /\ ~journal.expired /\ botExists
  BY <1>1 DEF Post, Knows, Sending
<1>3. RecordInv'
  <2>1. Kept' = Kept /\ \A k \in Pending' : k \in Pending \/ (k \in inflight' \ inflight /\ k \notin refusedKeys)
    BY <1>1 DEF Kept, Pending, Astray
  <2> QED
    BY <1>1, <1>2, <2>1
       DEF BoxInv, RecordInv, RecordIsTrue, BoxesAreOnRecord, RequestsAreOnRecord, InFlightUnmade
<1>4. KnowledgeStays
  BY <1>1 DEF KnowledgeStays, Knows
<1>5. PICK new : new = [calls[c] EXCEPT !.at = "answer"]
  OBVIOUS
<1>6. new \in CallRecords /\ CallRecords' = CallRecords /\ BoxRequests' = BoxRequests /\ new.at # "idle"
  BY <1>1, <1>5 DEF CallRecords, CallPlaces, Keys, Boxes, BoxRequests
<1>7. Knows(new)
  BY <1>1, <1>5 DEF Knows, Sending, Holding, CallRecords
<1>8. Knows(new)'
  BY <1>4, <1>6, <1>7 DEF KnowledgeStays
<1>9. calls' \in [Calls -> CallRecords'] /\ loose' \subseteq Calls /\ CallsKnow' /\ LooseAreUnderway'
  BY <1>1, <1>4, <1>5, <1>6, <1>8, OneCallChanges DEF Post, CallAt
<1>10. inflight' \subseteq 1 .. lastKey
  <2>1. calls[c].key \in 0 .. lastKey /\ lastKey \in Nat /\ inflight \subseteq 1 .. lastKey
    BY <1>1 DEF BoxInv, BoxTypeOK, CallRecords, Keys
  <2> SUFFICES ASSUME NEW k \in inflight' PROVE k \in 1 .. lastKey
    OBVIOUS
  <2>2. CASE k \in inflight
    BY <2>1, <2>2
  <2>3. CASE k \notin inflight
    BY <1>2, <2>1, <2>3
  <2> QED
    BY <2>2, <2>3
<1>11. BoxTypeOK'
  BY <1>1, <1>6, <1>9, <1>10 DEF BoxInv, BoxTypeOK, Boxes
<1> QED
  BY <1>1, <1>3, <1>9, <1>11 DEF BoxInv, SettingsKnowTheBox

(* What the steps that lead to beginBoxCreate leave behind: the record     *)
(* read is the one on disk, whose key was not rejected, or has just been   *)
(* dropped.                                                                *)
RequestsShrink ==
  /\ inflight' \subseteq inflight
  /\ refusedKeys \subseteq refusedKeys' /\ refusedKeys' \subseteq 1 .. lastKey
Readable(request, known) ==
  /\ \/ request = journal /\ journal.key \notin refusedKeys'
     \/ request = NoRequest /\ Kept' = {} /\ Pending' = {} /\ Settled(refusedKeys')
  /\ known = "post" /\ request.box # 0 => ~request.expired
OthersStay == UNCHANGED <<settings, botExists, made, accountVars, ready, faults>>

LEMMA CreateBeginsKeeps ==
  ASSUME BoxInv, NEW c \in Calls, NEW body \in Bodies, NEW known \in {"inspect", "post"}, NEW request,
         Readable(request, known), CreateBegins(c, request, body, known), botExists,
         RequestsShrink, OthersStay
  PROVE  BoxInv'
<1> USE DEF accountVars, RequestsShrink, Readable, OthersStay
<1> DEFINE First == [IdleCall EXCEPT !.at = known, !.body = body, !.key = request.key,
                                     !.box = request.box, !.startedNow = FALSE]
           Again == [IdleCall EXCEPT !.at = "post", !.body = body, !.key = request.key,
                                     !.startedNow = FALSE]
           Fresh == [IdleCall EXCEPT !.at = "post", !.body = body, !.key = lastKey + 1,
                                     !.startedNow = TRUE]
<1>1. journal \in BoxRequests /\ lastKey \in Nat /\ boxCount \in Nat /\ lastKey' \in Nat /\ boxCount' \in Nat
  BY DEF BoxInv, BoxTypeOK, CreateBegins
<1>2. NoRequest.key = 0 /\ NoRequest.box = 0 /\ IdleCall.at = "idle"
  BY DEF NoRequest, IdleCall
<1>3. CASE UNCHANGED lastKey /\ request = journal /\ journal' = journal
  <2>1. RecordInv' /\ KnowledgeStays
    <3>1. journal.key \notin refusedKeys'
      BY <1>2, <1>3 DEF BoxInv, BoxTypeOK
    <3> QED
      BY <1>3, <3>1, RecordStays
  <2>2. CallRecords' = CallRecords /\ BoxRequests' = BoxRequests
    BY <1>3 DEF CallRecords, BoxRequests, Keys, Boxes
  <2>3. \E new \in CallRecords' : /\ Knows(new)' /\ calls' = [calls EXCEPT ![c] = new]
                                  /\ loose' \in {loose, loose \ {c}}
                                  /\ new.at = "idle" => c \notin loose'
    <3>1. CASE request.box # 0 /\ calls' = [calls EXCEPT ![c] = First] /\ UNCHANGED loose
      <4>1. PICK new : new = First
        OBVIOUS
      <4>2. /\ new \in CallRecords /\ new.at = known /\ new.key = journal.key /\ new.box = journal.box
            /\ ~new.startedNow /\ new.key # 0 /\ new.box # 0
        BY <1>1, <1>3, <3>1, <4>1
           DEF IdleCall, CallRecords, BoxRequests, CallPlaces, Bodies, BoxInv, RecordInv, RecordIsTrue
      <4>3. Knows(new)'
        BY <1>3, <3>1, <4>2 DEF Knows, Sending, Holding
      <4> QED
        BY <2>2, <3>1, <4>1, <4>2, <4>3
    <3>2. CASE /\ request.key # 0 /\ ~request.expired
               /\ calls' = [calls EXCEPT ![c] = Again] /\ UNCHANGED loose
      <4>1. PICK new : new = Again
        OBVIOUS
      <4>2. request.key \in Keys /\ 0 \in Boxes /\ "post" \in CallPlaces
        BY <1>1, <1>3 DEF BoxRequests, CallPlaces, Boxes
      <4>3. new \in CallRecords /\ new.at = "post" /\ new.key = journal.key /\ ~new.startedNow
        BY <1>3, <4>1, <4>2 DEF IdleCall, CallRecords
      <4>4. Knows(new)'
        BY <1>3, <3>2, <4>3 DEF Knows, Sending, Holding
      <4> QED
        BY <2>2, <3>2, <4>1, <4>3, <4>4
    <3>3. CASE CallEnds(c)
      <4>1. PICK new : new = IdleCall
        OBVIOUS
      <4>2. new \in CallRecords' /\ Knows(IdleCall)'
        BY <1>1, <4>1, IdleCallFits
      <4>3. Knows(new)'
        BY <4>1, <4>2 DEF Knows
      <4> QED
        BY <3>3, <4>1, <4>2, <4>3 DEF CallEnds
    <3> QED
      BY <1>1, <1>3, <3>1, <3>2, <3>3 DEF CreateBegins, Resumed
  <2>4. calls' \in [Calls -> CallRecords'] /\ loose' \subseteq Calls /\ CallsKnow' /\ LooseAreUnderway'
    BY <2>1, <2>2, <2>3, OneCallChanges
  <2>5. BoxTypeOK'
    BY <1>3, <2>2, <2>4 DEF BoxInv, BoxTypeOK, Boxes
  <2> QED
    BY <2>1, <2>4, <2>5 DEF BoxInv, SettingsKnowTheBox
<1>4. CASE /\ request.key = 0 /\ lastKey < MaxKeys /\ lastKey' = lastKey + 1
           /\ journal' = [NoRequest EXCEPT !.key = lastKey + 1, !.body = body]
           /\ calls' = [calls EXCEPT ![c] = Fresh] /\ UNCHANGED loose
  <2>1. Kept' = {} /\ Pending' = {} /\ Settled(refusedKeys')
    <3>1. CASE request = journal
      <4>1. Kept = {} /\ Pending = {} /\ journal.key = 0
        BY <1>4, <3>1, NoRecordNoBox
      <4>2. Kept' \subseteq Kept /\ Pending' \subseteq Pending
        BY DEF Kept, Pending, Astray
      <4> QED
        BY <4>1, <4>2 DEF Settled
    <3> QED
      BY <3>1
  <2>2. /\ journal'.key = lastKey + 1 /\ journal'.box = 0 /\ ~journal'.resolved /\ ~journal'.expired
        /\ journal' \in BoxRequests'
    <3>1. lastKey + 1 \in Keys' /\ 0 \in Boxes'
      BY <1>1, <1>4 DEF Keys, Boxes
    <3> QED
      BY <1>4, <3>1 DEF NoRequest, BoxRequests
  <2>3. RecordInv' /\ KnowledgeStays
    BY <1>1, <2>1, <2>2, RecordDropped
  <2>4. CallRecords \subseteq CallRecords'
    BY <1>1, <1>4 DEF CallRecords, Keys, Boxes
  <2>5. PICK new : new = Fresh
    OBVIOUS
  <2>6. new \in CallRecords' /\ new.at = "post" /\ new.key = lastKey + 1 /\ new.startedNow
    <3>1. lastKey + 1 \in Keys' /\ 0 \in Boxes' /\ "post" \in CallPlaces
      BY <1>1, <1>4 DEF Keys, Boxes, CallPlaces
    <3> QED
      BY <2>5, <3>1 DEF IdleCall, CallRecords
  <2>7. Knows(new)'
    BY <1>1, <2>2, <2>6 DEF Knows, Sending, Holding
  <2>8. calls' \in [Calls -> CallRecords'] /\ loose' \subseteq Calls /\ CallsKnow' /\ LooseAreUnderway'
    BY <1>4, <2>3, <2>4, <2>5, <2>6, <2>7, OneCallChanges
  <2>9. MaxKeys \in Nat
    BY BoxAssumption
  <2>10. BoxTypeOK'
    BY <1>1, <1>4, <2>1, <2>2, <2>8, <2>9 DEF BoxInv, BoxTypeOK, Boxes, Keys
  <2> QED
    BY <2>3, <2>8, <2>10 DEF BoxInv, SettingsKnowTheBox
<1> QED
  BY <1>2, <1>3, <1>4 DEF CreateBegins, Resumed

LEMMA FindBoxKeeps ==
  ASSUME BoxInv, NEW c \in Calls, FindBox(c)
  PROVE  BoxInv'
<1>1. /\ calls[c] \in CallRecords /\ Knows(calls[c]) /\ calls[c].at = "find"
      /\ UNCHANGED <<settings, botExists, requestVars, accountVars, ready, faults>>
      /\ UNCHANGED <<live, boxCount, inflight, made, refusedKeys>>
      /\ named' \subseteq 1 .. boxCount /\ deleting' \subseteq 1 .. boxCount
      /\ ready' \subseteq 1 .. boxCount
  BY CallFacts DEF FindBox, accountVars, requestVars, BoxInv, BoxTypeOK
<1>2. ASSUME NEW box \in live \cap named, UNCHANGED <<journal, lastKey, loose>>,
             calls' = [calls EXCEPT ![c].at = "setup", ![c].box = box]
      PROVE  BoxInv'
  <2> DEFINE new == [calls[c] EXCEPT !.at = "setup", !.box = box]
  <2>1. box \in Boxes /\ box # 0
    BY DEF BoxInv, BoxTypeOK, Boxes
  <2>2. /\ new \in CallRecords /\ new.at = "setup" /\ new.box = box /\ new.key = calls[c].key
        /\ new.startedNow = calls[c].startedNow
    BY <1>1, <2>1 DEF CallRecords, CallPlaces
  <2>3. calls' = [calls EXCEPT ![c] = new]
    BY <1>2
  <2> HIDE DEF new
  <2>4. Knows(new)
    BY <1>1, <2>1, <2>2 DEF Knows, Sending, Holding
  <2> QED
    BY <1>1, <1>2, <2>2, <2>3, <2>4, MoveKeeps
<1>3. CASE CreateBegins(c, journal, "default", "inspect")
  <2>1. RequestsShrink
    BY <1>1 DEF RequestsShrink, BoxInv, BoxTypeOK
  <2>2. botExists /\ "default" \in Bodies
    BY <1>1 DEF Knows, Bodies
  <2>3. OthersStay
    BY <1>1 DEF OthersStay, FindBox
  <2>4. Readable(journal, "inspect")
    BY <1>1 DEF Readable, BoxInv, RecordInv, RecordIsTrue
  <2> QED
    BY <1>3, <2>1, <2>2, <2>3, <2>4, CreateBeginsKeeps
<1>4. CASE CallEnds(c) /\ UNCHANGED <<journal, lastKey>>
  BY <1>1, <1>4, CallEndingKeeps
<1> QED
  BY <1>2, <1>3, <1>4 DEF FindBox

LEMMA InspectKeeps ==
  ASSUME BoxInv, NEW c \in Calls, Inspect(c)
  PROVE  BoxInv'
<1>1. /\ calls[c] \in CallRecords /\ Knows(calls[c]) /\ calls[c].at = "inspect"
      /\ UNCHANGED <<settings, botExists, requestVars, accountVars, ready, faults>>
      /\ UNCHANGED <<live, boxCount, inflight, made, refusedKeys>>
      /\ named' \subseteq 1 .. boxCount /\ deleting' \subseteq 1 .. boxCount
      /\ ready' \subseteq 1 .. boxCount
  BY CallFacts DEF Inspect, accountVars, requestVars, BoxInv, BoxTypeOK
<1>2. CASE CallAt(c, "rename") /\ UNCHANGED <<journal, lastKey, loose>>
  <2>1. Knows([calls[c] EXCEPT !.at = "rename"])
    BY <1>1 DEF Knows, Sending, Holding, CallRecords
  <2> QED
    BY <1>1, <1>2, <2>1, PlaceKeeps DEF CallPlaces
<1>3. CASE /\ calls[c].box \notin live
           /\ CreateBegins(c, Discarded(calls[c].key), calls[c].body, "post")
  <2> DEFINE request == Discarded(calls[c].key)
  <2>1. RequestsShrink
    BY <1>1 DEF RequestsShrink, BoxInv, BoxTypeOK
  <2>2. botExists /\ calls[c].body \in Bodies
    BY <1>1 DEF Knows, CallRecords
  <2>3. OthersStay
    BY <1>1 DEF OthersStay, Inspect
  <2>4. Readable(request, "post")
    <3>1. CASE journal.key = calls[c].key
      <4>1. journal.box # 0 /\ journal.box \notin live
        BY <1>1, <1>3, <3>1 DEF Knows, Holding
      <4>2. Kept' = {} /\ Pending' = {} /\ Settled(refusedKeys')
        BY <1>1, <4>1, GoneBoxSettles DEF Kept, Pending, Astray
      <4> QED
        BY <3>1, <4>2 DEF Readable, Discarded, NoRequest
    <3>2. CASE journal.key # calls[c].key
      BY <1>1, <3>2 DEF Readable, Discarded, Knows, BoxInv, RecordInv, RecordIsTrue
    <3> QED
      BY <3>1, <3>2
  <2> QED
    BY <1>3, <2>1, <2>2, <2>3, <2>4, CreateBeginsKeeps
<1>4. CASE CallEnds(c) /\ UNCHANGED <<journal, lastKey>>
  BY <1>1, <1>4, CallEndingKeeps
<1> QED
  BY <1>2, <1>3, <1>4 DEF Inspect

(* With its key rejected, the box on record is kept no more, nor is the    *)
(* request pending.                                                        *)
LEMMA BoxRejectedKeeps ==
  ASSUME BoxInv, NEW c \in Calls, BoxRejected(c)
  PROVE  BoxInv'
<1> DEFINE key == calls[c].key
<1>1. /\ calls[c] \in CallRecords /\ Knows(calls[c]) /\ calls[c].at = "answer"
      /\ UNCHANGED <<settings, botExists, made, accountVars, ready, faults>>
      /\ UNCHANGED <<live, boxCount, named, deleting>>
      /\ key \in 1 .. lastKey /\ botExists /\ ~journal.expired
      /\ refusedKeys' = refusedKeys \cup {key} /\ inflight' \subseteq inflight
      /\ deleting' \subseteq 1 .. boxCount
  <2>1. calls[c] \in CallRecords /\ Knows(calls[c]) /\ calls[c].at = "answer"
    BY CallFacts DEF BoxRejected
  <2>2. key \in 0 .. lastKey /\ key # 0 /\ lastKey \in Nat
    BY <2>1 DEF Knows, Sending, CallRecords, Keys, BoxInv, BoxTypeOK
  <2> QED
    BY <2>1, <2>2 DEF BoxRejected, accountVars, Knows, Sending, BoxInv, BoxTypeOK
<1> HIDE DEF key
<1>2. RequestsShrink
  BY <1>1 DEF RequestsShrink, BoxInv, BoxTypeOK
<1>3. key # journal.key => journal.key \notin refusedKeys'
  BY <1>1 DEF BoxInv, RecordInv, RecordIsTrue
<1>4. key = journal.key => Kept' = {} /\ Pending' = {} /\ Settled(refusedKeys')
  <2> SUFFICES ASSUME key = journal.key PROVE Kept' = {} /\ Pending' = {} /\ Settled(refusedKeys')
    OBVIOUS
  <2>1. \A box \in Kept : box = made[key]
    BY <1>1 DEF BoxInv, RecordInv, BoxesAreOnRecord
  <2>2. Kept' \subseteq Kept /\ made[key] \notin Kept'
    BY <1>1 DEF Kept, Astray
  <2>3. Pending' \subseteq Pending /\ key \notin Pending'
    BY <1>1 DEF Pending
  <2>4. \A k \in Pending : k = key
    BY DEF BoxInv, RecordInv, RequestsAreOnRecord
  <2> QED
    BY <1>1, <2>1, <2>2, <2>3, <2>4 DEF Settled
<1>5. CASE CallEnds(c) /\ journal' = Discarded(key) /\ UNCHANGED lastKey
  BY <1>1, <1>2, <1>3, <1>4, <1>5, DroppingKeeps DEF RequestsShrink
<1>6. CASE CreateBegins(c, Discarded(key), "trial", "inspect")
  <2>1. Readable(Discarded(key), "inspect")
    BY <1>3, <1>4 DEF Readable, Discarded, NoRequest
  <2>2. "trial" \in Bodies /\ botExists /\ OthersStay
    BY <1>1 DEF Bodies, OthersStay
  <2> QED
    BY <1>2, <1>6, <2>1, <2>2, CreateBeginsKeeps
<1> QED
  BY <1>5, <1>6 DEF BoxRejected, key

(* Steps that touch no call. *)
LEMMA CallsStay ==
  ASSUME BoxInv, UNCHANGED calls, loose' \subseteq Underway, CallRecords \subseteq CallRecords', KnowledgeStays
  PROVE  calls' \in [Calls -> CallRecords'] /\ loose' \subseteq Calls /\ CallsKnow' /\ LooseAreUnderway'
<1>1. calls \in [Calls -> CallRecords] /\ calls' \in [Calls -> CallRecords']
  BY DEF BoxInv, BoxTypeOK
<1>2. CallsKnow'
  <2> SUFFICES ASSUME NEW c \in Calls PROVE Knows(calls[c])'
    BY DEF CallsKnow
  <2>1. PICK r \in CallRecords : r = calls[c]
    BY <1>1
  <2>2. Knows(r)'
    BY <2>1 DEF BoxInv, CallsKnow, KnowledgeStays
  <2> QED
    BY <2>1, <2>2 DEF Knows
<1> QED
  BY <1>1, <1>2 DEF LooseAreUnderway, Underway

LEMMA SettingsDeletesKeeps ==
  ASSUME BoxInv, SettingsDeletes
  PROVE  BoxInv'
<1>1. PICK box \in live \cap named :
        settings' = [at |-> "confirm", box |-> box] /\ deleting' = deleting \cup {box}
  BY DEF SettingsDeletes
<1>2. UNCHANGED <<journal, lastKey, calls, loose, botExists, inflight, made, refusedKeys, live,
                  boxCount, named, ready, faults>>
  BY DEF SettingsDeletes, callVars, requestVars
<1>3. RecordInv' /\ KnowledgeStays
  BY <1>2, RecordStays DEF BoxInv, RecordInv, RecordIsTrue
<1>4. CallRecords = CallRecords' /\ BoxRequests = BoxRequests' /\ loose' \subseteq Underway
  BY <1>2 DEF CallRecords, BoxRequests, Keys, Boxes, BoxInv, BoxTypeOK, LooseAreUnderway, Underway
<1>5. calls' \in [Calls -> CallRecords'] /\ loose' \subseteq Calls /\ CallsKnow' /\ LooseAreUnderway'
  BY <1>2, <1>3, <1>4, CallsStay
<1>6. box \in Boxes /\ box # 0
  BY DEF BoxInv, BoxTypeOK, Boxes
<1>7. BoxTypeOK' /\ SettingsKnowTheBox'
  BY <1>1, <1>2, <1>4, <1>5, <1>6 DEF BoxInv, BoxTypeOK, Boxes, SettingsKnowTheBox
<1> QED
  BY <1>3, <1>5, <1>7 DEF BoxInv

LEMMA SettingsConfirmsKeeps ==
  ASSUME BoxInv, SettingsConfirms
  PROVE  BoxInv'
<1>1. /\ settings.at = "confirm" /\ settings' = [settings EXCEPT !.at = "idle"]
      /\ UNCHANGED <<lastKey, calls, loose, botExists, inflight, made, refusedKeys, live,
                  boxCount, named, deleting, ready, faults>>
  BY DEF SettingsConfirms, callVars, requestVars, accountVars
<1>2. RecordInv' /\ KnowledgeStays /\ journal' \in {journal, NoRequest}
  <2>1. CASE UNCHANGED journal
    BY <1>1, <2>1, RecordStays DEF BoxInv, RecordInv, RecordIsTrue
  <2>2. CASE settings.box \notin live /\ journal' = NoRequest /\ journal.box = settings.box
    <3>1. Kept = {} /\ Pending = {} /\ Settled(refusedKeys)
      BY <1>1, <2>2, GoneBoxSettles DEF BoxInv, SettingsKnowTheBox
    <3>2. Kept' = Kept /\ Pending' = Pending /\ refusedKeys \subseteq 1 .. lastKey
      BY <1>1 DEF Kept, Pending, Astray, BoxInv, BoxTypeOK
    <3>3. Settled(refusedKeys')
      BY <1>1, <3>1
    <3> QED
      BY <1>1, <2>2, <3>1, <3>2, <3>3, RecordDropped DEF NoRequest
  <2> QED
    BY <2>1, <2>2 DEF SettingsConfirms, Retired
<1>3. CallRecords = CallRecords' /\ BoxRequests = BoxRequests' /\ loose' \subseteq Underway
  BY <1>1 DEF CallRecords, BoxRequests, Keys, Boxes, BoxInv, BoxTypeOK, LooseAreUnderway, Underway
<1>4. calls' \in [Calls -> CallRecords'] /\ loose' \subseteq Calls /\ CallsKnow' /\ LooseAreUnderway'
  BY <1>1, <1>2, <1>3, CallsStay
<1>5. journal' \in BoxRequests
  <2>1. journal \in BoxRequests /\ NoRequest \in BoxRequests
    BY DEF NoRequest, BoxRequests, Bodies, Keys, Boxes, BoxInv, BoxTypeOK
  <2> QED
    BY <1>2, <2>1
<1>6. BoxTypeOK' /\ SettingsKnowTheBox'
  BY <1>1, <1>3, <1>4, <1>5 DEF BoxInv, BoxTypeOK, Boxes, SettingsKnowTheBox
<1> QED
  BY <1>2, <1>4, <1>6 DEF BoxInv

(* No call is under way, and the record was resolved to a box that is gone. *)
LEMMA DeleteBotKeeps ==
  ASSUME BoxInv, DeleteBot
  PROVE  BoxInv'
<1>1. /\ \A c \in Calls : calls[c].at = "idle"
      /\ journal' = NoRequest /\ botExists' = FALSE
      /\ UNCHANGED <<lastKey, calls, loose, settings, inflight, made, refusedKeys, live, boxCount,
                     named, deleting, ready, faults>>
  BY DEF DeleteBot, Underway, callVars, requestVars, accountVars
<1>2. Kept' = {} /\ Pending' = {} /\ 0 \notin refusedKeys
  <2>1. Kept' = Kept /\ Pending' = Pending /\ 0 \notin refusedKeys
    BY <1>1 DEF Kept, Pending, Astray, BoxInv, BoxTypeOK
  <2>2. CASE journal.key = 0
    BY <2>1, <2>2, NoRecordNoBox
  <2>3. CASE journal.key # 0
    <3>1. journal.box # 0 /\ journal.box \notin live
      BY <2>3 DEF DeleteBot, Unresolved, BoxInv, RecordInv, RecordIsTrue
    <3> QED
      BY <2>1, <3>1, GoneBoxSettles
  <2> QED
    BY <2>2, <2>3
<1>3. RecordInv'
  BY <1>1, <1>2
     DEF BoxInv, RecordInv, RecordIsTrue, BoxesAreOnRecord, RequestsAreOnRecord, InFlightUnmade, NoRequest
<1>4. CallsKnow'
  <2> SUFFICES ASSUME NEW c \in Calls PROVE Knows(calls[c])'
    BY DEF CallsKnow
  <2>1. calls'[c] = IdleCall
    BY <1>1, CallFacts DEF Knows
  <2> QED
    BY <2>1 DEF Knows, IdleCall, Sending, Holding
<1>5. journal' \in BoxRequests
  BY <1>1 DEF NoRequest, BoxRequests, Bodies, Keys, Boxes, BoxInv, BoxTypeOK
<1>6. CallRecords' = CallRecords /\ BoxRequests' = BoxRequests /\ Boxes' = Boxes /\ Keys' = Keys
  BY <1>1 DEF CallRecords, BoxRequests, Keys, Boxes
<1>7. BoxTypeOK'
  BY <1>1, <1>5, <1>6 DEF BoxInv, BoxTypeOK
<1> QED
  BY <1>1, <1>3, <1>4, <1>7 DEF BoxInv, LooseAreUnderway, SettingsKnowTheBox

(* A key in flight is the one on record, and no box is kept while it is,   *)
(* or it was rejected, and so is its box not kept.                         *)
LEMMA ProviderCreatesKeeps ==
  ASSUME BoxInv, NEW k \in 1 .. MaxKeys, ProviderCreates(k)
  PROVE  BoxInv'
<1>1. /\ k \in inflight /\ inflight' = inflight \ {k} /\ boxCount' = boxCount + 1
      /\ made' = [made EXCEPT ![k] = boxCount'] /\ live' = live \cup {boxCount'}
      /\ UNCHANGED <<journal, lastKey, calls, loose, settings, botExists, refusedKeys, named, deleting,
                     ready, faults>>
  BY DEF ProviderCreates, callVars
<1>2. /\ made[k] = 0 /\ boxCount \in Nat /\ made \in [1 .. MaxKeys -> 0 .. boxCount]
      /\ live \subseteq 1 .. boxCount /\ refusedKeys \subseteq 1 .. MaxKeys
  <2>1. refusedKeys \subseteq 1 .. lastKey /\ lastKey \in 0 .. MaxKeys /\ MaxKeys \in Nat
    BY BoxAssumption DEF BoxInv, BoxTypeOK
  <2>2. refusedKeys \subseteq 1 .. MaxKeys
    BY <2>1
  <2> QED
    BY <1>1, <2>2 DEF BoxInv, RecordInv, InFlightUnmade, BoxTypeOK, Boxes
<1>3. k \notin refusedKeys => /\ botExists /\ k = journal.key /\ ~journal.expired
                             /\ Kept = {} /\ journal.box = 0
  <2> SUFFICES ASSUME k \notin refusedKeys
               PROVE  botExists /\ k = journal.key /\ ~journal.expired /\ Kept = {} /\ journal.box = 0
    OBVIOUS
  <2>1. botExists /\ k = journal.key /\ ~journal.expired
    BY <1>1 DEF BoxInv, RecordInv, RequestsAreOnRecord, Pending
  <2>2. 0 \notin Kept
    BY <1>2 DEF Kept
  <2> QED
    BY <1>2, <2>1, <2>2 DEF BoxInv, RecordInv, RecordIsTrue, BoxesAreOnRecord
<1>4. /\ made'[k] = boxCount + 1 /\ \A j \in 1 .. MaxKeys \ {k} : made'[j] = made[j]
      /\ made' \in [1 .. MaxKeys -> 0 .. boxCount']
  BY <1>1, <1>2
<1>5. RecordInv'
  <2>1. Kept' \subseteq Kept \cup {boxCount + 1} /\ (k \in refusedKeys => Kept' \subseteq Kept)
    <3>1. live \ Astray' \subseteq Kept
      <4> SUFFICES ASSUME NEW box \in live, NEW j \in refusedKeys, box = made[j]
                   PROVE  box \in Astray'
        BY DEF Kept, Astray
      <4>1. j # k
        BY <1>2
      <4>2. box = made'[j]
        BY <1>2, <1>4, <4>1
      <4> QED
        BY <1>1, <4>2 DEF Astray
    <3>2. k \in refusedKeys => boxCount + 1 \in Astray'
      BY <1>1, <1>4 DEF Astray
    <3> QED
      BY <1>1, <3>1, <3>2 DEF Kept
  <2>2. Pending' \subseteq Pending \ {k}
    BY <1>1 DEF Pending
  <2>3. InFlightUnmade'
    BY <1>1, <1>4 DEF BoxInv, RecordInv, InFlightUnmade, BoxTypeOK
  <2>4. CASE k \in refusedKeys
    <3>1. k # journal.key /\ journal.key \in 0 .. MaxKeys
      BY <2>4, BoxAssumption DEF BoxInv, RecordInv, RecordIsTrue, BoxTypeOK, BoxRequests, Keys
    <3>2. made'[journal.key] = made[journal.key] \/ journal.key = 0
      BY <1>4, <3>1
    <3> QED
      BY <1>1, <2>1, <2>2, <2>3, <2>4, <3>2
         DEF BoxInv, RecordInv, RecordIsTrue, BoxesAreOnRecord, RequestsAreOnRecord
  <2>5. CASE k \notin refusedKeys
    BY <1>1, <1>2, <1>3, <1>4, <2>1, <2>2, <2>3, <2>5
       DEF BoxInv, RecordInv, RecordIsTrue, BoxesAreOnRecord, RequestsAreOnRecord
  <2> QED
    BY <2>4, <2>5
<1>6. KnowledgeStays
  <2> SUFFICES ASSUME NEW r \in CallRecords, Knows(r) PROVE Knows(r)'
    BY DEF KnowledgeStays
  <2>1. r.at \in Sending /\ made[r.key] # 0 => made'[r.key] # 0
    <3>1. r.at \in Sending => r.key \in 1 .. MaxKeys
      BY BoxAssumption DEF Knows, CallRecords, Keys, BoxInv, BoxTypeOK
    <3> QED
      BY <1>2, <1>4, <3>1
  <2> QED
    BY <1>1, <2>1 DEF Knows
<1>7. CallRecords \subseteq CallRecords' /\ BoxRequests \subseteq BoxRequests' /\ loose' \subseteq Underway
  BY <1>1, <1>2 DEF CallRecords, BoxRequests, Keys, Boxes, BoxInv, BoxTypeOK, LooseAreUnderway, Underway
<1>8. calls' \in [Calls -> CallRecords'] /\ loose' \subseteq Calls /\ CallsKnow' /\ LooseAreUnderway'
  BY <1>1, <1>6, <1>7, CallsStay
<1>9. BoxTypeOK'
  <2>1. Boxes \subseteq Boxes' /\ boxCount' \in Nat /\ made' \in [1 .. MaxKeys -> Boxes']
    BY <1>1, <1>2, <1>4 DEF Boxes
  <2>2. 1 .. boxCount \subseteq 1 .. boxCount' /\ boxCount' \in 1 .. boxCount'
    BY <1>1, <1>2
  <2>3. live' \subseteq 1 .. boxCount' /\ named' \subseteq 1 .. boxCount'
        /\ deleting' \subseteq 1 .. boxCount' /\ ready' \subseteq 1 .. boxCount'
    BY <1>1, <2>2 DEF BoxInv, BoxTypeOK
  <2>4. settings' \in [at : {"idle", "confirm"}, box : Boxes']
    BY <1>1, <2>1 DEF BoxInv, BoxTypeOK
  <2>5. journal' \in BoxRequests'
    BY <1>1, <1>7 DEF BoxInv, BoxTypeOK
  <2> QED
    BY <1>1, <1>8, <2>1, <2>3, <2>4, <2>5 DEF BoxInv, BoxTypeOK
<1> QED
  BY <1>1, <1>5, <1>8, <1>9 DEF BoxInv, SettingsKnowTheBox

(* Boxes go without the server's knowing. *)
LEMMA BoxesGo ==
  ASSUME BoxInv, live' \subseteq live, deleting' \subseteq deleting, faults' \in Nat,
         UNCHANGED <<journal, lastKey, calls, loose, settings, botExists, inflight, made, refusedKeys,
                     boxCount, named, ready>>
  PROVE  BoxInv'
<1>1. RecordInv' /\ KnowledgeStays
  BY RecordStays DEF BoxInv, RecordInv, RecordIsTrue
<1>2. CallRecords = CallRecords' /\ BoxRequests = BoxRequests' /\ Boxes = Boxes'
      /\ loose' \subseteq Underway
  BY DEF CallRecords, BoxRequests, Keys, Boxes, BoxInv, BoxTypeOK, LooseAreUnderway, Underway
<1>3. calls' \in [Calls -> CallRecords'] /\ loose' \subseteq Calls /\ CallsKnow' /\ LooseAreUnderway'
  BY <1>1, <1>2, CallsStay
<1>4. BoxTypeOK' /\ SettingsKnowTheBox'
  BY <1>2, <1>3 DEF BoxInv, BoxTypeOK, SettingsKnowTheBox
<1> QED
  BY <1>1, <1>3, <1>4 DEF BoxInv

LEMMA ProviderDeletesKeeps ==
  ASSUME BoxInv, NEW box \in 1 .. boxCount, ProviderDeletes(box)
  PROVE  BoxInv'
<1>1. /\ live' \subseteq live /\ deleting' \subseteq deleting
      /\ UNCHANGED <<journal, lastKey, calls, loose, settings, botExists, inflight, made, refusedKeys,
                     boxCount, named, ready, faults>>
  BY DEF ProviderDeletes, callVars, requestVars
<1>2. faults' \in Nat
  BY <1>1 DEF BoxInv, BoxTypeOK
<1> QED
  BY <1>1, <1>2, BoxesGo

LEMMA RemovedByHandKeeps ==
  ASSUME BoxInv, RemovedByHand
  PROVE  BoxInv'
<1>1. /\ live' \subseteq live /\ deleting' \subseteq deleting
      /\ UNCHANGED <<journal, lastKey, calls, loose, settings, botExists, inflight, made, refusedKeys,
                     boxCount, named, ready>>
      /\ faults' = faults + 1
  BY DEF RemovedByHand, BoxFault, callVars, requestVars
<1>2. faults' \in Nat
  BY <1>1 DEF BoxInv, BoxTypeOK
<1> QED
  BY <1>1, <1>2, BoxesGo

(* The old key is sent no more, and the provider knows it no more. *)
LEMMA DayPassesKeeps ==
  ASSUME BoxInv, DayPasses
  PROVE  BoxInv'
<1>1. /\ journal.key # 0 /\ ~journal.expired
      /\ \A c \in Calls : calls[c].at \notin {"find", "inspect", "post", "answer"}
      /\ journal' = [journal EXCEPT !.expired = TRUE]
      /\ inflight' = inflight \ {journal.key} /\ made' = [made EXCEPT ![journal.key] = 0]
      /\ UNCHANGED <<lastKey, calls, loose, settings, botExists, refusedKeys, live, boxCount, named,
                     deleting, ready, faults>>
  BY DEF DayPasses, Underway, callVars, accountVars
<1>2. journal \in BoxRequests /\ made \in [1 .. MaxKeys -> Boxes] /\ boxCount \in Nat
      /\ lastKey \in 0 .. MaxKeys /\ MaxKeys \in Nat /\ refusedKeys \subseteq 1 .. lastKey
  BY BoxAssumption DEF BoxInv, BoxTypeOK
<1>3. /\ journal' \in BoxRequests /\ journal'.expired
      /\ journal'.key = journal.key /\ journal'.box = journal.box
      /\ journal'.resolved = journal.resolved
  BY <1>1, <1>2 DEF BoxRequests
<1>4. /\ made' \in [1 .. MaxKeys -> Boxes]
      /\ \A j \in 1 .. MaxKeys : made'[j] = made[j] \/ made'[j] = 0
  <2>1. 0 \in Boxes
    BY <1>2 DEF Boxes
  <2> QED
    BY <1>1, <1>2, <2>1
<1>5. Kept' = Kept /\ Pending' = {} /\ \A j \in inflight' : made'[j] = 0
  <2>1. journal.key \notin refusedKeys /\ refusedKeys \subseteq 1 .. MaxKeys /\ inflight \subseteq 1 .. MaxKeys
    BY <1>2 DEF BoxInv, RecordInv, RecordIsTrue, BoxTypeOK
  <2>2. \A j \in refusedKeys : made'[j] = made[j]
    BY <1>1, <1>2, <2>1
  <2>3. Astray' = Astray
    BY <1>1, <2>2 DEF Astray
  <2>4. \A j \in Pending : j = journal.key
    BY DEF BoxInv, RecordInv, RequestsAreOnRecord
  <2>5. \A j \in inflight' : made'[j] = 0
    BY <1>1, <1>4, <2>1 DEF BoxInv, RecordInv, InFlightUnmade
  <2> QED
    BY <1>1, <2>3, <2>4, <2>5 DEF Kept, Pending
<1>6. RecordInv'
  <2>1. RecordIsTrue' /\ BoxesAreOnRecord'
    BY <1>1, <1>3, <1>5 DEF BoxInv, RecordInv, RecordIsTrue, BoxesAreOnRecord
  <2>2. RequestsAreOnRecord' /\ InFlightUnmade'
    BY <1>5 DEF RequestsAreOnRecord, InFlightUnmade
  <2> QED
    BY <2>1, <2>2 DEF RecordInv
<1>7. CallsKnow'
  <2> SUFFICES ASSUME NEW c \in Calls PROVE Knows(calls[c])'
    BY DEF CallsKnow
  <2>1. Knows(calls[c]) /\ calls'[c] = calls[c]
    BY <1>1 DEF BoxInv, CallsKnow
  <2> QED
    BY <1>1, <1>3, <2>1 DEF Knows, Sending, Holding
<1>8. CallRecords' = CallRecords /\ BoxRequests' = BoxRequests /\ Boxes' = Boxes /\ Keys' = Keys
  BY <1>1 DEF CallRecords, BoxRequests, Keys, Boxes
<1>9. BoxTypeOK'
  BY <1>1, <1>3, <1>4, <1>5, <1>8 DEF BoxInv, BoxTypeOK
<1> QED
  BY <1>1, <1>6, <1>7, <1>9 DEF BoxInv, LooseAreUnderway, SettingsKnowTheBox

LEMMA ServerCrashesKeeps ==
  ASSUME BoxInv, ServerCrashes
  PROVE  BoxInv'
<1>1. /\ faults' = faults + 1 /\ calls' = [c \in Calls |-> IdleCall] /\ loose' = {}
      /\ settings' = [settings EXCEPT !.at = "idle"]
      /\ UNCHANGED <<journal, lastKey, botExists, inflight, made, refusedKeys, live, boxCount, named,
                     deleting, ready>>
  BY DEF ServerCrashes, BoxFault, requestVars, accountVars
<1>2. RecordInv'
  BY <1>1, RecordStays DEF BoxInv, RecordInv, RecordIsTrue
<1>3. CallRecords' = CallRecords /\ BoxRequests' = BoxRequests /\ Boxes' = Boxes /\ Keys' = Keys
  BY <1>1 DEF CallRecords, BoxRequests, Keys, Boxes
<1>4. IdleCall \in CallRecords
  BY DEF IdleCall, CallRecords, CallPlaces, Bodies, Keys, Boxes, BoxInv, BoxTypeOK
<1>5. CallsKnow'
  BY <1>1 DEF CallsKnow, Knows, IdleCall, Sending, Holding
<1>6. settings' \in [at : {"idle", "confirm"}, box : Boxes] /\ settings'.at = "idle"
  BY <1>1 DEF BoxInv, BoxTypeOK
<1>7. faults' \in Nat
  BY <1>1 DEF BoxInv, BoxTypeOK
<1>8. calls' \in [Calls -> CallRecords]
  BY <1>1, <1>4
<1>9. BoxTypeOK'
  BY <1>1, <1>3, <1>6, <1>7, <1>8 DEF BoxInv, BoxTypeOK
<1> QED
  BY <1>1, <1>2, <1>5, <1>6, <1>9 DEF BoxInv, LooseAreUnderway, SettingsKnowTheBox

LEMMA FleetRestartsKeeps ==
  ASSUME BoxInv, FleetRestarts
  PROVE  BoxInv'
<1>1. /\ faults' = faults + 1 /\ loose' = Underway
      /\ UNCHANGED <<journal, lastKey, calls, settings, botExists, inflight, made, refusedKeys, live,
                     boxCount, named, deleting, ready>>
  BY DEF FleetRestarts, BoxFault, requestVars, accountVars
<1>2. RecordInv' /\ KnowledgeStays
  BY <1>1, RecordStays DEF BoxInv, RecordInv, RecordIsTrue
<1>3. CallRecords' = CallRecords /\ BoxRequests' = BoxRequests /\ Boxes' = Boxes /\ Keys' = Keys
  BY <1>1 DEF CallRecords, BoxRequests, Keys, Boxes
<1>4. calls' \in [Calls -> CallRecords'] /\ loose' \subseteq Calls /\ CallsKnow' /\ LooseAreUnderway'
  BY <1>1, <1>2, <1>3, CallsStay
<1>5. faults' \in Nat
  BY <1>1 DEF BoxInv, BoxTypeOK
<1>6. BoxTypeOK'
  BY <1>1, <1>3, <1>4, <1>5 DEF BoxInv, BoxTypeOK
<1> QED
  BY <1>1, <1>2, <1>4, <1>6 DEF BoxInv, SettingsKnowTheBox

LEMMA BoxInitHolds ==
  ASSUME BoxInit
  PROVE  BoxInv
<1>1. 0 \in Boxes /\ 0 \in Keys /\ lastKey \in 0 .. MaxKeys
  BY BoxAssumption DEF BoxInit, Boxes, Keys
<1>2. NoRequest \in BoxRequests /\ IdleCall \in CallRecords
  BY <1>1 DEF NoRequest, BoxRequests, IdleCall, CallRecords, CallPlaces, Bodies
<1>3. calls \in [Calls -> CallRecords] /\ made \in [1 .. MaxKeys -> Boxes]
  BY <1>1, <1>2 DEF BoxInit
<1>4. BoxTypeOK
  BY <1>1, <1>2, <1>3 DEF BoxInit, BoxTypeOK
<1>5. RecordInv
  BY DEF BoxInit, RecordInv, RecordIsTrue, BoxesAreOnRecord, RequestsAreOnRecord, InFlightUnmade,
         Kept, Pending, Astray, NoRequest
<1>6. CallsKnow /\ LooseAreUnderway /\ SettingsKnowTheBox
  BY DEF BoxInit, CallsKnow, Knows, IdleCall, Sending, Holding, LooseAreUnderway, SettingsKnowTheBox
<1> QED
  BY <1>4, <1>5, <1>6 DEF BoxInv

LEMMA BoxStutterKeeps ==
  ASSUME BoxInv, UNCHANGED boxVars
  PROVE  BoxInv'
<1>1. UNCHANGED <<journal, lastKey, calls, loose, settings, botExists, inflight, made, refusedKeys, live,
                  boxCount, named, deleting, ready, faults>>
  BY DEF boxVars, callVars, requestVars, accountVars
<1>2. faults' \in Nat
  BY <1>1 DEF BoxInv, BoxTypeOK
<1> QED
  BY <1>1, <1>2, BoxesGo

LEMMA BoxStepKeeps ==
  ASSUME BoxInv, [BoxNext]_boxVars
  PROVE  BoxInv'
<1>1. ASSUME NEW c \in Calls, CallSteps(c) PROVE BoxInv'
  <2>1. CASE Provision(c)
    BY <2>1, ProvisionKeeps
  <2>2. CASE FindBox(c)
    BY <2>2, FindBoxKeeps
  <2>3. CASE Inspect(c)
    BY <2>3, InspectKeeps
  <2>4. CASE Post(c)
    BY <2>4, PostKeeps
  <2>5. CASE BoxMade(c)
    BY <2>5, BoxMadeKeeps
  <2>6. CASE Unclear(c)
    BY <2>6, UnclearKeeps
  <2>7. CASE BoxRejected(c)
    BY <2>7, BoxRejectedKeeps
  <2>8. CASE Rename(c)
    BY <2>8, RenameKeeps
  <2>9. CASE BoxSetup(c)
    BY <2>9, BoxSetupKeeps
  <2>10. CASE Cleanup(c)
    BY <2>10, CleanupKeeps
  <2>11. CASE ConfirmRemoval(c)
    BY <2>11, ConfirmRemovalKeeps
  <2> QED
    BY <1>1, <2>1, <2>2, <2>3, <2>4, <2>5, <2>6, <2>7, <2>8, <2>9, <2>10, <2>11 DEF CallSteps
<1>2. CASE SettingsDeletes
  BY <1>2, SettingsDeletesKeeps
<1>3. CASE SettingsConfirms
  BY <1>3, SettingsConfirmsKeeps
<1>4. CASE DeleteBot
  BY <1>4, DeleteBotKeeps
<1>5. ASSUME NEW k \in 1 .. MaxKeys, ProviderCreates(k) PROVE BoxInv'
  BY <1>5, ProviderCreatesKeeps
<1>6. ASSUME NEW box \in 1 .. boxCount, ProviderDeletes(box) PROVE BoxInv'
  BY <1>6, ProviderDeletesKeeps
<1>7. CASE DayPasses
  BY <1>7, DayPassesKeeps
<1>8. CASE ServerCrashes
  BY <1>8, ServerCrashesKeeps
<1>9. CASE FleetRestarts
  BY <1>9, FleetRestartsKeeps
<1>10. CASE RemovedByHand
  BY <1>10, RemovedByHandKeeps
<1>11. CASE UNCHANGED boxVars
  BY <1>11, BoxStutterKeeps
<1> QED
  BY <1>1, <1>2, <1>3, <1>4, <1>5, <1>6, <1>7, <1>8, <1>9, <1>10, <1>11 DEF BoxNext

(* The record, the calls under way and the provider agree at every moment  *)
(* on every request that was not rejected.                                 *)
THEOREM BoxInvariant == BoxSpec => []BoxInv
<1>1. BoxInit => BoxInv
  BY BoxInitHolds
<1>2. BoxInv /\ [BoxNext]_boxVars => BoxInv'
  BY BoxStepKeeps
<1> QED
  BY <1>1, <1>2, PTL DEF BoxSpec

(* Whatever answer is lost, repeated, delayed or cut short by a crash, the *)
(* journal of creation keys (box-create-idempotency.ts) keeps a bot from   *)
(* having two billed boxes, not counting what the provider made of a       *)
(* request that it rejected: box.ts drops the key of such a request.       *)
THEOREM OneBox == BoxSpec => []OneBoxPerBot
<1>1. BoxInv => OneBoxPerBot
  <2> SUFFICES ASSUME BoxInv PROVE OneBoxPerBot
    OBVIOUS
  <2>1. CASE Kept = {}
    BY <2>1, FS_EmptySet DEF OneBoxPerBot, Kept
  <2>2. CASE Kept # {}
    <3>1. \A b1, b2 \in Kept : b1 = b2
      BY DEF BoxInv, RecordInv, BoxesAreOnRecord
    <3>2. PICK box : box \in Kept
      BY <2>2
    <3>3. Kept = {box}
      BY <3>1, <3>2
    <3>4. Cardinality(Kept) = 1
      BY <3>3, FS_Singleton
    <3> QED
      BY <3>4 DEF OneBoxPerBot, Kept
  <2> QED
    BY <2>1, <2>2
<1> QED
  BY <1>1, BoxInvariant, PTL

(* Every box that exists, and every request the provider may still turn    *)
(* into one, is on record for a bot that exists, unless the request was    *)
(* rejected: neither a crash nor a failed cleanup nor the bot's deletion   *)
(* leaves one that nobody deletes.                                         *)
THEOREM BoxesAreNotForgotten == BoxSpec => []NoBoxIsForgotten
<1>1. BoxInv => NoBoxIsForgotten
  BY DEF BoxInv, RecordInv, BoxesAreOnRecord, RequestsAreOnRecord, NoBoxIsForgotten, Kept, Pending
<1> QED
  BY <1>1, BoxInvariant, PTL
------------------------------------------------------------------------------
LEMMA CallKeepsCleanup ==
  ASSUME BoxInv, CleanupInv, NEW c \in Calls, NEW new, calls[c].at # "idle",
         calls' = [calls EXCEPT ![c] = new], UNCHANGED made,
         loose' \in {loose, loose \ {c}}, loose' # loose => new.at = "idle",
         ready' # ready => new.at = "idle" /\ c \notin loose,
         lastKey' \in {lastKey, lastKey + 1},
         c \notin loose /\ new.at # "idle" => NewBoxIsUnready(new)
  PROVE  CleanupInv'
<1>1. /\ calls'[c] = new /\ \A d \in Calls \ {c} : calls'[d] = calls[d]
      /\ lastKey \in Nat /\ MaxKeys \in Nat
  BY BoxAssumption DEF BoxInv, BoxTypeOK
<1>2. Underway' \ loose' \subseteq Underway \ loose
  BY <1>1 DEF Underway
<1>3. ASSUME NEW d \in Underway' \ loose' PROVE NewBoxIsUnready(calls[d])'
  <2>1. CASE d = c
    <3>1. c \notin loose /\ new.at # "idle" /\ ready' = ready
      BY <1>1, <1>2, <1>3, <2>1 DEF Underway
    <3> QED
      BY <1>1, <2>1, <3>1 DEF NewBoxIsUnready
  <2>2. CASE d # c
    <3>1. d \in Underway \ loose /\ calls'[d] = calls[d] /\ NewBoxIsUnready(calls[d])
      BY <1>1, <1>2, <1>3, <2>2 DEF CleanupInv, Underway
    <3>2. c \notin Underway \ loose
      BY <2>2, <3>1 DEF CleanupInv
    <3>3. ready' = ready
      BY <3>2 DEF Underway
    <3> QED
      BY <3>1, <3>3 DEF NewBoxIsUnready
  <2> QED
    BY <2>1, <2>2
<1>4. \A k \in (lastKey' + 1) .. MaxKeys : made'[k] = 0
  <2>1. (lastKey' + 1) .. MaxKeys \subseteq (lastKey + 1) .. MaxKeys
    <3>1. lastKey' = lastKey \/ lastKey' = lastKey + 1
      OBVIOUS
    <3>2. (lastKey + 2) .. MaxKeys \subseteq (lastKey + 1) .. MaxKeys
      BY <1>1
    <3>3. lastKey + 1 + 1 = lastKey + 2
      BY <1>1
    <3> QED
      BY <3>1, <3>2, <3>3
  <2>2. \A k \in (lastKey + 1) .. MaxKeys : made[k] = 0
    BY DEF CleanupInv
  <2> QED
    BY <2>1, <2>2
<1> QED
  BY <1>2, <1>3, <1>4 DEF CleanupInv

(* A call of the same key goes on with no box or with the one it had or    *)
(* its key made, and cleans up only what it created.                       *)
LEMMA SameKeyKeepsCleanup ==
  ASSUME BoxInv, CleanupInv, NEW c \in Calls, NEW new, calls[c].at # "idle",
         calls' = [calls EXCEPT ![c] = new], UNCHANGED <<made, loose, lastKey, ready>>,
         new.startedNow => calls[c].startedNow /\ new.key = calls[c].key
                           /\ new.box \in {calls[c].box, made[calls[c].key]},
         new.at = "cleanup" => new.startedNow
  PROVE  CleanupInv'
<1>1. c \notin loose => NewBoxIsUnready(calls[c])
  BY DEF CleanupInv, Underway
<1>2. c \notin loose => NewBoxIsUnready(new)
  BY <1>1 DEF NewBoxIsUnready
<1> QED
  BY <1>2, CallKeepsCleanup

LEMMA CallEndKeepsCleanup ==
  ASSUME BoxInv, CleanupInv, NEW c \in Calls, calls[c].at # "idle", CallEnds(c),
         UNCHANGED <<made, lastKey>>, ready' # ready => c \notin loose
  PROVE  CleanupInv'
<1>1. calls' = [calls EXCEPT ![c] = IdleCall] /\ loose' = loose \ {c} /\ IdleCall.at = "idle"
  BY DEF CallEnds, IdleCall
<1> QED
  BY <1>1, CallKeepsCleanup

LEMMA PlaceKeepsCleanup ==
  ASSUME BoxInv, CleanupInv, NEW c \in Calls, NEW place, calls[c].at # "idle", CallAt(c, place),
         UNCHANGED <<made, loose, lastKey, ready>>, place = "cleanup" => calls[c].startedNow
  PROVE  CleanupInv'
<1>1. calls[c] \in CallRecords
  BY CallFacts
<1>2. PICK new : new = [calls[c] EXCEPT !.at = place]
  OBVIOUS
<1>3. /\ new.at = place /\ new.startedNow = calls[c].startedNow /\ new.key = calls[c].key
      /\ new.box = calls[c].box
  BY <1>1, <1>2 DEF CallRecords
<1>4. calls' = [calls EXCEPT ![c] = new]
  BY <1>2 DEF CallAt
<1> QED
  BY <1>3, <1>4, SameKeyKeepsCleanup

LEMMA FailureKeepsCleanup ==
  ASSUME BoxInv, CleanupInv, NEW c \in Calls, calls[c].at # "idle", CallFails(c),
         UNCHANGED <<made, lastKey, ready>>
  PROVE  CleanupInv'
<1>1. CASE calls[c].startedNow /\ CallAt(c, "cleanup") /\ UNCHANGED loose
  BY <1>1, PlaceKeepsCleanup
<1>2. CASE CallEnds(c)
  BY <1>2, CallEndKeepsCleanup
<1> QED
  BY <1>1, <1>2 DEF CallFails

(* A request that is begun has a new key, which made nothing, or is an old *)
(* one's resumption.                                                       *)
LEMMA CreateBeginsKeepsCleanup ==
  ASSUME BoxInv, CleanupInv, NEW c \in Calls, NEW request, NEW body, NEW known,
         calls[c].at # "idle", CreateBegins(c, request, body, known), known # "cleanup",
         UNCHANGED <<made, ready>>
  PROVE  CleanupInv'
<1>1. /\ lastKey \in 0 .. MaxKeys /\ MaxKeys \in Nat /\ ready \subseteq 1 .. boxCount /\ boxCount \in Nat
  BY BoxAssumption DEF BoxInv, BoxTypeOK
<1>2. CASE CallEnds(c) /\ UNCHANGED lastKey
  BY <1>2, CallEndKeepsCleanup
<1>3. ASSUME NEW new, calls' = [calls EXCEPT ![c] = new], ~new.startedNow, new.at # "cleanup",
             UNCHANGED <<lastKey, loose>>
      PROVE  CleanupInv'
  <2>1. NewBoxIsUnready(new)
    BY <1>3 DEF NewBoxIsUnready
  <2> QED
    BY <1>1, <1>3, <2>1, CallKeepsCleanup
<1>4. ASSUME NEW new, calls' = [calls EXCEPT ![c] = new], new.at = "post", new.box = 0,
             new.key = lastKey + 1, lastKey < MaxKeys, lastKey' = lastKey + 1, UNCHANGED loose
      PROVE  CleanupInv'
  <2>1. made[lastKey + 1] = 0
    BY <1>1, <1>4 DEF CleanupInv
  <2>2. NewBoxIsUnready(new)
    BY <1>1, <1>4, <2>1 DEF NewBoxIsUnready
  <2> QED
    BY <1>1, <1>4, <2>2, CallKeepsCleanup
<1>5. CASE request.box # 0 /\ UNCHANGED <<lastKey, loose>>
           /\ calls' = [calls EXCEPT ![c] = [IdleCall EXCEPT !.at = known, !.body = body,
                                               !.key = request.key, !.box = request.box,
                                               !.startedNow = Resumed]]
  <2>1. PICK new : new = [IdleCall EXCEPT !.at = known, !.body = body, !.key = request.key,
                                          !.box = request.box, !.startedNow = Resumed]
    OBVIOUS
  <2>2. ~new.startedNow /\ new.at # "cleanup"
    BY <2>1 DEF IdleCall, Resumed
  <2> QED
    BY <1>3, <1>5, <2>1, <2>2
<1>6. CASE UNCHANGED <<lastKey, loose>>
           /\ calls' = [calls EXCEPT ![c] = [IdleCall EXCEPT !.at = "post", !.body = body,
                                               !.key = request.key, !.startedNow = Resumed]]
  <2>1. PICK new : new = [IdleCall EXCEPT !.at = "post", !.body = body, !.key = request.key,
                                          !.startedNow = Resumed]
    OBVIOUS
  <2>2. ~new.startedNow /\ new.at # "cleanup"
    BY <2>1 DEF IdleCall, Resumed
  <2> QED
    BY <1>3, <1>6, <2>1, <2>2
<1>7. CASE lastKey < MaxKeys /\ lastKey' = lastKey + 1 /\ UNCHANGED loose
           /\ calls' = [calls EXCEPT ![c] = [IdleCall EXCEPT !.at = "post", !.body = body,
                                               !.key = lastKey + 1, !.startedNow = TRUE]]
  <2>1. PICK new : new = [IdleCall EXCEPT !.at = "post", !.body = body, !.key = lastKey + 1,
                                          !.startedNow = TRUE]
    OBVIOUS
  <2>2. new.at = "post" /\ new.box = 0 /\ new.key = lastKey + 1
    BY <2>1 DEF IdleCall
  <2> QED
    BY <1>4, <1>7, <2>1, <2>2
<1> QED
  BY <1>2, <1>5, <1>6, <1>7 DEF CreateBegins

LEMMA CallStepKeepsCleanup ==
  ASSUME BoxInv, CleanupInv, NEW c \in Calls, CallSteps(c)
  PROVE  CleanupInv'
<1>1. calls[c] \in CallRecords /\ lastKey \in Nat
  BY CallFacts DEF BoxInv, BoxTypeOK
<1>2. CASE Provision(c)
  <2>1. PICK new : new = [calls[c] EXCEPT !.at = "find"]
    OBVIOUS
  <2>2. /\ calls'[c] = new /\ \A d \in Calls \ {c} : calls'[d] = calls[d]
        /\ new.at = "find" /\ ~new.startedNow
    BY <1>1, <1>2, <2>1, CallFacts DEF Provision, CallAt, Knows, IdleCall, CallRecords, BoxInv, BoxTypeOK
  <2>3. Underway' \ loose' \subseteq {c}
    BY <1>2, <2>2 DEF Provision, ComputerIdle, Underway
  <2>4. NewBoxIsUnready(calls[c])'
    BY <2>2 DEF NewBoxIsUnready
  <2> QED
    BY <1>2, <2>3, <2>4 DEF CleanupInv, Provision, requestVars
<1>3. CASE FindBox(c)
  <2>1. calls[c].at = "find" /\ UNCHANGED <<made, ready>> /\ ~calls[c].startedNow
    BY <1>3, CallFacts DEF FindBox, requestVars, Knows
  <2>2. ASSUME NEW box, calls' = [calls EXCEPT ![c].at = "setup", ![c].box = box],
               UNCHANGED <<lastKey, loose>>
        PROVE  CleanupInv'
    <3>1. PICK new : new = [calls[c] EXCEPT !.at = "setup", !.box = box]
      OBVIOUS
    <3>2. new.at = "setup" /\ ~new.startedNow
      BY <1>1, <2>1, <3>1 DEF CallRecords
    <3>3. calls' = [calls EXCEPT ![c] = new]
      BY <2>2, <3>1
    <3>4. UNCHANGED <<made, loose, lastKey, ready>> /\ calls[c].at # "idle"
      BY <2>1, <2>2
    <3>5. new.startedNow => calls[c].startedNow /\ new.key = calls[c].key
                            /\ new.box \in {calls[c].box, made[calls[c].key]}
      BY <3>2
    <3>6. new.at # "cleanup"
      BY <3>2
    <3> QED
      BY <3>3, <3>4, <3>5, <3>6, SameKeyKeepsCleanup
  <2>3. CASE CreateBegins(c, journal, "default", "inspect")
    BY <2>1, <2>3, CreateBeginsKeepsCleanup
  <2>4. CASE CallEnds(c) /\ UNCHANGED lastKey
    BY <2>1, <2>4, CallEndKeepsCleanup
  <2> QED
    BY <1>3, <2>2, <2>3, <2>4 DEF FindBox
<1>4. CASE Inspect(c)
  <2>1. calls[c].at = "inspect" /\ UNCHANGED <<made, ready>>
    BY <1>4 DEF Inspect, requestVars
  <2>2. CASE CallAt(c, "rename") /\ UNCHANGED <<lastKey, loose>>
    BY <2>1, <2>2, PlaceKeepsCleanup
  <2>3. CASE CreateBegins(c, Discarded(calls[c].key), calls[c].body, "post")
    BY <2>1, <2>3, CreateBeginsKeepsCleanup
  <2>4. CASE CallEnds(c) /\ UNCHANGED lastKey
    BY <2>1, <2>4, CallEndKeepsCleanup
  <2> QED
    BY <1>4, <2>2, <2>3, <2>4 DEF Inspect
<1>5. CASE Post(c)
  BY <1>5, PlaceKeepsCleanup DEF Post
<1>6. CASE BoxMade(c)
  <2>1. calls[c].at = "answer" /\ UNCHANGED <<made, ready, lastKey>>
    BY <1>6 DEF BoxMade, requestVars
  <2>2. CASE calls' = [calls EXCEPT ![c].at = "rename", ![c].box = made[calls[c].key]] /\ UNCHANGED loose
    <3>1. PICK new : new = [calls[c] EXCEPT !.at = "rename", !.box = made[calls[c].key]]
      OBVIOUS
    <3>2. /\ new.at = "rename" /\ new.startedNow = calls[c].startedNow /\ new.key = calls[c].key
          /\ new.box \in {calls[c].box, made[calls[c].key]}
      BY <1>1, <3>1 DEF CallRecords
    <3>3. calls' = [calls EXCEPT ![c] = new]
      BY <2>2, <3>1
    <3>4. UNCHANGED <<made, loose, lastKey, ready>> /\ calls[c].at # "idle"
      BY <2>1, <2>2
    <3>5. new.startedNow => calls[c].startedNow /\ new.key = calls[c].key
                            /\ new.box \in {calls[c].box, made[calls[c].key]}
      BY <3>2
    <3>6. new.at # "cleanup"
      BY <3>2
    <3> QED
      BY <3>3, <3>4, <3>5, <3>6, SameKeyKeepsCleanup
  <2>3. CASE CallEnds(c)
    BY <2>1, <2>3, CallEndKeepsCleanup
  <2> QED
    BY <1>6, <2>2, <2>3 DEF BoxMade
<1>7. CASE Unclear(c)
  <2>1. calls[c].at = "answer" /\ UNCHANGED <<made, ready, lastKey>>
    BY <1>7 DEF Unclear, requestVars
  <2>2. CASE calls' = [calls EXCEPT ![c].at = "post", ![c].retried = TRUE] /\ UNCHANGED loose
    <3>1. PICK new : new = [calls[c] EXCEPT !.at = "post", !.retried = TRUE]
      OBVIOUS
    <3>2. /\ new.at = "post" /\ new.startedNow = calls[c].startedNow /\ new.key = calls[c].key
          /\ new.box = calls[c].box
      BY <1>1, <3>1 DEF CallRecords
    <3>3. calls' = [calls EXCEPT ![c] = new]
      BY <2>2, <3>1
    <3>4. UNCHANGED <<made, loose, lastKey, ready>> /\ calls[c].at # "idle"
      BY <2>1, <2>2
    <3>5. new.startedNow => calls[c].startedNow /\ new.key = calls[c].key
                            /\ new.box \in {calls[c].box, made[calls[c].key]}
      BY <3>2
    <3>6. new.at # "cleanup"
      BY <3>2
    <3> QED
      BY <3>3, <3>4, <3>5, <3>6, SameKeyKeepsCleanup
  <2>3. CASE CallAt(c, "post") /\ UNCHANGED loose
    BY <2>1, <2>3, PlaceKeepsCleanup
  <2>4. CASE CallEnds(c)
    BY <2>1, <2>4, CallEndKeepsCleanup
  <2> QED
    BY <1>7, <2>2, <2>3, <2>4 DEF Unclear
<1>8. CASE BoxRejected(c)
  <2>1. calls[c].at = "answer" /\ UNCHANGED <<made, ready>>
    BY <1>8 DEF BoxRejected
  <2>2. CASE CallEnds(c) /\ UNCHANGED lastKey
    BY <2>1, <2>2, CallEndKeepsCleanup
  <2>3. CASE CreateBegins(c, Discarded(calls[c].key), "trial", "inspect")
    BY <2>1, <2>3, CreateBeginsKeepsCleanup
  <2> QED
    BY <1>8, <2>2, <2>3 DEF BoxRejected
<1>9. CASE Rename(c)
  <2>1. calls[c].at = "rename" /\ UNCHANGED <<made, ready, lastKey>>
    BY <1>9 DEF Rename, requestVars
  <2>2. CASE CallAt(c, "setup") /\ UNCHANGED loose
    BY <2>1, <2>2, PlaceKeepsCleanup
  <2>3. CASE CallFails(c)
    BY <2>1, <2>3, FailureKeepsCleanup
  <2> QED
    BY <1>9, <2>2, <2>3 DEF Rename
<1>10. CASE BoxSetup(c)
  <2>1. calls[c].at = "setup" /\ UNCHANGED <<made, lastKey>>
    BY <1>10 DEF BoxSetup, requestVars
  <2>2. CASE CallEnds(c) /\ (ready' # ready => c \notin loose)
    BY <2>1, <2>2, CallEndKeepsCleanup
  <2>3. CASE CallFails(c) /\ UNCHANGED ready
    BY <2>1, <2>3, FailureKeepsCleanup
  <2> QED
    BY <1>10, <2>2, <2>3 DEF BoxSetup
<1>11. CASE Cleanup(c)
  <2>1. calls[c].at = "cleanup" /\ UNCHANGED <<made, ready, lastKey>>
    BY <1>11 DEF Cleanup, requestVars
  <2>2. CASE CallAt(c, "confirm") /\ UNCHANGED loose
    BY <2>1, <2>2, PlaceKeepsCleanup
  <2>3. CASE CallEnds(c)
    BY <2>1, <2>3, CallEndKeepsCleanup
  <2> QED
    BY <1>11, <2>2, <2>3 DEF Cleanup
<1>12. CASE ConfirmRemoval(c)
  BY <1>12, CallEndKeepsCleanup DEF ConfirmRemoval, requestVars
<1> QED
  BY <1>2, <1>3, <1>4, <1>5, <1>6, <1>7, <1>8, <1>9, <1>10, <1>11, <1>12 DEF CallSteps

LEMMA CleanupInvKept ==
  ASSUME BoxInv, CleanupInv, [BoxNext]_boxVars
  PROVE  CleanupInv'
<1>1. ASSUME NEW c \in Calls, CallSteps(c) PROVE CleanupInv'
  BY <1>1, CallStepKeepsCleanup
<1>2. CASE UNCHANGED <<calls, loose, made, ready, lastKey>>
  BY <1>2 DEF CleanupInv, Underway, NewBoxIsUnready
<1>3. CASE SettingsDeletes \/ SettingsConfirms \/ DeleteBot \/ RemovedByHand \/ UNCHANGED boxVars
  BY <1>2, <1>3 DEF SettingsDeletes, SettingsConfirms, DeleteBot, RemovedByHand, boxVars, callVars,
                    requestVars
<1>4. ASSUME NEW box \in 1 .. boxCount, ProviderDeletes(box) PROVE CleanupInv'
  BY <1>2, <1>4 DEF ProviderDeletes, callVars, requestVars
<1>5. ASSUME NEW k \in 1 .. MaxKeys, ProviderCreates(k) PROVE CleanupInv'
  <2>1. /\ k \in 1 .. lastKey /\ lastKey \in 0 .. MaxKeys /\ MaxKeys \in Nat
        /\ made \in [1 .. MaxKeys -> Boxes] /\ boxCount \in Nat /\ ready \subseteq 1 .. boxCount
    BY <1>5, BoxAssumption DEF ProviderCreates, BoxInv, BoxTypeOK
  <2>2. /\ UNCHANGED <<calls, loose, ready, lastKey>>
        /\ made' = [made EXCEPT ![k] = boxCount + 1]
    BY <1>5 DEF ProviderCreates, callVars
  <2>3. boxCount + 1 \notin ready
    BY <2>1
  <2>4. \A c \in Calls : calls[c].startedNow => calls[c].key \in 1 .. MaxKeys
    <3> SUFFICES ASSUME NEW c \in Calls, calls[c].startedNow PROVE calls[c].key \in 1 .. MaxKeys
      OBVIOUS
    <3>1. calls[c].key # 0 /\ calls[c].key \in 0 .. lastKey
      BY CallFacts DEF Knows, CallRecords, Keys
    <3> QED
      BY <2>1, <3>1
  <2>5. \A j \in 1 .. MaxKeys : made'[j] = made[j] \/ made'[j] \notin ready
    BY <2>1, <2>2, <2>3
  <2>6. \A c \in Underway \ loose : NewBoxIsUnready(calls[c])'
    BY <2>2, <2>4, <2>5 DEF CleanupInv, NewBoxIsUnready, Underway
  <2>7. \A j \in (lastKey + 1) .. MaxKeys : made'[j] = 0
    BY <2>1, <2>2 DEF CleanupInv
  <2> QED
    BY <2>2, <2>6, <2>7 DEF CleanupInv, Underway
<1>6. CASE DayPasses
  <2>1. /\ UNCHANGED <<calls, loose, ready, lastKey>>
        /\ made' = [made EXCEPT ![journal.key] = 0]
    BY <1>6 DEF DayPasses, callVars
  <2>2. made \in [1 .. MaxKeys -> Boxes] /\ ready \subseteq 1 .. boxCount /\ lastKey \in 0 .. MaxKeys
    BY DEF BoxInv, BoxTypeOK
  <2>3. \A k \in 1 .. MaxKeys : made'[k] \in {made[k], 0}
    BY <2>1, <2>2
  <2>4. \A c \in Calls : calls[c].startedNow => calls[c].key \in 1 .. MaxKeys
    <3> SUFFICES ASSUME NEW c \in Calls, calls[c].startedNow PROVE calls[c].key \in 1 .. MaxKeys
      OBVIOUS
    <3>1. calls[c].key # 0 /\ calls[c].key \in 0 .. lastKey /\ MaxKeys \in Nat
      BY CallFacts, BoxAssumption DEF Knows, CallRecords, Keys
    <3> QED
      BY <2>2, <3>1
  <2>5. 0 \notin ready
    BY <2>2 DEF BoxInv, BoxTypeOK
  <2>6. \A c \in Underway \ loose : NewBoxIsUnready(calls[c])'
    BY <2>1, <2>3, <2>4, <2>5 DEF CleanupInv, NewBoxIsUnready, Underway
  <2>7. \A k \in (lastKey + 1) .. MaxKeys : made'[k] = 0
    BY <2>2, <2>3, BoxAssumption DEF CleanupInv
  <2> QED
    BY <2>1, <2>6, <2>7 DEF CleanupInv, Underway
<1>7. CASE ServerCrashes
  BY <1>7 DEF ServerCrashes, requestVars, CleanupInv, Underway, IdleCall
<1>8. CASE FleetRestarts
  BY <1>8 DEF FleetRestarts, requestVars, CleanupInv, Underway
<1> QED
  BY <1>1, <1>3, <1>4, <1>5, <1>6, <1>7, <1>8 DEF BoxNext

(* The cleanup of a failed attempt (provisionBox's catch) never takes away *)
(* a box that was handed to the bot before.                                *)
THEOREM CleanupsSpareReadyBoxes == BoxSpec => CleanupSparesReadyBoxes
<1>1. BoxInit => CleanupInv
  BY BoxAssumption DEF BoxInit, CleanupInv, Underway, IdleCall
<1>2. BoxInv /\ CleanupInv /\ [BoxNext]_boxVars => CleanupInv'
  BY CleanupInvKept
<1>3. CleanupInv =>
        [\A c \in Calls \ loose :
           calls[c].at = "cleanup" /\ calls'[c] # calls[c] => calls[c].box \notin ready]_boxVars
  BY DEF CleanupInv, NewBoxIsUnready, Underway
<1> QED
  BY <1>1, <1>2, <1>3, BoxInvariant, PTL DEF BoxSpec, CleanupSparesReadyBoxes
=============================================================================
