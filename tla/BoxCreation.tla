----------------------------- MODULE BoxCreation -----------------------------
(***************************************************************************)
(* How a bot gets its cloud computer (server/box.ts) and the journal that  *)
(* keeps a lost answer from buying a second one                            *)
(* (server/box-create-idempotency.ts).  The request's key is written       *)
(* before the request leaves; the box is written down when the provider    *)
(* answers, and resolved once it carries the bot's name.  An attempt may   *)
(* end anywhere: the provider refuses, its answer is lost, it acts late,   *)
(* or the process dies.  One bot is modelled, the journal's records of     *)
(* different bots having nothing to do with each other.                    *)
(***************************************************************************)
EXTENDS Naturals, FiniteSets

CONSTANTS
  Calls,           \* provisionBox calls that may be under way
  MaxKeys,         \* bound: keys ever written
  MaxFaults        \* bound: crashes, fleet restarts, boxes removed by hand

ASSUME BoxAssumption == MaxKeys \in Nat /\ MaxFaults \in Nat

VARIABLES
  journal,    \* the bot's request in box-create-requests.json
  lastKey,    \* how many keys were ever written
  calls,      \* the provisionBox calls
  loose,      \* calls whose turn was settled by a fleet restart
  settings,   \* the deletion that Settings carries out
  botExists,
  inflight,   \* provider: keys whose request it may still act on
  made,       \* provider: the box it made for each key it remembers
  refusedKeys,\* history: keys of requests that were answered with a rejection
  live,       \* provider: boxes that exist
  boxCount,   \* provider: how many boxes were ever made
  named,      \* provider: boxes that carry the bot's name
  deleting,   \* provider: deletions it accepted
  ready,      \* history: boxes that were handed to the bot
  faults

callVars == <<calls, loose>>
requestVars == <<inflight, made, refusedKeys>>
accountVars == <<live, boxCount, named, deleting>>
boxVars == <<journal, lastKey, callVars, settings, botExists, requestVars, accountVars, ready,
             faults>>
------------------------------------------------------------------------------
(* The default lifetime is asked for first, the trial's shorter one when   *)
(* the provider names it in its refusal.                                   *)
Bodies == {"default", "trial"}
NoRequest == [key |-> 0, body |-> "default", box |-> 0, resolved |-> FALSE, expired |-> FALSE]
IdleCall == [at |-> "idle", body |-> "default", key |-> 0, box |-> 0, startedNow |-> FALSE,
             retried |-> FALSE]

BoxInit ==
  /\ journal = NoRequest /\ lastKey = 0
  /\ calls = [c \in Calls |-> IdleCall] /\ loose = {}
  /\ settings = [at |-> "idle", box |-> 0]
  /\ botExists = TRUE
  /\ inflight = {} /\ made = [k \in 1 .. MaxKeys |-> 0] /\ refusedKeys = {}
  /\ live = {} /\ boxCount = 0 /\ named = {} /\ deleting = {}
  /\ ready = {} /\ faults = 0

CallAt(c, place) == calls' = [calls EXCEPT ![c].at = place]
CallEnds(c) == calls' = [calls EXCEPT ![c] = IdleCall] /\ loose' = loose \ {c}
Underway == {c \in Calls : calls[c].at # "idle"}

(* discardBoxCreate, retireDeletedBoxCreate *)
Discarded(key) == IF journal.key = key THEN NoRequest ELSE journal
Retired(box) == IF journal.box = box THEN NoRequest ELSE journal

(* beginBoxCreate, given the journal it reads; known is where a request    *)
(* that already has its box goes on.                                       *)
Resumed_AsNew == TRUE
Resumed == FALSE
CreateBegins(c, request, body, known) ==
  \/ /\ request.box # 0
     /\ journal' = request
     /\ calls' = [calls EXCEPT ![c] = [IdleCall EXCEPT !.at = known, !.body = body,
                                          !.key = request.key, !.box = request.box,
                                          !.startedNow = Resumed]]
     /\ UNCHANGED <<lastKey, loose>>
  \/ /\ request.key # 0 /\ request.box = 0 /\ request.body = body /\ ~request.expired
     /\ journal' = request
     /\ calls' = [calls EXCEPT ![c] = [IdleCall EXCEPT !.at = "post", !.body = body,
                                          !.key = request.key, !.startedNow = Resumed]]
     /\ UNCHANGED <<lastKey, loose>>
  \/ /\ request.key # 0 /\ request.box = 0 /\ (request.body # body \/ request.expired)
     /\ journal' = request
     /\ CallEnds(c)
     /\ UNCHANGED lastKey
  \/ /\ request.key = 0 /\ lastKey < MaxKeys
     /\ lastKey' = lastKey + 1
     /\ journal' = [NoRequest EXCEPT !.key = lastKey + 1, !.body = body]
     /\ calls' = [calls EXCEPT ![c] = [IdleCall EXCEPT !.at = "post", !.body = body,
                                          !.key = lastKey + 1, !.startedNow = TRUE]]
     /\ UNCHANGED loose

(* provisionBox starts when nothing else works on the bot's computer.  A   *)
(* fleet restart settles the bot while the call of its turn goes on.       *)
ComputerIdle == Underway \subseteq loose /\ settings.at = "idle"
Provision(c) ==
  /\ calls[c].at = "idle" /\ botExists /\ ComputerIdle
  /\ CallAt(c, "find")
  /\ UNCHANGED <<journal, lastKey, loose, settings, botExists, requestVars, accountVars, ready, faults>>

(* findBox: by the cached id, or from a listing that may lag behind.       *)
FindBox(c) ==
  /\ calls[c].at = "find"
  /\ \/ /\ \E box \in live \cap named :
             calls' = [calls EXCEPT ![c].at = "setup", ![c].box = box]
        /\ UNCHANGED <<journal, lastKey, loose>>
     \/ CreateBegins(c, journal, "default", "inspect")
     \/ CallEnds(c) /\ UNCHANGED <<journal, lastKey>>
  /\ UNCHANGED <<settings, botExists, requestVars, accountVars, ready, faults>>

(* requestBoxCreate with a box already known: if it is gone, its key is    *)
(* discarded and the request begins anew.                                  *)
Inspect(c) ==
  /\ calls[c].at = "inspect"
  /\ \/ calls[c].box \in live /\ CallAt(c, "rename") /\ UNCHANGED <<journal, lastKey, loose>>
     \/ calls[c].box \notin live /\ CreateBegins(c, Discarded(calls[c].key), calls[c].body, "post")
     \/ CallEnds(c) /\ UNCHANGED <<journal, lastKey>>
  /\ UNCHANGED <<settings, botExists, requestVars, accountVars, ready, faults>>

Post(c) ==
  /\ calls[c].at = "post"
  /\ inflight' = inflight \cup {k \in {calls[c].key} : made[k] = 0}
  /\ CallAt(c, "answer")
  /\ UNCHANGED <<journal, lastKey, loose, settings, botExists, made, refusedKeys, accountVars, ready,
                 faults>>

(* The answer names the box: rememberCreatedBox. *)
OnRecord(c, box) == journal.key = calls[c].key /\ journal.box \in {0, box}
BoxMade(c) ==
  LET box == made[calls[c].key] IN
  /\ calls[c].at = "answer" /\ box # 0
  /\ \/ /\ OnRecord(c, box)
        /\ journal' = [journal EXCEPT !.box = box]
        /\ calls' = [calls EXCEPT ![c].at = "rename", ![c].box = box]
        /\ UNCHANGED loose
     \/ /\ ~OnRecord(c, box)
        /\ CallEnds(c)
        /\ UNCHANGED journal
  /\ UNCHANGED <<lastKey, settings, botExists, requestVars, accountVars, ready, faults>>

(* No answer, a server error or a conflict: the key is kept, and sent once *)
(* more; as long as the provider says it is at work, again.                *)
AfterAmbiguity_Discards(key) == Discarded(key)
AfterAmbiguity(key) == journal
Unclear(c) ==
  /\ calls[c].at = "answer"
  /\ \/ /\ \/ /\ ~calls[c].retried
              /\ calls' = [calls EXCEPT ![c].at = "post", ![c].retried = TRUE]
           \/ calls[c].key \in inflight /\ CallAt(c, "post")
        /\ UNCHANGED <<journal, loose>>
     \/ /\ CallEnds(c)
        /\ journal' = AfterAmbiguity(calls[c].key)
  /\ UNCHANGED <<lastKey, settings, botExists, requestVars, accountVars, ready, faults>>

(* A rejection by the provider (4xx, no conflict): the key is discarded,   *)
(* and a trial account asks again with the trial's lifetime.  The code     *)
(* takes it as proof that the key makes no box; a provider that rejects a  *)
(* repeat (a rate limit, a revoked token) of what it acted on, or still    *)
(* acts on what it rejected, proves it wrong.                              *)
BoxRejected(c) ==
  LET key == calls[c].key IN
  /\ calls[c].at = "answer"
  /\ refusedKeys' = refusedKeys \cup {key}
  /\ inflight' \in {inflight, inflight \ {key}}
  /\ \/ CallEnds(c) /\ journal' = Discarded(key) /\ UNCHANGED lastKey
     \/ calls[c].body = "default" /\ CreateBegins(c, Discarded(key), "trial", "inspect")
  /\ UNCHANGED <<settings, botExists, made, accountVars, ready, faults>>

(* After createBox a failure of a call that created its box removes it.    *)
CallFails(c) ==
  IF calls[c].startedNow THEN CallAt(c, "cleanup") /\ UNCHANGED loose ELSE CallEnds(c)

(* The provider's rename, and resolveBoxCreate. *)
Rename(c) ==
  /\ calls[c].at = "rename"
  /\ \/ /\ calls[c].box \in live
        /\ journal.key = calls[c].key /\ journal.box = calls[c].box
        /\ named' = named \cup {calls[c].box}
        /\ journal' = [journal EXCEPT !.resolved = TRUE]
        /\ CallAt(c, "setup")
        /\ UNCHANGED loose
     \/ /\ named' \in {named, named \cup ({calls[c].box} \cap live)}
        /\ CallFails(c)
        /\ UNCHANGED journal
  /\ UNCHANGED <<lastKey, settings, botExists, requestVars, live, boxCount, deleting, ready,
                 faults>>

(* waitReady, the bootstrap and the desktop link *)
BoxSetup(c) ==
  /\ calls[c].at = "setup"
  /\ \/ /\ calls[c].box \in live /\ CallEnds(c)
        /\ ready' = IF c \in loose THEN ready ELSE ready \cup {calls[c].box}
     \/ CallFails(c) /\ UNCHANGED ready
  /\ UNCHANGED <<journal, lastKey, settings, botExists, requestVars, accountVars, faults>>

(* DELETE is accepted, the box is proved absent, or the call is lost.      *)
Cleanup(c) ==
  /\ calls[c].at = "cleanup"
  /\ \/ /\ calls[c].box \in live
        /\ deleting' = deleting \cup {calls[c].box}
        /\ CallAt(c, "confirm")
        /\ UNCHANGED <<journal, loose>>
     \/ /\ calls[c].box \notin live
        /\ journal' = Discarded(calls[c].key) /\ CallEnds(c)
        /\ UNCHANGED deleting
     \/ /\ deleting' \in {deleting, deleting \cup ({calls[c].box} \cap live)}
        /\ CallEnds(c)
        /\ UNCHANGED journal
  /\ UNCHANGED <<lastKey, settings, botExists, requestVars, live, boxCount, named,
                 ready, faults>>

(* confirmAcceptedBoxDeletion *)
ConfirmRemoval(c) ==
  /\ calls[c].at = "confirm"
  /\ CallEnds(c)
  /\ \/ calls[c].box \notin live /\ journal' = Discarded(calls[c].key)
     \/ UNCHANGED journal
  /\ UNCHANGED <<lastKey, settings, botExists, requestVars, accountVars, ready, faults>>
------------------------------------------------------------------------------
(* Settings deletes the box of the bot (deleteManagedBox), claiming the    *)
(* bot's computer first.                                                   *)
SettingsDeletes ==
  /\ Underway = {} /\ settings.at = "idle"
  /\ \E box \in live \cap named :
       /\ settings' = [at |-> "confirm", box |-> box]
       /\ deleting' = deleting \cup {box}
  /\ UNCHANGED <<journal, lastKey, callVars, botExists, requestVars, live, boxCount,
                 named, ready, faults>>
SettingsConfirms ==
  /\ settings.at = "confirm"
  /\ settings' = [settings EXCEPT !.at = "idle"]
  /\ \/ settings.box \notin live /\ journal' = Retired(settings.box)
     \/ UNCHANGED journal
  /\ UNCHANGED <<lastKey, callVars, botExists, requestVars, accountVars, ready, faults>>

(* DELETE /api/bots/:id: refused while a request is unresolved or the      *)
(* remembered box exists (the listing is asked as well, but may lag).      *)
Unresolved_WithBox == journal.box # 0 /\ ~journal.resolved
Unresolved == journal.key # 0 /\ ~journal.resolved
DeleteBot ==
  /\ botExists /\ Underway = {} /\ settings.at = "idle"
  /\ ~Unresolved
  /\ journal.box \notin live
  /\ journal' = NoRequest
  /\ botExists' = FALSE
  /\ UNCHANGED <<lastKey, callVars, settings, requestVars, accountVars, ready, faults>>
------------------------------------------------------------------------------
(* The provider acts on a key once, sooner or later. *)
ProviderCreates(k) ==
  /\ k \in inflight
  /\ inflight' = inflight \ {k}
  /\ boxCount' = boxCount + 1
  /\ made' = [made EXCEPT ![k] = boxCount']
  /\ live' = live \cup {boxCount'}
  /\ UNCHANGED <<journal, lastKey, callVars, settings, botExists, refusedKeys, named, deleting,
                 ready, faults>>

(* An accepted deletion ends, or is blocked. *)
ProviderDeletes(box) ==
  /\ box \in deleting
  /\ deleting' = deleting \ {box}
  /\ live' \in {live, live \ {box}}
  /\ UNCHANGED <<journal, lastKey, callVars, settings, botExists, requestVars, boxCount,
                 named, ready, faults>>

(* A day passes, not within one attempt: the key is too old to be sent     *)
(* again, and the provider forgets it.                                     *)
DayPasses ==
  /\ journal.key # 0 /\ ~journal.expired
  /\ \A c \in Underway : calls[c].at \notin {"find", "inspect", "post", "answer"}
  /\ journal' = [journal EXCEPT !.expired = TRUE]
  /\ inflight' = inflight \ {journal.key}
  /\ made' = [made EXCEPT ![journal.key] = 0]
  /\ UNCHANGED <<lastKey, callVars, settings, botExists, refusedKeys, accountVars, ready,
                 faults>>

BoxFault == faults < MaxFaults /\ faults' = faults + 1

ServerCrashes ==
  /\ BoxFault
  /\ calls' = [c \in Calls |-> IdleCall] /\ loose' = {}
  /\ settings' = [settings EXCEPT !.at = "idle"]
  /\ UNCHANGED <<journal, lastKey, botExists, requestVars, accountVars, ready>>

FleetRestarts ==
  /\ BoxFault /\ Underway # {}
  /\ loose' = Underway
  /\ UNCHANGED <<journal, lastKey, calls, settings, botExists, requestVars, accountVars, ready>>

RemovedByHand ==
  /\ BoxFault
  /\ \E box \in live : live' = live \ {box} /\ deleting' = deleting \ {box}
  /\ UNCHANGED <<journal, lastKey, callVars, settings, botExists, requestVars, boxCount, named,
                 ready>>

CallSteps(c) ==
  \/ Provision(c) \/ FindBox(c) \/ Inspect(c) \/ Post(c)
  \/ BoxMade(c) \/ Unclear(c) \/ BoxRejected(c)
  \/ Rename(c) \/ BoxSetup(c) \/ Cleanup(c) \/ ConfirmRemoval(c)

BoxNext ==
  \/ \E c \in Calls : CallSteps(c)
  \/ SettingsDeletes \/ SettingsConfirms \/ DeleteBot
  \/ \E k \in 1 .. MaxKeys : ProviderCreates(k)
  \/ \E box \in 1 .. boxCount : ProviderDeletes(box)
  \/ DayPasses \/ ServerCrashes \/ FleetRestarts \/ RemovedByHand

BoxSpec == BoxInit /\ [][BoxNext]_boxVars
------------------------------------------------------------------------------
CallPlaces == {"idle", "find", "inspect", "post", "answer", "rename", "setup", "cleanup",
               "confirm"}
Keys == 0 .. lastKey
Boxes == 0 .. boxCount
CallRecords == [at : CallPlaces, body : Bodies, key : Keys, box : Boxes, startedNow : BOOLEAN,
                retried : BOOLEAN]
BoxRequests == [key : Keys, body : Bodies, box : Boxes, resolved : BOOLEAN, expired : BOOLEAN]

BoxTypeOK ==
  /\ lastKey \in 0 .. MaxKeys /\ boxCount \in Nat /\ faults \in Nat
  /\ journal \in BoxRequests
  /\ calls \in [Calls -> CallRecords]
  /\ loose \subseteq Calls
  /\ settings \in [at : {"idle", "confirm"}, box : Boxes]
  /\ botExists \in BOOLEAN
  /\ inflight \subseteq 1 .. lastKey /\ refusedKeys \subseteq 1 .. lastKey
  /\ made \in [1 .. MaxKeys -> Boxes]
  /\ live \subseteq 1 .. boxCount /\ named \subseteq 1 .. boxCount
  /\ deleting \subseteq 1 .. boxCount /\ ready \subseteq 1 .. boxCount

(* What a rejected request made all the same: the code has let go of its   *)
(* key.                                                                    *)
Astray == {made[k] : k \in refusedKeys}

(* Whatever is lost, repeated, delayed or cut short, a bot never has two   *)
(* (billed) boxes, not counting what the provider made of a request that   *)
(* it rejected, at the first sending or at a repeat.                       *)
OneBoxPerBot == Cardinality(live \ Astray) <= 1

(* A box that exists, and a request the provider may still turn into one,  *)
(* is on record for a bot that exists, unless the request was rejected:    *)
(* nothing billed is left without an owner, not by a crash, a failed       *)
(* cleanup or the deletion of the bot.                                     *)
NoBoxIsForgotten ==
  /\ \A box \in live \ Astray :
       /\ botExists /\ journal.key # 0
       /\ journal.box = box \/ made[journal.key] = box \/ journal.expired
  /\ \A k \in inflight \ refusedKeys : botExists /\ journal.key = k

(* The cleanup of a failed attempt never takes away a box that was handed  *)
(* to the bot before, except by a call that outlived a fleet restart.      *)
CleanupSparesReadyBoxes ==
  [][\A c \in Calls \ loose :
       calls[c].at = "cleanup" /\ calls'[c] # calls[c] => calls[c].box \notin ready]_boxVars
=============================================================================
