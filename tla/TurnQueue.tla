---------------------------- MODULE TurnQueue ----------------------------
(***************************************************************************)
(* What a bot promises the people who write to it, without claims,         *)
(* providers, quarantines or timers: one turn holds the bot at a time, a   *)
(* message sent meanwhile waits in the lane of its task, and whatever      *)
(* frees the bot empties the lanes.  DirectTurn implements it.             *)
(***************************************************************************)
EXTENDS Naturals, Sequences

CONSTANTS Lanes, Turns, Words, None

VARIABLES
  holder,    \* the turn that holds the bot, or None
  started,   \* turns begun so far
  lane,      \* words that wait, in the order they came
  place,     \* where each word is
  by         \* the turn that has, or was offered, each word

vars == <<holder, started, lane, place, by>>

Places == {"new", "offered", "held", "taken", "refused", "returned"}
Waiting == {w \in Words : place[w] = "held"}
InLane(l) == {lane[l][i] : i \in DOMAIN lane[l]}

Init ==
  /\ holder = None /\ started = {}
  /\ lane = [l \in Lanes |-> <<>>]
  /\ place = [w \in Words |-> "new"]
  /\ by = [w \in Words |-> None]

(* A turn nobody has seen before takes the bot, and the words ws with it. *)
Takes(t, ws) ==
  /\ t \in Turns \ started
  /\ started' = started \cup {t}
  /\ holder' = t
  /\ place' = [w \in Words |-> IF w \in ws THEN "taken" ELSE place[w]]
  /\ by' = [w \in Words |-> IF w \in ws THEN t ELSE by[w]]

Submit(w, l) ==
  /\ place[w] = "new"
  /\ \/ /\ holder = None
        /\ \E t \in Turns : Takes(t, {w})
        /\ UNCHANGED lane
     \/ /\ holder = None
        /\ place' = [place EXCEPT ![w] = "returned"]
        /\ UNCHANGED <<holder, started, lane, by>>
     \/ /\ holder # None
        /\ place' = [place EXCEPT ![w] = "held"]
        /\ lane' = [lane EXCEPT ![l] = Append(@, w)]
        /\ UNCHANGED <<holder, started, by>>
     \/ /\ holder # None
        /\ place' = [place EXCEPT ![w] = "offered"]
        /\ \E t \in Turns \cup {None} : by' = [by EXCEPT ![w] = t]
        /\ UNCHANGED <<holder, started, lane>>

(* The answer to an offer: the words belong to the turn that took them, or *)
(* they wait, or they start a turn, or the sender gets them back.          *)
OfferEnds(w, l) ==
  /\ place[w] = "offered"
  /\ \/ /\ place' = [place EXCEPT ![w] = "returned"]
        /\ UNCHANGED <<holder, started, lane, by>>
     \/ /\ holder # None /\ by[w] # None
        /\ place' = [place EXCEPT ![w] = "taken"]
        /\ UNCHANGED <<holder, started, lane, by>>
     \/ /\ holder # None /\ by[w] = None
        /\ place' = [place EXCEPT ![w] = "held"]
        /\ lane' = [lane EXCEPT ![l] = Append(@, w)]
        /\ UNCHANGED <<holder, started, by>>
     \/ /\ holder = None /\ by[w] = None
        /\ \E t \in Turns : Takes(t, {w})
        /\ UNCHANGED lane

Withdraw(w) ==
  /\ place[w] = "held"
  /\ \E l \in Lanes : \E i \in DOMAIN lane[l] :
       /\ lane[l][i] = w
       /\ lane' = [lane EXCEPT ![l] = SubSeq(@, 1, i - 1) \o SubSeq(@, i + 1, Len(@))]
  /\ place' = [place EXCEPT ![w] = "returned"]
  /\ UNCHANGED <<holder, started, by>>

(* The bot is free: nobody waits, everybody is refused, or the next turn   *)
(* takes one lane whole.  A turn that takes no words starts only when      *)
(* nobody waits.                                                           *)
Release ==
  \/ /\ holder' = None /\ Waiting = {}
     /\ UNCHANGED <<started, lane, place, by>>
  \/ /\ holder' = None
     /\ lane' = [l \in Lanes |-> <<>>]
     /\ place' = [w \in Words |-> IF w \in Waiting THEN "refused" ELSE place[w]]
     /\ UNCHANGED <<started, by>>
  \/ \E l \in Lanes, t \in Turns :
       /\ lane[l] # <<>>
       /\ Takes(t, InLane(l))
       /\ lane' = [lane EXCEPT ![l] = <<>>]
  \/ /\ Waiting = {}
     /\ \E t \in Turns : Takes(t, {})
     /\ UNCHANGED lane

Next ==
  \/ \E w \in Words, l \in Lanes : Submit(w, l) \/ OfferEnds(w, l)
  \/ \E w \in Words : Withdraw(w)
  \/ Release

Spec == Init /\ [][Next]_vars
============================================================================
