------------------------- MODULE DataDirLeaseProofs -------------------------
(***************************************************************************)
(* No two live processes hold the same lease, for any number of processes  *)
(* and any depth of crashed reapers.  The argument: the elections for one  *)
(* dead owner form a list in which everyone but the last is dead, so at    *)
(* most one live process is its reaper; and a reaper that has looked again *)
(* finds the dead owner's record in place until it unlinks it itself.      *)
(***************************************************************************)
EXTENDS DataDirLease, TLAPS

Reaping == {"elect", "reread", "unlink"}

RecordsAreInPlace == \A f \in Files : lease[f] # NoProcess => FileOf(lease[f]) = f

KnownWereBorn ==
  /\ \A f \in Files : lease[f] # NoProcess => at[lease[f]] # "new"
  /\ \A p \in Processes : seen[p] # NoProcess => at[seen[p]] # "new"
  /\ \A p \in Processes : \A i \in 1 .. Len(reapers[p]) : at[reapers[p][i]] # "new"

SeenIsOfTheFile ==
  \A p \in Processes : at[p] \in Reaping \cup {"check"} =>
    seen[p] \in Processes /\ FileOf(seen[p]) = FileOf(p)

ReapedAreDead == \A p \in Processes : at[p] \in Reaping => at[seen[p]] = "dead"

EarlierReapersAreDead ==
  \A p \in Processes : at[p] = "elect" =>
    /\ generation[p] <= Len(reapers[seen[p]])
    /\ \A i \in 1 .. generation[p] : at[reapers[seen[p]][i]] = "dead"

ReaperIsTheLast ==
  \A p \in Processes : at[p] \in {"reread", "unlink"} =>
    /\ Len(reapers[seen[p]]) > 0
    /\ reapers[seen[p]][Len(reapers[seen[p]])] = p
    /\ \A i \in 1 .. Len(reapers[seen[p]]) - 1 : at[reapers[seen[p]][i]] = "dead"

UnlinkedIsSeen == \A p \in Processes : at[p] = "unlink" => lease[FileOf(p)] = seen[p]

LeaseInv ==
  /\ LeaseTypeOK
  /\ LiveHolderOwnsTheFile
  /\ RecordsAreInPlace
  /\ KnownWereBorn
  /\ SeenIsOfTheFile
  /\ ReapedAreDead
  /\ EarlierReapersAreDead
  /\ ReaperIsTheLast
  /\ UnlinkedIsSeen

(* Where nobody is elected, what is known of the elections stays.          *)
LEMMA ElectionsStay ==
  ASSUME LeaseInv, UNCHANGED reapers,
         \A q \in Processes : at[q] = "dead" => at'[q] = "dead",
         \A q \in Processes : at'[q] = "elect" =>
           \/ at[q] = "elect" /\ seen'[q] = seen[q] /\ generation'[q] = generation[q]
           \/ generation'[q] = 0 /\ seen'[q] \in Processes,
         \A q \in Processes : at'[q] \in {"reread", "unlink"} =>
           at[q] \in {"reread", "unlink"} /\ seen'[q] = seen[q]
  PROVE  EarlierReapersAreDead' /\ ReaperIsTheLast'
<1>1. \A q \in Processes : reapers[q] \in Seq(Processes)
  BY DEF LeaseInv, LeaseTypeOK
<1>2. EarlierReapersAreDead'
  <2> SUFFICES ASSUME NEW q \in Processes, at'[q] = "elect"
               PROVE  /\ generation'[q] <= Len(reapers[seen'[q]])
                      /\ \A i \in 1 .. generation'[q] : at'[reapers[seen'[q]][i]] = "dead"
    BY DEF EarlierReapersAreDead
  <2>1. CASE at[q] = "elect" /\ seen'[q] = seen[q] /\ generation'[q] = generation[q]
    <3>1. seen[q] \in Processes /\ generation[q] \in Nat
      BY <2>1 DEF LeaseInv, LeaseTypeOK, SeenIsOfTheFile, Reaping
    <3>2. /\ generation[q] <= Len(reapers[seen[q]])
          /\ \A i \in 1 .. generation[q] : at[reapers[seen[q]][i]] = "dead"
      BY <2>1 DEF LeaseInv, EarlierReapersAreDead
    <3>3. \A i \in 1 .. generation[q] : reapers[seen[q]][i] \in Processes
      BY <1>1, <3>1, <3>2
    <3> QED
      BY <2>1, <3>2, <3>3
  <2>2. CASE generation'[q] = 0 /\ seen'[q] \in Processes
    BY <1>1, <2>2
  <2> QED
    BY <2>1, <2>2
<1>3. ReaperIsTheLast'
  <2> SUFFICES ASSUME NEW q \in Processes, at'[q] \in {"reread", "unlink"}
               PROVE  /\ Len(reapers[seen[q]]) > 0
                      /\ reapers[seen[q]][Len(reapers[seen[q]])] = q
                      /\ \A i \in 1 .. Len(reapers[seen[q]]) - 1 :
                           at'[reapers[seen[q]][i]] = "dead"
    BY DEF ReaperIsTheLast
  <2>1. at[q] \in {"reread", "unlink"}
    OBVIOUS
  <2>2. seen[q] \in Processes
    BY <2>1 DEF LeaseInv, SeenIsOfTheFile, Reaping
  <2>3. /\ Len(reapers[seen[q]]) > 0
        /\ reapers[seen[q]][Len(reapers[seen[q]])] = q
        /\ \A i \in 1 .. Len(reapers[seen[q]]) - 1 : at[reapers[seen[q]][i]] = "dead"
    BY <2>1 DEF LeaseInv, ReaperIsTheLast
  <2>4. \A i \in 1 .. Len(reapers[seen[q]]) - 1 : reapers[seen[q]][i] \in Processes
    BY <1>1, <2>2
  <2> QED
    BY <2>3, <2>4
<1> QED
  BY <1>2, <1>3

(* A process that moves on without touching a file, and without becoming a *)
(* reaper or a holder that it was not, keeps the invariant.                *)
LEMMA MovesKeepTheInvariant ==
  ASSUME LeaseInv, NEW p \in Processes, NEW place \in Places,
         at[p] # "dead", place \notin {"new", "check", "elect", "reread"},
         place \in {"confirm", "holding", "leaving", "dropping"} => lease[FileOf(p)] = p,
         place = "unlink" => at[p] = "reread" /\ lease[FileOf(p)] = seen[p],
         Goes(p, place), Stays
  PROVE  LeaseInv'
<1> USE LeaseAssumption
<1>1. LeaseTypeOK'
  BY DEF LeaseInv, LeaseTypeOK, Goes, Stays
<1>2. LiveHolderOwnsTheFile'
  BY DEF LeaseInv, LeaseTypeOK, LiveHolderOwnsTheFile, Holds, FileOf, Goes, Stays
<1>3. RecordsAreInPlace'
  BY DEF LeaseInv, RecordsAreInPlace, FileOf, Stays
<1>4. KnownWereBorn'
  <2>1. \A f \in Files : lease'[f] # NoProcess => at'[lease'[f]] # "new"
    BY DEF LeaseInv, LeaseTypeOK, KnownWereBorn, Goes, Stays
  <2>2. \A q \in Processes : seen'[q] # NoProcess => at'[seen'[q]] # "new"
    BY DEF LeaseInv, LeaseTypeOK, KnownWereBorn, Goes, Stays
  <2>3. \A q \in Processes : \A i \in 1 .. Len(reapers'[q]) : at'[reapers'[q][i]] # "new"
    <3> SUFFICES ASSUME NEW q \in Processes, NEW i \in 1 .. Len(reapers'[q])
                 PROVE  at'[reapers'[q][i]] # "new"
      OBVIOUS
    <3>1. reapers'[q][i] \in Processes /\ at[reapers'[q][i]] # "new"
      BY DEF LeaseInv, LeaseTypeOK, KnownWereBorn, Goes, Stays
    <3> QED
      BY <3>1 DEF LeaseInv, LeaseTypeOK, Goes, Stays
  <2> QED
    BY <2>1, <2>2, <2>3 DEF KnownWereBorn
<1>5. SeenIsOfTheFile'
  BY DEF LeaseInv, LeaseTypeOK, SeenIsOfTheFile, Reaping, FileOf, Goes, Stays
<1>6. ReapedAreDead'
  BY DEF LeaseInv, LeaseTypeOK, ReapedAreDead, SeenIsOfTheFile, Reaping, Goes, Stays
<1>7. EarlierReapersAreDead' /\ ReaperIsTheLast'
  <2>1. /\ \A q \in Processes : at[q] = "dead" => at'[q] = "dead"
        /\ \A q \in Processes : at'[q] = "elect" => at[q] = "elect" /\ seen'[q] = seen[q]
             /\ generation'[q] = generation[q]
        /\ \A q \in Processes : at'[q] \in {"reread", "unlink"} =>
             at[q] \in {"reread", "unlink"} /\ seen'[q] = seen[q]
    BY DEF LeaseInv, LeaseTypeOK, Goes, Stays
  <2> QED
    BY <2>1, ElectionsStay DEF Stays
<1>8. UnlinkedIsSeen'
  BY DEF LeaseInv, LeaseTypeOK, UnlinkedIsSeen, FileOf, Goes, Stays
<1> QED
  BY <1>1, <1>2, <1>3, <1>4, <1>5, <1>6, <1>7, <1>8 DEF LeaseInv

(* link(2) succeeds: nobody held the file, and nobody is about to unlink it. *)
LEMMA TakingKeepsTheInvariant ==
  ASSUME LeaseInv, NEW p \in Processes, at[p] = "link", lease[FileOf(p)] = NoProcess,
         NEW place \in {"holding", "confirm"}, Goes(p, place),
         lease' = [lease EXCEPT ![FileOf(p)] = p], UNCHANGED <<reapers, seen, generation>>
  PROVE  LeaseInv'
<1> USE LeaseAssumption
<1>1. LeaseTypeOK'
  BY DEF LeaseInv, LeaseTypeOK, FileOf, Goes, Files, Places
<1>2. LiveHolderOwnsTheFile'
  BY DEF LeaseInv, LeaseTypeOK, LiveHolderOwnsTheFile, Holds, FileOf, Goes, Files
<1>3. RecordsAreInPlace'
  BY DEF LeaseInv, LeaseTypeOK, RecordsAreInPlace, FileOf, Goes, Files
<1>4. KnownWereBorn'
  BY DEF LeaseInv, LeaseTypeOK, KnownWereBorn, Goes, Files
<1>5. SeenIsOfTheFile'
  BY DEF LeaseInv, LeaseTypeOK, SeenIsOfTheFile, Reaping, FileOf, Goes, Files
<1>6. ReapedAreDead'
  BY DEF LeaseInv, LeaseTypeOK, ReapedAreDead, SeenIsOfTheFile, Reaping, Goes, Files
<1>7. EarlierReapersAreDead' /\ ReaperIsTheLast'
  <2>1. /\ \A q \in Processes : at[q] = "dead" => at'[q] = "dead"
        /\ \A q \in Processes : at'[q] = "elect" => at[q] = "elect" /\ seen'[q] = seen[q]
             /\ generation'[q] = generation[q]
        /\ \A q \in Processes : at'[q] \in {"reread", "unlink"} =>
             at[q] \in {"reread", "unlink"} /\ seen'[q] = seen[q]
    BY DEF LeaseInv, LeaseTypeOK, Goes, Files
  <2> QED
    BY <2>1, ElectionsStay
<1>8. UnlinkedIsSeen'
  BY DEF LeaseInv, LeaseTypeOK, UnlinkedIsSeen, SeenIsOfTheFile, Reaping, FileOf, Goes, Files
<1> QED
  BY <1>1, <1>2, <1>3, <1>4, <1>5, <1>6, <1>7, <1>8 DEF LeaseInv

(* A record is in the way. *)
LEMMA ReadingKeepsTheInvariant ==
  ASSUME LeaseInv, NEW p \in Processes, at[p] = "read", lease[FileOf(p)] # NoProcess,
         seen' = [seen EXCEPT ![p] = lease[FileOf(p)]], Goes(p, "check"),
         UNCHANGED <<lease, reapers, generation>>
  PROVE  LeaseInv'
<1> USE LeaseAssumption
<1>1. LeaseTypeOK'
  BY DEF LeaseInv, LeaseTypeOK, FileOf, Goes, Files, Places
<1>2. LiveHolderOwnsTheFile'
  BY DEF LeaseInv, LeaseTypeOK, LiveHolderOwnsTheFile, Holds, FileOf, Goes, Files, Places
<1>3. RecordsAreInPlace'
  BY DEF LeaseInv, LeaseTypeOK, RecordsAreInPlace, FileOf, Goes, Files, Places
<1>4. KnownWereBorn'
  <2>1. \A f \in Files : lease'[f] # NoProcess => at'[lease'[f]] # "new"
    BY DEF LeaseInv, LeaseTypeOK, KnownWereBorn, FileOf, Files, Goes
  <2>2. \A q \in Processes : seen'[q] # NoProcess => at'[seen'[q]] # "new"
    BY DEF LeaseInv, LeaseTypeOK, KnownWereBorn, FileOf, Files, Goes
  <2>3. \A q \in Processes : \A i \in 1 .. Len(reapers'[q]) : at'[reapers'[q][i]] # "new"
    <3> SUFFICES ASSUME NEW q \in Processes, NEW i \in 1 .. Len(reapers'[q])
                 PROVE  at'[reapers'[q][i]] # "new"
      OBVIOUS
    <3>1. reapers'[q][i] \in Processes /\ at[reapers'[q][i]] # "new"
      BY DEF LeaseInv, LeaseTypeOK, KnownWereBorn, Goes
    <3> QED
      BY <3>1 DEF LeaseInv, LeaseTypeOK, Goes
  <2> QED
    BY <2>1, <2>2, <2>3 DEF KnownWereBorn
<1>5. SeenIsOfTheFile'
  BY DEF LeaseInv, LeaseTypeOK, RecordsAreInPlace, SeenIsOfTheFile, Reaping, FileOf, Goes, Files
<1>6. ReapedAreDead'
  BY DEF LeaseInv, LeaseTypeOK, ReapedAreDead, SeenIsOfTheFile, Reaping, Goes, Files, Places
<1>7. EarlierReapersAreDead' /\ ReaperIsTheLast'
  <2>1. /\ \A q \in Processes : at[q] = "dead" => at'[q] = "dead"
        /\ \A q \in Processes : at'[q] = "elect" => at[q] = "elect" /\ seen'[q] = seen[q]
             /\ generation'[q] = generation[q]
        /\ \A q \in Processes : at'[q] \in {"reread", "unlink"} =>
             at[q] \in {"reread", "unlink"} /\ seen'[q] = seen[q]
    BY DEF LeaseInv, LeaseTypeOK, Goes
  <2> QED
    BY <2>1, ElectionsStay
<1>8. UnlinkedIsSeen'
  BY DEF LeaseInv, LeaseTypeOK, UnlinkedIsSeen, FileOf, Goes, Files, Places
<1> QED
  BY <1>1, <1>2, <1>3, <1>4, <1>5, <1>6, <1>7, <1>8 DEF LeaseInv

(* Its owner is dead. *)
LEMMA FindingItDeadKeepsTheInvariant ==
  ASSUME LeaseInv, NEW p \in Processes, at[p] = "check", ~Alive(seen[p]),
         Goes(p, "elect"), generation' = [generation EXCEPT ![p] = 0],
         UNCHANGED <<lease, reapers, seen>>
  PROVE  LeaseInv'
<1> USE LeaseAssumption
<1>1. LeaseTypeOK'
  BY DEF LeaseInv, LeaseTypeOK, Alive, Goes, Places
<1>2. LiveHolderOwnsTheFile'
  BY DEF LeaseInv, LeaseTypeOK, LiveHolderOwnsTheFile, Holds, FileOf, Alive, Goes, Places
<1>3. RecordsAreInPlace'
  BY DEF LeaseInv, LeaseTypeOK, RecordsAreInPlace, FileOf, Alive, Goes, Places
<1>4. KnownWereBorn'
  BY DEF LeaseInv, LeaseTypeOK, KnownWereBorn, Alive, Goes, Places
<1>5. SeenIsOfTheFile'
  BY DEF LeaseInv, LeaseTypeOK, SeenIsOfTheFile, Reaping, FileOf, Alive, Goes, Places
<1>6. ReapedAreDead'
  BY DEF LeaseInv, LeaseTypeOK, ReapedAreDead, KnownWereBorn, SeenIsOfTheFile, Reaping, Alive,
         Goes
<1>7. EarlierReapersAreDead' /\ ReaperIsTheLast'
  <2>1. /\ \A q \in Processes : at[q] = "dead" => at'[q] = "dead"
        /\ \A q \in Processes : at'[q] = "elect" => 
             \/ at[q] = "elect" /\ seen'[q] = seen[q] /\ generation'[q] = generation[q]
             \/ generation'[q] = 0 /\ seen'[q] \in Processes
        /\ \A q \in Processes : at'[q] \in {"reread", "unlink"} =>
             at[q] \in {"reread", "unlink"} /\ seen'[q] = seen[q]
    BY DEF LeaseInv, LeaseTypeOK, SeenIsOfTheFile, Alive, Goes
  <2> QED
    BY <2>1, ElectionsStay
<1>8. UnlinkedIsSeen'
  BY DEF LeaseInv, LeaseTypeOK, UnlinkedIsSeen, FileOf, Alive, Goes, Places
<1> QED
  BY <1>1, <1>2, <1>3, <1>4, <1>5, <1>6, <1>7, <1>8 DEF LeaseInv

(* p is elected: those elected before it are dead. *)
LEMMA ElectionKeepsTheInvariant ==
  ASSUME LeaseInv, NEW p \in Processes, at[p] = "elect", Len(Published(p)) = generation[p],
         reapers' = [reapers EXCEPT ![seen[p]] = Append(@, p)], Goes(p, "reread"),
         UNCHANGED <<lease, seen, generation>>
  PROVE  LeaseInv'
<1> USE LeaseAssumption
<1>1. LeaseTypeOK'
  BY DEF LeaseInv, LeaseTypeOK, SeenIsOfTheFile, Reaping, Published, Goes, Places
<1>2. LiveHolderOwnsTheFile'
  BY DEF LeaseInv, LeaseTypeOK, LiveHolderOwnsTheFile, Holds, FileOf, Published, Goes, Places
<1>3. RecordsAreInPlace'
  BY DEF LeaseInv, LeaseTypeOK, RecordsAreInPlace, FileOf, Published, Goes, Places
<1>4. KnownWereBorn'
  BY DEF LeaseInv, LeaseTypeOK, KnownWereBorn, Published, Goes, Places
<1>5. SeenIsOfTheFile'
  BY DEF LeaseInv, LeaseTypeOK, SeenIsOfTheFile, Reaping, FileOf, Published, Goes, Places
<1>6. ReapedAreDead'
  BY DEF LeaseInv, LeaseTypeOK, ReapedAreDead, SeenIsOfTheFile, Reaping, Published, Goes, Places
<1>7. EarlierReapersAreDead'
  <2>1. seen[p] \in Processes /\ reapers[seen[p]] \in Seq(Processes)
    BY DEF LeaseInv, LeaseTypeOK, SeenIsOfTheFile, Reaping
  <2> SUFFICES ASSUME NEW q \in Processes, at'[q] = "elect"
               PROVE  /\ generation[q] <= Len(reapers'[seen[q]])
                      /\ \A i \in 1 .. generation[q] : at'[reapers'[seen[q]][i]] = "dead"
    BY DEF EarlierReapersAreDead
  <2>2. q # p /\ at[q] = "elect" /\ seen[q] \in Processes /\ generation[q] \in Nat
    BY DEF LeaseInv, LeaseTypeOK, SeenIsOfTheFile, Reaping, Goes
  <2>3. /\ generation[q] <= Len(reapers[seen[q]])
        /\ \A i \in 1 .. generation[q] : at[reapers[seen[q]][i]] = "dead"
    BY <2>2 DEF LeaseInv, EarlierReapersAreDead
  <2>4. reapers[seen[q]] \in Seq(Processes)
    BY <2>2 DEF LeaseInv, LeaseTypeOK
  <2>5. /\ Len(reapers'[seen[q]]) >= Len(reapers[seen[q]])
        /\ \A i \in 1 .. Len(reapers[seen[q]]) : reapers'[seen[q]][i] = reapers[seen[q]][i]
    BY <2>1, <2>2, <2>4 DEF LeaseInv, LeaseTypeOK
  <2>6. \A i \in 1 .. generation[q] : reapers'[seen[q]][i] = reapers[seen[q]][i]
    BY <2>2, <2>3, <2>4, <2>5
  <2>7. \A i \in 1 .. generation[q] : at'[reapers[seen[q]][i]] = "dead"
    BY <2>3 DEF LeaseInv, LeaseTypeOK, Goes
  <2> QED
    BY <2>2, <2>3, <2>4, <2>5, <2>6, <2>7
<1>8. ReaperIsTheLast'
  <2>1. seen[p] \in Processes /\ reapers[seen[p]] \in Seq(Processes)
    BY DEF LeaseInv, LeaseTypeOK, SeenIsOfTheFile, Reaping
  <2>2. reapers'[seen[p]] = Append(reapers[seen[p]], p)
    BY <2>1 DEF LeaseInv, LeaseTypeOK
  <2>3. \A i \in 1 .. Len(reapers[seen[p]]) : at[reapers[seen[p]][i]] = "dead"
    BY DEF LeaseInv, EarlierReapersAreDead, Published
  <2> SUFFICES ASSUME NEW q \in Processes, at'[q] \in {"reread", "unlink"}
               PROVE  /\ Len(reapers'[seen[q]]) > 0
                      /\ reapers'[seen[q]][Len(reapers'[seen[q]])] = q
                      /\ \A i \in 1 .. Len(reapers'[seen[q]]) - 1 :
                           at'[reapers'[seen[q]][i]] = "dead"
    BY DEF ReaperIsTheLast
  <2>4. CASE q = p
    <3>1. \A i \in 1 .. Len(reapers[seen[p]]) : reapers'[seen[p]][i] = reapers[seen[p]][i]
      BY <2>1, <2>2
    <3>2. /\ Len(reapers'[seen[p]]) = Len(reapers[seen[p]]) + 1
          /\ reapers'[seen[p]][Len(reapers[seen[p]]) + 1] = p
          /\ Len(reapers[seen[p]]) \in Nat
      BY <2>1, <2>2
    <3>3. \A i \in 1 .. Len(reapers[seen[p]]) : at'[reapers[seen[p]][i]] = "dead"
      BY <2>1, <2>3 DEF LeaseInv, LeaseTypeOK, Goes
    <3> QED
      BY <2>4, <3>1, <3>2, <3>3
  <2>5. CASE q # p
    <3>1. at[q] \in {"reread", "unlink"}
      BY <2>5 DEF LeaseInv, LeaseTypeOK, Goes
    <3>2. seen[q] \in Processes /\ reapers[seen[q]][Len(reapers[seen[q]])] = q
          /\ Len(reapers[seen[q]]) > 0
          /\ \A i \in 1 .. Len(reapers[seen[q]]) - 1 : at[reapers[seen[q]][i]] = "dead"
      BY <3>1 DEF LeaseInv, SeenIsOfTheFile, ReaperIsTheLast, Reaping
    <3>3. seen[q] # seen[p]
      BY <2>1, <2>3, <3>1, <3>2
    <3>4. reapers'[seen[q]] = reapers[seen[q]]
      BY <3>2, <3>3 DEF LeaseInv, LeaseTypeOK
    <3>5. \A i \in 1 .. Len(reapers[seen[q]]) - 1 : reapers[seen[q]][i] \in Processes
      BY <3>2 DEF LeaseInv, LeaseTypeOK
    <3>6. \A r \in Processes : at[r] = "dead" => at'[r] = "dead"
      BY DEF LeaseInv, LeaseTypeOK, Goes
    <3>7. \A i \in 1 .. Len(reapers[seen[q]]) - 1 : at'[reapers[seen[q]][i]] = "dead"
      BY <3>2, <3>5, <3>6
    <3> QED
      BY <3>2, <3>4, <3>7
  <2> QED
    BY <2>4, <2>5
<1>9. UnlinkedIsSeen'
  BY DEF LeaseInv, LeaseTypeOK, UnlinkedIsSeen, FileOf, Published, Goes, Places
<1> QED
  BY <1>1, <1>2, <1>3, <1>4, <1>5, <1>6, <1>7, <1>8, <1>9 DEF LeaseInv

(* The one elected before p is dead as well. *)
LEMMA NextElectionKeepsTheInvariant ==
  ASSUME LeaseInv, NEW p \in Processes, at[p] = "elect", Len(Published(p)) > generation[p],
         ~Alive(Published(p)[generation[p] + 1]), NextElection(p),
         UNCHANGED <<lease, reapers, seen>>
  PROVE  LeaseInv'
<1> USE LeaseAssumption
<1>1. LeaseTypeOK'
  BY DEF LeaseInv, LeaseTypeOK, Published, Alive, NextElection, Places
<1>2. LiveHolderOwnsTheFile'
  BY DEF LeaseInv, LiveHolderOwnsTheFile, Holds, FileOf, NextElection
<1>3. RecordsAreInPlace'
  BY DEF LeaseInv, RecordsAreInPlace, FileOf, NextElection
<1>4. KnownWereBorn'
  BY DEF LeaseInv, KnownWereBorn, NextElection
<1>5. SeenIsOfTheFile'
  BY DEF LeaseInv, SeenIsOfTheFile, Reaping, FileOf, NextElection
<1>6. ReapedAreDead'
  BY DEF LeaseInv, ReapedAreDead, Reaping, NextElection
<1>7. EarlierReapersAreDead'
  <2>1. seen[p] \in Processes /\ generation[p] + 1 \in 1 .. Len(reapers[seen[p]])
    BY DEF LeaseInv, LeaseTypeOK, SeenIsOfTheFile, Reaping, Published
  <2>2. at[reapers[seen[p]][generation[p] + 1]] = "dead"
    BY <2>1 DEF LeaseInv, KnownWereBorn, Alive, Published
  <2> SUFFICES ASSUME NEW q \in Processes, at[q] = "elect"
               PROVE  /\ generation'[q] <= Len(reapers[seen[q]])
                      /\ \A i \in 1 .. generation'[q] : at[reapers[seen[q]][i]] = "dead"
    BY DEF EarlierReapersAreDead, NextElection
  <2>3. CASE q = p
    <3>1. generation'[p] = generation[p] + 1 /\ generation[p] \in Nat
      BY DEF LeaseInv, LeaseTypeOK, NextElection
    <3>2. \A i \in 1 .. generation[p] : at[reapers[seen[p]][i]] = "dead"
      BY DEF LeaseInv, EarlierReapersAreDead
    <3> QED
      BY <2>1, <2>2, <2>3, <3>1, <3>2 DEF LeaseInv, LeaseTypeOK
  <2>4. CASE q # p
    BY <2>4 DEF LeaseInv, LeaseTypeOK, EarlierReapersAreDead, NextElection
  <2> QED
    BY <2>3, <2>4
<1>8. ReaperIsTheLast'
  BY DEF LeaseInv, ReaperIsTheLast, NextElection
<1>9. UnlinkedIsSeen'
  BY DEF LeaseInv, UnlinkedIsSeen, FileOf, NextElection
<1> QED
  BY <1>1, <1>2, <1>3, <1>4, <1>5, <1>6, <1>7, <1>8, <1>9 DEF LeaseInv

(* The dead owner's record goes, and it is nobody else's. *)
LEMMA UnlinkingKeepsTheInvariant ==
  ASSUME LeaseInv, NEW p \in Processes, Unlink(p)
  PROVE  LeaseInv'
<1> USE LeaseAssumption
<1>1. LeaseTypeOK'
  BY DEF LeaseInv, LeaseTypeOK, Unlink, Goes, Files, Places
<1>2. LiveHolderOwnsTheFile'
  <2> SUFFICES ASSUME NEW q \in Processes, Holds(q)' PROVE lease'[FileOf(q)] = q
    BY DEF LiveHolderOwnsTheFile, FileOf
  <2>1. Holds(q) /\ at[q] # "dead"
    BY DEF LeaseInv, LeaseTypeOK, Holds, Unlink, Goes
  <2>2. lease[FileOf(q)] = q
    BY <2>1 DEF LeaseInv, LiveHolderOwnsTheFile
  <2>3. lease[FileOf(p)] = seen[p] /\ at[seen[p]] = "dead"
    BY DEF LeaseInv, UnlinkedIsSeen, ReapedAreDead, Reaping, Unlink
  <2>4. FileOf(q) # FileOf(p)
    BY <2>1, <2>2, <2>3
  <2> QED
    BY <2>2, <2>4 DEF LeaseInv, LeaseTypeOK, Unlink, FileOf, Files
<1>3. RecordsAreInPlace'
  BY DEF LeaseInv, LeaseTypeOK, RecordsAreInPlace, FileOf, Unlink, Goes, Files, Places
<1>4. KnownWereBorn'
  BY DEF LeaseInv, LeaseTypeOK, KnownWereBorn, Unlink, Goes, Files, Places
<1>5. SeenIsOfTheFile'
  BY DEF LeaseInv, LeaseTypeOK, SeenIsOfTheFile, Reaping, FileOf, Unlink, Goes, Files, Places
<1>6. ReapedAreDead'
  BY DEF LeaseInv, LeaseTypeOK, ReapedAreDead, SeenIsOfTheFile, Reaping, Unlink, Goes, Files, Places
<1>7. EarlierReapersAreDead' /\ ReaperIsTheLast'
  <2>1. /\ \A q \in Processes : at[q] = "dead" => at'[q] = "dead"
        /\ \A q \in Processes : at'[q] = "elect" => at[q] = "elect" /\ seen'[q] = seen[q]
             /\ generation'[q] = generation[q]
        /\ \A q \in Processes : at'[q] \in {"reread", "unlink"} =>
             at[q] \in {"reread", "unlink"} /\ seen'[q] = seen[q]
    BY DEF LeaseInv, LeaseTypeOK, Unlink, Goes
  <2> QED
    BY <2>1, ElectionsStay DEF Unlink
<1>8. UnlinkedIsSeen'
  <2> SUFFICES ASSUME NEW q \in Processes, at'[q] = "unlink" PROVE lease'[FileOf(q)] = seen'[q]
    BY DEF UnlinkedIsSeen
  <2>1. q # p /\ at[q] = "unlink"
    BY DEF LeaseInv, LeaseTypeOK, Unlink, Goes
  <2>2. lease[FileOf(q)] = seen[q] /\ lease[FileOf(p)] = seen[p]
    BY <2>1 DEF LeaseInv, UnlinkedIsSeen, Unlink
  <2>3. seen[q] # seen[p]
    BY <2>1 DEF LeaseInv, ReaperIsTheLast, Unlink
  <2>4. FileOf(q) # FileOf(p)
    BY <2>2, <2>3
  <2> QED
    BY <2>2, <2>4 DEF LeaseInv, LeaseTypeOK, Unlink, FileOf, Files
<1> QED
  BY <1>1, <1>2, <1>3, <1>4, <1>5, <1>6, <1>7, <1>8 DEF LeaseInv

(* A holder gives its lease back. *)
LEMMA DroppingKeepsTheInvariant ==
  ASSUME LeaseInv, NEW p \in Processes, Drop(p)
  PROVE  LeaseInv'
<1> USE LeaseAssumption
<1>1. LeaseTypeOK'
  BY DEF LeaseInv, LeaseTypeOK, Drop, Goes, Files, Places
<1>2. LiveHolderOwnsTheFile'
  BY DEF LeaseInv, LeaseTypeOK, LiveHolderOwnsTheFile, Holds, FileOf, Drop, Goes, Files, Places
<1>3. RecordsAreInPlace'
  BY DEF LeaseInv, LeaseTypeOK, RecordsAreInPlace, FileOf, Drop, Goes, Files, Places
<1>4. KnownWereBorn'
  BY DEF LeaseInv, LeaseTypeOK, KnownWereBorn, Drop, Goes, Files, Places
<1>5. SeenIsOfTheFile'
  BY DEF LeaseInv, LeaseTypeOK, SeenIsOfTheFile, Reaping, FileOf, Drop, Goes, Files, Places
<1>6. ReapedAreDead'
  BY DEF LeaseInv, LeaseTypeOK, ReapedAreDead, SeenIsOfTheFile, Reaping, Drop, Goes, Files, Places
<1>7. EarlierReapersAreDead' /\ ReaperIsTheLast'
  <2>1. /\ \A q \in Processes : at[q] = "dead" => at'[q] = "dead"
        /\ \A q \in Processes : at'[q] = "elect" => at[q] = "elect" /\ seen'[q] = seen[q]
             /\ generation'[q] = generation[q]
        /\ \A q \in Processes : at'[q] \in {"reread", "unlink"} =>
             at[q] \in {"reread", "unlink"} /\ seen'[q] = seen[q]
    BY DEF LeaseInv, LeaseTypeOK, Drop, Goes
  <2> QED
    BY <2>1, ElectionsStay DEF Drop
<1>8. UnlinkedIsSeen'
  <2> SUFFICES ASSUME NEW q \in Processes, at'[q] = "unlink" PROVE lease'[FileOf(q)] = seen'[q]
    BY DEF UnlinkedIsSeen
  <2>1. q # p /\ at[q] = "unlink" /\ seen[q] \in Processes /\ at[seen[q]] = "dead"
    BY DEF LeaseInv, LeaseTypeOK, SeenIsOfTheFile, ReapedAreDead, Reaping, Drop, Goes
  <2>2. lease[FileOf(q)] = seen[q] /\ lease[FileOf(p)] = p
    BY <2>1 DEF LeaseInv, UnlinkedIsSeen, LiveHolderOwnsTheFile, Holds, Drop
  <2>3. FileOf(q) # FileOf(p)
    BY <2>1, <2>2 DEF Drop
  <2> QED
    BY <2>2, <2>3 DEF LeaseInv, LeaseTypeOK, Drop, FileOf, Files
<1> QED
  BY <1>1, <1>2, <1>3, <1>4, <1>5, <1>6, <1>7, <1>8 DEF LeaseInv

LEMMA StepKeepsTheInvariant ==
  ASSUME LeaseInv, NEW p \in Processes,
         \/ Start(p) \/ Guard(p) \/ Validate(p) \/ ConfirmChild(p)
         \/ Link(p) \/ Read(p) \/ Check(p) \/ Elect(p) \/ Reread(p) \/ Unlink(p)
         \/ Leave(p) \/ ReadOwn(p) \/ Drop(p)
         \/ Die(p)
  PROVE  LeaseInv'
<1>1. CASE Start(p)
  BY <1>1, MovesKeepTheInvariant DEF Start, Places
<1>2. CASE Guard(p)
  BY <1>2, MovesKeepTheInvariant DEF Guard, Places
<1>3. CASE Validate(p)
  BY <1>3, MovesKeepTheInvariant DEF Validate, Places
<1>4. CASE ConfirmChild(p)
  <2>1. lease[FileOf(p)] = p
    BY <1>4 DEF LeaseInv, LiveHolderOwnsTheFile, Holds, ConfirmChild
  <2> QED
    BY <1>4, <2>1, MovesKeepTheInvariant DEF ConfirmChild, Places
<1>5. CASE Link(p)
  <2>1. CASE lease[FileOf(p)] = NoProcess
    BY <1>5, <2>1, TakingKeepsTheInvariant DEF Link
  <2>2. CASE lease[FileOf(p)] # NoProcess
    BY <1>5, <2>2, MovesKeepTheInvariant DEF Link, Places, Stays
  <2> QED
    BY <2>1, <2>2
<1>6. CASE Read(p)
  <2>1. CASE lease[FileOf(p)] # NoProcess
    BY <1>6, <2>1, ReadingKeepsTheInvariant DEF Read
  <2>2. CASE lease[FileOf(p)] = NoProcess
    BY <1>6, <2>2, MovesKeepTheInvariant DEF Read, Places, Stays
  <2> QED
    BY <2>1, <2>2
<1>7. CASE Check(p)
  <2>1. CASE Alive(seen[p])
    BY <1>7, <2>1, MovesKeepTheInvariant DEF Check, Places, Stays
  <2>2. CASE ~Alive(seen[p])
    BY <1>7, <2>2, FindingItDeadKeepsTheInvariant DEF Check
  <2> QED
    BY <2>1, <2>2
<1>8. CASE Elect(p)
  <2>1. ASSUME Goes(p, "refused"), Stays PROVE LeaseInv'
    BY <1>8, <2>1, MovesKeepTheInvariant DEF Elect, Places
  <2>2. ASSUME Len(Published(p)) = generation[p],
               reapers' = [reapers EXCEPT ![seen[p]] = Append(@, p)], Goes(p, "reread"),
               UNCHANGED <<lease, seen, generation>>
        PROVE  LeaseInv'
    BY <1>8, <2>2, ElectionKeepsTheInvariant DEF Elect
  <2>3. ASSUME Len(Published(p)) > generation[p],
               ~Alive(Published(p)[generation[p] + 1]), NextElection(p),
               UNCHANGED <<lease, reapers, seen>>
        PROVE  LeaseInv'
    BY <1>8, <2>3, NextElectionKeepsTheInvariant DEF Elect
  <2> QED
    BY <1>8, <2>1, <2>2, <2>3 DEF Elect, Stays
<1>9. CASE Reread(p)
  BY <1>9, MovesKeepTheInvariant DEF Reread, Places
<1>10. CASE Unlink(p)
  BY <1>10, UnlinkingKeepsTheInvariant
<1>11. CASE Leave(p)
  <2>1. lease[FileOf(p)] = p
    BY <1>11 DEF LeaseInv, LiveHolderOwnsTheFile, Holds, Leave
  <2> QED
    BY <1>11, <2>1, MovesKeepTheInvariant DEF Leave, Places
<1>12. CASE ReadOwn(p)
  BY <1>12, MovesKeepTheInvariant DEF ReadOwn, Places
<1>13. CASE Drop(p)
  BY <1>13, DroppingKeepsTheInvariant
<1>14. CASE Die(p)
  BY <1>14, MovesKeepTheInvariant DEF Die, Alive, Places
<1> QED
  BY <1>1, <1>2, <1>3, <1>4, <1>5, <1>6, <1>7, <1>8, <1>9, <1>10, <1>11, <1>12, <1>13, <1>14

LEMMA InitialLeaseInv == LeaseInit => LeaseInv
BY LeaseAssumption
   DEF LeaseInit, LeaseInv, LeaseTypeOK, LiveHolderOwnsTheFile, Holds, RecordsAreInPlace,
       KnownWereBorn, SeenIsOfTheFile, ReapedAreDead, EarlierReapersAreDead, ReaperIsTheLast,
       UnlinkedIsSeen, Reaping, Files, FileOf, Places

LEMMA NextKeepsLeaseInv == LeaseInv /\ [LeaseNext]_leaseVars => LeaseInv'
<1> SUFFICES ASSUME LeaseInv, [LeaseNext]_leaseVars PROVE LeaseInv'
  OBVIOUS
<1>1. CASE LeaseNext
  BY <1>1, StepKeepsTheInvariant DEF LeaseNext
<1>2. CASE UNCHANGED leaseVars
  <2>1. UNCHANGED <<lease, reapers, at, seen, generation>>
    BY <1>2 DEF leaseVars
  <2>2. LeaseTypeOK' /\ LiveHolderOwnsTheFile' /\ RecordsAreInPlace'
    BY <2>1 DEF LeaseInv, LeaseTypeOK, LiveHolderOwnsTheFile, Holds, FileOf, RecordsAreInPlace
  <2>3. KnownWereBorn' /\ SeenIsOfTheFile' /\ UnlinkedIsSeen'
    BY <2>1 DEF LeaseInv, KnownWereBorn, SeenIsOfTheFile, UnlinkedIsSeen, Reaping, FileOf
  <2>4. ReapedAreDead' /\ EarlierReapersAreDead' /\ ReaperIsTheLast'
    BY <2>1 DEF LeaseInv, ReapedAreDead, EarlierReapersAreDead, ReaperIsTheLast, Reaping
  <2> QED
    BY <2>2, <2>3, <2>4 DEF LeaseInv
<1> QED
  BY <1>1, <1>2

THEOREM LeaseInvariant == LeaseSpec => []LeaseInv
BY InitialLeaseInv, NextKeepsLeaseInv, PTL DEF LeaseSpec

(* A live process that acquired its lease (link(2) succeeded and it has    *)
(* not released it) still owns the record at the path, however many        *)
(* contenders, dead owners and dead reapers there are.                     *)
THEOREM LiveHoldersOwnTheFile == LeaseSpec => []LiveHolderOwnsTheFile
<1>1. LeaseInv => LiveHolderOwnsTheFile
  BY DEF LeaseInv
<1> QED
  BY <1>1, LeaseInvariant, PTL

(* Hence at most one live process holds each lease. *)
THEOREM OneLiveHolder ==
  LeaseSpec => [](\A p, q \in Processes : Holds(p) /\ Holds(q) /\ FileOf(p) = FileOf(q) => p = q)
<1>1. LiveHolderOwnsTheFile =>
        \A p, q \in Processes : Holds(p) /\ Holds(q) /\ FileOf(p) = FileOf(q) => p = q
  BY DEF LiveHolderOwnsTheFile
<1> QED
  BY <1>1, LiveHoldersOwnTheFile, PTL

(***************************************************************************)
(* Who is in a refused process's way.  It is never in its own: a record at *)
(* a path belongs to a process that acquired it, and a process stands for  *)
(* election for a dead owner once, because the record it leaves behind     *)
(* never returns to the path.                                              *)
(***************************************************************************)
GuardsAreDesktops ==
  \A p \in Processes :
    /\ at[p] = "guard" => Parent[p] = NoProcess
    /\ at[p] \in {"validate", "confirm"} => Parent[p] # NoProcess

OwnersAcquired ==
  \A f \in Files : lease[f] # NoProcess => Holds(lease[f]) \/ at[lease[f]] = "dead"

SeenIsAnother == \A p \in Processes : seen[p] # p

(* A reaper of d is dead, or still at work on d, or done with it. *)
ElectedOnce ==
  \A d \in Processes : \A i \in 1 .. Len(reapers[d]) :
    LET r == reapers[d][i] IN
    /\ at[d] = "dead" /\ FileOf(r) = FileOf(d)
    /\ \/ at[r] = "dead"
       \/ at[r] \in {"reread", "unlink"} /\ seen[r] = d
       \/ lease[FileOf(d)] # d /\ (at[r] \in Reaping \cup {"check"} => seen[r] # d)

RefusalInv == GuardsAreDesktops /\ OwnersAcquired /\ SeenIsAnother /\ ElectedOnce

Step(p) ==
  \/ Start(p) \/ Guard(p) \/ Validate(p) \/ ConfirmChild(p)
  \/ Link(p) \/ Read(p) \/ Check(p) \/ Elect(p) \/ Reread(p) \/ Unlink(p)
  \/ Leave(p) \/ ReadOwn(p) \/ Drop(p)
  \/ Die(p)

LEMMA GuardsStayDesktops ==
  ASSUME LeaseInv, RefusalInv, NEW p \in Processes, Step(p)
  PROVE  GuardsAreDesktops'
BY DEF Step, LeaseInv, LeaseTypeOK, RefusalInv, GuardsAreDesktops, Stays, Goes,
       Start, Guard, Validate, ConfirmChild, Link, Read, Check, Elect, NextElection, Reread,
       Unlink, Leave, ReadOwn, Drop, Die

LEMMA OwnersStayAcquired ==
  ASSUME LeaseInv, RefusalInv, NEW p \in Processes, Step(p)
  PROVE  OwnersAcquired'
<1> USE LeaseAssumption DEF LeaseInv, LeaseTypeOK, RefusalInv, OwnersAcquired, Holds, Alive,
        Files, FileOf, Goes, Stays
<1>1. CASE Start(p) \/ Guard(p) \/ Validate(p) \/ ConfirmChild(p)
  BY <1>1 DEF Start, Guard, Validate, ConfirmChild, GuardsAreDesktops
<1>2. CASE Link(p) \/ Read(p) \/ Check(p)
  BY <1>2 DEF Link, Read, Check
<1>3. CASE Elect(p) \/ Reread(p) \/ Unlink(p)
  BY <1>3 DEF Elect, NextElection, Reread, Unlink
<1>4. CASE Leave(p) \/ Drop(p) \/ Die(p)
  BY <1>4 DEF Leave, Drop, Die, RecordsAreInPlace
<1>5. CASE ReadOwn(p)
  BY <1>5 DEF ReadOwn, LiveHolderOwnsTheFile
<1> QED
  BY <1>1, <1>2, <1>3, <1>4, <1>5 DEF Step

LEMMA SeenStaysAnother ==
  ASSUME LeaseInv, RefusalInv, NEW p \in Processes, Step(p)
  PROVE  SeenIsAnother'
<1>1. CASE Read(p)
  <2>1. lease[FileOf(p)] # p
    BY <1>1, LeaseAssumption
       DEF Read, LeaseInv, LeaseTypeOK, RefusalInv, OwnersAcquired, Holds, FileOf, Files
  <2> QED
    BY <1>1, <2>1 DEF Read, LeaseInv, LeaseTypeOK, RefusalInv, SeenIsAnother
<1>2. CASE ~Read(p)
  BY <1>2 DEF Step, RefusalInv, SeenIsAnother, Stays,
              Start, Guard, Validate, ConfirmChild, Link, Check, Elect, Reread,
              Unlink, Leave, ReadOwn, Drop, Die
<1> QED
  BY <1>1, <1>2

(* What a step does to the reapers elected before it. *)
LEMMA ReapersStayElectedOnce ==
  ASSUME LeaseInv, RefusalInv, NEW p \in Processes, Step(p),
         NEW d \in Processes, NEW i \in 1 .. Len(reapers[d])
  PROVE  LET r == reapers[d][i] IN
         /\ at'[d] = "dead" /\ FileOf(r) = FileOf(d)
         /\ \/ at'[r] = "dead"
            \/ at'[r] \in {"reread", "unlink"} /\ seen'[r] = d
            \/ lease'[FileOf(d)] # d /\ (at'[r] \in Reaping \cup {"check"} => seen'[r] # d)
<1> DEFINE r == reapers[d][i]
<1>1. r \in Processes /\ at[p] # "dead"
  BY DEF LeaseInv, LeaseTypeOK, Step, Alive, Start, Guard, Validate, ConfirmChild, Link, Read,
         Check, Elect, Reread, Unlink, Leave, ReadOwn, Drop, Die
<1>2. /\ at[d] = "dead" /\ FileOf(r) = FileOf(d)
      /\ \/ at[r] = "dead"
         \/ at[r] \in {"reread", "unlink"} /\ seen[r] = d
         \/ lease[FileOf(d)] # d /\ (at[r] \in Reaping \cup {"check"} => seen[r] # d)
  BY DEF RefusalInv, ElectedOnce
<1>3. p # d /\ \A q \in Processes : q # p => at'[q] = at[q] /\ seen'[q] = seen[q]
  BY <1>1, <1>2 DEF LeaseInv, LeaseTypeOK, Goes, Stays, NextElection,
         Step, Start, Guard, Validate, ConfirmChild, Link, Read,
         Check, Elect, Reread, Unlink, Leave, ReadOwn, Drop, Die
<1>4. lease[FileOf(d)] # d => lease'[FileOf(d)] # d
  BY <1>3, LeaseAssumption DEF LeaseInv, LeaseTypeOK, Stays, FileOf, Files,
         Step, Start, Guard, Validate, ConfirmChild, Link, Read,
         Check, Elect, Reread, Unlink, Leave, ReadOwn, Drop, Die
<1>5. CASE r # p
  BY <1>1, <1>2, <1>3, <1>4, <1>5
<1>6. CASE r = p
  <2>1. CASE Reread(p) \/ Unlink(p)
    BY <1>1, <1>2, <1>4, <1>6, <2>1, LeaseAssumption
       DEF Reread, Unlink, Goes, Stays, LeaseInv, LeaseTypeOK, ReapedAreDead, Reaping, Alive,
           FileOf, Files
  <2>2. CASE Read(p)
    BY <1>1, <1>2, <1>4, <1>6, <2>2 DEF Read, Goes, LeaseInv, LeaseTypeOK, Reaping
  <2>3. CASE Check(p) \/ Elect(p)
    BY <1>1, <1>2, <1>4, <1>6, <2>3
       DEF Check, Elect, NextElection, Goes, LeaseInv, LeaseTypeOK, Reaping, Published
  <2>4. CASE Die(p)
    BY <1>1, <1>2, <1>6, <2>4, <1>3 DEF Die, Goes, LeaseInv, LeaseTypeOK
  <2>5. CASE ~(Reread(p) \/ Unlink(p) \/ Read(p) \/ Check(p) \/ Elect(p) \/ Die(p))
    BY <1>1, <1>2, <1>3, <1>4, <1>6, <2>5
       DEF LeaseInv, LeaseTypeOK, Goes, Stays, Reaping, Step, Start, Guard, Validate,
           ConfirmChild, Link, Leave, ReadOwn, Drop
  <2> QED
    BY <2>1, <2>2, <2>3, <2>4, <2>5
<1> QED
  BY <1>2, <1>3, <1>5, <1>6

LEMMA ElectedOnceIsKept ==
  ASSUME LeaseInv, RefusalInv, NEW p \in Processes, Step(p)
  PROVE  ElectedOnce'
<1>1. CASE UNCHANGED reapers
  BY <1>1, ReapersStayElectedOnce DEF ElectedOnce, FileOf
<1>2. CASE ~UNCHANGED reapers
  <2>1. /\ at[p] = "elect" /\ Goes(p, "reread") /\ UNCHANGED <<lease, seen>>
        /\ reapers' = [reapers EXCEPT ![seen[p]] = Append(@, p)]
    BY <1>2 DEF Step, Stays, Start, Guard, Validate, ConfirmChild, Link, Read,
                Check, Elect, Reread, Unlink, Leave, ReadOwn, Drop, Die
  <2>2. seen[p] \in Processes /\ FileOf(seen[p]) = FileOf(p) /\ at[seen[p]] = "dead"
    BY <2>1 DEF LeaseInv, SeenIsOfTheFile, ReapedAreDead, Reaping
  <2> SUFFICES ASSUME NEW d \in Processes, NEW i \in 1 .. Len(reapers'[d])
               PROVE  LET r == reapers'[d][i] IN
                      /\ at'[d] = "dead" /\ FileOf(r) = FileOf(d)
                      /\ \/ at'[r] = "dead"
                         \/ at'[r] \in {"reread", "unlink"} /\ seen'[r] = d
                         \/ /\ lease'[FileOf(d)] # d
                            /\ at'[r] \in Reaping \cup {"check"} => seen'[r] # d
    BY DEF ElectedOnce, FileOf
  <2>3. reapers[d] \in Seq(Processes) /\ reapers[seen[p]] \in Seq(Processes)
    BY <2>2 DEF LeaseInv, LeaseTypeOK
  <2>4. CASE i \in 1 .. Len(reapers[d])
    <3>1. reapers'[d][i] = reapers[d][i]
      BY <2>1, <2>2, <2>3, <2>4 DEF LeaseInv, LeaseTypeOK
    <3> QED
      BY <3>1, <2>4, ReapersStayElectedOnce
  <2>5. CASE i \notin 1 .. Len(reapers[d])
    <3>1. d = seen[p] /\ reapers'[d][i] = p
      BY <2>1, <2>2, <2>3, <2>5 DEF LeaseInv, LeaseTypeOK
    <3>2. at'[p] = "reread" /\ at'[d] = "dead" /\ seen'[p] = d
      BY <2>1, <2>2, <3>1 DEF Goes, LeaseInv, LeaseTypeOK
    <3> QED
      BY <2>2, <3>1, <3>2
  <2> QED
    BY <2>4, <2>5
<1> QED
  BY <1>1, <1>2

LEMMA InitialRefusalInv == LeaseInit => RefusalInv
BY LeaseAssumption
   DEF LeaseInit, RefusalInv, GuardsAreDesktops, OwnersAcquired, SeenIsAnother, ElectedOnce, Files

LEMMA NextKeepsRefusalInv == LeaseInv /\ RefusalInv /\ [LeaseNext]_leaseVars => RefusalInv'
<1> SUFFICES ASSUME LeaseInv, RefusalInv, [LeaseNext]_leaseVars PROVE RefusalInv'
  OBVIOUS
<1>1. CASE LeaseNext
  <2>1. PICK p \in Processes : Step(p)
    BY <1>1 DEF LeaseNext, Step
  <2> QED
    BY <2>1, GuardsStayDesktops, OwnersStayAcquired, SeenStaysAnother, ElectedOnceIsKept
       DEF RefusalInv
<1>2. CASE UNCHANGED leaseVars
  BY <1>2 DEF leaseVars, RefusalInv, GuardsAreDesktops, OwnersAcquired, Holds, SeenIsAnother,
              ElectedOnce, FileOf
<1> QED
  BY <1>1, <1>2

LEMMA RefusedByALiveOne ==
  ASSUME LeaseInv, RefusalInv, NEW p \in Processes, Step(p),
         at[p] # "refused", at'[p] = "refused"
  PROVE  Obstructed(p)
<1> USE LeaseAssumption
<1> USE DEF LeaseInv, LeaseTypeOK, RefusalInv
<1>1. CASE Guard(p)
  <2>1. LiveChild /\ Parent[p] = NoProcess
    BY <1>1 DEF Guard, Goes, GuardsAreDesktops
  <2>2. lease["child"] \in Processes /\ FileOf(lease["child"]) = "child"
    BY <2>1 DEF LiveChild, RecordsAreInPlace, Files
  <2> QED
    BY <2>1, <2>2 DEF LiveChild, Obstructed, FileOf
<1>2. CASE Validate(p)
  BY <1>2 DEF Validate, Goes, GuardsAreDesktops, Obstructed
<1>3. CASE Check(p)
  BY <1>3 DEF Check, Goes, SeenIsOfTheFile, SeenIsAnother, Obstructed
<1>4. CASE Elect(p)
  <2>1. CASE generation[p] = MaxGenerations
    BY <2>1 DEF Obstructed
  <2>2. CASE generation[p] # MaxGenerations
    <3> DEFINE i == generation[p] + 1
    <3>1. /\ Len(Published(p)) > generation[p] /\ Alive(Published(p)[i])
          /\ seen[p] \in Processes /\ FileOf(seen[p]) = FileOf(p)
      BY <1>4, <2>2 DEF Elect, Goes, NextElection, SeenIsOfTheFile, Reaping
    <3>2. i \in 1 .. Len(reapers[seen[p]]) /\ reapers[seen[p]][i] \in Processes
      BY <3>1 DEF Published
    <3>3. FileOf(reapers[seen[p]][i]) = FileOf(p)
      BY <3>1, <3>2 DEF ElectedOnce
    <3>4. LET r == reapers[seen[p]][i] IN
          \/ at[r] = "dead"
          \/ at[r] \in {"reread", "unlink"}
          \/ at[r] \in Reaping \cup {"check"} => seen[r] # seen[p]
      BY <3>1, <3>2 DEF ElectedOnce
    <3>5. reapers[seen[p]][i] # p
      BY <1>4, <3>4 DEF Elect, Reaping
    <3> QED
      BY <3>1, <3>2, <3>3, <3>5 DEF Published, Obstructed
  <2> QED
    BY <2>1, <2>2
<1>5. CASE Reread(p)
  BY <1>5 DEF Reread, Goes, Alive, ReapedAreDead, Reaping
<1>6. CASE ReadOwn(p)
  BY <1>6 DEF ReadOwn, Goes, LiveHolderOwnsTheFile, Holds
<1>7. CASE ~(Guard(p) \/ Validate(p) \/ Check(p) \/ Elect(p) \/ Reread(p) \/ ReadOwn(p))
  BY <1>7 DEF Step, Start, ConfirmChild, Link, Read, Unlink, Leave, Drop, Die, Goes
<1> QED
  BY <1>1, <1>2, <1>3, <1>4, <1>5, <1>6, <1>7

(* A process is turned away only by a live one, by a desktop that no       *)
(* longer holds its lease, or by a chain of MAX_REAPER_GENERATIONS dead    *)
(* reapers: crashes alone never lock the directory.                        *)
THEOREM DeathLocksNobodyOut == LeaseSpec => NobodyIsRefusedByTheDead
<1>1. LeaseSpec => []RefusalInv
  BY InitialRefusalInv, NextKeepsRefusalInv, LeaseInvariant, PTL DEF LeaseSpec
<1>2. LeaseInv /\ RefusalInv /\ [LeaseNext]_leaseVars
        => [\A p \in Processes : at[p] # "refused" /\ at'[p] = "refused" => Obstructed(p)]_leaseVars
  <2> SUFFICES ASSUME LeaseInv, RefusalInv, LeaseNext,
                      NEW p \in Processes, at[p] # "refused", at'[p] = "refused"
               PROVE  Obstructed(p)
    BY DEF leaseVars
  <2>1. PICK q \in Processes : Step(q)
    BY DEF LeaseNext, Step
  <2>2. p = q
    BY <2>1 DEF LeaseInv, LeaseTypeOK, Goes, Stays, NextElection,
         Step, Start, Guard, Validate, ConfirmChild, Link, Read,
         Check, Elect, Reread, Unlink, Leave, ReadOwn, Drop, Die
  <2> QED
    BY <2>1, <2>2, RefusedByALiveOne
<1> QED
  BY <1>1, <1>2, LeaseInvariant, PTL DEF LeaseSpec, NobodyIsRefusedByTheDead
=============================================================================
