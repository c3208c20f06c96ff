---------------------------- MODULE DataDirLease ----------------------------
(***************************************************************************)
(* The lease on the data directory (electron/data-dir-lease.mjs): one      *)
(* process at a time may own the directory's state.  A record is published *)
(* with one link(2); a record whose process died is retired by a reaper    *)
(* that the contenders elect, and the successor of a reaper that died is   *)
(* elected from the dead reaper's own token.  A desktop delegates to one   *)
(* server child at a time, which holds a second lease of the same kind.    *)
(* Each step is one call of the file system or one question to the kernel, *)
(* and any process may die between two.                                    *)
(***************************************************************************)
EXTENDS Naturals, Sequences

CONSTANTS
  Processes,       \* process lives: each has its own pid and token
  Parent,          \* the desktop a server child belongs to, or NoProcess
  NoProcess,
  MaxGenerations   \* MAX_REAPER_GENERATIONS

ASSUME LeaseAssumption ==
  /\ NoProcess \notin Processes
  /\ Parent \in [Processes -> Processes \cup {NoProcess}]
  /\ MaxGenerations \in Nat

VARIABLES
  lease,        \* the record at each path
  reapers,      \* of each record's owner, the election records, in their order
  at,           \* where each process stands
  seen,         \* the record it found in its way
  generation    \* the election it takes part in

leaseVars == <<lease, reapers, at, seen, generation>>
------------------------------------------------------------------------------
Files == {"primary", "child"}
FileOf(p) == IF Parent[p] = NoProcess THEN "primary" ELSE "child"

Alive(p) == at[p] \notin {"new", "dead"}
Holds(p) == at[p] \in {"confirm", "holding", "leaving", "dropping"}

LeaseInit ==
  /\ lease = [f \in Files |-> NoProcess]
  /\ reapers = [p \in Processes |-> <<>>]
  /\ at = [p \in Processes |-> "new"]
  /\ seen = [p \in Processes |-> NoProcess]
  /\ generation = [p \in Processes |-> 0]

Goes(p, place) == at' = [at EXCEPT ![p] = place]
Stays == UNCHANGED <<lease, reapers, seen, generation>>

(* A child is started by a desktop that holds its lease. *)
Start(p) ==
  /\ at[p] = "new"
  /\ \/ Parent[p] = NoProcess /\ Goes(p, "guard")
     \/ Parent[p] # NoProcess /\ at[Parent[p]] = "holding" /\ Goes(p, "validate")
  /\ Stays

(* assertNoLiveDelegatedChild *)
LiveChild == lease["child"] # NoProcess /\ Alive(lease["child"])
Guard(p) ==
  /\ at[p] = "guard"
  /\ Goes(p, IF LiveChild THEN "refused" ELSE "link")
  /\ Stays

(* matchesLiveParent, before and after the child acquires *)
Authorised(p) == lease["primary"] = Parent[p] /\ Alive(Parent[p])
Validate(p) ==
  /\ at[p] = "validate"
  /\ Goes(p, IF Authorised(p) THEN "link" ELSE "refused")
  /\ Stays
ConfirmChild(p) ==
  /\ at[p] = "confirm"
  /\ Goes(p, IF Authorised(p) THEN "holding" ELSE "leaving")
  /\ Stays

Link(p) ==
  /\ at[p] = "link"
  /\ \/ /\ lease[FileOf(p)] = NoProcess
        /\ lease' = [lease EXCEPT ![FileOf(p)] = p]
        /\ Goes(p, IF Parent[p] = NoProcess THEN "holding" ELSE "confirm")
     \/ /\ lease[FileOf(p)] # NoProcess
        /\ Goes(p, "read")
        /\ UNCHANGED lease
  /\ UNCHANGED <<reapers, seen, generation>>

Read(p) ==
  /\ at[p] = "read"
  /\ \/ /\ lease[FileOf(p)] = NoProcess
        /\ Goes(p, "link")
        /\ UNCHANGED seen
     \/ /\ lease[FileOf(p)] # NoProcess
        /\ seen' = [seen EXCEPT ![p] = lease[FileOf(p)]]
        /\ Goes(p, "check")
  /\ UNCHANGED <<lease, reapers, generation>>

Check(p) ==
  /\ at[p] = "check"
  /\ \/ Alive(seen[p]) /\ Goes(p, "refused") /\ UNCHANGED generation
     \/ ~Alive(seen[p]) /\ Goes(p, "elect") /\ generation' = [generation EXCEPT ![p] = 0]
  /\ UNCHANGED <<lease, reapers, seen>>

(* claimReaperAuthority: election records are never removed, so the one    *)
(* that was in the way still names the same reaper when it is read.        *)
Published(p) == reapers[seen[p]]
NextElection_None(p) == UNCHANGED generation /\ Goes(p, "refused")
NextElection(p) ==
  /\ generation' = [generation EXCEPT ![p] = @ + 1]
  /\ UNCHANGED at
Elect(p) ==
  /\ at[p] = "elect"
  /\ \/ /\ generation[p] < MaxGenerations /\ Len(Published(p)) = generation[p]
        /\ reapers' = [reapers EXCEPT ![seen[p]] = Append(@, p)]
        /\ Goes(p, "reread")
        /\ UNCHANGED generation
     \/ /\ generation[p] < MaxGenerations /\ Len(Published(p)) > generation[p]
        /\ \/ /\ Alive(Published(p)[generation[p] + 1])
              /\ Goes(p, "refused")
              /\ UNCHANGED generation
           \/ /\ ~Alive(Published(p)[generation[p] + 1])
              /\ NextElection(p)
        /\ UNCHANGED reapers
     \/ /\ generation[p] = MaxGenerations
        /\ Goes(p, "refused")
        /\ UNCHANGED <<reapers, generation>>
  /\ UNCHANGED <<lease, seen>>

(* retireDeadOwner: the elected reaper looks again before it unlinks. *)
Reread_Trusting(p) ==
  /\ at[p] = "reread"
  /\ Goes(p, "unlink")
  /\ Stays
Reread(p) ==
  /\ at[p] = "reread"
  /\ \/ lease[FileOf(p)] # seen[p] /\ Goes(p, "link")
     \/ lease[FileOf(p)] = seen[p] /\ Goes(p, IF Alive(seen[p]) THEN "refused" ELSE "unlink")
  /\ Stays
Unlink(p) ==
  /\ at[p] = "unlink"
  /\ lease' = [lease EXCEPT ![FileOf(p)] = NoProcess]
  /\ Goes(p, "link")
  /\ UNCHANGED <<reapers, seen, generation>>

(* release: a desktop keeps its lease while its server still lives. *)
Leave(p) ==
  /\ at[p] = "holding"
  /\ Parent[p] = NoProcess => ~LiveChild
  /\ Goes(p, "leaving")
  /\ Stays
ReadOwn(p) ==
  /\ at[p] = "leaving"
  /\ Goes(p, IF lease[FileOf(p)] = p THEN "dropping" ELSE "refused")
  /\ Stays
Drop(p) ==
  /\ at[p] = "dropping"
  /\ lease' = [lease EXCEPT ![FileOf(p)] = NoProcess]
  /\ Goes(p, "left")
  /\ UNCHANGED <<reapers, seen, generation>>

Die(p) ==
  /\ Alive(p)
  /\ Goes(p, "dead")
  /\ Stays

LeaseNext ==
  \E p \in Processes :
    \/ Start(p) \/ Guard(p) \/ Validate(p) \/ ConfirmChild(p)
    \/ Link(p) \/ Read(p) \/ Check(p) \/ Elect(p) \/ Reread(p) \/ Unlink(p)
    \/ Leave(p) \/ ReadOwn(p) \/ Drop(p)
    \/ Die(p)

LeaseSpec == LeaseInit /\ [][LeaseNext]_leaseVars
------------------------------------------------------------------------------
Places == {"new", "guard", "validate", "link", "read", "check", "elect", "reread", "unlink",
           "confirm", "holding", "leaving", "dropping", "left", "refused", "dead"}

LeaseTypeOK ==
  /\ lease \in [Files -> Processes \cup {NoProcess}]
  /\ reapers \in [Processes -> Seq(Processes)]
  /\ at \in [Processes -> Places]
  /\ seen \in [Processes -> Processes \cup {NoProcess}]
  /\ generation \in [Processes -> Nat]

(* A live process that acquired its lease still has its record at the      *)
(* path, whatever reapers of its dead predecessors are still under way: so *)
(* no two live servers (or desktops) ever hold the same lease.             *)
LiveHolderOwnsTheFile ==
  \A p \in Processes : Holds(p) => lease[FileOf(p)] = p

(* Crashes never brick the directory: a process is turned away only by a   *)
(* live one, a child also when its desktop no longer holds the lease, and  *)
(* anyone once the elections for one dead owner are used up.               *)
Obstructed(p) ==
  \/ \E q \in Processes \ {p} : Alive(q) /\ (FileOf(q) = FileOf(p) \/ FileOf(q) = "child")
  \/ Parent[p] # NoProcess /\ ~Authorised(p)
  \/ generation[p] = MaxGenerations
NobodyIsRefusedByTheDead ==
  [][\A p \in Processes : at[p] # "refused" /\ at'[p] = "refused" => Obstructed(p)]_leaseVars
=============================================================================
