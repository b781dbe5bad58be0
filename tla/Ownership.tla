------------------------------ MODULE Ownership ------------------------------
(***************************************************************************)
(* What `dbosctl sysdb rename-application' promises, without how it is     *)
(* done: who owns the rows of a system database, the applications that     *)
(* work on them, and the renames that hand them over. What an application  *)
(* needs to run moves in one step, its history after it, piece by piece.   *)
(***************************************************************************)
CONSTANTS
  Row,       \* the rows of the system tables there may be
  Tab,       \* Tab[x]: the table row x belongs to
  Name,      \* application names, and the NULL of rows nobody has claimed
  Absent,    \* the owner of a row that does not exist
  Renamer,   \* the runs of the command
  Source,    \* Source[r]: the owners whose rows r moves
  To,        \* To[r]: the application r moves them to
  Busy,      \* the applications that are running meanwhile
  Initial    \* the databases considered: who owns what at first

SmallTable == {"queues", "workflow_schedules", "application_versions"}
Table      == SmallTable \cup {"workflow_status", "operation_outputs"}

VARIABLES
  owner,     \* owner[x]: the application_name of row x, or Absent
  inFlight   \* workflows that are PENDING, ENQUEUED or DELAYED

Workflow == {x \in Row : Tab[x] = "workflow_status"}

TypeOK ==
  /\ owner \in [Row -> Name \cup {Absent}]
  /\ inFlight \subseteq Workflow

(* The rows a rename is about, and those of them an application runs on.   *)
Held(r)     == {x \in Row : owner[x] \in Source[r]}
LiveHeld(r) == {x \in Held(r) : Tab[x] \in SmallTable \/ x \in inFlight}

(* Rows S given to n.                                                      *)
Give(S, n) == [x \in Row |-> IF x \in S THEN n ELSE owner[x]]

Init ==
  /\ owner \in Initial
  /\ inFlight \in SUBSET {x \in Workflow : owner[x] # Absent}
-----------------------------------------------------------------------------
(* A running application registers a queue, starts a workflow, records a   *)
(* step: a workflow starts in flight.                                      *)
Insert(n, x) ==
  /\ n \in Busy /\ owner[x] = Absent
  /\ owner' = [owner EXCEPT ![x] = n]
  /\ inFlight' = inFlight \cup ({x} \cap Workflow)

(* It ends a workflow, takes one up again, or deletes a row of its own.    *)
Finish(x) ==
  /\ x \in inFlight /\ owner[x] \in Busy
  /\ inFlight' = inFlight \ {x}
  /\ UNCHANGED owner

Resume(x) ==
  /\ x \in Workflow \ inFlight /\ owner[x] \in Busy
  /\ inFlight' = inFlight \cup {x}
  /\ UNCHANGED owner

Delete(x) ==
  /\ owner[x] \in Busy
  /\ owner' = [owner EXCEPT ![x] = Absent]
  /\ inFlight' = inFlight \ {x}

(* Queues, schedules, versions and in-flight workflows move together.      *)
TransferLive(r) ==
  /\ owner' = Give(LiveHeld(r), To[r])
  /\ UNCHANGED inFlight

(* What is left is history, and moves in any portions.                     *)
TransferHistory(r, S) ==
  /\ LiveHeld(r) = {}
  /\ S \subseteq Held(r)
  /\ owner' = Give(S, To[r])
  /\ UNCHANGED inFlight

Next ==
  \/ \E n \in Busy, x \in Row : Insert(n, x)
  \/ \E x \in Row : Finish(x) \/ Resume(x) \/ Delete(x)
  \/ \E r \in Renamer : TransferLive(r) \/ \E S \in SUBSET Held(r) : TransferHistory(r, S)

Spec == Init /\ [][Next]_<<owner, inFlight>>
=============================================================================
