------------------------------- MODULE Rename -------------------------------
(***************************************************************************)
(* RenameApplication of internal/migrations/rename.go, run by any number   *)
(* of commands, beside applications that may be running. One transaction   *)
(* re-owns the small tables and the in-flight workflows; what is left of   *)
(* workflow_status and then operation_outputs moves in batches of          *)
(* BatchSize keys, each a statement that commits by itself.                *)
(*                                                                         *)
(* A statement waits for rows that an open transaction of another rename   *)
(* has changed. A commit may succeed in the database and its answer be     *)
(* lost: the command then reports a failure.                               *)
(***************************************************************************)
EXTENDS Naturals, FiniteSets

CONSTANTS
  Row, Tab, Name, Absent, Renamer, Source, To, Busy, Initial,  \* as in Ownership
  Key,        \* Key[x]: the workflow_uuid of row x
  BatchSize   \* keys re-owned per statement

ASSUME NameAssumption ==
  /\ Absent \notin Name
  /\ Busy \subseteq Name
  /\ Initial \subseteq [Row -> Name \cup {Absent}]

(* RenameApplication refuses a name that is its own source, and takes 0    *)
(* keys per batch for the default.                                         *)
ASSUME RenameAssumption ==
  /\ Source \in [Renamer -> SUBSET Name]
  /\ To \in [Renamer -> Name]
  /\ \A r \in Renamer : To[r] \notin Source[r]
  /\ BatchSize \in Nat \ {0}

VARIABLES
  owner, inFlight,   \* the database, as in Ownership
  pc,       \* pc[r]: what RenameApplication is about to do
  at,       \* at[r]: the statement of the transaction, or the batched table
  lower,    \* lower[r]: lowerBound of renameInBatches, 0 for ""
  mark,     \* mark[r]: its watermark, 0 for none
  locked,   \* locked[r]: rows changed by its open transaction
  counted,  \* counted[r]: the ApplicationRowCounts it reports, by table
  outcome,  \* outcome[r]: how its last run ended
  moved,    \* moved[r]: what its last run really moved (history)
  fresh     \* fresh[r]: what became its source since it began (history)

database == <<owner, inFlight>>
local    == <<pc, at, lower, mark, locked, counted, outcome, moved>>
vars     == <<owner, inFlight, pc, at, lower, mark, locked, counted, outcome, moved, fresh>>

Own == INSTANCE Ownership WITH owner <- owner, inFlight <- inFlight

ASSUME RowAssumption ==
  /\ IsFiniteSet(Row)
  /\ Tab \in [Row -> Own!Table]
  /\ Key \in [Row -> Nat \ {0}]

Opening == {"queues", "workflow_schedules", "application_versions", "in_flight"}
Batched == {"workflow_status", "operation_outputs"}
Keys    == {Key[x] : x \in Row}
Nothing == [t \in Own!Table |-> 0]

TypeOK ==
  /\ Own!TypeOK
  /\ pc \in [Renamer -> {"idle", "update", "commit", "bound", "move"}]
  /\ at \in [Renamer -> Opening \cup Batched]
  /\ lower \in [Renamer -> Keys \cup {0}]
  /\ mark \in [Renamer -> Keys \cup {0}]
  /\ locked \in [Renamer -> SUBSET Row]
  /\ counted \in [Renamer -> [Own!Table -> Nat]]
  /\ moved \in [Renamer -> [Own!Table -> Nat]]
  /\ outcome \in [Renamer -> {"none", "ok", "failed", "refused"}]
  /\ fresh \in [Renamer -> SUBSET Row]

Init ==
  /\ Own!Init
  /\ pc = [r \in Renamer |-> "idle"]
  /\ at = [r \in Renamer |-> "queues"]
  /\ lower = [r \in Renamer |-> 0]
  /\ mark = [r \in Renamer |-> 0]
  /\ locked = [r \in Renamer |-> {}]
  /\ counted = [r \in Renamer |-> Nothing]
  /\ outcome = [r \in Renamer |-> "none"]
  /\ moved = [r \in Renamer |-> Nothing]
  /\ fresh = [r \in Renamer |-> {}]
-----------------------------------------------------------------------------
Locked == UNION {locked[r] : r \in Renamer}

(* No statement gets at rows another transaction has changed.              *)
Free(S, r) == \A q \in Renamer \ {r} : S \cap locked[q] = {}

Count(S)    == [t \in Own!Table |-> Cardinality({x \in S : Tab[x] = t})]
Plus(f, g)  == [t \in Own!Table |-> f[t] + g[t]]

(* The rows S of r's source are committed as its target's.                 *)
ReOwn(r, S) ==
  /\ owner' = Own!Give(S, To[r])
  /\ fresh' = [q \in Renamer |->
                 IF To[r] \in Source[q] THEN fresh[q] \cup S ELSE fresh[q]]
  /\ UNCHANGED inFlight

(* The run ends: connection closed, open transaction rolled back.          *)
EndRun(r, how) ==
  /\ pc' = [pc EXCEPT ![r] = "idle"]
  /\ at' = [at EXCEPT ![r] = "queues"]
  /\ lower' = [lower EXCEPT ![r] = 0]
  /\ mark' = [mark EXCEPT ![r] = 0]
  /\ locked' = [locked EXCEPT ![r] = {}]
  /\ outcome' = [outcome EXCEPT ![r] = how]

(* The batches of table t begin.                                           *)
BeginBatches(r, t) ==
  /\ pc' = [pc EXCEPT ![r] = "bound"]
  /\ at' = [at EXCEPT ![r] = t]
  /\ lower' = [lower EXCEPT ![r] = 0]
  /\ mark' = [mark EXCEPT ![r] = 0]
  /\ locked' = [locked EXCEPT ![r] = {}]
  /\ UNCHANGED outcome

(* The checks have passed, the transaction is open.                        *)
Start(r) ==
  /\ pc[r] = "idle"
  /\ pc' = [pc EXCEPT ![r] = "update"]
  /\ counted' = [counted EXCEPT ![r] = Nothing]
  /\ moved' = [moved EXCEPT ![r] = Nothing]
  /\ outcome' = [outcome EXCEPT ![r] = "none"]
  /\ fresh' = [fresh EXCEPT ![r] = {}]
  /\ UNCHANGED <<owner, inFlight, at, lower, mark, locked>>

(* Mutant: the fourth UPDATE without its condition on the status.          *)
OpeningRowsAnyStatus(r) ==
  {x \in Own!Held(r) : Tab[x] = IF at[r] = "in_flight" THEN "workflow_status" ELSE at[r]}

(* The rows of the source that the UPDATE at hand matches.                 *)
OpeningRows(r) ==
  {x \in Own!Held(r) : IF at[r] = "in_flight" THEN x \in inFlight ELSE Tab[x] = at[r]}

NextStatement ==
  [s \in Opening |-> CASE s = "queues" -> "workflow_schedules"
                       [] s = "workflow_schedules" -> "application_versions"
                       [] OTHER -> "in_flight"]

(* Mutant: the rows of an UPDATE are counted before the transaction they   *)
(* belong to has committed.                                                *)
UpdateCounting(r) ==
  /\ pc[r] = "update"
  /\ Free(OpeningRows(r), r)
  /\ counted' = [counted EXCEPT ![r] = Plus(@, Count(OpeningRows(r)))]
  /\ locked' = [locked EXCEPT ![r] = @ \cup OpeningRows(r)]
  /\ at' = [at EXCEPT ![r] = NextStatement[@]]
  /\ pc' = [pc EXCEPT ![r] = IF at[r] = "in_flight" THEN "commit" ELSE @]
  /\ UNCHANGED <<owner, inFlight, lower, mark, outcome, moved, fresh>>

Update(r) ==
  /\ pc[r] = "update"
  /\ Free(OpeningRows(r), r)
  /\ locked' = [locked EXCEPT ![r] = @ \cup OpeningRows(r)]
  /\ at' = [at EXCEPT ![r] = NextStatement[@]]
  /\ pc' = [pc EXCEPT ![r] = IF at[r] = "in_flight" THEN "commit" ELSE @]
  /\ UNCHANGED <<owner, inFlight, lower, mark, counted, outcome, moved, fresh>>

Commit(r) ==
  /\ pc[r] = "commit"
  /\ ReOwn(r, locked[r])
  /\ moved' = [moved EXCEPT ![r] = Count(locked[r])]
  /\ counted' = [counted EXCEPT ![r] = Count(locked[r])]
  /\ BeginBatches(r, "workflow_status")

CommitUnanswered(r) ==
  /\ pc[r] = "commit"
  /\ ReOwn(r, locked[r])
  /\ moved' = [moved EXCEPT ![r] = Count(locked[r])]
  /\ EndRun(r, "failed")
  /\ UNCHANGED counted

(* The keys of the source's rows in the table, from the lower bound on.    *)
KeysLeft(r) ==
  {Key[x] : x \in {y \in Own!Held(r) : Tab[y] = at[r] /\ Key[y] >= lower[r]}}

(* Mutant: without the DISTINCT, OFFSET counts rows and not keys.          *)
NextBoundOfRows(r) ==
  LET rows == {x \in Own!Held(r) : Tab[x] = at[r] /\ Key[x] >= lower[r]}
  IN  {k \in KeysLeft(r) : /\ Cardinality({x \in rows : Key[x] < k}) <= BatchSize
                           /\ Cardinality({x \in rows : Key[x] <= k}) > BatchSize}

(* SELECT DISTINCT workflow_uuid ... ORDER BY ... OFFSET BatchSize LIMIT 1 *)
NextBound(r) ==
  {k \in KeysLeft(r) : Cardinality({j \in KeysLeft(r) : j < k}) = BatchSize}

(* Mutant: the watermark taken for the first key of the next batch, plus 1 *)
BoundPlusOne(r) ==
  /\ pc[r] = "bound"
  /\ \/ NextBound(r) = {} /\ mark' = [mark EXCEPT ![r] = 0]
     \/ \E k \in NextBound(r) : mark' = [mark EXCEPT ![r] = k + 1]
  /\ pc' = [pc EXCEPT ![r] = "move"]
  /\ UNCHANGED <<owner, inFlight, at, lower, locked, counted, outcome, moved, fresh>>

Bound(r) ==
  /\ pc[r] = "bound"
  /\ \/ NextBound(r) = {} /\ mark' = [mark EXCEPT ![r] = 0]
     \/ \E k \in NextBound(r) : mark' = [mark EXCEPT ![r] = k]
  /\ pc' = [pc EXCEPT ![r] = "move"]
  /\ UNCHANGED <<owner, inFlight, at, lower, locked, counted, outcome, moved, fresh>>

(* Mutant: the lower bound excluded, the upper one too.                    *)
BatchRowsBetween(r) ==
  {x \in Own!Held(r) : /\ Tab[x] = at[r] /\ Key[x] > lower[r]
                       /\ mark[r] # 0 => Key[x] < mark[r]}

BatchRows(r) ==
  {x \in Own!Held(r) : /\ Tab[x] = at[r] /\ Key[x] >= lower[r]
                       /\ mark[r] # 0 => Key[x] < mark[r]}

(* What follows the batch that moved S.                                    *)
AfterBatch(r, S) ==
  \/ /\ mark[r] = 0 /\ at[r] = "workflow_status"
     /\ BeginBatches(r, "operation_outputs")
  \/ /\ mark[r] = 0 /\ at[r] = "operation_outputs"
     /\ EndRun(r, "ok")
  \/ /\ mark[r] # 0 /\ S = {}
     /\ EndRun(r, "refused")
  \/ /\ mark[r] # 0 /\ S # {}
     /\ lower' = [lower EXCEPT ![r] = mark[r]]
     /\ mark' = [mark EXCEPT ![r] = 0]
     /\ pc' = [pc EXCEPT ![r] = "bound"]
     /\ UNCHANGED <<at, locked, outcome>>

MoveBatch(r) ==
  /\ pc[r] = "move"
  /\ Free(BatchRows(r), r)
  /\ ReOwn(r, BatchRows(r))
  /\ moved' = [moved EXCEPT ![r] = Plus(@, Count(BatchRows(r)))]
  /\ counted' = [counted EXCEPT ![r] = Plus(@, Count(BatchRows(r)))]
  /\ AfterBatch(r, BatchRows(r))

MoveUnanswered(r) ==
  /\ pc[r] = "move"
  /\ Free(BatchRows(r), r)
  /\ ReOwn(r, BatchRows(r))
  /\ moved' = [moved EXCEPT ![r] = Plus(@, Count(BatchRows(r)))]
  /\ EndRun(r, "failed")
  /\ UNCHANGED counted

(* A check or a statement fails, the time is up, the command is killed.    *)
Fail(r) ==
  /\ pc[r] # "idle"
  /\ EndRun(r, "failed")
  /\ UNCHANGED <<owner, inFlight, counted, moved, fresh>>

(* The applications that run meanwhile; a row a transaction has changed    *)
(* makes them wait.                                                        *)
AppInserts(n, x) ==
  /\ Own!Insert(n, x)
  /\ fresh' = [r \in Renamer |-> IF n \in Source[r] THEN fresh[r] \cup {x} ELSE fresh[r]]
  /\ UNCHANGED local

AppChanges(x) ==
  /\ x \notin Locked
  /\ Own!Finish(x) \/ Own!Resume(x) \/ Own!Delete(x)
  /\ UNCHANGED <<local, fresh>>

Advance(r) ==
  Start(r) \/ Update(r) \/ Commit(r) \/ Bound(r) \/ MoveBatch(r)

Break(r) == CommitUnanswered(r) \/ MoveUnanswered(r) \/ Fail(r)

Next ==
  \/ \E r \in Renamer : Advance(r) \/ Break(r)
  \/ \E x \in Row : AppChanges(x) \/ \E n \in Busy : AppInserts(n, x)

Spec == Init /\ [][Next]_vars

(* The operator runs a rename again until it has succeeded.                *)
FairSpec == Spec /\ \A r \in Renamer : WF_vars(Advance(r))
-----------------------------------------------------------------------------
(* What keeps the commands' operands apart: what is renamed is stopped, and *)
(* no rename moves rows to what another one renames.                       *)
Stopped   == \A r \in Renamer : Source[r] \cap Busy = {}
Uncrossed == \A r, q \in Renamer : To[r] \notin Source[q]

(* However renames, failures and restarts interleave, an application that  *)
(* was stopped is re-owned as Ownership says: whole where it is live, and  *)
(* its history only after that (rename.go, the opening transaction).       *)
ImplementsOwnership == Own!Spec

(* A rename that reports success has left behind only rows that became the *)
(* old name's after it had begun (the batches' watermarks pass over none). *)
LeftBehindIsNew ==
  \A r \in Renamer : outcome[r] = "ok" => Own!Held(r) \subseteq fresh[r]

(* A rename reports no row that has not moved, at any moment it may fail,  *)
(* and when it succeeds it reports them all.                               *)
CountsAreFacts ==
  \A r \in Renamer :
    /\ \A t \in Own!Table : counted[r][t] <= moved[r][t]
    /\ outcome[r] = "ok" => counted[r] = moved[r]

(* With nobody else at the rows, every batch moves something: renameIn-    *)
(* Batches never gives up with its "refusing to loop".                     *)
NeverRefuses == \A r \in Renamer : outcome[r] # "refused"

(* Run again after any failures, a rename is completed, and stays so.      *)
Broken == \E r \in Renamer : Break(r)
RerunCompletes ==
  (<>[][~Broken]_vars) => \A r \in Renamer : <>[](Own!Held(r) = {})

-----------------------------------------------------------------------------
(* What makes CountsAreFacts inductive: a run that goes on has counted     *)
(* what it has moved, and before its first commit that is nothing.         *)
CountInv(r) ==
  /\ pc[r] \in {"update", "commit"} => counted[r] = Nothing /\ moved[r] = Nothing
  /\ pc[r] \in {"bound", "move"} => counted[r] = moved[r]

(* What makes LeftBehindIsNew inductive: what a run has passed is locked   *)
(* by it, or no longer its source's, or newer than the run.                *)
PlaceInv(r) ==
  /\ pc[r] = "idle" => at[r] = "queues"
  /\ pc[r] = "update" => at[r] \in Opening
  /\ pc[r] \in {"bound", "move"} => at[r] \in Batched
  /\ pc[r] \notin {"update", "commit"} => locked[r] = {}
  /\ outcome[r] # "none" => pc[r] = "idle"

Updated(r) ==
  IF pc[r] # "update" \/ at[r] = "in_flight" THEN Own!SmallTable
  ELSE CASE at[r] = "queues"               -> {}
         [] at[r] = "workflow_schedules"   -> {"queues"}
         [] at[r] = "application_versions" -> {"queues", "workflow_schedules"}

Passed(r, x) ==
  \/ Tab[x] \in Updated(r)
  \/ /\ pc[r] \in {"bound", "move"}
     /\ \/ Tab[x] = at[r] /\ Key[x] < lower[r]
        \/ Tab[x] = "workflow_status" /\ at[r] = "operation_outputs"

PassedInv(r) ==
  pc[r] # "idle" => \A x \in Own!Held(r) : Passed(r, x) => x \in fresh[r] \cup locked[r]

(* What makes ImplementsOwnership inductive: an open transaction holds     *)
(* what is live of the tables it has gone through, and holds it alone;     *)
(* after it nothing live is left.                                          *)
TransactionInv(r) ==
  /\ locked[r] \subseteq Own!LiveHeld(r)
  /\ \A q \in Renamer \ {r} : locked[q] \cap locked[r] = {}
  /\ pc[r] = "update" => \A x \in Own!LiveHeld(r) : Tab[x] \in Updated(r) => x \in locked[r]
  /\ pc[r] = "commit" => Own!LiveHeld(r) \subseteq locked[r]
  /\ pc[r] \in {"bound", "move"} => Own!LiveHeld(r) = {}

(* What makes NeverRefuses inductive for one rename of what is stopped:    *)
(* below a watermark there is a row to move.                               *)
Alone == \A r, q \in Renamer : r = q
BatchInv(r) == pc[r] = "move" /\ mark[r] # 0 => BatchRows(r) # {}
=============================================================================
