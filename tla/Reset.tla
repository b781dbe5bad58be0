-------------------------------- MODULE Reset --------------------------------
(***************************************************************************)
(* Empty of internal/migrations/reset.go: `dbosctl sysdb reset', of the    *)
(* whole schema or of one application's rows, beside running applications  *)
(* and renames. It is one transaction of one DELETE per table, each of     *)
(* which sees what others have committed by then (READ COMMITTED); nobody  *)
(* else gets at the rows it has deleted before it ends. Deleting a row of  *)
(* workflow_status cascades to the tables that have a foreign key on it.   *)
(***************************************************************************)
EXTENDS Naturals, FiniteSets

CONSTANTS
  Row,       \* the rows there may be
  Tab,       \* Tab[x]: the table row x belongs to
  Of,        \* Of[x]: the workflow_uuid of row x, or 0
  Name,      \* application names
  Null,      \* the application_name of a row nobody has claimed, or without the column
  Absent,    \* the owner of a row that does not exist
  Every,     \* the scope of a reset without --app
  Scope,     \* the scope of the resets that are run: a name, or Every
  Schemas,   \* the schemas considered: how far they are migrated
  Busy,      \* the applications that are running meanwhile
  Renames,   \* the renames that may be under way: pairs of names
  Initial    \* the databases considered: who owns what at first

VARIABLES
  schema,    \* its tables, those with an application_name, and whether steps cascade
  owner,     \* owner[x]: the application_name of row x, or Absent
  pc,        \* what Empty is about to do
  done,      \* the tables its transaction has deleted from
  gone,      \* the rows it has deleted
  counted,   \* counted[t]: its TableCount of t
  outcome,   \* how the last reset ended
  asked,     \* the rows it was asked to delete when it began (history)
  removed    \* what the last reset really removed (history)

local == <<pc, done, gone, counted, outcome, asked, removed>>
vars  == <<schema, owner, pc, done, gone, counted, outcome, asked, removed>>

(* The tables in the order in which a reset of the schema empties them.    *)
SystemTables ==
  [application_versions |-> 1, event_dispatch_kv |-> 2, notifications |-> 3,
   operation_outputs |-> 4, queues |-> 5, streams |-> 6, workflow_events |-> 7,
   workflow_events_history |-> 8, workflow_input |-> 9, workflow_output |-> 10,
   workflow_schedules |-> 11, workflow_status |-> 12]
Table == DOMAIN SystemTables

(* Mutant: the status rows go first.                                       *)
SystemTablesStatusFirst == [SystemTables EXCEPT !["workflow_status"] = 0]

workflowPayloadTables == {"workflow_input", "workflow_output"}

(* The order of a reset of one application: its steps, the payloads put    *)
(* before the workflow rows, then the rest.                                *)
applicationOrder ==
  [operation_outputs |-> 1, workflow_input |-> 2, workflow_output |-> 3,
   workflow_status |-> 4, queues |-> 5, workflow_schedules |-> 6,
   application_versions |-> 7]
applicationOrderStatusFirst == [applicationOrder EXCEPT !["workflow_status"] = 0]
applicationOwnedTables == DOMAIN applicationOrder \ workflowPayloadTables

ForeignKey == {"notifications", "workflow_events", "workflow_events_history", "streams"}
Unkeyed    == {"queues", "workflow_schedules", "application_versions", "event_dispatch_kv"}

ASSUME ResetAssumption ==
  /\ IsFiniteSet(Row)
  /\ Tab \in [Row -> Table]
  /\ Of \in [Row -> Nat]
  /\ \A x \in Row : Of[x] = 0 <=> Tab[x] \in Unkeyed
  /\ \A x, y \in Row : Tab[x] = "workflow_status" /\ Tab[y] = "workflow_status" /\ Of[x] = Of[y] => x = y
  /\ Null \notin Name /\ Absent \notin Name \cup {Null} /\ Every \notin Name \cup {Null, Absent}
  /\ Scope \in Name \cup {Every}
  /\ Busy \subseteq Name /\ Renames \subseteq Name \X Name
  /\ Initial \subseteq [Row -> Name \cup {Null, Absent}]

(* The versions a migration may have stopped at: workflow_status exists    *)
(* from the first and is the first to get the column; steps have it before *)
(* they cease to cascade (migrations 104 and 112).                         *)
ASSUME SchemaAssumption ==
  \A s \in Schemas :
    /\ s.tables \subseteq Table /\ s.named \subseteq s.tables \cap applicationOwnedTables
    /\ s.cascade \in BOOLEAN
    /\ s.tables # {} => "workflow_status" \in s.tables
    /\ s.named # {} => "workflow_status" \in s.named
    /\ ~s.cascade => "operation_outputs" \in s.named

There      == {x \in Row : owner[x] # Absent}
Workflow   == {w \in Row : Tab[w] = "workflow_status"}
OfWorkflow(w) == {x \in Row : Of[x] = Of[w]}
Cascades   == IF schema.cascade THEN ForeignKey \cup {"operation_outputs"} ELSE ForeignKey

TypeOK ==
  /\ schema \in Schemas
  /\ owner \in [Row -> Name \cup {Null, Absent}]
  /\ pc \in {"idle", "delete", "commit"}
  /\ done \subseteq Table
  /\ gone \subseteq There
  /\ counted \in [Table -> Nat]
  /\ outcome \in {"none", "ok", "failed", "refused"}
  /\ asked \subseteq Row /\ removed \subseteq Row

(* Databases that the schema allows: no row without a table, no owner      *)
(* without a column, no row whose foreign key leads nowhere.               *)
Init ==
  /\ schema \in Schemas
  /\ owner \in Initial
  /\ \A x \in There :
       /\ Tab[x] \in schema.tables
       /\ Tab[x] \notin schema.named => owner[x] = Null
       /\ Tab[x] \in Cascades => \E w \in Workflow \cap There : Of[w] = Of[x]
  /\ pc = "idle"
  /\ done = {} /\ gone = {}
  /\ counted = [t \in Table |-> 0]
  /\ outcome = "none"
  /\ asked = {} /\ removed = {}
-----------------------------------------------------------------------------
(* Mutant: a table that a migration added is not in the list.              *)
TargetsForgetting ==
  IF Scope = Every THEN schema.tables \ {"event_dispatch_kv"}
  ELSE schema.named \cup (workflowPayloadTables \cap schema.tables)

(* resetTargets: what there is to delete from, in which order.             *)
Targets ==
  IF Scope = Every THEN schema.tables
  ELSE schema.named \cup (workflowPayloadTables \cap schema.tables)

(* An application has no rows to name without an application_name column.  *)
NoTargets == IF Scope = Every THEN schema.tables = {} ELSE schema.named = {}

(* Mutant: workflow_status before what it is needed for.                   *)
RankStatusFirst(t) ==
  IF Scope = Every THEN SystemTablesStatusFirst[t] ELSE applicationOrderStatusFirst[t]

Rank(t) == IF Scope = Every THEN SystemTables[t] ELSE applicationOrder[t]

(* The rows of an application: those that name it, and its workflows'.     *)
Owned(x) ==
  \/ owner[x] = Scope
  \/ \E w \in Workflow : Of[w] = Of[x] /\ owner[w] = Scope

(* Mutant: payloads by the absence of a workflow.                          *)
MatchingOrphans(t) ==
  {x \in There \ gone :
     /\ Tab[x] = t
     /\ \/ Scope = Every
        \/ t \in workflowPayloadTables /\
             \A w \in Workflow \ gone : Of[w] = Of[x] => owner[w] = Absent
        \/ t \notin workflowPayloadTables /\ owner[x] = Scope}

(* Mutant: every payload.                                                  *)
MatchingAllPayloads(t) ==
  {x \in There \ gone :
     /\ Tab[x] = t
     /\ Scope = Every \/ t \in workflowPayloadTables \/ owner[x] = Scope}

(* Mutant: rows that name nobody are taken for the application's.          *)
MatchingUnnamed(t) ==
  {x \in There \ gone :
     /\ Tab[x] = t
     /\ \/ Scope = Every
        \/ t \in workflowPayloadTables /\
             \E w \in Workflow \ gone : Of[w] = Of[x] /\ owner[w] = Scope
        \/ t \notin workflowPayloadTables /\ owner[x] \in {Scope, Null}}

(* The DELETE of table t: all of it, by the workflow, or by the name.      *)
Matching(t) ==
  {x \in There \ gone :
     /\ Tab[x] = t
     /\ \/ Scope = Every
        \/ t \in workflowPayloadTables /\
             \E w \in Workflow \ gone : Of[w] = Of[x] /\ owner[w] = Scope
        \/ t \notin workflowPayloadTables /\ owner[x] = Scope}

(* What goes with the workflow rows in S.                                  *)
Cascaded(S) ==
  {x \in There : Tab[x] \in Cascades /\ \E w \in S \cap Workflow : Of[w] = Of[x]}

Start ==
  /\ pc = "idle" /\ ~NoTargets
  /\ pc' = "delete"
  /\ done' = {} /\ gone' = {}
  /\ counted' = [t \in Table |-> 0]
  /\ outcome' = "none"
  /\ asked' = IF Scope = Every THEN There ELSE {x \in There : Owned(x)}
  /\ removed' = {}
  /\ UNCHANGED <<schema, owner>>

Refuse ==
  /\ pc = "idle" /\ NoTargets
  /\ outcome' = "refused"
  /\ asked' = {} /\ removed' = {}
  /\ UNCHANGED <<schema, owner, pc, done, gone, counted>>

Delete(t) ==
  /\ pc = "delete"
  /\ t \in Targets \ done
  /\ \A u \in Targets : Rank(u) < Rank(t) => u \in done
  /\ gone' = gone \cup Matching(t) \cup Cascaded(Matching(t))
  /\ counted' = [counted EXCEPT ![t] = Cardinality(Matching(t))]
  /\ done' = done \cup {t}
  /\ pc' = IF Targets \subseteq done' THEN "commit" ELSE "delete"
  /\ UNCHANGED <<schema, owner, outcome, asked, removed>>

(* Mutant: the deleted rows are not forgotten.                             *)
CommittedStill(how) ==
  /\ pc = "commit"
  /\ owner' = [x \in Row |-> IF x \in gone THEN Absent ELSE owner[x]]
  /\ removed' = gone
  /\ pc' = "idle"
  /\ outcome' = how
  /\ UNCHANGED <<schema, done, counted, asked, gone>>

(* The transaction commits, whether or not the client hears of it.         *)
Committed(how) ==
  /\ pc = "commit"
  /\ owner' = [x \in Row |-> IF x \in gone THEN Absent ELSE owner[x]]
  /\ removed' = gone
  /\ gone' = {}
  /\ pc' = "idle"
  /\ outcome' = how
  /\ UNCHANGED <<schema, done, counted, asked>>

Commit == Committed("ok")

CommitUnanswered == Committed("failed")

(* Mutant: every DELETE is a transaction of its own.                       *)
FailKeeping ==
  /\ pc # "idle"
  /\ owner' = [x \in Row |-> IF x \in gone THEN Absent ELSE owner[x]]
  /\ removed' = gone
  /\ pc' = "idle"
  /\ gone' = {}
  /\ outcome' = "failed"
  /\ UNCHANGED <<schema, done, counted, asked>>

(* A statement fails, the time is up, or the command is interrupted.       *)
Fail ==
  /\ pc # "idle"
  /\ pc' = "idle"
  /\ gone' = {}
  /\ outcome' = "failed"
  /\ UNCHANGED <<schema, owner, done, counted, asked, removed>>
-----------------------------------------------------------------------------
(* A row is inserted; a row asked for earlier is another row.              *)
Inserted(S, f) ==
  /\ owner' = f
  /\ asked' = asked \ S
  /\ UNCHANGED <<schema, pc, done, gone, counted, outcome, removed>>

(* An application enqueues a workflow, with its input (migration 113).     *)
Enqueue(n, w) ==
  /\ "workflow_status" \in schema.tables
  /\ OfWorkflow(w) \cap There = {}
  /\ LET input == {x \in OfWorkflow(w) :
                     Tab[x] = "workflow_input" /\ Tab[x] \in schema.tables}
     IN  Inserted({w} \cup input,
           [x \in Row |-> IF x = w THEN (IF "workflow_status" \in schema.named THEN n ELSE Null)
                          ELSE IF x \in input THEN Null ELSE owner[x]])

(* It records a step, an output, an event, a message or a part of a stream *)
(* of a workflow of its own or of nobody's, under the workflow's name;     *)
(* where there is a foreign key, not of a workflow that is being deleted.  *)
Record(n, x) ==
  /\ owner[x] = Absent /\ Tab[x] \in schema.tables
  /\ Tab[x] \notin {"workflow_status", "workflow_input"} \cup Unkeyed
  /\ \E w \in Workflow \cap There :
       /\ Of[w] = Of[x] /\ owner[w] \in {n, Null}
       /\ Tab[x] \in Cascades => w \notin gone
       /\ Inserted({x}, [owner EXCEPT ![x] = IF Tab[x] \in schema.named THEN owner[w] ELSE Null])

(* It registers a queue, a schedule or a version.                          *)
Register(n, x) ==
  /\ owner[x] = Absent /\ Tab[x] \in schema.tables \cap Unkeyed
  /\ Inserted({x}, [owner EXCEPT ![x] = IF Tab[x] \in schema.named THEN n ELSE Null])

(* It deletes a workflow of its own, and what cascades; the rest of its    *)
(* rows, if they name nobody, are of no application then.                  *)
Collect(n, w) ==
  /\ owner[w] = n
  /\ ({w} \cup Cascaded({w})) \cap gone = {}
  /\ owner' = [x \in Row |-> IF x \in {w} \cup Cascaded({w}) THEN Absent ELSE owner[x]]
  /\ asked' = {x \in asked : Scope = Every \/ Owned(x)'}
  /\ UNCHANGED <<schema, pc, done, gone, counted, outcome, removed>>

(* A rename re-owns rows of p[1] (RenameApplication): the small tables     *)
(* whole, then workflows in any portions, at last their steps. It waits    *)
(* for rows that are being deleted.                                        *)
Held(n)  == {x \in There : Tab[x] \in schema.named /\ owner[x] = n}
Stage(x) == CASE Tab[x] \in Unkeyed -> 1
              [] Tab[x] = "workflow_status" -> 2
              [] OTHER -> 3

ReOwn(p, S) ==
  /\ S \subseteq Held(p[1]) \ gone
  /\ \A x \in S, y \in Held(p[1]) \ S : Stage(y) > 1 /\ Stage(y) >= Stage(x)
  /\ owner' = [x \in Row |-> IF x \in S THEN p[2] ELSE owner[x]]
  /\ UNCHANGED <<schema, local>>

Environment ==
  \/ \E n \in Busy :
       \/ \E w \in Workflow : Enqueue(n, w) \/ Collect(n, w)
       \/ \E x \in Row : Record(n, x) \/ Register(n, x)
  \/ \E p \in Renames : \E S \in SUBSET Held(p[1]) : ReOwn(p, S)

Next ==
  \/ Start \/ Refuse \/ Commit \/ CommitUnanswered \/ Fail
  \/ \E t \in Table : Delete(t)
  \/ Environment

Spec == Init /\ [][Next]_vars
-----------------------------------------------------------------------------
(* No workflow is left without rows it had: whatever a reset takes of one, *)
(* it takes the workflow with it, also of a running application (the order *)
(* of SystemTables and of resetTargets).                                   *)
RemovedWhole ==
  [][\A x \in There, w \in Workflow :
       x \in gone /\ owner'[x] = Absent /\ Of[w] = Of[x] => owner'[w] = Absent]_vars

(* What another application owns, or nobody, and what is of a workflow of  *)
(* theirs.                                                                 *)
Theirs(x) ==
  IF Of[x] = 0 THEN owner[x] # Scope
  ELSE \E w \in Workflow \cap There : Of[w] = Of[x] /\ owner[w] # Scope

(* A reset of one application leaves all other rows alone.                 *)
OthersUntouched ==
  [][\A x \in There : x \in gone /\ Theirs(x) => owner'[x] = owner[x]]_vars

(* When a reset reports success, what it was asked to delete is gone.      *)
TakesAll == outcome = "ok" => asked \cap There = {}

(* A reset that reports failure has taken nothing, or, where it was only   *)
(* the answer to its COMMIT that got lost, all it was asked to (the one    *)
(* transaction of Empty).                                                  *)
AllOrNothing == outcome = "failed" => removed = {} \/ asked \cap There = {}

(* A reset that reports failure has removed nothing (the README of sysdb   *)
(* reset). Not so where it was the answer to its COMMIT that got lost.     *)
FailureRemovesNothing == outcome = "failed" => removed = {}

(* The counts of a reset of the schema are of rows it has removed, and     *)
(* leave out none but what was recorded while it ran (the order of         *)
(* SystemTables: nothing that was there has gone with its workflow).       *)
CountsAddUp ==
  outcome = "ok" =>
    \A t \in Table :
      /\ counted[t] <= Cardinality({x \in removed : Tab[x] = t})
      /\ counted[t] >= Cardinality({x \in removed \cap asked : Tab[x] = t})

(* What the proofs rest on. The steps of a workflow name its owner, or     *)
(* nobody; a deleted row's workflow is deleted too, or will be; and what   *)
(* has been deleted was the application's.                                 *)
Tidy(f) ==
  \A x \in Row, w \in Workflow :
    Tab[x] = "operation_outputs" /\ Of[x] = Of[w] /\ f[w] # Absent =>
      f[x] \in {Absent, Null, f[w]}

InScope(x) == Scope = Every \/ owner[x] = Scope
Pending(t) == pc = "delete" /\ t \in Targets \ done

WholeInv ==
  /\ \A x \in gone, w \in Workflow \cap There :
       Of[w] = Of[x] => w \in gone \/ (Pending("workflow_status") /\ InScope(w))
  /\ "workflow_status" \in done /\ pc # "idle" =>
       \A t \in Targets : Rank(t) < Rank("workflow_status") => t \in done
OwnInv == \A x \in gone : Of[x] = 0 \/ x \in Workflow => InScope(x)

(* A reset of the schema: what it was asked for is deleted, or will be.    *)
InTables == \A x \in There : Tab[x] \in schema.tables
TakenInv ==
  /\ \A x \in asked \cap There : x \in gone \/ pc = "idle" \/ Pending(Tab[x])
  /\ outcome = "ok" => pc = "idle" /\ asked \cap There = {}
  /\ removed # {} => pc = "idle" /\ asked \cap There = {}

(* A reset of one application: the same, where a row may be deleted by the *)
(* name it bears or on account of its workflow. Where steps do not cascade *)
(* they have to name their workflow's owner for that.                      *)
StepsNamed ==
  schema.cascade \/ \A x \in There, w \in Workflow \cap There :
    Tab[x] = "operation_outputs" /\ Of[x] = Of[w] => owner[x] = owner[w]
NamedInTables == \A x \in There : Tab[x] \notin schema.named => owner[x] = Null

Due(x) ==
  \/ x \in gone
  \/ owner[x] = Scope /\ Pending(Tab[x])
  \/ /\ \E w \in Workflow \ gone : Of[w] = Of[x] /\ owner[w] = Scope
     /\ Pending("workflow_status")
     /\ Tab[x] \in Cascades \/ (Tab[x] \in workflowPayloadTables /\ Pending(Tab[x]))
DueInv ==
  /\ pc # "idle" => outcome = "none" /\ removed = {} /\ \A x \in asked \cap There : Due(x)
  /\ outcome = "ok" \/ removed # {} => asked \cap There = {}
=============================================================================
