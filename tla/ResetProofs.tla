----------------------------- MODULE ResetProofs -----------------------------
(***************************************************************************)
(* Theorems about Reset: for any rows, schemas, scope and applications.    *)
(***************************************************************************)
EXTENDS Reset, FiniteSetTheorems, TLAPS

LEMMA Sorts ==
  /\ IsFiniteSet(Row)
  /\ \A x \in Row : Tab[x] \in Table /\ Of[x] \in Nat
  /\ \A x \in Row : Of[x] = 0 <=> Tab[x] \in Unkeyed
  /\ \A v, w \in Workflow : Of[v] = Of[w] => v = w
  /\ Null # Absent /\ Absent \notin Name
  /\ \A n \in Busy : n \in Name /\ n # Absent
  /\ "workflow_status" \notin Unkeyed \cup workflowPayloadTables
BY ResetAssumption DEF Workflow, Unkeyed, workflowPayloadTables

LEMMA MatchingThere ==
  ASSUME NEW t
  PROVE  /\ Matching(t) \subseteq There \ gone /\ Matching(t) \subseteq Row
         /\ Cascaded(Matching(t)) \subseteq There
         /\ \A x \in Matching(t) : Tab[x] = t
         /\ IsFiniteSet(Matching(t))
<1>1. Matching(t) \subseteq There \ gone /\ Matching(t) \subseteq Row
  BY DEF Matching, There
<1>2. IsFiniteSet(Matching(t))
  BY <1>1, Sorts, FS_Subset
<1> QED
  BY <1>1, <1>2 DEF Matching, Cascaded

LEMMA InsertedType ==
  ASSUME TypeOK, NEW S, NEW f \in [Row -> Name \cup {Null, Absent}], Inserted(S, f),
         \A x \in There : f[x] # Absent
  PROVE  TypeOK'
BY DEF TypeOK, Inserted, There

LEMMA TypeStep == TypeOK /\ [Next]_vars => TypeOK'
<1> SUFFICES ASSUME TypeOK, [Next]_vars PROVE TypeOK'
  OBVIOUS
<1>0. CASE UNCHANGED vars
  BY <1>0 DEF vars, TypeOK, There
<1>1. CASE Start
  BY <1>1 DEF Start, TypeOK, There
<1>2. CASE Refuse
  BY <1>2 DEF Refuse, TypeOK, There
<1>3. ASSUME NEW t \in Table, Delete(t) PROVE TypeOK'
  <2>1. gone' \subseteq There /\ Cardinality(Matching(t)) \in Nat
    BY <1>3, MatchingThere, FS_CardinalityType DEF Delete, TypeOK
  <2> QED
    BY <1>3, <2>1 DEF Delete, TypeOK, There
<1>4. CASE Commit \/ CommitUnanswered
  BY <1>4 DEF Commit, CommitUnanswered, Committed, TypeOK, There
<1>5. CASE Fail
  BY <1>5 DEF Fail, TypeOK, There
<1>6. ASSUME NEW n \in Busy, NEW w \in Workflow, Enqueue(n, w) PROVE TypeOK'
  <2>1. \A x \in There : x \notin OfWorkflow(w)
    BY <1>6 DEF Enqueue
  <2>2. w \in OfWorkflow(w)
    BY DEF OfWorkflow, Workflow
  <2> QED
    BY <1>6, <2>1, <2>2, Sorts DEF Enqueue, TypeOK, Inserted, There
<1>7. ASSUME NEW n \in Busy, NEW x \in Row, Record(n, x) PROVE TypeOK'
  <2>1. PICK w \in Workflow \cap There :
          Inserted({x}, [owner EXCEPT ![x] = IF Tab[x] \in schema.named THEN owner[w] ELSE Null])
    BY <1>7 DEF Record
  <2>2. owner[w] \in Name \cup {Null} /\ owner[x] = Absent
    BY <1>7, <2>1 DEF Record, There, TypeOK
  <2> QED
    BY <2>1, <2>2, Sorts DEF TypeOK, Inserted, There
<1>8. ASSUME NEW n \in Busy, NEW x \in Row, Register(n, x) PROVE TypeOK'
  BY <1>8, Sorts DEF Register, TypeOK, Inserted, There
<1>9. ASSUME NEW n \in Busy, NEW w \in Workflow, Collect(n, w) PROVE TypeOK'
  BY <1>9 DEF Collect, TypeOK, There
<1>10. ASSUME NEW p \in Renames, NEW S \in SUBSET Held(p[1]), ReOwn(p, S) PROVE TypeOK'
  <2>1. p[2] \in Name
    BY ResetAssumption
  <2> QED
    BY <1>10, <2>1, Sorts DEF ReOwn, TypeOK, There, local
<1> QED
  BY <1>0, <1>1, <1>2, <1>3, <1>4, <1>5, <1>6, <1>7, <1>8, <1>9, <1>10 DEF Next, Environment

LEMMA InitType == Init => TypeOK
BY ResetAssumption DEF Init, TypeOK, There

(* The state of a reset is well typed, for any rows, schemas and scope; in *)
(* particular what it has deleted is there until it commits.               *)
THEOREM TypeCorrect == Spec => []TypeOK
<1> QED
  BY InitType, TypeStep, PTL DEF Spec
-----------------------------------------------------------------------------
(* What each step of an application does to who owns what.                 *)

LEMMA RecordFacts ==
  ASSUME TypeOK, NEW n \in Busy, NEW x \in Row, Record(n, x)
  PROVE  /\ owner[x] = Absent /\ x \notin Workflow
         /\ \A y \in Row \ {x} : owner'[y] = owner[y]
         /\ UNCHANGED <<schema, pc, done, gone>>
         /\ \E w \in Workflow \cap There : Of[w] = Of[x] /\ owner'[x] \in {Null, owner[w]}
<1>1. owner[x] = Absent /\ Tab[x] # "workflow_status"
  BY DEF Record
<1>2. PICK w \in Workflow \cap There :
        /\ Of[w] = Of[x]
        /\ Inserted({x}, [owner EXCEPT ![x] = IF Tab[x] \in schema.named THEN owner[w] ELSE Null])
  BY DEF Record
<1> QED
  BY <1>1, <1>2 DEF Inserted, TypeOK, Workflow

LEMMA EnqueueFacts ==
  ASSUME TypeOK, NEW n \in Busy, NEW w \in Workflow, Enqueue(n, w)
  PROVE  /\ \A y \in Row : Of[y] = Of[w] => owner[y] = Absent
         /\ \A y \in Row : Of[y] # Of[w] => owner'[y] = owner[y]
         /\ \A y \in Row : owner'[y] # Absent /\ Of[y] = Of[w] =>
              Tab[y] \in {"workflow_status", "workflow_input"}
         /\ UNCHANGED <<schema, pc, done, gone>>
<1>1. PICK input \in SUBSET OfWorkflow(w) :
        /\ \A y \in input : Tab[y] = "workflow_input"
        /\ Inserted({w} \cup input,
             [x \in Row |-> IF x = w THEN (IF "workflow_status" \in schema.named THEN n ELSE Null)
                            ELSE IF x \in input THEN Null ELSE owner[x]])
  BY DEF Enqueue
<1>2. OfWorkflow(w) \cap There = {}
  BY DEF Enqueue
<1> QED
  BY <1>1, <1>2 DEF Inserted, OfWorkflow, There, Workflow

LEMMA RegisterFacts ==
  ASSUME TypeOK, NEW n \in Busy, NEW x \in Row, Register(n, x)
  PROVE  /\ owner[x] = Absent /\ Tab[x] \in Unkeyed
         /\ \A y \in Row \ {x} : owner'[y] = owner[y]
         /\ UNCHANGED <<schema, pc, done, gone>>
BY DEF Register, Inserted, TypeOK

LEMMA CollectFacts ==
  ASSUME TypeOK, NEW n \in Busy, NEW w \in Workflow, Collect(n, w)
  PROVE  /\ \A y \in Row : owner'[y] \in {Absent, owner[y]}
         /\ \A y \in gone : owner'[y] = owner[y]
         /\ UNCHANGED <<schema, pc, done, gone>>
BY DEF Collect, TypeOK, There

(* With nobody to re-own its rows, or none that matter.                    *)
Settled == Scope = Every \/ (Renames = {} /\ \A f \in Initial : Tidy(f))
TidyInv == Scope = Every \/ Tidy(owner)

LEMMA TidyStep == Settled /\ TypeOK /\ TidyInv /\ [Next]_vars => TidyInv'
<1> SUFFICES ASSUME Renames = {}, TypeOK, Tidy(owner), [Next]_vars PROVE Tidy(owner)'
  BY DEF Settled, TidyInv
<1>1. ASSUME \A x \in Row : owner'[x] \in {Absent, owner[x]} PROVE Tidy(owner)'
  BY <1>1 DEF Tidy, Workflow
<1>2. CASE Commit \/ CommitUnanswered
  <2>1. \A x \in Row : owner'[x] \in {Absent, owner[x]}
    BY <1>2 DEF Commit, CommitUnanswered, Committed
  <2> QED
    BY <2>1, <1>1
<1>3. ASSUME UNCHANGED owner PROVE Tidy(owner)'
  BY <1>3 DEF Tidy
<1>4. ASSUME NEW n \in Busy, NEW w \in Workflow, Enqueue(n, w) PROVE Tidy(owner)'
  <2> SUFFICES ASSUME NEW x \in Row, NEW v \in Workflow, Tab[x] = "operation_outputs",
                      Of[x] = Of[v], owner'[v] # Absent
               PROVE  owner'[x] \in {Absent, Null, owner'[v]}
    BY DEF Tidy
  <2>1. CASE Of[x] = Of[w]
    BY <2>1, <1>4, EnqueueFacts
  <2>2. CASE Of[x] # Of[w]
    BY <2>2, <1>4, EnqueueFacts DEF Tidy, Workflow
  <2> QED
    BY <2>1, <2>2
<1>5. ASSUME NEW n \in Busy, NEW x \in Row, Record(n, x) PROVE Tidy(owner)'
  <2>1. PICK w \in Workflow \cap There : Of[w] = Of[x] /\ owner'[x] \in {Null, owner[w]}
    BY <1>5, RecordFacts
  <2>2. x \notin Workflow /\ \A y \in Row \ {x} : owner'[y] = owner[y]
    BY <1>5, RecordFacts
  <2>3. \A v \in Workflow : Of[v] = Of[x] => v = w
    BY <2>1, Sorts
  <2>4. owner'[w] = owner[w]
    BY <2>1, <2>2 DEF Workflow
  <2> SUFFICES ASSUME NEW y \in Row, NEW v \in Workflow, Tab[y] = "operation_outputs",
                      Of[y] = Of[v], owner'[v] # Absent
               PROVE  owner'[y] \in {Absent, Null, owner'[v]}
    BY DEF Tidy
  <2>5. CASE y = x
    BY <2>1, <2>3, <2>4, <2>5
  <2>6. CASE y # x
    BY <2>2, <2>6 DEF Tidy, Workflow
  <2> QED
    BY <2>5, <2>6
<1>6. ASSUME NEW n \in Busy, NEW x \in Row, Register(n, x) PROVE Tidy(owner)'
  <2>1. Tab[x] \in Unkeyed /\ \A y \in Row \ {x} : owner'[y] = owner[y]
    BY <1>6, RegisterFacts
  <2>2. x \notin Workflow /\ Tab[x] # "operation_outputs"
    BY <2>1 DEF Workflow, Unkeyed
  <2> QED
    BY <2>1, <2>2 DEF Tidy, Workflow
<1>7. ASSUME NEW n \in Busy, NEW w \in Workflow, Collect(n, w) PROVE Tidy(owner)'
  BY <1>7, <1>1, CollectFacts
<1> QED
  BY <1>2, <1>3, <1>4, <1>5, <1>6, <1>7
  DEF Next, Environment, vars, Start, Refuse, Fail, Delete
-----------------------------------------------------------------------------
(* workflow_status comes after what is deleted on account of it.           *)
LEMMA StatusRank ==
  /\ Scope = Every => \A t \in Table \ {"workflow_status"} : Rank(t) < Rank("workflow_status")
  /\ Scope # Every => \A t \in workflowPayloadTables \cup {"operation_outputs"} :
                       Rank(t) < Rank("workflow_status")
BY DEF Rank, SystemTables, Table, applicationOrder, workflowPayloadTables

LEMMA TargetFacts ==
  ASSUME TypeOK
  PROVE  /\ Targets \subseteq Table
         /\ Targets # {} /\ ~NoTargets => "workflow_status" \in Targets
         /\ Scope # Every => Targets \subseteq applicationOwnedTables \cup workflowPayloadTables
         /\ Scope = Every => Targets = schema.tables
         /\ applicationOwnedTables \subseteq Unkeyed \cup {"operation_outputs", "workflow_status"}
<1>1. applicationOwnedTables \subseteq Unkeyed \cup {"operation_outputs", "workflow_status"}
  BY DEF applicationOwnedTables, applicationOrder, Unkeyed, workflowPayloadTables
<1>2. applicationOwnedTables \subseteq Table /\ workflowPayloadTables \subseteq Table
  BY <1>1 DEF Unkeyed, Table, SystemTables, workflowPayloadTables
<1>3. /\ schema.tables \subseteq Table /\ schema.named \subseteq schema.tables \cap applicationOwnedTables
      /\ schema.tables # {} => "workflow_status" \in schema.tables
      /\ schema.named # {} => "workflow_status" \in schema.named
  BY SchemaAssumption DEF TypeOK
<1> QED
  BY <1>1, <1>2, <1>3 DEF Targets, NoTargets

LEMMA RankNat == ASSUME TypeOK, NEW t \in Targets PROVE Rank(t) \in Nat
<1>1. Scope = Every => t \in Table
  BY TargetFacts
<1>2. Scope # Every => t \in applicationOwnedTables \cup workflowPayloadTables
  BY TargetFacts
<1>3. CASE Scope = Every
  BY <1>1, <1>3 DEF Rank, Table, SystemTables
<1>4. CASE Scope # Every
  BY <1>2, <1>4 DEF Rank, applicationOwnedTables, workflowPayloadTables, applicationOrder
<1> QED
  BY <1>3, <1>4

(* A transaction is only begun when there is something to delete from.     *)
Begun == pc # "idle" => ~NoTargets

LEMMA BegunStep == TypeOK /\ Begun /\ [Next]_vars => Begun'
<1> SUFFICES ASSUME TypeOK, Begun, [Next]_vars PROVE Begun'
  OBVIOUS
<1>1. ASSUME UNCHANGED schema, pc' # "idle" => pc # "idle" PROVE Begun'
  BY <1>1 DEF Begun, NoTargets
<1>2. CASE Start
  BY <1>2 DEF Start, Begun, NoTargets
<1>3. CASE Environment
  BY <1>3, <1>1 DEF Environment, Enqueue, Record, Register, Collect, ReOwn, Inserted, local
<1> QED
  BY <1>1, <1>2, <1>3
  DEF Next, vars, Refuse, Commit, CommitUnanswered, Committed, Fail, Delete

Whole == TypeOK /\ TidyInv /\ Begun /\ WholeInv

(* A row deleted on its own account belongs to a workflow that is still to *)
(* be deleted.                                                             *)
LEMMA DeletedPending ==
  ASSUME Settled, Whole, NEW t \in Table, Delete(t), t # "workflow_status",
         NEW x \in Matching(t), NEW w \in Workflow \cap There, Of[w] = Of[x]
  PROVE  "workflow_status" \in Targets \ done /\ InScope(w)
<1>1. /\ TypeOK /\ pc = "delete" /\ t \in Targets \ done /\ ~NoTargets
      /\ "workflow_status" \in Targets
  BY TargetFacts DEF Whole, Begun, Delete
<1>2. Tab[x] = t /\ x \in Row /\ x \in There \ gone
  BY MatchingThere
<1>3. Of[x] # 0 /\ t \notin Unkeyed
  BY <1>2, Sorts DEF Workflow
<1>4. CASE Scope = Every
  BY <1>1, <1>4, StatusRank DEF Whole, WholeInv, InScope
<1>5. CASE Scope # Every
  <2>1. t \in workflowPayloadTables \cup {"operation_outputs"}
    BY <1>1, <1>3, <1>5, TargetFacts
  <2>2. Rank(t) < Rank("workflow_status")
    BY <2>1, <1>5, StatusRank
  <2>3. "workflow_status" \notin done
    BY <1>1, <2>2 DEF Whole, WholeInv
  <2>4. CASE t \in workflowPayloadTables
    <3>1. PICK v \in Workflow : Of[v] = Of[x] /\ owner[v] = Scope
      BY <2>4, <1>5 DEF Matching
    <3>2. v = w
      BY <3>1, Sorts
    <3> QED
      BY <3>1, <3>2, <2>3, <1>1 DEF InScope
  <2>5. CASE t = "operation_outputs"
    <3>1. owner[x] = Scope
      BY <2>5, <1>5 DEF Matching, workflowPayloadTables
    <3>2. owner[x] \in {Absent, Null, owner[w]}
      BY <1>2, <1>5, <2>5 DEF Whole, TidyInv, Tidy, There, Workflow
    <3>3. Scope \notin {Absent, Null}
      BY <1>5, ResetAssumption
    <3> QED
      BY <3>1, <3>2, <3>3, <2>3, <1>1 DEF InScope
  <2> QED
    BY <2>1, <2>4, <2>5
<1> QED
  BY <1>4, <1>5

LEMMA DeleteWhole ==
  ASSUME Settled, Whole, NEW t \in Table, Delete(t)
  PROVE  WholeInv'
<1>1. /\ TypeOK /\ pc = "delete" /\ t \in Targets \ done
      /\ gone' = gone \cup Matching(t) \cup Cascaded(Matching(t))
      /\ done' = done \cup {t} /\ UNCHANGED <<schema, owner>>
      /\ pc' = IF Targets \subseteq done' THEN "commit" ELSE "delete"
  BY DEF Delete, Whole
<1>2. Targets' = Targets /\ There' = There
  BY <1>1 DEF Targets, There
<1>3. \A u \in Targets : Rank(u)' = Rank(u)
  BY DEF Rank
<1>4. ASSUME "workflow_status" \in done', NEW u \in Targets, Rank(u) < Rank("workflow_status")
      PROVE  u \in done'
  BY <1>1, <1>4 DEF Whole, WholeInv, Delete
<1>5. ASSUME NEW x \in gone', NEW w \in Workflow \cap There, Of[w] = Of[x], w \notin gone'
      PROVE  "workflow_status" \in Targets \ done' /\ InScope(w)
  <2>1. CASE t = "workflow_status"
    <3>1. ASSUME NEW v \in Matching(t), Of[v] = Of[w] PROVE FALSE
      <4>1. v \in Workflow
        BY <2>1, MatchingThere DEF Workflow
      <4> QED
        BY <4>1, <3>1, <1>1, <1>5, Sorts
    <3>2. x \in gone
      BY <1>1, <1>5, <3>1 DEF Cascaded
    <3>3. w \notin gone /\ InScope(w)
      BY <3>2, <1>1, <1>5 DEF Whole, WholeInv
    <3>4. w \in Matching(t)
      BY <3>3, <2>1 DEF Matching, InScope, Workflow, workflowPayloadTables
    <3> QED
      BY <3>1, <3>4
  <2>2. CASE t # "workflow_status"
    <3>1. Cascaded(Matching(t)) = {}
      BY <2>2, MatchingThere DEF Cascaded, Workflow
    <3>2. CASE x \in gone
      BY <3>2, <2>2, <1>1, <1>5 DEF Whole, WholeInv, Pending
    <3>3. CASE x \in Matching(t)
      BY <3>3, <2>2, <1>1, <1>5, DeletedPending
    <3> QED
      BY <3>1, <3>2, <3>3, <1>1
  <2> QED
    BY <2>1, <2>2
<1>6. ASSUME NEW w \in Row, InScope(w) PROVE InScope(w)'
  BY <1>1, <1>6 DEF InScope
<1>7. ASSUME NEW x \in gone', NEW w \in Workflow \cap There', Of[w] = Of[x], w \notin gone'
      PROVE  Pending("workflow_status")' /\ InScope(w)'
  <2>1. "workflow_status" \in Targets \ done' /\ InScope(w)
    BY <1>2, <1>5, <1>7
  <2> QED
    BY <2>1, <1>1, <1>2, <1>6 DEF Pending, Workflow
<1> QED
  BY <1>2, <1>3, <1>4, <1>7, TargetFacts DEF WholeInv

(* A step of the environment that leaves what is deleted and the workflows *)
(* that are in the scope of the reset where they are.                      *)
LEMMA WholeByEnvironment ==
  ASSUME Whole, UNCHANGED <<schema, pc, done, gone>>,
         \A x \in gone, w \in Workflow :
           Of[w] = Of[x] => owner'[w] \in {Absent, owner[w]} \/ Scope = Every,
         \A x \in gone, w \in Workflow :
           Of[w] = Of[x] /\ owner'[w] # Absent => owner[w] # Absent
  PROVE  WholeInv'
<1>1. Targets' = Targets /\ \A t \in Targets \cup {"workflow_status"} : Rank(t)' = Rank(t)
  BY DEF Targets, Rank
<1>2. Pending("workflow_status")' <=> Pending("workflow_status")
  BY <1>1 DEF Pending
<1>3. ASSUME NEW x \in gone, NEW w \in Workflow \cap There', Of[w] = Of[x], w \notin gone
      PROVE  Pending("workflow_status") /\ InScope(w)'
  <2>1. w \in Workflow \cap There
    BY <1>3 DEF There, Workflow
  <2>2. Pending("workflow_status") /\ InScope(w)
    BY <1>3, <2>1 DEF Whole, WholeInv
  <2> QED
    BY <1>3, <2>2 DEF InScope, There
<1> QED
  BY <1>1, <1>2, <1>3 DEF WholeInv, Whole

LEMMA WholeStep == Settled /\ Whole /\ [Next]_vars => Whole'
<1> SUFFICES ASSUME Settled, Whole, [Next]_vars PROVE WholeInv'
  BY TypeStep, TidyStep, BegunStep DEF Whole
<1>T. TypeOK /\ gone \subseteq There
  BY DEF Whole, TypeOK
<1>0. CASE UNCHANGED vars
  BY <1>0, WholeByEnvironment DEF vars
<1>1. CASE Start \/ Commit \/ CommitUnanswered \/ Fail
  <2>1. gone' = {} /\ (pc' = "idle" \/ done' = {})
    BY <1>1 DEF Start, Commit, CommitUnanswered, Committed, Fail
  <2> QED
    BY <2>1 DEF WholeInv
<1>2. CASE Refuse
  BY <1>2, WholeByEnvironment DEF Refuse
<1>3. ASSUME NEW t \in Table, Delete(t) PROVE WholeInv'
  BY <1>3, DeleteWhole
<1>4. ASSUME NEW n \in Busy, NEW w \in Workflow, Enqueue(n, w) PROVE WholeInv'
  <2>1. \A x \in gone : Of[x] # Of[w]
    BY <1>4, <1>T, EnqueueFacts DEF There
  <2>2. \A v \in Workflow : Of[v] # Of[w] => owner'[v] = owner[v]
    BY <1>4, <1>T, EnqueueFacts DEF Workflow
  <2> QED
    BY <1>4, <1>T, <2>1, <2>2, EnqueueFacts, WholeByEnvironment
<1>5. ASSUME NEW n \in Busy, NEW x \in Row, Record(n, x) PROVE WholeInv'
  <2>1. \A v \in Workflow : owner'[v] = owner[v]
    BY <1>5, <1>T, RecordFacts DEF Workflow
  <2> QED
    BY <1>5, <1>T, <2>1, RecordFacts, WholeByEnvironment
<1>6. ASSUME NEW n \in Busy, NEW x \in Row, Register(n, x) PROVE WholeInv'
  <2>1. \A v \in Workflow : owner'[v] = owner[v]
    BY <1>6, <1>T, RegisterFacts, Sorts DEF Workflow
  <2> QED
    BY <1>6, <1>T, <2>1, RegisterFacts, WholeByEnvironment
<1>7. ASSUME NEW n \in Busy, NEW w \in Workflow, Collect(n, w) PROVE WholeInv'
  <2>1. \A v \in Workflow : owner'[v] \in {Absent, owner[v]}
    BY <1>7, <1>T, CollectFacts DEF Workflow
  <2> QED
    BY <1>7, <1>T, <2>1, CollectFacts, WholeByEnvironment
<1>8. ASSUME NEW p \in Renames, NEW S \in SUBSET Held(p[1]), ReOwn(p, S) PROVE WholeInv'
  <2>1. Scope = Every
    BY <1>8 DEF Settled
  <2>2. UNCHANGED <<schema, pc, done, gone>>
    BY <1>8 DEF ReOwn, local
  <2>3. \A w \in Workflow : owner'[w] # Absent => owner[w] # Absent
    BY <1>8 DEF ReOwn, Held, There, Workflow
  <2> QED
    BY <2>1, <2>2, <2>3, WholeByEnvironment
<1> QED
  BY <1>0, <1>1, <1>2, <1>3, <1>4, <1>5, <1>6, <1>7, <1>8 DEF Next, Environment

LEMMA WholeInit == Settled /\ Init => Whole
<1> SUFFICES ASSUME Settled, Init PROVE Whole
  OBVIOUS
<1>1. TypeOK
  BY InitType
<1>2. TidyInv
  BY DEF Init, Settled, TidyInv
<1> QED
  BY <1>1, <1>2 DEF Init, Whole, Begun, WholeInv

(* A reset never leaves a workflow without rows it had, however it         *)
(* interleaves with applications: a reset of the schema even beside        *)
(* renames, one of an application while nobody re-owns rows and steps      *)
(* name their workflow's owner (the order of the DELETEs, resetTargets).   *)
THEOREM WorkflowsGoWhole == ASSUME Settled PROVE Spec => RemovedWhole
<1>1. Spec => []Whole
  <2>1. Settled
    OBVIOUS
  <2>2. Init => Whole
    BY <2>1, WholeInit
  <2>3. Whole /\ [Next]_vars => Whole'
    BY <2>1, WholeStep
  <2> QED
    BY <2>2, <2>3, PTL DEF Spec
<1>2. ASSUME Whole, [Next]_vars
      PROVE  [\A x \in There, w \in Workflow :
                x \in gone /\ owner'[x] = Absent /\ Of[w] = Of[x] => owner'[w] = Absent]_vars
  <2> SUFFICES ASSUME NEW x \in There, NEW w \in Workflow, x \in gone,
                      owner'[x] = Absent, Of[w] = Of[x]
               PROVE  owner'[w] = Absent \/ UNCHANGED vars
    OBVIOUS
  <2>T. TypeOK /\ owner[x] # Absent /\ x \in Row
    BY <1>2 DEF Whole, There
  <2>1. CASE Commit \/ CommitUnanswered
    <3>1. pc = "commit" /\ owner' = [y \in Row |-> IF y \in gone THEN Absent ELSE owner[y]]
      BY <2>1 DEF Commit, CommitUnanswered, Committed
    <3>2. w \in Row /\ (w \in There => w \in gone)
      BY <1>2, <3>1 DEF Whole, WholeInv, Pending, Workflow
    <3> QED
      BY <3>1, <3>2 DEF There
  <2>2. CASE UNCHANGED owner
    BY <2>2, <2>T
  <2>3. ASSUME NEW n \in Busy, NEW v \in Workflow, Enqueue(n, v) PROVE FALSE
    BY <2>3, <2>T, EnqueueFacts
  <2>4. ASSUME NEW n \in Busy, NEW y \in Row, Record(n, y) \/ Register(n, y) PROVE FALSE
    BY <2>4, <2>T, RecordFacts, RegisterFacts
  <2>5. ASSUME NEW n \in Busy, NEW v \in Workflow, Collect(n, v) PROVE FALSE
    BY <2>5, <2>T, CollectFacts
  <2>6. ASSUME NEW p \in Renames, NEW S \in SUBSET Held(p[1]), ReOwn(p, S) PROVE FALSE
    <3>1. p[2] # Absent
      BY ResetAssumption
    <3> QED
      BY <2>6, <2>T, <3>1 DEF ReOwn
  <2> QED
    BY <1>2, <2>1, <2>2, <2>3, <2>4, <2>5, <2>6
    DEF Next, Environment, Start, Refuse, Fail, Delete
<1>3. Spec => [][\A x \in There, w \in Workflow :
                x \in gone /\ owner'[x] = Absent /\ Of[w] = Of[x] => owner'[w] = Absent]_vars
  BY <1>1, <1>2, PTL DEF Spec
<1> QED
  BY <1>3 DEF RemovedWhole
-----------------------------------------------------------------------------
(* Nobody else touches what the transaction has deleted.                   *)
LEMMA GoneKept ==
  ASSUME TypeOK, Environment, Scope = Every \/ Renames = {}
  PROVE  /\ UNCHANGED <<schema, pc, done, gone>>
         /\ \A x \in gone : owner'[x] = owner[x] \/ Scope = Every
         /\ \A x \in gone : owner'[x] # Absent
<1>T. \A x \in gone : x \in Row /\ owner[x] # Absent
  BY DEF TypeOK, There
<1>1. ASSUME NEW n \in Busy, NEW w \in Workflow, Enqueue(n, w)
      PROVE  UNCHANGED <<schema, pc, done, gone>> /\ \A x \in gone : owner'[x] = owner[x]
  BY <1>1, <1>T, EnqueueFacts
<1>2. ASSUME NEW n \in Busy, NEW y \in Row, Record(n, y)
      PROVE  UNCHANGED <<schema, pc, done, gone>> /\ \A x \in gone : owner'[x] = owner[x]
  BY <1>2, <1>T, RecordFacts
<1>3. ASSUME NEW n \in Busy, NEW y \in Row, Register(n, y)
      PROVE  UNCHANGED <<schema, pc, done, gone>> /\ \A x \in gone : owner'[x] = owner[x]
  BY <1>3, <1>T, RegisterFacts
<1>4. ASSUME NEW n \in Busy, NEW w \in Workflow, Collect(n, w)
      PROVE  UNCHANGED <<schema, pc, done, gone>> /\ \A x \in gone : owner'[x] = owner[x]
  BY <1>4, CollectFacts
<1>5. ASSUME NEW p \in Renames, NEW S \in SUBSET Held(p[1]), ReOwn(p, S)
      PROVE  /\ UNCHANGED <<schema, pc, done, gone>> /\ Scope = Every
             /\ \A x \in gone : owner'[x] # Absent
  <2>1. p[2] # Absent
    BY ResetAssumption
  <2> QED
    BY <1>5, <1>T, <2>1 DEF ReOwn, local
<1> QED
  BY <1>T, <1>1, <1>2, <1>3, <1>4, <1>5 DEF Environment

LEMMA OwnStep == Settled /\ TypeOK /\ OwnInv /\ [Next]_vars => OwnInv'
<1> SUFFICES ASSUME Settled, TypeOK, OwnInv, [Next]_vars PROVE OwnInv'
  OBVIOUS
<1>1. ASSUME UNCHANGED <<owner, gone>> \/ gone' = {} PROVE OwnInv'
  BY <1>1 DEF OwnInv, InScope
<1>2. ASSUME NEW t \in Table, Delete(t) PROVE OwnInv'
  <2>1. gone' = gone \cup Matching(t) \cup Cascaded(Matching(t)) /\ UNCHANGED owner
    BY <1>2 DEF Delete
  <2>2. ASSUME NEW x \in Cascaded(Matching(t)) PROVE Of[x] # 0 /\ x \notin Workflow
    <3>1. Tab[x] \in ForeignKey \cup {"operation_outputs"} /\ x \in Row
      BY <2>2 DEF Cascaded, Cascades, There
    <3> QED
      BY <3>1, Sorts DEF ForeignKey, Workflow, Unkeyed
  <2>3. ASSUME NEW x \in Matching(t), Of[x] = 0 \/ x \in Workflow PROVE InScope(x)
    <3>1. x \in Row /\ Tab[x] = t
      BY MatchingThere
    <3>2. t \notin workflowPayloadTables
      BY <2>3, <3>1, Sorts DEF Workflow, workflowPayloadTables, Unkeyed
    <3> QED
      BY <3>2 DEF Matching, InScope
  <2> QED
    BY <2>1, <2>2, <2>3 DEF OwnInv, InScope
<1>3. CASE Environment
  <2>1. /\ UNCHANGED gone
        /\ \A x \in gone : owner'[x] = owner[x] \/ Scope = Every
    BY <1>3, GoneKept DEF Settled
  <2> QED
    BY <2>1 DEF OwnInv, InScope
<1> QED
  BY <1>1, <1>2, <1>3
  DEF Next, vars, Start, Refuse, Commit, CommitUnanswered, Committed, Fail

(* A reset of one application takes nothing that belongs to another or to  *)
(* nobody, while nobody re-owns rows and steps name their workflow's owner *)
(* (the WHERE of each DELETE).                                             *)
THEOREM OthersAreLeft == ASSUME Settled, Scope # Every PROVE Spec => OthersUntouched
<1>1. Spec => [](Whole /\ OwnInv)
  <2>1. Settled
    OBVIOUS
  <2>2. Init => Whole /\ OwnInv
    BY <2>1, WholeInit DEF Init, OwnInv
  <2>3. Whole /\ OwnInv /\ [Next]_vars => Whole' /\ OwnInv'
    BY <2>1, WholeStep, OwnStep DEF Whole
  <2> QED
    BY <2>2, <2>3, PTL DEF Spec
<1>2. ASSUME Whole, OwnInv, [Next]_vars
      PROVE  [\A x \in There : x \in gone /\ Theirs(x) => owner'[x] = owner[x]]_vars
  <2> SUFFICES ASSUME NEW x \in There, x \in gone, Theirs(x)
               PROVE  owner'[x] = owner[x]
    OBVIOUS
  <2>1. CASE Commit \/ CommitUnanswered
    <3>1. pc = "commit"
      BY <2>1 DEF Commit, CommitUnanswered, Committed
    <3>2. CASE Of[x] = 0
      BY <3>2, <1>2 DEF Theirs, OwnInv, InScope
    <3>3. CASE Of[x] # 0
      <4>1. PICK w \in Workflow \cap There : Of[w] = Of[x] /\ owner[w] # Scope
        BY <3>3 DEF Theirs
      <4>2. w \in gone
        BY <4>1, <3>1, <1>2 DEF Whole, WholeInv, Pending
      <4> QED
        BY <4>1, <4>2, <1>2 DEF OwnInv, InScope
    <3> QED
      BY <3>2, <3>3
  <2>2. CASE Environment
    BY <2>2, <1>2, GoneKept DEF Whole, Settled
  <2> QED
    BY <1>2, <2>1, <2>2 DEF Next, vars, Start, Refuse, Fail, Delete
<1>3. Spec => [][\A x \in There : x \in gone /\ Theirs(x) => owner'[x] = owner[x]]_vars
  BY <1>1, <1>2, PTL DEF Spec
<1> QED
  BY <1>3 DEF OthersUntouched
-----------------------------------------------------------------------------
Taken == TypeOK /\ InTables /\ TakenInv

(* What applications insert goes to the schema's tables, and is not what   *)
(* the reset was asked for.                                                *)
LEMMA TakenByInsert ==
  ASSUME Scope = Every, Taken, NEW S,
         asked' = asked \ S, UNCHANGED <<schema, pc, done, gone, outcome, removed>>,
         \A x \in Row \ S : owner'[x] = owner[x],
         \A x \in Row \cap S : owner'[x] # Absent => Tab[x] \in schema.tables
  PROVE  InTables' /\ TakenInv'
<1>1. asked' = asked \ S /\ UNCHANGED <<schema, pc, done, gone, outcome, removed>>
  OBVIOUS
<1>2. asked' \cap There' \subseteq asked \cap There
  BY <1>1 DEF There
<1>3. Targets' = Targets
  BY <1>1 DEF Targets
<1>4. InTables'
  BY <1>1 DEF Taken, InTables, There
<1> QED
  BY <1>1, <1>2, <1>3, <1>4 DEF Taken, TakenInv, Pending

LEMMA TakenStep == Scope = Every /\ Taken /\ [Next]_vars => Taken'
<1> SUFFICES ASSUME Scope = Every, Taken, [Next]_vars PROVE InTables' /\ TakenInv'
  BY TypeStep DEF Taken
<1>T. TypeOK /\ InTables /\ TakenInv /\ Targets = schema.tables
  BY DEF Taken, Targets
(* A step that inserts nothing.                                            *)
<1>I. ASSUME UNCHANGED schema, There' \subseteq There PROVE InTables'
  BY <1>I, <1>T DEF InTables
<1>0. CASE UNCHANGED vars
  BY <1>0, <1>T DEF vars, InTables, TakenInv, Pending, Targets, There
<1>1. CASE Start
  <2>1. There' = There /\ Targets' = Targets
    BY <1>1 DEF Start, There, Targets
  <2> QED
    BY <1>1, <1>T, <1>I, <2>1 DEF Start, TakenInv, Pending, InTables
<1>2. CASE Refuse
  BY <1>2, <1>T, <1>I DEF Refuse, TakenInv, There
<1>3. ASSUME NEW t \in Table, Delete(t) PROVE InTables' /\ TakenInv'
  <2>1. /\ There' = There /\ Targets' = Targets /\ asked' = asked /\ pc = "delete"
        /\ gone \cup Matching(t) \subseteq gone' /\ done' = done \cup {t}
        /\ pc' = IF Targets \subseteq done' THEN "commit" ELSE "delete"
        /\ outcome' = outcome /\ schema' = schema /\ removed' = removed
    BY <1>3 DEF Delete, There, Targets
  <2>2. ASSUME NEW x \in asked \cap There, x \notin gone' PROVE Tab[x] \in Targets \ done'
    <3>1. Tab[x] # t
      BY <2>1, <2>2, <1>T DEF Matching, There
    <3> QED
      BY <2>1, <2>2, <3>1, <1>T DEF TakenInv, Pending
  <2> QED
    BY <2>1, <2>2, <1>T, <1>I DEF TakenInv, Pending
<1>4. CASE Commit \/ CommitUnanswered
  <2>1. /\ pc = "commit" /\ pc' = "idle" /\ asked' = asked /\ schema' = schema
        /\ There' = There \ gone
    BY <1>4 DEF Commit, CommitUnanswered, Committed, There
  <2>2. asked \cap There \subseteq gone
    BY <2>1, <1>T DEF TakenInv, Pending
  <2> QED
    BY <2>1, <2>2, <1>I DEF TakenInv
<1>5. CASE Fail
  <2>1. /\ There' = There /\ schema' = schema /\ pc' = "idle" /\ outcome' = "failed"
        /\ pc # "idle" /\ removed' = removed
    BY <1>5 DEF Fail, There
  <2> QED
    BY <2>1, <1>T, <1>I DEF TakenInv
<1>6. ASSUME NEW n \in Busy, NEW w \in Workflow, Enqueue(n, w) PROVE InTables' /\ TakenInv'
  <2> DEFINE input == {x \in OfWorkflow(w) : Tab[x] = "workflow_input" /\ Tab[x] \in schema.tables}
             f == [x \in Row |-> IF x = w THEN (IF "workflow_status" \in schema.named THEN n ELSE Null)
                                 ELSE IF x \in input THEN Null ELSE owner[x]]
  <2>1. /\ owner' = f /\ asked' = asked \ ({w} \cup input)
        /\ UNCHANGED <<schema, pc, done, gone, outcome, removed>>
        /\ "workflow_status" \in schema.tables
    BY <1>6 DEF Enqueue, Inserted
  <2>2. \A x \in Row \ ({w} \cup input) : owner'[x] = owner[x]
    BY <2>1
  <2>3. \A x \in Row \cap ({w} \cup input) : Tab[x] \in schema.tables
    BY <2>1 DEF Workflow
  <2> HIDE DEF f, input
  <2> QED
    BY <2>1, <2>2, <2>3, <1>T, TakenByInsert
<1>7. ASSUME NEW n \in Busy, NEW x \in Row, Record(n, x) \/ Register(n, x)
      PROVE  InTables' /\ TakenInv'
  <2>1. /\ asked' = asked \ {x} /\ UNCHANGED <<schema, pc, done, gone, outcome, removed>>
        /\ \E o : owner' = [owner EXCEPT ![x] = o]
        /\ Tab[x] \in schema.tables
    BY <1>7 DEF Record, Register, Inserted
  <2>2. \A y \in Row \ {x} : owner'[y] = owner[y]
    BY <2>1, <1>T DEF TypeOK
  <2>3. \A y \in Row \cap {x} : owner'[y] # Absent => Tab[y] \in schema.tables
    BY <2>1
  <2> DEFINE S == {x}
  <2>4. /\ asked' = asked \ S
        /\ \A y \in Row \ S : owner'[y] = owner[y]
        /\ \A y \in Row \cap S : owner'[y] # Absent => Tab[y] \in schema.tables
    BY <2>1, <2>2, <2>3
  <2> HIDE DEF S
  <2> QED
    BY <2>1, <2>4, TakenByInsert
<1>8. ASSUME NEW n \in Busy, NEW w \in Workflow, Collect(n, w) PROVE InTables' /\ TakenInv'
  <2>1. /\ There' \subseteq There /\ asked' \subseteq asked
        /\ UNCHANGED <<schema, pc, done, gone, outcome, removed>>
    BY <1>8, <1>T DEF Collect, There
  <2>2. Targets' = Targets
    BY <2>1 DEF Targets
  <2> QED
    BY <2>1, <2>2, <1>T, <1>I DEF TakenInv, Pending
<1>9. ASSUME NEW p \in Renames, NEW S \in SUBSET Held(p[1]), ReOwn(p, S) PROVE InTables' /\ TakenInv'
  <2>1. /\ There' \subseteq There
        /\ UNCHANGED <<schema, pc, done, gone, outcome, asked, removed>>
    BY <1>9 DEF ReOwn, There, Held, local
  <2>2. Targets' = Targets
    BY <2>1 DEF Targets
  <2> QED
    BY <2>1, <2>2, <1>T, <1>I DEF TakenInv, Pending
<1> QED
  BY <1>0, <1>1, <1>2, <1>3, <1>4, <1>5, <1>6, <1>7, <1>8, <1>9 DEF Next, Environment

(* A reset of the schema that is reported as failed has deleted nothing or *)
(* everything, also beside applications (the one transaction of Empty).    *)
THEOREM FailedTakesAllOrNothing == ASSUME Scope = Every PROVE Spec => []AllOrNothing
<1>1. Init => Taken
  BY InitType DEF Init, Taken, InTables, TakenInv
<1>2. Scope = Every
  OBVIOUS
<1>3. Taken /\ [Next]_vars => Taken'
  BY <1>2, TakenStep
<1>4. Taken => AllOrNothing
  BY DEF Taken, TakenInv, AllOrNothing
<1> QED
  BY <1>1, <1>3, <1>4, PTL DEF Spec

(* A reset of the schema that reports success has deleted every row that   *)
(* was there when it began, in a schema of any version and beside          *)
(* applications and renames (SystemTables, and one transaction).           *)
THEOREM ResetTakesAll == ASSUME Scope = Every PROVE Spec => []TakesAll
<1>1. Init => Taken
  BY InitType DEF Init, Taken, InTables, TakenInv
<1>2. Scope = Every
  OBVIOUS
<1>3. Taken /\ [Next]_vars => Taken'
  BY <1>2, TakenStep
<1>4. Taken => TakesAll
  BY DEF Taken, TakenInv, TakesAll
<1> QED
  BY <1>1, <1>3, <1>4, PTL DEF Spec
-----------------------------------------------------------------------------
(* A reset of one application, while nobody re-owns rows.                  *)
OfApplication == TypeOK /\ StepsNamed /\ NamedInTables /\ InTables /\ DueInv

LEMMA OneScope ==
  ASSUME TypeOK, Scope # Every
  PROVE  /\ Scope # Null /\ Scope # Absent
         /\ \A t \in schema.named : t \in Targets /\ t \notin workflowPayloadTables
         /\ \A t \in workflowPayloadTables \cap schema.tables : t \in Targets
         /\ ~schema.cascade => "operation_outputs" \in schema.named
         /\ \A x \in Row : Tab[x] \in Table
         /\ Table \subseteq Unkeyed \cup ForeignKey \cup workflowPayloadTables
                              \cup {"workflow_status", "operation_outputs"}
<1>1. Scope # Null /\ Scope # Absent
  BY ResetAssumption
<1>2. schema.named \subseteq applicationOwnedTables /\ (~schema.cascade => "operation_outputs" \in schema.named)
  BY SchemaAssumption DEF TypeOK
<1>3. Table \subseteq Unkeyed \cup ForeignKey \cup workflowPayloadTables
                              \cup {"workflow_status", "operation_outputs"}
  BY DEF Table, SystemTables, Unkeyed, ForeignKey, workflowPayloadTables
<1> QED
  BY <1>1, <1>2, <1>3, Sorts DEF Targets, applicationOwnedTables

(* What is inserted goes to a table, bears no name where there is no       *)
(* column, and if it is a step, its workflow's.                            *)
LEMMA PlacedStep ==
  Renames = {} /\ TypeOK /\ StepsNamed /\ NamedInTables /\ InTables /\ [Next]_vars
    => StepsNamed' /\ NamedInTables' /\ InTables'
<1> SUFFICES ASSUME Renames = {}, TypeOK, StepsNamed, NamedInTables, InTables, [Next]_vars
             PROVE  StepsNamed' /\ NamedInTables' /\ InTables'
  OBVIOUS
<1> DEFINE Good == StepsNamed' /\ NamedInTables' /\ InTables'
<1>1. ASSUME schema' = schema, \A x \in Row : owner'[x] \in {Absent, owner[x]} PROVE Good
  BY <1>1 DEF StepsNamed, NamedInTables, InTables, There, Workflow
<1>2. CASE Commit \/ CommitUnanswered
  <2>1. schema' = schema /\ \A x \in Row : owner'[x] \in {Absent, owner[x]}
    BY <1>2 DEF Commit, CommitUnanswered, Committed
  <2> QED
    BY <2>1, <1>1
<1>3. CASE UNCHANGED <<schema, owner>>
  BY <1>3, <1>1
<1>4. ASSUME NEW n \in Busy, NEW w \in Workflow, Enqueue(n, w) PROVE Good
  <2>1. PICK input \in SUBSET OfWorkflow(w) :
          /\ \A y \in input : Tab[y] = "workflow_input" /\ Tab[y] \in schema.tables
          /\ owner' = [x \in Row |-> IF x = w THEN (IF "workflow_status" \in schema.named THEN n ELSE Null)
                                     ELSE IF x \in input THEN Null ELSE owner[x]]
    BY <1>4 DEF Enqueue, Inserted
  <2>2. "workflow_status" \in schema.tables /\ schema' = schema /\ Tab[w] = "workflow_status"
    BY <1>4 DEF Enqueue, Inserted, Workflow
  <2>3. NamedInTables' /\ InTables'
    BY <2>1, <2>2 DEF NamedInTables, InTables, There
  <2>4. ASSUME NEW x \in There', NEW v \in Workflow \cap There',
               Tab[x] = "operation_outputs", Of[x] = Of[v], ~schema.cascade
        PROVE  owner'[x] = owner'[v]
    <3>1. Of[x] # Of[w] /\ x \in Row /\ v \in Row
      BY <1>4, <2>4, EnqueueFacts DEF There, Workflow
    <3>2. owner'[x] = owner[x] /\ owner'[v] = owner[v]
      BY <1>4, <2>4, <3>1, EnqueueFacts
    <3> QED
      BY <2>4, <3>1, <3>2 DEF StepsNamed, There
  <2> QED
    BY <2>2, <2>3, <2>4 DEF StepsNamed
<1>5. ASSUME NEW n \in Busy, NEW x \in Row, Record(n, x) PROVE Good
  <2>1. PICK w \in Workflow \cap There :
          /\ Of[w] = Of[x]
          /\ owner' = [owner EXCEPT ![x] = IF Tab[x] \in schema.named THEN owner[w] ELSE Null]
          /\ schema' = schema
    BY <1>5 DEF Record, Inserted
  <2>2. x \notin Workflow /\ Tab[x] \in schema.tables /\ \A y \in Row \ {x} : owner'[y] = owner[y]
    BY <1>5, RecordFacts DEF Record
  <2>3. owner'[x] = IF Tab[x] \in schema.named THEN owner[w] ELSE Null
    BY <2>1 DEF TypeOK
  <2>4. NamedInTables' /\ InTables'
    BY <2>1, <2>2, <2>3 DEF NamedInTables, InTables, There
  <2>5. ASSUME NEW y \in There', NEW v \in Workflow \cap There',
               Tab[y] = "operation_outputs", Of[y] = Of[v], ~schema.cascade
        PROVE  owner'[y] = owner'[v]
    <3>1. owner'[v] = owner[v] /\ v \in There /\ y \in Row
      BY <2>2, <2>5 DEF There, Workflow
    <3>2. CASE y = x
      <4>1. v = w
        BY <3>2, <2>1, <2>5, Sorts
      <4>2. "operation_outputs" \in schema.named
        BY <2>5, SchemaAssumption DEF TypeOK
      <4> QED
        BY <4>1, <4>2, <3>1, <3>2, <2>3, <2>5
    <3>3. CASE y # x
      BY <3>1, <3>3, <2>2, <2>5 DEF StepsNamed, There
    <3> QED
      BY <3>2, <3>3
  <2> QED
    BY <2>1, <2>4, <2>5 DEF StepsNamed
<1>6. ASSUME NEW n \in Busy, NEW x \in Row, Register(n, x) PROVE Good
  <2>1. /\ \A y \in Row \ {x} : owner'[y] = owner[y] /\ schema' = schema
        /\ Tab[x] \in schema.tables \cap Unkeyed
        /\ Tab[x] \notin schema.named => owner'[x] = Null
    BY <1>6, RegisterFacts DEF Register, Inserted, TypeOK
  <2>2. x \notin Workflow /\ Tab[x] # "operation_outputs" /\ schema' = schema
    BY <2>1, <1>6, RegisterFacts DEF Workflow, Unkeyed
  <2> QED
    BY <2>1, <2>2 DEF StepsNamed, NamedInTables, InTables, There, Workflow
<1>7. ASSUME NEW n \in Busy, NEW w \in Workflow, Collect(n, w) PROVE Good
  BY <1>7, <1>1, CollectFacts
<1> QED
  BY <1>2, <1>3, <1>4, <1>5, <1>6, <1>7
  DEF Next, Environment, vars, Start, Refuse, Fail, Delete

(* When a reset begins, all that it is asked to delete is due: a row with  *)
(* the application's name is in a table that it deletes from, and one of a *)
(* workflow of the application goes with it or has a table of its own.     *)
LEMMA AskedIsDue ==
  ASSUME Scope # Every, OfApplication, Start, NEW x \in There, Owned(x)
  PROVE  Due(x)'
<1>1. /\ pc' = "delete" /\ done' = {} /\ gone' = {} /\ schema' = schema /\ owner' = owner
      /\ Targets' = Targets
  BY DEF Start, Targets
<1>2. \A t \in Targets : Pending(t)'
  BY <1>1 DEF Pending
<1>3. TypeOK /\ x \in Row /\ x \in There
  BY DEF OfApplication, There
<1>4. CASE owner[x] = Scope
  <2>1. Tab[x] \in schema.named
    BY <1>3, <1>4, OneScope DEF OfApplication, NamedInTables
  <2> QED
    BY <2>1, <1>1, <1>2, <1>3, <1>4, OneScope DEF Due
<1>5. ASSUME NEW w \in Workflow, Of[w] = Of[x], owner[w] = Scope PROVE Due(x)'
  <2>1. w \in There /\ Tab[w] = "workflow_status"
    BY <1>3, <1>5, OneScope DEF There, Workflow
  <2>2. "workflow_status" \in schema.named
    BY <2>1, <1>3, <1>5, OneScope DEF OfApplication, NamedInTables
  <2>3. Pending("workflow_status")'
    BY <2>2, <1>2, <1>3, OneScope
  <2>4. Tab[x] \notin Unkeyed
    BY <1>3, <1>5, <2>1, Sorts DEF Workflow
  <2>5. CASE Tab[x] \in workflowPayloadTables
    <3>1. Pending(Tab[x])'
      BY <2>5, <1>2, <1>3, OneScope DEF OfApplication, InTables
    <3> QED
      BY <3>1, <2>3, <2>5, <1>1, <1>5 DEF Due
  <2>6. CASE Tab[x] \in Cascades
    BY <2>6, <2>3, <1>1, <1>5 DEF Due, Cascades
  <2>7. CASE Tab[x] = "operation_outputs" /\ ~schema.cascade
    BY <2>7, <2>1, <1>3, <1>4, <1>5 DEF OfApplication, StepsNamed
  <2>8. CASE Tab[x] = "workflow_status"
    <3>1. x = w
      BY <2>8, <1>3, <1>5, Sorts DEF Workflow
    <3> QED
      BY <3>1, <1>4, <1>5
  <2> QED
    BY <2>4, <2>5, <2>6, <2>7, <2>8, <1>3, OneScope DEF Cascades
<1> QED
  BY <1>4, <1>5 DEF Owned

(* A DELETE takes what is due in its table, that of workflow_status also   *)
(* what cascades, and nothing else ceases to be due.                       *)
LEMMA DueByDelete ==
  ASSUME Scope # Every, OfApplication, NEW t \in Table, Delete(t), NEW x \in There, Due(x)
  PROVE  Due(x)'
<1>1. /\ pc = "delete" /\ t \in Targets \ done /\ done' = done \cup {t}
      /\ gone' = gone \cup Matching(t) \cup Cascaded(Matching(t))
      /\ pc' = IF Targets \subseteq done' THEN "commit" ELSE "delete"
      /\ schema' = schema /\ owner' = owner /\ Targets' = Targets
  BY DEF Delete, Targets
<1>2. \A u : Pending(u) /\ u # t => Pending(u)'
  BY <1>1 DEF Pending
<1>3. TypeOK /\ x \in Row
  BY DEF OfApplication, There
<1>4. CASE x \in gone
  BY <1>4, <1>1 DEF Due
<1>5. CASE owner[x] = Scope /\ Pending(Tab[x])
  <2>1. CASE Tab[x] = t /\ x \notin gone
    <3>1. t \notin workflowPayloadTables
      BY <2>1, <1>3, <1>5, OneScope DEF OfApplication, NamedInTables
    <3>2. x \in Matching(t)
      BY <2>1, <3>1, <1>5 DEF Matching
    <3> QED
      BY <3>2, <1>1 DEF Due
  <2>2. CASE Tab[x] # t
    BY <2>2, <1>1, <1>2, <1>5 DEF Due
  <2> QED
    BY <2>1, <2>2, <1>4
<1>6. ASSUME NEW w \in Workflow \ gone, Of[w] = Of[x], owner[w] = Scope,
             Pending("workflow_status"), x \notin gone,
             Tab[x] \in Cascades \/ (Tab[x] \in workflowPayloadTables /\ Pending(Tab[x]))
      PROVE  Due(x)'
  <2>0. w \in There \ gone /\ Tab[w] = "workflow_status"
    BY <1>3, <1>6, OneScope DEF There, Workflow
  <2>1. CASE t = "workflow_status"
    <3>1. w \in Matching(t)
      BY <2>0, <2>1, <1>6 DEF Matching
    <3>2. Tab[x] \in Cascades
      <4>1. ASSUME Tab[x] \in workflowPayloadTables, Pending(Tab[x]) PROVE FALSE
        <5>1. Rank(Tab[x]) < Rank(t)
          BY <4>1, <2>1, StatusRank
        <5> QED
          BY <5>1, <4>1 DEF Delete, Pending
      <4> QED
        BY <4>1, <1>6
    <3> QED
      BY <3>1, <3>2, <1>1, <1>6 DEF Due, Cascaded
  <2>2. CASE t # "workflow_status"
    <3>1. w \notin Matching(t) /\ Cascaded(Matching(t)) = {}
      BY <2>0, <2>2, MatchingThere DEF Cascaded, Workflow
    <3>2. w \in Workflow \ gone' /\ Pending("workflow_status")'
      BY <3>1, <2>2, <1>1, <1>2, <1>6
    <3>3. CASE Tab[x] \in Cascades
      BY <3>2, <3>3, <1>1, <1>6 DEF Due, Cascades
    <3>4. CASE Tab[x] \in workflowPayloadTables /\ Pending(Tab[x]) /\ Tab[x] # t
      BY <3>2, <3>4, <1>1, <1>2, <1>6 DEF Due
    <3>5. CASE Tab[x] \in workflowPayloadTables /\ Tab[x] = t
      <4>1. x \in Matching(t)
        BY <3>5, <1>6 DEF Matching
      <4> QED
        BY <4>1, <1>1 DEF Due
    <3> QED
      BY <3>3, <3>4, <3>5, <1>6
  <2> QED
    BY <2>1, <2>2
<1> QED
  BY <1>4, <1>5, <1>6 DEF Due

(* A step of an application that leaves x, and a workflow of its that is   *)
(* the reset application's, where they are.                                *)
LEMMA DueBeside ==
  ASSUME NEW x, Due(x), UNCHANGED <<schema, pc, done, gone>>, owner'[x] = owner[x],
         \A w \in Workflow : Of[w] = Of[x] /\ owner[w] = Scope => owner'[w] = Scope
                               \/ (x \notin gone => owner[x] = Scope /\ Pending(Tab[x]))
  PROVE  Due(x)'
<1>1. Targets' = Targets
  BY DEF Targets
<1>2. \A t : Pending(t) => Pending(t)'
  BY <1>1 DEF Pending
<1> QED
  BY <1>2 DEF Due, Cascades

LEMMA DueStep ==
  Scope # Every /\ Renames = {} /\ OfApplication /\ [Next]_vars => OfApplication'
<1> SUFFICES ASSUME Scope # Every, Renames = {}, OfApplication, [Next]_vars PROVE DueInv'
  BY TypeStep, PlacedStep DEF OfApplication
<1>T. TypeOK /\ DueInv
  BY DEF OfApplication
(* A step that inserts what was not asked for, or leaves the rows alone.   *)
<1>I. ASSUME UNCHANGED <<schema, pc, done, gone, outcome, removed>>,
             asked' \cap There' \subseteq asked \cap There,
             \A x \in asked' \cap There' : Due(x) => Due(x)'
      PROVE  DueInv'
  BY <1>I, <1>T DEF DueInv
<1>0. CASE UNCHANGED vars
  BY <1>0, <1>T DEF vars, DueInv, Due, Pending, Targets, There, Cascades
<1>1. CASE Start
  <2>1. /\ outcome' = "none" /\ removed' = {} /\ There' = There
        /\ asked' = {x \in There : Owned(x)}
    BY <1>1 DEF Start, There
  <2> QED
    BY <2>1, <1>1, AskedIsDue DEF DueInv
<1>2. CASE Refuse
  BY <1>2, <1>T DEF Refuse, DueInv
<1>3. ASSUME NEW t \in Table, Delete(t) PROVE DueInv'
  <2>1. pc # "idle" /\ UNCHANGED <<outcome, removed, asked>> /\ There' = There
    BY <1>3 DEF Delete, There
  <2> QED
    BY <2>1, <1>3, <1>T, DueByDelete DEF DueInv
<1>4. CASE Commit \/ CommitUnanswered
  <2>1. pc = "commit" /\ pc' = "idle" /\ asked' = asked /\ There' = There \ gone
    BY <1>4, <1>T DEF Commit, CommitUnanswered, Committed, There, TypeOK
  <2>2. asked \cap There \subseteq gone
    BY <2>1, <1>T DEF DueInv, Due, Pending
  <2> QED
    BY <2>1, <2>2 DEF DueInv
<1>5. CASE Fail
  BY <1>5, <1>T DEF Fail, DueInv
<1>6. ASSUME NEW n \in Busy, NEW w \in Workflow, Enqueue(n, w) PROVE DueInv'
  <2>1. PICK S :
          /\ asked' = asked \ S /\ UNCHANGED <<outcome, removed>>
          /\ \A y \in Row \ S : owner'[y] = owner[y]
    <3> DEFINE input == {x \in OfWorkflow(w) : Tab[x] = "workflow_input" /\ Tab[x] \in schema.tables}
               S == {w} \cup input
    <3>1. /\ asked' = asked \ S /\ UNCHANGED <<outcome, removed>>
          /\ owner' = [x \in Row |-> IF x = w THEN (IF "workflow_status" \in schema.named THEN n ELSE Null)
                                     ELSE IF x \in input THEN Null ELSE owner[x]]
      BY <1>6 DEF Enqueue, Inserted
    <3>2. \A y \in Row \ S : owner'[y] = owner[y]
      BY <3>1
    <3> HIDE DEF S
    <3> QED
      BY <3>1, <3>2
  <2>2. asked' \cap There' \subseteq asked \cap There
    BY <2>1 DEF There
  <2>3. UNCHANGED <<schema, pc, done, gone>>
    BY <1>6, <1>T, EnqueueFacts
  <2>4. ASSUME NEW x \in asked' \cap There', Due(x) PROVE Due(x)'
    <3>1. x \in Row /\ owner[x] # Absent
      BY <2>2, <2>4 DEF There
    <3>2. Of[x] # Of[w]
      BY <1>6, <1>T, <3>1, EnqueueFacts
    <3>3. \A y \in Row : Of[y] = Of[x] => owner'[y] = owner[y]
      BY <1>6, <1>T, <3>2, EnqueueFacts
    <3> QED
      BY <2>3, <2>4, <3>1, <3>3, DueBeside DEF Workflow
  <2> QED
    BY <2>1, <2>2, <2>3, <2>4, <1>I
<1>7. ASSUME NEW n \in Busy, NEW y \in Row, Record(n, y) \/ Register(n, y) PROVE DueInv'
  <2>1. /\ asked' = asked \ {y} /\ UNCHANGED <<schema, pc, done, gone, outcome, removed>>
        /\ \A x \in Row \ {y} : owner'[x] = owner[x]
    BY <1>7, <1>T, RecordFacts, RegisterFacts DEF Record, Register, Inserted
  <2>2. y \notin Workflow
    BY <1>7, <1>T, RecordFacts, RegisterFacts, Sorts DEF Workflow
  <2>3. asked' \cap There' \subseteq asked \cap There
    BY <2>1 DEF There
  <2>4. ASSUME NEW x \in asked' \cap There', Due(x) PROVE Due(x)'
    BY <2>1, <2>2, <2>4, DueBeside DEF Workflow, There
  <2> QED
    BY <2>1, <2>3, <2>4, <1>I
<1>8. ASSUME NEW n \in Busy, NEW w \in Workflow, Collect(n, w) PROVE DueInv'
  <2>1. /\ owner' = [x \in Row |-> IF x \in {w} \cup Cascaded({w}) THEN Absent ELSE owner[x]]
        /\ asked' = {x \in asked : Owned(x)'}
        /\ UNCHANGED <<schema, pc, done, gone, outcome, removed>>
    BY <1>8 DEF Collect
  <2>2. asked' \cap There' \subseteq asked \cap There
    BY <2>1 DEF There
  <2>3. ASSUME NEW x \in asked' \cap There', Due(x) PROVE Due(x)'
    <3>1. x \in Row /\ owner'[x] = owner[x] /\ owner'[x] # Absent /\ x \notin {w} \cup Cascaded({w})
      BY <2>1, <2>3 DEF There
    <3>2. \A v \in Workflow : v # w => owner'[v] = owner[v]
      <4>1. \A v \in Workflow : v \notin Cascaded({w}) /\ v \in Row
        BY DEF Cascaded, Workflow, Cascades, ForeignKey
      <4> QED
        BY <4>1, <2>1
    <3>3. CASE Of[x] # Of[w]
      BY <2>1, <2>3, <3>1, <3>2, <3>3, DueBeside
    <3>4. CASE Of[x] = Of[w]
      <4>1. owner[x] = Scope
        <5>1. ASSUME NEW v \in Workflow, Of[v] = Of[x], owner'[v] = Scope PROVE FALSE
          <6>1. v = w
            BY <3>4, <5>1, Sorts
          <6>2. owner'[w] = Absent
            BY <2>1 DEF Workflow
          <6> QED
            BY <5>1, <6>1, <6>2, <1>T, OneScope
        <5> QED
          BY <5>1, <2>1, <2>3, <3>1 DEF Owned
      <4>2. Tab[x] \notin Cascades
        BY <3>1, <3>4 DEF Cascaded, There
      <4>3. Tab[x] \notin workflowPayloadTables
        BY <4>1, <3>1, <1>T, OneScope DEF OfApplication, NamedInTables, There
      <4>4. x \notin gone => Pending(Tab[x])
        BY <2>3, <4>1, <4>2, <4>3 DEF Due
      <4> QED
        BY <2>1, <2>3, <3>1, <4>1, <4>4, DueBeside
    <3> QED
      BY <3>3, <3>4
  <2> QED
    BY <2>1, <2>2, <2>3, <1>I
<1> QED
  BY <1>0, <1>1, <1>2, <1>3, <1>4, <1>5, <1>6, <1>7, <1>8 DEF Next, Environment

LEMMA DueInit == Init /\ StepsNamed => OfApplication
BY InitType DEF Init, OfApplication, NamedInTables, InTables, DueInv

(* A reset of one application that reports success has deleted all its     *)
(* rows, those without a name of their own too, beside applications that   *)
(* enqueue, record and collect, in a database whose steps name their       *)
(* workflow's owner (resetTargets, workflowPayloadTables).                 *)
THEOREM ApplicationResetTakesAll ==
  ASSUME Scope # Every, Renames = {} PROVE StepsNamed /\ Spec => []TakesAll
<1>1. Scope # Every /\ Renames = {}
  OBVIOUS
<1>2. OfApplication /\ [Next]_vars => OfApplication'
  BY <1>1, DueStep
<1>3. OfApplication => TakesAll
  BY DEF OfApplication, DueInv, TakesAll
<1> QED
  BY DueInit, <1>2, <1>3, PTL DEF Spec

(* A reset of one application that is reported as failed has deleted none  *)
(* or all of its rows (the one transaction of Empty).                      *)
THEOREM ApplicationResetIsAtomic ==
  ASSUME Scope # Every, Renames = {} PROVE StepsNamed /\ Spec => []AllOrNothing
<1>1. Scope # Every /\ Renames = {}
  OBVIOUS
<1>2. OfApplication /\ [Next]_vars => OfApplication'
  BY <1>1, DueStep
<1>3. OfApplication => AllOrNothing
  BY DEF OfApplication, DueInv, AllOrNothing
<1> QED
  BY DueInit, <1>2, <1>3, PTL DEF Spec
-----------------------------------------------------------------------------
(* The counts                                                              *)

(* The DELETE of t counted a set M of rows of t among R, and of those that *)
(* it was asked to delete all that R has.                                  *)
RowsOf(t, R) == {x \in R : Tab[x] = t}
Counted(t, R) ==
  \E M \in SUBSET RowsOf(t, R) :
    counted[t] = Cardinality(M) /\ RowsOf(t, R \cap asked) \subseteq M

CountInv ==
  /\ pc # "idle" =>
       /\ \A t \in Table : Counted(t, gone)
       /\ \A t \in Table \ done : RowsOf(t, gone \cap asked) = {}
       /\ "workflow_status" \in done => Targets \subseteq done
  /\ outcome = "ok" => \A t \in Table : Counted(t, removed)

LEMMA FewerAsked ==
  ASSUME CountInv, asked' \subseteq asked, UNCHANGED <<schema, pc, done, gone, counted, outcome, removed>>
  PROVE  CountInv'
<1>1. Targets' = Targets
  BY DEF Targets
<1>2. ASSUME NEW t, NEW R, Counted(t, R) PROVE \E M \in SUBSET RowsOf(t, R) :
        counted'[t] = Cardinality(M) /\ RowsOf(t, R \cap asked') \subseteq M
  BY <1>2 DEF Counted, RowsOf
<1>3. \A t \in Table : Counted(t, gone) => Counted(t, gone)'
  BY <1>2 DEF Counted, RowsOf
<1>4. \A t \in Table : Counted(t, removed) => Counted(t, removed)'
  BY <1>2 DEF Counted, RowsOf
<1>5. \A t \in Table : RowsOf(t, gone \cap asked)' \subseteq RowsOf(t, gone \cap asked)
  BY DEF RowsOf
<1> QED
  BY <1>1, <1>3, <1>4, <1>5 DEF CountInv

LEMMA CascadeOfStatus ==
  ASSUME NEW t, NEW x \in Cascaded(Matching(t))
  PROVE  t = "workflow_status" /\ Tab[x] # "workflow_status" /\ x \in There
BY DEF Cascaded, Matching, Workflow, Cascades, ForeignKey, There

(* The one DELETE whose rows take others with them finds none left that it *)
(* was asked for.                                                          *)
LEMMA AskedAreCounted ==
  ASSUME Scope = Every, Taken, NEW t \in Table, Delete(t),
         NEW x \in Cascaded(Matching(t)) \cap asked
  PROVE  x \in gone /\ Tab[x] \in done
<1>1. t = "workflow_status" /\ Tab[x] # "workflow_status" /\ x \in There
  BY CascadeOfStatus
<1>2. Targets = schema.tables /\ Tab[x] \in Targets /\ Targets \subseteq Table
  BY <1>1, TargetFacts DEF Taken, InTables
<1>3. Rank(Tab[x]) < Rank(t)
  BY <1>1, <1>2, StatusRank
<1>4. pc = "delete" /\ Tab[x] \in done
  BY <1>2, <1>3 DEF Delete
<1> QED
  BY <1>1, <1>4 DEF Taken, TakenInv, Pending

LEMMA DeleteCounts ==
  ASSUME Scope = Every, Taken, CountInv, NEW u \in Table, Delete(u)
  PROVE  CountInv'
<1>1. /\ pc = "delete" /\ u \in Targets \ done /\ done' = done \cup {u}
      /\ gone' = gone \cup Matching(u) \cup Cascaded(Matching(u))
      /\ counted' = [counted EXCEPT ![u] = Cardinality(Matching(u))]
      /\ asked' = asked /\ outcome' = outcome /\ removed' = removed /\ Targets' = Targets
  BY DEF Delete, Targets
<1>2. outcome # "ok" /\ DOMAIN counted = Table
  BY <1>1 DEF Taken, TakenInv, TypeOK
<1>3. \A x \in Matching(u) : Tab[x] = u
  BY MatchingThere
<1>4. \A x \in (gone' \cap asked) \ gone :
        x \in Matching(u) \/ (x \in Cascaded(Matching(u)) \cap asked)
  BY <1>1
<1>5. \A x \in (gone' \cap asked) \ gone : x \in Matching(u)
  BY <1>4, AskedAreCounted
<1>6. RowsOf(u, gone \cap asked) = {}
  BY <1>1 DEF CountInv
<1>7. Counted(u, gone)'
  <2>1. Matching(u) \in SUBSET RowsOf(u, gone')
    BY <1>1, <1>3 DEF RowsOf
  <2>2. RowsOf(u, gone' \cap asked') \subseteq Matching(u)
    BY <1>1, <1>5, <1>6 DEF RowsOf
  <2>3. counted'[u] = Cardinality(Matching(u))
    BY <1>1, <1>2
  <2> QED
    BY <2>1, <2>2, <2>3 DEF Counted, RowsOf
<1>8. ASSUME NEW t \in Table \ {u} PROVE Counted(t, gone)'
  <2>1. RowsOf(t, gone' \cap asked') \subseteq RowsOf(t, gone \cap asked)
    BY <1>1, <1>3, <1>5 DEF RowsOf
  <2>2. PICK M \in SUBSET RowsOf(t, gone) :
          counted[t] = Cardinality(M) /\ RowsOf(t, gone \cap asked) \subseteq M
    BY <1>1 DEF CountInv, Counted
  <2>3. counted'[t] = counted[t]
    BY <1>1, <1>2
  <2>4. M \in SUBSET RowsOf(t, gone')
    BY <1>1, <2>2 DEF RowsOf
  <2>5. counted'[t] = Cardinality(M) /\ RowsOf(t, gone' \cap asked') \subseteq M
    BY <2>1, <2>2, <2>3
  <2> QED
    BY <2>4, <2>5 DEF Counted, RowsOf
<1>9. ASSUME NEW t \in Table \ done' PROVE RowsOf(t, gone \cap asked)' = {}
  BY <1>1, <1>3, <1>5, <1>9 DEF CountInv, RowsOf
<1>10. "workflow_status" \in done' => Targets \subseteq done'
  <2>1. CASE u = "workflow_status"
    BY <1>1, <2>1, StatusRank, TargetFacts DEF Delete, Taken
  <2>2. CASE u # "workflow_status"
    BY <1>1, <2>2 DEF CountInv
  <2> QED
    BY <2>1, <2>2
<1> QED
  BY <1>1, <1>2, <1>7, <1>8, <1>9, <1>10 DEF CountInv

LEMMA CountStep == Scope = Every /\ Taken /\ CountInv /\ [Next]_vars => CountInv'
<1> SUFFICES ASSUME Scope = Every, Taken, CountInv, [Next]_vars PROVE CountInv'
  OBVIOUS
<1>0. CASE UNCHANGED vars
  BY <1>0, FewerAsked DEF vars
<1>1. CASE Start
  <2>1. /\ gone' = {} /\ done' = {} /\ outcome' = "none"
        /\ \A t \in Table : counted'[t] = 0
    BY <1>1 DEF Start
  <2>2. ASSUME NEW t \in Table PROVE Counted(t, gone)'
    <3>1. Cardinality({}) = 0
      BY FS_EmptySet
    <3>2. {} \in SUBSET RowsOf(t, gone') /\ RowsOf(t, gone' \cap asked') \subseteq {}
      BY <2>1 DEF RowsOf
    <3> QED
      BY <2>1, <3>1, <3>2 DEF Counted, RowsOf
  <2> QED
    BY <2>1, <2>2 DEF CountInv, RowsOf
<1>2. CASE Refuse
  BY <1>2 DEF Refuse, CountInv
<1>3. CASE Commit \/ CommitUnanswered
  <2>1. /\ removed' = gone /\ counted' = counted /\ asked' = asked /\ pc' = "idle" /\ pc = "commit"
    BY <1>3 DEF Commit, CommitUnanswered, Committed
  <2>2. \A t \in Table : Counted(t, removed)'
    BY <2>1 DEF CountInv, Counted, RowsOf
  <2> QED
    BY <2>1, <2>2 DEF CountInv
<1>4. CASE Fail
  BY <1>4 DEF Fail, CountInv
<1>5. CASE Environment
  <2>1. asked' \subseteq asked /\ UNCHANGED <<schema, pc, done, gone, counted, outcome, removed>>
    BY <1>5 DEF Environment, Enqueue, Record, Register, Collect, ReOwn, Inserted, local
  <2> QED
    BY <2>1, FewerAsked
<1> QED
  BY <1>0, <1>1, <1>2, <1>3, <1>4, <1>5, DeleteCounts DEF Next

LEMMA CountsFollow == TypeOK /\ CountInv => CountsAddUp
<1> SUFFICES ASSUME TypeOK, CountInv, outcome = "ok", NEW t \in Table
             PROVE  /\ counted[t] <= Cardinality(RowsOf(t, removed))
                    /\ counted[t] >= Cardinality(RowsOf(t, removed \cap asked))
  BY DEF CountsAddUp, RowsOf
<1>1. PICK M \in SUBSET RowsOf(t, removed) :
        counted[t] = Cardinality(M) /\ RowsOf(t, removed \cap asked) \subseteq M
  BY DEF CountInv, Counted
<1>2. IsFiniteSet(RowsOf(t, removed))
  <2>1. RowsOf(t, removed) \in SUBSET Row
    BY DEF TypeOK, RowsOf
  <2> QED
    BY <2>1, Sorts, FS_Subset
<1>3. IsFiniteSet(M) /\ Cardinality(M) <= Cardinality(RowsOf(t, removed))
  BY <1>1, <1>2, FS_Subset
<1>4. Cardinality(RowsOf(t, removed \cap asked)) <= Cardinality(M)
  BY <1>1, <1>3, FS_Subset
<1>5. Cardinality(M) \in Nat /\ Cardinality(RowsOf(t, removed \cap asked)) \in Nat
  BY <1>1, <1>3, FS_Subset, FS_CardinalityType
<1> QED
  BY <1>1, <1>3, <1>4, <1>5

(* The counts that a reset of the schema prints are of rows it removed,    *)
(* and leave out none that was there when it began: what goes with its     *)
(* workflow was counted before (SystemTables).                             *)
THEOREM PrintedCountsAddUp == ASSUME Scope = Every PROVE Spec => []CountsAddUp
<1>1. Init => Taken /\ CountInv
  BY InitType DEF Init, Taken, InTables, TakenInv, CountInv
<1>2. Scope = Every
  OBVIOUS
<1>3. (Taken /\ CountInv) /\ [Next]_vars => (Taken /\ CountInv)'
  BY <1>2, TakenStep, CountStep
<1>4. Taken /\ CountInv => CountsAddUp
  BY CountsFollow DEF Taken
<1> QED
  BY <1>1, <1>3, <1>4, PTL DEF Spec
=============================================================================
