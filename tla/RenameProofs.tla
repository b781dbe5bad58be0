---------------------------- MODULE RenameProofs ----------------------------
(***************************************************************************)
(* Theorems about Rename: for any number of renames, rows, names and       *)
(* batch sizes.                                                            *)
(***************************************************************************)
EXTENDS Rename, FiniteSetTheorems, TLAPS

(* The rows of each table among finitely many are finitely many.           *)
LEMMA CountType == ASSUME NEW S \in SUBSET Row PROVE Count(S) \in [Own!Table -> Nat]
<1>1. SUFFICES ASSUME NEW t \in Own!Table
               PROVE  Cardinality({x \in S : Tab[x] = t}) \in Nat
  BY DEF Count
<1>2. {x \in S : Tab[x] = t} \subseteq Row
  OBVIOUS
<1>3. IsFiniteSet({x \in S : Tab[x] = t})
  BY <1>2, FS_Subset, RowAssumption
<1> QED
  BY <1>3, FS_CardinalityType

LEMMA PlusType ==
  ASSUME NEW f \in [Own!Table -> Nat], NEW g \in [Own!Table -> Nat]
  PROVE  Plus(f, g) \in [Own!Table -> Nat]
BY DEF Plus

LEMMA NothingType == Nothing \in [Own!Table -> Nat]
BY DEF Nothing

(* A bound is the key of a row.                                            *)
LEMMA BoundIsKey ==
  ASSUME NEW r \in Renamer, NEW k \in NextBound(r)
  PROVE  k \in Keys /\ k \in KeysLeft(r)
BY DEF NextBound, KeysLeft, Keys, Own!Held

LEMMA GiveType ==
  ASSUME owner \in [Row -> Name \cup {Absent}], NEW r \in Renamer, NEW S \in SUBSET Row
  PROVE  Own!Give(S, To[r]) \in [Row -> Name \cup {Absent}]
BY RenameAssumption DEF Own!Give

-----------------------------------------------------------------------------

Places == \A r \in Renamer : PlaceInv(r)
Typed  == TypeOK /\ Places

(* The local variables of a run, well typed and in keeping with its place. *)
LocalOK ==
  /\ pc \in [Renamer -> {"idle", "update", "commit", "bound", "move"}]
  /\ at \in [Renamer -> Opening \cup Batched]
  /\ lower \in [Renamer -> Keys \cup {0}]
  /\ mark \in [Renamer -> Keys \cup {0}]
  /\ locked \in [Renamer -> SUBSET Row]
  /\ outcome \in [Renamer -> {"none", "ok", "failed", "refused"}]
  /\ Places

LEMMA TypedIsLocalOK == Typed => LocalOK
BY DEF Typed, TypeOK, LocalOK

LEMMA EndRunLocal ==
  ASSUME Typed, NEW r \in Renamer, NEW how \in {"ok", "failed", "refused"}, EndRun(r, how)
  PROVE  LocalOK'
BY TypedIsLocalOK DEF EndRun, LocalOK, Places, PlaceInv, Opening

LEMMA BeginBatchesLocal ==
  ASSUME Typed, NEW r \in Renamer, pc[r] # "idle", NEW t \in Batched, BeginBatches(r, t)
  PROVE  LocalOK'
BY TypedIsLocalOK DEF BeginBatches, LocalOK, Places, PlaceInv

LEMMA ReOwnType ==
  ASSUME Own!TypeOK, fresh \in [Renamer -> SUBSET Row],
         NEW r \in Renamer, NEW S \in SUBSET Row, ReOwn(r, S)
  PROVE  Own!TypeOK' /\ fresh' \in [Renamer -> SUBSET Row]
BY GiveType DEF ReOwn, Own!TypeOK, Own!Workflow

LEMMA AfterBatchLocal ==
  ASSUME Typed, NEW r \in Renamer, NEW S, pc[r] = "move", AfterBatch(r, S)
  PROVE  LocalOK'
<1>1. CASE BeginBatches(r, "operation_outputs")
  BY <1>1, BeginBatchesLocal DEF Batched
<1>2. CASE EndRun(r, "ok") \/ EndRun(r, "refused")
  BY <1>2, EndRunLocal
<1>3. CASE /\ lower' = [lower EXCEPT ![r] = mark[r]]
           /\ mark' = [mark EXCEPT ![r] = 0]
           /\ pc' = [pc EXCEPT ![r] = "bound"]
           /\ UNCHANGED <<at, locked, outcome>>
  BY <1>3, TypedIsLocalOK DEF LocalOK, Places, PlaceInv
<1> QED
  BY <1>1, <1>2, <1>3 DEF AfterBatch

(* The rest of the state.                                                  *)
DataOK ==
  /\ Own!TypeOK
  /\ fresh \in [Renamer -> SUBSET Row]
  /\ counted \in [Renamer -> [Own!Table -> Nat]]
  /\ moved \in [Renamer -> [Own!Table -> Nat]]

LEMMA TypedSplit == Typed <=> LocalOK /\ DataOK
BY DEF Typed, TypeOK, LocalOK, DataOK

LEMMA TypedSplitNext == LocalOK' /\ DataOK' => Typed'
BY DEF Typed, TypeOK, LocalOK, DataOK

LEMMA TypedInit == Init => Typed
BY NothingType, NameAssumption
DEF Init, Own!Init, Typed, TypeOK, Places, PlaceInv, Own!TypeOK, Opening, Own!Workflow

LEMMA OpeningRowsInRow == ASSUME NEW r \in Renamer PROVE OpeningRows(r) \in SUBSET Row
BY DEF OpeningRows, Own!Held

LEMMA BatchRowsInRow == ASSUME NEW r \in Renamer PROVE BatchRows(r) \in SUBSET Row
BY DEF BatchRows, Own!Held

LEMMA TypedStep == Typed /\ [Next]_vars => Typed'
<1> SUFFICES ASSUME Typed, [Next]_vars PROVE Typed'
  OBVIOUS
<1>L. LocalOK /\ DataOK
  BY TypedSplit
<1>D. Own!TypeOK /\ fresh \in [Renamer -> SUBSET Row] /\ locked \in [Renamer -> SUBSET Row]
  BY <1>L DEF DataOK, LocalOK
<1>0. CASE UNCHANGED vars
  BY <1>0 DEF vars, Typed, TypeOK, Own!TypeOK, Places, PlaceInv, Own!Workflow
<1>1. ASSUME NEW r \in Renamer, Start(r) PROVE Typed'
  <2>1. LocalOK'
    BY <1>1, <1>L DEF Start, LocalOK, Places, PlaceInv, Opening
  <2>2. DataOK'
    BY <1>1, <1>L, NothingType DEF Start, DataOK, Own!TypeOK, Own!Workflow
  <2> QED
    BY <2>1, <2>2, TypedSplitNext
<1>2. ASSUME NEW r \in Renamer, Update(r) PROVE Typed'
  <2>1. \A s \in Opening : NextStatement[s] \in Opening
    BY DEF NextStatement, Opening
  <2>2. at[r] \in Opening
    BY <1>2, <1>L DEF Update, LocalOK, Places, PlaceInv
  <2>3. LocalOK'
    BY <1>2, <1>L, <2>1, <2>2, OpeningRowsInRow DEF Update, LocalOK, Places, PlaceInv
  <2>4. DataOK'
    BY <1>2, <1>L DEF Update, DataOK, Own!TypeOK, Own!Workflow
  <2> QED
    BY <2>3, <2>4, TypedSplitNext
<1>3. ASSUME NEW r \in Renamer, Commit(r) \/ CommitUnanswered(r) PROVE Typed'
  <2>1. LocalOK'
    BY <1>3, EndRunLocal, BeginBatchesLocal DEF Commit, CommitUnanswered, Batched
  <2>2. Own!TypeOK' /\ fresh' \in [Renamer -> SUBSET Row]
    BY <1>3, <1>D, ReOwnType DEF Commit, CommitUnanswered
  <2>3. Count(locked[r]) \in [Own!Table -> Nat]
    BY <1>D, CountType
  <2>4. /\ counted' \in [Renamer -> [Own!Table -> Nat]]
        /\ moved' \in [Renamer -> [Own!Table -> Nat]]
    BY <1>3, <1>L, <2>3 DEF Commit, CommitUnanswered, DataOK
  <2> QED
    BY <2>1, <2>2, <2>4, TypedSplitNext DEF DataOK
<1>4. ASSUME NEW r \in Renamer, Bound(r) PROVE Typed'
  <2>1. mark' \in [Renamer -> Keys \cup {0}]
    BY <1>4, <1>L, BoundIsKey DEF Bound, LocalOK
  <2>2. LocalOK'
    BY <1>4, <1>L, <2>1 DEF Bound, LocalOK, Places, PlaceInv
  <2>3. DataOK'
    BY <1>4, <1>L DEF Bound, DataOK, Own!TypeOK, Own!Workflow
  <2> QED
    BY <2>2, <2>3, TypedSplitNext
<1>5. ASSUME NEW r \in Renamer, MoveBatch(r) \/ MoveUnanswered(r) PROVE Typed'
  <2>1. LocalOK'
    BY <1>5, EndRunLocal, AfterBatchLocal DEF MoveBatch, MoveUnanswered
  <2>2. Own!TypeOK' /\ fresh' \in [Renamer -> SUBSET Row]
    BY <1>5, <1>D, ReOwnType, BatchRowsInRow DEF MoveBatch, MoveUnanswered
  <2>3. /\ Plus(counted[r], Count(BatchRows(r))) \in [Own!Table -> Nat]
        /\ Plus(moved[r], Count(BatchRows(r))) \in [Own!Table -> Nat]
    BY <1>L, CountType, PlusType, BatchRowsInRow DEF DataOK
  <2>4. /\ counted' \in [Renamer -> [Own!Table -> Nat]]
        /\ moved' \in [Renamer -> [Own!Table -> Nat]]
    BY <1>5, <1>L, <2>3 DEF MoveBatch, MoveUnanswered, DataOK
  <2> QED
    BY <2>1, <2>2, <2>4, TypedSplitNext DEF DataOK
<1>6. ASSUME NEW r \in Renamer, Fail(r) PROVE Typed'
  <2>1. LocalOK'
    BY <1>6, EndRunLocal DEF Fail
  <2>2. DataOK'
    BY <1>6, <1>L DEF Fail, DataOK, Own!TypeOK, Own!Workflow
  <2> QED
    BY <2>1, <2>2, TypedSplitNext
<1>7. ASSUME NEW x \in Row, NEW n \in Busy, AppInserts(n, x) PROVE Typed'
  <2>1. LocalOK'
    BY <1>7, <1>L DEF AppInserts, local, LocalOK, Places, PlaceInv
  <2>2. DataOK'
    BY <1>7, <1>L, NameAssumption DEF AppInserts, local, DataOK, Own!Insert, Own!TypeOK, Own!Workflow
  <2> QED
    BY <2>1, <2>2, TypedSplitNext
<1>8. ASSUME NEW x \in Row, AppChanges(x) PROVE Typed'
  <2>1. LocalOK'
    BY <1>8, <1>L DEF AppChanges, local, LocalOK, Places, PlaceInv
  <2>2. Own!TypeOK'
    BY <1>8, <1>D DEF AppChanges, Own!Finish, Own!Resume, Own!Delete, Own!TypeOK, Own!Workflow
  <2>3. DataOK'
    BY <1>8, <1>L, <2>2 DEF AppChanges, local, DataOK
  <2> QED
    BY <2>1, <2>3, TypedSplitNext
<1> QED
  BY <1>0, <1>1, <1>2, <1>3, <1>4, <1>5, <1>6, <1>7, <1>8 DEF Next, Advance, Break

LEMMA AlwaysTyped == Spec => []Typed
BY TypedInit, TypedStep, PTL DEF Spec

(* The state of RenameApplication is well typed, whatever the operands.    *)
THEOREM TypeCorrect == Spec => []TypeOK
<1>1. Typed => TypeOK
  BY DEF Typed
<1> QED
  BY <1>1, AlwaysTyped, PTL
-----------------------------------------------------------------------------
(* What a batch leaves of the run's place, and that no other run's changes. *)
LEMMA AfterBatchPlace ==
  ASSUME Typed, NEW r \in Renamer, NEW S, pc[r] = "move", AfterBatch(r, S)
  PROVE  /\ pc'[r] \in {"idle", "bound"}
         /\ \A q \in Renamer \ {r} : pc'[q] = pc[q] /\ outcome'[q] = outcome[q]
BY DEF AfterBatch, BeginBatches, EndRun, Typed, TypeOK

CountSafe == CountsAreFacts /\ \A r \in Renamer : CountInv(r)

(* A step that changes no count and starts or ends no counting.            *)
LEMMA CountKept ==
  ASSUME Typed, CountSafe, counted' = counted, moved' = moved,
         \A q \in Renamer :
           /\ pc'[q] \in {"update", "commit"} => pc[q] \in {"update", "commit"}
           /\ pc'[q] \in {"bound", "move"} => pc[q] \in {"bound", "move"}
           /\ outcome'[q] = "ok" => outcome[q] = "ok"
  PROVE  CountSafe'
BY DEF CountSafe, CountsAreFacts, CountInv

LEMMA CountStep == Typed /\ CountSafe /\ [Next]_vars => CountSafe'
<1> SUFFICES ASSUME Typed, CountSafe, [Next]_vars PROVE CountSafe'
  OBVIOUS
<1>T. /\ counted \in [Renamer -> [Own!Table -> Nat]] /\ moved \in [Renamer -> [Own!Table -> Nat]]
      /\ pc \in [Renamer -> {"idle", "update", "commit", "bound", "move"}]
      /\ outcome \in [Renamer -> {"none", "ok", "failed", "refused"}]
      /\ locked \in [Renamer -> SUBSET Row]
  BY DEF Typed, TypeOK
<1>0. CASE UNCHANGED vars
  BY <1>0, CountKept DEF vars
<1>1. ASSUME NEW r \in Renamer, Start(r) PROVE CountSafe'
  BY <1>1, <1>T DEF Start, CountSafe, CountsAreFacts, CountInv, Nothing
<1>2. ASSUME NEW r \in Renamer, Update(r) PROVE CountSafe'
  BY <1>2, <1>T, CountKept DEF Update
<1>3. ASSUME NEW r \in Renamer, Commit(r) PROVE CountSafe'
  <2>1. Count(locked[r]) \in [Own!Table -> Nat]
    BY <1>T, CountType
  <2>2. /\ counted' = [counted EXCEPT ![r] = Count(locked[r])]
        /\ moved' = [moved EXCEPT ![r] = Count(locked[r])]
        /\ pc' = [pc EXCEPT ![r] = "bound"] /\ outcome' = outcome
    BY <1>3 DEF Commit, BeginBatches
  <2> QED
    BY <2>1, <2>2, <1>T DEF CountSafe, CountsAreFacts, CountInv
<1>4. ASSUME NEW r \in Renamer, CommitUnanswered(r) PROVE CountSafe'
  <2>1. Count(locked[r]) \in [Own!Table -> Nat]
    BY <1>T, CountType
  <2>2. /\ counted' = counted
        /\ moved' = [moved EXCEPT ![r] = Count(locked[r])]
        /\ pc' = [pc EXCEPT ![r] = "idle"] /\ outcome' = [outcome EXCEPT ![r] = "failed"]
    BY <1>4 DEF CommitUnanswered, EndRun
  <2>3. counted[r] = Nothing
    BY <1>4 DEF CommitUnanswered, CountSafe, CountInv
  <2> QED
    BY <2>1, <2>2, <2>3, <1>T DEF CountSafe, CountsAreFacts, CountInv, Nothing
<1>5. ASSUME NEW r \in Renamer, Bound(r) PROVE CountSafe'
  BY <1>5, <1>T, CountKept DEF Bound
<1>6. ASSUME NEW r \in Renamer, MoveBatch(r) PROVE CountSafe'
  <2> DEFINE N == Count(BatchRows(r))
  <2>1. N \in [Own!Table -> Nat]
    BY CountType, BatchRowsInRow
  <2>2. Plus(counted[r], N) \in [Own!Table -> Nat]
    BY <2>1, <1>T, PlusType
  <2>3. counted[r] = moved[r]
    BY <1>6 DEF MoveBatch, CountSafe, CountInv
  <2>4. /\ counted' = [counted EXCEPT ![r] = Plus(counted[r], N)]
        /\ moved' = [moved EXCEPT ![r] = Plus(counted[r], N)]
    BY <1>6, <2>3 DEF MoveBatch
  <2>5. /\ pc'[r] \in {"idle", "bound"}
        /\ \A q \in Renamer \ {r} : pc'[q] = pc[q] /\ outcome'[q] = outcome[q]
    BY <1>6, AfterBatchPlace DEF MoveBatch
  <2> QED
    BY <2>2, <2>4, <2>5, <1>T DEF CountSafe, CountsAreFacts, CountInv
<1>7. ASSUME NEW r \in Renamer, MoveUnanswered(r) PROVE CountSafe'
  <2> DEFINE N == Count(BatchRows(r))
  <2>1. N \in [Own!Table -> Nat]
    BY CountType, BatchRowsInRow
  <2>2. \A t \in Own!Table : Plus(moved[r], N)[t] = moved[r][t] + N[t]
    BY DEF Plus
  <2>3. counted[r] = moved[r]
    BY <1>7 DEF MoveUnanswered, CountSafe, CountInv
  <2>4. /\ counted' = counted
        /\ moved' = [moved EXCEPT ![r] = Plus(moved[r], N)]
        /\ pc' = [pc EXCEPT ![r] = "idle"] /\ outcome' = [outcome EXCEPT ![r] = "failed"]
    BY <1>7 DEF MoveUnanswered, EndRun
  <2>5. \A t \in Own!Table : counted'[r][t] <= moved'[r][t]
    BY <2>1, <2>2, <2>3, <2>4, <1>T
  <2> QED
    BY <2>4, <2>5, <1>T DEF CountSafe, CountsAreFacts, CountInv
<1>8. ASSUME NEW r \in Renamer, Fail(r) PROVE CountSafe'
  BY <1>8, <1>T, CountKept DEF Fail, EndRun
<1>9. ASSUME NEW x \in Row, NEW n \in Busy, AppInserts(n, x) PROVE CountSafe'
  BY <1>9, CountKept DEF AppInserts, local
<1>10. ASSUME NEW x \in Row, AppChanges(x) PROVE CountSafe'
  BY <1>10, CountKept DEF AppChanges, local
<1> QED
  BY <1>0, <1>1, <1>2, <1>3, <1>4, <1>5, <1>6, <1>7, <1>8, <1>9, <1>10
  DEF Next, Advance, Break

(* A rename reports no row that has not moved, and all of them when it     *)
(* succeeds (ApplicationRowCounts).                                        *)
THEOREM CountsNeverOverstate == Spec => []CountsAreFacts
<1>1. Init => CountSafe
  BY DEF Init, CountSafe, CountsAreFacts, CountInv, Nothing
<1>2. CountSafe => CountsAreFacts
  BY DEF CountSafe
<1> QED
  BY <1>1, <1>2, CountStep, AlwaysTyped, PTL DEF Spec
-----------------------------------------------------------------------------
(* One statement re-owns S: what r still holds afterwards it held before,  *)
(* and S is none of it; another run's source may have grown by S, which is *)
(* then new to it.                                                         *)
LEMMA HeldAfterReOwn ==
  ASSUME Typed, NEW r \in Renamer, NEW S \in SUBSET Row, ReOwn(r, S), NEW q \in Renamer
  PROVE  /\ \A x \in Own!Held(q)' : x \in fresh'[q] \/ x \in Own!Held(q)
         /\ fresh[q] \subseteq fresh'[q]
         /\ Own!Held(r)' \cap S = {}
BY RenameAssumption
DEF ReOwn, Own!Give, Own!Held, Typed, TypeOK, Own!TypeOK

NewSafe == LeftBehindIsNew /\ \A r \in Renamer : PassedInv(r)

(* A step of one run, or of an application, leaves what holds of the       *)
(* others: their places stay, and what their sources gain is new to them.  *)
LEMMA OthersKept ==
  ASSUME Typed, NewSafe, NEW q \in Renamer,
         \A x \in Own!Held(q)' : x \in fresh'[q] \/ x \in Own!Held(q),
         fresh[q] \subseteq fresh'[q],
         pc'[q] = pc[q], at'[q] = at[q], lower'[q] = lower[q],
         locked'[q] = locked[q], outcome'[q] = outcome[q]
  PROVE  /\ PassedInv(q)'
         /\ outcome'[q] = "ok" => Own!Held(q)' \subseteq fresh'[q]
<1>1. outcome'[q] = "ok" => Own!Held(q)' \subseteq fresh'[q]
  BY DEF NewSafe, LeftBehindIsNew
<1>2. \A x : Passed(q, x)' <=> Passed(q, x)
  BY DEF Passed, Updated
<1>3. PassedInv(q)'
  BY <1>2 DEF PassedInv, NewSafe
<1> QED
  BY <1>1, <1>3

LEMMA NewFromParts ==
  ASSUME Typed, NewSafe, NEW r \in Renamer,
         \A q \in Renamer \ {r} :
           /\ \A x \in Own!Held(q)' : x \in fresh'[q] \/ x \in Own!Held(q)
           /\ fresh[q] \subseteq fresh'[q]
           /\ pc'[q] = pc[q] /\ at'[q] = at[q] /\ lower'[q] = lower[q]
           /\ locked'[q] = locked[q] /\ outcome'[q] = outcome[q],
         PassedInv(r)',
         outcome'[r] = "ok" => Own!Held(r)' \subseteq fresh'[r]
  PROVE  NewSafe'
<1>1. ASSUME NEW q \in Renamer \ {r}
      PROVE  PassedInv(q)' /\ (outcome'[q] = "ok" => Own!Held(q)' \subseteq fresh'[q])
  BY OthersKept
<1> QED
  BY <1>1 DEF NewSafe, LeftBehindIsNew

LEMMA HeldHasTable ==
  ASSUME NEW r \in Renamer, NEW x \in Own!Held(r)
  PROVE  x \in Row /\ Tab[x] \in Own!SmallTable \cup {"workflow_status", "operation_outputs"}
BY RowAssumption DEF Own!Held, Own!Table

LEMMA KeysAreNumbers == Keys \cup {0} \subseteq Nat
BY RowAssumption DEF Keys

(* A batch that has moved leaves nothing of its range in its source.       *)
LEMMA BatchPasses ==
  ASSUME Typed, NewSafe, NEW r \in Renamer, pc[r] = "move", ReOwn(r, BatchRows(r)),
         NEW x \in Own!Held(r)', x \notin fresh'[r]
  PROVE  /\ Tab[x] \notin Own!SmallTable
         /\ at[r] = "operation_outputs" => Tab[x] = "operation_outputs"
         /\ Tab[x] = at[r] => mark[r] # 0 /\ ~ Key[x] < mark[r]
<1>1. x \in Own!Held(r) /\ x \notin BatchRows(r) /\ x \notin fresh[r]
  BY HeldAfterReOwn, BatchRowsInRow
<1>2. locked[r] = {} /\ at[r] \in Batched
  BY DEF Typed, Places, PlaceInv
<1>3. ~ Passed(r, x)
  BY <1>1, <1>2 DEF NewSafe, PassedInv
<1>4. x \in Row /\ Key[x] \in Nat /\ lower[r] \in Nat /\ mark[r] \in Nat
  BY <1>1, KeysAreNumbers, RowAssumption DEF Own!Held, Typed, TypeOK
<1>5. Tab[x] = at[r] => Key[x] >= lower[r]
  BY <1>3, <1>4 DEF Passed
<1>6. Tab[x] = at[r] => mark[r] # 0 /\ ~ Key[x] < mark[r]
  BY <1>1, <1>4, <1>5 DEF BatchRows
<1>7. Tab[x] \notin Own!SmallTable
  BY <1>3 DEF Passed, Updated
<1>8. at[r] = "operation_outputs" => Tab[x] # "workflow_status"
  BY <1>3 DEF Passed
<1> QED
  BY <1>1, <1>6, <1>7, <1>8, HeldHasTable

LEMMA NewStep == Typed /\ NewSafe /\ [Next]_vars => NewSafe'
<1> SUFFICES ASSUME Typed, NewSafe, [Next]_vars PROVE NewSafe'
  OBVIOUS
<1>T. /\ pc \in [Renamer -> {"idle", "update", "commit", "bound", "move"}]
      /\ at \in [Renamer -> Opening \cup Batched]
      /\ lower \in [Renamer -> Keys \cup {0}]
      /\ mark \in [Renamer -> Keys \cup {0}]
      /\ locked \in [Renamer -> SUBSET Row]
      /\ outcome \in [Renamer -> {"none", "ok", "failed", "refused"}]
      /\ fresh \in [Renamer -> SUBSET Row]
  BY DEF Typed, TypeOK
<1>K. \A x \in Row : Key[x] \in Nat \ {0}
  BY RowAssumption
<1>0. CASE UNCHANGED vars
  BY <1>0 DEF vars, NewSafe, LeftBehindIsNew, PassedInv, Passed, Updated, Own!Held
<1>1. ASSUME NEW r \in Renamer, Start(r) PROVE NewSafe'
  <2>1. \A q \in Renamer : Own!Held(q)' = Own!Held(q)
    BY <1>1 DEF Start, Own!Held
  <2>2. at'[r] = "queues" /\ pc'[r] = "update" /\ outcome'[r] = "none"
    BY <1>1, <1>T DEF Start, Typed, Places, PlaceInv
  <2>3. PassedInv(r)'
    BY <2>2 DEF PassedInv, Passed, Updated
  <2> QED
    BY <1>1, <1>T, <2>1, <2>2, <2>3, NewFromParts DEF Start
<1>2. ASSUME NEW r \in Renamer, Update(r) PROVE NewSafe'
  <2>1. \A q \in Renamer : Own!Held(q)' = Own!Held(q)
    BY <1>2 DEF Update, Own!Held
  <2>2. /\ at[r] \in Opening /\ pc[r] = "update" /\ outcome'[r] # "ok"
    BY <1>2 DEF Update, Typed, Places, PlaceInv
  <2>3. /\ locked'[r] = locked[r] \cup OpeningRows(r) /\ fresh' = fresh
        /\ at'[r] = NextStatement[at[r]]
        /\ pc'[r] = IF at[r] = "in_flight" THEN "commit" ELSE "update"
    BY <1>2, <1>T DEF Update
  <2>4. \A x : Passed(r, x)' => Passed(r, x) \/ (Tab[x] = at[r] /\ at[r] # "in_flight")
    <3>1. Updated(r)' \subseteq Updated(r) \cup {at[r]} /\ (at[r] = "in_flight" => Updated(r)' = Updated(r))
      <4>1. CASE at[r] = "queues"
        BY <4>1, <2>2, <2>3 DEF Updated, NextStatement, Opening
      <4>2. CASE at[r] = "workflow_schedules"
        BY <4>2, <2>2, <2>3 DEF Updated, NextStatement, Opening
      <4>3. CASE at[r] = "application_versions"
        BY <4>3, <2>2, <2>3 DEF Updated, NextStatement, Opening, Own!SmallTable
      <4>4. CASE at[r] = "in_flight"
        BY <4>4, <2>2, <2>3 DEF Updated, NextStatement, Opening
      <4> QED
        BY <2>2, <4>1, <4>2, <4>3, <4>4 DEF Opening
    <3>2. pc'[r] \notin {"bound", "move"}
      BY <2>3
    <3>3. ASSUME NEW x, Passed(r, x)' PROVE Tab[x] \in Updated(r)'
      BY <3>2, <3>3 DEF Passed
    <3>4. ASSUME NEW x, Tab[x] \in Updated(r) PROVE Passed(r, x)
      BY <3>4 DEF Passed
    <3> QED
      BY <3>1, <3>3, <3>4
  <2>5. \A x \in Own!Held(r) : Tab[x] = at[r] /\ at[r] # "in_flight" => x \in OpeningRows(r)
    BY DEF OpeningRows
  <2>6. PassedInv(r)'
    BY <2>1, <2>2, <2>3, <2>4, <2>5 DEF PassedInv, NewSafe
  <2> QED
    BY <1>2, <1>T, <2>1, <2>2, <2>6, NewFromParts DEF Update
<1>3. ASSUME NEW r \in Renamer, Commit(r) PROVE NewSafe'
  <2>1. ReOwn(r, locked[r]) /\ locked[r] \in SUBSET Row
    BY <1>3, <1>T DEF Commit
  <2>2. /\ pc'[r] = "bound" /\ at'[r] = "workflow_status" /\ lower'[r] = 0 /\ outcome'[r] # "ok"
    BY <1>3, <1>T DEF Commit, BeginBatches, Typed, Places, PlaceInv
  <2>3. ASSUME NEW x \in Own!Held(r)', Passed(r, x)', x \notin fresh'[r] PROVE FALSE
    <3>1. x \in Own!Held(r) /\ x \notin locked[r] /\ x \notin fresh[r]
      BY <2>1, <2>3, HeldAfterReOwn
    <3>2. x \in Row /\ ~ Key[x] < 0
      BY <3>1, <1>K DEF Own!Held
    <3>3. Tab[x] \in Own!SmallTable
      BY <2>2, <2>3, <3>2 DEF Passed, Updated
    <3>4. pc[r] = "commit"
      BY <1>3 DEF Commit
    <3>5. Passed(r, x)
      BY <3>3, <3>4 DEF Passed, Updated
    <3> QED
      BY <3>1, <3>4, <3>5 DEF NewSafe, PassedInv
  <2>4. PassedInv(r)'
    BY <2>3 DEF PassedInv
  <2>5. \A q \in Renamer \ {r} : /\ \A x \in Own!Held(q)' : x \in fresh'[q] \/ x \in Own!Held(q)
                                 /\ fresh[q] \subseteq fresh'[q]
    BY <2>1, HeldAfterReOwn
  <2>6. \A q \in Renamer \ {r} : /\ pc'[q] = pc[q] /\ at'[q] = at[q] /\ lower'[q] = lower[q]
                                 /\ locked'[q] = locked[q] /\ outcome'[q] = outcome[q]
    BY <1>3, <1>T DEF Commit, BeginBatches
  <2> QED
    BY <2>2, <2>4, <2>5, <2>6, NewFromParts
<1>4. ASSUME NEW r \in Renamer, Bound(r) PROVE NewSafe'
  <2>1. \A q \in Renamer : Own!Held(q)' = Own!Held(q)
    BY <1>4 DEF Bound, Own!Held
  <2>2. /\ pc[r] = "bound" /\ pc'[r] = "move" /\ outcome'[r] # "ok"
        /\ at' = at /\ lower' = lower /\ locked' = locked /\ fresh' = fresh
    BY <1>4, <1>T DEF Bound, Typed, Places, PlaceInv
  <2>3. \A x : Passed(r, x)' <=> Passed(r, x)
    BY <2>2 DEF Passed, Updated
  <2>4. PassedInv(r)'
    BY <2>1, <2>2, <2>3 DEF PassedInv, NewSafe
  <2> QED
    BY <1>4, <1>T, <2>1, <2>2, <2>4, NewFromParts DEF Bound
<1>5. ASSUME NEW r \in Renamer, MoveBatch(r) PROVE NewSafe'
  <2>1. ReOwn(r, BatchRows(r)) /\ pc[r] = "move" /\ AfterBatch(r, BatchRows(r))
    BY <1>5 DEF MoveBatch
  <2>P. at[r] \in Batched /\ locked[r] = {} /\ outcome[r] = "none"
    BY <2>1, <1>T DEF Typed, Places, PlaceInv
  <2>2. \A q \in Renamer \ {r} : /\ \A x \in Own!Held(q)' : x \in fresh'[q] \/ x \in Own!Held(q)
                                 /\ fresh[q] \subseteq fresh'[q]
    BY <2>1, HeldAfterReOwn, BatchRowsInRow
  <2>3. \A q \in Renamer \ {r} : /\ pc'[q] = pc[q] /\ at'[q] = at[q] /\ lower'[q] = lower[q]
                                 /\ locked'[q] = locked[q] /\ outcome'[q] = outcome[q]
    BY <2>1, <1>T DEF AfterBatch, BeginBatches, EndRun
  <2>4. ASSUME NEW x \in Own!Held(r)', x \notin fresh'[r]
        PROVE  /\ x \in Row
               /\ Tab[x] \notin Own!SmallTable
               /\ at[r] = "operation_outputs" => Tab[x] = "operation_outputs"
               /\ Tab[x] = at[r] => mark[r] # 0 /\ ~ Key[x] < mark[r]
    <3>1. x \in Row
      BY <2>4 DEF Own!Held
    <3> QED
      BY <2>1, <2>4, <3>1, BatchPasses
  <2>5. CASE mark[r] = 0 /\ at[r] = "workflow_status" /\ BeginBatches(r, "operation_outputs")
    <3>1. pc'[r] = "bound" /\ at'[r] = "operation_outputs" /\ lower'[r] = 0 /\ outcome'[r] # "ok"
      BY <2>5, <2>P, <1>T DEF BeginBatches
    <3>2. ASSUME NEW x \in Own!Held(r)', Passed(r, x)', x \notin fresh'[r] PROVE FALSE
      BY <3>1, <3>2, <2>4, <2>5, <1>K DEF Passed, Updated
    <3>3. PassedInv(r)'
      BY <3>2 DEF PassedInv
    <3> QED
      BY <2>2, <2>3, <3>1, <3>3, NewFromParts
  <2>6. CASE mark[r] = 0 /\ at[r] = "operation_outputs" /\ EndRun(r, "ok")
    <3>1. pc'[r] = "idle"
      BY <2>6, <1>T DEF EndRun
    <3>2. PassedInv(r)'
      BY <3>1 DEF PassedInv
    <3>3. Own!Held(r)' \subseteq fresh'[r]
      BY <2>4, <2>6
    <3> QED
      BY <2>2, <2>3, <3>2, <3>3, NewFromParts
  <2>7. CASE EndRun(r, "refused")
    <3>1. pc'[r] = "idle" /\ outcome'[r] = "refused"
      BY <2>7, <1>T DEF EndRun
    <3>2. PassedInv(r)'
      BY <3>1 DEF PassedInv
    <3> QED
      BY <2>2, <2>3, <3>1, <3>2, NewFromParts
  <2>8. CASE /\ mark[r] # 0
             /\ lower' = [lower EXCEPT ![r] = mark[r]]
             /\ mark' = [mark EXCEPT ![r] = 0]
             /\ pc' = [pc EXCEPT ![r] = "bound"]
             /\ UNCHANGED <<at, locked, outcome>>
    <3>1. /\ pc'[r] = "bound" /\ at'[r] = at[r] /\ lower'[r] = mark[r] /\ outcome'[r] # "ok"
      BY <2>8, <2>P, <1>T
    <3>2. ASSUME NEW x \in Own!Held(r)', Passed(r, x)', x \notin fresh'[r] PROVE FALSE
      BY <3>1, <3>2, <2>4, <2>8 DEF Passed, Updated
    <3>3. PassedInv(r)'
      BY <3>2 DEF PassedInv
    <3> QED
      BY <2>2, <2>3, <3>1, <3>3, NewFromParts
  <2> QED
    BY <2>1, <2>5, <2>6, <2>7, <2>8 DEF AfterBatch
<1>6. ASSUME NEW r \in Renamer, CommitUnanswered(r) \/ MoveUnanswered(r) \/ Fail(r) PROVE NewSafe'
  <2>1. /\ pc'[r] = "idle" /\ outcome'[r] = "failed"
        /\ \A q \in Renamer \ {r} : /\ pc'[q] = pc[q] /\ at'[q] = at[q] /\ lower'[q] = lower[q]
                                    /\ locked'[q] = locked[q] /\ outcome'[q] = outcome[q]
    BY <1>6, <1>T DEF CommitUnanswered, MoveUnanswered, Fail, EndRun
  <2>2. \A q \in Renamer : /\ \A x \in Own!Held(q)' : x \in fresh'[q] \/ x \in Own!Held(q)
                           /\ fresh[q] \subseteq fresh'[q]
    <3>1. CASE Fail(r)
      BY <3>1 DEF Fail, Own!Held
    <3>2. CASE \E S \in SUBSET Row : ReOwn(r, S)
      BY <3>2, HeldAfterReOwn
    <3> QED
      BY <1>6, <1>T, <3>1, <3>2, BatchRowsInRow DEF CommitUnanswered, MoveUnanswered
  <2>3. PassedInv(r)'
    BY <2>1 DEF PassedInv
  <2> QED
    BY <2>1, <2>2, <2>3, NewFromParts
<1>7. ASSUME NEW x \in Row, \/ AppChanges(x) \/ \E n \in Busy : AppInserts(n, x) PROVE NewSafe'
  <2>1. UNCHANGED local
    BY <1>7 DEF AppChanges, AppInserts
  <2>2. \A q \in Renamer : /\ \A y \in Own!Held(q)' : y \in fresh'[q] \/ y \in Own!Held(q)
                           /\ fresh[q] \subseteq fresh'[q]
    <3>O. owner \in [Row -> Name \cup {Absent}]
      BY DEF Typed, TypeOK, Own!TypeOK
    <3>1. CASE \E n \in Busy : AppInserts(n, x)
      BY <3>1, <3>O, <1>T DEF AppInserts, Own!Insert, Own!Held
    <3>2. CASE AppChanges(x)
      BY <3>2, <3>O, NameAssumption, RenameAssumption
      DEF AppChanges, Own!Finish, Own!Resume, Own!Delete, Own!Held
    <3> QED
      BY <1>7, <3>1, <3>2
  <2>3. ASSUME NEW q \in Renamer
        PROVE  PassedInv(q)' /\ (outcome'[q] = "ok" => Own!Held(q)' \subseteq fresh'[q])
    BY <2>1, <2>2, OthersKept DEF local
  <2> QED
    BY <2>3 DEF NewSafe, LeftBehindIsNew
<1> QED
  BY <1>0, <1>1, <1>2, <1>3, <1>4, <1>5, <1>6, <1>7 DEF Next, Advance, Break

(* A rename that reports success has left behind only rows that became the *)
(* old name's after it had begun, whatever ran beside it.                  *)
THEOREM NothingOldLeftBehind == Spec => []LeftBehindIsNew
<1>1. Init => NewSafe
  BY DEF Init, NewSafe, LeftBehindIsNew, PassedInv
<1>2. NewSafe => LeftBehindIsNew
  BY DEF NewSafe
<1> QED
  BY <1>1, <1>2, NewStep, AlwaysTyped, PTL DEF Spec
-----------------------------------------------------------------------------
(* Applications that are not a rename's source leave its rows alone.       *)
LEMMA AppsElsewhere ==
  ASSUME Typed, Stopped, NEW x \in Row,
         AppChanges(x) \/ \E n \in Busy : AppInserts(n, x), NEW r \in Renamer
  PROVE  /\ Own!Held(r)' = Own!Held(r)
         /\ Own!LiveHeld(r)' = Own!LiveHeld(r)
<1>1. owner \in [Row -> Name \cup {Absent}] /\ Absent \notin Source[r] /\ Source[r] \cap Busy = {}
  BY NameAssumption, RenameAssumption DEF Typed, TypeOK, Own!TypeOK, Stopped
<1>2. CASE \E n \in Busy : AppInserts(n, x)
  <2>1. x \notin Own!Held(r) /\ x \notin Own!Held(r)'
    BY <1>1, <1>2 DEF AppInserts, Own!Insert, Own!Held
  <2>2. \A y \in Row \ {x} : owner'[y] = owner[y] /\ (y \in inFlight' <=> y \in inFlight)
    BY <1>1, <1>2 DEF AppInserts, Own!Insert
  <2> QED
    BY <2>1, <2>2 DEF Own!Held, Own!LiveHeld
<1>3. CASE AppChanges(x) /\ owner[x] \in Busy
  <2>1. x \notin Own!Held(r) /\ x \notin Own!Held(r)'
    BY <1>1, <1>3 DEF AppChanges, Own!Finish, Own!Resume, Own!Delete, Own!Held
  <2>2. \A y \in Row \ {x} : owner'[y] = owner[y] /\ (y \in inFlight' <=> y \in inFlight)
    BY <1>1, <1>3 DEF AppChanges, Own!Finish, Own!Resume, Own!Delete
  <2> QED
    BY <2>1, <2>2 DEF Own!Held, Own!LiveHeld
<1> QED
  BY <1>2, <1>3 DEF AppChanges, Own!Finish, Own!Resume, Own!Delete

ProgressSafe == NeverRefuses /\ \A r \in Renamer : BatchInv(r)

(* Below a watermark there are BatchSize keys, so at least one row.        *)
LEMMA BoundLeavesRows ==
  ASSUME Typed, NEW r \in Renamer, Bound(r) PROVE BatchInv(r)'
<1> SUFFICES ASSUME mark'[r] # 0 PROVE BatchRows(r)' # {}
  BY DEF BatchInv
<1>1. PICK k \in NextBound(r) : mark' = [mark EXCEPT ![r] = k]
  BY DEF Bound, Typed, TypeOK
<1>2. mark'[r] = k
  BY <1>1 DEF Typed, TypeOK
<1>3. Cardinality({j \in KeysLeft(r) : j < k}) = BatchSize
  BY DEF NextBound
<1>4. {j \in KeysLeft(r) : j < k} # {}
  BY <1>3, FS_EmptySet, RenameAssumption
<1>5. PICK x \in Own!Held(r) : Tab[x] = at[r] /\ Key[x] >= lower[r] /\ Key[x] < k
  BY <1>4 DEF KeysLeft
<1>6. x \in Own!Held(r)' /\ at'[r] = at[r] /\ lower'[r] = lower[r]
  BY DEF Bound, Own!Held
<1> QED
  BY <1>2, <1>5, <1>6 DEF BatchRows

LEMMA ProgressStep ==
  ASSUME Alone, Stopped PROVE Typed /\ ProgressSafe /\ [Next]_vars => ProgressSafe'
<1> SUFFICES ASSUME Typed, ProgressSafe, [Next]_vars PROVE ProgressSafe'
  OBVIOUS
<1>T. /\ pc \in [Renamer -> {"idle", "update", "commit", "bound", "move"}]
      /\ outcome \in [Renamer -> {"none", "ok", "failed", "refused"}]
      /\ mark \in [Renamer -> Keys \cup {0}]
  BY DEF Typed, TypeOK
<1>0. CASE UNCHANGED vars
  BY <1>0 DEF vars, ProgressSafe, NeverRefuses, BatchInv, BatchRows, Own!Held
<1>1. ASSUME NEW r \in Renamer, pc'[r] # "move", outcome'[r] # "refused" PROVE ProgressSafe'
  BY <1>1 DEF Alone, ProgressSafe, NeverRefuses, BatchInv
<1>2. ASSUME NEW r \in Renamer, Start(r) \/ Update(r) \/ Commit(r) PROVE ProgressSafe'
  <2>1. pc'[r] # "move" /\ outcome'[r] # "refused"
    BY <1>2, <1>T DEF Start, Update, Commit, BeginBatches, ProgressSafe, NeverRefuses
  <2> QED
    BY <2>1, <1>1
<1>3. ASSUME NEW r \in Renamer, Break(r) PROVE ProgressSafe'
  <2>1. pc'[r] # "move" /\ outcome'[r] # "refused"
    BY <1>3, <1>T DEF Break, CommitUnanswered, MoveUnanswered, Fail, EndRun
  <2> QED
    BY <2>1, <1>1
<1>4. ASSUME NEW r \in Renamer, Bound(r) PROVE ProgressSafe'
  BY <1>4, BoundLeavesRows DEF Alone, Bound, ProgressSafe, NeverRefuses
<1>5. ASSUME NEW r \in Renamer, MoveBatch(r) PROVE ProgressSafe'
  <2>1. mark[r] # 0 => BatchRows(r) # {}
    BY <1>5 DEF MoveBatch, ProgressSafe, BatchInv
  <2>2. pc'[r] # "move" /\ outcome'[r] # "refused"
    BY <1>5, <1>T, <2>1 DEF MoveBatch, AfterBatch, BeginBatches, EndRun, ProgressSafe, NeverRefuses
  <2> QED
    BY <2>2, <1>1
<1>6. ASSUME NEW x \in Row, AppChanges(x) \/ \E n \in Busy : AppInserts(n, x) PROVE ProgressSafe'
  <2>1. UNCHANGED local
    BY <1>6 DEF AppChanges, AppInserts
  <2>2. \A r \in Renamer : BatchRows(r)' = BatchRows(r)
    BY <1>6, <2>1, AppsElsewhere DEF BatchRows, local
  <2> QED
    BY <2>1, <2>2 DEF local, ProgressSafe, NeverRefuses, BatchInv
<1> QED
  BY <1>0, <1>2, <1>3, <1>4, <1>5, <1>6 DEF Next, Advance

(* One rename of what is stopped never gives up on a batch that moved      *)
(* nothing: it cannot meet one (renameInBatches, "refusing to loop").      *)
THEOREM BatchesProgress == ASSUME Alone, Stopped PROVE Spec => []NeverRefuses
<1>1. Init => ProgressSafe
  BY DEF Init, ProgressSafe, NeverRefuses, BatchInv
<1>2. ProgressSafe => NeverRefuses
  BY DEF ProgressSafe
<1> QED
  BY <1>1, <1>2, ProgressStep, AlwaysTyped, PTL DEF Spec
-----------------------------------------------------------------------------
Transactions == \A r \in Renamer : TransactionInv(r)

(* A statement of r that re-owns S takes the rows of S, and no other, from *)
(* whoever held them, and gives none to any source.                        *)
LEMMA HeldShrinks ==
  ASSUME Typed, Uncrossed, NEW r \in Renamer, NEW S \in SUBSET Row, ReOwn(r, S), NEW q \in Renamer
  PROVE  /\ Own!Held(q)' = Own!Held(q) \ S
         /\ Own!LiveHeld(q)' = Own!LiveHeld(q) \ S
<1>1. Own!Held(q)' = Own!Held(q) \ S
  BY RenameAssumption DEF Uncrossed, ReOwn, Own!Give, Own!Held
<1>2. inFlight' = inFlight
  BY DEF ReOwn
<1> QED
  BY <1>1, <1>2 DEF Own!LiveHeld

(* What the transaction of q holds stays as it is when others move rows it *)
(* has not locked and its own place is unchanged.                          *)
LEMMA TransactionKept ==
  ASSUME Typed, Transactions, NEW q \in Renamer, NEW S,
         Own!LiveHeld(q)' = Own!LiveHeld(q) \ S, S \cap locked[q] = {},
         pc'[q] = pc[q], at'[q] = at[q], locked'[q] = locked[q],
         \A p \in Renamer \ {q} : locked'[p] \cap locked[q] = {}
  PROVE  TransactionInv(q)'
<1>1. Updated(q)' = Updated(q)
  BY DEF Updated
<1> QED
  BY <1>1 DEF Transactions, TransactionInv

(* What is live of a table whose UPDATE has been done is locked.           *)
LEMMA UpdateLocks ==
  ASSUME Typed, Transactions, Uncrossed, NEW r \in Renamer, Update(r)
  PROVE  TransactionInv(r)'
<1>T. /\ pc \in [Renamer -> {"idle", "update", "commit", "bound", "move"}]
      /\ at \in [Renamer -> Opening \cup Batched]
      /\ locked \in [Renamer -> SUBSET Row]
      /\ inFlight \subseteq Own!Workflow
      /\ at[r] \in Opening /\ pc[r] = "update"
  BY DEF Typed, TypeOK, Own!TypeOK, Places, PlaceInv, Update
<1>I. TransactionInv(r)
  BY DEF Transactions
<1>1. Own!LiveHeld(r)' = Own!LiveHeld(r)
  BY DEF Update, Own!LiveHeld, Own!Held
<1>2. /\ locked'[r] = locked[r] \cup OpeningRows(r)
      /\ \A q \in Renamer \ {r} : locked'[q] = locked[q]
      /\ at'[r] = NextStatement[at[r]]
      /\ pc'[r] = IF at[r] = "in_flight" THEN "commit" ELSE "update"
  BY <1>T DEF Update
<1>3. OpeningRows(r) \subseteq Own!LiveHeld(r)
  BY <1>T DEF OpeningRows, Own!LiveHeld, Own!Held, Opening, Own!SmallTable
<1>4. locked'[r] \subseteq Own!LiveHeld(r)'
  BY <1>1, <1>2, <1>3, <1>I DEF TransactionInv
<1>5. \A q \in Renamer \ {r} : locked'[q] \cap locked'[r] = {}
  BY <1>2, <1>I DEF TransactionInv, Update, Free
<1>6. ASSUME NEW x \in Own!LiveHeld(r), Tab[x] \in Updated(r) \/ Tab[x] = at[r]
      PROVE  x \in locked'[r]
  <2>1. Tab[x] \in Updated(r) => x \in locked[r]
    BY <1>T, <1>I DEF TransactionInv
  <2>2. ASSUME Tab[x] = at[r] PROVE x \in OpeningRows(r)
    <3>1. x \in Own!Held(r) /\ x \in Row
      BY DEF Own!LiveHeld, Own!Held
    <3>2. Tab[x] \in Own!Table
      BY <3>1, RowAssumption
    <3>3. at[r] # "in_flight"
      BY <3>2, <2>2 DEF Own!Table, Own!SmallTable
    <3> QED
      BY <3>1, <3>3, <2>2 DEF OpeningRows
  <2> QED
    BY <1>2, <1>6, <2>1, <2>2
<1>7. CASE at[r] = "in_flight"
  <2>1. ASSUME NEW x \in Own!LiveHeld(r) PROVE x \in locked'[r]
    <3>1. CASE x \in inFlight
      BY <3>1, <1>2, <1>7 DEF OpeningRows, Own!LiveHeld
    <3>2. CASE Tab[x] \in Own!SmallTable
      BY <3>2, <1>6, <1>7, <1>T DEF Updated
    <3> QED
      BY <3>1, <3>2 DEF Own!LiveHeld
  <2> QED
    BY <1>1, <1>2, <1>4, <1>5, <1>7, <2>1 DEF TransactionInv
<1>8. CASE at[r] # "in_flight"
  <2>1. /\ at[r] \in {"queues", "workflow_schedules", "application_versions"}
        /\ pc'[r] = "update"
    BY <1>2, <1>8, <1>T DEF Opening
  <2>2. \A t \in Own!Table : t \in Updated(r)' => t \in Updated(r) \/ t = at[r]
    BY <1>2, <1>T, <2>1 DEF Updated, NextStatement, Opening, Own!Table, Own!SmallTable
  <2>3. ASSUME NEW x \in Own!LiveHeld(r)', Tab[x] \in Updated(r)' PROVE x \in locked'[r]
    <3>1. x \in Row
      BY <2>3, <1>1 DEF Own!LiveHeld, Own!Held
    <3> QED
      BY <3>1, <1>1, <1>6, <2>2, <2>3, RowAssumption
  <2> QED
    BY <1>4, <1>5, <2>1, <2>3 DEF TransactionInv
<1> QED
  BY <1>7, <1>8

LEMMA TransactionStep ==
  ASSUME Stopped, Uncrossed
  PROVE  Typed /\ Transactions /\ [Next]_vars => Transactions'
<1> SUFFICES ASSUME Typed, Transactions, [Next]_vars PROVE Transactions'
  OBVIOUS
<1>T. /\ pc \in [Renamer -> {"idle", "update", "commit", "bound", "move"}]
      /\ at \in [Renamer -> Opening \cup Batched]
      /\ locked \in [Renamer -> SUBSET Row]
      /\ \A q \in Renamer : pc[q] \notin {"update", "commit"} => locked[q] = {}
      /\ \A q \in Renamer : pc[q] = "idle" => at[q] = "queues"
  BY DEF Typed, TypeOK, Places, PlaceInv
<1>I. \A q \in Renamer : TransactionInv(q)
  BY DEF Transactions
<1>0. CASE UNCHANGED vars
  BY <1>0 DEF vars, Transactions, TransactionInv, Updated, Own!LiveHeld, Own!Held
<1>1. ASSUME NEW r \in Renamer, Start(r) PROVE Transactions'
  <2>1. \A q \in Renamer : Own!LiveHeld(q)' = Own!LiveHeld(q)
    BY <1>1 DEF Start, Own!LiveHeld, Own!Held
  <2>2. pc'[r] = "update" /\ at'[r] = "queues" /\ locked' = locked /\ locked[r] = {}
    BY <1>1, <1>T DEF Start
  <2>3. Updated(r)' = {}
    BY <2>2 DEF Updated
  <2>4. TransactionInv(r)'
    BY <2>1, <2>2, <2>3, <1>I DEF TransactionInv
  <2>5. ASSUME NEW q \in Renamer \ {r} PROVE TransactionInv(q)'
    <3>1. Own!LiveHeld(q)' = Own!LiveHeld(q) \ {} /\ {} \cap locked[q] = {}
      BY <2>1
    <3>2. pc'[q] = pc[q] /\ at'[q] = at[q] /\ locked'[q] = locked[q]
      BY <1>1, <1>T DEF Start
    <3>3. \A p \in Renamer \ {q} : locked'[p] \cap locked[q] = {}
      BY <2>2, <1>I DEF TransactionInv
    <3> QED
      BY <3>1, <3>2, <3>3, TransactionKept
  <2> QED
    BY <2>4, <2>5 DEF Transactions
<1>2. ASSUME NEW r \in Renamer, Update(r) PROVE Transactions'
  <2>1. ASSUME NEW q \in Renamer \ {r} PROVE TransactionInv(q)'
    <3>1. Own!LiveHeld(q)' = Own!LiveHeld(q) \ {}
      BY <1>2 DEF Update, Own!LiveHeld, Own!Held
    <3>2. pc'[q] = pc[q] /\ at'[q] = at[q] /\ locked'[q] = locked[q]
      BY <1>2, <1>T DEF Update
    <3>3. OpeningRows(r) \cap locked[q] = {}
      BY <1>2 DEF Update, Free
    <3>4. \A p \in Renamer \ {q} : locked'[p] \cap locked[q] = {}
      BY <1>2, <1>T, <1>I, <3>3 DEF Update, TransactionInv
    <3> QED
      BY <3>1, <3>2, <3>4, TransactionKept
  <2> QED
    BY <1>2, <2>1, UpdateLocks DEF Transactions
(* A statement that re-owns S, and ends or passes the open transaction.    *)
<1>S. ASSUME NEW r \in Renamer, NEW S \in SUBSET Row, ReOwn(r, S), Own!LiveHeld(r) \ S = {},
             pc'[r] \notin {"update", "commit"}, locked'[r] = {},
             \A q \in Renamer \ {r} : /\ pc'[q] = pc[q] /\ at'[q] = at[q]
                                       /\ locked'[q] = locked[q] /\ S \cap locked[q] = {}
      PROVE  Transactions'
  <2>1. \A q \in Renamer : Own!LiveHeld(q)' = Own!LiveHeld(q) \ S
    BY <1>S, HeldShrinks
  <2>2. TransactionInv(r)'
    BY <1>S, <2>1 DEF TransactionInv
  <2>3. ASSUME NEW q \in Renamer \ {r} PROVE TransactionInv(q)'
    <3>1. \A p \in Renamer \ {q} : locked'[p] \cap locked[q] = {}
      BY <1>S, <1>I DEF TransactionInv
    <3> QED
      BY <1>S, <2>1, <3>1, TransactionKept
  <2> QED
    BY <2>2, <2>3 DEF Transactions
<1>3. ASSUME NEW r \in Renamer, Commit(r) \/ CommitUnanswered(r) PROVE Transactions'
  <2>1. ReOwn(r, locked[r]) /\ pc[r] = "commit" /\ Own!LiveHeld(r) \ locked[r] = {}
    BY <1>3, <1>I DEF Commit, CommitUnanswered, TransactionInv
  <2>2. pc'[r] \notin {"update", "commit"} /\ locked'[r] = {}
    BY <1>3, <1>T DEF Commit, CommitUnanswered, BeginBatches, EndRun
  <2>3. \A q \in Renamer \ {r} : pc'[q] = pc[q] /\ at'[q] = at[q] /\ locked'[q] = locked[q]
    BY <1>3, <1>T DEF Commit, CommitUnanswered, BeginBatches, EndRun
  <2>4. \A q \in Renamer \ {r} : locked[r] \cap locked[q] = {}
    BY <1>I DEF TransactionInv
  <2> QED
    BY <1>T, <1>S, <2>1, <2>2, <2>3, <2>4
<1>4. ASSUME NEW r \in Renamer, Bound(r) PROVE Transactions'
  <2>1. \A q \in Renamer : Own!LiveHeld(q)' = Own!LiveHeld(q)
    BY <1>4 DEF Bound, Own!LiveHeld, Own!Held
  <2>2. pc[r] = "bound" /\ pc'[r] = "move" /\ locked' = locked
    BY <1>4, <1>T DEF Bound
  <2>3. TransactionInv(r)'
    BY <2>1, <2>2, <1>I DEF TransactionInv
  <2>4. ASSUME NEW q \in Renamer \ {r} PROVE TransactionInv(q)'
    <3>1. Own!LiveHeld(q)' = Own!LiveHeld(q) \ {} /\ {} \cap locked[q] = {}
      BY <2>1
    <3>2. pc'[q] = pc[q] /\ at'[q] = at[q] /\ locked'[q] = locked[q]
      BY <1>4, <1>T DEF Bound
    <3>3. \A p \in Renamer \ {q} : locked'[p] \cap locked[q] = {}
      BY <2>2, <1>I DEF TransactionInv
    <3> QED
      BY <3>1, <3>2, <3>3, TransactionKept
  <2> QED
    BY <2>3, <2>4 DEF Transactions
<1>5. ASSUME NEW r \in Renamer, MoveBatch(r) \/ MoveUnanswered(r) PROVE Transactions'
  <2>1. ReOwn(r, BatchRows(r)) /\ pc[r] = "move" /\ Own!LiveHeld(r) \ BatchRows(r) = {}
    BY <1>5, <1>I DEF MoveBatch, MoveUnanswered, TransactionInv
  <2>2. pc'[r] \notin {"update", "commit"} /\ locked'[r] = {}
    BY <1>5, <1>T DEF MoveBatch, MoveUnanswered, AfterBatch, BeginBatches, EndRun
  <2>3. \A q \in Renamer \ {r} : pc'[q] = pc[q] /\ at'[q] = at[q] /\ locked'[q] = locked[q]
    BY <1>5, <1>T DEF MoveBatch, MoveUnanswered, AfterBatch, BeginBatches, EndRun
  <2>4. \A q \in Renamer \ {r} : BatchRows(r) \cap locked[q] = {}
    BY <1>5 DEF MoveBatch, MoveUnanswered, Free
  <2> QED
    BY <1>S, <2>1, <2>2, <2>3, <2>4, BatchRowsInRow
<1>6. ASSUME NEW r \in Renamer, Fail(r) PROVE Transactions'
  <2>1. \A q \in Renamer : Own!LiveHeld(q)' = Own!LiveHeld(q)
    BY <1>6 DEF Fail, Own!LiveHeld, Own!Held
  <2>2. pc'[r] = "idle" /\ locked'[r] = {}
    BY <1>6, <1>T DEF Fail, EndRun
  <2>3. TransactionInv(r)'
    BY <2>2 DEF TransactionInv
  <2>4. ASSUME NEW q \in Renamer \ {r} PROVE TransactionInv(q)'
    <3>1. pc'[q] = pc[q] /\ at'[q] = at[q] /\ locked'[q] = locked[q]
      BY <1>6, <1>T DEF Fail, EndRun
    <3>2. \A p \in Renamer \ {q} : locked'[p] \cap locked[q] = {}
      BY <1>6, <1>T, <1>I DEF Fail, EndRun, TransactionInv
    <3> QED
      BY <2>1, <3>1, <3>2, TransactionKept
  <2> QED
    BY <2>3, <2>4 DEF Transactions
<1>7. ASSUME NEW x \in Row, AppChanges(x) \/ \E n \in Busy : AppInserts(n, x) PROVE Transactions'
  <2>1. UNCHANGED local
    BY <1>7 DEF AppChanges, AppInserts
  <2>2. ASSUME NEW q \in Renamer PROVE TransactionInv(q)'
    <3>1. Own!LiveHeld(q)' = Own!LiveHeld(q) \ {} /\ {} \cap locked[q] = {}
      BY <1>7, AppsElsewhere
    <3>2. pc' = pc /\ at' = at /\ locked' = locked
      BY <2>1 DEF local
    <3>3. \A p \in Renamer \ {q} : locked'[p] \cap locked[q] = {}
      BY <3>2, <1>I DEF TransactionInv
    <3> QED
      BY <3>1, <3>2, <3>3, TransactionKept
  <2> QED
    BY <2>2 DEF Transactions
<1> QED
  BY <1>0, <1>1, <1>2, <1>3, <1>4, <1>5, <1>6, <1>7 DEF Next, Advance, Break
-----------------------------------------------------------------------------
(* A step of the command is a step of Ownership, or changes no owner.      *)
LEMMA OwnershipStep ==
  Typed /\ Transactions /\ [Next]_vars => [Own!Next]_<<owner, inFlight>>
<1> SUFFICES ASSUME Typed, Transactions, [Next]_vars
             PROVE  Own!Next \/ UNCHANGED <<owner, inFlight>>
  OBVIOUS
<1>0. CASE UNCHANGED vars
  BY <1>0 DEF vars
<1>1. ASSUME NEW r \in Renamer, Start(r) \/ Update(r) \/ Bound(r) \/ Fail(r)
      PROVE  UNCHANGED <<owner, inFlight>>
  BY <1>1 DEF Start, Update, Bound, Fail
<1>2. ASSUME NEW r \in Renamer, Commit(r) \/ CommitUnanswered(r) PROVE Own!Next
  <2>1. locked[r] = Own!LiveHeld(r)
    BY <1>2 DEF Commit, CommitUnanswered, Transactions, TransactionInv
  <2>2. Own!TransferLive(r)
    BY <1>2, <2>1 DEF Commit, CommitUnanswered, ReOwn, Own!TransferLive
  <2> QED
    BY <2>2 DEF Own!Next
<1>3. ASSUME NEW r \in Renamer, MoveBatch(r) \/ MoveUnanswered(r) PROVE Own!Next
  <2>1. Own!LiveHeld(r) = {}
    BY <1>3 DEF MoveBatch, MoveUnanswered, Transactions, TransactionInv
  <2>2. BatchRows(r) \in SUBSET Own!Held(r)
    BY DEF BatchRows
  <2>3. Own!TransferHistory(r, BatchRows(r))
    BY <1>3, <2>1, <2>2 DEF MoveBatch, MoveUnanswered, ReOwn, Own!TransferHistory
  <2> QED
    BY <2>2, <2>3 DEF Own!Next
<1>4. ASSUME NEW x \in Row, AppChanges(x) \/ \E n \in Busy : AppInserts(n, x) PROVE Own!Next
  BY <1>4 DEF AppChanges, AppInserts, Own!Next
<1> QED
  BY <1>0, <1>1, <1>2, <1>3, <1>4 DEF Next, Advance, Break

(* Renames of stopped applications, however they interleave, fail and are  *)
(* run again, hand an application over as Ownership says: what it runs on  *)
(* in one step, and its history only after that (RenameApplication).       *)
THEOREM ImplementsItsPromise ==
  ASSUME Stopped, Uncrossed PROVE Spec => ImplementsOwnership
<1>1. Init => Own!Init
  BY DEF Init
<1>2. Init => Transactions
  BY DEF Init, Transactions, TransactionInv
<1>3. Spec => []Transactions
  BY <1>2, TransactionStep, AlwaysTyped, PTL DEF Spec
<1> QED
  BY <1>1, <1>3, OwnershipStep, AlwaysTyped, PTL DEF Spec, ImplementsOwnership, Own!Spec
=============================================================================
