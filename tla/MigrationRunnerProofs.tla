------------------------ MODULE MigrationRunnerProofs ------------------------
(***************************************************************************)
(* Theorems about the migration runner, for every list of migrations that  *)
(* satisfies the assumptions of MigrationRunner.                           *)
(***************************************************************************)
EXTENDS MigrationRunner, TLAPS

-----------------------------------------------------------------------------
(* What the list of migrations says of an object.                          *)

(* The next version of the list is unique.                                 *)
LEMMA NextUnique ==
  ASSUME NEW v \in Version \cup {0}, NEW n, NEW m,
         NextAfter(v, n), NextAfter(v, m)
  PROVE  n = m
BY VersionAssumption DEF NextAfter

(* The definition at v is that of the last migration to touch the object.  *)
LEMMA DefAtLast ==
  ASSUME NEW o \in Object, NEW v \in Version \cup {0}, NEW w \in Version,
         LastTouch(o, v, w)
  PROVE  DefAt[o][v] = IF o \in Adds[w] THEN w ELSE 0
<1>1. \A u \in Version : LastTouch(o, v, u) => u = w
  BY VersionAssumption DEF LastTouch
<1>2. (CHOOSE u \in Version : LastTouch(o, v, u)) = w
  BY <1>1
<1>3. QED
  BY <1>1, <1>2 DEF DefAt

(* An object nothing has touched yet is not there.                         *)
LEMMA DefAtUntouched ==
  ASSUME NEW o \in Object, NEW v \in Version \cup {0},
         \A w \in Version : ~LastTouch(o, v, w)
  PROVE  DefAt[o][v] = 0
BY DEF DefAt

LEMMA DefAtZero ==
  ASSUME NEW o \in Object
  PROVE  DefAt[o][0] = 0
<1>1. \A w \in Version : ~LastTouch(o, 0, w)
  BY VersionAssumption DEF LastTouch
<1>2. QED
  BY <1>1, DefAtUntouched

LEMMA DefAtType ==
  ASSUME NEW o \in Object, NEW v \in Version \cup {0}
  PROVE  DefAt[o][v] \in Version \cup {0}
<1>1. CASE \E w \in Version : LastTouch(o, v, w)
  BY <1>1, DefAtLast
<1>2. CASE \A w \in Version : ~LastTouch(o, v, w)
  BY <1>2, DefAtUntouched
<1>3. QED
  BY <1>1, <1>2

(* One migration further: what it adds carries its definition, what it     *)
(* drops is gone, the rest is as it was.                                   *)
LEMMA DefAtStep ==
  ASSUME NEW o \in Object, NEW r \in Version \cup {0}, NEW n \in Version,
         NextAfter(r, n)
  PROVE  DefAt[o][n] = IF o \in Adds[n] THEN n
                       ELSE IF o \in Drops[n] THEN 0 ELSE DefAt[o][r]
<1>0. r \in Nat /\ n \in Nat /\ n > r /\ \A w \in Version : w \in Nat
  BY VersionAssumption DEF NextAfter
<1>1. \A w \in Version : w <= n <=> (w = n \/ w <= r)
  BY <1>0 DEF NextAfter
<1>2. CASE o \in Adds[n] \cup Drops[n]
  <2>1. LastTouch(o, n, n)
    BY <1>2, <1>0 DEF LastTouch
  <2>2. QED
    BY <1>2, <2>1, DefAtLast
<1>3. CASE o \notin Adds[n] \cup Drops[n]
  <2>1. \A w \in Version : LastTouch(o, n, w) <=> LastTouch(o, r, w)
    BY <1>3, <1>1, <1>0 DEF LastTouch
  <2>2. CASE \E w \in Version : LastTouch(o, r, w)
    BY <1>3, <2>1, <2>2, DefAtLast
  <2>3. CASE \A w \in Version : ~LastTouch(o, r, w)
    BY <1>3, <2>1, <2>3, DefAtUntouched
  <2>4. QED
    BY <2>2, <2>3
<1>4. QED
  BY <1>2, <1>3

(* What the next migration adds is not there yet.                          *)
LEMMA DefAtFresh ==
  ASSUME NEW r \in Version \cup {0}, NEW n \in Version, NextAfter(r, n),
         NEW o \in Object, o \in Adds[n]
  PROVE  DefAt[o][r] = 0
<1>1. CASE r = 0
  BY <1>1, DefAtZero
<1>2. CASE r \in Version
  BY <1>2, FreshAssumption
<1>3. QED
  BY <1>1, <1>2

(* An object only v touches, a transaction's table or column, is there     *)
(* from v on.                                                              *)
LEMMA DefAtOwn ==
  ASSUME NEW v \in Version, NEW r \in Version \cup {0}, v <= r,
         NEW o \in Object, o \in Adds[v], OnlyBy(o, v)
  PROVE  DefAt[o][r] = v
<1>1. LastTouch(o, r, v)
  BY VersionAssumption DEF LastTouch, OnlyBy
<1>2. QED
  BY <1>1, DefAtLast
-----------------------------------------------------------------------------
(* Type correctness.                                                       *)

LEMMA TypeInit == Init => TypeOK
<1> SUFFICES ASSUME Init PROVE TypeOK
  OBVIOUS
<1>1. PICK v \in Version \cup {0} :
        /\ rows = {v} \ {0}
        /\ def = [o \in Object |-> DefAt[o][v]]
        /\ stat = [o \in Object |-> IF DefAt[o][v] = 0 THEN "absent" ELSE "valid"]
  BY DEF Init
<1>2. rows \subseteq Version
  BY <1>1
<1>3. def \in [Object -> Version \cup {0}]
  BY <1>1, DefAtType
<1>4. stat \in [Object -> Status]
  BY <1>1 DEF Status
<1>5. QED
  BY <1>2, <1>3, <1>4 DEF Init, TypeOK, Place

LEMMA StartType ==
  ASSUME TypeOK, NEW o \in Object, NEW d \in Version \cup {0},
         NEW who \in SUBSET Migrator, StartStatement(o, d, who)
  PROVE  /\ stat' \in [Object -> Status]
         /\ def' \in [Object -> Version \cup {0}]
         /\ owner' \in [Object -> SUBSET Migrator]
BY DEF TypeOK, StartStatement, Status, InFlight

LEMMA WriteType ==
  ASSUME TypeOK, NEW v \in Version, NEW lastApplied, WriteMigrationVersion(v, lastApplied)
  PROVE  rows' \subseteq Version
BY DEF TypeOK, WriteMigrationVersion

LEMMA EndType ==
  ASSUME TypeOK, NEW p \in Migrator, EndRun(p)
  PROVE  /\ pc' \in [Migrator -> Place]
         /\ cur' \in [Migrator -> Version \cup {0}]
         /\ cleaned' \in [Migrator -> BOOLEAN]
         /\ todo' \in [Migrator -> SUBSET Object]
BY DEF TypeOK, EndRun, Place

LEMMA EffectObjects ==
  ASSUME NEW v \in Version
  PROVE  Adds[v] \subseteq Object /\ Drops[v] \subseteq Object
BY EffectAssumption

LEMMA TypeStep == TypeOK /\ [Next]_vars => TypeOK'
<1> SUFFICES ASSUME TypeOK, [Next]_vars PROVE TypeOK'
  OBVIOUS
<1>1. ASSUME NEW p \in Migrator, ShouldMigrate(p) PROVE TypeOK'
  BY <1>1 DEF ShouldMigrate, TypeOK, Place, catalog
<1>2. ASSUME NEW p \in Migrator, Setup(p) PROVE TypeOK'
  BY <1>2 DEF Setup, TypeOK, Place, catalog
<1>3. ASSUME NEW p \in Migrator, NEW v \in Version, ApplyCatalog(p, v) PROVE TypeOK'
  <2>1. rows' \subseteq Version
    BY <1>3, WriteType DEF ApplyCatalog
  <2>2. stat' \in [Object -> Status] /\ def' \in [Object -> Version \cup {0}]
    BY <1>3 DEF ApplyCatalog, TypeOK, Status
  <2>3. QED
    BY <1>3, <2>1, <2>2 DEF ApplyCatalog, TypeOK
<1>4. ASSUME NEW p \in Migrator, NEW v \in Version, ListInvalid(p, v) PROVE TypeOK'
  BY <1>4 DEF ListInvalid, TypeOK, Place, catalog
<1>5. ASSUME NEW p \in Migrator, NEW o \in Object, DropListed(p, o) PROVE TypeOK'
  <2>1. CASE StartStatement(o, 0, {p})
    <3>1. /\ stat' \in [Object -> Status]
          /\ def' \in [Object -> Version \cup {0}]
          /\ owner' \in [Object -> SUBSET Migrator]
      BY <2>1, StartType
    <3>2. QED
      BY <1>5, <3>1 DEF DropListed, TypeOK, Place, catalog
  <2>2. CASE ~StartStatement(o, 0, {p})
    BY <1>5, <2>2 DEF DropListed, TypeOK, Place, catalog
  <2>3. QED
    BY <2>1, <2>2
<1>6. ASSUME NEW p \in Migrator, CleanupDone(p) PROVE TypeOK'
  BY <1>6 DEF CleanupDone, TypeOK, Place, catalog
<1>7. ASSUME NEW p \in Migrator, NEW v \in Version, ExecOnline(p, v) PROVE TypeOK'
  <2>1. PICK o \in Adds[v] \cup Drops[v] :
          \/ StartStatement(o, IF o \in Adds[v] THEN v ELSE 0, {p}) /\ pc' = [pc EXCEPT ![p] = "exec"]
          \/ pc' = [pc EXCEPT ![p] = "record"] /\ UNCHANGED catalog
    BY <1>7 DEF ExecOnline
  <2>2. o \in Object
    BY EffectObjects
  <2>3. /\ stat' \in [Object -> Status]
        /\ def' \in [Object -> Version \cup {0}]
        /\ owner' \in [Object -> SUBSET Migrator]
    BY <2>1, <2>2, StartType DEF catalog, TypeOK
  <2>4. pc' \in [Migrator -> Place]
    BY <2>1 DEF TypeOK, Place
  <2>5. QED
    BY <1>7, <2>3, <2>4 DEF ExecOnline, TypeOK
<1>8. ASSUME NEW p \in Migrator, NEW v \in Version, RecordOnline(p, v) PROVE TypeOK'
  <2>1. rows' \subseteq Version
    BY <1>8, WriteType DEF RecordOnline
  <2>2. QED
    BY <1>8, <2>1 DEF RecordOnline, TypeOK, Place, catalog
<1>9. ASSUME NEW p \in Migrator, Finish(p) PROVE TypeOK'
  BY <1>9, EndType DEF Finish, TypeOK, catalog
<1>10. ASSUME NEW p \in Migrator, Stop(p) PROVE TypeOK'
  <2>1. orphans' \subseteq Statement
    <3>1. CASE UNCHANGED orphans
      BY <3>1 DEF TypeOK
    <3>2. ASSUME NEW o \in todo[p], orphans' = orphans \cup {<<o, 0>>}
          PROVE  orphans' \subseteq Statement
      BY <3>2 DEF TypeOK, Statement
    <3>3. ASSUME NEW v \in Online, NEW o \in Adds[v] \cup Drops[v],
                 orphans' = orphans \cup {<<o, IF o \in Adds[v] THEN v ELSE 0>>}
          PROVE  orphans' \subseteq Statement
      <4>1. v \in Version /\ o \in Object
        BY EffectObjects, VersionAssumption
      <4>2. QED
        BY <3>3, <4>1 DEF TypeOK, Statement
    <3>4. QED
      BY <1>10, <3>1, <3>2, <3>3 DEF Stop
  <2>2. QED
    BY <1>10, <2>1, EndType DEF Stop, TypeOK
<1>11. ASSUME NEW o \in Object, Complete(o) PROVE TypeOK'
  BY <1>11 DEF Complete, TypeOK, Place, Status
<1>12. ASSUME NEW o \in Object, Abort(o) PROVE TypeOK'
  BY <1>12 DEF Abort, TypeOK, Place, Status
<1>13. ASSUME NEW o \in Object, ForeignBuild(o) PROVE TypeOK'
  BY <1>13 DEF ForeignBuild, TypeOK, Status, InFlight, local
<1>14. ASSUME NEW s \in orphans, StartOrphan(s) PROVE TypeOK'
  <2>1. s[1] \in Object /\ s[2] \in Version \cup {0}
    BY DEF TypeOK, Statement
  <2>2. /\ stat' \in [Object -> Status]
        /\ def' \in [Object -> Version \cup {0}]
        /\ owner' \in [Object -> SUBSET Migrator]
    <3>1. CASE StartStatement(s[1], s[2], {})
      <4>1. {} \in SUBSET Migrator
        OBVIOUS
      <4>2. QED
        BY <2>1, <3>1, <4>1, StartType
    <3>2. CASE ~StartStatement(s[1], s[2], {})
      BY <1>14, <3>2 DEF StartOrphan, catalog, TypeOK
    <3>3. QED
      BY <3>1, <3>2
  <2>3. QED
    BY <1>14, <2>2 DEF StartOrphan, TypeOK, local
<1>15. CASE UNCHANGED vars
  BY <1>15 DEF vars, TypeOK
<1>16. QED
  BY <1>1, <1>2, <1>3, <1>4, <1>5, <1>6, <1>7, <1>8, <1>9, <1>10, <1>11, <1>12,
     <1>13, <1>14, <1>15 DEF Next, Advance

(* Every variable keeps its type.                                          *)
THEOREM TypeCorrect == Spec => []TypeOK
BY TypeInit, TypeStep, PTL DEF Spec
-----------------------------------------------------------------------------
(* Any number of migrators: one version row, and no table missing.         *)

LEMMA OwnIsTransactional ==
  ASSUME NEW v \in Version \ Online, NEW o \in Adds[v], OnlyBy(o, v)
  PROVE  o \in Object /\ TransactionalObject(o)
BY EffectObjects, VersionAssumption DEF OnlyBy, TransactionalObject, Managed

LEMMA SharedInit == Init => SharedInv
<1> SUFFICES ASSUME Init PROVE SharedInv
  OBVIOUS
<1>1. PICK x \in Version \cup {0} :
        /\ rows = {x} \ {0}
        /\ stat = [o \in Object |-> IF DefAt[o][x] = 0 THEN "absent" ELSE "valid"]
  BY DEF Init
<1>2. OneVersionRow
  BY <1>1 DEF OneVersionRow
<1>3. ASSUME NEW v \in Version \ Online, NEW o \in Adds[v], OnlyBy(o, v)
      PROVE  /\ \A r \in rows : v <= r => stat[o] = "valid"
             /\ \A p \in Migrator : v <= cur[p] => stat[o] = "valid"
  <2>1. o \in Object
    BY <1>3, EffectObjects
  <2>2. ASSUME NEW r \in rows, v <= r PROVE stat[o] = "valid"
    <3>1. r = x /\ r \in Version
      BY <1>1
    <3>2. DefAt[o][x] = v
      BY <1>3, <2>1, <2>2, <3>1, DefAtOwn
    <3>3. QED
      BY <1>1, <2>1, <3>2, VersionAssumption
  <2>3. ASSUME NEW p \in Migrator, v <= cur[p] PROVE FALSE
    BY <2>3, VersionAssumption DEF Init
  <2>4. QED
    BY <2>2, <2>3
<1>4. ASSUME NEW o \in Object
      PROVE  /\ stat[o] \in {"absent", "valid"}
             /\ \A p \in Migrator : o \notin todo[p]
             /\ \A s \in orphans : s[1] # o
  BY <1>1 DEF Init
<1>5. QED
  BY <1>2, <1>3, <1>4 DEF SharedInv

(* Steps that leave the version row and the transactional objects alone.   *)
LEMMA SharedFrame ==
  ASSUME TypeOK, SharedInv, rows' = rows,
         \A o \in Object : TransactionalObject(o) =>
           /\ stat'[o] = stat[o]
           /\ \A p \in Migrator : o \notin todo'[p]
           /\ \A s \in orphans' : s[1] # o,
         \A p \in Migrator : cur'[p] \in {0, cur[p]} \cup rows
  PROVE  SharedInv'
<1>1. OneVersionRow'
  BY DEF SharedInv, OneVersionRow
<1>2. ASSUME NEW o \in Object, TransactionalObject(o)
      PROVE  /\ stat'[o] \in {"absent", "valid"}
             /\ \A p \in Migrator : o \notin todo'[p]
             /\ \A s \in orphans' : s[1] # o
  BY <1>2 DEF SharedInv
<1>3. ASSUME NEW v \in Version \ Online, NEW o \in Adds[v], OnlyBy(o, v)
      PROVE  /\ \A r \in rows' : v <= r => stat'[o] = "valid"
             /\ \A p \in Migrator : v <= cur'[p] => stat'[o] = "valid"
  <2>1. stat'[o] = stat[o]
    BY <1>3, OwnIsTransactional
  <2>2. /\ \A r \in rows : v <= r => stat[o] = "valid"
        /\ \A p \in Migrator : v <= cur[p] => stat[o] = "valid"
    BY <1>3 DEF SharedInv
  <2>3. ~(v <= 0)
    BY VersionAssumption
  <2>4. QED
    BY <2>1, <2>2, <2>3
<1>4. QED
  BY <1>1, <1>2, <1>3 DEF SharedInv

(* A statement of PostgreSQL works on one object.                          *)
LEMMA StartFrame ==
  ASSUME TypeOK, NEW o \in Object, NEW d, NEW who, StartStatement(o, d, who)
  PROVE  \A q \in Object : q # o => stat'[q] = stat[q] /\ def'[q] = def[q] /\ owner'[q] = owner[q]
BY DEF StartStatement, TypeOK

LEMMA OnlineTarget ==
  ASSUME NEW v \in Online, NEW o \in Adds[v] \cup Drops[v]
  PROVE  o \in Object /\ o \in Managed /\ ~TransactionalObject(o)
<1>1. v \in Version /\ o \in Object
  BY EffectObjects, VersionAssumption
<1>2. QED
  BY <1>1 DEF TransactionalObject, Managed

LEMMA SharedStep == TypeOK /\ SharedInv /\ [Next]_vars => SharedInv'
<1> SUFFICES ASSUME TypeOK, SharedInv, [Next]_vars PROVE SharedInv'
  OBVIOUS
<1>a. \A o \in Object : TransactionalObject(o) =>
        /\ Settled(o)
        /\ stat[o] \in {"absent", "valid"}
        /\ \A p \in Migrator : o \notin todo[p]
        /\ \A s \in orphans : s[1] # o
  BY DEF SharedInv, Settled, InFlight
<1>1. ASSUME NEW p \in Migrator, ShouldMigrate(p) PROVE SharedInv'
  BY <1>1, <1>a, SharedFrame DEF ShouldMigrate, catalog
<1>2. ASSUME NEW p \in Migrator, Setup(p) PROVE SharedInv'
  <2>1. \A q \in Migrator : cur'[q] \in {0, cur[q]} \cup rows
    BY <1>2 DEF Setup, Recorded, TypeOK
  <2>2. QED
    BY <1>2, <1>a, <2>1, SharedFrame DEF Setup, catalog
<1>3. ASSUME NEW p \in Migrator, NEW v \in Version, ApplyCatalog(p, v) PROVE SharedInv'
  <2>0. /\ NextAfter(cur[p], v) /\ v \notin Online /\ cur[p] \in Version \cup {0}
        /\ cur' = [cur EXCEPT ![p] = v]
        /\ todo' = todo /\ orphans' = orphans
        /\ WriteMigrationVersion(v, cur[p])
    BY <1>3 DEF ApplyCatalog, TypeOK
  <2>1. OneVersionRow'
    <3>1. CASE cur[p] = 0
      <4>1. PICK o \in Adds[v] : OnlyBy(o, v)
        BY <2>0, <3>1, FirstAssumption
      <4>2. stat[o] = "absent"
        BY <1>3, <2>0, <3>1, FirstAssumption DEF ApplyCatalog, Accepts
      <4>3. \A r \in rows : v <= r
        BY <2>0, <3>1, VersionAssumption DEF NextAfter, TypeOK
      <4>4. rows = {}
        BY <2>0, <4>1, <4>2, <4>3 DEF SharedInv
      <4>5. QED
        BY <2>0, <3>1, <4>4 DEF WriteMigrationVersion, OneVersionRow
    <3>2. CASE cur[p] # 0
      BY <2>0, <3>2 DEF WriteMigrationVersion, OneVersionRow
    <3>3. QED
      BY <3>1, <3>2
  <2>2. ASSUME NEW o \in Object, TransactionalObject(o)
        PROVE  /\ stat'[o] \in {"absent", "valid"}
               /\ \A q \in Migrator : o \notin todo'[q]
               /\ \A s \in orphans' : s[1] # o
    BY <1>3, <2>0, <2>2, <1>a DEF ApplyCatalog
  <2>3. ASSUME NEW u \in Version \ Online, NEW o \in Adds[u], OnlyBy(o, u)
        PROVE  /\ \A r \in rows' : u <= r => stat'[o] = "valid"
               /\ \A q \in Migrator : u <= cur'[q] => stat'[o] = "valid"
    <3>1. o \in Object /\ TransactionalObject(o)
      BY <2>3, OwnIsTransactional
    <3>2. o \notin Drops[v]
      BY <2>3, EffectAssumption DEF OnlyBy
    <3>3. stat[o] = "valid" => stat'[o] = "valid"
      BY <1>3, <3>1, <3>2 DEF ApplyCatalog
    <3>4. u <= v => stat'[o] = "valid"
      <4>1. CASE u = v
        <5>1. o \in Adds[v] /\ stat[o] \in {"absent", "valid"}
          BY <1>a, <3>1, <4>1
        <5>2. stat'[o] = IF o \in Adds[v] /\ stat[o] = "absent" THEN "valid"
                         ELSE IF o \in Drops[v] THEN "absent" ELSE stat[o]
          BY <1>3, <3>1 DEF ApplyCatalog
        <5>3. QED
          BY <3>2, <5>1, <5>2
      <4>2. CASE u # v
        <5>1. u \in Nat /\ v \in Nat /\ cur[p] \in Nat
          <6>1. \A n \in Version \cup {0} : n \in Nat
            BY VersionAssumption
          <6>2. QED
            BY <2>0, <6>1
        <5>2. u <= v => u <= cur[p]
          BY <2>0, <2>3, <4>2, <5>1 DEF NextAfter
        <5>3. u <= cur[p] => stat[o] = "valid"
          BY <2>3 DEF SharedInv
        <5>4. QED
          BY <3>3, <5>2, <5>3
      <4>3. QED
        BY <4>1, <4>2
    <3>5. \A r \in rows' : r = v \/ r \in rows
      BY <2>0 DEF WriteMigrationVersion
    <3>6. \A q \in Migrator : cur'[q] = v \/ cur'[q] = cur[q]
      BY <2>0 DEF TypeOK
    <3>7. QED
      BY <2>3, <3>3, <3>4, <3>5, <3>6 DEF SharedInv
  <2>4. QED
    BY <2>1, <2>2, <2>3 DEF SharedInv
<1>4. ASSUME NEW p \in Migrator, NEW v \in Version, ListInvalid(p, v) PROVE SharedInv'
  <2>1. \A o \in Object : TransactionalObject(o) => \A q \in Migrator : o \notin todo'[q]
    BY <1>4, <1>a DEF ListInvalid, TypeOK
  <2>2. QED
    BY <1>4, <1>a, <2>1, SharedFrame DEF ListInvalid, catalog
<1>5. ASSUME NEW p \in Migrator, NEW o \in Object, DropListed(p, o) PROVE SharedInv'
  <2>1. ~TransactionalObject(o)
    BY <1>5, <1>a DEF DropListed
  <2>2. \A q \in Object : TransactionalObject(q) => stat'[q] = stat[q]
    BY <1>5, <2>1, StartFrame DEF DropListed, catalog
  <2>3. \A q \in Migrator : todo'[q] \subseteq todo[q]
    BY <1>5 DEF DropListed, TypeOK
  <2>4. QED
    BY <1>5, <1>a, <2>2, <2>3, SharedFrame DEF DropListed
<1>6. ASSUME NEW p \in Migrator, CleanupDone(p) PROVE SharedInv'
  BY <1>6, <1>a, SharedFrame DEF CleanupDone, catalog
<1>7. ASSUME NEW p \in Migrator, NEW v \in Version, ExecOnline(p, v) PROVE SharedInv'
  <2>1. PICK o \in Adds[v] \cup Drops[v] :
          \/ StartStatement(o, IF o \in Adds[v] THEN v ELSE 0, {p})
          \/ UNCHANGED catalog
    BY <1>7 DEF ExecOnline
  <2>2. o \in Object /\ ~TransactionalObject(o)
    BY <1>7, OnlineTarget DEF ExecOnline
  <2>3. \A q \in Object : TransactionalObject(q) => stat'[q] = stat[q]
    BY <2>1, <2>2, StartFrame DEF catalog
  <2>4. QED
    BY <1>7, <1>a, <2>3, SharedFrame DEF ExecOnline
<1>8. ASSUME NEW p \in Migrator, NEW v \in Version, RecordOnline(p, v) PROVE SharedInv'
  <2>0. /\ NextAfter(cur[p], v) /\ v \in Online /\ cur[p] \in Version \cup {0}
        /\ cur' = [cur EXCEPT ![p] = v]
        /\ stat' = stat /\ todo' = todo /\ orphans' = orphans
        /\ WriteMigrationVersion(v, cur[p])
    BY <1>8 DEF RecordOnline, TypeOK, catalog
  <2>1. cur[p] # 0
    BY <2>0, FirstAssumption
  <2>2. OneVersionRow' /\ \A r \in rows' : r = v
    BY <2>0, <2>1 DEF WriteMigrationVersion, OneVersionRow
  <2>3. ASSUME NEW u \in Version \ Online, NEW o \in Adds[u], OnlyBy(o, u)
        PROVE  /\ \A r \in rows' : u <= r => stat'[o] = "valid"
               /\ \A q \in Migrator : u <= cur'[q] => stat'[o] = "valid"
    <3>0. u \in Nat /\ v \in Nat /\ cur[p] \in Nat /\ u # v
      <4>1. u # v
        BY <2>0
      <4>2. \A w \in Version \cup {0} : w \in Nat
        BY VersionAssumption
      <4>3. QED
        BY <2>0, <4>1, <4>2
    <3>1. u <= v => u <= cur[p]
      BY <2>0, <3>0 DEF NextAfter
    <3>2. u <= v => stat[o] = "valid"
      BY <2>3, <3>1 DEF SharedInv
    <3>3. \A q \in Migrator : cur'[q] = v \/ cur'[q] = cur[q]
      BY <2>0 DEF TypeOK
    <3>4. QED
      BY <2>0, <2>2, <2>3, <3>2, <3>3 DEF SharedInv
  <2>4. QED
    BY <1>a, <2>0, <2>2, <2>3 DEF SharedInv
<1>9. ASSUME NEW p \in Migrator, Finish(p) PROVE SharedInv'
  BY <1>9, <1>a, SharedFrame DEF Finish, EndRun, catalog, TypeOK
<1>10. ASSUME NEW p \in Migrator, Stop(p) PROVE SharedInv'
  <2>1. \A o \in Object : TransactionalObject(o) => \A s \in orphans' : s[1] # o
    <3>1. ASSUME NEW q \in todo[p], orphans' = orphans \cup {<<q, 0>>},
                 NEW o \in Object, TransactionalObject(o), NEW s \in orphans'
          PROVE  s[1] # o
      BY <3>1, <1>a
    <3>2. ASSUME NEW v \in Online, NEW q \in Adds[v] \cup Drops[v],
                 orphans' = orphans \cup {<<q, IF q \in Adds[v] THEN v ELSE 0>>},
                 NEW o \in Object, TransactionalObject(o), NEW s \in orphans'
          PROVE  s[1] # o
      BY <3>2, <1>a, OnlineTarget
    <3>3. QED
      BY <1>10, <1>a, <3>1, <3>2 DEF Stop
  <2>2. \A q \in Migrator : todo'[q] \subseteq todo[q] /\ cur'[q] \in {0, cur[q]}
    BY <1>10 DEF Stop, EndRun, TypeOK
  <2>3. rows' = rows /\ stat' = stat
    BY <1>10 DEF Stop
  <2>4. QED
    BY <1>a, <2>1, <2>2, <2>3, SharedFrame
<1>11. ASSUME NEW o \in Object, Complete(o) PROVE SharedInv'
  <2>1. ~TransactionalObject(o)
    BY <1>11, <1>a DEF Complete, InFlight
  <2>2. \A q \in Object : q # o => stat'[q] = stat[q]
    BY <1>11 DEF Complete, TypeOK
  <2>3. \A q \in Migrator : todo'[q] \subseteq todo[q]
    BY <1>11 DEF Complete, TypeOK
  <2>4. QED
    BY <1>11, <1>a, <2>1, <2>2, <2>3, SharedFrame DEF Complete
<1>12. ASSUME NEW o \in Object, Abort(o) PROVE SharedInv'
  <2>1. ~TransactionalObject(o)
    BY <1>12, <1>a DEF Abort, InFlight
  <2>2. \A q \in Object : q # o => stat'[q] = stat[q]
    BY <1>12 DEF Abort, TypeOK
  <2>3. \A q \in Migrator : todo'[q] \subseteq todo[q] /\ cur'[q] \in {0, cur[q]}
    BY <1>12 DEF Abort, TypeOK
  <2>4. QED
    BY <1>12, <1>a, <2>1, <2>2, <2>3, SharedFrame DEF Abort
<1>13. ASSUME NEW o \in Object, ForeignBuild(o) PROVE SharedInv'
  <2>1. ~TransactionalObject(o)
    BY <1>13 DEF ForeignBuild, Foreign, TransactionalObject
  <2>2. \A q \in Object : q # o => stat'[q] = stat[q]
    BY <1>13 DEF ForeignBuild, TypeOK
  <2>3. QED
    BY <1>13, <1>a, <2>1, <2>2, SharedFrame DEF ForeignBuild, local
<1>14. ASSUME NEW s \in orphans, StartOrphan(s) PROVE SharedInv'
  <2>1. s[1] \in Object /\ ~TransactionalObject(s[1])
    BY <1>a DEF TypeOK, Statement
  <2>2. \A q \in Object : TransactionalObject(q) => stat'[q] = stat[q]
    BY <1>14, <2>1, StartFrame DEF StartOrphan, catalog
  <2>3. QED
    BY <1>14, <1>a, <2>2, SharedFrame DEF StartOrphan, local
<1>15. CASE UNCHANGED vars
  BY <1>15, <1>a, SharedFrame DEF vars
<1>16. QED
  BY <1>1, <1>2, <1>3, <1>4, <1>5, <1>6, <1>7, <1>8, <1>9, <1>10, <1>11, <1>12,
     <1>13, <1>14, <1>15 DEF Next, Advance

LEMMA SharedInvariant == Spec => []SharedInv
BY TypeCorrect, SharedInit, SharedStep, PTL DEF Spec

(* However many migrators race on a database, its version table keeps one  *)
(* row.                                                                    *)
THEOREM VersionRowIsUnique == Spec => []OneVersionRow
<1>1. SharedInv => OneVersionRow
  BY DEF SharedInv
<1>2. QED
  BY SharedInvariant, <1>1, PTL

(* However many migrators race, a recorded version has its tables.         *)
THEOREM TablesArePresent == Spec => []RecordedTablesPresent
<1>1. SharedInv => RecordedTablesPresent
  BY DEF SharedInv, RecordedTablesPresent
<1>2. QED
  BY SharedInvariant, <1>1, PTL
-----------------------------------------------------------------------------
(* One migrator at a time, no lingering statement: the recorded version    *)
(* tells the truth at every step, whatever run was cut and wherever.       *)

LEMMA RecordedUnique ==
  ASSUME OneVersionRow, NEW r, NEW s, Recorded(r), Recorded(s)
  PROVE  r = s
BY DEF OneVersionRow, Recorded

(* An object the next online migration is not about is as recorded; the    *)
(* one it is about is in one of the states an interrupted run leaves.      *)
LEMMA CatalogCases ==
  ASSUME CatalogInv, NEW r \in Version \cup {0}, Recorded(r), NEW o \in Managed
  PROVE  /\ ~InProgress(o, r) => AsOf(o, r)
         /\ \A n \in Online : NextAfter(r, n) /\ o \in Adds[n] \cup Drops[n] => HalfDone(o, r, n)
<1>1. ~InProgress(o, r) => AsOf(o, r)
  BY DEF CatalogInv, InProgress
<1>2. ASSUME NEW n \in Online, NextAfter(r, n), o \in Adds[n] \cup Drops[n]
      PROVE  HalfDone(o, r, n)
  <2>1. n \in Version /\ o \in Object
    BY VersionAssumption DEF Managed
  <2>2. CASE AsOf(o, r)
    <3>1. CASE o \in Adds[n]
      <4>1. DefAt[o][r] = 0
        BY <1>2, <2>1, <3>1, DefAtFresh
      <4>2. QED
        BY <2>2, <4>1 DEF AsOf, HalfDone
    <3>2. CASE o \in Drops[n]
      BY <2>2, <3>2 DEF AsOf, HalfDone
    <3>3. QED
      BY <1>2, <3>1, <3>2
  <2>3. CASE ~AsOf(o, r)
    <3>1. PICK k \in Online : /\ NextAfter(r, k) /\ o \in Adds[k] \cup Drops[k]
                              /\ HalfDone(o, r, k)
      BY <2>3 DEF CatalogInv
    <3>2. k = n
      BY <1>2, <3>1, NextUnique
    <3>3. QED
      BY <3>1, <3>2
  <2>4. QED
    BY <2>2, <2>3
<1>3. QED
  BY <1>1, <1>2

(* A step that works on one object, which the next online migration is     *)
(* about, keeps CatalogInv if it leaves the object half done.              *)
LEMMA CatalogFrame ==
  ASSUME CatalogInv, rows' = rows, NEW o \in Object,
         \A q \in Managed : q # o => stat'[q] = stat[q] /\ def'[q] = def[q],
         o \in Managed =>
           \A r \in Version \cup {0} : Recorded(r) =>
             \/ stat'[o] = stat[o] /\ def'[o] = def[o]
             \/ \E n \in Online : /\ NextAfter(r, n) /\ o \in Adds[n] \cup Drops[n]
                                  /\ HalfDone(o, r, n)'
  PROVE  CatalogInv'
<1> SUFFICES ASSUME NEW r \in Version \cup {0}, Recorded(r)', NEW q \in Managed
             PROVE  \/ AsOf(q, r)'
                    \/ \E n \in Online : /\ NextAfter(r, n) /\ q \in Adds[n] \cup Drops[n]
                                         /\ HalfDone(q, r, n)'
  BY DEF CatalogInv
<1>1. Recorded(r)
  BY DEF Recorded
<1>2. CASE stat'[q] = stat[q] /\ def'[q] = def[q]
  BY <1>1, <1>2 DEF CatalogInv, AsOf, HalfDone
<1>3. CASE ~(stat'[q] = stat[q] /\ def'[q] = def[q])
  BY <1>1, <1>3
<1>4. QED
  BY <1>2, <1>3

LEMMA SingleInit ==
  Init => SingleInv
<1> SUFFICES ASSUME Init PROVE SingleInv
  OBVIOUS
<1>1. PICK v \in Version \cup {0} :
        /\ rows = {v} \ {0}
        /\ def = [o \in Object |-> DefAt[o][v]]
        /\ stat = [o \in Object |-> IF DefAt[o][v] = 0 THEN "absent" ELSE "valid"]
  BY DEF Init
<1>2. \A r \in Version \cup {0} : Recorded(r) => r = v
  BY <1>1 DEF Recorded
<1>3. \A o \in Managed : AsOf(o, v)
  BY <1>1 DEF AsOf, Managed
<1>4. CatalogInv
  BY <1>2, <1>3 DEF CatalogInv
<1>5. \A p \in Migrator : RunInv(p)
  BY DEF Init, RunInv
<1>6. QED
  BY <1>4, <1>5 DEF Init, SingleInv

(* The whole schema at version v, after the step from r to v.              *)
LEMMA NextSchema ==
  ASSUME NEW r \in Version \cup {0}, NEW v \in Version, NextAfter(r, v),
         NEW o \in Managed
  PROVE  DefAt[o][v] = IF o \in Adds[v] THEN v
                       ELSE IF o \in Drops[v] THEN 0 ELSE DefAt[o][r]
BY DefAtStep DEF Managed

(* A transaction finds the whole schema at the version before its own and  *)
(* leaves it at its own.                                                   *)
LEMMA AppliesToAll ==
  ASSUME TypeOK, OneVersionRow', SingleInv,
         NEW p \in Migrator, NEW v \in Version, ApplyCatalog(p, v)
  PROVE  /\ Recorded(cur[p]) /\ cur[p] \in Version \cup {0} /\ NextAfter(cur[p], v)
         /\ v \in rows' /\ \A r \in Version \cup {0} : Recorded(r)' => r = v
         /\ \A o \in Managed : AsOf(o, cur[p]) /\ AsOf(o, v)'
<1>0. /\ pc[p] = "loop" /\ Recorded(cur[p]) /\ cur[p] \in Version \cup {0}
      /\ NextAfter(cur[p], v) /\ v \notin Online
      /\ WriteMigrationVersion(v, cur[p])
  BY DEF ApplyCatalog, SingleInv, RunInv, TypeOK
<1>1. ASSUME NEW o \in Managed PROVE AsOf(o, cur[p]) /\ o \in Object
  <2>1. ~InProgress(o, cur[p])
    BY <1>0, NextUnique, VersionAssumption DEF InProgress
  <2>2. QED
    BY <1>0, <2>1, CatalogCases DEF SingleInv, Managed
<1>2. v \in rows' /\ \A r \in Version \cup {0} : Recorded(r)' => r = v
  <2>1. v \in rows'
    <3>1. CASE cur[p] = 0
      BY <1>0, <3>1 DEF WriteMigrationVersion
    <3>2. CASE cur[p] # 0
      BY <1>0, <3>2 DEF WriteMigrationVersion, Recorded
    <3>3. QED
      BY <3>1, <3>2
  <2>2. QED
    BY <2>1 DEF OneVersionRow, Recorded
<1>3. ASSUME NEW o \in Managed PROVE AsOf(o, v)'
  <2>1. DefAt[o][v] = IF o \in Adds[v] THEN v
                      ELSE IF o \in Drops[v] THEN 0 ELSE DefAt[o][cur[p]]
    BY <1>0, NextSchema
  <2>2. o \in Adds[v] => DefAt[o][cur[p]] = 0
    BY <1>0, <1>1, DefAtFresh
  <2>3. v # 0
    BY VersionAssumption
  <2>4. /\ stat'[o] = IF o \in Adds[v] /\ stat[o] = "absent" THEN "valid"
                      ELSE IF o \in Drops[v] THEN "absent" ELSE stat[o]
        /\ def'[o] = IF o \in Adds[v] /\ stat[o] = "absent" THEN v
                     ELSE IF o \in Drops[v] THEN 0 ELSE def[o]
    BY <1>1 DEF ApplyCatalog
  <2>5. QED
    BY <1>1, <2>1, <2>2, <2>3, <2>4 DEF AsOf
<1> QED
  BY <1>0, <1>1, <1>2, <1>3

(* A transaction moves the whole schema to its version.                    *)
LEMMA SingleApply ==
  ASSUME TypeOK, TypeOK', OneVersionRow, OneVersionRow', SingleInv,
         NEW p \in Migrator, Migrator = {p}, NEW v \in Version, ApplyCatalog(p, v)
  PROVE  SingleInv'
<1>0. /\ pc[p] = "loop" /\ Recorded(cur[p]) /\ cur[p] \in Version \cup {0}
      /\ NextAfter(cur[p], v) /\ v \notin Online
      /\ cur'[p] = v /\ pc' = pc /\ cleaned' = cleaned /\ owner' = owner /\ orphans' = orphans
  BY DEF ApplyCatalog, SingleInv, RunInv, TypeOK
<1>2. v \in rows' /\ \A r \in Version \cup {0} : Recorded(r)' => r = v
  BY AppliesToAll
<1>3. \A o \in Managed : AsOf(o, v)'
  BY AppliesToAll
<1>4. CatalogInv'
  BY <1>2, <1>3 DEF CatalogInv
<1>5. \A o \in Managed : Whole(o)'
  BY <1>3 DEF AsOf, Whole
<1>6. RunInv(p)'
  <2>1. Recorded(v)'
    BY <1>2 DEF Recorded
  <2>2. \A o \in Object : p \notin owner[o]
    BY <1>0 DEF SingleInv, RunInv
  <2>3. QED
    BY <1>0, <1>5, <2>1, <2>2 DEF RunInv
<1>7. QED
  BY <1>0, <1>4, <1>6 DEF SingleInv

(* Once its statement has returned, an online migration is fully applied:  *)
(* recording it is the truth.                                              *)
LEMMA RecordsTheTruth ==
  ASSUME TypeOK, OneVersionRow', SingleInv,
         NEW p \in Migrator, NEW v \in Version, RecordOnline(p, v)
  PROVE  /\ Recorded(cur[p]) /\ cur[p] \in Version \cup {0} /\ NextAfter(cur[p], v)
         /\ v \in rows' /\ \A r \in Version \cup {0} : Recorded(r)' => r = v
         /\ \A o \in Managed : AsOf(o, v)
<1>0. /\ pc[p] = "record" /\ Recorded(cur[p]) /\ cur[p] \in Version \cup {0}
      /\ NextAfter(cur[p], v) /\ v \in Online
      /\ WriteMigrationVersion(v, cur[p])
  BY DEF RecordOnline, SingleInv, RunInv, TypeOK
<1>1. ASSUME NEW o \in Managed PROVE AsOf(o, v)
  <2>1. CASE o \in Adds[v] \cup Drops[v]
    BY <1>0, <2>1 DEF SingleInv, RunInv
  <2>2. CASE o \notin Adds[v] \cup Drops[v]
    <3>1. ~InProgress(o, cur[p])
      BY <1>0, <2>2, NextUnique DEF InProgress
    <3>2. AsOf(o, cur[p])
      BY <1>0, <3>1, CatalogCases DEF SingleInv
    <3>3. DefAt[o][v] = DefAt[o][cur[p]]
      BY <1>0, <2>2, NextSchema
    <3>4. QED
      BY <3>2, <3>3 DEF AsOf
  <2>3. QED
    BY <2>1, <2>2
<1>2. v \in rows' /\ \A r \in Version \cup {0} : Recorded(r)' => r = v
  <2>1. v \in rows'
    <3>1. CASE cur[p] = 0
      BY <1>0, <3>1 DEF WriteMigrationVersion
    <3>2. CASE cur[p] # 0
      BY <1>0, <3>2 DEF WriteMigrationVersion, Recorded
    <3>3. QED
      BY <3>1, <3>2
  <2>2. QED
    BY <2>1 DEF OneVersionRow, Recorded
<1> QED
  BY <1>0, <1>1, <1>2

LEMMA SingleRecord ==
  ASSUME TypeOK, TypeOK', OneVersionRow, OneVersionRow', SingleInv,
         NEW p \in Migrator, Migrator = {p}, NEW v \in Version, RecordOnline(p, v)
  PROVE  SingleInv'
<1>0. /\ pc[p] = "record" /\ Recorded(cur[p]) /\ cur[p] \in Version \cup {0}
      /\ NextAfter(cur[p], v) /\ v \in Online
      /\ cur'[p] = v /\ pc'[p] = "loop" /\ cleaned' = cleaned
      /\ owner' = owner /\ stat' = stat /\ def' = def /\ orphans' = orphans
  BY DEF RecordOnline, SingleInv, RunInv, TypeOK, catalog
<1>1. \A o \in Managed : AsOf(o, v)
  BY RecordsTheTruth
<1>2. v \in rows' /\ \A r \in Version \cup {0} : Recorded(r)' => r = v
  BY RecordsTheTruth
<1>3. \A o \in Managed : AsOf(o, v)'
  BY <1>0, <1>1 DEF AsOf
<1>4. CatalogInv'
  BY <1>2, <1>3 DEF CatalogInv
<1>5. \A o \in Managed : Whole(o)'
  BY <1>3 DEF AsOf, Whole
<1>6. RunInv(p)'
  <2>1. Recorded(v)'
    BY <1>2 DEF Recorded
  <2>2. \A o \in Object : p \notin owner[o]
    BY <1>0 DEF SingleInv, RunInv
  <2>3. QED
    BY <1>0, <1>5, <2>1, <2>2 DEF RunInv
<1>7. QED
  BY <1>0, <1>4, <1>6 DEF SingleInv

(* CleanupInvalidIndexes may drop an index that has become valid since the *)
(* listing, but only the one the run is about to make again.               *)
LEMMA SingleDrop ==
  ASSUME TypeOK, TypeOK', OneVersionRow, SingleInv,
         NEW p \in Migrator, Migrator = {p}, NEW o \in Object, DropListed(p, o)
  PROVE  SingleInv'
<1>0. /\ pc[p] = "clean" /\ Recorded(cur[p]) /\ cur[p] \in Version \cup {0} /\ o \in todo[p]
      /\ cur' = cur /\ cleaned' = cleaned /\ orphans' = orphans /\ rows' = rows
      /\ \A q \in Managed : Whole(q) \/ q \in todo[p]
      /\ \A q \in Managed \cap todo[p] : InProgress(q, cur[p])
      /\ \A q \in Object : p \notin owner[q]
  BY DEF DropListed, SingleInv, RunInv, TypeOK
<1>1. CASE StartStatement(o, 0, {p}) /\ pc' = [pc EXCEPT ![p] = "sweep"] /\ UNCHANGED todo
  <2>0. /\ stat'[o] = "dropping" /\ def'[o] = def[o] /\ owner'[o] = {p}
        /\ Settled(o) /\ stat[o] # "absent" /\ pc'[p] = "sweep" /\ todo' = todo
    BY <1>1 DEF StartStatement, TypeOK, NoOp
  <2>1. \A q \in Object : q # o => stat'[q] = stat[q] /\ def'[q] = def[q] /\ owner'[q] = owner[q]
    BY <1>1, StartFrame
  <2>2. ASSUME o \in Managed, NEW r \in Version \cup {0}, Recorded(r)
        PROVE  \E n \in Online : /\ NextAfter(r, n) /\ o \in Adds[n] \cup Drops[n]
                                 /\ HalfDone(o, r, n)'
    <3>1. r = cur[p]
      BY <1>0, <2>2, RecordedUnique
    <3>2. PICK n \in Online : NextAfter(r, n) /\ o \in Adds[n] \cup Drops[n]
      BY <1>0, <2>2, <3>1 DEF InProgress
    <3>3. HalfDone(o, r, n)
      BY <2>2, <3>2, CatalogCases DEF SingleInv
    <3>4. HalfDone(o, r, n)'
      BY <2>0, <3>3 DEF HalfDone
    <3>5. QED
      BY <3>2, <3>4
  <2>3. CatalogInv'
    BY <1>0, <2>1, <2>2, CatalogFrame DEF SingleInv, Managed
  <2>4. RunInv(p)'
    <3>1. Recorded(cur[p])'
      BY <1>0 DEF Recorded
    <3>2. \A q \in Managed : (Whole(q) \/ q \in todo[p])'
      BY <1>0, <2>0, <2>1 DEF Whole, Managed
    <3>3. \A q \in Object : p \in owner'[q] => q = o
      BY <1>0, <2>1
    <3>4. QED
      BY <1>0, <2>0, <3>1, <3>2, <3>3 DEF RunInv, InProgress
  <2>5. QED
    BY <1>0, <2>3, <2>4 DEF SingleInv
<1>2. CASE NoOp(o, 0) /\ todo' = [todo EXCEPT ![p] = @ \ {o}] /\ UNCHANGED <<catalog, pc>>
  <2>0. /\ stat[o] = "absent" /\ todo'[p] = todo[p] \ {o}
        /\ stat' = stat /\ def' = def /\ owner' = owner /\ pc' = pc
    BY <1>2 DEF NoOp, catalog, TypeOK
  <2>1. CatalogInv'
    BY <1>0, <2>0, CatalogFrame DEF SingleInv
  <2>2. Recorded(cur[p])'
    BY <1>0 DEF Recorded
  <2>3. \A q \in Managed : (Whole(q) \/ q \in todo[p])'
    BY <1>0, <2>0 DEF Whole
  <2>4. RunInv(p)'
    BY <1>0, <2>0, <2>2, <2>3 DEF RunInv, InProgress
  <2>5. QED
    BY <1>0, <2>1, <2>4 DEF SingleInv
<1>3. QED
  BY <1>1, <1>2 DEF DropListed

(* After the cleanup the next online statement finds its index either      *)
(* fully there or not there at all.                                        *)
LEMMA SingleExec ==
  ASSUME TypeOK, TypeOK', OneVersionRow, SingleInv,
         NEW p \in Migrator, Migrator = {p}, NEW v \in Version, ExecOnline(p, v)
  PROVE  SingleInv'
<1>0. /\ pc[p] = "loop" /\ cleaned[p] /\ Recorded(cur[p]) /\ cur[p] \in Version \cup {0}
      /\ NextAfter(cur[p], v) /\ v \in Online
      /\ cur' = cur /\ cleaned' = cleaned /\ orphans' = orphans /\ rows' = rows /\ todo' = todo
      /\ \A q \in Managed : Whole(q)
      /\ \A q \in Object : p \notin owner[q]
  BY DEF ExecOnline, SingleInv, RunInv, TypeOK
<1>r. Recorded(cur[p])'
  BY <1>0 DEF Recorded
<1>1. PICK o \in Adds[v] \cup Drops[v] :
        \/ /\ StartStatement(o, IF o \in Adds[v] THEN v ELSE 0, {p})
           /\ pc' = [pc EXCEPT ![p] = "exec"]
        \/ /\ NoOp(o, IF o \in Adds[v] THEN v ELSE 0)
           /\ pc' = [pc EXCEPT ![p] = "record"]
           /\ UNCHANGED catalog
  BY DEF ExecOnline
<1>2. /\ o \in Object /\ o \in Managed
      /\ Adds[v] \cup Drops[v] = {o} /\ ~(o \in Adds[v] /\ o \in Drops[v]) /\ v # 0
  BY <1>0, OnlineTarget, OnlineAssumption, EffectAssumption, VersionAssumption
<1>h. HalfDone(o, cur[p], v)
  BY <1>0, <1>1, <1>2, CatalogCases DEF SingleInv
<1>n. \A n \in Online : NextAfter(cur[p], n) => n = v
  BY <1>0, NextUnique
<1>3. CASE StartStatement(o, IF o \in Adds[v] THEN v ELSE 0, {p}) /\ pc' = [pc EXCEPT ![p] = "exec"]
  <2>0. /\ stat'[o] = IF o \in Adds[v] THEN "building" ELSE "dropping"
        /\ def'[o] = IF o \in Adds[v] THEN v ELSE def[o]
        /\ owner'[o] = {p} /\ pc'[p] = "exec"
        /\ IF o \in Adds[v] THEN stat[o] = "absent" ELSE stat[o] # "absent"
    BY <1>2, <1>3 DEF StartStatement, TypeOK, NoOp
  <2>1. \A q \in Object : q # o => stat'[q] = stat[q] /\ def'[q] = def[q] /\ owner'[q] = owner[q]
    BY <1>2, <1>3, StartFrame
  <2>3. CatalogInv'
    <3>1. ASSUME NEW r \in Version \cup {0}, Recorded(r)
          PROVE  /\ NextAfter(r, v) /\ o \in Adds[v] \cup Drops[v]
                 /\ HalfDone(o, r, v)'
      <4>1. r = cur[p]
        BY <1>0, <3>1, RecordedUnique
      <4>2. NextAfter(r, v) /\ HalfDone(o, r, v)
        BY <1>0, <1>h, <4>1
      <4>3. HalfDone(o, r, v)'
        <5>1. CASE o \in Adds[v]
          BY <2>0, <5>1 DEF HalfDone
        <5>2. CASE o \notin Adds[v]
          BY <1>2, <2>0, <4>2, <5>2 DEF HalfDone
        <5>3. QED
          BY <5>1, <5>2
      <4>4. QED
        BY <4>2, <4>3
    <3>2. QED
      BY <1>0, <1>2, <2>1, <3>1, CatalogFrame DEF SingleInv, Managed
  <2>4. RunInv(p)'
    <3>1. \A q \in Managed : (Whole(q) \/ p \in owner[q])'
      BY <1>0, <2>0, <2>1 DEF Whole, Managed
    <3>2. \A q \in Object : p \in owner'[q] => q = o
      BY <1>0, <2>1
    <3>3. QED
      BY <1>0, <1>r, <1>1, <2>0, <3>1, <3>2 DEF RunInv
  <2>5. QED
    BY <1>0, <2>3, <2>4 DEF SingleInv
<1>4. CASE /\ NoOp(o, IF o \in Adds[v] THEN v ELSE 0)
           /\ pc' = [pc EXCEPT ![p] = "record"] /\ UNCHANGED catalog
  <2>0. /\ stat' = stat /\ def' = def /\ owner' = owner /\ pc'[p] = "record"
        /\ IF o \in Adds[v] THEN stat[o] = "valid" ELSE stat[o] = "absent"
    BY <1>0, <1>2, <1>4 DEF NoOp, catalog, TypeOK, Whole
  <2>1. DefAt[o][v] = IF o \in Adds[v] THEN v ELSE 0
    BY <1>0, <1>1, <1>2, NextSchema
  <2>2. AsOf(o, v)'
    BY <1>2, <1>h, <2>0, <2>1 DEF HalfDone, AsOf
  <2>3. CatalogInv'
    BY <1>0, <1>2, <2>0, CatalogFrame DEF SingleInv
  <2>4. \A q \in Managed : Whole(q)'
    BY <1>0, <2>0 DEF Whole
  <2>5. RunInv(p)'
    BY <1>0, <1>r, <1>n, <1>2, <2>0, <2>2, <2>4 DEF RunInv
  <2>6. QED
    BY <1>0, <2>3, <2>5 DEF SingleInv
<1>5. QED
  BY <1>1, <1>3, <1>4

(* PostgreSQL finishing or failing a statement.                            *)
LEMMA SingleServer ==
  ASSUME TypeOK, TypeOK', OneVersionRow, SingleInv,
         NEW p \in Migrator, Migrator = {p}, NEW o \in Object, Complete(o) \/ Abort(o)
  PROVE  SingleInv'
<1>0. stat[o] \in InFlight /\ orphans' = orphans /\ rows' = rows /\ owner'[o] = {}
  BY DEF Complete, Abort, TypeOK
<1>1. \A q \in Object : q # o => stat'[q] = stat[q] /\ def'[q] = def[q] /\ owner'[q] = owner[q]
  BY DEF Complete, Abort, TypeOK
<1>2. ASSUME o \in Managed, NEW r \in Version \cup {0}, Recorded(r)
      PROVE  \E n \in Online : /\ NextAfter(r, n) /\ o \in Adds[n] \cup Drops[n]
                               /\ HalfDone(o, r, n) /\ HalfDone(o, r, n)'
  <2>1. ~AsOf(o, r)
    BY <1>0 DEF AsOf, InFlight
  <2>2. PICK n \in Online : /\ NextAfter(r, n) /\ o \in Adds[n] \cup Drops[n]
                            /\ HalfDone(o, r, n)
    BY <1>2, <2>1 DEF SingleInv, CatalogInv
  <2>3. CASE Abort(o)
    <3>1. stat'[o] = "invalid" /\ def' = def
      BY <2>3 DEF Abort, TypeOK
    <3>2. HalfDone(o, r, n)'
      BY <1>0, <2>2, <3>1 DEF HalfDone, InFlight
    <3>3. QED
      BY <2>2, <3>2
  <2>4. CASE Complete(o)
    <3>1. /\ stat'[o] = IF stat[o] = "building" THEN "valid" ELSE "absent"
          /\ def'[o] = IF stat[o] = "building" THEN def[o] ELSE 0
      BY <2>4 DEF Complete, TypeOK
    <3>2. HalfDone(o, r, n)'
      BY <1>0, <2>2, <3>1 DEF HalfDone, InFlight
    <3>3. QED
      BY <2>2, <3>2
  <2>5. QED
    BY <2>3, <2>4
<1>3. CatalogInv'
  BY <1>0, <1>1, <1>2, CatalogFrame DEF SingleInv, Managed
<1>4. RunInv(p)
  BY DEF SingleInv
<1>r. \A v : Recorded(v)' = Recorded(v)
  BY <1>0 DEF Recorded
<1>5. CASE Complete(o) /\ p \in owner[o] /\ pc[p] = "exec"
  <2>0. /\ pc'[p] = "record" /\ cur' = cur /\ cleaned' = cleaned
        /\ stat'[o] = IF stat[o] = "building" THEN "valid" ELSE "absent"
        /\ def'[o] = IF stat[o] = "building" THEN def[o] ELSE 0
    BY <1>5 DEF Complete, TypeOK
  <2>1. PICK n \in Online : /\ NextAfter(cur[p], n) /\ o \in Adds[n] \cup Drops[n]
                            /\ stat[o] = IF o \in Adds[n] THEN "building" ELSE "dropping"
    BY <1>4, <1>5 DEF RunInv
  <2>2. /\ cur[p] \in Version \cup {0} /\ n \in Version /\ Adds[n] \cup Drops[n] = {o}
        /\ o \in Managed /\ Recorded(cur[p])
    BY <1>4, <1>5, <2>1, OnlineAssumption, VersionAssumption, OnlineTarget DEF TypeOK, RunInv
  <2>3. HalfDone(o, cur[p], n)
    BY <2>1, <2>2, CatalogCases DEF SingleInv
  <2>4. DefAt[o][n] = IF o \in Adds[n] THEN n ELSE 0
    BY <2>1, <2>2, NextSchema
  <2>5. n # 0
    BY <2>2, VersionAssumption
  <2>6. AsOf(o, n)'
    BY <2>0, <2>1, <2>3, <2>4, <2>5 DEF HalfDone, AsOf
  <2>7. \A k \in Online : NextAfter(cur[p], k) => k = n
    BY <2>1, <2>2, NextUnique
  <2>8. \A q \in Managed : Whole(q)'
    <3>1. Whole(o)'
      BY <2>0 DEF Whole
    <3>2. ASSUME NEW q \in Managed, q # o PROVE Whole(q)'
      BY <1>1, <1>4, <1>5, <3>2 DEF RunInv, Whole, Managed
    <3>3. QED
      BY <3>1, <3>2
  <2>9. \A q \in Object : p \notin owner'[q]
    BY <1>0, <1>1, <1>4, <1>5 DEF RunInv
  <2>10. RunInv(p)'
    BY <1>4, <1>5, <1>r, <2>0, <2>2, <2>6, <2>7, <2>8, <2>9 DEF RunInv
  <2>11. QED
    BY <1>0, <1>3, <2>10 DEF SingleInv
<1>6. CASE Complete(o) /\ p \in owner[o] /\ pc[p] # "exec"
  <2>0. /\ pc'[p] = "clean" /\ cur' = cur /\ cleaned' = cleaned /\ pc[p] = "sweep"
        /\ stat[o] = "dropping" /\ stat'[o] = "absent" /\ todo'[p] = todo[p] \ {o}
    BY <1>4, <1>6 DEF Complete, TypeOK, RunInv
  <2>1. \A q \in Managed : (Whole(q) \/ q \in todo[p])'
    BY <1>1, <1>4, <2>0 DEF RunInv, Whole, Managed
  <2>2. \A q \in Object : p \notin owner'[q]
    BY <1>0, <1>1, <1>4, <1>6 DEF RunInv
  <2>3. RunInv(p)'
    BY <1>4, <1>r, <2>0, <2>1, <2>2 DEF RunInv, InProgress
  <2>4. QED
    BY <1>0, <1>3, <2>3 DEF SingleInv
<1>7. CASE Abort(o) /\ p \in owner[o]
  <2>0. pc'[p] = "idle" /\ ~cleaned'[p]
    BY <1>7 DEF Abort, TypeOK
  <2>2. \A q \in Object : p \notin owner'[q]
    BY <1>0, <1>1, <1>4, <1>7 DEF RunInv
  <2>3. RunInv(p)'
    BY <2>0, <2>2 DEF RunInv
  <2>4. QED
    BY <1>0, <1>3, <2>3 DEF SingleInv
<1>8. CASE p \notin owner[o]
  <2>0. pc'[p] = pc[p] /\ cur'[p] = cur[p] /\ cleaned'[p] = cleaned[p] /\ todo'[p] = todo[p]
    BY <1>8 DEF Complete, Abort, TypeOK
  <2>1. \A q \in Object : p \in owner'[q] => q # o /\ p \in owner[q]
    BY <1>0, <1>1
  <2>2. o \in Managed => ~Whole(o)
    BY <1>0 DEF Whole, InFlight
  <2>3. \A q \in Managed : q # o => Whole(q)' = Whole(q)
    BY <1>1 DEF Whole, Managed
  <2>4. o \in Managed /\ pc[p] \in {"clean", "sweep"} => o \in todo[p]
    BY <1>4, <2>2 DEF RunInv
  <2>5. o \in Managed => ~(pc[p] \in {"loop", "record"} /\ cleaned[p]) /\ pc[p] # "exec"
    BY <1>4, <1>8, <2>2 DEF RunInv
  <2>6. pc[p] \in {"clean", "sweep"} => \A q \in Managed : (Whole(q) \/ q \in todo[p])'
    BY <1>4, <2>0, <2>3, <2>4 DEF RunInv
  <2>7. pc[p] \in {"loop", "record"} /\ cleaned[p] => \A q \in Managed : Whole(q)'
    BY <1>4, <2>3, <2>5 DEF RunInv
  <2>8. pc[p] = "exec" => \A q \in Managed : (Whole(q) \/ p \in owner[q])'
    BY <1>1, <1>4, <2>3, <2>5 DEF RunInv, Managed
  <2>9. pc[p] = "record" => \A n \in Online : NextAfter(cur[p], n) =>
          \A q \in Adds[n] \cup Drops[n] : AsOf(q, n)'
    <3> SUFFICES ASSUME pc[p] = "record", NEW n \in Online, NextAfter(cur[p], n),
                        NEW q \in Adds[n] \cup Drops[n]
                 PROVE  AsOf(q, n)'
      OBVIOUS
    <3>1. q \in Object /\ q \in Managed
      BY OnlineTarget
    <3>2. q # o
      BY <1>4, <2>5, <3>1 DEF RunInv
    <3>3. AsOf(q, n)
      BY <1>4 DEF RunInv
    <3>4. QED
      BY <1>1, <3>1, <3>2, <3>3 DEF AsOf
  <2>10. \A q \in Object : p \in owner'[q] =>
           \/ pc[p] = "sweep" /\ stat'[q] = "dropping"
           \/ /\ pc[p] = "exec"
              /\ \E n \in Online : NextAfter(cur[p], n) /\ q \in Adds[n] \cup Drops[n]
                   /\ stat'[q] = IF q \in Adds[n] THEN "building" ELSE "dropping"
    BY <1>1, <1>4, <2>1 DEF RunInv
  <2>11. RunInv(p)'
    BY <1>4, <1>r, <2>0, <2>1, <2>6, <2>7, <2>8, <2>9, <2>10 DEF RunInv, InProgress
  <2>12. QED
    BY <1>0, <1>3, <2>11 DEF SingleInv
<1>9. QED
  BY <1>5, <1>6, <1>7, <1>8

(* The steps of a run that leave the catalog and the version row alone.    *)
LEMMA SingleLocal ==
  ASSUME TypeOK, TypeOK', OneVersionRow, SingleInv, NEW p \in Migrator, Migrator = {p},
         \/ ShouldMigrate(p) \/ Setup(p) \/ CleanupDone(p) \/ Finish(p)
         \/ \E v \in Version : ListInvalid(p, v)
  PROVE  SingleInv'
<1>0. /\ rows' = rows /\ stat' = stat /\ def' = def /\ owner' = owner /\ orphans' = orphans
      /\ RunInv(p)
  BY DEF ShouldMigrate, Setup, CleanupDone, Finish, ListInvalid, catalog, SingleInv
<1>1. CatalogInv'
  BY <1>0 DEF SingleInv, CatalogInv, Recorded, AsOf, HalfDone
<1>r. /\ \A v : Recorded(v)' = Recorded(v)
      /\ \A o : Whole(o)' = Whole(o)
  BY <1>0 DEF Recorded, Whole
<1>2. CASE ShouldMigrate(p)
  <2>1. /\ pc[p] = "idle" /\ pc'[p] = "setup" /\ cleaned' = cleaned
    BY <1>2 DEF ShouldMigrate, TypeOK
  <2>2. RunInv(p)'
    BY <1>0, <2>1 DEF RunInv
  <2>3. QED
    BY <1>0, <1>1, <2>2 DEF SingleInv
<1>3. CASE Setup(p)
  <2>1. pc[p] = "setup" /\ pc'[p] = "loop" /\ cleaned' = cleaned /\ Recorded(cur'[p])
    BY <1>3 DEF Setup, TypeOK
  <2>2. RunInv(p)'
    BY <1>0, <1>r, <2>1 DEF RunInv
  <2>3. QED
    BY <1>0, <1>1, <2>2 DEF SingleInv
<1>4. CASE CleanupDone(p)
  <2>1. pc[p] = "clean" /\ todo[p] = {} /\ pc'[p] = "loop" /\ cur' = cur
    BY <1>4 DEF CleanupDone, TypeOK
  <2>2. RunInv(p)'
    BY <1>0, <1>r, <2>1 DEF RunInv
  <2>3. QED
    BY <1>0, <1>1, <2>2 DEF SingleInv
<1>5. CASE Finish(p)
  <2>1. pc[p] = "loop" /\ pc'[p] = "idle" /\ ~cleaned'[p]
    BY <1>5 DEF Finish, EndRun, TypeOK
  <2>2. RunInv(p)'
    BY <1>0, <2>1 DEF RunInv
  <2>3. QED
    BY <1>0, <1>1, <2>2 DEF SingleInv
<1>6. CASE \E v \in Version : ListInvalid(p, v)
  <2>1. /\ pc[p] = "loop" /\ pc'[p] = "clean" /\ cur' = cur /\ cur[p] \in Version \cup {0}
        /\ todo'[p] = {o \in Object : stat[o] \notin {"absent", "valid"}}
        /\ Recorded(cur[p])
    BY <1>0, <1>6 DEF ListInvalid, TypeOK, RunInv
  <2>2. \A o \in Managed : (Whole(o) \/ o \in todo[p])'
    BY <1>r, <2>1 DEF Whole, Managed
  <2>3. ASSUME NEW o \in Managed, o \in todo'[p] PROVE InProgress(o, cur[p])
    BY <2>1, <2>3 DEF SingleInv, CatalogInv, AsOf, InProgress
  <2>4. RunInv(p)'
    BY <1>0, <1>r, <2>1, <2>2, <2>3 DEF RunInv, InProgress
  <2>5. QED
    BY <1>0, <1>1, <2>4 DEF SingleInv
<1>7. QED
  BY <1>2, <1>3, <1>4, <1>5, <1>6

(* A run is cut, wherever it was: the catalog and the version row stay as  *)
(* they are, and nothing of the run is left waiting in the server.         *)
LEMMA SingleStop ==
  ASSUME TypeOK, TypeOK', SingleInv, NEW p \in Migrator, Migrator = {p},
         Lingering = FALSE, Stop(p)
  PROVE  SingleInv'
<1>1. /\ rows' = rows /\ stat' = stat /\ def' = def /\ orphans' = orphans
      /\ pc'[p] = "idle" /\ ~cleaned'[p]
      /\ \A o \in Object : p \notin owner'[o]
  BY DEF Stop, EndRun, TypeOK
<1>2. CatalogInv'
  BY <1>1 DEF SingleInv, CatalogInv, Recorded, AsOf, HalfDone
<1>3. RunInv(p)'
  BY <1>1 DEF RunInv
<1>4. QED
  BY <1>1, <1>2, <1>3 DEF SingleInv

(* An index of somebody else is none of the schema's.                      *)
LEMMA SingleForeign ==
  ASSUME TypeOK, TypeOK', SingleInv, NEW p \in Migrator, Migrator = {p},
         NEW o \in Object, ForeignBuild(o)
  PROVE  SingleInv'
<1>1. /\ rows' = rows /\ def' = def /\ owner' = owner /\ orphans' = orphans
      /\ pc' = pc /\ cur' = cur /\ cleaned' = cleaned /\ todo' = todo
      /\ o \notin Managed /\ stat[o] = "absent"
      /\ \A q \in Object : q # o => stat'[q] = stat[q]
      /\ RunInv(p)
  BY DEF ForeignBuild, Foreign, local, TypeOK, SingleInv
<1>2. \A q \in Managed : q \in Object /\ q # o /\ stat'[q] = stat[q]
  BY <1>1 DEF Managed
<1>3. CatalogInv'
  BY <1>1, <1>2 DEF SingleInv, CatalogInv, Recorded, AsOf, HalfDone
<1>4. p \notin owner[o]
  BY <1>1 DEF RunInv
<1>5. \A q \in Managed : Whole(q)' = Whole(q)
  BY <1>2 DEF Whole
<1>6. \A n \in Online : \A q \in Adds[n] \cup Drops[n] : AsOf(q, n)' = AsOf(q, n)
  BY <1>1, <1>2, OnlineTarget DEF AsOf
<1>7. Recorded(cur[p])' = Recorded(cur[p])
  BY <1>1 DEF Recorded
<1>8. RunInv(p)'
  BY <1>1, <1>4, <1>5, <1>6, <1>7 DEF RunInv, InProgress
<1>9. QED
  BY <1>1, <1>3, <1>8 DEF SingleInv

LEMMA SingleStep ==
  ASSUME TypeOK, TypeOK', OneVersionRow, OneVersionRow', SingleInv, [Next]_vars,
         NEW p, Migrator = {p}, Lingering = FALSE
  PROVE  SingleInv'
<1>1. p \in Migrator /\ orphans = {}
  BY DEF SingleInv
<1>2. CASE UNCHANGED vars
  BY <1>2 DEF vars, SingleInv, CatalogInv, RunInv, Recorded, AsOf, HalfDone, Whole, InProgress
<1>3. CASE Advance(p)
  BY <1>1, <1>3, SingleLocal, SingleApply, SingleRecord, SingleDrop, SingleExec DEF Advance
<1>4. CASE Stop(p)
  BY <1>1, <1>4, SingleStop
<1>5. CASE \E o \in Object : Complete(o) \/ Abort(o) \/ ForeignBuild(o)
  BY <1>1, <1>5, SingleServer, SingleForeign
<1>6. QED
  BY <1>1, <1>2, <1>3, <1>4, <1>5 DEF Next

LEMMA SingleInvariant ==
  ASSUME NEW p, Migrator = {p}, Lingering = FALSE
  PROVE  Spec => []SingleInv
<1>1. TypeOK /\ TypeOK' /\ OneVersionRow /\ OneVersionRow' /\ SingleInv /\ [Next]_vars
        => SingleInv'
  BY SingleStep
<1>2. QED
  BY <1>1, SingleInit, TypeCorrect, VersionRowIsUnique, PTL DEF Spec

(* One migrator at a time: wherever a run is cut, the recorded version is  *)
(* the truth about every object but the one the next online migration is   *)
(* about.                                                                  *)
THEOREM RecordedIsApplied ==
  ASSUME NEW p, Migrator = {p}, Lingering = FALSE
  PROVE  Spec => []RecordedMeansApplied
<1>1. TypeOK /\ SingleInv => RecordedMeansApplied
  <2> SUFFICES ASSUME TypeOK, SingleInv, NEW r \in rows, NEW o \in Managed
               PROVE  AsOf(o, r) \/ InProgress(o, r)
    BY DEF RecordedMeansApplied
  <2>1. r \in Version \cup {0} /\ Recorded(r)
    BY DEF TypeOK, Recorded
  <2>2. QED
    BY <2>1 DEF SingleInv, CatalogInv, InProgress
<1>2. QED
  BY <1>1, SingleInvariant, TypeCorrect, PTL

(* One migrator at a time: a database at the last version is complete, so  *)
(* that `no work remains' is a true answer.                                *)
THEOREM UpToDateIsTrue ==
  ASSUME NEW p, Migrator = {p}, Lingering = FALSE
  PROVE  Spec => []UpToDateIsComplete
<1>1. TypeOK /\ RecordedMeansApplied => UpToDateIsComplete
  <2> SUFFICES ASSUME TypeOK, RecordedMeansApplied, NEW r \in rows, ~Pending(r),
                      NEW o \in Managed
               PROVE  AsOf(o, r)
    BY DEF UpToDateIsComplete
  <2>1. ~InProgress(o, r)
    BY VersionAssumption DEF InProgress, NextAfter, Pending
  <2>2. QED
    BY <2>1 DEF RecordedMeansApplied
<1>2. QED
  BY <1>1, TypeCorrect, RecordedIsApplied, PTL

(* One migrator at a time: no step moves the recorded version back.        *)
THEOREM VersionOnlyGrows ==
  ASSUME NEW p, Migrator = {p}, Lingering = FALSE
  PROVE  Spec => VersionNeverRegresses
<1>1. TypeOK /\ OneVersionRow /\ SingleInv /\ [Next]_vars
        => [\A r \in rows : \E s \in rows' : r <= s]_vars
  <2> SUFFICES ASSUME TypeOK, OneVersionRow, SingleInv, Next, NEW r \in rows
               PROVE  \E s \in rows' : r <= s
    OBVIOUS
  <2>1. r \in Nat
    BY VersionAssumption DEF TypeOK
  <2>2. CASE rows' = rows
    BY <2>1, <2>2
  <2>3. ASSUME NEW v \in Version, ApplyCatalog(p, v) \/ RecordOnline(p, v)
        PROVE  v \in rows' /\ r <= v
    <3>1. /\ pc[p] \in {"loop", "record"} /\ NextAfter(cur[p], v)
          /\ WriteMigrationVersion(v, cur[p])
      BY <2>3 DEF ApplyCatalog, RecordOnline
    <3>2. r = cur[p]
      BY <3>1 DEF SingleInv, RunInv, Recorded, OneVersionRow
    <3>3. r # 0
      BY VersionAssumption DEF TypeOK
    <3>4. v \in rows'
      BY <3>1, <3>2, <3>3 DEF WriteMigrationVersion
    <3>5. v \in Nat /\ v > r
      BY <3>1, <3>2, VersionAssumption DEF NextAfter
    <3>6. QED
      BY <2>1, <3>4, <3>5
  <2>4. CASE Advance(p)
    <3>1. \/ rows' = rows
          \/ \E v \in Version : ApplyCatalog(p, v) \/ RecordOnline(p, v)
      BY <2>4 DEF Advance, ShouldMigrate, Setup, CleanupDone, Finish, ListInvalid,
                  ExecOnline, DropListed
    <3>2. QED
      BY <2>2, <2>3, <3>1
  <2>5. CASE ~Advance(p)
    BY <2>2, <2>5 DEF Next, Stop, Complete, Abort, ForeignBuild, StartOrphan
  <2>6. QED
    BY <2>4, <2>5
<1>2. QED
  BY <1>1, SingleInvariant, TypeCorrect, VersionRowIsUnique, PTL
     DEF Spec, VersionNeverRegresses

(* One migrator at a time: whatever earlier runs left behind, a run finds  *)
(* the schema as its next migration needs it, a strict one included, and   *)
(* the version row as its UPDATE or INSERT needs it. What an invalid index *)
(* could still stand in the way of, the cleanup has removed before.        *)
THEOREM RunsGoThrough ==
  ASSUME NEW p, Migrator = {p}, Lingering = FALSE
  PROVE  Spec => []NextGoesThrough
<1>1. TypeOK /\ OneVersionRow /\ SingleInv => NextGoesThrough
  <2> SUFFICES ASSUME TypeOK, OneVersionRow, SingleInv, NEW v \in Version,
                      pc[p] = "loop", NextAfter(cur[p], v)
               PROVE  /\ IF cur[p] = 0 THEN v \notin rows ELSE rows = {cur[p]}
                      /\ v \notin Online => Accepts(v)
                      /\ v \notin Online \/ cleaned[p] =>
                           \A o \in Adds[v] \cup Drops[v] : Settled(o) /\ NoneAhead(o)
    BY DEF NextGoesThrough
  <2>1. Recorded(cur[p]) /\ cur[p] \in Version \cup {0} /\ orphans = {} /\ RunInv(p)
    BY DEF SingleInv, RunInv, TypeOK
  <2>2. IF cur[p] = 0 THEN v \notin rows ELSE rows = {cur[p]}
    <3>1. CASE cur[p] = 0
      <4>1. rows = {}
        BY <2>1, <3>1, VersionAssumption DEF Recorded, TypeOK
      <4> QED
        BY <3>1, <4>1
    <3>2. CASE cur[p] # 0
      <4>1. cur[p] \in rows
        BY <2>1, <3>2 DEF Recorded
      <4>2. rows = {cur[p]}
        BY <4>1 DEF OneVersionRow
      <4> QED
        BY <3>2, <4>2
    <3> QED
      BY <3>1, <3>2
  <2>3. \A o \in Adds[v] \cup Drops[v] : o \in Managed /\ o \in Object
    BY EffectAssumption DEF Managed
  <2>4. CASE v \notin Online
    <3>1. \A o \in Adds[v] \cup Drops[v] : AsOf(o, cur[p])
      <4>1. ASSUME NEW o \in Adds[v] \cup Drops[v] PROVE AsOf(o, cur[p])
        <5>1. ~InProgress(o, cur[p])
          BY <2>1, <2>4, NextUnique, VersionAssumption DEF InProgress
        <5> QED
          BY <2>1, <2>3, <5>1, CatalogCases DEF SingleInv
      <4> QED
        BY <4>1
    <3>2. Accepts(v)
      BY <2>1, <2>3, <3>1, DefAtFresh DEF AsOf, Accepts
    <3>3. \A o \in Adds[v] \cup Drops[v] : Settled(o)
      BY <3>1 DEF AsOf, Settled, InFlight
    <3> QED
      BY <2>1, <2>2, <3>2, <3>3 DEF NoneAhead
  <2>5. CASE v \in Online
    BY <2>1, <2>2, <2>3, <2>5 DEF RunInv, Whole, Settled, InFlight, NoneAhead
  <2> QED
    BY <2>4, <2>5
<1>2. QED
  BY <1>1, SingleInvariant, TypeCorrect, VersionRowIsUnique, PTL
-----------------------------------------------------------------------------
(* One migrator at a time implements SchemaLedger.                         *)

LEMMA VersionShown ==
  ASSUME TypeOK, OneVersionRow
  PROVE  /\ LedgerVersion \in Version \cup {0} /\ Recorded(LedgerVersion)
         /\ \A r : Recorded(r) => r = LedgerVersion
<1>1. CASE rows = {}
  BY <1>1 DEF LedgerVersion, Recorded
<1>2. CASE rows # {}
  <2>1. LedgerVersion \in rows
    BY <1>2 DEF LedgerVersion
  <2> QED
    BY <1>2, <2>1 DEF TypeOK, OneVersionRow, Recorded
<1> QED
  BY <1>1, <1>2

LEMMA FollowsNext == \A v, n : Ledger!Follows(v, n) <=> NextAfter(v, n)
BY DEF Ledger!Follows, NextAfter

(* What is as a version has it is shown as that version has it.            *)
LEMMA AsShown == \A o, v : AsOf(o, v) => Shown(o) = ShownAt(o, v)
BY DEF AsOf, Shown, ShownAt, Settled, InFlight

LEMMA Stood ==
  ASSUME NEW v \in Version \cup {0}, \A o \in Managed : AsOf(o, v)
  PROVE  Ledger!Stands(v) /\ LedgerSchema = [o \in Managed |-> ShownAt(o, v)]
BY AsShown DEF Ledger!Stands, LedgerSchema

LEMMA LedgerInit == Init => Ledger!Init
<1> SUFFICES ASSUME Init PROVE Ledger!Init
  OBVIOUS
<1>1. PICK v \in Version \cup {0} :
        /\ rows = {v} \ {0}
        /\ def = [o \in Object |-> DefAt[o][v]]
        /\ stat = [o \in Object |-> IF DefAt[o][v] = 0 THEN "absent" ELSE "valid"]
  BY DEF Init
<1>2. LedgerVersion = v
  BY <1>1 DEF LedgerVersion
<1>3. \A o \in Managed : AsOf(o, v)
  BY <1>1 DEF AsOf, Managed
<1> QED
  BY <1>2, <1>3, Stood DEF Ledger!Init

(* Where the version stays, the schema is as that version has it before    *)
(* and after, but for what the next migration, an online one, touches.     *)
LEMMA LedgerWorks ==
  ASSUME TypeOK, OneVersionRow, SingleInv, SingleInv', rows' = rows
  PROVE  [Ledger!Next]_<<LedgerVersion, LedgerSchema>>
<1> DEFINE r == LedgerVersion
<1>1. r \in Version \cup {0} /\ Recorded(r) /\ Recorded(r)' /\ LedgerVersion' = r
  BY VersionShown DEF Recorded, LedgerVersion
<1>2. ASSUME NEW o \in Managed, ~InProgress(o, r) PROVE Shown(o)' = Shown(o)
  <2>1. \A n \in Online : ~(NextAfter(r, n) /\ o \in Adds[n] \cup Drops[n])
    BY <1>2 DEF InProgress
  <2>3. PICK s \in Version \cup {0} : s = r
    BY <1>1
  <2>4. AsOf(o, s)
    BY <1>1, <2>1, <2>3 DEF SingleInv, CatalogInv
  <2>5. Recorded(s)'
    BY <1>1, <2>3 DEF Recorded
  <2>6. (def'[o] = DefAt[o][s]) /\ (stat'[o] = IF DefAt[o][s] = 0 THEN "absent" ELSE "valid")
    BY <1>1, <2>1, <2>3, <2>5 DEF SingleInv, CatalogInv, AsOf
  <2> QED
    BY <2>4, <2>6 DEF AsOf, Shown, Settled
<1>3. CASE \E n \in Online : NextAfter(r, n)
  <2>1. PICK n \in Online : NextAfter(r, n)
    BY <1>3
  <2>2. n \in Version
    BY VersionAssumption
  <2>3. \A o \in Managed \ (Adds[n] \cup Drops[n]) : ~InProgress(o, r)
    BY <1>1, <2>1, <2>2, NextUnique DEF InProgress
  <2>4. \A o \in Managed \ (Adds[n] \cup Drops[n]) : LedgerSchema'[o] = LedgerSchema[o]
    BY <1>2, <2>3 DEF LedgerSchema
  <2>5. DOMAIN LedgerSchema' = Managed
    BY DEF LedgerSchema
  <2>6. Ledger!Work(n)
    BY <1>1, <2>1, <2>2, <2>4, <2>5, FollowsNext DEF Ledger!Work
  <2> QED
    BY <2>2, <2>6 DEF Ledger!Next
<1>4. CASE ~\E n \in Online : NextAfter(r, n)
  <2>1. \A o \in Managed : Shown(o)' = Shown(o)
    BY <1>2, <1>4 DEF InProgress
  <2>2. LedgerSchema' = LedgerSchema
    BY <2>1 DEF LedgerSchema
  <2> QED
    BY <1>1, <2>2
<1> QED
  BY <1>3, <1>4

LEMMA LedgerStep ==
  ASSUME TypeOK, TypeOK', OneVersionRow, OneVersionRow', SingleInv, SingleInv', [Next]_vars,
         NEW p, Migrator = {p}
  PROVE  [Ledger!Next]_<<LedgerVersion, LedgerSchema>>
<1>0. p \in Migrator
  OBVIOUS
<1>1. ASSUME NEW v \in Version, v \in rows', \A r \in Version \cup {0} : Recorded(r)' => r = v
      PROVE  LedgerVersion' = v
  BY <1>1 DEF LedgerVersion, OneVersionRow
<1>2. ASSUME NEW v \in Version, ApplyCatalog(p, v) PROVE Ledger!Transact(v)
  <2>1. PICK r \in Version \cup {0} :
          /\ Recorded(r) /\ NextAfter(r, v) /\ \A o \in Managed : AsOf(o, r) /\ AsOf(o, v)'
    BY <1>0, <1>2, AppliesToAll
  <2>2. LedgerVersion = r /\ LedgerVersion' = v
    BY <1>0, <1>1, <1>2, <2>1, AppliesToAll, VersionShown
  <2>3. Ledger!Stands(r)
    BY <2>1, Stood
  <2>4. LedgerSchema' = [o \in Managed |-> ShownAt(o, v)]
    <3>1. \A o \in Managed : Shown(o)' = ShownAt(o, v)
      BY <2>1 DEF AsOf, Shown, ShownAt, Settled, InFlight
    <3> QED
      BY <3>1 DEF LedgerSchema
  <2>5. v \notin Online
    BY <1>2 DEF ApplyCatalog
  <2> QED
    BY <2>1, <2>2, <2>3, <2>4, <2>5, FollowsNext DEF Ledger!Transact
<1>3. ASSUME NEW v \in Version, RecordOnline(p, v) PROVE Ledger!Record(v)
  <2>1. PICK r \in Version \cup {0} :
          /\ Recorded(r) /\ NextAfter(r, v) /\ \A o \in Managed : AsOf(o, v)
    BY <1>0, <1>3, RecordsTheTruth
  <2>2. LedgerVersion = r /\ LedgerVersion' = v
    BY <1>0, <1>1, <1>3, <2>1, RecordsTheTruth, VersionShown
  <2>3. Ledger!Stands(v)
    BY <2>1, Stood
  <2>4. v \in Online /\ LedgerSchema' = LedgerSchema
    BY <1>3 DEF RecordOnline, catalog, LedgerSchema, Shown, Settled
  <2> QED
    BY <2>1, <2>2, <2>3, <2>4, FollowsNext DEF Ledger!Record
<1>4. CASE rows' = rows
  BY <1>4, LedgerWorks
<1>5. \/ rows' = rows
      \/ \E v \in Version : ApplyCatalog(p, v) \/ RecordOnline(p, v)
  BY <1>0 DEF Next, vars, Advance, ShouldMigrate, Setup, CleanupDone, Finish, ListInvalid,
              ExecOnline, DropListed, Stop, Complete, Abort, ForeignBuild, StartOrphan
<1> QED
  BY <1>2, <1>3, <1>4, <1>5 DEF Ledger!Next

(* One migrator at a time, however often cut: the users of the schema see  *)
(* one migration after another, none left out, each but the next online    *)
(* one in a single step (RunMigrations, applyCatalogMigration).            *)
THEOREM MigratesAsPromised ==
  ASSUME NEW p, Migrator = {p}, Lingering = FALSE
  PROVE  Spec => ImplementsLedger
<1>1. TypeOK /\ TypeOK' /\ OneVersionRow /\ OneVersionRow' /\ SingleInv /\ SingleInv' /\ [Next]_vars
        => [Ledger!Next]_<<LedgerVersion, LedgerSchema>>
  BY LedgerStep
<1>2. Spec => []SingleInv
  BY SingleInvariant
<1> QED
  BY <1>1, <1>2, LedgerInit, TypeCorrect, VersionRowIsUnique, PTL
     DEF Spec, ImplementsLedger, Ledger!Spec
=============================================================================
