--------------------------- MODULE RenderingsProofs ---------------------------
(***************************************************************************)
(* Theorems about runs whose lists are rendered differently: they are      *)
(* still runs of MigrationRunner, whose theorems so hold of them, and what *)
(* they leave of the triggers and the key.                                 *)
(***************************************************************************)
EXTENDS Renderings, MigrationRunnerProofs

(* A step for some rendering is a step of the runner, or none.             *)
LEMMA StepIsTheRunners == [RNext]_allVars => [Next]_vars
<1>1. ASSUME NEW p \in Migrator, RAdvance(p)
      PROVE  Advance(p)
  BY <1>1 DEF RAdvance, RBegin, RApply, Else, Advance
<1>2. Turn => UNCHANGED vars
  BY DEF Turn
<1>3. Server => Next
  BY DEF Server, Next
<1>4. UNCHANGED allVars => UNCHANGED vars
  BY DEF allVars, vars
<1>5. QED
  BY <1>1, <1>2, <1>3, <1>4 DEF RNext, Next

(* Whatever the flag is from one run to the next, the runner keeps what    *)
(* MigrationRunner specifies.                                              *)
THEOREM RendersTheRunner == RSpec => Spec
<1>1. RInit => Init
  BY DEF RInit
<1>2. QED
  BY <1>1, StepIsTheRunners, PTL DEF RSpec, Spec

(* Any number of migrators, any flags: the version row stays unique.       *)
THEOREM RenderedRowIsUnique == RSpec => []OneVersionRow
BY RendersTheRunner, VersionRowIsUnique, PTL

(* One migrator at a time, any flags: what MigrationRunner promises for    *)
(* one list it promises for lists that differ from run to run in what only *)
(* LISTEN/NOTIFY needs.                                                    *)
THEOREM RenderedAsPromised ==
  ASSUME NEW p, Migrator = {p}, Lingering = FALSE
  PROVE  RSpec => ImplementsLedger /\ []NextGoesThrough /\ []RecordedMeansApplied
<1>1. Spec => ImplementsLedger
  BY MigratesAsPromised
<1>2. Spec => []NextGoesThrough
  BY RunsGoThrough
<1>3. Spec => []RecordedMeansApplied
  BY RecordedIsApplied
<1> QED
  BY <1>1, <1>2, <1>3, RendersTheRunner, PTL
-----------------------------------------------------------------------------
(* The types of what Renderings adds.                                      *)
LEMMA RunsType ==
  ASSUME extra \subseteq Extra, NEW v, NEW on, Runs(v, on)
  PROVE  extra' \subseteq Extra
BY DEF Runs, Makes, Extra

LEMMA RenderTypeStep ==
  ASSUME RTypeOK, [RNext]_allVars
  PROVE  RTypeOK'
<1>1. ASSUME NEW p \in Migrator, RAdvance(p) PROVE RTypeOK'
  <2>1. CASE RBegin(p)
    BY <2>1 DEF RBegin, RTypeOK
  <2>2. ASSUME NEW v \in Version, RApply(p, v) PROVE RTypeOK'
    BY <2>2, RunsType DEF RApply, RTypeOK
  <2>3. CASE Else(p)
    BY <2>3 DEF Else, renderings, RTypeOK
  <2> QED
    BY <1>1, <2>1, <2>2, <2>3 DEF RAdvance
<1>2. CASE Turn
  BY <1>2, TurnAssumption DEF Turn, RTypeOK
<1>3. CASE Server \/ UNCHANGED allVars
  BY <1>3 DEF Server, allVars, renderings, RTypeOK
<1> QED
  BY <1>1, <1>2, <1>3 DEF RNext

LEMMA RenderTypeInit == RInit => RTypeOK
BY DEF RInit, RTypeOK, LeftAt

-----------------------------------------------------------------------------
(* The key of migration 10. Whoever has seen version 10 has seen the key,  *)
(* and no migration takes it away.                                         *)
KeyInv ==
  /\ KeyPresent
  /\ \A p \in Migrator : cur[p] >= 10 => Key \in extra

LEMMA KeyStays ==
  ASSUME NEW v, NEW on, Runs(v, on), Key \in extra
  PROVE  Key \in extra'
BY DEF Runs, Removes, Key

LEMMA KeyMade ==
  ASSUME NEW on, Runs(10, on)
  PROVE  Key \in extra'
BY DEF Runs, Makes, Removes, Key

LEMMA KeyLeft ==
  ASSUME 10 \in Version, NEW r \in Version, r >= 10, NEW on
  PROVE  Key \in LeftAt(r, on)
<1>1. Key \in Makes(10, on) /\ Key \in Extra
  BY DEF Makes, Key, Extra
<1>2. \A u \in Version : Key \notin Removes(u, on)
  BY DEF Removes, Key
<1>3. QED
  BY <1>1, <1>2 DEF LeftAt

LEMMA KeyInit ==
  ASSUME 10 \in Version, RInit
  PROVE  KeyInv
<1>1. \A p \in Migrator : cur[p] = 0
  BY DEF RInit, Init
<1>2. ASSUME NEW r \in rows, r >= 10
      PROVE  Key \in extra
  <2>1. PICK v \in Version \cup {0} : rows = {v} \ {0}
    BY DEF RInit, Init
  <2>2. PICK s \in Version \cup {0} : /\ Recorded(s)
                                      /\ \/ extra = LeftAt(s, listen)
                                         \/ s < 10 /\ extra = LeftAt(s, listen) \ {Key}
    BY DEF RInit
  <2>3. r \in Version /\ s = r
    BY <1>2, <2>1, <2>2 DEF Recorded
  <2>4. r \in Nat
    BY <2>3, VersionAssumption
  <2>5. QED
    BY <1>2, <2>2, <2>3, <2>4, KeyLeft
<1>3. QED
  BY <1>1, <1>2 DEF KeyInv, KeyPresent

(* Recording v, by whoever has come to the version before it, when v       *)
(* brings the key or the key is there already.                             *)
LEMMA KeyRecorded ==
  ASSUME TypeOK, KeyInv, NEW p \in Migrator, NEW v \in Version,
         WriteMigrationVersion(v, cur[p]), cur' = [cur EXCEPT ![p] = v],
         Key \in extra => Key \in extra', v >= 10 => Key \in extra'
  PROVE  KeyInv'
<1>1. \A r \in rows' : r = v \/ r \in rows
  BY DEF WriteMigrationVersion
<1>2. \A q \in Migrator : cur'[q] = v \/ cur'[q] = cur[q]
  BY DEF TypeOK
<1>3. QED
  BY <1>1, <1>2 DEF KeyInv, KeyPresent

(* Whoever is to run a later migration has passed 10.                      *)
LEMMA KeyBehind ==
  ASSUME 10 \in Version, TypeOK, KeyInv,
         NEW p \in Migrator, NEW v \in Version, NextAfter(cur[p], v), v > 10
  PROVE  Key \in extra
<1>1. cur[p] \in Version \cup {0}
  BY DEF TypeOK
<1>2. Version \cup {0} \subseteq Nat
  BY VersionAssumption
<1>3. cur[p] \in Nat /\ v \in Nat
  BY <1>1, <1>2
<1>4. cur[p] >= 10
  BY <1>3 DEF NextAfter
<1>5. QED
  BY <1>4 DEF KeyInv

LEMMA KeyStep ==
  ASSUME 10 \in Version \ Online, TypeOK, KeyInv, [RNext]_allVars
  PROVE  KeyInv'
<1>1. \A p \in Migrator : \A v \in Version :
        NextAfter(cur[p], v) /\ v > 10 => Key \in extra
  BY KeyBehind
<1>2. ASSUME NEW p \in Migrator, NEW v \in Version, RApply(p, v)
      PROVE  KeyInv'
  <2>1. /\ NextAfter(cur[p], v) /\ Runs(v, flag[p])
        /\ WriteMigrationVersion(v, cur[p]) /\ cur' = [cur EXCEPT ![p] = v]
    BY <1>2 DEF RApply, ApplyCatalog
  <2>2. Key \in extra => Key \in extra'
    BY <2>1, KeyStays
  <2>3. v >= 10 => Key \in extra'
    <3>1. v \in Nat
      BY VersionAssumption
    <3>2. v = 10 => Key \in extra'
      BY <2>1, KeyMade
    <3>3. QED
      BY <1>1, <2>1, <2>2, <3>1, <3>2
  <2>4. QED
    BY <2>1, <2>2, <2>3, KeyRecorded
<1>3. ASSUME NEW p \in Migrator, NEW v \in Version, RecordOnline(p, v), UNCHANGED renderings
      PROVE  KeyInv'
  <2>1. /\ NextAfter(cur[p], v) /\ v # 10 /\ extra' = extra
        /\ WriteMigrationVersion(v, cur[p]) /\ cur' = [cur EXCEPT ![p] = v]
    BY <1>3 DEF RecordOnline, renderings
  <2>2. v \in Nat
    BY VersionAssumption
  <2>3. v >= 10 => Key \in extra'
    BY <1>1, <2>1, <2>2
  <2>4. QED
    BY <2>1, <2>3, KeyRecorded
<1>4. ASSUME NEW p \in Migrator, Setup(p), UNCHANGED renderings
      PROVE  KeyInv'
  <2>1. PICK v \in Version \cup {0} : Recorded(v) /\ cur' = [cur EXCEPT ![p] = v]
    BY <1>4 DEF Setup
  <2>2. v >= 10 => Key \in extra
    BY <2>1 DEF Recorded, KeyInv, KeyPresent
  <2>3. \A q \in Migrator : cur'[q] = v \/ cur'[q] = cur[q]
    BY <2>1 DEF TypeOK
  <2>4. rows' = rows /\ extra' = extra
    BY <1>4 DEF Setup, renderings
  <2>5. QED
    BY <2>2, <2>3, <2>4 DEF KeyInv, KeyPresent
<1>5. ASSUME UNCHANGED <<rows, extra>>, \A q \in Migrator : cur'[q] = cur[q] \/ cur'[q] = 0
      PROVE  KeyInv'
  BY <1>5 DEF KeyInv, KeyPresent
<1>6. ASSUME NEW p \in Migrator, RAdvance(p)
      PROVE  KeyInv'
  <2>1. CASE RBegin(p)
    BY <1>5, <2>1 DEF RBegin, ShouldMigrate
  <2>2. CASE CleanupDone(p) /\ UNCHANGED renderings
    BY <1>5, <2>2 DEF CleanupDone, renderings
  <2>3. CASE Finish(p) /\ UNCHANGED renderings
    <3>1. \A q \in Migrator : cur'[q] = cur[q] \/ cur'[q] = 0
      BY <2>3 DEF Finish, EndRun, TypeOK
    <3>2. QED
      BY <1>5, <2>3, <3>1 DEF Finish, renderings
  <2>4. ASSUME NEW v \in Version, ListInvalid(p, v) \/ ExecOnline(p, v), UNCHANGED renderings
        PROVE  KeyInv'
    BY <1>5, <2>4 DEF ListInvalid, ExecOnline, renderings
  <2>5. ASSUME NEW o \in Object, DropListed(p, o), UNCHANGED renderings
        PROVE  KeyInv'
    BY <1>5, <2>5 DEF DropListed, renderings
  <2>6. QED
    BY <1>2, <1>3, <1>4, <1>6, <2>1, <2>2, <2>3, <2>4, <2>5 DEF RAdvance, Else
<1>7. CASE Server
  <2>1. CASE \E p \in Migrator : Stop(p)
    <3>1. \A q \in Migrator : cur'[q] = cur[q] \/ cur'[q] = 0
      BY <2>1 DEF Stop, EndRun, TypeOK
    <3>2. UNCHANGED <<rows, extra>>
      BY <1>7, <2>1 DEF Server, Stop, renderings
    <3>3. QED
      BY <1>5, <3>1, <3>2
  <2>2. CASE \E o \in Object : Complete(o) \/ Abort(o) \/ ForeignBuild(o)
    <3>1. \A q \in Migrator : cur'[q] = cur[q] \/ cur'[q] = 0
      BY <2>2 DEF Complete, Abort, ForeignBuild, local
    <3>2. UNCHANGED <<rows, extra>>
      BY <1>7, <2>2 DEF Server, Complete, Abort, ForeignBuild, renderings
    <3>3. QED
      BY <1>5, <3>1, <3>2
  <2>3. CASE \E s \in orphans : StartOrphan(s)
    BY <1>5, <1>7, <2>3 DEF Server, StartOrphan, local, renderings
  <2>4. QED
    BY <1>7, <2>1, <2>2, <2>3 DEF Server
<1>8. CASE Turn
  BY <1>5, <1>8 DEF Turn, vars
<1>9. CASE UNCHANGED allVars
  BY <1>5, <1>9 DEF allVars, vars, renderings
<1>10. QED
  BY <1>6, <1>7, <1>8, <1>9 DEF RNext

(* Any number of migrators, any flags: a database past migration 10 has    *)
(* the key, whichever way it came there.                                   *)
THEOREM KeyIsPresent ==
  ASSUME 10 \in Version \ Online
  PROVE  RSpec => []KeyPresent
<1>1. RInit => KeyInv
  BY KeyInit
<1>2. TypeOK /\ KeyInv /\ [RNext]_allVars => KeyInv'
  BY KeyStep
<1>3. KeyInv => KeyPresent
  BY DEF KeyInv
<1>4. QED
  BY <1>1, <1>2, <1>3, RendersTheRunner, TypeCorrect, PTL DEF RSpec
-----------------------------------------------------------------------------
(* The triggers of migrations 43 and 44. They come in at 1 and 39 and go   *)
(* out at 43 and 44; with one migrator a run is always at the recorded     *)
(* version, so nothing brings them back behind the record.                 *)
Retired(x, v) ==
  \/ x = "streams_trigger" /\ v = 43
  \/ x = "workflow_events_trigger" /\ v = 44

LEMMA RetiredByName ==
  TriggersGone <=> \A r \in rows : \A x, v : Retired(x, v) /\ r >= v => x \notin extra
BY DEF TriggersGone, Retired

LEMMA NoneMadeLater ==
  ASSUME NEW x, NEW v, Retired(x, v), NEW w, NEW on, x \in Makes(w, on)
  PROVE  w = 1 \/ w = 39
BY DEF Retired, Makes, EventTriggers, Key

LEMMA RemovedThen ==
  ASSUME NEW x, NEW v, Retired(x, v), NEW on
  PROVE  x \in Removes(v, on)
BY DEF Retired, Removes

LEMMA RetiredLeft ==
  ASSUME {43, 44} \subseteq Version, NEW x, NEW v, Retired(x, v),
         NEW r \in Version, r >= v, NEW on
  PROVE  x \notin LeftAt(r, on)
<1>1. v \in Version /\ v \in {43, 44}
  BY DEF Retired
<1>2. ASSUME NEW w \in Version, x \in Makes(w, on)
      PROVE  \E u \in Version : w < u /\ u <= r /\ x \in Removes(u, on)
  <2>1. w = 1 \/ w = 39
    BY <1>2, NoneMadeLater
  <2>2. w < v
    BY <1>1, <2>1
  <2>3. QED
    BY <1>1, <2>2, RemovedThen
<1>3. QED
  BY <1>2 DEF LeftAt

LEMMA TriggersInit ==
  ASSUME {43, 44} \subseteq Version, RInit
  PROVE  TriggersGone
<1> SUFFICES ASSUME NEW r \in rows, NEW x, NEW v, Retired(x, v), r >= v
             PROVE  x \notin extra
  BY RetiredByName
<1>1. PICK s \in Version \cup {0} : Recorded(s) /\ extra \subseteq LeftAt(s, listen)
  BY DEF RInit
<1>2. r \in Version /\ s = r
  <2>1. PICK n \in Version \cup {0} : rows = {n} \ {0}
    BY DEF RInit, Init
  <2>2. QED
    BY <1>1, <2>1 DEF Recorded
<1>3. QED
  BY <1>1, <1>2, RetiredLeft

(* Whoever records version v, from the version recorded before it.         *)
LEMMA TriggersRecorded ==
  ASSUME {43, 44} \subseteq Version, TypeOK, OneVersionRow, TriggersGone,
         NEW c, NEW v \in Version, Recorded(c), c \in Version \cup {0}, NextAfter(c, v),
         WriteMigrationVersion(v, c), NEW on,
         \/ Runs(v, on)
         \/ v \notin {1, 39, 43, 44} /\ extra' = extra
  PROVE  TriggersGone'
<1> SUFFICES ASSUME NEW r \in rows', NEW x, NEW w, Retired(x, w), r >= w
             PROVE  x \notin extra'
  BY RetiredByName DEF TriggersGone, Retired
<1>1. r = v
  <2>1. CASE c = 0
    <3>1. rows = {}
      BY <2>1, VersionAssumption DEF TypeOK, Recorded
    <3>2. QED
      BY <2>1, <3>1 DEF WriteMigrationVersion
  <2>2. CASE c # 0
    BY <2>2 DEF WriteMigrationVersion
  <2>3. QED
    BY <2>1, <2>2
<1>2. /\ w \in {43, 44} /\ w \in Version /\ v \in Nat /\ c \in Nat /\ v >= w
  BY <1>1, VersionAssumption DEF Retired
<1>3. x \notin Makes(v, on)
  BY <1>2, NoneMadeLater
<1>4. CASE v = w
  <2>1. Runs(v, on)
    BY <1>2, <1>4
  <2>2. QED
    BY <1>4, <2>1, RemovedThen DEF Runs
<1>5. CASE v # w
  <2>1. c >= w
    BY <1>2, <1>5 DEF NextAfter
  <2>2. c \in rows
    BY <1>2, <2>1 DEF Recorded
  <2>3. x \notin extra
    BY <2>1, <2>2, RetiredByName
  <2>4. QED
    BY <1>3, <2>3 DEF Runs
<1>6. QED
  BY <1>4, <1>5

LEMMA TriggersStep ==
  ASSUME {1, 39, 43, 44} \subseteq Version \ Online, TypeOK, OneVersionRow, SingleInv,
         TriggersGone, [RNext]_allVars
  PROVE  TriggersGone'
<1>1. ASSUME UNCHANGED <<rows, extra>>
      PROVE  TriggersGone'
  BY <1>1 DEF TriggersGone
<1>2. ASSUME NEW p \in Migrator, NEW v \in Version, RApply(p, v)
      PROVE  TriggersGone'
  <2>1. /\ pc[p] = "loop" /\ NextAfter(cur[p], v) /\ Runs(v, flag[p])
        /\ WriteMigrationVersion(v, cur[p])
    BY <1>2 DEF RApply, ApplyCatalog
  <2>2. Recorded(cur[p]) /\ cur[p] \in Version \cup {0}
    BY <2>1 DEF SingleInv, RunInv, TypeOK
  <2>3. QED
    BY <2>1, <2>2, TriggersRecorded
<1>3. ASSUME NEW p \in Migrator, NEW v \in Version, RecordOnline(p, v), UNCHANGED renderings
      PROVE  TriggersGone'
  <2>1. /\ pc[p] = "record" /\ NextAfter(cur[p], v) /\ v \notin {1, 39, 43, 44}
        /\ WriteMigrationVersion(v, cur[p]) /\ extra' = extra
    BY <1>3 DEF RecordOnline, renderings
  <2>2. Recorded(cur[p]) /\ cur[p] \in Version \cup {0}
    BY <2>1 DEF SingleInv, RunInv, TypeOK
  <2>3. QED
    BY <2>1, <2>2, TriggersRecorded
<1>4. ASSUME NEW p \in Migrator, RAdvance(p)
      PROVE  TriggersGone'
  <2>1. CASE RBegin(p)
    BY <1>1, <2>1 DEF RBegin, ShouldMigrate
  <2>2. CASE (Setup(p) \/ CleanupDone(p) \/ Finish(p)) /\ UNCHANGED renderings
    BY <1>1, <2>2 DEF Setup, CleanupDone, Finish, renderings
  <2>3. ASSUME NEW v \in Version, ListInvalid(p, v) \/ ExecOnline(p, v), UNCHANGED renderings
        PROVE  TriggersGone'
    BY <1>1, <2>3 DEF ListInvalid, ExecOnline, renderings
  <2>4. ASSUME NEW o \in Object, DropListed(p, o), UNCHANGED renderings
        PROVE  TriggersGone'
    BY <1>1, <2>4 DEF DropListed, renderings
  <2>5. QED
    BY <1>2, <1>3, <1>4, <2>1, <2>2, <2>3, <2>4 DEF RAdvance, Else
<1>5. CASE Server
  BY <1>1, <1>5 DEF Server, Stop, Complete, Abort, ForeignBuild, StartOrphan, renderings
<1>6. CASE Turn
  BY <1>1, <1>6 DEF Turn, vars
<1>7. CASE UNCHANGED allVars
  BY <1>1, <1>7 DEF allVars, vars, renderings
<1>8. QED
  BY <1>4, <1>5, <1>6, <1>7 DEF RNext

(* One migrator at a time: past 43 and 44 the triggers they remove are     *)
(* gone, whatever each run was told about LISTEN/NOTIFY.                   *)
THEOREM TriggersAreGone ==
  ASSUME NEW p, Migrator = {p}, Lingering = FALSE, {1, 39, 43, 44} \subseteq Version \ Online
  PROVE  RSpec => []TriggersGone
<1>1. RInit => TriggersGone
  BY TriggersInit
<1>2. TypeOK /\ OneVersionRow /\ SingleInv /\ TriggersGone /\ [RNext]_allVars => TriggersGone'
  BY TriggersStep
<1>3. QED
  BY <1>1, <1>2, RendersTheRunner, SingleInvariant, TypeCorrect, VersionRowIsUnique, PTL
     DEF RSpec
-----------------------------------------------------------------------------
(* What migration 20 pins. An operator who takes LISTEN/NOTIFY out, and    *)
(* does not put it back, leaves a database that has the triggers wherever  *)
(* a run is still told to leave them in.                                   *)
PinsInv ==
  /\ \A p \in Migrator : pc[p] # "idle" => flag[p] = listen
  /\ listen => \A r \in rows : r < 20 => EventTriggers \subseteq extra

LEMMA EventsLeft ==
  ASSUME 1 \in Version, NEW r \in Version, r < 20
  PROVE  EventTriggers \subseteq LeftAt(r, TRUE) \ {Key}
<1>1. r \in Nat /\ r >= 1 /\ \A u \in Version : u \in Nat
  BY VersionAssumption
<1>2. EventTriggers \subseteq Makes(1, TRUE) /\ EventTriggers \subseteq Extra /\ Key \notin EventTriggers
  BY DEF Makes, Extra, EventTriggers, Key
<1>3. \A u \in Version : u <= r => Removes(u, TRUE) = {}
  BY <1>1 DEF Removes
<1>4. QED
  BY <1>1, <1>2, <1>3 DEF LeftAt

LEMMA PinsInit ==
  ASSUME 1 \in Version, RInit
  PROVE  PinsInv
<1>1. \A p \in Migrator : pc[p] = "idle"
  BY DEF RInit, Init
<1>2. ASSUME listen, NEW r \in rows, r < 20
      PROVE  EventTriggers \subseteq extra
  <2>1. PICK v \in Version \cup {0} : rows = {v} \ {0}
    BY DEF RInit, Init
  <2>2. PICK s \in Version \cup {0} : Recorded(s) /\ LeftAt(s, listen) \ {Key} \subseteq extra
    BY DEF RInit
  <2>3. r \in Version /\ s = r /\ listen = TRUE
    BY <1>2, <2>1, <2>2 DEF Recorded, RInit
  <2>4. QED
    BY <1>2, <2>2, <2>3, EventsLeft
<1>3. QED
  BY <1>1, <1>2 DEF PinsInv

(* Below 44 no run takes the triggers away, and one that is told to have   *)
(* them makes them first of all.                                           *)
LEMMA PinsRecorded ==
  ASSUME 1 \in Version, TypeOK, RTypeOK, OneVersionRow, PinsInv, UNCHANGED listen,
         NEW c \in Version \cup {0}, NEW v \in Version, Recorded(c), NextAfter(c, v),
         WriteMigrationVersion(v, c),
         \/ Runs(v, listen)
         \/ v # 1 /\ extra' = extra
  PROVE  listen' => \A r \in rows' : r < 20 => EventTriggers \subseteq extra'
<1> SUFFICES ASSUME listen = TRUE, NEW r \in rows', r < 20
             PROVE  EventTriggers \subseteq extra'
  BY DEF RTypeOK
<1>1. /\ 0 \notin Version /\ v \in Nat /\ c \in Nat /\ c < v /\ rows \subseteq Version
      /\ \A u \in Version : u \in Nat /\ u # 0
  BY VersionAssumption DEF NextAfter, TypeOK
<1>2. r = v
  <2>1. CASE c = 0
    <3>1. rows = {}
      BY <1>1, <2>1 DEF Recorded
    <3>2. QED
      BY <2>1, <3>1 DEF WriteMigrationVersion
  <2>2. CASE c # 0
    BY <2>2 DEF WriteMigrationVersion
  <2>3. QED
    BY <2>1, <2>2
<1>3. CASE v = 1
  <2>1. EventTriggers \subseteq Makes(1, TRUE) /\ Removes(1, TRUE) = {}
    BY DEF Makes, Removes
  <2>2. QED
    BY <1>3, <2>1 DEF Runs
<1>4. CASE v # 1
  <2>1. c # 0 /\ c < 20
    BY <1>1, <1>2, <1>4 DEF NextAfter
  <2>2. c \in rows
    BY <2>1 DEF Recorded
  <2>3. EventTriggers \subseteq extra
    BY <2>1, <2>2 DEF PinsInv
  <2>4. Removes(v, TRUE) = {}
    BY <1>1, <1>2 DEF Removes
  <2>5. QED
    BY <2>3, <2>4 DEF Runs
<1>5. QED
  BY <1>3, <1>4

LEMMA PinsStep ==
  ASSUME 1 \in Version, TRUE \notin MayTurn, TypeOK, RTypeOK, OneVersionRow, SingleInv,
         PinsInv, [RNext]_allVars
  PROVE  PinsInv'
<1>1. ASSUME UNCHANGED <<rows, extra, listen, flag>>,
             \A p \in Migrator : pc'[p] # "idle" => pc[p] # "idle"
      PROVE  PinsInv'
  BY <1>1 DEF PinsInv
<1>2. ASSUME NEW p \in Migrator, RBegin(p) PROVE PinsInv'
  <2>1. /\ UNCHANGED <<rows, extra, listen>>
        /\ flag'[p] = listen
        /\ \A q \in Migrator \ {p} : flag'[q] = flag[q] /\ pc'[q] = pc[q]
    BY <1>2 DEF RBegin, ShouldMigrate, TypeOK, RTypeOK
  <2>2. QED
    BY <2>1 DEF PinsInv
<1>3. ASSUME NEW p \in Migrator, NEW v \in Version, RApply(p, v) PROVE PinsInv'
  <2>1. /\ pc[p] = "loop" /\ NextAfter(cur[p], v) /\ Runs(v, flag[p]) /\ pc' = pc
        /\ WriteMigrationVersion(v, cur[p]) /\ UNCHANGED <<listen, flag>>
    BY <1>3 DEF RApply, ApplyCatalog
  <2>2. Recorded(cur[p]) /\ cur[p] \in Version \cup {0} /\ flag[p] = listen
    BY <2>1 DEF SingleInv, RunInv, TypeOK, PinsInv
  <2>3. listen' => \A r \in rows' : r < 20 => EventTriggers \subseteq extra'
    BY <2>1, <2>2, PinsRecorded
  <2>4. QED
    BY <2>1, <2>3 DEF PinsInv
<1>4. ASSUME NEW p \in Migrator, NEW v \in Version, RecordOnline(p, v), UNCHANGED renderings
      PROVE  PinsInv'
  <2>1. /\ pc[p] = "record" /\ NextAfter(cur[p], v) /\ v \in Online
        /\ WriteMigrationVersion(v, cur[p]) /\ UNCHANGED <<extra, listen, flag>>
        /\ \A q \in Migrator : pc'[q] # "idle" => pc[q] # "idle"
    BY <1>4 DEF RecordOnline, renderings, TypeOK
  <2>2. Recorded(cur[p]) /\ cur[p] \in Version \cup {0}
    BY <2>1 DEF SingleInv, RunInv, TypeOK
  <2>3. v # 1
    <3>1. NextAfter(0, 1)
      BY VersionAssumption DEF NextAfter
    <3>2. QED
      BY <2>1, <3>1, FirstAssumption
  <2>4. listen' => \A r \in rows' : r < 20 => EventTriggers \subseteq extra'
    BY <2>1, <2>2, <2>3, PinsRecorded
  <2>5. QED
    BY <2>1, <2>4 DEF PinsInv
<1>5. ASSUME NEW p \in Migrator, Else(p) PROVE PinsInv'
  <2>1. CASE Setup(p) \/ CleanupDone(p) \/ Finish(p)
    BY <1>1, <1>5, <2>1 DEF Else, Setup, CleanupDone, Finish, EndRun, renderings, TypeOK
  <2>2. ASSUME NEW v \in Version, ListInvalid(p, v) \/ ExecOnline(p, v) PROVE PinsInv'
    BY <1>1, <1>5, <2>2 DEF Else, ListInvalid, ExecOnline, renderings, TypeOK
  <2>3. ASSUME NEW o \in Object, DropListed(p, o) PROVE PinsInv'
    BY <1>1, <1>5, <2>3 DEF Else, DropListed, renderings, TypeOK
  <2>4. QED
    BY <1>4, <1>5, <2>1, <2>2, <2>3 DEF Else
<1>6. CASE Server
  <2>1. ASSUME NEW p \in Migrator, Stop(p) PROVE PinsInv'
    BY <1>1, <1>6, <2>1 DEF Server, Stop, EndRun, renderings, TypeOK
  <2>2. ASSUME NEW o \in Object, Complete(o) PROVE PinsInv'
    <3>1. SingleInv /\ \A p \in Migrator : p \in owner[o] => pc[p] # "idle"
      BY DEF SingleInv, RunInv
    <3>2. QED
      BY <1>1, <1>6, <2>2, <3>1 DEF Server, Complete, renderings
  <2>3. ASSUME NEW o \in Object, Abort(o) \/ ForeignBuild(o) PROVE PinsInv'
    BY <1>1, <1>6, <2>3 DEF Server, Abort, ForeignBuild, local, renderings
  <2>4. ASSUME NEW s \in orphans, StartOrphan(s) PROVE PinsInv'
    BY <1>1, <1>6, <2>4 DEF Server, StartOrphan, local, renderings
  <2>5. QED
    BY <1>6, <2>1, <2>2, <2>3, <2>4 DEF Server
<1>7. CASE Turn
  BY <1>7, TurnAssumption DEF Turn, vars, PinsInv
<1>8. CASE UNCHANGED allVars
  BY <1>1, <1>8 DEF allVars, vars, renderings
<1>9. QED
  BY <1>2, <1>3, <1>5, <1>6, <1>7, <1>8 DEF RNext, RAdvance

(* One migrator at a time, and LISTEN/NOTIFY taken out for good if at all: *)
(* the run that comes to migration 20 finds what it is to pin.             *)
THEOREM PinsAreThere ==
  ASSUME NEW m, Migrator = {m}, Lingering = FALSE, 1 \in Version, TRUE \notin MayTurn
  PROVE  RSpec => []PinsWhatExists
<1>1. RInit => RTypeOK /\ PinsInv
  BY RenderTypeInit, PinsInit
<1>2. TypeOK /\ OneVersionRow /\ SingleInv /\ (RTypeOK /\ PinsInv) /\ [RNext]_allVars
        => (RTypeOK /\ PinsInv)'
  BY RenderTypeStep, PinsStep
<1>3. TypeOK /\ SingleInv /\ PinsInv => PinsWhatExists
  <2> SUFFICES ASSUME TypeOK, SingleInv, PinsInv, NEW p \in Migrator, NEW v \in Version,
                      pc[p] = "loop", NextAfter(cur[p], v), v = 20, flag[p]
               PROVE  EventTriggers \subseteq extra
    BY DEF PinsWhatExists, Pins
  <2>1. Recorded(cur[p]) /\ cur[p] \in Version \cup {0} /\ listen
    BY DEF SingleInv, RunInv, TypeOK, PinsInv
  <2>2. PICK c \in Version \cup {0} : c = cur[p]
    BY <2>1
  <2>3. c \in Nat /\ c # 0 /\ c < 20
    BY <2>2, VersionAssumption DEF NextAfter
  <2>4. c \in rows
    BY <2>1, <2>2, <2>3 DEF Recorded
  <2>5. QED
    BY <2>1, <2>3, <2>4 DEF PinsInv
<1>4. Spec => []SingleInv
  BY SingleInvariant
<1>5. QED
  BY <1>1, <1>2, <1>3, <1>4, RendersTheRunner, TypeCorrect, VersionRowIsUnique, PTL DEF RSpec
=============================================================================
