-------------------------- MODULE PrintedScriptProofs --------------------------
(***************************************************************************)
(* Theorems about a printed script that psql executes beside any number of *)
(* runs: it disturbs nothing that the runs rely on, and alone it does what *)
(* a run would have done. What the runs do is RenderingsProofs' and        *)
(* MigrationRunnerProofs'; only the steps of the script are new.           *)
(***************************************************************************)
EXTENDS PrintedScript, RenderingsProofs

(* Whoever else makes a step makes one of the runs' specification.         *)
LEMMA OthersRender ==
  ASSUME Others
  PROVE  RNext /\ Disturbed
BY DEF Others, RNext, Server

LEMMA ServerRenders ==
  ASSUME NEW o \in Object, SServer(o)
  PROVE  RNext /\ Notices(o) /\ (Complete(o) \/ Abort(o)) /\ UNCHANGED renderings
BY DEF SServer, RNext, Server

(* A step after which no script has erred is one of a psql that stops at   *)
(* errors: what follows is about those.                                    *)
LEMMA WhoseStep ==
  ASSUME [SNext]_psqlVars, ~erred'
  PROVE  /\ ~erred
         /\ \/ ScriptSteps
            \/ RNext /\ Disturbed
            \/ \E o \in Object : SServer(o)
            \/ UNCHANGED scriptVars
<1>1. CASE (ScriptSteps \/ Others) /\ UNCHANGED erred
  BY <1>1, OthersRender
<1>2. ASSUME NEW o \in Object, SServer(o) PROVE ~erred
  BY <1>2 DEF SServer, Notices
<1>3. CASE ScriptErrs
  BY <1>3 DEF ScriptErrs
<1>4. CASE UNCHANGED psqlVars
  BY <1>4 DEF psqlVars
<1> QED
  BY <1>1, <1>2, <1>3, <1>4 DEF SNext

LEMMA StepsAreOfAScript ==
  ASSUME script.step # "none"
  PROVE  Executing
BY DEF Executing, NoScript

LEMMA TouchesManaged ==
  ASSUME NEW v \in Version
  PROVE  Touches(v) \subseteq Managed /\ Managed \subseteq Object
BY EffectObjects DEF Touches, Managed
-----------------------------------------------------------------------------
(* Types                                                                   *)
STypeOK == TypeOK /\ RTypeOK /\ ScriptTypeOK

LEMMA STypeInit == SInit => STypeOK
<1> SUFFICES ASSUME SInit PROVE STypeOK
  OBVIOUS
<1>1. TypeOK
  BY TypeInit DEF SInit, RInit
<1>3. RTypeOK
  BY RenderTypeInit DEF SInit
<1> QED
  BY <1>1, <1>3 DEF SInit, STypeOK, ScriptTypeOK

(* What a script does to itself.                                           *)
LEMMA ScriptType ==
  ASSUME STypeOK, [SNext]_psqlVars, ~erred'
  PROVE  ScriptTypeOK'
<1>1. Executing => script \in Script
  BY DEF STypeOK, ScriptTypeOK, Executing
<1>2. \A v \in Version : Touches(v) \subseteq Object
  BY TouchesManaged
<1>3. ASSUME NEW n \in Version, ScriptBegins(n) PROVE ScriptTypeOK'
  BY <1>2, <1>3 DEF ScriptBegins, ScriptTypeOK, Script, STypeOK, RTypeOK
<1>4. ASSUME NEW o \in Object, ScriptCreates(o) PROVE ScriptTypeOK'
  <2>0. script.step # "none"
    BY <1>4 DEF ScriptCreates
  <2>1. Executing
    BY <2>0, StepsAreOfAScript
  <2> QED
    BY <1>1, <1>4, <2>1 DEF ScriptCreates, ScriptTypeOK, Script
<1>5. CASE ScriptCreated
  <2>0. script.step # "none"
    BY <1>5 DEF ScriptCreated
  <2>1. Executing
    BY <2>0, StepsAreOfAScript
  <2> QED
    BY <1>1, <1>5, <2>1 DEF ScriptCreated, ScriptTypeOK, Script
<1>6. CASE ScriptIndexes
  <2>0. script.step # "none"
    BY <1>6 DEF ScriptIndexes
  <2>1. Executing
    BY <2>0, StepsAreOfAScript
  <2> QED
    BY <1>1, <1>6, <2>1 DEF ScriptIndexes, ScriptTypeOK, Script
<1>7. CASE ScriptRecords
  <2>0. script.step # "none"
    BY <1>7 DEF ScriptRecords
  <2>1. Executing
    BY <2>0, StepsAreOfAScript
  <2>2. CASE script' = NoScript
    BY <2>2 DEF ScriptTypeOK
  <2>3. CASE \E n \in Version : script' = [script EXCEPT !.at = n, !.left = Touches(n), !.step = "sql"]
    BY <1>1, <1>2, <2>1, <2>3 DEF ScriptTypeOK, Script
  <2> QED
    BY <1>7, <2>2, <2>3 DEF ScriptRecords, GoesOn
<1>8. CASE ScriptStops
  BY <1>8 DEF ScriptStops, ScriptTypeOK
<1>9. CASE Disturbed
  BY <1>1, <1>9 DEF Disturbed, ScriptTypeOK, Script, STypeOK
<1>10. ASSUME NEW o \in Object, SServer(o) PROVE ScriptTypeOK'
  BY <1>1, <1>10 DEF SServer, Notices, WaitsFor, ScriptTypeOK, Script, STypeOK
<1>11. CASE UNCHANGED scriptVars
  BY <1>11 DEF scriptVars, ScriptTypeOK, STypeOK
<1> QED
  BY <1>3, <1>4, <1>5, <1>6, <1>7, <1>8, <1>9, <1>10, <1>11, WhoseStep DEF ScriptSteps

LEMMA TypeKept ==
  ASSUME TypeOK, RTypeOK, UNCHANGED <<local, renderings>>,
         rows' \subseteq Version, orphans' \subseteq Statement,
         stat' \in [Object -> Status], def' \in [Object -> Version \cup {0}],
         owner' \in [Object -> SUBSET Migrator]
  PROVE  TypeOK' /\ RTypeOK'
BY DEF TypeOK, RTypeOK, local, renderings

LEMMA STypeStep == STypeOK /\ [SNext]_psqlVars /\ ~erred' => STypeOK'
<1> SUFFICES ASSUME STypeOK, [SNext]_psqlVars, ~erred' PROVE STypeOK'
  OBVIOUS
<1>1. ScriptTypeOK'
  BY ScriptType
<1>2. TypeOK /\ RTypeOK
  BY DEF STypeOK
<1>3. Executing => script \in Script
  BY DEF STypeOK, ScriptTypeOK, Executing
<1>4. CASE [RNext]_allVars
  BY <1>1, <1>2, <1>4, StepIsTheRunners, TypeStep, RenderTypeStep DEF STypeOK
<1>5. ASSUME NEW n \in Version, ScriptBegins(n) PROVE TypeOK' /\ RTypeOK'
  BY <1>2, <1>5 DEF ScriptBegins, allVars, vars, renderings, TypeOK, RTypeOK
<1>6. ASSUME NEW o \in Object, ScriptCreates(o) PROVE TypeOK' /\ RTypeOK'
  <2>0. script.step # "none"
    BY <1>6 DEF ScriptCreates
  <2>1. Executing
    BY <2>0, StepsAreOfAScript
  <2>2. script.at \in Version
    BY <1>3, <2>1 DEF Script
  <2> QED
    BY <1>2, <1>6, <2>2 DEF ScriptCreates, local, renderings, TypeOK, RTypeOK, Status
<1>7. ASSUME ScriptCreated PROVE TypeOK' /\ RTypeOK'
  <2>1. extra' \subseteq Extra
    BY <1>2, <1>7, RunsType DEF ScriptCreated, ScriptRuns, RTypeOK
  <2>2. RTypeOK'
    BY <1>2, <1>7, <2>1 DEF ScriptCreated, RTypeOK
  <2>3. UNCHANGED vars
    BY <1>7 DEF ScriptCreated
  <2>4. TypeOK'
    BY <1>2, <2>3 DEF vars, TypeOK
  <2> QED
    BY <2>2, <2>4
<1>8. ASSUME ScriptIndexes PROVE TypeOK' /\ RTypeOK'
  <2>0. script.step # "none"
    BY <1>8 DEF ScriptIndexes
  <2>1. Executing
    BY <2>0, StepsAreOfAScript
  <2>2. script.at \in Version /\ script.left \subseteq Object
    BY <1>3, <2>1 DEF Script
  <2>3. PICK o \in script.left :
          \/ StartStatement(o, IF o \in Adds[script.at] THEN script.at ELSE 0, {})
          \/ UNCHANGED catalog
    BY <1>8 DEF ScriptIndexes
  <2>4. {} \in SUBSET Migrator
    OBVIOUS
  <2>5. /\ stat' \in [Object -> Status]
        /\ def' \in [Object -> Version \cup {0}]
        /\ owner' \in [Object -> SUBSET Migrator]
    BY <1>2, <2>2, <2>3, <2>4, StartType DEF catalog, TypeOK
  <2>6. UNCHANGED <<rows, orphans, local, renderings>>
    BY <1>8 DEF ScriptIndexes
  <2>7. rows' \subseteq Version /\ orphans' \subseteq Statement
    BY <1>2, <2>6 DEF TypeOK
  <2> QED
    BY <1>2, <2>5, <2>6, <2>7, TypeKept
<1>9. ASSUME ScriptRecords PROVE TypeOK' /\ RTypeOK'
  <2>0. script.step # "none"
    BY <1>9 DEF ScriptRecords
  <2>1. Executing
    BY <2>0, StepsAreOfAScript
  <2>2. script.at \in Version
    BY <1>3, <2>1 DEF Script
  <2>3. rows' \subseteq rows \cup {script.at} /\ UNCHANGED <<catalog, orphans, local, renderings>>
    BY <1>9 DEF ScriptRecords
  <2>4. rows' \subseteq Version
    BY <1>2, <2>2, <2>3 DEF TypeOK
  <2>5. /\ stat' \in [Object -> Status] /\ def' \in [Object -> Version \cup {0}]
        /\ owner' \in [Object -> SUBSET Migrator] /\ orphans' \subseteq Statement
    BY <1>2, <2>3 DEF catalog, TypeOK
  <2> QED
    BY <1>2, <2>3, <2>4, <2>5, TypeKept
<1>10. ASSUME ScriptStops PROVE TypeOK' /\ RTypeOK'
  <2>1. orphans' \subseteq Statement
    <3>1. CASE UNCHANGED orphans
      BY <1>2, <3>1 DEF TypeOK
    <3>2. CASE ~UNCHANGED orphans
      <4>1. /\ Executing /\ \E o \in script.left :
              orphans' = orphans \cup {<<o, IF o \in Adds[script.at] THEN script.at ELSE 0>>}
        BY <1>10, <3>2 DEF ScriptStops
      <4> QED
        BY <1>2, <1>3, <4>1 DEF Script, Statement, TypeOK
    <3> QED
      BY <3>1, <3>2
  <2>2. UNCHANGED <<rows, catalog, local, renderings>>
    BY <1>10 DEF ScriptStops
  <2>3. /\ stat' \in [Object -> Status] /\ def' \in [Object -> Version \cup {0}]
        /\ owner' \in [Object -> SUBSET Migrator] /\ rows' \subseteq Version
    BY <1>2, <2>2 DEF catalog, TypeOK
  <2> QED
    BY <1>2, <2>1, <2>2, <2>3, TypeKept
<1>11. CASE UNCHANGED scriptVars
  BY <1>4, <1>11 DEF scriptVars
<1> QED
  BY <1>1, <1>4, <1>5, <1>6, <1>7, <1>8, <1>9, <1>10, <1>11, WhoseStep, ServerRenders
  DEF ScriptSteps, STypeOK
-----------------------------------------------------------------------------
(* A step of a run or of the server takes no table away, and makes no      *)
(* first version row where a script has made one of its tables.            *)
Own(v, o) == v \in Version \ Online /\ o \in Adds[v] /\ OnlyBy(o, v)

LEMMA OwnFacts ==
  ASSUME NEW v, NEW o, Own(v, o)
  PROVE  /\ o \in Object /\ TransactionalObject(o) /\ o \notin Drops[v]
         /\ \A w \in Version : o \in Touches(w) => w = v
<1>1. v \in Version \ Online /\ o \in Adds[v] /\ OnlyBy(o, v)
  BY DEF Own
<1>2. o \in Object /\ TransactionalObject(o)
  BY <1>1, OwnIsTransactional
<1> QED
  BY <1>1, <1>2, EffectAssumption DEF OnlyBy, Touches

LEMMA TablesKept ==
  ASSUME TypeOK, SharedInv, [Next]_vars, NEW v, NEW o, Own(v, o), stat[o] = "valid"
  PROVE  stat'[o] = "valid"
<1>0. o \in Object /\ TransactionalObject(o) /\ \A w \in Version : o \in Drops[w] => w = v /\ FALSE
  BY OwnFacts DEF Touches
<1>a. /\ \A p \in Migrator : o \notin todo[p]
      /\ \A s \in orphans : s[1] # o
  BY <1>0 DEF SharedInv
<1>1. ASSUME NEW q \in Object, q # o, NEW d, NEW who, StartStatement(q, d, who)
      PROVE  stat'[o] = "valid"
  BY <1>0, <1>1, StartFrame
<1>2. CASE UNCHANGED stat
  BY <1>2
<1>3. ASSUME NEW p \in Migrator, NEW w \in Version, ApplyCatalog(p, w) PROVE stat'[o] = "valid"
  BY <1>0, <1>3 DEF ApplyCatalog
<1>4. ASSUME NEW p \in Migrator, NEW q \in Object, DropListed(p, q) PROVE stat'[o] = "valid"
  <2>1. q # o
    BY <1>4, <1>a DEF DropListed
  <2> QED
    BY <1>1, <1>2, <1>4, <2>1 DEF DropListed, catalog
<1>5. ASSUME NEW p \in Migrator, NEW w \in Version, ExecOnline(p, w) PROVE stat'[o] = "valid"
  <2>1. PICK q \in Adds[w] \cup Drops[w] :
          \/ StartStatement(q, IF q \in Adds[w] THEN w ELSE 0, {p})
          \/ UNCHANGED catalog
    BY <1>5 DEF ExecOnline
  <2>2. q \in Object /\ q # o
    BY <1>0, <1>5, OnlineTarget DEF ExecOnline
  <2> QED
    BY <1>1, <1>2, <2>1, <2>2 DEF catalog
<1>6. ASSUME NEW s \in orphans, StartOrphan(s) PROVE stat'[o] = "valid"
  <2>1. s[1] \in Object /\ s[1] # o
    BY <1>a DEF TypeOK, Statement
  <2> QED
    BY <1>1, <1>2, <1>6, <2>1 DEF StartOrphan, catalog
<1>7. ASSUME NEW q \in Object, Complete(q) \/ Abort(q) \/ ForeignBuild(q) PROVE stat'[o] = "valid"
  <2>1. q # o
    BY <1>7 DEF Complete, Abort, ForeignBuild, InFlight
  <2> QED
    BY <1>0, <1>7, <2>1 DEF Complete, Abort, ForeignBuild, TypeOK
<1>8. CASE UNCHANGED vars
  BY <1>2, <1>8 DEF vars
<1>9. ASSUME NEW p \in Migrator, Advance(p) \/ Stop(p) PROVE stat'[o] = "valid"
  <2>1. CASE Stop(p)
    BY <2>1 DEF Stop
  <2>2. CASE ShouldMigrate(p) \/ Setup(p) \/ CleanupDone(p) \/ Finish(p)
    BY <2>2 DEF ShouldMigrate, Setup, CleanupDone, Finish, catalog
  <2>3. ASSUME NEW w \in Version, ListInvalid(p, w) \/ RecordOnline(p, w) PROVE stat'[o] = "valid"
    BY <2>3 DEF ListInvalid, RecordOnline, catalog
  <2> QED
    BY <1>3, <1>4, <1>5, <1>9, <2>1, <2>2, <2>3 DEF Advance
<1> QED
  BY <1>6, <1>7, <1>8, <1>9 DEF Next

LEMMA FirstKept ==
  ASSUME TypeOK, [Next]_vars, rows = {},
         NEW v \in Version, NextAfter(0, v), NEW o \in Adds[v], stat[o] = "valid"
  PROVE  rows' = {}
<1>0. \A w \in Version : NextAfter(0, w) => w = v
  BY NextUnique
<1>1. v \in Strict /\ v \notin Online /\ 0 \notin Version
  BY FirstAssumption, VersionAssumption
<1>2. ASSUME NEW p \in Migrator, NEW w \in Version, NextAfter(cur[p], w),
             WriteMigrationVersion(w, cur[p]), w # v
      PROVE  rows' = {}
  <2>1. cur[p] # 0
    BY <1>0, <1>2
  <2> QED
    BY <1>2, <2>1 DEF WriteMigrationVersion
<1>3. ASSUME NEW p \in Migrator, NEW w \in Version, ApplyCatalog(p, w) PROVE rows' = {}
  <2>1. w # v
    BY <1>1, <1>3 DEF ApplyCatalog, Accepts
  <2> QED
    BY <1>2, <1>3, <2>1 DEF ApplyCatalog
<1>4. ASSUME NEW p \in Migrator, NEW w \in Version, RecordOnline(p, w) PROVE rows' = {}
  BY <1>1, <1>2, <1>4 DEF RecordOnline
<1>5. CASE UNCHANGED rows
  BY <1>5
<1>6. ASSUME NEW p \in Migrator, Advance(p) \/ Stop(p) PROVE rows' = {}
  <2>1. CASE Stop(p)
    BY <1>5, <2>1 DEF Stop
  <2>2. CASE ShouldMigrate(p) \/ Setup(p) \/ CleanupDone(p) \/ Finish(p)
    BY <1>5, <2>2 DEF ShouldMigrate, Setup, CleanupDone, Finish
  <2>3. ASSUME NEW w \in Version, ListInvalid(p, w) \/ ExecOnline(p, w) PROVE rows' = {}
    BY <1>5, <2>3 DEF ListInvalid, ExecOnline
  <2>4. ASSUME NEW q \in Object, DropListed(p, q) PROVE rows' = {}
    BY <1>5, <2>4 DEF DropListed
  <2> QED
    BY <1>3, <1>4, <1>6, <2>1, <2>2, <2>3, <2>4 DEF Advance
<1>7. ASSUME NEW q \in Object, Complete(q) \/ Abort(q) \/ ForeignBuild(q) PROVE rows' = {}
  BY <1>5, <1>7 DEF Complete, Abort, ForeignBuild
<1>8. ASSUME NEW s \in orphans, StartOrphan(s) PROVE rows' = {}
  BY <1>5, <1>8 DEF StartOrphan
<1>9. CASE UNCHANGED vars
  BY <1>5, <1>9 DEF vars
<1> QED
  BY <1>6, <1>7, <1>8, <1>9 DEF Next
-----------------------------------------------------------------------------
(* What a script has come past stays, whoever makes a step.                *)
SafeInv == STypeOK /\ SharedInv /\ ScriptInv

LEMMA ScriptFields ==
  ASSUME STypeOK, Executing
  PROVE  /\ script \in Script /\ script.at \in Version /\ script.from \in Version
         /\ script.at \in Nat /\ script.from \in Nat /\ 0 \notin Version
BY VersionAssumption DEF STypeOK, ScriptTypeOK, Executing, Script

(* A step of anybody else, after which the script is at the same migration *)
(* with as much of it done, or more where it is an online one, or over.    *)
LEMMA ScriptFrame ==
  ASSUME SafeInv, [Next]_vars,
         \/ script' = NoScript
         \/ /\ Executing /\ script'.at = script.at /\ script'.from = script.from
            /\ \/ script'.left = script.left /\ script'.step = script.step
               \/ script.step = "wait" /\ script'.left = {} /\ script'.step = "record"
         \/ script' = script
  PROVE  ScriptInv'
<1> SUFFICES ASSUME Executing, Executing' PROVE ScriptInv'
  BY DEF ScriptInv, Executing
<1>1. script'.at = script.at /\ script'.from = script.from /\ script'.left \subseteq script.left
  BY DEF Executing
<1>2. TypeOK /\ SharedInv /\ script.at \in Version
  BY ScriptFields DEF SafeInv, STypeOK
<1>3. script.left \subseteq Touches(script.at) /\ script.from <= script.at
  BY DEF SafeInv, ScriptInv
<1>4. /\ script'.step = "record" => script'.left = {}
      /\ script'.step = "wait" => script'.at \in Online
  BY DEF Executing, SafeInv, ScriptInv
<1>5. ASSUME NEW v, NEW o, Own(v, o), Past(v, o)' PROVE Past(v, o)
  <2>1. script.at \in Online => v # script.at
    BY <1>5 DEF Own
  <2>2. script'.left = script.left \/ script.at \in Online
    BY DEF SafeInv, ScriptInv, Executing
  <2> QED
    BY <1>1, <1>5, <2>1, <2>2 DEF Past
<1>6. ASSUME NEW v \in Version \ Online, NEW o \in Adds[v], OnlyBy(o, v), Past(v, o)'
      PROVE  stat'[o] = "valid"
  <2>1. Own(v, o)
    BY <1>6 DEF Own
  <2>2. stat[o] = "valid"
    BY <1>5, <1>6, <2>1 DEF SafeInv, ScriptInv
  <2> QED
    BY <1>2, <2>1, <2>2, TablesKept
<1>7. ASSUME NextAfter(0, script'.at), NEW o \in Adds[script'.at] \ script'.left, OnlyBy(o, script'.at)
      PROVE  rows' = {}
  <2> PICK w \in Version : w = script.at
    BY <1>2
  <2>1. NextAfter(0, w) /\ o \in Adds[w] /\ OnlyBy(o, w)
    BY <1>1, <1>7
  <2>2. w \in Version \ Online /\ w \in Nat
    BY <2>1, FirstAssumption, VersionAssumption
  <2>3. Own(w, o) /\ Past(w, o)'
    BY <1>1, <1>7, <2>1, <2>2 DEF Own, Past
  <2>4. Past(w, o)
    BY <1>5, <2>3
  <2>5. stat[o] = "valid"
    BY <2>1, <2>2, <2>4 DEF SafeInv, ScriptInv
  <2>6. o \notin script.left
    BY <2>2, <2>4 DEF Past
  <2>7. rows = {}
    BY <2>1, <2>6 DEF SafeInv, ScriptInv
  <2> QED
    BY <1>2, <2>1, <2>5, <2>7, FirstKept
<1> QED
  BY <1>1, <1>3, <1>4, <1>6, <1>7 DEF ScriptInv

LEMMA BeginsSafely ==
  ASSUME SafeInv, NEW n \in Version, ScriptBegins(n)
  PROVE  SharedInv' /\ ScriptInv'
<1>1. UNCHANGED allVars /\ script'.from = n /\ script'.at = n /\ script'.left = Touches(n)
      /\ script'.step = "sql"
  BY DEF ScriptBegins
<1>2. SharedInv'
  BY <1>1, SharedFrame DEF allVars, vars, SafeInv, STypeOK, SharedInv
<1>3. PICK r \in Version \cup {0} : Recorded(r) /\ NextAfter(r, n)
  BY DEF ScriptBegins, FitFor
<1>4. ASSUME NEW v \in Version \ Online, NEW o \in Adds[v], OnlyBy(o, v), Past(v, o)'
      PROVE  stat'[o] = "valid"
  <2>1. v \in Nat /\ v # 0 /\ n \in Nat /\ r \in Nat
    BY VersionAssumption, <1>3
  <2>2. v < n
    BY <1>1, <1>4, <2>1 DEF Past, Touches
  <2>3. v <= r
    BY <1>3, <2>1, <2>2 DEF NextAfter
  <2>4. r \in rows
    BY <1>3, <2>1, <2>3 DEF Recorded
  <2>5. stat[o] = "valid"
    BY <1>4, <2>3, <2>4 DEF SafeInv, SharedInv
  <2> QED
    BY <1>1, <2>5 DEF allVars, vars
<1>5. n <= n
  BY VersionAssumption
<1> QED
  BY <1>1, <1>2, <1>4, <1>5 DEF ScriptInv, Touches

(* A statement of a catalog migration. Where it makes a table that only    *)
(* this migration makes, no row can say that the migration has been.       *)
LEMMA CreatesSafely ==
  ASSUME SafeInv, NEW o \in Object, ScriptCreates(o)
  PROVE  SharedInv' /\ ScriptInv'
<1>0. script.step # "none"
  BY DEF ScriptCreates
<1>1. Executing /\ script \in Script /\ script.at \in Version
  BY <1>0, StepsAreOfAScript, ScriptFields DEF SafeInv
<1> PICK w \in Version : w = script.at
  BY <1>1
<1>2. /\ o \in script.left /\ w \notin Online /\ script.step = "sql" /\ Settled(o)
      /\ w \in Strict /\ o \in Adds[w] => stat[o] = "absent"
      /\ stat' = [stat EXCEPT ![o] = IF o \in Drops[w] THEN "absent"
                                     ELSE IF @ = "absent" THEN "valid" ELSE @]
      /\ script' = [script EXCEPT !.left = @ \ {o}]
      /\ rows' = rows /\ orphans' = orphans /\ cur' = cur /\ todo' = todo
  BY DEF ScriptCreates, local
<1>3. /\ script'.at = w /\ script'.from = script.from /\ script'.left = script.left \ {o}
      /\ script'.step = "sql"
  BY <1>1, <1>2 DEF Script
<1>4. TypeOK /\ SharedInv /\ script.left \subseteq Touches(w) /\ o \in Touches(w)
  BY <1>1, <1>2 DEF SafeInv, STypeOK, ScriptInv
<1>5. \A q \in Object : q # o => stat'[q] = stat[q]
  BY <1>2, <1>4 DEF TypeOK
<1>6. stat'[o] = IF o \in Drops[w] THEN "absent" ELSE IF stat[o] = "absent" THEN "valid" ELSE stat[o]
  BY <1>2, <1>4 DEF TypeOK
<1>7. ASSUME NEW v, Own(v, o) PROVE v = w /\ stat'[o] = "valid"
  <2>1. v = w /\ o \notin Drops[w] /\ TransactionalObject(o)
    BY <1>4, <1>7, OwnFacts
  <2>2. stat[o] \in {"absent", "valid"}
    BY <1>4, <2>1 DEF SharedInv
  <2> QED
    BY <1>6, <2>1, <2>2
<1>8. ASSUME NEW v, NEW q, Own(v, q) PROVE stat[q] = "valid" => stat'[q] = "valid"
  BY <1>5, <1>7, <1>8, OwnFacts
<1>9. SharedInv'
  <2>1. OneVersionRow'
    BY <1>2, <1>4 DEF SharedInv, OneVersionRow
  <2>2. ASSUME NEW q \in Object, TransactionalObject(q)
        PROVE  /\ stat'[q] \in {"absent", "valid"}
               /\ \A p \in Migrator : q \notin todo'[p]
               /\ \A s \in orphans' : s[1] # q
    BY <1>2, <1>4, <1>5, <1>6, <2>2 DEF SharedInv
  <2>3. ASSUME NEW v \in Version \ Online, NEW q \in Adds[v], OnlyBy(q, v)
        PROVE  /\ \A r \in rows' : v <= r => stat'[q] = "valid"
               /\ \A p \in Migrator : v <= cur'[p] => stat'[q] = "valid"
    <3>1. Own(v, q)
      BY <2>3 DEF Own
    <3> QED
      BY <1>2, <1>4, <1>8, <2>3, <3>1 DEF SharedInv
  <2> QED
    BY <2>1, <2>2, <2>3 DEF SharedInv
<1>10. ASSUME NEW v \in Version \ Online, NEW q \in Adds[v], OnlyBy(q, v), Past(v, q)'
       PROVE  stat'[q] = "valid"
  <2>1. Own(v, q)
    BY <1>10 DEF Own
  <2>2. CASE q = o
    BY <1>7, <2>1, <2>2
  <2>3. CASE q # o
    <3>1. Past(v, q)
      BY <1>3, <1>10, <2>3 DEF Past
    <3>2. stat[q] = "valid"
      BY <1>1, <1>10, <3>1 DEF SafeInv, ScriptInv
    <3> QED
      BY <1>8, <2>1, <3>2
  <2> QED
    BY <2>2, <2>3
<1>11. ASSUME NextAfter(0, w), NEW q \in Adds[w] \ script'.left, OnlyBy(q, w)
       PROVE  rows' = {}
  <2>1. CASE q = o
    <3>1. w \in Strict /\ w \in Version \ Online
      BY <1>11, FirstAssumption
    <3>2. stat[o] = "absent"
      BY <1>2, <1>11, <2>1, <3>1
    <3>3. \A r \in rows : w <= r
      BY <1>4, <1>11, VersionAssumption DEF NextAfter, TypeOK
    <3> QED
      BY <1>2, <1>4, <1>11, <2>1, <3>1, <3>2, <3>3 DEF SharedInv
  <2>2. CASE q # o
    BY <1>1, <1>2, <1>3, <1>11, <2>2 DEF SafeInv, ScriptInv
  <2> QED
    BY <2>1, <2>2
<1>12. script.from <= script.at
  BY <1>1 DEF SafeInv, ScriptInv
<1> QED
  BY <1>3, <1>4, <1>9, <1>10, <1>11, <1>12 DEF ScriptInv

(* The statement of an online migration is about no table.                 *)
LEMMA IndexesSafely ==
  ASSUME SafeInv, ScriptIndexes
  PROVE  SharedInv' /\ ScriptInv'
<1>0. script.step = "sql" /\ script.at \in Online
  BY DEF ScriptIndexes
<1>1. Executing /\ script \in Script /\ script.at \in Version
  BY <1>0, StepsAreOfAScript, ScriptFields DEF SafeInv
<1> PICK w \in Version : w = script.at
  BY <1>1
<1>2. TypeOK /\ SharedInv /\ script.left \subseteq Touches(w) /\ script.from <= w
  BY <1>1 DEF SafeInv, STypeOK, ScriptInv
<1>3. PICK o \in script.left :
        \/ StartStatement(o, IF o \in Adds[w] THEN w ELSE 0, {}) /\ script' = [script EXCEPT !.step = "wait"]
        \/ script' = [script EXCEPT !.step = "record", !.left = {}] /\ UNCHANGED catalog
  BY DEF ScriptIndexes
<1>4. rows' = rows /\ orphans' = orphans /\ todo' = todo /\ cur' = cur
  BY DEF ScriptIndexes, local
<1>5. o \in Object /\ ~TransactionalObject(o)
  BY <1>0, <1>2, OnlineTarget DEF Touches
<1>6. \A q \in Object : TransactionalObject(q) => stat'[q] = stat[q]
  BY <1>2, <1>3, <1>5, StartFrame DEF catalog
<1>7. SharedInv'
  BY <1>2, <1>4, <1>6, SharedFrame DEF SharedInv
<1>8. /\ script'.at = w /\ script'.from = script.from
      /\ \/ script'.step = "wait" /\ script'.left = script.left
         \/ script'.step = "record" /\ script'.left = {}
  BY <1>1, <1>3 DEF Script
<1>9. ASSUME NEW v \in Version \ Online, NEW q \in Adds[v], OnlyBy(q, v), Past(v, q)'
      PROVE  stat'[q] = "valid"
  <2>1. v < w
    BY <1>0, <1>8, <1>9 DEF Past
  <2>2. stat[q] = "valid"
    BY <1>1, <1>9, <2>1 DEF SafeInv, ScriptInv, Past
  <2> QED
    BY <1>6, <1>9, <2>2, OwnIsTransactional
<1>10. ~NextAfter(0, w)
  BY <1>0, FirstAssumption
<1> QED
  BY <1>0, <1>2, <1>7, <1>8, <1>9, <1>10 DEF ScriptInv

(* The INSERT of a script finds no row, the UPDATE leaves at most one.     *)
LEMMA RecordsSafely ==
  ASSUME SafeInv, ScriptRecords
  PROVE  SharedInv' /\ ScriptInv'
<1>0. script.step = "record"
  BY DEF ScriptRecords
<1>1. Executing /\ script \in Script /\ script.at \in Version
  BY <1>0, StepsAreOfAScript, ScriptFields DEF SafeInv
<1> PICK w \in Version : w = script.at
  BY <1>1
<1>2. TypeOK /\ SharedInv /\ script.left = {} /\ script.from <= w /\ w \in Nat
  BY <1>0, <1>1, VersionAssumption DEF SafeInv, STypeOK, ScriptInv
<1>3. /\ IF w = script.from /\ NextAfter(0, w)
           THEN rows' = rows \cup {w}
           ELSE rows' = {w : r \in rows}
      /\ UNCHANGED <<catalog, orphans, local, renderings>>
      /\ \/ script' = NoScript
         \/ \E n \in Version : /\ NextAfter(w, n)
                               /\ script' = [script EXCEPT !.at = n, !.left = Touches(n), !.step = "sql"]
  BY DEF ScriptRecords, GoesOn
<1>4. stat' = stat /\ orphans' = orphans /\ cur' = cur /\ todo' = todo
  BY <1>3 DEF catalog, local
<1>5. ASSUME NEW v \in Version \ Online, NEW o \in Adds[v], OnlyBy(o, v), v <= w
      PROVE  stat[o] = "valid"
  <2>1. v \in Nat
    BY VersionAssumption
  <2>2. Past(v, o)
    BY <1>2, <1>5, <2>1 DEF Past
  <2> QED
    BY <1>1, <1>5, <2>2 DEF SafeInv, ScriptInv
<1>6. OneVersionRow'
  <2>1. CASE w = script.from /\ NextAfter(0, w)
    <3>1. PICK o \in Adds[w] : OnlyBy(o, w)
      BY <2>1, FirstAssumption
    <3>2. rows = {}
      BY <1>1, <1>2, <2>1, <3>1 DEF SafeInv, ScriptInv
    <3> QED
      BY <1>3, <2>1, <3>2 DEF OneVersionRow
  <2>2. CASE ~(w = script.from /\ NextAfter(0, w))
    BY <1>3, <2>2 DEF OneVersionRow
  <2> QED
    BY <2>1, <2>2
<1>7. \A r \in rows' : r = w \/ r \in rows
  <2>1. rows' = rows \cup {w} \/ rows' = {w : r \in rows}
    BY <1>3
  <2>2. CASE rows' = {w : r \in rows}
    <3>1. \A x \in rows' : x = w
      BY <2>2
    <3> QED
      BY <3>1
  <2> QED
    BY <2>1, <2>2
<1>8. SharedInv'
  <2>1. ASSUME NEW o \in Object, TransactionalObject(o)
        PROVE  /\ stat'[o] \in {"absent", "valid"}
               /\ \A p \in Migrator : o \notin todo'[p]
               /\ \A s \in orphans' : s[1] # o
    BY <1>2, <1>4, <2>1 DEF SharedInv
  <2>2. ASSUME NEW v \in Version \ Online, NEW o \in Adds[v], OnlyBy(o, v)
        PROVE  /\ \A r \in rows' : v <= r => stat'[o] = "valid"
               /\ \A p \in Migrator : v <= cur'[p] => stat'[o] = "valid"
    BY <1>2, <1>4, <1>5, <1>7, <2>2 DEF SharedInv
  <2> QED
    BY <1>6, <2>1, <2>2 DEF SharedInv
<1>9. ScriptInv'
  <2>1. CASE script' = NoScript
    BY <2>1 DEF ScriptInv, Executing
  <2>2. ASSUME NEW n \in Version, NextAfter(w, n),
               script' = [script EXCEPT !.at = n, !.left = Touches(n), !.step = "sql"]
        PROVE  ScriptInv'
    <3>1. /\ script'.at = n /\ script'.left = Touches(n) /\ script'.step = "sql"
          /\ script'.from = script.from
      BY <1>1, <2>2 DEF Script
    <3>2. n \in Nat /\ w < n /\ script.from \in Nat
      BY <1>1, <1>2, <2>2, VersionAssumption DEF NextAfter, Script
    <3>3. ASSUME NEW v \in Version \ Online, NEW o \in Adds[v], OnlyBy(o, v), Past(v, o)'
          PROVE  stat'[o] = "valid"
      <4>1. v < n /\ v \in Nat
        BY <3>1, <3>3, VersionAssumption DEF Past, Touches
      <4>2. v <= w
        BY <1>2, <2>2, <3>2, <4>1 DEF NextAfter
      <4> QED
        BY <1>4, <1>5, <3>3, <4>2
    <3>4. Adds[n] \ script'.left = {}
      BY <3>1 DEF Touches
    <3>5. script.from <= n
      BY <1>2, <3>2
    <3> QED
      BY <3>1, <3>3, <3>4, <3>5 DEF ScriptInv
  <2> QED
    BY <1>3, <2>1, <2>2
<1> QED
  BY <1>8, <1>9

(* A statement that outlives psql is an online migration's.                *)
LEMMA StopsSafely ==
  ASSUME SafeInv, ScriptStops
  PROVE  SharedInv' /\ ScriptInv'
<1>1. Executing /\ script' = NoScript /\ UNCHANGED <<rows, catalog, local, renderings>>
  BY DEF ScriptStops
<1>2. TypeOK /\ SharedInv /\ script.left \subseteq Touches(script.at)
  BY <1>1 DEF SafeInv, STypeOK, ScriptInv
<1>3. rows' = rows /\ stat' = stat /\ cur' = cur /\ todo' = todo
  BY <1>1 DEF catalog, local
<1>4. ASSUME NEW s \in orphans', NEW o \in Object, TransactionalObject(o) PROVE s[1] # o
  <2>1. CASE UNCHANGED orphans
    BY <1>2, <1>4, <2>1 DEF SharedInv
  <2>2. CASE ~UNCHANGED orphans
    <3>1. PICK q \in script.left :
            /\ script.at \in Online
            /\ orphans' = orphans \cup {<<q, IF q \in Adds[script.at] THEN script.at ELSE 0>>}
      BY <2>2 DEF ScriptStops
    <3>2. ~TransactionalObject(q)
      BY <1>2, <3>1, OnlineTarget DEF Touches
    <3> QED
      BY <1>2, <1>4, <3>1, <3>2 DEF SharedInv
  <2> QED
    BY <2>1, <2>2
<1>5. \A o \in Object : TransactionalObject(o) =>
        /\ stat'[o] = stat[o]
        /\ \A p \in Migrator : o \notin todo'[p]
        /\ \A s \in orphans' : s[1] # o
  BY <1>2, <1>3, <1>4 DEF SharedInv
<1>6. SharedInv'
  BY <1>2, <1>3, <1>5, SharedFrame
<1> QED
  BY <1>1, <1>6 DEF ScriptInv, Executing

LEMMA SafeStep == SafeInv /\ [SNext]_psqlVars /\ ~erred' => SafeInv'
<1> SUFFICES ASSUME SafeInv, [SNext]_psqlVars, ~erred' PROVE SharedInv' /\ ScriptInv'
  BY STypeStep DEF SafeInv
<1>0. TypeOK /\ SharedInv /\ ScriptTypeOK
  BY DEF SafeInv, STypeOK
<1>1. CASE ScriptCreated
  <2>1. script.step = "sql" /\ script.left = {} /\ script.at \notin Online
        /\ script' = [script EXCEPT !.step = "record"] /\ UNCHANGED vars
    BY <1>1 DEF ScriptCreated
  <2>2. Executing /\ script \in Script
    BY <2>1, StepsAreOfAScript, ScriptFields DEF SafeInv
  <2>3. /\ script'.at = script.at /\ script'.left = {} /\ script'.step = "record"
        /\ script'.from = script.from
    BY <2>1, <2>2 DEF Script
  <2>4. SharedInv'
    BY <1>0, <2>1, SharedStep
  <2>5. ScriptInv'
    BY <2>1, <2>2, <2>3 DEF SafeInv, ScriptInv, Past, vars
  <2> QED
    BY <2>4, <2>5
<1>2. CASE RNext /\ Disturbed
  <2>1. [Next]_vars
    BY <1>2, StepIsTheRunners
  <2>2. script' = script \/ (Executing /\ script'.at = script.at /\ script'.from = script.from
                             /\ script'.left = script.left /\ script'.step = script.step)
    BY <1>0, <1>2 DEF Disturbed, ScriptTypeOK, Script, Executing
  <2> QED
    BY <1>0, <2>1, <2>2, SharedStep, ScriptFrame
<1>3. ASSUME NEW o \in Object, SServer(o) PROVE SharedInv' /\ ScriptInv'
  <2>1. [Next]_vars /\ Notices(o)
    BY <1>3, ServerRenders, StepIsTheRunners
  <2>2. \/ script' = NoScript
        \/ /\ Executing /\ script'.at = script.at /\ script'.from = script.from
           /\ script.step = "wait" /\ script'.left = {} /\ script'.step = "record"
        \/ script' = script
    BY <1>0, <2>1 DEF Notices, WaitsFor, ScriptTypeOK, Script, Executing
  <2> QED
    BY <1>0, <2>1, <2>2, SharedStep, ScriptFrame
<1>4. CASE UNCHANGED scriptVars
  <2>1. [Next]_vars /\ script' = script
    BY <1>4 DEF scriptVars, allVars
  <2> QED
    BY <1>0, <2>1, SharedStep, ScriptFrame
<1> QED
  BY <1>1, <1>2, <1>3, <1>4, WhoseStep, BeginsSafely, CreatesSafely, IndexesSafely,
     RecordsSafely, StopsSafely
  DEF ScriptSteps

LEMMA SafeInit == SInit => SafeInv
<1>1. SInit => SharedInv /\ ScriptInv
  BY SharedInit DEF SInit, RInit, ScriptInv, Executing
<1> QED
  BY <1>1, STypeInit DEF SafeInv

LEMMA SafeAlways == SSpec => [](erred \/ SafeInv)
<1>1. (erred \/ SafeInv) /\ [SNext]_psqlVars => (erred \/ SafeInv)'
  BY SafeStep, WhoseStep
<1> QED
  BY <1>1, SafeInit, PTL DEF SSpec

(* Runs and printed scripts, as many as race: one version row, unless a    *)
(* script went on after an error. Whoever would INSERT a second one has    *)
(* failed on the first one's tables.                                       *)
THEOREM ScriptedRowIsUnique == SSpec => []RowUnlessErred
<1>1. erred \/ SafeInv => RowUnlessErred
  BY DEF SafeInv, SharedInv, RowUnlessErred
<1> QED
  BY <1>1, SafeAlways, PTL

(* And whichever of them recorded a version, it has its tables.            *)
THEOREM ScriptedTablesArePresent == SSpec => []TablesUnlessErred
<1>1. SafeInv => RecordedTablesPresent
  BY DEF SafeInv, SharedInv, RecordedTablesPresent
<1>2. erred \/ SafeInv => TablesUnlessErred
  BY <1>1 DEF TablesUnlessErred
<1> QED
  BY <1>2, SafeAlways, PTL
-----------------------------------------------------------------------------
(* The key, for which a script from 1 leaves migration 10 out.             *)
LEMMA KeyKept ==
  ASSUME [RNext]_allVars, Key \in extra
  PROVE  Key \in extra'
<1>1. ASSUME NEW p \in Migrator, NEW v \in Version, RApply(p, v) PROVE Key \in extra'
  BY <1>1, KeyStays DEF RApply
<1>2. CASE Server \/ Turn \/ UNCHANGED allVars
  BY <1>2 DEF Server, Turn, allVars, renderings
<1>3. ASSUME NEW p \in Migrator, RBegin(p) \/ Else(p) PROVE Key \in extra'
  BY <1>3 DEF RBegin, Else, renderings
<1> QED
  BY <1>1, <1>2, <1>3 DEF RNext, RAdvance

(* A step that leaves the script as far as it was, or takes it past a      *)
(* migration that is not about the key.                                    *)
LEMMA ScriptKeyFrame ==
  ASSUME SafeInv, ScriptKeyInv, 1 \in Version \ Online, 10 \in Version \ Online,
         Key \in extra => Key \in extra',
         \/ script' = NoScript
         \/ script' = script
         \/ /\ Executing /\ script'.at = script.at /\ script'.from = script.from
            /\ script'.step # "record" \/ script'.step = script.step \/ script.at \in Online
  PROVE  ScriptKeyInv'
<1> SUFFICES ASSUME Executing, Executing', (Behind(10) \/ (script.from = 1 /\ Behind(1)))'
             PROVE  Key \in extra'
  BY DEF ScriptKeyInv, Executing
<1>1. script'.at = script.at /\ script'.from = script.from
      /\ (script'.step = "record" => script.step = "record" \/ script.at \in Online)
  BY DEF Executing
<1>2. script.at # 10 \/ script.at \notin Online
  OBVIOUS
<1>3. script.at # 1 \/ script.at \notin Online
  OBVIOUS
<1>4. Behind(10)' => Behind(10)
  BY <1>1, <1>2 DEF Behind
<1>5. Behind(1)' => Behind(1)
  BY <1>1, <1>3 DEF Behind
<1> QED
  BY <1>1, <1>4, <1>5 DEF ScriptKeyInv

LEMMA ScriptKeyStep ==
  ASSUME 1 \in Version, 10 \in Version \ Online,
         SafeInv, KeyInv, ScriptKeyInv, [SNext]_psqlVars, ~erred'
  PROVE  KeyInv' /\ ScriptKeyInv'
<1>0. TypeOK /\ 1 \in Nat /\ 10 \in Nat
  BY DEF SafeInv, STypeOK
<1>a. NextAfter(0, 1) /\ 1 \in Version \ Online
  <2>1. NextAfter(0, 1)
    BY VersionAssumption DEF NextAfter
  <2> QED
    BY <2>1, FirstAssumption
<1>b. \A n \in Version : NextAfter(0, n) => n = 1
  BY <1>a, NextUnique
<1>c. Executing => /\ script \in Script /\ script.at \in Version /\ script.from \in Version
                   /\ script.at \in Nat /\ script.at >= 1 /\ script.from <= script.at
                   /\ (script.step = "wait" => script.at \in Online)
  BY ScriptFields, VersionAssumption DEF SafeInv, ScriptInv
<1>1. ASSUME NEW n \in Version, ScriptBegins(n) PROVE KeyInv' /\ ScriptKeyInv'
  <2>1. UNCHANGED allVars /\ script'.at = n /\ script'.from = n /\ script'.step = "sql"
    BY <1>1 DEF ScriptBegins
  <2>2. KeyInv'
    BY <2>1 DEF KeyInv, KeyPresent, allVars, vars, renderings
  <2>3. ASSUME n > 10 PROVE Key \in extra
    <3>1. PICK r \in Version \cup {0} : Recorded(r) /\ NextAfter(r, n)
      BY <1>1 DEF ScriptBegins, FitFor
    <3>2. r \in Nat /\ n \in Nat
      BY VersionAssumption
    <3>3. r >= 10
      BY <2>3, <3>1, <3>2 DEF NextAfter
    <3>4. r \in rows
      BY <3>1, <3>2, <3>3 DEF Recorded
    <3> QED
      BY <3>3, <3>4 DEF KeyInv, KeyPresent
  <2>4. ScriptKeyInv'
    <3>1. ~(script'.from = 1 /\ Behind(1)')
      BY <2>1 DEF Behind
    <3>2. Behind(10)' => n > 10
      BY <2>1 DEF Behind
    <3>3. extra' = extra
      BY <2>1 DEF allVars, renderings
    <3> QED
      BY <2>3, <3>1, <3>2, <3>3 DEF ScriptKeyInv
  <2> QED
    BY <2>2, <2>4
<1>2. ASSUME UNCHANGED <<rows, local, extra>>
      PROVE  KeyInv'
  BY <1>2 DEF KeyInv, KeyPresent, local
<1>3. ASSUME NEW o \in Object, ScriptCreates(o) PROVE KeyInv' /\ ScriptKeyInv'
  <2>1. script.step # "none" /\ UNCHANGED <<rows, local, extra>>
    BY <1>3 DEF ScriptCreates, renderings
  <2>2. Executing
    BY <2>1, StepsAreOfAScript
  <2>3. script'.at = script.at /\ script'.from = script.from /\ script'.step = script.step
    BY <1>3, <1>c, <2>2 DEF ScriptCreates, Script
  <2> QED
    BY <1>2, <1>a, <2>1, <2>2, <2>3, ScriptKeyFrame
<1>4. ASSUME ScriptCreated PROVE KeyInv' /\ ScriptKeyInv'
  <2>0. script.step # "none" /\ UNCHANGED vars /\ ScriptRuns(script.at)
    BY <1>4 DEF ScriptCreated
  <2>1. Executing
    BY <2>0, StepsAreOfAScript
  <2>2. script'.at = script.at /\ script'.from = script.from /\ script'.step = "record"
    BY <1>4, <1>c, <2>1 DEF ScriptCreated, Script
  <2>3. Key \in extra => Key \in extra'
    BY <2>0, KeyStays DEF ScriptRuns
  <2>4. KeyInv'
    BY <2>0, <2>3 DEF KeyInv, KeyPresent, vars
  <2>5. ASSUME script.at = 1 PROVE Key \in extra'
    BY <2>0, <2>5 DEF ScriptRuns, Runs, Makes, Removes, Key
  <2>6. ASSUME script.at = 10 PROVE Key \in extra'
    <3>1. CASE NextAfter(0, script.from)
      <4>1. script.from = 1 /\ Behind(1)
        BY <1>b, <1>c, <2>1, <2>6, <3>1 DEF Behind
      <4> QED
        BY <2>1, <2>3, <4>1 DEF ScriptKeyInv
    <3>2. CASE ~NextAfter(0, script.from)
      <4>1. Runs(10, script.on)
        BY <2>0, <2>6, <3>2 DEF ScriptRuns
      <4> QED
        BY <4>1, KeyMade
    <3> QED
      BY <3>1, <3>2
  <2>7. ScriptKeyInv'
    <3>1. Behind(10)' => script.at = 10 \/ Behind(10)
      BY <2>2 DEF Behind
    <3>2. Behind(1)' => script.at = 1 \/ Behind(1)
      BY <2>2 DEF Behind
    <3> QED
      BY <2>1, <2>2, <2>3, <2>5, <2>6, <3>1, <3>2 DEF ScriptKeyInv
  <2> QED
    BY <2>4, <2>7
<1>5. ASSUME ScriptIndexes PROVE KeyInv' /\ ScriptKeyInv'
  <2>1. script.step # "none" /\ script.at \in Online /\ UNCHANGED <<rows, local, extra>>
    BY <1>5 DEF ScriptIndexes, renderings
  <2>2. Executing
    BY <2>1, StepsAreOfAScript
  <2>3. script'.at = script.at /\ script'.from = script.from
    BY <1>5, <1>c, <2>2 DEF ScriptIndexes, Script
  <2> QED
    BY <1>2, <1>a, <2>1, <2>2, <2>3, ScriptKeyFrame
<1>6. ASSUME ScriptRecords PROVE KeyInv' /\ ScriptKeyInv'
  <2>1. script.step = "record" /\ UNCHANGED <<local, extra>>
    BY <1>6 DEF ScriptRecords, renderings
  <2>2. Executing
    BY <2>1, StepsAreOfAScript
  <2> PICK w \in Version : w = script.at
    BY <1>c, <2>2
  <2>3. w >= 10 => Key \in extra
    BY <2>1, <2>2, VersionAssumption DEF ScriptKeyInv, Behind
  <2>4. \A r \in rows' : r = w \/ r \in rows
    <3>1. rows' = rows \cup {w} \/ rows' = {w : r \in rows}
      BY <1>6 DEF ScriptRecords
    <3>2. CASE rows' = {w : r \in rows}
      <4>1. \A x \in rows' : x = w
        BY <3>2
      <4> QED
        BY <4>1
    <3> QED
      BY <3>1, <3>2
  <2>5. KeyInv'
    BY <2>1, <2>3, <2>4 DEF KeyInv, KeyPresent, local
  <2>6. ASSUME NEW n \in Version, NextAfter(w, n),
               script' = [script EXCEPT !.at = n, !.left = Touches(n), !.step = "sql"]
        PROVE  ScriptKeyInv'
    <3>1. script'.at = n /\ script'.from = script.from /\ script'.step = "sql"
      BY <1>c, <2>2, <2>6 DEF Script
    <3>2. n \in Nat /\ w \in Nat
      BY VersionAssumption
    <3>3. Behind(10)' => w >= 10
      BY <2>6, <3>1, <3>2 DEF Behind, NextAfter
    <3>4. Behind(1)' => Behind(1)
      BY <1>c, <2>1, <2>2 DEF Behind
    <3> QED
      BY <2>1, <2>2, <2>3, <3>1, <3>3, <3>4 DEF ScriptKeyInv
  <2>7. script' = NoScript => ScriptKeyInv'
    BY DEF ScriptKeyInv, Executing
  <2> QED
    BY <1>6, <2>5, <2>6, <2>7 DEF ScriptRecords, GoesOn
<1>7. ASSUME ScriptStops PROVE KeyInv' /\ ScriptKeyInv'
  <2>1. UNCHANGED <<rows, local, extra>> /\ script' = NoScript
    BY <1>7 DEF ScriptStops, renderings
  <2> QED
    BY <1>2, <2>1 DEF ScriptKeyInv, Executing
<1>8. CASE RNext /\ Disturbed
  <2>1. script' = script \/ (Executing /\ script'.at = script.at /\ script'.from = script.from
                             /\ script'.step = script.step)
    BY <1>8, <1>c DEF Disturbed, Script
  <2> QED
    BY <1>0, <1>8, <1>a, <2>1, KeyStep, KeyKept, ScriptKeyFrame
<1>9. ASSUME NEW o \in Object, SServer(o) PROVE KeyInv' /\ ScriptKeyInv'
  <2>1. RNext /\ Notices(o)
    BY <1>9, ServerRenders
  <2>2. \/ script' = NoScript \/ script' = script
        \/ /\ Executing /\ script'.at = script.at /\ script'.from = script.from
           /\ script.at \in Online
    BY <1>c, <2>1 DEF Notices, WaitsFor, Script
  <2> QED
    BY <1>0, <1>a, <2>1, <2>2, KeyStep, KeyKept, ScriptKeyFrame
<1>10. CASE UNCHANGED scriptVars
  <2>1. UNCHANGED allVars /\ script' = script
    BY <1>10 DEF scriptVars
  <2> QED
    BY <1>0, <1>a, <2>1, KeyStep, KeyKept, ScriptKeyFrame
<1> QED
  BY <1>1, <1>3, <1>4, <1>5, <1>6, <1>7, <1>8, <1>9, <1>10, WhoseStep DEF ScriptSteps

(* Scripts leave the key out that migration 1 already made, and whoever    *)
(* records version 10 or a later one, the key is there, unless a script    *)
(* went on after an error.                                                 *)
THEOREM ScriptKeyIsPresent ==
  ASSUME 1 \in Version, 10 \in Version \ Online
  PROVE  SSpec => []KeyUnlessErred
<1>1. SInit => KeyInv /\ ScriptKeyInv
  BY KeyInit DEF SInit, ScriptKeyInv, Executing
<1>2. (erred \/ SafeInv) /\ (erred \/ (KeyInv /\ ScriptKeyInv)) /\ [SNext]_psqlVars =>
        (erred \/ (KeyInv /\ ScriptKeyInv))'
  BY ScriptKeyStep, WhoseStep
<1>3. erred \/ (KeyInv /\ ScriptKeyInv) => KeyUnlessErred
  BY DEF KeyInv, KeyUnlessErred
<1> QED
  BY <1>1, <1>2, <1>3, SafeAlways, PTL DEF SSpec
-----------------------------------------------------------------------------
(* A script by itself does what a run would have done.                     *)
LEMMA OneOnlineTarget ==
  ASSUME NEW w \in Online, NEW o \in Touches(w), NEW q \in Touches(w)
  PROVE  o = q
BY OnlineAssumption DEF Touches

(* What a migration does not touch is at its version as at the one before. *)
LEMMA AsOfUntouched ==
  ASSUME NEW r \in Version \cup {0}, NEW n \in Version, NextAfter(r, n),
         NEW o \in Managed, o \notin Touches(n), AsOf(o, r)
  PROVE  AsOf(o, n)
BY DefAtStep DEF Touches, Managed, AsOf

(* What it does to an object that is as the version before has it.         *)
LEMMA AsOfTouched ==
  ASSUME NEW r \in Version \cup {0}, NEW n \in Version, NextAfter(r, n),
         NEW o \in Managed, o \in Touches(n)
  PROVE  /\ o \in Adds[n] => o \notin Drops[n] /\ DefAt[o][r] = 0 /\ DefAt[o][n] = n /\ n # 0
         /\ o \notin Adds[n] => o \in Drops[n] /\ DefAt[o][n] = 0
<1>1. o \in Object /\ n # 0
  BY VersionAssumption DEF Managed
<1> QED
  BY <1>1, DefAtStep, DefAtFresh, EffectAssumption DEF Touches

LoneAt(c) ==
  /\ NextAfter(c, script.at) /\ Recorded(c)
  /\ \A o \in Managed : IF o \notin script.left THEN AsOf(o, script.at)
                        ELSE IF script.step = "wait" THEN AtWork(o) ELSE AsOf(o, c)

LEMMA LoneFacts ==
  ASSUME SafeInv, LoneInv, Executing, script.lone
  PROVE  /\ script \in Script /\ script.left \subseteq Touches(script.at)
         /\ orphans = {} /\ \A p \in Migrator : pc[p] = "idle"
         /\ \A o \in Object : Settled(o) \/ (script.step = "wait" /\ o \in script.left)
         /\ \E w \in Version, c \in Version \cup {0} : w = script.at /\ LoneAt(c)
BY ScriptFields DEF SafeInv, ScriptInv, LoneInv, LoneAt

LEMMA LoneBegins ==
  ASSUME SafeInv, NEW n \in Version, ScriptBegins(n)
  PROVE  LoneInv'
<1>1. /\ UNCHANGED allVars /\ script'.at = n /\ script'.left = Touches(n) /\ script'.step = "sql"
      /\ script'.lone = (Quiet /\ RecordIsTrue)
  BY DEF ScriptBegins
<1>2. rows' = rows /\ stat' = stat /\ def' = def /\ owner' = owner /\ orphans' = orphans /\ pc' = pc
  BY <1>1 DEF allVars, vars
<1> SUFFICES ASSUME script'.lone PROVE LoneInv'
  BY DEF LoneInv
<1>3. PICK r \in Version \cup {0} : Recorded(r) /\ \A o \in Managed : AsOf(o, r)
  BY <1>1 DEF RecordIsTrue
<1>4. Recorded(r) /\ NextAfter(r, n)
  <2>1. PICK s \in Version \cup {0} : Recorded(s) /\ NextAfter(s, n)
    BY DEF ScriptBegins, FitFor
  <2> QED
    BY <1>3, <2>1, RecordedUnique DEF SafeInv, SharedInv
<1>5. \A o \in Managed : IF o \notin Touches(n) THEN AsOf(o, n) ELSE AsOf(o, r)
  BY <1>3, <1>4, AsOfUntouched
<1>6. LoneAt(r)'
  BY <1>1, <1>2, <1>4, <1>5 DEF LoneAt, Recorded, AsOf
<1>7. Quiet
  BY <1>1
<1> QED
  BY <1>1, <1>2, <1>6, <1>7 DEF LoneInv, LoneAt, Quiet, Settled

LEMMA LoneCreates ==
  ASSUME SafeInv, LoneInv, NEW o \in Object, ScriptCreates(o)
  PROVE  LoneInv'
<1>0. script.step # "none" /\ script.step = "sql" /\ o \in script.left
  BY DEF ScriptCreates
<1>1. Executing
  BY <1>0, StepsAreOfAScript
<1>2. script \in Script
  BY <1>1, ScriptFields DEF SafeInv
<1>3. /\ script'.at = script.at /\ script'.left = script.left \ {o} /\ script'.step = "sql"
      /\ script'.lone = script.lone
  BY <1>0, <1>2 DEF ScriptCreates, Script
<1> SUFFICES ASSUME script.lone PROVE LoneInv'
  BY <1>3 DEF LoneInv
<1> PICK w \in Version, c \in Version \cup {0} : w = script.at /\ LoneAt(c)
  BY <1>1, LoneFacts
<1>4. /\ script.left \subseteq Touches(w) /\ orphans = {} /\ \A p \in Migrator : pc[p] = "idle"
      /\ \A q \in Object : Settled(q)
  BY <1>0, <1>1, LoneFacts
<1>5. o \in Managed /\ o \in Touches(w) /\ AsOf(o, c) /\ NextAfter(c, w) /\ Recorded(c)
  BY <1>0, <1>4, TouchesManaged DEF LoneAt
<1>6. /\ stat' = [stat EXCEPT ![o] = IF o \in Drops[w] THEN "absent"
                                     ELSE IF @ = "absent" THEN "valid" ELSE @]
      /\ def' = [def EXCEPT ![o] = IF o \in Drops[w] THEN 0
                                   ELSE IF stat[o] = "absent" THEN w ELSE @]
      /\ rows' = rows /\ owner' = owner /\ orphans' = orphans /\ pc' = pc
  BY DEF ScriptCreates, local
<1>7. stat \in [Object -> Status] /\ def \in [Object -> Version \cup {0}]
  BY DEF SafeInv, STypeOK, TypeOK
<1>8. AsOf(o, w)' /\ Settled(o)'
  BY <1>5, <1>6, <1>7, AsOfTouched DEF AsOf, Settled, InFlight
<1>9. \A q \in Object : q # o => stat'[q] = stat[q] /\ def'[q] = def[q]
  BY <1>6, <1>7
<1>10. \A q \in Object : Settled(q)'
  BY <1>4, <1>8, <1>9 DEF Settled
<1>11. ASSUME NEW q \in Managed
       PROVE  IF q \notin script'.left THEN AsOf(q, w)' ELSE AsOf(q, c)'
  <2>1. q \in Object
    BY DEF Managed
  <2>2. q # o => (AsOf(q, w)' <=> AsOf(q, w)) /\ (AsOf(q, c)' <=> AsOf(q, c))
    BY <1>9, <2>1 DEF AsOf
  <2>3. IF q \notin script.left THEN AsOf(q, w) ELSE AsOf(q, c)
    BY <1>0 DEF LoneAt
  <2> QED
    BY <1>3, <1>8, <2>2, <2>3
<1>12. LoneAt(c)'
  BY <1>3, <1>5, <1>6, <1>11 DEF LoneAt, Recorded
<1> QED
  BY <1>4, <1>6, <1>10, <1>12 DEF LoneInv, LoneAt

LEMMA LoneIndexes ==
  ASSUME SafeInv, LoneInv, ScriptIndexes
  PROVE  LoneInv'
<1>0. script.step # "none" /\ script.step = "sql" /\ script.at \in Online
  BY DEF ScriptIndexes
<1>1. Executing
  BY <1>0, StepsAreOfAScript
<1>2. script \in Script
  BY <1>1, ScriptFields DEF SafeInv
<1>3. script'.at = script.at /\ script'.lone = script.lone
  BY <1>2 DEF ScriptIndexes, Script
<1> SUFFICES ASSUME script.lone PROVE LoneInv'
  BY <1>3 DEF LoneInv
<1> PICK w \in Version, c \in Version \cup {0} : w = script.at /\ LoneAt(c)
  BY <1>1, LoneFacts
<1>4. /\ script.left \subseteq Touches(w) /\ orphans = {} /\ \A p \in Migrator : pc[p] = "idle"
      /\ \A q \in Object : Settled(q)
  BY <1>0, <1>1, LoneFacts
<1> PICK o \in script.left :
       /\ \/ /\ StartStatement(o, IF o \in Adds[w] THEN w ELSE 0, {})
             /\ script' = [script EXCEPT !.step = "wait"]
          \/ /\ NoOp(o, IF o \in Adds[w] THEN w ELSE 0)
             /\ script' = [script EXCEPT !.step = "record", !.left = {}]
             /\ UNCHANGED catalog
       /\ UNCHANGED <<rows, orphans, local, renderings>>
  BY DEF ScriptIndexes
<1>5. /\ o \in Managed /\ o \in Object /\ o \in Touches(w)
      /\ AsOf(o, c) /\ NextAfter(c, w) /\ Recorded(c)
  BY <1>0, <1>4, TouchesManaged DEF LoneAt
<1>6. \A q \in script.left : q = o
  BY <1>0, <1>4, OneOnlineTarget
<1>7. rows' = rows /\ orphans' = orphans /\ pc' = pc
  BY DEF local
<1>8. stat \in [Object -> Status] /\ def \in [Object -> Version \cup {0}]
      /\ owner \in [Object -> SUBSET Migrator] /\ TypeOK
  BY DEF SafeInv, STypeOK, TypeOK
<1>9. \A q \in Managed : q # o => AsOf(q, w)
  BY <1>6 DEF LoneAt
<1>10. ASSUME StartStatement(o, IF o \in Adds[w] THEN w ELSE 0, {}),
              script' = [script EXCEPT !.step = "wait"]
       PROVE  LoneInv'
  <2>1. script'.left = script.left /\ script'.step = "wait"
    BY <1>2, <1>10 DEF Script
  <2>2. \A q \in Object : q # o => stat'[q] = stat[q] /\ def'[q] = def[q] /\ owner'[q] = owner[q]
    BY <1>5, <1>8, <1>10, StartFrame
  <2>3. AtWork(o)'
    BY <1>3, <1>5, <1>8, <1>10, AsOfTouched DEF AtWork, StartStatement
  <2>4. \A q \in Managed : q # o => AsOf(q, w)'
    BY <1>9, <2>2 DEF AsOf, Managed
  <2>5. LoneAt(c)'
    BY <1>3, <1>5, <1>6, <1>7, <2>1, <2>3, <2>4 DEF LoneAt, Recorded
  <2>6. \A q \in Object : Settled(q)' \/ q \in script'.left
    BY <1>4, <2>1, <2>2 DEF Settled
  <2> QED
    BY <1>4, <1>7, <2>1, <2>5, <2>6 DEF LoneInv, LoneAt
<1>11. ASSUME NoOp(o, IF o \in Adds[w] THEN w ELSE 0),
              script' = [script EXCEPT !.step = "record", !.left = {}], UNCHANGED catalog
       PROVE  LoneInv'
  <2>1. script'.left = {} /\ script'.step = "record"
    BY <1>2, <1>11 DEF Script
  <2>2. stat' = stat /\ def' = def /\ owner' = owner
    BY <1>11 DEF catalog
  <2>3. AsOf(o, w)
    BY <1>5, <1>11, AsOfTouched DEF NoOp, AsOf
  <2>4. \A q \in Managed : AsOf(q, w)'
    BY <1>9, <2>2, <2>3 DEF AsOf
  <2>5. LoneAt(c)'
    BY <1>3, <1>5, <1>7, <2>1, <2>4 DEF LoneAt, Recorded
  <2>6. \A q \in Object : Settled(q)'
    BY <1>4, <2>2 DEF Settled
  <2> QED
    BY <1>4, <1>7, <2>5, <2>6 DEF LoneInv, LoneAt
<1> QED
  BY <1>10, <1>11

(* Alone, a script leaves the row of the version that it records, and what *)
(* it records is so.                                                       *)
LEMMA LoneRow ==
  ASSUME SafeInv, LoneInv, ScriptRecords, script.lone
  PROVE  \E w \in Version : w = script.at /\ rows' = {w} /\ \A o \in Managed : AsOf(o, w)'
<1>0. script.step # "none" /\ script.step = "record"
  BY DEF ScriptRecords
<1>1. Executing
  BY <1>0, StepsAreOfAScript
<1> PICK w \in Version, c \in Version \cup {0} : w = script.at /\ LoneAt(c)
  BY <1>1, LoneFacts
<1>2. script.left = {} /\ script.from <= w /\ script.from \in Version /\ script.from \in Nat
  BY <1>0, <1>1, ScriptFields DEF SafeInv, ScriptInv
<1>3. NextAfter(c, w) /\ Recorded(c) /\ \A o \in Managed : AsOf(o, w)
  BY <1>2 DEF LoneAt
<1>4. 0 \notin Version /\ c \in Nat /\ w \in Nat /\ rows \subseteq Version
  BY VersionAssumption DEF SafeInv, STypeOK, TypeOK
<1>5. rows' = {w}
  <2>1. CASE rows = {}
    <3>1. c = 0
      BY <1>3, <2>1 DEF Recorded
    <3>2. w <= script.from
      BY <1>2, <1>3, <1>4, <3>1 DEF NextAfter
    <3>3. w = script.from /\ NextAfter(0, w)
      BY <1>2, <1>3, <1>4, <3>1, <3>2
    <3>4. rows' = rows \cup {w}
      BY <3>3 DEF ScriptRecords
    <3> QED
      BY <2>1, <3>4
  <2>2. CASE rows # {}
    <3>1. c \in Version /\ c < w
      BY <1>3, <1>4, <2>2 DEF Recorded, NextAfter
    <3>2. ~NextAfter(0, w)
      BY <1>4, <3>1 DEF NextAfter
    <3>3. rows' = {w : r \in rows}
      BY <3>2 DEF ScriptRecords
    <3> QED
      BY <2>2, <3>3
  <2> QED
    BY <2>1, <2>2
<1>6. stat' = stat /\ def' = def
  BY DEF ScriptRecords, catalog
<1>7. \A o \in Managed : AsOf(o, w)'
  BY <1>3, <1>6 DEF AsOf
<1> QED
  BY <1>5, <1>7

LEMMA LoneRecords ==
  ASSUME SafeInv, LoneInv, ScriptRecords
  PROVE  LoneInv'
<1>0. script.step # "none" /\ script.step = "record"
  BY DEF ScriptRecords
<1>1. Executing /\ script \in Script
  BY <1>0, StepsAreOfAScript, ScriptFields DEF SafeInv
<1> PICK w \in Version : w = script.at
  BY <1>1, ScriptFields DEF SafeInv
<1>2. ASSUME NEW n \in Version, NextAfter(w, n),
             script' = [script EXCEPT !.at = n, !.left = Touches(n), !.step = "sql"]
      PROVE  LoneInv'
  <2>1. /\ script'.at = n /\ script'.left = Touches(n) /\ script'.step = "sql"
        /\ script'.lone = script.lone
    BY <1>1, <1>2 DEF Script
  <2> SUFFICES ASSUME script.lone PROVE LoneInv'
    BY <2>1 DEF LoneInv
  <2>2. /\ orphans = {} /\ (\A p \in Migrator : pc[p] = "idle")
        /\ \A o \in Object : Settled(o)
    BY <1>0, <1>1, LoneFacts
  <2>3. stat' = stat /\ def' = def /\ orphans' = orphans /\ pc' = pc
    BY DEF ScriptRecords, catalog, local
  <2>4. rows' = {w} /\ \A o \in Managed : AsOf(o, w)'
    BY LoneRow
  <2>5. \A o \in Managed : AsOf(o, w)
    BY <2>3, <2>4 DEF AsOf
  <2>6. \A o \in Managed : o \notin Touches(n) => AsOf(o, n)
    BY <1>2, <2>5, AsOfUntouched
  <2>7. LoneAt(w)'
    BY <1>2, <2>1, <2>3, <2>4, <2>6 DEF LoneAt, Recorded, AsOf
  <2>8. \A o \in Object : Settled(o)'
    BY <2>2, <2>3 DEF Settled
  <2> QED
    BY <2>2, <2>3, <2>7, <2>8 DEF LoneInv, LoneAt
<1>3. script' = NoScript => LoneInv'
  BY DEF LoneInv, Executing
<1> QED
  BY <1>2, <1>3 DEF ScriptRecords, GoesOn

LEMMA LoneServer ==
  ASSUME SafeInv, LoneInv, NEW o \in Object, SServer(o), ~erred'
  PROVE  LoneInv'
<1>1. Notices(o) /\ (Complete(o) \/ Abort(o))
  BY DEF SServer
<1> SUFFICES ASSUME Executing', script'.lone PROVE LoneInv'
  BY DEF LoneInv
<1>2. Executing /\ (script \in Script)
  BY <1>1, ScriptFields DEF SafeInv, Notices, WaitsFor, Executing
<1>3. script.lone
  BY <1>1, <1>2 DEF Notices, WaitsFor, Executing, Script
<1> PICK w \in Version, c \in Version \cup {0} : w = script.at /\ LoneAt(c)
  BY <1>2, <1>3, LoneFacts
<1>4. /\ script.left \subseteq Touches(w) /\ orphans = {} /\ \A p \in Migrator : pc[p] = "idle"
      /\ \A q \in Object : Settled(q) \/ (script.step = "wait" /\ q \in script.left)
  BY <1>2, <1>3, LoneFacts
<1>5. stat[o] \in InFlight
  BY <1>1 DEF Complete, Abort
<1>6. script.step = "wait" /\ o \in script.left /\ w \in Online
  BY <1>2, <1>4, <1>5 DEF Settled, SafeInv, ScriptInv
<1>7. \A q \in script.left : q = o
  BY <1>4, <1>6, OneOnlineTarget
<1>8. o \in Managed /\ o \in Touches(w) /\ AtWork(o) /\ NextAfter(c, w) /\ Recorded(c)
  BY <1>4, <1>6, TouchesManaged DEF LoneAt
<1>9. /\ stat \in [Object -> Status] /\ def \in [Object -> Version \cup {0}]
      /\ owner \in [Object -> SUBSET Migrator]
      /\ pc \in [Migrator -> Place]
  BY DEF SafeInv, STypeOK, TypeOK
<1>10. ~Abort(o) /\ Complete(o)
  <2>1. Abort(o) => stat'[o] = "invalid"
    BY <1>9 DEF Abort
  <2>2. stat'[o] # "invalid"
    BY <1>1, <1>2, <1>6 DEF Notices, WaitsFor
  <2> QED
    BY <1>1, <2>1, <2>2
<1>11. script'.at = w /\ script'.step = "record" /\ script'.left = {}
  BY <1>1, <1>2, <1>6 DEF Notices, WaitsFor, Executing, Script
<1>12. \A q \in Object : q # o => stat'[q] = stat[q] /\ def'[q] = def[q]
  BY <1>9, <1>10 DEF Complete
<1>13. /\ stat'[o] = IF stat[o] = "building" THEN "valid" ELSE "absent"
       /\ def'[o] = IF stat[o] = "building" THEN def[o] ELSE 0
       /\ rows' = rows /\ orphans' = orphans
  BY <1>9, <1>10 DEF Complete
<1>14. AsOf(o, w)' /\ Settled(o)'
  <2>1. CASE o \in Adds[w]
    BY <1>8, <1>13, <2>1, AsOfTouched DEF AsOf, AtWork, Settled, InFlight
  <2>2. CASE o \notin Adds[w]
    BY <1>8, <1>13, <2>2, AsOfTouched DEF AsOf, AtWork, Settled, InFlight
  <2> QED
    BY <2>1, <2>2
<1>15. \A p \in Migrator : pc'[p] = "idle"
  BY <1>4, <1>8, <1>10 DEF Complete, AtWork
<1>16. \A q \in Object : Settled(q)'
  BY <1>4, <1>7, <1>12, <1>14 DEF Settled
<1>17. ASSUME NEW q \in Managed, q # o PROVE AsOf(q, w)'
  <2>1. q \in Object /\ q \notin script.left
    BY <1>7, <1>17 DEF Managed
  <2>2. AsOf(q, w)
    BY <2>1 DEF LoneAt
  <2> QED
    BY <1>12, <1>17, <2>1, <2>2 DEF AsOf
<1>18. LoneAt(c)'
  BY <1>8, <1>11, <1>13, <1>14, <1>17 DEF LoneAt, Recorded
<1> QED
  BY <1>4, <1>13, <1>15, <1>16, <1>18 DEF LoneInv, LoneAt

LEMMA LoneStep == SafeInv /\ LoneInv /\ [SNext]_psqlVars /\ ~erred' => LoneInv'
<1> SUFFICES ASSUME SafeInv, LoneInv, [SNext]_psqlVars, ~erred' PROVE LoneInv'
  OBVIOUS
<1>1. CASE ScriptCreated
  <2>1. /\ script.step # "none" /\ script.step = "sql" /\ script.left = {} /\ UNCHANGED vars
        /\ script' = [script EXCEPT !.step = "record"]
    BY <1>1 DEF ScriptCreated
  <2>2. Executing
    BY <2>1, StepsAreOfAScript
  <2>3. script \in Script
    BY <2>2, ScriptFields DEF SafeInv
  <2>4. /\ script'.at = script.at /\ script'.left = {} /\ script'.step = "record"
        /\ script'.lone = script.lone
    BY <2>1, <2>3 DEF Script
  <2> QED
    BY <2>1, <2>2, <2>4 DEF LoneInv, vars, Settled, Recorded, AsOf
<1>2. CASE ScriptStops
  BY <1>2 DEF ScriptStops, LoneInv, Executing
<1>3. CASE Disturbed
  <2>1. Executing => script \in Script
    BY ScriptFields DEF SafeInv
  <2>2. CASE Executing
    <3>1. script'.lone = FALSE
      BY <1>3, <2>1, <2>2 DEF Disturbed, Script
    <3> QED
      BY <3>1 DEF LoneInv
  <2>3. CASE ~Executing
    BY <1>3, <2>3 DEF Disturbed, LoneInv, Executing
  <2> QED
    BY <2>2, <2>3
<1>4. CASE UNCHANGED scriptVars
  BY <1>4 DEF scriptVars, allVars, vars, LoneInv, Executing, Settled, Recorded, AsOf, AtWork
<1> QED
  BY <1>1, <1>2, <1>3, <1>4, WhoseStep, LoneBegins, LoneCreates, LoneIndexes, LoneRecords,
     LoneServer
  DEF ScriptSteps

(* Where no migrator is under way, none of their steps writes the record.  *)
LEMMA IdleRecord ==
  ASSUME [Next]_vars, \A p \in Migrator : pc[p] = "idle"
  PROVE  rows' = rows
<1>1. ASSUME NEW p \in Migrator, Advance(p) \/ Stop(p) PROVE rows' = rows
  BY <1>1 DEF Advance, Stop, ShouldMigrate, Setup, CleanupDone, Finish, ApplyCatalog, ListInvalid,
              ExecOnline, RecordOnline, DropListed
<1>2. ASSUME NEW o \in Object, Complete(o) \/ Abort(o) \/ ForeignBuild(o) PROVE rows' = rows
  BY <1>2 DEF Complete, Abort, ForeignBuild
<1>3. CASE (\E s \in orphans : StartOrphan(s)) \/ UNCHANGED vars
  BY <1>3 DEF StartOrphan, vars
<1> QED
  BY <1>1, <1>2, <1>3 DEF Next

(* A script that begins on a true record and stays alone only ever records *)
(* what is so, whatever the list of migrations and wherever it is cut, as  *)
(* long as no statement of a script has failed and been passed over.       *)
THEOREM LoneScriptsTellTheTruth == SSpec => FaultlessScriptRecords
<1>1. SInit => LoneInv
  BY DEF SInit, LoneInv, Executing
<1>2. ASSUME SafeInv, LoneInv, [SNext]_psqlVars, ~erred, Executing, script.lone,
             script.step = "record", rows' # rows
      PROVE  \A r \in rows' : \A o \in Managed : AsOf(o, r)'
  <2>1. CASE ScriptRecords
    BY <1>2, <2>1, LoneRow
  <2>2. CASE [RNext]_allVars
    BY <1>2, <2>2, LoneFacts, IdleRecord, StepIsTheRunners
  <2>3. ScriptSteps => ScriptRecords \/ rows' = rows
    BY DEF ScriptSteps, ScriptBegins, ScriptCreates, ScriptCreated, ScriptIndexes, ScriptStops,
           allVars, vars
  <2>4. ScriptErrs \/ UNCHANGED psqlVars => [RNext]_allVars
    BY DEF ScriptErrs, psqlVars, scriptVars
  <2> QED
    BY <1>2, <2>1, <2>2, <2>3, <2>4, OthersRender, ServerRenders DEF SNext
<1>3. (erred \/ SafeInv) /\ (erred \/ LoneInv) /\ [SNext]_psqlVars => [~erred => RecordsSo]_psqlVars
  BY <1>2 DEF RecordsSo
<1>4. (erred \/ SafeInv) /\ (erred \/ LoneInv) /\ [SNext]_psqlVars => (erred \/ LoneInv)'
  BY LoneStep, WhoseStep
<1> QED
  BY <1>1, <1>3, <1>4, SafeAlways, PTL DEF SSpec, FaultlessScriptRecords
=============================================================================
