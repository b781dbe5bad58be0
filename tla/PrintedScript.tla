---------------------------- MODULE PrintedScript ----------------------------
(***************************************************************************)
(* The script of `migrate --print-migrations N' (internal/cli/migrate.go,  *)
(* internal/migrations/statements.go), executed by psql beside the runs    *)
(* that Renderings models. It has no transactions: every statement commits *)
(* by itself, and so does the one that records a version. Plain psql, as   *)
(* the script's header has it, goes on after a statement that failed.      *)
(***************************************************************************)
EXTENDS Renderings

VARIABLES
  script,   \* where psql is in the script, or NoScript
  erred     \* whether a script has ever gone on after an error (history)

scriptVars == <<allVars, script>>
psqlVars   == <<scriptVars, erred>>

Script == [from : Version,   \* the N of --print-migrations; `all' is 1
           at   : Version,   \* the migration it is at
           left : SUBSET Object,   \* what of that migration is still to do
           step : {"sql", "wait", "record"},
           on   : BOOLEAN,   \* whether it was printed for LISTEN/NOTIFY
           lone : BOOLEAN]   \* it began on a true record, and alone (history)
NoScript == [step |-> "none"]
Executing == script # NoScript

SInit == RInit /\ script = NoScript /\ erred = FALSE

Touches(v) == Adds[v] \cup Drops[v]
-----------------------------------------------------------------------------
(* What the script's header and --print-migrations ask for: `all' for a    *)
(* fresh database, N for one that the migrations below N have made.        *)
FitFor(n) ==
  /\ \E r \in Version \cup {0} : Recorded(r) /\ NextAfter(r, n)
  /\ NextAfter(0, n) => (\A o \in Managed : stat[o] = "absent") /\ extra = {}

RecordIsTrue ==
  \E r \in Version \cup {0} : Recorded(r) /\ \A o \in Managed : AsOf(o, r)

(* Mutant: the script begins after migration N instead of with it.         *)
ScriptBeginsAfter(n) ==
  /\ ~Executing /\ FitFor(n)
  /\ \E m \in Version : /\ NextAfter(n, m)
                       /\ script' = [from |-> n, at |-> m, left |-> Touches(m), step |-> "sql",
                                     on |-> listen, lone |-> Quiet /\ RecordIsTrue]
  /\ UNCHANGED allVars

(* An administrator executes a script, printed with an answer of theirs.   *)
ScriptBegins(n) ==
  /\ ~Executing /\ FitFor(n)
  /\ script' = [from |-> n, at |-> n, left |-> Touches(n), step |-> "sql", on |-> listen,
                lone |-> Quiet /\ RecordIsTrue]
  /\ UNCHANGED allVars

(* A statement of a catalog migration.                                     *)
ScriptCreates(o) ==
  /\ script.step = "sql" /\ o \in script.left /\ script.at \notin Online
  /\ LET v == script.at IN
     /\ Settled(o)
     /\ v \in Strict /\ o \in Adds[v] => stat[o] = "absent"
     /\ stat' = [stat EXCEPT ![o] = IF o \in Drops[v] THEN "absent"
                                    ELSE IF @ = "absent" THEN "valid" ELSE @]
     /\ def' = [def EXCEPT ![o] = IF o \in Drops[v] THEN 0
                                  ELSE IF stat[o] = "absent" THEN v ELSE @]
  /\ script' = [script EXCEPT !.left = @ \ {o}]
  /\ UNCHANGED <<rows, owner, orphans, local, renderings>>

(* Mutant: migration 10 is skipped wherever the script begins.             *)
ScriptRunsNoTen(v) ==
  IF v = 10 THEN UNCHANGED extra ELSE Runs(v, script.on)

(* migration10Statements: skipped in a script for a fresh database.        *)
ScriptRuns(v) ==
  IF v = 10 /\ NextAfter(0, script.from) THEN UNCHANGED extra ELSE Runs(v, script.on)

ScriptCreated ==
  /\ script.step = "sql" /\ script.left = {} /\ script.at \notin Online
  /\ Pins(script.at, script.on) \subseteq extra
  /\ ScriptRuns(script.at)
  /\ script' = [script EXCEPT !.step = "record"]
  /\ UNCHANGED <<vars, listen, flag>>

(* The CREATE or DROP INDEX CONCURRENTLY of an online migration.           *)
ScriptIndexes ==
  /\ script.step = "sql" /\ script.at \in Online
  /\ \E o \in script.left :
       LET d == IF o \in Adds[script.at] THEN script.at ELSE 0 IN
       /\ NoneAhead(o)
       /\ \/ StartStatement(o, d, {}) /\ script' = [script EXCEPT !.step = "wait"]
          \/ /\ Settled(o) /\ NoOp(o, d)
             /\ script' = [script EXCEPT !.step = "record", !.left = {}]
             /\ UNCHANGED catalog
  /\ UNCHANGED <<rows, orphans, local, renderings>>

(* Past migration v: on to the next one, or the script is over.            *)
GoesOn(v) ==
  \/ ~Pending(v) /\ script' = NoScript
  \/ \E n \in Version :
       /\ NextAfter(v, n)
       /\ script' = [script EXCEPT !.at = n, !.left = Touches(n), !.step = "sql"]

(* The version's bookkeeping: INSERT once, in a script from 1; UPDATE      *)
(* otherwise, which may find no row.                                       *)
ScriptRecords ==
  /\ script.step = "record"
  /\ LET v == script.at IN
     /\ IF v = script.from /\ NextAfter(0, v)
          THEN v \notin rows /\ rows' = rows \cup {v}
          ELSE /\ \A r, s \in rows : r = s
               /\ rows' = {v : r \in rows}
     /\ GoesOn(v)
  /\ UNCHANGED <<catalog, orphans, local, renderings>>

(* A statement fails, and psql goes on with the next one: one of a catalog *)
(* migration, with what it makes; one that never got its index lock; the   *)
(* version's bookkeeping.                                                  *)
ScriptErrs ==
  /\ Executing /\ erred' = TRUE
  /\ \/ /\ script.step = "sql" /\ script.at \notin Online
        /\ \/ \E o \in script.left : script' = [script EXCEPT !.left = @ \ {o}]
           \/ script.left = {} /\ script' = [script EXCEPT !.step = "record"]
     \/ /\ script.step = "sql" /\ script.at \in Online
        /\ script' = [script EXCEPT !.step = "record", !.left = {}]
     \/ script.step = "record" /\ GoesOn(script.at)
  /\ UNCHANGED allVars

(* The administrator, a lost connection, or an error where psql was told   *)
(* ON_ERROR_STOP, ends it; the statement it waits for goes on without it.  *)
ScriptStops ==
  /\ Executing /\ script' = NoScript
  /\ \/ UNCHANGED orphans
     \/ /\ Lingering /\ script.step = "sql" /\ script.at \in Online
        /\ \E o \in script.left :
             orphans' = orphans \cup {<<o, IF o \in Adds[script.at] THEN script.at ELSE 0>>}
  /\ UNCHANGED <<rows, catalog, local, renderings>>

(* psql learns how the index statement it sent has ended, and goes on      *)
(* whichever way it was.                                                   *)
WaitsFor(o) == Executing /\ script.step = "wait" /\ o \in script.left

Notices(o) ==
  /\ script' = IF WaitsFor(o) THEN [script EXCEPT !.step = "record", !.left = {}] ELSE script
  /\ erred' = (erred \/ (WaitsFor(o) /\ stat'[o] = "invalid"))

SServer(o) == (Complete(o) \/ Abort(o)) /\ Notices(o) /\ UNCHANGED renderings

(* A step of anybody else: the script is not alone any more.               *)
Disturbed == script' = IF Executing THEN [script EXCEPT !.lone = FALSE] ELSE script

Others ==
  /\ \/ \E p \in Migrator : RAdvance(p) \/ (Stop(p) /\ UNCHANGED renderings)
     \/ Turn
     \/ \E o \in Object : ForeignBuild(o) /\ UNCHANGED renderings
     \/ \E s \in orphans : StartOrphan(s) /\ UNCHANGED renderings
  /\ Disturbed

ScriptSteps ==
  \/ \E n \in Version : ScriptBegins(n)
  \/ \E o \in Object : ScriptCreates(o)
  \/ ScriptCreated \/ ScriptIndexes \/ ScriptRecords \/ ScriptStops

SNext ==
  \/ (ScriptSteps \/ Others) /\ UNCHANGED erred
  \/ \E o \in Object : SServer(o)
  \/ ScriptErrs

SSpec == SInit /\ [][SNext]_psqlVars
-----------------------------------------------------------------------------
(* Beside racing runs, as long as no statement of a script has failed and  *)
(* been passed over: one version row, the tables that it stands for, and   *)
(* the key that a script from 1 leaves to migration 1 (Statements).        *)
RowUnlessErred    == erred \/ OneVersionRow
TablesUnlessErred == erred \/ RecordedTablesPresent
KeyUnlessErred    == erred \/ KeyPresent

(* A script does what a run would have done (Statements mirrors the        *)
(* runner): begun on a database whose record is true, and with nothing     *)
(* else at work, each version that it records is the truth about the whole *)
(* schema.                                                                 *)
RecordsSo ==
  Executing /\ script.lone /\ script.step = "record" /\ rows' # rows =>
    \A r \in rows' : \A o \in Managed : AsOf(o, r)'

LoneScriptRecords == [][RecordsSo]_psqlVars

(* That is so while no statement of a script has failed.                   *)
FaultlessScriptRecords == [][~erred => RecordsSo]_psqlVars

(* What the proofs rest on. Whatever a script has come past is there, as   *)
(* it is for a run; one that is to INSERT the version has made a table     *)
(* that migration 1 of no run accepts.                                     *)
ScriptTypeOK == script \in Script \cup {NoScript}

Past(v, o) == v < script.at \/ (v = script.at /\ o \notin script.left)

ScriptInv ==
  Executing =>
    /\ script.from <= script.at
    /\ script.left \subseteq Touches(script.at)
    /\ script.step = "record" => script.left = {}
    /\ script.step = "wait" => script.at \in Online
    /\ \A v \in Version \ Online : \A o \in Adds[v] :
         OnlyBy(o, v) /\ Past(v, o) => stat[o] = "valid"
    /\ NextAfter(0, script.at) =>
         \A o \in Adds[script.at] \ script.left : OnlyBy(o, script.at) => rows = {}

(* The key, for which a script from 1 needs no migration 10.               *)
Behind(v) == script.at > v \/ (script.at = v /\ script.step = "record")

ScriptKeyInv ==
  Executing /\ (Behind(10) \/ (script.from = 1 /\ Behind(1))) => Key \in extra

(* What a lone script has done of the migration it is at: every object is  *)
(* as the version before has it, or as this one has it, or its own         *)
(* statement is at work on it.                                             *)
AtWork(o) ==
  /\ owner[o] = {}
  /\ IF o \in Adds[script.at] THEN stat[o] = "building" /\ def[o] = script.at
                              ELSE stat[o] = "dropping"

LoneInv ==
  Executing /\ script.lone =>
    /\ orphans = {} /\ \A p \in Migrator : pc[p] = "idle"
    /\ \A o \in Object : Settled(o) \/ (script.step = "wait" /\ o \in script.left)
    /\ \E c \in Version \cup {0} :
         /\ NextAfter(c, script.at) /\ Recorded(c)
         /\ \A o \in Managed : IF o \notin script.left THEN AsOf(o, script.at)
                               ELSE IF script.step = "wait" THEN AtWork(o) ELSE AsOf(o, c)
=============================================================================
