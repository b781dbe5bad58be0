------------------------------ MODULE Renderings ------------------------------
(***************************************************************************)
(* MigrationRunner where BuildMigrations (internal/migrations/             *)
(* migrations.go) does not render the same list for every run: the         *)
(* operator passes --no-listen-notify or does not, and may think again     *)
(* between two runs. And where databases differ at the same version: those *)
(* of old SDKs lack a key of the notifications table, which migration 10   *)
(* adds.                                                                   *)
(*                                                                         *)
(* A trigger and its function come and go together and share a name.       *)
(***************************************************************************)
EXTENDS MigrationRunner

CONSTANT MayTurn   \* the answers --no-listen-notify may change to

ASSUME TurnAssumption == MayTurn \subseteq BOOLEAN

VARIABLES
  listen,    \* whether the operator wants LISTEN/NOTIFY
  flag,      \* flag[p]: what the run of p was told
  extra      \* the triggers and the key that the database has

renderings == <<listen, flag, extra>>
allVars    == <<vars, renderings>>

Key == "notifications_pkey"
EventTriggers == {"notifications_trigger", "workflow_events_trigger"}
Extra == {Key, "streams_trigger"} \cup EventTriggers

Makes(v, on) ==
  CASE v = 1  -> {Key} \cup (IF on THEN EventTriggers ELSE {})
    [] v = 10 -> {Key}
    [] v = 39 -> IF on THEN {"streams_trigger"} ELSE {}
    [] OTHER  -> {}

(* Mutant: the drops are left out where the triggers are.                  *)
RemovesIfOn(v, on) ==
  CASE v = 43 /\ on -> {"streams_trigger"}
    [] v = 44 /\ on -> {"workflow_events_trigger"}
    [] OTHER  -> {}

(* 43 and 44 are rendered whatever the flag says.                          *)
Removes(v, on) ==
  CASE v = 43 -> {"streams_trigger"}
    [] v = 44 -> {"workflow_events_trigger"}
    [] OTHER  -> {}

(* Mutant: migration 20 pins what may not be there.                        *)
PinsAlways(v, on) == IF v = 20 THEN EventTriggers ELSE {}

(* What migration v pins the search_path of, and so must find.             *)
Pins(v, on) == IF v = 20 /\ on THEN EventTriggers ELSE {}

(* What runs that were all told `on' have left at version v.               *)
LeftAt(v, on) ==
  {x \in Extra : \E w \in Version : /\ w <= v /\ x \in Makes(w, on)
                                    /\ \A u \in Version : w < u /\ u <= v => x \notin Removes(u, on)}

Runs(v, on) == extra' = (extra \cup Makes(v, on)) \ Removes(v, on)

RTypeOK == listen \in BOOLEAN /\ flag \in [Migrator -> BOOLEAN] /\ extra \subseteq Extra

RInit ==
  /\ Init
  /\ listen \in BOOLEAN
  /\ flag = [p \in Migrator |-> listen]
  /\ \E r \in Version \cup {0} :
       /\ Recorded(r)
       /\ \/ extra = LeftAt(r, listen)
          \/ r < 10 /\ extra = LeftAt(r, listen) \ {Key}
-----------------------------------------------------------------------------
(* A run begins with the operator's answer.                                *)
RBegin(p) == ShouldMigrate(p) /\ flag' = [flag EXCEPT ![p] = listen] /\ UNCHANGED <<listen, extra>>

(* ALTER FUNCTION fails where there is no such function, and takes the     *)
(* migration with it.                                                      *)
RApply(p, v) ==
  /\ Pins(v, flag[p]) \subseteq extra
  /\ ApplyCatalog(p, v)
  /\ Runs(v, flag[p])
  /\ UNCHANGED <<listen, flag>>

(* The operator thinks again, between two runs.                            *)
Turn ==
  /\ \A p \in Migrator : pc[p] = "idle"
  /\ listen' \in MayTurn \ {listen}
  /\ UNCHANGED <<vars, flag, extra>>

(* Steps that are the same for every rendering.                            *)
Else(p) ==
  /\ \/ Setup(p) \/ CleanupDone(p) \/ Finish(p)
     \/ \E v \in Version : ListInvalid(p, v) \/ ExecOnline(p, v) \/ RecordOnline(p, v)
     \/ \E o \in Object : DropListed(p, o)
  /\ UNCHANGED renderings

Server ==
  /\ \/ \E p \in Migrator : Stop(p)
     \/ \E o \in Object : Complete(o) \/ Abort(o) \/ ForeignBuild(o)
     \/ \E s \in orphans : StartOrphan(s)
  /\ UNCHANGED renderings

RAdvance(p) == RBegin(p) \/ (\E v \in Version : RApply(p, v)) \/ Else(p)

RNext == (\E p \in Migrator : RAdvance(p)) \/ Turn \/ Server

RSpec == RInit /\ [][RNext]_allVars

RFairSpec ==
  /\ RSpec
  /\ \A p \in Migrator : WF_allVars(RAdvance(p))
  /\ \A o \in Object : WF_allVars(Complete(o) /\ UNCHANGED renderings)
  /\ \A s \in Statement : WF_allVars(StartOrphan(s) /\ UNCHANGED renderings)
-----------------------------------------------------------------------------
(* What migrations 43 and 44 exist to remove is gone from every database   *)
(* past them, whichever runs were told to leave LISTEN/NOTIFY out (the     *)
(* comment on them in BuildMigrations).                                    *)
TriggersGone ==
  \A r \in rows : /\ r >= 43 => "streams_trigger" \notin extra
                  /\ r >= 44 => "workflow_events_trigger" \notin extra

(* Past migration 10 every database has the key, also those that did not   *)
(* get it from migration 1.                                                *)
KeyPresent == \A r \in rows : r >= 10 => Key \in extra

(* A run that comes to migration 20 finds the functions it is to pin: the  *)
(* statements are appended only where the block that makes them ran        *)
(* (BuildMigrations on migration 20).                                      *)
PinsWhatExists ==
  \A p \in Migrator : \A v \in Version :
    pc[p] = "loop" /\ NextAfter(cur[p], v) => Pins(v, flag[p]) \subseteq extra
=============================================================================
