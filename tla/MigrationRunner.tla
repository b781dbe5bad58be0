--------------------------- MODULE MigrationRunner ---------------------------
(***************************************************************************)
(* `dbosctl sysdb migrate' against one PostgreSQL system database: the     *)
(* runner of internal/migrations/runner.go, run by any number of           *)
(* migrators (the command, and the SDKs that migrate when they start),     *)
(* each of which may stop anywhere and be run again.                       *)
(*                                                                         *)
(* A catalog migration commits with its version row in one transaction.    *)
(* An online one (CREATE/DROP INDEX CONCURRENTLY) runs outside any         *)
(* transaction: the index passes through an invalid state, the statement   *)
(* may fail half way, and the version is recorded by a second round trip.  *)
(*                                                                         *)
(* The list of migrations is a parameter; MigrationList is the real one.   *)
(***************************************************************************)
EXTENDS Naturals

CONSTANTS
  Migrator,   \* processes that run migrations against this database
  Version,    \* the versions BuildMigrations returns
  Online,     \* those whose SQL runs outside a transaction
  Strict,     \* those whose SQL fails when what it creates exists already
  Object,     \* tables, columns, constraints, indexes of the schema
  Adds,       \* Adds[v]: what migration v creates
  Drops,      \* Drops[v]: what migration v drops
  Lingering   \* whether a statement that is waiting for a lock outlives
              \* the client that sent it

Managed == {o \in Object : \E v \in Version : o \in Adds[v] \cup Drops[v]}
Foreign == Object \ Managed   \* indexes someone else keeps in the schema

(* Migration w is the last one up to version v that touches object o.      *)
LastTouch(o, v, w) ==
  /\ w \in Version /\ w <= v /\ o \in Adds[w] \cup Drops[w]
  /\ \A u \in Version : u <= v /\ o \in Adds[u] \cup Drops[u] => u <= w

(* The migration whose definition of o a database at version v carries, or *)
(* 0 when o must not exist there.                                          *)
DefAt ==
  [o \in Object |->
    [v \in Version \cup {0} |->
      IF \E w \in Version : LastTouch(o, v, w) /\ o \in Adds[w]
        THEN CHOOSE w \in Version : LastTouch(o, v, w)
        ELSE 0]]

(* n is the first version of the list above v.                             *)
NextAfter(v, n) ==
  n \in Version /\ n > v /\ \A w \in Version : w > v => n <= w

(* Of all migrations, only v touches o.                                    *)
OnlyBy(o, v) == \A u \in Version : o \in Adds[u] \cup Drops[u] => u = v

ASSUME VersionAssumption ==
  Version \subseteq Nat \ {0} /\ Online \subseteq Version

ASSUME EffectAssumption ==
  /\ Adds \in [Version -> SUBSET Object]
  /\ Drops \in [Version -> SUBSET Object]
  /\ \A v \in Version : Adds[v] \cap Drops[v] = {}

(* An online migration is one CREATE or one DROP INDEX CONCURRENTLY.       *)
ASSUME OnlineAssumption ==
  \A v \in Online : \E o \in Object : Adds[v] \cup Drops[v] = {o}

(* No migration creates what an earlier one left in place.                 *)
ASSUME FreshAssumption ==
  \A v, u \in Version : \A o \in Adds[v] :
    NextAfter(u, v) => DefAt[o][u] = 0

(* Migration 1 is plain CREATE TABLEs, of tables no other one touches.     *)
ASSUME FirstAssumption ==
  /\ Strict \subseteq Version \ Online
  /\ \A v \in Version : NextAfter(0, v) =>
       v \in Strict /\ \E o \in Adds[v] : OnlyBy(o, v)

ASSUME LingeringAssumption == Lingering \in BOOLEAN

VARIABLES
  rows,     \* the rows of dbos_migrations
  stat,     \* stat[o]: the object in the catalog
  def,      \* def[o]: the migration whose definition it carries
  owner,    \* owner[o]: whose statement is at work on it
  orphans,  \* statements waiting for a lock, their clients gone
  pc, cur, cleaned, todo   \* each migrator's place in RunMigrations

catalog == <<stat, def, owner>>
local   == <<pc, cur, cleaned, todo>>
vars    == <<rows, stat, def, owner, orphans, pc, cur, cleaned, todo>>

InFlight == {"building", "dropping"}        \* someone's statement at work
Status   == {"absent", "invalid", "valid"} \cup InFlight
Place    == {"idle", "setup", "loop", "clean", "sweep", "exec", "record"}
Statement == Object \X (Version \cup {0})   \* <<o, v>> creates, <<o, 0>> drops

TypeOK ==
  /\ rows \subseteq Version
  /\ stat \in [Object -> Status]
  /\ def \in [Object -> Version \cup {0}]
  /\ owner \in [Object -> SUBSET Migrator]
  /\ orphans \subseteq Statement
  /\ pc \in [Migrator -> Place]
  /\ cur \in [Migrator -> Version \cup {0}]
  /\ cleaned \in [Migrator -> BOOLEAN]
  /\ todo \in [Migrator -> SUBSET Object]

(* Object o is as a database at version v has it.                          *)
AsOf(o, v) ==
  /\ def[o] = DefAt[o][v]
  /\ stat[o] = IF DefAt[o][v] = 0 THEN "absent" ELSE "valid"

(* A database that earlier runs left at some version, or a new one.        *)
Init ==
  /\ \E v \in Version \cup {0} :
       /\ rows = {v} \ {0}
       /\ def = [o \in Object |-> DefAt[o][v]]
       /\ stat = [o \in Object |-> IF DefAt[o][v] = 0 THEN "absent" ELSE "valid"]
  /\ owner = [o \in Object |-> {}]
  /\ orphans = {}
  /\ pc = [p \in Migrator |-> "idle"]
  /\ cur = [p \in Migrator |-> 0]
  /\ cleaned = [p \in Migrator |-> FALSE]
  /\ todo = [p \in Migrator |-> {}]
-----------------------------------------------------------------------------
(* The version one SELECT version FROM dbos_migrations LIMIT 1 may return. *)
Recorded(v) == IF rows = {} THEN v = 0 ELSE v \in rows

(* ShouldMigrate: below the last version there is work to do.              *)
Pending(v) == \E n \in Version : n > v

(* Mutants: the version counted up instead of taken from the migration;    *)
(* the last version of the list recorded for whichever was applied.        *)
WriteCountedVersion(v, lastApplied) ==
  IF rows = {} THEN rows' = {v} ELSE rows' = {lastApplied + 1}

WriteLastVersion(v, lastApplied) == rows' = {n \in Version : ~Pending(n)}

(* writeMigrationVersion: INSERT for the first migration of a database,    *)
(* UPDATE without a WHERE otherwise, which the primary key refuses when    *)
(* there are two rows.                                                     *)
WriteMigrationVersion(v, lastApplied) ==
  IF lastApplied = 0
    THEN v \notin rows /\ rows' = rows \cup {v}
    ELSE /\ \A r, s \in rows : r = s
         /\ rows' = {v : r \in rows}

(* The run of p ends, whatever its outcome.                                *)
EndRun(p) ==
  /\ pc' = [pc EXCEPT ![p] = "idle"]
  /\ cur' = [cur EXCEPT ![p] = 0]
  /\ cleaned' = [cleaned EXCEPT ![p] = FALSE]
  /\ todo' = [todo EXCEPT ![p] = {}]

(* The SQL of a catalog migration succeeds. A strict one fails, and rolls  *)
(* back, when it finds its objects in place. Its mutant: IF NOT EXISTS.    *)
AcceptsAnyway(v) == TRUE

Accepts(v) == v \in Strict => \A o \in Adds[v] : stat[o] = "absent"

Settled(o) == stat[o] \notin InFlight

(* PostgreSQL starts an index statement, once nobody holds the lock.       *)
(* IF [NOT] EXISTS turns it into a no-op when there is nothing to do.      *)
NoOp(o, d) == IF d = 0 THEN stat[o] = "absent" ELSE stat[o] # "absent"

StartStatement(o, d, who) ==
  /\ Settled(o)
  /\ ~NoOp(o, d)
  /\ stat' = [stat EXCEPT ![o] = IF d = 0 THEN "dropping" ELSE "building"]
  /\ def' = [def EXCEPT ![o] = IF d = 0 THEN @ ELSE d]
  /\ owner' = [owner EXCEPT ![o] = who]

(* Locks are granted in the order they were asked for.                     *)
NoneAhead(o) == \A s \in orphans : s[1] # o
-----------------------------------------------------------------------------
(* Apply: EnsureDatabase, dialect detection and ShouldMigrate. A database  *)
(* that is up to date ends the run here.                                   *)
ShouldMigrate(p) ==
  /\ pc[p] = "idle"
  /\ \E v \in Version \cup {0} : Recorded(v) /\ Pending(v)
  /\ pc' = [pc EXCEPT ![p] = "setup"]
  /\ UNCHANGED <<rows, catalog, orphans, cur, cleaned, todo>>

(* Mutant: the version of an earlier run is not read.                      *)
SetupFromZero(p) ==
  /\ pc[p] = "setup"
  /\ pc' = [pc EXCEPT ![p] = "loop"]
  /\ UNCHANGED <<rows, catalog, orphans, cur, cleaned, todo>>

(* The setup transaction: schema and table exist, the version is read.     *)
Setup(p) ==
  /\ pc[p] = "setup"
  /\ \E v \in Version \cup {0} : Recorded(v) /\ cur' = [cur EXCEPT ![p] = v]
  /\ pc' = [pc EXCEPT ![p] = "loop"]
  /\ UNCHANGED <<rows, catalog, orphans, cleaned, todo>>

(* applyCatalogMigration: the SQL and the version row commit together.     *)
ApplyCatalog(p, v) ==
  /\ pc[p] = "loop"
  /\ NextAfter(cur[p], v) /\ v \notin Online
  /\ \A o \in Adds[v] \cup Drops[v] : Settled(o)
  /\ Accepts(v)
  /\ stat' = [o \in Object |-> IF o \in Adds[v] /\ stat[o] = "absent" THEN "valid"
                               ELSE IF o \in Drops[v] THEN "absent" ELSE stat[o]]
  /\ def' = [o \in Object |-> IF o \in Adds[v] /\ stat[o] = "absent" THEN v
                              ELSE IF o \in Drops[v] THEN 0 ELSE def[o]]
  /\ WriteMigrationVersion(v, cur[p])
  /\ cur' = [cur EXCEPT ![p] = v]
  /\ UNCHANGED <<owner, orphans, pc, cleaned, todo>>

(* Mutant: the listing looks in the wrong schema and finds nothing.        *)
ListNothing(p, v) ==
  /\ pc[p] = "loop" /\ ~cleaned[p]
  /\ NextAfter(cur[p], v) /\ v \in Online
  /\ pc' = [pc EXCEPT ![p] = "clean"]
  /\ UNCHANGED <<rows, catalog, orphans, cur, cleaned, todo>>

(* CleanupInvalidIndexes, the listing: every index of the schema that is   *)
(* not valid at this moment, whoever is building or dropping it.           *)
ListInvalid(p, v) ==
  /\ pc[p] = "loop" /\ ~cleaned[p]
  /\ NextAfter(cur[p], v) /\ v \in Online
  /\ todo' = [todo EXCEPT ![p] = {o \in Object : stat[o] \notin {"absent", "valid"}}]
  /\ pc' = [pc EXCEPT ![p] = "clean"]
  /\ UNCHANGED <<rows, catalog, orphans, cur, cleaned>>

(* CleanupInvalidIndexes, the drops: by name, whatever the index is now.   *)
DropListed(p, o) ==
  /\ pc[p] = "clean" /\ o \in todo[p]
  /\ NoneAhead(o)
  /\ \/ /\ StartStatement(o, 0, {p})
        /\ pc' = [pc EXCEPT ![p] = "sweep"]
        /\ UNCHANGED todo
     \/ /\ NoOp(o, 0)
        /\ todo' = [todo EXCEPT ![p] = @ \ {o}]
        /\ UNCHANGED <<catalog, pc>>
  /\ UNCHANGED <<rows, orphans, cur, cleaned>>

CleanupDone(p) ==
  /\ pc[p] = "clean" /\ todo[p] = {}
  /\ cleaned' = [cleaned EXCEPT ![p] = TRUE]
  /\ pc' = [pc EXCEPT ![p] = "loop"]
  /\ UNCHANGED <<rows, catalog, orphans, cur, todo>>

(* RunMigrations executes an online migration's statement.                 *)
ExecOnline(p, v) ==
  /\ pc[p] = "loop" /\ cleaned[p]
  /\ NextAfter(cur[p], v) /\ v \in Online
  /\ \E o \in Adds[v] \cup Drops[v] :
       LET d == IF o \in Adds[v] THEN v ELSE 0 IN
       /\ NoneAhead(o)
       /\ \/ /\ StartStatement(o, d, {p})
             /\ pc' = [pc EXCEPT ![p] = "exec"]
          \/ /\ Settled(o) /\ NoOp(o, d)
             /\ pc' = [pc EXCEPT ![p] = "record"]
             /\ UNCHANGED catalog
  /\ UNCHANGED <<rows, orphans, cur, cleaned, todo>>

(* The second round trip of an online migration.                           *)
RecordOnline(p, v) ==
  /\ pc[p] = "record"
  /\ NextAfter(cur[p], v) /\ v \in Online
  /\ WriteMigrationVersion(v, cur[p])
  /\ cur' = [cur EXCEPT ![p] = v]
  /\ pc' = [pc EXCEPT ![p] = "loop"]
  /\ UNCHANGED <<catalog, orphans, cleaned, todo>>

Finish(p) ==
  /\ pc[p] = "loop" /\ ~Pending(cur[p])
  /\ EndRun(p)
  /\ UNCHANGED <<rows, catalog, orphans>>

(* An error, a signal or a lost connection ends the run at any step. The   *)
(* server keeps working on a statement it has started, and with Lingering  *)
(* may still hold one that waits for its lock.                             *)
Stop(p) ==
  /\ pc[p] # "idle"
  /\ EndRun(p)
  /\ owner' = [o \in Object |-> owner[o] \ {p}]
  /\ \/ UNCHANGED orphans
     \/ /\ Lingering /\ pc[p] = "clean"
        /\ \E o \in todo[p] : orphans' = orphans \cup {<<o, 0>>}
     \/ /\ Lingering /\ pc[p] = "loop" /\ cleaned[p]
        /\ \E v \in Online : \E o \in Adds[v] \cup Drops[v] :
             /\ NextAfter(cur[p], v)
             /\ orphans' = orphans \cup {<<o, IF o \in Adds[v] THEN v ELSE 0>>}
  /\ UNCHANGED <<rows, stat, def>>
-----------------------------------------------------------------------------
(* PostgreSQL ends a statement it is working on: the client, if it is      *)
(* still there, returns from Exec.                                         *)
Complete(o) ==
  /\ stat[o] \in InFlight
  /\ stat' = [stat EXCEPT ![o] = IF @ = "building" THEN "valid" ELSE "absent"]
  /\ def' = [def EXCEPT ![o] = IF stat[o] = "building" THEN @ ELSE 0]
  /\ owner' = [owner EXCEPT ![o] = {}]
  /\ pc' = [p \in Migrator |-> IF p \notin owner[o] THEN pc[p]
                               ELSE IF pc[p] = "exec" THEN "record" ELSE "clean"]
  /\ todo' = [p \in Migrator |-> IF p \in owner[o] THEN todo[p] \ {o} ELSE todo[p]]
  /\ UNCHANGED <<rows, orphans, cur, cleaned>>

(* The statement fails, leaving the index behind, invalid.                 *)
Abort(o) ==
  /\ stat[o] \in InFlight
  /\ stat' = [stat EXCEPT ![o] = "invalid"]
  /\ owner' = [owner EXCEPT ![o] = {}]
  /\ pc' = [p \in Migrator |-> IF p \in owner[o] THEN "idle" ELSE pc[p]]
  /\ cur' = [p \in Migrator |-> IF p \in owner[o] THEN 0 ELSE cur[p]]
  /\ cleaned' = [p \in Migrator |-> cleaned[p] /\ p \notin owner[o]]
  /\ todo' = [p \in Migrator |-> IF p \in owner[o] THEN {} ELSE todo[p]]
  /\ UNCHANGED <<rows, def, orphans>>

(* A statement without a client gets its lock.                             *)
StartOrphan(s) ==
  /\ s \in orphans
  /\ StartStatement(s[1], s[2], {}) \/ (Settled(s[1]) /\ NoOp(s[1], s[2]) /\ UNCHANGED catalog)
  /\ orphans' = orphans \ {s}
  /\ UNCHANGED <<rows, local>>

(* Somebody builds an index of their own, concurrently, in the schema.     *)
ForeignBuild(o) ==
  /\ o \in Foreign
  /\ stat[o] = "absent"
  /\ stat' = [stat EXCEPT ![o] = "building"]
  /\ UNCHANGED <<rows, def, owner, orphans, local>>

Advance(p) ==
  \/ ShouldMigrate(p) \/ Setup(p) \/ CleanupDone(p) \/ Finish(p)
  \/ \E v \in Version : ApplyCatalog(p, v) \/ ListInvalid(p, v)
                        \/ ExecOnline(p, v) \/ RecordOnline(p, v)
  \/ \E o \in Object : DropListed(p, o)

Next ==
  \/ \E p \in Migrator : Advance(p) \/ Stop(p)
  \/ \E o \in Object : Complete(o) \/ Abort(o) \/ ForeignBuild(o)
  \/ \E s \in orphans : StartOrphan(s)

Spec == Init /\ [][Next]_vars

(* The operator runs the command again until it succeeds, and PostgreSQL   *)
(* ends what it has started; nothing makes a run stop.                     *)
Fairness ==
  /\ \A p \in Migrator : WF_vars(Advance(p))
  /\ \A o \in Object : WF_vars(Complete(o))
  /\ \A s \in Statement : WF_vars(StartOrphan(s))

FairSpec == Spec /\ Fairness
-----------------------------------------------------------------------------
(* Two first runs that race on a new database cannot both INSERT: the      *)
(* version table keeps one row, on which every later read and UPDATE       *)
(* relies (runner.go, writeMigrationVersion and SELECT ... LIMIT 1).       *)
OneVersionRow == \A r, s \in rows : r = s

(* Migration n, which runs outside a transaction, may be half done while   *)
(* the database is at version r.                                           *)
InProgress(o, r) ==
  \E n \in Online : NextAfter(r, n) /\ o \in Adds[n] \cup Drops[n]

(* The recorded version tells the truth wherever a run was cut: every      *)
(* object of the schema is exactly as that version has it, save the one    *)
(* index the next online migration is about.                               *)
RecordedMeansApplied ==
  \A r \in rows : \A o \in Managed : AsOf(o, r) \/ InProgress(o, r)

(* ShouldMigrate answers that no work remains only when none does: with no *)
(* run under way, a database at the last version is complete.              *)
Quiet == orphans = {} /\ (\A p \in Migrator : pc[p] = "idle") /\ \A o \in Object : Settled(o)
UpToDateIsComplete ==
  \A r \in rows : Quiet /\ ~Pending(r) => \A o \in Managed : AsOf(o, r)

(* Nothing that cut runs have left behind stops the next one: where a run  *)
(* comes to a migration, its SQL and its version row go through, unless    *)
(* they are cut as well (nothing but the operator retries RunMigrations).  *)
NextGoesThrough ==
  \A p \in Migrator, v \in Version : pc[p] = "loop" /\ NextAfter(cur[p], v) =>
    /\ IF cur[p] = 0 THEN v \notin rows ELSE rows = {cur[p]}
    /\ v \notin Online => Accepts(v)
    /\ v \notin Online \/ cleaned[p] => \A o \in Adds[v] \cup Drops[v] : Settled(o) /\ NoneAhead(o)

(* With any number of migrators: what a recorded transaction created, and  *)
(* no other migration touches, is there (tables and columns, mostly).      *)
RecordedTablesPresent ==
  \A r \in rows : \A v \in Version \ Online : \A o \in Adds[v] :
    v <= r /\ OnlyBy(o, v) => stat[o] = "valid"

(* A step never moves the recorded version back.                           *)
VersionNeverRegresses == [][\A r \in rows : \E s \in rows' : r <= s]_vars

(* Once runs stop being interrupted, running the command again brings the  *)
(* database to the last version, and leaves it there.                      *)
Interrupted == (\E p \in Migrator : Stop(p)) \/ \E o \in Object : Abort(o)
UpToDate == \A n \in Version : \E r \in rows : n <= r
RerunConverges == (<>[][~Interrupted]_vars) => <>[]UpToDate
(* The catalog as a query of pg_index shows it, and as version v has it:   *)
(* an index under work is there, and not valid.                            *)
Shown(o) == [def |-> def[o], stat |-> IF Settled(o) THEN stat[o] ELSE "invalid"]
ShownAt(o, v) ==
  [def |-> DefAt[o][v], stat |-> IF DefAt[o][v] = 0 THEN "absent" ELSE "valid"]

LedgerVersion == IF rows = {} THEN 0 ELSE CHOOSE r \in rows : TRUE
LedgerSchema  == [o \in Managed |-> Shown(o)]

Ledger ==
  INSTANCE SchemaLedger WITH
    Object  <- Managed,
    Touched <- [v \in Version |-> Adds[v] \cup Drops[v]],
    Target  <- [o \in Managed |-> [v \in Version \cup {0} |-> ShownAt(o, v)]],
    version <- LedgerVersion,
    schema  <- LedgerSchema

(* Runs that follow one another, each cut anywhere, are to the users of    *)
(* the schema one migration after another (RunMigrations).                 *)
ImplementsLedger == Ledger!Spec
-----------------------------------------------------------------------------
(* What makes OneVersionRow and RecordedTablesPresent inductive, for any   *)
(* number of migrators. A transaction's objects are never half made, so no *)
(* cleanup and no stray statement reaches them; whoever believes to be at  *)
(* version v, or reads it, finds the tables of v.                          *)
TransactionalObject(o) ==
  o \in Managed /\ \A v \in Online : o \notin Adds[v] \cup Drops[v]

SharedInv ==
  /\ OneVersionRow
  /\ \A o \in Object : TransactionalObject(o) =>
       /\ stat[o] \in {"absent", "valid"}
       /\ \A p \in Migrator : o \notin todo[p]
       /\ \A s \in orphans : s[1] # o
  /\ \A v \in Version \ Online : \A o \in Adds[v] : OnlyBy(o, v) =>
       /\ \A r \in rows : v <= r => stat[o] = "valid"
       /\ \A p \in Migrator : v <= cur[p] => stat[o] = "valid"

(* What makes RecordedMeansApplied inductive when one migrator runs at a   *)
(* time and the statements of the dead do not linger.                      *)
HalfDone(o, r, n) ==
  \/ stat[o] = "absent" /\ def[o] = 0
  \/ o \in Adds[n] /\ stat[o] # "absent" /\ def[o] = n
  \/ /\ o \in Drops[n] /\ DefAt[o][r] # 0 /\ def[o] = DefAt[o][r]
     /\ stat[o] \in {"valid", "dropping", "invalid"}

CatalogInv ==
  \A r \in Version \cup {0} : Recorded(r) =>
    \A o \in Managed :
      \/ AsOf(o, r)
      \/ \E n \in Online : /\ NextAfter(r, n) /\ o \in Adds[n] \cup Drops[n]
                           /\ HalfDone(o, r, n)

Whole(o) == stat[o] \in {"absent", "valid"}

RunInv(p) ==
  /\ pc[p] \in {"idle", "setup"} => ~cleaned[p]
  /\ pc[p] \notin {"idle", "setup"} => Recorded(cur[p])
  /\ pc[p] \in {"clean", "sweep"} => \A o \in Managed : Whole(o) \/ o \in todo[p]
  /\ pc[p] \in {"clean", "sweep"} => \A o \in Managed \cap todo[p] : InProgress(o, cur[p])
  /\ pc[p] \in {"loop", "record"} /\ cleaned[p] => \A o \in Managed : Whole(o)
  /\ pc[p] = "exec" => \A o \in Managed : Whole(o) \/ p \in owner[o]
  /\ pc[p] \in {"exec", "record"} => cleaned[p]
  /\ \A o, q \in Object : p \in owner[o] /\ p \in owner[q] => o = q
  /\ \A o \in Object : p \in owner[o] =>
       \/ pc[p] = "sweep" /\ stat[o] = "dropping"
       \/ /\ pc[p] = "exec"
          /\ \E n \in Online : NextAfter(cur[p], n) /\ o \in Adds[n] \cup Drops[n]
               /\ stat[o] = IF o \in Adds[n] THEN "building" ELSE "dropping"
  /\ pc[p] = "record" =>
       \A n \in Online : NextAfter(cur[p], n) => \A o \in Adds[n] \cup Drops[n] : AsOf(o, n)

SingleInv ==
  /\ orphans = {}
  /\ CatalogInv
  /\ \A p \in Migrator : RunInv(p)
=============================================================================
