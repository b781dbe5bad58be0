----------------------------- MODULE SchemaLedger -----------------------------
(***************************************************************************)
(* What `dbosctl sysdb migrate' promises to whoever uses the schema,       *)
(* without how it is done, how often a run is cut, or who builds what      *)
(* beside it: migrations are applied one after another, none left out. A   *)
(* transactional one takes the whole schema from one version to the next   *)
(* in a single step. An online one works on its own index alone, in as     *)
(* many steps and attempts as it takes, and is recorded when the whole     *)
(* schema is as its version has it.                                        *)
(***************************************************************************)
EXTENDS Naturals

CONSTANTS
  Version,   \* the versions of the list
  Online,    \* those that run outside a transaction
  Object,    \* the objects the list is about
  Touched,   \* Touched[v]: those that migration v creates or drops
  Target     \* Target[o][v]: how a database at version v has object o

VARIABLES
  version,   \* the recorded version, 0 before the first
  schema     \* schema[o]: how the catalog shows object o

(* n comes after version v in the list.                                    *)
Follows(v, n) ==
  n \in Version /\ n > v /\ \A w \in Version : w > v => n <= w

Stands(v) == \A o \in Object : schema[o] = Target[o][v]

Init ==
  /\ version \in Version \cup {0}
  /\ schema = [o \in Object |-> Target[o][version]]

Transact(n) ==
  /\ Follows(version, n) /\ n \notin Online
  /\ Stands(version)
  /\ version' = n
  /\ schema' = [o \in Object |-> Target[o][n]]

Work(n) ==
  /\ Follows(version, n) /\ n \in Online
  /\ UNCHANGED version
  /\ DOMAIN schema' = Object
  /\ \A o \in Object \ Touched[n] : schema'[o] = schema[o]

Record(n) ==
  /\ Follows(version, n) /\ n \in Online
  /\ Stands(n)
  /\ version' = n
  /\ UNCHANGED schema

Next == \E n \in Version : Transact(n) \/ Work(n) \/ Record(n)

Spec == Init /\ [][Next]_<<version, schema>>
=============================================================================
