------------------------------ MODULE MCFullList ------------------------------
(***************************************************************************)
(* The runner on the whole list of migrations, for PostgreSQL, with and    *)
(* without LISTEN/NOTIFY, beside an index somebody else keeps in the       *)
(* schema.                                                                 *)
(***************************************************************************)
EXTENDS Renderings, MigrationList

PgOnline == OnlineVersions(FALSE)
Objects  == UNION {AddsOf[v] : v \in Versions} \cup {"other_idx"}
=============================================================================
