-------------------------- MODULE MCMigrationRunner --------------------------
(***************************************************************************)
(* The runner and a printed script on an excerpt of the real list:         *)
(* migration 1, the key (10), the pair that drops and recreates one index  *)
(* name (22, 23), and a column added with IF NOT EXISTS (33).              *)
(***************************************************************************)
EXTENDS PrintedScript

MCVersion == {1, 10, 22, 23, 33}
MCOnline  == {22, 23}
MCStrict  == {1}
MCAdds ==
  [v \in MCVersion |-> CASE v = 1  -> {"workflow_status", "forked_from_idx"}
                         [] v = 23 -> {"forked_from_idx"}
                         [] v = 33 -> {"rate_limited"}
                         [] OTHER  -> {}]
MCDrops == [v \in MCVersion |-> IF v = 22 THEN {"forked_from_idx"} ELSE {}]
MCObject == {"workflow_status", "forked_from_idx", "rate_limited"}

(* Nobody executes a script.                                               *)
MCRunsOnly == SInit /\ [][RNext /\ UNCHANGED <<script, erred>>]_psqlVars

(* Once a script has erred, the properties of the run hold whatever        *)
(* follows: nothing is looked for there.                                   *)
MCFaultless == ~erred
=============================================================================
