------------------------------ MODULE MCRename ------------------------------
(***************************************************************************)
(* Rename on a handful of rows: a queue, three workflows and some of their *)
(* steps, two of them of one workflow. A row is named for its table.       *)
(***************************************************************************)
EXTENDS Rename

MCTab ==
  [x \in Row |->
     CASE x = "q"                      -> "queues"
       [] x = "v"                      -> "application_versions"
       [] x \in {"w1", "w2", "w3"}     -> "workflow_status"
       [] x \in {"s1", "s1b", "s2", "s3"} -> "operation_outputs"]

MCKey ==
  [x \in Row |-> CASE x \in {"w2", "s2"} -> 2
                   [] x \in {"w3", "s3"} -> 3
                   [] OTHER              -> 1]

BothToB == [r \in Renamer |-> {"A", "none"}]
ToB     == [r \in Renamer |-> "B"]

(* Two runs at once: both of A's rows, to one name or to two.              *)
Two     == {"r1", "r2"}
TwoFrom == [r \in Two |-> IF r = "r1" THEN {"A", "none"} ELSE {"A"}]
TwoTo   == [r \in Two |-> IF r = "r1" THEN "B" ELSE "C"]

(* What the database holds at first.                                       *)
AllThere    == [Row -> {"A", "B", "none"}]
OfAOrAbsent == {[x \in Row |-> "A"], [x \in Row |-> Absent]}
=============================================================================
