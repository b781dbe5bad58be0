------------------------------ MODULE MCSession ------------------------------
(***************************************************************************)
(* One command beside two edits of two profiles, managed or self-hosted,   *)
(* and another command that writes the logins. There is an account for p,  *)
(* one for the TypeScript CLI, and an API key, each of an organization of  *)
(* its own.                                                                *)
(***************************************************************************)
EXTENDS Session

MCAccount == [n \in {"p", "q"} |-> IF n = "p" THEN {"ann"} ELSE {}]
MCOrgOf ==
  [i \in {"ann", "tess", "key"} |->
     CASE i = "ann" -> "first" [] i = "tess" -> "second" [] i = "key" -> "third"]

Hosted == [https |-> TRUE, host |-> "hosted"]
Plain  == [https |-> FALSE, host |-> "cloud"]

(* A managed profile; a self-hosted one without authentication; an empty   *)
(* --issuer, which makes that one bearer, and alone is no profile.         *)
MCFlags == {[domain |-> "cloud"], [url |-> Hosted, app |-> "app"], [oidc |-> "cleared"]}

(* As the profile has it; production over http.                            *)
MCInputs == {<<>>, [profile |-> None, url |-> Plain]}

MCTried == {Whoami["whoami"], WorkflowChanges["fork"], AppChanges["delete"]}
=============================================================================
