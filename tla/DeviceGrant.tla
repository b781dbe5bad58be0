----------------------------- MODULE DeviceGrant -----------------------------
(***************************************************************************)
(* What a device login promises (internal/auth/auth.go, Login), without    *)
(* its clock and its messages: the user decides on a code, the provider    *)
(* exchanges an approved code once, and who asked for it holds a token     *)
(* only if it did; whoever waits may give up.                              *)
(***************************************************************************)
VARIABLES
  code,     \* what the provider knows of the device code
  client    \* what the one who asked for it has

grant == <<code, client>>

Init == code = "none" /\ client = "none"

Ask ==
  /\ client = "none" /\ client' = "waiting"
  /\ code = "none"   /\ code' = "pending"

Decide ==
  /\ code = "pending"
  /\ code' \in {"approved", "denied"}
  /\ UNCHANGED client

Lapse ==
  /\ code \in {"pending", "approved"}
  /\ code' = "lapsed"
  /\ UNCHANGED client

(* One code, one exchange.                                                 *)
Redeem ==
  /\ code = "approved"
  /\ code' = "redeemed"
  /\ UNCHANGED client

Take ==
  /\ client = "waiting" /\ code = "redeemed"
  /\ client' = "token"
  /\ UNCHANGED code

GiveUp ==
  /\ client \in {"none", "waiting"}
  /\ client' = "failed"
  /\ UNCHANGED code

Again ==
  /\ client \in {"token", "failed"}
  /\ client' = "none" /\ code' = "none"

Next == Ask \/ Decide \/ Lapse \/ Redeem \/ Take \/ GiveUp \/ Again

Spec == Init /\ [][Next]_grant
=============================================================================
