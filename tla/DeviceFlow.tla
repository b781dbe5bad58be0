------------------------------ MODULE DeviceFlow ------------------------------
(***************************************************************************)
(* One device-flow login (internal/auth/auth.go, Login): it obtains a      *)
(* device code, polls the provider's token endpoint, and ends with a token *)
(* or without one. The user, the provider and the clock go their own way.  *)
(*                                                                         *)
(* Time is counted in ticks from the moment the code was obtained. A timer *)
(* fires up to Late ticks after it is due; an answer arrives, or the       *)
(* request fails, within Latency ticks, or time stands still: nothing is   *)
(* said of a provider that accepts a request and never answers.            *)
(***************************************************************************)
EXTENDS Naturals

CONSTANTS
  Interval,          \* the intervals a provider may ask for; 0: it tells none
  Lifetime,          \* the lifetimes a code may have; 0: it tells none
  DefaultInterval,   \* 5 seconds in the code
  DefaultLifetime,   \* 600
  SlowDown,          \* what slow_down adds: 5
  MaxSlowDowns,      \* bound: the slow_downs one login is told
  Late, Latency

ASSUME DefaultAssumption ==
  /\ DefaultInterval \in Nat \ {0} /\ DefaultLifetime \in Nat \ {0}
  /\ SlowDown \in Nat \ {0} /\ MaxSlowDowns \in Nat

ASSUME TimeAssumption ==
  Interval \subseteq Nat /\ Lifetime \subseteq Nat /\ Late \in Nat /\ Latency \in Nat

VARIABLES
  now,
  phase,      \* the login's place in pollToken
  interval,   \* as pollToken has it
  wakes,      \* when its timer is due
  deadline,
  asked,      \* when it last sent a poll; the beginning, before that
  mail,       \* the poll or the answer that is under way
  outcome,    \* how the login ended
  code,       \* what the provider knows of the device code
  decided,    \* when the user approved it
  demand,     \* the spacing of polls that the provider has asked for
  slowed      \* how many slow_downs it has sent

clock    == <<wakes, deadline, interval>>
grantor  == <<code, decided, demand, slowed>>
flow     == <<now, phase, interval, wakes, deadline, asked, mail, outcome,
              code, decided, demand, slowed>>

Answer == {"token", "pending", "slow_down", "expired", "denied", "failed"}

FlowTypeOK ==
  /\ phase \in {"idle", "wait", "asked", "ended"}
  /\ {now, interval, wakes, deadline, asked, decided, demand, slowed} \subseteq Nat
  /\ mail \in {"none", "poll"} \cup Answer
  /\ outcome \in {"none", "token", "expired", "denied", "failed", "interrupted"}
  /\ code \in {"none", "pending", "approved", "denied", "lapsed", "redeemed"}

FlowInit ==
  /\ phase = "idle" /\ mail = "none" /\ outcome = "none" /\ code = "none"
  /\ now = 0 /\ interval = 0 /\ wakes = 0 /\ deadline = 0 /\ asked = 0
  /\ decided = 0 /\ demand = 0 /\ slowed = 0
-----------------------------------------------------------------------------
Running == phase \in {"wait", "asked"}

(* pollToken returns, and its variables are gone.                          *)
Forgets ==
  /\ mail' = "none"
  /\ now' = 0 /\ interval' = 0 /\ wakes' = 0 /\ deadline' = 0 /\ asked' = 0
  /\ decided' = 0 /\ demand' = 0 /\ slowed' = 0

FlowEnds(how) == phase' = "ended" /\ outcome' = how /\ Forgets /\ UNCHANGED code

(* The value the provider told, or the default where it told none.         *)
OrDefault(told, default) == IF told = 0 THEN default ELSE told

(* Discover, requestDeviceCode, the prompt, and pollToken up to its loop.  *)
Begin(i, l) ==
  /\ phase = "idle" /\ phase' = "wait"
  /\ code' = "pending"
  /\ interval' = OrDefault(i, DefaultInterval)
  /\ demand' = OrDefault(i, DefaultInterval)
  /\ deadline' = now + OrDefault(l, DefaultLifetime)
  /\ wakes' = now + interval'
  /\ UNCHANGED <<now, asked, mail, outcome, decided, slowed>>

(* No discovery document, or no device code.                               *)
NotBegun == phase = "idle" /\ FlowEnds("failed")

(* Mutants: the deadline looked at one wait ahead, or not at all.          *)
ExpireEarly == phase = "wait" /\ now >= wakes /\ now + interval > deadline /\ FlowEnds("expired")

AskAnyway ==
  /\ phase = "wait" /\ now >= wakes
  /\ phase' = "asked" /\ mail' = "poll" /\ asked' = now
  /\ UNCHANGED <<now, clock, outcome, grantor>>

(* The timer fires: past the deadline the login gives up, else it polls.   *)
Expire == phase = "wait" /\ now >= wakes /\ now > deadline /\ FlowEnds("expired")

Ask ==
  /\ phase = "wait" /\ now >= wakes /\ now <= deadline
  /\ phase' = "asked" /\ mail' = "poll" /\ asked' = now
  /\ UNCHANGED <<now, clock, outcome, grantor>>

(* Mutants: slow_down changes nothing; an answer that says to go on is     *)
(* taken for a token.                                                      *)
WaitsUnslowed == interval' = interval

LearnAny ==
  /\ phase = "asked" /\ mail \in Answer
  /\ FlowEnds(IF mail = "pending" THEN "token" ELSE mail)

(* parseTokenResponse and what pollToken does with it.                     *)
WaitsLonger == interval' = IF mail = "slow_down" THEN interval + SlowDown ELSE interval

Retry ==
  /\ phase = "asked" /\ mail \in {"pending", "slow_down"}
  /\ WaitsLonger
  /\ wakes' = now + interval'
  /\ phase' = "wait" /\ mail' = "none"
  /\ UNCHANGED <<now, deadline, asked, outcome, grantor>>

Learn ==
  /\ phase = "asked" /\ mail \in {"token", "expired", "denied", "failed"}
  /\ FlowEnds(mail)

(* ctx is done; the connection fails, with the poll or its answer lost.    *)
Interrupt == Running /\ FlowEnds("interrupted")

Lose == phase = "asked" /\ FlowEnds("failed")
-----------------------------------------------------------------------------
(* The user decides whenever they like. Once the login has ended, nobody   *)
(* asks what became of its code.                                           *)
Decide ==
  /\ Running /\ code = "pending"
  /\ code' \in {"approved", "denied"}
  /\ decided' = now
  /\ UNCHANGED <<now, phase, clock, asked, mail, outcome, demand, slowed>>

Lapse ==
  /\ Running /\ code \in {"pending", "approved"}
  /\ code' = "lapsed"
  /\ UNCHANGED <<now, phase, clock, asked, mail, outcome, decided, demand, slowed>>

(* The provider answers a poll: slow_down says pending, and poll less often. *)
Verdict ==
  CASE code = "pending"  -> {"pending"} \cup (IF slowed < MaxSlowDowns THEN {"slow_down"} ELSE {})
    [] code = "approved" -> {"token"}
    [] code = "denied"   -> {"denied"}
    [] OTHER             -> {"expired"}

Serve ==
  /\ mail = "poll"
  /\ \E a \in Verdict \cup {"failed"} :
       /\ mail' = a
       /\ code' = IF a = "token" THEN "redeemed" ELSE code
       /\ demand' = IF a = "slow_down" THEN demand + SlowDown ELSE demand
       /\ slowed' = IF a = "slow_down" THEN slowed + 1 ELSE slowed
  /\ UNCHANGED <<now, phase, clock, asked, outcome, decided>>

Tick ==
  /\ \/ phase = "wait" /\ now < wakes + Late
     \/ phase = "asked" /\ now < asked + Latency
  /\ now' = now + 1
  /\ UNCHANGED <<phase, clock, asked, mail, outcome, grantor>>

(* The command is run again.                                               *)
Again ==
  /\ phase = "ended"
  /\ phase' = "idle" /\ outcome' = "none" /\ code' = "none"
  /\ Forgets

Starts  == (\E i \in Interval, l \in Lifetime : Begin(i, l)) \/ NotBegun
Proceed == Expire \/ Ask \/ Retry \/ Learn
Step    == Proceed \/ Interrupt \/ Lose \/ Decide \/ Lapse \/ Serve \/ Tick

FlowNext == Starts \/ Step \/ Again

FlowSpec == FlowInit /\ [][FlowNext]_flow
-----------------------------------------------------------------------------
(* No poll follows the one before it sooner than the provider has asked    *)
(* for by then, slow_downs included (RFC 8628; the loop of pollToken).     *)
PollsSpaced ==
  [][phase = "wait" /\ phase' = "asked" => asked' >= asked + demand]_flow

(* A login does not outlast its code by more than the poll that was under  *)
(* way at the deadline and the wait that followed it: pollToken looks at   *)
(* the deadline only when a timer fires.                                   *)
EndsInTime ==
  phase \in {"wait", "asked"} => now <= deadline + Latency + interval + Late

(* A login that expires although the user has approved it, and the         *)
(* provider would still give the token, was approved too late to be polled *)
(* once more before the deadline.                                          *)
ApprovalCounts ==
  [][phase = "wait" /\ outcome' = "expired" /\ code = "approved" =>
       decided + Latency + interval + Late > deadline]_flow

(* It keeps the promise of a device login.                                 *)
Client ==
  CASE phase = "idle" -> "none"
    [] Running -> "waiting"
    [] phase = "ended" /\ outcome = "token" -> "token"
    [] OTHER -> "failed"

Grant == INSTANCE DeviceGrant WITH code <- code, client <- Client
ImplementsGrant == Grant!Spec

(* What makes these inductive. The timer is due one interval after the     *)
(* last answer, which came within Latency of its poll; what the provider   *)
(* has asked for beyond interval is in the answer under way; an approval   *)
(* that a pending answer missed came after its poll.                       *)
PaceInv ==
  /\ phase = "idle" => now = 0 /\ asked = 0 /\ mail = "none"
  /\ Running =>
      /\ asked <= now
      /\ demand = interval + (IF mail = "slow_down" THEN SlowDown ELSE 0)
      /\ phase = "wait" => /\ mail = "none" /\ now <= wakes + Late
                           /\ asked + interval <= wakes /\ wakes <= now + interval
                           /\ wakes <= deadline + Latency + interval
      /\ phase = "asked" => mail # "none" /\ asked <= deadline /\ now <= asked + Latency

ApprovalInv ==
  code = "approved" =>
    /\ phase = "wait" => wakes <= decided + Latency + interval
    /\ phase = "asked" /\ mail \in {"pending", "slow_down"} => asked <= decided

GrantInv ==
  /\ phase = "idle" => code = "none"
  /\ phase = "ended" <=> outcome # "none"
  /\ phase = "asked" /\ mail = "token" => code = "redeemed"
=============================================================================
