------------------------------ MODULE LoginProofs ------------------------------
(***************************************************************************)
(* Theorems about the device flow, for any intervals, lifetimes and        *)
(* latencies and any number of slow_downs; and about `dbosctl login' as a  *)
(* whole, which is that flow and one more command of CredStore.            *)
(***************************************************************************)
EXTENDS Login, CredStoreProofs

FlowInv == FlowTypeOK /\ PaceInv /\ ApprovalInv /\ GrantInv

LEMMA FlowEndsType ==
  ASSUME FlowTypeOK, NEW how \in {"token", "expired", "denied", "failed", "interrupted"}, FlowEnds(how)
  PROVE  FlowTypeOK' /\ PaceInv' /\ ApprovalInv' /\ GrantInv'
BY DEF FlowEnds, Forgets, FlowTypeOK, PaceInv, ApprovalInv, GrantInv, Running

LEMMA FlowInitInv == FlowInit => FlowInv
BY DEF FlowInit, FlowInv, FlowTypeOK, PaceInv, ApprovalInv, GrantInv, Running

LEMMA FlowStep == FlowInv /\ [FlowNext]_flow => FlowInv'
<1> SUFFICES ASSUME FlowInv, [FlowNext]_flow PROVE FlowInv'
  OBVIOUS
<1> USE DefaultAssumption, TimeAssumption
<1>1. ASSUME NEW i \in Interval, NEW l \in Lifetime, Begin(i, l) PROVE FlowInv'
  <2>1. OrDefault(i, DefaultInterval) \in Nat \ {0} /\ OrDefault(l, DefaultLifetime) \in Nat
    BY DEF OrDefault
  <2>2. PICK n \in Nat, d \in Nat : /\ interval' = n /\ demand' = n /\ wakes' = n
        /\ deadline' = d /\ now' = 0 /\ asked' = 0 /\ mail' = "none"
        /\ phase' = "wait" /\ code' = "pending" /\ outcome' = "none"
        /\ decided' \in Nat /\ slowed' \in Nat
    BY <2>1, <1>1 DEF Begin, FlowInv, FlowTypeOK, PaceInv, GrantInv
  <2>3. FlowTypeOK'
    BY <2>2 DEF FlowTypeOK
  <2>4. PaceInv'
    <3>1. 0 <= n + Late /\ 0 + n <= n /\ n <= 0 + n /\ n <= d + Latency + n /\ n = n + 0
      OBVIOUS
    <3> QED
      BY <2>2, <3>1 DEF PaceInv
  <2> QED
    BY <2>2, <2>3, <2>4 DEF FlowInv, ApprovalInv, GrantInv
<1>2. ASSUME NotBegun \/ Expire \/ Interrupt \/ Lose PROVE FlowInv'
  BY <1>2, FlowEndsType DEF NotBegun, Expire, Interrupt, Lose, FlowInv
<1>3. ASSUME Ask PROVE FlowInv'
  BY <1>3 DEF Ask, clock, grantor, FlowInv, FlowTypeOK, PaceInv, ApprovalInv, GrantInv, Running
<1>4. ASSUME Retry PROVE FlowInv'
  BY <1>4 DEF Retry, WaitsLonger, grantor, FlowInv, FlowTypeOK, PaceInv, ApprovalInv, GrantInv, Running
<1>5. ASSUME Learn PROVE FlowInv'
  BY <1>5, FlowEndsType DEF Learn, FlowInv
<1>6. ASSUME Decide PROVE FlowInv'
  BY <1>6 DEF Decide, clock, FlowInv, FlowTypeOK, PaceInv, ApprovalInv, GrantInv, Running
<1>7. ASSUME Lapse PROVE FlowInv'
  BY <1>7 DEF Lapse, clock, FlowInv, FlowTypeOK, PaceInv, ApprovalInv, GrantInv, Running
<1>8. ASSUME Serve PROVE FlowInv'
  BY <1>8 DEF Serve, Verdict, Answer, clock, FlowInv, FlowTypeOK, PaceInv, ApprovalInv, GrantInv, Running
<1>9. ASSUME Tick PROVE FlowInv'
  BY <1>9 DEF Tick, clock, grantor, FlowInv, FlowTypeOK, PaceInv, ApprovalInv, GrantInv, Running
<1>10. ASSUME Again PROVE FlowInv'
  BY <1>10 DEF Again, Forgets, FlowInv, FlowTypeOK, PaceInv, ApprovalInv, GrantInv, Running
<1>11. ASSUME UNCHANGED flow PROVE FlowInv'
  BY <1>11 DEF flow, FlowInv, FlowTypeOK, PaceInv, ApprovalInv, GrantInv, Running
<1> QED
  BY <1>1, <1>2, <1>3, <1>4, <1>5, <1>6, <1>7, <1>8, <1>9, <1>10, <1>11
  DEF FlowNext, Starts, Step, Proceed

LEMMA FlowAlways == FlowSpec => []FlowInv
BY FlowInitInv, FlowStep, PTL DEF FlowSpec

(* The state of a login is well typed.                                     *)
THEOREM FlowTypeCorrect == FlowSpec => []FlowTypeOK
<1>1. FlowInv => FlowTypeOK
  BY DEF FlowInv
<1> QED
  BY <1>1, FlowAlways, PTL

(* pollToken never polls sooner than the provider has asked for.           *)
THEOREM PollsStaySpaced == FlowSpec => PollsSpaced
<1>1. ASSUME FlowInv, [FlowNext]_flow
      PROVE  [phase = "wait" /\ phase' = "asked" => asked' >= asked + demand]_flow
  <2>1. CASE Ask
    BY <2>1, <1>1 DEF Ask, FlowInv, FlowTypeOK, PaceInv, Running
  <2>2. CASE ~(phase = "wait" /\ phase' = "asked")
    BY <2>2
  <2> QED
    BY <1>1, <2>1, <2>2
    DEF FlowNext, Starts, Step, Proceed, Begin, NotBegun, Expire, Retry, Learn, Interrupt, Lose,
        Decide, Lapse, Serve, Tick, Again, FlowEnds, flow
<1>2. FlowSpec => [][phase = "wait" /\ phase' = "asked" => asked' >= asked + demand]_flow
  BY <1>1, FlowAlways, PTL DEF FlowSpec
<1> QED
  BY <1>2 DEF PollsSpaced

(* A login that looks at the deadline only when a timer fires still ends   *)
(* within one poll and one wait of it.                                     *)
THEOREM LoginEndsInTime == FlowSpec => []EndsInTime
<1>1. FlowInv => EndsInTime
  BY TimeAssumption DEF FlowInv, FlowTypeOK, PaceInv, Running, EndsInTime
<1> QED
  BY <1>1, FlowAlways, PTL

(* An approval that leaves time for one more poll is not missed.           *)
THEOREM ApprovalIsNotMissed == FlowSpec => ApprovalCounts
<1>1. ASSUME FlowInv, [FlowNext]_flow
      PROVE  [phase = "wait" /\ outcome' = "expired" /\ code = "approved" =>
                decided + Latency + interval + Late > deadline]_flow
  <2>1. CASE Expire
    BY <2>1, <1>1, TimeAssumption DEF Expire, FlowInv, FlowTypeOK, PaceInv, ApprovalInv, Running
  <2>2. CASE Interrupt
    BY <2>2 DEF Interrupt, FlowEnds
  <2>3. CASE UNCHANGED outcome
    BY <2>3, <1>1 DEF FlowInv, GrantInv
  <2>4. CASE phase # "wait"
    BY <2>4
  <2> QED
    BY <1>1, <2>1, <2>2, <2>3, <2>4
    DEF FlowNext, Starts, Step, Proceed, Begin, NotBegun, Ask, Retry, Learn, Lose,
        Decide, Lapse, Serve, Tick, Again, flow
<1>2. FlowSpec => [][phase = "wait" /\ outcome' = "expired" /\ code = "approved" =>
                   decided + Latency + interval + Late > deadline]_flow
  BY <1>1, FlowAlways, PTL DEF FlowSpec
<1> QED
  BY <1>2 DEF ApprovalCounts

(* Every step of a login is a step of the promise, or changes nothing that *)
(* it speaks of.                                                           *)
LEMMA GrantStep ==
  ASSUME FlowInv, [FlowNext]_flow
  PROVE  Grant!Next \/ UNCHANGED <<code, Client>>
<1> USE DEF FlowInv, GrantInv, Client, Running
<1>1. CASE Starts
  <2>1. phase = "idle" /\ code = "none" /\ Client = "none"
    BY <1>1 DEF Starts, Begin, NotBegun
  <2>2. CASE NotBegun
    <3>1. Client' = "failed" /\ code' = code
      BY <2>2 DEF NotBegun, FlowEnds
    <3> QED
      BY <2>1, <3>1 DEF Grant!Next, Grant!GiveUp
  <2>3. CASE \E i \in Interval, l \in Lifetime : Begin(i, l)
    <3>1. Client' = "waiting" /\ code' = "pending"
      BY <2>3 DEF Begin
    <3> QED
      BY <2>1, <3>1 DEF Grant!Next, Grant!Ask
  <2> QED
    BY <1>1, <2>2, <2>3 DEF Starts
<1>2. CASE Expire \/ Interrupt \/ Lose
  BY <1>2 DEF Expire, Interrupt, Lose, FlowEnds, Running, Grant!Next, Grant!GiveUp
<1>3. CASE Learn
  BY <1>3 DEF Learn, FlowEnds, Grant!Next, Grant!GiveUp, Grant!Take
<1>4. CASE Ask \/ Retry \/ Tick
  BY <1>4 DEF Ask, Retry, Tick, clock, grantor
<1>5. CASE Decide
  BY <1>5 DEF Decide, Grant!Next, Grant!Decide
<1>6. CASE Lapse
  BY <1>6 DEF Lapse, Grant!Next, Grant!Lapse
<1>7. CASE Serve
  BY <1>7 DEF Serve, Verdict, Grant!Next, Grant!Redeem
<1>8. CASE Again
  <2>1. Client \in {"token", "failed"} /\ Client' = "none" /\ code' = "none"
    BY <1>8 DEF Again
  <2> QED
    BY <2>1 DEF Grant!Next, Grant!Again
<1>9. CASE UNCHANGED flow
  BY <1>9 DEF flow
<1> QED
  BY <1>1, <1>2, <1>3, <1>4, <1>5, <1>6, <1>7, <1>8, <1>9 DEF FlowNext, Step, Proceed

(* A device login keeps its promise: one exchange of an approved code, a   *)
(* token only from it, and nothing after it has given up.                  *)
THEOREM LoginKeepsItsPromise == FlowSpec => ImplementsGrant
<1>1. FlowInit => Grant!Init
  <2>1. FlowInit => code = "none" /\ Client = "none"
    BY DEF FlowInit, Client, Running
  <2> QED
    BY <2>1 DEF Grant!Init
<1>2. FlowInv /\ [FlowNext]_flow => [Grant!Next]_(Grant!grant)
  BY GrantStep DEF Grant!grant
<1> QED
  BY <1>1, <1>2, FlowAlways, PTL DEF FlowSpec, ImplementsGrant, Grant!Spec
-----------------------------------------------------------------------------
(* `dbosctl login' as a whole                                              *)
WhoOK == who # NoOne => who[1] \in Command /\ who[2] \in Profile

LEMMA WhoStep == WhoOK /\ [LoginNext]_allVars => WhoOK'
<1> SUFFICES ASSUME WhoOK, [LoginNext]_allVars PROVE WhoOK'
  OBVIOUS
<1>1. CASE LoginBegins
  BY <1>1 DEF LoginBegins, WhoOK
<1>2. CASE who' = NoOne \/ who' = who
  BY <1>2 DEF WhoOK
<1> QED
  BY <1>1, <1>2 DEF LoginNext, LoginProceeds, LoginSucceeds, LoginFails, OtherCommands, allVars

(* Each of its steps is one of the credentials file's, one of the flow's,  *)
(* or the step of both that hands the tokens over.                         *)
LEMMA LoginStepOfBoth ==
  ASSUME WhoOK, [LoginNext]_allVars
  PROVE  [Next]_vars /\ [FlowNext]_flow
<1>1. CASE LoginBegins
  BY <1>1 DEF LoginBegins, FlowNext
<1>2. CASE LoginProceeds
  BY <1>2 DEF LoginProceeds, FlowNext
<1>3. CASE LoginSucceeds
  BY <1>3 DEF LoginSucceeds, WhoOK, Next, FlowNext
<1>4. CASE LoginFails
  BY <1>4 DEF LoginFails, FlowNext
<1>5. CASE OtherCommands
  BY <1>5 DEF OtherCommands, Next
<1>6. CASE UNCHANGED allVars
  BY <1>6 DEF allVars
<1> QED
  BY <1>1, <1>2, <1>3, <1>4, <1>5, <1>6 DEF LoginNext

LEMMA WhoAlways == LoginSpec => []WhoOK
<1>1. LoginInit => WhoOK
  BY DEF LoginInit, WhoOK
<1> QED
  BY <1>1, WhoStep, PTL DEF LoginSpec

(* With the flow before its save, a login does to the credentials file     *)
(* what CredStore has it do,                                               *)
THEOREM LoginUsesTheFile == LoginSpec => Spec
<1>1. LoginInit => Init
  BY DEF LoginInit
<1>2. WhoOK /\ [LoginNext]_allVars => [Next]_vars
  BY LoginStepOfBoth
<1> QED
  BY <1>1, <1>2, WhoAlways, PTL DEF LoginSpec, Spec

(* and the commands beside it take nothing from its flow.                  *)
THEOREM LoginRunsTheFlow == LoginSpec => FlowSpec
<1>1. LoginInit => FlowInit
  BY DEF LoginInit
<1>2. WhoOK /\ [LoginNext]_allVars => [FlowNext]_flow
  BY LoginStepOfBoth
<1> QED
  BY <1>1, <1>2, WhoAlways, PTL DEF LoginSpec, FlowSpec

(* So what is reported of a login made of both is what the file says,      *)
(* however long its flow takes and however it ends.                        *)
THEOREM LoginsLastWord ==
  ASSUME OneAtATime
  PROVE  LoginSpec => []LastWordHolds /\ SaveLeavesOthers
<1>1. (Spec => []LastWordHolds) /\ (Spec => SaveLeavesOthers)
  BY LastWordIsKept, OthersAreLeft
<1> QED
  BY <1>1, LoginUsesTheFile

(* A login takes no profile's newest refresh token with it.                *)
THEOREM LoginsKeepRefreshes ==
  ASSUME OneAtATime PROVE LoginSpec => []RefreshKept
<1>1. Spec => []RefreshKept
  BY RefreshTokenKeptAlone
<1> QED
  BY <1>1, LoginUsesTheFile

(* And no entry of the file pairs the tokens of two such logins.           *)
THEOREM LoginsPairsStay == LoginSpec => []PairsMatch
BY LoginUsesTheFile, PairsStay

(* The whole command still grants a token only for an approved code, in    *)
(* time, and at the pace that the provider asks for.                       *)
THEOREM LoginsFlow ==
  LoginSpec => ImplementsGrant /\ []EndsInTime /\ PollsSpaced /\ ApprovalCounts
BY LoginRunsTheFlow, LoginKeepsItsPromise, LoginEndsInTime, PollsStaySpaced, ApprovalIsNotMissed
=============================================================================
