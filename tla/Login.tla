-------------------------------- MODULE Login --------------------------------
(***************************************************************************)
(* `dbosctl login' as a whole (internal/cli/login.go, runLogin): the       *)
(* device flow of internal/auth, and then the save of the tokens it got    *)
(* into the credentials file, beside the other commands that use the file. *)
(***************************************************************************)
EXTENDS CredStore, DeviceFlow

VARIABLE who   \* the command and the profile of the login in its device flow

allVars == <<vars, flow, who>>

NoOne == <<>>

LoginInit == Init /\ FlowInit /\ who = NoOne

(* Until the flow ends, runLogin does nothing with the file.               *)
LoginBegins ==
  \E c \in Command, p \in Profile :
    /\ who = NoOne /\ pc[c] = "idle" /\ issued < MaxToken
    /\ Starts
    /\ who' = <<c, p>>
    /\ UNCHANGED vars

LoginProceeds == who # NoOne /\ Step /\ UNCHANGED <<vars, who>>

LoginSucceeds ==
  /\ who # NoOne /\ outcome = "token"
  /\ LogIn(who[1], who[2])
  /\ Again
  /\ who' = NoOne

LoginFails ==
  /\ who # NoOne /\ outcome # "token"
  /\ Again
  /\ who' = NoOne
  /\ UNCHANGED vars

InFlow(c) == who # NoOne /\ who[1] = c

OtherCommands ==
  /\ \/ \E c \in Command : /\ ~InFlow(c)
          /\ \/ \E p \in Profile : Load(c, p) \/ LogOut(c, p)
             \/ Exchange(c) \/ ExchangeUnanswered(c) \/ ExchangeRefused(c)
             \/ ReadAll(c) \/ WriteAll(c) \/ Cut(c)
     \/ \E n \in Token : Expires(n)
  /\ UNCHANGED <<flow, who>>

LoginNext ==
  LoginBegins \/ LoginProceeds \/ LoginSucceeds \/ LoginFails \/ OtherCommands

LoginSpec == LoginInit /\ [][LoginNext]_allVars
=============================================================================
