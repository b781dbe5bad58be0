------------------------------ MODULE CredStore ------------------------------
(***************************************************************************)
(* The credentials file of internal/creds/creds.go and the commands that   *)
(* read and replace it: login, logout, and any request, which refreshes an *)
(* access token that has expired (bearerToken, refreshStored of            *)
(* internal/cli/common.go). Every save and delete reads the whole file,    *)
(* changes one profile's entry and renames a new file over the old one; no *)
(* lock keeps two commands apart.                                          *)
(*                                                                         *)
(* The provider numbers the answers it gives: token n stands for the n-th  *)
(* access token and for the refresh token that came with it. With Rotating *)
(* a refresh token is good for one exchange.                               *)
(***************************************************************************)
EXTENDS Naturals

CONSTANTS
  Command,    \* processes; each runs one command after another
  Profile,
  Rotating,   \* the provider replaces the refresh token at each exchange
  TellsExpiry,  \* whether its answers carry expires_in: a set of BOOLEANs
  MaxToken    \* bound: the answers it gives

ASSUME ProviderAssumption ==
  /\ Rotating \in BOOLEAN
  /\ TellsExpiry \subseteq BOOLEAN
  /\ MaxToken \in Nat

Token == 1..MaxToken

VARIABLES
  file,      \* credentials.json: file[p] is the entry of p, or NoEntry
  pc,        \* pc[c]: what command c is about to do
  job,       \* job[c]: which command it is
  prof,      \* prof[c]: its profile
  mine,      \* mine[c]: the entry it has loaded, or is going to save
  read,      \* read[c]: the file as its readAll found it
  issued,    \* how many answers the provider has given
  origin,    \* origin[n]: the login that token n goes back to
  expired,   \* access tokens whose time is up
  spent,     \* refresh tokens that are good no more
  account,   \* account[p]: the login last reported for p, 0 after a logout (history)
  dropped    \* logins whose newest refresh token was lost with its command (history)

commands == <<pc, job, prof, mine, read>>
provider == <<issued, origin, expired, spent>>
vars == <<file, pc, job, prof, mine, read, issued, origin, expired, spent, account, dropped>>

(* Creds: an access token, its refresh token (0: none), and the token the  *)
(* expiresAt on it is that of (0: unknown).                                *)
Entry   == [token : Token, refresh : Token \cup {0}, expiry : Token \cup {0}]
NoEntry == [token |-> 0, refresh |-> 0, expiry |-> 0]
Slot    == Entry \cup {NoEntry}

TypeOK ==
  /\ file \in [Profile -> Slot]
  /\ pc \in [Command -> {"idle", "exchange", "read", "write"}]
  /\ job \in [Command -> {"none", "login", "logout", "refresh"}]
  /\ prof \in [Command -> Profile]
  /\ mine \in [Command -> Slot]
  /\ read \in [Command -> [Profile -> Slot]]
  /\ issued \in 0..MaxToken
  /\ origin \in [Token -> Token \cup {0}]
  /\ expired \subseteq Token
  /\ spent \subseteq Token
  /\ account \in [Profile -> Token \cup {0}]
  /\ dropped \subseteq Token
  /\ \A c \in Command : pc[c] = "exchange" => mine[c].refresh # 0

Init ==
  /\ file = [p \in Profile |-> NoEntry]
  /\ pc = [c \in Command |-> "idle"]
  /\ job = [c \in Command |-> "none"]
  /\ prof \in [Command -> Profile]
  /\ mine = [c \in Command |-> NoEntry]
  /\ read = [c \in Command |-> [p \in Profile |-> NoEntry]]
  /\ issued = 0
  /\ origin = [n \in Token |-> 0]
  /\ expired = {} /\ spent = {} /\ dropped = {}
  /\ account = [p \in Profile |-> 0]
-----------------------------------------------------------------------------
(* A command ends, and forgets.                                            *)
Ends(c) ==
  /\ pc' = [pc EXCEPT ![c] = "idle"]
  /\ job' = [job EXCEPT ![c] = "none"]
  /\ mine' = [mine EXCEPT ![c] = NoEntry]
  /\ read' = [read EXCEPT ![c] = [p \in Profile |-> NoEntry]]
  /\ UNCHANGED prof

(* It has an answer of the provider, or nothing, to put in the file.       *)
GoesToSave(c, p, j, e) ==
  /\ pc' = [pc EXCEPT ![c] = "read"]
  /\ job' = [job EXCEPT ![c] = j]
  /\ prof' = [prof EXCEPT ![c] = p]
  /\ mine' = [mine EXCEPT ![c] = e]
  /\ UNCHANGED read

(* The provider's next answer goes back to login n.                        *)
Answers(n) ==
  /\ issued < MaxToken
  /\ issued' = issued + 1
  /\ origin' = [origin EXCEPT ![issued + 1] = n]
  /\ UNCHANGED expired

(* Mutant: a refresh without a refresh token.                              *)
LoadUnchecked(c, p) ==
  /\ pc[c] = "idle"
  /\ file[p].expiry \in expired
  /\ pc' = [pc EXCEPT ![c] = "exchange"]
  /\ job' = [job EXCEPT ![c] = "refresh"]
  /\ prof' = [prof EXCEPT ![c] = p]
  /\ mine' = [mine EXCEPT ![c] = file[p]]
  /\ UNCHANGED <<file, read, provider, account, dropped>>

(* A request that has to refresh first. Any other finds a token that is    *)
(* not known to have expired, an API key, the login of another CLI, or     *)
(* nothing it can use, and leaves everything as it is.                     *)
Load(c, p) ==
  /\ pc[c] = "idle"
  /\ file[p].expiry \in expired
  /\ file[p].refresh # 0
  /\ pc' = [pc EXCEPT ![c] = "exchange"]
  /\ job' = [job EXCEPT ![c] = "refresh"]
  /\ prof' = [prof EXCEPT ![c] = p]
  /\ mine' = [mine EXCEPT ![c] = file[p]]
  /\ UNCHANGED <<file, read, provider, account, dropped>>

(* What refreshStored makes of the entry it loaded: a refresh token or an  *)
(* expires_in that the answer lacks leaves the old value.                  *)
Refreshed(c, told) ==
  [token   |-> issued + 1,
   refresh |-> IF Rotating THEN issued + 1 ELSE mine[c].refresh,
   expiry  |-> IF told THEN issued + 1 ELSE mine[c].expiry]

(* Mutant: the rotated refresh token is not kept.                          *)
ExchangeKeepsOld(c) ==
  /\ pc[c] = "exchange"
  /\ mine[c].refresh \notin spent
  /\ Answers(origin[mine[c].refresh])
  /\ spent' = IF Rotating THEN spent \cup {mine[c].refresh} ELSE spent
  /\ \E told \in TellsExpiry :
       GoesToSave(c, prof[c], "refresh", [Refreshed(c, told) EXCEPT !.refresh = mine[c].refresh])
  /\ UNCHANGED <<file, account, dropped>>

Exchange(c) ==
  /\ pc[c] = "exchange"
  /\ mine[c].refresh \notin spent
  /\ Answers(origin[mine[c].refresh])
  /\ spent' = IF Rotating THEN spent \cup {mine[c].refresh} ELSE spent
  /\ \E told \in TellsExpiry : GoesToSave(c, prof[c], "refresh", Refreshed(c, told))
  /\ UNCHANGED <<file, account, dropped>>

(* The provider has answered, and the answer does not arrive.              *)
ExchangeUnanswered(c) ==
  /\ pc[c] = "exchange"
  /\ mine[c].refresh \notin spent
  /\ Answers(origin[mine[c].refresh])
  /\ spent' = IF Rotating THEN spent \cup {mine[c].refresh} ELSE spent
  /\ dropped' = dropped \cup {origin[mine[c].refresh]}
  /\ Ends(c)
  /\ UNCHANGED <<file, account>>

ExchangeRefused(c) ==
  /\ pc[c] = "exchange"
  /\ mine[c].refresh \in spent
  /\ Ends(c)
  /\ UNCHANGED <<file, provider, account, dropped>>

(* runLogin, up to the tokens; the provider may give no refresh token.     *)
LogIn(c, p) ==
  /\ pc[c] = "idle"
  /\ Answers(issued + 1)
  /\ \E told \in TellsExpiry, r \in {0, issued + 1} :
       GoesToSave(c, p, "login",
         [token |-> issued + 1, refresh |-> r, expiry |-> IF told THEN issued + 1 ELSE 0])
  /\ UNCHANGED <<file, spent, account, dropped>>

LogOut(c, p) ==
  /\ pc[c] = "idle"
  /\ GoesToSave(c, p, "logout", NoEntry)
  /\ UNCHANGED <<file, provider, account, dropped>>

(* readAll of Save and Delete; a logout may find that there is no login.   *)
ReadAll(c) ==
  /\ pc[c] = "read"
  /\ \/ /\ job[c] = "logout" /\ file[prof[c]] = NoEntry
        /\ account' = [account EXCEPT ![prof[c]] = 0]
        /\ Ends(c)
     \/ /\ job[c] # "logout" \/ file[prof[c]] # NoEntry
        /\ pc' = [pc EXCEPT ![c] = "write"]
        /\ read' = [read EXCEPT ![c] = file]
        /\ UNCHANGED <<job, prof, mine, account>>
  /\ UNCHANGED <<file, provider, dropped>>

(* Mutant: Save fills in the refresh token the file has.                   *)
WriteAllMerging(c) ==
  /\ pc[c] = "write"
  /\ file' = [read[c] EXCEPT ![prof[c]] =
                IF job[c] = "logout" THEN NoEntry
                ELSE [mine[c] EXCEPT !.refresh = IF @ = 0 THEN read[c][prof[c]].refresh ELSE @]]
  /\ account' = [account EXCEPT ![prof[c]] =
                   CASE job[c] = "login"   -> mine[c].token
                     [] job[c] = "logout"  -> 0
                     [] OTHER -> @]
  /\ Ends(c)
  /\ UNCHANGED <<provider, dropped>>

(* writeAll, whose rename puts the new file in place whole.                *)
WriteAll(c) ==
  /\ pc[c] = "write"
  /\ file' = [read[c] EXCEPT ![prof[c]] = mine[c]]
  /\ account' = [account EXCEPT ![prof[c]] =
                   CASE job[c] = "login"   -> mine[c].token
                     [] job[c] = "logout"  -> 0
                     [] OTHER -> @]
  /\ Ends(c)
  /\ UNCHANGED <<provider, dropped>>

(* The command is interrupted, or fails to exchange, read or write.        *)
Holds(c) == pc[c] \in {"read", "write"} /\ job[c] = "refresh"

(* Mutant: the file is truncated and then written.                         *)
CutTruncating(c) ==
  /\ pc[c] # "idle"
  /\ dropped' = IF Holds(c) THEN dropped \cup {origin[mine[c].token]} ELSE dropped
  /\ file' = IF pc[c] = "write" THEN [p \in Profile |-> NoEntry] ELSE file
  /\ Ends(c)
  /\ UNCHANGED <<provider, account>>

Cut(c) ==
  /\ pc[c] # "idle"
  /\ dropped' = IF Holds(c) THEN dropped \cup {origin[mine[c].token]} ELSE dropped
  /\ Ends(c)
  /\ UNCHANGED <<file, provider, account>>

Expires(n) ==
  /\ n \in 1..issued \ expired
  /\ expired' = expired \cup {n}
  /\ UNCHANGED <<file, commands, issued, origin, spent, account, dropped>>

Next ==
  \/ \E c \in Command :
       \/ \E p \in Profile : Load(c, p) \/ LogIn(c, p) \/ LogOut(c, p)
       \/ Exchange(c) \/ ExchangeUnanswered(c) \/ ExchangeRefused(c)
       \/ ReadAll(c) \/ WriteAll(c) \/ Cut(c)
  \/ \E n \in Token : Expires(n)

Spec == Init /\ [][Next]_vars
-----------------------------------------------------------------------------
(* An entry never pairs the halves of two logins, however saves interleave *)
(* (Save replaces the entry whole).                                        *)
PairsMatch ==
  \A p \in Profile :
    file[p].refresh # 0 => origin[file[p].refresh] = origin[file[p].token]

(* A rotated refresh token is not lost but with the command that held it:  *)
(* if the one in the file is spent, its successor is about to be saved, or *)
(* was dropped (refreshStored between the exchange and the save).          *)
RefreshKept ==
  \A p \in Profile :
    file[p].refresh \in spent =>
      \/ origin[file[p].refresh] \in dropped
      \/ \E c \in Command : Holds(c) /\ origin[mine[c].token] = origin[file[p].refresh]

(* The last login or logout that was reported is what the file says.       *)
LastWordHolds ==
  \A p \in Profile :
    account[p] = IF file[p] = NoEntry THEN 0 ELSE origin[file[p].token]

(* A save or a delete leaves the entries of other profiles as they are.    *)
SaveLeavesOthers ==
  [][\A p \in Profile :
       file'[p] # file[p] => \E c \in Command : pc[c] = "write" /\ prof[c] = p]_vars

(* A token is refreshed when it has expired (bearerToken): the expiry that *)
(* Load goes by is that of the token beside it, or unknown.                *)
RefreshedOnExpiry ==
  \A c \in Command : pc[c] = "exchange" => mine[c].token \in expired

(* What the proofs rest on: a token in any entry has been issued, and its   *)
(* entry is of one login.                                                  *)
Busy(c)   == pc[c] \in {"read", "write"}
Paired(e) == e.refresh # 0 => origin[e.refresh] = origin[e.token]
Known(e)  == e.token <= issued /\ e.refresh <= issued
Whole(e)  == Known(e) /\ Paired(e)

WholeInv ==
  /\ \A p \in Profile : Whole(file[p])
  /\ \A c \in Command : Whole(mine[c]) /\ \A p \in Profile : Whole(read[c][p])

(* What makes RefreshKept inductive for one profile: the refresh token a   *)
(* command is about to save is unspent and nobody else's.                  *)
OneProfile == \A p, q \in Profile : p = q
Unshared(c) ==
  /\ mine[c].refresh \notin spent
  /\ Rotating /\ mine[c].refresh # 0 =>
       /\ \A p \in Profile : file[p].refresh # mine[c].refresh
       /\ \A d \in Command \ {c} : mine[d].refresh # mine[c].refresh
KeptInv ==
  /\ ~Rotating => spent = {}
  /\ \A c \in Command : Busy(c) => Unshared(c)

(* What makes LastWordHolds inductive for one command at a time: what it   *)
(* has read is still the file, and what it will save is what it reports.   *)
OneAtATime == \A c, d \in Command : c = d
AloneInv ==
  \A c \in Command :
    /\ pc[c] = "write" => read[c] = file
    /\ Busy(c) => job[c] # "none"
    /\ Busy(c) /\ job[c] = "logout" => mine[c] = NoEntry
    /\ Busy(c) /\ job[c] = "login" =>
         mine[c] # NoEntry /\ origin[mine[c].token] = mine[c].token
    /\ pc[c] = "exchange" \/ (Busy(c) /\ job[c] = "refresh") =>
         mine[c] # NoEntry /\ origin[mine[c].token] = account[prof[c]]
=============================================================================
