--------------------------- MODULE CredStoreProofs ---------------------------
(***************************************************************************)
(* Theorems about CredStore: for any number of commands, profiles and      *)
(* tokens.                                                                 *)
(***************************************************************************)
EXTENDS CredStore, TLAPS

LEMMA SlotFields ==
  ASSUME NEW e \in Slot
  PROVE  /\ e.token \in Nat /\ e.refresh \in Token \cup {0} /\ e.expiry \in Token \cup {0}
         /\ e.token \in Token \cup {0}
         /\ e # NoEntry => e \in Entry /\ e.token \in Token
BY ProviderAssumption DEF Slot, Entry, NoEntry, Token

LEMMA NoEntrySlot == NoEntry \in Slot /\ NoEntry.refresh = 0 /\ NoEntry.token = 0
BY DEF Slot, NoEntry

(* What a command that ends leaves of itself.                              *)
LEMMA EndsType ==
  ASSUME TypeOK, NEW c \in Command, Ends(c)
  PROVE  /\ pc' \in [Command -> {"idle", "exchange", "read", "write"}]
         /\ job' \in [Command -> {"none", "login", "logout", "refresh"}]
         /\ prof' \in [Command -> Profile]
         /\ mine' \in [Command -> Slot]
         /\ read' \in [Command -> [Profile -> Slot]]
         /\ \A d \in Command : pc'[d] = "exchange" => mine'[d].refresh # 0
BY NoEntrySlot DEF TypeOK, Ends

LEMMA SavesType ==
  ASSUME TypeOK, NEW c \in Command, NEW p \in Profile, NEW e \in Slot,
         NEW j \in {"login", "logout", "refresh"}, GoesToSave(c, p, j, e)
  PROVE  /\ pc' \in [Command -> {"idle", "exchange", "read", "write"}]
         /\ job' \in [Command -> {"none", "login", "logout", "refresh"}]
         /\ prof' \in [Command -> Profile]
         /\ mine' \in [Command -> Slot]
         /\ read' \in [Command -> [Profile -> Slot]]
         /\ \A d \in Command : pc'[d] = "exchange" => mine'[d].refresh # 0
BY DEF TypeOK, GoesToSave

LEMMA AnswersType ==
  ASSUME TypeOK, NEW n \in Token, Answers(n)
  PROVE  /\ issued' \in 0..MaxToken
         /\ origin' \in [Token -> Token \cup {0}]
         /\ expired' \subseteq Token
         /\ issued + 1 \in Token /\ issued' = issued + 1
BY ProviderAssumption DEF TypeOK, Answers, Token

(* A new answer makes an entry.                                            *)
LEMMA RefreshedType ==
  ASSUME TypeOK, NEW c \in Command, issued + 1 \in Token, NEW told \in BOOLEAN
  PROVE  Refreshed(c, told) \in Entry
<1>1. mine[c] \in Slot
  BY DEF TypeOK
<1>2. mine[c].refresh \in Token \cup {0} /\ mine[c].expiry \in Token \cup {0}
  BY <1>1, SlotFields
<1> QED
  BY <1>2 DEF Refreshed, Entry

(* What holds of every origin, so that types are inductive: a refresh      *)
(* token that is known goes back to a login.                               *)
Rooted == \A n \in 1..issued : origin[n] # 0
Typed  == TypeOK /\ WholeInv /\ Rooted

LEMMA InitTyped == Init => Typed
BY NoEntrySlot, ProviderAssumption
DEF Init, Typed, TypeOK, WholeInv, Whole, Known, Paired, Rooted, Token

(* The login behind the refresh token that is exchanged.                   *)
LEMMA ExchangeOrigin ==
  ASSUME Typed, NEW c \in Command, pc[c] = "exchange"
  PROVE  /\ mine[c].refresh \in 1..issued
         /\ mine[c].refresh \in Token
         /\ origin[mine[c].refresh] \in Token
<1>1. mine[c] \in Slot /\ mine[c].refresh # 0 /\ issued \in Nat /\ MaxToken \in Nat
  BY ProviderAssumption DEF Typed, TypeOK
<1>2. mine[c].refresh \in Token /\ mine[c].refresh <= issued
  BY <1>1, SlotFields DEF Typed, WholeInv, Whole, Known
<1>3. mine[c].refresh \in 1..issued
  BY <1>1, <1>2 DEF Token
<1> QED
  BY <1>2, <1>3 DEF Typed, TypeOK, Rooted

(* Whole, of given answers.                                                *)
Fits(e, o, i) ==
  /\ e.token <= i /\ e.refresh <= i
  /\ e.refresh # 0 => o[e.refresh] = o[e.token]

LEMMA WholeIsFits ==
  /\ WholeInv <=>
       /\ \A p \in Profile : Fits(file[p], origin, issued)
       /\ \A c \in Command : /\ Fits(mine[c], origin, issued)
                             /\ \A p \in Profile : Fits(read[c][p], origin, issued)
  /\ WholeInv' <=>
       /\ \A p \in Profile : Fits(file'[p], origin', issued')
       /\ \A c \in Command : /\ Fits(mine'[c], origin', issued')
                             /\ \A p \in Profile : Fits(read'[c][p], origin', issued')
BY DEF WholeInv, Whole, Known, Paired, Fits

(* A new answer leaves what is known of the old ones.                      *)
LEMMA FitsKept ==
  ASSUME Typed, NEW n \in Token, Answers(n), NEW e \in Slot, Fits(e, origin, issued)
  PROVE  Fits(e, origin', issued')
<1>1. /\ e.token \in Token \cup {0} /\ e.refresh \in Token \cup {0}
      /\ issued \in 0..MaxToken /\ MaxToken \in Nat
      /\ e.token <= issued /\ e.refresh <= issued
      /\ issued' = issued + 1
  BY SlotFields, ProviderAssumption DEF Typed, TypeOK, Fits, Answers
<1>2. e.token <= issued' /\ e.refresh <= issued'
  BY <1>1 DEF Token
<1>3. \A k \in Token : k <= issued => origin'[k] = origin[k]
  BY <1>1 DEF Answers, Typed, TypeOK, Token
<1>4. ASSUME e.refresh # 0 PROVE e.token # 0
  <2>1. e # NoEntry
    BY <1>4 DEF NoEntry
  <2> QED
    BY <2>1, SlotFields DEF Token
<1> QED
  BY <1>1, <1>2, <1>3, <1>4 DEF Fits

LEMMA NoEntryFits == ASSUME Typed PROVE Fits(NoEntry, origin, issued)
BY DEF Typed, TypeOK, Fits, NoEntry

LEMMA AnswersRooted ==
  ASSUME Typed, NEW n \in Token, Answers(n) PROVE Rooted'
<1>1. issued \in 0..MaxToken /\ MaxToken \in Nat /\ issued' = issued + 1 /\ n # 0
  BY ProviderAssumption DEF Typed, TypeOK, Answers, Token
<1>2. \A k \in 1..issued + 1 : origin'[k] = IF k = issued + 1 THEN n ELSE origin[k]
  BY <1>1 DEF Answers, Typed, TypeOK, Token
<1> QED
  BY <1>1, <1>2 DEF Rooted, Typed

(* The answer of the provider to a refresh or a login is one entry.        *)
LEMMA AnswerFits ==
  ASSUME Typed, NEW n \in Token, Answers(n), NEW e \in Slot, e.token = issued + 1,
         \/ e.refresh \in {0, issued + 1}
         \/ e.refresh \in 1..issued /\ origin[e.refresh] = n
  PROVE  Fits(e, origin', issued')
<1>1. issued \in 0..MaxToken /\ MaxToken \in Nat /\ issued' = issued + 1 /\ issued + 1 \in Token
  BY ProviderAssumption DEF Typed, TypeOK, Answers, Token
<1>2. \A k \in 1..issued + 1 : origin'[k] = IF k = issued + 1 THEN n ELSE origin[k]
  BY <1>1 DEF Answers, Typed, TypeOK, Token
<1> QED
  BY <1>1, <1>2 DEF Fits

(* A command that is to save a refreshed token has one.                    *)
Carries == \A c \in Command : Holds(c) => mine[c].token # 0

LEMMA HeldKnown ==
  ASSUME Typed, Carries, NEW c \in Command, Holds(c)
  PROVE  mine[c].token \in 1..issued
<1>1. mine[c] \in Slot /\ mine[c].token # 0 /\ issued \in Nat /\ MaxToken \in Nat
  BY ProviderAssumption DEF Typed, TypeOK, Carries
<1> QED
  BY <1>1, SlotFields DEF Typed, WholeInv, Whole, Known, Token

LEMMA HeldOrigin ==
  ASSUME Typed, Carries, NEW c \in Command, Holds(c)
  PROVE  origin[mine[c].token] \in Token
<1>1. mine[c].token \in 1..issued /\ issued \in 0..MaxToken /\ MaxToken \in Nat
  BY HeldKnown, ProviderAssumption DEF Typed, TypeOK
<1> QED
  BY <1>1 DEF Typed, TypeOK, Rooted, Token

LEMMA CarriesStep == TypeOK /\ Carries /\ [Next]_vars => Carries'
<1> SUFFICES ASSUME TypeOK, Carries, [Next]_vars PROVE Carries'
  OBVIOUS
<1> USE DEF Carries, Holds
<1>0. CASE UNCHANGED vars
  BY <1>0 DEF vars, commands
<1>E. ASSUME NEW c \in Command, Ends(c) PROVE Carries'
  BY <1>E DEF Ends, TypeOK
<1>1. ASSUME NEW c \in Command, NEW p \in Profile, Load(c, p) \/ LogIn(c, p) \/ LogOut(c, p)
      PROVE  Carries'
  BY <1>1 DEF Load, LogIn, LogOut, GoesToSave, TypeOK
<1>2. ASSUME NEW c \in Command, Exchange(c) PROVE Carries'
  <2>1. issued \in Nat /\ issued + 1 # 0
    BY ProviderAssumption DEF TypeOK
  <2> QED
    BY <1>2, <2>1 DEF Exchange, GoesToSave, Refreshed, TypeOK
<1>3. ASSUME NEW c \in Command, ReadAll(c) PROVE Carries'
  BY <1>3, <1>E DEF ReadAll, TypeOK
<1>4. ASSUME NEW c \in Command,
             ExchangeUnanswered(c) \/ ExchangeRefused(c) \/ WriteAll(c) \/ Cut(c)
      PROVE  Carries'
  BY <1>4, <1>E DEF ExchangeUnanswered, ExchangeRefused, WriteAll, Cut
<1>5. ASSUME NEW n \in Token, Expires(n) PROVE Carries'
  BY <1>5 DEF Expires, commands
<1> QED
  BY <1>0, <1>1, <1>2, <1>3, <1>4, <1>5 DEF Next

LEMMA TypedStep == Typed /\ Carries /\ [Next]_vars => Typed'
<1> SUFFICES ASSUME Typed, Carries, [Next]_vars PROVE Typed'
  OBVIOUS
<1>T. TypeOK /\ WholeInv /\ Rooted
  BY DEF Typed
<1>S. /\ \A p \in Profile : file[p] \in Slot
      /\ \A c \in Command : mine[c] \in Slot /\ \A p \in Profile : read[c][p] \in Slot
  BY <1>T DEF TypeOK
<1>F. /\ \A p \in Profile : Fits(file[p], origin, issued)
      /\ \A c \in Command : /\ Fits(mine[c], origin, issued)
                            /\ \A p \in Profile : Fits(read[c][p], origin, issued)
  BY <1>T, WholeIsFits
<1>N. Fits(NoEntry, origin, issued)
  BY NoEntryFits
<1>0. CASE UNCHANGED vars
  BY <1>0, <1>T DEF vars, Typed, TypeOK, WholeInv, Whole, Known, Paired, Rooted
(* A step that asks nothing of the provider.                               *)
<1>P. ASSUME issued' = issued, origin' = origin, TypeOK',
             \A p \in Profile : Fits(file'[p], origin, issued),
             \A c \in Command : /\ Fits(mine'[c], origin, issued)
                                /\ \A p \in Profile : Fits(read'[c][p], origin, issued)
      PROVE  Typed'
  <2>1. Rooted'
    BY <1>P, <1>T DEF Rooted
  <2> QED
    BY <2>1, <1>P, WholeIsFits DEF Typed
(* A command that ends without a word from the provider.                   *)
<1>E. ASSUME NEW c \in Command, Ends(c), issued' = issued, origin' = origin, TypeOK',
             \A p \in Profile : Fits(file'[p], origin, issued)
      PROVE  Typed'
  <2>1. \A d \in Command : /\ Fits(mine'[d], origin, issued)
                           /\ \A p \in Profile : Fits(read'[d][p], origin, issued)
    BY <1>E, <1>F, <1>N, <1>T DEF Ends, TypeOK
  <2> QED
    BY <2>1, <1>P, <1>E
(* A step in which the provider answers.                                   *)
<1>A. ASSUME NEW n \in Token, Answers(n), NEW c \in Command, NEW e \in Slot,
             Fits(e, origin', issued'), file' = file, mine' = [mine EXCEPT ![c] = e], TypeOK',
             read' = read \/ read' = [read EXCEPT ![c] = [p \in Profile |-> NoEntry]]
      PROVE  Typed'
  <2>1. Rooted'
    BY <1>A, AnswersRooted
  <2>2. \A p \in Profile : Fits(file'[p], origin', issued')
    BY <1>A, <1>S, <1>F, FitsKept
  <2>3. \A d \in Command : Fits(mine[d], origin', issued')
    BY <1>A, <1>S, <1>F, FitsKept
  <2>4. \A d \in Command, p \in Profile : Fits(read[d][p], origin', issued')
    BY <1>A, <1>S, <1>F, FitsKept
  <2>5. Fits(NoEntry, origin', issued')
    BY <1>A, <1>N, NoEntrySlot, FitsKept
  <2>6. \A d \in Command : /\ Fits(mine'[d], origin', issued')
                           /\ \A p \in Profile : Fits(read'[d][p], origin', issued')
    BY <1>A, <1>T, <2>3, <2>4, <2>5 DEF TypeOK
  <2> QED
    BY <2>1, <2>2, <2>6, <1>A, WholeIsFits DEF Typed
<1>1. ASSUME NEW c \in Command, NEW p \in Profile, Load(c, p) PROVE Typed'
  <2>1. TypeOK'
    BY <1>1, <1>T DEF Load, TypeOK, provider
  <2>2. /\ mine' = [mine EXCEPT ![c] = file[p]] /\ file' = file /\ read' = read
        /\ issued' = issued /\ origin' = origin
    BY <1>1 DEF Load, provider
  <2> QED
    BY <2>1, <2>2, <1>P, <1>F, <1>T DEF TypeOK
<1>2. ASSUME NEW c \in Command, NEW p \in Profile, LogIn(c, p) PROVE Typed'
  <2>1. issued + 1 \in Token
    BY <1>2, <1>T, ProviderAssumption DEF LogIn, Answers, TypeOK, Token
  <2>2. PICK told \in TellsExpiry, r \in {0, issued + 1} :
          GoesToSave(c, p, "login",
            [token |-> issued + 1, refresh |-> r, expiry |-> IF told THEN issued + 1 ELSE 0])
    BY <1>2 DEF LogIn
  <2> DEFINE e == [token |-> issued + 1, refresh |-> r, expiry |-> IF told THEN issued + 1 ELSE 0]
  <2>3. e \in Slot
    BY <2>1 DEF Slot, Entry
  <2>4. Answers(issued + 1)
    BY <1>2 DEF LogIn
  <2>5. TypeOK'
    BY <1>2, <1>T, <2>1, <2>2, <2>3, <2>4, SavesType, AnswersType DEF LogIn, TypeOK
  <2>6. Fits(e, origin', issued')
    BY <2>1, <2>3, <2>4, AnswerFits
  <2> QED
    BY <1>2, <1>A, <2>1, <2>2, <2>3, <2>4, <2>5, <2>6 DEF LogIn, GoesToSave
<1>3. ASSUME NEW c \in Command, NEW p \in Profile, LogOut(c, p) PROVE Typed'
  <2>1. GoesToSave(c, p, "logout", NoEntry) /\ file' = file /\ issued' = issued /\ origin' = origin
    BY <1>3 DEF LogOut, provider
  <2>2. TypeOK'
    BY <1>3, <1>T, <2>1, NoEntrySlot, SavesType DEF LogOut, provider, TypeOK
  <2>3. mine' = [mine EXCEPT ![c] = NoEntry] /\ read' = read
    BY <2>1 DEF GoesToSave
  <2> QED
    BY <2>1, <2>2, <2>3, <1>P, <1>F, <1>N, <1>T DEF TypeOK
<1>4. ASSUME NEW c \in Command, Exchange(c) PROVE Typed'
  <2>1. /\ mine[c].refresh \in 1..issued /\ mine[c].refresh \in Token
        /\ origin[mine[c].refresh] \in Token
    BY <1>4, ExchangeOrigin DEF Exchange
  <2>2. issued + 1 \in Token
    BY <1>4, <1>T, ProviderAssumption DEF Exchange, Answers, TypeOK, Token
  <2>3. PICK told \in TellsExpiry : GoesToSave(c, prof[c], "refresh", Refreshed(c, told))
    BY <1>4 DEF Exchange
  <2>4. told \in BOOLEAN
    BY <2>3, ProviderAssumption
  <2>5. Refreshed(c, told) \in Slot
    BY <2>2, <2>4, <1>T, RefreshedType DEF Slot
  <2>6. Answers(origin[mine[c].refresh])
    BY <1>4 DEF Exchange
  <2>7. spent' \subseteq Token
    BY <1>4, <1>T, <2>1 DEF Exchange, TypeOK
  <2>8. TypeOK'
    BY <1>4, <1>T, <2>1, <2>3, <2>5, <2>6, <2>7, SavesType, AnswersType DEF Exchange, TypeOK
  <2>9. Fits(Refreshed(c, told), origin', issued')
    BY <2>1, <2>2, <2>5, <2>6, AnswerFits DEF Refreshed
  <2> QED
    BY <1>4, <1>A, <2>1, <2>3, <2>5, <2>6, <2>8, <2>9 DEF Exchange, GoesToSave
<1>5. ASSUME NEW c \in Command, ExchangeUnanswered(c) PROVE Typed'
  <2>1. mine[c].refresh \in Token /\ origin[mine[c].refresh] \in Token
    BY <1>5, ExchangeOrigin DEF ExchangeUnanswered
  <2>2. Answers(origin[mine[c].refresh])
    BY <1>5 DEF ExchangeUnanswered
  <2>3. TypeOK'
    BY <1>5, <1>T, <2>1, <2>2, EndsType, AnswersType DEF ExchangeUnanswered, TypeOK
  <2>4. Fits(NoEntry, origin', issued')
    BY <2>1, <2>2, <1>N, NoEntrySlot, FitsKept
  <2> QED
    BY <1>5, <1>A, <2>1, <2>2, <2>3, <2>4, NoEntrySlot DEF ExchangeUnanswered, Ends
<1>6. ASSUME NEW c \in Command, ExchangeRefused(c) PROVE Typed'
  <2>1. TypeOK'
    BY <1>6, <1>T, EndsType DEF ExchangeRefused, provider, TypeOK
  <2> QED
    BY <1>6, <2>1, <1>E, <1>F DEF ExchangeRefused, provider
<1>7. ASSUME NEW c \in Command, ReadAll(c) PROVE Typed'
  <2>1. file' = file /\ issued' = issued /\ origin' = origin
    BY <1>7 DEF ReadAll, provider
  <2>2. CASE Ends(c) /\ account' = [account EXCEPT ![prof[c]] = 0]
    <3>1. TypeOK'
      BY <1>7, <2>2, <1>T, EndsType DEF ReadAll, provider, TypeOK
    <3> QED
      BY <2>1, <2>2, <3>1, <1>E, <1>F
  <2>3. CASE /\ pc' = [pc EXCEPT ![c] = "write"] /\ read' = [read EXCEPT ![c] = file]
             /\ UNCHANGED <<job, prof, mine, account>>
    <3>1. TypeOK'
      BY <1>7, <2>3, <1>T DEF ReadAll, provider, TypeOK
    <3> QED
      BY <2>1, <2>3, <3>1, <1>P, <1>F, <1>T DEF TypeOK
  <2> QED
    BY <1>7, <2>2, <2>3 DEF ReadAll
<1>8. ASSUME NEW c \in Command, WriteAll(c) PROVE Typed'
  <2>1. /\ file' = [read[c] EXCEPT ![prof[c]] = mine[c]]
        /\ file' \in [Profile -> Slot]
        /\ issued' = issued /\ origin' = origin /\ Ends(c)
    BY <1>8, <1>T DEF WriteAll, provider, TypeOK
  <2>2. account' \in [Profile -> Token \cup {0}]
    <3>1. mine[c].token \in Token \cup {0}
      BY <1>S, SlotFields
    <3>2. account \in [Profile -> Token \cup {0}] /\ 0 \in Token \cup {0}
      BY <1>T DEF TypeOK
    <3>3. CASE job[c] = "login"
      BY <1>8, <3>1, <3>2, <3>3 DEF WriteAll
    <3>4. CASE job[c] = "logout"
      BY <1>8, <3>2, <3>4 DEF WriteAll
    <3>5. CASE job[c] \notin {"login", "logout"}
      BY <1>8, <3>2, <3>5 DEF WriteAll
    <3> QED
      BY <3>3, <3>4, <3>5
  <2>3. TypeOK'
    BY <1>8, <2>1, <2>2, <1>T, EndsType DEF WriteAll, provider, TypeOK
  <2>4. \A p \in Profile : Fits(file'[p], origin, issued)
    BY <2>1, <1>F, <1>T DEF TypeOK
  <2> QED
    BY <2>1, <2>3, <2>4, <1>E
<1>9. ASSUME NEW c \in Command, Cut(c) PROVE Typed'
  <2>1. dropped' \subseteq Token
    <3>1. ASSUME Holds(c) PROVE origin[mine[c].token] \in Token
      BY <3>1, HeldOrigin DEF Holds
    <3> QED
      BY <3>1, <1>9, <1>T DEF Cut, TypeOK
  <2>2. TypeOK'
    BY <1>9, <1>T, <2>1, EndsType DEF Cut, provider, TypeOK
  <2> QED
    BY <1>9, <2>2, <1>E, <1>F DEF Cut, provider
<1>10. ASSUME NEW n \in Token, Expires(n) PROVE Typed'
  <2>1. TypeOK'
    BY <1>10, <1>T DEF Expires, commands, TypeOK
  <2> QED
    BY <1>10, <2>1, <1>P, <1>F DEF Expires, commands
<1> QED
  BY <1>0, <1>1, <1>2, <1>3, <1>4, <1>5, <1>6, <1>7, <1>8, <1>9, <1>10 DEF Next

-----------------------------------------------------------------------------
LEMMA TypedAlways == Spec => [](Typed /\ Carries)
<1>1. Init => Typed /\ Carries
  BY InitTyped DEF Init, Carries, Holds
<1>2. Typed /\ Carries /\ [Next]_vars => Typed' /\ Carries'
  BY TypedStep, CarriesStep DEF Typed
<1> QED
  BY <1>1, <1>2, PTL DEF Spec

(* Every entry of the file and of every command is one the provider and    *)
(* the program can have made (Creds, creds.go:21-28).                      *)
THEOREM TypeCorrect == Spec => []TypeOK
<1>1. Typed => TypeOK
  BY DEF Typed
<1> QED
  BY <1>1, TypedAlways, PTL

(* However the saves of any number of commands interleave, no entry of the *)
(* file has an access token of one login and a refresh token of another.   *)
THEOREM PairsStay == Spec => []PairsMatch
<1>1. Typed => PairsMatch
  BY DEF Typed, WholeInv, Whole, Paired, PairsMatch
<1> QED
  BY <1>1, TypedAlways, PTL

-----------------------------------------------------------------------------
(* Only refresh tokens that were issued are spent.                         *)
SpentIssued == spent \subseteq 1..issued

LEMMA SpentStep == Typed /\ SpentIssued /\ [Next]_vars => SpentIssued'
<1> SUFFICES ASSUME Typed, SpentIssued, [Next]_vars PROVE SpentIssued'
  OBVIOUS
<1> USE DEF SpentIssued
<1>1. issued \in Nat
  BY ProviderAssumption DEF Typed, TypeOK
<1>2. ASSUME NEW c \in Command, Exchange(c) \/ ExchangeUnanswered(c) PROVE SpentIssued'
  <2>1. mine[c].refresh \in 1..issued /\ issued' = issued + 1
    BY <1>2, ExchangeOrigin DEF Exchange, ExchangeUnanswered, Answers
  <2>2. spent' \subseteq spent \cup {mine[c].refresh}
    BY <1>2 DEF Exchange, ExchangeUnanswered
  <2> QED
    BY <1>1, <2>1, <2>2
<1>3. ASSUME NEW c \in Command, NEW p \in Profile, LogIn(c, p) PROVE SpentIssued'
  BY <1>1, <1>3 DEF LogIn, Answers
<1>4. ASSUME UNCHANGED <<issued, spent>> PROVE SpentIssued'
  BY <1>4
<1> QED
  BY <1>2, <1>3, <1>4
  DEF Next, vars, Load, LogOut, ExchangeRefused, ReadAll, WriteAll, Cut, Expires, provider

Kept == Typed /\ Carries /\ SpentIssued /\ KeptInv /\ RefreshKept

(* An answer leaves the origins of the tokens there are.                   *)
LEMMA OriginsStay ==
  ASSUME Typed, NEW n \in Token, Answers(n), NEW k \in 1..issued
  PROVE  origin'[k] = origin[k]
<1>1. issued \in 0..MaxToken /\ MaxToken \in Nat
  BY ProviderAssumption DEF Typed, TypeOK
<1> QED
  BY <1>1 DEF Answers, Typed, TypeOK, Token

LEMMA KnownRefresh ==
  ASSUME Typed
  PROVE  /\ \A p \in Profile : file[p].refresh \in 0..issued
         /\ \A c \in Command : mine[c].refresh \in 0..issued
<1>1. issued \in Nat /\ MaxToken \in Nat
  BY ProviderAssumption DEF Typed, TypeOK
<1>2. ASSUME NEW e \in Slot, e.refresh <= issued PROVE e.refresh \in 0..issued
  BY <1>1, <1>2, SlotFields DEF Token
<1> QED
  BY <1>2 DEF Typed, TypeOK, WholeInv, Whole, Known

(* A step by which nobody gets or loses a refresh token.                   *)
LEMMA KeptByNothing ==
  ASSUME Typed, KeptInv, RefreshKept, UNCHANGED <<file, mine, provider, dropped>>,
         \A c \in Command : (Busy(c)' => Busy(c)) /\ (Holds(c) => Holds(c)')
  PROVE  KeptInv' /\ RefreshKept'
<1>1. KeptInv'
  BY DEF KeptInv, Unshared, provider
<1>2. RefreshKept'
  BY DEF RefreshKept, provider
<1> QED
  BY <1>1, <1>2

(* A command that ends, holding nothing or recorded as dropped.            *)
LEMMA KeptByEnd ==
  ASSUME Typed, Carries, KeptInv, RefreshKept, NEW c \in Command, Ends(c),
         UNCHANGED <<file, provider>>, dropped \subseteq dropped',
         Holds(c) => origin[mine[c].token] \in dropped'
  PROVE  KeptInv' /\ RefreshKept'
<1>1. /\ mine'[c].refresh = 0 /\ ~Busy(c)'
      /\ \A d \in Command \ {c} : mine'[d] = mine[d] /\ pc'[d] = pc[d] /\ job'[d] = job[d]
  BY NoEntrySlot DEF Ends, Typed, TypeOK, Busy
<1>2. KeptInv'
  BY <1>1 DEF KeptInv, Unshared, Busy, provider
<1>3. RefreshKept'
  <2> SUFFICES ASSUME NEW p \in Profile, file[p].refresh \in spent,
                      origin[file[p].refresh] \notin dropped'
               PROVE  \E d \in Command : Holds(d)' /\ origin[mine'[d].token] = origin[file[p].refresh]
    BY DEF RefreshKept, provider
  <2>1. PICK d \in Command : Holds(d) /\ origin[mine[d].token] = origin[file[p].refresh]
    BY DEF RefreshKept
  <2>2. d # c
    BY <2>1
  <2> QED
    BY <2>1, <2>2, <1>1 DEF Holds
<1> QED
  BY <1>2, <1>3

(* A save into the only profile there is.                                  *)
LEMMA KeptByWrite ==
  ASSUME OneProfile, Kept, NEW c \in Command, WriteAll(c)
  PROVE  KeptInv' /\ RefreshKept'
<1>K. Typed /\ TypeOK /\ KeptInv /\ RefreshKept
  BY DEF Kept, Typed
<1>1. /\ \A p \in Profile : file'[p] = mine[c]
      /\ UNCHANGED <<provider, dropped>>
  BY <1>K DEF WriteAll, TypeOK, OneProfile
<1>2. /\ mine'[c].refresh = 0 /\ ~Busy(c)' /\ Busy(c)
      /\ \A d \in Command \ {c} : mine'[d] = mine[d] /\ pc'[d] = pc[d] /\ job'[d] = job[d]
  BY <1>K, NoEntrySlot DEF WriteAll, Ends, TypeOK, Busy
<1>3. KeptInv'
  BY <1>1, <1>2, <1>K DEF KeptInv, Unshared, Busy, provider
<1>4. RefreshKept'
  BY <1>1, <1>2, <1>K DEF RefreshKept, KeptInv, Unshared, provider
<1> QED
  BY <1>3, <1>4

(* Every other step keeps it, however many profiles there are.             *)
LEMMA KeptStep ==
  ASSUME Kept, [Next]_vars,
         \A c \in Command : WriteAll(c) => KeptInv' /\ RefreshKept'
  PROVE  Kept'
<1> SUFFICES KeptInv' /\ RefreshKept'
  BY TypedStep, CarriesStep, SpentStep DEF Kept, Typed
<1>K. Typed /\ TypeOK /\ Carries /\ SpentIssued /\ KeptInv /\ RefreshKept /\ issued \in Nat
  BY ProviderAssumption DEF Kept, Typed, TypeOK
<1>R. /\ \A p \in Profile : file[p].refresh \in 0..issued
      /\ \A c \in Command : mine[c].refresh \in 0..issued
  BY <1>K, KnownRefresh
<1>0. CASE UNCHANGED vars
  BY <1>0, <1>K, KeptByNothing DEF vars, commands, provider, Busy, Holds
<1>1. ASSUME NEW c \in Command, NEW p \in Profile, Load(c, p) PROVE KeptInv' /\ RefreshKept'
  <2>1. /\ pc[c] = "idle" /\ pc'[c] = "exchange" /\ mine'[c] = file[p] /\ file[p].refresh # 0
        /\ \A d \in Command \ {c} : mine'[d] = mine[d] /\ pc'[d] = pc[d] /\ job'[d] = job[d]
        /\ UNCHANGED <<file, provider, dropped>>
    BY <1>1, <1>K DEF Load, TypeOK
  <2>2. KeptInv'
    BY <2>1, <1>K DEF KeptInv, Unshared, Busy, provider
  <2>3. RefreshKept'
    BY <2>1, <1>K DEF RefreshKept, Holds, provider
  <2> QED
    BY <2>2, <2>3
<1>2. ASSUME NEW c \in Command, NEW p \in Profile, LogIn(c, p) PROVE KeptInv' /\ RefreshKept'
  <2>1. issued + 1 \in Token /\ Answers(issued + 1) /\ issued' = issued + 1
    BY <1>2, <1>K, ProviderAssumption DEF LogIn, Answers, TypeOK, Token
  <2>2. /\ pc[c] = "idle" /\ mine'[c].refresh \in {0, issued + 1}
        /\ \A d \in Command \ {c} : mine'[d] = mine[d] /\ pc'[d] = pc[d] /\ job'[d] = job[d]
        /\ UNCHANGED <<file, spent, dropped>>
    BY <1>2, <1>K DEF LogIn, GoesToSave, TypeOK
  <2>3. KeptInv'
    BY <2>2, <1>K, <1>R DEF KeptInv, Unshared, Busy, SpentIssued
  <2>4. ASSUME NEW q \in Profile, file[q].refresh \in spent
        PROVE  origin'[file[q].refresh] = origin[file[q].refresh]
    BY <2>1, <2>4, <1>K, OriginsStay DEF SpentIssued
  <2>5. ASSUME NEW d \in Command, Holds(d) PROVE origin'[mine[d].token] = origin[mine[d].token]
    BY <2>1, <2>5, <1>K, HeldKnown, OriginsStay
  <2>6. RefreshKept'
    <3> SUFFICES ASSUME NEW q \in Profile, file[q].refresh \in spent,
                        origin[file[q].refresh] \notin dropped
                 PROVE  \E d \in Command : Holds(d)' /\ origin'[mine'[d].token] = origin[file[q].refresh]
      BY <2>2, <2>4 DEF RefreshKept
    <3>1. PICK d \in Command : Holds(d) /\ origin[mine[d].token] = origin[file[q].refresh]
      BY <1>K DEF RefreshKept
    <3> QED
      BY <3>1, <2>2, <2>5 DEF Holds
  <2> QED
    BY <2>3, <2>6
<1>3. ASSUME NEW c \in Command, NEW p \in Profile, LogOut(c, p) PROVE KeptInv' /\ RefreshKept'
  <2>1. /\ pc[c] = "idle" /\ mine'[c].refresh = 0
        /\ \A d \in Command \ {c} : mine'[d] = mine[d] /\ pc'[d] = pc[d] /\ job'[d] = job[d]
        /\ UNCHANGED <<file, provider, dropped>>
    BY <1>3, <1>K, NoEntrySlot DEF LogOut, GoesToSave, TypeOK
  <2>2. KeptInv'
    BY <2>1, <1>K, <1>R DEF KeptInv, Unshared, Busy, SpentIssued, provider
  <2>3. RefreshKept'
    BY <2>1, <1>K DEF RefreshKept, Holds, provider
  <2> QED
    BY <2>2, <2>3
<1>4. ASSUME NEW c \in Command, Exchange(c) \/ ExchangeUnanswered(c) PROVE KeptInv' /\ RefreshKept'
  <2>1. /\ pc[c] = "exchange" /\ mine[c].refresh \notin spent /\ mine[c].refresh \in 1..issued
        /\ origin[mine[c].refresh] \in Token /\ Answers(origin[mine[c].refresh])
        /\ issued' = issued + 1 /\ issued + 1 \in Token
        /\ spent' = IF Rotating THEN spent \cup {mine[c].refresh} ELSE spent
        /\ file' = file
    BY <1>4, <1>K, ExchangeOrigin, AnswersType DEF Exchange, ExchangeUnanswered
  <2>2. /\ ~Rotating => spent' = {}
        /\ \A d \in Command : Busy(d) => mine[d].refresh \notin spent'
    BY <2>1, <1>K, <1>R DEF KeptInv, Unshared, Busy
  <2>3. \A d \in Command \ {c} : mine'[d] = mine[d] /\ pc'[d] = pc[d] /\ job'[d] = job[d]
    BY <1>4, <1>K DEF Exchange, ExchangeUnanswered, GoesToSave, Ends, TypeOK
  <2>4. ASSUME NEW q \in Profile, file[q].refresh \in spent'
        PROVE  origin'[file[q].refresh] = origin[file[q].refresh]
    BY <2>1, <2>4, <1>K, OriginsStay DEF SpentIssued
  <2>5. ASSUME NEW d \in Command, Holds(d) PROVE origin'[mine[d].token] = origin[mine[d].token]
    BY <2>1, <2>5, <1>K, HeldKnown, OriginsStay
  <2>6. origin'[issued + 1] = origin[mine[c].refresh]
    BY <2>1, <1>K DEF Answers, TypeOK
  <2>7. ASSUME NEW q \in Profile, file[q].refresh \in spent, origin[file[q].refresh] \notin dropped
        PROVE  \E d \in Command : Holds(d)' /\ origin'[mine'[d].token] = origin[file[q].refresh]
    <3>1. PICK d \in Command : Holds(d) /\ origin[mine[d].token] = origin[file[q].refresh]
      BY <2>7, <1>K DEF RefreshKept
    <3> QED
      BY <3>1, <2>1, <2>3, <2>5 DEF Holds
  <2>8. CASE Exchange(c)
    <3>1. PICK told \in TellsExpiry : GoesToSave(c, prof[c], "refresh", Refreshed(c, told))
      BY <2>8 DEF Exchange
    <3>2. /\ pc'[c] = "read" /\ job'[c] = "refresh" /\ mine'[c] = Refreshed(c, told)
      BY <3>1, <1>K DEF GoesToSave, TypeOK
    <3>3. /\ mine'[c].token = issued + 1
          /\ mine'[c].refresh = IF Rotating THEN issued + 1 ELSE mine[c].refresh
      BY <3>2 DEF Refreshed
    <3>4. KeptInv'
      BY <2>1, <2>2, <2>3, <3>2, <3>3, <1>K, <1>R DEF KeptInv, Unshared, Busy, SpentIssued
    <3>5. RefreshKept'
      <4> SUFFICES ASSUME NEW q \in Profile, file[q].refresh \in spent',
                          origin[file[q].refresh] \notin dropped
                   PROVE  \E d \in Command : Holds(d)' /\ origin'[mine'[d].token] = origin[file[q].refresh]
        BY <2>1, <2>4, <2>8 DEF RefreshKept, Exchange
      <4>1. CASE file[q].refresh \in spent
        BY <4>1, <2>7
      <4>2. CASE file[q].refresh = mine[c].refresh
        BY <4>2, <3>2, <3>3, <2>6 DEF Holds
      <4> QED
        BY <4>1, <4>2, <2>1
    <3> QED
      BY <3>4, <3>5
  <2>9. CASE ExchangeUnanswered(c)
    <3>1. /\ dropped' = dropped \cup {origin[mine[c].refresh]}
          /\ mine'[c].refresh = 0 /\ ~Busy(c)'
      BY <2>9, <1>K, NoEntrySlot DEF ExchangeUnanswered, Ends, TypeOK, Busy
    <3>2. KeptInv'
      BY <2>1, <2>2, <2>3, <3>1, <1>K, <1>R DEF KeptInv, Unshared, Busy
    <3>3. RefreshKept'
      <4> SUFFICES ASSUME NEW q \in Profile, file[q].refresh \in spent',
                          origin[file[q].refresh] \notin dropped'
                   PROVE  \E d \in Command : Holds(d)' /\ origin'[mine'[d].token] = origin[file[q].refresh]
        BY <2>1, <2>4 DEF RefreshKept
      <4> QED
        BY <2>1, <2>7, <3>1
    <3> QED
      BY <3>2, <3>3
  <2> QED
    BY <1>4, <2>8, <2>9
<1>5. ASSUME NEW c \in Command, ExchangeRefused(c) PROVE KeptInv' /\ RefreshKept'
  BY <1>5, <1>K, KeptByEnd DEF ExchangeRefused, Holds
<1>6. ASSUME NEW c \in Command, ReadAll(c) PROVE KeptInv' /\ RefreshKept'
  <2>1. CASE job[c] = "logout" /\ Ends(c)
    BY <1>6, <2>1, <1>K, KeptByEnd DEF ReadAll, Holds
  <2>2. CASE pc' = [pc EXCEPT ![c] = "write"] /\ UNCHANGED <<job, mine>>
    BY <1>6, <2>2, <1>K, KeptByNothing DEF ReadAll, Holds, Busy, TypeOK
  <2> QED
    BY <1>6, <2>1, <2>2 DEF ReadAll
<1>7. ASSUME NEW c \in Command, WriteAll(c) PROVE KeptInv' /\ RefreshKept'
  BY <1>7
<1>8. ASSUME NEW c \in Command, Cut(c) PROVE KeptInv' /\ RefreshKept'
  BY <1>8, <1>K, KeptByEnd DEF Cut
<1>9. ASSUME NEW n \in Token, Expires(n) PROVE KeptInv' /\ RefreshKept'
  BY <1>9, <1>K DEF Expires, commands, KeptInv, RefreshKept, Unshared, Busy, Holds
<1> QED
  BY <1>0, <1>1, <1>2, <1>3, <1>4, <1>5, <1>6, <1>7, <1>8, <1>9 DEF Next

(* With one profile, a rotated refresh token is lost only with the command *)
(* that held it, however many commands run at once (refreshStored,         *)
(* common.go:203-227).                                                     *)
THEOREM RefreshTokenKept == ASSUME OneProfile PROVE Spec => []RefreshKept
<1>1. Init => Kept
  BY InitTyped
  DEF Init, Kept, Carries, Holds, SpentIssued, KeptInv, RefreshKept, Busy
<1>2. OneProfile
  OBVIOUS
<1>3. Kept /\ [Next]_vars => Kept'
  BY <1>2, KeptStep, KeptByWrite
<1>4. Kept => RefreshKept
  BY DEF Kept
<1> QED
  BY <1>1, <1>3, <1>4, PTL DEF Spec

-----------------------------------------------------------------------------
Alone == Typed /\ Carries /\ AloneInv /\ LastWordHolds

LEMMA AloneStep == OneAtATime /\ Alone /\ [Next]_vars => Alone'
<1> SUFFICES ASSUME OneAtATime, Alone, [Next]_vars PROVE AloneInv' /\ LastWordHolds'
  BY TypedStep, CarriesStep DEF Alone, Typed
<1>K. Typed /\ TypeOK /\ WholeInv /\ Carries /\ AloneInv /\ LastWordHolds /\ issued \in Nat
  BY ProviderAssumption DEF Alone, Typed, TypeOK
<1>0. CASE UNCHANGED vars
  BY <1>0, <1>K DEF vars, commands, AloneInv, LastWordHolds, Busy
<1>E. ASSUME NEW c \in Command, Ends(c) PROVE AloneInv'
  <2>1. \A d \in Command : pc'[d] = "idle"
    BY <1>E, <1>K DEF Ends, TypeOK, OneAtATime
  <2> QED
    BY <2>1 DEF AloneInv, Busy
(* The login of what is in the file is the same after an answer.           *)
<1>O. ASSUME NEW n \in Token, Answers(n), UNCHANGED <<file, account>> PROVE LastWordHolds'
  <2>1. ASSUME NEW p \in Profile, file[p] # NoEntry PROVE file[p].token \in 1..issued
    BY <2>1, <1>K, SlotFields DEF TypeOK, WholeInv, Whole, Known, Token
  <2>2. ASSUME NEW p \in Profile, file[p] # NoEntry
        PROVE  origin'[file[p].token] = origin[file[p].token]
    BY <2>1, <2>2, <1>O, <1>K, OriginsStay
  <2> QED
    BY <2>2, <1>O, <1>K DEF LastWordHolds
<1>1. ASSUME NEW c \in Command, NEW p \in Profile, Load(c, p) PROVE AloneInv' /\ LastWordHolds'
  <2>1. /\ pc'[c] = "exchange" /\ mine'[c] = file[p] /\ file[p] # NoEntry /\ prof'[c] = p
        /\ UNCHANGED <<file, account, origin>>
    BY <1>1, <1>K, NoEntrySlot DEF Load, TypeOK, provider
  <2>2. origin[file[p].token] = account[p]
    BY <2>1, <1>K DEF LastWordHolds
  <2>3. AloneInv'
    BY <2>1, <2>2 DEF AloneInv, Busy, OneAtATime
  <2> QED
    BY <2>1, <2>3, <1>K DEF LastWordHolds
<1>2. ASSUME NEW c \in Command, NEW p \in Profile, LogIn(c, p) PROVE AloneInv' /\ LastWordHolds'
  <2>1. issued + 1 \in Token /\ Answers(issued + 1) /\ UNCHANGED <<file, account>>
    BY <1>2, <1>K, ProviderAssumption DEF LogIn, Answers, TypeOK, Token
  <2>2. pc'[c] = "read" /\ job'[c] = "login" /\ mine'[c].token = issued + 1
    BY <1>2, <1>K DEF LogIn, GoesToSave, TypeOK
  <2>3. origin'[issued + 1] = issued + 1
    BY <2>1, <1>K DEF Answers, TypeOK
  <2>4. mine'[c] # NoEntry
    BY <2>2, <1>K, NoEntrySlot
  <2>5. AloneInv'
    BY <2>2, <2>3, <2>4 DEF AloneInv, Busy, OneAtATime
  <2> QED
    BY <2>1, <2>5, <1>O
<1>3. ASSUME NEW c \in Command, NEW p \in Profile, LogOut(c, p) PROVE AloneInv' /\ LastWordHolds'
  <2>1. /\ pc'[c] = "read" /\ job'[c] = "logout" /\ mine'[c] = NoEntry
        /\ UNCHANGED <<file, account, origin>>
    BY <1>3, <1>K DEF LogOut, GoesToSave, TypeOK, provider
  <2>2. AloneInv'
    BY <2>1 DEF AloneInv, Busy, OneAtATime
  <2> QED
    BY <2>1, <2>2, <1>K DEF LastWordHolds
<1>4. ASSUME NEW c \in Command, Exchange(c) PROVE AloneInv' /\ LastWordHolds'
  <2>1. /\ mine[c].refresh # 0 /\ origin[mine[c].refresh] \in Token /\ pc[c] = "exchange"
        /\ Answers(origin[mine[c].refresh]) /\ UNCHANGED <<file, account>>
    BY <1>4, <1>K, ExchangeOrigin DEF Exchange, TypeOK
  <2>2. issued + 1 \in Token
    BY <2>1, <1>K, AnswersType
  <2>3. PICK told \in TellsExpiry : GoesToSave(c, prof[c], "refresh", Refreshed(c, told))
    BY <1>4 DEF Exchange
  <2>4. /\ pc'[c] = "read" /\ job'[c] = "refresh" /\ prof'[c] = prof[c]
        /\ mine'[c] = Refreshed(c, told)
    BY <2>3, <1>K DEF GoesToSave, TypeOK
  <2>5. origin[mine[c].refresh] = account[prof[c]]
    BY <2>1, <1>K DEF AloneInv, WholeInv, Whole, Paired
  <2>6. origin'[issued + 1] = account'[prof[c]]
    BY <2>1, <2>2, <2>5, <1>K DEF Answers, TypeOK
  <2>7. mine'[c].token = issued + 1 /\ mine'[c] # NoEntry
    BY <2>4, <1>K, NoEntrySlot DEF Refreshed
  <2>8. AloneInv'
    BY <2>4, <2>6, <2>7 DEF AloneInv, Busy, OneAtATime
  <2> QED
    BY <2>1, <2>8, <1>O
<1>5. ASSUME NEW c \in Command, ExchangeUnanswered(c) PROVE AloneInv' /\ LastWordHolds'
  <2>1. /\ origin[mine[c].refresh] \in Token /\ Answers(origin[mine[c].refresh])
        /\ UNCHANGED <<file, account>> /\ Ends(c)
    BY <1>5, <1>K, ExchangeOrigin DEF ExchangeUnanswered
  <2> QED
    BY <2>1, <1>E, <1>O
<1>6. ASSUME NEW c \in Command, ExchangeRefused(c) \/ Cut(c) PROVE AloneInv' /\ LastWordHolds'
  <2>1. Ends(c) /\ UNCHANGED <<file, account, origin>>
    BY <1>6 DEF ExchangeRefused, Cut, provider
  <2> QED
    BY <2>1, <1>E, <1>K DEF LastWordHolds
<1>7. ASSUME NEW c \in Command, ReadAll(c) PROVE AloneInv' /\ LastWordHolds'
  <2>1. UNCHANGED <<file, origin>>
    BY <1>7 DEF ReadAll, provider
  <2>2. CASE /\ job[c] = "logout" /\ file[prof[c]] = NoEntry /\ Ends(c)
             /\ account' = [account EXCEPT ![prof[c]] = 0]
    <3>1. LastWordHolds'
      BY <2>1, <2>2, <1>K DEF LastWordHolds, TypeOK
    <3> QED
      BY <2>2, <3>1, <1>E
  <2>3. CASE /\ pc' = [pc EXCEPT ![c] = "write"] /\ read' = [read EXCEPT ![c] = file]
             /\ UNCHANGED <<job, prof, mine, account>>
    <3>1. pc[c] = "read" /\ pc'[c] = "write" /\ read'[c] = file'
      BY <1>7, <2>1, <2>3, <1>K DEF ReadAll, TypeOK
    <3>2. AloneInv'
      BY <2>1, <2>3, <3>1, <1>K DEF AloneInv, Busy, OneAtATime
    <3> QED
      BY <2>1, <2>3, <3>2, <1>K DEF LastWordHolds
  <2> QED
    BY <1>7, <2>2, <2>3 DEF ReadAll
<1>8. ASSUME NEW c \in Command, WriteAll(c) PROVE AloneInv' /\ LastWordHolds'
  <2>1. /\ pc[c] = "write" /\ read[c] = file /\ prof[c] \in Profile /\ UNCHANGED origin
        /\ Ends(c) /\ job[c] \in {"login", "logout", "refresh"}
    BY <1>8, <1>K DEF WriteAll, AloneInv, TypeOK, provider, Busy
  <2>2. file'[prof[c]] = mine[c] /\ \A p \in Profile \ {prof[c]} : file'[p] = file[p]
    BY <1>8, <2>1, <1>K DEF WriteAll, TypeOK
  <2>3. \A p \in Profile \ {prof[c]} : account'[p] = account[p]
    BY <1>8, <1>K DEF WriteAll, TypeOK
  <2>4. account'[prof[c]] = IF mine[c] = NoEntry THEN 0 ELSE origin[mine[c].token]
    <3>1. CASE job[c] = "login"
      BY <3>1, <2>1, <1>8, <1>K DEF WriteAll, TypeOK, AloneInv, Busy
    <3>2. CASE job[c] = "logout"
      BY <3>2, <2>1, <1>8, <1>K DEF WriteAll, TypeOK, AloneInv, Busy
    <3>3. CASE job[c] = "refresh"
      BY <3>3, <2>1, <1>8, <1>K DEF WriteAll, TypeOK, AloneInv, Busy
    <3> QED
      BY <2>1, <3>1, <3>2, <3>3
  <2>5. LastWordHolds'
    BY <2>1, <2>2, <2>3, <2>4, <1>K DEF LastWordHolds
  <2> QED
    BY <2>1, <2>5, <1>E
<1>9. ASSUME NEW n \in Token, Expires(n) PROVE AloneInv' /\ LastWordHolds'
  BY <1>9, <1>K DEF Expires, commands, AloneInv, LastWordHolds, Busy
<1> QED
  BY <1>0, <1>1, <1>2, <1>3, <1>4, <1>5, <1>6, <1>7, <1>8, <1>9 DEF Next

LEMMA AloneAlways == ASSUME OneAtATime PROVE Spec => []Alone
<1>1. Init => Alone
  BY InitTyped
  DEF Init, Alone, Carries, Holds, AloneInv, LastWordHolds, Busy
<1>2. OneAtATime
  OBVIOUS
<1>3. Alone /\ [Next]_vars => Alone'
  BY <1>2, AloneStep
<1> QED
  BY <1>1, <1>3, PTL DEF Spec

(* Without commands at the same time, what was last reported is what the   *)
(* file says, whatever command is interrupted (writeAll's rename).         *)
THEOREM LastWordIsKept == ASSUME OneAtATime PROVE Spec => []LastWordHolds
<1>1. Alone => LastWordHolds
  BY DEF Alone
<1> QED
  BY <1>1, AloneAlways, PTL

(* Without commands at the same time, a save or a delete leaves the other  *)
(* profiles' entries (Save, creds.go:75).                                  *)
THEOREM OthersAreLeft == ASSUME OneAtATime PROVE Spec => SaveLeavesOthers
<1>1. ASSUME Alone, [Next]_vars
      PROVE  [\A p \in Profile :
               file'[p] # file[p] => \E c \in Command : pc[c] = "write" /\ prof[c] = p]_vars
  <2>1. CASE \E c \in Command : WriteAll(c)
    BY <2>1, <1>1 DEF WriteAll, Alone, AloneInv, Typed, TypeOK
  <2>2. CASE UNCHANGED file
    BY <2>2
  <2> QED
    BY <1>1, <2>1, <2>2
    DEF Next, vars, Load, LogIn, LogOut, Exchange, ExchangeUnanswered, ExchangeRefused,
        ReadAll, Cut, Expires
<1>2. Spec => []Alone
  BY AloneAlways
<1>3. Spec => [][\A p \in Profile :
               file'[p] # file[p] => \E c \in Command : pc[c] = "write" /\ prof[c] = p]_vars
  BY <1>1, <1>2, PTL DEF Spec
<1> QED
  BY <1>3 DEF SaveLeavesOthers
-----------------------------------------------------------------------------
(* Many profiles. A login belongs to one profile's account, so that a      *)
(* command that holds the successor of a refresh token holds it for the    *)
(* profile whose entry has the token.                                      *)
DistinctInv ==
  /\ \A p \in Profile : account[p] <= issued
  /\ \A p, q \in Profile : account[p] # 0 /\ p # q => account[p] # account[q]
  /\ \A c \in Command : Busy(c) /\ job[c] = "login" =>
       \A p \in Profile : account[p] # mine[c].token

LEMMA DistinctStep == OneAtATime /\ Alone /\ DistinctInv /\ [Next]_vars => DistinctInv'
<1> SUFFICES ASSUME OneAtATime, Alone, DistinctInv, [Next]_vars PROVE DistinctInv'
  OBVIOUS
<1>K. Typed /\ TypeOK /\ WholeInv /\ AloneInv /\ issued \in Nat /\ issued' \in Nat
      /\ account \in [Profile -> Token \cup {0}] /\ Token \subseteq Nat
  <2>1. Typed'
    BY AloneStep DEF Alone
  <2> QED
    BY <2>1, ProviderAssumption DEF Alone, Typed, TypeOK, Token
<1>0. issued' >= issued
  <2>1. UNCHANGED issued \/ issued' = issued + 1
    BY DEF Next, vars, Load, LogIn, LogOut, Exchange, ExchangeUnanswered, ExchangeRefused,
           ReadAll, WriteAll, Cut, Expires, Answers, provider
  <2> QED
    BY <2>1, <1>K
<1>N. ASSUME NEW q \in Profile
      PROVE  account[q] \in Nat /\ account[q] <= issued /\ account[q] <= issued'
  <2>1. account[q] \in Nat
    <3>1. account[q] \in Token \cup {0} /\ 0 \in Nat
      BY <1>K
    <3> QED
      BY <1>K, <3>1
  <2>2. account[q] <= issued
    BY DEF DistinctInv
  <2> QED
    BY <1>0, <1>K, <2>1, <2>2
<1>1. ASSUME NEW c \in Command, NEW p \in Profile, LogIn(c, p) PROVE DistinctInv'
  <2>1. account' = account /\ pc' = [pc EXCEPT ![c] = "read"] /\ mine'[c].token = issued + 1
    BY <1>1, <1>K DEF LogIn, GoesToSave, TypeOK
  <2>2. \A q \in Profile : account[q] # issued + 1 /\ account[q] <= issued'
    BY <1>K, <1>N
  <2> QED
    BY <2>1, <2>2 DEF DistinctInv, OneAtATime
(* Every other step that leaves the accounts brings no login to save.      *)
<1>2. ASSUME account' = account,
             \A c \in Command : (Busy(c) /\ job[c] = "login")' =>
                                  Busy(c) /\ job[c] = "login" /\ mine'[c] = mine[c]
      PROVE  DistinctInv'
  <2>1. \A p \in Profile : account'[p] <= issued'
    BY <1>2, <1>N
  <2> QED
    BY <1>2, <2>1 DEF DistinctInv
<1>3. ASSUME NEW c \in Command, Ends(c), NEW a \in Token \cup {0}, NEW p \in Profile,
             account' = [account EXCEPT ![p] = a], a <= issued,
             \A q \in Profile : a # 0 /\ q # p => account[q] # a
      PROVE  DistinctInv'
  <2>1. \A d \in Command : ~Busy(d)'
    BY <1>3, <1>K DEF Ends, TypeOK, OneAtATime, Busy
  <2>2. ASSUME NEW q \in Profile PROVE account'[q] <= issued'
    <3>1. a <= issued' /\ account'[q] \in {a, account[q]}
      BY <1>0, <1>3, <1>K
    <3> QED
      BY <1>N, <3>1
  <2>3. \A q, r \in Profile : account'[q] # 0 /\ q # r => account'[q] # account'[r]
    BY <1>3, <1>K DEF DistinctInv
  <2> QED
    BY <2>1, <2>2, <2>3 DEF DistinctInv
<1>4. ASSUME NEW c \in Command, WriteAll(c) PROVE DistinctInv'
  <2>1. Busy(c) /\ Ends(c) /\ prof[c] \in Profile
    BY <1>4, <1>K DEF WriteAll, Busy, TypeOK
  <2>2. CASE job[c] = "login"
    <3>1. mine[c] \in Slot /\ mine[c].token <= issued
      BY <1>K DEF TypeOK, WholeInv, Whole, Known
    <3>2. account' = [account EXCEPT ![prof[c]] = mine[c].token]
      BY <1>4, <2>2 DEF WriteAll
    <3>3. mine[c].token \in Token \cup {0} /\ \A q \in Profile : account[q] # mine[c].token
      BY <2>1, <2>2, <3>1, SlotFields DEF DistinctInv
    <3> QED
      BY <1>3, <2>1, <3>1, <3>2, <3>3
  <2>3. CASE job[c] = "logout"
    <3>1. account' = [account EXCEPT ![prof[c]] = 0]
      BY <1>4, <2>3 DEF WriteAll
    <3>2. 0 <= issued
      BY <1>K
    <3> QED
      BY <1>3, <2>1, <3>1, <3>2
  <2>4. CASE job[c] \notin {"login", "logout"}
    <3>1. account' = account
      BY <1>4, <1>K, <2>4 DEF WriteAll, TypeOK
    <3>2. \A d \in Command : ~Busy(d)'
      BY <2>1, <1>K DEF Ends, TypeOK, OneAtATime, Busy
    <3> QED
      BY <1>2, <3>1, <3>2
  <2> QED
    BY <2>2, <2>3, <2>4
<1>5. ASSUME NEW c \in Command, ReadAll(c) PROVE DistinctInv'
  <2>1. CASE /\ account' = [account EXCEPT ![prof[c]] = 0] /\ Ends(c)
    <3>1. prof[c] \in Profile
      BY <1>K DEF TypeOK
    <3>2. 0 <= issued
      BY <1>K
    <3> QED
      BY <1>3, <2>1, <3>1, <3>2
  <2>2. CASE pc' = [pc EXCEPT ![c] = "write"] /\ UNCHANGED <<job, mine, account>>
    BY <1>2, <1>5, <1>K, <2>2 DEF ReadAll, Busy, TypeOK
  <2> QED
    BY <1>5, <2>1, <2>2 DEF ReadAll
<1>6. ASSUME NEW c \in Command, NEW p \in Profile,
             Load(c, p) \/ LogOut(c, p) \/ Exchange(c)
      PROVE  DistinctInv'
  <2>1. account' = account /\ job'[c] # "login"
    BY <1>6, <1>K DEF Load, LogOut, Exchange, GoesToSave, TypeOK
  <2>2. \A d \in Command : ~(Busy(d) /\ job[d] = "login")'
    BY <2>1 DEF OneAtATime
  <2> QED
    BY <1>2, <2>1, <2>2
<1>7. ASSUME NEW c \in Command, ExchangeUnanswered(c) \/ ExchangeRefused(c) \/ Cut(c)
      PROVE  DistinctInv'
  <2>1. account' = account /\ Ends(c)
    BY <1>7 DEF ExchangeUnanswered, ExchangeRefused, Cut
  <2>2. \A d \in Command : ~Busy(d)'
    BY <2>1, <1>K DEF Ends, TypeOK, OneAtATime, Busy
  <2> QED
    BY <1>2, <2>1, <2>2
<1>8. ASSUME NEW n \in Token, Expires(n) PROVE DistinctInv'
  BY <1>2, <1>8 DEF Expires, commands, Busy
<1>9. CASE UNCHANGED vars
  BY <1>2, <1>9 DEF vars, Busy
<1> QED
  <2>1. \A c \in Command : prof[c] \in Profile
    BY <1>K DEF TypeOK
  <2> QED
    BY <1>1, <1>4, <1>5, <1>6, <1>7, <1>8, <1>9, <2>1 DEF Next

(* A save, when its command has found the file as it still is.             *)
LEMMA KeptByLoneWrite ==
  ASSUME OneAtATime, Kept, Alone, DistinctInv, NEW c \in Command, WriteAll(c)
  PROVE  KeptInv' /\ RefreshKept'
<1>K. Typed /\ TypeOK /\ KeptInv /\ RefreshKept /\ AloneInv /\ LastWordHolds /\ SpentIssued
  BY DEF Kept, Typed, Alone
<1>1. /\ Busy(c) /\ prof[c] \in Profile /\ read[c] = file /\ Ends(c)
      /\ UNCHANGED <<provider, dropped>> /\ file' = [read[c] EXCEPT ![prof[c]] = mine[c]]
  BY <1>K DEF WriteAll, Busy, AloneInv, TypeOK
<1>2. \A d \in Command : ~Busy(d)'
  BY <1>1, <1>K DEF Ends, TypeOK, OneAtATime, Busy
<1>3. KeptInv'
  BY <1>1, <1>2, <1>K DEF KeptInv, provider
<1>4. ASSUME NEW p \in Profile, file'[p].refresh \in spent
      PROVE  origin[file'[p].refresh] \in dropped
  <2>1. p # prof[c] /\ file'[p] = file[p]
    BY <1>1, <1>4, <1>K DEF KeptInv, Unshared, TypeOK
  <2>2. file[p].refresh # 0 /\ file[p] # NoEntry
    BY <1>4, <1>K, <2>1, NoEntrySlot DEF SpentIssued
  <2>3. origin[file[p].refresh] = account[p]
    BY <2>2, <1>K DEF LastWordHolds, WholeInv, Whole, Paired, Typed
  <2>4. ASSUME NEW d \in Command, Holds(d), origin[mine[d].token] = account[p] PROVE FALSE
    <3>1. d = c
      BY DEF OneAtATime
    <3>2. account[prof[c]] = account[p]
      BY <2>4, <3>1, <1>K DEF AloneInv, Holds, Busy
    <3>3. account[p] # 0
      BY <2>4, <1>K, HeldOrigin, ProviderAssumption DEF Kept, Token
    <3> QED
      BY <1>1, <2>1, <3>2, <3>3 DEF DistinctInv
  <2> QED
    BY <1>4, <1>K, <2>1, <2>3, <2>4 DEF RefreshKept
<1>5. RefreshKept'
  BY <1>1, <1>4 DEF RefreshKept, provider
<1> QED
  BY <1>3, <1>5

(* And so it is for any number of profiles, where no two commands run at   *)
(* once: a save of another profile gives no spent token back.              *)
THEOREM RefreshTokenKeptAlone == ASSUME OneAtATime PROVE Spec => []RefreshKept
<1>1. Init => Kept /\ DistinctInv
  BY InitTyped
  DEF Init, Kept, Carries, Holds, SpentIssued, KeptInv, RefreshKept, Busy, DistinctInv
<1>2. OneAtATime
  OBVIOUS
<1>3. Alone /\ (Kept /\ DistinctInv) /\ [Next]_vars => (Kept /\ DistinctInv)'
  BY <1>2, KeptStep, KeptByLoneWrite, DistinctStep
<1>4. Spec => []Alone
  BY <1>2, AloneAlways
<1>5. Kept => RefreshKept
  BY DEF Kept
<1> QED
  BY <1>1, <1>3, <1>4, <1>5, PTL DEF Spec
=============================================================================
