--------------------------- MODULE SessionProofs ---------------------------
(***************************************************************************)
(* Proofs about Profiles and Session, for any number of commands, of edits *)
(* of config.yaml and of logins: the file stays usable, a request leaves   *)
(* again only when it is redirected, it never goes out as another          *)
(* profile's, and the exit code tells what it is said to tell.             *)
(***************************************************************************)
EXTENDS Session, TLAPS

USE DEF profilesVars, session, logins, atConductor, vars

(* The file                                                                *)

Kept ==
  /\ file \in File /\ Usable(file)
  /\ DOMAIN copy = Editor
  /\ \A e \in Editor : copy[e] # None => copy[e] \in File /\ Usable(copy[e])

LEMMA NoProfileType == NoProfile \in Profile
BY DEF NoProfile, Profile

LEMMA EditedType ==
  ASSUME NEW p \in Profile, NEW flags \in Flags, Allowed(p, flags)
  PROVE  Edited(p, flags) \in Profile
<1>1. \A k \in DOMAIN flags : k \in DOMAIN FlagValues /\ flags[k] \in FlagValues[k]
  BY FlagsAssumption
<1>2. Given(flags, "url", p.url) \in URL \cup {None}
  BY <1>1 DEF Given, Changed, FlagValues, Profile
<1>3. Given(flags, "domain", p.domain) \in Host \cup {None}
  BY <1>1 DEF Given, Changed, FlagValues, Profile
<1>4. Given(flags, "auth", IF Changed(flags, "oidc") THEN "bearer" ELSE p.auth) \in Auth \cup {None}
  BY <1>1 DEF Given, Changed, FlagValues, Profile, Allowed, Auth
<1>5. Given(flags, "org", p.org) \in Org \cup {None}
  BY <1>1 DEF Given, Changed, FlagValues, Profile
<1>6. Given(flags, "app", p.app) \in App \cup {None}
  BY <1>1 DEF Given, Changed, FlagValues, Profile
<1>7. (IF Changed(flags, "oidc") THEN EditedOIDC(p.oidc, flags["oidc"]) ELSE p.oidc) \in OIDC \cup {None}
  BY <1>1 DEF EditedOIDC, Changed, FlagValues, Profile, OIDC
<1> QED
  BY <1>2, <1>3, <1>4, <1>5, <1>6, <1>7 DEF Edited, Profile

LEMMA SetKeeps ==
  ASSUME NEW f \in File, Usable(f), NEW n \in Name, NEW flags \in Flags,
         Allowed(Stored(f, n), flags)
  PROVE  LET g == WithProfile(f, n, Edited(Stored(f, n), flags))
         IN  g \in File /\ Usable(g)
<1> DEFINE p == Edited(Stored(f, n), flags)
           g == WithProfile(f, n, p)
<1>1. Stored(f, n) \in Profile
  BY NoProfileType DEF Stored, File
<1>2. p \in Profile /\ HasTarget(p)
  BY <1>1, EditedType DEF Allowed
<1>3. p # None
  BY <1>2, ProfilesAssumption
<1> HIDE DEF p
<1>4. g \in File
  BY <1>2 DEF WithProfile, File
<1>5. /\ g.current = IF f.current = None THEN n ELSE f.current
      /\ \A m \in Name : g.profiles[m] = IF m = n THEN p ELSE f.profiles[m]
  BY DEF WithProfile, File
<1>6. None \notin Name
  BY ProfilesAssumption
<1>7. g.current # None /\ g.profiles[g.current] # None
  BY <1>3, <1>4, <1>5, <1>6 DEF Usable, File
<1>8. Usable(g)
  BY <1>2, <1>5, <1>7 DEF Usable
<1> QED
  BY <1>4, <1>8 DEF p

LEMMA UseKeeps ==
  ASSUME NEW f \in File, Usable(f), NEW n \in Name, f.profiles[n] # None
  PROVE  WithCurrent(f, n) \in File /\ Usable(WithCurrent(f, n))
BY ProfilesAssumption DEF WithCurrent, File, Usable

LEMMA EditKeeps == Kept /\ [Edit]_profilesVars => Kept'
<1> SUFFICES ASSUME Kept, [Edit]_profilesVars PROVE Kept'
  OBVIOUS
<1>1. CASE UNCHANGED profilesVars
  BY <1>1 DEF Kept, Usable
<1>2. ASSUME NEW e \in Editor, Load(e) PROVE Kept'
  BY <1>2 DEF Load, Kept
<1>3. ASSUME NEW e \in Editor, Refuse(e) PROVE Kept'
  BY <1>3 DEF Refuse, Kept
<1>4. ASSUME NEW e \in Editor, NEW f, f \in File, Usable(f), Save(e, f)
      PROVE Kept'
  BY <1>4 DEF Save, Kept
<1>5. ASSUME NEW e \in Editor, NEW n \in Name, RunConfigUse(e, n)
      PROVE Kept'
  BY <1>4, <1>5, UseKeeps DEF RunConfigUse, Kept
<1>6. ASSUME NEW e \in Editor, NEW n \in Name, NEW g \in Flags, RunConfigSet(e, n, g)
      PROVE Kept'
  BY <1>4, <1>6, SetKeeps DEF RunConfigSet, Kept
<1>7. CASE Edit
  BY <1>2, <1>3, <1>5, <1>6, <1>7 DEF Edit
<1> QED
  BY <1>1, <1>7

LEMMA KeptInit == ProfilesInit => Kept
BY DEF ProfilesInit, Kept, File, Usable

LEMMA EditsOnly == [Next]_vars => [Edit]_profilesVars
BY DEF Next

(* However many edits of the profiles overlap, the file always has a       *)
(* current profile if it has any, one that exists, and every profile in it *)
(* has a target (runConfigSet, runConfigUse).                              *)
THEOREM FileStaysUsable == ProfilesSpec => []FileUsable
<1>1. Kept => FileUsable
  BY DEF Kept, FileUsable
<1> QED
  BY <1>1, KeptInit, EditKeeps, PTL DEF ProfilesSpec

(* An edit of one profile leaves the others alone, unless another edit was *)
(* saved since it read the file (runConfigSet).                            *)
THEOREM EditsOneProfile == ProfilesSpec => OneAtATime
<1>1. Kept /\ [Edit]_profilesVars =>
        [\A e \in Editor : Finishes(e) /\ copy[e] = file =>
           \A m, n \in Name : Changes(m) /\ Changes(n) => m = n]_profilesVars
  <2> SUFFICES ASSUME Kept, [Edit]_profilesVars, ~UNCHANGED profilesVars,
                      NEW e \in Editor, Finishes(e), copy[e] = file
               PROVE  \A m, n \in Name : Changes(m) /\ Changes(n) => m = n
    OBVIOUS
  <2>1. Edit
    OBVIOUS
  <2>2. PICK d \in Editor : \/ Load(d) \/ Refuse(d)
                            \/ \E n \in Name : RunConfigUse(d, n) \/ \E g \in Flags : RunConfigSet(d, n, g)
    BY <2>1 DEF Edit
  <2>3. CASE Load(d) \/ Refuse(d)
    BY <2>3 DEF Load, Refuse, Finishes, Changes, Kept
  <2>4. ASSUME NEW n \in Name, RunConfigUse(d, n) PROVE file' = WithCurrent(copy[d], n) /\ d = e
    BY <2>4 DEF RunConfigUse, Save, Finishes, Kept
  <2>5. ASSUME NEW n \in Name, NEW g \in Flags, RunConfigSet(d, n, g)
        PROVE  d = e /\ \E p : file' = WithProfile(copy[d], n, p)
    BY <2>5 DEF RunConfigSet, Save, Finishes, Kept
  <2> QED
    BY <2>2, <2>3, <2>4, <2>5 DEF WithCurrent, WithProfile, Kept, File, Changes
<1> QED
  BY <1>1, KeptInit, EditKeeps, PTL DEF ProfilesSpec, OneAtATime
-----------------------------------------------------------------------------
(* The commands                                                            *)

Shape ==
  /\ DOMAIN place = Requester /\ DOMAIN does = Requester /\ DOMAIN key = Requester
  /\ DOMAIN s = Requester /\ DOMAIN held = Requester /\ DOMAIN tok = Requester
  /\ DOMAIN org = Requester /\ DOMAIN cut = Requester /\ DOMAIN sent = Requester
  /\ DOMAIN own = Requester /\ DOMAIN got = Requester /\ DOMAIN code = Requester
  /\ DOMAIN done = Requester /\ DOMAIN said = Requester

(* What no other command changes of command r.                             *)
Same(r) ==
  /\ place'[r] = place[r] /\ does'[r] = does[r] /\ key'[r] = key[r] /\ s'[r] = s[r]
  /\ held'[r] = held[r] /\ tok'[r] = tok[r] /\ org'[r] = org[r] /\ cut'[r] = cut[r]
  /\ sent'[r] = sent[r] /\ own'[r] = own[r] /\ got'[r] = got[r] /\ code'[r] = code[r]
  /\ done'[r] = done[r] /\ said'[r] = said[r]

ByItself(r) == Works(r) \/ Others(r)

OfTheLogins ==
  \/ \E w \in Writer : ReadLogins(w) \/ \E n \in Name : LogIn(w, n) \/ LogOut(w, n)
  \/ TSLogIn

LEMMA OthersStay ==
  ASSUME Shape, NEW r \in Requester, ByItself(r)
  PROVE  Shape' /\ \A q \in Requester \ {r} : Same(q)
<1>1. CASE Start(r)
  BY <1>1 DEF Shape, Same, Start, Goto, Ends
<1>2. CASE Check(r)
  BY <1>2 DEF Shape, Same, Check, Goto, Ends
<1>3. CASE Settle(r)
  BY <1>3 DEF Shape, Same, Settle, Goto, Ends
<1>4. CASE Token(r)
  BY <1>4 DEF Shape, Same, Token, TakesToken, Goto, Ends
<1>5. CASE EffectiveOrg(r)
  BY <1>5 DEF Shape, Same, EffectiveOrg, Goto, Ends
<1>6. CASE EffectiveApp(r)
  BY <1>6 DEF Shape, Same, EffectiveApp, Goto, Ends
<1>7. CASE Send(r) \/ Follow(r)
  BY <1>7 DEF Shape, Same, Send, Follow, Goto, Ends
<1>8. CASE Receive(r) \/ GivesUp(r)
  BY <1>8 DEF Shape, Same, Receive, GivesUp, Ends
<1>9. CASE Confirm(r)
  BY <1>9 DEF Shape, Same, Confirm, Goto, Ends
<1>10. CASE LookUp(r)
  BY <1>10 DEF Shape, Same, LookUp, Goto, Ends
<1>11. CASE Serve(r)
  BY <1>11 DEF Shape, Same, Serve
<1>12. CASE Interrupt(r) \/ Kill(r)
  BY <1>12 DEF Shape, Same, Interrupt, Kill
<1>13. CASE Refreshed(r) \/ RefreshFails(r) \/ SaveRefreshed(r)
  BY <1>13 DEF Shape, Same, Refreshed, RefreshFails, SaveRefreshed, TakesToken, Goto, Ends
<1> QED
  BY <1>1, <1>2, <1>3, <1>4, <1>5, <1>6, <1>7, <1>8, <1>9, <1>10, <1>11, <1>12, <1>13
  DEF ByItself, Works, Others

LEMMA StepOfWhom ==
  ASSUME Shape, [Next]_vars
  PROVE  (\E r \in Requester : ByItself(r)) \/ OfTheLogins \/ UNCHANGED session
BY DEF Next, Around, ByItself, OfTheLogins

LEMMA LoginsLeave ==
  ASSUME Shape, OfTheLogins
  PROVE  Shape' /\ \A r \in Requester : Same(r)
BY DEF OfTheLogins, ReadLogins, LogOut, LogIn, WriteLogins, TSLogIn, Shape, Same

LEMMA ShapeInit == Init => Shape
BY DEF Init, Shape

LEMMA ShapeStep == Shape /\ [Next]_vars => Shape'
<1> SUFFICES ASSUME Shape, [Next]_vars PROVE Shape'
  OBVIOUS
<1>1. CASE UNCHANGED session
  BY <1>1 DEF Shape
<1> QED
  BY <1>1, StepOfWhom, OthersStay, LoginsLeave
(* How far a command is, what it has learnt and what Conductor has done.   *)
Early == {"new", "check", "confirm", "settings"}
Told(r) ==
  /\ place[r] \in Place
  /\ place[r] = "new" \/ does[r] \in Command
  /\ place[r] # "ended" => code[r] = None
  /\ place[r] \in Early => s[r] = None
  /\ place[r] \notin {"wait", "ended"} => sent[r] = 0
  /\ sent[r] \in Nat
  /\ sent[r] = 0 => got[r] = None
  /\ got[r] \in Answer \cup {None}
  /\ done[r] => own[r] /\ got[r] \in Success \cup {"other"}
  /\ got[r] \in Success /\ own[r] => done[r]
  /\ got[r] = "201" => own[r]
  /\ said[r] = "no" => place[r] = "ended" /\ sent[r] = 0
  /\ done[r] \in BOOLEAN /\ cut[r] \in BOOLEAN /\ own[r] \in BOOLEAN

LEMMA OnlyReadsLookUpOneself == \A c \in Command : c.scope = "user" => ~c.acts
BY DEF Command, Does, WorkflowCommands, WorkflowChanges, ScheduleCommands, QueueCommands,
       AppReads, AppChanges, ApiKeyCommands, PermissionCommands, Whoami, Handler, Reads, Creates

LEMMA WhatTheyWant == \A c \in Command : c.wants \in {"any", "200", "201"}
<1> DEFINE Fine(c) == c.wants \in {"any", "200", "201"}
<1>1. \A c \in Does(WorkflowCommands) \cup Does(QueueCommands) \cup Does(AppReads)
         \cup Does(PermissionCommands) \cup Does(Whoami) : Fine(c)
  BY DEF Does, WorkflowCommands, QueueCommands, AppReads, PermissionCommands, Whoami, Handler, Reads
<1>2. \A c \in Does(WorkflowChanges) \cup Does(AppChanges) : Fine(c)
  BY DEF Does, WorkflowChanges, AppChanges, Handler, Creates
<1>3. \A c \in Does(ScheduleCommands) \cup Does(ApiKeyCommands) : Fine(c)
  BY DEF Does, ScheduleCommands, ApiKeyCommands, Handler, Reads, Creates
<1> QED
  BY <1>1, <1>2, <1>3 DEF Command

LEMMA NoneApart ==
  /\ None \notin Answer /\ None \notin Code
  /\ None # "yes" /\ None # "no"
BY SessionAssumption

LEMMA ToldStep ==
  ASSUME Shape, NEW r \in Requester, Told(r) /\ Tells(r), ByItself(r)
  PROVE  Told(r)' /\ Tells(r)'
<1> USE NoneApart DEF Told, Tells, Place, Early, Code, Killed, Answer, Success, Failure, Moved, Shape
<1>1. CASE Start(r)
  BY <1>1, SessionAssumption DEF Start, Goto, Ends
<1>2. CASE Check(r)
  BY <1>2 DEF Check, Goto, Ends
<1>3. CASE Settle(r)
  BY <1>3, OnlyReadsLookUpOneself DEF Settle, Goto, Ends
<1>4. CASE Token(r)
  BY <1>4 DEF Token, TakesToken, Goto, Ends
<1>5. CASE EffectiveOrg(r)
  BY <1>5 DEF EffectiveOrg, Goto, Ends
<1>6. CASE EffectiveApp(r)
  BY <1>6 DEF EffectiveApp, Goto, Ends
<1>7. CASE Send(r)
  BY <1>7 DEF Send, MaySend, Goto, Ends
<1>8. CASE Receive(r)
  BY <1>8, WhatTheyWant DEF Receive, Succeeded, CodeFor, Ends
<1>9. CASE GivesUp(r)
  BY <1>9 DEF GivesUp, Ends
<1>10. CASE Confirm(r)
  BY <1>10 DEF Confirm, Goto, Ends
<1>11. CASE LookUp(r)
  BY <1>11 DEF LookUp, CodeFor, Goto, Ends
<1>12. CASE Serve(r)
  BY <1>12 DEF Serve
<1>13. CASE Interrupt(r)
  BY <1>13 DEF Interrupt
<1>14. CASE Kill(r)
  BY <1>14 DEF Kill
<1>15. CASE Follow(r)
  BY <1>15, WhatTheyWant DEF Follow, MaySend
<1>16. CASE Refreshed(r) \/ RefreshFails(r)
  BY <1>16 DEF Refreshed, RefreshFails, Goto, Ends
<1>17. CASE SaveRefreshed(r)
  BY <1>17 DEF SaveRefreshed, TakesToken, Goto, Ends
<1> QED
  BY <1>1, <1>2, <1>3, <1>4, <1>5, <1>6, <1>7, <1>8, <1>9, <1>10, <1>11, <1>12, <1>13, <1>14,
     <1>15, <1>16, <1>17
  DEF ByItself, Works, Others
AllTold == Shape /\ \A r \in Requester : Told(r) /\ Tells(r)

LEMMA SameIsTold ==
  ASSUME NEW r \in Requester, Told(r) /\ Tells(r), Same(r)
  PROVE  Told(r)' /\ Tells(r)'
BY DEF Told, Tells, Same

LEMMA AllToldInit == Init => AllTold
<1> SUFFICES ASSUME Init, NEW r \in Requester PROVE Told(r) /\ Tells(r)
  BY ShapeInit DEF AllTold
<1>1. /\ place[r] = "new" /\ code[r] = None /\ s[r] = None /\ sent[r] = 0 /\ got[r] = None
      /\ done[r] = FALSE /\ said[r] = None /\ cut[r] = FALSE /\ own[r] = TRUE
  BY DEF Init
<1>2. None \notin Success \cup {"401", "404", "no"} /\ None \notin {0, 2, 3, 4} \cup Killed
  BY NoneApart DEF Answer, Success, Failure, Code
<1>3. Told(r)
  <2>1. done[r] \in BOOLEAN /\ cut[r] \in BOOLEAN /\ own[r] \in BOOLEAN
    BY <1>1
  <2>2. sent[r] \in Nat /\ place[r] \in Place
    BY <1>1 DEF Place
  <2> QED
    BY <1>1, <1>2, <2>1, <2>2 DEF Told, Success
<1>4. Tells(r)
  BY <1>1, <1>2 DEF Tells
<1> QED
  BY <1>3, <1>4

LEMMA AllToldStep == AllTold /\ [Next]_vars => AllTold'
<1> SUFFICES ASSUME AllTold, [Next]_vars, NEW q \in Requester PROVE Told(q)' /\ Tells(q)'
  BY ShapeStep DEF AllTold
<1>0. Shape /\ Told(q) /\ Tells(q)
  BY DEF AllTold
<1>1. ASSUME NEW r \in Requester, ByItself(r) PROVE Told(q)' /\ Tells(q)'
  <2>1. CASE q = r
    BY <1>0, <1>1, <2>1, ToldStep
  <2>2. CASE q # r
    BY <1>0, <1>1, <2>2, OthersStay, SameIsTold
  <2> QED
    BY <2>1, <2>2
<1>2. CASE OfTheLogins
  BY <1>0, <1>2, LoginsLeave, SameIsTold
<1>3. CASE UNCHANGED session
  BY <1>0, <1>3, SameIsTold DEF Same
<1> QED
  BY <1>0, <1>1, <1>2, <1>3, StepOfWhom

(* The exit code of a command tells what Conductor has done and what was   *)
(* answered, however often it is interrupted and redirected, and though    *)
(* answers come late or never; only of a request that a redirect has       *)
(* turned into a GET does 0 not tell that it was done, unless a 201 is     *)
(* wanted (Execute, checkStatus, apiError, client.New).                    *)
THEOREM ExitCodeTells == Spec => []ExitTells
<1>1. AllTold => ExitTells
  BY DEF AllTold, ExitTells
<1> QED
  BY <1>1, AllToldInit, AllToldStep, PTL DEF Spec

LEMMA SendsOnce ==
  ASSUME AllTold, [Next]_vars, NEW q \in Requester, sent'[q] # sent[q]
  PROVE  /\ ~cut[q] /\ said[q] # "no"
         /\ sent[q] = 0 \/ (got[q] \in Moved /\ ~done[q])
<1>0. Shape /\ Told(q)
  BY DEF AllTold
<1>1. PICK r \in Requester : ByItself(r)
  BY <1>0, StepOfWhom, LoginsLeave DEF Same
<1>2. q = r
  BY <1>0, <1>1, OthersStay DEF Same
<1>3. Send(q) \/ Follow(q)
  BY <1>1, <1>2 DEF ByItself, Works, Others, Start, Check, Settle, Token, Refreshed, RefreshFails,
     SaveRefreshed, EffectiveOrg, EffectiveApp, Receive, GivesUp, Confirm, LookUp, Serve,
     Interrupt, Kill
<1>4. CASE Send(q)
  <2>1. place[q] = "send" /\ ~cut[q]
    BY <1>4 DEF Send, MaySend, Ends, Goto
  <2> QED
    BY <1>0, <2>1 DEF Told
<1>5. CASE Follow(q)
  <2>1. place[q] = "wait" /\ ~cut[q] /\ got[q] \in Moved
    BY <1>5 DEF Follow, MaySend
  <2> QED
    BY <1>0, <2>1 DEF Told, Moved, Success
<1> QED
  BY <1>3, <1>4, <1>5

(* A request leaves again only when it was redirected and nothing was done *)
(* of it, not after an interrupt, and not after a no (confirm, the one     *)
(* context of a command, client.New).                                      *)
THEOREM RequestLeavesOnce == Spec => AsksOnce
<1>1. AllTold /\ [Next]_vars =>
        [\A r \in Requester : sent'[r] # sent[r] =>
           /\ ~cut[r] /\ said[r] # "no"
           /\ sent[r] = 0 \/ (got[r] \in Moved /\ ~done[r])]_vars
  BY SendsOnce
<1> QED
  BY <1>1, AllToldInit, AllToldStep, PTL DEF Spec, AsksOnce
-----------------------------------------------------------------------------
(* Whose token, and which organization                                     *)

LoginsStored(all) ==
  /\ DOMAIN all = Name
  /\ \A n \in Name : all[n] # None => all[n] \in Logins(Account[n])

(* Every login is of an account that may log in there, in the file and in  *)
(* all that was read of it.                                                *)
LoginsTyped ==
  /\ LoginsStored(login)
  /\ ts # None => ts \in Logins(TSAccount)
  /\ DOMAIN draft = Requester \cup Writer
  /\ \A w \in Requester \cup Writer : draft[w] # None => LoginsStored(draft[w])

(* The organization a command names is of one of its accounts, or it has   *)
(* yet to be read or looked up.                                            *)
Whose(r) == IF key[r] # None THEN {key[r]} ELSE Theirs(r)
Agrees(r) ==
  tok[r] # None /\ does[r].scope # "user" /\ s[r].org = None =>
    \/ place[r] \in {"org", "lookup"}
    \/ place[r] = "ended" /\ sent[r] = 0
    \/ \E i \in Whose(r) : org[r] = OrgOf[i]

Paired(r) ==
  /\ place[r] \notin Early \cup {"ended"} \/ tok[r] # None =>
       /\ s[r].profile \in Name \cup {None}
       /\ s[r].auth \in Auth
       /\ s[r].auth = "none" => s[r].org # None
  /\ place[r] \in Early \cup {"token", "refresh", "save"} => tok[r] = None
  /\ place[r] \in {"refresh", "save"} =>
       /\ key[r] = None /\ s[r].auth = "bearer" /\ s[r].profile \in Name
       /\ held[r] \in Logins(Account[s[r].profile])
       /\ place[r] = "save" => LoginsStored(draft[r])
  /\ tok[r] # None => tok[r] \in Whose(r)
  /\ tok[r] # None /\ key[r] = None => s[r].auth = "bearer"
  /\ Agrees(r)

LEMMA LoginFacts ==
  ASSUME NEW accounts, NEW l \in Logins(accounts)
  PROVE  l.who \in accounts /\ l.org \in {OrgOf[l.who], None}
BY DEF Logins

LEMMA ResolveFacts ==
  ASSUME NEW f \in File, NEW over \in Inputs, ~Unresolvable(f, over)
  PROVE  LET t == Resolve(f, over) IN
         /\ t.profile \in Name \cup {None}
         /\ t.auth \in Auth
         /\ t.auth = "none" => t.org # None
<1>1. ActiveName(f, over) \in Name \cup {None}
  BY SessionAssumption DEF ActiveName, Given, Changed, File
<1>2. Active(f, over) \in Profile
  BY <1>1, NoProfileType, ProfilesAssumption DEF Active, Unresolvable, File
<1>3. Active(f, over).auth \in Auth \cup {None}
  BY <1>2 DEF Profile
<1>4. None # "local"
  BY ProfilesAssumption
<1> QED
  BY <1>1, <1>3, <1>4 DEF Resolve, Auth

LEMMA LoginsTypedStep ==
  ASSUME LoginsTyped, Shape, \A r \in Requester : Paired(r), [Next]_vars
  PROVE  LoginsTyped'
<1> USE DEF LoginsTyped
<1>1. ASSUME NEW r \in Requester, ByItself(r) PROVE LoginsTyped'
  <2>1. CASE UNCHANGED logins
    BY <2>1
  <2>2. CASE Refreshed(r)
    <3>1. held[r] \in Logins(Account[s[r].profile]) /\ s[r].profile \in Name
      BY <2>2 DEF Refreshed, Paired
    <3>2. LoginsStored([login EXCEPT ![s[r].profile] = held[r]])
      BY <3>1 DEF LoginsStored
    <3> QED
      BY <2>2, <3>2 DEF Refreshed
  <2>3. CASE SaveRefreshed(r)
    <3>1. LoginsStored(draft[r])
      BY <2>3 DEF SaveRefreshed, Paired
    <3> QED
      BY <2>3, <3>1 DEF SaveRefreshed
  <2> QED
    BY <1>1, <2>1, <2>2, <2>3 DEF ByItself, Works, Others, Start, Check, Settle, Token,
       RefreshFails, EffectiveOrg, EffectiveApp, Send, Follow, Receive, GivesUp, Confirm, LookUp,
       Serve, Interrupt, Kill
<1>2. ASSUME NEW w \in Writer, ReadLogins(w) PROVE LoginsTyped'
  BY <1>2 DEF ReadLogins
<1>3. ASSUME NEW w \in Writer, NEW n \in Name, NEW l, l # None => l \in Logins(Account[n]),
             WriteLogins(w, n, l)
      PROVE  LoginsTyped'
  <2>1. LoginsStored([draft[w] EXCEPT ![n] = l])
    BY <1>3 DEF LoginsStored, WriteLogins
  <2> QED
    BY <1>3, <2>1 DEF WriteLogins
<1>4. CASE TSLogIn
  BY <1>4 DEF TSLogIn
<1>5. CASE UNCHANGED session
  BY <1>5
<1> QED
  BY <1>1, <1>2, <1>3, <1>4, <1>5, StepOfWhom DEF OfTheLogins, LogIn, LogOut

LEMMA PairedStep ==
  ASSUME Shape, Kept, LoginsTyped, NEW r \in Requester, Told(r), Paired(r), ByItself(r)
  PROVE  Paired(r)'
<1>S. Shape'
  BY OthersStay
<1>L. /\ key[r] = None /\ s[r].profile \in Name \cup {None} /\ LoginOf(r) # None =>
           LoginOf(r).who \in Whose(r) /\ LoginOf(r).org \in {None, OrgOf[LoginOf(r).who]}
      /\ s[r].profile \in Name /\ Own(r) # None => Own(r) \in Logins(Account[s[r].profile])
  <2>1. ts # None => ts.who \in TSAccount /\ ts.org \in {OrgOf[ts.who], None}
    BY LoginFacts DEF LoginsTyped
  <2>2. ASSUME s[r].profile \in Name, Own(r) # None
        PROVE  /\ Own(r) \in Logins(Account[s[r].profile])
               /\ Own(r).who \in Account[s[r].profile]
               /\ Own(r).org \in {OrgOf[Own(r).who], None}
    BY <2>2, LoginFacts, ProfilesAssumption DEF Own, LoginsTyped, LoginsStored
  <2> QED
    BY <2>1, <2>2, ProfilesAssumption DEF LoginOf, Own, Whose, Theirs
<1> USE <1>S DEF Told, Paired, Agrees, Place, Early, Shape, Whose, Theirs
<1>1. CASE Start(r) \/ Check(r) \/ Confirm(r)
  BY <1>1 DEF Start, Check, Confirm, Goto, Ends
<1>2. CASE Settle(r)
  BY <1>2, ResolveFacts DEF Settle, Goto, Ends, Kept
<1>3. CASE Token(r)
  BY <1>3, <1>L, SessionAssumption, ProfilesAssumption DEF Token, TakesToken, Goto, Ends, Auth, Own
<1>4. CASE EffectiveOrg(r)
  <2>1. s[r].profile \in Name \cup {None} /\ s[r].auth \in {"none", "bearer"}
    BY <1>4 DEF EffectiveOrg, Auth
  <2>2. tok[r] # None /\ s[r].org = None /\ KnownOrg(r) # None => \E i \in Whose(r) : KnownOrg(r) = OrgOf[i]
    BY <1>4, <1>L, <2>1 DEF EffectiveOrg, KnownOrg, StoredOrg
  <2> QED
    BY <1>4, <2>1, <2>2 DEF EffectiveOrg, Goto, Ends
<1>5. CASE EffectiveApp(r) \/ Send(r) \/ Follow(r) \/ Receive(r) \/ GivesUp(r) \/ LookUp(r)
  BY <1>5 DEF EffectiveApp, Send, Follow, Receive, GivesUp, LookUp, Goto, Ends
<1>6. CASE Serve(r) \/ Interrupt(r) \/ Kill(r)
  BY <1>6 DEF Serve, Interrupt, Kill
<1>7. CASE Refreshed(r) \/ RefreshFails(r)
  <2>1. place[r] = "refresh" /\ s[r].profile \in Name /\ held[r] \in Logins(Account[s[r].profile])
    BY <1>7 DEF Refreshed, RefreshFails
  <2>2. LoginsStored([login EXCEPT ![s[r].profile] = held[r]])
    BY <2>1 DEF LoginsTyped, LoginsStored
  <2>3. Refreshed(r) => LoginsStored(draft'[r])
    BY <2>2 DEF Refreshed, LoginsTyped
  <2> QED
    BY <1>7, <2>1, <2>3 DEF Refreshed, RefreshFails, Goto, Ends, LoginsStored
<1>8. CASE SaveRefreshed(r)
  <2>1. /\ place[r] = "save" /\ key[r] = None /\ s[r].profile \in Name
        /\ held[r] \in Logins(Account[s[r].profile])
    BY <1>8 DEF SaveRefreshed
  <2>2. held[r].who \in Whose(r)
    BY <2>1, LoginFacts, ProfilesAssumption
  <2> QED
    BY <1>8, <2>1, <2>2 DEF SaveRefreshed, TakesToken, Goto, Ends
<1> QED
  BY <1>1, <1>2, <1>3, <1>4, <1>5, <1>6, <1>7, <1>8 DEF ByItself, Works, Others

LEMMA SameIsPaired ==
  ASSUME NEW r \in Requester, Paired(r), Same(r), draft'[r] = draft[r]
  PROVE  Paired(r)'
BY DEF Paired, Agrees, Whose, Theirs, Same, LoginsStored

AllPaired == AllTold /\ Kept /\ LoginsTyped /\ \A r \in Requester : Paired(r)

LEMMA AllPairedInit == Init => AllPaired
<1> SUFFICES ASSUME Init PROVE AllPaired
  OBVIOUS
<1>1. LoginsTyped
  BY DEF Init, LoginsTyped, LoginsStored
<1>2. \A r \in Requester : Paired(r)
  BY DEF Init, Paired, Agrees, Early
<1> QED
  BY <1>1, <1>2, AllToldInit, KeptInit DEF AllPaired, Init

LEMMA AllPairedStep == AllPaired /\ [Next]_vars => AllPaired'
<1> SUFFICES ASSUME AllPaired, [Next]_vars, NEW q \in Requester PROVE Paired(q)'
  BY AllToldStep, EditKeeps, EditsOnly, LoginsTypedStep DEF AllPaired, AllTold
<1>0. Shape /\ Kept /\ LoginsTyped /\ Told(q) /\ Paired(q)
  BY DEF AllPaired, AllTold
<1>1. ASSUME NEW r \in Requester, ByItself(r) PROVE Paired(q)'
  <2>1. CASE q = r
    BY <1>0, <1>1, <2>1, PairedStep
  <2>2. CASE q # r
    <3>1. draft'[q] = draft[q]
      BY <1>0, <1>1, <2>2 DEF LoginsTyped, ByItself, Works, Others, Start, Check, Settle, Token,
         Refreshed, RefreshFails, SaveRefreshed, EffectiveOrg, EffectiveApp, Send, Follow,
         Receive, GivesUp, Confirm, LookUp, Serve, Interrupt, Kill, Goto, Ends
    <3> QED
      BY <1>0, <1>1, <2>2, <3>1, OthersStay, SameIsPaired
  <2> QED
    BY <2>1, <2>2
<1>2. CASE OfTheLogins
  <2>1. draft'[q] = draft[q]
    BY <1>0, <1>2, SessionAssumption
    DEF OfTheLogins, ReadLogins, LogIn, LogOut, WriteLogins, TSLogIn, LoginsTyped
  <2> QED
    BY <1>0, <1>2, <2>1, LoginsLeave, SameIsPaired
<1>3. CASE UNCHANGED session
  BY <1>0, <1>3, SameIsPaired DEF Same
<1> QED
  BY <1>0, <1>1, <1>2, <1>3, StepOfWhom

LEMMA PairedIsAsOne ==
  ASSUME NEW r \in Requester, Told(r), Paired(r)
  PROVE  AsOne(r)
BY DEF Told, Paired, Agrees, Whose, AsOne, Early

(* A request never goes out with the token, or unless another is set with  *)
(* the organization, of another profile's login, though settings, token    *)
(* and organization are read one after the other, and though every save    *)
(* puts back all the logins that it has read (settings, bearerToken,       *)
(* effectiveOrg, FileStore). Two accounts of the same profile, or one of   *)
(* the TypeScript CLI, may be mixed.                                       *)
THEOREM RequestsAreAddressedAsOne == Spec => []AddressedAsOne
<1>1. AllPaired => AddressedAsOne
  BY PairedIsAsOne DEF AllPaired, AllTold, AddressedAsOne
<1> QED
  BY <1>1, AllPairedInit, AllPairedStep, PTL DEF Spec
=============================================================================
