-------------------------------- MODULE Session --------------------------------
(***************************************************************************)
(* A command that talks to Conductor, from its settings to its exit code   *)
(* (internal/cli: common.go, errors.go, root.go, prompt.go and the         *)
(* handlers; internal/client), while profiles are edited and logins come   *)
(* and go. Three times on its way it reads a file that others replace, and *)
(* it may replace the logins itself.                                       *)
(*                                                                         *)
(* Of a login only the account and its organization matter here; CredStore *)
(* has the rest.                                                           *)
(***************************************************************************)
EXTENDS Profiles

CONSTANTS
  Requester,   \* processes, one command each
  Writer,      \* other commands that write the logins: login, logout, refreshes
  Account,     \* Account[n]: the accounts that log in as profile n
  TSAccount,   \* the accounts that log in with the TypeScript CLI
  OrgOf,       \* OrgOf[i]: the organization of account or API key i
  Keys,        \* what $DBOS_TOKEN may hold
  Inputs,      \* what flags and environment may set
  Tried,       \* the kinds of command that are run
  MaxHops,     \* how many redirects are followed (net/http: 10)
  MaxSaves     \* bound: how often a writer reads the logins

-----------------------------------------------------------------------------
(* What the handlers differ in: what they name in their path, whether they *)
(* change anything, which decoded body (JSON200, JSON201), if any, they    *)
(* need to call it a success, whether they may refuse before they read     *)
(* anything, and whether they ask. Those that act do not use GET.          *)
Handler(scope, acts, wants, refuses, asks) ==
  [scope |-> scope, acts |-> acts, wants |-> wants, refuses |-> refuses, asks |-> asks]

Reads(scope)   == Handler(scope, FALSE, "200", TRUE, FALSE)
Creates(scope) == Handler(scope, TRUE, "201", TRUE, FALSE)

WorkflowCommands ==
  [c \in {"list", "get", "steps", "events"} |-> Reads("app")]
WorkflowChanges ==
  [c \in {"cancel", "resume", "delete", "fork"} |->
     IF c = "fork" THEN Creates("app") ELSE Handler("app", TRUE, "any", TRUE, FALSE)]
ScheduleCommands ==
  [c \in {"list", "get", "pause", "resume", "trigger", "backfill"} |->
     CASE c \in {"list", "get"} -> Reads("app")
       [] c \in {"pause", "resume"} -> Handler("app", TRUE, "any", FALSE, FALSE)
       [] c = "trigger" -> Creates("app")
       [] c = "backfill" -> Handler("app", TRUE, "200", TRUE, FALSE)]
QueueCommands == [c \in {"list", "get"} |-> Reads("app")]
AppReads ==
  [c \in {"list", "get", "versions", "executors", "metrics"} |-> Reads("org")]
AppChanges ==
  [c \in {"register", "set-version", "update", "delete"} |->
     Handler("org", TRUE, "any", c \in {"update", "delete"}, c = "delete")]
ApiKeyCommands ==
  [c \in {"list", "create", "rename", "delete"} |->
     CASE c = "list" -> Reads("org")
       [] c = "create" -> Creates("org")
       [] OTHER -> Handler("org", TRUE, "any", FALSE, FALSE)]
PermissionCommands == [c \in {"list"} |-> Reads("org")]
Whoami == [c \in {"whoami"} |-> Reads("user")]

Does(table) == {table[c] : c \in DOMAIN table}
Command ==
  UNION {Does(WorkflowCommands), Does(WorkflowChanges), Does(ScheduleCommands),
         Does(QueueCommands), Does(AppReads), Does(AppChanges), Does(ApiKeyCommands),
         Does(PermissionCommands), Does(Whoami)}

Place  == {"new", "check", "confirm", "settings", "token", "refresh", "save", "org",
           "lookup", "app", "send", "wait", "ended"}
Success == {"200", "201", "bare"}   \* bare: 2xx, no body to decode
Failure == {"401", "404", "other"}
Moved   == {"turned", "kept"}       \* 301, 302 or 303; 307 or 308
Answer  == Success \cup Failure \cup Moved
Killed  == {130, 143}               \* by SIGINT, by SIGTERM
Code    == {0, 1, 2, 3, 4} \cup Killed

Logins(accounts) == UNION {{[who |-> i, org |-> o] : o \in {OrgOf[i], None}} : i \in accounts}

ASSUME SessionAssumption ==
  /\ Tried \subseteq Command
  /\ \A over \in Inputs :
       "profile" \in DOMAIN over => over["profile"] \in Name \cup {None}
  /\ None \notin Code
  /\ None \notin Keys \cup Answer \cup {"yes", "no"} \cup TSAccount \cup UNION {Account[n] : n \in Name}
  /\ Requester \cap Writer = {}
  /\ MaxHops \in Nat /\ MaxSaves \in Nat

VARIABLES
  login,    \* login[n]: the account stored for profile n and its organization, or None
  ts,       \* the login in the TypeScript CLI's file, or None
  draft,    \* draft[w]: the logins as w has read them to write them, or None
  saves,    \* how often a writer has read the logins
  place,    \* place[r]: where command r is
  does,     \* does[r]: which command it is
  key,      \* key[r]: its $DBOS_TOKEN, or None
  s,        \* s[r]: the settings it has resolved, or None
  held,     \* held[r]: the expired login it refreshes, or None
  tok,      \* tok[r]: whose token it sends, or None
  org,      \* org[r]: the organization it names
  cut,      \* cut[r]: its context is cancelled
  sent,     \* sent[r]: how many times it has sent its request
  own,      \* own[r]: it is sent with its own method, and no GET instead
  got,      \* got[r]: the last answer, or None
  code,     \* code[r]: its exit code
  done,     \* done[r]: Conductor has done what it asked (history)
  said      \* said[r]: what the operator answered (history)

logins == <<login, ts, draft, saves>>
atConductor == <<sent, own, got, done>>
session == <<logins, place, does, key, s, held, tok, org, cut, code, said, atConductor>>
vars == <<profilesVars, session>>

Init ==
  /\ ProfilesInit
  /\ login = [n \in Name |-> None]
  /\ ts = None
  /\ draft = [w \in Requester \cup Writer |-> None]
  /\ saves = 0
  /\ place = [r \in Requester |-> "new"]
  /\ does = [r \in Requester |-> None]
  /\ key = [r \in Requester |-> None]
  /\ s = [r \in Requester |-> None]
  /\ held = [r \in Requester |-> None]
  /\ tok = [r \in Requester |-> None]
  /\ org = [r \in Requester |-> None]
  /\ cut = [r \in Requester |-> FALSE]
  /\ sent = [r \in Requester |-> 0]
  /\ own = [r \in Requester |-> TRUE]
  /\ got = [r \in Requester |-> None]
  /\ code = [r \in Requester |-> None]
  /\ done = [r \in Requester |-> FALSE]
  /\ said = [r \in Requester |-> None]
-----------------------------------------------------------------------------
(* The way of a command                                                    *)

Goto(r, next) == place' = [place EXCEPT ![r] = next] /\ UNCHANGED code

(* Execute: nil is 0, whatever was cancelled; an error is 130 once the     *)
(* context is cancelled, its own code otherwise.                           *)
Ends(r, c) ==
  /\ place' = [place EXCEPT ![r] = "ended"]
  /\ code' = [code EXCEPT ![r] = IF c # 0 /\ cut[r] THEN 130 ELSE c]

(* A bad flag (SetFlagErrorFunc) or a wrong number of arguments, which     *)
(* Cobra refuses with an error of its own, ends it before its handler runs.*)
Start(r) ==
  /\ place[r] = "new"
  /\ \E d \in Tried : does' = [does EXCEPT ![r] = d]
  /\ Goto(r, "check") \/ Ends(r, 2) \/ Ends(r, 1)
  /\ UNCHANGED <<logins, key, s, held, tok, org, cut, said, atConductor>>

Check(r) ==
  /\ place[r] = "check"
  /\ \/ does[r].refuses /\ Ends(r, 1)
     \/ does[r].asks /\ Goto(r, "confirm")
     \/ Goto(r, "settings")   \* nothing to ask, or --force
  /\ UNCHANGED <<logins, does, key, s, held, tok, org, cut, said, atConductor>>

(* confirm: anything but yes, end of file included, is no.                 *)
Confirm(r) ==
  /\ place[r] = "confirm"
  /\ \E a \in {"yes", "no"} :
       /\ said' = [said EXCEPT ![r] = a]
       /\ IF a = "yes" THEN Goto(r, "settings") ELSE Ends(r, 0)
  /\ UNCHANGED <<logins, does, key, s, held, tok, org, cut, atConductor>>

(* settings: the flags, the environment and the file as they are now.      *)
Settle(r) ==
  /\ place[r] = "settings"
  /\ \E over \in Inputs, k \in Keys \cup {None} :
       IF Unresolvable(file, over)
         THEN Ends(r, 1) /\ UNCHANGED <<s, key>>
         ELSE LET t == Resolve(file, over) IN
              /\ s' = [s EXCEPT ![r] = t]
              /\ key' = [key EXCEPT ![r] = k]
              /\ IF does[r].scope = "user" /\ t.auth # "bearer"
                   THEN Ends(r, 0)
                   ELSE Goto(r, "token")
  /\ UNCHANGED <<logins, does, held, tok, org, cut, said, atConductor>>

Own(r) == IF s[r].profile = None THEN None ELSE login[s[r].profile]

(* Mutant: the login of whichever profile is current by now.               *)
LoginOfCurrent(r) ==
  IF file.current # None /\ login[file.current] # None THEN login[file.current] ELSE ts

(* FileStore.Load: without one of its own, the TypeScript CLI's.           *)
LoginOf(r) == IF Own(r) # None THEN Own(r) ELSE ts

TakesToken(r, i) ==
  /\ tok' = [tok EXCEPT ![r] = i]
  /\ IF s[r].url = None THEN Ends(r, 1)
     ELSE Goto(r, IF does[r].scope = "user" THEN "send" ELSE "org")

(* bearerToken and client.New. A login may have expired, with something to *)
(* refresh it or with nothing; the TypeScript CLI's never does.            *)
Token(r) ==
  /\ place[r] = "token"
  /\ \/ key[r] # None /\ TakesToken(r, key[r]) /\ UNCHANGED held
     \/ key[r] = None /\ s[r].auth # "bearer" /\ TakesToken(r, None) /\ UNCHANGED held
     \/ /\ key[r] = None /\ s[r].auth = "bearer"
        /\ \/ LoginOf(r) # None /\ TakesToken(r, LoginOf(r).who) /\ UNCHANGED held
           \/ (Own(r) = None => ts = None) /\ Ends(r, 1) /\ UNCHANGED <<tok, held>>
           \/ Own(r) # None /\ s[r].oidc = "issuer"
              /\ held' = [held EXCEPT ![r] = Own(r)]
              /\ Goto(r, "refresh") /\ UNCHANGED tok
  /\ UNCHANGED <<logins, does, key, s, org, cut, said, atConductor>>

(* refreshStored: a request without a timeout, which the issuer may never  *)
(* answer. Save then reads every login, and puts the one that was loaded   *)
(* before the request, its organization included, among them.              *)
Refreshed(r) ==
  /\ place[r] = "refresh"
  /\ draft' = [draft EXCEPT ![r] = [login EXCEPT ![s[r].profile] = held[r]]]
  /\ Goto(r, "save")
  /\ UNCHANGED <<login, ts, saves, does, key, s, held, tok, org, cut, said, atConductor>>

RefreshFails(r) ==
  /\ place[r] = "refresh"
  /\ Ends(r, 1)
  /\ UNCHANGED <<logins, does, key, s, held, tok, org, cut, said, atConductor>>

SaveRefreshed(r) ==
  /\ place[r] = "save"
  /\ draft' = [draft EXCEPT ![r] = None]
  /\ \/ login' = draft[r] /\ TakesToken(r, held[r].who)
     \/ Ends(r, 1) /\ UNCHANGED <<login, tok>>
  /\ UNCHANGED <<ts, saves, does, key, s, held, org, cut, said, atConductor>>

StoredOrg(r) ==
  IF key[r] # None \/ LoginOf(r) = None THEN None ELSE LoginOf(r).org

(* effectiveOrg: as set, or local, or as captured at login, or looked up.  *)
KnownOrg(r) ==
  CASE s[r].org # None -> s[r].org
    [] s[r].org = None /\ s[r].auth # "bearer" -> "local"
    [] s[r].org = None /\ s[r].auth = "bearer" -> StoredOrg(r)

EffectiveOrg(r) ==
  /\ place[r] = "org"
  /\ \/ /\ KnownOrg(r) # None
        /\ org' = [org EXCEPT ![r] = KnownOrg(r)]
        /\ Goto(r, "app")
     \/ /\ KnownOrg(r) = None
        /\ IF cut[r] THEN Ends(r, 1) ELSE Goto(r, "lookup")
        /\ UNCHANGED org
  /\ UNCHANGED <<logins, does, key, s, held, tok, cut, said, atConductor>>

EffectiveApp(r) ==
  /\ place[r] = "app"
  /\ IF does[r].scope = "app" /\ s[r].app = None THEN Ends(r, 1) ELSE Goto(r, "send")
  /\ UNCHANGED <<logins, does, key, s, held, tok, org, cut, said, atConductor>>

(* Mutant: the request does not run under the command's context.           *)
MaySendAnyway(r) == TRUE

MaySend(r) == ~cut[r]

Send(r) ==
  /\ place[r] = "send"
  /\ IF MaySend(r) THEN sent' = [sent EXCEPT ![r] = @ + 1] /\ Goto(r, "wait")
                   ELSE Ends(r, 1) /\ UNCHANGED sent
  /\ UNCHANGED <<logins, does, key, s, held, tok, org, cut, own, got, done, said>>

(* http.Client follows redirects: 301, 302 and 303 with a GET, whatever    *)
(* the method was, 307 and 308 with the same request.                      *)
Follow(r) ==
  /\ place[r] = "wait" /\ got[r] \in Moved
  /\ MaySend(r) /\ sent[r] <= MaxHops
  /\ sent' = [sent EXCEPT ![r] = @ + 1]
  /\ own' = [own EXCEPT ![r] = @ /\ (got[r] = "kept" \/ ~does[r].acts)]
  /\ got' = [got EXCEPT ![r] = None]
  /\ UNCHANGED <<logins, place, does, key, s, held, tok, org, cut, done, code, said>>

(* apiError                                                                *)
CodeFor(a) == CASE a = "401" -> 3 [] a = "404" -> 4 [] OTHER -> 1

(* Mutant: a body that can be decoded is success, whatever the status.     *)
SucceededIfRead(d, a) == a # "other"

(* checkStatus, or the decoded body (JSON200, JSON201) where one is used.  *)
Succeeded(d, a) == IF d.wants = "any" THEN a \in Success ELSE a = d.wants

Receive(r) ==
  /\ place[r] = "wait" /\ got[r] \in Success \cup Failure
  /\ Ends(r, IF Succeeded(does[r], got[r]) THEN 0 ELSE CodeFor(got[r]))
  /\ UNCHANGED <<logins, does, key, s, held, tok, org, cut, said, atConductor>>

(* Mutant: a client that waits as long as it takes.                        *)
OnlyIfCut(r) == cut[r]

(* Any call ends: at its timeout if nothing ends it before.                *)
CallEnds(r) == TRUE

(* The connection fails, the timeout passes, the context is cancelled, or  *)
(* there are too many redirects.                                           *)
GivesUp(r) ==
  /\ place[r] \in {"lookup", "wait"}
  /\ CallEnds(r)
  /\ Ends(r, 1)
  /\ UNCHANGED <<logins, does, key, s, held, tok, org, cut, said, atConductor>>
-----------------------------------------------------------------------------
(* Conductor, the operator, and other commands                             *)

(* GetCurrentUser.                                                         *)
LookUp(r) ==
  /\ place[r] = "lookup"
  /\ \/ org' = [org EXCEPT ![r] = OrgOf[tok[r]]] /\ Goto(r, "app")
     \/ \E a \in Answer \ {"200"} : Ends(r, CodeFor(a)) /\ UNCHANGED org
  /\ UNCHANGED <<logins, does, key, s, held, tok, cut, said, atConductor>>

(* The request is done, refused or redirected, also when nobody waits any  *)
(* more. Some failures are reported by a proxy, of what was done all the   *)
(* same. A redirect is of a host before Conductor, which has nothing that  *)
(* redirects; a GET in the place of another method does nothing.           *)
Serve(r) ==
  /\ sent[r] > 0 /\ got[r] = None
  /\ \E a \in Answer, d \in BOOLEAN :
       /\ d => own[r]
       /\ a \in Success => d = own[r]
       /\ a = "201" => own[r]
       /\ a \in {"401", "404"} \cup Moved => ~d
       /\ got' = [got EXCEPT ![r] = a]
       /\ done' = [done EXCEPT ![r] = d]
  /\ UNCHANGED <<logins, place, does, key, s, held, tok, org, cut, sent, own, code, said>>

Interrupt(r) ==
  /\ place[r] \notin {"new", "ended"} /\ ~cut[r]
  /\ cut' = [cut EXCEPT ![r] = TRUE]
  /\ UNCHANGED <<logins, place, does, key, s, held, tok, org, code, said, atConductor>>

(* A second interrupt kills the process, as a shell reports it.            *)
Kill(r) ==
  /\ place[r] \notin {"new", "ended"} /\ cut[r]
  /\ place' = [place EXCEPT ![r] = "ended"]
  /\ \E c \in Killed : code' = [code EXCEPT ![r] = c]
  /\ UNCHANGED <<logins, does, key, s, held, tok, org, cut, said, atConductor>>

(* Bound: files change only where a command is about to read one of them.  *)
MayMatter ==
  \E r \in Requester : place[r] \in {"settings", "token", "refresh", "save", "org"}

(* Save and Delete read every login, and later write them all.             *)
ReadLogins(w) ==
  /\ MayMatter /\ draft[w] = None /\ saves < MaxSaves
  /\ draft' = [draft EXCEPT ![w] = login]
  /\ saves' = saves + 1
  /\ UNCHANGED <<login, ts, place, does, key, s, held, tok, org, cut, code, said, atConductor>>

WriteLogins(w, n, l) ==
  /\ MayMatter /\ draft[w] # None
  /\ login' = [draft[w] EXCEPT ![n] = l]
  /\ draft' = [draft EXCEPT ![w] = None]
  /\ UNCHANGED <<ts, saves, place, does, key, s, held, tok, org, cut, code, said, atConductor>>

(* runLogin stores an account; capturing its organization may fail. The    *)
(* refresh of another command stores one again.                            *)
LogIn(w, n) == \E l \in Logins(Account[n]) : WriteLogins(w, n, l)

LogOut(w, n) == draft[w] # None /\ draft[w][n] # None /\ WriteLogins(w, n, None)

(* dbos-cloud, the TypeScript CLI, logs in or out.                         *)
TSLogIn ==
  /\ MayMatter
  /\ ts' \in Logins(TSAccount) \cup {None}
  /\ UNCHANGED <<login, draft, saves, place, does, key, s, held, tok, org, cut, code, said, atConductor>>

(* A cancelled context fails the request to the issuer.                    *)
Works(r) ==
  \/ Start(r) \/ Check(r) \/ Settle(r) \/ Token(r) \/ (cut[r] /\ RefreshFails(r))
  \/ SaveRefreshed(r) \/ EffectiveOrg(r) \/ EffectiveApp(r)
  \/ Send(r) \/ Follow(r) \/ Receive(r) \/ GivesUp(r)

Others(r) ==
  Confirm(r) \/ Refreshed(r) \/ RefreshFails(r) \/ LookUp(r) \/ Serve(r) \/ Interrupt(r) \/ Kill(r)

Around ==
  \/ \E r \in Requester : Others(r)
  \/ \E w \in Writer : ReadLogins(w) \/ \E n \in Name : LogIn(w, n) \/ LogOut(w, n)
  \/ TSLogIn

Next ==
  \/ (\E r \in Requester : Works(r)) /\ UNCHANGED profilesVars
  \/ Around /\ UNCHANGED profilesVars
  \/ MayMatter /\ Edit /\ UNCHANGED session

(* A command that can go on does; Conductor, the issuer and the operator   *)
(* may never answer.                                                       *)
Spec == Init /\ [][Next]_vars /\ \A r \in Requester : WF_vars(Works(r) /\ UNCHANGED profilesVars)
-----------------------------------------------------------------------------
(* Who may be logged in for command r: accounts of the profile that its    *)
(* target was resolved from, or of the TypeScript CLI.                     *)
Theirs(r) == TSAccount \cup (IF s[r].profile = None THEN {} ELSE Account[s[r].profile])

(* A request never goes out as another profile's, though the profiles and  *)
(* the logins are read one after the other, and every save writes all      *)
(* logins as they were read before: its token, and the organization that   *)
(* it names, unless set, are those of its $DBOS_TOKEN, or of accounts that *)
(* log in as the profile its target was resolved from or as the TypeScript *)
(* CLI's (settings, bearerToken, effectiveOrg).                            *)
AsOne(r) ==
  sent[r] > 0 /\ tok[r] # None =>
    LET whose == IF key[r] # None THEN {key[r]} ELSE Theirs(r) IN
    /\ tok[r] \in whose
    /\ does[r].scope # "user" /\ s[r].org = None => \E i \in whose : org[r] = OrgOf[i]
AddressedAsOne == \A r \in Requester : AsOne(r)

(* The organization that a request names, unless set, is the one that its  *)
(* token's login captured (effectiveOrg's comment). It may be another, of  *)
(* a login between the two readings, or of the TypeScript CLI's.           *)
OrgOfToken ==
  \A r \in Requester :
    sent[r] > 0 /\ tok[r] # None /\ does[r].scope # "user" /\ s[r].org = None =>
      org[r] = OrgOf[tok[r]]

(* What the exit code tells a script (the README's table, apiError,        *)
(* Execute): 0 that it was done, or declined, unless a redirect has turned *)
(* the request into a GET, whose success only a handler that wants a 201   *)
(* tells from its own; 3 and 4 that it was not done, and why; 2 that       *)
(* nothing was read; 130 and 143 that it was interrupted.                  *)
Tells(r) ==
  /\ code[r] = 0 /\ does[r].acts =>
       done[r] \/ said[r] = "no" \/ (~own[r] /\ does[r].wants # "201")
  /\ code[r] \in {3, 4} => ~done[r]
  /\ code[r] = 3 /\ sent[r] > 0 => got[r] = "401"
  /\ code[r] = 4 /\ sent[r] > 0 => got[r] = "404"
  /\ code[r] = 2 => s[r] = None /\ sent[r] = 0
  /\ code[r] \in Killed => cut[r]
  /\ cut[r] /\ place[r] = "ended" => code[r] \in {0} \cup Killed
ExitTells == \A r \in Requester : Tells(r)

(* 0 is success, as the README's table has it: what was asked is done, or  *)
(* the operator declined. It is neither after a redirect that turns the    *)
(* request into a GET (client.New, checkStatus).                           *)
ZeroMeansDone ==
  \A r \in Requester : code[r] = 0 /\ does[r].acts => done[r] \/ said[r] = "no"

(* Bad flags and arguments exit with 2, as the README's table has it.      *)
UsageIsTwo ==
  [][\A r \in Requester : place[r] = "new" /\ place'[r] = "ended" => code'[r] = 2]_vars

(* A request leaves once, and again only where a host has redirected it    *)
(* and has done nothing; never after an interrupt, and where the operator  *)
(* is asked only after a yes (confirm, runAppDelete, Execute's context).   *)
AsksOnce ==
  [][\A r \in Requester : sent'[r] # sent[r] =>
       /\ ~cut[r] /\ said[r] # "no"
       /\ sent[r] = 0 \/ (got[r] \in Moved /\ ~done[r])]_vars

(* Past the prompt a command ends, though Conductor may never answer (the  *)
(* timeout of internal/client), or it waits for the issuer, uncancelled:   *)
(* auth.Refresh has no timeout.                                            *)
CommandEnds ==
  \A r \in Requester :
    place[r] \in Place \ {"new", "check", "confirm", "ended"} ~>
      place[r] = "ended" \/ (place[r] = "refresh" /\ ~cut[r])
=============================================================================
