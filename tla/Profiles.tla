------------------------------- MODULE Profiles -------------------------------
(***************************************************************************)
(* The named profiles of config.yaml (internal/config, and `config set'    *)
(* and `config use' of internal/cli/config.go), and what a command makes   *)
(* of them. An edit reads the whole file, changes its copy, and renames    *)
(* the copy over the file; nothing keeps two edits apart.                  *)
(*                                                                         *)
(* A URL is its scheme and its host. An unset or empty setting is None.    *)
(***************************************************************************)
EXTENDS Naturals

CONSTANTS
  Name,       \* names of profiles
  Host, Org, App,
  Prod,       \* the host of production (cloud.dbos.dev)
  None,
  Flags,      \* the sets of flags that config set is run with
  Editor,     \* runs of config set and config use
  MaxEdits    \* bound: how often they read the file

URL  == [https : BOOLEAN, host : Host]
Auth == {"none", "bearer"}
OIDC == {"partial", "issuer"}   \* an oidc block without, and with, an issuer

Profile ==
  [url : URL \cup {None}, domain : Host \cup {None}, auth : Auth \cup {None},
   org : Org \cup {None}, app : App \cup {None}, oidc : OIDC \cup {None}]
NoProfile ==
  [url |-> None, domain |-> None, auth |-> None, org |-> None, app |-> None, oidc |-> None]

(* A flag that is not in DOMAIN g was not passed. --managed is --domain    *)
(* with Prod. The OIDC flags are one: partial leaves the issuer alone,     *)
(* cleared is an empty --issuer.                                           *)
FlagValues ==
  [url |-> URL \cup {None}, domain |-> Host, auth |-> Auth \cup {"invalid"},
   org |-> Org \cup {None}, app |-> App \cup {None}, oidc |-> OIDC \cup {"cleared"}]

ASSUME FlagsAssumption ==
  \A g \in Flags : /\ DOMAIN g \subseteq DOMAIN FlagValues
                   /\ \A k \in DOMAIN g : g[k] \in FlagValues[k]

ASSUME ProfilesAssumption ==
  /\ Prod \in Host /\ "local" \in Org
  /\ None \notin URL \cup Host \cup Auth \cup Org \cup App \cup OIDC \cup Name
  /\ None \notin Profile
  /\ MaxEdits \in Nat

File == [current : Name \cup {None}, profiles : [Name -> Profile \cup {None}]]

VARIABLES
  file,    \* config.yaml
  copy,    \* copy[e]: the file as edit e has read it, or None
  edits    \* how many edits have read it

profilesVars == <<file, copy, edits>>

ProfilesInit ==
  /\ file = [current |-> None, profiles |-> [n \in Name |-> None]]
  /\ copy = [e \in Editor |-> None]
  /\ edits = 0
-----------------------------------------------------------------------------
(* config set                                                              *)

Changed(flags, k) == k \in DOMAIN flags
Given(flags, k, stored) == IF Changed(flags, k) THEN flags[k] ELSE stored

(* The OIDC block after the flags of one: it never goes away again.        *)
EditedOIDC(stored, flag) ==
  CASE flag = "issuer" -> "issuer"
    [] flag = "cleared" -> "partial"
    [] flag = "partial" -> IF stored = "issuer" THEN "issuer" ELSE "partial"

(* The flags laid over the profile. A domain takes the place of a URL, an  *)
(* OIDC flag implies bearer.                                               *)
Edited(p, flags) ==
  [url    |-> IF Changed(flags, "domain") THEN None ELSE Given(flags, "url", p.url),
   domain |-> Given(flags, "domain", p.domain),
   auth   |-> Given(flags, "auth", IF Changed(flags, "oidc") THEN "bearer" ELSE p.auth),
   org    |-> Given(flags, "org", p.org),
   app    |-> Given(flags, "app", p.app),
   oidc   |-> IF Changed(flags, "oidc") THEN EditedOIDC(p.oidc, flags["oidc"]) ELSE p.oidc]

HasTarget(p) == p.url # None \/ p.domain # None

Allowed(p, flags) ==
  /\ Changed(flags, "auth") => flags["auth"] \in Auth
  /\ ~(Changed(flags, "domain") /\ Changed(flags, "url"))
  /\ HasTarget(Edited(p, flags))

Stored(f, n) == IF f.profiles[n] = None THEN NoProfile ELSE f.profiles[n]

(* Mutant: only the profile that was set is written.                       *)
WithOnly(f, n, p) ==
  [current |-> IF f.current = None THEN n ELSE f.current,
   profiles |-> [m \in Name |-> IF m = n THEN p ELSE None]]

(* Mutant: whether it is the first is asked of the file as it is by then.  *)
WithFirstOnDisk(f, n, p) ==
  [current |-> IF file.current = None THEN n ELSE f.current,
   profiles |-> [f.profiles EXCEPT ![n] = p]]

(* The first profile becomes the current one.                              *)
WithProfile(f, n, p) ==
  [current |-> IF f.current = None THEN n ELSE f.current,
   profiles |-> [f.profiles EXCEPT ![n] = p]]

Load(e) ==
  /\ copy[e] = None /\ edits < MaxEdits
  /\ copy' = [copy EXCEPT ![e] = file]
  /\ edits' = edits + 1
  /\ UNCHANGED file

Save(e, f) ==
  /\ file' = f
  /\ copy' = [copy EXCEPT ![e] = None]
  /\ UNCHANGED edits

RunConfigSet(e, n, flags) ==
  /\ copy[e] # None
  /\ LET p == Stored(copy[e], n) IN
     /\ Allowed(p, flags)
     /\ Save(e, WithProfile(copy[e], n, Edited(p, flags)))

WithCurrent(f, n) == [f EXCEPT !.current = n]

RunConfigUse(e, n) ==
  /\ copy[e] # None /\ copy[e].profiles[n] # None
  /\ Save(e, WithCurrent(copy[e], n))

(* A refusal, an error or a signal: the file stays as it is.               *)
Refuse(e) ==
  /\ copy[e] # None
  /\ copy' = [copy EXCEPT ![e] = None]
  /\ UNCHANGED <<file, edits>>

Edit ==
  \E e \in Editor :
    \/ Load(e) \/ Refuse(e)
    \/ \E n \in Name : RunConfigUse(e, n) \/ \E g \in Flags : RunConfigSet(e, n, g)

ProfilesSpec == ProfilesInit /\ [][Edit]_profilesVars
-----------------------------------------------------------------------------
(* Resolve: flag over environment over profile. `over' has what the flags  *)
(* and the environment set together; a flag may set a field to nothing.    *)
ManagedURL(d) == [https |-> TRUE, host |-> d]

ActiveName(f, over) == Given(over, "profile", f.current)

Active(f, over) ==
  IF ActiveName(f, over) = None THEN NoProfile ELSE f.profiles[ActiveName(f, over)]

TargetURL(p, over) ==
  Given(over, "url", IF p.domain # None THEN ManagedURL(p.domain) ELSE p.url)

IsProd(url) == url # None /\ url.host = Prod

(* A profile that does not exist, or production without https.             *)
Unresolvable(f, over) ==
  \/ Active(f, over) = None
  \/ LET url == TargetURL(Active(f, over), over) IN
     Active(f, over).domain = None /\ IsProd(url) /\ ~url.https

Resolve(f, over) ==
  LET p       == Active(f, over)
      url     == TargetURL(p, over)
      managed == p.domain # None \/ IsProd(url)
      auth    == IF managed THEN "bearer" ELSE IF p.auth = None THEN "none" ELSE p.auth
      org     == Given(over, "org", p.org)
  IN [profile |-> ActiveName(f, over),
      url  |-> url,
      auth |-> auth,
      org  |-> IF org = None /\ auth = "none" THEN "local" ELSE org,
      app  |-> Given(over, "app", p.app),
      oidc |-> IF managed /\ p.oidc = None THEN "issuer" ELSE p.oidc]
-----------------------------------------------------------------------------
Usable(f) ==
  /\ f.current # None => f.profiles[f.current] # None
  /\ (\E n \in Name : f.profiles[n] # None) => f.current # None
  /\ \A n \in Name : f.profiles[n] # None => HasTarget(f.profiles[n])

(* However edits overlap, the file is one a command can use without flags: *)
(* there is a current profile as soon as there is one at all, it exists,   *)
(* and every profile has a target (runConfigSet, runConfigUse).            *)
FileUsable == Usable(file)

Finishes(e) == copy[e] # None /\ copy'[e] = None

(* An edit leaves every profile alone but one, unless another edit has     *)
(* saved since it read the file.                                           *)
Changes(n) == file'.profiles[n] # file.profiles[n]
OneAtATime ==
  [][\A e \in Editor : Finishes(e) /\ copy[e] = file =>
       \A m, n \in Name : Changes(m) /\ Changes(n) => m = n]_profilesVars
=============================================================================
