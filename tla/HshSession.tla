------------------------------ MODULE HshSession ------------------------------
(***************************************************************************)
(* Concurrent hsh invocations sharing the files of ~/.hsh:                 *)
(*   auth     auth.json              the gateway token                     *)
(*   session  sessions/<key>.json    credentials cached per connection     *)
(*   kube     kube/<key>.yaml        kubeconfig rendered per connection    *)
(* Each invocation is one operating-system process that runs one command   *)
(* (src/plugins/ssh.ts, src/plugins/kubectl.ts, src/commands/kubeconfig.ts,*)
(* src/commands/login.ts, src/commands/logout.ts).  There is no lock: every*)
(* file access is a step of its own, and so are the gateway's answer and   *)
(* the moment the process acts on it.  A killed process is one that takes  *)
(* no further step.  Every file is replaced by one rename: auth.json and   *)
(* the sessions by safeWrite (module SafeWrite), the kubeconfigs by        *)
(* writeEphemeralKubeconfig.  A write or an unlink may fail; what a caller *)
(* makes of that is part of its step.                                      *)
(***************************************************************************)
EXTENDS Naturals

CONSTANTS
  Proc,      \* hsh invocations
  Target,    \* what the user names: an ssh host, a kubectl context, a connection
  Conn,      \* the gateway's connections
  Key,       \* sanitized connection names, the stems of the cache files
  KeyOf,     \* the sanitizer of sessions.ts and kubeconfig.ts: [Conn -> Key]
  MatchOf,   \* matchConnection's winner: [Wrapper -> [Target -> Conn or None]]
  Commands,  \* the commands run in this instance
  MaxTok,    \* bound: tokens the gateway mints
  MaxCred,   \* bound: credentials the gateway issues
  None       \* no file, no token, no answer, no connection

VARIABLES
  auth, session, kube,
  stale,     \* keys whose kubeconfig is older than ORPHAN_TTL_MS
  minted,    \* gateway: tokens handed out so far
  issued,    \* gateway: credentials handed out so far
  cmd, target,
  pc,        \* the next step of each invocation
  phase,     \* why the session cache is consulted: find (not yet), get, tell, deny
  tok,       \* the bearer token of the API client
  cred,      \* the credentials in hand; at the end, those the child uses
  rsp,       \* a gateway answer not yet acted on
  doomed,    \* keys a sweep has decided to remove
  outcome,   \* how the invocation ended
  verdict,   \* auxiliary: the most telling answer acted on
  snap       \* auxiliary: what was on disk when a wipe began, less the sessions
             \* it tried to unlink and could not

files   == <<auth, session, kube, stale>>
gateway == <<minted, issued>>
asked   == <<cmd, target>>
locals  == <<phase, tok, cred, rsp, doomed>>
history == <<verdict, snap>>
vars    == <<files, gateway, asked, pc, locals, outcome, history>>

Contract == INSTANCE CommandContract

Wrapper  == {"ssh", "kubectl", "kubeconfig"}
Command  == Wrapper \cup {"login", "logout"}
Fallback(p) == Contract!Fallback(cmd[p])

Tok      == 1 .. MaxTok
Cred     == [conn: Conn, id: 0 .. MaxCred]
AuthFile == [tok: Tok, fresh: BOOLEAN]
SessionFile == [cred: Cred, fresh: BOOLEAN]
KubeFile == [ctx: Target, cred: Cred]
Answer   == [status: {"ok", "issued", "pending", "blank", "denied", "error",
                      "unreachable"},
             rot: Tok \cup {None}, cred: Cred \cup {None}]
Label    == {"idle", "ensure", "token", "list", "look", "read", "drop",
             "dropYaml", "create", "use", "sweep", "sweepYaml", "login",
             "reauth", "unlink", "wipe", "wipeUnlink", "wipeYaml", "done"}

ASSUME Bounds == MaxTok \in Nat \ {0} /\ MaxCred \in Nat
ASSUME Names ==
  /\ KeyOf \in [Conn -> Key]
  /\ MatchOf \in [Wrapper -> [Target -> Conn \cup {None}]]
  /\ Commands \subseteq Command
ASSUME NoneIsNothing ==
  /\ None \notin Conn /\ None \notin Target /\ None \notin Tok
  /\ None \notin Cred /\ None \notin AuthFile /\ None \notin SessionFile
  /\ None \notin KubeFile /\ None \notin Answer

ConnOf(p) == MatchOf[cmd[p]][target[p]]
\* Faulty variant: one cache file for every connection.
SharedKeyAt(p) == CHOOSE k \in Key: TRUE
KeyAt(p)  == KeyOf[ConnOf(p)]
OnDisk == [tok   |-> IF auth = None THEN {} ELSE {auth.tok},
           creds |-> {session[k].cred : k \in {j \in Key: session[j] # None}}]
NothingOnDisk == [tok |-> {}, creds |-> {}]

FilesTyped ==
  /\ auth    \in AuthFile \cup {None}
  /\ session \in [Key -> SessionFile \cup {None}]
  /\ kube    \in [Key -> KubeFile \cup {None}]
  /\ stale   \in SUBSET Key
GatewayTyped ==
  /\ minted  \in Tok
  /\ issued  \in 0 .. MaxCred
ControlTyped ==
  /\ cmd     \in [Proc -> Command \cup {"none"}]
  /\ target  \in [Proc -> Target \cup {None}]
  /\ pc      \in [Proc -> Label]
  /\ phase   \in [Proc -> {"find", "get", "tell", "deny"}]
  /\ outcome \in [Proc -> Contract!Outcome \cup {"none"}]
MemoryTyped ==
  /\ tok     \in [Proc -> Tok \cup {None}]
  /\ cred    \in [Proc -> Cred \cup {None}]
  /\ rsp     \in [Proc -> Answer \cup {None}]
  /\ doomed  \in [Proc -> SUBSET Key]
HistoryTyped ==
  /\ verdict \in [Proc -> Contract!Verdict]
  /\ snap    \in [Proc -> [tok: SUBSET Tok, creds: SUBSET Cred]]
TypeOK == FilesTyped /\ GatewayTyped /\ ControlTyped /\ MemoryTyped /\ HistoryTyped

\* The machine as an earlier session left it: logged out, or logged in with
\* credentials cached for some connections and kubeconfigs rendered from them.
Init ==
  /\ auth \in {None, [tok |-> 1, fresh |-> TRUE]}
  /\ session \in [Key -> {None} \cup
                  {[cred |-> [conn |-> c, id |-> 0], fresh |-> TRUE] : c \in Conn}]
  /\ \A k \in Key: session[k] # None => auth # None /\ KeyOf[session[k].cred.conn] = k
  /\ kube    = [k \in Key |-> None]
  /\ stale   = {}
  /\ minted  = 1
  /\ issued  = 0
  /\ cmd     = [p \in Proc |-> "none"]
  /\ target  = [p \in Proc |-> None]
  /\ pc      = [p \in Proc |-> "idle"]
  /\ phase   = [p \in Proc |-> "find"]
  /\ tok     = [p \in Proc |-> None]
  /\ cred    = [p \in Proc |-> None]
  /\ rsp     = [p \in Proc |-> None]
  /\ doomed  = [p \in Proc |-> {}]
  /\ outcome = [p \in Proc |-> "none"]
  /\ verdict = [p \in Proc |-> "unasked"]
  /\ snap    = [p \in Proc |-> NothingOnDisk]

-----------------------------------------------------------------------------
(* Control flow of one invocation.                                         *)

Goto(p, l) == pc' = [pc EXCEPT ![p] = l] /\ UNCHANGED outcome

Exit(p, o) ==
  /\ pc'      = [pc EXCEPT ![p] = "done"]
  /\ outcome' = [outcome EXCEPT ![p] = o]
  /\ phase'   = [phase EXCEPT ![p] = "find"]
  /\ tok'     = [tok EXCEPT ![p] = None]
  /\ rsp'     = [rsp EXCEPT ![p] = None]
  /\ doomed'  = [doomed EXCEPT ![p] = {}]

\* process.exit, or the native tool taking over: what the process held in
\* memory is gone.
End(p, o) ==
  /\ Exit(p, o)
  /\ target' = [target EXCEPT ![p] = None]
  /\ cred'   = [cred EXCEPT ![p] = None]

\* A child that talks to the gateway with credentials c takes over.
HandOver(p, c) ==
  /\ Exit(p, "connected")
  /\ cred' = [cred EXCEPT ![p] = c]
  /\ UNCHANGED target

Enter(p, f)  == phase' = [phase EXCEPT ![p] = f]
Judge(p, v)  == verdict' = [verdict EXCEPT ![p] = v]
Forget(p)    == rsp' = [rsp EXCEPT ![p] = None]

FirstStep(c) ==
  IF c \in Wrapper THEN "ensure" ELSE IF c = "login" THEN "login" ELSE "reauth"

\* hsh plugin run <wrapped command> -- args, hsh kubeconfig, hsh login, hsh logout.
Begin(p, c) ==
  /\ pc[p] = "idle"
  /\ \E t \in IF c \in Wrapper THEN Target ELSE {None}: target' = [target EXCEPT ![p] = t]
  /\ cmd' = [cmd EXCEPT ![p] = c]
  /\ snap' = IF c = "logout" THEN [snap EXCEPT ![p] = OnDisk] ELSE snap
  /\ Goto(p, FirstStep(c))
  /\ UNCHANGED <<files, gateway, locals, verdict>>

\* No host or context in the arguments, or no API URL configured.
BeginUnconfigured(p, c) ==
  /\ pc[p] = "idle" /\ c # "logout"
  /\ cmd' = [cmd EXCEPT ![p] = c]
  /\ End(p, Contract!Fallback(c))
  /\ UNCHANGED <<files, gateway, history>>

-----------------------------------------------------------------------------
(* auth/store.ts and auth/manager.ts                                       *)

\* isAuthenticated: the file is there and its token is outside the margin.
Usable == auth # None /\ auth.fresh

NoSession(p) ==
  End(p, IF phase[p] = "get" THEN "exit1"
         ELSE IF cmd[p] = "kubeconfig" THEN "exit77" ELSE "native")

\* ensureAuthenticated looks at auth.json, and reads it again for the token:
\* what the first look found may be gone at the second.
CheckToken(p) ==
  /\ pc[p] = "ensure"
  /\ IF Usable
     THEN Goto(p, "token") /\ UNCHANGED <<target, locals>>
     ELSE NoSession(p)
  /\ UNCHANGED <<files, gateway, cmd, history>>

TakeToken(p) ==
  /\ pc[p] = "token"
  /\ tok' = [tok EXCEPT ![p] = IF Usable THEN auth.tok ELSE None]
  /\ Goto(p, IF phase[p] = "find" THEN "list" ELSE "create")
  /\ UNCHANGED <<files, gateway, asked, phase, cred, rsp, doomed, history>>

\* clearToken: existsSync, then unlinkSync.
FindToken(p) ==
  /\ pc[p] = "reauth"
  /\ Goto(p, IF auth = None THEN "wipe" ELSE "unlink")
  /\ UNCHANGED <<files, gateway, asked, locals, history>>

\* When unlinkSync throws, because another process has removed auth.json in
\* between or because it cannot be removed, the caches are left alone.
UnlinkToken(p) ==
  /\ pc[p] = "unlink"
  /\ \/ auth # None /\ auth' = None /\ Goto(p, "wipe") /\ UNCHANGED <<target, locals>>
     \/ End(p, "exit1") /\ UNCHANGED auth
  /\ UNCHANGED <<session, kube, stale, gateway, cmd, history>>

\* Faulty variant: the token is forgotten, the cached sessions are not.
KeepSessions(p) ==
  /\ pc[p] = "wipe"
  /\ Goto(p, "wipeUnlink")
  /\ UNCHANGED <<files, gateway, asked, locals, history>>

\* clearAllCachedCredentials lists the sessions directory and unlinks what it
\* listed, file by file; then it does the same with the kubeconfigs.
ListSessions(p) ==
  /\ pc[p] = "wipe"
  /\ doomed' = [doomed EXCEPT ![p] = {k \in Key: session[k] # None}]
  /\ Goto(p, "wipeUnlink")
  /\ UNCHANGED <<files, gateway, asked, phase, tok, cred, rsp, history>>

\* A failing unlink is swallowed, and the wipe goes on with the next file.
UnlinkSession(p) ==
  /\ pc[p] = "wipeUnlink"
  /\ \E k \in doomed[p]:
       /\ doomed' = [doomed EXCEPT ![p] = @ \ {k}]
       /\ \/ session' = [session EXCEPT ![k] = None] /\ UNCHANGED snap
          \/ /\ session[k] # None /\ UNCHANGED session
             /\ snap' = [snap EXCEPT ![p].creds = @ \ {session[k].cred}]
  /\ UNCHANGED <<auth, kube, stale, gateway, asked, pc, phase, tok, cred, rsp,
                 outcome, verdict>>

ListKubeconfigs(p) ==
  /\ pc[p] = "wipeUnlink" /\ doomed[p] = {}
  /\ doomed' = [doomed EXCEPT ![p] = {k \in Key: kube[k] # None}]
  /\ Goto(p, "wipeYaml")
  /\ UNCHANGED <<files, gateway, asked, phase, tok, cred, rsp, history>>

\* A kubeconfig goes, or its unlink fails, which every caller swallows.
RemoveKubeconfig(k) ==
  \/ kube' = [kube EXCEPT ![k] = None] /\ stale' = stale \ {k}
  \/ UNCHANGED <<kube, stale>>

\* Also the unlinks of sweepOrphanKubeconfigs.
UnlinkKubeconfig(p) ==
  /\ pc[p] \in {"wipeYaml", "sweepYaml"}
  /\ \E k \in doomed[p]:
       RemoveKubeconfig(k) /\ doomed' = [doomed EXCEPT ![p] = @ \ {k}]
  /\ UNCHANGED <<auth, session, gateway, asked, pc, phase, tok, cred, rsp,
                 outcome, history>>

\* The wipe belongs to hsh logout, to a refused connection list
\* (AuthRequiredError reaches run(), exit 77) or to refused credentials
\* (runInner's own catch turns it into the generic error).
WipeEnds(p) ==
  /\ pc[p] = "wipeYaml" /\ doomed[p] = {}
  /\ End(p, IF cmd[p] = "logout" THEN "exit0"
            ELSE IF phase[p] = "deny" THEN "exit1" ELSE "exit77")
  /\ UNCHANGED <<files, gateway, cmd, history>>

\* The token is saved; a failed set-up of the tunnel daemon, or a failed login
\* of it, still makes the exit code 1.
LoginSucceeds(p) ==
  /\ pc[p] = "login" /\ minted < MaxTok
  /\ minted' = minted + 1
  /\ auth' = [tok |-> minted + 1, fresh |-> TRUE]
  /\ \E o \in {"exit0", "exit1"}: End(p, o)
  /\ UNCHANGED <<session, kube, stale, issued, cmd, history>>

LoginFails(p) ==
  /\ pc[p] = "login"
  /\ End(p, "exit1")
  /\ UNCHANGED <<files, gateway, cmd, history>>

-----------------------------------------------------------------------------
(* api/client.ts.  The gateway is external: it may deny any request (401   *)
(* when its own refresh fails, 403 for other reasons), accepts no request  *)
(* without a token, and may rotate the token on any answer.  "unreachable" *)
(* is also the abort after DEFAULT_API_TIMEOUT_MS, so an answer always     *)
(* comes.                                                                  *)

Statuses(l, t) ==
  {"denied", "error", "unreachable"} \cup
  (IF t = None THEN {}
   ELSE IF l = "list" THEN {"ok"}
   ELSE {"pending", "blank"} \cup IF issued < MaxCred THEN {"issued"} ELSE {})

Rotations(s, t) ==
  {None} \cup IF t # None /\ s # "unreachable" /\ minted < MaxTok THEN {minted + 1} ELSE {}

GatewayAnswers(p) ==
  /\ pc[p] \in {"list", "create"} /\ rsp[p] = None
  /\ \E s \in Statuses(pc[p], tok[p]): \E r \in Rotations(s, tok[p]):
       /\ rsp' = [rsp EXCEPT ![p] =
            [status |-> s, rot |-> r,
             cred |-> IF s = "issued" THEN [conn |-> ConnOf(p), id |-> issued + 1]
                                      ELSE None]]
       /\ minted' = IF r = None THEN minted ELSE r
       /\ issued' = IF s = "issued" THEN issued + 1 ELSE issued
  /\ UNCHANGED <<files, asked, pc, phase, tok, cred, doomed, outcome, history>>

\* Faulty variant: an answer without the rotation header rotates too.
RotateAlways(p) ==
  /\ rsp[p] # None
  /\ tok'  = [tok EXCEPT ![p] = rsp[p].rot]
  /\ auth' = [tok |-> rsp[p].rot, fresh |-> TRUE]
  /\ UNCHANGED <<session, kube, stale, gateway, asked, pc, phase, cred, rsp,
                 doomed, outcome, history>>

\* maybeRotateToken: before the status is looked at, and whatever it is.  A
\* failed write of auth.json is swallowed.
RotateToken(p) ==
  /\ rsp[p] # None /\ rsp[p].rot # None
  /\ tok' = [tok EXCEPT ![p] = rsp[p].rot]
  /\ rsp' = [rsp EXCEPT ![p].rot = None]
  /\ \/ auth' = [tok |-> rsp[p].rot, fresh |-> TRUE]
     \/ UNCHANGED auth
  /\ UNCHANGED <<session, kube, stale, gateway, asked, pc, phase, cred, doomed,
                 outcome, history>>

Answered(p, l, S) ==
  pc[p] = l /\ rsp[p] # None /\ rsp[p].rot = None /\ rsp[p].status \in S

\* listConnections and matchConnection.
ListServed(p) ==
  /\ Answered(p, "list", {"ok"})
  /\ Judge(p, "accepted")
  /\ IF ConnOf(p) = None
     THEN End(p, Fallback(p))
     ELSE /\ Enter(p, "get") /\ Goto(p, "look") /\ Forget(p)
          /\ UNCHANGED <<target, tok, cred, doomed>>
  /\ UNCHANGED <<files, gateway, cmd, snap>>

ListFails(p) ==
  /\ Answered(p, "list", {"error", "unreachable"})
  /\ Judge(p, "unavailable")
  /\ End(p, Fallback(p))
  /\ UNCHANGED <<files, gateway, cmd, snap>>

\* Faulty variant: a refused token falls back to the native tool.
DenialPassesThrough(p) ==
  /\ Answered(p, "list", {"denied"})
  /\ Judge(p, "denied")
  /\ End(p, Fallback(p))
  /\ UNCHANGED <<files, gateway, cmd, snap>>

\* AuthExpiredError: forceReauthenticate.
ListDenied(p) ==
  /\ Answered(p, "list", {"denied"})
  /\ Judge(p, "denied")
  /\ snap' = [snap EXCEPT ![p] = OnDisk]
  /\ Goto(p, "reauth") /\ Forget(p)
  /\ UNCHANGED <<files, gateway, asked, phase, tok, cred, doomed>>

CredentialsIssued(p) ==
  /\ Answered(p, "create", {"issued"})
  /\ Judge(p, "issued")
  /\ session' = [session EXCEPT ![KeyAt(p)] = [cred |-> rsp[p].cred, fresh |-> TRUE]]
  /\ cred' = [cred EXCEPT ![p] = rsp[p].cred]
  /\ IF cmd[p] = "kubeconfig"
     THEN Goto(p, "use") /\ UNCHANGED phase
     ELSE Goto(p, "look") /\ Enter(p, "tell")
  /\ Forget(p)
  /\ UNCHANGED <<auth, kube, stale, gateway, asked, tok, doomed, snap>>

\* cacheCredentials throws (a full disk, a read-only directory): what was issued
\* is lost, and runInner's own catch makes it the generic error.
CachingFails(p) ==
  /\ Answered(p, "create", {"issued"})
  /\ Judge(p, "issued")
  /\ End(p, "exit1")
  /\ UNCHANGED <<files, gateway, cmd, snap>>

\* Approval pending; an answer without usable credentials or an API error;
\* no answer.
CredentialsWithheld(p) ==
  /\ \/ Answered(p, "create", {"pending"}) /\ Judge(p, "pending") /\ End(p, "exit75")
     \/ Answered(p, "create", {"blank", "error"}) /\ Judge(p, "refused") /\ End(p, "exit1")
     \/ Answered(p, "create", {"unreachable"}) /\ Judge(p, "unavailable") /\ End(p, Fallback(p))
  /\ UNCHANGED <<files, gateway, cmd, snap>>

\* Faulty variant: a refused request is retried with the token on disk.
RetryWhenDenied(p) ==
  /\ Answered(p, "create", {"denied"})
  /\ Judge(p, "denied")
  /\ Goto(p, "ensure") /\ Forget(p)
  /\ UNCHANGED <<files, gateway, asked, phase, tok, cred, doomed, snap>>

\* ssh and kubectl clear this connection's cache, then forceReauthenticate;
\* hsh kubeconfig reports the error and keeps everything.
CredentialsDenied(p) ==
  /\ Answered(p, "create", {"denied"})
  /\ Judge(p, "denied")
  /\ IF cmd[p] = "kubeconfig"
     THEN End(p, "exit1") /\ UNCHANGED snap
     ELSE /\ snap' = [snap EXCEPT ![p] = OnDisk]
          /\ Enter(p, "deny") /\ Goto(p, "drop") /\ Forget(p)
          /\ UNCHANGED <<target, tok, cred, doomed>>
  /\ UNCHANGED <<files, gateway, cmd>>

-----------------------------------------------------------------------------
(* auth/sessions.ts: getCachedCredentials, once for the credentials (get)  *)
(* and once more for the message printed before connecting (tell).         *)

AfterMiss(p) ==
  IF phase[p] = "deny" THEN "reauth"
  ELSE IF phase[p] = "tell" THEN "use"
  ELSE IF cmd[p] = "kubeconfig" THEN "create" ELSE "ensure"

LookUp(p) ==
  /\ pc[p] = "look"
  /\ Goto(p, IF session[KeyAt(p)] = None THEN AfterMiss(p) ELSE "read")
  /\ UNCHANGED <<files, gateway, asked, locals, history>>

\* A file that is expired, or gone since existsSync, is dropped.
ReadCache(p) ==
  /\ pc[p] = "read"
  /\ LET s == session[KeyAt(p)] IN
     IF s = None \/ ~s.fresh
     THEN Goto(p, "drop") /\ UNCHANGED <<phase, cred>>
     ELSE \/ /\ phase[p] = "get"
             /\ cred' = [cred EXCEPT ![p] = s.cred]
             /\ IF cmd[p] = "kubeconfig"
                THEN Goto(p, "use") /\ UNCHANGED phase
                ELSE Goto(p, "look") /\ Enter(p, "tell")
          \/ /\ phase[p] # "get"
             /\ Goto(p, "use") /\ UNCHANGED <<phase, cred>>
  /\ UNCHANGED <<files, gateway, asked, tok, rsp, doomed, history>>

\* Here, too, a failing unlink is swallowed.
DropSession(p) ==
  /\ pc[p] = "drop"
  /\ \/ session' = [session EXCEPT ![KeyAt(p)] = None]
     \/ UNCHANGED session
  /\ Goto(p, "dropYaml")
  /\ UNCHANGED <<auth, kube, stale, gateway, asked, locals, history>>

DropKubeconfig(p) ==
  /\ pc[p] = "dropYaml"
  /\ RemoveKubeconfig(KeyAt(p))
  /\ Goto(p, AfterMiss(p))
  /\ UNCHANGED <<auth, session, gateway, asked, locals, history>>

-----------------------------------------------------------------------------
(* Using the credentials.                                                  *)

\* ssh gets them in memory (module Askpass takes over from here).
ConnectSsh(p) ==
  /\ pc[p] = "use" /\ cmd[p] = "ssh"
  /\ HandOver(p, cred[p])
  /\ UNCHANGED <<files, gateway, cmd, history>>

\* writeEphemeralKubeconfig: the file is named after the connection, its
\* context after what the user asked for.
WriteKubeconfig(p) ==
  /\ pc[p] = "use" /\ cmd[p] # "ssh"
  /\ kube'  = [kube EXCEPT ![KeyAt(p)] = [ctx |-> target[p], cred |-> cred[p]]]
  /\ stale' = stale \ {KeyAt(p)}
  /\ IF cmd[p] = "kubectl"
     THEN Goto(p, "sweep") /\ UNCHANGED <<target, locals>>
     ELSE End(p, "exit0")
  /\ UNCHANGED <<auth, session, gateway, cmd, history>>

\* The last preparation throws: the kubeconfig cannot be written or renamed, or
\* (ssh) the askpass directory cannot be made.  Nothing catches it.
UseFails(p) ==
  /\ pc[p] = "use"
  /\ End(p, "exit1")
  /\ UNCHANGED <<files, gateway, cmd, history>>

\* sweepOrphanKubeconfigs looks at the age of each file before it unlinks it
\* (UnlinkKubeconfig); the looks of one sweep are one step.
SweepStat(p) ==
  /\ pc[p] = "sweep"
  /\ doomed' = [doomed EXCEPT ![p] = stale]
  /\ Goto(p, "sweepYaml")
  /\ UNCHANGED <<files, gateway, asked, phase, tok, cred, rsp, history>>

\* The spawned kubectl reads the file.  When it no longer holds this context,
\* kubectl takes the context from the user's own files, or (without --context)
\* the current-context it finds.
KubectlReads(p) ==
  /\ pc[p] = "sweepYaml" /\ doomed[p] = {}
  /\ LET f == kube[KeyAt(p)] IN
     \/ f # None /\ HandOver(p, f.cred)
     \/ ~(f # None /\ f.ctx = target[p]) /\ End(p, "bypassed")
  /\ UNCHANGED <<files, gateway, cmd, history>>

-----------------------------------------------------------------------------
(* Time.                                                                   *)

ExpireToken ==
  /\ auth # None /\ auth.fresh
  /\ auth' = [auth EXCEPT !.fresh = FALSE]
  /\ UNCHANGED <<session, kube, stale, gateway, asked, pc, locals, outcome, history>>

ExpireSession(k) ==
  /\ session[k] # None /\ session[k].fresh
  /\ session' = [session EXCEPT ![k].fresh = FALSE]
  /\ UNCHANGED <<auth, kube, stale, gateway, asked, pc, locals, outcome, history>>

\* ORPHAN_TTL_MS is a day: no invocation is that long between its own write
\* and the moment its kubectl reads the file.
AgeKubeconfig(k) ==
  /\ kube[k] # None /\ k \notin stale
  /\ \A p \in Proc: pc[p] \in {"sweep", "sweepYaml"} => KeyAt(p) # k
  /\ stale' = stale \cup {k}
  /\ UNCHANGED <<auth, session, kube, gateway, asked, pc, locals, outcome, history>>

CodeStep(p) ==
  \/ CheckToken(p) \/ TakeToken(p)
  \/ FindToken(p) \/ UnlinkToken(p)
  \/ ListSessions(p) \/ UnlinkSession(p) \/ ListKubeconfigs(p) \/ UnlinkKubeconfig(p)
  \/ WipeEnds(p)
  \/ RotateToken(p)
  \/ ListServed(p) \/ ListFails(p) \/ ListDenied(p)
  \/ CredentialsIssued(p) \/ CachingFails(p)
  \/ CredentialsWithheld(p) \/ CredentialsDenied(p)
  \/ LookUp(p) \/ ReadCache(p) \/ DropSession(p) \/ DropKubeconfig(p)
  \/ ConnectSsh(p) \/ WriteKubeconfig(p) \/ UseFails(p) \/ SweepStat(p) \/ KubectlReads(p)

Next ==
  \/ \E p \in Proc:
       \/ \E c \in Commands: Begin(p, c) \/ BeginUnconfigured(p, c)
       \/ LoginSucceeds(p) \/ LoginFails(p)
       \/ GatewayAnswers(p) \/ CodeStep(p)
  \/ ExpireToken
  \/ \E k \in Key: ExpireSession(k) \/ AgeKubeconfig(k)

\* Each process runs on (operating-system scheduling), and every request is
\* answered or aborted after 3 s.  A login waits for a human: no fairness.
Spec == Init /\ [][Next]_vars
             /\ \A p \in Proc: WF_vars(CodeStep(p)) /\ WF_vars(GatewayAnswers(p))

-----------------------------------------------------------------------------
(* Correctness.                                                            *)

\* When the sanitizer keeps connection names apart, credentials in a process's
\* hands, and those in the kubeconfig of a connection, were issued for exactly
\* that connection, whoever cached them, in whatever order the files changed.
CredentialsMatchConnection ==
  /\ \A p \in Proc: cred[p] # None => cred[p].conn = ConnOf(p)
  /\ \A k \in Key: kube[k] # None => KeyOf[kube[k].cred.conn] = k

\* hsh logout that reports success, and a command that ends with 77 because
\* the gateway refused its token, leave on disk neither the token nor any of
\* the cached credentials that were there when the wipe began, whatever other
\* invocations did meanwhile, but for the files whose unlink failed under this
\* very wipe (forceReauthenticate, logout, clearAllCachedCredentials).
Wiped(p) ==
  \/ outcome[p] = "exit0" /\ cmd[p] = "logout"
  \/ outcome[p] = "exit77" /\ verdict[p] = "denied"
WipedIsForgotten ==
  \A p \in Proc: Wiped(p) =>
    /\ OnDisk.tok \cap snap[p].tok = {}
    /\ OnDisk.creds \cap snap[p].creds = {}

\* Every command ends the way src/plugins/exit-codes.ts allows it to, given
\* what the gateway told it and whichever of its writes fail: a refused token
\* never runs the native tool or reaches the target, a pending review never looks
\* like success, and credentials that were issued are used or reported as an error.
ImplementsContract == Contract!Spec

\* Every wrapped command and every logout ends, whatever the gateway and the
\* other invocations do.
CommandsEnd ==
  \A p \in Proc: (cmd[p] \in Wrapper \cup {"logout"}) ~> (pc[p] = "done")

(* What the documents say and the code does not do.                        *)


\* docs/architecture/kubectl.md, Multi-terminal: two terminals running kubectl
\* against the same context both end up with a valid kubeconfig and reach the
\* gateway.
BothTerminalsReachGateway ==
  \A p \in Proc: outcome[p] # "bypassed"
=============================================================================
