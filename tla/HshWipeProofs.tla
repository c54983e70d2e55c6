----------------------------- MODULE HshWipeProofs -----------------------------
(***************************************************************************)
(* What a logout, or the wipe after a refused token, leaves on disk, for   *)
(* any number of invocations.  The argument: a token or a set of           *)
(* credentials gets onto the disk once, out of one answer of the gateway,  *)
(* which only one process holds; so what a wipe saw on disk when it began, *)
(* and has removed since, no process can put back.                         *)
(***************************************************************************)
EXTENDS HshSessionProofs

USE DEF files, gateway, asked, locals, history,
        Goto, Exit, End, HandOver, Enter, Judge, Forget

\* What the gateway has handed to p and p has not acted on.
PendingTok(p)  == IF rsp[p] = None THEN {} ELSE {rsp[p].rot} \ {None}
PendingCred(p) == IF rsp[p] = None THEN {} ELSE {rsp[p].cred} \ {None}
TokOnDisk   == IF auth = None THEN {} ELSE {auth.tok}
CredsOnDisk == {session[k].cred : k \in {j \in Key: session[j] # None}}
MintedToks  == 1 .. minted
IssuedCreds == {c \in Cred: c.id <= issued}

\* Each token, and each set of credentials, is in one place before it is saved.
TokensOnce ==
  /\ TokOnDisk \subseteq MintedToks
  /\ \A p \in Proc:
       /\ snap[p].tok \cup PendingTok(p) \subseteq MintedToks
       /\ PendingTok(p) \cap TokOnDisk = {}
       /\ \A q \in Proc: PendingTok(p) \cap snap[q].tok = {}
       /\ \A q \in Proc: q # p => PendingTok(p) \cap PendingTok(q) = {}

CredsOnce ==
  /\ CredsOnDisk \subseteq IssuedCreds
  /\ \A p \in Proc:
       /\ snap[p].creds \cup PendingCred(p) \subseteq IssuedCreds
       /\ PendingCred(p) \cap CredsOnDisk = {}
       /\ \A q \in Proc: PendingCred(p) \cap snap[q].creds = {}
       /\ \A q \in Proc: q # p => PendingCred(p) \cap PendingCred(q) = {}

TokForgotten(p)   == TokOnDisk \cap snap[p].tok = {}
CredsForgotten(p) == CredsOnDisk \cap snap[p].creds = {}
\* Of the credentials the wipe is about, those still on disk are on its list.
CredsListed(p) ==
  \A k \in Key: session[k] # None /\ session[k].cred \in snap[p].creds => k \in doomed[p]

WipeLabel == {"reauth", "unlink", "wipe", "wipeUnlink", "wipeYaml"}

\* How far the wipe of p has come, and that only a wipe can end like one.
Wiping(p) ==
  /\ pc[p] \in {"wipe", "wipeUnlink", "wipeYaml"} \/ Wiped(p) => TokForgotten(p)
  /\ pc[p] = "wipeUnlink" => CredsListed(p)
  /\ pc[p] = "wipeYaml" \/ Wiped(p) => CredsForgotten(p)
  /\ outcome[p] # "none" => pc[p] = "done"
  /\ pc[p] = "idle" => verdict[p] = "unasked"
  /\ cmd[p] = "logout" => pc[p] \in WipeLabel \cup {"done"}
  /\ verdict[p] = "denied" => pc[p] \in WipeLabel \cup {"drop", "dropYaml", "done"}
  /\ verdict[p] = "denied" /\ pc[p] \in {"drop", "dropYaml"} => phase[p] = "deny"

\* The inductive invariant: WipedIsForgotten speaks of the end of a wipe only,
\* and does not know that what is still to be saved is new.
WipeInv == TokensOnce /\ CredsOnce /\ \A p \in Proc: Wiping(p)

-----------------------------------------------------------------------------
\* The initial states satisfy it: nothing is pending and no wipe has begun.
LEMMA WipeInvInit == Init => WipeInv
  <1>. SUFFICES ASSUME Init PROVE WipeInv
    OBVIOUS
  <1>1. KeyInv
    BY KeyInvInit
  <1>2. TokensOnce
    BY Bounds, NoneIsNothing
       DEF Init, TokensOnce, TokOnDisk, PendingTok, MintedToks, NothingOnDisk, Tok
  <1>3. CredsOnce
    <2>1. ASSUME NEW k \in Key, session[k] # None PROVE session[k].cred \in IssuedCreds
      <3>1. session[k].cred \in Cred
        BY <1>1, <2>1 DEF KeyInv, TypeOK, FilesTyped, SessionFile
      <3>2. session[k] \in {None} \cup
                  {[cred |-> [conn |-> c, id |-> 0], fresh |-> TRUE] : c \in Conn}
        BY DEF Init
      <3>3. session[k].cred.id = 0
        BY <3>2, <2>1
      <3>. QED
        BY <3>1, <3>3 DEF Init, IssuedCreds
    <2>. QED
      BY <2>1 DEF Init, CredsOnce, CredsOnDisk, PendingCred, NothingOnDisk
  <1>4. ASSUME NEW p \in Proc PROVE Wiping(p)
    BY DEF Init, Wiping, Wiped, TokForgotten, NothingOnDisk
  <1>. QED
    BY <1>2, <1>3, <1>4 DEF WipeInv

-----------------------------------------------------------------------------
(* What a step may do to the two kinds of secrets.                         *)

\* Nothing is new: the disk and the answers lose or keep what they have, and a
\* snapshot takes what is on disk.
NoNewTok ==
  /\ minted' = minted
  /\ TokOnDisk' \subseteq TokOnDisk
  /\ \A q \in Proc: PendingTok(q)' \subseteq PendingTok(q)
  /\ \A q \in Proc: snap'[q].tok \subseteq snap[q].tok \cup TokOnDisk
NoNewCred ==
  /\ issued' = issued
  /\ CredsOnDisk' \subseteq CredsOnDisk
  /\ \A q \in Proc: PendingCred(q)' \subseteq PendingCred(q)
  /\ \A q \in Proc: snap'[q].creds \subseteq snap[q].creds \cup CredsOnDisk

\* The other processes are where they were, with the snapshots they had.
Elsewhere(p) ==
  \A q \in Proc: q # p =>
    /\ pc'[q] = pc[q] /\ phase'[q] = phase[q] /\ doomed'[q] = doomed[q]
    /\ cmd'[q] = cmd[q] /\ outcome'[q] = outcome[q]
    /\ verdict'[q] = verdict[q] /\ snap'[q] = snap[q]

\* What reaches the disk, from wherever it came, is in no snapshot.
NoneReturns ==
  /\ \A q \in Proc: (TokOnDisk' \ TokOnDisk) \cap snap[q].tok = {}
  /\ \A k \in Key: session'[k] # None =>
       \/ session[k] # None /\ session'[k].cred = session[k].cred
       \/ \A q \in Proc: session'[k].cred \notin snap[q].creds

\* Tokens stay in one place as long as nothing new appears.
LEMMA TokensKept == TokensOnce /\ NoNewTok => TokensOnce'
  BY DEF TokensOnce, NoNewTok, MintedToks

\* So do credentials.
LEMMA CredsKept == CredsOnce /\ NoNewCred => CredsOnce'
  BY DEF CredsOnce, NoNewCred, IssuedCreds

\* A process that does not move loses nothing of its wipe to the one that does.
LEMMA OthersWiping ==
  ASSUME WipeInv, NEW p \in Proc, Elsewhere(p), NoneReturns, NEW q \in Proc, q # p
  PROVE  Wiping(q)'
  <1>1. TokForgotten(q) => TokForgotten(q)'
    BY DEF TokForgotten, NoneReturns, Elsewhere
  <1>2. CredsListed(q) => CredsListed(q)'
    BY DEF CredsListed, NoneReturns, Elsewhere
  <1>3. CredsForgotten(q) => CredsForgotten(q)'
    BY DEF CredsForgotten, CredsOnDisk, NoneReturns, Elsewhere
  <1>4. Wiped(q)' <=> Wiped(q)
    BY DEF Wiped, Elsewhere
  <1>5. Wiping(q)
    BY DEF WipeInv
  <1>. QED
    BY <1>1, <1>2, <1>3, <1>4, <1>5 DEF Wiping, Elsewhere

\* The same for a process whose own step writes neither file.
LEMMA QuietWiping ==
  ASSUME UNCHANGED <<auth, session, snap>>, NEW q \in Proc
  PROVE  /\ TokForgotten(q)' <=> TokForgotten(q)
         /\ CredsForgotten(q)' <=> CredsForgotten(q)
  BY DEF TokForgotten, CredsForgotten, TokOnDisk, CredsOnDisk

\* A step of p that touches none of the files, snapshots and counters the
\* invariant is about, and at most drops the answer p was given.
Quiet(p) ==
  /\ UNCHANGED <<auth, session, snap, gateway>>
  /\ rsp' \in {rsp, [rsp EXCEPT ![p] = None]}
  /\ Elsewhere(p)

\* Such a step only has to account for the wipe of p itself.
LEMMA QuietKeeps ==
  ASSUME KeyInv, WipeInv, NEW p \in Proc, Quiet(p), Wiping(p)' PROVE WipeInv'
  <1>1. \A q \in Proc: rsp'[q] \in {rsp[q], None}
    BY DEF Quiet, KeyInv, TypeOK, MemoryTyped
  <1>2. NoNewTok
    BY <1>1 DEF Quiet, NoNewTok, TokOnDisk, PendingTok
  <1>3. NoNewCred
    BY <1>1 DEF Quiet, NoNewCred, CredsOnDisk, PendingCred
  <1>4. NoneReturns
    BY DEF Quiet, NoneReturns, TokOnDisk
  <1>. QED
    BY <1>2, <1>3, <1>4, TokensKept, CredsKept, OthersWiping DEF WipeInv, Quiet

-----------------------------------------------------------------------------
(* Every step keeps the invariant: the quiet ones first.                   *)

LEMMA BeginUnconfiguredWipes ==
  ASSUME KeyInv, WipeInv, NEW p \in Proc, NEW c \in Commands, BeginUnconfigured(p, c) PROVE WipeInv'
  <1>. USE DEF BeginUnconfigured, Contract!Fallback
  <1>1. Quiet(p)
    BY DEF KeyInv, TypeOK, ControlTyped, MemoryTyped, HistoryTyped, Quiet, Elsewhere
  <1>2. Wiping(p)'
    BY QuietWiping DEF KeyInv, TypeOK, ControlTyped, MemoryTyped, HistoryTyped,
       WipeInv, Wiping, Wiped, WipeLabel, MayAsk
  <1>. QED
    BY <1>1, <1>2, QuietKeeps

LEMMA CheckTokenWipes ==
  ASSUME KeyInv, WipeInv, NEW p \in Proc, CheckToken(p) PROVE WipeInv'
  <1>. USE DEF CheckToken, Usable, NoSession
  <1>1. Quiet(p)
    BY DEF KeyInv, TypeOK, ControlTyped, MemoryTyped, HistoryTyped, Quiet, Elsewhere
  <1>2. Wiping(p)'
    BY QuietWiping DEF KeyInv, TypeOK, ControlTyped, MemoryTyped, HistoryTyped,
       WipeInv, Wiping, Wiped, WipeLabel, MayAsk
  <1>. QED
    BY <1>1, <1>2, QuietKeeps

LEMMA TakeTokenWipes ==
  ASSUME KeyInv, WipeInv, NEW p \in Proc, TakeToken(p) PROVE WipeInv'
  <1>. USE DEF TakeToken
  <1>1. Quiet(p)
    BY DEF KeyInv, TypeOK, ControlTyped, MemoryTyped, HistoryTyped, Quiet, Elsewhere
  <1>2. Wiping(p)'
    BY QuietWiping DEF KeyInv, TypeOK, ControlTyped, MemoryTyped, HistoryTyped,
       WipeInv, Wiping, Wiped, WipeLabel, MayAsk
  <1>. QED
    BY <1>1, <1>2, QuietKeeps

LEMMA FindTokenWipes ==
  ASSUME KeyInv, WipeInv, NEW p \in Proc, FindToken(p) PROVE WipeInv'
  <1>. USE DEF FindToken
  <1>1. Quiet(p)
    BY DEF KeyInv, TypeOK, ControlTyped, MemoryTyped, HistoryTyped, Quiet, Elsewhere
  <1>2. Wiping(p)'
    BY QuietWiping DEF KeyInv, TypeOK, ControlTyped, MemoryTyped, HistoryTyped,
       WipeInv, Wiping, Wiped, WipeLabel, MayAsk,
       TokForgotten, TokOnDisk
  <1>. QED
    BY <1>1, <1>2, QuietKeeps

LEMMA ListSessionsWipes ==
  ASSUME KeyInv, WipeInv, NEW p \in Proc, ListSessions(p) PROVE WipeInv'
  <1>. USE DEF ListSessions
  <1>1. Quiet(p)
    BY DEF KeyInv, TypeOK, ControlTyped, MemoryTyped, HistoryTyped, Quiet, Elsewhere
  <1>2. Wiping(p)'
    BY QuietWiping DEF KeyInv, TypeOK, ControlTyped, MemoryTyped, HistoryTyped,
       WipeInv, Wiping, Wiped, WipeLabel, MayAsk,
       CredsListed
  <1>. QED
    BY <1>1, <1>2, QuietKeeps

LEMMA ListKubeconfigsWipes ==
  ASSUME KeyInv, WipeInv, NEW p \in Proc, ListKubeconfigs(p) PROVE WipeInv'
  <1>. USE DEF ListKubeconfigs
  <1>1. Quiet(p)
    BY DEF KeyInv, TypeOK, ControlTyped, MemoryTyped, HistoryTyped, Quiet, Elsewhere
  <1>2. Wiping(p)'
    BY QuietWiping DEF KeyInv, TypeOK, ControlTyped, MemoryTyped, HistoryTyped,
       WipeInv, Wiping, Wiped, WipeLabel, MayAsk,
       CredsListed, CredsForgotten, CredsOnDisk
  <1>. QED
    BY <1>1, <1>2, QuietKeeps

LEMMA UnlinkKubeconfigWipes ==
  ASSUME KeyInv, WipeInv, NEW p \in Proc, UnlinkKubeconfig(p) PROVE WipeInv'
  <1>. USE DEF UnlinkKubeconfig, RemoveKubeconfig
  <1>1. Quiet(p)
    BY DEF KeyInv, TypeOK, ControlTyped, MemoryTyped, HistoryTyped, Quiet, Elsewhere
  <1>2. Wiping(p)'
    BY QuietWiping DEF KeyInv, TypeOK, ControlTyped, MemoryTyped, HistoryTyped,
       WipeInv, Wiping, Wiped, WipeLabel, MayAsk
  <1>. QED
    BY <1>1, <1>2, QuietKeeps

LEMMA WipeEndsWipes ==
  ASSUME KeyInv, WipeInv, NEW p \in Proc, WipeEnds(p) PROVE WipeInv'
  <1>. USE DEF WipeEnds
  <1>1. Quiet(p)
    BY DEF KeyInv, TypeOK, ControlTyped, MemoryTyped, HistoryTyped, Quiet, Elsewhere
  <1>2. Wiping(p)'
    BY QuietWiping DEF KeyInv, TypeOK, ControlTyped, MemoryTyped, HistoryTyped,
       WipeInv, Wiping, Wiped, WipeLabel, MayAsk
  <1>. QED
    BY <1>1, <1>2, QuietKeeps

LEMMA LoginFailsWipes ==
  ASSUME KeyInv, WipeInv, NEW p \in Proc, LoginFails(p) PROVE WipeInv'
  <1>. USE DEF LoginFails
  <1>1. Quiet(p)
    BY DEF KeyInv, TypeOK, ControlTyped, MemoryTyped, HistoryTyped, Quiet, Elsewhere
  <1>2. Wiping(p)'
    BY QuietWiping DEF KeyInv, TypeOK, ControlTyped, MemoryTyped, HistoryTyped,
       WipeInv, Wiping, Wiped, WipeLabel, MayAsk
  <1>. QED
    BY <1>1, <1>2, QuietKeeps

LEMMA ListServedWipes ==
  ASSUME KeyInv, WipeInv, NEW p \in Proc, ListServed(p) PROVE WipeInv'
  <1>. USE DEF ListServed, Answered, Fallback, Contract!Fallback
  <1>1. Quiet(p)
    BY DEF KeyInv, TypeOK, ControlTyped, MemoryTyped, HistoryTyped, Quiet, Elsewhere
  <1>2. Wiping(p)'
    BY QuietWiping DEF KeyInv, TypeOK, ControlTyped, MemoryTyped, HistoryTyped,
       WipeInv, Wiping, Wiped, WipeLabel, MayAsk
  <1>. QED
    BY <1>1, <1>2, QuietKeeps

LEMMA ListFailsWipes ==
  ASSUME KeyInv, WipeInv, NEW p \in Proc, ListFails(p) PROVE WipeInv'
  <1>. USE DEF ListFails, Answered, Fallback, Contract!Fallback
  <1>1. Quiet(p)
    BY DEF KeyInv, TypeOK, ControlTyped, MemoryTyped, HistoryTyped, Quiet, Elsewhere
  <1>2. Wiping(p)'
    BY QuietWiping DEF KeyInv, TypeOK, ControlTyped, MemoryTyped, HistoryTyped,
       WipeInv, Wiping, Wiped, WipeLabel, MayAsk
  <1>. QED
    BY <1>1, <1>2, QuietKeeps

LEMMA CredentialsWithheldWipes ==
  ASSUME KeyInv, WipeInv, NEW p \in Proc, CredentialsWithheld(p) PROVE WipeInv'
  <1>. USE DEF CredentialsWithheld, Answered, Fallback, Contract!Fallback
  <1>1. Quiet(p)
    BY DEF KeyInv, TypeOK, ControlTyped, MemoryTyped, HistoryTyped, Quiet, Elsewhere
  <1>2. Wiping(p)'
    BY QuietWiping DEF KeyInv, TypeOK, ControlTyped, MemoryTyped, HistoryTyped,
       WipeInv, Wiping, Wiped, WipeLabel, MayAsk
  <1>. QED
    BY <1>1, <1>2, QuietKeeps

LEMMA CachingFailsWipes ==
  ASSUME KeyInv, WipeInv, NEW p \in Proc, CachingFails(p) PROVE WipeInv'
  <1>. USE DEF CachingFails, Answered
  <1>1. Quiet(p)
    BY DEF KeyInv, TypeOK, ControlTyped, MemoryTyped, HistoryTyped, Quiet, Elsewhere
  <1>2. Wiping(p)'
    BY QuietWiping DEF KeyInv, TypeOK, ControlTyped, MemoryTyped, HistoryTyped,
       WipeInv, Wiping, Wiped, WipeLabel, MayAsk
  <1>. QED
    BY <1>1, <1>2, QuietKeeps

LEMMA LookUpWipes ==
  ASSUME KeyInv, WipeInv, NEW p \in Proc, LookUp(p) PROVE WipeInv'
  <1>. USE DEF LookUp, AfterMiss
  <1>1. Quiet(p)
    BY DEF KeyInv, TypeOK, ControlTyped, MemoryTyped, HistoryTyped, Quiet, Elsewhere
  <1>2. Wiping(p)'
    BY QuietWiping DEF KeyInv, TypeOK, ControlTyped, MemoryTyped, HistoryTyped,
       WipeInv, Wiping, Wiped, WipeLabel, MayAsk
  <1>. QED
    BY <1>1, <1>2, QuietKeeps

LEMMA ReadCacheWipes ==
  ASSUME KeyInv, WipeInv, NEW p \in Proc, ReadCache(p) PROVE WipeInv'
  <1>. USE DEF ReadCache
  <1>1. Quiet(p)
    BY DEF KeyInv, TypeOK, ControlTyped, MemoryTyped, HistoryTyped, Quiet, Elsewhere
  <1>2. Wiping(p)'
    BY QuietWiping DEF KeyInv, TypeOK, ControlTyped, MemoryTyped, HistoryTyped,
       WipeInv, Wiping, Wiped, WipeLabel, MayAsk
  <1>. QED
    BY <1>1, <1>2, QuietKeeps

LEMMA DropKubeconfigWipes ==
  ASSUME KeyInv, WipeInv, NEW p \in Proc, DropKubeconfig(p) PROVE WipeInv'
  <1>. USE DEF DropKubeconfig, RemoveKubeconfig, AfterMiss
  <1>1. Quiet(p)
    BY DEF KeyInv, TypeOK, ControlTyped, MemoryTyped, HistoryTyped, Quiet, Elsewhere
  <1>2. Wiping(p)'
    BY QuietWiping DEF KeyInv, TypeOK, ControlTyped, MemoryTyped, HistoryTyped,
       WipeInv, Wiping, Wiped, WipeLabel, MayAsk
  <1>. QED
    BY <1>1, <1>2, QuietKeeps

LEMMA ConnectSshWipes ==
  ASSUME KeyInv, WipeInv, NEW p \in Proc, ConnectSsh(p) PROVE WipeInv'
  <1>. USE DEF ConnectSsh
  <1>1. Quiet(p)
    BY DEF KeyInv, TypeOK, ControlTyped, MemoryTyped, HistoryTyped, Quiet, Elsewhere
  <1>2. Wiping(p)'
    BY QuietWiping DEF KeyInv, TypeOK, ControlTyped, MemoryTyped, HistoryTyped,
       WipeInv, Wiping, Wiped, WipeLabel, MayAsk
  <1>. QED
    BY <1>1, <1>2, QuietKeeps

LEMMA WriteKubeconfigWipes ==
  ASSUME KeyInv, WipeInv, NEW p \in Proc, WriteKubeconfig(p) PROVE WipeInv'
  <1>. USE DEF WriteKubeconfig
  <1>1. Quiet(p)
    BY DEF KeyInv, TypeOK, ControlTyped, MemoryTyped, HistoryTyped, Quiet, Elsewhere
  <1>2. Wiping(p)'
    BY QuietWiping, SMTT(30)
       DEF KeyInv, TypeOK, ControlTyped, MemoryTyped, HistoryTyped,
       WipeInv, Wiping, Wiped, WipeLabel, MayAsk
  <1>. QED
    BY <1>1, <1>2, QuietKeeps

LEMMA UseFailsWipes ==
  ASSUME KeyInv, WipeInv, NEW p \in Proc, UseFails(p) PROVE WipeInv'
  <1>. USE DEF UseFails
  <1>1. Quiet(p)
    BY DEF KeyInv, TypeOK, ControlTyped, MemoryTyped, HistoryTyped, Quiet, Elsewhere
  <1>2. Wiping(p)'
    BY QuietWiping DEF KeyInv, TypeOK, ControlTyped, MemoryTyped, HistoryTyped,
       WipeInv, Wiping, Wiped, WipeLabel, MayAsk
  <1>. QED
    BY <1>1, <1>2, QuietKeeps

LEMMA SweepStatWipes ==
  ASSUME KeyInv, WipeInv, NEW p \in Proc, SweepStat(p) PROVE WipeInv'
  <1>. USE DEF SweepStat
  <1>1. Quiet(p)
    BY DEF KeyInv, TypeOK, ControlTyped, MemoryTyped, HistoryTyped, Quiet, Elsewhere
  <1>2. Wiping(p)'
    BY QuietWiping DEF KeyInv, TypeOK, ControlTyped, MemoryTyped, HistoryTyped,
       WipeInv, Wiping, Wiped, WipeLabel, MayAsk
  <1>. QED
    BY <1>1, <1>2, QuietKeeps

LEMMA KubectlReadsWipes ==
  ASSUME KeyInv, WipeInv, NEW p \in Proc, KubectlReads(p) PROVE WipeInv'
  <1>. USE DEF KubectlReads
  <1>1. Quiet(p)
    BY DEF KeyInv, TypeOK, ControlTyped, MemoryTyped, HistoryTyped, Quiet, Elsewhere
  <1>2. Wiping(p)'
    BY QuietWiping DEF KeyInv, TypeOK, ControlTyped, MemoryTyped, HistoryTyped,
       WipeInv, Wiping, Wiped, WipeLabel, MayAsk
  <1>. QED
    BY <1>1, <1>2, QuietKeeps

-----------------------------------------------------------------------------
(* The steps that take a snapshot or change what is on disk.               *)

LEMMA BeginWipes ==
  ASSUME KeyInv, WipeInv, NEW p \in Proc, NEW c \in Commands, Begin(p, c) PROVE WipeInv'
  <1>. USE DEF Begin, FirstStep, OnDisk
  <1>1. Elsewhere(p)
    BY DEF KeyInv, TypeOK, ControlTyped, MemoryTyped, HistoryTyped, Elsewhere
  <1>2. NoNewTok
    BY DEF KeyInv, TypeOK, FilesTyped, MemoryTyped, HistoryTyped, NoNewTok, PendingTok,
       TokOnDisk
  <1>3. NoNewCred
    BY DEF KeyInv, TypeOK, FilesTyped, MemoryTyped, HistoryTyped, NoNewCred, PendingCred,
       CredsOnDisk
  <1>4. NoneReturns
    BY DEF KeyInv, TypeOK, FilesTyped, NoneReturns, TokOnDisk
  <1>5. Wiping(p)'
    BY DEF KeyInv, TypeOK, ControlTyped, MemoryTyped, HistoryTyped, WipeInv, Wiping,
       Wiped, WipeLabel, MayAsk, Awaited, Wrapper
  <1>. QED
    BY <1>1, <1>2, <1>3, <1>4, <1>5, TokensKept, CredsKept, OthersWiping DEF WipeInv

LEMMA ListDeniedWipes ==
  ASSUME KeyInv, WipeInv, NEW p \in Proc, ListDenied(p) PROVE WipeInv'
  <1>. USE DEF ListDenied, Answered, OnDisk
  <1>1. Elsewhere(p)
    BY DEF KeyInv, TypeOK, ControlTyped, MemoryTyped, HistoryTyped, Elsewhere
  <1>2. NoNewTok
    BY DEF KeyInv, TypeOK, FilesTyped, MemoryTyped, HistoryTyped, NoNewTok, PendingTok,
       TokOnDisk
  <1>3. NoNewCred
    BY DEF KeyInv, TypeOK, FilesTyped, MemoryTyped, HistoryTyped, NoNewCred, PendingCred,
       CredsOnDisk
  <1>4. NoneReturns
    BY DEF KeyInv, TypeOK, FilesTyped, NoneReturns, TokOnDisk
  <1>5. Wiping(p)'
    BY DEF KeyInv, TypeOK, ControlTyped, MemoryTyped, HistoryTyped, WipeInv, Wiping,
       Wiped, WipeLabel, MayAsk, Awaited
  <1>. QED
    BY <1>1, <1>2, <1>3, <1>4, <1>5, TokensKept, CredsKept, OthersWiping DEF WipeInv

LEMMA CredentialsDeniedWipes ==
  ASSUME KeyInv, WipeInv, NEW p \in Proc, CredentialsDenied(p) PROVE WipeInv'
  <1>. USE DEF CredentialsDenied, Answered
  <1>1. Elsewhere(p)
    BY DEF KeyInv, TypeOK, ControlTyped, MemoryTyped, HistoryTyped, Elsewhere
  <1>a. /\ rsp' = [rsp EXCEPT ![p] = None]
        /\ snap' = snap \/ snap' = [snap EXCEPT ![p] = OnDisk]
    OBVIOUS
  <1>b. OnDisk.tok = TokOnDisk /\ OnDisk.creds = CredsOnDisk
    BY DEF OnDisk, TokOnDisk, CredsOnDisk
  <1>c. UNCHANGED <<auth, session, minted, issued>>
    OBVIOUS
  <1>2. NoNewTok
    BY ONLY KeyInv, <1>a, <1>b, <1>c DEF KeyInv, TypeOK, MemoryTyped, HistoryTyped,
       NoNewTok, PendingTok, TokOnDisk
  <1>3. NoNewCred
    BY ONLY KeyInv, <1>a, <1>b, <1>c DEF KeyInv, TypeOK, MemoryTyped, HistoryTyped,
       NoNewCred, PendingCred, CredsOnDisk
  <1>4. NoneReturns
    BY DEF KeyInv, TypeOK, FilesTyped, NoneReturns, TokOnDisk
  <1>5. Wiping(p)'
    BY SMTT(30) DEF KeyInv, TypeOK, ControlTyped, MemoryTyped, HistoryTyped, WipeInv, Wiping,
       Wiped, WipeLabel, MayAsk, Awaited
  <1>. QED
    BY <1>1, <1>2, <1>3, <1>4, <1>5, TokensKept, CredsKept, OthersWiping DEF WipeInv

LEMMA UnlinkTokenWipes ==
  ASSUME KeyInv, WipeInv, NEW p \in Proc, UnlinkToken(p) PROVE WipeInv'
  <1>. USE DEF UnlinkToken
  <1>1. Elsewhere(p)
    BY DEF KeyInv, TypeOK, ControlTyped, MemoryTyped, HistoryTyped, Elsewhere
  <1>2. NoNewTok
    BY DEF KeyInv, TypeOK, FilesTyped, MemoryTyped, HistoryTyped, NoNewTok, PendingTok,
       TokOnDisk
  <1>3. NoNewCred
    BY DEF KeyInv, TypeOK, FilesTyped, MemoryTyped, HistoryTyped, NoNewCred, PendingCred,
       CredsOnDisk
  <1>4. NoneReturns
    BY DEF KeyInv, TypeOK, FilesTyped, NoneReturns, TokOnDisk
  <1>5. Wiping(p)'
    BY DEF KeyInv, TypeOK, ControlTyped, MemoryTyped, HistoryTyped, WipeInv, Wiping,
       Wiped, WipeLabel, MayAsk, Awaited,
       TokForgotten, CredsForgotten,
       TokOnDisk, CredsOnDisk
  <1>. QED
    BY <1>1, <1>2, <1>3, <1>4, <1>5, TokensKept, CredsKept, OthersWiping DEF WipeInv

LEMMA UnlinkSessionWipes ==
  ASSUME KeyInv, WipeInv, NEW p \in Proc, UnlinkSession(p) PROVE WipeInv'
  <1>1. PICK k \in doomed[p]:
          /\ doomed' = [doomed EXCEPT ![p] = @ \ {k}]
          /\ \/ session' = [session EXCEPT ![k] = None] /\ UNCHANGED snap
             \/ /\ session[k] # None /\ UNCHANGED session
                /\ snap' = [snap EXCEPT ![p].creds = @ \ {session[k].cred}]
    BY Zenon DEF UnlinkSession
  <1>2. /\ pc[p] = "wipeUnlink"
        /\ UNCHANGED <<auth, gateway, asked, pc, phase, rsp, outcome, verdict>>
    BY DEF UnlinkSession
  <1>3. /\ doomed'[p] = doomed[p] \ {k} /\ k \in Key
        /\ \A q \in Proc: q # p => doomed'[q] = doomed[q]
    BY <1>1 DEF KeyInv, TypeOK, MemoryTyped
  <1>4. \A j \in Key: session'[j] \in {session[j], None}
    BY <1>1 DEF KeyInv, TypeOK, FilesTyped
  <1>5. /\ snap'[p].tok = snap[p].tok /\ snap'[p].creds \subseteq snap[p].creds
        /\ \A q \in Proc: q # p => snap'[q] = snap[q]
    BY <1>1 DEF KeyInv, TypeOK, HistoryTyped
  <1>6. Elsewhere(p)
    BY <1>2, <1>3, <1>5 DEF Elsewhere
  <1>7. NoNewTok
    BY <1>2, <1>5 DEF NoNewTok, PendingTok, TokOnDisk
  <1>8. NoNewCred
    BY <1>2, <1>4, <1>5 DEF NoNewCred, PendingCred, CredsOnDisk
  <1>9. NoneReturns
    BY <1>2, <1>4 DEF NoneReturns, TokOnDisk
  <1>10. CredsListed(p) /\ ~Wiped(p) /\ TokForgotten(p)
    BY <1>2 DEF WipeInv, Wiping, Wiped
  <1>11. CredsListed(p)'
    <2>1. ASSUME NEW j \in Key, session'[j] # None, session'[j].cred \in snap'[p].creds
          PROVE  j \in doomed'[p]
      <3>1. session'[j] = session[j]
        BY <1>4, <2>1
      <3>2. j \in doomed[p]
        BY <1>5, <1>10, <2>1, <3>1 DEF CredsListed
      <3>3. j # k
        BY <1>1, <2>1, <3>1 DEF KeyInv, TypeOK, FilesTyped, HistoryTyped
      <3>. QED
        BY <1>3, <3>2, <3>3
    <2>. QED
      BY <2>1 DEF CredsListed
  <1>12. TokForgotten(p)'
    BY <1>2, <1>5, <1>10 DEF TokForgotten, TokOnDisk
  <1>13. Wiping(p)'
    BY <1>2, <1>10, <1>11, <1>12 DEF WipeInv, Wiping, Wiped, WipeLabel
  <1>. QED
    BY <1>6, <1>7, <1>8, <1>9, <1>13, TokensKept, CredsKept, OthersWiping DEF WipeInv

LEMMA DropSessionWipes ==
  ASSUME KeyInv, WipeInv, NEW p \in Proc, DropSession(p) PROVE WipeInv'
  <1>. USE DEF DropSession, AfterMiss
  <1>1. Elsewhere(p)
    BY DEF KeyInv, TypeOK, ControlTyped, MemoryTyped, HistoryTyped, Elsewhere
  <1>2. NoNewTok
    BY DEF KeyInv, TypeOK, FilesTyped, MemoryTyped, HistoryTyped, NoNewTok, PendingTok,
       TokOnDisk
  <1>3. NoNewCred
    BY DEF KeyInv, TypeOK, FilesTyped, MemoryTyped, HistoryTyped, NoNewCred, PendingCred,
       CredsOnDisk
  <1>4. NoneReturns
    BY DEF KeyInv, TypeOK, FilesTyped, NoneReturns, TokOnDisk
  <1>5. Wiping(p)'
    <2>1. pc[p] = "drop" /\ ~Wiped(p) /\ cmd[p] # "logout"
      BY DEF WipeInv, Wiping, Wiped, WipeLabel
    <2>2. pc'[p] = "dropYaml" /\ UNCHANGED <<verdict, phase, outcome, cmd>>
      BY DEF KeyInv, TypeOK, ControlTyped
    <2>. QED
      BY <2>1, <2>2 DEF WipeInv, Wiping, Wiped, WipeLabel
  <1>. QED
    BY <1>1, <1>2, <1>3, <1>4, <1>5, TokensKept, CredsKept, OthersWiping DEF WipeInv

\* A login saves a token minted just now, that no snapshot can hold.
LEMMA LoginSucceedsWipes ==
  ASSUME KeyInv, WipeInv, NEW p \in Proc, LoginSucceeds(p) PROVE WipeInv'
  <1>. USE DEF LoginSucceeds
  <1>1. Elsewhere(p)
    BY DEF KeyInv, TypeOK, ControlTyped, Elsewhere
  <1>2. minted \in Nat /\ minted' = minted + 1 /\ TokOnDisk' = {minted + 1}
    <2>1. minted \in Nat /\ minted + 1 \in Tok
      BY Bounds DEF KeyInv, TypeOK, GatewayTyped, Tok
    <2>2. auth' \in AuthFile
      BY <2>1 DEF AuthFile
    <2>. QED
      BY <2>1, <2>2, NoneIsNothing DEF TokOnDisk
  <1>3. ASSUME NEW q \in Proc PROVE PendingTok(q)' \subseteq PendingTok(q) /\ snap'[q] = snap[q]
    BY DEF KeyInv, TypeOK, MemoryTyped, PendingTok
  <1>4. TokensOnce'
    BY <1>2, <1>3 DEF WipeInv, TokensOnce, MintedToks
  <1>5. NoNewCred
    BY DEF KeyInv, TypeOK, MemoryTyped, NoNewCred, PendingCred, CredsOnDisk
  <1>6. NoneReturns
    BY <1>2 DEF WipeInv, TokensOnce, MintedToks, NoneReturns
  <1>7. Wiping(p)'
    BY DEF KeyInv, TypeOK, ControlTyped, WipeInv, Wiping, Wiped, WipeLabel
  <1>. QED
    BY <1>1, <1>4, <1>5, <1>6, <1>7, CredsKept, OthersWiping DEF WipeInv

\* An answer brings a token and credentials that are nowhere else.
LEMMA GatewayAnswersWipes ==
  ASSUME KeyInv, WipeInv, NEW p \in Proc, GatewayAnswers(p) PROVE WipeInv'
  <1>. DEFINE ans(s, r) ==
         [status |-> s, rot |-> r,
          cred |-> IF s = "issued" THEN [conn |-> ConnOf(p), id |-> issued + 1] ELSE None]
  <1>. DEFINE gives(s, r) ==
         /\ rsp' = [rsp EXCEPT ![p] = ans(s, r)]
         /\ minted' = IF r = None THEN minted ELSE r
         /\ issued' = IF s = "issued" THEN issued + 1 ELSE issued
  <1>a. PICK s \in Statuses(pc[p], tok[p]): \E r \in Rotations(s, tok[p]): gives(s, r)
    BY Zenon DEF GatewayAnswers
  <1>1. PICK r \in Rotations(s, tok[p]): gives(s, r)
    BY <1>a
  <1>2. /\ UNCHANGED <<files, asked, pc, phase, doomed, outcome, history>>
        /\ pc[p] \in {"list", "create"} /\ rsp[p] = None
    BY DEF GatewayAnswers
  <1>3. rsp'[p] = ans(s, r) /\ \A q \in Proc: q # p => rsp'[q] = rsp[q]
    BY <1>1 DEF KeyInv, TypeOK, MemoryTyped
  <1>5. minted \in Nat /\ issued \in Nat
    BY Bounds DEF KeyInv, TypeOK, GatewayTyped, Tok
  <1>6. r = None \/ r = minted + 1
    BY DEF Rotations
  <1>7. TokensOnce'
    <2>1. PendingTok(p) = {} /\ PendingTok(p)' \subseteq {r} \ {None}
      BY <1>2, <1>3 DEF PendingTok
    <2>2. \A q \in Proc: q # p => PendingTok(q)' = PendingTok(q)
      BY <1>3 DEF PendingTok
    <2>3. TokOnDisk' = TokOnDisk /\ snap' = snap
      BY <1>2 DEF TokOnDisk
    <2>4. r # None => r = minted + 1 /\ minted' = minted + 1
      BY <1>1, <1>6
    <2>5. r = None => minted' = minted
      BY <1>1
    <2>. QED
      BY <1>5, <2>1, <2>2, <2>3, <2>4, <2>5 DEF WipeInv, TokensOnce, MintedToks
  <1>8. CredsOnce'
    <2>. DEFINE new == IF s = "issued" THEN [conn |-> ConnOf(p), id |-> issued + 1] ELSE None
    <2>1. PendingCred(p) = {} /\ PendingCred(p)' \subseteq {new} \ {None}
      BY <1>2, <1>3 DEF PendingCred
    <2>2. \A q \in Proc: q # p => PendingCred(q)' = PendingCred(q)
      BY <1>3 DEF PendingCred
    <2>3. CredsOnDisk' = CredsOnDisk /\ snap' = snap
      BY <1>2 DEF CredsOnDisk
    <2>4. ASSUME s = "issued" PROVE new \in Cred /\ new.id = issued + 1 /\ issued' = issued + 1
      <3>1. Served(p) /\ issued + 1 \in 0 .. MaxCred
        BY <1>2, <1>5, <1>a, <2>4, Bounds DEF Statuses, KeyInv, MayAsk
      <3>. QED
        BY <1>1, <2>4, <3>1 DEF Served, Cred
    <2>5. s # "issued" => new = None /\ issued' = issued
      BY <1>1
    <2>6. issued' = issued \/ issued' = issued + 1
      BY <2>4, <2>5
    <2>7. IssuedCreds \subseteq IssuedCreds'
      BY <1>5, <2>6 DEF IssuedCreds, Cred
    <2>8. s = "issued" => new \in IssuedCreds' \ IssuedCreds
      BY <1>5, <2>4 DEF IssuedCreds
    <2>9. PendingCred(p)' \subseteq IssuedCreds' \ IssuedCreds
      BY <2>1, <2>5, <2>8
    <2>. QED
      BY <2>1, <2>2, <2>3, <2>7, <2>9 DEF WipeInv, CredsOnce
  <1>9. ASSUME NEW q \in Proc PROVE Wiping(q)'
    <2>1. UNCHANGED <<pc, phase, doomed, outcome, cmd, verdict, snap, auth, session>>
      BY <1>2
    <2>. QED
      BY <2>1 DEF WipeInv, Wiping, Wiped, TokForgotten, CredsListed, CredsForgotten,
         TokOnDisk, CredsOnDisk
  <1>. QED
    BY <1>7, <1>8, <1>9 DEF WipeInv


\* A rotated token leaves the answer when it reaches the disk, or gets lost.
LEMMA RotateTokenWipes ==
  ASSUME KeyInv, WipeInv, NEW p \in Proc, RotateToken(p) PROVE WipeInv'
  <1>. DEFINE r == rsp[p].rot
  <1>1. /\ rsp[p] # None /\ r # None /\ r \in Tok
        /\ auth' = auth \/ auth' = [tok |-> r, fresh |-> TRUE]
        /\ rsp' = [rsp EXCEPT ![p].rot = None]
        /\ UNCHANGED <<session, gateway, asked, pc, phase, doomed, outcome, history>>
    BY DEF RotateToken, KeyInv, TypeOK, MemoryTyped, Answer
  <1>a. rsp'[p] # None /\ rsp'[p].rot = None /\ rsp'[p].cred = rsp[p].cred
    <2>1. rsp[p] \in Answer /\ rsp'[p] = [rsp[p] EXCEPT !.rot = None]
      BY <1>1 DEF KeyInv, TypeOK, MemoryTyped
    <2>2. rsp'[p] \in Answer /\ rsp'[p].rot = None /\ rsp'[p].cred = rsp[p].cred
      BY <2>1 DEF Answer
    <2>. QED
      BY <2>2, NoneIsNothing
  <1>2. PendingTok(p) = {r} /\ PendingTok(p)' = {}
    BY <1>1, <1>a DEF PendingTok
  <1>3. PendingCred(p)' = PendingCred(p)
    BY <1>1, <1>a DEF PendingCred
  <1>4. ASSUME NEW q \in Proc, q # p
        PROVE PendingTok(q)' = PendingTok(q) /\ PendingCred(q)' = PendingCred(q)
    BY <1>1, <1>4 DEF KeyInv, TypeOK, MemoryTyped, PendingTok, PendingCred
  <1>5. TokOnDisk' \subseteq TokOnDisk \/ TokOnDisk' = {r}
    BY <1>1 DEF TokOnDisk
  <1>6. TokensOnce'
    BY <1>1, <1>2, <1>4, <1>5 DEF WipeInv, TokensOnce, MintedToks
  <1>7. NoNewCred
    BY <1>1, <1>3, <1>4 DEF NoNewCred, CredsOnDisk
  <1>8. NoneReturns
    BY <1>1, <1>2, <1>5 DEF WipeInv, TokensOnce, NoneReturns
  <1>9. Elsewhere(p)
    BY <1>1 DEF Elsewhere
  <1>10. Wiping(p)'
    BY <1>1 DEF KeyInv, Awaited, WipeInv, Wiping, Wiped, WipeLabel
  <1>. QED
    BY <1>6, <1>7, <1>8, <1>9, <1>10, CredsKept, OthersWiping DEF WipeInv

\* Issued credentials leave the answer when they are cached.
LEMMA CredentialsIssuedWipes ==
  ASSUME KeyInv, WipeInv, NEW p \in Proc, CredentialsIssued(p) PROVE WipeInv'
  <1>. DEFINE c == rsp[p].cred
  <1>1. /\ rsp[p] # None /\ pc[p] = "create" /\ rsp[p].status = "issued"
        /\ session' = [session EXCEPT ![KeyAt(p)] = [cred |-> c, fresh |-> TRUE]]
        /\ rsp' = [rsp EXCEPT ![p] = None]
        /\ verdict' = [verdict EXCEPT ![p] = "issued"]
        /\ UNCHANGED <<auth, gateway, asked, doomed, outcome, snap>>
    BY DEF CredentialsIssued, Answered
  <1>2. KeyAt(p) \in Key /\ c # None
    BY <1>1, Names DEF KeyInv, Awaited, Fits, Served, KeyAt
  <1>3. \A k \in Key: IF k = KeyAt(p) THEN session'[k].cred = c ELSE session'[k] = session[k]
    BY <1>1, <1>2 DEF KeyInv, TypeOK, FilesTyped
  <1>4. PendingCred(p) = {c} /\ PendingCred(p)' = {} /\ PendingTok(p)' = {}
    BY <1>1, <1>2 DEF KeyInv, TypeOK, MemoryTyped, PendingCred, PendingTok
  <1>5. ASSUME NEW q \in Proc, q # p
        PROVE PendingTok(q)' = PendingTok(q) /\ PendingCred(q)' = PendingCred(q)
    BY <1>1, <1>5 DEF KeyInv, TypeOK, MemoryTyped, PendingTok, PendingCred
  <1>6. CredsOnDisk' \subseteq CredsOnDisk \cup {c}
    BY <1>3 DEF CredsOnDisk
  <1>7. CredsOnce'
    BY <1>1, <1>4, <1>5, <1>6 DEF WipeInv, CredsOnce, IssuedCreds
  <1>8. NoNewTok
    BY <1>1, <1>4, <1>5 DEF NoNewTok, TokOnDisk
  <1>9. NoneReturns
    BY <1>1, <1>3, <1>4 DEF WipeInv, CredsOnce, NoneReturns, TokOnDisk
  <1>10. Elsewhere(p)
    BY <1>1 DEF CredentialsIssued, KeyInv, TypeOK, ControlTyped, HistoryTyped, Elsewhere
  <1>11. Wiping(p)'
    BY <1>1 DEF CredentialsIssued, KeyInv, TypeOK, ControlTyped, HistoryTyped, WipeInv,
       Wiping, Wiped, WipeLabel
  <1>. QED
    BY <1>7, <1>8, <1>9, <1>10, <1>11, TokensKept, OthersWiping DEF WipeInv

\* Time passes: a file keeps its secret when it expires.
LEMMA TimeWipes ==
  ASSUME KeyInv, WipeInv,
         \/ ExpireToken \/ UNCHANGED vars
         \/ \E k \in Key: ExpireSession(k) \/ AgeKubeconfig(k)
  PROVE  WipeInv'
  <1>. USE DEF ExpireToken, ExpireSession, AgeKubeconfig, vars
  <1>1. UNCHANGED <<gateway, asked, pc, locals, outcome, history>>
    OBVIOUS
  <1>2. TokOnDisk' = TokOnDisk
    BY NoneIsNothing DEF KeyInv, TypeOK, FilesTyped, AuthFile, TokOnDisk
  <1>3. \A j \in Key: /\ session'[j] # None <=> session[j] # None
                      /\ session[j] # None => session'[j].cred = session[j].cred
    <2>1. CASE \E k \in Key: ExpireSession(k)
      <3>1. PICK k \in Key: session' = [session EXCEPT ![k].fresh = FALSE] /\ session[k] # None
        BY <2>1
      <3>2. session[k] \in SessionFile /\ session'[k] = [session[k] EXCEPT !.fresh = FALSE]
        BY <3>1 DEF KeyInv, TypeOK, FilesTyped
      <3>3. session'[k] \in SessionFile /\ session'[k].cred = session[k].cred
        BY <3>2 DEF SessionFile
      <3>4. \A j \in Key: j # k => session'[j] = session[j]
        BY <3>1 DEF KeyInv, TypeOK, FilesTyped
      <3>. QED
        BY <3>1, <3>3, <3>4, NoneIsNothing
    <2>2. CASE UNCHANGED session
      BY <2>2
    <2>. QED
      BY <2>1, <2>2
  <1>4. CredsOnDisk' = CredsOnDisk
    BY <1>3 DEF CredsOnDisk
  <1>5. TokensOnce' /\ CredsOnce'
    BY <1>1, <1>2, <1>4 DEF WipeInv, TokensOnce, CredsOnce, PendingTok, PendingCred,
       MintedToks, IssuedCreds
  <1>6. ASSUME NEW q \in Proc PROVE Wiping(q)'
    <2>1. CredsListed(q)' <=> CredsListed(q)
      BY <1>1, <1>3 DEF CredsListed
    <2>. QED
      BY <1>1, <1>2, <1>4, <2>1 DEF WipeInv, Wiping, Wiped, TokForgotten, CredsForgotten
  <1>. QED
    BY <1>5, <1>6 DEF WipeInv

\* Together: every step keeps the invariant.
LEMMA WipeInvStep == KeyInv /\ WipeInv /\ [Next]_vars => WipeInv'
  <1>. SUFFICES ASSUME KeyInv, WipeInv, [Next]_vars PROVE WipeInv'
    OBVIOUS
  <1>1. ASSUME NEW p \in Proc, NEW c \in Commands, Begin(p, c) \/ BeginUnconfigured(p, c)
        PROVE WipeInv'
    BY <1>1, BeginWipes, BeginUnconfiguredWipes
  <1>2. ASSUME NEW p \in Proc, LoginSucceeds(p) \/ LoginFails(p) \/ GatewayAnswers(p)
        PROVE WipeInv'
    BY <1>2, LoginSucceedsWipes, LoginFailsWipes, GatewayAnswersWipes
  <1>3. ASSUME NEW p \in Proc, CodeStep(p) PROVE WipeInv'
    BY <1>3, CheckTokenWipes, TakeTokenWipes, FindTokenWipes, UnlinkTokenWipes,
         ListSessionsWipes, UnlinkSessionWipes, ListKubeconfigsWipes,
         UnlinkKubeconfigWipes, WipeEndsWipes, RotateTokenWipes,
         ListServedWipes, ListFailsWipes, ListDeniedWipes,
         CredentialsIssuedWipes, CachingFailsWipes, CredentialsWithheldWipes,
         CredentialsDeniedWipes, LookUpWipes, ReadCacheWipes, DropSessionWipes,
         DropKubeconfigWipes, ConnectSshWipes, WriteKubeconfigWipes, UseFailsWipes,
         SweepStatWipes, KubectlReadsWipes DEF CodeStep
  <1>. QED
    BY <1>1, <1>2, <1>3, TimeWipes DEF Next

-----------------------------------------------------------------------------
\* The inductive invariant holds in every reachable state: a token or a set of
\* credentials is saved at most once, and a wipe has removed what its snapshot
\* holds of each file by the time it turns to the next.
THEOREM WipeInvariant == Spec => []WipeInv
  BY KeyInvariant, WipeInvInit, WipeInvStep, PTL DEF Spec

\* For any number of invocations: a logout that reports success, and a command
\* that ends with 77 because its token was refused, leave on disk neither the
\* token nor any cached credentials that were there when the wipe began, but for
\* the files it could not unlink (clearToken, clearAllCachedCredentials,
\* forceReauthenticate).
THEOREM WipeForgets == Spec => []WipedIsForgotten
  <1>1. WipeInv => WipedIsForgotten
    BY DEF WipeInv, Wiping, WipedIsForgotten, TokForgotten, CredsForgotten, OnDisk,
       TokOnDisk, CredsOnDisk
  <1>. QED
    BY <1>1, WipeInvariant, PTL
=============================================================================
