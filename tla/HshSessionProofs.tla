--------------------------- MODULE HshSessionProofs ---------------------------
(***************************************************************************)
(* What HshSession guarantees for any number of invocations, connections,  *)
(* targets, tokens and credentials.  The argument: whoever holds           *)
(* credentials knows the connection they are for, and every file of        *)
(* credentials is named after the connection they were issued for.         *)
(* From it, that every invocation keeps to the exit-code contract of       *)
(* CommandContract.                                                        *)
(***************************************************************************)
EXTENDS HshSession, TLAPS

\* What a process must have learnt to be where it is.
Asked(p)   == cmd[p] \in Wrapper /\ target[p] \in Target
Served(p)  == Asked(p) /\ ConnOf(p) \in Conn
Fits(p, c) == Served(p) /\ KeyOf[c.conn] = KeyAt(p)

MayAsk(p) ==
  /\ pc[p] = "idle" => cred[p] = None /\ rsp[p] = None /\ phase[p] = "find"
  /\ pc[p] \in {"ensure", "token", "list"} => Asked(p)
  /\ pc[p] \in {"ensure", "token"} /\ phase[p] # "find" => Served(p)
  /\ pc[p] \in {"look", "read", "drop", "dropYaml", "create", "use", "sweep",
                "sweepYaml"} => Served(p)
  /\ pc[p] \in {"look", "read"} => phase[p] \in {"get", "tell"}

InHand(p) ==
  /\ pc[p] \in {"use", "sweep", "sweepYaml"} => cred[p] # None
  /\ phase[p] = "tell" => cred[p] # None
  /\ cred[p] # None => Fits(p, cred[p])

Awaited(p) ==
  rsp[p] # None =>
    /\ pc[p] \in {"list", "create"}
    /\ rsp[p].status = "issued" =>
         pc[p] = "create" /\ rsp[p].cred # None /\ Fits(p, rsp[p].cred)

FilesKeyed ==
  \A k \in Key:
    /\ session[k] # None => KeyOf[session[k].cred.conn] = k
    /\ kube[k] # None => KeyOf[kube[k].cred.conn] = k

\* The inductive invariant: CredentialsMatchConnection alone is not, a step
\* that reads a file must know what that file may hold.
KeyInv == /\ TypeOK /\ FilesKeyed
          /\ \A p \in Proc: MayAsk(p) /\ InHand(p) /\ Awaited(p)

USE DEF files, gateway, asked, locals, history,
        Goto, Exit, End, HandOver, Enter, Judge, Forget

-----------------------------------------------------------------------------
\* The initial states satisfy the invariant.
LEMMA KeyInvInit == Init => KeyInv
  <1>. SUFFICES ASSUME Init PROVE KeyInv
    OBVIOUS
  <1>1. FilesTyped
    <2>1. 1 \in Tok /\ 0 \in 0 .. MaxCred
      BY Bounds DEF Tok
    <2>2. [tok |-> 1, fresh |-> TRUE] \in AuthFile
      BY <2>1 DEF AuthFile
    <2>3. \A c \in Conn: [cred |-> [conn |-> c, id |-> 0], fresh |-> TRUE] \in SessionFile
      BY <2>1 DEF SessionFile, Cred
    <2>4. session \in [Key -> SessionFile \cup {None}]
      <3>. DEFINE cached == {[cred |-> [conn |-> c, id |-> 0], fresh |-> TRUE] : c \in Conn}
      <3>1. cached \subseteq SessionFile
        BY <2>3
      <3>2. session \in [Key -> {None} \cup cached]
        BY DEF Init
      <3>. QED
        BY <3>1, <3>2
    <2>. QED
      BY <2>2, <2>4 DEF Init, FilesTyped
  <1>2. GatewayTyped
    BY Bounds DEF Init, GatewayTyped, Tok
  <1>3. ControlTyped /\ MemoryTyped
    BY DEF Init, ControlTyped, MemoryTyped, Label
  <1>4. HistoryTyped
    BY DEF Init, HistoryTyped, NothingOnDisk, Contract!Verdict
  <1>5. FilesKeyed
    BY DEF Init, FilesKeyed
  <1>6. \A p \in Proc: MayAsk(p) /\ InHand(p) /\ Awaited(p)
    BY DEF Init, MayAsk, InHand, Awaited
  <1>. QED
    BY <1>1, <1>2, <1>3, <1>4, <1>5, <1>6 DEF KeyInv, TypeOK

-----------------------------------------------------------------------------
\* Every step keeps it: one lemma per action.

LEMMA BeginKeeps ==
  ASSUME KeyInv, NEW p \in Proc, NEW c \in Commands, Begin(p, c) PROVE KeyInv'
  <1>. USE DEF KeyInv, Begin, OnDisk, FirstStep, Wrapper
  <1>1. TypeOK'
    BY Names DEF TypeOK, FilesTyped, GatewayTyped, ControlTyped, MemoryTyped,
         HistoryTyped, Label, Contract!Outcome, Command, AuthFile, SessionFile
  <1>2. FilesKeyed'
    BY Names, NoneIsNothing DEF TypeOK, FilesTyped, MemoryTyped, FilesKeyed,
         MayAsk, InHand, Awaited, Asked, Served, Fits, KeyAt, ConnOf,
         SessionFile, KubeFile
  <1>3. ASSUME NEW q \in Proc PROVE MayAsk(q)' /\ InHand(q)' /\ Awaited(q)'
    BY Names, NoneIsNothing DEF TypeOK, FilesTyped, ControlTyped, MemoryTyped,
         FilesKeyed, MayAsk, InHand, Awaited, Asked, Served, Fits, KeyAt,
         ConnOf, Wrapper, SessionFile, KubeFile, Answer
  <1>. QED
    BY <1>1, <1>2, <1>3

LEMMA BeginUnconfiguredKeeps ==
  ASSUME KeyInv, NEW p \in Proc, NEW c \in Commands, BeginUnconfigured(p, c) PROVE KeyInv'
  <1>. USE DEF KeyInv, BeginUnconfigured, Contract!Fallback
  <1>1. TypeOK'
    BY Names DEF TypeOK, FilesTyped, GatewayTyped, ControlTyped, MemoryTyped,
         HistoryTyped, Label, Contract!Outcome, Command
  <1>2. FilesKeyed'
    BY Names, NoneIsNothing DEF TypeOK, FilesTyped, MemoryTyped, FilesKeyed,
         MayAsk, InHand, Awaited, Asked, Served, Fits, KeyAt, ConnOf,
         SessionFile, KubeFile
  <1>3. ASSUME NEW q \in Proc PROVE MayAsk(q)' /\ InHand(q)' /\ Awaited(q)'
    BY Names, NoneIsNothing DEF TypeOK, FilesTyped, ControlTyped, MemoryTyped,
         FilesKeyed, MayAsk, InHand, Awaited, Asked, Served, Fits, KeyAt,
         ConnOf, Wrapper, SessionFile, KubeFile, Answer
  <1>. QED
    BY <1>1, <1>2, <1>3

LEMMA CheckTokenKeeps ==
  ASSUME KeyInv, NEW p \in Proc, CheckToken(p) PROVE KeyInv'
  <1>. USE DEF KeyInv, CheckToken, Usable, NoSession
  <1>1. TypeOK'
    <2>1. FilesTyped'
      BY DEF TypeOK, FilesTyped
    <2>2. GatewayTyped'
      BY DEF TypeOK, GatewayTyped
    <2>3. ControlTyped'
      BY DEF TypeOK, ControlTyped, Label, Contract!Outcome
    <2>4. MemoryTyped'
      BY DEF TypeOK, MemoryTyped
    <2>5. HistoryTyped'
      BY DEF TypeOK, HistoryTyped
    <2>. QED
      BY <2>1, <2>2, <2>3, <2>4, <2>5 DEF TypeOK
  <1>2. FilesKeyed'
    BY Names, NoneIsNothing DEF TypeOK, FilesTyped, MemoryTyped, FilesKeyed,
         MayAsk, InHand, Awaited, Asked, Served, Fits, KeyAt, ConnOf,
         SessionFile, KubeFile
  <1>3. ASSUME NEW q \in Proc PROVE MayAsk(q)' /\ InHand(q)' /\ Awaited(q)'
    BY Names, NoneIsNothing DEF TypeOK, FilesTyped, ControlTyped, MemoryTyped,
         FilesKeyed, MayAsk, InHand, Awaited, Asked, Served, Fits, KeyAt,
         ConnOf, Wrapper, SessionFile, KubeFile, Answer
  <1>. QED
    BY <1>1, <1>2, <1>3

LEMMA TakeTokenKeeps ==
  ASSUME KeyInv, NEW p \in Proc, TakeToken(p) PROVE KeyInv'
  <1>. USE DEF KeyInv, TakeToken, Usable
  <1>1. TypeOK'
    BY DEF TypeOK, FilesTyped, GatewayTyped, ControlTyped, MemoryTyped,
         HistoryTyped, Label, Contract!Outcome, AuthFile
  <1>2. FilesKeyed'
    BY Names, NoneIsNothing DEF TypeOK, FilesTyped, MemoryTyped, FilesKeyed,
         MayAsk, InHand, Awaited, Asked, Served, Fits, KeyAt, ConnOf,
         SessionFile, KubeFile
  <1>3. ASSUME NEW q \in Proc PROVE MayAsk(q)' /\ InHand(q)' /\ Awaited(q)'
    BY Names, NoneIsNothing DEF TypeOK, FilesTyped, ControlTyped, MemoryTyped,
         FilesKeyed, MayAsk, InHand, Awaited, Asked, Served, Fits, KeyAt,
         ConnOf, Wrapper, SessionFile, KubeFile, Answer
  <1>. QED
    BY <1>1, <1>2, <1>3

LEMMA FindTokenKeeps ==
  ASSUME KeyInv, NEW p \in Proc, FindToken(p) PROVE KeyInv'
  <1>. USE DEF KeyInv, FindToken
  <1>1. TypeOK'
    BY DEF TypeOK, FilesTyped, GatewayTyped, ControlTyped, MemoryTyped,
         HistoryTyped, Label, Contract!Outcome
  <1>2. FilesKeyed'
    BY Names, NoneIsNothing DEF TypeOK, FilesTyped, MemoryTyped, FilesKeyed,
         MayAsk, InHand, Awaited, Asked, Served, Fits, KeyAt, ConnOf,
         SessionFile, KubeFile
  <1>3. ASSUME NEW q \in Proc PROVE MayAsk(q)' /\ InHand(q)' /\ Awaited(q)'
    BY Names, NoneIsNothing DEF TypeOK, FilesTyped, ControlTyped, MemoryTyped,
         FilesKeyed, MayAsk, InHand, Awaited, Asked, Served, Fits, KeyAt,
         ConnOf, Wrapper, SessionFile, KubeFile, Answer
  <1>. QED
    BY <1>1, <1>2, <1>3

LEMMA UnlinkTokenKeeps ==
  ASSUME KeyInv, NEW p \in Proc, UnlinkToken(p) PROVE KeyInv'
  <1>. USE DEF KeyInv, UnlinkToken
  <1>1. TypeOK'
    BY ZenonT(30) DEF TypeOK, FilesTyped, GatewayTyped, ControlTyped, MemoryTyped,
         HistoryTyped, Label, Contract!Outcome
  <1>2. FilesKeyed'
    BY Names, NoneIsNothing DEF TypeOK, FilesTyped, MemoryTyped, FilesKeyed,
         MayAsk, InHand, Awaited, Asked, Served, Fits, KeyAt, ConnOf,
         SessionFile, KubeFile
  <1>3. ASSUME NEW q \in Proc PROVE MayAsk(q)' /\ InHand(q)' /\ Awaited(q)'
    BY Names, NoneIsNothing DEF TypeOK, FilesTyped, ControlTyped, MemoryTyped,
         FilesKeyed, MayAsk, InHand, Awaited, Asked, Served, Fits, KeyAt,
         ConnOf, Wrapper, SessionFile, KubeFile, Answer
  <1>. QED
    BY <1>1, <1>2, <1>3

LEMMA ListSessionsKeeps ==
  ASSUME KeyInv, NEW p \in Proc, ListSessions(p) PROVE KeyInv'
  <1>. USE DEF KeyInv, ListSessions
  <1>1. TypeOK'
    BY DEF TypeOK, FilesTyped, GatewayTyped, ControlTyped, MemoryTyped,
         HistoryTyped, Label, Contract!Outcome
  <1>2. FilesKeyed'
    BY Names, NoneIsNothing DEF TypeOK, FilesTyped, MemoryTyped, FilesKeyed,
         MayAsk, InHand, Awaited, Asked, Served, Fits, KeyAt, ConnOf,
         SessionFile, KubeFile
  <1>3. ASSUME NEW q \in Proc PROVE MayAsk(q)' /\ InHand(q)' /\ Awaited(q)'
    BY Names, NoneIsNothing DEF TypeOK, FilesTyped, ControlTyped, MemoryTyped,
         FilesKeyed, MayAsk, InHand, Awaited, Asked, Served, Fits, KeyAt,
         ConnOf, Wrapper, SessionFile, KubeFile, Answer
  <1>. QED
    BY <1>1, <1>2, <1>3

LEMMA UnlinkSessionKeeps ==
  ASSUME KeyInv, NEW p \in Proc, UnlinkSession(p) PROVE KeyInv'
  <1>. USE DEF KeyInv, UnlinkSession
  <1>1. TypeOK'
    <2>1. FilesTyped'
      BY DEF TypeOK, FilesTyped
    <2>2. GatewayTyped' /\ ControlTyped'
      BY DEF TypeOK, GatewayTyped, ControlTyped
    <2>3. MemoryTyped'
      BY DEF TypeOK, MemoryTyped
    <2>4. HistoryTyped'
      <3>1. PICK k \in doomed[p]: \/ snap' = snap
                                \/ snap' = [snap EXCEPT ![p].creds = @ \ {session[k].cred}]
        OBVIOUS
      <3>. QED
        BY <3>1 DEF TypeOK, HistoryTyped
    <2>. QED
      BY <2>1, <2>2, <2>3, <2>4 DEF TypeOK
  <1>2. FilesKeyed'
    BY Names, NoneIsNothing DEF TypeOK, FilesTyped, MemoryTyped, FilesKeyed,
         MayAsk, InHand, Awaited, Asked, Served, Fits, KeyAt, ConnOf,
         SessionFile, KubeFile
  <1>3. ASSUME NEW q \in Proc PROVE MayAsk(q)' /\ InHand(q)' /\ Awaited(q)'
    BY Names, NoneIsNothing DEF TypeOK, FilesTyped, ControlTyped, MemoryTyped,
         FilesKeyed, MayAsk, InHand, Awaited, Asked, Served, Fits, KeyAt,
         ConnOf, Wrapper, SessionFile, KubeFile, Answer
  <1>. QED
    BY <1>1, <1>2, <1>3

LEMMA ListKubeconfigsKeeps ==
  ASSUME KeyInv, NEW p \in Proc, ListKubeconfigs(p) PROVE KeyInv'
  <1>. USE DEF KeyInv, ListKubeconfigs
  <1>1. TypeOK'
    BY DEF TypeOK, FilesTyped, GatewayTyped, ControlTyped, MemoryTyped,
         HistoryTyped, Label, Contract!Outcome
  <1>2. FilesKeyed'
    BY Names, NoneIsNothing DEF TypeOK, FilesTyped, MemoryTyped, FilesKeyed,
         MayAsk, InHand, Awaited, Asked, Served, Fits, KeyAt, ConnOf,
         SessionFile, KubeFile
  <1>3. ASSUME NEW q \in Proc PROVE MayAsk(q)' /\ InHand(q)' /\ Awaited(q)'
    BY Names, NoneIsNothing DEF TypeOK, FilesTyped, ControlTyped, MemoryTyped,
         FilesKeyed, MayAsk, InHand, Awaited, Asked, Served, Fits, KeyAt,
         ConnOf, Wrapper, SessionFile, KubeFile, Answer
  <1>. QED
    BY <1>1, <1>2, <1>3

LEMMA UnlinkKubeconfigKeeps ==
  ASSUME KeyInv, NEW p \in Proc, UnlinkKubeconfig(p) PROVE KeyInv'
  <1>. USE DEF KeyInv, UnlinkKubeconfig, RemoveKubeconfig
  <1>1. TypeOK'
    BY DEF TypeOK, FilesTyped, GatewayTyped, ControlTyped, MemoryTyped,
         HistoryTyped, Label, Contract!Outcome
  <1>2. FilesKeyed'
    BY Names, NoneIsNothing DEF TypeOK, FilesTyped, MemoryTyped, FilesKeyed,
         MayAsk, InHand, Awaited, Asked, Served, Fits, KeyAt, ConnOf,
         SessionFile, KubeFile
  <1>3. ASSUME NEW q \in Proc PROVE MayAsk(q)' /\ InHand(q)' /\ Awaited(q)'
    BY Names, NoneIsNothing DEF TypeOK, FilesTyped, ControlTyped, MemoryTyped,
         FilesKeyed, MayAsk, InHand, Awaited, Asked, Served, Fits, KeyAt,
         ConnOf, Wrapper, SessionFile, KubeFile, Answer
  <1>. QED
    BY <1>1, <1>2, <1>3

LEMMA WipeEndsKeeps ==
  ASSUME KeyInv, NEW p \in Proc, WipeEnds(p) PROVE KeyInv'
  <1>. USE DEF KeyInv, WipeEnds
  <1>1. TypeOK'
    BY DEF TypeOK, FilesTyped, GatewayTyped, ControlTyped, MemoryTyped,
         HistoryTyped, Label, Contract!Outcome
  <1>2. FilesKeyed'
    BY Names, NoneIsNothing DEF TypeOK, FilesTyped, MemoryTyped, FilesKeyed,
         MayAsk, InHand, Awaited, Asked, Served, Fits, KeyAt, ConnOf,
         SessionFile, KubeFile
  <1>3. ASSUME NEW q \in Proc PROVE MayAsk(q)' /\ InHand(q)' /\ Awaited(q)'
    BY Names, NoneIsNothing DEF TypeOK, FilesTyped, ControlTyped, MemoryTyped,
         FilesKeyed, MayAsk, InHand, Awaited, Asked, Served, Fits, KeyAt,
         ConnOf, Wrapper, SessionFile, KubeFile, Answer
  <1>. QED
    BY <1>1, <1>2, <1>3

LEMMA LoginSucceedsKeeps ==
  ASSUME KeyInv, NEW p \in Proc, LoginSucceeds(p) PROVE KeyInv'
  <1>. USE DEF KeyInv, LoginSucceeds
  <1>1. TypeOK'
    BY Bounds DEF TypeOK, FilesTyped, GatewayTyped, ControlTyped, MemoryTyped,
         HistoryTyped, Label, Contract!Outcome, AuthFile, Tok
  <1>2. FilesKeyed'
    BY Names, NoneIsNothing DEF TypeOK, FilesTyped, MemoryTyped, FilesKeyed,
         MayAsk, InHand, Awaited, Asked, Served, Fits, KeyAt, ConnOf,
         SessionFile, KubeFile
  <1>3. ASSUME NEW q \in Proc PROVE MayAsk(q)' /\ InHand(q)' /\ Awaited(q)'
    BY Names, NoneIsNothing DEF TypeOK, FilesTyped, ControlTyped, MemoryTyped,
         FilesKeyed, MayAsk, InHand, Awaited, Asked, Served, Fits, KeyAt,
         ConnOf, Wrapper, SessionFile, KubeFile, Answer
  <1>. QED
    BY <1>1, <1>2, <1>3

LEMMA LoginFailsKeeps ==
  ASSUME KeyInv, NEW p \in Proc, LoginFails(p) PROVE KeyInv'
  <1>. USE DEF KeyInv, LoginFails
  <1>1. TypeOK'
    BY DEF TypeOK, FilesTyped, GatewayTyped, ControlTyped, MemoryTyped,
         HistoryTyped, Label, Contract!Outcome
  <1>2. FilesKeyed'
    BY Names, NoneIsNothing DEF TypeOK, FilesTyped, MemoryTyped, FilesKeyed,
         MayAsk, InHand, Awaited, Asked, Served, Fits, KeyAt, ConnOf,
         SessionFile, KubeFile
  <1>3. ASSUME NEW q \in Proc PROVE MayAsk(q)' /\ InHand(q)' /\ Awaited(q)'
    BY Names, NoneIsNothing DEF TypeOK, FilesTyped, ControlTyped, MemoryTyped,
         FilesKeyed, MayAsk, InHand, Awaited, Asked, Served, Fits, KeyAt,
         ConnOf, Wrapper, SessionFile, KubeFile, Answer
  <1>. QED
    BY <1>1, <1>2, <1>3

LEMMA GatewayAnswersKeeps ==
  ASSUME KeyInv, NEW p \in Proc, GatewayAnswers(p) PROVE KeyInv'
  <1>. USE DEF KeyInv, GatewayAnswers, Statuses, Rotations
  <1>1. TypeOK'
    BY Bounds DEF TypeOK, FilesTyped, GatewayTyped, ControlTyped, MemoryTyped,
         HistoryTyped, Label, Contract!Outcome, Tok, Answer, Cred, MayAsk,
         Served
  <1>2. FilesKeyed'
    BY Names, NoneIsNothing DEF TypeOK, FilesTyped, MemoryTyped, FilesKeyed,
         MayAsk, InHand, Awaited, Asked, Served, Fits, KeyAt, ConnOf,
         SessionFile, KubeFile
  <1>3. \A q \in Proc: MayAsk(q)' /\ InHand(q)' /\ Awaited(q)'
    <2>1. ASSUME NEW q \in Proc PROVE MayAsk(q)' /\ InHand(q)'
      BY DEF MayAsk, InHand, Fits, Asked, Served, ConnOf, KeyAt
    <2>2. ASSUME NEW q \in Proc, q # p PROVE Awaited(q)'
      BY <2>2 DEF TypeOK, MemoryTyped, Awaited, Fits, Asked, Served, ConnOf, KeyAt
    <2>3. Awaited(p)'
      <3>. DEFINE ans(s, r) ==
             [status |-> s, rot |-> r,
              cred |-> IF s = "issued" THEN [conn |-> ConnOf(p), id |-> issued + 1]
                                       ELSE None]
      <3>1. PICK s \in Statuses(pc[p], tok[p]):
              \E r \in Rotations(s, tok[p]): rsp' = [rsp EXCEPT ![p] = ans(s, r)]
        BY Zenon
      <3>2. PICK r \in Rotations(s, tok[p]): rsp' = [rsp EXCEPT ![p] = ans(s, r)]
        BY <3>1
      <3>3. rsp'[p] = ans(s, r)
        BY <3>2 DEF TypeOK, MemoryTyped
      <3>4. ASSUME s = "issued"
            PROVE  pc[p] = "create" /\ issued + 1 \in 0 .. MaxCred
        BY <3>1, <3>4, Bounds DEF Statuses, TypeOK, GatewayTyped
      <3>5. ASSUME s = "issued"
            PROVE  Served(p) /\ [conn |-> ConnOf(p), id |-> issued + 1] \in Cred
        BY <3>4, <3>5 DEF Cred, MayAsk, Served
      <3>. QED
        BY <3>3, <3>4, <3>5, NoneIsNothing
           DEF Awaited, Fits, Asked, Served, ConnOf, KeyAt
    <2>. QED
      BY <2>1, <2>2, <2>3
  <1>. QED
    BY <1>1, <1>2, <1>3

LEMMA RotateTokenKeeps ==
  ASSUME KeyInv, NEW p \in Proc, RotateToken(p) PROVE KeyInv'
  <1>. USE DEF KeyInv, RotateToken
  <1>1. TypeOK'
    <2>1. FilesTyped'
      <3>1. rsp[p].rot \in Tok
        BY DEF TypeOK, MemoryTyped, Answer
      <3>2. [tok |-> rsp[p].rot, fresh |-> TRUE] \in AuthFile
        BY <3>1 DEF AuthFile
      <3>3. auth' = [tok |-> rsp[p].rot, fresh |-> TRUE] \/ auth' = auth
        OBVIOUS
      <3>. QED
        BY <3>2, <3>3 DEF TypeOK, FilesTyped
    <2>2. GatewayTyped'
      BY DEF TypeOK, GatewayTyped
    <2>3. ControlTyped'
      BY DEF TypeOK, ControlTyped, Label, Contract!Outcome
    <2>4. MemoryTyped'
      BY DEF TypeOK, MemoryTyped, Answer
    <2>5. HistoryTyped'
      BY DEF TypeOK, HistoryTyped
    <2>. QED
      BY <2>1, <2>2, <2>3, <2>4, <2>5 DEF TypeOK
  <1>2. FilesKeyed'
    BY Names, NoneIsNothing DEF TypeOK, FilesTyped, MemoryTyped, FilesKeyed,
         MayAsk, InHand, Awaited, Asked, Served, Fits, KeyAt, ConnOf,
         SessionFile, KubeFile
  <1>3. ASSUME NEW q \in Proc PROVE MayAsk(q)' /\ InHand(q)' /\ Awaited(q)'
    BY Names, NoneIsNothing DEF TypeOK, FilesTyped, ControlTyped, MemoryTyped,
         FilesKeyed, MayAsk, InHand, Awaited, Asked, Served, Fits, KeyAt,
         ConnOf, Wrapper, SessionFile, KubeFile, Answer
  <1>. QED
    BY <1>1, <1>2, <1>3

LEMMA ListServedKeeps ==
  ASSUME KeyInv, NEW p \in Proc, ListServed(p) PROVE KeyInv'
  <1>. USE DEF KeyInv, ListServed, Answered, Fallback, Contract!Fallback
  <1>1. TypeOK'
    <2>1. FilesTyped'
      BY DEF TypeOK, FilesTyped
    <2>2. GatewayTyped'
      BY DEF TypeOK, GatewayTyped
    <2>3. ControlTyped'
      BY DEF TypeOK, ControlTyped, Label, Contract!Outcome
    <2>4. MemoryTyped'
      BY DEF TypeOK, MemoryTyped
    <2>5. HistoryTyped'
      BY DEF TypeOK, HistoryTyped, Contract!Verdict
    <2>. QED
      BY <2>1, <2>2, <2>3, <2>4, <2>5 DEF TypeOK
  <1>2. FilesKeyed'
    BY Names, NoneIsNothing DEF TypeOK, FilesTyped, MemoryTyped, FilesKeyed,
         MayAsk, InHand, Awaited, Asked, Served, Fits, KeyAt, ConnOf,
         SessionFile, KubeFile
  <1>3. ASSUME NEW q \in Proc PROVE MayAsk(q)' /\ InHand(q)' /\ Awaited(q)'
    BY Names, NoneIsNothing DEF TypeOK, FilesTyped, ControlTyped, MemoryTyped,
         FilesKeyed, MayAsk, InHand, Awaited, Asked, Served, Fits, KeyAt,
         ConnOf, Wrapper, SessionFile, KubeFile, Answer
  <1>. QED
    BY <1>1, <1>2, <1>3

LEMMA ListFailsKeeps ==
  ASSUME KeyInv, NEW p \in Proc, ListFails(p) PROVE KeyInv'
  <1>. USE DEF KeyInv, ListFails, Answered, Fallback, Contract!Fallback
  <1>1. TypeOK'
    BY DEF TypeOK, FilesTyped, GatewayTyped, ControlTyped, MemoryTyped,
         HistoryTyped, Label, Contract!Outcome, Contract!Verdict
  <1>2. FilesKeyed'
    BY Names, NoneIsNothing DEF TypeOK, FilesTyped, MemoryTyped, FilesKeyed,
         MayAsk, InHand, Awaited, Asked, Served, Fits, KeyAt, ConnOf,
         SessionFile, KubeFile
  <1>3. ASSUME NEW q \in Proc PROVE MayAsk(q)' /\ InHand(q)' /\ Awaited(q)'
    BY Names, NoneIsNothing DEF TypeOK, FilesTyped, ControlTyped, MemoryTyped,
         FilesKeyed, MayAsk, InHand, Awaited, Asked, Served, Fits, KeyAt,
         ConnOf, Wrapper, SessionFile, KubeFile, Answer
  <1>. QED
    BY <1>1, <1>2, <1>3

LEMMA ListDeniedKeeps ==
  ASSUME KeyInv, NEW p \in Proc, ListDenied(p) PROVE KeyInv'
  <1>. USE DEF KeyInv, ListDenied, Answered, OnDisk
  <1>1. TypeOK'
    <2>1. FilesTyped'
      BY DEF TypeOK, FilesTyped
    <2>2. GatewayTyped'
      BY DEF TypeOK, GatewayTyped
    <2>3. ControlTyped'
      BY DEF TypeOK, ControlTyped, Label, Contract!Outcome
    <2>4. MemoryTyped'
      BY DEF TypeOK, MemoryTyped
    <2>5. HistoryTyped'
      BY DEF TypeOK, HistoryTyped, Contract!Verdict, FilesTyped, AuthFile,
           SessionFile
    <2>. QED
      BY <2>1, <2>2, <2>3, <2>4, <2>5 DEF TypeOK
  <1>2. FilesKeyed'
    BY Names, NoneIsNothing DEF TypeOK, FilesTyped, MemoryTyped, FilesKeyed,
         MayAsk, InHand, Awaited, Asked, Served, Fits, KeyAt, ConnOf,
         SessionFile, KubeFile
  <1>3. ASSUME NEW q \in Proc PROVE MayAsk(q)' /\ InHand(q)' /\ Awaited(q)'
    BY Names, NoneIsNothing DEF TypeOK, FilesTyped, ControlTyped, MemoryTyped,
         FilesKeyed, MayAsk, InHand, Awaited, Asked, Served, Fits, KeyAt,
         ConnOf, Wrapper, SessionFile, KubeFile, Answer
  <1>. QED
    BY <1>1, <1>2, <1>3

LEMMA CredentialsIssuedKeeps ==
  ASSUME KeyInv, NEW p \in Proc, CredentialsIssued(p) PROVE KeyInv'
  <1>. USE DEF KeyInv, CredentialsIssued, Answered
  <1>1. TypeOK'
    <2>1. FilesTyped'
      BY DEF TypeOK, FilesTyped, MemoryTyped, Answer, SessionFile, Awaited
    <2>2. GatewayTyped'
      BY DEF TypeOK, GatewayTyped
    <2>3. ControlTyped'
      BY DEF TypeOK, ControlTyped, Label, Contract!Outcome
    <2>4. MemoryTyped'
      BY DEF TypeOK, MemoryTyped, Answer, Awaited
    <2>5. HistoryTyped'
      BY DEF TypeOK, HistoryTyped, Contract!Verdict
    <2>. QED
      BY <2>1, <2>2, <2>3, <2>4, <2>5 DEF TypeOK
  <1>2. FilesKeyed'
    BY Names, NoneIsNothing DEF TypeOK, FilesTyped, MemoryTyped, FilesKeyed,
         MayAsk, InHand, Awaited, Asked, Served, Fits, KeyAt, ConnOf,
         SessionFile, KubeFile
  <1>3. ASSUME NEW q \in Proc PROVE MayAsk(q)' /\ InHand(q)' /\ Awaited(q)'
    BY Names, NoneIsNothing DEF TypeOK, FilesTyped, ControlTyped, MemoryTyped,
         FilesKeyed, MayAsk, InHand, Awaited, Asked, Served, Fits, KeyAt,
         ConnOf, Wrapper, SessionFile, KubeFile, Answer
  <1>. QED
    BY <1>1, <1>2, <1>3

LEMMA CredentialsWithheldKeeps ==
  ASSUME KeyInv, NEW p \in Proc, CredentialsWithheld(p) PROVE KeyInv'
  <1>. USE DEF KeyInv, CredentialsWithheld, Answered, Fallback,
       Contract!Fallback
  <1>1. TypeOK'
    <2>1. FilesTyped'
      BY DEF TypeOK, FilesTyped
    <2>2. GatewayTyped'
      BY DEF TypeOK, GatewayTyped
    <2>3. ControlTyped'
      BY DEF TypeOK, ControlTyped, Label, Contract!Outcome
    <2>4. MemoryTyped'
      BY DEF TypeOK, MemoryTyped
    <2>5. HistoryTyped'
      BY DEF TypeOK, HistoryTyped, Contract!Verdict
    <2>. QED
      BY <2>1, <2>2, <2>3, <2>4, <2>5 DEF TypeOK
  <1>2. FilesKeyed'
    BY Names, NoneIsNothing DEF TypeOK, FilesTyped, MemoryTyped, FilesKeyed,
         MayAsk, InHand, Awaited, Asked, Served, Fits, KeyAt, ConnOf,
         SessionFile, KubeFile
  <1>3. ASSUME NEW q \in Proc PROVE MayAsk(q)' /\ InHand(q)' /\ Awaited(q)'
    BY Names, NoneIsNothing DEF TypeOK, FilesTyped, ControlTyped, MemoryTyped,
         FilesKeyed, MayAsk, InHand, Awaited, Asked, Served, Fits, KeyAt,
         ConnOf, Wrapper, SessionFile, KubeFile, Answer
  <1>. QED
    BY <1>1, <1>2, <1>3

LEMMA CachingFailsKeeps ==
  ASSUME KeyInv, NEW p \in Proc, CachingFails(p) PROVE KeyInv'
  <1>. USE DEF KeyInv, CachingFails, Answered
  <1>1. TypeOK'
    <2>1. FilesTyped'
      BY DEF TypeOK, FilesTyped
    <2>2. GatewayTyped'
      BY DEF TypeOK, GatewayTyped
    <2>3. ControlTyped'
      BY DEF TypeOK, ControlTyped, Label, Contract!Outcome
    <2>4. MemoryTyped'
      BY DEF TypeOK, MemoryTyped
    <2>5. HistoryTyped'
      BY DEF TypeOK, HistoryTyped, Contract!Verdict
    <2>. QED
      BY <2>1, <2>2, <2>3, <2>4, <2>5 DEF TypeOK
  <1>2. FilesKeyed'
    BY Names, NoneIsNothing DEF TypeOK, FilesTyped, MemoryTyped, FilesKeyed,
         MayAsk, InHand, Awaited, Asked, Served, Fits, KeyAt, ConnOf,
         SessionFile, KubeFile
  <1>3. ASSUME NEW q \in Proc PROVE MayAsk(q)' /\ InHand(q)' /\ Awaited(q)'
    BY Names, NoneIsNothing DEF TypeOK, FilesTyped, ControlTyped, MemoryTyped,
         FilesKeyed, MayAsk, InHand, Awaited, Asked, Served, Fits, KeyAt,
         ConnOf, Wrapper, SessionFile, KubeFile, Answer
  <1>. QED
    BY <1>1, <1>2, <1>3

LEMMA CredentialsDeniedKeeps ==
  ASSUME KeyInv, NEW p \in Proc, CredentialsDenied(p) PROVE KeyInv'
  <1>. USE DEF KeyInv, CredentialsDenied, Answered, OnDisk
  <1>1. TypeOK'
    <2>1. FilesTyped'
      BY DEF TypeOK, FilesTyped
    <2>2. GatewayTyped'
      BY DEF TypeOK, GatewayTyped
    <2>3. ControlTyped'
      BY DEF TypeOK, ControlTyped, Label, Contract!Outcome
    <2>4. MemoryTyped'
      BY DEF TypeOK, MemoryTyped
    <2>5. HistoryTyped'
      BY DEF TypeOK, HistoryTyped, Contract!Verdict, FilesTyped, AuthFile,
           SessionFile
    <2>. QED
      BY <2>1, <2>2, <2>3, <2>4, <2>5 DEF TypeOK
  <1>2. FilesKeyed'
    BY Names, NoneIsNothing DEF TypeOK, FilesTyped, MemoryTyped, FilesKeyed,
         MayAsk, InHand, Awaited, Asked, Served, Fits, KeyAt, ConnOf,
         SessionFile, KubeFile
  <1>3. ASSUME NEW q \in Proc PROVE MayAsk(q)' /\ InHand(q)' /\ Awaited(q)'
    BY Names, NoneIsNothing DEF TypeOK, FilesTyped, ControlTyped, MemoryTyped,
         FilesKeyed, MayAsk, InHand, Awaited, Asked, Served, Fits, KeyAt,
         ConnOf, Wrapper, SessionFile, KubeFile, Answer
  <1>. QED
    BY <1>1, <1>2, <1>3

LEMMA LookUpKeeps ==
  ASSUME KeyInv, NEW p \in Proc, LookUp(p) PROVE KeyInv'
  <1>. USE DEF KeyInv, LookUp, AfterMiss
  <1>1. TypeOK'
    BY DEF TypeOK, FilesTyped, GatewayTyped, ControlTyped, MemoryTyped,
         HistoryTyped, Label, Contract!Outcome
  <1>2. FilesKeyed'
    BY Names, NoneIsNothing DEF TypeOK, FilesTyped, MemoryTyped, FilesKeyed,
         MayAsk, InHand, Awaited, Asked, Served, Fits, KeyAt, ConnOf,
         SessionFile, KubeFile
  <1>3. ASSUME NEW q \in Proc PROVE MayAsk(q)' /\ InHand(q)' /\ Awaited(q)'
    BY Names, NoneIsNothing DEF TypeOK, FilesTyped, ControlTyped, MemoryTyped,
         FilesKeyed, MayAsk, InHand, Awaited, Asked, Served, Fits, KeyAt,
         ConnOf, Wrapper, SessionFile, KubeFile, Answer
  <1>. QED
    BY <1>1, <1>2, <1>3

LEMMA ReadCacheKeeps ==
  ASSUME KeyInv, NEW p \in Proc, ReadCache(p) PROVE KeyInv'
  <1>. USE DEF KeyInv, ReadCache
  <1>1. TypeOK'
    <2>1. FilesTyped'
      BY DEF TypeOK, FilesTyped
    <2>2. GatewayTyped'
      BY DEF TypeOK, GatewayTyped
    <2>3. ControlTyped'
      BY DEF TypeOK, ControlTyped, Label, Contract!Outcome
    <2>4. MemoryTyped'
      BY Names DEF TypeOK, MemoryTyped, FilesTyped, SessionFile, KeyAt, ConnOf,
           MayAsk, Served, Asked
    <2>5. HistoryTyped'
      BY DEF TypeOK, HistoryTyped
    <2>. QED
      BY <2>1, <2>2, <2>3, <2>4, <2>5 DEF TypeOK
  <1>2. FilesKeyed'
    BY Names, NoneIsNothing DEF TypeOK, FilesTyped, MemoryTyped, FilesKeyed,
         MayAsk, InHand, Awaited, Asked, Served, Fits, KeyAt, ConnOf,
         SessionFile, KubeFile
  <1>3. ASSUME NEW q \in Proc PROVE MayAsk(q)' /\ InHand(q)' /\ Awaited(q)'
    BY Names, NoneIsNothing DEF TypeOK, FilesTyped, ControlTyped, MemoryTyped,
         FilesKeyed, MayAsk, InHand, Awaited, Asked, Served, Fits, KeyAt,
         ConnOf, Wrapper, SessionFile, KubeFile, Answer
  <1>. QED
    BY <1>1, <1>2, <1>3

LEMMA DropSessionKeeps ==
  ASSUME KeyInv, NEW p \in Proc, DropSession(p) PROVE KeyInv'
  <1>. USE DEF KeyInv, DropSession
  <1>1. TypeOK'
    BY DEF TypeOK, FilesTyped, GatewayTyped, ControlTyped, MemoryTyped,
         HistoryTyped, Label, Contract!Outcome
  <1>2. FilesKeyed'
    BY Names, NoneIsNothing DEF TypeOK, FilesTyped, MemoryTyped, FilesKeyed,
         MayAsk, InHand, Awaited, Asked, Served, Fits, KeyAt, ConnOf,
         SessionFile, KubeFile
  <1>3. ASSUME NEW q \in Proc PROVE MayAsk(q)' /\ InHand(q)' /\ Awaited(q)'
    BY Names, NoneIsNothing DEF TypeOK, FilesTyped, ControlTyped, MemoryTyped,
         FilesKeyed, MayAsk, InHand, Awaited, Asked, Served, Fits, KeyAt,
         ConnOf, Wrapper, SessionFile, KubeFile, Answer
  <1>. QED
    BY <1>1, <1>2, <1>3

LEMMA DropKubeconfigKeeps ==
  ASSUME KeyInv, NEW p \in Proc, DropKubeconfig(p) PROVE KeyInv'
  <1>. USE DEF KeyInv, DropKubeconfig, RemoveKubeconfig, AfterMiss
  <1>1. TypeOK'
    BY DEF TypeOK, FilesTyped, GatewayTyped, ControlTyped, MemoryTyped,
         HistoryTyped, Label, Contract!Outcome
  <1>2. FilesKeyed'
    BY Names, NoneIsNothing DEF TypeOK, FilesTyped, MemoryTyped, FilesKeyed,
         MayAsk, InHand, Awaited, Asked, Served, Fits, KeyAt, ConnOf,
         SessionFile, KubeFile
  <1>3. ASSUME NEW q \in Proc PROVE MayAsk(q)' /\ InHand(q)' /\ Awaited(q)'
    BY Names, NoneIsNothing DEF TypeOK, FilesTyped, ControlTyped, MemoryTyped,
         FilesKeyed, MayAsk, InHand, Awaited, Asked, Served, Fits, KeyAt,
         ConnOf, Wrapper, SessionFile, KubeFile, Answer
  <1>. QED
    BY <1>1, <1>2, <1>3

LEMMA ConnectSshKeeps ==
  ASSUME KeyInv, NEW p \in Proc, ConnectSsh(p) PROVE KeyInv'
  <1>. USE DEF KeyInv, ConnectSsh
  <1>1. TypeOK'
    BY DEF TypeOK, FilesTyped, GatewayTyped, ControlTyped, MemoryTyped,
         HistoryTyped, Label, Contract!Outcome
  <1>2. FilesKeyed'
    BY Names, NoneIsNothing DEF TypeOK, FilesTyped, MemoryTyped, FilesKeyed,
         MayAsk, InHand, Awaited, Asked, Served, Fits, KeyAt, ConnOf,
         SessionFile, KubeFile
  <1>3. ASSUME NEW q \in Proc PROVE MayAsk(q)' /\ InHand(q)' /\ Awaited(q)'
    BY Names, NoneIsNothing DEF TypeOK, FilesTyped, ControlTyped, MemoryTyped,
         FilesKeyed, MayAsk, InHand, Awaited, Asked, Served, Fits, KeyAt,
         ConnOf, Wrapper, SessionFile, KubeFile, Answer
  <1>. QED
    BY <1>1, <1>2, <1>3

LEMMA WriteKubeconfigKeeps ==
  ASSUME KeyInv, NEW p \in Proc, WriteKubeconfig(p) PROVE KeyInv'
  <1>. USE DEF KeyInv, WriteKubeconfig
  <1>1. TypeOK'
    <2>1. FilesTyped'
      BY DEF TypeOK, FilesTyped, ControlTyped, MemoryTyped, KubeFile, MayAsk,
           InHand, Served, Asked
    <2>2. GatewayTyped'
      BY DEF TypeOK, GatewayTyped
    <2>3. ControlTyped'
      BY DEF TypeOK, ControlTyped, Label, Contract!Outcome
    <2>4. MemoryTyped'
      BY DEF TypeOK, MemoryTyped
    <2>5. HistoryTyped'
      BY DEF TypeOK, HistoryTyped
    <2>. QED
      BY <2>1, <2>2, <2>3, <2>4, <2>5 DEF TypeOK
  <1>2. FilesKeyed'
    BY Names, NoneIsNothing DEF TypeOK, FilesTyped, MemoryTyped, FilesKeyed,
         MayAsk, InHand, Awaited, Asked, Served, Fits, KeyAt, ConnOf,
         SessionFile, KubeFile
  <1>3. ASSUME NEW q \in Proc PROVE MayAsk(q)' /\ InHand(q)' /\ Awaited(q)'
    BY Names, NoneIsNothing DEF TypeOK, FilesTyped, ControlTyped, MemoryTyped,
         FilesKeyed, MayAsk, InHand, Awaited, Asked, Served, Fits, KeyAt,
         ConnOf, Wrapper, SessionFile, KubeFile, Answer
  <1>. QED
    BY <1>1, <1>2, <1>3

LEMMA UseFailsKeeps ==
  ASSUME KeyInv, NEW p \in Proc, UseFails(p) PROVE KeyInv'
  <1>. USE DEF KeyInv, UseFails
  <1>1. TypeOK'
    <2>1. FilesTyped'
      BY DEF TypeOK, FilesTyped
    <2>2. GatewayTyped'
      BY DEF TypeOK, GatewayTyped
    <2>3. ControlTyped'
      BY DEF TypeOK, ControlTyped, Label, Contract!Outcome
    <2>4. MemoryTyped'
      BY DEF TypeOK, MemoryTyped
    <2>5. HistoryTyped'
      BY DEF TypeOK, HistoryTyped
    <2>. QED
      BY <2>1, <2>2, <2>3, <2>4, <2>5 DEF TypeOK
  <1>2. FilesKeyed'
    BY Names, NoneIsNothing DEF TypeOK, FilesTyped, MemoryTyped, FilesKeyed,
         MayAsk, InHand, Awaited, Asked, Served, Fits, KeyAt, ConnOf,
         SessionFile, KubeFile
  <1>3. ASSUME NEW q \in Proc PROVE MayAsk(q)' /\ InHand(q)' /\ Awaited(q)'
    BY Names, NoneIsNothing DEF TypeOK, FilesTyped, ControlTyped, MemoryTyped,
         FilesKeyed, MayAsk, InHand, Awaited, Asked, Served, Fits, KeyAt,
         ConnOf, Wrapper, SessionFile, KubeFile, Answer
  <1>. QED
    BY <1>1, <1>2, <1>3

LEMMA SweepStatKeeps ==
  ASSUME KeyInv, NEW p \in Proc, SweepStat(p) PROVE KeyInv'
  <1>. USE DEF KeyInv, SweepStat
  <1>1. TypeOK'
    BY DEF TypeOK, FilesTyped, GatewayTyped, ControlTyped, MemoryTyped,
         HistoryTyped, Label, Contract!Outcome
  <1>2. FilesKeyed'
    BY Names, NoneIsNothing DEF TypeOK, FilesTyped, MemoryTyped, FilesKeyed,
         MayAsk, InHand, Awaited, Asked, Served, Fits, KeyAt, ConnOf,
         SessionFile, KubeFile
  <1>3. ASSUME NEW q \in Proc PROVE MayAsk(q)' /\ InHand(q)' /\ Awaited(q)'
    BY Names, NoneIsNothing DEF TypeOK, FilesTyped, ControlTyped, MemoryTyped,
         FilesKeyed, MayAsk, InHand, Awaited, Asked, Served, Fits, KeyAt,
         ConnOf, Wrapper, SessionFile, KubeFile, Answer
  <1>. QED
    BY <1>1, <1>2, <1>3

LEMMA KubectlReadsKeeps ==
  ASSUME KeyInv, NEW p \in Proc, KubectlReads(p) PROVE KeyInv'
  <1>. USE DEF KeyInv, KubectlReads
  <1>1. TypeOK'
    <2>1. FilesTyped'
      BY DEF TypeOK, FilesTyped
    <2>2. GatewayTyped'
      BY DEF TypeOK, GatewayTyped
    <2>3. ControlTyped'
      BY DEF TypeOK, ControlTyped, Label, Contract!Outcome
    <2>4. MemoryTyped'
      <3>1. KeyAt(p) \in Key
        BY Names DEF MayAsk, Served, KeyAt
      <3>2. kube[KeyAt(p)] # None => kube[KeyAt(p)].cred \in Cred
        BY <3>1 DEF TypeOK, FilesTyped, KubeFile
      <3>. QED
        BY <3>2 DEF TypeOK, MemoryTyped
    <2>5. HistoryTyped'
      BY DEF TypeOK, HistoryTyped
    <2>. QED
      BY <2>1, <2>2, <2>3, <2>4, <2>5 DEF TypeOK
  <1>2. FilesKeyed'
    BY Names, NoneIsNothing DEF TypeOK, FilesTyped, MemoryTyped, FilesKeyed,
         MayAsk, InHand, Awaited, Asked, Served, Fits, KeyAt, ConnOf,
         SessionFile, KubeFile
  <1>3. ASSUME NEW q \in Proc PROVE MayAsk(q)' /\ InHand(q)' /\ Awaited(q)'
    <2>1. Served(p) /\ KeyAt(p) \in Key
      BY Names DEF MayAsk, Served, KeyAt
    <2>2. kube[KeyAt(p)] # None =>
            kube[KeyAt(p)].cred \in Cred /\ kube[KeyAt(p)].cred # None /\ Fits(p, kube[KeyAt(p)].cred)
      BY <2>1, NoneIsNothing DEF TypeOK, FilesTyped, KubeFile, FilesKeyed, Fits, Cred
    <2>3. /\ cmd' = cmd
          /\ pc'[p] = "done" /\ phase'[p] = "find" /\ rsp'[p] = None
          /\ \/ cred'[p] = kube[KeyAt(p)].cred /\ kube[KeyAt(p)] # None /\ target' = target
             \/ cred'[p] = None
          /\ q # p => /\ pc'[q] = pc[q] /\ phase'[q] = phase[q] /\ rsp'[q] = rsp[q]
                      /\ cred'[q] = cred[q] /\ target'[q] = target[q]
      BY ZenonT(30) DEF TypeOK, ControlTyped, MemoryTyped
    <2> HIDE DEF KubectlReads
    <2>4. CASE q = p
      <3>1. ASSUME cred'[p] # None PROVE Fits(p, cred[p])'
        <4>1. /\ cmd' = cmd /\ target' = target /\ cred'[p] = kube[KeyAt(p)].cred
              /\ Fits(p, kube[KeyAt(p)].cred)
          BY <2>2, <2>3, <3>1, Zenon
        <4>. QED
          BY <4>1, Zenon DEF Fits, Served, Asked, KeyAt, ConnOf
      <3>2. /\ pc'[q] = "done" /\ phase'[q] = "find" /\ rsp'[q] = None
            /\ cred'[q] # None => Fits(q, cred[q])'
        BY <2>3, <2>4, <3>1, Zenon
      <3>. QED
        BY ONLY <3>2 DEF MayAsk, InHand, Awaited
    <2>5. CASE q # p
      <3>1. pc'[q] = pc[q] /\ phase'[q] = phase[q] /\ rsp'[q] = rsp[q]
            /\ cred'[q] = cred[q] /\ target'[q] = target[q] /\ cmd' = cmd
        BY <2>3, <2>5
      <3>. QED
        BY <3>1, Zenon DEF MayAsk, InHand, Awaited, Asked, Served, Fits, KeyAt, ConnOf
    <2>. QED
      BY <2>4, <2>5
  <1>. QED
    BY <1>1, <1>2, <1>3

LEMMA ExpireTokenKeeps ==
  ASSUME KeyInv, ExpireToken PROVE KeyInv'
  <1>. USE DEF KeyInv, ExpireToken
  <1>1. TypeOK'
    BY DEF TypeOK, FilesTyped, GatewayTyped, ControlTyped, MemoryTyped,
         HistoryTyped, Label, Contract!Outcome, AuthFile
  <1>2. FilesKeyed'
    BY Names, NoneIsNothing DEF TypeOK, FilesTyped, MemoryTyped, FilesKeyed,
         MayAsk, InHand, Awaited, Asked, Served, Fits, KeyAt, ConnOf,
         SessionFile, KubeFile
  <1>3. ASSUME NEW q \in Proc PROVE MayAsk(q)' /\ InHand(q)' /\ Awaited(q)'
    BY Names, NoneIsNothing DEF TypeOK, FilesTyped, ControlTyped, MemoryTyped,
         FilesKeyed, MayAsk, InHand, Awaited, Asked, Served, Fits, KeyAt,
         ConnOf, Wrapper, SessionFile, KubeFile, Answer
  <1>. QED
    BY <1>1, <1>2, <1>3

LEMMA ExpireSessionKeeps ==
  ASSUME KeyInv, NEW k \in Key, ExpireSession(k) PROVE KeyInv'
  <1>. USE DEF KeyInv, ExpireSession
  <1>1. TypeOK'
    <2>1. FilesTyped'
      BY DEF TypeOK, FilesTyped, SessionFile
    <2>2. GatewayTyped'
      BY DEF TypeOK, GatewayTyped
    <2>3. ControlTyped'
      BY DEF TypeOK, ControlTyped, Label, Contract!Outcome
    <2>4. MemoryTyped'
      BY DEF TypeOK, MemoryTyped
    <2>5. HistoryTyped'
      BY DEF TypeOK, HistoryTyped
    <2>. QED
      BY <2>1, <2>2, <2>3, <2>4, <2>5 DEF TypeOK
  <1>2. FilesKeyed'
    BY Names, NoneIsNothing DEF TypeOK, FilesTyped, MemoryTyped, FilesKeyed,
         MayAsk, InHand, Awaited, Asked, Served, Fits, KeyAt, ConnOf,
         SessionFile, KubeFile
  <1>3. ASSUME NEW q \in Proc PROVE MayAsk(q)' /\ InHand(q)' /\ Awaited(q)'
    BY Names, NoneIsNothing DEF TypeOK, FilesTyped, ControlTyped, MemoryTyped,
         FilesKeyed, MayAsk, InHand, Awaited, Asked, Served, Fits, KeyAt,
         ConnOf, Wrapper, SessionFile, KubeFile, Answer
  <1>. QED
    BY <1>1, <1>2, <1>3

LEMMA AgeKubeconfigKeeps ==
  ASSUME KeyInv, NEW k \in Key, AgeKubeconfig(k) PROVE KeyInv'
  <1>. USE DEF KeyInv, AgeKubeconfig
  <1>1. TypeOK'
    BY DEF TypeOK, FilesTyped, GatewayTyped, ControlTyped, MemoryTyped,
         HistoryTyped, Label, Contract!Outcome
  <1>2. FilesKeyed'
    BY Names, NoneIsNothing DEF TypeOK, FilesTyped, MemoryTyped, FilesKeyed,
         MayAsk, InHand, Awaited, Asked, Served, Fits, KeyAt, ConnOf,
         SessionFile, KubeFile
  <1>3. ASSUME NEW q \in Proc PROVE MayAsk(q)' /\ InHand(q)' /\ Awaited(q)'
    BY Names, NoneIsNothing DEF TypeOK, FilesTyped, ControlTyped, MemoryTyped,
         FilesKeyed, MayAsk, InHand, Awaited, Asked, Served, Fits, KeyAt,
         ConnOf, Wrapper, SessionFile, KubeFile, Answer
  <1>. QED
    BY <1>1, <1>2, <1>3

LEMMA StutterKeeps == ASSUME KeyInv, UNCHANGED vars PROVE KeyInv'
  BY DEF vars, KeyInv, TypeOK, FilesTyped, GatewayTyped, ControlTyped, MemoryTyped,
         HistoryTyped, FilesKeyed, MayAsk, InHand, Awaited, Asked, Served, Fits,
         KeyAt, ConnOf

LEMMA KeyInvStep == KeyInv /\ [Next]_vars => KeyInv'
  <1>. SUFFICES ASSUME KeyInv, [Next]_vars PROVE KeyInv'
    OBVIOUS
  <1>1. ASSUME NEW p \in Proc, NEW c \in Commands, Begin(p, c) \/ BeginUnconfigured(p, c)
        PROVE KeyInv'
    BY <1>1, BeginKeeps, BeginUnconfiguredKeeps
  <1>2. ASSUME NEW p \in Proc, LoginSucceeds(p) \/ LoginFails(p) \/ GatewayAnswers(p)
        PROVE KeyInv'
    BY <1>2, LoginSucceedsKeeps, LoginFailsKeeps, GatewayAnswersKeeps
  <1>3. ASSUME NEW p \in Proc, CodeStep(p) PROVE KeyInv'
    BY <1>3, CheckTokenKeeps, TakeTokenKeeps, FindTokenKeeps, UnlinkTokenKeeps,
         ListSessionsKeeps, UnlinkSessionKeeps, ListKubeconfigsKeeps,
         UnlinkKubeconfigKeeps, WipeEndsKeeps, RotateTokenKeeps,
         ListServedKeeps, ListFailsKeeps, ListDeniedKeeps,
         CredentialsIssuedKeeps, CachingFailsKeeps, CredentialsWithheldKeeps,
         CredentialsDeniedKeeps, LookUpKeeps, ReadCacheKeeps, DropSessionKeeps,
         DropKubeconfigKeeps, ConnectSshKeeps, WriteKubeconfigKeeps, UseFailsKeeps,
         SweepStatKeeps, KubectlReadsKeeps DEF CodeStep
  <1>4. ASSUME ExpireToken \/ \E k \in Key: ExpireSession(k) \/ AgeKubeconfig(k)
        PROVE KeyInv'
    BY <1>4, ExpireTokenKeeps, ExpireSessionKeeps, AgeKubeconfigKeeps
  <1>. QED
    BY <1>1, <1>2, <1>3, <1>4, StutterKeeps DEF Next

-----------------------------------------------------------------------------
\* The inductive invariant: in every reachable state each cache file holds
\* what was issued for a connection of its key, and so do the credentials in
\* hand and the answers not yet acted on.
THEOREM KeyInvariant == Spec => []KeyInv
  BY KeyInvInit, KeyInvStep, PTL DEF Spec

\* Every variable keeps its type, for any number of invocations and
\* connections.
THEOREM TypeInvariant == Spec => []TypeOK
  <1>1. KeyInv => TypeOK
    BY DEF KeyInv
  <1>. QED
    BY <1>1, KeyInvariant, PTL

\* The sanitizer of sessions.ts and kubeconfig.ts maps different connection
\* names to different files.
KeysApart == \A c, d \in Conn: KeyOf[c] = KeyOf[d] => c = d

\* Then no interleaving of ssh, kubectl, hsh kubeconfig, logins and logouts
\* puts the credentials of one connection into the hands of a process that
\* asked for another, or into the kubeconfig of another (getCachedCredentials,
\* cacheCredentials, writeEphemeralKubeconfig).
THEOREM MatchingCredentials == KeysApart => (Spec => []CredentialsMatchConnection)
  <1>. SUFFICES ASSUME KeysApart PROVE Spec => []CredentialsMatchConnection
    OBVIOUS
  <1>1. KeyInv => CredentialsMatchConnection
    <2>. SUFFICES ASSUME KeyInv PROVE CredentialsMatchConnection
      OBVIOUS
    <2>1. ASSUME NEW p \in Proc, cred[p] # None PROVE cred[p].conn = ConnOf(p)
      <3>1. cred[p].conn \in Conn /\ ConnOf(p) \in Conn
        BY <2>1 DEF KeyInv, TypeOK, MemoryTyped, Cred, InHand, Fits, Served
      <3>2. KeyOf[cred[p].conn] = KeyOf[ConnOf(p)]
        BY <2>1 DEF KeyInv, InHand, Fits, KeyAt
      <3>. QED
        BY <3>1, <3>2 DEF KeysApart
    <2>2. ASSUME NEW k \in Key, kube[k] # None PROVE KeyOf[kube[k].cred.conn] = k
      BY <2>2 DEF KeyInv, FilesKeyed
    <2>. QED
      BY <2>1, <2>2 DEF CredentialsMatchConnection
  <1>. QED
    BY <1>1, KeyInvariant, PTL

-----------------------------------------------------------------------------
(* HshSession implements CommandContract, for any number of invocations:   *)
(* what an invocation has been told by the gateway follows from where it   *)
(* is in its code.                                                         *)

AtWipe == {"reauth", "unlink", "wipe", "wipeUnlink", "wipeYaml"}
AtCache == {"look", "read", "drop", "dropYaml"}

Told(p) ==
  /\ cmd[p] = "none" <=> pc[p] = "idle"
  /\ outcome[p] = "none" <=> pc[p] # "done"
  /\ pc[p] = "login" => cmd[p] = "login"
  /\ pc[p] \in {"idle", "list"} => verdict[p] = "unasked"
  /\ pc[p] \in {"ensure", "token"} =>
       \/ phase[p] = "find" /\ verdict[p] = "unasked"
       \/ phase[p] = "get"  /\ verdict[p] = "accepted"
  /\ pc[p] \in AtCache =>
       \/ phase[p] = "get"  /\ verdict[p] = "accepted"
       \/ phase[p] = "tell" /\ verdict[p] \in {"accepted", "issued"}
       \/ phase[p] = "deny" /\ verdict[p] = "denied"
  /\ pc[p] = "create" => verdict[p] = "accepted"
  /\ pc[p] \in {"use", "sweep", "sweepYaml"} => verdict[p] \in {"accepted", "issued"}
  /\ pc[p] \in {"sweep", "sweepYaml"} => cmd[p] = "kubectl"
  /\ pc[p] \in AtWipe => \/ cmd[p] = "logout"
                         \/ cmd[p] \in Wrapper /\ verdict[p] = "denied"

ToldInv == KeyInv /\ \A p \in Proc: Told(p)

\* The abstract step of invocation p, or a stutter.
Contracted(p) ==
  \/ Contract!Start(p) \/ Contract!StartAndEnd(p)
  \/ Contract!Learn(p) \/ Contract!Finish(p)
  \/ UNCHANGED Contract!contractVars

LEMMA ToldInit == Init => Contract!Init /\ \A p \in Proc: Told(p)
  BY DEF Init, Contract!Init, Told, AtCache, AtWipe

LEMMA Finishing ==
  ASSUME TypeOK, NEW p \in Proc, Contract!Running(p),
         NEW v \in {verdict[p]} \cup Contract!Follows(verdict[p]),
         NEW o \in Contract!Allowed(cmd[p], v),
         verdict' = [verdict EXCEPT ![p] = v],
         outcome' = [outcome EXCEPT ![p] = o], UNCHANGED cmd
  PROVE  Contract!Finish(p)
  <1>1. o # "none"
    BY DEF Contract!Allowed, Contract!Reached, Contract!Fallback, Contract!Outcome
  <1>2. outcome'[p] = o
    BY DEF TypeOK, ControlTyped
  <1>. QED
    BY <1>1, <1>2 DEF Contract!Finish

LEMMA Learning ==
  ASSUME TypeOK, NEW p \in Proc, Contract!Running(p),
         NEW v \in Contract!Follows(verdict[p]),
         verdict' = [verdict EXCEPT ![p] = v], UNCHANGED <<cmd, outcome>>
  PROVE  Contract!Learn(p)
  <1>1. v # verdict[p]
    BY DEF Contract!Follows
  <1>2. verdict'[p] = v
    BY DEF TypeOK, HistoryTyped
  <1>. QED
    BY <1>1, <1>2 DEF Contract!Learn

LEMMA FinishingKnown ==
  ASSUME TypeOK, NEW p \in Proc, Contract!Running(p),
         NEW o \in Contract!Allowed(cmd[p], verdict[p]),
         outcome' = [outcome EXCEPT ![p] = o], UNCHANGED <<cmd, verdict>>
  PROVE  Contract!Finish(p)
  <1>1. verdict' = [verdict EXCEPT ![p] = verdict[p]]
    BY DEF TypeOK, HistoryTyped
  <1>. QED
    BY <1>1, Finishing

-----------------------------------------------------------------------------
\* Every step keeps Told, and is a step of the contract or none.

LEMMA BeginTold ==
  ASSUME ToldInv, NEW p \in Proc, NEW c \in Commands, Begin(p, c)
  PROVE  Contracted(p) /\ \A q \in Proc: Told(q)'
  <1>. USE DEF ToldInv, Begin
  <1>1. Contracted(p)
    BY Names DEF KeyInv, TypeOK, ControlTyped, HistoryTyped, Told, Contracted,
         Contract!contractVars, Contract!Start, Contract!Command,
         Contract!Wrapper, Command, Wrapper
  <1>2. ASSUME NEW q \in Proc PROVE Told(q)'
    <2>1. c \in Command
      BY Names
    <2>2. CASE q # p
      BY <2>2 DEF Told
    <2>3. CASE q = p
      BY <2>1, <2>3 DEF KeyInv, TypeOK, ControlTyped, MayAsk, Told, AtCache,
           AtWipe, Command, Wrapper, FirstStep
    <2>. QED
      BY <2>2, <2>3
  <1>. QED
    BY <1>1, <1>2

LEMMA BeginUnconfiguredTold ==
  ASSUME ToldInv, NEW p \in Proc, NEW c \in Commands, BeginUnconfigured(p, c)
  PROVE  Contracted(p) /\ \A q \in Proc: Told(q)'
  <1>. USE DEF ToldInv, BeginUnconfigured
  <1>1. Contracted(p)
    BY Names DEF KeyInv, TypeOK, ControlTyped, HistoryTyped, Told, Contracted,
         Contract!contractVars, Contract!StartAndEnd, Contract!Allowed,
         Contract!Fallback, Contract!Command, Contract!Wrapper,
         Contract!Outcome, Command, Wrapper
  <1>2. ASSUME NEW q \in Proc PROVE Told(q)'
    <2>1. c \in Command
      BY Names
    <2>2. CASE q # p
      BY <2>2 DEF Told
    <2>3. CASE q = p
      BY <2>1, <2>3 DEF KeyInv, TypeOK, ControlTyped, MayAsk, Told, AtCache,
           AtWipe, Command, Wrapper, Contract!Fallback
    <2>. QED
      BY <2>2, <2>3
  <1>. QED
    BY <1>1, <1>2

LEMMA CheckTokenTold ==
  ASSUME ToldInv, NEW p \in Proc, CheckToken(p)
  PROVE  Contracted(p) /\ \A q \in Proc: Told(q)'
  <1>. USE DEF ToldInv, CheckToken
  <1>1. Contracted(p)
    BY SMTT(30), Names DEF KeyInv, TypeOK, ControlTyped, HistoryTyped, Told, Contracted,
         Contract!contractVars, NoSession, Usable, Contract!Finish,
         Contract!Running, Contract!Allowed, Contract!Reached,
         Contract!Fallback, Contract!Wrapper, Contract!Outcome, MayAsk, Asked,
         Wrapper
  <1>2. ASSUME NEW q \in Proc PROVE Told(q)'
    BY DEF KeyInv, TypeOK, ControlTyped, HistoryTyped, MayAsk, Asked, Served,
         Told, AtCache, AtWipe, Wrapper, NoSession, Usable
  <1>. QED
    BY <1>1, <1>2

LEMMA TakeTokenTold ==
  ASSUME ToldInv, NEW p \in Proc, TakeToken(p)
  PROVE  Contracted(p) /\ \A q \in Proc: Told(q)'
  <1>. USE DEF ToldInv, TakeToken
  <1>1. Contracted(p)
    BY Names DEF KeyInv, TypeOK, ControlTyped, HistoryTyped, Told, Contracted,
         Contract!contractVars
  <1>2. ASSUME NEW q \in Proc PROVE Told(q)'
    BY DEF KeyInv, TypeOK, ControlTyped, HistoryTyped, MayAsk, Asked, Served,
         Told, AtCache, AtWipe, Wrapper
  <1>. QED
    BY <1>1, <1>2

LEMMA UnlinkTokenTold ==
  ASSUME ToldInv, NEW p \in Proc, UnlinkToken(p)
  PROVE  Contracted(p) /\ \A q \in Proc: Told(q)'
  <1>. USE DEF ToldInv, UnlinkToken
  <1>1. Contracted(p)
    BY SMTT(30), Names DEF KeyInv, TypeOK, ControlTyped, HistoryTyped, Told, Contracted,
         Contract!contractVars, Contract!Finish, Contract!Running,
         Contract!Allowed, Contract!Wrapper, Contract!Outcome, AtWipe, Wrapper
  <1>2. ASSUME NEW q \in Proc PROVE Told(q)'
    BY DEF KeyInv, TypeOK, ControlTyped, HistoryTyped, MayAsk, Asked, Served,
         Told, AtCache, AtWipe, Wrapper
  <1>. QED
    BY <1>1, <1>2

LEMMA WipeEndsTold ==
  ASSUME ToldInv, NEW p \in Proc, WipeEnds(p)
  PROVE  Contracted(p) /\ \A q \in Proc: Told(q)'
  <1>. USE DEF ToldInv, WipeEnds
  <1>1. Contracted(p)
    BY ZenonT(30), Names DEF KeyInv, TypeOK, ControlTyped, HistoryTyped, Told, Contracted,
         Contract!contractVars, Contract!Finish, Contract!Running,
         Contract!Allowed, Contract!Wrapper, Contract!Outcome, AtWipe, Wrapper
  <1>2. ASSUME NEW q \in Proc PROVE Told(q)'
    BY DEF KeyInv, TypeOK, ControlTyped, HistoryTyped, MayAsk, Asked, Served,
         Told, AtCache, AtWipe, Wrapper
  <1>. QED
    BY <1>1, <1>2

LEMMA GatewayAnswersTold ==
  ASSUME ToldInv, NEW p \in Proc, GatewayAnswers(p)
  PROVE  Contracted(p) /\ \A q \in Proc: Told(q)'
  <1>. USE DEF ToldInv, GatewayAnswers
  <1>1. Contracted(p)
    BY Names DEF KeyInv, TypeOK, ControlTyped, HistoryTyped, Told, Contracted,
         Contract!contractVars
  <1>2. ASSUME NEW q \in Proc PROVE Told(q)'
    BY DEF KeyInv, TypeOK, ControlTyped, HistoryTyped, MayAsk, Asked, Served,
         Told, AtCache, AtWipe, Wrapper
  <1>. QED
    BY <1>1, <1>2

LEMMA RotateTokenTold ==
  ASSUME ToldInv, NEW p \in Proc, RotateToken(p)
  PROVE  Contracted(p) /\ \A q \in Proc: Told(q)'
  <1>. USE DEF ToldInv, RotateToken
  <1>1. Contracted(p)
    BY Names DEF KeyInv, TypeOK, ControlTyped, HistoryTyped, Told, Contracted,
         Contract!contractVars
  <1>2. ASSUME NEW q \in Proc PROVE Told(q)'
    BY DEF KeyInv, TypeOK, ControlTyped, HistoryTyped, MayAsk, Asked, Served,
         Told, AtCache, AtWipe, Wrapper
  <1>. QED
    BY <1>1, <1>2

LEMMA ListServedTold ==
  ASSUME ToldInv, NEW p \in Proc, ListServed(p)
  PROVE  Contracted(p) /\ \A q \in Proc: Told(q)'
  <1>. USE DEF ToldInv, ListServed, Answered
  <1>1. Asked(p) /\ Contract!Running(p) /\ verdict[p] = "unasked"
    BY DEF KeyInv, MayAsk, Asked, Told, Contract!Running, Wrapper
  <1>2. CASE ConnOf(p) = None
    <2>1. Fallback(p) \in Contract!Allowed(cmd[p], "accepted")
      BY <1>1 DEF Asked, Wrapper, Fallback, Contract!Allowed, Contract!Fallback,
           Contract!Wrapper, Contract!Outcome
    <2>2. Contract!Finish(p)
      BY <1>1, <1>2, <2>1, Finishing DEF Contract!Follows, KeyInv
    <2>3. ASSUME NEW q \in Proc PROVE Told(q)'
      BY <1>1, <1>2 DEF KeyInv, TypeOK, ControlTyped, HistoryTyped, Told, AtCache,
           AtWipe, Asked, Wrapper, Fallback, Contract!Fallback
    <2>. QED
      BY <2>2, <2>3 DEF Contracted
  <1>3. CASE ConnOf(p) # None
    <2>1. Contract!Learn(p)
      BY <1>1, <1>3, Learning DEF Contract!Follows, KeyInv
    <2>2. ASSUME NEW q \in Proc PROVE Told(q)'
      BY <1>1, <1>3 DEF KeyInv, TypeOK, ControlTyped, HistoryTyped, Told, AtCache,
           AtWipe
    <2>. QED
      BY <2>1, <2>2 DEF Contracted
  <1>. QED
    BY <1>2, <1>3

LEMMA CredentialsWithheldTold ==
  ASSUME ToldInv, NEW p \in Proc, CredentialsWithheld(p)
  PROVE  Contracted(p) /\ \A q \in Proc: Told(q)'
  <1>1. Asked(p) /\ Contract!Running(p) /\ verdict[p] = "accepted"
    BY DEF ToldInv, KeyInv, MayAsk, Served, Asked, Told, Contract!Running, Wrapper,
         CredentialsWithheld, Answered
  <1>2. ASSUME NEW v \in {"pending", "refused", "unavailable"},
               NEW o \in Contract!Allowed(cmd[p], v), o # "none",
               Judge(p, v), End(p, o), UNCHANGED cmd
        PROVE  Contracted(p) /\ \A q \in Proc: Told(q)'
    <2>1. Contract!Finish(p)
      BY <1>1, <1>2, Finishing DEF Contract!Follows, ToldInv, KeyInv
    <2>2. ASSUME NEW q \in Proc PROVE Told(q)'
      BY <1>1, <1>2 DEF ToldInv, KeyInv, TypeOK, ControlTyped, HistoryTyped, Told,
           AtCache, AtWipe, Asked, Wrapper
    <2>. QED
      BY <2>1, <2>2 DEF Contracted
  <1>3. /\ "exit75" \in Contract!Allowed(cmd[p], "pending")
        /\ "exit1" \in Contract!Allowed(cmd[p], "refused")
        /\ Fallback(p) \in Contract!Allowed(cmd[p], "unavailable")
        /\ Fallback(p) # "none"
    BY <1>1 DEF Asked, Wrapper, Fallback, Contract!Fallback, Contract!Allowed,
         Contract!Wrapper, Contract!Outcome
  <1>4. /\ UNCHANGED cmd
        /\ \/ Judge(p, "pending") /\ End(p, "exit75")
           \/ Judge(p, "refused") /\ End(p, "exit1")
           \/ Judge(p, "unavailable") /\ End(p, Fallback(p))
    BY DEF CredentialsWithheld
  <1>. QED
    BY <1>2, <1>3, <1>4

LEMMA ReadCacheTold ==
  ASSUME ToldInv, NEW p \in Proc, ReadCache(p)
  PROVE  Contracted(p) /\ \A q \in Proc: Told(q)'
  <1>. USE DEF ToldInv, ReadCache
  <1>1. Contracted(p)
    BY Names DEF KeyInv, TypeOK, ControlTyped, HistoryTyped, Told, Contracted,
         Contract!contractVars
  <1>2. ASSUME NEW q \in Proc PROVE Told(q)'
    BY DEF KeyInv, TypeOK, ControlTyped, HistoryTyped, MayAsk, Asked, Served,
         Told, AtCache, AtWipe, Wrapper
  <1>. QED
    BY <1>1, <1>2

LEMMA DropKubeconfigTold ==
  ASSUME ToldInv, NEW p \in Proc, DropKubeconfig(p)
  PROVE  Contracted(p) /\ \A q \in Proc: Told(q)'
  <1>. USE DEF ToldInv, DropKubeconfig
  <1>1. Contracted(p)
    BY Names DEF KeyInv, TypeOK, ControlTyped, HistoryTyped, Told, Contracted,
         Contract!contractVars
  <1>2. ASSUME NEW q \in Proc PROVE Told(q)'
    BY DEF KeyInv, TypeOK, ControlTyped, HistoryTyped, MayAsk, Asked, Served,
         Told, AtCache, AtWipe, Wrapper, AfterMiss
  <1>. QED
    BY <1>1, <1>2

LEMMA KubectlReadsTold ==
  ASSUME ToldInv, NEW p \in Proc, KubectlReads(p)
  PROVE  Contracted(p) /\ \A q \in Proc: Told(q)'
  <1>. USE DEF ToldInv, KubectlReads
  <1>1. Contracted(p)
    BY SMTT(30), Names DEF KeyInv, TypeOK, ControlTyped, HistoryTyped, Told, Contracted,
         Contract!contractVars, Contract!Finish, Contract!Running,
         Contract!Allowed, Contract!Reached, Contract!Wrapper, Contract!Outcome
  <1>2. ASSUME NEW q \in Proc PROVE Told(q)'
    BY DEF KeyInv, TypeOK, ControlTyped, HistoryTyped, MayAsk, Asked, Served,
         Told, AtCache, AtWipe, Wrapper
  <1>. QED
    BY <1>1, <1>2

LEMMA FindTokenTold ==
  ASSUME ToldInv, NEW p \in Proc, FindToken(p)
  PROVE  Contracted(p) /\ \A q \in Proc: Told(q)'
  <1>. USE DEF ToldInv, FindToken
  <1>1. Contracted(p)
    BY Names DEF KeyInv, TypeOK, ControlTyped, HistoryTyped, Told, Contracted,
         Contract!contractVars
  <1>2. ASSUME NEW q \in Proc PROVE Told(q)'
    BY DEF KeyInv, TypeOK, ControlTyped, HistoryTyped, MayAsk, Asked, Served,
         Told, AtCache, AtWipe, Wrapper
  <1>. QED
    BY <1>1, <1>2

LEMMA ListSessionsTold ==
  ASSUME ToldInv, NEW p \in Proc, ListSessions(p)
  PROVE  Contracted(p) /\ \A q \in Proc: Told(q)'
  <1>. USE DEF ToldInv, ListSessions
  <1>1. Contracted(p)
    BY Names DEF KeyInv, TypeOK, ControlTyped, HistoryTyped, Told, Contracted,
         Contract!contractVars
  <1>2. ASSUME NEW q \in Proc PROVE Told(q)'
    BY DEF KeyInv, TypeOK, ControlTyped, HistoryTyped, MayAsk, Asked, Served,
         Told, AtCache, AtWipe, Wrapper
  <1>. QED
    BY <1>1, <1>2

LEMMA UnlinkSessionTold ==
  ASSUME ToldInv, NEW p \in Proc, UnlinkSession(p)
  PROVE  Contracted(p) /\ \A q \in Proc: Told(q)'
  <1>. USE DEF ToldInv, UnlinkSession
  <1>1. Contracted(p)
    BY Names DEF KeyInv, TypeOK, ControlTyped, HistoryTyped, Told, Contracted,
         Contract!contractVars
  <1>2. ASSUME NEW q \in Proc PROVE Told(q)'
    BY DEF KeyInv, TypeOK, ControlTyped, HistoryTyped, MayAsk, Asked, Served,
         Told, AtCache, AtWipe, Wrapper
  <1>. QED
    BY <1>1, <1>2

LEMMA ListKubeconfigsTold ==
  ASSUME ToldInv, NEW p \in Proc, ListKubeconfigs(p)
  PROVE  Contracted(p) /\ \A q \in Proc: Told(q)'
  <1>. USE DEF ToldInv, ListKubeconfigs
  <1>1. Contracted(p)
    BY Names DEF KeyInv, TypeOK, ControlTyped, HistoryTyped, Told, Contracted,
         Contract!contractVars
  <1>2. ASSUME NEW q \in Proc PROVE Told(q)'
    BY DEF KeyInv, TypeOK, ControlTyped, HistoryTyped, MayAsk, Asked, Served,
         Told, AtCache, AtWipe, Wrapper
  <1>. QED
    BY <1>1, <1>2

LEMMA UnlinkKubeconfigTold ==
  ASSUME ToldInv, NEW p \in Proc, UnlinkKubeconfig(p)
  PROVE  Contracted(p) /\ \A q \in Proc: Told(q)'
  <1>. USE DEF ToldInv, UnlinkKubeconfig
  <1>1. Contracted(p)
    BY Names DEF KeyInv, TypeOK, ControlTyped, HistoryTyped, Told, Contracted,
         Contract!contractVars
  <1>2. ASSUME NEW q \in Proc PROVE Told(q)'
    BY DEF KeyInv, TypeOK, ControlTyped, HistoryTyped, MayAsk, Asked, Served,
         Told, AtCache, AtWipe, Wrapper
  <1>. QED
    BY <1>1, <1>2

LEMMA LoginSucceedsTold ==
  ASSUME ToldInv, NEW p \in Proc, LoginSucceeds(p)
  PROVE  Contracted(p) /\ \A q \in Proc: Told(q)'
  <1>. USE DEF ToldInv, LoginSucceeds
  <1>1. PICK o \in {"exit0", "exit1"}: End(p, o)
    OBVIOUS
  <1>2. Contract!Running(p) /\ o \in Contract!Allowed(cmd[p], verdict[p])
    BY DEF Told, Contract!Running, Contract!Allowed, Contract!Wrapper
  <1>3. Contracted(p)
    BY <1>1, <1>2, FinishingKnown DEF KeyInv, Contracted
  <1>4. ASSUME NEW q \in Proc PROVE Told(q)'
    BY <1>1 DEF KeyInv, TypeOK, ControlTyped, HistoryTyped, Told, AtCache, AtWipe
  <1>. QED
    BY <1>3, <1>4

LEMMA LoginFailsTold ==
  ASSUME ToldInv, NEW p \in Proc, LoginFails(p)
  PROVE  Contracted(p) /\ \A q \in Proc: Told(q)'
  <1>. USE DEF ToldInv, LoginFails
  <1>1. Contract!Running(p) /\ "exit1" \in Contract!Allowed(cmd[p], verdict[p])
    BY DEF Told, Contract!Running, Contract!Allowed, Contract!Wrapper
  <1>2. Contracted(p)
    BY <1>1, FinishingKnown DEF KeyInv, Contracted
  <1>3. ASSUME NEW q \in Proc PROVE Told(q)'
    BY DEF KeyInv, TypeOK, ControlTyped, HistoryTyped, Told, AtCache, AtWipe
  <1>. QED
    BY <1>2, <1>3

LEMMA ListFailsTold ==
  ASSUME ToldInv, NEW p \in Proc, ListFails(p)
  PROVE  Contracted(p) /\ \A q \in Proc: Told(q)'
  <1>. USE DEF ToldInv, ListFails, Answered
  <1>1. Asked(p) /\ Contract!Running(p) /\ verdict[p] = "unasked"
    BY DEF KeyInv, MayAsk, Asked, Told, Contract!Running, Wrapper
  <1>2. Fallback(p) \in Contract!Allowed(cmd[p], "unavailable") \ {"none"}
    BY <1>1 DEF Asked, Wrapper, Fallback, Contract!Allowed, Contract!Fallback,
         Contract!Wrapper, Contract!Outcome
  <1>3. Contracted(p)
    BY <1>1, <1>2, Finishing DEF Contract!Follows, KeyInv, Contracted
  <1>4. ASSUME NEW q \in Proc PROVE Told(q)'
    BY <1>1, <1>2 DEF KeyInv, TypeOK, ControlTyped, HistoryTyped, Told, AtCache,
         AtWipe, Asked, Wrapper
  <1>. QED
    BY <1>3, <1>4

LEMMA ListDeniedTold ==
  ASSUME ToldInv, NEW p \in Proc, ListDenied(p)
  PROVE  Contracted(p) /\ \A q \in Proc: Told(q)'
  <1>. USE DEF ToldInv, ListDenied
  <1>1. Contracted(p)
    BY Names DEF KeyInv, TypeOK, ControlTyped, HistoryTyped, Told, Contracted,
         Contract!contractVars, Answered, Contract!Learn, Contract!Running,
         Contract!Follows, MayAsk, Asked, Wrapper
  <1>2. ASSUME NEW q \in Proc PROVE Told(q)'
    BY DEF KeyInv, TypeOK, ControlTyped, HistoryTyped, MayAsk, Asked, Served,
         Told, AtCache, AtWipe, Wrapper, Answered
  <1>. QED
    BY <1>1, <1>2

LEMMA CredentialsIssuedTold ==
  ASSUME ToldInv, NEW p \in Proc, CredentialsIssued(p)
  PROVE  Contracted(p) /\ \A q \in Proc: Told(q)'
  <1>. USE DEF ToldInv, CredentialsIssued
  <1>1. Contracted(p)
    BY Names DEF KeyInv, TypeOK, ControlTyped, HistoryTyped, Told, Contracted,
         Contract!contractVars, Answered, Contract!Learn, Contract!Running,
         Contract!Follows, MayAsk, Served, Asked, Wrapper
  <1>2. ASSUME NEW q \in Proc PROVE Told(q)'
    BY DEF KeyInv, TypeOK, ControlTyped, HistoryTyped, MayAsk, Asked, Served,
         Told, AtCache, AtWipe, Wrapper, Answered
  <1>. QED
    BY <1>1, <1>2

LEMMA CachingFailsTold ==
  ASSUME ToldInv, NEW p \in Proc, CachingFails(p)
  PROVE  Contracted(p) /\ \A q \in Proc: Told(q)'
  <1>. USE DEF ToldInv, CachingFails, Answered
  <1>1. Asked(p) /\ Contract!Running(p) /\ verdict[p] = "accepted"
    BY DEF KeyInv, MayAsk, Served, Asked, Told, Contract!Running, Wrapper
  <1>2. "exit1" \in Contract!Allowed(cmd[p], "issued")
    BY <1>1 DEF Asked, Wrapper, Contract!Allowed, Contract!Wrapper, Contract!Outcome
  <1>3. Contracted(p)
    BY <1>1, <1>2, Finishing DEF Contract!Follows, KeyInv, Contracted
  <1>4. ASSUME NEW q \in Proc PROVE Told(q)'
    BY <1>1, <1>2 DEF KeyInv, TypeOK, ControlTyped, HistoryTyped, Told, AtCache,
         AtWipe, Asked, Wrapper
  <1>. QED
    BY <1>3, <1>4

LEMMA CredentialsDeniedTold ==
  ASSUME ToldInv, NEW p \in Proc, CredentialsDenied(p)
  PROVE  Contracted(p) /\ \A q \in Proc: Told(q)'
  <1>. USE DEF ToldInv, CredentialsDenied, Answered
  <1>1. Asked(p) /\ Contract!Running(p) /\ verdict[p] = "accepted"
    BY DEF KeyInv, MayAsk, Served, Asked, Told, Contract!Running, Wrapper
  <1>2. Contracted(p)
    <2>1. CASE cmd[p] = "kubeconfig"
      <3>1. "exit1" \in Contract!Allowed(cmd[p], "denied")
        BY <2>1 DEF Contract!Allowed, Contract!Wrapper, Contract!Outcome
      <3>. QED
        BY <1>1, <2>1, <3>1, Finishing DEF Contract!Follows, KeyInv, Contracted
    <2>2. CASE cmd[p] # "kubeconfig"
      BY <1>1, <2>2, Learning DEF Contract!Follows, KeyInv, Contracted
    <2>. QED
      BY <2>1, <2>2
  <1>3. ASSUME NEW q \in Proc PROVE Told(q)'
    BY <1>1 DEF KeyInv, TypeOK, ControlTyped, HistoryTyped, Told, AtCache, AtWipe,
         Asked, Wrapper
  <1>. QED
    BY <1>2, <1>3

LEMMA LookUpTold ==
  ASSUME ToldInv, NEW p \in Proc, LookUp(p)
  PROVE  Contracted(p) /\ \A q \in Proc: Told(q)'
  <1>. USE DEF ToldInv, LookUp
  <1>1. Contracted(p)
    BY Names DEF KeyInv, TypeOK, ControlTyped, HistoryTyped, Told, Contracted,
         Contract!contractVars
  <1>2. ASSUME NEW q \in Proc PROVE Told(q)'
    BY DEF KeyInv, TypeOK, ControlTyped, HistoryTyped, MayAsk, Asked, Served,
         Told, AtCache, AtWipe, Wrapper, AfterMiss
  <1>. QED
    BY <1>1, <1>2

LEMMA DropSessionTold ==
  ASSUME ToldInv, NEW p \in Proc, DropSession(p)
  PROVE  Contracted(p) /\ \A q \in Proc: Told(q)'
  <1>. USE DEF ToldInv, DropSession
  <1>1. Contracted(p)
    BY Names DEF KeyInv, TypeOK, ControlTyped, HistoryTyped, Told, Contracted,
         Contract!contractVars
  <1>2. ASSUME NEW q \in Proc PROVE Told(q)'
    BY DEF KeyInv, TypeOK, ControlTyped, HistoryTyped, MayAsk, Asked, Served,
         Told, AtCache, AtWipe, Wrapper
  <1>. QED
    BY <1>1, <1>2

LEMMA ConnectSshTold ==
  ASSUME ToldInv, NEW p \in Proc, ConnectSsh(p)
  PROVE  Contracted(p) /\ \A q \in Proc: Told(q)'
  <1>. USE DEF ToldInv, ConnectSsh
  <1>1. Contracted(p)
    BY Names DEF KeyInv, TypeOK, ControlTyped, HistoryTyped, Told, Contracted,
         Contract!contractVars, Contract!Finish, Contract!Running,
         Contract!Follows, Contract!Allowed, Contract!Reached,
         Contract!Fallback, Contract!Wrapper, Contract!Outcome
  <1>2. ASSUME NEW q \in Proc PROVE Told(q)'
    BY DEF KeyInv, TypeOK, ControlTyped, HistoryTyped, MayAsk, Asked, Served,
         Told, AtCache, AtWipe, Wrapper
  <1>. QED
    BY <1>1, <1>2

LEMMA WriteKubeconfigTold ==
  ASSUME ToldInv, NEW p \in Proc, WriteKubeconfig(p)
  PROVE  Contracted(p) /\ \A q \in Proc: Told(q)'
  <1>. USE DEF ToldInv, WriteKubeconfig
  <1>1. Contracted(p)
    BY Names DEF KeyInv, TypeOK, ControlTyped, HistoryTyped, Told, Contracted,
         Contract!contractVars, Contract!Finish, Contract!Running,
         Contract!Follows, Contract!Allowed, Contract!Reached,
         Contract!Fallback, Contract!Wrapper, Contract!Outcome, MayAsk, Served,
         Asked, Wrapper
  <1>2. ASSUME NEW q \in Proc PROVE Told(q)'
    BY DEF KeyInv, TypeOK, ControlTyped, HistoryTyped, MayAsk, Asked, Served,
         Told, AtCache, AtWipe, Wrapper
  <1>. QED
    BY <1>1, <1>2

LEMMA UseFailsTold ==
  ASSUME ToldInv, NEW p \in Proc, UseFails(p)
  PROVE  Contracted(p) /\ \A q \in Proc: Told(q)'
  <1>. USE DEF ToldInv, UseFails
  <1>1. Asked(p) /\ Contract!Running(p) /\ verdict[p] \in {"accepted", "issued"}
    BY DEF KeyInv, MayAsk, Served, Asked, Told, Contract!Running, Wrapper
  <1>2. "exit1" \in Contract!Allowed(cmd[p], verdict[p])
    BY <1>1 DEF Asked, Wrapper, Contract!Allowed, Contract!Wrapper, Contract!Outcome
  <1>3. Contracted(p)
    BY <1>1, <1>2, FinishingKnown DEF KeyInv, Contracted
  <1>4. ASSUME NEW q \in Proc PROVE Told(q)'
    BY <1>1 DEF KeyInv, TypeOK, ControlTyped, HistoryTyped, Told, AtCache, AtWipe,
         Asked, Wrapper
  <1>. QED
    BY <1>3, <1>4

LEMMA SweepStatTold ==
  ASSUME ToldInv, NEW p \in Proc, SweepStat(p)
  PROVE  Contracted(p) /\ \A q \in Proc: Told(q)'
  <1>. USE DEF ToldInv, SweepStat
  <1>1. Contracted(p)
    BY Names DEF KeyInv, TypeOK, ControlTyped, HistoryTyped, Told, Contracted,
         Contract!contractVars
  <1>2. ASSUME NEW q \in Proc PROVE Told(q)'
    BY DEF KeyInv, TypeOK, ControlTyped, HistoryTyped, MayAsk, Asked, Served,
         Told, AtCache, AtWipe, Wrapper
  <1>. QED
    BY <1>1, <1>2

LEMMA TimeTold ==
  ASSUME ToldInv, ExpireToken \/ \E k \in Key: ExpireSession(k) \/ AgeKubeconfig(k)
  PROVE  UNCHANGED Contract!contractVars /\ \A q \in Proc: Told(q)'
  BY DEF ToldInv, ExpireToken, ExpireSession, AgeKubeconfig, Told, Contract!contractVars

LEMMA ToldStep ==
  ASSUME ToldInv, [Next]_vars PROVE ToldInv' /\ [Contract!Next]_(Contract!contractVars)
  <1>1. KeyInv'
    BY KeyInvStep DEF ToldInv
  <1>2. ASSUME NEW p \in Proc, NEW c \in Commands, Begin(p, c) \/ BeginUnconfigured(p, c)
        PROVE  Contracted(p) /\ \A q \in Proc: Told(q)'
    BY <1>2, BeginTold, BeginUnconfiguredTold
  <1>3. ASSUME NEW p \in Proc, LoginSucceeds(p) \/ LoginFails(p) \/ GatewayAnswers(p)
        PROVE  Contracted(p) /\ \A q \in Proc: Told(q)'
    BY <1>3, LoginSucceedsTold, LoginFailsTold, GatewayAnswersTold
  <1>4. ASSUME NEW p \in Proc, CodeStep(p)
        PROVE  Contracted(p) /\ \A q \in Proc: Told(q)'
    BY <1>4, CheckTokenTold, TakeTokenTold, UnlinkTokenTold, WipeEndsTold,
         RotateTokenTold, ListServedTold, CredentialsWithheldTold,
         ReadCacheTold, DropKubeconfigTold, KubectlReadsTold, FindTokenTold,
         ListSessionsTold, UnlinkSessionTold, ListKubeconfigsTold,
         UnlinkKubeconfigTold, ListFailsTold, ListDeniedTold,
         CredentialsIssuedTold, CachingFailsTold, CredentialsDeniedTold, LookUpTold,
         DropSessionTold, ConnectSshTold, WriteKubeconfigTold, UseFailsTold,
         SweepStatTold DEF
         CodeStep
  <1>5. CASE UNCHANGED vars
    BY <1>1, <1>5 DEF vars, ToldInv, Told, Contract!contractVars
  <1>6. ASSUME NEW p \in Proc, Contracted(p) /\ \A q \in Proc: Told(q)'
        PROVE  ToldInv' /\ [Contract!Next]_(Contract!contractVars)
    BY <1>1, <1>6 DEF ToldInv, Contracted, Contract!Next
  <1>7. CASE Next
    <2>1. CASE ExpireToken \/ \E k \in Key: ExpireSession(k) \/ AgeKubeconfig(k)
      BY <1>1, <2>1, TimeTold DEF ToldInv
    <2>2. CASE \E p \in Proc: \/ \E c \in Commands: Begin(p, c) \/ BeginUnconfigured(p, c)
                            \/ LoginSucceeds(p) \/ LoginFails(p)
                            \/ GatewayAnswers(p) \/ CodeStep(p)
      BY <1>2, <1>3, <1>4, <1>6, <2>2
    <2>. QED
      BY <1>7, <2>1, <2>2 DEF Next
  <1>. QED
    BY <1>5, <1>7

-----------------------------------------------------------------------------
\* Every command ends the way exit-codes.ts allows it to, given what the
\* gateway told it, for any number of concurrent invocations: HshSession
\* implements CommandContract.
THEOREM ContractImplemented == Spec => ImplementsContract
  <1>1. Init => ToldInv /\ Contract!Init
    BY KeyInvInit, ToldInit DEF ToldInv
  <1>2. ToldInv /\ [Next]_vars => ToldInv' /\ [Contract!Next]_(Contract!contractVars)
    BY ToldStep
  <1>. QED
    BY <1>1, <1>2, PTL DEF Spec, ImplementsContract, Contract!Spec

=============================================================================
