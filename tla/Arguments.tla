------------------------------ MODULE Arguments ------------------------------
(***************************************************************************)
(* The decisions hsh takes on what it is given, without talking to anyone: *)
(* the argv of ssh (SshArgs), the connection a name means (Match), the     *)
(* context of a kubectl command (KubectlContext), the newer of two         *)
(* versions (Semver).  A behavior asks one question.                       *)
(***************************************************************************)
EXTENDS SshArgs, Match, KubectlContext, Semver

CONSTANTS
  Argvs,        \* arguments of hsh ssh
  Lookups,      \* [kind, target, connections]
  KubectlCalls, \* [args, env, files]
  VersionPairs  \* <<a, b>>

\* The words of a call, none of which stands for there being none.
KubectlWords == {w \in Seq(STRING) : "absent" \notin Range(w)}

ASSUME ArgumentsAssumption ==
  /\ Argvs \subseteq Seq(Seq(STRING))
  /\ \A l \in Lookups : l.target \in Seq(STRING) /\ DOMAIN l.connections \subseteq Nat
  /\ \A c \in KubectlCalls :
       c.args \in Seq(KubectlWords) /\ c.env \in Seq(Seq(STRING)) /\ <<>> \notin DOMAIN c.files
  /\ VersionPairs \subseteq Versions \X Versions

VARIABLES
  question,     \* [what, of]
  answer

argumentVars == <<sshVars, question, answer>>

none == [what |-> "none"]
EphemeralFile == <<"~/.hsh/kubeconfig">>

Init ==
  /\ answer = none
  /\ \/ \E given \in Argvs : question = [what |-> "ssh", of |-> given] /\ SshInit(given)
     \/ \E l \in Lookups : question = [what |-> "match", of |-> l] /\ SshInit(<<>>)
     \/ \E c \in KubectlCalls : question = [what |-> "kubectl", of |-> c] /\ SshInit(<<>>)
     \/ \E p \in VersionPairs : question = [what |-> "version", of |-> p] /\ SshInit(<<>>)

AnswerMatch ==
  /\ question.what = "match"
  /\ answer' = MatchConnection(question.of.kind, question.of.target, question.of.connections)

AnswerKubectl ==
  /\ question.what = "kubectl"
  /\ LET c == question.of
     IN  answer' = [context |-> DetectContext(c.args, c.env, c.files),
                    env |-> IF Routed(c.args, c.env, c.files)
                              THEN BuildKubeconfigEnv(EphemeralFile, c.env) ELSE c.env]

AnswerVersion ==
  /\ question.what = "version"
  /\ answer' = [order |-> CompareSemver(question.of[1], question.of[2]),
                reverse |-> CompareSemver(question.of[2], question.of[1])]

Answer ==
  /\ answer = none
  /\ AnswerMatch \/ AnswerKubectl \/ AnswerVersion
  /\ UNCHANGED <<sshVars, question>>

Next ==
  \/ question.what = "ssh" /\ SshNext /\ UNCHANGED <<question, answer>>
  \/ Answer

Spec == Init /\ [][Next]_argumentVars

---------------------------------------------------------------------------

\* Every variable keeps its type; the parser never reads past the end of the argv
\* (src/plugins/ssh-args.ts), and a question is answered by its own code only.
TypeOK ==
  /\ SshTypeOK
  /\ question.what \in {"ssh", "match", "kubectl", "version"}
  /\ question.what # "ssh" => phase = "parse" /\ tokens = <<>>
  /\ question.what = "ssh" => answer = none

Answered(what) == question.what = what /\ answer # none

\* hsh picks a connection no other answers better to, the first of those in the
\* list of the gateway, lists every one that answers as well (the warning names
\* them), and finds none only if none answers: the levels of matchConnection
\* decide as a rank of each connection by itself would.
BestMatch ==
  Answered("match") =>
    LET q == question.of
        all == DOMAIN q.connections
        rank(k) == Rank(q.kind, q.target, q.connections[k])
        best == Min({rank(k) : k \in all} \cup {5})
    IN  /\ answer.level = best % 5
        /\ answer.candidates = {k \in all : rank(k) = best /\ best # 5}
        /\ answer.match = IF best = 5 THEN 0 ELSE Min(answer.candidates)

\* Each flag is given once at most, with a value that is not itself a flag.
PlainCall(args) ==
  LET is(k, f) == args[k] # <<>> /\ args[k][1] \in f
      Context == {"--context", "--context="}
      Kubeconfig == {"--kubeconfig", "--kubeconfig="}
      Value(f) == \A k \in DOMAIN args : args[k] = <<f>> =>
                    k < Len(args) /\ ~is(k + 1, Context \cup Kubeconfig \cup {"--"})
  IN  /\ \A f \in {Context, Kubeconfig} : \A j, k \in DOMAIN args : is(j, f) /\ is(k, f) => j = k
      /\ Value("--context") /\ Value("--kubeconfig")

\* The cluster hsh asks the gateway for is the one kubectl would have talked
\* to: for any call whose flags are not ambiguous, whatever KUBECONFIG and the
\* files say, the context hsh detects is the one kubectl uses; it finds none
\* only if kubectl has none or a flag is empty.
ContextIsKubectls ==
  Answered("kubectl") /\ PlainCall(question.of.args) =>
    LET c == question.of
        kubectls == KubectlContextOf(c.args, c.env, c.files)
    IN  IF Routed(c.args, c.env, c.files)
          THEN answer.context = kubectls
          ELSE kubectls = <<>> \/ \E k \in DOMAIN c.args :
                 c.args[k] \in {<<>>, <<"--context=">>, <<"--kubeconfig=">>}

\* A routed kubectl reads the file of hsh before any other and only once, and
\* the files of KUBECONFIG after it.  Where KUBECONFIG is not set it reads the file
\* of hsh alone: buildKubeconfigEnv drops the default file, which comments in
\* src/plugins/kubeconfig.ts:19 and kubectl.ts:227 say comes next.  Where the
\* command names a kubeconfig, kubectl reads that one alone, past the gateway.
HoopFileFirst ==
  Answered("kubectl") /\ PlainCall(question.of.args) =>
    LET c == question.of
        reads == KubectlFiles(c.args, answer.env)
        before == KubectlFiles(c.args, c.env)
    IN  IF ~Routed(c.args, c.env, c.files) \/ KubectlFlag(c.args, "--kubeconfig", "--kubeconfig=") # <<>>
          THEN reads = before
          ELSE /\ reads[1] = EphemeralFile
               /\ IF Blank(c.env) THEN reads = <<EphemeralFile>>
                  ELSE \A k \in DOMAIN before : before[k] \in Range(reads)
               /\ Cardinality({k \in DOMAIN reads : reads[k] = EphemeralFile}) = 1

\* The answer of a comparison is that of the three numbers and then of release or
\* pre-release, a release being the newer, whatever the tags; and swapping the
\* two versions swaps it, so that no two releases are each newer than the other
\* (compareSemver in src/update/version.ts).
NewerIsAnOrder ==
  Answered("version") =>
    LET a == question.of[1]
        b == question.of[2]
        final(v) == IF v.pre = <<>> THEN 1 ELSE 0
    IN  /\ answer.reverse = -answer.order
        /\ a.numbers # b.numbers \/ final(a) # final(b) =>
             answer.order = Lexicographic(Append(a.numbers, final(a)), Append(b.numbers, final(b)))

\* Between two tags the answer is semver's if they have no hyphen, words begin with
\* a letter and numbers at the same place have as many digits, though the code
\* compares tags as strings (compareSemver in src/update/version.ts).
SemverOrder ==
  Answered("version") =>
    LET a == question.of[1]
        b == question.of[2]
    IN  a.numbers = b.numbers /\ <<>> \notin {a.pre, b.pre} /\ Alike(a.pre, b.pre) =>
          answer.order = ComparePre(a.pre, b.pre)

=============================================================================
