--------------------------- MODULE KubectlContext ----------------------------
(***************************************************************************)
(* Which context kubectl would use, as hsh kubectl works it out            *)
(* (src/plugins/kubectl-context.ts), the KUBECONFIG it then hands to       *)
(* kubectl (src/plugins/kubeconfig.ts), and how kubectl itself reads both, *)
(* which is external.  Arguments, contexts and file names are sequences of *)
(* lexical parts: "--context=prod" is <<"--context=", "prod">>, "" is      *)
(* <<>>.  KUBECONFIG is the sequence of its entries, <<>> when unset.      *)
(***************************************************************************)
EXTENDS Naturals, SequencesExt

absent == <<"absent">>

\* The first "--flag value" or "--flag=value" before "--".
ReadFlagValue(args, flag, flagEq) ==
  LET here(k) ==
        \/ args[k] = <<"--">>
        \/ args[k] = <<flag>> /\ k < Len(args)
        \/ args[k] # <<>> /\ args[k][1] = flagEq
      hits == {k \in DOMAIN args : here(k)}
  IN  IF hits = {} THEN absent
      ELSE LET k == Min(hits)
           IN  IF args[k] = <<"--">> THEN absent
               ELSE IF args[k] = <<flag>> THEN args[k + 1] ELSE Tail(args[k])

\* A file is the lines that mention current-context; those of other keys'
\* mappings are indented.
TopLine(line) == ~line.nested

\* The first line at column 0 counts, and an empty value is no value.
ExtractCurrentContext(lines) ==
  LET top == SelectSeq(lines, TopLine)
  IN  IF top = <<>> \/ top[1].value = <<>> THEN absent ELSE top[1].value

\* A file that is not there has no context.
ReadCurrentContext(files, file) ==
  IF file \in DOMAIN files THEN ExtractCurrentContext(files[file]) ELSE absent

\* The elements of s that are not in D, in their order.
Without(s, D) == FlattenSeq([k \in DOMAIN s |-> IF s[k] \in D THEN <<>> ELSE <<s[k]>>])

Entries(env) == Without(env, {<<>>})
Blank(env) == env \in {<<>>, <<<<>>>>}

\* The current context of the first file that has one.
FirstContext(files, paths) ==
  LET with == {k \in DOMAIN paths : ReadCurrentContext(files, paths[k]) # absent}
  IN  IF with = {} THEN absent ELSE ReadCurrentContext(files, paths[Min(with)])

HomeConfig == <<"~/.kube/config">>

\* Mutant: the file named on the command line comes after KUBECONFIG.
EnvBeforeFlag(args, env, files) ==
  LET context == ReadFlagValue(args, "--context", "--context=")
      kubeconfig == ReadFlagValue(args, "--kubeconfig", "--kubeconfig=")
  IN  IF context # absent THEN context
      ELSE IF ~Blank(env) THEN FirstContext(files, Entries(env))
      ELSE IF kubeconfig # absent THEN ReadCurrentContext(files, kubeconfig)
      ELSE ReadCurrentContext(files, HomeConfig)

DetectContext(args, env, files) ==
  LET context == ReadFlagValue(args, "--context", "--context=")
      kubeconfig == ReadFlagValue(args, "--kubeconfig", "--kubeconfig=")
  IN  IF context # absent THEN context
      ELSE IF kubeconfig # absent THEN ReadCurrentContext(files, kubeconfig)
      ELSE IF ~Blank(env) THEN FirstContext(files, Entries(env))
      ELSE ReadCurrentContext(files, HomeConfig)

\* Without a context hsh runs kubectl as it was called.
Routed(args, env, files) == DetectContext(args, env, files) \notin {absent, <<>>}

\* Mutant: the file of hsh comes last.
HshLast(hsh, env) ==
  IF Blank(env) THEN <<hsh>> ELSE Append(Without(Entries(env), {hsh}), hsh)

\* The file of hsh first, once.
BuildKubeconfigEnv(hsh, env) ==
  IF Blank(env) THEN <<hsh>> ELSE <<hsh>> \o Without(Entries(env), {hsh})

---------------------------------------------------------------------------
(* kubectl: a flag takes the argument after it whatever it is, and the last *)
(* of two wins.                                                             *)

KubeFlags == {"--context", "--kubeconfig"}

\* The arguments kubectl takes as flags, not as the value of the flag before: of a
\* run of flags without a value every second one is the value of another.
FlagAt(args, k) ==
  LET others == {j \in 0..(k - 1) : j > 0 => args[j] \notin {<<f>> : f \in KubeFlags}}
  IN  (k - 1 - Max(others)) % 2 = 0

KubectlFlag(args, flag, flagEq) ==
  LET ends == {k \in DOMAIN args : FlagAt(args, k) /\ args[k] = <<"--">>}
      hits == {k \in DOMAIN args :
                 /\ FlagAt(args, k) /\ \A e \in ends : k < e
                 /\ (args[k] = <<flag>> \/ (args[k] # <<>> /\ args[k][1] = flagEq))}
  IN  IF hits = {} THEN <<>>
      ELSE LET k == Max(hits)
           IN  IF args[k] # <<flag>> THEN Tail(args[k])
               ELSE IF k < Len(args) THEN args[k + 1] ELSE absent

\* The files it merges: of two definitions the first counts.
KubectlFiles(args, env) ==
  LET kubeconfig == KubectlFlag(args, "--kubeconfig", "--kubeconfig=")
  IN  IF kubeconfig # <<>> THEN <<kubeconfig>>
      ELSE IF ~Blank(env) THEN Entries(env) ELSE <<HomeConfig>>

\* The context it uses, <<>> being none.
KubectlContextOf(args, env, files) ==
  LET context == KubectlFlag(args, "--context", "--context=")
      first == FirstContext(files, KubectlFiles(args, env))
  IN  IF context # <<>> THEN context ELSE IF first = absent THEN <<>> ELSE first

=============================================================================
