----------------------------- MODULE MCArguments -----------------------------
EXTENDS Arguments

MCValueFlags == {"-p", "-l", "-o", "-i"}
MCPlainFlags == {"-v"}
MCDigits == {"22"}

MCWords ==
  {<<"h">>, <<"u", "@", "h">>, <<"ssh://", "u", "@", "h", ":", "22">>,
   <<"ssh://", "[", ":", ":", "1", "]", ":", "22">>, <<"--">>, <<"-v">>, <<"-v", "p">>,
   <<"-p">>, <<"-p", "22">>, <<"-l">>, <<"-l", "u">>, <<"-i">>, <<"-o">>,
   <<"-o", "port", "=", "22">>, <<"Port", "=", "22">>, <<"A", "=", "b", "=">>, <<"A", "b">>,
   <<"-o", "User", "=", "x">>}
\* Up to three arguments of these, and four of the ones that make the loop look
\* ahead.
MCArgvs ==
  UNION {[1..n -> MCWords] : n \in 0..3} \cup
  [1..4 -> {<<"h">>, <<"u", "@", "h">>, <<"--">>, <<"-v", "p">>, <<"-p">>, <<"-l">>,
            <<"-o">>, <<"-o", "port", "=", "22">>, <<"Port", "=", "22">>, <<"A", "b">>}]

MCNames == {<<"db">>, <<"db", "corp">>, <<"x">>}
MCConnections ==
  [name : MCNames, schema : MCNames \cup {<<>>}, tags : {{}, {<<"db", "corp">>}, {<<"db">>, <<"x">>}}]
MCLookups ==
  [kind : {"ssh", "kubectl"}, target : {<<"db">>, <<"db", "corp">>},
   connections : UNION {[1..n -> MCConnections] : n \in 0..2}]

MCKubeWords ==
  {<<"--context">>, <<"--context=", "prod">>, <<"--context=">>, <<"--kubeconfig">>,
   <<"--kubeconfig=", "f1">>, <<"--">>, <<"prod">>, <<"f2">>}
MCLines ==
  {<<>>,
   <<[nested |-> TRUE, value |-> <<"inner">>], [nested |-> FALSE, value |-> <<"prod">>]>>,
   <<[nested |-> FALSE, value |-> <<>>], [nested |-> FALSE, value |-> <<"dev">>]>>}
MCHome == HomeConfig :> <<[nested |-> FALSE, value |-> <<"home">>]>>
MCFiles ==
  {f @@ MCHome : f \in UNION {[fs -> MCLines] : fs \in {{}, {<<"f1">>}, {<<"f1">>, <<"f2">>}}}}
  \cup {<<"f1">> :> <<[nested |-> FALSE, value |-> <<"dev">>]>>}
MCEnvs == {<<>>, <<<<>>>>, <<<<>>, <<>>>>, <<<<"f1">>>>, <<<<"f2">>, <<>>, <<"f1">>>>,
           <<<<"~/.hsh/kubeconfig">>, <<"f1">>>>}
MCKubectlCalls ==
  [args : UNION {[1..n -> MCKubeWords] : n \in 0..3}, env : MCEnvs,
   files : MCFiles]

\* "1", "2", "r", "-" and ".": "r1", "r.1", "r.12" and the like.
MCPres == {p \in UNION {[1..n -> {46, 49, 50, 114}] : n \in 0..4}
                  \cup UNION {[1..n -> {45, 46, 49, 114}] : n \in 1..3} : WellFormed(p)}
MCVersions == [numbers : {<<1, 0, 0>>, <<1, 2, 0>>}, pre : MCPres]
MCVersionPairs ==
  {p \in MCVersions \X MCVersions :
     p[1].numbers # p[2].numbers => Len(p[1].pre) <= 1 /\ Len(p[2].pre) <= 1}

=============================================================================
