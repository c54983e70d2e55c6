------------------------------- MODULE SshArgs -------------------------------
(***************************************************************************)
(* What hsh ssh makes of its arguments (src/plugins/ssh-args.ts): a loop   *)
(* that turns argv into tokens, and the argv for the gateway rendered from *)
(* them.  A string is the sequence of its lexical parts: "-p22" is         *)
(* <<"-p", "22">>, "u@h" is <<"u", "@", "h">>.                             *)
(***************************************************************************)
EXTENDS Naturals, FiniteSets, SequencesExt

CONSTANTS
  ValueFlags,   \* SHORT_FLAGS_WITH_VALUE, "-o" among them
  PlainFlags,   \* the beginnings of all other arguments that begin with "-"
  Digits        \* the parts that are numbers

ASSUME SshArgsAssumption ==
  /\ {"-p", "-l", "-o"} \subseteq ValueFlags
  /\ ValueFlags \cap PlainFlags = {}
  \* "--" ends the flags, and the user of the gateway is no flag.
  /\ {"--", "gwuser"} \cap (ValueFlags \cup PlainFlags) = {}

VARIABLES
  phase,      \* "parse", "reparse" or "done"
  argv,       \* the arguments the loop runs over
  i,          \* its next argument
  tokens, userFromL, userFromDest, host,
  portFromFlag, portFromOpt, portFromUri, destSeen, doubleDashSeen,
  first       \* the tokens of the user's own arguments

loop == <<i, tokens, userFromL, userFromDest, host, portFromFlag, portFromOpt,
          portFromUri, destSeen, doubleDashSeen>>
sshVars == <<phase, argv, loop, first>>

null == <<"null">>
Or(a, b) == IF a = null THEN b ELSE a

Positions(s, part) == {k \in DOMAIN s : s[k] = part}
Before(s, k) == SubSeq(s, 1, k - 1)
After(s, k) == SubSeq(s, k + 1, Len(s))
FirstAt(s, part) == Min(Positions(s, part))
LastAt(s, part) == Max(Positions(s, part))
Starts(s, parts) == s # <<>> /\ s[1] \in parts

---------------------------------------------------------------------------
(* splitDestination *)

\* host and port of a URI: [host]:port, host:port with a number, or all host.
HostPort(s) ==
  IF Starts(s, {"["}) /\ Positions(s, "]") # {}
    THEN LET close == FirstAt(s, "]")
             rest == After(s, close)
         IN  [host |-> SubSeq(s, 2, close - 1),
              port |-> IF Starts(rest, {":"}) /\ Len(rest) > 1 THEN Tail(rest) ELSE null]
    ELSE IF Positions(s, ":") # {} /\ Len(s) = LastAt(s, ":") + 1 /\ Last(s) \in Digits
    THEN [host |-> Before(s, LastAt(s, ":")), port |-> <<Last(s)>>]
    ELSE [host |-> s, port |-> null]

SplitDestination(raw) ==
  LET uri == Starts(raw, {"ssh://"})
      body == IF uri THEN Tail(raw) ELSE raw
      named == Positions(body, "@") # {}
      rest == IF named THEN After(body, FirstAt(body, "@")) ELSE body
  IN  [user |-> IF named THEN Before(body, FirstAt(body, "@")) ELSE null,
       host |-> IF uri THEN HostPort(rest).host ELSE rest,
       port |-> IF uri THEN HostPort(rest).port ELSE null]

---------------------------------------------------------------------------
(* parseSshArgs: one action per branch of its loop *)

Token(kind, flag, value, joined) ==
  [kind |-> kind, flag |-> flag, value |-> value, joined |-> joined]

Parsing == phase \in {"parse", "reparse"} /\ i <= Len(argv)
arg == argv[i]
HasNext == i < Len(argv)

Push(token, width) ==
  /\ tokens' = Append(tokens, token)
  /\ i' = i + width

Reset ==
  /\ i' = 1 /\ tokens' = <<>>
  /\ userFromL' = null /\ userFromDest' = null /\ host' = null
  /\ portFromFlag' = null /\ portFromOpt' = null /\ portFromUri' = null
  /\ destSeen' = FALSE /\ doubleDashSeen' = FALSE

\* The first positional argument; the port of a URI counts only before "--".
Destination ==
  LET d == SplitDestination(arg)
  IN  /\ userFromDest' = d.user /\ host' = d.host /\ destSeen' = TRUE
      /\ portFromUri' = IF doubleDashSeen THEN portFromUri ELSE Or(d.port, portFromUri)
      /\ Push(Token("destination", d.host, d.user, FALSE), 1)
      /\ UNCHANGED <<userFromL, portFromFlag, portFromOpt, doubleDashSeen>>

Command ==
  /\ Push(Token("command", <<>>, arg, FALSE), 1)
  /\ UNCHANGED <<userFromL, userFromDest, host, portFromFlag, portFromOpt, portFromUri,
                 destSeen, doubleDashSeen>>

DoubleDash ==
  /\ doubleDashSeen' = TRUE
  /\ Push(Token("double-dash", <<>>, <<"--">>, FALSE), 1)
  /\ UNCHANGED <<userFromL, userFromDest, host, portFromFlag, portFromOpt, portFromUri,
                 destSeen>>

\* The names of the option, which the code compares without regard to case.
PortKeys == {<<"Port">>, <<"port">>}

\* Mutant: the value ends at the next "=".
OptionSplit(raw, joined, width) ==
  LET bare == Positions(raw, "=") = {}
      key == IF bare THEN raw ELSE Before(raw, FirstAt(raw, "="))
      rest == IF bare THEN <<>> ELSE After(raw, FirstAt(raw, "="))
      value == IF Positions(rest, "=") = {} THEN rest ELSE Before(rest, FirstAt(rest, "="))
  IN  /\ Push(Token("option", key, value, joined), width)
      /\ portFromOpt' = IF key \in PortKeys THEN value ELSE portFromOpt
      /\ UNCHANGED <<userFromL, userFromDest, host, portFromFlag, portFromUri,
                     destSeen, doubleDashSeen>>

\* KEY=VAL; without "=" all of it is the key.
Option(raw, joined, width) ==
  LET bare == Positions(raw, "=") = {}
      key == IF bare THEN raw ELSE Before(raw, FirstAt(raw, "="))
      value == IF bare THEN <<>> ELSE After(raw, FirstAt(raw, "="))
  IN  /\ Push(Token("option", key, value, joined), width)
      /\ portFromOpt' = IF key \in PortKeys THEN value ELSE portFromOpt
      /\ UNCHANGED <<userFromL, userFromDest, host, portFromFlag, portFromUri,
                     destSeen, doubleDashSeen>>

FlagValue(flag, value, joined, width) ==
  /\ Push(Token("flag-value", <<flag>>, value, joined), width)
  /\ portFromFlag' = IF flag = "-p" THEN value ELSE portFromFlag
  /\ userFromL' = IF flag = "-l" THEN value ELSE userFromL
  /\ UNCHANGED <<userFromDest, host, portFromOpt, portFromUri, destSeen, doubleDashSeen>>

Flag ==
  /\ Push(Token("flag", <<>>, arg, FALSE), 1)
  /\ UNCHANGED <<userFromL, userFromDest, host, portFromFlag, portFromOpt, portFromUri,
                 destSeen, doubleDashSeen>>

Dashed == Starts(arg, ValueFlags \cup PlainFlags)

\* Past "--" nothing is a flag; past the destination all is the remote command.
AfterDoubleDash == doubleDashSeen /\ IF destSeen THEN Command ELSE Destination
MeetDoubleDash == ~doubleDashSeen /\ arg = <<"--">> /\ DoubleDash
RemoteCommand == ~doubleDashSeen /\ arg # <<"--">> /\ destSeen /\ Command

BeforeDestination == ~doubleDashSeen /\ arg # <<"--">> /\ ~destSeen

SeparateOption ==
  /\ BeforeDestination /\ arg = <<"-o">> /\ HasNext
  /\ Option(argv[i + 1], FALSE, 2)

JoinedOption ==
  /\ BeforeDestination /\ Starts(arg, {"-o"}) /\ Len(arg) > 1
  /\ Option(Tail(arg), TRUE, 1)

SeparateValue ==
  /\ BeforeDestination /\ arg # <<"-o">> /\ Dashed /\ Len(arg) = 1
  /\ arg[1] \in ValueFlags /\ HasNext
  /\ FlagValue(arg[1], argv[i + 1], FALSE, 2)

\* Mutant: a flag that lacks its value takes two arguments all the same.
DanglingTakesTwo ==
  /\ BeforeDestination /\ Len(arg) = 1 /\ Starts(arg, ValueFlags) /\ ~HasNext
  /\ Push(Token("flag", <<>>, arg, FALSE), 2)
  /\ UNCHANGED <<userFromL, userFromDest, host, portFromFlag, portFromOpt, portFromUri,
                 destSeen, doubleDashSeen>>

\* A flag that lacks its value goes to ssh as it is.
DanglingFlag ==
  /\ BeforeDestination /\ Len(arg) = 1 /\ Starts(arg, ValueFlags) /\ ~HasNext
  /\ Flag

JoinedValue ==
  /\ BeforeDestination /\ Starts(arg, ValueFlags \ {"-o"}) /\ Len(arg) > 1
  /\ FlagValue(arg[1], Tail(arg), TRUE, 1)

\* Also stacked and unknown flags: no value is taken.
PlainFlag == BeforeDestination /\ Starts(arg, PlainFlags) /\ Flag

Positional == BeforeDestination /\ ~Dashed /\ Destination

ParseArg ==
  /\ Parsing
  /\ \/ AfterDoubleDash \/ MeetDoubleDash \/ RemoteCommand
     \/ SeparateOption \/ JoinedOption \/ SeparateValue \/ DanglingFlag
     \/ JoinedValue \/ PlainFlag \/ Positional
  /\ UNCHANGED <<phase, argv, first>>

user == Or(userFromL, userFromDest)
port == Or(portFromFlag, Or(portFromOpt, portFromUri))

---------------------------------------------------------------------------
(* rewriteSshArgs *)

\* Mutant: the port given with -o stays.
DropsFlags(t) == t.kind = "flag-value" /\ t.flag \in {<<"-p">>, <<"-l">>}

Drops(t) ==
  \/ t.kind = "flag-value" /\ t.flag \in {<<"-p">>, <<"-l">>}
  \/ t.kind = "option" /\ t.flag \in PortKeys

\* The arguments a token other than the destination is rendered as.
Render(t) ==
  CASE t.kind = "flag-value" -> IF t.joined THEN <<t.flag \o t.value>> ELSE <<t.flag, t.value>>
    [] t.kind = "option" ->
         LET set == t.flag \o <<"=">> \o t.value
         IN  IF t.joined THEN <<<<"-o">> \o set>> ELSE <<<<"-o">>, set>>
    [] OTHER -> <<t.value>>

NewUser == <<"gwuser">>
NewHost == <<"gwhost">>
NewPort == <<"gwport">>

Rewritten ==
  <<<<"-p">>, NewPort>> \o
  FlattenSeq([k \in DOMAIN tokens |->
                IF Drops(tokens[k]) THEN <<>>
                ELSE IF tokens[k].kind = "destination" THEN <<NewUser \o <<"@">> \o NewHost>>
                ELSE Render(tokens[k])])

\* hsh ssh goes on with the host it found; without one ssh gets what was given.
Rewrite ==
  /\ phase = "parse" /\ i > Len(argv)
  /\ host \notin {null, <<>>}
  /\ first' = tokens /\ argv' = Rewritten
  /\ phase' = "reparse"
  /\ Reset

Stop ==
  /\ phase \in {"parse", "reparse"} /\ i > Len(argv)
  /\ phase = "parse" => host \in {null, <<>>}
  /\ phase' = "done"
  /\ UNCHANGED <<argv, loop, first>>

SshInit(given) ==
  /\ phase = "parse" /\ argv = given /\ first = <<>>
  /\ i = 1 /\ tokens = <<>>
  /\ userFromL = null /\ userFromDest = null /\ host = null
  /\ portFromFlag = null /\ portFromOpt = null /\ portFromUri = null
  /\ destSeen = FALSE /\ doubleDashSeen = FALSE

SshNext == ParseArg \/ Rewrite \/ Stop

---------------------------------------------------------------------------

\* The token at k stands for the arguments from StartOf(k) on.
StartOf(k) == 1 + Len(FlattenSeq([j \in 1..(k - 1) |-> Render(tokens[j])]))
ArgsOf(k) == SubSeq(argv, StartOf(k), StartOf(k + 1) - 1)

SshTypeOK ==
  /\ phase \in {"idle", "parse", "reparse", "done"}
  /\ i \in 1..(Len(argv) + 1)
  /\ \A k \in DOMAIN tokens :
       tokens[k].kind \in {"flag", "flag-value", "option", "destination",
                           "double-dash", "command"}
  /\ {destSeen, doubleDashSeen} \subseteq BOOLEAN

\* The tokens are the arguments read so far, each once and in order: whatever
\* the branches of the loop consumed, rendering gives it back (an -o option
\* written without "=" gets one), and the destination is the argument's.
Lossless ==
  /\ i = StartOf(Len(tokens) + 1)
  /\ \A k \in DOMAIN tokens :
       LET t == tokens[k]
       IN  IF t.kind = "destination"
             THEN LET d == SplitDestination(argv[StartOf(k)])
                  IN  t.flag = d.host /\ t.value = d.user
             ELSE \/ Render(t) = ArgsOf(k)
                  \/ /\ t.kind = "option" /\ t.value = <<>>
                     /\ FlattenSeq(Render(t)) = Append(FlattenSeq(ArgsOf(k)), "=")

\* The argv made for the gateway, parsed again by parseSshArgs, names the gateway:
\* its user, host and port, no -l and no other port left, one destination, and all
\* other tokens those of the user's argv, in place.  It compares tokens, as hsh
\* reads them: an -o written without "=" gains one, and an -o User=x is kept, which
\* ssh takes before the user of the destination.
RoundTrip ==
  phase = "done" /\ first # <<>> =>
    /\ user = NewUser /\ host = NewHost /\ port = NewPort
    /\ {userFromL, portFromOpt, portFromUri} = {null}
    /\ Cardinality({k \in DOMAIN tokens : tokens[k].kind = "destination"}) = 1
    /\ LET other(t) == t.kind # "destination" /\ t.flag \notin {<<"-p">>, <<"-l">>} \cup PortKeys
           kept(s) == FlattenSeq([k \in DOMAIN s |-> IF other(s[k]) THEN <<s[k]>> ELSE <<>>])
       IN  kept(tokens) = kept(first)

=============================================================================
