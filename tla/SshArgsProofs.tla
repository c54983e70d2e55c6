---------------------------- MODULE SshArgsProofs ----------------------------
(***************************************************************************)
(* hsh ssh, for any argv: the loop of parseSshArgs                         *)
(* (src/plugins/ssh-args.ts) loses no argument, and the argv that          *)
(* rewriteSshArgs makes is read by the same loop as one that goes to the   *)
(* gateway and keeps everything else.                                      *)
(*                                                                         *)
(* A branch of the loop reads one or two arguments as a token that stands  *)
(* for them, and the tokens before it stay where they were: nothing is     *)
(* lost.  For the second reading: the tokens of the first fit one after    *)
(* the other, as what has been met before them allows; so each token that  *)
(* stays becomes arguments which, met in the same place, leave the loop no *)
(* other branch than the one that made it.                                 *)
(***************************************************************************)
EXTENDS ArgumentsProofs

---------------------------------------------------------------------------
(* The arguments of ssh.                                                   *)

\* The parts of a text.  Every part is a string: the provers do not know it of
\* the literals, which are therefore named.
Parts == STRING \cup {"null", "=", "-o", "-p", "--", "@", "gwuser", "gwhost", "gwport"}
Texts == Seq(Parts)
Kinds == {"flag", "flag-value", "option", "destination", "double-dash", "command"}
Tokens == [kind : Kinds, flag : Texts, value : Texts, joined : BOOLEAN]

\* The texts the program writes itself.
LEMMA TextsAre ==
  /\ <<>> \in Texts /\ null \in Texts /\ <<"=">> \in Texts /\ <<"-o">> \in Texts
  /\ <<"-p">> \in Texts /\ <<"--">> \in Texts /\ <<"@">> \in Texts
  /\ NewUser \in Texts /\ NewHost \in Texts /\ NewPort \in Texts
<1>1. /\ "null" \in Parts /\ "=" \in Parts /\ "-o" \in Parts /\ "-p" \in Parts /\ "--" \in Parts
      /\ "@" \in Parts /\ "gwuser" \in Parts /\ "gwhost" \in Parts /\ "gwport" \in Parts
  BY DEF Parts
<1>2. <<>> \in Seq(Parts)
  OBVIOUS
<1>3. ASSUME NEW x \in Parts
      PROVE  <<x>> \in Seq(Parts)
  BY Sequences
<1> QED  BY <1>1, <1>2, <1>3, Zenon DEF Texts, null, NewUser, NewHost, NewPort

\* Texts put together are a text.
LEMMA TextsJoin ==
  ASSUME NEW a \in Texts, NEW b \in Texts
  PROVE  a \o b \in Texts
  BY ConcatProperties DEF Texts

\* What a token is rendered as is one argument or two.
LEMMA RenderTyped ==
  ASSUME NEW t \in Tokens
  PROVE  Render(t) \in Seq(Texts)
<1>1. t.kind \in Kinds /\ t.flag \in Texts /\ t.value \in Texts /\ t.joined \in BOOLEAN
  BY DEF Tokens
<1>2. CASE t.kind = "flag-value"
  <2>1. Render(t) = IF t.joined THEN <<t.flag \o t.value>> ELSE <<t.flag, t.value>>
    BY <1>2 DEF Render
  <2>2. t.flag \o t.value \in Texts
    BY <1>1, TextsJoin
  <2> QED  BY <1>1, <2>1, <2>2, Sequences
<1>3. CASE t.kind = "option"
  <2> DEFINE set == t.flag \o <<"=">> \o t.value
             both == <<"-o">> \o set
  <2>1. Render(t) = IF t.joined THEN <<both>> ELSE <<<<"-o">>, set>>
    BY <1>3 DEF Render
  <2>2. set \in Texts
    <3>1. t.flag \o <<"=">> \in Texts
      BY <1>1, TextsAre, TextsJoin, Zenon
    <3> QED  BY <1>1, <3>1, TextsJoin, Zenon
  <2>3. both \in Texts /\ <<"-o">> \in Texts
    <3> HIDE DEF set
    <3> QED  BY <2>2, TextsAre, TextsJoin, Zenon
  <2> HIDE DEF set, both
  <2> QED  BY <2>1, <2>2, <2>3
<1>4. CASE t.kind \notin {"flag-value", "option"}
  <2>1. Render(t) = <<t.value>>
    BY <1>4 DEF Render
  <2> QED  BY <1>1, <2>1
<1> QED  BY <1>2, <1>3, <1>4

\* The places of a part are places, with a first and a last if there is one.
LEMMA PositionsAre ==
  ASSUME NEW s \in Texts, NEW part, Positions(s, part) # {}
  PROVE  /\ FirstAt(s, part) \in 1..Len(s) /\ s[FirstAt(s, part)] = part
         /\ LastAt(s, part) \in 1..Len(s)
<1> DEFINE P == Positions(s, part)
           N == {Len(s) - k : k \in P}
<1>1. Len(s) \in Nat /\ \A k \in P : k \in 1..Len(s) /\ s[k] = part
  BY DEF Positions, Texts
<1>2. P \in SUBSET Nat /\ N \in SUBSET Nat /\ N # {}
  BY <1>1 DEF Texts
<1>3. FirstAt(s, part) \in P
  <2> HIDE DEF P
  <2> QED  BY <1>2, MinIsFirst DEF FirstAt, P
<1>4. LastAt(s, part) \in P
  <2>1. Min(N) \in N /\ \A m \in N : Min(N) <= m
    <3> HIDE DEF N, P
    <3> QED  BY <1>2, MinIsFirst
  <2>2. PICK k \in P : Min(N) = Len(s) - k
    BY <2>1
  <2>3. \A l \in P : k >= l
    <3> TAKE l \in P
    <3>1. Len(s) - l \in N
      OBVIOUS
    <3> HIDE DEF N, P
    <3> QED  BY <1>1, <2>1, <2>2, <3>1
  <2>4. Max(P) = k
    <3> HIDE DEF P
    <3> QED  BY <1>2, <2>3, MaxIs
  <2> QED  BY <2>2, <2>4 DEF LastAt
<1> QED  BY <1>1, <1>3, <1>4

\* The two sides of a place of a text are texts, and spell it with what is there.
LEMMA SidesOf ==
  ASSUME NEW s \in Texts, NEW k \in 1..Len(s)
  PROVE  /\ Before(s, k) \in Texts /\ After(s, k) \in Texts
         /\ Before(s, k) \o <<s[k]>> \o After(s, k) = s
<1>1. Before(s, k) \in Texts /\ After(s, k) \in Texts
  BY DEF Before, After, Texts
<1>2. Before(s, k) \o <<s[k]>> = SubSeq(s, 1, k)
  BY SubSeqRecursiveSecond DEF Before, Texts
<1>3. SubSeq(s, 1, k) \o After(s, k) = SubSeq(s, 1, Len(s))
  BY ConcatAdjacentSubSeq DEF After, Texts
<1>4. SubSeq(s, 1, Len(s)) = s
  BY SubSeqFull DEF Texts
<1> QED  BY <1>1, <1>2, <1>3, <1>4

\* The user and the host of a destination are texts.
LEMMA DestinationTyped ==
  ASSUME NEW raw \in Texts
  PROVE  SplitDestination(raw).user \in Texts /\ SplitDestination(raw).host \in Texts
<1>1. null \in Texts
  BY TextsAre
<1>2. ASSUME NEW s \in Texts
      PROVE  HostPort(s).host \in Texts
  <2>1. CASE Starts(s, {"["}) /\ Positions(s, "]") # {}
    <3>1. HostPort(s).host = SubSeq(s, 2, FirstAt(s, "]") - 1)
      BY <2>1 DEF HostPort
    <3>2. FirstAt(s, "]") \in 1..Len(s)
      BY <2>1, PositionsAre
    <3>3. SubSeq(s, 2, FirstAt(s, "]") - 1) \in Texts
      BY <3>2 DEF Texts
    <3> QED  BY <3>1, <3>3
  <2>2. CASE /\ ~(Starts(s, {"["}) /\ Positions(s, "]") # {})
             /\ Positions(s, ":") # {} /\ Len(s) = LastAt(s, ":") + 1 /\ Last(s) \in Digits
    <3>1. HostPort(s).host = Before(s, LastAt(s, ":"))
      BY <2>2 DEF HostPort
    <3>2. LastAt(s, ":") \in 1..Len(s)
      BY <2>2, PositionsAre
    <3>3. Before(s, LastAt(s, ":")) \in Texts
      BY <3>2, SidesOf
    <3> QED  BY <3>1, <3>3
  <2>3. CASE /\ ~(Starts(s, {"["}) /\ Positions(s, "]") # {})
             /\ ~(Positions(s, ":") # {} /\ Len(s) = LastAt(s, ":") + 1 /\ Last(s) \in Digits)
    BY <2>3 DEF HostPort
  <2> QED  BY <2>1, <2>2, <2>3
<1> DEFINE uri == Starts(raw, {"ssh://"})
           body == IF uri THEN Tail(raw) ELSE raw
           named == Positions(body, "@") # {}
           rest == IF named THEN After(body, FirstAt(body, "@")) ELSE body
<1>3. body \in Texts
  <2>1. CASE uri
    BY <2>1, HeadTailProperties DEF Texts, Starts
  <2>2. CASE ~uri
    BY <2>2
  <2> QED  BY <2>1, <2>2
<1>4. /\ SplitDestination(raw).user = IF named THEN Before(body, FirstAt(body, "@")) ELSE null
      /\ SplitDestination(raw).host = IF uri THEN HostPort(rest).host ELSE rest
  BY DEF SplitDestination
<1> HIDE DEF body, uri
<1>5. rest \in Texts /\ (named => Before(body, FirstAt(body, "@")) \in Texts)
  BY <1>3, PositionsAre, SidesOf
<1> HIDE DEF rest, named
<1> QED  BY <1>1, <1>2, <1>4, <1>5

\* The parts of a text that begins with one.
LEMMA BeginsWith ==
  ASSUME NEW s \in Texts, s # <<>>
  PROVE  Len(s) \in Nat /\ Len(s) >= 1 /\ s[1] \in Parts /\ Tail(s) \in Texts /\ <<s[1]>> \o Tail(s) = s
<1>1. Len(s) \in Nat /\ Len(s) >= 1
  BY DEF Texts
<1>2. s[1] \in Parts /\ Tail(s) \in Texts
  BY <1>1, HeadTailProperties DEF Texts
<1>3. Tail(s) = SubSeq(s, 2, Len(s))
  BY TailIsSubSeq DEF Texts
<1>4. SubSeq(s, 1, Len(s)) = <<s[1]>> \o SubSeq(s, 2, Len(s))
  BY <1>1, SubSeqRecursiveFirst DEF Texts
<1>5. SubSeq(s, 1, Len(s)) = s
  BY SubSeqFull DEF Texts
<1> QED  BY <1>1, <1>2, <1>3, <1>4, <1>5

\* Two elements are one and one more.
LEMMA OneBehind ==
  ASSUME NEW S, NEW x \in S, NEW y \in S
  PROVE  Append(<<x>>, y) = <<x, y>>
<1>1. <<x>> \in Seq(S) /\ Len(<<x>>) = 1 /\ <<x>>[1] = x
  OBVIOUS
<1>2. /\ Append(<<x>>, y) \in Seq(S) /\ Len(Append(<<x>>, y)) = 2
      /\ Append(<<x>>, y)[1] = x /\ Append(<<x>>, y)[2] = y
  BY <1>1, AppendProperties
<1>3. /\ <<x, y>> \in Seq(S) /\ Len(<<x, y>>) = 2
      /\ <<x, y>>[1] = x /\ <<x, y>>[2] = y
  OBVIOUS
<1>4. \A j \in 1..2 : j = 1 \/ j = 2
  OBVIOUS
<1> QED  BY <1>2, <1>3, <1>4, SeqEqual

\* One argument or two of an argv, and what they flatten to.
LEMMA OneOrTwo ==
  ASSUME NEW a \in Seq(Texts), NEW m \in 1..Len(a)
  PROVE  /\ SubSeq(a, m, m) = <<a[m]>>
         /\ m < Len(a) => SubSeq(a, m, m + 1) = <<a[m], a[m + 1]>>
<1> a[m] \in Texts /\ Len(a) \in Nat
  OBVIOUS
<1>1. SubSeq(a, m, m) = <<a[m]>>
  <2>1. /\ SubSeq(a, m, m) \in Seq(Texts) /\ Len(SubSeq(a, m, m)) = 1
        /\ SubSeq(a, m, m)[1] = a[m]
    OBVIOUS
  <2>2. <<a[m]>> \in Seq(Texts) /\ Len(<<a[m]>>) = 1 /\ <<a[m]>>[1] = a[m]
    OBVIOUS
  <2>3. \A j \in 1..1 : j = 1
    OBVIOUS
  <2> QED  BY <2>1, <2>2, <2>3, SeqEqual
<1>2. ASSUME m < Len(a)
      PROVE  SubSeq(a, m, m + 1) = <<a[m], a[m + 1]>>
  <2>1. m + 1 \in 1..Len(a) /\ m + 1 \in m..Len(a) /\ (m + 1) - 1 = m
    BY <1>2
  <2>2. SubSeq(a, m, m + 1) = SubSeq(a, m, (m + 1) - 1) \o <<a[m + 1]>>
    BY <2>1, SubSeqRecursiveSecond
  <2>3. SubSeq(a, m, m + 1) = <<a[m]>> \o <<a[m + 1]>>
    BY <1>1, <2>1, <2>2
  <2>4. a[m + 1] \in Texts /\ <<a[m]>> \in Seq(Texts)
    BY <2>1
  <2>5. <<a[m]>> \o <<a[m + 1]>> = Append(<<a[m]>>, a[m + 1])
    BY <2>4, AppendIsConcat
  <2>6. Append(<<a[m]>>, a[m + 1]) = <<a[m], a[m + 1]>>
    BY <2>4, OneBehind
  <2> QED  BY <2>3, <2>5, <2>6
<1> QED  BY <1>1, <1>2

\* One or two pieces of text flatten to one.
LEMMA FlattenOneOrTwo ==
  ASSUME NEW x \in Texts, NEW y \in Texts
  PROVE  FlattenSeq(<<x>>) = x /\ FlattenSeq(<<x, y>>) = x \o y
<1>1. /\ <<>> \in Seq(Seq(Parts)) /\ <<x>> \in Seq(Seq(Parts))
      /\ <<x>> = Append(<<>>, x) /\ <<x, y>> = Append(<<x>>, y)
  <2>1. <<x>> = Append(<<>>, x)
    BY DEF Texts
  <2>2. <<>> \in Seq(Seq(Parts)) /\ <<x>> \in Seq(Seq(Parts))
    BY DEF Texts
  <2> QED  BY <2>1, <2>2, OneBehind
<1>2. FlattenSeq(<<x>>) = <<>> \o x
  BY <1>1, FlattenAppend, Zenon DEF Texts
<1>3. <<>> \o x = x
  BY ConcatEmptySeq DEF Texts
<1>4. FlattenSeq(<<x, y>>) = x \o y
  BY <1>1, <1>2, <1>3, FlattenAppend, Zenon DEF Texts
<1> QED  BY <1>2, <1>3, <1>4

---------------------------------------------------------------------------
(* Where the arguments of a token start.                                   *)

Rendered(ts, n) == [j \in 1..n |-> Render(ts[j])]
From(ts, k) == 1 + Len(FlattenSeq(Rendered(ts, k - 1)))

\* A token renders to texts, so do any number of tokens.
LEMMA RenderedTyped ==
  ASSUME NEW ts \in Seq(Tokens), NEW n \in 0..Len(ts)
  PROVE  /\ Rendered(ts, n) \in Seq(Seq(Texts))
         /\ FlattenSeq(Rendered(ts, n)) \in Seq(Texts)
         /\ From(ts, n + 1) \in Nat /\ From(ts, n + 1) >= 1
<1>1. n \in Nat /\ \A j \in 1..n : ts[j] \in Tokens
  OBVIOUS
<1>2. \A j \in 1..n : Render(ts[j]) \in Seq(Texts)
  BY <1>1, RenderTyped
<1>3. Rendered(ts, n) \in Seq(Seq(Texts))
  BY <1>1, <1>2 DEF Rendered
<1>4. FlattenSeq(Rendered(ts, n)) \in Seq(Texts)
  BY <1>3, FlattenTyped
<1>5. From(ts, n + 1) = 1 + Len(FlattenSeq(Rendered(ts, n)))
  BY <1>1 DEF From
<1> QED  BY <1>3, <1>4, <1>5

\* One more token starts behind the others and moves none of them.
LEMMA FromAppend ==
  ASSUME NEW ts \in Seq(Tokens), NEW t \in Tokens
  PROVE  /\ \A k \in 1..(Len(ts) + 1) : From(Append(ts, t), k) = From(ts, k)
         /\ From(Append(ts, t), Len(ts) + 2) = From(ts, Len(ts) + 1) + Len(Render(t))
<1> DEFINE us == Append(ts, t)
           n == Len(ts)
<1>1. n \in Nat /\ us[n + 1] = t /\ \A j \in 1..n : us[j] = ts[j]
  OBVIOUS
<1>2. \A k \in 1..(n + 1) : From(us, k) = From(ts, k)
  <2> HIDE DEF us, n
  <2> TAKE k \in 1..(n + 1)
  <2>1. Rendered(us, k - 1) = Rendered(ts, k - 1)
    BY <1>1 DEF Rendered
  <2> QED  BY <2>1 DEF From
<1>3. From(us, n + 2) = From(ts, n + 1) + Len(Render(t))
  <2> DEFINE r == Rendered(ts, n)
  <2>1. r \in Seq(Seq(Texts)) /\ FlattenSeq(r) \in Seq(Texts) /\ Render(t) \in Seq(Texts)
    BY <1>1, RenderedTyped, RenderTyped
  <2>2. r = [j \in 1..n |-> Render(ts[j])] /\ Rendered(us, n + 1) = [j \in 1..(n + 1) |-> Render(us[j])]
    BY Zenon DEF Rendered
  <2>3. Rendered(us, n + 1) = Append(r, Render(t))
    <3>1. Len(r) = n
      BY <1>1, <2>2
    <3> HIDE DEF us, n, r
    <3>2. Rendered(us, n + 1) \in Seq(Seq(Texts)) /\ Len(Rendered(us, n + 1)) = n + 1
      <4>1. us \in Seq(Tokens) /\ n + 1 \in 0..Len(us)
        BY DEF us, n
      <4>2. Rendered(us, n + 1) \in Seq(Seq(Texts))
        BY <4>1, RenderedTyped
      <4>3. DOMAIN Rendered(us, n + 1) = 1..(n + 1)
        BY <2>2
      <4> QED  BY <1>1, <4>2, <4>3
    <3>3. Append(r, Render(t)) \in Seq(Seq(Texts)) /\ Len(Append(r, Render(t))) = n + 1
      BY <2>1, <3>1
    <3>4. ASSUME NEW j \in 1..(n + 1)
          PROVE  Rendered(us, n + 1)[j] = Append(r, Render(t))[j]
      <4>1. CASE j = n + 1
        BY <1>1, <2>1, <2>2, <3>1, <4>1
      <4>2. CASE j # n + 1
        <5>1. j \in 1..n
          BY <1>1, <4>2
        <5>2. r[j] = Render(ts[j]) /\ Rendered(us, n + 1)[j] = Render(us[j])
          BY <2>2, <5>1
        <5>3. Append(r, Render(t))[j] = r[j]
          BY <2>1, <3>1, <5>1
        <5> QED  BY <1>1, <5>1, <5>2, <5>3
      <4> QED  BY <4>1, <4>2
    <3> QED  BY <3>2, <3>3, <3>4, SeqEqual, Zenon
  <2>4. FlattenSeq(Rendered(us, n + 1)) = FlattenSeq(r) \o Render(t)
    <3> HIDE DEF us, n, r
    <3> QED  BY <2>1, <2>3, FlattenAppend, Zenon
  <2>5. Len(FlattenSeq(r) \o Render(t)) = Len(FlattenSeq(r)) + Len(Render(t))
    <3> HIDE DEF us, n, r
    <3> QED  BY <2>1, ConcatProperties
  <2>6. From(us, n + 2) = 1 + Len(FlattenSeq(Rendered(us, n + 1)))
    <3> HIDE DEF us
    <3> QED  BY <1>1 DEF From
  <2>7. From(ts, n + 1) = 1 + Len(FlattenSeq(r))
    BY <1>1 DEF From
  <2>8. Len(FlattenSeq(r)) \in Nat /\ Len(Render(t)) \in Nat
    BY <2>1
  <2> HIDE DEF us, n, r
  <2>9. From(us, n + 2) = 1 + (Len(FlattenSeq(r)) + Len(Render(t)))
    BY <2>4, <2>5, <2>6, Zenon
  <2> QED  BY <2>7, <2>8, <2>9
<1> QED  BY <1>2, <1>3

---------------------------------------------------------------------------
(* The loop.  Every branch reads one or two arguments as one token that    *)
(* stands for them; a token so pushed leaves those before it in place.     *)

\* The token t stands for the w arguments of a from m on.
StandsFor(t, a, m, w) ==
  IF t.kind = "destination"
    THEN t.flag = SplitDestination(a[m]).host /\ t.value = SplitDestination(a[m]).user
    ELSE \/ Render(t) = SubSeq(a, m, m + w - 1)
         \/ /\ t.kind = "option" /\ t.value = <<>>
            /\ FlattenSeq(Render(t)) = Append(FlattenSeq(SubSeq(a, m, m + w - 1)), "=")

Stands(ts, a, k) == StandsFor(ts[k], a, From(ts, k), From(ts, k + 1) - From(ts, k))

\* The tokens read from a stand for all of it before the argument m.
Read(ts, a, m) ==
  /\ a \in Seq(Texts) /\ ts \in Seq(Tokens)
  /\ m \in 1..(Len(a) + 1) /\ m = From(ts, Len(ts) + 1)
  /\ \A k \in 1..Len(ts) : Stands(ts, a, k)

\* What is read stands for what was read: Lossless.
LEMMA ReadIsLossless ==
  ASSUME Read(tokens, argv, i)
  PROVE  Lossless
<1>1. \A k \in 1..(Len(tokens) + 1) : From(tokens, k) \in Nat /\ StartOf(k) = From(tokens, k)
  <2> TAKE k \in 1..(Len(tokens) + 1)
  <2>1. k - 1 \in 0..Len(tokens) /\ (k - 1) + 1 = k
    BY DEF Read
  <2>2. From(tokens, k) \in Nat
    BY <2>1, RenderedTyped DEF Read
  <2> QED  BY <2>2 DEF StartOf, From, Rendered
<1>2. DOMAIN tokens = 1..Len(tokens) /\ Len(tokens) \in Nat
  BY DEF Read
<1>3. i = StartOf(Len(tokens) + 1)
  BY <1>1, <1>2 DEF Read
<1>4. ASSUME NEW k \in DOMAIN tokens
      PROVE  IF tokens[k].kind = "destination"
               THEN LET d == SplitDestination(argv[StartOf(k)])
                    IN  tokens[k].flag = d.host /\ tokens[k].value = d.user
               ELSE \/ Render(tokens[k]) = ArgsOf(k)
                    \/ /\ tokens[k].kind = "option" /\ tokens[k].value = <<>>
                       /\ FlattenSeq(Render(tokens[k])) = Append(FlattenSeq(ArgsOf(k)), "=")
  <2>1. /\ StartOf(k) = From(tokens, k) /\ StartOf(k + 1) = From(tokens, k + 1)
        /\ From(tokens, k) \in Nat /\ From(tokens, k + 1) \in Nat
    BY <1>1, <1>2
  <2>2. ArgsOf(k) = SubSeq(argv, StartOf(k), StartOf(k + 1) - 1)
    BY DEF ArgsOf
  <2>3. From(tokens, k) + (From(tokens, k + 1) - From(tokens, k)) - 1 = StartOf(k + 1) - 1
    BY <2>1
  <2>4. StandsFor(tokens[k], argv, From(tokens, k), From(tokens, k + 1) - From(tokens, k))
    BY <1>2 DEF Read, Stands
  <2> QED  BY <2>1, <2>2, <2>3, <2>4, Zenon DEF StandsFor
<1> QED  BY <1>3, <1>4, Zenon DEF Lossless

\* What a branch of the loop does: the token of the next argument, or of two.
Consumes(t, w, a, m) ==
  /\ t \in Tokens /\ w \in {1, 2} /\ m + w - 1 <= Len(a)
  /\ Len(Render(t)) = w
  /\ StandsFor(t, a, m, w)

\* One more token for the next one or two arguments.
LEMMA ReadOn ==
  ASSUME NEW ts, NEW a, NEW m, Read(ts, a, m), NEW t, NEW w, Consumes(t, w, a, m)
  PROVE  Read(Append(ts, t), a, m + w)
<1> DEFINE us == Append(ts, t)
           n == Len(ts)
<1>1. /\ ts \in Seq(Tokens) /\ t \in Tokens /\ n \in Nat /\ m \in Nat /\ w \in 1..2
      /\ a \in Seq(Texts) /\ Len(a) \in Nat /\ m \in 1..(Len(a) + 1) /\ m + w - 1 <= Len(a)
  BY DEF Read, Consumes
<1>2. us \in Seq(Tokens) /\ Len(us) = n + 1 /\ us[n + 1] = t /\ \A k \in 1..n : us[k] = ts[k]
  BY <1>1
<1>3. /\ \A k \in 1..(n + 1) : From(us, k) = From(ts, k)
      /\ From(us, n + 2) = m + w /\ From(us, n + 1) = m
  <2>1. m = From(ts, n + 1) /\ Len(Render(t)) = w
    BY DEF Read, Consumes
  <2>2. /\ \A k \in 1..(n + 1) : From(us, k) = From(ts, k)
        /\ From(us, n + 2) = From(ts, n + 1) + Len(Render(t))
    BY <1>1, FromAppend
  <2> HIDE DEF us, n
  <2>3. n + 1 \in 1..(n + 1)
    BY <1>1
  <2> QED  BY <2>1, <2>2, <2>3
<1> HIDE DEF us, n
<1>4. m + w \in 1..(Len(a) + 1) /\ m + w = From(us, Len(us) + 1)
  <2>1. Len(us) + 1 = n + 2
    BY <1>1, <1>2
  <2> QED  BY <1>1, <1>3, <2>1
<1>5. ASSUME NEW k \in 1..Len(us)
      PROVE  Stands(us, a, k)
  <2>1. CASE k \in 1..n
    <3>1. k \in 1..(n + 1) /\ k + 1 \in 1..(n + 1)
      BY <1>1, <2>1
    <3>2. Stands(ts, a, k)
      BY <2>1 DEF Read, n
    <3> QED  BY <1>2, <1>3, <2>1, <3>1, <3>2, Zenon DEF Stands
  <2>2. CASE k \notin 1..n
    <3>1. k = n + 1 /\ k + 1 = n + 2 /\ (m + w) - m = w
      BY <1>1, <1>2, <2>2
    <3>2. StandsFor(t, a, m, w)
      BY DEF Consumes
    <3>3. us[k] = t /\ From(us, k) = m /\ From(us, k + 1) = m + w
      BY <1>2, <1>3, <3>1
    <3> QED  BY <3>1, <3>2, <3>3, Zenon DEF Stands
  <2> QED  BY <2>1, <2>2
<1> QED  BY <1>1, <1>2, <1>4, <1>5 DEF Read, us

\* A word that goes on as it is: a command's, a flag's, "--".
LEMMA WordConsumed ==
  ASSUME NEW a \in Seq(Texts), NEW m \in 1..Len(a),
         NEW kind \in {"flag", "command", "double-dash"}
  PROVE  Consumes(Token(kind, <<>>, a[m], FALSE), 1, a, m)
<1> DEFINE t == Token(kind, <<>>, a[m], FALSE)
<1>1. a[m] \in Texts /\ Len(a) \in Nat /\ m + 1 - 1 = m
  OBVIOUS
<1>2. kind \in Kinds /\ kind \notin {"flag-value", "option", "destination"}
  BY DEF Kinds
<1>3. t \in Tokens /\ t.kind = kind /\ t.value = a[m]
  <2> DEFINE r == [kind |-> kind, flag |-> <<>>, value |-> a[m], joined |-> FALSE]
  <2>a. t = r
    BY Zenon DEF Token
  <2>b. r \in Tokens
    BY <1>1, <1>2, TextsAre DEF Tokens, Kinds
  <2>c. r.kind = kind /\ r.flag = <<>> /\ r.value = a[m] /\ ~r.joined
    OBVIOUS
  <2> QED  BY <2>a, <2>b, <2>c, Zenon
<1> HIDE DEF t
<1>5. Render(t) = <<a[m]>>
  BY <1>2, <1>3 DEF Render
<1>6. SubSeq(a, m, m) = <<a[m]>> /\ Len(<<a[m]>>) = 1
  BY OneOrTwo
<1>7. StandsFor(t, a, m, 1)
  BY <1>1, <1>2, <1>3, <1>5, <1>6 DEF StandsFor
<1>8. Consumes(t, 1, a, m)
  BY <1>1, <1>3, <1>5, <1>6, <1>7 DEF Consumes
<1> QED  BY <1>8 DEF t

\* The destination.
LEMMA DestinationConsumed ==
  ASSUME NEW a \in Seq(Texts), NEW m \in 1..Len(a)
  PROVE  Consumes(Token("destination", SplitDestination(a[m]).host,
                        SplitDestination(a[m]).user, FALSE), 1, a, m)
<1> DEFINE h == SplitDestination(a[m]).host
           u == SplitDestination(a[m]).user
           t == Token("destination", h, u, FALSE)
<1>1. a[m] \in Texts /\ Len(a) \in Nat /\ m + 1 - 1 = m
  OBVIOUS
<1>2. h \in Texts /\ u \in Texts
  BY <1>1, DestinationTyped
<1>3. /\ t \in Tokens /\ t.kind = "destination" /\ t.flag = h /\ t.value = u
  <2> HIDE DEF h, u
  <2> DEFINE r == [kind |-> "destination", flag |-> h, value |-> u, joined |-> FALSE]
  <2>a. t = r
    BY Zenon DEF Token
  <2>b. r \in Tokens
    BY <1>2 DEF Tokens, Kinds
  <2>c. r.kind = "destination" /\ r.flag = h /\ r.value = u /\ ~r.joined
    OBVIOUS
  <2> QED  BY <2>a, <2>b, <2>c, Zenon
<1> HIDE DEF t
<1>4. StandsFor(t, a, m, 1)
  BY <1>3, Zenon DEF StandsFor
<1> HIDE DEF h, u
<1>5. Render(t) = <<u>> /\ Len(<<u>>) = 1
  BY <1>3 DEF Render
<1>6. Consumes(t, 1, a, m)
  BY <1>1, <1>3, <1>4, <1>5 DEF Consumes
<1> QED  BY <1>6, Zenon DEF t, h, u

\* A flag and its value, in two arguments or in one.
LEMMA ValueConsumed ==
  ASSUME NEW a \in Seq(Texts), NEW m \in 1..Len(a), a[m] # <<>>
  PROVE  /\ Len(a[m]) = 1 /\ m < Len(a) =>
              Consumes(Token("flag-value", <<a[m][1]>>, a[m + 1], FALSE), 2, a, m)
         /\ Consumes(Token("flag-value", <<a[m][1]>>, Tail(a[m]), TRUE), 1, a, m)
<1>1. a[m] \in Texts /\ Len(a) \in Nat /\ m + 1 - 1 = m /\ m + 2 - 1 = m + 1
  OBVIOUS
<1>2. /\ a[m][1] \in Parts /\ Tail(a[m]) \in Texts /\ <<a[m][1]>> \o Tail(a[m]) = a[m]
      /\ Len(a[m]) \in Nat
  BY <1>1, BeginsWith
<1>3. <<a[m][1]>> \in Texts
  BY <1>2, Sequences DEF Texts
<1>4. ASSUME Len(a[m]) = 1, m < Len(a)
      PROVE  Consumes(Token("flag-value", <<a[m][1]>>, a[m + 1], FALSE), 2, a, m)
  <2> DEFINE t == Token("flag-value", <<a[m][1]>>, a[m + 1], FALSE)
  <2>1. a[m + 1] \in Texts
    BY <1>4
  <2>2. a[m] = <<a[m][1]>>
    BY <1>1, <1>4 DEF Texts
  <2>4. t \in Tokens /\ t.kind = "flag-value" /\ t.flag = <<a[m][1]>> /\ t.value = a[m + 1] /\ ~t.joined
    <3> DEFINE r == [kind |-> "flag-value", flag |-> <<a[m][1]>>, value |-> a[m + 1], joined |-> FALSE]
    <3>a. t = r
      BY Zenon DEF Token
    <3>b. r \in Tokens
      BY <1>3, <2>1 DEF Tokens, Kinds
    <3>c. r.kind = "flag-value" /\ r.flag = <<a[m][1]>> /\ r.value = a[m + 1] /\ ~r.joined
      OBVIOUS
    <3> QED  BY <3>a, <3>b, <3>c, Zenon
  <2> HIDE DEF t
  <2>5. t.kind = "flag-value" /\ ~t.joined /\ t.flag = a[m] /\ t.value = a[m + 1]
    BY <2>2, <2>4, Zenon
  <2>6. Render(t) = <<a[m], a[m + 1]>>
    BY <2>5 DEF Render
  <2>7. SubSeq(a, m, m + 1) = <<a[m], a[m + 1]>> /\ Len(<<a[m], a[m + 1]>>) = 2
    BY <1>4, OneOrTwo
  <2>8. StandsFor(t, a, m, 2)
    BY <1>1, <2>5, <2>6, <2>7 DEF StandsFor
  <2>9. Consumes(t, 2, a, m)
    BY <1>1, <1>4, <2>4, <2>6, <2>7, <2>8 DEF Consumes
  <2> QED  BY <2>9 DEF t
<1>5. Consumes(Token("flag-value", <<a[m][1]>>, Tail(a[m]), TRUE), 1, a, m)
  <2> DEFINE t == Token("flag-value", <<a[m][1]>>, Tail(a[m]), TRUE)
  <2>2. t \in Tokens /\ t.kind = "flag-value" /\ t.flag = <<a[m][1]>> /\ t.value = Tail(a[m]) /\ t.joined
    <3> DEFINE r == [kind |-> "flag-value", flag |-> <<a[m][1]>>, value |-> Tail(a[m]), joined |-> TRUE]
    <3>a. t = r
      BY Zenon DEF Token
    <3>b. r \in Tokens
      BY <1>2, <1>3 DEF Tokens, Kinds
    <3>c. r.kind = "flag-value" /\ r.flag = <<a[m][1]>> /\ r.value = Tail(a[m]) /\ r.joined
      OBVIOUS
    <3> QED  BY <3>a, <3>b, <3>c, Zenon
  <2> HIDE DEF t
  <2>3. t.kind = "flag-value" /\ t.joined /\ t.flag = <<a[m][1]>> /\ t.value = Tail(a[m])
    BY <2>2, Zenon
  <2>4. Render(t) = <<a[m]>>
    BY <1>2, <2>3 DEF Render
  <2>5. SubSeq(a, m, m) = <<a[m]>> /\ Len(<<a[m]>>) = 1
    BY OneOrTwo
  <2>6. StandsFor(t, a, m, 1)
    BY <1>1, <2>3, <2>4, <2>5 DEF StandsFor
  <2>7. Consumes(t, 1, a, m)
    BY <1>1, <2>2, <2>4, <2>5, <2>6 DEF Consumes
  <2> QED  BY <2>7 DEF t
<1> QED  BY <1>4, <1>5

\* The key and the value of an option: both sides of the first "=", or all of it.
Key(raw) == IF Positions(raw, "=") = {} THEN raw ELSE Before(raw, FirstAt(raw, "="))
Value(raw) == IF Positions(raw, "=") = {} THEN <<>> ELSE After(raw, FirstAt(raw, "="))

\* The two sides of an option make it up again, or with a "=" that it lacked.
LEMMA OptionSides ==
  ASSUME NEW raw \in Texts
  PROVE  LET set == Key(raw) \o <<"=">> \o Value(raw)
         IN  /\ Key(raw) \in Texts /\ Value(raw) \in Texts /\ set \in Texts
             /\ \/ set = raw
                \/ /\ Value(raw) = <<>>
                   /\ <<"-o">> \o set = Append(<<"-o">> \o raw, "=")
<1> DEFINE set == Key(raw) \o <<"=">> \o Value(raw)
<1>1. CASE Positions(raw, "=") = {}
  <2>1. Key(raw) = raw /\ Value(raw) = <<>>
    BY <1>1 DEF Key, Value
  <2>2. raw \o <<"=">> \in Texts /\ <<"-o">> \o raw \in Texts
    BY TextsAre, TextsJoin
  <2>3. set = raw \o <<"=">>
    <3>1. (raw \o <<"=">>) \o <<>> = raw \o <<"=">>
      BY <2>2, ConcatEmptySeq DEF Texts
    <3> QED  BY <2>1, <3>1, Zenon
  <2>4. <<"-o">> \o (raw \o <<"=">>) = (<<"-o">> \o raw) \o <<"=">>
    <3>1. <<"-o">> \in Seq(Parts) /\ <<"=">> \in Seq(Parts) /\ raw \in Seq(Parts)
      BY TextsAre DEF Texts
    <3> QED  BY <3>1, ConcatAssociative
  <2>5. (<<"-o">> \o raw) \o <<"=">> = Append(<<"-o">> \o raw, "=")
    <3>1. "=" \in Parts
      BY DEF Parts
    <3> DEFINE o == <<"-o">> \o raw
    <3>2. o \in Seq(Parts)
      BY <2>2 DEF Texts
    <3> HIDE DEF o
    <3>3. Append(o, "=") = o \o <<"=">>
      BY <3>1, <3>2, AppendIsConcat
    <3> QED  BY <3>3 DEF o
  <2>6. set \in Texts /\ <<"-o">> \o set = Append(<<"-o">> \o raw, "=")
    <3> HIDE DEF set
    <3> QED  BY <2>2, <2>3, <2>4, <2>5, Zenon
  <2>7. <<>> \in Texts
    BY TextsAre
  <2> HIDE DEF set
  <2> QED  BY <2>1, <2>6, <2>7, Zenon DEF set
<1>2. CASE Positions(raw, "=") # {}
  <2>1. FirstAt(raw, "=") \in 1..Len(raw) /\ raw[FirstAt(raw, "=")] = "="
    BY <1>2, PositionsAre
  <2>2. /\ Key(raw) = Before(raw, FirstAt(raw, "="))
        /\ Value(raw) = After(raw, FirstAt(raw, "="))
    BY <1>2, Zenon DEF Key, Value
  <2>3. /\ Before(raw, FirstAt(raw, "=")) \in Texts /\ After(raw, FirstAt(raw, "=")) \in Texts
        /\ Before(raw, FirstAt(raw, "=")) \o <<raw[FirstAt(raw, "=")]>> \o After(raw, FirstAt(raw, "=")) = raw
    BY <2>1, SidesOf
  <2>4. set = raw
    BY <2>1, <2>2, <2>3, Zenon
  <2> HIDE DEF set
  <2>5. set \in Texts /\ Key(raw) \in Texts /\ Value(raw) \in Texts
    BY <2>2, <2>3, <2>4, Zenon
  <2> QED  BY <2>4, <2>5, Zenon DEF set
<1> QED  BY <1>1, <1>2

\* An option, in two arguments or in one.
LEMMA OptionConsumed ==
  ASSUME NEW a \in Seq(Texts), NEW m \in 1..Len(a)
  PROVE  /\ a[m] = <<"-o">> /\ m < Len(a) =>
              Consumes(Token("option", Key(a[m + 1]), Value(a[m + 1]), FALSE), 2, a, m)
         /\ a[m] # <<>> /\ a[m][1] = "-o" =>
              Consumes(Token("option", Key(Tail(a[m])), Value(Tail(a[m])), TRUE), 1, a, m)
<1>1. a[m] \in Texts /\ Len(a) \in Nat /\ m + 1 - 1 = m /\ m + 2 - 1 = m + 1
  OBVIOUS
<1>2. ASSUME a[m] = <<"-o">>, m < Len(a)
      PROVE  Consumes(Token("option", Key(a[m + 1]), Value(a[m + 1]), FALSE), 2, a, m)
  <2> DEFINE raw == a[m + 1]
             k == Key(raw)
             v == Value(raw)
             set == k \o <<"=">> \o v
             t == Token("option", k, v, FALSE)
  <2>1. raw \in Texts
    BY <1>2
  <2>2. /\ k \in Texts /\ v \in Texts /\ set \in Texts
        /\ set = raw \/ (v = <<>> /\ <<"-o">> \o set = Append(<<"-o">> \o raw, "="))
    <3> HIDE DEF raw
    <3> QED  BY <2>1, OptionSides, Zenon
  <2>3. SubSeq(a, m, m + 1) = <<<<"-o">>, raw>>
    <3>1. SubSeq(a, m, m + 1) = <<a[m], a[m + 1]>>
      BY <1>2, OneOrTwo
    <3> QED  BY <1>2, <3>1, Zenon
  <2> HIDE DEF raw, k, v
  <2>4. t \in Tokens /\ t.kind = "option" /\ t.flag = k /\ t.value = v /\ ~t.joined
    <3> DEFINE r == [kind |-> "option", flag |-> k, value |-> v, joined |-> FALSE]
    <3>a. t = r
      BY Zenon DEF Token
    <3>b. r \in Tokens
      BY <2>2 DEF Tokens, Kinds
    <3>c. r.kind = "option" /\ r.flag = k /\ r.value = v /\ ~r.joined
      OBVIOUS
    <3> QED  BY <3>a, <3>b, <3>c, Zenon
  <2> HIDE DEF t
  <2>5. Render(t) = <<<<"-o">>, set>> /\ Len(Render(t)) = 2
    <3>1. Render(t) = <<<<"-o">>, set>>
      BY <2>4 DEF Render
    <3> HIDE DEF set
    <3>2. Len(<<<<"-o">>, set>>) = 2
      OBVIOUS
    <3> QED  BY <3>1, <3>2
  <2> HIDE DEF set
  <2>6. StandsFor(t, a, m, 2)
    <3>1. CASE set = raw
      BY <1>1, <2>3, <2>4, <2>5, <3>1 DEF StandsFor
    <3>2. CASE v = <<>> /\ <<"-o">> \o set = Append(<<"-o">> \o raw, "=")
      <4>1. FlattenSeq(<<<<"-o">>, set>>) = <<"-o">> \o set /\ FlattenSeq(<<<<"-o">>, raw>>) = <<"-o">> \o raw
        BY <2>1, <2>2, TextsAre, FlattenOneOrTwo, Zenon
      <4>2. FlattenSeq(Render(t)) = Append(FlattenSeq(SubSeq(a, m, m + 1)), "=")
        BY <2>3, <2>5, <3>2, <4>1, Zenon
      <4> QED  BY <1>1, <2>4, <3>2, <4>2 DEF StandsFor
    <3> QED  BY <2>2, <3>1, <3>2
  <2>7. Consumes(t, 2, a, m)
    BY <1>1, <1>2, <2>4, <2>5, <2>6 DEF Consumes
  <2> QED  BY <2>7, Zenon DEF t, k, v, raw
<1>3. ASSUME a[m] # <<>>, a[m][1] = "-o"
      PROVE  Consumes(Token("option", Key(Tail(a[m])), Value(Tail(a[m])), TRUE), 1, a, m)
  <2> DEFINE raw == Tail(a[m])
             k == Key(raw)
             v == Value(raw)
             set == k \o <<"=">> \o v
             t == Token("option", k, v, TRUE)
  <2>1. raw \in Texts /\ <<"-o">> \o raw = a[m]
    BY <1>1, <1>3, BeginsWith
  <2>2. /\ k \in Texts /\ v \in Texts /\ set \in Texts
        /\ set = raw \/ (v = <<>> /\ <<"-o">> \o set = Append(<<"-o">> \o raw, "="))
    <3> HIDE DEF raw
    <3> QED  BY <2>1, OptionSides, Zenon
  <2>3. SubSeq(a, m, m) = <<a[m]>>
    BY OneOrTwo
  <2> HIDE DEF raw, k, v
  <2>4. t \in Tokens /\ t.kind = "option" /\ t.flag = k /\ t.value = v /\ t.joined
    <3> DEFINE r == [kind |-> "option", flag |-> k, value |-> v, joined |-> TRUE]
    <3>a. t = r
      BY Zenon DEF Token
    <3>b. r \in Tokens
      BY <2>2 DEF Tokens, Kinds
    <3>c. r.kind = "option" /\ r.flag = k /\ r.value = v /\ r.joined
      OBVIOUS
    <3> QED  BY <3>a, <3>b, <3>c, Zenon
  <2> HIDE DEF t
  <2>5. Render(t) = <<<<"-o">> \o set>> /\ Len(Render(t)) = 1
    <3>1. Render(t) = <<<<"-o">> \o set>>
      BY <2>4 DEF Render
    <3> HIDE DEF set
    <3>2. Len(<<<<"-o">> \o set>>) = 1
      OBVIOUS
    <3> QED  BY <3>1, <3>2
  <2> HIDE DEF set
  <2>6. StandsFor(t, a, m, 1)
    <3>1. CASE set = raw
      <4>1. Render(t) = SubSeq(a, m, m)
        BY <2>1, <2>3, <2>5, <3>1, Zenon
      <4> QED  BY <1>1, <2>4, <4>1 DEF StandsFor
    <3>2. CASE v = <<>> /\ <<"-o">> \o set = Append(<<"-o">> \o raw, "=")
      <4>1. <<"-o">> \o set \in Texts
        BY <2>2, TextsAre, TextsJoin, Zenon
      <4>2. FlattenSeq(<<<<"-o">> \o set>>) = <<"-o">> \o set /\ FlattenSeq(<<a[m]>>) = a[m]
        BY <1>1, <4>1, FlattenOneOrTwo, Zenon
      <4>3. FlattenSeq(Render(t)) = Append(FlattenSeq(SubSeq(a, m, m)), "=")
        BY <2>1, <2>3, <2>5, <3>2, <4>2, Zenon
      <4> QED  BY <1>1, <2>4, <3>2, <4>3 DEF StandsFor
    <3> QED  BY <2>2, <3>1, <3>2
  <2>7. Consumes(t, 1, a, m)
    BY <1>1, <1>3, <2>4, <2>5, <2>6 DEF Consumes
  <2> QED  BY <2>7, Zenon DEF t, k, v, raw
<1> QED  BY <1>2, <1>3

---------------------------------------------------------------------------
(* What the parser keeps.                                                  *)

ParserInv ==
  /\ TypeOK
  /\ Read(tokens, argv, i)

\* A step that reads some arguments as the token that stands for them.
Reads ==
  /\ \E t, w : Consumes(t, w, argv, i) /\ tokens' = Append(tokens, t) /\ i' = i + w
  /\ destSeen' \in {destSeen, TRUE} /\ doubleDashSeen' \in {doubleDashSeen, TRUE}

\* Before the first argument nothing is read.
LEMMA NothingRead ==
  ASSUME NEW a \in Seq(Texts)
  PROVE  Read(<<>>, a, 1)
<1>1. <<>> \in Seq(Tokens) /\ Len(<<>>) = 0 /\ 1 \in 1..(Len(a) + 1)
  OBVIOUS
<1>2. Rendered(<<>>, 0) = <<>>
  BY DEF Rendered
<1>3. FlattenSeq(Rendered(<<>>, 0)) = <<>>
  BY <1>2, FlattenAppend, Zenon
<1>4. From(<<>>, 1) = 1
  BY <1>3 DEF From
<1> QED  BY <1>1, <1>4 DEF Read

\* Nothing is read at the start.
LEMMA ParserInit == Init => ParserInv
<1> SUFFICES ASSUME Init
             PROVE  ParserInv
  OBVIOUS
<1>1. Argvs \subseteq Seq(Texts)
  <2>1. STRING \subseteq Parts
    BY DEF Parts
  <2>2. Seq(STRING) \subseteq Texts
    BY <2>1, SeqMonotonic DEF Texts
  <2>3. Seq(Seq(STRING)) \subseteq Seq(Texts)
    BY <2>2, SeqMonotonic
  <2> QED  BY <2>3, ArgumentsAssumption
<1>2. PICK given \in Seq(Texts) : SshInit(given)
  <2>1. <<>> \in Seq(Texts)
    OBVIOUS
  <2> QED  BY <1>1, <2>1 DEF Init
<1>3. Read(tokens, argv, i)
  BY <1>2, NothingRead DEF SshInit
<1>4. question.what \in {"ssh", "match", "kubectl", "version"} /\ answer = none
  BY DEF Init
<1>5. /\ phase = "parse" /\ tokens = <<>> /\ i \in 1..(Len(argv) + 1)
      /\ {destSeen, doubleDashSeen} \subseteq BOOLEAN
  BY <1>2, <1>3 DEF SshInit, Read
<1>6. SshTypeOK
  BY <1>5 DEF SshTypeOK
<1> QED  BY <1>3, <1>4, <1>5, <1>6 DEF ParserInv, TypeOK

\* The argument a branch looks at.
LEMMA ArgIs ==
  ASSUME ParserInv, Parsing
  PROVE  /\ argv \in Seq(Texts) /\ i \in 1..Len(argv) /\ arg = argv[i] /\ arg \in Texts
         /\ Len(argv) \in Nat /\ i \in Nat
<1>1. argv \in Seq(Texts) /\ i \in 1..(Len(argv) + 1) /\ Len(argv) \in Nat
  BY DEF ParserInv, Read
<1>2. i \in 1..Len(argv)
  BY <1>1 DEF Parsing
<1>3. arg = argv[i]
  BY DEF arg
<1> QED  BY <1>1, <1>2, <1>3

\* One branch after the other.
LEMMA CommandReads == ParserInv /\ Parsing /\ Command => Reads
<1> SUFFICES ASSUME ParserInv, Parsing, Command
             PROVE  Reads
  OBVIOUS
<1>1. Consumes(Token("command", <<>>, arg, FALSE), 1, argv, i)
  BY ArgIs, WordConsumed
<1> QED  BY <1>1 DEF Command, Push, Reads

\* "--" is read as itself.
LEMMA DoubleDashReads == ParserInv /\ Parsing /\ arg = <<"--">> /\ DoubleDash => Reads
<1> SUFFICES ASSUME ParserInv, Parsing, arg = <<"--">>, DoubleDash
             PROVE  Reads
  OBVIOUS
<1>1. Consumes(Token("double-dash", <<>>, arg, FALSE), 1, argv, i)
  BY ArgIs, WordConsumed
<1> QED  BY <1>1 DEF DoubleDash, Push, Reads

\* A flag without a value is read as itself.
LEMMA FlagReads == ParserInv /\ Parsing /\ Flag => Reads
<1> SUFFICES ASSUME ParserInv, Parsing, Flag
             PROVE  Reads
  OBVIOUS
<1>1. Consumes(Token("flag", <<>>, arg, FALSE), 1, argv, i)
  BY ArgIs, WordConsumed
<1> QED  BY <1>1 DEF Flag, Push, Reads

\* The destination is read as its host and user.
LEMMA DestinationReads == ParserInv /\ Parsing /\ Destination => Reads
<1> SUFFICES ASSUME ParserInv, Parsing, Destination
             PROVE  Reads
  OBVIOUS
<1>1. Consumes(Token("destination", SplitDestination(arg).host, SplitDestination(arg).user, FALSE),
               1, argv, i)
  BY ArgIs, DestinationConsumed
<1> QED  BY <1>1 DEF Destination, Push, Reads

\* A flag with its value is read as both.
LEMMA ValueReads == ParserInv /\ Parsing /\ (SeparateValue \/ JoinedValue) => Reads
<1> SUFFICES ASSUME ParserInv, Parsing, SeparateValue \/ JoinedValue
             PROVE  Reads
  OBVIOUS
<1>1. CASE SeparateValue
  <2>1. arg # <<>> /\ Len(arg) = 1 /\ i < Len(argv) /\ FlagValue(arg[1], argv[i + 1], FALSE, 2)
    BY <1>1, Zenon DEF SeparateValue, Dashed, Starts, HasNext
  <2>2. Consumes(Token("flag-value", <<arg[1]>>, argv[i + 1], FALSE), 2, argv, i)
    BY <2>1, ArgIs, ValueConsumed
  <2> QED  BY <2>1, <2>2 DEF FlagValue, Push, Reads
<1>2. CASE JoinedValue
  <2>1. arg # <<>> /\ FlagValue(arg[1], Tail(arg), TRUE, 1)
    BY <1>2, Zenon DEF JoinedValue, Starts
  <2>2. Consumes(Token("flag-value", <<arg[1]>>, Tail(arg), TRUE), 1, argv, i)
    BY <2>1, ArgIs, ValueConsumed
  <2> QED  BY <2>1, <2>2 DEF FlagValue, Push, Reads
<1> QED  BY <1>1, <1>2

\* An option of -o is read as its name and what is set.
LEMMA OptionReads == ParserInv /\ Parsing /\ (SeparateOption \/ JoinedOption) => Reads
<1> SUFFICES ASSUME ParserInv, Parsing, SeparateOption \/ JoinedOption
             PROVE  Reads
  OBVIOUS
<1>1. ASSUME NEW raw, NEW joined, NEW w, Option(raw, joined, w)
      PROVE  /\ Push(Token("option", Key(raw), Value(raw), joined), w)
             /\ destSeen' = destSeen /\ doubleDashSeen' = doubleDashSeen
  BY <1>1, Zenon DEF Option, Key, Value
<1>2. CASE SeparateOption
  <2>1. arg = <<"-o">> /\ i < Len(argv) /\ Option(argv[i + 1], FALSE, 2)
    BY <1>2, Zenon DEF SeparateOption, HasNext
  <2>2. Consumes(Token("option", Key(argv[i + 1]), Value(argv[i + 1]), FALSE), 2, argv, i)
    BY <2>1, ArgIs, OptionConsumed
  <2>3. /\ Push(Token("option", Key(argv[i + 1]), Value(argv[i + 1]), FALSE), 2)
        /\ destSeen' = destSeen /\ doubleDashSeen' = doubleDashSeen
    BY <1>1, <2>1, Zenon
  <2>4. /\ tokens' = Append(tokens, Token("option", Key(argv[i + 1]), Value(argv[i + 1]), FALSE))
        /\ i' = i + 2
    BY <2>3, Zenon DEF Push
  <2>5. destSeen' \in {destSeen, TRUE} /\ doubleDashSeen' \in {doubleDashSeen, TRUE}
    BY <2>3
  <2> QED  BY <2>2, <2>4, <2>5, Zenon DEF Reads
<1>3. CASE JoinedOption
  <2>1. arg # <<>> /\ arg[1] = "-o" /\ Option(Tail(arg), TRUE, 1)
    BY <1>3 DEF JoinedOption, Starts
  <2>2. Consumes(Token("option", Key(Tail(arg)), Value(Tail(arg)), TRUE), 1, argv, i)
    BY <2>1, ArgIs, OptionConsumed
  <2>3. /\ Push(Token("option", Key(Tail(arg)), Value(Tail(arg)), TRUE), 1)
        /\ destSeen' = destSeen /\ doubleDashSeen' = doubleDashSeen
    BY <1>1, <2>1, Zenon
  <2>4. /\ tokens' = Append(tokens, Token("option", Key(Tail(arg)), Value(Tail(arg)), TRUE))
        /\ i' = i + 1
    BY <2>3, Zenon DEF Push
  <2>5. destSeen' \in {destSeen, TRUE} /\ doubleDashSeen' \in {doubleDashSeen, TRUE}
    BY <2>3
  <2> QED  BY <2>2, <2>4, <2>5, Zenon DEF Reads
<1> QED  BY <1>2, <1>3

\* So every step of the loop reads on.
LEMMA ParseArgReads == ParserInv /\ ParseArg => Reads
<1> SUFFICES ASSUME ParserInv, ParseArg
             PROVE  Reads
  OBVIOUS
<1>1. Parsing
  BY DEF ParseArg
<1>2. CASE AfterDoubleDash
  BY <1>1, <1>2, CommandReads, DestinationReads, Zenon DEF AfterDoubleDash
<1>3. CASE MeetDoubleDash
  BY <1>1, <1>3, DoubleDashReads, Zenon DEF MeetDoubleDash
<1>4. CASE RemoteCommand
  BY <1>1, <1>4, CommandReads, Zenon DEF RemoteCommand
<1>5. CASE SeparateOption \/ JoinedOption
  BY <1>1, <1>5, OptionReads, Zenon
<1>6. CASE SeparateValue \/ JoinedValue
  BY <1>1, <1>6, ValueReads, Zenon
<1>7. CASE DanglingFlag \/ PlainFlag
  BY <1>1, <1>7, FlagReads, Zenon DEF DanglingFlag, PlainFlag
<1>8. CASE Positional
  BY <1>1, <1>8, DestinationReads, Zenon DEF Positional
<1> QED  BY <1>2, <1>3, <1>4, <1>5, <1>6, <1>7, <1>8, Zenon DEF ParseArg

\* The argv made for the gateway is an argv.
LEMMA RewrittenTyped ==
  ASSUME tokens \in Seq(Tokens)
  PROVE  Rewritten \in Seq(Texts)
<1> DEFINE piece(k) == IF Drops(tokens[k]) THEN <<>>
                       ELSE IF tokens[k].kind = "destination" THEN <<NewUser \o <<"@">> \o NewHost>>
                       ELSE Render(tokens[k])
           pieces == [k \in DOMAIN tokens |-> piece(k)]
<1>1. <<<<"-p">>, NewPort>> \in Seq(Texts)
  BY TextsAre, Sequences
<1>2. <<NewUser \o <<"@">> \o NewHost>> \in Seq(Texts)
  <2> DEFINE address == NewUser \o <<"@">> \o NewHost
  <2>1. NewUser \o <<"@">> \in Texts
    BY TextsAre, TextsJoin, Zenon
  <2>2. address \in Texts
    BY <2>1, TextsAre, TextsJoin, Zenon
  <2> HIDE DEF address
  <2>3. <<address>> \in Seq(Texts)
    BY <2>2, Sequences
  <2> QED  BY <2>3 DEF address
<1>3. \A k \in DOMAIN tokens : piece(k) \in Seq(Texts)
  <2> TAKE k \in DOMAIN tokens
  <2>1. tokens[k] \in Tokens
    OBVIOUS
  <2>2. Render(tokens[k]) \in Seq(Texts)
    BY <2>1, RenderTyped
  <2>3. <<>> \in Seq(Texts)
    OBVIOUS
  <2> QED  BY <1>2, <2>2, <2>3, Zenon
<1>4. pieces \in Seq(Seq(Texts))
  <2>1. DOMAIN tokens = 1..Len(tokens) /\ Len(tokens) \in Nat
    OBVIOUS
  <2> HIDE DEF piece
  <2> QED  BY <1>3, <2>1
<1>5. FlattenSeq(pieces) \in Seq(Texts)
  <2> HIDE DEF pieces
  <2> QED  BY <1>4, FlattenTyped
<1>6. Rewritten = <<<<"-p">>, NewPort>> \o FlattenSeq(pieces)
  BY Zenon DEF Rewritten
<1> HIDE DEF pieces
<1> QED  BY <1>1, <1>5, <1>6, ConcatProperties

\* Every step of the parser, of the rewriting and of another question keeps it.
LEMMA ParserNext == ParserInv /\ [Next]_argumentVars => ParserInv'
<1> SUFFICES ASSUME ParserInv, [Next]_argumentVars
             PROVE  ParserInv'
  OBVIOUS
<1>1. ASSUME question.what = "ssh", question' = question, answer' = answer,
             phase' \in {"idle", "parse", "reparse", "done"}, Read(tokens', argv', i'),
             {destSeen', doubleDashSeen'} \subseteq BOOLEAN
      PROVE  ParserInv'
  <2>1. i' \in 1..(Len(argv') + 1) /\ tokens' \in Seq(Tokens)
    BY <1>1 DEF Read
  <2>2. \A k \in DOMAIN tokens' : tokens'[k].kind \in Kinds
    <3> TAKE k \in DOMAIN tokens'
    <3>1. tokens'[k] \in Tokens
      BY <2>1
    <3> QED  BY <3>1 DEF Tokens
  <2>3. SshTypeOK'
    BY <1>1, <2>1, <2>2 DEF SshTypeOK, Kinds
  <2>4. TypeOK'
    BY <1>1, <2>3 DEF ParserInv, TypeOK
  <2> QED  BY <1>1, <2>4, Zenon DEF ParserInv
<1>2. /\ phase \in {"idle", "parse", "reparse", "done"}
      /\ destSeen \in BOOLEAN /\ doubleDashSeen \in BOOLEAN
      /\ tokens \in Seq(Tokens) /\ Read(tokens, argv, i)
  BY DEF ParserInv, TypeOK, SshTypeOK, Read
<1>3. CASE question.what = "ssh" /\ SshNext /\ UNCHANGED <<question, answer>>
  <2>1. CASE ParseArg
    <3>1. phase' = phase /\ argv' = argv
      BY <2>1 DEF ParseArg
    <3>2. PICK t, w : Consumes(t, w, argv, i) /\ tokens' = Append(tokens, t) /\ i' = i + w
      BY <2>1, ParseArgReads, Zenon DEF Reads
    <3>3. Read(tokens', argv', i')
      <4>1. Read(Append(tokens, t), argv, i + w)
        BY <1>2, <3>2, ReadOn
      <4> QED  BY <3>1, <3>2, <4>1, Zenon
    <3>4. destSeen' \in BOOLEAN /\ doubleDashSeen' \in BOOLEAN
      <4>1. destSeen' \in {destSeen, TRUE} /\ doubleDashSeen' \in {doubleDashSeen, TRUE}
        BY <2>1, ParseArgReads, Zenon DEF Reads
      <4> QED  BY <1>2, <4>1
    <3> QED  BY <1>1, <1>2, <1>3, <3>1, <3>3, <3>4
  <2>2. CASE Rewrite
    <3>1. argv' \in Seq(Texts)
      BY <1>2, <2>2, RewrittenTyped, Zenon DEF Rewrite
    <3>2. tokens' = <<>> /\ i' = 1 /\ phase' = "reparse" /\ destSeen' = FALSE /\ doubleDashSeen' = FALSE
      BY <2>2 DEF Rewrite, Reset
    <3>3. Read(tokens', argv', i')
      BY <3>1, <3>2, NothingRead
    <3> QED  BY <1>1, <1>3, <3>2, <3>3
  <2>3. CASE Stop
    <3>1. /\ phase' = "done" /\ argv' = argv /\ tokens' = tokens /\ i' = i
          /\ destSeen' = destSeen /\ doubleDashSeen' = doubleDashSeen
      BY <2>3 DEF Stop, loop
    <3>2. Read(tokens', argv', i')
      BY <1>2, <3>1, Zenon
    <3> QED  BY <1>1, <1>2, <1>3, <3>1, <3>2
  <2> QED  BY <1>3, <2>1, <2>2, <2>3 DEF SshNext
<1>4. CASE Answer \/ UNCHANGED argumentVars
  <2>1. sshVars' = sshVars /\ question' = question /\ (question.what = "ssh" => answer' = answer)
    BY <1>4 DEF Answer, AnswerMatch, AnswerKubectl, AnswerVersion, argumentVars
  <2>2. /\ phase' = phase /\ argv' = argv /\ tokens' = tokens /\ i' = i
        /\ destSeen' = destSeen /\ doubleDashSeen' = doubleDashSeen
    BY <2>1 DEF sshVars, loop
  <2>3. Read(tokens', argv', i')
    BY <1>2, <2>2, Zenon
  <2>4. SshTypeOK'
    BY <2>2, Zenon DEF ParserInv, TypeOK, SshTypeOK
  <2>5. TypeOK'
    BY <2>1, <2>2, <2>4 DEF ParserInv, TypeOK
  <2> QED  BY <2>3, <2>5, Zenon DEF ParserInv
<1> QED  BY <1>3, <1>4 DEF Next

\* The parser's state keeps its type and no other question disturbs it.
THEOREM ArgumentsTyped == Spec => []TypeOK
<1>1. ParserInv => TypeOK
  BY DEF ParserInv
<1> QED  BY <1>1, ParserInit, ParserNext, PTL DEF Spec

\* For any argv, the tokens read so far are the arguments read so far, each once
\* and in order (parseSshArgs): no branch of its loop drops an argument, reads one
\* twice or joins two; the same of the argv made for the gateway.
THEOREM NothingIsLost == Spec => []Lossless
<1>1. ParserInv => Lossless
  BY ReadIsLossless DEF ParserInv
<1> QED  BY <1>1, ParserInit, ParserNext, PTL DEF Spec

---------------------------------------------------------------------------
(* The argv for the gateway, read again.                                   *)

\* A set of numbers up to n has a last one.
LEMMA LastOfSet ==
  ASSUME NEW n \in Nat, NEW K \in SUBSET (0..n), K # {}
  PROVE  \E k \in K : \A l \in K : l <= k
<1> DEFINE N == {n - k : k \in K}
<1>1. N \in SUBSET Nat /\ N # {}
  <2>1. \A k \in K : n - k \in Nat
    OBVIOUS
  <2> QED  BY <2>1
<1>2. Min(N) \in N /\ \A m \in N : Min(N) <= m
  <2> HIDE DEF N
  <2> QED  BY <1>1, MinIsFirst
<1>3. PICK k \in K : Min(N) = n - k
  BY <1>2
<1>4. ASSUME NEW l \in K
      PROVE  l <= k
  <2>1. n - l \in N
    OBVIOUS
  <2> HIDE DEF N
  <2>2. n - k <= n - l
    BY <1>2, <1>3, <2>1
  <2>3. k \in Int /\ l \in Int
    OBVIOUS
  <2> QED  BY <2>2, <2>3
<1> QED  BY <1>4

\* Each piece is in its place in what they all flatten to.
LEMMA FlattenHolds ==
  ASSUME NEW S, NEW f \in Seq(Seq(S)), NEW k \in 0..(Len(f) - 1),
         NEW at, at = Len(FlattenSeq(SubSeq(f, 1, k)))
  PROVE  /\ at \in Nat /\ Len(f[k + 1]) \in Nat
         /\ at + Len(f[k + 1]) <= Len(FlattenSeq(f))
         /\ \A j \in 1..Len(f[k + 1]) : FlattenSeq(f)[at + j] = f[k + 1][j]
<1> DEFINE n == Len(f)
           p == f[k + 1]
           G(m) == FlattenSeq(SubSeq(f, 1, m))
           Holds(m) == /\ at + Len(p) <= Len(G(m))
                       /\ \A j \in 1..Len(p) : G(m)[at + j] = p[j]
           T == {d \in 0..(n - k - 1) : Holds(k + 1 + d)}
<1>1. n \in Nat /\ k \in Nat /\ k + 1 \in 1..n /\ p \in Seq(S) /\ Len(p) \in Nat
  OBVIOUS
<1>2. \A m \in 0..n : G(m) \in Seq(S) /\ Len(G(m)) \in Nat
  <2> TAKE m \in 0..n
  <2>1. SubSeq(f, 1, m) \in Seq(Seq(S))
    OBVIOUS
  <2>2. G(m) \in Seq(S)
    BY <2>1, FlattenTyped
  <2> HIDE DEF G
  <2> QED  BY <2>2
<1>3. \A m \in 0..(n - 1) : G(m + 1) = G(m) \o f[m + 1] /\ f[m + 1] \in Seq(S)
  BY FlattenPrefix
<1>4. at = Len(G(k)) /\ at \in Nat
  <2>1. k \in 0..n
    BY <1>1
  <2> QED  BY <1>2, <2>1
<1> HIDE DEF G, n, p
<1>5. 0 \in T
  <2>1. k \in 0..(n - 1) /\ k \in 0..n /\ k + 1 + 0 = k + 1 /\ 0 \in 0..(n - k - 1)
    BY <1>1
  <2>2. G(k + 1) = G(k) \o p /\ G(k) \in Seq(S)
    BY <1>2, <1>3, <2>1 DEF p
  <2>3. /\ Len(G(k + 1)) = Len(G(k)) + Len(p)
        /\ \A j \in 1..(Len(G(k)) + Len(p)) : G(k + 1)[j] = IF j <= Len(G(k)) THEN G(k)[j] ELSE p[j - Len(G(k))]
    BY <1>1, <2>2, ConcatProperties
  <2>4. ASSUME NEW j \in 1..Len(p)
        PROVE  G(k + 1)[at + j] = p[j]
    <3> DEFINE l == Len(G(k))
    <3>0. at = l /\ at \in Nat /\ Len(p) \in Nat
      BY <1>1, <1>4
    <3> HIDE DEF l
    <3>a. j \in Nat /\ 1 <= j /\ j <= Len(p) /\ l \in Nat
      BY <3>0
    <3>b. ~(l + j <= l)
      BY <3>a
    <3>c. (l + j) - l = j
      BY <3>a
    <3>d. l + j \in 1..(l + Len(p))
      BY <3>0, <3>a
    <3>1. at + j \in 1..(l + Len(p)) /\ ~(at + j <= l) /\ (at + j) - l = j
      BY <3>0, <3>b, <3>c, <3>d
    <3> QED  BY <2>3, <3>1 DEF l
  <2>5. Holds(k + 1)
    BY <1>1, <1>4, <2>3, <2>4
  <2> HIDE DEF Holds
  <2> QED  BY <2>1, <2>5
<1>6. ASSUME NEW d \in 0..(n - k - 1 - 1), d \in T
      PROVE  d + 1 \in T
  <2> DEFINE m == k + 1 + d
  <2>1. m \in 0..(n - 1) /\ m \in 0..n /\ m \in Nat /\ k + 1 + (d + 1) = m + 1 /\ d + 1 \in 0..(n - k - 1)
    BY <1>1
  <2>2. Holds(m)
    BY <1>6
  <2> HIDE DEF m
  <2>3. G(m + 1) = G(m) \o f[m + 1] /\ f[m + 1] \in Seq(S) /\ G(m) \in Seq(S)
    BY <1>2, <1>3, <2>1
  <2>4. /\ Len(G(m + 1)) = Len(G(m)) + Len(f[m + 1]) /\ Len(G(m)) \in Nat /\ Len(f[m + 1]) \in Nat
        /\ \A j \in 1..(Len(G(m)) + Len(f[m + 1])) :
             G(m + 1)[j] = IF j <= Len(G(m)) THEN G(m)[j] ELSE f[m + 1][j - Len(G(m))]
    BY <2>3, ConcatProperties
  <2>5. ASSUME NEW j \in 1..Len(p)
        PROVE  G(m + 1)[at + j] = p[j]
    <3>1. at + j \in 1..(Len(G(m)) + Len(f[m + 1])) /\ at + j <= Len(G(m))
      BY <1>1, <1>4, <2>2, <2>4
    <3>2. G(m)[at + j] = p[j]
      BY <2>2
    <3> QED  BY <2>4, <3>1, <3>2
  <2>6. at + Len(p) <= Len(G(m + 1))
    BY <1>1, <1>4, <2>2, <2>4
  <2>7. Holds(m + 1)
    BY <2>5, <2>6
  <2> HIDE DEF Holds
  <2> QED  BY <2>1, <2>7
<1>7. n - k - 1 \in T
  <2> HIDE DEF T
  <2>1. n - k - 1 \in Nat
    BY <1>1
  <2>2. \A d \in 0..(n - k - 1) : d \in T
    BY <1>5, <1>6, <2>1, UpTo
  <2> QED  BY <2>1, <2>2
<1>8. Holds(n)
  <2>1. k + 1 + (n - k - 1) = n
    BY <1>1
  <2> HIDE DEF Holds
  <2> QED  BY <1>7, <2>1
<1>9. G(n) = FlattenSeq(f)
  <2>1. SubSeq(f, 1, Len(f)) = f
    BY SubSeqFull
  <2> QED  BY <2>1 DEF G, n
<1> QED  BY <1>1, <1>4, <1>8, <1>9 DEF p

\* Two sequences of texts or of tokens, one behind the other.
LEMMA Joined ==
  ASSUME NEW S, NEW a \in Seq(S), NEW b \in Seq(S)
  PROVE  /\ a \o b \in Seq(S) /\ Len(a \o b) = Len(a) + Len(b) /\ Len(a) \in Nat /\ Len(b) \in Nat
         /\ \A j \in 1..Len(a) : (a \o b)[j] = a[j]
         /\ \A j \in 1..Len(b) : (a \o b)[Len(a) + j] = b[j]
<1>1. /\ a \o b \in Seq(S) /\ Len(a \o b) = Len(a) + Len(b) /\ Len(a) \in Nat /\ Len(b) \in Nat
      /\ \A j \in 1..(Len(a) + Len(b)) : (a \o b)[j] = IF j <= Len(a) THEN a[j] ELSE b[j - Len(a)]
  BY ConcatProperties
<1>2. ASSUME NEW j \in 1..Len(a)
      PROVE  (a \o b)[j] = a[j]
  BY <1>1
<1>3. ASSUME NEW j \in 1..Len(b)
      PROVE  (a \o b)[Len(a) + j] = b[j]
  <2>1. Len(a) + j \in 1..(Len(a) + Len(b)) /\ ~(Len(a) + j <= Len(a)) /\ (Len(a) + j) - Len(a) = j
    BY <1>1
  <2> QED  BY <1>1, <2>1
<1> QED  BY <1>1, <1>2, <1>3

\* What hsh makes of a token: arguments, and the token they are read as again.
GwDestination == Token("destination", NewHost, NewUser, FALSE)
GwPort == Token("flag-value", <<"-p">>, NewPort, FALSE)
Address == NewUser \o <<"@">> \o NewHost

Piece(t) == IF Drops(t) THEN <<>> ELSE IF t.kind = "destination" THEN <<Address>> ELSE Render(t)
Image(t) == IF Drops(t) THEN <<>> ELSE IF t.kind = "destination" THEN <<GwDestination>> ELSE <<t>>

Pieces(ts) == [k \in DOMAIN ts |-> Piece(ts[k])]
Images(ts) == [k \in DOMAIN ts |-> Image(ts[k])]

\* What the first k tokens become; all of them become the argv for the gateway.
ArgsUpTo(ts, k) == <<<<"-p">>, NewPort>> \o FlattenSeq(SubSeq(Pieces(ts), 1, k))
TokensUpTo(ts, k) == <<GwPort>> \o FlattenSeq(SubSeq(Images(ts), 1, k))
RewrittenOf(ts) == <<<<"-p">>, NewPort>> \o FlattenSeq(Pieces(ts))

\* The argv that rewriteSshArgs makes of the tokens read.
LEMMA RewrittenIs == Rewritten = RewrittenOf(tokens)
  BY Zenon DEF Rewritten, RewrittenOf, Pieces, Piece, Address

\* The port and the destination of the gateway are tokens.
LEMMA GwTokens == GwDestination \in Tokens /\ GwPort \in Tokens
<1>1. "destination" \in Kinds /\ "flag-value" \in Kinds
  BY DEF Kinds
<1>2. NewHost \in Texts /\ NewUser \in Texts /\ NewPort \in Texts /\ <<"-p">> \in Texts
  BY TextsAre
<1>3. \A k \in Kinds, f, v \in Texts : [kind |-> k, flag |-> f, value |-> v, joined |-> FALSE] \in Tokens
  BY DEF Tokens
<1> QED  BY <1>1, <1>2, <1>3, Zenon DEF GwDestination, GwPort, Token

\* A token becomes texts, and these are read as tokens.
LEMMA PiecesTyped ==
  ASSUME NEW ts \in Seq(Tokens)
  PROVE  /\ Pieces(ts) \in Seq(Seq(Texts)) /\ Len(Pieces(ts)) = Len(ts)
         /\ Images(ts) \in Seq(Seq(Tokens)) /\ Len(Images(ts)) = Len(ts)
         /\ \A k \in 1..Len(ts) :
              /\ Pieces(ts)[k] = Piece(ts[k]) /\ Piece(ts[k]) \in Seq(Texts)
              /\ Images(ts)[k] = Image(ts[k]) /\ Image(ts[k]) \in Seq(Tokens)
<1>1. Len(ts) \in Nat /\ DOMAIN ts = 1..Len(ts) /\ \A k \in 1..Len(ts) : ts[k] \in Tokens
  OBVIOUS
<1>2. <<Address>> \in Seq(Texts) /\ <<>> \in Seq(Texts)
  <2>1. NewUser \o <<"@">> \in Texts
    BY TextsAre, TextsJoin, Zenon
  <2>2. Address \in Texts
    BY <2>1, TextsAre, TextsJoin, Zenon DEF Address
  <2> QED  BY <2>2, Sequences
<1>3. <<GwDestination>> \in Seq(Tokens) /\ <<>> \in Seq(Tokens)
  BY GwTokens, Sequences
<1>4. ASSUME NEW k \in 1..Len(ts)
      PROVE  Piece(ts[k]) \in Seq(Texts) /\ Image(ts[k]) \in Seq(Tokens)
  <2>1. Render(ts[k]) \in Seq(Texts) /\ <<ts[k]>> \in Seq(Tokens)
    BY <1>1, RenderTyped, Sequences
  <2> QED  BY <1>2, <1>3, <2>1, Zenon DEF Piece, Image
<1>5. Pieces(ts) = [k \in 1..Len(ts) |-> Piece(ts[k])] /\ Images(ts) = [k \in 1..Len(ts) |-> Image(ts[k])]
  BY <1>1, Zenon DEF Pieces, Images
<1>6. Pieces(ts) \in Seq(Seq(Texts)) /\ Len(Pieces(ts)) = Len(ts)
  BY <1>1, <1>4, <1>5
<1>7. Images(ts) \in Seq(Seq(Tokens)) /\ Len(Images(ts)) = Len(ts)
  BY <1>1, <1>4, <1>5
<1> QED  BY <1>4, <1>5, <1>6, <1>7

\* The first token of the rewritten argv is that of the port.
LEMMA UpToNone ==
  ASSUME NEW ts \in Seq(Tokens)
  PROVE  /\ TokensUpTo(ts, 0) = <<GwPort>> /\ Len(ArgsUpTo(ts, 0)) = 2
         /\ RewrittenOf(ts) \in Seq(Texts) /\ Len(RewrittenOf(ts)) >= 2
         /\ RewrittenOf(ts)[1] = <<"-p">> /\ RewrittenOf(ts)[2] = NewPort
         /\ ArgsUpTo(ts, Len(ts)) = RewrittenOf(ts)
<1> DEFINE two == <<<<"-p">>, NewPort>>
<1>1. two \in Seq(Texts) /\ Len(two) = 2 /\ two[1] = <<"-p">> /\ two[2] = NewPort
  BY TextsAre, Sequences
<1>2. SubSeq(Pieces(ts), 1, 0) = <<>> /\ SubSeq(Images(ts), 1, 0) = <<>>
  BY SubSeqEmpty
<1>3. FlattenSeq(<<>>) = <<>>
  BY FlattenAppend, Zenon
<1>4. TokensUpTo(ts, 0) = <<GwPort>>
  <2>1. TokensUpTo(ts, 0) = <<GwPort>> \o <<>>
    BY <1>2, <1>3, Zenon DEF TokensUpTo
  <2>2. <<GwPort>> \in Seq(Tokens)
    BY GwTokens, Sequences
  <2>3. <<GwPort>> \o <<>> = <<GwPort>>
    BY <2>2, ConcatEmptySeq
  <2> QED  BY <2>1, <2>3
<1>5. FlattenSeq(Pieces(ts)) \in Seq(Texts)
  BY PiecesTyped, FlattenTyped
<1>6. ArgsUpTo(ts, 0) = two \o <<>> /\ RewrittenOf(ts) = two \o FlattenSeq(Pieces(ts))
  BY <1>2, <1>3, Zenon DEF ArgsUpTo, RewrittenOf
<1> HIDE DEF two
<1>7. Len(ArgsUpTo(ts, 0)) = 2
  BY <1>1, <1>6, ConcatEmptySeq
<1>8. /\ RewrittenOf(ts) \in Seq(Texts) /\ Len(RewrittenOf(ts)) >= 2
      /\ RewrittenOf(ts)[1] = <<"-p">> /\ RewrittenOf(ts)[2] = NewPort
  <2> DEFINE all == FlattenSeq(Pieces(ts))
  <2>1. all \in Seq(Texts) /\ RewrittenOf(ts) = two \o all
    BY <1>5, <1>6
  <2> HIDE DEF all
  <2>2. /\ two \o all \in Seq(Texts) /\ Len(two \o all) = Len(two) + Len(all) /\ Len(all) \in Nat
        /\ \A j \in 1..Len(two) : (two \o all)[j] = two[j]
    BY <1>1, <2>1, Joined, Zenon
  <2>3. 1 \in 1..Len(two) /\ 2 \in 1..Len(two)
    BY <1>1
  <2>4. (two \o all)[1] = <<"-p">> /\ (two \o all)[2] = NewPort
    BY <1>1, <2>2, <2>3, Zenon
  <2>5. Len(two \o all) >= 2
    BY <1>1, <2>2
  <2> QED  BY <2>1, <2>2, <2>4, <2>5, Zenon
<1>9. ArgsUpTo(ts, Len(ts)) = RewrittenOf(ts)
  <2>1. SubSeq(Pieces(ts), 1, Len(Pieces(ts))) = Pieces(ts) /\ Len(Pieces(ts)) = Len(ts)
    BY PiecesTyped, SubSeqFull
  <2> QED  BY <2>1, Zenon DEF ArgsUpTo, RewrittenOf
<1> QED  BY <1>4, <1>7, <1>8, <1>9

\* Joining is associative.
LEMMA JoinedAgain ==
  ASSUME NEW S, NEW a \in Seq(S), NEW b \in Seq(S), NEW c \in Seq(S)
  PROVE  (a \o b) \o c = a \o (b \o c)
  BY ConcatAssociative

\* One token more: its image, and its piece in place.
LEMMA UpToNext ==
  ASSUME NEW ts \in Seq(Tokens), NEW k \in 0..(Len(ts) - 1), NEW t, t = ts[k + 1],
         NEW at, at = Len(ArgsUpTo(ts, k))
  PROVE  /\ TokensUpTo(ts, k) \in Seq(Tokens)
         /\ TokensUpTo(ts, k + 1) = TokensUpTo(ts, k) \o Image(t)
         /\ at \in Nat /\ Len(ArgsUpTo(ts, k + 1)) = at + Len(Piece(t))
         /\ Len(Piece(t)) \in Nat /\ at + Len(Piece(t)) <= Len(RewrittenOf(ts))
         /\ \A j \in 1..Len(Piece(t)) : RewrittenOf(ts)[at + j] = Piece(t)[j]
<1> DEFINE two == <<<<"-p">>, NewPort>>
           ps == Pieces(ts)
           is == Images(ts)
           g == FlattenSeq(SubSeq(ps, 1, k))
           h == FlattenSeq(SubSeq(is, 1, k))
           all == FlattenSeq(ps)
<1>1. two \in Seq(Texts) /\ Len(two) = 2
  BY TextsAre, Sequences
<1>2. k + 1 \in 1..Len(ts) /\ k \in 0..(Len(ps) - 1) /\ k \in 0..(Len(is) - 1)
  BY PiecesTyped
<1>3. /\ ps \in Seq(Seq(Texts)) /\ is \in Seq(Seq(Tokens))
      /\ ps[k + 1] = Piece(t) /\ is[k + 1] = Image(t)
      /\ Piece(t) \in Seq(Texts) /\ Image(t) \in Seq(Tokens)
  BY <1>2, PiecesTyped
<1>4. g \in Seq(Texts) /\ h \in Seq(Tokens) /\ all \in Seq(Texts)
  <2>1. SubSeq(ps, 1, k) \in Seq(Seq(Texts)) /\ SubSeq(is, 1, k) \in Seq(Seq(Tokens))
    <3> HIDE DEF ps, is
    <3> QED  BY <1>2, <1>3, FlattenPrefix
  <2> HIDE DEF ps, is
  <2> QED  BY <1>3, <2>1, FlattenTyped
<1>5. /\ FlattenSeq(SubSeq(ps, 1, k + 1)) = g \o Piece(t)
      /\ FlattenSeq(SubSeq(is, 1, k + 1)) = h \o Image(t)
  <2> HIDE DEF ps, is
  <2> QED  BY <1>2, <1>3, FlattenPrefix
<1>6. /\ Len(g) \in Nat /\ Len(Piece(t)) \in Nat /\ Len(g) + Len(Piece(t)) <= Len(all)
      /\ \A j \in 1..Len(Piece(t)) : all[Len(g) + j] = Piece(t)[j]
  <2> HIDE DEF ps
  <2>1. /\ Len(g) \in Nat /\ Len(ps[k + 1]) \in Nat /\ Len(g) + Len(ps[k + 1]) <= Len(all)
        /\ \A j \in 1..Len(ps[k + 1]) : all[Len(g) + j] = ps[k + 1][j]
    BY <1>2, <1>3, FlattenHolds, Zenon
  <2> QED  BY <1>3, <2>1, Zenon
<1>7. /\ ArgsUpTo(ts, k) = two \o g /\ ArgsUpTo(ts, k + 1) = two \o (g \o Piece(t))
      /\ TokensUpTo(ts, k) = <<GwPort>> \o h /\ TokensUpTo(ts, k + 1) = <<GwPort>> \o (h \o Image(t))
      /\ RewrittenOf(ts) = two \o all
  BY <1>5, Zenon DEF ArgsUpTo, TokensUpTo, RewrittenOf
<1> HIDE DEF two, ps, is, g, h, all
<1>8. at = 2 + Len(g)
  <2>1. Len(two \o g) = Len(two) + Len(g)
    BY <1>1, <1>4, Joined, Zenon
  <2> QED  BY <1>1, <1>7, <2>1
<1>9. Len(ArgsUpTo(ts, k + 1)) = at + Len(Piece(t))
  <2>1. g \o Piece(t) \in Seq(Texts) /\ Len(g \o Piece(t)) = Len(g) + Len(Piece(t))
    BY <1>3, <1>4, ConcatProperties
  <2>2. Len(two \o (g \o Piece(t))) = 2 + (Len(g) + Len(Piece(t)))
    <3> DEFINE x == g \o Piece(t)
    <3>1. two \in Seq(Texts) /\ Len(two) = 2 /\ x \in Seq(Texts) /\ Len(x) = Len(g) + Len(Piece(t))
      BY <1>1, <2>1, Zenon
    <3> HIDE DEF x
    <3>2. Len(two \o x) = Len(two) + Len(x)
      BY ONLY <3>1, Joined
    <3> QED  BY <3>1, <3>2, Zenon DEF x
  <2> QED  BY <1>6, <1>7, <1>8, <2>2
<1>10. /\ Len(RewrittenOf(ts)) = 2 + Len(all) /\ Len(all) \in Nat
       /\ \A m \in 1..Len(all) : RewrittenOf(ts)[2 + m] = all[m]
  <2>1. /\ Len(two \o all) = Len(two) + Len(all) /\ Len(all) \in Nat
        /\ \A m \in 1..Len(all) : (two \o all)[Len(two) + m] = all[m]
    <3>1. two \in Seq(Texts) /\ all \in Seq(Texts)
      BY <1>1, <1>4
    <3> QED  BY <3>1, Joined
  <2> QED  BY <1>1, <1>7, <2>1, Zenon
<1>11. ASSUME NEW j \in 1..Len(Piece(t))
       PROVE  RewrittenOf(ts)[at + j] = Piece(t)[j]
  <2>1. Len(g) + j \in 1..Len(all) /\ 2 + (Len(g) + j) = at + j
    BY <1>6, <1>8, <1>10
  <2>2. all[Len(g) + j] = Piece(t)[j]
    BY <1>6
  <2> QED  BY <1>10, <2>1, <2>2
<1>12. /\ TokensUpTo(ts, k) \in Seq(Tokens)
       /\ TokensUpTo(ts, k + 1) = TokensUpTo(ts, k) \o Image(t)
  <2>1. <<GwPort>> \in Seq(Tokens)
    BY GwTokens, Sequences
  <2>2. <<GwPort>> \o h \in Seq(Tokens)
    BY <1>4, <2>1, ConcatProperties
  <2>3. (<<GwPort>> \o h) \o Image(t) = <<GwPort>> \o (h \o Image(t))
    <3> DEFINE p == <<GwPort>>
               im == Image(t)
    <3>1. p \in Seq(Tokens) /\ h \in Seq(Tokens) /\ im \in Seq(Tokens)
      BY <1>3, <1>4, <2>1
    <3> HIDE DEF p, im
    <3>2. (p \o h) \o im = p \o (h \o im)
      BY ONLY <3>1, JoinedAgain, SMTT(30)
    <3> QED  BY <3>2 DEF p, im
  <2> QED  BY <1>7, <2>2, <2>3
<1> QED  BY <1>6, <1>8, <1>9, <1>10, <1>11, <1>12

---------------------------------------------------------------------------
(* Tokens by their parts.                                                  *)

\* A token of two arguments or of one.
Apart(kind, flag, value) == Token(kind, flag, value, FALSE)
InOne(kind, flag, value) == Token(kind, flag, value, TRUE)

\* A token whose value is an argument of its own.
LEMMA TokenApart ==
  ASSUME NEW kind \in Kinds, NEW flag \in Texts, NEW value \in Texts,
         NEW t, t = Apart(kind, flag, value)
  PROVE  t \in Tokens /\ t.kind = kind /\ t.flag = flag /\ t.value = value /\ ~t.joined
<1> DEFINE r == [kind |-> kind, flag |-> flag, value |-> value, joined |-> FALSE]
<1>1. t = r
  BY Zenon DEF Token, Apart
<1>2. r \in Tokens
  BY DEF Tokens
<1>3. r.kind = kind /\ r.flag = flag /\ r.value = value /\ ~r.joined
  OBVIOUS
<1> QED  BY <1>1, <1>2, <1>3, Zenon

\* A token whose value is in the same argument.
LEMMA TokenInOne ==
  ASSUME NEW kind \in Kinds, NEW flag \in Texts, NEW value \in Texts,
         NEW t, t = InOne(kind, flag, value)
  PROVE  t \in Tokens /\ t.kind = kind /\ t.flag = flag /\ t.value = value /\ t.joined
<1> DEFINE r == [kind |-> kind, flag |-> flag, value |-> value, joined |-> TRUE]
<1>1. t = r
  BY Zenon DEF Token, InOne
<1>2. r \in Tokens
  BY DEF Tokens
<1>3. r.kind = kind /\ r.flag = flag /\ r.value = value /\ r.joined
  OBVIOUS
<1> QED  BY <1>1, <1>2, <1>3, Zenon

\* A token is made of its parts.
LEMMA TokenOfParts ==
  ASSUME NEW t \in Tokens
  PROVE  /\ t.kind \in Kinds /\ t.flag \in Texts /\ t.value \in Texts
         /\ ~t.joined => Apart(t.kind, t.flag, t.value) = t
         /\ t.joined => InOne(t.kind, t.flag, t.value) = t
<1>1. t.kind \in Kinds /\ t.flag \in Texts /\ t.value \in Texts /\ t.joined \in BOOLEAN
  BY DEF Tokens
<1>2. ASSUME ~t.joined
      PROVE  [kind |-> t.kind, flag |-> t.flag, value |-> t.value, joined |-> FALSE] = t
  BY <1>1, <1>2 DEF Tokens
<1>3. ASSUME t.joined
      PROVE  [kind |-> t.kind, flag |-> t.flag, value |-> t.value, joined |-> TRUE] = t
  BY <1>1, <1>3 DEF Tokens
<1> QED  BY <1>1, <1>2, <1>3, Zenon DEF Token, Apart, InOne

---------------------------------------------------------------------------
(* The grammar of the tokens.                                              *)

\* The kinds of the first k tokens.
KindsOf(ts, k) == {ts[j].kind : j \in 1..k}

\* What may follow tokens of the kinds in met.
Fits(t, met) ==
  /\ t.kind \in {"flag", "flag-value", "option"} => met \cap {"destination", "double-dash"} = {}
  /\ t.kind \in {"flag", "double-dash", "command"} => t.flag = <<>> /\ ~t.joined
  /\ t.kind = "flag" => Starts(t.value, PlainFlags)
  /\ t.kind = "flag-value" => \E f \in ValueFlags \ {"-o"} : t.flag = <<f>>
  /\ t.kind = "flag-value" => ~t.joined \/ t.value # <<>>
  /\ t.kind = "option" => Positions(t.flag, "=") = {}
  /\ t.kind = "destination" => "destination" \notin met
  /\ t.kind = "double-dash" => t.value = <<"--">> /\ "double-dash" \notin met
  /\ t.kind = "command" => "destination" \in met /\ ("double-dash" \in met \/ t.value # <<"--">>)

Fit(ts) == \A k \in 1..Len(ts) : Fits(ts[k], KindsOf(ts, k - 1))

\* One more token adds its kind.
LEMMA KindsOfAppend ==
  ASSUME NEW ts \in Seq(Tokens), NEW t \in Tokens
  PROVE  /\ \A k \in 0..Len(ts) : KindsOf(Append(ts, t), k) = KindsOf(ts, k)
         /\ KindsOf(Append(ts, t), Len(ts) + 1) = KindsOf(ts, Len(ts)) \cup {t.kind}
<1> DEFINE us == Append(ts, t)
           n == Len(ts)
<1>1. n \in Nat /\ us[n + 1] = t /\ \A j \in 1..n : us[j] = ts[j]
  OBVIOUS
<1> HIDE DEF us, n
<1>2. ASSUME NEW k \in 0..n
      PROVE  KindsOf(us, k) = KindsOf(ts, k)
  <2>1. \A j \in 1..k : us[j] = ts[j]
    BY <1>1
  <2> QED  BY <2>1 DEF KindsOf
<1>3. KindsOf(us, n + 1) = KindsOf(ts, n) \cup {t.kind}
  <2>1. 1..(n + 1) = (1..n) \cup {n + 1}
    BY <1>1
  <2> QED  BY <1>1, <2>1, Zenon DEF KindsOf
<1> QED  BY <1>2, <1>3 DEF us, n

\* Tokens fit with one more that may follow them.
LEMMA FitAppend ==
  ASSUME NEW ts \in Seq(Tokens), NEW t \in Tokens, Fit(ts), Fits(t, KindsOf(ts, Len(ts)))
  PROVE  Fit(Append(ts, t))
<1> DEFINE us == Append(ts, t)
           n == Len(ts)
<1>1. n \in Nat /\ Len(us) = n + 1 /\ us[n + 1] = t /\ \A j \in 1..n : us[j] = ts[j]
  OBVIOUS
<1>2. \A k \in 0..n : KindsOf(us, k) = KindsOf(ts, k)
  BY KindsOfAppend
<1> HIDE DEF us, n
<1>3. ASSUME NEW k \in 1..Len(us)
      PROVE  Fits(us[k], KindsOf(us, k - 1))
  <2>1. k - 1 \in 0..n
    BY <1>1
  <2>2. CASE k \in 1..n
    BY <1>1, <1>2, <2>1, <2>2, Zenon DEF Fit, n
  <2>3. CASE k \notin 1..n
    <3>1. k = n + 1 /\ k - 1 = n
      BY <1>1, <2>3
    <3> QED  BY <1>1, <1>2, <2>1, <3>1 DEF n
  <2> QED  BY <2>2, <2>3
<1> QED  BY <1>3, Zenon DEF Fit, us

---------------------------------------------------------------------------
(* The loop, and what it has met.                                          *)

\* A branch pushes a token that fits those of the kinds in met, or a flag that
\* lacks its value as the last one.
Pushes(t, met) ==
  /\ t \in Tokens /\ tokens' = Append(tokens, t)
  /\ destSeen' <=> "destination" \in met \cup {t.kind}
  /\ doubleDashSeen' <=> "double-dash" \in met \cup {t.kind}
  /\ t.kind # "destination" => host' = host
  /\ t.kind = "destination" => ~destSeen
  /\ Fits(t, met) \/ (i = Len(argv) /\ i' = i + 1 /\ ~destSeen' /\ t.kind # "destination")

Seen(met) == (destSeen <=> "destination" \in met) /\ (doubleDashSeen <=> "double-dash" \in met)

\* No flag takes a value and takes none.
LEMMA FlagsApart ==
  /\ "-o" \in ValueFlags /\ "-p" \in ValueFlags /\ "-l" \in ValueFlags
  /\ \A f \in ValueFlags : f \notin PlainFlags /\ f # "--" /\ f # "gwuser"
  /\ \A f \in PlainFlags : f \notin ValueFlags /\ f # "--" /\ f # "gwuser"
  BY SshArgsAssumption

\* The words of the remote command, whatever they are.
LEMMA CommandPushes ==
  ASSUME ParserInv, Parsing, NEW met, Seen(met), destSeen, doubleDashSeen \/ arg # <<"--">>, Command
  PROVE  Pushes(Apart("command", <<>>, arg), met)
<1> DEFINE t == Apart("command", <<>>, arg)
<1>1. arg \in Texts /\ <<>> \in Texts /\ "command" \in Kinds
  BY ArgIs, TextsAre DEF Kinds
<1>2. t \in Tokens /\ t.kind = "command" /\ t.flag = <<>> /\ t.value = arg /\ ~t.joined
  BY <1>1, TokenApart
<1>3. /\ tokens' = Append(tokens, t) /\ host' = host
      /\ destSeen' = destSeen /\ doubleDashSeen' = doubleDashSeen
  BY Zenon DEF Command, Push, Apart
<1> HIDE DEF t
<1>4. Fits(t, met)
  BY <1>2 DEF Fits, Seen
<1>5. Pushes(t, met)
  BY <1>2, <1>3, <1>4 DEF Pushes, Seen
<1> QED  BY <1>5 DEF t

\* The first "--".
LEMMA DoubleDashPushes ==
  ASSUME ParserInv, Parsing, NEW met, Seen(met), ~doubleDashSeen, arg = <<"--">>, DoubleDash
  PROVE  Pushes(Apart("double-dash", <<>>, arg), met)
<1> DEFINE t == Apart("double-dash", <<>>, arg)
<1>1. arg \in Texts /\ <<>> \in Texts /\ "double-dash" \in Kinds
  BY ArgIs, TextsAre DEF Kinds
<1>2. t \in Tokens /\ t.kind = "double-dash" /\ t.flag = <<>> /\ t.value = arg /\ ~t.joined
  BY <1>1, TokenApart
<1>3. /\ tokens' = Append(tokens, t) /\ host' = host
      /\ destSeen' = destSeen /\ doubleDashSeen' = TRUE
  BY Zenon DEF DoubleDash, Push, Apart
<1> HIDE DEF t
<1>4. Fits(t, met)
  BY <1>2 DEF Fits, Seen
<1>5. Pushes(t, met)
  BY <1>2, <1>3, <1>4 DEF Pushes, Seen
<1> QED  BY <1>5 DEF t

\* A flag without a value, before the destination.
LEMMA FlagPushes ==
  ASSUME ParserInv, Parsing, NEW met, Seen(met), ~destSeen, ~doubleDashSeen, Flag,
         Starts(arg, PlainFlags) \/ ~HasNext
  PROVE  Pushes(Apart("flag", <<>>, arg), met)
<1> DEFINE t == Apart("flag", <<>>, arg)
<1>1. arg \in Texts /\ <<>> \in Texts /\ "flag" \in Kinds
  BY ArgIs, TextsAre DEF Kinds
<1>2. t \in Tokens /\ t.kind = "flag" /\ t.flag = <<>> /\ t.value = arg /\ ~t.joined
  BY <1>1, TokenApart
<1>3. /\ tokens' = Append(tokens, t) /\ i' = i + 1 /\ host' = host
      /\ destSeen' = destSeen /\ doubleDashSeen' = doubleDashSeen
  BY Zenon DEF Flag, Push, Apart
<1> HIDE DEF t
<1>4. Starts(arg, PlainFlags) => Fits(t, met)
  BY <1>2 DEF Fits, Seen
<1>5. ~HasNext => i = Len(argv)
  BY ArgIs DEF HasNext
<1>6. Pushes(t, met)
  BY <1>2, <1>3, <1>4, <1>5 DEF Pushes, Seen
<1> QED  BY <1>6 DEF t

\* The first word that is no flag.
LEMMA DestinationPushes ==
  ASSUME ParserInv, Parsing, NEW met, Seen(met), ~destSeen, Destination
  PROVE  Pushes(Apart("destination", SplitDestination(arg).host, SplitDestination(arg).user), met)
<1> DEFINE h == SplitDestination(arg).host
           u == SplitDestination(arg).user
           t == Apart("destination", h, u)
<1>1. h \in Texts /\ u \in Texts /\ "destination" \in Kinds
  BY ArgIs, DestinationTyped DEF Kinds
<1>2. /\ tokens' = Append(tokens, t)
      /\ destSeen' = TRUE /\ doubleDashSeen' = doubleDashSeen
  BY Zenon DEF Destination, Push, Apart
<1> HIDE DEF h, u
<1>3. t \in Tokens /\ t.kind = "destination" /\ t.flag = h /\ t.value = u /\ ~t.joined
  BY <1>1, TokenApart
<1> HIDE DEF t
<1>4. Fits(t, met)
  BY <1>3 DEF Fits, Seen
<1>5. Pushes(t, met)
  BY <1>2, <1>3, <1>4 DEF Pushes, Seen
<1> QED  BY <1>5 DEF t, h, u

\* A flag and its value.
LEMMA ValuePushes ==
  ASSUME ParserInv, Parsing, NEW met, Seen(met), ~destSeen, ~doubleDashSeen,
         NEW f \in ValueFlags \ {"-o"}, <<f>> \in Texts, NEW value \in Texts,
         NEW w
  PROVE  /\ FlagValue(f, value, FALSE, w) => Pushes(Apart("flag-value", <<f>>, value), met)
         /\ value # <<>> /\ FlagValue(f, value, TRUE, w) =>
              Pushes(InOne("flag-value", <<f>>, value), met)
<1> DEFINE flag == <<f>>
           t == Apart("flag-value", flag, value)
           j == InOne("flag-value", flag, value)
<1>1. "flag-value" \in Kinds /\ flag \in Texts
  BY DEF Kinds
<1>2. /\ FlagValue(f, value, FALSE, w) => tokens' = Append(tokens, t)
      /\ FlagValue(f, value, TRUE, w) => tokens' = Append(tokens, j)
  BY Zenon DEF FlagValue, Push, Apart, InOne
<1>3. FlagValue(f, value, FALSE, w) \/ FlagValue(f, value, TRUE, w) =>
        host' = host /\ destSeen' = destSeen /\ doubleDashSeen' = doubleDashSeen
  BY DEF FlagValue
<1>4. \E g \in ValueFlags \ {"-o"} : flag = <<g>>
  OBVIOUS
<1> HIDE DEF flag
<1>5. t \in Tokens /\ t.kind = "flag-value" /\ t.flag = flag /\ ~t.joined
  BY <1>1, TokenApart
<1>6. j \in Tokens /\ j.kind = "flag-value" /\ j.flag = flag /\ j.joined /\ j.value = value
  BY <1>1, TokenInOne
<1> HIDE DEF t, j
<1>7. Fits(t, met)
  BY <1>4, <1>5 DEF Fits, Seen
<1>8. value # <<>> => Fits(j, met)
  BY <1>4, <1>6 DEF Fits, Seen
<1>9. ASSUME FlagValue(f, value, FALSE, w)
      PROVE  Pushes(t, met)
  BY <1>2, <1>3, <1>5, <1>7, <1>9 DEF Pushes, Seen
<1>10. ASSUME value # <<>>, FlagValue(f, value, TRUE, w)
       PROVE  Pushes(j, met)
  BY <1>2, <1>3, <1>6, <1>8, <1>10 DEF Pushes, Seen
<1> QED  BY <1>9, <1>10, Zenon DEF t, j, flag

\* Before the first "=" there is none.
LEMMA KeyIsBare ==
  ASSUME NEW raw \in Texts
  PROVE  Positions(Key(raw), "=") = {}
<1>1. CASE Positions(raw, "=") = {}
  BY <1>1 DEF Key
<1>2. CASE Positions(raw, "=") # {}
  <2> DEFINE m == FirstAt(raw, "=")
             P == Positions(raw, "=")
  <2>1. P \in SUBSET Nat
    BY DEF Positions, Texts
  <2>2. \A l \in P : m <= l
    <3> HIDE DEF P
    <3> QED  BY <1>2, <2>1, MinIsFirst DEF FirstAt, P
  <2>3. m \in 1..Len(raw) /\ Key(raw) = Before(raw, m) /\ Len(raw) \in Nat
    BY <1>2, PositionsAre DEF Key, Texts
  <2> HIDE DEF m
  <2>4. ASSUME NEW k \in DOMAIN Before(raw, m), Before(raw, m)[k] = "="
        PROVE  FALSE
    <3>1. k \in 1..(m - 1) /\ raw[k] = "="
      BY <2>3, <2>4 DEF Before, Texts
    <3>2. k \in P
      BY <2>3, <3>1 DEF Positions, Texts
    <3> QED  BY <2>2, <2>3, <3>1, <3>2
  <2> QED  BY <2>3, <2>4 DEF Positions
<1> QED  BY <1>1, <1>2

\* An option of -o, before the destination.
LEMMA OptionPushes ==
  ASSUME ParserInv, Parsing, NEW met, Seen(met), ~destSeen, ~doubleDashSeen,
         NEW raw \in Texts, NEW w
  PROVE  /\ Option(raw, FALSE, w) => Pushes(Apart("option", Key(raw), Value(raw)), met)
         /\ Option(raw, TRUE, w) => Pushes(InOne("option", Key(raw), Value(raw)), met)
<1> DEFINE k == Key(raw)
           v == Value(raw)
           t == Apart("option", k, v)
           j == InOne("option", k, v)
<1>1. "option" \in Kinds /\ k \in Texts /\ v \in Texts /\ Positions(k, "=") = {}
  BY OptionSides, KeyIsBare DEF Kinds
<1>2. /\ Option(raw, FALSE, w) => tokens' = Append(tokens, t)
      /\ Option(raw, TRUE, w) => tokens' = Append(tokens, j)
  BY Zenon DEF Option, Push, Apart, InOne, Key, Value
<1>3. Option(raw, FALSE, w) \/ Option(raw, TRUE, w) =>
        host' = host /\ destSeen' = destSeen /\ doubleDashSeen' = doubleDashSeen
  BY Zenon DEF Option
<1> HIDE DEF k, v
<1>5. t \in Tokens /\ t.kind = "option" /\ t.flag = k
  BY <1>1, TokenApart
<1>6. j \in Tokens /\ j.kind = "option" /\ j.flag = k
  BY <1>1, TokenInOne
<1> HIDE DEF t, j
<1>7. Fits(t, met) /\ Fits(j, met)
  BY <1>1, <1>5, <1>6 DEF Fits, Seen
<1>9. ASSUME Option(raw, FALSE, w)
      PROVE  Pushes(t, met)
  BY <1>2, <1>3, <1>5, <1>7, <1>9 DEF Pushes, Seen
<1>10. ASSUME Option(raw, TRUE, w)
       PROVE  Pushes(j, met)
  BY <1>2, <1>3, <1>6, <1>7, <1>10 DEF Pushes, Seen
<1> QED  BY <1>9, <1>10, Zenon DEF t, j, k, v

\* So every step of the loop pushes a token that fits.
LEMMA ParseArgPushes ==
  ASSUME ParserInv, ParseArg, NEW met, Seen(met)
  PROVE  \E t : Pushes(t, met)
<1>1. Parsing
  BY DEF ParseArg
<1>2. /\ argv \in Seq(Texts) /\ i \in 1..Len(argv) /\ arg \in Texts /\ Len(argv) \in Nat
      /\ HasNext => argv[i + 1] \in Texts
  BY <1>1, ArgIs DEF HasNext
<1>3. CASE AfterDoubleDash
  <2>1. CASE destSeen
    BY <1>1, <1>3, <2>1, CommandPushes, Zenon DEF AfterDoubleDash
  <2>2. CASE ~destSeen
    BY <1>1, <1>3, <2>2, DestinationPushes, Zenon DEF AfterDoubleDash
  <2> QED  BY <2>1, <2>2
<1>4. CASE MeetDoubleDash
  BY <1>1, <1>4, DoubleDashPushes, Zenon DEF MeetDoubleDash
<1>5. CASE RemoteCommand
  BY <1>1, <1>5, CommandPushes, Zenon DEF RemoteCommand
<1>6. CASE SeparateOption
  BY <1>1, <1>2, <1>6, OptionPushes, Zenon DEF SeparateOption, BeforeDestination
<1>7. CASE JoinedOption
  <2>1. arg # <<>> /\ ~destSeen /\ ~doubleDashSeen /\ Option(Tail(arg), TRUE, 1)
    BY <1>7, Zenon DEF JoinedOption, BeforeDestination, Starts
  <2>2. Tail(arg) \in Texts
    BY <1>2, <2>1, BeginsWith
  <2> QED  BY <1>1, <2>1, <2>2, OptionPushes, Zenon
<1>8. CASE SeparateValue
  <2>1. /\ arg # <<>> /\ ~destSeen /\ ~doubleDashSeen /\ HasNext /\ arg[1] \in ValueFlags
        /\ Len(arg) = 1 /\ arg # <<"-o">> /\ FlagValue(arg[1], argv[i + 1], FALSE, 2)
    BY <1>8, Zenon DEF SeparateValue, BeforeDestination, Dashed, Starts
  <2>2. arg[1] \in Parts /\ <<arg[1]>> = arg
    <3>1. arg[1] \in Parts
      BY <1>2, <2>1, BeginsWith
    <3>2. <<arg[1]>> = arg
      BY <1>2, <2>1 DEF Texts
    <3> QED  BY <3>1, <3>2
  <2>3. arg[1] \in ValueFlags \ {"-o"} /\ <<arg[1]>> \in Texts
    BY <1>2, <2>1, <2>2
  <2> QED  BY <1>1, <1>2, <2>1, <2>3, ValuePushes, Zenon
<1>9. CASE JoinedValue
  <2>1. /\ arg # <<>> /\ ~destSeen /\ ~doubleDashSeen /\ arg[1] \in ValueFlags \ {"-o"}
        /\ Len(arg) > 1 /\ FlagValue(arg[1], Tail(arg), TRUE, 1)
    BY <1>9, Zenon DEF JoinedValue, BeforeDestination, Starts
  <2>2. arg[1] \in Parts /\ Tail(arg) \in Texts
    BY <1>2, <2>1, BeginsWith
  <2>3. Tail(arg) # <<>>
    <3>1. Len(Tail(arg)) = Len(arg) - 1
      BY <1>2, <2>1 DEF Texts
    <3>2. Len(arg) \in Nat
      BY <1>2 DEF Texts
    <3> QED  BY <2>1, <3>1, <3>2
  <2>4. <<arg[1]>> \in Texts
    BY <2>2, Sequences DEF Texts
  <2> QED  BY <1>1, <2>1, <2>2, <2>3, <2>4, ValuePushes, Zenon
<1>10. CASE DanglingFlag
  BY <1>1, <1>10, FlagPushes, Zenon DEF DanglingFlag, BeforeDestination
<1>11. CASE PlainFlag
  BY <1>1, <1>11, FlagPushes, Zenon DEF PlainFlag, BeforeDestination
<1>12. CASE Positional
  BY <1>1, <1>12, DestinationPushes, Zenon DEF Positional, BeforeDestination
<1> QED  BY <1>3, <1>4, <1>5, <1>6, <1>7, <1>8, <1>9, <1>10, <1>11, <1>12, Zenon DEF ParseArg

---------------------------------------------------------------------------
(* What the loop has met, in both readings.                                *)

Destinations(ts) == {k \in DOMAIN ts : ts[k].kind = "destination"}

\* One destination once it is seen.
OneDestination ==
  IF destSeen THEN \E k : Destinations(tokens) = {k} ELSE Destinations(tokens) = {}

\* The tokens of the user's argv fit one after the other; a flag that lacks its
\* value is the last of an argv without a destination.
FirstReading ==
  phase = "parse" =>
    /\ first = <<>>
    /\ Seen(KindsOf(tokens, Len(tokens)))
    /\ host # null => destSeen
    /\ Fit(tokens) \/ (i > Len(argv) /\ ~destSeen)

\* One more token adds its place if it is a destination.
LEMMA DestinationsAppend ==
  ASSUME NEW ts \in Seq(Tokens), NEW t \in Tokens
  PROVE  Destinations(Append(ts, t)) =
           Destinations(ts) \cup (IF t.kind = "destination" THEN {Len(ts) + 1} ELSE {})
<1> DEFINE us == Append(ts, t)
           n == Len(ts)
<1>1. /\ n \in Nat /\ us[n + 1] = t /\ \A j \in 1..n : us[j] = ts[j]
      /\ DOMAIN us = (1..n) \cup {n + 1} /\ DOMAIN ts = 1..n
  OBVIOUS
<1> HIDE DEF us, n
<1>2. CASE t.kind = "destination"
  BY <1>1, <1>2 DEF Destinations, us, n
<1>3. CASE t.kind # "destination"
  BY <1>1, <1>3 DEF Destinations, us, n
<1> QED  BY <1>2, <1>3

\* The loop takes a destination only when it has none.
LEMMA OneDestinationKept ==
  ASSUME ParserInv, OneDestination, NEW t, NEW met, Seen(met), Pushes(t, met)
  PROVE  OneDestination'
<1>1. tokens \in Seq(Tokens) /\ t \in Tokens /\ tokens' = Append(tokens, t)
  BY DEF ParserInv, Read, Pushes
<1>2. Destinations(tokens') =
        Destinations(tokens) \cup (IF t.kind = "destination" THEN {Len(tokens) + 1} ELSE {})
  BY <1>1, DestinationsAppend, Zenon
<1>3. CASE t.kind = "destination"
  <2>1. ~destSeen /\ destSeen' /\ Destinations(tokens) = {}
    BY <1>3 DEF Pushes, OneDestination
  <2>2. Destinations(tokens') = {Len(tokens) + 1}
    BY <1>2, <1>3, <2>1
  <2> QED  BY <2>1, <2>2 DEF OneDestination
<1>4. CASE t.kind # "destination"
  <2>1. destSeen' <=> destSeen
    BY <1>4 DEF Pushes, Seen
  <2>2. Destinations(tokens') = Destinations(tokens)
    BY <1>2, <1>4
  <2> QED  BY <2>1, <2>2 DEF OneDestination
<1> QED  BY <1>3, <1>4

\* A token of the first reading fits those before it.
LEMMA FirstReadingKept ==
  ASSUME ParserInv, FirstReading, ParseArg, phase = "parse"
  PROVE  FirstReading' /\ \E t : Pushes(t, KindsOf(tokens, Len(tokens)))
<1> DEFINE met == KindsOf(tokens, Len(tokens))
<1>1. Seen(met) /\ first = <<>> /\ (host # null => destSeen)
  BY DEF FirstReading
<1>2. PICK t : Pushes(t, met)
  <2> HIDE DEF met
  <2> QED  BY <1>1, ParseArgPushes
<1>3. /\ tokens \in Seq(Tokens) /\ t \in Tokens /\ tokens' = Append(tokens, t) /\ Len(tokens') = Len(tokens) + 1
      /\ i \in 1..Len(argv) /\ Len(argv) \in Nat /\ i <= Len(argv)
  <2>1. Parsing
    BY DEF ParseArg
  <2> QED  BY <1>2, <2>1, ArgIs DEF ParserInv, Read, Pushes
<1>4. phase' = phase /\ argv' = argv /\ first' = first
  BY DEF ParseArg
<1>5. KindsOf(tokens', Len(tokens')) = met \cup {t.kind}
  BY <1>3, KindsOfAppend
<1>6. Fit(tokens)
  BY <1>3 DEF FirstReading
<1>7. (Seen(KindsOf(tokens, Len(tokens))))'
  BY <1>2, <1>5 DEF Pushes, Seen
<1>8. host' # null => destSeen'
  BY <1>1, <1>2 DEF Pushes, Seen
<1>9. Fit(tokens') \/ (i' > Len(argv') /\ ~destSeen')
  <2>1. CASE Fits(t, met)
    BY <1>3, <1>6, <2>1, FitAppend
  <2>2. CASE ~Fits(t, met)
    BY <1>2, <1>3, <1>4, <2>2 DEF Pushes
  <2> QED  BY <2>1, <2>2
<1>10. FirstReading'
  BY <1>1, <1>4, <1>7, <1>8, <1>9 DEF FirstReading
<1> QED  BY <1>2, <1>10

---------------------------------------------------------------------------
(* The branch that is taken for an argument of the second reading.         *)

LEMMA OnlyCommand ==
  ASSUME ParseArg, destSeen, doubleDashSeen \/ arg # <<"--">>
  PROVE  Command
  BY Zenon DEF ParseArg, AfterDoubleDash, MeetDoubleDash, RemoteCommand, SeparateOption,
     JoinedOption, SeparateValue, DanglingFlag, JoinedValue, PlainFlag, Positional,
     BeforeDestination

\* At "--" the loop has one branch.
LEMMA OnlyDoubleDash ==
  ASSUME ParseArg, ~doubleDashSeen, arg = <<"--">>
  PROVE  DoubleDash
  BY Zenon DEF ParseArg, AfterDoubleDash, MeetDoubleDash, RemoteCommand, SeparateOption,
     JoinedOption, SeparateValue, DanglingFlag, JoinedValue, PlainFlag, Positional,
     BeforeDestination

\* At a flag without a value the loop has one branch.
LEMMA OnlyFlag ==
  ASSUME ParseArg, ~destSeen, ~doubleDashSeen, Starts(arg, PlainFlags)
  PROVE  Flag
<1>1. arg # <<>> /\ arg[1] \notin ValueFlags /\ arg[1] # "-o" /\ arg[1] # "--" /\ Dashed
  BY FlagsApart DEF Starts, Dashed
<1>2. arg # <<"--">> /\ arg # <<"-o">> /\ ~Starts(arg, {"-o"}) /\ ~Starts(arg, ValueFlags \ {"-o"})
  BY <1>1 DEF Starts
<1> QED  BY <1>1, <1>2, Zenon DEF ParseArg, AfterDoubleDash, MeetDoubleDash, RemoteCommand,
         SeparateOption, JoinedOption, SeparateValue, DanglingFlag, JoinedValue, PlainFlag,
         Positional, BeforeDestination

\* At a word that is no flag, before the destination, the loop has one branch.
LEMMA OnlyDestination ==
  ASSUME ParseArg, ~destSeen, arg # <<>>, arg[1] = "gwuser"
  PROVE  Destination
<1>1. arg[1] \notin ValueFlags /\ arg[1] \notin PlainFlags /\ arg[1] # "-o" /\ arg[1] # "--"
  BY FlagsApart
<1>2. /\ arg # <<"--">> /\ arg # <<"-o">> /\ ~Starts(arg, {"-o"}) /\ ~Starts(arg, ValueFlags \ {"-o"})
      /\ ~Starts(arg, PlainFlags) /\ ~Starts(arg, ValueFlags)
  BY <1>1 DEF Starts
<1> QED  BY <1>1, <1>2, Zenon DEF ParseArg, AfterDoubleDash, MeetDoubleDash, RemoteCommand,
         SeparateOption, JoinedOption, SeparateValue, DanglingFlag, JoinedValue, PlainFlag,
         Positional, BeforeDestination

\* At a flag whose value follows the loop has one branch.
LEMMA OnlySeparateValue ==
  ASSUME ParseArg, ~destSeen, ~doubleDashSeen, HasNext,
         NEW f \in ValueFlags \ {"-o"}, arg = <<f>>
  PROVE  FlagValue(f, argv[i + 1], FALSE, 2)
<1>1. /\ arg # <<>> /\ arg[1] = f /\ Len(arg) = 1 /\ f \in ValueFlags /\ f # "-o" /\ f # "--"
      /\ f \notin PlainFlags
  <2>1. arg # <<>> /\ arg[1] = f /\ Len(arg) = 1
    OBVIOUS
  <2> QED  BY <2>1, FlagsApart, Zenon
<1>2. /\ arg # <<"--">> /\ ~Starts(arg, {"-o"}) /\ ~Starts(arg, PlainFlags) /\ Dashed
      /\ ~(Len(arg) > 1)
  BY <1>1 DEF Starts, Dashed
<1> QED  BY <1>1, <1>2, Zenon DEF ParseArg, AfterDoubleDash, MeetDoubleDash, RemoteCommand,
         SeparateOption, JoinedOption, SeparateValue, DanglingFlag, JoinedValue, PlainFlag,
         Positional, BeforeDestination

\* At a flag with its value in the same argument the loop has one branch.
LEMMA OnlyJoinedValue ==
  ASSUME ParseArg, ~destSeen, ~doubleDashSeen,
         NEW f \in ValueFlags \ {"-o"}, arg # <<>>, arg[1] = f, Len(arg) > 1,
         Len(arg) # 1
  PROVE  FlagValue(f, Tail(arg), TRUE, 1)
<1>1. f \in ValueFlags /\ f # "-o" /\ f # "--" /\ f \notin PlainFlags /\ Len(arg) # 1
  BY FlagsApart, Zenon
<1>2. /\ arg # <<"--">> /\ ~Starts(arg, {"-o"}) /\ ~Starts(arg, PlainFlags) /\ Dashed
      /\ arg # <<"-o">>
  BY <1>1 DEF Starts, Dashed
<1> QED  BY <1>1, <1>2, Zenon DEF ParseArg, AfterDoubleDash, MeetDoubleDash, RemoteCommand,
         SeparateOption, JoinedOption, SeparateValue, DanglingFlag, JoinedValue, PlainFlag,
         Positional, BeforeDestination

\* At -o the loop has one branch.
LEMMA OnlySeparateOption ==
  ASSUME ParseArg, ~destSeen, ~doubleDashSeen, HasNext, arg = <<"-o">>
  PROVE  Option(argv[i + 1], FALSE, 2)
<1>1. arg # <<>> /\ arg[1] = "-o" /\ Len(arg) = 1 /\ "-o" \notin PlainFlags /\ "-o" \in ValueFlags
  <2>1. arg # <<>> /\ arg[1] = "-o" /\ Len(arg) = 1
    OBVIOUS
  <2> QED  BY <2>1, FlagsApart, Zenon
<1>2. /\ arg # <<"--">> /\ ~Starts(arg, ValueFlags \ {"-o"}) /\ ~Starts(arg, PlainFlags) /\ Dashed
      /\ ~(Len(arg) > 1)
  BY <1>1 DEF Starts, Dashed
<1> QED  BY <1>1, <1>2, Zenon DEF ParseArg, AfterDoubleDash, MeetDoubleDash, RemoteCommand,
         SeparateOption, JoinedOption, SeparateValue, DanglingFlag, JoinedValue, PlainFlag,
         Positional, BeforeDestination

\* At -o with its option in the same argument the loop has one branch.
LEMMA OnlyJoinedOption ==
  ASSUME ParseArg, ~destSeen, ~doubleDashSeen, arg # <<>>, arg[1] = "-o", Len(arg) > 1,
         Len(arg) # 1
  PROVE  Option(Tail(arg), TRUE, 1)
<1>1. "-o" \notin PlainFlags /\ "-o" \in ValueFlags /\ Len(arg) # 1
  BY FlagsApart, Zenon
<1>2. /\ arg # <<"--">> /\ ~Starts(arg, ValueFlags \ {"-o"}) /\ ~Starts(arg, PlainFlags) /\ Dashed
      /\ arg # <<"-o">>
  BY <1>1 DEF Starts, Dashed
<1> QED  BY <1>1, <1>2, Zenon DEF ParseArg, AfterDoubleDash, MeetDoubleDash, RemoteCommand,
         SeparateOption, JoinedOption, SeparateValue, DanglingFlag, JoinedValue, PlainFlag,
         Positional, BeforeDestination

\* The destination hsh writes, read: user and host of the gateway, and no port.
LEMMA AddressIs ==
  /\ Address \in Texts /\ Address # <<>> /\ Address[1] = "gwuser"
  /\ SplitDestination(Address).user = NewUser
  /\ SplitDestination(Address).host = NewHost
  /\ SplitDestination(Address).port = null
<1>1. "gwuser" \in Parts /\ "@" \in Parts /\ "gwhost" \in Parts
  BY DEF Parts
<1>2. NewUser \in Seq(Parts) /\ <<"@">> \in Seq(Parts) /\ NewHost \in Seq(Parts)
  BY TextsAre DEF Texts
<1>3. /\ Len(NewUser) = 1 /\ NewUser[1] = "gwuser" /\ Len(<<"@">>) = 1 /\ <<"@">>[1] = "@"
      /\ Len(NewHost) = 1 /\ NewHost[1] = "gwhost"
  BY DEF NewUser, NewHost
<1>4. /\ Address \in Texts /\ Len(Address) = 3 /\ DOMAIN Address = 1..3
      /\ Address[1] = "gwuser" /\ Address[2] = "@" /\ Address[3] = "gwhost"
  <2> DEFINE sign == <<"@">>
             p == NewUser \o sign
  <2>1. sign \in Seq(Parts) /\ Len(sign) = 1 /\ sign[1] = "@"
    BY <1>2, <1>3
  <2> HIDE DEF sign
  <2>2. /\ p \in Seq(Parts) /\ Len(p) = 1 + 1
        /\ \A j \in 1..1 : p[j] = NewUser[j]
        /\ \A j \in 1..1 : p[1 + j] = sign[j]
    <3>1. /\ p \in Seq(Parts) /\ Len(p) = Len(NewUser) + Len(sign)
          /\ \A j \in 1..Len(NewUser) : p[j] = NewUser[j]
          /\ \A j \in 1..Len(sign) : p[Len(NewUser) + j] = sign[j]
      <4>1. NewUser \in Seq(Parts) /\ sign \in Seq(Parts)
        BY <1>2, <2>1
      <4> QED  BY ONLY <4>1, Joined
    <3> QED  BY <1>3, <2>1, <3>1, Zenon
  <2>3. p \in Seq(Parts) /\ Len(p) = 2 /\ p[1] = "gwuser" /\ p[2] = "@"
    BY <1>3, <2>1, <2>2
  <2> HIDE DEF p
  <2>4. /\ p \o NewHost \in Seq(Parts) /\ Len(p \o NewHost) = 2 + 1
        /\ \A j \in 1..2 : (p \o NewHost)[j] = p[j]
        /\ \A j \in 1..1 : (p \o NewHost)[2 + j] = NewHost[j]
    <3>1. /\ p \o NewHost \in Seq(Parts) /\ Len(p \o NewHost) = Len(p) + Len(NewHost)
          /\ \A j \in 1..Len(p) : (p \o NewHost)[j] = p[j]
          /\ \A j \in 1..Len(NewHost) : (p \o NewHost)[Len(p) + j] = NewHost[j]
      <4>1. p \in Seq(Parts) /\ NewHost \in Seq(Parts)
        BY <1>2, <2>3
      <4> QED  BY ONLY <4>1, Joined
    <3> QED  BY <1>3, <2>3, <3>1, Zenon
  <2>5. Address = p \o NewHost
    BY Zenon DEF Address, p, sign
  <2> HIDE DEF Address
  <2>6. Address \in Seq(Parts) /\ Len(Address) = 3 /\ \A j \in 1..2 : Address[j] = p[j]
    BY <2>4, <2>5
  <2>7. Address[3] = "gwhost"
    BY <1>3, <2>4, <2>5
  <2> QED  BY <2>3, <2>6, <2>7 DEF Texts
<1> HIDE DEF Address
<1>5. ~Starts(Address, {"ssh://"})
  BY <1>4 DEF Starts
<1>6. Positions(Address, "@") = {2}
  BY <1>4 DEF Positions
<1>7. FirstAt(Address, "@") = 2
  BY <1>6, MinIs DEF FirstAt
<1>8. Before(Address, 2) = NewUser /\ After(Address, 2) = NewHost
  <2>1. /\ Before(Address, 2) \in Seq(Parts) /\ Len(Before(Address, 2)) = 1
        /\ Before(Address, 2)[1] = "gwuser"
    BY <1>4 DEF Before, Texts
  <2>2. /\ After(Address, 2) \in Seq(Parts) /\ Len(After(Address, 2)) = 1
        /\ After(Address, 2)[1] = "gwhost"
    BY <1>4 DEF After, Texts
  <2>3. \A j \in 1..1 : j = 1
    OBVIOUS
  <2> QED  BY <1>2, <1>3, <2>1, <2>2, <2>3, SeqEqual
<1> QED  BY <1>4, <1>5, <1>6, <1>7, <1>8 DEF SplitDestination

\* What hsh writes as an option is read as that option.
LEMMA SplitAgain ==
  ASSUME NEW k \in Texts, NEW v \in Texts, Positions(k, "=") = {},
         NEW set, set = k \o <<"=">> \o v
  PROVE  set \in Texts /\ set # <<>> /\ Key(set) = k /\ Value(set) = v
<1> DEFINE sign == <<"=">>
           q == k \o sign
           n == Len(k)
<1>1. /\ sign \in Seq(Parts) /\ Len(sign) = 1 /\ sign[1] = "="
      /\ k \in Seq(Parts) /\ v \in Seq(Parts) /\ n \in Nat /\ Len(v) \in Nat
  BY TextsAre DEF Texts
<1>2. set = q \o v
  OBVIOUS
<1> HIDE DEF sign, n
<1>3. q \in Seq(Parts) /\ Len(q) = n + 1 /\ q[n + 1] = "=" /\ \A j \in 1..n : q[j] = k[j]
  <2>1. k \in Seq(Parts) /\ sign \in Seq(Parts)
    BY <1>1
  <2>2. /\ q \in Seq(Parts) /\ Len(q) = Len(k) + Len(sign)
        /\ \A j \in 1..Len(k) : q[j] = k[j]
        /\ \A j \in 1..Len(sign) : q[Len(k) + j] = sign[j]
    BY ONLY <2>1, Joined
  <2>3. 1 \in 1..Len(sign)
    BY <1>1
  <2> HIDE DEF q
  <2> QED  BY <1>1, <2>2, <2>3 DEF n
<1> HIDE DEF q
<1>4. /\ set \in Seq(Parts) /\ Len(set) = n + 1 + Len(v) /\ set[n + 1] = "="
      /\ \A j \in 1..n : set[j] = k[j]
      /\ \A j \in 1..Len(v) : set[n + 1 + j] = v[j]
  <2>1. q \in Seq(Parts) /\ v \in Seq(Parts)
    BY <1>1, <1>3
  <2>2. /\ q \o v \in Seq(Parts) /\ Len(q \o v) = Len(q) + Len(v)
        /\ \A j \in 1..Len(q) : (q \o v)[j] = q[j]
        /\ \A j \in 1..Len(v) : (q \o v)[Len(q) + j] = v[j]
    BY ONLY <2>1, Joined
  <2>3. n + 1 \in 1..Len(q) /\ \A j \in 1..n : j \in 1..Len(q)
    BY <1>1, <1>3
  <2> QED  BY <1>2, <1>3, <2>2, <2>3
<1> HIDE <1>2
<1>5. Positions(set, "=") # {} /\ FirstAt(set, "=") = n + 1
  <2> DEFINE P == Positions(set, "=")
  <2>1. n + 1 \in P /\ P \in SUBSET Nat
    BY <1>1, <1>4 DEF Positions
  <2>2. \A l \in P : n + 1 <= l
    <3> TAKE l \in P
    <3>1. l \in 1..Len(set) /\ set[l] = "="
      BY <1>4 DEF Positions
    <3>2. CASE l \in 1..n
      <4>1. k[l] = "=" /\ l \in DOMAIN k
        BY <1>1, <1>4, <3>1, <3>2 DEF n
      <4> QED  BY <4>1 DEF Positions
    <3>3. CASE l \notin 1..n
      BY <1>1, <1>4, <3>1, <3>3
    <3> QED  BY <3>2, <3>3
  <2>3. Min(P) = n + 1
    <3> HIDE DEF P
    <3> QED  BY <2>1, <2>2, MinIs
  <2> QED  BY <2>1, <2>3 DEF FirstAt
<1>6. Before(set, n + 1) = k
  <2>1. /\ Before(set, n + 1) \in Seq(Parts) /\ Len(Before(set, n + 1)) = n
        /\ \A j \in 1..n : Before(set, n + 1)[j] = set[j]
    BY <1>1, <1>4 DEF Before
  <2>2. \A j \in 1..Len(k) : Before(set, n + 1)[j] = k[j]
    BY <1>4, <2>1 DEF n
  <2> QED  BY <1>1, <2>1, <2>2, SeqEqual DEF n
<1>7. After(set, n + 1) = v
  <2>1. /\ After(set, n + 1) \in Seq(Parts) /\ Len(After(set, n + 1)) = Len(v)
        /\ \A j \in 1..Len(v) : After(set, n + 1)[j] = set[n + 1 + j]
    <3> DEFINE m == n + 2
    <3>1. /\ m \in 1..(Len(set) + 1) /\ m \in Nat /\ Len(set) \in Nat /\ Len(set) - m + 1 = Len(v)
          /\ (n + 1) + 1 = m
      BY <1>1, <1>4
    <3>2. After(set, n + 1) = SubSeq(set, m, Len(set))
      BY <3>1 DEF After
    <3> HIDE DEF m
    <3>3. /\ SubSeq(set, m, Len(set)) \in Seq(Parts) /\ Len(SubSeq(set, m, Len(set))) = Len(v)
          /\ \A j \in 1..Len(v) : SubSeq(set, m, Len(set))[j] = set[m + j - 1]
      BY <1>1, <1>4, <3>1
    <3>4. \A j \in 1..Len(v) : m + j - 1 = n + 1 + j
      BY <1>1 DEF m
    <3> QED  BY <3>2, <3>3, <3>4
  <2>2. \A j \in 1..Len(v) : After(set, n + 1)[j] = v[j]
    BY <1>4, <2>1
  <2> QED  BY <1>1, <2>1, <2>2, SeqEqual
<1>8. set # <<>>
  BY <1>1, <1>4
<1> QED  BY <1>4, <1>5, <1>6, <1>7, <1>8 DEF Key, Value, Texts

---------------------------------------------------------------------------
(* What the second reading makes of a token of the first.                  *)

\* The loop is at what the token t became.
Faces(t) ==
  /\ Len(Piece(t)) >= 1 => arg = Piece(t)[1]
  /\ Len(Piece(t)) = 2 => HasNext /\ argv[i + 1] = Piece(t)[2]

\* It reads it as that token again, the destination as that of the gateway.
Again(t) ==
  /\ tokens' = tokens \o Image(t) /\ i' = i + Len(Piece(t))
  /\ destSeen' <=> destSeen \/ t.kind = "destination"
  /\ doubleDashSeen' <=> doubleDashSeen \/ t.kind = "double-dash"
  /\ UNCHANGED <<userFromL, portFromFlag, portFromOpt, portFromUri>>
  /\ IF t.kind = "destination" THEN userFromDest' = NewUser /\ host' = NewHost
     ELSE UNCHANGED <<userFromDest, host>>

\* One token more is one behind the others.
LEMMA PushedIs ==
  ASSUME ParserInv, NEW t \in Tokens
  PROVE  Append(tokens, t) = tokens \o <<t>>
<1>1. tokens \in Seq(Tokens)
  BY DEF ParserInv, Read
<1> QED  BY <1>1, AppendIsConcat

\* A word of the command, "--" or a flag is read as what it was.
LEMMA WordAgain ==
  ASSUME ParserInv, ParseArg, NEW met, Seen(met), NEW t \in Tokens, Fits(t, met), Faces(t),
         t.kind \in {"flag", "double-dash", "command"}
  PROVE  Again(t)
<1>1. /\ ~Drops(t) /\ t.kind # "destination" /\ t.flag = <<>> /\ ~t.joined
      /\ t.kind \notin {"flag-value", "option"}
  BY Zenon DEF Drops, Fits
<1>2. Piece(t) = <<t.value>> /\ Image(t) = <<t>>
  <2>1. Render(t) = <<t.value>>
    BY <1>1 DEF Render
  <2> QED  BY <1>1, <2>1, Zenon DEF Piece, Image
<1>3. Len(Piece(t)) = 1 /\ arg = t.value
  <2>1. Len(<<t.value>>) = 1 /\ <<t.value>>[1] = t.value
    OBVIOUS
  <2> QED  BY <1>2, <2>1 DEF Faces
<1>4. t = Token(t.kind, <<>>, arg, FALSE)
  BY <1>1, <1>3, TokenOfParts, Zenon DEF Apart
<1>5. Append(tokens, t) = tokens \o Image(t)
  BY <1>2, PushedIs, Zenon
<1>6. CASE t.kind = "command"
  <2>1. Command
    BY <1>3, <1>6, OnlyCommand DEF Fits, Seen
  <2>2. tokens' = Append(tokens, t) /\ i' = i + 1
    BY <1>4, <1>6, <2>1, Zenon DEF Command, Push
  <2>3. /\ destSeen' = destSeen /\ doubleDashSeen' = doubleDashSeen
        /\ UNCHANGED <<userFromL, portFromFlag, portFromOpt, portFromUri, userFromDest, host>>
    BY <2>1 DEF Command
  <2> QED  BY <1>3, <1>5, <1>6, <2>2, <2>3 DEF Again
<1>7. CASE t.kind = "double-dash"
  <2>1. DoubleDash
    BY <1>3, <1>7, OnlyDoubleDash DEF Fits, Seen
  <2>2. tokens' = Append(tokens, t) /\ i' = i + 1
    <3>1. arg = <<"--">>
      BY <1>3, <1>7 DEF Fits
    <3> QED  BY <1>4, <1>7, <2>1, <3>1, Zenon DEF DoubleDash, Push
  <2>3. /\ destSeen' = destSeen /\ doubleDashSeen' = TRUE
        /\ UNCHANGED <<userFromL, portFromFlag, portFromOpt, portFromUri, userFromDest, host>>
    BY <2>1 DEF DoubleDash
  <2> QED  BY <1>3, <1>5, <1>7, <2>2, <2>3 DEF Again
<1>8. CASE t.kind = "flag"
  <2>1. Flag
    BY <1>3, <1>8, OnlyFlag DEF Fits, Seen
  <2>2. tokens' = Append(tokens, t) /\ i' = i + 1
    BY <1>4, <1>8, <2>1, Zenon DEF Flag, Push
  <2>3. /\ destSeen' = destSeen /\ doubleDashSeen' = doubleDashSeen
        /\ UNCHANGED <<userFromL, portFromFlag, portFromOpt, portFromUri, userFromDest, host>>
    BY <2>1 DEF Flag
  <2> QED  BY <1>3, <1>5, <1>8, <2>2, <2>3 DEF Again
<1> QED  BY <1>6, <1>7, <1>8

\* The destination is read as that of the gateway.
LEMMA DestinationAgain ==
  ASSUME ParserInv, ParseArg, NEW met, Seen(met), NEW t \in Tokens, Fits(t, met), Faces(t),
         t.kind = "destination", portFromUri = null
  PROVE  Again(t)
<1>1. Piece(t) = <<Address>> /\ Image(t) = <<GwDestination>>
  BY Zenon DEF Drops, Piece, Image
<1>2. Len(Piece(t)) = 1 /\ arg = Address
  <2>1. Len(<<Address>>) = 1 /\ <<Address>>[1] = Address
    OBVIOUS
  <2> QED  BY <1>1, <2>1 DEF Faces
<1>3. Destination
  BY <1>2, AddressIs, OnlyDestination DEF Fits, Seen
<1>4. /\ tokens' = Append(tokens, GwDestination) /\ i' = i + 1
      /\ userFromDest' = NewUser /\ host' = NewHost
  BY <1>2, <1>3, AddressIs, Zenon DEF Destination, Push, GwDestination
<1>5. portFromUri' = portFromUri
  <2>1. Or(null, null) = null
    BY DEF Or
  <2> QED  BY <1>2, <1>3, <2>1, AddressIs, Zenon DEF Destination
<1>6. /\ destSeen' = TRUE /\ doubleDashSeen' = doubleDashSeen
      /\ userFromL' = userFromL /\ portFromFlag' = portFromFlag /\ portFromOpt' = portFromOpt
  BY <1>3 DEF Destination
<1>7. Append(tokens, GwDestination) = tokens \o Image(t)
  BY <1>1, GwTokens, PushedIs, Zenon
<1> QED  BY <1>2, <1>4, <1>5, <1>6, <1>7 DEF Again

\* A flag with its value is read as what it was.
LEMMA ValueAgain ==
  ASSUME ParserInv, ParseArg, NEW met, Seen(met), NEW t \in Tokens, Fits(t, met), Faces(t),
         t.kind = "flag-value", ~Drops(t)
  PROVE  Again(t)
<1>1. PICK f \in ValueFlags \ {"-o"} : t.flag = <<f>>
  BY DEF Fits
<1>2. f # "-p" /\ f # "-l"
  BY <1>1 DEF Drops
<1>3. /\ t.flag \in Texts /\ t.value \in Texts /\ f \in Parts
  <2>1. t.flag \in Texts /\ t.value \in Texts
    BY TokenOfParts
  <2>2. t.flag # <<>> /\ t.flag[1] = f
    BY <1>1
  <2> QED  BY <2>1, <2>2, BeginsWith
<1>4. ~destSeen /\ ~doubleDashSeen
  BY DEF Fits, Seen
<1>5. Piece(t) = (IF t.joined THEN <<t.flag \o t.value>> ELSE <<t.flag, t.value>>) /\ Image(t) = <<t>>
  <2>1. Render(t) = IF t.joined THEN <<t.flag \o t.value>> ELSE <<t.flag, t.value>>
    BY DEF Render
  <2>2. t.kind # "destination"
    OBVIOUS
  <2> QED  BY <2>1, <2>2, Zenon DEF Piece, Image
<1>6. Append(tokens, t) = tokens \o Image(t)
  BY <1>5, PushedIs, Zenon
<1>7. CASE ~t.joined
  <2>1. Len(Piece(t)) = 2 /\ Piece(t)[1] = t.flag /\ Piece(t)[2] = t.value
    <3>1. Piece(t) = <<t.flag, t.value>>
      BY <1>5, <1>7
    <3> QED  BY <3>1
  <2>2. arg = <<f>> /\ HasNext /\ argv[i + 1] = t.value
    BY <1>1, <2>1 DEF Faces
  <2>3. FlagValue(f, argv[i + 1], FALSE, 2)
    BY <1>4, <2>2, OnlySeparateValue, Zenon
  <2>4. tokens' = Append(tokens, t) /\ i' = i + 2
    <3>1. Apart(t.kind, t.flag, t.value) = t
      BY <1>7, TokenOfParts
    <3>2. tokens' = Append(tokens, Apart("flag-value", <<f>>, argv[i + 1])) /\ i' = i + 2
      BY <2>3, Zenon DEF FlagValue, Push, Apart
    <3> QED  BY <1>1, <2>2, <3>1, <3>2, Zenon
  <2>5. /\ destSeen' = destSeen /\ doubleDashSeen' = doubleDashSeen
        /\ UNCHANGED <<userFromL, portFromFlag, portFromOpt, portFromUri, userFromDest, host>>
    BY <1>2, <2>3 DEF FlagValue
  <2> QED  BY <1>6, <2>1, <2>4, <2>5 DEF Again
<1>8. CASE t.joined
  <2> DEFINE both == t.flag \o t.value
  <2>1. /\ both \in Texts /\ both[1] = f /\ Tail(both) = t.value
        /\ both # <<>> /\ Len(both) > 1 /\ Len(both) # 1
    <3>1. t.flag \in Seq(Parts) /\ t.value \in Seq(Parts)
      BY <1>3 DEF Texts
    <3>2. /\ both \in Seq(Parts) /\ Len(both) = Len(t.flag) + Len(t.value)
          /\ Len(t.value) \in Nat
          /\ \A j \in 1..Len(t.flag) : both[j] = t.flag[j]
          /\ \A j \in 1..Len(t.value) : both[Len(t.flag) + j] = t.value[j]
      <4> DEFINE a == t.flag
                 b == t.value
      <4>1. a \in Seq(Parts) /\ b \in Seq(Parts)
        BY <3>1
      <4> HIDE DEF a, b
      <4>2. /\ a \o b \in Seq(Parts) /\ Len(a \o b) = Len(a) + Len(b) /\ Len(b) \in Nat
            /\ \A j \in 1..Len(a) : (a \o b)[j] = a[j]
            /\ \A j \in 1..Len(b) : (a \o b)[Len(a) + j] = b[j]
        BY ONLY <4>1, Joined
      <4> QED  BY <4>2, Zenon DEF a, b
    <3>3. Len(t.flag) = 1 /\ t.flag[1] = f /\ Len(t.value) # 0
      <4>1. Len(t.flag) = 1 /\ t.flag[1] = f
        BY <1>1
      <4>2. t.value # <<>>
        BY <1>8 DEF Fits
      <4> QED  BY <3>1, <4>1, <4>2
    <3> HIDE DEF both
    <3>a. /\ both \in Seq(Parts) /\ Len(both) = 1 + Len(t.value) /\ Len(t.value) \in Nat
          /\ \A j \in 1..Len(t.value) : both[1 + j] = t.value[j]
      BY <3>2, <3>3
    <3>4. Len(both) > 1 /\ Len(both) # 1 /\ both[1] = f /\ both # <<>>
      BY <3>2, <3>3
    <3>5. Tail(both) = t.value
      <4>1. Tail(both) \in Seq(Parts) /\ Len(Tail(both)) = Len(both) - 1
        BY <3>a, <3>4
      <4>2. \A j \in 1..Len(t.value) : Tail(both)[j] = t.value[j]
        BY <3>a, <3>4
      <4>3. Len(Tail(both)) = Len(t.value)
        BY <3>a, <4>1
      <4> QED  BY <3>1, <4>1, <4>2, <4>3, SeqEqual
    <3> QED  BY <3>2, <3>4, <3>5 DEF Texts
  <2>2. Piece(t) = <<both>>
    BY <1>5, <1>8
  <2> HIDE DEF both
  <2>3. Len(Piece(t)) = 1 /\ arg = both
    <3>1. Len(<<both>>) = 1 /\ <<both>>[1] = both
      OBVIOUS
    <3> QED  BY <2>2, <3>1 DEF Faces
  <2>4. FlagValue(f, t.value, TRUE, 1)
    <3>1. arg # <<>> /\ arg[1] = f /\ Len(arg) > 1 /\ Len(arg) # 1 /\ Tail(arg) = t.value
      BY <2>1, <2>3
    <3>2. FlagValue(f, Tail(arg), TRUE, 1)
      BY <1>4, <3>1, OnlyJoinedValue, Zenon
    <3> QED  BY <3>1, <3>2, Zenon
  <2>5. tokens' = Append(tokens, t) /\ i' = i + 1
    <3>1. InOne(t.kind, t.flag, t.value) = t
      BY <1>8, TokenOfParts
    <3>2. tokens' = Append(tokens, InOne("flag-value", <<f>>, t.value)) /\ i' = i + 1
      BY <2>4, Zenon DEF FlagValue, Push, InOne
    <3> QED  BY <1>1, <3>1, <3>2, Zenon
  <2>6. /\ destSeen' = destSeen /\ doubleDashSeen' = doubleDashSeen
        /\ UNCHANGED <<userFromL, portFromFlag, portFromOpt, portFromUri, userFromDest, host>>
    BY <1>2, <2>4 DEF FlagValue
  <2> QED  BY <1>6, <2>3, <2>5, <2>6 DEF Again
<1> QED  BY <1>7, <1>8

\* An option is read as what it was.
LEMMA OptionAgain ==
  ASSUME ParserInv, ParseArg, NEW met, Seen(met), NEW t \in Tokens, Fits(t, met), Faces(t),
         t.kind = "option", ~Drops(t)
  PROVE  Again(t)
<1> DEFINE set == t.flag \o <<"=">> \o t.value
           both == <<"-o">> \o set
<1>1. t.flag \in Texts /\ t.value \in Texts /\ t.flag \notin PortKeys /\ Positions(t.flag, "=") = {}
  <2>1. t.flag \in Texts /\ t.value \in Texts
    BY TokenOfParts
  <2>2. t.flag \notin PortKeys
    BY DEF Drops
  <2>3. Positions(t.flag, "=") = {}
    BY DEF Fits
  <2> QED  BY <2>1, <2>2, <2>3
<1>2. set \in Texts /\ set # <<>> /\ Key(set) = t.flag /\ Value(set) = t.value
  <2> DEFINE k == t.flag
             v == t.value
  <2>1. set = k \o <<"=">> \o v /\ k \in Texts /\ v \in Texts /\ Positions(k, "=") = {}
    BY <1>1
  <2> HIDE DEF set, k, v
  <2>2. set \in Texts /\ set # <<>> /\ Key(set) = k /\ Value(set) = v
    BY ONLY <2>1, SplitAgain
  <2> QED  BY <2>2, Zenon DEF k, v
<1>3. ~destSeen /\ ~doubleDashSeen
  BY DEF Fits, Seen
<1>4. Piece(t) = (IF t.joined THEN <<both>> ELSE <<<<"-o">>, set>>) /\ Image(t) = <<t>>
  <2>1. Render(t) = IF t.joined THEN <<both>> ELSE <<<<"-o">>, set>>
    BY DEF Render
  <2>2. t.kind # "destination"
    OBVIOUS
  <2> QED  BY <2>1, <2>2, Zenon DEF Piece, Image
<1> HIDE DEF set, both
<1>5. Append(tokens, t) = tokens \o Image(t)
  BY <1>4, PushedIs, Zenon
<1>6. CASE ~t.joined
  <2>1. Len(Piece(t)) = 2 /\ Piece(t)[1] = <<"-o">> /\ Piece(t)[2] = set
    <3>1. Piece(t) = <<<<"-o">>, set>>
      BY <1>4, <1>6
    <3> QED  BY <3>1
  <2>2. arg = <<"-o">> /\ HasNext /\ argv[i + 1] = set
    BY <2>1 DEF Faces
  <2>3. Option(argv[i + 1], FALSE, 2)
    BY <1>3, <2>2, OnlySeparateOption, Zenon
  <2>4. Option(set, FALSE, 2)
    BY <2>2, <2>3, Zenon
  <2>5. tokens' = Append(tokens, t) /\ i' = i + 2
    <3>1. Apart(t.kind, t.flag, t.value) = t
      BY <1>6, TokenOfParts
    <3>2. tokens' = Append(tokens, Apart("option", Key(set), Value(set))) /\ i' = i + 2
      BY <2>4, Zenon DEF Option, Push, Apart, Key, Value
    <3> QED  BY <1>2, <3>1, <3>2, Zenon
  <2>6. portFromOpt' = portFromOpt
    <3>1. portFromOpt' = IF Key(set) \in PortKeys THEN Value(set) ELSE portFromOpt
      BY <2>4, Zenon DEF Option, Key, Value
    <3> QED  BY <1>1, <1>2, <3>1
  <2>7. /\ destSeen' = destSeen /\ doubleDashSeen' = doubleDashSeen
        /\ UNCHANGED <<userFromL, portFromFlag, portFromUri, userFromDest, host>>
    BY <2>4, Zenon DEF Option
  <2> QED  BY <1>5, <2>1, <2>5, <2>6, <2>7 DEF Again
<1>7. CASE t.joined
  <2>1. both[1] = "-o" /\ Tail(both) = set /\ both # <<>> /\ Len(both) > 1 /\ Len(both) # 1
    <3> DEFINE o == <<"-o">>
    <3>1. o \in Seq(Parts) /\ set \in Seq(Parts) /\ Len(o) = 1 /\ o[1] = "-o" /\ Len(set) \in Nat /\ Len(set) # 0
      BY <1>2, TextsAre DEF Texts
    <3> HIDE DEF o
    <3>2. o \in Seq(Parts) /\ set \in Seq(Parts)
      BY <3>1
    <3>3. /\ o \o set \in Seq(Parts) /\ Len(o \o set) = Len(o) + Len(set)
          /\ \A j \in 1..Len(o) : (o \o set)[j] = o[j]
          /\ \A j \in 1..Len(set) : (o \o set)[Len(o) + j] = set[j]
      BY ONLY <3>2, Joined
    <3>4. both = o \o set
      BY Zenon DEF both, o
    <3>5. /\ both \in Seq(Parts) /\ Len(both) = 1 + Len(set) /\ both[1] = "-o"
          /\ \A j \in 1..Len(set) : both[1 + j] = set[j]
      BY <3>1, <3>3, <3>4
    <3>6. Len(both) > 1 /\ Len(both) # 1 /\ both # <<>>
      BY <3>1, <3>5
    <3>7. Tail(both) = set
      <4>1. Tail(both) \in Seq(Parts) /\ Len(Tail(both)) = Len(both) - 1
        BY <3>5, <3>6
      <4>2. \A j \in 1..Len(set) : Tail(both)[j] = set[j]
        BY <3>1, <3>5, <3>6
      <4>3. Len(Tail(both)) = Len(set)
        BY <3>1, <3>5, <4>1
      <4> QED  BY <3>1, <4>1, <4>2, <4>3, SeqEqual
    <3> QED  BY <3>5, <3>6, <3>7
  <2>2. Len(Piece(t)) = 1 /\ arg = both
    <3>1. Len(<<both>>) = 1 /\ <<both>>[1] = both
      OBVIOUS
    <3> QED  BY <1>4, <1>7, <3>1 DEF Faces
  <2>3. Option(set, TRUE, 1)
    <3>1. arg # <<>> /\ arg[1] = "-o" /\ Len(arg) > 1 /\ Len(arg) # 1 /\ Tail(arg) = set
      BY <2>1, <2>2
    <3>2. Option(Tail(arg), TRUE, 1)
      BY <1>3, <3>1, OnlyJoinedOption, Zenon
    <3> QED  BY <3>1, <3>2, Zenon
  <2>5. tokens' = Append(tokens, t) /\ i' = i + 1
    <3>1. InOne(t.kind, t.flag, t.value) = t
      BY <1>7, TokenOfParts
    <3>2. tokens' = Append(tokens, InOne("option", Key(set), Value(set))) /\ i' = i + 1
      BY <2>3, Zenon DEF Option, Push, InOne, Key, Value
    <3> QED  BY <1>2, <3>1, <3>2, Zenon
  <2>6. portFromOpt' = portFromOpt
    <3>1. portFromOpt' = IF Key(set) \in PortKeys THEN Value(set) ELSE portFromOpt
      BY <2>3, Zenon DEF Option, Key, Value
    <3> QED  BY <1>1, <1>2, <3>1
  <2>7. /\ destSeen' = destSeen /\ doubleDashSeen' = doubleDashSeen
        /\ UNCHANGED <<userFromL, portFromFlag, portFromUri, userFromDest, host>>
    BY <2>3, Zenon DEF Option
  <2> QED  BY <1>5, <2>2, <2>5, <2>6, <2>7 DEF Again
<1> QED  BY <1>6, <1>7

\* Each token that stays is read as what it was.
LEMMA TokenAgain ==
  ASSUME ParserInv, ParseArg, NEW met, Seen(met), NEW t \in Tokens, Fits(t, met), Faces(t),
         ~Drops(t), portFromUri = null
  PROVE  Again(t)
<1>1. t.kind \in {"flag", "double-dash", "command"} \/ t.kind = "destination"
      \/ t.kind = "flag-value" \/ t.kind = "option"
  BY TokenOfParts DEF Kinds
<1> QED  BY <1>1, WordAgain, DestinationAgain, ValueAgain, OptionAgain, Zenon

---------------------------------------------------------------------------
(* The second reading.                                                     *)

\* The argv the loop runs over is the one made of the user's tokens.
OfUser ==
  /\ first \in Seq(Tokens) /\ Fit(first)
  /\ "destination" \in KindsOf(first, Len(first))
  /\ argv = RewrittenOf(first)

Unread ==
  /\ i = 1 /\ tokens = <<>>
  /\ userFromL = null /\ portFromOpt = null /\ portFromUri = null
  /\ ~destSeen /\ ~doubleDashSeen

\* It has read what the first k of them became.
Reread(k) ==
  /\ tokens = TokensUpTo(first, k) /\ i = Len(ArgsUpTo(first, k)) + 1
  /\ Seen(KindsOf(first, k))
  /\ userFromL = null /\ portFromOpt = null /\ portFromUri = null /\ portFromFlag = NewPort
  /\ destSeen => userFromDest = NewUser /\ host = NewHost

SecondReading ==
  /\ phase = "reparse" => OfUser /\ (Unread \/ \E k \in 0..Len(first) : Reread(k))
  /\ phase = "done" /\ first # <<>> => OfUser /\ Reread(Len(first))

\* One more of the tokens adds its kind.
LEMMA KindsOfNext ==
  ASSUME NEW ts, NEW k \in Nat
  PROVE  /\ KindsOf(ts, 0) = {}
         /\ KindsOf(ts, k + 1) = KindsOf(ts, k) \cup {ts[k + 1].kind}
<1>1. 1..0 = {} /\ 1..(k + 1) = (1..k) \cup {k + 1}
  OBVIOUS
<1> QED  BY <1>1, Zenon DEF KindsOf

\* A token that stays becomes one argument or two.
LEMMA PieceIs ==
  ASSUME NEW t \in Tokens
  PROVE  /\ Drops(t) => Len(Piece(t)) = 0 /\ Image(t) = <<>>
         /\ ~Drops(t) => Len(Piece(t)) \in {1, 2}
<1>1. ASSUME Drops(t)
      PROVE  Len(Piece(t)) = 0 /\ Image(t) = <<>>
  <2>1. Piece(t) = <<>> /\ Image(t) = <<>>
    BY <1>1, Zenon DEF Piece, Image
  <2> QED  BY <2>1
<1>2. ASSUME ~Drops(t), t.kind = "destination"
      PROVE  Len(Piece(t)) \in {1, 2}
  <2>1. Piece(t) = <<Address>>
    BY <1>2, Zenon DEF Piece
  <2> QED  BY <2>1
<1>3. ASSUME ~Drops(t), t.kind # "destination"
      PROVE  Len(Piece(t)) \in {1, 2}
  <2>1. Piece(t) = Render(t)
    BY <1>3, Zenon DEF Piece
  <2> DEFINE both == t.flag \o t.value
             set == t.flag \o <<"=">> \o t.value
             joint == <<"-o">> \o set
  <2>2. Render(t) \in {<<both>>, <<t.flag, t.value>>, <<joint>>, <<<<"-o">>, set>>, <<t.value>>}
    <3>1. CASE t.kind = "flag-value"
      BY <3>1 DEF Render
    <3>2. CASE t.kind = "option"
      BY <3>2 DEF Render
    <3>3. CASE t.kind \notin {"flag-value", "option"}
      BY <3>3 DEF Render
    <3> QED  BY <3>1, <3>2, <3>3
  <2> HIDE DEF both, set, joint
  <2>3. /\ Len(<<both>>) = 1 /\ Len(<<t.flag, t.value>>) = 2 /\ Len(<<joint>>) = 1
        /\ Len(<<<<"-o">>, set>>) = 2 /\ Len(<<t.value>>) = 1
    OBVIOUS
  <2> QED  BY <2>1, <2>2, <2>3
<1> QED  BY <1>1, <1>2, <1>3

\* What became nothing is read by reading nothing.
LEMMA DroppedIsRead ==
  ASSUME first \in Seq(Tokens), NEW k \in 0..(Len(first) - 1), Reread(k), Drops(first[k + 1])
  PROVE  Reread(k + 1)
<1> DEFINE t == first[k + 1]
           at == Len(ArgsUpTo(first, k))
<1>1. t \in Tokens /\ k \in Nat
  OBVIOUS
<1>2. /\ TokensUpTo(first, k) \in Seq(Tokens)
      /\ TokensUpTo(first, k + 1) = TokensUpTo(first, k) \o Image(t)
      /\ at \in Nat /\ Len(ArgsUpTo(first, k + 1)) = at + Len(Piece(t))
  <2>1. t = first[k + 1] /\ at = Len(ArgsUpTo(first, k))
    OBVIOUS
  <2> HIDE DEF t, at
  <2> QED  BY <2>1, UpToNext
<1>3. Len(Piece(t)) = 0 /\ Image(t) = <<>>
  BY <1>1, PieceIs, Zenon
<1>4. TokensUpTo(first, k + 1) = TokensUpTo(first, k)
  <2> DEFINE u == TokensUpTo(first, k)
  <2>1. u \in Seq(Tokens)
    BY <1>2
  <2> HIDE DEF u
  <2>2. u \o <<>> = u
    BY <2>1, ConcatEmptySeq
  <2> QED  BY <1>2, <1>3, <2>2 DEF u
<1>5. Len(ArgsUpTo(first, k + 1)) = at
  BY <1>2, <1>3
<1>6. KindsOf(first, k + 1) = KindsOf(first, k) \cup {t.kind}
  BY <1>1, KindsOfNext
<1>7. t.kind # "destination" /\ t.kind # "double-dash"
  BY Zenon DEF Drops
<1>8. Seen(KindsOf(first, k + 1))
  <2>1. Seen(KindsOf(first, k))
    BY Zenon DEF Reread
  <2> HIDE DEF t
  <2> QED  BY <1>6, <1>7, <2>1 DEF Seen
<1> QED  BY <1>4, <1>5, <1>8, Zenon DEF Reread

\* So the next token stays, if there is one.
LEMMA LastReread ==
  ASSUME OfUser, NEW l \in 0..Len(first), Reread(l)
  PROVE  \E k \in 0..Len(first) : Reread(k) /\ (k = Len(first) \/ ~Drops(first[k + 1]))
<1> DEFINE K == {m \in 0..Len(first) : Reread(m)}
<1>1. first \in Seq(Tokens) /\ Len(first) \in Nat
  BY DEF OfUser
<1>2. PICK k \in K : \A m \in K : m <= k
  <2>1. K \in SUBSET (0..Len(first)) /\ K # {}
    OBVIOUS
  <2> HIDE DEF K
  <2> QED  BY <1>1, <2>1, LastOfSet
<1>3. ASSUME k # Len(first), Drops(first[k + 1])
      PROVE  FALSE
  <2>1. k \in 0..(Len(first) - 1) /\ k + 1 \in 0..Len(first) /\ Reread(k) /\ k \in Nat
    BY <1>1, <1>3
  <2>2. Reread(k + 1)
    BY <1>1, <1>3, <2>1, DroppedIsRead
  <2>3. k + 1 \in K
    BY <2>1, <2>2
  <2> HIDE DEF K
  <2>4. k + 1 <= k
    BY <1>2, <2>3
  <2> QED  BY <2>1, <2>4
<1> QED  BY <1>3

\* The loop is then at what that token became.
LEMMA RereadFaces ==
  ASSUME OfUser, NEW k \in 0..(Len(first) - 1), Reread(k)
  PROVE  Faces(first[k + 1]) /\ i + Len(Piece(first[k + 1])) <= Len(argv) + 1
<1> DEFINE t == first[k + 1]
           at == Len(ArgsUpTo(first, k))
<1>1. first \in Seq(Tokens) /\ argv = RewrittenOf(first) /\ i = at + 1
  BY Zenon DEF OfUser, Reread
<1>2. /\ at \in Nat /\ Len(Piece(t)) \in Nat /\ at + Len(Piece(t)) <= Len(RewrittenOf(first))
      /\ \A j \in 1..Len(Piece(t)) : RewrittenOf(first)[at + j] = Piece(t)[j]
  <2>1. t = first[k + 1] /\ at = Len(ArgsUpTo(first, k))
    OBVIOUS
  <2> HIDE DEF t, at
  <2> QED  BY <1>1, <2>1, UpToNext, SMTT(30)
<1>3. Len(argv) \in Nat
  <2>1. RewrittenOf(first) \in Seq(Texts)
    BY <1>1, UpToNone, Zenon
  <2> QED  BY <1>1, <2>1
<1> HIDE DEF t, at
<1>4. Len(Piece(t)) >= 1 => arg = Piece(t)[1]
  BY <1>1, <1>2 DEF arg
<1>5. Len(Piece(t)) = 2 => HasNext /\ argv[i + 1] = Piece(t)[2]
  <2> SUFFICES ASSUME Len(Piece(t)) = 2
               PROVE  HasNext /\ argv[i + 1] = Piece(t)[2]
    OBVIOUS
  <2>1. at + 2 <= Len(argv) /\ argv[at + 2] = Piece(t)[2] /\ i + 1 = at + 2
    BY <1>1, <1>2
  <2>2. i < Len(argv)
    BY <1>1, <1>2, <1>3, <2>1
  <2> QED  BY <2>1, <2>2 DEF HasNext
<1>6. i + Len(Piece(t)) <= Len(argv) + 1
  BY <1>1, <1>2, <1>3
<1> QED  BY <1>4, <1>5, <1>6 DEF Faces, t

\* At the end of the argv all of them are read.
LEMMA AllReread ==
  ASSUME OfUser, NEW l \in 0..Len(first), Reread(l), i > Len(argv)
  PROVE  Reread(Len(first))
<1>1. first \in Seq(Tokens) /\ Len(first) \in Nat
  BY DEF OfUser
<1>2. PICK k \in 0..Len(first) : Reread(k) /\ (k = Len(first) \/ ~Drops(first[k + 1]))
  BY LastReread
<1>3. CASE k # Len(first)
  <2>1. k \in 0..(Len(first) - 1) /\ first[k + 1] \in Tokens
    BY <1>1, <1>3
  <2>2. i + Len(Piece(first[k + 1])) <= Len(argv) + 1
    BY <1>2, <2>1, RereadFaces
  <2>3. Len(Piece(first[k + 1])) \in {1, 2}
    BY <1>2, <1>3, <2>1, PieceIs
  <2>4. i \in Nat /\ Len(argv) \in Nat
    <3>1. RewrittenOf(first) \in Seq(Texts) /\ argv = RewrittenOf(first)
      BY <1>1, UpToNone, Zenon DEF OfUser
    <3>2. i = Len(ArgsUpTo(first, k)) + 1 /\ Len(ArgsUpTo(first, k)) \in Nat
      <4>1. Len(ArgsUpTo(first, k)) \in Nat
        BY <1>1, <2>1, UpToNext
      <4> QED  BY <1>2, <4>1, Zenon DEF Reread
    <3> QED  BY <3>1, <3>2
  <2> DEFINE n == Len(argv)
             m == Len(Piece(first[k + 1]))
  <2>5. i + m <= n + 1 /\ m \in {1, 2} /\ i \in Nat /\ n \in Nat /\ i > n
    BY <2>2, <2>3, <2>4
  <2> HIDE DEF n, m
  <2> QED  BY <2>5
<1> QED  BY <1>2, <1>3

\* A step of the loop reads the next token that stays.
LEMMA RereadStep ==
  ASSUME ParserInv, ParseArg, OfUser, NEW l \in 0..Len(first), Reread(l)
  PROVE  \E k \in 0..Len(first) : (Reread(k))'
<1>1. first \in Seq(Tokens) /\ Len(first) \in Nat /\ Parsing /\ first' = first
  BY DEF OfUser, ParseArg
<1>2. PICK k \in 0..Len(first) : Reread(k) /\ (k = Len(first) \/ ~Drops(first[k + 1]))
  BY LastReread
<1>3. k # Len(first)
  <2> SUFFICES ASSUME k = Len(first)
               PROVE  FALSE
    OBVIOUS
  <2>1. ArgsUpTo(first, k) = argv
    BY <1>1, UpToNone, Zenon DEF OfUser
  <2>2. i = Len(argv) + 1
    BY <1>2, <2>1, Zenon DEF Reread
  <2>3. i \in 1..Len(argv) /\ Len(argv) \in Nat
    BY <1>1, ArgIs
  <2> QED  BY <2>2, <2>3
<1> DEFINE t == first[k + 1]
           at == Len(ArgsUpTo(first, k))
<1>4. k \in 0..(Len(first) - 1) /\ k + 1 \in 0..Len(first) /\ k + 1 \in 1..Len(first) /\ k \in Nat
      /\ (k + 1) - 1 = k /\ t \in Tokens /\ ~Drops(t)
  BY <1>1, <1>2, <1>3
<1>5. Faces(t)
  BY <1>2, <1>4, RereadFaces
<1>6. Fits(t, KindsOf(first, k))
  <2>1. Fits(first[k + 1], KindsOf(first, (k + 1) - 1))
    BY <1>4, Zenon DEF OfUser, Fit
  <2> QED  BY <1>4, <2>1, Zenon
<1>7. /\ TokensUpTo(first, k + 1) = TokensUpTo(first, k) \o Image(t)
      /\ at \in Nat /\ Len(ArgsUpTo(first, k + 1)) = at + Len(Piece(t)) /\ Len(Piece(t)) \in Nat
  <2>1. t = first[k + 1] /\ at = Len(ArgsUpTo(first, k))
    OBVIOUS
  <2>2. first \in Seq(Tokens) /\ k \in 0..(Len(first) - 1)
    BY <1>1, <1>4
  <2> HIDE DEF t, at
  <2> QED  BY ONLY <2>1, <2>2, UpToNext
<1>8. KindsOf(first, k + 1) = KindsOf(first, k) \cup {t.kind}
  BY <1>4, KindsOfNext
<1>9. /\ tokens = TokensUpTo(first, k) /\ i = at + 1 /\ Seen(KindsOf(first, k))
      /\ userFromL = null /\ portFromOpt = null /\ portFromUri = null /\ portFromFlag = NewPort
      /\ (destSeen => userFromDest = NewUser /\ host = NewHost)
  BY <1>2, Zenon DEF Reread
<1> HIDE DEF t, at
<1>10. Again(t)
  BY <1>4, <1>5, <1>6, <1>9, TokenAgain, Zenon
<1>11. tokens' = TokensUpTo(first, k + 1) /\ i' = Len(ArgsUpTo(first, k + 1)) + 1
  <2>1. tokens' = tokens \o Image(t) /\ i' = i + Len(Piece(t))
    BY <1>10, Zenon DEF Again
  <2> QED  BY <1>7, <1>9, <2>1
<1>12. (Seen(KindsOf(first, k + 1)))'
  <2>1. /\ destSeen' <=> destSeen \/ t.kind = "destination"
        /\ doubleDashSeen' <=> doubleDashSeen \/ t.kind = "double-dash"
    BY <1>10, Zenon DEF Again
  <2>2. KindsOf(first', k + 1) = KindsOf(first, k) \cup {t.kind}
    BY <1>1, <1>8, Zenon
  <2> QED  BY <1>9, <2>1, <2>2 DEF Seen
<1>13. /\ userFromL' = null /\ portFromOpt' = null /\ portFromUri' = null /\ portFromFlag' = NewPort
       /\ destSeen' => userFromDest' = NewUser /\ host' = NewHost
  BY <1>9, <1>10 DEF Again
<1>14. (Reread(k + 1))'
  BY <1>1, <1>11, <1>12, <1>13, Zenon DEF Reread
<1> QED  BY <1>4, <1>14, Zenon

\* The first step reads the port of the gateway.
LEMMA PortIsRead ==
  ASSUME ParserInv, ParseArg, OfUser, Unread
  PROVE  (Reread(0))'
<1>1. first \in Seq(Tokens) /\ first' = first /\ i = 1 /\ tokens = <<>>
      /\ ~destSeen /\ ~doubleDashSeen
  BY DEF OfUser, ParseArg, Unread
<1>2. /\ TokensUpTo(first, 0) = <<GwPort>> /\ Len(ArgsUpTo(first, 0)) = 2
      /\ argv[1] = <<"-p">> /\ argv[2] = NewPort /\ Len(argv) >= 2
  BY <1>1, UpToNone, Zenon DEF OfUser
<1>3. Len(argv) \in Nat
  BY DEF ParserInv, Read
<1>4. arg = <<"-p">> /\ HasNext /\ argv[i + 1] = NewPort
  BY <1>1, <1>2, <1>3 DEF arg, HasNext
<1>5. FlagValue("-p", argv[i + 1], FALSE, 2)
  <2>1. "-p" \in ValueFlags \ {"-o"}
    BY FlagsApart
  <2> QED  BY <1>1, <1>4, <2>1, OnlySeparateValue, Zenon
<1>6. tokens' = Append(tokens, GwPort) /\ i' = i + 2 /\ portFromFlag' = argv[i + 1]
  BY <1>4, <1>5, Zenon DEF FlagValue, Push, GwPort
<1>7. /\ userFromL' = userFromL /\ portFromOpt' = portFromOpt /\ portFromUri' = portFromUri
      /\ destSeen' = destSeen /\ doubleDashSeen' = doubleDashSeen
  BY <1>5 DEF FlagValue
<1>8. Append(<<>>, GwPort) = <<GwPort>>
  OBVIOUS
<1>9. tokens' = TokensUpTo(first', 0)
  BY <1>1, <1>2, <1>6, <1>8, Zenon
<1>10. i' = Len(ArgsUpTo(first', 0)) + 1
  <2>1. Len(ArgsUpTo(first', 0)) = 2
    BY <1>1, <1>2, Zenon
  <2>2. i' = 1 + 2
    BY <1>1, <1>6, Zenon
  <2>3. 1 + 2 = 2 + 1
    OBVIOUS
  <2> QED  BY <2>1, <2>2, <2>3, Zenon
<1>11. (Seen(KindsOf(first, 0)))'
  <2>1. KindsOf(first', 0) = {}
    BY KindsOfNext
  <2> QED  BY <1>1, <1>7, <2>1 DEF Seen
<1>12. userFromL' = null /\ portFromOpt' = null /\ portFromUri' = null /\ portFromFlag' = NewPort
  BY <1>4, <1>6, <1>7 DEF Unread
<1>13. ~destSeen'
  BY <1>1, <1>7
<1> QED  BY <1>9, <1>10, <1>11, <1>12, <1>13, Zenon DEF Reread

LoopInv == ParserInv /\ OneDestination /\ FirstReading /\ SecondReading

\* At the start nothing is read, and there was no first reading.
LEMMA LoopInit == Init => LoopInv
<1> SUFFICES ASSUME Init
             PROVE  LoopInv
  OBVIOUS
<1>1. PICK given : SshInit(given)
  BY DEF Init
<1>2. /\ phase = "parse" /\ tokens = <<>> /\ first = <<>> /\ host = null
      /\ ~destSeen /\ ~doubleDashSeen
  BY <1>1 DEF SshInit
<1>3. Len(<<>>) = 0 /\ DOMAIN <<>> = {} /\ 1..0 = {}
  OBVIOUS
<1>4. OneDestination
  BY <1>2, <1>3 DEF OneDestination, Destinations
<1>5. FirstReading
  BY <1>2, <1>3 DEF FirstReading, Seen, KindsOf, Fit
<1>6. SecondReading
  BY <1>2 DEF SecondReading
<1> QED  BY <1>4, <1>5, <1>6, ParserInit DEF LoopInv

\* A step of the loop, in either reading.
LEMMA LoopParses == LoopInv /\ ParseArg => (OneDestination /\ FirstReading /\ SecondReading)'
<1> SUFFICES ASSUME LoopInv, ParseArg
             PROVE  (OneDestination /\ FirstReading /\ SecondReading)'
  OBVIOUS
<1>1. ParserInv /\ OneDestination /\ FirstReading /\ SecondReading
  BY DEF LoopInv
<1>2. phase' = phase /\ argv' = argv /\ first' = first /\ phase \in {"parse", "reparse"}
  BY DEF ParseArg, Parsing
<1>3. CASE phase = "parse"
  <2>1. FirstReading' /\ \E t : Pushes(t, KindsOf(tokens, Len(tokens)))
    BY <1>1, <1>3, FirstReadingKept
  <2>2. Seen(KindsOf(tokens, Len(tokens)))
    BY <1>1, <1>3 DEF FirstReading
  <2>3. OneDestination'
    BY <1>1, <2>1, <2>2, OneDestinationKept, Zenon
  <2>4. SecondReading'
    BY <1>2, <1>3 DEF SecondReading
  <2> QED  BY <2>1, <2>3, <2>4
<1>4. CASE phase = "reparse"
  <2>1. OfUser /\ (Unread \/ \E k \in 0..Len(first) : Reread(k))
    BY <1>1, <1>4, Zenon DEF SecondReading
  <2>2. \E met : Seen(met)
    <3>1. CASE Unread
      <4>1. Seen({})
        BY <3>1 DEF Unread, Seen
      <4> QED  BY <4>1
    <3>2. CASE ~Unread
      BY <2>1, <3>2, Zenon DEF Reread
    <3> QED  BY <3>1, <3>2
  <2>3. OneDestination'
    BY <1>1, <2>2, ParseArgPushes, OneDestinationKept, Zenon
  <2>4. \E k \in 0..Len(first) : (Reread(k))'
    <3>1. CASE Unread
      <4>1. 0 \in 0..Len(first)
        BY <2>1 DEF OfUser
      <4> QED  BY <1>1, <2>1, <3>1, <4>1, PortIsRead, Zenon
    <3>2. CASE ~Unread
      BY <1>1, <2>1, <3>2, RereadStep, Zenon
    <3> QED  BY <3>1, <3>2
  <2>5. OfUser'
    BY <1>2, <2>1, Zenon DEF OfUser
  <2>6. (\E k \in 0..Len(first) : Reread(k))'
    BY <1>2, <2>4, Zenon
  <2>7. FirstReading' /\ SecondReading'
    BY <1>2, <1>4, <2>5, <2>6 DEF FirstReading, SecondReading
  <2> QED  BY <2>3, <2>7
<1> QED  BY <1>2, <1>3, <1>4

\* The rewriting: the first reading ends, the second begins.
LEMMA LoopRewrites == LoopInv /\ Rewrite => (OneDestination /\ FirstReading /\ SecondReading)'
<1> SUFFICES ASSUME LoopInv, Rewrite
             PROVE  (OneDestination /\ FirstReading /\ SecondReading)'
  OBVIOUS
<1>1. ParserInv /\ FirstReading /\ tokens \in Seq(Tokens)
  BY DEF LoopInv, ParserInv, Read
<1>2. /\ phase = "parse" /\ host # null /\ phase' = "reparse"
      /\ first' = tokens /\ argv' = Rewritten
  BY DEF Rewrite
<1>3. /\ i' = 1 /\ tokens' = <<>> /\ userFromL' = null /\ portFromOpt' = null /\ portFromUri' = null
      /\ destSeen' = FALSE /\ doubleDashSeen' = FALSE
  BY DEF Rewrite, Reset
<1>4. Fit(tokens) /\ "destination" \in KindsOf(tokens, Len(tokens))
  BY <1>1, <1>2 DEF FirstReading, Seen
<1>5. OfUser'
  BY <1>1, <1>2, <1>4, RewrittenIs, Zenon DEF OfUser
<1>6. Unread'
  BY <1>3 DEF Unread
<1>7. OneDestination'
  <2>1. DOMAIN <<>> = {}
    OBVIOUS
  <2> QED  BY <1>3, <2>1 DEF OneDestination, Destinations
<1>8. FirstReading' /\ SecondReading'
  BY <1>2, <1>5, <1>6 DEF FirstReading, SecondReading
<1> QED  BY <1>7, <1>8

\* The end of the second reading.
LEMMA LoopStops == LoopInv /\ Stop => (OneDestination /\ FirstReading /\ SecondReading)'
<1> SUFFICES ASSUME LoopInv, Stop
             PROVE  (OneDestination /\ FirstReading /\ SecondReading)'
  OBVIOUS
<1>1. ParserInv /\ OneDestination /\ FirstReading /\ SecondReading
  BY DEF LoopInv
<1>2. /\ phase' = "done" /\ argv' = argv /\ first' = first /\ UNCHANGED loop
      /\ phase \in {"parse", "reparse"} /\ i > Len(argv)
  BY DEF Stop
<1>3. OneDestination'
  BY <1>1, <1>2 DEF OneDestination, Destinations, loop
<1>4. FirstReading'
  BY <1>2 DEF FirstReading
<1>5. CASE phase = "parse"
  <2>1. first' = <<>>
    BY <1>1, <1>2, <1>5 DEF FirstReading
  <2>2. SecondReading'
    BY <1>2, <2>1 DEF SecondReading
  <2> QED  BY <1>3, <1>4, <2>2
<1>6. CASE phase = "reparse"
  <2>1. OfUser /\ (Unread \/ \E k \in 0..Len(first) : Reread(k))
    BY <1>1, <1>6, Zenon DEF SecondReading
  <2>2. ~Unread
    <3>1. Len(RewrittenOf(first)) >= 2 /\ argv = RewrittenOf(first) /\ RewrittenOf(first) \in Seq(Texts)
      BY <2>1, UpToNone, Zenon DEF OfUser
    <3>2. Len(argv) \in Nat /\ Len(argv) >= 2
      BY <3>1
    <3>3. i # 1
      BY <1>2, <3>2
    <3> QED  BY <3>3 DEF Unread
  <2>3. Reread(Len(first))
    BY <1>2, <2>1, <2>2, AllReread, Zenon
  <2>4. OfUser'
    BY <1>2, <2>1, Zenon DEF OfUser
  <2>5. (Reread(Len(first)))'
    <3>1. /\ i' = i /\ tokens' = tokens /\ userFromL' = userFromL /\ portFromOpt' = portFromOpt
          /\ portFromUri' = portFromUri /\ portFromFlag' = portFromFlag /\ destSeen' = destSeen
          /\ doubleDashSeen' = doubleDashSeen /\ userFromDest' = userFromDest /\ host' = host
      BY <1>2 DEF loop
    <3> QED  BY <1>2, <2>3, <3>1, Zenon DEF Reread, Seen
  <2> QED  BY <1>2, <1>3, <1>4, <2>4, <2>5 DEF SecondReading
<1> QED  BY <1>2, <1>3, <1>4, <1>5, <1>6

\* Every step keeps the invariant of the two readings.
LEMMA LoopNext == LoopInv /\ [Next]_argumentVars => LoopInv'
<1> SUFFICES ASSUME LoopInv, [Next]_argumentVars
             PROVE  LoopInv'
  OBVIOUS
<1>1. ParserInv'
  BY ParserNext DEF LoopInv
<1>2. CASE question.what = "ssh" /\ SshNext
  <2>1. (OneDestination /\ FirstReading /\ SecondReading)'
    BY <1>2, LoopParses, LoopRewrites, LoopStops DEF SshNext
  <2> QED  BY <1>1, <2>1 DEF LoopInv
<1>3. CASE UNCHANGED sshVars
  <2>1. /\ phase' = phase /\ argv' = argv /\ first' = first /\ i' = i /\ tokens' = tokens
        /\ userFromL' = userFromL /\ portFromOpt' = portFromOpt
        /\ portFromUri' = portFromUri /\ portFromFlag' = portFromFlag /\ destSeen' = destSeen
        /\ doubleDashSeen' = doubleDashSeen /\ userFromDest' = userFromDest /\ host' = host
    BY <1>3 DEF sshVars, loop
  <2>2. OneDestination' /\ FirstReading'
    BY <2>1, Zenon DEF LoopInv, OneDestination, FirstReading, Seen
  <2>3. SecondReading'
    BY <2>1, Zenon DEF LoopInv, SecondReading, OfUser, Unread, Reread, Seen
  <2> QED  BY <1>1, <2>2, <2>3 DEF LoopInv
<1> QED  BY <1>2, <1>3 DEF Next, Answer, argumentVars

---------------------------------------------------------------------------
(* What is kept of the user's arguments.                                   *)

\* Neither the destination, nor a port or a user of the user's.
Keep(t) ==
  IF t.kind # "destination" /\ t.flag \notin {<<"-p">>, <<"-l">>} \cup PortKeys THEN <<t>> ELSE <<>>

Kept(s) == FlattenSeq([k \in DOMAIN s |-> Keep(s[k])])

\* One more token is kept or not, whatever came before.
LEMMA KeptAppend ==
  ASSUME NEW s \in Seq(Tokens), NEW t \in Tokens
  PROVE  Kept(s) \in Seq(Tokens) /\ Kept(Append(s, t)) = Kept(s) \o Keep(t)
<1> DEFINE f == [k \in DOMAIN s |-> Keep(s[k])]
           us == Append(s, t)
           g == [k \in DOMAIN us |-> Keep(us[k])]
           n == Len(s)
<1>1. \A x \in Tokens : Keep(x) \in Seq(Tokens)
  <2> TAKE x \in Tokens
  <2>1. <<x>> \in Seq(Tokens) /\ <<>> \in Seq(Tokens)
    OBVIOUS
  <2> QED  BY <2>1, Zenon DEF Keep
<1>2. n \in Nat /\ DOMAIN s = 1..n /\ \A k \in 1..n : s[k] \in Tokens
  OBVIOUS
<1>3. us \in Seq(Tokens) /\ DOMAIN us = 1..(n + 1) /\ us[n + 1] = t /\ \A k \in 1..n : us[k] = s[k]
  OBVIOUS
<1> HIDE DEF us, n
<1>4. f = [k \in 1..n |-> Keep(s[k])] /\ g = [k \in 1..(n + 1) |-> Keep(us[k])]
  BY <1>2, <1>3, Zenon
<1> HIDE DEF f, g
<1>5. f \in Seq(Seq(Tokens)) /\ Len(f) = n
  <2>1. \A k \in 1..n : Keep(s[k]) \in Seq(Tokens)
    BY <1>1, <1>2, Zenon
  <2>2. f = [k \in 1..n |-> Keep(s[k])]
    BY <1>4
  <2>3. n \in Nat
    BY <1>2
  <2> QED  BY ONLY <2>1, <2>2, <2>3, SMTT(30)
<1>6. /\ Append(f, Keep(t)) \in Seq(Seq(Tokens)) /\ Len(Append(f, Keep(t))) = n + 1
      /\ Append(f, Keep(t))[n + 1] = Keep(t)
      /\ \A k \in 1..n : Append(f, Keep(t))[k] = Keep(s[k])
  <2> DEFINE y == Keep(t)
  <2>1. y \in Seq(Tokens)
    BY <1>1
  <2> HIDE DEF y
  <2>2. /\ Append(f, y) \in Seq(Seq(Tokens)) /\ Len(Append(f, y)) = n + 1
        /\ Append(f, y)[n + 1] = y /\ \A k \in 1..n : Append(f, y)[k] = f[k]
    BY <1>2, <1>5, <2>1
  <2> QED  BY <1>2, <1>4, <2>2 DEF y
<1>7. /\ g \in Seq(Seq(Tokens)) /\ Len(g) = n + 1 /\ g[n + 1] = Keep(t)
      /\ \A k \in 1..n : g[k] = Keep(s[k])
  <2>1. \A k \in 1..(n + 1) : Keep(us[k]) \in Seq(Tokens)
    <3> TAKE k \in 1..(n + 1)
    <3>1. us[k] \in Tokens
      <4>1. k \in 1..n \/ k = n + 1
        BY <1>2
      <4> QED  BY <1>2, <1>3, <4>1
    <3> QED  BY <1>1, <3>1, Zenon
  <2> QED  BY <1>2, <1>3, <1>4, <2>1
<1>8. g = Append(f, Keep(t))
  <2> DEFINE h == Append(f, Keep(t))
  <2>1. /\ h \in Seq(Seq(Tokens)) /\ Len(h) = n + 1 /\ h[n + 1] = Keep(t)
        /\ \A k \in 1..n : h[k] = Keep(s[k])
    BY <1>6
  <2> HIDE DEF h
  <2>2. \A k \in 1..Len(g) : g[k] = h[k]
    <3>1. \A k \in 1..(n + 1) : k \in 1..n \/ k = n + 1
      BY <1>2
    <3> QED  BY <1>7, <2>1, <3>1, Zenon
  <2>3. g = h
    BY <1>7, <2>1, <2>2, SeqEqual
  <2> QED  BY <2>3 DEF h
<1>9. FlattenSeq(Append(f, Keep(t))) = FlattenSeq(f) \o Keep(t)
  <2> DEFINE y == Keep(t)
  <2>1. y \in Seq(Tokens)
    BY <1>1
  <2> HIDE DEF y
  <2>2. FlattenSeq(Append(f, y)) = FlattenSeq(f) \o y
    BY <1>5, <2>1, FlattenAppend, Zenon
  <2> QED  BY <2>2 DEF y
<1>10. FlattenSeq(f) \in Seq(Tokens)
  BY <1>5, FlattenTyped
<1>11. Kept(s) = FlattenSeq(f) /\ Kept(us) = FlattenSeq(g)
  BY Zenon DEF Kept, f, g
<1> QED  BY <1>8, <1>9, <1>10, <1>11, Zenon DEF us

\* The tokens of the argv for the gateway keep what those of the user's argv keep.
LEMMA KeptSame ==
  ASSUME NEW ts \in Seq(Tokens)
  PROVE  Kept(TokensUpTo(ts, Len(ts))) = Kept(ts)
<1> DEFINE T == {k \in 0..Len(ts) : TokensUpTo(ts, k) \in Seq(Tokens) /\
                                     Kept(TokensUpTo(ts, k)) = Kept(SubSeq(ts, 1, k))}
<1>1. Len(ts) \in Nat /\ \A k \in 1..Len(ts) : ts[k] \in Tokens
  OBVIOUS
<1>2. 0 \in T
  <2>1. TokensUpTo(ts, 0) = <<GwPort>> /\ SubSeq(ts, 1, 0) = <<>>
    BY UpToNone, SubSeqEmpty
  <2>2. <<>> \in Seq(Tokens) /\ Append(<<>>, GwPort) = <<GwPort>> /\ <<GwPort>> \in Seq(Tokens)
    BY GwTokens, Sequences
  <2>3. Keep(GwPort) = <<>>
    <3> DEFINE f == <<"-p">>
               r == [kind |-> "flag-value", flag |-> f, value |-> NewPort, joined |-> FALSE]
    <3>1. GwPort = r
      BY Zenon DEF GwPort, Token
    <3>2. r.flag = f
      OBVIOUS
    <3> QED  BY <3>1, <3>2, Zenon DEF Keep
  <2>4. Kept(<<GwPort>>) = Kept(<<>>) \o <<>>
    BY <2>2, <2>3, GwTokens, KeptAppend, Zenon
  <2>5. Kept(<<>>) \o <<>> = Kept(<<>>)
    <3>1. Kept(<<>>) \in Seq(Tokens)
      BY <2>2, GwTokens, KeptAppend, Zenon
    <3> QED  BY <3>1, ConcatEmptySeq
  <2>6. 0 \in 0..Len(ts)
    BY <1>1
  <2> QED  BY <2>1, <2>2, <2>4, <2>5, <2>6, Zenon
<1>3. ASSUME NEW k \in 0..(Len(ts) - 1), k \in T
      PROVE  k + 1 \in T
  <2> DEFINE t == ts[k + 1]
             u == TokensUpTo(ts, k)
             s == SubSeq(ts, 1, k)
             at == Len(ArgsUpTo(ts, k))
  <2>1. k + 1 \in 1..Len(ts) /\ (k + 1) - 1 = k /\ k + 1 \in 0..Len(ts) /\ t \in Tokens
    BY <1>1
  <2>2. u \in Seq(Tokens) /\ Kept(u) = Kept(s)
    BY <1>3
  <2>3. TokensUpTo(ts, k + 1) = u \o Image(t)
    <3>1. t = ts[k + 1] /\ at = Len(ArgsUpTo(ts, k))
      OBVIOUS
    <3> HIDE DEF t, at
    <3>2. TokensUpTo(ts, k + 1) = TokensUpTo(ts, k) \o Image(t)
      BY <3>1, UpToNext
    <3> QED  BY <3>2 DEF u
  <2>4. s \in Seq(Tokens) /\ SubSeq(ts, 1, k + 1) = Append(s, t)
    <3>1. SubSeq(ts, 1, k + 1) = SubSeq(ts, 1, k) \o <<ts[k + 1]>>
      <4>1. 1 \in 1..Len(ts) /\ k + 1 \in 1..Len(ts)
        BY <2>1
      <4>2. SubSeq(ts, 1, k + 1) = SubSeq(ts, 1, (k + 1) - 1) \o <<ts[k + 1]>>
        BY <4>1, SubSeqRecursiveSecond
      <4> QED  BY <2>1, <4>2
    <3>2. s \in Seq(Tokens)
      BY <2>1
    <3> HIDE DEF s, t
    <3>3. Append(s, t) = s \o <<t>>
      BY <2>1, <3>2, AppendIsConcat
    <3> QED  BY <3>1, <3>2, <3>3 DEF s, t
  <2> HIDE DEF t, u, s
  <2>5. /\ Kept(SubSeq(ts, 1, k + 1)) = Kept(s) \o Keep(t) /\ Kept(s) \in Seq(Tokens)
        /\ \A x \in Tokens : Kept(Append(u, x)) = Kept(u) \o Keep(x)
    BY <2>1, <2>2, <2>4, KeptAppend, Zenon
  <2>6. Kept(s) \o <<>> = Kept(s)
    BY <2>5, ConcatEmptySeq
  <2>7. \A x \in Tokens : Append(u, x) = u \o <<x>> /\ Append(u, x) \in Seq(Tokens)
    BY <2>2, AppendIsConcat
  <2>8. CASE Drops(t)
    <3>1. Image(t) = <<>> /\ Keep(t) = <<>>
      BY <2>8, Zenon DEF Image, Keep, Drops
    <3>2. u \o <<>> = u
      BY <2>2, ConcatEmptySeq
    <3> QED  BY <2>1, <2>2, <2>3, <2>5, <2>6, <3>1, <3>2, Zenon
  <2>9. CASE ~Drops(t) /\ t.kind = "destination"
    <3>1. Image(t) = <<GwDestination>> /\ Keep(t) = <<>>
      BY <2>9, Zenon DEF Image, Keep
    <3>2. Keep(GwDestination) = <<>>
      <4> DEFINE r == [kind |-> "destination", flag |-> NewHost, value |-> NewUser, joined |-> FALSE]
      <4>1. GwDestination = r
        BY Zenon DEF GwDestination, Token
      <4>2. r.kind = "destination"
        OBVIOUS
      <4> QED  BY <4>1, <4>2, Zenon DEF Keep
    <3>3. Kept(u \o Image(t)) = Kept(u) \o <<>> /\ u \o Image(t) \in Seq(Tokens)
      BY <2>5, <2>7, <3>1, <3>2, GwTokens, Zenon
    <3> QED  BY <2>1, <2>2, <2>3, <2>5, <3>1, <3>3, Zenon
  <2>10. CASE ~Drops(t) /\ t.kind # "destination"
    <3>1. Image(t) = <<t>>
      BY <2>10, Zenon DEF Image
    <3>2. Kept(u \o Image(t)) = Kept(u) \o Keep(t) /\ u \o Image(t) \in Seq(Tokens)
      BY <2>1, <2>5, <2>7, <3>1, Zenon
    <3> QED  BY <2>1, <2>2, <2>3, <2>5, <3>2, Zenon
  <2> QED  BY <2>8, <2>9, <2>10
<1>4. Len(ts) \in T
  <2> HIDE DEF T
  <2>1. \A k \in 0..Len(ts) : k \in T
    BY <1>1, <1>2, <1>3, UpTo
  <2> QED  BY <1>1, <2>1
<1>5. SubSeq(ts, 1, Len(ts)) = ts
  BY SubSeqFull
<1> QED  BY <1>4, <1>5, Zenon

\* For any argv: what hsh hands to ssh, parsed again as parseSshArgs does, names the
\* gateway with its user and its port, whatever ports and users the user named with
\* flags or in the destination, and has the user's other tokens in their place
\* (rewriteSshArgs of src/plugins/ssh-args.ts).
THEOREM GatewayIsReached == Spec => []RoundTrip
<1>1. LoopInv => RoundTrip
  <2> SUFFICES ASSUME LoopInv, phase = "done", first # <<>>
               PROVE  /\ user = NewUser /\ host = NewHost /\ port = NewPort
                      /\ {userFromL, portFromOpt, portFromUri} = {null}
                      /\ Cardinality(Destinations(tokens)) = 1
                      /\ Kept(tokens) = Kept(first)
    BY Zenon DEF RoundTrip, Destinations, Kept, Keep
  <2>1. OneDestination /\ OfUser /\ Reread(Len(first))
    BY DEF LoopInv, SecondReading
  <2>2. destSeen
    BY <2>1 DEF OfUser, Reread, Seen
  <2>3. /\ userFromL = null /\ portFromOpt = null /\ portFromUri = null /\ portFromFlag = NewPort
        /\ userFromDest = NewUser /\ host = NewHost
    BY <2>1, <2>2 DEF Reread
  <2>4. NewPort # null
    BY DEF NewPort, null
  <2>5. user = NewUser /\ port = NewPort
    BY <2>3, <2>4, Zenon DEF user, port, Or
  <2>6. Cardinality(Destinations(tokens)) = 1
    <3>1. PICK k : Destinations(tokens) = {k}
      BY <2>1, <2>2 DEF OneDestination
    <3> QED  BY <3>1, FS_Singleton
  <2>7. Kept(tokens) = Kept(first)
    BY <2>1, KeptSame, Zenon DEF OfUser, Reread
  <2> QED  BY <2>3, <2>5, <2>6, <2>7
<1> QED  BY <1>1, LoopInit, LoopNext, PTL DEF Spec

=============================================================================
