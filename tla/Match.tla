-------------------------------- MODULE Match --------------------------------
(***************************************************************************)
(* Which Hoop connection a host or a context names (src/plugins/match.ts,  *)
(* docs/connection-matching.md).  A name is the sequence of its labels,    *)
(* "db.corp" being <<"db", "corp">>.                                       *)
(***************************************************************************)
EXTENDS Naturals, FiniteSets, SequencesExt

ByName(target, c) == c.name = target
BySchema(target, c) == c.schema = target
ByTag(target, c) == target \in c.tags

\* "host.internal" means the connection "host" too, unless it has one label.
ByShortName(target, c) == Len(target) > 1 /\ c.name = <<target[1]>>

\* Mutant: the short name of a host is tried before its full name.
ShortFirst(kind, target, c) ==
  IF kind = "ssh"
    THEN <<ByShortName(target, c), ByName(target, c), BySchema(target, c), ByTag(target, c)>>
    ELSE <<ByName(target, c), FALSE, BySchema(target, c), ByTag(target, c)>>

\* The levels in the order they are tried, and whether c matches at each: the
\* schema field and the tags are those of the kind of connection.
Layers(kind, target, c) ==
  <<ByName(target, c), kind = "ssh" /\ ByShortName(target, c),
    BySchema(target, c), ByTag(target, c)>>

\* The candidates, by their places in the gateway's list; the first is the match.
MatchConnection(kind, target, connections) ==
  LET at(l) == {k \in DOMAIN connections : Layers(kind, target, connections[k])[l]}
      hit == {l \in 1..4 : at(l) # {}}
  IN  IF hit = {} THEN [level |-> 0, match |-> 0, candidates |-> {}]
      ELSE [level |-> Min(hit), match |-> Min(at(Min(hit))), candidates |-> at(Min(hit))]

\* How well c answers to the target, 1 the best, by what an operator who names
\* connections is told: its name, its first label, its schema, its tags.
Rank(kind, target, c) ==
  LET fits == {r \in 1..4 :
        \/ r = 1 /\ c.name = target
        \/ r = 2 /\ kind = "ssh" /\ Len(target) > 1 /\ c.name = SubSeq(target, 1, 1)
        \/ r = 3 /\ c.schema = target
        \/ r = 4 /\ target \in c.tags}
  IN  IF fits = {} THEN 5 ELSE Min(fits)

=============================================================================
