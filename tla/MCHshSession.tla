---------------------------- MODULE MCHshSession ----------------------------
(***************************************************************************)
(* Two terminals, two connections.  "eu" is the exact name of a connection *)
(* for every command; "alias" is a second kubectl context for it (a tag or *)
(* a schema field), the name of the other connection for hsh kubeconfig,   *)
(* and a host unknown to Hoop for ssh.                                     *)
(***************************************************************************)
EXTENDS HshSession, TLC

MCTarget == {"eu", "alias"}
MCConn   == {"prod.eu", "prod_eu"}
MCKey    == {"k1", "k2"}
\* The sanitizer keeps the two names apart, or maps both to prod_eu.json.
ApartKeyOf  == [c \in MCConn |-> IF c = "prod.eu" THEN "k1" ELSE "k2"]
MergedKeyOf == [c \in MCConn |-> "k2"]
MCMatchOf ==
  [w \in {"ssh", "kubectl", "kubeconfig"} |->
    [t \in MCTarget |->
      CASE t = "eu" \/ w = "kubectl" -> "prod.eu"
        [] w = "kubeconfig" -> "prod_eu"
        [] OTHER -> None]]
\* One context of one connection, for the runs about two terminals on it.
SameTarget  == {"eu"}
SameConn    == {"prod.eu"}
SameKey     == {"k1"}
SameKeyOf   == [c \in SameConn |-> "k1"]
SameMatchOf ==
  [w \in {"ssh", "kubectl", "kubeconfig"} |-> [t \in SameTarget |-> "prod.eu"]]
AllCommands == {"ssh", "kubectl", "kubeconfig", "login", "logout"}
NoLogin     == AllCommands \ {"ssh", "login"}
OnlyKubectl == {"kubectl"}
OnlySsh     == {"ssh"}
Interchangeable == Permutations(Proc)
=============================================================================
