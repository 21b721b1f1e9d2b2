----------------------------- MODULE MCAccessGate -----------------------------
(* Helpers below pi, an agent installed at two places, and below nobody; a  *)
(* development tool and a process that could not be inspected;              *)
(* configurations with nested, strict, shared and sensitive paths.          *)
EXTENDS AccessGate

PiA == [executable |-> <<"opt", "pi">>, start |-> 1]
PiB == [executable |-> <<"usr", "pi">>, start |-> 2]
PiLost == [executable |-> <<"opt", "pi">>, start |-> None]

Identity(pid, executable, start, ancestors) ==
    [pid |-> pid, executable |-> executable, argv0 |-> None,
     start |-> start, ancestors |-> ancestors]

Cat == <<"usr", "cat">>

(* Two generations of one pid, one helper below nested owners, one below a  *)
(* nearest owner without a start time, two of one pid without a start time. *)
MCIdentityOf == [p \in Processes |->
    CASE p = "first"  -> Identity(10, Cat, 1, <<PiA>>)
      [] p = "later"  -> Identity(10, Cat, 2, <<PiA>>)
      [] p = "nested" -> Identity(11, Cat, 1, <<PiA, PiB>>)
      [] p = "broken" -> Identity(12, Cat, 1, <<PiLost, PiB>>)
      [] p \in {"bare", "bareAgain"} -> Identity(13, Cat, None, <<>>)
      [] p = "tool"   -> Identity(15, <<"usr", "node">>, 1, <<PiA>>)
      [] p = "unreadable" ->
             [Identity(16, None, None, <<>>) EXCEPT !.argv0 = <<"node">>]]

Name(n) == [kind |-> "name", name |-> n]
Everybody == [kind |-> "any"]
PiTool == [kind |-> "with-ancestor", subject |-> Name("node"), ancestor |-> Name("pi")]
PlacedCat == [kind |-> "exe-with-ancestor-prefix", path |-> Cat, ancestor |-> <<"var">>]

CodexDir == [path |-> <<"cfg", "codex">>, owner |-> "codex",
             allowed |-> {PlacedCat, [kind |-> "exe", path |-> <<"bin", "cat">>]},
             denyNonOwner |-> FALSE]
PiDir == [path |-> <<"cfg", "pi">>, owner |-> "pi", allowed |-> {PiTool},
          denyNonOwner |-> FALSE]
KeyDir == [path |-> <<"cfg", "codex", "keys">>, owner |-> "broker",
           allowed |-> {[kind |-> "exe-prefix", path |-> <<"srv">>]},
           denyNonOwner |-> TRUE]

AllShared == [path |-> <<"cfg", "co">>, pathPrefix |-> TRUE,
              allowed |-> {Everybody}, access |-> {"Write"}]
KeysShared == [path |-> <<"cfg", "codex", "keys">>, pathPrefix |-> FALSE,
               allowed |-> {Name("cat")}, access |-> {"Read", "Write"}]

Config(owned, shared, failOpen) ==
    [owned |-> owned, shared |-> shared, sensitive |-> {<<"cfg", "codex">>},
     devTools |-> {Name("node")}, failOpen |-> failOpen]

MCConfigOf == [c \in Configs |->
    CASE c = "closed" -> Config(<<CodexDir, PiDir, KeyDir>>, {KeysShared}, FALSE)
      [] c = "open"   -> Config(<<KeyDir, CodexDir, PiDir>>, {AllShared}, TRUE)]

MCBegins == {<<"co", "codex">>} \cup {<<n, n>> : n \in {"cfg", "codex", "co"}}
MCAliases == <<[real |-> <<"sync", "codex">>, logical |-> <<"cfg", "codex">>]>>

MCTargets == {
    <<"cfg", "codex", "auth">>, <<"sync", "codex", "keys", "k">>,
    <<"cfg", "codex", "keys", ".gitignore">>, <<"cfg", "pi", "auth">>}

MCUnknown == <<"unknown">>
=============================================================================
