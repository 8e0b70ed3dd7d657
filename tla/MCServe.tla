------------------------------ MODULE MCServe ------------------------------
(* One root with every kind of thing in it, in three states; a reader that *)
(* pages, one that asks everything, and two behind a tailnet address.      *)
EXTENDS Serve, TLC

CONSTANTS pager, asker, caller1, caller2, ip, kai, kubs

MCRoot == <<"srv">>
In(names) == MCRoot \o names

Dir == [kind |-> "dir", open |-> TRUE]
ClosedDir == [kind |-> "dir", open |-> FALSE]
File(v) == [kind |-> "file", open |-> TRUE, holds |-> v]
ClosedFile(v) == [kind |-> "file", open |-> FALSE, holds |-> v]
Link(p) == [kind |-> "link", to |-> p]

L(kind, bytes) == [kind |-> kind, bytes |-> bytes]
Text(lines) == [lines |-> lines, text |-> TRUE, dotenv |-> FALSE, rules |-> <<>>]
Deny(p) == [negated |-> FALSE, hits |-> {p}]
Keep(p) == [negated |-> TRUE, hits |-> {p}]
Rules(rules) == [Text(<<L("plain", 1)>>) EXCEPT !.rules = rules]

P == L("plain", 2)
MCContents ==
    "log1" :> Text(<<P, L("hit", 3), P, P>>)
    @@ "log2" :> Text(<<L("hit", 3), P, L("plain", 6), P>>)
    @@ "env1" :> [Text(<<L("hit", 2), L("secret", 5), P>>) EXCEPT !.dotenv = TRUE]
    @@ "pem" :> Text(<<L("secret", 3)>>)
    @@ "kdbx" :> [Text(<<L("secret", 3)>>) EXCEPT !.text = FALSE]
    @@ "bin" :> [Text(<<L("hit", 3)>>) EXCEPT !.text = FALSE]
    @@ "own" :> Text(<<P, L("marker", 2), L("hit", 2)>>)
    @@ "late" :> Text(<<P, P, P, P, P, L("marker", 1)>>)
    @@ "big" :> Text(<<L("hit", 20)>>)
    @@ "none" :> Text(<<>>)
    @@ "hit" :> Text(<<L("hit", 2)>>)
    @@ "rules1" :> Rules(<<Deny(In(<<"priv">>)), Keep(In(<<"priv", "ok">>)), Keep(In(<<"pub", "b">>))>>)
    @@ "rules2" :> Rules(<<Deny(In(<<"pub">>))>>)
    @@ "rules3" :> Rules(<<Keep(In(<<"priv">>)), Deny(In(<<"pub", "b">>))>>)

MCDeny == {In(<<".ssh">>), <<"etc", "kaed">>}
MCClassify == {In(<<"env">>), In(<<"key">>), In(<<"vault">>)}
MCGitIgnored == {In(<<"target">>)}

MCOrder == <<<<>>, MCRoot, <<"etc">>, <<"etc", "passwd">>, <<"etc", "kaed">>, <<"etc", "kaed", "env">>,
    In(<<".git">>), In(<<".git", "config">>), In(<<".kaedignore">>), In(<<".ssh">>), In(<<".ssh", "id">>),
    In(<<"big">>), In(<<"bin">>), In(<<"env">>), In(<<"key">>), In(<<"late">>), In(<<"ln">>),
    In(<<"lock">>), In(<<"log">>), In(<<"lost">>), In(<<"none">>), In(<<"out">>), In(<<"own">>), In(<<"priv">>),
    In(<<"priv", "ok">>), In(<<"priv", "x">>), In(<<"pub">>), In(<<"pub", ".kaedignore">>),
    In(<<"pub", "a">>), In(<<"pub", "b">>), In(<<"shut">>), In(<<"shut", "ln">>), In(<<"shut", "x">>),
    In(<<"sl">>), In(<<"target">>), In(<<"target", "o">>), In(<<"vault">>)>>
MCRank == [p \in {MCOrder[i] : i \in DOMAIN MCOrder} |-> CHOOSE i \in DOMAIN MCOrder : MCOrder[i] = p]

Tree1 ==
    <<>> :> Dir @@ MCRoot :> Dir @@ <<"etc">> :> Dir @@ <<"etc", "passwd">> :> File("log1")
    @@ <<"etc", "kaed">> :> Dir @@ <<"etc", "kaed", "env">> :> File("env1")
    @@ In(<<".git">>) :> Dir @@ In(<<".git", "config">>) :> File("hit")
    @@ In(<<".kaedignore">>) :> File("rules1")
    @@ In(<<".ssh">>) :> Dir @@ In(<<".ssh", "id">>) :> File("hit")
    @@ In(<<"big">>) :> File("big") @@ In(<<"bin">>) :> File("bin")
    @@ In(<<"env">>) :> File("env1") @@ In(<<"key">>) :> File("pem")
    @@ In(<<"late">>) :> File("late") @@ In(<<"ln">>) :> Link(In(<<"priv">>))
    @@ In(<<"lock">>) :> ClosedFile("hit") @@ In(<<"log">>) :> File("log1")
    @@ In(<<"lost">>) :> Link(In(<<"nowhere">>))
    @@ In(<<"none">>) :> File("none") @@ In(<<"out">>) :> Link(<<"etc">>)
    @@ In(<<"own">>) :> File("own") @@ In(<<"priv">>) :> Dir
    @@ In(<<"priv", "ok">>) :> File("hit") @@ In(<<"priv", "x">>) :> File("hit")
    @@ In(<<"pub">>) :> Dir @@ In(<<"pub", ".kaedignore">>) :> File("rules3")
    @@ In(<<"pub", "a">>) :> File("hit") @@ In(<<"pub", "b">>) :> File("hit")
    @@ In(<<"shut">>) :> ClosedDir @@ In(<<"shut", "x">>) :> File("hit")
    @@ In(<<"shut", "ln">>) :> Link(In(<<"priv">>))
    @@ In(<<"sl">>) :> Link(In(<<".ssh">>))
    @@ In(<<"target">>) :> Dir @@ In(<<"target", "o">>) :> File("hit")
    @@ In(<<"vault">>) :> File("kdbx")

(* Another log, and a policy that denies pub instead of priv.              *)
Tree2 == [Tree1 EXCEPT ![In(<<"log">>)] = File("log2"), ![In(<<".kaedignore">>)] = File("rules2")]

(* The first log again, fewer files, and the link elsewhere.               *)
Tree3 ==
    LET gone == {In(<<"big">>), In(<<"bin">>), In(<<"late">>), In(<<".kaedignore">>)}
    IN [p \in DOMAIN Tree1 \ gone |->
           IF p = In(<<"ln">>) THEN Link(In(<<"pub">>)) ELSE Tree1[p]]

MCTrees == <<Tree1, Tree2, Tree3>>

-----------------------------------------------------------------------------
ReadOf(names, mode, max) == [tool |-> "read", rel |-> names, mode |-> mode, max |-> max]
ListOf(names, depth, max) ==
    [tool |-> "list", rel |-> names, depth |-> depth, max |-> max, offset |-> 0,
     ignored |-> FALSE, globbed |-> FALSE, glob |-> {}]
SearchOf(names, max) ==
    [tool |-> "search", rel |-> names, max |-> max, globbed |-> FALSE, glob |-> {}]

PageModes == {[type |-> "range", start |-> s, end |-> e] : s \in {0, 2, 5}, e \in {3, 9}}
         \cup {[type |-> "line", line |-> l, context |-> 1] : l \in {1, 4, 5}}
         \cup {[type |-> "anchor", context |-> 1]}
         \cup {[type |-> "occurrence", nth |-> o, context |-> 1] : o \in 0..2}

Rels == {<<>>} \cup {<<n>> : n \in {"log", "env", "key", "vault", "bin", "own", "late", "big", "none",
                                    "lock", "shut", "priv", "ln", "out", "sl", ".kaedignore", "gone", ".."}}
        \cup {<<".", "pub", "a">>, <<"pub", "b">>, <<"priv", "ok">>, <<"priv", "x">>, <<"ln", "x">>,
              <<"ln", "b">>, <<"ln", "ok">>, <<"out", "passwd">>, <<"out", "kaed", "env">>, <<".ssh", "id">>,
              <<".ssh", "gone">>, <<"sl", "id">>, <<"/", "etc">>, <<"shut", "x">>, <<"log", "x">>}

(* Whoever pages reads the log with a few budgets, and lists.              *)
Paged ==
    {ReadOf(<<"log">>, Whole, max) : max \in {0, 4, 5, 99}}
    \cup {ReadOf(<<"env">>, Whole, 7), ReadOf(<<"log">>, [type |-> "range", start |-> 2, end |-> 3], 3)}
    \cup {ListOf(<<>>, 1, 7), ListOf(<<>>, 2, 9), ListOf(<<"pub">>, 1, 1)}

Asked1 ==
    {ReadOf(rel, Whole, 99) : rel \in Rels}
    \cup {ReadOf(<<n>>, mode, max) : n \in {"log", "env", "none"}, mode \in PageModes, max \in {3, 99}}
    \cup {[tool |-> "stat", rel |-> rel] : rel \in Rels}
    \cup {[tool |-> "create", rel |-> rel] : rel \in Rels}
    \cup {[tool |-> "create", rel |-> <<d, "new">>] : d \in {"pub", "priv", "ln", "out", ".ssh", "sl", "lost"}}
    \cup {[tool |-> "create", rel |-> <<"shut", "ln", "new">>]}
    \cup {ListOf(rel, depth, 99) : rel \in Rels, depth \in 1..2}
    \cup {[ListOf(<<>>, 2, 99) EXCEPT !.ignored = TRUE]}
    \cup {[ListOf(<<>>, 1, 2) EXCEPT !.offset = offset] : offset \in {3, 99}}
    \cup {SearchOf(rel, max) : rel \in Rels, max \in {0, 1, 2, 99}}
    \cup {[op EXCEPT !.globbed = TRUE, !.glob = glob] :
             op \in {ListOf(<<>>, 2, 99), SearchOf(<<>>, 99)},
             glob \in {{}, {In(<<"log">>), In(<<"pub", "a">>)}, {In(<<"big">>), In(<<"key">>)}}}
    \cup {[tool |-> "read_many", rels |-> rels, numbered |-> numbered, max |-> max] :
             rels \in {<<>>, <<<<"log">>, <<"env">>>>, <<<<"gone">>, <<"log">>, <<".ssh", "id">>, <<"pub", "a">>>>},
             numbered \in BOOLEAN, max \in {0, 3, 9, 10, 12, 13, 99}}

Nothing == [a \in {pager, asker, caller1, caller2} |-> {}]
Looked == {[tool |-> "stat", rel |-> <<"log">>]}
MCWorkloads ==
    <<[whois |-> FALSE, changes |-> 2, calls |-> 4, ops |-> [Nothing EXCEPT ![pager] = Paged]],
     [whois |-> FALSE, changes |-> 1, calls |-> 1, ops |-> [Nothing EXCEPT ![asker] = Asked1]],
     [whois |-> TRUE, changes |-> 0, calls |-> 2,
      ops |-> [Nothing EXCEPT ![caller1] = Looked, ![caller2] = Looked]]>>

MCAddr == [a \in {pager, asker} |-> NoAddr] @@ [a \in {caller1, caller2} |-> ip]
MCPins == [a \in {pager, asker, caller1} |-> {}] @@ caller2 :> {kai}
MCOwner == [addr \in {ip} |-> kai]

-----------------------------------------------------------------------------
(* A page against what the budget is to give, over every file of up to     *)
(* four lines of one to three bytes, read from any line with any budget:   *)
(* as many whole lines as fit, or the one that does not, cut.              *)
SmallFiles == UNION {[1 .. n -> {L("plain", b) : b \in 1 .. 3}] : n \in 1 .. 4}

ASSUME SliceIsWhatFits ==
    \A lines \in SmallFiles : \A start \in DOMAIN lines : \A budget \in 0 .. 13 :
      LET loaded == [lines |-> lines, path |-> MCRoot, version |-> "v", redacted |-> FALSE]
          page == Slice(loaded, [type |-> "range", start |-> start, end |-> Far], budget)
          n == Len(page.items)
      IN /\ n >= 1
         /\ Bytes(page.items) <= budget
         /\ page.next # None => /\ page.next = start + n
                                /\ Bytes(page.items) + lines[page.next].bytes > budget
         /\ page.truncated = (Bytes(page.items) < Bytes(SubSeq(lines, start, Len(lines))))
=============================================================================
