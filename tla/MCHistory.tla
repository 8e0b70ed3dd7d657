------------------------------ MODULE MCHistory -----------------------------
(***************************************************************************)
(* A dotenv and its example, visited in that order; the dotenv is          *)
(* classified or, before the rule was written, not.                        *)
(***************************************************************************)
EXTENDS HistoryReads, TLC

CONSTANTS env, example, a, b, r1, r2

MCFirst(S) == IF env \in S THEN env ELSE CHOOSE p \in S : TRUE

MCWrites == {env :> b @@ example :> Absent, env :> a @@ example :> a}

Symmetry == Permutations({r1, r2})

-----------------------------------------------------------------------------
(* The journal tool over every store of up to two transactions and two     *)
(* failures, with or without a report and an audit event.  "d_" stands for *)
(* itself and for "dx" in a LIKE pattern; "d" is part of three names.      *)

Names == {"d", "d_", "dx", "f", "g"}

Q == INSTANCE JournalQuery WITH
    LiveRoots <- {"kai:src"}, Unqualified <- {"home"}, Ceiling <- 200,
    Likes <- [n \in Names |-> IF n = "d_" THEN {"d_", "dx"} ELSE {n}],
    Holds <- [n \in Names |-> IF n = "d" THEN {"d", "d_", "dx"} ELSE {n}]

Everything == [root |-> Q!NotGiven, path |-> Q!NotGiven, author |-> Q!NotGiven,
               since |-> Q!NotGiven, kinds |-> {}, max |-> 20]

Numbered(list) == [i \in DOMAIN list |-> list[i] @@ [id |-> i]]
Timely(list) == \A i, j \in DOMAIN list : i < j => list[i].at <= list[j].at
UpTo(n, kinds) ==
    {Numbered(list) : list \in {s \in UNION {[1 .. m -> kinds] : m \in 0 .. n} : Timely(s)}}

Journalled(roots, lists) ==
    [at : 1 .. 2, root : roots, author : {"claude"}, paths : lists, complete : {TRUE}]
Edits(roots) == Journalled(roots, {<<<<"g">>>>, <<<<"d", "f">>, <<"g">>>>})
Event == [at |-> 2, root |-> "home", author |-> "claude", path |-> <<"d", "f">>]

Stores(n, roots) ==
    [txn : UpTo(n, Edits(roots)), failure : UpTo(n, Edits(roots)),
     feedback : UpTo(1, [at : {1}, author : {"claude"}]), secret : UpTo(1, {Event})]

(* What there is on record of what a query asks for.                       *)
Asked(q, kind, row) ==
    /\ q.since.given => row.at >= q.since.is
    /\ q.root.given => kind # "feedback" /\ row.root = q.root.is
    /\ q.path.given =>
         /\ kind # "feedback"
         /\ \E path \in (IF kind = "secret" THEN {row.path} ELSE Q!Range(row.paths)) :
               Q!IsPrefix(q.path.is, path)

OnRecord(store, q) ==
    UNION {{Q!EntryOf(kind, store[kind][i]) :
               i \in {j \in DOMAIN store[kind] : Asked(q, kind, store[kind][j])}} : kind \in Q!Kinds}

(* The streams are cut one by one and by id, merged by time: the answer is *)
(* the newest of all there is, no more than asked for, and says when there *)
(* is more.                                                                *)
ASSUME AnswersAreTheNewest ==
    \A store \in Stores(2, {"kai:src"}) :
      \A q \in {[Everything EXCEPT !.path = path, !.since = since, !.max = max] :
                    path \in {Q!NotGiven, Q!Given(<<"d">>)},
                    since \in {Q!NotGiven, Q!Given(2)}, max \in {0, 2}} :
        LET answer == Q!Journal(store, q)
            all == OnRecord(store, q)
            told == Q!Range(answer.entries)
        IN /\ told \subseteq all /\ Cardinality(told) = Len(answer.entries)
           /\ Len(answer.entries) = Q!AtMost(Cardinality(all), Q!Limit(q))
           /\ answer.truncated <=> Cardinality(all) > Len(answer.entries)
           /\ \A i, j \in DOMAIN answer.entries :
                 i < j => answer.entries[i].at >= answer.entries[j].at
           /\ \A e \in told, other \in all \ told :
                 e.at >= other.at /\ (e.kind = other.kind => e.id > other.id)

(* No silence about failures passes for their absence: an answer with a    *)
(* transaction from before the first failure on record says so.  An empty  *)
(* answer calls a root unknown only if no record names it.                 *)
ASSUME SilenceIsExplained ==
    \A store \in Stores(1, {"kai:src", "kai:old"}) :
      \A q \in {[Everything EXCEPT !.root = root, !.since = since] :
                    root \in {Q!NotGiven} \cup {Q!Given(r) : r \in {"kai:src", "kai:old", "kai:typo"}},
                    since \in {Q!NotGiven, Q!Given(1)}} :
        LET answer == Q!Journal(store, q)
        IN /\ Q!Range(answer.entries) = OnRecord(store, q)
           /\ \A e \in Q!Range(answer.entries) :
                 e.kind = "txn" /\ (\A i \in DOMAIN store.failure : e.at < store.failure[i].at)
                 => answer.predates
           /\ answer.entries = <<>> <=> answer.reason # "none"
           /\ answer.reason = "unknown_root_filter" => q.root.is # "kai:src" /\
                 \A kind \in Q!Kinds \ {"feedback"} : \A i \in DOMAIN store[kind] :
                    store[kind][i].root # q.root.is

(* The limits of this: forty failures whose paths hold the text of what is *)
(* asked for hide one before them, and the answer is not truncated; the    *)
(* root's own path finds failures and no transactions; a name with a "_"   *)
(* finds other directories; and a root with history is called unknown when *)
(* another filter leaves nothing of it.                                    *)
ASSUME WhatAnswersMiss ==
    LET Attempt(path) == [at |-> 1, root |-> "kai:src", author |-> "claude",
                          paths |-> <<path>>, complete |-> TRUE]
        Nothing == [txn |-> <<>>, failure |-> <<>>, feedback |-> <<>>, secret |-> <<>>]
        Under(path) == [Everything EXCEPT !.path = Q!Given(path), !.max = 1]
        hidden == [Nothing EXCEPT !.failure =
                      Numbered([i \in 1 .. 41 |-> Attempt(IF i = 1 THEN <<"d", "f">> ELSE <<"dx">>)])]
        both == [Nothing EXCEPT !.failure = Numbered(<<Attempt(<<"g">>)>>),
                                !.txn = Numbered(<<Attempt(<<"g">>)>>)]
        other == [Nothing EXCEPT !.txn = Numbered(<<Attempt(<<"dx", "f">>)>>)]
        old == [Nothing EXCEPT !.secret = Numbered(<<[Event EXCEPT !.root = "kai:old"]>>)]
    IN /\ OnRecord(hidden, Under(<<"d">>)) # {}
       /\ Q!Journal(hidden, Under(<<"d">>)).scanned = 0
       /\ {e.kind : e \in Q!Range(Q!Journal(both, Under(<<>>)).entries)} = {"failure"}
       /\ OnRecord(other, Under(<<"d_">>)) = {} /\ Q!Journal(other, Under(<<"d_">>)).scanned = 1
       /\ Q!Journal(old, [Everything EXCEPT !.root = Q!Given("kai:old"), !.since = Q!Given(3)]).reason
            = "unknown_root_filter"
=============================================================================
