---------------------------- MODULE JournalQuery ----------------------------
(***************************************************************************)
(* What the journal tool answers: four streams of rows, each filtered and  *)
(* cut by its own query, merged under one limit (history::journal over     *)
(* Journal::txns, failures, feedback and secret_events).                   *)
(*                                                                         *)
(* A store has a sequence of rows per kind, in the order of their ids; a   *)
(* path is the sequence of its names, asked for without a slash at its end.*)
(***************************************************************************)
EXTENDS Integers, Sequences, FiniteSets, SequencesExt, FiniteSetsExt

CONSTANTS
    LiveRoots,      \* what this host serves
    Unqualified,    \* root names without a host
    Ceiling,        \* MAX_ENTRIES_CEILING
    Likes,          \* by name: the names it stands for in a LIKE pattern
    Holds           \* by name: the names that hold its text

Kinds == {"txn", "failure", "feedback", "secret"}

NotGiven == [given |-> FALSE]
Given(x) == [given |-> TRUE, is |-> x]

AtMost(n, m) == IF n < m THEN n ELSE m

-----------------------------------------------------------------------------
(* Filters.                                                                *)

OfRoot(q, row) == q.root.given => row.root = q.root.is
OfAuthor(q, row) == q.author.given => row.author = q.author.is
Since(q, row) == q.since.given => row.at >= q.since.is

(* path = ?, or path LIKE '?/%'.                                           *)
SqlMatches(p, path) ==
    \/ path = p
    \/ /\ p # <<>> /\ Len(path) > Len(p)
       /\ \A i \in DOMAIN p : path[i] \in Likes[p[i]]

(* paths LIKE '%?%', for one of them.                                      *)
Mentions(p, path) ==
    \E s \in 0 .. Len(path) - Len(p) : \A i \in DOMAIN p : path[s + i] \in Holds[p[i]]

PathMatches(p, path) == p = <<>> \/ IsPrefix(p, path)

-----------------------------------------------------------------------------
(* The streams.                                                            *)

(* ORDER BY id DESC LIMIT.                                                 *)
Newest(rows, limit, Wanted(_)) ==
    LET found == SelectSeq(Reverse(rows), Wanted)
    IN SubSeq(found, 1, AtMost(Len(found), limit))

(* A transaction is found by any of its files, and comes with all of them. *)
Txns(store, q, limit) ==
    Newest(store.txn, limit, LAMBDA row :
        /\ OfRoot(q, row) /\ OfAuthor(q, row) /\ Since(q, row)
        /\ q.path.given => \E i \in DOMAIN row.paths : SqlMatches(q.path.is, row.paths[i]))

(* The query only prefilters by path, so it fetches more rows.             *)
Overfetched(q, limit) == IF q.path.given THEN limit * 4 + 32 ELSE limit

Prefiltered(store, q, limit) ==
    Newest(store.failure, Overfetched(q, limit), LAMBDA row :
        /\ OfRoot(q, row) /\ OfAuthor(q, row) /\ Since(q, row)
        /\ q.path.given => \E i \in DOMAIN row.paths : Mentions(q.path.is, row.paths[i]))

Failures(store, q, limit) ==
    LET exact == SelectSeq(Prefiltered(store, q, limit), LAMBDA row :
            q.path.given => \E i \in DOMAIN row.paths : PathMatches(q.path.is, row.paths[i]))
    IN SubSeq(exact, 1, AtMost(Len(exact), limit))

(* A report is about no root and no path: it has no place in an answer     *)
(* about one.                                                              *)
Feedback(store, q, limit) ==
    IF q.path.given \/ q.root.given THEN <<>>
    ELSE Newest(store.feedback, limit, LAMBDA row : OfAuthor(q, row) /\ Since(q, row))

SecretEvents(store, q, limit) ==
    Newest(store.secret, limit, LAMBDA row :
        /\ OfRoot(q, row) /\ OfAuthor(q, row) /\ Since(q, row)
        /\ q.path.given => SqlMatches(q.path.is, row.path))

-----------------------------------------------------------------------------
(* The answer.                                                             *)

(* Why a row names a root this host cannot resolve.                        *)
Historical(root) ==
    IF root \in LiveRoots THEN "live"
    ELSE IF root \in Unqualified THEN "unqualified_pre_007"
    ELSE "root_no_longer_served"

EntryOf(kind, row) ==
    [kind |-> kind, id |-> row.id, at |-> row.at,
     label |-> IF kind = "feedback" THEN "live" ELSE Historical(row.root),
     status |-> IF kind # "txn" THEN "none" ELSE IF row.complete THEN "applied" ELSE "torn"]

Limit(q) == AtMost(IF q.max < 1 THEN 1 ELSE q.max, Ceiling)

Found(store, q, kind, limit) ==
    LET rows == CASE q.kinds # {} /\ kind \notin q.kinds -> <<>>
                  [] kind = "txn" -> Txns(store, q, limit)
                  [] kind = "failure" -> Failures(store, q, limit)
                  [] kind = "feedback" -> Feedback(store, q, limit)
                  [] kind = "secret" -> SecretEvents(store, q, limit)
    IN [i \in DOMAIN rows |-> EntryOf(kind, rows[i])]

(* One more than asked for from each stream, so that truncated is about    *)
(* the store.                                                              *)
Merged(store, q) ==
    FlattenSeq([i \in 1 .. 4 |->
        Found(store, q, <<"txn", "failure", "feedback", "secret">>[i], Limit(q) + 1)])

(* sort_by is stable.                                                      *)
NewestFirst(entries) ==
    LET order == SetToSortSeq(DOMAIN entries, LAMBDA i, j :
            entries[i].at > entries[j].at \/ (entries[i].at = entries[j].at /\ i < j))
    IN [n \in DOMAIN order |-> entries[order[n]]]

From(rows) == IF rows = <<>> THEN NotGiven ELSE Given(Min({rows[i].at : i \in DOMAIN rows}))

(* The window reaches back past the first failure on record.               *)
PredatesFailures(store, q) ==
    LET failures == From(store.failure)
        txns == From(store.txn)
    IN IF ~failures.given THEN txns.given
       ELSE IF q.since.given THEN q.since.is < failures.is
       ELSE txns.given /\ txns.is < failures.is

EmptyReason(q) ==
    IF q.root.given /\ q.root.is \notin LiveRoots THEN "unknown_root_filter"
    ELSE "no_matching_records"

Journal(store, q) ==
    LET found == Merged(store, q)
    IN [entries |-> SubSeq(NewestFirst(found), 1, AtMost(Len(found), Limit(q))),
        truncated |-> Len(found) > Limit(q),
        scanned |-> Len(found),
        predates |-> PredatesFailures(store, q),
        reason |-> IF found = <<>> THEN EmptyReason(q) ELSE "none"]
=============================================================================
