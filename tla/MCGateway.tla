----------------------------- MODULE MCGateway -----------------------------
(* Four hosts: A and B declare each other; C is declared by both, by B     *)
(* without a url; D is declared deferred and does not run.                 *)
EXTENDS Gateway, TLC

CONSTANTS A, B, C, D, ax, bx, by, cx, u, v, laptop

MCNames == {ax, bx, by, cx}
MCPrefix == [n \in MCNames |-> CASE n = ax -> A [] n \in {bx, by} -> B [] n = cx -> C]
MCRank == [n \in MCNames |-> CASE n = ax -> 1 [] n = bx -> 2 [] n = by -> 3 [] n = cx -> 4]
MCHits == [n \in MCNames |-> CASE n = ax -> 1 [] n = bx -> 2 [] n = by -> 0 [] n = cx -> 4]

Declared(status, url) ==
    [status |-> status, url |-> url, ref |-> status = "deferred", since |-> status = "unreachable"]

MCFleet ==
    A :> (B :> Declared("active", TRUE) @@ C :> Declared("unreachable", TRUE)
          @@ D :> Declared("deferred", FALSE))
    @@ B :> (A :> Declared("active", TRUE) @@ C :> Declared("active", FALSE))
    @@ C :> NoTable @@ D :> NoTable

(* u is known everywhere but on C; v everywhere, on B only from two nodes. *)
MCIdentities ==
    A :> (u :> {} @@ v :> {}) @@ B :> (u :> {} @@ v :> {laptop, C})
    @@ C :> (v :> {}) @@ D :> (u :> {})

All == [tool |-> "fleet_search", names |-> MCNames, hosts |-> {A, B, C, D}]
OfC == [tool |-> "fleet_search", names |-> {cx}, hosts |-> {C}]
Roots == [tool |-> "roots"]
One(n) == [tool |-> "one_root", name |-> n]

Ask(h, author, hop, op) == [at |-> h, author |-> author, node |-> laptop, hop |-> hop, op |-> op]

(* The calls of one agent are enough to see every answer; those of the     *)
(* second run beside them on what B remembers of its peers.                *)
MCRequests ==
    1 :> ({Ask(A, u, hop, Roots) : hop \in BOOLEAN} \cup {Ask(A, v, FALSE, All)}
          \cup {Ask(A, u, FALSE, op) : op \in {OfC, One(cx)}}
          \cup {Ask(B, v, FALSE, op) : op \in {Roots, One(cx), One(ax), All}})
    @@ 2 :> {Ask(B, u, FALSE, Roots)}

-----------------------------------------------------------------------------
(* merge_search against what it is to compute, over every sequence of up   *)
(* to three answers: the matches are the first of all of them, truncated   *)
(* exactly if something was left out, and it says of which root.           *)
Outcomes == {Error("any")}
            \cup [type : {"hits"}, root : {ax}, count : 0..2, truncated : BOOLEAN]

AllMatches(parts) ==
    FoldLeft(LAMBDA acc, p : acc \o IF p.outcome.type # "hits" THEN <<>>
                                    ELSE [i \in 1..p.outcome.count |-> <<p.root, i>>],
             <<>>, parts)

ASSUME MergeIsThePrefix ==
    \A len \in 0..3 : \A outcomes \in [1..len -> Outcomes] : \A budget \in 0..4 :
      LET parts == [i \in 1..len |-> [root |-> i, outcome |-> outcomes[i]]]
          all == AllMatches(parts)
          merged == Merge(parts, budget)
          hits == {i \in 1..len : outcomes[i].type = "hits"}
      IN /\ merged.matches = SubSeq(all, 1, IF Len(all) < budget THEN Len(all) ELSE budget)
         /\ merged.failed = 1..len \ hits
         /\ merged.truncated <=> Len(all) > budget \/ \E i \in hits : outcomes[i].truncated
         /\ merged.dropped = {i \in hits : \E j \in 1..outcomes[i].count :
                                \A k \in DOMAIN merged.matches : merged.matches[k] # <<i, j>>}
=============================================================================
