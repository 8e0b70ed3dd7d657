------------------------------ MODULE Gateway ------------------------------
(***************************************************************************)
(* A fleet of kaed daemons that are gateways to each other (server.rs,     *)
(* fleet.rs): authentication of a request, the dispatch of a tool call to  *)
(* this host or to a peer, and the two calls that fan out, `roots` and the *)
(* search over a root pattern, with what a host remembers of its peers.    *)
(*                                                                         *)
(* One call to a peer is one record of `calls`: its sessions and retries   *)
(* are module PeerSession.  Assumed of the deployment: the url declared    *)
(* for a peer leads to that peer.                                          *)
(***************************************************************************)
EXTENDS Naturals, FiniteSets, Sequences, SequencesExt, Sorting

CONSTANTS
    Hosts,
    Names,        \* host-qualified root names
    Prefix,       \* name -> the host before the colon
    Rank,         \* name -> its place in the order of (host, root)
    Hits,         \* name -> matches a search finds in that root
    Fleet,        \* host -> its [peers] table, NoTable if it has none
    NoTable,
    Identities,   \* host -> its [auth] table: author -> nodes it is pinned to
    Enforces,     \* hosts with [whois] enforce
    Agents,       \* calls of agents
    Requests,     \* agent call -> the requests it may make
    MaxResults,   \* the search budget
    MaxCrashes    \* bound: daemons that die

Statuses == {"active", "deferred", "unreachable"}

(* resolve_peers: a host is not its own peer, a deferred peer says why and *)
(* an unreachable one since when.                                          *)
PeerTable(h, table) ==
    /\ h \notin DOMAIN table
    /\ \A p \in DOMAIN table :
         /\ table[p].status \in Statuses
         /\ table[p].status = "deferred" => table[p].ref
         /\ table[p].status = "unreachable" => table[p].since

(* The calls that may be asked: `roots`, a search over a pattern (the      *)
(* names and the hosts it matches), any tool on one root.                  *)
Op(op) ==
    \/ op = [tool |-> "roots"]
    \/ /\ op.tool = "fleet_search"
       /\ op.names \subseteq Names
       /\ {Prefix[n] : n \in op.names} \subseteq op.hosts
    \/ op.tool = "one_root" /\ op.name \in Names

ASSUME FleetAssumption ==
    /\ Prefix \in [Names -> Hosts]
    /\ IsFiniteSet(Names) /\ Keyed(Names, Rank) /\ Hits \in [Names -> Nat]
    /\ \A h \in Hosts : \/ Fleet[h] = NoTable
                        \/ DOMAIN Fleet[h] \subseteq Hosts /\ PeerTable(h, Fleet[h])
    /\ Enforces \subseteq Hosts
    /\ \A a \in Agents : \A r \in Requests[a] : r.at \in Hosts /\ Op(r.op)
    /\ MaxResults \in Nat /\ MaxCrashes \in Nat

VARIABLES
    up,        \* hosts whose daemon runs
    serves,    \* host -> the roots of its running daemon (AppState::roots)
    down,      \* <<h, p>>: h saw p fail and not answer since (PeerSight.down_since)
    seen,      \* h, p -> PeerSight.roots: what p last reported to h, {} for nothing
    calls,     \* the calls under way and answered, by where they come from
    past,      \* history: per agent call, what was true while it ran
    crashes

vars == <<up, serves, down, seen, calls, past, crashes>>

Peers(h) == IF Fleet[h] = NoTable THEN {} ELSE DOMAIN Fleet[h]

(* Peers::routable: declared, not deferred, with a url.  Declared          *)
(* unreachable counts.                                                     *)
Routable(h) == {p \in Peers(h) : Fleet[h][p].status # "deferred" /\ Fleet[h][p].url}

RootsOf(h) == {n \in Names : Prefix[n] = h}

(* What the middleware lets in: a declared name on the allow-list and,     *)
(* where pins are enforced and the name has some, from one of its nodes.   *)
(* A forwarded call arrives from the node of its gateway.  `reload` puts   *)
(* the table it was started with back in place and changes nothing.        *)
Admitted(h, author, node) ==
    /\ author \in DOMAIN Identities[h]
    /\ \/ h \notin Enforces
       \/ Identities[h][author] = {}
       \/ node \in Identities[h][author]

-----------------------------------------------------------------------------
(* merge_search                                                            *)

(* One root's answer enters the merged one: its matches as far as the      *)
(* budget reaches, and what was left out is said.                          *)
MergePart(acc, part, budget) ==
    IF part.outcome.type # "hits" THEN [acc EXCEPT !.failed = @ \cup {part.root}]
    ELSE LET left == budget - Len(acc.matches)
             taken == IF part.outcome.count < left THEN part.outcome.count ELSE left
         IN [acc EXCEPT
               !.matches = @ \o [i \in 1..taken |-> <<part.root, i>>],
               !.dropped = @ \cup (IF taken < part.outcome.count THEN {part.root} ELSE {}),
               !.cut = @ \cup (IF part.outcome.truncated THEN {part.root} ELSE {}),
               !.truncated = @ \/ part.outcome.truncated \/ taken < part.outcome.count]

Merge(parts, budget) ==
    FoldLeft(LAMBDA acc, part : MergePart(acc, part, budget),
             [matches |-> <<>>, failed |-> {}, dropped |-> {}, cut |-> {}, truncated |-> FALSE], parts)

(* search of one root of a daemon: it stops at the first match past the    *)
(* budget.                                                                 *)
Searched(n) == [type |-> "hits", root |-> n,
                count |-> IF Hits[n] < MaxResults THEN Hits[n] ELSE MaxResults,
                truncated |-> Hits[n] > MaxResults]

-----------------------------------------------------------------------------
(* Calls                                                                   *)

Pending == [type |-> "pending"]
Error(reason) == [type |-> "error", reason |-> reason]

(* A call of an agent has reached its daemon; one to a peer needs a        *)
(* session first.                                                          *)
NewCall(h, author, node, hop, op, phase) ==
    [at |-> h, author |-> author, node |-> node, hop |-> hop, op |-> op,
     phase |-> phase, part |-> <<>>, gone |-> <<>>, answer |-> Pending]

(* The calls id has under way; they end with it.                           *)
Children(id) == {i \in DOMAIN calls : Len(i) = Len(id) + 1 /\ Front(i) = id}

(* Call id goes on in phase step once the calls asks are answered, each a  *)
(* Peers::call: under the caller's own name, with the hop marker every     *)
(* session to a peer carries.                                              *)
Await(id, step, asks, gone) ==
    LET new == {Append(id, k) : k \in DOMAIN asks}
    IN calls' = [i \in (DOMAIN calls \ Children(id)) \cup new |->
          IF i \in new
          THEN NewCall(asks[Last(i)].to, calls[id].author, calls[id].at, TRUE,
                       asks[Last(i)].op, "connecting")
          ELSE IF i = id
          THEN [calls[id] EXCEPT !.phase = step, !.part = [k \in DOMAIN asks |-> Pending],
                                 !.gone = gone]
          ELSE calls[i]]

Answer(id, answer) ==
    calls' = [i \in DOMAIN calls \ Children(id) |->
          IF i = id
          THEN [calls[id] EXCEPT !.phase = "answered", !.part = <<>>, !.gone = <<>>,
                                 !.answer = answer]
          ELSE calls[i]]

AllIn(id) == \A k \in DOMAIN calls[id].part : calls[id].part[k] # Pending

(* build_app: a daemon without a root does not start.                      *)
Startable(h, roots) == roots # {} /\ roots \subseteq RootsOf(h)

(* Names served by a running daemon.                                       *)
Served(on, roots) == UNION {roots[h] : h \in on}

Init ==
    /\ up = {h \in Hosts : RootsOf(h) # {}}
    /\ serves \in {f \in [Hosts -> SUBSET Names] :
                    \A h \in Hosts : IF h \in up THEN Startable(h, f[h]) ELSE f[h] = {}}
    /\ down = {} /\ seen = [h \in Hosts |-> [p \in Hosts |-> {}]]
    /\ calls = <<>>
    /\ past = [a \in Agents |-> [ever |-> {}, always |-> {}, missed |-> {}]]
    /\ crashes = 0

(* An agent calls.  It may set the hop marker itself.                      *)
Call(a) ==
    /\ <<a>> \notin DOMAIN calls
    /\ \E r \in Requests[a] :
         /\ r.at \in up
         /\ calls' = [i \in DOMAIN calls \cup {<<a>>} |->
                        IF i = <<a>> THEN NewCall(r.at, r.author, r.node, r.hop, r.op, "arrived")
                        ELSE calls[i]]
    /\ past' = [past EXCEPT ![a].ever = Served(up, serves), ![a].always = Served(up, serves)]
    /\ UNCHANGED <<up, serves, down, seen, crashes>>

-----------------------------------------------------------------------------
(* A request arrives                                                       *)

Arrives(id) == /\ calls[id].phase = "arrived" /\ calls[id].at \in up
               /\ Admitted(calls[id].at, calls[id].author, calls[id].node)

(* auth_middleware: 401 or 403.                                            *)
Refuse(id) ==
    /\ calls[id].phase = "arrived" /\ calls[id].at \in up
    /\ ~Admitted(calls[id].at, calls[id].author, calls[id].node)
    /\ Answer(id, [type |-> "denied"])
    /\ UNCHANGED <<up, serves, down, seen, past, crashes>>

(* explain_unknown_root                                                    *)
Explain(h, n) ==
    CASE Prefix[n] = h -> "unknown_root"
      [] Prefix[n] # h /\ Fleet[h] = NoTable -> "fleet_undeclared"
      [] Prefix[n] # h /\ Fleet[h] # NoTable /\ Prefix[n] \notin Peers(h) -> "host_never_declared"
      [] Prefix[n] \in Peers(h) ->
           [deferred |-> "host_deferred", unreachable |-> "host_unreachable",
            active |-> "peer_routing_unavailable"][Fleet[h][Prefix[n]].status]

(* call_tool: a call for a root of a routable peer goes there, marked or   *)
(* not; AppState::root answers every other.                                *)
Forward(id) ==
    LET c == calls[id]
        host == Prefix[c.op.name]
    IN /\ Arrives(id) /\ c.op.tool = "one_root"
       /\ host # c.at /\ host \in Routable(c.at)
       /\ Await(id, "forwarding", [p \in {host} |-> [to |-> p, op |-> c.op]], <<>>)
       /\ UNCHANGED <<up, serves, down, seen, past, crashes>>

ServeRoot(id) ==
    LET c == calls[id]
    IN /\ Arrives(id) /\ c.op.tool = "one_root"
       /\ Prefix[c.op.name] = c.at \/ Prefix[c.op.name] \notin Routable(c.at)
       /\ Answer(id, IF c.op.name \in serves[c.at] THEN Searched(c.op.name)
                     ELSE Error(Explain(c.at, c.op.name)))
       /\ UNCHANGED <<up, serves, down, seen, past, crashes>>

(* Mutant: a forwarded call fans out, as before sprint 025.                *)
ProbedAlways(c) ==
    IF c.op.tool = "roots" THEN Routable(c.at) ELSE Routable(c.at) \cap c.op.hosts

(* The peers a fan-out probes: none for a forwarded call, and for a search *)
(* only those the pattern does not exclude by name.                        *)
Probed(c) ==
    IF c.hop THEN {}
    ELSE IF c.op.tool = "roots" THEN Routable(c.at)
    ELSE Routable(c.at) \cap c.op.hosts

Probe(id) ==
    LET c == calls[id]
    IN /\ Arrives(id) /\ c.op.tool \in {"roots", "fleet_search"}
       /\ Await(id, "probing", [p \in Probed(c) |-> [to |-> p, op |-> [tool |-> "roots"]]], <<>>)
       /\ UNCHANGED <<up, serves, down, seen, past, crashes>>

-----------------------------------------------------------------------------
(* A call to a peer comes to its end                                       *)

(* Call id waits for its child under key k.                                *)
Waits(id, k) ==
    /\ calls[id].phase \in {"probing", "searching", "forwarding"}
    /\ calls[id].at \in up
    /\ k \in DOMAIN calls[id].part /\ calls[id].part[k] = Pending
    /\ Append(id, k) \in DOMAIN calls

(* The task of call id takes the outcome; the child is over.               *)
Took(id, k, outcome) ==
    calls' = [i \in DOMAIN calls \ {Append(id, k)} |->
                IF i = id THEN [calls[id] EXCEPT !.part[k] = outcome] ELSE calls[i]]

(* The peer answered.  A refused name says nothing about its health; any   *)
(* answer marks it up, and an answer to a probe is remembered.             *)
Return(id, k) ==
    LET child == calls[Append(id, k)]
        link == <<calls[id].at, child.at>>
    IN /\ Waits(id, k) /\ child.phase = "answered"
       /\ Took(id, k, IF child.answer.type = "denied" THEN [type |-> "refused"]
                      ELSE child.answer)
       /\ down' = IF child.answer.type = "denied" THEN down ELSE down \ {link}
       /\ seen' = IF calls[id].phase = "probing" /\ child.answer.type = "roots"
                  THEN [seen EXCEPT ![link[1]][link[2]] = {e.name : e \in child.answer.entries}]
                  ELSE seen
       /\ UNCHANGED <<up, serves, past, crashes>>

(* A session stands and the request is on its way.                         *)
Connect(id, k) ==
    LET child == calls[Append(id, k)]
    IN /\ Waits(id, k) /\ child.phase = "connecting" /\ child.at \in up
       /\ calls' = [calls EXCEPT ![Append(id, k)].phase = "arrived"]
       /\ UNCHANGED <<up, serves, down, seen, past, crashes>>

(* No session, not even on the second attempt: the peer does not run, was  *)
(* restarted under the call, or does not accept a connection in time.      *)
Unanswered(id, k) ==
    LET child == calls[Append(id, k)]
    IN /\ Waits(id, k) /\ child.phase \in {"connecting", "broken"}
       /\ Took(id, k, [type |-> "unreachable"])
       /\ down' = down \cup {<<calls[id].at, child.at>>}
       /\ past' = [past EXCEPT ![id[1]].missed = @ \cup {child.at}]
       /\ UNCHANGED <<up, serves, seen, crashes>>

(* The one replay of a call whose session was closed.                      *)
Replay(id, k) ==
    /\ Waits(id, k) /\ calls[Append(id, k)].phase = "broken"
    /\ calls' = [calls EXCEPT ![Append(id, k)].phase = "connecting"]
    /\ UNCHANGED <<up, serves, down, seen, past, crashes>>

(* Mutant: nobody limits the wait for an answer.                           *)
TimesOutNever(id, k) == FALSE

(* The session stands and CALL_TIMEOUT passes: nobody says the peer is     *)
(* down.                                                                   *)
TimesOut(id, k) ==
    /\ Waits(id, k) /\ calls[Append(id, k)].phase \notin {"connecting", "broken"}
    /\ Took(id, k, [type |-> "timeout"])
    /\ UNCHANGED <<up, serves, down, seen, past, crashes>>

-----------------------------------------------------------------------------
(* What the gateway makes of the outcomes                                  *)

(* proxy_to_peer: the peer's envelope as it is, or this host's error.      *)
Relay(id) ==
    /\ calls[id].phase = "forwarding" /\ calls[id].at \in up /\ AllIn(id)
    /\ \E k \in DOMAIN calls[id].part :
         Answer(id, LET o == calls[id].part[k]
                    IN CASE o.type = "unreachable" -> Error("peer_unreachable")
                         [] o.type = "refused" -> Error("peer_credential_rejected")
                         [] o.type = "timeout" -> Error("peer_timeout")
                         [] OTHER -> o)
    /\ UNCHANGED <<up, serves, down, seen, past, crashes>>

Entry(n, status) == [name |-> n, status |-> status]

(* Mutant: whatever the probe failed with, the peer is unreachable.        *)
FleetLineOfAnyError(h, p, outcome) ==
    CASE outcome.type = "roots" -> [status |-> "active", verified |-> TRUE, dated |-> FALSE]
      [] outcome.type = "pending" ->
           [status |-> Fleet[h][p].status, verified |-> FALSE, dated |-> Fleet[h][p].since]
      [] OTHER -> [status |-> "unreachable", verified |-> TRUE,
                   dated |-> <<h, p>> \in down \/ Fleet[h][p].since]

(* A peer's line in the fleet block: observed if it was probed and the     *)
(* probe tells, its declaration otherwise.                                 *)
FleetLine(h, p, outcome) ==
    CASE outcome.type = "roots" -> [status |-> "active", verified |-> TRUE, dated |-> FALSE]
      [] outcome.type = "unreachable" ->
           [status |-> "unreachable", verified |-> TRUE,
            dated |-> <<h, p>> \in down \/ Fleet[h][p].since]
      [] OTHER -> [status |-> Fleet[h][p].status, verified |-> FALSE,
                   dated |-> Fleet[h][p].since]

(* Mutant: remembered roots are shown as they were reported.               *)
RootLinesUnmarked(h, p, outcome) ==
    CASE outcome.type = "roots" -> outcome.entries
      [] outcome.type = "unreachable" -> {Entry(n, "active") : n \in seen[h][p]}
      [] OTHER -> {}

(* A peer's roots: as it reports them, or as it last did while it does not *)
(* answer, marked.                                                         *)
RootLines(h, p, outcome) ==
    CASE outcome.type = "roots" -> outcome.entries
      [] outcome.type = "unreachable" -> {Entry(n, "unreachable") : n \in seen[h][p]}
      [] OTHER -> {}

Outcome(id, p) == IF p \in DOMAIN calls[id].part THEN calls[id].part[p] ELSE Pending

(* The last part of `roots`: every declared peer has one line.             *)
ShowRoots(id) ==
    LET h == calls[id].at
    IN /\ calls[id].phase = "probing" /\ h \in up /\ AllIn(id)
       /\ calls[id].op.tool = "roots"
       /\ Answer(id,
            [type |-> "roots",
             entries |-> {Entry(n, "active") : n \in serves[h]}
                         \cup UNION {RootLines(h, p, Outcome(id, p)) : p \in Peers(h)},
             fleet |-> [p \in Peers(h) |-> FleetLine(h, p, Outcome(id, p))]])
       /\ UNCHANGED <<up, serves, down, seen, past, crashes>>

(* Mutant: a host whose probe timed out is left out in silence.            *)
UnavailableButForTimeouts(id) ==
    LET c == calls[id]
        gone == {p \in Peers(c.at) \cap c.op.hosts :
                   Outcome(id, p).type \notin {"roots", "timeout"}}
    IN [p \in gone |-> "unreachable"]

(* Of a fleet search: the hosts it could not search, and why.              *)
Unavailable(id) ==
    LET c == calls[id]
        Why(p) == CASE Fleet[c.at][p].status = "deferred" -> "deferred"
                    [] Fleet[c.at][p].status # "deferred" /\ ~Fleet[c.at][p].url -> "no_url"
                    [] p \in Routable(c.at) /\ c.hop -> "not_probed"
                    [] p \in Routable(c.at) /\ ~c.hop /\ c.part[p].type = "refused"
                         -> "identity_refused"
                    [] OTHER -> "unreachable"
        gone == {p \in Peers(c.at) \cap c.op.hosts : Outcome(id, p).type # "roots"}
    IN [p \in gone |-> Why(p)]

(* After the probes: each root they found and the pattern selects is       *)
(* searched by its peer.  A forwarded `roots` names only the peer's own.   *)
Search(id) ==
    LET c == calls[id]
        found == UNION {{e.name : e \in c.part[p].entries} :
                          p \in {q \in DOMAIN c.part : c.part[q].type = "roots"}}
    IN /\ c.phase = "probing" /\ c.at \in up /\ AllIn(id)
       /\ c.op.tool = "fleet_search"
       /\ Await(id, "searching",
                [n \in found \cap c.op.names |->
                   [to |-> Prefix[n], op |-> [tool |-> "one_root", name |-> n]]],
                Unavailable(id))
       /\ UNCHANGED <<up, serves, down, seen, past, crashes>>

(* Mutant: the peers' answers are merged before this host's.               *)
PartsPeersFirst(c) ==
    LET here == SortedBy(serves[c.at] \cap c.op.names, Rank)
        there == SortedBy(DOMAIN c.part, Rank)
    IN [i \in DOMAIN there |-> [root |-> there[i], outcome |-> c.part[there[i]]]]
       \o [i \in DOMAIN here |-> [root |-> here[i], outcome |-> Searched(here[i])]]

(* This host's roots in the order of its configuration, then those of the  *)
(* peers by host and name, whatever order the answers came in.             *)
Parts(c) ==
    LET here == SortedBy(serves[c.at] \cap c.op.names, Rank)
        there == SortedBy(DOMAIN c.part, Rank)
    IN [i \in DOMAIN here |-> [root |-> here[i], outcome |-> Searched(here[i])]]
       \o [i \in DOMAIN there |-> [root |-> there[i], outcome |-> c.part[there[i]]]]

ShowSearch(id) ==
    LET c == calls[id]
    IN /\ c.phase = "searching" /\ c.at \in up /\ AllIn(id)
       /\ \E merged \in {Merge(Parts(c), MaxResults)} :
            Answer(id, [type |-> "found", matches |-> merged.matches,
                        failed |-> merged.failed, dropped |-> merged.dropped,
                        cut |-> merged.cut, truncated |-> merged.truncated,
                        unavailable |-> c.gone])
       /\ UNCHANGED <<up, serves, down, seen, past, crashes>>

-----------------------------------------------------------------------------
(* A daemon dies and is started again, perhaps with other roots; what it   *)
(* remembered of its peers is gone.                                        *)

(* History: an agent call that is still under way saw these names served.  *)
Witness(served) ==
    past' = [a \in Agents |->
      IF <<a>> \in DOMAIN calls /\ calls[<<a>>].phase \notin {"answered", "lost"}
      THEN [past[a] EXCEPT !.ever = @ \cup served, !.always = @ \cap served]
      ELSE past[a]]

Crash(h) ==
    /\ h \in up /\ crashes < MaxCrashes
    /\ up' = up \ {h}
    /\ down' = {l \in down : l[1] # h}
    /\ seen' = [seen EXCEPT ![h] = [p \in Hosts |-> {}]]
    /\ \E lost \in BOOLEAN :     \* of an answer on its way
         calls' = [id \in DOMAIN calls |->
           IF calls[id].at # h \/ calls[id].phase = "lost" THEN calls[id]
           ELSE IF Len(id) = 1
           THEN IF calls[id].phase = "answered" THEN calls[id]
                ELSE [calls[id] EXCEPT !.phase = "lost"]
           ELSE IF calls[id].phase = "connecting" \/ (calls[id].phase = "answered" /\ ~lost)
           THEN calls[id]
           ELSE [calls[id] EXCEPT !.phase = "broken"]]
    /\ Witness(Served(up', serves))
    /\ crashes' = crashes + 1
    /\ UNCHANGED serves

Start(h) ==
    /\ h \in Hosts \ up
    /\ \E roots \in SUBSET RootsOf(h) :
         /\ Startable(h, roots)
         /\ serves' = [serves EXCEPT ![h] = roots]
    /\ up' = up \cup {h}
    /\ Witness(Served(up', serves'))
    /\ UNCHANGED <<down, seen, calls, crashes>>

-----------------------------------------------------------------------------
(* Steps of the daemon that runs call id.                                  *)
Handle(id) ==
    \/ Refuse(id) \/ Forward(id) \/ ServeRoot(id) \/ Probe(id)
    \/ Relay(id) \/ ShowRoots(id) \/ Search(id) \/ ShowSearch(id)
    \/ \E k \in DOMAIN calls[id].part :
         Connect(id, k) \/ Return(id, k) \/ Unanswered(id, k) \/ Replay(id, k) \/ TimesOut(id, k)

Next ==
    \/ \E a \in Agents : Call(a)
    \/ \E id \in DOMAIN calls : Handle(id)
    \/ \E h \in Hosts : Crash(h) \/ Start(h)

(* The daemon an agent called goes on with the call; nothing is assumed of *)
(* the peers and the network but that timers run.                          *)
Fairness == \A a \in Agents : WF_vars(<<a>> \in DOMAIN calls /\ Handle(<<a>>))

Spec == Init /\ [][Next]_vars
FairSpec == Spec /\ Fairness

-----------------------------------------------------------------------------
(* A call crosses at most one link between hosts, although every host may  *)
(* declare every other: what a forwarded call asks for is answered where   *)
(* it arrives, and no fan-out grows another (the hop rule, R10).           *)
OneHop == \A id \in DOMAIN calls : Len(id) <= 2

Answered(a) == <<a>> \in DOMAIN calls /\ calls[<<a>>].phase = "answered"

(* Host p does not let in what the host of call c sends it for c's author. *)
RefusedBy(p, c) == p # c.at /\ ~Admitted(p, c.author, c.at)

(* Host h merges the answer of root m before that of root n: its own roots *)
(* come first, and each kind in its order.                                 *)
Precedes(h, m, n) ==
    \/ Prefix[m] = h /\ Prefix[n] # h
    \/ (Prefix[m] = h <=> Prefix[n] = h) /\ Rank[m] < Rank[n]

(* Whatever order the answers came in, the matches of a merged one are in  *)
(* the order of the roots, none twice, and the budget is spent in it: no   *)
(* root lost a match to one that comes after it.                           *)
InOrder(h, o) ==
    /\ \A i, j \in DOMAIN o.matches : i < j =>
         \/ Precedes(h, o.matches[i][1], o.matches[j][1])
         \/ o.matches[i][1] = o.matches[j][1] /\ o.matches[i][2] < o.matches[j][2]
    /\ \A n \in o.dropped, j \in DOMAIN o.matches : ~Precedes(h, n, o.matches[j][1])

(* A fleet search is never narrower than the fleet without saying so, nor  *)
(* wider: of each root the pattern selects that its host served all the    *)
(* while, it has every match, or it names the root as failed or cut short, *)
(* or the host as unavailable; cut short means truncated; each match is of *)
(* a root that was served, by a host that lets the caller in; and matches  *)
(* and budget go by the order of the roots, not by that of the answers.    *)
FoundIsHonest(c, h, o) ==
    o.type = "found" =>
      /\ \A n \in h.always \cap c.op.names :
           \/ Prefix[n] \notin {c.at} \cup Peers(c.at)
           \/ Prefix[n] \in DOMAIN o.unavailable
           \/ n \in o.failed
           \/ n \in o.dropped \cup o.cut /\ o.truncated
           \/ \A i \in 1..Hits[n] : \E j \in DOMAIN o.matches : o.matches[j] = <<n, i>>
      /\ \A j \in DOMAIN o.matches :
           LET n == o.matches[j][1]
           IN n \in h.ever /\ ~RefusedBy(Prefix[n], c)
      /\ InOrder(c.at, o)

SearchIsHonest ==
    \A a \in Agents : Answered(a) => FoundIsHonest(calls[<<a>>], past[a], calls[<<a>>].answer)

(* Whatever `roots` shows as active was served by its host at some moment  *)
(* of this very call; what is only remembered is marked.                   *)
StaleIsMarked ==
    \A a \in Agents :
      LET o == calls[<<a>>].answer
      IN Answered(a) /\ o.type = "roots" =>
           \A e \in o.entries : e.status = "active" => e.name \in past[a].ever

(* A line of `roots` that claims to be observed is: the outage was met, or *)
(* the host let the call in and had a root served.  h is the history of    *)
(* the call.                                                               *)
LinesAreTrue(c, h, o) ==
    o.type = "roots" =>
      \A p \in DOMAIN o.fleet : o.fleet[p].verified =>
         CASE o.fleet[p].status = "unreachable" -> p \in h.missed
           [] o.fleet[p].status = "active" -> ~RefusedBy(p, c) /\ h.ever \cap RootsOf(p) # {}
           [] OTHER -> FALSE

(* A host that is said to refuse the caller does; a root that is said not  *)
(* to exist was at some moment not served; an outage was met; and a root   *)
(* that was searched was served, by a host that lets the caller in.        *)
ReasonsAreTrue(c, h, o) ==
    /\ o.type = "found" =>
         \A p \in DOMAIN o.unavailable :
            o.unavailable[p] = "identity_refused" => RefusedBy(p, c)
    /\ o.type = "hits" => o.root \in h.ever /\ ~RefusedBy(Prefix[o.root], c)
    /\ o.type = "error" =>
         /\ o.reason = "unknown_root" => c.op.name \notin h.always
         /\ o.reason = "peer_unreachable" => Prefix[c.op.name] \in h.missed
         /\ o.reason = "peer_credential_rejected" => RefusedBy(Prefix[c.op.name], c)

(* The verdicts of an answer are true of the hosts, at some moment of the  *)
(* call, whichever hosts were up and which had other roots before or after.*)
VerdictIsTrue ==
    \A a \in Agents :
      LET c == calls[<<a>>]
      IN Answered(a) => LinesAreTrue(c, past[a], c.answer) /\ ReasonsAreTrue(c, past[a], c.answer)

(* Whoever calls gets an answer, or loses the daemon it called: no peer    *)
(* and no combination of peers can keep a call waiting.                    *)
EveryCallReturns ==
    \A a \in Agents :
      <<a>> \in DOMAIN calls ~>
        <<a>> \in DOMAIN calls /\ calls[<<a>>].phase \in {"answered", "lost"}
=============================================================================
