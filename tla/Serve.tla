------------------------------- MODULE Serve -------------------------------
(***************************************************************************)
(* One daemon answering calls that read: each passes the middleware, which *)
(* asks the tailnet what node its address belongs to (whois.rs, server.rs),*)
(* and is then handled on the tree as it is at that moment.  Agents page   *)
(* through files and directories while others, outside of kaed, change     *)
(* them; addresses move from node to node while lookups run and are cached.*)
(***************************************************************************)
EXTENDS Reading

CONSTANTS
    Agents, Addrs,
    NoAddr,         \* an agent whose address cannot be told
    Addr,           \* Agents -> Addrs \cup {NoAddr}
    Nodes, Unknown,
    FirstOwner,     \* Addrs -> Nodes
    Pins,           \* Agents -> the nodes its identity is pinned to, {} for any
    Enforces,       \* [whois] enforce
    Ttl,            \* [whois] ttl_secs, in ticks
    Patience,       \* what a whois command takes at most, in ticks
    Trees,          \* a sequence of the trees there may be
    Workloads,      \* a sequence of [whois, changes, calls, ops]: see Init
    MaxTime, MaxMoves, MaxRestarts, MaxPages

ASSUME ServeAssumption ==
    /\ Addr \in [Agents -> Addrs \cup {NoAddr}] /\ NoAddr \notin Addrs
    /\ FirstOwner \in [Addrs -> Nodes] /\ Unknown \notin Nodes
    /\ Pins \in [Agents -> SUBSET Nodes] /\ Enforces \in BOOLEAN
    /\ {Ttl, Patience, MaxTime, MaxMoves, MaxRestarts, MaxPages} \subseteq Nat
    /\ 1 \in DOMAIN Trees
    /\ \A i \in DOMAIN Trees :
          /\ IsTree(Trees[i]) /\ Keyed(DOMAIN Trees[i], Rank)
          /\ \A p \in DOMAIN Trees[i] : Len(p) <= Far
    /\ \A w \in DOMAIN Workloads : Workloads[w].ops \in [Agents -> SUBSET Ops]

VARIABLES
    load,       \* which of Workloads this behaviour has
    tree,       \* which of Trees is on the disk
    changes,    \* how often it was replaced
    indexed,    \* secret_digests: the sealed lines that reads have shown
    clock,
    owner,      \* whose node each address is
    held,       \* history: [Addrs -> the <<time, node>> there were]
    moves,
    cache,      \* TailscaleWhois::cache, of the addresses looked up
    front,      \* the middleware of a call: [phase, node, saw, began, since]
    agents,     \* the call and what came of it: [op, reply, on, pages]
    sent,       \* how many calls each agent has begun
    restarts

served == <<agents, indexed>>
world == <<load, tree, changes, clock, owner, held, moves>>
vars == <<world, served, cache, front, sent, restarts>>

Fronts == [phase : {"idle", "asking", "ready", "answered"}, node : Nodes \cup {Unknown},
           saw : SUBSET (Nodes \cup {Unknown}), began : Nat, since : Nat]

Idle == [phase |-> "idle", node |-> Unknown, saw |-> {}, began |-> 0, since |-> 0]
NoCall == [op |-> [tool |-> "none"], reply |-> [type |-> "none"], on |-> 1, pages |-> <<>>]

(* A workload is what each agent may ask (ops) and how often (calls),      *)
(* whether the daemon has a resolver (whois) and how many changes others   *)
(* make to the tree.                                                       *)
Init ==
    /\ load \in DOMAIN Workloads
    /\ tree = 1 /\ changes = 0 /\ indexed = {}
    /\ clock = 0 /\ moves = 0
    /\ owner = FirstOwner
    /\ held = [addr \in Addrs |-> {<<0, FirstOwner[addr]>>}]
    /\ cache = <<>>
    /\ front = [a \in Agents |-> Idle]
    /\ agents = [a \in Agents |-> NoCall]
    /\ sent = [a \in Agents |-> 0]
    /\ restarts = 0

-----------------------------------------------------------------------------
(* The middleware.                                                         *)

(* cached: an entry of the address that is no older than the ttl.          *)
(* Mutant: one is used however old it is.                                  *)
CachedForever(addr) == addr \in DOMAIN cache
Cached(addr) == addr \in DOMAIN cache /\ clock - cache[addr].at <= Ttl

(* A request arrives; a whois command is begun unless the cache answers.   *)
Arrive(a, op, pages) ==
    LET addr == Addr[a]
        Come(node) == [Idle EXCEPT !.phase = "ready", !.node = node, !.since = clock]
    IN /\ sent[a] < Workloads[load].calls
       /\ front[a].phase \in {"idle", "answered"}
       /\ sent' = [sent EXCEPT ![a] = @ + 1]
       /\ agents' = [agents EXCEPT ![a] = [NoCall EXCEPT !.op = op, !.pages = pages]]
       /\ front' = [front EXCEPT ![a] =
             IF ~Workloads[load].whois \/ addr = NoAddr THEN Come(Unknown)
             ELSE IF Cached(addr) THEN Come(cache[addr].node)
             ELSE [Idle EXCEPT !.phase = "asking", !.began = clock]]
       /\ UNCHANGED <<world, indexed, cache, restarts>>

Ask(a) == \E op \in Workloads[load].ops[a] : Arrive(a, op, <<>>)

(* The agent goes on where the last page ended.                            *)
Resumed(op, next) ==
    IF op.tool = "list" THEN [op EXCEPT !.offset = next]
    ELSE [op EXCEPT !.mode = [type |-> "range", start |-> next,
                              end |-> IF @.type = "range" THEN @.end ELSE Far]]

Continue(a) ==
    LET pages == agents[a].pages
    IN /\ pages # <<>> /\ Len(pages) < MaxPages
       /\ Last(pages).reply.next # None
       /\ Last(pages).op.tool = "read" => Last(pages).op.mode.type \in {"whole", "range"}
       /\ Arrive(a, Resumed(Last(pages).op, Last(pages).reply.next), pages)

(* tailscaled is asked; it may not answer, or not know the address.        *)
Look(a) ==
    /\ front[a].phase = "asking" /\ front[a].saw = {}
    /\ \E node \in {owner[Addr[a]], Unknown} :
          front' = [front EXCEPT ![a].saw = {node}]
    /\ UNCHANGED <<world, served, cache, sent, restarts>>

(* The command ends: what it saw is stored, as of now, and is the node of  *)
(* the request.                                                            *)
Resolve(a) ==
    /\ front[a].phase = "asking"
    /\ \E node \in front[a].saw :
          /\ cache' = [addr \in DOMAIN cache \cup {Addr[a]} |->
                IF addr = Addr[a] THEN [at |-> clock, node |-> node] ELSE cache[addr]]
          /\ front' = [front EXCEPT ![a] =
                [Idle EXCEPT !.phase = "ready", !.node = node, !.since = clock]]
    /\ UNCHANGED <<world, served, sent, restarts>>

Forbidden(a, node) == Enforces /\ Pins[a] # {} /\ node \notin Pins[a]

-----------------------------------------------------------------------------
(* The handlers.                                                           *)

Answer(fs, op) ==
    CASE op.tool = "read" -> Read(fs, op.rel, op.mode, op.max)
      [] op.tool = "read_many" -> ReadMany(fs, op.rels, op.numbered, op.max)
      [] op.tool = "list" -> List(fs, op)
      [] op.tool = "search" -> Search(fs, op)
      [] op.tool = "stat" -> Stat(fs, op.rel)
      [] op.tool = "create" -> ResolveCreatable(fs, op.rel)

PagesOf(reply) ==
    CASE reply.type = "page" -> {reply}
      [] reply.type = "files" -> {p \in Range(reply.files) : p.type = "page"}
      [] OTHER -> {}

(* record_digests: the values a redacted read shows sealed are indexed.    *)
SealedIn(reply) ==
    UNION {{<<p.version, item.line>> :
              item \in {i \in Range(p.items) : i.kind = "sealed"}} : p \in PagesOf(reply)}

Handle(a) ==
    /\ front[a].phase = "ready"
    /\ front' = [front EXCEPT ![a].phase = "answered"]
    /\ \E reply \in {IF Forbidden(a, front[a].node) THEN Error("forbidden")
                     ELSE Answer(Trees[tree], agents[a].op)} :
          LET page == [op |-> agents[a].op, on |-> tree, reply |-> reply]
          IN /\ indexed' = indexed \cup SealedIn(reply)
             /\ agents' = [agents EXCEPT ![a] =
                   [op |-> @.op, reply |-> reply, on |-> tree,
                    pages |-> IF reply.type \in {"page", "entries"} THEN Append(@.pages, page)
                              ELSE <<>>]]
    /\ UNCHANGED <<world, cache, sent, restarts>>

-----------------------------------------------------------------------------
(* Around the daemon.                                                      *)

Write ==
    /\ changes < Workloads[load].changes
    /\ changes' = changes + 1
    /\ tree' \in DOMAIN Trees \ {tree}
    /\ UNCHANGED <<load, clock, owner, held, moves, served, cache, front, sent, restarts>>

Tick ==
    /\ Workloads[load].whois /\ clock < MaxTime
    /\ \A a \in Agents : front[a].phase = "asking" => clock - front[a].began < Patience
    /\ clock' = clock + 1
    /\ held' = [addr \in Addrs |-> held[addr] \cup {<<clock + 1, owner[addr]>>}]
    /\ UNCHANGED <<load, tree, changes, owner, moves, served, cache, front, sent, restarts>>

Move(addr, node) ==
    /\ Workloads[load].whois /\ moves < MaxMoves /\ node # owner[addr]
    /\ moves' = moves + 1
    /\ owner' = [owner EXCEPT ![addr] = node]
    /\ held' = [held EXCEPT ![addr] = @ \cup {<<clock, node>>}]
    /\ UNCHANGED <<load, tree, changes, clock, served, cache, front, sent, restarts>>

(* The cache and the calls in flight are gone; agents keep their pages.    *)
Restart ==
    /\ restarts < MaxRestarts
    /\ restarts' = restarts + 1
    /\ cache' = <<>>
    /\ front' = [a \in Agents |->
          IF front[a].phase \in {"asking", "ready"} THEN Idle ELSE front[a]]
    /\ UNCHANGED <<world, served, sent>>

Next ==
    \/ \E a \in Agents : Ask(a) \/ Continue(a) \/ Look(a) \/ Resolve(a) \/ Handle(a)
    \/ \E addr \in Addrs, node \in Nodes : Move(addr, node)
    \/ Write \/ Tick \/ Restart

Spec == Init /\ [][Next]_vars

-----------------------------------------------------------------------------
(* Properties.                                                             *)

Answered == {a \in Agents : front[a].phase = "answered"}

OwnedSince(addr, node, time, slack) ==
    \E t \in 0 .. time : t + slack >= time /\ <<t, node>> \in held[addr]

(* The node a request is recorded under owned the request's address at     *)
(* some time within a ttl and the longest lookup before it was settled:    *)
(* lookups of one address overlap, and the one that ends last is stored as *)
(* if it were new, whenever it looked (whois.rs:126).                      *)
NodeIsFresh ==
    \A a \in Agents :
      front[a].phase \in {"ready", "answered"} /\ front[a].node # Unknown
      => OwnedSince(Addr[a], front[a].node, front[a].since, Ttl + Patience)

(* What a file was, or a directory is, from the first page on.             *)
AllLines(page) ==
    LET lines == Rendering(page.reply.version, page.reply.redacted)
        end == IF page.op.mode.type = "range" THEN AtMost(page.op.mode.end, Len(lines)) ELSE Len(lines)
    IN [i \in 1 .. end |-> [line |-> i, kind |-> lines[i].kind, bytes |-> lines[i].bytes]]

AllEntries(page) ==
    LET fs == Trees[page.on]
        found == Walk(fs, page.reply.base, page.op.depth, page.op.ignored).found
    IN InOrder({p \in found : InGlob(page.op, p)})

OfOneState(pages) ==
    IF pages[1].op.tool = "read"
    THEN \A p \in Range(pages) : /\ p.reply.version = pages[1].reply.version
                                 /\ p.reply.redacted = pages[1].reply.redacted
    ELSE \A p \in Range(pages) : p.on = pages[1].on

Gathered(pages) == FoldLeft(LAMBDA got, page : got \o page.reply.items, <<>>, pages)

Concatenate(pages) ==
    LET read == pages[1].op.tool = "read"
        whole == ~read \/ pages[1].op.mode.type \in {"whole", "range"}
        all == IF read THEN AllLines(pages[1]) ELSE AllEntries(pages[1])
        got == Gathered(pages)
        skipped == IF ~read THEN pages[1].op.offset
                   ELSE IF got = <<>> THEN 0 ELSE got[1].line - 1
        n == Len(got)
        last == Last(pages).reply
        cut == read /\ last.truncated /\ last.next = None
    IN /\ read /\ pages[1].op.mode.type = "whole" => skipped = 0
       /\ n # 0 => skipped + n <= Len(all)
       /\ \A i \in 1 .. n :
             IF cut /\ i = n
             THEN got[i].line = all[skipped + i].line /\ got[i].bytes < all[skipped + i].bytes
             ELSE got[i] = all[skipped + i]
       /\ whole /\ ~last.truncated => skipped + n >= Len(all)

(* Pages followed by next_offset that are of one version (those of a       *)
(* directory: between which nothing changed) are together what was there:  *)
(* no line or entry twice, none left out, and all of them once a page is   *)
(* not truncated.  Only the last line may be cut, and then the page says it*)
(* is truncated (fsops.rs:942, 525).                                       *)
PagesConcatenate ==
    \A a \in Agents :
      LET pages == agents[a].pages
      IN pages # <<>> /\ OfOneState(pages) => Concatenate(pages)

(* What a reply shows: the places, and the lines of those it opened.       *)
Shown(reply) ==
    CASE reply.type = "page" -> {[path |-> reply.path, kinds |-> {i.kind : i \in Range(reply.items)}]}
      [] reply.type = "files" ->
           {[path |-> p.path, kinds |-> {i.kind : i \in Range(p.items)}] : p \in PagesOf(reply)}
      [] reply.type = "entries" -> {[path |-> p, kinds |-> {}] : p \in Range(reply.items)}
      [] reply.type = "matches" -> {[path |-> h.path, kinds |-> {h.kind}] : h \in Range(reply.items)}
      [] reply.type \in {"stat", "at"} -> {[path |-> reply.path, kinds |-> {}]}
      [] OTHER -> {}

IsReal(fs, p) == \A n \in 0 .. Len(p) - 1 :
    SubSeq(p, 1, n) \in DOMAIN fs => fs[SubSeq(p, 1, n)].kind # "link"

(* No file can be put at p: a directory on the way is closed, or a link    *)
(* there leads nowhere.                                                    *)
Blocked(fs, p) == \E n \in 0 .. Len(p) - 1 :
    LET q == SubSeq(p, 1, n)
    IN /\ q \in DOMAIN fs
       /\ \/ fs[q].kind = "dir" /\ ~fs[q].open
          \/ fs[q].kind = "link" /\ fs[q].to \notin DOMAIN fs

MayShow(fs, op, s) ==
    /\ Under(Root, s.path)
    /\ IsReal(fs, s.path) \/ (op.tool = "create" /\ Blocked(fs, s.path))
    /\ ~DeniedByServer(s.path) /\ ~KaedIgnored(fs, s.path)
    /\ s.kinds # {} => /\ ~Marked(Contents[fs[s.path].holds])
                       /\ Classified(s.path) => "secret" \notin s.kinds

(* Whatever a tool shows, and wherever a create may land, is in the root   *)
(* by its real path, under no deny rule and no .kaedignore; nothing of a   *)
(* file that opts out by a marker, and no value of a classified file, is   *)
(* shown; and a name the server denies is refused whatever is there.  What *)
(* is not there, or is in the way, is taken by its name, so that a create  *)
(* that goes through a link is one that cannot land (fsops.rs:153).        *)
(* Three walks and three resolvers make these checks each for itself       *)
(* (fsops.rs:440, search.rs:106).                                          *)
OnlyPermitted ==
    \A a \in Answered :
      LET op == agents[a].op
      IN /\ \A s \in Shown(agents[a].reply) : MayShow(Trees[agents[a].on], op, s)
         /\ op.tool \in {"read", "list", "search"} /\ ~Escapes(op.rel)
            /\ DeniedByServer(Root \o Cleaned(op.rel))
            => agents[a].reply \in {Error("refused"), Error("forbidden")}

(* What a walk from base could have shown, policy and the OS aside.        *)
Candidates(fs, base, op, depth, ignored) ==
    {p \in DOMAIN fs :
        /\ Below(base, p) /\ Len(p) <= Len(base) + depth
        /\ InGlob(op, p)
        /\ \A n \in Len(base) + 1 .. Len(p) :
              p[n] # GitName /\ (SubSeq(p, 1, n) \in GitIgnored => ignored)}

PolicyHides(fs, base, p) ==
    \E n \in Len(base) + 1 .. Len(p) : Denied(fs, SubSeq(p, 1, n))

OsHides(fs, base, p) ==
    \E n \in Len(base) + 1 .. Len(p) - 1 : ~fs[SubSeq(p, 1, n)].open

Accounted(fs, reply, p) ==
    \/ PolicyHides(fs, reply.base, p) /\ reply.denied > 0
    \/ OsHides(fs, reply.base, p) /\ reply.unreadable > 0

(* Why no match of a file is among those a search shows.                   *)
Opaque(fs, p) ==
    Classified(p) /\ ~(Contents[fs[p].holds].text /\ Contents[fs[p].holds].dotenv)

(* What a search passes over in silence: what is over-long and, unless it  *)
(* is classified, what is no text (search.rs:7, 192, 236).                 *)
PassedOver(fs, p) ==
    \/ Bytes(Contents[fs[p].holds].lines) > MaxFileBytes
    \/ fs[p].open /\ ~Classified(p) /\ ~Contents[fs[p].holds].text

Unsearched(fs, reply, p) ==
    \/ PassedOver(fs, p)
    \/ Accounted(fs, reply, p)
    \/ ~fs[p].open /\ reply.unreadable > 0
    \/ Marked(Contents[fs[p].holds]) /\ reply.denied > 0
    \/ Opaque(fs, p) /\ reply.classified > 0

FilesOf(fs, op, base) ==
    IF fs[base].kind = "file" THEN {p \in {base} : InGlob(op, p)}
    ELSE {p \in Candidates(fs, base, op, Far, FALSE) : fs[p].kind = "file"}

(* The entries left out with no count, and those that come before the page.*)
LeftOut(fs, op, reply) ==
    {p \in Candidates(fs, reply.base, op, op.depth, op.ignored) :
        p \notin Range(reply.items) /\ ~Accounted(fs, reply, p)}

Skips(fs, op, reply) ==
    {p \in LeftOut(fs, op, reply) : \A q \in Range(reply.items) : Rank[p] < Rank[q]}

ListIsCounted(fs, op, reply) ==
    /\ \A p \in LeftOut(fs, op, reply) :
          \/ p \in Skips(fs, op, reply) /\ op.offset > 0
          \/ reply.truncated /\ \A q \in Range(reply.items) : Rank[q] < Rank[p]
    /\ reply.items # <<>> \/ ~reply.truncated
       => Cardinality(Skips(fs, op, reply)) <= op.offset
    /\ reply.items = <<>> /\ op.offset = 0 /\ ~reply.truncated => reply.reason # "none"

SearchIsCounted(fs, op, reply) ==
    LET files == FilesOf(fs, op, reply.base) IN
    /\ \A p \in files :
          \/ reply.truncated
          \/ Unsearched(fs, reply, p)
          \/ \A i \in Matching(Rendering(fs[p].holds, Classified(p))) :
                \E h \in Range(reply.items) : h.path = p /\ h.line = i
    /\ ~reply.truncated
       => reply.searched = Cardinality({p \in files : ~Unsearched(fs, reply, p)})
    /\ reply.truncated => Len(reply.items) = op.max
    /\ reply.searched = 0 => reply.reason # "none"

FilesAreCounted(reply) ==
    ~reply.exhausted =>
      \A p \in Range(reply.files) :
         IF p.type = "page" THEN ~p.truncated ELSE p.code # "budget"

(* A filtered answer is never the whole picture unsaid.  What a list leaves*)
(* out is counted as denied or as unreadable, or comes after the page of a *)
(* list that says it is truncated, or before it, and then there is no more *)
(* of it than the offset that was asked for.  A match a search leaves out  *)
(* is past the budget or in a file counted as denied, unreadable or        *)
(* classified by the cause that applies; over-long files and those that are*)
(* no text are passed over in silence, and the number of files searched,   *)
(* which an untruncated answer gives exactly, does not count them either.  *)
(* Several files are read to their ends unless the answer says the budget  *)
(* ran out; and where nothing was looked at, the answer has a reason       *)
(* (fsops.rs:320, search.rs:42).                                           *)
FilteredIsCounted ==
    \A a \in Answered :
      LET fs == Trees[agents[a].on]
          op == agents[a].op
          reply == agents[a].reply
      IN /\ reply.type = "entries" => ListIsCounted(fs, op, reply)
         /\ reply.type = "matches" => SearchIsCounted(fs, op, reply)
         /\ reply.type = "files" => FilesAreCounted(reply)
=============================================================================
