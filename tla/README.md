# kaed in TLA+

kaed is a daemon that gives agents a file-editing service over MCP: it serves
directories (*roots*) of its host, reads and edits files in them with declared
versions, keeps a journal of every transaction, serves dotenv files redacted, and
forwards calls to the kaed daemons of other hosts (*peers*). This directory holds
TLA+ models of it, the TLC runs that check them, and TLAPS proofs of what
matters most. Paths below are those of the repository; line numbers are in
`PROJECT.json` ("map"), one entry per definition.

Contents: [the system](#the-system) · [the modules](#the-modules) ·
[runs](#the-runs) · [findings](#findings) · [proofs](#the-proofs) ·
[not modelled](#what-is-not-modelled) · [plan](#plan)

## The system

| component | source | state it keeps | operations | talks to |
|---|---|---|---|---|
| transaction protocol | `txn.rs` (`apply`), `fsops.rs` (`stage`, `promote`, `discard`) | `TXN_LOCK`, one per process; temp files next to their destinations; per call its buffers and staged files | `edit`, and inside `revert`, `secret generate`, `secret rotate` | journal (begin, complete, fail), file system |
| edit ops and guards | `txn.rs` (`apply_inner`), `dotenv.rs`, `leak.rs` | the buffers of one call | create, delete, anchor/range replace, env_set/rename/delete/reorder/sync_example, value_from; vanish, leak and delete guards | classification, known digests |
| journal | `journal.rs` | SQLite: txns, txn_files, txn_failures, blobs, secret_events, secret_digests, feedback; time of the last sweep | begin, complete, fail, blob, gc, scan_pending, queries | transaction protocol, history |
| history | `history.rs` | none of its own | journal, diff, revert, feedback | journal, transaction protocol |
| peer sessions | `fleet.rs` (`Peers`) | a map from (host, author) to a slot with its lock and live session; per peer when it was last seen or lost | call, checkout, drop_session, probe_roots | other daemons, through rmcp |
| fan-out and routing | `server.rs` (`roots`, `fleet_search`, `call_tool`), `fleet.rs` (`merge_search`) | none | probe or search every peer in parallel and merge; forward a call for a peer's root; never fan out a forwarded call | peer sessions |
| secret verbs | `secret_tool.rs`, `server.rs` (`secret_rotate`, `fetch_secret_value`), `shapes.rs`, `secrets.rs` | audit rows in the journal | describe, generate, rotate (one root atomically, sibling roots and peers after it), reveal, occurrences | transaction protocol, peer sessions |
| authentication, reload | `server.rs` (`auth_middleware`, `reload`), `config.rs` | the identities, swapped by SIGHUP | resolve author and node of a request | whois |
| whois | `whois.rs` | cache of address to node with a TTL | resolve | `tailscale` |
| reading, listing, searching | `fsops.rs`, `search.rs`, `addr.rs` | none | read windows, list trees, search | policy |
| path policy | `policy.rs`, `deny.rs`, `perm.rs` | compiled rules, fixed at startup | jail, deny, classify, probe | file system |
| dotenv text | `dotenv.rs` | none | parse, render, redact, edit | – |

**What is hard.** Every `edit` runs on a blocking thread of its own; what the
calls share is one mutex, the files (which other programs write too) and the
journal. A transaction is a chain of separate effects (temp files, a database row,
renames one by one, unlinks, a second database write), each of which may fail, and
the daemon may die between any two. `revert` and the secret verbs read state before
the lock and act on it under the lock. Blobs of the journal are shared by all
files of equal content and expire. Proxied calls share a session that dies,
is evicted and is rebuilt under them; a timed-out call may still run. Rotation
is one transaction here followed by others elsewhere.

**What makes each part correct.** Transactions: no lost update between calls, one
point of effect, the journal ahead of the files, torn transactions found. Ops:
each sees the ones before it; what the caller did not declare or acknowledge is
neither replaced nor destroyed nor leaked. Journal and revert: a revert is the
inverse of its target, whatever happens in between; no placeholder in a file, no
secret in a blob; content retained for the promised time. Peer sessions: no
session outside its slot; a request is replayed only when its session is gone;
verdicts mean what they say; every call returns. Rotation: the result names
exactly what was written, every value that left is audited. Fan-out: it
terminates, and partial answers say they are partial. Paging: pages of one version
make up the file.

## The modules

| module | models | kind |
|---|---|---|
| `EditTxn` | the transaction protocol: lock, verification, staging, row, renames, unlinks, completion, failures, crash, startup scan, external writers | detailed specification |
| `AtomicEdit` | what `edit` promises: a call takes effect at one point on the versions it declared, or not at all, or is marked torn | abstract specification |
| `EditOps` | the ops of one call, its guards, and what the journal retains of it | detailed specification |
| `DotenvText` | the line form of a dotenv: parse, render, quoting, attached comments, views, every op on lines | pure operators |
| `DotenvEdits` | one dotenv text under a sequence of ops | specification over `DotenvText` |
| `History` | the journal over many transactions: rows, blobs, sweeps, revert | detailed specification |
| `HistoryReads` | `diff`: what the two sides of one are | operators over `History` |
| `JournalQuery` | what the `journal` tool answers: four streams, filters, merge, coverage, empty reason | pure operators |
| `PeerSession` | proxied calls of one author to one peer | detailed specification |
| `Gateway` | a fleet of daemons: admission, forwarding, `roots` and fleet search, what a host remembers of its peers | detailed specification |
| `Shapes` | the shape grammar of secrets: what is minted, detected, described, withheld | pure operators |
| `Secrets` | generate, rotate, reveal and copies between roots and hosts, over `Shapes` | detailed specification |
| `Sorting` | the members of a set in the order of a key, as `sort_by` leaves them | pure operators |
| `Access` | which path a call may touch: jail, links, deny list, classification, `.kaedignore`, marker, permissions | pure operators |
| `Reading` | read, read_many, list, search, stat over a tree, on `Access` | pure operators |
| `Serve` | a daemon answering such calls while the tree changes, with the whois cache before them | detailed specification |
| `MC…` | the constants of each for TLC; `MCEditOps`, `MCHistory`, `MCGateway`, `MCServe` also hold the assumptions that check the pure operators | model checking |
| `…_proofs` | theorems: `EditTxn` (with its refinement), `EditOps`, `History`, `PeerSession`, `Secrets`, `Gateway`, `Serve` (with `Access` and `Reading`), and `Folding`, which is induction, folds and sorting | proofs |

How they fit. `EditTxn`, `EditOps` and `History` are three cuts through one
program. `EditTxn` has the steps of a call and abstracts its ops to their net
effect (`want`); `EditOps` has the ops and takes everything from staging to
completion as one step; `History` takes whole transactions (and torn ones) as
steps and follows the journal through many of them. `Secrets` takes a transaction
as one step too, with the outcomes `EditTxn` shows it to have. `PeerSession` has
the sessions and the retry of one call to a peer; `Gateway` takes such a call as
one record that connects, breaks, is replayed once or times out, and follows what
many of them become. `EditOps` has a dotenv as a map from keys to values, and
`MCEditOps` shows `DotenvText` to agree with that map. What each leaves out is
what another one checks.

### EditTxn

A content stands for its version (the code's version is a hash of it). `pc` is
where a call is in `apply_inner`; `seen` its buffers' `old_content`; `staged` and
`landed` its temp files and the files it has replaced; `row` its journal row.
One action per step that another call, a writer or a crash can come before: the
base loop (`Verify`, one file at a time), the ops (`RunOps`), each `Stage`, the
row (`Begin`), each `Promote` and `Unlink`, `Complete`, and for each fallible step
its failure as the code handles it: `StageFails` and `BeginFails` discard,
`PromoteFails` and `CompleteFails` do not. `Leave` is the drop of the mutex guard,
`RecordFailure` what `apply` does after it. `Crash` loses the calls in flight and
keeps files, temp files and rows; `Restart` is `scan_pending`. `External` is any
other program. Temp files left behind by a failed `stage` or by a crash are
modelled; nothing in the code removes them.

Properties: `BaseHolds`, `NoLostUpdate` (an action property), `WriteAhead`,
`AppliedIsWhole`, `TornIsReported`, `AbortDiscardsStaged`, `EveryCallAnswered`
(liveness), and `ImplementsAtomic`: under the refinement mapping `Store` and
`Fate`, in which files a call has renamed count as unchanged until it completes or
gives up, every behaviour is one of `AtomicEdit`.

### EditOps

A dotenv is a function from keys to values (comments, order, quoting and
duplicate keys are left out), any other text is opaque. `bufs` are the `FileBuf`s;
every op is an action whose guard is the op's refusals and whose effect is on one
buffer; an op that refuses ends the call (`Refuse`). `Accept` is the rest of
`apply_inner`: the vanish guard, the leak guard and the delete guard under some
acknowledgement, the new files, the blobs. History variables let properties speak
of what the code does not keep: `before`, `replaced`, and the reference run, in
which each op runs on the files themselves and reads no buffer: `naive` is the text
it leaves in each file, `gone` the files it deletes, and `revived` those a
`value_from` took a value out of while they were deleted. The engine's
source of a `value_from` (`SourceOf`) and the reference's are found apart, so
`OpsBuildOnEachOther` sees a source read too early. That the code reads a deleted
source at all is `DeletedHasNoContent`, which it violates; in `OpsBuildOnEachOther` a deleted file still has its last
text as a source.

Properties: `OpsBuildOnEachOther`, `NoSilentClobber`, `DestructionIsAcknowledged`,
`SecretsStayClassified`, `RecoverableIsRetained`. The leak guard is modelled for
values whose digest the journal knows (`Known`); its heuristic tiers are not.

### History

`rows` is txns with txn_files; `blobs` maps a version to its blob, inserted with
`INSERT OR IGNORE` as the code does, so the first one stays; the blob of a
classified file is `Rendering`. `Complete` replaces the files and may sweep, as
`gc_if_due` does; `Torn` stops after the row with some files replaced. `revert` is
two actions, because the code is: `RevertPlan` reads rows, blobs, classification
and the path outside the lock; `RevertApply` runs the transaction it built, whose
bases are the versions the target left. `Restart` may change the classification
rules (they change only there: `reload` re-reads identities) and sweeps. `promised`
are the deletes that were reported recoverable. The order in which files are
visited (`First`) matters for the first blob and is a parameter.

Properties: `RevertIsInverse`, `NoPlaceholderLiteral`, `NoPlaintextShadow`,
`ExpiresOnlyOld`, `FreshPromiseIsKept`.

### PeerSession

One slot, any number of calls, the sessions a process may build. `holder` is the
slot's async mutex, held across the connect (`Miss` to `Connect`) and taken again
by `Evict`. `sent` and `ran` are the requests under way and what the peer ran.
`Closed` is rmcp's TransportClosed, which the code takes for "never sent"; the
model lets it come before or after the send because rmcp does. External
assumptions (rmcp's behaviour as `fleet.rs` uses it): a cancelled or broken session
is closed for good and everyone waiting on it gets TransportClosed; TransportSend
comes before the request has left.

Properties: `NoStraySession`, `ReplayNeedsClosure`, `FirstUnreachableIsUnseen`,
`EveryCallReturns` (liveness).

### DotenvText and DotenvEdits

A file is a sequence of lines (blank, comment, entry, other) and whether the last
one ended. `Parse` and `Render` are inverse on parsed files; `StripQuotes` and
`QuoteForRender` are what the code does to a value character by character, because
properties are about them. `Group` is an entry with the block of comments attached
above it. `Set`, `Rename`, `Delete`, `Reorder`, `Example`, `Redact` and `Views`
are the functions of `dotenv.rs`. Assumptions of `MCEditOps`, over every file of
up to three lines (four for reorder), say that the ops on lines are those on maps:
`SetIsOfOneValue`, `OneGroupIsTouched`, `ReorderMovesGroups`; that views hide what
they should, `ViewsDiscloseNothing`; and exactly which values are not read back as
written, `OnlyEscapesAreLost`. `DotenvEdits` runs ops on one text, each parsing
what the last one rendered, beside the map the documentation promises
(`ValuesRideAlong`, finding 4).

### HistoryReads and JournalQuery

`Materialise` is one side of a diff: the working tree, what a transaction left, or
a retained version. It is redacted by the rules of today when its blob was stored
under others. Property: `SidesAreHonest`.

`JournalQuery` has no state: a store has rows per kind in the order of their ids,
and the operators are the queries. Each stream is filtered and cut by its own
query (transactions and audit events by a LIKE prefix, failures by an over-fetch
and an exact filter), then merged by time. Assumptions of `MCHistory`:
`AnswersAreTheNewest` (an answer is the newest of what is on record, and says when
there is more), `SilenceIsExplained` (an answer older than the first recorded
failure says so; an empty one has a reason) and `WhatAnswersMiss`, which pins where
this ends (see [what the models show](#what-the-models-show-besides)). Paths are
asked for without a trailing slash, and timestamps are in the order of ids.

### Gateway

`calls` holds every call under way, keyed by the path it took: `<<a>>` is the call
of agent `a`, `<<a, k>>` the call its daemon made to a peer for it. `Arrives` and
`Refuse` are the middleware; `Forward` and `ServeRoot` the dispatch in `call_tool`;
`Probe`, `ShowRoots`, `Search` and `ShowSearch` the two fan-outs, whose tasks end
one by one in any order (`Return`, `Unanswered`, `Replay`, `TimesOut`). `down` and
`seen` are `PeerSight`. A daemon may die and come back with other roots, before,
between and after the steps of calls that involve it; an answer on its way may
be lost or not. An agent may set the hop marker itself.

Properties: `OneHop`, `SearchIsHonest`, `StaleIsMarked`, `VerdictIsTrue`,
`EveryCallReturns` (liveness). `SearchIsHonest` includes the order of a merge
(`InOrder`): matches are in the order of the roots, none twice, and no root lost a
match to one that comes after it, whatever order the answers came in. The assumption
`MergeIsThePrefix` of `MCGateway` compares `merge_search` with its definition on small
parts: the first matches in order, truncated exactly when something is missing.

Assumed: the url of a peer leads to that peer (the code checks neither url nor
host name; the hop marker stops a fan-out and not a forward, so a url that leads
back would loop, server.rs:2470-2476). Left out: that `roots` shows `unreachable`
without its date in a race with another probe (`dated` is in the model, no property
asks for it; server.rs:745 promises the date); a probe task that panics, which
`fleet_search` skips in silence; root names without a host, and patterns in tools
other than search, which `AppState::root` refuses. `fleet_search` calls every
failed probe but a refusal "unreachable", timeouts among them, where `roots` tells
them apart; the model does the same.

### Shapes and Secrets

A value is an identity and a form: its length and its look (which character classes
are in it, whether five characters differ, the smallest alphabet the code tests for
that has them all, whether it starts like a provider's token). `MintedForms` is every
form a value minted for a shape may have, which the shape does not fix: a random body may miss
classes, be all hex or digits, have the form of a uuid, or begin (or complete, behind
a tag) a provider's prefix; tags are parameters. `Shapes` mints, detects and describes
forms, with the entropy floor below which a digest is withheld; its logarithms are
integers, thousandths of a bit rounded down.

In `Secrets`, a location is one key of one file; calls run at one host, its peers
answer. The verbs are chains of steps: load and mint outside the lock
(`LoadRotate`, `LoadGenerate`, `LoadReveal`), the transaction (`ApplyPrimary`: whole,
refused, or torn), audit rows one by one, sibling roots each in a transaction,
then peers through `net`, where a request may be sent twice, answered late or
carried out after its caller gave up. As in `apply_inner`, the vanish guard stands
before classified files only (`MayOverwrite`), and the leak guard may refuse a write
to any other (`MayLeak`, which never has to). `copy` is an edit whose `value_from` names
another root: fetched locally or revealed by a peer, then applied or forwarded.
`Begin` is the agent that reads the files it will name, `OtherEdit` every other
transaction, `Crash` the death of the host.

Properties: `NoUnseenOverwrite`, `PrimaryFirst`, `ReportsAreTrue`,
`RevealsAreAudited`, `ExactCopy`.

### Access, Reading and Serve

A tree maps paths to directories, files and links; the operating system's
permissions are a flag. `Access` has the three resolvers (existing, creatable,
listing), the policy and what a walk may descend into. `Reading` has the budgets,
the paging, the counters and the reasons of read, read_many, list, search and stat;
a line is its length and kind, a glob or a pattern the set of what it matches.
An anchor is asked for with an occurrence or without, as the tool's optional
parameter; occurrence 0 is refused as in `addr.rs`.

`Serve` runs agents against it. The middleware asks whois (`Arrive`, `Look`,
`Resolve`) with a cache that concurrent lookups fill; `Handle` is a handler on the
tree of that moment (a handler that opens what it resolved, with a change in
between, is not modelled); `Continue` goes on where a page ended, perhaps in a
changed tree; `Write`, `Move`, `Tick` and `Restart` are the surroundings.

Properties: `NodeIsFresh`, `PagesConcatenate`, `OnlyPermitted`,
`FilteredIsCounted`; the assumption `SliceIsWhatFits` of `MCServe` checks the
budget of a page over every small file. Three things in them say less than one might
expect, because the code does. A page asked for beyond the end of a list is empty:
what `FilteredIsCounted` says of the entries before a page (`Skips`) is that they are
no more than the offset. A search passes over files that are over-long or no text
without a count (`PassedOver`; search.rs:192-194, 236-239): what it says of them is
that `files_searched`, which an untruncated answer gives exactly, does not count
them, and that an answer which searched no file has a reason. And what is not there is
known by its name alone, so a create through a link is shown its place when it cannot
land (`Blocked`: a directory on the way is closed, or the link leads nowhere). `Patience`, the longest a whois command
takes, is assumed: the code gives it no timeout.

## The runs

| run | instance | shows |
|---|---|---|
| `txn_safety` | 2 calls of 6 kinds of request, 2 files, 2 contents, 2 external writes, 2 faults, 1 crash | the six invariants and `NoLostUpdate` |
| `txn_atomic` | the same with 1 fault and external writes only between calls | refinement of `AtomicEdit`; every call is answered or lost |
| `edit_ops` | a classified dotenv, its example, a plain file; 2 keys, 2 values (one known), 4 file sets, 5 acknowledgements, 3 ops | the six invariants; the line form against the map form |
| `edit_ops_order` | as `edit_ops` | finding 2 |
| `history` | dotenv and example, 2 contents (one opaque), 2 sets of rules, 2 concurrent reverts, 3 transactions, 2 days, retention 0 | the six invariants; the answers of the journal tool |
| `history_recoverable` | as `history` | finding 3 |
| `peer_session` | 2 calls, 3 sessions, 2 deaths | the four invariants and liveness |
| `peer_replay` | 2 calls, 4 sessions | finding 1 |
| `secrets` | 2 files of a root, a sibling root (with a file that is not classified), a peer; a rotation over all of them beside another call (rotate, generate in either kind of file, reveal, copy in, copy out); 2 edits of others, 1 fault | the five invariants |
| `gateway` | 4 hosts (two declare each other, one declared by both, one deferred), 4 roots, 2 agent calls, 1 crash, a budget of 3 matches | the four invariants and liveness |
| `serve` | 3 trees with every kind of entry; a workload that pages while the tree changes, one that asks everything once, one of 2 callers behind a moving address | the four invariants |
| `dotenv_rename` | 2 ops on small texts | finding 4 |

**Why the bounds are enough.** *Transactions*: two calls and two files are the
least that can interleave and be torn; the requests are the shapes of the engine's
own tests (edit of one file, of two sharing a base, move, blind create, blind
replace, dry run). Two contents suffice because the code compares versions only
for equality. Two faults let the recording of a failure fail after the failure;
a second crash finds nothing new because rows are never retired. *Ops*: three ops
are the shortest chains in which a value can move to another file, be renamed and
be destroyed; one known and one unknown value tell the leak guard's two cases
apart. *History*: three transactions are a change, something in between and a
revert, or an edit and two racing reverts; a day and retention 0 put the edge of
the window inside the run. *Peer sessions*: three sessions are one that dies, its
successor evicted, and a third; each call has two attempts in the code. *Secrets*:
the rotation has targets of each kind (own root, sibling root, peer), the values
minted have a few of the forms they may (`Drawn`; a token of a provider or not), and one
other call and two edits are enough to come before, between and after its steps;
one fault is each failure alone, and the theorems cover any number.
*Gateway*: two hosts that declare each other are the least that could bounce a
call, the third and fourth are there to be missing in different ways; the second
agent exists to change what a host remembers. *Serve*: the three workloads do not
interact in the code (the cache is of nodes, the pages are of files), so each has
its own bounds: four pages and two changes; every question once after at most
one change; two calls of two callers, a move, a restart and four ticks with a
ttl of one, in which two lookups can overlap and an entry can expire.

Deadlock checking is off in every run because calls and bounds end; that nobody
waits for ever is what the liveness properties say.

The bounds in the guards: `MaxExternal`, `MaxFaults`, `MaxCrashes` (EditTxn),
`MaxOps` (EditOps, DotenvEdits), `MaxDays`, `MaxRows` (History), `MaxDeaths`
(PeerSession), `MaxEdits`, `MaxFaults`, `Drawn` (Secrets), `MaxCrashes` (Gateway),
`MaxTime`, `MaxMoves`, `MaxRestarts`, `MaxPages` and the `calls` and `changes` of
a workload (Serve). `MaxResults` (Gateway), `MaxReadBytes` and `MaxFileBytes`
(Reading) are limits of the program.

**Fairness.** `EditTxn`: weak fairness of each call's own steps (a blocking thread
runs until it returns) and of `Restart` (the service manager). One `WF` covers all
steps of a call, so which branch is taken, and failing, is never forced; arrival,
faults, crashes and external writers are not fair. The lock needs no strong
fairness for the property: with finitely many calls a waiting one finds the lock
free for good. `PeerSession`: weak fairness of each call's steps, which include its
three timers (CONNECT_TIMEOUT, CALL_TIMEOUT, RETRY_BACKOFF); the peer owes nothing.
`Gateway`: the same for the daemon an agent called; the peers and the calls they
handle owe nothing, so an answer may never come and the timers alone must end
the wait.

Every property of a passing run is also shown to say something: `PROJECT.json`
("mutants") names for each a plausible bug of the code, an operator in the module
whose comment starts with *Mutant*, under which TLC finds the property violated.

## Findings

1. **A call may run twice** (`peer_replay`). TransportClosed is retried once, also
   when the session closed after the peer got the request (for instance when
   `drop_session` cancels a session another call has just built). `fleet.rs:237-239`
   says an in-flight failure is never replayed. What holds, and is proved, is
   weaker: the first session is closed by then (`ReplayNeedsClosure`). The declared
   version of an `edit` keeps the effect from doubling, but its caller is told of a
   conflict for an edit that applied.
2. **A create after a delete is dropped** (`edit_ops_order`). `create` with
   `overwrite` (and `env_sync_example`) on a path an earlier op of the call deleted
   is accepted, sets the content of a buffer that stays `deleted`, and the file is
   removed. The contract says ops apply in order; `txn.rs:1082-1085` says the order
   delete-then-edit is refused, which holds for every other op but the source of a
   `value_from` ([below](#what-the-models-show-besides)).
3. **A recoverable delete that cannot be reverted** (`history_recoverable`). Blobs
   are keyed by version and the first stays. If a classified file of equal content
   was journalled before, the blob is a rendering and `revert` says
   never_recoverable; if the content is older than the window, the sweep takes it,
   even in the `complete` of the delete itself. `history.rs:778-780` says the blob
   is there exactly when the delete was reported recoverable. What holds, and is
   proved, is `FreshPromiseIsKept`: the promise is kept when the journal saw that
   content for the first time.
4. **A rename changes some values** (`dotenv_rename`). `rename` renders the entry
   anew; `render_entry` escapes backslashes and double quotes, and no reader undoes
   it, so such a value grows with each rename and its digest changes.
   `dotenv.rs:365-366` says the value rides along unchanged. Without those
   characters `ValuesRideAlong` holds.

## What the models show besides

Statements of documents or comments the code does not meet, which are definitions
of the modules, and limits of the design that a reader should know. Four of them have
a configuration beside the runs, under which TLC finds them violated within seconds:

- *A value out of a deleted file* (`DeletedHasNoContent`: `EditOpsSource.cfg` of
  `MCEditOps`). `resolve_value_from` takes the buffer of its source
  (`txn.rs:1162-1163`) without the check every other op that needs content makes, so
  after a delete of a file in the same call a `value_from` of it is accepted and writes
  its value. `txn.rs:1082-1084` says of that check that ops run in order and an op
  that needs the content of a deleted file is not coherent.
- *An eviction cuts a live call* (`EvictsNoLiveCall`: `PeerSessionEvict.cfg` of
  `MCPeerSession`). `drop_session` cancels what the slot holds when it gets the lock;
  if another call replaced the dead session meanwhile, that call is cut (and, by
  finding 1, may run twice). `fleet.rs:428-429` says there is no live call to cut short.
- *generate may destroy a value* (`GenerateDestroysNothing`: `SecretsGenerate.cfg` of
  `MCSecrets`). Its check for the key is before the lock, and in the transaction only
  the vanish guard asks again, which skips files that are not classified
  (`txn.rs:737`). If the key it found absent comes back with the version its caller
  declared, the value is replaced; generate asks for no `drop_keys`.
  `secret_tool.rs:151-153` says it mints new keys only. In classified files that
  holds, and is proved (`NoUnseenOverwrite`).
- *A value leaves unrecorded* (`ExitIsJournalled`: `SecretsExit.cfg` of `MCSecrets`).
  The transport row of a rotation is written only after an answer that says ok
  (`server.rs:1636-1657`); when the answer is late, the peer has the value and the
  sender no row. `sprints/planning/mcp-contract.md:177-182` says every transport lands in
  the audit stream and the source host journals the value's exit.

The others:

- *Transactions.* Past the first rename an error leaves earlier files replaced and
  the row pending (`FailureRollsBack` in `EditTxn`); the code's comment says so,
  `sprints/planning/mcp-contract.md:664-665` says "any failure rolls back the whole
  set". The refinement states what does hold: such a call is marked torn.
- *Peer sessions.* `host_unreachable` at the second attempt says nothing of the first,
  which may have run (`fleet.rs:241`, `FirstUnreachableIsUnseen` is of the first attempt only).
- *Secrets.* generate, rotate and a value written for another host's edit reach the
  journal without the caller's node (`NodeIsRecorded`; contract R13,
  `mcp-contract.md:249-266`). A value minted with a tag of the house (`klams-`)
  is detected, if at all, as a shape of the whole length without a tag, so a rotation
  without a shape drops the tag (theorem `DetectDropsTag`; the comment at `shapes.rs:301-302`
  calls such values undetectable); and one minted as base64url may look like another
  shape (`DetectInvertsMint` says when). A value may fall below the entropy floor, where
  `shapes.rs:9-10` says every mintable shape clears it by construction: hex(24) that
  comes out as digits alone, or a body with less than five different characters
  (`MintedClearsFloor`, `DigitsMissTheFloor`). Audit rows of `also` targets carry the
  primary's old digest.
- *Journal tool* (`WhatAnswersMiss`). Failures are over-fetched by text and then
  filtered by path: forty newer failures whose paths only contain the text hide an
  older match and the answer is not truncated, where `journal.rs:604-605` says a
  page is never silently short. The path of the root itself finds failures and no
  transactions. `_` in a path stands for any character in two of the streams. A
  root with history is called unknown when another filter leaves nothing of it.
  `occurrences` stops at 500 without saying so.
- *diff.* A version is looked up whatever path it is asked under; the side of a torn
  transaction is what it would have left.
- *Dotenv.* A comment at the end of a file becomes attached to a key appended after
  it and goes with that key; of duplicate keys only the first is used; `env_set` of a
  value with an escape is read back different, like the rename of finding 4.
- *Reading.* `list` with a page of zero entries never advances; a line longer than
  the budget is cut and has no next page; a listing has no version, so entries shift
  when the tree changes between pages; over-long and binary files are left out of a
  search without a count; the numbers before lines are not counted against the last
  file of `read_many`; an unreadable `.kaedignore` has no rules; a walk does not
  enter a denied directory even where a negation would admit something in it.
- *Whois.* The node of a request may be as old as the ttl plus the time of a lookup:
  overlapping lookups store what they saw as of their end (`NodeIsFresh`).

## The proofs

TLAPS checks every theorem below for all values of the constants: any number
of calls, files, keys, sessions, transactions, days, hosts, agents, addresses. The
assumptions are the named ASSUMEs of the modules: sentinels are distinct from what
they stand beside, parameters are of their type, bounds are numbers. Those with
more in them: what is on a disk is a finite tree, in which a link that leads
somewhere leads to no other link (`IsTree`; chains of links are resolved to their
end); a rank of paths, or of root names, stands for the order of strings and so
tells them apart (`Keyed`); `Far`, which stands for no bound, is no less than the
length of any content and the depth of any tree; what agents ask is of the type of the tool's
parameters (`Ops`). Each module's
proof follows one line: an inductive invariant, checked by TLC first;
one lemma per action (or per kind of action) for
`IInv /\ [Next]_vars => IInv'`; then `IInv` implies the properties.

- **EditTxn_proofs**: `TypeCorrect`, `BasesHold`, `NoUpdateIsLost`,
  `JournalIsAhead`, `AppliedCallsAreWhole`, `TornCallsAreReported`,
  `AbortsDiscard`. `IInv` says that the lock's holder is exactly the call between
  load and return (`LockInv`), that a buffer holds a version its caller declared or
  accepted and the file still has it unless a writer raced (`BufferInv`), what has
  been staged at each step (`StagedInv`), and how far row and files have come
  together (`LandedInv`). `BaseHolds` alone is not inductive: that nobody else
  renames needs the lock.
  `EngineIsAtomic` is the refinement of `AtomicEdit` without writers inside a call. Renames map to stuttering, `Complete` to `Apply`,
  a return with a pending row, or a crash, to `Tear`.
- **EditOps_proofs**: `TypeCorrect`, `OpsBuild`, `NothingIsClobbered`,
  `DestructionsAreAcknowledged`, `SecretsStay`, `RecoverablesAreRetained`. `IInv`
  relates every buffer to the file before the call and to the reference run
  (`BufInv`: the text of each buffer, deleted or not, is the reference's; a file without one is as it was), and pins the outcome of an accepted call to its buffers and guards
  (`OutcomeInv`). The leak theorem needs that what is in a buffer was either
  there before or passed the guard.
- **History_proofs**: `TypeCorrect`, `RevertsAreInverse`, `NoPlaceholders`,
  `NoShadow`, `ExpiryIsHonest`, `FreshPromisesAreKept`, `DiffsAreHonest`. `IInv`
  adds that a blob comes from a recorded change that retains it, with that row's
  day and redaction (`BlobsInv`), that a plan holds exactly the pre-images of its
  row (`PlansInv`), that rows only reach back and grow in time (`RowsInv`). The
  lemmas `InsertWorks` and `StoreWorks` say what a transaction does to the blob
  store.
- **PeerSession_proofs**: `TypeCorrect`, `NoSessionStrays`,
  `ReplaysFollowClosure`, `FirstUnreachablesAreUnseen`. `IInv` says the lock is
  held exactly across a connect with the slot empty (`SlotInv`), and on which
  sessions a request may exist (`RequestInv`).
- **Secrets_proofs**: `TypeCorrect`, `NothingUnseenIsOverwritten`,
  `PrimariesAreFirst`, `ReportsTellTheTruth`, `RevealsAreOnRecord`, `CopiesAreExact`.
  `IInv` (in `Secrets`) has a part per call (`StepOK`: what is on record at each step
  before the next may be taken; `ResultOK`; `RevealOK`), per message (`MsgOK`: a
  request to write carries a value its call may send, a reply speaks of what
  happened) and per transaction (`TxnOK`). `NothingUnseenIsOverwritten` says of generate
  what the vanish guard gives, classified files. Messages are needed because a request
  outlives the step that sent it, and the call itself after a crash. Of `Shapes`:
  `MintedClearsFloor` and `DetectInvertsMint` say exactly which minted forms clear the
  floor and which are detected as what they were minted from, for every shape of the
  grammar, tag and look; `DigitsMissTheFloor` is the witness that not all clear it, and
  `DetectDropsTag` what is left of a tagged one.
- **Gateway_proofs**: `CallsCrossOneLink`, `RemembranceIsMarked` and `VerdictsHold`
  (`VerdictIsTrue`), for every fleet
  whatever hosts declare of each other. `IInv` says that a call a peer receives
  carries the hop marker and is a probe or names a root of that peer, so it is
  answered where it arrives. `TruthInv` adds that a call under way has seen every
  root served meanwhile (`WitnessInv`), and that the roots an answer shows as active
  are among them, in the agent's call, in the calls made for it and in the outcomes
  taken from those (`CallInv`). It needs the exception for calls made for one that
  is over: what they learn may be newer than what that one saw. `VerdictInv` says
  the same of hosts: each outcome a call took is true of the host it asked
  (`OutcomeTrue`), because each answer a peer gives is (`ReplyTrue`) and the peer was
  asked under the caller's name by the caller's host (`ChildOK`); a history of the
  call only grows (`Grown`), so what was true stays so, and what a host serves now
  the history knows (`ServedNow`). `SearchesAreHonest` (`SearchIsHonest`) needs
  three things more: a probe that answers lists every root its host served all the
  while (`ReportsAll` in `OutcomeTrue`), so each root asked for is searched here, is
  searched there, or belongs to a host named as unavailable (`SearchCovers`); a
  remote search that answers has what its root holds, up to the budget; and the
  merge keeps, through any number of parts, that each part already merged is
  accounted for and no match comes from elsewhere (`Accounts`, `FoundIn`; the fold is
  `MergeIs`); and that what it has taken is in the order of the roots and of the parts
  still to come none is earlier (`MergedInOrder`, over `OrderGoesOn`).
- **Serve_proofs**: `NodesAreFresh`. `IInv` says that what a lookup saw was owned
  when it was seen, at most `Patience` before it is stored (`LookupsAreRecent`,
  `CacheIsOfALookup`), and that a settled request took it at most a ttl later
  (`SettledAreFresh`); `OwnersAreHeld` ties the history of owners to the clock.
  For what is answered the invariant is `CallsAreRight` (`CallsStayRight`): a call is
  answered from one tree there was, and each page an agent holds answers a question
  that begins where the page before it ended. The rest is about operators, on every
  tree, content, rule and question. `OnlyPermittedIsShown`: what a path resolves to
  is a real place in the root (`ResolvedIs`, `CreatableIs`), what is loaded of a
  classified file is its rendering (`LoadIs`), and each tool shows only such
  (`AnswerMayBe`). `FilteredAlwaysCounted`: between the base and what a walk does not
  meet there is a first entry that hides it, and the walk has counted that one
  (`HiddenIsCounted`); a search goes through its files by a fold whose state
  accounts for every file done (`SearchRuns`, `Explained`). `PagesAlwaysConcatenate`:
  a page of a file is a slice (`SliceIs`), a page of a list a piece of what the walk
  keeps, in order (`ListIs`); pieces that each begin where the last one ended
  are together a piece, by induction over the pages.
- **Folding_proofs** holds lemmas only, which say nothing of the program. The library's
  induction theorems take the property as an operator; here it is a set of numbers, and
  the induction comes from the well-foundedness of `<`. A fold of the community modules
  is a `CHOOSE` of a function on subsets; `FoldExists` shows there is one, and `FoldRuns`
  that it is the run of its step from the first element to the last. Further what
  `SortedBy` lists and in which order (`SortedIs`).

Stating `PagesConcatenate` for every input corrected it: TLC's instance had no list
asked for beyond its end.

Only model-checked: liveness (`EveryCallAnswered`, both `EveryCallReturns`), which
is out of the prover's reach; and the assumptions of the MC modules, which compare
operators over bounded inputs with reference definitions or with the operators of
another module (the dotenv text against its map, the journal's answers, the
budget of a slice, the prefix that a merge is). `DotenvEdits` has a single run, which
shows a violation. What is shown violated is shown by TLC only.

## What is not modelled

Configuration parsing, error formatting, version stamps, process start and entry
points (what a configuration resolves to is the constants of `Gateway`; its
refusals are their assumption). Schema migration of the journal. The digest index
of `leak.rs` as a structure, and the entropy and token heuristics of secret
detection in free text: their verdicts enter `EditOps` as the set `Known`, and
`Serve` follows which sealed lines reads index (`indexed`). The mechanics of
matching: a glob, a pattern or a gitignore rule is the set of what it matches. The
text of diffs and warnings; file modes and owners, beyond whether they refuse;
paths that name one file twice; keys of other peers and authors in the session
map, which share nothing with the modelled slot. A handler of `Serve` sees one tree.
`reload` puts the identities of the start back in place and changes no state.

## Plan

Built, in this order: `EditTxn` with `AtomicEdit`, `PeerSession`, `EditOps`,
`History`, `Shapes` and `Secrets`, `Gateway`, `Access`, `Reading` and `Serve`,
`HistoryReads` and `JournalQuery`, `DotenvText` and `DotenvEdits`. What is left,
most important first:

1. The three cuts of a transaction joined: `History`'s `Edit` and `Torn` as steps of
   `AtomicEdit`, and what they retain as the outcome of `EditOps`.
2. The digest index of `leak.rs` as state of `EditOps`: when a value becomes known,
   and what a guard misses before that.
3. A handler of `Serve` in two steps, resolve and open, with a change in between.

Runs stay at one per question, a few minutes at most each.
