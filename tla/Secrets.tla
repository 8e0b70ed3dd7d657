------------------------------ MODULE Secrets -------------------------------
(***************************************************************************)
(* The verbs that move secret values: generate, rotate with its `also`     *)
(* targets, secret_reveal, and an edit whose value_from names another root *)
(* (secret_tool.rs, and secret_rotate, write_value_to_peer,                *)
(* fetch_secret_value and edit in server.rs).                              *)
(*                                                                         *)
(* One host, Home, runs the calls; the others are its peers.  A location   *)
(* is one key of one dotenv file.  A file's version is the hash of its     *)
(* content, so it is represented by the entry itself: an entry that comes  *)
(* back brings its version back.  A transaction of the engine is one step, *)
(* with the outcomes module EditTxn shows it to have: all written, none    *)
(* written, or, when a rename fails midway, some of the files written.     *)
(***************************************************************************)
EXTENDS Shapes, FiniteSets

CONSTANTS
    Calls,          \* calls made at Home
    Requests,       \* [Calls -> SUBSET Request], what each may ask
    Locs, RootOf, HostOf,
    Home,
    Seeds,          \* values that are there at first or that others write
    FormOf,         \* [Seeds -> Forms]
    First,          \* what the files may hold at first
    NoKey,          \* the file has no such key
    EmptyValue,     \* KEY= with nothing after it
    Classified,     \* the locations in files the policy classifies
    AllowReveal,    \* [secrets] allow_reveal, on every host
    NoReq, NoValue, NoLoc,
    Drawn,          \* bound: the looks minted values are drawn from, by kind
    MaxEdits,       \* bound on the transactions of others
    MaxFaults       \* bound on faults: a failed step, a closed session, a crash

Roots == {RootOf[l] : l \in Locs}
HostAt(l) == HostOf[RootOf[l]]
Hosts == {HostAt(l) : l \in Locs}

Value == [id : Seeds \cup Calls, form : Forms]
Entry == Value \cup {NoKey, EmptyValue}

Seed(s) == [id |-> s, form |-> FormOf[s]]

Request ==
    [verb : {"rotate"}, at : Locs, also : SUBSET Locs, occurrences : BOOLEAN,
     shape : Grammar \cup {NoShape}]
      \cup [verb : {"generate"}, at : Locs, shape : Grammar]
      \cup [verb : {"reveal"}, at : Locs, exact : BOOLEAN]
      \cup [verb : {"copy"}, at : Locs, from : Locs, exact : BOOLEAN]

ASSUME SecretsAssumption ==
    /\ Home \in Hosts
    /\ RootOf \in [Locs -> Roots]
    /\ HostOf \in [Roots -> Hosts]
    /\ FormOf \in [Seeds -> Forms]
    /\ First \subseteq [Locs -> Entry]
    /\ Classified \subseteq Locs
    /\ AllowReveal \in BOOLEAN
    /\ Requests \in [Calls -> SUBSET Request]
    /\ \A a \in Calls : \A r \in Requests[a] :
          /\ r.verb # "copy" => HostAt(r.at) = Home
          /\ r.verb = "rotate" => r.at \notin r.also
          /\ r.verb = "copy" =>
                /\ RootOf[r.at] # RootOf[r.from]
                /\ HostAt(r.at) = Home \/ HostAt(r.from) # HostAt(r.at)
    /\ NoKey \notin Value /\ EmptyValue \notin Value /\ NoValue \notin Value
    /\ NoKey # EmptyValue /\ NoValue # NoKey /\ NoValue # EmptyValue
    /\ NoReq \notin Request /\ NoLoc \notin Locs /\ NoShape \notin Shape
    /\ Drawn \in [Kinds -> SUBSET Looks]
    /\ MaxEdits \in Nat /\ MaxFaults \in Nat

VARIABLES
    held,      \* [Locs -> Entry], what the files hold
    req,       \* what a call asked
    seen,      \* the entries its caller had read, whose versions it declares
    pc,
    value,     \* the value the server holds in memory for the call
    old,       \* the entry it loaded before it asked for the lock
    todo,      \* locations whose audit row is still to be written
    cur,       \* the sibling or remote target it is at
    tries,     \* attempts of the peer call it is waiting on
    result,    \* per target: "none", "applied", "refused", "unsure"
    net,       \* requests and replies between hosts
    txns,      \* journal: applied transactions, of every host
    audit,     \* journal: secret_events, of every host
    edits, faults

journal == <<txns, audit>>
budget == <<edits, faults>>
vars == <<held, req, seen, pc, value, old, todo, cur, tries, result, net,
          txns, audit, edits, faults>>

Waiting == {"await_edit", "await_reveal"}
Ended == {"answered", "failed", "lost"}
Steps == {"idle", "load", "apply", "audit", "siblings", "sibling_audit",
          "remotes", "transport_audit", "fetch", "exit_audit", "send"}
            \cup Waiting \cup Ended
Outcomes == {"none", "applied", "refused", "unsure"}

(* `also` by the axis that decides how a write lands.                      *)
Group(r) ==
    {r.at} \cup (IF r.verb = "rotate"
                   THEN {l \in r.also : RootOf[l] = RootOf[r.at]} ELSE {})
Siblings(r) ==
    IF r.verb = "rotate"
      THEN {l \in r.also : RootOf[l] # RootOf[r.at] /\ HostAt(l) = Home} ELSE {}
Remotes(r) ==
    IF r.verb = "rotate" THEN {l \in r.also : HostAt(l) # Home} ELSE {}
Targets(r) == Group(r) \cup Siblings(r) \cup Remotes(r)

(* The locations a caller reads first, because it must name their versions.*)
Named(r) == Targets(r) \cup (IF r.verb = "copy" THEN {r.from} ELSE {})

Pending(a, S) == {l \in S : result[a][l] = "none"}

-----------------------------------------------------------------------------
(* Journal rows.  `was` maps each location written to what it held.        *)
Txn(a, was, v, node) == [call |-> a, was |-> was, value |-> v, node |-> node]

Row(a, action, l, o, n, disclosed) ==
    [call |-> a, action |-> action, loc |-> l, host |-> HostAt(l),
     old |-> o, new |-> n, disclosed |-> disclosed]

(* The versions the call declared still hold under the lock of the root.   *)
Current(a, S) == \A l \in S : held[l] = seen[a][l]

Put(S, v) == held' = [l \in Locs |-> IF l \in S THEN v ELSE held[l]]

(* One transaction of call a over the locations S of one root.  The verbs  *)
(* hand txn::apply the bare journal, which stamps `unknown`; edit hands it *)
(* the journal scoped to the caller's node.                                *)
Commit(a, S, v, node) ==
    /\ Current(a, S)
    /\ Put(S, v)
    /\ txns' = txns \cup {Txn(a, [l \in S |-> held[l]], v, node)}

(* The engine failed after renaming some of the files.                     *)
Tear(a, S, v) ==
    /\ Current(a, S)
    /\ faults < MaxFaults
    /\ faults' = faults + 1
    /\ \E T \in SUBSET S : T # {} /\ T # S /\ Put(T, v)

Fault == faults < MaxFaults /\ faults' = faults + 1

Goto(a, step) == pc' = [pc EXCEPT ![a] = step]

(* An error, or the end of the handler, drops the value (zeroized).        *)
Drop(a) == value' = [value EXCEPT ![a] = NoValue]
Fail(a) == Goto(a, "failed") /\ Drop(a)

Mark(a, S, outcome) ==
    result' = [result EXCEPT ![a] =
                  [l \in Locs |-> IF l \in S THEN outcome ELSE @[l]]]

-----------------------------------------------------------------------------
Init ==
    /\ held \in First
    /\ req = [a \in Calls |-> NoReq]
    /\ seen = [a \in Calls |-> [l \in Locs |-> NoKey]]
    /\ pc = [a \in Calls |-> "idle"]
    /\ value = [a \in Calls |-> NoValue]
    /\ old = [a \in Calls |-> NoKey]
    /\ todo = [a \in Calls |-> {}]
    /\ cur = [a \in Calls |-> NoLoc]
    /\ tries = [a \in Calls |-> 0]
    /\ result = [a \in Calls |-> [l \in Locs |-> "none"]]
    /\ net = {} /\ txns = {} /\ audit = {}
    /\ edits = 0 /\ faults = 0

(* describe: what may be told of a value, and the handle's digest, which is*)
(* withheld below the entropy floor.                                       *)
HandleHasDigest(e) == e \in Value /\ ClearsFloor(e.form)

Describe(e) ==
    [shape |-> IF e \in Value THEN ShapeOf(e.form) ELSE "empty",
     digest |-> HandleHasDigest(e),
     rotatable |-> e \in Value /\ Detect(e.form) # NoShape]

(* occurrences: the classified entries of this host with the same digest.  *)
(* They are found in redacted renderings, root by root (fewer than         *)
(* max_results in each).                                                   *)
Occurrences(l) ==
    IF Describe(held[l]).digest
      THEN {o \in Classified : HostAt(o) = Home /\ held[o] = held[l]}
      ELSE {}

(* A rotation may take its targets from occurrences.                       *)
Resolved(r) ==
    IF r.verb = "rotate" /\ r.occurrences
      THEN [r EXCEPT !.also = (@ \cup Occurrences(r.at)) \ {r.at}]
      ELSE r

(* An agent reads the files it is about to name, then makes the call: it   *)
(* can be exact about a value whose handle has a digest.                   *)
Begin(a) ==
    /\ pc[a] = "idle"
    /\ \E want \in Requests[a] :
       LET r == Resolved(want) IN
          /\ req' = [req EXCEPT ![a] = r]
          /\ "exact" \in DOMAIN r /\ r.exact =>
                Describe(held[IF r.verb = "copy" THEN r.from ELSE r.at]).digest
          /\ seen' = [seen EXCEPT ![a] =
                         [l \in Locs |-> IF l \in Named(r) THEN held[l] ELSE NoKey]]
          /\ Goto(a, IF r.verb = "copy" THEN "fetch" ELSE "load")
    /\ UNCHANGED <<held, value, old, todo, cur, tries, result, net, journal, budget>>

(* load_entry, the shape, the mint: all of it outside the lock.            *)
Mintable(a, s) ==
    \E look \in {k \in Drawn[s.kind] : Mints(s, k)} :
        value' = [value EXCEPT ![a] =
                     [id |-> a, form |-> [len |-> MintedLen(s), look |-> look]]]

WantedShape(r, e) == IF r.shape # NoShape THEN r.shape ELSE Detect(e.form)

LoadRotate(a) ==
    /\ pc[a] = "load" /\ req[a].verb = "rotate"
    /\ LET e == held[req[a].at] IN
          \/ /\ e \in Value /\ WantedShape(req[a], e) # NoShape
             /\ Mintable(a, WantedShape(req[a], e))
             /\ old' = [old EXCEPT ![a] = e]
             /\ Goto(a, "apply")
          \/ /\ ~(e \in Value /\ WantedShape(req[a], e) # NoShape)
             /\ Fail(a)
             /\ UNCHANGED old
    /\ UNCHANGED <<held, req, seen, todo, cur, tries, result, net, journal, budget>>

(* generate mints for a key the file does not have.                        *)
LoadGenerate(a) ==
    /\ pc[a] = "load" /\ req[a].verb = "generate"
    /\ \/ /\ held[req[a].at] = NoKey
          /\ Mintable(a, req[a].shape)
          /\ Goto(a, "apply")
       \/ /\ held[req[a].at] # NoKey
          /\ Fail(a)
    /\ UNCHANGED <<held, req, seen, old, todo, cur, tries, result, net, journal, budget>>

(* get(key), and the digest of a handle compared with that of the value.   *)
(* Mutants: a missing key is taken for a value; the digest is not compared.*)
PresentAnyway(l) == TRUE
Present(l) == held[l] # NoKey

DigestIgnored(a, l) == TRUE
DigestHolds(a, l) == req[a].exact => held[l] = seen[a][l]

Revealable(a, l) ==
    AllowReveal /\ l \in Classified /\ Present(l) /\ DigestHolds(a, l)

LoadReveal(a) ==
    /\ pc[a] = "load" /\ req[a].verb = "reveal"
    /\ LET l == req[a].at
       IN  \/ /\ Revealable(a, l)
              /\ value' = [value EXCEPT ![a] = held[l]]
              /\ todo' = [todo EXCEPT ![a] = {l}]
              /\ Goto(a, "audit")
           \/ /\ ~Revealable(a, l)
              /\ Fail(a)
              /\ UNCHANGED todo
    /\ UNCHANGED <<held, req, seen, old, cur, tries, result, net, journal, budget>>

(* The vanish guard: overwriting a value of a classified file takes its    *)
(* key in drop_keys, which rotate and copy declare and generate does not.  *)
(* Mutant: generate declares its key like the others.                      *)
MayAlwaysOverwrite(r, S) == TRUE
MayOverwrite(r, S) ==
    r.verb = "generate" => \A l \in S \cap Classified : held[l] \notin Value

(* The leak guard: a value the journal knows, or with a provider's prefix, *)
(* may be refused in any other file (EditOps has the guard in detail).     *)
MayLeak(S) == ~(S \subseteq Classified)

ApplyPrimary(a) ==
    /\ pc[a] = "apply"
    /\ LET r == req[a]
           S == Group(r)
           isEdit == r.verb = "copy"
       IN  \/ /\ MayOverwrite(r, S)
              /\ Commit(a, S, value[a], IF isEdit THEN "caller" ELSE "unknown")
              /\ Mark(a, S, "applied")
              /\ todo' = [todo EXCEPT ![a] = IF isEdit THEN {} ELSE S]
              /\ Goto(a, IF isEdit THEN "answered" ELSE "audit")
              /\ value' = [value EXCEPT ![a] = IF isEdit THEN NoValue ELSE @]
              /\ UNCHANGED faults
           \/ /\ \/ /\ ~Current(a, S) \/ ~MayOverwrite(r, S) \/ MayLeak(S)
                    /\ UNCHANGED faults
                 \/ Fault
              /\ Mark(a, S, "refused")
              /\ Fail(a)
              /\ UNCHANGED <<held, todo, txns>>
           \/ /\ MayOverwrite(r, S)
              /\ Tear(a, S, value[a])
              /\ Mark(a, S, "unsure")
              /\ Fail(a)
              /\ UNCHANGED <<todo, txns>>
    /\ UNCHANGED <<req, seen, old, cur, tries, net, audit, edits>>

(* Mutant: a row that cannot be written is skipped.                        *)
RowSkipped(a, l) ==
    /\ Fault
    /\ todo' = [todo EXCEPT ![a] = @ \ {l}]
    /\ UNCHANGED <<audit, pc, value>>

RowFails(a, l) ==
    /\ Fault
    /\ Fail(a)
    /\ UNCHANGED <<audit, todo>>

(* One row per location; an insert that fails ends the call with an error. *)
AuditOne(a) ==
    /\ pc[a] = "audit"
    /\ \E l \in todo[a] :
          \/ /\ LET r == req[a]
                    o == IF r.verb = "rotate" THEN old[a] ELSE NoKey
                IN  audit' = audit \cup
                        {Row(a, r.verb, l, o, value[a], r.verb = "reveal")}
             /\ todo' = [todo EXCEPT ![a] = @ \ {l}]
             /\ UNCHANGED <<pc, value, faults>>
          \/ RowFails(a, l)
    /\ UNCHANGED <<held, req, seen, old, cur, tries, result, net, txns, edits>>

AuditDone(a) ==
    /\ pc[a] = "audit" /\ todo[a] = {}
    /\ Goto(a, IF req[a].verb = "rotate" THEN "siblings" ELSE "answered")
    /\ value' = [value EXCEPT ![a] = IF req[a].verb = "rotate" THEN @ ELSE NoValue]
    /\ UNCHANGED <<held, req, seen, old, todo, cur, tries, result, net, journal, budget>>

-----------------------------------------------------------------------------
(* The rest of a rotation: siblings first, each in its own transaction.    *)
ApplySibling(a) ==
    /\ pc[a] = "siblings"
    /\ \E l \in Pending(a, Siblings(req[a])) :
          \/ /\ Commit(a, {l}, value[a], "unknown")
             /\ Mark(a, {l}, "applied")
             /\ cur' = [cur EXCEPT ![a] = l]
             /\ Goto(a, "sibling_audit")
             /\ UNCHANGED faults
          \/ /\ \/ (~Current(a, {l}) \/ MayLeak({l})) /\ UNCHANGED faults
                \/ Fault
             /\ Mark(a, {l}, "refused")
             /\ UNCHANGED <<held, txns, cur, pc>>
    /\ UNCHANGED <<req, seen, value, old, todo, tries, net, audit, edits>>

(* This row is best effort: its failure is dropped.                        *)
AuditSibling(a) ==
    /\ pc[a] = "sibling_audit"
    /\ \/ /\ audit' = audit \cup {Row(a, "rotate", cur[a], old[a], value[a], FALSE)}
          /\ UNCHANGED faults
       \/ Fault /\ UNCHANGED audit
    /\ cur' = [cur EXCEPT ![a] = NoLoc]
    /\ Goto(a, "siblings")
    /\ UNCHANGED <<held, req, seen, value, old, todo, tries, result, net, txns, edits>>

SiblingsDone(a) ==
    /\ pc[a] = "siblings" /\ Pending(a, Siblings(req[a])) = {}
    /\ Goto(a, "remotes")
    /\ UNCHANGED <<held, req, seen, value, old, todo, cur, tries, result, net,
                   journal, budget>>

(* write_value_to_peer: an ordinary edit call to the peer.                 *)
Ask(a, op, l, v, n) ==
    [type |-> "ask", call |-> a, op |-> op, loc |-> l, value |-> v, try |-> n]
Reply(m, outcome, v) ==
    [type |-> "reply", call |-> m.call, op |-> m.op, loc |-> m.loc,
     outcome |-> outcome, value |-> v]

Post(a, op, l, v) ==
    /\ cur' = [cur EXCEPT ![a] = l]
    /\ tries' = [tries EXCEPT ![a] = 1]
    /\ net' = net \cup {Ask(a, op, l, v, 1)}
    /\ Goto(a, IF op = "edit" THEN "await_edit" ELSE "await_reveal")

SendRemote(a) ==
    /\ pc[a] = "remotes"
    /\ \E l \in Pending(a, Remotes(req[a])) : Post(a, "edit", l, value[a])
    /\ UNCHANGED <<held, req, seen, value, old, todo, result, journal, budget>>

RemotesDone(a) ==
    /\ pc[a] = "remotes" /\ Pending(a, Remotes(req[a])) = {}
    /\ Goto(a, "answered")
    /\ Drop(a)
    /\ UNCHANGED <<held, req, seen, old, todo, cur, tries, result, net, journal, budget>>

(* Only an Ok answer is followed by the transport row, on the source entry.*)
AuditTransport(a) ==
    /\ pc[a] = "transport_audit"
    /\ \/ /\ audit' = audit \cup
                {Row(a, "transport", req[a].at, old[a], value[a], TRUE)}
          /\ UNCHANGED faults
       \/ Fault /\ UNCHANGED audit
    /\ cur' = [cur EXCEPT ![a] = NoLoc]
    /\ Goto(a, "remotes")
    /\ UNCHANGED <<held, req, seen, value, old, todo, tries, result, net, txns, edits>>

-----------------------------------------------------------------------------
(* value_from: the value is fetched before the target is locked.           *)
FetchLocal(a) ==
    /\ pc[a] = "fetch" /\ HostAt(req[a].from) = Home
    /\ LET source == req[a].from
           found == Present(source) /\ DigestHolds(a, source)
       IN  \/ /\ found
              /\ value' = [value EXCEPT ![a] = held[source]]
              /\ Goto(a, IF HostAt(req[a].at) = Home THEN "apply" ELSE "exit_audit")
           \/ ~found /\ Fail(a)
    /\ UNCHANGED <<held, req, seen, old, todo, cur, tries, result, net, journal, budget>>

AuditExit(a) ==
    /\ pc[a] = "exit_audit"
    /\ \/ /\ audit' = audit \cup
                {Row(a, "transport", req[a].from, NoKey, value[a], TRUE)}
          /\ UNCHANGED faults
       \/ Fault /\ UNCHANGED audit
    /\ Goto(a, "send")
    /\ UNCHANGED <<held, req, seen, value, old, todo, cur, tries, result, net,
                   txns, edits>>

(* The edit then goes to the target's host with the value in it.           *)
ForwardEdit(a) ==
    /\ pc[a] = "send"
    /\ Post(a, "edit", req[a].at, value[a])
    /\ UNCHANGED <<held, req, seen, value, old, todo, result, journal, budget>>

(* A source on another host is asked for with secret_reveal.               *)
FetchRemote(a) ==
    /\ pc[a] = "fetch" /\ HostAt(req[a].from) # Home
    /\ Post(a, "reveal", req[a].from, NoValue)
    /\ UNCHANGED <<held, req, seen, value, old, todo, result, journal, budget>>

-----------------------------------------------------------------------------
(* The peer's side.  A reply goes to the attempt that still waits for it.  *)
Awaited(m) ==
    /\ pc[m.call] \in Waiting /\ cur[m.call] = m.loc /\ tries[m.call] = m.try
    /\ pc[m.call] = (IF m.op = "edit" THEN "await_edit" ELSE "await_reveal")

Respond(m, outcome, v) ==
    net' = (net \ {m}) \cup (IF Awaited(m) THEN {Reply(m, outcome, v)} ELSE {})

PeerEdits(m) ==
    /\ m \in net /\ m.type = "ask" /\ m.op = "edit"
    /\ \/ /\ Commit(m.call, {m.loc}, m.value, "caller")
          /\ Respond(m, "applied", NoValue)
       \/ /\ ~Current(m.call, {m.loc}) \/ MayLeak({m.loc})
          /\ Respond(m, "refused", NoValue)
          /\ UNCHANGED <<held, txns>>
    /\ UNCHANGED <<req, seen, pc, value, old, todo, cur, tries, result, audit, budget>>

(* Mutant: the row is best effort here too.                                *)
RevealAnyway(m) == Respond(m, "applied", held[m.loc])
RevealUnrecorded(m) == Respond(m, "refused", NoValue)

(* Its transport row is written before the value is handed out, and a row  *)
(* that cannot be written is an error.                                     *)
PeerReveals(m) ==
    /\ m \in net /\ m.type = "ask" /\ m.op = "reveal"
    /\ \/ /\ Revealable(m.call, m.loc)
          /\ audit' = audit \cup
                {Row(m.call, "transport", m.loc, NoKey, held[m.loc], TRUE)}
          /\ Respond(m, "applied", held[m.loc])
          /\ UNCHANGED faults
       \/ /\ Revealable(m.call, m.loc) /\ Fault
          /\ RevealUnrecorded(m)
          /\ UNCHANGED audit
       \/ /\ ~Revealable(m.call, m.loc)
          /\ Respond(m, "refused", NoValue)
          /\ UNCHANGED <<audit, faults>>
    /\ UNCHANGED <<held, req, seen, pc, value, old, todo, cur, tries, result, txns, edits>>

WithoutReplies(a) == {m \in net : ~(m.type = "reply" /\ m.call = a)}

(* An error result of the peer is an outcome, not a transport failure.     *)
(* Mutant: any answer is taken for success.                                *)
AnswerTaken(m) == "applied"
AnswerOf(m) == m.outcome

ReceiveEdit(a) ==
    /\ pc[a] = "await_edit"
    /\ \E m \in net :
          /\ m.type = "reply" /\ m.call = a
          /\ net' = WithoutReplies(a)
          /\ Mark(a, {m.loc}, AnswerOf(m))
          /\ IF req[a].verb = "rotate"
               THEN /\ Goto(a, IF AnswerOf(m) = "applied" THEN "transport_audit"
                                                        ELSE "remotes")
                    /\ UNCHANGED value
               ELSE /\ Goto(a, IF AnswerOf(m) = "applied" THEN "answered" ELSE "failed")
                    /\ Drop(a)
    /\ UNCHANGED <<held, req, seen, old, todo, cur, tries, journal, budget>>

ReceiveReveal(a) ==
    /\ pc[a] = "await_reveal"
    /\ \E m \in net :
          /\ m.type = "reply" /\ m.call = a
          /\ net' = WithoutReplies(a)
          /\ \/ /\ m.outcome = "applied"
                /\ value' = [value EXCEPT ![a] = m.value]
                /\ Goto(a, IF HostAt(req[a].at) = Home THEN "apply" ELSE "send")
             \/ /\ m.outcome = "refused"
                /\ Fail(a)
    /\ UNCHANGED <<held, req, seen, old, todo, cur, tries, result, journal, budget>>

(* The deadline passed or the peer cannot be reached; a request that is on *)
(* its way may still be carried out.                                       *)
TimeOut(a) ==
    /\ pc[a] \in Waiting
    /\ net' = WithoutReplies(a)
    /\ Mark(a, IF pc[a] = "await_edit" THEN {cur[a]} ELSE {}, "unsure")
    /\ IF req[a].verb = "rotate" THEN Goto(a, "remotes") /\ UNCHANGED value
                                 ELSE Fail(a)
    /\ UNCHANGED <<held, req, seen, old, todo, cur, tries, journal, budget>>

(* The session closed under the call: it is sent again, once, on a new one.*)
Resend(a) ==
    /\ pc[a] \in Waiting /\ tries[a] = 1
    /\ Fault
    /\ tries' = [tries EXCEPT ![a] = 2]
    /\ net' = WithoutReplies(a) \cup
          {IF pc[a] = "await_edit" THEN Ask(a, "edit", cur[a], value[a], 2)
                                   ELSE Ask(a, "reveal", cur[a], NoValue, 2)}
    /\ UNCHANGED <<held, req, seen, pc, value, old, todo, cur, result, journal, edits>>

-----------------------------------------------------------------------------
(* Any other transaction that writes the entry, or deletes the key.        *)
OtherEdit(l) ==
    /\ edits < MaxEdits
    /\ edits' = edits + 1
    /\ \E e \in {Seed(s) : s \in Seeds} \cup {NoKey} :
          e # held[l] /\ held' = [held EXCEPT ![l] = e]
    /\ UNCHANGED <<req, seen, pc, value, old, todo, cur, tries, result, net, journal, faults>>

(* Home's process dies: what its calls had in memory is gone.              *)
Crash ==
    /\ Fault
    /\ LET hit == {a \in Calls : pc[a] \notin Ended \cup {"idle"}} IN
          /\ hit # {}
          /\ pc' = [a \in Calls |-> IF a \in hit THEN "lost" ELSE pc[a]]
          /\ value' = [a \in Calls |-> IF a \in hit THEN NoValue ELSE value[a]]
          /\ net' = {m \in net : m.type = "ask"}
    /\ UNCHANGED <<held, req, seen, old, todo, cur, tries, result, journal,
                   edits>>

CallStep(a) ==
    \/ LoadRotate(a) \/ LoadGenerate(a) \/ LoadReveal(a)
    \/ ApplyPrimary(a) \/ AuditOne(a) \/ AuditDone(a)
    \/ ApplySibling(a) \/ AuditSibling(a) \/ SiblingsDone(a)
    \/ SendRemote(a) \/ RemotesDone(a) \/ AuditTransport(a)
    \/ FetchLocal(a) \/ AuditExit(a) \/ ForwardEdit(a) \/ FetchRemote(a)
    \/ ReceiveEdit(a) \/ ReceiveReveal(a) \/ TimeOut(a)

(* A request that is never carried out is one that was lost on the way.    *)
PeerStep == \E m \in net : PeerEdits(m) \/ PeerReveals(m)

Next ==
    \/ \E a \in Calls : Begin(a) \/ CallStep(a) \/ Resend(a)
    \/ PeerStep
    \/ \E l \in Locs : OtherEdit(l)
    \/ Crash

Spec == Init /\ [][Next]_vars

-----------------------------------------------------------------------------
(* Properties.                                                             *)

TypeOK ==
    /\ held \in [Locs -> Entry]
    /\ req \in [Calls -> Request \cup {NoReq}]
    /\ seen \in [Calls -> [Locs -> Entry]]
    /\ pc \in [Calls -> Steps]
    /\ value \in [Calls -> Value \cup {EmptyValue, NoValue}]
    /\ old \in [Calls -> Entry]
    /\ todo \in [Calls -> SUBSET Locs]
    /\ cur \in [Calls -> Locs \cup {NoLoc}]
    /\ tries \in [Calls -> 0 .. 2]
    /\ result \in [Calls -> [Locs -> Outcomes]]
    /\ edits \in Nat /\ faults \in Nat

Wrote(a, l) == \E t \in txns : t.call = a /\ l \in DOMAIN t.was

(* No transaction of a call replaced an entry its caller had not seen,     *)
(* whatever was written between the caller's read, the unlocked load and   *)
(* the lock; and generate destroyed no value of a classified file, even    *)
(* when the key it found absent came back with the version that was        *)
(* declared.  Of another file it may: GenerateDestroysNothing.             *)
NoUnseenOverwrite ==
    \A t \in txns : \A l \in DOMAIN t.was :
        /\ t.was[l] = seen[t.call][l]
        /\ req[t.call].verb = "generate" /\ l \in Classified => t.was[l] \notin Value

(* secret_tool.rs, of generate: "New keys only: overwriting an existing    *)
(* value is `rotate`'s job, and keeping the verbs disjoint keeps "this     *)
(* destroys a value" attached to the verb that means it".                  *)
GenerateDestroysNothing ==
    \A t \in txns : req[t.call].verb = "generate" =>
        \A l \in DOMAIN t.was : t.was[l] \notin Value

(* Nothing outside the primary's root is written by a rotation before its  *)
(* primary transaction is committed whole, with the same value, and every  *)
(* audit row of that transaction is on record.                             *)
PrimaryFirst ==
    \A t \in txns :
        LET r == req[t.call] IN
        r.verb = "rotate" /\ ~(DOMAIN t.was \subseteq Group(r)) =>
            /\ \E p \in txns : /\ p.call = t.call /\ p.value = t.value
                               /\ DOMAIN p.was = Group(r)
            /\ \A l \in Group(r) :
                  \E w \in audit : /\ w.call = t.call /\ w.action = "rotate"
                                   /\ w.loc = l /\ w.new = t.value

(* What a rotation reports per target is what happened: an applied target  *)
(* was written, wherever it is; a target of this host that was refused was *)
(* not; and a rotation that answers has an outcome for every target, the   *)
(* primary's own root among the applied ones.                              *)
ReportsAreTrue ==
    \A a \in Calls :
        /\ \A l \in Locs :
              /\ result[a][l] = "applied" => Wrote(a, l)
              /\ result[a][l] = "refused" /\ HostAt(l) = Home => ~Wrote(a, l)
        /\ pc[a] = "answered" /\ req[a].verb = "rotate" =>
              /\ \A l \in Targets(req[a]) : result[a][l] # "none"
              /\ \A l \in Group(req[a]) : result[a][l] = "applied"

(* A value handed out by secret_reveal, to the agent or to another host,   *)
(* has its disclosure on record at the host it came from, whatever fails.  *)
RevealsAreAudited ==
    /\ \A a \in Calls :
          pc[a] = "answered" /\ req[a].verb = "reveal" =>
              \E w \in audit : /\ w.call = a /\ w.disclosed
                               /\ w.loc = req[a].at
    /\ \A t \in txns :
          LET r == req[t.call] IN
          r.verb = "copy" /\ HostAt(r.from) # Home =>
              \E w \in audit : /\ w.call = t.call /\ w.disclosed
                               /\ w.loc = r.from /\ w.new = t.value

(* A copy that names a digest writes the value of that digest or nothing,  *)
(* however the source changes around the fetch.                            *)
ExactCopy ==
    \A t \in txns :
        LET r == req[t.call] IN
        r.verb = "copy" /\ r.exact => t.value = seen[t.call][r.from]

(* The contract's R13: the caller's tailnet node is recorded beside the    *)
(* identity on every transaction row.                                      *)
NodeIsRecorded == \A t \in txns : t.node = "caller"

(* The contract's R11: the source host journals the exit of a value.  Once *)
(* a call that wrote on another host has ended, there is a transport row.  *)
ExitIsJournalled ==
    \A a \in Calls : \A t \in txns :
        /\ t.call = a /\ pc[a] \in {"answered", "failed"}
        /\ \E l \in DOMAIN t.was : HostAt(l) # Home
        => \E w \in audit : w.call = a /\ w.action = "transport"

-----------------------------------------------------------------------------
(* The inductive invariant.                                                *)

Payload == Value \cup {EmptyValue}

AskedOf(r) ==
    /\ r \in Request
    /\ r.verb # "copy" => HostAt(r.at) = Home
    /\ r.verb = "rotate" => r.at \notin r.also
    /\ r.verb = "copy" => HostAt(r.at) = Home \/ HostAt(r.from) # HostAt(r.at)

(* What must be on record before a call may write v somewhere else.        *)
PrimaryDone(a, v) ==
    /\ \E p \in txns : p.call = a /\ p.value = v /\ DOMAIN p.was = Group(req[a])
    /\ \A l \in Group(req[a]) :
          \E w \in audit : /\ w.call = a /\ w.action = "rotate"
                           /\ w.loc = l /\ w.new = v

Fetched(a, v) ==
    /\ req[a].exact => v = seen[a][req[a].from]
    /\ HostAt(req[a].from) # Home =>
          \E w \in audit : /\ w.call = a /\ w.disclosed
                           /\ w.loc = req[a].from /\ w.new = v

Sendable(a, v) ==
    /\ v \in Payload
    /\ req[a].verb \in {"rotate", "copy"}
    /\ req[a].verb = "rotate" => PrimaryDone(a, v)
    /\ req[a].verb = "copy" => Fetched(a, v)

MsgOK(m) ==
    /\ m.call \in Calls /\ m.loc \in Locs /\ HostAt(m.loc) # Home
    /\ m.type \in {"ask", "reply"} /\ m.op \in {"edit", "reveal"}
    /\ pc[m.call] # "idle"
    /\ m.type = "ask" => m.try \in 1 .. 2
    /\ m.type = "ask" /\ m.op = "edit" => Sendable(m.call, m.value)
    /\ m.op = "reveal" => req[m.call].verb = "copy" /\ m.loc = req[m.call].from
    /\ m.type = "reply" => m.outcome \in {"applied", "refused"}
    /\ m.type = "reply" /\ m.op = "edit" /\ m.outcome = "applied" =>
          Wrote(m.call, m.loc)
    /\ m.type = "reply" /\ m.op = "reveal" /\ m.outcome = "applied" =>
          m.value \in Payload /\ Fetched(m.call, m.value)
    /\ m.type = "reply" =>
          /\ pc[m.call] \in Waiting
          /\ m.op = (IF pc[m.call] = "await_edit" THEN "edit" ELSE "reveal")

Early == {"idle", "load", "apply", "fetch", "exit_audit", "send", "await_reveal"}
Late == {"siblings", "sibling_audit", "remotes", "transport_audit"}

StepOK(a) ==
    /\ pc[a] # "idle" => AskedOf(req[a])
    /\ pc[a] = "load" => req[a].verb # "copy"
    /\ pc[a] \in {"fetch", "exit_audit", "send", "await_reveal"} => req[a].verb = "copy"
    /\ pc[a] = "apply" =>
          /\ value[a] \in Payload /\ HostAt(req[a].at) = Home
          /\ req[a].verb \in {"rotate", "generate", "copy"}
          /\ req[a].verb = "copy" => Fetched(a, value[a])
    /\ pc[a] = "audit" =>
          /\ value[a] \in Payload
          /\ req[a].verb \in {"rotate", "generate", "reveal"}
          /\ req[a].verb = "rotate" =>
                /\ \E p \in txns : /\ p.call = a /\ p.value = value[a]
                                   /\ DOMAIN p.was = Group(req[a])
                /\ \A l \in Group(req[a]) \ todo[a] :
                      \E w \in audit : /\ w.call = a /\ w.action = "rotate"
                                       /\ w.loc = l /\ w.new = value[a]
                /\ \A l \in Group(req[a]) : result[a][l] = "applied"
          /\ req[a].verb = "reveal" /\ req[a].at \notin todo[a] =>
                \E w \in audit : w.call = a /\ w.disclosed /\ w.loc = req[a].at
    /\ pc[a] \in {"exit_audit", "send"} =>
          value[a] \in Payload /\ Fetched(a, value[a]) /\ HostAt(req[a].at) # Home
    /\ pc[a] \in Late => req[a].verb = "rotate"
    /\ pc[a] \in Late \cup {"await_edit"} => Sendable(a, value[a])
    /\ pc[a] = "sibling_audit" => cur[a] \in Locs
    /\ pc[a] \in Waiting => cur[a] \in Locs /\ HostAt(cur[a]) # Home
    /\ pc[a] = "await_reveal" => cur[a] = req[a].from

ResultOK(a) ==
    /\ pc[a] \in Early => \A l \in Locs : result[a][l] = "none"
    /\ \A l \in Locs :
          /\ result[a][l] = "applied" => Wrote(a, l)
          /\ Wrote(a, l) /\ HostAt(l) = Home => result[a][l] = "applied"
    /\ pc[a] # "idle" /\ req[a].verb = "rotate" =>
          /\ pc[a] \in Late \cup {"await_edit", "answered"} =>
                \A l \in Group(req[a]) : result[a][l] = "applied"
          /\ pc[a] \in {"remotes", "await_edit", "transport_audit", "answered"} =>
                \A l \in Siblings(req[a]) : result[a][l] # "none"
          /\ pc[a] = "answered" =>
                \A l \in Remotes(req[a]) : result[a][l] # "none"

TxnOK(t) ==
    /\ t.call \in Calls /\ pc[t.call] # "idle" /\ DOMAIN t.was \subseteq Locs
    /\ \A l \in DOMAIN t.was :
          /\ t.was[l] = seen[t.call][l]
          /\ req[t.call].verb = "generate" /\ l \in Classified => t.was[l] \notin Value
    /\ req[t.call].verb = "rotate" =>
          DOMAIN t.was = Group(req[t.call]) \/ PrimaryDone(t.call, t.value)
    /\ req[t.call].verb = "copy" => Fetched(t.call, t.value)

RevealOK(a) ==
    pc[a] = "answered" /\ req[a].verb = "reveal" =>
        \E w \in audit : w.call = a /\ w.disclosed /\ w.loc = req[a].at

CallOK(a) == StepOK(a) /\ ResultOK(a) /\ RevealOK(a)

IInv ==
    /\ TypeOK
    /\ \A a \in Calls : CallOK(a)
    /\ \A m \in net : MsgOK(m)
    /\ \A t \in txns : TxnOK(t)
=============================================================================
