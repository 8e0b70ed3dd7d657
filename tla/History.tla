------------------------------ MODULE History -------------------------------
(***************************************************************************)
(* The journal of one root as history (R6): what transactions leave in     *)
(* txns, txn_files and blobs (journal.rs), how blob content expires, and   *)
(* revert, which reads the journal outside the transaction lock and then   *)
(* applies an ordinary transaction (history::revert).                      *)
(*                                                                         *)
(* An edit is one step here, or a torn one when the daemon stops in it:    *)
(* its own steps are EditTxn's.  A version is its content.                 *)
(***************************************************************************)
EXTENDS Naturals, Sequences, FiniteSets

CONSTANTS
    Paths,
    First(_),         \* of a set of paths, the one the engine visits first
    Contents,         \* contents of files
    Opaque,           \* contents that are not dotenv-shaped
    Rendering,        \* the redacted rendering of a content
    Absent,
    NoBlob,
    Writes,           \* bound: what transactions and other programs write where
    Classifications,  \* what configurations may classify
    Reverters,        \* concurrent revert calls
    NoPlan,
    Retention,        \* blob_retention_days
    MaxDays, MaxRows  \* bounds: days that pass, transactions

(* A function over the paths of a transaction.                             *)
PathsTo(X) == UNION {[S -> X] : S \in SUBSET Paths}

Files == Contents \union {Rendering, Absent}

(* A row of txn_files, with whether the path was classified then.          *)
Change == [old : Files, new : Files, redacted : BOOLEAN]

(* undoes is the row a revert undoes, else 0.                              *)
Row == [changes : PathsTo(Change), at : Nat, undoes : Nat]

Blob == [content : Contents \union {Rendering}, redacted : BOOLEAN, at : Nat]

Plan == [of : Nat, contents : PathsTo(Files)]

ASSUME FirstAssumption == \A S \in SUBSET Paths : S # {} => First(S) \in S
ASSUME ContentAssumption ==
    /\ Opaque \subseteq Contents
    /\ Absent \notin Contents /\ Rendering \notin Contents /\ Absent # Rendering
    /\ NoBlob \notin Blob /\ NoPlan \notin Plan
ASSUME WriteAssumption == Writes \subseteq PathsTo(Contents \union {Absent})
ASSUME ConfigAssumption == Classifications \subseteq SUBSET Paths /\ Classifications # {}
ASSUME BoundAssumption == Retention \in Nat /\ MaxDays \in Nat /\ MaxRows \in Nat

VARIABLES
    files,       \* the files under the root
    classified,  \* the paths its rules cover
    day,
    rows,        \* txns with their txn_files
    blobs,       \* blobs, by version
    plans,       \* the reverts past their checks
    promised     \* history: <<row, path>> of deletes reported recoverable

vars == <<files, classified, day, rows, blobs, plans, promised>>

Init ==
    /\ files \in [Paths -> Contents \union {Absent}]
    /\ classified \in Classifications
    /\ day = 0 /\ rows = <<>>
    /\ blobs = [v \in Contents \union {Rendering} |-> NoBlob]
    /\ plans = [r \in Reverters |-> NoPlan]
    /\ promised = {}

(* load_text: a classified file is served only when it can be redacted.    *)
Loadable(p) == files[p] # Absent /\ (p \in classified => files[p] \notin Opaque)

-----------------------------------------------------------------------------
(* The journal.                                                            *)

Deletes(c) == c.new = Absent

(* Mutant: the pre-image of a delete is not kept.                          *)
RetainsNoPreImage(c, v) == ~Deletes(c) /\ v \in {c.old, c.new} /\ (c.redacted => v \notin Opaque)

(* The versions whose blob the record of a change carries: the pre-image   *)
(* of a delete when it can restore the file, both sides otherwise; of a    *)
(* classified file a rendering, which opaque content has not.              *)
Retains(c, v) ==
    /\ v # Absent
    /\ IF Deletes(c) THEN v = c.old /\ ~c.redacted
       ELSE v \in {c.old, c.new} /\ (c.redacted => v \notin Opaque)

(* Mutant: a redacted blob holds the file's bytes.                         *)
NewBlobRaw(c, v) == [content |-> v, redacted |-> c.redacted, at |-> day]

NewBlob(c, v) ==
    [content |-> IF c.redacted THEN Rendering ELSE v, redacted |-> c.redacted, at |-> day]

(* INSERT OR IGNORE, file by file in path order.                           *)
Insert(changes) ==
    [v \in DOMAIN blobs |->
        LET carriers == {p \in DOMAIN changes : Retains(changes[p], v)}
        IN  IF blobs[v] # NoBlob \/ carriers = {} THEN blobs[v]
            ELSE NewBlob(changes[First(carriers)], v)]

(* Mutant: the last day of the window is not part of it.                   *)
ExpiredEarly(b) == b # NoBlob /\ b.at + Retention <= day

(* gc_blobs: DELETE FROM blobs WHERE created_at < cutoff.                  *)
Expired(b) == b # NoBlob /\ b.at + Retention < day

Swept(bs) == [v \in DOMAIN bs |-> IF Expired(bs[v]) THEN NoBlob ELSE bs[v]]

(* A transaction over the paths of `to` reaches its row.                   *)
Changes(to) ==
    [p \in DOMAIN to |-> [old |-> files[p], new |-> to[p], redacted |-> p \in classified]]

Begin(to, undoes) ==
    /\ Len(rows) < MaxRows
    /\ rows' = Append(rows, [changes |-> Changes(to), at |-> day, undoes |-> undoes])

(* It completes: the files are replaced, and a sweep runs if one is due.   *)
Complete(to) ==
    /\ files' = [p \in Paths |-> IF p \in DOMAIN to THEN to[p] ELSE files[p]]
    /\ promised' = promised \union
           {<<Len(rows) + 1, p>> : p \in {q \in DOMAIN to : to[q] = Absent /\ q \notin classified}}
    /\ blobs' \in {Insert(Changes(to)), Swept(Insert(Changes(to)))}

-----------------------------------------------------------------------------

(* What an edit call can do to one file: create or overwrite, edit, delete.*)
Possible(p, c) == IF files[p] = Absent THEN c # Absent ELSE Loadable(p)

Edit(to) ==
    /\ \A p \in DOMAIN to : Possible(p, to[p])
    /\ Begin(to, 0) /\ Complete(to)
    /\ UNCHANGED <<classified, day, plans>>

(* The daemon dies, or a rename fails, with some files replaced: the row   *)
(* and its blobs are there.                                                *)
Torn(to, landed) ==
    /\ \A p \in DOMAIN to : Possible(p, to[p])
    /\ Begin(to, 0)
    /\ blobs' = Insert(Changes(to))
    /\ files' = [p \in Paths |-> IF p \in landed THEN to[p] ELSE files[p]]
    /\ UNCHANGED <<classified, day, plans, promised>>

(* What a revert puts in place of one change: the retained pre-image.      *)
Restores(c) == IF c.old = Absent THEN Absent ELSE blobs[c.old].content

(* Mutant: the redacted flag of a blob is not looked at.                   *)
RestorableRendering(p, c) == c.old # Absent =>
    /\ p \notin classified /\ blobs[c.old] # NoBlob
    /\ Deletes(c) => files[p] = Absent

(* revert's checks: a created file can always be deleted again; otherwise  *)
(* the blob must be there, in the clear, and a deleted file's path free.   *)
Restorable(p, c) == c.old # Absent =>
    /\ p \notin classified
    /\ blobs[c.old] # NoBlob /\ ~blobs[c.old].redacted
    /\ Deletes(c) => files[p] = Absent

RevertPlan(r, t) ==
    /\ plans[r] = NoPlan
    /\ \A p \in DOMAIN rows[t].changes : Restorable(p, rows[t].changes[p])
    /\ plans' = [plans EXCEPT ![r] =
           [of |-> t, contents |-> [p \in DOMAIN rows[t].changes |-> Restores(rows[t].changes[p])]]]
    /\ UNCHANGED <<files, classified, day, rows, blobs, promised>>

(* Mutant: the versions are not checked again under the lock.              *)
MatchesAnything(r) == \A p \in DOMAIN plans[r].contents : Possible(p, plans[r].contents[p])

(* Under the transaction lock: each file is at the version the target left *)
(* (declared in base), or still absent (a create that may not overwrite).  *)
Matches(r) == \A p \in DOMAIN plans[r].contents :
    /\ files[p] = rows[plans[r].of].changes[p].new
    /\ files[p] # Absent => Loadable(p)

RevertApply(r) ==
    /\ plans[r] # NoPlan /\ Matches(r)
    /\ Begin(plans[r].contents, plans[r].of) /\ Complete(plans[r].contents)
    /\ plans' = [plans EXCEPT ![r] = NoPlan]
    /\ UNCHANGED <<classified, day>>

(* version_conflict, a leak refusal, a dry run, or a fault before the row. *)
RevertRefused(r) ==
    /\ plans[r] # NoPlan
    /\ plans' = [plans EXCEPT ![r] = NoPlan]
    /\ UNCHANGED <<files, classified, day, rows, blobs, promised>>

(* Another program writes files.                                           *)
External(to) ==
    /\ files' = [p \in Paths |-> IF p \in DOMAIN to THEN to[p] ELSE files[p]]
    /\ UNCHANGED <<classified, day, rows, blobs, plans, promised>>

Tick ==
    /\ day < MaxDays /\ day' = day + 1
    /\ UNCHANGED <<files, classified, rows, blobs, plans, promised>>

(* The daemon restarts, maybe with other classification rules; opening the *)
(* journal sweeps it.                                                      *)
Restart ==
    /\ classified' \in Classifications
    /\ blobs' = Swept(blobs)
    /\ plans' = [r \in Reverters |-> NoPlan]
    /\ UNCHANGED <<files, day, rows, promised>>

Next ==
    \/ \E to \in Writes :
           Edit(to) \/ External(to) \/ \E landed \in SUBSET DOMAIN to : Torn(to, landed)
    \/ \E r \in Reverters :
           \/ \E t \in 1..Len(rows) : RevertPlan(r, t)
           \/ RevertApply(r) \/ RevertRefused(r)
    \/ Tick \/ Restart

Spec == Init /\ [][Next]_vars

-----------------------------------------------------------------------------
(* Properties.                                                             *)

(* Every variable keeps its type.                                          *)
TypeOK ==
    /\ files \in [Paths -> Files] /\ classified \in Classifications
    /\ day \in 0..MaxDays /\ rows \in Seq(Row)
    /\ DOMAIN blobs = Contents \union {Rendering}
    /\ \A v \in DOMAIN blobs : blobs[v] \in Blob \union {NoBlob}
    /\ plans \in [Reverters -> Plan \union {NoPlan}]
    /\ promised \subseteq Nat \X Paths

(* A revert is exactly the inverse of what it undoes, over the same files, *)
(* whatever edits, writers, sweeps and other reverts come between its      *)
(* checks and its transaction (mcp-contract.md: "Never a force-overwrite").*)
RevertIsInverse == \A i \in 1..Len(rows) : rows[i].undoes # 0 =>
    LET done == rows[i].changes  undone == rows[rows[i].undoes].changes
    IN  /\ DOMAIN done = DOMAIN undone
        /\ \A p \in DOMAIN done : done[p].old = undone[p].new /\ done[p].new = undone[p].old

(* No file ever holds placeholders as literals, even when the rules that   *)
(* classify it change between an edit and its revert.                      *)
NoPlaceholderLiteral == \A p \in Paths : files[p] # Rendering

(* The journal holds in the clear only what some path that was not         *)
(* classified held (008 D-11: no plaintext shadow).                        *)
NoPlaintextShadow == \A v \in DOMAIN blobs :
    blobs[v] # NoBlob /\ blobs[v].content # Rendering =>
        \E i \in 1..Len(rows) : \E p \in DOMAIN rows[i].changes :
            LET c == rows[i].changes[p] IN ~c.redacted /\ v \in {c.old, c.new}

(* What a blob retains disappears only when a transaction that recorded    *)
(* that version is out of the window: blob_expired_or_absent means it.     *)
ExpiresOnlyOld ==
    \A i \in 1..Len(rows) : \A p \in DOMAIN rows[i].changes : \A v \in DOMAIN blobs :
        Retains(rows[i].changes[p], v) /\ blobs[v] = NoBlob =>
            \E j \in 1..Len(rows) : \E q \in DOMAIN rows[j].changes :
                Retains(rows[j].changes[q], v) /\ rows[j].at + Retention < day

(* The content that a promise is about, and that no transaction before it  *)
(* retained, nor the same one from a classified path.                      *)
Version(m) == rows[m[1]].changes[m[2]].old

Fresh(m) ==
    /\ \A i \in 1..(m[1] - 1) : \A p \in DOMAIN rows[i].changes :
           ~Retains(rows[i].changes[p], Version(m))
    /\ \A p \in DOMAIN rows[m[1]].changes :
           Retains(rows[m[1]].changes[p], Version(m)) => ~rows[m[1]].changes[p].redacted

Held(v) == blobs[v] # NoBlob /\ ~blobs[v].redacted

(* A delete reported recoverable can be undone within the window, if the   *)
(* journal saw that content there for the first time.                      *)
FreshPromiseIsKept == \A m \in promised :
    Fresh(m) /\ day <= rows[m[1]].at + Retention => Held(Version(m))

-----------------------------------------------------------------------------
(* Why they hold: the inductive invariant of History_proofs.               *)

RowsInv ==
    /\ \A i \in 1..Len(rows) : \A p \in DOMAIN rows[i].changes :
           LET c == rows[i].changes[p] IN
               c.old # Rendering /\ c.new # Rendering /\ (Deletes(c) => c.old # Absent)
    /\ \A i \in 1..Len(rows) : rows[i].at <= day /\ rows[i].undoes < i
    /\ \A i, j \in 1..Len(rows) : i <= j => rows[i].at <= rows[j].at

(* A blob comes from the record of a change that retains its version.      *)
BlobsInv == \A v \in DOMAIN blobs : blobs[v] # NoBlob =>
    /\ blobs[v].content = IF blobs[v].redacted THEN Rendering ELSE v
    /\ \E i \in 1..Len(rows) : \E p \in DOMAIN rows[i].changes :
           /\ Retains(rows[i].changes[p], v)
           /\ rows[i].at = blobs[v].at /\ rows[i].changes[p].redacted = blobs[v].redacted

PlansInv == \A r \in Reverters : plans[r] # NoPlan =>
    /\ plans[r].of \in 1..Len(rows)
    /\ DOMAIN plans[r].contents = DOMAIN rows[plans[r].of].changes
    /\ \A p \in DOMAIN plans[r].contents :
           plans[r].contents[p] = rows[plans[r].of].changes[p].old

PromisesInv == \A m \in promised :
    /\ m[1] \in 1..Len(rows) /\ m[2] \in DOMAIN rows[m[1]].changes
    /\ Deletes(rows[m[1]].changes[m[2]]) /\ ~rows[m[1]].changes[m[2]].redacted

IInv == TypeOK /\ RowsInv /\ BlobsInv /\ PlansInv /\ PromisesInv
        /\ RevertIsInverse /\ NoPlaceholderLiteral /\ ExpiresOnlyOld /\ FreshPromiseIsKept

-----------------------------------------------------------------------------
(* What the documentation says and the code does not do.                   *)

(* history.rs: "The blob is there exactly when the delete reported         *)
(* recoverable: true".  The blob is the version's first one: it may be the *)
(* rendering journalled for a classified file of the same content, or be   *)
(* out of the window already.                                              *)
RecoverableHasBlob == \A m \in promised :
    day <= rows[m[1]].at + Retention => Held(Version(m))
=============================================================================
