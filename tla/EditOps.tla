------------------------------- MODULE EditOps ------------------------------
(***************************************************************************)
(* What the ops of one edit call do (txn::apply_inner between the lock and *)
(* the staging): they run in order on in-memory buffers, then the guards   *)
(* on destroyed values, leaking secrets and unrecoverable deletes decide,  *)
(* and the outcome and the journal's blobs follow from the buffers.        *)
(* Versions, faults and other calls are EditTxn's.                         *)
(*                                                                         *)
(* A dotenv file is its map from keys to values: comments, order, quoting  *)
(* and duplicate keys are left out.  Any other text is one of Prose, in    *)
(* which the leak scan finds nothing it knows.                             *)
(***************************************************************************)
EXTENDS Naturals, FiniteSets

CONSTANTS
    Paths,
    Classified,   \* paths a classification rule covers
    Keys,
    Values,       \* the values that are not empty
    Empty,        \* the empty value
    NoEntry,      \* the file has no such key
    Prose,        \* texts that are not dotenv-shaped
    Absent,       \* no file
    NoBuf,        \* the call has not loaded the path
    Known,        \* values whose digest the journal has seen
    Disks,        \* the files a call may find
    Drafts,       \* texts that creates and text ops leave
    Acks,         \* the acknowledgements a call may carry
    MaxOps        \* bound: ops in a call

Dotenv  == [Keys -> Values \union {Empty, NoEntry}]
Content == Dotenv \union Prose
OnDisk  == Content \union {Absent}

(* drop_keys, drop_paths, allow_secrets, and the root's leak_checks.       *)
Ack == [keys : SUBSET Keys, paths : SUBSET Paths, secrets : SUBSET Values,
        checks : {"refuse", "flag", "off"}]

Buf == [old : OnDisk, content : Content, touched : BOOLEAN, deleted : BOOLEAN]

ASSUME ContentAssumption ==
    /\ Classified \subseteq Paths /\ Known \subseteq Values
    /\ Empty \notin Values /\ NoEntry \notin Values /\ Empty # NoEntry
    /\ Prose \intersect Dotenv = {} /\ Absent \notin Content /\ NoBuf \notin Buf
ASSUME CallAssumption ==
    /\ Disks \subseteq [Paths -> OnDisk] /\ Drafts \subseteq Content
    /\ Acks \subseteq Ack /\ MaxOps \in Nat

VARIABLES
    disk,       \* the files
    before,     \* the files when the call got the lock
    base,       \* the paths it declares
    bufs,       \* its FileBufs
    phase,      \* "ops", "applied" or "refused"
    ack,        \* what it acknowledges
    blobs,      \* the contents its journal rows retain
    promised,   \* deletes it reports as recoverable
    done,       \* history: how many ops ran
    replaced,   \* history: paths of creates that may overwrite
    naive,      \* reference: each file's text, had every op run on it at once
    gone,       \* reference: the files that are deleted, their text aside
    revived     \* reference: the files a value was taken out of while deleted

vars == <<disk, before, base, bufs, phase, ack, blobs, promised, done,
          replaced, naive, gone, revived>>

NoAck == [keys |-> {}, paths |-> {}, secrets |-> {}, checks |-> "refuse"]

(* load_text serves a file of a classified path only when it can be        *)
(* redacted.                                                               *)
Loadable(p, c) == c \in Content /\ (p \in Classified => c \in Dotenv)

Loaded(c) == [old |-> c, content |-> c, touched |-> FALSE, deleted |-> FALSE]

Init ==
    /\ disk \in Disks /\ before = disk /\ naive = disk
    /\ base \in SUBSET {p \in Paths : Loadable(p, disk[p])}
    /\ bufs = [p \in Paths |-> IF p \in base THEN Loaded(disk[p]) ELSE NoBuf]
    /\ phase = "ops" /\ ack = NoAck
    /\ blobs = {} /\ promised = {}
    /\ done = 0 /\ replaced = {} /\ gone = {} /\ revived = {}

Has(p) == bufs[p] # NoBuf

(* declared: the buffer a text or env op works on.                         *)
Editable(p) == Has(p) /\ ~bufs[p].deleted

EditableEnv(p) == Editable(p) /\ bufs[p].content \in Dotenv

(* One op has run: it left buffer b at p; the reference run, which reads   *)
(* no buffer, left text c.                                                 *)
Ran(p, b, c) ==
    /\ phase = "ops" /\ done < MaxOps
    /\ done' = done + 1
    /\ bufs' = [bufs EXCEPT ![p] = b]
    /\ naive' = [naive EXCEPT ![p] = c]
    /\ UNCHANGED <<disk, before, base, phase, ack, blobs, promised>>

(* The op leaves content c in the buffer of p; the reference run leaves n. *)
Puts(p, c, n) == Ran(p, [bufs[p] EXCEPT !.content = c, !.touched = TRUE], n)

(* The op adds p to the call's buffers, over file f.                       *)
Adds(p, f, c) ==
    Ran(p, [old |-> f, content |-> c, touched |-> TRUE, deleted |-> FALSE], c)

-----------------------------------------------------------------------------
(* The ops.  An op whose conditions fail refuses the call: Refuse.         *)

Delete(p) ==
    /\ Has(p) /\ bufs[p].old # Absent
    /\ Ran(p, [bufs[p] EXCEPT !.touched = TRUE, !.deleted = TRUE], naive[p])
    /\ gone' = gone \union {p}
    /\ UNCHANGED <<replaced, revived>>

(* Over a buffer, declared or created by this call, or over the file.      *)
Create(p, c, overwrite) ==
    /\ \/ Has(p) /\ overwrite /\ Puts(p, c, c)
       \/ /\ ~Has(p)
          /\ disk[p] = Absent \/ (overwrite /\ Loadable(p, disk[p]))
          /\ Adds(p, disk[p], c)
    /\ replaced' = IF overwrite THEN replaced \union {p} ELSE replaced
    /\ gone' = gone \ {p} /\ UNCHANGED revived

(* anchor_replace, range_replace.                                          *)
TextOp(p, c) ==
    /\ Editable(p) /\ p \notin Classified
    /\ Puts(p, c, c)
    /\ UNCHANGED <<replaced, gone, revived>>

(* Mutant: env_set edits the file as loaded, not as earlier ops left it.   *)
SetsOnLoaded(p, k, v, n) ==
    /\ EditableEnv(p) /\ bufs[p].old \in Dotenv
    /\ Puts(p, [bufs[p].old EXCEPT ![k] = v], [naive[p] EXCEPT ![k] = n])
    /\ UNCHANGED <<replaced, gone>>

(* env_set of key k to v; the reference run has it set to n.               *)
Sets(p, k, v, n) ==
    /\ EditableEnv(p)
    /\ Puts(p, [bufs[p].content EXCEPT ![k] = v], [naive[p] EXCEPT ![k] = n])
    /\ UNCHANGED <<replaced, gone>>

EnvSet(p, k, v) == Sets(p, k, v, v) /\ UNCHANGED revived

(* Mutant: a value_from is resolved before the ops run.                    *)
SourceAsLoaded(q) == IF Has(q) THEN bufs[q].old
                     ELSE IF Loadable(q, disk[q]) THEN disk[q] ELSE Absent

(* resolve_value_from: the evolving buffer of the source, even one that is *)
(* deleted, else the file.  A placeholder is a reference to p itself.      *)
SourceOf(q) == IF Has(q) THEN bufs[q].content
               ELSE IF Loadable(q, disk[q]) THEN disk[q] ELSE Absent

ValueAt(c, j) == IF c \in Dotenv THEN c[j] ELSE NoEntry

EnvSetFrom(p, k, q, j) ==
    /\ ValueAt(SourceOf(q), j) # NoEntry
    /\ Sets(p, k, ValueAt(SourceOf(q), j), ValueAt(naive[q], j))
    /\ revived' = revived \union ({q} \intersect gone)

Renamed(c, k, j) == [c EXCEPT ![k] = NoEntry, ![j] = c[k]]

EnvRename(p, k, j) ==
    /\ EditableEnv(p)
    /\ bufs[p].content[k] # NoEntry /\ bufs[p].content[j] = NoEntry
    /\ Puts(p, Renamed(bufs[p].content, k, j), Renamed(naive[p], k, j))
    /\ UNCHANGED <<replaced, gone, revived>>

EnvDelete(p, k) ==
    /\ EditableEnv(p)
    /\ bufs[p].content[k] # NoEntry
    /\ Puts(p, [bufs[p].content EXCEPT ![k] = NoEntry], [naive[p] EXCEPT ![k] = NoEntry])
    /\ UNCHANGED <<replaced, gone, revived>>

(* env_reorder, or env_set of a comment alone: no value changes.           *)
EnvReorder(p) ==
    /\ EditableEnv(p)
    /\ Puts(p, bufs[p].content, naive[p])
    /\ UNCHANGED <<replaced, gone, revived>>

Example(c) == [k \in Keys |-> IF c[k] = NoEntry THEN NoEntry ELSE Empty]

(* Mutant: the generated file replaces one the call did not declare.       *)
EnvSyncExampleOver(p, e) ==
    /\ EditableEnv(p) /\ e # p
    /\ \/ Has(e) /\ Puts(e, Example(bufs[p].content), Example(naive[p]))
       \/ ~Has(e) /\ Adds(e, disk[e], Example(bufs[p].content))
    /\ gone' = gone \ {e} /\ UNCHANGED <<replaced, revived>>

EnvSyncExample(p, e) ==
    /\ EditableEnv(p) /\ e # p
    /\ \/ Has(e) /\ Puts(e, Example(bufs[p].content), Example(naive[p]))
       \/ /\ ~Has(e) /\ disk[e] = Absent
          /\ Adds(e, disk[e], Example(bufs[p].content))
    /\ gone' = gone \ {e} /\ UNCHANGED <<replaced, revived>>

-----------------------------------------------------------------------------
(* The guards, over every touched file.                                    *)

Touched == {p \in Paths : Has(p) /\ bufs[p].touched}
Deleted == {p \in Touched : bufs[p].deleted}
Written == Touched \ Deleted

ValuesIn(c) == IF c \in Dotenv THEN {c[k] : k \in Keys} \intersect Values ELSE {}

(* vanished_values: by presence of the value, wherever it went.            *)
Vanished(old, new) ==
    IF old \notin Dotenv THEN {}
    ELSE {k \in Keys : old[k] \in Values /\ old[k] \notin ValuesIn(new)}

(* Mutant: a value overwritten under its own key counts as kept.           *)
VanishGuardByKey(a) ==
    \A p \in Written \intersect Classified : bufs[p].old \in Dotenv =>
        \A k \in Vanished(bufs[p].old, bufs[p].content) :
            \/ bufs[p].content \in Dotenv /\ bufs[p].content[k] # NoEntry
            \/ k \in a.keys

VanishGuard(a) ==
    \A p \in Written \intersect Classified :
        Vanished(bufs[p].old, bufs[p].content) \subseteq a.keys

(* Mutant: only edits are scanned, not files the call creates.             *)
LeaksInEdits(p) ==
    IF bufs[p].old = Absent THEN {}
    ELSE (ValuesIn(bufs[p].content) \ ValuesIn(bufs[p].old)) \intersect Known

(* leak::scan, the digest tier: a known value the file did not hold before. *)
Leaks(p) == (ValuesIn(bufs[p].content) \ ValuesIn(bufs[p].old)) \intersect Known

LeakGuard(a) ==
    a.checks = "refuse" =>
        \A p \in Written \ Classified : Leaks(p) \subseteq a.secrets

(* delete_unrecoverable_reason is None.                                    *)
Recoverable(p) == p \notin Classified /\ bufs[p].old # Absent

DeleteGuard(a) == \A p \in Deleted : Recoverable(p) \/ p \in a.paths

(* What a journal row retains of one file: `plain` when the blob is the    *)
(* content itself; a redacted rendering otherwise, or nothing.             *)
Blob(p, c) == [path |-> p, of |-> c, plain |-> p \notin Classified]

(* Mutant: a delete retains what the buffer held last.                     *)
PreImagesLast ==
    {Blob(p, bufs[p].content) : p \in {q \in Deleted : Recoverable(q)}}
    \union {Blob(p, bufs[p].old) : p \in {q \in Written : bufs[q].old # Absent}}

(* Mutant: files the call created are snapshot too.                        *)
PreImagesAll ==
    {Blob(p, bufs[p].old) : p \in {q \in Deleted : Recoverable(q)} \union Written}

PreImages ==
    {Blob(p, bufs[p].old) : p \in {q \in Deleted : Recoverable(q)}}
    \union {Blob(p, bufs[p].old) : p \in {q \in Written : bufs[q].old # Absent}}

PostImages == {Blob(p, bufs[p].content) : p \in Written}

(* Content of a classified path that is no dotenv is withheld.             *)
Retained == {b \in PreImages \union PostImages : b.plain \/ b.of \in Dotenv}

Accept ==
    /\ phase = "ops" /\ done > 0
    /\ \E a \in Acks :
         /\ VanishGuard(a) /\ LeakGuard(a) /\ DeleteGuard(a)
         /\ ack' = a
    /\ phase' = "applied"
    /\ disk' = [p \in Paths |-> IF p \in Deleted THEN Absent
                                ELSE IF p \in Written THEN bufs[p].content ELSE disk[p]]
    /\ blobs' = Retained
    /\ promised' = {p \in Deleted : Recoverable(p)}
    /\ UNCHANGED <<before, base, bufs, done, replaced, naive, gone, revived>>

(* An op or a guard refuses; an op over the size limit does.               *)
Refuse ==
    /\ phase = "ops"
    /\ phase' = "refused"
    /\ UNCHANGED <<disk, before, base, bufs, ack, blobs, promised, done,
                   replaced, naive, gone, revived>>

-----------------------------------------------------------------------------

Next ==
    \/ \E p \in Paths :
         \/ Delete(p) \/ EnvReorder(p)
         \/ \E c \in Drafts : TextOp(p, c) \/ \E o \in BOOLEAN : Create(p, c, o)
         \/ \E k \in Keys :
              \/ EnvDelete(p, k)
              \/ \E v \in Values \union {Empty} : EnvSet(p, k, v)
              \/ \E j \in Keys : EnvRename(p, k, j) \/ \E q \in Paths : EnvSetFrom(p, k, q, j)
         \/ \E e \in Paths : EnvSyncExample(p, e)
    \/ Accept \/ Refuse

Spec == Init /\ [][Next]_vars

-----------------------------------------------------------------------------
(* Properties.                                                             *)

(* Every variable keeps its type.                                          *)
TypeOK ==
    /\ disk \in [Paths -> OnDisk] /\ before \in [Paths -> OnDisk]
    /\ naive \in [Paths -> OnDisk] /\ gone \subseteq Paths /\ revived \subseteq Paths
    /\ base \subseteq Paths /\ replaced \subseteq Paths /\ promised \subseteq Paths
    /\ bufs \in [Paths -> Buf \union {NoBuf}]
    /\ phase \in {"ops", "applied", "refused"}
    /\ ack \in Ack
    /\ blobs \subseteq [path : Paths, of : Content, plain : BOOLEAN]
    /\ done \in Nat

(* A file the call does not delete holds what its ops leave when each runs *)
(* on the files themselves, a value_from included: every op, and every     *)
(* value taken from another file, sees the ops before it and no other.     *)
(* The text of a deleted file counts as its last one here; whether an op   *)
(* may still take a value out of it is DeletedHasNoContent's.              *)
OpsBuildOnEachOther ==
    phase = "applied" =>
        \A p \in Paths \ Deleted : p \notin gone /\ disk[p] = naive[p]

(* A call changes a file only if it declared it, or created it, or asked   *)
(* to replace it by name (txn.rs, "every path a non-create op touches must *)
(* be declared").                                                          *)
NoSilentClobber ==
    \A p \in Paths : disk[p] # before[p] =>
        p \in base \/ before[p] = Absent \/ p \in replaced

(* No value of a classified file disappears from it, by whatever chain of  *)
(* ops, unless the call names its key, or the file when it is deleted: the *)
(* caller may never have seen the value.                                   *)
DestructionIsAcknowledged ==
    phase = "applied" => \A p \in Classified, k \in Keys :
        Vanished(before[p], disk[p]) # {} =>
            IF disk[p] = Absent THEN p \in ack.paths
            ELSE Vanished(before[p], disk[p]) \subseteq ack.keys

(* A known secret reaches a file that is not classified, or a blob that    *)
(* holds content in the clear, only if such a file held it before, or the  *)
(* call or the root's configuration lets it.                               *)
SecretsStayClassified ==
    phase = "applied" /\ ack.checks = "refuse" =>
        LET held == UNION {ValuesIn(before[p]) : p \in Paths \ Classified}
            out  == UNION {ValuesIn(disk[p]) : p \in Paths \ Classified}
            kept == UNION {ValuesIn(b.of) : b \in {x \in blobs : x.plain}}
        IN  (out \union kept) \intersect Known \subseteq held \union ack.secrets

(* A delete is reported recoverable exactly when the journal retains, in   *)
(* the clear, what the file held before the call.                          *)
RecoverableIsRetained ==
    phase = "applied" => \A p \in Deleted :
        p \in promised <=> [path |-> p, of |-> before[p], plain |-> TRUE] \in blobs

-----------------------------------------------------------------------------
(* Why they hold: the inductive invariant of EditOps_proofs.               *)

BufInv(p) ==
    /\ p \in base => Has(p)
    /\ Has(p) => bufs[p].old = before[p]
    /\ Has(p) /\ ~bufs[p].deleted => bufs[p].touched \/ bufs[p].content = before[p]
    /\ Has(p) => bufs[p].content = naive[p]
    /\ ~Has(p) => naive[p] = before[p]
    /\ p \in gone => Has(p) /\ bufs[p].deleted
    /\ Has(p) /\ bufs[p].deleted => bufs[p].touched /\ bufs[p].old # Absent
    /\ Has(p) => p \in base \/ before[p] = Absent \/ p \in replaced

PlanInv == phase # "applied" => disk = before /\ blobs = {} /\ promised = {}

OutcomeInv == phase = "applied" =>
    /\ disk = [p \in Paths |-> IF p \in Deleted THEN Absent
                               ELSE IF p \in Written THEN bufs[p].content ELSE before[p]]
    /\ VanishGuard(ack) /\ LeakGuard(ack) /\ DeleteGuard(ack)
    /\ blobs = Retained
    /\ promised = {p \in Deleted : Recoverable(p)}

IInv == TypeOK /\ PlanInv /\ OutcomeInv /\ \A p \in Paths : BufInv(p)

-----------------------------------------------------------------------------
(* What the documentation says and the code does not do.                   *)

(* mcp-contract.md: "ops applied in order against an evolving in-memory    *)
(* buffer"; a create after a delete of the same path is accepted, and its  *)
(* content dropped.                                                        *)
OpsApplyInOrder ==
    phase = "applied" =>
        disk = [p \in Paths |-> IF p \in gone THEN Absent ELSE naive[p]]

(* txn.rs: "Ops run in order, so `edit` then `delete` is coherent and the  *)
(* reverse is not", said of a deleted buffer "for an op that needs         *)
(* content"; value_from needs the content of its source, and takes it out  *)
(* of one an earlier op of the call deleted.                               *)
DeletedHasNoContent == phase = "applied" => revived = {}
=============================================================================
