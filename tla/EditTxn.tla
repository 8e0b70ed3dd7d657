------------------------------ MODULE EditTxn ------------------------------
(***************************************************************************)
(* The transaction protocol of the edit engine (txn::apply), with the part *)
(* of the journal it drives (begin / complete / fail) and the startup scan *)
(* for torn transactions.                                                  *)
(*                                                                         *)
(* One element of Txns is one call of the `edit` tool, run on a blocking   *)
(* thread of its own.  Its local variables are `pc`, `seen` (the           *)
(* old_content of each FileBuf), `staged` (the Vec of staged files) and    *)
(* the answer it returns; what the calls share is the TXN_LOCK, the files, *)
(* the temp files and the journal.  A version is a hash of the content, so *)
(* a content stands for its own version.  The ops of a call are abstracted *)
(* to their net effect, `want`: EditOps models how they are folded.        *)
(***************************************************************************)
EXTENDS Naturals, FiniteSets

CONSTANTS
    Txns,           \* calls of `edit`
    Paths,          \* files under the root
    Contents,       \* what a file can hold
    Absent,         \* no file at the path (VERSION_ABSENT)
    None,           \* "not declared", "not touched" or "no buffer"
    Free,           \* nobody holds TXN_LOCK
    Requests,       \* the EditRequests callers may send
    RacingWriters,  \* may external writers act while a call holds the lock?
    MaxExternal, MaxFaults, MaxCrashes   \* bounds of a run

OnDisk == Contents \union {Absent}

(* base: the declared version of each path; want: what the ops leave of it *)
(* (Absent: an op deletes it); overwrite: creates that may replace a file; *)
(* dry: dry_run.                                                           *)
Request == [base : [Paths -> Contents \union {None}],
            want : [Paths -> OnDisk \union {None}],
            overwrite : SUBSET Paths,
            dry : BOOLEAN]

ASSUME SentinelAssumption ==
    /\ Absent \notin Contents /\ None \notin OnDisk /\ None \notin Request
    /\ Free \notin Txns
ASSUME RequestAssumption == Requests \subseteq Request
ASSUME BoundAssumption ==
    /\ RacingWriters \in BOOLEAN
    /\ MaxExternal \in Nat /\ MaxFaults \in Nat /\ MaxCrashes \in Nat

VARIABLES
    files,      \* the files of the root
    temps,      \* <<t, p>>: a temp file t made next to p still exists
    row,        \* txns row of t: "none", "pending" (completed_at NULL), "complete"
    failed,     \* calls with a txn_failures row
    reported,   \* calls the last startup logged as torn
    up,         \* the daemon runs
    lock,       \* holder of TXN_LOCK
    pc,         \* where each call is
    req,        \* its EditRequest (None before it arrives)
    seen,       \* old_content of its buffers
    staged,     \* paths it staged a temp file for
    landed,     \* paths it renamed or unlinked
    ans,        \* the answer it came to
    raced,      \* history: paths an external writer hit after t loaded them
    spent       \* history: external writes, faults and crashes so far

disk == <<files, temps, row, failed>>
vars == <<files, temps, row, failed, reported, up, lock, pc, req, seen,
          staged, landed, ans, raced, spent>>

Steps == {"idle", "waiting", "verify", "ops", "stage", "begin", "promote",
          "complete", "return", "failing", "answered", "lost"}
Answers == {"none", "applied", "dry", "refused", "conflict", "internal"}
Rows == {"none", "pending", "complete"}
Accidents == {"external", "fault", "crash"}

NoBufs == [p \in Paths |-> None]

Init ==
    /\ files \in [Paths -> OnDisk]
    /\ temps = {}
    /\ row = [t \in Txns |-> "none"]
    /\ failed = {} /\ reported = {}
    /\ up = TRUE /\ lock = Free
    /\ pc = [t \in Txns |-> "idle"]
    /\ req = [t \in Txns |-> None]
    /\ seen = [t \in Txns |-> NoBufs]
    /\ staged = [t \in Txns |-> {}]
    /\ landed = [t \in Txns |-> {}]
    /\ ans = [t \in Txns |-> "none"]
    /\ raced = [t \in Txns |-> {}]
    /\ spent = [a \in Accidents |-> 0]

-----------------------------------------------------------------------------
(* What a request asks for.                                                *)

Declared(t) == {p \in Paths : req[t].base[p] # None}
Touched(t)  == {p \in Paths : req[t].want[p] # None}
(* Mutant: a file that is only declared, to assert it unchanged, is written.*)
WrittenUnfiltered(t) == {p \in Paths : req[t].want[p] # Absent}

Written(t)  == {p \in Touched(t) : req[t].want[p] # Absent}
Deleted(t)  == {p \in Touched(t) : req[t].want[p] = Absent}

TempsOf(t) == {p \in Paths : <<t, p>> \in temps}

Goto(t, step) == pc' = [pc EXCEPT ![t] = step]

(* Mutant: the guard only drops when the call applied.                     *)
LeaveHolding(t, step, answer) ==
    /\ Goto(t, step)
    /\ ans' = [ans EXCEPT ![t] = answer]
    /\ lock' = IF lock = t /\ answer = "applied" THEN Free ELSE lock
    /\ seen' = [seen EXCEPT ![t] = NoBufs]
    /\ raced' = [raced EXCEPT ![t] = {}]

(* apply_inner returns: its locals are gone and the guard drops.  After an *)
(* error apply still has to record the failure.                            *)
Leave(t, step, answer) ==
    /\ Goto(t, step)
    /\ ans' = [ans EXCEPT ![t] = answer]
    /\ lock' = IF lock = t THEN Free ELSE lock
    /\ seen' = [seen EXCEPT ![t] = NoBufs]
    /\ raced' = [raced EXCEPT ![t] = {}]

Fail(t, why) == Leave(t, "failing", why)

Fault ==
    /\ spent["fault"] < MaxFaults
    /\ spent' = [spent EXCEPT !["fault"] = @ + 1]

-----------------------------------------------------------------------------
(* A call arrives and is let in.                                           *)

Submit(t) ==
    /\ up /\ pc[t] = "idle"
    /\ \E r \in Requests : req' = [req EXCEPT ![t] = r]
    /\ Goto(t, "waiting")
    /\ UNCHANGED <<disk, reported, up, lock, seen, staged, landed, ans, raced,
                   spent>>

(* Refused before the lock: no ops, or an op on a .kaedignore.             *)
RefuseEarly(t) ==
    /\ pc[t] = "waiting"
    /\ Fail(t, "refused")
    /\ UNCHANGED <<disk, reported, up, req, staged, landed, spent>>

(* Mutant: every call gets a lock of its own.                              *)
AcquireUnlocked(t) ==
    /\ pc[t] = "waiting"
    /\ lock' = t
    /\ Goto(t, "verify")
    /\ UNCHANGED <<disk, reported, up, req, seen, staged, landed, ans, raced,
                   spent>>

Acquire(t) ==
    /\ pc[t] = "waiting" /\ lock = Free
    /\ lock' = t
    /\ Goto(t, "verify")
    /\ UNCHANGED <<disk, reported, up, req, seen, staged, landed, ans, raced,
                   spent>>

-----------------------------------------------------------------------------
(* Under the lock: load and verify every declared base, then run the ops.  *)

(* One iteration of the base loop that finds the declared version.         *)
Verify(t) ==
    /\ pc[t] = "verify"
    /\ \E p \in Declared(t) :
         /\ seen[t][p] = None
         /\ files[p] = req[t].base[p]
         /\ seen' = [seen EXCEPT ![t][p] = files[p]]
    /\ UNCHANGED <<disk, reported, up, lock, pc, req, staged, landed, ans, raced,
                   spent>>

(* The loop finds another version, or no file.                             *)
Conflict(t) ==
    /\ pc[t] = "verify"
    /\ \E p \in Declared(t) : seen[t][p] = None /\ files[p] # req[t].base[p]
    /\ Fail(t, "conflict")
    /\ UNCHANGED <<disk, reported, up, req, staged, landed, spent>>

(* Mutant: the base loop stops at the first verified file.                 *)
StartOpsEarly(t) ==
    /\ pc[t] = "verify"
    /\ \E p \in Paths : seen[t][p] # None
    /\ Goto(t, "ops")
    /\ UNCHANGED <<disk, reported, up, lock, req, seen, staged, landed, ans, raced,
                   spent>>

StartOps(t) ==
    /\ pc[t] = "verify"
    /\ \A p \in Declared(t) : seen[t][p] # None
    /\ Goto(t, "ops")
    /\ UNCHANGED <<disk, reported, up, lock, req, seen, staged, landed, ans, raced,
                   spent>>

(* Mutant: a create never looks whether the path is free.                  *)
CreatableAnyway(t, p) == req[t].want[p] # Absent

(* A path the ops touch without a declared base has been created by one of *)
(* them: at a free path, or over a file when the create may overwrite.  In *)
(* the second case a later op may delete it again.                         *)
Creatable(t, p) ==
    \/ files[p] = Absent /\ req[t].want[p] # Absent
    \/ files[p] # Absent /\ p \in req[t].overwrite

Undeclared(t) == Touched(t) \ Declared(t)

(* All ops apply and no content guard objects; a dry run stops here.       *)
RunOps(t) ==
    /\ pc[t] = "ops" /\ ~req[t].dry
    /\ \A p \in Undeclared(t) : Creatable(t, p)
    /\ seen' = [seen EXCEPT ![t] =
                 [p \in Paths |-> IF p \in Undeclared(t) THEN files[p] ELSE @[p]]]
    /\ Goto(t, "stage")
    /\ UNCHANGED <<disk, reported, up, lock, req, staged, landed, ans, raced, spent>>

DryRun(t) ==
    /\ pc[t] = "ops" /\ req[t].dry
    /\ \A p \in Undeclared(t) : Creatable(t, p)
    /\ Leave(t, "answered", "dry")
    /\ UNCHANGED <<disk, reported, up, req, staged, landed, spent>>

(* A load, an op, the size check, the vanish guard, the leak scan, the     *)
(* drop_paths check or the writability probe refuses.                      *)
Refuse(t) ==
    /\ pc[t] \in {"verify", "ops"}
    /\ Fail(t, "refused")
    /\ UNCHANGED <<disk, reported, up, req, staged, landed, spent>>

-----------------------------------------------------------------------------
(* Stage every temp file, journal the transaction, rename all, complete.   *)

Stage(t) ==
    /\ pc[t] = "stage"
    /\ \E p \in Written(t) \ staged[t] :
         /\ staged' = [staged EXCEPT ![t] = @ \union {p}]
         /\ temps' = temps \union {<<t, p>>}
    /\ UNCHANGED <<files, row, failed, reported, up, lock, pc, req, seen, landed,
                   ans, raced, spent>>

(* fsops::stage fails for p: what was staged is discarded.  The temp file  *)
(* of p is not: it stays behind when it was created and the write failed.  *)
StageFails(t) ==
    /\ pc[t] = "stage" /\ Fault
    /\ \E p \in Written(t) \ staged[t] : \E left \in SUBSET {<<t, p>>} :
         temps' = (temps \ {<<t, s>> : s \in staged[t]}) \union left
    /\ Fail(t, "internal")
    /\ UNCHANGED <<files, row, failed, reported, up, req, staged, landed>>

StartBegin(t) ==
    /\ pc[t] = "stage" /\ staged[t] = Written(t)
    /\ Goto(t, "begin")
    /\ UNCHANGED <<disk, reported, up, lock, req, seen, staged, landed, ans, raced,
                   spent>>

(* Mutant: the journal row is written as the transaction completes.        *)
BeginNoRow(t) ==
    /\ pc[t] = "begin"
    /\ Goto(t, "promote")
    /\ UNCHANGED <<disk, reported, up, lock, req, seen, staged, landed, ans, raced,
                   spent>>

Begin(t) ==
    /\ pc[t] = "begin"
    /\ row' = [row EXCEPT ![t] = "pending"]
    /\ Goto(t, "promote")
    /\ UNCHANGED <<files, temps, failed, reported, up, lock, req, seen, staged,
                   landed, ans, raced, spent>>

(* Mutant: the staged files stay when begin fails.                         *)
BeginFailsKeeping(t) ==
    /\ pc[t] = "begin" /\ Fault
    /\ Fail(t, "internal")
    /\ UNCHANGED <<disk, reported, up, req, staged, landed>>

BeginFails(t) ==
    /\ pc[t] = "begin" /\ Fault
    /\ temps' = temps \ {<<t, s>> : s \in staged[t]}
    /\ Fail(t, "internal")
    /\ UNCHANGED <<files, row, failed, reported, up, req, staged, landed>>

(* Rename one temp file over its destination.                              *)
Promote(t) ==
    /\ pc[t] = "promote"
    /\ \E p \in staged[t] \ landed[t] :
         /\ files' = [files EXCEPT ![p] = req[t].want[p]]
         /\ temps' = temps \ {<<t, p>>}
         /\ landed' = [landed EXCEPT ![t] = @ \union {p}]
    /\ UNCHANGED <<row, failed, reported, up, lock, pc, req, seen, staged, ans, raced,
                   spent>>

(* Once everything staged is renamed, the deletes; a file that is already  *)
(* gone counts as removed.                                                 *)
Unlink(t) ==
    /\ pc[t] = "promote" /\ staged[t] \subseteq landed[t]
    /\ \E p \in Deleted(t) \ landed[t] :
         /\ files' = [files EXCEPT ![p] = Absent]
         /\ landed' = [landed EXCEPT ![t] = @ \union {p}]
    /\ UNCHANGED <<temps, row, failed, reported, up, lock, pc, req, seen, staged, ans,
                   raced, spent>>

(* A rename fails, its directory cannot be synced after the rename, or an  *)
(* unlink fails: no rollback, the row stays pending and the temp files not *)
(* yet renamed stay.                                                       *)
PromoteFails(t) ==
    /\ pc[t] = "promote" /\ Fault
    /\ \/ /\ Touched(t) \ landed[t] # {}
          /\ UNCHANGED <<files, temps, landed>>
       \/ \E p \in staged[t] \ landed[t] :
            /\ files' = [files EXCEPT ![p] = req[t].want[p]]
            /\ temps' = temps \ {<<t, p>>}
            /\ landed' = [landed EXCEPT ![t] = @ \union {p}]
    /\ Fail(t, "internal")
    /\ UNCHANGED <<row, failed, reported, up, req, staged>>

(* Mutant: complete runs when the renames are done, before the unlinks.    *)
StartCompleteEarly(t) ==
    /\ pc[t] = "promote" /\ staged[t] \subseteq landed[t]
    /\ Goto(t, "complete")
    /\ UNCHANGED <<disk, reported, up, lock, req, seen, staged, landed, ans, raced,
                   spent>>

StartComplete(t) ==
    /\ pc[t] = "promote" /\ landed[t] = Touched(t)
    /\ Goto(t, "complete")
    /\ UNCHANGED <<disk, reported, up, lock, req, seen, staged, landed, ans, raced,
                   spent>>

Complete(t) ==
    /\ pc[t] = "complete"
    /\ row' = [row EXCEPT ![t] = "complete"]
    /\ Goto(t, "return")
    /\ UNCHANGED <<files, temps, failed, reported, up, lock, req, seen, staged,
                   landed, ans, raced, spent>>

(* Every file landed, but the UPDATE of the journal row fails.             *)
CompleteFails(t) ==
    /\ pc[t] = "complete" /\ Fault
    /\ Fail(t, "internal")
    /\ UNCHANGED <<disk, reported, up, req, staged, landed>>

Return(t) ==
    /\ pc[t] = "return"
    /\ Leave(t, "answered", "applied")
    /\ UNCHANGED <<disk, reported, up, req, staged, landed, spent>>

(* recorder.fail, after the lock is released.  Its own failure is only     *)
(* logged; a dry run records nothing.                                      *)
RecordFailure(t) ==
    /\ pc[t] = "failing"
    /\ Goto(t, "answered")
    /\ \/ /\ failed' = IF req[t].dry THEN failed ELSE failed \union {t}
          /\ UNCHANGED spent
       \/ Fault /\ ~req[t].dry /\ UNCHANGED failed
    /\ UNCHANGED <<files, temps, row, reported, up, lock, req, seen, staged, landed,
                   ans, raced>>

-----------------------------------------------------------------------------
(* The daemon dies and starts again; other programs write the same files.  *)

(* Every call in flight dies unanswered; files, temp files and journal     *)
(* stay as they are.                                                       *)
Crash ==
    /\ up /\ spent["crash"] < MaxCrashes
    /\ spent' = [spent EXCEPT !["crash"] = @ + 1]
    /\ up' = FALSE /\ lock' = Free
    /\ pc' = [t \in Txns |-> IF pc[t] \in {"idle", "answered"} THEN pc[t] ELSE "lost"]
    /\ seen' = [t \in Txns |-> NoBufs]
    /\ raced' = [t \in Txns |-> {}]
    /\ UNCHANGED <<disk, reported, req, staged, landed, ans>>

(* Mutant: the startup scan looks for failure rows.                        *)
RestartBlind ==
    /\ ~up /\ up' = TRUE
    /\ reported' = failed
    /\ UNCHANGED <<disk, lock, pc, req, seen, staged, landed, ans, raced, spent>>

(* build_app opens the journal and logs what scan_pending returns.         *)
Restart ==
    /\ ~up /\ up' = TRUE
    /\ reported' = {t \in Txns : row[t] = "pending"}
    /\ UNCHANGED <<disk, lock, pc, req, seen, staged, landed, ans, raced, spent>>

(* A human, git or another program writes or removes a file.               *)
External ==
    /\ spent["external"] < MaxExternal
    /\ RacingWriters \/ lock = Free
    /\ spent' = [spent EXCEPT !["external"] = @ + 1]
    /\ \E p \in Paths, c \in OnDisk :
         /\ files' = [files EXCEPT ![p] = c]
         /\ raced' = [t \in Txns |-> IF seen[t][p] # None THEN raced[t] \union {p}
                                                         ELSE raced[t]]
    /\ UNCHANGED <<temps, row, failed, reported, up, lock, pc, req, seen, staged,
                   landed, ans>>

-----------------------------------------------------------------------------

(* What a call does when nothing goes wrong around it, and what it owes    *)
(* its caller once it holds the lock.                                      *)
Proceed(t) ==
    \/ Acquire(t) \/ Verify(t) \/ Conflict(t) \/ StartOps(t) \/ RunOps(t)
    \/ DryRun(t) \/ Refuse(t) \/ Stage(t) \/ StartBegin(t) \/ Begin(t) \/ Promote(t)
    \/ Unlink(t) \/ StartComplete(t) \/ Complete(t) \/ Return(t)
    \/ RecordFailure(t)

Hurdle(t) ==
    \/ RefuseEarly(t) \/ StageFails(t) \/ BeginFails(t) \/ PromoteFails(t)
    \/ CompleteFails(t)

Next ==
    \/ \E t \in Txns : Submit(t) \/ Proceed(t) \/ Hurdle(t)
    \/ Crash \/ Restart \/ External

Spec == Init /\ [][Next]_vars

(* A blocking thread runs until it returns; a service manager restarts the *)
(* daemon.  Nothing obliges callers, faults, crashes or external writers.  *)
Fairness == WF_vars(Restart) /\ \A t \in Txns : WF_vars(Proceed(t))

FairSpec == Spec /\ Fairness

-----------------------------------------------------------------------------
(* Properties.                                                             *)

(* Every variable keeps its type.                                          *)
TypeOK ==
    /\ files \in [Paths -> OnDisk]
    /\ temps \subseteq Txns \X Paths
    /\ row \in [Txns -> Rows]
    /\ failed \subseteq Txns /\ reported \subseteq Txns
    /\ up \in BOOLEAN
    /\ lock \in Txns \union {Free}
    /\ pc \in [Txns -> Steps]
    /\ req \in [Txns -> Request \union {None}]
    /\ seen \in [Txns -> [Paths -> OnDisk \union {None}]]
    /\ staged \in [Txns -> SUBSET Paths]
    /\ landed \in [Txns -> SUBSET Paths]
    /\ ans \in [Txns -> Answers]
    /\ raced \in [Txns -> SUBSET Paths]
    /\ spent \in [Accidents -> Nat]

(* From the verification of a base to the rename, a file only changes      *)
(* under a call through an external writer: the module comment of txn.rs   *)
(* promises that two calls with one base cannot both win.                  *)
InFlight == {"verify", "ops", "stage", "begin", "promote", "complete", "return"}
BaseHolds ==
    \A t \in Txns : pc[t] \in InFlight =>
        \A p \in Paths : seen[t][p] # None =>
            \/ p \in landed[t] \/ p \in raced[t]
            \/ files[p] = seen[t][p]

(* A call replaces exactly the version its caller declared, or a version   *)
(* it was told it may overwrite, unless an external writer came between.   *)
NoLostUpdate ==
    [][\A t \in Txns : \A p \in landed'[t] \ landed[t] :
          \/ p \in raced[t]
          \/ files[p] = req[t].base[p]
          \/ /\ req[t].base[p] = None
             /\ files[p] = Absent \/ p \in req[t].overwrite]_vars

(* A call that changed a file has a journal row: whatever happens next,    *)
(* the startup scan or the journal query can find it.                      *)
WriteAhead == \A t \in Txns : landed[t] # {} => row[t] # "none"

(* A row the journal calls `applied` stands for a call all of whose        *)
(* renames and unlinks landed (history.rs, "every rename landed"), with    *)
(* the content its ops asked for while it still holds the lock.            *)
AppliedIsWhole ==
    \A t \in Txns : row[t] = "complete" =>
        /\ landed[t] = Touched(t)
        /\ pc[t] = "return" =>
             \A p \in Touched(t) : files[p] = req[t].want[p] \/ p \in raced[t]

(* After a restart, every call a crash cut between its first and its last  *)
(* file is in the startup report.                                          *)
TornIsReported ==
    up => \A t \in Txns :
        (pc[t] = "lost" /\ landed[t] # {} /\ landed[t] # Touched(t)) => t \in reported

(* A call that ends before its journal row exists has discarded every temp *)
(* file it had staged and changed nothing.                                 *)
AbortDiscardsStaged ==
    \A t \in Txns : (ans[t] # "none" /\ row[t] = "none") =>
        landed[t] = {} /\ TempsOf(t) \intersect staged[t] = {}

(* Every call that got in is answered, or dies with the daemon: no path    *)
(* through the engine keeps the transaction lock.                          *)
EveryCallAnswered ==
    \A t \in Txns : pc[t] = "waiting" ~> pc[t] \in {"answered", "lost"}

-----------------------------------------------------------------------------
(* Why they hold: the inductive invariant of EditTxn_proofs.               *)

BeforeRow == {"idle", "waiting", "verify", "ops", "stage", "begin"}
OpsDone   == {"stage", "begin", "promote", "complete", "return"}
AllStaged == {"begin", "promote", "complete", "return"}

(* The lock is held by the one call that is between load and return.       *)
LockInv(t) ==
    /\ pc[t] = "idle" => req[t] = None
    /\ pc[t] # "idle" => req[t] \in Request
    /\ pc[t] \in InFlight <=> lock = t
    /\ pc[t] \in OpsDone => ~req[t].dry

(* A buffer holds the version its caller declared or accepted, and nobody  *)
(* but an external writer changes the file before the call itself does.    *)
BufferInv(t) ==
    /\ pc[t] \notin InFlight => seen[t] = NoBufs
    /\ \A p \in Paths : seen[t][p] # None =>
         \/ seen[t][p] = req[t].base[p]
         \/ req[t].base[p] = None /\ (seen[t][p] = Absent \/ p \in req[t].overwrite)
    /\ pc[t] \in OpsDone \union {"ops"} => \A p \in Declared(t) : seen[t][p] # None
    /\ pc[t] \in OpsDone => \A p \in Touched(t) : seen[t][p] # None
    /\ pc[t] \in InFlight => \A p \in Paths : seen[t][p] # None =>
         \/ p \in landed[t] \/ p \in raced[t] \/ files[p] = seen[t][p]

(* What has been staged, and what is left of it.                           *)
StagedInv(t) ==
    /\ \A p \in staged[t] : p \in Written(t)
    /\ pc[t] \in BeforeRow \ {"stage", "begin"} => staged[t] = {}
    /\ pc[t] \in AllStaged => staged[t] = Written(t)
    /\ ans[t] # "none" => pc[t] \in {"failing", "answered", "lost"}
    /\ ans[t] # "none" /\ row[t] = "none" => TempsOf(t) \intersect staged[t] = {}

(* How far the journal row and the files have come together.               *)
LandedInv(t) ==
    /\ \A p \in landed[t] : p \in Touched(t)
    /\ row[t] = "none" => landed[t] = {}
    /\ row[t] = "complete" \/ pc[t] = "complete" => landed[t] = Touched(t)
    /\ pc[t] \in BeforeRow => row[t] = "none"
    /\ pc[t] \in {"promote", "complete"} => row[t] = "pending"
    /\ pc[t] = "return" => row[t] = "complete"
    /\ pc[t] \in InFlight => \A p \in landed[t] :
         files[p] = req[t].want[p] \/ p \in raced[t]
    /\ up /\ pc[t] = "lost" /\ row[t] = "pending" => t \in reported

IInv ==
    /\ TypeOK
    /\ \A t \in Txns : LockInv(t) /\ BufferInv(t) /\ StagedInv(t) /\ LandedInv(t)

-----------------------------------------------------------------------------
(* What a caller may think of it: AtomicEdit.  A call takes effect when    *)
(* its row is complete, or, torn, when it gives up the lock with its row   *)
(* pending; until then the files it has renamed still count as they were.  *)

Half(p) == lock # Free /\ row[lock] = "pending" /\ p \in landed[lock]

Store == [p \in Paths |-> IF Half(p) THEN seen[lock][p] ELSE files[p]]

Fate == [t \in Txns |->
    CASE row[t] = "complete" -> "applied"
      [] row[t] = "pending" /\ lock # t -> "torn"
      [] row[t] = "none" /\ ans[t] # "none" -> "refused"
      [] OTHER -> "open"]

Atomic == INSTANCE AtomicEdit WITH store <- Store, fate <- Fate

(* The engine implements AtomicEdit when external writers keep out of the  *)
(* calls: two calls never mix, an applied one happened at a single point   *)
(* against the versions it declared, and only a torn one may be partial.   *)
ImplementsAtomic == Atomic!Spec

-----------------------------------------------------------------------------
(* What the documentation says and the code does not do.                   *)

(* mcp-contract.md: "any failure rolls back the whole set".                *)
FailureRollsBack ==
    \A t \in Txns : ans[t] \in {"refused", "conflict", "internal"} => landed[t] = {}
=============================================================================
