--------------------------- MODULE EditTxn_proofs ---------------------------
(***************************************************************************)
(* What holds of the transaction protocol for every number of calls, files *)
(* and contents, every set of requests and every bound on the accidents.   *)
(* The argument is one inductive invariant, IInv: TypeOK and four facts    *)
(* about each call, on the lock, its buffers, its temp files and its       *)
(* journal row.  Each has a lemma with one step per action.                *)
(***************************************************************************)
EXTENDS EditTxn, TLAPS

(* The types: Promote writes a content because only what the ops leave with *)
(* content is staged.                                                      *)
LEMMA TypeStep == IInv /\ Next => TypeOK'
<1> SUFFICES ASSUME IInv, Next PROVE TypeOK'
  OBVIOUS
<1> USE DEF IInv, TypeOK, disk
<1>1. ASSUME NEW t \in Txns, Submit(t) PROVE TypeOK'
  BY <1>1, RequestAssumption DEF Submit, Goto, Steps
<1>2. ASSUME NEW t \in Txns, NEW s \in Steps, NEW a \in Answers, Leave(t, s, a)
      PROVE /\ pc' \in [Txns -> Steps] /\ ans' \in [Txns -> Answers]
            /\ lock' \in Txns \union {Free}
            /\ seen' \in [Txns -> [Paths -> OnDisk \union {None}]]
            /\ raced' \in [Txns -> SUBSET Paths]
  BY <1>2 DEF Leave, Goto, NoBufs
<1>3. {"failing", "answered"} \subseteq Steps
      /\ {"refused", "conflict", "internal", "dry", "applied"} \subseteq Answers
  BY DEF Steps, Answers
<1>4. Fault => spent' \in [Accidents -> Nat]
  BY DEF Fault, Accidents
<1>5. ASSUME NEW t \in Txns, Proceed(t) PROVE TypeOK'
  <2>1. CASE Acquire(t)
    BY <2>1 DEF Acquire, Goto, Steps
  <2>2. CASE Verify(t)
    BY <2>2 DEF Verify, Declared
  <2>3. CASE Conflict(t)
    BY <2>3, <1>2, <1>3 DEF Conflict, Fail
  <2>4. CASE StartOps(t)
    BY <2>4 DEF StartOps, Goto, Steps
  <2>5. CASE RunOps(t)
    BY <2>5 DEF RunOps, Goto, Steps
  <2>6. CASE DryRun(t)
    BY <2>6, <1>2, <1>3 DEF DryRun
  <2>7. CASE Refuse(t)
    BY <2>7, <1>2, <1>3 DEF Refuse, Fail
  <2>8. CASE Stage(t)
    BY <2>8 DEF Stage, Written, Touched
  <2>9. CASE StartBegin(t)
    BY <2>9 DEF StartBegin, Goto, Steps
  <2>10. CASE Begin(t)
    BY <2>10 DEF Begin, Goto, Steps, Rows
  <2>11. CASE Promote(t)
    <3>1. req[t] \in Request /\ \A p \in staged[t] : p \in Written(t)
      BY <2>11 DEF Promote, LockInv, StagedInv
    <3>2. \A p \in staged[t] : p \in Paths /\ req[t].want[p] \in OnDisk
      BY <3>1 DEF Request, Written, Touched
    <3>. QED
      BY <2>11, <3>2 DEF Promote
  <2>12. CASE Unlink(t)
    BY <2>12 DEF Unlink, Deleted, Touched, OnDisk
  <2>13. CASE StartComplete(t)
    BY <2>13 DEF StartComplete, Goto, Steps
  <2>14. CASE Complete(t)
    BY <2>14 DEF Complete, Goto, Steps, Rows
  <2>15. CASE Return(t)
    BY <2>15, <1>2, <1>3 DEF Return
  <2>16. CASE RecordFailure(t)
    BY <2>16, <1>4 DEF RecordFailure, Goto, Steps
  <2>. QED
    BY <1>5, <2>1, <2>2, <2>3, <2>4, <2>5, <2>6, <2>7, <2>8, <2>9, <2>10, <2>11,
       <2>12, <2>13, <2>14, <2>15, <2>16 DEF Proceed
<1>6. ASSUME NEW t \in Txns, Hurdle(t) PROVE TypeOK'
  <2>1. CASE RefuseEarly(t)
    BY <2>1, <1>2, <1>3 DEF RefuseEarly, Fail
  <2>2. CASE StageFails(t)
    BY <2>2, <1>2, <1>3, <1>4 DEF StageFails, Fail, Written, Touched
  <2>3. CASE BeginFails(t)
    BY <2>3, <1>2, <1>3, <1>4 DEF BeginFails, Fail
  <2>4. CASE PromoteFails(t)
    <3>1. req[t] \in Request /\ \A p \in staged[t] : p \in Written(t)
      BY <2>4 DEF PromoteFails, LockInv, StagedInv
    <3>2. \A p \in staged[t] : p \in Paths /\ req[t].want[p] \in OnDisk
      BY <3>1 DEF Request, Written, Touched
    <3>3. /\ files' \in [Paths -> OnDisk] /\ temps' \subseteq Txns \X Paths
          /\ landed' \in [Txns -> SUBSET Paths]
      <4>1. CASE UNCHANGED <<files, temps, landed>>
        BY <4>1
      <4>2. ASSUME NEW p \in staged[t],
                   files' = [files EXCEPT ![p] = req[t].want[p]],
                   temps' = temps \ {<<t, p>>},
                   landed' = [landed EXCEPT ![t] = @ \union {p}]
            PROVE  /\ files' \in [Paths -> OnDisk] /\ temps' \subseteq Txns \X Paths
                   /\ landed' \in [Txns -> SUBSET Paths]
        BY <4>2, <3>2
      <4>. QED
        BY <2>4, <4>1, <4>2 DEF PromoteFails
    <3>. QED
      BY <2>4, <3>3, <1>2, <1>3, <1>4 DEF PromoteFails, Fail
  <2>5. CASE CompleteFails(t)
    BY <2>5, <1>2, <1>3, <1>4 DEF CompleteFails, Fail
  <2>. QED
    BY <1>6, <2>1, <2>2, <2>3, <2>4, <2>5 DEF Hurdle
<1>7. CASE Crash
  <2>1. pc' \in [Txns -> Steps]
    BY <1>7 DEF Crash, Steps
  <2>2. seen' \in [Txns -> [Paths -> OnDisk \union {None}]]
    BY <1>7 DEF Crash, NoBufs
  <2>3. spent' \in [Accidents -> Nat] /\ raced' \in [Txns -> SUBSET Paths]
    BY <1>7 DEF Crash, Accidents
  <2>. QED
    BY <1>7, <2>1, <2>2, <2>3 DEF Crash
<1>8. CASE Restart
  BY <1>8 DEF Restart
<1>9. CASE External
  BY <1>9 DEF External, Accidents
<1>. QED
  BY <1>1, <1>5, <1>6, <1>7, <1>8, <1>9 DEF Next

(* The lock: only Acquire takes it, and only from Free; leaving apply_inner *)
(* in any way gives it back.                                               *)
LEMMA LockStep == IInv /\ Next => \A u \in Txns : LockInv(u)'
<1> SUFFICES ASSUME IInv, Next, NEW u \in Txns PROVE LockInv(u)'
  OBVIOUS
<1> USE SentinelAssumption DEF IInv, TypeOK, disk, LockInv, InFlight, OpsDone
<1>1. ASSUME NEW t \in Txns, Submit(t) PROVE LockInv(u)'
  BY <1>1, RequestAssumption DEF Submit, Goto
<1>2. ASSUME NEW t \in Txns, Acquire(t) PROVE LockInv(u)'
  BY <1>2 DEF Acquire, Goto
<1>3. ASSUME NEW t \in Txns, Verify(t) PROVE LockInv(u)'
  BY <1>3 DEF Verify
<1>4. ASSUME NEW t \in Txns, Conflict(t) PROVE LockInv(u)'
  BY <1>4 DEF Conflict, Leave, Goto, Fail
<1>5. ASSUME NEW t \in Txns, StartOps(t) PROVE LockInv(u)'
  BY <1>5 DEF StartOps, Goto
<1>6. ASSUME NEW t \in Txns, RunOps(t) PROVE LockInv(u)'
  BY <1>6 DEF RunOps, Goto, Undeclared, Creatable
<1>7. ASSUME NEW t \in Txns, DryRun(t) PROVE LockInv(u)'
  BY <1>7 DEF DryRun, Leave, Goto
<1>8. ASSUME NEW t \in Txns, Refuse(t) PROVE LockInv(u)'
  BY <1>8 DEF Refuse, Leave, Goto, Fail
<1>9. ASSUME NEW t \in Txns, Stage(t) PROVE LockInv(u)'
  BY <1>9 DEF Stage
<1>10. ASSUME NEW t \in Txns, StartBegin(t) PROVE LockInv(u)'
  BY <1>10 DEF StartBegin, Goto
<1>11. ASSUME NEW t \in Txns, Begin(t) PROVE LockInv(u)'
  BY <1>11 DEF Begin, Goto
<1>12. ASSUME NEW t \in Txns, Promote(t) PROVE LockInv(u)'
  BY <1>12 DEF Promote
<1>13. ASSUME NEW t \in Txns, Unlink(t) PROVE LockInv(u)'
  BY <1>13 DEF Unlink
<1>14. ASSUME NEW t \in Txns, StartComplete(t) PROVE LockInv(u)'
  BY <1>14 DEF StartComplete, Goto
<1>15. ASSUME NEW t \in Txns, Complete(t) PROVE LockInv(u)'
  BY <1>15 DEF Complete, Goto
<1>16. ASSUME NEW t \in Txns, Return(t) PROVE LockInv(u)'
  BY <1>16 DEF Return, Leave, Goto
<1>17. ASSUME NEW t \in Txns, RecordFailure(t) PROVE LockInv(u)'
  BY <1>17 DEF RecordFailure, Goto, Fault
<1>18. ASSUME NEW t \in Txns, RefuseEarly(t) PROVE LockInv(u)'
  BY <1>18 DEF RefuseEarly, Leave, Goto, Fail
<1>19. ASSUME NEW t \in Txns, StageFails(t) PROVE LockInv(u)'
  BY <1>19 DEF StageFails, Leave, Goto, Fail, Fault
<1>20. ASSUME NEW t \in Txns, BeginFails(t) PROVE LockInv(u)'
  BY <1>20 DEF BeginFails, Leave, Goto, Fail, Fault
<1>21. ASSUME NEW t \in Txns, PromoteFails(t) PROVE LockInv(u)'
  BY <1>21 DEF PromoteFails, Leave, Goto, Fail, Fault
<1>22. ASSUME NEW t \in Txns, CompleteFails(t) PROVE LockInv(u)'
  BY <1>22 DEF CompleteFails, Leave, Goto, Fail, Fault
<1>23. CASE Crash
  BY <1>23 DEF Crash
<1>24. CASE Restart
  BY <1>24 DEF Restart
<1>25. CASE External
  BY <1>25 DEF External
<1>. QED
  BY <1>1, <1>2, <1>3, <1>4, <1>5, <1>6, <1>7, <1>8, <1>9, <1>10, <1>11,
     <1>12, <1>13, <1>14, <1>15, <1>16, <1>17, <1>18, <1>19, <1>20, <1>21,
     <1>22, <1>23, <1>24, <1>25 DEF Next, Proceed, Hurdle

(* The buffers: filled under the lock from the files themselves, and the    *)
(* lock keeps every other call away from the files.                        *)
LEMMA BufferStep == IInv /\ Next => \A u \in Txns : BufferInv(u)'
<1> SUFFICES ASSUME IInv, Next, NEW u \in Txns PROVE BufferInv(u)'
  OBVIOUS
<1> USE SentinelAssumption DEF IInv, TypeOK, disk, BufferInv, LockInv,
      InFlight, OpsDone, Declared, Touched, Written, Deleted, NoBufs, OnDisk
<1>1. ASSUME NEW t \in Txns, Submit(t) PROVE BufferInv(u)'
  BY <1>1 DEF Submit, Goto
<1>2. ASSUME NEW t \in Txns, Acquire(t) PROVE BufferInv(u)'
  BY <1>2 DEF Acquire, Goto
<1>3. ASSUME NEW t \in Txns, Verify(t) PROVE BufferInv(u)'
  BY <1>3 DEF Verify
<1>4. ASSUME NEW t \in Txns, Conflict(t) PROVE BufferInv(u)'
  BY <1>4 DEF Conflict, Leave, Goto, Fail
<1>5. ASSUME NEW t \in Txns, StartOps(t) PROVE BufferInv(u)'
  BY <1>5 DEF StartOps, Goto
<1>6. ASSUME NEW t \in Txns, RunOps(t) PROVE BufferInv(u)'
  BY <1>6 DEF RunOps, Goto, Undeclared, Creatable
<1>7. ASSUME NEW t \in Txns, DryRun(t) PROVE BufferInv(u)'
  BY <1>7 DEF DryRun, Leave, Goto
<1>8. ASSUME NEW t \in Txns, Refuse(t) PROVE BufferInv(u)'
  BY <1>8 DEF Refuse, Leave, Goto, Fail
<1>9. ASSUME NEW t \in Txns, Stage(t) PROVE BufferInv(u)'
  BY <1>9 DEF Stage
<1>10. ASSUME NEW t \in Txns, StartBegin(t) PROVE BufferInv(u)'
  BY <1>10 DEF StartBegin, Goto
<1>11. ASSUME NEW t \in Txns, Begin(t) PROVE BufferInv(u)'
  BY <1>11 DEF Begin, Goto
<1>12. ASSUME NEW t \in Txns, Promote(t) PROVE BufferInv(u)'
  BY <1>12 DEF Promote, StagedInv, AllStaged
<1>13. ASSUME NEW t \in Txns, Unlink(t) PROVE BufferInv(u)'
  BY <1>13 DEF Unlink, StagedInv, AllStaged
<1>14. ASSUME NEW t \in Txns, StartComplete(t) PROVE BufferInv(u)'
  BY <1>14 DEF StartComplete, Goto
<1>15. ASSUME NEW t \in Txns, Complete(t) PROVE BufferInv(u)'
  BY <1>15 DEF Complete, Goto
<1>16. ASSUME NEW t \in Txns, Return(t) PROVE BufferInv(u)'
  BY <1>16 DEF Return, Leave, Goto
<1>17. ASSUME NEW t \in Txns, RecordFailure(t) PROVE BufferInv(u)'
  BY <1>17 DEF RecordFailure, Goto, Fault
<1>18. ASSUME NEW t \in Txns, RefuseEarly(t) PROVE BufferInv(u)'
  BY <1>18 DEF RefuseEarly, Leave, Goto, Fail
<1>19. ASSUME NEW t \in Txns, StageFails(t) PROVE BufferInv(u)'
  BY <1>19 DEF StageFails, Leave, Goto, Fail, Fault
<1>20. ASSUME NEW t \in Txns, BeginFails(t) PROVE BufferInv(u)'
  BY <1>20 DEF BeginFails, Leave, Goto, Fail, Fault
<1>21. ASSUME NEW t \in Txns, PromoteFails(t) PROVE BufferInv(u)'
  BY <1>21 DEF PromoteFails, Leave, Goto, Fail, Fault, StagedInv, AllStaged
<1>22. ASSUME NEW t \in Txns, CompleteFails(t) PROVE BufferInv(u)'
  BY <1>22 DEF CompleteFails, Leave, Goto, Fail, Fault
<1>23. CASE Crash
  BY <1>23 DEF Crash
<1>24. CASE Restart
  BY <1>24 DEF Restart
<1>25. CASE External
  BY <1>25 DEF External
<1>. QED
  BY <1>1, <1>2, <1>3, <1>4, <1>5, <1>6, <1>7, <1>8, <1>9, <1>10, <1>11,
     <1>12, <1>13, <1>14, <1>15, <1>16, <1>17, <1>18, <1>19, <1>20, <1>21,
     <1>22, <1>23, <1>24, <1>25 DEF Next, Proceed, Hurdle

(* The temp files: a call stages only what it writes, and discards what it  *)
(* staged whenever it fails before its row.                                *)
LEMMA StagedStep == IInv /\ Next => \A u \in Txns : StagedInv(u)'
<1> SUFFICES ASSUME IInv, Next, NEW u \in Txns PROVE StagedInv(u)'
  OBVIOUS
<1> USE SentinelAssumption DEF IInv, TypeOK, disk, StagedInv, LockInv,
      LandedInv, BeforeRow, AllStaged, InFlight, Touched, Written, TempsOf
<1>1. ASSUME NEW t \in Txns, Submit(t) PROVE StagedInv(u)'
  BY <1>1 DEF Submit, Goto
<1>2. ASSUME NEW t \in Txns, Acquire(t) PROVE StagedInv(u)'
  BY <1>2 DEF Acquire, Goto
<1>3. ASSUME NEW t \in Txns, Verify(t) PROVE StagedInv(u)'
  BY <1>3 DEF Verify
<1>4. ASSUME NEW t \in Txns, Conflict(t) PROVE StagedInv(u)'
  BY <1>4 DEF Conflict, Leave, Goto, Fail
<1>5. ASSUME NEW t \in Txns, StartOps(t) PROVE StagedInv(u)'
  BY <1>5 DEF StartOps, Goto
<1>6. ASSUME NEW t \in Txns, RunOps(t) PROVE StagedInv(u)'
  BY <1>6 DEF RunOps, Goto, Undeclared, Creatable
<1>7. ASSUME NEW t \in Txns, DryRun(t) PROVE StagedInv(u)'
  BY <1>7 DEF DryRun, Leave, Goto
<1>8. ASSUME NEW t \in Txns, Refuse(t) PROVE StagedInv(u)'
  BY <1>8 DEF Refuse, Leave, Goto, Fail
<1>9. ASSUME NEW t \in Txns, Stage(t) PROVE StagedInv(u)'
  BY <1>9 DEF Stage
<1>10. ASSUME NEW t \in Txns, StartBegin(t) PROVE StagedInv(u)'
  BY <1>10 DEF StartBegin, Goto
<1>11. ASSUME NEW t \in Txns, Begin(t) PROVE StagedInv(u)'
  BY <1>11 DEF Begin, Goto
<1>12. ASSUME NEW t \in Txns, Promote(t) PROVE StagedInv(u)'
  BY <1>12 DEF Promote
<1>13. ASSUME NEW t \in Txns, Unlink(t) PROVE StagedInv(u)'
  BY <1>13 DEF Unlink
<1>14. ASSUME NEW t \in Txns, StartComplete(t) PROVE StagedInv(u)'
  BY <1>14 DEF StartComplete, Goto
<1>15. ASSUME NEW t \in Txns, Complete(t) PROVE StagedInv(u)'
  BY <1>15 DEF Complete, Goto
<1>16. ASSUME NEW t \in Txns, Return(t) PROVE StagedInv(u)'
  BY <1>16 DEF Return, Leave, Goto
<1>17. ASSUME NEW t \in Txns, RecordFailure(t) PROVE StagedInv(u)'
  BY <1>17 DEF RecordFailure, Goto, Fault
<1>18. ASSUME NEW t \in Txns, RefuseEarly(t) PROVE StagedInv(u)'
  BY <1>18 DEF RefuseEarly, Leave, Goto, Fail
<1>19. ASSUME NEW t \in Txns, StageFails(t) PROVE StagedInv(u)'
  BY <1>19 DEF StageFails, Leave, Goto, Fail, Fault
<1>20. ASSUME NEW t \in Txns, BeginFails(t) PROVE StagedInv(u)'
  BY <1>20 DEF BeginFails, Leave, Goto, Fail, Fault
<1>21. ASSUME NEW t \in Txns, PromoteFails(t) PROVE StagedInv(u)'
  BY <1>21 DEF PromoteFails, Leave, Goto, Fail, Fault
<1>22. ASSUME NEW t \in Txns, CompleteFails(t) PROVE StagedInv(u)'
  BY <1>22 DEF CompleteFails, Leave, Goto, Fail, Fault
<1>23. CASE Crash
  BY <1>23 DEF Crash
<1>24. CASE Restart
  BY <1>24 DEF Restart
<1>25. CASE External
  BY <1>25 DEF External
<1>. QED
  BY <1>1, <1>2, <1>3, <1>4, <1>5, <1>6, <1>7, <1>8, <1>9, <1>10, <1>11,
     <1>12, <1>13, <1>14, <1>15, <1>16, <1>17, <1>18, <1>19, <1>20, <1>21,
     <1>22, <1>23, <1>24, <1>25 DEF Next, Proceed, Hurdle

(* The journal row and the files: pending before the first rename, complete *)
(* only after the last unlink.                                             *)
LEMMA LandedStep == IInv /\ Next => \A u \in Txns : LandedInv(u)'
<1> SUFFICES ASSUME IInv, Next, NEW u \in Txns PROVE LandedInv(u)'
  OBVIOUS
<1> USE SentinelAssumption DEF IInv, TypeOK, disk, LandedInv, StagedInv,
      BufferInv, LockInv, InFlight, BeforeRow, OpsDone, AllStaged, Touched,
      Written, Deleted, OnDisk
<1>1. ASSUME NEW t \in Txns, Submit(t) PROVE LandedInv(u)'
  BY <1>1 DEF Submit, Goto
<1>2. ASSUME NEW t \in Txns, Acquire(t) PROVE LandedInv(u)'
  BY <1>2 DEF Acquire, Goto
<1>3. ASSUME NEW t \in Txns, Verify(t) PROVE LandedInv(u)'
  BY <1>3 DEF Verify
<1>4. ASSUME NEW t \in Txns, Conflict(t) PROVE LandedInv(u)'
  BY <1>4 DEF Conflict, Leave, Goto, Fail
<1>5. ASSUME NEW t \in Txns, StartOps(t) PROVE LandedInv(u)'
  BY <1>5 DEF StartOps, Goto
<1>6. ASSUME NEW t \in Txns, RunOps(t) PROVE LandedInv(u)'
  BY <1>6 DEF RunOps, Goto, Undeclared, Creatable
<1>7. ASSUME NEW t \in Txns, DryRun(t) PROVE LandedInv(u)'
  BY <1>7 DEF DryRun, Leave, Goto
<1>8. ASSUME NEW t \in Txns, Refuse(t) PROVE LandedInv(u)'
  BY <1>8 DEF Refuse, Leave, Goto, Fail
<1>9. ASSUME NEW t \in Txns, Stage(t) PROVE LandedInv(u)'
  BY <1>9 DEF Stage
<1>10. ASSUME NEW t \in Txns, StartBegin(t) PROVE LandedInv(u)'
  BY <1>10 DEF StartBegin, Goto
<1>11. ASSUME NEW t \in Txns, Begin(t) PROVE LandedInv(u)'
  BY <1>11 DEF Begin, Goto
<1>12. ASSUME NEW t \in Txns, Promote(t) PROVE LandedInv(u)'
  BY <1>12 DEF Promote
<1>13. ASSUME NEW t \in Txns, Unlink(t) PROVE LandedInv(u)'
  BY <1>13 DEF Unlink
<1>14. ASSUME NEW t \in Txns, StartComplete(t) PROVE LandedInv(u)'
  BY <1>14 DEF StartComplete, Goto
<1>15. ASSUME NEW t \in Txns, Complete(t) PROVE LandedInv(u)'
  BY <1>15 DEF Complete, Goto
<1>16. ASSUME NEW t \in Txns, Return(t) PROVE LandedInv(u)'
  BY <1>16 DEF Return, Leave, Goto
<1>17. ASSUME NEW t \in Txns, RecordFailure(t) PROVE LandedInv(u)'
  BY <1>17 DEF RecordFailure, Goto, Fault
<1>18. ASSUME NEW t \in Txns, RefuseEarly(t) PROVE LandedInv(u)'
  BY <1>18 DEF RefuseEarly, Leave, Goto, Fail
<1>19. ASSUME NEW t \in Txns, StageFails(t) PROVE LandedInv(u)'
  BY <1>19 DEF StageFails, Leave, Goto, Fail, Fault
<1>20. ASSUME NEW t \in Txns, BeginFails(t) PROVE LandedInv(u)'
  BY <1>20 DEF BeginFails, Leave, Goto, Fail, Fault
<1>21. ASSUME NEW t \in Txns, PromoteFails(t) PROVE LandedInv(u)'
  BY <1>21 DEF PromoteFails, Leave, Goto, Fail, Fault
<1>22. ASSUME NEW t \in Txns, CompleteFails(t) PROVE LandedInv(u)'
  BY <1>22 DEF CompleteFails, Leave, Goto, Fail, Fault
<1>23. CASE Crash
  BY <1>23 DEF Crash
<1>24. CASE Restart
  BY <1>24 DEF Restart
<1>25. CASE External
  BY <1>25 DEF External
<1>. QED
  BY <1>1, <1>2, <1>3, <1>4, <1>5, <1>6, <1>7, <1>8, <1>9, <1>10, <1>11,
     <1>12, <1>13, <1>14, <1>15, <1>16, <1>17, <1>18, <1>19, <1>20, <1>21,
     <1>22, <1>23, <1>24, <1>25 DEF Next, Proceed, Hurdle

LEMMA Inductive == Spec => []IInv
<1>1. Init => IInv
  <2> SUFFICES ASSUME Init PROVE IInv
    OBVIOUS
  <2> USE SentinelAssumption DEF Init
  <2>1. TypeOK
    BY DEF TypeOK, OnDisk, Rows, Steps, Answers, Accidents, NoBufs
  <2>2. ASSUME NEW t \in Txns
        PROVE LockInv(t) /\ BufferInv(t) /\ StagedInv(t) /\ LandedInv(t)
    BY DEF LockInv, BufferInv, StagedInv, LandedInv, InFlight, OpsDone,
       BeforeRow, AllStaged, NoBufs
  <2>. QED
    BY <2>1, <2>2 DEF IInv
<1>2. IInv /\ [Next]_vars => IInv'
  <2>1. CASE Next
    BY <2>1, TypeStep, LockStep, BufferStep, StagedStep, LandedStep DEF IInv
  <2>2. CASE UNCHANGED vars
    BY <2>2 DEF vars, IInv, TypeOK, LockInv, BufferInv, StagedInv, LandedInv,
       Declared, Touched, Written, TempsOf
  <2>. QED
    BY <2>1, <2>2
<1>. QED
  BY <1>1, <1>2, PTL DEF Spec

(* Every variable keeps its type, whatever the callers ask for.            *)
THEOREM TypeCorrect == Spec => []TypeOK
<1>1. IInv => TypeOK
  BY DEF IInv
<1>. QED
  BY <1>1, Inductive, PTL

(* Between the load of a file and its rename only external writers change  *)
(* it: TXN_LOCK keeps any number of calls apart.                           *)
THEOREM BasesHold == Spec => []BaseHolds
<1>1. IInv => BaseHolds
  BY DEF IInv, BufferInv, BaseHolds
<1>. QED
  BY <1>1, Inductive, PTL

(* No file changes before the journal row of the call that changes it.     *)
THEOREM JournalIsAhead == Spec => []WriteAhead
<1>1. IInv => WriteAhead
  BY DEF IInv, LandedInv, WriteAhead
<1>. QED
  BY <1>1, Inductive, PTL

(* A row marked complete stands for a call all of whose files landed.      *)
THEOREM AppliedCallsAreWhole == Spec => []AppliedIsWhole
<1>1. IInv => AppliedIsWhole
  BY DEF IInv, LandedInv, AppliedIsWhole, InFlight
<1>. QED
  BY <1>1, Inductive, PTL

(* A crash between two files of a call is reported by the next startup.    *)
THEOREM TornCallsAreReported == Spec => []TornIsReported
<1>1. IInv => TornIsReported
  BY DEF IInv, LandedInv, TornIsReported, TypeOK, Rows
<1>. QED
  BY <1>1, Inductive, PTL

(* A call that fails before its row has discarded what it staged.          *)
THEOREM AbortsDiscard == Spec => []AbortDiscardsStaged
<1>1. IInv => AbortDiscardsStaged
  BY DEF IInv, LandedInv, StagedInv, AbortDiscardsStaged
<1>. QED
  BY <1>1, Inductive, PTL

(* A file a call loaded is, when the call reaches it, still what it loaded *)
(* unless an external writer came between.                                 *)
LEMMA UpdateStep ==
  ASSUME IInv, NEW t \in Txns, pc[t] = "promote",
         NEW p \in Touched(t), p \notin landed[t]
  PROVE  /\ seen[t][p] # None
         /\ p \in raced[t] \/ files[p] = seen[t][p]
         /\ \/ seen[t][p] = req[t].base[p]
            \/ /\ req[t].base[p] = None
               /\ seen[t][p] = Absent \/ p \in req[t].overwrite
BY DEF IInv, BufferInv, InFlight, OpsDone, Touched

(* No call overwrites a version it did not see: of two calls with one base *)
(* for one file, at most one gets to write.                                *)
THEOREM NoUpdateIsLost == Spec => NoLostUpdate
<1> DEFINE Fair(t, p) == \/ p \in raced[t]
                         \/ files[p] = req[t].base[p]
                         \/ /\ req[t].base[p] = None
                            /\ files[p] = Absent \/ p \in req[t].overwrite
<1>1. ASSUME IInv, Next, NEW t \in Txns, NEW p \in landed'[t] \ landed[t]
      PROVE  Fair(t, p)
  <2>1. pc[t] = "promote" /\ p \in Touched(t)
    <3> USE <1>1 DEF IInv, TypeOK, StagedInv, Written, Deleted
    <3>1. ASSUME NEW u \in Txns, Promote(u) \/ Unlink(u) \/ PromoteFails(u)
          PROVE  pc[t] = "promote" /\ p \in Touched(t)
      BY <3>1 DEF Promote, Unlink, PromoteFails
    <3>2. ASSUME NEW u \in Txns, Proceed(u), ~Promote(u), ~Unlink(u)
          PROVE  landed' = landed
      BY <3>2 DEF Proceed, Acquire, Verify, Conflict, StartOps, RunOps, DryRun, Refuse,
         Stage, StartBegin, Begin, StartComplete, Complete, Return, RecordFailure
    <3>3. ASSUME NEW u \in Txns, Hurdle(u), ~PromoteFails(u)
          PROVE  landed' = landed
      BY <3>3 DEF Hurdle, RefuseEarly, StageFails, BeginFails, CompleteFails
    <3>4. ASSUME \/ Crash \/ Restart \/ External \/ \E u \in Txns : Submit(u)
          PROVE  landed' = landed
      BY <3>4 DEF Crash, Restart, External, Submit
    <3>. QED
      BY <3>1, <3>2, <3>3, <3>4 DEF Next
  <2>. QED
    BY <1>1, <2>1, UpdateStep
<1>2. IInv /\ [Next]_vars
        => [\A t \in Txns : \A p \in landed'[t] \ landed[t] : Fair(t, p)]_vars
  BY <1>1
<1>. QED
  BY <1>2, Inductive, PTL DEF Spec, NoLostUpdate

-----------------------------------------------------------------------------
(* The engine implements AtomicEdit, for every number of calls and files,  *)
(* when external writers keep out of the calls.  Every action is a stutter *)
(* of AtomicEdit but those that decide a call: Complete applies it, a      *)
(* failure or a crash after the journal row tears it, every other way out  *)
(* refuses it.                                                             *)


Quiet == RacingWriters = FALSE /\ \A t \in Txns : raced[t] = {}

LEMMA QuietStep == IInv /\ Quiet /\ [Next]_vars => Quiet'
<1> SUFFICES ASSUME IInv, Quiet, [Next]_vars, NEW u \in Txns PROVE raced'[u] = {}
  BY DEF Quiet
<1> USE DEF IInv, TypeOK, Quiet, disk
<1>1. ASSUME NEW t \in Txns, Leave(t, pc'[t], ans'[t]) PROVE raced'[u] = {}
  BY <1>1 DEF Leave
<1>2. ASSUME NEW t \in Txns, Submit(t) \/ Proceed(t) \/ Hurdle(t)
      PROVE  raced'[u] = {}
  BY <1>2 DEF Submit, Proceed, Hurdle, Acquire, Verify, Conflict, StartOps, RunOps,
     DryRun, Refuse, Stage, StartBegin, Begin, Promote, Unlink, StartComplete,
     Complete, Return, RecordFailure, RefuseEarly, StageFails, BeginFails,
     PromoteFails, CompleteFails, Fail, Leave
<1>3. CASE Crash
  BY <1>3 DEF Crash
<1>4. CASE Restart
  BY <1>4 DEF Restart
<1>5. CASE External
  <2>1. lock = Free
    BY <1>5 DEF External
  <2>2. seen[u] = NoBufs
    BY <2>1, SentinelAssumption DEF LockInv, BufferInv
  <2>. QED
    BY <1>5, <2>2 DEF External, NoBufs
<1>6. CASE UNCHANGED vars
  BY <1>6 DEF vars
<1>. QED
  BY <1>2, <1>3, <1>4, <1>5, <1>6 DEF Next

(* Where the files of a call with a pending row stand.                     *)
LEMMA Standing ==
  ASSUME IInv, Quiet, NEW t \in Txns, lock = t, row[t] = "pending"
  PROVE  /\ req[t] \in Request /\ ~req[t].dry /\ ans[t] = "none"
         /\ \A p \in Paths : Store[p] = IF p \in landed[t] THEN seen[t][p] ELSE files[p]
         /\ \A p \in landed[t] : files[p] = req[t].want[p]
         /\ \A p \in Paths : seen[t][p] # None => Store[p] = seen[t][p]
         /\ landed[t] \subseteq Touched(t)
<1>1. pc[t] \in {"promote", "complete"}
  BY DEF IInv, LockInv, LandedInv, InFlight, BeforeRow
<1>. QED
  BY <1>1, SentinelAssumption DEF IInv, TypeOK, Quiet, LockInv, BufferInv, StagedInv,
     LandedInv, InFlight, OpsDone, Store, Half

(* Such a call fits the store AtomicEdit sees.                             *)
LEMMA Fitting ==
  ASSUME IInv, Quiet, NEW t \in Txns, lock = t, row[t] = "pending"
  PROVE  Atomic!Fits(t)
<1>1. pc[t] \in {"promote", "complete"}
  BY DEF IInv, LockInv, LandedInv, InFlight, BeforeRow
<1>2. ASSUME NEW p \in Paths, seen[t][p] # None
      PROVE  \/ req[t].base[p] = Store[p]
             \/ req[t].base[p] = None /\ (Store[p] = Absent \/ p \in req[t].overwrite)
  BY <1>2, Standing DEF IInv, BufferInv
<1>3. ASSUME NEW p \in Paths, seen[t][p] = None
      PROVE  req[t].base[p] = None /\ req[t].want[p] = None
  BY <1>1, <1>3 DEF IInv, BufferInv, OpsDone, Touched, Declared
<1>. QED
  BY <1>2, <1>3 DEF Atomic!Fits

-----------------------------------------------------------------------------
(* The steps that decide nothing.                                          *)

LEMMA Stutters ==
  ASSUME IInv, Quiet, NEW t \in Txns,
         \/ Acquire(t) \/ Verify(t) \/ StartOps(t) \/ RunOps(t) \/ Stage(t)
         \/ StartBegin(t) \/ Begin(t) \/ Promote(t) \/ Unlink(t)
         \/ StartComplete(t) \/ Return(t) \/ RecordFailure(t)
  PROVE  UNCHANGED <<Store, req, Fate>>
<1> USE SentinelAssumption DEF IInv, TypeOK, LockInv, disk
<1>1. CASE Acquire(t)
  <2>1. lock = Free /\ row[t] = "none"
    BY <1>1 DEF Acquire, LandedInv, BeforeRow
  <2>. QED
    BY <1>1, <2>1 DEF Acquire, Store, Half, Fate, Goto
<1>2. CASE Verify(t) \/ RunOps(t)
  <2>1. lock = t /\ row[t] = "none" /\ UNCHANGED <<files, lock, row, req, ans, landed>>
    BY <1>2 DEF Verify, RunOps, LandedInv, BeforeRow, InFlight
  <2>. QED
    BY <2>1 DEF Store, Half, Fate
<1>3. CASE StartOps(t) \/ Stage(t) \/ StartBegin(t) \/ StartComplete(t) \/ RecordFailure(t)
  BY <1>3 DEF StartOps, Stage, StartBegin, StartComplete, RecordFailure, Store, Half,
     Fate
<1>4. CASE Begin(t)
  <2>1. /\ lock = t /\ row[t] = "none" /\ row' = [row EXCEPT ![t] = "pending"]
        /\ landed[t] = {} /\ ans[t] = "none"
        /\ UNCHANGED <<files, lock, req, ans, landed, seen>>
    BY <1>4 DEF Begin, LandedInv, StagedInv, BeforeRow, InFlight
  <2>. QED
    BY <2>1 DEF Store, Half, Fate
<1>5. CASE Promote(t) \/ Unlink(t)
  <2>1. lock = t /\ row[t] = "pending"
    BY <1>5 DEF Promote, Unlink, LandedInv, InFlight
  <2>2. PICK p \in Touched(t) \ landed[t] :
          /\ landed' = [landed EXCEPT ![t] = @ \union {p}]
          /\ \A q \in Paths : q # p => files'[q] = files[q]
    <3>1. CASE Promote(t)
      <4>1. PICK p \in staged[t] \ landed[t] :
              /\ files' = [files EXCEPT ![p] = req[t].want[p]]
              /\ landed' = [landed EXCEPT ![t] = @ \union {p}]
        BY <3>1 DEF Promote
      <4>2. p \in Touched(t)
        BY DEF StagedInv, Written
      <4>. QED
        BY <4>1, <4>2
    <3>2. CASE Unlink(t)
      BY ZenonT(40), <3>2 DEF Unlink, Deleted
    <3>. QED
      BY <1>5, <3>1, <3>2
  <2>3. UNCHANGED <<lock, row, req, ans, seen>>
    BY <1>5 DEF Promote, Unlink
  <2>4. files[p] = seen[t][p]
    BY <1>5, UpdateStep DEF Promote, Unlink, Quiet
  <2>5. Store' = Store
    BY <2>1, <2>2, <2>3, <2>4 DEF Store, Half, Touched
  <2>. QED
    BY <2>3, <2>5 DEF Fate
<1>6. CASE Return(t)
  <2>1. /\ lock = t /\ lock' = Free /\ row[t] = "complete" /\ ans[t] = "none"
        /\ ans' = [ans EXCEPT ![t] = "applied"]
        /\ UNCHANGED <<files, row, req, landed>>
    BY <1>6 DEF Return, Leave, LandedInv, StagedInv, InFlight
  <2>. QED
    BY <2>1 DEF Store, Half, Fate
<1>. QED
  BY <1>1, <1>2, <1>3, <1>4, <1>5, <1>6

-----------------------------------------------------------------------------
(* The steps that decide a call.                                           *)

LEMMA Refusals ==
  ASSUME IInv, NEW t \in Txns,
         \/ RefuseEarly(t) \/ Conflict(t) \/ DryRun(t) \/ Refuse(t)
         \/ StageFails(t) \/ BeginFails(t)
  PROVE  Atomic!Refuse(t)
<1> USE SentinelAssumption DEF IInv, TypeOK, LockInv, disk
<1>1. /\ row[t] = "none" /\ ans[t] = "none" /\ req[t] # None
      /\ UNCHANGED <<files, row, req, landed>>
  <2>1. pc[t] \in BeforeRow \ {"idle"}
    BY DEF RefuseEarly, Conflict, DryRun, Refuse, StageFails, BeginFails, BeforeRow
  <2>2. UNCHANGED <<files, row, req, landed>>
    BY DEF RefuseEarly, Conflict, DryRun, Refuse, StageFails, BeginFails
  <2>. QED
    BY <2>1, <2>2 DEF LandedInv, StagedInv, BeforeRow
<1>2. PICK a \in Answers \ {"none"} : \E s \in Steps : Leave(t, s, a)
  BY DEF RefuseEarly, Conflict, DryRun, Refuse, StageFails, BeginFails, Fail, Answers,
     Steps
<1>3. Store' = Store
  BY <1>1, <1>2 DEF Leave, Store, Half
<1>4. Fate[t] = "open" /\ Fate' = [Fate EXCEPT ![t] = "refused"]
  <2>1. /\ ans' = [ans EXCEPT ![t] = a]
        /\ \A u \in Txns : u # t => (lock' = u <=> lock = u)
    BY <1>2 DEF Leave
  <2>2. \A u \in Txns \ {t} : Fate'[u] = Fate[u]
    BY <1>1, <2>1 DEF Fate
  <2>3. Fate[t] = "open" /\ Fate'[t] = "refused"
    BY <1>1, <2>1 DEF Fate
  <2>. QED
    BY ZenonT(40), <2>2, <2>3 DEF Fate
<1>. QED
  BY <1>1, <1>3, <1>4 DEF Atomic!Refuse, Atomic!Decide

LEMMA Applying ==
  ASSUME IInv, Quiet, NEW t \in Txns, Complete(t)
  PROVE  Atomic!Apply(t)
<1> USE SentinelAssumption DEF IInv, TypeOK, disk
<1>1. /\ lock = t /\ row[t] = "pending" /\ landed[t] = Touched(t)
      /\ row' = [row EXCEPT ![t] = "complete"]
      /\ UNCHANGED <<files, lock, req, ans, landed, seen>>
  BY DEF Complete, LockInv, LandedInv, InFlight
<1>2. Atomic!Fits(t) /\ ~req[t].dry /\ req[t] # None
  BY <1>1, Fitting, Standing
<1>3. Store' = Atomic!Overlay(t, Touched(t))
  <2>1. Store' = files
    BY <1>1 DEF Store, Half
  <2>2. \A p \in Paths : files[p] = IF p \in Touched(t) THEN req[t].want[p] ELSE Store[p]
    BY <1>1, Standing
  <2>. QED
    BY <2>1, <2>2 DEF Atomic!Overlay
<1>4. Fate[t] = "open" /\ Fate' = [Fate EXCEPT ![t] = "applied"]
  BY <1>1 DEF Fate
<1>5. Touched(t) = Atomic!Touched(t)
  BY DEF Touched, Atomic!Touched
<1>. QED
  BY <1>1, <1>2, <1>3, <1>4, <1>5 DEF Atomic!Apply, Atomic!Decide

(* A call that gives up the lock with its row pending is torn.             *)
LEMMA Tearing ==
  ASSUME IInv, Quiet, NEW t \in Txns, lock = t, lock' = Free, row[t] = "pending",
         UNCHANGED <<row, req>>, \A u \in Txns \ {t} : ans'[u] = ans[u],
         NEW S \in SUBSET Touched(t), landed[t] \subseteq S,
         \A p \in Paths : files'[p] = IF p \in S THEN req[t].want[p] ELSE files[p],
         files' \in [Paths -> OnDisk]
  PROVE  Atomic!Tear(t)
<1>1. Atomic!Fits(t) /\ ~req[t].dry /\ req[t] # None
  BY Fitting, Standing, SentinelAssumption
<1>2. Store' = Atomic!Overlay(t, S)
  BY Standing DEF Store, Half, Atomic!Overlay
<1>3. Fate[t] = "open" /\ Fate' = [Fate EXCEPT ![t] = "torn"]
  <2>1. \A u \in Txns \ {t} : Fate'[u] = Fate[u]
    BY SentinelAssumption DEF Fate
  <2>2. Fate[t] = "open" /\ Fate'[t] = "torn"
    BY Standing, SentinelAssumption DEF Fate
  <2>. QED
    BY ZenonT(40), <2>1, <2>2 DEF Fate
<1>4. Touched(t) = Atomic!Touched(t)
  BY DEF Touched, Atomic!Touched
<1>. QED
  BY <1>1, <1>2, <1>3, <1>4 DEF Atomic!Tear, Atomic!Decide

LEMMA Failures ==
  ASSUME IInv, IInv', Quiet, NEW t \in Txns, PromoteFails(t) \/ CompleteFails(t)
  PROVE  Atomic!Tear(t)
<1>1. /\ lock = t /\ row[t] = "pending" /\ lock' = Free
      /\ UNCHANGED <<row, req>> /\ \A u \in Txns \ {t} : ans'[u] = ans[u]
  BY DEF PromoteFails, CompleteFails, Fail, Leave, IInv, TypeOK, LockInv, LandedInv,
     InFlight, disk
<1>2. landed[t] \subseteq landed'[t] /\ landed'[t] \subseteq Touched(t)
  BY DEF PromoteFails, CompleteFails, IInv, TypeOK, StagedInv, LandedInv, Written, disk
<1>3. \A p \in Paths :
        files'[p] = IF p \in landed'[t] THEN req[t].want[p] ELSE files[p]
  <2>1. \A p \in landed[t] : files[p] = req[t].want[p]
    BY <1>1, Standing
  <2>. QED
    BY <2>1 DEF PromoteFails, CompleteFails, IInv, TypeOK, disk
<1>. QED
  BY <1>1, <1>2, <1>3, Tearing DEF IInv, TypeOK

LEMMA Crashes ==
  ASSUME IInv, Quiet, Crash
  PROVE  (\E t \in Txns : Atomic!Tear(t)) \/ UNCHANGED <<Store, req, Fate>>
<1> USE SentinelAssumption DEF Crash, IInv, TypeOK, disk
<1>1. CASE lock \in Txns /\ row[lock] = "pending"
  <2>1. landed[lock] \subseteq Touched(lock) /\ \A p \in landed[lock] : p \in Paths
    BY <1>1, Standing
  <2>2. \A p \in landed[lock] : files[p] = req[lock].want[p]
    BY <1>1, Standing
  <2>3. Atomic!Tear(lock)
    BY <1>1, <2>1, <2>2, Tearing
  <2>. QED
    BY <1>1, <2>3
<1>2. CASE lock = Free \/ row[lock] # "pending"
  <2>1. Store' = Store
    BY <1>2 DEF Store, Half
  <2>2. \A t \in Txns : Fate'[t] = Fate[t]
    BY <1>2 DEF Fate
  <2>. QED
    BY <2>1, <2>2 DEF Fate
<1>. QED
  BY <1>1, <1>2

LEMMA Outside ==
  ASSUME IInv, Quiet, External
  PROVE  Atomic!External
<1>1. lock = Free /\ UNCHANGED <<lock, req, row, ans>>
  BY DEF External, Quiet
<1>2. PICK p \in Paths, c \in OnDisk : files' = [files EXCEPT ![p] = c]
  BY DEF External
<1>3. Store' = [Store EXCEPT ![p] = c] /\ Fate' = Fate
  BY <1>1, <1>2 DEF IInv, TypeOK, Store, Half, Fate
<1>. QED
  BY <1>1, <1>2, <1>3 DEF Atomic!External, OnDisk, Atomic!OnDisk

LEMMA AtomicStep ==
  IInv /\ IInv' /\ Quiet /\ [Next]_vars => [Atomic!Next]_(Atomic!vars)
<1> SUFFICES ASSUME IInv, IInv', Quiet, Next
             PROVE  Atomic!Next \/ UNCHANGED <<Store, req, Fate>>
  <2>1. UNCHANGED vars => UNCHANGED <<Store, req, Fate>>
    BY DEF vars, Store, Half, Fate
  <2>. QED
    BY <2>1 DEF Atomic!vars
<1>1. ASSUME NEW t \in Txns, Submit(t) PROVE Atomic!Ask(t)
  <2>1. UNCHANGED <<Store, Fate>>
    BY <1>1 DEF Submit, Store, Half, Fate, disk
  <2>. QED
    BY <1>1, <2>1 DEF Submit, IInv, LockInv, Atomic!Ask
<1>2. ASSUME NEW t \in Txns, Proceed(t)
      PROVE  Atomic!Next \/ UNCHANGED <<Store, req, Fate>>
  BY <1>2, Stutters, Refusals, Applying DEF Proceed, Atomic!Next
<1>3. ASSUME NEW t \in Txns, Hurdle(t) PROVE Atomic!Next
  BY <1>3, Refusals, Failures DEF Hurdle, Atomic!Next
<1>4. Crash => Atomic!Next \/ UNCHANGED <<Store, req, Fate>>
  BY Crashes DEF Atomic!Next
<1>5. Restart => UNCHANGED <<Store, req, Fate>>
  BY DEF Restart, Store, Half, Fate, disk
<1>6. External => Atomic!Next
  BY Outside DEF Atomic!Next
<1>. QED
  BY <1>1, <1>2, <1>3, <1>4, <1>5, <1>6 DEF Next, Atomic!Next

(* With external writers kept out of the calls, any number of concurrent   *)
(* calls, faults and crashes looks to the callers like calls taking effect *)
(* one at a time, each against the versions it declared, the torn ones     *)
(* marked.                                                                 *)
THEOREM EngineIsAtomic == RacingWriters = FALSE /\ Spec => ImplementsAtomic
<1>1. Init => Atomic!Init
  <2> SUFFICES ASSUME Init PROVE Atomic!Init
    OBVIOUS
  <2>1. Store = files /\ Fate = [t \in Txns |-> "open"]
    BY DEF Init, Store, Half, Fate
  <2>. QED
    BY <2>1 DEF Init, Atomic!Init, OnDisk, Atomic!OnDisk
<1>2. RacingWriters = FALSE /\ Init => Quiet
  BY DEF Init, Quiet
<1>. QED
  BY <1>1, <1>2, QuietStep, AtomicStep, Inductive, PTL DEF Spec, ImplementsAtomic, Atomic!Spec
=============================================================================
