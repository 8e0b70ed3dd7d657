--------------------------- MODULE EditOps_proofs ---------------------------
(***************************************************************************)
(* Proofs about EditOps, for any files, ops and acknowledgements: IInv is  *)
(* inductive, and the properties of the outcome follow from it.            *)
(***************************************************************************)
EXTENDS EditOps, TLAPS

(* What the type of a buffer says of its fields.                           *)
LEMMA BufFields ==
    ASSUME TypeOK, NEW p \in Paths, Has(p)
    PROVE  /\ bufs[p] \in Buf
           /\ bufs[p].old \in OnDisk /\ bufs[p].content \in Content
           /\ bufs[p].touched \in BOOLEAN /\ bufs[p].deleted \in BOOLEAN
<1>1. bufs[p] \in Buf
  BY DEF TypeOK, Has
<1> QED  BY <1>1 DEF Buf

(* A file that is served is there.                                         *)
LEMMA LoadedBuf ==
    ASSUME NEW c \in OnDisk, NEW p \in Paths, Loadable(p, c)
    PROVE  Loaded(c) \in Buf /\ c \in Content
  BY DEF Loadable, Loaded, Buf, OnDisk

LEMMA BlobType ==
    \A p \in Paths, c \in Content :
        Blob(p, c) \in [path : Paths, of : Content, plain : BOOLEAN]
  BY DEF Blob

LEMMA InitInv == Init => IInv
<1> SUFFICES ASSUME Init PROVE IInv
  OBVIOUS
<1>1. disk \in [Paths -> OnDisk] /\ before = disk /\ naive = disk /\ gone = {}
  BY CallAssumption DEF Init
<1>2. \A p \in base : p \in Paths /\ Loadable(p, disk[p])
  BY DEF Init
<1>3. \A p \in Paths : bufs[p] = IF p \in base THEN Loaded(disk[p]) ELSE NoBuf
  BY DEF Init
<1>4. \A p \in Paths : p \in base => Loaded(disk[p]) \in Buf
  BY <1>1, <1>2, LoadedBuf
<1>5. bufs \in [Paths -> Buf \union {NoBuf}]
  BY <1>4 DEF Init
<1>6. NoAck \in Ack
  BY DEF NoAck, Ack
<1>7. TypeOK
  BY <1>1, <1>2, <1>5, <1>6 DEF Init, TypeOK
<1>8. ASSUME NEW p \in Paths PROVE BufInv(p)
  <2>1. CASE p \in base
    <3>1. bufs[p] = Loaded(disk[p]) /\ bufs[p] # NoBuf /\ disk[p] \in Content
      BY <1>1, <1>2, <1>3, <1>4, <2>1, LoadedBuf, ContentAssumption
    <3>2. /\ bufs[p].old = disk[p] /\ bufs[p].content = disk[p]
          /\ bufs[p].touched = FALSE /\ bufs[p].deleted = FALSE
      BY <3>1 DEF Loaded
    <3> QED  BY <1>1, <2>1, <3>1, <3>2 DEF BufInv, Has
  <2>2. CASE p \notin base
    BY <1>1, <1>3, <2>2 DEF BufInv, Has
  <2> QED  BY <2>1, <2>2
<1>9. PlanInv /\ OutcomeInv
  BY <1>1 DEF Init, PlanInv, OutcomeInv
<1> QED  BY <1>7, <1>8, <1>9 DEF IInv

(* An op that leaves a buffer agreeing with the naive run keeps IInv.      *)
LEMMA RanInv ==
    ASSUME IInv, NEW p \in Paths, NEW b \in Buf, NEW c \in OnDisk, Ran(p, b, c),
           b.old = before[p], b.touched, b.deleted => b.old # Absent, b.content = c,
           p \in gone' => b.deleted, gone' \ {p} \subseteq gone, gone' \subseteq Paths,
           revived' \subseteq Paths,
           replaced \subseteq replaced', replaced' \subseteq Paths,
           p \in base \/ before[p] = Absent \/ p \in replaced'
    PROVE  IInv'
<1>1. /\ bufs' = [bufs EXCEPT ![p] = b] /\ naive' = [naive EXCEPT ![p] = c]
      /\ done' = done + 1 /\ phase = "ops"
      /\ UNCHANGED <<disk, before, base, phase, ack, blobs, promised>>
  BY DEF Ran
<1>2. TypeOK'
  <2>1. bufs' \in [Paths -> Buf \union {NoBuf}]
    BY <1>1 DEF IInv, TypeOK
  <2>2. naive' \in [Paths -> OnDisk]
    BY <1>1 DEF IInv, TypeOK
  <2>3. done' \in Nat
    BY <1>1 DEF IInv, TypeOK
  <2>4. gone' \subseteq Paths /\ revived' \subseteq Paths /\ replaced' \subseteq Paths
    OBVIOUS
  <2> QED  BY <1>1, <2>1, <2>2, <2>3, <2>4 DEF IInv, TypeOK
<1>3. PlanInv'
  BY <1>1 DEF IInv, PlanInv
<1>4. OutcomeInv'
  BY <1>1 DEF OutcomeInv
<1>5. ASSUME NEW q \in Paths PROVE BufInv(q)'
  <2>1. CASE q = p
    <3>1. bufs'[p] = b /\ naive'[p] = c /\ b # NoBuf
      BY <1>1, ContentAssumption DEF IInv, TypeOK
    <3> QED  BY <1>1, <2>1, <3>1 DEF BufInv, Has
  <2>2. CASE q # p
    <3>1. bufs'[q] = bufs[q] /\ naive'[q] = naive[q]
      BY <1>1, <2>2 DEF IInv, TypeOK
    <3>2. q \in gone' => q \in gone
      BY <2>2
    <3> QED  BY <1>1, <3>1, <3>2 DEF IInv, BufInv, Has
  <2> QED  BY <2>1, <2>2
<1> QED  BY <1>2, <1>3, <1>4, <1>5 DEF IInv

LEMMA PutsInv ==
    ASSUME IInv, NEW p \in Paths, NEW c \in Content,
           Has(p), Puts(p, c, c), gone' \subseteq gone, revived' \subseteq Paths,
           replaced \subseteq replaced', replaced' \subseteq Paths
    PROVE  IInv'
<1> DEFINE b == [bufs[p] EXCEPT !.content = c, !.touched = TRUE]
<1>1. bufs[p] \in Buf
  BY BufFields DEF IInv
<1>2. /\ b \in Buf /\ b.old = bufs[p].old /\ b.content = c /\ b.touched
      /\ b.deleted = bufs[p].deleted
  BY <1>1 DEF Buf
<1>3. BufInv(p)
  BY DEF IInv
<1>4. /\ bufs[p].old = before[p]
      /\ bufs[p].deleted => bufs[p].old # Absent
      /\ p \in base \/ before[p] = Absent \/ p \in replaced'
      /\ p \in gone' => bufs[p].deleted
  BY <1>3 DEF BufInv
<1>5. Ran(p, b, c)
  BY DEF Puts
<1>6. c \in OnDisk /\ gone' \ {p} \subseteq gone /\ gone' \subseteq Paths
  BY DEF OnDisk, IInv, TypeOK
<1> HIDE DEF b
<1> QED  BY <1>2, <1>4, <1>5, <1>6, RanInv

LEMMA AddsInv ==
    ASSUME IInv, NEW p \in Paths, NEW c \in Content,
           ~Has(p), Adds(p, disk[p], c), disk[p] = Absent \/ p \in replaced',
           gone' \subseteq gone, revived' \subseteq Paths,
           replaced \subseteq replaced', replaced' \subseteq Paths
    PROVE  IInv'
<1> DEFINE b == [old |-> disk[p], content |-> c, touched |-> TRUE, deleted |-> FALSE]
<1>1. disk[p] = before[p] /\ disk[p] \in OnDisk
  BY DEF IInv, PlanInv, TypeOK, Adds, Ran
<1>2. b \in Buf /\ b.old = disk[p] /\ b.content = c /\ b.touched /\ ~b.deleted
  BY <1>1 DEF Buf
<1>3. Ran(p, b, c)
  BY DEF Adds
<1>4. c \in OnDisk /\ gone' \ {p} \subseteq gone /\ gone' \subseteq Paths
  BY DEF OnDisk, IInv, TypeOK
<1>5. p \notin gone'
  BY DEF IInv, BufInv
<1> HIDE DEF b
<1> QED  BY <1>1, <1>2, <1>3, <1>4, <1>5, RanInv

LEMMA DeleteInv == ASSUME IInv, NEW p \in Paths, Delete(p) PROVE IInv'
<1> DEFINE b == [bufs[p] EXCEPT !.touched = TRUE, !.deleted = TRUE]
<1>1. /\ Has(p) /\ bufs[p].old # Absent /\ Ran(p, b, naive[p]) /\ replaced' = replaced
      /\ gone' = gone \union {p} /\ revived' = revived
  BY DEF Delete
<1>2. bufs[p] \in Buf /\ BufInv(p)
  BY <1>1, BufFields DEF IInv
<1>3. b \in Buf /\ b.old = bufs[p].old /\ b.touched /\ b.deleted /\ b.content = bufs[p].content
  BY <1>2 DEF Buf
<1>4. b.content = naive[p] /\ b.old = before[p] /\ (p \in base \/ before[p] = Absent \/ p \in replaced)
  BY <1>1, <1>2, <1>3 DEF BufInv
<1>5. /\ naive[p] \in OnDisk /\ replaced \subseteq Paths /\ revived' \subseteq Paths
      /\ gone' \ {p} \subseteq gone /\ gone' \subseteq Paths
  BY <1>1 DEF IInv, TypeOK
<1> HIDE DEF b
<1> QED  BY <1>1, <1>3, <1>4, <1>5, RanInv

LEMMA CreateInv ==
    ASSUME IInv, NEW p \in Paths, NEW c \in Content, NEW o \in BOOLEAN, Create(p, c, o)
    PROVE  IInv'
<1>1. /\ replaced \subseteq replaced' /\ replaced' \subseteq Paths
      /\ gone' \subseteq gone /\ revived' \subseteq Paths
  BY DEF Create, IInv, TypeOK
<1>2. CASE Has(p) /\ o /\ Puts(p, c, c)
  BY <1>1, <1>2, PutsInv
<1>3. CASE ~Has(p) /\ Adds(p, disk[p], c) /\ (disk[p] = Absent \/ o)
  <2>1. disk[p] = Absent \/ p \in replaced'
    BY <1>3 DEF Create
  <2> QED  BY <1>1, <1>3, <2>1, AddsInv
<1> QED  BY <1>2, <1>3 DEF Create

(* An op that edits one file and leaves the text the reference run does.   *)
LEMMA EditInv ==
    ASSUME IInv, NEW p \in Paths, NEW c \in Content, NEW n, Editable(p),
           Puts(p, c, n), c = n, UNCHANGED <<replaced, gone>>, revived' \subseteq Paths
    PROVE  IInv'
<1>1. Has(p) /\ replaced' \subseteq Paths /\ replaced' = replaced /\ gone' = gone
  BY DEF Editable, IInv, TypeOK
<1>2. Puts(p, c, c)
  OBVIOUS
<1> QED  BY <1>1, <1>2, PutsInv

(* A buffer holds what the reference run does, deleted or not.             *)
LEMMA BufferIsNaive ==
    ASSUME IInv, NEW p \in Paths, Has(p)
    PROVE  bufs[p].content = naive[p]
  BY DEF IInv, BufInv

LEMMA SetsInv ==
    ASSUME IInv, NEW p \in Paths, NEW k \in Keys, NEW v \in Values \union {Empty, NoEntry},
           Sets(p, k, v, v), revived' \subseteq Paths
    PROVE  IInv'
<1>1. /\ Editable(p) /\ bufs[p].content \in Dotenv /\ bufs[p].content = naive[p]
      /\ UNCHANGED <<replaced, gone>>
  BY BufferIsNaive DEF Sets, EditableEnv, Editable
<1>2. [bufs[p].content EXCEPT ![k] = v] \in Content
  BY <1>1 DEF Dotenv, Content
<1>3. Puts(p, [bufs[p].content EXCEPT ![k] = v], [naive[p] EXCEPT ![k] = v])
  BY DEF Sets
<1>4. [bufs[p].content EXCEPT ![k] = v] = [naive[p] EXCEPT ![k] = v]
  BY <1>1
<1> QED  BY <1>1, <1>2, <1>3, <1>4, EditInv

(* The engine takes a value_from where the reference run does: out of what *)
(* the ops before left of the source, or out of the file.                  *)
LEMMA SourceIsNaive ==
    ASSUME IInv, phase = "ops", NEW q \in Paths, NEW j \in Keys,
           ValueAt(SourceOf(q), j) # NoEntry
    PROVE  /\ ValueAt(naive[q], j) = ValueAt(SourceOf(q), j)
           /\ ValueAt(SourceOf(q), j) \in Values \union {Empty, NoEntry}
<1>1. SourceOf(q) \in Dotenv
  BY DEF ValueAt
<1>2. SourceOf(q) = naive[q]
  <2>1. CASE Has(q)
    BY <2>1, BufferIsNaive DEF SourceOf
  <2>2. CASE ~Has(q)
    <3>1. SourceOf(q) = disk[q]
      BY <1>1, <2>2, ContentAssumption DEF SourceOf, Content
    <3>2. disk[q] = before[q] /\ naive[q] = before[q]
      BY <2>2 DEF IInv, PlanInv, BufInv
    <3> QED  BY <3>1, <3>2
  <2> QED  BY <2>1, <2>2
<1>3. ValueAt(SourceOf(q), j) \in Values \union {Empty, NoEntry}
  BY <1>1 DEF ValueAt, Dotenv
<1> QED  BY <1>2, <1>3

(* A step keeps IInv.                                                      *)
LEMMA StepInv == IInv /\ [Next]_vars => IInv'
<1> SUFFICES ASSUME IInv, [Next]_vars PROVE IInv'
  OBVIOUS
<1>1. ASSUME NEW p \in Paths, Delete(p) PROVE IInv'
  BY <1>1, DeleteInv
<1>2. ASSUME NEW p \in Paths, EnvReorder(p) PROVE IInv'
  <2>1. Editable(p) /\ bufs[p].content = naive[p] /\ bufs[p].content \in Content
    BY <1>2, BufferIsNaive, BufFields DEF EnvReorder, EditableEnv, Editable, IInv
  <2>2. revived' \subseteq Paths /\ UNCHANGED <<replaced, gone>>
    BY <1>2 DEF EnvReorder, IInv, TypeOK
  <2> QED  BY <1>2, <2>1, <2>2, EditInv DEF EnvReorder
<1>3. ASSUME NEW p \in Paths, NEW c \in Drafts, TextOp(p, c) PROVE IInv'
  <2>1. c \in Content
    BY CallAssumption
  <2>2. revived' \subseteq Paths /\ UNCHANGED <<replaced, gone>>
    BY <1>3 DEF TextOp, IInv, TypeOK
  <2> QED  BY <1>3, <2>1, <2>2, EditInv DEF TextOp
<1>4. ASSUME NEW p \in Paths, NEW c \in Drafts, NEW o \in BOOLEAN, Create(p, c, o)
      PROVE  IInv'
  BY <1>4, CreateInv, CallAssumption
<1>5. ASSUME NEW p \in Paths, NEW k \in Keys, EnvDelete(p, k) PROVE IInv'
  <2>1. Sets(p, k, NoEntry, NoEntry) /\ revived' \subseteq Paths
    BY <1>5 DEF EnvDelete, Sets, IInv, TypeOK
  <2> QED  BY <2>1, SetsInv
<1>6. ASSUME NEW p \in Paths, NEW k \in Keys, NEW v \in Values \union {Empty},
             EnvSet(p, k, v)
      PROVE  IInv'
  <2>1. revived' \subseteq Paths
    BY <1>6 DEF EnvSet, IInv, TypeOK
  <2> QED  BY <1>6, <2>1, SetsInv DEF EnvSet
<1>7. ASSUME NEW p \in Paths, NEW k \in Keys, NEW j \in Keys, EnvRename(p, k, j)
      PROVE  IInv'
  <2>1. Editable(p) /\ bufs[p].content \in Dotenv /\ bufs[p].content = naive[p]
    BY <1>7, BufferIsNaive DEF EnvRename, EditableEnv, Editable
  <2>2. Renamed(bufs[p].content, k, j) \in Content
    BY <2>1 DEF Renamed, Dotenv, Content
  <2>3. revived' \subseteq Paths /\ UNCHANGED <<replaced, gone>>
    BY <1>7 DEF EnvRename, IInv, TypeOK
  <2> QED  BY <1>7, <2>1, <2>2, <2>3, EditInv DEF EnvRename
<1>8. ASSUME NEW p \in Paths, NEW k \in Keys, NEW q \in Paths, NEW j \in Keys,
             EnvSetFrom(p, k, q, j)
      PROVE  IInv'
  <2> DEFINE v == ValueAt(SourceOf(q), j)
  <2>1. v # NoEntry /\ Sets(p, k, v, ValueAt(naive[q], j)) /\ revived' \subseteq Paths
    BY <1>8 DEF EnvSetFrom, IInv, TypeOK
  <2>2. phase = "ops"
    BY <2>1 DEF Sets, Puts, Ran
  <2>3. ValueAt(naive[q], j) = v /\ v \in Values \union {Empty, NoEntry}
    BY <2>1, <2>2, SourceIsNaive
  <2> HIDE DEF v
  <2>4. Sets(p, k, v, v)
    BY <2>1, <2>3
  <2> QED  BY <2>1, <2>3, <2>4, SetsInv
<1>9. ASSUME NEW p \in Paths, NEW e \in Paths, EnvSyncExample(p, e) PROVE IInv'
  <2>1. Editable(p) /\ bufs[p].content \in Dotenv /\ bufs[p].content = naive[p]
    BY <1>9, BufferIsNaive DEF EnvSyncExample, EditableEnv, Editable
  <2>2. Example(bufs[p].content) \in Content
    <3>1. Example(bufs[p].content) \in Dotenv
      BY DEF Example, Dotenv
    <3> QED  BY <3>1 DEF Content
  <2>3. Example(naive[p]) = Example(bufs[p].content)
    BY <2>1
  <2>4. /\ replaced' = replaced /\ replaced \subseteq Paths
        /\ gone' \subseteq gone /\ revived' \subseteq Paths
    BY <1>9 DEF EnvSyncExample, IInv, TypeOK
  <2>5. CASE Has(e) /\ Puts(e, Example(bufs[p].content), Example(naive[p]))
    BY <2>2, <2>3, <2>4, <2>5, PutsInv
  <2>6. CASE ~Has(e) /\ disk[e] = Absent /\ Adds(e, disk[e], Example(bufs[p].content))
    BY <2>2, <2>4, <2>6, AddsInv
  <2> QED  BY <1>9, <2>5, <2>6 DEF EnvSyncExample
<1>10. CASE Accept
  <2>1. /\ phase = "ops" /\ phase' = "applied" /\ blobs' = Retained
        /\ disk' = [p \in Paths |-> IF p \in Deleted THEN Absent
                                    ELSE IF p \in Written THEN bufs[p].content
                                    ELSE disk[p]]
        /\ promised' = {p \in Deleted : Recoverable(p)}
        /\ UNCHANGED <<before, base, bufs, done, replaced, naive, gone, revived>>
    BY <1>10 DEF Accept
  <2>2. ack' \in Ack /\ VanishGuard(ack') /\ LeakGuard(ack') /\ DeleteGuard(ack')
    BY <1>10, CallAssumption DEF Accept
  <2>3. Deleted' = Deleted /\ Written' = Written /\ Retained' = Retained
    BY <2>1 DEF Deleted, Written, Touched, Has, Retained, PreImages, PostImages, Recoverable
  <2>4. \A p \in Written : bufs[p].content \in Content
    BY BufFields DEF IInv, Written, Touched
  <2>5. disk' \in [Paths -> OnDisk]
    BY <2>1, <2>4 DEF IInv, TypeOK, OnDisk
  <2>6. Retained \subseteq [path : Paths, of : Content, plain : BOOLEAN]
    <3>1. \A p \in Touched : bufs[p].old \in OnDisk /\ p \in Paths
      BY BufFields DEF IInv, Touched
    <3>2. \A p \in {q \in Deleted : Recoverable(q)} \union {q \in Written : bufs[q].old # Absent} :
             bufs[p].old \in Content /\ p \in Paths
      BY <3>1 DEF Deleted, Written, Recoverable, OnDisk
    <3>3. PreImages \subseteq [path : Paths, of : Content, plain : BOOLEAN]
      BY <3>2, BlobType DEF PreImages
    <3>4. PostImages \subseteq [path : Paths, of : Content, plain : BOOLEAN]
      BY <2>4, BlobType DEF PostImages, Written, Touched
    <3> QED  BY <3>3, <3>4 DEF Retained
  <2>7. TypeOK'
    BY <2>1, <2>2, <2>5, <2>6 DEF IInv, TypeOK, Deleted, Touched
  <2>8. OutcomeInv'
    <3>1. VanishGuard(ack)' /\ LeakGuard(ack)' /\ DeleteGuard(ack)'
      BY <2>1, <2>2, <2>3 DEF VanishGuard, LeakGuard, Leaks, DeleteGuard, Recoverable
    <3>2. disk = before
      BY <2>1 DEF IInv, PlanInv
    <3>3. promised' = {p \in Deleted' : Recoverable(p)'}
      BY <2>1, <2>3 DEF Recoverable
    <3> QED  BY <2>1, <2>3, <3>1, <3>2, <3>3 DEF OutcomeInv
  <2>9. PlanInv' /\ \A p \in Paths : BufInv(p)'
    BY <2>1 DEF IInv, PlanInv, BufInv, Has
  <2> QED  BY <2>7, <2>8, <2>9 DEF IInv
<1>11. CASE Refuse
  <2>1. phase = "ops" /\ phase' = "refused"
        /\ UNCHANGED <<disk, before, base, bufs, ack, blobs, promised, done, replaced,
                       naive, gone, revived>>
    BY <1>11 DEF Refuse
  <2> QED  BY <2>1 DEF IInv, TypeOK, PlanInv, OutcomeInv, BufInv, Has
<1>12. CASE UNCHANGED vars
  BY <1>12 DEF vars, IInv, TypeOK, PlanInv, OutcomeInv, BufInv, Has, Deleted, Written,
     Touched, VanishGuard, LeakGuard, Leaks, DeleteGuard, Recoverable, Retained,
     PreImages, PostImages
<1> QED
  BY <1>1, <1>2, <1>3, <1>4, <1>5, <1>6, <1>7, <1>8, <1>9, <1>10, <1>11, <1>12 DEF Next

THEOREM Invariant == Spec => []IInv
  BY InitInv, StepInv, PTL DEF Spec

-----------------------------------------------------------------------------
(* What the invariant says of an outcome, file by file.                    *)

LEMMA Kept ==
    ASSUME IInv, phase = "applied", NEW p \in Paths
    PROVE  /\ p \in Deleted => disk[p] = Absent /\ bufs[p].old = before[p]
           /\ p \in Written => disk[p] = bufs[p].content /\ bufs[p].old = before[p]
                               /\ bufs[p].content = naive[p] /\ p \notin gone
           /\ p \notin Touched => disk[p] = before[p] /\ naive[p] = before[p] /\ p \notin gone
<1>1. disk[p] = IF p \in Deleted THEN Absent
                ELSE IF p \in Written THEN bufs[p].content ELSE before[p]
  BY DEF IInv, OutcomeInv
<1>2. BufInv(p)
  BY DEF IInv
<1> QED  BY <1>1, <1>2 DEF BufInv, Deleted, Written, Touched

(* The type of every variable holds for every call.                        *)
THEOREM TypeCorrect == Spec => []TypeOK
  BY Invariant, PTL DEF IInv

(* Ops run in order, each on what the ones before it left, and each taking *)
(* the value it copies out of what they left of its source.                *)
THEOREM OpsBuild == Spec => []OpsBuildOnEachOther
<1>1. IInv => OpsBuildOnEachOther
  BY Kept DEF OpsBuildOnEachOther, Written
<1> QED  BY <1>1, Invariant, PTL

(* No file is changed that was not declared, created or replaced by name.  *)
THEOREM NothingIsClobbered == Spec => []NoSilentClobber
<1>1. IInv => NoSilentClobber
  <2> SUFFICES ASSUME IInv, NEW p \in Paths, disk[p] # before[p]
               PROVE  p \in base \/ before[p] = Absent \/ p \in replaced
    BY DEF NoSilentClobber
  <2>1. phase = "applied"
    BY DEF IInv, PlanInv
  <2>2. Has(p)
    BY <2>1, Kept DEF Touched
  <2> QED  BY <2>2 DEF IInv, BufInv
<1> QED  BY <1>1, Invariant, PTL

(* No value of a classified file goes without an acknowledgement.          *)
THEOREM DestructionsAreAcknowledged == Spec => []DestructionIsAcknowledged
<1>1. IInv => DestructionIsAcknowledged
  <2> SUFFICES ASSUME IInv, phase = "applied", NEW p \in Classified,
                      Vanished(before[p], disk[p]) # {}
               PROVE  IF disk[p] = Absent THEN p \in ack.paths
                      ELSE Vanished(before[p], disk[p]) \subseteq ack.keys
    BY DEF DestructionIsAcknowledged
  <2>1. p \in Paths
    BY ContentAssumption
  <2>2. VanishGuard(ack) /\ DeleteGuard(ack)
    BY DEF IInv, OutcomeInv
  <2>3. CASE p \in Deleted
    BY <2>1, <2>2, <2>3, Kept DEF DeleteGuard, Recoverable
  <2>4. CASE p \in Written
    <3>1. disk[p] = bufs[p].content /\ bufs[p].old = before[p]
      BY <2>1, <2>4, Kept
    <3>2. bufs[p].content # Absent
      BY <2>1, <2>4, BufFields, ContentAssumption DEF IInv, Written, Touched
    <3> QED  BY <2>2, <2>4, <3>1, <3>2 DEF VanishGuard
  <2>5. CASE p \notin Touched
    <3>1. disk[p] = before[p]
      BY <2>1, <2>5, Kept
    <3> QED  BY <3>1 DEF Vanished, ValuesIn
  <2> QED  BY <2>3, <2>4, <2>5 DEF Written
<1> QED  BY <1>1, Invariant, PTL

(* Under leak_checks = refuse no known secret gets into a file that is not *)
(* classified, or into a blob in the clear, unless acknowledged.           *)
THEOREM SecretsStay == Spec => []SecretsStayClassified
<1>1. IInv => SecretsStayClassified
  <2> DEFINE held == UNION {ValuesIn(before[p]) : p \in Paths \ Classified}
             out  == UNION {ValuesIn(disk[p]) : p \in Paths \ Classified}
             kept == UNION {ValuesIn(b.of) : b \in {x \in blobs : x.plain}}
  <2> SUFFICES ASSUME IInv, phase = "applied", ack.checks = "refuse"
               PROVE  (out \union kept) \intersect Known \subseteq held \union ack.secrets
    BY DEF SecretsStayClassified
  <2>1. \A p \in Written \ Classified : Leaks(p) \subseteq ack.secrets
    BY DEF IInv, OutcomeInv, LeakGuard
  <2>2. ASSUME NEW p \in Paths \ Classified
        PROVE  /\ ValuesIn(before[p]) \subseteq held
               /\ p \in Written => ValuesIn(bufs[p].content) \intersect Known
                                      \subseteq held \union ack.secrets
    <3>1. ValuesIn(before[p]) \subseteq held
      OBVIOUS
    <3>2. p \in Written => bufs[p].old = before[p]
      BY Kept
    <3> HIDE DEF held
    <3> QED  BY <2>1, <3>1, <3>2 DEF Leaks
  <2>3. out \intersect Known \subseteq held \union ack.secrets
    <3> SUFFICES ASSUME NEW p \in Paths \ Classified
                 PROVE  ValuesIn(disk[p]) \intersect Known \subseteq held \union ack.secrets
      OBVIOUS
    <3> HIDE DEF held
    <3>1. CASE p \in Deleted
      <4>1. disk[p] = Absent
        BY <3>1, Kept
      <4>2. ValuesIn(disk[p]) = {}
        BY <4>1, ContentAssumption DEF ValuesIn, Content
      <4> QED  BY <4>2
    <3>2. CASE p \in Written
      BY <2>2, <3>2, Kept
    <3>3. CASE p \notin Touched
      BY <2>2, <3>3, Kept
    <3> QED  BY <3>1, <3>2, <3>3 DEF Written
  <2>4. kept \intersect Known \subseteq held \union ack.secrets
    <3> SUFFICES ASSUME NEW b \in blobs, b.plain
                 PROVE  ValuesIn(b.of) \intersect Known \subseteq held \union ack.secrets
      OBVIOUS
    <3> HIDE DEF held
    <3>1. b \in PreImages \/ b \in PostImages
      BY DEF IInv, OutcomeInv, Retained
    <3>2. CASE b \in PreImages
      <4>1. PICK p \in Touched : b = Blob(p, bufs[p].old)
        BY <3>2 DEF PreImages, Deleted, Written
      <4>2. p \in Paths \ Classified /\ b.of = bufs[p].old
        BY <4>1 DEF Blob, Touched
      <4>3. bufs[p].old = before[p]
        BY <4>1, <4>2, Kept DEF Written
      <4> QED  BY <2>2, <4>2, <4>3
    <3>3. CASE b \in PostImages
      <4>1. PICK p \in Written : b = Blob(p, bufs[p].content)
        BY <3>3 DEF PostImages
      <4>2. p \in Paths \ Classified /\ b.of = bufs[p].content
        BY <4>1 DEF Blob, Written, Touched
      <4> QED  BY <2>2, <4>1, <4>2
    <3> QED  BY <3>1, <3>2, <3>3
  <2> HIDE DEF held, out, kept
  <2> QED  BY <2>3, <2>4
<1> QED  BY <1>1, Invariant, PTL

(* recoverable: true is said of exactly the deletes whose content the      *)
(* journal row retains.                                                    *)
THEOREM RecoverablesAreRetained == Spec => []RecoverableIsRetained
<1>1. IInv => RecoverableIsRetained
  <2> SUFFICES ASSUME IInv, phase = "applied", NEW p \in Deleted
               PROVE  p \in promised
                      <=> [path |-> p, of |-> before[p], plain |-> TRUE] \in blobs
    BY DEF RecoverableIsRetained
  <2>1. p \in Paths /\ bufs[p].old = before[p]
    BY Kept DEF Deleted, Touched
  <2>2. promised = {q \in Deleted : Recoverable(q)} /\ blobs = Retained
    BY DEF IInv, OutcomeInv
  <2>3. ASSUME p \in promised
        PROVE  [path |-> p, of |-> before[p], plain |-> TRUE] \in blobs
    <3>1. Recoverable(p) /\ p \notin Classified
      BY <2>2, <2>3 DEF Recoverable
    <3>2. Blob(p, bufs[p].old) \in PreImages
      BY <3>1 DEF PreImages
    <3>3. Blob(p, bufs[p].old) = [path |-> p, of |-> before[p], plain |-> TRUE]
      BY <2>1, <3>1 DEF Blob
    <3> QED  BY <2>2, <3>2, <3>3 DEF Retained
  <2>4. ASSUME [path |-> p, of |-> before[p], plain |-> TRUE] \in blobs
        PROVE  p \in promised
    <3> DEFINE b == [path |-> p, of |-> before[p], plain |-> TRUE]
    <3>1. PICK q \in Paths : \E c : b = Blob(q, c)
      BY <2>2, <2>4 DEF Retained, PreImages, PostImages, Deleted, Written, Touched
    <3>2. p \notin Classified
      BY <3>1 DEF Blob
    <3>3. bufs[p].old # Absent
      BY <2>1 DEF IInv, BufInv, Deleted, Touched
    <3> QED  BY <2>2, <3>2, <3>3 DEF Recoverable
  <2> QED  BY <2>3, <2>4
<1> QED  BY <1>1, Invariant, PTL
=============================================================================
