--------------------------- MODULE History_proofs ---------------------------
(***************************************************************************)
(* Proofs about History, for any files, transactions, reverts, clock and   *)
(* restarts: IInv is inductive, and contains the properties.               *)
(***************************************************************************)
EXTENDS HistoryReads, TLAPS

LEMMA InitInv == Init => IInv
<1> SUFFICES ASSUME Init PROVE IInv
  OBVIOUS
<1>1. /\ files \in [Paths -> Contents \union {Absent}] /\ classified \in Classifications
      /\ day = 0 /\ rows = <<>> /\ promised = {}
      /\ blobs = [v \in Contents \union {Rendering} |-> NoBlob]
      /\ plans = [r \in Reverters |-> NoPlan]
  BY DEF Init
<1>2. Len(rows) = 0 /\ rows \in Seq(Row) /\ 1..Len(rows) = {}
  BY <1>1
<1>3. TypeOK
  BY <1>1, <1>2, BoundAssumption DEF TypeOK, Files
<1>4. RowsInv /\ RevertIsInverse
  BY <1>2 DEF RowsInv, RevertIsInverse
<1>5. BlobsInv /\ PlansInv /\ PromisesInv
  BY <1>1 DEF BlobsInv, PlansInv, PromisesInv
<1>6. NoPlaceholderLiteral
  BY <1>1, ContentAssumption DEF NoPlaceholderLiteral
<1>7. ExpiresOnlyOld /\ FreshPromiseIsKept
  BY <1>1, <1>2 DEF ExpiresOnlyOld, FreshPromiseIsKept
<1> QED  BY <1>3, <1>4, <1>5, <1>6, <1>7 DEF IInv

-----------------------------------------------------------------------------
(* The operators of the journal.                                           *)

(* A function over some paths.                                             *)
LEMMA PathsToFields ==
    ASSUME NEW X, NEW f \in PathsTo(X)
    PROVE  DOMAIN f \subseteq Paths /\ \A p \in DOMAIN f : f[p] \in X
<1>1. PICK S \in SUBSET Paths : f \in [S -> X]
  BY DEF PathsTo
<1> QED  BY <1>1

LEMMA ChangesType ==
    ASSUME TypeOK, NEW to \in PathsTo(Files)
    PROVE  /\ Changes(to) \in PathsTo(Change) /\ DOMAIN Changes(to) = DOMAIN to
           /\ \A p \in DOMAIN to :
                  /\ Changes(to)[p] \in Change
                  /\ Changes(to)[p].old = files[p] /\ Changes(to)[p].new = to[p]
                  /\ Changes(to)[p].redacted = (p \in classified)
<1>1. DOMAIN to \subseteq Paths /\ \A p \in DOMAIN to : to[p] \in Files
  BY PathsToFields
<1>2. \A p \in DOMAIN to : files[p] \in Files
  BY <1>1 DEF TypeOK
<1>3. \A p \in DOMAIN to :
          [old |-> files[p], new |-> to[p], redacted |-> p \in classified] \in Change
  BY <1>1, <1>2 DEF Change
<1>4. Changes(to) \in [DOMAIN to -> Change]
  BY <1>3 DEF Changes
<1>5. Changes(to) \in PathsTo(Change)
  BY <1>1, <1>4 DEF PathsTo
<1> QED  BY <1>3, <1>5 DEF Changes

(* INSERT OR IGNORE of a transaction's blobs: what is there stays, what is *)
(* not comes from a change that retains it.                                *)
LEMMA InsertWorks ==
    ASSUME NEW changes \in PathsTo(Change), NEW v \in DOMAIN blobs
    PROVE  /\ DOMAIN Insert(changes) = DOMAIN blobs
           /\ blobs[v] # NoBlob => Insert(changes)[v] = blobs[v]
           /\ blobs[v] = NoBlob =>
                \/ /\ Insert(changes)[v] = NoBlob
                   /\ \A p \in DOMAIN changes : ~Retains(changes[p], v)
                \/ \E p \in DOMAIN changes : /\ Retains(changes[p], v)
                                             /\ Insert(changes)[v] = NewBlob(changes[p], v)
<1> DEFINE carriers == {p \in DOMAIN changes : Retains(changes[p], v)}
<1>1. carriers \in SUBSET Paths
  BY PathsToFields
<1>2. carriers # {} => First(carriers) \in carriers
  BY <1>1, FirstAssumption
<1>3. DOMAIN Insert(changes) = DOMAIN blobs
  BY DEF Insert
<1>4. Insert(changes)[v] = IF blobs[v] # NoBlob \/ carriers = {} THEN blobs[v]
                           ELSE NewBlob(changes[First(carriers)], v)
  BY DEF Insert
<1>5. CASE blobs[v] # NoBlob
  BY <1>3, <1>4, <1>5
<1>6. CASE blobs[v] = NoBlob /\ carriers = {}
  <2>1. \A p \in DOMAIN changes : ~Retains(changes[p], v)
    BY <1>6
  <2> HIDE DEF carriers
  <2> QED  BY <1>3, <1>4, <1>6, <2>1
<1>7. CASE blobs[v] = NoBlob /\ carriers # {}
  <2>1. First(carriers) \in DOMAIN changes /\ Retains(changes[First(carriers)], v)
    BY <1>2, <1>7
  <2> HIDE DEF carriers
  <2> QED  BY <1>3, <1>4, <1>7, <2>1
<1> QED  BY <1>5, <1>6, <1>7

LEMMA NewBlobType ==
    ASSUME day \in Nat, NEW c \in Change, NEW v \in Contents \union {Rendering}
    PROVE  /\ NewBlob(c, v) \in Blob /\ NewBlob(c, v) # NoBlob
           /\ NewBlob(c, v).at = day /\ NewBlob(c, v).redacted = c.redacted
           /\ NewBlob(c, v).content = IF c.redacted THEN Rendering ELSE v
<1>1. c.redacted \in BOOLEAN
  BY DEF Change
<1>2. NewBlob(c, v) \in Blob
  BY <1>1 DEF NewBlob, Blob
<1> QED  BY <1>2, ContentAssumption DEF NewBlob

(* What a blob is, once a transaction has recorded its changes and maybe   *)
(* swept the store: the one that was there, one of a change, or expired.   *)
LEMMA StoreWorks ==
    ASSUME TypeOK, NEW changes \in PathsTo(Change), NEW v \in DOMAIN blobs,
           blobs' \in {Insert(changes), Swept(Insert(changes))}
    PROVE  /\ DOMAIN blobs' = DOMAIN blobs /\ blobs'[v] \in Blob \union {NoBlob}
           /\ blobs[v] # NoBlob => blobs'[v] = blobs[v]
                                   \/ (blobs'[v] = NoBlob /\ blobs[v].at + Retention < day)
           /\ blobs[v] = NoBlob =>
                \/ /\ blobs'[v] = NoBlob
                   /\ \A p \in DOMAIN changes : ~Retains(changes[p], v)
                \/ \E p \in DOMAIN changes : /\ Retains(changes[p], v)
                                             /\ blobs'[v] = NewBlob(changes[p], v)
<1> DEFINE s == Insert(changes)
<1>1. day \in Nat /\ v \in Contents \union {Rendering} /\ blobs[v] \in Blob \union {NoBlob}
  BY DEF TypeOK
<1>2. DOMAIN s = DOMAIN blobs
  BY InsertWorks
<1>3. blobs[v] # NoBlob => s[v] = blobs[v]
  BY InsertWorks
<1>4. \A p \in DOMAIN changes :
          /\ NewBlob(changes[p], v) \in Blob /\ NewBlob(changes[p], v) # NoBlob
          /\ NewBlob(changes[p], v).at = day
  BY <1>1, PathsToFields, NewBlobType
<1>5. blobs[v] = NoBlob =>
        \/ s[v] = NoBlob /\ \A p \in DOMAIN changes : ~Retains(changes[p], v)
        \/ \E p \in DOMAIN changes : Retains(changes[p], v) /\ s[v] = NewBlob(changes[p], v)
  BY InsertWorks
<1> HIDE DEF s
<1>6. blobs' = s \/ blobs' = Swept(s)
  BY DEF s
<1>7. DOMAIN blobs' = DOMAIN blobs
  BY <1>2, <1>6 DEF Swept
<1>8. blobs'[v] = s[v] \/ (blobs'[v] = NoBlob /\ s[v] # NoBlob /\ s[v].at + Retention < day)
  BY <1>2, <1>6 DEF Swept, Expired
<1>9. CASE blobs[v] # NoBlob
  <2>1. s[v] = blobs[v] /\ blobs[v] \in Blob
    BY <1>1, <1>3, <1>9
  <2>2. blobs'[v] = blobs[v] \/ (blobs'[v] = NoBlob /\ blobs[v].at + Retention < day)
    BY <1>8, <2>1
  <2>3. blobs'[v] \in Blob \union {NoBlob}
    BY <2>1, <2>2
  <2> QED  BY <1>7, <1>9, <2>2, <2>3
<1>10. CASE blobs[v] = NoBlob
  <2>1. CASE s[v] = NoBlob /\ \A p \in DOMAIN changes : ~Retains(changes[p], v)
    BY <1>7, <1>8, <1>10, <2>1
  <2>2. CASE \E p \in DOMAIN changes : Retains(changes[p], v) /\ s[v] = NewBlob(changes[p], v)
    <3>1. PICK p \in DOMAIN changes : Retains(changes[p], v) /\ s[v] = NewBlob(changes[p], v)
      BY <2>2
    <3>2. ~(s[v].at + Retention < day)
      BY <1>1, <1>4, <3>1, BoundAssumption
    <3> QED  BY <1>4, <1>7, <1>8, <1>10, <3>1, <3>2
  <2> QED  BY <1>5, <1>10, <2>1, <2>2
<1> QED  BY <1>9, <1>10

-----------------------------------------------------------------------------
(* A transaction that reaches its row keeps what IInv says of the journal. *)

JournalInv ==
    /\ rows \in Seq(Row) /\ DOMAIN blobs = Contents \union {Rendering}
    /\ \A v \in DOMAIN blobs : blobs[v] \in Blob \union {NoBlob}
    /\ promised \subseteq Nat \X Paths
    /\ RowsInv /\ BlobsInv /\ PromisesInv
    /\ RevertIsInverse /\ ExpiresOnlyOld /\ FreshPromiseIsKept

LEMMA RecordInv ==
    ASSUME IInv, NEW to \in PathsTo(Files), NEW u \in 0..Len(rows), Begin(to, u),
           UNCHANGED <<day, classified>>,
           blobs' \in {Insert(Changes(to)), Swept(Insert(Changes(to)))},
           \A p \in DOMAIN to : to[p] # Rendering /\ (to[p] = Absent => files[p] # Absent),
           u # 0 => /\ DOMAIN to = DOMAIN rows[u].changes
                    /\ \A p \in DOMAIN to : /\ files[p] = rows[u].changes[p].new
                                            /\ to[p] = rows[u].changes[p].old,
           \/ promised' = promised
           \/ promised' = promised \union {<<Len(rows) + 1, p>> :
                              p \in {q \in DOMAIN to : to[q] = Absent /\ q \notin classified}}
    PROVE  JournalInv'
<1> DEFINE n == Len(rows) + 1
           new == [changes |-> Changes(to), at |-> day, undoes |-> u]
<1> USE DEF IInv
<1>1. /\ Len(rows) \in Nat /\ rows \in Seq(Row) /\ day \in Nat /\ day' = day
      /\ Len(rows') = n /\ rows'[n] = new /\ \A i \in 1..Len(rows) : rows'[i] = rows[i]
      /\ 1..Len(rows') = (1..Len(rows)) \union {n}
  <2>1. rows' = Append(rows, new)
    BY DEF Begin
  <2>2. rows \in Seq(Row) /\ day \in Nat /\ Len(rows) \in Nat
    BY DEF TypeOK
  <2> HIDE DEF new
  <2>3. Len(rows') = n /\ rows'[n] = new /\ \A i \in 1..Len(rows) : rows'[i] = rows[i]
    BY <2>1, <2>2
  <2> QED  BY <2>2, <2>3
<1>2. /\ DOMAIN Changes(to) = DOMAIN to /\ DOMAIN to \subseteq Paths
      /\ Changes(to) \in PathsTo(Change)
      /\ \A p \in DOMAIN to :
             /\ Changes(to)[p] \in Change
             /\ Changes(to)[p].old = files[p] /\ Changes(to)[p].new = to[p]
             /\ Changes(to)[p].redacted = (p \in classified)
  BY ChangesType, PathsToFields
<1>3. new \in Row /\ new.changes = Changes(to) /\ new.at = day /\ new.undoes = u
  BY <1>1, <1>2 DEF Row
<1> HIDE DEF new
<1>4. \A v \in DOMAIN blobs : v \in Contents \union {Rendering}
  BY DEF TypeOK
<1>5. DOMAIN blobs' = DOMAIN blobs
  <2>1. DOMAIN Insert(Changes(to)) = DOMAIN blobs
    BY DEF Insert
  <2> QED  BY <2>1 DEF Swept
<1>6. rows' \in Seq(Row)
  BY <1>3 DEF TypeOK, Begin, new
<1>7. \A v \in DOMAIN blobs : blobs'[v] \in Blob \union {NoBlob}
  BY <1>2, StoreWorks
<1>8. \A p \in DOMAIN to : files[p] # Rendering
  BY <1>2 DEF NoPlaceholderLiteral
<1>9. RowsInv'
  <2>1. \A p \in DOMAIN new.changes :
            LET c == new.changes[p] IN
                c.old # Rendering /\ c.new # Rendering /\ (Deletes(c) => c.old # Absent)
    BY <1>2, <1>3, <1>8 DEF Deletes
  <2>2. \A i \in 1..Len(rows') : \A p \in DOMAIN rows'[i].changes :
            LET c == rows'[i].changes[p] IN
                c.old # Rendering /\ c.new # Rendering /\ (Deletes(c) => c.old # Absent)
    BY <1>1, <2>1 DEF RowsInv
  <2>3. \A i \in 1..Len(rows') : rows'[i].at <= day' /\ rows'[i].undoes < i
    BY <1>1, <1>3 DEF RowsInv
  <2>4. \A i, j \in 1..Len(rows') : i <= j => rows'[i].at <= rows'[j].at
    BY <1>1, <1>3 DEF RowsInv
  <2> QED  BY <2>2, <2>3, <2>4 DEF RowsInv, Deletes
<1>10. BlobsInv'
  <2> SUFFICES ASSUME NEW v \in DOMAIN blobs, blobs'[v] # NoBlob
               PROVE  /\ blobs'[v].content = IF blobs'[v].redacted THEN Rendering ELSE v
                      /\ \E i \in 1..Len(rows') : \E p \in DOMAIN rows'[i].changes :
                            /\ Retains(rows'[i].changes[p], v)
                            /\ rows'[i].at = blobs'[v].at
                            /\ rows'[i].changes[p].redacted = blobs'[v].redacted
    BY <1>5 DEF BlobsInv, Retains, Deletes
  <2>1. CASE blobs[v] # NoBlob
    <3>1. blobs'[v] = blobs[v]
      BY <1>2, <2>1, StoreWorks
    <3>2. PICK i \in 1..Len(rows) : \E p \in DOMAIN rows[i].changes :
             /\ Retains(rows[i].changes[p], v)
             /\ rows[i].at = blobs[v].at /\ rows[i].changes[p].redacted = blobs[v].redacted
      BY <2>1 DEF BlobsInv
    <3>3. i \in 1..Len(rows') /\ rows'[i] = rows[i]
      BY <1>1
    <3>4. blobs[v].content = IF blobs[v].redacted THEN Rendering ELSE v
      BY <2>1 DEF BlobsInv
    <3> QED  BY <3>1, <3>2, <3>3, <3>4
  <2>2. CASE blobs[v] = NoBlob
    <3>1. PICK p \in DOMAIN to : Retains(Changes(to)[p], v)
                                 /\ blobs'[v] = NewBlob(Changes(to)[p], v)
      BY <1>2, <2>2, StoreWorks
    <3>2. /\ blobs'[v].at = day /\ blobs'[v].redacted = Changes(to)[p].redacted
          /\ blobs'[v].content = IF Changes(to)[p].redacted THEN Rendering ELSE v
      BY <1>1, <1>2, <1>4, <3>1, NewBlobType
    <3>3. n \in 1..Len(rows') /\ rows'[n].changes = Changes(to) /\ rows'[n].at = day
      BY <1>1, <1>3
    <3> QED  BY <1>2, <3>1, <3>2, <3>3
  <2> QED  BY <2>1, <2>2
<1>11. RevertIsInverse'
  <2> SUFFICES ASSUME NEW i \in 1..Len(rows'), rows'[i].undoes # 0
               PROVE  LET done == rows'[i].changes
                          undone == rows'[rows'[i].undoes].changes
                      IN  /\ DOMAIN done = DOMAIN undone
                          /\ \A p \in DOMAIN done : /\ done[p].old = undone[p].new
                                                    /\ done[p].new = undone[p].old
    BY DEF RevertIsInverse
  <2>1. CASE i \in 1..Len(rows)
    <3>1. rows[i] \in Row
      BY <1>1, <2>1
    <3>2. rows[i].undoes \in 1..Len(rows)
      BY <1>1, <2>1, <3>1 DEF RowsInv, Row
    <3> QED  BY <1>1, <2>1, <3>2 DEF RevertIsInverse
  <2>2. CASE i = n
    <3>1. u \in 1..Len(rows) /\ rows'[i] = new /\ rows'[u] = rows[u]
      BY <1>1, <1>3, <2>2
    <3> QED  BY <1>2, <1>3, <3>1
  <2> QED  BY <1>1, <2>1, <2>2
<1>12. PromisesInv' /\ promised' \subseteq Nat \X Paths
  <2>1. ASSUME NEW m \in promised
        PROVE  /\ m[1] \in 1..Len(rows') /\ m[2] \in DOMAIN rows'[m[1]].changes
               /\ Deletes(rows'[m[1]].changes[m[2]])
               /\ ~rows'[m[1]].changes[m[2]].redacted
    BY <1>1 DEF PromisesInv
  <2>2. ASSUME NEW p \in DOMAIN to, to[p] = Absent, p \notin classified
        PROVE  /\ n \in 1..Len(rows') /\ p \in DOMAIN rows'[n].changes
               /\ Deletes(rows'[n].changes[p]) /\ ~rows'[n].changes[p].redacted
    BY ZenonT(40), <1>1, <1>2, <1>3, <2>2 DEF Deletes
  <2>3. PromisesInv'
    BY <2>1, <2>2 DEF PromisesInv, Deletes
  <2> QED  BY <1>1, <1>2, <2>3 DEF TypeOK
<1>13. ExpiresOnlyOld'
  <2> SUFFICES ASSUME NEW i \in 1..Len(rows'), NEW p \in DOMAIN rows'[i].changes,
                      NEW v \in DOMAIN blobs,
                      Retains(rows'[i].changes[p], v), blobs'[v] = NoBlob
               PROVE  \E j \in 1..Len(rows') : \E q \in DOMAIN rows'[j].changes :
                          Retains(rows'[j].changes[q], v) /\ rows'[j].at + Retention < day
    BY <1>1, <1>5 DEF ExpiresOnlyOld, Retains, Deletes
  <2>1. \A j \in 1..Len(rows) : j \in 1..Len(rows') /\ rows'[j] = rows[j]
    BY <1>1
  <2>2. CASE blobs[v] # NoBlob
    <3>1. blobs[v].at + Retention < day
      BY <1>2, <2>2, StoreWorks
    <3>2. PICK j \in 1..Len(rows) : \E q \in DOMAIN rows[j].changes :
             Retains(rows[j].changes[q], v) /\ rows[j].at = blobs[v].at
      BY <2>2 DEF BlobsInv
    <3> QED  BY <2>1, <3>1, <3>2
  <2>3. CASE blobs[v] = NoBlob
    <3>1. \A q \in DOMAIN Changes(to) : ~Retains(Changes(to)[q], v)
      BY <1>1, <1>2, <1>4, <2>3, StoreWorks, NewBlobType
    <3>2. i \in 1..Len(rows)
      BY <1>1, <1>3, <3>1
    <3>3. PICK j \in 1..Len(rows) : \E q \in DOMAIN rows[j].changes :
             Retains(rows[j].changes[q], v) /\ rows[j].at + Retention < day
      BY <2>1, <2>3, <3>2 DEF ExpiresOnlyOld
    <3> QED  BY <2>1, <3>3
  <2> QED  BY <2>2, <2>3
<1>14. FreshPromiseIsKept'
  <2> SUFFICES ASSUME NEW m \in promised', Fresh(m)', day <= rows'[m[1]].at + Retention
               PROVE  Held(Version(m))'
    BY <1>1 DEF FreshPromiseIsKept
  <2> DEFINE v == rows'[m[1]].changes[m[2]].old
  <2>0. /\ \A i \in 1..(m[1] - 1) : \A p \in DOMAIN rows'[i].changes :
               ~Retains(rows'[i].changes[p], v)
        /\ \A p \in DOMAIN rows'[m[1]].changes :
               Retains(rows'[m[1]].changes[p], v) => ~rows'[m[1]].changes[p].redacted
        /\ v = Version(m)'
    BY DEF Fresh, Version, Retains, Deletes
  <2> HIDE DEF v
  <2>a. m[1] \in 1..Len(rows) /\ rows'[m[1]] = rows[m[1]] => v = Version(m)
    BY DEF v, Version
  <2>b. v = rows'[m[1]].changes[m[2]].old
    BY DEF v
  <2> SUFFICES blobs'[v] # NoBlob /\ ~blobs'[v].redacted
    BY <2>0 DEF Held
  <2>1. /\ m[1] \in 1..Len(rows') /\ m[2] \in DOMAIN rows'[m[1]].changes
        /\ Deletes(rows'[m[1]].changes[m[2]]) /\ ~rows'[m[1]].changes[m[2]].redacted
    BY <1>12 DEF PromisesInv, Deletes
  <2>2. v # Absent /\ v \in DOMAIN blobs /\ v # Rendering
    <3>1. rows'[m[1]] \in Row
      BY <1>6, <2>1
    <3>2. rows'[m[1]].changes[m[2]] \in Change
      BY <2>1, <3>1, PathsToFields DEF Row
    <3> QED  BY <1>4, <1>9, <2>b, <2>1, <3>2 DEF RowsInv, TypeOK, Change, Files, Deletes
  <2>3. CASE m[1] \in 1..Len(rows)
    <3>1. m \in promised
      BY <1>1, <2>3
    <3>2. \A i \in 1..m[1] : rows'[i] = rows[i]
      BY <1>1, <2>3
    <3>3. blobs[v] # NoBlob /\ ~blobs[v].redacted
      <4>1. m[1] \in 1..m[1] /\ rows'[m[1]] = rows[m[1]] /\ v = Version(m)
        BY <2>3, <2>a, <3>2
      <4>2. Fresh(m)
        BY <1>1, <2>0, <2>3, <3>2, <4>1 DEF Fresh
      <4> QED  BY <3>1, <4>1, <4>2 DEF FreshPromiseIsKept, Held
    <3>4. PICK i \in 1..Len(rows) : \E p \in DOMAIN rows[i].changes :
             Retains(rows[i].changes[p], v) /\ rows[i].at = blobs[v].at
      BY <2>2, <3>3 DEF BlobsInv
    <3>5. i >= m[1]
      BY <1>1, <2>0, <2>3, <3>2, <3>4
    <3>6. rows[m[1]].at <= blobs[v].at
      BY <2>3, <3>4, <3>5 DEF RowsInv
    <3>7. rows[m[1]].at \in Nat /\ blobs[v].at \in Nat
      <4>1. rows[m[1]] \in Row
        BY <1>1, <2>3
      <4>2. blobs[v] \in Blob
        BY <2>2, <3>3 DEF TypeOK
      <4> QED  BY <4>1, <4>2 DEF Row, Blob
    <3>8. day <= rows[m[1]].at + Retention
      BY <2>3, <3>2
    <3>9. ~(blobs[v].at + Retention < day)
      BY <1>1, <3>6, <3>7, <3>8, BoundAssumption
    <3> QED  BY <1>2, <2>2, <3>3, <3>9, StoreWorks
  <2>4. CASE m[1] = n
    <3>1. blobs[v] = NoBlob
      <4> SUFFICES ASSUME blobs[v] # NoBlob PROVE FALSE
        OBVIOUS
      <4>1. PICK i \in 1..Len(rows) :
               \E p \in DOMAIN rows[i].changes : Retains(rows[i].changes[p], v)
        BY <2>2 DEF BlobsInv
      <4> QED  BY <1>1, <2>0, <2>4, <4>1
    <3>2. m[2] \in DOMAIN Changes(to) /\ Retains(Changes(to)[m[2]], v)
      BY <1>1, <1>3, <2>b, <2>1, <2>2, <2>4 DEF Retains
    <3>3. PICK p \in DOMAIN to : Retains(Changes(to)[p], v)
                                 /\ blobs'[v] = NewBlob(Changes(to)[p], v)
      BY <1>2, <2>2, <3>1, <3>2, StoreWorks
    <3>4. ~Changes(to)[p].redacted
      BY <1>1, <1>2, <1>3, <2>0, <2>4, <3>3
    <3>5. /\ NewBlob(Changes(to)[p], v) # NoBlob
          /\ NewBlob(Changes(to)[p], v).redacted = Changes(to)[p].redacted
      BY <1>1, <1>2, <1>4, <2>2, <3>3, NewBlobType
    <3> QED  BY <3>3, <3>4, <3>5
  <2> QED  BY <1>1, <2>1, <2>3, <2>4
<1> QED
  BY <1>5, <1>6, <1>7, <1>9, <1>10, <1>11, <1>12, <1>13, <1>14 DEF JournalInv, TypeOK

-----------------------------------------------------------------------------

(* A revert's plan names a row and its pre-images; rows are only added.    *)
LEMMA PlansKept ==
    ASSUME IInv, NEW r \in Reverters, plans[r] # NoPlan, rows' = rows \/
           \E x : rows' = Append(rows, x)
    PROVE  /\ plans[r].of \in 1..Len(rows')
           /\ DOMAIN plans[r].contents = DOMAIN rows'[plans[r].of].changes
           /\ \A p \in DOMAIN plans[r].contents :
                  plans[r].contents[p] = rows'[plans[r].of].changes[p].old
<1>1. plans[r].of \in 1..Len(rows) /\ rows \in Seq(Row)
  BY DEF IInv, PlansInv, TypeOK
<1>2. rows'[plans[r].of] = rows[plans[r].of] /\ plans[r].of \in 1..Len(rows')
  BY <1>1
<1> QED  BY <1>2 DEF IInv, PlansInv

(* A transaction that the plans of reverts do not change with.             *)
LEMMA TransactionInv ==
    ASSUME IInv, JournalInv', NEW to \in PathsTo(Files), NEW u, Begin(to, u),
           \A p \in DOMAIN to : to[p] # Rendering,
           NEW S \in SUBSET DOMAIN to,
           files' = [p \in Paths |-> IF p \in S THEN to[p] ELSE files[p]],
           UNCHANGED <<day, classified>>,
           \A r \in Reverters : plans'[r] \in {plans[r], NoPlan},
           plans' \in [Reverters -> Plan \union {NoPlan}]
    PROVE  IInv'
<1>1. \A p \in Paths : files'[p] \in Files /\ files'[p] # Rendering
  BY PathsToFields DEF IInv, TypeOK, NoPlaceholderLiteral
<1>2. files' \in [Paths -> Files] /\ NoPlaceholderLiteral'
  BY <1>1 DEF NoPlaceholderLiteral
<1>4. TypeOK'
  BY <1>2 DEF IInv, TypeOK, JournalInv
<1>5. PlansInv'
  <2> SUFFICES ASSUME NEW r \in Reverters, plans'[r] # NoPlan
               PROVE  /\ plans'[r].of \in 1..Len(rows')
                      /\ DOMAIN plans'[r].contents = DOMAIN rows'[plans'[r].of].changes
                      /\ \A p \in DOMAIN plans'[r].contents :
                             plans'[r].contents[p] = rows'[plans'[r].of].changes[p].old
    BY DEF PlansInv
  <2>1. plans'[r] = plans[r]
    OBVIOUS
  <2>2. \E x : rows' = Append(rows, x)
    BY DEF Begin
  <2> QED  BY <2>1, <2>2, PlansKept
<1> QED  BY <1>2, <1>4, <1>5 DEF IInv, JournalInv

(* Edits, whole or torn, write contents, over files that can be loaded.    *)
LEMMA WriteFacts ==
    ASSUME NEW to \in Writes, \A p \in DOMAIN to : Possible(p, to[p])
    PROVE  /\ to \in PathsTo(Files)
           /\ \A p \in DOMAIN to : to[p] # Rendering /\ (to[p] = Absent => files[p] # Absent)
<1>1. PICK S \in SUBSET Paths : to \in [S -> Contents \union {Absent}]
  BY WriteAssumption DEF PathsTo
<1>2. to \in [S -> Files] /\ \A p \in DOMAIN to : to[p] # Rendering
  BY <1>1, ContentAssumption DEF Files
<1>3. to \in PathsTo(Files)
  BY <1>2 DEF PathsTo
<1> QED  BY <1>2, <1>3 DEF Possible

LEMMA EditInv == ASSUME IInv, NEW to \in Writes, Edit(to) PROVE IInv'
<1>1. /\ to \in PathsTo(Files)
      /\ \A p \in DOMAIN to : to[p] # Rendering /\ (to[p] = Absent => files[p] # Absent)
  BY WriteFacts DEF Edit
<1>2. /\ Begin(to, 0) /\ UNCHANGED <<classified, day, plans>>
      /\ files' = [p \in Paths |-> IF p \in DOMAIN to THEN to[p] ELSE files[p]]
      /\ promised' = promised \union
           {<<Len(rows) + 1, p>> : p \in {q \in DOMAIN to : to[q] = Absent /\ q \notin classified}}
      /\ blobs' \in {Insert(Changes(to)), Swept(Insert(Changes(to)))}
  BY DEF Edit, Complete
<1>3. 0 \in 0..Len(rows)
  BY DEF IInv, TypeOK
<1>4. JournalInv'
  BY <1>1, <1>2, <1>3, RecordInv
<1>5. plans' \in [Reverters -> Plan \union {NoPlan}]
  BY <1>2 DEF IInv, TypeOK
<1> QED  BY <1>1, <1>2, <1>4, <1>5, TransactionInv

LEMMA TornInv ==
    ASSUME IInv, NEW to \in Writes, NEW landed \in SUBSET DOMAIN to, Torn(to, landed)
    PROVE  IInv'
<1>1. /\ to \in PathsTo(Files)
      /\ \A p \in DOMAIN to : to[p] # Rendering /\ (to[p] = Absent => files[p] # Absent)
  BY WriteFacts DEF Torn
<1>2. /\ Begin(to, 0) /\ UNCHANGED <<classified, day, plans, promised>>
      /\ files' = [p \in Paths |-> IF p \in landed THEN to[p] ELSE files[p]]
      /\ blobs' = Insert(Changes(to))
  BY DEF Torn
<1>3. 0 \in 0..Len(rows)
  BY DEF IInv, TypeOK
<1>4. JournalInv'
  BY <1>1, <1>2, <1>3, RecordInv
<1>5. plans' \in [Reverters -> Plan \union {NoPlan}]
  BY <1>2 DEF IInv, TypeOK
<1> QED  BY <1>1, <1>2, <1>4, <1>5, TransactionInv

(* A revert that applies swaps the two sides of the row it undoes.         *)
LEMMA RevertApplyInv == ASSUME IInv, NEW r \in Reverters, RevertApply(r) PROVE IInv'
<1> DEFINE to == plans[r].contents
           t  == plans[r].of
<1>1. /\ plans[r] # NoPlan /\ Matches(r) /\ Begin(to, t)
      /\ UNCHANGED <<classified, day>> /\ plans' = [plans EXCEPT ![r] = NoPlan]
      /\ files' = [p \in Paths |-> IF p \in DOMAIN to THEN to[p] ELSE files[p]]
      /\ promised' = promised \union
           {<<Len(rows) + 1, p>> : p \in {q \in DOMAIN to : to[q] = Absent /\ q \notin classified}}
      /\ blobs' \in {Insert(Changes(to)), Swept(Insert(Changes(to)))}
  BY DEF RevertApply, Complete
<1>2. plans[r] \in Plan
  BY <1>1 DEF IInv, TypeOK
<1>3. to \in PathsTo(Files)
  BY <1>2 DEF Plan
<1>4. /\ t \in 1..Len(rows) /\ DOMAIN to = DOMAIN rows[t].changes
      /\ \A p \in DOMAIN to : to[p] = rows[t].changes[p].old
  BY <1>1 DEF IInv, PlansInv
<1>5. \A p \in DOMAIN to : files[p] = rows[t].changes[p].new
  BY <1>1 DEF Matches
<1>6. \A p \in DOMAIN to : to[p] # Rendering /\ (to[p] = Absent => files[p] # Absent)
  BY <1>4, <1>5 DEF IInv, RowsInv, Deletes
<1>7. t \in 0..Len(rows)
  BY <1>4 DEF IInv, TypeOK
<1> HIDE DEF to, t
<1>8. JournalInv'
  BY <1>1, <1>3, <1>4, <1>5, <1>6, <1>7, RecordInv
<1>9. /\ plans' \in [Reverters -> Plan \union {NoPlan}]
      /\ \A q \in Reverters : plans'[q] \in {plans[q], NoPlan}
  BY <1>1 DEF IInv, TypeOK
<1> QED  BY <1>1, <1>3, <1>6, <1>8, <1>9, TransactionInv

(* Steps that leave rows and blobs alone leave what promises say of them.  *)
LEMMA RowsUnchanged ==
    ASSUME UNCHANGED rows, NEW m
    PROVE  Version(m)' = Version(m) /\ (Fresh(m)' <=> Fresh(m))
<1>1. Version(m)' = Version(m)
  BY DEF Version
<1>2. Fresh(m)' <=> Fresh(m)
  BY <1>1 DEF Fresh, Retains, Deletes, Version
<1> QED  BY <1>1, <1>2

(* The same of whether it is held, when the blobs stay too.                *)
LEMMA FreshUnchanged ==
    ASSUME UNCHANGED <<rows, blobs>>, NEW m
    PROVE  /\ Version(m)' = Version(m)
           /\ Fresh(m)' <=> Fresh(m)
           /\ Held(Version(m))' <=> Held(Version(m))
<1>1. Version(m)' = Version(m)
  BY RowsUnchanged
<1>2. Fresh(m)' <=> Fresh(m)
  BY RowsUnchanged
<1>3. Held(Version(m))' <=> Held(Version(m))
  BY <1>1 DEF Held
<1> QED  BY <1>1, <1>2, <1>3

LEMMA JournalUnchanged ==
    ASSUME UNCHANGED <<rows, blobs, promised, day>>, ExpiresOnlyOld, FreshPromiseIsKept
    PROVE  ExpiresOnlyOld' /\ FreshPromiseIsKept'
<1>1. ExpiresOnlyOld'
  BY DEF ExpiresOnlyOld, Retains, Deletes
<1>2. FreshPromiseIsKept'
  BY FreshUnchanged DEF FreshPromiseIsKept
<1> QED  BY <1>1, <1>2

(* A revert that passes its checks holds exactly the pre-images of its row.*)
LEMMA RevertPlanInv ==
    ASSUME IInv, NEW r \in Reverters, NEW t \in 1..Len(rows), RevertPlan(r, t)
    PROVE  IInv'
<1> DEFINE c == rows[t].changes
           contents == [p \in DOMAIN c |-> Restores(c[p])]
           plan == [of |-> t, contents |-> contents]
<1>1. /\ plans' = [plans EXCEPT ![r] = plan]
      /\ \A p \in DOMAIN c : Restorable(p, c[p])
      /\ UNCHANGED <<files, classified, day, rows, blobs, promised>>
  BY DEF RevertPlan
<1>2. c \in PathsTo(Change) /\ t \in Nat
  <2>1. rows[t] \in Row /\ t \in Nat
    BY DEF IInv, TypeOK
  <2> QED  BY <2>1 DEF Row
<1>3. \A p \in DOMAIN c : c[p] \in Change /\ p \in Paths
  BY <1>2, PathsToFields
<1>4. ASSUME NEW p \in DOMAIN c PROVE Restores(c[p]) = c[p].old /\ c[p].old \in Files
  <2>1. c[p].old \in Files /\ c[p].old # Rendering
    BY <1>3 DEF Change, IInv, RowsInv
  <2>2. CASE c[p].old = Absent
    BY <2>1, <2>2 DEF Restores
  <2>3. CASE c[p].old # Absent
    <3>1. c[p].old \in DOMAIN blobs
      BY <2>1, <2>3 DEF Files, IInv, TypeOK
    <3>2. blobs[c[p].old] # NoBlob /\ ~blobs[c[p].old].redacted
      BY <1>1, <2>3 DEF Restorable
    <3>3. blobs[c[p].old].content = c[p].old
      BY <3>1, <3>2 DEF IInv, BlobsInv
    <3> QED  BY <2>1, <2>3, <3>3 DEF Restores
  <2> QED  BY <2>2, <2>3
<1>5. /\ DOMAIN contents = DOMAIN c /\ contents \in [DOMAIN c -> Files]
      /\ \A p \in DOMAIN c : contents[p] = c[p].old
  BY <1>4
<1>6. contents \in PathsTo(Files)
  BY <1>3, <1>5 DEF PathsTo
<1> HIDE DEF contents
<1>7. plan \in Plan /\ plan.of = t /\ plan.contents = contents
  BY <1>2, <1>6 DEF Plan
<1> HIDE DEF plan
<1>8. /\ \A q \in Reverters : q # r => plans'[q] = plans[q]
      /\ plans'[r] = plan /\ plans' \in [Reverters -> Plan \union {NoPlan}]
  BY <1>1, <1>7 DEF IInv, TypeOK
<1>9. TypeOK'
  BY <1>1, <1>8 DEF IInv, TypeOK
<1>10. PlansInv'
  BY <1>1, <1>5, <1>7, <1>8 DEF IInv, PlansInv
<1>11. (RowsInv /\ BlobsInv /\ PromisesInv /\ RevertIsInverse /\ NoPlaceholderLiteral)'
  BY <1>1 DEF IInv, RowsInv, BlobsInv, PromisesInv, RevertIsInverse, NoPlaceholderLiteral,
     Retains, Deletes
<1>12. ExpiresOnlyOld' /\ FreshPromiseIsKept'
  BY <1>1, JournalUnchanged DEF IInv
<1> QED  BY <1>9, <1>10, <1>11, <1>12 DEF IInv

(* A sweep takes only what is out of the window.                           *)
LEMMA RestartInv == ASSUME IInv, Restart PROVE IInv'
<1>1. /\ classified' \in Classifications /\ blobs' = Swept(blobs)
      /\ plans' = [r \in Reverters |-> NoPlan]
      /\ UNCHANGED <<files, day, rows, promised>>
  BY DEF Restart
<1>2. /\ DOMAIN blobs' = DOMAIN blobs
      /\ \A v \in DOMAIN blobs :
             \/ blobs'[v] = blobs[v]
             \/ blobs'[v] = NoBlob /\ blobs[v] # NoBlob /\ blobs[v].at + Retention < day
  BY <1>1 DEF Swept, Expired
<1>3. TypeOK'
  BY <1>1, <1>2 DEF IInv, TypeOK
<1>4. BlobsInv'
  BY <1>1, <1>2 DEF IInv, BlobsInv, Retains, Deletes
<1>5. ExpiresOnlyOld'
  <2> SUFFICES ASSUME NEW i \in 1..Len(rows), NEW p \in DOMAIN rows[i].changes,
                      NEW v \in DOMAIN blobs,
                      Retains(rows[i].changes[p], v), blobs'[v] = NoBlob
               PROVE  \E j \in 1..Len(rows) : \E q \in DOMAIN rows[j].changes :
                          Retains(rows[j].changes[q], v) /\ rows[j].at + Retention < day
    BY <1>1, <1>2 DEF ExpiresOnlyOld, Retains, Deletes
  <2>1. CASE blobs[v] = NoBlob
    BY <2>1 DEF IInv, ExpiresOnlyOld
  <2>2. CASE blobs[v] # NoBlob
    BY <1>2, <2>2 DEF IInv, BlobsInv
  <2> QED  BY <2>1, <2>2
<1>6. FreshPromiseIsKept'
  <2> SUFFICES ASSUME NEW m \in promised, Fresh(m), day <= rows[m[1]].at + Retention
               PROVE  Held(Version(m))'
    <3>1. \A m \in promised : Version(m)' = Version(m) /\ (Fresh(m)' <=> Fresh(m))
      BY <1>1, RowsUnchanged
    <3>2. promised' = promised /\ day' = day /\ rows' = rows
      BY <1>1
    <3> QED  BY <3>1, <3>2 DEF FreshPromiseIsKept, Held
  <2> DEFINE v == Version(m)
  <2>1. blobs[v] # NoBlob /\ ~blobs[v].redacted
    BY DEF IInv, FreshPromiseIsKept, Held
  <2>9. v' = v
    BY <1>1 DEF Version
  <2>2. m[1] \in 1..Len(rows) /\ m[2] \in DOMAIN rows[m[1]].changes
        /\ Deletes(rows[m[1]].changes[m[2]])
    BY DEF IInv, PromisesInv
  <2>3. v \in DOMAIN blobs
    <3>1. rows[m[1]] \in Row
      BY <2>2 DEF IInv, TypeOK
    <3>2. rows[m[1]].changes[m[2]] \in Change
      BY <2>2, <3>1, PathsToFields DEF Row
    <3> QED  BY <2>2, <3>2 DEF IInv, RowsInv, TypeOK, Change, Files, Version
  <2>4. PICK i \in 1..Len(rows) : \E p \in DOMAIN rows[i].changes :
           Retains(rows[i].changes[p], v) /\ rows[i].at = blobs[v].at
    BY <2>1, <2>3 DEF IInv, BlobsInv
  <2>5. i >= m[1]
    BY <2>2, <2>4 DEF IInv, TypeOK, Fresh
  <2>6. rows[m[1]].at <= blobs[v].at
    BY <2>2, <2>4, <2>5 DEF IInv, RowsInv
  <2>7. rows[m[1]].at \in Nat /\ blobs[v].at \in Nat /\ day \in Nat
    <3>1. rows[m[1]] \in Row /\ blobs[v] \in Blob /\ day \in Nat
      BY <2>1, <2>2, <2>3 DEF IInv, TypeOK
    <3> QED  BY <3>1 DEF Row, Blob
  <2>8. ~(blobs[v].at + Retention < day)
    BY <2>6, <2>7, BoundAssumption, SMTT(30)
  <2>10. blobs'[v] = blobs[v]
    BY <1>2, <2>1, <2>3, <2>8
  <2> QED  BY <2>1, <2>9, <2>10 DEF Held
<1>7. PlansInv'
  BY <1>1 DEF PlansInv
<1>8. (RowsInv /\ PromisesInv /\ RevertIsInverse /\ NoPlaceholderLiteral)'
  BY <1>1 DEF IInv, RowsInv, PromisesInv, RevertIsInverse, NoPlaceholderLiteral, Deletes
<1> QED  BY <1>3, <1>4, <1>5, <1>6, <1>7, <1>8 DEF IInv

LEMMA TickInv == ASSUME IInv, Tick PROVE IInv'
<1>1. /\ day \in 0..MaxDays /\ day < MaxDays /\ day' = day + 1
      /\ UNCHANGED <<files, classified, rows, blobs, plans, promised>>
  BY DEF Tick, IInv, TypeOK
<1>2. \A i \in 1..Len(rows) : rows[i] \in Row /\ rows[i].at \in Nat
  <2>1. \A i \in 1..Len(rows) : rows[i] \in Row
    BY DEF IInv, TypeOK
  <2> QED  BY <2>1 DEF Row
<1>3. TypeOK'
  BY <1>1, BoundAssumption DEF IInv, TypeOK
<1>4. RowsInv'
  BY <1>1, <1>2 DEF IInv, RowsInv, Deletes
<1>5. ExpiresOnlyOld'
  <2> SUFFICES ASSUME NEW i \in 1..Len(rows), NEW p \in DOMAIN rows[i].changes,
                      NEW v \in DOMAIN blobs,
                      Retains(rows[i].changes[p], v), blobs[v] = NoBlob
               PROVE  \E j \in 1..Len(rows) : \E q \in DOMAIN rows[j].changes :
                          Retains(rows[j].changes[q], v) /\ rows[j].at + Retention < day + 1
    BY <1>1 DEF ExpiresOnlyOld, Retains, Deletes
  <2>1. PICK j \in 1..Len(rows) : \E q \in DOMAIN rows[j].changes :
             Retains(rows[j].changes[q], v) /\ rows[j].at + Retention < day
    BY DEF IInv, ExpiresOnlyOld
  <2>2. rows[j].at + Retention < day + 1
    BY <1>1, <1>2, <2>1, BoundAssumption
  <2> QED  BY <2>1, <2>2
<1>6. FreshPromiseIsKept'
  <2>1. \A m \in promised :
            day + 1 <= rows[m[1]].at + Retention => day <= rows[m[1]].at + Retention
    BY <1>1, <1>2, BoundAssumption DEF IInv, PromisesInv
  <2> SUFFICES ASSUME NEW m \in promised, Fresh(m), day + 1 <= rows[m[1]].at + Retention
               PROVE  Held(Version(m))
    BY <1>1, FreshUnchanged DEF FreshPromiseIsKept
  <2> QED  BY <2>1 DEF IInv, FreshPromiseIsKept
<1>7. (BlobsInv /\ PlansInv /\ PromisesInv /\ RevertIsInverse /\ NoPlaceholderLiteral)'
  BY <1>1 DEF IInv, BlobsInv, PlansInv, PromisesInv, RevertIsInverse, NoPlaceholderLiteral,
     Retains, Deletes
<1> QED  BY <1>3, <1>4, <1>5, <1>6, <1>7 DEF IInv

(* Steps that leave the journal alone.                                     *)
LEMMA OutsideInv ==
    ASSUME IInv, UNCHANGED <<classified, day, rows, blobs, promised>>,
           files' \in [Paths -> Files], \A p \in Paths : files'[p] # Rendering,
           \A r \in Reverters : plans'[r] \in {plans[r], NoPlan},
           plans' \in [Reverters -> Plan \union {NoPlan}]
    PROVE  IInv'
<1>2. TypeOK' /\ NoPlaceholderLiteral'
  BY DEF IInv, TypeOK, NoPlaceholderLiteral
<1>3. PlansInv'
  BY DEF IInv, PlansInv
<1>4. (RowsInv /\ BlobsInv /\ PromisesInv /\ RevertIsInverse)'
  BY DEF IInv, RowsInv, BlobsInv, PromisesInv, RevertIsInverse, Retains, Deletes
<1>5. ExpiresOnlyOld' /\ FreshPromiseIsKept'
  BY JournalUnchanged DEF IInv
<1> QED  BY <1>2, <1>3, <1>4, <1>5 DEF IInv

(* A step keeps IInv.                                                      *)
LEMMA StepInv == IInv /\ [Next]_vars => IInv'
<1> SUFFICES ASSUME IInv, [Next]_vars PROVE IInv'
  OBVIOUS
<1>0. /\ files \in [Paths -> Files] /\ \A p \in Paths : files[p] # Rendering
      /\ plans \in [Reverters -> Plan \union {NoPlan}]
  BY DEF IInv, TypeOK, NoPlaceholderLiteral
<1>1. ASSUME NEW to \in Writes, Edit(to) PROVE IInv'
  BY <1>1, EditInv
<1>2. ASSUME NEW to \in Writes, External(to) PROVE IInv'
  <2>1. PICK S \in SUBSET Paths : to \in [S -> Contents \union {Absent}]
    BY WriteAssumption DEF PathsTo
  <2>2. /\ files' = [p \in Paths |-> IF p \in DOMAIN to THEN to[p] ELSE files[p]]
        /\ UNCHANGED <<classified, day, rows, blobs, plans, promised>>
    BY <1>2 DEF External
  <2>3. \A p \in Paths : files'[p] \in Files /\ files'[p] # Rendering
    BY <1>0, <2>1, <2>2, ContentAssumption DEF Files
  <2>4. files' \in [Paths -> Files]
    BY <2>2, <2>3
  <2> QED  BY <1>0, <2>2, <2>3, <2>4, OutsideInv
<1>3. ASSUME NEW to \in Writes, NEW landed \in SUBSET DOMAIN to, Torn(to, landed)
      PROVE  IInv'
  BY <1>3, TornInv
<1>4. ASSUME NEW r \in Reverters, NEW t \in 1..Len(rows), RevertPlan(r, t) PROVE IInv'
  BY <1>4, RevertPlanInv
<1>5. ASSUME NEW r \in Reverters, RevertApply(r) PROVE IInv'
  BY <1>5, RevertApplyInv
<1>6. ASSUME NEW r \in Reverters, RevertRefused(r) PROVE IInv'
  <2>1. /\ plans' = [plans EXCEPT ![r] = NoPlan]
        /\ UNCHANGED <<files, classified, day, rows, blobs, promised>>
    BY <1>6 DEF RevertRefused
  <2>2. /\ \A q \in Reverters : plans'[q] \in {plans[q], NoPlan}
        /\ plans' \in [Reverters -> Plan \union {NoPlan}]
    BY <1>0, <2>1
  <2> QED  BY <1>0, <2>1, <2>2, OutsideInv
<1>7. CASE Tick
  BY <1>7, TickInv
<1>8. CASE Restart
  BY <1>8, RestartInv
<1>9. CASE UNCHANGED vars
  <2>1. UNCHANGED <<files, classified, day, rows, blobs, plans, promised>>
    BY <1>9 DEF vars
  <2> QED  BY <1>0, <2>1, OutsideInv
<1> QED
  BY <1>1, <1>2, <1>3, <1>4, <1>5, <1>6, <1>7, <1>8, <1>9 DEF Next

THEOREM Invariant == Spec => []IInv
  BY InitInv, StepInv, PTL DEF Spec

(* The type of every variable holds in every history.                      *)
THEOREM TypeCorrect == Spec => []TypeOK
  BY Invariant, PTL DEF IInv

(* A revert is the inverse of what it undoes, whatever comes between its   *)
(* checks and its transaction.                                             *)
THEOREM RevertsAreInverse == Spec => []RevertIsInverse
  BY Invariant, PTL DEF IInv

(* No file is ever restored to placeholders.                               *)
THEOREM NoPlaceholders == Spec => []NoPlaceholderLiteral
  BY Invariant, PTL DEF IInv

(* The journal keeps no plaintext shadow of classified files.              *)
THEOREM NoShadow == Spec => []NoPlaintextShadow
<1>1. IInv => NoPlaintextShadow
  <2> SUFFICES ASSUME IInv, NEW v \in DOMAIN blobs, blobs[v] # NoBlob,
                      blobs[v].content # Rendering
               PROVE  \E i \in 1..Len(rows) : \E p \in DOMAIN rows[i].changes :
                          LET c == rows[i].changes[p]
                          IN  ~c.redacted /\ v \in {c.old, c.new}
    BY DEF NoPlaintextShadow
  <2>1. ~blobs[v].redacted
    BY DEF IInv, BlobsInv
  <2>2. PICK i \in 1..Len(rows) : \E p \in DOMAIN rows[i].changes :
           /\ Retains(rows[i].changes[p], v)
           /\ rows[i].changes[p].redacted = blobs[v].redacted
    BY DEF IInv, BlobsInv
  <2> QED  BY <2>1, <2>2 DEF Retains
<1> QED  BY <1>1, Invariant, PTL

(* A diff shows of a classified path renderings only, and of any other     *)
(* what its versions name.                                                 *)
THEOREM DiffsAreHonest == Spec => []SidesAreHonest
<1>1. ASSUME IInv, NEW p \in Paths, NEW v, Retained(p, v).type = "shown", v \in Files
      PROVE  LET shown == Retained(p, v)
             IN  /\ p \in classified => shown.redacted /\ shown.text \notin Contents
                 /\ ~shown.redacted => shown.text = shown.version
  <2>1. v # Absent /\ blobs[v] # NoBlob
    BY <1>1 DEF Retained, NotShown
  <2>2. v \in DOMAIN blobs
    BY <1>1, <2>1 DEF IInv, TypeOK, Files
  <2>3. blobs[v].content = IF blobs[v].redacted THEN Rendering ELSE v
    BY <1>1, <2>1, <2>2 DEF IInv, BlobsInv
  <2>4. blobs[v].redacted \in BOOLEAN
    BY <1>1, <2>1, <2>2 DEF IInv, TypeOK, Blob
  <2>5. Rendering \notin Contents /\ Withheld \notin Contents
    BY ContentAssumption, WithheldAssumption DEF Files
  <2>6. CASE p \in classified /\ ~blobs[v].redacted
    <3>1. Retained(p, v) = Shown(IF v \in Opaque THEN Withheld ELSE Rendering, v, TRUE)
      BY <2>1, <2>6 DEF Retained
    <3> QED  BY <3>1, <2>5 DEF Shown
  <2>7. CASE ~(p \in classified /\ ~blobs[v].redacted)
    <3>1. Retained(p, v) = Shown(blobs[v].content, v, blobs[v].redacted)
      BY <2>1, <2>7 DEF Retained
    <3> QED  BY <3>1, <2>3, <2>4, <2>5, <2>7 DEF Shown
  <2> QED  BY <2>6, <2>7
<1>2. ASSUME IInv, NEW p \in Paths, Current(p).type = "shown"
      PROVE  LET shown == Current(p)
             IN  /\ p \in classified => shown.redacted /\ shown.text \notin Contents
                 /\ ~shown.redacted => shown.text = shown.version
  BY <1>2, ContentAssumption DEF Current, Shown, NotShown
<1>3. ASSUME IInv, NEW side \in Sides, NEW p \in Paths, Materialise(p, side).type = "shown"
      PROVE  LET shown == Materialise(p, side)
             IN  /\ p \in classified => shown.redacted /\ shown.text \notin Contents
                 /\ ~shown.redacted => shown.text = shown.version
  <2>1. CASE side = [type |-> "current"]
    <3>1. Materialise(p, side) = Current(p)
      BY <2>1 DEF Materialise
    <3> QED  BY <3>1, <1>2, <1>3
  <2>2. ASSUME NEW v \in DOMAIN blobs, side = [type |-> "version", of |-> v]
        PROVE  LET shown == Materialise(p, side)
               IN  /\ p \in classified => shown.redacted /\ shown.text \notin Contents
                   /\ ~shown.redacted => shown.text = shown.version
    <3>1. Materialise(p, side) = Retained(p, v)
      BY <2>2 DEF Materialise
    <3>2. v \in Files
      BY <1>3 DEF IInv, TypeOK, Files
    <3> QED  BY <3>1, <3>2, <1>1, <1>3
  <2>3. ASSUME NEW i \in 1..Len(rows), side = [type |-> "txn", id |-> i]
        PROVE  LET shown == Materialise(p, side)
               IN  /\ p \in classified => shown.redacted /\ shown.text \notin Contents
                   /\ ~shown.redacted => shown.text = shown.version
    <3>1. Materialise(p, side) = IF p \in DOMAIN rows[i].changes
                                 THEN Retained(p, TxnVersion(p, i))
                                 ELSE NotShown("not_found")
      BY <2>3 DEF Materialise
    <3>2. p \in DOMAIN rows[i].changes
      BY <3>1, <1>3 DEF NotShown
    <3>3. rows[i] \in Row
      BY <1>3 DEF IInv, TypeOK
    <3>4. rows[i].changes \in PathsTo(Change)
      BY <3>3 DEF Row
    <3>5. rows[i].changes[p] \in Change
      BY <3>2, <3>4, PathsToFields
    <3>6. TxnVersion(p, i) \in Files
      BY <3>5 DEF Change, TxnVersion
    <3> QED  BY <3>1, <3>2, <3>6, <1>1, <1>3
  <2> QED  BY <1>3, <2>1, <2>2, <2>3 DEF Sides
<1>4. IInv => SidesAreHonest
  BY <1>3 DEF SidesAreHonest
<1> QED  BY <1>4, Invariant, PTL

(* Content leaves the journal only out of the window.                      *)
THEOREM ExpiryIsHonest == Spec => []ExpiresOnlyOld
  BY Invariant, PTL DEF IInv

(* A delete of content the journal sees for the first time can be undone   *)
(* for the whole window.                                                   *)
THEOREM FreshPromisesAreKept == Spec => []FreshPromiseIsKept
  BY Invariant, PTL DEF IInv
=============================================================================
