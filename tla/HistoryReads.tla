---------------------------- MODULE HistoryReads ----------------------------
(***************************************************************************)
(* diff, which puts two states of a file side by side: the content there   *)
(* is, or what the journal retains of an earlier one (history.rs).         *)
(*                                                                         *)
(* No content here carries the kaedignore marker, and paths are permitted  *)
(* ones: module Access has both.                                           *)
(***************************************************************************)
EXTENDS History

CONSTANT Withheld   \* the text in place of what has no rendering

ASSUME WithheldAssumption == Withheld \notin Files

-----------------------------------------------------------------------------
(* What a selector can name whose content there is, or may be.             *)
Sides ==
    {[type |-> "current"]}
    \union {[type |-> "txn", id |-> i] : i \in 1..Len(rows)}
    \union {[type |-> "version", of |-> v] : v \in {w \in DOMAIN blobs : blobs[w] # NoBlob}}

Shown(text, version, redacted) ==
    [type |-> "shown", text |-> text, version |-> version, redacted |-> redacted]
NotShown(reason) == [type |-> "error", reason |-> reason]

(* The working tree.                                                       *)
Current(p) ==
    IF files[p] = Absent THEN NotShown("not_found")
    ELSE IF ~Loadable(p) THEN NotShown("classified_opaque")
    ELSE IF p \in classified THEN Shown(Rendering, files[p], TRUE)
    ELSE Shown(files[p], files[p], FALSE)

(* Mutant: a blob is served as it was stored.                              *)
RetainedAsStored(p, v) ==
    IF v = Absent \/ blobs[v] = NoBlob THEN NotShown("blob_expired_or_absent")
    ELSE Shown(blobs[v].content, v, blobs[v].redacted)

(* What a transaction left behind, an applied one or a torn one.           *)
TxnVersion(p, id) == rows[id].changes[p].new

(* A blob, redacted by the rules of today if it was not when it was stored.*)
(* It is looked up by version only, whatever path it is asked for under.   *)
Retained(p, v) ==
    IF v = Absent \/ blobs[v] = NoBlob THEN NotShown("blob_expired_or_absent")
    ELSE IF p \in classified /\ ~blobs[v].redacted
    THEN Shown(IF v \in Opaque THEN Withheld ELSE Rendering, v, TRUE)
    ELSE Shown(blobs[v].content, v, blobs[v].redacted)

Materialise(p, side) ==
    CASE side.type = "current" -> Current(p)
      [] side.type = "version" -> Retained(p, side.of)
      [] side.type = "txn" ->
           IF side.id \in 1..Len(rows) /\ p \in DOMAIN rows[side.id].changes
           THEN Retained(p, TxnVersion(p, side.id))
           ELSE NotShown("not_found")

(* Each side of a diff of a path that is classified today is a rendering,  *)
(* and said to be redacted, whatever the rules were when its blob was      *)
(* written; and a side that is not said to be redacted is the very content *)
(* its version names, so the diff of two such sides is that of the files.  *)
SidesAreHonest ==
    \A side \in Sides : \A p \in Paths :
      LET shown == Materialise(p, side)
      IN shown.type = "shown" =>
           /\ p \in classified => shown.redacted /\ shown.text \notin Contents
           /\ ~shown.redacted => shown.text = shown.version
=============================================================================
