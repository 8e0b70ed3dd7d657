----------------------------- MODULE MCEditTxn ------------------------------
(***************************************************************************)
(* Concurrent calls on two files.  The requests are the shapes of the      *)
(* engine's tests: an edit of one file, an edit of two files that shares a *)
(* base with it, a move (create one, delete the other), a blind create, a  *)
(* blind create and delete of whatever is there, and a dry run.            *)
(***************************************************************************)
EXTENDS EditTxn, TLC

CONSTANTS f1, f2, c1, c2

Base(a, b) == (f1 :> a @@ f2 :> b)

Call(base, want, overwrite) ==
    [base |-> base, want |-> want, overwrite |-> overwrite, dry |-> FALSE]

EditOne == Call(Base(c1, None), Base(c2, None), {})
EditTwo == Call(Base(c1, c1), Base(c2, c2), {})
Move    == Call(Base(c1, None), Base(Absent, c1), {f2})
CreateNew == Call(Base(None, None), Base(c2, None), {})
ReplaceGone == Call(Base(None, None), Base(Absent, c2), {f1})
DryEdit == [EditTwo EXCEPT !.dry = TRUE]

MCRequests == {EditOne, EditTwo, Move, CreateNew, ReplaceGone, DryEdit}
=============================================================================
