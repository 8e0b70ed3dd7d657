---------------------------- MODULE MCDotenvEdits ---------------------------
(* Files whose values are plain, quoted, or hold a backslash.              *)
EXTENDS DotenvEdits, TLC

MCStarts ==
    {[lines |-> <<Comment("for A", FALSE), Entry(FALSE, "A", raw), Entry(TRUE, "B", <<>>)>>,
      ended |-> TRUE] : raw \in {<<"x">>, <<"'", "x", " ", "'">>, <<"x", "\\", "x">>}}

MCArgs == {<<"x">>, <<"x", " ">>}
=============================================================================
