--------------------------- MODULE MCPeerSession ----------------------------
(***************************************************************************)
(* Two concurrent calls over one slot.  Three sessions let a session die,  *)
(* its successor be evicted and a third one answer.  Calls and sessions    *)
(* are interchangeable, which the runs without liveness use.               *)
(***************************************************************************)
EXTENDS PeerSession, TLC

Symmetry == Permutations(Calls) \union Permutations(Sessions)
=============================================================================
