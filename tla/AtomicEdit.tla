----------------------------- MODULE AtomicEdit -----------------------------
(***************************************************************************)
(* What the edit tool promises (R2): a call declares the version of each   *)
(* file it touches, and it either takes effect at one point, on the files  *)
(* as declared, or not at all.  The one exception the code documents is a  *)
(* torn call: some of its files, at one point, and marked as torn.         *)
(***************************************************************************)
CONSTANTS Txns, Paths, Contents, Absent, None, Requests

VARIABLES
    store,   \* the files
    req,     \* what each call asked for (None: not yet called)
    fate     \* "open", "applied", "refused" or "torn"

vars == <<store, req, fate>>

OnDisk == Contents \union {Absent}

Init ==
    /\ store \in [Paths -> OnDisk]
    /\ req = [t \in Txns |-> None]
    /\ fate = [t \in Txns |-> "open"]

(* Every declared version is the current one; what is created without one  *)
(* is new, or may be replaced.                                             *)
Fits(t) == \A p \in Paths :
    \/ req[t].base[p] = None /\ req[t].want[p] = None
    \/ req[t].base[p] = store[p]
    \/ /\ req[t].base[p] = None
       /\ store[p] = Absent \/ p \in req[t].overwrite

Overlay(t, S) == [p \in Paths |-> IF p \in S THEN req[t].want[p] ELSE store[p]]

Touched(t) == {p \in Paths : req[t].want[p] # None}

Decide(t, verdict) ==
    /\ req[t] # None /\ fate[t] = "open"
    /\ fate' = [fate EXCEPT ![t] = verdict]
    /\ UNCHANGED req

Ask(t) ==
    /\ req[t] = None
    /\ \E r \in Requests : req' = [req EXCEPT ![t] = r]
    /\ UNCHANGED <<store, fate>>

Apply(t) ==
    /\ Decide(t, "applied") /\ ~req[t].dry
    /\ Fits(t)
    /\ store' = Overlay(t, Touched(t))

Refuse(t) == Decide(t, "refused") /\ UNCHANGED store

Tear(t) ==
    /\ Decide(t, "torn") /\ ~req[t].dry
    /\ Fits(t)
    /\ \E S \in SUBSET Touched(t) : store' = Overlay(t, S)

External ==
    /\ \E p \in Paths, c \in OnDisk : store' = [store EXCEPT ![p] = c]
    /\ UNCHANGED <<req, fate>>

Next ==
    \/ \E t \in Txns : Ask(t) \/ Apply(t) \/ Refuse(t) \/ Tear(t)
    \/ External

Spec == Init /\ [][Next]_vars
=============================================================================
