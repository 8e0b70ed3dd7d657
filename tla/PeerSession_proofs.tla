------------------------- MODULE PeerSession_proofs -------------------------
(***************************************************************************)
(* Proofs about PeerSession, for every number of calls, sessions and       *)
(* deaths.                                                                 *)
(***************************************************************************)
EXTENDS PeerSession, TLAPS

(* The initial state satisfies the invariant.                              *)
LEMMA Initially == Init => IInv
<1> SUFFICES ASSUME Init PROVE IInv
  OBVIOUS
<1> USE SlotAssumption DEF Init
<1>1. TypeOK
  <2>1. [s \in Sessions |-> 0] \in [Sessions -> Nat]
    OBVIOUS
  <2>2. ran \in [Calls -> [Sessions -> Nat]]
    BY <2>1
  <2>3. attempt \in [Calls -> 0..1]
    OBVIOUS
  <2> QED BY <2>2, <2>3 DEF TypeOK, Steps, Outcomes
<1>2. SlotInv
  BY DEF SlotInv
<1>3. ASSUME NEW c \in Calls PROVE RequestInv(c)
  BY DEF RequestInv, Open
<1> QED BY <1>1, <1>2, <1>3 DEF IInv

(* Every step preserves the types.                                         *)
LEMMA TypeStep ==
    ASSUME IInv, [Next]_vars
    PROVE  TypeOK'
<1> USE SlotAssumption DEF IInv, TypeOK, Steps, Outcomes
<1>1. ASSUME NEW c \in Calls, Start(c) PROVE TypeOK'
  BY <1>1 DEF Start, Goto
<1>2. ASSUME NEW c \in Calls, Reuse(c) PROVE TypeOK'
  BY <1>2 DEF Reuse, Goto
<1>3. ASSUME NEW c \in Calls, Miss(c) PROVE TypeOK'
  BY <1>3 DEF Miss, Goto
<1>4. ASSUME NEW c \in Calls, Connect(c) PROVE TypeOK'
  <2>1. PICK s \in Sessions :
           life' = [life EXCEPT ![s] = "open"] /\ slot' = s /\ sess' = [sess EXCEPT ![c] = s]
    BY <1>4 DEF Connect
  <2>2. life' \in [Sessions -> {"unbuilt", "open", "closed"}]
    BY <2>1
  <2>3. pc' \in [Calls -> Steps]
    BY <1>4 DEF Connect, Goto
  <2>4. sess' \in [Calls -> Sessions \union {NoSession}]
    BY <2>1
  <2> QED BY <1>4, <2>1, <2>2, <2>3, <2>4 DEF Connect
<1>5. ASSUME NEW c \in Calls, ConnectFails(c) \/ ConnectRefused(c) PROVE TypeOK'
  BY ZenonT(40), <1>5 DEF ConnectFails, ConnectRefused, Answer, Goto
<1>6. ASSUME NEW c \in Calls, Send(c) \/ SendFails(c) \/ Closed(c) PROVE TypeOK'
  BY <1>6 DEF Send, SendFails, Closed, Open, Goto
<1>7. ASSUME NEW c \in Calls, PeerRuns(c) PROVE TypeOK'
  <2>1. PICK s \in Sessions : ran' = [ran EXCEPT ![c][s] = @ + 1] /\ sent' = sent \ {<<c, s>>}
    BY <1>7 DEF PeerRuns
  <2>2. ran[c][s] + 1 \in Nat
    OBVIOUS
  <2>3. ran' \in [Calls -> [Sessions -> Nat]]
    BY <2>1, <2>2
  <2> QED BY <1>7, <2>1, <2>3 DEF PeerRuns
<1>8. ASSUME NEW c \in Calls, Answered(c) \/ Errs(c) \/ Timeout(c) PROVE TypeOK'
  BY <1>8 DEF Answered, Errs, Timeout, Answer, Goto
<1>9. ASSUME NEW c \in Calls, Retry(c) PROVE TypeOK'
  BY <1>9 DEF Retry, Evict, Goto
<1>10. ASSUME NEW c \in Calls, Again(c) PROVE TypeOK'
  BY <1>10 DEF Again, RequestInv, Goto
<1>11. ASSUME NEW c \in Calls, GiveUp(c) PROVE TypeOK'
  BY <1>11 DEF GiveUp, Evict, Answer, Goto
<1>12. CASE SessionDies
  BY <1>12 DEF SessionDies
<1>13. CASE UNCHANGED vars
  BY <1>13 DEF vars
<1> QED BY <1>1, <1>2, <1>3, <1>4, <1>5, <1>6, <1>7, <1>8, <1>9, <1>10, <1>11, <1>12,
           <1>13 DEF Next, Proceed

(* Every step preserves what ties the slot, its lock and the open session. *)
LEMMA SlotStep ==
    ASSUME IInv, [Next]_vars
    PROVE  SlotInv'
<1> USE SlotAssumption DEF IInv, TypeOK, SlotInv
<1>1. ASSUME NEW c \in Calls, Start(c) PROVE SlotInv'
  BY <1>1 DEF Start, Goto
<1>2. ASSUME NEW c \in Calls, Reuse(c) PROVE SlotInv'
  BY <1>2 DEF Reuse, Goto
<1>3. ASSUME NEW c \in Calls, Miss(c) PROVE SlotInv'
  BY <1>3 DEF Miss, Open, Goto
<1>4. ASSUME NEW c \in Calls, Connect(c) PROVE SlotInv'
  BY <1>4 DEF Connect, Goto
<1>5. ASSUME NEW c \in Calls, ConnectFails(c) \/ ConnectRefused(c) PROVE SlotInv'
  BY <1>5 DEF ConnectFails, ConnectRefused, Answer, Goto
<1>6. ASSUME NEW c \in Calls, Send(c) \/ SendFails(c) \/ Closed(c) PROVE SlotInv'
  BY <1>6 DEF Send, SendFails, Closed, Goto
<1>7. ASSUME NEW c \in Calls, PeerRuns(c) PROVE SlotInv'
  BY <1>7 DEF PeerRuns
<1>8. ASSUME NEW c \in Calls, Answered(c) \/ Errs(c) \/ Timeout(c) PROVE SlotInv'
  BY <1>8 DEF Answered, Errs, Timeout, Answer, Goto
<1>9. ASSUME NEW c \in Calls, Retry(c) PROVE SlotInv'
  BY <1>9 DEF Retry, Evict, Goto
<1>10. ASSUME NEW c \in Calls, Again(c) PROVE SlotInv'
  BY <1>10 DEF Again, Goto
<1>11. ASSUME NEW c \in Calls, GiveUp(c) PROVE SlotInv'
  BY <1>11 DEF GiveUp, Evict, Answer, Goto
<1>12. CASE SessionDies
  BY <1>12 DEF SessionDies
<1>13. CASE UNCHANGED vars
  BY <1>13 DEF vars
<1> QED BY <1>1, <1>2, <1>3, <1>4, <1>5, <1>6, <1>7, <1>8, <1>9, <1>10, <1>11, <1>12,
           <1>13 DEF Next, Proceed

(* A step of one call preserves what is known of its own requests.         *)
LEMMA OwnStep ==
    ASSUME IInv, NEW c \in Calls, Start(c) \/ Proceed(c) \/ PeerRuns(c)
    PROVE  RequestInv(c)'
<1> USE SlotAssumption DEF IInv, TypeOK, SlotInv, RequestInv, Open
<1>1. CASE Start(c)
  BY <1>1 DEF Start, Goto
<1>2. CASE Reuse(c)
  BY <1>2 DEF Reuse, Goto
<1>3. CASE Miss(c)
  BY <1>3 DEF Miss, Goto
<1>4. CASE Connect(c)
  BY <1>4 DEF Connect, Goto
<1>5. CASE ConnectFails(c) \/ ConnectRefused(c)
  BY <1>5 DEF ConnectFails, ConnectRefused, Answer, Goto
<1>6. CASE Send(c)
  BY <1>6 DEF Send, Goto
<1>7. CASE SendFails(c) \/ Closed(c)
  BY <1>7 DEF SendFails, Closed, Goto
<1>8. CASE PeerRuns(c)
  BY <1>8 DEF PeerRuns
<1>9. CASE Answered(c) \/ Errs(c) \/ Timeout(c)
  BY <1>9 DEF Answered, Errs, Timeout, Answer, Goto
<1>10. CASE Retry(c)
  BY <1>10 DEF Retry, Evict, Goto
<1>11. CASE Again(c)
  BY <1>11 DEF Again, Goto
<1>12. CASE GiveUp(c)
  BY <1>12 DEF GiveUp, Evict, Answer, Goto
<1> QED BY <1>1, <1>2, <1>3, <1>4, <1>5, <1>6, <1>7, <1>8, <1>9, <1>10, <1>11, <1>12
        DEF Proceed

(* So does a step of another call, or the death of a session.              *)
LEMMA OtherStep ==
    ASSUME IInv, NEW d \in Calls,
           \/ \E c \in Calls \ {d} : Start(c) \/ Proceed(c) \/ PeerRuns(c)
           \/ SessionDies
           \/ UNCHANGED vars
    PROVE  RequestInv(d)'
<1> USE SlotAssumption DEF IInv, TypeOK, SlotInv, RequestInv, Open
<1>1. ASSUME NEW c \in Calls \ {d}, Start(c) \/ Reuse(c) \/ Miss(c) \/ Connect(c)
      PROVE  RequestInv(d)'
  BY <1>1 DEF Start, Reuse, Miss, Connect, Goto
<1>2. ASSUME NEW c \in Calls \ {d}, ConnectFails(c) \/ ConnectRefused(c)
      PROVE  RequestInv(d)'
  BY <1>2 DEF ConnectFails, ConnectRefused, Answer, Goto
<1>3. ASSUME NEW c \in Calls \ {d}, Send(c) \/ SendFails(c) \/ Closed(c) \/ PeerRuns(c)
      PROVE  RequestInv(d)'
  <2>1. CASE Send(c)
    BY <2>1, <1>3 DEF Send, Goto
  <2>2. CASE SendFails(c) \/ Closed(c)
    BY <2>2, <1>3 DEF SendFails, Closed, Goto
  <2>3. CASE PeerRuns(c)
    BY <2>3, <1>3 DEF PeerRuns
  <2> QED BY <1>3, <2>1, <2>2, <2>3
<1>4. ASSUME NEW c \in Calls \ {d}, Answered(c) \/ Errs(c) \/ Timeout(c) \/ Again(c)
      PROVE  RequestInv(d)'
  BY <1>4 DEF Answered, Errs, Timeout, Again, Answer, Goto
<1>5. ASSUME NEW c \in Calls \ {d}, Retry(c) \/ GiveUp(c)
      PROVE  RequestInv(d)'
  BY <1>5 DEF Retry, GiveUp, Evict, Answer, Goto
<1>6. CASE SessionDies
  BY <1>6 DEF SessionDies
<1>7. CASE UNCHANGED vars
  BY <1>7 DEF vars
<1> QED BY <1>1, <1>2, <1>3, <1>4, <1>5, <1>6, <1>7 DEF Proceed

(* Together: IInv is inductive.                                            *)
LEMMA Inductive == IInv /\ [Next]_vars => IInv'
<1> SUFFICES ASSUME IInv, [Next]_vars PROVE IInv'
  OBVIOUS
<1>1. ASSUME NEW d \in Calls PROVE RequestInv(d)'
  BY OwnStep, OtherStep DEF Next
<1> QED BY <1>1, TypeStep, SlotStep DEF IInv

LEMMA Always == Spec => []IInv
BY Initially, Inductive, PTL DEF Spec

(* Type correctness of the peer calls.                                     *)
THEOREM TypeCorrect == Spec => []TypeOK
<1>1. IInv => TypeOK
  BY DEF IInv
<1> QED BY <1>1, Always, PTL

(* The descriptor bound of sprint 025: no session is open outside the      *)
(* slot, for any number of concurrent calls.                               *)
THEOREM NoSessionStrays == Spec => []NoStraySession
<1>1. IInv => NoStraySession
  BY DEF IInv, SlotInv, NoStraySession
<1> QED BY <1>1, Always, PTL

(* A request that ran is not sent again while its first session lives.     *)
THEOREM ReplaysFollowClosure == Spec => []ReplayNeedsClosure
<1>1. ASSUME IInv, NEW c \in Calls, NEW s \in Sessions, ran[c][s] > 0
      PROVE  ran[c][s] = 1 /\ (sess[c] \in Sessions \ {s} => life[s] = "closed")
  <2>1. ran[c][s] \in Nat
    BY <1>1 DEF IInv, TypeOK
  <2>2. RequestInv(c)
    BY <1>1 DEF IInv
  <2>3. ran[c][s] <= 1
    BY <2>2 DEF RequestInv
  <2>4. ran[c][s] = 1
    BY <1>1, <2>1, <2>3
  <2> QED BY <1>1, <2>2, <2>4 DEF RequestInv
<1>2. IInv => ReplayNeedsClosure
  BY <1>1 DEF ReplayNeedsClosure
<1> QED BY <1>2, Always, PTL

(* host_unreachable at the first attempt means the peer saw nothing.       *)
THEOREM FirstUnreachablesAreUnseen == Spec => []FirstUnreachableIsUnseen
<1>1. IInv => FirstUnreachableIsUnseen
  BY DEF IInv, RequestInv, FirstUnreachableIsUnseen
<1> QED BY <1>1, Always, PTL
=============================================================================
