---------------------------- MODULE PeerSession -----------------------------
(***************************************************************************)
(* Proxied calls to one peer under one author (fleet::Peers::call): the    *)
(* session slot they share, the lock that is held across a connect, the    *)
(* eviction of failed sessions and the one retry.  The key (host, author)  *)
(* is fixed: slots of different keys share nothing but the map lock, which *)
(* is never held across an await on a slot.                                *)
(*                                                                         *)
(* The transport is rmcp's and external.  What fleet.rs relies on: a       *)
(* session that is cancelled or whose transport fails is closed for good,  *)
(* and every call still waiting on it gets TransportClosed; a send may     *)
(* fail before the request left, as TransportSend, and leaves the session  *)
(* as it was.                                                              *)
(***************************************************************************)
EXTENDS Naturals

CONSTANTS
    Calls,       \* proxied tool calls of one (host, author)
    Sessions,    \* the sessions this process may build
    NoSession,
    Free,        \* nobody holds the slot's lock
    MaxDeaths    \* bound: sessions that die of themselves

ASSUME SlotAssumption ==
    /\ NoSession \notin Sessions /\ Free \notin Calls
    /\ MaxDeaths \in Nat

VARIABLES
    slot,      \* SessionSlot.live
    holder,    \* holder of its lock
    life,      \* of each session: "unbuilt", "open" or "closed"
    pc,        \* where each call is
    attempt,   \* its loop counter
    sess,      \* the session its current attempt uses
    sent,      \* <<c, s>>: the request of c is on its way over s
    ran,       \* how often the peer ran call c as received over s
    outcome,   \* what the caller is told
    down,      \* PeerSight.down_since is set
    cut,       \* history: calls that lost an open session to the eviction of another
    deaths     \* history: sessions that died of themselves

vars == <<slot, holder, life, pc, attempt, sess, sent, ran, outcome, down, cut,
          deaths>>

Steps == {"idle", "checkout", "connect", "send", "await", "broken", "refused",
          "backoff", "done"}
Outcomes == {"none", "ok", "error", "timeout", "unreachable", "rejected"}

Init ==
    /\ slot = NoSession /\ holder = Free
    /\ life = [s \in Sessions |-> "unbuilt"]
    /\ pc = [c \in Calls |-> "idle"]
    /\ attempt = [c \in Calls |-> 0]
    /\ sess = [c \in Calls |-> NoSession]
    /\ sent = {}
    /\ ran = [c \in Calls |-> [s \in Sessions |-> 0]]
    /\ outcome = [c \in Calls |-> "none"]
    /\ down = FALSE
    /\ cut = {} /\ deaths = 0

Goto(c, step) == pc' = [pc EXCEPT ![c] = step]

(* The call returns to whoever asked for it.                               *)
Answer(c, what) ==
    /\ Goto(c, "done")
    /\ outcome' = [outcome EXCEPT ![c] = what]

Open(s) == s \in Sessions /\ life[s] = "open"

Start(c) ==
    /\ pc[c] = "idle"
    /\ Goto(c, "checkout")
    /\ UNCHANGED <<slot, holder, life, attempt, sess, sent, ran, outcome, down, cut,
                   deaths>>

-----------------------------------------------------------------------------
(* checkout: the cached session, or a new one built under the slot's lock. *)

Reuse(c) ==
    /\ pc[c] = "checkout" /\ holder = Free
    /\ Open(slot)
    /\ sess' = [sess EXCEPT ![c] = slot]
    /\ Goto(c, "send")
    /\ UNCHANGED <<slot, holder, life, attempt, sent, ran, outcome, down, cut, deaths>>

(* Mutant: the lock is let go between the miss and the insert, as before   *)
(* sprint 025.                                                             *)
MissUnlocked(c) ==
    /\ pc[c] = "checkout" /\ holder = Free
    /\ ~Open(slot)
    /\ slot' = NoSession
    /\ Goto(c, "connect")
    /\ UNCHANGED <<holder, life, attempt, sess, sent, ran, outcome, down, cut, deaths>>

(* Nothing cached, or a session that has died: it is taken out, and the    *)
(* lock stays held across the connect.                                     *)
Miss(c) ==
    /\ pc[c] = "checkout" /\ holder = Free
    /\ ~Open(slot)
    /\ slot' = NoSession
    /\ holder' = c
    /\ Goto(c, "connect")
    /\ UNCHANGED <<life, attempt, sess, sent, ran, outcome, down, cut, deaths>>

Connect(c) ==
    /\ pc[c] = "connect"
    /\ \E s \in Sessions :
         /\ life[s] = "unbuilt"
         /\ life' = [life EXCEPT ![s] = "open"]
         /\ slot' = s
         /\ sess' = [sess EXCEPT ![c] = s]
    /\ holder' = Free
    /\ down' = FALSE
    /\ Goto(c, "send")
    /\ UNCHANGED <<attempt, sent, ran, outcome, cut, deaths>>

(* Mutant: a failed connect evicts before it has let go of the slot.       *)
ConnectFailsEvicting(c) ==
    /\ pc[c] = "connect"
    /\ down' = TRUE
    /\ Goto(c, "broken")
    /\ UNCHANGED <<slot, holder, life, attempt, sess, sent, ran, outcome, cut, deaths>>

(* CONNECT_TIMEOUT, or any error but an authentication failure.            *)
ConnectFails(c) ==
    /\ pc[c] = "connect"
    /\ holder' = Free
    /\ down' = TRUE
    /\ Answer(c, "unreachable")
    /\ UNCHANGED <<slot, life, attempt, sess, sent, ran, cut, deaths>>

(* The peer does not know the author, or this host cannot even try (no     *)
(* HTTP client, a name that is no header value).                           *)
ConnectRefused(c) ==
    /\ pc[c] = "connect"
    /\ holder' = Free
    /\ \E what \in {"rejected", "error"} : Answer(c, what)
    /\ UNCHANGED <<slot, life, attempt, sess, sent, ran, down, cut, deaths>>

-----------------------------------------------------------------------------
(* call_tool over the session.                                             *)

Send(c) ==
    /\ pc[c] = "send" /\ Open(sess[c])
    /\ sent' = sent \union {<<c, sess[c]>>}
    /\ Goto(c, "await")
    /\ UNCHANGED <<slot, holder, life, attempt, sess, ran, outcome, down, cut, deaths>>

(* TransportSend: the request never left; "refused" when its text reads    *)
(* like an authentication failure.                                         *)
SendFails(c) ==
    /\ pc[c] = "send" /\ Open(sess[c])
    /\ \E step \in {"broken", "refused"} : Goto(c, step)
    /\ UNCHANGED <<slot, holder, life, attempt, sess, sent, ran, outcome, down, cut,
                   deaths>>

(* TransportClosed: the session closed before the send or before the       *)
(* answer; the code cannot tell which.                                     *)
Closed(c) ==
    /\ pc[c] \in {"send", "await"} /\ ~Open(sess[c])
    /\ Goto(c, "broken")
    /\ UNCHANGED <<slot, holder, life, attempt, sess, sent, ran, outcome, down, cut,
                   deaths>>

(* The peer runs the request; it may do so after the caller gave up.       *)
PeerRuns(c) ==
    /\ \E s \in Sessions :
         /\ <<c, s>> \in sent
         /\ sent' = sent \ {<<c, s>>}
         /\ ran' = [ran EXCEPT ![c][s] = @ + 1]
    /\ UNCHANGED <<slot, holder, life, pc, attempt, sess, outcome, down, cut, deaths>>

Answered(c) ==
    /\ pc[c] = "await" /\ Open(sess[c])
    /\ ran[c][sess[c]] > 0
    /\ down' = FALSE
    /\ Answer(c, "ok")
    /\ UNCHANGED <<slot, holder, life, attempt, sess, sent, ran, cut, deaths>>

(* McpError: the peer answers without running the tool.  Any other error   *)
(* of the transport: nothing is learned about the peer.                    *)
Errs(c) ==
    /\ pc[c] = "await" /\ Open(sess[c])
    /\ \/ <<c, sess[c]>> \in sent /\ sent' = sent \ {<<c, sess[c]>>} /\ down' = FALSE
       \/ UNCHANGED <<sent, down>>
    /\ Answer(c, "error")
    /\ UNCHANGED <<slot, holder, life, attempt, sess, ran, cut, deaths>>

(* Mutant: the expiry is reported like a peer that could not be reached.   *)
TimeoutBlurred(c) ==
    /\ pc[c] = "await"
    /\ Answer(c, "unreachable")
    /\ UNCHANGED <<slot, holder, life, attempt, sess, sent, ran, down, cut, deaths>>

(* Mutant: the expiry is retried like a transport that closed.             *)
TimeoutReplayed(c) ==
    /\ pc[c] = "await"
    /\ \/ attempt[c] = 0 /\ Goto(c, "backoff") /\ UNCHANGED outcome
       \/ attempt[c] = 1 /\ Answer(c, "timeout")
    /\ UNCHANGED <<slot, holder, life, attempt, sess, sent, ran, down, cut, deaths>>

(* CALL_TIMEOUT: never replayed, and nothing is done to the session.       *)
Timeout(c) ==
    /\ pc[c] = "await"
    /\ Answer(c, "timeout")
    /\ UNCHANGED <<slot, holder, life, attempt, sess, sent, ran, down, cut, deaths>>

-----------------------------------------------------------------------------
(* drop_session, then the retry or the verdict.                            *)

(* It cancels whatever session the slot holds once it gets the lock: the   *)
(* one that failed, none, or one built since.                              *)
Evict(c) ==
    /\ holder = Free
    /\ slot' = NoSession
    /\ life' = [s \in Sessions |-> IF s = slot THEN "closed" ELSE life[s]]
    /\ cut' = cut \union
         {d \in Calls : pc[d] = "await" /\ sess[d] = slot /\ Open(slot) /\ sess[c] # slot}

(* Mutant: every failure is retried, not only that of the first attempt.   *)
RetryAlways(c) ==
    /\ pc[c] \in {"broken", "refused"}
    /\ Evict(c)
    /\ Goto(c, "backoff")
    /\ UNCHANGED <<holder, attempt, sess, sent, ran, outcome, down, deaths>>

Retry(c) ==
    /\ pc[c] \in {"broken", "refused"} /\ attempt[c] = 0
    /\ Evict(c)
    /\ Goto(c, "backoff")
    /\ UNCHANGED <<holder, attempt, sess, sent, ran, outcome, down, deaths>>

(* RETRY_BACKOFF is over.                                                  *)
Again(c) ==
    /\ pc[c] = "backoff"
    /\ attempt' = [attempt EXCEPT ![c] = @ + 1]
    /\ sess' = [sess EXCEPT ![c] = NoSession]
    /\ Goto(c, "checkout")
    /\ UNCHANGED <<slot, holder, life, sent, ran, outcome, down, cut, deaths>>

GiveUp(c) ==
    /\ pc[c] \in {"broken", "refused"} /\ attempt[c] = 1
    /\ Evict(c)
    /\ \/ pc[c] = "broken" /\ down' = TRUE /\ Answer(c, "unreachable")
       \/ pc[c] = "refused" /\ UNCHANGED down /\ Answer(c, "rejected")
    /\ UNCHANGED <<holder, attempt, sess, sent, ran, deaths>>

-----------------------------------------------------------------------------

(* A transport fails: the peer restarts, the network goes away.            *)
SessionDies ==
    /\ deaths < MaxDeaths
    /\ \E s \in Sessions :
         /\ life[s] = "open"
         /\ life' = [life EXCEPT ![s] = "closed"]
    /\ deaths' = deaths + 1
    /\ UNCHANGED <<slot, holder, pc, attempt, sess, sent, ran, outcome, down, cut>>

(* What the call does by itself, its timers included.                      *)
Proceed(c) ==
    \/ Reuse(c) \/ Miss(c) \/ Connect(c) \/ ConnectFails(c) \/ ConnectRefused(c)
    \/ Send(c) \/ SendFails(c) \/ Closed(c) \/ Answered(c) \/ Errs(c) \/ Timeout(c)
    \/ Retry(c) \/ Again(c) \/ GiveUp(c)

Next ==
    \/ \E c \in Calls : Start(c) \/ Proceed(c) \/ PeerRuns(c)
    \/ SessionDies

Spec == Init /\ [][Next]_vars

(* A task is polled until it returns, and CONNECT_TIMEOUT, CALL_TIMEOUT    *)
(* and RETRY_BACKOFF expire.  The peer owes nothing.                       *)
FairSpec == Spec /\ \A c \in Calls : WF_vars(Proceed(c))

-----------------------------------------------------------------------------
(* Properties.                                                             *)

(* Every variable keeps its type.                                          *)
TypeOK ==
    /\ slot \in Sessions \union {NoSession}
    /\ holder \in Calls \union {Free}
    /\ life \in [Sessions -> {"unbuilt", "open", "closed"}]
    /\ pc \in [Calls -> Steps]
    /\ attempt \in [Calls -> 0..1]
    /\ sess \in [Calls -> Sessions \union {NoSession}]
    /\ sent \subseteq Calls \X Sessions
    /\ ran \in [Calls -> [Sessions -> Nat]]
    /\ outcome \in [Calls -> Outcomes]
    /\ down \in BOOLEAN
    /\ cut \subseteq Calls
    /\ deaths \in Nat

(* Every session that is open is the one in the slot: whatever races, the  *)
(* process never holds a session it cannot reach, so the descriptors are   *)
(* bounded by peers times authors (025 D-2).                               *)
NoStraySession == \A s \in Sessions : life[s] = "open" => slot = s

(* A request the peer has run over one session goes out over another only  *)
(* when the first is closed and can answer no more, and the peer runs it   *)
(* once per session: the same request is never live twice.                 *)
ReplayNeedsClosure ==
    \A c \in Calls, s \in Sessions :
        ran[c][s] > 0 =>
            /\ ran[c][s] = 1
            /\ sess[c] \in Sessions \ {s} => life[s] = "closed"

(* A first attempt that is answered host_unreachable never reached the     *)
(* peer: the caller may try again without a double edit (010 D-8).         *)
FirstUnreachableIsUnseen ==
    \A c \in Calls : outcome[c] = "unreachable" /\ attempt[c] = 0 =>
        \A s \in Sessions : ran[c][s] = 0 /\ <<c, s>> \notin sent

(* Every proxied call returns: nobody waits for ever on the slot.          *)
EveryCallReturns == \A c \in Calls : pc[c] = "checkout" ~> pc[c] = "done"

-----------------------------------------------------------------------------
(* Why they hold: the inductive invariant of PeerSession_proofs.           *)

(* The lock is held exactly across a connect, with the slot empty.         *)
SlotInv ==
    /\ \A c \in Calls : holder = c <=> pc[c] = "connect"
    /\ holder # Free => slot = NoSession
    /\ \A s \in Sessions : life[s] = "open" => slot = s
    /\ slot \in Sessions => life[slot] # "unbuilt"

(* A request exists on built sessions only, on the current one at most     *)
(* once, and on an earlier one only when that one is closed.               *)
RequestInv(c) ==
    /\ pc[c] \in {"idle", "checkout", "connect"} => sess[c] = NoSession
    /\ pc[c] \in {"send", "await"} => sess[c] \in Sessions
    /\ sess[c] \in Sessions => life[sess[c]] # "unbuilt"
    /\ pc[c] = "backoff" => attempt[c] = 0 /\ ~Open(sess[c])
    /\ pc[c] \in {"idle", "checkout", "connect"} /\ attempt[c] = 0 =>
         \A s \in Sessions : ran[c][s] = 0 /\ <<c, s>> \notin sent
    /\ outcome[c] = "unreachable" /\ attempt[c] = 0 => pc[c] = "done" /\ sess[c] = NoSession
    /\ \A s \in Sessions : ran[c][s] <= 1
    /\ \A s \in Sessions : <<c, s>> \in sent => ran[c][s] = 0
    /\ \A s \in Sessions : (ran[c][s] > 0 \/ <<c, s>> \in sent) =>
         /\ life[s] # "unbuilt"
         /\ s = sess[c] => pc[c] # "send"
         /\ s # sess[c] => life[s] = "closed"
    /\ sess[c] = NoSession /\ attempt[c] = 0 =>
         \A s \in Sessions : ran[c][s] = 0 /\ <<c, s>> \notin sent

IInv == TypeOK /\ SlotInv /\ \A c \in Calls : RequestInv(c)

-----------------------------------------------------------------------------
(* What the documentation says and the code does not do.                   *)

(* fleet.rs: "Eviction only happens on a transport that already failed, so *)
(* there is no live call to cut short."                                    *)
EvictsNoLiveCall == cut = {}

(* fleet.rs: one retry, "only for failures provably before the peer        *)
(* processed anything", and "an in-flight failure is never replayed".      *)
RunsAtMostOnce ==
    \A c \in Calls, s1, s2 \in Sessions :
        s1 # s2 => ran[c][s1] = 0 \/ ran[c][s2] = 0
=============================================================================
