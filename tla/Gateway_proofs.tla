--------------------------- MODULE Gateway_proofs ---------------------------
(***************************************************************************)
(* A call crosses at most one link, for any fleet: whatever the hosts, the *)
(* declarations, the roots and the requests.  The invariant says why: a    *)
(* call that a peer receives is a probe, or names a root of that peer, and *)
(* carries the hop marker; so it is neither forwarded nor fanned out.      *)
(* And what `roots` shows as active was served while the call ran.         *)
(* And what an agent is told of hosts was true during its call.            *)
(* And a fleet search has what it searched, or says what it has not.       *)
(***************************************************************************)
EXTENDS Gateway, Folding_proofs, SequenceTheorems, TLAPS

Fields == {"at", "author", "node", "hop", "op", "phase", "part", "gone", "answer"}

(* A call that needs no other host.                                        *)
Final(c) ==
    /\ c.hop = TRUE
    /\ \/ c.op.tool = "roots"
       \/ c.op.tool = "one_root" /\ Prefix[c.op.name] = c.at

Sound(id, c) ==
    /\ DOMAIN c = Fields
    /\ \/ \E a : id = <<a>>
       \/ Len(id) = 2 /\ Final(c)

IInv == \A id \in DOMAIN calls : Sound(id, calls[id])

(* What a step may do to the calls there are and to the new ones.          *)
Same(c, d) == DOMAIN d = Fields /\ d.hop = c.hop /\ d.op = c.op /\ d.at = c.at

(* A child of an agent's call has length two.                              *)
LEMMA ChildLength ==
    ASSUME NEW a, NEW k
    PROVE  Len(Append(<<a>>, k)) = 2 /\ Last(Append(<<a>>, k)) = k
  BY SMT DEF Last

(* Calls that keep what they ask for stay sound.                           *)
LEMMA SameIsSound ==
    ASSUME NEW id, NEW c, NEW d, Sound(id, c), Same(c, d)
    PROVE  Sound(id, d)
  BY DEF Sound, Same, Final

(* A step that only changes where calls are, or ends some.                 *)
LEMMA NoNewCall ==
    ASSUME IInv, DOMAIN calls' \subseteq DOMAIN calls,
           \A i \in DOMAIN calls' : calls'[i] = calls[i] \/ Same(calls[i], calls'[i])
    PROVE  IInv'
  BY SameIsSound DEF IInv

LEMMA AnswerKeeps ==
    ASSUME IInv, NEW id \in DOMAIN calls, NEW answer, Answer(id, answer)
    PROVE  IInv'
<1>1. DOMAIN calls' \subseteq DOMAIN calls
  BY DEF Answer
<1>2. ASSUME NEW i \in DOMAIN calls'
      PROVE  calls'[i] = calls[i] \/ Same(calls[i], calls'[i])
  BY <1>1, <1>2 DEF Answer, Same, IInv, Sound, Fields
<1> QED  BY <1>1, <1>2, NoNewCall

LEMMA TookKeeps ==
    ASSUME IInv, NEW id \in DOMAIN calls, NEW k, NEW outcome, Took(id, k, outcome)
    PROVE  IInv'
<1>1. DOMAIN calls' \subseteq DOMAIN calls
  BY DEF Took
<1>2. ASSUME NEW i \in DOMAIN calls'
      PROVE  calls'[i] = calls[i] \/ Same(calls[i], calls'[i])
  BY <1>1, <1>2 DEF Took, Same, IInv, Sound, Fields
<1> QED  BY <1>1, <1>2, NoNewCall

(* A child changes its phase.                                              *)
LEMMA PhaseKeeps ==
    ASSUME IInv, NEW i, NEW phase, calls' = [calls EXCEPT ![i].phase = phase]
    PROVE  IInv'
<1>1. DOMAIN calls' \subseteq DOMAIN calls
  OBVIOUS
<1>2. ASSUME NEW j \in DOMAIN calls'
      PROVE  calls'[j] = calls[j] \/ Same(calls[j], calls'[j])
  BY <1>1, <1>2 DEF Same, IInv, Sound, Fields
<1> QED  BY <1>1, <1>2, NoNewCall

(* New calls are sound if whoever makes them is an agent's call and each   *)
(* asks a peer for what the peer can answer; a call that makes none may be *)
(* any.                                                                    *)
LEMMA AwaitKeeps ==
    ASSUME IInv, NEW id \in DOMAIN calls, NEW step, NEW asks, NEW gone,
           Await(id, step, asks, gone),
           \A k \in DOMAIN asks :
              /\ \E a : id = <<a>>
              /\ \/ asks[k].op.tool = "roots"
                 \/ asks[k].op.tool = "one_root" /\ Prefix[asks[k].op.name] = asks[k].to
    PROVE  IInv'
<1> DEFINE new == {Append(id, k) : k \in DOMAIN asks}
<1>1. DOMAIN calls' = (DOMAIN calls \ Children(id)) \cup new
  BY DEF Await
<1>2. ASSUME NEW i \in new
      PROVE  Sound(i, calls'[i])
  <2>1. PICK k \in DOMAIN asks : i = Append(id, k)
    OBVIOUS
  <2>2. Len(i) = 2 /\ Last(i) = k
    BY <2>1, ChildLength
  <2>3. calls'[i] = NewCall(asks[k].to, calls[id].author, calls[id].at, TRUE, asks[k].op,
                            "connecting")
    BY <1>1, <2>2 DEF Await
  <2> QED  BY <2>2, <2>3 DEF Sound, Final, NewCall, Fields
<1>3. ASSUME NEW i \in DOMAIN calls', i \notin new
      PROVE  i \in DOMAIN calls /\ (calls'[i] = calls[i] \/ Same(calls[i], calls'[i]))
  BY <1>1, <1>3 DEF Await, Same, IInv, Sound, Fields
<1> QED  BY <1>2, <1>3, SameIsSound DEF IInv

LEMMA CallKeeps ==
    ASSUME IInv, NEW a, Call(a)
    PROVE  IInv'
<1>1. PICK r \in Requests[a] :
        calls' = [i \in DOMAIN calls \cup {<<a>>} |->
                    IF i = <<a>> THEN NewCall(r.at, r.author, r.node, r.hop, r.op, "arrived")
                    ELSE calls[i]]
  BY DEF Call
<1>2. ASSUME NEW i \in DOMAIN calls'
      PROVE  Sound(i, calls'[i])
  <2>1. CASE i = <<a>>
    BY <1>1, <2>1 DEF Sound, NewCall, Fields
  <2>2. CASE i # <<a>>
    BY <1>1, <2>2 DEF IInv
  <2> QED  BY <2>1, <2>2
<1> QED  BY <1>2 DEF IInv

(* A call for another host's root is forwarded for an agent only.          *)
LEMMA ForwardKeeps ==
    ASSUME IInv, NEW id \in DOMAIN calls, Forward(id)
    PROVE  IInv'
<1> DEFINE host == Prefix[calls[id].op.name]
           asks == [p \in {host} |-> [to |-> p, op |-> calls[id].op]]
<1>1. Await(id, "forwarding", asks, <<>>) /\ host # calls[id].at
      /\ calls[id].op.tool = "one_root"
  BY DEF Forward
<1>2. \E a : id = <<a>>
  BY <1>1 DEF IInv, Sound, Final
<1>3. \A k \in DOMAIN asks : asks[k].op.tool = "one_root"
                            /\ Prefix[asks[k].op.name] = asks[k].to
  BY <1>1
<1> HIDE DEF asks
<1> QED  BY <1>1, <1>2, <1>3, AwaitKeeps

(* A forwarded call probes nobody.                                         *)
LEMMA ProbeKeeps ==
    ASSUME IInv, NEW id \in DOMAIN calls, Probe(id)
    PROVE  IInv'
<1> DEFINE asks == [p \in Probed(calls[id]) |-> [to |-> p, op |-> [tool |-> "roots"]]]
<1>1. Await(id, "probing", asks, <<>>)
  BY DEF Probe
<1>2. \A k \in DOMAIN asks : asks[k].op.tool = "roots"
  OBVIOUS
<1>3. ASSUME NEW k \in DOMAIN asks
      PROVE  \E a : id = <<a>>
  <2>1. calls[id].hop # TRUE
    BY <1>3 DEF Probed
  <2> QED  BY <2>1 DEF IInv, Sound, Final
<1> HIDE DEF asks
<1> QED  BY <1>1, <1>2, <1>3, AwaitKeeps

(* No peer is ever asked for a fleet search.                               *)
LEMMA SearchKeeps ==
    ASSUME IInv, NEW id \in DOMAIN calls, Search(id)
    PROVE  IInv'
<1>1. PICK names, gone :
        Await(id, "searching",
              [n \in names |-> [to |-> Prefix[n], op |-> [tool |-> "one_root", name |-> n]]],
              gone)
  BY DEF Search
<1> DEFINE asks == [n \in names |->
                      [to |-> Prefix[n], op |-> [tool |-> "one_root", name |-> n]]]
<1>2. \E a : id = <<a>>
  <2>1. calls[id].op.tool = "fleet_search"
    BY DEF Search
  <2> QED  BY <2>1 DEF IInv, Sound, Final
<1>3. \A k \in DOMAIN asks : asks[k].op.tool = "one_root"
                            /\ Prefix[asks[k].op.name] = asks[k].to
  OBVIOUS
<1> HIDE DEF asks
<1>4. Await(id, "searching", asks, gone)
  BY <1>1 DEF asks
<1> QED  BY <1>2, <1>3, <1>4, AwaitKeeps

(* The end of a call to a peer.                                            *)
LEMMA ChildKeeps ==
    ASSUME IInv, NEW id \in DOMAIN calls, NEW k,
           Connect(id, k) \/ Return(id, k) \/ Unanswered(id, k) \/ Replay(id, k)
             \/ TimesOut(id, k)
    PROVE  IInv'
<1>1. CASE Connect(id, k)
  BY <1>1, PhaseKeeps DEF Connect
<1>2. CASE Return(id, k)
  <2>1. PICK outcome : Took(id, k, outcome)
    BY <1>2 DEF Return
  <2> QED  BY <2>1, TookKeeps
<1>3. CASE Unanswered(id, k)
  BY <1>3, TookKeeps DEF Unanswered
<1>4. CASE Replay(id, k)
  BY <1>4, PhaseKeeps DEF Replay
<1>5. CASE TimesOut(id, k)
  BY <1>5, TookKeeps DEF TimesOut
<1> QED  BY <1>1, <1>2, <1>3, <1>4, <1>5

LEMMA CrashKeeps ==
    ASSUME IInv, NEW h, Crash(h)
    PROVE  IInv'
<1>1. DOMAIN calls' \subseteq DOMAIN calls
  BY DEF Crash
<1>2. ASSUME NEW i \in DOMAIN calls'
      PROVE  calls'[i] = calls[i] \/ Same(calls[i], calls'[i])
  <2>1. PICK lost \in BOOLEAN : \/ calls'[i] = calls[i]
                                \/ calls'[i] = [calls[i] EXCEPT !.phase = "lost"]
                                \/ calls'[i] = [calls[i] EXCEPT !.phase = "broken"]
    BY <1>1, <1>2 DEF Crash
  <2> QED  BY <1>1, <1>2, <2>1 DEF Same, IInv, Sound, Fields
<1> QED  BY <1>1, <1>2, NoNewCall

LEMMA HandleKeeps ==
    ASSUME IInv, NEW id \in DOMAIN calls, Handle(id)
    PROVE  IInv'
<1>1. CASE Refuse(id)
  BY <1>1, AnswerKeeps DEF Refuse
<1>2. CASE Forward(id)
  BY <1>2, ForwardKeeps
<1>3. CASE ServeRoot(id)
  <2>1. PICK answer : Answer(id, answer)
    BY <1>3 DEF ServeRoot
  <2> QED  BY <2>1, AnswerKeeps
<1>4. CASE Probe(id)
  BY <1>4, ProbeKeeps
<1>5. CASE Relay(id)
  <2>1. PICK answer : Answer(id, answer)
    BY <1>5 DEF Relay
  <2> QED  BY <2>1, AnswerKeeps
<1>6. CASE ShowRoots(id)
  <2>1. PICK answer : Answer(id, answer)
    BY <1>6 DEF ShowRoots
  <2> QED  BY <2>1, AnswerKeeps
<1>7. CASE Search(id)
  BY <1>7, SearchKeeps
<1>8. CASE ShowSearch(id)
  <2>1. PICK answer : Answer(id, answer)
    BY <1>8 DEF ShowSearch
  <2> QED  BY <2>1, AnswerKeeps
<1>9. CASE \E k \in DOMAIN calls[id].part :
             \/ Connect(id, k) \/ Return(id, k) \/ Unanswered(id, k)
             \/ Replay(id, k) \/ TimesOut(id, k)
  BY <1>9, ChildKeeps
<1> QED  BY <1>1, <1>2, <1>3, <1>4, <1>5, <1>6, <1>7, <1>8, <1>9 DEF Handle

LEMMA NextKeeps ==
    ASSUME IInv, [Next]_vars
    PROVE  IInv'
<1>1. CASE \E a \in Agents : Call(a)
  BY <1>1, CallKeeps
<1>2. CASE \E id \in DOMAIN calls : Handle(id)
  BY <1>2, HandleKeeps
<1>3. CASE \E h \in Hosts : Crash(h)
  BY <1>3, CrashKeeps
<1>4. CASE (\E h \in Hosts : Start(h)) \/ UNCHANGED vars
  BY <1>4 DEF Start, vars, IInv
<1> QED  BY <1>1, <1>2, <1>3, <1>4 DEF Next

THEOREM InductiveInvariant == Spec => []IInv
<1>1. Init => IInv
  BY DEF Init, IInv
<1> QED  BY <1>1, NextKeeps, PTL DEF Spec

(* Whatever an agent asks of whatever fleet, its call reaches at most one  *)
(* further host: the hop marker of server.rs ends every fan-out there.     *)
THEOREM CallsCrossOneLink == Spec => []OneHop
<1>1. IInv => OneHop
  BY DEF IInv, Sound, OneHop
<1> QED  BY <1>1, InductiveInvariant, PTL

-----------------------------------------------------------------------------
(* What an agent is told of roots.  The names an answer shows as active,   *)
(* that of the agent's call, that of a call made for it, and the outcomes  *)
(* taken of those, were served while the agent's call was under way.       *)
Told(o, a) ==
    o.type = "roots" => \A e \in o.entries : e.status = "active" => e.name \in past[a].ever

Truthful(c, a) ==
    /\ Told(c.answer, a)
    /\ \A k \in DOMAIN c.part : Told(c.part[k], a)

Live(a) == <<a>> \in DOMAIN calls /\ calls[<<a>>].phase \notin {"answered", "lost"}

(* Every call is an agent's, or made for an agent's.                       *)
Owned(i) ==
    \E a \in Agents : /\ <<a>> \in DOMAIN calls
                      /\ i = <<a>> \/ \E k : i = Append(<<a>>, k)

PastInv ==
    /\ past = [a \in Agents |-> past[a]]
    /\ \A a \in Agents : DOMAIN past[a] = {"ever", "always", "missed"}

WitnessInv == \A a \in Agents : Live(a) => Served(up, serves) \subseteq past[a].ever

(* What a call made for one that is over learns may be newer than what the *)
(* latter saw, and nobody hears it.                                        *)
CallInv(i) ==
    /\ Owned(i)
    /\ i = <<i[1]>> => Told(calls[i].answer, i[1])
    /\ Live(i[1]) => Truthful(calls[i], i[1])

TruthInv ==
    /\ PastInv /\ WitnessInv
    /\ \A i \in DOMAIN calls : CallInv(i)

(* A step of a call under way: agents' calls stay and the hosts are as     *)
(* they were, nobody's history of names changes, and what every call holds *)
(* is old or was true before.                                              *)
LEMMA TruthKept ==
    ASSUME TruthInv, UNCHANGED <<up, serves>>, PastInv',
           \A a \in Agents : past'[a].ever = past[a].ever,
           \A a \in Agents : <<a>> \in DOMAIN calls => <<a>> \in DOMAIN calls',
           \A a \in Agents : Live(a)' => Live(a),
           \A i \in DOMAIN calls' :
              /\ Owned(i)
              /\ i = <<i[1]>> => Told(calls'[i].answer, i[1])
              /\ Live(i[1]) => Truthful(calls'[i], i[1])
    PROVE  TruthInv'
<1>1. ASSUME NEW i \in DOMAIN calls'
      PROVE  CallInv(i)'
  <2>1. PICK a \in Agents : /\ <<a>> \in DOMAIN calls
                            /\ i = <<a>> \/ \E k : i = Append(<<a>>, k)
    BY <1>1 DEF Owned
  <2>2. i[1] = a
    BY <2>1
  <2>3. Owned(i)'
    BY <2>1 DEF Owned
  <2>4. ASSUME NEW o, Told(o, a)
        PROVE  o.type = "roots" =>
                 \A e \in o.entries : e.status = "active" => e.name \in past'[a].ever
    BY <2>4 DEF Told
  <2>5. i = <<i[1]>> => Told(calls[i].answer, i[1])'
    BY <1>1, <2>2, <2>4 DEF Told
  <2>6. Live(i[1])' => Truthful(calls[i], i[1])'
    BY <1>1, <2>2, <2>4 DEF Told, Truthful
  <2> QED  BY <2>3, <2>5, <2>6 DEF CallInv
<1>2. WitnessInv'
  BY DEF TruthInv, WitnessInv, Served
<1> QED  BY <1>1, <1>2 DEF TruthInv

(* Agents' calls are nobody's children.                                    *)
LEMMA AgentsStay ==
    ASSUME TruthInv, NEW id \in DOMAIN calls, NEW a
    PROVE  <<a>> \notin Children(id) /\ \A k : Append(id, k) # <<a>>
<1>1. PICK b \in Agents : id = <<b>> \/ \E k : id = Append(<<b>>, k)
  BY DEF TruthInv, CallInv, Owned
<1>2. Len(<<a>>) = 1 /\ Len(id) \in {1, 2}
  BY <1>1
<1>3. <<a>> \notin Children(id)
  BY <1>2 DEF Children
<1>4. ASSUME NEW k
      PROVE  Append(id, k) # <<a>>
  <2>1. CASE id = <<b>>
    <3>1. Len(Append(id, k)) = 2
      BY <2>1, ChildLength
    <3>2. Len(Append(id, k)) # Len(<<a>>)
      BY <1>2, <3>1
    <3> QED  BY <3>2, Zenon
  <2>2. CASE \E c : id = Append(<<b>>, c)
    <3>1. Len(Append(id, k)) = 3
      BY <2>2
    <3>2. Len(Append(id, k)) # Len(<<a>>)
      BY <1>2, <3>1
    <3> QED  BY <3>2, Zenon
  <2> QED  BY <1>1, <2>1, <2>2
<1> QED  BY <1>3, <1>4

(* A call is answered with what is true.                                   *)
LEMMA AnswerTells ==
    ASSUME IInv, TruthInv, NEW id \in DOMAIN calls, NEW answer, Answer(id, answer),
           UNCHANGED <<up, serves, past>>,
           calls[id].phase \notin {"answered", "lost"},
           Live(id[1]) => Told(answer, id[1])
    PROVE  TruthInv'
<1>1. DOMAIN calls' = DOMAIN calls \ Children(id)
  BY DEF Answer
<1>2. \A i \in DOMAIN calls' :
        calls'[i] = IF i = id
                    THEN [calls[id] EXCEPT !.phase = "answered", !.part = <<>>, !.gone = <<>>,
                                           !.answer = answer]
                    ELSE calls[i]
  BY <1>1 DEF Answer
<1>3. DOMAIN calls[id] = Fields
  BY DEF IInv, Sound
<1>4. ASSUME NEW i \in DOMAIN calls'
      PROVE  /\ Owned(i)
             /\ i = <<i[1]>> => Told(calls'[i].answer, i[1])
             /\ Live(i[1]) => Truthful(calls'[i], i[1])
  <2>1. i \in DOMAIN calls /\ CallInv(i) /\ CallInv(id)
    BY <1>1 DEF TruthInv
  <2>2. CASE i # id
    BY <1>2, <2>1, <2>2 DEF CallInv
  <2>3. CASE i = id
    <3>1. calls'[id].answer = answer /\ calls'[id].part = <<>>
      BY <1>2, <1>3, <2>3 DEF Fields
    <3>2. id = <<id[1]>> => Live(id[1])
      BY DEF Live
    <3>3. DOMAIN calls'[id].part = {}
      BY <3>1
    <3> QED  BY <2>1, <2>3, <3>1, <3>2, <3>3 DEF CallInv, Truthful
  <2> QED  BY <2>2, <2>3
<1>5. ASSUME NEW a \in Agents, Live(a)'
      PROVE  Live(a)
  <2>1. <<a>> \in DOMAIN calls' /\ <<a>> # id
    BY <1>2, <1>3, <1>5 DEF Live, Fields
  <2> QED  BY <1>1, <1>2, <1>5, <2>1 DEF Live
<1>6. \A a \in Agents : <<a>> \in DOMAIN calls => <<a>> \in DOMAIN calls'
  BY <1>1, AgentsStay
<1>7. PastInv'
  BY DEF TruthInv, PastInv
<1> QED  BY <1>4, <1>5, <1>6, <1>7, TruthKept

(* A call takes what is true from one it made.                             *)
LEMMA TookTells ==
    ASSUME IInv, TruthInv, NEW id \in DOMAIN calls, NEW k, NEW outcome,
           Took(id, k, outcome), UNCHANGED <<up, serves>>, PastInv',
           \A a \in Agents : past'[a].ever = past[a].ever,
           Live(id[1]) => Told(outcome, id[1])
    PROVE  TruthInv'
<1>1. DOMAIN calls' = DOMAIN calls \ {Append(id, k)}
  BY DEF Took
<1>2. \A i \in DOMAIN calls' :
        calls'[i] = IF i = id THEN [calls[id] EXCEPT !.part[k] = outcome] ELSE calls[i]
  BY <1>1 DEF Took
<1>3. DOMAIN calls[id] = Fields
  BY DEF IInv, Sound
<1>4. ASSUME NEW i \in DOMAIN calls'
      PROVE  /\ Owned(i)
             /\ i = <<i[1]>> => Told(calls'[i].answer, i[1])
             /\ Live(i[1]) => Truthful(calls'[i], i[1])
  <2>1. i \in DOMAIN calls /\ CallInv(i) /\ CallInv(id)
    BY <1>1 DEF TruthInv
  <2>2. CASE i # id
    BY <1>2, <2>1, <2>2 DEF CallInv
  <2>3. CASE i = id
    <3>1. /\ calls'[id].answer = calls[id].answer
          /\ calls'[id].part = [calls[id].part EXCEPT ![k] = outcome]
      BY <1>2, <1>3, <2>3 DEF Fields
    <3>2. \A j \in DOMAIN calls'[id].part :
             /\ j \in DOMAIN calls[id].part
             /\ calls'[id].part[j] = calls[id].part[j] \/ calls'[id].part[j] = outcome
      BY <3>1
    <3>3. Live(id[1]) => Truthful(calls'[id], id[1])
      BY <2>1, <3>1, <3>2 DEF CallInv, Truthful
    <3> QED  BY <2>1, <2>3, <3>1, <3>3 DEF CallInv
  <2> QED  BY <2>2, <2>3
<1>5. ASSUME NEW a \in Agents, Live(a)'
      PROVE  Live(a)
  BY <1>1, <1>2, <1>3, <1>5 DEF Live, Fields
<1>6. \A a \in Agents : <<a>> \in DOMAIN calls => <<a>> \in DOMAIN calls'
  BY <1>1, AgentsStay
<1> QED  BY <1>4, <1>5, <1>6, TruthKept

(* A child that goes on has nothing new to tell.                           *)
LEMMA PhaseTells ==
    ASSUME IInv, TruthInv, NEW id \in DOMAIN calls, NEW k, NEW phase,
           calls' = [calls EXCEPT ![Append(id, k)].phase = phase],
           UNCHANGED <<up, serves, past>>
    PROVE  TruthInv'
<1>1. DOMAIN calls' = DOMAIN calls
  OBVIOUS
<1>2. ASSUME NEW i \in DOMAIN calls
      PROVE  /\ calls'[i].answer = calls[i].answer
             /\ calls'[i].part = calls[i].part
             /\ i # Append(id, k) => calls'[i] = calls[i]
  BY DEF IInv, Sound, Fields
<1>3. ASSUME NEW i \in DOMAIN calls'
      PROVE  /\ Owned(i)
             /\ i = <<i[1]>> => Told(calls'[i].answer, i[1])
             /\ Live(i[1]) => Truthful(calls'[i], i[1])
  <2>1. i \in DOMAIN calls /\ CallInv(i)
    BY <1>1 DEF TruthInv
  <2> QED  BY <1>2, <2>1 DEF CallInv, Truthful
<1>4. ASSUME NEW a \in Agents, Live(a)'
      PROVE  Live(a)
  <2>1. <<a>> # Append(id, k)
    BY AgentsStay
  <2> QED  BY <1>1, <1>2, <1>4, <2>1 DEF Live
<1>5. PastInv'
  BY DEF TruthInv, PastInv
<1> QED  BY <1>1, <1>3, <1>4, <1>5, TruthKept

(* What a call asks for has no answer yet.                                 *)
LEMMA AwaitTells ==
    ASSUME IInv, IInv', TruthInv, NEW id \in DOMAIN calls, NEW step, NEW asks, NEW gone,
           Await(id, step, asks, gone), UNCHANGED <<up, serves, past>>,
           calls[id].phase \notin {"answered", "lost"}
    PROVE  TruthInv'
<1> DEFINE new == {Append(id, k) : k \in DOMAIN asks}
<1>1. DOMAIN calls' = (DOMAIN calls \ Children(id)) \cup new
  BY DEF Await
<1>2. DOMAIN calls[id] = Fields
  BY DEF IInv, Sound
<1>3. \A a : <<a>> \notin new /\ <<a>> \notin Children(id)
  BY AgentsStay
<1>4. PICK a \in Agents : /\ <<a>> \in DOMAIN calls
                          /\ id = <<a>> \/ \E k : id = Append(<<a>>, k)
  BY DEF TruthInv, CallInv, Owned
<1>5. ASSUME NEW i \in new
      PROVE  /\ Owned(i)
             /\ i = <<i[1]>> => Told(calls'[i].answer, i[1])
             /\ Live(i[1]) => Truthful(calls'[i], i[1])
  <2>1. PICK k \in DOMAIN asks : i = Append(id, k)
    OBVIOUS
  <2>2. id = <<a>>
    <3>1. CASE \E j : id = Append(<<a>>, j)
      <4>1. Len(i) = 3
        BY <2>1, <3>1
      <4>2. Len(i) = 2 \/ \E b : i = <<b>>
        BY <1>1, <1>5 DEF IInv, Sound
      <4> QED  BY <4>1, <4>2
    <3> QED  BY <1>4, <3>1
  <2>3. i = Append(<<a>>, k)
    BY <2>1, <2>2
  <2>4. calls'[i] = NewCall(asks[Last(i)].to, calls[id].author, calls[id].at, TRUE,
                            asks[Last(i)].op, "connecting")
    BY <1>1, <1>5 DEF Await
  <2>5. calls'[i].answer = Pending /\ DOMAIN calls'[i].part = {}
    BY <2>4 DEF NewCall
  <2> QED  BY <1>4, <2>3, <2>5 DEF Owned, Told, Truthful, Pending
<1>6. ASSUME NEW i \in DOMAIN calls', i \notin new
      PROVE  /\ Owned(i)
             /\ i = <<i[1]>> => Told(calls'[i].answer, i[1])
             /\ Live(i[1]) => Truthful(calls'[i], i[1])
  <2>1. i \in DOMAIN calls /\ CallInv(i)
    BY <1>1, <1>6 DEF TruthInv
  <2>2. CASE i # id
    <3>1. calls'[i] = calls[i]
      BY <1>1, <1>6, <2>2 DEF Await
    <3> QED  BY <2>1, <3>1 DEF CallInv
  <2>3. CASE i = id
    <3>1. calls'[i] = [calls[id] EXCEPT !.phase = step, !.gone = gone,
                                        !.part = [k \in DOMAIN asks |-> Pending]]
      BY <1>1, <1>6, <2>3 DEF Await
    <3>2. /\ calls'[i].answer = calls[i].answer
          /\ calls'[i].part = [k \in DOMAIN asks |-> Pending]
      BY <1>2, <2>3, <3>1 DEF Fields
    <3>3. \A k \in DOMAIN calls'[i].part : Told(calls'[i].part[k], i[1])
      BY <3>2 DEF Told, Pending
    <3> QED  BY <2>1, <3>2, <3>3 DEF CallInv, Truthful
  <2> QED  BY <2>2, <2>3
<1>7. ASSUME NEW b \in Agents, Live(b)'
      PROVE  Live(b)
  <2>1. <<b>> \in DOMAIN calls
    BY <1>1, <1>3, <1>7 DEF Live
  <2>2. <<b>> # id => calls'[<<b>>] = calls[<<b>>]
    BY <1>1, <1>3, <1>7 DEF Await, Live
  <2> QED  BY <1>7, <2>1, <2>2 DEF Live
<1>8. \A b \in Agents : <<b>> \in DOMAIN calls => <<b>> \in DOMAIN calls'
  BY <1>1, <1>3
<1>9. PastInv'
  BY DEF TruthInv, PastInv
<1> HIDE DEF new
<1> QED  BY <1>5, <1>6, <1>7, <1>8, <1>9, TruthKept

LEMMA CallTells ==
    ASSUME TruthInv, NEW a \in Agents, Call(a)
    PROVE  TruthInv'
<1>1. PICK r \in Requests[a] :
        calls' = [i \in DOMAIN calls \cup {<<a>>} |->
                    IF i = <<a>> THEN NewCall(r.at, r.author, r.node, r.hop, r.op, "arrived")
                    ELSE calls[i]]
  BY DEF Call
<1>2. /\ <<a>> \notin DOMAIN calls /\ UNCHANGED <<up, serves>>
      /\ past' = [past EXCEPT ![a].ever = Served(up, serves), ![a].always = Served(up, serves)]
  BY DEF Call
<1>3. PastInv'
  BY <1>2 DEF TruthInv, PastInv
<1>4. /\ past'[a].ever = Served(up, serves)
      /\ \A b \in Agents : b # a => past'[b] = past[b]
  BY <1>2 DEF TruthInv, PastInv
<1>5. calls'[<<a>>].answer = Pending /\ calls'[<<a>>].part = <<>>
  BY <1>1 DEF NewCall
<1>6. ASSUME NEW b \in Agents, b # a, <<b>> \in DOMAIN calls'
      PROVE  calls'[<<b>>] = calls[<<b>>] /\ <<b>> \in DOMAIN calls
  BY <1>1, <1>6
<1>7. WitnessInv'
  BY <1>2, <1>4, <1>6 DEF TruthInv, WitnessInv, Live, Served
<1>8. ASSUME NEW i \in DOMAIN calls'
      PROVE  CallInv(i)'
  <2>1. CASE i = <<a>>
    <3>1. i[1] = a /\ DOMAIN calls'[i].part = {}
      BY <1>5, <2>1
    <3>2. Owned(i)'
      BY <1>8, <2>1 DEF Owned
    <3> QED  BY <1>5, <2>1, <3>1, <3>2 DEF CallInv, Told, Truthful, Pending
  <2>2. CASE i # <<a>>
    <3>1. i \in DOMAIN calls /\ CallInv(i) /\ calls'[i] = calls[i]
      BY <1>1, <2>2 DEF TruthInv
    <3>2. PICK b \in Agents : /\ <<b>> \in DOMAIN calls
                              /\ i = <<b>> \/ \E k : i = Append(<<b>>, k)
      BY <3>1 DEF CallInv, Owned
    <3>3. b # a /\ i[1] = b /\ <<b>> \in DOMAIN calls'
      BY <1>1, <1>2, <3>2
    <3>4. past'[b] = past[b] /\ (Live(b)' => Live(b))
      BY <1>4, <1>6, <3>3 DEF Live
    <3>5. Owned(i)'
      BY <3>2, <3>3 DEF Owned
    <3> QED  BY <3>1, <3>3, <3>4, <3>5 DEF CallInv, Told, Truthful
  <2> QED  BY <2>1, <2>2
<1> QED  BY <1>3, <1>7, <1>8 DEF TruthInv

(* Hosts come and go: the histories of calls under way take in what is     *)
(* served now.                                                             *)
LEMMA WitnessTells ==
    ASSUME TruthInv, Witness(Served(up', serves')),
           DOMAIN calls' = DOMAIN calls,
           \A i \in DOMAIN calls : /\ calls'[i].answer = calls[i].answer
                                   /\ calls'[i].part = calls[i].part,
           \A a \in Agents : Live(a)' => Live(a)
    PROVE  TruthInv'
<1> DEFINE served == Served(up', serves')
<1>1. past' = [a \in Agents |->
                 IF Live(a)
                 THEN [past[a] EXCEPT !.ever = @ \cup served, !.always = @ \cap served]
                 ELSE past[a]]
  BY DEF Witness, Live
<1>2. PastInv'
  BY <1>1 DEF TruthInv, PastInv
<1>3. ASSUME NEW a \in Agents
      PROVE  /\ past[a].ever \subseteq past'[a].ever
             /\ Live(a) => served \subseteq past'[a].ever
  BY <1>1 DEF TruthInv, PastInv
<1>4. WitnessInv'
  BY <1>3 DEF WitnessInv
<1>5. ASSUME NEW i \in DOMAIN calls'
      PROVE  CallInv(i)'
  <2>1. CallInv(i)
    BY <1>5 DEF TruthInv
  <2>2. PICK a \in Agents : /\ <<a>> \in DOMAIN calls
                            /\ i = <<a>> \/ \E k : i = Append(<<a>>, k)
    BY <2>1 DEF CallInv, Owned
  <2>3. i[1] = a
    BY <2>2
  <2>4. Owned(i)'
    BY <2>2 DEF Owned
  <2>5. i = <<i[1]>> => Told(calls[i].answer, i[1])'
    BY <1>3, <1>5, <2>1, <2>3 DEF CallInv, Told
  <2>6. Live(i[1])' => Truthful(calls[i], i[1])'
    BY <1>3, <1>5, <2>1, <2>3 DEF CallInv, Told, Truthful
  <2> QED  BY <2>4, <2>5, <2>6 DEF CallInv
<1> QED  BY <1>2, <1>4, <1>5 DEF TruthInv

LEMMA StartTells ==
    ASSUME TruthInv, NEW h, Start(h)
    PROVE  TruthInv'
<1>1. calls' = calls /\ Witness(Served(up', serves'))
  BY DEF Start
<1> QED  BY <1>1, WitnessTells DEF Live

LEMMA CrashTells ==
    ASSUME IInv, TruthInv, NEW h, Crash(h)
    PROVE  TruthInv'
<1>1. DOMAIN calls' = DOMAIN calls /\ serves' = serves /\ Witness(Served(up', serves))
  BY DEF Crash
<1>2. ASSUME NEW i \in DOMAIN calls
      PROVE  /\ \/ calls'[i] = calls[i]
                \/ calls'[i] = [calls[i] EXCEPT !.phase = "lost"]
                \/ Len(i) # 1 /\ calls'[i] = [calls[i] EXCEPT !.phase = "broken"]
  BY <1>2 DEF Crash
<1>3. ASSUME NEW i \in DOMAIN calls
      PROVE  calls'[i].answer = calls[i].answer /\ calls'[i].part = calls[i].part
  BY <1>2, <1>3 DEF IInv, Sound, Fields
<1>4. ASSUME NEW a \in Agents, Live(a)'
      PROVE  Live(a)
  <2>1. <<a>> \in DOMAIN calls /\ Len(<<a>>) = 1
    BY <1>1, <1>4 DEF Live
  <2> QED  BY <1>2, <1>4, <2>1 DEF Live, IInv, Sound, Fields
<1> QED  BY <1>1, <1>3, <1>4, WitnessTells

(* Answers that name no roots.                                             *)
LEMMA SilentAnswers ==
    ASSUME IInv, TruthInv, NEW id \in DOMAIN calls, Refuse(id) \/ ServeRoot(id) \/ ShowSearch(id)
    PROVE  TruthInv'
<1>1. CASE Refuse(id)
  BY <1>1, AnswerTells DEF Refuse, Told
<1>2. CASE ServeRoot(id)
  <2>1. PICK answer : Answer(id, answer) /\ answer.type # "roots"
    <3>1. Answer(id, IF calls[id].op.name \in serves[calls[id].at]
                     THEN Searched(calls[id].op.name)
                     ELSE Error(Explain(calls[id].at, calls[id].op.name)))
      BY <1>2 DEF ServeRoot
    <3>2. Searched(calls[id].op.name).type # "roots"
      BY DEF Searched
    <3>3. Error(Explain(calls[id].at, calls[id].op.name)).type # "roots"
      BY DEF Error
    <3> QED  BY <3>1, <3>2, <3>3
  <2> QED  BY <1>2, <2>1, AnswerTells DEF ServeRoot, Arrives, Told
<1>3. CASE ShowSearch(id)
  <2>1. PICK answer : Answer(id, answer) /\ answer.type = "found"
    BY <1>3 DEF ShowSearch
  <2> QED  BY <1>3, <2>1, AnswerTells DEF ShowSearch, Told
<1> QED  BY <1>1, <1>2, <1>3

(* A relayed answer is as true as what was taken.                          *)
LEMMA RelayTells ==
    ASSUME IInv, TruthInv, NEW id \in DOMAIN calls, Relay(id)
    PROVE  TruthInv'
<1>1. PICK k \in DOMAIN calls[id].part :
        LET o == calls[id].part[k]
        IN Answer(id, CASE o.type = "unreachable" -> Error("peer_unreachable")
                        [] o.type = "refused" -> Error("peer_credential_rejected")
                        [] o.type = "timeout" -> Error("peer_timeout")
                        [] OTHER -> o)
  BY DEF Relay
<1>2. PICK answer : /\ Answer(id, answer)
                    /\ answer.type = "roots" => answer = calls[id].part[k]
  <2>1. \A reason : Error(reason).type # "roots"
    BY DEF Error
  <2> QED  BY <1>1, <2>1
<1>3. Live(id[1]) => Told(answer, id[1])
  BY <1>2 DEF TruthInv, CallInv, Truthful, Told
<1> QED  BY <1>2, <1>3, AnswerTells DEF Relay

(* The host that shows roots serves its own, now; those of its peers it    *)
(* shows as active are from their answers.                                 *)
LEMMA ShowRootsTells ==
    ASSUME IInv, TruthInv, NEW id \in DOMAIN calls, ShowRoots(id)
    PROVE  TruthInv'
<1> DEFINE h == calls[id].at
           entries == {Entry(n, "active") : n \in serves[h]}
                      \cup UNION {RootLines(h, p, Outcome(id, p)) : p \in Peers(h)}
<1>1. PICK answer : Answer(id, answer) /\ answer.entries = entries
  BY DEF ShowRoots
<1>2. h \in up /\ calls[id].phase = "probing"
  BY DEF ShowRoots
<1>3. ASSUME Live(id[1]), NEW e \in entries, e.status = "active"
      PROVE  e.name \in past[id[1]].ever
  <2>1. CallInv(id) /\ id[1] \in Agents
    <3>1. PICK a \in Agents : id = <<a>> \/ \E k : id = Append(<<a>>, k)
      BY DEF TruthInv, CallInv, Owned
    <3>2. id[1] = a
      BY <3>1
    <3> QED  BY <3>2 DEF TruthInv
  <2>2. CASE e \in {Entry(n, "active") : n \in serves[h]}
    <3>1. e.name \in serves[h]
      BY <2>2 DEF Entry
    <3>2. serves[h] \subseteq Served(up, serves)
      BY <1>2 DEF Served
    <3> QED  BY <1>3, <2>1, <3>1, <3>2 DEF TruthInv, WitnessInv
  <2>3. ASSUME NEW p \in Peers(h), e \in RootLines(h, p, Outcome(id, p))
        PROVE  e.name \in past[id[1]].ever
    <3>1. CASE Outcome(id, p).type = "roots"
      <4>1. e \in Outcome(id, p).entries
        BY <2>3, <3>1 DEF RootLines
      <4>2. p \in DOMAIN calls[id].part /\ Outcome(id, p) = calls[id].part[p]
        BY <3>1 DEF Outcome, Pending
      <4> QED  BY <1>3, <2>1, <3>1, <4>1, <4>2 DEF CallInv, Truthful, Told
    <3>2. CASE Outcome(id, p).type = "unreachable"
      <4>1. e \in {Entry(n, "unreachable") : n \in seen[h][p]}
        BY <2>3, <3>2 DEF RootLines
      <4> QED  BY <1>3, <4>1 DEF Entry
    <3>3. CASE Outcome(id, p).type \notin {"roots", "unreachable"}
      BY <2>3, <3>3 DEF RootLines
    <3> QED  BY <3>1, <3>2, <3>3
  <2> QED  BY <1>3, <2>2, <2>3
<1>4. Live(id[1]) => Told(answer, id[1])
  BY <1>1, <1>3 DEF Told
<1> QED  BY <1>1, <1>2, <1>4, AnswerTells DEF ShowRoots

(* The end of a call to a peer, told.                                      *)
LEMMA ChildTells ==
    ASSUME IInv, TruthInv, NEW id \in DOMAIN calls, NEW k \in DOMAIN calls[id].part,
           Connect(id, k) \/ Return(id, k) \/ Unanswered(id, k) \/ Replay(id, k)
             \/ TimesOut(id, k)
    PROVE  TruthInv'
<1>1. CASE Connect(id, k)
  BY <1>1, PhaseTells DEF Connect
<1>2. CASE Replay(id, k)
  BY <1>2, PhaseTells DEF Replay
<1>3. CASE TimesOut(id, k)
  BY <1>3, TookTells DEF TimesOut, Told, TruthInv, PastInv
<1>4. CASE Unanswered(id, k)
  <2>1. past' = [past EXCEPT ![id[1]].missed = @ \cup {calls[Append(id, k)].at}]
    BY <1>4 DEF Unanswered
  <2>2. PastInv' /\ \A a \in Agents : past'[a].ever = past[a].ever
    BY <2>1 DEF TruthInv, PastInv
  <2> QED  BY <1>4, <2>2, TookTells DEF Unanswered, Told
<1>5. CASE Return(id, k)
  <2> DEFINE child == calls[Append(id, k)]
             outcome == IF child.answer.type = "denied" THEN [type |-> "refused"]
                        ELSE child.answer
  <2>1. Took(id, k, outcome) /\ UNCHANGED <<up, serves, past>>
    BY <1>5 DEF Return
  <2>2. Live(id[1]) => Told(outcome, id[1])
    <3>1. Append(id, k) \in DOMAIN calls /\ Append(id, k)[1] = id[1]
      <4>1. PICK a \in Agents : id = <<a>> \/ \E j : id = Append(<<a>>, j)
        BY DEF TruthInv, CallInv, Owned
      <4>2. Append(id, k)[1] = id[1]
        BY <4>1
      <4> QED  BY <1>5, <4>2 DEF Return, Waits
    <3>2. Live(id[1]) => Told(child.answer, id[1])
      BY <3>1 DEF TruthInv, CallInv, Truthful
    <3> QED  BY <3>2 DEF Told
  <2>3. PastInv'
    BY <2>1 DEF TruthInv, PastInv
  <2> QED  BY <2>1, <2>2, <2>3, TookTells
<1> QED  BY <1>1, <1>2, <1>3, <1>4, <1>5

LEMMA HandleTells ==
    ASSUME IInv, IInv', TruthInv, NEW id \in DOMAIN calls, Handle(id)
    PROVE  TruthInv'
<1>1. CASE Refuse(id) \/ ServeRoot(id) \/ ShowSearch(id)
  BY <1>1, SilentAnswers
<1>2. CASE Forward(id)
  <2>1. PICK asks : Await(id, "forwarding", asks, <<>>)
    BY <1>2 DEF Forward
  <2> QED  BY <1>2, <2>1, AwaitTells DEF Forward, Arrives
<1>3. CASE Probe(id)
  <2>1. PICK asks : Await(id, "probing", asks, <<>>)
    BY <1>3 DEF Probe
  <2> QED  BY <1>3, <2>1, AwaitTells DEF Probe, Arrives
<1>4. CASE Search(id)
  <2>1. PICK asks, gone : Await(id, "searching", asks, gone)
    BY <1>4 DEF Search
  <2> QED  BY <1>4, <2>1, AwaitTells DEF Search
<1>5. CASE Relay(id)
  BY <1>5, RelayTells
<1>6. CASE ShowRoots(id)
  BY <1>6, ShowRootsTells
<1>7. CASE \E k \in DOMAIN calls[id].part :
             \/ Connect(id, k) \/ Return(id, k) \/ Unanswered(id, k)
             \/ Replay(id, k) \/ TimesOut(id, k)
  BY <1>7, ChildTells
<1> QED  BY <1>1, <1>2, <1>3, <1>4, <1>5, <1>6, <1>7 DEF Handle

LEMMA NextTells ==
    ASSUME IInv, IInv', TruthInv, [Next]_vars
    PROVE  TruthInv'
<1>1. CASE \E a \in Agents : Call(a)
  BY <1>1, CallTells
<1>2. CASE \E id \in DOMAIN calls : Handle(id)
  BY <1>2, HandleTells
<1>3. CASE \E h \in Hosts : Crash(h)
  BY <1>3, CrashTells
<1>4. CASE \E h \in Hosts : Start(h)
  BY <1>4, StartTells
<1>5. CASE UNCHANGED vars
  BY <1>5, ZenonT(40) DEF vars, TruthInv, PastInv, WitnessInv, CallInv, Owned, Live, Truthful, Told, Served
<1> QED  BY <1>1, <1>2, <1>3, <1>4, <1>5 DEF Next

THEOREM TruthsStay == Spec => []TruthInv
<1>1. Init => TruthInv
  BY DEF Init, TruthInv, PastInv, WitnessInv, Live
<1> QED  BY <1>1, NextTells, InductiveInvariant, PTL DEF Spec

(* What `roots` shows as active its host served while the call ran, and    *)
(* what it only remembers is marked, however daemons come and go and       *)
(* answers of other calls change what it remembers (server.rs, fleet.rs).  *)
THEOREM RemembranceIsMarked == Spec => []StaleIsMarked
<1>1. TruthInv => StaleIsMarked
  <2>1. SUFFICES ASSUME TruthInv, NEW a \in Agents, Answered(a),
                        calls[<<a>>].answer.type = "roots",
                        NEW e \in calls[<<a>>].answer.entries, e.status = "active"
                 PROVE  e.name \in past[a].ever
    BY DEF StaleIsMarked
  <2>2. CallInv(<<a>>) /\ <<a>>[1] = a
    BY <2>1 DEF TruthInv, Answered
  <2> QED  BY <2>1, <2>2 DEF CallInv, Told
<1> QED  BY <1>1, TruthsStay, PTL

-----------------------------------------------------------------------------
(* What an agent is told of hosts.  Everything taken from a peer, and      *)
(* every answer a peer gives, is true by the history h of the agent's call.*)

(* The host that call c asks under key k.                                  *)
Aim(c, k) == IF c.phase = "searching" THEN Prefix[k] ELSE k

(* What host p reports of its roots has every name of it that was served   *)
(* all the while.                                                          *)
ReportsAll(p, h, o) ==
    /\ \A n \in h.always : Prefix[n] = p => \E e \in o.entries : e.name = n
    /\ \A e \in o.entries : Prefix[e.name] = p

(* What agent call c took from the host it asked under k.                  *)
OutcomeTrue(c, h, k, o) ==
    /\ o.type \in {"pending", "unreachable", "refused", "timeout", "roots", "hits", "error"}
    /\ o.type = "unreachable" => Aim(c, k) \in h.missed
    /\ o.type = "refused" => ~Admitted(Aim(c, k), c.author, c.at)
    /\ o.type = "roots" => /\ c.op.tool # "one_root"
                           /\ Admitted(Aim(c, k), c.author, c.at)
                           /\ h.ever \cap RootsOf(Aim(c, k)) # {}
                           /\ ReportsAll(Aim(c, k), h, o)
    /\ o.type = "hits" => /\ Admitted(Aim(c, k), c.author, c.at)
                          /\ o.root \in h.ever /\ Prefix[o.root] = Aim(c, k)
                          /\ c.phase = "searching" => o = Searched(k)
    /\ o.type = "error" => o.reason = "unknown_root"
                           /\ (c.phase = "forwarding" => c.op.name \notin h.always)

(* What a peer answers to a call d it received.                            *)
ReplyTrue(d, h, o) ==
    /\ o.type \in {"pending", "denied", "roots", "hits", "error"}
    /\ o.type = "denied" => ~Admitted(d.at, d.author, d.node)
    /\ o.type = "roots" => /\ d.op.tool = "roots"
                           /\ Admitted(d.at, d.author, d.node)
                           /\ h.ever \cap RootsOf(d.at) # {}
                           /\ ReportsAll(d.at, h, o)
    /\ o.type = "hits" => /\ Admitted(d.at, d.author, d.node)
                          /\ o.root \in h.ever /\ Prefix[o.root] = d.at
                          /\ o = Searched(d.op.name)
    /\ o.type = "error" => o.reason = "unknown_root" /\ d.op.name \notin h.always

Waiting == {"forwarding", "probing", "searching"}

PhaseOK(c) ==
    /\ c.phase \notin Waiting => DOMAIN c.part = {} \/ c.phase = "lost"
    /\ c.phase = "forwarding" => /\ c.op.tool = "one_root"
                                 /\ Prefix[c.op.name] # c.at
                                 /\ DOMAIN c.part = {Prefix[c.op.name]}
    /\ c.phase = "probing" => c.op.tool # "one_root" /\ DOMAIN c.part = Probed(c)
    /\ c.phase = "searching" =>
          /\ c.op.tool = "fleet_search"
          /\ \A p \in DOMAIN c.gone : c.gone[p] = "identity_refused" => RefusedBy(p, c)

(* A search that goes on after its probes has of each name that its        *)
(* pattern selects, and that was served all the while, an own root, a host *)
(* it is not declared to know or could not search, or the root's call.     *)
SearchCovers(c, h) ==
    c.phase = "searching" =>
      /\ DOMAIN c.part \subseteq Names
      /\ \A n \in DOMAIN c.part : Prefix[n] # c.at
      /\ \A n \in h.always \cap c.op.names :
            \/ Prefix[n] \notin Peers(c.at)
            \/ Prefix[n] \in DOMAIN c.gone
            \/ n \in DOMAIN c.part

AgentOK(c, h) ==
    /\ c.at \in Hosts /\ Op(c.op)
    /\ PhaseOK(c) /\ SearchCovers(c, h)
    /\ c.phase \in Waiting => \A k \in DOMAIN c.part : OutcomeTrue(c, h, k, c.part[k])
    /\ LinesAreTrue(c, h, c.answer) /\ ReasonsAreTrue(c, h, c.answer)
    /\ FoundIsHonest(c, h, c.answer)

(* A call d that agent call c makes under key k.                           *)
ChildOK(d, c, k, h) ==
    /\ d.author = c.author /\ d.node = c.at /\ d.at = Aim(c, k)
    /\ c.phase = "forwarding" => d.op = c.op
    /\ c.phase = "searching" => d.op.tool = "one_root" /\ d.op.name = k
    /\ d.phase \notin {"forwarding", "searching"}
    /\ d.phase = "probing" => /\ d.op.tool = "roots" /\ Admitted(d.at, d.author, d.node)
                               /\ DOMAIN d.part = {}
    /\ ReplyTrue(d, h, d.answer)

ServesInv ==
    /\ up \subseteq Hosts
    /\ serves = [h \in Hosts |-> serves[h]]
    /\ \A h \in up : Startable(h, serves[h])
    /\ \A a \in Agents : Live(a) => past[a].always \subseteq Served(up, serves)

VerdictInv ==
    /\ ServesInv
    /\ \A a \in Agents : <<a>> \in DOMAIN calls => AgentOK(calls[<<a>>], past[a])
    /\ \A a \in Agents : \A k :
          Append(<<a>>, k) \in DOMAIN calls /\ Live(a) =>
            ChildOK(calls[Append(<<a>>, k)], calls[<<a>>], k, past[a])

(* A history only grows, and what was true by it stays true.               *)
Grown(h, g) == /\ h.ever \subseteq g.ever /\ h.missed \subseteq g.missed
               /\ g.always \subseteq h.always

LEMMA AgentGrows ==
    ASSUME NEW h, NEW g, Grown(h, g), NEW c, AgentOK(c, h)
    PROVE  AgentOK(c, g)
<1>1. c.phase \in Waiting => \A k \in DOMAIN c.part : OutcomeTrue(c, g, k, c.part[k])
  <2>1. ASSUME NEW k, NEW o, OutcomeTrue(c, h, k, o) PROVE OutcomeTrue(c, g, k, o)
    BY <2>1 DEF OutcomeTrue, ReportsAll, Grown
  <2> QED BY <2>1 DEF AgentOK
<1>2. LinesAreTrue(c, g, c.answer)
  BY DEF AgentOK, LinesAreTrue, Grown
<1>3. ReasonsAreTrue(c, g, c.answer)
  BY DEF AgentOK, ReasonsAreTrue, Grown
<1>4. FoundIsHonest(c, g, c.answer)
  BY DEF AgentOK, FoundIsHonest, Grown
<1>5. SearchCovers(c, g)
  BY DEF AgentOK, SearchCovers, Grown
<1> QED  BY <1>1, <1>2, <1>3, <1>4, <1>5 DEF AgentOK

LEMMA ChildGrows ==
    ASSUME NEW h, NEW g, Grown(h, g), NEW c, NEW k, NEW d, ChildOK(d, c, k, h)
    PROVE  ChildOK(d, c, k, g)
<1>1. ReplyTrue(d, g, d.answer)
  BY DEF ChildOK, ReplyTrue, ReportsAll, Grown
<1> QED BY <1>1 DEF ChildOK

(* A step of a call of agent b, or of one made for it, leaves those of the *)
(* other agents alone.                                                     *)
LEMMA VerdictKept ==
    ASSUME VerdictInv, UNCHANGED <<up, serves>>, NEW b \in Agents,
           \A a \in Agents : a # b => past'[a] = past[a],
           Grown(past[b], past'[b]),
           \A i \in DOMAIN calls' : i[1] # b => i \in DOMAIN calls /\ calls'[i] = calls[i],
           Live(b)' => Live(b),
           <<b>> \in DOMAIN calls' => AgentOK(calls'[<<b>>], past'[b]),
           \A k : Append(<<b>>, k) \in DOMAIN calls' /\ Live(b)' =>
                    ChildOK(calls'[Append(<<b>>, k)], calls'[<<b>>], k, past'[b])
    PROVE  VerdictInv'
<1>1. ASSUME NEW a \in Agents, a # b, <<a>> \in DOMAIN calls'
      PROVE  <<a>> \in DOMAIN calls /\ calls'[<<a>>] = calls[<<a>>] /\ past'[a] = past[a]
  <2>1. <<a>>[1] = a
    OBVIOUS
  <2> QED  BY <1>1, <2>1
<1>2. ASSUME NEW a \in Agents, <<a>> \in DOMAIN calls'
      PROVE  AgentOK(calls'[<<a>>], past'[a])
  BY <1>1, <1>2 DEF VerdictInv
<1>3. ASSUME NEW a \in Agents, NEW k, Append(<<a>>, k) \in DOMAIN calls', Live(a)'
      PROVE  ChildOK(calls'[Append(<<a>>, k)], calls'[<<a>>], k, past'[a])
  <2>1. CASE a # b
    <3>1. <<a>> \in DOMAIN calls /\ calls'[<<a>>] = calls[<<a>>] /\ past'[a] = past[a]
      BY <1>1, <1>3, <2>1 DEF Live
    <3>2. Append(<<a>>, k)[1] = a
      OBVIOUS
    <3>3. /\ Append(<<a>>, k) \in DOMAIN calls
          /\ calls'[Append(<<a>>, k)] = calls[Append(<<a>>, k)]
      BY <1>3, <2>1, <3>2
    <3>4. Live(a)
      BY <1>3, <3>1 DEF Live
    <3>5. ChildOK(calls[Append(<<a>>, k)], calls[<<a>>], k, past[a])
      BY <3>3, <3>4 DEF VerdictInv
    <3> QED  BY <3>1, <3>3, <3>5
  <2> QED  BY <1>3, <2>1
<1>4. ASSUME NEW a \in Agents, Live(a)'
      PROVE  past'[a].always \subseteq Served(up, serves)
  <2>1. Live(a) /\ past'[a].always \subseteq past[a].always
    BY <1>1, <1>4 DEF Live, Grown
  <2> QED  BY <2>1 DEF VerdictInv, ServesInv
<1>5. ServesInv'
  BY <1>4 DEF VerdictInv, ServesInv, Served
<1> QED  BY <1>2, <1>3, <1>5 DEF VerdictInv

(* Every call is an agent's or made for one.                               *)
LEMMA WhoseCall ==
    ASSUME TruthInv, NEW id \in DOMAIN calls
    PROVE  \E a \in Agents : /\ <<a>> \in DOMAIN calls /\ id[1] = a
                             /\ id = <<a>> \/ \E k : id = Append(<<a>>, k)
<1>1. PICK a \in Agents : /\ <<a>> \in DOMAIN calls
                          /\ id = <<a>> \/ \E k : id = Append(<<a>>, k)
  BY DEF TruthInv, CallInv, Owned
<1>2. id[1] = a
  BY <1>1
<1> QED  BY <1>1, <1>2

LEMMA SameHistory ==
    ASSUME UNCHANGED past
    PROVE  \A a \in Agents : past'[a] = past[a] /\ Grown(past[a], past'[a])
  BY DEF Grown

(* An agent is answered.                                                   *)
LEMMA AgentAnswered ==
    ASSUME IInv, TruthInv, VerdictInv, NEW a \in Agents, <<a>> \in DOMAIN calls,
           NEW answer, Answer(<<a>>, answer), UNCHANGED <<up, serves, past>>,
           LinesAreTrue(calls[<<a>>], past[a], answer),
           ReasonsAreTrue(calls[<<a>>], past[a], answer),
           FoundIsHonest(calls[<<a>>], past[a], answer)
    PROVE  VerdictInv'
<1> DEFINE c == calls[<<a>>]
           d == [c EXCEPT !.phase = "answered", !.part = <<>>, !.gone = <<>>, !.answer = answer]
<1>1. DOMAIN calls' = DOMAIN calls \ Children(<<a>>)
  BY DEF Answer
<1>2. \A i \in DOMAIN calls' : calls'[i] = IF i = <<a>> THEN d ELSE calls[i]
  BY <1>1 DEF Answer
<1>3. DOMAIN c = Fields
  BY DEF IInv, Sound
<1>4. <<a>> \in DOMAIN calls' /\ calls'[<<a>>] = d
  BY <1>1, <1>2, AgentsStay
<1>5. /\ d.at = c.at /\ d.author = c.author /\ d.op = c.op /\ d.phase = "answered"
      /\ d.answer = answer /\ d.part = <<>>
  BY <1>3 DEF Fields
<1>6. AgentOK(d, past[a])
  <2>1. c.at \in Hosts /\ Op(c.op)
    BY DEF VerdictInv, AgentOK
  <2>2. LinesAreTrue(d, past[a], answer)
    BY <1>5 DEF LinesAreTrue, RefusedBy
  <2>3. ReasonsAreTrue(d, past[a], answer)
    BY <1>5 DEF ReasonsAreTrue, RefusedBy
  <2>4. DOMAIN d.part = {}
    BY <1>5
  <2>5. FoundIsHonest(d, past[a], answer)
    BY <1>5 DEF FoundIsHonest, RefusedBy
  <2> HIDE DEF d
  <2> QED  BY <1>5, <2>1, <2>2, <2>3, <2>4, <2>5 DEF AgentOK, PhaseOK, SearchCovers, Waiting
<1>7. ~Live(a)'
  BY <1>4, <1>5 DEF Live
<1>8. \A i \in DOMAIN calls' : i[1] # a => i \in DOMAIN calls /\ calls'[i] = calls[i]
  BY <1>1, <1>2
<1> QED  BY <1>4, <1>6, <1>7, <1>8, SameHistory, VerdictKept

(* A step of one call for an agent, which keeps the agent's.               *)
LEMMA ChildStep ==
    ASSUME TruthInv, VerdictInv, UNCHANGED <<up, serves, past>>,
           NEW a \in Agents, <<a>> \in DOMAIN calls, NEW k, NEW new,
           Append(<<a>>, k) \in DOMAIN calls,
           DOMAIN calls' \subseteq DOMAIN calls,
           \A i \in DOMAIN calls' :
              calls'[i] = IF i = Append(<<a>>, k) THEN new ELSE calls[i],
           Live(a) => ChildOK(new, calls[<<a>>], k, past[a])
    PROVE  VerdictInv'
<1>1. <<a>> # Append(<<a>>, k) /\ <<a>>[1] = a /\ Len(<<a>>) = 1
  BY AgentsStay
<1>2. <<a>> \in DOMAIN calls' => calls'[<<a>>] = calls[<<a>>]
  BY <1>1
<1>3. Live(a)' => Live(a)
  BY <1>2 DEF Live
<1>4. ASSUME NEW j, Append(<<a>>, j) \in DOMAIN calls', Live(a)'
      PROVE  ChildOK(calls'[Append(<<a>>, j)], calls'[<<a>>], j, past'[a])
  <2>1. calls'[<<a>>] = calls[<<a>>] /\ Live(a)
    BY <1>2, <1>3, <1>4 DEF Live
  <2>2. Len(Append(<<a>>, j)) = 2 /\ Last(Append(<<a>>, j)) = j /\ Last(Append(<<a>>, k)) = k
    BY ChildLength
  <2>3. /\ Append(<<a>>, j) \in DOMAIN calls
        /\ calls'[Append(<<a>>, j)] = IF Append(<<a>>, j) = Append(<<a>>, k) THEN new
                                      ELSE calls[Append(<<a>>, j)]
    BY <1>4, <2>2
  <2>4. CASE Append(<<a>>, j) = Append(<<a>>, k)
    <3>1. j = k
      BY <2>2, <2>4
    <3> QED  BY <2>1, <2>3, <3>1
  <2>5. CASE Append(<<a>>, j) # Append(<<a>>, k)
    BY <2>1, <2>3, <2>5 DEF VerdictInv
  <2> QED  BY <2>4, <2>5
<1>5. <<a>> \in DOMAIN calls' => AgentOK(calls'[<<a>>], past'[a])
  BY <1>2 DEF VerdictInv
<1>6. ASSUME NEW i \in DOMAIN calls', i[1] # a
      PROVE  i \in DOMAIN calls /\ calls'[i] = calls[i]
  <2>1. Append(<<a>>, k)[1] = a
    OBVIOUS
  <2> QED  BY <1>6, <2>1
<1> QED  BY <1>3, <1>4, <1>5, <1>6, SameHistory, VerdictKept

(* A peer answers.                                                         *)
LEMMA ChildAnswered ==
    ASSUME IInv, TruthInv, VerdictInv, NEW a \in Agents, <<a>> \in DOMAIN calls, NEW k,
           Append(<<a>>, k) \in DOMAIN calls, NEW answer, Answer(Append(<<a>>, k), answer),
           UNCHANGED <<up, serves, past>>,
           Live(a) => ReplyTrue(calls[Append(<<a>>, k)], past[a], answer)
    PROVE  VerdictInv'
<1> DEFINE id == Append(<<a>>, k)
           d == calls[id]
           new == [d EXCEPT !.phase = "answered", !.part = <<>>, !.gone = <<>>,
                            !.answer = answer]
<1>1. DOMAIN calls' \subseteq DOMAIN calls
  BY DEF Answer
<1>2. \A i \in DOMAIN calls' : calls'[i] = IF i = id THEN new ELSE calls[i]
  BY DEF Answer
<1>3. DOMAIN d = Fields
  BY DEF IInv, Sound
<1>4. /\ new.at = d.at /\ new.author = d.author /\ new.node = d.node /\ new.op = d.op
      /\ new.phase = "answered" /\ new.answer = answer
  BY <1>3 DEF Fields
<1>5. ASSUME Live(a)
      PROVE  ChildOK(new, calls[<<a>>], k, past[a])
  <2>1. ChildOK(d, calls[<<a>>], k, past[a])
    BY <1>5 DEF VerdictInv
  <2>2. ReplyTrue(new, past[a], answer)
    BY <1>4, <1>5 DEF ReplyTrue
  <2> HIDE DEF new, d
  <2> QED  BY <1>4, <2>1, <2>2 DEF ChildOK
<1> HIDE DEF new
<1> QED  BY <1>1, <1>2, <1>5, ChildStep

LEMMA ChildIsFinal ==
    ASSUME IInv, NEW a, NEW k, Append(<<a>>, k) \in DOMAIN calls
    PROVE  Final(calls[Append(<<a>>, k)])
<1>1. Len(Append(<<a>>, k)) = 2
  BY ChildLength
<1>2. \A b : Append(<<a>>, k) # <<b>>
  BY <1>1
<1> QED  BY <1>2 DEF IInv, Sound

(* What a host serves now, the history of a call under way knows.          *)
LEMMA ServedNow ==
    ASSUME TruthInv, VerdictInv, NEW a \in Agents, Live(a), NEW h \in up
    PROVE  /\ h \in Hosts /\ serves[h] # {}
           /\ serves[h] \subseteq past[a].ever /\ serves[h] \subseteq RootsOf(h)
           /\ \A n : Prefix[n] = h /\ n \notin serves[h] => n \notin past[a].always
<1>1. h \in Hosts /\ Startable(h, serves[h])
  BY DEF VerdictInv, ServesInv
<1>2. serves[h] \subseteq past[a].ever
  <2>1. serves[h] \subseteq Served(up, serves)
    BY DEF Served
  <2> QED  BY <2>1 DEF TruthInv, WitnessInv
<1>3. ASSUME NEW n \in past[a].always, Prefix[n] = h
      PROVE  n \in serves[h]
  <2>1. n \in Served(up, serves)
    BY <1>3 DEF VerdictInv, ServesInv
  <2>2. PICK g \in up : n \in serves[g]
    BY <2>1 DEF Served
  <2>3. Prefix[n] = g
    BY <2>2 DEF VerdictInv, ServesInv, Startable, RootsOf
  <2> QED  BY <1>3, <2>2, <2>3
<1> QED  BY <1>1, <1>2, <1>3 DEF Startable

(* Only a host's own names are unknown to it, and it speaks of its peers   *)
(* from the table.                                                         *)
LEMMA ExplainTells ==
    ASSUME NEW h \in Hosts, NEW n
    PROVE  /\ Explain(h, n) = "unknown_root" => Prefix[n] = h
           /\ Prefix[n] = h => Explain(h, n) = "unknown_root"
           /\ Explain(h, n) \notin {"peer_unreachable", "peer_credential_rejected"}
<1>1. h \notin Peers(h)
  BY FleetAssumption DEF Peers, PeerTable
<1>2. CASE Prefix[n] = h
  BY <1>1, <1>2 DEF Explain
<1>3. CASE Prefix[n] # h /\ Prefix[n] \in Peers(h)
  <2>1. Fleet[h] # NoTable /\ Fleet[h][Prefix[n]].status \in Statuses
    BY <1>3, FleetAssumption DEF Peers, PeerTable
  <2> QED  BY <1>3, <2>1 DEF Explain, Statuses
<1>4. CASE Prefix[n] # h /\ Prefix[n] \notin Peers(h)
  BY <1>4 DEF Explain
<1> QED  BY <1>2, <1>3, <1>4

LEMMA RefuseVerdict ==
    ASSUME IInv, TruthInv, VerdictInv, NEW id \in DOMAIN calls, Refuse(id)
    PROVE  VerdictInv'
<1> DEFINE answer == [type |-> "denied"]
<1>1. /\ Answer(id, answer) /\ UNCHANGED <<up, serves, past>>
      /\ ~Admitted(calls[id].at, calls[id].author, calls[id].node)
  BY DEF Refuse
<1>2. PICK a \in Agents : /\ <<a>> \in DOMAIN calls
                          /\ id = <<a>> \/ \E k : id = Append(<<a>>, k)
  BY WhoseCall
<1>3. CASE id = <<a>>
  <2>1. /\ LinesAreTrue(calls[<<a>>], past[a], answer)
        /\ ReasonsAreTrue(calls[<<a>>], past[a], answer)
        /\ FoundIsHonest(calls[<<a>>], past[a], answer)
    BY DEF LinesAreTrue, ReasonsAreTrue, FoundIsHonest
  <2> QED  BY <1>1, <1>2, <1>3, <2>1, AgentAnswered
<1>4. ASSUME NEW k, id = Append(<<a>>, k)
      PROVE  VerdictInv'
  <2>1. ReplyTrue(calls[id], past[a], answer)
    BY <1>1 DEF ReplyTrue
  <2> QED  BY <1>1, <1>2, <1>4, <2>1, ChildAnswered
<1> QED  BY <1>2, <1>3, <1>4

LEMMA ServeRootVerdict ==
    ASSUME IInv, TruthInv, VerdictInv, NEW id \in DOMAIN calls, ServeRoot(id)
    PROVE  VerdictInv'
<1> DEFINE c == calls[id]
           n == c.op.name
           answer == IF n \in serves[c.at] THEN Searched(n) ELSE Error(Explain(c.at, n))
<1>1. /\ Answer(id, answer) /\ UNCHANGED <<up, serves, past>>
      /\ Admitted(c.at, c.author, c.node) /\ c.at \in up /\ c.op.tool = "one_root"
      /\ c.phase = "arrived"
  BY DEF ServeRoot, Arrives
<1>2. PICK a \in Agents : /\ <<a>> \in DOMAIN calls
                          /\ id = <<a>> \/ \E k : id = Append(<<a>>, k)
  BY WhoseCall
<1>3. ASSUME Live(a)
      PROVE  /\ c.at \in Hosts
             /\ n \in serves[c.at] => n \in past[a].ever /\ Prefix[n] = c.at
             /\ n \notin serves[c.at] /\ Prefix[n] = c.at => n \notin past[a].always
  BY <1>1, <1>3, ServedNow DEF RootsOf
<1>4. CASE n \in serves[c.at]
  <2>1. answer.type = "hits" /\ answer.root = n /\ answer = Searched(n)
    BY <1>4 DEF Searched
  <2>2. CASE id = <<a>>
    <3>1. Live(a)
      BY <1>1, <1>2, <2>2 DEF Live
    <3>2. /\ LinesAreTrue(c, past[a], answer) /\ ReasonsAreTrue(c, past[a], answer)
          /\ FoundIsHonest(c, past[a], answer)
      BY <1>3, <1>4, <2>1, <3>1 DEF LinesAreTrue, ReasonsAreTrue, FoundIsHonest, RefusedBy
    <3> HIDE DEF answer
    <3> QED  BY <1>1, <1>2, <2>2, <3>2, AgentAnswered
  <2>3. ASSUME NEW k, id = Append(<<a>>, k)
        PROVE  VerdictInv'
    <3>1. Live(a) => ReplyTrue(c, past[a], answer)
      BY <1>1, <1>3, <1>4, <2>1 DEF ReplyTrue
    <3> HIDE DEF answer
    <3> QED  BY <1>1, <1>2, <2>3, <3>1, ChildAnswered
  <2> QED  BY <1>2, <2>2, <2>3
<1>5. CASE n \notin serves[c.at]
  <2>1. answer.type = "error" /\ answer.reason = Explain(c.at, n)
    BY <1>5 DEF Error
  <2>2. CASE id = <<a>>
    <3>1. Live(a)
      BY <1>1, <1>2, <2>2 DEF Live
    <3>2. /\ LinesAreTrue(c, past[a], answer) /\ ReasonsAreTrue(c, past[a], answer)
          /\ FoundIsHonest(c, past[a], answer)
      BY <1>3, <1>5, <2>1, <3>1, ExplainTells DEF LinesAreTrue, ReasonsAreTrue, FoundIsHonest
    <3> HIDE DEF answer
    <3> QED  BY <1>1, <1>2, <2>2, <3>2, AgentAnswered
  <2>3. ASSUME NEW k, id = Append(<<a>>, k)
        PROVE  VerdictInv'
    <3>1. Prefix[n] = c.at
      BY <1>1, <2>3, ChildIsFinal DEF Final
    <3>2. Live(a) => ReplyTrue(c, past[a], answer)
      BY <1>3, <1>5, <2>1, <3>1, ExplainTells DEF ReplyTrue
    <3> HIDE DEF answer
    <3> QED  BY <1>1, <1>2, <2>3, <3>2, ChildAnswered
  <2> QED  BY <1>2, <2>2, <2>3
<1> QED  BY <1>4, <1>5

(* What a gateway relays was true of the peer it asked.                    *)
LEMMA RelayVerdict ==
    ASSUME IInv, TruthInv, VerdictInv, NEW id \in DOMAIN calls, Relay(id)
    PROVE  VerdictInv'
<1> DEFINE c == calls[id]
<1>1. UNCHANGED <<up, serves, past>> /\ c.phase = "forwarding" /\ AllIn(id)
  BY DEF Relay
<1>2. PICK k, answer :
        /\ k \in DOMAIN c.part
        /\ Answer(id, answer)
        /\ answer = LET o == c.part[k]
                    IN CASE o.type = "unreachable" -> Error("peer_unreachable")
                         [] o.type = "refused" -> Error("peer_credential_rejected")
                         [] o.type = "timeout" -> Error("peer_timeout")
                         [] OTHER -> o
  BY DEF Relay
<1>3. PICK a \in Agents : /\ <<a>> \in DOMAIN calls
                          /\ id = <<a>> \/ \E j : id = Append(<<a>>, j)
  BY WhoseCall
<1>4. CASE id = <<a>>
  <2> DEFINE o == c.part[k]
             h == past[a]
  <2>1. AgentOK(c, h)
    BY <1>3, <1>4 DEF VerdictInv
  <2>2. /\ c.op.tool = "one_root" /\ Prefix[c.op.name] # c.at /\ k = Prefix[c.op.name]
        /\ OutcomeTrue(c, h, k, o) /\ Aim(c, k) = k
    BY <1>1, <1>2, <2>1 DEF AgentOK, PhaseOK, Waiting, Aim
  <2> HIDE DEF o
  <2>3. LinesAreTrue(c, h, answer) /\ ReasonsAreTrue(c, h, answer) /\ FoundIsHonest(c, h, answer)
    <3>1. CASE o.type \in {"unreachable", "refused", "timeout"}
      <4>1. /\ answer.type = "error"
            /\ o.type = "unreachable" => answer.reason = "peer_unreachable"
            /\ o.type = "refused" => answer.reason = "peer_credential_rejected"
            /\ o.type = "timeout" => answer.reason = "peer_timeout"
        BY <1>2, <3>1 DEF Error, o
      <4> QED  BY <2>2, <3>1, <4>1
                DEF LinesAreTrue, ReasonsAreTrue, FoundIsHonest, OutcomeTrue, RefusedBy
    <3>2. CASE o.type \in {"pending", "roots", "hits", "error"}
      <4>1. answer = o
        BY <1>2, <3>2 DEF o
      <4> QED  BY <1>1, <2>2, <3>2, <4>1
                DEF LinesAreTrue, ReasonsAreTrue, FoundIsHonest, OutcomeTrue, RefusedBy
    <3> QED  BY <2>2, <3>1, <3>2 DEF OutcomeTrue
  <2> QED  BY <1>1, <1>2, <1>3, <1>4, <2>3, AgentAnswered
<1>5. ASSUME NEW j, id = Append(<<a>>, j)
      PROVE  VerdictInv'
  <2>1. ~Live(a)
    BY <1>1, <1>3, <1>5 DEF VerdictInv, ChildOK
  <2> QED  BY <1>1, <1>2, <1>3, <1>5, <2>1, ChildAnswered
<1> QED  BY <1>3, <1>4, <1>5

(* A peer that a host shows as active or as unreachable was asked for its  *)
(* roots in this call.                                                     *)
LEMMA ShowRootsVerdict ==
    ASSUME IInv, TruthInv, VerdictInv, NEW id \in DOMAIN calls, ShowRoots(id)
    PROVE  VerdictInv'
<1> DEFINE c == calls[id]
           fleet == [p \in Peers(c.at) |-> FleetLine(c.at, p, Outcome(id, p))]
<1>1. /\ UNCHANGED <<up, serves, past>> /\ c.phase = "probing" /\ c.at \in up
      /\ c.op.tool = "roots"
  BY DEF ShowRoots
<1>2. PICK answer : /\ Answer(id, answer) /\ answer.type = "roots" /\ answer.fleet = fleet
                    /\ \A n \in serves[c.at] : \E e \in answer.entries : e.name = n
                    /\ DOMAIN c.part = {} =>
                         \A e \in answer.entries : e.name \in serves[c.at]
  <2> DEFINE own == {Entry(n, "active") : n \in serves[c.at]}
             entries == own \cup UNION {RootLines(c.at, p, Outcome(id, p)) : p \in Peers(c.at)}
             answer == [type |-> "roots", entries |-> entries, fleet |-> fleet]
  <2>1. Answer(id, answer)
    BY DEF ShowRoots
  <2>2. ASSUME NEW n \in serves[c.at] PROVE Entry(n, "active") \in entries /\ Entry(n, "active").name = n
    BY DEF Entry
  <2>3. answer.entries = entries /\ answer.type = "roots" /\ answer.fleet = fleet
    OBVIOUS
  <2>4. ASSUME DOMAIN c.part = {}, NEW e \in entries PROVE e.name \in serves[c.at]
    <3>1. \A p \in Peers(c.at) : RootLines(c.at, p, Outcome(id, p)) = {}
      BY <2>4 DEF RootLines, Outcome, Pending
    <3> QED BY <2>4, <3>1 DEF Entry
  <2> HIDE DEF answer, entries
  <2> QED BY <2>1, <2>2, <2>3, <2>4
<1>3. PICK a \in Agents : /\ <<a>> \in DOMAIN calls
                          /\ id = <<a>> \/ \E k : id = Append(<<a>>, k)
  BY WhoseCall
<1>4. CASE id = <<a>>
  <2> DEFINE h == past[a]
  <2>1. AgentOK(c, h) /\ c.at \in Hosts /\ c.at \notin Peers(c.at)
    <3>1. AgentOK(c, h)
      BY <1>3, <1>4 DEF VerdictInv
    <3>2. c.at \in Hosts
      BY <3>1 DEF AgentOK
    <3>3. c.at \notin Peers(c.at)
      BY <3>2, FleetAssumption DEF Peers, PeerTable
    <3> QED  BY <3>1, <3>2, <3>3
  <2>2. ASSUME NEW p \in Peers(c.at), fleet[p].verified
        PROVE  CASE fleet[p].status = "unreachable" -> p \in h.missed
                 [] fleet[p].status = "active" ->
                      ~RefusedBy(p, c) /\ h.ever \cap RootsOf(p) # {}
                 [] OTHER -> FALSE
    <3>1. fleet[p] = FleetLine(c.at, p, Outcome(id, p))
      OBVIOUS
    <3>2. Outcome(id, p).type \in {"roots", "unreachable"}
      BY <2>2, <3>1 DEF FleetLine
    <3>3. p \in DOMAIN c.part /\ Outcome(id, p) = c.part[p]
      BY <3>2 DEF Outcome, Pending
    <3>4. OutcomeTrue(c, h, p, c.part[p]) /\ Aim(c, p) = p
      BY <1>1, <2>1, <3>3 DEF AgentOK, Waiting, Aim
    <3>5. CASE Outcome(id, p).type = "roots"
      <4>1. fleet[p].status = "active"
        BY <3>1, <3>5 DEF FleetLine
      <4>2. ~RefusedBy(p, c) /\ h.ever \cap RootsOf(p) # {}
        BY <3>3, <3>4, <3>5 DEF OutcomeTrue, RefusedBy
      <4> HIDE DEF fleet
      <4> QED  BY <4>1, <4>2
    <3>6. CASE Outcome(id, p).type = "unreachable"
      <4>1. fleet[p].status = "unreachable"
        BY <3>1, <3>6 DEF FleetLine
      <4>2. p \in h.missed
        BY <3>3, <3>4, <3>6 DEF OutcomeTrue
      <4> HIDE DEF fleet
      <4> QED  BY <4>1, <4>2
    <3> QED  BY <3>2, <3>5, <3>6
  <2>3. DOMAIN fleet = Peers(c.at)
    OBVIOUS
  <2> HIDE DEF fleet
  <2>4. LinesAreTrue(c, h, answer)
    BY <1>2, <2>2, <2>3 DEF LinesAreTrue
  <2>5. ReasonsAreTrue(c, h, answer) /\ FoundIsHonest(c, h, answer)
    BY <1>2 DEF ReasonsAreTrue, FoundIsHonest
  <2> QED  BY <1>1, <1>2, <1>3, <1>4, <2>4, <2>5, AgentAnswered
<1>5. ASSUME NEW k, id = Append(<<a>>, k)
      PROVE  VerdictInv'
  <2>1. ASSUME Live(a)
        PROVE  ReplyTrue(c, past[a], answer)
    <3>1. ChildOK(c, calls[<<a>>], k, past[a])
      BY <1>3, <1>5, <2>1 DEF VerdictInv
    <3>2. Admitted(c.at, c.author, c.node)
      BY <1>1, <3>1 DEF ChildOK
    <3>3. past[a].ever \cap RootsOf(c.at) # {}
      BY <1>1, <2>1, ServedNow
    <3>5. DOMAIN c.part = {} /\ serves[c.at] \subseteq RootsOf(c.at)
      BY <1>1, <2>1, <3>1, ServedNow DEF ChildOK
    <3>4. ReportsAll(c.at, past[a], answer)
      BY <1>1, <1>2, <2>1, <3>5, ServedNow DEF ReportsAll, RootsOf
    <3> QED  BY <1>1, <1>2, <3>2, <3>3, <3>4 DEF ReplyTrue
  <2> QED  BY <1>1, <1>2, <1>3, <1>5, <2>1, ChildAnswered
<1> QED  BY <1>3, <1>4, <1>5

-----------------------------------------------------------------------------
(* What a merge keeps of the answers of the roots.                         *)

Merged ==
    [matches : {s \in Seq(Names \X Nat) : Len(s) <= MaxResults},
     failed : SUBSET Names, dropped : SUBSET Names, cut : SUBSET Names, truncated : BOOLEAN]

(* The answer of a root, if it was searched, is that of its search.        *)
PartOK(p) == p.root \in Names /\ (p.outcome.type = "hits" => p.outcome = Searched(p.root))

(* Root n is told of, or all of its matches are there.                     *)
Accounts(acc, n) ==
    \/ n \in acc.failed
    \/ n \in acc.dropped \cup acc.cut /\ acc.truncated
    \/ \A i \in 1 .. Hits[n] : \E j \in DOMAIN acc.matches : acc.matches[j] = <<n, i>>

(* What is found in next was found in acc or comes from part p.            *)
FoundIn(next, acc, p) ==
    \A j \in DOMAIN next.matches :
       \/ \E k \in DOMAIN acc.matches : acc.matches[k] = next.matches[j]
       \/ next.matches[j][1] = p.root /\ p.outcome.type = "hits"

(* next has the matches of acc, then the first of part p, and drops        *)
(* matches of p only once the budget is spent.                             *)
Extends(next, acc, p) ==
    LET l == Len(acc.matches)
        k == Len(next.matches)
    IN /\ l \in Nat /\ k \in Nat /\ l <= k /\ k <= MaxResults
       /\ DOMAIN acc.matches = 1 .. l /\ DOMAIN next.matches = 1 .. k
       /\ \A j \in 1 .. l : next.matches[j] = acc.matches[j]
       /\ \A j \in 1 .. k : l < j => next.matches[j] = <<p.root, j - l>>
       /\ acc.dropped \subseteq next.dropped
       /\ \A n \in next.dropped \ acc.dropped : n = p.root /\ k = MaxResults

(* One sequence after another.                                             *)
Joined(all, s, t, S) ==
    /\ all \in Seq(S) /\ Len(all) = Len(s) + Len(t)
    /\ \A i \in 1 .. Len(s) : all[i] = s[i]
    /\ \A i \in 1 .. Len(t) : all[Len(s) + i] = t[i]

LEMMA JoinedIs ==
    ASSUME NEW S, NEW s \in Seq(S), NEW t \in Seq(S)
    PROVE  Joined(s \o t, s, t, S)
<1>1. /\ s \o t \in Seq(S) /\ Len(s \o t) = Len(s) + Len(t)
      /\ \A i \in 1 .. Len(s) + Len(t) :
            (s \o t)[i] = IF i <= Len(s) THEN s[i] ELSE t[i - Len(s)]
  BY ConcatProperties
<1>2. Len(s) \in Nat /\ Len(t) \in Nat
  OBVIOUS
<1> DEFINE all == s \o t
           l == Len(s)
           m == Len(t)
<1> HIDE DEF all, l, m
<1>3. ASSUME NEW i \in 1 .. l PROVE all[i] = s[i]
  <2>1. i \in 1 .. l + m /\ i <= l
    BY <1>2 DEF l, m
  <2> QED BY <1>1, <2>1 DEF all, l, m
<1>4. ASSUME NEW i \in 1 .. m PROVE all[l + i] = t[i]
  <2>1. l + i \in 1 .. l + m /\ ~(l + i <= l) /\ (l + i) - l = i
    BY <1>2 DEF l, m
  <2>2. all[l + i] = t[(l + i) - l]
    BY <1>1, <2>1 DEF all, l, m
  <2> QED BY <2>1, <2>2
<1> QED BY <1>1, <1>3, <1>4 DEF Joined, all, l, m

LEMMA MergePartIs ==
    ASSUME NEW acc \in Merged, NEW p, PartOK(p)
    PROVE  LET next == MergePart(acc, p, MaxResults) IN
           /\ next \in Merged
           /\ Accounts(next, p.root)
           /\ \A n : Accounts(acc, n) => Accounts(next, n)
           /\ FoundIn(next, acc, p)
           /\ Extends(next, acc, p)
<1> DEFINE r == p.root
           next == MergePart(acc, p, MaxResults)
           old == acc.matches
<1>1. /\ r \in Names /\ Hits[r] \in Nat /\ MaxResults \in Nat
      /\ old \in Seq(Names \X Nat) /\ Len(old) \in Nat /\ Len(old) <= MaxResults
      /\ DOMAIN old = 1 .. Len(old)
  BY FleetAssumption DEF Merged, PartOK
<1>2. CASE p.outcome.type # "hits"
  <2>1. next = [acc EXCEPT !.failed = @ \cup {r}]
    BY <1>2 DEF MergePart
  <2>2. /\ next.matches = old /\ next.failed = acc.failed \cup {r} /\ next.dropped = acc.dropped
        /\ next.cut = acc.cut /\ next.truncated = acc.truncated
    BY <2>1 DEF Merged
  <2>3. next \in Merged
    BY <1>1, <2>1 DEF Merged
  <2> HIDE DEF next
  <2>4. /\ Accounts(next, r) /\ FoundIn(next, acc, p)
        /\ \A n : Accounts(acc, n) => Accounts(next, n)
    BY <2>2 DEF Accounts, FoundIn
  <2>5. Extends(next, acc, p)
    BY <1>1, <2>2 DEF Extends
  <2> QED BY <2>3, <2>4, <2>5 DEF next
<1>3. CASE p.outcome.type = "hits"
  <2> DEFINE count == p.outcome.count
             more == p.outcome.truncated
             left == MaxResults - Len(old)
             taken == IF count < left THEN count ELSE left
             add == [i \in 1 .. taken |-> <<r, i>>]
             all == old \o add
  <2>1. /\ count \in Nat /\ count <= Hits[r] /\ more = (Hits[r] > MaxResults)
        /\ ~more => count = Hits[r]
    <3>1. p.outcome = Searched(r)
      BY <1>3 DEF PartOK
    <3>2. /\ count = IF Hits[r] < MaxResults THEN Hits[r] ELSE MaxResults
          /\ more = (Hits[r] > MaxResults)
      BY <3>1 DEF Searched
    <3> DEFINE hits == Hits[r]
    <3>3. hits \in Nat /\ MaxResults \in Nat
      BY <1>1
    <3> HIDE DEF count, more, hits
    <3>4. count = IF hits < MaxResults THEN hits ELSE MaxResults
      BY <3>2 DEF hits
    <3>5. count \in Nat /\ count <= hits
      BY ONLY <3>3, <3>4
    <3>6. ~(hits > MaxResults) => count = hits
      BY ONLY <3>3, <3>4
    <3> QED BY <3>2, <3>5, <3>6, Zenon DEF hits
  <2>2. left \in Nat /\ taken \in Nat /\ taken <= count /\ taken <= left
    BY <1>1, <2>1
  <2>3. next = [acc EXCEPT
                  !.matches = all,
                  !.dropped = @ \cup (IF taken < count THEN {r} ELSE {}),
                  !.cut = @ \cup (IF more THEN {r} ELSE {}),
                  !.truncated = @ \/ more \/ taken < count]
    BY <1>3 DEF MergePart
  <2>4. add \in Seq(Names \X Nat) /\ Len(add) = taken /\ \A i \in 1 .. taken : add[i] = <<r, i>>
    <3>1. \A i \in 1 .. taken : <<r, i>> \in Names \X Nat
      BY <1>1, <2>2
    <3> HIDE DEF taken
    <3> QED BY <3>1, <2>2
  <2> HIDE DEF add, taken, count, more, next
  <2>5. /\ all \in Seq(Names \X Nat) /\ Len(all) = Len(old) + taken
        /\ \A j \in 1 .. Len(old) : all[j] = old[j]
        /\ \A j \in 1 .. taken : all[Len(old) + j] = <<r, j>>
    <3>1. old \in Seq(Names \X Nat) /\ add \in Seq(Names \X Nat)
      BY <1>1, <2>4
    <3>2. Joined(all, old, add, Names \X Nat)
      BY <3>1, JoinedIs
    <3> QED BY <2>4, <3>2 DEF Joined
  <2> HIDE DEF all
  <2>6. DOMAIN all = 1 .. Len(old) + taken /\ Len(all) <= MaxResults
    BY <1>1, <2>2, <2>5
  <2>7. /\ next.matches = all /\ next.failed = acc.failed
        /\ next.dropped = acc.dropped \cup (IF taken < count THEN {r} ELSE {})
        /\ next.cut = acc.cut \cup (IF more THEN {r} ELSE {})
        /\ next.truncated = (acc.truncated \/ more \/ taken < count)
    BY <2>3 DEF Merged
  <2>8. next \in Merged
    BY <1>1, <2>1, <2>3, <2>5, <2>6 DEF Merged
  <2>9. \A j \in DOMAIN old : j \in DOMAIN all /\ all[j] = old[j]
    <3> DEFINE n == Len(old)
    <3> HIDE DEF n, taken
    <3>1. n \in Nat /\ taken \in Nat /\ DOMAIN old = 1 .. n /\ DOMAIN all = 1 .. n + taken
      BY <1>1, <2>2, <2>6 DEF n
    <3>2. \A j \in 1 .. n : j \in 1 .. n + taken
      BY ONLY <3>1
    <3>3. \A j \in 1 .. n : all[j] = old[j]
      BY <2>5 DEF n
    <3> QED BY <3>1, <3>2, <3>3, Zenon
  <2>10. \A n : Accounts(acc, n) => Accounts(next, n)
    BY <2>7, <2>9 DEF Accounts
  <2>11. Accounts(next, r)
    <3>1. CASE taken < count \/ more
      BY <2>7, <3>1 DEF Accounts
    <3>2. CASE ~(taken < count) /\ ~more
      <4>1. taken = Hits[r]
        BY <1>1, <2>1, <2>2, <3>2
      <4>2. ASSUME NEW i \in 1 .. taken
            PROVE  Len(old) + i \in DOMAIN all /\ all[Len(old) + i] = <<r, i>>
        BY <1>1, <2>2, <2>5, <2>6
      <4> QED BY <2>7, <4>1, <4>2 DEF Accounts
    <3> QED BY <3>1, <3>2
  <2>12. FoundIn(next, acc, p)
    <3> SUFFICES ASSUME NEW j \in DOMAIN all
                 PROVE  (\E k \in DOMAIN old : old[k] = all[j]) \/ all[j][1] = r
      BY <1>3, <2>7 DEF FoundIn
    <3>1. CASE j <= Len(old)
      <4>1. j \in DOMAIN old
        BY <1>1, <2>6, <3>1
      <4> QED BY <2>9, <4>1
    <3>2. CASE ~(j <= Len(old))
      <4>1. j - Len(old) \in 1 .. taken /\ Len(old) + (j - Len(old)) = j
        BY <1>1, <2>2, <2>6, <3>2
      <4>2. all[j] = <<r, j - Len(old)>>
        BY <2>5, <4>1
      <4> QED BY <4>2
    <3> QED BY <3>1, <3>2
  <2>13. Extends(next, acc, p)
    <3>7. taken < count => taken = left
      <4> HIDE DEF left
      <4> QED BY <2>1, <2>2 DEF taken
    <3> DEFINE l == Len(old)
               k == Len(all)
    <3>1. l \in Nat /\ k = l + taken /\ taken \in Nat /\ k <= MaxResults /\ DOMAIN all = 1 .. k
      BY <1>1, <2>2, <2>5, <2>6
    <3>2. taken < count => k = MaxResults
      BY <1>1, <3>1, <3>7
    <3> HIDE DEF k, l, left, all
    <3>3. ASSUME NEW j \in 1 .. k, l < j PROVE all[j] = <<r, j - l>>
      <4>1. j - l \in 1 .. taken /\ l + (j - l) = j
        BY <3>1, <3>3
      <4> QED BY <2>5, <4>1 DEF l
    <3>4. \A j \in 1 .. l : all[j] = old[j]
      BY <2>5 DEF l
    <3>5. l <= k /\ DOMAIN old = 1 .. l
      BY <1>1, <3>1 DEF l
    <3>6. /\ acc.dropped \subseteq next.dropped
          /\ \A n \in next.dropped \ acc.dropped : n = r /\ k = MaxResults
      BY <2>7, <3>2
    <3> QED BY <2>7, <3>1, <3>3, <3>4, <3>5, <3>6 DEF Extends, l, k
  <2> QED BY <2>8, <2>10, <2>11, <2>12, <2>13 DEF next
<1> QED BY <1>2, <1>3

(* The matches are those of part after part, each in its order, and once a *)
(* part lost one the budget is spent and no later part has any.            *)
PartByPart(acc, parts, i) ==
    /\ DOMAIN acc.matches = 1 .. Len(acc.matches)
    /\ \A j, k \in 1 .. Len(acc.matches) : j < k =>
          \E p, q \in 1 .. i :
             /\ acc.matches[j][1] = parts[p].root /\ acc.matches[k][1] = parts[q].root
             /\ p < q \/ (p = q /\ acc.matches[j][2] < acc.matches[k][2])
    /\ \A n \in acc.dropped :
          /\ Len(acc.matches) = MaxResults
          /\ \E p \in 1 .. i :
               /\ n = parts[p].root
               /\ \A j \in 1 .. Len(acc.matches) :
                    \E q \in 1 .. p : acc.matches[j][1] = parts[q].root

(* The first i parts are in acc, and nothing else is.                      *)
MergedOf(acc, parts, i) ==
    /\ \A j \in 1 .. i : Accounts(acc, parts[j].root)
    /\ \A m \in DOMAIN acc.matches : \E j \in 1 .. i :
          acc.matches[m][1] = parts[j].root /\ parts[j].outcome.type = "hits"
    /\ PartByPart(acc, parts, i)

LEMMA OrderGoesOn ==
    ASSUME NEW acc, NEW next, NEW parts, NEW i \in Nat \ {0}, MaxResults \in Nat,
           Extends(next, acc, parts[i]), MergedOf(acc, parts, i - 1)
    PROVE  PartByPart(next, parts, i)
<1> DEFINE old == acc.matches
           all == next.matches
           l == Len(acc.matches)
           m == Len(next.matches)
           r == parts[i].root
<1>1. /\ l \in Nat /\ m \in Nat /\ l <= m /\ m <= MaxResults
      /\ DOMAIN old = 1 .. l /\ DOMAIN all = 1 .. m
      /\ \A j \in 1 .. l : all[j] = old[j]
      /\ \A j \in 1 .. m : l < j => all[j] = <<r, j - l>>
  BY DEF Extends
<1>2. /\ acc.dropped \subseteq next.dropped
      /\ \A n \in next.dropped \ acc.dropped : n = r /\ m = MaxResults
  BY DEF Extends
<1>3. /\ \A j, k \in 1 .. l : j < k =>
            \E p, q \in 1 .. i - 1 :
               /\ old[j][1] = parts[p].root /\ old[k][1] = parts[q].root
               /\ p < q \/ (p = q /\ old[j][2] < old[k][2])
      /\ \A n \in acc.dropped :
            /\ l = MaxResults
            /\ \E p \in 1 .. i - 1 :
                 /\ n = parts[p].root
                 /\ \A j \in 1 .. l : \E q \in 1 .. p : old[j][1] = parts[q].root
  BY Zenon DEF MergedOf, PartByPart
<1>4. \A j \in 1 .. l : \E p \in 1 .. i - 1 : old[j][1] = parts[p].root
  BY <1>1 DEF MergedOf
<1>5. /\ i \in 1 .. i /\ \A p \in 1 .. i - 1 : p \in 1 .. i /\ p < i
      /\ \A j \in 1 .. m : j \in 1 .. l \/ l < j
  BY <1>1
<1> HIDE DEF old, all, l, m, r
<1>6. ASSUME NEW j \in 1 .. m, NEW k \in 1 .. m, j < k
      PROVE  \E p, q \in 1 .. i :
                /\ all[j][1] = parts[p].root /\ all[k][1] = parts[q].root
                /\ p < q \/ (p = q /\ all[j][2] < all[k][2])
  <2>1. CASE k \in 1 .. l
    <3>1. j \in 1 .. l
      BY <1>1, <1>6, <2>1
    <3>2. PICK p, q \in 1 .. i - 1 :
               /\ old[j][1] = parts[p].root /\ old[k][1] = parts[q].root
               /\ p < q \/ (p = q /\ old[j][2] < old[k][2])
      BY <1>3, <1>6, <2>1, <3>1
    <3>3. all[j] = old[j] /\ all[k] = old[k] /\ p \in 1 .. i /\ q \in 1 .. i
      BY <1>1, <1>5, <2>1, <3>1
    <3> QED BY <3>2, <3>3
  <2>2. CASE l < k /\ j \in 1 .. l
    <3>1. PICK p \in 1 .. i - 1 : old[j][1] = parts[p].root
      BY <1>4, <2>2
    <3>2. all[j] = old[j] /\ all[k] = <<r, k - l>> /\ p \in 1 .. i /\ p < i
      BY <1>1, <1>5, <2>2
    <3> QED BY <1>5, <3>1, <3>2 DEF r
  <2>3. CASE l < k /\ l < j
    <3>1. all[j] = <<r, j - l>> /\ all[k] = <<r, k - l>>
      BY <1>1, <2>3
    <3>2. j - l < k - l
      BY <1>1, <1>6
    <3>3. all[j][1] = r /\ all[k][1] = r /\ all[j][2] < all[k][2]
      BY <3>1, <3>2
    <3> QED BY <1>5, <3>3 DEF r
  <2> QED BY <1>5, <2>1, <2>2, <2>3
<1>7. ASSUME NEW n \in next.dropped
      PROVE  /\ m = MaxResults
             /\ \E p \in 1 .. i :
                  /\ n = parts[p].root
                  /\ \A j \in 1 .. m : \E q \in 1 .. p : all[j][1] = parts[q].root
  <2>1. CASE n \in acc.dropped
    <3>1. l = MaxResults /\ m = l
      BY <1>1, <1>3, <2>1
    <3>2. PICK p \in 1 .. i - 1 :
                 /\ n = parts[p].root
                 /\ \A j \in 1 .. l : \E q \in 1 .. p : old[j][1] = parts[q].root
      BY <1>3, <2>1
    <3>3. p \in 1 .. i
      BY <1>5
    <3> QED BY <1>1, <3>1, <3>2, <3>3
  <2>2. CASE n \notin acc.dropped
    <3>1. n = r /\ m = MaxResults
      BY <1>2, <2>2, <1>7
    <3>2. ASSUME NEW j \in 1 .. m PROVE \E q \in 1 .. i : all[j][1] = parts[q].root
      <4>1. CASE j \in 1 .. l
        BY <1>1, <1>4, <1>5, <4>1
      <4>2. CASE l < j
        <5>1. all[j] = <<r, j - l>>
          BY <1>1, <4>2
        <5> QED BY <1>5, <5>1 DEF r
      <4> QED BY <1>5, <4>1, <4>2
    <3> QED BY <1>5, <3>1, <3>2 DEF r
  <2> QED BY <2>1, <2>2
<1>8. DOMAIN next.matches = 1 .. m
  BY <1>1 DEF all
<1> QED BY <1>6, <1>7, <1>8, Zenon DEF PartByPart, all, m

LEMMA MergeGoesOn ==
    ASSUME NEW acc \in Merged, NEW parts, NEW i \in Nat \ {0}, PartOK(parts[i]),
           MergedOf(acc, parts, i - 1)
    PROVE  MergedOf(MergePart(acc, parts[i], MaxResults), parts, i)
<1> DEFINE next == MergePart(acc, parts[i], MaxResults)
<1>1. /\ Accounts(next, parts[i].root)
      /\ \A n : Accounts(acc, n) => Accounts(next, n)
      /\ FoundIn(next, acc, parts[i])
      /\ Extends(next, acc, parts[i])
  BY MergePartIs, Zenon
<1> HIDE DEF next
<1>2. /\ i \in 1 .. i /\ \A j \in 1 .. i - 1 : j \in 1 .. i
      /\ \A j \in 1 .. i : j \in 1 .. i - 1 \/ j = i
  OBVIOUS
<1>3. \A j \in 1 .. i : Accounts(next, parts[j].root)
  BY <1>1, <1>2, Zenon DEF MergedOf
<1>4. ASSUME NEW m \in DOMAIN next.matches
      PROVE  \E j \in 1 .. i : next.matches[m][1] = parts[j].root /\ parts[j].outcome.type = "hits"
  <2>1. CASE \E k \in DOMAIN acc.matches : acc.matches[k] = next.matches[m]
    <3>1. PICK k \in DOMAIN acc.matches : acc.matches[k] = next.matches[m]
      BY <2>1
    <3>2. PICK j \in 1 .. i - 1 : acc.matches[k][1] = parts[j].root /\ parts[j].outcome.type = "hits"
      BY DEF MergedOf
    <3> QED BY <1>2, <3>1, <3>2
  <2>2. CASE next.matches[m][1] = parts[i].root /\ parts[i].outcome.type = "hits"
    BY <1>2, <2>2
  <2> QED BY <1>1, <2>1, <2>2 DEF FoundIn
<1>6. PartByPart(next, parts, i)
  BY <1>1, OrderGoesOn, FleetAssumption
<1>5. MergedOf(next, parts, i)
  BY <1>3, <1>4, <1>6 DEF MergedOf
<1> QED BY <1>5 DEF next

LEMMA MergeIs ==
    ASSUME NEW parts, NEW n \in Nat, DOMAIN parts = 1 .. n, \A i \in 1 .. n : PartOK(parts[i])
    PROVE  MergedOf(Merge(parts, MaxResults), parts, n)
<1> DEFINE A == Merged
           base0 == [matches |-> <<>>, failed |-> {}, dropped |-> {}, cut |-> {}, truncated |-> FALSE]
           Put(acc, p) == MergePart(acc, p, MaxResults)
           step == [x \in A \X (1 .. n) |-> Put(x[1], parts[x[2]])]
           Is(it) == it = [s \in SUBSET DOMAIN parts |-> IF s = {} THEN base0
                             ELSE Put(it[s \ {Max(s)}], parts[Max(s)])]
           it == CHOOSE it : Is(it)
<1>1. base0 \in A /\ MergedOf(base0, parts, 0)
  <2>1. <<>> \in Seq(Names \X Nat) /\ Len(<<>>) = 0 /\ DOMAIN <<>> = {} /\ MaxResults \in Nat
    BY FleetAssumption, EmptySeq
  <2>2. Len(<<>>) <= MaxResults
    BY <2>1
  <2>3. base0 \in A
    BY <2>1, <2>2 DEF Merged
  <2> QED BY <2>1, <2>3 DEF MergedOf, PartByPart
<1>2. ASSUME NEW acc \in A, NEW i \in 1 .. n PROVE Put(acc, parts[i]) \in A
  <2>1. PartOK(parts[i])
    OBVIOUS
  <2> QED BY <2>1, MergePartIs, Zenon
<1>3. step \in [A \X (1 .. n) -> A]
  <2> HIDE DEF A, Put
  <2> QED BY <1>2
<1>4. ASSUME NEW acc \in A, NEW i \in 1 .. n, MergedOf(acc, parts, i - 1)
      PROVE  MergedOf(Put(acc, parts[i]), parts, i)
  <2>1. PartOK(parts[i]) /\ i \in Nat \ {0}
    OBVIOUS
  <2> QED BY <1>4, <2>1, MergeGoesOn, Zenon
<1>5. Merge(parts, MaxResults) = it[1 .. n]
  BY DEF Merge, FoldLeft, MapThenFoldSet
<1> HIDE DEF Put
<1>6. \A x \in A, i \in 1 .. n : step[<<x, i>>] = Put(x, parts[i])
  <2> HIDE DEF A
  <2> QED OBVIOUS
<1> HIDE DEF step, A
<1>7. Steps(n, A, base0, step)
  BY <1>1, <1>3 DEF Steps
<1> HIDE DEF base0
<1>8. \E g : Is(g)
  <2>1. PICK g : IsFold(g, n, A, base0, step)
    BY ONLY <1>7, FoldExists, Zenon
  <2>2. ASSUME NEW s \in SUBSET (1 .. n), s # {}
        PROVE  g[s] = Put(g[s \ {Max(s)}], parts[Max(s)])
    <3>1. Max(s) \in 1 .. n
      BY <2>2, MaxOfUpTo
    <3>2. g[s \ {Max(s)}] \in A /\ g[s] = step[<<g[s \ {Max(s)}], Max(s)>>]
      BY <2>1, <2>2 DEF IsFold
    <3> QED BY ONLY <3>1, <3>2, <1>6, Zenon
  <2>3. g[{}] = base0 /\ g \in [SUBSET (1 .. n) -> A]
    BY <2>1 DEF IsFold
  <2> QED BY <2>2, <2>3
<1>9. Is(it)
  BY <1>8
<1> HIDE DEF it
<1>10. it[{}] = base0 /\ \A s \in SUBSET (1 .. n) : s # {} => it[s] = Put(it[s \ {Max(s)}], parts[Max(s)])
  BY <1>9
<1> HIDE DEF Is
<1>11. Folds(it, n, A, base0, step)
  BY <1>6, <1>10, MaxOfUpTo DEF Folds
<1>12. PICK f : Runs(f, it, n, A, base0, step)
  BY ONLY <1>7, <1>11, FoldRuns, Zenon
<1> DEFINE T == {i \in 0 .. n : MergedOf(f[i], parts, i)}
<1>13. 0 \in T
  BY <1>1, <1>12 DEF Runs
<1>14. ASSUME NEW i \in 1 .. n, i - 1 \in T PROVE i \in T
  <2>1. i - 1 \in 0 .. n /\ i \in 0 .. n
    OBVIOUS
  <2>2. f[i - 1] \in A /\ f[i] = step[<<f[i - 1], i>>]
    BY <1>12, <2>1 DEF Runs
  <2>3. f[i] = Put(f[i - 1], parts[i])
    BY <1>6, <2>2
  <2> QED BY <1>4, <1>14, <2>1, <2>2, <2>3
<1>15. n \in T
  <2>1. 0 .. n \subseteq T
    <3> HIDE DEF T
    <3> QED BY <1>13, <1>14, BoundedInduction
  <2> HIDE DEF T
  <2> QED BY <2>1
<1> QED BY <1>5, <1>12, <1>15 DEF Runs

(* out lists S.                                                            *)
ListsAll(out, S) ==
    /\ Len(out) \in Nat /\ DOMAIN out = 1 .. Len(out)
    /\ \A i \in 1 .. Len(out) : out[i] \in S
    /\ \A x \in S : \E i \in 1 .. Len(out) : out[i] = x
    /\ \A i, j \in 1 .. Len(out) : i < j => Rank[out[i]] < Rank[out[j]]

LEMMA NamesListed ==
    ASSUME NEW S, S \subseteq Names
    PROVE  ListsAll(SortedBy(S, Rank), S)
<1> DEFINE out == SortedBy(S, Rank)
<1>1. IsFiniteSet(Names) /\ Keyed(Names, Rank)
  BY FleetAssumption
<1>2. IsFiniteSet(S)
  BY <1>1, FS_Subset
<1>3. Keyed(S, Rank)
  BY <1>1 DEF Keyed
<1>4. /\ out \in Seq(S) /\ Len(out) = Cardinality(S) /\ Cardinality(S) \in Nat
      /\ \A i \in 1 .. Len(out) : out[i] \in S
      /\ \A x \in S : \E i \in 1 .. Len(out) : out[i] = x
      /\ \A i, j \in 1 .. Len(out) : i < j => Rank[out[i]] < Rank[out[j]]
  BY <1>2, <1>3, SortedIs
<1> HIDE DEF out
<1>5. Len(out) \in Nat /\ DOMAIN out = 1 .. Len(out)
  BY <1>4
<1>6. ListsAll(out, S)
  BY <1>4, <1>5 DEF ListsAll
<1> QED BY <1>6 DEF out

(* The parts of a search: this host's roots and those it asked for.        *)
PartsFrom(parts, n, h, mine, asked) ==
    /\ DOMAIN parts = 1 .. n
    /\ \A i, j \in 1 .. n : i < j => Precedes(h, parts[i].root, parts[j].root)
    /\ \A i \in 1 .. n :
          \/ \E m \in mine : parts[i] = [root |-> m, outcome |-> Searched(m)]
          \/ \E m \in DOMAIN asked : parts[i] = [root |-> m, outcome |-> asked[m]]
    /\ \A m \in mine \cup DOMAIN asked : \E i \in 1 .. n : parts[i].root = m

LEMMA PartsAre ==
    ASSUME NEW c, serves[c.at] \cap c.op.names \subseteq Names, DOMAIN c.part \subseteq Names,
           \A m \in serves[c.at] \cap c.op.names : Prefix[m] = c.at,
           \A m \in DOMAIN c.part : Prefix[m] # c.at
    PROVE  \E n \in Nat : PartsFrom(Parts(c), n, c.at, serves[c.at] \cap c.op.names, c.part)
<1> DEFINE h == c.at
           mine == serves[c.at] \cap c.op.names
           asked == c.part
           here == SortedBy(mine, Rank)
           there == SortedBy(DOMAIN asked, Rank)
           a == [i \in DOMAIN here |-> [root |-> here[i], outcome |-> Searched(here[i])]]
           b == [i \in DOMAIN there |-> [root |-> there[i], outcome |-> asked[there[i]]]]
           parts == Parts(c)
           R == {a[i] : i \in DOMAIN here} \cup {b[i] : i \in DOMAIN there}
           n == Len(here) + Len(there)
<1>1. ListsAll(here, mine) /\ ListsAll(there, DOMAIN asked)
  BY NamesListed
<1>4. parts = a \o b
  BY DEF Parts
<1>13. /\ \A m \in mine : Prefix[m] = h
       /\ \A m \in DOMAIN asked : Prefix[m] # h
  OBVIOUS
<1> HIDE DEF here, there, mine, asked, parts, h
<1>2. /\ Len(here) \in Nat /\ DOMAIN here = 1 .. Len(here)
      /\ \A i \in 1 .. Len(here) : here[i] \in mine
      /\ \A x \in mine : \E i \in 1 .. Len(here) : here[i] = x
      /\ \A i, j \in 1 .. Len(here) : i < j => Rank[here[i]] < Rank[here[j]]
  BY <1>1 DEF ListsAll
<1>3. /\ Len(there) \in Nat /\ DOMAIN there = 1 .. Len(there)
      /\ \A i \in 1 .. Len(there) : there[i] \in DOMAIN asked
      /\ \A x \in DOMAIN asked : \E i \in 1 .. Len(there) : there[i] = x
      /\ \A i, j \in 1 .. Len(there) : i < j => Rank[there[i]] < Rank[there[j]]
  BY <1>1 DEF ListsAll
<1>5. /\ \A i \in 1 .. Len(here) : a[i] = [root |-> here[i], outcome |-> Searched(here[i])]
      /\ \A i \in 1 .. Len(there) : b[i] = [root |-> there[i], outcome |-> asked[there[i]]]
  BY <1>2, <1>3
<1>6. a \in Seq(R) /\ Len(a) = Len(here) /\ b \in Seq(R) /\ Len(b) = Len(there)
  BY <1>2, <1>3
<1> HIDE DEF a, b, R
<1>7. /\ parts \in Seq(R) /\ Len(parts) = Len(here) + Len(there)
      /\ \A i \in 1 .. Len(here) : parts[i] = a[i]
      /\ \A i \in 1 .. Len(there) : parts[Len(here) + i] = b[i]
  <2>1. Joined(a \o b, a, b, R)
    BY <1>6, JoinedIs
  <2> QED BY <1>4, <1>6, <2>1 DEF Joined
<1>8. n \in Nat /\ DOMAIN parts = 1 .. n
  BY <1>2, <1>3, <1>7
<1>9. ASSUME NEW i \in 1 .. n
      PROVE  \/ \E m \in mine : parts[i] = [root |-> m, outcome |-> Searched(m)]
             \/ \E m \in DOMAIN asked : parts[i] = [root |-> m, outcome |-> asked[m]]
  <2>1. CASE i <= Len(here)
    <3>1. i \in 1 .. Len(here)
      BY <1>2, <2>1
    <3>2. parts[i] = [root |-> here[i], outcome |-> Searched(here[i])]
      BY <1>5, <1>7, <3>1
    <3> QED BY <1>2, <3>1, <3>2
  <2>2. CASE ~(i <= Len(here))
    <3>1. i - Len(here) \in 1 .. Len(there) /\ Len(here) + (i - Len(here)) = i
      BY <1>2, <1>3, <2>2
    <3> DEFINE k == i - Len(here)
    <3>2. parts[i] = [root |-> there[k], outcome |-> asked[there[k]]]
      BY <1>5, <1>7, <3>1
    <3>3. there[k] \in DOMAIN asked
      BY <1>3, <3>1
    <3> QED BY <3>2, <3>3
  <2> QED BY <2>1, <2>2
<1>10. ASSUME NEW m \in mine PROVE \E i \in 1 .. n : parts[i].root = m
  <2>1. PICK i \in 1 .. Len(here) : here[i] = m
    BY <1>2
  <2>2. i \in 1 .. n
    BY <1>2, <1>3
  <2>3. parts[i] = [root |-> here[i], outcome |-> Searched(here[i])]
    BY <1>5, <1>7
  <2> QED BY <2>1, <2>2, <2>3
<1>11. ASSUME NEW m \in DOMAIN asked PROVE \E i \in 1 .. n : parts[i].root = m
  <2>1. PICK i \in 1 .. Len(there) : there[i] = m
    BY <1>3
  <2>2. Len(here) + i \in 1 .. n
    BY <1>2, <1>3
  <2>3. parts[Len(here) + i] = [root |-> there[i], outcome |-> asked[there[i]]]
    BY <1>5, <1>7
  <2> QED BY <2>1, <2>2, <2>3
<1>14. ASSUME NEW i \in 1 .. n, NEW j \in 1 .. n, i < j
       PROVE  Precedes(h, parts[i].root, parts[j].root)
  <2> DEFINE l == Len(here)
  <2>1. ASSUME NEW k \in 1 .. l
        PROVE  parts[k].root = here[k] /\ Prefix[here[k]] = h
    <3>1. parts[k] = [root |-> here[k], outcome |-> Searched(here[k])] /\ here[k] \in mine
      BY <1>2, <1>5, <1>7
    <3> QED BY <1>13, <3>1
  <2>2. ASSUME NEW k \in 1 .. Len(there)
        PROVE  parts[l + k].root = there[k] /\ Prefix[there[k]] # h
    <3>1. /\ parts[l + k] = [root |-> there[k], outcome |-> asked[there[k]]]
          /\ there[k] \in DOMAIN asked
      BY <1>3, <1>5, <1>7
    <3> QED BY <1>13, <3>1
  <2> HIDE DEF l
  <2>3. CASE j <= l
    <3>1. i \in 1 .. l /\ j \in 1 .. l
      BY <1>2, <1>14, <2>3 DEF l
    <3> QED BY <1>2, <1>14, <2>1, <3>1 DEF Precedes, l
  <2>4. CASE i <= l /\ ~(j <= l)
    <3> DEFINE k == j - l
    <3>1. i \in 1 .. l /\ k \in 1 .. Len(there) /\ l + k = j
      BY <1>2, <1>3, <2>4 DEF l
    <3> HIDE DEF k
    <3>2. parts[j].root = there[k] /\ Prefix[there[k]] # h
      BY <2>2, <3>1
    <3> QED BY <2>1, <3>1, <3>2 DEF Precedes
  <2>5. CASE ~(i <= l) /\ ~(j <= l)
    <3> DEFINE k == i - l
               m == j - l
    <3>1. /\ k \in 1 .. Len(there) /\ l + k = i
          /\ m \in 1 .. Len(there) /\ l + m = j /\ k < m
      BY <1>2, <1>3, <1>14, <2>5 DEF l
    <3> HIDE DEF k, m
    <3>2. /\ parts[i].root = there[k] /\ Prefix[there[k]] # h
          /\ parts[j].root = there[m] /\ Prefix[there[m]] # h
      BY <2>2, <3>1
    <3>3. Rank[there[k]] < Rank[there[m]]
      BY <1>3, <3>1
    <3> QED BY <3>2, <3>3 DEF Precedes
  <2>6. (i <= l \/ ~(i <= l)) /\ (j <= l => i <= l)
    BY <1>2, <1>14 DEF l
  <2> QED BY <2>3, <2>4, <2>5, <2>6
<1>12. PartsFrom(parts, n, h, mine, asked)
  BY <1>8, <1>9, <1>10, <1>11, <1>14 DEF PartsFrom
<1> QED BY <1>8, <1>12 DEF parts, mine, asked, h

(* Parts one after another in the order of their roots: so are the matches *)
(* merged from them.                                                       *)
LEMMA MergedInOrder ==
    ASSUME NEW h, NEW acc, NEW parts, NEW n \in Nat, PartByPart(acc, parts, n),
           \A i \in 1 .. n : parts[i].root \in Names,
           \A i, j \in 1 .. n : i < j => Precedes(h, parts[i].root, parts[j].root)
    PROVE  InOrder(h, acc)
<1> DEFINE l == Len(acc.matches)
           all == acc.matches
<1>1. \A m \in Names : Rank[m] \in Nat
  BY FleetAssumption DEF Keyed
<1>2. /\ DOMAIN all = 1 .. l
      /\ \A j, k \in 1 .. l : j < k =>
            \E p, q \in 1 .. n :
               /\ all[j][1] = parts[p].root /\ all[k][1] = parts[q].root
               /\ p < q \/ (p = q /\ all[j][2] < all[k][2])
      /\ \A d \in acc.dropped : \E p \in 1 .. n :
            /\ d = parts[p].root
            /\ \A j \in 1 .. l : \E q \in 1 .. p : all[j][1] = parts[q].root
  BY Zenon DEF PartByPart
<1> HIDE DEF l, all
<1>3. ASSUME NEW j \in 1 .. l, NEW k \in 1 .. l, j < k
      PROVE  \/ Precedes(h, all[j][1], all[k][1])
             \/ all[j][1] = all[k][1] /\ all[j][2] < all[k][2]
  <2>1. PICK p, q \in 1 .. n :
             /\ all[j][1] = parts[p].root /\ all[k][1] = parts[q].root
             /\ p < q \/ (p = q /\ all[j][2] < all[k][2])
    BY <1>2, <1>3
  <2> QED BY <2>1
<1>4. ASSUME NEW d \in acc.dropped, NEW j \in 1 .. l
      PROVE  ~Precedes(h, d, all[j][1])
  <2>1. PICK p \in 1 .. n : /\ d = parts[p].root
                            /\ \E q \in 1 .. p : all[j][1] = parts[q].root
    BY <1>2
  <2>2. PICK q \in 1 .. p : all[j][1] = parts[q].root
    BY <2>1
  <2>3. q \in 1 .. n /\ (q = p \/ q < p)
    BY <2>2
  <2>4. parts[q].root = d \/ Precedes(h, parts[q].root, d)
    BY <2>1, <2>3
  <2>5. Rank[d] \in Nat /\ Rank[parts[q].root] \in Nat
    BY <1>1, <2>1, <2>3
  <2> QED BY <2>2, <2>4, <2>5 DEF Precedes
<1> QED BY <1>2, <1>3, <1>4 DEF InOrder, all

(* What a fleet search says of hosts it knew before it searched, and what  *)
(* it makes of the answers of the roots.                                   *)
LEMMA ShowSearchVerdict ==
    ASSUME IInv, TruthInv, VerdictInv, NEW id \in DOMAIN calls, ShowSearch(id)
    PROVE  VerdictInv'
<1> DEFINE c == calls[id]
           parts == Parts(c)
           merged == Merge(parts, MaxResults)
<1>1. UNCHANGED <<up, serves, past>> /\ c.phase = "searching" /\ AllIn(id) /\ c.at \in up
  BY DEF ShowSearch
<1>2. PICK answer : /\ Answer(id, answer) /\ answer.type = "found" /\ answer.unavailable = c.gone
                    /\ answer.matches = merged.matches /\ answer.failed = merged.failed
                    /\ answer.dropped = merged.dropped /\ answer.cut = merged.cut
                    /\ answer.truncated = merged.truncated
  <2> DEFINE reply == [type |-> "found", matches |-> merged.matches,
                       failed |-> merged.failed, dropped |-> merged.dropped,
                       cut |-> merged.cut, truncated |-> merged.truncated,
                       unavailable |-> c.gone]
  <2>1. Answer(id, reply)
    BY DEF ShowSearch
  <2>2. /\ reply.type = "found" /\ reply.unavailable = c.gone
        /\ reply.matches = merged.matches /\ reply.failed = merged.failed
        /\ reply.dropped = merged.dropped /\ reply.cut = merged.cut
        /\ reply.truncated = merged.truncated
    OBVIOUS
  <2> HIDE DEF reply, merged
  <2> QED BY <2>1, <2>2
<1>3. PICK a \in Agents : /\ <<a>> \in DOMAIN calls
                          /\ id = <<a>> \/ \E k : id = Append(<<a>>, k)
  BY WhoseCall
<1>4. CASE id = <<a>>
  <2> DEFINE h == past[a]
             mine == serves[c.at] \cap c.op.names
  <2>1. AgentOK(c, h)
    BY <1>3, <1>4 DEF VerdictInv
  <2>2. ReasonsAreTrue(c, h, answer) /\ LinesAreTrue(c, h, answer)
    BY <1>1, <1>2, <2>1 DEF AgentOK, ReasonsAreTrue, LinesAreTrue, PhaseOK
  <2>3. Live(a)
    BY <1>1, <1>3, <1>4 DEF Live
  <2>4. /\ serves[c.at] \subseteq h.ever /\ serves[c.at] \subseteq RootsOf(c.at)
        /\ \A n : Prefix[n] = c.at /\ n \notin serves[c.at] => n \notin h.always
    BY <1>1, <2>3, ServedNow
  <2>5. DOMAIN c.part \subseteq Names /\ mine \subseteq Names
    BY <1>1, <2>1, <2>4 DEF AgentOK, SearchCovers, RootsOf
  <2>6. \A m \in DOMAIN c.part : OutcomeTrue(c, h, m, c.part[m]) /\ Aim(c, m) = Prefix[m]
    BY <1>1, <2>1 DEF AgentOK, Waiting, Aim
  <2>5a. /\ \A m \in mine : Prefix[m] = c.at
         /\ \A m \in DOMAIN c.part : Prefix[m] # c.at
    BY <1>1, <2>1, <2>4 DEF AgentOK, SearchCovers, RootsOf
  <2>7a. PICK n \in Nat : PartsFrom(parts, n, c.at, mine, c.part)
    BY <2>5, <2>5a, PartsAre, Zenon
  <2> HIDE DEF parts
  <2>7. /\ DOMAIN parts = 1 .. n
        /\ \A i \in 1 .. n :
              \/ \E m \in mine : parts[i] = [root |-> m, outcome |-> Searched(m)]
              \/ \E m \in DOMAIN c.part : parts[i] = [root |-> m, outcome |-> c.part[m]]
        /\ \A m \in mine \cup DOMAIN c.part : \E i \in 1 .. n : parts[i].root = m
    BY <2>7a DEF PartsFrom
  <2>8. ASSUME NEW i \in 1 .. n
        PROVE  /\ PartOK(parts[i])
               /\ parts[i].outcome.type = "hits" =>
                    parts[i].root \in h.ever /\ ~RefusedBy(Prefix[parts[i].root], c)
    <3>1. CASE \E m \in mine : parts[i] = [root |-> m, outcome |-> Searched(m)]
      <4>1. PICK m \in mine : parts[i] = [root |-> m, outcome |-> Searched(m)]
        BY <3>1
      <4>2. parts[i].root = m /\ parts[i].outcome = Searched(m)
        BY <4>1
      <4>3. m \in Names /\ m \in h.ever /\ Prefix[m] = c.at
        BY <2>4, <2>5 DEF RootsOf
      <4> QED BY <4>2, <4>3 DEF PartOK, RefusedBy
    <3>2. CASE \E m \in DOMAIN c.part : parts[i] = [root |-> m, outcome |-> c.part[m]]
      <4>1. PICK m \in DOMAIN c.part : parts[i] = [root |-> m, outcome |-> c.part[m]]
        BY <3>2
      <4>2. parts[i].root = m /\ parts[i].outcome = c.part[m] /\ m \in Names
        BY <2>5, <4>1
      <4>3. c.part[m].type = "hits" =>
              /\ c.part[m] = Searched(m) /\ c.part[m].root \in h.ever
              /\ Admitted(Prefix[m], c.author, c.at)
        BY <1>1, <2>6 DEF OutcomeTrue
      <4>4. c.part[m].type = "hits" => m \in h.ever
        BY <4>3 DEF Searched
      <4> QED BY <4>2, <4>3, <4>4 DEF PartOK, RefusedBy
    <3> QED BY <2>7, <3>1, <3>2
  <2>9. MergedOf(merged, parts, n)
    BY <2>7, <2>8, MergeIs
  <2> HIDE DEF merged, mine
  <2>10. ASSUME NEW m \in h.always, m \in c.op.names, Prefix[m] \in {c.at} \cup Peers(c.at),
                Prefix[m] \notin DOMAIN c.gone
         PROVE  Accounts(merged, m)
    <3>1. m \in mine \cup DOMAIN c.part
      BY <1>1, <2>1, <2>4, <2>10 DEF AgentOK, SearchCovers, mine
    <3>2. PICK i \in 1 .. n : parts[i].root = m
      BY <2>7, <3>1
    <3> QED BY <2>9, <3>2 DEF MergedOf
  <2>11. ASSUME NEW j \in DOMAIN merged.matches
         PROVE  /\ merged.matches[j][1] \in h.ever
                /\ ~RefusedBy(Prefix[merged.matches[j][1]], c)
    <3>1. PICK i \in 1 .. n :
             merged.matches[j][1] = parts[i].root /\ parts[i].outcome.type = "hits"
      BY <2>9 DEF MergedOf
    <3> QED BY <2>8, <3>1
  <2>13. InOrder(c.at, answer)
    <3>1. \A i, j \in 1 .. n : i < j => Precedes(c.at, parts[i].root, parts[j].root)
      BY <2>7a DEF PartsFrom
    <3>2. \A i \in 1 .. n : parts[i].root \in Names
      BY <2>8 DEF PartOK
    <3>3. PartByPart(merged, parts, n)
      BY <2>9 DEF MergedOf
    <3> HIDE DEF c
    <3>4. InOrder(c.at, merged)
      BY <3>1, <3>2, <3>3, MergedInOrder
    <3> QED BY <1>2, <3>4 DEF InOrder
  <2>12. FoundIsHonest(c, h, answer)
    <3> HIDE DEF c
    <3> QED BY <1>2, <2>10, <2>11, <2>13 DEF FoundIsHonest, Accounts
  <2> QED  BY <1>1, <1>2, <1>3, <1>4, <2>2, <2>12, AgentAnswered
<1>5. ASSUME NEW k, id = Append(<<a>>, k)
      PROVE  VerdictInv'
  <2>1. ~Live(a)
    BY <1>1, <1>3, <1>5 DEF VerdictInv, ChildOK
  <2> QED  BY <1>1, <1>2, <1>3, <1>5, <2>1, ChildAnswered
<1> QED  BY <1>3, <1>4, <1>5

-----------------------------------------------------------------------------
(* What a child's place says of who made it.                               *)
LEMMA ChildFront ==
    ASSUME NEW a, NEW k
    PROVE  Front(Append(<<a>>, k)) = <<a>>
<1> DEFINE s == Append(<<a>>, k)
           t == SubSeq(s, 1, 1)
<1>1. Len(s) = 2 /\ s[1] = a
  OBVIOUS
<1> HIDE DEF s
<1>2. t \in Seq({a}) /\ Len(t) = 1 /\ t[1] = s[1]
  <2>1. \A i \in 1..1 : s[i] \in {a}
    BY <1>1
  <2> QED  BY <2>1, SubSeqProperties, 1 - 1 + 1 = 1
<1>3. <<a>> \in Seq({a}) /\ Len(<<a>>) = 1 /\ <<a>>[1] = a
  OBVIOUS
<1>4. (\A i \in 1..Len(t) : t[i] = <<a>>[i]) /\ Len(t) = Len(<<a>>)
  BY <1>1, <1>2, <1>3
<1> HIDE DEF t
<1>5. t = <<a>>
  BY <1>2, <1>3, <1>4, SeqEqual, Zenon
<1> QED  BY <1>1, <1>5 DEF Front, s, t

(* What an answer must say depends on who asked what, and where, only.     *)
LEMMA FoundSame ==
    ASSUME NEW c, NEW d, NEW h, NEW o, FoundIsHonest(c, h, o),
           d.at = c.at, d.author = c.author, d.op = c.op
    PROVE  FoundIsHonest(d, h, o)
<1>1. SUFFICES ASSUME o.type = "found" PROVE FoundIsHonest(d, h, o)
  BY DEF FoundIsHonest
<1>2. ASSUME NEW p PROVE RefusedBy(p, d) <=> RefusedBy(p, c)
  BY DEF RefusedBy
<1>3. ASSUME NEW j \in DOMAIN o.matches
      PROVE  o.matches[j][1] \in h.ever /\ ~RefusedBy(Prefix[o.matches[j][1]], d)
  <2>1. o.matches[j][1] \in h.ever /\ ~RefusedBy(Prefix[o.matches[j][1]], c)
    BY <1>1, Zenon DEF FoundIsHonest
  <2> QED BY <1>2, <2>1
<1>4. ASSUME NEW n \in h.always \cap d.op.names,
             Prefix[n] \in {d.at} \cup Peers(d.at),
             Prefix[n] \notin DOMAIN o.unavailable, n \notin o.failed,
             ~(n \in o.dropped \cup o.cut /\ o.truncated)
      PROVE  \A i \in 1..Hits[n] : \E j \in DOMAIN o.matches : o.matches[j] = <<n, i>>
  <2>1. n \in h.always \cap c.op.names /\ Prefix[n] \in {c.at} \cup Peers(c.at)
    BY <1>4
  <2> QED BY <1>1, <1>4, <2>1, Zenon DEF FoundIsHonest
<1>5. InOrder(d.at, o)
  BY <1>1, Zenon DEF FoundIsHonest
<1> QED BY <1>3, <1>4, <1>5, Zenon DEF FoundIsHonest

(* An agent's call asks peers.                                             *)
LEMMA AgentWaits ==
    ASSUME IInv, TruthInv, NEW a \in Agents, <<a>> \in DOMAIN calls,
           NEW step, NEW asks, NEW gone, Await(<<a>>, step, asks, gone)
    PROVE  /\ <<a>> \in DOMAIN calls' /\ DOMAIN calls'[<<a>>] = Fields
           /\ \A f \in Fields \ {"phase", "part", "gone"} :
                 calls'[<<a>>][f] = calls[<<a>>][f]
           /\ calls'[<<a>>].phase = step /\ calls'[<<a>>].gone = gone
           /\ calls'[<<a>>].part = [k \in DOMAIN asks |-> Pending]
<1> DEFINE c == calls[<<a>>]
           new == {Append(<<a>>, k) : k \in DOMAIN asks}
           d == [c EXCEPT !.phase = step, !.part = [k \in DOMAIN asks |-> Pending], !.gone = gone]
<1>1. DOMAIN calls' = (DOMAIN calls \ Children(<<a>>)) \cup new
  BY DEF Await
<1>2. <<a>> \in DOMAIN calls' /\ <<a>> \notin new
  BY <1>1, AgentsStay
<1>3. calls'[<<a>>] = d
  BY <1>2 DEF Await
<1>4. DOMAIN c = Fields
  BY DEF IInv, Sound
<1> QED  BY <1>2, <1>3, <1>4 DEF Fields

LEMMA AgentAwaits ==
    ASSUME IInv, TruthInv, VerdictInv, NEW a \in Agents, <<a>> \in DOMAIN calls,
           NEW step \in Waiting, NEW asks, NEW gone, Await(<<a>>, step, asks, gone),
           UNCHANGED <<up, serves, past>>, Live(a), PhaseOK(calls'[<<a>>]),
           SearchCovers(calls'[<<a>>], past[a]),
           \A k \in DOMAIN asks :
              /\ asks[k].to = Aim(calls'[<<a>>], k)
              /\ step = "forwarding" => asks[k].op = calls[<<a>>].op
              /\ step = "searching" => asks[k].op.tool = "one_root" /\ asks[k].op.name = k
    PROVE  VerdictInv'
<1> DEFINE c == calls[<<a>>]
           d == calls'[<<a>>]
           new == {Append(<<a>>, k) : k \in DOMAIN asks}
<1>1. DOMAIN calls' = (DOMAIN calls \ Children(<<a>>)) \cup new
  BY DEF Await
<1>2. \A i \in new : Len(i) = 2 /\ i[1] = a /\ i # <<a>>
  <2>1. \A k : Len(Append(<<a>>, k)) = 2 /\ Append(<<a>>, k)[1] = a
    OBVIOUS
  <2> QED  BY <2>1, AgentsStay
<1>3. /\ <<a>> \in DOMAIN calls'
      /\ d.at = c.at /\ d.author = c.author /\ d.op = c.op /\ d.answer = c.answer
      /\ d.phase = step /\ d.part = [k \in DOMAIN asks |-> Pending]
  BY AgentWaits DEF Fields
<1>4. AgentOK(c, past[a])
  BY DEF VerdictInv
<1> HIDE DEF c, d
<1>5. AgentOK(d, past[a])
  <2>1. LinesAreTrue(d, past[a], d.answer)
    BY <1>3, <1>4 DEF AgentOK, LinesAreTrue, RefusedBy
  <2>2. ReasonsAreTrue(d, past[a], d.answer)
    BY <1>3, <1>4 DEF AgentOK, ReasonsAreTrue, RefusedBy
  <2>3. ASSUME NEW k \in DOMAIN d.part
        PROVE  OutcomeTrue(d, past[a], k, d.part[k])
    <3>1. d.part[k] = Pending
      BY <1>3, <2>3
    <3> QED  BY <3>1 DEF Pending, OutcomeTrue
  <2>4. PhaseOK(d) /\ SearchCovers(d, past[a])
    BY DEF d
  <2>5. FoundIsHonest(d, past[a], d.answer)
    <3>1. FoundIsHonest(c, past[a], d.answer)
      BY <1>3, <1>4 DEF AgentOK
    <3>2. d.at = c.at /\ d.op = c.op /\ d.author = c.author
      BY <1>3
    <3> QED BY <3>1, <3>2, FoundSame, Zenon
  <2> QED  BY <1>3, <1>4, <2>1, <2>2, <2>3, <2>4, <2>5 DEF AgentOK
<1>6. ASSUME NEW j, Append(<<a>>, j) \in DOMAIN calls'
      PROVE  ChildOK(calls'[Append(<<a>>, j)], d, j, past[a])
  <2> DEFINE i == Append(<<a>>, j)
  <2>1. Len(i) = 2 /\ Front(i) = <<a>> /\ Last(i) = j
    <3>1. Len(i) = 2 /\ Last(i) = j
      BY ChildLength
    <3>2. Front(i) = <<a>>
      BY ChildFront
    <3> QED  BY <3>1, <3>2
  <2>2. i \in new
    <3>1. i \in DOMAIN calls => i \in Children(<<a>>)
      BY <2>1 DEF Children
    <3>2. i \in DOMAIN calls'
      BY <1>6
    <3> HIDE DEF new, i
    <3> QED  BY <1>1, <3>1, <3>2
  <2>3. j \in DOMAIN asks
    <3>1. PICK k \in DOMAIN asks : i = Append(<<a>>, k)
      BY <2>2
    <3> QED  BY <2>1, <3>1, ChildLength
  <2>4. calls'[i] = NewCall(asks[j].to, c.author, c.at, TRUE, asks[j].op, "connecting")
    BY <1>6, <2>1, <2>2 DEF Await, c
  <2>5. /\ calls'[i].author = d.author /\ calls'[i].node = d.at /\ calls'[i].at = Aim(d, j)
        /\ calls'[i].op = asks[j].op /\ calls'[i].phase = "connecting"
        /\ calls'[i].answer.type = "pending"
    BY <1>3, <2>3, <2>4 DEF NewCall, Pending, d
  <2>6. ReplyTrue(calls'[i], past[a], calls'[i].answer)
    BY <2>5 DEF ReplyTrue
  <2> QED  BY <1>3, <2>3, <2>5, <2>6 DEF ChildOK, c
<1>7. ASSUME NEW i \in DOMAIN calls', i[1] # a
      PROVE  i \in DOMAIN calls /\ calls'[i] = calls[i]
  <2>1. i \in DOMAIN calls /\ i \notin new /\ <<a>>[1] = a
    BY <1>1, <1>2, <1>7
  <2> QED  BY <1>7, <2>1 DEF Await
<1> HIDE DEF new
<1> QED  BY <1>3, <1>5, <1>6, <1>7, SameHistory, VerdictKept DEF d

LEMMA ForwardVerdict ==
    ASSUME IInv, TruthInv, VerdictInv, NEW id \in DOMAIN calls, Forward(id)
    PROVE  VerdictInv'
<1> DEFINE c == calls[id]
           host == Prefix[c.op.name]
           asks == [p \in {host} |-> [to |-> p, op |-> c.op]]
<1>1. /\ Await(id, "forwarding", asks, <<>>) /\ UNCHANGED <<up, serves, past>>
      /\ c.op.tool = "one_root" /\ host # c.at /\ c.phase = "arrived"
  BY DEF Forward, Arrives
<1>2. PICK a \in Agents : /\ <<a>> \in DOMAIN calls
                          /\ id = <<a>> \/ \E k : id = Append(<<a>>, k)
  BY WhoseCall
<1>3. id = <<a>>
  BY <1>1, <1>2, ChildIsFinal DEF Final
<1>4. DOMAIN asks = {host} /\ asks[host].to = host /\ asks[host].op = c.op
  OBVIOUS
<1> HIDE DEF asks
<1>5. Await(<<a>>, "forwarding", asks, <<>>)
  BY <1>1, <1>3
<1>6. /\ calls'[<<a>>].phase = "forwarding" /\ calls'[<<a>>].op = c.op
      /\ calls'[<<a>>].at = c.at /\ DOMAIN calls'[<<a>>].part = {host}
  BY <1>2, <1>3, <1>4, <1>5, AgentWaits DEF Fields
<1>7. PhaseOK(calls'[<<a>>]) /\ SearchCovers(calls'[<<a>>], past[a])
  BY <1>1, <1>6 DEF PhaseOK, SearchCovers, Waiting
<1>8. \A k \in DOMAIN asks :
         /\ asks[k].to = Aim(calls'[<<a>>], k)
         /\ asks[k].op = calls[<<a>>].op
  BY <1>3, <1>4, <1>6 DEF Aim
<1>9. Live(a) /\ "forwarding" \in Waiting
  BY <1>1, <1>2, <1>3 DEF Live, Waiting
<1> QED  BY <1>1, <1>2, <1>5, <1>7, <1>8, <1>9, AgentAwaits

(* A peer that is asked for its roots asks nobody.                         *)
LEMMA ProbeVerdict ==
    ASSUME IInv, TruthInv, VerdictInv, NEW id \in DOMAIN calls, Probe(id)
    PROVE  VerdictInv'
<1> DEFINE c == calls[id]
           asks == [p \in Probed(c) |-> [to |-> p, op |-> [tool |-> "roots"]]]
           d == [c EXCEPT !.phase = "probing", !.gone = <<>>,
                          !.part = [k \in DOMAIN asks |-> Pending]]
<1>1. /\ Await(id, "probing", asks, <<>>) /\ UNCHANGED <<up, serves, past>>
      /\ c.op.tool \in {"roots", "fleet_search"} /\ c.phase = "arrived"
      /\ Admitted(c.at, c.author, c.node)
  BY DEF Probe, Arrives
<1>2. PICK a \in Agents : /\ <<a>> \in DOMAIN calls
                          /\ id = <<a>> \/ \E k : id = Append(<<a>>, k)
  BY WhoseCall
<1>3. /\ d.phase = "probing" /\ d.op = c.op /\ d.at = c.at /\ d.hop = c.hop
      /\ d.author = c.author /\ d.node = c.node /\ d.answer = c.answer
      /\ d.part = [k \in DOMAIN asks |-> Pending]
  <2>1. DOMAIN c = Fields
    BY DEF IInv, Sound
  <2> QED  BY <2>1 DEF Fields
<1>4. DOMAIN asks = Probed(c) /\ \A k \in DOMAIN asks : asks[k].to = k
  OBVIOUS
<1> HIDE DEF asks
<1>5. CASE id = <<a>>
  <2>1. Await(<<a>>, "probing", asks, <<>>)
    BY <1>1, <1>5
  <2>2. /\ calls'[<<a>>].phase = "probing" /\ calls'[<<a>>].op = c.op
        /\ calls'[<<a>>].at = c.at /\ calls'[<<a>>].hop = c.hop
        /\ DOMAIN calls'[<<a>>].part = Probed(c)
    BY <1>2, <1>4, <1>5, <2>1, AgentWaits DEF Fields
  <2>3. PhaseOK(calls'[<<a>>]) /\ SearchCovers(calls'[<<a>>], past[a])
    BY <1>1, <2>2 DEF PhaseOK, SearchCovers, Waiting, Probed
  <2>4. \A k \in DOMAIN asks : asks[k].to = Aim(calls'[<<a>>], k)
    BY <1>4, <2>2 DEF Aim
  <2>5. Live(a) /\ "probing" \in Waiting
    BY <1>1, <1>2, <1>5 DEF Live, Waiting
  <2> QED  BY <1>1, <1>2, <2>1, <2>3, <2>4, <2>5, AgentAwaits
<1>6. ASSUME NEW k, id = Append(<<a>>, k)
      PROVE  VerdictInv'
  <2>1. Final(c)
    BY <1>6, ChildIsFinal
  <2>2. c.op.tool = "roots" /\ DOMAIN asks = {}
    BY <1>1, <1>4, <2>1 DEF Final, Probed
  <2>3. {Append(id, j) : j \in DOMAIN asks} = {}
    BY <2>2
  <2>4. DOMAIN calls' \subseteq DOMAIN calls
    BY <1>1, <2>3 DEF Await
  <2>5. \A i \in DOMAIN calls' : calls'[i] = IF i = id THEN d ELSE calls[i]
    BY <1>1, <2>3 DEF Await
  <2> HIDE DEF d
  <2>6. Live(a) => ChildOK(d, calls[<<a>>], k, past[a])
    <3>1. Live(a) => ChildOK(c, calls[<<a>>], k, past[a])
      BY <1>2, <1>6 DEF VerdictInv
    <3> QED  BY <1>1, <1>3, <2>2, <3>1 DEF ChildOK, ReplyTrue
  <2> QED  BY <1>1, <1>2, <1>6, <2>4, <2>5, <2>6, ChildStep
<1> QED  BY <1>2, <1>5, <1>6

(* A host that a fleet search says to refuse its caller refused the probe. *)
LEMMA SearchVerdict ==
    ASSUME IInv, TruthInv, VerdictInv, NEW id \in DOMAIN calls, Search(id)
    PROVE  VerdictInv'
<1> DEFINE c == calls[id]
<1> DEFINE found == UNION {{e.name : e \in c.part[p].entries} :
                             p \in {q \in DOMAIN c.part : c.part[q].type = "roots"}}
           names == found \cap c.op.names
<1>1. Await(id, "searching",
            [n \in names |-> [to |-> Prefix[n], op |-> [tool |-> "one_root", name |-> n]]],
            Unavailable(id))
  BY DEF Search
<1> DEFINE asks == [n \in names |-> [to |-> Prefix[n], op |-> [tool |-> "one_root", name |-> n]]]
<1>2. UNCHANGED <<up, serves, past>> /\ c.phase = "probing" /\ c.op.tool = "fleet_search"
  BY DEF Search
<1>3. PICK a \in Agents : /\ <<a>> \in DOMAIN calls
                          /\ id = <<a>> \/ \E k : id = Append(<<a>>, k)
  BY WhoseCall
<1>4. id = <<a>>
  BY <1>2, <1>3, ChildIsFinal DEF Final
<1>5. /\ DOMAIN asks = names
      /\ \A k \in DOMAIN asks :
            asks[k].to = Prefix[k] /\ asks[k].op.tool = "one_root" /\ asks[k].op.name = k
  OBVIOUS
<1> HIDE DEF names
<1>6. Await(<<a>>, "searching", asks, Unavailable(id))
  BY <1>1, <1>4
<1> HIDE DEF asks
<1>7. /\ calls'[<<a>>].phase = "searching" /\ calls'[<<a>>].op = c.op
      /\ calls'[<<a>>].at = c.at /\ calls'[<<a>>].author = c.author
      /\ calls'[<<a>>].gone = Unavailable(id) /\ DOMAIN calls'[<<a>>].part = names
  <2> DEFINE w == calls'[<<a>>]
             gone == Unavailable(id)
  <2> HIDE DEF gone
  <2>1. /\ \A f \in Fields \ {"phase", "part", "gone"} : w[f] = c[f]
        /\ w.phase = "searching" /\ w.gone = gone
        /\ w.part = [k \in DOMAIN asks |-> Pending]
    BY <1>3, <1>4, <1>6, AgentWaits DEF gone
  <2> HIDE DEF w, c
  <2>2. w.op = c.op /\ w.at = c.at /\ w.author = c.author
    BY <2>1 DEF Fields
  <2>3. DOMAIN w.part = names
    BY <2>1, <1>5
  <2> QED BY <2>1, <2>2, <2>3 DEF w, gone
<1>8. ASSUME NEW p \in DOMAIN Unavailable(id), Unavailable(id)[p] = "identity_refused"
      PROVE  RefusedBy(p, c)
  <2>1. p \in Peers(c.at) \cap c.op.hosts
    BY <1>8 DEF Unavailable
  <2>2. p \in Routable(c.at) /\ ~c.hop /\ c.part[p].type = "refused"
    BY <1>8 DEF Unavailable
  <2>3. AgentOK(c, past[a])
    BY <1>3, <1>4 DEF VerdictInv
  <2>4. p \in DOMAIN c.part
    BY <1>2, <2>1, <2>2, <2>3 DEF AgentOK, PhaseOK, Probed
  <2>5. OutcomeTrue(c, past[a], p, c.part[p]) /\ Aim(c, p) = p
    BY <1>2, <2>3, <2>4 DEF AgentOK, Waiting, Aim
  <2>6. p # c.at
    BY <2>1, <2>3, FleetAssumption DEF AgentOK, Peers, PeerTable
  <2> QED  BY <2>2, <2>5, <2>6 DEF OutcomeTrue, RefusedBy
<1>9. PhaseOK(calls'[<<a>>])
  BY <1>2, <1>7, <1>8 DEF PhaseOK, RefusedBy, Waiting
<1>12. SearchCovers(calls'[<<a>>], past[a])
  <2>1. AgentOK(c, past[a])
    BY <1>3, <1>4 DEF VerdictInv
  <2>2. c.op.names \subseteq Names /\ \A n \in c.op.names : Prefix[n] \in c.op.hosts
    BY <1>2, <2>1 DEF AgentOK, Op
  <2>3. ASSUME NEW n \in past[a].always, n \in c.op.names, Prefix[n] \in Peers(c.at),
               Prefix[n] \notin DOMAIN Unavailable(id)
        PROVE  n \in names
    <3>1. Outcome(id, Prefix[n]).type = "roots"
      BY <2>2, <2>3 DEF Unavailable
    <3>2. Prefix[n] \in DOMAIN c.part /\ c.part[Prefix[n]].type = "roots"
      BY <3>1 DEF Outcome, Pending
    <3>3. OutcomeTrue(c, past[a], Prefix[n], c.part[Prefix[n]]) /\ Aim(c, Prefix[n]) = Prefix[n]
      BY <1>2, <2>1, <3>2 DEF AgentOK, Waiting, Aim
    <3>4. \E e \in c.part[Prefix[n]].entries : e.name = n
      BY <3>2, <3>3 DEF OutcomeTrue, ReportsAll
    <3> QED BY <2>3, <3>2, <3>4 DEF names
  <2>4. names \subseteq Names
    BY <2>2 DEF names
  <2>5. ASSUME NEW n \in names PROVE Prefix[n] # c.at
    <3>1. PICK p \in DOMAIN c.part : /\ c.part[p].type = "roots"
                                      /\ \E e \in c.part[p].entries : e.name = n
      BY <2>5 DEF names
    <3>2. OutcomeTrue(c, past[a], p, c.part[p]) /\ Aim(c, p) = p
      BY <1>2, <2>1, <3>1 DEF AgentOK, Waiting, Aim
    <3>3. Prefix[n] = p
      BY <3>1, <3>2 DEF OutcomeTrue, ReportsAll
    <3>4. p \in Peers(c.at)
      BY <1>2, <2>1 DEF AgentOK, PhaseOK, Probed, Routable
    <3>5. p # c.at
      BY <2>1, <3>4, FleetAssumption DEF AgentOK, Peers, PeerTable
    <3> QED BY <3>3, <3>5
  <2> QED BY <1>7, <2>3, <2>4, <2>5 DEF SearchCovers
<1>10. \A k \in DOMAIN asks : /\ asks[k].to = Aim(calls'[<<a>>], k)
                               /\ asks[k].op.tool = "one_root" /\ asks[k].op.name = k
  BY <1>5, <1>7 DEF Aim
<1>11. Live(a) /\ "searching" \in Waiting
  BY <1>2, <1>3, <1>4 DEF Live, Waiting
<1> QED  BY <1>2, <1>3, <1>6, <1>9, <1>10, <1>11, <1>12, AgentAwaits

(* Only agents' calls wait for others.                                     *)
LEMMA WaiterIsAgents ==
    ASSUME IInv, TruthInv, NEW id \in DOMAIN calls, NEW k, Append(id, k) \in DOMAIN calls
    PROVE  \E a \in Agents : <<a>> \in DOMAIN calls /\ id = <<a>>
<1>1. PICK a \in Agents : /\ <<a>> \in DOMAIN calls
                          /\ id = <<a>> \/ \E j : id = Append(<<a>>, j)
  BY WhoseCall
<1>2. CASE \E j : id = Append(<<a>>, j)
  <2>1. Len(Append(id, k)) = 3
    BY <1>2
  <2>2. Len(Append(id, k)) = 2
    BY AgentsStay DEF IInv, Sound
  <2> QED  BY <2>1, <2>2
<1> QED  BY <1>1, <1>2

(* A session stands, or is made again.                                     *)
LEMMA PhaseVerdict ==
    ASSUME IInv, TruthInv, VerdictInv, NEW a \in Agents, <<a>> \in DOMAIN calls, NEW k,
           Append(<<a>>, k) \in DOMAIN calls, NEW phase \in {"arrived", "connecting"},
           calls' = [calls EXCEPT ![Append(<<a>>, k)].phase = phase],
           UNCHANGED <<up, serves, past>>
    PROVE  VerdictInv'
<1> DEFINE d == calls[Append(<<a>>, k)]
           new == [d EXCEPT !.phase = phase]
<1>1. DOMAIN calls' \subseteq DOMAIN calls
  OBVIOUS
<1>2. \A i \in DOMAIN calls' : calls'[i] = IF i = Append(<<a>>, k) THEN new ELSE calls[i]
  OBVIOUS
<1>3. DOMAIN d = Fields
  BY DEF IInv, Sound
<1>4. /\ new.at = d.at /\ new.author = d.author /\ new.node = d.node /\ new.op = d.op
      /\ new.answer = d.answer /\ new.phase = phase
  BY <1>3 DEF Fields
<1>5. Live(a) => ChildOK(d, calls[<<a>>], k, past[a])
  BY DEF VerdictInv
<1> HIDE DEF new, d
<1>6. Live(a) => ChildOK(new, calls[<<a>>], k, past[a])
  BY <1>4, <1>5 DEF ChildOK, ReplyTrue
<1> QED  BY <1>1, <1>2, <1>6, ChildStep, SMTT(30)

(* An agent's call takes what is true of the host it asked.                *)
LEMMA TookVerdict ==
    ASSUME IInv, TruthInv, VerdictInv, NEW a \in Agents, <<a>> \in DOMAIN calls,
           NEW k, NEW outcome, Took(<<a>>, k, outcome), UNCHANGED <<up, serves>>,
           \A b \in Agents : b # a => past'[b] = past[b],
           Grown(past[a], past'[a]), Live(a),
           OutcomeTrue(calls[<<a>>], past'[a], k, outcome)
    PROVE  VerdictInv'
<1> DEFINE c == calls[<<a>>]
           d == [c EXCEPT !.part[k] = outcome]
           h == past'[a]
<1>1. DOMAIN calls' = DOMAIN calls \ {Append(<<a>>, k)}
  BY DEF Took
<1>2. \A i \in DOMAIN calls' : calls'[i] = IF i = <<a>> THEN d ELSE calls[i]
  BY <1>1 DEF Took
<1>3. <<a>> \in DOMAIN calls' /\ calls'[<<a>>] = d
  BY <1>1, <1>2, AgentsStay
<1>4. DOMAIN c = Fields
  BY DEF IInv, Sound
<1>5. /\ d.at = c.at /\ d.author = c.author /\ d.op = c.op /\ d.answer = c.answer
      /\ d.hop = c.hop /\ d.phase = c.phase /\ d.gone = c.gone
      /\ d.part = [c.part EXCEPT ![k] = outcome]
  BY <1>4 DEF Fields
<1>6. AgentOK(c, h)
  BY AgentGrows DEF VerdictInv
<1> HIDE DEF d, h
<1>7. AgentOK(d, h)
  <2>1. DOMAIN d.part = DOMAIN c.part
    BY <1>5
  <2>2. PhaseOK(d)
    BY <1>5, <1>6, <2>1 DEF AgentOK, PhaseOK, RefusedBy, Probed
  <2>3. LinesAreTrue(d, h, d.answer)
    BY <1>5, <1>6 DEF AgentOK, LinesAreTrue, RefusedBy
  <2>4. ReasonsAreTrue(d, h, d.answer)
    BY <1>5, <1>6 DEF AgentOK, ReasonsAreTrue, RefusedBy
  <2>6. SearchCovers(d, h) /\ FoundIsHonest(d, h, d.answer) /\ Op(d.op)
    <3>1. SearchCovers(c, h) /\ FoundIsHonest(c, h, d.answer) /\ Op(d.op)
      BY <1>5, <1>6 DEF AgentOK
    <3>2. /\ d.at = c.at /\ d.op = c.op /\ d.author = c.author
          /\ d.phase = c.phase /\ d.gone = c.gone /\ DOMAIN d.part = DOMAIN c.part
      BY <1>5, <2>1
    <3>3. SearchCovers(d, h)
      BY <3>1, <3>2, Zenon DEF SearchCovers
    <3>4. FoundIsHonest(d, h, d.answer)
      BY <3>1, <3>2, FoundSame, Zenon
    <3> QED BY <3>1, <3>3, <3>4
  <2>5. ASSUME d.phase \in Waiting, NEW j \in DOMAIN d.part
        PROVE  OutcomeTrue(d, h, j, d.part[j])
    <3>1. OutcomeTrue(c, h, j, c.part[j])
      BY <1>5, <1>6, <2>1, <2>5 DEF AgentOK
    <3>2. OutcomeTrue(c, h, k, outcome)
      BY DEF h
    <3>3. OutcomeTrue(c, h, j, d.part[j])
      BY <1>5, <2>1, <2>5, <3>1, <3>2
    <3> QED  BY <1>5, <3>3 DEF OutcomeTrue, Aim
  <2> QED  BY <1>5, <1>6, <2>2, <2>3, <2>4, <2>5, <2>6 DEF AgentOK
<1>8. ASSUME NEW j, Append(<<a>>, j) \in DOMAIN calls'
      PROVE  ChildOK(calls'[Append(<<a>>, j)], d, j, h)
  <2>1. Append(<<a>>, j) \in DOMAIN calls /\ Append(<<a>>, j) # <<a>>
    BY <1>1, <1>8, AgentsStay
  <2>2. calls'[Append(<<a>>, j)] = calls[Append(<<a>>, j)]
    BY <1>2, <1>8, <2>1
  <2>3. ChildOK(calls[Append(<<a>>, j)], c, j, past[a])
    BY <2>1 DEF VerdictInv
  <2>4. ChildOK(calls[Append(<<a>>, j)], c, j, h)
    BY <2>3, ChildGrows DEF h
  <2> QED  BY <1>5, <2>2, <2>4 DEF ChildOK, Aim
<1>9. \A i \in DOMAIN calls' : i[1] # a => i \in DOMAIN calls /\ calls'[i] = calls[i]
  BY <1>1, <1>2
<1> QED  BY <1>3, <1>7, <1>8, <1>9, VerdictKept DEF h

(* The end of a call to a peer, and its verdict.                           *)
LEMMA ChildVerdict ==
    ASSUME IInv, TruthInv, VerdictInv, NEW id \in DOMAIN calls, NEW k,
           Connect(id, k) \/ Return(id, k) \/ Unanswered(id, k) \/ Replay(id, k)
             \/ TimesOut(id, k)
    PROVE  VerdictInv'
<1>1. Waits(id, k)
  BY DEF Connect, Return, Unanswered, Replay, TimesOut
<1>2. PICK a \in Agents : <<a>> \in DOMAIN calls /\ id = <<a>>
  BY <1>1, WaiterIsAgents DEF Waits
<1> DEFINE c == calls[<<a>>]
           child == calls[Append(<<a>>, k)]
<1>3. /\ Append(<<a>>, k) \in DOMAIN calls /\ c.phase \in Waiting /\ Live(a)
      /\ AgentOK(c, past[a]) /\ ChildOK(child, c, k, past[a])
  <2>1. Append(<<a>>, k) \in DOMAIN calls /\ c.phase \in Waiting
    BY <1>1, <1>2 DEF Waits, Waiting
  <2>2. Live(a)
    BY <1>2, <2>1 DEF Live, Waiting
  <2> QED  BY <1>2, <2>1, <2>2 DEF VerdictInv
<1>4. CASE Connect(id, k)
  BY <1>2, <1>3, <1>4, PhaseVerdict DEF Connect
<1>5. CASE Replay(id, k)
  BY <1>2, <1>3, <1>5, PhaseVerdict DEF Replay
<1>6. CASE TimesOut(id, k)
  <2>1. Took(<<a>>, k, [type |-> "timeout"]) /\ UNCHANGED <<up, serves, past>>
    BY <1>2, <1>6 DEF TimesOut
  <2>2. OutcomeTrue(c, past'[a], k, [type |-> "timeout"])
    BY DEF OutcomeTrue
  <2> QED  BY <1>2, <1>3, <2>1, <2>2, SameHistory, TookVerdict
<1>7. CASE Unanswered(id, k)
  <2>1. /\ Took(<<a>>, k, [type |-> "unreachable"]) /\ UNCHANGED <<up, serves>>
        /\ past' = [past EXCEPT ![a].missed = @ \cup {child.at}]
    BY <1>2, <1>7 DEF Unanswered
  <2>2. /\ \A b \in Agents : b # a => past'[b] = past[b]
        /\ Grown(past[a], past'[a]) /\ child.at \in past'[a].missed
    BY <2>1 DEF TruthInv, PastInv, Grown
  <2>3. OutcomeTrue(c, past'[a], k, [type |-> "unreachable"])
    BY <1>3, <2>2 DEF OutcomeTrue, ChildOK
  <2> QED  BY <1>2, <1>3, <2>1, <2>2, <2>3, TookVerdict
<1>8. CASE Return(id, k)
  <2>1. PICK outcome :
          /\ Took(<<a>>, k, outcome) /\ UNCHANGED <<up, serves, past>>
          /\ outcome = IF child.answer.type = "denied" THEN [type |-> "refused"]
                       ELSE child.answer
    BY <1>2, <1>8 DEF Return
  <2>2. CASE child.answer.type = "denied"
    <3>1. outcome.type = "refused"
      BY <2>1, <2>2
    <3>2. OutcomeTrue(c, past[a], k, outcome)
      BY <1>3, <2>2, <3>1 DEF OutcomeTrue, ChildOK, ReplyTrue
    <3> QED  BY <1>2, <1>3, <2>1, <3>2, SameHistory, TookVerdict
  <2>3. CASE child.answer.type # "denied"
    <3>1. outcome = child.answer
      BY <2>1, <2>3
    <3>2. /\ child.author = c.author /\ child.node = c.at /\ child.at = Aim(c, k)
          /\ c.phase = "forwarding" => child.op = c.op
          /\ c.phase = "searching" => child.op.name = k
          /\ ReplyTrue(child, past[a], outcome)
      BY <1>3, <3>1 DEF ChildOK
    <3>3. child.op.tool = "roots" => c.op.tool # "one_root"
      BY <1>3, <3>2 DEF AgentOK, PhaseOK, Waiting
    <3>4. OutcomeTrue(c, past[a], k, outcome)
      BY <2>3, <3>1, <3>2, <3>3 DEF OutcomeTrue, ReplyTrue
    <3> QED  BY <1>2, <1>3, <2>1, <3>4, SameHistory, TookVerdict
  <2> QED  BY <2>2, <2>3
<1> QED  BY <1>4, <1>5, <1>6, <1>7, <1>8

LEMMA HandleVerdict ==
    ASSUME IInv, TruthInv, VerdictInv, NEW id \in DOMAIN calls, Handle(id)
    PROVE  VerdictInv'
<1>1. CASE Refuse(id)
  BY <1>1, RefuseVerdict
<1>2. CASE Forward(id)
  BY <1>2, ForwardVerdict
<1>3. CASE ServeRoot(id)
  BY <1>3, ServeRootVerdict
<1>4. CASE Probe(id)
  BY <1>4, ProbeVerdict
<1>5. CASE Relay(id)
  BY <1>5, RelayVerdict
<1>6. CASE ShowRoots(id)
  BY <1>6, ShowRootsVerdict
<1>7. CASE Search(id)
  BY <1>7, SearchVerdict
<1>8. CASE ShowSearch(id)
  BY <1>8, ShowSearchVerdict
<1>9. CASE \E k \in DOMAIN calls[id].part :
             \/ Connect(id, k) \/ Return(id, k) \/ Unanswered(id, k)
             \/ Replay(id, k) \/ TimesOut(id, k)
  BY <1>9, ChildVerdict
<1> QED  BY <1>1, <1>2, <1>3, <1>4, <1>5, <1>6, <1>7, <1>8, <1>9 DEF Handle

(* A new call has a history of its own, and nothing has been said.         *)
LEMMA CallVerdict ==
    ASSUME TruthInv, VerdictInv, NEW a \in Agents, Call(a)
    PROVE  VerdictInv'
<1>1. PICK r \in Requests[a] :
        calls' = [i \in DOMAIN calls \cup {<<a>>} |->
                    IF i = <<a>> THEN NewCall(r.at, r.author, r.node, r.hop, r.op, "arrived")
                    ELSE calls[i]]
  BY DEF Call
<1>2. /\ <<a>> \notin DOMAIN calls /\ UNCHANGED <<up, serves>>
      /\ past' = [past EXCEPT ![a].ever = Served(up, serves), ![a].always = Served(up, serves)]
  BY DEF Call
<1>3. /\ past'[a].always = Served(up, serves)
      /\ \A b \in Agents : b # a => past'[b] = past[b]
  BY <1>2 DEF TruthInv, PastInv
<1>4. AgentOK(calls'[<<a>>], past'[a])
  <2>1. /\ calls'[<<a>>].at = r.at /\ calls'[<<a>>].phase = "arrived"
        /\ calls'[<<a>>].answer.type = "pending" /\ calls'[<<a>>].part = <<>>
    BY <1>1 DEF NewCall, Pending
  <2>2. calls'[<<a>>].op = r.op /\ Op(r.op) /\ r.at \in Hosts
    BY <1>1, FleetAssumption DEF NewCall
  <2>3. DOMAIN calls'[<<a>>].part = {}
    BY <2>1
  <2> QED  BY <2>1, <2>2, <2>3
            DEF AgentOK, PhaseOK, Waiting, LinesAreTrue, ReasonsAreTrue, FoundIsHonest, SearchCovers
<1>5. ASSUME NEW b \in Agents, b # a, <<b>> \in DOMAIN calls'
      PROVE  <<b>> \in DOMAIN calls /\ calls'[<<b>>] = calls[<<b>>]
  BY <1>1, <1>5
<1>6. ASSUME NEW b \in Agents, NEW k, Append(<<b>>, k) \in DOMAIN calls'
      PROVE  /\ b # a /\ Append(<<b>>, k) \in DOMAIN calls
             /\ calls'[Append(<<b>>, k)] = calls[Append(<<b>>, k)]
  <2>1. Append(<<b>>, k) # <<a>> /\ Append(<<b>>, k)[1] = b
    <3>1. Len(Append(<<b>>, k)) = 2 /\ Len(<<a>>) = 1
      BY ChildLength
    <3>2. Len(Append(<<b>>, k)) # Len(<<a>>)
      BY <3>1
    <3>3. Append(<<b>>, k) # <<a>>
      BY <3>2, Zenon
    <3> QED  BY <3>3
  <2>2. /\ Append(<<b>>, k) \in DOMAIN calls
        /\ calls'[Append(<<b>>, k)] = calls[Append(<<b>>, k)]
    BY <1>1, <1>6, <2>1
  <2>3. <<b>> \in DOMAIN calls
    BY <2>1, <2>2, WhoseCall
  <2> QED  BY <1>2, <2>2, <2>3
<1>7. ASSUME NEW b \in Agents, Live(b)'
      PROVE  past'[b].always \subseteq Served(up, serves)
  <2>1. CASE b = a
    BY <1>3, <2>1
  <2>2. CASE b # a
    <3>1. Live(b)
      BY <1>5, <1>7, <2>2 DEF Live
    <3> QED  BY <1>3, <2>2, <3>1 DEF VerdictInv, ServesInv
  <2> QED  BY <2>1, <2>2
<1>8. ServesInv'
  BY <1>2, <1>7 DEF VerdictInv, ServesInv, Served
<1>9. ASSUME NEW b \in Agents, <<b>> \in DOMAIN calls'
      PROVE  AgentOK(calls'[<<b>>], past'[b])
  BY <1>3, <1>4, <1>5, <1>9 DEF VerdictInv
<1>10. ASSUME NEW b \in Agents, NEW k, Append(<<b>>, k) \in DOMAIN calls', Live(b)'
       PROVE  ChildOK(calls'[Append(<<b>>, k)], calls'[<<b>>], k, past'[b])
  <2>1. b # a /\ Append(<<b>>, k) \in DOMAIN calls
        /\ calls'[Append(<<b>>, k)] = calls[Append(<<b>>, k)]
    BY <1>6, <1>10
  <2>2. Live(b) /\ calls'[<<b>>] = calls[<<b>>] /\ past'[b] = past[b]
    BY <1>3, <1>5, <1>10, <2>1 DEF Live
  <2> QED  BY <2>1, <2>2 DEF VerdictInv
<1> QED  BY <1>8, <1>9, <1>10 DEF VerdictInv

(* Hosts come and go.                                                      *)
LEMMA WitnessVerdict ==
    ASSUME IInv, TruthInv, VerdictInv, Witness(Served(up', serves')),
           up' \subseteq Hosts, serves' = [h \in Hosts |-> serves'[h]],
           \A h \in up' : Startable(h, serves'[h]),
           DOMAIN calls' = DOMAIN calls,
           \A i \in DOMAIN calls :
              \/ calls'[i] = calls[i]
              \/ calls'[i] = [calls[i] EXCEPT !.phase = "lost"]
              \/ Len(i) # 1 /\ calls'[i] = [calls[i] EXCEPT !.phase = "broken"]
    PROVE  VerdictInv'
<1>1. past' = [a \in Agents |->
                 IF Live(a)
                 THEN [past[a] EXCEPT !.ever = @ \cup Served(up', serves'),
                                      !.always = @ \cap Served(up', serves')]
                 ELSE past[a]]
  BY DEF Witness, Live
<1>2. ASSUME NEW a \in Agents
      PROVE  /\ Grown(past[a], past'[a])
             /\ Live(a) => past'[a].always \subseteq Served(up', serves')
  BY <1>1 DEF TruthInv, PastInv, Grown
<1>3. ASSUME NEW i \in DOMAIN calls
      PROVE  /\ DOMAIN calls[i] = Fields /\ DOMAIN calls'[i] = Fields
             /\ \A f \in Fields \ {"phase"} : calls'[i][f] = calls[i][f]
             /\ \/ calls'[i] = calls[i]
                \/ calls'[i].phase = "lost"
                \/ Len(i) # 1 /\ calls'[i].phase = "broken"
  <2>1. DOMAIN calls[i] = Fields
    BY DEF IInv, Sound
  <2> QED  BY <1>3, <2>1 DEF Fields
<1>4. ASSUME NEW a \in Agents, <<a>> \in DOMAIN calls
      PROVE  calls'[<<a>>] = calls[<<a>>] \/ calls'[<<a>>].phase = "lost"
  <2>1. Len(<<a>>) = 1
    OBVIOUS
  <2> QED  BY <1>3, <1>4, <2>1
<1>5. ASSUME NEW a \in Agents, Live(a)'
      PROVE  Live(a) /\ calls'[<<a>>] = calls[<<a>>]
  BY <1>4, <1>5 DEF Live
<1>6. ServesInv'
  BY <1>2, <1>5 DEF ServesInv
<1>7. ASSUME NEW a \in Agents, <<a>> \in DOMAIN calls
      PROVE  AgentOK(calls'[<<a>>], past'[a])
  <2> DEFINE c == calls[<<a>>]
             d == calls'[<<a>>]
             g == past'[a]
  <2>1. AgentOK(c, g)
    BY <1>2, <1>7, AgentGrows DEF VerdictInv
  <2>2. /\ d.at = c.at /\ d.author = c.author /\ d.op = c.op /\ d.answer = c.answer
        /\ d = c \/ d.phase = "lost"
    BY <1>3, <1>4, <1>7 DEF Fields
  <2> HIDE DEF c, d, g
  <2>3. LinesAreTrue(d, g, d.answer)
    BY <2>1, <2>2 DEF AgentOK, LinesAreTrue, RefusedBy
  <2>4. ReasonsAreTrue(d, g, d.answer)
    BY <2>1, <2>2 DEF AgentOK, ReasonsAreTrue, RefusedBy
  <2>5. d.phase = "lost" => PhaseOK(d) /\ SearchCovers(d, g)
    BY DEF PhaseOK, SearchCovers, Waiting
  <2>7. FoundIsHonest(d, g, d.answer)
    <3>1. FoundIsHonest(c, g, c.answer)
      BY <2>1 DEF AgentOK
    <3>2. d.at = c.at /\ d.author = c.author /\ d.op = c.op /\ d.answer = c.answer
      BY <2>2
    <3> QED BY <3>1, <3>2, FoundSame
  <2>6. AgentOK(d, g)
    BY <2>1, <2>2, <2>3, <2>4, <2>5, <2>7 DEF AgentOK, Waiting
  <2> QED  BY <2>6 DEF d, g
<1>8. ASSUME NEW a \in Agents, NEW k, Append(<<a>>, k) \in DOMAIN calls, Live(a)'
      PROVE  ChildOK(calls'[Append(<<a>>, k)], calls'[<<a>>], k, past'[a])
  <2> DEFINE d == calls[Append(<<a>>, k)]
             e == calls'[Append(<<a>>, k)]
             g == past'[a]
  <2>1. ChildOK(d, calls[<<a>>], k, g) /\ calls'[<<a>>] = calls[<<a>>]
    <3>1. ChildOK(d, calls[<<a>>], k, past[a])
      BY <1>5, <1>8 DEF VerdictInv
    <3> QED  BY <1>2, <1>5, <1>8, <3>1, ChildGrows
  <2>2. /\ e.at = d.at /\ e.author = d.author /\ e.node = d.node /\ e.op = d.op
        /\ e.answer = d.answer
        /\ e = d \/ e.phase \in {"lost", "broken"}
    BY <1>3, <1>8 DEF Fields
  <2> HIDE DEF d, e, g
  <2>3. ChildOK(e, calls[<<a>>], k, g)
    BY <2>1, <2>2 DEF ChildOK, ReplyTrue
  <2> QED  BY <2>1, <2>3 DEF e, g
<1> QED  BY <1>6, <1>7, <1>8 DEF VerdictInv

LEMMA CrashVerdict ==
    ASSUME IInv, TruthInv, VerdictInv, NEW h, Crash(h)
    PROVE  VerdictInv'
<1>1. /\ DOMAIN calls' = DOMAIN calls /\ serves' = serves /\ up' = up \ {h}
      /\ Witness(Served(up', serves'))
  BY DEF Crash
<1>2. ASSUME NEW i \in DOMAIN calls
      PROVE  \/ calls'[i] = calls[i]
             \/ calls'[i] = [calls[i] EXCEPT !.phase = "lost"]
             \/ Len(i) # 1 /\ calls'[i] = [calls[i] EXCEPT !.phase = "broken"]
  BY <1>2 DEF Crash
<1>3. /\ up' \subseteq Hosts /\ serves' = [g \in Hosts |-> serves'[g]]
      /\ \A g \in up' : Startable(g, serves'[g])
  BY <1>1 DEF VerdictInv, ServesInv
<1> QED  BY <1>1, <1>2, <1>3, WitnessVerdict

LEMMA StartVerdict ==
    ASSUME IInv, TruthInv, VerdictInv, NEW h, Start(h)
    PROVE  VerdictInv'
<1>1. PICK roots : Startable(h, roots) /\ serves' = [serves EXCEPT ![h] = roots]
  BY DEF Start
<1>2. /\ h \in Hosts /\ up' = up \cup {h} /\ calls' = calls
      /\ Witness(Served(up', serves'))
  BY DEF Start
<1>3. serves = [g \in Hosts |-> serves[g]] /\ up \subseteq Hosts
      /\ \A g \in up : Startable(g, serves[g])
  BY DEF VerdictInv, ServesInv
<1>4. serves' = [g \in Hosts |-> serves'[g]]
  BY <1>1, <1>3
<1>5. ASSUME NEW g \in up'
      PROVE  Startable(g, serves'[g])
  <2>1. serves'[g] = IF g = h THEN roots ELSE serves[g]
    BY <1>1, <1>2, <1>3
  <2> QED  BY <1>1, <1>2, <1>3, <2>1
<1>6. up' \subseteq Hosts
  BY <1>2, <1>3
<1> QED  BY <1>2, <1>4, <1>5, <1>6, WitnessVerdict

LEMMA NextVerdict ==
    ASSUME IInv, TruthInv, VerdictInv, [Next]_vars
    PROVE  VerdictInv'
<1>1. CASE \E a \in Agents : Call(a)
  BY <1>1, CallVerdict
<1>2. CASE \E id \in DOMAIN calls : Handle(id)
  BY <1>2, HandleVerdict
<1>3. CASE \E h \in Hosts : Crash(h)
  BY <1>3, CrashVerdict
<1>4. CASE \E h \in Hosts : Start(h)
  BY <1>4, StartVerdict
<1>5. CASE UNCHANGED vars
  BY <1>5 DEF vars, VerdictInv, ServesInv, Live, Served
<1> QED  BY <1>1, <1>2, <1>3, <1>4, <1>5 DEF Next

THEOREM VerdictsStay == Spec => []VerdictInv
<1>1. Init => VerdictInv
  BY DEF Init, VerdictInv, ServesInv, Live
<1> QED  BY <1>1, NextVerdict, InductiveInvariant, TruthsStay, PTL DEF Spec

(* What an agent is told of hosts, that they do not answer, refuse it, do  *)
(* not have a root or were searched, was so during its call, whichever     *)
(* hosts die and come back with other roots (server.rs, fleet.rs).         *)
THEOREM VerdictsHold == Spec => []VerdictIsTrue
<1>1. VerdictInv => VerdictIsTrue
  BY DEF VerdictInv, VerdictIsTrue, Answered, AgentOK
<1> QED  BY <1>1, VerdictsStay, PTL

(* A fleet search has every match of each root its pattern selects, or     *)
(* says what it left out and of which root or host; and what it found was  *)
(* served, by hosts that let the caller in (server.rs fleet_search,        *)
(* merge_search), in any fleet, whoever dies meanwhile.                    *)
THEOREM SearchesAreHonest == Spec => []SearchIsHonest
<1>1. VerdictInv => SearchIsHonest
  BY DEF VerdictInv, SearchIsHonest, Answered, AgentOK
<1> QED  BY <1>1, VerdictsStay, PTL
=============================================================================
