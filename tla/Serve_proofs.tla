---------------------------- MODULE Serve_proofs ----------------------------
(***************************************************************************)
(* Who asks, and what is answered.  However many lookups of an address     *)
(* overlap, and whatever moves, the node a request is recorded under owned *)
(* its address within a ttl and one lookup of the time the request was     *)
(* settled: NodeIsFresh says nothing of the cache and of lookups that run, *)
(* IInv does.  And on any trees, with any content and rules: an answer     *)
(* shows nothing it may not, what it leaves out it accounts for, and pages *)
(* followed from one to the next are together what there was.  The three   *)
(* rest on CallsAreRight, that every call is answered from one tree and    *)
(* every page asked for where the one before ended; the rest is what the   *)
(* operators of Access and Reading return, on every input, and the folds   *)
(* among them by the induction of Folding_proofs.                          *)
(***************************************************************************)
EXTENDS Serve, Folding_proofs, SequenceTheorems

TypeOK ==
    /\ clock \in Nat
    /\ owner \in [Addrs -> Nodes]
    /\ held \in [Addrs -> SUBSET (Nat \X Nodes)]
    /\ front \in [Agents -> Fronts]
    /\ DOMAIN cache \subseteq Addrs
    /\ \A addr \in DOMAIN cache :
          cache[addr] \in [at : Nat, node : Nodes \cup {Unknown}]

OwnersAreHeld == \A addr \in Addrs : <<clock, owner[addr]>> \in held[addr]

(* An entry is stamped when its lookup ended, which began at most Patience *)
(* before.                                                                 *)
CacheIsOfALookup ==
    \A addr \in DOMAIN cache :
       /\ cache[addr].at <= clock
       /\ cache[addr].node # Unknown
          => OwnedSince(addr, cache[addr].node, cache[addr].at, Patience)

(* What a running lookup saw was so since it began, not long ago.          *)
LookupsAreRecent ==
    \A a \in Agents : front[a].phase = "asking" =>
       /\ Addr[a] \in Addrs
       /\ front[a].began <= clock /\ clock <= front[a].began + Patience
       /\ \A node \in front[a].saw \ {Unknown} :
             \E t \in front[a].began .. clock : <<t, node>> \in held[Addr[a]]

SettledAreFresh ==
    \A a \in Agents :
       front[a].phase \in {"ready", "answered"} /\ front[a].node # Unknown =>
         /\ Addr[a] \in Addrs
         /\ front[a].since <= clock
         /\ OwnedSince(Addr[a], front[a].node, front[a].since, Ttl + Patience)

IInv ==
    TypeOK /\ OwnersAreHeld /\ CacheIsOfALookup /\ LookupsAreRecent /\ SettledAreFresh

-----------------------------------------------------------------------------
(* What an address was keeps, and for a longer slack, and from a later     *)
(* moment if the slack grows with it.                                      *)
LEMMA OwnedLater ==
    ASSUME NEW addr \in Addrs, NEW node, NEW s \in Nat, NEW u \in Nat,
           NEW slack \in Nat, NEW more \in Nat,
           OwnedSince(addr, node, s, slack), s <= u, u + slack <= s + more
    PROVE  OwnedSince(addr, node, u, more)
<1>1. PICK t \in 0 .. s : t + slack >= s /\ <<t, node>> \in held[addr]
  BY DEF OwnedSince
<1>2. t \in 0 .. u /\ t + more >= u
  BY <1>1
<1> QED BY <1>1, <1>2 DEF OwnedSince

LEMMA InitHolds == Init => IInv
<1> SUFFICES ASSUME Init PROVE IInv
  OBVIOUS
<1> USE ServeAssumption
<1>1. TypeOK
  BY DEF Init, TypeOK, Fronts, Idle
<1>2. OwnersAreHeld
  BY DEF Init, OwnersAreHeld
<1>3. CacheIsOfALookup
  BY DEF Init, CacheIsOfALookup
<1>4. LookupsAreRecent /\ SettledAreFresh
  BY DEF Init, LookupsAreRecent, SettledAreFresh, Idle
<1> QED BY <1>1, <1>2, <1>3, <1>4 DEF IInv

-----------------------------------------------------------------------------
(* A step that changes at most what one agent's middleware holds keeps the *)
(* invariant, if that agent's part of it holds after the step.             *)
LEMMA FrontKeeps ==
    ASSUME IInv, NEW a \in Agents, NEW f \in Fronts,
           UNCHANGED <<clock, owner, held>>,
           front' = [front EXCEPT ![a] = f],
           f.phase = "asking" =>
             /\ Addr[a] \in Addrs
             /\ f.began <= clock /\ clock <= f.began + Patience
             /\ \A node \in f.saw \ {Unknown} :
                   \E t \in f.began .. clock : <<t, node>> \in held[Addr[a]],
           f.phase \in {"ready", "answered"} /\ f.node # Unknown =>
             /\ Addr[a] \in Addrs /\ f.since <= clock
             /\ OwnedSince(Addr[a], f.node, f.since, Ttl + Patience)
    PROVE  /\ front' \in [Agents -> Fronts]
           /\ OwnersAreHeld' /\ LookupsAreRecent' /\ SettledAreFresh'
<1>1. front \in [Agents -> Fronts] /\ front' \in [Agents -> Fronts]
  BY DEF IInv, TypeOK
<1>2. \A b \in Agents : front'[b] = IF b = a THEN f ELSE front[b]
  BY <1>1
<1>3. OwnersAreHeld'
  BY DEF IInv, OwnersAreHeld
<1>4. LookupsAreRecent'
  BY <1>2 DEF IInv, LookupsAreRecent
<1>5. SettledAreFresh'
  BY <1>2 DEF IInv, SettledAreFresh, OwnedSince
<1> QED BY <1>1, <1>3, <1>4, <1>5

LEMMA CacheKeeps ==
    ASSUME IInv, UNCHANGED <<cache, clock, held>>
    PROVE  CacheIsOfALookup'
BY DEF IInv, CacheIsOfALookup, OwnedSince

LEMMA ArriveKeeps ==
    ASSUME IInv, NEW a \in Agents, NEW op, NEW pages, Arrive(a, op, pages)
    PROVE  IInv'
<1> USE ServeAssumption
<1> DEFINE Come(node) == [Idle EXCEPT !.phase = "ready", !.node = node, !.since = clock]
           f == IF ~Workloads[load].whois \/ Addr[a] = NoAddr THEN Come(Unknown)
                ELSE IF Cached(Addr[a]) THEN Come(cache[Addr[a]].node)
                ELSE [Idle EXCEPT !.phase = "asking", !.began = clock]
<1>1. front' = [front EXCEPT ![a] = f] /\ UNCHANGED <<clock, owner, held, cache>>
  BY DEF Arrive, world
<1>2. clock \in Nat /\ Ttl \in Nat /\ Patience \in Nat /\ Addr[a] \in Addrs \cup {NoAddr}
  BY DEF IInv, TypeOK
<1>3. \A node \in Nodes \cup {Unknown} :
         /\ Come(node) \in Fronts /\ Come(node).phase = "ready"
         /\ Come(node).node = node /\ Come(node).since = clock
  BY <1>2 DEF Idle, Fronts
<1>4. CASE ~Workloads[load].whois \/ Addr[a] = NoAddr
  <2>1. f = Come(Unknown)
    BY <1>4
  <2>2. f \in Fronts /\ f.phase = "ready" /\ f.node = Unknown
    BY <2>1, <1>3
  <2> HIDE DEF f
  <2>3. /\ front' \in [Agents -> Fronts]
        /\ OwnersAreHeld' /\ LookupsAreRecent' /\ SettledAreFresh'
    BY <2>2, <1>1, FrontKeeps
  <2> QED BY ONLY <2>3, IInv, <1>1, CacheKeeps DEF IInv, TypeOK
<1>5. CASE Workloads[load].whois /\ Addr[a] # NoAddr /\ Cached(Addr[a])
  <2> DEFINE entry == cache[Addr[a]]
  <2>1. f = Come(entry.node) /\ Addr[a] \in Addrs
    BY <1>2, <1>5
  <2>2. /\ entry.at \in Nat /\ entry.node \in Nodes \cup {Unknown}
        /\ entry.at <= clock /\ clock - entry.at <= Ttl
        /\ entry.node # Unknown => OwnedSince(Addr[a], entry.node, entry.at, Patience)
    BY <1>5 DEF IInv, TypeOK, Cached, CacheIsOfALookup
  <2>3. f \in Fronts /\ f.phase = "ready" /\ f.node = entry.node /\ f.since = clock
    BY ZenonT(40), <2>1, <2>2, <1>3
  <2>4. entry.node # Unknown => OwnedSince(Addr[a], entry.node, clock, Ttl + Patience)
    <3>1. entry.at \in Nat /\ entry.at <= clock /\ clock + Patience <= entry.at + (Ttl + Patience)
      BY <2>2, <1>2
    <3>2. Ttl + Patience \in Nat
      BY <1>2
    <3> HIDE DEF entry, f, Come
    <3> QED BY ONLY <2>1, <2>2, <3>1, <3>2, <1>2, OwnedLater
  <2>6. /\ f.phase # "asking"
        /\ f.node # Unknown => OwnedSince(Addr[a], f.node, f.since, Ttl + Patience)
        /\ f.since <= clock
    BY <2>3, <2>4, <1>2
  <2> HIDE DEF f, entry
  <2>5. /\ front' \in [Agents -> Fronts]
        /\ OwnersAreHeld' /\ LookupsAreRecent' /\ SettledAreFresh'
    BY ONLY IInv, <2>1, <2>3, <2>6, <1>1, <1>2, FrontKeeps
  <2> QED BY <2>5, <1>1, CacheKeeps DEF IInv, TypeOK
<1>6. CASE Workloads[load].whois /\ Addr[a] # NoAddr /\ ~Cached(Addr[a])
  <2>1. /\ f \in Fronts /\ f.phase = "asking" /\ f.began = clock /\ f.saw = {}
        /\ Addr[a] \in Addrs
    BY <1>2, <1>6 DEF Idle, Fronts
  <2>3. /\ f.began <= clock /\ clock <= f.began + Patience
        /\ f.phase \notin {"ready", "answered"}
        /\ \A node \in f.saw \ {Unknown} :
              \E t \in f.began .. clock : <<t, node>> \in held[Addr[a]]
    BY <2>1, <1>2
  <2> HIDE DEF f
  <2>2. /\ front' \in [Agents -> Fronts]
        /\ OwnersAreHeld' /\ LookupsAreRecent' /\ SettledAreFresh'
    BY ONLY IInv, <2>1, <2>3, <1>1, FrontKeeps
  <2> QED BY <2>2, <1>1, CacheKeeps DEF IInv, TypeOK
<1> QED BY <1>4, <1>5, <1>6

LEMMA LookKeeps ==
    ASSUME IInv, NEW a \in Agents, Look(a)
    PROVE  IInv'
<1>1. PICK node \in {owner[Addr[a]], Unknown} : front' = [front EXCEPT ![a].saw = {node}]
  BY DEF Look
<1>2. UNCHANGED <<clock, owner, held, cache>> /\ front[a].phase = "asking"
  BY DEF Look, world
<1>3. /\ Addr[a] \in Addrs
      /\ front[a].began <= clock /\ clock <= front[a].began + Patience
      /\ clock \in Nat /\ front[a] \in Fronts /\ owner[Addr[a]] \in Nodes
      /\ <<clock, owner[Addr[a]]>> \in held[Addr[a]]
  BY <1>2 DEF IInv, TypeOK, LookupsAreRecent, OwnersAreHeld
<1> DEFINE f == [front[a] EXCEPT !.saw = {node}]
<1>4. /\ f \in Fronts /\ f.phase = "asking" /\ f.saw = {node}
      /\ f.began = front[a].began /\ f.began \in Nat
  BY <1>2, <1>3 DEF Fronts
<1>5. front' = [front EXCEPT ![a] = f]
  BY <1>1
<1>6. \A n \in f.saw \ {Unknown} : \E t \in f.began .. clock : <<t, n>> \in held[Addr[a]]
  <2>1. clock \in f.began .. clock
    BY <1>3, <1>4
  <2>2. \A n \in f.saw \ {Unknown} : n = owner[Addr[a]]
    BY <1>4
  <2> QED BY <2>1, <2>2, <1>3
<1>7. f.began <= clock /\ clock <= f.began + Patience
  BY <1>3, <1>4
<1> HIDE DEF f
<1>8. /\ front' \in [Agents -> Fronts]
      /\ OwnersAreHeld' /\ LookupsAreRecent' /\ SettledAreFresh'
  BY ONLY IInv, <1>2, <1>3, <1>4, <1>5, <1>6, <1>7, FrontKeeps
<1> QED BY ONLY IInv, <1>8, <1>2, CacheKeeps DEF IInv, TypeOK

LEMMA ResolveKeeps ==
    ASSUME IInv, NEW a \in Agents, Resolve(a)
    PROVE  IInv'
<1> DEFINE Done(n) == [Idle EXCEPT !.phase = "ready", !.node = n, !.since = clock]
           entry(n) == [at |-> clock, node |-> n]
<1>1. PICK node \in front[a].saw :
         /\ cache' = [addr \in DOMAIN cache \cup {Addr[a]} |->
                        IF addr = Addr[a] THEN entry(node) ELSE cache[addr]]
         /\ front' = [front EXCEPT ![a] = Done(node)]
  BY DEF Resolve
<1>2. UNCHANGED <<clock, owner, held>> /\ front[a].phase = "asking"
  BY DEF Resolve, world
<1>3. /\ Addr[a] \in Addrs
      /\ front[a].began <= clock /\ clock <= front[a].began + Patience
      /\ clock \in Nat /\ front[a].began \in Nat /\ node \in Nodes \cup {Unknown}
      /\ node # Unknown => \E t \in front[a].began .. clock : <<t, node>> \in held[Addr[a]]
  BY <1>1, <1>2 DEF IInv, TypeOK, LookupsAreRecent, Fronts
<1>4. Patience \in Nat /\ Ttl \in Nat
  BY ServeAssumption
<1>5. node # Unknown => OwnedSince(Addr[a], node, clock, Patience)
  <2> SUFFICES ASSUME node # Unknown PROVE OwnedSince(Addr[a], node, clock, Patience)
    OBVIOUS
  <2>1. PICK t \in front[a].began .. clock : <<t, node>> \in held[Addr[a]]
    BY <1>3
  <2>2. t \in 0 .. clock /\ t + Patience >= clock
    BY <2>1, <1>3, <1>4
  <2> QED BY <2>1, <2>2 DEF OwnedSince
<1>6. node # Unknown => OwnedSince(Addr[a], node, clock, Ttl + Patience)
  <2>1. Ttl + Patience \in Nat /\ clock <= clock /\ clock + Patience <= clock + (Ttl + Patience)
    BY <1>3, <1>4
  <2> QED BY ONLY <2>1, <1>3, <1>4, <1>5, OwnedLater
<1>7. /\ Done(node) \in Fronts /\ Done(node).phase = "ready"
      /\ Done(node).node = node /\ Done(node).since = clock
  BY <1>3 DEF Idle, Fronts
<1>8. CacheIsOfALookup' /\ DOMAIN cache' \subseteq Addrs
      /\ \A addr \in DOMAIN cache' : cache'[addr] \in [at : Nat, node : Nodes \cup {Unknown}]
  <2>1. DOMAIN cache' = DOMAIN cache \cup {Addr[a]} /\ DOMAIN cache \subseteq Addrs
    BY <1>1 DEF IInv, TypeOK
  <2>2. /\ entry(node).at = clock /\ entry(node).node = node
        /\ entry(node) \in [at : Nat, node : Nodes \cup {Unknown}]
    BY <1>3
  <2>3. \A addr \in DOMAIN cache' :
           cache'[addr] = IF addr = Addr[a] THEN entry(node) ELSE cache[addr]
    BY <1>1
  <2>4. \A addr \in DOMAIN cache' : addr # Addr[a] => addr \in DOMAIN cache
    BY <2>1
  <2> HIDE DEF entry
  <2>5. ASSUME NEW addr \in DOMAIN cache'
        PROVE  /\ cache'[addr] \in [at : Nat, node : Nodes \cup {Unknown}]
               /\ cache'[addr].at <= clock
               /\ cache'[addr].node # Unknown
                  => OwnedSince(addr, cache'[addr].node, cache'[addr].at, Patience)
    <3>1. CASE addr = Addr[a]
      BY <3>1, <2>2, <2>3, <1>3, <1>5
    <3>2. CASE addr # Addr[a]
      <4>1. cache'[addr] = cache[addr] /\ addr \in DOMAIN cache
        BY <3>2, <2>3, <2>4
      <4> QED BY <4>1 DEF IInv, TypeOK, CacheIsOfALookup
    <3> QED BY <3>1, <3>2
  <2> QED BY <2>1, <2>5, <1>2, <1>3 DEF CacheIsOfALookup, OwnedSince
<1> HIDE DEF Done, entry
<1>9. /\ front' \in [Agents -> Fronts]
      /\ OwnersAreHeld' /\ LookupsAreRecent' /\ SettledAreFresh'
  <2> DEFINE f == Done(node)
  <2>1. /\ f \in Fronts /\ f.phase # "asking" /\ f.since <= clock
        /\ f.node # Unknown => OwnedSince(Addr[a], f.node, f.since, Ttl + Patience)
    BY <1>3, <1>6, <1>7
  <2>2. front' = [front EXCEPT ![a] = f]
    BY <1>1
  <2> HIDE DEF f
  <2> QED BY ONLY IInv, <2>1, <2>2, <1>2, <1>3, FrontKeeps
<1> QED BY ONLY IInv, <1>8, <1>9, <1>2 DEF IInv, TypeOK

LEMMA HandleKeeps ==
    ASSUME IInv, NEW a \in Agents, Handle(a)
    PROVE  IInv'
<1> DEFINE f == [front[a] EXCEPT !.phase = "answered"]
<1>1. front' = [front EXCEPT ![a] = f] /\ UNCHANGED <<clock, owner, held, cache>>
  BY DEF Handle, world
<1>2. front[a].phase = "ready" /\ front[a] \in Fronts
  BY DEF Handle, IInv, TypeOK
<1>3. /\ f \in Fronts /\ f.phase = "answered"
      /\ f.node = front[a].node /\ f.since = front[a].since
  BY <1>2 DEF Fronts
<1>4. f.node # Unknown =>
        /\ Addr[a] \in Addrs /\ f.since <= clock
        /\ OwnedSince(Addr[a], f.node, f.since, Ttl + Patience)
  BY <1>2, <1>3 DEF IInv, SettledAreFresh
<1> HIDE DEF f
<1>5. /\ front' \in [Agents -> Fronts]
      /\ OwnersAreHeld' /\ LookupsAreRecent' /\ SettledAreFresh'
  BY ONLY IInv, <1>1, <1>3, <1>4, FrontKeeps
<1> QED BY ONLY IInv, <1>5, <1>1, CacheKeeps DEF IInv, TypeOK

-----------------------------------------------------------------------------
(* What an address was is never forgotten.                                 *)
LEMMA HeldGrows ==
    ASSUME NEW addr, NEW node, NEW time, NEW slack,
           held[addr] \subseteq held'[addr], OwnedSince(addr, node, time, slack)
    PROVE  OwnedSince(addr, node, time, slack)'
BY DEF OwnedSince

LEMMA TickKeeps == IInv /\ Tick => IInv'
<1> SUFFICES ASSUME IInv, Tick PROVE IInv'
  OBVIOUS
<1>1. /\ clock' = clock + 1 /\ clock \in Nat
      /\ held' = [addr \in Addrs |-> held[addr] \cup {<<clock + 1, owner[addr]>>}]
      /\ UNCHANGED <<owner, cache, front>>
      /\ \A a \in Agents : front[a].phase = "asking" => clock - front[a].began < Patience
  BY DEF Tick, IInv, TypeOK
<1>2. \A addr \in Addrs : /\ held[addr] \subseteq held'[addr]
                          /\ <<clock', owner'[addr]>> \in held'[addr]
  BY <1>1
<1>3. TypeOK'
  BY <1>1 DEF IInv, TypeOK
<1>4. OwnersAreHeld'
  BY <1>2 DEF OwnersAreHeld
<1>5. CacheIsOfALookup'
  <2> SUFFICES ASSUME NEW addr \in DOMAIN cache
               PROVE  /\ cache[addr].at <= clock'
                      /\ cache[addr].node # Unknown
                         => OwnedSince(addr, cache[addr].node, cache[addr].at, Patience)'
    BY <1>1 DEF CacheIsOfALookup, OwnedSince
  <2>1. /\ cache[addr].at <= clock /\ cache[addr].at \in Nat /\ addr \in Addrs
        /\ cache[addr].node # Unknown
           => OwnedSince(addr, cache[addr].node, cache[addr].at, Patience)
    BY DEF IInv, TypeOK, CacheIsOfALookup
  <2> QED BY <2>1, <1>1, <1>2 DEF OwnedSince
<1>6. LookupsAreRecent'
  <2> SUFFICES ASSUME NEW a \in Agents, front[a].phase = "asking"
               PROVE  /\ Addr[a] \in Addrs
                      /\ front[a].began <= clock' /\ clock' <= front[a].began + Patience
                      /\ \A node \in front[a].saw \ {Unknown} :
                            \E t \in front[a].began .. clock' : <<t, node>> \in held'[Addr[a]]
    BY <1>1 DEF LookupsAreRecent
  <2>1. /\ Addr[a] \in Addrs /\ front[a].began <= clock /\ front[a].began \in Nat
        /\ \A node \in front[a].saw \ {Unknown} :
              \E t \in front[a].began .. clock : <<t, node>> \in held[Addr[a]]
    BY DEF IInv, TypeOK, LookupsAreRecent, Fronts
  <2>2. front[a].began .. clock \subseteq front[a].began .. clock'
    BY <1>1, <2>1
  <2>3. front[a].began <= clock' /\ clock' <= front[a].began + Patience
    BY <1>1, <2>1, ServeAssumption
  <2> QED BY <2>1, <2>2, <2>3, <1>2
<1>7. SettledAreFresh'
  <2> SUFFICES ASSUME NEW a \in Agents,
                      front[a].phase \in {"ready", "answered"}, front[a].node # Unknown
               PROVE  /\ Addr[a] \in Addrs /\ front[a].since <= clock'
                      /\ OwnedSince(Addr[a], front[a].node, front[a].since, Ttl + Patience)'
    BY <1>1 DEF SettledAreFresh, OwnedSince
  <2>1. /\ Addr[a] \in Addrs /\ front[a].since <= clock /\ front[a].since \in Nat
        /\ OwnedSince(Addr[a], front[a].node, front[a].since, Ttl + Patience)
    BY DEF IInv, TypeOK, SettledAreFresh, Fronts
  <2> QED BY <2>1, <1>1, <1>2 DEF OwnedSince
<1> QED BY <1>3, <1>4, <1>5, <1>6, <1>7 DEF IInv

LEMMA MoveKeeps ==
    ASSUME IInv, NEW addr \in Addrs, NEW node \in Nodes, Move(addr, node)
    PROVE  IInv'
<1>1. /\ owner' = [owner EXCEPT ![addr] = node]
      /\ held' = [held EXCEPT ![addr] = @ \cup {<<clock, node>>}]
      /\ UNCHANGED <<clock, cache, front>>
  BY DEF Move
<1>2. \A x \in Addrs : /\ held[x] \subseteq held'[x]
                       /\ <<clock, owner'[x]>> \in held'[x]
  BY <1>1 DEF IInv, TypeOK, OwnersAreHeld
<1>3. TypeOK'
  BY <1>1 DEF IInv, TypeOK
<1>4. OwnersAreHeld'
  BY <1>1, <1>2 DEF OwnersAreHeld
<1>5. CacheIsOfALookup'
  BY <1>1, <1>2 DEF IInv, TypeOK, CacheIsOfALookup, OwnedSince
<1>6. LookupsAreRecent'
  BY <1>1, <1>2 DEF IInv, LookupsAreRecent
<1>7. SettledAreFresh'
  BY <1>1, <1>2 DEF IInv, SettledAreFresh, OwnedSince
<1> QED BY <1>3, <1>4, <1>5, <1>6, <1>7 DEF IInv

LEMMA RestartKeeps == IInv /\ Restart => IInv'
<1> SUFFICES ASSUME IInv, Restart PROVE IInv'
  OBVIOUS
<1>1. /\ cache' = <<>> /\ UNCHANGED <<clock, owner, held>>
      /\ front' = [a \in Agents |->
            IF front[a].phase \in {"asking", "ready"} THEN Idle ELSE front[a]]
  BY DEF Restart, world
<1>2. Idle \in Fronts /\ Idle.phase = "idle"
  BY DEF Idle, Fronts
<1>3. TypeOK'
  BY <1>1, <1>2 DEF IInv, TypeOK
<1>4. OwnersAreHeld' /\ CacheIsOfALookup'
  BY <1>1 DEF IInv, OwnersAreHeld, CacheIsOfALookup
<1>5. LookupsAreRecent'
  BY <1>1, <1>2 DEF IInv, LookupsAreRecent
<1>6. SettledAreFresh'
  BY <1>1, <1>2 DEF IInv, SettledAreFresh, OwnedSince
<1> QED BY <1>3, <1>4, <1>5, <1>6 DEF IInv

LEMMA NextKeeps == IInv /\ [Next]_vars => IInv'
<1> SUFFICES ASSUME IInv, [Next]_vars PROVE IInv'
  OBVIOUS
<1>1. ASSUME NEW a \in Agents, Ask(a) PROVE IInv'
  BY <1>1, ArriveKeeps DEF Ask
<1>2. ASSUME NEW a \in Agents, Continue(a) PROVE IInv'
  BY <1>2, ArriveKeeps DEF Continue
<1>3. ASSUME NEW a \in Agents, Look(a) \/ Resolve(a) \/ Handle(a) PROVE IInv'
  BY <1>3, LookKeeps, ResolveKeeps, HandleKeeps
<1>4. ASSUME NEW addr \in Addrs, NEW node \in Nodes, Move(addr, node) PROVE IInv'
  BY <1>4, MoveKeeps
<1>5. CASE Write \/ UNCHANGED vars
  <2>1. UNCHANGED <<clock, owner, held, cache, front>>
    BY <1>5 DEF Write, vars, world
  <2> QED BY <2>1 DEF IInv, TypeOK, OwnersAreHeld, CacheIsOfALookup, LookupsAreRecent,
                       SettledAreFresh, OwnedSince
<1> QED BY <1>1, <1>2, <1>3, <1>4, <1>5, TickKeeps, RestartKeeps DEF Next

(* The strengthening is an invariant of the daemon, for any number of      *)
(* agents, addresses and nodes, any ttl, and lookups that take any time up *)
(* to a bound.                                                             *)
THEOREM InductiveInvariant == Spec => []IInv
<1>1. Init => IInv
  BY InitHolds
<1>2. IInv /\ [Next]_vars => IInv'
  BY NextKeeps
<1> QED BY <1>1, <1>2, PTL DEF Spec

(* The node recorded beside an author (server.rs:2536, whois.rs:126) is    *)
(* never older than a ttl and one lookup.                                  *)
THEOREM NodesAreFresh == Spec => []NodeIsFresh
<1>1. IInv => NodeIsFresh
  BY DEF IInv, SettledAreFresh, NodeIsFresh
<1> QED BY <1>1, InductiveInvariant, PTL

-----------------------------------------------------------------------------
(* What a fold of the model sums, step by step.                            *)

Sized(lines) ==
    /\ Len(lines) \in Nat /\ DOMAIN lines = 1 .. Len(lines)
    /\ \A i \in 1 .. Len(lines) : lines[i].bytes \in Nat

LEMMA BytesSteps ==
    ASSUME NEW lines, Sized(lines)
    PROVE  \E f \in [0 .. Len(lines) -> Nat] :
             /\ f[0] = 0
             /\ \A i \in 1 .. Len(lines) : f[i] = f[i - 1] + lines[i].bytes
             /\ Bytes(lines) = f[Len(lines)]
<1> DEFINE n == Len(lines)
           A == Nat
           step == [x \in Nat \X (1 .. n) |-> x[1] + lines[x[2]].bytes]
           Is(it) == it = [s \in SUBSET DOMAIN lines |-> IF s = {} THEN 0
                                ELSE it[s \ {Max(s)}] + lines[Max(s)].bytes]
           it == CHOOSE it : Is(it)
<1>1. n \in Nat /\ DOMAIN lines = 1 .. n /\ 0 \in A
  BY DEF Sized
<1>2. step \in [A \X (1 .. n) -> A]
  BY DEF Sized
<1>3. \A x \in Nat, i \in 1 .. n : step[<<x, i>>] = x + lines[i].bytes
  OBVIOUS
<1>s. Steps(n, A, 0, step)
  BY <1>1, <1>2 DEF Steps
<1>4. \E g : Is(g)
  <2>1. PICK g : IsFold(g, n, A, 0, step)
    BY ONLY <1>s, FoldExists, Zenon
  <2>2. ASSUME NEW s \in SUBSET (1 .. n), s # {}
        PROVE  g[s] = g[s \ {Max(s)}] + lines[Max(s)].bytes
    <3>1. Max(s) \in s
      BY <1>1, <2>2, MaxOfUpTo
    <3>2. g[s \ {Max(s)}] \in Nat
      BY <2>1 DEF IsFold
    <3>3. g[s] = step[<<g[s \ {Max(s)}], Max(s)>>]
      BY <2>1, <2>2 DEF IsFold
    <3> QED BY <3>1, <3>2, <3>3
  <2>3. g[{}] = 0 /\ g \in [SUBSET (1 .. n) -> Nat]
    BY <2>1 DEF IsFold
  <2> QED BY <1>1, <2>2, <2>3
<1>5. Is(it)
  BY <1>4
<1>6. Bytes(lines) = it[1 .. n]
  BY <1>1 DEF Bytes, FoldLeft, MapThenFoldSet
<1> HIDE DEF it
<1>7. it[{}] = 0 /\ \A s \in SUBSET (1 .. n) : s # {} => it[s] = it[s \ {Max(s)}] + lines[Max(s)].bytes
  BY <1>1, <1>5
<1> HIDE DEF step
<1>8. Folds(it, n, A, 0, step)
  BY <1>1, <1>3, <1>7, MaxOfUpTo DEF Folds
<1> HIDE DEF n, A, Is
<1>9. PICK f : Runs(f, it, n, A, 0, step)
  BY ONLY <1>s, <1>8, FoldRuns, Zenon
<1>10. /\ f \in [0 .. n -> Nat] /\ f[0] = 0 /\ Bytes(lines) = f[n]
       /\ \A i \in 1 .. n : f[i] = f[i - 1] + lines[i].bytes
  <2>1. \A i \in 1 .. n : i - 1 \in 0 .. n
    BY <1>1
  <2> QED BY <1>3, <1>6, <1>9, <2>1 DEF Runs, A
<1> QED BY <1>10, Zenon DEF n

LEMMA BytesAreNat == ASSUME NEW lines, Sized(lines) PROVE Bytes(lines) \in Nat
<1>1. PICK f \in [0 .. Len(lines) -> Nat] : Bytes(lines) = f[Len(lines)]
  BY BytesSteps
<1>2. Len(lines) \in 0 .. Len(lines)
  BY DEF Sized
<1> QED BY <1>1, <1>2

LEMMA BytesOfLines == ASSUME NEW lines \in Seq(Line) PROVE Sized(lines) /\ Bytes(lines) \in Nat
<1>1. \A i \in 1 .. Len(lines) : lines[i] \in Line
  OBVIOUS
<1>2. Sized(lines)
  BY <1>1 DEF Sized, Line
<1> QED BY <1>2, BytesAreNat

-----------------------------------------------------------------------------
(* Paths, and where the names of one lead (Canonical, fsops.rs:173).       *)

LEMMA CutPath ==
    ASSUME NEW p \in Paths, NEW n \in 0 .. Len(p)
    PROVE  /\ SubSeq(p, 1, n) \in Paths /\ Len(SubSeq(p, 1, n)) = n
           /\ \A i \in 1 .. n : SubSeq(p, 1, n)[i] = p[i]
BY SubSeqProperties DEF Paths

LEMMA UnderBy ==
    ASSUME NEW a \in Paths, NEW b \in Paths
    PROVE  Under(a, b) <=> Len(a) <= Len(b) /\ \A i \in 1 .. Len(a) : a[i] = b[i]
<1>1. Len(a) <= Len(b) => 
        /\ Len(a) \in 0 .. Len(b) /\ Len(a) \in 0 .. Len(a)
        /\ SubSeq(a, 1, Len(a)) \in Paths /\ SubSeq(b, 1, Len(a)) \in Paths
        /\ Len(SubSeq(a, 1, Len(a))) = Len(a) /\ Len(SubSeq(b, 1, Len(a))) = Len(a)
        /\ \A i \in 1 .. Len(a) : SubSeq(a, 1, Len(a))[i] = a[i] /\ SubSeq(b, 1, Len(a))[i] = b[i]
  <2>1. Len(a) <= Len(b) => Len(a) \in 0 .. Len(b) /\ Len(a) \in 0 .. Len(a)
    BY DEF Paths
  <2> QED BY <2>1, CutPath
<1>2. ASSUME Len(a) <= Len(b), \A i \in 1 .. Len(a) : a[i] = b[i]
      PROVE  SubSeq(a, 1, Len(a)) = SubSeq(b, 1, Len(a))
  <2> DEFINE x == SubSeq(a, 1, Len(a)) y == SubSeq(b, 1, Len(a))
  <2>1. x \in Paths /\ y \in Paths /\ Len(x) = Len(y) /\ \A i \in 1 .. Len(x) : x[i] = y[i]
    BY <1>1, <1>2
  <2> HIDE DEF x, y
  <2>2. x = y
    BY <2>1, SeqEqual DEF Paths
  <2> QED BY <2>2 DEF x, y
<1>3. ASSUME Len(a) <= Len(b), SubSeq(a, 1, Len(a)) = SubSeq(b, 1, Len(a)), NEW i \in 1 .. Len(a)
      PROVE  a[i] = b[i]
  <2>1. SubSeq(a, 1, Len(a))[i] = a[i] /\ SubSeq(b, 1, Len(a))[i] = b[i]
    BY <1>1, <1>3
  <2> QED BY <1>3, <2>1
<1> QED BY <1>2, <1>3 DEF Under, IsPrefix

LEMMA UnderItself == ASSUME NEW a \in Paths PROVE Under(a, a)
<1>1. Len(a) \in Nat
  BY DEF Paths
<1> QED BY <1>1, UnderBy

LEMMA UnderUnder ==
    ASSUME NEW a \in Paths, NEW b \in Paths, NEW c \in Paths, Under(a, b), Under(b, c)
    PROVE  Under(a, c)
<1>1. Len(a) \in Nat /\ Len(b) \in Nat /\ Len(c) \in Nat
  BY DEF Paths
<1>2. Len(a) <= Len(b) /\ \A i \in 1 .. Len(a) : a[i] = b[i]
  BY UnderBy
<1>3. Len(b) <= Len(c) /\ \A i \in 1 .. Len(b) : b[i] = c[i]
  BY UnderBy
<1>4. Len(a) <= Len(c) /\ \A i \in 1 .. Len(a) : a[i] = c[i]
  BY <1>1, <1>2, <1>3
<1> QED BY <1>4, UnderBy

LEMMA UnderConcat ==
    ASSUME NEW a \in Paths, NEW b \in Paths, NEW c \in Paths, Under(a, b)
    PROVE  Under(a, b \o c) /\ b \o c \in Paths
<1>1. /\ b \o c \in Paths /\ Len(b \o c) = Len(b) + Len(c)
      /\ \A i \in 1 .. Len(b) : (b \o c)[i] = b[i]
      /\ Len(a) \in Nat /\ Len(b) \in Nat /\ Len(c) \in Nat
  BY ConcatProperties DEF Paths
<1>2. Len(a) <= Len(b) /\ \A i \in 1 .. Len(a) : a[i] = b[i]
  BY UnderBy
<1>3. Len(a) <= Len(b \o c) /\ \A i \in 1 .. Len(a) : a[i] = (b \o c)[i]
  BY <1>1, <1>2
<1> QED BY <1>1, <1>3, UnderBy

(* What is below a path is longer.                                         *)
LEMMA BelowIsLonger ==
    ASSUME NEW a \in Paths, NEW b \in Paths, Below(a, b)
    PROVE  Len(a) < Len(b) /\ Under(a, b)
<1>1. Len(a) \in Nat /\ Len(b) \in Nat
  BY DEF Paths
<1>2. Under(a, b) /\ a # b
  BY DEF Below, Under, IsStrictPrefix
<1>3. Len(a) <= Len(b) /\ \A i \in 1 .. Len(a) : a[i] = b[i]
  BY <1>2, UnderBy
<1>4. Len(a) # Len(b)
  <2> SUFFICES ASSUME Len(a) = Len(b) PROVE FALSE
    OBVIOUS
  <2>1. a = b
    BY <1>3, SeqEqual DEF Paths
  <2> QED BY <2>1, <1>2
<1> QED BY <1>1, <1>2, <1>3, <1>4
-----------------------------------------------------------------------------
(* What an entry of a tree leads on to.                                    *)
Codes == {"internal", "not_readable", "not_found"}
Places(fs) ==
    {At(q) : q \in {r \in DOMAIN fs : fs[r].kind # "link"}} \cup {Error(c) : c \in Codes}

LEMMA PlaceIs ==
    ASSUME NEW fs, NEW at \in Places(fs)
    PROVE  /\ at.type \in {"error", "at"}
           /\ at.type = "error" => at \in {Error(c) : c \in Codes}
           /\ at.type = "at" => /\ at = At(at.path)
                                /\ at.path \in DOMAIN fs /\ fs[at.path].kind # "link"
BY DEF Places, At, Error

LEMMA EnterStays ==
    ASSUME NEW fs, IsTree(fs), NEW at \in Places(fs), NEW name
    PROVE  Enter(fs, at, name) \in Places(fs)
<1> DEFINE q == Append(at.path, name)
           end == IF q \in DOMAIN fs /\ fs[q].kind = "link" THEN fs[q].to ELSE q
<1>1. end \in DOMAIN fs => fs[end].kind # "link"
  BY DEF IsTree
<1>2. end \in DOMAIN fs => At(end) \in Places(fs)
  BY <1>1 DEF Places
<1>3. Error("internal") \in Places(fs) /\ Error("not_readable") \in Places(fs) /\ Error("not_found") \in Places(fs)
  BY DEF Places, Codes
<1> QED BY <1>2, <1>3 DEF Enter

LEMMA CanonicalSteps ==
    ASSUME NEW fs, IsTree(fs), NEW p \in Paths
    PROVE  \E f \in [0 .. Len(p) -> Places(fs)] :
             /\ f[0] = At(<<>>)
             /\ \A i \in 1 .. Len(p) : f[i] = Enter(fs, f[i - 1], p[i])
             /\ Canonical(fs, p) = f[Len(p)]
<1> DEFINE n == Len(p)
           A == Places(fs)
           base == At(<<>>)
           step == [x \in A \X (1 .. n) |-> Enter(fs, x[1], p[x[2]])]
           Is(it) == it = [s \in SUBSET DOMAIN p |-> IF s = {} THEN At(<<>>)
                             ELSE Enter(fs, it[s \ {Max(s)}], p[Max(s)])]
           it == CHOOSE it : Is(it)
<1>1. n \in Nat /\ DOMAIN p = 1 .. n /\ base \in A
  BY DEF Paths, IsTree, Places
<1>2. step \in [A \X (1 .. n) -> A]
  BY EnterStays
<1>3. \A x \in A, i \in 1 .. n : step[<<x, i>>] = Enter(fs, x, p[i])
  OBVIOUS
<1> HIDE DEF step
<1>s. Steps(n, A, base, step)
  BY <1>1, <1>2 DEF Steps
<1>4. \E g : Is(g)
  <2>1. PICK g : IsFold(g, n, A, base, step)
    BY ONLY <1>s, FoldExists, Zenon
  <2>2. ASSUME NEW s \in SUBSET (1 .. n), s # {}
        PROVE  g[s] = Enter(fs, g[s \ {Max(s)}], p[Max(s)])
    <3>1. Max(s) \in 1 .. n
      BY <1>1, <2>2, MaxOfUpTo
    <3>2. g[s \ {Max(s)}] \in A /\ g[s] = step[<<g[s \ {Max(s)}], Max(s)>>]
      BY <2>1, <2>2 DEF IsFold
    <3> HIDE DEF A
    <3> QED BY <3>1, <3>2, <1>3
  <2>3. g[{}] = At(<<>>) /\ g \in [SUBSET (1 .. n) -> A]
    BY <2>1 DEF IsFold
  <2> HIDE DEF A
  <2> QED BY <1>1, <2>2, <2>3
<1>5. Is(it)
  BY <1>4
<1>6. Canonical(fs, p) = it[1 .. n]
  BY <1>1 DEF Canonical, FoldLeft, MapThenFoldSet
<1> HIDE DEF it
<1>7. it[{}] = base /\ \A s \in SUBSET (1 .. n) : s # {} => it[s] = Enter(fs, it[s \ {Max(s)}], p[Max(s)])
  BY <1>1, <1>5
<1> HIDE DEF A, Is, base
<1>8. Folds(it, n, A, base, step)
  BY <1>1, <1>3, <1>7, MaxOfUpTo DEF Folds
<1>9. PICK f : Runs(f, it, n, A, base, step)
  BY ONLY <1>s, <1>8, FoldRuns, Zenon
<1>10. /\ f \in [0 .. n -> A] /\ f[0] = base /\ Canonical(fs, p) = f[n]
       /\ \A i \in 1 .. n : f[i] = Enter(fs, f[i - 1], p[i])
  <2>1. \A i \in 1 .. n : i - 1 \in 0 .. n
    BY <1>1
  <2> QED BY <1>3, <1>6, <1>9, <2>1 DEF Runs
<1> QED BY <1>10, Zenon DEF n, A, base

-----------------------------------------------------------------------------
(* What a path given by a caller resolves to: a place in the root that is  *)
(* not denied, or an error.                                                *)

LEMMA CanonicalPlace ==
    ASSUME NEW fs, IsTree(fs), NEW p \in Paths
    PROVE  Canonical(fs, p) \in Places(fs)
<1>1. PICK f \in [0 .. Len(p) -> Places(fs)] : Canonical(fs, p) = f[Len(p)]
  BY CanonicalSteps
<1>2. Len(p) \in 0 .. Len(p)
  BY DEF Paths
<1> QED BY <1>1, <1>2

(* Where p leads is where its last name leads from where the others do.    *)
LEMMA CanonicalOfLonger ==
    ASSUME NEW fs, IsTree(fs), NEW p \in Paths, NEW n \in 1 .. Len(p)
    PROVE  Canonical(fs, SubSeq(p, 1, n)) = Enter(fs, Canonical(fs, SubSeq(p, 1, n - 1)), p[n])
<1> DEFINE long == SubSeq(p, 1, n) short == SubSeq(p, 1, n - 1)
<1>1. n \in Nat /\ n - 1 \in Nat /\ n \in 0 .. Len(p) /\ n - 1 \in 0 .. Len(p)
  BY DEF Paths
<1>2. /\ long \in Paths /\ Len(long) = n /\ short \in Paths /\ Len(short) = n - 1
      /\ \A i \in 1 .. n : long[i] = p[i]
      /\ \A i \in 1 .. n - 1 : short[i] = p[i]
  BY <1>1, CutPath
<1> HIDE DEF long, short
<1>3. PICK f \in [0 .. n -> Places(fs)] :
        /\ f[0] = At(<<>>) /\ \A i \in 1 .. n : f[i] = Enter(fs, f[i - 1], long[i])
        /\ Canonical(fs, long) = f[n]
  <2>1. \E f \in [0 .. Len(long) -> Places(fs)] :
          /\ f[0] = At(<<>>) /\ \A i \in 1 .. Len(long) : f[i] = Enter(fs, f[i - 1], long[i])
          /\ Canonical(fs, long) = f[Len(long)]
    BY <1>2, CanonicalSteps
  <2> QED BY <2>1, <1>2
<1>4. PICK g \in [0 .. n - 1 -> Places(fs)] :
        /\ g[0] = At(<<>>) /\ \A i \in 1 .. n - 1 : g[i] = Enter(fs, g[i - 1], short[i])
        /\ Canonical(fs, short) = g[n - 1]
  <2>1. \E g \in [0 .. Len(short) -> Places(fs)] :
          /\ g[0] = At(<<>>) /\ \A i \in 1 .. Len(short) : g[i] = Enter(fs, g[i - 1], short[i])
          /\ Canonical(fs, short) = g[Len(short)]
    BY <1>2, CanonicalSteps
  <2> QED BY <2>1, <1>2
<1>5. f[n - 1] = g[n - 1]
  <2> DEFINE S == {i \in 0 .. n - 1 : f[i] = g[i]}
  <2>1. 0 \in S
    BY <1>1, <1>3, <1>4
  <2>2. ASSUME NEW i \in 1 .. n - 1, i - 1 \in S PROVE i \in S
    <3>1. f[i] = Enter(fs, f[i - 1], p[i]) /\ g[i] = Enter(fs, g[i - 1], p[i])
      BY <1>1, <1>2, <1>3, <1>4
    <3> QED BY <3>1, <2>2
  <2>3. 0 .. n - 1 \subseteq S
    <3> HIDE DEF S
    <3> QED BY <1>1, <2>1, <2>2, BoundedInduction
  <2>4. n - 1 \in S
    <3>1. n - 1 \in 0 .. n - 1
      BY <1>1
    <3> HIDE DEF S
    <3> QED BY <2>3, <3>1
  <2> QED BY <2>4
<1>6. n \in 1 .. n /\ long[n] = p[n]
  BY <1>1, <1>2
<1> QED BY <1>3, <1>4, <1>5, <1>6 DEF long, short

LEMMA CleanedIsAPath ==
    ASSUME NEW rel \in Paths
    PROVE  Cleaned(rel) \in Paths
<1> DEFINE n == Len(rel)
           A == Paths
           base == <<>>
           Put(names, name) == IF name = Dot THEN names ELSE Append(names, name)
           step == [x \in A \X (1 .. n) |-> Put(x[1], rel[x[2]])]
           Is(it) == it = [s \in SUBSET DOMAIN rel |-> IF s = {} THEN <<>>
                             ELSE Put(it[s \ {Max(s)}], rel[Max(s)])]
           it == CHOOSE it : Is(it)
<1>1. n \in Nat /\ DOMAIN rel = 1 .. n /\ base \in A
  BY DEF Paths
<1>2. step \in [A \X (1 .. n) -> A]
  <2>1. ASSUME NEW x \in A, NEW i \in 1 .. n PROVE Put(x, rel[i]) \in A
    <3>1. rel[i] \in STRING
      BY <1>1 DEF Paths
    <3>2. Append(x, rel[i]) \in A
      BY <3>1, AppendProperties DEF Paths
    <3> QED BY <3>2
  <2> HIDE DEF Put
  <2> QED BY <2>1
<1>3. \A x \in A, i \in 1 .. n : step[<<x, i>>] = Put(x, rel[i])
  OBVIOUS
<1> HIDE DEF step
<1>s. Steps(n, A, base, step)
  BY <1>1, <1>2 DEF Steps
<1>4. \E g : Is(g)
  <2>1. PICK g : IsFold(g, n, A, base, step)
    BY ONLY <1>s, FoldExists, Zenon
  <2>2. ASSUME NEW s \in SUBSET (1 .. n), s # {}
        PROVE  g[s] = Put(g[s \ {Max(s)}], rel[Max(s)])
    <3>1. Max(s) \in 1 .. n
      BY <1>1, <2>2, MaxOfUpTo
    <3>2. g[s \ {Max(s)}] \in A /\ g[s] = step[<<g[s \ {Max(s)}], Max(s)>>]
      BY <2>1, <2>2 DEF IsFold
    <3> HIDE DEF A, Put
    <3> QED BY <3>1, <3>2, <1>3
  <2>3. g[{}] = <<>> /\ g \in [SUBSET (1 .. n) -> A]
    BY <2>1 DEF IsFold
  <2> HIDE DEF A, Put
  <2> QED BY <1>1, <2>2, <2>3
<1>5. Is(it)
  BY <1>4
<1>6. Cleaned(rel) = it[1 .. n]
  BY <1>1 DEF Cleaned, FoldLeft, MapThenFoldSet
<1> HIDE DEF it, Put
<1>7. it[{}] = base /\ \A s \in SUBSET (1 .. n) : s # {} => it[s] = Put(it[s \ {Max(s)}], rel[Max(s)])
  BY <1>1, <1>5
<1> HIDE DEF A, Is, base, n
<1>8. Folds(it, n, A, base, step)
  BY <1>1, <1>3, <1>7, MaxOfUpTo DEF Folds
<1>9. PICK f : Runs(f, it, n, A, base, step)
  BY ONLY <1>s, <1>8, FoldRuns, Zenon
<1>10. n \in 0 .. n
  BY <1>1
<1> QED BY <1>6, <1>9, <1>10 DEF Runs, A

-----------------------------------------------------------------------------
(* The jail.                                                               *)
LEMMA JoinedIsAPath ==
    ASSUME NEW rel \in Paths PROVE Root \o Cleaned(rel) \in Paths /\ Under(Root, Root \o Cleaned(rel))
<1>1. Root \in Paths /\ Cleaned(rel) \in Paths
  BY AccessAssumption, CleanedIsAPath
<1> QED BY <1>1, UnderItself, UnderConcat

LEMMA ResolvedIs ==
    ASSUME NEW fs, IsTree(fs), NEW rel \in Paths,
           ResolveExisting(fs, rel).type # "error"
    PROVE  \E q \in DOMAIN fs :
             /\ ResolveExisting(fs, rel) = At(q)
             /\ fs[q].kind # "link" /\ Under(Root, q) /\ ~Denied(fs, q)
             /\ ~Denied(fs, Root \o Cleaned(rel)) /\ ~Escapes(rel)
<1> DEFINE joined == Root \o Cleaned(rel)
           at == Canonical(fs, joined)
<1>1. at \in Places(fs)
  BY JoinedIsAPath, CanonicalPlace
<1>2. /\ ~Escapes(rel) /\ ~Denied(fs, joined)
      /\ ResolveExisting(fs, rel) = Jailed(fs, at)
      /\ at.type # "error" /\ Under(Root, at.path) /\ ~Denied(fs, at.path)
      /\ Jailed(fs, at) = at
  BY DEF ResolveExisting, Jailed, Error
<1>3. at = At(at.path) /\ at.path \in DOMAIN fs /\ fs[at.path].kind # "link"
  BY <1>1, <1>2, PlaceIs
<1> QED BY <1>2, <1>3

LEMMA ResolveFails ==
    ASSUME NEW fs, IsTree(fs), NEW rel \in Paths,
           ResolveExisting(fs, rel).type = "error"
    PROVE  ResolveExisting(fs, rel) \in {Error(c) : c \in Codes \cup {"refused", "outside_root"}}
<1> DEFINE joined == Root \o Cleaned(rel)
           at == Canonical(fs, joined)
<1>1. at \in Places(fs)
  BY JoinedIsAPath, CanonicalPlace
<1>2. at.type = "error" => at \in {Error(c) : c \in Codes}
  BY <1>1, PlaceIs
<1> QED BY <1>2 DEF ResolveExisting, Jailed

-----------------------------------------------------------------------------
(* What exists is not reached through a link.                              *)

LEMMA CutIn ==
    ASSUME NEW fs, IsTree(fs), NEW p \in DOMAIN fs, NEW n \in 0 .. Len(p) - 1
    PROVE  /\ p \in Paths /\ SubSeq(p, 1, n) \in DOMAIN fs /\ fs[SubSeq(p, 1, n)].kind = "dir"
BY DEF IsTree

LEMMA ThereIsReal ==
    ASSUME NEW fs, IsTree(fs), NEW p \in DOMAIN fs
    PROVE  IsReal(fs, p)
<1>1. ASSUME NEW n \in 0 .. Len(p) - 1 PROVE fs[SubSeq(p, 1, n)].kind # "link"
  BY CutIn
<1> QED BY <1>1 DEF IsReal

LEMMA RootLeadsToItself ==
    ASSUME NEW fs, IsTree(fs) PROVE Canonical(fs, <<>>) = At(<<>>)
<1>1. <<>> \in Paths /\ Len(<<>>) = 0
  BY DEF Paths
<1>2. \E f \in [0 .. Len(<<>>) -> Places(fs)] : f[0] = At(<<>>) /\ Canonical(fs, <<>>) = f[Len(<<>>)]
  BY <1>1, CanonicalSteps
<1> QED BY <1>1, <1>2

LEMMA DeepestIs ==
    ASSUME NEW fs, IsTree(fs), NEW p \in Paths, p # <<>>
    PROVE  LET n == DeepestExisting(fs, p) IN
           /\ n \in 0 .. Len(p) - 1
           /\ Canonical(fs, SubSeq(p, 1, n)).type = "at"
           /\ \A m \in n + 1 .. Len(p) - 1 : Canonical(fs, SubSeq(p, 1, m)).type # "at"
<1> DEFINE s == {n \in 0 .. Len(p) - 1 : Canonical(fs, SubSeq(p, 1, n)).type = "at"}
<1>1. Len(p) \in Nat /\ Len(p) # 0 /\ SubSeq(p, 1, 0) = <<>>
  <2>1. Len(p) \in Nat /\ Len(p) # 0
    BY EmptySeq DEF Paths
  <2>2. SubSeq(p, 1, 0) \in Paths /\ Len(SubSeq(p, 1, 0)) = 0
    BY <2>1, CutPath
  <2>3. SubSeq(p, 1, 0) = <<>>
    BY <2>2, EmptySeq DEF Paths
  <2> QED BY <2>1, <2>3
<1>2. 0 \in s
  <2>1. Canonical(fs, SubSeq(p, 1, 0)).type = "at"
    <3>1. Canonical(fs, SubSeq(p, 1, 0)) = At(<<>>)
      BY <1>1, RootLeadsToItself, Zenon
    <3> QED BY <3>1 DEF At
  <2>2. 0 \in 0 .. Len(p) - 1
    BY <1>1
  <2> QED BY <2>1, <2>2
<1>3. Len(p) - 1 \in Nat /\ s \subseteq 0 .. Len(p) - 1
  BY <1>1
<1>4. Max(s) \in s /\ \A x \in s : x <= Max(s)
  <2>1. s # {}
    BY <1>2
  <2> HIDE DEF s
  <2> QED BY ONLY <2>1, <1>3, MaxOfNumbers, Zenon
<1>5. DeepestExisting(fs, p) = Max(s)
  BY DEF DeepestExisting
<1>6. ASSUME NEW m \in Max(s) + 1 .. Len(p) - 1
      PROVE  Canonical(fs, SubSeq(p, 1, m)).type # "at"
  <2>1. Max(s) \in 0 .. Len(p) - 1
    BY <1>3, <1>4
  <2>2. m \in 0 .. Len(p) - 1 /\ ~(m <= Max(s))
    BY <1>1, <2>1
  <2>3. m \notin s
    BY <1>4, <2>2, Zenon
  <2> QED BY <2>2, <2>3
<1>7. /\ Max(s) \in 0 .. Len(p) - 1
      /\ Canonical(fs, SubSeq(p, 1, Max(s))).type = "at"
  BY <1>4
<1> HIDE DEF s
<1> QED BY <1>5, <1>6, <1>7, Zenon

(* A place put together from a real one and names is cut where it was.     *)
LEMMA CutJoined ==
    ASSUME NEW real \in Paths, NEW rest \in Paths, rest # <<>>
    PROVE  LET out == real \o rest IN
           /\ out \in Paths /\ Len(out) = Len(real) + Len(rest)
           /\ \A m \in 0 .. Len(real) : SubSeq(out, 1, m) = SubSeq(real, 1, m)
           /\ SubSeq(out, 1, Len(real)) = real
           /\ SubSeq(out, 1, Len(real) + 1) = Append(real, rest[1])
<1> DEFINE out == real \o rest
<1>1. /\ out \in Paths /\ Len(out) = Len(real) + Len(rest)
      /\ \A i \in 1 .. Len(real) : out[i] = real[i]
      /\ \A i \in 1 .. Len(rest) : out[Len(real) + i] = rest[i]
      /\ Len(real) \in Nat /\ Len(rest) \in Nat /\ Len(rest) # 0
  BY ConcatProperties DEF Paths
<1> HIDE DEF out
<1>2. ASSUME NEW m \in 0 .. Len(real) PROVE SubSeq(out, 1, m) = SubSeq(real, 1, m)
  <2>1. m \in 0 .. Len(out)
    BY <1>1
  <2>2. /\ SubSeq(out, 1, m) \in Paths /\ Len(SubSeq(out, 1, m)) = m
        /\ SubSeq(real, 1, m) \in Paths /\ Len(SubSeq(real, 1, m)) = m
        /\ \A i \in 1 .. m : SubSeq(out, 1, m)[i] = out[i] /\ SubSeq(real, 1, m)[i] = real[i]
    BY <1>1, <2>1, CutPath
  <2>3. \A i \in 1 .. m : out[i] = real[i]
    BY <1>1
  <2> QED BY <2>2, <2>3, SeqEqual DEF Paths
<1>3. SubSeq(real, 1, Len(real)) = real
  BY SubSeqFull DEF Paths
<1>4. SubSeq(out, 1, Len(real) + 1) = Append(real, rest[1])
  <2>1. Len(real) + 1 \in 0 .. Len(out) /\ 1 \in 1 .. Len(rest) /\ rest[1] \in STRING
    BY <1>1 DEF Paths
  <2>2. /\ SubSeq(out, 1, Len(real) + 1) \in Paths
        /\ Len(SubSeq(out, 1, Len(real) + 1)) = Len(real) + 1
        /\ \A i \in 1 .. Len(real) + 1 : SubSeq(out, 1, Len(real) + 1)[i] = out[i]
    BY <1>1, <2>1, CutPath
  <2>3. /\ Append(real, rest[1]) \in Paths /\ Len(Append(real, rest[1])) = Len(real) + 1
        /\ \A i \in 1 .. Len(real) : Append(real, rest[1])[i] = real[i]
        /\ Append(real, rest[1])[Len(real) + 1] = rest[1]
    BY <2>1, AppendProperties DEF Paths
  <2>4. out[Len(real) + 1] = rest[1]
    BY <1>1, <2>1
  <2>5. \A i \in 1 .. Len(real) + 1 : SubSeq(out, 1, Len(real) + 1)[i] = Append(real, rest[1])[i]
    BY <1>1, <2>2, <2>3, <2>4
  <2> QED BY <2>2, <2>3, <2>5, SeqEqual DEF Paths
<1>5. Len(real) \in 0 .. Len(real)
  BY <1>1
<1> QED BY <1>1, <1>2, <1>3, <1>4, <1>5 DEF out

-----------------------------------------------------------------------------
(* Where a create may land: beneath the deepest place there is, or nowhere *)
(* at all.                                                                 *)

LEMMA CutOfCut ==
    ASSUME NEW p \in Paths, NEW m \in 0 .. Len(p), NEW k \in 0 .. m
    PROVE  SubSeq(SubSeq(p, 1, m), 1, k) = SubSeq(p, 1, k)
<1>1. Len(p) \in Nat /\ m \in Nat /\ k \in Nat /\ k \in 0 .. Len(p)
  BY DEF Paths
<1>2. /\ SubSeq(p, 1, m) \in Paths /\ Len(SubSeq(p, 1, m)) = m
      /\ \A i \in 1 .. m : SubSeq(p, 1, m)[i] = p[i]
  BY CutPath
<1>3. /\ SubSeq(p, 1, k) \in Paths /\ Len(SubSeq(p, 1, k)) = k
      /\ \A i \in 1 .. k : SubSeq(p, 1, k)[i] = p[i]
  BY <1>1, CutPath
<1> DEFINE cut == SubSeq(p, 1, m)
<1>4. cut \in Paths /\ k \in 0 .. Len(cut) /\ \A i \in 1 .. k : cut[i] = p[i]
  BY <1>1, <1>2
<1> HIDE DEF cut
<1>5. /\ SubSeq(cut, 1, k) \in Paths /\ Len(SubSeq(cut, 1, k)) = k
      /\ \A i \in 1 .. k : SubSeq(cut, 1, k)[i] = cut[i]
  BY <1>4, CutPath
<1>6. SubSeq(cut, 1, k) = SubSeq(p, 1, k)
  BY <1>1, <1>3, <1>4, <1>5, SeqEqual DEF Paths
<1> QED BY <1>6 DEF cut

(* The names after the first n.                                            *)
LEMMA RestOf ==
    ASSUME NEW p \in Paths, NEW n \in 0 .. Len(p) - 1
    PROVE  LET rest == SubSeq(p, n + 1, Len(p)) IN
           /\ rest \in Paths /\ rest # <<>> /\ Len(rest) = Len(p) - n /\ rest[1] = p[n + 1]
<1>1. Len(p) \in Nat /\ n + 1 \in 1 .. Len(p) + 1 /\ Len(p) \in n + 1 - 1 .. Len(p)
  BY DEF Paths
<1>2. /\ SubSeq(p, n + 1, Len(p)) \in Paths
      /\ Len(SubSeq(p, n + 1, Len(p))) = Len(p) - n
      /\ SubSeq(p, n + 1, Len(p))[1] = p[n + 1]
  BY <1>1, SubSeqProperties DEF Paths
<1>3. Len(SubSeq(p, n + 1, Len(p))) # 0
  <2>1. Len(p) - n # 0
    BY <1>1
  <2> QED BY <1>2, <2>1, Zenon
<1>4. SubSeq(p, n + 1, Len(p)) # <<>>
  BY <1>3, EmptySeq, Zenon
<1> QED BY <1>2, <1>4

(* Nothing is beneath what is no directory, or is not there.               *)
LEMMA NothingBeneath ==
    ASSUME NEW fs, IsTree(fs), NEW p \in Paths, NEW m \in 0 .. Len(p), NEW k \in 0 .. m - 1,
           SubSeq(p, 1, m) \in DOMAIN fs
    PROVE  SubSeq(p, 1, k) \in DOMAIN fs /\ fs[SubSeq(p, 1, k)].kind = "dir"
<1>1. Len(p) \in Nat /\ m \in Nat /\ k \in 0 .. m
  BY DEF Paths
<1>2. Len(SubSeq(p, 1, m)) = m
  BY CutPath
<1>3. SubSeq(SubSeq(p, 1, m), 1, k) = SubSeq(p, 1, k)
  BY <1>1, CutOfCut
<1> DEFINE q == SubSeq(p, 1, m)
<1>4. k \in 0 .. Len(q) - 1 /\ q \in DOMAIN fs
  BY <1>2
<1> HIDE DEF q
<1>5. SubSeq(q, 1, k) \in DOMAIN fs /\ fs[SubSeq(q, 1, k)].kind = "dir"
  BY <1>4, CutIn
<1> QED BY <1>3, <1>5 DEF q

(* Names after a place that is there, where the first of them leads        *)
(* nowhere unless it is the last: all that is there is no link, or a       *)
(* create is blocked.                                                      *)
LEMMA NamesAfter ==
    ASSUME NEW fs, IsTree(fs), NEW real \in DOMAIN fs, fs[real].kind # "link",
           NEW rest \in Paths, rest # <<>>,
           Len(rest) > 1 => Enter(fs, At(real), rest[1]).type # "at"
    PROVE  IsReal(fs, real \o rest) \/ Blocked(fs, real \o rest)
<1> DEFINE out == real \o rest
           q == Append(real, rest[1])
           l == Len(real)
<1>1. real \in Paths /\ l \in Nat /\ Len(rest) \in Nat
  BY DEF IsTree, Paths
<1>2. /\ out \in Paths /\ Len(out) = l + Len(rest)
      /\ \A m \in 0 .. l : SubSeq(out, 1, m) = SubSeq(real, 1, m)
      /\ SubSeq(out, 1, l) = real
      /\ SubSeq(out, 1, l + 1) = q
  BY <1>1, CutJoined
<1>3. Len(rest) # 0
  BY EmptySeq DEF Paths
<1> HIDE DEF out
<1>4. SUFFICES ASSUME ~Blocked(fs, out) PROVE IsReal(fs, out)
  BY DEF out
<1>5. SUFFICES ASSUME NEW m \in 0 .. Len(out) - 1, SubSeq(out, 1, m) \in DOMAIN fs
               PROVE  fs[SubSeq(out, 1, m)].kind # "link"
  BY DEF IsReal
<1>6. CASE m < l
  <2>1. m \in 0 .. l - 1 /\ m \in 0 .. l
    BY <1>1, <1>6
  <2>2. fs[SubSeq(real, 1, m)].kind = "dir"
    BY <2>1, CutIn
  <2> QED BY <2>1, <2>2, <1>2
<1>7. CASE m = l
  BY <1>7, <1>2
<1>8. CASE m > l
  <2>1. /\ l \in 0 .. Len(out) - 1 /\ l \in 0 .. m - 1 /\ m \in 0 .. Len(out)
        /\ l + 1 \in 0 .. Len(out) - 1 /\ l + 1 \in 0 .. m /\ Len(rest) > 1
    BY <1>1, <1>2, <1>3, <1>8
  <2>2. fs[real].kind = "dir"
    <3>1. fs[SubSeq(out, 1, l)].kind = "dir"
      BY <2>1, <1>2, <1>5, NothingBeneath
    <3> QED BY <3>1, <1>2
  <2>3. fs[real].open
    BY <2>1, <2>2, <1>2, <1>4 DEF Blocked
  <2>4. ~(q \in DOMAIN fs /\ fs[q].kind = "link" /\ fs[q].to \notin DOMAIN fs)
    BY <2>1, <1>2, <1>4 DEF Blocked
  <2>5. Enter(fs, At(real), rest[1]).type # "at"
    BY <2>1
  <2>6. q \notin DOMAIN fs
    BY <2>2, <2>3, <2>4, <2>5 DEF Enter, At
  <2>7. m # l + 1
    BY <2>6, <1>2, <1>5
  <2>8. l + 1 \in 0 .. m - 1
    BY <2>1, <2>7, <1>1, <1>8
  <2>9. q \in DOMAIN fs
    <3>1. SubSeq(out, 1, l + 1) \in DOMAIN fs
      BY <2>1, <2>8, <1>2, <1>5, NothingBeneath
    <3> QED BY <3>1, <1>2
  <2> QED BY <2>6, <2>9
<1> QED BY <1>1, <1>6, <1>7, <1>8

LEMMA CreatableIs ==
    ASSUME NEW fs, IsTree(fs), NEW rel \in Paths,
           ResolveCreatable(fs, rel).type # "error"
    PROVE  \E out \in Paths :
             /\ ResolveCreatable(fs, rel) = At(out)
             /\ Under(Root, out) /\ ~Denied(fs, out)
             /\ IsReal(fs, out) \/ Blocked(fs, out)
<1> DEFINE joined == Root \o Cleaned(rel)
           n == DeepestExisting(fs, joined)
           at == Canonical(fs, SubSeq(joined, 1, n))
           rest == SubSeq(joined, n + 1, Len(joined))
<1>1. joined \in Paths /\ Under(Root, joined) /\ Root \in Paths
  BY JoinedIsAPath, AccessAssumption
<1>2. joined # Root /\ ResolveCreatable(fs, rel) = Creatable(fs, at.path, rest)
  BY DEF ResolveCreatable, Error
<1> HIDE DEF joined
<1>3. joined # <<>>
  <2> SUFFICES ASSUME joined = <<>> PROVE FALSE
    OBVIOUS
  <2>1. Len(joined) = 0 /\ Len(Root) \in Nat
    BY <1>1, EmptySeq DEF Paths
  <2>2. Len(Root) <= Len(joined)
    BY <1>1, UnderBy
  <2>3. Len(Root) = 0
    BY <2>1, <2>2
  <2>4. Root = <<>>
    BY <2>3, <1>1, EmptySeq DEF Paths
  <2> QED BY <2>4, <1>2
<1>4. /\ n \in 0 .. Len(joined) - 1 /\ at.type = "at"
      /\ \A m \in n + 1 .. Len(joined) - 1 : Canonical(fs, SubSeq(joined, 1, m)).type # "at"
  BY <1>1, <1>3, DeepestIs
<1>5. Len(joined) \in Nat /\ n \in Nat /\ n \in 0 .. Len(joined)
  BY <1>1, <1>4 DEF Paths
<1>6. at \in Places(fs)
  <2>1. SubSeq(joined, 1, n) \in Paths
    BY <1>1, <1>5, CutPath
  <2> QED BY <2>1, CanonicalPlace
<1>7. at = At(at.path) /\ at.path \in DOMAIN fs /\ fs[at.path].kind # "link"
  BY <1>4, <1>6, PlaceIs
<1>8. rest \in Paths /\ rest # <<>> /\ Len(rest) = Len(joined) - n /\ rest[1] = joined[n + 1]
  BY <1>1, <1>4, RestOf
<1>9. Len(rest) > 1 => Enter(fs, At(at.path), rest[1]).type # "at"
  <2> SUFFICES ASSUME Len(rest) > 1 PROVE Enter(fs, At(at.path), rest[1]).type # "at"
    OBVIOUS
  <2>1. n + 1 \in 1 .. Len(joined) /\ n + 1 \in n + 1 .. Len(joined) - 1 /\ (n + 1) - 1 = n
    <3> DEFINE l == Len(joined)
               k == Len(rest)
    <3>1. l \in Nat /\ n \in Nat /\ k = l - n /\ k > 1
      BY <1>5, <1>8
    <3> HIDE DEF l, k
    <3>2. n + 1 \in 1 .. l /\ n + 1 \in n + 1 .. l - 1 /\ (n + 1) - 1 = n
      BY ONLY <3>1
    <3> QED BY <3>2 DEF l
  <2>2. Canonical(fs, SubSeq(joined, 1, n + 1)) = Enter(fs, Canonical(fs, SubSeq(joined, 1, (n + 1) - 1)), joined[n + 1])
    BY <2>1, <1>1, CanonicalOfLonger
  <2>3. Canonical(fs, SubSeq(joined, 1, n + 1)).type # "at"
    BY <2>1, <1>4
  <2>4. Canonical(fs, SubSeq(joined, 1, n + 1)) = Enter(fs, At(at.path), rest[1])
    BY <2>1, <2>2, <1>7, <1>8
  <2> QED BY <2>3, <2>4
<1>10. at.path \in Paths
  BY <1>7 DEF IsTree
<1>11. IsReal(fs, at.path \o rest) \/ Blocked(fs, at.path \o rest)
  BY <1>7, <1>8, <1>9, NamesAfter
<1> HIDE DEF at, rest, n
<1>12. /\ Under(Root, at.path) /\ ~Denied(fs, at.path \o rest)
       /\ ResolveCreatable(fs, rel) = At(at.path \o rest)
  BY <1>2 DEF Creatable, Error
<1>13. Under(Root, at.path \o rest) /\ at.path \o rest \in Paths
  BY <1>1, <1>8, <1>10, <1>12, UnderConcat
<1> QED BY <1>11, <1>12, <1>13

-----------------------------------------------------------------------------
(* The lines a mode asks for, and those of them that fit.                  *)

LEMMA SomeLines ==
    ASSUME NEW lines \in Seq(Line)
    PROVE  /\ Len(lines) \in Nat /\ DOMAIN lines = 1 .. Len(lines)
           /\ \A i \in 1 .. Len(lines) :
                 lines[i].bytes \in Nat \ {0}
                 /\ lines[i].kind \in {"plain", "hit", "secret", "marker", "sealed"}
           /\ lines # <<>> => Len(lines) # 0
<1>1. \A i \in 1 .. Len(lines) : lines[i] \in Line
  OBVIOUS
<1>2. lines # <<>> => Len(lines) # 0
  BY EmptySeq
<1> QED BY <1>1, <1>2 DEF Line

(* The lines the pattern is in, from the first to the last.                *)
LEMMA HitsAre ==
    ASSUME NEW lines \in Seq(Line)
    PROVE  LET hits == Hits(lines) IN
           /\ hits \in Seq(Matching(lines)) /\ Len(hits) \in Nat
           /\ \A k \in 1 .. Len(hits) : hits[k] \in 1 .. Len(lines)
           /\ \A i \in Matching(lines) : \E k \in 1 .. Len(hits) : hits[k] = i
<1> DEFINE key == [i \in DOMAIN lines |-> i]
<1>1. DOMAIN lines = 1 .. Len(lines) /\ Len(lines) \in Nat
  BY SomeLines
<1>2. Matching(lines) \in SUBSET (1 .. Len(lines))
  BY <1>1 DEF Matching
<1>3. IsFiniteSet(Matching(lines))
  <2>1. IsFiniteSet(1 .. Len(lines))
    BY <1>1, FS_Interval
  <2> QED BY <1>2, <2>1, FS_Subset
<1>4. Keyed(Matching(lines), key)
  BY <1>1, <1>2 DEF Keyed
<1> HIDE DEF key
<1>5. LET out == SortedBy(Matching(lines), key) IN
      /\ out \in Seq(Matching(lines)) /\ Len(out) = Cardinality(Matching(lines))
      /\ Cardinality(Matching(lines)) \in Nat
      /\ \A i \in 1 .. Len(out) : out[i] \in Matching(lines)
      /\ \A x \in Matching(lines) : \E i \in 1 .. Len(out) : out[i] = x
  BY <1>3, <1>4, SortedIs
<1>6. Hits(lines) = SortedBy(Matching(lines), key)
  BY DEF Hits, key
<1> QED BY <1>2, <1>5, <1>6

IsSpan(lines, asked) ==
    /\ asked.type = "lines"
    /\ asked.start \in 1 .. Len(lines) /\ asked.end \in asked.start .. Len(lines)

LEMMA AroundIs ==
    ASSUME NEW lines, Len(lines) \in Nat, NEW l \in 1 .. Len(lines), NEW context \in Nat
    PROVE  IsSpan(lines, Around(l, context, Len(lines)))
BY DEF IsSpan, Around, AtMost

LEMMA AskedIs ==
    ASSUME NEW lines \in Seq(Line), lines # <<>>, NEW mode \in Modes
    PROVE  LET asked == Asked(lines, mode) IN
           /\ asked.type = "error" \/ IsSpan(lines, asked)
           /\ asked.type # "error" /\ mode.type = "whole" =>
                 asked.start = 1 /\ asked.end = Len(lines)
           /\ asked.type # "error" /\ mode.type = "range" =>
                 asked.start = mode.start /\ asked.end = AtMost(mode.end, Len(lines))
<1>1. Len(lines) \in Nat /\ Len(lines) # 0
  BY SomeLines
<1>2. CASE mode = Whole
  BY <1>1, <1>2 DEF Asked, Whole, IsSpan
<1>3. CASE mode \in [type : {"range"}, start : Nat, end : Nat]
  <2>1. mode.start \in Nat /\ mode.end \in Nat /\ mode.type = "range"
    BY <1>3
  <2>2. CASE mode.start = 0 \/ mode.end < mode.start \/ mode.start > Len(lines)
    BY <2>1, <2>2 DEF Asked, Error
  <2>3. CASE ~(mode.start = 0 \/ mode.end < mode.start \/ mode.start > Len(lines))
    <3>1. Asked(lines, mode) = [type |-> "lines", start |-> mode.start, end |-> AtMost(mode.end, Len(lines))]
      BY <2>1, <2>3 DEF Asked
    <3>2. AtMost(mode.end, Len(lines)) \in mode.start .. Len(lines) /\ mode.start \in 1 .. Len(lines)
      BY <1>1, <2>1, <2>3 DEF AtMost
    <3> QED BY <2>1, <3>1, <3>2 DEF IsSpan
  <2> QED BY <2>2, <2>3
<1>4. CASE mode \in [type : {"line"}, line : Nat, context : Nat]
  <2>1. mode.line \in Nat /\ mode.context \in Nat /\ mode.type = "line"
    BY <1>4
  <2>2. CASE mode.line \notin 1 .. Len(lines)
    BY <2>1, <2>2 DEF Asked, Error
  <2>3. CASE mode.line \in 1 .. Len(lines)
    <3>1. IsSpan(lines, Around(mode.line, mode.context, Len(lines)))
      BY <1>1, <2>1, <2>3, AroundIs
    <3> QED BY <2>1, <2>3, <3>1 DEF Asked, IsSpan
  <2> QED BY <2>2, <2>3
<1>5. ASSUME NEW k \in 1 .. Len(Hits(lines)), mode.context \in Nat
      PROVE  IsSpan(lines, Around(Hits(lines)[k], mode.context, Len(lines)))
  <2>1. Hits(lines)[k] \in 1 .. Len(lines)
    BY HitsAre
  <2> QED BY <1>1, <1>5, <2>1, AroundIs
<1>6. CASE mode \in [type : {"anchor"}, context : Nat]
  <2> DEFINE n == Len(Hits(lines))
  <2>1. mode.context \in Nat /\ mode.type = "anchor" /\ n \in Nat
    BY <1>6, HitsAre
  <2>2. Asked(lines, mode) = IF n = 0 THEN Error("anchor_not_found")
              ELSE IF n > 1 THEN Error("ambiguous_anchor")
              ELSE Around(Hits(lines)[1], mode.context, Len(lines))
    BY <2>1 DEF Asked
  <2>3. CASE n = 0 \/ n > 1
    BY <2>1, <2>2, <2>3 DEF Error
  <2>4. CASE ~(n = 0 \/ n > 1)
    <3>1. 1 \in 1 .. n
      BY <2>1, <2>4
    <3>2. IsSpan(lines, Around(Hits(lines)[1], mode.context, Len(lines)))
      BY <1>5, <2>1, <3>1
    <3> QED BY <2>1, <2>2, <2>4, <3>2 DEF IsSpan
  <2> QED BY <2>3, <2>4
<1>7. CASE mode \in [type : {"occurrence"}, nth : Nat, context : Nat]
  <2> DEFINE n == Len(Hits(lines))
             k == mode.nth
  <2>1. k \in Nat /\ mode.context \in Nat /\ mode.type = "occurrence" /\ n \in Nat
    BY <1>7, HitsAre
  <2>2. Asked(lines, mode) = IF n = 0 THEN Error("anchor_not_found")
              ELSE IF k \notin 1 .. n THEN Error("invalid_input")
              ELSE Around(Hits(lines)[k], mode.context, Len(lines))
    BY <2>1 DEF Asked
  <2>3. CASE n = 0 \/ k \notin 1 .. n
    BY <2>1, <2>2, <2>3 DEF Error
  <2>4. CASE ~(n = 0 \/ k \notin 1 .. n)
    <3>1. IsSpan(lines, Around(Hits(lines)[k], mode.context, Len(lines)))
      BY <1>5, <2>1, <2>4
    <3> QED BY <2>1, <2>2, <2>4, <3>1 DEF IsSpan
  <2> QED BY <2>3, <2>4
<1> QED BY <1>2, <1>3, <1>4, <1>6, <1>7 DEF Modes

(* A slice is a page of the span asked for, that ends early if a longer    *)
(* one would not fit, and whose first line only may be too long.           *)
IsSlice(loaded, page, start, end, last, budget) ==
    /\ page = PageOf(loaded, start, end, last, budget)
    /\ start \in 1 .. Len(loaded.lines) /\ end \in start .. Len(loaded.lines)
    /\ last \in start .. end
    /\ last # start => Bytes(SubSeq(loaded.lines, start, last)) <= budget

LEMMA SliceIs ==
    ASSUME NEW loaded, loaded.lines \in Seq(Line), NEW mode \in Modes, NEW budget \in Nat,
           Slice(loaded, mode, budget).type # "error"
    PROVE  LET page == Slice(loaded, mode, budget) IN
           \/ loaded.lines = <<>> /\ page = PageOf(loaded, 1, 0, 0, budget)
           \/ \E start, end, last :
                 /\ IsSlice(loaded, page, start, end, last, budget)
                 /\ mode.type = "whole" => start = 1 /\ end = Len(loaded.lines)
                 /\ mode.type = "range" => start = mode.start /\ end = AtMost(mode.end, Len(loaded.lines))
<1> DEFINE lines == loaded.lines
           asked == Asked(lines, mode)
           Fits(n) == Bytes(SubSeq(lines, asked.start, n)) <= budget
           S == {asked.start} \cup {n \in asked.start .. asked.end : Fits(n)}
<1>1. asked.type # "error"
  BY DEF Slice, SliceAsked
<1>2. CASE lines = <<>>
  BY <1>1, <1>2 DEF Slice, SliceAsked
<1>3. CASE lines # <<>>
  <2>1. /\ IsSpan(lines, asked)
        /\ mode.type = "whole" => asked.start = 1 /\ asked.end = Len(lines)
        /\ mode.type = "range" => asked.start = mode.start /\ asked.end = AtMost(mode.end, Len(lines))
    BY <1>1, <1>3, AskedIs
  <2>2. Slice(loaded, mode, budget) = PageOf(loaded, asked.start, asked.end, Max(S), budget)
    BY <1>1, <1>3 DEF Slice, SliceAsked
  <2>3. /\ asked.start \in 1 .. Len(lines) /\ asked.end \in asked.start .. Len(lines)
        /\ Len(lines) \in Nat
    BY <2>1, SomeLines DEF IsSpan
  <2> HIDE DEF asked, Fits
  <2>4. S \subseteq 0 .. asked.end /\ asked.end \in Nat /\ S # {}
    BY <2>3
  <2>5. Max(S) \in S
    <3> HIDE DEF S
    <3> QED BY <2>4, MaxOfNumbers
  <2>6. Max(S) \in asked.start .. asked.end /\ (Max(S) # asked.start => Fits(Max(S)))
    BY <2>3, <2>5
  <2> HIDE DEF S
  <2>7. IsSlice(loaded, Slice(loaded, mode, budget), asked.start, asked.end, Max(S), budget)
    BY <2>2, <2>3, <2>6 DEF IsSlice, Fits
  <2> QED BY <2>1, <2>7
<1> QED BY <1>2, <1>3

-----------------------------------------------------------------------------
(* What is loaded of a file: never of one that is marked, and a classified *)
(* one only with its values sealed.                                        *)

LEMMA RenderingIs ==
    ASSUME NEW v \in DOMAIN Contents, NEW redacted \in BOOLEAN
    PROVE  LET lines == Rendering(v, redacted) IN
           /\ lines \in Seq(Line) /\ Len(lines) = Len(Contents[v].lines)
           /\ redacted => \A i \in 1 .. Len(lines) : lines[i].kind # "secret"
<1> DEFINE all == Contents[v].lines
<1>1. all \in Seq(Line)
  BY AccessAssumption
<1>2. /\ Len(all) \in Nat /\ DOMAIN all = 1 .. Len(all)
      /\ \A i \in 1 .. Len(all) : all[i] \in Line
  BY <1>1
<1>3. [bytes |-> SealedBytes, kind |-> "sealed"] \in Line
  BY AccessAssumption DEF Line
<1> HIDE DEF all
<1>4. /\ Redacted(all) \in Seq(Line) /\ Len(Redacted(all)) = Len(all)
      /\ \A i \in 1 .. Len(all) : Redacted(all)[i].kind # "secret"
  BY <1>2, <1>3 DEF Redacted
<1> QED BY <1>1, <1>4 DEF Rendering, all

(* What may be shown of the content of a file.                             *)
IsLoaded(fs, loaded) ==
    LET v == loaded.version IN
    /\ loaded.type = "loaded" /\ loaded.path \in DOMAIN fs
    /\ fs[loaded.path].kind = "file" /\ fs[loaded.path].open
    /\ v = fs[loaded.path].holds /\ v \in DOMAIN Contents
    /\ Contents[v].text /\ ~Marked(Contents[v])
    /\ Bytes(Contents[v].lines) <= MaxFileBytes
    /\ loaded.redacted = Classified(loaded.path)
    /\ loaded.redacted => Contents[v].dotenv
    /\ loaded.lines = Rendering(v, loaded.redacted)
    /\ loaded.lines \in Seq(Line)

LEMMA EntryIs ==
    ASSUME NEW fs, IsTree(fs), NEW p \in DOMAIN fs
    PROVE  /\ fs[p].kind \in {"dir", "file", "link"}
           /\ fs[p].kind \in {"dir", "file"} => fs[p].open \in BOOLEAN
           /\ fs[p].kind = "file" => fs[p].holds \in DOMAIN Contents
           /\ p \in Paths
BY DEF IsTree, Entries

LEMMA LoadIs ==
    ASSUME NEW fs, IsTree(fs), NEW p \in DOMAIN fs, fs[p].kind # "link",
           Load(fs, p).type # "error"
    PROVE  IsLoaded(fs, Load(fs, p)) /\ Load(fs, p).path = p
<1>1. fs[p].kind = "file"
  BY EntryIs DEF Load, Error
<1>2. fs[p].holds \in DOMAIN Contents /\ fs[p].open \in BOOLEAN
  BY <1>1, EntryIs
<1> DEFINE v == fs[p].holds
<1>3. /\ Load(fs, p) = [type |-> "loaded", path |-> p, version |-> v,
                        redacted |-> Classified(p), lines |-> Rendering(v, Classified(p))]
      /\ fs[p].open /\ Contents[v].text /\ ~Marked(Contents[v])
      /\ Classified(p) => Contents[v].dotenv
      /\ ~(Bytes(Contents[v].lines) > MaxFileBytes)
  BY DEF Load, Error
<1>4. Classified(p) \in BOOLEAN
  BY DEF Classified
<1>5. Rendering(v, Classified(p)) \in Seq(Line)
  BY <1>2, <1>4, RenderingIs
<1>6. Bytes(Contents[v].lines) <= MaxFileBytes
  <2>1. Contents[v].lines \in Seq(Line) /\ MaxFileBytes \in Nat
    BY <1>2, AccessAssumption
  <2>2. Bytes(Contents[v].lines) \in Nat
    BY <2>1, BytesOfLines
  <2> QED BY <1>3, <2>1, <2>2
<1> QED BY <1>1, <1>2, <1>3, <1>5, <1>6 DEF IsLoaded

-----------------------------------------------------------------------------
(* A page of a file.                                                       *)

Item == [line : Nat \ {0}, kind : {"plain", "hit", "secret", "marker", "sealed"}, bytes : Nat]

HasLines(page, loaded, start, last, budget) ==
    LET cut == Bytes(SubSeq(loaded.lines, start, last)) > budget IN
    /\ page.items \in Seq(Item) /\ Len(page.items) = last - start + 1
    /\ \A i \in 1 .. Len(page.items) :
          /\ start + i - 1 \in 1 .. Len(loaded.lines)
          /\ page.items[i] =
               [line |-> start + i - 1, kind |-> loaded.lines[start + i - 1].kind,
                bytes |-> IF cut THEN budget ELSE loaded.lines[start + i - 1].bytes]
          /\ page.items[i].kind = loaded.lines[start + i - 1].kind

LEMMA PageHas ==
    ASSUME NEW loaded, loaded.lines \in Seq(Line),
           NEW start \in Nat \ {0}, NEW last \in Nat, NEW end \in Nat, NEW budget \in Nat,
           last <= Len(loaded.lines), start <= last + 1
    PROVE  HasLines(PageOf(loaded, start, end, last, budget), loaded, start, last, budget)
<1> DEFINE lines == loaded.lines
           cut == Bytes(SubSeq(lines, start, last)) > budget
           Served(i) == [line |-> i, kind |-> lines[i].kind,
                         bytes |-> IF cut THEN budget ELSE lines[i].bytes]
           k == last - start + 1
           items == [i \in 1 .. k |-> Served(start + i - 1)]
<1>1. /\ Len(lines) \in Nat /\ DOMAIN lines = 1 .. Len(lines)
      /\ \A i \in 1 .. Len(lines) :
            lines[i].bytes \in Nat \ {0}
            /\ lines[i].kind \in {"plain", "hit", "secret", "marker", "sealed"}
  BY SomeLines
<1>2. k \in Nat /\ \A i \in 1 .. k : start + i - 1 \in 1 .. Len(lines)
  BY <1>1
<1> HIDE DEF cut
<1>3. \A i \in 1 .. Len(lines) : Served(i) \in Item
  BY <1>1 DEF Item
<1>8. \A j : Served(j).kind = lines[j].kind
  OBVIOUS
<1>4. PageOf(loaded, start, end, last, budget).items = items
  BY DEF PageOf, cut
<1> HIDE DEF Served, k
<1>5. items \in [1 .. k -> Item]
  BY <1>2, <1>3
<1>6. \A i \in 1 .. k : items[i] = Served(start + i - 1)
  OBVIOUS
<1> HIDE DEF items
<1>7. items \in Seq(Item) /\ Len(items) = k
  BY <1>2, <1>5
<1>9. \A i \in 1 .. k : items[i].kind = lines[start + i - 1].kind
  BY <1>6, <1>8, Zenon
<1>10. \A j : Served(j) = [line |-> j, kind |-> lines[j].kind,
                         bytes |-> IF cut THEN budget ELSE lines[j].bytes]
  BY DEF Served
<1>11. \A i \in 1 .. k : items[i] =
           [line |-> start + i - 1, kind |-> lines[start + i - 1].kind,
            bytes |-> IF cut THEN budget ELSE lines[start + i - 1].bytes]
  BY <1>6, <1>10, Zenon
<1> QED BY <1>2, <1>4, <1>7, <1>9, <1>11, Zenon DEF k, cut, HasLines

(* What a page of a file shows, and may.                                   *)
IsShown(fs, path) == path \in DOMAIN fs /\ Under(Root, path) /\ ~Denied(fs, path)

IsServed(fs, page) ==
    /\ page.type = "page" /\ IsShown(fs, page.path)
    /\ fs[page.path].kind = "file" /\ page.version = fs[page.path].holds
    /\ page.version \in DOMAIN Contents
    /\ ~Marked(Contents[page.version])
    /\ page.redacted = Classified(page.path) /\ page.truncated \in BOOLEAN
    /\ page.items \in Seq(Item)
    /\ \A i \in 1 .. Len(page.items) : page.redacted => page.items[i].kind # "secret"

LEMMA LoadTextIs ==
    ASSUME NEW fs, IsTree(fs), NEW rel \in Paths, LoadText(fs, rel).type # "error"
    PROVE  IsLoaded(fs, LoadText(fs, rel)) /\ IsShown(fs, LoadText(fs, rel).path)
<1>1. ResolveExisting(fs, rel).type # "error"
  BY DEF LoadText
<1>2. PICK q \in DOMAIN fs :
        /\ ResolveExisting(fs, rel) = At(q)
        /\ fs[q].kind # "link" /\ Under(Root, q) /\ ~Denied(fs, q)
  BY <1>1, ResolvedIs
<1>3. LoadText(fs, rel) = Load(fs, q)
  BY <1>1, <1>2 DEF LoadText, At
<1>4. IsLoaded(fs, Load(fs, q)) /\ Load(fs, q).path = q
  BY <1>2, <1>3, LoadIs
<1> QED BY <1>2, <1>3, <1>4 DEF IsShown

LEMMA SliceIsServed ==
    ASSUME NEW fs, NEW loaded, IsLoaded(fs, loaded), IsShown(fs, loaded.path),
           NEW mode \in Modes, NEW budget \in Nat, Slice(loaded, mode, budget).type # "error"
    PROVE  IsServed(fs, Slice(loaded, mode, budget))
<1> DEFINE page == Slice(loaded, mode, budget)
<1>1. \E start \in Nat \ {0}, last \in Nat, end \in Nat :
         /\ page = PageOf(loaded, start, end, last, budget)
         /\ last <= Len(loaded.lines) /\ start <= last + 1
  <2>1. CASE loaded.lines = <<>> /\ page = PageOf(loaded, 1, 0, 0, budget)
    <3>1. Len(loaded.lines) = 0
      BY <2>1, EmptySeq
    <3>2. 1 \in Nat \ {0} /\ 0 \in Nat /\ 0 <= Len(loaded.lines) /\ 1 <= 0 + 1
      BY <3>1
    <3> QED BY <2>1, <3>2
  <2>2. ASSUME NEW start, NEW end, NEW last, IsSlice(loaded, page, start, end, last, budget)
        PROVE  /\ start \in Nat \ {0} /\ last \in Nat /\ end \in Nat
               /\ last <= Len(loaded.lines) /\ start <= last + 1
               /\ page = PageOf(loaded, start, end, last, budget)
    <3>1. Len(loaded.lines) \in Nat
      BY SomeLines DEF IsLoaded
    <3> QED BY <2>2, <3>1 DEF IsSlice
  <2>3. loaded.lines \in Seq(Line)
    BY DEF IsLoaded
  <2>4. \/ loaded.lines = <<>> /\ page = PageOf(loaded, 1, 0, 0, budget)
        \/ \E start, end, last : IsSlice(loaded, page, start, end, last, budget)
    BY <2>3, SliceIs
  <2> HIDE DEF page
  <2> QED BY <2>1, <2>2, <2>4
<1> HIDE DEF page
<1>2. PICK start \in Nat \ {0}, last \in Nat, end \in Nat :
         /\ page = PageOf(loaded, start, end, last, budget)
         /\ last <= Len(loaded.lines) /\ start <= last + 1
  BY <1>1
<1>3. /\ page.items \in Seq(Item)
      /\ \A i \in 1 .. Len(page.items) :
            /\ start + i - 1 \in 1 .. Len(loaded.lines)
            /\ page.items[i].kind = loaded.lines[start + i - 1].kind
  <2>1. loaded.lines \in Seq(Line)
    BY DEF IsLoaded
  <2>2. HasLines(PageOf(loaded, start, end, last, budget), loaded, start, last, budget)
    BY <2>1, <1>2, PageHas
  <2> QED BY <2>2, <1>2 DEF HasLines
<1>4. /\ page.type = "page" /\ page.path = loaded.path /\ page.version = loaded.version
      /\ page.redacted = loaded.redacted /\ page.truncated \in BOOLEAN
  BY <1>2 DEF PageOf
<1>5. /\ loaded.version \in DOMAIN Contents /\ loaded.lines = Rendering(loaded.version, loaded.redacted)
      /\ loaded.redacted = Classified(loaded.path) /\ loaded.redacted \in BOOLEAN
  BY DEF IsLoaded, Classified
<1>6. loaded.redacted => \A i \in 1 .. Len(loaded.lines) : loaded.lines[i].kind # "secret"
  BY <1>5, RenderingIs
<1>7. \A i \in 1 .. Len(page.items) : page.redacted => page.items[i].kind # "secret"
  BY <1>3, <1>4, <1>6
<1> QED BY <1>3, <1>4, <1>5, <1>7 DEF IsServed, IsLoaded, page

LEMMA ReadIs ==
    ASSUME NEW fs, IsTree(fs), NEW rel \in Paths, NEW mode \in Modes, NEW max \in Nat
    PROVE  \/ Read(fs, rel, mode, max).type = "error"
           \/ IsServed(fs, Read(fs, rel, mode, max))
<1> SUFFICES ASSUME Read(fs, rel, mode, max).type # "error"
             PROVE  IsServed(fs, Read(fs, rel, mode, max))
  OBVIOUS
<1> DEFINE loaded == LoadText(fs, rel)
           budget == AtMost(max, MaxReadBytes)
<1>1. loaded.type # "error" /\ Read(fs, rel, mode, max) = Slice(loaded, mode, budget)
  BY DEF Read
<1>2. budget \in Nat
  BY ReadingAssumption DEF AtMost
<1>3. IsLoaded(fs, loaded) /\ IsShown(fs, loaded.path)
  BY <1>1, LoadTextIs
<1> HIDE DEF loaded, budget
<1>4. Slice(loaded, mode, budget).type # "error"
  BY <1>1
<1> QED BY <1>1, <1>2, <1>3, <1>4, SliceIsServed

-----------------------------------------------------------------------------
(* Several files under one budget.                                         *)

(* Why a read fails of itself.                                             *)
Failures ==
    {Error(c) : c \in {"internal", "not_readable", "not_found", "refused", "outside_root",
                       "invalid_input", "too_large", "is_binary", "classified_opaque",
                       "anchor_not_found", "ambiguous_anchor"}}

LEMMA AskedFails ==
    ASSUME NEW lines \in Seq(Line), NEW mode \in Modes, Asked(lines, mode).type = "error"
    PROVE  Asked(lines, mode) \in Failures
<1>1. CASE mode = Whole
  BY <1>1 DEF Asked, Whole
<1>2. CASE mode \in [type : {"range"}, start : Nat, end : Nat]
  BY <1>2 DEF Asked, Failures
<1>3. CASE mode \in [type : {"line"}, line : Nat, context : Nat]
  BY <1>3 DEF Asked, Failures, Around
<1>4. CASE mode \in [type : {"anchor"}, context : Nat]
  BY <1>4 DEF Asked, Failures, Around
<1>5. CASE mode \in [type : {"occurrence"}, nth : Nat, context : Nat]
  BY <1>5 DEF Asked, Failures, Around
<1> QED BY <1>1, <1>2, <1>3, <1>4, <1>5 DEF Modes

LEMMA ReadFails ==
    ASSUME NEW fs, IsTree(fs), NEW rel \in Paths, NEW mode \in Modes, NEW max \in Nat,
           Read(fs, rel, mode, max).type = "error"
    PROVE  Read(fs, rel, mode, max) \in Failures
<1> DEFINE at == ResolveExisting(fs, rel)
           loaded == LoadText(fs, rel)
           budget == AtMost(max, MaxReadBytes)
<1>1. CASE at.type = "error"
  <2>1. Read(fs, rel, mode, max) = at
    BY <1>1 DEF Read, LoadText
  <2>2. at \in {Error(c) : c \in Codes \cup {"refused", "outside_root"}}
    BY <1>1, ResolveFails
  <2> QED BY <2>1, <2>2 DEF Failures, Codes
<1>2. CASE at.type # "error" /\ loaded.type = "error"
  <2>1. loaded = Load(fs, at.path) /\ Read(fs, rel, mode, max) = loaded
    BY <1>2 DEF Read, LoadText
  <2>2. Load(fs, at.path).type = "error" => Load(fs, at.path) \in Failures
    BY DEF Load, Failures
  <2> QED BY <1>2, <2>1, <2>2
<1>3. CASE loaded.type # "error"
  <2>1. loaded.lines \in Seq(Line)
    BY <1>3, LoadTextIs DEF IsLoaded
  <2>2. Read(fs, rel, mode, max) = SliceAsked(loaded, Asked(loaded.lines, mode), budget)
    BY <1>3 DEF Read, Slice
  <2> HIDE DEF loaded, budget
  <2>3. SliceAsked(loaded, Asked(loaded.lines, mode), budget).type = "error" =>
           /\ Asked(loaded.lines, mode).type = "error"
           /\ SliceAsked(loaded, Asked(loaded.lines, mode), budget) = Asked(loaded.lines, mode)
    BY DEF SliceAsked, PageOf
  <2> QED BY <2>1, <2>2, <2>3, AskedFails
<1> QED BY <1>1, <1>2, <1>3

(* A file of several, and what there is after some of them.                *)
IsOneOf(fs, file) == file = Error("budget") \/ file \in Failures \/ IsServed(fs, file)

LEMMA OneIs ==
    ASSUME NEW fs, NEW file, IsOneOf(fs, file)
    PROVE  /\ file.type \in {"error", "page"}
           /\ file.type = "page" => IsServed(fs, file) /\ file.truncated \in BOOLEAN
           /\ \A numbered : file.type = "page" => SizeOf(file, numbered) \in Nat
           /\ file.type # "page" => file = Error("budget") \/ file.code # "budget"
<1>1. CASE IsServed(fs, file)
  <2>1. file.type = "page" /\ file.truncated \in BOOLEAN /\ file.items \in Seq(Item)
    BY <1>1 DEF IsServed
  <2>2. Sized(file.items) /\ Len(file.items) \in Nat
    <3>1. \A i \in 1 .. Len(file.items) : file.items[i] \in Item
      BY <2>1
    <3>2. \A i \in 1 .. Len(file.items) : file.items[i].bytes \in Nat
      BY <3>1 DEF Item
    <3>3. Len(file.items) \in Nat /\ DOMAIN file.items = 1 .. Len(file.items)
      BY <2>1
    <3> QED BY <3>2, <3>3 DEF Sized
  <2>3. Bytes(file.items) \in Nat /\ PrefixBytes \in Nat
    BY <2>2, BytesAreNat, ReadingAssumption
  <2>4. \A numbered : SizeOf(file, numbered) \in Nat
    <3>1. PrefixBytes * Len(file.items) \in Nat
      BY <2>2, <2>3
    <3> QED BY <2>3, <3>1 DEF SizeOf
  <2> QED BY <1>1, <2>1, <2>4
<1>2. CASE file = Error("budget")
  BY <1>2 DEF Error
<1>3. CASE file \in Failures
  BY <1>3 DEF Failures, Error
<1> QED BY <1>1, <1>2, <1>3 DEF IsOneOf

LEMMA ManyRuns ==
    ASSUME NEW fs, IsTree(fs), NEW rels \in Seq(Paths), NEW numbered, NEW max \in Nat,
           ReadMany(fs, rels, numbered, max).type # "error"
    PROVE  LET reply == ReadMany(fs, rels, numbered, max) IN
           /\ reply.type = "files" /\ Len(reply.files) \in Nat
           /\ DOMAIN reply.files = 1 .. Len(reply.files)
           /\ \A i \in 1 .. Len(reply.files) :
                 /\ IsOneOf(fs, reply.files[i])
                 /\ ~reply.exhausted =>
                      IF reply.files[i].type = "page" THEN ~reply.files[i].truncated
                      ELSE reply.files[i].code # "budget"
<1> DEFINE n == Len(rels)
           budget == AtMost(max, MaxReadBytes)
           G == {Error("budget")} \cup {Read(fs, rels[i], Whole, b) : i \in 1 .. n, b \in Nat}
           A == [files : Seq(G), spent : Nat, exhausted : BOOLEAN]
           base == [files |-> <<>>, spent |-> 0, exhausted |-> FALSE]
           Put(acc, rel) == ReadNext(fs, numbered, budget, acc, rel)
           step == [x \in A \X (1 .. n) |-> Put(x[1], rels[x[2]])]
           Is(it) == it = [s \in SUBSET DOMAIN rels |-> IF s = {} THEN base
                             ELSE Put(it[s \ {Max(s)}], rels[Max(s)])]
           it == CHOOSE it : Is(it)
           Told(acc) == ~acc.exhausted => \A i \in 1 .. Len(acc.files) :
                          IF acc.files[i].type = "page" THEN ~acc.files[i].truncated
                          ELSE acc.files[i].code # "budget"
           B == {acc \in A : Told(acc)}
<1>1. n \in Nat /\ DOMAIN rels = 1 .. n /\ budget \in Nat /\ \A i \in 1 .. n : rels[i] \in Paths
  BY ReadingAssumption DEF AtMost
<1>2. base \in A /\ base \in B
  <2>1. <<>> \in Seq(G) /\ Len(<<>>) = 0
    BY EmptySeq
  <2> QED BY <2>1
<1>3. ASSUME NEW file \in G PROVE IsOneOf(fs, file)
  <2>1. CASE file = Error("budget")
    BY <2>1 DEF IsOneOf
  <2>2. ASSUME NEW i \in 1 .. n, NEW b \in Nat, file = Read(fs, rels[i], Whole, b)
        PROVE  IsOneOf(fs, file)
    <3>1. Whole \in Modes /\ rels[i] \in Paths
      BY <1>1 DEF Modes
    <3> QED BY <3>1, <2>2, ReadIs, ReadFails DEF IsOneOf
  <2> QED BY <2>1, <2>2
<1>4. ASSUME NEW acc \in A, NEW i \in 1 .. n
      PROVE  /\ Put(acc, rels[i]) \in A
             /\ acc \in B => Put(acc, rels[i]) \in B
  <2> DEFINE left == Left(budget, acc)
             page == IF left = 0 THEN Error("budget") ELSE Read(fs, rels[i], Whole, left)
  <2>1. acc.files \in Seq(G) /\ acc.spent \in Nat /\ acc.exhausted \in BOOLEAN
    OBVIOUS
  <2>2. left \in Nat
    BY <1>1, <2>1 DEF Left
  <2>3. page \in G
    BY <2>2
  <2>4. page = Error("budget") => left = 0
    <3>1. CASE left # 0
      <4>1. page = Read(fs, rels[i], Whole, left) /\ Whole \in Modes /\ rels[i] \in Paths
        BY <3>1, <1>1 DEF Modes
      <4>2. page.type = "error" => page \in Failures
        BY <4>1, <2>2, ReadFails
      <4> HIDE DEF page
      <4> QED BY <4>2 DEF Failures, Error
    <3> QED BY <3>1
  <2>5. Put(acc, rels[i]) =
          [files |-> Append(acc.files, page),
           spent |-> acc.spent + IF page.type = "page" THEN SizeOf(page, numbered) ELSE 0,
           exhausted |-> acc.exhausted \/ left = 0 \/ (page.type = "page" /\ page.truncated)]
    BY DEF ReadNext
  <2> HIDE DEF left, page, Put, G
  <2>6. /\ page.type \in {"error", "page"}
        /\ page.type = "page" => page.truncated \in BOOLEAN /\ SizeOf(page, numbered) \in Nat
        /\ page.type # "page" => page = Error("budget") \/ page.code # "budget"
    BY <2>3, <1>3, OneIs
  <2>7. /\ Append(acc.files, page) \in Seq(G) /\ Len(acc.files) \in Nat
        /\ Len(Append(acc.files, page)) = Len(acc.files) + 1
        /\ \A j \in 1 .. Len(acc.files) : Append(acc.files, page)[j] = acc.files[j]
        /\ Append(acc.files, page)[Len(acc.files) + 1] = page
    BY <2>1, <2>3, AppendProperties
  <2>8. Put(acc, rels[i]) \in A
    BY <2>1, <2>5, <2>6, <2>7
  <2>9. ASSUME acc \in B PROVE Told(Put(acc, rels[i]))
    <3> SUFFICES ASSUME ~Put(acc, rels[i]).exhausted, NEW j \in 1 .. Len(Put(acc, rels[i]).files)
                 PROVE  LET file == Put(acc, rels[i]).files[j] IN
                        IF file.type = "page" THEN ~file.truncated ELSE file.code # "budget"
      OBVIOUS
    <3>1. /\ ~acc.exhausted /\ left # 0 /\ ~(page.type = "page" /\ page.truncated)
          /\ Put(acc, rels[i]).files = Append(acc.files, page)
      <4> DEFINE spent == acc.spent + IF page.type = "page" THEN SizeOf(page, numbered) ELSE 0
                 over == acc.exhausted \/ left = 0 \/ (page.type = "page" /\ page.truncated)
                 files == Append(acc.files, page)
      <4>1. Put(acc, rels[i]) = [files |-> files, spent |-> spent, exhausted |-> over]
        BY <2>5
      <4> HIDE DEF spent, over, files
      <4>2. Put(acc, rels[i]).exhausted = over /\ Put(acc, rels[i]).files = files
        BY <4>1
      <4>3. ~over
        BY <4>2, Zenon
      <4> QED BY <4>2, <4>3, Zenon DEF over, files
    <3>2. CASE j = Len(acc.files) + 1
      <4>1. Put(acc, rels[i]).files[j] = page
        BY <3>1, <3>2, <2>7
      <4> QED BY <4>1, <3>1, <2>4, <2>6
    <3>3. CASE j # Len(acc.files) + 1
      <4>1. j \in 1 .. Len(acc.files)
        BY <3>1, <3>3, <2>7
      <4>2. Put(acc, rels[i]).files[j] = acc.files[j]
        BY <3>1, <4>1, <2>7
      <4> QED BY <4>1, <4>2, <3>1, <2>9
    <3> QED BY <3>2, <3>3
  <2> QED BY <2>8, <2>9
<1> HIDE DEF Put
<1>5. step \in [A \X (1 .. n) -> A]
  <2> HIDE DEF A
  <2> QED BY <1>4
<1>6. \A x \in A, i \in 1 .. n : step[<<x, i>>] = Put(x, rels[i])
  OBVIOUS
<1> HIDE DEF step
<1>s. Steps(n, A, base, step)
  BY <1>1, <1>2, <1>5 DEF Steps
<1>7. \E g : Is(g)
  <2> HIDE DEF A, base, Told, B
  <2>1. PICK g : IsFold(g, n, A, base, step)
    BY ONLY <1>s, FoldExists, Zenon
  <2>2. ASSUME NEW s \in SUBSET (1 .. n), s # {}
        PROVE  g[s] = Put(g[s \ {Max(s)}], rels[Max(s)])
    <3>1. Max(s) \in 1 .. n
      BY <1>1, <2>2, MaxOfUpTo
    <3>2. g[s \ {Max(s)}] \in A /\ g[s] = step[<<g[s \ {Max(s)}], Max(s)>>]
      BY <2>1, <2>2 DEF IsFold
    <3> QED BY <3>1, <3>2, <1>6
  <2>3. g[{}] = base /\ g \in [SUBSET (1 .. n) -> A]
    BY <2>1 DEF IsFold
  <2> QED BY <1>1, <2>2, <2>3
<1>8. Is(it)
  BY <1>7
<1>9. FoldLeft(LAMBDA acc, rel : ReadNext(fs, numbered, budget, acc, rel), base, rels) = it[1 .. n]
  BY <1>1 DEF FoldLeft, MapThenFoldSet, Put
<1> HIDE DEF it
<1>10. it[{}] = base /\ \A s \in SUBSET (1 .. n) : s # {} => it[s] = Put(it[s \ {Max(s)}], rels[Max(s)])
  BY <1>1, <1>8
<1>11. ReadMany(fs, rels, numbered, max) =
          [type |-> "files", files |-> it[1 .. n].files, exhausted |-> it[1 .. n].exhausted]
  BY <1>9 DEF ReadMany, Error
<1> HIDE DEF A, Is, base, n, B, G
<1>12. Folds(it, n, A, base, step)
  BY <1>1, <1>6, <1>10, MaxOfUpTo DEF Folds
<1>13. PICK f : Runs(f, it, n, A, base, step)
  BY ONLY <1>s, <1>12, FoldRuns, Zenon
<1>14. \A i \in 0 .. n : f[i] \in B
  <2>1. \A i \in 1 .. n : f[i - 1] \in B => f[i] \in B
    <3> SUFFICES ASSUME NEW i \in 1 .. n, f[i - 1] \in B PROVE f[i] \in B
      OBVIOUS
    <3>1. f[i - 1] \in A
      BY DEF B
    <3>2. f[i] = Put(f[i - 1], rels[i])
      BY <3>1, <1>6, <1>13 DEF Runs
    <3> QED BY <3>1, <3>2, <1>4
  <2>2. f[0] \in B
    BY <1>2, <1>13 DEF Runs
  <2> QED BY ONLY <1>1, <2>1, <2>2, IterationStays
<1>15. n \in 0 .. n
  BY <1>1
<1>16. f[n] \in A /\ Told(f[n])
  BY <1>14, <1>15 DEF B
<1>17. f[n].files \in Seq(G)
  BY <1>16 DEF A
<1>18. /\ Len(f[n].files) \in Nat /\ DOMAIN f[n].files = 1 .. Len(f[n].files)
       /\ \A i \in 1 .. Len(f[n].files) : f[n].files[i] \in G
  BY <1>17
<1>19. \A i \in 1 .. Len(f[n].files) : IsOneOf(fs, f[n].files[i])
  BY <1>18, <1>3
<1>20. /\ ReadMany(fs, rels, numbered, max).type = "files"
       /\ ReadMany(fs, rels, numbered, max).files = f[n].files
       /\ ReadMany(fs, rels, numbered, max).exhausted = f[n].exhausted
  BY <1>11, <1>13 DEF Runs
<1> QED BY <1>16, <1>18, <1>19, <1>20, Zenon

-----------------------------------------------------------------------------
(* A listing is a page of the entries in their order.                      *)

LEMMA PathIsUnder ==
    ASSUME NEW fs, IsTree(fs), NEW base \in DOMAIN fs, Under(Root, base),
           NEW p \in DOMAIN fs, Below(base, p)
    PROVE  Under(Root, p)
<1>1. Root \in Paths /\ base \in Paths /\ p \in Paths
  BY AccessAssumption DEF IsTree
<1> QED BY <1>1, BelowIsLonger, UnderUnder

LEMMA WalkIs ==
    ASSUME NEW fs, IsTree(fs), NEW base \in DOMAIN fs, Under(Root, base),
           NEW depth, NEW ignored
    PROVE  LET walk == Walk(fs, base, depth, ignored) IN
           /\ walk.found \in SUBSET DOMAIN fs /\ IsFiniteSet(walk.found)
           /\ \A p \in walk.found : IsShown(fs, p)
           /\ walk.denied \in Nat /\ walk.unreadable \in Nat
<1> DEFINE met == {p \in DOMAIN fs : Met(fs, base, depth, ignored, p)}
           found == {p \in met : ~Skipped(fs, p, ignored)}
           closed == {p \in found : /\ fs[p].kind = "dir" /\ ~fs[p].open
                                    /\ Len(p) < Len(base) + depth}
<1>1. met \in SUBSET DOMAIN fs /\ IsFiniteSet(DOMAIN fs)
  BY DEF IsTree
<1>2. found \in SUBSET DOMAIN fs /\ closed \in SUBSET DOMAIN fs
      /\ DeniedOf(fs, met, ignored) \in SUBSET DOMAIN fs
  BY DEF DeniedOf
<1>3. \A p \in found : IsShown(fs, p)
  BY PathIsUnder DEF Met, Skipped, IsShown
<1>4. /\ Walk(fs, base, depth, ignored).found = found
      /\ Walk(fs, base, depth, ignored).denied = Cardinality(DeniedOf(fs, met, ignored))
      /\ Walk(fs, base, depth, ignored).unreadable = Cardinality(closed)
  BY DEF Walk, WalkOver
<1> HIDE DEF met, found, closed
<1>5. /\ IsFiniteSet(found) /\ IsFiniteSet(closed) /\ IsFiniteSet(DeniedOf(fs, met, ignored))
  BY <1>1, <1>2, FS_Subset
<1>6. Cardinality(closed) \in Nat /\ Cardinality(DeniedOf(fs, met, ignored)) \in Nat
  BY <1>5, FS_CardinalityType
<1> QED BY <1>2, <1>3, <1>4, <1>5, <1>6

LEMMA OrderIs ==
    ASSUME NEW fs, IsTree(fs), Keyed(DOMAIN fs, Rank), NEW S \in SUBSET DOMAIN fs
    PROVE  /\ InOrder(S) \in Seq(S) /\ Len(InOrder(S)) \in Nat
           /\ Len(InOrder(S)) = Cardinality(S)
           /\ \A i \in 1 .. Len(InOrder(S)) : InOrder(S)[i] \in S
           /\ \A x \in S : \E i \in 1 .. Len(InOrder(S)) : InOrder(S)[i] = x
           /\ \A i, j \in 1 .. Len(InOrder(S)) : i < j => Rank[InOrder(S)[i]] < Rank[InOrder(S)[j]]
<1>1. IsFiniteSet(S)
  BY FS_Subset DEF IsTree
<1>2. Keyed(S, Rank)
  BY DEF Keyed
<1> QED BY <1>1, <1>2, SortedIs DEF InOrder

ListOps ==
    [tool : {"list"}, rel : Paths, depth : Nat, max : Nat, offset : Nat,
     ignored : BOOLEAN, globbed : BOOLEAN, glob : SUBSET Paths]
SearchOps == [tool : {"search"}, rel : Paths, max : Nat, globbed : BOOLEAN, glob : SUBSET Paths]

(* A page of a directory is a piece of what a walk keeps, in order.        *)
Kept(fs, op, base) ==
    InOrder({p \in Walk(fs, base, op.depth, op.ignored).found : InGlob(op, p)})

LEMMA KeptIs ==
    ASSUME NEW fs, IsTree(fs), Keyed(DOMAIN fs, Rank), NEW base \in DOMAIN fs, Under(Root, base),
           NEW op
    PROVE  LET S == {p \in Walk(fs, base, op.depth, op.ignored).found : InGlob(op, p)} IN
           /\ Kept(fs, op, base) \in Seq(S) /\ Len(Kept(fs, op, base)) \in Nat
           /\ \A i \in 1 .. Len(Kept(fs, op, base)) :
                 Kept(fs, op, base)[i] \in S /\ IsShown(fs, Kept(fs, op, base)[i])
           /\ \A x \in S : \E i \in 1 .. Len(Kept(fs, op, base)) : Kept(fs, op, base)[i] = x
           /\ \A i, j \in 1 .. Len(Kept(fs, op, base)) :
                 i < j => Rank[Kept(fs, op, base)[i]] < Rank[Kept(fs, op, base)[j]]
<1> DEFINE S == {p \in Walk(fs, base, op.depth, op.ignored).found : InGlob(op, p)}
<1>1. S \in SUBSET DOMAIN fs /\ \A p \in S : IsShown(fs, p)
  BY WalkIs
<1>2. Kept(fs, op, base) = InOrder(S)
  BY DEF Kept
<1> HIDE DEF S
<1>3. /\ InOrder(S) \in Seq(S) /\ Len(InOrder(S)) \in Nat
      /\ \A i \in 1 .. Len(InOrder(S)) : InOrder(S)[i] \in S
      /\ \A x \in S : \E i \in 1 .. Len(InOrder(S)) : InOrder(S)[i] = x
      /\ \A i, j \in 1 .. Len(InOrder(S)) : i < j => Rank[InOrder(S)[i]] < Rank[InOrder(S)[j]]
  BY <1>1, OrderIs
<1> QED BY <1>1, <1>2, <1>3 DEF S

LEMMA ListIs ==
    ASSUME NEW fs, IsTree(fs), Keyed(DOMAIN fs, Rank), NEW op \in ListOps,
           List(fs, op).type # "error"
    PROVE  LET reply == List(fs, op)
               base == reply.base
           IN /\ base \in DOMAIN fs /\ Under(Root, base)
              /\ fs[base].kind = "dir" /\ fs[base].open
              /\ reply.type = "entries"
              /\ reply = ListPage(op, base, Walk(fs, base, op.depth, op.ignored), Kept(fs, op, base))
<1>1. op.rel \in Paths
  BY DEF ListOps
<1>2. ResolveExisting(fs, op.rel).type # "error"
  BY DEF List
<1>3. PICK q \in DOMAIN fs :
        /\ ResolveExisting(fs, op.rel) = At(q)
        /\ fs[q].kind # "link" /\ Under(Root, q) /\ ~Denied(fs, q)
  BY <1>1, <1>2, ResolvedIs
<1>4. /\ At(q).type # "error" /\ At(q).path = q
  BY <1>2, <1>3 DEF At
<1>5. /\ fs[q].kind = "dir" /\ fs[q].open
      /\ List(fs, op) = ListPage(op, q, Walk(fs, q, op.depth, op.ignored), Kept(fs, op, q))
  BY <1>2, <1>3, <1>4 DEF List, Error, Kept
<1>6. List(fs, op).base = q /\ List(fs, op).type = "entries"
  BY <1>5 DEF ListPage
<1> QED BY <1>3, <1>5, <1>6

(* The items of a page are those kept from its offset on.                  *)
LEMMA PageOfKept ==
    ASSUME NEW op \in ListOps, NEW base, NEW walk, NEW S, NEW kept \in Seq(S)
    PROVE  LET reply == ListPage(op, base, walk, kept)
               count == Len(reply.items)
           IN /\ reply.items \in Seq(S) /\ count \in Nat
              /\ \A i \in 1 .. count :
                    /\ op.offset + i \in 1 .. Len(kept)
                    /\ reply.items[i] = kept[op.offset + i]
              /\ reply.truncated = (op.offset + count < Len(kept))
              /\ reply.truncated => reply.next = op.offset + count /\ count <= op.max
              /\ ~reply.truncated => reply.next = None
<1> DEFINE last == AtMost(op.offset + op.max, Len(kept))
           page == SubSeq(kept, op.offset + 1, last)
<1>1. op.offset \in Nat /\ op.max \in Nat /\ Len(kept) \in Nat
  BY DEF ListOps
<1>2. last \in Nat /\ last <= Len(kept) /\ last <= op.offset + op.max /\ op.offset + 1 \in Int
  BY <1>1 DEF AtMost
<1>3. \A i \in op.offset + 1 .. last : kept[i] \in S
  <2> SUFFICES ASSUME NEW i \in op.offset + 1 .. last PROVE kept[i] \in S
    OBVIOUS
  <2>1. i \in 1 .. Len(kept)
    BY <1>1, <1>2
  <2> QED BY <2>1
<1> HIDE DEF last
<1>4. /\ page \in Seq(S)
      /\ Len(page) = IF op.offset + 1 <= last THEN last - (op.offset + 1) + 1 ELSE 0
      /\ \A i \in 1 .. last - (op.offset + 1) + 1 : page[i] = kept[op.offset + 1 + i - 1]
  BY <1>2, <1>3, SubSeqProperties
<1> HIDE DEF page
<1>5. Len(page) \in Nat /\ Len(page) <= op.max
  <2>1. Len(page) = IF op.offset + 1 <= last THEN last - (op.offset + 1) + 1 ELSE 0
    BY <1>4
  <2> QED BY <1>1, <1>2, <2>1
<1>6. ASSUME NEW i \in 1 .. Len(page)
      PROVE  op.offset + i \in 1 .. Len(kept) /\ page[i] = kept[op.offset + i]
  <2>1. /\ i \in 1 .. last - (op.offset + 1) + 1 /\ op.offset + 1 + i - 1 = op.offset + i
        /\ op.offset + i \in 1 .. Len(kept)
    <3> DEFINE o == op.offset
               l == Len(page)
               m == Len(kept)
    <3>1. /\ o \in Nat /\ m \in Nat /\ last \in Nat /\ last <= m /\ i \in 1 .. l
          /\ l = IF o + 1 <= last THEN last - (o + 1) + 1 ELSE 0
      BY <1>1, <1>2, <1>4, <1>6
    <3> HIDE DEF o, l, m
    <3>2. i \in 1 .. last - (o + 1) + 1 /\ o + 1 + i - 1 = o + i /\ o + i \in 1 .. m
      BY ONLY <3>1
    <3> QED BY <3>2 DEF o, m
  <2> QED BY <2>1, <1>4
<1>7. LET reply == ListPage(op, base, walk, kept) IN
      /\ reply.items = page
      /\ reply.truncated = (op.offset + Len(page) < Len(kept))
      /\ reply.next = IF op.offset + Len(page) < Len(kept) THEN op.offset + Len(page) ELSE None
  BY DEF ListPage, NextEntry, page, last
<1> QED BY <1>4, <1>5, <1>6, <1>7

-----------------------------------------------------------------------------
(* A search, file by file: what is found, what is counted, and why a file  *)
(* has no match among those shown.                                         *)

(* A match that may be shown, in one of the files of S.                    *)
HitsIn(fs, S) ==
    {h \in [path : S, version : DOMAIN Contents, line : Nat,
            kind : {"plain", "hit", "secret", "marker", "sealed"}] :
        /\ ~Marked(Contents[fs[h.path].holds])
        /\ Classified(h.path) => h.kind # "secret"}

(* How far a search has come.                                              *)
Searches(fs, S, max) ==
    [hits : {hits \in Seq(HitsIn(fs, S)) : Len(hits) <= max}, truncated : BOOLEAN, failed : BOOLEAN, kept : Nat, opened : Nat,
     classified : Nat, denied : Nat, unreadable : Nat]

(* p is not looked into.                                                   *)
Closed(fs, p) ==
    \/ PassedOver(fs, p)
    \/ ~fs[p].open
    \/ Marked(Contents[fs[p].holds])
    \/ Opaque(fs, p)

AllHit(fs, hits, p) ==
    \A i \in Matching(Rendering(fs[p].holds, Classified(p))) :
       \E k \in 1 .. Len(hits) : hits[k].path = p /\ hits[k].line = i

(* p has a cause if it was not looked into, and is all there if it was.    *)
Explained(fs, acc, p) ==
    \/ PassedOver(fs, p)
    \/ ~fs[p].open /\ acc.unreadable > 0
    \/ Marked(Contents[fs[p].holds]) /\ acc.denied > 0
    \/ Opaque(fs, p) /\ acc.classified > 0
    \/ ~Closed(fs, p) /\ AllHit(fs, acc.hits, p)

Seen(fs, op, done) == {p \in done : InGlob(op, p) /\ ~Closed(fs, p)}

(* What there is after the files done.                                     *)
Searched(fs, op, walk, acc, done) ==
    /\ acc.truncated => Len(acc.hits) = op.max
    /\ acc.denied >= walk.denied /\ acc.unreadable >= walk.unreadable
    /\ acc.truncated => acc.opened > 0
    /\ acc.opened = 0 => acc.hits = <<>>
    /\ ~acc.truncated /\ ~acc.failed => acc.opened = Cardinality(Seen(fs, op, done))
    /\ ~acc.truncated /\ ~acc.failed =>
          \A p \in done : InGlob(op, p) => acc.kept > 0 /\ Explained(fs, acc, p)

(* What a file adds: nothing is taken back.                                *)
Grows(acc, next) ==
    /\ next.unreadable >= acc.unreadable /\ next.denied >= acc.denied
    /\ next.classified >= acc.classified /\ next.opened >= acc.opened /\ next.kept >= acc.kept
    /\ Len(next.hits) >= Len(acc.hits)
    /\ \A k \in 1 .. Len(acc.hits) : next.hits[k] = acc.hits[k]

LEMMA ExplainedStays ==
    ASSUME NEW fs, NEW S, NEW max, NEW acc \in Searches(fs, S, max), NEW next \in Searches(fs, S, max),
           Grows(acc, next), NEW p, Explained(fs, acc, p)
    PROVE  Explained(fs, next, p)
<1>1. /\ acc.unreadable \in Nat /\ acc.denied \in Nat /\ acc.classified \in Nat
      /\ next.unreadable \in Nat /\ next.denied \in Nat /\ next.classified \in Nat
      /\ Len(acc.hits) \in Nat /\ Len(next.hits) \in Nat
  BY DEF Searches
<1>2. AllHit(fs, acc.hits, p) => AllHit(fs, next.hits, p)
  <2> SUFFICES ASSUME NEW i \in Matching(Rendering(fs[p].holds, Classified(p))),
                      NEW k \in 1 .. Len(acc.hits), acc.hits[k].path = p /\ acc.hits[k].line = i
               PROVE  \E l \in 1 .. Len(next.hits) : next.hits[l].path = p /\ next.hits[l].line = i
    BY DEF AllHit
  <2>1. k \in 1 .. Len(next.hits) /\ next.hits[k] = acc.hits[k]
    BY <1>1 DEF Grows
  <2> QED BY <2>1
<1>3. /\ acc.unreadable > 0 => next.unreadable > 0
      /\ acc.denied > 0 => next.denied > 0
      /\ acc.classified > 0 => next.classified > 0
  BY <1>1 DEF Grows
<1> QED BY <1>2, <1>3 DEF Explained

(* The matches of a file that is looked into, as far as there is room.     *)
LEMMA MatchesOf ==
    ASSUME NEW fs, IsTree(fs), NEW S \in SUBSET DOMAIN fs, NEW p \in S, fs[p].kind = "file",
           ~Marked(Contents[fs[p].holds]), NEW room \in Nat
    PROVE  LET lines == Rendering(fs[p].holds, Classified(p))
               hits == Hits(lines)
               n == AtMost(Len(hits), room)
               found == [i \in 1 .. n |->
                           [path |-> p, version |-> fs[p].holds, line |-> hits[i],
                            kind |-> lines[hits[i]].kind]]
           IN /\ found \in Seq(HitsIn(fs, S)) /\ Len(found) = n /\ n \in Nat /\ n <= room
              /\ Len(hits) \in Nat /\ (Len(hits) > room => n = room)
              /\ ~(Len(hits) > room) => AllHit(fs, found, p)
<1> DEFINE v == fs[p].holds
           lines == Rendering(v, Classified(p))
           hits == Hits(lines)
           n == AtMost(Len(hits), room)
           Hit(i) == [path |-> p, version |-> v, line |-> i, kind |-> lines[i].kind]
           found == [i \in 1 .. n |-> Hit(hits[i])]
<1>1. v \in DOMAIN Contents /\ Classified(p) \in BOOLEAN
  BY EntryIs DEF Classified
<1>2. /\ lines \in Seq(Line) /\ Len(lines) \in Nat
      /\ Classified(p) => \A i \in 1 .. Len(lines) : lines[i].kind # "secret"
  BY <1>1, RenderingIs
<1> HIDE DEF lines
<1>3. /\ Len(hits) \in Nat
      /\ \A k \in 1 .. Len(hits) : hits[k] \in 1 .. Len(lines)
      /\ \A i \in Matching(lines) : \E k \in 1 .. Len(hits) : hits[k] = i
  BY <1>2, HitsAre
<1> HIDE DEF hits
<1>4. n \in Nat /\ n <= Len(hits) /\ n <= room /\ (Len(hits) > room => n = room)
      /\ (~(Len(hits) > room) => n = Len(hits))
  BY <1>3 DEF AtMost
<1> HIDE DEF n
<1>5. ASSUME NEW i \in 1 .. n PROVE found[i] \in HitsIn(fs, S)
  <2>1. hits[i] \in 1 .. Len(lines) /\ hits[i] \in Nat
    BY <1>2, <1>3, <1>4
  <2>2. lines[hits[i]] \in Line
    BY <1>2, <2>1
  <2>3. lines[hits[i]].kind \in {"plain", "hit", "secret", "marker", "sealed"}
    BY <2>2 DEF Line
  <2>4. Classified(p) => lines[hits[i]].kind # "secret"
    BY <1>2, <2>1
  <2> DEFINE h == Hit(hits[i])
  <2>5. found[i] = h
    OBVIOUS
  <2>6. /\ h \in [path : S, version : DOMAIN Contents, line : Nat,
                  kind : {"plain", "hit", "secret", "marker", "sealed"}]
        /\ h.path = p /\ h.kind = lines[hits[i]].kind
    BY <1>1, <2>1, <2>3
  <2> HIDE DEF h, found
  <2> QED BY <2>4, <2>5, <2>6 DEF HitsIn
<1>6. Len(found) = n /\ found \in Seq(HitsIn(fs, S))
  <2>1. found = [i \in 1 .. n |-> found[i]]
    OBVIOUS
  <2> HIDE DEF found
  <2>2. found \in [1 .. n -> HitsIn(fs, S)]
    BY <1>5, <2>1
  <2> QED BY <1>4, <2>2
<1>7. ~(Len(hits) > room) => AllHit(fs, found, p)
  <2> SUFFICES ASSUME ~(Len(hits) > room), NEW i \in Matching(lines)
               PROVE  \E k \in 1 .. Len(found) : found[k].path = p /\ found[k].line = i
    BY DEF AllHit, lines, v
  <2>1. PICK k \in 1 .. Len(hits) : hits[k] = i
    BY <1>3
  <2>2. k \in 1 .. n /\ k \in 1 .. Len(found)
    BY <1>4, <1>6, <2>1
  <2>3. found[k] = Hit(i)
    BY <2>1, <2>2
  <2>4. found[k].path = p /\ found[k].line = i
    BY <2>3
  <2> HIDE DEF found
  <2> QED BY <2>2, <2>4
<1> QED BY <1>3, <1>4, <1>6, <1>7 DEF n, hits, lines

(* What a file that is not looked into leaves as it was.                   *)
PassesOver(fs, S, max, acc, next) ==
    /\ next \in Searches(fs, S, max) /\ Grows(acc, next)
    /\ next.opened = acc.opened /\ next.hits = acc.hits /\ next.truncated = acc.truncated

(* What one that is has found.                                             *)
LooksInto(fs, S, max, acc, next, hits, over) ==
    /\ next \in Searches(fs, S, max)
    /\ next.hits = acc.hits \o hits /\ next.truncated = over /\ next.failed = acc.failed
    /\ next.kept = acc.kept + 1 /\ next.opened = acc.opened + 1
    /\ next.denied = acc.denied /\ next.unreadable = acc.unreadable
    /\ next.classified = acc.classified

(* A file that is only counted.                                            *)
LEMMA CountIs ==
    ASSUME NEW fs, NEW S, NEW max, NEW acc \in Searches(fs, S, max),
           NEW what \in {"denied", "unreadable", "classified"}
    PROVE  /\ PassesOver(fs, S, max, acc, Count(acc, what))
           /\ Count(acc, what).kept > 0 /\ Count(acc, what)[what] > 0
<1> DEFINE H == {hits \in Seq(HitsIn(fs, S)) : Len(hits) <= max}
           R == [hits : H, truncated : BOOLEAN, failed : BOOLEAN, kept : Nat, opened : Nat,
                 classified : Nat, denied : Nat, unreadable : Nat]
           u == acc[what] + 1
           k == acc.kept + 1
           next == [acc EXCEPT ![what] = u, !.kept = k]
<1>1. acc \in R
  BY DEF Searches
<1>2. u \in Nat /\ k \in Nat /\ u > 0 /\ k > 0 /\ u >= acc[what] /\ k >= acc.kept
  <2> HIDE DEF H
  <2> QED BY <1>1
<1>3. /\ acc.denied \in Nat /\ acc.unreadable \in Nat /\ acc.classified \in Nat
      /\ acc.opened \in Nat /\ Len(acc.hits) \in Nat
  BY DEF Searches
<1> HIDE DEF H, u, k
<1>4. /\ next \in R /\ next[what] = u /\ next.kept = k
      /\ next.opened = acc.opened /\ next.hits = acc.hits
      /\ next.truncated = acc.truncated /\ next.failed = acc.failed
      /\ what # "denied" => next.denied = acc.denied
      /\ what # "unreadable" => next.unreadable = acc.unreadable
      /\ what # "classified" => next.classified = acc.classified
  BY <1>1, <1>2
<1>5. next \in Searches(fs, S, max)
  BY <1>4 DEF Searches, H
<1>6. next = Count(acc, what)
  BY DEF u, k, Count
<1> HIDE DEF next
<1>7. Grows(acc, next)
  BY <1>2, <1>3, <1>4 DEF Grows
<1> QED BY <1>2, <1>4, <1>5, <1>6, <1>7 DEF PassesOver

(* One that cannot be read, and was asked for.                             *)
LEMMA FailIs ==
    ASSUME NEW fs, NEW S, NEW max, NEW acc \in Searches(fs, S, max)
    PROVE  PassesOver(fs, S, max, acc, Fail(acc)) /\ Fail(acc).failed
<1> DEFINE next == [acc EXCEPT !.failed = TRUE]
<1>1. /\ next \in Searches(fs, S, max) /\ next.failed
      /\ next.opened = acc.opened /\ next.hits = acc.hits /\ next.truncated = acc.truncated
      /\ next.kept = acc.kept /\ next.denied = acc.denied
      /\ next.unreadable = acc.unreadable /\ next.classified = acc.classified
  BY DEF Searches
<1>2. /\ acc.denied \in Nat /\ acc.unreadable \in Nat /\ acc.classified \in Nat
      /\ acc.opened \in Nat /\ acc.kept \in Nat /\ Len(acc.hits) \in Nat
  BY DEF Searches
<1>3. next = Fail(acc)
  BY DEF Fail
<1> HIDE DEF next
<1>4. Grows(acc, next)
  BY <1>1, <1>2 DEF Grows
<1> QED BY <1>1, <1>3, <1>4 DEF PassesOver

(* One that is in the scope, and not looked into.                          *)
LEMMA PassIs ==
    ASSUME NEW fs, NEW S, NEW max, NEW acc \in Searches(fs, S, max)
    PROVE  PassesOver(fs, S, max, acc, Pass(acc)) /\ Pass(acc).kept > 0
BY DEF Searches, Grows, PassesOver, Pass

(* One that is.                                                            *)
LEMMA LookIntoIs ==
    ASSUME NEW fs, NEW S, NEW max, NEW acc \in Searches(fs, S, max), NEW hits,
           acc.hits \o hits \in Seq(HitsIn(fs, S)), Len(acc.hits \o hits) <= max, NEW over \in BOOLEAN
    PROVE  LooksInto(fs, S, max, acc, LookInto(acc, hits, over), hits, over)
<1> DEFINE H == {h \in Seq(HitsIn(fs, S)) : Len(h) <= max}
           R == [hits : H, truncated : BOOLEAN, failed : BOOLEAN, kept : Nat, opened : Nat,
                 classified : Nat, denied : Nat, unreadable : Nat]
           o == acc.opened + 1
           k == acc.kept + 1
           all == acc.hits \o hits
           next == [acc EXCEPT !.kept = k, !.opened = o, !.hits = all, !.truncated = over]
<1>1. acc \in R /\ all \in H
  BY DEF Searches
<1>2. o \in Nat /\ k \in Nat
  BY DEF Searches
<1>3. next = LookInto(acc, hits, over)
  BY DEF LookInto
<1> HIDE DEF H, o, k, all
<1>4. /\ next \in R
      /\ next.hits = all /\ next.truncated = over /\ next.failed = acc.failed
      /\ next.kept = k /\ next.opened = o
      /\ next.denied = acc.denied /\ next.unreadable = acc.unreadable
      /\ next.classified = acc.classified
  BY <1>1, <1>2
<1>5. next \in Searches(fs, S, max)
  BY <1>4 DEF Searches, H
<1> HIDE DEF next
<1> QED BY <1>3, <1>4, <1>5 DEF o, k, all, LooksInto

LEMMA SeenGrows ==
    ASSUME NEW fs, NEW op, NEW done, IsFiniteSet(done), NEW p, p \notin done
    PROVE  /\ Cardinality(Seen(fs, op, done)) \in Nat
           /\ ~InGlob(op, p) \/ Closed(fs, p)
              => Cardinality(Seen(fs, op, done \cup {p})) = Cardinality(Seen(fs, op, done))
           /\ InGlob(op, p) /\ ~Closed(fs, p)
              => Cardinality(Seen(fs, op, done \cup {p})) = Cardinality(Seen(fs, op, done)) + 1
<1> DEFINE S == Seen(fs, op, done)
<1>1. S \subseteq done /\ p \notin S
  BY DEF Seen
<1>2. IsFiniteSet(S) /\ Cardinality(S) \in Nat
  BY <1>1, FS_Subset, FS_CardinalityType
<1>3. ~InGlob(op, p) \/ Closed(fs, p) => Seen(fs, op, done \cup {p}) = S
  BY DEF Seen
<1>4. InGlob(op, p) /\ ~Closed(fs, p) => Seen(fs, op, done \cup {p}) = S \cup {p}
  BY DEF Seen
<1> HIDE DEF S
<1>5. Cardinality(S \cup {p}) = Cardinality(S) + 1
  BY <1>1, <1>2, FS_AddElement
<1> QED BY <1>2, <1>3, <1>4, <1>5 DEF S

-----------------------------------------------------------------------------
(* One file of a search.                                                   *)

LEMMA SearchStep ==
    ASSUME NEW fs, IsTree(fs), NEW S \in SUBSET DOMAIN fs, NEW op \in SearchOps,
           NEW addressed, NEW walk, walk.denied \in Nat, walk.unreadable \in Nat, NEW done,
           IsFiniteSet(done),
           NEW acc \in Searches(fs, S, op.max), NEW p \in S, fs[p].kind = "file", p \notin done
    PROVE  LET next == SearchFile(fs, op, addressed, acc, p) IN
           /\ next \in Searches(fs, S, op.max)
           /\ Searched(fs, op, walk, acc, done)
              => Searched(fs, op, walk, next, done \cup {p})
<1> DEFINE file == fs[p]
           content == Contents[file.holds]
           secret == Classified(p)
           next == SearchFile(fs, op, addressed, acc, p)
           room == op.max - Len(acc.hits)
           lines == Rendering(file.holds, secret)
           hits == Hits(lines)
           found == [i \in 1 .. AtMost(Len(hits), room) |->
                      [path |-> p, version |-> file.holds, line |-> hits[i], kind |-> lines[hits[i]].kind]]
<1>1. /\ acc.hits \in Seq(HitsIn(fs, S)) /\ Len(acc.hits) \in Nat /\ Len(acc.hits) <= op.max
      /\ acc.truncated \in BOOLEAN /\ acc.failed \in BOOLEAN
      /\ acc.kept \in Nat /\ acc.opened \in Nat /\ acc.classified \in Nat
      /\ acc.denied \in Nat /\ acc.unreadable \in Nat /\ op.max \in Nat
  BY DEF Searches, SearchOps
(* Nothing more is looked at, or the file is not one of those asked for.   *)
<1>2. CASE acc.truncated \/ acc.failed \/ ~InGlob(op, p)
  <2>1. next = acc
    BY <1>2 DEF SearchFile
  <2>2. ASSUME Searched(fs, op, walk, acc, done) PROVE Searched(fs, op, walk, acc, done \cup {p})
    <3>1. ~acc.truncated /\ ~acc.failed =>
            \A q \in done \cup {p} : InGlob(op, q) => acc.kept > 0 /\ Explained(fs, acc, q)
      BY <1>2, <2>2 DEF Searched
    <3>2. ~acc.truncated /\ ~acc.failed => acc.opened = Cardinality(Seen(fs, op, done \cup {p}))
      BY <1>2, <2>2, SeenGrows DEF Searched
    <3> QED BY <2>2, <3>1, <3>2 DEF Searched
  <2> QED BY <2>1, <2>2
<1> DEFINE Adds == /\ PassesOver(fs, S, op.max, acc, next)
                   /\ next.failed \/ (next.kept > 0 /\ Explained(fs, next, p))
<1>3. ASSUME Adds, ~acc.truncated, ~acc.failed, Closed(fs, p)
      PROVE  Searched(fs, op, walk, acc, done) => Searched(fs, op, walk, next, done \cup {p})
  <2> HIDE DEF next
  <2> SUFFICES ASSUME Searched(fs, op, walk, acc, done)
               PROVE  Searched(fs, op, walk, next, done \cup {p})
    OBVIOUS
  <2>1. ~next.failed => \A q \in done \cup {p} :
           InGlob(op, q) => next.kept > 0 /\ Explained(fs, next, q)
    <3> SUFFICES ASSUME ~next.failed, NEW q \in done, InGlob(op, q)
                 PROVE  next.kept > 0 /\ Explained(fs, next, q)
      BY <1>3
    <3>1. acc.kept > 0 /\ Explained(fs, acc, q)
      BY <1>3 DEF Searched
    <3>2. next.kept \in Nat /\ next.kept >= acc.kept
      BY <1>3 DEF Searches, Grows, PassesOver
    <3> QED BY <1>1, <1>3, <3>1, <3>2, ExplainedStays DEF PassesOver
  <2>3. next.denied \in Nat /\ next.unreadable \in Nat /\ walk.denied \in Nat /\ walk.unreadable \in Nat
    BY <1>3 DEF Searches, PassesOver
  <2>4. /\ acc.opened = 0 => acc.hits = <<>>
        /\ acc.opened = Cardinality(Seen(fs, op, done \cup {p}))
    BY <1>3, SeenGrows DEF Searched
  <2>5. acc.denied >= walk.denied /\ acc.unreadable >= walk.unreadable
    BY DEF Searched
  <2>6. next.denied >= walk.denied /\ next.unreadable >= walk.unreadable
    BY <1>1, <1>3, <2>3, <2>5 DEF Grows, PassesOver
  <2> HIDE DEF Adds
  <2>7. ~next.truncated /\ next.opened = acc.opened /\ next.hits = acc.hits
    BY <1>3 DEF Adds, PassesOver
  <2> QED BY <2>1, <2>4, <2>6, <2>7 DEF Searched
<1>4. CASE /\ ~acc.truncated /\ ~acc.failed /\ InGlob(op, p)
           /\ Bytes(content.lines) > MaxFileBytes
  <2>c. Closed(fs, p)
    BY <1>4, Zenon DEF Closed, PassedOver, Opaque
  <2>1. next = Pass(acc)
    BY <1>4 DEF SearchFile
  <2>2. Adds
    BY <1>4, <2>1, PassIs DEF Explained, PassedOver
  <2> HIDE DEF Adds
  <2> QED BY <1>3, <1>4, <2>c, <2>2 DEF Adds, PassesOver
<1>5. CASE /\ ~acc.truncated /\ ~acc.failed /\ InGlob(op, p)
           /\ ~(Bytes(content.lines) > MaxFileBytes) /\ ~file.open
  <2>c. Closed(fs, p)
    BY <1>5, Zenon DEF Closed, PassedOver, Opaque
  <2>1. CASE addressed
    <3>1. next = Fail(acc)
      BY <1>5, <2>1 DEF SearchFile
    <3>2. Adds
      BY <3>1, FailIs, Zenon
    <3> HIDE DEF Adds
    <3> QED BY <1>3, <1>5, <2>c, <3>2 DEF Adds, PassesOver
  <2>2. CASE ~addressed
    <3>1. next = Count(acc, "unreadable")
      BY <1>5, <2>2 DEF SearchFile
    <3>2. /\ PassesOver(fs, S, op.max, acc, next)
          /\ next.kept > 0 /\ next["unreadable"] > 0
      BY <3>1, CountIs, Zenon
    <3>3. Adds
      BY <1>5, <3>2, Zenon DEF Explained
    <3> HIDE DEF Adds
    <3> QED BY <1>3, <1>5, <2>c, <3>3 DEF Adds, PassesOver
  <2> QED BY <2>1, <2>2
<1>6. CASE /\ ~acc.truncated /\ ~acc.failed /\ InGlob(op, p)
           /\ ~(Bytes(content.lines) > MaxFileBytes) /\ file.open /\ Marked(content)
  <2>c. Closed(fs, p)
    BY <1>6, Zenon DEF Closed, PassedOver, Opaque
  <2>1. next = Count(acc, "denied")
    BY <1>6 DEF SearchFile
  <2>2. /\ PassesOver(fs, S, op.max, acc, next)
        /\ next.kept > 0 /\ next["denied"] > 0
    BY <2>1, CountIs, Zenon
  <2>3. Adds
    BY <1>6, <2>2, Zenon DEF Explained, Opaque
  <2> HIDE DEF Adds
  <2> QED BY <1>3, <1>6, <2>c, <2>3 DEF Adds, PassesOver
<1>7. CASE /\ ~acc.truncated /\ ~acc.failed /\ InGlob(op, p)
           /\ ~(Bytes(content.lines) > MaxFileBytes) /\ file.open /\ ~Marked(content)
           /\ secret /\ ~(content.text /\ content.dotenv)
  <2>c. Closed(fs, p)
    BY <1>7, Zenon DEF Closed, PassedOver, Opaque
  <2>1. next = Count(acc, "classified")
    BY <1>7 DEF SearchFile
  <2>2. /\ PassesOver(fs, S, op.max, acc, next)
        /\ next.kept > 0 /\ next["classified"] > 0
    BY <2>1, CountIs, Zenon
  <2>3. Adds
    BY <1>7, <2>2, Zenon DEF Explained, Opaque
  <2> HIDE DEF Adds
  <2> QED BY <1>3, <1>7, <2>c, <2>3 DEF Adds, PassesOver
<1>8. CASE /\ ~acc.truncated /\ ~acc.failed /\ InGlob(op, p)
           /\ ~(Bytes(content.lines) > MaxFileBytes) /\ file.open /\ ~Marked(content)
           /\ ~(secret /\ ~(content.text /\ content.dotenv)) /\ ~content.text
  <2>c. Closed(fs, p)
    BY <1>8, Zenon DEF Closed, PassedOver, Opaque
  <2>1. next = Pass(acc)
    BY <1>8 DEF SearchFile
  <2>2. Adds
    BY <1>8, <2>1, PassIs DEF Explained, PassedOver
  <2> HIDE DEF Adds
  <2> QED BY <1>3, <1>8, <2>c, <2>2 DEF Adds, PassesOver
(* It is looked into.                                                      *)
<1>9. CASE /\ ~acc.truncated /\ ~acc.failed /\ InGlob(op, p) /\ ~Closed(fs, p)
  <2> DEFINE all == acc.hits \o found
  <2>1. next = LookInto(acc, found, Len(hits) > room)
    BY <1>9 DEF SearchFile, Closed, Opaque, PassedOver
  <2>2. room \in Nat /\ ~Marked(Contents[fs[p].holds])
    BY <1>1, <1>9 DEF Closed
  <2>3a. LET n == AtMost(Len(hits), room) IN
         /\ found \in Seq(HitsIn(fs, S)) /\ Len(found) = n /\ n \in Nat /\ n <= room
         /\ Len(hits) \in Nat /\ (Len(hits) > room => n = room)
         /\ ~(Len(hits) > room) => AllHit(fs, found, p)
    BY <2>2, MatchesOf, Zenon
  <2>3. /\ found \in Seq(HitsIn(fs, S)) /\ Len(found) \in Nat /\ Len(found) <= room
        /\ Len(hits) \in Nat /\ (Len(hits) > room => Len(found) = room)
        /\ ~(Len(hits) > room) => AllHit(fs, found, p)
    BY <2>3a
  <2> HIDE DEF found, hits
  <2>4. /\ all \in Seq(HitsIn(fs, S)) /\ Len(all) = Len(acc.hits) + Len(found)
        /\ \A k \in 1 .. Len(acc.hits) : all[k] = acc.hits[k]
        /\ \A k \in 1 .. Len(found) : all[Len(acc.hits) + k] = found[k]
    BY <1>1, <2>3, ConcatProperties
  <2> HIDE DEF all
  <2>5. Len(all) \in Nat /\ Len(all) <= op.max /\ (Len(hits) > room => Len(all) = op.max)
    <3> DEFINE more == Len(hits) > room
               came == Len(acc.hits)
    <3>1. /\ came \in Nat /\ op.max \in Nat /\ room = op.max - came
          /\ Len(found) \in Nat /\ Len(found) <= room /\ (more => Len(found) = room)
          /\ Len(all) = came + Len(found)
      BY <1>1, <2>3, <2>4
    <3> HIDE DEF more, came
    <3>2. Len(all) \in Nat /\ Len(all) <= op.max /\ (more => Len(all) = op.max)
      BY ONLY <3>1
    <3> QED BY <3>2 DEF more
  <2>6. AllHit(fs, found, p) => AllHit(fs, all, p)
    <3> SUFFICES ASSUME NEW i \in Matching(lines), NEW k \in 1 .. Len(found),
                        found[k].path = p /\ found[k].line = i
                 PROVE  \E l \in 1 .. Len(all) : all[l].path = p /\ all[l].line = i
      BY DEF AllHit
    <3>1. Len(acc.hits) + k \in 1 .. Len(all) /\ all[Len(acc.hits) + k] = found[k]
      BY <1>1, <2>3, <2>4
    <3> QED BY <3>1
  <2> DEFINE over == Len(hits) > room
  <2>7. over \in BOOLEAN
    OBVIOUS
  <2> HIDE DEF over, room, hits
  <2>8. next = LookInto(acc, found, over)
    BY <2>1 DEF over
  <2>9a. LooksInto(fs, S, op.max, acc, next, found, over)
    BY <2>4, <2>5, <2>7, <2>8, LookIntoIs, Zenon DEF all
  <2>9. /\ next.hits = all /\ next.truncated = over /\ next.kept = acc.kept + 1
        /\ next.opened = acc.opened + 1 /\ next.denied = acc.denied
        /\ next.unreadable = acc.unreadable /\ next.classified = acc.classified
        /\ next.failed = acc.failed /\ next \in Searches(fs, S, op.max)
    BY <2>9a DEF LooksInto, all
  <2> HIDE DEF next
  <2>10. Grows(acc, next)
    <3>1. Len(next.hits) >= Len(acc.hits) /\ \A k \in 1 .. Len(acc.hits) : next.hits[k] = acc.hits[k]
      BY <1>1, <2>3, <2>4, <2>9
    <3> QED BY <1>1, <2>9, <3>1 DEF Grows
  <2> SUFFICES ASSUME Searched(fs, op, walk, acc, done)
               PROVE  Searched(fs, op, walk, next, done \cup {p})
    BY <2>9 DEF next
  <2>11. ~next.truncated => Explained(fs, next, p)
    BY <1>9, <2>3, <2>6, <2>9 DEF Explained, over
  <2>12. ASSUME ~next.truncated, NEW q \in done \cup {p}, InGlob(op, q)
         PROVE  next.kept > 0 /\ Explained(fs, next, q)
    <3>1. CASE q = p
      BY <1>1, <2>9, <2>11, <2>12, <3>1
    <3>2. CASE q \in done
      <4>1. Explained(fs, acc, q)
        BY <1>9, <2>12, <3>2 DEF Searched
      <4> QED BY <1>1, <2>9, <2>10, <4>1, ExplainedStays
    <3> QED BY <2>12, <3>1, <3>2
  <2>13. next.truncated => Len(next.hits) = op.max
    BY <2>5, <2>9 DEF over
  <2>14. next.opened > 0 /\ next.opened = Cardinality(Seen(fs, op, done \cup {p}))
    BY <1>1, <1>9, <2>9, SeenGrows DEF Searched
  <2>15. next.denied >= walk.denied /\ next.unreadable >= walk.unreadable
    BY <2>9 DEF Searched
  <2> QED BY <2>12, <2>13, <2>14, <2>15 DEF Searched
<1> QED BY <1>1, <1>2, <1>4, <1>5, <1>6, <1>7, <1>8, <1>9, Zenon DEF Closed, Opaque, PassedOver

-----------------------------------------------------------------------------
(* A search from its first file to its last.                               *)

(* The files a search goes through.                                        *)
Scope(fs, base, addressed, walk) ==
    IF addressed THEN {base} ELSE {p \in walk.found : fs[p].kind = "file"}

(* What is answered at its end.                                            *)
Reports(reply, op, base, files, end) ==
    IF end.failed THEN reply = Error("not_readable")
    ELSE reply = [type |-> "matches", base |-> base, items |-> end.hits,
                  truncated |-> end.truncated,
                  reason |-> IF end.hits # <<>> THEN "none"
                             ELSE Explain(Cardinality(files), end.kept, end.opened, op.globbed),
                  searched |-> end.opened, denied |-> end.denied, unreadable |-> end.unreadable,
                  classified |-> end.classified]

LEMMA SearchRuns ==
    ASSUME NEW fs, IsTree(fs), Keyed(DOMAIN fs, Rank), NEW op \in SearchOps,
           NEW base, NEW addressed, NEW walk, walk.denied \in Nat, walk.unreadable \in Nat,
           Scope(fs, base, addressed, walk) \in SUBSET DOMAIN fs,
           \A p \in Scope(fs, base, addressed, walk) : fs[p].kind = "file"
    PROVE  LET files == Scope(fs, base, addressed, walk) IN
           \E end \in Searches(fs, files, op.max) :
              /\ Searched(fs, op, walk, end, files)
              /\ Reports(SearchOver(fs, op, base, addressed, walk), op, base, files, end)
<1> DEFINE files == Scope(fs, base, addressed, walk)
           seq == InOrder(files)
           n == Len(seq)
           A == Searches(fs, files, op.max)
           base0 == [hits |-> <<>>, truncated |-> FALSE, failed |-> FALSE,
                     kept |-> 0, opened |-> 0, classified |-> 0,
                     denied |-> walk.denied, unreadable |-> walk.unreadable]
           Put(acc, p) == SearchFile(fs, op, addressed, acc, p)
           step == [x \in A \X (1 .. n) |-> Put(x[1], seq[x[2]])]
           Is(it) == it = [s \in SUBSET DOMAIN seq |-> IF s = {} THEN base0
                             ELSE Put(it[s \ {Max(s)}], seq[Max(s)])]
           it == CHOOSE it : Is(it)
           Done(i) == {seq[j] : j \in 1 .. i}
<1>f. files \in SUBSET DOMAIN fs /\ \A p \in files : fs[p].kind = "file"
  OBVIOUS
<1> HIDE DEF files
<1>1. /\ n \in Nat /\ DOMAIN seq = 1 .. n
      /\ \A i \in 1 .. n : seq[i] \in files
      /\ \A x \in files : \E i \in 1 .. n : seq[i] = x
      /\ \A i, j \in 1 .. n : i < j => seq[j] # seq[i]
  <2>1. /\ seq \in Seq(files) /\ Len(seq) \in Nat
        /\ \A i \in 1 .. n : seq[i] \in files
        /\ \A x \in files : \E i \in 1 .. n : seq[i] = x
        /\ \A i, j \in 1 .. n : i < j => Rank[seq[i]] < Rank[seq[j]]
    BY <1>f, OrderIs
  <2> HIDE DEF seq
  <2>2. ASSUME NEW i \in 1 .. n, NEW j \in 1 .. n, i < j PROVE seq[j] # seq[i]
    <3>1. Rank[seq[i]] \in Nat /\ Rank[seq[i]] < Rank[seq[j]]
      BY <1>f, <2>1, <2>2 DEF Keyed
    <3> QED BY <3>1
  <2> QED BY <2>1, <2>2
<1> HIDE DEF seq
<1>2. base0 \in A /\ Searched(fs, op, walk, base0, Done(0))
  <2>1. <<>> \in Seq(HitsIn(fs, files)) /\ Len(<<>>) = 0 /\ op.max \in Nat
    BY EmptySeq DEF SearchOps
  <2>2. Len(<<>>) <= op.max
    BY <2>1
  <2>3. base0 \in A
    BY <2>1, <2>2 DEF Searches
  <2>4. Done(0) = {}
    OBVIOUS
  <2>5. Cardinality(Seen(fs, op, {})) = 0
    BY FS_EmptySet DEF Seen
  <2>6. Searched(fs, op, walk, base0, {})
    BY <2>5 DEF Searched
  <2> HIDE DEF base0, A, Done
  <2> QED BY <2>3, <2>4, <2>6
<1>3. ASSUME NEW acc \in A, NEW i \in 1 .. n
      PROVE  /\ Put(acc, seq[i]) \in A
             /\ Searched(fs, op, walk, acc, Done(i - 1)) => Searched(fs, op, walk, Put(acc, seq[i]), Done(i))
  <2>1. seq[i] \in files /\ fs[seq[i]].kind = "file"
    BY <1>1, <1>f
  <2>2. Done(i) = Done(i - 1) \cup {seq[i]}
    <3>1. 1 .. i = (1 .. i - 1) \cup {i}
      BY <1>1
    <3> QED BY <3>1
  <2>4. IsFiniteSet(Done(i - 1)) /\ seq[i] \notin Done(i - 1)
    <3>1. \A j \in 1 .. i - 1 : j \in 1 .. n /\ j < i
      BY <1>1
    <3>2. Done(i - 1) \in SUBSET files /\ seq[i] \notin Done(i - 1)
      BY <1>1, <3>1
    <3>3. IsFiniteSet(files)
      BY <1>f, FS_Subset DEF IsTree
    <3> HIDE DEF Done
    <3> QED BY <3>2, <3>3, FS_Subset
  <2> HIDE DEF Done
  <2> DEFINE next == SearchFile(fs, op, addressed, acc, seq[i])
  <2>3. /\ next \in Searches(fs, files, op.max)
        /\ Searched(fs, op, walk, acc, Done(i - 1))
           => Searched(fs, op, walk, next, Done(i - 1) \cup {seq[i]})
    BY <1>f, <2>1, <2>4, SearchStep, Zenon
  <2> QED BY <2>2, <2>3
<1>4. step \in [A \X (1 .. n) -> A]
  <2> HIDE DEF A, Put
  <2> QED BY <1>3
<1> HIDE DEF Put
<1>5. \A x \in A, i \in 1 .. n : step[<<x, i>>] = Put(x, seq[i])
  <2> HIDE DEF A
  <2> QED OBVIOUS
<1> HIDE DEF step, A
<1>s. Steps(n, A, base0, step)
  BY <1>1, <1>2, <1>4 DEF Steps
<1> HIDE DEF base0
<1>7. \E g : Is(g)
  <2>1. PICK g : IsFold(g, n, A, base0, step)
    BY ONLY <1>s, FoldExists, Zenon
  <2>2. ASSUME NEW s \in SUBSET (1 .. n), s # {}
        PROVE  g[s] = Put(g[s \ {Max(s)}], seq[Max(s)])
    <3>1. Max(s) \in 1 .. n
      BY <1>1, <2>2, MaxOfUpTo
    <3>2. g[s \ {Max(s)}] \in A /\ g[s] = step[<<g[s \ {Max(s)}], Max(s)>>]
      BY <2>1, <2>2 DEF IsFold
    <3> QED BY ONLY <3>1, <3>2, <1>5, Zenon
  <2>3. g[{}] = base0 /\ g \in [SUBSET (1 .. n) -> A]
    BY <2>1 DEF IsFold
  <2>4. DOMAIN seq = 1 .. n
    BY <1>1
  <2> QED BY <2>2, <2>3, <2>4
<1>8. Is(it)
  BY <1>7
<1>9. FoldLeft(LAMBDA acc, p : SearchFile(fs, op, addressed, acc, p), base0, seq) = it[1 .. n]
  BY <1>1 DEF FoldLeft, MapThenFoldSet, Put
<1> HIDE DEF it
<1>10. it[{}] = base0 /\ \A s \in SUBSET (1 .. n) : s # {} => it[s] = Put(it[s \ {Max(s)}], seq[Max(s)])
  BY <1>1, <1>8
<1>11. Reports(SearchOver(fs, op, base, addressed, walk), op, base, files, it[1 .. n])
  BY <1>9, ZenonT(40) DEF Reports, SearchOver, Scope, files, seq, base0
<1> HIDE DEF Is, n
<1>12. Folds(it, n, A, base0, step)
  BY <1>1, <1>5, <1>10, MaxOfUpTo DEF Folds
<1>13. PICK f : Runs(f, it, n, A, base0, step)
  BY ONLY <1>s, <1>12, FoldRuns, Zenon
<1> DEFINE T == {i \in 0 .. n : Searched(fs, op, walk, f[i], Done(i))}
<1>14. 0 .. n \subseteq T
  <2>1. 0 \in T
    <3>1. 0 \in 0 .. n
      BY <1>1
    <3> HIDE DEF Done
    <3> QED BY <1>2, <1>13, <3>1 DEF Runs
  <2>2. ASSUME NEW i \in 1 .. n, i - 1 \in T PROVE i \in T
    <3>1. i - 1 \in 0 .. n /\ i \in 0 .. n
      BY <1>1
    <3>2. f[i - 1] \in A /\ f[i] = step[<<f[i - 1], i>>]
      BY <1>13, <3>1 DEF Runs
    <3>3. f[i] = Put(f[i - 1], seq[i])
      BY <1>5, <3>2
    <3> HIDE DEF Done
    <3> QED BY <1>3, <2>2, <3>1, <3>2, <3>3
  <2> HIDE DEF T
  <2> QED BY <1>1, <2>1, <2>2, BoundedInduction
<1>15. f[n] \in A /\ Searched(fs, op, walk, f[n], Done(n)) /\ it[1 .. n] = f[n]
  <2>1. n \in 0 .. n
    BY <1>1
  <2>2. n \in T
    BY <1>14, <2>1
  <2> HIDE DEF Done
  <2> QED BY <1>13, <2>1, <2>2 DEF Runs
<1>16. Done(n) = files
  BY <1>1
<1> HIDE DEF Done
<1> QED BY <1>11, <1>15, <1>16 DEF A, files

-----------------------------------------------------------------------------
(* What lies between a walk and something it does not meet is counted.     *)

(* The names of p up to n are kept out by policy, or closed with more      *)
(* beneath them.                                                           *)
Hides(fs, p, n) ==
    LET q == SubSeq(p, 1, n) IN Denied(fs, q) \/ (n < Len(p) /\ ~fs[q].open)

(* What lies on the way to something a walk could show is met by it as     *)
(* long as nothing before hides it.                                        *)
LEMMA MetUntilHidden ==
    ASSUME NEW fs, IsTree(fs), NEW base \in DOMAIN fs, fs[base].kind = "dir", fs[base].open,
           NEW op, NEW depth \in Nat, NEW ignored, NEW p \in Candidates(fs, base, op, depth, ignored),
           NEW n \in Len(base) + 1 .. Len(p),
           \A m \in Len(base) + 1 .. n - 1 : ~Hides(fs, p, m)
    PROVE  LET q == SubSeq(p, 1, n) IN
           /\ q \in DOMAIN fs /\ Met(fs, base, depth, ignored, q)
           /\ Last(q) # GitName /\ (q \in GitIgnored => ignored)
           /\ n < Len(p) => fs[q].kind = "dir"
<1> DEFINE q == SubSeq(p, 1, n)
<1>1. /\ p \in DOMAIN fs /\ Below(base, p) /\ Len(p) <= Len(base) + depth
      /\ \A m \in Len(base) + 1 .. Len(p) :
            p[m] # GitName /\ (SubSeq(p, 1, m) \in GitIgnored => ignored)
  BY DEF Candidates
<1>2. /\ p \in Paths /\ base \in Paths /\ Len(p) \in Nat /\ Len(base) \in Nat
      /\ Len(base) < Len(p) /\ Under(base, p)
  BY <1>1, BelowIsLonger DEF IsTree, Paths
<1>3. n \in Nat /\ n # 0 /\ n \in 0 .. Len(p) /\ n <= Len(base) + depth /\ depth \in Nat
  BY <1>1, <1>2
<1>4. q \in Paths /\ Len(q) = n /\ \A i \in 1 .. n : q[i] = p[i]
  BY <1>2, <1>3, CutPath
<1>5. ASSUME NEW m \in 0 .. n - 1
      PROVE  /\ SubSeq(q, 1, m) = SubSeq(p, 1, m)
             /\ SubSeq(p, 1, m) \in DOMAIN fs /\ fs[SubSeq(p, 1, m)].kind = "dir"
  <2>1. m \in 0 .. n /\ m \in 0 .. Len(p) - 1
    BY <1>2, <1>3
  <2> QED BY <1>1, <1>2, <1>3, <2>1, CutOfCut, CutIn
<1>6. q \in DOMAIN fs /\ (n < Len(p) => fs[q].kind = "dir")
  <2>1. CASE n = Len(p)
    <3>1. q = p
      <4>1. Len(q) = Len(p) /\ \A i \in 1 .. Len(q) : q[i] = p[i]
        BY <1>4, <2>1
      <4> HIDE DEF q
      <4> QED BY <1>2, <1>4, <4>1, SeqEqual DEF Paths
    <3>2. ~(n < Len(p)) /\ q \in DOMAIN fs
      <4> HIDE DEF q
      <4> QED BY <1>1, <1>2, <2>1, <3>1
    <3> QED BY <3>2, Zenon
  <2>2. CASE n # Len(p)
    <3>1. n \in 0 .. Len(p) - 1
      BY <1>2, <1>3, <2>2
    <3> QED BY <1>1, <3>1, CutIn
  <2> QED BY <2>1, <2>2
<1>7. ASSUME NEW m \in Len(base) + 1 .. n
      PROVE  Last(SubSeq(p, 1, m)) # GitName /\ (SubSeq(p, 1, m) \in GitIgnored => ignored)
  <2>1. m \in 1 .. m /\ m \in 0 .. Len(p) /\ m \in Len(base) + 1 .. Len(p)
    BY <1>2, <1>3
  <2>2. Len(SubSeq(p, 1, m)) = m /\ SubSeq(p, 1, m)[m] = p[m]
    BY <1>2, <2>1, CutPath
  <2> QED BY <1>1, <2>1, <2>2 DEF Last
<1>8. Below(base, q)
  <2>1. Len(base) <= Len(q) /\ \A i \in 1 .. Len(base) : base[i] = q[i]
    <3>1. \A i \in 1 .. Len(base) : base[i] = p[i]
      BY <1>2, UnderBy
    <3> QED BY <1>2, <1>3, <1>4, <3>1
  <2>2. base # q
    BY <1>2, <1>3, <1>4
  <2> QED BY <1>2, <1>4, <2>1, <2>2, UnderBy DEF Below, IsStrictPrefix, Under
<1>9. ASSUME NEW m \in Len(base) .. n - 1
      PROVE  /\ fs[SubSeq(q, 1, m)].kind = "dir" /\ fs[SubSeq(q, 1, m)].open
             /\ m > Len(base) => ~Skipped(fs, SubSeq(q, 1, m), ignored)
  <2>1. m \in 0 .. n - 1 /\ m < Len(p)
    BY <1>2, <1>3
  <2>2. SubSeq(q, 1, m) = SubSeq(p, 1, m) /\ fs[SubSeq(p, 1, m)].kind = "dir"
    BY <1>5, <2>1
  <2>3. CASE m = Len(base)
    <3>1. SubSeq(p, 1, m) = base
      <4>1. m \in 0 .. Len(p)
        BY <1>2, <2>1
      <4>2. /\ SubSeq(p, 1, m) \in Paths /\ Len(SubSeq(p, 1, m)) = m
            /\ \A i \in 1 .. m : SubSeq(p, 1, m)[i] = p[i]
        BY <1>2, <4>1, CutPath
      <4>3. \A i \in 1 .. m : base[i] = p[i]
        BY <1>2, <2>3, UnderBy
      <4> DEFINE cut == SubSeq(p, 1, m)
      <4> HIDE DEF cut
      <4>4. cut \in Paths /\ Len(cut) = Len(base) /\ \A i \in 1 .. Len(cut) : cut[i] = base[i]
        BY <2>3, <4>2, <4>3 DEF cut
      <4>5. cut = base
        BY <1>2, <4>4, SeqEqual DEF Paths
      <4> QED BY <4>5 DEF cut
    <3>2. ~(m > Len(base)) /\ SubSeq(q, 1, m) = base
      <4> HIDE DEF q
      <4> QED BY <1>2, <2>2, <2>3, <3>1
    <3> QED BY <3>2, Zenon
  <2>4. CASE m # Len(base)
    <3>1. m \in Len(base) + 1 .. n - 1 /\ m \in Len(base) + 1 .. n
      BY <1>2, <1>3, <2>4
    <3>2. ~Hides(fs, p, m)
      BY <3>1
    <3>3. ~Denied(fs, SubSeq(p, 1, m)) /\ fs[SubSeq(p, 1, m)].open
      BY <2>1, <3>2 DEF Hides
    <3> QED BY <1>7, <2>2, <3>1, <3>3 DEF Skipped
  <2> QED BY <2>3, <2>4
<1>10. Met(fs, base, depth, ignored, q)
  <2>1. Len(q) <= Len(base) + depth
    BY <1>3, <1>4
  <2>2. \A m \in Len(base) .. Len(q) - 1 :
          /\ fs[SubSeq(q, 1, m)].kind = "dir" /\ fs[SubSeq(q, 1, m)].open
          /\ m > Len(base) => ~Skipped(fs, SubSeq(q, 1, m), ignored)
    BY <1>4, <1>9
  <2> QED BY <1>8, <2>1, <2>2, Zenon DEF Met
<1>11. Last(q) # GitName /\ (q \in GitIgnored => ignored)
  <2>1. n \in Len(base) + 1 .. n
    BY <1>2, <1>3
  <2> QED BY <1>7, <2>1
<1> QED BY <1>6, <1>10, <1>11

LEMMA HiddenIsCounted ==
    ASSUME NEW fs, IsTree(fs), NEW base \in DOMAIN fs, fs[base].kind = "dir", fs[base].open,
           NEW op, NEW depth \in Nat, NEW ignored, NEW p \in Candidates(fs, base, op, depth, ignored)
    PROVE  LET walk == Walk(fs, base, depth, ignored) IN
           \/ p \in walk.found
           \/ PolicyHides(fs, base, p) /\ walk.denied > 0
           \/ OsHides(fs, base, p) /\ walk.unreadable > 0
<1> DEFINE walk == Walk(fs, base, depth, ignored)
           met == {q \in DOMAIN fs : Met(fs, base, depth, ignored, q)}
           found == {q \in met : ~Skipped(fs, q, ignored)}
           closed == {q \in found : /\ fs[q].kind = "dir" /\ ~fs[q].open
                                    /\ Len(q) < Len(base) + depth}
           T == {n \in Len(base) + 1 .. Len(p) : Hides(fs, p, n)}
<1>1. /\ p \in DOMAIN fs /\ p \in Paths /\ base \in Paths /\ Len(p) \in Nat /\ Len(base) \in Nat
      /\ Len(base) < Len(p) /\ Len(p) <= Len(base) + depth /\ Below(base, p)
  BY BelowIsLonger DEF IsTree, Paths, Candidates
<1>2. /\ walk.found = found
      /\ walk.denied = Cardinality(DeniedOf(fs, met, ignored))
      /\ walk.unreadable = Cardinality(closed)
  BY DEF Walk, WalkOver
<1>3. /\ IsFiniteSet(DeniedOf(fs, met, ignored)) /\ IsFiniteSet(closed)
  <2>1. DeniedOf(fs, met, ignored) \in SUBSET DOMAIN fs /\ closed \in SUBSET DOMAIN fs
    BY DEF DeniedOf
  <2> HIDE DEF closed
  <2> QED BY <2>1, FS_Subset DEF IsTree
<1>4. /\ DeniedOf(fs, met, ignored) # {} => walk.denied > 0
      /\ closed # {} => walk.unreadable > 0
  <2>1. ASSUME NEW S, IsFiniteSet(S), S # {} PROVE Cardinality(S) > 0
    BY <2>1, FS_CardinalityType, FS_EmptySet
  <2> HIDE DEF walk, closed
  <2> QED BY <1>2, <1>3, <2>1
<1>5. CASE T = {}
  <2>1. /\ Len(p) \in Len(base) + 1 .. Len(p)
        /\ \A m \in Len(base) + 1 .. Len(p) - 1 : ~Hides(fs, p, m)
        /\ ~Hides(fs, p, Len(p))
    BY <1>1, <1>5
  <2>2. SubSeq(p, 1, Len(p)) = p
    <3>1. Len(p) \in 0 .. Len(p)
      BY <1>1
    <3> DEFINE q == SubSeq(p, 1, Len(p))
    <3>2. q \in Paths /\ Len(q) = Len(p) /\ \A i \in 1 .. Len(p) : q[i] = p[i]
      BY <1>1, <3>1, CutPath
    <3> HIDE DEF q
    <3>3. q = p
      BY <1>1, <3>2, SeqEqual DEF Paths
    <3> QED BY <3>3 DEF q
  <2>3. /\ Met(fs, base, depth, ignored, p)
        /\ Last(p) # GitName /\ (p \in GitIgnored => ignored)
    <3> DEFINE n == Len(p)
               q == SubSeq(p, 1, n)
    <3>1. n \in Len(base) + 1 .. Len(p) /\ \A m \in Len(base) + 1 .. n - 1 : ~Hides(fs, p, m)
      BY <2>1
    <3> HIDE DEF n
    <3>2. /\ q \in DOMAIN fs /\ Met(fs, base, depth, ignored, q)
          /\ Last(q) # GitName /\ (q \in GitIgnored => ignored)
          /\ n < Len(p) => fs[q].kind = "dir"
      BY <3>1, MetUntilHidden
    <3> QED BY <2>2, <3>2, Zenon DEF n
  <2>4. ~Denied(fs, p)
    BY <2>1, <2>2 DEF Hides
  <2>5. p \in found
    BY <1>1, <2>3, <2>4 DEF Skipped
  <2> QED BY <1>2, <2>5
<1>6. CASE T # {}
  <2>1. PICK n \in T : \A m \in T : n <= m
    <3>1. T \subseteq Nat
      BY <1>1
    <3> HIDE DEF T
    <3> QED BY <1>6, <3>1, LeastNumber, Zenon
  <2> DEFINE q == SubSeq(p, 1, n)
  <2>2. /\ n \in Len(base) + 1 .. Len(p) /\ Hides(fs, p, n)
        /\ \A m \in Len(base) + 1 .. n - 1 : ~Hides(fs, p, m)
    <3>1. n \in Nat /\ n \in Len(base) + 1 .. Len(p) /\ Hides(fs, p, n)
      BY <1>1, <2>1
    <3>2. ASSUME NEW m \in Len(base) + 1 .. n - 1, Hides(fs, p, m) PROVE FALSE
      <4>1. m \in T /\ ~(n <= m)
        BY <1>1, <3>1, <3>2
      <4> QED BY <2>1, <4>1
    <3> QED BY <3>1, <3>2
  <2>3. /\ q \in DOMAIN fs /\ Met(fs, base, depth, ignored, q)
        /\ Last(q) # GitName /\ (q \in GitIgnored => ignored)
        /\ n < Len(p) => fs[q].kind = "dir"
    BY <2>2, MetUntilHidden
  <2>4. CASE Denied(fs, q)
    <3>1. q \in DeniedOf(fs, met, ignored)
      BY <2>3, <2>4 DEF DeniedOf
    <3>2. PolicyHides(fs, base, p)
      BY <2>2, <2>4 DEF PolicyHides
    <3> HIDE DEF met
    <3> QED BY <1>4, <3>1, <3>2
  <2>5. CASE ~Denied(fs, q)
    <3>1. n < Len(p) /\ ~fs[q].open
      BY <2>2, <2>5 DEF Hides
    <3>2. Len(q) = n /\ n < Len(base) + depth
      <4>1. n \in 0 .. Len(p) /\ n < Len(base) + depth
        BY <1>1, <2>2, <3>1
      <4> QED BY <1>1, <4>1, CutPath
    <3>3. q \in closed
      BY <2>3, <2>5, <3>1, <3>2 DEF Skipped
    <3>4. OsHides(fs, base, p)
      <4>1. n \in Len(base) + 1 .. Len(p) - 1
        BY <1>1, <2>2, <3>1
      <4> QED BY <3>1, <4>1 DEF OsHides
    <3> HIDE DEF closed
    <3> QED BY <1>4, <3>3, <3>4
  <2> QED BY <2>4, <2>5
<1> QED BY <1>5, <1>6

-----------------------------------------------------------------------------
(* What a list does not show it accounts for.                              *)

(* What a walk finds is nothing that is hidden.                            *)
LEMMA FoundIsCandidate ==
    ASSUME NEW fs, IsTree(fs), NEW base \in DOMAIN fs, NEW depth \in Nat, NEW ignored,
           NEW op, NEW p \in Walk(fs, base, depth, ignored).found, InGlob(op, p)
    PROVE  /\ p \in Candidates(fs, base, op, depth, ignored)
           /\ ~PolicyHides(fs, base, p) /\ ~OsHides(fs, base, p)
<1>1. p \in DOMAIN fs /\ Met(fs, base, depth, ignored, p) /\ ~Skipped(fs, p, ignored)
  BY DEF Walk, WalkOver
<1>2. /\ p \in Paths /\ base \in Paths /\ Len(p) \in Nat /\ Len(base) \in Nat
      /\ Below(base, p) /\ Len(p) <= Len(base) + depth /\ Len(base) < Len(p)
  BY <1>1, BelowIsLonger DEF IsTree, Paths, Met
<1>3. ASSUME NEW n \in Len(base) + 1 .. Len(p)
      PROVE  /\ ~Skipped(fs, SubSeq(p, 1, n), ignored)
             /\ n < Len(p) => fs[SubSeq(p, 1, n)].open
             /\ Last(SubSeq(p, 1, n)) = p[n]
  <2> DEFINE q == SubSeq(p, 1, n)
  <2>1. n \in 0 .. Len(p) /\ n \in 1 .. n /\ n > Len(base)
    BY <1>2
  <2>2. q \in Paths /\ Len(q) = n /\ \A i \in 1 .. n : q[i] = p[i]
    BY <1>2, <2>1, CutPath
  <2>3. Last(q) = p[n]
    BY <2>1, <2>2 DEF Last
  <2>4. CASE n < Len(p)
    <3>1. n \in Len(base) .. Len(p) - 1
      BY <1>2, <2>1, <2>4
    <3>2. fs[q].open /\ (n > Len(base) => ~Skipped(fs, q, ignored))
      BY <1>1, <3>1, Zenon DEF Met
    <3> QED BY <2>1, <2>3, <3>2
  <2>5. CASE ~(n < Len(p))
    <3> HIDE DEF q
    <3>1. n = Len(p)
      BY <1>2, <2>1, <2>5
    <3>2. Len(q) = Len(p) /\ \A i \in 1 .. Len(q) : q[i] = p[i]
      BY <2>2, <3>1
    <3>3. q = p
      BY <1>2, <2>2, <3>2, SeqEqual DEF Paths
    <3> QED BY <1>1, <2>3, <2>5, <3>3 DEF q
  <2> QED BY <2>4, <2>5
<1>4. p \in Candidates(fs, base, op, depth, ignored)
  BY <1>1, <1>2, <1>3 DEF Candidates, Skipped
<1>5. ~PolicyHides(fs, base, p)
  BY <1>3 DEF PolicyHides, Skipped
<1>6. ~OsHides(fs, base, p)
  <2>1. ASSUME NEW n \in Len(base) + 1 .. Len(p) - 1 PROVE fs[SubSeq(p, 1, n)].open
    <3>1. n \in Len(base) + 1 .. Len(p) /\ n < Len(p)
      BY <1>2
    <3> QED BY <1>3, <3>1
  <2> QED BY <2>1 DEF OsHides
<1> QED BY <1>4, <1>5, <1>6

(* Nothing on the list is left out unsaid.                                 *)
LEMMA ListTells ==
    ASSUME NEW fs, IsTree(fs), Keyed(DOMAIN fs, Rank), NEW op \in ListOps,
           List(fs, op).type # "error"
    PROVE  LET reply == List(fs, op) IN
           /\ \A p \in Range(reply.items) : IsShown(fs, p)
           /\ ListIsCounted(fs, op, reply)
<1> DEFINE reply == List(fs, op)
           base == reply.base
           walk == Walk(fs, base, op.depth, op.ignored)
           S == {p \in walk.found : InGlob(op, p)}
           kept == Kept(fs, op, base)
           count == Len(reply.items)
<1>1. /\ base \in DOMAIN fs /\ Under(Root, base) /\ fs[base].kind = "dir" /\ fs[base].open
      /\ reply.type = "entries" /\ reply = ListPage(op, base, walk, kept)
  BY ListIs
<1>2. /\ kept \in Seq(S) /\ Len(kept) \in Nat
      /\ \A i \in 1 .. Len(kept) : kept[i] \in S /\ IsShown(fs, kept[i])
      /\ \A x \in S : \E i \in 1 .. Len(kept) : kept[i] = x
      /\ \A i, j \in 1 .. Len(kept) : i < j => Rank[kept[i]] < Rank[kept[j]]
  BY <1>1, KeptIs, Zenon
<1>3. op.offset \in Nat /\ op.depth \in Nat
  BY DEF ListOps
<1>4. /\ walk.found \in SUBSET DOMAIN fs /\ walk.denied \in Nat /\ walk.unreadable \in Nat
      /\ IsFiniteSet(walk.found)
  BY <1>1, WalkIs
<1> HIDE DEF S, kept, walk, reply
<1>5. /\ reply.items \in Seq(S) /\ count \in Nat
      /\ \A i \in 1 .. count :
            /\ op.offset + i \in 1 .. Len(kept)
            /\ reply.items[i] = kept[op.offset + i]
      /\ reply.truncated = (op.offset + count < Len(kept))
  <2>1. LET page == ListPage(op, base, walk, kept) IN
        /\ page.items \in Seq(S) /\ Len(page.items) \in Nat
        /\ \A i \in 1 .. Len(page.items) :
              /\ op.offset + i \in 1 .. Len(kept)
              /\ page.items[i] = kept[op.offset + i]
        /\ page.truncated = (op.offset + Len(page.items) < Len(kept))
    BY <1>2, PageOfKept
  <2> QED BY <1>1, <2>1, Zenon
<1>6. /\ reply.denied = walk.denied /\ reply.unreadable = walk.unreadable
      /\ reply.reason = IF kept # <<>> THEN "none"
                        ELSE Explain(Cardinality(walk.found), 0, 0, op.globbed)
  <2>1. LET page == ListPage(op, base, walk, kept) IN
        /\ page.denied = walk.denied /\ page.unreadable = walk.unreadable
        /\ page.reason = IF kept # <<>> THEN "none"
                         ELSE Explain(Cardinality(walk.found), 0, 0, op.globbed)
    BY DEF ListPage
  <2> QED BY <1>1, <2>1, Zenon
<1>7. DOMAIN reply.items = 1 .. count /\ Range(reply.items) = {reply.items[i] : i \in 1 .. count}
  <2>1. DOMAIN reply.items = 1 .. count
    BY <1>5
  <2> QED BY <2>1 DEF Range
<1>8. \A p \in Range(reply.items) : IsShown(fs, p)
  <2> SUFFICES ASSUME NEW i \in 1 .. count PROVE IsShown(fs, reply.items[i])
    BY <1>7
  <2>1. op.offset + i \in 1 .. Len(kept) /\ reply.items[i] = kept[op.offset + i]
    BY <1>5
  <2> DEFINE k == op.offset + i
  <2> HIDE DEF k
  <2>2. k \in 1 .. Len(kept) /\ reply.items[i] = kept[k]
    BY <2>1 DEF k
  <2> QED BY <1>2, <2>2
<1>9. /\ \A i \in 1 .. Len(kept) : kept[i] \in S
      /\ \A i, j \in 1 .. Len(kept) : i < j => Rank[kept[i]] < Rank[kept[j]]
  BY <1>2
(* What is left out is before the page, or after it.                       *)
<1>10. ASSUME NEW p \in LeftOut(fs, op, reply)
       PROVE  \E k \in 1 .. Len(kept) :
                 /\ kept[k] = p /\ ~(k > op.offset /\ k <= op.offset + count)
  <2>1. /\ InGlob(op, p) /\ p \in Candidates(fs, base, op, op.depth, op.ignored)
        /\ p \notin Range(reply.items) /\ ~Accounted(fs, reply, p)
    BY DEF Candidates, LeftOut
  <2>2. \/ p \in walk.found
        \/ PolicyHides(fs, base, p) /\ walk.denied > 0
        \/ OsHides(fs, base, p) /\ walk.unreadable > 0
    BY <1>1, <1>3, <2>1, HiddenIsCounted DEF walk
  <2>3. p \in S
    BY <1>6, <2>1, <2>2, Zenon DEF Accounted, S
  <2>4. PICK k \in 1 .. Len(kept) : kept[k] = p
    BY <1>2, <2>3
  <2>5. ASSUME k > op.offset, k <= op.offset + count PROVE FALSE
    <3> DEFINE i == k - op.offset
    <3>1. i \in 1 .. count /\ op.offset + i = k
      <4>1. k \in Nat /\ op.offset \in Nat /\ count \in Nat
        BY <1>2, <1>3, <1>5
      <4> HIDE DEF count
      <4> QED BY <2>5, <4>1
    <3> HIDE DEF i
    <3>2. reply.items[i] = p
      BY <1>5, <2>4, <3>1, Zenon
    <3> QED BY <1>7, <2>1, <3>1, <3>2, Zenon
  <2> QED BY <2>4, <2>5, Zenon
<1>12. ASSUME NEW k \in 1 .. Len(kept), NEW i \in 1 .. count
       PROVE  /\ k <= op.offset => Rank[kept[k]] < Rank[reply.items[i]]
              /\ k > op.offset + count => Rank[reply.items[i]] < Rank[kept[k]]
  <2> DEFINE m == op.offset + i
  <2>1. m \in 1 .. Len(kept) /\ reply.items[i] = kept[m]
    BY <1>5
  <2>2. (k <= op.offset => k < m) /\ (k > op.offset + count => m < k)
    <3>1. k \in Nat /\ op.offset \in Nat /\ count \in Nat /\ i \in 1 .. count
      BY <1>2, <1>3, <1>5
    <3> HIDE DEF count
    <3> QED BY <3>1
  <2> HIDE DEF m
  <2> QED BY <1>9, <2>1, <2>2
<1>13. ASSUME NEW k \in 1 .. Len(kept), ~(k > op.offset /\ k <= op.offset + count)
       PROVE  \/ k <= op.offset /\ op.offset > 0
              \/ reply.truncated /\ k > op.offset + count
  <2>1. k \in Nat /\ k >= 1 /\ op.offset \in Nat /\ count \in Nat /\ Len(kept) \in Nat /\ k <= Len(kept)
    BY <1>2, <1>3, <1>5
  <2>2. reply.truncated = (op.offset + count < Len(kept))
    BY <1>5
  <2> HIDE DEF count
  <2>3. k <= op.offset \/ k > op.offset + count
    BY <1>13, <2>1
  <2>4. k <= op.offset => op.offset > 0
    BY <2>1
  <2>5. k > op.offset + count => op.offset + count < Len(kept)
    BY <2>1
  <2> QED BY <2>2, <2>3, <2>4, <2>5
<1>14. ASSUME NEW p \in LeftOut(fs, op, reply)
       PROVE  \/ p \in Skips(fs, op, reply) /\ op.offset > 0
              \/ reply.truncated /\ \A q \in Range(reply.items) : Rank[q] < Rank[p]
  <2>1. PICK k \in 1 .. Len(kept) :
           kept[k] = p /\ ~(k > op.offset /\ k <= op.offset + count)
    BY <1>10
  <2> HIDE DEF count
  <2>2. CASE k <= op.offset /\ op.offset > 0
    <3>1. \A q \in Range(reply.items) : Rank[p] < Rank[q]
      BY <1>7, <1>12, <2>1, <2>2, Zenon
    <3> QED BY <2>2, <3>1 DEF Skips
  <2>3. CASE reply.truncated /\ k > op.offset + count
    BY <1>7, <1>12, <2>1, <2>3, Zenon
  <2> QED BY <1>13, <2>1, <2>2, <2>3, Zenon
(* Those before are among the first ones kept, as many as the offset.      *)
<1>15. ASSUME reply.items # <<>> \/ ~reply.truncated
       PROVE  Cardinality(Skips(fs, op, reply)) <= op.offset
  <2> DEFINE f == [i \in 1 .. op.offset |-> kept[i]]
             T == {f[i] : i \in 1 .. op.offset}
  <2>1. ASSUME NEW p \in Skips(fs, op, reply) PROVE p \in T
    <3>1. p \in LeftOut(fs, op, reply) /\ \A q \in Range(reply.items) : Rank[p] < Rank[q]
      BY DEF Skips
    <3>2. PICK k \in 1 .. Len(kept) :
             kept[k] = p /\ ~(k > op.offset /\ k <= op.offset + count)
      BY <1>10, <3>1
    <3>3. CASE k <= op.offset
      <4>1. k \in 1 .. op.offset
        BY <1>2, <1>3, <3>3
      <4> QED BY <3>2, <4>1
    <3>4. CASE reply.truncated /\ k > op.offset + count
      <4>1. 1 \in 1 .. count
        <5>1. reply.items # <<>>
          BY <1>15, <3>4
        <5>2. count # 0
          BY <1>5, <5>1, EmptySeq
        <5>3. count \in Nat
          BY <1>5
        <5> HIDE DEF count
        <5> QED BY <5>2, <5>3
      <4> HIDE DEF count
      <4>2. reply.items[1] \in Range(reply.items)
        BY <1>7, <4>1, Zenon
      <4>3. Rank[reply.items[1]] < Rank[p] /\ Rank[p] < Rank[reply.items[1]]
        BY <1>12, <3>1, <3>2, <3>4, <4>1, <4>2, Zenon
      <4>4. p \in DOMAIN fs /\ reply.items[1] \in DOMAIN fs
        BY <1>4, <1>5, <1>9, <3>2, <4>1 DEF S
      <4>5. Rank[p] \in Nat /\ Rank[reply.items[1]] \in Nat
        BY <4>4 DEF Keyed
      <4> QED BY <4>3, <4>5
    <3>5. k <= op.offset \/ (reply.truncated /\ k > op.offset + count)
      BY <1>13, <3>2
    <3> HIDE DEF count
    <3> QED BY <3>3, <3>4, <3>5, Zenon
  <2>2. IsFiniteSet(1 .. op.offset) /\ Cardinality(1 .. op.offset) = op.offset
    <3> DEFINE n == op.offset
    <3>1. n \in Nat
      BY <1>3
    <3> HIDE DEF n
    <3>2. IsFiniteSet(1 .. n) /\ Cardinality(1 .. n) = IF 1 > n THEN 0 ELSE n - 1 + 1
      BY <3>1, FS_Interval
    <3>3. IsFiniteSet(1 .. n) /\ Cardinality(1 .. n) = n
      BY <3>1, <3>2
    <3> QED BY <3>3 DEF n
  <2>3. f \in Surjection(1 .. op.offset, T)
    BY DEF Surjection
  <2> HIDE DEF f, T
  <2>4. IsFiniteSet(T) /\ Cardinality(T) <= op.offset
    BY <2>2, <2>3, FS_Surjection
  <2>5. /\ Cardinality(Skips(fs, op, reply)) \in Nat /\ Cardinality(T) \in Nat
        /\ Cardinality(Skips(fs, op, reply)) <= Cardinality(T)
    BY <2>1, <2>4, FS_Subset, FS_CardinalityType
  <2> QED BY <1>3, <2>4, <2>5
<1>11. ASSUME reply.items = <<>>, op.offset = 0, ~reply.truncated PROVE reply.reason # "none"
  <2>1. count = 0
    BY <1>11, EmptySeq
  <2>2. Len(kept) = 0
    <3>1. ~(op.offset + count < Len(kept))
      BY <1>5, <1>11, Zenon
    <3> HIDE DEF count
    <3> QED BY <1>2, <1>11, <2>1, <3>1
  <2>3. kept = <<>>
    BY <1>2, <2>2, EmptySeq
  <2>4. S = {}
    BY <1>2, <2>2
  <2>5. ~op.globbed => Cardinality(walk.found) = 0
    <3>1. ~op.globbed => walk.found = {}
      BY <2>4 DEF S, InGlob
    <3> QED BY <3>1, FS_EmptySet
  <2>6. Explain(Cardinality(walk.found), 0, 0, op.globbed) # "none"
    <3> DEFINE c == Cardinality(walk.found)
    <3>1. ~op.globbed => c = 0
      BY <2>5
    <3> HIDE DEF c
    <3>2. Explain(c, 0, 0, op.globbed) # "none"
      BY <3>1 DEF Explain
    <3> QED BY <3>2 DEF c
  <2> QED BY <1>6, <2>3, <2>6, Zenon
<1> QED BY <1>8, <1>11, <1>14, <1>15 DEF reply, ListIsCounted

-----------------------------------------------------------------------------
(* What a search does not show it accounts for.                            *)

(* What a search that does not fail has gone through.                      *)
IsSearched(fs, op, reply, walk, files, end) ==
    LET base == reply.base IN
    /\ base \in DOMAIN fs /\ Under(Root, base) /\ ~Denied(fs, base)
    /\ \/ fs[base].kind = "file" /\ files = {base}
       \/ /\ fs[base].kind = "dir" /\ fs[base].open /\ walk = Walk(fs, base, Far, FALSE)
          /\ files = {p \in walk.found : fs[p].kind = "file"}
    /\ end \in Searches(fs, files, op.max) /\ Searched(fs, op, walk, end, files)
    /\ walk.denied \in Nat /\ walk.unreadable \in Nat
    /\ reply.type = "matches" /\ ~end.failed
    /\ reply.items = end.hits /\ reply.truncated = end.truncated
    /\ reply.denied = end.denied /\ reply.unreadable = end.unreadable
    /\ reply.classified = end.classified /\ reply.searched = end.opened
    /\ reply.reason = IF end.hits # <<>> THEN "none"
                      ELSE Explain(Cardinality(files), end.kept, end.opened, op.globbed)
    /\ \A p \in files : IsShown(fs, p) /\ fs[p].kind = "file"
    /\ IsFiniteSet(files)

LEMMA SearchIs ==
    ASSUME NEW fs, IsTree(fs), Keyed(DOMAIN fs, Rank), NEW op \in SearchOps,
           Search(fs, op).type # "error"
    PROVE  \E walk, files, end : IsSearched(fs, op, Search(fs, op), walk, files, end)
<1> DEFINE reply == Search(fs, op)
<1>1. op.rel \in Paths /\ ResolveExisting(fs, op.rel).type # "error"
  BY DEF Search, SearchOps
<1>2. PICK q \in DOMAIN fs :
        /\ ResolveExisting(fs, op.rel) = At(q)
        /\ fs[q].kind # "link" /\ Under(Root, q) /\ ~Denied(fs, q)
  BY <1>1, ResolvedIs
<1>3. At(q).type # "error" /\ At(q).path = q
  BY <1>1, <1>2 DEF At
<1>4. fs[q].kind \in {"dir", "file"}
  BY <1>2, EntryIs
<1>5. IsShown(fs, q)
  BY <1>2 DEF IsShown
<1> DEFINE addressed == fs[q].kind = "file"
           walk == IF addressed THEN NoWalk ELSE Walk(fs, q, Far, FALSE)
           files == Scope(fs, q, addressed, walk)
<1>6. /\ reply = SearchOver(fs, op, q, addressed, walk)
      /\ ~addressed => fs[q].open
  <2>1. CASE addressed
    BY <1>1, <1>2, <1>3, <2>1 DEF Search
  <2>2. CASE ~addressed
    BY <1>1, <1>2, <1>3, <2>2 DEF Search, Error
  <2> QED BY <2>1, <2>2
<1>7. /\ walk.denied \in Nat /\ walk.unreadable \in Nat
      /\ ~addressed => /\ walk.found \in SUBSET DOMAIN fs /\ IsFiniteSet(walk.found)
                       /\ \A p \in walk.found : IsShown(fs, p)
  <2>1. CASE addressed
    BY <2>1 DEF NoWalk
  <2>2. CASE ~addressed
    BY <1>2, <2>2, WalkIs
  <2> QED BY <2>1, <2>2
<1>8. /\ \/ addressed /\ files = {q}
         \/ /\ ~addressed /\ walk = Walk(fs, q, Far, FALSE)
            /\ files = {p \in walk.found : fs[p].kind = "file"}
      /\ files \in SUBSET DOMAIN fs
      /\ \A p \in files : IsShown(fs, p) /\ fs[p].kind = "file"
  <2>1. CASE addressed
    BY <1>5, <2>1 DEF Scope
  <2>2. CASE ~addressed
    BY <1>7, <2>2 DEF Scope
  <2> QED BY <2>1, <2>2
<1>9. IsFiniteSet(files)
  BY <1>8, FS_Subset DEF IsTree
<1> HIDE DEF reply, addressed, walk
<1>10. PICK end \in Searches(fs, files, op.max) :
          /\ Searched(fs, op, walk, end, files)
          /\ Reports(SearchOver(fs, op, q, addressed, walk), op, q, files, end)
  BY <1>7, <1>8, SearchRuns
<1> HIDE DEF files
<1>11. ~end.failed
  <2>1. end.failed => reply = Error("not_readable")
    BY <1>6, <1>10, Zenon DEF Reports
  <2> QED BY <2>1 DEF Error, reply
<1>12. /\ reply.base = q /\ reply.type = "matches"
       /\ reply.items = end.hits /\ reply.truncated = end.truncated
       /\ reply.denied = end.denied /\ reply.unreadable = end.unreadable
       /\ reply.classified = end.classified /\ reply.searched = end.opened
       /\ reply.reason = IF end.hits # <<>> THEN "none"
                         ELSE Explain(Cardinality(files), end.kept, end.opened, op.globbed)
  BY <1>6, <1>10, <1>11 DEF Reports
<1>13. \/ fs[q].kind = "file" /\ files = {q}
       \/ /\ fs[q].kind = "dir" /\ fs[q].open /\ walk = Walk(fs, q, Far, FALSE)
          /\ files = {p \in walk.found : fs[p].kind = "file"}
  BY <1>4, <1>6, <1>8 DEF addressed
<1>14. IsSearched(fs, op, reply, walk, files, end)
  BY <1>2, <1>7, <1>8, <1>9, <1>10, <1>11, <1>12, <1>13, Zenon DEF IsSearched
<1> QED BY <1>14 DEF reply

(* What a search shows of a file.                                          *)
LEMMA SearchShows ==
    ASSUME NEW fs, NEW op \in SearchOps, NEW reply, NEW walk, NEW files, NEW end,
           IsSearched(fs, op, reply, walk, files, end)
    PROVE  \A h \in Range(reply.items) :
              /\ IsShown(fs, h.path) /\ ~Marked(Contents[fs[h.path].holds])
              /\ Classified(h.path) => h.kind # "secret"
<1>1. end.hits \in Seq(HitsIn(fs, files)) /\ reply.items = end.hits
  BY DEF IsSearched, Searches
<1>2. \A h \in Range(reply.items) : h \in HitsIn(fs, files)
  BY <1>1 DEF Range
<1>3. \A h \in HitsIn(fs, files) : /\ h.path \in files /\ ~Marked(Contents[fs[h.path].holds])
                                   /\ Classified(h.path) => h.kind # "secret"
  BY DEF HitsIn
<1>4. \A p \in files : IsShown(fs, p)
  BY DEF IsSearched
<1> QED BY <1>2, <1>3, <1>4, Zenon

LEMMA SearchTells ==
    ASSUME NEW fs, IsTree(fs), NEW op \in SearchOps, NEW reply, NEW walk, NEW files, NEW end,
           IsSearched(fs, op, reply, walk, files, end)
    PROVE  SearchIsCounted(fs, op, reply)
<1> DEFINE base == reply.base
           all == FilesOf(fs, op, base)
<1>1. /\ end \in Searches(fs, files, op.max) /\ Searched(fs, op, walk, end, files)
      /\ walk.denied \in Nat /\ walk.unreadable \in Nat /\ ~end.failed
      /\ reply.items = end.hits /\ reply.truncated = end.truncated
      /\ reply.denied = end.denied /\ reply.unreadable = end.unreadable
      /\ reply.classified = end.classified /\ reply.searched = end.opened
      /\ base \in DOMAIN fs /\ Far \in Nat
  BY ReadingAssumption DEF IsSearched
<1>2. /\ end.denied \in Nat /\ end.unreadable \in Nat /\ end.classified \in Nat
      /\ end.kept \in Nat /\ end.opened \in Nat /\ end.truncated \in BOOLEAN
  BY <1>1 DEF Searches
<1>3. /\ walk.denied > 0 => reply.denied > 0
      /\ walk.unreadable > 0 => reply.unreadable > 0
  BY <1>1, <1>2 DEF Searched
(* A file that was in the scope.                                           *)
<1>4. ASSUME NEW p \in files, ~reply.truncated, InGlob(op, p)
      PROVE  end.kept > 0 /\ (Unsearched(fs, reply, p) \/ AllHit(fs, reply.items, p))
  <2>1. ~end.truncated
    BY <1>1, <1>4, Zenon
  <2>2. end.kept > 0 /\ Explained(fs, end, p)
    BY <1>1, <1>4, <2>1, Zenon DEF Searched
  <2> QED BY <1>1, <2>2, Zenon DEF Explained, Unsearched
<1>5. ASSUME NEW p \in all, ~reply.truncated, InGlob(op, p)
      PROVE  /\ Unsearched(fs, reply, p) \/ AllHit(fs, reply.items, p)
             /\ p \notin files => Accounted(fs, reply, p)
  <2>1. CASE p \in files
    BY <1>4, <1>5, <2>1
  <2>2. CASE p \notin files
    <3>1. /\ fs[base].kind = "dir" /\ fs[base].open /\ walk = Walk(fs, base, Far, FALSE)
          /\ files = {q \in walk.found : fs[q].kind = "file"}
          /\ p \in Candidates(fs, base, op, Far, FALSE) /\ fs[p].kind = "file"
      <4>1. CASE fs[base].kind = "file"
        BY <1>5, <2>2, <4>1 DEF IsSearched, FilesOf
      <4>2. CASE fs[base].kind # "file"
        BY <1>5, <2>2, <4>2 DEF IsSearched, FilesOf
      <4> QED BY <4>1, <4>2
    <3>2. p \notin walk.found
      BY <2>2, <3>1
    <3>3. \/ PolicyHides(fs, base, p) /\ walk.denied > 0
          \/ OsHides(fs, base, p) /\ walk.unreadable > 0
      BY <1>1, <3>1, <3>2, HiddenIsCounted
    <3>4. Accounted(fs, reply, p)
      BY <1>3, <3>3 DEF Accounted
    <3> QED BY <3>4 DEF Unsearched
  <2> QED BY <2>1, <2>2
<1>6. reply.truncated => Len(reply.items) = op.max
  BY <1>1, Zenon DEF Searched
<1>g. \A p \in all : InGlob(op, p)
  BY DEF FilesOf, Candidates
(* One that was looked into is none of those that are not.                 *)
<1>7. ASSUME NEW p \in files, InGlob(op, p), ~Closed(fs, p)
      PROVE  p \in all /\ ~Unsearched(fs, reply, p)
  <2>1. p \in all /\ ~PolicyHides(fs, base, p) /\ ~OsHides(fs, base, p)
    <3>1. CASE fs[base].kind = "file"
      <4>1. p = base /\ p \in all
        BY <1>7, <3>1 DEF IsSearched, FilesOf
      <4>2. Len(base) \in Nat
        BY <1>1 DEF IsTree, Paths
      <4>3. Len(base) + 1 .. Len(base) = {} /\ Len(base) + 1 .. Len(base) - 1 = {}
        BY <4>2
      <4> QED BY <4>1, <4>3, Zenon DEF PolicyHides, OsHides
    <3>2. CASE fs[base].kind # "file"
      <4>1. /\ walk = Walk(fs, base, Far, FALSE) /\ p \in walk.found /\ fs[p].kind = "file"
        BY <1>7, <3>2 DEF IsSearched
      <4>2. /\ p \in Candidates(fs, base, op, Far, FALSE)
            /\ ~PolicyHides(fs, base, p) /\ ~OsHides(fs, base, p)
        BY <1>1, <1>7, <4>1, FoundIsCandidate
      <4> QED BY <3>2, <4>1, <4>2 DEF FilesOf
    <3> QED BY <3>1, <3>2
  <2> HIDE DEF all
  <2>2. ~Accounted(fs, reply, p)
    BY <2>1 DEF Accounted
  <2> QED BY <1>7, <2>1, <2>2, Zenon DEF Unsearched, Closed
(* Those looked into are those that are neither counted nor passed over.   *)
<1>8. ASSUME NEW p \in all, ~reply.truncated, ~Unsearched(fs, reply, p)
      PROVE  p \in files /\ InGlob(op, p) /\ ~Closed(fs, p)
  <2>1. InGlob(op, p)
    BY DEF FilesOf, Candidates
  <2>2. p \in files
    BY <1>5, <1>8, <2>1, Zenon DEF Unsearched
  <2>3. Explained(fs, end, p) /\ ~end.truncated
    BY <1>1, <1>8, <2>1, <2>2, Zenon DEF Searched
  <2> HIDE DEF all
  <2> QED BY <1>1, <1>8, <2>1, <2>2, <2>3, Zenon DEF Explained, Unsearched
<1>s. ~reply.truncated =>
         reply.searched = Cardinality({p \in all : ~Unsearched(fs, reply, p)})
  <2> SUFFICES ASSUME ~reply.truncated
               PROVE  reply.searched = Cardinality({p \in all : ~Unsearched(fs, reply, p)})
    OBVIOUS
  <2>1. end.opened = Cardinality(Seen(fs, op, files))
    BY <1>1, Zenon DEF Searched
  <2> HIDE DEF all
  <2>2. Seen(fs, op, files) = {p \in all : ~Unsearched(fs, reply, p)}
    BY <1>7, <1>8, Zenon DEF Seen
  <2> QED BY <1>1, <2>1, <2>2, Zenon
<1>r. ASSUME reply.searched = 0 PROVE reply.reason # "none"
  <2> HIDE DEF all
  <2> DEFINE c == Cardinality(files)
  <2>1. end.opened = 0 /\ end.hits = <<>>
    BY <1>1, <1>r, Zenon DEF Searched
  <2>2. reply.reason = Explain(c, end.kept, end.opened, op.globbed)
    BY <2>1 DEF IsSearched
  <2>3. ~reply.truncated
    <3>1. ~end.truncated
      BY <1>1, <2>1 DEF Searched
    <3> QED BY <1>1, <3>1, Zenon
  <2>4. c # 0 => files # {}
    BY FS_EmptySet
  <2>5. c # 0 /\ ~op.globbed => end.kept > 0
    <3> SUFFICES ASSUME NEW p \in files, ~op.globbed PROVE end.kept > 0
      BY <2>4
    <3>1. InGlob(op, p)
      BY DEF InGlob
    <3> QED BY <1>4, <2>3, <3>1, Zenon
  <2> HIDE DEF c
  <2>6. Explain(c, end.kept, end.opened, op.globbed) # "none"
    <3> DEFINE k == end.kept
    <3>1. k \in Nat /\ (c # 0 /\ ~op.globbed => k > 0)
      BY <1>2, <2>5
    <3> HIDE DEF k
    <3>2. Explain(c, k, 0, op.globbed) # "none"
      BY <3>1 DEF Explain
    <3> QED BY <2>1, <3>2 DEF k
  <2> QED BY <2>2, <2>6, Zenon
<1>9. ASSUME NEW p, AllHit(fs, reply.items, p)
      PROVE  \A i \in Matching(Rendering(fs[p].holds, Classified(p))) :
                \E h \in Range(reply.items) : h.path = p /\ h.line = i
  <2>1. DOMAIN reply.items = 1 .. Len(reply.items)
    BY <1>1 DEF Searches
  <2> QED BY <1>9, <2>1, Zenon DEF AllHit, Range
<1> HIDE DEF all
<1>10. \A p \in all :
          \/ reply.truncated
          \/ Unsearched(fs, reply, p)
          \/ \A i \in Matching(Rendering(fs[p].holds, Classified(p))) :
                \E h \in Range(reply.items) : h.path = p /\ h.line = i
  BY <1>5, <1>9, <1>g, Zenon
<1> QED BY <1>6, <1>s, <1>r, <1>10, Zenon DEF all, base, SearchIsCounted

-----------------------------------------------------------------------------
(* Whatever is answered may be shown.                                      *)

LEMMA StatIs ==
    ASSUME NEW fs, IsTree(fs), NEW rel \in Paths, Stat(fs, rel).type # "error"
    PROVE  Stat(fs, rel).type = "stat" /\ IsShown(fs, Stat(fs, rel).path)
<1> DEFINE names == Cleaned(rel)
<1>1. names \in Paths /\ Root \in Paths
  BY CleanedIsAPath, AccessAssumption
<1>2. ASSUME NEW p, StatEntry(fs, p).type # "error"
      PROVE  /\ StatEntry(fs, p).type = "stat" /\ StatEntry(fs, p).path = p
             /\ p \in DOMAIN fs /\ ~Denied(fs, p)
  BY <1>2 DEF StatEntry, Error
<1>3. CASE names = <<>>
  <2>1. Stat(fs, rel) = StatEntry(fs, Root)
    BY <1>3 DEF Stat, Error
  <2> QED BY <1>1, <1>2, <2>1, UnderItself DEF IsShown
<1>4. CASE names # <<>>
  <2> DEFINE at == ResolveExisting(fs, Front(names))
             p == Append(at.path, Last(names))
  <2>1. Front(names) \in Paths
    <3>1. Len(names) \in Nat /\ Len(names) # 0
      BY <1>1, <1>4, EmptySeq DEF Paths
    <3>2. Len(names) - 1 \in 0 .. Len(names)
      BY <3>1
    <3> HIDE DEF names
    <3> QED BY <1>1, <3>2, CutPath DEF Front
  <2>2. at.type # "error" /\ Stat(fs, rel) = StatEntry(fs, p)
    BY <1>4 DEF Stat, Error
  <2>3. PICK q \in DOMAIN fs : at = At(q) /\ Under(Root, q)
    BY <2>1, <2>2, ResolvedIs
  <2>4. at.path = q /\ q \in Paths
    BY <2>3 DEF At, IsTree
  <2>5. StatEntry(fs, p).type = "stat" /\ StatEntry(fs, p).path = p
        /\ p \in DOMAIN fs /\ ~Denied(fs, p)
    BY <1>2, <2>2
  <2> DEFINE name == Last(names)
  <2>6. p = Append(q, name) /\ p \in Paths
    BY <2>4, <2>5 DEF IsTree
  <2> HIDE DEF at, name
  <2>7. Under(Root, p)
    <3> DEFINE r == Append(q, name)
    <3>1. r = q \o <<name>>
      BY <2>4 DEF Paths
    <3>2. /\ Len(r) = Len(q) + 1 /\ Len(q) \in Nat
          /\ \A i \in 1 .. Len(q) : r[i] = q[i]
      BY <2>4 DEF Paths
    <3>3. Len(Root) <= Len(q) /\ \A i \in 1 .. Len(Root) : Root[i] = q[i]
      BY <1>1, <2>3, <2>4, UnderBy
    <3>4. Len(Root) \in Nat
      BY <1>1 DEF Paths
    <3> HIDE DEF r
    <3>5. Len(Root) <= Len(r) /\ \A i \in 1 .. Len(Root) : Root[i] = r[i]
      BY <3>2, <3>3, <3>4
    <3>6. Under(Root, r)
      BY <1>1, <2>6, <3>5, UnderBy DEF r
    <3> QED BY <2>6, <3>6 DEF r
  <2> HIDE DEF p
  <2> QED BY <2>2, <2>5, <2>7 DEF IsShown
<1> QED BY <1>3, <1>4

(* A name the server denies is refused.                                    *)
LEMMA DeniedIsRefused ==
    ASSUME NEW fs, NEW rel, ~Escapes(rel), DeniedByServer(Root \o Cleaned(rel))
    PROVE  ResolveExisting(fs, rel) = Error("refused")
BY DEF ResolveExisting, Denied

LEMMA RefusedAnswers ==
    ASSUME NEW fs, NEW op, op.tool \in {"read", "list", "search"},
           ResolveExisting(fs, op.rel) = Error("refused")
    PROVE  Answer(fs, op) = Error("refused")
<1>1. Error("refused").type = "error"
  BY DEF Error
<1>2. LoadText(fs, op.rel) = Error("refused")
  BY <1>1 DEF LoadText
<1>3. \A mode, max : Read(fs, op.rel, mode, max) = Error("refused")
  BY <1>1, <1>2 DEF Read
<1>4. List(fs, op) = Error("refused") /\ Search(fs, op) = Error("refused")
  BY <1>1 DEF List, Search
<1> QED BY <1>3, <1>4 DEF Answer

(* What an answer shows is what it may.                                    *)
LEMMA ShownMayBe ==
    ASSUME NEW fs, IsTree(fs), NEW op, NEW p, IsShown(fs, p)
    PROVE  MayShow(fs, op, [path |-> p, kinds |-> {}])
BY ThereIsReal DEF IsShown, MayShow, Denied

LEMMA PageMayBe ==
    ASSUME NEW fs, IsTree(fs), NEW op, NEW page, IsServed(fs, page)
    PROVE  MayShow(fs, op, [path |-> page.path, kinds |-> {i.kind : i \in Range(page.items)}])
<1> DEFINE kinds == {i.kind : i \in Range(page.items)}
<1>1. /\ IsShown(fs, page.path) /\ ~Marked(Contents[fs[page.path].holds])
      /\ page.redacted = Classified(page.path)
      /\ \A i \in 1 .. Len(page.items) : page.redacted => page.items[i].kind # "secret"
      /\ page.items \in Seq(Item)
  BY DEF IsServed
<1>2. \A i \in Range(page.items) : page.redacted => i.kind # "secret"
  BY <1>1 DEF Range
<1>3. Classified(page.path) => "secret" \notin kinds
  BY <1>1, <1>2
<1> HIDE DEF kinds
<1>4. IsReal(fs, page.path)
  BY <1>1, ThereIsReal DEF IsShown
<1> QED BY <1>1, <1>3, <1>4 DEF MayShow, Denied, IsShown, kinds

LEMMA AnswerMayBe ==
    ASSUME NEW fs, IsTree(fs), Keyed(DOMAIN fs, Rank), NEW op \in Ops
    PROVE  \A s \in Shown(Answer(fs, op)) : MayShow(fs, op, s)
<1> DEFINE reply == Answer(fs, op)
<1>e. reply.type = "error" => Shown(reply) = {}
  BY DEF Shown
<1>p. ASSUME IsServed(fs, reply) PROVE \A s \in Shown(reply) : MayShow(fs, op, s)
  <2>1. Shown(reply) = {[path |-> reply.path, kinds |-> {i.kind : i \in Range(reply.items)}]}
    BY <1>p DEF Shown, IsServed
  <2> QED BY <1>p, <2>1, PageMayBe
<1>1. CASE op \in [tool : {"read"}, rel : Paths, mode : Modes, max : Nat]
  <2>1. /\ reply = Read(fs, op.rel, op.mode, op.max)
        /\ op.rel \in Paths /\ op.mode \in Modes /\ op.max \in Nat
    BY <1>1 DEF Answer
  <2>2. reply.type = "error" \/ IsServed(fs, reply)
    BY <2>1, ReadIs
  <2> QED BY <1>e, <1>p, <2>2
<1>2. CASE op \in [tool : {"read_many"}, rels : Seq(Paths), numbered : BOOLEAN, max : Nat]
  <2>1. /\ reply = ReadMany(fs, op.rels, op.numbered, op.max)
        /\ op.rels \in Seq(Paths) /\ op.max \in Nat
    BY <1>2 DEF Answer
  <2>2. CASE reply.type # "error"
    <3>1. /\ reply.type = "files" /\ DOMAIN reply.files = 1 .. Len(reply.files)
          /\ \A i \in 1 .. Len(reply.files) : IsOneOf(fs, reply.files[i])
      BY <2>1, <2>2, ManyRuns
    <3>2. \A p \in Range(reply.files) : p.type = "page" => IsServed(fs, p)
      BY <3>1, OneIs DEF Range
    <3>3. Shown(reply) = {[path |-> p.path, kinds |-> {i.kind : i \in Range(p.items)}] : p \in PagesOf(reply)}
      BY <3>1 DEF Shown
    <3>4. PagesOf(reply) = {p \in Range(reply.files) : p.type = "page"}
      BY <3>1 DEF PagesOf
    <3> HIDE DEF reply
    <3>6. \A s \in Shown(reply) : MayShow(fs, op, s)
      BY <3>2, <3>3, <3>4, PageMayBe
    <3> QED BY <3>6 DEF reply
  <2> QED BY <1>e, <2>2
<1>3. CASE op \in ListOps
  <2>1. reply = List(fs, op)
    BY <1>3 DEF Answer, ListOps
  <2>2. CASE reply.type # "error"
    <3>1. reply.type = "entries"
      BY <1>3, <2>1, <2>2, ListIs
    <3>2. \A p \in Range(reply.items) : IsShown(fs, p)
      BY <1>3, <2>1, <2>2, ListTells
    <3>3. Shown(reply) = {[path |-> p, kinds |-> {}] : p \in Range(reply.items)}
      BY <3>1 DEF Shown
    <3>6. \A s \in Shown(reply) : MayShow(fs, op, s)
      BY <3>2, <3>3, ShownMayBe
    <3> QED BY <3>6 DEF reply
  <2> QED BY <1>e, <2>2
<1>4. CASE op \in SearchOps
  <2>1. reply = Search(fs, op)
    BY <1>4 DEF Answer, SearchOps
  <2>2. CASE reply.type # "error"
    <3>1. PICK walk, files, end : IsSearched(fs, op, reply, walk, files, end)
      BY <1>4, <2>1, <2>2, SearchIs
    <3>2. reply.type = "matches"
      BY <3>1 DEF IsSearched
    <3> HIDE DEF reply
    <3>3. \A h \in Range(reply.items) :
              /\ IsShown(fs, h.path) /\ ~Marked(Contents[fs[h.path].holds])
              /\ Classified(h.path) => h.kind # "secret"
      BY <1>4, <3>1, SearchShows
    <3>4. Shown(reply) = {[path |-> h.path, kinds |-> {h.kind}] : h \in Range(reply.items)}
      BY <3>2 DEF Shown
    <3>5. ASSUME NEW h \in Range(reply.items)
          PROVE  MayShow(fs, op, [path |-> h.path, kinds |-> {h.kind}])
      BY <3>3, ThereIsReal DEF MayShow, Denied, IsShown
    <3>6. \A s \in Shown(reply) : MayShow(fs, op, s)
      BY <3>4, <3>5
    <3> QED BY <3>6 DEF reply
  <2> QED BY <1>e, <2>2
<1>5. CASE op \in [tool : {"stat", "create"}, rel : Paths]
  <2>1. op.tool \in {"stat", "create"} /\ op.rel \in Paths
    BY <1>5
  <2>2. CASE op.tool = "stat" /\ reply.type # "error"
    <3>1. reply = Stat(fs, op.rel)
      BY <2>2 DEF Answer
    <3>2. reply.type = "stat" /\ IsShown(fs, reply.path)
      BY <2>1, <2>2, <3>1, StatIs
    <3> HIDE DEF reply
    <3>3. Shown(reply) = {[path |-> reply.path, kinds |-> {}]}
      BY <3>2 DEF Shown
    <3>6. \A s \in Shown(reply) : MayShow(fs, op, s)
      BY <3>2, <3>3, ShownMayBe
    <3> QED BY <3>6 DEF reply
  <2>3. CASE op.tool = "create" /\ reply.type # "error"
    <3>1. reply = ResolveCreatable(fs, op.rel)
      BY <2>3 DEF Answer
    <3>2. PICK out \in Paths :
             /\ reply = At(out)
             /\ Under(Root, out) /\ ~Denied(fs, out)
             /\ IsReal(fs, out) \/ Blocked(fs, out)
      BY <2>1, <2>3, <3>1, CreatableIs
    <3> HIDE DEF reply
    <3>3. reply.type = "at" /\ reply.path = out
      BY <3>2 DEF At
    <3>4. Shown(reply) = {[path |-> out, kinds |-> {}]}
      BY <3>3 DEF Shown
    <3>5. MayShow(fs, op, [path |-> out, kinds |-> {}])
      BY <2>3, <3>2 DEF MayShow, Denied
    <3>6. \A s \in Shown(reply) : MayShow(fs, op, s)
      BY <3>4, <3>5
    <3> QED BY <3>6 DEF reply
  <2> QED BY <1>e, <2>1, <2>2, <2>3
<1> QED BY <1>1, <1>2, <1>3, <1>4, <1>5 DEF Ops, ListOps, SearchOps

-----------------------------------------------------------------------------
(* Calls and their pages.                                                  *)

(* What paging rests on: every page an agent has is the answer to what it  *)
(* asked on some tree, and each was asked for where the one before ended.  *)
Paging ==
    {page \in {[op |-> op, on |-> i, reply |-> Answer(Trees[i], op)] : op \in Ops, i \in DOMAIN Trees} :
        page.reply.type \in {"page", "entries"}}

Follows(page, op) ==
    /\ page.reply.next # None
    /\ page.op.tool = "read" => page.op.mode.type \in {"whole", "range"}
    /\ op = Resumed(page.op, page.reply.next)

IsCall(phase, call) ==
    /\ call.pages \in Seq(Paging)
    /\ \A i \in 1 .. Len(call.pages) - 1 : Follows(call.pages[i], call.pages[i + 1].op)
    /\ phase \in {"asking", "ready"} =>
          /\ call.op \in Ops
          /\ call.pages # <<>> => Follows(call.pages[Len(call.pages)], call.op)
    /\ phase = "answered" =>
          /\ call.op \in Ops /\ call.on \in DOMAIN Trees
          /\ call.reply \in {Error("forbidden"), Answer(Trees[call.on], call.op)}

CallsAreRight ==
    /\ tree \in DOMAIN Trees /\ load \in DOMAIN Workloads
    /\ agents = [a \in Agents |-> agents[a]]
    /\ \A a \in Agents : IsCall(front[a].phase, agents[a])

(* Which tools answer with what.                                           *)
ReadOps == [tool : {"read"}, rel : Paths, mode : Modes, max : Nat]
ManyOps == [tool : {"read_many"}, rels : Seq(Paths), numbered : BOOLEAN, max : Nat]
OneOps == [tool : {"stat", "create"}, rel : Paths]

LEMMA OpsAre ==
    ASSUME NEW op \in Ops
    PROVE  op \in ReadOps \/ op \in ManyOps \/ op \in ListOps \/ op \in SearchOps \/ op \in OneOps
BY DEF Ops, ReadOps, ManyOps, ListOps, SearchOps, OneOps

LEMMA AnswerTypes ==
    ASSUME NEW fs, IsTree(fs), Keyed(DOMAIN fs, Rank), NEW op \in Ops,
           Answer(fs, op).type # "error"
    PROVE  LET reply == Answer(fs, op) IN
           \/ reply.type = "page" /\ op \in ReadOps /\ reply = Read(fs, op.rel, op.mode, op.max)
           \/ reply.type = "files" /\ op \in ManyOps /\ reply = ReadMany(fs, op.rels, op.numbered, op.max)
           \/ reply.type = "entries" /\ op \in ListOps /\ reply = List(fs, op)
           \/ reply.type = "matches" /\ op \in SearchOps /\ reply = Search(fs, op)
           \/ reply.type = "stat" /\ op \in OneOps
           \/ reply.type = "at" /\ op \in OneOps
<1> DEFINE reply == Answer(fs, op)
<1>e. reply.type # "error"
  OBVIOUS
<1>1. CASE op \in ReadOps
  <2>1. /\ reply = Read(fs, op.rel, op.mode, op.max)
        /\ op.rel \in Paths /\ op.mode \in Modes /\ op.max \in Nat
    BY <1>1 DEF Answer, ReadOps
  <2>2. reply.type = "error" \/ IsServed(fs, reply)
    BY <2>1, ReadIs
  <2> QED BY <1>1, <2>1, <2>2 DEF IsServed
<1>2. CASE op \in ManyOps
  <2>1. /\ reply = ReadMany(fs, op.rels, op.numbered, op.max)
        /\ op.rels \in Seq(Paths) /\ op.max \in Nat
    BY <1>2 DEF Answer, ManyOps
  <2>2. reply.type = "files"
    BY <1>e, <2>1, ManyRuns
  <2> QED BY <1>2, <2>1, <2>2
<1>3. CASE op \in ListOps
  <2>1. reply = List(fs, op)
    BY <1>3 DEF Answer, ListOps
  <2>2. reply.type = "entries"
    BY <1>3, <1>e, <2>1, ListIs
  <2> QED BY <1>3, <2>1, <2>2
<1>4. CASE op \in SearchOps
  <2>1. reply = Search(fs, op)
    BY <1>4 DEF Answer, SearchOps
  <2>2. PICK walk, files, end : IsSearched(fs, op, reply, walk, files, end)
    BY <1>4, <1>e, <2>1, SearchIs
  <2>3. reply.type = "matches"
    BY <2>2 DEF IsSearched
  <2> QED BY <1>4, <2>1, <2>3
<1>5. CASE op \in OneOps
  <2>1. op.tool \in {"stat", "create"} /\ op.rel \in Paths
    BY <1>5 DEF OneOps
  <2>2. CASE op.tool = "stat"
    <3>1. reply = Stat(fs, op.rel)
      BY <2>2 DEF Answer
    <3>2. reply.type = "stat"
      BY <1>e, <2>1, <3>1, StatIs
    <3> QED BY <1>5, <3>2
  <2>3. CASE op.tool = "create"
    <3>1. reply = ResolveCreatable(fs, op.rel)
      BY <2>3 DEF Answer
    <3>2. \E out \in Paths : reply = At(out)
      BY <1>e, <2>1, <3>1, CreatableIs
    <3>3. reply.type = "at"
      BY <3>2 DEF At
    <3> QED BY <1>5, <3>3
  <2> QED BY <2>1, <2>2, <2>3
<1> QED BY <1>1, <1>2, <1>3, <1>4, <1>5, OpsAre

(* A page of a file is a slice of it.                                      *)
IsPart(fs, op, page, loaded, start, end, last, budget) ==
    /\ IsLoaded(fs, loaded) /\ budget \in Nat
    /\ \/ /\ loaded.lines = <<>> /\ start = 1 /\ end = 0 /\ last = 0
          /\ page = PageOf(loaded, start, end, last, budget)
       \/ /\ IsSlice(loaded, page, start, end, last, budget)
          /\ op.mode.type = "whole" => start = 1 /\ end = Len(loaded.lines)
          /\ op.mode.type = "range" =>
                start = op.mode.start /\ end = AtMost(op.mode.end, Len(loaded.lines))

LEMMA PartIs ==
    ASSUME NEW fs, IsTree(fs), NEW op \in ReadOps,
           Read(fs, op.rel, op.mode, op.max).type # "error"
    PROVE  \E loaded, start, end, last, budget :
              IsPart(fs, op, Read(fs, op.rel, op.mode, op.max), loaded, start, end, last, budget)
<1> DEFINE loaded == LoadText(fs, op.rel)
           budget == AtMost(op.max, MaxReadBytes)
           page == Read(fs, op.rel, op.mode, op.max)
<1>1. op.rel \in Paths /\ op.mode \in Modes /\ op.max \in Nat
  BY DEF ReadOps
<1>2. loaded.type # "error" /\ page = Slice(loaded, op.mode, budget)
  BY DEF Read
<1>3. budget \in Nat
  BY <1>1, ReadingAssumption DEF AtMost
<1>4. IsLoaded(fs, loaded)
  BY <1>1, <1>2, LoadTextIs
<1>5. loaded.lines \in Seq(Line) /\ page.type # "error"
  BY <1>4 DEF IsLoaded
<1> HIDE DEF loaded, budget, page
<1>6. \/ loaded.lines = <<>> /\ page = PageOf(loaded, 1, 0, 0, budget)
      \/ \E start, end, last :
            /\ IsSlice(loaded, page, start, end, last, budget)
            /\ op.mode.type = "whole" => start = 1 /\ end = Len(loaded.lines)
            /\ op.mode.type = "range" => start = op.mode.start /\ end = AtMost(op.mode.end, Len(loaded.lines))
  BY <1>1, <1>2, <1>3, <1>5, SliceIs
<1>7. \E start, end, last : IsPart(fs, op, page, loaded, start, end, last, budget)
  BY <1>3, <1>4, <1>6, Zenon DEF IsPart
<1> QED BY <1>7 DEF page

LEMMA PartHas ==
    ASSUME NEW fs, NEW op, NEW page, NEW loaded, NEW start, NEW end, NEW last, NEW budget,
           IsPart(fs, op, page, loaded, start, end, last, budget)
    PROVE  /\ start \in Nat \ {0} /\ end \in Nat /\ last \in Nat /\ budget \in Nat
           /\ start <= last + 1 /\ last <= end /\ end <= Len(loaded.lines)
           /\ Len(loaded.lines) \in Nat
           /\ page = PageOf(loaded, start, end, last, budget)
           /\ HasLines(page, loaded, start, last, budget)
           /\ page.version = loaded.version /\ page.redacted = loaded.redacted
           /\ page.next \in Nat /\ (page.next # None => page.next = last + 1 /\ last < end)
<1>1. loaded.lines \in Seq(Line)
  BY DEF IsPart, IsLoaded
<1>2. Len(loaded.lines) \in Nat /\ (loaded.lines = <<>> => Len(loaded.lines) = 0)
  BY <1>1, SomeLines, EmptySeq
<1>3. /\ start \in Nat \ {0} /\ end \in Nat /\ last \in Nat /\ budget \in Nat
      /\ start <= last + 1 /\ last <= end /\ end <= Len(loaded.lines)
      /\ page = PageOf(loaded, start, end, last, budget)
  BY <1>2 DEF IsPart, IsSlice
<1>4. HasLines(PageOf(loaded, start, end, last, budget), loaded, start, last, budget)
  <2>1. last <= Len(loaded.lines)
    BY <1>2, <1>3
  <2> QED BY <1>1, <1>3, <2>1, PageHas
<1>5. /\ page.version = loaded.version /\ page.redacted = loaded.redacted
      /\ page.next = IF last < end /\ ~(Bytes(SubSeq(loaded.lines, start, last)) > budget)
                     THEN last + 1 ELSE None
  BY <1>3 DEF PageOf
<1>6. page.next \in Nat /\ (page.next # None => page.next = last + 1 /\ last < end)
  BY <1>3, <1>5 DEF None
<1> QED BY <1>2, <1>3, <1>4, <1>5, <1>6

(* Whoever goes on asks for something, too.                                *)
LEMMA ResumedIsAsked ==
    ASSUME NEW page \in Paging, NEW op, Follows(page, op)
    PROVE  op \in Ops
<1>1. PICK o \in Ops, i \in DOMAIN Trees :
        /\ page = [op |-> o, on |-> i, reply |-> Answer(Trees[i], o)]
        /\ Answer(Trees[i], o).type \in {"page", "entries"}
  BY DEF Paging
<1> DEFINE fs == Trees[i]
           reply == Answer(fs, o)
<1>2. IsTree(fs) /\ Keyed(DOMAIN fs, Rank)
  BY ServeAssumption
<1>3. page.op = o /\ page.reply = reply
  BY <1>1
<1>4. op = Resumed(o, reply.next)
  BY <1>3 DEF Follows
<1>5. CASE o \in ReadOps /\ reply.type = "page" /\ reply = Read(fs, o.rel, o.mode, o.max)
  <2>1. PICK loaded, start, end, last, budget : IsPart(fs, o, reply, loaded, start, end, last, budget)
    BY <1>2, <1>5, PartIs
  <2>2. reply.next \in Nat
    BY <2>1, PartHas
  <2>3. Far \in Nat
    BY ReadingAssumption
  <2> HIDE DEF fs, reply
  <2> DEFINE end2 == IF o.mode.type = "range" THEN o.mode.end ELSE Far
             mode == [type |-> "range", start |-> reply.next, end |-> end2]
  <2>4. end2 \in Nat
    <3>1. o.mode \in Modes
      BY <1>5 DEF ReadOps
    <3>2. o.mode.type = "range" => o.mode.end \in Nat
      BY <3>1 DEF Modes, Whole
    <3> QED BY <2>3, <3>2
  <2> HIDE DEF end2
  <2>5. mode \in Modes
    BY <2>2, <2>4 DEF Modes
  <2>6. op = [o EXCEPT !.mode = mode]
    BY <1>4, <1>5 DEF Resumed, ReadOps, end2
  <2> HIDE DEF mode
  <2>7. op \in ReadOps
    BY <1>5, <2>5, <2>6 DEF ReadOps
  <2> QED BY <2>7 DEF Ops, ReadOps
<1>6. CASE o \in ListOps /\ reply.type = "entries" /\ reply = List(fs, o)
  <2>1. reply.next \in Nat
    <3>1. reply.type # "error"
      BY <1>6
    <3> DEFINE base == reply.base
               walk == Walk(fs, base, o.depth, o.ignored)
               kept == Kept(fs, o, base)
               S == {p \in walk.found : InGlob(o, p)}
    <3>2. /\ base \in DOMAIN fs /\ Under(Root, base)
          /\ reply = ListPage(o, base, walk, kept)
      BY <1>2, <1>6, <3>1, ListIs
    <3>3. kept \in Seq(S)
      BY <1>2, <3>2, KeptIs
    <3>4. o.offset \in Nat
      BY <1>6 DEF ListOps
    <3> HIDE DEF fs, kept, walk, S
    <3>5. LET r == ListPage(o, base, walk, kept) IN
          /\ Len(r.items) \in Nat
          /\ r.truncated => r.next = o.offset + Len(r.items)
          /\ ~r.truncated => r.next = None
      <4>1. LET r == ListPage(o, base, walk, kept) IN
            /\ Len(r.items) \in Nat
            /\ r.truncated = (o.offset + Len(r.items) < Len(kept))
            /\ r.truncated => r.next = o.offset + Len(r.items)
            /\ ~r.truncated => r.next = None
        BY <1>6, <3>3, PageOfKept
      <4> QED BY <4>1, Zenon
    <3> DEFINE n == Len(reply.items)
    <3>6. n \in Nat /\ (reply.next = o.offset + n \/ reply.next = None)
      BY <3>2, <3>5, Zenon
    <3> HIDE DEF n
    <3> QED BY <3>4, <3>6 DEF None
  <2> HIDE DEF reply
  <2>2. op = [o EXCEPT !.offset = reply.next]
    BY <1>4, <1>6 DEF Resumed, ListOps
  <2>3. op \in ListOps
    BY <1>6, <2>1, <2>2 DEF ListOps
  <2> QED BY <2>3 DEF Ops, ListOps
<1>7. reply.type \in {"page", "entries"}
  BY <1>1
<1> QED BY <1>2, <1>5, <1>6, <1>7, AnswerTypes

-----------------------------------------------------------------------------
(* Every step keeps the calls right.                                       *)

LEMMA CallsBegin == Init => CallsAreRight
<1> SUFFICES ASSUME Init PROVE CallsAreRight
  OBVIOUS
<1>1. tree \in DOMAIN Trees /\ load \in DOMAIN Workloads
  BY ServeAssumption DEF Init
<1>2. agents = [a \in Agents |-> agents[a]] /\ \A a \in Agents : agents[a] = NoCall
  BY DEF Init
<1>3. \A a \in Agents : front[a].phase = "idle"
  BY DEF Init, Idle
<1>4. IsCall("idle", NoCall)
  <2>1. NoCall.pages = <<>> /\ Len(<<>>) = 0 /\ <<>> \in Seq(Paging)
    BY EmptySeq DEF NoCall
  <2>2. 1 .. Len(<<>>) - 1 = {}
    BY <2>1
  <2> QED BY <2>1, <2>2, Zenon DEF IsCall
<1> QED BY <1>1, <1>2, <1>3, <1>4 DEF CallsAreRight

(* A step of one agent.                                                    *)
LEMMA CallKeeps ==
    ASSUME CallsAreRight, IInv, UNCHANGED <<tree, load>>,
           NEW a \in Agents, NEW f, NEW call,
           front' = [front EXCEPT ![a] = f], agents' = [agents EXCEPT ![a] = call],
           IsCall(f.phase, call)
    PROVE  CallsAreRight'
<1>1. front \in [Agents -> Fronts]
  BY DEF IInv, TypeOK
<1>2. agents' = [b \in Agents |-> IF b = a THEN call ELSE agents[b]]
  BY DEF CallsAreRight
<1>3. \A b \in Agents : front'[b] = (IF b = a THEN f ELSE front[b])
                        /\ agents'[b] = (IF b = a THEN call ELSE agents[b])
  BY <1>1, <1>2
<1>4. agents' = [b \in Agents |-> agents'[b]]
  BY <1>2
<1>5. ASSUME NEW b \in Agents PROVE IsCall(front'[b].phase, agents'[b])
  <2>1. CASE b = a
    BY <1>3, <2>1
  <2>2. CASE b # a
    <3>1. front'[b] = front[b] /\ agents'[b] = agents[b]
      BY <1>3, <2>2
    <3>2. IsCall(front[b].phase, agents[b])
      BY DEF CallsAreRight
    <3> QED BY <3>1, <3>2
  <2> QED BY <2>1, <2>2
<1> QED BY <1>4, <1>5 DEF CallsAreRight

LEMMA ArriveCalls ==
    ASSUME CallsAreRight, IInv, NEW a \in Agents, NEW op \in Ops, NEW pages,
           Arrive(a, op, pages),
           pages \in Seq(Paging),
           \A i \in 1 .. Len(pages) - 1 : Follows(pages[i], pages[i + 1].op),
           pages # <<>> => Follows(pages[Len(pages)], op)
    PROVE  CallsAreRight'
<1> DEFINE Come(node) == [Idle EXCEPT !.phase = "ready", !.node = node, !.since = clock]
           f == IF ~Workloads[load].whois \/ Addr[a] = NoAddr THEN Come(Unknown)
                ELSE IF Cached(Addr[a]) THEN Come(cache[Addr[a]].node)
                ELSE [Idle EXCEPT !.phase = "asking", !.began = clock]
           call == [NoCall EXCEPT !.op = op, !.pages = pages]
<1>1. front' = [front EXCEPT ![a] = f] /\ agents' = [agents EXCEPT ![a] = call]
      /\ UNCHANGED <<tree, load>>
  BY DEF Arrive, world
<1>2. f.phase \in {"asking", "ready"}
  <2>1. \A node : Come(node).phase = "ready"
    BY DEF Idle
  <2>2. [Idle EXCEPT !.phase = "asking", !.began = clock].phase = "asking"
    BY DEF Idle
  <2> HIDE DEF Come
  <2> QED BY <2>1, <2>2
<1>3. call.op = op /\ call.pages = pages
  BY DEF NoCall
<1> HIDE DEF f, call
<1>4. IsCall(f.phase, call)
  BY <1>2, <1>3 DEF IsCall
<1> QED BY <1>1, <1>4, CallKeeps

LEMMA AskCalls ==
    ASSUME CallsAreRight, IInv, NEW a \in Agents, Ask(a)
    PROVE  CallsAreRight'
<1>1. PICK op \in Workloads[load].ops[a] : Arrive(a, op, <<>>)
  BY DEF Ask
<1>2. op \in Ops
  <2>1. Workloads[load].ops \in [Agents -> SUBSET Ops]
    BY ServeAssumption DEF CallsAreRight
  <2> QED BY <1>1, <2>1
<1>3. <<>> \in Seq(Paging) /\ 1 .. Len(<<>>) - 1 = {}
  BY EmptySeq
<1> QED BY <1>1, <1>2, <1>3, ArriveCalls

LEMMA ContinueCalls ==
    ASSUME CallsAreRight, IInv, NEW a \in Agents, Continue(a)
    PROVE  CallsAreRight'
<1> DEFINE pages == agents[a].pages
           page == pages[Len(pages)]
           op == Resumed(page.op, page.reply.next)
<1>1. /\ pages # <<>> /\ page.reply.next # None
      /\ page.op.tool = "read" => page.op.mode.type \in {"whole", "range"}
      /\ Arrive(a, op, pages)
  BY DEF Continue, Last
<1>2. /\ pages \in Seq(Paging)
      /\ \A i \in 1 .. Len(pages) - 1 : Follows(pages[i], pages[i + 1].op)
  BY DEF CallsAreRight, IsCall
<1>3. Follows(page, op)
  BY <1>1 DEF Follows
<1> HIDE DEF pages
<1>4. page \in Paging
  <2>1. Len(pages) \in Nat /\ Len(pages) # 0
    BY <1>1, <1>2, EmptySeq
  <2>2. Len(pages) \in 1 .. Len(pages)
    BY <2>1
  <2> QED BY <1>2, <2>2
<1> HIDE DEF page
<1>5. op \in Ops
  BY <1>3, <1>4, ResumedIsAsked
<1> HIDE DEF op
<1>6. pages # <<>> => Follows(pages[Len(pages)], op)
  BY <1>3 DEF page
<1> QED BY <1>1, <1>2, <1>5, <1>6, ArriveCalls

(* What is answered is a page, and then kept, or is not.                   *)
LEMMA HandleCalls ==
    ASSUME CallsAreRight, IInv, NEW a \in Agents, Handle(a)
    PROVE  CallsAreRight'
<1> DEFINE f == [front[a] EXCEPT !.phase = "answered"]
           op == agents[a].op
           pages == agents[a].pages
           reply == IF Forbidden(a, front[a].node) THEN Error("forbidden") ELSE Answer(Trees[tree], op)
           page == [op |-> op, on |-> tree, reply |-> reply]
           after == IF reply.type \in {"page", "entries"} THEN Append(pages, page) ELSE <<>>
           call == [op |-> op, reply |-> reply, on |-> tree, pages |-> after]
<1>1. /\ front[a].phase = "ready" /\ front' = [front EXCEPT ![a] = f]
      /\ agents' = [agents EXCEPT ![a] = call]
      /\ UNCHANGED <<tree, load>>
  BY DEF Handle, world
<1>2. IsCall("ready", agents[a]) /\ tree \in DOMAIN Trees
  BY <1>1 DEF CallsAreRight
<1>3. /\ op \in Ops /\ pages \in Seq(Paging)
      /\ \A i \in 1 .. Len(pages) - 1 : Follows(pages[i], pages[i + 1].op)
      /\ pages # <<>> => Follows(pages[Len(pages)], op)
  BY <1>2 DEF IsCall
<1>4. f.phase = "answered"
  <2>1. front[a] \in Fronts
    BY DEF IInv, TypeOK
  <2> QED BY <2>1 DEF Fronts
<1>5. reply \in {Error("forbidden"), Answer(Trees[tree], op)}
  OBVIOUS
<1>6. reply.type \in {"page", "entries"} => page \in Paging
  <2> SUFFICES ASSUME reply.type \in {"page", "entries"} PROVE page \in Paging
    OBVIOUS
  <2>1. Error("forbidden").type = "error"
    BY DEF Error
  <2>2. reply = Answer(Trees[tree], op)
    BY <1>5, <2>1
  <2> HIDE DEF reply
  <2>3. page = [op |-> op, on |-> tree, reply |-> Answer(Trees[tree], op)] /\ page.reply = reply
    BY <2>2
  <2> QED BY <1>2, <1>3, <2>3 DEF Paging
<1> HIDE DEF op, pages, reply
<1>7. /\ call.op = op /\ call.on = tree /\ call.reply = reply /\ call.pages = after
      /\ page.op = op
  OBVIOUS
<1> HIDE DEF page
<1>8. /\ after \in Seq(Paging)
      /\ \A i \in 1 .. Len(after) - 1 : Follows(after[i], after[i + 1].op)
  <2>1. CASE reply.type \notin {"page", "entries"}
    <3>1. after = <<>>
      BY <2>1
    <3>2. <<>> \in Seq(Paging) /\ 1 .. Len(<<>>) - 1 = {}
      BY EmptySeq
    <3> QED BY <3>1, <3>2, Zenon
  <2>2. CASE reply.type \in {"page", "entries"}
    <3>1. after = Append(pages, page)
      BY <2>2
    <3> DEFINE n == Len(pages)
    <3>2. /\ n \in Nat /\ after \in Seq(Paging) /\ Len(after) = n + 1
          /\ \A i \in 1 .. n : after[i] = pages[i]
          /\ after[n + 1] = page
      BY <1>3, <1>6, <2>2, <3>1, AppendProperties
    <3> HIDE DEF after
    <3>3. ASSUME NEW i \in 1 .. Len(after) - 1 PROVE Follows(after[i], after[i + 1].op)
      <4>1. CASE i = n
        <5>1. pages # <<>> /\ n \in 1 .. n
          BY <3>2, <3>3, <4>1, EmptySeq
        <5>2. Follows(pages[n], op)
          BY <1>3, <5>1
        <5>3. after[i] = pages[n] /\ after[i + 1] = page
          BY <3>2, <4>1, <5>1
        <5> QED BY <1>7, <5>2, <5>3
      <4>2. CASE i # n
        <5>1. i \in 1 .. n - 1 /\ i \in 1 .. n /\ i + 1 \in 1 .. n
          BY <3>2, <3>3, <4>2
        <5>2. after[i] = pages[i] /\ after[i + 1] = pages[i + 1]
          BY <3>2, <5>1
        <5> QED BY <1>3, <5>1, <5>2
      <4> QED BY <4>1, <4>2
    <3> QED BY <3>2, <3>3
  <2> QED BY <2>1, <2>2
<1> HIDE DEF after
<1>9. IsCall("answered", call)
  <2> HIDE DEF call
  <2>1. "answered" \notin {"asking", "ready"}
    OBVIOUS
  <2>2. call.reply \in {Error("forbidden"), Answer(Trees[call.on], call.op)}
    BY <1>5, <1>7
  <2> QED BY <1>2, <1>3, <1>7, <1>8, <2>1, <2>2 DEF IsCall
<1> HIDE DEF call, f
<1> QED BY <1>1, <1>4, <1>9, CallKeeps

(* What the others do to a call is at most to end it.                      *)
LEMMA OthersCalls ==
    ASSUME CallsAreRight, IInv, tree' \in DOMAIN Trees, UNCHANGED <<load, agents>>,
           \A a \in Agents : \/ front'[a].phase = front[a].phase
                             \/ front'[a].phase = "idle"
                             \/ front[a].phase = "asking" /\ front'[a].phase = "ready"
    PROVE  CallsAreRight'
<1>1. ASSUME NEW a \in Agents PROVE IsCall(front'[a].phase, agents[a])
  <2>1. IsCall(front[a].phase, agents[a])
    BY DEF CallsAreRight
  <2> QED BY <2>1 DEF IsCall
<1> QED BY <1>1 DEF CallsAreRight

LEMMA NextCalls == CallsAreRight /\ IInv /\ [Next]_vars => CallsAreRight'
<1> SUFFICES ASSUME CallsAreRight, IInv, [Next]_vars PROVE CallsAreRight'
  OBVIOUS
<1>1. front \in [Agents -> Fronts] /\ tree \in DOMAIN Trees
  BY DEF IInv, TypeOK, CallsAreRight
<1>2. ASSUME NEW a \in Agents, Ask(a) \/ Continue(a) \/ Handle(a) PROVE CallsAreRight'
  BY <1>2, AskCalls, ContinueCalls, HandleCalls
<1>3. ASSUME NEW a \in Agents, Look(a) PROVE CallsAreRight'
  <2>1. PICK node : front' = [front EXCEPT ![a].saw = {node}]
    BY <1>3 DEF Look
  <2>2. front[a] \in Fronts
    BY <1>1
  <2>3. UNCHANGED <<tree, load, agents>>
    BY <1>3 DEF Look, world, served
  <2>4. \A b \in Agents : front'[b].phase = front[b].phase
    BY <1>1, <2>1, <2>2 DEF Fronts
  <2> QED BY <1>1, <2>3, <2>4, OthersCalls
<1>4. ASSUME NEW a \in Agents, Resolve(a) PROVE CallsAreRight'
  <2>1. PICK node : front' = [front EXCEPT ![a] =
                                 [Idle EXCEPT !.phase = "ready", !.node = node, !.since = clock]]
    BY <1>4 DEF Resolve
  <2>2. front[a].phase = "asking" /\ UNCHANGED <<tree, load, agents>>
    BY <1>4 DEF Resolve, world, served
  <2>3. \A b \in Agents : IF b = a THEN front'[b].phase = "ready" ELSE front'[b] = front[b]
    BY <1>1, <2>1 DEF Idle
  <2> QED BY <1>1, <2>2, <2>3, OthersCalls
<1>5. ASSUME NEW addr, NEW node, Move(addr, node) PROVE CallsAreRight'
  <2>1. UNCHANGED <<tree, load, agents, front>>
    BY <1>5 DEF Move, served
  <2> QED BY <1>1, <2>1, OthersCalls
<1>6. CASE Write
  <2>1. tree' \in DOMAIN Trees /\ UNCHANGED <<load, agents, front>>
    BY <1>6 DEF Write, served
  <2> QED BY <2>1, OthersCalls
<1>7. CASE Tick
  <2>1. UNCHANGED <<tree, load, agents, front>>
    BY <1>7 DEF Tick, served
  <2> QED BY <1>1, <2>1, OthersCalls
<1>8. CASE Restart
  <2>1. /\ UNCHANGED <<tree, load, agents>>
        /\ front' = [a \in Agents |->
              IF front[a].phase \in {"asking", "ready"} THEN Idle ELSE front[a]]
    BY <1>8 DEF Restart, world, served
  <2>2. \A a \in Agents : front'[a].phase = front[a].phase \/ front'[a].phase = "idle"
    BY <2>1 DEF Idle
  <2> QED BY <1>1, <2>1, <2>2, OthersCalls
<1>9. CASE UNCHANGED vars
  <2>1. UNCHANGED <<tree, load, agents, front>>
    BY <1>9 DEF vars, world, served
  <2> QED BY <1>1, <2>1, OthersCalls
<1> QED BY <1>2, <1>3, <1>4, <1>5, <1>6, <1>7, <1>8, <1>9 DEF Next

(* Every call is answered from one tree there was, and every page an agent *)
(* holds goes on where the one before it ended.                            *)
THEOREM CallsStayRight == Spec => []CallsAreRight
<1>1. Init => CallsAreRight
  BY CallsBegin
<1>2. CallsAreRight /\ IInv /\ [Next]_vars => CallsAreRight'
  BY NextCalls
<1> QED BY <1>1, <1>2, InductiveInvariant, PTL DEF Spec

LEMMA AnsweredIs ==
    ASSUME CallsAreRight, NEW a \in Answered
    PROVE  LET fs == Trees[agents[a].on]
               op == agents[a].op
           IN /\ IsTree(fs) /\ Keyed(DOMAIN fs, Rank) /\ op \in Ops
              /\ \/ agents[a].reply = Error("forbidden")
                 \/ agents[a].reply = Answer(fs, op)
<1>1. IsCall("answered", agents[a])
  BY DEF CallsAreRight, Answered
<1> QED BY <1>1, ServeAssumption DEF IsCall

(* fsops.rs:440, search.rs:106: whatever is on the disk and whatever is    *)
(* asked, an answer shows nothing it may not.                              *)
THEOREM OnlyPermittedIsShown == Spec => []OnlyPermitted
<1>1. CallsAreRight => OnlyPermitted
  <2> SUFFICES ASSUME CallsAreRight, NEW a \in Answered
               PROVE  LET op == agents[a].op IN
                      /\ \A s \in Shown(agents[a].reply) : MayShow(Trees[agents[a].on], op, s)
                      /\ op.tool \in {"read", "list", "search"} /\ ~Escapes(op.rel)
                         /\ DeniedByServer(Root \o Cleaned(op.rel))
                         => agents[a].reply \in {Error("refused"), Error("forbidden")}
    BY DEF OnlyPermitted
  <2> DEFINE fs == Trees[agents[a].on]
             op == agents[a].op
             reply == agents[a].reply
  <2>1. /\ IsTree(fs) /\ Keyed(DOMAIN fs, Rank) /\ op \in Ops
        /\ reply = Error("forbidden") \/ reply = Answer(fs, op)
    BY AnsweredIs
  <2>2. Shown(Error("forbidden")) = {}
    BY DEF Shown, Error
  <2> HIDE DEF fs, op, reply
  <2>3. \A s \in Shown(reply) : MayShow(fs, op, s)
    BY <2>1, <2>2, AnswerMayBe
  <2>4. ASSUME op.tool \in {"read", "list", "search"}, ~Escapes(op.rel),
               DeniedByServer(Root \o Cleaned(op.rel))
        PROVE  reply \in {Error("refused"), Error("forbidden")}
    BY <2>1, <2>4, DeniedIsRefused, RefusedAnswers
  <2> QED BY <2>3, <2>4 DEF fs, op, reply
<1> QED BY <1>1, CallsStayRight, PTL

(* fsops.rs:320: whatever is left out of an answer, the answer says so.    *)
THEOREM FilteredAlwaysCounted == Spec => []FilteredIsCounted
<1>1. CallsAreRight => FilteredIsCounted
  <2> SUFFICES ASSUME CallsAreRight, NEW a \in Answered
               PROVE  LET fs == Trees[agents[a].on]
                          op == agents[a].op
                          reply == agents[a].reply
                      IN /\ reply.type = "entries" => ListIsCounted(fs, op, reply)
                         /\ reply.type = "matches" => SearchIsCounted(fs, op, reply)
                         /\ reply.type = "files" => FilesAreCounted(reply)
    BY DEF FilteredIsCounted
  <2> DEFINE fs == Trees[agents[a].on]
             op == agents[a].op
             reply == agents[a].reply
  <2>1. /\ IsTree(fs) /\ Keyed(DOMAIN fs, Rank) /\ op \in Ops
        /\ reply = Error("forbidden") \/ reply = Answer(fs, op)
    BY AnsweredIs
  <2>2. Error("forbidden").type = "error"
    BY DEF Error
  <2> HIDE DEF fs, op, reply
  <2>3. reply.type \in {"entries", "matches", "files"} => reply = Answer(fs, op)
    BY <2>1, <2>2
  <2>4. ASSUME reply.type = "entries" PROVE ListIsCounted(fs, op, reply)
    <3>1. op \in ListOps /\ reply = List(fs, op) /\ reply.type # "error"
      BY <2>1, <2>3, <2>4, AnswerTypes
    <3> QED BY <2>1, <3>1, ListTells
  <2>5. ASSUME reply.type = "matches" PROVE SearchIsCounted(fs, op, reply)
    <3>1. op \in SearchOps /\ reply = Search(fs, op) /\ reply.type # "error"
      BY <2>1, <2>3, <2>5, AnswerTypes
    <3>2. PICK walk, files, end : IsSearched(fs, op, reply, walk, files, end)
      BY <2>1, <3>1, SearchIs
    <3> QED BY <2>1, <3>1, <3>2, SearchTells
  <2>6. ASSUME reply.type = "files" PROVE FilesAreCounted(reply)
    <3>1. /\ op.rels \in Seq(Paths) /\ op.max \in Nat /\ reply.type # "error"
          /\ reply = ReadMany(fs, op.rels, op.numbered, op.max)
      BY <2>1, <2>3, <2>6, AnswerTypes DEF ManyOps
    <3>2. /\ DOMAIN reply.files = 1 .. Len(reply.files)
          /\ \A i \in 1 .. Len(reply.files) :
                ~reply.exhausted =>
                   IF reply.files[i].type = "page" THEN ~reply.files[i].truncated
                   ELSE reply.files[i].code # "budget"
      BY <2>1, <3>1, ManyRuns
    <3> QED BY <3>2 DEF FilesAreCounted, Range
  <2> QED BY <2>4, <2>5, <2>6 DEF fs, op, reply
<1> QED BY <1>1, CallsStayRight, PTL

-----------------------------------------------------------------------------
(* Pages one after the other.                                              *)

(* What is gathered, page by page.                                         *)
ArePages(pages, n, A) ==
    /\ n \in Nat /\ DOMAIN pages = 1 .. n /\ Len(pages) = n
    /\ \A i \in 1 .. n : pages[i].reply.items \in Seq(A)

Gathers(f, pages, n, A) ==
    /\ f[0] = <<>> /\ Gathered(pages) = f[n]
    /\ \A i \in 1 .. n : f[i - 1] \in Seq(A) => f[i] = f[i - 1] \o pages[i].reply.items

LEMMA GatheredSteps ==
    ASSUME NEW A, NEW n, NEW pages, ArePages(pages, n, A)
    PROVE  \E f : Gathers(f, pages, n, A)
<1> USE DEF ArePages
<1> DEFINE B == Seq(A)
           base == <<>>
           Put(got, page) == got \o page.reply.items
           step == [x \in B \X (1 .. n) |-> Put(x[1], pages[x[2]])]
           Is(it) == it = [s \in SUBSET DOMAIN pages |-> IF s = {} THEN base
                             ELSE Put(it[s \ {Max(s)}], pages[Max(s)])]
           it == CHOOSE it : Is(it)
<1>1. base \in B
  BY EmptySeq
<1>2. ASSUME NEW got \in B, NEW i \in 1 .. n PROVE Put(got, pages[i]) \in B
  BY ConcatProperties
<1>g. Gathered(pages) = FoldLeft(LAMBDA got, page : Put(got, page), base, pages)
  BY DEF Gathered
<1>p. \A got, page : Put(got, page) = got \o page.reply.items
  OBVIOUS
<1> HIDE DEF Put, B
<1>3. step \in [B \X (1 .. n) -> B]
  BY <1>2
<1>4. \A x \in B, i \in 1 .. n : step[<<x, i>>] = Put(x, pages[i])
  OBVIOUS
<1>9. FoldLeft(LAMBDA got, page : Put(got, page), base, pages) = it[1 .. n]
  BY DEF FoldLeft, MapThenFoldSet
<1> HIDE DEF step, base
<1>s. Steps(n, B, base, step)
  BY <1>1, <1>3 DEF Steps
<1>5. \E g : Is(g)
  <2>1. PICK g : IsFold(g, n, B, base, step)
    BY ONLY <1>s, FoldExists, Zenon
  <2>2. ASSUME NEW s \in SUBSET (1 .. n), s # {}
        PROVE  g[s] = Put(g[s \ {Max(s)}], pages[Max(s)])
    <3>1. Max(s) \in 1 .. n
      BY <2>2, MaxOfUpTo
    <3>2. g[s \ {Max(s)}] \in B /\ g[s] = step[<<g[s \ {Max(s)}], Max(s)>>]
      BY <2>1, <2>2 DEF IsFold
    <3> QED BY <3>1, <3>2, <1>4
  <2>3. g[{}] = base /\ g \in [SUBSET (1 .. n) -> B]
    BY <2>1 DEF IsFold
  <2> QED BY <2>2, <2>3
<1>6. Is(it)
  BY <1>5
<1> HIDE DEF it
<1>7. it[{}] = base /\ \A s \in SUBSET (1 .. n) : s # {} => it[s] = Put(it[s \ {Max(s)}], pages[Max(s)])
  BY <1>6
<1> HIDE DEF Is
<1>8. Folds(it, n, B, base, step)
  BY <1>4, <1>7, MaxOfUpTo DEF Folds
<1>10. PICK f : Runs(f, it, n, B, base, step)
  BY ONLY <1>s, <1>8, FoldRuns, Zenon
<1>11. /\ f[0] = base /\ f[n] = it[1 .. n]
       /\ \A i \in 1 .. n : f[i - 1] \in B => f[i] = Put(f[i - 1], pages[i])
  BY <1>4, <1>10 DEF Runs
<1> QED BY <1>9, <1>11, <1>g, <1>p, Zenon DEF B, base, Gathers

(* Pages that each begin where the one before ended: what is gathered of   *)
(* the first n, and where its parts come from.                             *)
IsGathered(got, n, A, parts, from) ==
    /\ got \in Seq(A)
    /\ n = 0 => got = <<>>
    /\ n # 0 => from[1] + Len(got) = from[n] + Len(parts[n])
    /\ \A m \in 1 .. Len(got) : \E j \in 1 .. n : \E k \in 1 .. Len(parts[j]) :
          from[1] + m = from[j] + k /\ got[m] = parts[j][k]

LEMMA GatheredGrows ==
    ASSUME NEW A, NEW n \in Nat \ {0}, NEW parts, NEW from, NEW got,
           IsGathered(got, n - 1, A, parts, from),
           \A i \in 1 .. n : parts[i] \in Seq(A) /\ from[i] \in Nat,
           n # 1 => from[n] = from[n - 1] + Len(parts[n - 1])
    PROVE  IsGathered(got \o parts[n], n, A, parts, from)
<1> DEFINE all == got \o parts[n]
<1>1. /\ got \in Seq(A) /\ Len(got) \in Nat /\ n \in 1 .. n /\ 1 \in 1 .. n
      /\ parts[n] \in Seq(A) /\ Len(parts[n]) \in Nat /\ from[n] \in Nat /\ from[1] \in Nat
  BY DEF IsGathered
<1>2. from[1] + Len(got) = from[n]
  <2>1. CASE n = 1
    <3>1. got = <<>> /\ Len(<<>>) = 0
      BY <2>1, EmptySeq DEF IsGathered
    <3> QED BY <1>1, <2>1, <3>1
  <2>2. CASE n # 1
    <3>1. n - 1 # 0
      BY <2>2
    <3> QED BY <2>2, <3>1 DEF IsGathered
  <2> QED BY <2>1, <2>2
<1>3. /\ all \in Seq(A) /\ Len(all) = Len(got) + Len(parts[n])
      /\ \A m \in 1 .. Len(got) + Len(parts[n]) :
            all[m] = IF m <= Len(got) THEN got[m] ELSE parts[n][m - Len(got)]
  BY <1>1, ConcatProperties
<1> HIDE DEF all
<1>4. from[1] + Len(all) = from[n] + Len(parts[n])
  BY <1>1, <1>2, <1>3
<1>5. ASSUME NEW m \in 1 .. Len(all)
      PROVE  \E j \in 1 .. n : \E k \in 1 .. Len(parts[j]) :
                from[1] + m = from[j] + k /\ all[m] = parts[j][k]
  <2>1. CASE m <= Len(got)
    <3>1. m \in 1 .. Len(got) /\ all[m] = got[m]
      BY <1>1, <1>3, <2>1
    <3>2. PICK j \in 1 .. n - 1 : \E k \in 1 .. Len(parts[j]) :
             from[1] + m = from[j] + k /\ got[m] = parts[j][k]
      BY <3>1 DEF IsGathered
    <3>3. j \in 1 .. n
      OBVIOUS
    <3> QED BY <3>1, <3>2, <3>3
  <2>2. CASE ~(m <= Len(got))
    <3>1. m - Len(got) \in 1 .. Len(parts[n]) /\ m \in 1 .. Len(got) + Len(parts[n])
          /\ from[1] + m = from[n] + (m - Len(got))
      <4> DEFINE l == Len(got)
                 k == Len(parts[n])
                 a == from[1]
                 b == from[n]
      <4>1. /\ l \in Nat /\ k \in Nat /\ a \in Nat /\ b \in Nat /\ a + l = b
            /\ m \in 1 .. l + k /\ ~(m <= l)
        BY <1>1, <1>2, <1>3, <2>2
      <4> HIDE DEF l, k, a, b
      <4>2. m - l \in 1 .. k /\ m \in 1 .. l + k /\ a + m = b + (m - l)
        BY ONLY <4>1
      <4> QED BY <4>2 DEF l, k, a, b
    <3>2. all[m] = parts[n][m - Len(got)]
      BY <1>3, <2>2, <3>1
    <3> QED BY <1>1, <3>1, <3>2
  <2> QED BY <2>1, <2>2
<1>6. n # 0
  OBVIOUS
<1> QED BY <1>3, <1>4, <1>5, <1>6 DEF IsGathered, all

Begins(from, pages, n) ==
    /\ n # 0
    /\ \A i \in 1 .. n : from[i] \in Nat
    /\ \A i \in 1 .. n - 1 : from[i + 1] = from[i] + Len(pages[i].reply.items)

FromPages(got, from, pages, n, A) ==
    /\ got \in Seq(A)
    /\ from[1] + Len(got) = from[n] + Len(pages[n].reply.items)
    /\ \A m \in 1 .. Len(got) :
          \E j \in 1 .. n : \E k \in 1 .. Len(pages[j].reply.items) :
             from[1] + m = from[j] + k /\ got[m] = pages[j].reply.items[k]

LEMMA GatheredIs ==
    ASSUME NEW A, NEW n, NEW pages, ArePages(pages, n, A), NEW from, Begins(from, pages, n)
    PROVE  FromPages(Gathered(pages), from, pages, n, A)
<1>0. /\ n \in Nat \ {0} /\ DOMAIN pages = 1 .. n /\ Len(pages) = n
      /\ \A i \in 1 .. n : pages[i].reply.items \in Seq(A) /\ from[i] \in Nat
      /\ \A i \in 1 .. n - 1 : from[i + 1] = from[i] + Len(pages[i].reply.items)
  BY DEF ArePages, Begins
<1> USE <1>0
<1> DEFINE parts == [i \in 1 .. n |-> pages[i].reply.items]
<1>1. \A i \in 1 .. n : parts[i] = pages[i].reply.items
  OBVIOUS
<1> HIDE DEF parts
<1>f. PICK f : Gathers(f, pages, n, A)
  BY GatheredSteps, Zenon
<1>2. /\ f[0] = <<>> /\ Gathered(pages) = f[n]
      /\ \A i \in 1 .. n : f[i - 1] \in Seq(A) => f[i] = f[i - 1] \o pages[i].reply.items
  BY <1>f, Zenon DEF Gathers
<1> DEFINE S == {i \in 0 .. n : IsGathered(f[i], i, A, parts, from)}
<1>3. 0 \in S
  <2>1. <<>> \in Seq(A) /\ 1 .. Len(<<>>) = {}
    BY EmptySeq
  <2>2. IsGathered(<<>>, 0, A, parts, from)
    BY <2>1 DEF IsGathered
  <2> QED BY <1>2, <2>2
<1>4. ASSUME NEW i \in 1 .. n, i - 1 \in S PROVE i \in S
  <2>1. IsGathered(f[i - 1], i - 1, A, parts, from)
    BY <1>4
  <2>2. i \in Nat \ {0} /\ \A j \in 1 .. i : j \in 1 .. n
    OBVIOUS
  <2>3. \A j \in 1 .. i : parts[j] \in Seq(A) /\ from[j] \in Nat
    BY <1>1, <2>2
  <2>4. i # 1 => from[i] = from[i - 1] + Len(parts[i - 1])
    <3> SUFFICES ASSUME i # 1 PROVE from[i] = from[i - 1] + Len(parts[i - 1])
      OBVIOUS
    <3>1. i - 1 \in 1 .. n - 1 /\ (i - 1) + 1 = i /\ i - 1 \in 1 .. n
      OBVIOUS
    <3> QED BY <1>1, <3>1
  <2>5. IsGathered(f[i - 1] \o parts[i], i, A, parts, from)
    BY <2>1, <2>2, <2>3, <2>4, GatheredGrows
  <2>6. f[i] = f[i - 1] \o parts[i]
    <3>1. f[i - 1] \in Seq(A)
      BY <2>1 DEF IsGathered
    <3> QED BY <1>1, <1>2, <3>1
  <2>7. i \in 0 .. n
    OBVIOUS
  <2> QED BY <2>5, <2>6, <2>7
<1>5. 0 .. n \subseteq S
  <2> HIDE DEF S
  <2> QED BY <1>3, <1>4, BoundedInduction
<1>6. IsGathered(Gathered(pages), n, A, parts, from)
  <2>1. n \in 0 .. n
    OBVIOUS
  <2> QED BY <1>2, <1>5, <2>1
<1>7. n # 0 /\ n \in 1 .. n
  OBVIOUS
<1> HIDE DEF S
<1> DEFINE got == Gathered(pages)
<1> HIDE DEF got
<1>8. /\ got \in Seq(A)
      /\ from[1] + Len(got) = from[n] + Len(parts[n])
      /\ \A m \in 1 .. Len(got) : \E j \in 1 .. n : \E k \in 1 .. Len(parts[j]) :
            from[1] + m = from[j] + k /\ got[m] = parts[j][k]
  BY <1>6, <1>7, Zenon DEF IsGathered, got
<1>9. from[1] + Len(got) = from[n] + Len(pages[n].reply.items)
  BY <1>1, <1>7, <1>8
<1>10. \A m \in 1 .. Len(got) :
          \E j \in 1 .. n : \E k \in 1 .. Len(pages[j].reply.items) :
             from[1] + m = from[j] + k /\ got[m] = pages[j].reply.items[k]
  <2> SUFFICES ASSUME NEW m \in 1 .. Len(got)
               PROVE  \E j \in 1 .. n : \E k \in 1 .. Len(pages[j].reply.items) :
                         from[1] + m = from[j] + k /\ got[m] = pages[j].reply.items[k]
    OBVIOUS
  <2>1. PICK j \in 1 .. n : \E k \in 1 .. Len(parts[j]) : from[1] + m = from[j] + k /\ got[m] = parts[j][k]
    BY <1>8, Zenon
  <2>2. parts[j] = pages[j].reply.items
    BY <1>1, Zenon
  <2> QED BY <2>1, <2>2, Zenon
<1> QED BY <1>8, <1>9, <1>10, Zenon DEF got, FromPages

-----------------------------------------------------------------------------
(* Pages an agent followed.                                                *)

LEMMA PagingIs ==
    ASSUME NEW page \in Paging
    PROVE  LET fs == Trees[page.on] IN
           /\ page.on \in DOMAIN Trees /\ IsTree(fs) /\ Keyed(DOMAIN fs, Rank)
           /\ \/ /\ page.op \in ReadOps /\ page.op.tool = "read"
                 /\ page.reply = Read(fs, page.op.rel, page.op.mode, page.op.max)
                 /\ page.reply.type = "page"
              \/ /\ page.op \in ListOps /\ page.op.tool = "list"
                 /\ page.reply = List(fs, page.op) /\ page.reply.type = "entries"
<1>1. PICK o \in Ops, i \in DOMAIN Trees :
        /\ page = [op |-> o, on |-> i, reply |-> Answer(Trees[i], o)]
        /\ Answer(Trees[i], o).type \in {"page", "entries"}
  BY DEF Paging
<1> DEFINE reply == Answer(Trees[i], o)
<1>2. page.on = i /\ page.op = o /\ page.reply = reply
  BY <1>1
<1>3. IsTree(Trees[i]) /\ Keyed(DOMAIN Trees[i], Rank)
  BY ServeAssumption
<1>4. \/ reply.type = "page" /\ o \in ReadOps /\ reply = Read(Trees[i], o.rel, o.mode, o.max)
      \/ reply.type = "entries" /\ o \in ListOps /\ reply = List(Trees[i], o)
  BY <1>1, <1>3, AnswerTypes
<1> HIDE DEF reply
<1>5. /\ o \in ReadOps => o.tool = "read"
      /\ o \in ListOps => o.tool = "list"
  BY DEF ReadOps, ListOps
<1> QED BY <1>2, <1>3, <1>4, <1>5

LEMMA ResumedSame ==
    ASSUME NEW page \in Paging, NEW op, Follows(page, op)
    PROVE  /\ op.tool = page.op.tool
           /\ page.op.tool = "list" => op = [page.op EXCEPT !.offset = page.reply.next]
           /\ page.op.tool = "read" =>
                op.mode = [type |-> "range", start |-> page.reply.next,
                           end |-> IF page.op.mode.type = "range" THEN page.op.mode.end ELSE Far]
<1>1. op = Resumed(page.op, page.reply.next)
  BY DEF Follows
<1>2. CASE page.op \in ListOps /\ page.op.tool = "list"
  BY <1>1, <1>2 DEF Resumed, ListOps
<1>3. CASE page.op \in ReadOps /\ page.op.tool = "read"
  BY <1>1, <1>3 DEF Resumed, ReadOps
<1> QED BY <1>2, <1>3, PagingIs

(* Pages, each asked for where the one before ended.                       *)
Pages(pages, n) ==
    /\ n \in Nat \ {0} /\ n = Len(pages) /\ DOMAIN pages = 1 .. n
    /\ \A i \in 1 .. n : pages[i] \in Paging
    /\ \A i \in 1 .. n - 1 : Follows(pages[i], pages[i + 1].op)

LEMMA PagesOfOneTool ==
    ASSUME NEW pages, NEW n, Pages(pages, n)
    PROVE  \A i \in 1 .. n : pages[i].op.tool = pages[1].op.tool
<1> DEFINE S == {i \in 0 .. n - 1 : pages[i + 1].op.tool = pages[1].op.tool}
<1>1. n \in Nat \ {0} /\ n - 1 \in Nat
  BY DEF Pages
<1>2. 0 \in S
  <2>1. 0 \in 0 .. n - 1 /\ 0 + 1 = 1
    BY <1>1
  <2> QED BY <2>1
<1>3. ASSUME NEW i \in 1 .. n - 1, i - 1 \in S PROVE i \in S
  <2>1. i \in 1 .. n /\ i \in 0 .. n - 1 /\ (i - 1) + 1 = i
    BY <1>1
  <2>2. pages[i] \in Paging /\ Follows(pages[i], pages[i + 1].op)
    BY <1>3, <2>1 DEF Pages
  <2>3. pages[i + 1].op.tool = pages[i].op.tool
    BY <2>2, ResumedSame
  <2> QED BY <1>3, <2>1, <2>3
<1>4. 0 .. n - 1 \subseteq S
  <2> HIDE DEF S
  <2> QED BY <1>1, <1>2, <1>3, BoundedInduction
<1> SUFFICES ASSUME NEW i \in 1 .. n PROVE pages[i].op.tool = pages[1].op.tool
  OBVIOUS
<1>5. i - 1 \in 0 .. n - 1 /\ (i - 1) + 1 = i
  BY <1>1
<1>6. i - 1 \in S
  BY <1>4, <1>5
<1> QED BY <1>5, <1>6

-----------------------------------------------------------------------------
(* Pages of a directory.                                                   *)

LEMMA ListBase ==
    ASSUME NEW fs, IsTree(fs), NEW op \in ListOps, List(fs, op).type # "error"
    PROVE  List(fs, op).base = ResolveExisting(fs, op.rel).path
<1>1. ResolveExisting(fs, op.rel).type # "error"
  BY DEF List
<1> DEFINE base == ResolveExisting(fs, op.rel).path
<1>2. List(fs, op) = ListPage(op, base, Walk(fs, base, op.depth, op.ignored), Kept(fs, op, base))
  BY <1>1 DEF List, Error, Kept
<1> HIDE DEF base
<1> QED BY <1>2 DEF ListPage, base

SameList(op, first) ==
    /\ op.rel = first.rel /\ op.depth = first.depth /\ op.ignored = first.ignored
    /\ op.globbed = first.globbed /\ op.glob = first.glob

LEMMA ResumedList ==
    ASSUME NEW op \in ListOps, NEW next
    PROVE  SameList([op EXCEPT !.offset = next], op) /\ [op EXCEPT !.offset = next].offset = next
BY DEF SameList, ListOps

(* What a page of all there is shows.                                      *)
ListPart(page, base, all) ==
    LET reply == page.reply
        count == Len(reply.items)
    IN /\ page.op.offset \in Nat /\ count \in Nat
       /\ reply.items \in Seq(DOMAIN Trees[page.on]) /\ reply.base = base
       /\ \A i \in 1 .. count :
             /\ page.op.offset + i \in 1 .. Len(all)
             /\ reply.items[i] = all[page.op.offset + i]
       /\ reply.truncated = (page.op.offset + count < Len(all))
       /\ reply.next # None => reply.next = page.op.offset + count

LEMMA ListPartIs ==
    ASSUME NEW page \in Paging, NEW first \in Paging, page.op.tool = "list", first.op.tool = "list",
           page.on = first.on, SameList(page.op, first.op)
    PROVE  ListPart(page, first.reply.base, AllEntries(first)) /\ Len(AllEntries(first)) \in Nat
<1> DEFINE fs == Trees[first.on]
           op == page.op
           base == ResolveExisting(fs, op.rel).path
           walk == Walk(fs, base, op.depth, op.ignored)
           kept == Kept(fs, op, base)
           S == {p \in walk.found : InGlob(op, p)}
           reply == page.reply
<1>1. /\ IsTree(fs) /\ Keyed(DOMAIN fs, Rank)
      /\ op \in ListOps /\ reply = List(fs, op) /\ reply.type # "error"
  BY PagingIs
<1>2. first.op \in ListOps /\ first.reply = List(fs, first.op) /\ first.reply.type # "error"
  BY PagingIs
<1>3. reply.base = base /\ first.reply.base = base
  <2>1. op.rel = first.op.rel
    BY DEF SameList
  <2>2. List(fs, op).base = base
    BY <1>1, ListBase
  <2>3. List(fs, first.op).base = base
    BY <1>1, <1>2, <2>1, ListBase
  <2> QED BY <1>1, <1>2, <2>2, <2>3
<1>4. AllEntries(first) = kept
  BY <1>3 DEF AllEntries, Kept, SameList, InGlob
<1>5. base \in DOMAIN fs /\ Under(Root, base) /\ reply = ListPage(op, base, walk, kept)
  <2> HIDE DEF kept, walk, base
  <2>1. LET r == List(fs, op) IN
        /\ r.base \in DOMAIN fs /\ Under(Root, r.base)
        /\ r = ListPage(op, r.base, Walk(fs, r.base, op.depth, op.ignored), Kept(fs, op, r.base))
    BY <1>1, ListIs
  <2> QED BY <1>1, <1>3, <2>1, Zenon DEF kept, walk
<1>6. kept \in Seq(S) /\ Len(kept) \in Nat /\ walk.found \in SUBSET DOMAIN fs
  BY <1>1, <1>5, KeptIs, WalkIs
<1>7. op.offset \in Nat
  BY <1>1 DEF ListOps
<1>8. S \subseteq DOMAIN fs
  BY <1>6
<1> HIDE DEF fs, kept, walk, base, S, reply
<1>9. LET r == ListPage(op, base, walk, kept) IN
      /\ r.items \in Seq(S) /\ Len(r.items) \in Nat
      /\ \A i \in 1 .. Len(r.items) :
            /\ op.offset + i \in 1 .. Len(kept)
            /\ r.items[i] = kept[op.offset + i]
      /\ r.truncated = (op.offset + Len(r.items) < Len(kept))
      /\ r.truncated => r.next = op.offset + Len(r.items)
      /\ ~r.truncated => r.next = None
  BY <1>1, <1>6, PageOfKept
<1>10. /\ reply.items \in Seq(S) /\ Len(reply.items) \in Nat
       /\ \A i \in 1 .. Len(reply.items) :
             /\ op.offset + i \in 1 .. Len(kept)
             /\ reply.items[i] = kept[op.offset + i]
       /\ reply.truncated = (op.offset + Len(reply.items) < Len(kept))
       /\ reply.next # None => reply.next = op.offset + Len(reply.items)
  BY <1>5, <1>9, Zenon
<1>11. reply.items \in Seq(DOMAIN fs)
  BY <1>8, <1>10
<1> QED BY <1>3, <1>4, <1>6, <1>7, <1>10, <1>11, Zenon DEF ListPart, fs, reply

LEMMA EntriesConcatenate ==
    ASSUME NEW pages, NEW n, Pages(pages, n), pages[1].op.tool = "list",
           \A i \in 1 .. n : pages[i].on = pages[1].on
    PROVE  Concatenate(pages)
<1> DEFINE first == pages[1]
           base == first.reply.base
           all == AllEntries(first)
           A == DOMAIN Trees[first.on]
           from == [i \in 1 .. n |-> pages[i].op.offset]
           Is(i) == SameList(pages[i].op, first.op)
           S == {i \in 0 .. n - 1 : Is(i + 1)}
<1>1. /\ n \in Nat \ {0} /\ n - 1 \in Nat /\ 1 \in 1 .. n /\ n \in 1 .. n
      /\ n = Len(pages) /\ DOMAIN pages = 1 .. n
  BY DEF Pages
<1>2. \A i \in 1 .. n : pages[i] \in Paging /\ pages[i].op.tool = "list" /\ pages[i].op \in ListOps
  <2>1. \A i \in 1 .. n : pages[i] \in Paging /\ pages[i].op.tool = "list"
    BY PagesOfOneTool DEF Pages
  <2> QED BY <2>1, PagingIs
<1>3. 0 \in S
  <2>1. 0 \in 0 .. n - 1 /\ 0 + 1 = 1 /\ Is(1)
    BY <1>1 DEF SameList
  <2> QED BY <2>1
<1>4. ASSUME NEW i \in 1 .. n - 1
      PROVE  /\ i \in 1 .. n /\ i + 1 \in 1 .. n
             /\ SameList(pages[i + 1].op, pages[i].op)
             /\ pages[i].reply.next # None /\ pages[i + 1].op.offset = pages[i].reply.next
  <2>1. i \in 1 .. n /\ i + 1 \in 1 .. n
    BY <1>1
  <2>2. Follows(pages[i], pages[i + 1].op)
    BY DEF Pages
  <2>3. pages[i + 1].op = [pages[i].op EXCEPT !.offset = pages[i].reply.next]
    <3> DEFINE page == pages[i]
               op == pages[i + 1].op
    <3>1. page \in Paging /\ page.op.tool = "list" /\ Follows(page, op)
      BY <1>2, <2>1, <2>2
    <3> HIDE DEF page, op
    <3>2. op = [page.op EXCEPT !.offset = page.reply.next]
      BY ONLY <3>1, ResumedSame, Zenon
    <3> QED BY <3>2 DEF page, op
  <2>4. pages[i].op \in ListOps /\ pages[i].reply.next # None
    BY <1>2, <2>1, <2>2 DEF Follows
  <2> DEFINE op == pages[i].op
             next == pages[i].reply.next
  <2> HIDE DEF op, next
  <2>5. SameList([op EXCEPT !.offset = next], op) /\ [op EXCEPT !.offset = next].offset = next
    BY <2>4, ResumedList DEF op
  <2> QED BY <2>1, <2>3, <2>4, <2>5 DEF op, next
<1>5. ASSUME NEW i \in 1 .. n - 1, i - 1 \in S PROVE i \in S
  <2>1. i \in 0 .. n - 1 /\ (i - 1) + 1 = i
    <3>1. n - 1 \in Nat /\ i \in 1 .. n - 1
      BY <1>1
    <3> QED BY ONLY <3>1
  <2>2. Is(i) /\ SameList(pages[i + 1].op, pages[i].op)
    BY <1>4, <1>5, <2>1
  <2>3. Is(i + 1)
    BY <2>2 DEF SameList
  <2> QED BY <2>1, <2>3
<1>6. \A i \in 1 .. n : Is(i)
  <2>1. 0 .. n - 1 \subseteq S
    <3> HIDE DEF S
    <3> QED BY <1>1, <1>3, <1>5, BoundedInduction
  <2>2. ASSUME NEW i \in 1 .. n PROVE Is(i)
    <3>1. i - 1 \in 0 .. n - 1 /\ (i - 1) + 1 = i
      BY <1>1
    <3>2. i - 1 \in S
      BY <2>1, <3>1
    <3> HIDE DEF Is
    <3>3. Is((i - 1) + 1)
      BY <3>2
    <3> QED BY <3>1, <3>3
  <2> QED BY <2>2
<1>7. \A i \in 1 .. n : ListPart(pages[i], base, all) /\ Len(all) \in Nat
  <2> SUFFICES ASSUME NEW i \in 1 .. n PROVE ListPart(pages[i], base, all) /\ Len(all) \in Nat
    OBVIOUS
  <2>1. SameList(pages[i].op, first.op)
    BY <1>6
  <2> QED BY <1>1, <1>2, <2>1, ListPartIs
<1> HIDE DEF all, base, S
<1>8. \A i \in 1 .. n : from[i] = pages[i].op.offset
  OBVIOUS
<1> HIDE DEF from
<1>9. \A i \in 1 .. n : pages[i].reply.items \in Seq(A) /\ from[i] \in Nat
  BY <1>7, <1>8 DEF ListPart
<1>10. \A i \in 1 .. n - 1 : from[i + 1] = from[i] + Len(pages[i].reply.items)
  BY <1>4, <1>7, <1>8 DEF ListPart
<1> DEFINE got == Gathered(pages)
           last == pages[n].reply
<1> HIDE DEF A
<1>11. /\ got \in Seq(A)
       /\ from[1] + Len(got) = from[n] + Len(last.items)
       /\ \A m \in 1 .. Len(got) :
             \E j \in 1 .. n : \E k \in 1 .. Len(pages[j].reply.items) :
                from[1] + m = from[j] + k /\ got[m] = pages[j].reply.items[k]
  <2>1. ArePages(pages, n, A)
    BY <1>1, <1>9 DEF ArePages
  <2>2. Begins(from, pages, n)
    BY <1>1, <1>9, <1>10 DEF Begins
  <2> HIDE DEF got
  <2>3. FromPages(got, from, pages, n, A)
    BY <2>1, <2>2, GatheredIs, Zenon DEF got
  <2> QED BY <2>3, Zenon DEF FromPages
<1> HIDE DEF got, last
<1>12. Len(got) \in Nat /\ from[1] \in Nat /\ Len(all) \in Nat
  BY <1>1, <1>7, <1>9, <1>11
<1>13. ASSUME NEW m \in 1 .. Len(got)
       PROVE  from[1] + m \in 1 .. Len(all) /\ got[m] = all[from[1] + m]
  <2>1. PICK j \in 1 .. n : \E k \in 1 .. Len(pages[j].reply.items) :
           from[1] + m = from[j] + k /\ got[m] = pages[j].reply.items[k]
    BY <1>11
  <2>2. PICK k \in 1 .. Len(pages[j].reply.items) :
           from[1] + m = from[j] + k /\ got[m] = pages[j].reply.items[k]
    BY <2>1
  <2>3. from[j] + k \in 1 .. Len(all) /\ pages[j].reply.items[k] = all[from[j] + k]
    BY <1>7, <1>8 DEF ListPart
  <2> QED BY <2>2, <2>3
<1>14. Len(got) # 0 => from[1] + Len(got) <= Len(all)
  <2> SUFFICES ASSUME Len(got) # 0 PROVE from[1] + Len(got) <= Len(all)
    OBVIOUS
  <2>1. Len(got) \in 1 .. Len(got)
    BY <1>12
  <2> QED BY <1>12, <1>13, <2>1
<1>15. ~last.truncated => from[1] + Len(got) >= Len(all)
  <2>1. /\ last.truncated = (from[n] + Len(last.items) < Len(all))
        /\ Len(last.items) \in Nat /\ from[n] \in Nat
    BY <1>1, <1>7, <1>8 DEF ListPart, last
  <2> SUFFICES ASSUME ~last.truncated PROVE from[1] + Len(got) >= Len(all)
    OBVIOUS
  <2>2. ~(from[n] + Len(last.items) < Len(all))
    BY <2>1, Zenon
  <2> HIDE DEF last
  <2> QED BY <1>11, <1>12, <2>1, <2>2
<1>16. Last(pages).reply = last /\ pages[1].op.tool # "read" /\ from[1] = pages[1].op.offset
  BY <1>1, <1>8 DEF Last, last
<1> QED BY <1>13, <1>14, <1>15, <1>16, Zenon DEF Concatenate, got, all

-----------------------------------------------------------------------------
(* Pages of a file.                                                        *)

LEMMA BytesOfOne ==
    ASSUME NEW lines \in Seq(Line), NEW i \in 1 .. Len(lines)
    PROVE  Bytes(SubSeq(lines, i, i)) = lines[i].bytes
<1> DEFINE one == SubSeq(lines, i, i)
<1>1. /\ one \in Seq(Line) /\ Len(one) = 1 /\ one[1] = lines[i]
  <2>1. Len(lines) \in Nat /\ i \in Nat /\ i \in 1 .. Len(lines) + 1 /\ i \in i - 1 .. Len(lines)
    OBVIOUS
  <2>2. /\ one \in Seq(Line) /\ Len(one) = i - i + 1
        /\ \A j \in 1 .. i - i + 1 : one[j] = lines[i + j - 1]
    BY <2>1, SubSeqProperties
  <2>3. i - i + 1 = 1 /\ i + 1 - 1 = i /\ 1 \in 1 .. 1
    BY <2>1
  <2>4. one[1] = lines[i + 1 - 1]
    BY <2>2, <2>3
  <2> QED BY <2>2, <2>3, <2>4
<1> HIDE DEF one
<1>2. PICK f \in [0 .. Len(one) -> Nat] :
         /\ f[0] = 0 /\ \A j \in 1 .. Len(one) : f[j] = f[j - 1] + one[j].bytes
         /\ Bytes(one) = f[Len(one)]
  BY <1>1, BytesOfLines, BytesSteps
<1>3. f[1] = f[1 - 1] + one[1].bytes /\ 1 - 1 = 0
  BY <1>1, <1>2
<1>4. one[1].bytes \in Nat
  BY <1>1, SomeLines
<1>5. Bytes(one) = one[1].bytes
  BY <1>1, <1>2, <1>3, <1>4
<1> QED BY <1>1, <1>5 DEF one

LEMMA BytesOfNone == Bytes(<<>>) = 0
<1>1. <<>> \in Seq(Line) /\ Len(<<>>) = 0
  BY EmptySeq
<1>2. PICK f \in [0 .. Len(<<>>) -> Nat] : f[0] = 0 /\ Bytes(<<>>) = f[Len(<<>>)]
  BY <1>1, BytesOfLines, BytesSteps
<1> QED BY <1>1, <1>2

(* The lines of a page: from x.start to x.last of those asked for, which   *)
(* end at x.end, or a part of x.start.                                     *)
Piece(page, lines, x) ==
    LET op == page.op
        reply == page.reply
    IN /\ x.start \in Nat \ {0} /\ x.end \in Nat /\ x.last \in Nat /\ x.budget \in Nat
       /\ x.cut \in BOOLEAN
       /\ x.start <= x.last + 1 /\ x.last <= x.end /\ x.end <= Len(lines)
       /\ lines # <<>> => x.start <= x.last
       /\ reply.items \in Seq(Item) /\ Len(reply.items) = x.last - x.start + 1
       /\ \A i \in 1 .. Len(reply.items) :
             reply.items[i] =
               [line |-> x.start + i - 1, kind |-> lines[x.start + i - 1].kind,
                bytes |-> IF x.cut THEN x.budget ELSE lines[x.start + i - 1].bytes]
       /\ reply.truncated = (x.last < x.end \/ x.cut)
       /\ reply.next = (IF x.last < x.end /\ ~x.cut THEN x.last + 1 ELSE None)
       /\ x.cut => x.last = x.start /\ x.budget < lines[x.start].bytes
       /\ op.mode.type = "whole" => x.start = 1 /\ x.end = Len(lines)
       /\ op.mode.type = "range" =>
             /\ x.end = AtMost(op.mode.end, Len(lines))
             /\ lines # <<>> => x.start = op.mode.start

LEMMA PieceIs ==
    ASSUME NEW page \in Paging, page.op.tool = "read"
    PROVE  /\ page.reply.version \in DOMAIN Contents /\ page.reply.redacted \in BOOLEAN
           /\ \E x : Piece(page, Rendering(page.reply.version, page.reply.redacted), x)
<1> DEFINE fs == Trees[page.on]
           op == page.op
           reply == page.reply
<1>1. /\ IsTree(fs) /\ op \in ReadOps
      /\ reply = Read(fs, op.rel, op.mode, op.max) /\ reply.type # "error"
  BY PagingIs
<1>2. PICK loaded, start, end, last, budget : IsPart(fs, op, reply, loaded, start, end, last, budget)
  BY <1>1, PartIs
<1> DEFINE lines == loaded.lines
           cut == Bytes(SubSeq(lines, start, last)) > budget
           x == [start |-> start, end |-> end, last |-> last, budget |-> budget, cut |-> cut]
<1>3. /\ start \in Nat \ {0} /\ end \in Nat /\ last \in Nat /\ budget \in Nat
      /\ start <= last + 1 /\ last <= end /\ end <= Len(lines)
      /\ Len(lines) \in Nat
      /\ reply = PageOf(loaded, start, end, last, budget)
      /\ HasLines(reply, loaded, start, last, budget)
      /\ reply.version = loaded.version /\ reply.redacted = loaded.redacted
  BY <1>2, PartHas
<1>4. /\ lines \in Seq(Line) /\ loaded.version \in DOMAIN Contents
      /\ lines = Rendering(loaded.version, loaded.redacted)
      /\ loaded.redacted = Classified(loaded.path)
  BY <1>2 DEF IsPart, IsLoaded
<1>5. reply.redacted \in BOOLEAN
  BY <1>3, <1>4 DEF Classified
<1>6. reply.truncated = (last < end \/ cut) /\ reply.next = (IF last < end /\ ~cut THEN last + 1 ELSE None)
  BY <1>3 DEF PageOf
<1>7. \/ lines = <<>> /\ start = 1 /\ end = 0 /\ last = 0
      \/ /\ start \in 1 .. Len(lines) /\ last \in start .. end
         /\ last # start => Bytes(SubSeq(lines, start, last)) <= budget
         /\ op.mode.type = "whole" => start = 1 /\ end = Len(lines)
         /\ op.mode.type = "range" => start = op.mode.start /\ end = AtMost(op.mode.end, Len(lines))
  BY <1>2 DEF IsPart, IsSlice
<1>8. lines # <<>> => start <= last
  BY <1>3, <1>7
<1>9. cut => last = start /\ budget < lines[start].bytes
  <2> SUFFICES ASSUME cut PROVE last = start /\ budget < lines[start].bytes
    OBVIOUS
  <2>1. CASE lines = <<>> /\ start = 1 /\ end = 0 /\ last = 0
    <3>1. SubSeq(lines, start, last) = <<>>
      BY <2>1
    <3> QED BY <3>1, <1>3, BytesOfNone
  <2>2. CASE start \in 1 .. Len(lines) /\ last \in start .. end
             /\ (last # start => Bytes(SubSeq(lines, start, last)) <= budget)
    <3>1. last \in 1 .. Len(lines)
      BY <1>3, <2>2
    <3>2. SubSeq(lines, start, last) \in Seq(Line)
      BY <1>4, <2>2, <3>1, SubSeqProperties
    <3>3. Bytes(SubSeq(lines, start, last)) \in Nat
      BY <3>2, BytesOfLines
    <3>4. last = start
      BY <1>3, <2>2, <3>3
    <3>5. Bytes(SubSeq(lines, start, start)) = lines[start].bytes
      BY <1>4, <2>2, BytesOfOne
    <3>6. lines[start].bytes > budget
      BY <3>4, <3>5
    <3>7. lines[start].bytes \in Nat
      BY <1>4, <2>2, SomeLines
    <3> QED BY <1>3, <3>4, <3>6, <3>7
  <2> QED BY <1>7, <2>1, <2>2
<1>10. /\ op.mode.type = "whole" => start = 1 /\ end = Len(lines)
       /\ op.mode.type = "range" =>
             /\ end = AtMost(op.mode.end, Len(lines))
             /\ lines # <<>> => start = op.mode.start
  <2>1. CASE lines = <<>> /\ start = 1 /\ end = 0 /\ last = 0
    <3>1. Len(lines) = 0
      BY <2>1, EmptySeq
    <3>2. op.mode.type = "range" => op.mode.end \in Nat
      <4>1. op.mode \in Modes
        BY <1>1 DEF ReadOps
      <4> QED BY <4>1 DEF Modes, Whole
    <3> QED BY <2>1, <3>1, <3>2 DEF AtMost
  <2> QED BY <1>7, <2>1
<1> HIDE DEF fs, reply, op, cut
<1>11. /\ reply.items \in Seq(Item) /\ Len(reply.items) = last - start + 1
       /\ \A i \in 1 .. Len(reply.items) :
             reply.items[i] =
               [line |-> start + i - 1, kind |-> lines[start + i - 1].kind,
                bytes |-> IF cut THEN budget ELSE lines[start + i - 1].bytes]
  BY <1>3, Zenon DEF HasLines, cut
<1>12. cut \in BOOLEAN
  BY DEF cut
<1>13. /\ x.start = start /\ x.end = end /\ x.last = last /\ x.budget = budget /\ x.cut = cut
  OBVIOUS
<1> HIDE DEF x
<1>14. Piece(page, lines, x)
  BY <1>3, <1>6, <1>8, <1>9, <1>10, <1>11, <1>12, <1>13, Zenon DEF Piece, op, reply
<1>15. lines = Rendering(reply.version, reply.redacted)
  BY <1>3, <1>4
<1> HIDE DEF lines
<1>16. Piece(page, Rendering(reply.version, reply.redacted), x)
  BY <1>14, <1>15, Zenon
<1> QED BY <1>3, <1>4, <1>5, <1>16, Zenon DEF reply

(* Whoever goes on begins where the page before ended, and is to end where *)
(* that was.                                                               *)
Joined(page, lines, x, y) ==
    /\ page.op.mode.type \in {"whole", "range"} /\ lines # <<>>
    /\ ~x.cut /\ y.start = x.last + 1 /\ y.end = x.end

LEMMA PieceFollows ==
    ASSUME NEW page \in Paging, NEW next \in Paging, page.op.tool = "read", Follows(page, next.op),
           NEW lines \in Seq(Line), Len(lines) <= Far, NEW x, NEW y,
           Piece(page, lines, x), Piece(next, lines, y)
    PROVE  Joined(page, lines, x, y)
<1>1. /\ page.reply.next # None /\ page.op.mode.type \in {"whole", "range"}
      /\ next.op.mode = [type |-> "range", start |-> page.reply.next,
                         end |-> IF page.op.mode.type = "range" THEN page.op.mode.end ELSE Far]
  BY ResumedSame DEF Follows
<1>2. x.last < x.end /\ ~x.cut /\ page.reply.next = x.last + 1
  <2>1. page.reply.next = (IF x.last < x.end /\ ~x.cut THEN x.last + 1 ELSE None)
    BY Zenon DEF Piece
  <2> QED BY <1>1, <2>1, Zenon
<1>3. /\ x.last \in Nat /\ x.end \in Nat /\ x.end <= Len(lines) /\ Len(lines) \in Nat /\ Far \in Nat
  BY ReadingAssumption DEF Piece
<1>4. lines # <<>>
  BY <1>2, <1>3, EmptySeq
<1>5. y.start = x.last + 1
  BY <1>1, <1>2, <1>4 DEF Piece
<1>6. CASE page.op.mode.type = "range"
  <2>1. next.op.mode.type = "range" /\ next.op.mode.end = page.op.mode.end
    BY <1>1, <1>6
  <2>2. x.end = AtMost(page.op.mode.end, Len(lines)) /\ y.end = AtMost(next.op.mode.end, Len(lines))
    BY <1>6, <2>1 DEF Piece
  <2> QED BY <1>1, <1>2, <1>4, <1>5, <2>1, <2>2 DEF Joined
<1>7. CASE page.op.mode.type = "whole"
  <2>1. next.op.mode.type = "range" /\ next.op.mode.end = Far
    BY <1>1, <1>7
  <2>2. x.end = Len(lines) /\ y.end = AtMost(Far, Len(lines))
    BY <1>7, <2>1 DEF Piece
  <2>3. AtMost(Far, Len(lines)) = Len(lines)
    BY <1>3 DEF AtMost
  <2> QED BY <1>1, <1>2, <1>4, <1>5, <2>2, <2>3 DEF Joined
<1> QED BY <1>1, <1>6, <1>7

-----------------------------------------------------------------------------
(* Pages of a file in a row.                                               *)

(* Pages of one content: whatever of it they are, they are in a row.       *)
Pieces(pages, n, lines, piece) ==
    /\ \A i \in 1 .. n : Piece(pages[i], lines, piece[i])
    /\ \A i \in 1 .. n - 1 :
          Joined(pages[i], lines, piece[i], piece[i + 1])

OneContent(pages, n) ==
    \A i \in 1 .. n : /\ pages[i].reply.version = pages[1].reply.version
                      /\ pages[i].reply.redacted = pages[1].reply.redacted

LinesOf(page) == Rendering(page.reply.version, page.reply.redacted)

LEMMA PiecesAre ==
    ASSUME NEW pages, NEW n, Pages(pages, n), pages[1].op.tool = "read", OneContent(pages, n)
    PROVE  /\ LinesOf(pages[1]) \in Seq(Line)
           /\ \E piece : Pieces(pages, n, LinesOf(pages[1]), piece)
<1> DEFINE lines == LinesOf(pages[1])
           piece == [i \in 1 .. n |-> CHOOSE x : Piece(pages[i], lines, x)]
<1>1. n \in Nat \ {0} /\ 1 \in 1 .. n
  BY DEF Pages
<1>2. \A i \in 1 .. n : pages[i] \in Paging /\ pages[i].op.tool = "read"
  BY PagesOfOneTool DEF Pages
<1>3. /\ lines \in Seq(Line) /\ Len(lines) <= Far
  <2>1. pages[1].reply.version \in DOMAIN Contents /\ pages[1].reply.redacted \in BOOLEAN
    BY <1>1, <1>2, PieceIs
  <2> QED BY <2>1, RenderingIs, ReadingAssumption DEF LinesOf
<1>4. \A i \in 1 .. n : lines = Rendering(pages[i].reply.version, pages[i].reply.redacted)
  BY <1>1, Zenon DEF OneContent, LinesOf
<1> HIDE DEF lines
<1>5. ASSUME NEW i \in 1 .. n PROVE Piece(pages[i], lines, piece[i])
  <2>1. \E x : Piece(pages[i], Rendering(pages[i].reply.version, pages[i].reply.redacted), x)
    BY <1>2, PieceIs
  <2>2. \E x : Piece(pages[i], lines, x)
    BY <1>4, <2>1, Zenon
  <2>3. Piece(pages[i], lines, CHOOSE x : Piece(pages[i], lines, x))
    BY <2>2, Zenon
  <2>4. piece[i] = CHOOSE x : Piece(pages[i], lines, x)
    OBVIOUS
  <2> QED BY <2>3, <2>4, Zenon
<1> HIDE DEF piece
<1>6. ASSUME NEW i \in 1 .. n - 1
      PROVE  Joined(pages[i], lines, piece[i], piece[i + 1])
  <2>1. i \in 1 .. n /\ i + 1 \in 1 .. n
    BY <1>1
  <2>2. Follows(pages[i], pages[i + 1].op)
    BY DEF Pages
  <2>3. Piece(pages[i], lines, piece[i]) /\ Piece(pages[i + 1], lines, piece[i + 1])
    BY <1>5, <2>1
  <2>4. pages[i] \in Paging /\ pages[i + 1] \in Paging /\ pages[i].op.tool = "read"
    BY <1>2, <2>1
  <2> QED BY <1>3, <2>2, <2>3, <2>4, PieceFollows, Zenon
<1>7. Pieces(pages, n, lines, piece)
  BY <1>5, <1>6, Zenon DEF Pieces
<1> QED BY <1>3, <1>7, Zenon DEF lines

(* They all end where the first one does.                                  *)
LEMMA PiecesEnd ==
    ASSUME NEW pages, NEW n \in Nat \ {0}, NEW lines, NEW piece, Pieces(pages, n, lines, piece)
    PROVE  \A i \in 1 .. n : piece[i].end = piece[1].end
<1> DEFINE S == {i \in 0 .. n - 1 : piece[i + 1].end = piece[1].end}
<1>1. n - 1 \in Nat /\ 0 \in 0 .. n - 1 /\ 0 + 1 = 1
  OBVIOUS
<1>2. 0 \in S
  BY <1>1
<1>3. ASSUME NEW i \in 1 .. n - 1, i - 1 \in S PROVE i \in S
  <2>1. i \in 0 .. n - 1 /\ (i - 1) + 1 = i
    OBVIOUS
  <2>2. piece[i + 1].end = piece[i].end
    BY DEF Pieces, Joined
  <2> QED BY <1>3, <2>1, <2>2
<1>4. 0 .. n - 1 \subseteq S
  <2> HIDE DEF S
  <2> QED BY <1>1, <1>2, <1>3, BoundedInduction
<1> SUFFICES ASSUME NEW i \in 1 .. n PROVE piece[i].end = piece[1].end
  OBVIOUS
<1>5. i - 1 \in 0 .. n - 1 /\ (i - 1) + 1 = i
  OBVIOUS
<1>6. i - 1 \in S
  BY <1>4, <1>5
<1> QED BY <1>5, <1>6

(* A later one begins past where an earlier one ended.                     *)
LEMMA PiecesPass ==
    ASSUME NEW pages, NEW n \in Nat \ {0}, NEW lines, NEW piece, Pieces(pages, n, lines, piece)
    PROVE  \A j \in 1 .. n - 1 : piece[j].last < piece[n].start
<1> DEFINE S == {i \in 0 .. n - 1 : \A j \in 1 .. i : piece[j].last < piece[i + 1].start}
<1>1. n - 1 \in Nat /\ 0 \in 0 .. n - 1 /\ 1 .. 0 = {}
  OBVIOUS
<1>2. 0 \in S
  BY <1>1
<1>3. ASSUME NEW i \in 1 .. n - 1, i - 1 \in S PROVE i \in S
  <2>1. i \in 0 .. n - 1 /\ (i - 1) + 1 = i /\ i \in 1 .. n
    OBVIOUS
  <2>2. piece[i + 1].start = piece[i].last + 1
    BY DEF Pieces, Joined
  <2>3. piece[i].start \in Nat /\ piece[i].last \in Nat /\ piece[i].start <= piece[i].last + 1
    BY <2>1 DEF Pieces, Piece
  <2>4. ASSUME NEW j \in 1 .. i PROVE piece[j].last < piece[i + 1].start
    <3>1. CASE j = i
      BY <2>2, <2>3, <3>1
    <3>2. CASE j # i
      <4>1. j \in 1 .. i - 1 /\ j \in 1 .. n
        BY <3>2
      <4>2. piece[j].last < piece[i].start
        BY <1>3, <2>1, <4>1
      <4>3. piece[j].last \in Nat
        BY <4>1 DEF Pieces, Piece
      <4> QED BY <2>2, <2>3, <4>2, <4>3
    <3> QED BY <3>1, <3>2
  <2> QED BY <2>1, <2>4
<1>4. 0 .. n - 1 \subseteq S
  <2> HIDE DEF S
  <2> QED BY <1>1, <1>2, <1>3, BoundedInduction
<1>5. n - 1 \in S /\ (n - 1) + 1 = n
  BY <1>1, <1>4
<1> QED BY <1>5

LEMMA LinesConcatenate ==
    ASSUME NEW pages, NEW n, Pages(pages, n), pages[1].op.tool = "read", OneContent(pages, n)
    PROVE  Concatenate(pages)
<1> DEFINE lines == LinesOf(pages[1])
           mode == pages[1].op.mode
           all == AllLines(pages[1])
           end == IF mode.type = "range" THEN AtMost(mode.end, Len(lines)) ELSE Len(lines)
           got == Gathered(pages)
           last == pages[n].reply
           cut == last.truncated /\ last.next = None
           skipped == IF got = <<>> THEN 0 ELSE got[1].line - 1
<1>1. n \in Nat \ {0} /\ 1 \in 1 .. n /\ n \in 1 .. n /\ n = Len(pages) /\ DOMAIN pages = 1 .. n
  BY DEF Pages
<1>2. lines \in Seq(Line) /\ Len(lines) \in Nat
  BY PiecesAre
<1>3. PICK piece : Pieces(pages, n, lines, piece)
  BY PiecesAre
<1> DEFINE from == [i \in 1 .. n |-> piece[i].start - 1]
           x == piece[1]
           z == piece[n]
<1>4. \A i \in 1 .. n : Piece(pages[i], lines, piece[i]) /\ piece[i].end = x.end
  <2>1. \A i \in 1 .. n : piece[i].end = x.end
    <3>1. n \in Nat \ {0}
      BY <1>1
    <3> HIDE DEF lines
    <3> QED BY ONLY <3>1, <1>3, PiecesEnd
  <2>2. \A i \in 1 .. n : Piece(pages[i], lines, piece[i])
    BY <1>3, Zenon DEF Pieces
  <2> QED BY <2>1, <2>2, Zenon
<1>5. all = [i \in 1 .. end |-> [line |-> i, kind |-> lines[i].kind, bytes |-> lines[i].bytes]]
  BY DEF AllLines, LinesOf
<1>6. \A i \in 1 .. n : from[i] = piece[i].start - 1
  OBVIOUS
<1>w. pages[1].op.mode \in Modes
  <2>1. pages[1] \in Paging
    BY <1>1 DEF Pages
  <2> QED BY <2>1, PagingIs DEF ReadOps
<1> HIDE DEF lines, all, from, got
<1>7. /\ end \in Nat /\ x.end <= end /\ end <= Len(lines)
      /\ mode.type \in {"whole", "range"} => x.end = end
  <2>1. /\ x.end \in Nat /\ x.end <= Len(lines)
        /\ mode.type = "whole" => x.end = Len(lines)
        /\ mode.type = "range" => x.end = AtMost(mode.end, Len(lines))
    BY <1>1, <1>4 DEF Piece
  <2> QED BY <1>2, <2>1
<1> HIDE DEF end
<1>8. /\ Len(all) = end /\ \A i \in 1 .. end : all[i] = [line |-> i, kind |-> lines[i].kind, bytes |-> lines[i].bytes]
  <2>1. DOMAIN all = 1 .. end
    BY <1>5
  <2>2. \A i \in 1 .. end : all[i] = [line |-> i, kind |-> lines[i].kind, bytes |-> lines[i].bytes]
    BY <1>5
  <2>3. Len(all) = end
    BY <1>5, <1>7
  <2> QED BY <2>2, <2>3
<1>9. \A i \in 1 .. n :
         /\ piece[i].start \in Nat \ {0} /\ piece[i].last \in Nat /\ piece[i].last <= x.end
         /\ piece[i].start <= piece[i].last + 1
         /\ pages[i].reply.items \in Seq(Item)
         /\ Len(pages[i].reply.items) = piece[i].last - piece[i].start + 1
  BY <1>4 DEF Piece
<1>10. \A i \in 1 .. n - 1 : ~piece[i].cut /\ piece[i + 1].start = piece[i].last + 1 /\ lines # <<>>
  BY <1>3 DEF Pieces, Joined
<1>11. \A i \in 1 .. n : from[i] \in Nat
  BY <1>6, <1>9
<1>12. \A i \in 1 .. n - 1 : from[i + 1] = from[i] + Len(pages[i].reply.items)
  <2> SUFFICES ASSUME NEW i \in 1 .. n - 1 PROVE from[i + 1] = from[i] + Len(pages[i].reply.items)
    OBVIOUS
  <2>1. i \in 1 .. n /\ i + 1 \in 1 .. n
    BY <1>1
  <2>2. from[i] = piece[i].start - 1 /\ from[i + 1] = piece[i + 1].start - 1
    BY <1>6, <2>1, Zenon
  <2>3. /\ piece[i].start \in Nat \ {0} /\ piece[i].last \in Nat
        /\ Len(pages[i].reply.items) = piece[i].last - piece[i].start + 1
        /\ piece[i + 1].start = piece[i].last + 1
    BY <1>9, <1>10, <2>1
  <2> QED BY <2>2, <2>3
<1>13. /\ got \in Seq(Item)
       /\ from[1] + Len(got) = from[n] + Len(last.items)
       /\ \A m \in 1 .. Len(got) :
             \E j \in 1 .. n : \E k \in 1 .. Len(pages[j].reply.items) :
                from[1] + m = from[j] + k /\ got[m] = pages[j].reply.items[k]
  <2>1. ArePages(pages, n, Item)
    BY <1>1, <1>9 DEF ArePages
  <2>2. Begins(from, pages, n)
    BY <1>1, <1>11, <1>12 DEF Begins
  <2>3. FromPages(got, from, pages, n, Item)
    BY <2>1, <2>2, GatheredIs, Zenon DEF got
  <2> QED BY <2>3, Zenon DEF FromPages
<1>14. Len(got) \in Nat /\ from[1] + Len(got) = z.last /\ z.last \in Nat /\ z.start \in Nat \ {0}
  <2>1. /\ z.last \in Nat /\ z.start \in Nat \ {0} /\ from[n] = z.start - 1
        /\ Len(last.items) = z.last - z.start + 1 /\ from[1] \in Nat
    BY <1>1, <1>6, <1>9, <1>11
  <2>2. Len(got) \in Nat /\ from[1] + Len(got) = from[n] + Len(last.items)
    BY <1>13
  <2> HIDE DEF last, z
  <2> QED BY <2>1, <2>2
(* Line m of what was gathered.                                            *)
<1>15. ASSUME NEW m \in 1 .. Len(got)
       PROVE  /\ from[1] + m \in 1 .. end
              /\ got[m].line = from[1] + m
              /\ got[m] = all[from[1] + m] \/ (z.cut /\ from[1] + m = z.last /\ got[m].bytes < all[from[1] + m].bytes)
              /\ z.cut /\ from[1] + m = z.last => got[m].bytes < all[from[1] + m].bytes
  <2>1. PICK j \in 1 .. n : \E k \in 1 .. Len(pages[j].reply.items) :
           from[1] + m = from[j] + k /\ got[m] = pages[j].reply.items[k]
    BY <1>13, Zenon
  <2>2. PICK k \in 1 .. Len(pages[j].reply.items) :
           from[1] + m = from[j] + k /\ got[m] = pages[j].reply.items[k]
    BY <2>1
  <2> DEFINE i == piece[j].start + k - 1
             bytes == IF piece[j].cut THEN piece[j].budget ELSE lines[i].bytes
  <2>3. /\ i = from[1] + m /\ i \in 1 .. end /\ i <= piece[j].last /\ piece[j].start <= i
    <3>1. /\ piece[j].start \in Nat \ {0} /\ piece[j].last \in Nat /\ piece[j].last <= x.end
          /\ Len(pages[j].reply.items) = piece[j].last - piece[j].start + 1
          /\ from[j] = piece[j].start - 1
      BY <1>6, <1>9
    <3>2. x.end \in Nat
      BY <1>1, <1>4 DEF Piece
    <3>3. from[1] + m = from[j] + k /\ k \in 1 .. Len(pages[j].reply.items)
      BY <2>2
    <3>4. from[1] \in Nat /\ m \in Nat /\ k \in Nat /\ 1 <= k /\ k <= Len(pages[j].reply.items)
          /\ from[j] \in Nat
      BY <1>1, <1>9, <1>11, <1>14, <3>1
    <3>5. i = from[1] + m
      BY <3>1, <3>3, <3>4
    <3>6. i <= piece[j].last /\ piece[j].start <= i
      <4> DEFINE a == piece[j].start
                 b == piece[j].last
                 l == Len(pages[j].reply.items)
      <4>1. a \in Nat /\ b \in Nat /\ k \in Nat /\ 1 <= k /\ k <= l /\ l = b - a + 1
        BY <3>1, <3>4
      <4> HIDE DEF a, b, l
      <4>2. a + k - 1 <= b /\ a <= a + k - 1
        BY ONLY <4>1
      <4> QED BY <4>2 DEF a, b
    <3>7. x.end <= end /\ end \in Nat
      BY <1>7
    <3>8. i \in Nat
      BY <3>4, <3>5
    <3> HIDE DEF x, i
    <3>9. i \in 1 .. end
      BY <3>1, <3>2, <3>6, <3>7, <3>8
    <3> QED BY <3>5, <3>6, <3>9
  <2>4. got[m] = [line |-> i, kind |-> lines[i].kind, bytes |-> bytes]
    BY <1>4, <2>2, Zenon DEF Piece
  <2>5. all[i] = [line |-> i, kind |-> lines[i].kind, bytes |-> lines[i].bytes]
    BY <1>8, <2>3
  <2> HIDE DEF bytes
  <2>6. got[m].line = i /\ got[m].bytes = bytes /\ all[i].bytes = lines[i].bytes
    BY <2>4, <2>5
  <2>7. CASE piece[j].cut
    <3>1. j = n
      <4>1. ASSUME j # n PROVE FALSE
        <5>1. j \in 1 .. n - 1
          BY <1>1, <4>1
        <5> QED BY <1>10, <2>7, <5>1
      <4> QED BY <4>1
    <3>2. piece[j].last = piece[j].start /\ piece[j].budget < lines[piece[j].start].bytes
      BY <1>4, <2>7 DEF Piece
    <3>3. i = piece[j].start /\ i = z.last /\ z.cut
      BY <1>9, <2>3, <2>7, <3>1, <3>2
    <3>4. bytes < lines[i].bytes
      BY <2>7, <3>2, <3>3 DEF bytes
    <3> QED BY <2>3, <2>6, <3>3, <3>4
  <2>8. CASE ~piece[j].cut
    <3>1. got[m] = all[i]
      BY <2>4, <2>5, <2>8 DEF bytes
    <3>2. ~(z.cut /\ from[1] + m = z.last)
      <4> SUFFICES ASSUME z.cut, i = z.last PROVE FALSE
        BY <2>3
      <4>1. z.last = z.start
        BY <1>1, <1>4 DEF Piece
      <4>2. j # n
        BY <2>8
      <4>3. piece[j].last < z.start
        <5>1. j \in 1 .. n - 1
          BY <1>1, <4>2
        <5> QED BY <1>1, <1>3, <5>1, PiecesPass
      <4> QED BY <1>9, <1>14, <2>3, <4>1, <4>3
    <3> QED BY <2>3, <2>6, <3>1, <3>2
  <2> QED BY <2>7, <2>8
<1>16. got = <<>> <=> Len(got) = 0
  BY <1>13, EmptySeq
<1>17. got # <<>> => skipped = from[1]
  <2> SUFFICES ASSUME got # <<>> PROVE got[1].line - 1 = from[1]
    OBVIOUS
  <2>1. 1 \in 1 .. Len(got)
    BY <1>14, <1>16
  <2>2. got[1].line = from[1] + 1 /\ from[1] \in Nat
    BY <1>1, <1>11, <1>15, <2>1
  <2> QED BY <2>2
<1>18. got = <<>> => from[1] = 0
  <2> SUFFICES ASSUME got = <<>>, from[1] # 0 PROVE FALSE
    OBVIOUS
  <2>1. from[1] = z.last /\ from[1] = x.start - 1 /\ x.start \in Nat \ {0} /\ from[1] \in Nat
    BY <1>1, <1>6, <1>9, <1>11, <1>14, <1>16
  <2>2. lines # <<>>
    <3> SUFFICES ASSUME lines = <<>> PROVE FALSE
      OBVIOUS
    <3>1. Len(lines) = 0 /\ x.end <= 0
      <4>1. x.end <= Len(lines)
        BY <1>1, <1>4 DEF Piece
      <4> QED BY <4>1, EmptySeq
    <3>2. z.last <= x.end /\ x.end \in Nat
      BY <1>1, <1>4, <1>9 DEF Piece
    <3> HIDE DEF z, x
    <3> QED BY <1>14, <2>1, <3>1, <3>2
  <2>3. z.start <= z.last
    BY <1>1, <1>4, <2>2 DEF Piece
  <2>4. x.start <= z.start
    <3>1. CASE n = 1
      BY <3>1, <1>14
    <3>2. CASE n # 1
      <4>1. 1 \in 1 .. n - 1
        BY <1>1, <3>2
      <4>2. x.last < z.start
        BY <1>1, <1>3, <4>1, PiecesPass
      <4>3. x.start <= x.last /\ x.last \in Nat
        BY <1>1, <1>4, <2>2 DEF Piece
      <4> HIDE DEF z, x
      <4> QED BY <1>14, <2>1, <4>2, <4>3
    <3> QED BY <3>1, <3>2
  <2> HIDE DEF z, x
  <2> QED BY <1>14, <2>1, <2>3, <2>4
<1>19. skipped = from[1]
  BY <1>17, <1>18
<1>20. /\ last.truncated = (z.last < z.end \/ z.cut) /\ z.cut \in BOOLEAN
       /\ last.next = (IF z.last < z.end /\ ~z.cut THEN z.last + 1 ELSE None)
       /\ z.end = x.end /\ x.end \in Nat
  <2>1. Piece(pages[n], lines, z) /\ z.end = x.end /\ Piece(pages[1], lines, x)
    BY <1>1, <1>4
  <2> QED BY <2>1, Zenon DEF Piece
<1>21. mode.type = "whole" => from[1] = 0
  <2>1. Piece(pages[1], lines, x)
    BY <1>1, <1>4
  <2>2. mode.type = "whole" => x.start = 1
    BY <2>1 DEF Piece
  <2> QED BY <1>1, <1>6, <2>2
<1> HIDE DEF z, x, last, skipped, mode
<1>22. cut <=> z.cut
  <2>1. z.last + 1 # None
    BY <1>14 DEF None
  <2> QED BY <1>20, <2>1, Zenon
<1> HIDE DEF cut
<1>23. Len(got) # 0 => from[1] + Len(got) <= Len(all)
  <2> SUFFICES ASSUME Len(got) # 0 PROVE from[1] + Len(got) <= Len(all)
    OBVIOUS
  <2>1. Len(got) \in 1 .. Len(got)
    BY <1>14
  <2>2. from[1] + Len(got) \in 1 .. end
    BY <1>15, <2>1
  <2> QED BY <1>7, <1>8, <2>2
<1>24. ASSUME NEW i \in 1 .. Len(got)
       PROVE  IF cut /\ i = Len(got)
              THEN got[i].line = all[from[1] + i].line /\ got[i].bytes < all[from[1] + i].bytes
              ELSE got[i] = all[from[1] + i]
  <2>1. from[1] + i = z.last <=> i = Len(got)
    BY <1>1, <1>11, <1>14
  <2>2. from[1] + i \in 1 .. end
    BY <1>15
  <2>3. all[from[1] + i].line = from[1] + i
    BY <1>8, <2>2
  <2> QED BY <1>15, <1>22, <2>1, <2>3
<1>25. mode.type \in {"whole", "range"} /\ ~last.truncated => from[1] + Len(got) >= Len(all)
  <2> SUFFICES ASSUME mode.type \in {"whole", "range"}, ~last.truncated
               PROVE  from[1] + Len(got) >= Len(all)
    OBVIOUS
  <2>1. ~(z.last < z.end)
    BY <1>20, Zenon
  <2>2. x.end = end
    BY <1>7
  <2> QED BY <1>7, <1>8, <1>14, <1>20, <2>1, <2>2
<1>26. Last(pages).reply = last
  BY <1>1 DEF Last, last
<1> QED BY <1>19, <1>21, <1>23, <1>24, <1>25, <1>26, Zenon DEF Concatenate, got, all, skipped, cut, mode

-----------------------------------------------------------------------------
(* The pages of a call.                                                    *)

LEMMA PagesOfCall ==
    ASSUME NEW phase, NEW call, IsCall(phase, call), call.pages # <<>>
    PROVE  /\ Pages(call.pages, Len(call.pages))
           /\ Range(call.pages) = {call.pages[i] : i \in 1 .. Len(call.pages)}
<1> DEFINE pages == call.pages
           n == Len(pages)
<1>1. pages \in Seq(Paging) /\ \A i \in 1 .. n - 1 : Follows(pages[i], pages[i + 1].op)
  BY DEF IsCall
<1> HIDE DEF pages
<1>2. n \in Nat /\ DOMAIN pages = 1 .. n /\ \A i \in 1 .. n : pages[i] \in Paging
  BY <1>1
<1>3. n # 0
  BY <1>1, EmptySeq DEF pages
<1>4. Pages(pages, n)
  BY <1>1, <1>2, <1>3 DEF Pages
<1>5. Range(pages) = {pages[i] : i \in 1 .. n}
  BY <1>2 DEF Range
<1> QED BY <1>4, <1>5 DEF pages

LEMMA PagesAreOneWhole ==
    ASSUME NEW pages, NEW n, Pages(pages, n), Range(pages) = {pages[i] : i \in 1 .. n},
           OfOneState(pages)
    PROVE  Concatenate(pages)
<1>1. n \in Nat \ {0} /\ 1 \in 1 .. n /\ \A i \in 1 .. n : pages[i] \in Range(pages)
  BY DEF Pages
<1>2. pages[1].op.tool \in {"read", "list"}
  <2>1. pages[1] \in Paging
    BY <1>1 DEF Pages
  <2> QED BY <2>1, PagingIs
<1>3. CASE pages[1].op.tool = "read"
  <2>1. OneContent(pages, n)
    BY <1>1, <1>3 DEF OfOneState, OneContent
  <2> QED BY <1>3, <2>1, LinesConcatenate
<1>4. CASE pages[1].op.tool = "list"
  <2>1. \A i \in 1 .. n : pages[i].on = pages[1].on
    BY <1>1, <1>4 DEF OfOneState
  <2> QED BY <1>4, <2>1, EntriesConcatenate
<1> QED BY <1>2, <1>3, <1>4

(* The pages an agent followed from one to the next are, if they are of    *)
(* one state, together what there was, on any tree and with any content:   *)
(* none twice, none left out, all of it once a page is not truncated       *)
(* (fsops.rs:942, 525).                                                    *)
THEOREM PagesAlwaysConcatenate == Spec => []PagesConcatenate
<1>1. CallsAreRight => PagesConcatenate
  <2> SUFFICES ASSUME CallsAreRight, NEW a \in Agents,
                      agents[a].pages # <<>>, OfOneState(agents[a].pages)
               PROVE  Concatenate(agents[a].pages)
    BY DEF PagesConcatenate
  <2>1. IsCall(front[a].phase, agents[a])
    BY DEF CallsAreRight
  <2>2. /\ Pages(agents[a].pages, Len(agents[a].pages))
        /\ Range(agents[a].pages) = {agents[a].pages[i] : i \in 1 .. Len(agents[a].pages)}
    BY <2>1, PagesOfCall
  <2> QED BY <2>2, PagesAreOneWhole
<1> QED BY <1>1, CallsStayRight, PTL
=============================================================================
