--------------------------- MODULE Secrets_proofs ---------------------------
(***************************************************************************)
(* Proofs about Shapes and Secrets, for any grammar of tags, any hosts,    *)
(* locations, calls, edits of others and faults.                           *)
(***************************************************************************)
EXTENDS Secrets, TLAPS

LEMMA TimesMonotone ==
    ASSUME NEW n \in Nat, NEW k \in Nat, NEW b \in Nat, n >= b
    PROVE  n * k >= b * k /\ n * k \in Nat
OBVIOUS

(* No shape stands for there being none.                                   *)
LEMMA ShapesApart == ASSUME NEW s \in Grammar PROVE NoShape # s
  BY SecretsAssumption DEF Grammar

(* A minted form is a form, of the length its shape says.                  *)
LEMMA MintedFields ==
    ASSUME NEW s \in Grammar, NEW f \in MintedForms(s)
    PROVE  /\ f \in Forms /\ f.len = MintedLen(s) /\ MintedLen(s) \in Nat
           /\ f.look \in Looks /\ Mints(s, f.look)
<1>1. s.chars \in Nat /\ s.tag \in Tags \cup {NoTag}
  BY DEF Grammar, Shape
<1>2. MintedLen(s) \in Nat
  BY <1>1, TagsAssumption DEF MintedLen
<1>3. PICK k \in Looks : Mints(s, k) /\ f = [len |-> MintedLen(s), look |-> k]
  BY DEF MintedForms
<1> QED  BY <1>2, <1>3 DEF Forms

(* It is never short, and has a character.                                 *)
LEMMA MintedBounds ==
    ASSUME NEW s \in Grammar, NEW f \in MintedForms(s)
    PROVE  /\ f.len >= s.chars /\ f.len >= 16
           /\ f.look.classes \subseteq Classes /\ f.look.classes # {}
<1>1. /\ s.kind \in Kinds /\ s.chars \in Nat /\ s.tag \in Tags \cup {NoTag}
      /\ InGrammar(s)
  BY DEF Grammar, Shape
<1>2. MintedLen(s) >= s.chars
  BY <1>1, TagsAssumption DEF MintedLen
<1>3. s.chars >= 16
  BY <1>1 DEF InGrammar, Kinds, MinHex, MaxHex, MinBase64, MaxBase64, UuidLen
<1>4. f.len = MintedLen(s) /\ MintedLen(s) \in Nat /\ f.look \in Looks
      /\ f.look.classes \in MintedClasses(s)
  BY MintedFields DEF Mints
<1>5. f.look.classes \subseteq Classes
  BY <1>4 DEF Looks
<1>6. PICK c \in BodyClasses(s.kind) : c \subseteq f.look.classes
  BY <1>4 DEF MintedClasses
<1>7. c # {}
  <2>1. CASE s.kind = "hex"
    BY <1>6, <2>1 DEF BodyClasses
  <2>2. CASE s.kind = "base64url"
    BY <1>6, <2>2 DEF BodyClasses
  <2>3. CASE s.kind = "uuid4"
    <3>1. c \in {{"digit", "other"}, {"lower", "digit", "other"}}
      BY <1>6, <2>3 DEF BodyClasses
    <3> QED  BY <3>1
  <2> QED  BY <1>1, <2>1, <2>2, <2>3 DEF Kinds
<1>8. f.look.classes # {}
  BY <1>6, <1>7
<1>9. f.len >= s.chars /\ f.len >= 16
  <2> DEFINE n == f.len
             m == s.chars
  <2>1. n \in Nat /\ m \in Nat /\ n >= m /\ m >= 16
    BY <1>1, <1>2, <1>3, <1>4
  <2> HIDE DEF n, m
  <2>2. n >= m /\ n >= 16
    BY <2>1
  <2> QED  BY <2>2 DEF n, m
<1> QED  BY <1>5, <1>8, <1>9

(* The entropy of a character, by the classes there are.                   *)
LEMMA BitsOf ==
    ASSUME NEW c \in SUBSET Classes, c # {}
    PROVE  /\ c = {"digit"} => Bits(CharsetSize(c)) = 3321
           /\ c \in {{"lower"}, {"upper"}} => Bits(CharsetSize(c)) = 4700
           /\ c \notin {{"digit"}, {"lower"}, {"upper"}} =>
                 Bits(CharsetSize(c)) \in Nat /\ Bits(CharsetSize(c)) >= 5044
<1> DEFINE n == CharsetSize(c)
<1>1. c = {"digit"} => n = 10
  BY DEF CharsetSize, ClassSize
<1>2. c \in {{"lower"}, {"upper"}} => n = 26
  BY DEF CharsetSize, ClassSize
<1>3. ASSUME c \notin {{"digit"}, {"lower"}, {"upper"}}
      PROVE  n \in {33, 36, 43, 52, 59, 62, 69, 85, 95}
  <2>1. "lower" \in c \/ "upper" \in c \/ "digit" \in c \/ "other" \in c
    BY DEF Classes
  <2>2. "lower" \in c => "upper" \in c \/ "digit" \in c \/ "other" \in c
    BY <1>3 DEF Classes
  <2>3. "upper" \in c => "lower" \in c \/ "digit" \in c \/ "other" \in c
    BY <1>3 DEF Classes
  <2>4. "digit" \in c => "lower" \in c \/ "upper" \in c \/ "other" \in c
    BY <1>3 DEF Classes
  <2> QED  BY <2>1, <2>2, <2>3, <2>4 DEF CharsetSize, ClassSize
<1> HIDE DEF n
<1>4. n = 10 => Bits(n) = 3321
  BY DEF Bits
<1>5. n = 26 => Bits(n) = 4700
  BY DEF Bits
<1>6. n \in {33, 36, 43, 52, 59, 62, 69, 85, 95} => Bits(n) \in Nat /\ Bits(n) >= 5044
  BY DEF Bits
<1> QED  BY <1>1, <1>2, <1>3, <1>4, <1>5, <1>6 DEF n

(* Which minted values clear the entropy floor, so that their handle has a *)
(* digest: those with five characters that differ, but for digits alone of *)
(* up to 24 characters and letters of one case alone of up to 17.          *)
(* (shapes.rs says that every value of every shape does, by construction.) *)
THEOREM MintedClearsFloor ==
    ASSUME NEW s \in Grammar, NEW f \in MintedForms(s)
    PROVE  ClearsFloor(f) <=>
              /\ f.look.varied
              /\ f.look.classes = {"digit"} => f.len > 24
              /\ f.look.classes \in {{"lower"}, {"upper"}} => f.len > 17
<1> DEFINE c == f.look.classes
           n == f.len
           k == Bits(CharsetSize(c))
<1>1. n \in Nat /\ n >= 16 /\ c \in SUBSET Classes /\ c # {} /\ f.look.varied \in BOOLEAN
  BY MintedFields, MintedBounds DEF Forms, Looks
<1>2. ClearsFloor(f) <=> f.look.varied /\ n * k >= 80000
  <2>1. CASE f.look.varied
    BY <2>1 DEF ClearsFloor, EntropyBits, EntropyFloor
  <2>2. CASE ~f.look.varied
    BY <2>2 DEF ClearsFloor, EntropyBits, EntropyFloor
  <2> QED  BY <2>1, <2>2
<1>3. /\ c = {"digit"} => k = 3321
      /\ c \in {{"lower"}, {"upper"}} => k = 4700
      /\ c \notin {{"digit"}, {"lower"}, {"upper"}} => k \in Nat /\ k >= 5044
  BY <1>1, BitsOf
<1> HIDE DEF n, k
<1>4. k = 3321 => (n * k >= 80000 <=> n > 24)
  BY <1>1
<1>5. k = 4700 => (n * k >= 80000 <=> n > 17)
  BY <1>1
<1>6. k \in Nat /\ k >= 5044 => n * k >= 80000
  <2> SUFFICES ASSUME k \in Nat, k >= 5044 PROVE n * k >= 80000
    OBVIOUS
  <2>1. n * k >= 16 * k /\ n * k \in Nat
    BY <1>1, TimesMonotone
  <2>2. 16 * k >= 80000
    OBVIOUS
  <2> QED  BY <1>1, <2>1, <2>2
<1>7. CASE c = {"digit"}
  <2>1. c \notin {{"lower"}, {"upper"}}
    BY <1>7
  <2> QED  BY <1>2, <1>3, <1>4, <1>7, <2>1 DEF n
<1>8. CASE c \in {{"lower"}, {"upper"}}
  <2>1. c # {"digit"}
    BY <1>8
  <2> QED  BY <1>2, <1>3, <1>5, <1>8, <2>1 DEF n
<1>9. CASE c \notin {{"digit"}, {"lower"}, {"upper"}}
  BY <1>2, <1>3, <1>6, <1>9
<1> QED  BY <1>7, <1>8, <1>9

(* Some minted value does not: hex(24) may come out as digits alone.       *)
THEOREM DigitsMissTheFloor ==
    \E f \in MintedForms(Hex(24)) : f.look.varied /\ ~ClearsFloor(f)
<1> DEFINE look == [classes |-> {"digit"}, varied |-> TRUE, alphabet |-> "hex",
                    provider |-> FALSE]
           f == [len |-> MintedLen(Hex(24)), look |-> look]
<1>1. Hex(24) \in Grammar /\ Hex(24).kind = "hex" /\ Hex(24).tag = NoTag
  BY DEF Grammar, Shape, InGrammar, Hex, Kinds, MinHex, MaxHex
<1>2. look \in Looks
  BY DEF Looks, Classes, Alphabets
<1>3. Mints(Hex(24), look)
  <2>1. {"digit"} \in BodyClasses("hex")
    BY DEF BodyClasses
  <2>2. {"digit"} \in MintedClasses(Hex(24))
    <3>1. {"digit"} = {"digit"} \cup {}
      OBVIOUS
    <3> QED  BY <1>1, <2>1, <3>1 DEF MintedClasses
  <2>3. "hex" \in MintedAlphabets(Hex(24))
    BY <1>1 DEF MintedAlphabets
  <2>4. NoTag \notin ProviderTags
    BY TagsAssumption
  <2> QED  BY <1>1, <2>2, <2>3, <2>4 DEF Mints, Fits, MintsProvider
<1>4. f \in MintedForms(Hex(24))
  BY <1>2, <1>3 DEF MintedForms
<1>5. f.len = 24
  BY DEF MintedLen, Hex
<1>6. f.look.classes = {"digit"} /\ f.look.varied
  OBVIOUS
<1> HIDE DEF f
<1>7. ~ClearsFloor(f)
  BY <1>1, <1>4, <1>5, <1>6, MintedClearsFloor
<1> QED  BY <1>4, <1>6, <1>7

(* Like for like: rotate without a shape mints a value of hex or uuid4 as  *)
(* it was minted; one of base64url too, unless it came out looking like a  *)
(* provider's token, like a uuid4, or as hex long enough for that shape.   *)
THEOREM DetectInvertsMint ==
    ASSUME NEW s \in Grammar, s.tag = NoTag, NEW f \in MintedForms(s)
    PROVE  Detect(f) = s <=>
              (s.kind = "base64url" =>
                  /\ ~f.look.provider /\ f.look.alphabet # "uuid4"
                  /\ f.look.alphabet = "hex" => f.len < MinHex)
<1>1. /\ s \in [kind : Kinds, chars : Nat, tag : Tags \cup {NoTag}] /\ InGrammar(s)
      /\ s = [kind |-> s.kind, chars |-> s.chars, tag |-> NoTag]
  BY DEF Grammar, Shape
<1>2. f.len = s.chars /\ f.look \in Looks /\ Mints(s, f.look)
  <2>1. f.len = MintedLen(s) /\ f.look \in Looks /\ Mints(s, f.look)
    BY MintedFields
  <2>2. MintedLen(s) = s.chars
    BY <1>1 DEF MintedLen
  <2> QED  BY <2>1, <2>2
<1>3. f.look.provider \in BOOLEAN
  BY <1>2 DEF Looks
<1>4. s.tag \notin ProviderTags
  BY TagsAssumption
<1>5. CASE s.kind = "hex"
  <2>1. f.look.alphabet = "hex" /\ ~f.look.provider
    BY <1>2, <1>4, <1>5 DEF Mints, MintedAlphabets, MintsProvider
  <2>2. f.len \in MinHex .. MaxHex
    BY <1>1, <1>2, <1>5 DEF InGrammar
  <2> QED  BY <1>1, <1>2, <1>5, <2>1, <2>2 DEF Detect, Hex
<1>6. CASE s.kind = "uuid4"
  <2>1. f.look.alphabet = "uuid4" /\ ~f.look.provider
    BY <1>2, <1>4, <1>6 DEF Mints, MintedAlphabets, MintsProvider
  <2> QED  BY <1>1, <1>6, <2>1 DEF Detect, Uuid4, InGrammar
<1>7. CASE s.kind = "base64url"
  <2>1. f.len \in MinBase64 .. MaxBase64 /\ s = Base64Url(f.len)
    BY <1>1, <1>2, <1>7 DEF InGrammar, Base64Url
  <2>2. f.look.alphabet \in {"uuid4", "uuid", "hex", "anyhex", "token"}
    BY <1>2, <1>7 DEF Mints, MintedAlphabets
  <2>3. NoShape # s /\ Uuid4 # s /\ Hex(f.len) # s
    BY <1>1, <1>7, ShapesApart DEF Uuid4, Hex
  <2>4. f.len \in MinHex .. MaxHex <=> ~(f.len < MinHex)
    BY <2>1 DEF MinBase64, MaxBase64, MinHex, MaxHex
  <2>5. CASE f.look.provider
    BY <1>7, <2>3, <2>5 DEF Detect
  <2>6. CASE ~f.look.provider /\ f.look.alphabet = "uuid4"
    BY <1>7, <2>3, <2>6 DEF Detect
  <2>7. CASE ~f.look.provider /\ f.look.alphabet = "hex"
    BY <1>7, <2>1, <2>3, <2>4, <2>7 DEF Detect
  <2>8. CASE ~f.look.provider /\ f.look.alphabet \in {"uuid", "anyhex", "token"}
    BY <1>7, <2>1, <2>8 DEF Detect
  <2> QED  BY <1>3, <2>2, <2>5, <2>6, <2>7, <2>8
<1> QED  BY <1>1, <1>5, <1>6, <1>7 DEF Kinds

(* The tag is no part of what such a rotation mints again: a value minted  *)
(* with one is never detected as the shape it came from.  What is detected *)
(* has the whole length and no tag, and behind a provider's prefix there   *)
(* is none.                                                                *)
THEOREM DetectDropsTag ==
    ASSUME NEW s \in Grammar, s.tag # NoTag, NEW f \in MintedForms(s)
    PROVE  /\ Detect(f) # s
           /\ s.tag \in ProviderTags => Detect(f) = NoShape
           /\ Detect(f) # NoShape =>
                 Detect(f).tag = NoTag /\ Detect(f).chars = MintedLen(s)
<1>1. f.len = MintedLen(s) /\ f.look \in Looks /\ Mints(s, f.look)
  BY MintedFields
<1>2. s.tag \in ProviderTags => Detect(f) = NoShape
  BY <1>1 DEF Mints, MintsProvider, Detect
<1>3. Detect(f) \in {NoShape, Uuid4, Hex(f.len), Base64Url(f.len)}
  BY DEF Detect
<1>4. Detect(f) = Uuid4 /\ Uuid4 # NoShape => f.len = UuidLen
  <2>1. CASE f.look.alphabet = "uuid4"
    BY <1>1, <2>1 DEF Mints, Fits
  <2>2. CASE f.look.alphabet # "uuid4"
    <3>1. Detect(f) \in {NoShape, Hex(f.len), Base64Url(f.len)}
      BY <2>2 DEF Detect
    <3>2. Uuid4.kind = "uuid4" /\ Hex(f.len).kind = "hex" /\ Base64Url(f.len).kind = "base64url"
      BY DEF Uuid4, Hex, Base64Url
    <3> QED  BY <3>1, <3>2
  <2> QED  BY <2>1, <2>2
<1>5. Detect(f) # NoShape => Detect(f).tag = NoTag /\ Detect(f).chars = MintedLen(s)
  <2>1. Uuid4.tag = NoTag /\ Uuid4.chars = UuidLen
    BY DEF Uuid4
  <2>2. Hex(f.len).tag = NoTag /\ Hex(f.len).chars = f.len
    BY DEF Hex
  <2>3. Base64Url(f.len).tag = NoTag /\ Base64Url(f.len).chars = f.len
    BY DEF Base64Url
  <2> QED  BY <1>1, <1>3, <1>4, <2>1, <2>2, <2>3
<1>6. NoShape # s
  BY ShapesApart
<1> QED  BY <1>2, <1>5, <1>6

-----------------------------------------------------------------------------
(* What stays true while the journal grows and a call keeps its request.   *)

Keeps(b) == req'[b] = req[b] /\ seen'[b] = seen[b]
Grows == txns \subseteq txns' /\ audit \subseteq audit'

(* Everything CallOK(b) reads, but for the journal.                        *)
Rests(b) ==
    /\ Keeps(b) /\ pc'[b] = pc[b] /\ value'[b] = value[b] /\ todo'[b] = todo[b]
    /\ cur'[b] = cur[b] /\ result'[b] = result[b]

LEMMA PrimaryDoneStays ==
    ASSUME NEW b, NEW v, Keeps(b), Grows, PrimaryDone(b, v)
    PROVE  PrimaryDone(b, v)'
BY DEF Keeps, Grows, PrimaryDone, Group

LEMMA FetchedStays ==
    ASSUME NEW b, NEW v, Keeps(b), Grows, Fetched(b, v)
    PROVE  Fetched(b, v)'
BY DEF Keeps, Grows, Fetched

LEMMA SendableStays ==
    ASSUME NEW b, NEW v, Keeps(b), Grows, Sendable(b, v)
    PROVE  Sendable(b, v)'
<1>1. PrimaryDone(b, v) => PrimaryDone(b, v)'
  BY PrimaryDoneStays
<1>2. Fetched(b, v) => Fetched(b, v)'
  BY FetchedStays
<1> QED  BY <1>1, <1>2 DEF Sendable, Keeps

LEMMA WroteStays ==
    ASSUME NEW b, NEW l, Grows, Wrote(b, l)
    PROVE  Wrote(b, l)'
BY DEF Wrote, Grows

LEMMA TxnStays ==
    ASSUME NEW t, TxnOK(t), Keeps(t.call), Grows,
           pc[t.call] # "idle" => pc'[t.call] # "idle"
    PROVE  TxnOK(t)'
<1>1. PrimaryDone(t.call, t.value) => PrimaryDone(t.call, t.value)'
  BY PrimaryDoneStays
<1>2. Fetched(t.call, t.value) => Fetched(t.call, t.value)'
  BY FetchedStays
<1> QED  BY <1>1, <1>2 DEF TxnOK, Keeps, Group

LEMMA AskStays ==
    ASSUME NEW m, MsgOK(m), m.type = "ask", Keeps(m.call), Grows,
           pc[m.call] # "idle" => pc'[m.call] # "idle"
    PROVE  MsgOK(m)'
<1>1. Sendable(m.call, m.value) => Sendable(m.call, m.value)'
  BY SendableStays
<1> QED  BY <1>1 DEF MsgOK, Keeps

LEMMA ReplyStays ==
    ASSUME NEW m, MsgOK(m), m.type = "reply", Keeps(m.call), Grows,
           pc'[m.call] = pc[m.call]
    PROVE  MsgOK(m)'
<1>1. Fetched(m.call, m.value) => Fetched(m.call, m.value)'
  BY FetchedStays
<1>2. Wrote(m.call, m.loc) => Wrote(m.call, m.loc)'
  BY WroteStays
<1> QED  BY <1>1, <1>2 DEF MsgOK, Keeps

LEMMA CallStays ==
    ASSUME NEW b \in Calls, CallOK(b), Rests(b), Grows,
           \A l \in Locs : HostAt(l) = Home /\ Wrote(b, l)' => Wrote(b, l)
    PROVE  CallOK(b)'
<1>1. Keeps(b)
  BY DEF Rests
<1>2. \A v : PrimaryDone(b, v) => PrimaryDone(b, v)'
  BY <1>1, PrimaryDoneStays
<1>3. \A v : Fetched(b, v) => Fetched(b, v)'
  BY <1>1, FetchedStays
<1>4. \A v : Sendable(b, v) => Sendable(b, v)'
  BY <1>1, SendableStays
<1>5. \A l : Wrote(b, l) => Wrote(b, l)'
  BY WroteStays
<1>6. StepOK(b)'
  <2>1. StepOK(b)
    BY DEF CallOK
  <2>2. pc[b] = "audit" /\ req[b].verb = "rotate" =>
          /\ \E p \in txns' : /\ p.call = b /\ p.value = value[b]
                              /\ DOMAIN p.was = Group(req[b])
          /\ \A l \in Group(req[b]) \ todo[b] :
                \E w \in audit' : /\ w.call = b /\ w.action = "rotate"
                                  /\ w.loc = l /\ w.new = value[b]
          /\ \A l \in Group(req[b]) : result[b][l] = "applied"
    BY <2>1 DEF StepOK, Grows
  <2>3. pc[b] = "audit" /\ req[b].verb = "reveal" /\ req[b].at \notin todo[b] =>
          \E w \in audit' : w.call = b /\ w.disclosed /\ w.loc = req[b].at
    BY <2>1 DEF StepOK, Grows
  <2>4. /\ req'[b] = req[b] /\ pc'[b] = pc[b] /\ value'[b] = value[b]
        /\ todo'[b] = todo[b] /\ cur'[b] = cur[b] /\ result'[b] = result[b]
    BY DEF Rests, Keeps
  <2> QED  BY <1>2, <1>3, <1>4, <2>1, <2>2, <2>3, <2>4 DEF StepOK, AskedOf, Group
<1>7. ResultOK(b)'
  BY <1>1, <1>5 DEF CallOK, ResultOK, Rests, Keeps, Group, Siblings, Remotes
<1>8. RevealOK(b)'
  BY <1>1 DEF CallOK, RevealOK, Rests, Keeps, Grows
<1> QED  BY <1>6, <1>7, <1>8 DEF CallOK

-----------------------------------------------------------------------------
(* One step of one call: what is to be shown of it.                        *)

LEMMA CallMoves ==
    ASSUME IInv, NEW a \in Calls, TypeOK', CallOK(a)',
           Grows, Keeps(a), pc'[a] # "idle",
           \A b \in Calls : b # a => Rests(b),
           \A t \in txns' : t \in txns \/ (t.call = a /\ TxnOK(t)'),
           \A m \in net' :
              \/ MsgOK(m)'
              \/ m \in net /\ (m.call # a \/ m.type = "ask" \/ pc'[a] = pc[a])
    PROVE  IInv'
<1>1. \A b \in Calls : Keeps(b) /\ (pc[b] # "idle" => pc'[b] # "idle")
  BY DEF Rests
<1>2. ASSUME NEW b \in Calls PROVE CallOK(b)'
  <2>1. CASE b = a
    BY <2>1
  <2>2. CASE b # a
    <3>1. \A l : Wrote(b, l)' => Wrote(b, l)
      BY <2>2 DEF Wrote
    <3> QED  BY <2>2, <3>1, CallStays DEF IInv
  <2> QED  BY <2>1, <2>2
<1>3. ASSUME NEW t \in txns' PROVE TxnOK(t)'
  <2>1. CASE t \in txns
    <3>1. TxnOK(t) /\ t.call \in Calls
      BY <2>1 DEF IInv, TxnOK
    <3> QED  BY <1>1, <3>1, TxnStays
  <2> QED  BY <2>1
<1>4. ASSUME NEW m \in net' PROVE MsgOK(m)'
  <2>1. CASE m \in net /\ (m.call # a \/ m.type = "ask" \/ pc'[a] = pc[a])
    <3>1. MsgOK(m) /\ m.call \in Calls /\ m.type \in {"ask", "reply"}
      BY <2>1 DEF IInv, MsgOK
    <3>2. CASE m.type = "ask"
      BY <1>1, <3>1, <3>2, AskStays
    <3>3. CASE m.type = "reply"
      <4>1. pc'[m.call] = pc[m.call]
        BY <2>1, <3>1, <3>3 DEF Rests
      <4> QED  BY <1>1, <3>1, <3>3, <4>1, ReplyStays
    <3> QED  BY <3>1, <3>2, <3>3
  <2> QED  BY <2>1
<1> QED  BY <1>2, <1>3, <1>4 DEF IInv

(* A step that leaves every call where it is.                              *)
LEMMA CallsRest ==
    ASSUME IInv, TypeOK', Grows, \A b \in Calls : Rests(b),
           \A t \in txns' : t \in txns \/
              (TxnOK(t)' /\ \A l \in DOMAIN t.was : HostAt(l) # Home),
           \A m \in net' : MsgOK(m)' \/ m \in net
    PROVE  IInv'
<1>1. \A b \in Calls : Keeps(b) /\ pc'[b] = pc[b]
  BY DEF Rests
<1>2. ASSUME NEW b \in Calls PROVE CallOK(b)'
  <2>1. \A l \in Locs : HostAt(l) = Home /\ Wrote(b, l)' => Wrote(b, l)
    BY DEF Wrote
  <2> QED  BY <2>1, CallStays DEF IInv
<1>3. ASSUME NEW t \in txns' PROVE TxnOK(t)'
  <2>1. CASE t \in txns
    <3>1. TxnOK(t) /\ t.call \in Calls
      BY <2>1 DEF IInv, TxnOK
    <3> QED  BY <1>1, <3>1, TxnStays
  <2> QED  BY <2>1
<1>4. ASSUME NEW m \in net' PROVE MsgOK(m)'
  <2>1. CASE m \in net
    <3>1. MsgOK(m) /\ m.call \in Calls /\ m.type \in {"ask", "reply"}
      BY <2>1 DEF IInv, MsgOK
    <3>2. CASE m.type = "ask"
      BY <1>1, <3>1, <3>2, AskStays
    <3>3. CASE m.type = "reply"
      BY <1>1, <3>1, <3>3, ReplyStays
    <3> QED  BY <3>1, <3>2, <3>3
  <2> QED  BY <2>1
<1> QED  BY <1>2, <1>3, <1>4 DEF IInv

LEMMA InitInv == Init => IInv
<1> SUFFICES ASSUME Init PROVE IInv
  OBVIOUS
<1>1. TypeOK
  BY SecretsAssumption DEF Init, TypeOK, Entry, Steps, Waiting, Ended, Outcomes
<1>2. \A b \in Calls : CallOK(b)
  BY DEF Init, CallOK, StepOK, ResultOK, RevealOK, Wrote, Early, Late, Waiting
<1>3. net = {} /\ txns = {}
  BY DEF Init
<1> QED  BY <1>1, <1>2, <1>3 DEF IInv

-----------------------------------------------------------------------------
(* What is minted has a type.                                              *)

LEMMA DetectType ==
    ASSUME NEW f \in Forms, Detect(f) # NoShape
    PROVE  Detect(f) \in Grammar
<1>1. f.len \in Nat
  BY DEF Forms
<1>2. Uuid4 \in Grammar
  BY DEF Uuid4, UuidLen, Grammar, Shape, InGrammar, Kinds
<1>3. f.len \in MinHex .. MaxHex => Hex(f.len) \in Grammar
  BY <1>1 DEF Hex, Grammar, Shape, InGrammar, Kinds
<1>4. f.len \in MinBase64 .. MaxBase64 => Base64Url(f.len) \in Grammar
  BY <1>1 DEF Base64Url, Grammar, Shape, InGrammar, Kinds
<1> QED  BY <1>2, <1>3, <1>4 DEF Detect

LEMMA MintableType ==
    ASSUME TypeOK, NEW a \in Calls, NEW s \in Grammar, Mintable(a, s)
    PROVE  /\ value' \in [Calls -> Value \cup {EmptyValue, NoValue}]
           /\ value'[a] \in Payload
           /\ \A b \in Calls : b # a => value'[b] = value[b]
<1>1. s.kind \in Kinds /\ s.chars \in Nat /\ s.tag \in Tags \cup {NoTag}
  BY DEF Grammar, Shape
<1>2. PICK look \in Drawn[s.kind] :
          value' = [value EXCEPT ![a] =
                       [id |-> a, form |-> [len |-> MintedLen(s), look |-> look]]]
  BY DEF Mintable
<1>3. look \in Looks
  BY <1>1, SecretsAssumption
<1>4. MintedLen(s) \in Nat
  BY <1>1, TagsAssumption DEF MintedLen
<1>5. [id |-> a, form |-> [len |-> MintedLen(s), look |-> look]] \in Value
  BY <1>3, <1>4 DEF Value, Forms
<1> QED  BY <1>2, <1>5 DEF TypeOK, Payload

-----------------------------------------------------------------------------
(* Begin: the request of an idle call, of which nothing is on record.      *)

LEMMA ResolvedType ==
    ASSUME NEW a \in Calls, NEW want \in Requests[a]
    PROVE  AskedOf(Resolved(want)) /\ Resolved(want).verb = want.verb
<1>1. AskedOf(want)
  BY SecretsAssumption DEF AskedOf
<1>2. CASE want.verb = "rotate" /\ want.occurrences
  <2>1. want \in [verb : {"rotate"}, at : Locs, also : SUBSET Locs,
                  occurrences : BOOLEAN, shape : Grammar \cup {NoShape}]
    BY <1>1, <1>2 DEF AskedOf, Request
  <2>2. Occurrences(want.at) \subseteq Locs
    BY SecretsAssumption DEF Occurrences
  <2>3. Resolved(want) = [want EXCEPT !.also = (@ \cup Occurrences(want.at)) \ {want.at}]
    BY <1>2 DEF Resolved
  <2>4. Resolved(want) \in [verb : {"rotate"}, at : Locs, also : SUBSET Locs,
                            occurrences : BOOLEAN, shape : Grammar \cup {NoShape}]
        /\ Resolved(want).at = want.at /\ want.at \notin Resolved(want).also
    BY <2>1, <2>2, <2>3
  <2> QED  BY <1>1, <2>1, <2>4 DEF AskedOf, Request
<1>3. CASE ~(want.verb = "rotate" /\ want.occurrences)
  BY <1>1, <1>3 DEF Resolved
<1> QED  BY <1>2, <1>3

LEMMA BeginInv ==
    ASSUME IInv, NEW a \in Calls, Begin(a)
    PROVE  IInv'
<1>1. PICK want \in Requests[a] :
        /\ req' = [req EXCEPT ![a] = Resolved(want)]
        /\ seen' = [seen EXCEPT ![a] =
              [l \in Locs |-> IF l \in Named(Resolved(want)) THEN held[l] ELSE NoKey]]
        /\ pc' = [pc EXCEPT ![a] = IF Resolved(want).verb = "copy" THEN "fetch" ELSE "load"]
  BY DEF Begin, Goto
<1> DEFINE r == Resolved(want)
<1>2. AskedOf(r) /\ r \in Request
  BY <1>1, ResolvedType DEF AskedOf
<1> HIDE DEF r
<1>3. pc[a] = "idle"
      /\ UNCHANGED <<held, value, old, todo, cur, tries, result, net, journal, budget>>
  BY DEF Begin
<1>4. UNCHANGED <<held, value, old, todo, cur, tries, result, net, txns, audit, edits, faults>>
  BY <1>3 DEF journal, budget
<1>5. TypeOK /\ \A b \in Calls : CallOK(b)
  BY DEF IInv
<1>6. TypeOK'
  <2>1. [l \in Locs |-> IF l \in Named(r) THEN held[l] ELSE NoKey] \in [Locs -> Entry]
    BY <1>5 DEF TypeOK, Entry
  <2> QED  BY <1>1, <1>2, <1>4, <1>5, <2>1 DEF TypeOK, Steps, r
<1>7. req'[a] = r /\ pc'[a] \in {"load", "fetch"} /\ (pc'[a] = "load" <=> r.verb # "copy")
  BY <1>1, <1>5 DEF TypeOK, r
<1>8. \A b \in Calls : b # a => Rests(b)
  BY <1>1, <1>4, <1>5 DEF TypeOK, Rests, Keeps
<1>9. \A t \in txns : t.call # a
  BY <1>3 DEF IInv, TxnOK
<1>10. \A m \in net : m.call # a
  BY <1>3 DEF IInv, MsgOK
<1>11. Grows
  BY <1>4 DEF Grows
<1>12. ASSUME NEW b \in Calls PROVE CallOK(b)'
  <2>1. CASE b = a
    <3>1. \A l \in Locs : ~Wrote(a, l)' /\ result'[a][l] = "none"
      BY <1>3, <1>4, <1>5, <1>9 DEF Wrote, CallOK, ResultOK, Early
    <3>2. ResultOK(a)'
      BY <1>7, <3>1 DEF ResultOK, Early, Late
    <3>3. StepOK(a)'
      BY <1>2, <1>7 DEF StepOK, AskedOf, Late, Waiting
    <3> QED  BY <2>1, <1>7, <3>2, <3>3 DEF CallOK, RevealOK
  <2>2. CASE b # a
    <3>1. \A l \in Locs : Wrote(b, l)' => Wrote(b, l)
      BY <1>4 DEF Wrote
    <3> QED  BY <1>5, <1>8, <1>11, <2>2, <3>1, CallStays
  <2> QED  BY <2>1, <2>2
<1>13. ASSUME NEW t \in txns' PROVE TxnOK(t)'
  <2>1. TxnOK(t) /\ t.call \in Calls /\ t.call # a
    BY <1>4, <1>9 DEF IInv, TxnOK
  <2> QED  BY <1>8, <1>11, <2>1, TxnStays DEF Rests
<1>14. ASSUME NEW m \in net' PROVE MsgOK(m)'
  <2>1. MsgOK(m) /\ m.call \in Calls /\ m.call # a /\ m.type \in {"ask", "reply"}
    BY <1>4, <1>10 DEF IInv, MsgOK
  <2>2. Keeps(m.call) /\ pc'[m.call] = pc[m.call]
    BY <1>8, <2>1 DEF Rests
  <2> QED  BY <1>11, <2>1, <2>2, AskStays, ReplyStays
<1> QED  BY <1>6, <1>12, <1>13, <1>14 DEF IInv

-----------------------------------------------------------------------------
(* Steps that write no file, send nothing and report nothing.              *)

LEMMA RequestFields ==
    ASSUME NEW r \in Request
    PROVE  /\ r.at \in Locs /\ r.verb \in {"rotate", "generate", "reveal", "copy"}
           /\ r.verb = "rotate" => r.also \subseteq Locs
           /\ r.verb = "copy" => r.from \in Locs
BY DEF Request

LEMMA TargetsAreLocs ==
    ASSUME NEW r \in Request
    PROVE  /\ Group(r) \subseteq Locs /\ Siblings(r) \subseteq Locs
           /\ Remotes(r) \subseteq Locs /\ Named(r) \subseteq Locs
BY RequestFields DEF Group, Siblings, Remotes, Targets, Named

LEMMA QuietStep ==
    ASSUME IInv, NEW a \in Calls, TypeOK', StepOK(a)',
           pc[a] \notin Waiting \cup {"idle"}, pc'[a] # "idle",
           pc'[a] \in Early => pc[a] \in Early,
           req[a].verb = "rotate" =>
              /\ pc'[a] \in {"await_edit", "transport_audit"} => FALSE
              /\ pc'[a] \in {"siblings", "sibling_audit"} => pc[a] \in {"audit", "sibling_audit"}
              /\ pc'[a] = "remotes" =>
                    \/ pc[a] = "transport_audit"
                    \/ pc[a] = "siblings" /\ Pending(a, Siblings(req[a])) = {}
              /\ pc'[a] = "answered" =>
                    pc[a] = "remotes" /\ Pending(a, Remotes(req[a])) = {},
           RevealOK(a)',
           UNCHANGED <<req, seen, result, net, txns>>, audit \subseteq audit',
           \A b \in Calls : b # a =>
              /\ pc'[b] = pc[b] /\ value'[b] = value[b] /\ todo'[b] = todo[b]
              /\ cur'[b] = cur[b]
    PROVE  IInv'
<1>1. Grows /\ Keeps(a) /\ \A b \in Calls : b # a => Rests(b)
  BY DEF Grows, Keeps, Rests
<1>2. StepOK(a) /\ ResultOK(a) /\ pc[a] \in Steps
  BY DEF IInv, CallOK, TypeOK
<1>3. \A l \in Locs : (Wrote(a, l)' <=> Wrote(a, l)) /\ result'[a][l] = result[a][l]
  BY DEF Wrote
<1>4. Siblings(req[a]) \subseteq Locs /\ Remotes(req[a]) \subseteq Locs
  BY <1>2, TargetsAreLocs DEF StepOK, AskedOf
<1>5. ResultOK(a)'
  <2>1. pc'[a] \in Early => \A l \in Locs : result'[a][l] = "none"
    BY <1>2, <1>3 DEF ResultOK
  <2>2. \A l \in Locs :
          /\ result'[a][l] = "applied" => Wrote(a, l)'
          /\ Wrote(a, l)' /\ HostAt(l) = Home => result'[a][l] = "applied"
    BY <1>2, <1>3 DEF ResultOK
  <2>3. ASSUME req[a].verb = "rotate"
        PROVE  /\ pc'[a] \in Late \cup {"await_edit", "answered"} =>
                    \A l \in Group(req[a]) : result[a][l] = "applied"
               /\ pc'[a] \in {"remotes", "await_edit", "transport_audit", "answered"} =>
                    \A l \in Siblings(req[a]) : result[a][l] # "none"
               /\ pc'[a] = "answered" =>
                    \A l \in Remotes(req[a]) : result[a][l] # "none"
    <3>1. pc[a] = "audit" => \A l \in Group(req[a]) : result[a][l] = "applied"
      BY <1>2, <2>3 DEF StepOK
    <3>2. pc[a] \in Late =>
            \A l \in Group(req[a]) : result[a][l] = "applied"
      BY <1>2, <2>3 DEF ResultOK, Late
    <3>3. pc[a] \in {"remotes", "transport_audit"} =>
            \A l \in Siblings(req[a]) : result[a][l] # "none"
      BY <1>2, <2>3 DEF ResultOK
    <3>4. Pending(a, Siblings(req[a])) = {} => \A l \in Siblings(req[a]) : result[a][l] # "none"
      BY DEF Pending
    <3>5. Pending(a, Remotes(req[a])) = {} => \A l \in Remotes(req[a]) : result[a][l] # "none"
      BY DEF Pending
    <3> QED  BY <2>3, <3>1, <3>2, <3>3, <3>4, <3>5 DEF Late
  <2> QED  BY <2>1, <2>2, <2>3 DEF ResultOK, Late, Group, Siblings, Remotes
<1>6. CallOK(a)'
  BY <1>5 DEF CallOK
<1>7. ASSUME NEW m \in net' PROVE m \in net /\ (m.call # a \/ m.type = "ask")
  BY DEF IInv, MsgOK
<1> QED  BY <1>1, <1>6, <1>7, CallMoves

-----------------------------------------------------------------------------
(* Each action of a call.                                                  *)

LEMMA LoadRotateInv ==
    ASSUME IInv, NEW a \in Calls, LoadRotate(a)
    PROVE  IInv'
<1> DEFINE e == held[req[a].at]
<1>1. /\ pc[a] = "load" /\ req[a].verb = "rotate"
      /\ UNCHANGED <<held, req, seen, todo, cur, tries, result, net, txns, audit, edits, faults>>
  BY DEF LoadRotate, journal, budget
<1>2. TypeOK /\ StepOK(a)
  BY DEF IInv, CallOK
<1>3. AskedOf(req[a]) /\ req[a].at \in Locs /\ HostAt(req[a].at) = Home
  BY <1>1, <1>2, RequestFields DEF StepOK, AskedOf
<1>4. e \in Entry
  BY <1>2, <1>3 DEF TypeOK
<1>5. CASE /\ e \in Value /\ WantedShape(req[a], e) # NoShape
           /\ Mintable(a, WantedShape(req[a], e))
           /\ old' = [old EXCEPT ![a] = e]
           /\ Goto(a, "apply")
  <2>1. WantedShape(req[a], e) \in Grammar
    <3>1. req[a].shape \in Grammar \cup {NoShape}
      BY <1>1, <1>3 DEF AskedOf, Request
    <3>2. e.form \in Forms
      BY <1>5 DEF Value
    <3> QED  BY <1>5, <3>1, <3>2, DetectType DEF WantedShape
  <2>2. /\ value' \in [Calls -> Value \cup {EmptyValue, NoValue}]
        /\ value'[a] \in Payload
        /\ \A b \in Calls : b # a => value'[b] = value[b]
    BY <1>2, <1>5, <2>1, MintableType
  <2>3. pc' = [pc EXCEPT ![a] = "apply"] /\ pc'[a] = "apply"
    BY <1>2, <1>5 DEF Goto, TypeOK
  <2>4. TypeOK'
    BY <1>1, <1>2, <1>4, <1>5, <2>2, <2>3 DEF TypeOK, Steps
  <2>5. StepOK(a)'
    BY <1>1, <1>3, <2>2, <2>3 DEF StepOK, AskedOf, Late, Waiting
  <2>6. RevealOK(a)'
    BY <2>3 DEF RevealOK
  <2>7. \A b \in Calls : b # a => pc'[b] = pc[b]
    BY <1>2, <2>3 DEF TypeOK
  <2> QED  BY <1>1, <2>2, <2>3, <2>4, <2>5, <2>6, <2>7, QuietStep DEF Early, Waiting
<1>6. CASE Fail(a) /\ UNCHANGED old
  <2>1. pc' = [pc EXCEPT ![a] = "failed"] /\ value' = [value EXCEPT ![a] = NoValue]
        /\ pc'[a] = "failed"
    BY <1>2, <1>6 DEF Fail, Goto, Drop, TypeOK
  <2>2. TypeOK'
    BY <1>1, <1>2, <1>6, <2>1 DEF TypeOK, Steps, Ended
  <2>3. StepOK(a)'
    BY <1>1, <1>3, <2>1 DEF StepOK, AskedOf, Late, Waiting
  <2>4. RevealOK(a)'
    BY <2>1 DEF RevealOK
  <2>5. \A b \in Calls : b # a => pc'[b] = pc[b] /\ value'[b] = value[b]
    BY <1>2, <2>1 DEF TypeOK
  <2> QED  BY <1>1, <2>1, <2>2, <2>3, <2>4, <2>5, QuietStep DEF Early, Waiting
<1> QED  BY <1>5, <1>6 DEF LoadRotate

(* A call that fails before it has written anything.                       *)
LEMMA FailQuietly ==
    ASSUME IInv, NEW a \in Calls, Fail(a), pc[a] \notin Waiting \cup {"idle"},
           UNCHANGED <<held, req, seen, old, todo, cur, tries, result, net, txns,
                       audit, edits>>, faults' \in Nat
    PROVE  IInv'
<1>1. TypeOK /\ StepOK(a)
  BY DEF IInv, CallOK
<1>2. pc' = [pc EXCEPT ![a] = "failed"] /\ value' = [value EXCEPT ![a] = NoValue]
      /\ pc'[a] = "failed"
  BY <1>1 DEF Fail, Goto, Drop, TypeOK
<1>3. TypeOK'
  BY <1>1, <1>2 DEF TypeOK, Steps, Ended
<1>4. StepOK(a)'
  BY <1>1, <1>2 DEF StepOK, AskedOf, Late, Waiting
<1>5. RevealOK(a)'
  BY <1>2 DEF RevealOK
<1>6. \A b \in Calls : b # a => pc'[b] = pc[b] /\ value'[b] = value[b]
  BY <1>1, <1>2 DEF TypeOK
<1> QED  BY <1>2, <1>3, <1>4, <1>5, <1>6, QuietStep DEF Early, Waiting

LEMMA LoadGenerateInv ==
    ASSUME IInv, NEW a \in Calls, LoadGenerate(a)
    PROVE  IInv'
<1>1. /\ pc[a] = "load" /\ req[a].verb = "generate"
      /\ UNCHANGED <<held, req, seen, old, todo, cur, tries, result, net, txns, audit, edits, faults>>
  BY DEF LoadGenerate, journal, budget
<1>2. TypeOK /\ StepOK(a)
  BY DEF IInv, CallOK
<1>3. AskedOf(req[a]) /\ HostAt(req[a].at) = Home
  BY <1>1, <1>2 DEF StepOK, AskedOf
<1>4. CASE Mintable(a, req[a].shape) /\ Goto(a, "apply")
  <2>1. req[a].shape \in Grammar
    BY <1>1, <1>3 DEF AskedOf, Request
  <2>2. /\ value' \in [Calls -> Value \cup {EmptyValue, NoValue}]
        /\ value'[a] \in Payload
        /\ \A b \in Calls : b # a => value'[b] = value[b]
    BY <1>2, <1>4, <2>1, MintableType
  <2>3. pc' = [pc EXCEPT ![a] = "apply"] /\ pc'[a] = "apply"
    BY <1>2, <1>4 DEF Goto, TypeOK
  <2>4. TypeOK'
    BY <1>1, <1>2, <2>2, <2>3 DEF TypeOK, Steps
  <2>5. StepOK(a)'
    BY <1>1, <1>3, <2>2, <2>3 DEF StepOK, AskedOf, Late, Waiting
  <2>6. RevealOK(a)'
    BY <2>3 DEF RevealOK
  <2>7. \A b \in Calls : b # a => pc'[b] = pc[b]
    BY <1>2, <2>3 DEF TypeOK
  <2> QED  BY <1>1, <2>2, <2>3, <2>4, <2>5, <2>6, <2>7, QuietStep DEF Early, Waiting
<1>5. CASE Fail(a)
  <2>1. faults' \in Nat
    BY <1>1, <1>2 DEF TypeOK
  <2> QED  BY <1>1, <1>5, <2>1, FailQuietly DEF Waiting
<1> QED  BY <1>4, <1>5 DEF LoadGenerate

(* What a file holds, when the key is there, can be handed on.             *)
LEMMA PresentPayload ==
    ASSUME TypeOK, NEW l \in Locs, Present(l)
    PROVE  held[l] \in Payload
BY DEF TypeOK, Present, Payload, Entry

LEMMA LoadRevealInv ==
    ASSUME IInv, NEW a \in Calls, LoadReveal(a)
    PROVE  IInv'
<1> DEFINE l == req[a].at
<1>1. /\ pc[a] = "load" /\ req[a].verb = "reveal"
      /\ UNCHANGED <<held, req, seen, old, cur, tries, result, net, txns, audit, edits, faults>>
  BY DEF LoadReveal, journal, budget
<1>2. TypeOK /\ StepOK(a)
  BY DEF IInv, CallOK
<1>3. AskedOf(req[a]) /\ l \in Locs
  BY <1>1, <1>2, RequestFields DEF StepOK, AskedOf
<1>4. CASE /\ Revealable(a, l)
           /\ value' = [value EXCEPT ![a] = held[l]]
           /\ todo' = [todo EXCEPT ![a] = {l}]
           /\ Goto(a, "audit")
  <2>1. held[l] \in Payload
    BY <1>2, <1>3, <1>4, PresentPayload DEF Revealable
  <2>2. pc' = [pc EXCEPT ![a] = "audit"] /\ pc'[a] = "audit"
        /\ value'[a] \in Payload /\ todo'[a] = {l}
    BY <1>2, <1>4, <2>1 DEF Goto, TypeOK
  <2>3. TypeOK'
    BY <1>1, <1>2, <1>3, <1>4, <2>1, <2>2 DEF TypeOK, Steps, Payload
  <2>4. StepOK(a)'
    BY <1>1, <1>3, <2>2 DEF StepOK, AskedOf, Late, Waiting
  <2>5. RevealOK(a)'
    BY <2>2 DEF RevealOK
  <2>6. \A b \in Calls : b # a => pc'[b] = pc[b] /\ value'[b] = value[b] /\ todo'[b] = todo[b]
    BY <1>2, <1>4, <2>2 DEF TypeOK
  <2> QED  BY <1>1, <2>2, <2>3, <2>4, <2>5, <2>6, QuietStep DEF Early, Waiting
<1>5. CASE Fail(a) /\ UNCHANGED todo
  <2>1. faults' \in Nat
    BY <1>1, <1>2 DEF TypeOK
  <2> QED  BY <1>1, <1>5, <2>1, FailQuietly DEF Waiting
<1> QED  BY <1>4, <1>5 DEF LoadReveal


(* The locations written with the primary are of its host.                 *)
LEMMA GroupIsHome ==
    ASSUME NEW r, AskedOf(r), HostAt(r.at) = Home
    PROVE  Group(r) \subseteq Locs /\ \A l \in Group(r) : HostAt(l) = Home
BY RequestFields DEF AskedOf, Group, HostAt

(* t is the transaction a step commits.                                    *)
Commits(t, a, S, v) ==
    /\ txns' = txns \cup {t}
    /\ t.call = a /\ t.value = v /\ DOMAIN t.was = S
    /\ \A l \in S : t.was[l] = held[l] /\ t.was[l] = seen[a][l]

LEMMA CommitFields ==
    ASSUME TypeOK, NEW a \in Calls, NEW S \in SUBSET Locs, NEW v \in Payload, NEW node,
           Commit(a, S, v, node)
    PROVE  held' \in [Locs -> Entry] /\ \E t : Commits(t, a, S, v)
<1>1. held' \in [Locs -> Entry]
  BY DEF TypeOK, Commit, Put, Payload, Entry
<1> DEFINE t == Txn(a, [l \in S |-> held[l]], v, node)
<1>2. t.call = a /\ t.value = v /\ t.was = [l \in S |-> held[l]]
  BY DEF Txn
<1>3. txns' = txns \cup {t} /\ \A l \in S : held[l] = seen[a][l]
  BY DEF Commit, Current
<1>4. Commits(t, a, S, v)
  BY <1>2, <1>3 DEF Commits
<1> QED  BY <1>1, <1>4

LEMMA MarkFields ==
    ASSUME TypeOK, NEW a \in Calls, NEW S \in SUBSET Locs, NEW o \in Outcomes, Mark(a, S, o)
    PROVE  /\ result' \in [Calls -> [Locs -> Outcomes]]
           /\ \A b \in Calls : b # a => result'[b] = result[b]
           /\ \A l \in Locs : result'[a][l] = IF l \in S THEN o ELSE result[a][l]
BY DEF TypeOK, Mark

LEMMA ApplyPrimaryInv ==
    ASSUME IInv, NEW a \in Calls, ApplyPrimary(a)
    PROVE  IInv'
<1> DEFINE r == req[a]
           S == Group(r)
           isEdit == r.verb = "copy"
<1>1. pc[a] = "apply" /\ UNCHANGED <<req, seen, old, cur, tries, net, audit, edits>>
  BY DEF ApplyPrimary
<1>2. TypeOK /\ StepOK(a) /\ ResultOK(a)
  BY DEF IInv, CallOK
<1>3. /\ AskedOf(r) /\ value[a] \in Payload /\ HostAt(r.at) = Home
      /\ r.verb \in {"rotate", "generate", "copy"}
      /\ r.verb = "copy" => Fetched(a, value[a])
  BY <1>1, <1>2 DEF StepOK
<1>4. S \subseteq Locs /\ \A l \in S : HostAt(l) = Home
  BY <1>3, GroupIsHome
<1>5. \A l \in Locs : result[a][l] = "none" /\ (HostAt(l) = Home => ~Wrote(a, l))
  BY <1>1, <1>2 DEF ResultOK, Early
<1>6. \A m \in net : m.call # a \/ m.type = "ask"
  BY <1>1 DEF IInv, MsgOK, Waiting
<1>7. CASE /\ MayOverwrite(r, S)
           /\ Commit(a, S, value[a], IF isEdit THEN "caller" ELSE "unknown")
           /\ Mark(a, S, "applied")
           /\ todo' = [todo EXCEPT ![a] = IF isEdit THEN {} ELSE S]
           /\ Goto(a, IF isEdit THEN "answered" ELSE "audit")
           /\ value' = [value EXCEPT ![a] = IF isEdit THEN NoValue ELSE @]
           /\ UNCHANGED faults
  <2>0. PICK node : Commit(a, S, value[a], node)
    BY <1>7
  <2>1. PICK t : /\ txns' = txns \cup {t}
                 /\ t.call = a /\ t.value = value[a] /\ DOMAIN t.was = S
                 /\ \A l \in S : t.was[l] = held[l] /\ t.was[l] = seen[a][l]
    <3>1. PICK t : Commits(t, a, S, value[a])
      BY <1>2, <1>3, <1>4, <2>0, CommitFields
    <3> QED  BY <3>1 DEF Commits
  <2>2. held' \in [Locs -> Entry]
    BY <1>2, <1>3, <1>4, <2>0, CommitFields
  <2>3. /\ result' \in [Calls -> [Locs -> Outcomes]]
        /\ \A b \in Calls : b # a => result'[b] = result[b]
        /\ \A l \in Locs : result'[a][l] = IF l \in S THEN "applied" ELSE result[a][l]
    BY <1>2, <1>4, <1>7, MarkFields DEF Outcomes
  <2>4. /\ pc'[a] = (IF isEdit THEN "answered" ELSE "audit")
        /\ value'[a] = (IF isEdit THEN NoValue ELSE value[a])
        /\ todo'[a] = (IF isEdit THEN {} ELSE S)
        /\ \A b \in Calls : b # a =>
              pc'[b] = pc[b] /\ value'[b] = value[b] /\ todo'[b] = todo[b]
    BY <1>2, <1>7 DEF TypeOK, Goto
  <2>5. TypeOK'
    BY <1>1, <1>2, <1>4, <1>7, <2>2, <2>3 DEF TypeOK, Steps, Ended, Goto
  <2>6. Grows /\ Keeps(a) /\ \A b \in Calls : b # a => Rests(b)
    BY <1>1, <2>1, <2>3, <2>4 DEF Grows, Keeps, Rests
  <2>7. \A l \in Locs : Wrote(a, l)' <=> Wrote(a, l) \/ l \in S
    BY <2>1 DEF Wrote
  <2>8. ResultOK(a)'
    BY <1>1, <1>3, <1>4, <1>5, <2>3, <2>4, <2>7
       DEF ResultOK, Outcomes, Early, Late, Group, Siblings, Remotes
  <2>9. StepOK(a)'
    <3>1. CASE isEdit
      BY <1>1, <1>3, <2>4, <3>1 DEF StepOK, AskedOf, Late, Waiting
    <3>2. CASE ~isEdit
      <4>1. \E p \in txns' : p.call = a /\ p.value = value'[a] /\ DOMAIN p.was = Group(req'[a])
        BY <1>1, <2>1, <2>4, <3>2
      <4>2. Group(req'[a]) \ todo'[a] = {} /\ \A l \in S : result'[a][l] = "applied"
        BY <1>1, <1>4, <2>3, <2>4, <3>2
      <4>3. r.verb # "reveal"
        BY <1>3
      <4>4. pc'[a] = "audit" /\ value'[a] \in Payload
        BY <1>3, <2>4, <3>2
      <4>5. AskedOf(req[a])'
        BY <1>1, <1>3 DEF AskedOf
      <4>6. Group(req[a])' = Group(req'[a]) /\ req'[a] = req[a]
        BY <1>1 DEF Group
      <4> QED  BY <1>3, <3>2, <4>1, <4>2, <4>3, <4>4, <4>5, <4>6 DEF StepOK, Late, Waiting
    <3> QED  BY <3>1, <3>2
  <2>10. RevealOK(a)'
    BY <1>1, <1>3 DEF RevealOK
  <2>11. TxnOK(t)'
    <3>1. isEdit => Fetched(t.call, t.value)'
      <4>1. isEdit => Fetched(t.call, t.value)
        BY <1>3, <2>1
      <4> QED  BY <2>1, <2>6, <4>1, FetchedStays
    <3>2. r.verb = "generate" => \A l \in S \cap Classified : t.was[l] \notin Value
      BY <1>7, <2>1 DEF MayOverwrite
    <3>3. DOMAIN t.was = Group(req[a])' /\ req'[a] = req[a] /\ seen'[a] = seen[a]
      BY <1>1, <2>1 DEF Group
    <3>4. pc'[a] # "idle"
      BY <2>4
    <3> QED  BY <1>4, <2>1, <3>1, <3>2, <3>3, <3>4 DEF TxnOK
  <2>12. CallOK(a)'
    BY <2>8, <2>9, <2>10 DEF CallOK
  <2>13. pc'[a] # "idle"
    BY <2>4
  <2> QED  BY <1>1, <1>6, <2>1, <2>5, <2>6, <2>11, <2>12, <2>13, CallMoves
<1>8. ASSUME NEW o \in {"refused", "unsure"},
             Mark(a, S, o), Fail(a), UNCHANGED <<todo, txns>>,
             held' \in [Locs -> Entry], faults' \in Nat
      PROVE  IInv'
  <2>1. /\ result' \in [Calls -> [Locs -> Outcomes]]
        /\ \A b \in Calls : b # a => result'[b] = result[b]
        /\ \A l \in Locs : result'[a][l] = IF l \in S THEN o ELSE result[a][l]
    BY <1>2, <1>4, <1>8, MarkFields DEF Outcomes
  <2>2. /\ pc' = [pc EXCEPT ![a] = "failed"] /\ value' = [value EXCEPT ![a] = NoValue]
        /\ pc'[a] = "failed"
        /\ \A b \in Calls : b # a => pc'[b] = pc[b] /\ value'[b] = value[b]
    BY <1>2, <1>8 DEF TypeOK, Fail, Goto, Drop
  <2>3. TypeOK'
    BY <1>1, <1>2, <1>8, <2>1, <2>2 DEF TypeOK, Steps, Ended
  <2>4. Grows /\ Keeps(a) /\ \A b \in Calls : b # a => Rests(b)
    BY <1>1, <1>8, <2>1, <2>2 DEF Grows, Keeps, Rests
  <2>5. \A l \in Locs : Wrote(a, l)' <=> Wrote(a, l)
    BY <1>8 DEF Wrote
  <2>6. ResultOK(a)'
    BY <1>4, <1>5, <2>1, <2>2, <2>5 DEF ResultOK, Outcomes, Early, Late
  <2>7. StepOK(a)'
    BY <1>1, <1>3, <2>2 DEF StepOK, AskedOf, Late, Waiting
  <2>8. RevealOK(a)' /\ pc'[a] # "idle"
    BY <2>2 DEF RevealOK
  <2>9. CallOK(a)'
    BY <2>6, <2>7, <2>8 DEF CallOK
  <2> QED  BY <1>1, <1>6, <1>8, <2>3, <2>4, <2>8, <2>9, CallMoves
<1>9. CASE /\ \/ /\ ~Current(a, S) \/ ~MayOverwrite(r, S) \/ MayLeak(S)
                 /\ UNCHANGED faults
              \/ Fault
           /\ Mark(a, S, "refused")
           /\ Fail(a)
           /\ UNCHANGED <<held, todo, txns>>
  <2>1. held' \in [Locs -> Entry] /\ faults' \in Nat
    BY <1>2, <1>9 DEF TypeOK, Fault
  <2> QED  BY <1>8, <1>9, <2>1
<1>10. CASE /\ MayOverwrite(r, S)
            /\ Tear(a, S, value[a])
            /\ Mark(a, S, "unsure")
            /\ Fail(a)
            /\ UNCHANGED <<todo, txns>>
  <2>1. held' \in [Locs -> Entry] /\ faults' \in Nat
    BY <1>2, <1>3, <1>10 DEF TypeOK, Tear, Put, Payload, Entry
  <2> QED  BY <1>8, <1>10, <2>1
<1> QED  BY <1>7, <1>9, <1>10 DEF ApplyPrimary


(* A rotation whose primary is committed and recorded may send its value.  *)
LEMMA AuditOneInv ==
    ASSUME IInv, NEW a \in Calls, AuditOne(a)
    PROVE  IInv'
<1> DEFINE r == req[a]
<1>1. /\ pc[a] = "audit"
      /\ UNCHANGED <<held, req, seen, old, cur, tries, result, net, txns, edits>>
  BY DEF AuditOne
<1>2. TypeOK /\ StepOK(a)
  BY DEF IInv, CallOK
<1>3. AskedOf(r) /\ value[a] \in Payload /\ r.verb \in {"rotate", "generate", "reveal"}
  BY <1>1, <1>2 DEF StepOK
<1>4. PICK l \in todo[a] :
         \/ /\ audit' = audit \cup
                  {Row(a, r.verb, l, IF r.verb = "rotate" THEN old[a] ELSE NoKey,
                       value[a], r.verb = "reveal")}
            /\ todo' = [todo EXCEPT ![a] = @ \ {l}]
            /\ UNCHANGED <<pc, value, faults>>
         \/ RowFails(a, l)
  BY DEF AuditOne
<1>5. CASE RowFails(a, l)
  <2>1. Fail(a) /\ UNCHANGED <<audit, todo>> /\ faults' \in Nat
    BY <1>2, <1>5 DEF RowFails, Fault, TypeOK
  <2> QED  BY <1>1, <2>1, FailQuietly DEF Waiting
<1>6. ASSUME NEW o,
             audit' = audit \cup {Row(a, r.verb, l, o, value[a], r.verb = "reveal")},
             todo' = [todo EXCEPT ![a] = @ \ {l}],
             UNCHANGED <<pc, value, faults>>
      PROVE  IInv'
  <2>1. todo'[a] = todo[a] \ {l} /\ \A b \in Calls : b # a => todo'[b] = todo[b]
    BY <1>2, <1>6 DEF TypeOK
  <2>2. TypeOK'
    BY <1>1, <1>2, <1>6 DEF TypeOK
  <2>3. PICK w \in audit' : /\ w.call = a /\ w.action = r.verb /\ w.loc = l
                            /\ w.new = value[a] /\ (r.verb = "reveal" => w.disclosed)
    <3> DEFINE x == Row(a, r.verb, l, o, value[a], r.verb = "reveal")
    <3>1. x \in audit'
      BY <1>6
    <3>2. /\ x.call = a /\ x.action = r.verb /\ x.loc = l /\ x.new = value[a]
          /\ x.disclosed = (r.verb = "reveal")
      BY DEF Row
    <3>3. r.verb = "reveal" => x.disclosed
      BY <3>2
    <3> QED  BY <3>1, <3>2, <3>3
  <2>4. r.verb = "rotate" =>
          /\ \E p \in txns' : p.call = a /\ p.value = value[a] /\ DOMAIN p.was = Group(r)
          /\ \A k \in Group(r) \ todo'[a] :
                \E x \in audit' : /\ x.call = a /\ x.action = "rotate"
                                  /\ x.loc = k /\ x.new = value[a]
          /\ \A k \in Group(r) : result'[a][k] = "applied"
    BY <1>1, <1>2, <1>6, <2>1, <2>3 DEF StepOK
  <2>5. r.verb = "reveal" /\ r.at \notin todo'[a] =>
          \E x \in audit' : x.call = a /\ x.disclosed /\ x.loc = r.at
    BY <1>1, <1>2, <1>6, <2>1, <2>3 DEF StepOK
  <2>6. StepOK(a)'
    <3>1. AskedOf(req[a])' /\ Group(req[a])' = Group(r) /\ req'[a] = r
      BY <1>1, <1>3 DEF AskedOf, Group
    <3>2. pc'[a] = "audit" /\ value'[a] = value[a]
      BY <1>1, <1>6
    <3> QED  BY <1>3, <2>4, <2>5, <3>1, <3>2 DEF StepOK, Late, Waiting
  <2>7. RevealOK(a)'
    BY <1>1, <1>6 DEF RevealOK
  <2>8. pc'[a] = "audit" /\ audit \subseteq audit'
    BY <1>1, <1>6
  <2> QED  BY <1>1, <1>6, <2>1, <2>2, <2>6, <2>7, <2>8, QuietStep DEF Early, Waiting
<1> QED  BY <1>4, <1>5, <1>6

LEMMA AuditDoneInv ==
    ASSUME IInv, NEW a \in Calls, AuditDone(a)
    PROVE  IInv'
<1> DEFINE r == req[a]
<1>1. /\ pc[a] = "audit" /\ todo[a] = {}
      /\ pc' = [pc EXCEPT ![a] = IF r.verb = "rotate" THEN "siblings" ELSE "answered"]
      /\ value' = [value EXCEPT ![a] = IF r.verb = "rotate" THEN @ ELSE NoValue]
      /\ UNCHANGED <<held, req, seen, old, todo, cur, tries, result, net, txns,
                     audit, edits, faults>>
  BY DEF AuditDone, Goto, journal, budget
<1>2. TypeOK /\ StepOK(a)
  BY DEF IInv, CallOK
<1>3. AskedOf(r) /\ value[a] \in Payload /\ r.verb \in {"rotate", "generate", "reveal"}
  BY <1>1, <1>2 DEF StepOK
<1>4. /\ pc'[a] = (IF r.verb = "rotate" THEN "siblings" ELSE "answered")
      /\ r.verb = "rotate" => value'[a] = value[a]
      /\ \A b \in Calls : b # a => pc'[b] = pc[b] /\ value'[b] = value[b]
  BY <1>1, <1>2 DEF TypeOK
<1>5. TypeOK'
  BY <1>1, <1>2 DEF TypeOK, Steps, Ended
<1>6. r.verb = "rotate" => Sendable(a, value[a])
  BY <1>1, <1>2, <1>3 DEF StepOK, Sendable, PrimaryDone
<1>7. StepOK(a)'
  <2>1. AskedOf(req[a])'
    BY <1>1, <1>3 DEF AskedOf
  <2>2. r.verb = "rotate" => Sendable(a, value[a])'
    BY <1>1, <1>4, <1>6 DEF Sendable, PrimaryDone, Group
  <2> QED  BY <1>1, <1>3, <1>4, <2>1, <2>2 DEF StepOK, Late, Waiting
<1>8. RevealOK(a)'
  BY <1>1, <1>2, <1>3 DEF StepOK, RevealOK
<1> QED  BY <1>1, <1>4, <1>5, <1>7, <1>8, QuietStep DEF Early, Waiting

(* The step between two sends, which only moves on.                        *)
LEMMA MoveOn ==
    ASSUME IInv, NEW a \in Calls, NEW step \in {"siblings", "remotes"},
           pc[a] \in Late, pc' = [pc EXCEPT ![a] = step], TypeOK',
           UNCHANGED <<req, seen, value, todo, result, net, txns>>,
           audit \subseteq audit', \A b \in Calls : b # a => cur'[b] = cur[b],
           step = "siblings" => pc[a] = "sibling_audit",
           step = "remotes" =>
              \/ pc[a] = "transport_audit"
              \/ pc[a] = "siblings" /\ Pending(a, Siblings(req[a])) = {}
    PROVE  IInv'
<1>1. TypeOK /\ StepOK(a)
  BY DEF IInv, CallOK
<1>2. AskedOf(req[a]) /\ req[a].verb = "rotate" /\ Sendable(a, value[a])
  BY <1>1 DEF StepOK, Late
<1>3. pc'[a] = step /\ \A b \in Calls : b # a => pc'[b] = pc[b]
  BY <1>1 DEF TypeOK
<1>4. Sendable(a, value[a])'
  <2>1. PICK v : v = value[a] /\ Sendable(a, v)
    BY <1>2
  <2>2. Sendable(a, v)'
    BY <2>1, SendableStays DEF Keeps, Grows
  <2> QED  BY <2>1, <2>2
<1>5. StepOK(a)'
  BY <1>2, <1>3, <1>4 DEF StepOK, AskedOf, Late, Waiting
<1>6. RevealOK(a)'
  BY <1>3 DEF RevealOK
<1> QED  BY <1>3, <1>5, <1>6, QuietStep DEF Early, Late, Waiting

LEMMA AuditSiblingInv ==
    ASSUME IInv, NEW a \in Calls, AuditSibling(a)
    PROVE  IInv'
<1>1. /\ pc[a] = "sibling_audit" /\ pc' = [pc EXCEPT ![a] = "siblings"]
      /\ cur' = [cur EXCEPT ![a] = NoLoc] /\ audit \subseteq audit'
      /\ UNCHANGED <<held, req, seen, value, old, todo, tries, result, net, txns, edits>>
  BY DEF AuditSibling, Goto
<1>2. TypeOK
  BY DEF IInv
<1>3. faults' \in Nat
  <2>1. UNCHANGED faults \/ Fault
    BY ZenonT(30) DEF AuditSibling
  <2> QED  BY <1>2, <2>1 DEF Fault, TypeOK
<1>4. TypeOK' /\ \A b \in Calls : b # a => cur'[b] = cur[b]
  BY <1>1, <1>2, <1>3 DEF TypeOK, Steps
<1> QED  BY <1>1, <1>4, MoveOn DEF Late

LEMMA SiblingsDoneInv ==
    ASSUME IInv, NEW a \in Calls, SiblingsDone(a)
    PROVE  IInv'
<1>1. /\ pc[a] = "siblings" /\ pc' = [pc EXCEPT ![a] = "remotes"]
      /\ Pending(a, Siblings(req[a])) = {}
      /\ UNCHANGED <<held, req, seen, value, old, todo, cur, tries, result, net,
                     txns, audit, edits, faults>>
  BY DEF SiblingsDone, Goto, journal, budget
<1>2. TypeOK'
  BY <1>1 DEF IInv, TypeOK, Steps
<1> QED  BY <1>1, <1>2, MoveOn DEF Late

LEMMA AuditTransportInv ==
    ASSUME IInv, NEW a \in Calls, AuditTransport(a)
    PROVE  IInv'
<1>1. /\ pc[a] = "transport_audit" /\ pc' = [pc EXCEPT ![a] = "remotes"]
      /\ cur' = [cur EXCEPT ![a] = NoLoc] /\ audit \subseteq audit'
      /\ UNCHANGED <<held, req, seen, value, old, todo, tries, result, net, txns, edits>>
  BY DEF AuditTransport, Goto
<1>2. TypeOK
  BY DEF IInv
<1>3. faults' \in Nat
  <2>1. UNCHANGED faults \/ Fault
    BY ZenonT(30) DEF AuditTransport
  <2> QED  BY <1>2, <2>1 DEF Fault, TypeOK
<1>4. TypeOK' /\ \A b \in Calls : b # a => cur'[b] = cur[b]
  BY <1>1, <1>2, <1>3 DEF TypeOK, Steps
<1> QED  BY <1>1, <1>4, MoveOn DEF Late

LEMMA RemotesDoneInv ==
    ASSUME IInv, NEW a \in Calls, RemotesDone(a)
    PROVE  IInv'
<1>1. /\ pc[a] = "remotes" /\ Pending(a, Remotes(req[a])) = {}
      /\ pc' = [pc EXCEPT ![a] = "answered"] /\ value' = [value EXCEPT ![a] = NoValue]
      /\ UNCHANGED <<held, req, seen, old, todo, cur, tries, result, net, txns,
                     audit, edits, faults>>
  BY DEF RemotesDone, Goto, Drop, journal, budget
<1>2. TypeOK /\ StepOK(a)
  BY DEF IInv, CallOK
<1>3. AskedOf(req[a]) /\ req[a].verb = "rotate"
  BY <1>1, <1>2 DEF StepOK, Late
<1>4. pc'[a] = "answered" /\ \A b \in Calls : b # a => pc'[b] = pc[b] /\ value'[b] = value[b]
  BY <1>1, <1>2 DEF TypeOK
<1>5. TypeOK'
  BY <1>1, <1>2 DEF TypeOK, Steps, Ended
<1>6. StepOK(a)'
  BY <1>1, <1>3, <1>4 DEF StepOK, AskedOf, Late, Waiting
<1>7. RevealOK(a)'
  BY <1>1, <1>3 DEF RevealOK
<1> QED  BY <1>1, <1>4, <1>5, <1>6, <1>7, QuietStep DEF Early, Waiting

LEMMA FetchLocalInv ==
    ASSUME IInv, NEW a \in Calls, FetchLocal(a)
    PROVE  IInv'
<1> DEFINE s == req[a].from
<1>1. /\ pc[a] = "fetch" /\ HostAt(s) = Home
      /\ UNCHANGED <<held, req, seen, old, todo, cur, tries, result, net, txns,
                     audit, edits, faults>>
  BY DEF FetchLocal, journal, budget
<1>2. TypeOK /\ StepOK(a)
  BY DEF IInv, CallOK
<1>3. AskedOf(req[a]) /\ req[a].verb = "copy" /\ s \in Locs
  BY <1>1, <1>2, RequestFields DEF StepOK, AskedOf
<1>4. CASE /\ Present(s) /\ DigestHolds(a, s)
           /\ value' = [value EXCEPT ![a] = held[s]]
           /\ Goto(a, IF HostAt(req[a].at) = Home THEN "apply" ELSE "exit_audit")
  <2>1. held[s] \in Payload
    BY <1>2, <1>3, <1>4, PresentPayload
  <2>2. /\ pc'[a] = (IF HostAt(req[a].at) = Home THEN "apply" ELSE "exit_audit")
        /\ value'[a] = held[s]
        /\ \A b \in Calls : b # a => pc'[b] = pc[b] /\ value'[b] = value[b]
    BY <1>2, <1>4 DEF Goto, TypeOK
  <2>3. TypeOK'
    BY <1>1, <1>2, <1>4, <2>1 DEF TypeOK, Goto, Steps, Payload
  <2>4. Fetched(a, value[a])'
    BY <1>1, <1>4, <2>2 DEF Fetched, DigestHolds
  <2>5. StepOK(a)'
    BY <1>1, <1>3, <2>1, <2>2, <2>4 DEF StepOK, AskedOf, Late, Waiting
  <2>6. RevealOK(a)'
    BY <2>2 DEF RevealOK
  <2> QED  BY <1>1, <1>3, <2>2, <2>3, <2>5, <2>6, QuietStep DEF Early, Waiting
<1>5. CASE Fail(a)
  <2>1. faults' \in Nat /\ value' = [value EXCEPT ![a] = NoValue]
    BY <1>1, <1>2, <1>5 DEF TypeOK, Fail, Drop
  <2> QED  BY <1>1, <1>5, <2>1, FailQuietly DEF Waiting
<1> QED  BY <1>4, <1>5 DEF FetchLocal

LEMMA AuditExitInv ==
    ASSUME IInv, NEW a \in Calls, AuditExit(a)
    PROVE  IInv'
<1>1. /\ pc[a] = "exit_audit" /\ pc' = [pc EXCEPT ![a] = "send"]
      /\ audit \subseteq audit'
      /\ UNCHANGED <<held, req, seen, value, old, todo, cur, tries, result, net, txns, edits>>
  BY DEF AuditExit, Goto
<1>2. TypeOK /\ StepOK(a)
  BY DEF IInv, CallOK
<1>3. /\ AskedOf(req[a]) /\ req[a].verb = "copy"
      /\ value[a] \in Payload /\ Fetched(a, value[a]) /\ HostAt(req[a].at) # Home
  BY <1>1, <1>2 DEF StepOK
<1>4. pc'[a] = "send" /\ \A b \in Calls : b # a => pc'[b] = pc[b]
  BY <1>1, <1>2 DEF TypeOK
<1>5. faults' \in Nat
  <2>1. UNCHANGED faults \/ Fault
    BY ZenonT(30) DEF AuditExit
  <2> QED  BY <1>2, <2>1 DEF Fault, TypeOK
<1>6. TypeOK'
  BY <1>1, <1>2, <1>5 DEF TypeOK, Steps
<1>7. Fetched(a, value[a])'
  BY <1>1, <1>3 DEF Fetched
<1>8. StepOK(a)'
  BY <1>1, <1>3, <1>4, <1>7 DEF StepOK, AskedOf, Late, Waiting
<1>9. RevealOK(a)'
  BY <1>4 DEF RevealOK
<1> QED  BY <1>1, <1>3, <1>4, <1>6, <1>8, <1>9, QuietStep DEF Early, Waiting


(* A sibling is of this host but of another root, so the row of the        *)
(* primary is what its transaction rests on.                               *)
LEMMA ApplySiblingInv ==
    ASSUME IInv, NEW a \in Calls, ApplySibling(a)
    PROVE  IInv'
<1>1. /\ pc[a] = "siblings"
      /\ UNCHANGED <<req, seen, value, old, todo, tries, net, audit, edits>>
  BY DEF ApplySibling
<1>2. TypeOK /\ StepOK(a) /\ ResultOK(a)
  BY DEF IInv, CallOK
<1>3. AskedOf(req[a]) /\ req[a].verb = "rotate" /\ Sendable(a, value[a])
      /\ value[a] \in Payload
  BY <1>1, <1>2 DEF StepOK, Late, Sendable
<1>4. /\ Siblings(req[a]) \subseteq Locs
      /\ \A l \in Siblings(req[a]) : HostAt(l) = Home /\ l \notin Group(req[a])
  BY <1>3, TargetsAreLocs, RequestFields DEF AskedOf, Siblings, Group
<1>5. PICK l \in Pending(a, Siblings(req[a])) :
          \/ /\ Commit(a, {l}, value[a], "unknown")
             /\ Mark(a, {l}, "applied")
             /\ cur' = [cur EXCEPT ![a] = l]
             /\ Goto(a, "sibling_audit")
             /\ UNCHANGED faults
          \/ /\ \/ (~Current(a, {l}) \/ MayLeak({l})) /\ UNCHANGED faults
                \/ Fault
             /\ Mark(a, {l}, "refused")
             /\ UNCHANGED <<held, txns, cur, pc>>
  BY DEF ApplySibling
<1>6. /\ l \in Locs /\ HostAt(l) = Home /\ l \notin Group(req[a])
      /\ result[a][l] = "none" /\ {l} \in SUBSET Locs
  BY <1>4, <1>5 DEF Pending
<1>7. \A m \in net : m.call # a \/ m.type = "ask"
  BY <1>1 DEF IInv, MsgOK, Waiting
<1>8. /\ \A k \in Group(req[a]) : result[a][k] = "applied"
      /\ \A k \in Locs : /\ result[a][k] = "applied" => Wrote(a, k)
                         /\ Wrote(a, k) /\ HostAt(k) = Home => result[a][k] = "applied"
  BY <1>1, <1>2, <1>3 DEF ResultOK, Late
<1>9. CASE /\ Commit(a, {l}, value[a], "unknown")
           /\ Mark(a, {l}, "applied")
           /\ cur' = [cur EXCEPT ![a] = l]
           /\ Goto(a, "sibling_audit")
           /\ UNCHANGED faults
  <2>0. PICK S, node : S \in SUBSET Locs /\ S = {l} /\ Commit(a, S, value[a], node)
    BY <1>6, <1>9
  <2>a. S \in SUBSET Locs /\ Commit(a, S, value[a], node)
    BY <2>0
  <2>1. PICK t : /\ txns' = txns \cup {t}
                 /\ t.call = a /\ t.value = value[a] /\ DOMAIN t.was = S
                 /\ \A k \in S : t.was[k] = held[k] /\ t.was[k] = seen[a][k]
    <3>1. PICK t : Commits(t, a, S, value[a])
      BY <1>2, <1>3, <2>a, CommitFields
    <3> QED  BY <3>1 DEF Commits
  <2>2. held' \in [Locs -> Entry]
    BY <1>2, <1>3, <2>a, CommitFields
  <2>3. /\ result' \in [Calls -> [Locs -> Outcomes]]
        /\ \A b \in Calls : b # a => result'[b] = result[b]
        /\ \A k \in Locs : result'[a][k] = IF k \in {l} THEN "applied" ELSE result[a][k]
    BY <1>2, <1>6, <1>9, MarkFields DEF Outcomes
  <2>4. /\ pc' = [pc EXCEPT ![a] = "sibling_audit"] /\ pc'[a] = "sibling_audit"
        /\ cur'[a] = l
        /\ \A b \in Calls : b # a => pc'[b] = pc[b] /\ cur'[b] = cur[b]
    BY <1>2, <1>9 DEF TypeOK, Goto
  <2>5. TypeOK'
    BY <1>1, <1>2, <1>6, <1>9, <2>2, <2>3, <2>4 DEF TypeOK, Steps
  <2>6. Grows /\ Keeps(a) /\ \A b \in Calls : b # a => Rests(b)
    BY <1>1, <2>1, <2>3, <2>4 DEF Grows, Keeps, Rests
  <2>7. \A k \in Locs : Wrote(a, k)' <=> Wrote(a, k) \/ k = l
    BY <2>0, <2>1 DEF Wrote
  <2>8. ResultOK(a)'
    <3>1. \A k \in Group(req[a]) : result'[a][k] = "applied"
      BY <1>3, <1>6, <1>8, <2>3, TargetsAreLocs DEF AskedOf
    <3>2. Group(req[a])' = Group(req[a])
      BY <1>1 DEF Group
    <3> QED  BY <1>8, <2>3, <2>4, <2>7, <3>1, <3>2 DEF ResultOK, Early, Late
  <2>9. Sendable(a, value[a])'
    <3>1. PICK v : v = value[a] /\ Sendable(a, v)
      BY <1>3
    <3>2. Sendable(a, v)'
      BY <2>6, <3>1, SendableStays
    <3> QED  BY <1>1, <3>1, <3>2
  <2>10. StepOK(a)'
    BY <1>1, <1>3, <1>6, <2>4, <2>9 DEF StepOK, AskedOf, Late, Waiting
  <2>11. RevealOK(a)' /\ pc'[a] # "idle"
    BY <2>4 DEF RevealOK
  <2>12. TxnOK(t)'
    <3>1. PrimaryDone(t.call, t.value)
      BY <1>3, <2>1 DEF Sendable
    <3>2. PrimaryDone(t.call, t.value)'
      BY <2>1, <2>6, <3>1, PrimaryDoneStays
    <3>3. req'[a] = req[a] /\ seen'[a] = seen[a]
      BY <1>1
    <3> QED  BY <1>3, <1>6, <2>0, <2>1, <2>11, <3>2, <3>3 DEF TxnOK
  <2>13. CallOK(a)'
    BY <2>8, <2>10, <2>11 DEF CallOK
  <2> QED  BY <1>1, <1>7, <2>1, <2>5, <2>6, <2>11, <2>12, <2>13, CallMoves
<1>10. CASE /\ \/ (~Current(a, {l}) \/ MayLeak({l})) /\ UNCHANGED faults
               \/ Fault
            /\ Mark(a, {l}, "refused")
            /\ UNCHANGED <<held, txns, cur, pc>>
  <2>1. faults' \in Nat
    BY <1>2, <1>10 DEF TypeOK, Fault
  <2>2. /\ result' \in [Calls -> [Locs -> Outcomes]]
        /\ \A b \in Calls : b # a => result'[b] = result[b]
        /\ \A k \in Locs : result'[a][k] = IF k \in {l} THEN "refused" ELSE result[a][k]
    BY <1>2, <1>6, <1>10, MarkFields DEF Outcomes
  <2>3. TypeOK'
    BY <1>1, <1>2, <1>10, <2>1, <2>2 DEF TypeOK
  <2>4. Grows /\ Keeps(a) /\ \A b \in Calls : b # a => Rests(b)
    BY <1>1, <1>10, <2>2 DEF Grows, Keeps, Rests
  <2>5. \A k \in Locs : Wrote(a, k)' <=> Wrote(a, k)
    BY <1>10 DEF Wrote
  <2>6. ResultOK(a)'
    <3>1. \A k \in Group(req[a]) : result'[a][k] = "applied"
      BY <1>3, <1>6, <1>8, <2>2, TargetsAreLocs DEF AskedOf
    <3>2. Group(req[a])' = Group(req[a]) /\ pc'[a] = "siblings"
      BY <1>1, <1>10 DEF Group
    <3>3. ~(Wrote(a, l) /\ HostAt(l) = Home)
      BY <1>6, <1>8
    <3> QED  BY <1>6, <1>8, <2>2, <2>5, <3>1, <3>2, <3>3 DEF ResultOK, Early, Late
  <2>7. Sendable(a, value[a])'
    <3>1. PICK v : v = value[a] /\ Sendable(a, v)
      BY <1>3
    <3>2. Sendable(a, v)'
      BY <2>4, <3>1, SendableStays
    <3> QED  BY <1>1, <3>1, <3>2
  <2>8. StepOK(a)'
    BY <1>1, <1>3, <1>10, <2>7 DEF StepOK, AskedOf, Late, Waiting
  <2>9. RevealOK(a)' /\ pc'[a] = pc[a] /\ pc'[a] # "idle"
    BY <1>1, <1>10 DEF RevealOK
  <2>10. CallOK(a)'
    BY <2>6, <2>8, <2>9 DEF CallOK
  <2> QED  BY <1>1, <1>7, <1>10, <2>3, <2>4, <2>9, <2>10, CallMoves
<1> QED  BY <1>5, <1>9, <1>10

-----------------------------------------------------------------------------
(* Calls to peers.                                                         *)

LEMMA PostInv ==
    ASSUME IInv, NEW a \in Calls, NEW op \in {"edit", "reveal"},
           NEW l \in Locs, HostAt(l) # Home, NEW v, Post(a, op, l, v),
           UNCHANGED <<held, req, seen, value, old, todo, result, txns, audit, edits, faults>>,
           pc[a] \in {"fetch", "send", "remotes"},
           op = "edit" => Sendable(a, v) /\ Sendable(a, value[a]) /\ pc[a] # "fetch",
           op = "reveal" => req[a].verb = "copy" /\ l = req[a].from /\ pc[a] = "fetch"
    PROVE  IInv'
<1>1. TypeOK /\ StepOK(a) /\ ResultOK(a) /\ AskedOf(req[a])
  BY DEF IInv, CallOK, StepOK
<1>2. /\ pc'[a] = (IF op = "edit" THEN "await_edit" ELSE "await_reveal")
      /\ cur'[a] = l
      /\ \A b \in Calls : b # a => pc'[b] = pc[b] /\ cur'[b] = cur[b]
  BY <1>1 DEF Post, Goto, TypeOK
<1>3. TypeOK'
  BY <1>1 DEF TypeOK, Post, Goto, Steps, Waiting
<1>4. Grows /\ Keeps(a) /\ \A b \in Calls : b # a => Rests(b)
  BY <1>2 DEF Grows, Keeps, Rests
<1>5. op = "edit" => Sendable(a, value[a])' /\ Sendable(a, v)'
  <2>1. PICK w : w = value[a]
    OBVIOUS
  <2>2. op = "edit" => Sendable(a, w)' /\ Sendable(a, v)'
    BY <1>4, <2>1, SendableStays
  <2> QED  BY <2>1, <2>2
<1>6. StepOK(a)'
  BY <1>1, <1>2, <1>5 DEF StepOK, AskedOf, Late, Waiting
<1>7. \A k \in Locs : (Wrote(a, k)' <=> Wrote(a, k)) /\ result'[a][k] = result[a][k]
  BY DEF Wrote
<1>8. ResultOK(a)'
  <2>1. CASE pc[a] = "remotes"
    <3>1. req[a].verb = "rotate" =>
            /\ \A k \in Group(req[a]) : result[a][k] = "applied"
            /\ \A k \in Siblings(req[a]) : result[a][k] # "none"
      BY <1>1, <2>1 DEF ResultOK, Late
    <3>2. pc'[a] = "await_edit"
      BY <1>2, <2>1
    <3>3. Group(req[a])' = Group(req[a]) /\ Siblings(req[a])' = Siblings(req[a])
      BY DEF Group, Siblings
    <3> QED  BY <1>1, <1>7, <3>1, <3>2, <3>3 DEF ResultOK, Early, Late
  <2>2. CASE pc[a] \in {"fetch", "send"}
    <3>1. req'[a].verb = "copy"
      BY <1>1, <2>2 DEF StepOK
    <3>2. \A k \in Locs : result[a][k] = "none"
      BY <1>1, <2>2 DEF ResultOK, Early
    <3> QED  BY <1>1, <1>7, <3>1, <3>2 DEF ResultOK
  <2> QED  BY <2>1, <2>2
<1>9. RevealOK(a)' /\ pc'[a] # "idle"
  BY <1>2 DEF RevealOK
<1>10. CallOK(a)'
  BY <1>6, <1>8, <1>9 DEF CallOK
<1>11. \A m \in net : m.call # a \/ m.type = "ask"
  BY DEF IInv, MsgOK, Waiting
<1>12. MsgOK(Ask(a, op, l, v, 1))'
  <2>0. PICK m : m = Ask(a, op, l, v, 1)
    OBVIOUS
  <2> SUFFICES MsgOK(m)'
    BY <2>0
  <2>1. m.call = a /\ m.loc = l /\ m.op = op /\ m.value = v /\ m.type = "ask" /\ m.try = 1
    BY <2>0 DEF Ask
  <2>2. HostAt(l) # Home /\ req'[a] = req[a]
    OBVIOUS
  <2> QED  BY <1>5, <1>9, <2>1, <2>2 DEF MsgOK
<1>13. \A m \in net' : m \in net \/ m = Ask(a, op, l, v, 1)
  BY DEF Post
<1> QED  BY <1>3, <1>4, <1>9, <1>10, <1>11, <1>12, <1>13, CallMoves

LEMMA SendInv ==
    ASSUME IInv, NEW a \in Calls, SendRemote(a) \/ ForwardEdit(a) \/ FetchRemote(a)
    PROVE  IInv'
<1>1. TypeOK /\ StepOK(a)
  BY DEF IInv, CallOK
<1>2. CASE SendRemote(a)
  <2>1. PICK l \in Pending(a, Remotes(req[a])) : Post(a, "edit", l, value[a])
    BY <1>2 DEF SendRemote
  <2>2. pc[a] = "remotes" /\ AskedOf(req[a]) /\ Sendable(a, value[a])
    BY <1>1, <1>2 DEF SendRemote, StepOK, Late
  <2>3. l \in Locs /\ HostAt(l) # Home
    BY <2>1, <2>2, TargetsAreLocs DEF AskedOf, Pending, Remotes
  <2>4. UNCHANGED <<held, req, seen, value, old, todo, result, txns, audit, edits, faults>>
    BY <1>2 DEF SendRemote, journal, budget
  <2> QED  BY <2>1, <2>2, <2>3, <2>4, PostInv
<1>3. CASE ForwardEdit(a)
  <2>1. pc[a] = "send" /\ Post(a, "edit", req[a].at, value[a])
    BY <1>3 DEF ForwardEdit
  <2>2. /\ AskedOf(req[a]) /\ req[a].verb = "copy" /\ HostAt(req[a].at) # Home
        /\ value[a] \in Payload /\ Fetched(a, value[a])
    BY <1>1, <2>1 DEF StepOK
  <2>3. req[a].at \in Locs /\ Sendable(a, value[a])
    BY <2>2, RequestFields DEF AskedOf, Sendable
  <2>4. UNCHANGED <<held, req, seen, value, old, todo, result, txns, audit, edits, faults>>
    BY <1>3 DEF ForwardEdit, journal, budget
  <2> QED  BY <2>1, <2>2, <2>3, <2>4, PostInv
<1>4. CASE FetchRemote(a)
  <2>1. /\ pc[a] = "fetch" /\ HostAt(req[a].from) # Home
        /\ Post(a, "reveal", req[a].from, NoValue)
    BY <1>4 DEF FetchRemote
  <2>2. AskedOf(req[a]) /\ req[a].verb = "copy"
    BY <1>1, <2>1 DEF StepOK
  <2>3. req[a].from \in Locs
    BY <2>2, RequestFields DEF AskedOf
  <2>4. UNCHANGED <<held, req, seen, value, old, todo, result, txns, audit, edits, faults>>
    BY <1>4 DEF FetchRemote, journal, budget
  <2> QED  BY <2>1, <2>2, <2>3, <2>4, PostInv
<1> QED  BY <1>2, <1>3, <1>4


(* After an answer no reply to the call is left.                           *)
LEMMA NetWithout ==
    ASSUME NEW a, NEW m \in WithoutReplies(a), IInv
    PROVE  m \in net /\ (m.call # a \/ m.type = "ask")
BY DEF WithoutReplies, IInv, MsgOK

(* How a call goes on that has waited for an edit of a peer.               *)
LEMMA EditOutcome ==
    ASSUME IInv, NEW a \in Calls, pc[a] = "await_edit",
           NEW l \in Locs, HostAt(l) # Home,
           NEW o \in {"applied", "refused", "unsure"}, Mark(a, {l}, o),
           o = "applied" => Wrote(a, l),
           NEW step \in {"transport_audit", "remotes", "answered", "failed"},
           pc' = [pc EXCEPT ![a] = step],
           req[a].verb = "rotate" =>
              step \in {"transport_audit", "remotes"} /\ UNCHANGED value,
           req[a].verb = "copy" => step \in {"answered", "failed"} /\ Drop(a),
           net' = WithoutReplies(a),
           UNCHANGED <<held, req, seen, old, todo, cur, tries, txns, audit, edits, faults>>
    PROVE  IInv'
<1>1. TypeOK /\ StepOK(a) /\ ResultOK(a)
  BY DEF IInv, CallOK
<1>2. AskedOf(req[a]) /\ Sendable(a, value[a]) /\ req[a].verb \in {"rotate", "copy"}
  BY <1>1 DEF StepOK, Sendable
<1>3. /\ result' \in [Calls -> [Locs -> Outcomes]]
      /\ \A b \in Calls : b # a => result'[b] = result[b]
      /\ \A k \in Locs : result'[a][k] = IF k = l THEN o ELSE result[a][k]
  <2>1. PICK S \in SUBSET Locs : S = {l}
    OBVIOUS
  <2>2. Mark(a, S, o) /\ o \in Outcomes
    BY <2>1 DEF Outcomes
  <2>3. /\ result' \in [Calls -> [Locs -> Outcomes]]
        /\ \A b \in Calls : b # a => result'[b] = result[b]
        /\ \A k \in Locs : result'[a][k] = IF k \in S THEN o ELSE result[a][k]
    BY <1>1, <2>2, MarkFields, ZenonT(40)
  <2> QED  BY <2>1, <2>3
<1>4. pc'[a] = step /\ \A b \in Calls : b # a => pc'[b] = pc[b]
  BY <1>1 DEF TypeOK
<1>5. /\ value' \in [Calls -> Value \cup {EmptyValue, NoValue}]
      /\ \A b \in Calls : b # a => value'[b] = value[b]
  BY <1>1, <1>2 DEF TypeOK, Drop
<1>6. TypeOK'
  BY <1>1, <1>3, <1>5 DEF TypeOK, Steps, Ended
<1>7. Grows /\ Keeps(a) /\ \A b \in Calls : b # a => Rests(b)
  BY <1>3, <1>4, <1>5 DEF Grows, Keeps, Rests
<1>8. req[a].verb = "rotate" => Sendable(a, value[a])'
  <2>1. PICK w : w = value[a]
    OBVIOUS
  <2>2. Sendable(a, w)'
    BY <1>2, <1>7, <2>1, SendableStays
  <2> QED  BY <2>1, <2>2
<1>9. StepOK(a)'
  BY <1>2, <1>4, <1>8 DEF StepOK, AskedOf, Late, Waiting
<1>10. \A k \in Locs : Wrote(a, k)' <=> Wrote(a, k)
  BY DEF Wrote
<1>11. ResultOK(a)'
  <2>1. \A k \in Locs :
          /\ result'[a][k] = "applied" => Wrote(a, k)'
          /\ Wrote(a, k)' /\ HostAt(k) = Home => result'[a][k] = "applied"
    BY <1>1, <1>3, <1>10 DEF ResultOK
  <2>2. ASSUME req[a].verb = "rotate"
        PROVE  /\ \A k \in Group(req[a]) : result'[a][k] = "applied"
               /\ \A k \in Siblings(req[a]) : result'[a][k] # "none"
    <3>1. /\ \A k \in Group(req[a]) : result[a][k] = "applied"
          /\ \A k \in Siblings(req[a]) : result[a][k] # "none"
      BY <1>1, <2>2 DEF ResultOK
    <3>2. HostAt(req[a].at) = Home
      BY <1>2, <2>2 DEF AskedOf
    <3>3. \A k \in Group(req[a]) \cup Siblings(req[a]) : k \in Locs /\ HostAt(k) = Home
      BY <1>2, <3>2, GroupIsHome, TargetsAreLocs DEF AskedOf, Siblings
    <3> QED  BY <1>3, <3>1, <3>3
  <2>3. /\ Group(req[a])' = Group(req[a]) /\ Siblings(req[a])' = Siblings(req[a])
        /\ req'[a] = req[a]
    BY DEF Group, Siblings
  <2>4. pc'[a] \notin Early /\ (req[a].verb = "rotate" => pc'[a] # "answered")
    BY <1>4 DEF Early
  <2> QED  BY <2>1, <2>2, <2>3, <2>4 DEF ResultOK
<1>12. RevealOK(a)' /\ pc'[a] # "idle"
  BY <1>2, <1>4 DEF RevealOK
<1>13. CallOK(a)'
  BY <1>9, <1>11, <1>12 DEF CallOK
<1> QED  BY <1>6, <1>7, <1>12, <1>13, NetWithout, CallMoves

LEMMA AskedRemote ==
    ASSUME IInv, NEW a \in Calls, pc[a] \in Waiting
    PROVE  /\ AskedOf(req[a]) /\ cur[a] \in Locs /\ HostAt(cur[a]) # Home
           /\ pc[a] = "await_edit" => req[a].verb \in {"rotate", "copy"}
           /\ pc[a] = "await_reveal" => req[a].verb = "copy"
BY DEF IInv, CallOK, StepOK, Waiting, Sendable

LEMMA ReceiveEditInv ==
    ASSUME IInv, NEW a \in Calls, ReceiveEdit(a)
    PROVE  IInv'
<1>1. PICK m \in net :
        /\ m.type = "reply" /\ m.call = a /\ net' = WithoutReplies(a)
        /\ Mark(a, {m.loc}, AnswerOf(m))
        /\ IF req[a].verb = "rotate"
             THEN /\ Goto(a, IF AnswerOf(m) = "applied" THEN "transport_audit"
                                                        ELSE "remotes")
                  /\ UNCHANGED value
             ELSE /\ Goto(a, IF AnswerOf(m) = "applied" THEN "answered" ELSE "failed")
                  /\ Drop(a)
  BY DEF ReceiveEdit
<1>2. pc[a] = "await_edit"
      /\ UNCHANGED <<held, req, seen, old, todo, cur, tries, txns, audit, edits, faults>>
  BY DEF ReceiveEdit, journal, budget
<1>3. MsgOK(m)
  BY DEF IInv
<1>4. /\ m.loc \in Locs /\ HostAt(m.loc) # Home /\ AnswerOf(m) \in {"applied", "refused"}
      /\ AnswerOf(m) = "applied" => Wrote(a, m.loc)
  BY <1>1, <1>2, <1>3 DEF MsgOK, AnswerOf
<1>5. req[a].verb \in {"rotate", "copy"}
  BY <1>2, AskedRemote DEF Waiting
<1> DEFINE step == IF req[a].verb = "rotate"
                     THEN IF AnswerOf(m) = "applied" THEN "transport_audit" ELSE "remotes"
                     ELSE IF AnswerOf(m) = "applied" THEN "answered" ELSE "failed"
<1>6. PICK x : x = step
  OBVIOUS
<1>7. PICK o : o = AnswerOf(m)
  OBVIOUS
<1>8. pc' = [pc EXCEPT ![a] = x]
  BY <1>1, <1>6 DEF Goto
<1>9. /\ x \in {"transport_audit", "remotes", "answered", "failed"}
      /\ req[a].verb = "rotate" => x \in {"transport_audit", "remotes"} /\ UNCHANGED value
      /\ req[a].verb = "copy" => x \in {"answered", "failed"} /\ Drop(a)
  BY <1>1, <1>6
<1>10. /\ o \in {"applied", "refused", "unsure"} /\ Mark(a, {m.loc}, o)
       /\ o = "applied" => Wrote(a, m.loc)
  BY <1>1, <1>4, <1>7
<1>11. PICK l \in Locs : l = m.loc
  BY <1>4
<1>12. HostAt(l) # Home /\ Mark(a, {l}, o) /\ (o = "applied" => Wrote(a, l))
  BY <1>4, <1>10, <1>11
<1> HIDE DEF step
<1> QED  BY <1>1, <1>2, <1>8, <1>9, <1>10, <1>12, EditOutcome

(* How a call goes on that has waited for a value: with it or not.         *)
LEMMA RevealOutcome ==
    ASSUME IInv, NEW a \in Calls, pc[a] = "await_reveal", NEW step, NEW v,
           \/ step = "failed" /\ v = NoValue
           \/ /\ step = IF HostAt(req[a].at) = Home THEN "apply" ELSE "send"
              /\ v \in Payload /\ Fetched(a, v),
           pc' = [pc EXCEPT ![a] = step], value' = [value EXCEPT ![a] = v],
           net' = WithoutReplies(a),
           result' \in [Calls -> [Locs -> Outcomes]],
           \A b \in Calls : result'[b] = result[b],
           UNCHANGED <<held, req, seen, old, todo, cur, tries, txns, audit, edits, faults>>
    PROVE  IInv'
<1>1. TypeOK /\ StepOK(a) /\ ResultOK(a)
  BY DEF IInv, CallOK
<1>2. AskedOf(req[a]) /\ req[a].verb = "copy"
  BY AskedRemote DEF Waiting
<1>3. /\ pc'[a] = step /\ value'[a] = v
      /\ \A b \in Calls : b # a => pc'[b] = pc[b] /\ value'[b] = value[b]
  BY <1>1 DEF TypeOK
<1>4. TypeOK'
  BY <1>1 DEF TypeOK, Steps, Ended, Payload
<1>5. Grows /\ Keeps(a) /\ \A b \in Calls : b # a => Rests(b)
  BY <1>3 DEF Grows, Keeps, Rests
<1>6. step # "failed" => Fetched(a, value[a])'
  BY <1>3, <1>5 DEF Fetched
<1>7. StepOK(a)'
  BY <1>2, <1>3, <1>6 DEF StepOK, AskedOf, Late, Waiting
<1>8. \A k \in Locs : (Wrote(a, k)' <=> Wrote(a, k)) /\ result'[a][k] = result[a][k]
  BY DEF Wrote
<1>9. ResultOK(a)'
  BY <1>1, <1>2, <1>3, <1>8 DEF ResultOK, Early
<1>10. RevealOK(a)' /\ pc'[a] # "idle"
  BY <1>2, <1>3 DEF RevealOK
<1>11. CallOK(a)'
  BY <1>7, <1>9, <1>10 DEF CallOK
<1> QED  BY <1>4, <1>5, <1>10, <1>11, NetWithout, CallMoves

LEMMA ReceiveRevealInv ==
    ASSUME IInv, NEW a \in Calls, ReceiveReveal(a)
    PROVE  IInv'
<1>1. PICK m \in net :
        /\ m.type = "reply" /\ m.call = a /\ net' = WithoutReplies(a)
        /\ \/ /\ m.outcome = "applied"
              /\ value' = [value EXCEPT ![a] = m.value]
              /\ Goto(a, IF HostAt(req[a].at) = Home THEN "apply" ELSE "send")
           \/ m.outcome = "refused" /\ Fail(a)
  BY DEF ReceiveReveal
<1>2. pc[a] = "await_reveal"
      /\ UNCHANGED <<held, req, seen, old, todo, cur, tries, result, txns, audit, edits, faults>>
  BY DEF ReceiveReveal, journal, budget
<1>3. MsgOK(m)
  BY DEF IInv
<1>4. m.outcome = "applied" => m.value \in Payload /\ Fetched(a, m.value)
  BY <1>1, <1>2, <1>3 DEF MsgOK
<1>5. result' \in [Calls -> [Locs -> Outcomes]] /\ \A b \in Calls : result'[b] = result[b]
  BY <1>2 DEF IInv, TypeOK
<1>6. CASE m.outcome = "refused" /\ Fail(a)
  BY <1>1, <1>2, <1>5, <1>6, RevealOutcome DEF Fail, Goto, Drop
<1>7. CASE /\ m.outcome = "applied"
           /\ value' = [value EXCEPT ![a] = m.value]
           /\ Goto(a, IF HostAt(req[a].at) = Home THEN "apply" ELSE "send")
  <2>1. PICK v : v = m.value
    OBVIOUS
  <2>2. PICK step : step = IF HostAt(req[a].at) = Home THEN "apply" ELSE "send"
    OBVIOUS
  <2>3. /\ v \in Payload /\ Fetched(a, v)
        /\ pc' = [pc EXCEPT ![a] = step] /\ value' = [value EXCEPT ![a] = v]
    BY <1>4, <1>7, <2>1, <2>2 DEF Goto
  <2> QED  BY <1>1, <1>2, <1>5, <2>2, <2>3, RevealOutcome
<1> QED  BY <1>1, <1>6, <1>7

LEMMA TimeOutInv ==
    ASSUME IInv, NEW a \in Calls, TimeOut(a)
    PROVE  IInv'
<1>1. /\ pc[a] \in Waiting /\ net' = WithoutReplies(a)
      /\ UNCHANGED <<held, req, seen, old, todo, cur, tries, txns, audit, edits, faults>>
      /\ Mark(a, IF pc[a] = "await_edit" THEN {cur[a]} ELSE {}, "unsure")
      /\ IF req[a].verb = "rotate" THEN Goto(a, "remotes") /\ UNCHANGED value ELSE Fail(a)
  BY DEF TimeOut, journal, budget
<1>2. /\ cur[a] \in Locs /\ HostAt(cur[a]) # Home
      /\ pc[a] = "await_edit" => req[a].verb \in {"rotate", "copy"}
      /\ pc[a] = "await_reveal" => req[a].verb = "copy"
  BY <1>1, AskedRemote
<1>3. CASE pc[a] = "await_edit"
  <2>1. PICK l \in Locs : l = cur[a] /\ HostAt(l) # Home /\ Mark(a, {l}, "unsure")
    BY <1>1, <1>2, <1>3
  <2>2. PICK step : step = IF req[a].verb = "rotate" THEN "remotes" ELSE "failed"
    OBVIOUS
  <2>3. /\ step \in {"transport_audit", "remotes", "answered", "failed"}
        /\ pc' = [pc EXCEPT ![a] = step]
        /\ req[a].verb = "rotate" => step \in {"transport_audit", "remotes"} /\ UNCHANGED value
        /\ req[a].verb = "copy" => step \in {"answered", "failed"} /\ Drop(a)
    BY <1>1, <2>2 DEF Goto, Fail
  <2>4. PICK o \in {"applied", "refused", "unsure"} :
            o = "unsure" /\ Mark(a, {l}, o) /\ (o = "applied" => Wrote(a, l))
    BY <2>1
  <2> QED  BY <1>1, <1>3, <2>1, <2>3, <2>4, EditOutcome
<1>4. CASE pc[a] = "await_reveal"
  <2>1. Mark(a, {}, "unsure") /\ Fail(a)
    BY <1>1, <1>2, <1>4
  <2>2. TypeOK
    BY DEF IInv
  <2>3. result' \in [Calls -> [Locs -> Outcomes]] /\ \A b \in Calls : result'[b] = result[b]
    BY <2>1, <2>2 DEF TypeOK, Mark
  <2> QED  BY <1>1, <1>4, <2>1, <2>3, RevealOutcome DEF Fail, Goto, Drop
<1> QED  BY <1>1, <1>3, <1>4 DEF Waiting


LEMMA ResendInv ==
    ASSUME IInv, NEW a \in Calls, Resend(a)
    PROVE  IInv'
<1>1. /\ pc[a] \in Waiting /\ tries[a] = 1 /\ Fault
      /\ tries' = [tries EXCEPT ![a] = 2]
      /\ UNCHANGED <<held, req, seen, pc, value, old, todo, cur, result, txns, audit, edits>>
  BY DEF Resend, journal
<1>2. PICK m : /\ net' = WithoutReplies(a) \cup {m}
               /\ m = IF pc[a] = "await_edit" THEN Ask(a, "edit", cur[a], value[a], 2)
                                              ELSE Ask(a, "reveal", cur[a], NoValue, 2)
  BY DEF Resend
<1>3. TypeOK /\ StepOK(a)
  BY DEF IInv, CallOK
<1>4. TypeOK'
  BY <1>1, <1>3 DEF TypeOK, Fault
<1>5. Grows /\ \A b \in Calls : Rests(b)
  BY <1>1 DEF Grows, Rests, Keeps
<1>6. /\ m.type = "ask" /\ m.call = a /\ m.loc = cur[a] /\ m.try = 2
      /\ m.op = (IF pc[a] = "await_edit" THEN "edit" ELSE "reveal")
      /\ pc[a] = "await_edit" => m.value = value[a]
  BY <1>2 DEF Ask
<1>7. MsgOK(m)
  <2>1. cur[a] \in Locs /\ HostAt(cur[a]) # Home
    BY <1>1, AskedRemote
  <2>2. CASE pc[a] = "await_edit"
    <3>1. Sendable(a, value[a])
      BY <1>3, <2>2 DEF StepOK
    <3> QED  BY <1>6, <2>1, <2>2, <3>1 DEF MsgOK
  <2>3. CASE pc[a] = "await_reveal"
    <3>1. req[a].verb = "copy" /\ cur[a] = req[a].from
      BY <1>3, <2>3 DEF StepOK
    <3> QED  BY <1>6, <2>1, <2>3, <3>1 DEF MsgOK
  <2> QED  BY <1>1, <2>2, <2>3 DEF Waiting
<1>8. MsgOK(m)'
  BY <1>1, <1>5, <1>6, <1>7, AskStays DEF Rests
<1>9. \A n \in net' : n = m \/ n \in net
  BY <1>2 DEF WithoutReplies
<1>10. \A t \in txns' : t \in txns
  BY <1>1
<1> QED  BY <1>4, <1>5, <1>8, <1>9, <1>10, CallsRest

-----------------------------------------------------------------------------
(* The peer's side, other writers, and the death of the host.              *)

LEMMA RespondFields ==
    ASSUME NEW m, NEW o, NEW v, Respond(m, o, v)
    PROVE  /\ \A n \in net' : n \in net \/ (Awaited(m) /\ n = Reply(m, o, v))
           /\ LET n == Reply(m, o, v)
              IN  /\ n.type = "reply" /\ n.call = m.call /\ n.op = m.op
                  /\ n.loc = m.loc /\ n.outcome = o /\ n.value = v
BY DEF Respond, Reply

LEMMA PeerEditsInv ==
    ASSUME IInv, NEW m, PeerEdits(m)
    PROVE  IInv'
<1>1. /\ m \in net /\ m.type = "ask" /\ m.op = "edit"
      /\ UNCHANGED <<req, seen, pc, value, old, todo, cur, tries, result, audit, edits, faults>>
  BY DEF PeerEdits, budget
<1>2. TypeOK /\ MsgOK(m)
  BY <1>1 DEF IInv
<1>3. /\ m.call \in Calls /\ m.loc \in Locs /\ HostAt(m.loc) # Home
      /\ pc[m.call] # "idle" /\ Sendable(m.call, m.value)
  BY <1>1, <1>2 DEF MsgOK
<1>4. m.value \in Payload
  BY <1>3 DEF Sendable
<1>5. \A b \in Calls : Rests(b)
  BY <1>1 DEF Rests, Keeps
<1>6. Awaited(m) => pc[m.call] = "await_edit"
  BY <1>1 DEF Awaited
<1>7. CASE Commit(m.call, {m.loc}, m.value, "caller") /\ Respond(m, "applied", NoValue)
  <2>0. PICK b \in Calls, v \in Payload : b = m.call /\ v = m.value
    BY <1>3, <1>4
  <2>1. PICK S, node : S \in SUBSET Locs /\ S = {m.loc} /\ Commit(b, S, v, node)
    BY <1>3, <1>7, <2>0
  <2>2. S \in SUBSET Locs /\ Commit(b, S, v, node)
    BY <2>1
  <2>3. PICK t : /\ txns' = txns \cup {t}
                 /\ t.call = m.call /\ t.value = m.value /\ DOMAIN t.was = S
                 /\ \A k \in S : t.was[k] = held[k] /\ t.was[k] = seen[m.call][k]
    <3>1. PICK t : Commits(t, b, S, v)
      BY <1>2, <2>2, CommitFields
    <3> QED  BY <2>0, <3>1 DEF Commits
  <2>4. held' \in [Locs -> Entry]
    BY <1>2, <2>2, CommitFields
  <2>5. TypeOK' /\ Grows
    BY <1>1, <1>2, <2>3, <2>4 DEF TypeOK, Grows
  <2>6. TxnOK(t)'
    <3>1. Sendable(t.call, t.value)'
      BY <1>1, <1>3, <2>3, <2>5, SendableStays DEF Keeps
    <3>2. t.call \in Calls /\ pc'[t.call] # "idle" /\ DOMAIN t.was \subseteq Locs
      BY <1>1, <1>3, <2>2, <2>3
    <3>3. \A l \in DOMAIN t.was : t.was[l] = seen'[t.call][l]
      BY <1>1, <2>3
    <3> QED  BY <3>1, <3>2, <3>3 DEF TxnOK, Sendable
  <2>7. Wrote(m.call, m.loc)'
    BY <2>1, <2>3 DEF Wrote
  <2>8. Awaited(m) => MsgOK(Reply(m, "applied", NoValue))'
    <3> SUFFICES ASSUME Awaited(m), NEW n, n = Reply(m, "applied", NoValue)
                 PROVE  MsgOK(n)'
      OBVIOUS
    <3>1. /\ n.type = "reply" /\ n.call = m.call /\ n.op = "edit"
          /\ n.loc = m.loc /\ n.outcome = "applied"
      BY <1>1, <1>7, RespondFields
    <3>2. pc'[n.call] = "await_edit"
      BY <1>1, <1>6, <3>1
    <3> QED  BY <1>3, <2>7, <3>1, <3>2 DEF MsgOK, Waiting
  <2>9. \A n \in net' : MsgOK(n)' \/ n \in net
    BY <1>7, <2>8, RespondFields
  <2>10. \A u \in txns' : u \in txns \/
            (TxnOK(u)' /\ \A l \in DOMAIN u.was : HostAt(l) # Home)
    BY <1>3, <2>1, <2>3, <2>6
  <2> QED  BY <1>5, <2>5, <2>9, <2>10, CallsRest
<1>8. CASE Respond(m, "refused", NoValue) /\ UNCHANGED <<held, txns>>
  <2>1. TypeOK' /\ Grows
    BY <1>1, <1>2, <1>8 DEF TypeOK, Grows
  <2>2. Awaited(m) => MsgOK(Reply(m, "refused", NoValue))'
    <3> SUFFICES ASSUME Awaited(m), NEW n, n = Reply(m, "refused", NoValue)
                 PROVE  MsgOK(n)'
      OBVIOUS
    <3>1. /\ n.type = "reply" /\ n.call = m.call /\ n.op = "edit"
          /\ n.loc = m.loc /\ n.outcome = "refused"
      BY <1>1, <1>8, RespondFields
    <3>2. pc'[n.call] = "await_edit"
      BY <1>1, <1>6, <3>1
    <3> QED  BY <1>3, <3>1, <3>2 DEF MsgOK, Waiting
  <2>3. \A n \in net' : MsgOK(n)' \/ n \in net
    BY <1>8, <2>2, RespondFields
  <2>4. \A u \in txns' : u \in txns
    BY <1>8
  <2> QED  BY <1>5, <2>1, <2>3, <2>4, CallsRest
<1> QED  BY <1>7, <1>8 DEF PeerEdits

LEMMA PeerRevealsInv ==
    ASSUME IInv, NEW m, PeerReveals(m)
    PROVE  IInv'
<1>1. /\ m \in net /\ m.type = "ask" /\ m.op = "reveal"
      /\ UNCHANGED <<held, req, seen, pc, value, old, todo, cur, tries, result, txns, edits>>
  BY DEF PeerReveals
<1>2. TypeOK /\ MsgOK(m)
  BY <1>1 DEF IInv
<1>3. /\ m.call \in Calls /\ m.loc \in Locs /\ HostAt(m.loc) # Home
      /\ pc[m.call] # "idle" /\ req[m.call].verb = "copy" /\ m.loc = req[m.call].from
  BY <1>1, <1>2 DEF MsgOK
<1>4. \A b \in Calls : Rests(b)
  BY <1>1 DEF Rests, Keeps
<1>5. Awaited(m) => pc[m.call] = "await_reveal"
  BY <1>1 DEF Awaited
<1>6. \A u \in txns' : u \in txns
  BY <1>1
<1>7. ASSUME NEW o \in {"applied", "refused"}, NEW v, Respond(m, o, v),
             o = "applied" => v \in Payload /\ Fetched(m.call, v)',
             audit \subseteq audit', faults' \in Nat
      PROVE  IInv'
  <2>1. TypeOK' /\ Grows
    BY <1>1, <1>2, <1>7 DEF TypeOK, Grows
  <2>2. Awaited(m) => MsgOK(Reply(m, o, v))'
    <3> SUFFICES ASSUME Awaited(m), NEW n, n = Reply(m, o, v)
                 PROVE  MsgOK(n)'
      OBVIOUS
    <3>1. /\ n.type = "reply" /\ n.call = m.call /\ n.op = "reveal"
          /\ n.loc = m.loc /\ n.outcome = o /\ n.value = v
      BY <1>1, <1>7, RespondFields
    <3>2. pc'[n.call] = "await_reveal" /\ req'[n.call] = req[m.call]
      BY <1>1, <1>5, <3>1
    <3> QED  BY <1>3, <1>7, <3>1, <3>2 DEF MsgOK, Waiting
  <2>3. \A n \in net' : MsgOK(n)' \/ n \in net
    BY <1>7, <2>2, RespondFields
  <2> QED  BY <1>4, <1>6, <2>1, <2>3, CallsRest
<1>8. CASE /\ Revealable(m.call, m.loc)
           /\ audit' = audit \cup
                 {Row(m.call, "transport", m.loc, NoKey, held[m.loc], TRUE)}
           /\ Respond(m, "applied", held[m.loc])
           /\ UNCHANGED faults
  <2>1. PICK v : v = held[m.loc]
    OBVIOUS
  <2>2. v \in Payload
    BY <1>2, <1>3, <1>8, <2>1, PresentPayload DEF Revealable
  <2>3. PICK w \in audit' : /\ w.call = m.call /\ w.disclosed
                            /\ w.loc = m.loc /\ w.new = v
    <3> DEFINE x == Row(m.call, "transport", m.loc, NoKey, v, TRUE)
    <3>1. x \in audit'
      BY <1>8, <2>1
    <3>2. x.call = m.call /\ x.loc = m.loc /\ x.new = v
      BY DEF Row
    <3>3. x.disclosed
      BY DEF Row
    <3> QED  BY <3>1, <3>2, <3>3
  <2>4. Fetched(m.call, v)'
    BY <1>1, <1>3, <1>8, <2>1, <2>3 DEF Fetched, Revealable, DigestHolds
  <2>5. Respond(m, "applied", v) /\ audit \subseteq audit' /\ faults' \in Nat
    BY <1>2, <1>8, <2>1 DEF TypeOK
  <2> QED  BY <1>7, <2>2, <2>4, <2>5
<1>9. CASE Respond(m, "refused", NoValue) /\ UNCHANGED audit /\ faults' \in Nat
  BY <1>7, <1>9
<1>10. \/ Fault /\ Respond(m, "refused", NoValue) /\ UNCHANGED audit
       \/ Respond(m, "refused", NoValue) /\ UNCHANGED <<audit, faults>>
       \/ /\ Revealable(m.call, m.loc)
          /\ audit' = audit \cup
                {Row(m.call, "transport", m.loc, NoKey, held[m.loc], TRUE)}
          /\ Respond(m, "applied", held[m.loc])
          /\ UNCHANGED faults
  BY ZenonT(60) DEF PeerReveals, RevealUnrecorded
<1>11. Fault \/ UNCHANGED faults => faults' \in Nat
  BY <1>2 DEF TypeOK, Fault
<1> QED  BY <1>8, <1>9, <1>10, <1>11

LEMMA OtherEditInv ==
    ASSUME IInv, NEW l \in Locs, OtherEdit(l)
    PROVE  IInv'
<1>1. /\ edits' = edits + 1
      /\ \E e \in {Seed(s) : s \in Seeds} \cup {NoKey} : held' = [held EXCEPT ![l] = e]
      /\ UNCHANGED <<req, seen, pc, value, old, todo, cur, tries, result, net, txns, audit, faults>>
  BY DEF OtherEdit, journal
<1>2. \A s \in Seeds : Seed(s) \in Entry
  BY SecretsAssumption DEF Seed, Entry, Value
<1>3. NoKey \in Entry
  BY DEF Entry
<1>4. TypeOK'
  BY <1>1, <1>2, <1>3 DEF IInv, TypeOK
<1>5. Grows /\ \A b \in Calls : Rests(b)
  BY <1>1 DEF Grows, Rests, Keeps
<1>6. (\A u \in txns' : u \in txns) /\ (\A n \in net' : n \in net)
  BY <1>1
<1> QED  BY <1>4, <1>5, <1>6, CallsRest

LEMMA CrashInv ==
    ASSUME IInv, Crash
    PROVE  IInv'
<1> DEFINE hit == {b \in Calls : pc[b] \notin Ended \cup {"idle"}}
<1>1. /\ Fault
      /\ pc' = [b \in Calls |-> IF b \in hit THEN "lost" ELSE pc[b]]
      /\ value' = [b \in Calls |-> IF b \in hit THEN NoValue ELSE value[b]]
      /\ net' = {m \in net : m.type = "ask"}
      /\ UNCHANGED <<held, req, seen, old, todo, cur, tries, result, txns, audit, edits>>
  BY DEF Crash, journal
<1>2. TypeOK
  BY DEF IInv
<1>3. TypeOK'
  BY <1>1, <1>2 DEF TypeOK, Fault, Steps, Ended
<1>4. Grows /\ \A b \in Calls : Keeps(b) /\ (pc[b] # "idle" => pc'[b] # "idle")
  BY <1>1 DEF Grows, Keeps
<1>5. ASSUME NEW b \in Calls PROVE CallOK(b)'
  <2>1. \A l \in Locs : Wrote(b, l)' <=> Wrote(b, l)
    BY <1>1 DEF Wrote
  <2>2. CASE b \in hit
    <3>1. pc'[b] = "lost" /\ req'[b] = req[b] /\ result'[b] = result[b] /\ pc[b] # "idle"
      BY <1>1, <2>2
    <3>2. StepOK(b) /\ ResultOK(b)
      BY DEF IInv, CallOK
    <3>3. StepOK(b)'
      BY <3>1, <3>2 DEF StepOK, AskedOf, Late, Waiting
    <3>4. ResultOK(b)'
      BY <2>1, <3>1, <3>2 DEF ResultOK, Early, Late
    <3> QED  BY <3>1, <3>3, <3>4 DEF CallOK, RevealOK
  <2>3. CASE b \notin hit
    <3>1. Rests(b)
      BY <1>1, <2>3 DEF Rests, Keeps
    <3> QED  BY <1>4, <2>1, <3>1, CallStays DEF IInv
  <2> QED  BY <2>2, <2>3
<1>6. ASSUME NEW t \in txns' PROVE TxnOK(t)'
  <2>1. TxnOK(t) /\ t.call \in Calls
    BY <1>1 DEF IInv, TxnOK
  <2> QED  BY <1>4, <2>1, TxnStays
<1>7. ASSUME NEW m \in net' PROVE MsgOK(m)'
  <2>1. MsgOK(m) /\ m.call \in Calls /\ m.type = "ask"
    BY <1>1 DEF IInv, MsgOK
  <2> QED  BY <1>4, <2>1, AskStays
<1> QED  BY <1>3, <1>5, <1>6, <1>7 DEF IInv

-----------------------------------------------------------------------------
LEMMA StutterInv == IInv /\ UNCHANGED vars => IInv'
<1> SUFFICES ASSUME IInv, UNCHANGED vars PROVE IInv'
  OBVIOUS
<1>1. UNCHANGED <<held, req, seen, pc, value, old, todo, cur, tries, result, net,
                  txns, audit, edits, faults>>
  BY DEF vars
<1>2. TypeOK'
  BY <1>1 DEF IInv, TypeOK
<1>3. Grows /\ \A b \in Calls : Rests(b)
  BY <1>1 DEF Grows, Rests, Keeps
<1>4. (\A u \in txns' : u \in txns) /\ (\A n \in net' : n \in net)
  BY <1>1
<1> QED  BY <1>2, <1>3, <1>4, CallsRest

LEMMA NextInv == IInv /\ [Next]_vars => IInv'
<1> SUFFICES ASSUME IInv, [Next]_vars PROVE IInv'
  OBVIOUS
<1>1. ASSUME NEW a \in Calls, Begin(a) PROVE IInv'
  BY <1>1, BeginInv
<1>2. ASSUME NEW a \in Calls, CallStep(a) PROVE IInv'
  BY <1>2, LoadRotateInv, LoadGenerateInv, LoadRevealInv, ApplyPrimaryInv,
     AuditOneInv, AuditDoneInv, ApplySiblingInv, AuditSiblingInv, SiblingsDoneInv,
     SendInv, RemotesDoneInv, AuditTransportInv, FetchLocalInv, AuditExitInv,
     ReceiveEditInv, ReceiveRevealInv, TimeOutInv DEF CallStep
<1>3. ASSUME NEW a \in Calls, Resend(a) PROVE IInv'
  BY <1>3, ResendInv
<1>4. ASSUME PeerStep PROVE IInv'
  BY <1>4, PeerEditsInv, PeerRevealsInv DEF PeerStep
<1>5. ASSUME NEW l \in Locs, OtherEdit(l) PROVE IInv'
  BY <1>5, OtherEditInv
<1>6. CASE Crash
  BY <1>6, CrashInv
<1>7. CASE UNCHANGED vars
  BY <1>7, StutterInv
<1> QED  BY <1>1, <1>2, <1>3, <1>4, <1>5, <1>6, <1>7 DEF Next

LEMMA Inductive == Spec => []IInv
<1> QED  BY InitInv, NextInv, PTL DEF Spec

-----------------------------------------------------------------------------
(* Every variable keeps its type.                                          *)
THEOREM TypeCorrect == Spec => []TypeOK
<1>1. IInv => TypeOK
  BY DEF IInv
<1> QED  BY <1>1, Inductive, PTL

(* Whatever is written between a caller's read, the unlocked load and the  *)
(* lock, no transaction replaces an entry its caller had not seen, and     *)
(* generate destroys no value.                                             *)
THEOREM NothingUnseenIsOverwritten == Spec => []NoUnseenOverwrite
<1>1. IInv => NoUnseenOverwrite
  BY DEF IInv, TxnOK, NoUnseenOverwrite
<1> QED  BY <1>1, Inductive, PTL

(* A rotation writes beyond the root of its primary only what its primary  *)
(* transaction has committed and the audit rows of that one record.        *)
THEOREM PrimariesAreFirst == Spec => []PrimaryFirst
<1>1. IInv => PrimaryFirst
  <2> SUFFICES ASSUME IInv, NEW t \in txns, req[t.call].verb = "rotate",
                      ~(DOMAIN t.was \subseteq Group(req[t.call]))
               PROVE  PrimaryDone(t.call, t.value)
    BY DEF PrimaryFirst, PrimaryDone
  <2> QED  BY DEF IInv, TxnOK
<1> QED  BY <1>1, Inductive, PTL

(* What a rotation reports of each target is what happened to it.          *)
THEOREM ReportsTellTheTruth == Spec => []ReportsAreTrue
<1>1. IInv => ReportsAreTrue
  <2> SUFFICES ASSUME IInv, NEW a \in Calls
               PROVE  /\ \A l \in Locs :
                            /\ result[a][l] = "applied" => Wrote(a, l)
                            /\ result[a][l] = "refused" /\ HostAt(l) = Home => ~Wrote(a, l)
                      /\ pc[a] = "answered" /\ req[a].verb = "rotate" =>
                            /\ \A l \in Targets(req[a]) : result[a][l] # "none"
                            /\ \A l \in Group(req[a]) : result[a][l] = "applied"
    BY DEF ReportsAreTrue
  <2>1. ResultOK(a)
    BY DEF IInv, CallOK
  <2> QED  BY <2>1 DEF ResultOK, Targets
<1> QED  BY <1>1, Inductive, PTL

(* No value is handed out by secret_reveal without a row at its source.    *)
THEOREM RevealsAreOnRecord == Spec => []RevealsAreAudited
<1>1. IInv => RevealsAreAudited
  BY DEF IInv, CallOK, RevealOK, TxnOK, Fetched, RevealsAreAudited
<1> QED  BY <1>1, Inductive, PTL

(* A copy that names a digest writes that value or nothing.                *)
THEOREM CopiesAreExact == Spec => []ExactCopy
<1>1. IInv => ExactCopy
  BY DEF IInv, TxnOK, Fetched, ExactCopy
<1> QED  BY <1>1, Inductive, PTL
=============================================================================
