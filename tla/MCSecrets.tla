----------------------------- MODULE MCSecrets ------------------------------
(***************************************************************************)
(* Five keys: a and b in files of one root, s and g in files of another    *)
(* root of the same host, z on a peer; the policy classifies all but g's   *)
(* file.  A rotation of a writes z and every copy it finds on its own      *)
(* host; another rotation, a generate, a reveal and copies out and in run  *)
(* beside it.                                                              *)
(***************************************************************************)
EXTENDS Secrets, TLC

CONSTANTS a, b, s, g, z, r1, r2, q, home, peer, v, klams, skant, c1, c2

MCRootOf == a :> r1 @@ b :> r1 @@ s :> r2 @@ g :> r2 @@ z :> q
MCHostOf == r1 :> home @@ r2 :> home @@ q :> peer
MCTagLength == klams :> 6 @@ skant :> 7
MCTagClasses == [t \in Tags |-> {"lower", "other"}]
MCTagAlphabets == [t \in Tags |-> {"token"}]

Look(classes, provider) ==
    [classes |-> classes, varied |-> TRUE, alphabet |-> "token", provider |-> provider]

(* v is a token minted as prefixed(klams-, hex(64)).                       *)
MCFormOf == v :> [len |-> 70, look |-> Look({"lower", "digit", "other"}, FALSE)]
ASSUME MCFormOf[v] \in MintedForms(Prefixed(klams, Hex(64)))

MCFirst == {[l \in Locs |-> Seed(v)]}

MCDrawn ==
    "hex" :> {Look({"lower", "digit", "other"}, p) : p \in BOOLEAN}
      @@ "base64url" :> {Look(Classes, FALSE)}
      @@ "uuid4" :> {}

RotateAll ==
    [verb |-> "rotate", at |-> a, also |-> {z}, occurrences |-> TRUE, shape |-> NoShape]
Generate(l) == [verb |-> "generate", at |-> l, shape |-> Prefixed(klams, Hex(24))]
Reveal == [verb |-> "reveal", at |-> a, exact |-> TRUE]
CopyOut == [verb |-> "copy", at |-> z, from |-> a, exact |-> TRUE]
CopyIn == [verb |-> "copy", at |-> s, from |-> z, exact |-> FALSE]

RotateOne ==
    [verb |-> "rotate", at |-> a, also |-> {g}, occurrences |-> FALSE,
     shape |-> Prefixed(skant, Hex(24))]

MCRequests ==
    c1 :> {RotateAll}
      @@ c2 :> {RotateOne, Generate(s), Generate(g), Reveal, CopyOut, CopyIn}
=============================================================================
