------------------------------- MODULE Shapes -------------------------------
(***************************************************************************)
(* What a secret value looks like to the code that never shows it: the     *)
(* closed grammar of mintable shapes (shapes.rs) and the entropy floor     *)
(* below which a digest is withheld (secrets.rs).  A value is abstracted   *)
(* to its FORM: its length and its LOOK, which is the character classes in *)
(* it, whether it has five characters that differ, the smallest alphabet   *)
(* the code tests for that has them all, and whether it starts like a      *)
(* provider's token.  Which characters they are is left out.               *)
(***************************************************************************)
EXTENDS Integers

CONSTANTS
    Tags,           \* the fixed prefixes a value may start with
    NoTag,
    TagLength,      \* [Tags -> Nat]
    TagClasses,     \* [Tags -> SUBSET Classes]
    TagAlphabets,   \* [Tags -> SUBSET Alphabets], those of values with the tag
    ProviderTags,   \* tags that start with one of PROVIDER_PREFIXES
    OpenTags,       \* tags a body may complete to one of them ("s", "AK", ...)
    NoShape         \* detection found none, or the caller gave none

Classes == {"lower", "upper", "digit", "other"}

(* "hex" is lowercase, "anyhex" is not; "token" is [A-Za-z0-9_-]; "base64" *)
(* has +, / and = besides.                                                 *)
Alphabets == {"uuid4", "uuid", "hex", "anyhex", "token", "base64", "any"}

ASSUME TagsAssumption ==
    /\ NoTag \notin Tags
    /\ ProviderTags \subseteq Tags /\ OpenTags \subseteq Tags
    /\ TagLength \in [Tags -> Nat]
    /\ TagClasses \in [Tags -> SUBSET Classes]
    /\ TagAlphabets \in [Tags -> SUBSET Alphabets]

Looks ==
    [classes : SUBSET Classes, varied : BOOLEAN, alphabet : Alphabets,
     provider : BOOLEAN]

Forms == [len : Nat, look : Looks]

MinHex == 24
MaxHex == 128
MinBase64 == 16
MaxBase64 == 128
MaxPrefix == 24
UuidLen == 36

Kinds == {"hex", "base64url", "uuid4"}

(* prefixed(tag, inner) does not nest, so a shape is an inner shape and    *)
(* perhaps a tag.                                                          *)
Shape == [kind : Kinds, chars : Nat, tag : Tags \cup {NoTag}]

Hex(n)       == [kind |-> "hex", chars |-> n, tag |-> NoTag]
Base64Url(n) == [kind |-> "base64url", chars |-> n, tag |-> NoTag]
Uuid4        == [kind |-> "uuid4", chars |-> UuidLen, tag |-> NoTag]
Prefixed(t, inner) == [inner EXCEPT !.tag = t]

(* parse_spec: what the grammar admits.                                    *)
InGrammar(s) ==
    /\ s.kind = "hex" => s.chars \in MinHex .. MaxHex
    /\ s.kind = "base64url" => s.chars \in MinBase64 .. MaxBase64
    /\ s.kind = "uuid4" => s.chars = UuidLen
    /\ s.tag # NoTag => TagLength[s.tag] \in 1 .. MaxPrefix

Grammar == {s \in Shape : InGrammar(s)}

MintedLen(s) == s.chars + (IF s.tag = NoTag THEN 0 ELSE TagLength[s.tag])

-----------------------------------------------------------------------------
(* What a value minted for s may look like: its body is random, so it may  *)
(* miss classes of its alphabet, look like another shape, or like a token. *)

BodyClasses(kind) ==
    CASE kind = "hex"       -> (SUBSET {"lower", "digit"}) \ {{}}
      [] kind = "base64url" -> (SUBSET Classes) \ {{}}
      [] kind = "uuid4"     -> {{"digit", "other"}, {"lower", "digit", "other"}}

MintedClasses(s) ==
    {c \cup (IF s.tag = NoTag THEN {} ELSE TagClasses[s.tag]) : c \in BodyClasses(s.kind)}

(* Behind a tag neither a hex nor a uuid4 body makes a uuid: the value is  *)
(* too long for one.                                                       *)
MintedAlphabets(s) ==
    IF s.tag = NoTag
      THEN CASE s.kind = "hex"       -> {"hex"}
             [] s.kind = "base64url" -> {"uuid4", "uuid", "hex", "anyhex", "token"}
             [] s.kind = "uuid4"     -> {"uuid4"}
      ELSE TagAlphabets[s.tag] \cap
           CASE s.kind = "hex"       -> {"hex", "anyhex", "token"}
             [] s.kind = "base64url" -> {"uuid4", "uuid", "hex", "anyhex", "token"}
             [] s.kind = "uuid4"     -> {"token"}

(* The classes of a value of length n of that alphabet.                    *)
Fits(k, n) ==
    CASE k.alphabet = "hex"    -> k.classes \subseteq {"lower", "digit"}
      [] k.alphabet = "anyhex" -> "upper" \in k.classes /\ "other" \notin k.classes
      [] k.alphabet = "uuid4"  -> /\ n = UuidLen /\ {"digit", "other"} \subseteq k.classes
                                  /\ "upper" \notin k.classes
      [] k.alphabet = "uuid"   -> n = UuidLen /\ "other" \in k.classes
      [] OTHER                 -> TRUE

(* A base64url body can begin with a provider's prefix, and a body can     *)
(* complete one its tag begins ("AIz" and a hex body that starts with "a").*)
(* A prefix has upper-case letters, or lower-case ones with "-" or "_".    *)
MintsProvider(s, k) ==
    IF s.tag \in ProviderTags THEN k.provider
    ELSE k.provider =>
            /\ s.tag \in OpenTags \cup {NoTag}
            /\ s.tag = NoTag => s.kind = "base64url"
            /\ k.alphabet = "token"
            /\ "upper" \in k.classes \/ {"lower", "other"} \subseteq k.classes

Mints(s, k) ==
    /\ k.classes \in MintedClasses(s)
    /\ k.alphabet \in MintedAlphabets(s)
    /\ Fits(k, MintedLen(s)) /\ MintsProvider(s, k)

MintedForms(s) ==
    {[len |-> MintedLen(s), look |-> k] : k \in {look \in Looks : Mints(s, look)}}

(* detect: the shape rotate mints again when the caller names none.        *)
Detect(f) ==
    CASE f.look.provider                                        -> NoShape
      [] ~f.look.provider /\ f.look.alphabet = "uuid4"          -> Uuid4
      [] ~f.look.provider /\ f.look.alphabet = "hex"
            /\ f.len \in MinHex .. MaxHex                       -> Hex(f.len)
      [] ~f.look.provider /\ f.len \in MinBase64 .. MaxBase64
            /\ \/ f.look.alphabet \in {"uuid", "anyhex", "token"}
               \/ f.look.alphabet = "hex" /\ f.len \notin MinHex .. MaxHex
                                                          -> Base64Url(f.len)
      [] OTHER                                                  -> NoShape

-----------------------------------------------------------------------------
(* The entropy floor, in thousandths of a bit.  Bits[n] is the largest     *)
(* integer below 1000 * log2(n), for every sum of class sizes there is.    *)
ClassSize == [lower |-> 26, upper |-> 26, digit |-> 10, other |-> 33]

CharsetSize(c) ==
    (IF "lower" \in c THEN ClassSize.lower ELSE 0)
  + (IF "upper" \in c THEN ClassSize.upper ELSE 0)
  + (IF "digit" \in c THEN ClassSize.digit ELSE 0)
  + (IF "other" \in c THEN ClassSize.other ELSE 0)

Bits(n) ==
    CASE n = 10 -> 3321 [] n = 26 -> 4700 [] n = 33 -> 5044 [] n = 36 -> 5169
      [] n = 43 -> 5426 [] n = 52 -> 5700 [] n = 59 -> 5882 [] n = 62 -> 5954
      [] n = 69 -> 6108 [] n = 85 -> 6409 [] n = 95 -> 6569 [] OTHER -> 0

EntropyBits(f) ==
    IF f.look.varied THEN f.len * Bits(CharsetSize(f.look.classes)) ELSE 0

EntropyFloor == 80 * 1000

ClearsFloor(f) == EntropyBits(f) >= EntropyFloor

(* shape_of: the word a redacted read shows for a value.                   *)
ShapeOf(f) ==
    CASE f.len = 0                                              -> "empty"
      [] f.len # 0 /\ f.look.alphabet \in {"uuid4", "uuid"}     -> "uuid"
      [] f.len # 0 /\ f.look.provider                           -> "prefixed"
      [] f.look.alphabet \in {"hex", "anyhex"} /\ f.len >= 16   -> "hex"
      [] f.look.alphabet \in {"token", "base64"} /\ ~f.look.provider
            /\ f.len >= 16                                      -> "base64"
      [] OTHER                                                  -> "text"
=============================================================================
