----------------------------- MODULE DotenvEdits ----------------------------
(***************************************************************************)
(* One dotenv file under a sequence of env ops, each of which parses the   *)
(* text the last one rendered (txn::apply_inner).                          *)
(***************************************************************************)
EXTENDS DotenvText

CONSTANTS
    Starts,     \* the files there may be, none with two entries of a key
    Args,       \* the values callers pass
    MaxOps

VARIABLES
    file,
    values,     \* history: what the ops say each key holds
    ops

vars == <<file, values, ops>>

Init == /\ file \in Starts
        /\ values = MapOf(file)
        /\ ops = 0

(* An op that is refused changes nothing, and refuses the call.            *)
Edited(result, said) ==
    /\ ops < MaxOps
    /\ ~result.refused
    /\ file' = Parse(result.file)
    /\ values' = said
    /\ ops' = ops + 1

EnvSet(key, value, comment) ==
    Edited(Set(file, key, value, comment),
           [k \in DOMAIN values \cup {key} |->
               IF k = key /\ value.given THEN value.is ELSE values[k]])

EnvRename(from, to) ==
    Edited(Rename(file, from, to),
           [k \in (DOMAIN values \ {from}) \cup {to} |->
               IF k = to THEN values[from] ELSE values[k]])

EnvDelete(key) == Edited(Delete(file, key), [k \in DOMAIN values \ {key} |-> values[k]])

EnvReorder(keys) == Edited(Reorder(file, keys), values)

Next ==
    \/ \E key \in ValidKeys :
         \/ \E value \in {NotGiven} \cup {Given(v) : v \in Args},
                comment \in {NotGiven, Given(<<>>)} : EnvSet(key, value, comment)
         \/ \E to \in ValidKeys : EnvRename(key, to)
         \/ EnvDelete(key)
    \/ \E keys \in SetToSeqs(DOMAIN values) : EnvReorder(keys)

Spec == Init /\ [][Next]_vars

-----------------------------------------------------------------------------
(* What the documentation says and the code does not do.                   *)

(* dotenv.rs:365: "the value rides along unchanged, so its digest - and    *)
(* any placeholder equality - survives the rename".  render_entry escapes  *)
(* double quotes and backslashes, strip_quotes keeps the escapes.          *)
ValuesRideAlong == MapOf(file) = values
=============================================================================
