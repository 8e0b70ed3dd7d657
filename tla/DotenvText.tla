----------------------------- MODULE DotenvText -----------------------------
(***************************************************************************)
(* A dotenv file as its lines (dotenv.rs): what a parse makes of them, the *)
(* redacted and the example renderings, and what each op does to the lines *)
(* around an entry.  EditOps has the same ops on the map of the values.    *)
(*                                                                         *)
(* A value is the sequence of its characters, of which only Special ones   *)
(* and newlines are told apart; a line keeps what is written after the "=" *)
(* (raw), its value is what a parse reads there.  A comment either holds a *)
(* secret-shaped token or not.  A digest is the value it is of.            *)
(***************************************************************************)
EXTENDS Naturals, Sequences, FiniteSets, SequencesExt, FiniteSetsExt

CONSTANTS
    ValidKeys,
    Disclosed    \* the values whose entropy clears the floor

Newline == "\n"
Quotes == {"\"", "'"}
Special == Quotes \cup {" ", "#", "\\"}

NotGiven == [given |-> FALSE]
Given(x) == [given |-> TRUE, is |-> x]

Refused == [refused |-> TRUE]
Done(file) == [refused |-> FALSE, file |-> file]

-----------------------------------------------------------------------------
(* Reading and writing a value.                                            *)

Trimmed(t) ==
    LET solid == {i \in DOMAIN t : t[i] # " "}
    IN IF solid = {} THEN <<>> ELSE SubSeq(t, Min(solid), Max(solid))

StripQuotes(t) ==
    IF Len(t) >= 2 /\ t[1] \in Quotes /\ Last(t) = t[1] THEN SubSeq(t, 2, Len(t) - 1) ELSE t

Escaped(v) ==
    FlattenSeq([i \in DOMAIN v |-> IF v[i] \in {"\\", "\""} THEN <<"\\", v[i]>> ELSE <<v[i]>>])

QuoteForRender(v) ==
    IF Range(v) \cap Special # {} THEN <<"\"">> \o Escaped(v) \o <<"\"">> ELSE v

-----------------------------------------------------------------------------
(* Lines.                                                                  *)

Blank == [kind |-> "blank"]
Comment(text, token) == [kind |-> "comment", text |-> text, token |-> token]
Entry(export, key, raw) == [kind |-> "entry", export |-> export, key |-> key, raw |-> raw]

ValueOf(line) == StripQuotes(Trimmed(line.raw))

(* A file whose last line is empty and not ended is one with an ended line *)
(* less; one of no lines that ends in a newline has a blank one.           *)
Parse(file) ==
    LET n == Len(file.lines)
    IN IF n = 0 THEN IF file.ended THEN [file EXCEPT !.lines = <<Blank>>] ELSE file
       ELSE IF ~file.ended /\ file.lines[n] = Blank
            THEN [lines |-> Front(file.lines), ended |-> n > 1]
       ELSE file

EntriesOf(file) == {i \in DOMAIN file.lines : file.lines[i].kind = "entry"}

KeysOf(file) == [i \in EntriesOf(file) |-> file.lines[i].key]

(* entry_index, get: the first of several entries of one key.              *)
WithKey(file, key) == {i \in EntriesOf(file) : file.lines[i].key = key}
IndexOf(file, key) == Min(WithKey(file, key))

MapOf(file) ==
    [key \in Range(KeysOf(file)) |-> ValueOf(file.lines[IndexOf(file, key)])]

(* The comment lines directly above entry i: its block.                    *)
BlockStart(file, i) ==
    Min({s \in 1 .. i : \A j \in s .. i - 1 : file.lines[j].kind = "comment"})

Block(file, i) == SubSeq(file.lines, BlockStart(file, i), i - 1)

-----------------------------------------------------------------------------
(* Views of a file.  All have a line for each of its lines.                *)

RedactFreeText(line) == [line EXCEPT !.token = FALSE]

Placeholder(key, value) ==
    [kind |-> "placeholder", key |-> key,
     digest |-> IF value \in Disclosed THEN Given(value) ELSE NotGiven]

RedactLine(line) ==
    CASE line.kind = "comment" -> RedactFreeText(line)
      [] line.kind = "entry" /\ ValueOf(line) # <<>> ->
           [kind |-> "sealed", export |-> line.export, seal |-> Placeholder(line.key, ValueOf(line))]
      [] line.kind = "entry" /\ ValueOf(line) = <<>> -> [line EXCEPT !.raw = <<>>]
      [] OTHER -> line

Redact(file) == [i \in DOMAIN file.lines |-> RedactLine(file.lines[i])]

ExampleLine(line) ==
    CASE line.kind = "comment" -> RedactFreeText(line)
      [] line.kind = "entry" -> [line EXCEPT !.raw = <<>>]
      [] OTHER -> line

Example(file) == [file EXCEPT !.lines = [i \in DOMAIN @ |-> ExampleLine(@[i])]]

(* entries: what a redacted read says of each entry.                       *)
Views(file) ==
    [i \in EntriesOf(file) |->
        [key |-> file.lines[i].key,
         placeholder |-> IF ValueOf(file.lines[i]) = <<>> THEN NotGiven
                         ELSE Given(Placeholder(file.lines[i].key, ValueOf(file.lines[i]))),
         comment |-> LET block == Block(file, i)
                     IN [j \in DOMAIN block |-> RedactFreeText(block[j])],
         len |-> Len(ValueOf(file.lines[i]))]]

-----------------------------------------------------------------------------
(* The ops.                                                                *)

Lines(comment) == [i \in DOMAIN comment |-> Comment(comment[i].text, comment[i].token)]

(* The lines from s up to but not i give way to others.                    *)
Splice(lines, s, i, others) ==
    SubSeq(lines, 1, s - 1) \o others \o SubSeq(lines, i, Len(lines))

SetPresent(file, i, value, comment) ==
    LET raw == IF value.given THEN QuoteForRender(value.is) ELSE file.lines[i].raw
        lines == [file.lines EXCEPT ![i].raw = raw]
    IN [file EXCEPT !.lines =
          IF comment.given THEN Splice(lines, BlockStart(file, i), i, Lines(comment.is)) ELSE lines]

AppendEntry(file, key, value, comment) ==
    [lines |-> file.lines \o (IF comment.given THEN Lines(comment.is) ELSE <<>>)
                          \o <<Entry(FALSE, key, QuoteForRender(value))>>,
     ended |-> TRUE]

Set(file, key, value, comment) ==
    IF value.given /\ Newline \in Range(value.is) THEN Refused
    ELSE IF WithKey(file, key) # {}
         THEN Done(SetPresent(file, IndexOf(file, key), value, comment))
    ELSE IF key \notin ValidKeys \/ ~value.given THEN Refused
    ELSE Done(AppendEntry(file, key, value.is, comment))

Rename(file, from, to) ==
    IF to \notin ValidKeys \/ WithKey(file, to) # {} \/ WithKey(file, from) = {} THEN Refused
    ELSE Done([file EXCEPT !.lines[IndexOf(file, from)] =
                 Entry(@.export, to, QuoteForRender(ValueOf(@)))])

Delete(file, key) ==
    IF WithKey(file, key) = {} THEN Refused
    ELSE LET i == IndexOf(file, key)
         IN Done([file EXCEPT !.lines = Splice(@, BlockStart(file, i), i + 1, <<>>)])

(* An entry and its block are a group.  Every other line stays where it is *)
(* and the groups take each other's places.                                *)
Group(file, key) ==
    LET i == IndexOf(file, key) IN SubSeq(file.lines, BlockStart(file, i), i)

Grouped(file) == UNION {BlockStart(file, i) .. i : i \in EntriesOf(file)}

Reorder(file, keys) ==
    LET entries == EntriesOf(file)
        Nth(i) == Cardinality({j \in entries : j <= i})
        Place(i) == IF i \in entries THEN Group(file, keys[Nth(i)])
                    ELSE IF i \in Grouped(file) THEN <<>>
                    ELSE <<file.lines[i]>>
        unique == Cardinality(Range(KeysOf(file))) = Cardinality(entries)
    IN IF unique /\ Len(keys) = Cardinality(entries) /\ Range(keys) = Range(KeysOf(file))
       THEN Done([file EXCEPT !.lines = FlattenSeq([i \in DOMAIN @ |-> Place(i)])])
       ELSE Refused

(* resolve_value: an argument is a literal, a whole placeholder, or text   *)
(* with a placeholder somewhere in it.                                     *)
ResolveValue(file, arg) ==
    CASE arg.kind = "literal" -> Given(arg.is)
      [] arg.kind = "embeds" -> NotGiven
      [] arg.kind = "placeholder" ->
           IF WithKey(file, arg.key) = {} THEN NotGiven
           ELSE LET value == ValueOf(file.lines[IndexOf(file, arg.key)])
                IN IF arg.digest.given /\ arg.digest.is # value THEN NotGiven ELSE Given(value)

(* vanished_values: keys whose value is nowhere in the other file.         *)
VanishedKeys(before, after) ==
    {before.lines[i].key : i \in
        {j \in EntriesOf(before) :
            LET value == ValueOf(before.lines[j])
            IN value # <<>> /\ \A k \in EntriesOf(after) : ValueOf(after.lines[k]) # value}}
=============================================================================
