------------------------------ MODULE MCEditOps -----------------------------
(***************************************************************************)
(* A classified dotenv, its example and a plain file.  k1 holds a secret   *)
(* the journal knows, k2 one it has not seen.                              *)
(***************************************************************************)
EXTENDS EditOps, Sequences, TLC

CONSTANTS env, example, doc, k1, k2, v1, v2, text

Pair(a, b) == (k1 :> a @@ k2 :> b)

Files(a, b, c) == (env :> a @@ example :> b @@ doc :> c)

MCDisks == {
    Files(Pair(v1, v2), Absent, text),
    Files(Pair(v1, NoEntry), Pair(Empty, NoEntry), Absent),
    Files(Absent, text, Pair(NoEntry, v2)),
    Files(text, Absent, Pair(v1, Empty)) }

MCDrafts == {text, Pair(v2, NoEntry)}

MCAcks == {
    NoAck,
    [NoAck EXCEPT !.keys = {k1}],
    [NoAck EXCEPT !.keys = Keys, !.paths = {env}],
    [NoAck EXCEPT !.secrets = {v1}],
    [NoAck EXCEPT !.checks = "flag", !.keys = {k2}] }

-----------------------------------------------------------------------------
(* The ops on lines against the ops on maps above, over every file of up   *)
(* to three lines of these kinds.                                          *)

D == INSTANCE DotenvText WITH ValidKeys <- {"A", "B", "C"}, Disclosed <- {<<"y", "y">>}

Old == D!Comment("old", TRUE)
New == D!Comment("new", FALSE)
Raws == {<<>>, <<"x">>, <<"\"", "y", "y", "\"">>}
LineKinds == {D!Blank, Old} \cup {D!Entry(FALSE, k, raw) : k \in {"A", "B"}, raw \in Raws}

FilesOf(kinds, n) ==
    {file \in [lines : UNION {[1 .. m -> kinds] : m \in 0 .. n}, ended : BOOLEAN] :
        D!Parse(file) = file}

Unique(file) ==
    \A i, j \in D!EntriesOf(file) : file.lines[i].key = file.lines[j].key => i = j

MapAfter(result) == D!MapOf(D!Parse(result.file))

(* The lines of no entry and no block, in order.                           *)
FreeLines(file) ==
    LET free == DOMAIN file.lines \ D!Grouped(file)
        Nth(n) == CHOOSE i \in free : Cardinality({j \in free : j < i}) = n - 1
    IN [n \in 1 .. Cardinality(free) |-> file.lines[Nth(n)]]

GroupsOf(file) == [k \in DOMAIN D!MapOf(file) |-> D!Group(file, k)]

Small == FilesOf(LineKinds, 3)
Comments == {D!NotGiven, D!Given(<<>>), D!Given(<<New>>)}

(* Vanished, for maps whose keys may be missing.                           *)
VanishedOf(old, new) ==
    {k \in DOMAIN old : old[k] # <<>> /\ \A j \in DOMAIN new : new[j] # old[k]}

(* env_set is a change of one value, of none when it gives only a comment; *)
(* it refuses a new key without a value, and leaves other groups alone.    *)
ASSUME SetIsOfOneValue ==
    \A file \in Small : Unique(file) => \A k \in {"A", "C"}, c \in Comments :
      LET set == D!Set(file, k, D!Given(<<"x", " ">>), c)
          commented == D!Set(file, k, D!NotGiven, c)
          map == D!MapOf(file)
      IN /\ MapAfter(set) = (k :> <<"x", " ">>) @@ map
         /\ \A j \in DOMAIN map \ {k} : GroupsOf(set.file)[j] = GroupsOf(file)[j]
         /\ commented.refused <=> k \notin DOMAIN map
         /\ ~commented.refused => MapAfter(commented) = map

(* env_rename moves a value of these kinds, env_delete drops one with its  *)
(* block, and neither touches another group or a free line.                *)
ASSUME OneGroupIsTouched ==
    \A file \in Small : Unique(file) =>
      LET map == D!MapOf(file)
          renamed == D!Rename(file, "A", "C")
          deleted == D!Delete(file, "A")
          rest == DOMAIN map \ {"A"}
          Others(f) == [k \in rest |-> GroupsOf(f)[k]]
      IN IF "A" \notin DOMAIN map THEN renamed.refused /\ deleted.refused
         ELSE /\ MapAfter(renamed) = [k \in rest \cup {"C"} |-> IF k = "C" THEN map["A"] ELSE map[k]]
              /\ MapAfter(deleted) = [k \in rest |-> map[k]]
              /\ Others(renamed.file) = Others(file)
              /\ FreeLines(renamed.file) = FreeLines(file)
              /\ FreeLines(deleted.file) = FreeLines(file)
              /\ VanishedOf(map, [k \in rest |-> map[k]]) = D!VanishedKeys(file, deleted.file)

(* env_reorder takes the groups in the order asked and nothing else: no    *)
(* value, comment or free line is lost, doubled or parted from its place.  *)
ASSUME ReorderMovesGroups ==
    \A file \in FilesOf({D!Blank, Old, D!Entry(FALSE, "A", <<"x">>), D!Entry(TRUE, "B", <<>>)}, 4) :
      \A keys \in {<<"A">>, <<"A", "B">>, <<"B", "A">>} :
        LET moved == D!Reorder(file, keys)
            entries == D!EntriesOf(moved.file)
        IN IF ~Unique(file) \/ D!Range(keys) # DOMAIN D!MapOf(file) THEN moved.refused
           ELSE /\ Cardinality(entries) = Len(keys)
                /\ \A i, j \in DOMAIN keys :
                      i < j => D!IndexOf(moved.file, keys[i]) < D!IndexOf(moved.file, keys[j])
                /\ FreeLines(moved.file) = FreeLines(file)
                /\ Len(moved.file.lines) = Len(file.lines)

(* A redaction and an example have a line for each line, and no value and  *)
(* no token; the digests of a redaction resolve to the values they seal.   *)
ASSUME ViewsDiscloseNothing ==
    \A file \in Small :
      /\ Len(D!Redact(file)) = Len(file.lines) /\ Len(D!Example(file).lines) = Len(file.lines)
      /\ \A line \in D!Range(D!Redact(file)) \cup D!Range(D!Example(file).lines) :
            /\ line.kind = "comment" => ~line.token
            /\ line.kind = "entry" => line.raw = <<>>
      /\ \A view \in D!Range(D!Views(file)) : \A i \in DOMAIN view.comment : ~view.comment[i].token
      /\ Unique(file) => \A view \in D!Range(D!Views(file)) :
            view.placeholder.given =>
              D!ResolveValue(file, view.placeholder.is) = D!Given(D!MapOf(file)[view.key])

(* What is written is read back, except for a value that holds a double    *)
(* quote or a backslash: writing escapes them, reading does not undo it.   *)
Texts == UNION {[1 .. n -> {"x", " ", "#", "'", "\"", "\\"}] : n \in 0 .. 3}
ASSUME OnlyEscapesAreLost ==
    \A v \in Texts :
      (D!StripQuotes(D!Trimmed(D!QuoteForRender(v))) = v)
      <=> D!Range(v) \cap {"\"", "\\"} = {}
=============================================================================
