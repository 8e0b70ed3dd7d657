------------------------------- MODULE Access -------------------------------
(***************************************************************************)
(* Which file a path leads to and whether a call may see it: the jail of a *)
(* root (fsops.rs), the deny list (deny.rs), .kaedignore files, the marker *)
(* in a file and classification (policy.rs), and what the OS refuses       *)
(* (perm.rs).  A path is a sequence of names from "/".  A tree maps the    *)
(* paths that exist to entries:                                            *)
(*   [kind |-> "dir", open]           open: kaed may read and search it    *)
(*   [kind |-> "file", open, holds]   holds: a version, its content's hash *)
(*   [kind |-> "link", to]            to: the path it leads to, link-free  *)
(* A glob is the set of paths it matches; a line is its length and a kind. *)
(***************************************************************************)
EXTENDS Naturals, FiniteSets, Sequences, SequencesExt, FiniteSetsExt

CONSTANTS
    Root,           \* the canonical path of the root
    Slash, Up, Dot, \* of a path given by a caller: a leading "/", "..", "."
    KaedIgnoreName, GitName,
    DenyMatch,      \* the paths a built-in prefix or a deny glob matches
    ClassifyMatch,  \* those a classify glob matches
    GitIgnored,     \* those git ignores
    Contents,       \* version -> [lines, text, dotenv, rules]
    MaxFileBytes,
    SealedBytes     \* the length of a line whose value is a placeholder

Paths == Seq(STRING)
Line == [bytes : Nat \ {0}, kind : {"plain", "hit", "secret", "marker", "sealed"}]
Rule == [negated : BOOLEAN, hits : SUBSET Paths]

ASSUME AccessAssumption ==
    /\ Root \in Paths
    /\ {Slash, Up, Dot} \cap {Root[i] : i \in DOMAIN Root} = {}
    /\ MaxFileBytes \in Nat /\ SealedBytes \in Nat \ {0}
    /\ \A v \in DOMAIN Contents :
          Contents[v] \in [lines : Seq(Line), text : BOOLEAN, dotenv : BOOLEAN, rules : Seq(Rule)]

Entries ==
    [kind : {"dir"}, open : BOOLEAN]
    \cup [kind : {"file"}, open : BOOLEAN, holds : DOMAIN Contents]
    \cup [kind : {"link"}, to : Paths]

(* What is on a disk: "/" is a directory, whatever there is is in a        *)
(* directory, and what a link leads to, if it is there, is no link.        *)
IsTree(fs) ==
    /\ IsFiniteSet(DOMAIN fs) /\ DOMAIN fs \subseteq Paths
    /\ <<>> \in DOMAIN fs /\ fs[<<>>].kind = "dir"
    /\ \A p \in DOMAIN fs :
          /\ fs[p] \in Entries
          /\ \A n \in 0 .. Len(p) - 1 :
                SubSeq(p, 1, n) \in DOMAIN fs /\ fs[SubSeq(p, 1, n)].kind = "dir"
          /\ fs[p].kind = "link" /\ fs[p].to \in DOMAIN fs => fs[fs[p].to].kind # "link"

MarkerLines == 5

Error(code) == [type |-> "error", code |-> code]
At(path) == [type |-> "at", path |-> path]

Under(dir, p) == IsPrefix(dir, p)
Below(dir, p) == IsStrictPrefix(dir, p)

Bytes(lines) == FoldLeft(LAMBDA sum, line : sum + line.bytes, 0, lines)

-----------------------------------------------------------------------------
(* Policy.  The deny list and classification are lexical: a rule on a path *)
(* covers everything beneath it, and nothing is looked up on the disk.     *)

DeniedByServer(p) == \E q \in DenyMatch : Under(q, p)

Classified(p) == \E q \in ClassifyMatch : Under(q, p)

(* Where the names of p lead, links followed.                              *)
Enter(fs, at, name) ==
    LET q == Append(at.path, name)
        end == IF q \in DOMAIN fs /\ fs[q].kind = "link" THEN fs[q].to ELSE q
    IN IF at.type = "error" THEN at
       ELSE IF fs[at.path].kind # "dir" THEN Error("internal")
       ELSE IF ~fs[at.path].open THEN Error("not_readable")
       ELSE IF end \in DOMAIN fs THEN At(end)
       ELSE Error("not_found")

Canonical(fs, p) == FoldLeft(LAMBDA at, name : Enter(fs, at, name), At(<<>>), p)

(* The rules of the .kaedignore in dir, in order; one that cannot be read  *)
(* has none.                                                               *)
RulesOf(fs, at) ==
    IF at.type = "at" /\ fs[at.path].kind = "file" /\ fs[at.path].open
    THEN Contents[fs[at.path].holds].rules
    ELSE <<>>

RulesIn(fs, dir) == RulesOf(fs, Canonical(fs, Append(dir, KaedIgnoreName)))

(* One file's verdict: the last rule that matches p or, failing any, its   *)
(* nearest parent that one matches.  A negation undoes only rules of its   *)
(* own file.                                                               *)
DeniesBy(rules, dir, p) ==
    \E i \in DOMAIN rules : \E q \in rules[i].hits :
       /\ Below(dir, q) /\ Under(q, p)
       /\ ~rules[i].negated
       /\ \A j \in DOMAIN rules : \A r \in rules[j].hits :
             Under(r, p) => Len(r) < Len(q) \/ (r = q /\ j <= i)

KaedIgnored(fs, p) ==
    /\ Below(Root, p)
    /\ Last(p) # KaedIgnoreName
    /\ \E n \in Len(Root) .. Len(p) - 1 :
          LET dir == SubSeq(p, 1, n) IN DeniesBy(RulesIn(fs, dir), dir, p)

Denied(fs, p) == DeniedByServer(p) \/ KaedIgnored(fs, p)

Marked(content) ==
    /\ content.text
    /\ \E i \in DOMAIN content.lines : i <= MarkerLines /\ content.lines[i].kind = "marker"

-----------------------------------------------------------------------------
(* The jail.                                                               *)

Escapes(rel) == \E i \in DOMAIN rel : rel[i] \in {Slash, Up}

Cleaned(rel) ==
    FoldLeft(LAMBDA names, name : IF name = Dot THEN names ELSE Append(names, name), <<>>, rel)

(* The place a name leads to is in the root, and not denied either.        *)
(* Mutant: only the name is looked at.                                     *)
JailedByName(fs, at) ==
    IF at.type = "error" \/ Under(Root, at.path) THEN at ELSE Error("outside_root")
Jailed(fs, at) ==
    IF at.type = "error" THEN at
    ELSE IF ~Under(Root, at.path) THEN Error("outside_root")
    ELSE IF Denied(fs, at.path) THEN Error("refused")
    ELSE at

(* Denied on the name before the disk is touched, and again on the place   *)
(* it leads to.                                                            *)
ResolveExisting(fs, rel) ==
    LET joined == Root \o Cleaned(rel)
    IN IF Escapes(rel) THEN Error("outside_root")
       ELSE IF Denied(fs, joined) THEN Error("refused")
       ELSE Jailed(fs, Canonical(fs, joined))

(* Where a create would put its file: the deepest directory on the way     *)
(* that exists, links followed, and the rest of the names after it.        *)
DeepestExisting(fs, p) ==
    Max({n \in 0 .. Len(p) - 1 : Canonical(fs, SubSeq(p, 1, n)).type = "at"})

Creatable(fs, real, rest) ==
    IF ~Under(Root, real) THEN Error("outside_root")
    ELSE IF Denied(fs, real \o rest) THEN Error("refused")
    ELSE At(real \o rest)

ResolveCreatable(fs, rel) ==
    LET joined == Root \o Cleaned(rel)
        From(n) == Creatable(fs, Canonical(fs, SubSeq(joined, 1, n)).path,
                             SubSeq(joined, n + 1, Len(joined)))
    IN IF Escapes(rel) THEN Error("outside_root")
       ELSE IF joined = Root THEN Error("invalid_input")
       ELSE From(DeepestExisting(fs, joined))

(* stat looks at the entry itself: the parent is resolved, a link at the   *)
(* end is not followed, and it is checked under its own name.              *)
Reaches(fs, p) == \A n \in 0 .. Len(p) - 1 :
    LET q == SubSeq(p, 1, n) IN q \in DOMAIN fs => fs[q].kind = "dir" /\ fs[q].open

StatEntry(fs, p) ==
    IF Denied(fs, p) THEN Error("refused")
    ELSE IF ~Reaches(fs, p) THEN Error("internal")
    ELSE IF p \notin DOMAIN fs THEN Error("not_found")
    ELSE IF fs[p].kind # "file" \/ Bytes(Contents[fs[p].holds].lines) > MaxFileBytes
         THEN [type |-> "stat", path |-> p, kind |-> fs[p].kind, version |-> {}]
    ELSE IF ~fs[p].open THEN Error("internal")
    ELSE [type |-> "stat", path |-> p, kind |-> "file", version |-> {fs[p].holds}]

Stat(fs, rel) ==
    LET names == Cleaned(rel)
        In(parent) == IF parent.type = "error" THEN parent
                      ELSE StatEntry(fs, Append(parent.path, Last(names)))
    IN IF Escapes(rel) THEN Error("outside_root")
       ELSE IF names = <<>> THEN StatEntry(fs, Root)
       ELSE In(ResolveExisting(fs, Front(names)))

-----------------------------------------------------------------------------
(* The content of a file, as far as it is shown.                           *)

(* Line for line with the file: a line with a value is sealed.             *)
Redacted(lines) ==
    [i \in DOMAIN lines |->
        IF lines[i].kind = "secret" THEN [bytes |-> SealedBytes, kind |-> "sealed"]
        ELSE lines[i]]

Rendering(version, redacted) ==
    IF redacted THEN Redacted(Contents[version].lines) ELSE Contents[version].lines

Load(fs, path) ==
    LET file == fs[path]
        content == Contents[file.holds]
        secret == Classified(path)
    IN IF file.kind = "dir" THEN Error("invalid_input")
       ELSE IF Bytes(content.lines) > MaxFileBytes THEN Error("too_large")
       ELSE IF ~file.open THEN Error("not_readable")
       ELSE IF ~content.text THEN Error(IF secret THEN "classified_opaque" ELSE "is_binary")
       ELSE IF Marked(content) THEN Error("refused")
       ELSE IF secret /\ ~content.dotenv THEN Error("classified_opaque")
       ELSE [type |-> "loaded", path |-> path, version |-> file.holds,
             redacted |-> secret, lines |-> Rendering(file.holds, secret)]

LoadText(fs, rel) ==
    LET Loaded(at) == IF at.type = "error" THEN at ELSE Load(fs, at.path)
    IN Loaded(ResolveExisting(fs, rel))
=============================================================================
