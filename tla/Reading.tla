------------------------------ MODULE Reading ------------------------------
(***************************************************************************)
(* The answers of read, list and search (fsops.rs, search.rs): what part   *)
(* of a file, of a directory or of the matches fits in the budget of a     *)
(* call, what is left out and how the answer says so.                      *)
(***************************************************************************)
EXTENDS Access, Sorting

CONSTANTS
    Rank,           \* the paths that exist somewhere, in their order
    MaxReadBytes,
    PrefixBytes,    \* of the line number before a line of a numbered read
    Far             \* no bound: for the rest of a file, and a walk without depth

ASSUME ReadingAssumption ==
    /\ MaxReadBytes \in Nat /\ PrefixBytes \in Nat /\ Far \in Nat
    /\ \A v \in DOMAIN Contents : Len(Contents[v].lines) <= Far

MaxReadPaths == 32

None == 0

AtMost(n, m) == IF n < m THEN n ELSE m

InOrder(paths) == SortedBy(paths, Rank)

-----------------------------------------------------------------------------
(* Shaped reads.  The pattern an anchor or a search looks for is in the    *)
(* lines of kind "hit" and in the values of those of kind "secret".  An    *)
(* anchor is given with the occurrence meant, or without.                  *)

Whole == [type |-> "whole"]

Modes ==
    {Whole} \cup [type : {"range"}, start : Nat, end : Nat]
    \cup [type : {"line"}, line : Nat, context : Nat]
    \cup [type : {"anchor"}, context : Nat]
    \cup [type : {"occurrence"}, nth : Nat, context : Nat]

Matching(lines) == {i \in DOMAIN lines : lines[i].kind \in {"hit", "secret"}}
Hits(lines) == SortedBy(Matching(lines), [i \in DOMAIN lines |-> i])

Around(line, context, total) ==
    [type |-> "lines",
     start |-> IF line > context + 1 THEN line - context ELSE 1,
     end |-> AtMost(line + context, total)]

(* The lines a mode asks for, or why there are none.                       *)
Asked(lines, mode) ==
    LET total == Len(lines)
        hits == Hits(lines)
        n == Len(hits)
    IN CASE mode.type = "whole" -> [type |-> "lines", start |-> 1, end |-> total]
         [] mode.type = "range" ->
              IF mode.start = 0 \/ mode.end < mode.start \/ mode.start > total
              THEN Error("invalid_input")
              ELSE [type |-> "lines", start |-> mode.start, end |-> AtMost(mode.end, total)]
         [] mode.type = "line" ->
              IF mode.line \notin 1 .. total THEN Error("invalid_input")
              ELSE Around(mode.line, mode.context, total)
         [] mode.type = "anchor" ->
              IF n = 0 THEN Error("anchor_not_found")
              ELSE IF n > 1 THEN Error("ambiguous_anchor")
              ELSE Around(hits[1], mode.context, total)
         [] mode.type = "occurrence" ->
              IF n = 0 THEN Error("anchor_not_found")
              ELSE IF mode.nth \notin 1 .. n THEN Error("invalid_input")
              ELSE Around(hits[mode.nth], mode.context, total)

(* Whole lines while they fit; the first one always, cut where the budget  *)
(* ends.  A page of a file that cannot be continued by line has no next.   *)
PageOf(loaded, start, end, last, budget) ==
    LET lines == loaded.lines
        cut == Bytes(SubSeq(lines, start, last)) > budget
        Served(i) == [line |-> i, kind |-> lines[i].kind,
                      bytes |-> IF cut THEN budget ELSE lines[i].bytes]
    IN [type |-> "page", path |-> loaded.path, version |-> loaded.version,
        redacted |-> loaded.redacted, total |-> Len(lines),
        items |-> [i \in 1 .. last - start + 1 |-> Served(start + i - 1)],
        truncated |-> last < end \/ cut,
        next |-> IF last < end /\ ~cut THEN last + 1 ELSE None]

SliceAsked(loaded, asked, budget) ==
    LET Fits(n) == Bytes(SubSeq(loaded.lines, asked.start, n)) <= budget
        last == Max({asked.start} \cup {n \in asked.start .. asked.end : Fits(n)})
    IN IF asked.type = "error" THEN asked
       ELSE IF loaded.lines = <<>> THEN PageOf(loaded, 1, 0, 0, budget)
       ELSE PageOf(loaded, asked.start, asked.end, last, budget)

Slice(loaded, mode, budget) == SliceAsked(loaded, Asked(loaded.lines, mode), budget)

Read(fs, rel, mode, max) ==
    LET SliceOf(loaded) == IF loaded.type = "error" THEN loaded
                           ELSE Slice(loaded, mode, AtMost(max, MaxReadBytes))
    IN SliceOf(LoadText(fs, rel))

SizeOf(page, numbered) ==
    Bytes(page.items) + IF numbered THEN PrefixBytes * Len(page.items) ELSE 0

(* Several files under one budget, spent in the order asked.               *)
Left(budget, acc) == IF acc.spent < budget THEN budget - acc.spent ELSE 0

ReadNext(fs, numbered, budget, acc, rel) ==
    LET left == Left(budget, acc)
        page == IF left = 0 THEN Error("budget") ELSE Read(fs, rel, Whole, left)
    IN [files |-> Append(acc.files, page),
        spent |-> acc.spent + IF page.type = "page" THEN SizeOf(page, numbered) ELSE 0,
        exhausted |-> acc.exhausted \/ left = 0 \/ (page.type = "page" /\ page.truncated)]

ReadMany(fs, rels, numbered, max) ==
    LET budget == AtMost(max, MaxReadBytes)
        start == [files |-> <<>>, spent |-> 0, exhausted |-> FALSE]
        all == FoldLeft(LAMBDA acc, rel : ReadNext(fs, numbered, budget, acc, rel), start, rels)
    IN IF rels = <<>> \/ Len(rels) > MaxReadPaths THEN Error("invalid_input")
       ELSE [type |-> "files", files |-> all.files, exhausted |-> all.exhausted]

-----------------------------------------------------------------------------
(* Walks.  What policy, git and the OS keep out is not descended into.     *)

Skipped(fs, p, ignored) ==
    Last(p) = GitName \/ (p \in GitIgnored /\ ~ignored) \/ Denied(fs, p)

(* p is met by a walk from base: nothing above it was skipped or closed.   *)
Met(fs, base, depth, ignored, p) ==
    /\ Below(base, p) /\ Len(p) <= Len(base) + depth
    /\ \A n \in Len(base) .. Len(p) - 1 :
          LET q == SubSeq(p, 1, n)
          IN /\ fs[q].kind = "dir" /\ fs[q].open
             /\ n > Len(base) => ~Skipped(fs, q, ignored)

(* denied_hidden.  Mutant: only the server's own list is counted.          *)
DeniedByServerOf(fs, met, ignored) ==
    {p \in met : DeniedByServer(p) /\ Last(p) # GitName /\ (p \in GitIgnored => ignored)}
DeniedOf(fs, met, ignored) ==
    {p \in met : Denied(fs, p) /\ Last(p) # GitName /\ (p \in GitIgnored => ignored)}

WalkOver(fs, base, depth, ignored, met) ==
    LET found == {p \in met : ~Skipped(fs, p, ignored)}
    IN [found |-> found,
        denied |-> Cardinality(DeniedOf(fs, met, ignored)),
        unreadable |-> Cardinality({p \in found : /\ fs[p].kind = "dir" /\ ~fs[p].open
                                                  /\ Len(p) < Len(base) + depth})]

Walk(fs, base, depth, ignored) ==
    WalkOver(fs, base, depth, ignored, {p \in DOMAIN fs : Met(fs, base, depth, ignored, p)})

(* ScopeTally: why nothing was found, when that may be the caller's doing. *)
Explain(candidates, kept, opened, globbed) ==
    CASE candidates = 0 -> "no_files_under_path"
      [] candidates # 0 /\ globbed /\ kept = 0 -> "glob_matched_no_files"
      [] kept # 0 /\ opened = 0 -> "all_files_skipped"
      [] OTHER -> "none"

InGlob(op, p) == ~op.globbed \/ p \in op.glob

(* Offsets of a listing count from 0, the lines of a file from 1.          *)
(* Mutant: a listing is continued as a file is.                            *)
NextEntryFromOne(offset, served) == offset + served + 1
NextEntry(offset, served) == offset + served

ListPage(op, base, walk, kept) ==
    LET page == SubSeq(kept, op.offset + 1, AtMost(op.offset + op.max, Len(kept)))
        truncated == op.offset + Len(page) < Len(kept)
    IN [type |-> "entries", base |-> base, items |-> page,
        truncated |-> truncated,
        next |-> IF truncated THEN NextEntry(op.offset, Len(page)) ELSE None,
        reason |-> IF kept # <<>> THEN "none"
                   ELSE Explain(Cardinality(walk.found), 0, 0, op.globbed),
        denied |-> walk.denied, unreadable |-> walk.unreadable]

List(fs, op) ==
    LET Kept(base, walk) ==
          ListPage(op, base, walk, InOrder({p \in walk.found : InGlob(op, p)}))
        From(at) ==
          IF at.type = "error" THEN at
          ELSE IF fs[at.path].kind # "dir" THEN Error("invalid_input")
          ELSE IF ~fs[at.path].open THEN Error("not_readable")
          ELSE Kept(at.path, Walk(fs, at.path, op.depth, op.ignored))
    IN From(ResolveExisting(fs, op.rel))

-----------------------------------------------------------------------------
(* Search: one file after the other, until the first match past the        *)
(* budget.                                                                 *)

(* What becomes of a file: it is in the scope, and more.                   *)
Pass(acc) == [acc EXCEPT !.kept = @ + 1]
Count(acc, what) == [acc EXCEPT ![what] = @ + 1, !.kept = @ + 1]
Fail(acc) == [acc EXCEPT !.failed = TRUE]
LookInto(acc, hits, over) ==
    [acc EXCEPT !.kept = @ + 1, !.opened = @ + 1, !.hits = @ \o hits, !.truncated = over]

SearchFile(fs, op, addressed, acc, p) ==
    LET file == fs[p]
        content == Contents[file.holds]
        secret == Classified(p)
        lines == Rendering(file.holds, secret)
        hits == Hits(lines)
        room == op.max - Len(acc.hits)
        Hit(i) == [path |-> p, version |-> file.holds, line |-> i, kind |-> lines[i].kind]
    IN IF acc.truncated \/ acc.failed \/ ~InGlob(op, p) THEN acc
       ELSE IF Bytes(content.lines) > MaxFileBytes THEN Pass(acc)
       ELSE IF ~file.open THEN IF addressed THEN Fail(acc) ELSE Count(acc, "unreadable")
       ELSE IF Marked(content) THEN Count(acc, "denied")
       ELSE IF secret /\ ~(content.text /\ content.dotenv) THEN Count(acc, "classified")
       ELSE IF ~content.text THEN Pass(acc)
       ELSE LookInto(acc, [i \in 1 .. AtMost(Len(hits), room) |-> Hit(hits[i])], Len(hits) > room)

SearchOver(fs, op, base, addressed, walk) ==
    LET files == IF addressed THEN {base} ELSE {p \in walk.found : fs[p].kind = "file"}
        start == [hits |-> <<>>, truncated |-> FALSE, failed |-> FALSE,
                  kept |-> 0, opened |-> 0, classified |-> 0,
                  denied |-> walk.denied, unreadable |-> walk.unreadable]
        Answer(end) ==
          IF end.failed THEN Error("not_readable")
          ELSE [type |-> "matches", base |-> base, items |-> end.hits,
                truncated |-> end.truncated,
                reason |-> IF end.hits # <<>> THEN "none"
                           ELSE Explain(Cardinality(files), end.kept, end.opened, op.globbed),
                searched |-> end.opened,
                denied |-> end.denied, unreadable |-> end.unreadable,
                classified |-> end.classified]
    IN Answer(FoldLeft(LAMBDA acc, p : SearchFile(fs, op, addressed, acc, p),
                       start, InOrder(files)))

NoWalk == [found |-> {}, denied |-> 0, unreadable |-> 0]

Search(fs, op) ==
    LET From(at) ==
          IF at.type = "error" THEN at
          ELSE IF fs[at.path].kind = "file" THEN SearchOver(fs, op, at.path, TRUE, NoWalk)
          ELSE IF ~fs[at.path].open THEN Error("not_readable")
          ELSE SearchOver(fs, op, at.path, FALSE, Walk(fs, at.path, Far, FALSE))
    IN From(ResolveExisting(fs, op.rel))

-----------------------------------------------------------------------------
(* What may be asked.                                                      *)
Ops ==
    [tool : {"read"}, rel : Paths, mode : Modes, max : Nat]
    \cup [tool : {"read_many"}, rels : Seq(Paths), numbered : BOOLEAN, max : Nat]
    \cup [tool : {"list"}, rel : Paths, depth : Nat, max : Nat, offset : Nat,
          ignored : BOOLEAN, globbed : BOOLEAN, glob : SUBSET Paths]
    \cup [tool : {"search"}, rel : Paths, max : Nat, globbed : BOOLEAN, glob : SUBSET Paths]
    \cup [tool : {"stat", "create"}, rel : Paths]
=============================================================================
