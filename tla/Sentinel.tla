------------------------------- MODULE Sentinel -------------------------------
(***************************************************************************)
(* pkg/sentinel: a managed block inside a file somebody else owns.  A file  *)
(* is the sequence of its lines; a block is a line that begins it, a body,   *)
(* and a line that ends it, found again by their text and nothing else.      *)
(***************************************************************************)
EXTENDS Integers, Sequences, FiniteSets, SequencesExt, FiniteSetsExt

(* A finite set of numbers, from the least up.                              *)
Ascending(S) == [k \in 1 .. Cardinality(S) |-> CHOOSE i \in S : Cardinality({j \in S : j < i}) = k - 1]

Line(is, of, says) == [is |-> is, of |-> of, says |-> says]
Blank == Line("blank", "", {})
Code(of) == Line("code", of, {})             \* a line of the author's; `of` is the symbol it declares, or ""
BeginLine(id) == Line("begin", id, {})
EndLine(id) == Line("end", id, {})

(* renderBlock, with a body of one line: the notes it names.                *)
RenderBlock(id, notes) == <<BeginLine(id), Line("body", id, notes), EndLine(id)>>

Begins(lines, id) == {i \in DOMAIN lines : lines[i] = BeginLine(id)}

(* Where findBlock stops: the first line that ends a block already begun.   *)
Ends(lines, id) ==
    {i \in DOMAIN lines : lines[i] = EndLine(id) /\ \E b \in Begins(lines, id) : b < i}
Found(lines, id) == Ends(lines, id) # {}
EndOf(lines, id) == Min(Ends(lines, id))

(* Mutant: the first line that begins a block counts, not the last.         *)
BeginFirst(lines, id) == Min({b \in Begins(lines, id) : b < EndOf(lines, id)})

BeginOf(lines, id) == Max({b \in Begins(lines, id) : b < EndOf(lines, id)})

Before(lines, i) == SubSeq(lines, 1, i - 1)
After(lines, i) == SubSeq(lines, i + 1, Len(lines))

(* Mutant: a block that is there is left there, and a new one written.      *)
ReplaceNothing(lines, id, block) == Before(lines, BeginOf(lines, id)) \o block \o After(lines, BeginOf(lines, id) - 1)

ReplaceBlock(lines, id, block) ==
    Before(lines, BeginOf(lines, id)) \o block \o After(lines, EndOf(lines, id))

(* appendBlock: at the end, a blank line before it.                         *)
AppendBlock(lines, block) ==
    IF lines = << >> \/ Last(lines) = Blank THEN lines \o block ELSE Append(lines, Blank) \o block

(* Mutant: the anchor is taken for the number of lines before the block.    *)
InsertAfter(lines, block, anchor) ==
    LET i == Max({0, Min({anchor, Len(lines)})})
    IN  SubSeq(lines, 1, i) \o block \o SubSeq(lines, i + 1, Len(lines))

InsertBefore(lines, block, anchor) ==
    LET i == Max({0, Min({anchor - 1, Len(lines)})})
    IN  SubSeq(lines, 1, i) \o block \o SubSeq(lines, i + 1, Len(lines))

Upsert(lines, id, notes) ==
    IF Found(lines, id) THEN ReplaceBlock(lines, id, RenderBlock(id, notes))
    ELSE AppendBlock(lines, RenderBlock(id, notes))

UpsertBefore(lines, id, notes, anchor) ==
    IF Found(lines, id) THEN ReplaceBlock(lines, id, RenderBlock(id, notes))
    ELSE InsertBefore(lines, RenderBlock(id, notes), anchor)

(* Mutant: the line that ends the block stays.                              *)
RemoveBlockOpen(lines, b, e) == Before(lines, b) \o After(lines, e - 1)

(* removeBlock: with a blank line before a block that ends the file.        *)
RemoveBlock(lines, b, e) ==
    LET from == IF e = Len(lines) /\ b > 1 /\ lines[b - 1] = Blank THEN b - 1 ELSE b
    IN  Before(lines, from) \o After(lines, e)

RemoveMarker(lines, id) ==
    IF Found(lines, id) THEN RemoveBlock(lines, BeginOf(lines, id), EndOf(lines, id)) ELSE lines
=============================================================================
