------------------------------ MODULE Corrections ------------------------------
(***************************************************************************)
(* Dataset D3, the human corrections: after a commit to the vault, its hook   *)
(* asks `forge capture` which notes forge generated a human has edited in it,  *)
(* and appends a pair for each to .forge/datasets/d3.jsonl; a person may run   *)
(* the same command by hand.  A sha is the place of its commit in `objects`.   *)
(* The file has one JSON record to the line: a record is told apart by its key, *)
(* a line that does not parse is Bad, and the last line may lack its newline.  *)
(***************************************************************************)
EXTENDS Integers, Sequences, SequencesExt, FiniteSetsExt

CONSTANTS Notes,        \* the notes, each by its place in the order of the paths
          Roots,        \* what the first commit may hold
          Edits(_),     \* what a later commit may make of a tree
          Stamps,       \* [gap, forge]: how much later than its parent a commit may be
                        \* dated, and whether it carries forge's trailer
          Window,       \* D3Window
          Bulky(_),     \* the edited texts that make a line existingKeys cannot take in
          Captures,     \* the processes
          MaxCommits, MaxCaptures, MaxCuts

VARIABLES objects,      \* the commits: [parent, when, forge, tree]
          head,         \* the sha HEAD stands at
          file,         \* d3.jsonl
          wide,         \* the places of its lines that are over 8 MiB
          proc,         \* proc[p]: where each capture stands
          captures, cuts,   \* counters for the bounds
          reported,     \* the keys a capture has counted as captured or already present
          raced         \* the commits two captures were appending at once

history == <<objects, head>>
cvars == <<objects, head, file, wide, proc, captures, cuts, reported, raced>>

ASSUME NotesAssumption == Notes \subseteq Nat /\ IsFiniteSet(Notes)
ASSUME WindowAssumption == Window \in Nat

Bad == <<0, 0>>
NoFile == [lines |-> << >>, open |-> FALSE]
None == [origin |-> "none", words |-> 0, name |-> 0]
GeneratedOrigins == {"ask", "session-capture", "garden"}

Idle == [at |-> "idle", rev |-> 0, sha |-> 0, pairs |-> {}, todo |-> {}, tail |-> "ended", outcome |-> "none"]

CInit ==
    /\ \E tree \in Roots : objects = <<[parent |-> 0, when |-> 0, forge |-> FALSE, tree |-> tree]>>
    /\ head = 1
    /\ file = NoFile /\ wide = {}
    /\ proc = [p \in Captures |-> Idle]
    /\ captures = 0 /\ cuts = 0
    /\ reported = {} /\ raced = {}

-----------------------------------------------------------------------------
(* A file of lines.  encode appends a record and its newline; on a line that  *)
(* another write left open, neither of the two parses any more.              *)
Keep(f, line, open) == [lines |-> Append(IF f.open THEN Front(f.lines) ELSE f.lines, line), open |-> open]

(* Mutant: the record goes out without its newline.                         *)
EncodeBare(f, rec) == Keep(f, IF f.open THEN Bad ELSE rec, TRUE)

Encode(f, rec) == Keep(f, IF f.open THEN Bad ELSE rec, FALSE)

(* What a write that is cut short leaves: nothing, a part of the record, or   *)
(* all of it but the newline.                                                *)
Cut(f, rec) ==
    {f, Keep(f, Bad, TRUE)} \cup (IF f.open THEN {} ELSE {Keep(f, rec, TRUE)})

Held(f) == ToSet(f.lines) \ {Bad}
Parses(f) == Bad \notin ToSet(f.lines)

-----------------------------------------------------------------------------
(* git, and what Capture asks of it.  A rename and a change of mode are one: *)
(* the text stays and something of the file does not.                        *)
TreeOf(sha) == IF sha = 0 THEN [n \in Notes |-> None] ELSE objects[sha].tree

Ancestry(sha) ==
    LET up[s \in 0 .. Len(objects)] == IF s = 0 THEN {} ELSE {s} \cup up[objects[s].parent]
    IN  up[sha]

ModifiedFiles(sha) ==
    LET was == TreeOf(objects[sha].parent)  is == TreeOf(sha)
    IN  {n \in Notes : was[n] # None /\ is[n] # None /\ was[n] # is[n]}

(* log --diff-filter=A -1: the last commit that added the note.             *)
FirstAdded(sha, n) ==
    Max({s \in Ancestry(sha) : TreeOf(objects[s].parent)[n] = None /\ TreeOf(s)[n] # None})

TextOf(note) == [note EXCEPT !.name = 0]

PairFor(sha, n) ==
    LET org == FirstAdded(sha, n)
        generated == TreeOf(org)[n]
    IN  /\ objects[sha].when - objects[org].when \in 0 .. Window
        /\ TextOf(TreeOf(sha)[n]) # TextOf(generated)
        /\ generated.origin \in GeneratedOrigins

Key(sha, n) == <<sha, n>>

(* Written whole, a bulky pair makes the line it lands on too long; written in *)
(* part it may.                                                              *)
Widened(k, f) == wide \cup (IF Bulky(TreeOf(k[1])[k[2]]) THEN {Len(f.lines)} ELSE {})

PairsOf(sha) ==
    IF objects[sha].forge THEN {} ELSE {Key(sha, n) : n \in {m \in ModifiedFiles(sha) : PairFor(sha, m)}}

(* The paths of a commit come in their order, and so do its pairs.           *)
First(keys) == CHOOSE k \in keys : \A l \in keys : k[2] <= l[2]

(* Mutant: the file's keys are not read.                                    *)
ExistingNone(f) == {}

ExistingKeys(f) == Held(f)

-----------------------------------------------------------------------------
(* A commit: an author's, or one that carries forge's trailer.              *)
Grow(parent) ==
    /\ Len(objects) < MaxCommits
    /\ \E tree \in Edits(TreeOf(parent)), stamp \in Stamps :
           objects' = Append(objects, [parent |-> parent, tree |-> tree, forge |-> stamp.forge,
                                       when |-> objects[parent].when + stamp.gap])
    /\ head' = Len(objects')
    /\ UNCHANGED <<file, wide, proc, captures, cuts, reported, raced>>

Commit == Grow(head)

(* commit --amend: the commit stays, under a sha no branch holds.           *)
Amend == objects[head].parent # 0 /\ Grow(objects[head].parent)

Move(p, with) == proc' = [proc EXCEPT ![p] = with]
Other == UNCHANGED <<history, captures, cuts, raced>>

(* rev 0 is HEAD, what the hook asks for; dataset.capture may leave d3 out, *)
(* or the configuration be unreadable, and nothing is captured.             *)
Start(p) ==
    /\ proc[p].at = "idle" /\ captures < MaxCaptures
    /\ captures' = captures + 1
    /\ \/ \E rev \in 0 .. Len(objects) : Move(p, [Idle EXCEPT !.at = "resolve", !.rev = rev])
       \/ Move(p, [Idle EXCEPT !.at = "done", !.outcome = "off"])
    /\ UNCHANGED <<history, file, wide, cuts, reported, raced>>

(* CommitMeta resolves the revision once; what a sha holds never changes.  A   *)
(* pair of which git then fails to tell the origin or a text is left out.      *)
Resolve(p) ==
    /\ proc[p].at = "resolve"
    /\ LET sha == IF proc[p].rev = 0 THEN head ELSE proc[p].rev
       IN  \E pairs \in SUBSET PairsOf(sha) :
               Move(p, [proc[p] EXCEPT !.rev = 0, !.sha = sha, !.pairs = pairs, !.outcome = "ok",
                                       !.at = IF pairs = {} THEN "done" ELSE "read"])
    /\ UNCHANGED <<history, file, wide, captures, cuts, reported, raced>>

(* git fails at the commit itself, or the file cannot be opened or read.     *)
Fault(p) ==
    /\ proc[p].at \in {"resolve", "read"}
    /\ Move(p, [Idle EXCEPT !.at = "done", !.outcome = "failed", !.tail = "fault"])
    /\ UNCHANGED <<history, file, wide, captures, cuts, reported, raced>>

(* Mutant: a line that does not parse fails the capture.                    *)
ScanStrict == Parses(file)

(* existingKeys: a line that does not parse is skipped, and one that does not *)
(* fit in the scanner's buffer fails it, for good.                           *)
Scanned == wide = {}

ReadKeys(p) ==
    /\ proc[p].at = "read"
    /\ LET todo == proc[p].pairs \ ExistingKeys(file)
           at == IF Scanned /\ todo # {} THEN "append" ELSE "done"
           tail == IF wide # {} THEN "wide" ELSE IF file.open THEN "open" ELSE "ended"
       IN  /\ Move(p, [proc[p] EXCEPT !.todo = IF Scanned THEN todo ELSE {}, !.tail = tail, !.at = at,
                                      !.outcome = IF Scanned THEN "ok" ELSE "failed"])
           /\ reported' = IF Scanned /\ todo = {} THEN reported \cup proc[p].pairs ELSE reported
           /\ raced' = raced \cup {q.sha : q \in {proc[o] : o \in {o \in Captures \ {p} :
                                         at = "append" /\ proc[o].at = "append" /\ proc[o].sha = proc[p].sha}}}
    /\ UNCHANGED <<history, file, wide, captures, cuts>>

(* write: one record at a time.  The count is printed once they are synced,  *)
(* which may fail.                                                          *)
AppendOne(p) ==
    /\ proc[p].at = "append"
    /\ file' = Encode(file, First(proc[p].todo))
    /\ wide' = Widened(First(proc[p].todo), file')
    /\ LET rest == proc[p].todo \ {First(proc[p].todo)}
       IN  \/ /\ Move(p, [proc[p] EXCEPT !.todo = rest, !.at = IF rest = {} THEN "done" ELSE "append"])
              /\ reported' = IF rest = {} THEN reported \cup proc[p].pairs ELSE reported
           \/ /\ rest = {}
              /\ Move(p, [proc[p] EXCEPT !.todo = rest, !.at = "done", !.outcome = "failed", !.tail = "fault"])
              /\ reported' = reported
    /\ Other

(* The disk is full, or the process is killed: what it wrote stays.         *)
CutShort(p) ==
    /\ proc[p].at = "append" /\ cuts < MaxCuts
    /\ cuts' = cuts + 1
    /\ file' \in Cut(file, First(proc[p].todo))
    /\ \/ file' = file /\ wide' = wide
       \/ file' = Keep(file, Bad, TRUE) /\ wide' \in {wide, Widened(First(proc[p].todo), file')}
       \/ file' = Keep(file, First(proc[p].todo), TRUE) /\ wide' = Widened(First(proc[p].todo), file')
    /\ proc' = [q \in Captures |->
                   IF q = p THEN [proc[p] EXCEPT !.at = "done", !.outcome = "failed", !.tail = "cut"]
                   ELSE IF proc[q].at = "append" THEN [proc[q] EXCEPT !.tail = "cut"] ELSE proc[q]]
    /\ UNCHANGED <<history, captures, reported, raced>>

End(p) ==
    /\ proc[p].at = "done"
    /\ Move(p, Idle)
    /\ UNCHANGED <<history, file, wide, captures, cuts, reported, raced>>

(* A person deletes the line the error of an export names, the first that    *)
(* does not parse, while no capture writes; an editor ends the last line.     *)
Repair ==
    /\ \A p \in Captures : proc[p].at # "append"
    /\ \E i \in DOMAIN file.lines :
           /\ file.lines[i] = Bad /\ \A j \in 1 .. i - 1 : file.lines[j] # Bad
           /\ file' = [lines |-> RemoveAt(file.lines, i), open |-> FALSE]
           /\ wide' = {IF j < i THEN j ELSE j - 1 : j \in wide \ {i}}
    /\ reported' = reported \cap Held(file')
    /\ UNCHANGED <<history, proc, captures, cuts, raced>>

CNext ==
    \/ Commit \/ Amend \/ Repair
    \/ \E p \in Captures : Start(p) \/ Resolve(p) \/ Fault(p) \/ ReadKeys(p) \/ AppendOne(p) \/ CutShort(p) \/ End(p)

-----------------------------------------------------------------------------
(* "A rerun is a no-op rather than a duplicate" (capture.go), however often,  *)
(* from whichever revision and after whatever failure: a commit's correction  *)
(* is held twice only if two captures of that commit overlapped.             *)
CapturedOnce ==
    \A i, j \in DOMAIN file.lines :
        i # j /\ file.lines[i] = file.lines[j] /\ file.lines[i] # Bad => file.lines[i][1] \in raced

(* A pair that a capture has counted as captured, or as already present, can  *)
(* still be lost: to the record that lands on the line it was left on.  One    *)
(* write cut short loses two such pairs at the most, and none cut loses none.  *)
LossIsBounded == Cardinality(reported \ Held(file)) <= 2 * cuts

(* "A truncated tail must not wedge every future commit" (jsonl.go): a line    *)
(* that does not parse never fails a capture, only git or the disk as it runs,   *)
(* a write cut short, or a line too long for the scanner; and one that met a     *)
(* last line that was ended leaves every pair it made in the file, whatever lies *)
(* before it and whoever else appends.                                         *)
CaptureHeals ==
    \A p \in Captures :
        proc[p].at = "done" /\ proc[p].tail \in {"ended", "open"} =>
            /\ proc[p].outcome # "failed"
            /\ proc[p].tail = "ended" => proc[p].pairs \subseteq Held(file)
=============================================================================
