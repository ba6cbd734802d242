-------------------------------- MODULE Logback --------------------------------
(***************************************************************************)
(* forge logback on one repository (cmd/forge/logback*.go): a block in the   *)
(* CLAUDE.md of the module and, where it is asked for, a marker above every   *)
(* symbol a note cites, placed by the line the symbol has at HEAD in a file   *)
(* its author may be working on; --remove-markers takes the markers away.     *)
(***************************************************************************)
EXTENDS Sentinel

CONSTANTS Sources,     \* what the source file may first be
          Vaults,      \* what the vault may cite: sequences of [note, symbol]
          MaxRuns, MaxEdits, MaxKills

VARIABLES file,        \* file[f]: the lines of the source file and of CLAUDE.md
          head,        \* the lines of the source file at HEAD
          vault,       \* the citations, in the order of the notes
          groups, snap,   \* what a command keeps from its start: the notes cited, and HEAD
          at, op,      \* where the command stands, and what it does
          plan,        \* the markers it has yet to apply: [id, notes, line]
          buffer,      \* the lines it has read and changed
          runs, edits, kills,   \* counters for the bounds
          authored,    \* authored[f]: the lines of code its author wrote
          quiet,       \* the author has done nothing since the command began
          fresh,       \* it began with a committed file without markers
          nested,      \* a marker was put inside another
          torn,        \* a file was lost under a write: killed, or saved meanwhile
          halves       \* how often its author took half a block away

repo == <<file, head, vault>>
seen == <<groups, snap>>
counts == <<runs, edits, kills>>
vars == <<file, head, vault, groups, snap, at, op, plan, buffer, runs, edits, kills, authored, quiet, fresh, nested, torn, halves>>

(* Files are of lines; a source has none of logback's, and is cited by symbol. *)
ASSUME SourcesAssumption ==
    \A s \in Sources : s \in Seq(ToSet(s)) /\ \A i \in DOMAIN s : s[i] \in {Blank, Code(s[i].of)}
ASSUME VaultsAssumption == \A v \in Vaults : v \in Seq(ToSet(v))

Src == "src"
Claude == "CLAUDE.md"
LogbackId == "logback"

(* The lines of code, in their order.                                       *)
Codes(lines) == {i \in DOMAIN lines : lines[i].is = "code"}
ByHand(lines) == [k \in 1 .. Cardinality(Codes(lines)) |-> lines[Ascending(Codes(lines))[k]]]

Init ==
    /\ head \in Sources /\ vault \in Vaults
    /\ \E unsaved \in {<< >>, <<Code("")>>} :      \* a line that is not committed yet
           file = [f \in {Src, Claude} |-> IF f = Src THEN unsaved \o head ELSE <<Code("")>>]
    /\ groups = {} /\ snap = << >>
    /\ at = "idle" /\ op = "write" /\ plan = << >> /\ buffer = << >>
    /\ runs = 0 /\ edits = 0 /\ kills = 0
    /\ authored = [f \in {Src, Claude} |-> ByHand(file[f])]
    /\ quiet = TRUE /\ fresh = TRUE
    /\ nested = FALSE /\ torn = FALSE /\ halves = 0

-----------------------------------------------------------------------------
Declared(s, lines) == \E i \in DOMAIN lines : lines[i] = Code(s)
LineOf(s, lines) == CHOOSE i \in DOMAIN lines : lines[i] = Code(s)
NotesOf(s) == {vault[i].note : i \in {j \in DOMAIN vault : vault[j].symbol = s}}

(* resolveMarkers: one marker for each symbol the lines declare, in the order *)
(* in which the notes first cite them.                                      *)
MarkersIn(lines) ==
    LET firsts == {i \in DOMAIN vault : /\ Declared(vault[i].symbol, lines)
                                        /\ \A j \in 1 .. i - 1 : vault[j].symbol # vault[i].symbol}
    IN  [k \in 1 .. Cardinality(firsts) |->
            LET s == vault[Ascending(firsts)[k]].symbol
            IN  [id |-> s, notes |-> NotesOf(s), line |-> LineOf(s, lines)]]

Markers == MarkersIn(head)

Documented == UNION {NotesOf(vault[i].symbol) : i \in {j \in DOMAIN vault : Declared(vault[j].symbol, head)}}

(* buildGroups reads the vault and the symbols at HEAD, which GitSource keeps *)
(* for the whole of the command.                                            *)
Begin ==
    /\ at = "idle" /\ runs < MaxRuns
    /\ runs' = runs + 1
    /\ op' \in {"write", "remove"}
    /\ at' = IF op' = "write" /\ Documented # {} THEN "fragment" ELSE "resolve"
    /\ groups' = Documented /\ snap' = head
    /\ quiet' = TRUE
    /\ fresh' = (file[Src] = head /\ \A i \in DOMAIN head : head[i].is \in {"code", "blank"})
    /\ UNCHANGED <<repo, plan, buffer, edits, kills, authored, nested, torn, halves>>

(* writeFile: what has not changed is not written.                          *)
Fragment ==
    /\ at = "fragment"
    /\ file' = [file EXCEPT ![Claude] = Upsert(@, LogbackId, groups)]
    /\ at' = "resolve"
    /\ UNCHANGED <<head, vault, seen, op, plan, buffer, counts, authored, quiet, fresh, nested, torn, halves>>

(* applyMarkers reads the citations again, and the symbols as they were.    *)
Resolve ==
    /\ at = "resolve"
    /\ plan' = MarkersIn(snap)
    /\ groups' = {} /\ snap' = << >>
    /\ at' = "read"
    /\ UNCHANGED <<repo, op, buffer, counts, authored, quiet, fresh, nested, torn, halves>>

Apply(lines, m) == IF op = "write" THEN UpsertBefore(lines, m.id, m.notes, m.line) ELSE RemoveMarker(lines, m.id)

(* applyOneMarker reads the file as it is by now, and writes it back.       *)
ReadSource ==
    /\ at = "read" /\ plan # << >>
    /\ buffer' = Apply(file[Src], Head(plan))
    /\ at' = "write"
    /\ UNCHANGED <<repo, seen, op, plan, counts, authored, quiet, fresh, nested, torn, halves>>

(* A block of another symbol begins between the two ends of a block.        *)
Interleaved(lines) ==
    \E b, e \in DOMAIN lines :
        /\ lines[b].is = "begin" /\ lines[e] = EndLine(lines[b].of)
        /\ \E i \in b .. e : lines[i].is = "begin" /\ lines[i].of # lines[b].of

WriteSource ==
    /\ at = "write"
    /\ file' = [file EXCEPT ![Src] = buffer]
    /\ nested' = (nested \/ Interleaved(buffer))
    /\ plan' = Tail(plan) /\ buffer' = << >>
    /\ at' = "read"
    /\ UNCHANGED <<head, vault, seen, op, counts, authored, quiet, fresh, torn, halves>>

Done ==
    /\ at = "read" /\ plan = << >>
    /\ at' = "done"
    /\ UNCHANGED <<repo, seen, op, plan, buffer, counts, authored, quiet, fresh, nested, torn, halves>>

Leave ==
    /\ at = "done"
    /\ at' = "idle"
    /\ UNCHANGED <<repo, seen, op, plan, buffer, counts, authored, quiet, fresh, nested, torn, halves>>

(* Killed: os.WriteFile has emptied the file, or nothing was under way.     *)
Killed ==
    /\ at \notin {"idle", "done"} /\ kills < MaxKills
    /\ kills' = kills + 1
    /\ at' = "idle" /\ plan' = << >> /\ buffer' = << >> /\ groups' = {} /\ snap' = << >>
    /\ \/ UNCHANGED <<file, torn>>
       \/ /\ at = "write" /\ buffer # file[Src]
          /\ file' = [file EXCEPT ![Src] = << >>] /\ torn' = TRUE
    /\ UNCHANGED <<head, vault, op, runs, edits, authored, quiet, fresh, nested, halves>>

-----------------------------------------------------------------------------
(* The author: writes a line, commits, indents the file, takes half a block *)
(* away; cites other symbols.                                               *)
Edit(lines, f) ==
    /\ edits < MaxEdits /\ edits' = edits + 1 /\ quiet' = FALSE
    /\ file' = [file EXCEPT ![f] = lines]
    /\ authored' = [authored EXCEPT ![f] = ByHand(lines)]
    /\ UNCHANGED <<seen, at, op, plan, buffer, runs, kills, fresh, nested>>

AddLine ==
    /\ \E f \in {Src, Claude} : Edit(<<Code("")>> \o file[f], f)
    /\ torn' = (torn \/ at = "write")
    /\ UNCHANGED <<head, vault, halves>>

TakeHalf ==
    /\ at # "write"
    /\ \E i \in DOMAIN file[Src] : file[Src][i].is \in {"begin", "end"} /\ Edit(RemoveAt(file[Src], i), Src)
    /\ halves' = halves + 1
    /\ UNCHANGED <<head, vault, torn>>

Indent ==
    /\ at # "write"
    /\ \E i \in DOMAIN file[Src] : file[Src][i].is # "code"
    /\ Edit([i \in DOMAIN file[Src] |-> IF file[Src][i].is \in {"code", "blank"} THEN file[Src][i]
                                        ELSE Line("comment", file[Src][i].of, file[Src][i].says)], Src)
    /\ UNCHANGED <<head, vault, torn, halves>>

Commit ==
    /\ edits < MaxEdits /\ edits' = edits + 1 /\ quiet' = FALSE
    /\ head' = file[Src]
    /\ UNCHANGED <<file, vault, seen, at, op, plan, buffer, runs, kills, authored, fresh, nested, torn, halves>>

Cite ==
    /\ edits < MaxEdits /\ edits' = edits + 1 /\ quiet' = FALSE
    /\ vault' \in Vaults
    /\ UNCHANGED <<file, head, seen, at, op, plan, buffer, runs, kills, authored, fresh, nested, torn, halves>>

Next ==
    \/ Begin \/ Fragment \/ Resolve \/ ReadSource \/ WriteSource \/ Done \/ Leave \/ Killed
    \/ AddLine \/ TakeHalf \/ Indent \/ Commit \/ Cite

Spec == Init /\ [][Next]_vars

-----------------------------------------------------------------------------
(* "Never touches code semantics" (logback.go:63-64): the lines the author   *)
(* wrote stay, all of them and in their order, unless a file is lost between a *)
(* read and its write: however markers come to stand in each other, and when   *)
(* half of a block is gone too.  Of two halves code can be the body: see       *)
(* HalvesEncloseNothing.                                                     *)
CodeUntouched == ~torn /\ halves <= 1 => \A f \in {Src, Claude} : ByHand(file[f]) = authored[f]

(* Whatever of its blocks an author takes away, no code goes with the rest.  *)
HalvesEncloseNothing == ~torn => \A f \in {Src, Claude} : ByHand(file[f]) = authored[f]

(* The command has ended and nothing else was at work.                      *)
Quiet(does) == at = "done" /\ quiet /\ op = does /\ ~torn /\ halves = 0

(* "Idempotent: a second run with nothing changed" (logback.go:63) leaves    *)
(* both files as the first one left them, where no marker was ever put inside *)
(* another: one that was goes when the outer one is next written.             *)
RerunIsQuiet ==
    Quiet("write") =>
        /\ nested \/ \A m \in ToSet(Markers) : UpsertBefore(file[Src], m.id, m.notes, m.line) = file[Src]
        /\ Documented # {} => Upsert(file[Claude], LogbackId, Documented) = file[Claude]

(* --remove-markers leaves no line of any marker of a symbol the vault cites *)
(* and HEAD declares, in whatever order markers were nested into each other.  *)
MarkersCanGo ==
    Quiet("remove") =>
        \A i \in DOMAIN file[Src] :
            file[Src][i].is \in {"begin", "body", "end"} =>
                \A m \in ToSet(Markers) : m.id # file[Src][i].of

(* The symbol of the first line below a block that is of no block.          *)
Below(lines, e) == {i \in DOMAIN lines : i > e /\ lines[i].is \notin {"begin", "body", "end"}}
Above(s) ==
    /\ Found(file[Src], s)
    /\ LET below == Below(file[Src], EndOf(file[Src], s))
       IN  below # {} /\ file[Src][Min(below)] = Code(s)

(* In a committed file without markers, a marker lands above its symbol where *)
(* the notes cite the symbols from the bottom of the file to its top.         *)
AnchorsFromBelow ==
    LET ms == Markers
    IN  Quiet("write") /\ fresh /\ (\A i, j \in DOMAIN ms : i < j => ms[i].line > ms[j].line) =>
            \A m \in ToSet(ms) : Above(m.id)

(* "A '// forge: [[slug]]' comment above the symbols a note documents"       *)
(* (logback.go:61-62).                                                       *)
MarkersAreAbove == Quiet("write") /\ fresh => \A m \in ToSet(Markers) : Above(m.id)
=============================================================================
