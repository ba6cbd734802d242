--------------------------- MODULE DriftVerdict ---------------------------
(***************************************************************************)
(* The read half of drift (pkg/drift: drift.go, check.go): what one        *)
(* citation of one note is worth against the code as it stands.  A verdict *)
(* is a function of the citation and of two trees, the one at HEAD and the *)
(* one the note was verified against; nothing here reads an earlier run.   *)
(*                                                                         *)
(* A tree maps every file to its content or to Absent.  A content is what  *)
(* codeindex keeps of a source file: a function from the symbols the file  *)
(* declares to their body and line.  A tracked file in which the extractor *)
(* sees no declaration (a Kotlin file, a re-export barrel) has the content *)
(* whose domain is empty.  How a path shorthand is matched is left out: a  *)
(* citation carries the set of files its path can mean, and how many       *)
(* segments of each of them it leaves out.                                 *)
(***************************************************************************)
EXTENDS Integers, FiniteSets

CONSTANTS
    Repos,      \* the code repositories the vault cites
    Files,      \* their source files, numbered in (repository, path) order
    RepoOf,     \* the repository of each file
    BaseOf,     \* the basename of each file
    Absent,     \* what a tree holds for a file it does not have
    Contents,   \* what a file may hold
    Notes,      \* the notes with frontmatter, numbered in path order
    Cites,      \* the citations of each note
    Verified,   \* the notes that carry a `verified` date
    NoSymbol    \* a path citation that names no declaration

FileState == Contents \cup {Absent}
Tree == [Files -> FileState]

(***************************************************************************)
(* A citation: its kind, the files its path can mean and their basename,   *)
(* the path segments of each that it leaves unstated (none count for a     *)
(* bare filename), the symbol it names, the line it recorded (0 for none). *)
(***************************************************************************)
Symbols == UNION {DOMAIN c : c \in Contents}
Ref == [kind : {"path", "symbol"}, files : SUBSET Files, base : {BaseOf[f] : f \in Files},
        extra : [Files -> Nat], symbol : Symbols \cup {NoSymbol}, line : Nat]

ASSUME FilesAssumption ==
    /\ Files \subseteq Nat /\ IsFiniteSet(Files)
    /\ Notes \subseteq Nat
    /\ RepoOf \in [Files -> Repos]
    /\ Absent \notin Contents
    /\ \A n \in Notes : Cites[n] \subseteq Ref
    /\ \A n \in Notes : \A ref \in Cites[n] : ref.kind = "symbol" => ref.symbol # NoSymbol

(***************************************************************************)
(* The cheap gate: what git reports touched, and what of that deleted,     *)
(* between the anchor commit and HEAD.  A full sweep has no gate.          *)
(***************************************************************************)
FullSweep == [full |-> TRUE, touched |-> {}, deleted |-> {}]

GateOf(then, now, repos) ==
    LET moved == {f \in Files : RepoOf[f] \in repos /\ then[f] # now[f]}
    IN  [full |-> FALSE, touched |-> moved, deleted |-> {f \in moved : now[f] = Absent}]

\* The files git lists in a tree of the repositories a run was given.
Tracked(tree, repos) == {f \in Files : RepoOf[f] \in repos /\ tree[f] # Absent}

\* The registry's matches for a path citation, the tightest of them: none, one, or an
\* ambiguity.
Resolve(ref, tree, repos) ==
    LET matching == ref.files \cap Tracked(tree, repos)
    IN  {f \in matching : \A g \in matching : ref.extra[f] <= ref.extra[g]}

\* Whether the symbol table has the file: a file without declarations is not kept.
Indexed(tree, f) == tree[f] # Absent /\ DOMAIN tree[f] # {}

\* Where a symbol is declared, over every repository of the run.
Find(symbol, tree, repos) ==
    {f \in Tracked(tree, repos) : Indexed(tree, f) /\ symbol \in DOMAIN tree[f]}

\* The hit that wins is the first in (repository, path) order.
FirstFile(S) == CHOOSE f \in S : \A g \in S : f <= g

BodyChanged(n, f, symbol, now, base) ==
    /\ n \in Verified
    /\ Indexed(base, f)
    /\ symbol \in DOMAIN base[f]
    /\ base[f][symbol].body # now[f][symbol].body

SymbolVerdict(n, ref, f, now, base) ==
    CASE BodyChanged(n, f, ref.symbol, now, base) -> "suspect"
      [] /\ ~BodyChanged(n, f, ref.symbol, now, base)
         /\ ref.line \notin {0, now[f][ref.symbol].line} -> "repaired"
      [] OTHER -> "ok"

\* Declarations folded into one value: names, bodies and their order, not their lines.
FileHash(c) ==
    [bodies |-> [s \in DOMAIN c |-> c[s].body],
     order  |-> {st \in (DOMAIN c) \X (DOMAIN c) : c[st[1]].line < c[st[2]].line}]

\* Mutant: a changed body of a file demotes.
ChangedFileIsBroken(n, f, now, base) ==
    IF n \in Verified /\ Indexed(base, f) /\ FileHash(base[f]) # FileHash(now[f])
      THEN "broken" ELSE "ok"

CheckFileBody(n, f, now, base) ==
    IF n \in Verified /\ Indexed(base, f) /\ FileHash(base[f]) # FileHash(now[f])
      THEN "suspect" ELSE "ok"

CheckPath(n, ref, f, now, base) ==
    CASE ~Indexed(now, f) -> "broken"
      [] Indexed(now, f) /\ ref.symbol = NoSymbol -> CheckFileBody(n, f, now, base)
      [] Indexed(now, f) /\ ref.symbol # NoSymbol /\ ref.symbol \notin DOMAIN now[f] -> "broken"
      [] OTHER -> SymbolVerdict(n, ref, f, now, base)

CheckSymbolOnly(n, ref, now, base, repos, deep) ==
    LET hits == Find(ref.symbol, now, repos)
    IN  CASE hits # {} -> SymbolVerdict(n, ref, FirstFile(hits), now, base)
          [] /\ hits = {} /\ deep /\ n \in Verified
             /\ Find(ref.symbol, base, repos) # {} -> "broken"
          [] OTHER -> "skipped"

\* The gate reports a deletion of a file with the citation's basename.
DeletedInGate(ref, gate) == \E f \in gate.deleted : BaseOf[f] = ref.base

\* Mutant: the slip the comment of checkUnresolvedPath warns of, SKIPPED for a miss.
UnresolvedPathIsSkipped(n, ref, base, repos, gate, deep) ==
    IF ~gate.full /\ DeletedInGate(ref, gate) THEN "broken" ELSE "skipped"

\* No file matches.  Behind the gate a miss is no finding at all; on a full sweep only the
\* verified-era tree can tell a deleted path from one this machine never had.
CheckUnresolvedPath(n, ref, base, repos, gate, deep) ==
    CASE ~gate.full -> IF DeletedInGate(ref, gate) THEN "broken" ELSE "none"
      [] gate.full -> IF /\ deep /\ n \in Verified
                         /\ Cardinality(Resolve(ref, base, repos)) = 1
                        THEN "broken" ELSE "skipped"

CheckRef(n, ref, now, base, repos, gate, deep) ==
    LET hits == Resolve(ref, now, repos)
    IN  CASE ref.kind = "symbol" -> CheckSymbolOnly(n, ref, now, base, repos, deep)
          [] ref.kind = "path" /\ hits = {} ->
               CheckUnresolvedPath(n, ref, base, repos, gate, deep)
          [] ref.kind = "path" /\ Cardinality(hits) > 1 -> "skipped"
          [] OTHER -> LET f == FirstFile(hits)
                      IN  IF gate.full \/ f \in gate.touched
                            THEN CheckPath(n, ref, f, now, base) ELSE "none"

\* All Apply asks of a note's findings: is there one at all, is one demoting, and does one
\* name a repository (a skipped finding never does).
Outcome(n, now, base, repos, gate, deep) ==
    LET found == {CheckRef(n, ref, now, base, repos, gate, deep) : ref \in Cites[n]}
    IN  CASE "broken" \in found -> "broken"
          [] found \subseteq {"none"} -> "none"
          [] "skipped" \in found /\ found \subseteq {"none", "skipped"} -> "skipped"
          [] OTHER -> "clean"

(***************************************************************************)
(* The reference: the cited code is gone when no file the path can mean is *)
(* in the tree, or the file is there and the symbol is not; a bare symbol  *)
(* is gone when it was declared in the verified tree and is nowhere now.   *)
(***************************************************************************)
RefGone(ref, now, base) ==
    LET hits == Resolve(ref, now, Repos)
    IN  \/ ref.kind = "path" /\ hits = {}
        \/ /\ ref.kind = "path" /\ ref.symbol # NoSymbol
           /\ \A f \in hits : ref.symbol \notin DOMAIN now[f]
        \/ /\ ref.kind = "symbol"
           /\ Find(ref.symbol, now, Repos) = {} /\ Find(ref.symbol, base, Repos) # {}

CodeGone(n, now, base) == \E ref \in Cites[n] : RefGone(ref, now, base)
=============================================================================
