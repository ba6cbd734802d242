----------------------------- MODULE QualityGate -----------------------------
(***************************************************************************)
(* The seven gates forge gate runs over a draft (pkg/qualitygate).  A draft *)
(* is a file of the note contract and a body, reduced to what the gates ask *)
(* of it: its fenced blocks, whether it holds a banned phrase, whether its  *)
(* links resolve, whether a note of its group is its near-duplicate.        *)
(***************************************************************************)
EXTENDS NoteContract, Freshness, FiniteSets

CONSTANTS Bodies,       \* the bodies drafts may have
          Settings,     \* what configuration and machine may be: see RunCode, Strict, Toolchain
          DaysOf,       \* DaysOf[v]: the number v begins with in freshness_days, or 0
          DefaultDays   \* the default window of the types that have one

VARIABLES body,         \* the draft's body
          mode,         \* "create" or "update"
          setting,      \* [strict, runCode, tools]
          report        \* the last Report of Run, or NoReport

gateVars == <<note, fixed, body, mode, setting, report>>

Gates == {"schema", "citation", "code", "freshness", "antislop", "link", "duplicate"}
Demonstrated == {"howto", "api"}     \* the types that need a fenced block
NoReport == [outcomes |-> << >>, quarantine |-> FALSE]

Pass == [verdict |-> "pass", remedy |-> "none"]
Skipped == [verdict |-> "skipped", remedy |-> "none"]
Fail(remedy) == [verdict |-> "fail", remedy |-> remedy]

HasFrontmatter(n) == n.front = "yaml"

-----------------------------------------------------------------------------
(* The gates of the frontmatter *)

SchemaGate(n) == IF Validate(n) = {} THEN Pass ELSE Fail("retry_once")

SourceFloor(type) == IF type \in Types \ Uncited THEN 1 ELSE 0

CitationGate(n) ==
    IF ~setting.strict \/ ~HasFrontmatter(n) \/ SourceFloor(Str(n, "type")) = 0 THEN Skipped
    ELSE IF Len(ListOf(n, "sources")) < SourceFloor(Str(n, "type")) THEN Fail("mark_unverified")
    ELSE Pass

FreshnessDays(n) ==
    LET written == DaysOf[Str(n, "freshness_days")]
    IN  IF written > 0 THEN written
        ELSE IF Str(n, "type") \in DefaultsKnown THEN DefaultDays ELSE 0

(* Mutant: `updated` is asked before `verified`.                           *)
FreshnessGateUpdated(n) ==
    IF FreshnessDays(n) > 0 /\ IsStale(Day(n, "verified"), Day(n, "updated"), FreshnessDays(n))
    THEN Fail("drop_confidence") ELSE Pass

FreshnessGate(n) ==
    IF \/ ~HasFrontmatter(n)
       \/ mode = "create" /\ Day(n, "updated") = Unset /\ Day(n, "verified") = Unset
       \/ FreshnessDays(n) = 0
    THEN Skipped
    ELSE IF IsStale(Day(n, "updated"), Day(n, "verified"), FreshnessDays(n))
    THEN Fail("drop_confidence")
    ELSE Pass

-----------------------------------------------------------------------------
(* The gates of the body *)

(* says: a compiler that is here accepts the block ("ok"), names what it     *)
(* found in it, complains in a line of no code ("prose"), or is killed when  *)
(* its 15 s are over, with nothing named ("killed").                         *)
Compilers == {"bash", "java", "ts"}

(* bash -n resolves nothing, all it says is syntax; classifyJavac reads only *)
(* the lines with "error:"; for tsc a line without a code is kindOther.       *)
Kinds(b) ==
    LET kinds == CASE b.says = "syntax" -> {"syntax"}
                   [] b.says = "unresolved" -> {"unresolved"}
                   [] b.says = "both" -> {"syntax", "unresolved"}
                   [] b.says = "prose" -> IF b.lang = "java" THEN {} ELSE {"other"}
                   [] OTHER -> {}
    IN  IF b.lang = "bash" THEN {"syntax" : k \in kinds} ELSE kinds

VerdictFromDiagnostics(kinds) ==
    IF kinds = {} THEN "pass" ELSE IF kinds = {"unresolved"} THEN "skipped" ELSE "fail"

(* CompileCheck: what has no compiler, or has none here, is not judged.     *)
CompileCheck(b) ==
    IF b.lang \notin Compilers \cap setting.tools THEN "skipped"
    ELSE VerdictFromDiagnostics(Kinds(b))

WorstCodeResult(verdicts) ==
    IF "fail" \in verdicts THEN "fail" ELSE IF "skipped" \in verdicts THEN "skipped" ELSE "pass"

CodeGate ==
    IF setting.runCode # "auto" \/ body.blocks = << >> THEN Skipped
    ELSE CASE WorstCodeResult({CompileCheck(b) : b \in ToSet(body.blocks)}) = "fail" -> Fail("drop_confidence")
           [] WorstCodeResult({CompileCheck(b) : b \in ToSet(body.blocks)}) = "skipped" -> Skipped
           [] OTHER -> Pass

AntislopGate(n) ==
    IF \/ body.banned
       \/ HasFrontmatter(n) /\ Str(n, "type") \in Demonstrated /\ body.blocks = << >>
    THEN Fail("rewrite_pass") ELSE Pass

LinkGate ==
    CASE body.links = "none" -> Skipped
      [] body.links = "resolved" -> Pass
      [] OTHER -> Fail("delegate_to_librarian")

DuplicateGate == IF body.twin THEN Fail("switch_to_update") ELSE Pass

-----------------------------------------------------------------------------
BlocksWrite(remedy) == remedy \notin {"none", "delegate_to_librarian", "switch_to_update"}

Run(n) ==
    LET outcomes == [g \in Gates |->
                        CASE g = "schema" -> SchemaGate(n)
                          [] g = "citation" -> CitationGate(n)
                          [] g = "code" -> CodeGate
                          [] g = "freshness" -> FreshnessGate(n)
                          [] g = "antislop" -> AntislopGate(n)
                          [] g = "link" -> LinkGate
                          [] g = "duplicate" -> DuplicateGate]
    IN  [outcomes |-> outcomes,
         quarantine |-> \E g \in Gates : outcomes[g].verdict = "fail" /\ BlocksWrite(outcomes[g].remedy)]

(* forge gate on the note as it stands, before or after validate --fix.     *)
RunGates ==
    /\ report = NoReport
    /\ report' = Run(note)
    /\ UNCHANGED <<note, fixed, body, mode, setting>>

Rewrite ==
    /\ ContractNext
    /\ report' = NoReport
    /\ UNCHANGED <<body, mode, setting>>

GateNext == RunGates \/ Rewrite

-----------------------------------------------------------------------------
(* "A draft that would recall as stale the moment it lands must not publish  *)
(* as fresh" (freshness.go:14-15).  recall has its window from the row index  *)
(* wrote and the schema (index.go:190, docOf), the gate from the draft: two   *)
(* computations that must agree for every way a draft may be dated, and no     *)
(* draft the gates let through may be stale for recall.                       *)
RecallDays(n) ==
    LET row == IF DaysOf[Str(n, "freshness_days")] > 0 THEN DaysOf[Str(n, "freshness_days")] ELSE 0
    IN  IF row = 0 /\ Str(n, "type") \in DefaultsKnown THEN DefaultDays ELSE row

PublishedRecallsFresh ==
    report # NoReport /\ (~report.quarantine \/ report.outcomes["freshness"].verdict = "pass") =>
        ~IsStale(Day(note, "updated"), Day(note, "verified"), RecallDays(note))

(* "Fail dominates skipped, never the reverse" (compile.go:75-77), across    *)
(* the diagnostics of a block and across the blocks of a note: where code is  *)
(* run at all, one block a compiler here has called malformed holds the note. *)
BrokenCodeHeld ==
    report # NoReport /\ setting.runCode = "auto" =>
        \A i \in DOMAIN body.blocks :
            LET b == body.blocks[i]
            IN  b.lang \in Compilers \cap setting.tools /\ b.says \in {"syntax", "both"} => report.quarantine

(* The citation gate "reports it a second time" (citation.go:20-22): it       *)
(* fails nothing the schema gate has not failed already, though each counts    *)
(* the sources a type owes for itself.                                         *)
CitationOnlyWithSchema ==
    report # NoReport /\ report.outcomes["citation"].verdict = "fail" =>
        report.outcomes["schema"].verdict = "fail"

(* "A gate that cannot judge a note ... is Skipped, not Pass" (gate.go:61).   *)
PassIsJudged ==
    report # NoReport /\ report.outcomes["code"].verdict = "pass" =>
        \A i \in DOMAIN body.blocks : body.blocks[i].says = "ok"
=============================================================================
