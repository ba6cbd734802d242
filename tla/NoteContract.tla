---------------------------- MODULE NoteContract ----------------------------
(***************************************************************************)
(* The note contract: what forge validate reports (pkg/vault/validate.go   *)
(* over references/schema.yaml) and what forge validate --fix rewrites      *)
(* (pkg/vault/fix.go).  A value is the class the checks tell apart: a       *)
(* scalar is "good", "bad" or "", a day is a number, Malformed or Unset, a  *)
(* list is a sequence of items.                                             *)
(***************************************************************************)
EXTENDS Integers, Sequences, SequencesExt

CONSTANTS Types,         \* the values of the enum `type`
          Uncited,       \* the types that may cite nothing
          Stacks,        \* the closed vocabulary of stack
          AliasOf,       \* AliasOf[item]: its canonical form (itself, if canonical)
          LowerOf,       \* LowerOf[item]: the item in lower case
          DefaultsKnown, \* the types with a default for freshness_days
          Files          \* the notes somebody may have written

VARIABLES note,          \* a file of the vault
          fixed          \* forge validate --fix was the last to look at it

contractVars == <<note, fixed>>

Unset == 0
Malformed == -1
IsDay(d) == d > 0

DateKeys == {"created", "updated", "verified"}
ItemKeys == {"stack", "tags"}
EmptyLists == {"related", "supersedes", "sources"}
ScalarKeys == {"title", "slug", "type", "depth", "confidence", "forge_version", "freshness_days", "origin"}
Required == DateKeys \cup ItemKeys \cup EmptyLists \cup ScalarKeys
Known == Required \cup {"engine_trail"}

(* SplitFrontmatter: a note has frontmatter ("yaml"), none, or one that does *)
(* not parse.  keys is what was written, inOrder whether in schema order.    *)
Has(n, k) == k \in DOMAIN n.keys
Str(n, k) == IF Has(n, k) THEN n.keys[k] ELSE ""
Day(n, k) == IF Has(n, k) THEN n.keys[k] ELSE Unset
ListOf(n, k) == IF Has(n, k) THEN n.keys[k] ELSE << >>

-----------------------------------------------------------------------------
(* Validate *)

Issue(k, code, fixable) == [key |-> k, code |-> code, fixable |-> fixable]

(* The keys --fix says it can write without guessing.                      *)
Backfillable(n, k) ==
    IF k = "freshness_days"
    THEN Str(n, "type") \in DefaultsKnown
    ELSE k \in DateKeys \cup EmptyLists \cup {"forge_version", "confidence", "depth", "slug", "title"}

Presence(n) ==
    {Issue(k, "missing", Backfillable(n, k)) : k \in {r \in Required : ~Has(n, r)}}
    \cup {Issue(k, "unknown-key", FALSE) : k \in DOMAIN n.keys \ Known}

ScalarIssues(n) ==
    LET written == {k \in ScalarKeys : Has(n, k)}
    IN  {Issue(k, "empty", Backfillable(n, k)) : k \in {w \in written : n.keys[w] = ""}}
        \cup {Issue(k, "bad-format", k = "slug") : k \in {w \in written : n.keys[w] = "bad"}}

DateIssues(n) ==
    LET written == {k \in DateKeys : Has(n, k)}
    IN  {Issue(k, "empty", TRUE) : k \in {w \in written : n.keys[w] = Unset}}
        \cup {Issue(k, "bad-date", TRUE) : k \in {w \in written : n.keys[w] = Malformed}}
        \cup {Issue(k, "date-order", TRUE) :
                 k \in {w \in written \ {"created"} :
                           /\ IsDay(Day(n, "created")) /\ IsDay(n.keys[w])
                           /\ n.keys[w] < Day(n, "created")}}

(* checkItem stops at the first thing wrong with an item.                  *)
ItemIssue(k, it) ==
    CASE AliasOf[it] # it -> {Issue(k, "alias", TRUE)}
      [] AliasOf[it] = it /\ LowerOf[it] # it -> {Issue(k, "not-lowercase", TRUE)}
      [] OTHER -> IF k = "stack" /\ it \notin Stacks THEN {Issue(k, "not-in-vocabulary", FALSE)} ELSE {}

ListIssues(n) ==
    UNION {UNION {ItemIssue(k, it) : it \in ToSet(ListOf(n, k))}
           \cup (IF Has(n, k) /\ n.keys[k] = << >> THEN {Issue(k, "too-few", FALSE)} ELSE {}) : k \in ItemKeys}

SourceIssues(n) ==
    (IF "bad" \in ToSet(ListOf(n, "sources")) THEN {Issue("sources", "bad-item", FALSE)} ELSE {})
    \cup (IF Str(n, "type") \in Types \ Uncited /\ ListOf(n, "sources") = << >>
          THEN {Issue("sources", "uncited", FALSE)} ELSE {})

TrailIssues(n) == IF Str(n, "engine_trail") = "bad" THEN {Issue("engine_trail", "engine-invariant", FALSE)} ELSE {}

Validate(n) ==
    CASE n.front = "none" -> {Issue("", "no-frontmatter", TRUE)}
      [] n.front = "unparsable" -> {Issue("", "bad-yaml", FALSE)}
      [] OTHER -> Presence(n) \cup ScalarIssues(n) \cup DateIssues(n) \cup ListIssues(n)
                  \cup SourceIssues(n) \cup TrailIssues(n)
                  \cup (IF n.inOrder THEN {} ELSE {Issue("", "key-order", TRUE)})

-----------------------------------------------------------------------------
(* Fix *)

Put(n, k, v) == [n EXCEPT !.keys = [j \in DOMAIN n.keys \cup {k} |-> IF j = k THEN v ELSE n.keys[j]]]

(* Mutant: an alias is looked up before the item is lowered.               *)
CanonicalFirst(s) == [i \in DOMAIN s |-> LowerOf[AliasOf[s[i]]]]

(* canonicalizeItems: lower case, aliases resolved, repetitions dropped.   *)
Canonicalized(s) == [i \in DOMAIN s |-> AliasOf[LowerOf[s[i]]]]
Distinct(s) == FoldSeq(LAMBDA it, acc : IF it \in ToSet(acc) THEN acc ELSE Append(acc, it), << >>, s)

NormalizeLists(n) ==
    [n EXCEPT !.keys = [k \in DOMAIN n.keys |->
        IF k \in ItemKeys THEN Distinct(Canonicalized(n.keys[k])) ELSE n.keys[k]]]

(* The stamp is the day the v1 key `date` names, or else the file's mtime.  *)
BackfillDates(n) ==
    LET stamp == IF IsDay(Day(n, "date")) THEN n.keys["date"] ELSE n.mtime
    IN  [n EXCEPT !.keys = [k \in DOMAIN n.keys \cup DateKeys |->
            IF k \in DateKeys /\ ~IsDay(Day(n, k)) THEN stamp ELSE n.keys[k]]]

Carries(n) == Str(n, "source") # "" /\ ListOf(n, "sources") = << >>

(* carryLegacySource: the v1 `source` becomes the one entry of sources.    *)
CarryLegacySource(n) == IF Carries(n) THEN Put(n, "sources", <<"good">>) ELSE n

Default(n, k, v) == IF Str(n, k) = "" THEN Put(n, k, v) ELSE n

(* Slug of a title: a title of letters foldRunes does not know has none.   *)
SlugOf(title) == IF title = "foreign" THEN "" ELSE "good"

Title(n) == IF Str(n, "title") # "" THEN n.keys["title"] ELSE n.heading

BackfillDefaults(n) ==
    LET lists == [n EXCEPT !.keys = [k \in DOMAIN n.keys \cup EmptyLists |->
                                        IF k \in DOMAIN n.keys THEN n.keys[k] ELSE << >>]]
        plain == Default(Default(Default(lists, "forge_version", "good"), "confidence", "good"), "depth", "good")
        fresh == IF Str(n, "type") \in DefaultsKnown /\ ~Has(n, "freshness_days")
                 THEN Put(plain, "freshness_days", "good") ELSE plain
    IN  Default(Default(fresh, "title", Title(n)), "slug", SlugOf(Title(n)))

(* Mutant: render writes the keys as it finds them.                        *)
RenderAll(n) == [n EXCEPT !.front = "yaml"]

(* render drops the keys the schema does not know and orders the others.   *)
Render(n) ==
    [n EXCEPT !.front = "yaml", !.inOrder = TRUE,
              !.keys = [k \in DOMAIN n.keys \cap Known |-> n.keys[k]]]

Filled(n) == CarryLegacySource(BackfillDates(NormalizeLists(n)))

Fix(n) == Render(BackfillDefaults(Filled(n)))

(* What applyAll reports; a repetition it drops is not among it.           *)
Changes(n) ==
    \/ \E k \in ItemKeys : Has(n, k) /\ Canonicalized(n.keys[k]) # n.keys[k]
    \/ \E k \in DateKeys : ~IsDay(Day(n, k))
    \/ Carries(n)
    \/ ~(EmptyLists \subseteq DOMAIN n.keys)
    \/ \E k \in {"forge_version", "confidence", "depth", "title", "slug"} : Str(n, k) = ""
    \/ Str(n, "type") \in DefaultsKnown /\ ~Has(n, "freshness_days")
    \/ ~n.inOrder \/ ~(DOMAIN n.keys \subseteq Known)

-----------------------------------------------------------------------------
ContractInit == note \in Files /\ fixed = FALSE

(* forge validate --fix: a file is written when Fix has something to report. *)
ValidateFix ==
    /\ ~fixed
    /\ note' = IF note.front # "unparsable" /\ Changes(note) THEN Fix(note) ELSE note
    /\ fixed' = TRUE

(* A later run: the note is as the last one left it, its mtime is today.   *)
ComeBack ==
    /\ fixed
    /\ fixed' = FALSE
    /\ note' = [note EXCEPT !.mtime = 3]

ContractNext == ValidateFix \/ ComeBack

-----------------------------------------------------------------------------
(* What Validate marks [--fix], Fix repairs (validate.go:17-19), but for the *)
(* four it cannot: a day before `created`, a slug of the wrong form, a        *)
(* freshness_days left blank, and the slug of a title without any.            *)
FixRepairs ==
    fixed => \A i \in Validate(note) :
                 i.fixable => \/ i.code = "date-order"
                              \/ i.key = "slug"
                              \/ i.key = "freshness_days" /\ i.code = "empty"

(* "Fixable marks the ones forge validate --fix can repair mechanically"   *)
(* (validate.go:17-18).                                                    *)
FixDelivers == fixed => \A i \in Validate(note) : ~i.fixable

(* A fixed note is fixed: the second run finds nothing to do and writes no  *)
(* file, "a clean run leaves every mtime untouched" (cmd/forge/validate.go:  *)
(* applyFix), wherever the title has a slug.                                 *)
FixIsIdempotent ==
    fixed /\ note.front = "yaml" /\ SlugOf(Title(note)) # "" => ~Changes(note)

(* "Fix does not invent meaning" (fix.go:19): what was sound in a note stays *)
(* as it was, type, stack and tags never appear from nowhere, a citation is   *)
(* never lost, and no key is blamed that was not blamed before, but for the   *)
(* order of days.                                                             *)
FixInventsNothing ==
    [][ValidateFix =>
        LET blamed(n) == {i.key : i \in {j \in Validate(n) : j.code # "date-order"}}
        IN  /\ {"type", "stack", "tags", "origin"} \cap DOMAIN note'.keys
                   = {"type", "stack", "tags", "origin"} \cap DOMAIN note.keys
            /\ \A k \in (Known \cap DOMAIN note.keys) \ (blamed(note) \cup ItemKeys \cup {"sources"}) :
                   note'.keys[k] = note.keys[k]
            /\ ListOf(note, "sources") # << >> => note'.keys["sources"] = note.keys["sources"]
            /\ Str(note, "source") # "" /\ note.front = "yaml" => ListOf(note', "sources") # << >>
            /\ note.front = "yaml" => blamed(note') \subseteq blamed(note)]_contractVars
=============================================================================
