------------------------------- MODULE MCInbox -------------------------------
(* Drafts: two texts of one note that fail, one that passes, one without a   *)
(* slug, and one of the note a stub proposes.  Two sessions, of which one     *)
(* says a thing twice and the other says it too.                             *)
EXTENDS SharedInbox

Draft(s, b, p) == [slug |-> s, body |-> b, passes |-> p]
MCSlugs == {"note", "stub1", "stub2"}
MCDrafts ==
    {Draft("note", "b1", FALSE), Draft("note", "b2", FALSE), Draft("note", "b3", TRUE),
     Draft("", "b2", FALSE), Draft("stub1", "b1", FALSE)}
(* The processes of one command are alike.                                  *)
Alike == Permutations(GateProcs) \cup Permutations(Hooks)

MCSaid == [s \in Sessions |-> IF s = "s1" THEN <<"c1", "c2", "c1">> ELSE <<"c2">>]
MCStubSlug == [c \in {"c1", "c2"} |-> IF c = "c1" THEN "stub1" ELSE "stub2"]
=============================================================================
