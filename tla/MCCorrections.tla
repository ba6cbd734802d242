---------------------------- MODULE MCCorrections ----------------------------
(* Two notes of which forge generated one or both; a commit edits, renames,   *)
(* deletes or adds one of them, or edits both, on its day, after the window,    *)
(* or under a clock that runs behind.  A note that a commit adds makes pairs too *)
(* long for the scanner.                                                      *)
EXTENDS DatasetExport

Text(origin, words) == [origin |-> origin, words |-> words, name |-> 0]
Tree(a, b) == [n \in {1, 2} |-> IF n = 1 THEN a ELSE b]

MCNotes == {1, 2}
MCRoots == {Tree(Text("ask", 0), Text("garden", 0)), Tree(Text("ask", 0), None)}

Reword(v) == IF v = None THEN v ELSE [v EXCEPT !.words = 1 - @]
Rename(v) == IF v = None THEN v ELSE [v EXCEPT !.name = 1 - @]
Toggle(v) == IF v = None THEN Text("session-capture", 0) ELSE None

MCEdits(t) ==
    {Tree(Reword(t[1]), Reword(t[2])), Tree(Rename(t[1]), t[2]), Tree(t[1], Toggle(t[2]))} \ {t}

MCBulky(text) == text.origin = "session-capture"

MCStamps ==
    {[gap |-> 1, forge |-> FALSE], [gap |-> 1, forge |-> TRUE], [gap |-> -1, forge |-> FALSE]}

Alike == Permutations(Captures)
=============================================================================
