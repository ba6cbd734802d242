------------------------- MODULE ConfidenceLedger -------------------------
(***************************************************************************)
(* What drift promises about confidence, with no processes, files or hooks *)
(* in it: a note that breaks is taken down to low once and is owed what it *)
(* held; when it is sound again it is paid back exactly that, and the debt *)
(* is forgotten.  Authors may change a confidence at any moment.           *)
(* (pkg/drift/apply.go's Apply and demotions.go's Store, as their comments *)
(* describe them.)                                                         *)
(***************************************************************************)
EXTENDS Naturals

CONSTANTS Notes, Levels, Low, Blank, None

VARIABLES
    conf,   \* the confidence each note shows
    owed,   \* what a demoted note is owed, None for a note that is not demoted
    edits   \* how often authors have spoken: drift's own moves never count as theirs

ledger == <<conf, owed, edits>>

Init ==
    /\ conf \in [Notes -> Levels \cup {Blank}]
    /\ owed = [n \in Notes |-> None]
    /\ edits = 0

Demote(n) ==
    /\ owed[n] = None
    /\ conf[n] \notin {Low, Blank}
    /\ owed' = [owed EXCEPT ![n] = conf[n]]
    /\ conf' = [conf EXCEPT ![n] = Low]
    /\ UNCHANGED edits

PayBack(n) ==
    /\ owed[n] # None
    /\ conf' = [conf EXCEPT ![n] = owed[n]]
    /\ owed' = [owed EXCEPT ![n] = None]
    /\ UNCHANGED edits

Edit(n) ==
    /\ \E c \in Levels \cup {Blank} : conf' = [conf EXCEPT ![n] = c]
    /\ edits' = edits + 1
    /\ UNCHANGED owed

Next == \E n \in Notes : Demote(n) \/ PayBack(n) \/ Edit(n)

Spec == Init /\ [][Next]_ledger
=============================================================================
