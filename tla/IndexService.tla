---------------------------- MODULE IndexService ----------------------------
(***************************************************************************)
(* What pkg/codeindex promises pkg/drift, with no cache in sight: a process *)
(* names a commit and is given the declarations of the files git tracks     *)
(* there, parsed by its own extractor.  While nothing was ever cut short    *)
(* the answer is whole; after that it may lack files.  It is never wrong.   *)
(***************************************************************************)
EXTENDS Functions

CONSTANTS Procs, Commits, None,
          Parses,        \* Parses[p]: p's binary was built with cgo
          Whole(_, _)    \* Whole(p, c): the full build of commit c by p

VARIABLES asked,         \* asked[p]: the commit p wants, or None
          answer,        \* answer[p]: the files it was given, or None
          intact         \* nothing was cut short so far

serviceVars == <<asked, answer, intact>>

ServiceInit ==
    /\ asked = [p \in Procs |-> None]
    /\ answer = [p \in Procs |-> None]
    /\ intact = TRUE

(* A process turns to the index, or turns to it again.                     *)
Ask(p, c) ==
    /\ asked' = [asked EXCEPT ![p] = c]
    /\ answer' = [answer EXCEPT ![p] = None]
    /\ UNCHANGED intact

(* The whole answer, or a part of it where something was cut short, or where *)
(* the binary cannot parse at all.                                           *)
Answer(p) ==
    /\ asked[p] # None
    /\ answer[p] = None
    /\ \E S \in SUBSET DOMAIN Whole(p, asked[p]) :
           /\ answer' = [answer EXCEPT ![p] = Restrict(Whole(p, asked[p]), S)]
           /\ S # DOMAIN Whole(p, asked[p]) => ~Parses[p] \/ ~intact'
    /\ UNCHANGED asked

Leave(p) ==
    /\ asked' = [asked EXCEPT ![p] = None]
    /\ answer' = [answer EXCEPT ![p] = None]
    /\ UNCHANGED intact

ServiceNext ==
    /\ intact' => intact
    /\ \E p \in Procs :
           \/ \E c \in Commits : Ask(p, c)
           \/ Answer(p)
           \/ Leave(p)

ServiceSpec == ServiceInit /\ [][ServiceNext]_serviceVars
=============================================================================
