------------------------------- MODULE GateRun -------------------------------
(***************************************************************************)
(* forge gate (cmd/forge/gate.go) after its seven gates: a failing draft    *)
(* goes to _inbox/ and a copy of its body to .forge/drafts/, a passing one   *)
(* consumes the copy of the draft it repairs (pkg/dataset/d4_drafts.go), and *)
(* either leaves records in the datasets D1, D4 and D5.  A draft says which  *)
(* verdict it gets.                                                         *)
(***************************************************************************)
EXTENDS Inbox, Sequences, SequencesExt

CONSTANTS Drafts,      \* [slug, body, passes]; a slug may be NoSlug
          NoSlug,
          GateProcs,
          RunIds,      \* the run_ids of earlier recalls
          Capture,     \* the tiers dataset.capture names
          MaxGates, MaxFaults

VARIABLES drafts,      \* drafts[p]: the files p.md (a body) and p.md.err (a draft's failures),
                       \* and the gates that have the file now of either name open
          d1, d4, d5,  \* the datasets: sequences of records
          gpc, gjob,   \* the processes and their local variables
          handed,      \* the paths forge gate has printed
          gates, faults,   \* counters for the bounds
          owed,        \* drafts whose failing text must still be found: a completed copy,
                       \* neither taken nor opened for writing since
          saves,       \* saves[b]: how often a copy of body b was completed
          last,        \* last[r]: the gates' verdict on the last draft of r there is a note of
          spoiled      \* run ids and bodies whose processes overlapped or met a fault that
                       \* cut a file short or left one that was to go

gateData == <<drafts, d1, d4, d5>>
ghosts == <<owed, saves, last, spoiled>>
gateVars == <<drafts, d1, d4, d5, gpc, gjob, handed, gates, faults, owed, saves, last, spoiled>>

None == "none"

(* A run_id is never empty where one is given.                             *)
ASSUME RunAssumption == None \notin RunIds

NoDraft == [slug |-> "none", body |-> None, passes |-> FALSE]

(* What os.WriteFile has opened and not yet written, or not all of it.       *)
Cut == "cut"
CutDraft == [slug |-> "cut", body |-> Cut, passes |-> FALSE]
NoPath == <<None, None>>
Decision(d) == IF d.passes THEN "published" ELSE "held"
BodiesOf == {d.body : d \in Drafts}

ASSUME TextAssumption == None \notin BodiesOf /\ Cut \notin BodiesOf

NameOf(d) == IF d.slug = NoSlug THEN "file" ELSE d.slug

(* Mutant: the copies of a note's drafts have one name.                    *)
DraftPathByName(d) == <<NameOf(d), "draft">>

(* SaveFailingDraft's path: the slug, or the file's name, and a hash.       *)
DraftPath(d) == <<NameOf(d), d.body>>
Paths == {DraftPath(d) : d \in Drafts}
NoFile == [md |-> None, err |-> NoDraft, open |-> [md |-> {}, err |-> {}]]
NoJob == [draft |-> NoDraft, prev |-> NoPath, run |-> None, failing |-> None, error |-> NoDraft]

GateRunInit ==
    /\ drafts = [p \in Paths |-> NoFile]
    /\ d1 = << >> /\ d4 = << >> /\ d5 = << >>
    /\ gpc = [g \in GateProcs |-> "idle"] /\ gjob = [g \in GateProcs |-> NoJob]
    /\ handed = {} /\ gates = 0 /\ faults = 0
    /\ owed = {} /\ saves = [b \in BodiesOf |-> 0]
    /\ last = [r \in RunIds |-> None] /\ spoiled = {}

To(g, l) == gpc' = [gpc EXCEPT ![g] = l]
Working(l) == {g \in GateProcs : gpc[g] \in l}
Busy == {g \in GateProcs : gpc[g] # "idle"}
Taking(p) == {g \in Working({"take err", "drop md", "drop err"}) : gjob[g].prev = p}
Writing(p) == {g \in Working({"write md", "write err"}) : DraftPath(gjob[g].draft) = p}

(* What there is of the file p[kind] becomes text, and gs have it open.       *)
Put(p, kind, text, gs) == [drafts EXCEPT ![p][kind] = text, ![p].open[kind] = gs]

Fault == faults < MaxFaults /\ faults' = faults + 1
Spoil(S) == spoiled' = spoiled \cup S

-----------------------------------------------------------------------------
(* The gates have spoken.  The skill names the copy it was handed for a      *)
(* draft it has repaired, and the run_id of its recall.                      *)
Start(g, d, prev, r) ==
    /\ gpc[g] = "idle" /\ gates < MaxGates
    /\ gates' = gates + 1
    /\ gjob' = [gjob EXCEPT ![g] = [NoJob EXCEPT !.draft = d, !.prev = prev, !.run = r]]
    /\ To(g, IF ~d.passes THEN "quarantine" ELSE IF prev # NoPath THEN "take md" ELSE "d5")
    /\ Spoil(IF \E h \in Busy : gjob[h].run = r THEN {r} ELSE {})
    /\ last' = IF r = None \/ (~d.passes /\ d.slug = NoSlug) THEN last ELSE [last EXCEPT ![r] = Decision(d)]
    /\ UNCHANGED <<inboxVars, gateData, handed, faults, owed, saves>>

StartGate ==
    \E g \in GateProcs, d \in Drafts, prev \in handed \cup {NoPath}, r \in RunIds \cup {None} :
        Start(g, d, prev, r)

End(g) == gpc' = [gpc EXCEPT ![g] = "idle"] /\ gjob' = [gjob EXCEPT ![g] = NoJob]

(* Quarantine: no frontmatter and no slug, no file; exit 3.                  *)
Quarantine ==
    \E g \in Working({"quarantine"}) :
        LET d == gjob[g].draft
        IN  \/ /\ d.slug = NoSlug /\ End(g)
               /\ UNCHANGED <<inboxVars, faults, spoiled>>
            \/ /\ d.slug # NoSlug /\ WriteToInbox(d.slug, d.body) /\ To(g, "outcome")
               /\ UNCHANGED <<edits, gjob, faults, spoiled>>
            \/ /\ d.slug # NoSlug /\ Fault /\ WriteTears(d.slug) /\ End(g)
               /\ Spoil({gjob[g].run})
               /\ UNCHANGED edits
    /\ UNCHANGED <<gateData, handed, gates, owed, saves, last>>

(* captureD1Outcome: without a run_id, or without consent, nothing.         *)
Outcome(g) ==
    /\ gpc[g] = "outcome"
    /\ LET r == gjob[g].run
       IN  \/ /\ r # None /\ "d1" \in Capture
              /\ d1' = Append(d1, [run |-> r, outcome |-> Decision(gjob[g].draft)])
              /\ UNCHANGED <<faults, spoiled>>
           \/ r # None /\ "d1" \in Capture /\ Fault /\ Spoil({r}) /\ UNCHANGED d1
           \/ (r = None \/ "d1" \notin Capture) /\ UNCHANGED <<d1, faults, spoiled>>
    /\ IF gjob[g].draft.passes THEN End(g) ELSE To(g, "save md") /\ UNCHANGED gjob
    /\ UNCHANGED <<inboxVars, drafts, d4, d5, handed, gates, owed, saves, last>>

(* SaveFailingDraft, of the body and then of the error, each an os.WriteFile: *)
(* the file is opened and empty, and then it is written, if it still is the     *)
(* file of that name.  Then the path is printed, the index refreshed, and the  *)
(* exit code is 1.                                                           *)
OpenMd(g) ==
    LET p == DraftPath(gjob[g].draft)
    IN  /\ gpc[g] = "save md"
        /\ \/ /\ drafts' = Put(p, "md", Cut, drafts[p].open.md \cup {g})
              /\ owed' = {d \in owed : DraftPath(d) # p}
              /\ To(g, "write md") /\ UNCHANGED <<gjob, faults>>
           \/ Fault /\ End(g) /\ UNCHANGED <<drafts, owed>>
        /\ UNCHANGED <<inboxVars, d1, d4, d5, handed, gates, saves, last, spoiled>>

OpenErr(g) ==
    LET d == gjob[g].draft
        p == DraftPath(d)
    IN  /\ gpc[g] = "save err"
        /\ \/ /\ drafts' = Put(p, "err", CutDraft, drafts[p].open.err \cup {g})
              /\ Spoil(IF Taking(p) # {} THEN {d.body} ELSE {})
              /\ To(g, "write err") /\ UNCHANGED <<gjob, faults>>
           \/ Fault /\ End(g) /\ UNCHANGED <<drafts, spoiled>>
        /\ UNCHANGED <<inboxVars, d1, d4, d5, handed, gates, owed, saves, last>>

CutShort(g) == Fault /\ End(g) /\ Spoil({gjob[g].draft.body}) /\ UNCHANGED drafts

WriteMd(g) ==
    LET d == gjob[g].draft
        p == DraftPath(d)
    IN  /\ gpc[g] = "write md"
        /\ \/ /\ drafts' = IF g \in drafts[p].open.md
                           THEN Put(p, "md", d.body, drafts[p].open.md \ {g}) ELSE drafts
              /\ To(g, "save err") /\ UNCHANGED <<gjob, faults, spoiled>>
           \/ CutShort(g)
        /\ UNCHANGED <<inboxVars, d1, d4, d5, handed, gates, owed, saves, last>>

WriteErr(g) ==
    LET d == gjob[g].draft
        p == DraftPath(d)
    IN  /\ gpc[g] = "write err"
        /\ \/ /\ drafts' = IF g \in drafts[p].open.err
                           THEN Put(p, "err", d, drafts[p].open.err \ {g}) ELSE drafts
              /\ handed' = handed \cup {p}
              /\ owed' = IF Taking(p) = {} /\ drafts[p].md = d.body THEN owed \cup {d} ELSE owed
              /\ saves' = [saves EXCEPT ![d.body] = @ + 1]
              /\ End(g) /\ UNCHANGED <<faults, spoiled>>
           \/ CutShort(g) /\ UNCHANGED <<handed, owed, saves>>
        /\ UNCHANGED <<inboxVars, d1, d4, d5, gates, last>>

-----------------------------------------------------------------------------
(* TakePreviousDraft: reads the two files, then removes them; whether the   *)
(* removal succeeded it does not ask.                                        *)
TakeMd(g) ==
    LET p == gjob[g].prev
    IN  /\ gpc[g] = "take md"
        /\ IF drafts[p].md = None
           THEN To(g, "d5") /\ UNCHANGED <<gjob, owed, spoiled>>
           ELSE /\ gjob' = [gjob EXCEPT ![g].failing = drafts[p].md]
                /\ owed' = {d \in owed : DraftPath(d) # p}
                /\ Spoil(IF Taking(p) \cup Writing(p) # {} THEN {p[2]} ELSE {})
                /\ To(g, "take err")
        /\ UNCHANGED <<inboxVars, gateData, handed, gates, faults, saves, last>>

TakeErr(g) ==
    LET p == gjob[g].prev
    IN  /\ gpc[g] = "take err"
        /\ IF drafts[p].err = NoDraft
           THEN To(g, "d5") /\ UNCHANGED <<gjob, spoiled>>
           ELSE /\ gjob' = [gjob EXCEPT ![g].error = drafts[p].err]
                /\ Spoil(IF Writing(p) # {} THEN {p[2]} ELSE {})
                /\ To(g, "drop md")
        /\ UNCHANGED <<inboxVars, gateData, handed, gates, faults, owed, saves, last>>

(* Mutant: the copy is left where it is.                                   *)
RemovedNot(p, kind) == drafts

Removed(p, kind) == Put(p, kind, NoFile[kind], {})

Drop(g, from, kind, to) ==
    /\ gpc[g] = from
    /\ \/ drafts' = Removed(gjob[g].prev, kind) /\ UNCHANGED <<faults, spoiled>>
       \/ Fault /\ Spoil({gjob[g].prev[2]}) /\ UNCHANGED drafts
    /\ To(g, to)
    /\ UNCHANGED <<inboxVars, d1, d4, d5, gjob, handed, gates, owed, saves, last>>

Take ==
    \E g \in GateProcs :
        TakeMd(g) \/ TakeErr(g) \/ Drop(g, "drop md", "md", "drop err") \/ Drop(g, "drop err", "err", "d4")

(* A record of D4, where d4 may be captured; one of D5; each may fail.      *)
Repair(g) ==
    /\ gpc[g] = "d4"
    /\ \/ /\ "d4" \in Capture
          /\ d4' = Append(d4, [failing |-> gjob[g].failing, error |-> gjob[g].error,
                               fixed |-> gjob[g].draft.body])
          /\ UNCHANGED faults
       \/ "d4" \notin Capture /\ UNCHANGED <<d4, faults>>
       \/ Fault /\ UNCHANGED d4
    /\ To(g, "d5")
    /\ UNCHANGED <<inboxVars, drafts, d1, d5, gjob, handed, gates, ghosts>>

Accepted(g) ==
    /\ gpc[g] = "d5"
    /\ \/ "d5" \in Capture /\ d5' = Append(d5, gjob[g].draft) /\ UNCHANGED faults
       \/ "d5" \notin Capture /\ UNCHANGED <<d5, faults>>
       \/ Fault /\ UNCHANGED d5
    /\ To(g, "outcome")
    /\ UNCHANGED <<inboxVars, drafts, d1, d4, gjob, handed, gates, ghosts>>

GateKilled ==
    /\ Fault
    /\ \E g \in Busy :
          /\ End(g)
          /\ Spoil({gjob[g].run} \cup {gjob[h].draft.body : h \in {g} \cap Working({"write md", "write err"})})
    /\ UNCHANGED <<inboxVars, gateData, handed, gates, owed, saves, last>>

GateRunNext ==
    \/ StartGate \/ Quarantine \/ Take \/ GateKilled
    \/ \E g \in GateProcs : \/ OpenMd(g) \/ WriteMd(g) \/ OpenErr(g) \/ WriteErr(g)
                            \/ Outcome(g) \/ Repair(g) \/ Accepted(g)

-----------------------------------------------------------------------------
(* Mutant: the first outcome of a run is the one that counts.              *)
JoinedFirst(r) == LET of == {i \in DOMAIN d1 : d1[i].run = r}
                  IN  IF of = {} THEN None ELSE d1[Min(of)].outcome

(* joinD1Outcomes: the last outcome appended for a run.                     *)
Joined(r) == LET of == {i \in DOMAIN d1 : d1[i].run = r}
             IN  IF of = {} THEN None ELSE d1[Max(of)].outcome

(* "That is the final disposition of the routing decision"                   *)
(* (export_records.go:57): what export joins to a recall is what became of its *)
(* draft in the end, through quarantine, repair and retry, if no fault and no   *)
(* second process of the same run interfered.                                 *)
OutcomeIsFinal ==
    \A r \in RunIds \ spoiled :
        "d1" \in Capture /\ (\A g \in Busy : gjob[g].run # r) => Joined(r) = last[r]

(* A failing draft can still be found once forge gate has ended: its body    *)
(* stays in .forge/drafts/ until the retry it was handed to consumes it, or    *)
(* the same text fails again and os.WriteFile opens its copy anew              *)
(* (d4_drafts.go:24), whatever other drafts of the note, faults and kills do.   *)
FailingTextIsKept ==
    \A d \in owed : drafts[DraftPath(d)].md = d.body

(* "A retry consumes the pairing exactly once" (d4_drafts.go:34-36): a D4     *)
(* record of a draft's text has the failure of that very text, or none of it    *)
(* where that file was read half written; a record is of a draft's text, or     *)
(* that was read half written; and there are no more records of a text than    *)
(* there were failures.  For any of it to go wrong, two commands held one copy   *)
(* at one time, a save of it was cut short, or it could not be removed.         *)
RepairsAreReal ==
    /\ \A i \in DOMAIN d4 : d4[i].failing \in BodiesOf \/ BodiesOf \cap spoiled # {}
    /\ \A b \in BodiesOf :
        LET of == {i \in DOMAIN d4 : d4[i].failing = b}
        IN  /\ \A i \in of : d4[i].error.body = b \/ (b \in spoiled /\ d4[i].error = CutDraft)
            /\ b \notin spoiled => Cardinality(of) <= saves[b]
=============================================================================
