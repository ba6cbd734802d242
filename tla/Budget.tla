------------------------------- MODULE Budget -------------------------------
(***************************************************************************)
(* Paid calls and the queue of notes that wait for one.  `forge engine     *)
(* run` resolves a stage, calls the winning tier and books the cost, or,   *)
(* with the day's money spent, stamps pending_advisor on a note; the       *)
(* weekly `forge check` drains those notes through the advisor; `forge     *)
(* engine record` stamps engine_trail on the same notes.  They are         *)
(* processes of their own over one SQLite ledger and one directory of      *)
(* notes: the ledger is read before a call and written after it, and a     *)
(* note is loaded whole and written back whole, with nothing locked in     *)
(* between.                                                                *)
(*                                                                         *)
(* cmd/forge/engine_run.go, check_drain.go, engine_record.go, pkg/engine,  *)
(* pkg/store/budget.go, pkg/vault/write.go.  The D2 dataset, a file these  *)
(* commands only append to, is left out.                                   *)
(***************************************************************************)
EXTENDS EngineSelect, FiniteSets

CONSTANTS
    Runs,       \* processes of `forge engine run`
    Drains,     \* processes of `forge check`
    Recorders,  \* processes of `forge engine record`
    Tiers,      \* the tiers they are told ran a stage
    Notes,      \* notes with frontmatter, numbered in path order
    FirstQueued, \* those a run of an earlier day has queued
    NoRel,      \* a run without --rel
    NoStage,    \* a process that works on no stage
    Costs,      \* what a server may charge for a call
    MaxCost,    \* the most it charges
    Chains,     \* the configuration chains there may be, four layers each
    \* Bounds: runs and records started, failures, edits by authors.
    MaxAsks, MaxFaults, MaxEdits

Callers == Runs \cup Drains
Workers == Callers \cup Recorders

ASSUME BudgetAssumption ==
    /\ Runs \cap Drains = {} /\ Callers \cap Recorders = {}
    /\ IsFiniteSet(Callers)
    /\ Notes \subseteq Nat /\ FirstQueued \subseteq Notes
    /\ NoRel \notin Notes /\ NoStage \notin Stages
    /\ Tiers \subseteq Engines
    /\ \A c \in Chains : \A i \in 1..4 : IsLayer(c[i])
    /\ MaxCost \in Nat /\ Costs \subseteq 0..MaxCost
    /\ \A b \in {MaxAsks, MaxFaults, MaxEdits} : b \in Nat

VARIABLES
    cfg,    \* the merged configuration, read once by every process
    spent,  \* today's row of the budget table, per tier
    note,   \* pending_advisor, engine_trail and all the rest of each note
    pc,     \* where each process stands
    job,    \* its stage, its note, the engine that won and its copy of the note
    todo,   \* the queued notes a drain has still to take
    due,    \* what the last call of each process cost and the ledger does not show
    owes,   \* the runs that met an empty ledger today and owe their note a place in the queue
    asks, faults, edits

counts == <<asks, faults, edits>>
vars == <<cfg, spent, note, pc, job, todo, due, owes, counts>>

Blank == [pending |-> FALSE, trail |-> {}, text |-> 0]
NoJob == [stage |-> NoStage, rel |-> NoRel, won |-> "none", copy |-> Blank]
Nothing == [t \in Metered |-> 0]

Init ==
    /\ cfg \in {Load(c) : c \in Chains}
    /\ spent = Nothing
    /\ note = [n \in Notes |-> [Blank EXCEPT !.pending = n \in FirstQueued]]
    /\ pc = [p \in Workers |-> "idle"]
    /\ job = [p \in Workers |-> NoJob]
    /\ todo = [p \in Drains |-> {}]
    /\ due = [p \in Callers |-> 0]
    /\ owes = {}
    /\ asks = 0 /\ faults = 0 /\ edits = 0

\* A lookup in the ledger: what today's row shows, or an error, which counts as nothing left.
Lookup(seen) ==
    \/ seen = spent /\ UNCHANGED faults
    \/ seen = Cap /\ faults < MaxFaults /\ faults' = faults + 1

Goes(p, where) == pc' = [pc EXCEPT ![p] = where]

Exits(p) ==
    /\ Goes(p, "idle")
    /\ job' = [job EXCEPT ![p] = NoJob]

\* The whole note is written, or the write fails and leaves it alone.
Write(n, new) ==
    \/ note' = [note EXCEPT ![n] = new] /\ UNCHANGED faults
    \/ faults < MaxFaults /\ faults' = faults + 1 /\ UNCHANGED note

-----------------------------------------------------------------------------
(***************************************************************************)
(* forge engine run.                                                       *)
(***************************************************************************)
\* A tier of the stage has today's cap on the books.
SpentOut(s) == \E t \in Metered : spent[t] >= Cap[t] /\ \E i \in 1..3 : Chain(cfg, s)[i] = t

Queues(r) == Get(cfg, OnExhausted) = "queue" /\ r # NoRel

\* Resolve.  An invalid configuration starts no process, a locked stage that was tampered
\* with ends the run before it does anything.
Ask(p) ==
    /\ pc[p] = "idle" /\ Valid(cfg) /\ asks < MaxAsks
    /\ \E s \in Stages, r \in Notes \cup {NoRel}, seen \in {spent, Cap} :
         LET won == Resolve(cfg, seen, s)
         IN  /\ CheckLocked(cfg, s)
             /\ Lookup(seen)
             /\ job' = [job EXCEPT ![p] = [stage |-> s, rel |-> r, won |-> won, copy |-> Blank]]
             /\ Goes(p, IF won = "none" THEN "degraded" ELSE "calling")
             /\ owes' = IF won = "none" /\ SpentOut(s) /\ Queues(r)
                          THEN owes \cup {p} ELSE owes \ {p}
    /\ asks' = asks + 1
    /\ due' = [due EXCEPT ![p] = 0]
    /\ UNCHANGED <<cfg, spent, note, todo, edits>>

\* The ledger is asked a second time, whether "none" won for lack of money; under "queue"
\* the note is loaded, any other policy and a stage with no model end the run here.
Degrade(p) ==
    /\ pc[p] = "degraded"
    /\ \E seen \in {spent, Cap} :
         /\ Lookup(seen)
         /\ IF Exhausted(cfg, seen, job[p].stage) /\ Queues(job[p].rel)
              THEN /\ job' = [job EXCEPT ![p].copy = note[job[p].rel]]
                   /\ Goes(p, "queueing")
              ELSE Exits(p)
    /\ UNCHANGED <<cfg, spent, note, todo, due, owes, asks, edits>>

Queue(p) ==
    /\ pc[p] = "queueing"
    /\ Write(job[p].rel, [job[p].copy EXCEPT !.pending = TRUE])
    /\ Exits(p)
    /\ UNCHANGED <<cfg, spent, todo, due, owes, asks, edits>>

-----------------------------------------------------------------------------
(***************************************************************************)
(* forge check, once its reports are written.                              *)
(***************************************************************************)
\* The notes were collected when the check began.
Collect(p) ==
    /\ pc[p] = "idle" /\ Valid(cfg)
    /\ Get(cfg, DrainQueue) = "true" /\ Get(cfg, OnExhausted) = "queue"
    /\ todo' = [todo EXCEPT ![p] = {n \in Notes : note[n].pending}]
    /\ Goes(p, "draining")
    /\ due' = [due EXCEPT ![p] = 0]
    /\ UNCHANGED <<cfg, spent, note, job, owes, counts>>

\* The next queued note is loaded afresh, if the advisor has money left.
TakeNext(p) ==
    /\ pc[p] = "draining"
    /\ \E n \in todo[p], seen \in {spent, Cap} :
         /\ \A m \in todo[p] : n <= m
         /\ Lookup(seen)
         /\ Remains(seen, "advisor")
         /\ job' = [job EXCEPT ![p] = [NoJob EXCEPT !.rel = n, !.won = "advisor", !.copy = note[n]]]
    /\ Goes(p, "calling")
    /\ due' = [due EXCEPT ![p] = 0]
    /\ UNCHANGED <<cfg, spent, note, todo, owes, asks, edits>>

\* No note left, or no money: what is left stays queued.
EndDrain(p) ==
    /\ pc[p] = "draining"
    /\ \E seen \in {spent, Cap} :
         Lookup(seen) /\ (todo[p] = {} \/ ~Remains(seen, "advisor"))
    /\ todo' = [todo EXCEPT ![p] = {}]
    /\ Exits(p)
    /\ UNCHANGED <<cfg, spent, note, due, owes, asks, edits>>

\* A run exits after its call, a drain goes on to its next note, whatever came of this one.
Proceeds(p) ==
    IF p \in Drains
      THEN /\ Goes(p, "draining")
           /\ job' = [job EXCEPT ![p] = NoJob]
           /\ todo' = [todo EXCEPT ![p] = @ \ {job[p].rel}]
      ELSE Exits(p) /\ UNCHANGED todo

-----------------------------------------------------------------------------
(***************************************************************************)
(* The call and its booking.                                               *)
(***************************************************************************)
\* The transport fails, or the server answers anything but the envelope.
CallFails(p) ==
    /\ pc[p] = "calling" /\ job[p].won # "host"
    /\ Proceeds(p)
    /\ UNCHANGED <<cfg, spent, note, due, owes, counts>>

\* The advisor answered, and charged, but its answer is no critique: the result is dropped.
CritiqueInvalid(p) ==
    /\ pc[p] = "calling" /\ job[p].won = "advisor"
    /\ \E c \in Costs : due' = [due EXCEPT ![p] = c]
    /\ Proceeds(p)
    /\ UNCHANGED <<cfg, spent, note, owes, counts>>

\* An answer: an instruction for the host, or a result with its cost.
CallAnswers(p) ==
    /\ pc[p] = "calling"
    /\ IF Books(job[p].won)
         THEN /\ \E c \in Costs : due' = [due EXCEPT ![p] = c]
              /\ Goes(p, "answered")
              /\ UNCHANGED <<job, todo>>
         ELSE Proceeds(p) /\ UNCHANGED due
    /\ UNCHANGED <<cfg, spent, note, owes, counts>>

\* Spend: an upsert on the row of the day it is when the answer is in.
Spend(p) ==
    /\ pc[p] = "answered"
    /\ spent' = [spent EXCEPT ![job[p].won] = @ + due[p]]
    /\ due' = [due EXCEPT ![p] = 0]
    /\ IF p \in Drains THEN Goes(p, "booked") /\ UNCHANGED <<job, todo>> ELSE Proceeds(p)
    /\ UNCHANGED <<cfg, note, owes, counts>>

\* Mutant: the drain clears the flag though the spend was not booked.
SpendFailsUnnoticed(p) ==
    /\ pc[p] = "answered" /\ faults < MaxFaults
    /\ faults' = faults + 1
    /\ IF p \in Drains THEN Goes(p, "booked") /\ UNCHANGED <<job, todo>> ELSE Proceeds(p)
    /\ UNCHANGED <<cfg, spent, note, due, owes, asks, edits>>

\* SQLite refuses (another process holds the database).
SpendFails(p) ==
    /\ pc[p] = "answered" /\ faults < MaxFaults
    /\ faults' = faults + 1
    /\ Proceeds(p)
    /\ UNCHANGED <<cfg, spent, note, due, owes, asks, edits>>

\* Mutant: the flag is left as it was loaded.
ClearForgotten(p) ==
    /\ pc[p] = "booked"
    /\ Write(job[p].rel, job[p].copy)
    /\ Proceeds(p)
    /\ UNCHANGED <<cfg, spent, due, owes, asks, edits>>

Clear(p) ==
    /\ pc[p] = "booked"
    /\ Write(job[p].rel, [job[p].copy EXCEPT !.pending = FALSE])
    /\ Proceeds(p)
    /\ UNCHANGED <<cfg, spent, due, owes, asks, edits>>

-----------------------------------------------------------------------------
(***************************************************************************)
(* forge engine record: the skill reports a stage that ran in the session. *)
(***************************************************************************)
RecordLoad(p) ==
    /\ pc[p] = "idle" /\ asks < MaxAsks
    /\ \E s \in Stages, tier \in Tiers, n \in Notes :
         /\ Recordable(s, tier)
         /\ job' = [job EXCEPT ![p] = [stage |-> s, rel |-> n, won |-> tier, copy |-> note[n]]]
    /\ asks' = asks + 1
    /\ Goes(p, "recording")
    /\ UNCHANGED <<cfg, spent, note, todo, due, owes, faults, edits>>

Record(p) ==
    /\ pc[p] = "recording"
    /\ Write(job[p].rel,
             [job[p].copy EXCEPT !.trail = MergeTrail(@, Entry(job[p].stage, job[p].won))])
    /\ Exits(p)
    /\ UNCHANGED <<cfg, spent, todo, due, owes, asks, edits>>

-----------------------------------------------------------------------------
(***************************************************************************)
(* The rest of the world.                                                  *)
(***************************************************************************)
\* A new UTC day has no row yet.
Midnight ==
    /\ spent' = Nothing
    /\ owes' = {}
    /\ UNCHANGED <<cfg, note, pc, job, todo, due, counts>>

\* An author saves the note in an editor; every version is a new one.
Edit(n) ==
    /\ edits < MaxEdits
    /\ edits' = edits + 1
    /\ note' = [note EXCEPT ![n].text = edits + 1]
    /\ UNCHANGED <<cfg, spent, pc, job, todo, due, owes, asks, faults>>

Crash(p) ==
    /\ pc[p] # "idle" /\ faults < MaxFaults
    /\ faults' = faults + 1
    /\ Exits(p)
    /\ todo' = IF p \in Drains THEN [todo EXCEPT ![p] = {}] ELSE todo
    /\ owes' = owes \ {p}
    /\ UNCHANGED <<cfg, spent, note, due, asks, edits>>

Next ==
    \/ \E p \in Runs : Ask(p) \/ Degrade(p) \/ Queue(p)
    \/ \E p \in Drains : Collect(p) \/ TakeNext(p) \/ EndDrain(p) \/ Clear(p)
    \/ \E p \in Callers :
         CallFails(p) \/ CritiqueInvalid(p) \/ CallAnswers(p) \/ Spend(p) \/ SpendFails(p)
    \/ \E p \in Recorders : RecordLoad(p) \/ Record(p)
    \/ Midnight
    \/ \E n \in Notes : Edit(n)
    \/ \E p \in Workers : Crash(p)

\* A process that is running goes on, `forge check` is started again and again, days pass,
\* and an advisor that is asked again and again answers with a critique some time.
Fairness ==
    /\ \A p \in Runs : WF_vars(Degrade(p) \/ Queue(p))
    /\ \A p \in Drains : WF_vars(Collect(p)) /\ WF_vars(TakeNext(p) \/ EndDrain(p) \/ Clear(p))
    /\ \A p \in Callers : WF_vars(CallFails(p) \/ CritiqueInvalid(p) \/ CallAnswers(p))
    /\ \A p \in Callers : SF_vars(CallAnswers(p)) /\ WF_vars(Spend(p) \/ SpendFails(p))
    /\ \A p \in Recorders : WF_vars(Record(p))
    /\ WF_vars(Midnight)

Spec == Init /\ [][Next]_vars
FairSpec == Spec /\ Fairness
-----------------------------------------------------------------------------
(***************************************************************************)
(* Properties.                                                             *)
(***************************************************************************)
\* What `forge engine record` may leave on a note: one line per stage it stamps, and for a
\* locked stage none but "none".
Trails ==
    {trail \in SUBSET {Entry(s, tier) : s \in Stampable, tier \in Tiers} :
        \A e, f \in trail : /\ e.stage = f.stage => e = f
                            /\ e.stage \in Locked => e.tier = "none"}
Note == [pending : BOOLEAN, trail : Trails, text : Nat]
Job == [stage : Stages \cup {NoStage}, rel : Notes \cup {NoRel},
        won : Engines, copy : Note]
Places == {"idle", "degraded", "queueing", "calling", "answered", "draining", "booked", "recording"}

\* The types of the ledger, the notes and the processes; a note's trail, and the copy of it
\* a process holds, keeps one line per stage and shows no model behind a locked one.
TypeOK ==
    /\ IsLayer(cfg)
    /\ spent \in Ledger
    /\ note \in [Notes -> Note]
    /\ pc \in [Workers -> Places]
    /\ job \in [Workers -> Job]
    /\ todo \in [Drains -> SUBSET Notes]
    /\ due \in [Callers -> 0..MaxCost]
    /\ owes \subseteq Runs
    /\ asks \in Nat /\ faults \in Nat /\ edits \in Nat

\* The processes between their look at a tier's ledger and their booking on it.
InFlight(t) == {p \in Callers : pc[p] \in {"calling", "answered"} /\ job[p].won = t}

\* The race between check and booking is bounded: a day's bookings pass the cap by less
\* than one call per process that can be in flight, and a tier with no money is never
\* booked on.  (availableMetered and advisorExhausted look before the call, Spend comes
\* after it; neither holds a lock.)
OverrunBounded ==
    \A t \in Metered :
        IF Cap[t] = 0 THEN spent[t] = 0
        ELSE spent[t] < Cap[t] + Cardinality(Callers) * MaxCost

\* A configuration that names the engine of the stage.
SpelledOut(s) == Get(cfg, <<s, "engine">>) # ""

\* The static core calls no model: whatever an override puts behind a locked stage, no run
\* of it gets past "none" (select.go:68-71).
LockedStagesStayStatic ==
    \A p \in Runs : job[p].stage \in Locked /\ SpelledOut(job[p].stage) => job[p].won = "none"

\* The same with nothing asked of the configuration (validate.go:8, the stages "that accept
\* engine `none` and nothing else").
LockedAcceptsNoneOnly == \A p \in Runs : job[p].stage \in Locked => job[p].won = "none"

\* A note comes off the queue only by a drain that has booked its call, or by a process
\* that writes back a copy from before it was queued (check_drain.go:78-79).
OffQueueOnlyBooked ==
    [][\A n \in Notes : note[n].pending /\ ~note'[n].pending =>
         \/ \E p \in Drains : pc[p] = "booked" /\ job[p].rel = n /\ due[p] = 0
         \/ \E p \in Recorders : pc[p] = "recording" /\ job[p].rel = n /\ ~job[p].copy.pending]_vars

\* A run that met an empty ledger ends with its note queued, unless the day turned before
\* its second look, the run was killed or a lookup or a write failed (engine_run.go:54-56).
QueuedNotDropped ==
    [][\A p \in Runs : p \in owes /\ p \in owes' /\ pc[p] # "idle" /\ pc'[p] = "idle"
                       /\ faults' = faults => note'[job[p].rel].pending]_vars

\* Every cost a server charged is on the ledger once the process has gone on
\* (engine_run.go:52-54, "books any spend against today's budget").
BooksAnySpend ==
    \A p \in Callers : pc[p] \in {"idle", "draining"} => due[p] = 0

\* Only an author changes what an author wrote (write.go:18-19, "Neither caller may move
\* anything else about the note").
AuthorsTextStands ==
    [][\A n \in Notes : note'[n].text # note[n].text => edits' # edits]_vars

\* A queued note gets its advisor pass: with the drain on and money in the advisor's cap, it
\* comes off the queue again.
QueueDrains ==
    \A n \in Notes :
        (/\ note[n].pending /\ Cap["advisor"] > 0 /\ Valid(cfg)
         /\ Get(cfg, DrainQueue) = "true" /\ Get(cfg, OnExhausted) = "queue") ~> ~note[n].pending
=============================================================================
