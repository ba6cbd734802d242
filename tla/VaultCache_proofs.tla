-------------------------- MODULE VaultCache_proofs --------------------------
(***************************************************************************)
(* The derived cache of the vault, for every finite set of notes, whatever  *)
(* they say, and every number of commands at work: when its rows may be      *)
(* stale, that forge index makes it true and that a quiet recall ranks the    *)
(* vault as it is.                                                           *)
(***************************************************************************)
EXTENDS VaultCache, SequenceTheorems, FiniteSetTheorems, TLAPS

-----------------------------------------------------------------------------
(* Lists of notes. *)

(* What Walk and Prune make of a set: each member once.                      *)
LEMMA ListsEachOnce ==
    ASSUME NEW S \in SUBSET Notes
    PROVE  /\ SetToSeq(S) \in Seq(Notes) /\ ToSet(SetToSeq(S)) = S
           /\ IsInjective(SetToSeq(S))
<1> DEFINE n == Cardinality(S)
           f == SetToSeq(S)
<1>1. IsFiniteSet(S)
  BY CacheAssumption, FS_Subset
<1>2. n \in Nat /\ ExistsBijection(1..n, S)
  BY <1>1, FS_CardinalityType
<1>3. \E g \in [1..n -> S] : IsInjective(g)
  BY <1>2 DEF ExistsBijection, Bijection, Injection
<1>4. f \in [1..n -> S] /\ IsInjective(f)
  BY <1>3 DEF SetToSeq
<1>5. IsFiniteSet(1..n) /\ Cardinality(1..n) = n
  BY <1>2, FS_Interval
<1> HIDE DEF f, n
<1>6. f \in Injection(1..n, S)
  BY <1>4 DEF Injection
<1>7. f \in Surjection(1..n, S)
  BY <1>1, <1>5, <1>6, FS_Injection DEF n
<1>8. f \in Seq(Notes)
  BY <1>2, <1>4, IsASeq
<1>9. ToSet(f) = S
  BY <1>4, <1>7 DEF ToSet, Surjection
<1> QED
  BY <1>4, <1>8, <1>9 DEF f

LEMMA FirstAndRest ==
    ASSUME NEW s \in Seq(Notes), s # << >>
    PROVE  /\ Head(s) \in Notes /\ Tail(s) \in Seq(Notes)
           /\ ToSet(s) = {Head(s)} \cup ToSet(Tail(s))
           /\ IsInjective(s) => Head(s) \notin ToSet(Tail(s)) /\ IsInjective(Tail(s))
<1>1. /\ Head(s) \in Notes /\ Tail(s) \in Seq(Notes) /\ Len(Tail(s)) = Len(s) - 1 /\ Head(s) = s[1]
      /\ \A i \in 1..Len(Tail(s)) : Tail(s)[i] = s[i + 1]
  BY HeadTailProperties
<1>2. Len(s) \in Nat \ {0} /\ DOMAIN s = 1..Len(s) /\ DOMAIN Tail(s) = 1..Len(s) - 1
  BY <1>1, LenProperties, EmptySeq
<1>3. ToSet(s) = {Head(s)} \cup ToSet(Tail(s))
  <2>1. \A i \in DOMAIN s : i = 1 \/ (i - 1 \in DOMAIN Tail(s) /\ s[i] = Tail(s)[i - 1])
    BY <1>1, <1>2
  <2>2. \A i \in DOMAIN Tail(s) : i + 1 \in DOMAIN s /\ Tail(s)[i] = s[i + 1]
    BY <1>1, <1>2
  <2>3. 1 \in DOMAIN s
    BY <1>2
  <2>4. ASSUME NEW x \in ToSet(s) PROVE x \in {Head(s)} \cup ToSet(Tail(s))
    BY <1>1, <2>1, <2>4 DEF ToSet
  <2>5. ToSet(Tail(s)) \subseteq ToSet(s) /\ Head(s) \in ToSet(s)
    BY <1>1, <2>2, <2>3 DEF ToSet
  <2> QED
    BY <2>4, <2>5
<1>4. IsInjective(s) => Head(s) \notin ToSet(Tail(s)) /\ IsInjective(Tail(s))
  BY <1>1, <1>2 DEF ToSet, IsInjective
<1> QED
  BY <1>1, <1>3, <1>4

-----------------------------------------------------------------------------
(* Types: what each kind of process may be at, and what it holds.             *)
IndexLabels == {"idle", "walk", "reset notes", "reset stack", "reset tags", "next", "stamp", "prune", "delete",
                "delete stack", "delete tags", "done"}
RecallLabels == {"idle", "read notes", "read stack", "read tags", "walk", "next", "ask", "load", "stamp", "done"}
InNote == {"ask", "load", "stamp", "delete stack", "delete tags"}

Kept == [row : Row, stack : Texts \cup {Gone}, tags : Texts \cup {Gone}]
Got == [text : Texts, readAt : 1 .. MaxTime]
InHand == {None} \cup Got \cup File
Jobs == [cached : [Notes -> Kept \cup {None}], todo : Seq(Notes), row : InHand,
         parsed : [Notes -> Row \cup {None}], docs : [Notes -> Doc \cup {None}]]

JobsTyped ==
    /\ pc \in [Procs -> Labels] /\ job \in [Procs -> Jobs]
    /\ \A p \in Indexers : pc[p] \in IndexLabels
    /\ \A p \in Recalls : pc[p] \in RecallLabels
    /\ \A p \in Procs : /\ pc[p] \in InNote => job[p].todo # << >>
                        /\ pc[p] = "ask" => job[p].row \in File
                        /\ pc[p] = "stamp" => job[p].row \in Got

StoreTyped ==
    /\ disk \in [Notes -> File \cup {None}] /\ clock \in 1 .. MaxTime
    /\ notes \in [Notes -> Row \cup {None}]
    /\ kids \in [Kids -> [Notes -> Texts \cup {Gone}]]
    /\ alone \in [Procs -> BOOLEAN] /\ whole \in BOOLEAN

Typed == JobsTyped /\ StoreTyped

(* A step of one process, as the others see it.                               *)
Acts(p) ==
    /\ pc' = [pc EXCEPT ![p] = pc'[p]]
    /\ job' = [job EXCEPT ![p] = job'[p]]

LEMMA IdleTyped == Idle \in Jobs /\ Idle.parsed = [n \in Notes |-> None]
<1>1. << >> \in Seq(Notes)
  BY EmptySeq
<1>2. None \in InHand
  BY DEF None, InHand
<1> QED
  BY <1>1, <1>2 DEF Idle, Jobs

(* A process keeps one thing and leaves the rest of what it holds.              *)
LEMMA KeepsTodo ==
    ASSUME JobsTyped, NEW p \in Procs, NEW s \in Seq(Notes), Keep(p, "todo", s)
    PROVE  /\ job' = [job EXCEPT ![p] = job'[p]] /\ job'[p] \in Jobs
           /\ job'[p].todo = s /\ job'[p].cached = job[p].cached /\ job'[p].row = job[p].row
           /\ job'[p].parsed = job[p].parsed /\ job'[p].docs = job[p].docs
<1>1. job[p] \in Jobs
  BY DEF JobsTyped
<1>2. job' = [job EXCEPT ![p] = [job[p] EXCEPT !.todo = s]]
  BY <1>1 DEF Keep, JobsTyped, Jobs
<1>3. job'[p] = [job[p] EXCEPT !.todo = s]
  BY <1>2 DEF JobsTyped
<1>4. job' = [job EXCEPT ![p] = job'[p]]
  BY <1>2, <1>3
<1> QED
  BY <1>1, <1>3, <1>4 DEF Jobs

LEMMA KeepsCached ==
    ASSUME JobsTyped, NEW p \in Procs, NEW c \in [Notes -> Kept \cup {None}], Keep(p, "cached", c)
    PROVE  /\ job' = [job EXCEPT ![p] = job'[p]] /\ job'[p] \in Jobs
           /\ job'[p].cached = c /\ job'[p].todo = job[p].todo /\ job'[p].row = job[p].row
           /\ job'[p].parsed = job[p].parsed /\ job'[p].docs = job[p].docs
<1>1. job[p] \in Jobs
  BY DEF JobsTyped
<1>2. job' = [job EXCEPT ![p] = [job[p] EXCEPT !.cached = c]]
  BY <1>1 DEF Keep, JobsTyped, Jobs
<1>3. job'[p] = [job[p] EXCEPT !.cached = c]
  BY <1>2 DEF JobsTyped
<1>4. job' = [job EXCEPT ![p] = job'[p]]
  BY <1>2, <1>3
<1> QED
  BY <1>1, <1>3, <1>4 DEF Jobs

LEMMA KeepsRow ==
    ASSUME JobsTyped, NEW p \in Procs, NEW r \in InHand, Keep(p, "row", r)
    PROVE  /\ job' = [job EXCEPT ![p] = job'[p]] /\ job'[p] \in Jobs
           /\ job'[p].row = r /\ job'[p].cached = job[p].cached /\ job'[p].todo = job[p].todo
           /\ job'[p].parsed = job[p].parsed /\ job'[p].docs = job[p].docs
<1>1. job[p] \in Jobs
  BY DEF JobsTyped
<1>2. job' = [job EXCEPT ![p] = [job[p] EXCEPT !.row = r]]
  BY <1>1 DEF Keep, JobsTyped, Jobs
<1>3. job'[p] = [job[p] EXCEPT !.row = r]
  BY <1>2 DEF JobsTyped
<1>4. job' = [job EXCEPT ![p] = job'[p]]
  BY <1>2, <1>3
<1> QED
  BY <1>1, <1>3, <1>4 DEF Jobs

-----------------------------------------------------------------------------
(* The steps, each of one process or of the vault.                            *)
Ends(p) ==
    /\ pc' = [pc EXCEPT ![p] = "idle"] /\ job' = [job EXCEPT ![p] = Idle]
    /\ UNCHANGED <<world, db, alone>> /\ whole' \in {whole, FALSE}

IndexStep(p) ==
    \/ Begin(p, "walk") \/ Begin(p, "reset notes")
    \/ ResetNotes(p) \/ ResetKids(p, "stack", "reset stack", "reset tags") \/ ResetKids(p, "tags", "reset tags", "walk")
    \/ Walk(p) \/ Load(p) \/ Stamp(p) \/ Persist(p) \/ Prune(p) \/ EndIndex(p)
    \/ DeleteRow(p) \/ DeleteKids(p, "stack", "delete stack", "delete tags", job[p].todo)
    \/ DeleteKids(p, "tags", "delete tags", "delete", Done(p)) \/ Ends(p)

RecallStep(p) ==
    \/ Begin(p, "read notes") \/ ReadNotes(p)
    \/ Attach(p, "stack", "read stack", "read tags") \/ Attach(p, "tags", "read tags", "walk")
    \/ Walk(p) \/ Stat(p) \/ Ask(p) \/ Load(p) \/ Stamp(p) \/ Refresh(p) \/ Ends(p)

VaultStep ==
    /\ \E n \in Notes, f \in File \cup {None} :
          disk' = [disk EXCEPT ![n] = f] /\ (f # None => f.mtime = clock)
    /\ alone' = [q \in Procs |-> alone[q] /\ pc[q] = "idle"]
    /\ UNCHANGED <<clock, notes, kids, pc, job, whole>>

TimeStep == clock' \in {clock, clock + 1} /\ clock' <= MaxTime /\ UNCHANGED <<disk, notes, kids, pc, job, alone, whole>>

LEMMA Steps ==
    ASSUME Typed, [Next]_vars
    PROVE  \/ TimeStep \/ VaultStep
           \/ \E p \in Indexers : IndexStep(p)
           \/ \E p \in Recalls : RecallStep(p)
<1>1. CASE UNCHANGED vars
  BY <1>1 DEF vars, TimeStep, Typed, StoreTyped
<1>2. CASE Tick
  BY <1>2, CacheAssumption DEF Tick, TimeStep, db, Typed, StoreTyped
<1>3. CASE Edit \/ Delist
  <2>1. PICK n \in Notes, f \in File \cup {None} : Write(n, f) /\ (f # None => f.mtime = clock)
    <3>1. CASE Edit
      <4>1. PICK n \in Notes, t \in Texts : Write(n, [text |-> t, mtime |-> clock])
        BY <3>1 DEF Edit
      <4>2. [text |-> t, mtime |-> clock] \in File
        BY DEF File, Typed, StoreTyped
      <4> QED
        BY <4>1, <4>2
    <3>2. CASE Delist
      BY <3>2 DEF Delist, Files
    <3> QED
      BY <1>3, <3>1, <3>2
  <2> QED
    BY <2>1 DEF Write, VaultStep, db
<1>4. CASE Rest \/ Stop
  <2>1. PICK p \in Procs : Ends(p)
    BY <1>4 DEF Rest, Stop, Goto, Ends, Typed, StoreTyped
  <2> QED
    BY <2>1 DEF Procs, IndexStep, RecallStep
<1>5. CASE StartIndex \/ StartReindex \/ StartRecall \/ Reset \/ ReadRows \/ Delete
  BY <1>5 DEF StartIndex, StartReindex, StartRecall, Reset, ReadRows, Delete, IndexStep, RecallStep
<1>6. CASE \E p \in Procs : Walk(p) \/ Load(p) \/ Stamp(p)
  BY <1>6 DEF Procs, IndexStep, RecallStep
<1>7. CASE \/ \E p \in Recalls : Stat(p) \/ Ask(p) \/ Refresh(p)
           \/ \E p \in Indexers : Persist(p) \/ Prune(p) \/ EndIndex(p)
  BY <1>7 DEF IndexStep, RecallStep
<1> QED
  BY <1>1, <1>2, <1>3, <1>4, <1>5, <1>6, <1>7 DEF Next

-----------------------------------------------------------------------------
(* What a step does to what the process holds.                                *)
LEMMA JobTyped ==
    ASSUME JobsTyped, NEW p \in Procs, Acts(p), job'[p] \in Jobs,
           p \in Indexers => pc'[p] \in IndexLabels, p \in Recalls => pc'[p] \in RecallLabels,
           pc'[p] \in InNote => job'[p].todo # << >>,
           pc'[p] = "ask" => job'[p].row \in File,
           pc'[p] = "stamp" => job'[p].row \in Got
    PROVE  JobsTyped'
<1>1. pc'[p] \in Labels
  BY DEF Procs, IndexLabels, RecallLabels, Labels
<1>2. pc' \in [Procs -> Labels] /\ job' \in [Procs -> Jobs]
  BY <1>1 DEF Acts, JobsTyped
<1>3. \A q \in Procs \ {p} : pc'[q] = pc[q] /\ job'[q] = job[q]
  BY DEF Acts, JobsTyped
<1>4. Indexers \subseteq Procs /\ Recalls \subseteq Procs
  BY DEF Procs
<1> QED
  BY <1>2, <1>3, <1>4 DEF JobsTyped

(* A command begins or ends.                                                 *)
LEMMA BeginsAnew ==
    ASSUME JobsTyped, NEW p \in Procs, NEW l, Begin(p, l)
    PROVE  /\ Acts(p) /\ pc[p] = "idle" /\ pc'[p] = l /\ job'[p] = Idle
           /\ alone' = [alone EXCEPT ![p] = Others(p) = {}]
           /\ UNCHANGED <<disk, clock, notes, kids, whole>>
  BY DEF Begin, Goto, Acts, JobsTyped, world, db

LEMMA EndsIdle ==
    ASSUME JobsTyped, NEW p \in Procs, Ends(p)
    PROVE  /\ Acts(p) /\ pc'[p] = "idle" /\ job'[p] = Idle
           /\ UNCHANGED <<disk, clock, notes, kids, alone>> /\ whole' \in {whole, FALSE}
  BY DEF Ends, Acts, JobsTyped, world, db

(* The steps that only change the cache hold on to what they hold.             *)
Holds(p) ==
    \/ ResetNotes(p) \/ ResetKids(p, "stack", "reset stack", "reset tags") \/ ResetKids(p, "tags", "reset tags", "walk")
    \/ DeleteRow(p) \/ Persist(p) \/ EndIndex(p) \/ Refresh(p)

LEMMA HoldsOn ==
    ASSUME JobsTyped, NEW p \in Procs, Holds(p)
    PROVE  /\ Acts(p) /\ UNCHANGED <<job, disk, clock>>
           /\ \/ p \in Indexers /\ pc[p] = "next" /\ pc'[p] = "prune" /\ job[p].todo = << >>
              \/ pc[p] = "delete" /\ pc'[p] = "done" /\ job[p].todo = << >>
              \/ pc[p] = "reset notes" /\ pc'[p] = "reset stack"
              \/ pc[p] = "reset stack" /\ pc'[p] = "reset tags"
              \/ pc[p] = "reset tags" /\ pc'[p] = "walk"
              \/ pc[p] = "delete" /\ pc'[p] = "delete stack" /\ job[p].todo # << >>
              \/ p \in Recalls /\ pc[p] = "next" /\ pc'[p] = "done" /\ job[p].todo = << >>
<1>1. UNCHANGED <<job, disk, clock>>
  BY DEF Holds, ResetNotes, ResetKids, DeleteRow, Persist, EndIndex, Refresh, world
<1>2. \A l : Goto(p, l) => pc'[p] = l /\ pc' = [pc EXCEPT ![p] = pc'[p]]
  BY DEF Goto, JobsTyped
<1>3. job' = [job EXCEPT ![p] = job'[p]]
  BY <1>1 DEF JobsTyped
<1>4. CASE ResetNotes(p) \/ ResetKids(p, "stack", "reset stack", "reset tags") \/ ResetKids(p, "tags", "reset tags", "walk")
  BY <1>1, <1>2, <1>3, <1>4 DEF ResetNotes, ResetKids, Acts
<1>5. CASE DeleteRow(p)
  BY <1>1, <1>2, <1>3, <1>5 DEF DeleteRow, Acts
<1>6. CASE Persist(p) \/ EndIndex(p)
  BY <1>1, <1>2, <1>3, <1>6 DEF Persist, EndIndex, Acts
<1>7. CASE Refresh(p)
  BY <1>1, <1>2, <1>3, <1>7 DEF Refresh, Acts
<1> QED
  BY <1>4, <1>5, <1>6, <1>7 DEF Holds

(* The others leave the cache and the vault as they are.                      *)
Looks(p) == Acts(p) /\ job'[p] \in Jobs /\ UNCHANGED <<disk, clock, notes, kids, alone, whole>>

(* Rows() reads the table of the notes, and then the tables beside it.         *)
LEMMA ReadsNotes ==
    ASSUME Typed, NEW p \in Procs, ReadNotes(p)
    PROVE  /\ Looks(p) /\ pc[p] = "read notes" /\ pc'[p] = "read stack"
           /\ job'[p].parsed = job[p].parsed
           /\ job'[p].cached = [n \in Notes |-> IF notes[n] = None THEN None
                                                ELSE [row |-> notes[n], stack |-> Gone, tags |-> Gone]]
<1> DEFINE c == [n \in Notes |-> IF notes[n] = None THEN None ELSE [row |-> notes[n], stack |-> Gone, tags |-> Gone]]
<1>1. c \in [Notes -> Kept \cup {None}]
  BY DEF Typed, StoreTyped, Kept
<1>2. Keep(p, "cached", c) /\ pc[p] = "read notes" /\ Goto(p, "read stack") /\ UNCHANGED <<world, db, alone, whole>>
  BY DEF ReadNotes
<1> HIDE DEF c
<1>3. job' = [job EXCEPT ![p] = job'[p]] /\ job'[p] \in Jobs /\ job'[p].cached = c /\ job'[p].parsed = job[p].parsed
  BY <1>1, <1>2, KeepsCached DEF Typed
<1>4. pc' = [pc EXCEPT ![p] = pc'[p]] /\ pc'[p] = "read stack"
  BY <1>2 DEF Goto, Typed, JobsTyped
<1> QED
  BY <1>2, <1>3, <1>4 DEF Looks, Acts, world, db, c

(* The values table t holds by now, for the notes Rows() has found.            *)
With(p, t) == [n \in Notes |-> IF job[p].cached[n] = None THEN None
                               ELSE [job[p].cached[n] EXCEPT ![t] = kids[t][n]]]

LEMMA AttachesKids ==
    ASSUME Typed, NEW p \in Procs, NEW t \in Kids, NEW from, NEW to, Attach(p, t, from, to)
    PROVE  /\ Looks(p) /\ pc[p] = from /\ pc'[p] = to
           /\ job'[p].parsed = job[p].parsed /\ job'[p].cached = With(p, t)
<1> DEFINE c == With(p, t)
<1>1. c \in [Notes -> Kept \cup {None}]
  <2>1. ASSUME NEW n \in Notes, job[p].cached[n] # None
        PROVE  [job[p].cached[n] EXCEPT ![t] = kids[t][n]] \in Kept
    <3>1. job[p].cached[n] \in Kept /\ kids[t][n] \in Texts \cup {Gone}
      BY <2>1 DEF Typed, StoreTyped, JobsTyped, Jobs
    <3> QED
      BY <3>1 DEF Kept, Kids
  <2> QED
    BY <2>1 DEF With
<1>2. Keep(p, "cached", c) /\ pc[p] = from /\ Goto(p, to) /\ UNCHANGED <<world, db, alone, whole>>
  BY DEF Attach, With
<1> HIDE DEF c
<1>3. job' = [job EXCEPT ![p] = job'[p]] /\ job'[p] \in Jobs /\ job'[p].cached = c /\ job'[p].parsed = job[p].parsed
  BY <1>1, <1>2, KeepsCached DEF Typed
<1>4. pc' = [pc EXCEPT ![p] = pc'[p]] /\ pc'[p] = to
  BY <1>2 DEF Goto, Typed, JobsTyped
<1> QED
  BY <1>2, <1>3, <1>4 DEF Looks, Acts, world, db, c

Reads(p) == ReadNotes(p) \/ Attach(p, "stack", "read stack", "read tags") \/ Attach(p, "tags", "read tags", "walk")

LEMMA ReadsTables ==
    ASSUME Typed, NEW p \in Procs, Reads(p)
    PROVE  /\ Looks(p) /\ job'[p].parsed = job[p].parsed
           /\ pc[p] # "idle" /\ pc'[p] \in {"read stack", "read tags", "walk"}
<1>1. "stack" \in Kids /\ "tags" \in Kids
  BY DEF Kids
<1>2. CASE ReadNotes(p)
  BY <1>2, ReadsNotes
<1>3. ASSUME NEW t \in Kids, NEW from, NEW to, Attach(p, t, from, to)
      PROVE  Looks(p) /\ pc[p] = from /\ pc'[p] = to /\ job'[p].parsed = job[p].parsed
  BY <1>3, AttachesKids
<1>4. CASE Attach(p, "stack", "read stack", "read tags")
  <2>1. Looks(p) /\ pc[p] = "read stack" /\ pc'[p] = "read tags" /\ job'[p].parsed = job[p].parsed
    BY <1>1, <1>3, <1>4
  <2> QED
    BY <2>1
<1>5. CASE Attach(p, "tags", "read tags", "walk")
  <2>1. Looks(p) /\ pc[p] = "read tags" /\ pc'[p] = "walk" /\ job'[p].parsed = job[p].parsed
    BY <1>1, <1>3, <1>5, Zenon
  <2> QED
    BY <2>1
<1> QED
  BY <1>2, <1>4, <1>5 DEF Reads

(* Walk lists the files, Prune the rows nothing was loaded for.               *)
LEMMA ListsNotes ==
    ASSUME Typed, NEW p \in Procs, NEW S \in SUBSET Notes, NEW to,
           Keep(p, "todo", SetToSeq(S)), Goto(p, to), UNCHANGED <<world, db, alone, whole>>
    PROVE  /\ Looks(p) /\ pc'[p] = to
           /\ ToSet(job'[p].todo) = S /\ IsInjective(job'[p].todo)
           /\ job'[p].cached = job[p].cached /\ job'[p].parsed = job[p].parsed /\ job'[p].docs = job[p].docs
<1> DEFINE s == SetToSeq(S)
<1>1. s \in Seq(Notes) /\ ToSet(s) = S /\ IsInjective(s)
  BY ListsEachOnce
<1>2. Keep(p, "todo", s)
  OBVIOUS
<1> HIDE DEF s
<1>3. /\ job' = [job EXCEPT ![p] = job'[p]] /\ job'[p] \in Jobs /\ job'[p].todo = s
      /\ job'[p].cached = job[p].cached /\ job'[p].parsed = job[p].parsed /\ job'[p].docs = job[p].docs
  BY <1>1, <1>2, KeepsTodo DEF Typed
<1>4. pc' = [pc EXCEPT ![p] = pc'[p]] /\ pc'[p] = to
  BY DEF Goto, Typed, JobsTyped
<1> QED
  BY <1>1, <1>3, <1>4 DEF Looks, Acts, world, db

(* Stat and Load take the next note in hand, or pass over one that is gone;    *)
(* whatever it is, the rest stays.                                           *)
Passes(p) ==
    /\ disk[Head(job[p].todo)] = None /\ pc'[p] = "next"
    /\ job'[p].todo = Done(p) /\ job'[p].row = job[p].row

Takes(p) ==
    /\ disk[Head(job[p].todo)] # None /\ job'[p].todo = job[p].todo
    /\ \/ p \in Recalls /\ pc[p] = "next" /\ pc'[p] = "ask" /\ job'[p].row = disk[Head(job[p].todo)]
       \/ /\ pc[p] = IF p \in Recalls THEN "load" ELSE "next"
          /\ pc'[p] = "stamp" /\ job'[p].row = [text |-> disk[Head(job[p].todo)].text, readAt |-> clock]

LEMMA TakesNext ==
    ASSUME Typed, NEW p \in Procs, Stat(p) \/ Load(p)
    PROVE  /\ Looks(p) /\ job[p].todo # << >> /\ (pc[p] = "next" \/ (p \in Recalls /\ pc[p] = "load"))
           /\ job'[p].cached = job[p].cached /\ job'[p].parsed = job[p].parsed /\ job'[p].docs = job[p].docs
           /\ Passes(p) \/ Takes(p)
<1> DEFINE n == Head(job[p].todo)
<1>1. job[p].todo # << >> /\ UNCHANGED <<disk, clock, notes, kids, alone, whole>>
      /\ (pc[p] = "next" \/ (p \in Recalls /\ pc[p] = "load"))
  BY DEF Stat, Load, world, db
<1>2. n \in Notes /\ Done(p) \in Seq(Notes)
  BY <1>1, FirstAndRest DEF Typed, JobsTyped, Jobs, Done
<1>3. disk[n] \in File \cup {None}
  BY <1>2 DEF Typed, StoreTyped
<1>4. CASE disk[n] = None
  <2>1. Keep(p, "todo", Done(p)) /\ ((UNCHANGED pc /\ pc[p] = "next") \/ Goto(p, "next"))
    BY <1>4 DEF Stat, Load
  <2>2. pc' = [pc EXCEPT ![p] = pc'[p]] /\ pc'[p] = "next"
    BY <2>1 DEF Goto, Typed, JobsTyped
  <2>3. /\ job' = [job EXCEPT ![p] = job'[p]] /\ job'[p] \in Jobs
        /\ job'[p].todo = Done(p) /\ job'[p].cached = job[p].cached /\ job'[p].row = job[p].row
        /\ job'[p].parsed = job[p].parsed /\ job'[p].docs = job[p].docs
    BY <1>2, <2>1, KeepsTodo DEF Typed
  <2> QED
    BY <1>1, <1>4, <2>2, <2>3 DEF Looks, Acts, Passes
<1>5. CASE disk[n] # None
  <2>1. PICK l, r : /\ Keep(p, "row", r) /\ Goto(p, l)
                    /\ \/ p \in Recalls /\ pc[p] = "next" /\ l = "ask" /\ r = disk[n]
                       \/ /\ pc[p] = IF p \in Recalls THEN "load" ELSE "next"
                          /\ l = "stamp" /\ r = [text |-> disk[n].text, readAt |-> clock]
    BY <1>5 DEF Stat, Load
  <2>2. r \in InHand
    BY <1>3, <1>5, <2>1 DEF InHand, Got, File, Typed, StoreTyped
  <2>3. /\ job' = [job EXCEPT ![p] = job'[p]] /\ job'[p] \in Jobs
        /\ job'[p].row = r /\ job'[p].cached = job[p].cached /\ job'[p].todo = job[p].todo
        /\ job'[p].parsed = job[p].parsed /\ job'[p].docs = job[p].docs
    BY <2>1, <2>2, KeepsRow DEF Typed
  <2>4. pc' = [pc EXCEPT ![p] = pc'[p]] /\ pc'[p] = l
    BY <2>1 DEF Goto, Typed, JobsTyped
  <2> QED
    BY <1>1, <1>5, <2>1, <2>3, <2>4 DEF Looks, Acts, Takes
<1> QED
  BY <1>4, <1>5

(* rowFor serves the row read at the start, or declines.                      *)
Serves(p) ==
    LET n == Head(job[p].todo)
        c == job[p].cached[n]
    IN  /\ c # None /\ Fresh(n, job[p].row) /\ pc'[p] = "next"
        /\ job'[p].todo = Done(p) /\ job'[p].parsed = job[p].parsed
        /\ job'[p].docs = [job[p].docs EXCEPT ![n] = [text |-> c.row.text, stack |-> c.stack, tags |-> c.tags]]

LEMMA AsksTheStore ==
    ASSUME Typed, NEW p \in Procs, Ask(p)
    PROVE  /\ Looks(p) /\ pc[p] = "ask" /\ job'[p].cached = job[p].cached
           /\ Serves(p) \/ (pc'[p] = "load" /\ UNCHANGED job)
<1> DEFINE n == Head(job[p].todo)
           c == job[p].cached[n]
           doc == [text |-> c.row.text, stack |-> c.stack, tags |-> c.tags]
<1>1. pc[p] = "ask" /\ job[p].todo # << >> /\ UNCHANGED <<disk, clock, notes, kids, alone, whole>>
  BY DEF Ask, Typed, JobsTyped, InNote, world, db
<1>2. job[p] \in Jobs
  BY DEF Typed, JobsTyped
<1>3. n \in Notes /\ Done(p) \in Seq(Notes)
  BY <1>1, <1>2, FirstAndRest DEF Jobs, Done
<1>4. CASE Goto(p, "load") /\ UNCHANGED job
  BY <1>1, <1>2, <1>4 DEF Goto, Typed, JobsTyped, Looks, Acts
<1>5. CASE ~(Goto(p, "load") /\ UNCHANGED job)
  <2>1. /\ c # None /\ Fresh(n, job[p].row) /\ Goto(p, "next")
        /\ job' = [job EXCEPT ![p].docs[n] = doc, ![p].todo = Done(p)]
    BY <1>5 DEF Ask
  <2>2. doc \in Doc
    <3>1. c \in Kept
      BY <1>2, <1>3, <2>1 DEF Jobs
    <3> QED
      BY <3>1 DEF Kept, Row, Doc
  <2> HIDE DEF doc
  <2>3. job'[p] = [job[p] EXCEPT !.docs = [job[p].docs EXCEPT ![n] = doc], !.todo = Done(p)]
        /\ job' = [job EXCEPT ![p] = job'[p]]
    BY <1>2, <2>1 DEF Typed, JobsTyped, Jobs
  <2>4. [job[p].docs EXCEPT ![n] = doc] \in [Notes -> Doc \cup {None}]
    BY <1>2, <2>2 DEF Jobs
  <2>5. /\ job'[p] \in Jobs /\ job'[p].docs = [job[p].docs EXCEPT ![n] = doc] /\ job'[p].todo = Done(p)
        /\ job'[p].cached = job[p].cached /\ job'[p].parsed = job[p].parsed
    BY <1>2, <1>3, <2>3, <2>4 DEF Jobs
  <2>6. pc' = [pc EXCEPT ![p] = pc'[p]] /\ pc'[p] = "next"
    BY <2>1 DEF Goto, Typed, JobsTyped
  <2> QED
    BY <1>1, <2>1, <2>3, <2>5, <2>6 DEF Looks, Acts, Serves, doc
<1> QED
  BY <1>4, <1>5

(* The row made of what was read, and of the stamp the file has by now.        *)
LEMMA StampsRows ==
    ASSUME Typed, NEW p \in Procs, Stamp(p)
    PROVE  LET n == Head(job[p].todo)
               row == RowOf(job[p].row, disk[n])
           IN  /\ Looks(p) /\ pc[p] = "stamp" /\ pc'[p] = "next" /\ job[p].todo # << >>
               /\ n \in Notes /\ row \in Row /\ row.madeAt = clock
               /\ row.text = job[p].row.text /\ row.readAt = job[p].row.readAt
               /\ row.mtime = IF disk[n] = None THEN 0 ELSE disk[n].mtime
               /\ job'[p].todo = Done(p) /\ job'[p].cached = job[p].cached
               /\ job'[p].parsed = [job[p].parsed EXCEPT ![n] = row]
               /\ job'[p].docs = [job[p].docs EXCEPT ![n] = Whole(row.text)]
<1> DEFINE n == Head(job[p].todo)
           row == RowOf(job[p].row, disk[n])
<1>1. /\ pc[p] = "stamp" /\ job[p].todo # << >> /\ job[p].row \in Got
      /\ UNCHANGED <<disk, clock, notes, kids, alone, whole>> /\ Goto(p, "next")
  BY DEF Stamp, Typed, JobsTyped, InNote, world, db
<1>2. job[p] \in Jobs
  BY DEF Typed, JobsTyped
<1>3. n \in Notes /\ Done(p) \in Seq(Notes)
  BY <1>1, <1>2, FirstAndRest DEF Jobs, Done
<1>4. /\ row \in Row /\ row.madeAt = clock
      /\ row.text = job[p].row.text /\ row.readAt = job[p].row.readAt
      /\ row.mtime = IF disk[n] = None THEN 0 ELSE disk[n].mtime
  <2>1. disk[n] \in File \cup {None} /\ clock \in 1 .. MaxTime
    BY <1>3 DEF Typed, StoreTyped
  <2>2. (IF disk[n] = None THEN 0 ELSE disk[n].mtime) \in 0 .. MaxTime
    BY <2>1, CacheAssumption DEF File
  <2> QED
    BY <1>1, <2>1, <2>2 DEF RowOf, Row, Got
<1>5. Whole(row.text) \in Doc
  BY <1>1, <1>4 DEF Whole, Doc, Got
<1>6. job' = [job EXCEPT ![p].parsed[n] = row, ![p].docs[n] = Whole(row.text), ![p].todo = Done(p)]
  BY DEF Stamp
<1> HIDE DEF row, n
<1>7. /\ job' = [job EXCEPT ![p] = job'[p]]
      /\ job'[p] = [job[p] EXCEPT !.parsed = [job[p].parsed EXCEPT ![n] = row],
                                  !.docs = [job[p].docs EXCEPT ![n] = Whole(row.text)], !.todo = Done(p)]
  BY <1>2, <1>6 DEF Typed, JobsTyped, Jobs
<1>8. /\ [job[p].parsed EXCEPT ![n] = row] \in [Notes -> Row \cup {None}]
      /\ [job[p].docs EXCEPT ![n] = Whole(row.text)] \in [Notes -> Doc \cup {None}]
  BY <1>2, <1>4, <1>5 DEF Jobs
<1>9. /\ job'[p] \in Jobs /\ job'[p].todo = Done(p) /\ job'[p].cached = job[p].cached
      /\ job'[p].parsed = [job[p].parsed EXCEPT ![n] = row]
      /\ job'[p].docs = [job[p].docs EXCEPT ![n] = Whole(row.text)]
  BY <1>2, <1>3, <1>7, <1>8 DEF Jobs
<1>10. pc' = [pc EXCEPT ![p] = pc'[p]] /\ pc'[p] = "next"
  BY <1>1 DEF Goto, Typed, JobsTyped
<1> QED
  BY <1>1, <1>3, <1>4, <1>7, <1>9, <1>10 DEF Looks, Acts, n, row

(* Prune's deletes.                                                          *)
LEMMA DeletesKids ==
    ASSUME Typed, NEW p \in Procs,
           \/ DeleteKids(p, "stack", "delete stack", "delete tags", job[p].todo)
           \/ DeleteKids(p, "tags", "delete tags", "delete", Done(p))
    PROVE  /\ Acts(p) /\ job'[p] \in Jobs /\ UNCHANGED <<disk, clock, notes>> /\ job[p].todo # << >>
           /\ job'[p].parsed = job[p].parsed
           /\ \/ pc[p] = "delete stack" /\ pc'[p] = "delete tags" /\ job'[p].todo = job[p].todo
              \/ pc[p] = "delete tags" /\ pc'[p] = "delete" /\ job'[p].todo = Done(p)
           /\ Disturb(p) /\ \E t \in Kids : kids' = [kids EXCEPT ![t][Head(job[p].todo)] = Gone]
<1>1. pc[p] \in {"delete stack", "delete tags"} /\ UNCHANGED <<disk, clock, notes>>
  BY DEF DeleteKids, world
<1>2. job[p].todo # << >> /\ job[p] \in Jobs
  BY <1>1 DEF Typed, JobsTyped, InNote
<1>3. job[p].todo \in Seq(Notes) /\ Done(p) \in Seq(Notes)
  BY <1>2, FirstAndRest DEF Jobs, Done
<1>4. PICK s \in {job[p].todo, Done(p)}, to \in {"delete tags", "delete"} :
        /\ Keep(p, "todo", s) /\ Goto(p, to)
        /\ \/ pc[p] = "delete stack" /\ to = "delete tags" /\ s = job[p].todo
           \/ pc[p] = "delete tags" /\ to = "delete" /\ s = Done(p)
  BY DEF DeleteKids
<1>5. /\ job' = [job EXCEPT ![p] = job'[p]] /\ job'[p] \in Jobs
      /\ job'[p].todo = s /\ job'[p].parsed = job[p].parsed
  BY <1>3, <1>4, KeepsTodo DEF Typed
<1>6. pc' = [pc EXCEPT ![p] = pc'[p]] /\ pc'[p] = to
  BY <1>4 DEF Goto, Typed, JobsTyped
<1>7. Disturb(p) /\ \E t \in Kids : kids' = [kids EXCEPT ![t][Head(job[p].todo)] = Gone]
  BY DEF DeleteKids, Kids
<1> QED
  BY <1>1, <1>2, <1>4, <1>5, <1>6, <1>7 DEF Acts

LEMMA WalksOrPrunes ==
    ASSUME Typed, NEW p \in Procs
    PROVE  /\ Walk(p) => /\ Looks(p) /\ pc[p] = "walk" /\ pc'[p] = "next"
                         /\ ToSet(job'[p].todo) = Files /\ IsInjective(job'[p].todo)
                         /\ job'[p].cached = job[p].cached /\ job'[p].parsed = job[p].parsed
           /\ Prune(p) => /\ Looks(p) /\ pc[p] = "prune" /\ pc'[p] = "delete"
                          /\ ToSet(job'[p].todo) = Rows \ Parsed(p)
                          /\ job'[p].parsed = job[p].parsed
<1>1. Files \subseteq Notes /\ Dead(p) \subseteq Notes
  BY DEF Files, Dead, Rows
<1>2. ASSUME Walk(p)
      PROVE  /\ Looks(p) /\ pc[p] = "walk" /\ pc'[p] = "next"
             /\ ToSet(job'[p].todo) = Files /\ IsInjective(job'[p].todo)
             /\ job'[p].cached = job[p].cached /\ job'[p].parsed = job[p].parsed
  <2>1. /\ Keep(p, "todo", SetToSeq(Files)) /\ Goto(p, "next") /\ UNCHANGED <<world, db, alone, whole>>
        /\ pc[p] = "walk"
    BY <1>2 DEF Walk
  <2> QED
    BY <1>1, <2>1, ListsNotes
<1>3. ASSUME Prune(p)
      PROVE  /\ Looks(p) /\ pc[p] = "prune" /\ pc'[p] = "delete"
             /\ ToSet(job'[p].todo) = Rows \ Parsed(p)
             /\ job'[p].parsed = job[p].parsed
  <2>1. /\ Keep(p, "todo", SetToSeq(Dead(p))) /\ Goto(p, "delete") /\ UNCHANGED <<world, db, alone, whole>>
        /\ pc[p] = "prune"
    BY <1>3 DEF Prune
  <2> QED
    BY <1>1, <2>1, ListsNotes DEF Dead
<1> QED
  BY <1>2, <1>3

-----------------------------------------------------------------------------
(* What a process holds is what its code says, at every step.                 *)
LEMMA JobsTypedKept == ASSUME Typed, [Next]_vars PROVE JobsTyped'
<1> USE DEF InNote
<1>1. ASSUME NEW p \in Procs, Ends(p) PROVE JobsTyped'
  BY <1>1, EndsIdle, IdleTyped, JobTyped DEF Typed, IndexLabels, RecallLabels
<1>2. ASSUME NEW p \in Procs, NEW l,
             Begin(p, l), p \in Indexers => l \in {"walk", "reset notes"}, p \in Recalls => l = "read notes"
      PROVE  JobsTyped'
  <2>1. l \notin InNote /\ l # "stamp" /\ l # "ask"
    BY <1>2 DEF Procs
  <2> QED
    BY <1>2, <2>1, BeginsAnew, IdleTyped, JobTyped DEF Typed, IndexLabels, RecallLabels
<1>3. ASSUME NEW p \in Procs, Holds(p) PROVE JobsTyped'
  <2>1. job[p] \in Jobs /\ (p \in Recalls => pc[p] \in RecallLabels) /\ (p \in Indexers => pc[p] \in IndexLabels)
    BY DEF Typed, JobsTyped
  <2>2. ~(p \in Indexers /\ p \in Recalls) /\ (p \in Indexers \/ p \in Recalls)
    BY CacheAssumption DEF Procs
  <2>3. Acts(p) /\ job'[p] = job[p]
    BY <1>3, HoldsOn DEF Typed
  <2>4. /\ pc'[p] \notin {"ask", "load", "stamp", "delete tags"}
        /\ pc'[p] = "delete stack" => job[p].todo # << >>
        /\ p \in Indexers => pc'[p] \in IndexLabels
        /\ p \in Recalls => pc'[p] \in RecallLabels
    BY <1>3, <2>1, <2>2, HoldsOn DEF Typed, IndexLabels, RecallLabels
  <2> QED
    BY <2>1, <2>3, <2>4, JobTyped DEF Typed
<1>4. ASSUME NEW p \in Recalls, Reads(p) PROVE JobsTyped'
  <2>1. p \in Procs /\ p \notin Indexers
    BY CacheAssumption DEF Procs
  <2>2. Looks(p) /\ pc'[p] \in {"read stack", "read tags", "walk"}
    BY <1>4, <2>1, ReadsTables
  <2> QED
    BY <2>1, <2>2, JobTyped DEF Looks, Typed, RecallLabels
<1>5. ASSUME NEW p \in Procs, Walk(p) \/ Prune(p) PROVE JobsTyped'
  <2>1. Looks(p) /\ (pc'[p] = "next" \/ (pc'[p] = "delete" /\ pc[p] = "prune"))
    BY <1>5, WalksOrPrunes
  <2>2. p \in Recalls => pc[p] # "prune"
    BY DEF Typed, JobsTyped, RecallLabels
  <2> QED
    BY <2>1, <2>2, JobTyped DEF Looks, Typed, IndexLabels, RecallLabels
<1>6. ASSUME NEW p \in Procs, Stat(p) \/ Load(p) PROVE JobsTyped'
  <2> DEFINE n == Head(job[p].todo)
  <2>1. Looks(p) /\ job[p].todo # << >> /\ (Passes(p) \/ Takes(p))
    BY <1>6, TakesNext
  <2>2. n \in Notes
    <3>1. job[p].todo \in Seq(Notes)
      BY DEF Typed, JobsTyped, Jobs
    <3> QED
      BY <2>1, <3>1, FirstAndRest
  <2>3. disk[n] # None => disk[n] \in File /\ [text |-> disk[n].text, readAt |-> clock] \in Got
    BY <2>2 DEF Typed, StoreTyped, File, Got
  <2>4. ~(p \in Indexers /\ p \in Recalls)
    BY CacheAssumption
  <2>5. CASE Passes(p)
    BY <2>1, <2>5, JobTyped DEF Looks, Passes, Typed, IndexLabels, RecallLabels
  <2>6. CASE Takes(p)
    <3>1. /\ pc'[p] = "ask" => p \in Recalls /\ job'[p].row \in File
          /\ pc'[p] = "stamp" => job'[p].row \in Got
          /\ pc'[p] \in {"ask", "stamp"} /\ job'[p].todo # << >>
      BY <2>1, <2>3, <2>6 DEF Takes
    <3> QED
      BY <2>1, <2>4, <3>1, JobTyped DEF Looks, Typed, IndexLabels, RecallLabels
  <2> QED
    BY <2>1, <2>5, <2>6
<1>7. ASSUME NEW p \in Recalls, Ask(p) PROVE JobsTyped'
  <2>1. p \in Procs /\ p \notin Indexers
    BY CacheAssumption DEF Procs
  <2>2. /\ Looks(p) /\ pc[p] = "ask" /\ (pc'[p] = "next" \/ (pc'[p] = "load" /\ job' = job))
    BY <1>7, <2>1, AsksTheStore DEF Serves
  <2>3. pc[p] = "ask" => job[p].todo # << >>
    BY <2>1 DEF Typed, JobsTyped
  <2> QED
    BY <2>1, <2>2, <2>3, JobTyped DEF Looks, Typed, RecallLabels
<1>8. ASSUME NEW p \in Procs, Stamp(p) PROVE JobsTyped'
  <2>1. Looks(p) /\ pc'[p] = "next"
    BY <1>8, StampsRows
  <2> QED
    BY <2>1, JobTyped DEF Looks, Typed, IndexLabels, RecallLabels
<1>9. ASSUME NEW p \in Indexers,
             \/ DeleteKids(p, "stack", "delete stack", "delete tags", job[p].todo)
             \/ DeleteKids(p, "tags", "delete tags", "delete", Done(p))
      PROVE  JobsTyped'
  <2>1. p \in Procs /\ p \notin Recalls
    BY CacheAssumption DEF Procs
  <2>2. /\ Acts(p) /\ job'[p] \in Jobs
        /\ (pc'[p] = "delete tags" /\ job'[p].todo # << >>) \/ pc'[p] = "delete"
    BY <1>9, <2>1, DeletesKids
  <2> QED
    BY <2>1, <2>2, JobTyped DEF Typed, IndexLabels
<1>10. CASE TimeStep \/ VaultStep
  BY <1>10 DEF TimeStep, VaultStep, Typed, JobsTyped
<1>11. ASSUME NEW p \in Indexers, IndexStep(p) PROVE JobsTyped'
  <2>1. p \in Procs /\ p \notin Recalls
    BY CacheAssumption DEF Procs
  <2> QED
    BY <1>1, <1>2, <1>3, <1>5, <1>6, <1>8, <1>9, <1>11, <2>1 DEF IndexStep, Holds
<1>12. ASSUME NEW p \in Recalls, RecallStep(p) PROVE JobsTyped'
  <2>1. p \in Procs /\ p \notin Indexers
    BY CacheAssumption DEF Procs
  <2> QED
    BY <1>1, <1>2, <1>3, <1>4, <1>5, <1>6, <1>7, <1>8, <1>12, <2>1 DEF RecallStep, Holds, Reads
<1> QED
  BY <1>10, <1>11, <1>12, Steps

(* What the writers leave in the tables.                                      *)
LEMMA PutsRows ==
    ASSUME Typed, NEW p \in Procs, PutAll(p)
    PROVE  /\ notes' \in [Notes -> Row \cup {None}] /\ kids' \in [Kids -> [Notes -> Texts \cup {Gone}]]
           /\ \A n \in Notes :
                IF job[p].parsed[n] # None
                THEN notes'[n] = job[p].parsed[n] /\ \A t \in Kids : kids'[t][n] = job[p].parsed[n].text
                ELSE notes'[n] = notes[n] /\ \A t \in Kids : kids'[t][n] = kids[t][n]
<1>1. job[p].parsed \in [Notes -> Row \cup {None}]
  BY DEF Typed, JobsTyped, Jobs
<1>2. \A n \in Notes : n \in Parsed(p) <=> job[p].parsed[n] # None
  BY DEF Parsed
<1>3. \A n \in Parsed(p) : job[p].parsed[n] \in Row /\ job[p].parsed[n].text \in Texts
  BY <1>1, <1>2 DEF Row, Parsed
<1>4. /\ notes' = [n \in Notes |-> IF n \in Parsed(p) THEN job[p].parsed[n] ELSE notes[n]]
      /\ kids' = [t \in Kids |-> [n \in Notes |->
                    IF n \in Parsed(p) THEN job[p].parsed[n].text ELSE kids[t][n]]]
  BY DEF PutAll
<1>5. notes' \in [Notes -> Row \cup {None}] /\ kids' \in [Kids -> [Notes -> Texts \cup {Gone}]]
  BY <1>3, <1>4 DEF Typed, StoreTyped
<1> QED
  BY <1>2, <1>4, <1>5

LEMMA StoreTypedKept == ASSUME Typed, [Next]_vars PROVE StoreTyped'
<1>1. \A p \in Procs : Disturb(p) => alone' \in [Procs -> BOOLEAN] /\ whole' \in BOOLEAN
  BY DEF Disturb, Changed, Typed, StoreTyped
<1>2. ASSUME NEW p \in Procs, Looks(p) PROVE StoreTyped'
  BY <1>2 DEF Looks, Typed, StoreTyped
<1>3. ASSUME NEW p \in Procs, NEW l, Begin(p, l) PROVE StoreTyped'
  BY <1>3, BeginsAnew DEF Typed, StoreTyped
<1>4. ASSUME NEW p \in Procs, Ends(p) PROVE StoreTyped'
  BY <1>4, EndsIdle DEF Typed, StoreTyped
<1>5. ASSUME NEW p \in Procs, ResetNotes(p) PROVE StoreTyped'
  BY <1>1, <1>5 DEF ResetNotes, world, Typed, StoreTyped
<1>6. ASSUME NEW p \in Procs, NEW t \in Kids, NEW from, NEW to, ResetKids(p, t, from, to) PROVE StoreTyped'
  BY <1>1, <1>6 DEF ResetKids, world, Typed, StoreTyped
<1>7. ASSUME NEW p \in Procs, DeleteRow(p) PROVE StoreTyped'
  BY <1>1, <1>7 DEF DeleteRow, world, Typed, StoreTyped
<1>8. ASSUME NEW p \in Procs,
             \/ DeleteKids(p, "stack", "delete stack", "delete tags", job[p].todo)
             \/ DeleteKids(p, "tags", "delete tags", "delete", Done(p))
      PROVE  StoreTyped'
  <2>1. UNCHANGED <<disk, clock, notes>> /\ Disturb(p)
    BY <1>8, DeletesKids
  <2>2. PICK t \in Kids : kids' = [kids EXCEPT ![t][Head(job[p].todo)] = Gone]
    BY <1>8, DeletesKids
  <2>3. kids' \in [Kids -> [Notes -> Texts \cup {Gone}]]
    BY <2>2 DEF Typed, StoreTyped
  <2> QED
    BY <1>1, <2>1, <2>3 DEF Typed, StoreTyped
<1>9. ASSUME NEW p \in Procs, Persist(p) \/ Refresh(p) PROVE StoreTyped'
  <2>1. UNCHANGED <<disk, clock>> /\ ((PutAll(p) /\ Disturb(p)) \/ UNCHANGED <<db, alone, whole>>)
    BY <1>9 DEF Persist, Refresh, world
  <2>2. CASE PutAll(p) /\ Disturb(p)
    BY <1>1, <2>1, <2>2, PutsRows DEF Typed, StoreTyped
  <2>3. CASE UNCHANGED <<db, alone, whole>>
    BY <2>1, <2>3 DEF db, Typed, StoreTyped
  <2> QED
    BY <2>1, <2>2, <2>3
<1>10. ASSUME NEW p \in Procs, EndIndex(p) PROVE StoreTyped'
  BY <1>10 DEF EndIndex, world, db, Typed, StoreTyped
<1>11. CASE TimeStep
  BY <1>11, CacheAssumption DEF TimeStep, Typed, StoreTyped
<1>12. CASE VaultStep
  BY <1>12 DEF VaultStep, Typed, StoreTyped
<1>13. ASSUME NEW p \in Procs,
              \/ Reads(p)
              \/ Walk(p) \/ Prune(p) \/ Stat(p) \/ Load(p) \/ Ask(p) \/ Stamp(p)
       PROVE  Looks(p)
  BY <1>13, ReadsTables, WalksOrPrunes, TakesNext, AsksTheStore, StampsRows
<1>14. ASSUME NEW p \in Procs, IndexStep(p) \/ RecallStep(p) PROVE StoreTyped'
  BY <1>2, <1>3, <1>4, <1>5, <1>6, <1>7, <1>8, <1>9, <1>10, <1>13, <1>14 DEF IndexStep, RecallStep, Reads, Kids
<1> QED
  BY <1>11, <1>12, <1>14, Steps DEF Procs

(* The types of the tables, the notes and the processes, without the bounds.   *)
LEMMA CacheTyped == Spec => []Typed
<1>1. Init => Typed
  <2> SUFFICES ASSUME Init PROVE Typed
    OBVIOUS
  <2>1. pc = [p \in Procs |-> "idle"] /\ job = [p \in Procs |-> Idle] /\ Indexers \subseteq Procs /\ Recalls \subseteq Procs
    BY DEF Init, Procs
  <2>2. JobsTyped
    BY <2>1, IdleTyped DEF JobsTyped, Labels, IndexLabels, RecallLabels, InNote
  <2>3. StoreTyped
    BY CacheAssumption DEF Init, StoreTyped, File, None
  <2> QED
    BY <2>2, <2>3 DEF Typed
<1>2. Typed /\ [Next]_vars => Typed'
  BY JobsTypedKept, StoreTypedKept DEF Typed
<1> QED
  BY <1>1, <1>2, PTL DEF Spec

(* The bounds of the runs.                                                   *)
Bounded == edits \in 0 .. MaxEdits /\ runs \in 0 .. MaxRuns /\ kills \in 0 .. MaxKills

(* Every process is where its code can be and holds what its code can hold.      *)
THEOREM TypesAlwaysOK == Spec => []TypeOK
<1>1. Init => Bounded
  BY CacheAssumption DEF Init, Bounded
<1>2. Bounded /\ [Next]_vars => Bounded'
  <2> SUFFICES ASSUME Bounded, [Next]_vars PROVE Bounded'
    OBVIOUS
  <2>1. CASE UNCHANGED bounds
    BY <2>1 DEF Bounded, bounds
  <2>2. ASSUME NEW p \in Procs, NEW l, Begin(p, l) PROVE Bounded'
    BY <2>2, CacheAssumption DEF Begin, Bounded
  <2>3. ASSUME NEW n \in Notes, NEW f, Write(n, f) PROVE Bounded'
    BY <2>3, CacheAssumption DEF Write, Bounded
  <2>4. CASE Stop
    <3>1. UNCHANGED <<edits, runs>> /\ (UNCHANGED kills \/ (kills < MaxKills /\ kills' = kills + 1))
      BY <2>4, Zenon DEF Stop, Locked, Killed
    <3> QED
      BY <3>1, CacheAssumption DEF Bounded
  <2>5. CASE StartIndex \/ StartReindex \/ StartRecall
    BY <2>2, <2>5 DEF StartIndex, StartReindex, StartRecall, Procs
  <2>6. CASE Edit \/ Delist
    BY <2>3, <2>6 DEF Edit, Delist, Files
  <2>7. CASE Reset \/ ReadRows
    BY <2>1, <2>7 DEF Reset, ResetNotes, ResetKids, ReadRows, ReadNotes, Attach
  <2>8. CASE Delete \/ Rest \/ Tick
    BY <2>1, <2>8 DEF Delete, DeleteRow, DeleteKids, Rest, Tick
  <2>9. CASE \/ \E p \in Procs : Walk(p) \/ Load(p) \/ Stamp(p)
             \/ \E p \in Recalls : Stat(p) \/ Ask(p) \/ Refresh(p)
             \/ \E p \in Indexers : Persist(p) \/ Prune(p) \/ EndIndex(p)
    BY <2>1, <2>9 DEF Walk, Load, Stamp, Stat, Ask, Refresh, Persist, Prune, EndIndex
  <2>10. CASE UNCHANGED vars
    BY <2>1, <2>10 DEF vars, bounds
  <2> QED
    BY <2>4, <2>5, <2>6, <2>7, <2>8, <2>9, <2>10 DEF Next
<1>3. Typed /\ Bounded => TypeOK
  BY DEF Typed, StoreTyped, JobsTyped, Jobs, Bounded, TypeOK
<1> QED
  BY <1>1, <1>2, <1>3, CacheTyped, PTL DEF Spec

-----------------------------------------------------------------------------
(* Stamps *)

(* Nobody holds a text read later than now, nor one read later than the last   *)
(* edit of a file that says something else by now.                            *)
Heard(n, r) ==
    /\ r.readAt <= clock
    /\ disk[n] # None /\ disk[n].mtime < r.readAt => disk[n].text = r.text

(* No file is of the future, and no row has a stamp later than its making,      *)
(* whoever made it and however it came into the table.                         *)
Clocked ==
    /\ \A n \in Notes : disk[n] # None => disk[n].mtime <= clock
    /\ \A n \in Notes : notes[n] # None => notes[n].mtime <= notes[n].madeAt /\ Heard(n, notes[n])
    /\ \A p \in Procs, n \in Notes :
         job[p].parsed[n] # None =>
            job[p].parsed[n].mtime <= job[p].parsed[n].madeAt /\ Heard(n, job[p].parsed[n])
    /\ \A p \in Procs : pc[p] = "stamp" => Heard(Head(job[p].todo), job[p].row)

(* The row process p makes of the text in its hand.                            *)
Stamps(p, n) ==
    /\ pc[p] = "stamp" /\ n = Head(job[p].todo)
    /\ job'[p].parsed[n].text = job[p].row.text /\ job'[p].parsed[n].readAt = job[p].row.readAt
    /\ job'[p].parsed[n].madeAt = clock
    /\ job'[p].parsed[n].mtime = IF disk[n] = None THEN 0 ELSE disk[n].mtime

(* A step of a process reads a text, stamps one or moves rows from hand to table. *)
Moves(p) ==
    /\ Acts(p) /\ UNCHANGED <<disk, clock>>
    /\ \A n \in Notes : notes'[n] \in {None, notes[n], job[p].parsed[n]}
    /\ \A n \in Notes : job'[p].parsed[n] \in {None, job[p].parsed[n]} \/ Stamps(p, n)
    /\ pc'[p] = "stamp" => LET n == Head(job'[p].todo)
                           IN  /\ n \in Notes /\ disk[n] # None
                               /\ job'[p].row = [text |-> disk[n].text, readAt |-> clock]

LEMMA RowsMove ==
    ASSUME Typed, NEW p \in Procs, IndexStep(p) \/ RecallStep(p)
    PROVE  Moves(p)
<1>1. ASSUME Looks(p), job'[p].parsed = job[p].parsed, pc'[p] # "stamp" PROVE Moves(p)
  BY <1>1 DEF Looks, Moves
<1>2. ASSUME NEW l, Begin(p, l), l # "stamp" PROVE Moves(p)
  BY <1>2, BeginsAnew, IdleTyped DEF Typed, Moves
<1>3. ASSUME Ends(p) PROVE Moves(p)
  BY <1>3, EndsIdle, IdleTyped DEF Typed, Moves
<1>4. ASSUME Holds(p) PROVE Moves(p)
  <2>1. Acts(p) /\ UNCHANGED <<job, disk, clock>> /\ pc'[p] # "stamp"
    BY <1>4, HoldsOn DEF Typed
  <2>2. \A n \in Notes : notes'[n] \in {None, notes[n], job[p].parsed[n]}
    <3>1. CASE Persist(p) \/ Refresh(p)
      <4>1. PutAll(p) \/ UNCHANGED db
        BY <3>1 DEF Persist, Refresh, db
      <4> QED
        BY <4>1, PutsRows DEF db
    <3>2. CASE ResetNotes(p) \/ DeleteRow(p)
      BY <3>2 DEF ResetNotes, DeleteRow, Typed, StoreTyped
    <3>3. CASE ResetKids(p, "stack", "reset stack", "reset tags") \/ ResetKids(p, "tags", "reset tags", "walk") \/ EndIndex(p)
      BY <3>3 DEF ResetKids, EndIndex, db
    <3> QED
      BY <1>4, <3>1, <3>2, <3>3 DEF Holds
  <2> QED
    BY <2>1, <2>2 DEF Moves
<1>5. ASSUME Stamp(p) PROVE Moves(p)
  <2> DEFINE m == Head(job[p].todo)
             row == RowOf(job[p].row, disk[m])
  <2>1. /\ Looks(p) /\ m \in Notes /\ row.madeAt = clock /\ pc[p] = "stamp" /\ pc'[p] = "next"
        /\ row.text = job[p].row.text /\ row.readAt = job[p].row.readAt
        /\ row.mtime = IF disk[m] = None THEN 0 ELSE disk[m].mtime
        /\ job'[p].parsed = [job[p].parsed EXCEPT ![m] = row]
    BY <1>5, StampsRows
  <2>2. job[p].parsed \in [Notes -> Row \cup {None}]
    BY DEF Typed, JobsTyped, Jobs
  <2> HIDE DEF row
  <2>3. \A n \in Notes : job'[p].parsed[n] \in {None, job[p].parsed[n]} \/ Stamps(p, n)
    BY <2>1, <2>2 DEF Stamps
  <2> QED
    BY <2>1, <2>3 DEF Looks, Moves
<1>6. ASSUME \/ DeleteKids(p, "stack", "delete stack", "delete tags", job[p].todo)
             \/ DeleteKids(p, "tags", "delete tags", "delete", Done(p))
      PROVE  Moves(p)
  <2>1. /\ Acts(p) /\ UNCHANGED <<disk, clock, notes>> /\ job'[p].parsed = job[p].parsed
        /\ pc'[p] # "stamp"
    BY <1>6, DeletesKids
  <2> QED
    BY <2>1 DEF Moves
<1>7. ASSUME Reads(p) \/ Walk(p) \/ Prune(p) \/ Ask(p)
      PROVE  Looks(p) /\ job'[p].parsed = job[p].parsed /\ pc'[p] # "stamp"
  BY <1>7, ReadsTables, WalksOrPrunes, AsksTheStore DEF Serves
<1>8. ASSUME Stat(p) \/ Load(p) PROVE Moves(p)
  <2>1. Looks(p) /\ job[p].todo # << >> /\ job'[p].parsed = job[p].parsed /\ (Passes(p) \/ Takes(p))
    BY <1>8, TakesNext
  <2>2. Head(job[p].todo) \in Notes
    BY <2>1, FirstAndRest DEF Typed, JobsTyped, Jobs
  <2> QED
    BY <2>1, <2>2 DEF Looks, Passes, Takes, Moves
<1> QED
  BY <1>1, <1>2, <1>3, <1>4, <1>5, <1>6, <1>7, <1>8 DEF IndexStep, RecallStep, Holds, Reads

(* No row and no copy of one says more of a file than its second allows.      *)
LEMMA StampsNeverLater == Spec => []Clocked
<1>1. Init => Clocked
  BY IdleTyped DEF Init, Clocked, None
<1>2. Typed /\ Clocked /\ [Next]_vars => Clocked'
  <2> SUFFICES ASSUME Typed, Clocked, [Next]_vars PROVE Clocked'
    OBVIOUS
  <2>0. /\ disk \in [Notes -> File \cup {None}] /\ clock \in Nat
        /\ \A n \in Notes : disk[n] # None => disk[n].mtime \in Nat
        /\ \A n \in Notes : notes[n] # None => notes[n].readAt \in Nat
        /\ \A p \in Procs : job[p].parsed \in [Notes -> Row \cup {None}]
        /\ \A p \in Procs, n \in Notes : job[p].parsed[n] # None => job[p].parsed[n].readAt \in Nat
        /\ \A p \in Procs : pc[p] = "stamp" => /\ job[p].row.readAt \in Nat
                                                 /\ Head(job[p].todo) \in Notes
    <3>1. ASSUME NEW p \in Procs, pc[p] = "stamp"
          PROVE  job[p].row.readAt \in Nat /\ Head(job[p].todo) \in Notes
      <4>1. job[p].row \in Got /\ job[p].todo # << >> /\ job[p].todo \in Seq(Notes)
        BY <3>1 DEF Typed, JobsTyped, Jobs, InNote
      <4>2. Head(job[p].todo) \in Notes
        BY <4>1, FirstAndRest
      <4> QED
        BY <4>1, <4>2, CacheAssumption DEF Got
    <3> QED
      BY <3>1, CacheAssumption DEF Typed, StoreTyped, JobsTyped, Jobs, Row, File
  <2>1. CASE TimeStep
    <3>1. \A t \in Nat : t <= clock => t <= clock'
      BY <2>0, <2>1 DEF TimeStep
    <3>2. UNCHANGED <<disk, notes, pc, job>>
      BY <2>1 DEF TimeStep
    <3> QED
      BY <2>0, <3>1, <3>2 DEF Clocked, Heard
  <2>2. CASE VaultStep
    <3>1. PICK n \in Notes, f \in File \cup {None} : disk' = [disk EXCEPT ![n] = f] /\ (f # None => f.mtime = clock)
      BY <2>2 DEF VaultStep
    <3>2. \A m \in Notes : disk'[m] # None => disk'[m].mtime <= clock
      BY <2>0, <3>1 DEF Clocked
    <3>3. ASSUME NEW m \in Notes, NEW r, r.readAt \in Nat, Heard(m, r) PROVE Heard(m, r)'
      <4>1. CASE m = n
        BY <2>0, <2>2, <3>1, <3>3, <4>1 DEF Heard, VaultStep
      <4>2. CASE m # n
        BY <2>0, <2>2, <3>1, <3>3, <4>2 DEF Heard, VaultStep
      <4> QED
        BY <4>1, <4>2
    <3>4. UNCHANGED <<clock, notes, pc, job>>
      BY <2>2 DEF VaultStep
    <3> QED
      BY <2>0, <3>2, <3>3, <3>4 DEF Clocked, Heard
  <2>3. ASSUME NEW p \in Procs, IndexStep(p) \/ RecallStep(p) PROVE Clocked'
    <3>1. Moves(p)
      BY <2>3, RowsMove
    <3>2. \A q \in Procs \ {p} : job'[q] = job[q] /\ pc'[q] = pc[q]
      BY <3>1 DEF Moves, Acts, Typed, JobsTyped
    <3>3. \A n \in Notes : notes'[n] # None => notes'[n].mtime <= notes'[n].madeAt /\ Heard(n, notes'[n])
      BY <3>1 DEF Moves, Clocked
    <3>4. ASSUME NEW n \in Notes, job'[p].parsed[n] # None
          PROVE  job'[p].parsed[n].mtime <= job'[p].parsed[n].madeAt /\ Heard(n, job'[p].parsed[n])
      <4>1. CASE job'[p].parsed[n] = job[p].parsed[n]
        BY <3>4, <4>1 DEF Clocked
      <4>2. CASE Stamps(p, n)
        <5>1. Heard(n, job[p].row)
          BY <4>2 DEF Stamps, Clocked
        <5> QED
          BY <2>0, <4>2, <5>1 DEF Stamps, Clocked, Heard
      <4> QED
        BY <3>1, <3>4, <4>1, <4>2 DEF Moves
    <3>5. pc'[p] = "stamp" => Heard(Head(job'[p].todo), job'[p].row)
      BY <2>0, <3>1 DEF Moves, Heard
    <3>6. UNCHANGED <<disk, clock>>
      BY <3>1 DEF Moves
    <3> QED
      BY <3>2, <3>3, <3>4, <3>5, <3>6 DEF Clocked, Heard
  <2> QED
    BY <2>1, <2>2, <2>3, Steps DEF Procs
<1> QED
  BY <1>1, <1>2, CacheTyped, PTL DEF Spec

(* A row that passes for the row of a file with other contents was made of a     *)
(* reading the file's last edit fell into: no earlier than the second of the      *)
(* reading, no later than that of the stamp, whoever wrote it, whatever ran       *)
(* beside it, was killed or was refused the database (store.go:153, note.go:25). *)
THEOREM StaleAlwaysWhileRead == Spec => []StaleOnlyWhileRead
<1>1. Typed /\ Clocked => StaleOnlyWhileRead
  <2> SUFFICES ASSUME Typed, Clocked, NEW n \in Notes, Matches(notes[n], disk[n]), notes[n].text # disk[n].text
               PROVE  disk[n].mtime \in notes[n].readAt .. notes[n].madeAt
    BY DEF StaleOnlyWhileRead
  <2>1. notes[n] \in Row /\ disk[n] \in File /\ notes[n].mtime = disk[n].mtime
    BY DEF Typed, StoreTyped, Matches
  <2>2. disk[n].mtime \in Int /\ notes[n].readAt \in Int /\ notes[n].madeAt \in Int
    BY <2>1, CacheAssumption DEF Row, File
  <2>3. notes[n].mtime <= notes[n].madeAt /\ ~(disk[n].mtime < notes[n].readAt)
    BY DEF Clocked, Heard, Matches
  <2> QED
    BY <2>1, <2>2, <2>3
<1> QED
  BY <1>1, StampsNeverLater, CacheTyped, PTL

-----------------------------------------------------------------------------
(* Alone *)

Quietly(q) == pc[q] # "idle" /\ alone[q]
TornLabels == {"reset stack", "reset tags", "delete stack", "delete tags"}

(* A process that nothing has disturbed has no second of its kind beside it, and *)
(* nobody beside it is between two deletes.                                  *)
OneQuiet ==
    \A p, q \in Procs : p # q /\ Quietly(q) => ~Quietly(p) /\ pc[p] \notin TornLabels

(* The steps that change the cache.                                           *)
Writes(p) ==
    \/ ResetNotes(p) \/ ResetKids(p, "stack", "reset stack", "reset tags") \/ ResetKids(p, "tags", "reset tags", "walk")
    \/ DeleteRow(p) \/ DeleteKids(p, "stack", "delete stack", "delete tags", job[p].todo)
    \/ DeleteKids(p, "tags", "delete tags", "delete", Done(p))
    \/ (Persist(p) \/ Refresh(p)) /\ PutAll(p)

(* A step of one process leaves those that stay undisturbed the vault and the    *)
(* cache they have seen.                                                     *)
Spares(p) ==
    /\ Acts(p) /\ UNCHANGED <<disk, clock>>
    /\ \A q \in Procs \ {p} :
         alone'[q] => /\ alone[q]
                      /\ pc[q] # "idle" => UNCHANGED <<notes, kids>> /\ pc'[p] \notin TornLabels
    /\ \/ pc[p] = "idle" /\ (alone'[p] => Others(p) = {}) /\ UNCHANGED whole
       \/ pc'[p] = "idle" /\ (whole' => whole)
       \/ pc[p] # "idle" /\ alone'[p] = alone[p] /\ (whole' => whole \/ (EndIndex(p) /\ alone[p]))
    /\ \/ UNCHANGED <<notes, kids>> /\ pc'[p] \notin TornLabels
       \/ Writes(p) /\ pc[p] # "idle" /\ (whole' => whole /\ Others(p) = {})

LEMMA DisturbSpares ==
    ASSUME Typed, NEW p \in Procs, Acts(p), UNCHANGED <<disk, clock>>, Disturb(p), Writes(p), pc[p] # "idle"
    PROVE  Spares(p)
<1>1. /\ \A q \in Procs : alone'[q] = (alone[q] /\ q \notin Others(p))
      /\ whole' = (whole /\ Others(p) = {})
  BY DEF Disturb, Changed
<1>2. \A q \in Procs \ {p} : pc[q] # "idle" => q \in Others(p)
  BY DEF Others
<1>3. p \notin Others(p)
  BY DEF Others
<1>4. alone'[p] = alone[p]
  BY <1>1, <1>3 DEF Typed, StoreTyped
<1> QED
  BY <1>1, <1>2, <1>4 DEF Spares

LEMMA LooksSpares ==
    ASSUME Typed, NEW p \in Procs, Looks(p), pc[p] # "idle", pc'[p] \notin TornLabels
    PROVE  Spares(p)
  BY DEF Looks, Spares

LEMMA EveryStepSpares ==
    ASSUME Typed, NEW p \in Procs, IndexStep(p) \/ RecallStep(p)
    PROVE  Spares(p)
<1>0. Acts(p) /\ UNCHANGED <<disk, clock>>
  BY RowsMove DEF Moves
<1>1. ASSUME NEW l \in {"walk", "reset notes", "read notes"}, Begin(p, l) PROVE Spares(p)
  <2>1. /\ Acts(p) /\ pc[p] = "idle" /\ pc'[p] = l /\ alone' = [alone EXCEPT ![p] = Others(p) = {}]
        /\ UNCHANGED <<disk, clock, notes, kids, whole>>
    BY <1>1, BeginsAnew DEF Typed
  <2>2. \A q \in Procs \ {p} : alone'[q] = alone[q]
    BY <2>1 DEF Typed, StoreTyped
  <2>3. alone'[p] = (Others(p) = {})
    BY <2>1 DEF Typed, StoreTyped
  <2> QED
    BY <2>1, <2>2, <2>3 DEF Spares, TornLabels
<1>2. ASSUME Ends(p) PROVE Spares(p)
  <2>1. /\ Acts(p) /\ pc'[p] = "idle" /\ UNCHANGED <<disk, clock, notes, kids, alone>> /\ whole' \in {whole, FALSE}
    BY <1>2, EndsIdle DEF Typed
  <2>2. whole' => whole
    BY <2>1
  <2>3. pc'[p] \notin TornLabels
    BY <2>1 DEF TornLabels
  <2> QED
    BY <2>1, <2>2, <2>3 DEF Spares
<1>3. CASE \/ ResetNotes(p) \/ ResetKids(p, "stack", "reset stack", "reset tags")
           \/ ResetKids(p, "tags", "reset tags", "walk") \/ DeleteRow(p) \/ Persist(p)
  <2>1. Disturb(p) /\ pc[p] # "idle"
    BY <1>3 DEF ResetNotes, ResetKids, DeleteRow, Persist
  <2>2. Writes(p)
    BY <1>3 DEF Writes, Persist
  <2> QED
    BY <1>0, <2>1, <2>2, DisturbSpares
<1>4. CASE \/ DeleteKids(p, "stack", "delete stack", "delete tags", job[p].todo)
           \/ DeleteKids(p, "tags", "delete tags", "delete", Done(p))
  <2>1. Disturb(p) /\ pc[p] # "idle"
    BY <1>4, DeletesKids
  <2>2. Writes(p)
    BY <1>4 DEF Writes
  <2> QED
    BY <1>0, <2>1, <2>2, DisturbSpares
<1>5. CASE Refresh(p)
  <2>1. pc[p] = "next" /\ pc'[p] = "done" /\ ((PutAll(p) /\ Disturb(p)) \/ UNCHANGED <<notes, kids, alone, whole>>)
    BY <1>5 DEF Refresh, Goto, db, Typed, JobsTyped
  <2>2. CASE PutAll(p) /\ Disturb(p)
    <3>1. Writes(p)
      BY <1>5, <2>2 DEF Writes
    <3> QED
      BY <1>0, <2>1, <2>2, <3>1, DisturbSpares
  <2>3. CASE UNCHANGED <<notes, kids, alone, whole>>
    BY <1>0, <2>1, <2>3 DEF Spares, TornLabels
  <2> QED
    BY <2>1, <2>2, <2>3
<1>6. CASE EndIndex(p)
  <2>1. /\ pc[p] = "delete" /\ pc'[p] = "done" /\ UNCHANGED <<notes, kids, alone>>
        /\ whole' = (whole \/ alone[p])
    BY <1>6 DEF EndIndex, Goto, db, Typed, JobsTyped
  <2> QED
    BY <1>0, <1>6, <2>1 DEF Spares, TornLabels
<1>7. CASE \/ Reads(p)
           \/ Walk(p) \/ Prune(p)
  <2>1. Looks(p) /\ pc[p] # "idle" /\ pc'[p] \in {"read stack", "read tags", "walk", "next", "delete"}
    BY <1>7, ReadsTables, WalksOrPrunes
  <2>2. pc'[p] \notin TornLabels
    BY <2>1 DEF TornLabels
  <2> QED
    BY <2>1, <2>2, LooksSpares
<1>8. CASE Stat(p) \/ Load(p)
  <2>1. Looks(p) /\ pc[p] # "idle" /\ (Passes(p) \/ Takes(p))
    BY <1>8, TakesNext
  <2>2. pc'[p] \notin TornLabels
    BY <2>1 DEF Passes, Takes, TornLabels
  <2> QED
    BY <2>1, <2>2, LooksSpares
<1>9. CASE Ask(p) \/ Stamp(p)
  <2>1. Looks(p) /\ pc[p] # "idle" /\ pc'[p] \notin TornLabels
    BY <1>9, AsksTheStore, StampsRows DEF Serves, TornLabels
  <2> QED
    BY <2>1, LooksSpares
<1> QED
  BY <1>1, <1>2, <1>3, <1>4, <1>5, <1>6, <1>7, <1>8, <1>9 DEF IndexStep, RecallStep, Reads

(* To whoever stays undisturbed, a step of another is nothing.                  *)
LEMMA NothingToOthers ==
    ASSUME Typed, NEW p \in Procs, IndexStep(p) \/ RecallStep(p), NEW q \in Procs \ {p}, Quietly(q)'
    PROVE  /\ Quietly(q) /\ pc'[q] = pc[q] /\ job'[q] = job[q] /\ UNCHANGED <<disk, notes, kids>>
           /\ pc'[p] \notin TornLabels
<1>1. Spares(p)
  BY EveryStepSpares
<1>2. pc'[q] = pc[q] /\ job'[q] = job[q]
  BY <1>1 DEF Spares, Acts, Typed, JobsTyped
<1> QED
  BY <1>1, <1>2 DEF Spares, Quietly

(* Two processes cannot both have run alone: the one that starts disturbs.    *)
LEMMA OneQuietAtATime == Spec => []OneQuiet
<1>1. Init => OneQuiet
  BY DEF Init, OneQuiet, Quietly
<1>2. Typed /\ OneQuiet /\ [Next]_vars => OneQuiet'
  <2> SUFFICES ASSUME Typed, OneQuiet, [Next]_vars PROVE OneQuiet'
    OBVIOUS
  <2>1. CASE TimeStep
    BY <2>1 DEF TimeStep, OneQuiet, Quietly
  <2>2. CASE VaultStep
    BY <2>2 DEF VaultStep, OneQuiet, Quietly
  <2>3. ASSUME NEW p \in Procs, IndexStep(p) \/ RecallStep(p) PROVE OneQuiet'
    <3>1. Spares(p)
      BY <2>3, EveryStepSpares
    <3>2. \A q \in Procs \ {p} : pc'[q] = pc[q]
      BY <3>1 DEF Spares, Acts, Typed, JobsTyped
    <3>3. \A q \in Procs \ {p} : Quietly(q)' => Quietly(q) /\ pc'[p] \notin TornLabels
      BY <2>3, NothingToOthers
    <3>4. Quietly(p)' => Quietly(p) \/ (Others(p) = {} /\ pc[p] = "idle")
      BY <3>1 DEF Spares, Quietly
    <3>5. Others(p) = {} => \A q \in Procs \ {p} : pc[q] = "idle"
      BY DEF Others
    <3>6. \A q \in Procs \ {p} : Quietly(p)' => ~Quietly(q)' /\ pc'[q] \notin TornLabels
      BY <3>2, <3>3, <3>4, <3>5 DEF OneQuiet, Quietly, TornLabels
    <3> QED
      BY <3>2, <3>3, <3>6 DEF OneQuiet
  <2> QED
    BY <2>1, <2>2, <2>3, Steps DEF Procs
<1> QED
  BY <1>1, <1>2, CacheTyped, PTL DEF Spec

-----------------------------------------------------------------------------
(* forge index *)

Awaits(p, n) == n \in ToSet(job[p].todo)

(* What has been loaded is of a file that is there and has not changed.        *)
Loaded(p) ==
    \A n \in Notes :
        /\ Awaits(p, n) => n \in Files
        /\ job[p].parsed[n] # None => n \in Files /\ job[p].parsed[n].text = disk[n].text

Written(n) == /\ notes[n] # None /\ notes[n].text = disk[n].text
              /\ \A t \in Kids : kids[t][n] = disk[n].text

(* What an undisturbed forge index has achieved by each of its labels.          *)
IndexTrue(p) ==
    /\ pc[p] \in {"walk", "reset notes", "reset stack", "reset tags"} => \A n \in Notes : job[p].parsed[n] = None
    /\ pc[p] \in {"next", "stamp"} => Loaded(p) /\ \A n \in Files : Awaits(p, n) \/ job[p].parsed[n] # None
    /\ pc[p] = "stamp" => job[p].row.text = disk[Head(job[p].todo)].text
    /\ pc[p] \in {"prune", "delete", "delete stack", "delete tags", "done"} => \A n \in Files : Written(n)
    /\ pc[p] = "prune" => \A n \in Notes : job[p].parsed[n] # None => n \in Files
    /\ pc[p] = "prune" => \A n \in Files : job[p].parsed[n] # None
    /\ pc[p] \in {"delete", "delete stack", "delete tags"} =>
         /\ \A n \in Notes : Awaits(p, n) => n \notin Files
         /\ \A n \in Rows \ Files : Awaits(p, n)
    /\ pc[p] \in {"delete stack", "delete tags"} => Head(job[p].todo) \notin Rows
    /\ pc[p] = "done" => Rows \subseteq Files

IndexInv == \A p \in Indexers : Quietly(p) => IndexTrue(p)

(* The step of an undisturbed forge index.                                    *)
LEMMA IndexStepTrue ==
    ASSUME Typed, NEW p \in Indexers, IndexStep(p), Quietly(p)', Quietly(p) => IndexTrue(p)
    PROVE  IndexTrue(p)'
<1> DEFINE n == Head(job[p].todo)
<1>0. p \in Procs /\ p \notin Recalls
  BY CacheAssumption DEF Procs
<1>1. job[p] \in Jobs /\ job[p].todo \in Seq(Notes) /\ job[p].parsed \in [Notes -> Row \cup {None}]
  BY <1>0 DEF Typed, JobsTyped, Jobs
<1>2. job[p].todo # << >> => /\ n \in Notes /\ ToSet(job[p].todo) = {n} \cup ToSet(Done(p))
  BY <1>1, FirstAndRest DEF Done
<1>3. job[p].todo = << >> => \A m : ~Awaits(p, m)
  BY DEF Awaits, ToSet
<1>4. CASE Begin(p, "walk") \/ Begin(p, "reset notes")
  <2>1. pc'[p] \in {"walk", "reset notes"} /\ job'[p].parsed = [m \in Notes |-> None]
    BY <1>0, <1>4, BeginsAnew, IdleTyped DEF Typed
  <2> QED
    BY <2>1 DEF IndexTrue
<1>5. CASE Ends(p)
  BY <1>0, <1>5, EndsIdle DEF Quietly, Typed
<1>6. ASSUME pc[p] # "idle" PROVE IndexTrue(p)
  BY <1>0, <1>6, EveryStepSpares DEF Spares, Quietly
<1>7. CASE ResetNotes(p) \/ ResetKids(p, "stack", "reset stack", "reset tags") \/ ResetKids(p, "tags", "reset tags", "walk")
  <2>1. /\ pc[p] \in {"reset notes", "reset stack", "reset tags"} /\ pc'[p] \in {"reset stack", "reset tags", "walk"}
        /\ UNCHANGED job
    BY <1>0, <1>7 DEF ResetNotes, ResetKids, Goto, Typed, JobsTyped
  <2> QED
    BY <1>6, <2>1 DEF IndexTrue
<1>8. CASE Walk(p)
  <2>1. /\ Looks(p) /\ pc[p] = "walk" /\ pc'[p] = "next" /\ ToSet(job'[p].todo) = Files
        /\ job'[p].parsed = job[p].parsed
    BY <1>0, <1>8, WalksOrPrunes
  <2>2. \A m \in Notes : job'[p].parsed[m] = None
    BY <1>6, <2>1 DEF IndexTrue
  <2> QED
    BY <2>1, <2>2 DEF IndexTrue, Looks, Loaded, Awaits, Files
<1>9. CASE Load(p)
  <2>1. /\ Looks(p) /\ pc[p] = "next" /\ job[p].todo # << >> /\ job'[p].parsed = job[p].parsed
        /\ Passes(p) \/ Takes(p)
    BY <1>0, <1>9, TakesNext
  <2>2. Loaded(p) /\ \A m \in Files : Awaits(p, m) \/ job[p].parsed[m] # None
    BY <1>6, <2>1 DEF IndexTrue
  <2>3. CASE Passes(p)
    <3>1. n \notin Files /\ Awaits(p, n) /\ n \in Notes
      BY <1>2, <2>1, <2>3 DEF Passes, Files, Awaits
    <3> QED
      BY <2>2, <3>1 DEF Loaded
  <2>4. CASE Takes(p)
    <3>1. pc'[p] = "stamp" /\ job'[p].row.text = disk[n].text /\ job'[p].todo = job[p].todo
      BY <1>0, <2>4 DEF Takes
    <3> QED
      BY <2>1, <2>2, <3>1 DEF IndexTrue, Looks, Loaded, Awaits, Files
  <2> QED
    BY <2>1, <2>3, <2>4
<1>10. CASE Stamp(p)
  <2> DEFINE row == RowOf(job[p].row, disk[n])
  <2>1. /\ Looks(p) /\ pc[p] = "stamp" /\ pc'[p] = "next" /\ job[p].todo # << >>
        /\ row \in Row /\ row.text = job[p].row.text
        /\ job'[p].todo = Done(p) /\ job'[p].parsed = [job[p].parsed EXCEPT ![n] = row]
    BY <1>0, <1>10, StampsRows
  <2>2. /\ Loaded(p) /\ \A m \in Files : Awaits(p, m) \/ job[p].parsed[m] # None
        /\ job[p].row.text = disk[n].text
    BY <1>6, <2>1 DEF IndexTrue
  <2>3. row # None
    BY <2>1, CacheAssumption DEF Row, None
  <2> HIDE DEF row
  <2>4. /\ job'[p].parsed[n] = row /\ n \in Files
        /\ \A m \in Notes \ {n} : job'[p].parsed[m] = job[p].parsed[m]
    BY <1>1, <1>2, <2>1, <2>2 DEF Loaded, Awaits
  <2>5. \A m \in Notes : m \in ToSet(job[p].todo) <=> m = n \/ m \in ToSet(job'[p].todo)
    BY <1>2, <2>1
  <2>6. Loaded(p)' /\ \A m \in Files : Awaits(p, m)' \/ job'[p].parsed[m] # None
    BY <2>1, <2>2, <2>3, <2>4, <2>5 DEF Loaded, Awaits, Looks, Files
  <2> QED
    BY <2>1, <2>6 DEF IndexTrue, Looks, Files
<1>11. CASE Persist(p)
  <2>1. /\ pc[p] = "next" /\ pc'[p] = "prune" /\ job[p].todo = << >> /\ UNCHANGED <<job, disk>> /\ PutAll(p)
    BY <1>0, <1>11 DEF Persist, Goto, world, Typed, JobsTyped
  <2>2. Loaded(p) /\ \A m \in Files : job[p].parsed[m] # None
    BY <1>3, <1>6, <2>1 DEF IndexTrue
  <2>3. \A m \in Files : Written(m)'
    <3>1. \A m \in Files : m \in Notes /\ job[p].parsed[m] # None /\ job[p].parsed[m].text = disk[m].text
      BY <2>2 DEF Loaded, Files
    <3>2. \A m \in Files : notes'[m] = job[p].parsed[m] /\ \A t \in Kids : kids'[t][m] = job[p].parsed[m].text
      BY <1>0, <2>1, <3>1, PutsRows
    <3> QED
      BY <2>1, <3>1, <3>2 DEF Written
  <2> QED
    BY <2>1, <2>2, <2>3 DEF IndexTrue, Loaded, Files
<1>12. CASE Prune(p)
  <2>1. /\ Looks(p) /\ pc[p] = "prune" /\ pc'[p] = "delete" /\ ToSet(job'[p].todo) = Rows \ Parsed(p)
        /\ job'[p].parsed = job[p].parsed
    BY <1>0, <1>12, WalksOrPrunes
  <2>2. /\ \A m \in Files : Written(m) /\ job[p].parsed[m] # None
        /\ \A m \in Notes : job[p].parsed[m] # None => m \in Files
    BY <1>6, <2>1 DEF IndexTrue
  <2>3. \A m \in Notes : m \in ToSet(job'[p].todo) <=> m \in Rows /\ m \notin Files
    BY <2>1, <2>2 DEF Parsed, Rows, Files
  <2>4. UNCHANGED <<disk, notes, kids>>
    BY <2>1 DEF Looks
  <2>5. \A m \in Files : Written(m)'
    BY <2>2, <2>4 DEF Written
  <2> QED
    BY <2>1, <2>3, <2>4, <2>5 DEF IndexTrue, Awaits, Files, Rows
<1>13. CASE DeleteRow(p)
  <2>1. /\ pc[p] = "delete" /\ pc'[p] = "delete stack" /\ job[p].todo # << >> /\ UNCHANGED <<job, disk, kids>>
        /\ notes' = [notes EXCEPT ![n] = None]
    BY <1>0, <1>13 DEF DeleteRow, Goto, world, Typed, JobsTyped
  <2>2. /\ \A m \in Files : Written(m) /\ m # n
        /\ \A m \in Notes : Awaits(p, m) => m \notin Files
        /\ \A m \in Rows \ Files : Awaits(p, m)
    BY <1>2, <1>6, <2>1 DEF IndexTrue, Awaits
  <2>3. notes'[n] = None /\ \A m \in Notes \ {n} : notes'[m] = notes[m]
    BY <1>2, <2>1 DEF Typed, StoreTyped
  <2>4. \A m \in Files : Written(m)'
    BY <2>1, <2>2, <2>3 DEF Written, Files
  <2>5. Rows' \subseteq Rows /\ n \notin Rows' /\ UNCHANGED Files
    BY <2>1, <2>3 DEF Rows, Files
  <2> QED
    BY <2>1, <2>2, <2>4, <2>5 DEF IndexTrue, Awaits
<1>14. CASE \/ DeleteKids(p, "stack", "delete stack", "delete tags", job[p].todo)
            \/ DeleteKids(p, "tags", "delete tags", "delete", Done(p))
  <2>1. /\ UNCHANGED <<disk, notes>> /\ job[p].todo # << >>
        /\ \/ pc[p] = "delete stack" /\ pc'[p] = "delete tags" /\ job'[p].todo = job[p].todo
           \/ pc[p] = "delete tags" /\ pc'[p] = "delete" /\ job'[p].todo = Done(p)
    BY <1>0, <1>14, DeletesKids
  <2>2. PICK t \in Kids : kids' = [kids EXCEPT ![t][n] = Gone]
    BY <1>0, <1>14, DeletesKids
  <2>3. /\ \A m \in Files : Written(m) /\ m # n
        /\ \A m \in Notes : Awaits(p, m) => m \notin Files
        /\ \A m \in Rows \ Files : Awaits(p, m)
        /\ n \notin Rows
    BY <1>2, <1>6, <2>1 DEF IndexTrue, Awaits
  <2>4. \A m \in Files : Written(m)'
    <3>1. \A u \in Kids, m \in Notes \ {n} : kids'[u][m] = kids[u][m]
      BY <2>2 DEF Typed, StoreTyped
    <3>2. \A m \in Files : m \in Notes \ {n}
      BY <2>3 DEF Files
    <3> QED
      BY <2>1, <2>3, <3>1, <3>2 DEF Written
  <2>5. \A m \in Rows \ Files : m \in ToSet(job'[p].todo)
    BY <1>2, <2>1, <2>3 DEF Awaits, Rows
  <2>6. \A m \in Notes : m \in ToSet(job'[p].todo) => m \notin Files
    BY <1>2, <2>1, <2>3 DEF Awaits
  <2>7. UNCHANGED <<Files, Rows>>
    BY <2>1 DEF Files, Rows
  <2> QED
    BY <2>1, <2>3, <2>4, <2>5, <2>6, <2>7 DEF IndexTrue, Awaits
<1>15. CASE EndIndex(p)
  <2>1. pc[p] = "delete" /\ pc'[p] = "done" /\ job[p].todo = << >> /\ UNCHANGED <<disk, notes, kids>>
    BY <1>0, <1>15 DEF EndIndex, Goto, world, db, Typed, JobsTyped
  <2>2. (\A m \in Files : Written(m)) /\ Rows \subseteq Files
    BY <1>3, <1>6, <2>1 DEF IndexTrue
  <2>3. \A m \in Files : Written(m)'
    BY <2>1, <2>2 DEF Written
  <2>4. UNCHANGED <<Files, Rows>>
    BY <2>1 DEF Files, Rows
  <2> QED
    BY <2>1, <2>2, <2>3, <2>4 DEF IndexTrue
<1> QED
  BY <1>4, <1>5, <1>7, <1>8, <1>9, <1>10, <1>11, <1>12, <1>13, <1>14, <1>15 DEF IndexStep

(* An undisturbed index is true of the notes at each of its places.           *)
LEMMA IndexAlwaysTrue == Spec => []IndexInv
<1>1. Init => IndexInv
  BY DEF Init, IndexInv, Quietly, Procs
<1>2. Typed /\ IndexInv /\ [Next]_vars => IndexInv'
  <2> SUFFICES ASSUME Typed, IndexInv, [Next]_vars, NEW p \in Indexers, Quietly(p)' PROVE IndexTrue(p)'
    BY DEF IndexInv
  <2>0. p \in Procs
    BY DEF Procs
  <2>1. ASSUME Quietly(p), pc'[p] = pc[p], job'[p] = job[p], UNCHANGED <<disk, notes, kids>>
        PROVE  IndexTrue(p)'
    <3>1. IndexTrue(p)
      BY <2>1 DEF IndexInv
    <3>2. UNCHANGED <<Files, Rows>> /\ (\A m \in Notes : Written(m)' <=> Written(m))
      BY <2>1 DEF Files, Rows, Written
    <3>3. Loaded(p)' <=> Loaded(p)
      BY <2>1, <3>2 DEF Loaded, Awaits
    <3>4. Files \subseteq Notes
      BY DEF Files
    <3> QED
      BY <2>1, <3>1, <3>2, <3>3, <3>4 DEF IndexTrue, Awaits
  <2>2. CASE TimeStep
    BY <2>1, <2>2 DEF TimeStep, Quietly
  <2>3. CASE VaultStep
    BY <2>0, <2>3 DEF VaultStep, Quietly
  <2>4. ASSUME NEW q \in Procs, IndexStep(q) \/ RecallStep(q), q # p PROVE IndexTrue(p)'
    BY <2>0, <2>1, <2>4, NothingToOthers
  <2>5. CASE IndexStep(p)
    BY <2>5, IndexStepTrue DEF IndexInv
  <2> QED
    BY <2>2, <2>3, <2>4, <2>5, Steps, CacheAssumption DEF Procs
<1> QED
  BY <1>1, <1>2, CacheTyped, PTL DEF Spec

(* forge index, undisturbed, leaves a row for each note and no other, each with *)
(* its own values, whatever was in the cache (store.go:1-2).                   *)
THEOREM UndisturbedIndexMakesTrue == Spec => []IndexMakesTrue
<1>1. IndexInv => IndexMakesTrue
  <2> SUFFICES ASSUME IndexInv, NEW p \in Indexers, pc[p] = "done", alone[p]
               PROVE  /\ Rows = Files
                      /\ \A n \in Files : notes[n].text = disk[n].text /\ \A t \in Kids : kids[t][n] = disk[n].text
    BY DEF IndexMakesTrue
  <2>1. (\A n \in Files : Written(n)) /\ Rows \subseteq Files
    BY DEF IndexInv, Quietly, IndexTrue
  <2> QED
    BY <2>1 DEF Written, Rows, Files
<1> QED
  BY <1>1, IndexAlwaysTrue, PTL

-----------------------------------------------------------------------------
(* forge recall *)

(* Where nothing has gone wrong since an undisturbed forge index, the values of  *)
(* each row are its own, and between two deletes there is no row to lose them.   *)
RowsWhole == \A n \in Rows, t \in Kids : kids[t][n] = notes[n].text
Clears(p) ==
    /\ pc[p] \in {"reset stack", "reset tags"} => Rows = {}
    /\ pc[p] \in {"delete stack", "delete tags"} => Head(job[p].todo) \notin Rows
WholeTrue == RowsWhole /\ \A p \in Procs : Clears(p)
WholeInv == whole => WholeTrue

(* A write of a process no other is beside.                                    *)
LEMMA WritesWhole ==
    ASSUME Typed, WholeTrue, NEW p \in Procs, Writes(p)
    PROVE  RowsWhole' /\ Clears(p)'
<1> DEFINE n == Head(job[p].todo)
<1>1. /\ notes \in [Notes -> Row \cup {None}] /\ kids \in [Kids -> [Notes -> Texts \cup {Gone}]]
      /\ pc \in [Procs -> Labels]
  BY DEF Typed, StoreTyped, JobsTyped
<1>2. \A l : Goto(p, l) => pc'[p] = l
  BY <1>1 DEF Goto
<1>3. CASE ResetNotes(p)
  <2>1. Rows' = {} /\ pc'[p] = "reset stack"
    BY <1>2, <1>3 DEF ResetNotes, Rows
  <2> QED
    BY <2>1 DEF RowsWhole, Clears
<1>4. CASE ResetKids(p, "stack", "reset stack", "reset tags") \/ ResetKids(p, "tags", "reset tags", "walk")
  <2>1. pc[p] \in {"reset stack", "reset tags"} /\ notes' = notes /\ pc'[p] \in {"reset tags", "walk"}
    BY <1>2, <1>4 DEF ResetKids
  <2>2. Rows' = {}
    BY <2>1 DEF WholeTrue, Clears, Rows
  <2> QED
    BY <2>1, <2>2 DEF RowsWhole, Clears
<1>5. CASE DeleteRow(p)
  <2>1. pc[p] = "delete" /\ pc'[p] = "delete stack" /\ UNCHANGED <<job, kids>> /\ notes' = [notes EXCEPT ![n] = None]
    BY <1>2, <1>5 DEF DeleteRow
  <2>2. n \in Notes
    <3>1. job[p].todo \in Seq(Notes) /\ job[p].todo # << >>
      BY <1>5 DEF DeleteRow, Typed, JobsTyped, Jobs
    <3> QED
      BY <3>1, FirstAndRest
  <2>3. n \notin Rows' /\ \A m \in Rows' : m \in Rows /\ notes'[m] = notes[m]
    BY <1>1, <2>1, <2>2 DEF Rows
  <2>4. RowsWhole'
    BY <2>1, <2>3 DEF WholeTrue, RowsWhole
  <2>5. Head(job'[p].todo) = n
    BY <2>1
  <2> HIDE DEF n
  <2>6. Clears(p)'
    BY <2>1, <2>3, <2>5 DEF Clears
  <2> QED
    BY <2>4, <2>6
<1>6. CASE \/ DeleteKids(p, "stack", "delete stack", "delete tags", job[p].todo)
           \/ DeleteKids(p, "tags", "delete tags", "delete", Done(p))
  <2>1. /\ notes' = notes
        /\ \/ pc[p] = "delete stack" /\ pc'[p] = "delete tags" /\ job'[p].todo = job[p].todo
           \/ pc[p] = "delete tags" /\ pc'[p] = "delete" /\ job'[p].todo = Done(p)
    BY <1>6, DeletesKids
  <2>2. PICK t \in Kids : kids' = [kids EXCEPT ![t][n] = Gone]
    BY <1>6, DeletesKids
  <2>3. n \notin Rows /\ Rows' = Rows
    BY <2>1 DEF WholeTrue, Clears, Rows
  <2>4. \A u \in Kids, m \in Rows : kids'[u][m] = kids[u][m]
    BY <1>1, <2>2, <2>3 DEF Rows
  <2> QED
    BY <2>1, <2>3, <2>4 DEF WholeTrue, RowsWhole, Clears
<1>7. CASE (Persist(p) \/ Refresh(p)) /\ PutAll(p)
  <2>1. pc'[p] \in {"prune", "done"}
    BY <1>2, <1>7 DEF Persist, Refresh
  <2>2. RowsWhole'
    <3> SUFFICES ASSUME NEW m \in Rows', NEW t \in Kids PROVE kids'[t][m] = notes'[m].text
      BY DEF RowsWhole
    <3>1. m \in Notes /\ notes'[m] # None
      BY DEF Rows
    <3>2. CASE job[p].parsed[m] # None
      BY <1>7, <3>1, <3>2, PutsRows
    <3>3. CASE job[p].parsed[m] = None
      <4>1. notes'[m] = notes[m] /\ kids'[t][m] = kids[t][m]
        BY <1>7, <3>1, <3>3, PutsRows
      <4> QED
        BY <3>1, <4>1 DEF WholeTrue, RowsWhole, Rows
    <3> QED
      BY <3>2, <3>3
  <2> QED
    BY <2>1, <2>2 DEF Clears
<1> QED
  BY <1>3, <1>4, <1>5, <1>6, <1>7 DEF Writes

(* While nothing has gone wrong, a process at rest or at work clears as it should. *)
LEMMA WholeStaysWhole == Spec => []WholeInv
<1>1. Init => WholeInv
  BY DEF Init, WholeInv, WholeTrue, RowsWhole, Clears, Rows
<1>2. Typed /\ OneQuiet /\ IndexInv /\ IndexInv' /\ WholeInv /\ [Next]_vars => WholeInv'
  <2> SUFFICES ASSUME Typed, OneQuiet, IndexInv, IndexInv', WholeInv, [Next]_vars, whole' PROVE WholeTrue'
    BY DEF WholeInv
  <2>1. CASE TimeStep \/ VaultStep
    BY <2>1 DEF TimeStep, VaultStep, WholeInv, WholeTrue, RowsWhole, Clears, Rows
  <2>2. ASSUME NEW p \in Procs, IndexStep(p) \/ RecallStep(p) PROVE WholeTrue'
    <3>1. Spares(p)
      BY <2>2, EveryStepSpares
    <3>2. \A q \in Procs \ {p} : pc'[q] = pc[q] /\ job'[q] = job[q]
      BY <3>1 DEF Spares, Acts, Typed, JobsTyped
    <3>3. CASE UNCHANGED <<notes, kids>> /\ pc'[p] \notin TornLabels /\ whole
      <4>1. WholeTrue /\ Rows' = Rows
        BY <3>3 DEF WholeInv, Rows
      <4>2. RowsWhole'
        BY <3>3, <4>1 DEF WholeTrue, RowsWhole
      <4>3. Clears(p)'
        BY <3>3 DEF Clears, TornLabels
      <4>4. \A q \in Procs \ {p} : Clears(q)'
        BY <3>2, <4>1 DEF WholeTrue, Clears
      <4> QED
        BY <4>2, <4>3, <4>4 DEF WholeTrue
    <3>4. CASE EndIndex(p) /\ alone[p]
      <4>1. /\ pc[p] = "delete" /\ pc'[p] = "done" /\ UNCHANGED <<disk, notes, kids, alone>>
        BY <3>4 DEF EndIndex, Goto, world, db, Typed, JobsTyped
      <4>2. Quietly(p) /\ Quietly(p)'
        BY <3>4, <4>1 DEF Quietly
      <4>3. p \in Indexers
        BY <4>1 DEF Typed, JobsTyped, RecallLabels, Procs
      <4>4. Rows' \subseteq Files' /\ \A n \in Files' : Written(n)'
        BY <4>1, <4>2, <4>3 DEF IndexInv, IndexTrue
      <4>5. RowsWhole'
        BY <4>4 DEF RowsWhole, Written
      <4>6. \A q \in Procs : Clears(q)'
        BY <3>2, <4>1, <4>2 DEF OneQuiet, Clears, TornLabels
      <4> QED
        BY <4>5, <4>6 DEF WholeTrue
    <3>5. CASE Writes(p) /\ whole /\ Others(p) = {}
      <4>1. RowsWhole' /\ Clears(p)'
        BY <3>5, WritesWhole DEF WholeInv
      <4>2. \A q \in Procs \ {p} : pc'[q] = "idle"
        BY <3>2, <3>5 DEF Others
      <4> QED
        BY <4>1, <4>2 DEF WholeTrue, Clears
    <3> QED
      BY <3>1, <3>3, <3>4, <3>5 DEF Spares
  <2> QED
    BY <2>1, <2>2, Steps DEF Procs
<1> QED
  BY <1>1, <1>2, CacheTyped, OneQuietAtATime, IndexAlwaysTrue, PTL DEF Spec

(* What Rows() has returned is what the tables hold.                           *)
Remembers(p) ==
    \A n \in Notes : IF notes[n] = None THEN job[p].cached[n] = None
                    ELSE job[p].cached[n] # None /\ job[p].cached[n].row = notes[n]
RemembersStack(p) == \A n \in Rows : job[p].cached[n].stack = kids["stack"][n]
RemembersTags(p) == \A n \in Rows : job[p].cached[n].tags = kids["tags"][n]

(* What has been decided of a note so far.                                     *)
Ranked(p, n) ==
    IF Awaits(p, n) THEN job[p].parsed[n] = None
    ELSE IF job[p].parsed[n] = None THEN TrueDoc(n, job[p].docs[n])
    ELSE job[p].docs[n] = Whole(disk[n].text)
Ranking(p) == Loaded(p) /\ IsInjective(job[p].todo) /\ \A n \in Files : Ranked(p, n)

PerNote == {"next", "ask", "load", "stamp"}
Knows(p) == Remembers(p) /\ RemembersStack(p) /\ RemembersTags(p)

(* What an undisturbed forge recall has achieved by each of its labels.          *)
RecallTrue(p) ==
    /\ pc[p] \in {"read notes", "read stack", "read tags", "walk"} => \A n \in Notes : job[p].parsed[n] = None
    /\ pc[p] \in {"read stack", "read tags", "walk"} => Remembers(p)
    /\ pc[p] \in {"read tags", "walk"} => RemembersStack(p)
    /\ pc[p] = "walk" => RemembersTags(p)
    /\ pc[p] \in PerNote => Knows(p) /\ Ranking(p)
    /\ pc[p] = "stamp" => job[p].row.text = disk[Head(job[p].todo)].text
    /\ pc[p] = "done" => \A n \in Files : TrueDoc(n, job[p].docs[n])

RecallInv == \A p \in Recalls : Quietly(p) /\ whole => RecallTrue(p)

(* The three reads.                                                          *)
LEMMA ReadsTrue ==
    ASSUME Typed, NEW p \in Procs, Reads(p), RecallTrue(p)
    PROVE  RecallTrue(p)'
<1>1. "stack" \in Kids /\ "tags" \in Kids
  BY DEF Kids
<1>2. /\ job[p].cached \in [Notes -> Kept \cup {None}] /\ notes \in [Notes -> Row \cup {None}]
  BY DEF Typed, StoreTyped, JobsTyped, Jobs
<1>3. /\ UNCHANGED <<disk, notes, kids, Rows>> /\ job'[p].parsed = job[p].parsed
  BY ReadsTables DEF Looks, Rows
<1>4. CASE ReadNotes(p)
  <2>1. /\ pc[p] = "read notes" /\ pc'[p] = "read stack"
        /\ job'[p].cached = [n \in Notes |-> IF notes[n] = None THEN None
                                             ELSE [row |-> notes[n], stack |-> Gone, tags |-> Gone]]
    BY <1>4, ReadsNotes
  <2>2. ASSUME NEW n \in Notes, notes[n] # None
        PROVE  job'[p].cached[n] # None /\ job'[p].cached[n].row = notes[n]
    <3>1. job'[p].cached[n] = [row |-> notes[n], stack |-> Gone, tags |-> Gone]
      BY <2>1, <2>2
    <3> QED
      BY <3>1 DEF None
  <2>3. ASSUME NEW n \in Notes, notes[n] = None PROVE job'[p].cached[n] = None
    BY <2>1, <2>3
  <2>4. Remembers(p)'
    BY <1>3, <2>2, <2>3 DEF Remembers
  <2> QED
    BY <1>3, <2>1, <2>4 DEF RecallTrue, PerNote
<1>5. ASSUME NEW t \in Kids, NEW from, NEW to, Attach(p, t, from, to)
      PROVE  pc[p] = from /\ pc'[p] = to /\ job'[p].cached = With(p, t)
  BY <1>5, AttachesKids
<1>6. ASSUME NEW t \in Kids, job'[p].cached = With(p, t), Remembers(p)
      PROVE  /\ Remembers(p)'
             /\ \A n \in Rows : job'[p].cached[n] = [job[p].cached[n] EXCEPT ![t] = kids[t][n]] /\ job[p].cached[n] \in Kept
  <2>1. \A n \in Notes : job[p].cached[n] # None => job[p].cached[n] \in Kept
    BY <1>2
  <2>2. \A n \in Notes : IF job[p].cached[n] = None THEN job'[p].cached[n] = None
                        ELSE job'[p].cached[n] = [job[p].cached[n] EXCEPT ![t] = kids[t][n]]
    BY <1>6 DEF With
  <2>3. ASSUME NEW n \in Notes, job[p].cached[n] # None
        PROVE  job'[p].cached[n] # None /\ job'[p].cached[n].row = job[p].cached[n].row
    <3>1. job[p].cached[n] \in Kept /\ job'[p].cached[n] = [job[p].cached[n] EXCEPT ![t] = kids[t][n]]
      BY <2>1, <2>2, <2>3
    <3> QED
      BY <3>1 DEF Kept, None, Kids
  <2>4. Remembers(p)'
    BY <1>3, <1>6, <2>2, <2>3 DEF Remembers
  <2>5. \A n \in Rows : n \in Notes /\ job[p].cached[n] # None
    BY <1>6 DEF Remembers, Rows
  <2> QED
    BY <2>1, <2>2, <2>4, <2>5
<1>7. CASE Attach(p, "stack", "read stack", "read tags")
  <2>1. pc[p] = "read stack" /\ pc'[p] = "read tags" /\ job'[p].cached = With(p, "stack")
    BY <1>1, <1>5, <1>7, Zenon
  <2>2. Remembers(p) /\ \A n \in Notes : job[p].parsed[n] = None
    BY <2>1 DEF RecallTrue
  <2>3. /\ Remembers(p)'
        /\ \A n \in Rows : job'[p].cached[n] = [job[p].cached[n] EXCEPT !["stack"] = kids["stack"][n]]
                            /\ job[p].cached[n] \in Kept
    BY <1>1, <1>6, <2>1, <2>2, Zenon
  <2>4. RemembersStack(p)'
    BY <1>3, <2>3 DEF RemembersStack, Kept
  <2> QED
    BY <1>3, <2>1, <2>2, <2>3, <2>4 DEF RecallTrue, PerNote
<1>8. CASE Attach(p, "tags", "read tags", "walk")
  <2>1. pc[p] = "read tags" /\ pc'[p] = "walk" /\ job'[p].cached = With(p, "tags")
    BY <1>1, <1>5, <1>8, Zenon
  <2>2. Remembers(p) /\ RemembersStack(p) /\ \A n \in Notes : job[p].parsed[n] = None
    BY <2>1 DEF RecallTrue
  <2>3. /\ Remembers(p)'
        /\ \A n \in Rows : job'[p].cached[n] = [job[p].cached[n] EXCEPT !["tags"] = kids["tags"][n]]
                            /\ job[p].cached[n] \in Kept
    BY <1>1, <1>6, <2>1, <2>2, Zenon
  <2>4. RemembersStack(p)' /\ RemembersTags(p)'
    BY <1>3, <2>2, <2>3 DEF RemembersStack, RemembersTags, Kept
  <2> QED
    BY <1>3, <2>1, <2>2, <2>3, <2>4 DEF RecallTrue, PerNote
<1> QED
  BY <1>4, <1>7, <1>8 DEF Reads

(* The step of an undisturbed forge recall, where the rows are whole.            *)
LEMMA RecallStepTrue ==
    ASSUME Typed, RowsWhole, NEW p \in Recalls, RecallStep(p), Quietly(p)', Quietly(p) => RecallTrue(p)
    PROVE  RecallTrue(p)'
<1> DEFINE n == Head(job[p].todo)
<1>0. p \in Procs /\ p \notin Indexers
  BY CacheAssumption DEF Procs
<1>1. /\ job[p] \in Jobs /\ job[p].todo \in Seq(Notes) /\ job[p].parsed \in [Notes -> Row \cup {None}]
      /\ job[p].docs \in [Notes -> Doc \cup {None}]
  BY <1>0 DEF Typed, JobsTyped, Jobs
<1>2. job[p].todo # << >> => /\ n \in Notes /\ ToSet(job[p].todo) = {n} \cup ToSet(Done(p))
                             /\ IsInjective(job[p].todo) => n \notin ToSet(Done(p)) /\ IsInjective(Done(p))
  BY <1>1, FirstAndRest DEF Done
<1>3. job[p].todo = << >> => \A m : ~Awaits(p, m)
  BY DEF Awaits, ToSet
<1>4. ASSUME pc[p] # "idle" PROVE RecallTrue(p)
  BY <1>0, <1>4, EveryStepSpares DEF Spares, Quietly
<1>5. ASSUME Knows(p), Looks(p), job'[p].cached = job[p].cached PROVE Knows(p)'
  <2>1. UNCHANGED <<notes, kids, Rows>>
    BY <1>5 DEF Looks, Rows
  <2> QED
    BY <1>5, <2>1 DEF Knows, Remembers, RemembersStack, RemembersTags
<1>6. CASE Begin(p, "read notes")
  <2>1. pc'[p] = "read notes" /\ job'[p].parsed = [m \in Notes |-> None]
    BY <1>0, <1>6, BeginsAnew, IdleTyped DEF Typed
  <2> QED
    BY <2>1 DEF RecallTrue, PerNote
<1>7. CASE Ends(p)
  BY <1>0, <1>7, EndsIdle DEF Quietly, Typed
<1>8. CASE Reads(p)
  <2>1. pc[p] # "idle"
    BY <1>0, <1>8, ReadsTables
  <2> QED
    BY <1>0, <1>4, <1>8, <2>1, ReadsTrue
<1>9. CASE Walk(p)
  <2>1. /\ Looks(p) /\ pc[p] = "walk" /\ pc'[p] = "next" /\ ToSet(job'[p].todo) = Files /\ IsInjective(job'[p].todo)
        /\ job'[p].parsed = job[p].parsed /\ job'[p].cached = job[p].cached
    BY <1>0, <1>9, WalksOrPrunes
  <2>2. Knows(p) /\ \A m \in Notes : job'[p].parsed[m] = None
    BY <1>4, <2>1 DEF RecallTrue, Knows
  <2>3. Files' = Files /\ Files \subseteq Notes
    BY <2>1 DEF Looks, Files
  <2>4. Ranking(p)'
    BY <2>1, <2>2, <2>3 DEF Ranking, Loaded, Ranked, Awaits
  <2> QED
    BY <1>5, <2>1, <2>2, <2>4 DEF RecallTrue, PerNote
<1>10. CASE Stat(p) \/ Load(p)
  <2>1. /\ Looks(p) /\ pc[p] \in {"next", "load"} /\ job[p].todo # << >>
        /\ job'[p].cached = job[p].cached /\ job'[p].parsed = job[p].parsed /\ job'[p].docs = job[p].docs
        /\ Passes(p) \/ Takes(p)
    BY <1>0, <1>10, TakesNext
  <2>2. Knows(p) /\ Ranking(p)
    BY <1>4, <2>1 DEF RecallTrue, PerNote
  <2>3. CASE Passes(p)
    <3>1. n \notin Files /\ Awaits(p, n) /\ n \in Notes
      BY <1>2, <2>1, <2>3 DEF Passes, Files, Awaits
    <3> QED
      BY <2>2, <3>1 DEF Ranking, Loaded
  <2>4. CASE Takes(p)
    <3>1. pc'[p] \in {"ask", "stamp"} /\ (pc'[p] = "stamp" => job'[p].row.text = disk[n].text) /\ job'[p].todo = job[p].todo
      BY <2>4 DEF Takes
    <3>2. UNCHANGED <<disk, notes, Files>>
      BY <2>1 DEF Looks, Files
    <3>3. Loaded(p)' /\ \A m \in Files : Ranked(p, m)'
      BY <2>1, <2>2, <3>1, <3>2 DEF Ranking, Loaded, Awaits, Ranked, TrueDoc
    <3>4. Ranking(p)'
      BY <2>2, <3>1, <3>2, <3>3 DEF Ranking
    <3> QED
      BY <1>5, <2>1, <2>2, <3>1, <3>2, <3>4 DEF RecallTrue, PerNote
  <2> QED
    BY <2>1, <2>3, <2>4
<1>11. CASE Ask(p)
  <2>1. /\ Looks(p) /\ pc[p] = "ask" /\ job'[p].cached = job[p].cached
        /\ Serves(p) \/ (pc'[p] = "load" /\ UNCHANGED job)
    BY <1>0, <1>11, AsksTheStore
  <2>2. Knows(p) /\ Ranking(p) /\ job[p].todo # << >>
    BY <1>0, <1>4, <2>1 DEF RecallTrue, PerNote, Typed, JobsTyped, InNote
  <2>3. UNCHANGED <<disk, notes, Files>>
    BY <2>1 DEF Looks, Files
  <2>4. CASE pc'[p] = "load" /\ UNCHANGED job
    <3>1. Ranking(p)'
      BY <2>2, <2>3, <2>4 DEF Ranking, Loaded, Awaits, Ranked, TrueDoc
    <3> QED
      BY <1>5, <2>1, <2>2, <2>4, <3>1 DEF RecallTrue, PerNote
  <2>5. CASE Serves(p)
    <3> DEFINE c == job[p].cached[n]
               doc == [text |-> c.row.text, stack |-> c.stack, tags |-> c.tags]
    <3>1. /\ c # None /\ pc'[p] = "next" /\ job'[p].todo = Done(p) /\ job'[p].parsed = job[p].parsed
          /\ job'[p].docs = [job[p].docs EXCEPT ![n] = doc]
      BY <2>5 DEF Serves
    <3>2. n \in Rows /\ c.row = notes[n]
      BY <1>2, <2>2, <3>1 DEF Knows, Remembers, Rows
    <3>3. c.stack = notes[n].text /\ c.tags = notes[n].text
      <4>1. c.stack = kids["stack"][n] /\ c.tags = kids["tags"][n]
        BY <2>2, <3>2 DEF Knows, RemembersStack, RemembersTags
      <4> QED
        BY <3>2, <4>1 DEF RowsWhole, Kids
    <3>4. TrueDoc(n, doc)
      BY <3>2, <3>3 DEF TrueDoc, Whole
    <3> HIDE DEF c, doc
    <3>5. job'[p].docs[n] = doc /\ \A m \in Notes \ {n} : job'[p].docs[m] = job[p].docs[m]
      BY <1>1, <1>2, <2>2, <3>1
    <3>6. /\ \A m : m \in ToSet(job[p].todo) <=> m = n \/ m \in ToSet(job'[p].todo)
          /\ n \notin ToSet(job'[p].todo) /\ IsInjective(job'[p].todo)
      BY <1>2, <2>2, <3>1 DEF Ranking
    <3> HIDE DEF n
    <3>7. n \in Files /\ job[p].parsed[n] = None
      BY <1>2, <2>2, <3>6 DEF Ranking, Loaded, Ranked, Awaits
    <3>8. \A m \in Files : m = n => Ranked(p, m)'
      BY <2>3, <3>1, <3>4, <3>5, <3>6, <3>7 DEF Ranked, Awaits, TrueDoc
    <3>9. \A m \in Files : m # n => Ranked(p, m)'
      BY <2>2, <2>3, <3>1, <3>5, <3>6 DEF Ranking, Ranked, Awaits, TrueDoc, Files
    <3>10. Loaded(p)'
      BY <2>2, <2>3, <3>1, <3>6 DEF Ranking, Loaded, Awaits
    <3>11. Ranking(p)'
      BY <2>3, <3>6, <3>8, <3>9, <3>10 DEF Ranking
    <3> QED
      BY <1>5, <2>1, <2>2, <3>1, <3>11 DEF RecallTrue, PerNote
  <2> QED
    BY <2>1, <2>4, <2>5
<1>12. CASE Stamp(p)
  <2> DEFINE row == RowOf(job[p].row, disk[n])
  <2>1. /\ Looks(p) /\ pc[p] = "stamp" /\ pc'[p] = "next" /\ job[p].todo # << >> /\ n \in Notes
        /\ row \in Row /\ row.text = job[p].row.text
        /\ job'[p].todo = Done(p) /\ job'[p].cached = job[p].cached
        /\ job'[p].parsed = [job[p].parsed EXCEPT ![n] = row]
        /\ job'[p].docs = [job[p].docs EXCEPT ![n] = Whole(row.text)]
    BY <1>0, <1>12, StampsRows
  <2>2. Knows(p) /\ Ranking(p) /\ row.text = disk[n].text
    BY <1>4, <2>1 DEF RecallTrue, PerNote
  <2>3. row # None
    BY <2>1, CacheAssumption DEF Row, None
  <2> HIDE DEF row
  <2>4. UNCHANGED <<disk, notes, Files>>
    BY <2>1 DEF Looks, Files
  <2>5. /\ job'[p].parsed[n] = row /\ job'[p].docs[n] = Whole(disk[n].text)
        /\ \A m \in Notes \ {n} : job'[p].parsed[m] = job[p].parsed[m] /\ job'[p].docs[m] = job[p].docs[m]
    BY <1>1, <2>1, <2>2
  <2>6. /\ \A m : m \in ToSet(job[p].todo) <=> m = n \/ m \in ToSet(job'[p].todo)
        /\ n \notin ToSet(job'[p].todo) /\ IsInjective(job'[p].todo)
    BY <1>2, <2>1, <2>2 DEF Ranking
  <2> HIDE DEF n
  <2>7. n \in Files
    BY <2>1, <2>2, <2>6 DEF Ranking, Loaded, Awaits
  <2>8. \A m \in Files : m = n => Ranked(p, m)'
    BY <2>3, <2>4, <2>5, <2>6 DEF Ranked, Awaits
  <2>9. \A m \in Files : m # n => Ranked(p, m)'
    BY <2>2, <2>4, <2>5, <2>6 DEF Ranking, Ranked, Awaits, TrueDoc, Files
  <2>10. Loaded(p)'
    BY <2>2, <2>4, <2>5, <2>6, <2>7 DEF Ranking, Loaded, Awaits
  <2>11. Ranking(p)'
    BY <2>4, <2>6, <2>8, <2>9, <2>10 DEF Ranking
  <2> QED
    BY <1>5, <2>1, <2>2, <2>11 DEF RecallTrue, PerNote
<1>13. CASE Refresh(p)
  <2>1. /\ pc[p] = "next" /\ pc'[p] = "done" /\ job[p].todo = << >> /\ UNCHANGED <<job, disk, Files>>
        /\ PutAll(p) \/ UNCHANGED notes
    BY <1>0, <1>13 DEF Refresh, Goto, world, db, Files, Typed, JobsTyped
  <2>2. Ranking(p) /\ \A m : ~Awaits(p, m)
    BY <1>3, <1>4, <2>1 DEF RecallTrue, PerNote
  <2>3. \A m \in Files : job[p].parsed[m] = None => notes'[m] = notes[m]
    <3>1. Files \subseteq Notes
      BY DEF Files
    <3> QED
      BY <1>0, <2>1, <3>1, PutsRows
  <2>4. \A m \in Files : TrueDoc(m, job[p].docs[m])'
    BY <2>1, <2>2, <2>3 DEF Ranking, Ranked, TrueDoc
  <2> QED
    BY <2>1, <2>4 DEF RecallTrue, PerNote
<1> QED
  BY <1>6, <1>7, <1>8, <1>9, <1>10, <1>11, <1>12, <1>13 DEF RecallStep, Reads

(* An undisturbed recall is true of the notes at each of its places.          *)
LEMMA QuietRecallAlwaysTrue == Spec => []RecallInv
<1>1. Init => RecallInv
  BY DEF Init, RecallInv, Quietly, Procs
<1>2. Typed /\ OneQuiet /\ WholeInv /\ RecallInv /\ [Next]_vars => RecallInv'
  <2> SUFFICES ASSUME Typed, OneQuiet, WholeInv, RecallInv, [Next]_vars, NEW p \in Recalls, Quietly(p)', whole'
               PROVE  RecallTrue(p)'
    BY DEF RecallInv
  <2>0. p \in Procs /\ p \notin Indexers
    BY CacheAssumption DEF Procs
  <2>1. ASSUME Quietly(p), whole, pc'[p] = pc[p], job'[p] = job[p], UNCHANGED <<disk, notes, kids>>
        PROVE  RecallTrue(p)'
    <3>1. RecallTrue(p)
      BY <2>1 DEF RecallInv
    <3>2. UNCHANGED <<Files, Rows>>
      BY <2>1 DEF Files, Rows
    <3>3. (Loaded(p)' <=> Loaded(p)) /\ (Knows(p)' <=> Knows(p))
      BY <2>1, <3>2 DEF Loaded, Awaits, Knows, Remembers, RemembersStack, RemembersTags
    <3>4. /\ \A n \in Notes : Ranked(p, n)' <=> Ranked(p, n)
          /\ \A n \in Notes : TrueDoc(n, job[p].docs[n])' <=> TrueDoc(n, job[p].docs[n])
      BY <2>1 DEF Ranked, TrueDoc, Awaits
    <3>5. Files \subseteq Notes
      BY DEF Files
    <3>6. Ranking(p)' <=> Ranking(p)
      BY <2>1, <3>2, <3>3, <3>4, <3>5 DEF Ranking
    <3>7. /\ Remembers(p)' <=> Remembers(p)
          /\ RemembersStack(p)' <=> RemembersStack(p)
          /\ RemembersTags(p)' <=> RemembersTags(p)
      BY <2>1, <3>2 DEF Remembers, RemembersStack, RemembersTags
    <3> QED
      BY <2>1, <3>1, <3>2, <3>3, <3>4, <3>5, <3>6, <3>7 DEF RecallTrue
  <2>2. CASE TimeStep
    BY <2>1, <2>2 DEF TimeStep, Quietly
  <2>3. CASE VaultStep
    BY <2>0, <2>3 DEF VaultStep, Quietly
  <2>4. ASSUME NEW q \in Procs, IndexStep(q) \/ RecallStep(q), q # p PROVE RecallTrue(p)'
    <3>1. Quietly(p) /\ pc'[p] = pc[p] /\ job'[p] = job[p] /\ UNCHANGED <<disk, notes, kids>>
      BY <2>0, <2>4, NothingToOthers
    <3>2. whole
      <4>1. Spares(q)
        BY <2>4, EveryStepSpares
      <4>2. EndIndex(q) /\ alone[q] => Quietly(q)
        BY DEF EndIndex, Quietly
      <4> QED
        BY <2>0, <2>4, <3>1, <4>1, <4>2 DEF Spares, OneQuiet
    <3> QED
      BY <2>1, <3>1, <3>2
  <2>5. CASE RecallStep(p)
    <3>1. whole
      <4>1. Spares(p)
        BY <2>0, <2>5, EveryStepSpares
      <4>2. ~EndIndex(p)
        BY <2>0 DEF EndIndex, Typed, JobsTyped, RecallLabels
      <4> QED
        BY <4>1, <4>2 DEF Spares
    <3>2. RowsWhole
      BY <3>1 DEF WholeInv, WholeTrue
    <3>3. Quietly(p) => RecallTrue(p)
      BY <3>1 DEF RecallInv
    <3> QED
      BY <2>5, <3>2, <3>3, RecallStepTrue
  <2> QED
    BY <2>2, <2>3, <2>4, <2>5, <2>0, Steps DEF Procs
<1> QED
  BY <1>1, <1>2, CacheTyped, OneQuietAtATime, WholeStaysWhole, PTL DEF Spec

(* Self-healing where nothing has gone wrong since the last forge index: a recall *)
(* that runs alone ranks every note of the vault as it stands on disk, but for a   *)
(* row whose reading an edit fell into (recall_load.go).                       *)
THEOREM QuietRecallAlwaysServes == Spec => []QuietRecallServes
<1>1. RecallInv => QuietRecallServes
  BY DEF RecallInv, QuietRecallServes, RecallTrue, Quietly
<1> QED
  BY <1>1, QuietRecallAlwaysTrue, PTL
==============================================================================
