--------------------------- MODULE Budget_proofs ---------------------------
(***************************************************************************)
(* What holds of Budget for every number of processes, every configuration *)
(* chain, cap and price: its types, the bound on what the race between the *)
(* look at the ledger and the booking can overspend, that the static core  *)
(* calls no model, that a note leaves the queue only after a booking, and  *)
(* that one a spent tier leaves behind gets into it.                       *)
(***************************************************************************)
EXTENDS Budget, FiniteSetTheorems, TLAPS

(***************************************************************************)
(* Configuration and selection.                                            *)
(***************************************************************************)

\* Merging two layers gives a layer.
LEMMA MergeTyped ==
    ASSUME NEW low, NEW high, IsLayer(low), IsLayer(high)
    PROVE  IsLayer(Merge(low, high))
<1> DEFINE D == DOMAIN low \cup DOMAIN high
           m == Merge(low, high)
<1>1. m = [k \in D |-> IF k \in DOMAIN high THEN high[k] ELSE low[k]]
  BY DEF Merge
<1>2. \A k \in D : m[k] \in STRING
  <2> TAKE k \in D
  <2>1. CASE k \in DOMAIN high
    BY <1>1, <2>1 DEF IsLayer
  <2>2. CASE k \notin DOMAIN high
    BY <1>1, <2>2 DEF IsLayer
  <2> QED
    BY <2>1, <2>2
<1>3. DOMAIN m = D
  BY <1>1
<1> HIDE DEF m
<1>4. m \in [D -> STRING]
  <2>1. m = [k \in D |-> m[k]]
    BY <1>1, <1>3
  <2> QED
    BY <1>2, <2>1
<1> QED
  BY <1>3, <1>4 DEF IsLayer, m

\* So the whole chain loads as one.
LEMMA LoadTyped ==
    ASSUME NEW c \in Chains
    PROVE  IsLayer(Load(c))
<1>1. IsLayer(c[1]) /\ IsLayer(c[2]) /\ IsLayer(c[3]) /\ IsLayer(c[4])
  BY BudgetAssumption
<1> QED
  BY <1>1, MergeTyped DEF Load

\* What Resolve returns is an engine, and a metered one still has money in the ledger it read.
LEMMA Resolved ==
    ASSUME NEW c, NEW seen, NEW s
    PROVE  /\ Resolve(c, seen, s) \in Engines
           /\ Resolve(c, seen, s) \in Metered => Remains(seen, Resolve(c, seen, s))
<1> DEFINE ready == {i \in 1..3 : Available(c, seen, Chain(c, s)[i])}
           first == CHOOSE i \in ready : \A j \in ready : i <= j
<1>1. CASE ready = {}
  BY <1>1 DEF Resolve, Engines, Metered
<1>2. CASE ready # {}
  <2>1. \E i \in ready : \A j \in ready : i <= j
    <3>1. \A i \in ready : i \in {1, 2, 3}
      OBVIOUS
    <3> HIDE DEF ready
    <3>2. CASE 1 \in ready
      BY <3>1, <3>2
    <3>3. CASE 1 \notin ready /\ 2 \in ready
      BY <3>1, <3>3
    <3>4. CASE 1 \notin ready /\ 2 \notin ready
      BY <1>2, <3>1, <3>4
    <3> QED
      BY <3>2, <3>3, <3>4
  <2>2. first \in ready
    BY <2>1
  <2>3. Resolve(c, seen, s) = Chain(c, s)[first]
    BY <1>2 DEF Resolve
  <2>4. Available(c, seen, Resolve(c, seen, s))
    BY <2>2, <2>3
  <2> HIDE DEF ready, first
  <2> QED
    BY <2>4 DEF Available, Engines, Metered
<1> QED
  BY <1>1, <1>2

(***************************************************************************)
(* Types.                                                                  *)
(***************************************************************************)

\* Where a process stands tells what its job holds.
PlacedAt(p) ==
    /\ pc[p] = "recording" =>
         job[p].rel \in Notes /\ job[p].won \in Tiers /\ Recordable(job[p].stage, job[p].won)
    /\ pc[p] = "queueing" => job[p].rel \in Notes
    /\ pc[p] = "calling" /\ p \in Drains => job[p].rel \in Notes
    /\ pc[p] = "answered" => job[p].won \in Metered /\ (p \in Drains => job[p].rel \in Notes)
    /\ pc[p] = "booked" => p \in Drains /\ job[p].rel \in Notes /\ due[p] = 0

Placed == \A p \in Workers : PlacedAt(p)

TypeInv == TypeOK /\ Placed

\* Only process p moves.
Alone(p) ==
    \A q \in Workers \ {p} :
        pc'[q] = pc[q] /\ job'[q] = job[q] /\ (q \in Drains => due'[q] = due[q])

\* A process without a job holds a well-typed nothing.
LEMMA NoJobTyped == Blank \in Note /\ NoJob \in Job
<1>1. {} \in Trails
  BY DEF Trails
<1>2. Blank \in Note
  BY <1>1 DEF Blank, Note
<1> QED
  BY <1>2 DEF NoJob, Job, Engines

\* A process that moves to a place with a job of the right type leaves the others alone.
LEMMA MoveTyped ==
    ASSUME TypeOK, NEW p \in Workers, NEW j \in Job, NEW place \in Places,
           job' = [job EXCEPT ![p] = j], Goes(p, place)
    PROVE  /\ pc' \in [Workers -> Places] /\ job' \in [Workers -> Job]
           /\ pc'[p] = place /\ job'[p] = j
           /\ \A q \in Workers \ {p} : pc'[q] = pc[q] /\ job'[q] = job[q]
BY DEF TypeOK, Goes

\* A process that exits has no job.
LEMMA ExitTyped ==
    ASSUME TypeOK, NEW p \in Workers, Exits(p)
    PROVE  /\ pc' \in [Workers -> Places] /\ job' \in [Workers -> Job]
           /\ pc'[p] = "idle" /\ job'[p] = NoJob
           /\ \A q \in Workers \ {p} : pc'[q] = pc[q] /\ job'[q] = job[q]
<1>1. NoJob \in Job /\ "idle" \in Places
  BY NoJobTyped DEF Places
<1> QED
  BY <1>1, MoveTyped DEF Exits

\* After its call a process is idle or drains on, with no job.
LEMMA ProceedTyped ==
    ASSUME TypeOK, NEW p \in Callers, Proceeds(p)
    PROVE  /\ pc' \in [Workers -> Places] /\ job' \in [Workers -> Job]
           /\ todo' \in [Drains -> SUBSET Notes]
           /\ pc'[p] \in {"idle", "draining"} /\ job'[p] = NoJob
           /\ \A q \in Workers \ {p} : pc'[q] = pc[q] /\ job'[q] = job[q]
<1>1. NoJob \in Job /\ "draining" \in Places /\ p \in Workers
  BY NoJobTyped DEF Places, Workers
<1>2. CASE p \in Drains
  <2>1. /\ Goes(p, "draining") /\ job' = [job EXCEPT ![p] = NoJob]
        /\ todo' = [todo EXCEPT ![p] = @ \ {job[p].rel}]
    BY <1>2 DEF Proceeds
  <2> QED
    BY <1>1, <1>2, <2>1, MoveTyped DEF TypeOK
<1>3. CASE p \notin Drains
  <2>1. Exits(p) /\ UNCHANGED todo
    BY <1>3 DEF Proceeds
  <2> QED
    BY <1>1, <2>1, ExitTyped DEF TypeOK
<1> QED
  BY <1>2, <1>3

\* A note that is written stays a note.
LEMMA WriteTyped ==
    ASSUME TypeOK, NEW n \in Notes, NEW new \in Note, Write(n, new)
    PROVE  note' \in [Notes -> Note] /\ faults' \in Nat
BY DEF TypeOK, Write

\* A lookup leaves the bookkeeping a number.
LEMMA LookupTyped ==
    ASSUME TypeOK, NEW seen, Lookup(seen)
    PROVE  /\ faults' \in Nat
           /\ \A t \in Metered : Remains(seen, t) => seen = spent /\ spent[t] < Cap[t]
<1>1. faults' \in Nat
  BY DEF TypeOK, Lookup
<1>2. ASSUME NEW t \in Metered, Remains(seen, t)
      PROVE  seen = spent /\ spent[t] < Cap[t]
  <2>1. Cap[t] \in Nat
    BY CapAssumption DEF Ledger
  <2> QED
    BY <1>2, <2>1 DEF Lookup, Remains
<1> QED
  BY <1>1, <1>2

\* The other processes are placed as they were, so only the one that moved matters.
LEMMA PlacedMoves ==
    ASSUME Placed, NEW p \in Workers, Alone(p), PlacedAt(p)'
    PROVE  Placed'
<1>1. ASSUME NEW q \in Workers, q # p
      PROVE  PlacedAt(q)'
  <2>1. PlacedAt(q)
    BY DEF Placed
  <2>2. pc'[q] = pc[q] /\ job'[q] = job[q] /\ (q \in Drains => due'[q] = due[q])
    BY <1>1 DEF Alone
  <2> QED
    BY <2>1, <2>2 DEF PlacedAt
<1> QED
  BY <1>1 DEF Placed

\* A stamped trail is a trail: one line per stage, and none but "none" for a locked one.
LEMMA TrailTyped ==
    ASSUME NEW trail \in Trails, NEW s \in Stages, NEW tier \in Tiers, Recordable(s, tier)
    PROVE  MergeTrail(trail, Entry(s, tier)) \in Trails
<1> DEFINE e == Entry(s, tier)
           new == MergeTrail(trail, e)
           All == {Entry(z, t) : z \in Stampable, t \in Tiers}
<1>1. e \in All /\ e.stage = s /\ e.tier = tier
  BY DEF Recordable, Entry
<1>2. \A f \in new : f = e \/ (f \in trail /\ f.stage # s)
  BY <1>1 DEF MergeTrail
<1>3. \A f, g \in trail : (f.stage = g.stage => f = g) /\ (f.stage \in Locked => f.tier = "none")
  BY DEF Trails
<1>4. trail \subseteq All
  BY DEF Trails
<1>5. new \in SUBSET All
  BY <1>1, <1>2, <1>4
<1> HIDE DEF e, new
<1>6. \A f, g \in new : (f.stage = g.stage => f = g) /\ (f.stage \in Locked => f.tier = "none")
  BY <1>1, <1>2, <1>3 DEF Recordable
<1> QED
  BY <1>5, <1>6 DEF Trails, new, e

\* Every configuration and every vault the model starts from is well typed.
LEMMA InitTyped == Init => TypeInv
<1> SUFFICES ASSUME Init PROVE TypeInv
  OBVIOUS
<1>1. IsLayer(cfg)
  BY LoadTyped DEF Init
<1>2. spent \in Ledger
  BY DEF Init, Nothing, Ledger
<1>3. \A b \in BOOLEAN : [Blank EXCEPT !.pending = b] \in Note
  BY NoJobTyped DEF Note
<1>4. note \in [Notes -> Note]
  <2>1. \A n \in Notes : [Blank EXCEPT !.pending = n \in FirstQueued] \in Note
    <3> TAKE n \in Notes
    <3>1. (n \in FirstQueued) \in BOOLEAN
      OBVIOUS
    <3> QED
      BY <1>3, <3>1
  <2> QED
    BY <2>1 DEF Init
<1>5. pc \in [Workers -> Places] /\ job \in [Workers -> Job]
  BY NoJobTyped DEF Init, Places
<1>6. due \in [Callers -> 0..MaxCost]
  BY BudgetAssumption DEF Init
<1>7. TypeOK
  BY <1>1, <1>2, <1>4, <1>5, <1>6 DEF Init, TypeOK
<1>8. Placed
  BY DEF Init, Placed, PlacedAt
<1> QED
  BY <1>7, <1>8 DEF TypeInv

\* The steps of `forge engine run` up to the call.
LEMMA RunTyped ==
    ASSUME TypeInv, NEW p \in Runs, Ask(p) \/ Degrade(p) \/ Queue(p)
    PROVE  TypeInv'
<1> USE DEF TypeInv
<1>p. p \in Workers /\ p \in Callers /\ p \notin Drains
  BY BudgetAssumption DEF Workers, Callers
<1>1. CASE Ask(p)
  <2>1. PICK s \in Stages, r \in Notes \cup {NoRel}, seen \in {spent, Cap} :
           /\ Lookup(seen)
           /\ job' = [job EXCEPT ![p] = [stage |-> s, rel |-> r,
                                         won |-> Resolve(cfg, seen, s), copy |-> Blank]]
           /\ Goes(p, IF Resolve(cfg, seen, s) = "none" THEN "degraded" ELSE "calling")
    BY <1>1 DEF Ask
  <2> DEFINE j == [stage |-> s, rel |-> r, won |-> Resolve(cfg, seen, s), copy |-> Blank]
             place == IF Resolve(cfg, seen, s) = "none" THEN "degraded" ELSE "calling"
  <2>2. j \in Job /\ place \in Places /\ place \in {"degraded", "calling"}
    BY NoJobTyped, Resolved DEF Job, Places
  <2>3. job' = [job EXCEPT ![p] = j] /\ Goes(p, place)
    BY <2>1
  <2> HIDE DEF j, place
  <2>4. /\ pc' \in [Workers -> Places] /\ job' \in [Workers -> Job] /\ pc'[p] = place
        /\ \A q \in Workers \ {p} : pc'[q] = pc[q] /\ job'[q] = job[q]
    BY <1>p, <2>2, <2>3, MoveTyped
  <2>5. due' \in [Callers -> 0..MaxCost] /\ \A q \in Drains : due'[q] = due[q]
    BY <1>1, <1>p, BudgetAssumption DEF Ask, TypeOK, Callers
  <2>6. TypeOK'
    BY <1>1, <2>1, <2>4, <2>5, LookupTyped DEF Ask, TypeOK
  <2>7. PlacedAt(p)' /\ Alone(p)
    BY <1>p, <2>2, <2>4, <2>5 DEF PlacedAt, Alone
  <2> QED
    BY <1>p, <2>6, <2>7, PlacedMoves
<1>2. CASE Degrade(p)
  <2>1. PICK seen \in {spent, Cap} :
           /\ Lookup(seen)
           /\ IF Exhausted(cfg, seen, job[p].stage) /\ Queues(job[p].rel)
                THEN /\ job' = [job EXCEPT ![p].copy = note[job[p].rel]]
                     /\ Goes(p, "queueing")
                ELSE Exits(p)
    BY <1>2 DEF Degrade
  <2>2. /\ pc' \in [Workers -> Places] /\ job' \in [Workers -> Job]
        /\ \A q \in Workers \ {p} : pc'[q] = pc[q] /\ job'[q] = job[q]
        /\ pc'[p] \in {"queueing", "idle"} /\ (pc'[p] = "queueing" => job'[p].rel \in Notes)
    <3>1. CASE Exhausted(cfg, seen, job[p].stage) /\ Queues(job[p].rel)
      <4>1. job[p] \in Job /\ job[p].rel \in Notes
        BY <1>p, <3>1 DEF Queues, TypeOK, Job
      <4>2. note[job[p].rel] \in Note
        BY <4>1 DEF TypeOK
      <4> DEFINE j == [job[p] EXCEPT !.copy = note[job[p].rel]]
      <4>3. j \in Job /\ j.rel \in Notes
        BY <4>1, <4>2 DEF Job
      <4>4. job' = [job EXCEPT ![p] = j] /\ Goes(p, "queueing") /\ "queueing" \in Places
        BY <2>1, <3>1 DEF Places
      <4> HIDE DEF j
      <4> QED
        BY <1>p, <4>3, <4>4, MoveTyped
    <3>2. CASE ~(Exhausted(cfg, seen, job[p].stage) /\ Queues(job[p].rel))
      BY <1>p, <2>1, <3>2, ExitTyped
    <3> QED
      BY <3>1, <3>2
  <2>3. TypeOK'
    BY <1>2, <2>1, <2>2, LookupTyped DEF Degrade, TypeOK
  <2>4. PlacedAt(p)' /\ Alone(p)
    BY <1>2, <1>p, <2>2 DEF PlacedAt, Alone, Degrade
  <2> QED
    BY <1>p, <2>3, <2>4, PlacedMoves
<1>3. CASE Queue(p)
  <2>1. job[p].rel \in Notes /\ job[p] \in Job
    BY <1>3, <1>p DEF Queue, Placed, PlacedAt, TypeOK
  <2>2. [job[p].copy EXCEPT !.pending = TRUE] \in Note
    BY <2>1 DEF Job, Note
  <2>3. note' \in [Notes -> Note] /\ faults' \in Nat
    BY <1>3, <2>1, <2>2, WriteTyped DEF Queue
  <2>4. /\ pc' \in [Workers -> Places] /\ job' \in [Workers -> Job] /\ pc'[p] = "idle"
        /\ \A q \in Workers \ {p} : pc'[q] = pc[q] /\ job'[q] = job[q]
    BY <1>3, <1>p, ExitTyped DEF Queue
  <2>5. TypeOK'
    BY <1>3, <2>3, <2>4 DEF Queue, TypeOK
  <2>6. PlacedAt(p)' /\ Alone(p)
    BY <1>3, <2>4 DEF PlacedAt, Alone, Queue
  <2> QED
    BY <1>p, <2>5, <2>6, PlacedMoves
<1> QED
  BY <1>1, <1>2, <1>3

\* The steps of `forge check` beside the call.
LEMMA DrainTyped ==
    ASSUME TypeInv, NEW p \in Drains, Collect(p) \/ TakeNext(p) \/ EndDrain(p) \/ Clear(p)
    PROVE  TypeInv'
<1> USE DEF TypeInv
<1>p. p \in Workers /\ p \in Callers
  BY DEF Workers, Callers
<1>d. ASSUME due' = [due EXCEPT ![p] = 0]
      PROVE  due' \in [Callers -> 0..MaxCost] /\ \A q \in Drains \ {p} : due'[q] = due[q]
  BY <1>d, <1>p, BudgetAssumption DEF TypeOK, Callers
<1>1. CASE Collect(p)
  <2>1. TypeOK'
    BY <1>1, <1>d DEF Collect, Goes, Places, TypeOK, counts
  <2>2. PlacedAt(p)' /\ Alone(p)
    BY <1>1, <1>d, <1>p DEF Collect, Goes, PlacedAt, Alone, TypeOK
  <2> QED
    BY <1>p, <2>1, <2>2, PlacedMoves
<1>2. CASE TakeNext(p)
  <2>1. PICK n \in todo[p], seen \in {spent, Cap} :
           /\ Lookup(seen)
           /\ job' = [job EXCEPT ![p] = [NoJob EXCEPT !.rel = n, !.won = "advisor", !.copy = note[n]]]
    BY <1>2 DEF TakeNext
  <2>2. n \in Notes
    BY DEF TypeOK
  <2> DEFINE j == [NoJob EXCEPT !.rel = n, !.won = "advisor", !.copy = note[n]]
  <2>3. j \in Job /\ j.rel \in Notes
    BY <2>2, NoJobTyped DEF TypeOK, Job, Engines, Metered
  <2>4. job' = [job EXCEPT ![p] = j] /\ Goes(p, "calling") /\ "calling" \in Places
    BY <1>2, <2>1 DEF TakeNext, Places
  <2> HIDE DEF j
  <2>5. /\ pc' \in [Workers -> Places] /\ job' \in [Workers -> Job]
        /\ pc'[p] = "calling" /\ job'[p] = j
        /\ \A q \in Workers \ {p} : pc'[q] = pc[q] /\ job'[q] = job[q]
    BY <1>p, <2>3, <2>4, MoveTyped
  <2>6. TypeOK'
    BY <1>2, <1>d, <2>1, <2>5, LookupTyped DEF TakeNext, TypeOK
  <2>7. PlacedAt(p)' /\ Alone(p)
    BY <1>2, <1>d, <2>3, <2>5 DEF TakeNext, PlacedAt, Alone
  <2> QED
    BY <1>p, <2>6, <2>7, PlacedMoves
<1>3. CASE EndDrain(p)
  <2>1. PICK seen \in {spent, Cap} : Lookup(seen)
    BY <1>3 DEF EndDrain
  <2>2. /\ pc' \in [Workers -> Places] /\ job' \in [Workers -> Job] /\ pc'[p] = "idle"
        /\ \A q \in Workers \ {p} : pc'[q] = pc[q] /\ job'[q] = job[q]
    BY <1>3, <1>p, ExitTyped DEF EndDrain
  <2>3. TypeOK'
    BY <1>3, <2>1, <2>2, LookupTyped DEF EndDrain, TypeOK
  <2>4. PlacedAt(p)' /\ Alone(p)
    BY <1>3, <2>2 DEF PlacedAt, Alone, EndDrain
  <2> QED
    BY <1>p, <2>3, <2>4, PlacedMoves
<1>4. CASE Clear(p)
  <2>1. job[p].rel \in Notes /\ job[p] \in Job
    BY <1>4, <1>p DEF Clear, Placed, PlacedAt, TypeOK
  <2>2. [job[p].copy EXCEPT !.pending = FALSE] \in Note
    BY <2>1 DEF Job, Note
  <2>3. note' \in [Notes -> Note] /\ faults' \in Nat
    BY <1>4, <2>1, <2>2, WriteTyped DEF Clear
  <2>4. /\ pc' \in [Workers -> Places] /\ job' \in [Workers -> Job]
        /\ todo' \in [Drains -> SUBSET Notes] /\ pc'[p] \in {"idle", "draining"}
        /\ \A q \in Workers \ {p} : pc'[q] = pc[q] /\ job'[q] = job[q]
    BY <1>4, <1>p, ProceedTyped DEF Clear
  <2>5. TypeOK'
    BY <1>4, <2>3, <2>4 DEF Clear, TypeOK
  <2>6. PlacedAt(p)' /\ Alone(p)
    BY <1>4, <2>4 DEF PlacedAt, Alone, Clear
  <2> QED
    BY <1>p, <2>5, <2>6, PlacedMoves
<1> QED
  BY <1>1, <1>2, <1>3, <1>4

\* The call, its answer and its booking.
LEMMA CallTyped ==
    ASSUME TypeInv, NEW p \in Callers,
           CallFails(p) \/ CritiqueInvalid(p) \/ CallAnswers(p) \/ Spend(p) \/ SpendFails(p)
    PROVE  TypeInv'
<1> USE DEF TypeInv
<1>p. p \in Workers
  BY DEF Workers
<1>o. \A q \in Drains : q \in Callers
  BY DEF Callers
<1>g. ASSUME Proceeds(p), \A q \in Drains \ {p} : due'[q] = due[q]
      PROVE  /\ pc' \in [Workers -> Places] /\ job' \in [Workers -> Job]
             /\ todo' \in [Drains -> SUBSET Notes]
             /\ PlacedAt(p)' /\ Alone(p)
  BY <1>g, ProceedTyped DEF PlacedAt, Alone
<1>c. ASSUME NEW c \in Costs, due' = [due EXCEPT ![p] = c]
      PROVE  due' \in [Callers -> 0..MaxCost] /\ \A q \in Drains \ {p} : due'[q] = due[q]
  BY <1>c, <1>o, BudgetAssumption DEF TypeOK
<1>1. CASE CallFails(p)
  <2>1. TypeOK' /\ PlacedAt(p)' /\ Alone(p)
    BY <1>1, <1>g DEF CallFails, TypeOK, counts
  <2> QED
    BY <1>p, <2>1, PlacedMoves
<1>2. CASE CritiqueInvalid(p)
  <2>1. due' \in [Callers -> 0..MaxCost] /\ \A q \in Drains \ {p} : due'[q] = due[q]
    BY <1>2, <1>c DEF CritiqueInvalid
  <2>2. TypeOK' /\ PlacedAt(p)' /\ Alone(p)
    BY <1>2, <1>g, <2>1 DEF CritiqueInvalid, TypeOK, counts
  <2> QED
    BY <1>p, <2>2, PlacedMoves
<1>3. CASE CallAnswers(p)
  <2>1. CASE Books(job[p].won)
    <3>1. due' \in [Callers -> 0..MaxCost] /\ \A q \in Drains \ {p} : due'[q] = due[q]
      BY <1>3, <1>c, <2>1 DEF CallAnswers
    <3>2. TypeOK'
      BY <1>3, <2>1, <3>1 DEF CallAnswers, Goes, Places, TypeOK, counts
    <3>3. PlacedAt(p)' /\ Alone(p)
      BY <1>3, <1>p, <2>1, <3>1
         DEF CallAnswers, Goes, Books, Placed, PlacedAt, Alone, TypeOK
    <3> QED
      BY <1>p, <3>2, <3>3, PlacedMoves
  <2>2. CASE ~Books(job[p].won)
    <3>1. TypeOK' /\ PlacedAt(p)' /\ Alone(p)
      BY <1>3, <1>g, <2>2 DEF CallAnswers, TypeOK, counts
    <3> QED
      BY <1>p, <3>1, PlacedMoves
  <2> QED
    BY <2>1, <2>2
<1>4. CASE Spend(p)
  <2>1. job[p].won \in Metered
    BY <1>4, <1>p DEF Spend, Placed, PlacedAt
  <2>2. spent' \in Ledger
    <3>1. spent' = [spent EXCEPT ![job[p].won] = spent[job[p].won] + due[p]]
      BY <1>4 DEF Spend
    <3>2. due[p] \in Nat /\ spent \in [Metered -> Nat]
      BY BudgetAssumption DEF TypeOK, Ledger
    <3> QED
      BY <2>1, <3>1, <3>2 DEF Ledger
  <2>3. /\ due' \in [Callers -> 0..MaxCost] /\ due'[p] = 0
        /\ \A q \in Drains \ {p} : due'[q] = due[q]
    BY <1>4, <1>o, BudgetAssumption DEF Spend, TypeOK
  <2>4. CASE p \in Drains
    <3>1. TypeOK'
      BY <1>4, <2>2, <2>3, <2>4 DEF Spend, Goes, Places, TypeOK, counts
    <3>2. PlacedAt(p)' /\ Alone(p)
      BY <1>4, <1>p, <2>3, <2>4 DEF Spend, Goes, Placed, PlacedAt, Alone, TypeOK
    <3> QED
      BY <1>p, <3>1, <3>2, PlacedMoves
  <2>5. CASE p \notin Drains
    <3>1. TypeOK' /\ PlacedAt(p)' /\ Alone(p)
      BY <1>4, <1>g, <2>2, <2>3, <2>5 DEF Spend, TypeOK, counts
    <3> QED
      BY <1>p, <3>1, PlacedMoves
  <2> QED
    BY <2>4, <2>5
<1>5. CASE SpendFails(p)
  <2>1. TypeOK' /\ PlacedAt(p)' /\ Alone(p)
    BY <1>5, <1>g DEF SpendFails, TypeOK
  <2> QED
    BY <1>p, <2>1, PlacedMoves
<1> QED
  BY <1>1, <1>2, <1>3, <1>4, <1>5

\* The two steps of `forge engine record`.
LEMMA RecordTyped ==
    ASSUME TypeInv, NEW p \in Recorders, RecordLoad(p) \/ Record(p)
    PROVE  TypeInv'
<1> USE DEF TypeInv
<1>p. p \in Workers /\ p \notin Drains
  BY BudgetAssumption DEF Workers, Callers
<1>1. CASE RecordLoad(p)
  <2>1. PICK s \in Stages, tier \in Tiers, n \in Notes :
           /\ Recordable(s, tier)
           /\ job' = [job EXCEPT ![p] = [stage |-> s, rel |-> n, won |-> tier, copy |-> note[n]]]
    BY <1>1 DEF RecordLoad
  <2> DEFINE j == [stage |-> s, rel |-> n, won |-> tier, copy |-> note[n]]
  <2>2. /\ j \in Job /\ j.rel \in Notes /\ j.won \in Tiers
        /\ Recordable(j.stage, j.won)
    BY <2>1, BudgetAssumption DEF TypeOK, Job
  <2>3. job' = [job EXCEPT ![p] = j] /\ Goes(p, "recording") /\ "recording" \in Places
    BY <1>1, <2>1 DEF RecordLoad, Places
  <2> HIDE DEF j
  <2>4. /\ pc' \in [Workers -> Places] /\ job' \in [Workers -> Job]
        /\ pc'[p] = "recording" /\ job'[p] = j
        /\ \A q \in Workers \ {p} : pc'[q] = pc[q] /\ job'[q] = job[q]
    BY <1>p, <2>2, <2>3, MoveTyped
  <2>5. TypeOK'
    BY <1>1, <2>4 DEF RecordLoad, TypeOK
  <2>6. PlacedAt(p)' /\ Alone(p)
    BY <1>1, <2>2, <2>4 DEF RecordLoad, PlacedAt, Alone
  <2> QED
    BY <1>p, <2>5, <2>6, PlacedMoves
<1>2. CASE Record(p)
  <2> DEFINE s == job[p].stage
             tier == job[p].won
  <2>1. job[p].rel \in Notes /\ job[p] \in Job /\ tier \in Tiers /\ Recordable(s, tier)
    BY <1>2, <1>p DEF Record, Placed, PlacedAt, TypeOK
  <2>2. s \in Stages /\ job[p].copy \in Note
    BY <2>1, StageAssumption DEF Recordable, Job
  <2>3. MergeTrail(job[p].copy.trail, Entry(s, tier)) \in Trails
    BY <2>1, <2>2, TrailTyped DEF Note
  <2>4. [job[p].copy EXCEPT !.trail = MergeTrail(@, Entry(s, tier))] \in Note
    BY <2>2, <2>3 DEF Note
  <2>5. note' \in [Notes -> Note] /\ faults' \in Nat
    BY <1>2, <2>1, <2>4, WriteTyped DEF Record
  <2>6. /\ pc' \in [Workers -> Places] /\ job' \in [Workers -> Job] /\ pc'[p] = "idle"
        /\ \A q \in Workers \ {p} : pc'[q] = pc[q] /\ job'[q] = job[q]
    BY <1>2, <1>p, ExitTyped DEF Record
  <2>7. TypeOK'
    BY <1>2, <2>5, <2>6 DEF Record, TypeOK
  <2>8. PlacedAt(p)' /\ Alone(p)
    BY <1>2, <2>6 DEF PlacedAt, Alone, Record
  <2> QED
    BY <1>p, <2>7, <2>8, PlacedMoves
<1> QED
  BY <1>1, <1>2

\* Midnight, an author and a kill.
LEMMA WorldTyped ==
    ASSUME TypeInv, Midnight \/ (\E n \in Notes : Edit(n)) \/ (\E p \in Workers : Crash(p))
    PROVE  TypeInv'
<1> USE DEF TypeInv
<1>1. CASE Midnight
  BY <1>1 DEF Midnight, Nothing, Ledger, TypeOK, Placed, PlacedAt, counts
<1>2. ASSUME NEW n \in Notes, Edit(n)
      PROVE  TypeInv'
  <2>1. note' \in [Notes -> Note]
    <3>1. [note[n] EXCEPT !.text = edits + 1] \in Note
      BY DEF TypeOK, Note
    <3> QED
      BY <1>2, <3>1 DEF Edit, TypeOK
  <2> QED
    BY <1>2, <2>1 DEF Edit, TypeOK, Placed, PlacedAt
<1>3. ASSUME NEW p \in Workers, Crash(p)
      PROVE  TypeInv'
  <2>1. /\ pc' \in [Workers -> Places] /\ job' \in [Workers -> Job] /\ pc'[p] = "idle"
        /\ \A q \in Workers \ {p} : pc'[q] = pc[q] /\ job'[q] = job[q]
    BY <1>3, ExitTyped DEF Crash
  <2>2. TypeOK'
    BY <1>3, <2>1 DEF Crash, TypeOK
  <2>3. PlacedAt(p)' /\ Alone(p)
    BY <1>3, <2>1 DEF Crash, PlacedAt, Alone
  <2> QED
    BY <2>2, <2>3, PlacedMoves
<1> QED
  BY <1>1, <1>2, <1>3

\* One step of anybody keeps the types.
LEMMA StepTyped == TypeInv /\ [Next]_vars => TypeInv'
<1> SUFFICES ASSUME TypeInv, [Next]_vars PROVE TypeInv'
  OBVIOUS
<1>1. CASE UNCHANGED vars
  BY <1>1 DEF vars, counts, TypeInv, TypeOK, Placed, PlacedAt
<1>2. CASE Next
  BY <1>2, RunTyped, DrainTyped, CallTyped, RecordTyped, WorldTyped DEF Next
<1> QED
  BY <1>1, <1>2

\* TypeOK holds of every behaviour: the ledger only counts up from nothing, every copy of a
\* note a process writes back is a note, and no trail shows a model behind a locked stage.
THEOREM BudgetTypes == Spec => []TypeOK
<1>1. Init => TypeInv
  BY InitTyped
<1>2. TypeInv /\ [Next]_vars => TypeInv'
  BY StepTyped
<1>3. TypeInv => TypeOK
  BY DEF TypeInv
<1> QED
  BY <1>1, <1>2, <1>3, PTL DEF Spec

(***************************************************************************)
(* What the race between check and booking can cost.                       *)
(***************************************************************************)

\* Room is left for every call in flight on a tier: what is booked and what may still be
\* booked stays under the cap and one call per process.
RoomFor(cap, booked, flying) ==
    IF cap = 0 THEN booked = 0 /\ flying = {}
    ELSE booked + Cardinality(flying) * MaxCost < cap + Cardinality(Callers) * MaxCost

Room == \A t \in Metered : RoomFor(Cap[t], spent[t], InFlight(t))

\* Fewer calls in flight, and no more booked, leave room.
LEMMA RoomLeft ==
    ASSUME NEW cap \in Nat, NEW b \in Nat, NEW d \in Nat, d <= b,
           NEW I \in SUBSET Callers, NEW J \in SUBSET I,
           RoomFor(cap, b, I)
    PROVE  RoomFor(cap, d, J)
<1>1. IsFiniteSet(I) /\ IsFiniteSet(J) /\ IsFiniteSet(Callers)
  BY BudgetAssumption, FS_Subset
<1>2. Cardinality(J) \in Nat /\ Cardinality(I) \in Nat /\ Cardinality(J) <= Cardinality(I)
  BY <1>1, FS_Subset, FS_CardinalityType
<1>3. Cardinality(Callers) \in Nat /\ MaxCost \in Nat
  BY <1>1, FS_CardinalityType, BudgetAssumption
<1>4. CASE cap = 0
  BY <1>4 DEF RoomFor
<1>5. CASE cap # 0
  <2>1. Cardinality(J) * MaxCost <= Cardinality(I) * MaxCost
    BY <1>2, <1>3
  <2>2. /\ Cardinality(J) * MaxCost \in Nat /\ Cardinality(I) * MaxCost \in Nat
        /\ Cardinality(Callers) * MaxCost \in Nat
    BY <1>2, <1>3
  <2> QED
    BY <1>5, <2>1, <2>2 DEF RoomFor
<1> QED
  BY <1>4, <1>5

\* A call that starts while money is left finds room.
LEMMA RoomToStart ==
    ASSUME NEW cap \in Nat, NEW b \in Nat, b < cap, NEW J \in SUBSET Callers
    PROVE  RoomFor(cap, b, J)
<1>1. IsFiniteSet(J) /\ IsFiniteSet(Callers)
  BY BudgetAssumption, FS_Subset
<1>2. Cardinality(J) \in Nat /\ Cardinality(Callers) \in Nat /\ Cardinality(J) <= Cardinality(Callers)
  BY <1>1, FS_Subset, FS_CardinalityType
<1>3. /\ Cardinality(J) * MaxCost <= Cardinality(Callers) * MaxCost
      /\ Cardinality(J) * MaxCost \in Nat /\ Cardinality(Callers) * MaxCost \in Nat
  BY <1>2, BudgetAssumption
<1> QED
  BY <1>3 DEF RoomFor

\* A call that is booked gives up the room it held.
LEMMA RoomBooked ==
    ASSUME NEW cap \in Nat, NEW b \in Nat, NEW d \in 0..MaxCost,
           NEW I \in SUBSET Callers, NEW p \in I, NEW J \in SUBSET (I \ {p}),
           RoomFor(cap, b, I)
    PROVE  RoomFor(cap, b + d, J)
<1>1. IsFiniteSet(I) /\ IsFiniteSet(J) /\ IsFiniteSet(I \ {p})
  BY BudgetAssumption, FS_Subset
<1>2. /\ Cardinality(J) \in Nat /\ Cardinality(I) \in Nat /\ Cardinality(Callers) \in Nat
      /\ Cardinality(J) <= Cardinality(I \ {p})
      /\ Cardinality(I \ {p}) = Cardinality(I) - 1
  BY <1>1, FS_Subset, FS_RemoveElement, FS_CardinalityType, BudgetAssumption
<1>3. cap # 0 /\ MaxCost \in Nat /\ d \in Nat /\ d <= MaxCost
  BY BudgetAssumption DEF RoomFor
<1>4. Cardinality(J) * MaxCost <= (Cardinality(I) - 1) * MaxCost
  BY <1>2, <1>3
<1>5. (Cardinality(I) - 1) * MaxCost = Cardinality(I) * MaxCost - MaxCost
  BY <1>2, <1>3
<1>6. /\ Cardinality(J) * MaxCost \in Int /\ Cardinality(I) * MaxCost \in Int
      /\ Cardinality(Callers) * MaxCost \in Int
  BY <1>2, <1>3
<1> QED
  BY <1>3, <1>4, <1>5, <1>6 DEF RoomFor

\* A process that moves anywhere but into a call leaves no more calls in flight.
LEMMA FlightMoves ==
    ASSUME NEW p \in Workers, NEW t \in Metered,
           \A q \in Workers \ {p} : pc'[q] = pc[q] /\ job'[q] = job[q],
           pc'[p] \notin {"calling", "answered"}
    PROVE  InFlight(t)' \subseteq InFlight(t) \ {p}
BY DEF InFlight, Workers

\* A run takes to the air only on a tier with money left.
LEMMA AskRoom ==
    ASSUME TypeInv, Room, NEW p \in Runs, Ask(p), NEW t \in Metered
    PROVE  RoomFor(Cap[t], spent[t], InFlight(t)')
<1>p. p \in Workers /\ p \in Callers
  BY DEF Workers, Callers
<1>1. PICK s \in Stages, r \in Notes \cup {NoRel}, seen \in {spent, Cap} :
         /\ Lookup(seen)
         /\ job' = [job EXCEPT ![p] = [stage |-> s, rel |-> r,
                                       won |-> Resolve(cfg, seen, s), copy |-> Blank]]
         /\ Goes(p, IF Resolve(cfg, seen, s) = "none" THEN "degraded" ELSE "calling")
  BY DEF Ask
<1>2. /\ \A q \in Workers \ {p} : pc'[q] = pc[q] /\ job'[q] = job[q]
      /\ job'[p].won = Resolve(cfg, seen, s)
  BY <1>1, <1>p DEF Goes, TypeInv, TypeOK
<1>3. Cap[t] \in Nat /\ spent[t] \in Nat /\ InFlight(t) \in SUBSET Callers
  BY CapAssumption DEF TypeInv, TypeOK, Ledger, InFlight
<1>4. CASE Resolve(cfg, seen, s) = t
  <2>1. spent[t] < Cap[t]
    BY <1>1, <1>4, Resolved, LookupTyped DEF TypeInv
  <2> QED
    BY <1>3, <2>1, RoomToStart DEF InFlight
<1>5. CASE Resolve(cfg, seen, s) # t
  <2>1. InFlight(t)' \in SUBSET InFlight(t)
    BY <1>2, <1>5 DEF InFlight, Workers
  <2> QED
    BY <1>3, <2>1, RoomLeft DEF Room
<1> QED
  BY <1>4, <1>5

\* So does a drain.
LEMMA TakeRoom ==
    ASSUME TypeInv, Room, NEW p \in Drains, TakeNext(p), NEW t \in Metered
    PROVE  RoomFor(Cap[t], spent[t], InFlight(t)')
<1>p. p \in Workers /\ p \in Callers
  BY DEF Workers, Callers
<1>1. PICK n \in todo[p], seen \in {spent, Cap} :
         /\ Lookup(seen)
         /\ Remains(seen, "advisor")
         /\ job' = [job EXCEPT ![p] = [NoJob EXCEPT !.rel = n, !.won = "advisor", !.copy = note[n]]]
  BY DEF TakeNext
<1>2. /\ \A q \in Workers \ {p} : pc'[q] = pc[q] /\ job'[q] = job[q]
      /\ job'[p].won = "advisor"
  BY <1>1, <1>p DEF TakeNext, Goes, TypeInv, TypeOK, NoJob
<1>3. Cap[t] \in Nat /\ spent[t] \in Nat /\ InFlight(t) \in SUBSET Callers
  BY CapAssumption DEF TypeInv, TypeOK, Ledger, InFlight
<1>4. CASE t = "advisor"
  <2>1. spent[t] < Cap[t]
    BY <1>1, <1>4, LookupTyped DEF TypeInv
  <2> QED
    BY <1>3, <2>1, RoomToStart DEF InFlight
<1>5. CASE t # "advisor"
  <2>1. InFlight(t)' \in SUBSET InFlight(t)
    BY <1>2, <1>5 DEF InFlight, Workers
  <2> QED
    BY <1>3, <2>1, RoomLeft DEF Room
<1> QED
  BY <1>4, <1>5

\* Every step keeps the room: a booking gives back what its call held, a new day starts with
\* an empty row, and nothing else touches the ledger.
LEMMA RoomStep == TypeInv /\ Room /\ [Next]_vars => Room'
<1> SUFFICES ASSUME TypeInv, Room, [Next]_vars, NEW t \in Metered
             PROVE  RoomFor(Cap[t], spent'[t], InFlight(t)')
  BY DEF Room
<1> USE DEF TypeInv
<1>t. /\ Cap[t] \in Nat /\ spent[t] \in Nat /\ InFlight(t) \in SUBSET Callers
      /\ RoomFor(Cap[t], spent[t], InFlight(t))
  BY CapAssumption DEF TypeOK, Ledger, InFlight, Room
<1>s. ASSUME spent' = spent, InFlight(t)' \subseteq InFlight(t)
      PROVE  RoomFor(Cap[t], spent'[t], InFlight(t)')
  BY <1>s, <1>t, RoomLeft
<1>m. ASSUME NEW p \in Workers, spent' = spent,
             \A q \in Workers \ {p} : pc'[q] = pc[q] /\ job'[q] = job[q],
             pc'[p] \notin {"calling", "answered"}
      PROVE  RoomFor(Cap[t], spent'[t], InFlight(t)')
  BY <1>m, <1>s, FlightMoves
<1>e. ASSUME NEW p \in Workers, Exits(p), spent' = spent
      PROVE  RoomFor(Cap[t], spent'[t], InFlight(t)')
  BY <1>e, <1>m, ExitTyped
<1>g. ASSUME NEW p \in Callers, Proceeds(p), spent' = spent
      PROVE  RoomFor(Cap[t], spent'[t], InFlight(t)')
  <2>1. p \in Workers
    BY DEF Workers
  <2> QED
    BY <1>g, <1>m, <2>1, ProceedTyped
<1>w. /\ \A p \in Runs : p \in Workers /\ p \in Callers
      /\ \A p \in Drains : p \in Workers /\ p \in Callers
      /\ \A p \in Recorders : p \in Workers
      /\ \A p \in Callers : p \in Workers
  BY DEF Workers, Callers
<1>1. ASSUME NEW p \in Runs, Ask(p) \/ Degrade(p) \/ Queue(p)
      PROVE  RoomFor(Cap[t], spent'[t], InFlight(t)')
  <2>1. CASE Ask(p)
    <3>1. spent' = spent
      BY <2>1 DEF Ask
    <3> QED
      BY <2>1, <3>1, AskRoom
  <2>2. CASE Degrade(p)
    <3>1. spent' = spent /\ pc[p] = "degraded"
      BY <2>2 DEF Degrade
    <3>2. CASE Exits(p)
      BY <1>e, <1>w, <3>1, <3>2
    <3>3. CASE ~Exits(p)
      <4>1. Goes(p, "queueing") /\ job' = [job EXCEPT ![p].copy = note[job[p].rel]]
        BY <2>2, <3>3 DEF Degrade
      <4>2. /\ \A q \in Workers \ {p} : pc'[q] = pc[q] /\ job'[q] = job[q]
            /\ pc'[p] = "queueing"
        BY <1>w, <4>1 DEF Goes, TypeOK
      <4> QED
        BY <1>m, <1>w, <3>1, <4>2
    <3> QED
      BY <3>2, <3>3
  <2>3. CASE Queue(p)
    BY <1>e, <1>w, <2>3 DEF Queue
  <2> QED
    BY <1>1, <2>1, <2>2, <2>3
<1>2. ASSUME NEW p \in Drains, Collect(p) \/ TakeNext(p) \/ EndDrain(p) \/ Clear(p)
      PROVE  RoomFor(Cap[t], spent'[t], InFlight(t)')
  <2>1. CASE Collect(p)
    <3>1. /\ \A q \in Workers \ {p} : pc'[q] = pc[q] /\ job'[q] = job[q]
          /\ pc'[p] = "draining" /\ spent' = spent
      BY <1>w, <2>1 DEF Collect, Goes, TypeOK
    <3> QED
      BY <1>m, <1>w, <3>1
  <2>2. CASE TakeNext(p)
    <3>1. spent' = spent
      BY <2>2 DEF TakeNext
    <3> QED
      BY <2>2, <3>1, TakeRoom
  <2>3. CASE EndDrain(p)
    BY <1>e, <1>w, <2>3 DEF EndDrain
  <2>4. CASE Clear(p)
    BY <1>g, <1>w, <2>4 DEF Clear
  <2> QED
    BY <1>2, <2>1, <2>2, <2>3, <2>4
<1>3. ASSUME NEW p \in Callers,
             CallFails(p) \/ CritiqueInvalid(p) \/ CallAnswers(p) \/ Spend(p) \/ SpendFails(p)
      PROVE  RoomFor(Cap[t], spent'[t], InFlight(t)')
  <2>1. CASE CallFails(p) \/ CritiqueInvalid(p) \/ SpendFails(p)
    BY <1>g, <2>1 DEF CallFails, CritiqueInvalid, SpendFails
  <2>2. CASE CallAnswers(p)
    <3>1. CASE Books(job[p].won)
      <4>1. spent' = spent /\ job' = job /\ pc[p] = "calling" /\ pc' = [pc EXCEPT ![p] = "answered"]
        BY <2>2, <3>1 DEF CallAnswers, Goes
      <4>2. InFlight(t)' \subseteq InFlight(t)
        BY <1>w, <4>1 DEF InFlight, TypeOK
      <4> QED
        BY <1>s, <4>1, <4>2
    <3>2. CASE ~Books(job[p].won)
      BY <1>g, <2>2, <3>2 DEF CallAnswers
    <3> QED
      BY <3>1, <3>2
  <2>3. CASE Spend(p)
    <3>1. /\ \A q \in Workers \ {p} : pc'[q] = pc[q] /\ job'[q] = job[q]
          /\ pc'[p] \notin {"calling", "answered"}
      <4>1. CASE p \in Drains
        BY <1>w, <2>3, <4>1 DEF Spend, Goes, TypeOK
      <4>2. CASE p \notin Drains
        <5>1. Proceeds(p)
          BY <2>3, <4>2 DEF Spend
        <5> QED
          BY <5>1, ProceedTyped
      <4> QED
        BY <4>1, <4>2
    <3>2. InFlight(t)' \subseteq InFlight(t) \ {p}
      BY <1>w, <3>1, FlightMoves
    <3>3. /\ spent' = [spent EXCEPT ![job[p].won] = spent[job[p].won] + due[p]]
          /\ spent \in [Metered -> Nat] /\ due[p] \in 0..MaxCost /\ pc[p] = "answered"
      BY <2>3 DEF Spend, TypeOK, Ledger
    <3>4. CASE job[p].won = t
      <4>1. p \in InFlight(t) /\ spent'[t] = spent[t] + due[p]
        BY <3>3, <3>4 DEF InFlight
      <4>2. InFlight(t)' \in SUBSET (InFlight(t) \ {p})
        BY <3>2
      <4> QED
        BY <1>t, <3>3, <4>1, <4>2, RoomBooked
    <3>5. CASE job[p].won # t
      <4>1. spent'[t] = spent[t] /\ InFlight(t)' \in SUBSET InFlight(t)
        BY <3>2, <3>3, <3>5
      <4> QED
        BY <1>t, <4>1, RoomLeft
    <3> QED
      BY <3>4, <3>5
  <2> QED
    BY <1>3, <2>1, <2>2, <2>3
<1>4. ASSUME NEW p \in Recorders, RecordLoad(p) \/ Record(p)
      PROVE  RoomFor(Cap[t], spent'[t], InFlight(t)')
  <2>1. CASE RecordLoad(p)
    <3>1. /\ \A q \in Workers \ {p} : pc'[q] = pc[q] /\ job'[q] = job[q]
          /\ pc'[p] = "recording" /\ spent' = spent
      BY <1>w, <2>1 DEF RecordLoad, Goes, TypeOK
    <3> QED
      BY <1>m, <1>w, <3>1
  <2>2. CASE Record(p)
    BY <1>e, <1>w, <2>2 DEF Record
  <2> QED
    BY <1>4, <2>1, <2>2
<1>5. CASE Midnight
  <2>1. spent'[t] = 0 /\ InFlight(t)' = InFlight(t)
    BY <1>5 DEF Midnight, Nothing, InFlight
  <2> QED
    BY <1>t, <2>1, RoomLeft
<1>6. CASE (\E n \in Notes : Edit(n)) \/ UNCHANGED vars
  <2>1. spent' = spent /\ InFlight(t)' = InFlight(t)
    BY <1>6 DEF Edit, vars, InFlight
  <2> QED
    BY <1>s, <2>1
<1>7. ASSUME NEW p \in Workers, Crash(p)
      PROVE  RoomFor(Cap[t], spent'[t], InFlight(t)')
  BY <1>e, <1>7 DEF Crash
<1> QED
  BY <1>1, <1>2, <1>3, <1>4, <1>5, <1>6, <1>7 DEF Next

\* Room for what is in flight is room for what is booked.
LEMMA RoomMeansBounded == TypeInv /\ Room => OverrunBounded
<1> SUFFICES ASSUME TypeInv, Room, NEW t \in Metered
             PROVE  IF Cap[t] = 0 THEN spent[t] = 0
                    ELSE spent[t] < Cap[t] + Cardinality(Callers) * MaxCost
  BY DEF OverrunBounded
<1>1. Cap[t] \in Nat /\ spent[t] \in Nat /\ RoomFor(Cap[t], spent[t], InFlight(t))
  BY CapAssumption DEF TypeInv, TypeOK, Ledger, Room
<1>2. InFlight(t) \in SUBSET Callers /\ {} \in SUBSET InFlight(t)
  BY DEF InFlight
<1>3. RoomFor(Cap[t], spent[t], {})
  BY <1>1, <1>2, RoomLeft
<1>4. Cardinality({}) = 0 /\ 0 * MaxCost = 0
  BY FS_EmptySet, BudgetAssumption
<1> QED
  BY <1>1, <1>3, <1>4 DEF RoomFor

\* OverrunBounded holds of every behaviour, for any number of processes and any prices: the
\* check before the call and the booking after it can pass the cap by less than one call
\* per process, and a tier without money is never booked on.
THEOREM OverrunStaysBounded == Spec => []OverrunBounded
<1>1. Init => TypeInv /\ Room
  <2> SUFFICES ASSUME Init PROVE Room
    BY InitTyped
  <2>1. ASSUME NEW t \in Metered
        PROVE  RoomFor(Cap[t], spent[t], InFlight(t))
    <3>1. spent[t] = 0 /\ InFlight(t) = {} /\ Cap[t] \in Nat
      BY CapAssumption DEF Init, Nothing, InFlight, Ledger, Callers, Workers
    <3>2. CASE Cap[t] = 0
      BY <3>1, <3>2 DEF RoomFor
    <3>3. CASE Cap[t] # 0
      BY <3>1, <3>3, RoomToStart
    <3> QED
      BY <3>2, <3>3
  <2> QED
    BY <2>1 DEF Room
<1>2. TypeInv /\ Room /\ [Next]_vars => TypeInv' /\ Room'
  BY StepTyped, RoomStep
<1>3. TypeInv /\ Room => OverrunBounded
  BY RoomMeansBounded
<1> QED
  BY <1>1, <1>2, <1>3, PTL DEF Spec

(***************************************************************************)
(* The static core.                                                        *)
(***************************************************************************)

\* A stage whose first candidate is "none" resolves to none, whatever stands behind it.
LEMMA NoneWins ==
    ASSUME NEW c, NEW seen, NEW s, Get(c, <<s, "engine">>) = "none"
    PROVE  Resolve(c, seen, s) = "none"
<1> DEFINE ready == {i \in 1..3 : Available(c, seen, Chain(c, s)[i])}
           first == CHOOSE i \in ready : \A j \in ready : i <= j
<1>1. Chain(c, s)[1] = "none"
  BY DEF Chain
<1>2. 1 \in ready /\ \A i \in ready : 1 <= i
  BY <1>1 DEF Available
<1>3. \A i \in ready : (\A j \in ready : i <= j) => i = 1
  BY <1>2
<1>4. first = 1
  <2> HIDE DEF ready
  <2>1. \E i \in ready : \A j \in ready : i <= j
    BY <1>2
  <2>2. first \in ready /\ \A j \in ready : first <= j
    BY <2>1
  <2> HIDE DEF first
  <2> QED
    BY <1>3, <2>2
<1>5. Resolve(c, seen, s) = Chain(c, s)[first]
  BY <1>2 DEF Resolve
<1> HIDE DEF ready, first
<1> QED
  BY <1>1, <1>4, <1>5

\* A run keeps its stage and its winner until it exits.
LEMMA StaticStep == TypeInv /\ LockedStagesStayStatic /\ [Next]_vars => LockedStagesStayStatic'
<1> SUFFICES ASSUME TypeInv, LockedStagesStayStatic, [Next]_vars, NEW r \in Runs,
                    job'[r].stage \in Locked, (Get(cfg, <<job[r].stage, "engine">>) # "")'
             PROVE  job'[r].won = "none"
  BY DEF LockedStagesStayStatic, SpelledOut
<1>c. cfg' = cfg
  BY DEF Next, vars, Ask, Degrade, Queue, Collect, TakeNext, EndDrain, Clear, CallFails,
         CritiqueInvalid, CallAnswers, Spend, SpendFails, RecordLoad, Record, Midnight, Edit, Crash
<1>w. r \in Workers /\ r \in Callers /\ r \notin Drains /\ r \notin Recorders /\ TypeOK
  BY BudgetAssumption DEF Workers, Callers, TypeInv
<1>k. ASSUME job'[r].stage = job[r].stage, job'[r].won = job[r].won
      PROVE  job'[r].won = "none"
  BY <1>c, <1>k DEF LockedStagesStayStatic, SpelledOut
<1>n. ASSUME job'[r] = NoJob
      PROVE  job'[r].won = "none"
  <2>1. NoJob.won = "none"
    BY DEF NoJob
  <2> QED
    BY <1>n, <2>1
<1>e. ASSUME NEW p \in Workers, Exits(p)
      PROVE  job'[r] = NoJob \/ job'[r] = job[r]
  BY <1>e, <1>w, ExitTyped
<1>g. ASSUME NEW p \in Callers, Proceeds(p)
      PROVE  job'[r] = NoJob \/ job'[r] = job[r]
  BY <1>g, <1>w, ProceedTyped
<1>1. ASSUME NEW p \in Runs, Ask(p)
      PROVE  job'[r].won = "none"
  <2>1. PICK s \in Stages, rel \in Notes \cup {NoRel}, seen \in {spent, Cap} :
           job' = [job EXCEPT ![p] = [stage |-> s, rel |-> rel,
                                      won |-> Resolve(cfg, seen, s), copy |-> Blank]]
    BY <1>1 DEF Ask
  <2>2. Valid(cfg)
    BY <1>1 DEF Ask
  <2>3. CASE p = r
    <3>1. job'[r].stage = s /\ job'[r].won = Resolve(cfg, seen, s)
      BY <1>w, <2>1, <2>3 DEF TypeOK
    <3>2. Get(cfg, <<s, "engine">>) = "none"
      <4>1. Get(cfg, <<s, "engine">>) # ""
        BY <1>c, <3>1 DEF Get
      <4>2. Get(cfg, <<s, "engine">>) \in {"", "none"}
        BY <2>2, <3>1 DEF Valid
      <4> QED
        BY <4>1, <4>2
    <3> QED
      BY <3>1, <3>2, NoneWins
  <2>4. CASE p # r
    BY <1>k, <1>w, <2>1, <2>4 DEF TypeOK
  <2> QED
    BY <2>3, <2>4
<1>2. ASSUME NEW p \in Runs, Degrade(p) \/ Queue(p)
      PROVE  job'[r].won = "none"
  <2>1. p \in Workers
    BY DEF Workers, Callers
  <2>2. CASE Exits(p)
    BY <1>e, <1>k, <1>n, <2>1, <2>2
  <2>3. CASE ~Exits(p)
    <3>1. job' = [job EXCEPT ![p].copy = note[job[p].rel]]
      BY <1>2, <2>3 DEF Degrade, Queue
    <3>2. job[p] \in Job
      BY <1>w, <2>1 DEF TypeOK
    <3>3. job'[r].stage = job[r].stage /\ job'[r].won = job[r].won
      BY <1>w, <2>1, <3>1, <3>2 DEF TypeOK, Job
    <3> QED
      BY <1>k, <3>3
  <2> QED
    BY <2>2, <2>3
<1>3. ASSUME NEW p \in Drains, Collect(p) \/ TakeNext(p) \/ EndDrain(p) \/ Clear(p)
      PROVE  job'[r].won = "none"
  <2>1. p \in Workers /\ p \in Callers /\ p # r
    BY <1>w DEF Workers, Callers
  <2>2. CASE Collect(p) \/ TakeNext(p)
    BY <1>k, <1>w, <2>1, <2>2 DEF Collect, TakeNext, TypeOK
  <2>3. CASE EndDrain(p) \/ Clear(p)
    BY <1>e, <1>g, <1>k, <1>n, <2>1, <2>3 DEF EndDrain, Clear
  <2> QED
    BY <1>3, <2>2, <2>3
<1>4. ASSUME NEW p \in Callers,
             CallFails(p) \/ CritiqueInvalid(p) \/ CallAnswers(p) \/ Spend(p) \/ SpendFails(p)
      PROVE  job'[r].won = "none"
  <2>1. CASE Proceeds(p)
    BY <1>g, <1>k, <1>n, <2>1
  <2>2. CASE ~Proceeds(p)
    BY <1>4, <1>k, <2>2 DEF CallFails, CritiqueInvalid, CallAnswers, Spend, SpendFails
  <2> QED
    BY <2>1, <2>2
<1>5. ASSUME NEW p \in Recorders, RecordLoad(p) \/ Record(p)
      PROVE  job'[r].won = "none"
  <2>1. p \in Workers /\ p # r
    BY <1>w DEF Workers
  <2>2. CASE RecordLoad(p)
    BY <1>k, <1>w, <2>1, <2>2 DEF RecordLoad, TypeOK
  <2>3. CASE Record(p)
    BY <1>e, <1>k, <1>n, <2>1, <2>3 DEF Record
  <2> QED
    BY <1>5, <2>2, <2>3
<1>6. CASE Midnight \/ (\E n \in Notes : Edit(n)) \/ UNCHANGED vars
  BY <1>6, <1>k DEF Midnight, Edit, vars
<1>7. ASSUME NEW p \in Workers, Crash(p)
      PROVE  job'[r].won = "none"
  BY <1>7, <1>e, <1>k, <1>n DEF Crash
<1> QED
  BY <1>1, <1>2, <1>3, <1>4, <1>5, <1>6, <1>7 DEF Next

\* LockedStagesStayStatic holds of every behaviour: with its engine spelled out as the
\* loader demands, a locked stage runs on none, whatever is put behind it.
THEOREM StaticCoreStaysStatic == Spec => []LockedStagesStayStatic
<1>1. Init => TypeInv /\ LockedStagesStayStatic
  BY InitTyped, StageAssumption, BudgetAssumption
     DEF Init, LockedStagesStayStatic, NoJob, Workers, Callers
<1>2. TypeInv /\ LockedStagesStayStatic /\ [Next]_vars => TypeInv' /\ LockedStagesStayStatic'
  BY StepTyped, StaticStep
<1> QED
  BY <1>1, <1>2, PTL DEF Spec

(***************************************************************************)
(* The queue.                                                              *)
(***************************************************************************)

\* A flag goes down only by the two writes that may take it down.
LEMMA PendingMoves ==
    ASSUME TypeInv, [Next]_vars, NEW n \in Notes, note[n].pending, ~note'[n].pending
    PROVE  \/ \E p \in Drains : pc[p] = "booked" /\ job[p].rel = n /\ due[p] = 0
           \/ \E p \in Recorders : pc[p] = "recording" /\ job[p].rel = n /\ ~job[p].copy.pending
<1> USE DEF TypeInv
<1>n. note \in [Notes -> Note] /\ note' # note
  BY DEF TypeOK
<1>w. ASSUME NEW m \in Notes, NEW new \in Note, Write(m, new)
      PROVE  m = n /\ ~new.pending
  BY <1>w, <1>n DEF Write
<1>1. ASSUME NEW p \in Runs
      PROVE  ~Queue(p)
  <2> SUFFICES ASSUME Queue(p) PROVE FALSE
    OBVIOUS
  <2>1. job[p].rel \in Notes /\ job[p] \in Job
    BY DEF Queue, Placed, PlacedAt, TypeOK, Workers, Callers
  <2>2. LET new == [job[p].copy EXCEPT !.pending = TRUE]
        IN  new \in Note /\ new.pending /\ Write(job[p].rel, new)
    BY <2>1 DEF Queue, Job, Note
  <2> QED
    BY <1>w, <2>1, <2>2
<1>2. ASSUME NEW p \in Drains, Clear(p)
      PROVE  pc[p] = "booked" /\ job[p].rel = n /\ due[p] = 0
  <2>1. pc[p] = "booked" /\ job[p].rel \in Notes /\ job[p] \in Job /\ due[p] = 0
    BY <1>2 DEF Clear, Placed, PlacedAt, TypeOK, Workers, Callers
  <2>2. LET new == [job[p].copy EXCEPT !.pending = FALSE]
        IN  new \in Note /\ Write(job[p].rel, new)
    BY <1>2, <2>1 DEF Clear, Job, Note
  <2> QED
    BY <1>w, <2>1, <2>2
<1>3. ASSUME NEW p \in Recorders, Record(p)
      PROVE  pc[p] = "recording" /\ job[p].rel = n /\ ~job[p].copy.pending
  <2> DEFINE s == job[p].stage
             tier == job[p].won
             new == [job[p].copy EXCEPT !.trail = MergeTrail(@, Entry(s, tier))]
  <2>1. pc[p] = "recording" /\ job[p].rel \in Notes /\ job[p] \in Job
        /\ tier \in Tiers /\ Recordable(s, tier)
    BY <1>3 DEF Record, Placed, PlacedAt, TypeOK, Workers
  <2>2. s \in Stages /\ job[p].copy \in Note
    BY <2>1, StageAssumption DEF Recordable, Job
  <2>3. MergeTrail(job[p].copy.trail, Entry(s, tier)) \in Trails
    BY <2>1, <2>2, TrailTyped DEF Note
  <2>4. new \in Note /\ new.pending = job[p].copy.pending
    BY <2>2, <2>3 DEF Note
  <2>5. Write(job[p].rel, new)
    BY <1>3 DEF Record
  <2> HIDE DEF new
  <2> QED
    BY <1>w, <2>1, <2>4, <2>5
<1>4. ASSUME NEW m \in Notes
      PROVE  ~Edit(m)
  BY <1>n DEF Edit, Note
<1>5. \/ \E p \in Drains : Clear(p)
      \/ \E p \in Recorders : Record(p)
  <2>1. ~UNCHANGED vars
    BY <1>n DEF vars
  <2>2. ~Midnight /\ \A p \in Workers : ~Crash(p) /\ \A q \in Recorders : ~RecordLoad(q)
    BY <1>n DEF Midnight, Crash, RecordLoad
  <2>3. \A p \in Callers : ~(CallFails(p) \/ CritiqueInvalid(p) \/ CallAnswers(p) \/ Spend(p)
                             \/ SpendFails(p))
    BY <1>n DEF CallFails, CritiqueInvalid, CallAnswers, Spend, SpendFails
  <2>4. /\ \A p \in Runs : ~Ask(p) /\ ~Degrade(p)
        /\ \A p \in Drains : ~Collect(p) /\ ~TakeNext(p) /\ ~EndDrain(p)
    BY <1>n DEF Ask, Degrade, Collect, TakeNext, EndDrain
  <2>5. \A p \in Recorders : ~RecordLoad(p)
    BY <1>n DEF RecordLoad
  <2> QED
    BY <1>1, <1>4, <2>1, <2>2, <2>3, <2>4, <2>5 DEF Next
<1> QED
  BY <1>2, <1>3, <1>5

\* OffQueueOnlyBooked holds of every behaviour: a drain clears a note only after its call is
\* on the ledger, and nothing else but a stale copy takes a note off the queue.
THEOREM QueueLeftOnlyWhenBooked == Spec => OffQueueOnlyBooked
<1>1. Init => TypeInv
  BY InitTyped
<1>2. TypeInv /\ [Next]_vars => TypeInv'
  BY StepTyped
<1>3. TypeInv /\ [Next]_vars =>
        [\A n \in Notes : note[n].pending /\ ~note'[n].pending =>
           \/ \E p \in Drains : pc[p] = "booked" /\ job[p].rel = n /\ due[p] = 0
           \/ \E p \in Recorders : pc[p] = "recording" /\ job[p].rel = n /\ ~job[p].copy.pending]_vars
  BY PendingMoves
<1> QED
  BY <1>1, <1>2, <1>3, PTL DEF Spec, OffQueueOnlyBooked

(***************************************************************************)
(* A note that is owed its place in the queue.                             *)
(***************************************************************************)

\* A run that owes has ended, or has yet to queue its note: a tier of its stage stays spent.
Owed(r) ==
    \/ pc[r] = "idle"
    \/ pc[r] \in {"degraded", "queueing"} /\ Queues(job[r].rel) /\ SpentOut(job[r].stage)

OweInv == \A r \in owes : Owed(r)

\* Whatever step is taken, a run stands where it stood, or the step is its own.
LEMMA RunMoves ==
    ASSUME TypeInv, [Next]_vars, NEW r \in Runs
    PROVE  \/ pc'[r] = pc[r] /\ job'[r] = job[r]
           \/ Ask(r) \/ Degrade(r) \/ Queue(r) \/ Crash(r)
           \/ pc[r] \in {"calling", "answered"}
<1> DEFINE Stays == pc'[r] = pc[r] /\ job'[r] = job[r]
<1>w. r \in Workers /\ r \notin Drains /\ r \notin Recorders /\ TypeOK
  BY BudgetAssumption DEF Workers, Callers, TypeInv
<1>m. ASSUME NEW p \in Workers, p # r, NEW place, NEW j, Goes(p, place), job' = [job EXCEPT ![p] = j]
      PROVE  Stays
  BY <1>m, <1>w DEF Goes, TypeOK
<1>g. ASSUME NEW p \in Workers, p # r, NEW place, Goes(p, place), UNCHANGED job
      PROVE  Stays
  BY <1>g, <1>w DEF Goes, TypeOK
<1>e. ASSUME NEW p \in Workers, p # r, Exits(p)
      PROVE  Stays
  BY <1>e, <1>m DEF Exits
<1>p. ASSUME NEW p \in Callers, p # r, Proceeds(p)
      PROVE  Stays
  BY <1>p, <1>w, ProceedTyped
<1>c. \A p \in Callers : p \in Workers
  BY DEF Workers
<1>1. ASSUME NEW p \in Runs, Ask(p), p # r
      PROVE  Stays
  <2>1. p \in Workers
    BY DEF Workers, Callers
  <2>2. PICK j, place : job' = [job EXCEPT ![p] = j] /\ Goes(p, place)
    BY <1>1 DEF Ask
  <2> QED
    BY <1>1, <1>m, <2>1, <2>2
<1>2. ASSUME NEW p \in Runs, Degrade(p) \/ Queue(p), p # r
      PROVE  Stays
  <2>1. p \in Workers
    BY DEF Workers, Callers
  <2>2. Exits(p) \/ \E j, place : job' = [job EXCEPT ![p] = j] /\ Goes(p, place)
    BY <1>2 DEF Degrade, Queue
  <2> QED
    BY <1>2, <1>e, <1>m, <2>1, <2>2
<1>3. ASSUME NEW p \in Drains, Collect(p) \/ TakeNext(p) \/ EndDrain(p) \/ Clear(p)
      PROVE  Stays
  <2>1. p \in Workers /\ p \in Callers /\ p # r
    BY <1>w DEF Workers, Callers
  <2>2. CASE Collect(p)
    BY <1>g, <2>1, <2>2 DEF Collect
  <2>3. CASE TakeNext(p)
    BY <1>m, <2>1, <2>3 DEF TakeNext
  <2>4. CASE EndDrain(p) \/ Clear(p)
    BY <1>e, <1>p, <2>1, <2>4 DEF EndDrain, Clear
  <2> QED
    BY <1>3, <2>2, <2>3, <2>4
<1>4. ASSUME NEW p \in Callers,
             CallFails(p) \/ CritiqueInvalid(p) \/ CallAnswers(p) \/ Spend(p) \/ SpendFails(p)
      PROVE  Stays \/ pc[r] \in {"calling", "answered"}
  <2>1. CASE p = r
    BY <1>4, <2>1 DEF CallFails, CritiqueInvalid, CallAnswers, Spend, SpendFails
  <2>2. CASE p # r
    <3>1. Proceeds(p) \/ (UNCHANGED job /\ \E place : Goes(p, place))
      BY <1>4 DEF CallFails, CritiqueInvalid, CallAnswers, Spend, SpendFails
    <3> QED
      BY <1>c, <1>g, <1>p, <2>2, <3>1
  <2> QED
    BY <2>1, <2>2
<1>5. ASSUME NEW p \in Recorders, RecordLoad(p) \/ Record(p)
      PROVE  Stays
  <2>1. p \in Workers /\ p # r
    BY <1>w DEF Workers
  <2>2. Exits(p) \/ \E j, place : job' = [job EXCEPT ![p] = j] /\ Goes(p, place)
    BY <1>5 DEF RecordLoad, Record
  <2> QED
    BY <1>e, <1>m, <2>1, <2>2
<1>6. CASE Midnight \/ (\E n \in Notes : Edit(n)) \/ UNCHANGED vars
  BY <1>6 DEF Midnight, Edit, vars
<1>7. ASSUME NEW p \in Workers, Crash(p), p # r
      PROVE  Stays
  BY <1>7, <1>e DEF Crash
<1> QED
  BY <1>1, <1>2, <1>3, <1>4, <1>5, <1>6, <1>7 DEF Next

\* The configuration stays, and within a day the books only grow.
LEMMA BooksGrow ==
    ASSUME TypeInv, [Next]_vars, ~Midnight
    PROVE  cfg' = cfg /\ \A t \in Metered : spent[t] <= spent'[t]
<1>1. spent \in [Metered -> Nat]
  BY DEF TypeInv, TypeOK, Ledger
<1>s. ASSUME NEW p \in Callers, Spend(p)
      PROVE  cfg' = cfg /\ \A t \in Metered : spent[t] <= spent'[t]
  <2>1. job[p].won \in Metered /\ due[p] \in Nat
    BY <1>s, BudgetAssumption DEF Spend, TypeInv, TypeOK, Placed, PlacedAt, Workers
  <2>2. cfg' = cfg /\ spent' = [spent EXCEPT ![job[p].won] = spent[job[p].won] + due[p]]
    BY <1>s DEF Spend
  <2>3. ASSUME NEW t \in Metered
        PROVE  spent[t] <= spent'[t]
    <3>1. CASE t = job[p].won
      BY <1>1, <2>1, <2>2, <3>1
    <3>2. CASE t # job[p].won
      BY <1>1, <2>2, <3>2
    <3> QED
      BY <3>1, <3>2
  <2> QED
    BY <2>2, <2>3
<1>2. CASE \A p \in Callers : ~Spend(p)
  <2>1. cfg' = cfg /\ spent' = spent
    BY <1>2 DEF Next, vars, Ask, Degrade, Queue, Collect, TakeNext, EndDrain, Clear, CallFails,
           CritiqueInvalid, CallAnswers, SpendFails, RecordLoad, Record, Edit, Crash
  <2> QED
    BY <1>1, <2>1
<1> QED
  BY <1>s, <1>2

\* What is spent stays spent till midnight.
LEMMA SpentStays ==
    ASSUME TypeInv, [Next]_vars, ~Midnight, NEW s, SpentOut(s)
    PROVE  SpentOut(s)'
<1>1. PICK t \in Metered : spent[t] >= Cap[t] /\ \E i \in 1..3 : Chain(cfg, s)[i] = t
  BY DEF SpentOut
<1>2. cfg' = cfg /\ spent[t] <= spent'[t]
  BY BooksGrow
<1>3. spent[t] \in Nat /\ Cap[t] \in Nat
  BY CapAssumption DEF TypeInv, TypeOK, Ledger
<1>4. spent'[t] \in Nat
  BY StepTyped DEF TypeInv, TypeOK, Ledger
<1>5. spent'[t] >= Cap[t]
  BY <1>1, <1>2, <1>3, <1>4
<1>6. (\E i \in 1..3 : Chain(cfg, s)[i] = t)'
  BY <1>1, <1>2
<1> QED
  BY <1>5, <1>6 DEF SpentOut

\* Only a run that met an empty ledger comes to owe, and midnight and a kill let it off.
LEMMA OwesMoves ==
    ASSUME TypeInv, [Next]_vars, NEW r \in owes'
    PROVE  ~Midnight /\ ~Crash(r) /\ (r \in owes \/ Ask(r))
<1>1. ~Midnight /\ ~Crash(r)
  BY DEF Midnight, Crash
<1>2. CASE \E p \in Runs : Ask(p)
  <2>1. PICK p \in Runs : Ask(p)
    BY <1>2
  <2>2. owes' = owes \cup {p} \/ owes' = owes \ {p}
    BY <2>1 DEF Ask
  <2> QED
    BY <1>1, <2>1, <2>2
<1>3. CASE \A p \in Runs : ~Ask(p)
  BY <1>1, <1>3 DEF Next, vars, Degrade, Queue, Collect, TakeNext, EndDrain, Clear, CallFails,
         CritiqueInvalid, CallAnswers, Spend, SpendFails, RecordLoad, Record, Edit, Crash
<1> QED
  BY <1>1, <1>2, <1>3

\* A second look while the tier is spent finds it so, unless the lookup fails.
LEMMA LooksAgain ==
    ASSUME TypeInv, NEW p \in Runs, Degrade(p), SpentOut(job[p].stage), Queues(job[p].rel)
    PROVE  \/ pc'[p] = "queueing" /\ job'[p].rel = job[p].rel /\ job'[p].stage = job[p].stage
           \/ pc'[p] = "idle" /\ faults' # faults
<1>w. p \in Workers /\ TypeOK
  BY DEF Workers, Callers, TypeInv
<1>1. PICK seen \in {spent, Cap} :
         /\ Lookup(seen)
         /\ IF Exhausted(cfg, seen, job[p].stage) /\ Queues(job[p].rel)
              THEN /\ job' = [job EXCEPT ![p].copy = note[job[p].rel]]
                   /\ Goes(p, "queueing")
              ELSE Exits(p)
  BY DEF Degrade
<1>2. CASE seen = spent
  <2>1. Exhausted(cfg, spent, job[p].stage)
    <3>1. PICK t \in Metered : spent[t] >= Cap[t] /\ \E i \in 1..3 : Chain(cfg, job[p].stage)[i] = t
      BY DEF SpentOut
    <3>2. spent[t] \in Nat /\ Cap[t] \in Nat
      BY <1>w, CapAssumption DEF TypeOK, Ledger
    <3>3. ~Remains(spent, t)
      BY <3>1, <3>2 DEF Remains
    <3> QED
      BY <3>1, <3>3 DEF Exhausted
  <2>2. job' = [job EXCEPT ![p].copy = note[job[p].rel]] /\ Goes(p, "queueing")
    BY <1>1, <1>2, <2>1
  <2>3. job[p] \in Job
    BY <1>w DEF TypeOK
  <2> QED
    BY <1>w, <2>2, <2>3 DEF Goes, TypeOK, Job
<1>3. CASE seen # spent
  <2>1. faults' # faults
    BY <1>1, <1>3, <1>w DEF Lookup, TypeOK
  <2>2. CASE Exits(p)
    BY <1>w, <2>1, <2>2, ExitTyped
  <2>3. CASE ~Exits(p)
    <3>1. job' = [job EXCEPT ![p].copy = note[job[p].rel]] /\ Goes(p, "queueing")
      BY <1>1, <2>3
    <3>2. job[p] \in Job
      BY <1>w DEF TypeOK
    <3> QED
      BY <1>w, <3>1, <3>2 DEF Goes, TypeOK, Job
  <2> QED
    BY <2>2, <2>3
<1> QED
  BY <1>2, <1>3

\* A run that owes goes on owing until it has ended.
LEMMA OweStep == TypeInv /\ OweInv /\ [Next]_vars => OweInv'
<1> SUFFICES ASSUME TypeInv, OweInv, [Next]_vars, NEW r \in owes'
             PROVE  Owed(r)'
  BY DEF OweInv
<1>1. r \in Runs /\ r \in Workers /\ TypeOK
  BY StepTyped DEF TypeInv, TypeOK, Workers, Callers
<1>2. ~Midnight /\ ~Crash(r) /\ (r \in owes \/ Ask(r)) /\ cfg' = cfg
  BY OwesMoves, BooksGrow
<1>q. ASSUME NEW n, Queues(n)
      PROVE  Queues(n)'
  BY <1>2, <1>q DEF Queues
<1>3. CASE Ask(r)
  <2>1. PICK s \in Stages, n \in Notes \cup {NoRel}, seen \in {spent, Cap} :
           /\ job' = [job EXCEPT ![r] = [stage |-> s, rel |-> n, won |-> Resolve(cfg, seen, s), copy |-> Blank]]
           /\ Goes(r, IF Resolve(cfg, seen, s) = "none" THEN "degraded" ELSE "calling")
           /\ owes' = IF Resolve(cfg, seen, s) = "none" /\ SpentOut(s) /\ Queues(n)
                        THEN owes \cup {r} ELSE owes \ {r}
    BY <1>3 DEF Ask
  <2>2. Resolve(cfg, seen, s) = "none" /\ SpentOut(s) /\ Queues(n)
    BY <2>1
  <2>3. pc'[r] = "degraded" /\ job'[r].stage = s /\ job'[r].rel = n
    BY <1>1, <2>1, <2>2 DEF Goes, TypeOK
  <2>4. SpentOut(s)' /\ Queues(n)'
    BY <1>2, <1>q, <2>2, SpentStays
  <2> QED
    BY <2>3, <2>4 DEF Owed
<1>4. CASE ~Ask(r)
  <2>1. Owed(r)
    BY <1>2, <1>4 DEF OweInv
  <2>2. CASE pc'[r] = pc[r] /\ job'[r] = job[r]
    BY <1>2, <1>q, <2>1, <2>2, SpentStays DEF Owed
  <2>3. CASE Degrade(r)
    <3>1. pc[r] = "degraded"
      BY <2>3 DEF Degrade
    <3>2. PICK s, n : s = job[r].stage /\ n = job[r].rel
      OBVIOUS
    <3>3. SpentOut(s) /\ Queues(n)
      BY <2>1, <3>1, <3>2 DEF Owed
    <3>4. SpentOut(s)' /\ Queues(n)'
      BY <1>2, <1>q, <3>3, SpentStays
    <3>5. pc'[r] \in {"queueing", "idle"} /\ (pc'[r] = "queueing" => job'[r].stage = s /\ job'[r].rel = n)
      BY <1>1, <2>3, <3>2, <3>3, LooksAgain
    <3> QED
      BY <3>4, <3>5 DEF Owed
  <2>4. CASE Queue(r)
    BY <1>1, <2>4, ExitTyped DEF Queue, Owed
  <2>5. pc[r] \notin {"calling", "answered"}
    BY <2>1 DEF Owed
  <2> QED
    BY <1>1, <1>2, <1>4, <2>2, <2>3, <2>4, <2>5, RunMoves
<1> QED
  BY <1>3, <1>4

\* QueuedNotDropped holds of every behaviour: what a run saw spent stays spent, so its second
\* look sends it to the queue, whoever else books or writes in between.
THEOREM QueuedNeverDropped == Spec => QueuedNotDropped
<1>1. Init => TypeInv /\ OweInv
  BY InitTyped DEF Init, OweInv
<1>2. TypeInv /\ OweInv /\ [Next]_vars => TypeInv' /\ OweInv'
  BY StepTyped, OweStep
<1>3. TypeInv /\ OweInv /\ [Next]_vars =>
        [\A p \in Runs : p \in owes /\ p \in owes' /\ pc[p] # "idle" /\ pc'[p] = "idle"
                         /\ faults' = faults => note'[job[p].rel].pending]_vars
  <2> SUFFICES ASSUME TypeInv, OweInv, [Next]_vars, NEW p \in Runs, p \in owes, p \in owes',
                      pc[p] # "idle", pc'[p] = "idle", faults' = faults
               PROVE  note'[job[p].rel].pending
    OBVIOUS
  <2>1. pc[p] \in {"degraded", "queueing"} /\ Queues(job[p].rel) /\ SpentOut(job[p].stage)
    BY DEF OweInv, Owed
  <2>2. ~Crash(p) /\ ~Ask(p)
    BY OwesMoves DEF Ask
  <2>3. ~Degrade(p)
    BY <2>1, LooksAgain
  <2>4. Queue(p)
    BY <2>1, <2>2, <2>3, RunMoves
  <2>5. job[p].rel \in Notes /\ note \in [Notes -> Note] /\ job[p].copy \in Note /\ faults \in Nat
    BY <2>4 DEF Queue, TypeInv, TypeOK, Placed, PlacedAt, Workers, Callers, Job
  <2>6. note' = [note EXCEPT ![job[p].rel] = [job[p].copy EXCEPT !.pending = TRUE]]
    BY <2>4, <2>5 DEF Queue, Write
  <2> QED
    BY <2>5, <2>6 DEF Note
<1> QED
  BY <1>1, <1>2, <1>3, PTL DEF Spec, QueuedNotDropped

=============================================================================
