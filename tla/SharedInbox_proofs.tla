-------------------------- MODULE SharedInbox_proofs --------------------------
(***************************************************************************)
(* What holds of session-capture and forge gate beside people, for every set  *)
(* of sessions, hooks, gates and drafts: what the file calls seen has its      *)
(* stub, and an undisturbed conclusion has one stub only; a failing text is    *)
(* kept, the last outcome of a run is the final one, and repairs are real.     *)
(***************************************************************************)
EXTENDS SharedInbox, SequenceTheorems, FiniteSetTheorems, WellFoundedInduction, TLAPS

Jobs == [session : Sessions \cup {"none"}, todo : Seq(Conclusions), seen : SUBSET Keys, written : Nat]

CaptureTypes ==
    /\ seenFile \subseteq Keys
    /\ hpc \in [Hooks -> {"idle", "scan", "save", "done"}]
    /\ hjob \in [Hooks -> Jobs]
    /\ \A h \in Hooks : hpc[h] = "scan" => hjob[h].session \in Sessions
    /\ stubbed \in [Keys -> Nat]

(* Not only what is in the file, but what any hook holds of it.              *)
SeenInv ==
    /\ SeenWasStubbed
    /\ \A h \in Hooks : \A k \in hjob[h].seen : stubbed[k] > 0

(* Until something disturbs them the hooks come one after the other, and the  *)
(* one at work knows every stub there is; so does the file, but between the   *)
(* first stub of a firing and its save.                                      *)
Known(k) ==
    /\ AtWork = {} => k \in seenFile
    /\ \A h \in AtWork :
         /\ k \in hjob[h].seen
         /\ hpc[h] = "done" \/ (hpc[h] = "scan" /\ hjob[h].written = 0) => k \in seenFile

OnceInv ==
    \/ disturbed = Keys
    \/ /\ \A g, h \in AtWork : g = h
       /\ \A k \in Keys : stubbed[k] <= 1 /\ (stubbed[k] > 0 => Known(k))

GateJobs == [draft : Drafts \cup {NoDraft}, prev : Paths \cup {NoPath}, run : RunIds \cup {None},
             failing : BodiesOf \cup {None, Cut}, error : Drafts \cup {NoDraft, CutDraft}]
Copies == [md : BodiesOf \cup {None, Cut}, err : Drafts \cup {NoDraft, CutDraft},
           open : [md : SUBSET GateProcs, err : SUBSET GateProcs]]
Labels == {"idle", "quarantine", "outcome", "save md", "write md", "save err", "write err",
           "take md", "take err", "drop md", "drop err", "d4", "d5"}
Grip == {"take err", "drop md", "drop err"}

GateTypes ==
    /\ drafts \in [Paths -> Copies]
    /\ gpc \in [GateProcs -> Labels]
    /\ gjob \in [GateProcs -> GateJobs]
    /\ \A g \in GateProcs :
         /\ gpc[g] # "idle" => gjob[g].draft \in Drafts
         /\ gpc[g] \in Grip \cup {"take md"} => gjob[g].prev \in Paths
    /\ handed \subseteq Paths
    /\ owed \subseteq Drafts

(* A copy has the text its name is made of, or was opened and not written, and *)
(* no retry has its hands on one that is owed.                               *)
KeptInv ==
    /\ \A p \in Paths : drafts[p].md \in {None, Cut, p[2]}
    /\ FailingTextIsKept
    /\ \A d \in owed : \A g \in GateProcs : gpc[g] \in Grip => gjob[g].prev # DraftPath(d)

-----------------------------------------------------------------------------
(* A conclusion is taken off a job and leaves the rest of it.                *)
LEMMA CountedKeeps ==
    ASSUME NEW j \in Jobs, NEW b \in BOOLEAN, j.todo # << >>
    PROVE  /\ Counted(j, b) \in Jobs
           /\ Counted(j, b).session = j.session
           /\ Counted(j, b).seen = j.seen
           /\ Counted(j, b).written = IF b THEN j.written + 1 ELSE j.written
<1>1. Counted(j, b).session = j.session /\ Counted(j, b).seen = j.seen
  BY DEF Counted, Jobs
<1>2. Counted(j, b).written = IF b THEN j.written + 1 ELSE j.written
  BY DEF Counted, Jobs
<1>3. Counted(j, b) \in Jobs
  <2>1. Tail(j.todo) \in Seq(Conclusions) /\ j.written + 1 \in Nat
    BY DEF Jobs
  <2>2. CASE b
    BY <2>1, <2>2 DEF Counted, Jobs
  <2>3. CASE ~b
    BY <2>1, <2>3 DEF Counted, Jobs
  <2> QED
    BY <2>2, <2>3
<1> QED
  BY <1>1, <1>2, <1>3

(* The same with one more key seen.                                          *)
LEMMA RememberingKeeps ==
    ASSUME NEW j \in Jobs, NEW k \in Keys
    PROVE  /\ Remembering(j, k) \in Jobs
           /\ Remembering(j, k).session = j.session
           /\ Remembering(j, k).seen = j.seen \cup {k}
           /\ Remembering(j, k).written = j.written
<1>1. Remembering(j, k).session = j.session /\ Remembering(j, k).written = j.written
  BY DEF Remembering, Jobs
<1>2. Remembering(j, k).seen = j.seen \cup {k}
  BY DEF Remembering, Jobs
<1>3. Remembering(j, k) \in Jobs
  BY DEF Remembering, Jobs
<1> QED
  BY <1>1, <1>2, <1>3

(* The key a hook is about to write.                                         *)
LEMMA NextKey ==
    ASSUME CaptureTypes, NEW h \in Hooks, hpc[h] = "scan", Left(h)
    PROVE  KeyOf(h, Head(hjob[h].todo)) \in Keys
<1>1. hjob[h].todo \in Seq(Conclusions) /\ hjob[h].todo # << >> /\ hjob[h].session \in Sessions
  BY DEF CaptureTypes, Jobs, Left
<1> QED
  BY <1>1 DEF KeyOf, Keys

(* What the three steps that take a conclusion off a job leave of it.        *)
LEMMA Taken ==
    ASSUME CaptureTypes, NEW h \in Hooks, SkipSeen(h) \/ WriteStub(h) \/ StubFails(h)
    PROVE  LET k == KeyOf(h, Head(hjob[h].todo))
           IN  /\ hpc[h] = "scan" /\ UNCHANGED <<hpc, seenFile>> /\ k \in Keys
               /\ hjob' = [hjob EXCEPT ![h] = hjob'[h]] /\ hjob'[h] \in Jobs
               /\ hjob'[h].session = hjob[h].session
               /\ IF WriteStub(h)
                  THEN /\ k \notin hjob[h].seen
                       /\ hjob'[h].seen = hjob[h].seen \cup {k} /\ hjob'[h].written = hjob[h].written + 1
                       /\ stubbed' = [stubbed EXCEPT ![k] = @ + 1] /\ UNCHANGED disturbed
                  ELSE /\ hjob'[h].seen = hjob[h].seen /\ hjob'[h].written = hjob[h].written
                       /\ UNCHANGED <<stubbed, disturbed>>
<1> DEFINE k == KeyOf(h, Head(hjob[h].todo))
<1>1. hpc[h] = "scan" /\ Left(h) /\ UNCHANGED <<hpc, seenFile>>
  BY DEF SkipSeen, WriteStub, StubFails
<1>2. hjob[h] \in Jobs /\ hjob[h].todo # << >> /\ hjob \in [Hooks -> Jobs]
  BY <1>1 DEF CaptureTypes, Left
<1>3. k \in Keys
  BY <1>1, NextKey
<1>4. CASE WriteStub(h)
  <2>1. hjob' = [hjob EXCEPT ![h] = Remembering(Counted(hjob[h], TRUE), k)]
    BY <1>4 DEF WriteStub
  <2>2. hjob'[h] = Remembering(Counted(hjob[h], TRUE), k)
    BY <1>2, <2>1
  <2>3. /\ hjob'[h] \in Jobs /\ hjob'[h].session = hjob[h].session
        /\ hjob'[h].seen = hjob[h].seen \cup {k} /\ hjob'[h].written = hjob[h].written + 1
    <3> DEFINE c == Counted(hjob[h], TRUE)
    <3>1. /\ c \in Jobs /\ c.session = hjob[h].session
          /\ c.seen = hjob[h].seen /\ c.written = hjob[h].written + 1
      BY <1>2, CountedKeeps
    <3> HIDE DEF c
    <3>2. /\ Remembering(c, k) \in Jobs /\ Remembering(c, k).session = c.session
          /\ Remembering(c, k).seen = c.seen \cup {k} /\ Remembering(c, k).written = c.written
      BY <1>3, <3>1, RememberingKeeps
    <3> QED
      BY <2>2, <3>1, <3>2 DEF c
  <2>4. k \notin hjob[h].seen /\ stubbed' = [stubbed EXCEPT ![k] = @ + 1] /\ UNCHANGED disturbed
    BY <1>4 DEF WriteStub
  <2> QED
    BY <1>1, <1>2, <1>3, <1>4, <2>1, <2>2, <2>3, <2>4
<1>5. CASE ~WriteStub(h)
  <2>1. hjob' = [hjob EXCEPT ![h] = Counted(hjob[h], FALSE)] /\ UNCHANGED <<stubbed, disturbed>>
    BY <1>5 DEF SkipSeen, StubFails, AfterFailure
  <2>2. hjob'[h] = Counted(hjob[h], FALSE)
    BY <1>2, <2>1
  <2>3. /\ hjob'[h] \in Jobs /\ hjob'[h].session = hjob[h].session
        /\ hjob'[h].seen = hjob[h].seen /\ hjob'[h].written = hjob[h].written
    BY <1>2, <2>2, CountedKeeps
  <2> QED
    BY <1>1, <1>2, <1>3, <1>5, <2>1, <2>2, <2>3
<1> QED
  BY <1>4, <1>5

(* Gates and people leave the captures alone.                                *)
LEMMA CaptureSteps ==
    ASSUME [Next]_vars
    PROVE  \/ Fire \/ HookKilled \/ SeenLost \/ UNCHANGED captureVars
           \/ \E h \in Hooks : \/ SkipSeen(h) \/ WriteStub(h) \/ StubFails(h)
                               \/ Truncate(h) \/ Save(h) \/ SaveNothing(h) \/ Leave(h)
<1>1. CASE UNCHANGED vars
  BY <1>1 DEF vars
<1>2. CASE Next
  BY <1>2 DEF Next, CaptureNext
<1> QED
  BY <1>1, <1>2

-----------------------------------------------------------------------------
(* A capture holds a session of the vault and keys of its conclusions, and so  *)
(* does the file (session_capture.go).                                       *)
THEOREM CapturesTyped == Spec => []CaptureTypes
<1>1. Init => CaptureTypes
  <2>1. NoHook \in Jobs
    BY DEF NoHook, Jobs
  <2> QED
    BY <2>1 DEF Init, CaptureInit, CaptureTypes
<1>2. CaptureTypes /\ [Next]_vars => CaptureTypes'
  <2> SUFFICES ASSUME CaptureTypes, [Next]_vars PROVE CaptureTypes'
    OBVIOUS
  <2>0. NoHook \in Jobs
    BY DEF NoHook, Jobs
  <2>1. CASE Fire
    <3>1. PICK h \in Hooks, s \in Sessions :
            /\ hjob' = [hjob EXCEPT ![h] = [session |-> s, todo |-> Said[s], seen |-> LoadSeen, written |-> 0]]
            /\ hpc' = [hpc EXCEPT ![h] = "scan"]
            /\ UNCHANGED <<seenFile, stubbed>>
      BY <2>1 DEF Fire, GoTo
    <3> DEFINE new == [session |-> s, todo |-> Said[s], seen |-> LoadSeen, written |-> 0]
    <3>2. new \in Jobs /\ new.session \in Sessions
      BY SaidAssumption DEF Jobs, LoadSeen, CaptureTypes
    <3>3. hjob' = [hjob EXCEPT ![h] = new]
      BY <3>1
    <3> HIDE DEF new
    <3> QED
      BY <3>1, <3>2, <3>3 DEF CaptureTypes
  <2>2. CASE HookKilled
    <3>1. PICK h \in Hooks : hpc' = [hpc EXCEPT ![h] = "idle"] /\ hjob' = [hjob EXCEPT ![h] = NoHook]
      BY <2>2 DEF HookKilled, GoTo, AtWork
    <3>2. UNCHANGED <<seenFile, stubbed>>
      BY <2>2 DEF HookKilled
    <3> QED
      BY <2>0, <3>1, <3>2 DEF CaptureTypes
  <2>3. CASE SeenLost
    BY <2>3 DEF SeenLost, CaptureTypes
  <2>4. CASE UNCHANGED captureVars
    BY <2>4 DEF captureVars, CaptureTypes
  <2>5. ASSUME NEW h \in Hooks, SkipSeen(h) \/ WriteStub(h) \/ StubFails(h) PROVE CaptureTypes'
    <3> DEFINE k == KeyOf(h, Head(hjob[h].todo))
    <3>1. /\ hpc[h] = "scan" /\ UNCHANGED <<hpc, seenFile>> /\ k \in Keys
          /\ hjob' = [hjob EXCEPT ![h] = hjob'[h]] /\ hjob'[h] \in Jobs
          /\ hjob'[h].session = hjob[h].session
          /\ \/ stubbed' = [stubbed EXCEPT ![k] = @ + 1]
             \/ UNCHANGED stubbed
      BY <2>5, Taken
    <3> HIDE DEF k
    <3>2. hjob' \in [Hooks -> Jobs]
      BY <3>1 DEF CaptureTypes
    <3>3. \A g \in Hooks : hjob'[g].session = hjob[g].session
      BY <3>1 DEF CaptureTypes
    <3>4. stubbed' \in [Keys -> Nat]
      BY <3>1 DEF CaptureTypes
    <3> QED
      BY <3>1, <3>2, <3>3, <3>4 DEF CaptureTypes
  <2>6. ASSUME NEW h \in Hooks, Truncate(h) PROVE CaptureTypes'
    BY <2>6 DEF Truncate, GoTo, CaptureTypes
  <2>7. ASSUME NEW h \in Hooks, Save(h) PROVE CaptureTypes'
    <3>1. hjob[h].seen \subseteq Keys
      BY DEF CaptureTypes, Jobs
    <3> QED
      BY <2>7, <3>1 DEF Save, GoTo, CaptureTypes
  <2>8. ASSUME NEW h \in Hooks, SaveNothing(h) PROVE CaptureTypes'
    BY <2>8 DEF SaveNothing, GoTo, CaptureTypes
  <2>9. ASSUME NEW h \in Hooks, Leave(h) PROVE CaptureTypes'
    BY <2>0, <2>9 DEF Leave, GoTo, CaptureTypes
  <2> QED
    BY <2>1, <2>2, <2>3, <2>4, <2>5, <2>6, <2>7, <2>8, <2>9, CaptureSteps
<1> QED
  BY <1>1, <1>2, PTL DEF Spec

(* No failing write, kill or second hook makes a conclusion seen that has no  *)
(* stub (session_capture.go:95-110).                                         *)
THEOREM SeenAlwaysStubbed == Spec => []SeenWasStubbed
<1>1. Init => SeenInv
  <2>1. NoHook.seen = {}
    BY DEF NoHook
  <2> QED
    BY <2>1 DEF Init, CaptureInit, SeenInv, SeenWasStubbed
<1>2. CaptureTypes /\ SeenInv /\ [Next]_vars => SeenInv'
  <2> SUFFICES ASSUME CaptureTypes, SeenInv, [Next]_vars PROVE SeenInv'
    OBVIOUS
  <2>0. NoHook.seen = {}
    BY DEF NoHook
  <2>1. CASE Fire
    <3>1. PICK h \in Hooks, s \in Sessions :
            hjob' = [hjob EXCEPT ![h] = [session |-> s, todo |-> Said[s], seen |-> LoadSeen, written |-> 0]]
      BY <2>1 DEF Fire
    <3>2. \A g \in Hooks : hjob'[g].seen = hjob[g].seen \/ hjob'[g].seen = seenFile
      BY <3>1 DEF CaptureTypes, LoadSeen
    <3> QED
      BY <2>1, <3>2 DEF Fire, SeenInv, SeenWasStubbed
  <2>2. CASE HookKilled
    <3>1. PICK h \in Hooks : hjob' = [hjob EXCEPT ![h] = NoHook]
      BY <2>2 DEF HookKilled, AtWork
    <3>2. \A g \in Hooks : hjob'[g].seen \subseteq hjob[g].seen
      BY <2>0, <3>1 DEF CaptureTypes
    <3> QED
      BY <2>2, <3>2 DEF HookKilled, SeenInv, SeenWasStubbed
  <2>3. CASE SeenLost
    BY <2>3 DEF SeenLost, SeenInv, SeenWasStubbed
  <2>4. CASE UNCHANGED captureVars
    BY <2>4 DEF captureVars, SeenInv, SeenWasStubbed
  <2>5. ASSUME NEW h \in Hooks, SkipSeen(h) \/ WriteStub(h) \/ StubFails(h) PROVE SeenInv'
    <3> DEFINE k == KeyOf(h, Head(hjob[h].todo))
    <3>1. /\ UNCHANGED seenFile /\ k \in Keys
          /\ hjob' = [hjob EXCEPT ![h] = hjob'[h]]
          /\ \/ hjob'[h].seen = hjob[h].seen \cup {k} /\ stubbed' = [stubbed EXCEPT ![k] = @ + 1]
             \/ hjob'[h].seen = hjob[h].seen /\ UNCHANGED stubbed
      BY <2>5, Taken
    <3> HIDE DEF k
    <3>2. \A l \in Keys : stubbed[l] > 0 => stubbed'[l] > 0
      BY <3>1 DEF CaptureTypes
    <3>3. \A g \in Hooks : hjob[g].seen \subseteq Keys
      BY DEF CaptureTypes, Jobs
    <3>4. \A g \in Hooks : \A l \in hjob'[g].seen : l \in hjob[g].seen \/ (l = k /\ stubbed'[k] > 0)
      BY <3>1 DEF CaptureTypes
    <3>5. \A g \in Hooks : \A l \in hjob'[g].seen : stubbed'[l] > 0
      BY <3>2, <3>3, <3>4 DEF SeenInv
    <3>6. \A l \in seenFile' : stubbed'[l] > 0
      BY <3>1, <3>2 DEF SeenInv, SeenWasStubbed, CaptureTypes
    <3> QED
      BY <3>5, <3>6 DEF SeenInv, SeenWasStubbed
  <2>6. ASSUME NEW h \in Hooks, Truncate(h) PROVE SeenInv'
    BY <2>6 DEF Truncate, SeenInv, SeenWasStubbed
  <2>7. ASSUME NEW h \in Hooks, Save(h) PROVE SeenInv'
    BY <2>7 DEF Save, SeenInv, SeenWasStubbed
  <2>8. ASSUME NEW h \in Hooks, SaveNothing(h) PROVE SeenInv'
    BY <2>8 DEF SaveNothing, SeenInv, SeenWasStubbed
  <2>9. ASSUME NEW h \in Hooks, Leave(h) PROVE SeenInv'
    <3>1. \A g \in Hooks : hjob'[g].seen \subseteq hjob[g].seen
      BY <2>0, <2>9 DEF Leave, CaptureTypes
    <3> QED
      BY <2>9, <3>1 DEF Leave, SeenInv, SeenWasStubbed
  <2> QED
    BY <2>1, <2>2, <2>3, <2>4, <2>5, <2>6, <2>7, <2>8, <2>9, CaptureSteps
<1>3. SeenInv => SeenWasStubbed
  BY DEF SeenInv
<1> QED
  BY <1>1, <1>2, <1>3, CapturesTyped, PTL DEF Spec

(* Deduplication holds where hooks come one after the other and none is       *)
(* killed, whatever the gates and people do to the inbox                      *)
(* (session_capture.go:28).                                                  *)
THEOREM StubbedOnceAlways == Spec => []StubbedOnce
<1>1. Init => OnceInv
  BY DEF Init, CaptureInit, OnceInv, AtWork
<1>2. CaptureTypes /\ OnceInv /\ [Next]_vars => OnceInv'
  <2> SUFFICES ASSUME CaptureTypes, OnceInv, [Next]_vars, disturbed' # Keys PROVE OnceInv'
    BY DEF OnceInv
  <2>1. disturbed # Keys => /\ \A g, h \in AtWork : g = h
                            /\ \A k \in Keys : stubbed[k] <= 1 /\ (stubbed[k] > 0 => Known(k))
    BY DEF OnceInv
  <2>2. CASE Fire
    <3>1. PICK h \in Hooks, s \in Sessions :
            /\ hjob' = [hjob EXCEPT ![h] = [session |-> s, todo |-> Said[s], seen |-> LoadSeen, written |-> 0]]
            /\ hpc' = [hpc EXCEPT ![h] = "scan"]
            /\ disturbed' = IF AtWork = {} THEN disturbed ELSE Keys
            /\ UNCHANGED <<seenFile, stubbed>>
      BY <2>2 DEF Fire, GoTo
    <3>2. AtWork = {} /\ disturbed # Keys
      BY <3>1
    <3>3. AtWork' = {h} /\ hpc'[h] = "scan" /\ hjob'[h].seen = seenFile
      BY <3>1, <3>2 DEF AtWork, CaptureTypes, LoadSeen
    <3>4. \A k \in Keys : Known(k) => Known(k)'
      BY <3>1, <3>2, <3>3 DEF Known
    <3> QED
      BY <2>1, <3>1, <3>2, <3>3, <3>4 DEF OnceInv
  <2>3. CASE HookKilled
    BY <2>3 DEF HookKilled
  <2>4. CASE SeenLost
    BY <2>4 DEF SeenLost
  <2>5. CASE UNCHANGED captureVars
    BY <2>1, <2>5 DEF captureVars, OnceInv, Known, AtWork
  <2>6. ASSUME NEW h \in Hooks,
               SkipSeen(h) \/ WriteStub(h) \/ StubFails(h) \/ Truncate(h) \/ Save(h) \/ SaveNothing(h) \/ Leave(h)
        PROVE  /\ disturbed # Keys /\ AtWork = {h}
               /\ \A k \in Keys : stubbed[k] > 0 =>
                    /\ k \in hjob[h].seen
                    /\ hpc[h] = "done" \/ (hpc[h] = "scan" /\ hjob[h].written = 0) => k \in seenFile
    <3>1. hpc[h] # "idle" /\ UNCHANGED disturbed
      BY <2>6, Taken DEF Truncate, Save, SaveNothing, Leave
    <3>2. disturbed # Keys /\ h \in AtWork
      BY <3>1 DEF AtWork
    <3>3. AtWork = {h}
      BY <2>1, <3>2
    <3> QED
      BY <2>1, <3>2, <3>3 DEF Known
  <2>7. ASSUME NEW h \in Hooks, SkipSeen(h) \/ WriteStub(h) \/ StubFails(h) PROVE OnceInv'
    <3> DEFINE k == KeyOf(h, Head(hjob[h].todo))
    <3>1. /\ hpc[h] = "scan" /\ UNCHANGED <<hpc, seenFile>> /\ k \in Keys
          /\ hjob' = [hjob EXCEPT ![h] = hjob'[h]]
          /\ \/ /\ k \notin hjob[h].seen
                /\ hjob'[h].seen = hjob[h].seen \cup {k} /\ hjob'[h].written = hjob[h].written + 1
                /\ stubbed' = [stubbed EXCEPT ![k] = @ + 1]
             \/ /\ hjob'[h].seen = hjob[h].seen /\ hjob'[h].written = hjob[h].written
                /\ UNCHANGED stubbed
      BY <2>7, Taken
    <3> HIDE DEF k
    <3>2. AtWork' = {h}
      BY <2>6, <2>7, <3>1 DEF AtWork
    <3>3. hjob[h].written \in Nat
      BY DEF CaptureTypes, Jobs
    <3>4. k \notin hjob[h].seen => stubbed[k] = 0
      BY <2>6, <2>7, <3>1 DEF CaptureTypes
    <3>5. \A l \in Keys : stubbed'[l] <= 1 /\ (stubbed'[l] > 0 => stubbed[l] > 0 \/ (l = k /\ k \in hjob'[h].seen /\ hjob'[h].written > 0))
      <4> stubbed \in [Keys -> Nat] /\ \A l \in Keys : stubbed[l] <= 1
        BY <2>1, <2>6, <2>7 DEF CaptureTypes
      <4> QED
        BY <3>1, <3>3, <3>4
    <3>6. \A l \in Keys : stubbed[l] > 0 =>
            l \in hjob'[h].seen /\ (hjob'[h].written = 0 => l \in seenFile)
      BY <2>6, <2>7, <3>1, <3>3
    <3>7. \A l \in Keys : stubbed'[l] > 0 => Known(l)'
      BY <3>1, <3>2, <3>5, <3>6 DEF Known
    <3> QED
      BY <3>2, <3>5, <3>7 DEF OnceInv
  <2>8. ASSUME NEW h \in Hooks, Truncate(h) \/ Save(h) \/ SaveNothing(h) PROVE OnceInv'
    <3>1. UNCHANGED <<hjob, stubbed>>
      BY <2>8 DEF Truncate, Save, SaveNothing
    <3>2. AtWork' = {h}
      BY <2>6, <2>8 DEF Truncate, Save, SaveNothing, GoTo, AtWork, CaptureTypes
    <3>3. \A k \in Keys : stubbed[k] > 0 => hpc'[h] = "save" \/ k \in seenFile'
      BY <2>6, <2>8 DEF Truncate, Save, SaveNothing, GoTo, CaptureTypes
    <3>4. hpc'[h] = "save" \/ hpc'[h] = "done"
      BY <2>8 DEF Truncate, Save, SaveNothing, GoTo, CaptureTypes
    <3>5. \A k \in Keys : stubbed[k] > 0 => Known(k)'
      BY <2>6, <2>8, <3>1, <3>2, <3>3, <3>4 DEF Known
    <3> QED
      BY <2>1, <2>6, <2>8, <3>1, <3>2, <3>5 DEF OnceInv
  <2>9. ASSUME NEW h \in Hooks, Leave(h) PROVE OnceInv'
    <3>1. AtWork' = {} /\ UNCHANGED <<seenFile, stubbed>> /\ hpc[h] = "done"
      BY <2>6, <2>9 DEF Leave, GoTo, AtWork, CaptureTypes
    <3>2. \A k \in Keys : stubbed[k] > 0 => Known(k)'
      BY <2>6, <2>9, <3>1 DEF Known
    <3> QED
      BY <2>1, <2>6, <2>9, <3>1, <3>2 DEF OnceInv
  <2> QED
    BY <2>2, <2>3, <2>4, <2>5, <2>7, <2>8, <2>9, CaptureSteps
<1>3. CaptureTypes /\ OnceInv => StubbedOnce
  BY DEF OnceInv, StubbedOnce, CaptureTypes
<1> QED
  BY <1>1, <1>2, <1>3, CapturesTyped, PTL DEF Spec

-----------------------------------------------------------------------------
(* Captures and people leave the gates alone.                                *)
LEMMA GateSteps ==
    ASSUME [Next]_vars
    PROVE  \/ StartGate \/ Quarantine \/ GateKilled \/ UNCHANGED gateVars
           \/ \E g \in GateProcs : \/ TakeMd(g) \/ TakeErr(g)
                                   \/ Drop(g, "drop md", "md", "drop err") \/ Drop(g, "drop err", "err", "d4")
                                   \/ Outcome(g) \/ Repair(g) \/ Accepted(g)
                                   \/ OpenMd(g) \/ WriteMd(g) \/ OpenErr(g) \/ WriteErr(g)
<1>1. CASE UNCHANGED vars
  BY <1>1 DEF vars
<1>2. CASE Next
  BY <1>2 DEF Next, GateRunNext, Take
<1> QED
  BY <1>1, <1>2

LEMMA NoJobTyped == NoJob \in GateJobs /\ NoFile \in Copies
  BY DEF NoJob, NoFile, GateJobs, Copies

(* A change of one file of a copy leaves its other file, and other copies.     *)
LEMMA PutsMd ==
    ASSUME GateTypes, NEW p \in Paths, NEW b \in BodiesOf \cup {None, Cut}, NEW gs \in SUBSET GateProcs,
           drafts' = Put(p, "md", b, gs)
    PROVE  /\ drafts' = [drafts EXCEPT ![p] = drafts'[p]] /\ drafts'[p] \in Copies
           /\ drafts'[p].md = b /\ drafts'[p].open.md = gs
           /\ drafts'[p].err = drafts[p].err /\ drafts'[p].open.err = drafts[p].open.err
<1> DEFINE c == drafts[p]
           o == [c.open EXCEPT !.md = gs]
           n == [[c EXCEPT !.md = b] EXCEPT !.open = o]
<1>1. c \in Copies /\ c.open \in [md : SUBSET GateProcs, err : SUBSET GateProcs]
  BY DEF GateTypes, Copies
<1>2. o \in [md : SUBSET GateProcs, err : SUBSET GateProcs] /\ o.md = gs /\ o.err = c.open.err
  BY <1>1
<1>3. drafts' = [drafts EXCEPT ![p] = n]
  BY <1>1 DEF Put, GateTypes, Copies
<1> HIDE DEF o
<1>4. n \in Copies /\ n.md = b /\ n.open = o /\ n.err = c.err
  BY <1>1, <1>2 DEF Copies
<1> HIDE DEF n
<1>5. drafts'[p] = n
  BY <1>3 DEF GateTypes
<1> QED
  BY <1>2, <1>3, <1>4, <1>5

LEMMA PutsErr ==
    ASSUME GateTypes, NEW p \in Paths, NEW e \in Drafts \cup {NoDraft, CutDraft}, NEW gs \in SUBSET GateProcs,
           drafts' = Put(p, "err", e, gs)
    PROVE  /\ drafts' = [drafts EXCEPT ![p] = drafts'[p]] /\ drafts'[p] \in Copies
           /\ drafts'[p].err = e /\ drafts'[p].open.err = gs
           /\ drafts'[p].md = drafts[p].md /\ drafts'[p].open.md = drafts[p].open.md
<1> DEFINE c == drafts[p]
           o == [c.open EXCEPT !.err = gs]
           n == [[c EXCEPT !.err = e] EXCEPT !.open = o]
<1>1. c \in Copies /\ c.open \in [md : SUBSET GateProcs, err : SUBSET GateProcs]
  BY DEF GateTypes, Copies
<1>2. o \in [md : SUBSET GateProcs, err : SUBSET GateProcs] /\ o.err = gs /\ o.md = c.open.md
  BY <1>1
<1>3. drafts' = [drafts EXCEPT ![p] = n]
  BY <1>1 DEF Put, GateTypes, Copies
<1> HIDE DEF o
<1>4. n \in Copies /\ n.err = e /\ n.open = o /\ n.md = c.md
  BY <1>1, <1>2 DEF Copies
<1> HIDE DEF n
<1>5. drafts'[p] = n
  BY <1>3 DEF GateTypes
<1> QED
  BY <1>2, <1>3, <1>4, <1>5

(* The steps of a gate that leave copies alone: its own job moves, and its    *)
(* hands are on no other copy than before.                                   *)
LEMMA JobMoves ==
    ASSUME GateTypes,
           \/ StartGate \/ Quarantine \/ GateKilled
           \/ \E g \in GateProcs : TakeErr(g) \/ Outcome(g) \/ Repair(g) \/ Accepted(g)
    PROVE  /\ UNCHANGED <<drafts, handed, owed>>
           /\ \E g \in GateProcs :
                /\ gpc' = [gpc EXCEPT ![g] = gpc'[g]] /\ gpc'[g] \in Labels
                /\ gjob' = [gjob EXCEPT ![g] = gjob'[g]] /\ gjob'[g] \in GateJobs
                /\ gpc'[g] # "idle" => gjob'[g].draft \in Drafts
                /\ gpc'[g] = "take md" => gjob'[g].prev \in Paths
                /\ gpc'[g] \in Grip => gpc[g] \in Grip /\ gjob'[g].prev = gjob[g].prev
<1>1. CASE StartGate
  <2>1. PICK g \in GateProcs, d \in Drafts, prev \in handed \cup {NoPath}, r \in RunIds \cup {None} :
          /\ gjob' = [gjob EXCEPT ![g] = [NoJob EXCEPT !.draft = d, !.prev = prev, !.run = r]]
          /\ gpc' = [gpc EXCEPT ![g] = IF ~d.passes THEN "quarantine" ELSE IF prev # NoPath THEN "take md" ELSE "d5"]
    BY <1>1 DEF StartGate, Start, To
  <2> DEFINE new == [NoJob EXCEPT !.draft = d, !.prev = prev, !.run = r]
  <2>2. new \in GateJobs /\ new.draft = d /\ new.prev = prev
    BY NoJobTyped DEF GateTypes, GateJobs
  <2>3. gjob' = [gjob EXCEPT ![g] = new]
    BY <2>1
  <2> HIDE DEF new
  <2>4. gjob'[g] = new
    BY <2>3 DEF GateTypes
  <2>5. gpc'[g] = IF ~d.passes THEN "quarantine" ELSE IF prev # NoPath THEN "take md" ELSE "d5"
    BY <2>1 DEF GateTypes
  <2>6. gpc'[g] \in Labels \ Grip /\ (gpc'[g] = "take md" => prev \in Paths)
    BY <2>5 DEF Labels, Grip, GateTypes
  <2>7. UNCHANGED <<drafts, handed, owed>>
    BY <1>1 DEF StartGate, Start, gateData
  <2>8. gpc' = [gpc EXCEPT ![g] = gpc'[g]]
    BY <2>1 DEF GateTypes
  <2>9. gjob' = [gjob EXCEPT ![g] = gjob'[g]]
    BY <2>3, <2>4
  <2> QED
    BY <2>2, <2>4, <2>6, <2>7, <2>8, <2>9
<1>2. CASE Quarantine \/ GateKilled
  <2>1. PICK g \in GateProcs : /\ gpc[g] # "idle"
                               /\ \/ End(g)
                                  \/ To(g, "outcome") /\ UNCHANGED gjob
    BY <1>2 DEF Quarantine, GateKilled, Working, Busy
  <2>2. UNCHANGED <<drafts, handed, owed>>
    BY <1>2 DEF Quarantine, GateKilled, gateData
  <2> QED
    BY <2>1, <2>2, NoJobTyped DEF End, To, GateTypes, Labels, Grip
<1>3. ASSUME NEW g \in GateProcs, Outcome(g) \/ Repair(g) \/ Accepted(g)
      PROVE  /\ gpc[g] # "idle"
             /\ \/ End(g)
                \/ (\E l \in {"save md", "d5", "outcome"} : To(g, l)) /\ UNCHANGED gjob
             /\ UNCHANGED <<drafts, handed, owed>>
  BY <1>3 DEF Outcome, Repair, Accepted, ghosts
<1>4. ASSUME NEW g \in GateProcs, Outcome(g) \/ Repair(g) \/ Accepted(g)
      PROVE  /\ UNCHANGED <<drafts, handed, owed>>
             /\ gpc' = [gpc EXCEPT ![g] = gpc'[g]] /\ gpc'[g] \in Labels \ (Grip \cup {"take md"})
             /\ gjob' = [gjob EXCEPT ![g] = gjob'[g]] /\ gjob'[g] \in GateJobs
             /\ gpc'[g] # "idle" => gjob'[g].draft \in Drafts
  BY <1>3, <1>4, NoJobTyped DEF End, To, GateTypes, Labels, Grip
<1>5. ASSUME NEW g \in GateProcs, TakeErr(g)
      PROVE  /\ UNCHANGED <<drafts, handed, owed>>
             /\ gpc' = [gpc EXCEPT ![g] = gpc'[g]] /\ gpc'[g] \in {"d5", "drop md"} /\ gpc[g] = "take err"
             /\ gjob' = [gjob EXCEPT ![g] = gjob'[g]] /\ gjob'[g] \in GateJobs
             /\ gjob'[g].draft = gjob[g].draft /\ gjob'[g].prev = gjob[g].prev
  <2> DEFINE p == gjob[g].prev
  <2>1. gpc[g] = "take err" /\ p \in Paths /\ gjob[g] \in GateJobs
    BY <1>5 DEF TakeErr, GateTypes, Grip
  <2>2. drafts[p].err \in Drafts \cup {NoDraft, CutDraft}
    BY <2>1 DEF GateTypes, Copies
  <2>3. \/ To(g, "d5") /\ UNCHANGED gjob
        \/ To(g, "drop md") /\ gjob' = [gjob EXCEPT ![g].error = drafts[p].err]
    BY <1>5 DEF TakeErr
  <2>4. gjob' = [gjob EXCEPT ![g] = gjob'[g]]
    BY <2>3 DEF GateTypes
  <2>5. gjob'[g] = gjob[g] \/ gjob'[g] = [gjob[g] EXCEPT !.error = drafts[p].err]
    BY <2>3 DEF GateTypes
  <2>6. gjob'[g] \in GateJobs /\ gjob'[g].draft = gjob[g].draft /\ gjob'[g].prev = gjob[g].prev
    BY <2>1, <2>2, <2>5 DEF GateJobs
  <2>7. gpc' = [gpc EXCEPT ![g] = gpc'[g]] /\ gpc'[g] \in {"d5", "drop md"}
    BY <2>3 DEF To, GateTypes
  <2>8. UNCHANGED <<drafts, handed, owed>>
    BY <1>5 DEF TakeErr, gateData
  <2> QED
    BY <2>1, <2>4, <2>6, <2>7, <2>8
<1>6. ASSUME NEW g \in GateProcs, TakeErr(g)
      PROVE  gpc'[g] \in Labels /\ gpc[g] \in Grip /\ gjob'[g].draft \in Drafts /\ gpc'[g] # "take md"
  BY <1>5, <1>6 DEF GateTypes, Labels, Grip
<1> QED
  BY <1>1, <1>2, <1>4, <1>5, <1>6 DEF Labels, Grip


(* TakeMd reads a copy, and then owes its drafts no more.                     *)
LEMMA TakeMdMoves ==
    ASSUME GateTypes, NEW g \in GateProcs, TakeMd(g)
    PROVE  LET p == gjob[g].prev
           IN  /\ gpc[g] = "take md" /\ p \in Paths /\ UNCHANGED <<drafts, handed>>
               /\ gjob' = [gjob EXCEPT ![g] = gjob'[g]] /\ gjob'[g] \in GateJobs
               /\ gjob'[g].draft = gjob[g].draft /\ gjob'[g].prev = p
               /\ \/ To(g, "d5") /\ UNCHANGED owed
                  \/ To(g, "take err") /\ owed' = {d \in owed : DraftPath(d) # p}
<1> DEFINE p == gjob[g].prev
<1>1. gpc[g] = "take md" /\ p \in Paths /\ UNCHANGED <<drafts, handed>> /\ gjob[g] \in GateJobs
  BY DEF TakeMd, GateTypes, gateData
<1>2. drafts[p].md \in BodiesOf \cup {None, Cut}
  BY <1>1 DEF GateTypes, Copies
<1>3. \/ To(g, "d5") /\ UNCHANGED <<gjob, owed>>
      \/ /\ To(g, "take err") /\ owed' = {d \in owed : DraftPath(d) # p}
         /\ gjob' = [gjob EXCEPT ![g].failing = drafts[p].md]
  BY DEF TakeMd
<1>4. gjob'[g] = gjob[g] \/ gjob'[g] = [gjob[g] EXCEPT !.failing = drafts[p].md]
  BY <1>3 DEF GateTypes
<1>5. gjob'[g] \in GateJobs /\ gjob'[g].draft = gjob[g].draft /\ gjob'[g].prev = p
  BY <1>1, <1>2, <1>4 DEF GateJobs
<1>6. gjob' = [gjob EXCEPT ![g] = gjob'[g]]
  BY <1>3 DEF GateTypes
<1> QED
  BY <1>1, <1>3, <1>5, <1>6

(* The two removals, each of a copy the gate has its hands on.                *)
LEMMA DropMoves ==
    ASSUME GateTypes, NEW g \in GateProcs,
           Drop(g, "drop md", "md", "drop err") \/ Drop(g, "drop err", "err", "d4")
    PROVE  LET p == gjob[g].prev
           IN  /\ gpc[g] \in Grip /\ p \in Paths /\ UNCHANGED <<gjob, handed, owed>>
               /\ To(g, "drop err") \/ To(g, "d4")
               /\ drafts' = [drafts EXCEPT ![p] = drafts'[p]] /\ drafts'[p] \in Copies
               /\ drafts'[p].md \in {None, drafts[p].md}
<1> DEFINE p == gjob[g].prev
<1>1. gpc[g] \in Grip /\ p \in Paths /\ UNCHANGED <<gjob, handed, owed>>
  BY DEF Drop, GateTypes, Grip
<1>2. To(g, "drop err") \/ To(g, "d4")
  BY DEF Drop
<1>3. \/ drafts' = Put(p, "md", None, {})
      \/ drafts' = Put(p, "err", NoDraft, {})
      \/ drafts' = drafts
  BY DEF Drop, Removed, NoFile
<1> HIDE DEF p
<1>4. CASE drafts' = drafts
  BY <1>1, <1>2, <1>4 DEF p, GateTypes
<1>7. None \in BodiesOf \cup {None, Cut} /\ NoDraft \in Drafts \cup {NoDraft, CutDraft} /\ {} \in SUBSET GateProcs
  OBVIOUS
<1>8. p \in Paths
  BY <1>1 DEF p
<1>5. CASE drafts' = Put(p, "md", None, {})
  <2>1. drafts' = [drafts EXCEPT ![p] = drafts'[p]] /\ drafts'[p] \in Copies /\ drafts'[p].md = None
    BY <1>5, <1>7, <1>8, PutsMd
  <2> QED
    BY <1>1, <1>2, <2>1 DEF p
<1>6. CASE drafts' = Put(p, "err", NoDraft, {})
  <2>1. drafts' = [drafts EXCEPT ![p] = drafts'[p]] /\ drafts'[p] \in Copies /\ drafts'[p].md = drafts[p].md
    BY <1>6, <1>7, <1>8, PutsErr
  <2> QED
    BY <1>1, <1>2, <2>1 DEF p
<1> QED
  BY <1>3, <1>4, <1>5, <1>6

(* The two files of SaveFailingDraft: what becomes of one that is opened, and   *)
(* of one that is written, which may have been unlinked since.               *)
Saving(g, from, to) ==
    LET d == gjob[g].draft
        p == DraftPath(d)
    IN  /\ gpc[g] = from /\ d \in Drafts /\ p \in Paths /\ d.body \in BodiesOf /\ p[2] = d.body
        /\ End(g) \/ (To(g, to) /\ UNCHANGED gjob)
        /\ drafts' = [drafts EXCEPT ![p] = drafts'[p]] /\ drafts'[p] \in Copies

LEMMA OpenMdMoves ==
    ASSUME GateTypes, NEW g \in GateProcs, OpenMd(g)
    PROVE  LET p == DraftPath(gjob[g].draft)
           IN  /\ Saving(g, "save md", "write md") /\ UNCHANGED handed
               /\ drafts'[p].err = drafts[p].err /\ drafts'[p].open.err = drafts[p].open.err
               /\ \/ /\ drafts'[p].md = Cut /\ g \in drafts'[p].open.md
                     /\ drafts[p].open.md \subseteq drafts'[p].open.md
                     /\ owed' = {e \in owed : DraftPath(e) # p} /\ To(g, "write md") /\ UNCHANGED gjob
                  \/ End(g) /\ UNCHANGED <<drafts, owed>>
<1> DEFINE d == gjob[g].draft
           p == DraftPath(d)
<1>1. gpc[g] = "save md" /\ d \in Drafts /\ UNCHANGED handed
  BY DEF OpenMd, GateTypes
<1>2. p \in Paths /\ p[2] = d.body /\ d.body \in BodiesOf
  BY <1>1 DEF DraftPath, Paths, BodiesOf
<1>3. drafts[p] \in Copies /\ drafts[p].open.md \cup {g} \in SUBSET GateProcs
  BY <1>2 DEF GateTypes, Copies
<1>4. \/ /\ drafts' = Put(p, "md", Cut, drafts[p].open.md \cup {g})
         /\ owed' = {e \in owed : DraftPath(e) # p} /\ To(g, "write md") /\ UNCHANGED gjob
      \/ End(g) /\ UNCHANGED <<drafts, owed>>
  BY DEF OpenMd
<1> HIDE DEF d, p
<1>5. CASE End(g) /\ UNCHANGED <<drafts, owed>>
  BY <1>1, <1>2, <1>3, <1>5 DEF Saving, GateTypes, d, p
<1>6. CASE /\ drafts' = Put(p, "md", Cut, drafts[p].open.md \cup {g})
           /\ owed' = {e \in owed : DraftPath(e) # p} /\ To(g, "write md") /\ UNCHANGED gjob
  <2>1. /\ drafts' = [drafts EXCEPT ![p] = drafts'[p]] /\ drafts'[p] \in Copies
        /\ drafts'[p].md = Cut /\ drafts'[p].open.md = drafts[p].open.md \cup {g}
        /\ drafts'[p].err = drafts[p].err /\ drafts'[p].open.err = drafts[p].open.err
    BY <1>2, <1>3, <1>6, PutsMd
  <2> QED
    BY <1>1, <1>2, <1>6, <2>1 DEF Saving, d, p
<1> QED
  BY <1>4, <1>5, <1>6

LEMMA WriteMdMoves ==
    ASSUME GateTypes, NEW g \in GateProcs, WriteMd(g)
    PROVE  LET p == DraftPath(gjob[g].draft)
           IN  /\ Saving(g, "write md", "save err") /\ UNCHANGED <<handed, owed>>
               /\ drafts'[p].err = drafts[p].err /\ drafts'[p].open.err = drafts[p].open.err
               /\ \/ /\ g \in drafts[p].open.md /\ drafts'[p].md = gjob[g].draft.body
                     /\ To(g, "save err") /\ UNCHANGED <<gjob, spoiled>>
                  \/ g \notin drafts[p].open.md /\ To(g, "save err") /\ UNCHANGED <<drafts, gjob, spoiled>>
                  \/ End(g) /\ Spoil({p[2]}) /\ UNCHANGED drafts
<1> DEFINE d == gjob[g].draft
           p == DraftPath(d)
<1>1. gpc[g] = "write md" /\ d \in Drafts /\ UNCHANGED <<handed, owed>>
  BY DEF WriteMd, GateTypes
<1>2. p \in Paths /\ p[2] = d.body /\ d.body \in BodiesOf
  BY <1>1 DEF DraftPath, Paths, BodiesOf
<1>3. drafts[p] \in Copies /\ drafts[p].open.md \ {g} \in SUBSET GateProcs
  BY <1>2 DEF GateTypes, Copies
<1>4. \/ /\ g \in drafts[p].open.md /\ drafts' = Put(p, "md", d.body, drafts[p].open.md \ {g})
         /\ To(g, "save err") /\ UNCHANGED <<gjob, spoiled>>
      \/ g \notin drafts[p].open.md /\ To(g, "save err") /\ UNCHANGED <<drafts, gjob, spoiled>>
      \/ End(g) /\ Spoil({d.body}) /\ UNCHANGED drafts
  BY DEF WriteMd, CutShort
<1> HIDE DEF d, p
<1>7. drafts = [drafts EXCEPT ![p] = drafts[p]]
  BY <1>2 DEF GateTypes
<1>8. gjob[g].draft = d /\ DraftPath(d) = p
  BY DEF d, p
<1>5. CASE UNCHANGED drafts
  <2>1. UNCHANGED drafts /\ drafts' = [drafts EXCEPT ![p] = drafts'[p]] /\ drafts'[p] \in Copies
    BY <1>3, <1>5, <1>7
  <2>2. End(g) \/ (To(g, "save err") /\ UNCHANGED gjob)
    BY <1>4
  <2>3. Saving(g, "write md", "save err")
    BY <1>1, <1>2, <1>8, <2>1, <2>2 DEF Saving
  <2>4. \/ /\ g \in drafts[p].open.md /\ drafts'[p].md = d.body
           /\ To(g, "save err") /\ UNCHANGED <<gjob, spoiled>>
        \/ g \notin drafts[p].open.md /\ To(g, "save err") /\ UNCHANGED <<drafts, gjob, spoiled>>
        \/ End(g) /\ Spoil({d.body}) /\ UNCHANGED drafts
    <3>1. SUFFICES ASSUME drafts' = Put(p, "md", d.body, drafts[p].open.md \ {g}) PROVE drafts'[p].md = d.body
      BY <1>4
    <3>2. d.body \in BodiesOf \cup {None, Cut}
      BY <1>2
    <3> QED
      BY <1>2, <1>3, <3>1, <3>2, PutsMd
  <2> QED
    BY <1>1, <1>2, <1>8, <2>1, <2>3, <2>4
<1>6. CASE /\ g \in drafts[p].open.md /\ drafts' = Put(p, "md", d.body, drafts[p].open.md \ {g})
           /\ To(g, "save err") /\ UNCHANGED <<gjob, spoiled>>
  <2>1. /\ drafts' = [drafts EXCEPT ![p] = drafts'[p]] /\ drafts'[p] \in Copies
        /\ drafts'[p].md = d.body
        /\ drafts'[p].err = drafts[p].err /\ drafts'[p].open.err = drafts[p].open.err
    <3> DEFINE b == d.body
               gs == drafts[p].open.md \ {g}
    <3>1. b \in BodiesOf \cup {None, Cut} /\ gs \in SUBSET GateProcs /\ drafts' = Put(p, "md", b, gs)
      BY <1>2, <1>3, <1>6
    <3> HIDE DEF b, gs
    <3>2. /\ drafts' = [drafts EXCEPT ![p] = drafts'[p]] /\ drafts'[p] \in Copies /\ drafts'[p].md = b
          /\ drafts'[p].err = drafts[p].err /\ drafts'[p].open.err = drafts[p].open.err
      BY <1>2, <3>1, PutsMd
    <3> QED
      BY <3>2 DEF b
  <2> QED
    BY <1>1, <1>2, <1>6, <2>1 DEF Saving, d, p
<1> QED
  BY <1>4, <1>5, <1>6

LEMMA OpenErrMoves ==
    ASSUME GateTypes, NEW g \in GateProcs, OpenErr(g)
    PROVE  LET p == DraftPath(gjob[g].draft)
           IN  /\ Saving(g, "save err", "write err") /\ UNCHANGED <<handed, owed>>
               /\ drafts'[p].md = drafts[p].md /\ drafts'[p].open.md = drafts[p].open.md
               /\ \/ /\ drafts'[p].err = CutDraft /\ g \in drafts'[p].open.err
                     /\ drafts[p].open.err \subseteq drafts'[p].open.err
                     /\ Spoil(IF Taking(p) # {} THEN {p[2]} ELSE {}) /\ To(g, "write err") /\ UNCHANGED gjob
                  \/ End(g) /\ UNCHANGED <<drafts, spoiled>>
<1> DEFINE d == gjob[g].draft
           p == DraftPath(d)
<1>1. gpc[g] = "save err" /\ d \in Drafts /\ UNCHANGED <<handed, owed>>
  BY DEF OpenErr, GateTypes
<1>2. p \in Paths /\ p[2] = d.body /\ d.body \in BodiesOf
  BY <1>1 DEF DraftPath, Paths, BodiesOf
<1>3. drafts[p] \in Copies /\ drafts[p].open.err \cup {g} \in SUBSET GateProcs
  BY <1>2 DEF GateTypes, Copies
<1>4. \/ /\ drafts' = Put(p, "err", CutDraft, drafts[p].open.err \cup {g})
         /\ Spoil(IF Taking(p) # {} THEN {d.body} ELSE {}) /\ To(g, "write err") /\ UNCHANGED gjob
      \/ End(g) /\ UNCHANGED <<drafts, spoiled>>
  BY DEF OpenErr
<1> HIDE DEF d, p
<1>5. CASE End(g) /\ UNCHANGED <<drafts, spoiled>>
  BY <1>1, <1>2, <1>3, <1>5 DEF Saving, GateTypes, d, p
<1>6. CASE /\ drafts' = Put(p, "err", CutDraft, drafts[p].open.err \cup {g})
           /\ Spoil(IF Taking(p) # {} THEN {d.body} ELSE {}) /\ To(g, "write err") /\ UNCHANGED gjob
  <2>1. /\ drafts' = [drafts EXCEPT ![p] = drafts'[p]] /\ drafts'[p] \in Copies
        /\ drafts'[p].err = CutDraft /\ drafts'[p].open.err = drafts[p].open.err \cup {g}
        /\ drafts'[p].md = drafts[p].md /\ drafts'[p].open.md = drafts[p].open.md
    BY <1>2, <1>3, <1>6, PutsErr
  <2> QED
    BY <1>1, <1>2, <1>6, <2>1 DEF Saving, d, p
<1> QED
  BY <1>4, <1>5, <1>6

LEMMA WriteErrMoves ==
    ASSUME GateTypes, NEW g \in GateProcs, WriteErr(g)
    PROVE  LET d == gjob[g].draft
               p == DraftPath(d)
           IN  /\ Saving(g, "write err", "write err") /\ End(g) /\ handed' \subseteq handed \cup {p}
               /\ drafts'[p].md = drafts[p].md /\ drafts'[p].open.md = drafts[p].open.md
               /\ \/ UNCHANGED owed
                  \/ owed' = owed \cup {d} /\ Taking(p) = {} /\ drafts[p].md = d.body
               /\ \/ /\ g \in drafts[p].open.err /\ drafts'[p].err = d
                     /\ saves' = [saves EXCEPT ![d.body] = @ + 1] /\ UNCHANGED spoiled
                  \/ /\ g \notin drafts[p].open.err
                     /\ saves' = [saves EXCEPT ![d.body] = @ + 1] /\ UNCHANGED <<drafts, spoiled>>
                  \/ Spoil({p[2]}) /\ UNCHANGED <<drafts, saves>>
<1> DEFINE d == gjob[g].draft
           p == DraftPath(d)
<1>1. gpc[g] = "write err" /\ d \in Drafts /\ End(g) /\ handed' \subseteq handed \cup {p}
      /\ (UNCHANGED owed \/ (owed' = owed \cup {d} /\ Taking(p) = {} /\ drafts[p].md = d.body))
  BY DEF WriteErr, CutShort, GateTypes
<1>2. p \in Paths /\ p[2] = d.body /\ d.body \in BodiesOf
  BY <1>1 DEF DraftPath, Paths, BodiesOf
<1>3. drafts[p] \in Copies /\ drafts[p].open.err \ {g} \in SUBSET GateProcs
  BY <1>2 DEF GateTypes, Copies
<1>4. \/ /\ g \in drafts[p].open.err /\ drafts' = Put(p, "err", d, drafts[p].open.err \ {g})
         /\ saves' = [saves EXCEPT ![d.body] = @ + 1] /\ UNCHANGED spoiled
      \/ /\ g \notin drafts[p].open.err
         /\ saves' = [saves EXCEPT ![d.body] = @ + 1] /\ UNCHANGED <<drafts, spoiled>>
      \/ Spoil({d.body}) /\ UNCHANGED <<drafts, saves>>
  BY DEF WriteErr, CutShort
<1> HIDE DEF d, p
<1>7. drafts = [drafts EXCEPT ![p] = drafts[p]]
  BY <1>2 DEF GateTypes
<1>8. gjob[g].draft = d /\ DraftPath(d) = p
  BY DEF d, p
<1>9. d \in Drafts \cup {NoDraft, CutDraft}
  BY <1>1
<1>5. CASE UNCHANGED drafts
  <2>1. UNCHANGED drafts /\ drafts' = [drafts EXCEPT ![p] = drafts'[p]] /\ drafts'[p] \in Copies
    BY <1>3, <1>5, <1>7
  <2>2. Saving(g, "write err", "write err")
    BY <1>1, <1>2, <1>8, <2>1 DEF Saving
  <2>3. \/ /\ g \in drafts[p].open.err /\ drafts'[p].err = d
           /\ saves' = [saves EXCEPT ![d.body] = @ + 1] /\ UNCHANGED spoiled
        \/ /\ g \notin drafts[p].open.err
           /\ saves' = [saves EXCEPT ![d.body] = @ + 1] /\ UNCHANGED <<drafts, spoiled>>
        \/ Spoil({d.body}) /\ UNCHANGED <<drafts, saves>>
    <3>1. SUFFICES ASSUME drafts' = Put(p, "err", d, drafts[p].open.err \ {g}) PROVE drafts'[p].err = d
      BY <1>4
    <3> QED
      BY <1>2, <1>3, <1>9, <3>1, PutsErr
  <2> QED
    BY <1>1, <1>2, <1>8, <2>1, <2>2, <2>3
<1>6. CASE /\ g \in drafts[p].open.err /\ drafts' = Put(p, "err", d, drafts[p].open.err \ {g})
           /\ saves' = [saves EXCEPT ![d.body] = @ + 1] /\ UNCHANGED spoiled
  <2>1. /\ drafts' = [drafts EXCEPT ![p] = drafts'[p]] /\ drafts'[p] \in Copies
        /\ drafts'[p].err = d
        /\ drafts'[p].md = drafts[p].md /\ drafts'[p].open.md = drafts[p].open.md
    BY <1>1, <1>2, <1>3, <1>6, PutsErr
  <2> QED
    BY <1>1, <1>2, <1>6, <2>1 DEF Saving, d, p
<1> QED
  BY <1>4, <1>5, <1>6

LEMMA SaveMoves ==
    ASSUME GateTypes, NEW g \in GateProcs, OpenMd(g) \/ WriteMd(g) \/ OpenErr(g) \/ WriteErr(g)
    PROVE  LET d == gjob[g].draft
               p == DraftPath(d)
           IN  /\ gpc[g] # "idle" /\ d \in Drafts /\ p \in Paths
               /\ End(g) \/ ((\E l \in {"write md", "save err", "write err"} : To(g, l)) /\ UNCHANGED gjob)
               /\ drafts' = [drafts EXCEPT ![p] = drafts'[p]] /\ drafts'[p] \in Copies
               /\ drafts'[p].md \in {drafts[p].md, d.body, Cut}
               /\ handed' \subseteq handed \cup {p}
               /\ \/ owed' = {e \in owed : DraftPath(e) # p}
                  \/ UNCHANGED owed /\ drafts'[p].md \in {drafts[p].md, d.body}
                  \/ /\ owed' = owed \cup {d} /\ Taking(p) = {} /\ End(g)
                     /\ drafts'[p].md = d.body
<1>1. CASE OpenMd(g)
  BY <1>1, OpenMdMoves DEF Saving
<1>2. CASE WriteMd(g)
  BY <1>2, WriteMdMoves DEF Saving
<1>3. CASE OpenErr(g)
  BY <1>3, OpenErrMoves DEF Saving
<1>4. CASE WriteErr(g)
  BY <1>4, WriteErrMoves DEF Saving
<1> QED
  BY <1>1, <1>2, <1>3, <1>4

-----------------------------------------------------------------------------
(* Gates hold drafts, runs and copies that can exist (gate.go).              *)
THEOREM GatesTyped == Spec => []GateTypes
<1>1. Init => GateTypes
  BY NoJobTyped DEF Init, GateRunInit, GateTypes, Labels, Grip
<1>2. GateTypes /\ [Next]_vars => GateTypes'
  <2> SUFFICES ASSUME GateTypes, [Next]_vars PROVE GateTypes'
    OBVIOUS
  <2>1. CASE \/ StartGate \/ Quarantine \/ GateKilled
             \/ \E g \in GateProcs : TakeErr(g) \/ Outcome(g) \/ Repair(g) \/ Accepted(g)
    <3>1. /\ UNCHANGED <<drafts, handed, owed>>
          /\ \E g \in GateProcs :
               /\ gpc' = [gpc EXCEPT ![g] = gpc'[g]] /\ gpc'[g] \in Labels
               /\ gjob' = [gjob EXCEPT ![g] = gjob'[g]] /\ gjob'[g] \in GateJobs
               /\ gpc'[g] # "idle" => gjob'[g].draft \in Drafts
               /\ gpc'[g] = "take md" => gjob'[g].prev \in Paths
               /\ gpc'[g] \in Grip => gpc[g] \in Grip /\ gjob'[g].prev = gjob[g].prev
      BY <2>1, JobMoves
    <3> QED
      BY <3>1 DEF GateTypes
  <2>2. CASE UNCHANGED gateVars
    BY <2>2 DEF gateVars, GateTypes
  <2>3. ASSUME NEW g \in GateProcs, TakeMd(g) PROVE GateTypes'
    <3>1. /\ gpc[g] = "take md" /\ gjob[g].prev \in Paths /\ UNCHANGED <<drafts, handed>>
          /\ gjob' = [gjob EXCEPT ![g] = gjob'[g]] /\ gjob'[g] \in GateJobs
          /\ gjob'[g].draft = gjob[g].draft /\ gjob'[g].prev = gjob[g].prev
          /\ To(g, "d5") \/ To(g, "take err")
          /\ owed' \subseteq owed
      BY <2>3, TakeMdMoves
    <3> QED
      BY <3>1 DEF To, GateTypes, Labels, Grip
  <2>4. ASSUME NEW g \in GateProcs,
               Drop(g, "drop md", "md", "drop err") \/ Drop(g, "drop err", "err", "d4")
        PROVE  GateTypes'
    <3> DEFINE p == gjob[g].prev
    <3>1. /\ gpc[g] \in Grip /\ p \in Paths /\ UNCHANGED <<gjob, handed, owed>>
          /\ To(g, "drop err") \/ To(g, "d4")
          /\ drafts' = [drafts EXCEPT ![p] = drafts'[p]] /\ drafts'[p] \in Copies
      BY <2>4, DropMoves
    <3>2. gpc' \in [GateProcs -> Labels] /\ gpc'[g] # "take md"
      BY <3>1 DEF To, GateTypes, Labels
    <3>3. \A h \in GateProcs \ {g} : gpc'[h] = gpc[h]
      BY <3>1 DEF To, GateTypes
    <3>4. gpc[g] # "idle"
      BY <3>1 DEF Grip
    <3>5. \A h \in GateProcs : /\ gpc'[h] # "idle" => gjob[h].draft \in Drafts
                               /\ gpc'[h] \in Grip \cup {"take md"} => gjob[h].prev \in Paths
      BY <3>1, <3>3, <3>4 DEF GateTypes
    <3> HIDE DEF p
    <3>6. drafts' \in [Paths -> Copies]
      BY <3>1 DEF GateTypes
    <3> QED
      BY <3>1, <3>2, <3>5, <3>6 DEF GateTypes
  <2>5. ASSUME NEW g \in GateProcs, OpenMd(g) \/ WriteMd(g) \/ OpenErr(g) \/ WriteErr(g) PROVE GateTypes'
    <3> DEFINE p == DraftPath(gjob[g].draft)
    <3>1. /\ gpc[g] # "idle" /\ gjob[g].draft \in Drafts /\ p \in Paths
          /\ End(g) \/ ((\E l \in {"write md", "save err", "write err"} : To(g, l)) /\ UNCHANGED gjob)
          /\ drafts' = [drafts EXCEPT ![p] = drafts'[p]] /\ drafts'[p] \in Copies
          /\ handed' \subseteq handed \cup {p} /\ owed' \subseteq owed \cup {gjob[g].draft}
      BY <2>5, SaveMoves
    <3> HIDE DEF p
    <3>2. gpc' \in [GateProcs -> Labels] /\ gpc'[g] \in {"idle", "write md", "save err", "write err"}
      BY <3>1 DEF End, To, GateTypes, Labels
    <3>3. gjob' \in [GateProcs -> GateJobs] /\ (gpc'[g] # "idle" => gjob'[g] = gjob[g])
      BY <3>1, NoJobTyped DEF End, To, GateTypes
    <3>4. \A h \in GateProcs \ {g} : gpc'[h] = gpc[h] /\ gjob'[h] = gjob[h]
      BY <3>1 DEF End, To, GateTypes
    <3>5. \A h \in GateProcs : /\ gpc'[h] # "idle" => gjob'[h].draft \in Drafts
                               /\ gpc'[h] \in Grip \cup {"take md"} => gjob'[h].prev \in Paths
      BY <3>1, <3>2, <3>3, <3>4 DEF GateTypes, Grip
    <3>6. drafts' \in [Paths -> Copies]
      BY <3>1 DEF GateTypes
    <3> QED
      BY <3>1, <3>2, <3>3, <3>5, <3>6 DEF GateTypes
  <2> QED
    BY <2>1, <2>2, <2>3, <2>4, <2>5, GateSteps
<1> QED
  BY <1>1, <1>2, PTL DEF Spec

(* Copies hold the text they are named after, and one that is owed stays.      *)
LEMMA TextsKept == Spec => []KeptInv
<1>0. \A d \in Drafts : DraftPath(d) \in Paths /\ DraftPath(d)[2] = d.body
  BY DEF DraftPath, Paths
<1>1. Init => KeptInv
  BY DEF Init, GateRunInit, KeptInv, FailingTextIsKept, NoFile
<1>2. GateTypes /\ KeptInv /\ [Next]_vars => KeptInv'
  <2> SUFFICES ASSUME GateTypes, KeptInv, [Next]_vars PROVE KeptInv'
    OBVIOUS
  <2>0. owed \subseteq Drafts
    BY DEF GateTypes
  <2>1. CASE \/ StartGate \/ Quarantine \/ GateKilled
             \/ \E g \in GateProcs : TakeErr(g) \/ Outcome(g) \/ Repair(g) \/ Accepted(g)
    <3>1. /\ UNCHANGED <<drafts, owed>>
          /\ \E g \in GateProcs :
               /\ gpc' = [gpc EXCEPT ![g] = gpc'[g]] /\ gjob' = [gjob EXCEPT ![g] = gjob'[g]]
               /\ gpc'[g] \in Grip => gpc[g] \in Grip /\ gjob'[g].prev = gjob[g].prev
      BY <2>1, JobMoves
    <3>2. \A h \in GateProcs : gpc'[h] \in Grip => gpc[h] \in Grip /\ gjob'[h].prev = gjob[h].prev
      BY <3>1 DEF GateTypes
    <3> QED
      BY <3>1, <3>2 DEF KeptInv, FailingTextIsKept
  <2>2. CASE UNCHANGED gateVars
    BY <2>2 DEF gateVars, KeptInv, FailingTextIsKept
  <2>3. ASSUME NEW g \in GateProcs, TakeMd(g) PROVE KeptInv'
    <3> DEFINE p == gjob[g].prev
    <3>1. /\ UNCHANGED drafts
          /\ gjob' = [gjob EXCEPT ![g] = gjob'[g]] /\ gjob'[g].prev = p
          /\ \/ gpc' = [gpc EXCEPT ![g] = "d5"] /\ UNCHANGED owed
             \/ gpc' = [gpc EXCEPT ![g] = "take err"] /\ owed' = {d \in owed : DraftPath(d) # p}
      BY <2>3, TakeMdMoves DEF To
    <3>2. \A h \in GateProcs : gpc'[h] \in Grip =>
            \/ gpc[h] \in Grip /\ gjob'[h].prev = gjob[h].prev
            \/ gjob'[h].prev = p /\ owed' = {d \in owed : DraftPath(d) # p}
      BY <3>1 DEF GateTypes, Grip
    <3>3. owed' \subseteq owed
      BY <3>1
    <3> HIDE DEF p
    <3> QED
      BY <3>1, <3>2, <3>3 DEF KeptInv, FailingTextIsKept
  <2>4. ASSUME NEW g \in GateProcs,
               Drop(g, "drop md", "md", "drop err") \/ Drop(g, "drop err", "err", "d4")
        PROVE  KeptInv'
    <3> DEFINE p == gjob[g].prev
    <3>1. /\ gpc[g] \in Grip /\ p \in Paths /\ UNCHANGED <<gjob, owed>>
          /\ gpc' = [gpc EXCEPT ![g] = gpc'[g]]
          /\ drafts' = [drafts EXCEPT ![p] = drafts'[p]] /\ drafts'[p].md \in {None, drafts[p].md}
      BY <2>4, DropMoves DEF To, GateTypes
    <3> HIDE DEF p
    <3>2. \A h \in GateProcs : gpc'[h] \in Grip => gpc[h] \in Grip
      BY <3>1 DEF GateTypes
    <3>3. \A d \in owed : DraftPath(d) # p
      BY <3>1 DEF KeptInv, p
    <3>4. \A q \in Paths : drafts'[q].md \in {None, drafts[q].md} /\ (q # p => drafts'[q] = drafts[q])
      BY <3>1 DEF GateTypes
    <3>5. FailingTextIsKept'
      BY <1>0, <2>0, <3>1, <3>3, <3>4 DEF KeptInv, FailingTextIsKept
    <3> QED
      BY <3>1, <3>2, <3>4, <3>5 DEF KeptInv
  <2>5. ASSUME NEW g \in GateProcs, OpenMd(g) \/ WriteMd(g) \/ OpenErr(g) \/ WriteErr(g) PROVE KeptInv'
    <3> DEFINE d == gjob[g].draft
               p == DraftPath(d)
    <3>1. /\ d \in Drafts /\ p \in Paths
          /\ End(g) \/ ((\E l \in {"write md", "save err", "write err"} : To(g, l)) /\ UNCHANGED gjob)
          /\ drafts' = [drafts EXCEPT ![p] = drafts'[p]] /\ drafts'[p].md \in {drafts[p].md, d.body, Cut}
          /\ \/ owed' = {e \in owed : DraftPath(e) # p}
             \/ UNCHANGED owed /\ drafts'[p].md \in {drafts[p].md, d.body}
             \/ owed' = owed \cup {d} /\ Taking(p) = {} /\ End(g) /\ drafts'[p].md = d.body
      BY <2>5, SaveMoves
    <3>2. p[2] = d.body
      BY <1>0, <3>1
    <3>3. \A h \in GateProcs : gpc'[h] \in Grip => gpc[h] \in Grip /\ gjob'[h] = gjob[h]
      BY <3>1 DEF End, To, GateTypes, Grip
    <3>4. Taking(p) = {} => \A h \in GateProcs : gpc[h] \in Grip => gjob[h].prev # p
      BY DEF Taking, Working, Grip
    <3>5. p = DraftPath(d)
      OBVIOUS
    <3> HIDE DEF d, p
    <3>6. \A q \in Paths : /\ drafts'[q].md \in {None, Cut, q[2]}
                           /\ q # p => drafts'[q] = drafts[q]
      BY <3>1, <3>2 DEF KeptInv, GateTypes
    <3>7. \A h \in GateProcs : \A e \in owed : gpc'[h] \in Grip => gjob'[h].prev # DraftPath(e)
      BY <3>3 DEF KeptInv
    <3>8. CASE owed' = {e \in owed : DraftPath(e) # p}
      <4>1. FailingTextIsKept'
        BY <1>0, <2>0, <3>6, <3>8 DEF KeptInv, FailingTextIsKept
      <4> QED
        BY <3>6, <3>7, <3>8, <4>1 DEF KeptInv
    <3>9. CASE UNCHANGED owed /\ drafts'[p].md \in {drafts[p].md, d.body}
      <4>1. \A e \in owed : drafts'[DraftPath(e)].md = e.body
        <5>1. \A e \in owed : DraftPath(e) \in Paths /\ drafts[DraftPath(e)].md = e.body
          BY <1>0, <2>0 DEF KeptInv, FailingTextIsKept
        <5>2. \A e \in owed : DraftPath(e) = p => e.body = d.body
          BY <1>0, <2>0, <3>2
        <5> QED
          BY <3>6, <3>9, <5>1, <5>2
      <4>2. FailingTextIsKept'
        BY <3>9, <4>1 DEF FailingTextIsKept
      <4> QED
        BY <3>6, <3>7, <3>9, <4>2 DEF KeptInv
    <3>10. CASE owed' = owed \cup {d} /\ Taking(p) = {} /\ drafts'[p].md = d.body
      <4>1. \A e \in owed : drafts'[DraftPath(e)].md = e.body
        <5>1. \A e \in owed : DraftPath(e) \in Paths /\ drafts[DraftPath(e)].md = e.body
          BY <1>0, <2>0 DEF KeptInv, FailingTextIsKept
        <5>2. \A e \in owed : DraftPath(e) = p => e.body = d.body
          BY <1>0, <2>0, <3>2
        <5> QED
          BY <3>6, <3>10, <5>1, <5>2
      <4>2. FailingTextIsKept'
        BY <3>5, <3>10, <4>1 DEF FailingTextIsKept
      <4>3. \A h \in GateProcs : gpc'[h] \in Grip => gjob'[h].prev # DraftPath(d)
        BY <3>3, <3>4, <3>5, <3>10
      <4> QED
        BY <3>6, <3>7, <3>10, <4>2, <4>3 DEF KeptInv
    <3> QED
      BY <3>1, <3>8, <3>9, <3>10
  <2> QED
    BY <2>1, <2>2, <2>3, <2>4, <2>5, GateSteps
<1> QED
  BY <1>1, <1>2, GatesTyped, PTL DEF Spec

(* Whatever gates overlap, fail or are killed, and whatever captures and       *)
(* people do to _inbox/, the text of a failing draft stays under its name in    *)
(* .forge/drafts/ until a retry that was given it takes it, or the same text    *)
(* fails again and its copy is opened for writing anew (d4_drafts.go:24, 37).   *)
THEOREM FailingTextAlwaysKept == Spec => []FailingTextIsKept
<1>1. KeptInv => FailingTextIsKept
  BY DEF KeptInv
<1> QED
  BY <1>1, TextsKept, PTL

-----------------------------------------------------------------------------
(* Outcomes *)

(* Where a gate may stand with its draft.                                    *)
Stage(l, d) ==
    /\ l \in {"quarantine", "save md", "write md", "save err", "write err"} => ~d.passes
    /\ l \in {"take md", "take err", "drop md", "drop err", "d4", "d5"} => d.passes
    /\ l # "quarantine" /\ d.slug = NoSlug => d.passes

(* A gate that still owes its run an outcome.                                *)
Pending(l, d) == l \notin {"idle", "save md", "write md", "save err", "write err"} /\ (d.passes \/ d.slug # NoSlug)

OutcomesTyped ==
    /\ d1 \in Seq([run : RunIds, outcome : {"published", "held"}])
    /\ last \in [RunIds -> {None, "published", "held"}]
    /\ \A g \in GateProcs : gpc[g] # "idle" => Stage(gpc[g], gjob[g].draft)

(* Until a run is spoiled one gate works for it, what it owes is its verdict,  *)
(* and once nothing is owed the verdict is what export joins.                *)
FinalOf(r) ==
    /\ \A g, h \in Busy : gjob[g].run = r /\ gjob[h].run = r => g = h
    /\ \A g \in Busy : gjob[g].run = r /\ Pending(gpc[g], gjob[g].draft) => last[r] = Decision(gjob[g].draft)
    /\ (\A g \in Busy : gjob[g].run = r => ~Pending(gpc[g], gjob[g].draft)) => Joined(r) = last[r]

FinalInv == "d1" \in Capture => \A r \in RunIds \ spoiled : FinalOf(r)

(* A set of positions has a last one.                                        *)
LEMMA LastPosition ==
    ASSUME NEW n \in Nat, NEW S \in SUBSET (1..n), S # {}
    PROVE  Max(S) \in S
<1> DEFINE T == {n - i : i \in S}
           R == OpToRel(<, Nat)
<1>1. T \subseteq Nat /\ T # {}
  <2>1. PICK i \in S : TRUE
    OBVIOUS
  <2>2. n - i \in T
    BY <2>1
  <2> QED
    BY <2>2
<1>2. IsWellFoundedOn(R, Nat)
  BY NatLessThanWellFounded
<1>3. \A x, y \in Nat : <<x, y>> \in R <=> x < y
  BY DEF OpToRel
<1> HIDE DEF R, T
<1>4. PICK t \in T : \A y \in T : ~ (<<y, t>> \in R)
  BY <1>1, <1>2, WFMin
<1>5. PICK m \in S : t = n - m
  BY <1>4 DEF T
<1>6. ASSUME NEW k \in S PROVE m >= k
  <2>1. n - k \in T
    BY DEF T
  <2>2. ~ (n - k < t)
    BY <1>1, <1>3, <1>4, <2>1
  <2> QED
    BY <1>5, <2>2
<1>7. \E x \in S : \A y \in S : x >= y
  BY <1>6
<1> QED
  BY <1>7 DEF Max

(* An outcome appended for a run is the one joined to it; the other runs keep  *)
(* theirs.                                                                   *)
LEMMA JoinedAppends ==
    ASSUME NEW D, d1 \in Seq(D), NEW o \in D, d1' = Append(d1, o), NEW r
    PROVE  Joined(r)' = IF o.run = r THEN o.outcome ELSE Joined(r)
<1> DEFINE of == {i \in DOMAIN d1 : d1[i].run = r}
           now == {i \in DOMAIN d1' : d1'[i].run = r}
           n == Len(d1) + 1
<1>1. /\ DOMAIN d1 = 1..Len(d1) /\ DOMAIN d1' = 1..n /\ Len(d1) \in Nat
      /\ d1'[n] = o /\ \A i \in DOMAIN d1 : d1'[i] = d1[i]
  BY AppendProperties, LenProperties
<1>2. CASE o.run = r
  <2>1. n \in now /\ \A i \in now : n >= i
    BY <1>1, <1>2
  <2>2. \A m \in now : (\A i \in now : m >= i) => m = n
    BY <1>1, <2>1
  <2>3. Max(now) = n
    BY <2>1, <2>2 DEF Max
  <2> HIDE DEF n
  <2> QED
    BY <1>1, <1>2, <2>1, <2>3 DEF Joined
<1>3. CASE o.run # r
  <2>1. now = of
    BY <1>1, <1>3
  <2>2. CASE of = {}
    BY <1>3, <2>1, <2>2 DEF Joined
  <2>3. CASE of # {}
    <3>1. PICK i \in of : TRUE
      BY <2>3
    <3>2. of \subseteq 1..Len(d1)
      BY <1>1
    <3>3. Max(of) \in of
      BY <1>1, <2>3, <3>2, LastPosition
    <3>4. d1'[Max(of)] = d1[Max(of)]
      BY <1>1, <3>3
    <3> QED
      BY <1>3, <2>1, <2>3, <3>4 DEF Joined
  <2> QED
    BY <2>2, <2>3
<1> QED
  BY <1>2, <1>3

(* Every step of a gate but the first and the outcome: it goes on with its draft *)
(* or ends, and it ends before the outcome only where it spoils its run.       *)
Onward(g) ==
    /\ gpc[g] # "idle"
    /\ gpc' = [gpc EXCEPT ![g] = gpc'[g]]
    /\ gjob' = [gjob EXCEPT ![g] = gjob'[g]]
    /\ \/ gpc'[g] = "idle" /\ (Pending(gpc[g], gjob[g].draft) => gjob[g].run \in spoiled')
       \/ /\ gpc'[g] # "idle" /\ gjob'[g].draft = gjob[g].draft /\ gjob'[g].run = gjob[g].run
          /\ Stage(gpc'[g], gjob[g].draft)
          /\ Pending(gpc'[g], gjob[g].draft) = Pending(gpc[g], gjob[g].draft)
    /\ UNCHANGED <<d1, last>>
    /\ spoiled \subseteq spoiled'

LEMMA GoesOn ==
    ASSUME GateTypes, OutcomesTyped, NEW g \in GateProcs, NEW l \in Labels,
           gpc[g] # "idle", To(g, l), l # "idle",
           gjob' = [gjob EXCEPT ![g] = gjob'[g]],
           gjob'[g].draft = gjob[g].draft, gjob'[g].run = gjob[g].run,
           Stage(l, gjob[g].draft),
           Pending(l, gjob[g].draft) = Pending(gpc[g], gjob[g].draft),
           UNCHANGED <<d1, last>>, spoiled \subseteq spoiled'
    PROVE  Onward(g)
  BY DEF To, GateTypes, Onward

LEMMA Stops ==
    ASSUME GateTypes, NEW g \in GateProcs, gpc[g] # "idle", End(g),
           Pending(gpc[g], gjob[g].draft) => gjob[g].run \in spoiled',
           UNCHANGED <<d1, last>>, spoiled \subseteq spoiled'
    PROVE  Onward(g)
  BY DEF End, GateTypes, Onward

LEMMA OnwardSteps ==
    ASSUME GateTypes, OutcomesTyped,
           \/ Quarantine \/ GateKilled
           \/ \E g \in GateProcs : \/ TakeMd(g) \/ TakeErr(g)
                                   \/ Drop(g, "drop md", "md", "drop err") \/ Drop(g, "drop err", "err", "d4")
                                   \/ OpenMd(g) \/ WriteMd(g) \/ OpenErr(g) \/ WriteErr(g)
                                   \/ Repair(g) \/ Accepted(g)
    PROVE  \E g \in GateProcs : Onward(g)
<1>1. CASE Quarantine
  <2>1. PICK g \in Working({"quarantine"}) :
            \/ gjob[g].draft.slug = NoSlug /\ End(g) /\ UNCHANGED spoiled
            \/ gjob[g].draft.slug # NoSlug /\ To(g, "outcome") /\ UNCHANGED <<gjob, spoiled>>
            \/ gjob[g].draft.slug # NoSlug /\ End(g) /\ Spoil({gjob[g].run})
    BY <1>1 DEF Quarantine
  <2>2. g \in GateProcs /\ gpc[g] = "quarantine" /\ UNCHANGED <<d1, last>>
    BY <1>1, <2>1 DEF Quarantine, Working, gateData
  <2>3. Stage("quarantine", gjob[g].draft)
    BY <2>2 DEF OutcomesTyped
  <2>4. CASE gjob[g].draft.slug = NoSlug /\ End(g) /\ UNCHANGED spoiled
    <3>1. ~Pending(gpc[g], gjob[g].draft)
      BY <2>2, <2>3, <2>4 DEF Pending, Stage
    <3> QED
      BY <2>2, <2>4, <3>1, Stops
  <2>5. CASE gjob[g].draft.slug # NoSlug /\ To(g, "outcome") /\ UNCHANGED <<gjob, spoiled>>
    <3>1. Stage("outcome", gjob[g].draft) /\ Pending("outcome", gjob[g].draft) = Pending(gpc[g], gjob[g].draft)
      BY <2>2, <2>5 DEF Stage, Pending
    <3>2. gjob' = [gjob EXCEPT ![g] = gjob'[g]] /\ "outcome" \in Labels
      BY <2>5 DEF GateTypes, Labels
    <3> QED
      BY <2>2, <2>5, <3>1, <3>2, GoesOn
  <2>6. CASE End(g) /\ Spoil({gjob[g].run})
    BY <2>2, <2>6, Stops DEF Spoil
  <2> QED
    BY <2>1, <2>4, <2>5, <2>6
<1>2. CASE GateKilled
  <2>1. PICK g \in Busy : End(g) /\ gjob[g].run \in spoiled' /\ spoiled \subseteq spoiled'
    BY <1>2 DEF GateKilled, Spoil
  <2>2. UNCHANGED <<d1, last>>
    BY <1>2 DEF GateKilled, gateData
  <2> QED
    BY <2>1, <2>2, Stops DEF Busy
<1>3. ASSUME NEW g \in GateProcs, TakeMd(g) \/ TakeErr(g) PROVE Onward(g)
  <2>1. /\ gpc[g] \in {"take md", "take err"} /\ UNCHANGED <<d1, last>> /\ spoiled \subseteq spoiled'
        /\ \E l \in {"take err", "drop md", "d5"} : To(g, l)
    BY <1>3 DEF TakeMd, TakeErr, gateData, ghosts, Spoil
  <2>2. /\ gjob' = [gjob EXCEPT ![g] = gjob'[g]]
        /\ gjob'[g].draft = gjob[g].draft /\ gjob'[g].run = gjob[g].run
    <3>1. \E e : gjob' = [gjob EXCEPT ![g] = [gjob[g] EXCEPT !.failing = e]]
                 \/ gjob' = [gjob EXCEPT ![g] = [gjob[g] EXCEPT !.error = e]]
                 \/ gjob' = gjob
      BY <1>3 DEF TakeMd, TakeErr, GateTypes
    <3> QED
      BY <3>1 DEF GateTypes, GateJobs
  <2>3. gjob[g].draft.passes
    BY <2>1 DEF OutcomesTyped, Stage
  <2> QED
    BY <2>1, <2>2, <2>3, GoesOn DEF Stage, Pending, Labels
<1>4. ASSUME NEW g \in GateProcs,
             \/ Drop(g, "drop md", "md", "drop err") \/ Drop(g, "drop err", "err", "d4")
             \/ Repair(g) \/ Accepted(g)
      PROVE  Onward(g)
  <2>1. /\ gpc[g] \in {"drop md", "drop err", "d4", "d5"} /\ UNCHANGED <<d1, last, gjob>>
        /\ spoiled \subseteq spoiled'
        /\ \E l \in {"drop err", "d4", "d5", "outcome"} : To(g, l)
    BY <1>4 DEF Drop, Repair, Accepted, ghosts, Spoil
  <2>2. gjob[g].draft.passes /\ gjob' = [gjob EXCEPT ![g] = gjob'[g]]
    BY <2>1 DEF OutcomesTyped, Stage, GateTypes
  <2> QED
    BY <2>1, <2>2, GoesOn DEF Stage, Pending, Labels
<1>5. ASSUME NEW g \in GateProcs, OpenMd(g) \/ WriteMd(g) \/ OpenErr(g) \/ WriteErr(g) PROVE Onward(g)
  <2>1. /\ gpc[g] \in {"save md", "write md", "save err", "write err"} /\ UNCHANGED <<d1, last>>
        /\ spoiled \subseteq spoiled'
    BY <1>5 DEF OpenMd, WriteMd, OpenErr, WriteErr, CutShort, Spoil
  <2>2. Stage(gpc[g], gjob[g].draft) /\ ~Pending(gpc[g], gjob[g].draft)
    BY <2>1 DEF OutcomesTyped, Pending
  <2>3. CASE End(g)
    BY <2>1, <2>2, <2>3, Stops
  <2>4. ASSUME NEW l \in {"write md", "save err", "write err"}, To(g, l), UNCHANGED gjob PROVE Onward(g)
    <3>1. /\ Stage(l, gjob[g].draft)
          /\ Pending(l, gjob[g].draft) = Pending(gpc[g], gjob[g].draft)
      BY <2>1, <2>2 DEF Stage, Pending
    <3>2. gjob' = [gjob EXCEPT ![g] = gjob'[g]] /\ l \in Labels /\ l # "idle"
      BY <2>4 DEF GateTypes, Labels
    <3> QED
      BY <2>1, <2>4, <3>1, <3>2, GoesOn
  <2> QED
    BY <1>5, <2>3, <2>4, SaveMoves
<1> QED
  BY <1>1, <1>2, <1>3, <1>4, <1>5

(* A gate begins.                                                            *)
Starts(g, d, prev, q) ==
    /\ gpc[g] = "idle"
    /\ gjob' = [gjob EXCEPT ![g] = [NoJob EXCEPT !.draft = d, !.prev = prev, !.run = q]]
    /\ gpc' = [gpc EXCEPT ![g] = IF ~d.passes THEN "quarantine" ELSE IF prev # NoPath THEN "take md" ELSE "d5"]
    /\ last' = IF q = None \/ (~d.passes /\ d.slug = NoSlug) THEN last ELSE [last EXCEPT ![q] = Decision(d)]
    /\ Spoil(IF \E h \in Busy : gjob[h].run = q THEN {q} ELSE {})

LEMMA StartSteps ==
    ASSUME StartGate
    PROVE  /\ \E g \in GateProcs, d \in Drafts, prev \in handed \cup {NoPath}, q \in RunIds \cup {None} :
                Starts(g, d, prev, q)
           /\ UNCHANGED d1
<1>1. PICK g \in GateProcs, d \in Drafts, prev \in handed \cup {NoPath}, q \in RunIds \cup {None} :
        Start(g, d, prev, q)
  BY DEF StartGate
<1>2. Starts(g, d, prev, q) /\ UNCHANGED d1
  BY <1>1 DEF Start, Starts, To, gateData
<1> QED
  BY <1>1, <1>2

(* What a gate records is the outcome of one of its runs.                     *)
LEMMA OutcomesAlwaysTyped == Spec => []OutcomesTyped
<1>1. Init => OutcomesTyped
  BY DEF Init, GateRunInit, OutcomesTyped
<1>2. GateTypes /\ OutcomesTyped /\ [Next]_vars => OutcomesTyped'
  <2> SUFFICES ASSUME GateTypes, OutcomesTyped, [Next]_vars PROVE OutcomesTyped'
    OBVIOUS
  <2>1. CASE StartGate
    <3>1. PICK g \in GateProcs, d \in Drafts, prev \in handed \cup {NoPath}, q \in RunIds \cup {None} :
            Starts(g, d, prev, q)
      BY <2>1, StartSteps
    <3>2. UNCHANGED d1
      BY <2>1, StartSteps
    <3>3. last' \in [RunIds -> {None, "published", "held"}]
      BY <3>1, RunAssumption DEF Starts, OutcomesTyped, Decision
    <3>4. gjob'[g].draft = d /\ gpc'[g] \in {"quarantine", "take md", "d5"} /\ Stage(gpc'[g], d)
      BY <3>1 DEF Starts, GateTypes, NoJob, Stage
    <3>5. \A h \in GateProcs \ {g} : gjob'[h] = gjob[h] /\ gpc'[h] = gpc[h]
      BY <3>1 DEF Starts, GateTypes
    <3> QED
      BY <3>2, <3>3, <3>4, <3>5 DEF OutcomesTyped
  <2>2. ASSUME NEW g \in GateProcs, Outcome(g) PROVE OutcomesTyped'
    <3>1. /\ gpc[g] = "outcome" /\ UNCHANGED last
          /\ \/ UNCHANGED d1
             \/ gjob[g].run # None /\ d1' = Append(d1, [run |-> gjob[g].run, outcome |-> Decision(gjob[g].draft)])
          /\ IF gjob[g].draft.passes THEN End(g) ELSE To(g, "save md") /\ UNCHANGED gjob
      BY <2>2 DEF Outcome
    <3>2. gjob[g] \in GateJobs /\ Stage("outcome", gjob[g].draft)
      BY <3>1 DEF GateTypes, OutcomesTyped
    <3>3. d1' \in Seq([run : RunIds, outcome : {"published", "held"}])
      <4>1. gjob[g].run # None => [run |-> gjob[g].run, outcome |-> Decision(gjob[g].draft)]
                                    \in [run : RunIds, outcome : {"published", "held"}]
        BY <3>2 DEF GateJobs, Decision
      <4> DEFINE o == [run |-> gjob[g].run, outcome |-> Decision(gjob[g].draft)]
                 D == [run : RunIds, outcome : {"published", "held"}]
      <4>2. d1 \in Seq(D) /\ (gjob[g].run # None => o \in D)
        BY <4>1 DEF OutcomesTyped
      <4>3. \/ UNCHANGED d1
            \/ gjob[g].run # None /\ d1' = Append(d1, o)
        BY <3>1
      <4> HIDE DEF o, D
      <4>4. d1' \in Seq(D)
        BY <4>2, <4>3, AppendProperties
      <4> QED
        BY <4>4 DEF D
    <3>4. \A h \in GateProcs \ {g} : gjob'[h] = gjob[h] /\ gpc'[h] = gpc[h]
      BY <3>1 DEF End, To, GateTypes
    <3>5. gpc'[g] # "idle" => Stage(gpc'[g], gjob'[g].draft)
      BY <3>1, <3>2 DEF End, To, GateTypes, Stage
    <3> QED
      BY <3>1, <3>3, <3>4, <3>5 DEF OutcomesTyped
  <2>3. ASSUME NEW g \in GateProcs, Onward(g) PROVE OutcomesTyped'
    <3>1. \A h \in GateProcs \ {g} : gjob'[h] = gjob[h] /\ gpc'[h] = gpc[h]
      BY <2>3 DEF Onward, GateTypes
    <3>2. gpc'[g] # "idle" => Stage(gpc'[g], gjob'[g].draft)
      BY <2>3 DEF Onward
    <3> QED
      BY <2>3, <3>1, <3>2 DEF Onward, OutcomesTyped
  <2>4. CASE UNCHANGED gateVars
    BY <2>4 DEF gateVars, OutcomesTyped
  <2> QED
    BY <2>1, <2>2, <2>3, <2>4, GateSteps, OnwardSteps
<1> QED
  BY <1>1, <1>2, GatesTyped, PTL DEF Spec

(* What export joins to a recall is the verdict on the last draft of it, through *)
(* quarantine, repairs and retries of any number of gates, captures and people,  *)
(* if no fault and no second gate of the same run came between                *)
(* (gate.go:156-170, export_records.go:57).                                  *)
THEOREM OutcomeAlwaysFinal == Spec => []OutcomeIsFinal
<1>1. Init => FinalInv
  <2> SUFFICES ASSUME Init, NEW r \in RunIds PROVE FinalOf(r)
    BY DEF FinalInv
  <2>1. Busy = {} /\ d1 = << >> /\ last[r] = None
    BY DEF Init, GateRunInit, Busy
  <2>2. Joined(r) = None
    BY <2>1 DEF Joined
  <2> QED
    BY <2>1, <2>2 DEF FinalOf
<1>2. GateTypes /\ OutcomesTyped /\ FinalInv /\ [Next]_vars => FinalInv'
  <2> SUFFICES ASSUME GateTypes, OutcomesTyped, FinalInv, [Next]_vars, "d1" \in Capture,
                      NEW r \in RunIds, r \notin spoiled'
               PROVE  FinalOf(r)'
    BY DEF FinalInv
  <2>1. CASE StartGate
    <3>1. PICK g \in GateProcs, d \in Drafts, prev \in handed \cup {NoPath}, q \in RunIds \cup {None} :
            Starts(g, d, prev, q)
      BY <2>1, StartSteps
    <3>2. r \notin spoiled /\ (q = r => \A h \in Busy : gjob[h].run # r)
      BY <3>1 DEF Starts, Spoil
    <3>3. FinalOf(r)
      BY <3>2 DEF FinalInv
    <3>4. /\ gjob'[g].draft = d /\ gjob'[g].run = q /\ gpc'[g] \in {"quarantine", "take md", "d5"}
          /\ \A h \in GateProcs \ {g} : gjob'[h] = gjob[h] /\ gpc'[h] = gpc[h]
      BY <3>1 DEF Starts, GateTypes, NoJob
    <3>5. Busy' = Busy \cup {g}
      BY <3>4 DEF Busy
    <3>6. Joined(r)' = Joined(r)
      BY <2>1 DEF StartGate, Start, gateData, Joined
    <3>7. CASE q = r
      <4>1. \A h \in Busy' : gjob'[h].run = r => h = g
        BY <3>2, <3>4, <3>5, <3>7 DEF Busy
      <4>2. Joined(r) = last[r]
        BY <3>2, <3>3, <3>7 DEF FinalOf
      <4>3. CASE ~d.passes /\ d.slug = NoSlug
        <5>1. ~Pending(gpc'[g], gjob'[g].draft) /\ last' = last
          BY <3>1, <3>4, <4>3 DEF Starts, Pending
        <5> QED
          BY <3>6, <4>1, <4>2, <5>1 DEF FinalOf
      <4>4. CASE ~ (~d.passes /\ d.slug = NoSlug)
        <5>1. Pending(gpc'[g], gjob'[g].draft) /\ last'[r] = Decision(gjob'[g].draft)
          BY <3>1, <3>4, <3>7, <4>4, RunAssumption DEF Starts, Pending, OutcomesTyped
        <5> QED
          BY <3>4, <3>5, <3>7, <4>1, <5>1 DEF FinalOf
      <4> QED
        BY <4>3, <4>4
    <3>8. CASE q # r
      <4>1. last'[r] = last[r]
        BY <3>1, <3>8 DEF Starts, OutcomesTyped
      <4>2. \A h \in Busy' : gjob'[h].run = r => h \in Busy /\ gjob'[h] = gjob[h] /\ gpc'[h] = gpc[h]
        BY <3>4, <3>5, <3>8 DEF Busy
      <4>3. \A h \in Busy : h \in Busy' /\ gjob'[h] = gjob[h] /\ gpc'[h] = gpc[h]
        BY <3>1, <3>4, <3>5 DEF Starts, Busy
      <4> QED
        BY <3>3, <3>6, <4>1, <4>2, <4>3 DEF FinalOf
    <3> QED
      BY <3>7, <3>8
  <2>2. ASSUME NEW g \in GateProcs, Outcome(g) PROVE FinalOf(r)'
    <3> DEFINE q == gjob[g].run
               d == gjob[g].draft
    <3>1. /\ gpc[g] = "outcome" /\ UNCHANGED last
          /\ \/ q # None /\ d1' = Append(d1, [run |-> q, outcome |-> Decision(d)])
             \/ q # None /\ Spoil({q}) /\ UNCHANGED d1
             \/ q = None /\ UNCHANGED d1
          /\ IF d.passes THEN End(g) ELSE To(g, "save md") /\ UNCHANGED gjob
          /\ spoiled \subseteq spoiled'
      BY <2>2 DEF Outcome, Spoil
    <3>2. g \in Busy /\ Pending(gpc[g], d)
      BY <3>1 DEF Busy, Pending, OutcomesTyped, Stage
    <3>3. FinalOf(r)
      BY <3>1 DEF FinalInv
    <3>4. \A h \in GateProcs \ {g} : gjob'[h] = gjob[h] /\ gpc'[h] = gpc[h]
      BY <3>1 DEF End, To, GateTypes
    <3>5. gpc'[g] \in {"idle", "save md"} /\ (gpc'[g] # "idle" => gjob'[g] = gjob[g])
      BY <3>1 DEF End, To, GateTypes
    <3>6. CASE q = r
      <4>1. d1' = Append(d1, [run |-> q, outcome |-> Decision(d)])
        BY <3>1, <3>6, RunAssumption DEF Spoil
      <4>2. Joined(r)' = Decision(d)
        <5>1. [run |-> q, outcome |-> Decision(d)] \in [run : RunIds, outcome : {"published", "held"}]
          BY <3>6 DEF Decision
        <5> QED
          BY <3>6, <4>1, <5>1, JoinedAppends DEF OutcomesTyped
      <4>3. last'[r] = Decision(d)
        BY <3>1, <3>2, <3>3, <3>6 DEF FinalOf
      <4>4. \A h \in Busy' : gjob'[h].run = r => h = g /\ ~Pending(gpc'[h], gjob'[h].draft)
        BY <3>2, <3>3, <3>4, <3>5, <3>6 DEF Busy, FinalOf, Pending
      <4> QED
        BY <4>2, <4>3, <4>4 DEF FinalOf
    <3>7. CASE q # r
      <4>1. Joined(r)' = Joined(r)
        <5>1. CASE UNCHANGED d1
          BY <5>1 DEF Joined
        <5>2. CASE q # None /\ d1' = Append(d1, [run |-> q, outcome |-> Decision(d)])
          <6>1. [run |-> q, outcome |-> Decision(d)] \in [run : RunIds, outcome : {"published", "held"}]
            BY <5>2 DEF Decision, GateTypes, GateJobs
          <6> DEFINE o == [run |-> q, outcome |-> Decision(d)]
                     D == [run : RunIds, outcome : {"published", "held"}]
          <6>2. d1 \in Seq(D) /\ o \in D /\ d1' = Append(d1, o) /\ o.run # r
            BY <3>7, <5>2, <6>1 DEF OutcomesTyped
          <6> HIDE DEF o, D
          <6> QED
            BY <6>2, JoinedAppends
        <5> QED
          BY <3>1, <5>1, <5>2
      <4>2. \A h \in Busy' : gjob'[h].run = r => h \in Busy /\ gjob'[h] = gjob[h] /\ gpc'[h] = gpc[h]
        BY <3>4, <3>5, <3>7 DEF Busy
      <4>3. \A h \in Busy : gjob[h].run = r => h \in Busy' /\ gjob'[h] = gjob[h] /\ gpc'[h] = gpc[h]
        BY <3>4, <3>7 DEF Busy
      <4> QED
        BY <3>1, <3>3, <4>1, <4>2, <4>3 DEF FinalOf
    <3> QED
      BY <3>6, <3>7
  <2>3. ASSUME NEW g \in GateProcs, Onward(g) PROVE FinalOf(r)'
    <3>1. /\ \A h \in GateProcs \ {g} : gjob'[h] = gjob[h] /\ gpc'[h] = gpc[h]
          /\ g \in Busy /\ UNCHANGED <<d1, last>> /\ r \notin spoiled
      BY <2>3 DEF Onward, GateTypes, Busy
    <3>2. FinalOf(r) /\ Joined(r)' = Joined(r)
      BY <3>1 DEF FinalInv, Joined
    <3>3. CASE gpc'[g] = "idle" /\ (Pending(gpc[g], gjob[g].draft) => gjob[g].run \in spoiled')
      <4>1. gjob[g].run = r => ~Pending(gpc[g], gjob[g].draft)
        BY <3>3
      <4>2. \A h \in Busy' : h \in Busy /\ h # g /\ gjob'[h] = gjob[h] /\ gpc'[h] = gpc[h]
        BY <3>1, <3>3 DEF Busy
      <4>3. \A h \in Busy : h = g \/ (h \in Busy' /\ gjob'[h] = gjob[h] /\ gpc'[h] = gpc[h])
        BY <3>1 DEF Busy
      <4> QED
        BY <3>1, <3>2, <4>1, <4>2, <4>3 DEF FinalOf
    <3>4. CASE /\ gpc'[g] # "idle" /\ gjob'[g].draft = gjob[g].draft /\ gjob'[g].run = gjob[g].run
               /\ Pending(gpc'[g], gjob[g].draft) = Pending(gpc[g], gjob[g].draft)
      <4>1. Busy' = Busy
        BY <3>1, <3>4 DEF Busy
      <4>2. \A h \in Busy : /\ gjob'[h].run = gjob[h].run /\ gjob'[h].draft = gjob[h].draft
                            /\ Pending(gpc'[h], gjob'[h].draft) = Pending(gpc[h], gjob[h].draft)
        BY <3>1, <3>4 DEF Busy
      <4> QED
        BY <3>1, <3>2, <4>1, <4>2 DEF FinalOf
    <3> QED
      BY <2>3, <3>3, <3>4 DEF Onward
  <2>4. CASE UNCHANGED gateVars
    <3>1. FinalOf(r)
      BY <2>4 DEF gateVars, FinalInv
    <3> QED
      BY <2>4, <3>1 DEF gateVars, FinalOf, Busy, Joined
  <2> QED
    BY <2>1, <2>2, <2>3, <2>4, GateSteps, OnwardSteps
<1>3. FinalInv => OutcomeIsFinal
  BY DEF FinalInv, FinalOf, OutcomeIsFinal
<1> QED
  BY <1>1, <1>2, <1>3, GatesTyped, OutcomesAlwaysTyped, PTL DEF Spec

-----------------------------------------------------------------------------
(* Repairs *)

RepairRecords == [failing : BodiesOf \cup {None, Cut}, error : Drafts \cup {NoDraft, CutDraft}, fixed : BodiesOf]

(* A file that was opened and not written has a gate that will write it, or    *)
(* spoils its text.                                                          *)
WritesMd(g, p) == g \in drafts[p].open.md /\ gpc[g] = "write md" /\ DraftPath(gjob[g].draft) = p
WritesErr(g, p) == g \in drafts[p].open.err /\ gpc[g] = "write err" /\ DraftPath(gjob[g].draft) = p
MdAccounted(p) == drafts[p].md = Cut => p[2] \in spoiled \/ \E g \in GateProcs : WritesMd(g, p)
ErrAccounted(p) == drafts[p].err = CutDraft => p[2] \in spoiled \/ \E g \in GateProcs : WritesErr(g, p)
CutInv == \A p \in Paths : MdAccounted(p) /\ ErrAccounted(p)

(* What a retry holds: the text of the copy it was given, and a failure of it,  *)
(* or what there was of a file read half written.                            *)
Paired(b, e) ==
    /\ b \in BodiesOf \/ BodiesOf \cap spoiled # {}
    /\ b \in BodiesOf => e.body = b \/ (b \in spoiled /\ e = CutDraft)

HandsInv ==
    /\ d4 \in Seq(RepairRecords)
    /\ saves \in [BodiesOf -> Nat]
    /\ \A p \in Paths : drafts[p].err \in {NoDraft, CutDraft} \/ drafts[p].err.body = p[2]
    /\ \A g \in GateProcs :
         /\ gpc[g] \in Grip => \/ gjob[g].failing = gjob[g].prev[2]
                               \/ gjob[g].failing = Cut /\ gjob[g].prev[2] \in spoiled
         /\ gpc[g] \in {"drop md", "drop err", "d4"} => Paired(gjob[g].failing, gjob[g].error)
    /\ \A i \in DOMAIN d4 : Paired(d4[i].failing, d4[i].error)

(* An error that is there and written.                                       *)
Whole(p) == drafts[p].err \notin {NoDraft, CutDraft}

(* What stands for a failure of text b: the copy of an error, a retry that has  *)
(* consumed one, or the record it wrote.                                     *)
Standing(b) ==
    {<<"copy", p>> : p \in {q \in Paths : q[2] = b /\ Whole(q)}}
    \cup {<<"gate", g>> : g \in {h \in GateProcs : gpc[h] = "d4" /\ gjob[h].failing = b}}
    \cup {<<"record", i>> : i \in {j \in DOMAIN d4 : d4[j].failing = b}}

(* While no command has touched a copy of b that another held, none was cut     *)
(* short and all could be removed: one retry has its hands on a copy, the error  *)
(* is there for it to remove, and no failure stands for two.                  *)
Single(b) ==
    \A g, h \in GateProcs :
        gpc[g] \in Grip /\ gpc[h] \in Grip /\ gjob[g].prev = gjob[h].prev /\ gjob[g].prev[2] = b => g = h
Present(b) ==
    \A g \in GateProcs : gpc[g] \in {"drop md", "drop err"} /\ gjob[g].prev[2] = b => Whole(gjob[g].prev)
Counts(b) == IsFiniteSet(Standing(b)) /\ Cardinality(Standing(b)) <= saves[b]

RepairInv == HandsInv /\ \A b \in BodiesOf \ spoiled : Single(b) /\ Present(b) /\ Counts(b)

(* A copy is named after a text that is one.                                  *)
LEMMA PathTexts ==
    /\ \A p \in Paths : p[2] \in BodiesOf /\ p[2] \notin {None, Cut}
    /\ \A d \in Drafts : d \notin {NoDraft, CutDraft}
<1>1. \A d \in Drafts : d.body \in BodiesOf
  BY DEF BodiesOf
<1>2. \A p \in Paths : \E d \in Drafts : p[2] = d.body
  BY DEF Paths, DraftPath
<1>3. NoDraft.body = None /\ CutDraft.body = Cut
  BY DEF NoDraft, CutDraft
<1> QED
  BY <1>1, <1>2, <1>3, TextAssumption

(* A file stays accounted for while its writer, or else the spoiled text, does.  *)
LEMMA MdStays ==
    ASSUME NEW p, MdAccounted(p), spoiled \subseteq spoiled',
           drafts'[p].md \in {None, drafts[p].md} \/ drafts'[p].md \in BodiesOf,
           \A h \in GateProcs : WritesMd(h, p) =>
               \/ drafts'[p].md # Cut \/ p[2] \in spoiled'
               \/ h \in drafts'[p].open.md /\ gpc'[h] = gpc[h] /\ gjob'[h] = gjob[h]
    PROVE  MdAccounted(p)'
  BY TextAssumption DEF MdAccounted, WritesMd, DraftPath, NameOf, None, Cut

LEMMA ErrStays ==
    ASSUME NEW p, ErrAccounted(p), spoiled \subseteq spoiled',
           drafts'[p].err \in {NoDraft, drafts[p].err} \/ drafts'[p].err \in Drafts,
           \A h \in GateProcs : WritesErr(h, p) =>
               \/ drafts'[p].err # CutDraft \/ p[2] \in spoiled'
               \/ h \in drafts'[p].open.err /\ gpc'[h] = gpc[h] /\ gjob'[h] = gjob[h]
    PROVE  ErrAccounted(p)'
<1>1. NoDraft # CutDraft /\ CutDraft \notin Drafts
  BY PathTexts DEF NoDraft, CutDraft
<1> QED
  BY <1>1 DEF ErrAccounted, WritesErr, DraftPath, NameOf

(* A step of a gate that writes neither file, and one that only removes.        *)
LEMMA CutsStay ==
    ASSUME CutInv, NEW g \in GateProcs, spoiled \subseteq spoiled',
           \A h \in GateProcs \ {g} : gpc'[h] = gpc[h] /\ gjob'[h] = gjob[h],
           NEW p \in Paths,
           \/ gpc[g] \notin {"write md", "write err"} \/ DraftPath(gjob[g].draft) # p
           \/ p[2] \in spoiled',
           \/ UNCHANGED drafts
           \/ /\ drafts'[p].md = None \/ (drafts'[p].md = drafts[p].md /\ drafts'[p].open.md = drafts[p].open.md)
              /\ drafts'[p].err = NoDraft \/ (drafts'[p].err = drafts[p].err /\ drafts'[p].open.err = drafts[p].open.err)
    PROVE  MdAccounted(p)' /\ ErrAccounted(p)'
<1>1. MdAccounted(p) /\ ErrAccounted(p)
  BY DEF CutInv
<1>2. NoDraft # CutDraft /\ None # Cut
  BY DEF NoDraft, CutDraft, None, Cut
<1>3. drafts'[p].md \in {None, drafts[p].md} /\ drafts'[p].err \in {NoDraft, drafts[p].err}
  OBVIOUS
<1>4. \A h \in GateProcs : WritesMd(h, p) =>
          \/ drafts'[p].md # Cut \/ p[2] \in spoiled'
          \/ h \in drafts'[p].open.md /\ gpc'[h] = gpc[h] /\ gjob'[h] = gjob[h]
  BY <1>2 DEF WritesMd
<1>5. \A h \in GateProcs : WritesErr(h, p) =>
          \/ drafts'[p].err # CutDraft \/ p[2] \in spoiled'
          \/ h \in drafts'[p].open.err /\ gpc'[h] = gpc[h] /\ gjob'[h] = gjob[h]
  BY <1>2 DEF WritesErr
<1> QED
  BY <1>1, <1>3, <1>4, <1>5, MdStays, ErrStays

LEMMA CutsSpoil == Spec => []CutInv
<1>1. Init => CutInv
  BY DEF Init, GateRunInit, CutInv, MdAccounted, ErrAccounted, NoFile, None, Cut, NoDraft, CutDraft
<1>2. GateTypes /\ CutInv /\ [Next]_vars => CutInv'
  <2> SUFFICES ASSUME GateTypes, CutInv, [Next]_vars PROVE CutInv'
    OBVIOUS
  <2> DEFINE Others(g) == \A h \in GateProcs \ {g} : gpc'[h] = gpc[h] /\ gjob'[h] = gjob[h]
  <2>1. CASE UNCHANGED gateVars
    BY <2>1 DEF gateVars, CutInv, MdAccounted, ErrAccounted, WritesMd, WritesErr, DraftPath, NameOf
  <2>2. ASSUME NEW g \in GateProcs, gpc[g] \notin {"write md", "write err"}, Others(g),
               UNCHANGED drafts, spoiled \subseteq spoiled'
        PROVE  CutInv'
    <3>1. ASSUME NEW p \in Paths PROVE MdAccounted(p)' /\ ErrAccounted(p)'
      BY <2>2, CutsStay
    <3> QED
      BY <3>1 DEF CutInv
  <2>3. CASE StartGate
    <3>1. PICK g \in GateProcs, d \in Drafts, prev \in handed \cup {NoPath}, r \in RunIds \cup {None} :
            Start(g, d, prev, r)
      BY <2>3 DEF StartGate
    <3>2. gpc[g] = "idle" /\ Others(g) /\ UNCHANGED drafts /\ spoiled \subseteq spoiled'
      BY <3>1 DEF Start, To, GateTypes, gateData, Spoil
    <3> QED
      BY <2>2, <3>2
  <2>4. CASE Quarantine
    <3>1. PICK g \in GateProcs : gpc[g] = "quarantine" /\ (End(g) \/ (To(g, "outcome") /\ UNCHANGED gjob))
      BY <2>4 DEF Quarantine, Working
    <3>2. Others(g) /\ UNCHANGED drafts /\ spoiled \subseteq spoiled'
      BY <2>4, <3>1 DEF Quarantine, End, To, GateTypes, gateData, Spoil
    <3> QED
      BY <2>2, <3>1, <3>2
  <2>5. ASSUME NEW g \in GateProcs, TakeMd(g) \/ TakeErr(g) \/ Outcome(g) \/ Repair(g) \/ Accepted(g) PROVE CutInv'
    <3>1. gpc[g] \notin {"write md", "write err"} /\ UNCHANGED drafts /\ spoiled \subseteq spoiled'
      BY <2>5 DEF TakeMd, TakeErr, Outcome, Repair, Accepted, gateData, ghosts, Spoil
    <3>2. \A h \in GateProcs \ {g} : gjob'[h] = gjob[h]
      BY <2>5 DEF TakeMd, TakeErr, Outcome, Repair, Accepted, End, GateTypes
    <3>3. \A h \in GateProcs \ {g} : gpc'[h] = gpc[h]
      BY <2>5 DEF TakeMd, TakeErr, Outcome, Repair, Accepted, To, End, GateTypes
    <3> QED
      BY <2>2, <3>1, <3>2, <3>3
  <2>6. CASE GateKilled
    <3>1. PICK g \in Busy :
            /\ End(g)
            /\ Spoil({gjob[g].run} \cup {gjob[h].draft.body : h \in {g} \cap Working({"write md", "write err"})})
      BY <2>6 DEF GateKilled
    <3>2. g \in GateProcs /\ Others(g) /\ UNCHANGED drafts /\ spoiled \subseteq spoiled'
      BY <2>6, <3>1 DEF GateKilled, Busy, End, GateTypes, gateData, Spoil
    <3>3. gpc[g] \in {"write md", "write err"} => gjob[g].draft.body \in spoiled'
      BY <3>1, <3>2 DEF Spoil, Working
    <3>4. DraftPath(gjob[g].draft)[2] = gjob[g].draft.body
      BY DEF DraftPath
    <3>5. ASSUME NEW p \in Paths PROVE MdAccounted(p)' /\ ErrAccounted(p)'
      BY <3>2, <3>3, <3>4, CutsStay
    <3> QED
      BY <3>5 DEF CutInv
  <2>7. ASSUME NEW g \in GateProcs,
               Drop(g, "drop md", "md", "drop err") \/ Drop(g, "drop err", "err", "d4")
        PROVE  CutInv'
    <3> DEFINE p == gjob[g].prev
    <3>1. /\ gpc[g] \in Grip /\ p \in Paths /\ UNCHANGED gjob /\ (To(g, "drop err") \/ To(g, "d4"))
      BY <2>7, DropMoves
    <3>2. Others(g) /\ spoiled \subseteq spoiled' /\ gpc[g] \notin {"write md", "write err"}
      BY <2>7, <3>1 DEF Drop, To, GateTypes, Spoil, Grip
    <3>3. drafts' = Put(p, "md", None, {}) \/ drafts' = Put(p, "err", NoDraft, {}) \/ UNCHANGED drafts
      BY <2>7 DEF Drop, Removed, NoFile
    <3>4. p \in Paths
      BY <3>1
    <3> HIDE DEF p
    <3>5. CASE UNCHANGED drafts
      BY <2>2, <3>2, <3>5
    <3>6. CASE drafts' = Put(p, "md", None, {}) \/ drafts' = Put(p, "err", NoDraft, {})
      <4>0. None \in BodiesOf \cup {None, Cut} /\ NoDraft \in Drafts \cup {NoDraft, CutDraft} /\ {} \in SUBSET GateProcs
        OBVIOUS
      <4>1. /\ drafts' = [drafts EXCEPT ![p] = drafts'[p]]
            /\ \/ drafts'[p].md = None /\ drafts'[p].err = drafts[p].err /\ drafts'[p].open.err = drafts[p].open.err
               \/ drafts'[p].err = NoDraft /\ drafts'[p].md = drafts[p].md /\ drafts'[p].open.md = drafts[p].open.md
        BY <3>4, <3>6, <4>0, PutsMd, PutsErr
      <4>2. \A q \in Paths \ {p} : drafts'[q] = drafts[q]
        BY <4>1 DEF GateTypes
      <4>3. ASSUME NEW q \in Paths PROVE MdAccounted(q)' /\ ErrAccounted(q)'
        BY <3>2, <4>1, <4>2, CutsStay
      <4> QED
        BY <4>3 DEF CutInv
    <3> QED
      BY <3>3, <3>5, <3>6
  <2>8. ASSUME NEW g \in GateProcs, OpenMd(g) \/ WriteMd(g) \/ OpenErr(g) \/ WriteErr(g) PROVE CutInv'
    <3>0. PICK d \in Drafts, p \in Paths : d = gjob[g].draft /\ p = DraftPath(d)
      BY <2>8, SaveMoves
    <3>1. /\ drafts' = [drafts EXCEPT ![p] = drafts'[p]]
          /\ End(g) \/ ((\E l \in {"write md", "save err", "write err"} : To(g, l)) /\ UNCHANGED gjob)
      BY <2>8, <3>0, SaveMoves
    <3>2. Others(g) /\ \A q \in Paths \ {p} : drafts'[q] = drafts[q]
      BY <3>1 DEF End, To, GateTypes
    <3>3. spoiled \subseteq spoiled' /\ d.body \in BodiesOf
      BY <2>8 DEF OpenMd, WriteMd, OpenErr, WriteErr, CutShort, Spoil, BodiesOf
    <3>4. gjob[g].draft = d /\ DraftPath(d) = p
      BY <3>0
    <3>5. ASSUME NEW q \in Paths \ {p} PROVE MdAccounted(q)' /\ ErrAccounted(q)'
      BY <3>2, <3>3, <3>4, CutsStay
    <3>6. MdAccounted(p) /\ ErrAccounted(p)
      BY <3>1 DEF CutInv
    <3>7. MdAccounted(p)' /\ ErrAccounted(p)'
      <4>1. CASE OpenMd(g)
        <5>1. /\ gpc[g] = "save md"
              /\ drafts'[p].err = drafts[p].err /\ drafts'[p].open.err = drafts[p].open.err
              /\ \/ g \in drafts'[p].open.md /\ To(g, "write md") /\ UNCHANGED gjob
                 \/ UNCHANGED drafts
          BY <3>4, <4>1, OpenMdMoves DEF Saving
        <5>2. ErrAccounted(p)'
          BY <3>2, <3>3, <3>6, <5>1, ErrStays DEF WritesErr
        <5>3. CASE g \in drafts'[p].open.md /\ To(g, "write md") /\ UNCHANGED gjob
          <6>1. gpc'[g] = "write md" /\ gjob'[g].draft = d
            BY <3>4, <5>3 DEF To, GateTypes
          <6>2. WritesMd(g, p)'
            BY <3>4, <5>3, <6>1 DEF WritesMd, DraftPath, NameOf
          <6> QED
            BY <5>2, <6>2 DEF MdAccounted
        <5>4. CASE UNCHANGED drafts
          BY <3>2, <3>3, <3>6, <5>1, <5>2, <5>4, MdStays DEF WritesMd
        <5> QED
          BY <5>1, <5>3, <5>4
      <4>2. CASE WriteMd(g)
        <5>1. /\ gpc[g] = "write md"
              /\ drafts'[p].err = drafts[p].err /\ drafts'[p].open.err = drafts[p].open.err
              /\ \/ drafts'[p].md = d.body
                 \/ g \notin drafts[p].open.md /\ UNCHANGED drafts
                 \/ p[2] \in spoiled' /\ UNCHANGED drafts
          BY <3>4, <4>2, WriteMdMoves DEF Saving, Spoil
        <5>2. ErrAccounted(p)'
          BY <3>2, <3>3, <3>6, <5>1, ErrStays DEF WritesErr
        <5>3. MdAccounted(p)'
          BY <3>2, <3>3, <3>6, <5>1, MdStays, TextAssumption DEF WritesMd
        <5> QED
          BY <5>2, <5>3
      <4>3. CASE OpenErr(g)
        <5>1. /\ gpc[g] = "save err"
              /\ drafts'[p].md = drafts[p].md /\ drafts'[p].open.md = drafts[p].open.md
              /\ \/ g \in drafts'[p].open.err /\ To(g, "write err") /\ UNCHANGED gjob
                 \/ UNCHANGED drafts
          BY <3>4, <4>3, OpenErrMoves DEF Saving
        <5>2. MdAccounted(p)'
          BY <3>2, <3>3, <3>6, <5>1, MdStays DEF WritesMd
        <5>3. CASE g \in drafts'[p].open.err /\ To(g, "write err") /\ UNCHANGED gjob
          <6>1. gpc'[g] = "write err" /\ gjob'[g].draft = d
            BY <3>4, <5>3 DEF To, GateTypes
          <6>2. WritesErr(g, p)'
            BY <3>4, <5>3, <6>1 DEF WritesErr, DraftPath, NameOf
          <6> QED
            BY <5>2, <6>2 DEF ErrAccounted
        <5>4. CASE UNCHANGED drafts
          BY <3>2, <3>3, <3>6, <5>1, <5>2, <5>4, ErrStays DEF WritesErr
        <5> QED
          BY <5>1, <5>3, <5>4
      <4>4. CASE WriteErr(g)
        <5>1. /\ gpc[g] = "write err"
              /\ drafts'[p].md = drafts[p].md /\ drafts'[p].open.md = drafts[p].open.md
              /\ \/ drafts'[p].err = d
                 \/ g \notin drafts[p].open.err /\ UNCHANGED drafts
                 \/ p[2] \in spoiled' /\ UNCHANGED drafts
          BY <3>4, <4>4, WriteErrMoves DEF Saving, Spoil
        <5>2. MdAccounted(p)'
          BY <3>2, <3>3, <3>6, <5>1, MdStays DEF WritesMd
        <5>3. ErrAccounted(p)'
          BY <3>1, <3>2, <3>3, <3>6, <5>1, ErrStays, PathTexts DEF WritesErr
        <5> QED
          BY <5>2, <5>3
      <4> QED
        BY <2>8, <4>1, <4>2, <4>3, <4>4
    <3> QED
      BY <3>5, <3>7 DEF CutInv
  <2> QED
    BY <2>1, <2>3, <2>4, <2>5, <2>6, <2>7, <2>8, GateSteps
<1> QED
  BY <1>1, <1>2, GatesTyped, PTL DEF Spec

(* The four ways Standing(b) moves: it loses members, gains one with a save, or *)
(* trades one for another.                                                   *)
LEMMA FewerStand ==
    ASSUME NEW S, NEW T, IsFiniteSet(S), T \subseteq S, NEW n \in Nat, Cardinality(S) <= n
    PROVE  IsFiniteSet(T) /\ Cardinality(T) <= n
<1>1. IsFiniteSet(T) /\ Cardinality(T) <= Cardinality(S)
  BY FS_Subset
<1> QED
  BY <1>1, FS_CardinalityType

LEMMA OneMoreStands ==
    ASSUME NEW S, NEW T, NEW x, IsFiniteSet(S), T \subseteq S \cup {x}, NEW n \in Nat, Cardinality(S) <= n
    PROVE  IsFiniteSet(T) /\ Cardinality(T) <= n + 1
<1>1. IsFiniteSet(S \cup {x}) /\ Cardinality(S) \in Nat
      /\ (Cardinality(S \cup {x}) = Cardinality(S) \/ Cardinality(S \cup {x}) = Cardinality(S) + 1)
  BY FS_AddElement, FS_CardinalityType
<1>2. Cardinality(S \cup {x}) <= n + 1
  BY <1>1
<1> QED
  BY <1>1, <1>2, FewerStand

LEMMA OneForAnother ==
    ASSUME NEW S, NEW T, NEW x, NEW y \in S, IsFiniteSet(S), T \subseteq (S \ {y}) \cup {x},
           NEW n \in Nat, Cardinality(S) <= n
    PROVE  IsFiniteSet(T) /\ Cardinality(T) <= n
<1>1. IsFiniteSet(S \ {y}) /\ Cardinality(S \ {y}) = Cardinality(S) - 1 /\ Cardinality(S) \in Nat
      /\ Cardinality(S \ {y}) \in Nat
  BY FS_RemoveElement, FS_CardinalityType
<1>2. CASE n = 0
  <2>1. S = {}
    BY <1>1, <1>2, FS_EmptySet
  <2> QED
    BY <2>1
<1>3. CASE n # 0
  <2>1. n - 1 \in Nat /\ Cardinality(S \ {y}) <= n - 1
    BY <1>1, <1>3
  <2>2. IsFiniteSet(T) /\ Cardinality(T) <= (n - 1) + 1
    BY <1>1, <2>1, OneMoreStands
  <2> QED
    BY <2>2
<1> QED
  BY <1>2, <1>3

-----------------------------------------------------------------------------
(* A gate's step, as the copies of errors and D4 see it.                      *)
Moves(g) ==
    /\ gpc' = [gpc EXCEPT ![g] = gpc'[g]]
    /\ gjob' = [gjob EXCEPT ![g] = gjob'[g]]
    /\ spoiled \subseteq spoiled'

SameErrors == \A p \in Paths : drafts'[p].err = drafts[p].err

(* It keeps its hands off: neither before nor after a removal.                 *)
Aside(g) ==
    /\ Moves(g) /\ SameErrors /\ UNCHANGED <<d4, saves>>
    /\ gpc'[g] \notin Grip \cup {"d4"}

(* It reads a text, then the failure of it, then removes both.                 *)
Reads(g) ==
    LET p == gjob[g].prev
    IN  /\ Moves(g) /\ SameErrors /\ UNCHANGED <<d4, saves>>
        /\ gpc[g] = "take md" /\ gpc'[g] = "take err" /\ p \in Paths
        /\ gjob'[g].prev = p
        /\ gjob'[g].failing = p[2] \/ (gjob'[g].failing = Cut /\ p[2] \in spoiled')
        /\ Taking(p) = {} \/ p[2] \in spoiled'

ReadsErr(g) ==
    LET p == gjob[g].prev
    IN  /\ Moves(g) /\ SameErrors /\ UNCHANGED <<d4, saves>>
        /\ gpc[g] = "take err" /\ gpc'[g] = "drop md" /\ p \in Paths
        /\ gjob'[g].prev = p /\ gjob'[g].failing = gjob[g].failing
        /\ drafts[p].err # NoDraft /\ gjob'[g].error = drafts[p].err
        /\ Whole(p) \/ p[2] \in spoiled'

RemovesMd(g) ==
    /\ Moves(g) /\ SameErrors /\ UNCHANGED <<d4, saves, gjob>>
    /\ gpc[g] = "drop md" /\ gpc'[g] = "drop err"

RemovesErr(g) ==
    LET p == gjob[g].prev
    IN  /\ Moves(g) /\ UNCHANGED <<d4, saves, gjob>> /\ p \in Paths
        /\ gpc[g] = "drop err" /\ gpc'[g] = "d4"
        /\ \A q \in Paths \ {p} : drafts'[q].err = drafts[q].err
        /\ drafts'[p].err = NoDraft \/ (SameErrors /\ p[2] \in spoiled')

(* It records the repair, or cannot.                                         *)
Pairs(g) ==
    /\ Moves(g) /\ SameErrors /\ UNCHANGED <<saves, gjob>>
    /\ gpc[g] = "d4" /\ gpc'[g] = "d5"
    /\ \/ UNCHANGED d4
       \/ \E f \in BodiesOf : d4' = Append(d4, [failing |-> gjob[g].failing, error |-> gjob[g].error, fixed |-> f])

(* It opens the error of its own draft, and saves it if it still has it open.   *)
Opens(g) ==
    LET p == DraftPath(gjob[g].draft)
    IN  /\ Moves(g) /\ UNCHANGED <<d4, saves>> /\ p \in Paths
        /\ gpc'[g] = "write err"
        /\ \A q \in Paths \ {p} : drafts'[q].err = drafts[q].err
        /\ drafts'[p].err = CutDraft
        /\ Taking(p) = {} \/ p[2] \in spoiled'

Saves(g) ==
    LET d == gjob[g].draft
        p == DraftPath(d)
    IN  /\ Moves(g) /\ UNCHANGED d4 /\ d \in Drafts /\ p \in Paths
        /\ gpc'[g] = "idle"
        /\ \A q \in Paths \ {p} : drafts'[q].err = drafts[q].err
        /\ drafts'[p].err \in {d, drafts[p].err}
        /\ saves' = [saves EXCEPT ![d.body] = @ + 1]

LEMMA HandsOff ==
    ASSUME GateTypes, NEW g \in GateProcs, UNCHANGED <<d4, saves>>, SameErrors, spoiled \subseteq spoiled',
           \/ End(g)
           \/ (\E l \in {"outcome", "save md", "write md", "save err", "d5"} : To(g, l)) /\ UNCHANGED gjob
    PROVE  Aside(g)
<1>1. Moves(g) /\ gpc'[g] \in {"idle", "outcome", "save md", "write md", "save err", "d5"}
  BY DEF End, To, GateTypes, Moves
<1> QED
  BY <1>1 DEF Aside, Grip

LEMMA StartsAside == ASSUME GateTypes, StartGate PROVE \E g \in GateProcs : Aside(g)
<1>1. PICK g \in GateProcs, d \in Drafts, prev \in handed \cup {NoPath}, q \in RunIds \cup {None} :
        Start(g, d, prev, q)
  BY DEF StartGate
<1>2. UNCHANGED <<drafts, d4, saves>> /\ spoiled \subseteq spoiled'
  BY <1>1 DEF Start, gateData, Spoil
<1>3. gpc' = [gpc EXCEPT ![g] = gpc'[g]] /\ gjob' = [gjob EXCEPT ![g] = gjob'[g]]
      /\ gpc'[g] \in {"quarantine", "take md", "d5"}
  BY <1>1 DEF Start, To, GateTypes
<1>4. Aside(g)
  BY <1>2, <1>3 DEF Aside, Moves, SameErrors, Grip
<1> QED
  BY <1>4

LEMMA QuarantineAside ==
    ASSUME GateTypes, Quarantine \/ GateKilled
    PROVE  \E g \in GateProcs : Aside(g)
<1>1. PICK g \in GateProcs : End(g) \/ (To(g, "outcome") /\ UNCHANGED gjob)
  BY DEF Quarantine, GateKilled, Working, Busy
<1>2. UNCHANGED <<drafts, d4, saves>> /\ spoiled \subseteq spoiled'
  BY DEF Quarantine, GateKilled, gateData, Spoil
<1>3. Aside(g)
  BY <1>1, <1>2, HandsOff DEF SameErrors
<1> QED
  BY <1>3

LEMMA OutcomeAside ==
    ASSUME GateTypes, NEW g \in GateProcs, Outcome(g) \/ Accepted(g)
    PROVE  Aside(g)
<1>1. UNCHANGED <<drafts, d4, saves>> /\ spoiled \subseteq spoiled'
  BY DEF Outcome, Accepted, ghosts, Spoil
<1>2. End(g) \/ ((\E l \in {"outcome", "save md"} : To(g, l)) /\ UNCHANGED gjob)
  BY DEF Outcome, Accepted
<1> QED
  BY <1>1, <1>2, HandsOff DEF SameErrors

LEMMA TakeMdReads ==
    ASSUME GateTypes, KeptInv, CutInv, NEW g \in GateProcs, TakeMd(g)
    PROVE  Aside(g) \/ Reads(g)
<1> DEFINE p == gjob[g].prev
<1>1. gpc[g] = "take md" /\ p \in Paths /\ UNCHANGED <<drafts, d4, saves>> /\ gjob[g] \in GateJobs
      /\ spoiled \subseteq spoiled'
  BY DEF TakeMd, GateTypes, gateData, Spoil
<1>2. CASE drafts[p].md = None
  <2>1. To(g, "d5") /\ UNCHANGED gjob
    BY <1>2 DEF TakeMd
  <2> QED
    BY <1>1, <2>1, HandsOff DEF SameErrors
<1>3. CASE drafts[p].md # None
  <2> DEFINE text == drafts[p].md
  <2>1. text \in {Cut, p[2]}
    BY <1>1, <1>3 DEF KeptInv
  <2>2. /\ gjob' = [gjob EXCEPT ![g].failing = text] /\ To(g, "take err")
        /\ spoiled' = spoiled \cup (IF Taking(p) \cup Writing(p) # {} THEN {p[2]} ELSE {})
    BY <1>3 DEF TakeMd, Spoil
  <2>3. text = Cut => p[2] \in spoiled'
    <3>1. \A h \in GateProcs : WritesMd(h, p) => h \in Writing(p)
      BY DEF WritesMd, Writing, Working
    <3> QED
      BY <1>1, <2>2, <3>1 DEF CutInv, MdAccounted
  <2> HIDE DEF text
  <2>4. gjob'[g] = [gjob[g] EXCEPT !.failing = text]
    BY <2>2 DEF GateTypes
  <2>5. gjob'[g].prev = p /\ gjob'[g].failing = text
    BY <1>1, <2>4 DEF GateJobs
  <2>6. gpc' = [gpc EXCEPT ![g] = gpc'[g]] /\ gpc'[g] = "take err" /\ gjob' = [gjob EXCEPT ![g] = gjob'[g]]
    BY <2>2 DEF To, GateTypes
  <2>7. Taking(p) = {} \/ p[2] \in spoiled'
    BY <2>2
  <2>8. Reads(g)
    BY <1>1, <2>1, <2>3, <2>5, <2>6, <2>7 DEF Reads, Moves, SameErrors
  <2> QED
    BY <2>8
<1> QED
  BY <1>2, <1>3

LEMMA TakeErrReads ==
    ASSUME GateTypes, CutInv, NEW g \in GateProcs, TakeErr(g)
    PROVE  Aside(g) \/ ReadsErr(g)
<1> DEFINE p == gjob[g].prev
<1>1. gpc[g] = "take err" /\ p \in Paths /\ UNCHANGED <<drafts, d4, saves>> /\ gjob[g] \in GateJobs
      /\ spoiled \subseteq spoiled'
  BY DEF TakeErr, GateTypes, gateData, Grip, Spoil
<1>2. CASE drafts[p].err = NoDraft
  <2>1. To(g, "d5") /\ UNCHANGED gjob
    BY <1>2 DEF TakeErr
  <2> QED
    BY <1>1, <2>1, HandsOff DEF SameErrors
<1>3. CASE drafts[p].err # NoDraft
  <2>1. /\ gjob' = [gjob EXCEPT ![g].error = drafts[p].err] /\ To(g, "drop md")
        /\ spoiled' = spoiled \cup (IF Writing(p) # {} THEN {p[2]} ELSE {})
    BY <1>3 DEF TakeErr, Spoil
  <2>2. gjob'[g] = [gjob[g] EXCEPT !.error = drafts[p].err]
    BY <2>1 DEF GateTypes
  <2>3. gjob'[g].prev = p /\ gjob'[g].failing = gjob[g].failing /\ gjob'[g].error = drafts[p].err
    BY <1>1, <2>2 DEF GateJobs
  <2>4. gpc' = [gpc EXCEPT ![g] = gpc'[g]] /\ gpc'[g] = "drop md" /\ gjob' = [gjob EXCEPT ![g] = gjob'[g]]
    BY <2>1 DEF To, GateTypes
  <2>5. Whole(p) \/ p[2] \in spoiled'
    <3>1. \A h \in GateProcs : WritesErr(h, p) => h \in Writing(p)
      BY DEF WritesErr, Writing, Working
    <3> QED
      BY <1>1, <1>3, <2>1, <3>1 DEF CutInv, ErrAccounted, Whole
  <2>6. ReadsErr(g)
    BY <1>1, <1>3, <2>3, <2>4, <2>5 DEF ReadsErr, Moves, SameErrors
  <2> QED
    BY <2>6
<1> QED
  BY <1>2, <1>3

LEMMA DropsRemove ==
    ASSUME GateTypes, NEW g \in GateProcs
    PROVE  /\ Drop(g, "drop md", "md", "drop err") => RemovesMd(g)
           /\ Drop(g, "drop err", "err", "d4") => RemovesErr(g)
<1> DEFINE p == gjob[g].prev
<1>1. ASSUME Drop(g, "drop md", "md", "drop err") PROVE RemovesMd(g)
  <2>1. gpc[g] = "drop md" /\ p \in Paths /\ UNCHANGED <<gjob, d4, saves>>
    BY <1>1 DEF Drop, GateTypes, Grip
  <2>2. gpc' = [gpc EXCEPT ![g] = gpc'[g]] /\ gpc'[g] = "drop err" /\ spoiled \subseteq spoiled'
    BY <1>1 DEF Drop, To, GateTypes, Spoil
  <2>3. drafts' = drafts \/ drafts' = Put(p, "md", None, {})
    BY <1>1 DEF Drop, Removed, NoFile
  <2> HIDE DEF p
  <2>4. SameErrors
    <3>1. CASE drafts' = drafts
      BY <3>1 DEF SameErrors
    <3>2. CASE drafts' = Put(p, "md", None, {})
      <4>0. None \in BodiesOf \cup {None, Cut} /\ {} \in SUBSET GateProcs /\ p \in Paths
        BY <2>1
      <4>1. drafts'[p].err = drafts[p].err /\ drafts' = [drafts EXCEPT ![p] = drafts'[p]]
        BY <3>2, <4>0, PutsMd
      <4>2. \A q \in Paths \ {p} : drafts'[q] = drafts[q]
        BY <4>1 DEF GateTypes
      <4> QED
        BY <4>1, <4>2 DEF SameErrors
    <3> QED
      BY <2>3, <3>1, <3>2
  <2>5. gjob' = [gjob EXCEPT ![g] = gjob'[g]]
    BY <2>1 DEF GateTypes
  <2> QED
    BY <2>1, <2>2, <2>4, <2>5 DEF RemovesMd, Moves, p
<1>2. ASSUME Drop(g, "drop err", "err", "d4") PROVE RemovesErr(g)
  <2>1. gpc[g] = "drop err" /\ p \in Paths /\ UNCHANGED <<gjob, d4, saves>>
    BY <1>2 DEF Drop, GateTypes, Grip
  <2>2. gpc' = [gpc EXCEPT ![g] = gpc'[g]] /\ gpc'[g] = "d4" /\ spoiled \subseteq spoiled'
    BY <1>2 DEF Drop, To, GateTypes, Spoil
  <2>3. \/ drafts' = drafts /\ p[2] \in spoiled'
        \/ drafts' = Put(p, "err", NoDraft, {})
    BY <1>2 DEF Drop, Removed, Spoil, NoFile
  <2> HIDE DEF p
  <2>4. /\ \A q \in Paths \ {p} : drafts'[q].err = drafts[q].err
        /\ drafts'[p].err = NoDraft \/ (SameErrors /\ p[2] \in spoiled')
    <3>1. CASE drafts' = drafts /\ p[2] \in spoiled'
      BY <3>1 DEF SameErrors
    <3>2. CASE drafts' = Put(p, "err", NoDraft, {})
      <4>0. NoDraft \in Drafts \cup {NoDraft, CutDraft} /\ {} \in SUBSET GateProcs /\ p \in Paths
        BY <2>1
      <4>1. drafts'[p].err = NoDraft /\ drafts' = [drafts EXCEPT ![p] = drafts'[p]]
        BY <3>2, <4>0, PutsErr
      <4>2. \A q \in Paths \ {p} : drafts'[q] = drafts[q]
        BY <4>1 DEF GateTypes
      <4> QED
        BY <4>1, <4>2
    <3> QED
      BY <2>3, <3>1, <3>2
  <2>5. gjob' = [gjob EXCEPT ![g] = gjob'[g]]
    BY <2>1 DEF GateTypes
  <2> QED
    BY <2>1, <2>2, <2>4, <2>5 DEF RemovesErr, Moves, p
<1> QED
  BY <1>1, <1>2

LEMMA RepairPairs ==
    ASSUME GateTypes, NEW g \in GateProcs, Repair(g)
    PROVE  Pairs(g)
<1>1. gpc[g] = "d4" /\ UNCHANGED <<drafts, gjob, saves, spoiled>>
  BY DEF Repair, ghosts
<1>2. gpc' = [gpc EXCEPT ![g] = gpc'[g]] /\ gpc'[g] = "d5" /\ gjob' = [gjob EXCEPT ![g] = gjob'[g]]
  BY <1>1 DEF Repair, To, GateTypes
<1>3. gjob[g].draft.body \in BodiesOf
  BY <1>1 DEF GateTypes, BodiesOf
<1>4. \/ UNCHANGED d4
      \/ d4' = Append(d4, [failing |-> gjob[g].failing, error |-> gjob[g].error, fixed |-> gjob[g].draft.body])
  BY DEF Repair
<1> QED
  BY <1>1, <1>2, <1>3, <1>4 DEF Pairs, Moves, SameErrors

LEMMA SaveSaves ==
    ASSUME GateTypes, NEW g \in GateProcs, OpenMd(g) \/ WriteMd(g) \/ OpenErr(g) \/ WriteErr(g)
    PROVE  Aside(g) \/ Opens(g) \/ Saves(g)
<1> DEFINE d == gjob[g].draft
           p == DraftPath(d)
<1>1. d \in Drafts /\ p \in Paths /\ drafts' = [drafts EXCEPT ![p] = drafts'[p]]
  BY SaveMoves
<1>2. UNCHANGED d4 /\ spoiled \subseteq spoiled'
  BY DEF OpenMd, WriteMd, OpenErr, WriteErr, CutShort, Spoil
<1>3. p = DraftPath(d) /\ d = gjob[g].draft
  OBVIOUS
<1> HIDE DEF d, p
<1>4. \A q \in Paths \ {p} : drafts'[q] = drafts[q]
  BY <1>1 DEF GateTypes
<1>5. CASE OpenMd(g)
  <2>1. drafts'[p].err = drafts[p].err /\ (End(g) \/ (To(g, "write md") /\ UNCHANGED gjob))
    BY <1>3, <1>5, OpenMdMoves
  <2>2. SameErrors
    BY <1>4, <2>1 DEF SameErrors
  <2>3. UNCHANGED saves
    BY <1>5 DEF OpenMd
  <2> QED
    BY <1>2, <2>1, <2>2, <2>3, HandsOff
<1>6. CASE WriteMd(g)
  <2>1. drafts'[p].err = drafts[p].err /\ (End(g) \/ (To(g, "save err") /\ UNCHANGED gjob))
    BY <1>3, <1>6, WriteMdMoves
  <2>2. SameErrors
    BY <1>4, <2>1 DEF SameErrors
  <2>3. UNCHANGED saves
    BY <1>6 DEF WriteMd
  <2> QED
    BY <1>2, <2>1, <2>2, <2>3, HandsOff
<1>7. CASE OpenErr(g)
  <2>1. \/ /\ drafts'[p].err = CutDraft /\ Spoil(IF Taking(p) # {} THEN {p[2]} ELSE {})
           /\ To(g, "write err") /\ UNCHANGED gjob
        \/ End(g) /\ UNCHANGED drafts
    BY <1>3, <1>7, OpenErrMoves
  <2>2. UNCHANGED saves
    BY <1>7 DEF OpenErr
  <2>3. CASE End(g) /\ UNCHANGED drafts
    BY <1>2, <2>2, <2>3, HandsOff DEF SameErrors
  <2>4. CASE /\ drafts'[p].err = CutDraft /\ Spoil(IF Taking(p) # {} THEN {p[2]} ELSE {})
             /\ To(g, "write err") /\ UNCHANGED gjob
    <3>1. gpc' = [gpc EXCEPT ![g] = gpc'[g]] /\ gpc'[g] = "write err" /\ gjob' = [gjob EXCEPT ![g] = gjob'[g]]
      BY <2>4 DEF To, GateTypes
    <3>2. Taking(p) = {} \/ p[2] \in spoiled'
      BY <2>4 DEF Spoil
    <3>3. Opens(g)
      BY <1>1, <1>2, <1>3, <1>4, <2>2, <2>4, <3>1, <3>2 DEF Opens, Moves
    <3> QED
      BY <3>3
  <2> QED
    BY <2>1, <2>3, <2>4
<1>8. CASE WriteErr(g)
  <2>1. /\ End(g)
        /\ \/ drafts'[p].err \in {d, drafts[p].err} /\ saves' = [saves EXCEPT ![d.body] = @ + 1]
           \/ UNCHANGED <<drafts, saves>>
    BY <1>3, <1>8, WriteErrMoves
  <2>2. CASE UNCHANGED <<drafts, saves>>
    BY <1>2, <2>1, <2>2, HandsOff DEF SameErrors
  <2>3. CASE drafts'[p].err \in {d, drafts[p].err} /\ saves' = [saves EXCEPT ![d.body] = @ + 1]
    <3>1. gpc' = [gpc EXCEPT ![g] = gpc'[g]] /\ gpc'[g] = "idle" /\ gjob' = [gjob EXCEPT ![g] = gjob'[g]]
      BY <2>1 DEF End, GateTypes
    <3>2. Saves(g)
      BY <1>1, <1>2, <1>3, <1>4, <2>3, <3>1 DEF Saves, Moves
    <3> QED
      BY <3>2
  <2> QED
    BY <2>1, <2>2, <2>3
<1> QED
  BY <1>5, <1>6, <1>7, <1>8

LEMMA RepairSteps ==
    ASSUME GateTypes, KeptInv, CutInv, [Next]_vars
    PROVE  \/ UNCHANGED gateVars
           \/ \E g \in GateProcs : \/ Aside(g) \/ Reads(g) \/ ReadsErr(g) \/ RemovesMd(g)
                                   \/ RemovesErr(g) \/ Pairs(g) \/ Opens(g) \/ Saves(g)
<1>1. CASE StartGate \/ Quarantine \/ GateKilled
  BY <1>1, StartsAside, QuarantineAside
<1>2. ASSUME NEW g \in GateProcs,
             \/ TakeMd(g) \/ TakeErr(g)
             \/ Drop(g, "drop md", "md", "drop err") \/ Drop(g, "drop err", "err", "d4")
             \/ Outcome(g) \/ Repair(g) \/ Accepted(g)
             \/ OpenMd(g) \/ WriteMd(g) \/ OpenErr(g) \/ WriteErr(g)
      PROVE  \/ Aside(g) \/ Reads(g) \/ ReadsErr(g) \/ RemovesMd(g)
             \/ RemovesErr(g) \/ Pairs(g) \/ Opens(g) \/ Saves(g)
  BY <1>2, TakeMdReads, TakeErrReads, DropsRemove, OutcomeAside, SaveSaves, RepairPairs
<1> QED
  BY <1>1, <1>2, GateSteps

-----------------------------------------------------------------------------
(* What a retry holds stays what it read.                                    *)
LEMMA HandsKept ==
    ASSUME GateTypes, HandsInv, NEW g \in GateProcs,
           \/ Aside(g) \/ Reads(g) \/ ReadsErr(g) \/ RemovesMd(g) \/ RemovesErr(g) \/ Pairs(g)
           \/ Opens(g) \/ Saves(g)
    PROVE  HandsInv'
<1> DEFINE OtherHands == \A h \in GateProcs \ {g} : gpc'[h] = gpc[h] /\ gjob'[h] = gjob[h]
           PairedNow(b, e) == /\ b \in BodiesOf \/ BodiesOf \cap spoiled' # {}
                              /\ b \in BodiesOf => e.body = b \/ (b \in spoiled' /\ e = CutDraft)
           Holds(t, p) == t = p[2] \/ (t = Cut /\ p[2] \in spoiled')
           OwnHands == /\ gpc'[g] \in Grip => Holds(gjob'[g].failing, gjob'[g].prev)
                       /\ gpc'[g] \in {"drop md", "drop err", "d4"} => PairedNow(gjob'[g].failing, gjob'[g].error)
           ErrorsTrue == \A p \in Paths : drafts'[p].err \in {NoDraft, CutDraft} \/ drafts'[p].err.body = p[2]
           RecordsTrue == /\ d4' \in Seq(RepairRecords) /\ saves' \in [BodiesOf -> Nat]
                          /\ \A i \in DOMAIN d4' : PairedNow(d4'[i].failing, d4'[i].error)
<1>1. OtherHands /\ spoiled \subseteq spoiled'
  <2>1. Moves(g)
    BY DEF Aside, Reads, ReadsErr, RemovesMd, RemovesErr, Pairs, Opens, Saves
  <2> QED
    BY <2>1 DEF Moves, GateTypes
<1>2. SameErrors => ErrorsTrue
  BY DEF SameErrors, HandsInv
<1>0. \A b, e : Paired(b, e) => PairedNow(b, e)
  BY <1>1 DEF Paired
<1>3. UNCHANGED <<d4, saves>> => RecordsTrue
  <2>1. /\ d4 \in Seq(RepairRecords) /\ saves \in [BodiesOf -> Nat]
        /\ \A i \in DOMAIN d4 : PairedNow(d4[i].failing, d4[i].error)
    BY <1>0 DEF HandsInv
  <2> QED
    BY <2>1
<1>4. OwnHands /\ ErrorsTrue /\ RecordsTrue => HandsInv'
  <2> SUFFICES ASSUME OwnHands, ErrorsTrue, RecordsTrue PROVE HandsInv'
    OBVIOUS
  <2>1. ASSUME NEW h \in GateProcs
        PROVE  /\ gpc'[h] \in Grip => Holds(gjob'[h].failing, gjob'[h].prev)
               /\ gpc'[h] \in {"drop md", "drop err", "d4"} => PairedNow(gjob'[h].failing, gjob'[h].error)
    <3>1. CASE h = g
      BY <3>1
    <3>2. CASE h # g
      <4>1. gpc'[h] = gpc[h] /\ gjob'[h] = gjob[h]
        BY <1>1, <3>2
      <4>2. gpc[h] \in {"drop md", "drop err", "d4"} => PairedNow(gjob[h].failing, gjob[h].error)
        <5>1. gpc[h] \in {"drop md", "drop err", "d4"} => Paired(gjob[h].failing, gjob[h].error)
          BY DEF HandsInv
        <5> QED
          BY <1>0, <5>1
      <4>3. gpc[h] \in Grip => Holds(gjob[h].failing, gjob[h].prev)
        BY <1>1 DEF HandsInv
      <4> QED
        BY <4>1, <4>2, <4>3
    <3> QED
      BY <3>1, <3>2
  <2> QED
    BY <2>1 DEF HandsInv, Paired
<1>5. CASE Aside(g)
  <2>1. OwnHands
    BY <1>5 DEF Aside, Grip
  <2> QED
    BY <1>2, <1>3, <1>4, <1>5, <2>1 DEF Aside
<1>6. CASE Reads(g)
  <2>1. /\ gpc'[g] \notin {"drop md", "drop err", "d4"}
        /\ Holds(gjob'[g].failing, gjob'[g].prev)
    BY <1>6 DEF Reads
  <2>2. OwnHands
    BY <2>1
  <2> QED
    BY <1>2, <1>3, <1>4, <1>6, <2>2 DEF Reads
<1>7. CASE ReadsErr(g)
  <2> DEFINE p == gjob[g].prev
  <2>1. /\ gjob[g].failing = p[2] \/ (gjob[g].failing = Cut /\ p[2] \in spoiled)
        /\ drafts[p].err \in {NoDraft, CutDraft} \/ drafts[p].err.body = p[2]
        /\ p[2] \in BodiesOf
    BY <1>7, PathTexts DEF ReadsErr, HandsInv, Grip
  <2>2. /\ gjob'[g].prev = p /\ gjob'[g].failing = gjob[g].failing
        /\ gjob'[g].error = drafts[p].err /\ drafts[p].err # NoDraft
        /\ drafts[p].err = CutDraft => p[2] \in spoiled'
    BY <1>7 DEF ReadsErr, Whole
  <2> HIDE DEF p
  <2>3. gjob[g].failing \in BodiesOf => gjob[g].failing = p[2]
    BY <2>1, TextAssumption
  <2>7. gjob[g].failing \in BodiesOf \/ BodiesOf \cap spoiled' # {}
    BY <1>1, <2>1
  <2>4. PairedNow(gjob'[g].failing, gjob'[g].error)
    BY <2>1, <2>2, <2>3, <2>7
  <2>6. Holds(gjob'[g].failing, gjob'[g].prev)
    BY <1>1, <2>1, <2>2
  <2>5. OwnHands
    BY <2>4, <2>6
  <2> QED
    BY <1>2, <1>3, <1>4, <1>7, <2>5 DEF ReadsErr
<1>8. CASE RemovesMd(g)
  <2>2. /\ Holds(gjob[g].failing, gjob[g].prev)
        /\ PairedNow(gjob[g].failing, gjob[g].error) /\ UNCHANGED gjob
    BY <1>0, <1>1, <1>8 DEF RemovesMd, HandsInv, Grip
  <2>1. OwnHands
    BY <2>2
  <2> QED
    BY <1>2, <1>3, <1>4, <1>8, <2>1 DEF RemovesMd
<1>9. CASE RemovesErr(g)
  <2>3. gpc'[g] \notin Grip /\ PairedNow(gjob[g].failing, gjob[g].error) /\ UNCHANGED gjob
    BY <1>0, <1>9 DEF RemovesErr, HandsInv, Grip
  <2>1. OwnHands
    BY <2>3
  <2>2. ErrorsTrue
    BY <1>2, <1>9 DEF RemovesErr, HandsInv
  <2> QED
    BY <1>3, <1>4, <1>9, <2>1, <2>2 DEF RemovesErr
<1>10. CASE Pairs(g)
  <2>1. OwnHands
    BY <1>10 DEF Pairs, Grip
  <2>2. RecordsTrue
    <3>1. CASE UNCHANGED d4
      BY <1>3, <1>10, <3>1 DEF Pairs
    <3>2. CASE ~UNCHANGED d4
      <4>1. PICK f \in BodiesOf :
              d4' = Append(d4, [failing |-> gjob[g].failing, error |-> gjob[g].error, fixed |-> f])
        BY <1>10, <3>2 DEF Pairs
      <4> DEFINE rec == [failing |-> gjob[g].failing, error |-> gjob[g].error, fixed |-> f]
      <4>2. rec \in RepairRecords
        BY DEF RepairRecords, GateTypes, GateJobs
      <4>3. PairedNow(rec.failing, rec.error)
        BY <1>1, <1>10 DEF Pairs, HandsInv, Paired
      <4>4. d4' = Append(d4, rec)
        BY <4>1
      <4> HIDE DEF rec
      <4>0. d4 \in Seq(RepairRecords) /\ \A i \in DOMAIN d4 : PairedNow(d4[i].failing, d4[i].error)
        BY <1>1 DEF HandsInv, Paired
      <4>5. /\ d4' \in Seq(RepairRecords) /\ Len(d4') = Len(d4) + 1 /\ d4'[Len(d4) + 1] = rec
            /\ \A i \in 1..Len(d4) : d4'[i] = d4[i]
        BY <4>0, <4>2, <4>4, AppendProperties
      <4>6. DOMAIN d4' = 1..(Len(d4) + 1) /\ DOMAIN d4 = 1..Len(d4) /\ Len(d4) \in Nat
        BY <4>0, <4>5, LenProperties
      <4>7. \A i \in DOMAIN d4' : PairedNow(d4'[i].failing, d4'[i].error)
        <5>1. \A i \in DOMAIN d4' : i \in DOMAIN d4 \/ i = Len(d4) + 1
          BY <4>6
        <5> QED
          BY <4>0, <4>3, <4>5, <4>6, <5>1
      <4> QED
        BY <1>10, <4>5, <4>7 DEF Pairs, HandsInv
    <3> QED
      BY <3>1, <3>2
  <2> QED
    BY <1>2, <1>4, <1>10, <2>1, <2>2 DEF Pairs
<1>11. CASE Opens(g)
  <2>1. OwnHands
    BY <1>11 DEF Opens, Grip
  <2>2. ErrorsTrue
    BY <1>11 DEF Opens, HandsInv
  <2> QED
    BY <1>3, <1>4, <1>11, <2>1, <2>2 DEF Opens
<1>12. CASE Saves(g)
  <2>1. OwnHands
    BY <1>12 DEF Saves, Grip
  <2>2. ErrorsTrue
    <3>1. DraftPath(gjob[g].draft)[2] = gjob[g].draft.body
      BY DEF DraftPath
    <3> QED
      BY <1>12, <3>1 DEF Saves, HandsInv
  <2>3. RecordsTrue
    <3>1. gjob[g].draft.body \in BodiesOf
      BY <1>12 DEF Saves, BodiesOf
    <3>2. saves' = [saves EXCEPT ![gjob[g].draft.body] = saves[gjob[g].draft.body] + 1]
      BY <1>12 DEF Saves
    <3>3. saves \in [BodiesOf -> Nat]
      BY DEF HandsInv
    <3>4. saves' \in [BodiesOf -> Nat]
      BY <3>1, <3>2, <3>3
    <3> QED
      BY <1>1, <1>12, <3>4 DEF Saves, HandsInv, Paired
  <2> QED
    BY <1>4, <2>1, <2>2, <2>3
<1> QED
  BY <1>5, <1>6, <1>7, <1>8, <1>9, <1>10, <1>11, <1>12

(* One retry has its hands on a copy: another that reads the text is the end of *)
(* the claim.                                                                *)
LEMMA SingleKept ==
    ASSUME GateTypes, HandsInv, NEW b \in BodiesOf, b \notin spoiled', Single(b), NEW g \in GateProcs,
           \/ Aside(g) \/ Reads(g) \/ ReadsErr(g) \/ RemovesMd(g) \/ RemovesErr(g) \/ Pairs(g)
           \/ Opens(g) \/ Saves(g)
    PROVE  Single(b)'
<1>1. Moves(g)
  BY DEF Aside, Reads, ReadsErr, RemovesMd, RemovesErr, Pairs, Opens, Saves
<1>2. \A h \in GateProcs \ {g} : gpc'[h] = gpc[h] /\ gjob'[h] = gjob[h]
  BY <1>1 DEF Moves, GateTypes
<1>3. CASE Aside(g) \/ Pairs(g) \/ Opens(g) \/ Saves(g) \/ RemovesErr(g)
  <2>1. gpc'[g] \notin Grip
    BY <1>3 DEF Aside, Pairs, Opens, Saves, RemovesErr, Grip
  <2> QED
    BY <1>2, <2>1 DEF Single
<1>4. CASE ReadsErr(g) \/ RemovesMd(g)
  <2>1. gpc[g] \in Grip /\ gjob'[g].prev = gjob[g].prev
    BY <1>4 DEF ReadsErr, RemovesMd, Grip
  <2> QED
    BY <1>2, <2>1 DEF Single
<1>5. CASE Reads(g)
  <2> DEFINE p == gjob[g].prev
  <2>1. gjob'[g].prev = p /\ (p[2] = b => Taking(p) = {})
    BY <1>5 DEF Reads
  <2>2. p[2] = b => \A h \in GateProcs : gpc[h] \in Grip => gjob[h].prev # p
    BY <2>1 DEF Taking, Working, Grip
  <2> QED
    BY <1>2, <2>1, <2>2 DEF Single
<1> QED
  BY <1>3, <1>4, <1>5

(* The error a retry has read is there until it removes it.                   *)
LEMMA PresentKept ==
    ASSUME GateTypes, HandsInv, NEW b \in BodiesOf, b \notin spoiled', Single(b), Present(b), NEW g \in GateProcs,
           \/ Aside(g) \/ Reads(g) \/ ReadsErr(g) \/ RemovesMd(g) \/ RemovesErr(g) \/ Pairs(g)
           \/ Opens(g) \/ Saves(g)
    PROVE  Present(b)'
<1>1. Moves(g)
  BY DEF Aside, Reads, ReadsErr, RemovesMd, RemovesErr, Pairs, Opens, Saves
<1>2. \A h \in GateProcs \ {g} : gpc'[h] = gpc[h] /\ gjob'[h] = gjob[h]
  BY <1>1 DEF Moves, GateTypes
<1>3. \A h \in GateProcs : gpc[h] \in Grip => gjob[h].prev \in Paths
  BY DEF GateTypes
<1>4. CASE Aside(g) \/ Pairs(g) \/ Reads(g)
  <2>1. gpc'[g] \notin {"drop md", "drop err"} /\ SameErrors
    BY <1>4 DEF Aside, Pairs, Reads, Grip
  <2> QED
    BY <1>2, <1>3, <2>1 DEF Present, Whole, SameErrors, Grip
<1>5. CASE ReadsErr(g) \/ RemovesMd(g)
  <2>1. /\ SameErrors /\ gpc[g] \in Grip /\ gjob'[g].prev = gjob[g].prev
        /\ gpc[g] = "drop md" \/ Whole(gjob[g].prev) \/ gjob[g].prev[2] \in spoiled'
    BY <1>5 DEF ReadsErr, RemovesMd, Grip
  <2>2. \A h \in GateProcs : gpc[h] \in {"drop md", "drop err"} /\ gjob[h].prev[2] = b =>
          drafts'[gjob[h].prev].err \notin {NoDraft, CutDraft}
    BY <1>2, <1>3, <2>1 DEF Present, Whole, SameErrors, Grip
  <2>3. gjob[g].prev[2] = b => drafts'[gjob[g].prev].err \notin {NoDraft, CutDraft}
    BY <1>3, <2>1 DEF Present, Whole, SameErrors
  <2> QED
    BY <1>2, <2>1, <2>2, <2>3 DEF Present, Whole
<1>6. CASE RemovesErr(g)
  <2> DEFINE p == gjob[g].prev
  <2>1. gpc[g] \in Grip /\ gpc'[g] = "d4" /\ \A q \in Paths \ {p} : drafts'[q].err = drafts[q].err
    BY <1>6 DEF RemovesErr, Grip
  <2>2. \A h \in GateProcs \ {g} : gpc[h] \in Grip /\ gjob[h].prev[2] = b => gjob[h].prev # p
    BY <2>1 DEF Single
  <2>3. \A h \in GateProcs \ {g} : gpc[h] \in {"drop md", "drop err"} /\ gjob[h].prev[2] = b =>
          drafts'[gjob[h].prev].err \notin {NoDraft, CutDraft}
    BY <1>3, <2>1, <2>2 DEF Present, Whole, Grip
  <2> QED
    BY <1>2, <2>1, <2>3 DEF Present, Whole
<1>7. CASE Opens(g)
  <2> DEFINE p == DraftPath(gjob[g].draft)
  <2>1. /\ gpc'[g] = "write err" /\ \A q \in Paths \ {p} : drafts'[q].err = drafts[q].err
        /\ Taking(p) = {} \/ p[2] \in spoiled'
    BY <1>7 DEF Opens
  <2> HIDE DEF p
  <2>2. \A h \in GateProcs : gpc[h] \in {"drop md", "drop err"} /\ gjob[h].prev[2] = b => gjob[h].prev # p
    BY <2>1 DEF Taking, Working
  <2>3. \A h \in GateProcs \ {g} : gpc[h] \in {"drop md", "drop err"} /\ gjob[h].prev[2] = b =>
          drafts'[gjob[h].prev].err \notin {NoDraft, CutDraft}
    BY <1>3, <2>1, <2>2 DEF Present, Whole, Grip
  <2> QED
    BY <1>2, <2>1, <2>3 DEF Present, Whole
<1>8. CASE Saves(g)
  <2> DEFINE d == gjob[g].draft
             p == DraftPath(d)
  <2>1. d \in Drafts /\ gpc'[g] = "idle" /\ drafts'[p].err \in {d, drafts[p].err}
        /\ \A q \in Paths \ {p} : drafts'[q].err = drafts[q].err
    BY <1>8 DEF Saves
  <2> HIDE DEF p, d
  <2>2. \A q \in Paths : drafts[q].err \notin {NoDraft, CutDraft} => drafts'[q].err \notin {NoDraft, CutDraft}
    BY <2>1, PathTexts
  <2> QED
    BY <1>2, <1>3, <2>1, <2>2 DEF Present, Whole, Grip
<1> QED
  BY <1>4, <1>5, <1>6, <1>7, <1>8

(* No failure stands for two.                                                *)
LEMMA CountsKept ==
    ASSUME GateTypes, HandsInv, NEW b \in BodiesOf, b \notin spoiled', Present(b), Counts(b), NEW g \in GateProcs,
           \/ Aside(g) \/ Reads(g) \/ ReadsErr(g) \/ RemovesMd(g) \/ RemovesErr(g) \/ Pairs(g)
           \/ Opens(g) \/ Saves(g)
    PROVE  Counts(b)'
<1> DEFINE now == Standing(b)'
<1>1. Moves(g)
  BY DEF Aside, Reads, ReadsErr, RemovesMd, RemovesErr, Pairs, Opens, Saves
<1>2. \A h \in GateProcs \ {g} : gpc'[h] = gpc[h] /\ gjob'[h] = gjob[h]
  BY <1>1 DEF Moves, GateTypes
<1>3. saves[b] \in Nat /\ IsFiniteSet(Standing(b)) /\ Cardinality(Standing(b)) <= saves[b]
  BY DEF HandsInv, Counts
<1>4. CASE Aside(g) \/ Reads(g) \/ ReadsErr(g) \/ RemovesMd(g)
  <2>1. SameErrors /\ UNCHANGED <<d4, saves>> /\ gpc'[g] # "d4"
    BY <1>4 DEF Aside, Reads, ReadsErr, RemovesMd, Grip
  <2>2. now \subseteq Standing(b)
    BY <1>2, <2>1 DEF Standing, Whole, SameErrors
  <2> HIDE DEF now
  <2>3. IsFiniteSet(now) /\ Cardinality(now) <= saves[b]
    BY <1>3, <2>2, FewerStand
  <2> QED
    BY <2>1, <2>3 DEF Counts, now
<1>5. CASE RemovesErr(g)
  <2> DEFINE p == gjob[g].prev
  <2>1. /\ gpc[g] = "drop err" /\ p \in Paths /\ UNCHANGED <<d4, saves, gjob>>
        /\ \A q \in Paths \ {p} : drafts'[q].err = drafts[q].err
        /\ drafts'[p].err = NoDraft \/ (SameErrors /\ p[2] \in spoiled')
        /\ gjob[g].failing \in {p[2], Cut}
    BY <1>5 DEF RemovesErr, HandsInv, Grip
  <2>2. CASE p[2] # b
    <3>1. \A q \in Paths : Whole(q)' => Whole(q)
      BY <2>1 DEF Whole, SameErrors
    <3>2. \A h \in GateProcs : gpc'[h] = "d4" /\ gjob'[h].failing = b => gpc[h] = "d4" /\ gjob[h].failing = b
      BY <1>2, <2>1, <2>2, TextAssumption
    <3>3. UNCHANGED d4
      BY <2>1
    <3>4. now \subseteq Standing(b)
      BY <3>1, <3>2, <3>3 DEF Standing
    <3> HIDE DEF now
    <3>5. IsFiniteSet(now) /\ Cardinality(now) <= saves[b]
      BY <1>3, <3>4, FewerStand
    <3> QED
      BY <2>1, <3>5 DEF Counts, now
  <2>3. CASE p[2] = b
    <3>1. drafts'[p].err = NoDraft /\ Whole(p)
      BY <2>1, <2>3 DEF Present
    <3>2. <<"copy", p>> \in Standing(b)
      BY <2>1, <2>3, <3>1 DEF Standing
    <3>3. \A q \in Paths : Whole(q)' => Whole(q) /\ q # p
      BY <2>1, <3>1 DEF Whole
    <3>4. \A h \in GateProcs : gpc'[h] = "d4" /\ gjob'[h].failing = b =>
            h = g \/ (gpc[h] = "d4" /\ gjob[h].failing = b)
      BY <1>2
    <3>5. UNCHANGED d4
      BY <2>1
    <3> HIDE DEF p
    <3>6. now \subseteq (Standing(b) \ {<<"copy", p>>}) \cup {<<"gate", g>>}
      BY <3>3, <3>4, <3>5 DEF Standing
    <3> HIDE DEF now
    <3>7. IsFiniteSet(now) /\ Cardinality(now) <= saves[b]
      BY <1>3, <3>2, <3>6, OneForAnother
    <3> QED
      BY <2>1, <3>7 DEF Counts, now
  <2> QED
    BY <2>2, <2>3
<1>6. CASE Pairs(g)
  <2> DEFINE n == Len(d4) + 1
  <2>1. SameErrors /\ UNCHANGED <<saves, gjob>> /\ gpc[g] = "d4" /\ gpc'[g] = "d5"
    BY <1>6 DEF Pairs
  <2>2. \/ UNCHANGED d4
        \/ /\ DOMAIN d4' \subseteq DOMAIN d4 \cup {n} /\ d4'[n].failing = gjob[g].failing
           /\ \A i \in DOMAIN d4 : d4'[i] = d4[i]
    <3>1. SUFFICES ASSUME ~UNCHANGED d4
                   PROVE  /\ DOMAIN d4' \subseteq DOMAIN d4 \cup {n} /\ d4'[n].failing = gjob[g].failing
                          /\ \A i \in DOMAIN d4 : d4'[i] = d4[i]
      OBVIOUS
    <3>2. PICK f \in BodiesOf :
            d4' = Append(d4, [failing |-> gjob[g].failing, error |-> gjob[g].error, fixed |-> f])
      BY <1>6, <3>1 DEF Pairs
    <3> DEFINE rec == [failing |-> gjob[g].failing, error |-> gjob[g].error, fixed |-> f]
    <3>3. rec \in RepairRecords /\ rec.failing = gjob[g].failing
      BY DEF RepairRecords, GateTypes, GateJobs
    <3>4. d4' = Append(d4, rec) /\ d4 \in Seq(RepairRecords)
      BY <3>2 DEF HandsInv
    <3> HIDE DEF rec
    <3>5. /\ d4' \in Seq(RepairRecords) /\ Len(d4') = n /\ d4'[n] = rec
          /\ \A i \in 1..Len(d4) : d4'[i] = d4[i]
      BY <3>3, <3>4, AppendProperties
    <3>6. DOMAIN d4' = 1..(Len(d4) + 1) /\ DOMAIN d4 = 1..Len(d4) /\ Len(d4) \in Nat
      BY <3>4, <3>5, LenProperties
    <3> QED
      BY <3>3, <3>5, <3>6
  <2> HIDE DEF n
  <2>3. CASE gjob[g].failing = b
    <3>1. <<"gate", g>> \in Standing(b)
      BY <2>1, <2>3 DEF Standing
    <3>2. now \subseteq (Standing(b) \ {<<"gate", g>>}) \cup {<<"record", n>>}
      BY <1>2, <2>1, <2>2 DEF Standing, Whole, SameErrors
    <3> HIDE DEF now
    <3>3. IsFiniteSet(now) /\ Cardinality(now) <= saves[b]
      BY <1>3, <3>1, <3>2, OneForAnother
    <3> QED
      BY <2>1, <3>3 DEF Counts, now
  <2>4. CASE gjob[g].failing # b
    <3>1. now \subseteq Standing(b)
      BY <1>2, <2>1, <2>2, <2>4 DEF Standing, Whole, SameErrors
    <3> HIDE DEF now
    <3>2. IsFiniteSet(now) /\ Cardinality(now) <= saves[b]
      BY <1>3, <3>1, FewerStand
    <3> QED
      BY <2>1, <3>2 DEF Counts, now
  <2> QED
    BY <2>3, <2>4
<1>7. CASE Opens(g)
  <2> DEFINE p == DraftPath(gjob[g].draft)
  <2>1. /\ gpc'[g] = "write err" /\ UNCHANGED <<d4, saves>> /\ drafts'[p].err = CutDraft
        /\ \A q \in Paths \ {p} : drafts'[q].err = drafts[q].err
    BY <1>7 DEF Opens
  <2> HIDE DEF p
  <2>2. now \subseteq Standing(b)
    BY <1>2, <2>1 DEF Standing, Whole
  <2> HIDE DEF now
  <2>3. IsFiniteSet(now) /\ Cardinality(now) <= saves[b]
    BY <1>3, <2>2, FewerStand
  <2> QED
    BY <2>1, <2>3 DEF Counts, now
<1>8. CASE Saves(g)
  <2> DEFINE p == DraftPath(gjob[g].draft)
             c == gjob[g].draft.body
  <2>1. /\ p \in Paths /\ p[2] = c /\ c \in BodiesOf /\ gpc'[g] = "idle" /\ UNCHANGED d4
        /\ \A q \in Paths \ {p} : drafts'[q].err = drafts[q].err
        /\ saves' = [saves EXCEPT ![c] = saves[c] + 1]
    BY <1>8 DEF Saves, DraftPath, BodiesOf
  <2> HIDE DEF p, c
  <2>2. saves \in [BodiesOf -> Nat]
    BY DEF HandsInv
  <2>3. CASE c = b
    <3>1. now \subseteq Standing(b) \cup {<<"copy", p>>}
      BY <1>2, <2>1 DEF Standing, Whole
    <3> HIDE DEF now
    <3>2. IsFiniteSet(now) /\ Cardinality(now) <= saves[b] + 1
      BY <1>3, <3>1, OneMoreStands
    <3>3. saves'[b] = saves[b] + 1
      BY <2>1, <2>2, <2>3
    <3> QED
      BY <3>2, <3>3 DEF Counts, now
  <2>4. CASE c # b
    <3>1. now \subseteq Standing(b)
      BY <1>2, <2>1, <2>4 DEF Standing, Whole
    <3> HIDE DEF now
    <3>2. IsFiniteSet(now) /\ Cardinality(now) <= saves[b]
      BY <1>3, <3>1, FewerStand
    <3>3. saves'[b] = saves[b]
      BY <2>1, <2>2, <2>4
    <3> QED
      BY <3>2, <3>3 DEF Counts, now
  <2> QED
    BY <2>3, <2>4
<1> QED
  BY <1>4, <1>5, <1>6, <1>7, <1>8

(* A record stands for a failure.                                            *)
LEMMA RecordsStand ==
    ASSUME NEW b, IsFiniteSet(Standing(b))
    PROVE  Cardinality({i \in DOMAIN d4 : d4[i].failing = b}) <= Cardinality(Standing(b))
<1> DEFINE of == {i \in DOMAIN d4 : d4[i].failing = b}
           f == [i \in of |-> <<"record", i>>]
<1>1. f \in [of -> Standing(b)]
  BY DEF Standing
<1>2. \A i, j \in of : f[i] = f[j] => i = j
  OBVIOUS
<1>3. f \in Injection(of, Standing(b))
  BY <1>1, <1>2 DEF Injection, IsInjective
<1> HIDE DEF of, f
<1>4. Cardinality(of) <= Cardinality(Standing(b))
  BY <1>3, FS_Injection
<1> QED
  BY <1>4 DEF of

(* D4 pairs the text of a draft with a failure of that very text, and no failure *)
(* is paired twice: unless a command touched a copy that another held, a write of *)
(* it was cut short, or it refused to go, where either file may have been read     *)
(* before it was written (d4_drafts.go:34-36).                                 *)
THEOREM RepairsAlwaysReal == Spec => []RepairsAreReal
<1>1. Init => RepairInv
  <2> SUFFICES ASSUME Init PROVE RepairInv
    OBVIOUS
  <2>1. HandsInv
    BY DEF Init, GateRunInit, HandsInv, NoFile, Grip
  <2>2. ASSUME NEW b \in BodiesOf PROVE Single(b) /\ Present(b) /\ Counts(b)
    <3>1. Standing(b) = {}
      BY DEF Init, GateRunInit, Standing, Whole, NoFile
    <3>2. Counts(b)
      BY <3>1, FS_EmptySet DEF Counts, Init, GateRunInit
    <3> QED
      BY <3>2 DEF Init, GateRunInit, Single, Present, Grip
  <2> QED
    BY <2>1, <2>2 DEF RepairInv
<1>2. GateTypes /\ KeptInv /\ CutInv /\ RepairInv /\ [Next]_vars => RepairInv'
  <2> SUFFICES ASSUME GateTypes, KeptInv, CutInv, RepairInv, [Next]_vars PROVE RepairInv'
    OBVIOUS
  <2>1. CASE UNCHANGED gateVars
    BY <2>1 DEF gateVars, RepairInv, HandsInv, Paired, Single, Present, Counts, Standing, Whole
  <2>2. ASSUME NEW g \in GateProcs,
               \/ Aside(g) \/ Reads(g) \/ ReadsErr(g) \/ RemovesMd(g) \/ RemovesErr(g)
               \/ Pairs(g) \/ Opens(g) \/ Saves(g)
        PROVE  RepairInv'
    <3>1. HandsInv /\ HandsInv'
      BY <2>2, HandsKept DEF RepairInv
    <3>2. spoiled \subseteq spoiled'
      BY <2>2 DEF Aside, Reads, ReadsErr, RemovesMd, RemovesErr, Pairs, Opens, Saves, Moves
    <3>3. ASSUME NEW b \in BodiesOf \ spoiled' PROVE (Single(b) /\ Present(b) /\ Counts(b))'
      <4>1. Single(b) /\ Present(b) /\ Counts(b)
        BY <3>2, <3>3 DEF RepairInv
      <4> QED
        BY <2>2, <3>1, <3>3, <4>1, SingleKept, PresentKept, CountsKept
    <3> QED
      BY <3>1, <3>3 DEF RepairInv
  <2> QED
    BY <2>1, <2>2, RepairSteps
<1>3. RepairInv => RepairsAreReal
  <2>0. RepairInv => \A i \in DOMAIN d4 : d4[i].failing \in BodiesOf \/ BodiesOf \cap spoiled # {}
    BY DEF RepairInv, HandsInv, Paired
  <2> SUFFICES ASSUME RepairInv, NEW b \in BodiesOf
               PROVE  LET of == {i \in DOMAIN d4 : d4[i].failing = b}
                      IN  /\ \A i \in of : d4[i].error.body = b \/ (b \in spoiled /\ d4[i].error = CutDraft)
                          /\ b \notin spoiled => Cardinality(of) <= saves[b]
    BY <2>0 DEF RepairsAreReal
  <2> DEFINE of == {i \in DOMAIN d4 : d4[i].failing = b}
  <2>1. \A i \in of : d4[i].error.body = b \/ (b \in spoiled /\ d4[i].error = CutDraft)
    BY DEF RepairInv, HandsInv, Paired
  <2>2. ASSUME b \notin spoiled PROVE Cardinality(of) <= saves[b]
    <3>1. IsFiniteSet(Standing(b)) /\ Cardinality(Standing(b)) <= saves[b] /\ saves[b] \in Nat
      BY <2>2 DEF RepairInv, HandsInv, Counts
    <3>2. Cardinality(of) <= Cardinality(Standing(b))
      BY <3>1, RecordsStand
    <3>3. IsFiniteSet(of)
      <4>1. IsFiniteSet(DOMAIN d4)
        <5>1. d4 \in Seq(RepairRecords)
          BY DEF RepairInv, HandsInv
        <5>2. DOMAIN d4 = 1..Len(d4) /\ Len(d4) \in Nat
          BY <5>1, LenProperties
        <5> QED
          BY <5>2, FS_Interval
      <4> QED
        BY <4>1, FS_Subset
    <3> HIDE DEF of
    <3> QED
      BY <3>1, <3>2, <3>3, FS_CardinalityType
  <2> QED
    BY <2>1, <2>2
<1>4. Spec => []KeptInv
  BY TextsKept
<1> QED
  BY <1>1, <1>2, <1>3, <1>4, CutsSpoil, GatesTyped, PTL DEF Spec

=============================================================================
