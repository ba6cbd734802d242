---------------------------- MODULE SessionCapture ----------------------------
(***************************************************************************)
(* forge session-capture (cmd/forge/session_capture.go): at the end of a    *)
(* session - and again when a resumed one ends - each conclusion of its      *)
(* transcript that .forge/session-capture-seen.json does not name becomes a  *)
(* stub in _inbox/, MaxStubs at most.                                       *)
(***************************************************************************)
EXTENDS Inbox, Sequences, SequencesExt

CONSTANTS Sessions,
          Said,          \* Said[s]: the conclusions of session s, in order
          StubSlug,      \* StubSlug[c]: the slug of its stub, from the text alone
          Hooks,         \* processes of forge session-capture
          MaxStubs, MaxFirings, MaxMishaps

VARIABLES seenFile,      \* the keys in the file; none, if it is missing or does not parse
          hpc, hjob,     \* the processes and their local variables
          firings, mishaps,   \* counters for the bounds
          stubbed,       \* stubbed[k]: how often the stub of key k was written
          stubs,         \* stubs[h]: how many stubs h has written
          disturbed,     \* keys a second process, a fault or a lost file may repeat
          quiet          \* quiet[h]: nothing but h has been at work since it began

captureVars == <<seenFile, hpc, hjob, firings, mishaps, stubbed, stubs, disturbed, quiet>>

Conclusions == UNION {ToSet(Said[s]) : s \in Sessions}
Keys == Sessions \X Conclusions
ASSUME SaidAssumption ==
    /\ \A s \in Sessions : Said[s] \in Seq(Conclusions)
    /\ MaxStubs \in Nat

NoHook == [session |-> "none", todo |-> << >>, seen |-> {}, written |-> 0]

CaptureInit ==
    /\ seenFile = {} /\ hpc = [h \in Hooks |-> "idle"] /\ hjob = [h \in Hooks |-> NoHook]
    /\ firings = 0 /\ mishaps = 0
    /\ stubbed = [k \in Keys |-> 0] /\ stubs = [h \in Hooks |-> 0] /\ disturbed = {}
    /\ quiet = [h \in Hooks |-> TRUE]

GoTo(h, l) == hpc' = [hpc EXCEPT ![h] = l]
AtWork == {h \in Hooks : hpc[h] # "idle"}
Mishap == mishaps < MaxMishaps /\ mishaps' = mishaps + 1
KeyOf(h, c) == <<hjob[h].session, c>>

(* Mutant: a firing begins with what it sees itself.                       *)
LoadNothing == {}

LoadSeen == seenFile

(* captureSession: the transcript is read, then the keys.                   *)
Fire ==
    \E h \in Hooks, s \in Sessions :
        /\ hpc[h] = "idle" /\ firings < MaxFirings
        /\ firings' = firings + 1
        /\ hjob' = [hjob EXCEPT ![h] = [session |-> s, todo |-> Said[s], seen |-> LoadSeen, written |-> 0]]
        /\ GoTo(h, "scan")
        /\ quiet' = [k \in Hooks |-> IF k = h THEN AtWork = {} ELSE quiet[k] /\ k \notin AtWork]
        /\ disturbed' = IF AtWork = {} THEN disturbed ELSE Keys
        /\ UNCHANGED <<inboxVars, seenFile, mishaps, stubbed, stubs>>

Counted(j, isNew) == [j EXCEPT !.todo = Tail(@), !.written = IF isNew THEN @ + 1 ELSE @]

Left(h) == hjob[h].todo # << >> /\ hjob[h].written < MaxStubs

SkipSeen(h) ==
    /\ hpc[h] = "scan" /\ Left(h)
    /\ KeyOf(h, Head(hjob[h].todo)) \in hjob[h].seen
    /\ hjob' = [hjob EXCEPT ![h] = Counted(@, FALSE)]
    /\ UNCHANGED <<inboxVars, seenFile, hpc, firings, mishaps, stubbed, stubs, disturbed, quiet>>

Remembering(j, k) == [j EXCEPT !.seen = @ \cup {k}]

(* writeStub, and the key with it.                                          *)
WriteStub(h) ==
    LET c == Head(hjob[h].todo)
        k == KeyOf(h, c)
    IN  /\ hpc[h] = "scan" /\ Left(h) /\ k \notin hjob[h].seen
        /\ WriteToInbox(StubSlug[c], c)
        /\ hjob' = [hjob EXCEPT ![h] = Remembering(Counted(@, TRUE), k)]
        /\ stubbed' = [stubbed EXCEPT ![k] = @ + 1] /\ stubs' = [stubs EXCEPT ![h] = @ + 1]
        /\ UNCHANGED <<edits, seenFile, hpc, firings, mishaps, disturbed, quiet>>

(* Mutant: the key is kept though the stub was not written.                *)
AfterFailureMarked(h, k) == Remembering(Counted(hjob[h], FALSE), k)

AfterFailure(h, k) == Counted(hjob[h], FALSE)

StubFails(h) ==
    LET c == Head(hjob[h].todo)
        k == KeyOf(h, c)
    IN  /\ hpc[h] = "scan" /\ Left(h) /\ k \notin hjob[h].seen
        /\ Mishap /\ WriteTears(StubSlug[c])
        /\ hjob' = [hjob EXCEPT ![h] = AfterFailure(h, k)]
        /\ quiet' = [quiet EXCEPT ![h] = FALSE]
        /\ UNCHANGED <<edits, seenFile, hpc, firings, stubbed, stubs, disturbed>>

(* saveSeen, where something was written: the file is truncated, written.   *)
Truncate(h) ==
    /\ hpc[h] = "scan" /\ ~Left(h) /\ hjob[h].written > 0
    /\ seenFile' = {}
    /\ GoTo(h, "save")
    /\ UNCHANGED <<inboxVars, hjob, firings, mishaps, stubbed, stubs, disturbed, quiet>>

Save(h) ==
    /\ hpc[h] = "save"
    /\ seenFile' = hjob[h].seen
    /\ GoTo(h, "done")
    /\ UNCHANGED <<inboxVars, hjob, firings, mishaps, stubbed, stubs, disturbed, quiet>>

SaveNothing(h) ==
    /\ hpc[h] = "scan" /\ ~Left(h) /\ hjob[h].written = 0
    /\ GoTo(h, "done")
    /\ UNCHANGED <<inboxVars, seenFile, hjob, firings, mishaps, stubbed, stubs, disturbed, quiet>>

Leave(h) ==
    /\ hpc[h] = "done"
    /\ GoTo(h, "idle") /\ hjob' = [hjob EXCEPT ![h] = NoHook]
    /\ stubs' = [stubs EXCEPT ![h] = 0]
    /\ UNCHANGED <<inboxVars, seenFile, firings, mishaps, stubbed, disturbed, quiet>>

(* The hook is killed or cannot write the file; .forge/, which is derived,   *)
(* is deleted.  What was done for the keys may then be done again.           *)
HookKilled ==
    /\ Mishap
    /\ \E h \in AtWork :
        /\ GoTo(h, "idle") /\ hjob' = [hjob EXCEPT ![h] = NoHook]
        /\ stubs' = [stubs EXCEPT ![h] = 0]
    /\ disturbed' = Keys
    /\ UNCHANGED <<inboxVars, seenFile, firings, stubbed, quiet>>

SeenLost ==
    /\ Mishap
    /\ seenFile' = {}
    /\ disturbed' = Keys
    /\ quiet' = [h \in Hooks |-> quiet[h] /\ h \notin AtWork]
    /\ UNCHANGED <<inboxVars, hpc, hjob, firings, stubbed, stubs>>

CaptureNext ==
    \/ Fire \/ HookKilled \/ SeenLost
    \/ \E h \in Hooks : SkipSeen(h) \/ WriteStub(h) \/ StubFails(h)
                        \/ Truncate(h) \/ Save(h) \/ SaveNothing(h) \/ Leave(h)

-----------------------------------------------------------------------------
(* A conclusion the file calls seen has been written: neither a failing      *)
(* write nor a kill, nor two hooks that save over each other, makes one        *)
(* vanish without its stub.                                                   *)
SeenWasStubbed == \A k \in seenFile : stubbed[k] > 0

(* "Deduped by session id + content hash" (session_capture.go:28): a resumed *)
(* session that fires again writes no stub a second time, unless two hooks     *)
(* overlapped, one was killed, or the file was lost.                          *)
StubbedOnce == \A k \in Keys \ disturbed : stubbed[k] <= 1

(* The cap loses nothing: a firing that nothing disturbed ends with all that *)
(* the session concluded captured, or with MaxStubs new stubs, so that a        *)
(* session with more is captured as often as it is resumed.                    *)
FiringAdvances ==
    \A h \in Hooks :
        hpc[h] = "done" /\ quiet[h] =>
            \/ stubs[h] = MaxStubs
            \/ \A i \in DOMAIN Said[hjob[h].session] : <<hjob[h].session, Said[hjob[h].session][i]>> \in seenFile

(* "This is derived cache, not source of truth, so losing it costs duplicate *)
(* stubs, not data" (session_capture.go:183-184): no firing undoes what a       *)
(* person has done to a stub.                                                *)
CaptureCostsNoData ==
    [][\A h \in Hooks : WriteStub(h) =>
          \A s \in Slugs : inbox[s].edited => inbox'[s] = inbox[s]]_<<inboxVars, captureVars>>
=============================================================================
