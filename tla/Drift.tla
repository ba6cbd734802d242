------------------------------- MODULE Drift -------------------------------
(***************************************************************************)
(* forge drift --apply as it runs: git moves HEAD in a code repository,    *)
(* the hook starts a run for that repository, and the run reads the notes, *)
(* evaluates the citations behind the cheap gate, opens .forge/demotions   *)
(* .json, rewrites notes one by one and saves the store at the end.  Each  *)
(* of those is a step of its own, because each is a separate file          *)
(* operation and nothing locks the vault: the hooks of two repositories, a *)
(* sweep started by hand and the authors all share it.                     *)
(*                                                                         *)
(* cmd/forge/drift.go (runDrift to gateOf), pkg/drift/apply.go and         *)
(* demotions.go, pkg/vault/write.go, hooks/code-post-*.                    *)
(***************************************************************************)
EXTENDS DriftVerdict, Sequences

CONSTANTS
    Sweepers,   \* runs started by hand with no --since-commit, over every repository
    Deep,       \* those of them that are given --deep, which `forge drift` leaves out by default
    Slugs,      \* keys of the demotion store
    Slug,       \* the slug of each note
    Levels,     \* confidence levels, Low among them
    Low,
    Blank,      \* a note without a confidence
    None,       \* no record under a slug
    NoHook,     \* no hook of a repository is due
    FirstTree,  \* the tree the notes were written and verified against
    FirstConf,  \* the confidences the notes start with
    Quiet,      \* whether all else rests while a run is in progress
    \* Bounds: commits beside the first one of each repository, commits on a chain, re-ratings
    \* by authors, failures, and what hooks and deep sweeps do not see: a move of HEAD that no
    \* hook's range covers, a sweep that is blind to deleted files.
    MaxHeads, MaxLog, MaxEdits, MaxFaults, MaxGaps

Runners == Repos \cup Sweepers
Confs == Levels \cup {Blank}
Debts == Levels \cup {Blank, None}
FilesOf(r) == {f \in Files : RepoOf[f] = r}
RepoTree(r) == [FilesOf(r) -> FileState]
Verdicts == {"none", "skipped", "clean", "broken"}

ASSUME DriftAssumption ==
    /\ Repos \cap Sweepers = {}
    /\ Deep \subseteq Sweepers
    /\ Slug \in [Notes -> Slugs]
    /\ Low \in Levels /\ Blank \notin Levels /\ None \notin Confs
    /\ \A r \in Repos : NoHook \notin RepoTree(r)
    /\ FirstTree \in Tree
    /\ FirstConf \in [Notes -> Confs]
    /\ Quiet \in BOOLEAN
    /\ \A b \in {MaxHeads, MaxLog, MaxEdits, MaxFaults, MaxGaps} : b \in Nat

VARIABLES
    \* git
    log,      \* the first-parent chain of each repository's HEAD
    heads,    \* the last commit id handed out
    since,    \* per repository, the tree the due hook will diff against, or NoHook
    \* the vault
    conf,     \* confidence in each note's frontmatter
    checked,  \* drift_checked_at in each note's frontmatter, 0 for none
    store,    \* .forge/demotions.json: the remembered confidence per slug
    \* each run
    pc,       \* "idle", "evaluated" (verdicts in hand), "apply" (store open)
    seen,     \* the frontmatter each run loaded
    found,    \* what Check found per note
    at,       \* the HEAD ids the run read
    mem,      \* its copy of the store
    dirty,    \* whether that copy was changed
    todo,     \* the evaluated notes it has still to apply
    \* bookkeeping of the model
    held,     \* every confidence authors gave each note
    edits, faults, gaps

git   == <<log, heads, since>>
vault == <<conf, checked, store>>
run   == <<pc, seen, found, at, mem, dirty, todo>>
count == <<held, edits, faults, gaps>>
vars  == <<git, vault, run, count>>

HeadOf(r) == log[r][Len(log[r])]
HeadTree(r) == HeadOf(r).tree
Now  == [f \in Files |-> HeadTree(RepoOf[f])[f]]
Base == [f \in Files |-> log[RepoOf[f]][1].tree[f]]

NoStore == [s \in Slugs |-> None]
Unread  == [n \in Notes |-> [conf |-> Blank, checked |-> 0]]

Init ==
    /\ log = [r \in Repos |-> <<[id |-> 1, tree |-> [f \in FilesOf(r) |-> FirstTree[f]]]>>]
    /\ heads = 1
    /\ since = [r \in Repos |-> NoHook]
    /\ conf = FirstConf
    /\ checked = [n \in Notes |-> 0]
    /\ store = NoStore
    /\ pc = [p \in Runners |-> "idle"]
    /\ seen = [p \in Runners |-> Unread]
    /\ found = [p \in Runners |-> [n \in Notes |-> "none"]]
    /\ at = [p \in Runners |-> {}]
    /\ mem = [p \in Runners |-> NoStore]
    /\ dirty = [p \in Runners |-> FALSE]
    /\ todo = [p \in Runners |-> {}]
    /\ held = [n \in Notes |-> {FirstConf[n]}]
    /\ edits = 0 /\ faults = 0 /\ gaps = 0

Undisturbed == Quiet => \A p \in Runners : pc[p] = "idle"

-----------------------------------------------------------------------------
(***************************************************************************)
(* Git.  A command that moves HEAD waits for its hook, so HEAD of one      *)
(* repository stands still from the move to the end of the run.            *)
(***************************************************************************)
GitFree(r) == since[r] = NoHook /\ pc[r] = "idle" /\ Undisturbed

\* commit, revert or merge: post-commit diffs against HEAD^, post-merge against ORIG_HEAD,
\* and both are the HEAD that was.
Commit(r) ==
    /\ GitFree(r) /\ heads <= MaxHeads /\ Len(log[r]) < MaxLog
    /\ \E t \in RepoTree(r) \ {HeadTree(r)} :
         log' = [log EXCEPT ![r] = Append(@, [id |-> heads + 1, tree |-> t])]
    /\ heads' = heads + 1
    /\ since' = [since EXCEPT ![r] = HeadTree(r)]
    /\ UNCHANGED <<vault, run, count>>

\* Going back to the parent commit: post-checkout diffs against the HEAD that was.
Checkout(r) ==
    /\ GitFree(r) /\ Len(log[r]) > 1
    /\ log' = [log EXCEPT ![r] = SubSeq(@, 1, Len(@) - 1)]
    /\ since' = [since EXCEPT ![r] = HeadTree(r)]
    /\ UNCHANGED <<heads, vault, run, count>>

\* commit --amend: post-commit diffs against HEAD^, which is not the HEAD that was.
Amend(r) ==
    /\ GitFree(r) /\ heads <= MaxHeads /\ Len(log[r]) > 1 /\ gaps < MaxGaps
    /\ \E t \in RepoTree(r) \ {HeadTree(r)} :
         log' = [log EXCEPT ![r][Len(log[r])] = [id |-> heads + 1, tree |-> t]]
    /\ heads' = heads + 1
    /\ gaps' = gaps + 1
    /\ since' = [since EXCEPT ![r] = log[r][Len(log[r]) - 1].tree]
    /\ UNCHANGED <<vault, run, held, edits, faults>>

\* reset --hard HEAD^ runs no hook at all.
Reset(r) ==
    /\ GitFree(r) /\ Len(log[r]) > 1 /\ gaps < MaxGaps
    /\ log' = [log EXCEPT ![r] = SubSeq(@, 1, Len(@) - 1)]
    /\ gaps' = gaps + 1
    /\ UNCHANGED <<heads, since, vault, run, held, edits, faults>>

\* The hook exits early: no forge on the machine, no vault-path file.
MissHook(r) ==
    /\ since[r] # NoHook /\ pc[r] = "idle" /\ gaps < MaxGaps
    /\ since' = [since EXCEPT ![r] = NoHook]
    /\ gaps' = gaps + 1
    /\ UNCHANGED <<log, heads, vault, run, held, edits, faults>>

-----------------------------------------------------------------------------
(***************************************************************************)
(* A run.                                                                  *)
(***************************************************************************)
ReposOf(p) == IF p \in Repos THEN {p} ELSE Repos

\* The tree a hook diffs against, over the one it finds.
Anchor(p) == [f \in Files |-> IF RepoOf[f] = p THEN since[p][f] ELSE Now[f]]

\* Mutant: a deletion is gated like an edit and leaves no evidence of its own.
GateForNameOnly(p) ==
    IF p \in Repos THEN [GateOf(Anchor(p), Now, {p}) EXCEPT !.deleted = {}] ELSE FullSweep

GateFor(p) == IF p \in Repos THEN GateOf(Anchor(p), Now, {p}) ELSE FullSweep

\* Whether a run can tell a deleted path from one this machine never had: a hook by the
\* deletion in its gate, a sweep by the tree of the note's date, and with --deep only.
Sees(p, n) == p \in Repos \/ (p \in Deep /\ n \in Verified)
SeesAll(p) == \A n \in Notes : Sees(p, n)

\* loadNotes, gateOf and Check: the notes are read, then every citation is evaluated.
Evaluate(p) ==
    /\ pc[p] = "idle" /\ Undisturbed
    /\ p \in Repos => since[p] # NoHook
    /\ LET verdict == [n \in Notes |-> Outcome(n, Now, Base, ReposOf(p), GateFor(p), p \in Deep)]
       IN  /\ found' = [found EXCEPT ![p] = verdict]
           /\ todo' = [todo EXCEPT ![p] = {n \in Notes : verdict[n] # "none"}]
    /\ seen' = [seen EXCEPT ![p] = [n \in Notes |-> [conf |-> conf[n], checked |-> checked[n]]]]
    /\ at' = [at EXCEPT ![p] = {HeadOf(r).id : r \in ReposOf(p)}]
    /\ pc' = [pc EXCEPT ![p] = "evaluated"]
    /\ SeesAll(p) \/ gaps < MaxGaps
    /\ gaps' = IF SeesAll(p) THEN gaps ELSE gaps + 1
    /\ UNCHANGED <<git, vault, mem, dirty, held, edits, faults>>

OpenStore(p) ==
    /\ pc[p] = "evaluated"
    /\ mem' = [mem EXCEPT ![p] = store]
    /\ dirty' = [dirty EXCEPT ![p] = FALSE]
    /\ pc' = [pc EXCEPT ![p] = "apply"]
    /\ UNCHANGED <<git, vault, seen, found, at, todo, count>>

\* The note Apply takes next: rels are sorted.
NextNote(p, n) == pc[p] = "apply" /\ n \in todo[p] /\ \A m \in todo[p] : n <= m

\* HEAD of a repository outside the vault's, for a sweep that is started in one.
Elsewhere == MaxHeads + 2

\* HEAD of the repository of the note's first finding that names one.  Where none does, git is
\* asked with no path and answers for the directory the run was started in: a hook's own
\* repository, and any, or none at all, for a sweep.
HeadFor(p, n) ==
    IF found[p][n] = "skipped" /\ p \in Sweepers THEN at[p] \cup {0, Elsewhere} ELSE at[p]

\* Apply's only question: BROKEN or not; that nothing could be adjudicated is "not".
NotBroken(p, n) == found[p][n] \in {"clean", "skipped"}

\* SetScalars: the whole frontmatter goes back to disk, or the write fails.
Write(n, c, head) ==
    \/ /\ conf' = [conf EXCEPT ![n] = c]
       /\ checked' = [checked EXCEPT ![n] = head]
       /\ UNCHANGED faults
    \/ /\ faults < MaxFaults
       /\ faults' = faults + 1
       /\ UNCHANGED <<conf, checked>>

\* Nothing to move: drift_checked_at is brought up to date, and with it the frontmatter as
\* it was loaded is written back.
Stamp(p, n) ==
    \E head \in HeadFor(p, n) :
        IF head \in {0, seen[p][n].checked} THEN UNCHANGED <<conf, checked, faults>>
        ELSE Write(n, seen[p][n].conf, head)

\* Mutant: the confidence is remembered after the note was written, when it is low.
RecordLate(p, n) == mem' = [mem EXCEPT ![p][Slug[n]] = Low]
\* Mutant: Take returns the record and leaves it there.
Peek(p, n) == UNCHANGED mem

Record(p, n) == mem' = [mem EXCEPT ![p][Slug[n]] = seen[p][n].conf]
Forget(p, n) == mem' = [mem EXCEPT ![p][Slug[n]] = None]

Applied(p, n) ==
    /\ todo' = [todo EXCEPT ![p] = @ \ {n}]
    /\ UNCHANGED <<git, store, pc, seen, found, at, held, edits, gaps>>

\* Whether demote has anything to move: the note is not down already, nor remembered.
Demotable(p, n) == seen[p][n].conf \notin {Low, Blank} /\ mem[p][Slug[n]] = None

Demote(p, n) ==
    /\ NextNote(p, n) /\ found[p][n] = "broken" /\ Demotable(p, n)
    /\ Record(p, n)
    /\ dirty' = [dirty EXCEPT ![p] = TRUE]
    /\ \E head \in HeadFor(p, n) : Write(n, Low, head)
    /\ Applied(p, n)

LeaveDown(p, n) ==
    /\ NextNote(p, n) /\ found[p][n] = "broken" /\ ~Demotable(p, n)
    /\ Stamp(p, n)
    /\ Applied(p, n)
    /\ UNCHANGED <<mem, dirty>>

\* Mutant: Take does not mark the store for saving.
RestoreUnsaved(p, n) ==
    /\ NextNote(p, n) /\ NotBroken(p, n) /\ mem[p][Slug[n]] # None
    /\ Forget(p, n)
    /\ \E head \in HeadFor(p, n) : Write(n, mem[p][Slug[n]], head)
    /\ Applied(p, n)
    /\ UNCHANGED dirty

\* Mutant: a restored note gets some level above low, not the remembered one.
RestoreDefault(p, n) ==
    /\ NextNote(p, n) /\ NotBroken(p, n) /\ mem[p][Slug[n]] # None
    /\ Forget(p, n)
    /\ dirty' = [dirty EXCEPT ![p] = TRUE]
    /\ \E head \in HeadFor(p, n), c \in Levels \ {Low} : Write(n, c, head)
    /\ Applied(p, n)

Restore(p, n) ==
    /\ NextNote(p, n) /\ NotBroken(p, n) /\ mem[p][Slug[n]] # None
    /\ Forget(p, n)
    /\ dirty' = [dirty EXCEPT ![p] = TRUE]
    /\ \E head \in HeadFor(p, n) : Write(n, mem[p][Slug[n]], head)
    /\ Applied(p, n)

LeaveUp(p, n) ==
    /\ NextNote(p, n) /\ NotBroken(p, n) /\ mem[p][Slug[n]] = None
    /\ Stamp(p, n)
    /\ Applied(p, n)
    /\ UNCHANGED <<mem, dirty>>

\* The run's process is gone, and with it the hook that started it.
Ended(p) ==
    /\ pc' = [pc EXCEPT ![p] = "idle"]
    /\ seen' = [seen EXCEPT ![p] = Unread]
    /\ found' = [found EXCEPT ![p] = [n \in Notes |-> "none"]]
    /\ at' = [at EXCEPT ![p] = {}]
    /\ mem' = [mem EXCEPT ![p] = NoStore]
    /\ dirty' = [dirty EXCEPT ![p] = FALSE]
    /\ todo' = [todo EXCEPT ![p] = {}]
    /\ since' = IF p \in Repos THEN [since EXCEPT ![p] = NoHook] ELSE since

\* Save: one write of the whole store, skipped when nothing changed.
Save(p) ==
    /\ pc[p] = "apply" /\ todo[p] = {}
    /\ \/ /\ store' = IF dirty[p] THEN mem[p] ELSE store
          /\ UNCHANGED faults
       \/ /\ dirty[p] /\ faults < MaxFaults
          /\ faults' = faults + 1
          /\ UNCHANGED store
    /\ Ended(p)
    /\ UNCHANGED <<log, heads, conf, checked, held, edits, gaps>>

\* The process is killed; a kill inside the write of the store leaves it truncated, and
\* OpenStore reads a truncated store as an empty one.
Crash(p) ==
    /\ pc[p] # "idle" /\ faults < MaxFaults
    /\ faults' = faults + 1
    /\ store' \in {store} \cup (IF pc[p] = "apply" /\ todo[p] = {} /\ dirty[p]
                                  THEN {NoStore} ELSE {})
    /\ Ended(p)
    /\ UNCHANGED <<log, heads, conf, checked, held, edits, gaps>>

-----------------------------------------------------------------------------
(***************************************************************************)
(* The rest of the world.                                                  *)
(***************************************************************************)
\* .forge/ is a cache a user may delete.
LoseStore ==
    /\ Undisturbed /\ store # NoStore /\ faults < MaxFaults
    /\ faults' = faults + 1
    /\ store' = NoStore
    /\ UNCHANGED <<git, conf, checked, run, held, edits, gaps>>

\* An author re-rates a note.
Edit(n) ==
    /\ Undisturbed /\ edits < MaxEdits
    /\ edits' = edits + 1
    /\ \E c \in Confs \ {conf[n]} :
         /\ conf' = [conf EXCEPT ![n] = c]
         /\ held' = [held EXCEPT ![n] = @ \cup {c}]
    /\ UNCHANGED <<git, checked, store, run, faults, gaps>>

Apply(p) == \E n \in Notes : Demote(p, n) \/ LeaveDown(p, n) \/ Restore(p, n) \/ LeaveUp(p, n)

Next ==
    \/ \E r \in Repos : Commit(r) \/ Checkout(r) \/ Amend(r) \/ Reset(r) \/ MissHook(r)
    \/ \E p \in Runners : Evaluate(p) \/ OpenStore(p) \/ Save(p) \/ Crash(p)
    \/ \E p \in Runners, n \in Notes :
         Demote(p, n) \/ LeaveDown(p, n) \/ Restore(p, n) \/ LeaveUp(p, n)
    \/ LoseStore
    \/ \E n \in Notes : Edit(n)

\* A process that is running goes on; git starts a due hook itself, and waits for it.
\* Nobody has to start a sweep, and nobody has to commit.
Fairness ==
    /\ \A r \in Repos : WF_vars(Evaluate(r))
    /\ \A p \in Runners : WF_vars(OpenStore(p) \/ Apply(p) \/ Save(p))

Spec == Init /\ [][Next]_vars
FairSpec == Spec /\ Fairness
-----------------------------------------------------------------------------
(***************************************************************************)
(* Properties.                                                             *)
(***************************************************************************)
Frontmatter == [conf : Confs, checked : Nat]

CommitOf(r) == [id : Nat, tree : RepoTree(r)]
Chain(r) == Seq(CommitOf(r)) \ {<<>>}

GitTypeOK ==
    /\ log = [r \in Repos |-> log[r]] /\ \A r \in Repos : log[r] \in Chain(r)
    /\ heads \in Nat
    /\ since = [r \in Repos |-> since[r]]
    /\ \A r \in Repos : since[r] \in RepoTree(r) \cup {NoHook}

VaultTypeOK ==
    /\ conf \in [Notes -> Confs]
    /\ checked \in [Notes -> Nat]
    /\ store \in [Slugs -> Debts]

RunTypeOK ==
    /\ pc \in [Runners -> {"idle", "evaluated", "apply"}]
    /\ seen \in [Runners -> [Notes -> Frontmatter]]
    /\ found \in [Runners -> [Notes -> Verdicts]]
    /\ at \in [Runners -> SUBSET Nat]
    /\ mem \in [Runners -> [Slugs -> Debts]]
    /\ dirty \in [Runners -> BOOLEAN]
    /\ todo \in [Runners -> SUBSET Notes]

CountTypeOK ==
    /\ held \in [Notes -> SUBSET Confs]
    /\ edits \in Nat /\ faults \in Nat /\ gaps \in Nat

\* The types of everything git, the vault, the runs and the model's bookkeeping hold; HEAD
\* of a repository always exists, and a due hook has a tree of its own repository to diff
\* against (gateOf's anchor).
TypeOK == GitTypeOK /\ VaultTypeOK /\ RunTypeOK /\ CountTypeOK

\* What is remembered is worth giving back: no record, on disk or in a run, ever holds
\* "low" or an empty confidence, whatever runs overlap, die or fail to write.  (Record's
\* comment, demotions.go:49-50: a broken note's memory must not become "low".)
RecordsWorthRestoring ==
    /\ \A s \in Slugs : store[s] \notin {Low, Blank}
    /\ \A p \in Runners, s \in Slugs : mem[p][s] \notin {Low, Blank}

\* Drift invents no confidence: a note, the copy of it a run has loaded, and a record show
\* "low" or what an author once gave to a note of that slug.  (apply.go, restore: "whatever
\* the note was worth before it broke is what it is worth again".)
HeldBySlug(s) == UNION {held[n] : n \in {m \in Notes : Slug[m] = s}}

ShowsOnlyWhatAuthorsGave ==
    /\ \A n \in Notes : conf[n] \in HeldBySlug(Slug[n]) \cup {Low}
    /\ \A s \in Slugs : store[s] \in HeldBySlug(s) \cup {None}
    /\ \A p \in Runners, s \in Slugs : mem[p][s] \in HeldBySlug(s) \cup {None}
    /\ \A p \in Runners, n \in Notes :
         pc[p] # "idle" => seen[p][n].conf \in HeldBySlug(Slug[n]) \cup {Low}

\* No run in progress and no hook due.
Settled == (\A p \in Runners : pc[p] = "idle") /\ (\A r \in Repos : since[r] = NoHook)

\* Rollback symmetry, the way up: once the hooks have run, a note is owed its confidence
\* only while the code it cites is gone.
OwedMeansBroken ==
    Settled /\ gaps = 0 => \A n \in Notes : store[Slug[n]] # None => CodeGone(n, Now, Base)

\* Rollback symmetry, the way down: once the hooks have run, a note whose cited code is
\* gone shows no confidence but "low", unless an author re-rated it.
BrokenIsLow ==
    Settled /\ gaps = 0 /\ edits = 0 =>
        \A n \in Notes : CodeGone(n, Now, Base) => conf[n] \in {Low, Blank}

\* Demotion and restore are each other's inverse (rollback_test.go): at rest a note is down
\* while its code is gone, and is owed something only then.  A sweep without --deep breaks it
\* (SkippedIsNotSound), and counts as a gap.
RollbackSymmetry == OwedMeansBroken /\ BrokenIsLow

Raises(n) == conf[n] = Low /\ conf'[n] # Low /\ edits' = edits

\* No hook, and no deep sweep of a dated note, raises a note while code it cites is gone
\* (apply.go:26-28, "'not looked at' must never read as 'not broken'"; rollback_test.go:82-85,
\* the flip-flop): who raises one is a sweep that cannot tell a deleted file (check.go:93-96).
RestoredOnlyWhenSound ==
    [][\A n \in Notes : Raises(n) /\ CodeGone(n, Now, Base) =>
         \E p \in Sweepers : n \in todo[p] /\ ~Sees(p, n)]_vars

\* What the comment of Apply says of every run (apply.go:26-28): no note is raised while code
\* it cites is gone.  A sweep without --deep reports a deleted path as "skipped", "nothing on
\* this machine can adjudicate it" (drift.go:36), and Apply restores the note.
SkippedIsNotSound == [][\A n \in Notes : Raises(n) => ~CodeGone(n, Now, Base)]_vars

\* Every BROKEN is about code that is gone (drift.go:35, "the file or the symbol is gone").
BrokenMeansGone ==
    \A p \in Runners, n \in Notes : found[p][n] = "broken" => CodeGone(n, Now, Base)

\* A remembered confidence stays what it is until it is given back, however many more
\* breaking commits, missed hooks and re-ratings come between (demotions.go:49-50).
MemoryKept ==
    [][\A s \in Slugs : store[s] # None /\ store'[s] # None => store'[s] = store[s]]_vars

\* A deep sweep makes good what hooks could not see (a hook that did not run, an amended
\* commit, a reset) and what a shallow sweep raised: when it has saved, exactly the broken
\* ones of the dated notes are down or re-rated, and nothing is owed for sound code.
SweepSettles ==
    [][\A p \in Sweepers : pc[p] = "apply" /\ pc'[p] = "idle" =>
         \A n \in {m \in Notes : Sees(p, m)} :
            IF CodeGone(n, Now, Base)
              THEN conf'[n] \in {Low, Blank} \/ store'[Slug[n]] # None
              ELSE store'[Slug[n]] = None]_vars

\* Once it has saved, a run that found a note broken leaves it low: a write that failed in
\* an earlier run is made up for (apply.go:109).
FailedDemotionRetried ==
    [][\A p \in Runners : pc[p] = "apply" /\ pc'[p] = "idle" /\ faults' = faults =>
         \A n \in Notes : found[p][n] = "broken" /\ edits = 0 => conf[n] \in {Low, Blank}]_vars

\* The promise of ConfidenceLedger, with the store of the run in progress standing for the
\* one on disk: each note moves down once, owing what it showed, and up once by that much.
Owed ==
    LET active == {p \in Runners : pc[p] = "apply"}
    IN  [n \in Notes |-> IF active = {} THEN store[Slug[n]]
                         ELSE mem[CHOOSE p \in active : TRUE][Slug[n]]]
Ledger == INSTANCE ConfidenceLedger WITH owed <- Owed
KeepsTheLedger == Ledger!Spec

\* The hooks catch up: again and again there is a moment when every note whose code is gone
\* is down and nothing is owed for sound code, as long as no hook is missed, no shallow sweep
\* is started and no author steps in.
InStep ==
    \A n \in Notes : IF CodeGone(n, Now, Base) THEN conf[n] \in {Low, Blank}
                                              ELSE Owed[n] = None
CatchesUp == []<>(InStep \/ edits > 0 \/ gaps > 0)
=============================================================================
