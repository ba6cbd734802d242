# Knowledge Forge in TLA+

This directory holds a model of Knowledge Forge's own logic, the model-checking runs over it and
machine-checked proofs about it. It says what the program does, in its own terms; line numbers are
those of the Go sources beside it, and `PROJECT.json` gives for every definition the lines it stands
for.

Knowledge Forge keeps a vault of markdown notes about code. One binary, `forge`, does everything, and
it is never a server: git hooks, Claude Code session hooks, a weekly job and the user start it as
short-lived processes which share one vault directory (`notes/`, `_inbox/`, `.forge/`), one SQLite
file and the code repositories, and which lock nothing. Hence the shape of the models: a process reads
some files, works on what it read, and writes files back one at a time, while other processes, git and
people do the same.

## 1. Inventory

| component | state it keeps | operations that change it | what is hard | what makes it correct |
|---|---|---|---|---|
| **Drift** (`pkg/drift`, `cmd/forge/drift.go`) | `confidence` and `drift_checked_at` of notes, `.forge/demotions.json` | `forge drift --apply` from a hook or as a sweep | partial evaluation behind the gate; overlapping hooks; failed writes; kills; colliding slugs | a note is low exactly while its code is gone, and comes back to what its author gave it |
| **Citations, path registry** (`pkg/coderef`) | none | resolving a citation against a tree | ambiguity, several repositories | a miss is not a deletion |
| **Symbol index** (`pkg/codeindex`) | `.forge/codeindex-*.json` | Build, Save, Load, Patch | shared temporary file, patch against full build | a cached index equals a fresh one |
| **Git hooks** (`hooks/`) | none | start `forge drift`, `forge capture` | amend, reset, hooks that exit early | no lasting effect of a missed hook after a deep sweep |
| **Configuration chain** (`pkg/config`) | four files, read by every process | merge, validate | a value assembled from several layers | the static core stays on engine `none` |
| **Engines** (`pkg/engine`, `engine_run.go`, `engine_record.go`) | `engine_trail` and `pending_advisor` of notes | resolve, call, book, record | look-then-book race, answers that are refused after they were paid | spending is bounded, the trail is true |
| **Budget and advisor queue** (`pkg/store/budget.go`, `check_drain.go`) | the budget table, queued notes | spend, queue, drain | kills between call, booking and note; midnight | a queued note leaves the queue only when paid for, and does so in the end |
| **Quality gate, quarantine** (`pkg/qualitygate`, `cmd/forge/gate.go`) | `_inbox/`, `.forge/drafts/` | quarantine, save draft, take draft | same slug twice, partial failure | no failing draft is lost or published |
| **Datasets** (`pkg/dataset`) | JSONL files under `.forge/datasets` | append, export | read-then-append, truncated tails | one record per event |
| **Session hooks** (`session_capture.go`, ...) | `_inbox/`, the seen store | capture | resumed sessions, kill before the save | no conclusion captured twice |
| **Vault index, derived cache** (`index.go`, `pkg/store`) | `_index.md`, SQLite rows | persist, prune, reset | two transactions, notes changing under it | the cache equals the vault after a run |
| **Logback, sentinel** (`logback*.go`, `pkg/sentinel`) | marked blocks in code and CLAUDE.md | upsert, remove | lines that move, stale anchors | idempotent, nothing outside a block changes |
| **Scrub** (`pkg/scrub`) | a destination tree | redact, write all | a write failing half way | all or nothing |
| **Link checker** (`pkg/linkcheck`) | a verdict cache | probe pool, save | workers, TTL | an unreachable net is not a dead link |
| **Recall, similarity, graph, gitsig, report, telemetry, init** | none, or a file of their own that nothing reads to decide | pure functions, rendering, appends | thresholds, connectivity | the decision tree's ordering |

They meet in five places. Drift, engines, drain and gate all rewrite frontmatter through
`vault.SetScalars`/`SetList`, which write the whole note from the copy that was loaded. Engine runs and
drains share the ledger in SQLite. Hooks of several repositories and the manual sweep share
`demotions.json`. Drift and logback share the cached symbol tables of a repository. `forge gate` and
`forge session-capture` put files of the same names into `_inbox/`, where people work on them.

## 2. Modules

| module | models | extends / used by |
|---|---|---|
| `DriftVerdict` | the read half of drift: what one citation is worth against two trees, the gate, and the reference notion *code gone* | `Drift` |
| `ConfidenceLedger` | what drift promises: down to low once, owing what was shown; up once, by what is owed | instantiated by `Drift` |
| `Drift` | git, hooks, runs of `forge drift --apply`, notes, the demotion store, authors, failures | `MCDrift`, `Drift_proofs` |
| `EngineSelect` | the merged configuration, its validation, the choice of an engine, the trail | `Budget` |
| `Budget` | `forge engine run`, the drain of `forge check`, `forge engine record`, the ledger, notes, midnight, authors, failures | `MCBudget`, `Budget_proofs` |
| `IndexService` | what the symbol index promises, with no cache in sight: the table of the commit that was asked for | instantiated by `IndexCache` |
| `IndexCache` | build, patch, save and load of one repository's table, its cache file and temporary file, git | `MCIndexCache`, `IndexCache_proofs` |
| `VaultCache` | `forge index`, `forge reindex` and recall's refresh over the derived SQLite tables, and the notes on disk | `MCVaultCache`, `VaultCache_proofs` |
| `NoteContract` | what `Validate` reports and `Fix` rewrites | `QualityGate` |
| `Freshness` | the one predicate gate and recall share | `QualityGate`, `Recall` |
| `QualityGate` | the seven gates and the report they make | `MCRules` |
| `Recall` | channels, blend, both passes, neighbours, decision | `MCRules` |
| `Inbox` | `_inbox/` and the people who work on it | `GateRun`, `SessionCapture` |
| `GateRun` | `forge gate` after its gates: quarantine, the draft kept for the retry, the records of D1, D4, D5 | `SharedInbox` |
| `SessionCapture` | `forge session-capture`: stubs, and the file of what was seen | `SharedInbox` |
| `SharedInbox` | gates, captures and people around one inbox, at any time | `MCInbox`, `SharedInbox_proofs` |
| `Sentinel` | a marked block in a file somebody else owns: find, replace, append, insert, remove | `Logback` |
| `Logback` | `forge logback` with inline markers and `--remove-markers` beside the file's author | `MCLogback`, `Logback_proofs` |
| `Corrections` | commits, the D3 pairs in them, captures, and the file of JSON lines they append to | `DatasetExport` |
| `DatasetExport` | `forge export-dataset` and its log, over `Corrections` | `MCCorrections`, `DatasetExport_proofs` |
| `LinkCheck` | the dead-link pass of `forge check`, servers, network, days | `MCLinkCheck`, `LinkCheck_proofs` |
| `MC*` | instances for TLC | |
| `*_proofs` | theorems | |

A definition whose comment begins with *Mutant* is a plausible bug, put before the definition it would
replace. No specification uses one; `PROJECT.json` lists which property each of them breaks.

### Drift

A tree maps each source file to its content or `Absent`; a content maps each declared symbol to its body
and line. That is as much as the symbol index keeps of a file, so *body changed*, *line moved*, *symbol
gone*, *file gone* and *a file without declarations* are all told apart. `CheckRef` and the operators
below it follow `drift.go` and `check.go` early return by early return; `Outcome` is all that `Apply` asks
of a note's findings.

`log[r]` is the first-parent chain of a repository's HEAD. `Commit`, `Checkout`, `Amend`, `Reset` move it and leave in
`since[r]` the tree the hook will be given; `MissHook` is a hook that exits early. A run goes `idle -> evaluated ->
apply -> idle`, one step per file operation: `Evaluate` loads the notes and checks every citation, `OpenStore` reads
`demotions.json`, then `Demote`, `LeaveDown`, `Restore`, `LeaveUp` take one note each in path order, and `Save` writes
the store. `seen[p]` is the frontmatter the run loaded, and writing a note writes that copy back. `HeadFor` is the
head it is stamped with; where no finding of the note names a repository git is asked for the directory the run was
started in, which may be one of the vault's, another or none. A sweep is given `--deep` or not (`Deep`); `Sees` is
whether it can then tell a deleted path from one this machine never had. Where a path means several files, the better
fit counts (`extra`). `Write` may fail; `Crash` may come at any step and may truncate the store; `LoseStore` deletes
it; `Edit` is an author re-rating a note.

`Quiet` is the one switch: when TRUE git, authors and other runs wait for the run in progress. Properties
about what a run means are checked with it, properties that must survive any overlap without it.

### Budget

`cfg` is the merged chain, a partial function from keys to strings; the daily caps are the constant
`Cap`. `spent` is the row of today. A run of `forge engine run` is `Ask` (load the configuration,
resolve), then either `Degrade` (the second look at the ledger) and `Queue` (write `pending_advisor`),
or the call. `forge check` is `Collect`, then for each queued note `TakeNext` (ask the ledger, load the
note), the call, `Spend`, `Clear`; `EndDrain` stops it. A call ends in `CallFails`, `CritiqueInvalid`
(the advisor charged and its answer is refused) or `CallAnswers`. `RecordLoad` and `Record` stamp the
trail. `job[p].copy` is the note as the process loaded it. `Midnight` empties the row, `Edit` and `Crash`
are the world. `due`, `owes` are bookkeeping of the model: what was charged and not booked, and which runs
owe their note a place in the queue.

### The symbol index

`IndexCache` has files as inodes: `cache` and `tmp` name one each, a write goes to the inode the process
opened, and `rename` moves a name. That is what lets one process rename what another is still writing.
An index is the commit, the extractor and, for each file that declares something, the blob it was parsed
from. `AskFor` is a process that wants the table at a revision; `Load`, then `PatchForward` or
`BuildFull` (`DiffFails` where git cannot compare), then `SaveOpen`, `SaveWrite`, `SaveRename`. `Delivered` is a
`git cat-file` that may end early. `Gc` collects commits HEAD has left. Three binaries run side by side:
today's, one with an older extractor, and one built without cgo. `IndexService` is the abstraction, with
`ServesTheTree` the refinement.

### The derived cache

`VaultCache` takes a note to be its text and its file's size and second. `notes[n]` is its row, `kids[t][n]` the rows
of the child tables, which other statements read, write and delete. `forge index` walks, loads, stamps (a file's
second is asked for after its text was read, which may be a second later), then upserts all in one transaction and
prunes statement by statement; `forge reindex` resets first, with a statement of its own for each table. `forge recall` reads the
rows, asks note by note whether they are fresh, loads what is not, and writes that back. `Locked` is SQLite busy,
`Killed` a process that ends.

### Contract, gates and recall

Three pure programs. A scalar is `"good"`, `"bad"` or blank, a day a number, a list a sequence of items:
the classes the checks tell apart. `Validate` is the set of issues, `Fix` the composition of the repairs in
the code's order. `Run` makes a report of seven outcomes. `Recall` computes in ten-thousandths, cut, where
the code has a float64; a text is the set of its terms.

### The inbox

`GateRun` follows `forge gate` from the verdict on: `Take` reads the draft a retry names, `Quarantine`
writes `_inbox/<slug>.md`, then the copy goes to `.forge/drafts/`: `OpenMd` empties the file of the body,
`WriteMd` fills it, `OpenErr` and `WriteErr` do the same with its failures, and the records follow. Between the
two steps another process reads what is there, `Cut`; a write cut short leaves it so.
`SessionCapture` writes a stub per conclusion and the keys once at the end. Both go through
`Inbox!WriteToInbox`, which overwrites. `owed`, `saves`, `last`, `stubbed`, `disturbed`, `spoiled` are
bookkeeping: what must still be found, how often a copy was completed, what became of a run, and which of
these another process or a fault has touched, where nothing is promised.

### Logback

A file is the sequence of its lines, each a line of the author's, a blank or a line of a block. `Begin` reads HEAD's
symbols, which the command keeps (`snap`), and the notes the agent fragment names (`groups`); `Fragment` writes that;
`Resolve` reads the citations again and computes the markers; `Apply` handles one (read, change), `WriteSource`
writes; the author adds lines, indents, deletes half a block, saves and commits in between. `authored` is what they
wrote, in order; `nested`, `torn` and `halves` are bookkeeping: a marker was put inside another, a file was lost under
a write, and how often half a block was deleted, after which less is promised.

### Corrections and export

A sha is the commit's place in `objects`. A capture reads the commits of its note's history, pairs text before and
after, reads the keys the file holds, and appends the pairs that are new, one write each; `CutShort` ends one inside a
write. `Fault` is git, or the open or the read of the file, failing under it, and `Resolve` may lose pairs to a git
command whose error `pairFor` drops. `wide` are the lines over 8 MiB, which `existingKeys` cannot take in and `encode`
writes all the same; `Bulky` says which texts make one. The pairs of a commit are a set, appended in the order of
their paths (`First`). `Repair` is a person who deletes the line the error of an export names. `DatasetExport` adds
the export: read strictly, then log, body, datasheet, each of which may fail.

### Link checker

One action per request: `Ask` starts the next URL of a host, as it is spelled, whose goroutine is free, `Answer` is its
answer (a GET goes out at once where HEAD was refused), and `Follow` a redirect, which the client follows to whatever
server it names. `Named` says which server a spelling means. `server`, `up`, `day` move at any time. `disk`
is the file nothing writes.

## 3. Runs

| run | bounds | what it shows |
|---|---|---|
| `drift` | one repository, two files of two contents, two notes with one path citation each, a sweeper with `--deep` and one without, two commits beyond the first, one re-rating, one missed hook / amend / reset / shallow sweep, no overlap | `RollbackSymmetry`, both ways; no false BROKEN (`BrokenMeansGone`); nothing but a sweep without `--deep` raises a note whose code is gone (`RestoredOnlyWhenSound`); a deep sweep mends what hooks missed and what a shallow one raised (`SweepSettles`); the refinement of `ConfidenceLedger` (`KeepsTheLedger`); hooks keep up (`CatchesUp`) |
| `drift_shared` | two repositories whose hooks overlap at every step, two notes of one slug, one citing both repositories, the other a bare symbol; one failure, one re-rating | records never hold low (`RecordsWorthRestoring`); no confidence is invented (`ShowsOnlyWhatAuthorsGave`) |
| `drift_both_cites` | one note citing two files | **violated**: a note is restored by a commit that touches only its sound citation |
| `budget` | one run, one drain, one recorder, two notes (one queued yesterday), two runs or records, one failure or kill, one edit, cap 1, calls that cost 0 or 1, six configuration chains | `TypeOK` with one line per stage in every trail; `OverrunBounded`, `LockedStagesStayStatic`, `OffQueueOnlyBooked`, `QueuedNotDropped`, and under fairness `QueueDrains` |
| `index_cache` | three binaries, three commits of three files (one changes, one comes, goes and once declares nothing, one has no grammar), one move of HEAD, three builds in all, one cut read | no entry is wrong (`NoWrongEntry`); the cache has gaps only after a cut patch or a build without parsers (`NoGapUnlessPatchCut`); bytes that do not parse come of overlapping saves alone (`TornOnlyByOverlap`); the refinement of `IndexService` (`ServesTheTree`) |
| `vault_cache` | one note, two texts of one size and one longer, an indexer and a recall, two seconds, two edits, three runs, one kill or lock | a row that passes for a file with other contents was read no later and stamped no earlier than the second of the last edit (`StaleOnlyWhileRead`); after an undisturbed index the tables are the notes (`IndexMakesTrue`); an undisturbed recall serves the notes (`QuietRecallServes`) |
| `rules` | all combinations of dates, lists, sources and scalars of a note that the checks tell apart, two kinds of draft, bodies of at most two blocks, every setting; small vaults and queries | `FixRepairs`, `FixIsIdempotent`, `PublishedRecallsFresh`, `CuratedIsNotWorse` |
| `inbox` | two gate processes, two captures, five drafts of two notes, two sessions, three commands in all, one fault or edit | the last outcome is the final one (`OutcomeIsFinal`); a failing text can be found until its retry takes it or its copy is opened anew (`FailingTextIsKept`); a repair of a text has the failure of that text, once (`RepairsAreReal`); what is seen was stubbed (`SeenWasStubbed`), and once (`StubbedOnce`) |
| `logback` | three files, five vaults, three runs, two edits, one kill | the author's lines stand, in order, whatever is nested and whichever half of one block is deleted (`CodeUntouched`); an unchanged tree is not written again (`RerunIsQuiet`); `--remove-markers` takes every marker of a symbol still cited and declared at HEAD (`MarkersCanGo`); an unmarked, committed file gets no marker below its symbol (`AnchorsFromBelow`) |
| `corrections` | two captures, two notes, three commits (edit, rename, add or delete; dated a day on, which two of make more than the window, or backwards; with forge's trailer or without), texts that make lines too long, two captures, one cut, any faults of git and reading, two exports, one failed write | `CapturedOnce` but for overlaps; one cut costs its line and the next (`LossIsBounded`); no capture fails by a line that merely does not parse, and one that met an ended last line leaves all its pairs (`CaptureHeals`); what is under `--out` is in the log (`ExportsAreLogged`) |
| `links` | three URLs of one server whose host two spell alike, redirects to a second server, two checks, one day, two moves of a server or the network | a dead source's server had answered no, asked for good (`DeadSaidNo`); a server has two requests only of two spellings (`OneRequestToASpelling`) |
| `links_again` | the same | **violated**: a URL asked for within the TTL is asked for again, since nothing saves the cache |

Configurations beside these can be run by hand; they answer questions `PROJECT.json` has no run for. Eight show a trace
on which the code and a sentence of its own part: `MCDriftShallow` (`SkippedIsNotSound`), `MCDriftOpaque`
(`BrokenMeansGone`), `MCDriftRetry` (`FailedDemotionRetried`), `MCLinkCheckHosts` (`OneRequestToAHost`), `MCBudgetBlank`
(`LockedAcceptsNoneOnly`), `MCBudgetBooks` (`BooksAnySpend`), `MCBudgetText` (`AuthorsTextStands`), `MCInboxEdits` (`CaptureCostsNoData`). Four more traces need only another
property in the place of a run's own: `RecallHeals` in `MCVaultCache.cfg`, `BodyLiftsNoNonMatch` in `MCRules.cfg` and
`MarkersAreAbove` in `MCLogback.cfg`; a fourth, `HalvesEncloseNothing`, needs `MaxEdits = 3` there. `BrokenCodeHeld`,
`CitationOnlyWithSchema`, `UnknownHintIsFree`, `AbsenceIsEvidence` and `FixInventsNothing` hold in `MCRules.cfg`, and
`MemoryKept`, `FiringAdvances`, `ExportIsComplete`, `ReportIsWhole` and the remaining `TypeOK`s also hold in the runs
of their modules and can be added to their configurations.

**Why the bounds suffice.** Drift's verdict about a note depends on HEAD, the verified tree and the gate, so three
trees on a chain (the original, a breaking one, a mending or second breaking one) with `Checkout` give every sequence
break/mend/break that the store can tell apart, and `MaxGaps = 1` puts one move outside every gate, or one sweep
without `--deep` anywhere: each counts as a gap. Two notes are needed for the order of `Apply` and for slugs to
collide; two repositories for hooks to overlap. In `budget`, the race needs two callers, of which the run and the
drain are the two kinds; a cap of 1 with calls of 0 and 1 gives *money left*, *exactly at the cap* and *over it*; the
six chains put a metered tier first, behind a local server, behind the default and behind a locked stage, and switch
each policy that is read. One fault is one failure anywhere, a lookup, a write, a booking or a kill, since every
property already quantifies over where it falls. In `index_cache` three builds let a third process load what two
others raced to save; a fourth adds only a longer chain of patches, each of which starts from a cache the invariants
describe. In `vault_cache` the tables of different notes never meet in a statement but in `Prune` and in a
transaction, so one note carries the races, and two seconds put an edit into the second of a reading, into that of its
stamp, and before or after both. In `inbox` two of a kind and one of the other are every pair that shares a file, and
three commands a failure, its retry and a stranger. `logback` needs three symbols for a marker between two others and
three runs for write, write again, remove. In `corrections` two captures race or follow each other, and a third line
is the one after the glued one. In `links` two URLs of one spelling and one of another give both kinds of neighbours,
and a second server the redirects. The theorems of section 4 have none of these bounds.

Deadlock is not checked: the bounds end every behaviour, and the system is meant to come to rest.

**Fairness.** *Drift*: git starts a due hook itself and waits for it (weak fairness of `Evaluate` of a
repository), and a process that runs goes on. Nobody must commit or sweep. *Budget*: a process that runs
goes on; `forge check` is a scheduled job and starts again and again; days pass; and strong fairness on
`CallAnswers`, that is, an advisor asked again and again some time answers with a critique. The HTTP
client has no timeout, so "a call ends" is part of this assumption and not of the code.
`QueueDrains` also assumes the drain switched on, policy `queue` and money in the advisor's cap. The
other modules state safety only: their commands are straight lines that end when they are let run, and
what they promise is about what is left when they were not.

## 4. Proofs

All theorems hold for every value of the constants that satisfies the named assumptions of the modules
(`FilesAssumption`, `DriftAssumption`, `CapAssumption`, `StageAssumption`, `BudgetAssumption`, `HostAssumption`,
`NamedAssumption`, `SaidAssumption`, `RunAssumption`, `TextAssumption`, `IndexAssumption`, `CacheAssumption`,
`NotesAssumption`, `WindowAssumption`, `ExportAssumption`, `SourcesAssumption`, `VaultsAssumption`): any number of
notes, files and lines of them, repositories, processes, commits, configurations, drafts, sessions, URLs, servers and
failures. They ask for finitely many files, notes and processes, for the types of the constants, and for nothing else
but where a theorem states it. TLC evaluates each of them in the run of its module, and the one of a module without
proofs (`RecallAssumption`) too.

`Drift_proofs`:
- `DriftTypes`: `TypeOK` is inductive as it stands; the proof goes by the parts git, vault, runs, counters.
- `RecordsStayWorthRestoring`: inductive together with `TypeOK`. `MemoryMoves` says which steps touch a
  run's copy of the store, `StoreMoves` which touch the one on disk; only `Record` adds, and `Demotable` is
  what keeps low out.
- `ConfidencesComeFromAuthors`: `ShowsOnlyWhatAuthorsGave` already speaks of notes, records and loaded
  copies, and so is inductive; `ConfidenceMoves`, `LoadedMoves`, `HeldMoves` split its step.
- `LedgerKept`: the refinement of `ConfidenceLedger`, step by step, under `Calm` (the world waits for a run,
  nothing fails, no two notes share a slug). It rests on `RunsInTurn`: one run at a time, whose copies of
  what it has not applied yet are what is on disk. `OwedRests` and `OwedMoves` say which steps are stutters
  of the ledger. The run `drift_shared` shows what is left of the promise without these hypotheses.
- `BrokenAlwaysMeansGone`: for notes with any citations, if the world waits for a run and `OnePlace` holds:
  the files a path can mean are of one repository and the only ones of their basename, and every tracked
  file declares something. `MCDriftOpaque` shows why the last is asked. A gate sees deletions by basename
  only, which is why the first two are.
- `RollbackAlwaysSymmetric`, `RestoresOnlyWhatIsSound`, `SweepAlwaysSettles`: under `Calm` and `LonePaths`
  (each note cites one path of one file; the code was there when the notes were written; basenames and
  declarations as above), over any number of repositories, notes, commits, missed hooks, re-ratings and sweeps of
  either kind. Symmetry asks for no gap, and a sweep that cannot see a deletion (no `--deep`, or an undated note)
  is one; the other two name those sweeps themselves: they alone raise a note too early, and a deep sweep puts
  right the dated notes they have raised. A note that cites a bare symbol is outside `LonePaths`: every hook
  is blind to it. Rollback symmetry only speaks of rest, so `RollInv` says what happens on the way: a
  note is `Symmetric`, or `Overdue`, that is, a hook is due that will see its file changed; in a run, each
  note is `Judged`: what was found is so, what was applied is done, and what was not looked at is symmetric
  or another repository's to see to. `drift_both_cites` shows that a second citation breaks it.

`Budget_proofs`:
- `BudgetTypes`: `TypeOK` is not inductive, because what a write leaves on a note depends on where the
  process stands; `TypeInv` adds `Placed`, which says what a job holds at each place.
- `OverrunStaysBounded`: that a day's bookings pass the cap by less than one call per process says nothing
  of the calls still out. `Room` counts them in: booked plus in flight times `MaxCost` stays under the cap
  plus one call per process. A call starts only while money is left (`RoomToStart`), a booking trades a
  call in flight for its cost (`RoomBooked`), everything else leaves no more in flight (`FlightMoves`).
- `StaticCoreStaysStatic`: from `Valid`, `CheckLocked` and `NoneWins` (a first candidate `none` wins
  whatever stands behind it). It asks that the configuration names the stage's engine; `MCBudgetBlank`
  shows that this hypothesis is needed.
- `QueueLeftOnlyWhenBooked`: an action property from `TypeInv`; `PendingMoves` lists the writes.
- `QueuedNeverDropped`: an action property from `TypeInv` and `OweInv`: a run that owes has ended, or stands before
  its second look or its write with a tier of its stage still spent, since the books only grow within a day
  (`BooksGrow`). So the second look cannot miss it (`LooksAgain`); `RunMoves` says that nobody else moves a run.

`LinkCheck_proofs`:
- `LinkTypes`: what a check has under way is of the vault's URLs, and the file nothing writes stays empty.
- `OneRequestAlways`: a request may be led to any server, so the invariant (`OneToAWorker`) does not speak of servers: no
  two requests are of one spelling, because its goroutine waits for the answer. `MCLinkCheckHosts` shows that two
  spellings, or a redirect, do meet.
- `DeadAlwaysSaidNo`: a report speaks of the past, so the invariant (`HonestInv`) carries what the server had
  when it answered. A dead answer is a refusal because HEAD's are asked again with GET (`DeadIsRefused`), and
  nothing comes from the cache, which is empty (`NothingCached`).
- `ReportAlwaysWhole`: `Accounted` says that every URL of a check is answered, under way or yet to be asked.

`SharedInbox_proofs`:
- `CapturesTyped`, `GatesTyped`: the types the rest needs, each blind to the other command's steps
  (`CaptureSteps`, `GateSteps`).
- `SeenAlwaysStubbed`: the file may be written from any hook's memory, so `SeenInv` asks the same of those.
- `StubbedOnceAlways`: that there is one stub so far says nothing of the next firing. `OnceInv` adds that
  what is stubbed is `Known`: in the file when nobody is at work, in the memory of the one hook that is, and
  in the file too unless that hook is between its first stub and its save.
- `FailingTextAlwaysKept`: `KeptInv` adds that a copy holds the text its name is made of or is empty (`Cut`), which is
  why no later draft of the note can overwrite it with another, that no retry has its hands on a copy that is
  still owed.
- `OutcomeAlwaysFinal`: the property selects from the sequence of D1 the last record of a run. `FinalInv`
  says of each gate at work what it will still append, so that the last record of an untroubled run is the
  verdict on `last`, or a gate is about to append it.
- `RepairsAlwaysReal`: `RepairInv` counts each saved failure as a token that is in one place: in the copy, in the
  hands of the retry that read it, or spent in a record. Only two commands at one copy, a write of
  it that was cut short, or a copy that stays after it was used can spend one twice, and those are what `spoiled`
  marks. `CutInv` says that an error read empty was read under such a mark.

`IndexCache_proofs`:
- `IndexTypes`: inodes are bounded by the number of processes, two names and those they hold.
- `EntriesAlwaysTrue`: `Sound` asks it of the cache file, the temporary file, each open inode and each process; a
  patch keeps it because git names every file that differs and a file that does not differ has the same
  entry in both commits.
- `GapsOnlyFromCutPatches`: `Wholes` adds that what a process will save is whole, or its patch was cut.
- `TornMeansOverlap`: `Apart` and `OneWriter`: until two saves overlap, the inode a process writes is
  neither the cache nor another's, whatever temporary file the dead have left.
- `CacheIsInvisible`: the refinement of `IndexService`, from the three above: `Load` gives what is cached only
  where it serves, a patch or a build answers with the commit's table, and all else stutters.

`VaultCache_proofs`:
- `TypesAlwaysOK`: the places of the two commands and what a process holds at each.
- `StaleAlwaysWhileRead`: rows are told apart by whole seconds, asked for after the text was read. So the invariant says
  of every reading on its way, from the text in hand to the row in the table, that the file has been edited in or
  after the second of the reading, or the text is still its own; and that no file is stamped later than now.
- `UndisturbedIndexMakesTrue`: `OneQuiet` says that at most one process has run alone and that no other is then
  in the middle of a reset or a delete; `IndexTrue` says how far the tables are true at each place of the
  command.
- `QuietRecallAlwaysServes`: a recall looks at rows and never at their children, so `WholeInv` adds that in a
  cache nothing has torn every row has its children, with its own text, and that a reset or delete under way
  has taken the row first (`Clears`); `RecallTrue` goes with the command's places.

`DatasetExport_proofs`, for the file of JSON lines, the captures and the export:
- The lemmas `KeepHolds`, `EncodeHolds`, `CutHolds`, `RepairHolds` say once what a record, a cut and a
  repair do to what a file of any length holds. They speak of `Firm`, the records on lines that are ended,
  because only the last line can still be lost; `StepKinds` lists the steps that disturb any of it.
- `CaptureAlwaysHeals`: firm records stay (`FirmStays`), so `Heals` follows a capture through its appends:
  what it no longer has to do is firm, if it met an ended line and nobody was cut short since. A failed capture is
  one of a `Fault`, of a cut, or of a line in `wide`, and remembers which (`tail`).
- `CapturedOnlyOnce`: `OnceInv` adds that what a capture has still to append is not in the file, unless
  its commit is `raced`; two that have read the keys and not yet written are what `raced` marks.
- `LossAlwaysBounded`: a capture counts its pairs only when the last is written, and what is lost by then
  may have been lost before. So `LossInv` counts what captures at work have written (`Claimed`), and adds
  what the open line can still take (`Owing`: what it holds, and what lands on it): a cut adds two at most,
  and an append or a repair trades what is owed for what is lost.
- `ExportsAreComplete`: an action property from `ShownInv`: if anything claimed is lost, a line does not
  parse, and the strict reader stops there. A person who deletes the line takes the loss on. (No run lists
  `ExportIsComplete`; TLC finds it to hold in `MCCorrections`, and broken there if the reader is lenient.)
- `ExportsAlwaysLogged`: `LoggedInv` says it of the export under way too, from its log line on.

`Logback_proofs`, for files and vaults of any length. Its lemmas go from sequences (`SpliceIs`: what stands where
after lines are replaced, inserted or removed) over code (`ByHandSpliced`: code that is not in the replaced
stretch stays, in its order) and blocks (`WholeFound`: what `findBlock` finds) to upsert and removal.
- `LogbackTypes`: files, plan and buffer are sequences of lines and markers.
- `CodeAlwaysUntouched`: what logback replaces is what `findBlock` finds, so the invariant must say that no code can
  stand there. While nobody deletes half a block, `Whole`: a symbol has at most one block, blocks may lie within each
  other but do not cross, and hold nothing but lines of blocks. That is enough however anchors have moved. With
  half a block gone, `Cover`: the same of all other blocks, and the half that is left is inside none of its own
  symbol. So what `findBlock` pairs is still one block (`CoverFound`): a begin left over cannot be the last before
  the end of a new block, nor an end left over the first after its begin. `Current` says that
  what is about to be written was computed from what is still there, or the file is torn.
- `RerunAlwaysQuiet`, `MarkersAlwaysCanGo`: where nothing was nested a block is its three lines (`Attached`). Both
  speak of the end of a command, so `Progress` says of a quiet one
  that what is left of its plan is the end of `Markers`, that each marker it has applied stands with its notes
  (`Holds`, which no other marker's write undoes: `HoldsKept`), or, if it removes, that no line of it is left.
  A second upsert of a block that stands is the same file (`HoldsAgain`).
- `AnchorsAlwaysFromBelow`: `FromBelow` says, of a command over a fresh file whose markers come from below, that those
  it has applied stand above their symbols, and that every line above the last of them is where HEAD has it, which is
  why the next anchor is right.

**Only model-checked.** `FixRepairs`, `FixIsIdempotent` and `CuratedIsNotWorse`, which compute with folds and sorted
sequences, an induction over data; `PublishedRecallsFresh`, which `MCRules` checks for all combinations of dates and
windows the two computations tell apart, and whose two sides are a page of definitions without a state between
them; the liveness properties `CatchesUp` and `QueueDrains`, which are out of
TLAPS's reach (fairness, ENABLED); and what `MC*` configurations violate.

## 5. Where code and words part

`PROJECT.json` quotes the sentence each of the two violation runs checks.

1. `drift_both_cites`: `apply.go` restores a note when nothing *looked at* is broken.
2. `links_again`: no command calls `Cache.Save`, so every `forge check` asks every URL again and
   `--offline` finds nothing in the cache (`linkcheck.go:7-9`, "does not re-check a URL it checked recently").

Traces of what is run by hand (section 3):

3. `MCDriftShallow`: a sweep without `--deep`, the default (`cmd/forge/drift.go:49`), calls a deleted path SKIPPED, and
   what is only skipped is restored (`check.go:93-96`; `apply.go:26-28`, "'not looked at' must never read as 'not
   broken'"; `drift.go:36`). A hook does the same for a note that cites a bare symbol and was demoted by a deep sweep
   (`check.go:75-77`).
4. `MCLinkCheckHosts`: goroutines are one to a spelling of a host, and the client follows redirects, so one server can
   have two requests at once (`linkcheck.go:111-117`, `:60-62`; "one host at a time", `:48`).
5. `MCDriftOpaque`: `codeindex` drops files without declarations, and drift reads that as deletion.
6. `MCDriftRetry`: the record of a demotion outlives its failed write, and stops the retry.
7. `MCBudgetBlank`: a locked stage left blank takes the default engine.
8. `MCBudgetBooks`: a refused critique's cost is dropped.
9. `MCBudgetText`: a drain writes back the note it loaded before its call.
10. `RecallHeals`: a reset cut between its transactions, or a prune between its statements, leaves
   rows recall takes for fresh (`recall_load.go:14-15`).
11. `BodyLiftsNoNonMatch`: the body channel can lift a note over the band (`rank.go:119-121`), because an inactive
   channel leaves the others their full weight.
12. `MCInboxEdits`: a stub written again goes over what a person made of it (`session_capture.go:183-184`).
13. `MarkersAreAbove`: each marker shifts the lines below it while the anchors come from HEAD
    (`logback.go:61-62`).
14. `HalvesEncloseNothing`: who deletes the end of a symbol's block, lets logback write a new one and deletes the begin
    of that has a begin and an end with code between them, which the next run replaces (`lines.go:19`; "Never touches
    code semantics", `logback.go:63-64`).

Smaller ones met on the way, without a run: `Patch` drops the error of a cut read and its gaps are saved
(`store.go:46-47`, "byte-identical"); a binary without cgo makes path citations BROKEN (`gitindex.go:36`, "every
citation SKIPs"); `--fix` cannot repair all that is marked fixable (`validate.go:17-18`); a compiler that is killed
passes its block (`gate.go:61`); a second failing draft of an UPDATE overwrites the first in `_inbox/`, where only
`.forge/drafts/` still has it (`quarantine.go:22-25`); a nested marker is lost when the outer one is rewritten, so a
second run writes (`logback.go:63`); a file without a final newline gets one (`sentinel.go`, "byte for byte"); an
amended commit is captured twice, its sha being part of the key (`d3.go:57-60`); a rename after an earlier edit is
captured as a correction (`pairFor`); a git error inside `pairFor` loses its pair without a word (`d3.go:125`); a line
over 8 MiB, which nothing keeps from being written, fails every later capture (`jsonl.go:72`); a server that answers
HEAD with 404, 429 or 5xx is called dead though it may serve GET (`probe.go:21`); a log line glued to a cut one leaves
its export unrecorded; a failed datasheet leaves `--out` changed, though the usage says "Exit 3 = export failed, --out
untouched".

## 6. Abstractions

- A note's frontmatter is the fields the properties speak of; the rest of the note is one version number
  in `Budget` and left out in `Drift`. YAML, its key order and the body's bytes are left out, but for
  `NoteContract`, which keeps whether the keys are in order.
- A write of a note is all or nothing. `os.WriteFile` truncates first, so a kill inside it could also leave an empty
  note; the models cover this for `demotions.json`, `_inbox/`, `.forge/drafts/`, the JSONL files, the cached symbol
  tables and the sources logback writes.
- `Evaluate` is one step: the notes are read and git is asked within it. The lookups of one `Resolve` are
  one step too, and so are the reads of one capture.
- Path shorthand, line scanning and parsing of source files are in the constants (which files a path can
  mean, what a file declares), as are what a compiler says, what is a conclusion, what a text's terms are.
- `Drift` reads the symbol index as the tree it stands for; `ServesTheTree` is why that is sound while
  nothing was cut short.
- Configuration and caps do not change within a behaviour; money is counted in whole units, scores in
  ten-thousandths, dates in days; a timestamp in a date field counts as malformed.
- In `Drift` and `Budget` notes are neither created nor deleted. The D2 dataset a call appends to is left
  out, and so are the other tiers' contents.

## 7. Not modelled, and why

- **Duplicate search**: hashing over text, whose promises are probabilistic; the duplicate gate takes its
  answer as an input.
- **Link graph, git signals**: pure, sequential, and compared by their tests with known answers.
- **Scrub**: redaction is text. Its one hazard, a write that fails half way, is in the hazard list; the
  loop is four lines and recovers from nothing.
- **Reports, setup wizard, telemetry, session-context, intent**: they print, or write one file nothing
  decides by.
- Of the modelled parts: `drift --report`, the line repair of a citation beyond its verdict, `Deps` of the
  index, the links table, `--since`, formats and anonymization of exports, datasets D2 and D6, the text of
  the code map, delays between requests (a GET follows its refused HEAD without one), and the 16 MiB limit of the export's
  reader, beyond which an export fails and nothing goes out.

What is left to do: `PublishedRecallsFresh` for every calendar, and liveness of a whole week (drain, links, report)
in one model.
