----------------------------- MODULE IndexCache -----------------------------
(***************************************************************************)
(* The symbol index of one repository and the file that caches it:         *)
(* pkg/drift/gitindex.go over pkg/codeindex/store.go and build.go.  Hooks, *)
(* sweeps and logback runs share the cache file and, while they write, one *)
(* temporary file beside it; they lock neither.                            *)
(***************************************************************************)
EXTENDS Naturals, FiniteSets, Functions

CONSTANTS Procs,         \* forge processes, any of which may run again
          Commits,       \* commits of the repository
          Files,         \* paths git tracks in some of them
          Supported,     \* the paths Lang knows a grammar for
          TreeOf,        \* TreeOf[c][f]: a blob, or Absent
          Absent,        \* no file at that path
          Opaque,        \* blobs that declare nothing
          ExtractorOf,   \* ExtractorOf[p]: the extractor p's binary has
          Parses,        \* Parses[p]: it was built with cgo
          None,
          MaxMoves,      \* how often HEAD may move
          MaxAsks,       \* how many builds all the processes may ask for
          MaxCuts        \* how many reads of blobs may end early

ASSUME IndexAssumption ==
    /\ IsFiniteSet(Procs)
    /\ Supported \subseteq Files
    /\ ExtractorOf \in [Procs -> Nat]
    /\ Parses \in [Procs -> BOOLEAN]
    /\ None \notin Commits
    /\ MaxMoves \in Nat /\ MaxAsks \in Nat /\ MaxCuts \in Nat

VARIABLES
    head,        \* the commit HEAD names
    objects,     \* the commits the object store still holds
    blocks,      \* blocks[i]: what inode i holds
    cacheAt,     \* the inode of code-index-<repo>.json, or None
    tmpAt,       \* the inode of code-index-<repo>.json.tmp, or None
    proc,        \* the processes
    moves, asks, cuts,
    patchCut,    \* some patch was cut short (bookkeeping of the model)
    overlapped   \* two processes were between open and rename at once (the same)

vars == <<head, objects, blocks, cacheAt, tmpAt, proc, moves, asks, cuts, patchCut, overlapped>>
world == <<head, objects, moves>>
disk == <<blocks, cacheAt, tmpAt, overlapped>>

-----------------------------------------------------------------------------
(* Indexes *)

Torn == [commit |-> None]      \* bytes json.Unmarshal refuses

(* supported: the files of a list whose extension Lang knows.              *)
Supports(fs) == fs \cap Supported

(* Parse of one blob by one extractor; parseAll keeps no file without symbols. *)
Declares(c, f) == TreeOf[c][f] \notin {Absent} \cup Opaque

Parsed(x, c, fs) ==
    [f \in {g \in fs : Declares(c, g)} |-> [extractor |-> x, blob |-> TreeOf[c][f]]]

Whole(p, c) == Parsed(ExtractorOf[p], c, Supports(Files))

Index(x, c, fs) == [commit |-> c, extractor |-> x, files |-> fs]

(* ChangedFiles: git diff --name-only --no-renames.                        *)
Changed(a, b) == {f \in Files : TreeOf[a][f] # TreeOf[b][f]}

(* Mutant: the fresh files enter, the deleted ones stay.                   *)
PatchNoDelete(p, ix, c, fresh) ==
    Index(ExtractorOf[p], c,
          [f \in DOMAIN ix.files \cup DOMAIN fresh |-> IF f \in DOMAIN fresh THEN fresh[f] ELSE ix.files[f]])

(* Patch: the changed files leave the index, what Build made of them enters. *)
Patch(p, ix, c, fresh) ==
    LET kept == Restrict(ix.files, DOMAIN ix.files \ Changed(ix.commit, c))
    IN  Index(ExtractorOf[p], c,
              [f \in DOMAIN kept \cup DOMAIN fresh |-> IF f \in DOMAIN fresh THEN fresh[f] ELSE kept[f]])

(* Mutant: a cache of another extractor is taken as well.                  *)
LoadableAny(p, ix) == ix # Torn

(* Load takes any file that parses and bears this binary's extractor.      *)
Loadable(p, ix) == ix # Torn /\ ix.extractor = ExtractorOf[p]

Idle == [at |-> "idle", rev |-> None, memo |-> None, ix |-> Torn, fd |-> None]

-----------------------------------------------------------------------------
Init ==
    /\ head \in Commits
    /\ objects = Commits
    /\ blocks = [i \in 0..Cardinality(Procs) + 1 |-> Torn]
    /\ cacheAt = None
    /\ tmpAt = None
    /\ proc = [p \in Procs |-> Idle]
    /\ moves = 0 /\ asks = 0 /\ cuts = 0
    /\ patchCut = FALSE
    /\ overlapped = FALSE

-----------------------------------------------------------------------------
(* GitSource *)

(* indexAt for a revision this process has not asked for: HEAD as it first saw *)
(* it (Head is memoised), or an older commit a verified date names.            *)
AskFor(p, c) ==
    /\ asks < MaxAsks
    /\ proc[p].at \in {"idle", "done"}
    /\ c \in objects
    /\ c # proc[p].rev
    /\ proc' = [proc EXCEPT ![p] = [Idle EXCEPT !.at = "load", !.rev = c,
                                       !.memo = IF proc[p].at = "done" THEN proc[p].memo ELSE head]]
    /\ asks' = asks + 1
    /\ UNCHANGED <<world, disk, cuts, patchCut>>

(* build: Load, then git diff from the commit of the cache.                *)
Load(p) ==
    /\ proc[p].at = "load"
    /\ proc' = [proc EXCEPT ![p] =
           IF cacheAt # None /\ Loadable(p, blocks[cacheAt])
           THEN [@ EXCEPT !.at = "diff", !.ix = blocks[cacheAt]]
           ELSE [@ EXCEPT !.at = "full"]]
    /\ UNCHANGED <<world, disk, asks, cuts, patchCut>>

DiffFails(p) ==
    /\ proc[p].at = "diff"
    /\ proc[p].ix.commit \notin objects
    /\ proc' = [proc EXCEPT ![p].at = "full"]
    /\ UNCHANGED <<world, disk, asks, cuts, patchCut>>

(* persist writes HEAD's index only, and none that is empty.               *)
Persists(p, ix) == proc[p].rev = proc[p].memo /\ ix.files # << >>

(* Mutant: a build that failed is saved as well.                           *)
BuiltSaved(p, ix, saves) ==
    proc' = [proc EXCEPT ![p].ix = ix,
                         ![p].at = IF Persists(p, ix) THEN "open" ELSE "done"]

(* An index is the answer of this ask, and is saved first where persist says so. *)
Built(p, ix, saves) ==
    proc' = [proc EXCEPT ![p].ix = ix,
                         ![p].at = IF saves /\ Persists(p, ix) THEN "open" ELSE "done"]

(* The files of fs whose blobs streamBlobs delivered: all, or fewer when git *)
(* cat-file ended early.                                                     *)
Delivered(fs) ==
    IF cuts < MaxCuts THEN SUBSET fs ELSE {fs}

(* build on a cache hit.  Build's error is dropped, whatever it was.       *)
PatchForward(p) ==
    LET c == proc[p].rev
        wanted == Supports(Changed(proc[p].ix.commit, c))
    IN  /\ proc[p].at = "diff"
        /\ proc[p].ix.commit \in objects
        /\ \E got \in (IF Parses[p] THEN Delivered(wanted) ELSE {{}}) :
               /\ Built(p, Patch(p, proc[p].ix, c, Parsed(ExtractorOf[p], c, got)), TRUE)
               /\ cuts' = IF Parses[p] /\ got # wanted THEN cuts + 1 ELSE cuts
               /\ patchCut' = (patchCut \/ got # wanted)
        /\ UNCHANGED <<world, disk, asks>>

(* full: ScanRepo and Build; an index of a failed build is used, not saved. *)
BuildFull(p) ==
    LET c == proc[p].rev
        wanted == Supports(Files)
    IN  /\ proc[p].at = "full"
        /\ \E got \in (IF Parses[p] THEN Delivered(wanted) ELSE {{}}) :
               /\ Built(p, Index(ExtractorOf[p], c, Parsed(ExtractorOf[p], c, got)),
                        Parses[p] /\ got = wanted)
               /\ cuts' = IF Parses[p] /\ got # wanted THEN cuts + 1 ELSE cuts
        /\ UNCHANGED <<world, disk, asks, patchCut>>

-----------------------------------------------------------------------------
(* Save: os.WriteFile of path.tmp opens and truncates, then writes; os.Rename. *)

Named == {cacheAt, tmpAt} \cup {proc[p].fd : p \in Procs}

(* An inode that loses its name is gone once no process holds it open.     *)
Unlinked(i) ==
    IF i = None \/ i \in {proc[p].fd : p \in Procs} THEN blocks ELSE [blocks EXCEPT ![i] = Torn]

Saving(p) == proc[p].at \in {"write", "rename"}

(* Mutant: the cache file itself is opened and truncated.                  *)
SaveOpenInPlace(p) ==
    /\ proc[p].at = "open"
    /\ LET i == IF cacheAt # None THEN cacheAt ELSE CHOOSE j \in DOMAIN blocks : j \notin Named
       IN  /\ tmpAt' = i
           /\ cacheAt' = i
           /\ blocks' = [blocks EXCEPT ![i] = Torn]
           /\ proc' = [proc EXCEPT ![p].at = "write", ![p].fd = i]
           /\ overlapped' = (overlapped \/ \E q \in Procs \ {p} : Saving(q))
    /\ UNCHANGED <<world, asks, cuts, patchCut>>

SaveOpen(p) ==
    /\ proc[p].at = "open"
    /\ LET i == IF tmpAt # None THEN tmpAt ELSE CHOOSE j \in DOMAIN blocks : j \notin Named
       IN  /\ tmpAt' = i
           /\ blocks' = [blocks EXCEPT ![i] = Torn]
           /\ proc' = [proc EXCEPT ![p].at = "write", ![p].fd = i]
           /\ overlapped' = (overlapped \/ \E q \in Procs \ {p} : Saving(q))
    /\ UNCHANGED <<world, cacheAt, asks, cuts, patchCut>>

(* Two writers of one inode: the later one's bytes lie over the earlier one's, *)
(* whose tail, where it was longer, is left and spoils the JSON.               *)
SaveWrite(p) ==
    /\ proc[p].at = "write"
    /\ \E b \in {proc[p].ix} \cup (IF blocks[proc[p].fd] # Torn THEN {Torn} ELSE {}) :
           blocks' = [blocks EXCEPT ![proc[p].fd] = b]
    /\ proc' = [proc EXCEPT ![p].at = "rename", ![p].fd = None]
    /\ UNCHANGED <<world, cacheAt, tmpAt, overlapped, asks, cuts, patchCut>>

(* Rename publishes whatever path.tmp names now; with nothing there it fails, *)
(* and persist does not mind.                                                 *)
SaveRename(p) ==
    /\ proc[p].at = "rename"
    /\ IF tmpAt # None
       THEN /\ cacheAt' = tmpAt
            /\ tmpAt' = None
            /\ blocks' = Unlinked(cacheAt)
       ELSE UNCHANGED <<blocks, cacheAt, tmpAt>>
    /\ proc' = [proc EXCEPT ![p].at = "done"]
    /\ UNCHANGED <<world, overlapped, asks, cuts, patchCut>>

-----------------------------------------------------------------------------
(* The world *)

(* The process ends, having used its answer, or is killed wherever it stands. *)
Exit(p) ==
    /\ proc[p].at # "idle"
    /\ proc' = [proc EXCEPT ![p] = Idle]
    /\ UNCHANGED <<world, disk, asks, cuts, patchCut>>

Move(c) ==
    /\ moves < MaxMoves
    /\ c \in objects \ {head}
    /\ head' = c
    /\ moves' = moves + 1
    /\ UNCHANGED <<objects, disk, proc, asks, cuts, patchCut>>

(* git gc drops commits nothing names any more; its grace period outlives any *)
(* process that still works on one.                                           *)
Gc(c) ==
    /\ c \in objects \ ({head} \cup UNION {{proc[p].rev, proc[p].memo} : p \in Procs})
    /\ objects' = objects \ {c}
    /\ UNCHANGED <<head, moves, disk, proc, asks, cuts, patchCut>>

(* Everything under .forge/ may be deleted.                                *)
DeleteCache ==
    /\ cacheAt # None
    /\ moves < MaxMoves
    /\ moves' = moves + 1
    /\ cacheAt' = None
    /\ blocks' = Unlinked(cacheAt)
    /\ UNCHANGED <<head, objects, tmpAt, overlapped, proc, asks, cuts, patchCut>>

Step(p) ==
    \/ Load(p)
    \/ DiffFails(p)
    \/ PatchForward(p)
    \/ BuildFull(p)
    \/ SaveOpen(p)
    \/ SaveWrite(p)
    \/ SaveRename(p)

Next ==
    \/ \E p \in Procs : Step(p) \/ Exit(p)
    \/ \E p \in Procs, c \in Commits : AskFor(p, c)
    \/ \E c \in Commits : Move(c) \/ Gc(c)
    \/ DeleteCache

Spec == Init /\ [][Next]_vars

-----------------------------------------------------------------------------
Entries == [extractor : {ExtractorOf[p] : p \in Procs}, blob : UNION {{TreeOf[c][f] : f \in Files} : c \in Commits}]

IsIndex(ix) ==
    \/ ix = Torn
    \/ /\ ix.commit \in Commits
       /\ \E p \in Procs : ix.extractor = ExtractorOf[p]
       /\ DOMAIN ix.files \subseteq Supported
       /\ \A f \in DOMAIN ix.files : ix.files[f] \in Entries

(* Inodes, offsets and places are what the program can have.               *)
TypeOK ==
    /\ head \in objects /\ objects \subseteq Commits
    /\ {cacheAt, tmpAt} \subseteq DOMAIN blocks \cup {None}
    /\ \A i \in DOMAIN blocks : IsIndex(blocks[i])
    /\ \A p \in Procs :
           /\ proc[p].at \in {"idle", "load", "diff", "full", "open", "write", "rename", "done"}
           /\ proc[p].rev \in Commits \cup {None} /\ proc[p].memo \in Commits \cup {None}
           /\ proc[p].fd \in DOMAIN blocks \cup {None}
           /\ IsIndex(proc[p].ix)
    /\ moves \in 0..MaxMoves /\ asks \in 0..MaxAsks /\ cuts \in 0..MaxCuts
    /\ patchCut \in BOOLEAN /\ overlapped \in BOOLEAN

(* A full build of the commit an index bears, by the extractor it bears.   *)
FullOf(ix) == Parsed(ix.extractor, ix.commit, Supports(Files))

True(ix) == ix # Torn => \A f \in DOMAIN ix.files : f \in DOMAIN FullOf(ix) /\ ix.files[f] = FullOf(ix)[f]

(* However many patches, kills, writers and extractors lie behind an index, on *)
(* disk or in a process, no entry of it is another than a full build of its    *)
(* commit by its extractor holds (store.go:46-47, "a pure function of tree     *)
(* state").                                                                    *)
NoWrongEntry ==
    /\ \A i \in DOMAIN blocks : True(blocks[i])
    /\ \A p \in Procs : True(proc[p].ix)

(* Nothing is missing from the file either, unless a patch was cut short: a   *)
(* full build that failed, a kill and an overlap leave no gap behind          *)
(* (gitindex.go:34-37).                                                       *)
NoGapUnlessPatchCut ==
    cacheAt # None /\ blocks[cacheAt] # Torn /\ ~patchCut
        => blocks[cacheAt].files = FullOf(blocks[cacheAt])

(* "A hook killed mid-write leaves the old index intact" (store.go:24): without *)
(* a second writer the cache file is never unreadable, killed writers and the   *)
(* temporary files they left included.                                          *)
TornOnlyByOverlap ==
    cacheAt # None /\ blocks[cacheAt] = Torn => overlapped

(* The cache is invisible: what processes are answered is what a service with *)
(* no cache would answer them.                                                *)
Service ==
    INSTANCE IndexService WITH
        asked <- [p \in Procs |-> proc[p].rev],
        answer <- [p \in Procs |-> IF proc[p].at \in {"open", "write", "rename", "done"}
                                   THEN proc[p].ix.files ELSE None],
        intact <- (cuts = 0 /\ ~patchCut)

ServesTheTree == Service!ServiceSpec
=============================================================================
