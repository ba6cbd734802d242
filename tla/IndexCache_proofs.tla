------------------------- MODULE IndexCache_proofs -------------------------
(***************************************************************************)
(* Proofs about IndexCache: for any number of processes, any history of    *)
(* commits and any extractors, the cache file holds no wrong entry, is     *)
(* whole unless a patch was cut short, is torn only by two writers, and is *)
(* invisible: the processes are answered as by a service with no cache.    *)
(***************************************************************************)
EXTENDS IndexCache, FiniteSetTheorems, TLAPS

Places == {"idle", "load", "diff", "full", "open", "write", "rename", "done"}
Answered == {"open", "write", "rename", "done"}
Inodes == 0..Cardinality(Procs) + 1
Extractors == {ExtractorOf[p] : p \in Procs}
FileMaps == UNION {[S -> Entries] : S \in SUBSET Supported}
Indexes == [commit : Commits, extractor : Extractors, files : FileMaps]
ProcStates == [at : Places, rev : Commits \cup {None}, memo : Commits \cup {None},
               ix : {Torn} \cup Indexes, fd : Inodes \cup {None}]

-----------------------------------------------------------------------------
(* The inductive invariant *)

Types ==
    /\ head \in objects /\ objects \subseteq Commits
    /\ blocks \in [Inodes -> {Torn} \cup Indexes]
    /\ cacheAt \in Inodes \cup {None}
    /\ tmpAt \in Inodes \cup {None}
    /\ proc \in [Procs -> ProcStates]
    /\ moves \in 0..MaxMoves /\ asks \in 0..MaxAsks /\ cuts \in 0..MaxCuts
    /\ patchCut \in BOOLEAN /\ overlapped \in BOOLEAN

(* What a process holds where it stands: a cache of its own extractor while it *)
(* diffs, an index of the commit it asked for once it has one, the temporary   *)
(* file while it writes.                                                       *)
Holds(s, p) ==
    /\ s.at # "idle" => s.rev \in Commits
    /\ s.at = "diff" => s.ix \in Indexes /\ s.ix.extractor = ExtractorOf[p]
    /\ s.at \in Answered => /\ s.ix \in Indexes
                            /\ s.ix.extractor = ExtractorOf[p]
                            /\ s.ix.commit = s.rev
    /\ s.at = "write" <=> s.fd # None

Holding == \A p \in Procs : Holds(proc[p], p)

(* Until a patch is cut short, whatever is or may become the cache is whole. *)
IsWhole(ix) == ix # Torn => ix.files = FullOf(ix)

Wholes ==
    ~patchCut =>
        /\ \A i \in Inodes : IsWhole(blocks[i])
        /\ \A p \in Procs : proc[p].at \in {"diff", "open", "write", "rename"} => IsWhole(proc[p].ix)

(* Until two writers overlap there is one, the temporary file is its own from  *)
(* open to rename, and the cache file is another inode that can be read.       *)
Apart == cacheAt # None => cacheAt # tmpAt

OneWriter ==
    ~overlapped =>
        /\ \A p, q \in Procs : Saving(p) /\ Saving(q) => p = q
        /\ cacheAt # None => blocks[cacheAt] # Torn
        /\ \A p \in Procs : proc[p].at = "write" => proc[p].fd = tmpAt /\ blocks[tmpAt] = Torn
        /\ \A p \in Procs : proc[p].at = "rename" => tmpAt # None /\ blocks[tmpAt] = proc[p].ix

-----------------------------------------------------------------------------
(* Indexes and the operators on them *)

(* Torn is no index: it bears no commit.                                   *)
LEMMA TornIsNoIndex == Torn \notin Indexes
  BY IndexAssumption DEF Torn, Indexes

(* The type the module states of an index is the type of the records.      *)
LEMMA IndexShape ==
  ASSUME NEW ix \in {Torn} \cup Indexes
  PROVE  IsIndex(ix)
<1>1. CASE ix = Torn
  BY <1>1 DEF IsIndex
<1>2. CASE ix \in Indexes
  <2>1. PICK S \in SUBSET Supported : ix.files \in [S -> Entries]
    BY <1>2 DEF Indexes, FileMaps
  <2> QED
    BY <1>2, <2>1 DEF IsIndex, Indexes, Extractors
<1> QED
  BY <1>1, <1>2

(* A parse of the files of a commit is a part of the full one.             *)
LEMMA ParsedIsPart ==
  ASSUME NEW x \in Extractors, NEW c \in Commits, NEW fs, fs \subseteq Supports(Files)
  PROVE  /\ DOMAIN Parsed(x, c, fs) \subseteq fs
         /\ Parsed(x, c, fs) \in FileMaps
         /\ Index(x, c, Parsed(x, c, fs)) \in Indexes
         /\ Index(x, c, Parsed(x, c, fs)) # Torn
         /\ True(Index(x, c, Parsed(x, c, fs)))
         /\ fs = Supports(Files) => IsWhole(Index(x, c, Parsed(x, c, fs)))
<1> DEFINE D == {g \in fs : Declares(c, g)}
<1>1. Parsed(x, c, fs) = [f \in D |-> [extractor |-> x, blob |-> TreeOf[c][f]]]
  BY DEF Parsed
<1>2. D \in SUBSET Supported /\ D \subseteq Files
  BY DEF Supports
<1>3. ASSUME NEW f \in D
      PROVE  [extractor |-> x, blob |-> TreeOf[c][f]] \in Entries
  BY <1>2 DEF Entries, Extractors
<1>4. Parsed(x, c, fs) \in [D -> Entries]
  BY <1>1, <1>3
<1>5. Parsed(x, c, fs) \in FileMaps
  BY <1>2, <1>4 DEF FileMaps
<1>6. Index(x, c, Parsed(x, c, fs)) \in Indexes
  BY <1>5 DEF Index, Indexes
<1>7. True(Index(x, c, Parsed(x, c, fs)))
  BY <1>1 DEF True, Index, FullOf, Parsed
<1>8. fs = Supports(Files) => IsWhole(Index(x, c, Parsed(x, c, fs)))
  BY DEF IsWhole, Index, FullOf
<1> QED
  BY <1>1, <1>5, <1>6, <1>7, <1>8, TornIsNoIndex

(* An index with nothing wrong in it, of p's extractor, is the part of p's full *)
(* build that it has the files of.                                              *)
LEMMA TrueIsPart ==
  ASSUME NEW p \in Procs, NEW ix \in Indexes, ix.extractor = ExtractorOf[p], True(ix)
  PROVE  /\ DOMAIN ix.files \in SUBSET DOMAIN Whole(p, ix.commit)
         /\ ix.files = Restrict(Whole(p, ix.commit), DOMAIN ix.files)
         /\ IsWhole(ix) => DOMAIN ix.files = DOMAIN Whole(p, ix.commit)
<1>1. FullOf(ix) = Whole(p, ix.commit)
  BY DEF FullOf, Whole
<1>2. ix # Torn
  BY TornIsNoIndex
<1>3. ix.files = [f \in DOMAIN ix.files |-> ix.files[f]]
  BY DEF Indexes, FileMaps
<1> QED
  BY <1>1, <1>2, <1>3 DEF True, Restrict, IsWhole

(* A patch of an index with nothing wrong in it has nothing wrong in it, and   *)
(* nothing missing if the index had not and every changed file was delivered.  *)
LEMMA PatchIsTrue ==
  ASSUME NEW p \in Procs, NEW ix \in Indexes, ix.extractor = ExtractorOf[p], True(ix),
         NEW c \in Commits, NEW got, got \subseteq Supports(Changed(ix.commit, c)),
         NEW new, new = Patch(p, ix, c, Parsed(ExtractorOf[p], c, got))
  PROVE  /\ new \in Indexes /\ new # Torn
         /\ new.extractor = ExtractorOf[p] /\ new.commit = c
         /\ True(new)
         /\ IsWhole(ix) /\ got = Supports(Changed(ix.commit, c)) => IsWhole(new)
<1> DEFINE x == ExtractorOf[p]
           old == ix.commit
           fresh == Parsed(x, c, got)
           keeps == DOMAIN ix.files \ Changed(old, c)
           kept == Restrict(ix.files, keeps)
           all == [f \in keeps \cup DOMAIN fresh |-> IF f \in DOMAIN fresh THEN fresh[f] ELSE kept[f]]
<1>0. /\ x \in Extractors /\ old \in Commits /\ ix # Torn
      /\ got \subseteq Supports(Files)
  BY TornIsNoIndex DEF Extractors, Indexes, Supports, Changed
<1>1. new = Index(x, c, all)
  BY DEF Patch, Restrict
<1>2. new.files = all /\ new.commit = c /\ new.extractor = x
  BY <1>1 DEF Index
<1>3. FullOf(new) = [f \in {g \in Supports(Files) : Declares(c, g)} |-> [extractor |-> x, blob |-> TreeOf[c][f]]]
  BY <1>2 DEF FullOf, Parsed
<1>4. FullOf(ix) = [f \in {g \in Supports(Files) : Declares(old, g)} |-> [extractor |-> x, blob |-> TreeOf[old][f]]]
  BY DEF FullOf, Parsed
<1>5. fresh = [f \in {g \in got : Declares(c, g)} |-> [extractor |-> x, blob |-> TreeOf[c][f]]]
  BY DEF Parsed
<1>6. ASSUME NEW f \in keeps
      PROVE  /\ f \in DOMAIN FullOf(new)
             /\ kept[f] = FullOf(new)[f]
  <2>1. f \in DOMAIN FullOf(ix) /\ ix.files[f] = FullOf(ix)[f]
    BY <1>0, <1>6 DEF True
  <2>2. f \in Files /\ TreeOf[c][f] = TreeOf[old][f]
    BY <2>1, <1>4, <1>6 DEF Supports, Changed, IndexAssumption
  <2>3. Declares(c, f)
    BY <2>1, <2>2, <1>4 DEF Declares
  <2>4. kept[f] = ix.files[f]
    BY <1>6 DEF Restrict
  <2> QED
    BY <2>1, <2>2, <2>3, <2>4, <1>3, <1>4
<1>7. ASSUME NEW f \in DOMAIN fresh
      PROVE  /\ f \in DOMAIN FullOf(new)
             /\ fresh[f] = FullOf(new)[f]
  BY <1>7, <1>5, <1>3, <1>0
<1>8. True(new)
  BY <1>2, <1>6, <1>7 DEF True
<1>9. new \in Indexes
  <2>1. keeps \cup DOMAIN fresh \in SUBSET Supported
    <3>1. DOMAIN FullOf(new) \subseteq Supported
      BY <1>3 DEF Supports
    <3> QED
      BY <3>1, <1>6, <1>7
  <2>2. ASSUME NEW f \in keeps \cup DOMAIN fresh
        PROVE  all[f] \in Entries
    <3>1. all[f] = FullOf(new)[f] /\ f \in DOMAIN FullOf(new)
      BY <2>2, <1>6, <1>7
    <3>2. f \in Files /\ all[f] = [extractor |-> x, blob |-> TreeOf[c][f]]
      BY <3>1, <1>3 DEF Supports
    <3>3. x \in {ExtractorOf[q] : q \in Procs} /\ TreeOf[c][f] \in UNION {{TreeOf[d][g] : g \in Files} : d \in Commits}
      BY <3>2
    <3> HIDE DEF all, x
    <3> QED
      BY <3>2, <3>3 DEF Entries
  <2>3. all \in FileMaps
    <3>1. all \in [keeps \cup DOMAIN fresh -> Entries]
      BY <2>2
    <3> HIDE DEF all, keeps, fresh
    <3> QED
      BY <3>1, <2>1 DEF FileMaps
  <2> QED
    BY <1>0, <1>1, <2>3 DEF Index, Indexes
<1>10. ASSUME IsWhole(ix), got = Supports(Changed(old, c))
       PROVE  IsWhole(new)
  <2>1. ix.files = FullOf(ix)
    BY <1>10, <1>0 DEF IsWhole
  <2>2. ASSUME NEW f \in DOMAIN FullOf(new)
        PROVE  f \in keeps \cup DOMAIN fresh
    <3>1. f \in Supports(Files) /\ Declares(c, f)
      BY <2>2, <1>3
    <3>2. CASE f \in Changed(old, c)
      BY <3>1, <3>2, <1>10, <1>5 DEF Supports
    <3>3. CASE f \notin Changed(old, c)
      <4>1. TreeOf[c][f] = TreeOf[old][f]
        BY <3>1, <3>3 DEF Supports, Changed
      <4>2. Declares(old, f)
        BY <3>1, <4>1 DEF Declares
      <4> QED
        BY <4>2, <3>1, <3>3, <2>1, <1>4
    <3> QED
      BY <3>2, <3>3
  <2>3. DOMAIN all = DOMAIN FullOf(new)
    BY <2>2, <1>6, <1>7
  <2>4. \A f \in DOMAIN all : all[f] = FullOf(new)[f]
    BY <1>6, <1>7
  <2>5. all = FullOf(new)
    BY <2>3, <2>4, <1>3
  <2> QED
    BY <2>5, <1>2 DEF IsWhole
<1> QED
  BY <1>2, <1>8, <1>9, <1>10, TornIsNoIndex

-----------------------------------------------------------------------------
(* One step of a process *)

Sound == Types /\ Holding /\ NoWrongEntry

(* What one step makes of process p, and of the two files.                 *)
ProcStep(p) ==
    /\ proc' = [proc EXCEPT ![p] = proc'[p]]
    /\ proc'[p] \in ProcStates
    /\ Holds(proc'[p], p)
    /\ True(proc'[p].ix)

DiskStep ==
    /\ blocks' \in [Inodes -> {Torn} \cup Indexes]
    /\ cacheAt' \in Inodes \cup {None}
    /\ tmpAt' \in Inodes \cup {None}
    /\ \A i \in Inodes : True(blocks'[i])

(* There is an inode without a name: the processes hold at most one each.  *)
LEMMA FreeInode ==
  ASSUME Sound, NEW p \in Procs, proc[p].at = "open", tmpAt = None,
         NEW i, i = CHOOSE j \in DOMAIN blocks : j \notin Named
  PROVE  i \in Inodes /\ i \notin Named /\ i # None
<1> DEFINE fds == {proc[q].fd : q \in Procs}
           N == Cardinality(Procs)
           hold == [q \in Procs |-> proc[q].fd]
<1>1. None \in fds
  BY DEF Sound, Holding, Holds, Types, ProcStates
<1>2. hold \in Surjection(Procs, fds)
  BY DEF Surjection
<1>3. IsFiniteSet(fds) /\ Cardinality(fds) <= N /\ N \in Nat
  BY <1>2, FS_Surjection, FS_CardinalityType, IndexAssumption
<1>4. Named = fds \cup {cacheAt}
  BY <1>1 DEF Named
<1>5. IsFiniteSet(Named) /\ Cardinality(Named) <= N + 1 /\ Cardinality(Named) \in Nat
  <2> HIDE DEF fds, N
  <2>1. Cardinality(fds) \in Nat
    BY <1>3, FS_CardinalityType
  <2>2. /\ IsFiniteSet(fds \cup {cacheAt})
        /\ Cardinality(fds \cup {cacheAt}) = IF cacheAt \in fds THEN Cardinality(fds) ELSE Cardinality(fds) + 1
    BY <1>3, FS_AddElement
  <2>3. Cardinality(Procs) \in Nat
    BY IndexAssumption, FS_CardinalityType
  <2> QED
    BY <1>3, <1>4, <2>1, <2>2, <2>3 DEF N
<1>6. Cardinality(Inodes) = N + 2 /\ IsFiniteSet(Inodes)
  BY <1>3, FS_Interval DEF Inodes
<1>7. ~ (Inodes \subseteq Named)
  <2> HIDE DEF N
  <2> QED
    BY <1>3, <1>5, <1>6, FS_Subset
<1>8. DOMAIN blocks = Inodes
  BY DEF Sound, Types
<1>9. i \in Inodes /\ i \notin Named
  BY <1>7, <1>8
<1> QED
  BY <1>9, <1>1, <1>4

LEMMA AskForMoves ==
  ASSUME Sound, NEW p \in Procs, NEW c \in Commits, AskFor(p, c)
  PROVE  /\ ProcStep(p)
         /\ proc'[p].at = "load" /\ proc'[p].rev = c
<1>1. proc'[p] = [at |-> "load", rev |-> c, memo |-> proc'[p].memo, ix |-> Torn, fd |-> None]
  BY DEF AskFor, Sound, Types, Idle
<1>2. proc'[p].memo \in Commits \cup {None}
  BY DEF AskFor, Sound, Types, Idle, ProcStates
<1>3. proc'[p] \in ProcStates
  BY <1>1, <1>2 DEF ProcStates, Places
<1>4. Holds(proc'[p], p) /\ True(proc'[p].ix)
  BY <1>1, <1>2 DEF Holds, True, Answered
<1> QED
  BY <1>1, <1>3, <1>4 DEF AskFor, ProcStep, Sound, Types

LEMMA LoadMoves ==
  ASSUME Sound, NEW p \in Procs, Load(p)
  PROVE  /\ ProcStep(p)
         /\ proc'[p].at \in {"diff", "full"} /\ proc'[p].rev = proc[p].rev
         /\ proc'[p].at = "diff" => cacheAt \in Inodes /\ proc'[p].ix = blocks[cacheAt]
<1> DEFINE s == proc[p]
<1>1. s \in ProcStates /\ s.at = "load" /\ Holds(s, p) /\ True(s.ix)
  BY DEF Load, Sound, Types, Holding, NoWrongEntry
<1>2. CASE cacheAt # None /\ Loadable(p, blocks[cacheAt])
  <2>1. proc'[p] = [s EXCEPT !.at = "diff", !.ix = blocks[cacheAt]]
    BY <1>2 DEF Load, Sound, Types
  <2>2. blocks[cacheAt] \in Indexes /\ cacheAt \in Inodes /\ True(blocks[cacheAt])
    BY <1>2 DEF Sound, Types, Loadable, NoWrongEntry
  <2>3. proc'[p] = [at |-> "diff", rev |-> s.rev, memo |-> s.memo, ix |-> blocks[cacheAt], fd |-> s.fd]
    BY <1>1, <2>1 DEF ProcStates
  <2>4. proc'[p] \in ProcStates
    BY <1>1, <2>2, <2>3 DEF ProcStates, Places
  <2>5. Holds(proc'[p], p) /\ True(proc'[p].ix)
    BY <1>1, <1>2, <2>2, <2>3 DEF Holds, Loadable, Answered
  <2> QED
    BY <2>2, <2>3, <2>4, <2>5 DEF ProcStep, Load, Sound, Types
<1>3. CASE ~ (cacheAt # None /\ Loadable(p, blocks[cacheAt]))
  <2>1. proc'[p] = [s EXCEPT !.at = "full"]
    BY <1>3 DEF Load, Sound, Types
  <2>3. proc'[p] = [at |-> "full", rev |-> s.rev, memo |-> s.memo, ix |-> s.ix, fd |-> s.fd]
    BY <1>1, <2>1 DEF ProcStates
  <2>4. proc'[p] \in ProcStates
    BY <1>1, <2>3 DEF ProcStates, Places
  <2>5. Holds(proc'[p], p) /\ True(proc'[p].ix)
    BY <1>1, <2>3 DEF Holds, Answered
  <2> QED
    BY <2>3, <2>4, <2>5 DEF ProcStep, Load, Sound, Types
<1> QED
  BY <1>2, <1>3

LEMMA DiffFailsMoves ==
  ASSUME Sound, NEW p \in Procs, DiffFails(p)
  PROVE  /\ ProcStep(p)
         /\ proc'[p].at = "full" /\ proc'[p].rev = proc[p].rev
<1> DEFINE s == proc[p]
<1>1. s \in ProcStates /\ s.at = "diff" /\ Holds(s, p) /\ True(s.ix)
  BY DEF DiffFails, Sound, Types, Holding, NoWrongEntry
<1>2. proc'[p] = [at |-> "full", rev |-> s.rev, memo |-> s.memo, ix |-> s.ix, fd |-> s.fd]
  BY <1>1 DEF DiffFails, Sound, Types, ProcStates
<1>3. proc'[p] \in ProcStates
  BY <1>1, <1>2 DEF ProcStates, Places
<1>4. Holds(proc'[p], p) /\ True(proc'[p].ix)
  BY <1>1, <1>2 DEF Holds, Answered
<1> QED
  BY <1>2, <1>3, <1>4 DEF ProcStep, DiffFails, Sound, Types

(* An answer is an index of the commit asked for with nothing wrong in it. *)
LEMMA BuiltMoves ==
  ASSUME Sound, NEW p \in Procs, proc[p].at \in {"diff", "full"}, NEW ix \in Indexes, NEW saves,
         ix.extractor = ExtractorOf[p], ix.commit = proc[p].rev, True(ix), Built(p, ix, saves)
  PROVE  /\ ProcStep(p)
         /\ proc'[p].at \in {"open", "done"}
         /\ proc'[p].at = "open" => saves
         /\ proc'[p].rev = proc[p].rev
         /\ proc'[p].ix = ix
<1> DEFINE s == proc[p]
           to == IF saves /\ Persists(p, ix) THEN "open" ELSE "done"
<1>1. s \in ProcStates /\ Holds(s, p)
  BY DEF Sound, Types, Holding
<1>2. proc' = [proc EXCEPT ![p] = [s EXCEPT !.ix = ix, !.at = to]]
  <2>1. proc' = [proc EXCEPT ![p].ix = ix, ![p].at = to]
    BY DEF Built
  <2> HIDE DEF to
  <2> QED
    BY <2>1 DEF Sound, Types
<1>3. proc'[p] = [at |-> to, rev |-> s.rev, memo |-> s.memo, ix |-> ix, fd |-> s.fd]
  <2> HIDE DEF to
  <2> QED
    BY <1>1, <1>2 DEF Sound, Types, ProcStates
<1>4. to \in {"open", "done"} /\ (to = "open" => saves)
  OBVIOUS
<1> HIDE DEF to
<1>5. proc'[p] \in ProcStates
  BY <1>1, <1>3, <1>4 DEF ProcStates, Places
<1>6. Holds(proc'[p], p)
  BY <1>1, <1>3, <1>4 DEF Holds, Answered
<1> QED
  BY <1>2, <1>3, <1>4, <1>5, <1>6 DEF ProcStep, Sound, Types

LEMMA PatchForwardMoves ==
  ASSUME Sound, NEW p \in Procs, PatchForward(p)
  PROVE  /\ ProcStep(p)
         /\ proc'[p].at \in {"open", "done"}
         /\ proc'[p].rev = proc[p].rev
         /\ cuts' \in 0..MaxCuts /\ cuts <= cuts'
         /\ patchCut' \in BOOLEAN /\ (patchCut => patchCut')
         /\ ~patchCut' /\ IsWhole(proc[p].ix) => IsWhole(proc'[p].ix)
<1> DEFINE s == proc[p]
           c == s.rev
           wanted == Supports(Changed(s.ix.commit, c))
<1>1. /\ s \in ProcStates /\ s.at = "diff" /\ c \in Commits /\ True(s.ix)
      /\ s.ix \in Indexes /\ s.ix.extractor = ExtractorOf[p]
  BY DEF PatchForward, Sound, Types, Holding, NoWrongEntry, Holds
<1>2. PICK got \in (IF Parses[p] THEN Delivered(wanted) ELSE {{}}) :
          /\ Built(p, Patch(p, s.ix, c, Parsed(ExtractorOf[p], c, got)), TRUE)
          /\ cuts' = IF Parses[p] /\ got # wanted THEN cuts + 1 ELSE cuts
          /\ patchCut' = (patchCut \/ got # wanted)
  BY DEF PatchForward
<1>3. got \subseteq wanted /\ (Parses[p] /\ got # wanted => cuts < MaxCuts)
  BY <1>2 DEF Delivered
<1> DEFINE new == Patch(p, s.ix, c, Parsed(ExtractorOf[p], c, got))
<1>4. /\ new \in Indexes /\ new.extractor = ExtractorOf[p] /\ new.commit = c /\ True(new)
      /\ IsWhole(s.ix) /\ got = wanted => IsWhole(new)
  <2> HIDE DEF new
  <2>1. new = Patch(p, s.ix, c, Parsed(ExtractorOf[p], c, got))
    BY DEF new
  <2> HIDE DEF s, c
  <2>2. got \subseteq Supports(Changed(s.ix.commit, c))
    BY <1>3 DEF wanted
  <2> HIDE DEF wanted
  <2> QED
    BY <1>1, <2>1, <2>2, PatchIsTrue DEF wanted
<1>5. Built(p, new, TRUE)
  BY <1>2
<1> HIDE DEF new, wanted
<1>6. /\ ProcStep(p)
      /\ proc'[p].at \in {"open", "done"} /\ proc'[p].rev = proc[p].rev /\ proc'[p].ix = new
  BY <1>1, <1>4, <1>5, BuiltMoves
<1>7. cuts' \in 0..MaxCuts /\ cuts <= cuts'
  BY <1>2, <1>3, IndexAssumption DEF Sound, Types
<1>8. patchCut' \in BOOLEAN /\ (patchCut => patchCut') /\ (~patchCut' => got = wanted)
  BY <1>2 DEF Sound, Types
<1> QED
  BY <1>4, <1>6, <1>7, <1>8

LEMMA BuildFullMoves ==
  ASSUME Sound, NEW p \in Procs, BuildFull(p)
  PROVE  /\ ProcStep(p)
         /\ proc'[p].at \in {"open", "done"}
         /\ proc'[p].at = "open" => IsWhole(proc'[p].ix)
         /\ proc'[p].rev = proc[p].rev
         /\ cuts' \in 0..MaxCuts /\ cuts <= cuts'
         /\ ~Parses[p] \/ cuts' > cuts \/ IsWhole(proc'[p].ix)
<1> DEFINE s == proc[p]
           c == s.rev
           wanted == Supports(Files)
           x == ExtractorOf[p]
<1>1. s \in ProcStates /\ s.at = "full" /\ c \in Commits /\ x \in Extractors
  BY DEF BuildFull, Sound, Types, Holding, Holds, Extractors
<1>2. PICK got \in (IF Parses[p] THEN Delivered(wanted) ELSE {{}}) :
          /\ Built(p, Index(x, c, Parsed(x, c, got)), Parses[p] /\ got = wanted)
          /\ cuts' = IF Parses[p] /\ got # wanted THEN cuts + 1 ELSE cuts
  BY DEF BuildFull
<1>3. got \subseteq wanted /\ (Parses[p] /\ got # wanted => cuts < MaxCuts)
  BY <1>2 DEF Delivered
<1> DEFINE new == Index(x, c, Parsed(x, c, got))
<1>4. /\ new \in Indexes /\ new.extractor = x /\ new.commit = c /\ True(new)
      /\ got = wanted => IsWhole(new)
  <2>1. new.extractor = x /\ new.commit = c
    BY DEF Index
  <2> QED
    BY <1>1, <1>3, <2>1, ParsedIsPart
<1>5. Built(p, new, Parses[p] /\ got = wanted)
  BY <1>2
<1> HIDE DEF new, wanted, x
<1>6. /\ ProcStep(p)
      /\ proc'[p].at \in {"open", "done"} /\ proc'[p].rev = proc[p].rev /\ proc'[p].ix = new
      /\ proc'[p].at = "open" => Parses[p] /\ got = wanted
  <2>1. new.extractor = ExtractorOf[p]
    BY <1>4 DEF x
  <2> QED
    BY <1>1, <1>4, <1>5, <2>1, BuiltMoves
<1>7. cuts' \in 0..MaxCuts /\ cuts <= cuts' /\ (Parses[p] /\ got # wanted => cuts' > cuts)
  BY <1>2, <1>3, IndexAssumption DEF Sound, Types
<1> QED
  BY <1>4, <1>6, <1>7

LEMMA SaveOpenMoves ==
  ASSUME Sound, NEW p \in Procs, SaveOpen(p)
  PROVE  /\ ProcStep(p) /\ DiskStep
         /\ proc'[p].at = "write" /\ proc'[p].rev = proc[p].rev /\ proc'[p].ix = proc[p].ix
         /\ proc'[p].fd = tmpAt' /\ tmpAt' \in Inodes /\ tmpAt' # None
         /\ tmpAt = None \/ tmpAt' = tmpAt
         /\ tmpAt = None => tmpAt' \notin Named
         /\ blocks' = [blocks EXCEPT ![tmpAt'] = Torn]
<1> DEFINE s == proc[p]
           i == IF tmpAt # None THEN tmpAt ELSE CHOOSE j \in DOMAIN blocks : j \notin Named
<1>1. s \in ProcStates /\ s.at = "open" /\ Holds(s, p) /\ True(s.ix)
  BY DEF SaveOpen, Sound, Types, Holding, NoWrongEntry
<1>2. i \in Inodes /\ i # None /\ (tmpAt = None => i \notin Named) /\ (tmpAt = None \/ i = tmpAt)
  <2>1. CASE tmpAt = None
    BY <2>1, <1>1, FreeInode
  <2>2. CASE tmpAt # None
    BY <2>2 DEF Sound, Types
  <2> QED
    BY <2>1, <2>2
<1>3. /\ tmpAt' = i /\ cacheAt' = cacheAt
      /\ blocks' = [blocks EXCEPT ![i] = Torn]
      /\ proc' = [proc EXCEPT ![p].at = "write", ![p].fd = i]
  BY DEF SaveOpen
<1> HIDE DEF i
<1>4. proc'[p] = [at |-> "write", rev |-> s.rev, memo |-> s.memo, ix |-> s.ix, fd |-> i]
  BY <1>1, <1>3 DEF Sound, Types, ProcStates
<1>5. proc'[p] \in ProcStates
  BY <1>1, <1>2, <1>4 DEF ProcStates, Places
<1>6. Holds(proc'[p], p) /\ True(proc'[p].ix)
  BY <1>1, <1>2, <1>4 DEF Holds, Answered
<1>7. proc' = [proc EXCEPT ![p] = proc'[p]]
  BY <1>3 DEF Sound, Types
<1>8. DiskStep
  BY <1>2, <1>3 DEF DiskStep, Sound, Types, NoWrongEntry, True
<1> QED
  BY <1>2, <1>3, <1>4, <1>5, <1>6, <1>7, <1>8 DEF ProcStep

LEMMA SaveWriteMoves ==
  ASSUME Sound, NEW p \in Procs, SaveWrite(p)
  PROVE  /\ ProcStep(p) /\ DiskStep
         /\ proc'[p].at = "rename" /\ proc'[p].rev = proc[p].rev /\ proc'[p].ix = proc[p].ix
         /\ proc[p].ix # Torn
         /\ proc[p].fd \in Inodes
         /\ \E b \in {proc[p].ix, Torn} :
                /\ blocks' = [blocks EXCEPT ![proc[p].fd] = b]
                /\ blocks[proc[p].fd] = Torn => b = proc[p].ix
<1> DEFINE s == proc[p]
<1>1. s \in ProcStates /\ s.at = "write" /\ Holds(s, p) /\ True(s.ix)
  BY DEF SaveWrite, Sound, Types, Holding, NoWrongEntry
<1>2. s.fd \in Inodes /\ s.ix \in Indexes /\ s.ix # Torn
  BY <1>1, TornIsNoIndex DEF ProcStates, Holds, Answered
<1>3. PICK b \in {s.ix} \cup (IF blocks[s.fd] # Torn THEN {Torn} ELSE {}) :
          blocks' = [blocks EXCEPT ![s.fd] = b]
  BY DEF SaveWrite
<1>4. b \in {s.ix, Torn} /\ (blocks[s.fd] = Torn => b = s.ix)
  BY <1>3
<1>5. proc'[p] = [at |-> "rename", rev |-> s.rev, memo |-> s.memo, ix |-> s.ix, fd |-> None]
  BY <1>1 DEF SaveWrite, Sound, Types, ProcStates
<1>6. proc'[p] \in ProcStates
  BY <1>1, <1>5 DEF ProcStates, Places
<1>7. Holds(proc'[p], p) /\ True(proc'[p].ix)
  BY <1>1, <1>5 DEF Holds, Answered
<1>8. proc' = [proc EXCEPT ![p] = proc'[p]]
  BY DEF SaveWrite, Sound, Types
<1>9. DiskStep
  <2>1. cacheAt' = cacheAt /\ tmpAt' = tmpAt
    BY DEF SaveWrite
  <2>2. b \in {Torn} \cup Indexes /\ True(b)
    BY <1>1, <1>2, <1>4 DEF True
  <2> QED
    BY <1>2, <1>3, <2>1, <2>2 DEF DiskStep, Sound, Types, NoWrongEntry
<1>10. \E d \in {s.ix, Torn} : blocks' = [blocks EXCEPT ![s.fd] = d] /\ (blocks[s.fd] = Torn => d = s.ix)
  BY <1>3, <1>4
<1>11. proc'[p].at = "rename" /\ proc'[p].rev = s.rev /\ proc'[p].ix = s.ix
  BY <1>5
<1> QED
  BY <1>2, <1>6, <1>7, <1>8, <1>9, <1>10, <1>11 DEF ProcStep

(* Taking a name from an inode leaves every other inode as it was.         *)
LEMMA UnlinkedLeaves ==
  ASSUME Sound, NEW i \in Inodes \cup {None}
  PROVE  /\ Unlinked(i) \in [Inodes -> {Torn} \cup Indexes]
         /\ \A j \in Inodes : True(Unlinked(i)[j])
         /\ \A j \in Inodes : Unlinked(i)[j] \in {blocks[j], Torn}
         /\ \A j \in Inodes : j # i => Unlinked(i)[j] = blocks[j]
  BY DEF Unlinked, Sound, Types, NoWrongEntry, True

LEMMA SaveRenameMoves ==
  ASSUME Sound, NEW p \in Procs, SaveRename(p)
  PROVE  /\ ProcStep(p) /\ DiskStep
         /\ proc'[p].at = "done" /\ proc'[p].rev = proc[p].rev /\ proc'[p].ix = proc[p].ix
         /\ IF tmpAt # None
            THEN cacheAt' = tmpAt /\ tmpAt' = None /\ blocks' = Unlinked(cacheAt)
            ELSE UNCHANGED <<blocks, cacheAt, tmpAt>>
<1> DEFINE s == proc[p]
<1>1. s \in ProcStates /\ s.at = "rename" /\ Holds(s, p) /\ True(s.ix)
  BY DEF SaveRename, Sound, Types, Holding, NoWrongEntry
<1>2. proc'[p] = [at |-> "done", rev |-> s.rev, memo |-> s.memo, ix |-> s.ix, fd |-> s.fd]
  BY <1>1 DEF SaveRename, Sound, Types, ProcStates
<1>3. proc'[p] \in ProcStates
  BY <1>1, <1>2 DEF ProcStates, Places
<1>4. Holds(proc'[p], p) /\ True(proc'[p].ix)
  BY <1>1, <1>2 DEF Holds, Answered
<1>5. proc' = [proc EXCEPT ![p] = proc'[p]]
  BY DEF SaveRename, Sound, Types
<1>6. DiskStep
  <2>1. CASE tmpAt # None
    BY <2>1, UnlinkedLeaves DEF SaveRename, DiskStep, Sound, Types
  <2>2. CASE tmpAt = None
    BY <2>2 DEF SaveRename, DiskStep, Sound, Types, NoWrongEntry
  <2> QED
    BY <2>1, <2>2
<1> QED
  BY <1>2, <1>3, <1>4, <1>5, <1>6 DEF ProcStep, SaveRename

LEMMA ExitMoves ==
  ASSUME Sound, NEW p \in Procs, Exit(p)
  PROVE  ProcStep(p) /\ proc'[p] = Idle
<1>1. proc'[p] = Idle
  BY DEF Exit, Sound, Types
<1>2. Idle \in ProcStates
  BY DEF Idle, ProcStates, Places
<1>3. Holds(Idle, p) /\ True(Idle.ix)
  BY DEF Idle, Holds, Answered, True
<1> QED
  BY <1>1, <1>2, <1>3 DEF Exit, ProcStep, Sound, Types

-----------------------------------------------------------------------------
(* Types, holdings and entries *)

LEMMA SoundInit == Init => Sound
<1> SUFFICES ASSUME Init PROVE Sound
  OBVIOUS
<1>1. Idle \in ProcStates
  BY DEF Idle, ProcStates, Places
<1>2. Types
  <2>1. blocks = [i \in Inodes |-> Torn] /\ proc = [p \in Procs |-> Idle]
    BY DEF Init, Inodes
  <2>2. 0 \in 0..MaxMoves /\ 0 \in 0..MaxAsks /\ 0 \in 0..MaxCuts
    BY IndexAssumption
  <2> QED
    BY <1>1, <2>1, <2>2 DEF Init, Types
<1>3. Holding
  BY DEF Init, Holding, Holds, Idle, Answered
<1>4. NoWrongEntry
  BY DEF Init, NoWrongEntry, True, Idle
<1> QED
  BY <1>2, <1>3, <1>4 DEF Sound

(* A step of one process that keeps the disk's shape keeps all three.      *)
LEMMA SoundOfProc ==
  ASSUME Sound, NEW p \in Procs, ProcStep(p), DiskStep,
         head' \in objects', objects' \subseteq Commits,
         moves' \in 0..MaxMoves, asks' \in 0..MaxAsks, cuts' \in 0..MaxCuts,
         patchCut' \in BOOLEAN, overlapped' \in BOOLEAN
  PROVE  Sound'
<1>1. proc' \in [Procs -> ProcStates]
  BY DEF Sound, Types, ProcStep
<1>2. \A q \in Procs : proc'[q] = IF q = p THEN proc'[p] ELSE proc[q]
  BY DEF Sound, Types, ProcStep
<1>3. Types'
  BY <1>1 DEF Types, DiskStep
<1>4. Holding'
  BY <1>2 DEF Sound, Holding, ProcStep
<1>5. NoWrongEntry'
  BY <1>2 DEF Sound, NoWrongEntry, ProcStep, DiskStep, Types
<1> QED
  BY <1>3, <1>4, <1>5 DEF Sound

LEMMA DiskStays ==
  ASSUME Sound, UNCHANGED <<blocks, cacheAt, tmpAt>>
  PROVE  DiskStep
  BY DEF Sound, Types, NoWrongEntry, DiskStep

LEMMA SoundNext == Sound /\ [Next]_vars => Sound'
<1> SUFFICES ASSUME Sound, [Next]_vars PROVE Sound'
  OBVIOUS
<1>0. /\ head \in objects /\ objects \subseteq Commits
      /\ moves \in 0..MaxMoves /\ asks \in 0..MaxAsks /\ cuts \in 0..MaxCuts
      /\ patchCut \in BOOLEAN /\ overlapped \in BOOLEAN
      /\ MaxMoves \in Nat /\ MaxAsks \in Nat /\ MaxCuts \in Nat
  BY IndexAssumption DEF Sound, Types
<1>1. ASSUME NEW p \in Procs, Load(p) PROVE Sound'
  BY <1>0, <1>1, LoadMoves, DiskStays, SoundOfProc DEF Load, world, disk
<1>2. ASSUME NEW p \in Procs, DiffFails(p) PROVE Sound'
  BY <1>0, <1>2, DiffFailsMoves, DiskStays, SoundOfProc DEF DiffFails, world, disk
<1>3. ASSUME NEW p \in Procs, PatchForward(p) PROVE Sound'
  <2>1. /\ ProcStep(p) /\ cuts' \in 0..MaxCuts /\ patchCut' \in BOOLEAN
    BY <1>3, PatchForwardMoves
  <2>2. UNCHANGED <<world, disk, asks>>
    BY <1>3 DEF PatchForward
  <2> QED
    BY <1>0, <2>1, <2>2, DiskStays, SoundOfProc DEF world, disk
<1>4. ASSUME NEW p \in Procs, BuildFull(p) PROVE Sound'
  <2>1. /\ ProcStep(p) /\ cuts' \in 0..MaxCuts
    BY <1>4, BuildFullMoves
  <2>2. UNCHANGED <<world, disk, asks, patchCut>>
    BY <1>4 DEF BuildFull
  <2> QED
    BY <1>0, <2>1, <2>2, DiskStays, SoundOfProc DEF world, disk
<1>5. ASSUME NEW p \in Procs, SaveOpen(p) PROVE Sound'
  <2>1. ProcStep(p) /\ DiskStep
    BY <1>5, SaveOpenMoves
  <2>2. UNCHANGED <<world, asks, cuts, patchCut>> /\ overlapped' \in BOOLEAN
    BY <1>5 DEF SaveOpen
  <2> QED
    BY <1>0, <2>1, <2>2, SoundOfProc DEF world
<1>6. ASSUME NEW p \in Procs, SaveWrite(p) PROVE Sound'
  <2>1. ProcStep(p) /\ DiskStep
    BY <1>6, SaveWriteMoves
  <2>2. UNCHANGED <<world, overlapped, asks, cuts, patchCut>>
    BY <1>6 DEF SaveWrite
  <2> QED
    BY <1>0, <2>1, <2>2, SoundOfProc DEF world
<1>7. ASSUME NEW p \in Procs, SaveRename(p) PROVE Sound'
  <2>1. ProcStep(p) /\ DiskStep
    BY <1>7, SaveRenameMoves
  <2>2. UNCHANGED <<world, overlapped, asks, cuts, patchCut>>
    BY <1>7 DEF SaveRename
  <2> QED
    BY <1>0, <2>1, <2>2, SoundOfProc DEF world
<1>8. ASSUME NEW p \in Procs, Exit(p) PROVE Sound'
  BY <1>0, <1>8, ExitMoves, DiskStays, SoundOfProc DEF Exit, world, disk
<1>9. ASSUME NEW p \in Procs, NEW c \in Commits, AskFor(p, c) PROVE Sound'
  <2>1. ProcStep(p)
    BY <1>9, AskForMoves
  <2>2. UNCHANGED <<world, disk, cuts, patchCut>> /\ asks' = asks + 1 /\ asks < MaxAsks
    BY <1>9 DEF AskFor
  <2> QED
    BY <1>0, <2>1, <2>2, DiskStays, SoundOfProc DEF world, disk
<1>10. ASSUME NEW c \in Commits, Move(c) PROVE Sound'
  <2>1. Types'
    BY <1>0, <1>10 DEF Move, Sound, Types, disk
  <2> QED
    BY <1>10, <2>1 DEF Move, Sound, disk, Holding, NoWrongEntry
<1>11. ASSUME NEW c \in Commits, Gc(c) PROVE Sound'
  <2>1. Types'
    BY <1>0, <1>11 DEF Gc, Sound, Types, disk
  <2> QED
    BY <1>11, <2>1 DEF Gc, Sound, disk, Holding, NoWrongEntry
<1>12. ASSUME DeleteCache PROVE Sound'
  <2>1. DiskStep
    BY <1>12, UnlinkedLeaves DEF DeleteCache, Sound, Types, DiskStep
  <2>2. Types'
    BY <1>0, <1>12, <2>1 DEF DeleteCache, Sound, Types, DiskStep
  <2>3. NoWrongEntry' /\ Holding'
    BY <1>12, <2>1 DEF DeleteCache, Sound, Types, DiskStep, NoWrongEntry, Holding
  <2> QED
    BY <2>2, <2>3 DEF Sound
<1>13. ASSUME UNCHANGED vars PROVE Sound'
  BY <1>13 DEF vars, Sound, Types, Holding, NoWrongEntry
<1> QED
  BY <1>1, <1>2, <1>3, <1>4, <1>5, <1>6, <1>7, <1>8, <1>9, <1>10, <1>11, <1>12, <1>13 DEF Next, Step

LEMMA AlwaysSound == Spec => []Sound
  BY SoundInit, SoundNext, PTL DEF Spec

(* Inodes, offsets and places are what the program can have, for any number *)
(* of processes and commits (pkg/drift/gitindex.go, pkg/codeindex/store.go). *)
THEOREM IndexTypes == Spec => []TypeOK
<1>1. Sound => TypeOK
  <2> SUFFICES ASSUME Sound PROVE TypeOK
    OBVIOUS
  <2>1. \A i \in DOMAIN blocks : IsIndex(blocks[i])
    BY IndexShape DEF Sound, Types
  <2>2. ASSUME NEW p \in Procs
        PROVE  /\ proc[p].at \in {"idle", "load", "diff", "full", "open", "write", "rename", "done"}
               /\ proc[p].rev \in Commits \cup {None} /\ proc[p].memo \in Commits \cup {None}
               /\ proc[p].fd \in DOMAIN blocks \cup {None}
               /\ IsIndex(proc[p].ix)
    <3>1. proc[p] \in ProcStates /\ DOMAIN blocks = Inodes
      BY DEF Sound, Types
    <3> QED
      BY <3>1, IndexShape DEF ProcStates, Places
  <2> QED
    BY <2>1, <2>2 DEF Sound, Types, TypeOK
<1> QED
  BY <1>1, AlwaysSound, PTL

(* No entry of an index, on disk or in a process, is another than a full build *)
(* of its commit by its extractor holds: a patch drops every file that changed *)
(* and takes the rest from an index of which the same was true                 *)
(* (pkg/codeindex/build.go, store.go:46-47).                                   *)
THEOREM EntriesAlwaysTrue == Spec => []NoWrongEntry
<1>1. Sound => NoWrongEntry
  BY DEF Sound
<1> QED
  BY <1>1, AlwaysSound, PTL

-----------------------------------------------------------------------------
(* Whole until a patch is cut short *)

LEMMA WholesInit == Init => Wholes
  BY DEF Init, Wholes, IsWhole, Idle, Inodes

LEMMA WholesOfProc ==
  ASSUME Sound, Wholes, NEW p \in Procs, ProcStep(p),
         patchCut => patchCut',
         ~patchCut' => \A i \in Inodes : IsWhole(blocks'[i]),
         ~patchCut' => (proc'[p].at \in {"diff", "open", "write", "rename"} => IsWhole(proc'[p].ix))
  PROVE  Wholes'
<1>1. \A q \in Procs : proc'[q] = IF q = p THEN proc'[p] ELSE proc[q]
  BY DEF Sound, Types, ProcStep
<1> SUFFICES ASSUME ~patchCut'
             PROVE  /\ \A i \in Inodes : IsWhole(blocks'[i])
                    /\ \A q \in Procs : proc'[q].at \in {"diff", "open", "write", "rename"} => IsWhole(proc'[q].ix)
  BY DEF Wholes, IsWhole, FullOf
<1>2. ~patchCut
  OBVIOUS
<1> QED
  BY <1>1, <1>2 DEF Wholes

LEMMA WholesNext == Sound /\ Wholes /\ [Next]_vars => Wholes'
<1> SUFFICES ASSUME Sound, Wholes, [Next]_vars PROVE Wholes'
  OBVIOUS
<1> DEFINE Near == {"diff", "open", "write", "rename"}
<1>0. /\ ~patchCut => \A i \in Inodes : IsWhole(blocks[i])
      /\ ~patchCut => \A p \in Procs : proc[p].at \in Near => IsWhole(proc[p].ix)
  BY DEF Wholes
<1>t. IsWhole(Torn)
  BY DEF IsWhole
<1>1. ASSUME NEW p \in Procs, Load(p) PROVE Wholes'
  <2>1. ProcStep(p) /\ proc'[p].at \in {"diff", "full"}
    BY <1>1, LoadMoves
  <2>2. proc'[p].at = "diff" => cacheAt \in Inodes /\ proc'[p].ix = blocks[cacheAt]
    BY <1>1, LoadMoves
  <2>3. UNCHANGED <<blocks, patchCut>>
    BY <1>1 DEF Load, disk
  <2> QED
    BY <1>0, <2>1, <2>2, <2>3, WholesOfProc
<1>2. ASSUME NEW p \in Procs, DiffFails(p) PROVE Wholes'
  <2>1. ProcStep(p) /\ proc'[p].at = "full"
    BY <1>2, DiffFailsMoves
  <2>2. UNCHANGED <<blocks, patchCut>>
    BY <1>2 DEF DiffFails, disk
  <2> QED
    BY <1>0, <2>1, <2>2, WholesOfProc
<1>3. ASSUME NEW p \in Procs, PatchForward(p) PROVE Wholes'
  <2>1. /\ ProcStep(p) /\ (patchCut => patchCut')
        /\ ~patchCut' /\ IsWhole(proc[p].ix) => IsWhole(proc'[p].ix)
    BY <1>3, PatchForwardMoves
  <2>2. UNCHANGED blocks /\ proc[p].at = "diff"
    BY <1>3 DEF PatchForward, disk
  <2> QED
    BY <1>0, <2>1, <2>2, WholesOfProc
<1>4. ASSUME NEW p \in Procs, BuildFull(p) PROVE Wholes'
  <2>1. /\ ProcStep(p) /\ proc'[p].at \in {"open", "done"}
        /\ proc'[p].at = "open" => IsWhole(proc'[p].ix)
    BY <1>4, BuildFullMoves
  <2>2. UNCHANGED <<blocks, patchCut>>
    BY <1>4 DEF BuildFull, disk
  <2> QED
    BY <1>0, <2>1, <2>2, WholesOfProc
<1>5. ASSUME NEW p \in Procs, SaveOpen(p) PROVE Wholes'
  <2>1. /\ ProcStep(p) /\ proc'[p].ix = proc[p].ix
        /\ blocks' = [blocks EXCEPT ![tmpAt'] = Torn]
    BY <1>5, SaveOpenMoves
  <2>2. UNCHANGED patchCut /\ proc[p].at = "open"
    BY <1>5 DEF SaveOpen
  <2>3. \A i \in Inodes : blocks'[i] \in {blocks[i], Torn}
    BY <2>1 DEF Sound, Types
  <2> QED
    BY <1>0, <1>t, <2>1, <2>2, <2>3, WholesOfProc
<1>6. ASSUME NEW p \in Procs, SaveWrite(p) PROVE Wholes'
  <2>1. /\ ProcStep(p) /\ proc'[p].ix = proc[p].ix
        /\ \E b \in {proc[p].ix, Torn} : blocks' = [blocks EXCEPT ![proc[p].fd] = b]
    BY <1>6, SaveWriteMoves
  <2>2. UNCHANGED patchCut /\ proc[p].at = "write"
    BY <1>6 DEF SaveWrite
  <2>3. \A i \in Inodes : blocks'[i] \in {blocks[i], proc[p].ix, Torn}
    BY <2>1 DEF Sound, Types
  <2> QED
    BY <1>0, <1>t, <2>1, <2>2, <2>3, WholesOfProc
<1>7. ASSUME NEW p \in Procs, SaveRename(p) PROVE Wholes'
  <2>1. ProcStep(p) /\ proc'[p].at = "done" /\ (tmpAt # None => blocks' = Unlinked(cacheAt))
        /\ (tmpAt = None => blocks' = blocks)
    BY <1>7, SaveRenameMoves
  <2>2. UNCHANGED patchCut
    BY <1>7 DEF SaveRename
  <2>3. \A i \in Inodes : blocks'[i] \in {blocks[i], Torn}
    BY <2>1, UnlinkedLeaves DEF Sound, Types
  <2> QED
    BY <1>0, <1>t, <2>1, <2>2, <2>3, WholesOfProc
<1>8. ASSUME NEW p \in Procs, Exit(p) PROVE Wholes'
  <2>1. ProcStep(p) /\ proc'[p].at = "idle"
    BY <1>8, ExitMoves DEF Idle
  <2>2. UNCHANGED <<blocks, patchCut>>
    BY <1>8 DEF Exit, disk
  <2> QED
    BY <1>0, <2>1, <2>2, WholesOfProc
<1>9. ASSUME NEW p \in Procs, NEW c \in Commits, AskFor(p, c) PROVE Wholes'
  <2>1. ProcStep(p) /\ proc'[p].at = "load"
    BY <1>9, AskForMoves
  <2>2. UNCHANGED <<blocks, patchCut>>
    BY <1>9 DEF AskFor, disk
  <2> QED
    BY <1>0, <2>1, <2>2, WholesOfProc
<1>10. ASSUME DeleteCache PROVE Wholes'
  <2>1. UNCHANGED <<proc, patchCut>> /\ blocks' = Unlinked(cacheAt)
    BY <1>10 DEF DeleteCache
  <2>2. \A i \in Inodes : blocks'[i] \in {blocks[i], Torn}
    BY <2>1, UnlinkedLeaves DEF Sound, Types
  <2> QED
    BY <1>0, <1>t, <2>1, <2>2 DEF Wholes
<1>11. ASSUME UNCHANGED <<blocks, proc, patchCut>> PROVE Wholes'
  BY <1>11 DEF Wholes
<1> QED
  BY <1>1, <1>2, <1>3, <1>4, <1>5, <1>6, <1>7, <1>8, <1>9, <1>10, <1>11
     DEF Next, Step, Move, Gc, vars, disk

LEMMA AlwaysWhole == Spec => [](Sound /\ Wholes)
  BY SoundInit, SoundNext, WholesInit, WholesNext, PTL DEF Spec

(* The cache file lacks nothing a full build of its commit finds, unless some  *)
(* patch was cut short: failed full builds are not saved, and no kill, no      *)
(* second writer and no failed diff leaves a gap (pkg/drift/gitindex.go:34-37).*)
THEOREM GapsOnlyFromCutPatches == Spec => []NoGapUnlessPatchCut
<1>1. Sound /\ Wholes => NoGapUnlessPatchCut
  BY DEF Sound, Types, Wholes, IsWhole, NoGapUnlessPatchCut
<1> QED
  BY <1>1, AlwaysWhole, PTL

-----------------------------------------------------------------------------
(* One writer at a time, or a torn file *)

Alone == Apart /\ OneWriter

LEMMA AloneInit == Init => Alone
  BY DEF Init, Alone, Apart, OneWriter, Saving, Idle

(* A step of a process that saves nothing, before and after.               *)
LEMMA AloneOfProc ==
  ASSUME Sound, Alone, NEW p \in Procs, ProcStep(p), ~Saving(p)', UNCHANGED disk
  PROVE  Alone'
<1>1. \A q \in Procs : proc'[q] = IF q = p THEN proc'[p] ELSE proc[q]
  BY DEF Sound, Types, ProcStep
<1> QED
  BY <1>1 DEF Alone, Apart, OneWriter, Saving, disk

LEMMA AloneNext == Sound /\ Alone /\ [Next]_vars => Alone'
<1> SUFFICES ASSUME Sound, Alone, [Next]_vars PROVE Alone'
  OBVIOUS
<1>0. /\ cacheAt \in Inodes \cup {None} /\ tmpAt \in Inodes \cup {None}
      /\ blocks \in [Inodes -> {Torn} \cup Indexes]
      /\ cacheAt # None => cacheAt # tmpAt
  BY DEF Sound, Types, Alone, Apart
<1>1. ASSUME NEW p \in Procs, Load(p) PROVE Alone'
  BY <1>1, LoadMoves, AloneOfProc DEF Load, Saving
<1>2. ASSUME NEW p \in Procs, DiffFails(p) PROVE Alone'
  BY <1>2, DiffFailsMoves, AloneOfProc DEF DiffFails, Saving
<1>3. ASSUME NEW p \in Procs, PatchForward(p) PROVE Alone'
  <2>1. ProcStep(p) /\ proc'[p].at \in {"open", "done"}
    BY <1>3, PatchForwardMoves
  <2>2. UNCHANGED disk
    BY <1>3 DEF PatchForward
  <2> QED
    BY <2>1, <2>2, AloneOfProc DEF Saving
<1>4. ASSUME NEW p \in Procs, BuildFull(p) PROVE Alone'
  <2>1. ProcStep(p) /\ proc'[p].at \in {"open", "done"}
    BY <1>4, BuildFullMoves
  <2>2. UNCHANGED disk
    BY <1>4 DEF BuildFull
  <2> QED
    BY <2>1, <2>2, AloneOfProc DEF Saving
<1>5. ASSUME NEW p \in Procs, SaveOpen(p) PROVE Alone'
  <2>1. /\ proc'[p].at = "write" /\ proc'[p].fd = tmpAt' /\ tmpAt' \in Inodes
        /\ tmpAt = None \/ tmpAt' = tmpAt
        /\ tmpAt = None => tmpAt' \notin Named
        /\ blocks' = [blocks EXCEPT ![tmpAt'] = Torn]
    BY <1>5, SaveOpenMoves
  <2>2. \A q \in Procs : proc'[q] = IF q = p THEN proc'[p] ELSE proc[q]
    BY <1>5, SaveOpenMoves DEF Sound, Types, ProcStep
  <2>3. cacheAt' = cacheAt /\ overlapped' = (overlapped \/ \E q \in Procs \ {p} : Saving(q))
    BY <1>5 DEF SaveOpen
  <2>4. cacheAt # None => cacheAt # tmpAt'
    BY <1>0, <2>1 DEF Named
  <2>5. Apart'
    BY <2>3, <2>4 DEF Apart
  <2>6. ASSUME ~overlapped'
        PROVE  /\ \A q \in Procs : Saving(q)' => q = p
               /\ cacheAt' # None => blocks'[cacheAt'] # Torn
               /\ blocks'[tmpAt'] = Torn
    <3>1. \A q \in Procs : Saving(q) => q = p
      BY <2>3, <2>6
    <3>2. \A q \in Procs : Saving(q)' => q = p
      BY <2>2, <3>1 DEF Saving
    <3>3. cacheAt # None => blocks[cacheAt] # Torn
      BY <2>3, <2>6 DEF Alone, OneWriter
    <3> QED
      BY <1>0, <2>1, <2>3, <2>4, <3>2, <3>3
  <2>7. OneWriter'
    BY <2>1, <2>6 DEF OneWriter, Saving
  <2> QED
    BY <2>5, <2>7 DEF Alone
<1>6. ASSUME NEW p \in Procs, SaveWrite(p) PROVE Alone'
  <2>1. proc'[p].at = "rename" /\ proc'[p].ix = proc[p].ix /\ proc[p].ix # Torn /\ proc[p].fd \in Inodes
    BY <1>6, SaveWriteMoves
  <2>2. \A q \in Procs : proc'[q] = IF q = p THEN proc'[p] ELSE proc[q]
    BY <1>6, SaveWriteMoves DEF Sound, Types, ProcStep
  <2>3. PICK b \in {proc[p].ix, Torn} :
            /\ blocks' = [blocks EXCEPT ![proc[p].fd] = b]
            /\ blocks[proc[p].fd] = Torn => b = proc[p].ix
    BY <1>6, SaveWriteMoves
  <2>4. proc[p].at = "write" /\ cacheAt' = cacheAt /\ tmpAt' = tmpAt /\ overlapped' = overlapped
    BY <1>6 DEF SaveWrite
  <2>5. Apart'
    BY <2>4 DEF Apart, Alone
  <2>6. ASSUME ~overlapped
        PROVE  /\ \A q \in Procs : Saving(q)' => q = p
               /\ cacheAt' # None => blocks'[cacheAt'] # Torn
               /\ tmpAt' # None /\ blocks'[tmpAt'] = proc'[p].ix
    <3>1. /\ \A q \in Procs : Saving(q) => q = p
          /\ cacheAt # None => blocks[cacheAt] # Torn
          /\ proc[p].fd = tmpAt /\ blocks[tmpAt] = Torn
      BY <2>4, <2>6 DEF Alone, OneWriter, Saving
    <3>2. \A q \in Procs : Saving(q)' => q = p
      BY <2>2, <3>1 DEF Saving
    <3>3. proc[p].fd # None
      BY <2>4 DEF Sound, Holding, Holds
    <3> QED
      BY <1>0, <2>1, <2>3, <2>4, <3>1, <3>2, <3>3
  <2>7. OneWriter'
    BY <2>1, <2>4, <2>6 DEF OneWriter, Saving
  <2> QED
    BY <2>5, <2>7 DEF Alone
<1>7. ASSUME NEW p \in Procs, SaveRename(p) PROVE Alone'
  <2>1. /\ proc'[p].at = "done"
        /\ tmpAt # None => cacheAt' = tmpAt /\ tmpAt' = None /\ blocks' = Unlinked(cacheAt)
        /\ tmpAt = None => UNCHANGED <<blocks, cacheAt, tmpAt>>
    BY <1>7, SaveRenameMoves
  <2>2. \A q \in Procs : proc'[q] = IF q = p THEN proc'[p] ELSE proc[q]
    BY <1>7, SaveRenameMoves DEF Sound, Types, ProcStep
  <2>3. proc[p].at = "rename" /\ overlapped' = overlapped
    BY <1>7 DEF SaveRename
  <2>4. Apart'
    BY <1>0, <2>1 DEF Apart
  <2>5. ASSUME ~overlapped
        PROVE  /\ \A q \in Procs : ~Saving(q)'
               /\ blocks'[cacheAt'] # Torn
    <3>1. /\ \A q \in Procs : Saving(q) => q = p
          /\ tmpAt # None /\ blocks[tmpAt] = proc[p].ix
      BY <2>3, <2>5 DEF Alone, OneWriter, Saving
    <3>2. \A q \in Procs : ~Saving(q)'
      BY <2>1, <2>2, <3>1 DEF Saving
    <3>3. proc[p].ix # Torn
      BY <2>3, TornIsNoIndex DEF Sound, Holding, Holds, Answered
    <3>4. Unlinked(cacheAt)[tmpAt] = blocks[tmpAt]
      BY <1>0, <3>1, UnlinkedLeaves
    <3> QED
      BY <2>1, <3>1, <3>2, <3>3, <3>4
  <2>6. OneWriter'
    BY <2>3, <2>5 DEF OneWriter, Saving
  <2> QED
    BY <2>4, <2>6 DEF Alone
<1>8. ASSUME NEW p \in Procs, Exit(p) PROVE Alone'
  <2>1. ProcStep(p) /\ proc'[p].at = "idle"
    BY <1>8, ExitMoves DEF Idle
  <2>2. UNCHANGED disk
    BY <1>8 DEF Exit
  <2> QED
    BY <2>1, <2>2, AloneOfProc DEF Saving
<1>9. ASSUME NEW p \in Procs, NEW c \in Commits, AskFor(p, c) PROVE Alone'
  <2>1. ProcStep(p) /\ proc'[p].at = "load"
    BY <1>9, AskForMoves
  <2>2. UNCHANGED disk
    BY <1>9 DEF AskFor
  <2> QED
    BY <2>1, <2>2, AloneOfProc DEF Saving
<1>10. ASSUME DeleteCache PROVE Alone'
  <2>1. /\ UNCHANGED <<proc, tmpAt, overlapped>> /\ cacheAt' = None
        /\ cacheAt # None /\ blocks' = Unlinked(cacheAt)
    BY <1>10 DEF DeleteCache
  <2>2. tmpAt # None => blocks'[tmpAt] = blocks[tmpAt]
    BY <1>0, <2>1, UnlinkedLeaves
  <2>3. \A p \in Procs : proc[p].at = "write" => proc[p].fd # None
    BY DEF Sound, Holding, Holds
  <2> QED
    BY <2>1, <2>2, <2>3 DEF Alone, Apart, OneWriter, Saving
<1>11. ASSUME UNCHANGED <<proc, disk>> PROVE Alone'
  BY <1>11 DEF Alone, Apart, OneWriter, Saving, disk
<1> QED
  BY <1>1, <1>2, <1>3, <1>4, <1>5, <1>6, <1>7, <1>8, <1>9, <1>10, <1>11
     DEF Next, Step, Move, Gc, vars, disk

(* Without a second writer between another's open and rename the cache file is *)
(* never unreadable, whoever is killed and whatever temporary file he left     *)
(* (pkg/codeindex/store.go:24).                                                *)
THEOREM TornMeansOverlap == Spec => []TornOnlyByOverlap
<1>1. Alone => TornOnlyByOverlap
  BY DEF Alone, OneWriter, TornOnlyByOverlap
<1> QED
  BY <1>1, SoundInit, SoundNext, AloneInit, AloneNext, PTL DEF Spec

-----------------------------------------------------------------------------
(* The cache is invisible: IndexCache implements IndexService *)

Given(s) == IF s.at \in {"open", "write", "rename", "done"} THEN s.ix.files ELSE None

LEMMA OthersStay ==
  ASSUME Sound, NEW p \in Procs, ProcStep(p)
  PROVE  /\ [q \in Procs |-> proc'[q].rev] = [[q \in Procs |-> proc[q].rev] EXCEPT ![p] = proc'[p].rev]
         /\ [q \in Procs |-> Given(proc'[q])] = [[q \in Procs |-> Given(proc[q])] EXCEPT ![p] = Given(proc'[p])]
<1>1. \A q \in Procs : proc'[q] = IF q = p THEN proc'[p] ELSE proc[q]
  BY DEF Sound, Types, ProcStep
<1> QED
  BY <1>1

(* A process that has an index now and had none is answered as the service  *)
(* may answer it.                                                           *)
LEMMA AnswersAreParts ==
  ASSUME Sound, NEW p \in Procs, ProcStep(p),
         proc[p].at \in {"diff", "full"}, proc'[p].at \in {"open", "done"},
         proc'[p].rev = proc[p].rev,
         IsWhole(proc'[p].ix) \/ ~Parses[p] \/ ~(cuts' = 0 /\ ~patchCut')
  PROVE  Service!Answer(p)
<1> DEFINE ix == proc'[p].ix
           c == proc[p].rev
<1>1. /\ ix \in Indexes /\ ix.extractor = ExtractorOf[p] /\ ix.commit = c /\ True(ix)
      /\ c \in Commits /\ c # None
  BY IndexAssumption DEF Sound, Holding, ProcStep, Holds, Answered
<1>2. /\ DOMAIN ix.files \in SUBSET DOMAIN Whole(p, c)
      /\ ix.files = Restrict(Whole(p, c), DOMAIN ix.files)
      /\ IsWhole(ix) => DOMAIN ix.files = DOMAIN Whole(p, c)
  BY <1>1, TrueIsPart
<1>3. Given(proc[p]) = None /\ Given(proc'[p]) = ix.files
  BY DEF Given
<1>4. /\ [q \in Procs |-> proc'[q].rev] = [q \in Procs |-> proc[q].rev]
      /\ [q \in Procs |-> Given(proc'[q])] = [[q \in Procs |-> Given(proc[q])] EXCEPT ![p] = ix.files]
  BY <1>3, OthersStay
<1>5. \E S \in SUBSET DOMAIN Whole(p, c) :
          /\ [q \in Procs |-> Given(proc'[q])] = [[q \in Procs |-> Given(proc[q])] EXCEPT ![p] = Restrict(Whole(p, c), S)]
          /\ S # DOMAIN Whole(p, c) => ~Parses[p] \/ ~(cuts' = 0 /\ ~patchCut')
  BY <1>2, <1>4
<1>6. [q \in Procs |-> proc[q].rev][p] = c /\ [q \in Procs |-> Given(proc[q])][p] = None
  BY <1>3
<1> DEFINE asked == [q \in Procs |-> proc[q].rev]
           answer == [q \in Procs |-> Given(proc[q])]
           answerNow == [q \in Procs |-> Given(proc'[q])]
<1>7. /\ asked[p] # None /\ answer[p] = None
      /\ \E S \in SUBSET DOMAIN Whole(p, asked[p]) :
             /\ answerNow = [answer EXCEPT ![p] = Restrict(Whole(p, asked[p]), S)]
             /\ S # DOMAIN Whole(p, asked[p]) => ~Parses[p] \/ ~(cuts' = 0 /\ ~patchCut')
      /\ [q \in Procs |-> proc'[q].rev] = asked
  <2>1. asked[p] = c
    OBVIOUS
  <2> HIDE DEF asked
  <2> QED
    BY <1>1, <1>4, <1>5, <1>6, <2>1 DEF asked
<1> QED
  BY <1>7 DEF Service!Answer, Given, Service!Restrict, Restrict

LEMMA ServiceInitial == Init => Service!ServiceInit
  BY DEF Init, Idle, Service!ServiceInit

LEMMA ServiceStep == Sound /\ Wholes /\ [Next]_vars => [Service!ServiceNext]_(Service!serviceVars)
<1> SUFFICES ASSUME Sound, Wholes, [Next]_vars
             PROVE  Service!ServiceNext \/ UNCHANGED Service!serviceVars
  OBVIOUS
<1>0. cuts \in Nat
  BY IndexAssumption DEF Sound, Types
<1> DEFINE Same(p) == /\ proc'[p].rev = proc[p].rev
                      /\ Given(proc'[p]) = Given(proc[p])
(* A step that neither asks nor answers.                                   *)
<1>s. ASSUME NEW p \in Procs, ProcStep(p), Same(p), UNCHANGED <<cuts, patchCut>>
      PROVE  UNCHANGED Service!serviceVars
  <2>1. /\ [q \in Procs |-> proc'[q].rev] = [q \in Procs |-> proc[q].rev]
        /\ [q \in Procs |-> Given(proc'[q])] = [q \in Procs |-> Given(proc[q])]
    BY <1>s, OthersStay
  <2> QED
    BY <1>s, <2>1 DEF Service!serviceVars, Given
<1>1. ASSUME NEW p \in Procs, Load(p) PROVE UNCHANGED Service!serviceVars
  <2>1. ProcStep(p) /\ Same(p)
    BY <1>1, LoadMoves DEF Load, Given
  <2> QED
    BY <1>s, <1>1, <2>1 DEF Load
<1>2. ASSUME NEW p \in Procs, DiffFails(p) PROVE UNCHANGED Service!serviceVars
  <2>1. ProcStep(p) /\ Same(p)
    BY <1>2, DiffFailsMoves DEF DiffFails, Given
  <2> QED
    BY <1>s, <1>2, <2>1 DEF DiffFails
<1>3. ASSUME NEW p \in Procs, PatchForward(p) PROVE Service!ServiceNext
  <2>1. /\ ProcStep(p) /\ proc'[p].at \in {"open", "done"} /\ proc'[p].rev = proc[p].rev
        /\ cuts' \in 0..MaxCuts /\ cuts <= cuts' /\ (patchCut => patchCut')
        /\ ~patchCut' /\ IsWhole(proc[p].ix) => IsWhole(proc'[p].ix)
    BY <1>3, PatchForwardMoves
  <2>2. proc[p].at = "diff"
    BY <1>3 DEF PatchForward
  <2>3. patchCut' \/ IsWhole(proc'[p].ix)
    BY <2>1, <2>2 DEF Wholes
  <2>4. Service!Answer(p)
    BY <2>1, <2>2, <2>3, AnswersAreParts
  <2>5. (cuts' = 0 /\ ~patchCut') => (cuts = 0 /\ ~patchCut)
    BY <1>0, <2>1
  <2> QED
    BY <2>4, <2>5 DEF Service!ServiceNext
<1>4. ASSUME NEW p \in Procs, BuildFull(p) PROVE Service!ServiceNext
  <2>1. /\ ProcStep(p) /\ proc'[p].at \in {"open", "done"} /\ proc'[p].rev = proc[p].rev
        /\ cuts' \in 0..MaxCuts /\ cuts <= cuts'
        /\ ~Parses[p] \/ cuts' > cuts \/ IsWhole(proc'[p].ix)
    BY <1>4, BuildFullMoves
  <2>2. proc[p].at = "full" /\ patchCut' = patchCut
    BY <1>4 DEF BuildFull
  <2>3. IsWhole(proc'[p].ix) \/ ~Parses[p] \/ ~(cuts' = 0 /\ ~patchCut')
    BY <1>0, <2>1
  <2>4. Service!Answer(p)
    BY <2>1, <2>2, <2>3, AnswersAreParts
  <2>5. (cuts' = 0 /\ ~patchCut') => (cuts = 0 /\ ~patchCut)
    BY <1>0, <2>1, <2>2
  <2> QED
    BY <2>4, <2>5 DEF Service!ServiceNext
<1>5. ASSUME NEW p \in Procs, SaveOpen(p) PROVE UNCHANGED Service!serviceVars
  <2>1. ProcStep(p) /\ Same(p)
    <3>1. proc[p].at = "open"
      BY <1>5 DEF SaveOpen
    <3>2. /\ ProcStep(p) /\ proc'[p].at \in {"write", "rename", "done"}
          /\ proc'[p].rev = proc[p].rev /\ proc'[p].ix = proc[p].ix
      BY <1>5, SaveOpenMoves
    <3> QED
      BY <3>1, <3>2 DEF Given
  <2> QED
    BY <1>s, <1>5, <2>1 DEF SaveOpen
<1>6. ASSUME NEW p \in Procs, SaveWrite(p) PROVE UNCHANGED Service!serviceVars
  <2>1. ProcStep(p) /\ Same(p)
    <3>1. proc[p].at = "write"
      BY <1>6 DEF SaveWrite
    <3>2. /\ ProcStep(p) /\ proc'[p].at \in {"write", "rename", "done"}
          /\ proc'[p].rev = proc[p].rev /\ proc'[p].ix = proc[p].ix
      BY <1>6, SaveWriteMoves
    <3> QED
      BY <3>1, <3>2 DEF Given
  <2> QED
    BY <1>s, <1>6, <2>1 DEF SaveWrite
<1>7. ASSUME NEW p \in Procs, SaveRename(p) PROVE UNCHANGED Service!serviceVars
  <2>1. ProcStep(p) /\ Same(p)
    <3>1. proc[p].at = "rename"
      BY <1>7 DEF SaveRename
    <3>2. /\ ProcStep(p) /\ proc'[p].at \in {"write", "rename", "done"}
          /\ proc'[p].rev = proc[p].rev /\ proc'[p].ix = proc[p].ix
      BY <1>7, SaveRenameMoves
    <3> QED
      BY <3>1, <3>2 DEF Given
  <2> QED
    BY <1>s, <1>7, <2>1 DEF SaveRename
<1>8. ASSUME NEW p \in Procs, Exit(p) PROVE Service!ServiceNext
  <2>1. ProcStep(p) /\ proc'[p].rev = None /\ Given(proc'[p]) = None
    BY <1>8, ExitMoves DEF Idle, Given
  <2>2. UNCHANGED <<cuts, patchCut>>
    BY <1>8 DEF Exit
  <2>3. Service!Leave(p)
    BY <2>1, <2>2, OthersStay DEF Service!Leave, Given
  <2> QED
    BY <2>2, <2>3 DEF Service!ServiceNext
<1>9. ASSUME NEW p \in Procs, NEW c \in Commits, AskFor(p, c) PROVE Service!ServiceNext
  <2>1. ProcStep(p) /\ proc'[p].rev = c /\ Given(proc'[p]) = None
    BY <1>9, AskForMoves DEF Given
  <2>2. UNCHANGED <<cuts, patchCut>>
    BY <1>9 DEF AskFor
  <2>3. Service!Ask(p, c)
    BY <2>1, <2>2, OthersStay DEF Service!Ask, Given
  <2> QED
    BY <2>2, <2>3 DEF Service!ServiceNext
<1>10. ASSUME UNCHANGED <<proc, cuts, patchCut>> PROVE UNCHANGED Service!serviceVars
  BY <1>10 DEF Service!serviceVars
<1> QED
  BY <1>1, <1>2, <1>3, <1>4, <1>5, <1>6, <1>7, <1>8, <1>9, <1>10
     DEF Next, Step, Move, Gc, DeleteCache, vars

(* What processes are answered, through a cache that others write, tear, patch *)
(* and delete and with commits collected under it, is what a service with no   *)
(* cache would answer them (pkg/drift/gitindex.go:34-52).                      *)
THEOREM CacheIsInvisible == Spec => ServesTheTree
  BY SoundInit, SoundNext, WholesInit, WholesNext, ServiceInitial, ServiceStep, PTL
     DEF Spec, ServesTheTree, Service!ServiceSpec
=============================================================================
