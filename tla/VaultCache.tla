------------------------------ MODULE VaultCache ------------------------------
(***************************************************************************)
(* The derived cache <vault>/.forge/cache/index.db (pkg/store) between its  *)
(* writers forge index and forge reindex (cmd/forge/index.go) and forge     *)
(* recall, which reads it and heals it (cmd/forge/recall_load.go), while    *)
(* somebody edits the vault.  A note is its text: the columns of `notes`    *)
(* are derived from it, and so are its rows in note_stack and note_tags,    *)
(* which are other tables, read and deleted by other statements.            *)
(***************************************************************************)
EXTENDS Naturals, Sequences, FiniteSets, SequencesExt

CONSTANTS Notes,     \* the vault-relative paths of content notes
          Texts,     \* what a note may say
          Size,      \* Size[text]: its bytes
          Indexers,  \* processes of forge index and forge reindex
          Recalls,   \* processes of forge recall and forge intent
          MaxTime, MaxEdits, MaxRuns, MaxKills    \* bounds

Procs == Indexers \cup Recalls
Kids == {"stack", "tags"}      \* the child tables recall reads
Gone == "gone"                 \* no file, no row, no values
None == [text |-> Gone]

ASSUME CacheAssumption ==
    /\ Size \in [Texts -> Nat]
    /\ Gone \notin Texts
    /\ Indexers \cap Recalls = {}
    /\ IsFiniteSet(Notes)
    /\ MaxTime \in Nat \ {0} /\ {MaxEdits, MaxRuns, MaxKills} \subseteq Nat

VARIABLES disk,      \* disk[n]: the file, or None
          clock,     \* the second it is
          notes,     \* notes[n]: the row of the table notes, or None
          kids,      \* kids[t][n]: the text whose values table t holds for n, or Gone
          pc, job,   \* job[p]: the local variables of process p
          alone,     \* alone[p]: nothing but p has changed disk or cache since it began
          whole,     \* no writer has overlapped another process or been cut short
                     \* since the last undisturbed forge index
          edits, runs, kills   \* counters for the bounds

world == <<disk, clock>>
db == <<notes, kids>>
bounds == <<edits, runs, kills>>
vars == <<disk, clock, notes, kids, pc, job, alone, whole, edits, runs, kills>>

File == [text : Texts, mtime : 1 .. MaxTime]
\* a row remembers, for the properties, when its text was read and when it was stamped
Row == [text : Texts, mtime : 0 .. MaxTime, size : {Size[t] : t \in Texts},
        readAt : 1 .. MaxTime, madeAt : 1 .. MaxTime]
Doc == [text : Texts, stack : Texts \cup {Gone}, tags : Texts \cup {Gone}]

Files == {n \in Notes : disk[n] # None}
Rows == {n \in Notes : notes[n] # None}

Idle == [cached |-> [n \in Notes |-> None],   \* what Rows() returned
         todo |-> << >>,                      \* what Walk returned and is not yet done
         row |-> None,                        \* the file in hand
         parsed |-> [n \in Notes |-> None],   \* rows made from markdown
         docs |-> [n \in Notes |-> None]]     \* what recall ranks

Init ==
    /\ disk \in [Notes -> {None} \cup [text : Texts, mtime : {1}]]
    /\ clock = 1
    /\ notes = [n \in Notes |-> None]
    /\ kids = [t \in Kids |-> [n \in Notes |-> Gone]]
    /\ pc = [p \in Procs |-> "idle"]
    /\ job = [p \in Procs |-> Idle]
    /\ alone = [p \in Procs |-> TRUE]
    /\ whole = TRUE
    /\ edits = 0 /\ runs = 0 /\ kills = 0

Goto(p, l) == pc' = [pc EXCEPT ![p] = l]
Keep(p, f, v) == job' = [job EXCEPT ![p][f] = v]
Others(p) == {q \in Procs \ {p} : pc[q] # "idle"}
\* the processes at work, but for p, have had something changed under them
Changed(p) == alone' = [q \in Procs |-> alone[q] /\ q \notin Others(p)]
Disturb(p) == Changed(p) /\ whole' = (whole /\ Others(p) = {})

(* Mutant: a note whose size is the same has not changed.                  *)
MatchesSize(row, file) == row # None /\ file # None /\ row.size = Size[file.text]

(* Fresh: the row the database holds now has the file's stamp.             *)
Matches(row, file) == row # None /\ file # None /\ row.mtime = file.mtime /\ row.size = Size[file.text]
Fresh(n, file) == Matches(notes[n], file)

-----------------------------------------------------------------------------
(* Starting: index walks at once, reindex deletes first, recall reads first. *)

Begin(p, l) ==
    /\ pc[p] = "idle" /\ runs < MaxRuns
    /\ runs' = runs + 1
    /\ job' = [job EXCEPT ![p] = Idle]
    /\ alone' = [alone EXCEPT ![p] = Others(p) = {}]
    /\ Goto(p, l)
    /\ UNCHANGED <<world, db, whole, edits, kills>>

StartIndex == \E p \in Indexers : Begin(p, "walk")
StartReindex == \E p \in Indexers : Begin(p, "reset notes")
StartRecall == \E p \in Recalls : Begin(p, "read notes")

(* Reset: one DELETE per table, each of its own transaction.               *)
ResetNotes(p) ==
    /\ pc[p] = "reset notes"
    /\ notes' = [n \in Notes |-> None]
    /\ Goto(p, "reset stack") /\ Disturb(p)
    /\ UNCHANGED <<world, kids, job, bounds>>

ResetKids(p, t, from, to) ==
    /\ pc[p] = from
    /\ kids' = [kids EXCEPT ![t] = [n \in Notes |-> Gone]]
    /\ Goto(p, to) /\ Disturb(p)
    /\ UNCHANGED <<world, notes, job, bounds>>

Reset ==
    \E p \in Indexers :
        \/ ResetNotes(p)
        \/ ResetKids(p, "stack", "reset stack", "reset tags")
        \/ ResetKids(p, "tags", "reset tags", "walk")

(* Rows: three queries, each of the database as it is by then.             *)
ReadNotes(p) ==
    /\ pc[p] = "read notes"
    /\ Keep(p, "cached", [n \in Notes |-> IF notes[n] = None THEN None
                                          ELSE [row |-> notes[n], stack |-> Gone, tags |-> Gone]])
    /\ Goto(p, "read stack")
    /\ UNCHANGED <<world, db, alone, whole, bounds>>

Attach(p, t, from, to) ==
    /\ pc[p] = from
    /\ Keep(p, "cached", [n \in Notes |-> IF job[p].cached[n] = None THEN None
                                          ELSE [job[p].cached[n] EXCEPT ![t] = kids[t][n]]])
    /\ Goto(p, to)
    /\ UNCHANGED <<world, db, alone, whole, bounds>>

ReadRows ==
    \E p \in Recalls :
        \/ ReadNotes(p)
        \/ Attach(p, "stack", "read stack", "read tags")
        \/ Attach(p, "tags", "read tags", "walk")

Walk(p) ==
    /\ pc[p] = "walk"
    /\ Keep(p, "todo", SetToSeq(Files))
    /\ Goto(p, "next")
    /\ UNCHANGED <<world, db, alone, whole, bounds>>

-----------------------------------------------------------------------------
(* Per note.  Load reads the file and asks for its mtime afterwards.        *)

Done(p) == Tail(job[p].todo)

(* rowFor: stat, and then the row in hand, if the database still agrees.    *)
Stat(p) ==
    LET n == Head(job[p].todo)
    IN  /\ pc[p] = "next" /\ p \in Recalls /\ job[p].todo # << >>
        /\ IF disk[n] = None
           THEN Keep(p, "todo", Done(p)) /\ UNCHANGED pc
           ELSE Keep(p, "row", disk[n]) /\ Goto(p, "ask")
        /\ UNCHANGED <<world, db, alone, whole, bounds>>

Ask(p) ==
    LET n == Head(job[p].todo)
        c == job[p].cached[n]
    IN  /\ pc[p] = "ask"
        /\ \/ /\ c # None /\ Fresh(n, job[p].row)
              /\ job' = [job EXCEPT ![p].docs[n] = [text |-> c.row.text, stack |-> c.stack, tags |-> c.tags],
                                    ![p].todo = Done(p)]
              /\ Goto(p, "next")
           \/ /\ c = None \/ ~Fresh(n, job[p].row) \/ Others(p) # {}     \* or the query fails
              /\ Goto(p, "load") /\ UNCHANGED job
        /\ UNCHANGED <<world, db, alone, whole, bounds>>

(* Load, and the loop of loadNotes.                                         *)
Load(p) ==
    LET n == Head(job[p].todo)
    IN  /\ pc[p] = IF p \in Recalls THEN "load" ELSE "next"
        /\ job[p].todo # << >>
        /\ IF disk[n] = None
           THEN Keep(p, "todo", Done(p)) /\ Goto(p, "next")
           ELSE Keep(p, "row", [text |-> disk[n].text, readAt |-> clock]) /\ Goto(p, "stamp")
        /\ UNCHANGED <<world, db, alone, whole, bounds>>

RowOf(got, file) ==
    [text |-> got.text, size |-> Size[got.text], readAt |-> got.readAt, madeAt |-> clock,
     mtime |-> IF file = None THEN 0 ELSE file.mtime]
Whole(t) == [text |-> t, stack |-> t, tags |-> t]

Stamp(p) ==
    LET n == Head(job[p].todo)
        row == RowOf(job[p].row, disk[n])
    IN  /\ pc[p] = "stamp"
        /\ job' = [job EXCEPT ![p].parsed[n] = row, ![p].docs[n] = Whole(row.text), ![p].todo = Done(p)]
        /\ Goto(p, "next")
        /\ UNCHANGED <<world, db, alone, whole, bounds>>

Parsed(p) == {n \in Notes : job[p].parsed[n] # None}

(* Mutant: the transaction writes the rows of notes and not their values.  *)
PutRowsOnly(p) ==
    /\ notes' = [n \in Notes |-> IF n \in Parsed(p) THEN job[p].parsed[n] ELSE notes[n]]
    /\ UNCHANGED kids

(* Put for each row, in one transaction.                                    *)
PutAll(p) ==
    /\ notes' = [n \in Notes |-> IF n \in Parsed(p) THEN job[p].parsed[n] ELSE notes[n]]
    /\ kids' = [t \in Kids |-> [n \in Notes |->
                    IF n \in Parsed(p) THEN job[p].parsed[n].text ELSE kids[t][n]]]

(* refresh: nothing to write, a transaction, or one that fails unreported.  *)
Refresh(p) ==
    /\ pc[p] = "next" /\ p \in Recalls /\ job[p].todo = << >>
    /\ \/ Parsed(p) # {} /\ PutAll(p) /\ Disturb(p)
       \/ (Parsed(p) = {} \/ Others(p) # {}) /\ UNCHANGED <<db, alone, whole>>
    /\ Goto(p, "done")
    /\ UNCHANGED <<world, job, bounds>>

Persist(p) ==
    /\ pc[p] = "next" /\ p \in Indexers /\ job[p].todo = << >>
    /\ PutAll(p) /\ Disturb(p)
    /\ Goto(p, "prune")
    /\ UNCHANGED <<world, job, bounds>>

(* Mutant: Prune takes every row for a live one.                           *)
DeadNone(p) == {}

(* Prune asks for the rows whose note it has not loaded.                    *)
Dead(p) == Rows \ Parsed(p)

Prune(p) ==
    /\ pc[p] = "prune"
    /\ Keep(p, "todo", SetToSeq(Dead(p)))
    /\ Goto(p, "delete")
    /\ UNCHANGED <<world, db, alone, whole, bounds>>

(* deleteAll: of each dead note one DELETE per table.                       *)
DeleteRow(p) ==
    /\ pc[p] = "delete" /\ job[p].todo # << >>
    /\ notes' = [notes EXCEPT ![Head(job[p].todo)] = None]
    /\ Goto(p, "delete stack") /\ Disturb(p)
    /\ UNCHANGED <<world, kids, job, bounds>>

DeleteKids(p, t, from, to, rest) ==
    /\ pc[p] = from
    /\ kids' = [kids EXCEPT ![t][Head(job[p].todo)] = Gone]
    /\ Keep(p, "todo", rest) /\ Goto(p, to) /\ Disturb(p)
    /\ UNCHANGED <<world, notes, bounds>>

EndIndex(p) ==
    /\ pc[p] = "delete" /\ job[p].todo = << >>
    /\ Goto(p, "done")
    /\ whole' = (whole \/ alone[p])
    /\ UNCHANGED <<world, db, job, alone, bounds>>

Delete ==
    \E p \in Indexers :
        \/ DeleteRow(p)
        \/ DeleteKids(p, "stack", "delete stack", "delete tags", job[p].todo)
        \/ DeleteKids(p, "tags", "delete tags", "delete", Done(p))

Rest ==
    \E p \in Procs :
        /\ pc[p] = "done"
        /\ Goto(p, "idle") /\ job' = [job EXCEPT ![p] = Idle]
        /\ UNCHANGED <<world, db, alone, whole, bounds>>

(* A statement finds the database locked by another process: the command    *)
(* ends with an error.  A fault of its own kind is a kill, at any step.      *)
Locked(p) ==
    /\ Others(p) # {}
    /\ \/ pc[p] \notin {"idle", "done", "next", "ask", "load", "stamp", "walk"}
       \/ pc[p] = "next" /\ p \in Indexers /\ job[p].todo = << >>
    /\ UNCHANGED kills

Killed(p) == kills < MaxKills /\ kills' = kills + 1 /\ pc[p] \notin {"idle", "done"}

Stop ==
    \E p \in Procs :
        /\ Locked(p) \/ Killed(p)
        /\ Goto(p, "idle")
        /\ job' = [job EXCEPT ![p] = Idle]
        /\ whole' = (whole /\ pc[p] \notin {"reset stack", "reset tags", "delete stack", "delete tags"})
        /\ UNCHANGED <<world, db, alone, edits, runs>>

-----------------------------------------------------------------------------
(* The vault: notes are written, removed and come back; time passes.        *)

Write(n, file) ==
    /\ edits < MaxEdits
    /\ edits' = edits + 1
    /\ disk' = [disk EXCEPT ![n] = file]
    /\ alone' = [q \in Procs |-> alone[q] /\ pc[q] = "idle"]
    /\ UNCHANGED <<clock, db, pc, job, whole, runs, kills>>

Edit == \E n \in Notes, t \in Texts : disk[n].text # t /\ Write(n, [text |-> t, mtime |-> clock])
Delist == \E n \in Files : Write(n, None)

Tick ==
    /\ clock < MaxTime
    /\ clock' = clock + 1
    /\ UNCHANGED <<disk, db, pc, job, alone, whole, bounds>>

Next ==
    \/ StartIndex \/ StartReindex \/ StartRecall \/ Reset \/ ReadRows
    \/ \E p \in Procs : Walk(p)
    \/ \E p \in Recalls : Stat(p) \/ Ask(p) \/ Refresh(p)
    \/ \E p \in Procs : Load(p) \/ Stamp(p)
    \/ \E p \in Indexers : Persist(p) \/ Prune(p) \/ EndIndex(p)
    \/ Delete \/ Rest \/ Stop \/ Edit \/ Delist \/ Tick

Spec == Init /\ [][Next]_vars

-----------------------------------------------------------------------------
(* The types of the state, for every process at every step.                *)
Labels == {"idle", "walk", "reset notes", "reset stack", "reset tags", "read notes", "read stack",
           "read tags", "next", "ask", "load", "stamp", "prune", "delete", "delete stack",
           "delete tags", "done"}

TypeOK ==
    /\ disk \in [Notes -> File \cup {None}] /\ clock \in 1 .. MaxTime
    /\ notes \in [Notes -> Row \cup {None}]
    /\ kids \in [Kids -> [Notes -> Texts \cup {Gone}]]
    /\ pc \in [Procs -> Labels]
    /\ \A p \in Procs :
          /\ job[p].todo \in Seq(Notes)
          /\ job[p].parsed \in [Notes -> Row \cup {None}]
          /\ job[p].docs \in [Notes -> Doc \cup {None}]
    /\ alone \in [Procs -> BOOLEAN] /\ whole \in BOOLEAN
    /\ edits \in 0 .. MaxEdits /\ runs \in 0 .. MaxRuns /\ kills \in 0 .. MaxKills

(* The mtime cache (store.go:153) knows a file by its second and its size,   *)
(* and Load asks for the second after it has read the text (note.go:25-31).   *)
(* So a row that passes for the row of a file with other contents is of a      *)
(* reading that file's last edit fell into: the edit is of no earlier second   *)
(* than the reading and of no later one than the stamp.  An edit of any other   *)
(* second is never missed, whoever wrote the row and however the writers       *)
(* overlapped, were killed or found the database locked.                      *)
StaleOnlyWhileRead ==
    \A n \in Notes :
        Matches(notes[n], disk[n]) /\ notes[n].text # disk[n].text =>
            disk[n].mtime \in notes[n].readAt .. notes[n].madeAt

(* "Markdown is the only source of truth ... forge reindex rebuilds all of   *)
(* it" (store.go:1-2): whatever kills, locks and overlaps have left behind,   *)
(* forge index, undisturbed, leaves a row for each note and no other, and     *)
(* each with its own values.                                                  *)
IndexMakesTrue ==
    \A p \in Indexers :
        pc[p] = "done" /\ alone[p] =>
            /\ Rows = Files
            /\ \A n \in Files : /\ notes[n].text = disk[n].text
                                 /\ \A t \in Kids : kids[t][n] = disk[n].text

TrueDoc(n, doc) == doc = Whole(disk[n].text) \/ notes[n].text # disk[n].text

(* Self-healing, where nothing has gone wrong since the last index: a recall *)
(* that runs alone ranks every note of the vault, and each as it stands on     *)
(* disk, but for a row StaleOnlyWhileRead speaks of.                           *)
QuietRecallServes ==
    \A p \in Recalls :
        pc[p] = "done" /\ alone[p] /\ whole =>
            \A n \in Files : TrueDoc(n, job[p].docs[n])

(* "forge recall self-heals a cold or partial cache instead of requiring     *)
(* forge index to have run first" (recall_load.go:14-15): the same, whatever   *)
(* happened before.                                                           *)
RecallHeals ==
    \A p \in Recalls :
        pc[p] = "done" /\ alone[p] =>
            \A n \in Files : TrueDoc(n, job[p].docs[n])
=============================================================================
