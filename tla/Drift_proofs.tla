---------------------------- MODULE Drift_proofs ----------------------------
(***************************************************************************)
(* What holds of Drift for every vault, every set of repositories and      *)
(* every citation.  Of every interleaving of runs, crashes and authors:    *)
(* its types and the two invariants about what the demotion store          *)
(* remembers.  Where the rest of the world waits for a run and nothing     *)
(* fails: the ledger of demotions and debts, that BROKEN means gone, and   *)
(* that what a run took down comes back when the code does.                *)
(***************************************************************************)
EXTENDS Drift, SequenceTheorems, FiniteSetTheorems, TLAPS

(***************************************************************************)
(* Types.                                                                  *)
(***************************************************************************)

\* A chain of one commit.
LEMMA FirstCommit ==
    ASSUME NEW S, NEW e \in S
    PROVE  <<e>> \in Seq(S) /\ <<e>> # <<>>
OBVIOUS

\* The last commit of a chain.
LEMMA LastCommit ==
    ASSUME NEW S, NEW q \in Seq(S), q # <<>>
    PROVE  Len(q) \in Nat \ {0} /\ q[Len(q)] \in S
OBVIOUS

\* A commit on top of a chain, and a last commit that is amended.
LEMMA NewCommit ==
    ASSUME NEW S, NEW q \in Seq(S), q # <<>>, NEW e \in S
    PROVE  /\ Append(q, e) \in Seq(S) /\ Append(q, e) # <<>>
           /\ [q EXCEPT ![Len(q)] = e] \in Seq(S) /\ [q EXCEPT ![Len(q)] = e] # <<>>
<1>1. Append(q, e) \in Seq(S) /\ Append(q, e) # <<>>
  OBVIOUS
<1>2. [q EXCEPT ![Len(q)] = e] \in Seq(S) /\ Len([q EXCEPT ![Len(q)] = e]) = Len(q)
  BY LastCommit, ExceptSeq
<1>3. [q EXCEPT ![Len(q)] = e] # <<>>
  <2>1. \A t : t = <<>> => Len(t) = 0
    OBVIOUS
  <2>2. Len(q) # 0
    BY LastCommit
  <2> QED
    BY <1>2, <2>1, <2>2
<1> QED
  BY <1>1, <1>2, <1>3

\* The parent commit of the last one, and the chain that ends there.
LEMMA ParentCommit ==
    ASSUME NEW S, NEW q \in Seq(S), Len(q) > 1
    PROVE  /\ q[Len(q) - 1] \in S
           /\ SubSeq(q, 1, Len(q) - 1) \in Seq(S) /\ SubSeq(q, 1, Len(q) - 1) # <<>>
<1>1. /\ Len(q) \in Nat /\ 1 \in 1 .. Len(q)
      /\ Len(q) - 1 \in 1 .. Len(q) /\ Len(q) - 1 > 0
  BY LenProperties
<1>2. q[Len(q) - 1] \in S
  BY <1>1, LenProperties
<1>3. SubSeq(q, 1, Len(q) - 1) \in Seq(S) /\ Len(SubSeq(q, 1, Len(q) - 1)) = Len(q) - 1
  BY <1>1, SubSeqProperties
<1>4. SubSeq(q, 1, Len(q) - 1) # <<>>
  <2>1. \A t : t = <<>> => ~(Len(t) > 0)
    OBVIOUS
  <2> QED
    BY <1>1, <1>3, <2>1
<1> QED
  BY <1>2, <1>3, <1>4

\* HEAD of a repository is the last element of its chain.
LEMMA HeadTyped ==
    ASSUME GitTypeOK, NEW r \in Repos
    PROVE  /\ log[r] \in Seq(CommitOf(r))
           /\ Len(log[r]) \in Nat \ {0}
           /\ HeadOf(r) \in CommitOf(r)
           /\ HeadTree(r) \in RepoTree(r)
<1>1. log[r] \in Seq(CommitOf(r)) /\ log[r] # <<>>
  BY DEF GitTypeOK, Chain
<1>2. /\ Len(log[r]) \in Nat \ {0}
      /\ log[r][Len(log[r])] \in CommitOf(r)
  BY <1>1, LastCommit
<1> QED
  BY <1>1, <1>2 DEF HeadOf, HeadTree, CommitOf

\* Whatever the citations are worth, a note's outcome is one of the four Apply knows.
LEMMA OutcomeTyped ==
    ASSUME NEW n, NEW now, NEW base, NEW repos, NEW gate, NEW deep
    PROVE  Outcome(n, now, base, repos, gate, deep) \in Verdicts
BY DEF Outcome, Verdicts

\* The first state is well typed.
LEMMA InitTyped == Init => TypeOK
<1> SUFFICES ASSUME Init PROVE TypeOK
  OBVIOUS
<1>1. ASSUME NEW r \in Repos
      PROVE  [f \in FilesOf(r) |-> FirstTree[f]] \in RepoTree(r)
  BY DriftAssumption DEF Tree, RepoTree, FilesOf
<1>2. GitTypeOK
  <2>1. \A r \in Repos : log[r] = <<[id |-> 1, tree |-> [f \in FilesOf(r) |-> FirstTree[f]]]>>
    BY DEF Init
  <2>2. ASSUME NEW r \in Repos PROVE log[r] \in Chain(r)
    <3>1. [id |-> 1, tree |-> [f \in FilesOf(r) |-> FirstTree[f]]] \in CommitOf(r)
      BY <1>1 DEF CommitOf
    <3> QED
      BY <2>1, <3>1, FirstCommit DEF Chain
  <2> QED
    BY <2>2 DEF Init, GitTypeOK
<1>3. VaultTypeOK
  BY DriftAssumption DEF Init, VaultTypeOK, NoStore, Debts
<1>4. RunTypeOK
  BY DEF Init, RunTypeOK, NoStore, Debts, Unread, Frontmatter, Confs, Verdicts
<1>5. CountTypeOK
  BY DriftAssumption DEF Init, CountTypeOK
<1> QED
  BY <1>2, <1>3, <1>4, <1>5 DEF TypeOK

\* A step that gives one repository another chain and another anchor.
LEMMA HeadMoves ==
    ASSUME GitTypeOK, NEW r \in Repos,
           NEW chain \in Chain(r), log' = [log EXCEPT ![r] = chain],
           NEW anchor \in RepoTree(r) \cup {NoHook}, since' = [since EXCEPT ![r] = anchor],
           heads' \in Nat
    PROVE  GitTypeOK'
BY DEF GitTypeOK

\* A run that ends takes its due hook with it and leaves git alone.
LEMMA EndedKeepsGit ==
    ASSUME GitTypeOK, NEW p \in Runners, Ended(p), UNCHANGED <<log, heads>>
    PROVE  GitTypeOK'
BY DEF GitTypeOK, Ended

\* Every step keeps the types of what git holds: commits, checkouts, hooks' anchors.
LEMMA GitTyped == TypeOK /\ [Next]_vars => GitTypeOK'
<1> SUFFICES ASSUME TypeOK, [Next]_vars PROVE GitTypeOK'
  OBVIOUS
<1>1. GitTypeOK
  BY DEF TypeOK
<1>2. heads \in Nat /\ heads + 1 \in Nat
  BY <1>1 DEF GitTypeOK
<1>3. ASSUME NEW r \in Repos, Commit(r)
      PROVE  GitTypeOK'
  <2>1. PICK t \in RepoTree(r) : log' = [log EXCEPT ![r] = Append(log[r], [id |-> heads + 1, tree |-> t])]
    BY <1>3 DEF Commit
  <2>2. [id |-> heads + 1, tree |-> t] \in CommitOf(r)
    BY <1>2 DEF CommitOf
  <2>3. Append(log[r], [id |-> heads + 1, tree |-> t]) \in Chain(r)
    BY <1>1, <2>2, HeadTyped, NewCommit DEF Chain
  <2>4. since' = [since EXCEPT ![r] = HeadTree(r)] /\ heads' = heads + 1
    BY <1>3 DEF Commit
  <2>5. HeadTree(r) \in RepoTree(r) \cup {NoHook}
    BY <1>1, HeadTyped
  <2> QED
    BY <1>1, <1>2, <2>1, <2>3, <2>4, <2>5, HeadMoves
<1>4. ASSUME NEW r \in Repos, Len(log[r]) > 1
      PROVE  /\ SubSeq(log[r], 1, Len(log[r]) - 1) \in Chain(r)
             /\ log[r][Len(log[r]) - 1] \in CommitOf(r)
  BY <1>1, <1>4, HeadTyped, ParentCommit DEF Chain
<1>5. ASSUME NEW r \in Repos, Checkout(r)
      PROVE  GitTypeOK'
  <2>1. /\ Len(log[r]) > 1 /\ heads' = heads
        /\ log' = [log EXCEPT ![r] = SubSeq(log[r], 1, Len(log[r]) - 1)]
        /\ since' = [since EXCEPT ![r] = HeadTree(r)]
    BY <1>5 DEF Checkout
  <2>2. HeadTree(r) \in RepoTree(r) \cup {NoHook}
    BY <1>1, HeadTyped
  <2> QED
    BY <1>1, <1>2, <1>4, <2>1, <2>2, HeadMoves
<1>6. ASSUME NEW r \in Repos, Amend(r)
      PROVE  GitTypeOK'
  <2>1. PICK t \in RepoTree(r) : log' = [log EXCEPT ![r][Len(log[r])] = [id |-> heads + 1, tree |-> t]]
    BY <1>6 DEF Amend
  <2>2. [id |-> heads + 1, tree |-> t] \in CommitOf(r)
    BY <1>2 DEF CommitOf
  <2>3. [log[r] EXCEPT ![Len(log[r])] = [id |-> heads + 1, tree |-> t]] \in Chain(r)
    BY <1>1, <2>2, HeadTyped, NewCommit DEF Chain
  <2>4. log' = [log EXCEPT ![r] = [log[r] EXCEPT ![Len(log[r])] = [id |-> heads + 1, tree |-> t]]]
    BY <2>1
  <2>5. /\ since' = [since EXCEPT ![r] = log[r][Len(log[r]) - 1].tree]
        /\ Len(log[r]) > 1 /\ heads' = heads + 1
    BY <1>6 DEF Amend
  <2>6. log[r][Len(log[r]) - 1].tree \in RepoTree(r) \cup {NoHook}
    BY <1>4, <2>5 DEF CommitOf
  <2> QED
    BY <1>1, <1>2, <2>3, <2>4, <2>5, <2>6, HeadMoves
<1>7. ASSUME NEW r \in Repos, Reset(r)
      PROVE  GitTypeOK'
  <2>1. /\ Len(log[r]) > 1 /\ heads' = heads
        /\ log' = [log EXCEPT ![r] = SubSeq(log[r], 1, Len(log[r]) - 1)]
        /\ since' = since
    BY <1>7 DEF Reset
  <2>2. since[r] \in RepoTree(r) \cup {NoHook} /\ since' = [since EXCEPT ![r] = since[r]]
    BY <1>1, <2>1 DEF GitTypeOK
  <2> QED
    BY <1>1, <1>2, <1>4, <2>1, <2>2, HeadMoves
<1>8. ASSUME NEW r \in Repos, MissHook(r)
      PROVE  GitTypeOK'
  BY <1>1, <1>8 DEF MissHook, GitTypeOK
<1>9. ASSUME NEW p \in Runners, Save(p) \/ Crash(p)
      PROVE  GitTypeOK'
  BY <1>1, <1>9, EndedKeepsGit DEF Save, Crash
<1>10. ASSUME UNCHANGED git
       PROVE  GitTypeOK'
  BY <1>1, <1>10 DEF git, GitTypeOK
<1>11. ASSUME NEW p \in Runners, Evaluate(p) \/ OpenStore(p)
       PROVE  UNCHANGED git
  BY <1>11 DEF Evaluate, OpenStore
<1>12. ASSUME NEW p \in Runners, NEW n \in Notes,
              Demote(p, n) \/ LeaveDown(p, n) \/ Restore(p, n) \/ LeaveUp(p, n)
       PROVE  UNCHANGED git
  BY <1>12 DEF Demote, LeaveDown, Restore, LeaveUp, Applied
<1>13. ASSUME LoseStore \/ (\E n \in Notes : Edit(n)) \/ UNCHANGED vars
       PROVE  UNCHANGED git
  BY <1>13 DEF LoseStore, Edit, vars
<1> QED
  BY <1>3, <1>5, <1>6, <1>7, <1>8, <1>9, <1>10, <1>11, <1>12, <1>13 DEF Next

\* A write of a frontmatter, done or failed.
LEMMA WriteTyped ==
    ASSUME VaultTypeOK, CountTypeOK,
           NEW n \in Notes, NEW c \in Confs, NEW head \in Nat, Write(n, c, head)
    PROVE  conf' \in [Notes -> Confs] /\ checked' \in [Notes -> Nat] /\ faults' \in Nat
BY DEF Write, VaultTypeOK, CountTypeOK

\* What a run may take for HEAD.
LEMMA HeadForTyped == ASSUME RunTypeOK, NEW p \in Runners, NEW n \in Notes PROVE HeadFor(p, n) \subseteq Nat
<1>1. at[p] \subseteq Nat /\ Elsewhere \in Nat
  BY DriftAssumption DEF RunTypeOK, Elsewhere
<1> QED
  BY <1>1 DEF HeadFor

\* Bringing drift_checked_at up to date writes well-typed frontmatter back.
LEMMA StampTyped ==
    ASSUME VaultTypeOK, CountTypeOK, RunTypeOK, NEW p \in Runners, NEW n \in Notes, Stamp(p, n)
    PROVE  conf' \in [Notes -> Confs] /\ checked' \in [Notes -> Nat] /\ faults' \in Nat
<1>1. seen[p][n].conf \in Confs /\ HeadFor(p, n) \subseteq Nat
  BY HeadForTyped DEF RunTypeOK, Frontmatter
<1>2. PICK head \in HeadFor(p, n) : IF head \in {0, seen[p][n].checked} THEN UNCHANGED <<conf, checked, faults>>
                            ELSE Write(n, seen[p][n].conf, head)
  BY DEF Stamp
<1>3. CASE UNCHANGED <<conf, checked, faults>>
  BY <1>3 DEF VaultTypeOK, CountTypeOK
<1>4. CASE Write(n, seen[p][n].conf, head)
  BY <1>1, <1>2, <1>4, WriteTyped
<1> QED
  BY <1>2, <1>3, <1>4

\* Recording and forgetting keep the types of a run's copy of the store.
LEMMA RememberTyped ==
    ASSUME RunTypeOK, NEW p \in Runners, NEW n \in Notes, Record(p, n) \/ Forget(p, n)
    PROVE  mem' \in [Runners -> [Slugs -> Debts]]
<1>1. seen[p][n].conf \in Debts /\ None \in Debts /\ Slug[n] \in Slugs
  BY DriftAssumption DEF RunTypeOK, Frontmatter, Debts, Confs
<1>2. \A v \in Debts : [mem EXCEPT ![p][Slug[n]] = v] \in [Runners -> [Slugs -> Debts]]
  BY <1>1 DEF RunTypeOK
<1> QED
  BY <1>1, <1>2 DEF Record, Forget

\* The end of a run, however it comes, leaves well-typed runs.
LEMMA EndedTyped ==
    ASSUME RunTypeOK, NEW p \in Runners, Ended(p)
    PROVE  RunTypeOK'
BY DEF RunTypeOK, Ended, NoStore, Unread, Frontmatter, Confs, Debts, Verdicts

\* Every step keeps the types of the vault, the runs and the model's counters.
LEMMA RestTyped == TypeOK /\ [Next]_vars => VaultTypeOK' /\ RunTypeOK' /\ CountTypeOK'
<1> SUFFICES ASSUME TypeOK, [Next]_vars PROVE VaultTypeOK' /\ RunTypeOK' /\ CountTypeOK'
  OBVIOUS
<1> DEFINE Goal == VaultTypeOK' /\ RunTypeOK' /\ CountTypeOK'
<1>1. GitTypeOK /\ VaultTypeOK /\ RunTypeOK /\ CountTypeOK
  BY DEF TypeOK
<1>2. ASSUME UNCHANGED <<vault, run, count>> PROVE Goal
  BY <1>1, <1>2 DEF vault, run, count, VaultTypeOK, RunTypeOK, CountTypeOK
<1>3. ASSUME NEW r \in Repos, Commit(r) \/ Checkout(r) PROVE Goal
  BY <1>2, <1>3 DEF Commit, Checkout
<1>4. ASSUME NEW r \in Repos, Amend(r) \/ Reset(r) \/ MissHook(r) PROVE Goal
  <2>1. UNCHANGED <<vault, run, held, edits, faults>> /\ gaps' = gaps + 1
    BY <1>4 DEF Amend, Reset, MissHook
  <2> QED
    BY <1>1, <2>1 DEF vault, run, VaultTypeOK, RunTypeOK, CountTypeOK
<1>5. ASSUME NEW p \in Runners, Evaluate(p) PROVE Goal
  <2>1. UNCHANGED <<vault, mem, dirty, held, edits, faults>> /\ gaps' \in Nat
    BY <1>1, <1>5 DEF Evaluate, CountTypeOK
  <2>2. LET verdict == [n \in Notes |-> Outcome(n, Now, Base, ReposOf(p), GateFor(p), p \in Deep)]
        IN  /\ found' = [found EXCEPT ![p] = verdict]
            /\ todo' = [todo EXCEPT ![p] = {n \in Notes : verdict[n] # "none"}]
    BY <1>5 DEF Evaluate
  <2>3. [n \in Notes |-> Outcome(n, Now, Base, ReposOf(p), GateFor(p), p \in Deep)] \in [Notes -> Verdicts]
    BY OutcomeTyped
  <2>4. [n \in Notes |-> [conf |-> conf[n], checked |-> checked[n]]] \in [Notes -> Frontmatter]
    BY <1>1 DEF VaultTypeOK, Frontmatter
  <2>5. {HeadOf(r).id : r \in ReposOf(p)} \subseteq Nat
    BY <1>1, HeadTyped DEF ReposOf, CommitOf
  <2>6. /\ seen' = [seen EXCEPT ![p] = [n \in Notes |-> [conf |-> conf[n], checked |-> checked[n]]]]
        /\ at' = [at EXCEPT ![p] = {HeadOf(r).id : r \in ReposOf(p)}]
        /\ pc' = [pc EXCEPT ![p] = "evaluated"]
    BY <1>5 DEF Evaluate
  <2>7. found' \in [Runners -> [Notes -> Verdicts]] /\ todo' \in [Runners -> SUBSET Notes]
    BY <1>1, <2>2, <2>3 DEF RunTypeOK
  <2>8. RunTypeOK'
    BY <1>1, <2>1, <2>4, <2>5, <2>6, <2>7 DEF RunTypeOK
  <2> QED
    BY <1>1, <2>1, <2>8 DEF vault, VaultTypeOK, CountTypeOK
<1>6. ASSUME NEW p \in Runners, OpenStore(p) PROVE Goal
  BY <1>1, <1>6 DEF OpenStore, vault, count, VaultTypeOK, RunTypeOK, CountTypeOK
<1>7. ASSUME NEW p \in Runners, Save(p) \/ Crash(p) PROVE Goal
  <2>1. RunTypeOK'
    BY <1>1, <1>7, EndedTyped DEF Save, Crash
  <2>2. UNCHANGED <<conf, checked, held, edits, gaps>>
    BY <1>7 DEF Save, Crash
  <2>3. faults' \in Nat
    BY <1>1, <1>7 DEF Save, Crash, CountTypeOK
  <2>4. NoStore \in [Slugs -> Debts] /\ mem[p] \in [Slugs -> Debts]
    BY <1>1 DEF RunTypeOK, NoStore, Debts
  <2>5. store' \in {store, NoStore, mem[p]}
    BY <1>7 DEF Save, Crash
  <2> QED
    BY <1>1, <2>1, <2>2, <2>3, <2>4, <2>5 DEF VaultTypeOK, CountTypeOK
<1>8. ASSUME NEW p \in Runners, NEW n \in Notes, Applied(p, n),
             mem' \in [Runners -> [Slugs -> Debts]], dirty' \in [Runners -> BOOLEAN],
             conf' \in [Notes -> Confs] /\ checked' \in [Notes -> Nat] /\ faults' \in Nat
      PROVE  Goal
  BY <1>1, <1>8 DEF Applied, VaultTypeOK, RunTypeOK, CountTypeOK
<1>9. ASSUME NEW p \in Runners, NEW n \in Notes, Demote(p, n) PROVE Goal
  <2>1. PICK head \in HeadFor(p, n) : Write(n, Low, head)
    BY <1>9 DEF Demote
  <2>2. Low \in Confs /\ head \in Nat
    BY <1>1, <2>1, DriftAssumption, HeadForTyped DEF Confs
  <2>3. dirty' \in [Runners -> BOOLEAN]
    BY <1>1, <1>9 DEF Demote, RunTypeOK
  <2> QED
    BY <1>1, <1>8, <1>9, <2>1, <2>2, <2>3, WriteTyped, RememberTyped DEF Demote
<1>10. ASSUME NEW p \in Runners, NEW n \in Notes, LeaveDown(p, n) \/ LeaveUp(p, n) PROVE Goal
  <2>1. Stamp(p, n) /\ Applied(p, n) /\ UNCHANGED <<mem, dirty>>
    BY <1>10 DEF LeaveDown, LeaveUp
  <2>2. mem' \in [Runners -> [Slugs -> Debts]] /\ dirty' \in [Runners -> BOOLEAN]
    BY <1>1, <2>1 DEF RunTypeOK
  <2> QED
    BY <1>1, <1>8, <2>1, <2>2, StampTyped
<1>11. ASSUME NEW p \in Runners, NEW n \in Notes, Restore(p, n) PROVE Goal
  <2>1. PICK head \in HeadFor(p, n) : Write(n, mem[p][Slug[n]], head)
    BY <1>11 DEF Restore
  <2>2. mem[p][Slug[n]] \in Debts /\ mem[p][Slug[n]] # None
    BY <1>1, <1>11, DriftAssumption DEF Restore, RunTypeOK
  <2>3. mem[p][Slug[n]] \in Confs /\ head \in Nat
    BY <1>1, <2>1, <2>2, HeadForTyped DEF Debts, Confs
  <2>4. dirty' \in [Runners -> BOOLEAN]
    BY <1>1, <1>11 DEF Restore, RunTypeOK
  <2> QED
    BY <1>1, <1>8, <1>11, <2>1, <2>3, <2>4, WriteTyped, RememberTyped DEF Restore
<1>12. ASSUME LoseStore PROVE Goal
  <2>1. NoStore \in [Slugs -> Debts]
    BY DEF NoStore, Debts
  <2> QED
    BY <1>1, <1>12, <2>1 DEF LoseStore, run, VaultTypeOK, RunTypeOK, CountTypeOK
<1>13. ASSUME NEW n \in Notes, Edit(n) PROVE Goal
  BY <1>1, <1>13 DEF Edit, run, VaultTypeOK, RunTypeOK, CountTypeOK
<1>14. ASSUME UNCHANGED vars PROVE Goal
  BY <1>2, <1>14 DEF vars
<1> QED
  BY <1>3, <1>4, <1>5, <1>6, <1>7, <1>9, <1>10, <1>11, <1>12, <1>13, <1>14 DEF Next

\* Every value git, the vault, the runs and the store hold is one the program could have
\* written, whatever runs overlap, fail or die: in particular HEAD always exists, a due hook
\* has an anchor of its own repository, and no note is ever given the absence of a record
\* for a confidence (apply.go, demotions.go).
THEOREM DriftTypes == Spec => []TypeOK
<1>1. TypeOK /\ [Next]_vars => TypeOK'
  BY GitTyped, RestTyped DEF TypeOK
<1> QED
  BY <1>1, InitTyped, PTL DEF Spec

(***************************************************************************)
(* What is remembered.                                                     *)
(***************************************************************************)

\* The steps of a run that touch its copy of the store, and what they leave there.
LEMMA MemoryMoves ==
    ASSUME TypeOK, Next
    PROVE  \/ UNCHANGED mem
           \/ \E p \in Runners : mem' \in {[mem EXCEPT ![p] = store], [mem EXCEPT ![p] = NoStore]}
           \/ \E p \in Runners, n \in Notes :
                /\ pc[p] = "apply" /\ seen[p][n].conf \notin {Low, Blank}
                /\ mem' = [mem EXCEPT ![p][Slug[n]] = seen[p][n].conf]
           \/ \E p \in Runners, n \in Notes : mem' = [mem EXCEPT ![p][Slug[n]] = None]
<1>1. ASSUME NEW r \in Repos, Commit(r) \/ Checkout(r) \/ Amend(r) \/ Reset(r) \/ MissHook(r)
      PROVE  UNCHANGED mem
  BY <1>1 DEF Commit, Checkout, Amend, Reset, MissHook, run
<1>2. ASSUME NEW p \in Runners, Evaluate(p)
      PROVE  UNCHANGED mem
  BY <1>2 DEF Evaluate
<1>3. ASSUME NEW p \in Runners, OpenStore(p)
      PROVE  mem' = [mem EXCEPT ![p] = store]
  BY <1>3 DEF OpenStore
<1>4. ASSUME NEW p \in Runners, Save(p) \/ Crash(p)
      PROVE  mem' = [mem EXCEPT ![p] = NoStore]
  BY <1>4 DEF Save, Crash, Ended
<1>5. ASSUME NEW p \in Runners, NEW n \in Notes, Demote(p, n)
      PROVE  /\ pc[p] = "apply" /\ seen[p][n].conf \notin {Low, Blank}
             /\ mem' = [mem EXCEPT ![p][Slug[n]] = seen[p][n].conf]
  BY <1>5 DEF Demote, Demotable, Record, NextNote
<1>6. ASSUME NEW p \in Runners, NEW n \in Notes, Restore(p, n)
      PROVE  mem' = [mem EXCEPT ![p][Slug[n]] = None]
  BY <1>6 DEF Restore, Forget
<1>7. ASSUME NEW p \in Runners, NEW n \in Notes, LeaveDown(p, n) \/ LeaveUp(p, n)
      PROVE  UNCHANGED mem
  BY <1>7 DEF LeaveDown, LeaveUp
<1>8. ASSUME LoseStore \/ \E n \in Notes : Edit(n)
      PROVE  UNCHANGED mem
  BY <1>8 DEF LoseStore, Edit, run
<1> QED
  BY <1>1, <1>2, <1>3, <1>4, <1>5, <1>6, <1>7, <1>8 DEF Next

\* The store on disk is only ever left alone, emptied, or replaced by the copy of a run.
LEMMA StoreMoves ==
    ASSUME Next
    PROVE  store' \in {store, NoStore} \cup {mem[p] : p \in Runners}
<1>1. ASSUME NEW p \in Runners, Save(p) \/ Crash(p)
      PROVE  store' \in {store, NoStore, mem[p]}
  BY <1>1 DEF Save, Crash
<1>2. ASSUME NEW r \in Repos, Commit(r) \/ Checkout(r) \/ Amend(r) \/ Reset(r) \/ MissHook(r)
      PROVE  UNCHANGED store
  BY <1>2 DEF Commit, Checkout, Amend, Reset, MissHook, vault
<1>3. ASSUME NEW p \in Runners, Evaluate(p) \/ OpenStore(p)
      PROVE  UNCHANGED store
  BY <1>3 DEF Evaluate, OpenStore, vault
<1>4. ASSUME NEW p \in Runners, NEW n \in Notes,
             Demote(p, n) \/ LeaveDown(p, n) \/ Restore(p, n) \/ LeaveUp(p, n)
      PROVE  UNCHANGED store
  BY <1>4 DEF Demote, LeaveDown, Restore, LeaveUp, Applied
<1>5. ASSUME NEW n \in Notes, Edit(n)
      PROVE  UNCHANGED store
  BY <1>5 DEF Edit
<1>6. ASSUME LoseStore
      PROVE  store' = NoStore
  BY <1>6 DEF LoseStore
<1> QED
  BY <1>1, <1>2, <1>3, <1>4, <1>5, <1>6 DEF Next

\* Every step keeps "low" and the empty confidence out of every record.
LEMMA WorthStep == TypeOK /\ RecordsWorthRestoring /\ [Next]_vars => RecordsWorthRestoring'
<1> SUFFICES ASSUME TypeOK, RecordsWorthRestoring, [Next]_vars
             PROVE  RecordsWorthRestoring'
  OBVIOUS
<1>1. CASE UNCHANGED vars
  BY <1>1 DEF vars, vault, run, RecordsWorthRestoring
<1>2. CASE Next
  <2>1. /\ mem \in [Runners -> [Slugs -> Debts]]
        /\ \A n \in Notes : Slug[n] \in Slugs
        /\ \A s \in Slugs : NoStore[s] \notin {Low, Blank}
        /\ None \notin {Low, Blank}
    BY DriftAssumption DEF TypeOK, RunTypeOK, NoStore, Confs
  <2>2. \A s \in Slugs : store'[s] \notin {Low, Blank}
    BY <1>2, <2>1, StoreMoves DEF RecordsWorthRestoring
  <2>3. \A p \in Runners, s \in Slugs : mem'[p][s] \notin {Low, Blank}
    BY <1>2, <2>1, MemoryMoves DEF RecordsWorthRestoring
  <2> QED
    BY <2>2, <2>3 DEF RecordsWorthRestoring
<1> QED
  BY <1>1, <1>2

\* No record is ever "low" or empty, on disk or in a run's hands: however runs overlap, die
\* or fail to write, what drift owes a note is worth paying back (demotions.go, Record).
THEOREM RecordsStayWorthRestoring == Spec => []RecordsWorthRestoring
<1>1. Init => RecordsWorthRestoring
  BY DriftAssumption DEF Init, NoStore, Confs, RecordsWorthRestoring
<1>2. TypeOK /\ RecordsWorthRestoring /\ [Next]_vars => RecordsWorthRestoring'
  BY WorthStep
<1> QED
  BY <1>1, <1>2, DriftTypes, PTL DEF Spec

(***************************************************************************)
(* Where a confidence comes from.                                          *)
(***************************************************************************)

\* Every way a note's confidence is written: low, the record of its slug, what the run had
\* loaded, or an author's.
LEMMA ConfidenceMoves ==
    ASSUME TypeOK, Next
    PROVE  \/ UNCHANGED conf
           \/ \E n \in Notes : conf' = [conf EXCEPT ![n] = Low]
           \/ \E p \in Runners, n \in Notes :
                /\ mem[p][Slug[n]] # None
                /\ conf' = [conf EXCEPT ![n] = mem[p][Slug[n]]]
           \/ \E p \in Runners, n \in Notes :
                /\ pc[p] # "idle"
                /\ conf' = [conf EXCEPT ![n] = seen[p][n].conf]
           \/ \E n \in Notes : Edit(n)
<1>1. ASSUME NEW r \in Repos, Commit(r) \/ Checkout(r) \/ Amend(r) \/ Reset(r) \/ MissHook(r)
      PROVE  UNCHANGED conf
  BY <1>1 DEF Commit, Checkout, Amend, Reset, MissHook, vault
<1>2. ASSUME NEW p \in Runners, Evaluate(p) \/ OpenStore(p) \/ Save(p) \/ Crash(p)
      PROVE  UNCHANGED conf
  BY <1>2 DEF Evaluate, OpenStore, Save, Crash, vault
<1>3. ASSUME NEW p \in Runners, NEW n \in Notes, Demote(p, n)
      PROVE  UNCHANGED conf \/ conf' = [conf EXCEPT ![n] = Low]
  BY <1>3 DEF Demote, Write
<1>4. ASSUME NEW p \in Runners, NEW n \in Notes, Restore(p, n)
      PROVE  /\ mem[p][Slug[n]] # None
             /\ UNCHANGED conf \/ conf' = [conf EXCEPT ![n] = mem[p][Slug[n]]]
  BY <1>4 DEF Restore, Write
<1>5. ASSUME NEW p \in Runners, NEW n \in Notes, LeaveDown(p, n) \/ LeaveUp(p, n)
      PROVE  /\ pc[p] # "idle"
             /\ UNCHANGED conf \/ conf' = [conf EXCEPT ![n] = seen[p][n].conf]
  BY <1>5 DEF LeaveDown, LeaveUp, NextNote, Stamp, Write
<1>6. ASSUME LoseStore
      PROVE  UNCHANGED conf
  BY <1>6 DEF LoseStore
<1> QED
  BY <1>1, <1>2, <1>3, <1>4, <1>5, <1>6 DEF Next

\* What a run has loaded stays as it is while the run lasts, and is the vault's when it starts.
LEMMA LoadedMoves ==
    ASSUME TypeOK, Next, NEW p \in Runners, NEW n \in Notes, pc'[p] # "idle"
    PROVE  \/ pc[p] # "idle" /\ seen'[p][n].conf = seen[p][n].conf
           \/ seen'[p][n].conf = conf[n]
<1>1. RunTypeOK
  BY DEF TypeOK
<1>2. ASSUME NEW r \in Repos, Commit(r) \/ Checkout(r) \/ Amend(r) \/ Reset(r) \/ MissHook(r)
      PROVE  UNCHANGED <<pc, seen>>
  BY <1>2 DEF Commit, Checkout, Amend, Reset, MissHook, run
<1>3. ASSUME NEW q \in Runners, Evaluate(q)
      PROVE  \/ pc[p] # "idle" /\ seen'[p][n].conf = seen[p][n].conf
             \/ seen'[p][n].conf = conf[n]
  BY <1>1, <1>3 DEF Evaluate, RunTypeOK
<1>4. ASSUME NEW q \in Runners, OpenStore(q)
      PROVE  pc[p] # "idle" /\ UNCHANGED seen
  BY <1>1, <1>4 DEF OpenStore, RunTypeOK
<1>5. ASSUME NEW q \in Runners, Save(q) \/ Crash(q)
      PROVE  pc[p] # "idle" /\ seen'[p][n].conf = seen[p][n].conf
  BY <1>1, <1>5 DEF Save, Crash, Ended, RunTypeOK
<1>6. ASSUME NEW q \in Runners, NEW m \in Notes,
             Demote(q, m) \/ LeaveDown(q, m) \/ Restore(q, m) \/ LeaveUp(q, m)
      PROVE  UNCHANGED <<pc, seen>>
  BY <1>6 DEF Demote, LeaveDown, Restore, LeaveUp, Applied
<1>7. ASSUME LoseStore \/ \E m \in Notes : Edit(m)
      PROVE  UNCHANGED <<pc, seen>>
  BY <1>7 DEF LoseStore, Edit, run
<1> QED
  BY <1>2, <1>3, <1>4, <1>5, <1>6, <1>7 DEF Next

\* What authors gave is never taken back, and an edit adds what it writes.
LEMMA HeldMoves ==
    ASSUME TypeOK, Next
    PROVE  /\ \A s \in Slugs : HeldBySlug(s) \subseteq HeldBySlug(s)'
           /\ \A n \in Notes : Edit(n) =>
                \E c \in Confs : conf' = [conf EXCEPT ![n] = c] /\ c \in HeldBySlug(Slug[n])'
<1>1. held \in [Notes -> SUBSET Confs]
  BY DEF TypeOK, CountTypeOK
<1>2. ASSUME NEW n \in Notes, Edit(n)
      PROVE  \E c \in Confs : /\ conf' = [conf EXCEPT ![n] = c]
                              /\ held' = [held EXCEPT ![n] = held[n] \cup {c}]
  BY <1>2 DEF Edit
<1>3. ASSUME ~\E n \in Notes : Edit(n)
      PROVE  UNCHANGED held
  BY <1>3 DEF Next, Commit, Checkout, Amend, Reset, MissHook, Evaluate, OpenStore, Save, Crash,
              Demote, LeaveDown, Restore, LeaveUp, Applied, LoseStore, count
<1>4. \A n \in Notes : held[n] \subseteq held'[n]
  BY <1>1, <1>2, <1>3
<1>5. \A s \in Slugs : HeldBySlug(s) \subseteq HeldBySlug(s)'
  BY <1>4 DEF HeldBySlug
<1>6. ASSUME NEW n \in Notes, Edit(n)
      PROVE  \E c \in Confs : conf' = [conf EXCEPT ![n] = c] /\ c \in HeldBySlug(Slug[n])'
  <2>1. PICK c \in Confs : /\ conf' = [conf EXCEPT ![n] = c]
                           /\ held' = [held EXCEPT ![n] = held[n] \cup {c}]
    BY <1>2, <1>6
  <2>2. c \in held'[n]
    BY <1>1, <2>1
  <2>3. c \in HeldBySlug(Slug[n])'
    BY <2>2 DEF HeldBySlug
  <2> QED
    BY <2>1, <2>3
<1> QED
  BY <1>5, <1>6

\* Every step shows only confidences that authors gave, or low.
LEMMA GivenStep == TypeOK /\ ShowsOnlyWhatAuthorsGave /\ [Next]_vars => ShowsOnlyWhatAuthorsGave'
<1> SUFFICES ASSUME TypeOK, ShowsOnlyWhatAuthorsGave, [Next]_vars
             PROVE  ShowsOnlyWhatAuthorsGave'
  OBVIOUS
<1>1. CASE UNCHANGED vars
  BY <1>1 DEF vars, vault, run, count, ShowsOnlyWhatAuthorsGave, HeldBySlug
<1>2. CASE Next
  <2>1. /\ mem \in [Runners -> [Slugs -> Debts]]
        /\ conf \in [Notes -> Confs]
        /\ \A n \in Notes : Slug[n] \in Slugs
        /\ \A s \in Slugs : NoStore[s] = None
    BY DriftAssumption DEF TypeOK, RunTypeOK, VaultTypeOK, NoStore
  <2>2. \A s \in Slugs : HeldBySlug(s) \subseteq HeldBySlug(s)'
    BY <1>2, HeldMoves
  <2>3. \A n \in Notes : conf'[n] \in HeldBySlug(Slug[n])' \cup {Low}
    <3>1. ASSUME NEW p \in Runners, NEW n \in Notes, mem[p][Slug[n]] # None
          PROVE  mem[p][Slug[n]] \in HeldBySlug(Slug[n])'
      BY <2>1, <2>2, <3>1 DEF ShowsOnlyWhatAuthorsGave
    <3>2. ASSUME NEW p \in Runners, NEW n \in Notes, pc[p] # "idle"
          PROVE  seen[p][n].conf \in HeldBySlug(Slug[n])' \cup {Low}
      BY <2>1, <2>2, <3>2 DEF ShowsOnlyWhatAuthorsGave
    <3>3. ASSUME NEW n \in Notes
          PROVE  conf[n] \in HeldBySlug(Slug[n])' \cup {Low}
      BY <2>1, <2>2 DEF ShowsOnlyWhatAuthorsGave
    <3>4. ASSUME NEW n \in Notes, NEW c \in HeldBySlug(Slug[n])' \cup {Low},
                 conf' = [conf EXCEPT ![n] = c]
          PROVE  \A m \in Notes : conf'[m] \in HeldBySlug(Slug[m])' \cup {Low}
      BY <2>1, <3>3, <3>4
    <3> QED
      BY <1>2, <3>1, <3>2, <3>3, <3>4, ConfidenceMoves, HeldMoves
  <2>4. \A s \in Slugs : store'[s] \in HeldBySlug(s)' \cup {None}
    BY <1>2, <2>1, <2>2, StoreMoves DEF ShowsOnlyWhatAuthorsGave
  <2>5. \A p \in Runners, s \in Slugs : mem'[p][s] \in HeldBySlug(s)' \cup {None}
    <3>1. ASSUME NEW p \in Runners, NEW n \in Notes, pc[p] = "apply", seen[p][n].conf # Low
          PROVE  seen[p][n].conf \in HeldBySlug(Slug[n])'
      BY <2>1, <2>2, <3>1 DEF ShowsOnlyWhatAuthorsGave
    <3> QED
      BY <1>2, <2>1, <2>2, <3>1, MemoryMoves DEF ShowsOnlyWhatAuthorsGave
  <2>6. \A p \in Runners, n \in Notes :
           pc'[p] # "idle" => seen'[p][n].conf \in HeldBySlug(Slug[n])' \cup {Low}
    BY <1>2, <2>1, <2>2, LoadedMoves DEF ShowsOnlyWhatAuthorsGave
  <2> QED
    BY <2>3, <2>4, <2>5, <2>6 DEF ShowsOnlyWhatAuthorsGave
<1> QED
  BY <1>1, <1>2

\* Drift never invents a confidence: whatever hooks overlap, whatever fails, and whatever
\* slugs collide, a note shows "low" or a confidence an author gave to a note of its slug,
\* and so does every record (apply.go, demote and restore).
THEOREM ConfidencesComeFromAuthors == Spec => []ShowsOnlyWhatAuthorsGave
<1>1. Init => ShowsOnlyWhatAuthorsGave
  BY DriftAssumption DEF Init, NoStore, ShowsOnlyWhatAuthorsGave, HeldBySlug
<1>2. TypeOK /\ ShowsOnlyWhatAuthorsGave /\ [Next]_vars => ShowsOnlyWhatAuthorsGave'
  BY GivenStep
<1> QED
  BY <1>1, <1>2, DriftTypes, PTL DEF Spec

(***************************************************************************)
(* The ledger.                                                             *)
(***************************************************************************)

\* While a run is in progress the rest of the world rests, nothing fails, and no two notes
\* share a slug.
Calm == Quiet /\ MaxFaults = 0 /\ \A m, n \in Notes : Slug[m] = Slug[n] => m = n

\* One run at a time, which has the confidences of the notes it has still to apply as it
\* loaded them, and the store as it opened it until it changes its copy.
RunsInTurn ==
    /\ faults = 0
    /\ \A p, q \in Runners : pc[p] # "idle" /\ pc[q] # "idle" => p = q
    /\ \A p \in Runners : pc[p] = "apply" => dirty[p] \/ mem[p] = store
    /\ \A p \in Runners : pc[p] # "idle" => \A n \in todo[p] : seen[p][n].conf = conf[n]

\* A step between runs leaves what runs and the vault hold.
Between == UNCHANGED <<run, conf, store, faults>>

LEMMA GitBetween ==
    ASSUME NEW r \in Repos, Commit(r) \/ Checkout(r) \/ Amend(r) \/ Reset(r) \/ MissHook(r)
    PROVE  Between /\ UNCHANGED <<vault, edits>>
BY DEF Commit, Checkout, Amend, Reset, MissHook, Between, vault, count

LEMMA NothingFails ==
    ASSUME Calm, RunsInTurn
    PROVE  /\ ~LoseStore /\ \A p \in Runners : ~Crash(p)
           /\ \A p \in Runners : Save(p) => UNCHANGED faults /\ store' = IF dirty[p] THEN mem[p] ELSE store
           /\ \A n, c, head : Write(n, c, head) => conf' = [conf EXCEPT ![n] = c] /\ UNCHANGED faults
<1>1. ~(faults < MaxFaults)
  BY DEF Calm, RunsInTurn
<1> QED
  BY <1>1 DEF LoseStore, Crash, Save, Write

\* What applying a note does, where nothing fails.
LEMMA AppliesOne ==
    ASSUME TypeOK, Calm, RunsInTurn, NEW p \in Runners, NEW n \in Notes,
           Demote(p, n) \/ LeaveDown(p, n) \/ Restore(p, n) \/ LeaveUp(p, n)
    PROVE  /\ pc[p] = "apply" /\ n \in todo[p] /\ seen[p][n].conf = conf[n]
           /\ todo' = [todo EXCEPT ![p] = todo[p] \ {n}]
           /\ UNCHANGED <<git, store, pc, seen, found, faults, edits, gaps>>
           /\ \/ /\ Demote(p, n) /\ found[p][n] = "broken" /\ Demotable(p, n)
                 /\ conf' = [conf EXCEPT ![n] = Low]
                 /\ mem' = [mem EXCEPT ![p][Slug[n]] = conf[n]] /\ dirty' = [dirty EXCEPT ![p] = TRUE]
              \/ /\ Restore(p, n) /\ NotBroken(p, n) /\ mem[p][Slug[n]] # None
                 /\ conf' = [conf EXCEPT ![n] = mem[p][Slug[n]]]
                 /\ mem' = [mem EXCEPT ![p][Slug[n]] = None] /\ dirty' = [dirty EXCEPT ![p] = TRUE]
              \/ /\ \/ LeaveDown(p, n) /\ found[p][n] = "broken" /\ ~Demotable(p, n)
                    \/ LeaveUp(p, n) /\ NotBroken(p, n) /\ mem[p][Slug[n]] = None
                 /\ UNCHANGED <<conf, mem, dirty>>
<1>1. /\ pc[p] = "apply" /\ n \in todo[p] /\ todo' = [todo EXCEPT ![p] = todo[p] \ {n}]
      /\ UNCHANGED <<git, store, pc, seen, found, edits, gaps>>
  BY DEF Demote, LeaveDown, Restore, LeaveUp, NextNote, Applied
<1>2. seen[p][n].conf = conf[n]
  BY <1>1 DEF RunsInTurn
<1>3. CASE Demote(p, n)
  <2>1. PICK head : Write(n, Low, head)
    BY <1>3 DEF Demote
  <2> QED
    BY <1>1, <1>2, <1>3, <2>1, NothingFails DEF Demote, Record
<1>4. CASE Restore(p, n)
  <2>1. PICK head : Write(n, mem[p][Slug[n]], head)
    BY <1>4 DEF Restore
  <2> QED
    BY <1>1, <1>2, <1>4, <2>1, NothingFails DEF Restore, Forget
<1>5. CASE LeaveDown(p, n) \/ LeaveUp(p, n)
  <2>1. Stamp(p, n) /\ UNCHANGED <<mem, dirty>>
    BY <1>5 DEF LeaveDown, LeaveUp
  <2>2. PICK head : IF head \in {0, seen[p][n].checked} THEN UNCHANGED <<conf, checked, faults>>
                    ELSE Write(n, seen[p][n].conf, head)
    BY <2>1 DEF Stamp
  <2>3. UNCHANGED faults /\ (UNCHANGED conf \/ conf' = [conf EXCEPT ![n] = conf[n]])
    BY <1>2, <2>2, NothingFails
  <2>4. UNCHANGED conf
    BY <2>3 DEF TypeOK, VaultTypeOK
  <2> QED
    BY <1>1, <1>2, <1>5, <2>1, <2>3, <2>4 DEF LeaveDown, LeaveUp
<1> QED
  BY <1>3, <1>4, <1>5

LEMMA TurnsStep == ASSUME TypeOK, Calm, RunsInTurn, [Next]_vars PROVE RunsInTurn'
<1>0. RunTypeOK /\ VaultTypeOK
  BY DEF TypeOK
<1>1. ASSUME Between PROVE RunsInTurn'
  BY <1>1 DEF Between, run, RunsInTurn
<1>2. CASE UNCHANGED vars
  BY <1>1, <1>2 DEF vars, vault, count, Between
<1>3. ASSUME NEW r \in Repos, Commit(r) \/ Checkout(r) \/ Amend(r) \/ Reset(r) \/ MissHook(r)
      PROVE  RunsInTurn'
  BY <1>1, <1>3, GitBetween
<1>4. ASSUME NEW p \in Runners, Evaluate(p) PROVE RunsInTurn'
  <2>1. \A q \in Runners : pc[q] = "idle"
    BY <1>4 DEF Evaluate, Undisturbed, Calm
  <2>2. /\ pc' = [pc EXCEPT ![p] = "evaluated"] /\ UNCHANGED <<vault, mem, dirty, faults>>
        /\ seen' = [seen EXCEPT ![p] = [n \in Notes |-> [conf |-> conf[n], checked |-> checked[n]]]]
        /\ \E S \in SUBSET Notes : todo' = [todo EXCEPT ![p] = S]
    <3>1. todo' = [todo EXCEPT ![p] = {n \in Notes :
              [m \in Notes |-> Outcome(m, Now, Base, ReposOf(p), GateFor(p), p \in Deep)][n] # "none"}]
      BY <1>4 DEF Evaluate
    <3> QED
      BY <1>4, <3>1 DEF Evaluate
  <2>3. /\ \A q \in Runners \ {p} : pc'[q] = "idle"
        /\ pc'[p] = "evaluated"
        /\ todo'[p] \subseteq Notes /\ \A n \in Notes : seen'[p][n].conf = conf[n]
    BY <1>0, <2>1, <2>2 DEF RunTypeOK
  <2> QED
    BY <2>2, <2>3 DEF RunsInTurn, vault
<1>5. ASSUME NEW p \in Runners, OpenStore(p) PROVE RunsInTurn'
  <2>1. /\ pc[p] = "evaluated" /\ pc' = [pc EXCEPT ![p] = "apply"] /\ mem' = [mem EXCEPT ![p] = store]
        /\ UNCHANGED <<store, conf, seen, todo, faults>> /\ dirty' = [dirty EXCEPT ![p] = FALSE]
    BY <1>5 DEF OpenStore, vault, count
  <2>2. pc'[p] = "apply" /\ mem'[p] = store /\ \A q \in Runners \ {p} : pc'[q] = pc[q] /\ pc[q] = "idle"
    BY <1>0, <2>1 DEF RunTypeOK, RunsInTurn
  <2> QED
    BY <2>1, <2>2 DEF RunsInTurn
<1>6. ASSUME NEW p \in Runners, Save(p) PROVE RunsInTurn'
  <2>1. pc[p] = "apply" /\ Ended(p) /\ UNCHANGED <<conf, faults>>
    BY <1>6, NothingFails DEF Save
  <2>2. \A q \in Runners : pc'[q] = "idle"
    BY <1>0, <2>1 DEF RunTypeOK, RunsInTurn, Ended
  <2> QED
    BY <2>1, <2>2 DEF RunsInTurn
<1>7. ASSUME NEW p \in Runners, NEW n \in Notes,
             Demote(p, n) \/ LeaveDown(p, n) \/ Restore(p, n) \/ LeaveUp(p, n)
      PROVE  RunsInTurn'
  <2>1. /\ pc[p] = "apply" /\ n \in todo[p] /\ todo' = [todo EXCEPT ![p] = todo[p] \ {n}]
        /\ UNCHANGED <<store, pc, seen, faults>>
        /\ \/ dirty' = [dirty EXCEPT ![p] = TRUE] \/ UNCHANGED <<dirty, mem>>
        /\ UNCHANGED conf \/ \E c : conf' = [conf EXCEPT ![n] = c]
    BY <1>7, AppliesOne
  <2>2. \A q \in Runners \ {p} : pc[q] = "idle"
    BY <2>1 DEF RunsInTurn
  <2>3. todo'[p] = todo[p] \ {n} /\ todo[p] \subseteq Notes
    BY <1>0, <2>1 DEF RunTypeOK
  <2>4. \A m \in Notes \ {n} : conf'[m] = conf[m]
    BY <1>0, <2>1 DEF VaultTypeOK
  <2>5. dirty'[p] \/ mem'[p] = store
    BY <1>0, <2>1 DEF RunTypeOK, RunsInTurn
  <2> QED
    BY <2>1, <2>2, <2>3, <2>4, <2>5 DEF RunsInTurn
<1>8. ASSUME NEW n \in Notes, Edit(n) PROVE RunsInTurn'
  <2>1. (\A q \in Runners : pc[q] = "idle") /\ UNCHANGED <<run, faults>>
    BY <1>8 DEF Edit, Undisturbed, Calm
  <2> QED
    BY <2>1 DEF RunsInTurn, run
<1> QED
  BY <1>2, <1>3, <1>4, <1>5, <1>6, <1>7, <1>8, NothingFails DEF Next

\* In quiet, runs take turns.
LEMMA RunsTakeTurns == ASSUME Calm PROVE Spec => []RunsInTurn
<1>1. Init => RunsInTurn
  BY DEF Init, RunsInTurn
<1>2. TypeOK /\ RunsInTurn /\ [Next]_vars => RunsInTurn'
  BY TurnsStep
<1> QED
  BY <1>1, <1>2, DriftTypes, PTL DEF Spec

\* What is owed, between runs and in one.
OwedSays ==
    /\ (\A q \in Runners : pc[q] # "apply") => Owed = [n \in Notes |-> store[Slug[n]]]
    /\ \A p \in Runners : pc[p] = "apply" => Owed = [n \in Notes |-> mem[p][Slug[n]]]

LEMMA OwedIs == RunsInTurn => OwedSays
<1> SUFFICES ASSUME RunsInTurn PROVE OwedSays
  OBVIOUS
<1> DEFINE active == {q \in Runners : pc[q] = "apply"}
<1>1. Owed = [n \in Notes |-> IF active = {} THEN store[Slug[n]] ELSE mem[CHOOSE q \in active : TRUE][Slug[n]]]
  BY DEF Owed
<1>2. ASSUME NEW p \in Runners, pc[p] = "apply" PROVE active # {} /\ (CHOOSE q \in active : TRUE) = p
  <2>1. active = {p}
    BY <1>2 DEF RunsInTurn
  <2> QED
    BY <2>1
<1>3. (\A q \in Runners : pc[q] # "apply") => active = {}
  OBVIOUS
<1> HIDE DEF active
<1> QED
  BY <1>1, <1>2, <1>3 DEF OwedSays

\* Only an author and a run that applies a note move the ledger.
LEMMA OwedRests ==
    ASSUME TypeOK, Calm, OwedSays, OwedSays', RunsInTurn,
           \/ UNCHANGED vars
           \/ \E r \in Repos : Commit(r) \/ Checkout(r) \/ Amend(r) \/ Reset(r) \/ MissHook(r)
           \/ \E p \in Runners : Evaluate(p) \/ OpenStore(p) \/ Save(p)
    PROVE  UNCHANGED <<conf, Owed, edits>>
<1> DEFINE Still == UNCHANGED <<conf, Owed, edits>>
<1>0. pc \in [Runners -> {"idle", "evaluated", "apply"}] /\ mem \in [Runners -> [Slugs -> Debts]]
  BY DEF TypeOK, RunTypeOK
<1>1. ASSUME UNCHANGED <<pc, mem, store>> PROVE Owed' = Owed
  BY <1>1 DEF Owed
<1>2. CASE UNCHANGED vars
  BY <1>1, <1>2 DEF vars, run, vault, count
<1>3. ASSUME NEW r \in Repos, Commit(r) \/ Checkout(r) \/ Amend(r) \/ Reset(r) \/ MissHook(r)
      PROVE  Still
  BY <1>1, <1>3, GitBetween DEF Between, run
<1>4. ASSUME NEW p \in Runners, Evaluate(p) PROVE Still
  <2>1. /\ \A q \in Runners : pc[q] = "idle"
        /\ pc' = [pc EXCEPT ![p] = "evaluated"] /\ UNCHANGED <<conf, store, edits>>
    BY <1>4 DEF Evaluate, Undisturbed, Calm, vault, count
  <2>2. \A q \in Runners : pc[q] # "apply" /\ pc'[q] # "apply"
    BY <1>0, <2>1
  <2> QED
    BY <2>1, <2>2 DEF OwedSays
<1>5. ASSUME NEW p \in Runners, OpenStore(p) PROVE Still
  <2>1. /\ pc[p] = "evaluated" /\ pc' = [pc EXCEPT ![p] = "apply"] /\ mem' = [mem EXCEPT ![p] = store]
        /\ UNCHANGED <<conf, edits>>
    BY <1>5 DEF OpenStore, vault, count
  <2>2. \A q \in Runners : pc[q] # "apply"
    BY <2>1 DEF RunsInTurn
  <2>3. pc'[p] = "apply" /\ mem'[p] = store
    BY <1>0, <2>1
  <2> QED
    BY <2>1, <2>2, <2>3 DEF OwedSays
<1>6. ASSUME NEW p \in Runners, Save(p) PROVE Still
  <2>1. pc[p] = "apply" /\ Ended(p) /\ UNCHANGED <<conf, edits>> /\ store' = IF dirty[p] THEN mem[p] ELSE store
    BY <1>6, NothingFails DEF Save
  <2>2. \A q \in Runners : pc'[q] # "apply"
    BY <1>0, <2>1 DEF RunsInTurn, Ended
  <2>3. store' = mem[p]
    BY <2>1 DEF RunsInTurn
  <2> QED
    BY <2>1, <2>2, <2>3 DEF OwedSays
<1> QED
  BY <1>2, <1>3, <1>4, <1>5, <1>6

\* A run that applies a note takes it down, pays it back, or finds nothing to move.
LEMMA OwedMoves ==
    ASSUME TypeOK, Calm, OwedSays, OwedSays', RunsInTurn, NEW p \in Runners, NEW n \in Notes,
           Demote(p, n) \/ LeaveDown(p, n) \/ Restore(p, n) \/ LeaveUp(p, n)
    PROVE  /\ Owed = [m \in Notes |-> Owed[m]]
           /\ \/ /\ found[p][n] = "broken" /\ conf[n] \notin {Low, Blank} /\ Owed[n] = None
                 /\ conf' = [conf EXCEPT ![n] = Low] /\ Owed' = [Owed EXCEPT ![n] = conf[n]]
              \/ /\ NotBroken(p, n) /\ Owed[n] # None
                 /\ conf' = [conf EXCEPT ![n] = Owed[n]] /\ Owed' = [Owed EXCEPT ![n] = None]
              \/ /\ \/ found[p][n] = "broken" /\ (conf[n] \in {Low, Blank} \/ Owed[n] # None)
                    \/ NotBroken(p, n) /\ Owed[n] = None
                 /\ UNCHANGED <<conf, Owed>>
<1>0. mem \in [Runners -> [Slugs -> Debts]] /\ Slug \in [Notes -> Slugs]
  BY DriftAssumption DEF TypeOK, RunTypeOK
<1>1. /\ pc[p] = "apply" /\ UNCHANGED pc /\ seen[p][n].conf = conf[n]
      /\ Owed = [m \in Notes |-> mem[p][Slug[m]]] /\ Owed' = [m \in Notes |-> mem'[p][Slug[m]]]
  BY AppliesOne DEF OwedSays
<1>2. ASSUME NEW v, mem' = [mem EXCEPT ![p][Slug[n]] = v] PROVE Owed' = [Owed EXCEPT ![n] = v]
  <2>1. \A m \in Notes : mem'[p][Slug[m]] = IF m = n THEN v ELSE mem[p][Slug[m]]
    BY <1>0, <1>2 DEF Calm
  <2> QED
    BY <1>1, <2>1
<1>3. Owed[n] = mem[p][Slug[n]] /\ Owed = [m \in Notes |-> Owed[m]]
  BY <1>1
<1>4. UNCHANGED mem => UNCHANGED Owed
  BY <1>1
<1>5. Demotable(p, n) <=> conf[n] \notin {Low, Blank} /\ Owed[n] = None
  BY <1>1, <1>3 DEF Demotable
<1>6. CASE /\ found[p][n] = "broken" /\ Demotable(p, n) /\ conf' = [conf EXCEPT ![n] = Low]
           /\ mem' = [mem EXCEPT ![p][Slug[n]] = conf[n]]
  BY <1>2, <1>3, <1>5, <1>6
<1>7. CASE /\ NotBroken(p, n) /\ mem[p][Slug[n]] # None /\ conf' = [conf EXCEPT ![n] = mem[p][Slug[n]]]
           /\ mem' = [mem EXCEPT ![p][Slug[n]] = None]
  BY <1>2, <1>3, <1>7
<1>8. CASE /\ \/ found[p][n] = "broken" /\ ~Demotable(p, n)
              \/ NotBroken(p, n) /\ mem[p][Slug[n]] = None
           /\ UNCHANGED <<conf, mem>>
  BY <1>3, <1>4, <1>5, <1>8
<1> QED
  BY <1>6, <1>7, <1>8, AppliesOne

\* Every step of drift, of git and of an author is one of the ledger's, or none.
LEMMA LedgerStep ==
    ASSUME TypeOK, Calm, OwedSays, OwedSays', RunsInTurn, [Next]_vars
    PROVE  [Ledger!Next]_(Ledger!ledger)
<1>1. ASSUME UNCHANGED <<conf, Owed, edits>> PROVE [Ledger!Next]_(Ledger!ledger)
  BY <1>1 DEF Ledger!ledger
<1>2. ASSUME NEW p \in Runners, NEW n \in Notes,
             Demote(p, n) \/ LeaveDown(p, n) \/ Restore(p, n) \/ LeaveUp(p, n)
      PROVE  [Ledger!Next]_(Ledger!ledger)
  <2>1. UNCHANGED edits
    BY <1>2, AppliesOne
  <2>2. CASE /\ conf[n] \notin {Low, Blank} /\ Owed[n] = None
             /\ conf' = [conf EXCEPT ![n] = Low] /\ Owed' = [Owed EXCEPT ![n] = conf[n]]
    BY <2>1, <2>2 DEF Ledger!Next, Ledger!Demote
  <2>3. CASE /\ Owed[n] # None
             /\ conf' = [conf EXCEPT ![n] = Owed[n]] /\ Owed' = [Owed EXCEPT ![n] = None]
    BY <2>1, <2>3 DEF Ledger!Next, Ledger!PayBack
  <2>4. CASE UNCHANGED <<conf, Owed>>
    BY <1>1, <2>1, <2>4
  <2> QED
    BY <1>2, <2>2, <2>3, <2>4, OwedMoves
<1>3. ASSUME NEW n \in Notes, Edit(n) PROVE [Ledger!Next]_(Ledger!ledger)
  <2>1. /\ edits' = edits + 1 /\ UNCHANGED <<pc, mem, store>>
        /\ \E c \in Levels \cup {Blank} : conf' = [conf EXCEPT ![n] = c]
    BY <1>3 DEF Edit, run, Confs
  <2>2. Owed' = Owed
    BY <2>1 DEF Owed
  <2>3. Ledger!Edit(n)
    BY <2>1, <2>2 DEF Ledger!Edit
  <2> QED
    BY <2>3 DEF Ledger!Next
<1> QED
  BY <1>1, <1>2, <1>3, NothingFails, OwedRests DEF Next

\* In quiet, drift keeps the promise its comments give: whatever is cited, deleted, renamed
\* and brought back, a note goes down to low once and is owed what it showed, and comes up
\* once, by that much (apply.go, demotions.go).
THEOREM LedgerKept == ASSUME Calm PROVE Spec => KeepsTheLedger
<1>1. Init => Ledger!Init
  <2> SUFFICES ASSUME Init PROVE Ledger!Init
    OBVIOUS
  <2>1. \A q \in Runners : pc[q] # "apply"
    BY DEF Init
  <2>2. RunsInTurn
    BY DEF Init, RunsInTurn
  <2>3. Owed = [n \in Notes |-> store[Slug[n]]]
    BY <2>1, <2>2, OwedIs DEF OwedSays
  <2>4. Owed = [n \in Notes |-> None] /\ conf \in [Notes -> Levels \cup {Blank}] /\ edits = 0
    BY <2>3, DriftAssumption DEF Init, NoStore, Confs
  <2> QED
    BY <2>4 DEF Ledger!Init
<1>2. TypeOK /\ RunsInTurn /\ OwedSays /\ OwedSays' /\ [Next]_vars => [Ledger!Next]_(Ledger!ledger)
  BY LedgerStep
<1> QED
  BY <1>1, <1>2, OwedIs, DriftTypes, RunsTakeTurns, PTL DEF Spec, KeepsTheLedger, Ledger!Spec

(***************************************************************************)
(* Verdicts.                                                               *)
(***************************************************************************)

\* A cited path names one place: the files it can mean are of one repository, and no other
\* file has its basename; and the extractor finds a declaration in every tracked file.
OnePlace ==
    /\ \A n \in Notes : \A ref \in Cites[n] : ref.kind = "path" =>
         /\ \A f, g \in ref.files : RepoOf[f] = RepoOf[g]
         /\ \A f \in Files : BaseOf[f] = ref.base => f \in ref.files
    /\ \A c \in Contents : DOMAIN c # {}

\* The first of one file is that file.
LEMMA OneFile ==
    ASSUME NEW S \in SUBSET Files, S # {}, ~(Cardinality(S) > 1)
    PROVE  FirstFile(S) \in S /\ S = {FirstFile(S)}
<1>1. IsFiniteSet(S)
  BY FilesAssumption, FS_Subset
<1>2. Cardinality(S) \in Nat /\ Cardinality(S) # 0
  BY <1>1, FS_CardinalityType, FS_EmptySet
<1>3. PICK f : S = {f}
  BY <1>1, <1>2, FS_Singleton
<1>4. f \in Nat
  BY <1>3, FilesAssumption
<1>5. FirstFile(S) = f
  BY <1>3, <1>4 DEF FirstFile
<1> QED
  BY <1>3, <1>5

\* BROKEN is only said of code that is gone, by a hook, which looks at one repository behind
\* its gate, and by a sweep, which looks at all of them.
LEMMA BrokenRefGone ==
    ASSUME OnePlace, NEW n \in Notes, NEW ref \in Cites[n], NEW now \in Tree, NEW base, NEW repos \in SUBSET Repos,
           NEW gate, NEW deep,
           gate.full \/ deep => repos = Repos,
           \A f \in gate.deleted : f \in Files /\ RepoOf[f] \in repos /\ now[f] = Absent,
           CheckRef(n, ref, now, base, repos, gate, deep) = "broken"
    PROVE  RefGone(ref, now, base)
<1> DEFINE hits == Resolve(ref, now, repos)
           all == Resolve(ref, now, Repos)
<1>1. ref \in Ref /\ ref.kind \in {"path", "symbol"} /\ ref.files \subseteq Files
  BY FilesAssumption DEF Ref
<1>2. hits \in SUBSET Files
  BY <1>1 DEF Resolve, Tracked
<1>3. ASSUME NEW g \in ref.files, RepoOf[g] \in repos, ref.kind = "path" PROVE all = hits
  <2>1. ref.files \cap Tracked(now, repos) = ref.files \cap Tracked(now, Repos)
    BY <1>1, <1>3 DEF OnePlace, Tracked
  <2> QED
    BY <2>1 DEF Resolve
<1>4. CASE ref.kind = "symbol"
  <2>1. CheckSymbolOnly(n, ref, now, base, repos, deep) = "broken"
    BY <1>4 DEF CheckRef
  <2>2. Find(ref.symbol, now, repos) = {} /\ deep /\ Find(ref.symbol, base, repos) # {}
    BY <2>1 DEF CheckSymbolOnly, SymbolVerdict
  <2> QED
    BY <1>4, <2>2 DEF RefGone
<1>5. CASE ref.kind = "path" /\ hits = {}
  <2>1. CheckUnresolvedPath(n, ref, base, repos, gate, deep) = "broken"
    BY <1>5 DEF CheckRef
  <2>2. gate.full \/ DeletedInGate(ref, gate)
    BY <2>1 DEF CheckUnresolvedPath
  <2>3. CASE DeletedInGate(ref, gate)
    <3>1. PICK f \in gate.deleted : BaseOf[f] = ref.base
      BY <2>3 DEF DeletedInGate
    <3>2. f \in ref.files /\ RepoOf[f] \in repos
      BY <1>5, <3>1 DEF OnePlace
    <3> QED
      BY <1>3, <1>5, <3>2 DEF RefGone
  <2>4. CASE gate.full
    BY <1>5, <2>4 DEF RefGone
  <2> QED
    BY <2>2, <2>3, <2>4
<1>6. CASE ref.kind = "path" /\ hits # {}
  <2> DEFINE f == FirstFile(hits)
  <2>1. ~(Cardinality(hits) > 1) /\ CheckPath(n, ref, f, now, base) = "broken"
    BY <1>6 DEF CheckRef
  <2>2. f \in hits /\ hits = {f}
    BY <1>2, <1>6, <2>1, OneFile
  <2>3. f \in ref.files /\ RepoOf[f] \in repos /\ f \in Files /\ now[f] \in Contents
    BY <1>1, <2>2 DEF Resolve, Tracked, Tree, FileState
  <2>4. Indexed(now, f)
    BY <2>2, <2>3, FilesAssumption DEF Indexed, OnePlace
  <2>5. ref.symbol # NoSymbol /\ ref.symbol \notin DOMAIN now[f]
    <3> HIDE DEF f
    <3> QED
      BY <2>1, <2>4 DEF CheckPath, CheckFileBody, SymbolVerdict
  <2>6. all = {f}
    BY <1>3, <1>6, <2>2, <2>3
  <2> QED
    BY <1>6, <2>5, <2>6 DEF RefGone
<1> QED
  BY <1>1, <1>4, <1>5, <1>6

\* The trees a run reads.
LEMMA NowTyped == ASSUME GitTypeOK PROVE Now \in Tree
<1> SUFFICES ASSUME NEW f \in Files PROVE HeadTree(RepoOf[f])[f] \in FileState
  BY DEF Now, Tree
<1>1. RepoOf[f] \in Repos /\ f \in FilesOf(RepoOf[f])
  BY FilesAssumption DEF FilesOf
<1>2. HeadTree(RepoOf[f]) \in RepoTree(RepoOf[f])
  BY <1>1, HeadTyped
<1> QED
  BY <1>1, <1>2 DEF RepoTree

LEMMA BrokenGone ==
    ASSUME OnePlace, GitTypeOK, NEW p \in Runners, NEW n \in Notes, NEW deep \in BOOLEAN, p \in Repos => deep = FALSE,
           Outcome(n, Now, Base, ReposOf(p), GateFor(p), deep) = "broken"
    PROVE  CodeGone(n, Now, Base)
<1>1. PICK ref \in Cites[n] : CheckRef(n, ref, Now, Base, ReposOf(p), GateFor(p), deep) = "broken"
  BY DEF Outcome
<1>2. ReposOf(p) \in SUBSET Repos /\ (p \notin Repos => ReposOf(p) = Repos)
  BY DEF ReposOf
<1>3. p \in Repos => ~GateFor(p).full
  BY DEF GateFor, GateOf
<1>4. \A f \in GateFor(p).deleted : f \in Files /\ RepoOf[f] \in ReposOf(p) /\ Now[f] = Absent
  BY DEF GateFor, GateOf, FullSweep, ReposOf
<1>5. GateFor(p).full \/ deep => ReposOf(p) = Repos
  BY <1>2, <1>3
<1>6. RefGone(ref, Now, Base)
  BY <1>1, <1>2, <1>4, <1>5, NowTyped, BrokenRefGone
<1> QED
  BY <1>6 DEF CodeGone

\* A run in progress has found broken only what is gone.
BrokenInv ==
    \A p \in Runners, n \in Notes : found[p][n] = "broken" => pc[p] # "idle" /\ CodeGone(n, Now, Base)

LEMMA BrokenStep == ASSUME Quiet, OnePlace, TypeOK, BrokenInv, [Next]_vars PROVE BrokenInv'
<1>0. /\ pc \in [Runners -> {"idle", "evaluated", "apply"}] /\ found \in [Runners -> [Notes -> Verdicts]]
      /\ GitTypeOK
  BY DEF TypeOK, RunTypeOK
<1>1. ASSUME UNCHANGED <<log, found>>, \A p \in Runners : pc[p] # "idle" => pc'[p] # "idle" PROVE BrokenInv'
  BY <1>1 DEF BrokenInv, Now, Base, HeadTree, HeadOf
<1>2. ASSUME \A p \in Runners : pc[p] = "idle", UNCHANGED found PROVE BrokenInv'
  BY <1>2 DEF BrokenInv
<1>3. CASE UNCHANGED vars
  BY <1>1, <1>3 DEF vars, git, run
<1>4. ASSUME NEW r \in Repos, Commit(r) \/ Checkout(r) \/ Amend(r) \/ Reset(r) PROVE BrokenInv'
  BY <1>2, <1>4 DEF Commit, Checkout, Amend, Reset, GitFree, Undisturbed, run
<1>5. ASSUME NEW r \in Repos, MissHook(r) PROVE BrokenInv'
  BY <1>1, <1>5 DEF MissHook, run
<1>6. ASSUME NEW p \in Runners, Evaluate(p) PROVE BrokenInv'
  <2>1. /\ \A q \in Runners : pc[q] = "idle" /\ pc' = [pc EXCEPT ![p] = "evaluated"] /\ UNCHANGED log
    BY <1>6 DEF Evaluate, Undisturbed, git
  <2>2. found' = [found EXCEPT ![p] = [n \in Notes |-> Outcome(n, Now, Base, ReposOf(p), GateFor(p), p \in Deep)]]
    BY <1>6 DEF Evaluate
  <2>3. (p \in Deep) \in BOOLEAN /\ (p \in Repos => (p \in Deep) = FALSE)
    BY DriftAssumption
  <2>4. \A q \in Runners \ {p} : \A n \in Notes : found'[q][n] # "broken"
    BY <1>0, <2>1, <2>2 DEF BrokenInv
  <2>5. pc'[p] # "idle" /\ \A n \in Notes : found'[p][n] = "broken" => CodeGone(n, Now, Base)
    BY <1>0, <2>1, <2>2, <2>3, BrokenGone
  <2>6. Now' = Now /\ Base' = Base
    BY <2>1 DEF Now, Base, HeadTree, HeadOf
  <2> QED
    BY <2>4, <2>5, <2>6 DEF BrokenInv
<1>7. ASSUME NEW p \in Runners, OpenStore(p) PROVE BrokenInv'
  BY <1>0, <1>1, <1>7 DEF OpenStore, git
<1>8. ASSUME NEW p \in Runners, Save(p) \/ Crash(p) PROVE BrokenInv'
  <2>1. Ended(p) /\ UNCHANGED log
    BY <1>8 DEF Save, Crash
  <2>2. /\ \A n \in Notes : found'[p][n] = "none"
        /\ \A q \in Runners \ {p} : found'[q] = found[q] /\ pc'[q] = pc[q]
    BY <1>0, <2>1 DEF Ended
  <2>3. Now' = Now /\ Base' = Base
    BY <2>1 DEF Now, Base, HeadTree, HeadOf
  <2> QED
    BY <2>2, <2>3 DEF BrokenInv
<1>9. ASSUME NEW p \in Runners, NEW n \in Notes, Demote(p, n) \/ LeaveDown(p, n) \/ Restore(p, n) \/ LeaveUp(p, n)
      PROVE  BrokenInv'
  <2>1. UNCHANGED <<git, pc, found>>
    BY <1>9 DEF Demote, LeaveDown, Restore, LeaveUp, Applied
  <2> QED
    BY <1>1, <2>1 DEF git
<1>10. ASSUME LoseStore \/ \E n \in Notes : Edit(n) PROVE BrokenInv'
  BY <1>1, <1>10 DEF LoseStore, Edit, git, run
<1> QED
  BY <1>3, <1>4, <1>5, <1>6, <1>7, <1>8, <1>9, <1>10 DEF Next

\* In quiet, drift says BROKEN only of code that is gone: by a hook behind its gate or by a
\* sweep, of notes with any number of citations (drift.go:35).
THEOREM BrokenAlwaysMeansGone == ASSUME Quiet, OnePlace PROVE Spec => []BrokenMeansGone
<1>1. Init => BrokenInv
  BY DEF Init, BrokenInv
<1>2. TypeOK /\ BrokenInv /\ [Next]_vars => BrokenInv'
  BY BrokenStep
<1>3. BrokenInv => BrokenMeansGone
  BY DEF BrokenInv, BrokenMeansGone
<1> QED
  BY <1>1, <1>2, <1>3, DriftTypes, PTL DEF Spec

(***************************************************************************)
(* Rollback.                                                               *)
(***************************************************************************)

\* Each note cites one path, which means one file; a basename is of one repository; the
\* extractor finds a declaration in every tracked file; and the notes were written about code
\* that was there.  Nothing is asked of the sweeps: with --deep or without, of dated notes or
\* not.
LonePaths ==
    /\ \A n \in Notes : \E f \in Files : \E x, s, l :
         Cites[n] = {[kind |-> "path", files |-> {f}, base |-> BaseOf[f], extra |-> x,
                      symbol |-> s, line |-> l]}
    /\ \A f, g \in Files : BaseOf[f] = BaseOf[g] => RepoOf[f] = RepoOf[g]
    /\ \A c \in Contents : DOMAIN c # {}
    /\ \A n \in Notes : ~CodeGone(n, FirstTree, FirstTree)

CitesOne(n, ref, f) ==
    /\ f \in Files /\ Cites[n] = {ref} /\ ref.kind = "path" /\ ref.files = {f}
    /\ ref.base = BaseOf[f]

\* The file a note cites.
Cited(n) == CHOOSE f \in Files : \E ref : CitesOne(n, ref, f)

\* Whether a file that holds c is without what a citation names.
LacksAt(ref, c) == c = Absent \/ (ref.symbol # NoSymbol /\ ref.symbol \notin DOMAIN c)

LEMMA LoneCite ==
    ASSUME LonePaths, NEW n \in Notes
    PROVE  /\ Cited(n) \in Files /\ RepoOf[Cited(n)] \in Repos
           /\ \E ref : CitesOne(n, ref, Cited(n))
<1>1. PICK f \in Files : \E x, s, l :
        Cites[n] = {[kind |-> "path", files |-> {f}, base |-> BaseOf[f], extra |-> x,
                     symbol |-> s, line |-> l]}
  BY DEF LonePaths
<1>2. PICK x, s, l :
        Cites[n] = {[kind |-> "path", files |-> {f}, base |-> BaseOf[f], extra |-> x,
                     symbol |-> s, line |-> l]}
  BY <1>1
<1> DEFINE r == [kind |-> "path", files |-> {f}, base |-> BaseOf[f], extra |-> x,
                 symbol |-> s, line |-> l]
<1>3. CitesOne(n, r, f)
  BY <1>2 DEF CitesOne
<1> HIDE DEF r
<1>4. \E g \in Files : \E ref : CitesOne(n, ref, g)
  BY <1>3
<1>5. Cited(n) \in Files /\ \E ref : CitesOne(n, ref, Cited(n))
  BY <1>4 DEF Cited
<1> QED
  BY <1>5, FilesAssumption

\* Of one file that is there, the tightest is that file.
LEMMA LoneTightest ==
    ASSUME NEW n \in Notes, NEW ref, NEW f, CitesOne(n, ref, f), NEW tree, NEW repos
    PROVE  Resolve(ref, tree, repos) = IF tree[f] # Absent /\ RepoOf[f] \in repos THEN {f} ELSE {}
<1>1. f \in Files /\ ref.files = {f} /\ ref \in Ref
  BY FilesAssumption DEF CitesOne
<1>2. ref.extra[f] \in Nat
  BY <1>1 DEF Ref
<1>3. ref.extra[f] <= ref.extra[f]
  BY <1>2
<1>4. ref.files \cap Tracked(tree, repos) = IF tree[f] # Absent /\ RepoOf[f] \in repos THEN {f} ELSE {}
  BY <1>1 DEF Tracked
<1> QED
  BY <1>3, <1>4 DEF Resolve

\* One file of a tree, where a run looks at its repository and where it does not.
LEMMA LoneResolve ==
    ASSUME NEW n \in Notes, NEW ref, NEW f, CitesOne(n, ref, f), NEW tree, NEW repos
    PROVE  /\ tree[f] # Absent /\ RepoOf[f] \in repos =>
                /\ Resolve(ref, tree, repos) # {} /\ Cardinality(Resolve(ref, tree, repos)) = 1
                /\ FirstFile(Resolve(ref, tree, repos)) = f
           /\ tree[f] = Absent \/ RepoOf[f] \notin repos => Resolve(ref, tree, repos) = {}
           /\ ~(Cardinality(Resolve(ref, tree, repos)) > 1)
<1>1. f \in Files /\ f \in Nat /\ ref.files = {f}
  BY FilesAssumption DEF CitesOne
<1>2. CASE tree[f] # Absent /\ RepoOf[f] \in repos
  <2>1. Resolve(ref, tree, repos) = {f}
    BY <1>2, LoneTightest
  <2>2. Cardinality({f}) = 1
    BY FS_Singleton
  <2>3. FirstFile({f}) = f
    BY <1>1 DEF FirstFile
  <2> QED
    BY <1>2, <2>1, <2>2, <2>3
<1>3. CASE tree[f] = Absent \/ RepoOf[f] \notin repos
  <2>1. Resolve(ref, tree, repos) = {}
    BY <1>3, LoneTightest
  <2>2. Cardinality({}) = 0
    BY FS_EmptySet
  <2> QED
    BY <1>3, <2>1, <2>2
<1> QED
  BY <1>2, <1>3

\* Whether cited code is gone is a matter of one file.
LEMMA LoneGone ==
    ASSUME NEW n \in Notes, NEW ref, NEW f, CitesOne(n, ref, f), NEW now, NEW base
    PROVE  CodeGone(n, now, base) <=> LacksAt(ref, now[f])
<1>1. Cites[n] = {ref} /\ ref.kind = "path" /\ ref.files = {f} /\ RepoOf[f] \in Repos /\ f \in Files
  BY FilesAssumption DEF CitesOne
<1>2. CodeGone(n, now, base) <=> RefGone(ref, now, base)
  BY <1>1 DEF CodeGone
<1>3. Resolve(ref, now, Repos) = IF now[f] = Absent THEN {} ELSE {f}
  BY <1>1, LoneTightest
<1> DEFINE hits == Resolve(ref, now, Repos)
<1>4. RefGone(ref, now, base) <=> hits = {} \/ (ref.symbol # NoSymbol /\ \A g \in hits : ref.symbol \notin DOMAIN now[g])
  BY <1>1 DEF RefGone
<1> HIDE DEF hits
<1>5. hits = IF now[f] = Absent THEN {} ELSE {f}
  BY <1>3 DEF hits
<1> QED
  BY <1>2, <1>4, <1>5 DEF LacksAt

\* A note with one citation comes out as the citation does.
LEMMA LoneOutcome ==
    ASSUME NEW n \in Notes, NEW ref, NEW f, CitesOne(n, ref, f), NEW now, NEW base, NEW repos, NEW gate, NEW deep
    PROVE  LET v == CheckRef(n, ref, now, base, repos, gate, deep)
               out == Outcome(n, now, base, repos, gate, deep)
           IN  (out = "broken" <=> v = "broken") /\ (out = "none" <=> v = "none")
<1> DEFINE v == CheckRef(n, ref, now, base, repos, gate, deep)
<1>1. {CheckRef(n, r, now, base, repos, gate, deep) : r \in Cites[n]} = {v}
  BY DEF CitesOne
<1> HIDE DEF v
<1>2. Outcome(n, now, base, repos, gate, deep) =
        CASE "broken" \in {v} -> "broken"
          [] {v} \subseteq {"none"} -> "none"
          [] "skipped" \in {v} /\ {v} \subseteq {"none", "skipped"} -> "skipped"
          [] OTHER -> "clean"
  BY <1>1 DEF Outcome, v
<1>3. (Outcome(n, now, base, repos, gate, deep) = "broken" <=> v = "broken")
      /\ (Outcome(n, now, base, repos, gate, deep) = "none" <=> v = "none")
  BY <1>2
<1> QED
  BY <1>3 DEF v

\* What CheckPath says of a file that is there.
LEMMA LonePath ==
    ASSUME LonePaths, NEW n \in Notes, NEW ref, NEW f \in Files, NEW now \in Tree, NEW base, now[f] # Absent
    PROVE  /\ CheckPath(n, ref, f, now, base) = "broken" <=> LacksAt(ref, now[f])
           /\ CheckPath(n, ref, f, now, base) # "none"
<1>1. Indexed(now, f)
  BY DEF Indexed, LonePaths, Tree, FileState
<1>2. CASE ref.symbol = NoSymbol
  BY <1>1, <1>2 DEF CheckPath, CheckFileBody, LacksAt
<1>3. CASE ref.symbol # NoSymbol /\ ref.symbol \notin DOMAIN now[f]
  BY <1>1, <1>3 DEF CheckPath, LacksAt
<1>4. CASE ref.symbol # NoSymbol /\ ref.symbol \in DOMAIN now[f]
  <2>1. CheckPath(n, ref, f, now, base) = SymbolVerdict(n, ref, f, now, base)
    BY <1>1, <1>4 DEF CheckPath
  <2>2. SymbolVerdict(n, ref, f, now, base) \in {"suspect", "repaired", "ok"}
    BY DEF SymbolVerdict
  <2> QED
    BY <1>4, <2>1, <2>2 DEF LacksAt
<1> QED
  BY <1>2, <1>3, <1>4

\* What CheckRef comes to for such a citation.
LEMMA LoneCheck ==
    ASSUME NEW n \in Notes, NEW ref, NEW f, CitesOne(n, ref, f), NEW now, NEW base, NEW repos, NEW gate, NEW deep
    PROVE  LET v == CheckRef(n, ref, now, base, repos, gate, deep)
           IN  /\ now[f] = Absent \/ RepoOf[f] \notin repos =>
                    v = CheckUnresolvedPath(n, ref, base, repos, gate, deep)
               /\ now[f] # Absent /\ RepoOf[f] \in repos =>
                    v = IF gate.full \/ f \in gate.touched THEN CheckPath(n, ref, f, now, base) ELSE "none"
<1> DEFINE hits == Resolve(ref, now, repos)
<1>1. ref.kind = "path"
  BY DEF CitesOne
<1>2. ~(Cardinality(hits) > 1)
  BY LoneResolve
<1>3. CASE now[f] = Absent \/ RepoOf[f] \notin repos
  <2>1. hits = {}
    BY <1>3, LoneResolve
  <2> HIDE DEF hits
  <2> QED
    BY <1>1, <1>2, <1>3, <2>1 DEF CheckRef, hits
<1>4. CASE now[f] # Absent /\ RepoOf[f] \in repos
  <2>1. hits # {} /\ FirstFile(hits) = f
    BY <1>4, LoneResolve
  <2>2. CheckRef(n, ref, now, base, repos, gate, deep) =
          IF gate.full \/ FirstFile(hits) \in gate.touched
            THEN CheckPath(n, ref, FirstFile(hits), now, base) ELSE "none"
    BY <1>1, <1>2, <2>1 DEF CheckRef
  <2> HIDE DEF hits
  <2> QED
    BY <1>4, <2>1, <2>2
<1> QED
  BY <1>3, <1>4

\* A sweep looks at every note, and says broken only of what is gone; of a dated note, a deep
\* one says it whenever that is so.
LEMMA SweepVerdict ==
    ASSUME LonePaths, NEW n \in Notes, NEW ref, NEW f, CitesOne(n, ref, f), NEW now \in Tree, NEW base, base[f] # Absent,
           NEW deep \in BOOLEAN
    PROVE  LET out == Outcome(n, now, base, Repos, FullSweep, deep)
           IN  /\ out # "none"
               /\ out = "broken" => LacksAt(ref, now[f])
               /\ deep /\ n \in Verified /\ LacksAt(ref, now[f]) => out = "broken"
<1> DEFINE gate == FullSweep
           v == CheckRef(n, ref, now, base, Repos, gate, deep)
<1>1. RepoOf[f] \in Repos /\ f \in Files /\ gate.full
  BY FilesAssumption DEF CitesOne, FullSweep
<1> HIDE DEF gate
<1>2. CASE now[f] = Absent
  <2>1. v = CheckUnresolvedPath(n, ref, base, Repos, gate, deep)
    BY <1>2, LoneCheck
  <2>2. Cardinality(Resolve(ref, base, Repos)) = 1
    BY <1>1, LoneResolve
  <2>3. v \in {"broken", "skipped"} /\ (deep /\ n \in Verified => v = "broken")
    BY <1>1, <2>1, <2>2 DEF CheckUnresolvedPath
  <2>4. LacksAt(ref, now[f])
    BY <1>2 DEF LacksAt
  <2> HIDE DEF v
  <2> QED
    BY <2>3, <2>4, LoneOutcome DEF v, gate
<1>3. CASE now[f] # Absent
  <2>1. v = CheckPath(n, ref, f, now, base)
    BY <1>1, <1>3, LoneCheck
  <2>2. (v = "broken" <=> LacksAt(ref, now[f])) /\ v # "none"
    BY <1>1, <1>3, <2>1, LonePath
  <2> HIDE DEF v
  <2> QED
    BY <2>2, LoneOutcome DEF v, gate
<1> QED
  BY <1>2, <1>3

\* A hook looks at a note when the file it cites has changed since its anchor, and then says
\* broken of what is gone; a deletion of that name elsewhere makes it look again.
LEMMA HookVerdict ==
    ASSUME LonePaths, NEW n \in Notes, NEW ref, NEW f, CitesOne(n, ref, f), NEW now \in Tree, NEW base, NEW then,
           NEW p, NEW deep
    PROVE  LET out == Outcome(n, now, base, {p}, GateOf(then, now, {p}), deep)
           IN  /\ out # "none" => (out = "broken" <=> LacksAt(ref, now[f]))
               /\ RepoOf[f] = p /\ then[f] # now[f] => out # "none"
<1> DEFINE gate == GateOf(then, now, {p})
           v == CheckRef(n, ref, now, base, {p}, gate, deep)
<1>1. ref.base = BaseOf[f] /\ f \in Files
  BY DEF CitesOne
<1>2. /\ ~gate.full
      /\ \A g \in gate.deleted : g \in Files /\ RepoOf[g] = p
      /\ f \in gate.touched <=> RepoOf[f] = p /\ then[f] # now[f]
      /\ RepoOf[f] = p /\ then[f] # now[f] /\ now[f] = Absent => f \in gate.deleted
  BY <1>1 DEF GateOf
<1> HIDE DEF gate
<1>3. CASE now[f] = Absent \/ RepoOf[f] # p
  <2>1. v = IF DeletedInGate(ref, gate) THEN "broken" ELSE "none"
    BY <1>2, <1>3, LoneCheck DEF CheckUnresolvedPath
  <2>2. DeletedInGate(ref, gate) => LacksAt(ref, now[f])
    BY <1>1, <1>2, <1>3 DEF DeletedInGate, LacksAt, LonePaths
  <2>3. RepoOf[f] = p /\ then[f] # now[f] => DeletedInGate(ref, gate)
    BY <1>1, <1>2, <1>3 DEF DeletedInGate
  <2>4. (v # "none" => (v = "broken" /\ LacksAt(ref, now[f]))) /\ (RepoOf[f] = p /\ then[f] # now[f] => v # "none")
    BY <2>1, <2>2, <2>3
  <2> HIDE DEF v
  <2> QED
    BY <2>4, LoneOutcome DEF v, gate
<1>4. CASE now[f] # Absent /\ RepoOf[f] = p
  <2>1. v = IF f \in gate.touched THEN CheckPath(n, ref, f, now, base) ELSE "none"
    BY <1>2, <1>4, LoneCheck
  <2>2. (v # "none" => (v = "broken" <=> LacksAt(ref, now[f]))) /\ (RepoOf[f] = p /\ then[f] # now[f] => v # "none")
    BY <1>1, <1>2, <1>4, <2>1, LonePath
  <2> HIDE DEF v
  <2> QED
    BY <2>2, LoneOutcome DEF v, gate
<1> QED
  BY <1>3, <1>4

\* Whether the code a note cites is gone depends on the one file.
LEMMA GoneByFile ==
    ASSUME LonePaths, NEW n \in Notes, NEW now, NEW then, NEW base, NEW old, now[Cited(n)] = then[Cited(n)]
    PROVE  CodeGone(n, now, base) <=> CodeGone(n, then, old)
<1>1. PICK ref : CitesOne(n, ref, Cited(n))
  BY LoneCite
<1> QED
  BY <1>1, LoneGone

\* A chain never loses its first commit, the one the notes were verified against.
BaseKept == \A r \in Repos : log[r][1].tree = [f \in FilesOf(r) |-> FirstTree[f]]

LEMMA FirstStays ==
    ASSUME NEW S, NEW q \in Seq(S), q # <<>>
    PROVE  /\ \A e \in S : Append(q, e)[1] = q[1]
           /\ Len(q) > 1 => SubSeq(q, 1, Len(q) - 1)[1] = q[1]
           /\ Len(q) > 1 => \A e \in S : [q EXCEPT ![Len(q)] = e][1] = q[1]
<1>1. Len(q) \in Nat \ {0}
  BY LastCommit
<1> QED
  BY <1>1

LEMMA BaseThere ==
    ASSUME LonePaths, BaseKept, NEW n \in Notes
    PROVE  Base[Cited(n)] # Absent
<1> DEFINE f == Cited(n)
<1>1. f \in Files /\ RepoOf[f] \in Repos
  BY LoneCite
<1>2. PICK ref : CitesOne(n, ref, f)
  BY LoneCite
<1>3. ~LacksAt(ref, FirstTree[f])
  BY <1>2, LoneGone DEF LonePaths
<1>4. FirstTree[f] # Absent
  BY <1>3 DEF LacksAt
<1>5. Base[f] = FirstTree[f]
  BY <1>1 DEF Base, BaseKept, FilesOf
<1> QED
  BY <1>4, <1>5

Gone(n) == CodeGone(n, Now, Base)

\* A hook is due that will see a change of the file the note cites.
Overdue(n) ==
    LET f == Cited(n)
    IN  since[RepoOf[f]] # NoHook /\ since[RepoOf[f]][f] # Now[f]

\* A note that rollback symmetry is true of, and one that a run has applied.
Symmetric(n) == (Owed[n] # None => Gone(n)) /\ (edits = 0 /\ Gone(n) => conf[n] \in {Low, Blank})
Treated(n) == IF Gone(n) THEN conf[n] \in {Low, Blank} \/ Owed[n] # None ELSE Owed[n] = None

\* What a run has concluded of a note that it can tell a deletion of is true of it, and what
\* it has applied is done; what it did not look at is right as it is, or another repository's
\* hook will see to it.
Judged(p, n) ==
    /\ gaps = 0 => Sees(p, n)
    /\ found[p][n] = "broken" => Gone(n)
    /\ NotBroken(p, n) /\ Sees(p, n) => ~Gone(n)
    /\ found[p][n] = "none" => p \in Repos /\ n \notin todo[p]
    /\ found[p][n] = "none" /\ gaps = 0 => Symmetric(n) \/ (Overdue(n) /\ RepoOf[Cited(n)] # p)
    /\ found[p][n] # "none" /\ n \notin todo[p] /\ Sees(p, n) => Treated(n)

DebtorsAreLow == edits = 0 => \A n \in Notes : Owed[n] # None => conf[n] = Low
RunsRight == \A p \in Runners, n \in Notes : pc[p] # "idle" => Judged(p, n)
AtRest == (\A p \in Runners : pc[p] = "idle") /\ gaps = 0 => \A n \in Notes : Symmetric(n) \/ Overdue(n)

RollInv == BaseKept /\ DebtorsAreLow /\ RunsRight /\ AtRest

\* What a run concludes when it evaluates a note.
LEMMA LoneVerdict ==
    ASSUME LonePaths, GitTypeOK, BaseKept, NEW n \in Notes, NEW p \in Runners,
           p \in Repos => since[p] # NoHook
    PROVE  LET out == Outcome(n, Now, Base, ReposOf(p), GateFor(p), p \in Deep)
           IN  /\ out \in Verdicts
               /\ out = "broken" => Gone(n)
               /\ out # "none" /\ Sees(p, n) /\ Gone(n) => out = "broken"
               /\ out = "none" => p \in Repos /\ ~(RepoOf[Cited(n)] = p /\ Overdue(n))
<1> DEFINE f == Cited(n)
           out == Outcome(n, Now, Base, ReposOf(p), GateFor(p), p \in Deep)
<1>0. out \in Verdicts
  BY OutcomeTyped
<1>1. PICK ref : CitesOne(n, ref, f)
  BY LoneCite
<1>2. f \in Files /\ RepoOf[f] \in Repos /\ Now \in Tree /\ Base[f] # Absent
  BY LoneCite, NowTyped, BaseThere
<1>3. Gone(n) <=> LacksAt(ref, Now[f])
  BY <1>1, LoneGone DEF Gone
<1>4. CASE p \in Repos
  <2>1. ReposOf(p) = {p} /\ GateFor(p) = GateOf(Anchor(p), Now, {p})
    BY <1>4 DEF ReposOf, GateFor
  <2>2. RepoOf[f] = p /\ Overdue(n) => Anchor(p)[f] # Now[f]
    BY <1>2 DEF Overdue, Anchor
  <2>3. \A then, d :
          LET o == Outcome(n, Now, Base, {p}, GateOf(then, Now, {p}), d)
          IN  /\ o # "none" => (o = "broken" <=> LacksAt(ref, Now[f]))
              /\ RepoOf[f] = p /\ then[f] # Now[f] => o # "none"
    BY <1>1, <1>2, HookVerdict
  <2>4. /\ out # "none" => (out = "broken" <=> LacksAt(ref, Now[f]))
        /\ RepoOf[f] = p /\ Anchor(p)[f] # Now[f] => out # "none"
    BY <2>1, <2>3
  <2> HIDE DEF out
  <2> QED
    BY <1>0, <1>3, <1>4, <2>2, <2>4 DEF out
<1>5. CASE p \notin Repos
  <2>1. ReposOf(p) = Repos /\ GateFor(p) = FullSweep /\ (p \in Deep) \in BOOLEAN
    BY <1>5 DEF ReposOf, GateFor
  <2>2. \A d \in BOOLEAN :
          LET o == Outcome(n, Now, Base, Repos, FullSweep, d)
          IN  /\ o # "none"
              /\ o = "broken" => LacksAt(ref, Now[f])
              /\ d /\ n \in Verified /\ LacksAt(ref, Now[f]) => o = "broken"
    BY <1>1, <1>2, SweepVerdict
  <2>3. /\ out # "none"
        /\ out = "broken" => LacksAt(ref, Now[f])
        /\ p \in Deep /\ n \in Verified /\ LacksAt(ref, Now[f]) => out = "broken"
    BY <2>1, <2>2
  <2> HIDE DEF out
  <2> QED
    BY <1>0, <1>3, <1>5, <2>3 DEF out, Sees
<1> QED
  BY <1>4, <1>5

LEMMA RollInit == ASSUME Calm, LonePaths, Init, OwedSays PROVE RollInv
<1>1. BaseKept
  BY DEF Init, BaseKept
<1>2. Owed = [n \in Notes |-> None]
  BY DriftAssumption DEF Init, OwedSays, NoStore
<1>3. ASSUME NEW n \in Notes PROVE ~Gone(n)
  <2>1. Cited(n) \in Files /\ RepoOf[Cited(n)] \in Repos
    BY LoneCite
  <2>2. Now[Cited(n)] = FirstTree[Cited(n)]
    BY <2>1 DEF Init, Now, HeadTree, HeadOf, FilesOf
  <2> QED
    BY <2>2, GoneByFile DEF Gone, LonePaths
<1> QED
  BY <1>1, <1>2, <1>3 DEF Init, RollInv, DebtorsAreLow, RunsRight, AtRest, Symmetric

LEMMA BaseStep == ASSUME TypeOK, BaseKept, [Next]_vars PROVE BaseKept'
<1>0. GitTypeOK
  BY DEF TypeOK
<1>1. CASE UNCHANGED log
  BY <1>1 DEF BaseKept
<1>2. ASSUME NEW r \in Repos, NEW chain, log' = [log EXCEPT ![r] = chain], chain[1] = log[r][1] PROVE BaseKept'
  BY <1>0, <1>2 DEF BaseKept, GitTypeOK
<1>3. ASSUME NEW r \in Repos, Commit(r) \/ Checkout(r) \/ Amend(r) \/ Reset(r) \/ MissHook(r) PROVE BaseKept'
  <2>1. log[r] \in Seq(CommitOf(r)) /\ log[r] # <<>> /\ heads + 1 \in Nat
    BY <1>0 DEF GitTypeOK, Chain
  <2>2. CASE Commit(r)
    <3>1. PICK t \in RepoTree(r) : log' = [log EXCEPT ![r] = Append(@, [id |-> heads + 1, tree |-> t])]
      BY <2>2 DEF Commit
    <3>2. [id |-> heads + 1, tree |-> t] \in CommitOf(r)
      BY <2>1 DEF CommitOf
    <3>3. Append(log[r], [id |-> heads + 1, tree |-> t])[1] = log[r][1]
      BY <2>1, <3>2, FirstStays
    <3> QED
      BY <1>2, <3>1, <3>3
  <2>3. CASE Amend(r)
    <3>1. PICK t \in RepoTree(r) : log' = [log EXCEPT ![r][Len(log[r])] = [id |-> heads + 1, tree |-> t]]
      BY <2>3 DEF Amend
    <3>2. [id |-> heads + 1, tree |-> t] \in CommitOf(r) /\ Len(log[r]) > 1
      BY <2>1, <2>3 DEF CommitOf, Amend
    <3> DEFINE e == [id |-> heads + 1, tree |-> t]
               chain == [log[r] EXCEPT ![Len(log[r])] = e]
    <3>3. chain[1] = log[r][1]
      <4> HIDE DEF e
      <4> QED
        BY <2>1, <3>2, FirstStays DEF e
    <3>4. log' = [log EXCEPT ![r] = chain]
      BY <3>1
    <3> HIDE DEF chain
    <3> QED
      BY <1>2, <3>3, <3>4
  <2>4. CASE Checkout(r) \/ Reset(r)
    <3>1. log' = [log EXCEPT ![r] = SubSeq(@, 1, Len(@) - 1)] /\ Len(log[r]) > 1
      BY <2>4 DEF Checkout, Reset
    <3> QED
      BY <1>2, <2>1, <3>1, FirstStays
  <2>5. CASE MissHook(r)
    BY <1>1, <2>5 DEF MissHook
  <2> QED
    BY <1>3, <2>2, <2>3, <2>4, <2>5
<1>4. ASSUME ~\E r \in Repos : Commit(r) \/ Checkout(r) \/ Amend(r) \/ Reset(r) \/ MissHook(r) PROVE BaseKept'
  <2>1. CASE UNCHANGED vars
    BY <1>1, <2>1 DEF vars, git
  <2>2. CASE Next
    <3>1. ASSUME NEW p \in Runners, Evaluate(p) \/ OpenStore(p) \/ Save(p) \/ Crash(p) PROVE UNCHANGED log
      BY <3>1 DEF Evaluate, OpenStore, Save, Crash, git
    <3>2. ASSUME NEW p \in Runners, NEW n \in Notes, Demote(p, n) \/ LeaveDown(p, n) \/ Restore(p, n) \/ LeaveUp(p, n)
          PROVE  UNCHANGED log
      BY <3>2 DEF Demote, LeaveDown, Restore, LeaveUp, Applied, git
    <3>3. ASSUME LoseStore \/ \E n \in Notes : Edit(n) PROVE UNCHANGED log
      BY <3>3 DEF LoseStore, Edit, git
    <3> QED
      BY <1>1, <1>4, <2>2, <3>1, <3>2, <3>3 DEF Next
  <2> QED
    BY <2>1, <2>2
<1> QED
  BY <1>3, <1>4

\* Where HEAD stands still, what is gone stays gone.
LEMMA LogRests == ASSUME UNCHANGED log PROVE Now' = Now /\ \A n \in Notes : Gone(n)' <=> Gone(n)
BY DEF Now, Base, HeadTree, HeadOf, Gone

\* What a run has concluded outlasts the steps that leave the ledger and HEAD alone.
LEMMA JudgedRests ==
    ASSUME NEW p \in Runners, NEW n \in Notes, Judged(p, n), UNCHANGED <<log, found, todo, conf, Owed, edits>>,
           UNCHANGED <<since, gaps>> \/ gaps' # 0
    PROVE  Judged(p, n)'
<1>1. Now' = Now /\ (Gone(n)' <=> Gone(n))
  BY LogRests
<1>2. (Symmetric(n)' <=> Symmetric(n)) /\ (Treated(n)' <=> Treated(n))
  BY <1>1 DEF Symmetric, Treated
<1>3. UNCHANGED since => (Overdue(n)' <=> Overdue(n))
  BY <1>1 DEF Overdue
<1> QED
  BY <1>1, <1>2, <1>3 DEF Judged, NotBroken, Sees

\* HEAD moves between runs, and a hook is due that will see it.
LEMMA MoveRolls ==
    ASSUME TypeOK, Calm, LonePaths, OwedSays, OwedSays', RunsInTurn, RollInv,
           NEW r \in Repos, Commit(r) \/ Checkout(r)
    PROVE  DebtorsAreLow' /\ RunsRight' /\ AtRest'
<1>0. GitTypeOK
  BY DEF TypeOK
<1>1. /\ \A p \in Runners : pc[p] = "idle"
      /\ since[r] = NoHook /\ since' = [since EXCEPT ![r] = HeadTree(r)]
      /\ \E chain : log' = [log EXCEPT ![r] = chain]
      /\ UNCHANGED <<pc, gaps>>
  BY DEF Calm, Commit, Checkout, GitFree, Undisturbed, run, count
<1>2. UNCHANGED <<conf, Owed, edits>>
  BY OwedRests
<1>3. HeadTree(r) \in RepoTree(r) /\ HeadTree(r) # NoHook
  BY <1>0, HeadTyped, DriftAssumption
<1>4. ASSUME NEW n \in Notes, gaps = 0 PROVE Symmetric(n)' \/ Overdue(n)'
  <2> DEFINE f == Cited(n)
  <2>1. f \in Files /\ RepoOf[f] \in Repos
    BY LoneCite
  <2>2. Symmetric(n) \/ Overdue(n)
    BY <1>1, <1>4 DEF RollInv, AtRest
  <2>3. Now'[f] = Now[f] => (Symmetric(n)' <=> Symmetric(n))
    <3>1. Now'[f] = Now[f] => (Gone(n)' <=> Gone(n))
      BY GoneByFile DEF Gone
    <3> QED
      BY <1>2, <3>1 DEF Symmetric
  <2>4. CASE RepoOf[f] # r
    <3>1. Now'[f] = Now[f]
      BY <1>0, <1>1, <2>1, <2>4 DEF Now, HeadTree, HeadOf, GitTypeOK
    <3>2. since'[RepoOf[f]] = since[RepoOf[f]]
      BY <1>1, <2>4
    <3> QED
      BY <2>2, <2>3, <3>1, <3>2 DEF Overdue
  <2>5. CASE RepoOf[f] = r
    <3>1. since'[r] = HeadTree(r) /\ Now[f] = HeadTree(r)[f]
      BY <1>0, <1>1, <2>1, <2>5 DEF Now, GitTypeOK
    <3>2. Symmetric(n)
      BY <1>1, <2>2, <2>5 DEF Overdue
    <3>3. Now'[f] # Now[f] => Overdue(n)'
      BY <1>3, <2>5, <3>1 DEF Overdue
    <3> QED
      BY <2>3, <3>2, <3>3
  <2> QED
    BY <2>4, <2>5
<1>5. DebtorsAreLow'
  BY <1>2 DEF DebtorsAreLow, RollInv
<1> QED
  BY <1>1, <1>4, <1>5 DEF RunsRight, AtRest

\* A run that starts, behind the gate of a hook or as a sweep, judges right.
LEMMA EvaluateRolls ==
    ASSUME TypeOK, Calm, LonePaths, OwedSays, OwedSays', RunsInTurn, RollInv,
           NEW p \in Runners, Evaluate(p)
    PROVE  DebtorsAreLow' /\ RunsRight' /\ AtRest'
<1>0. /\ GitTypeOK /\ BaseKept
      /\ pc \in [Runners -> {"idle", "evaluated", "apply"}] /\ found \in [Runners -> [Notes -> Verdicts]]
      /\ todo \in [Runners -> SUBSET Notes]
  BY DEF TypeOK, RunTypeOK, RollInv
<1>1. /\ \A q \in Runners : pc[q] = "idle"
      /\ pc' = [pc EXCEPT ![p] = "evaluated"] /\ (p \in Repos => since[p] # NoHook)
      /\ UNCHANGED <<log, since>>
      /\ (gaps' = gaps /\ SeesAll(p)) \/ gaps' # 0
  BY DEF Evaluate, Undisturbed, Calm, git, TypeOK, CountTypeOK
<1>2. UNCHANGED <<conf, Owed, edits>>
  BY OwedRests
<1>3. LET verdict == [n \in Notes |-> Outcome(n, Now, Base, ReposOf(p), GateFor(p), p \in Deep)]
        IN  /\ found' = [found EXCEPT ![p] = verdict]
            /\ todo' = [todo EXCEPT ![p] = {n \in Notes : verdict[n] # "none"}]
  BY DEF Evaluate
<1>4. ASSUME NEW n \in Notes PROVE Judged(p, n)'
  <2> DEFINE out == Outcome(n, Now, Base, ReposOf(p), GateFor(p), p \in Deep)
  <2>1. found'[p][n] = out /\ (n \in todo'[p] <=> out # "none")
    BY <1>0, <1>3
  <2>2. /\ out \in Verdicts
        /\ out = "broken" => Gone(n)
        /\ out # "none" /\ Sees(p, n) /\ Gone(n) => out = "broken"
        /\ out = "none" => p \in Repos /\ ~(RepoOf[Cited(n)] = p /\ Overdue(n))
    BY <1>0, <1>1, LoneVerdict
  <2>3. gaps = 0 => Symmetric(n) \/ Overdue(n)
    BY <1>1 DEF RollInv, AtRest
  <2>4. /\ Gone(n)' <=> Gone(n)
        /\ Symmetric(n)' <=> Symmetric(n)
        /\ Overdue(n)' <=> Overdue(n)
    BY <1>1, <1>2, LogRests DEF Symmetric, Overdue
  <2>5. gaps' = 0 => Sees(p, n)
    BY <1>1 DEF SeesAll
  <2>6. Sees(p, n)' <=> Sees(p, n)
    BY DEF Sees
  <2> HIDE DEF out
  <2> QED
    BY <1>1, <2>1, <2>2, <2>3, <2>4, <2>5, <2>6 DEF Judged, NotBroken
<1>5. DebtorsAreLow'
  BY <1>2 DEF DebtorsAreLow, RollInv
<1> QED
  BY <1>0, <1>1, <1>4, <1>5 DEF RunsRight, AtRest

\* A run that ends has seen to every note it looked at.
LEMMA SaveRolls ==
    ASSUME TypeOK, Calm, LonePaths, OwedSays, OwedSays', RunsInTurn, RollInv,
           NEW p \in Runners, Save(p)
    PROVE  DebtorsAreLow' /\ RunsRight' /\ AtRest'
<1>0. /\ GitTypeOK /\ pc \in [Runners -> {"idle", "evaluated", "apply"}]
  BY DEF TypeOK, RunTypeOK
<1>1. /\ pc[p] = "apply" /\ todo[p] = {} /\ UNCHANGED <<log, gaps>>
      /\ pc' = [pc EXCEPT ![p] = "idle"]
      /\ since' = IF p \in Repos THEN [since EXCEPT ![p] = NoHook] ELSE since
  BY DEF Save, Ended
<1>2. UNCHANGED <<conf, Owed, edits>>
  BY OwedRests
<1>3. \A q \in Runners : pc'[q] = "idle"
  BY <1>0, <1>1 DEF RunsInTurn
<1>4. ASSUME NEW n \in Notes, gaps = 0 PROVE Symmetric(n)' \/ Overdue(n)'
  <2>1. Judged(p, n) /\ (edits = 0 /\ Owed[n] # None => conf[n] = Low)
    BY <1>1 DEF RollInv, RunsRight, DebtorsAreLow
  <2>2. Now' = Now /\ (Symmetric(n)' <=> Symmetric(n))
    BY <1>1, <1>2, LogRests DEF Symmetric
  <2>3. Treated(n) => Symmetric(n)
    BY <2>1 DEF Treated, Symmetric
  <2>4. Overdue(n) /\ RepoOf[Cited(n)] # p => Overdue(n)'
    BY <1>1, <2>2 DEF Overdue
  <2> QED
    BY <1>1, <1>4, <2>1, <2>2, <2>3, <2>4 DEF Judged
<1>5. DebtorsAreLow'
  BY <1>2 DEF DebtorsAreLow, RollInv
<1> QED
  BY <1>1, <1>3, <1>4, <1>5 DEF RunsRight, AtRest

\* A run that applies a note leaves it as its verdict says.
LEMMA ApplyRolls ==
    ASSUME TypeOK, Calm, LonePaths, OwedSays, OwedSays', RunsInTurn, RollInv,
           NEW p \in Runners, NEW n \in Notes,
           Demote(p, n) \/ LeaveDown(p, n) \/ Restore(p, n) \/ LeaveUp(p, n)
    PROVE  DebtorsAreLow' /\ RunsRight' /\ AtRest'
<1>0. todo \in [Runners -> SUBSET Notes] /\ conf \in [Notes -> Confs]
  BY DEF TypeOK, RunTypeOK, VaultTypeOK
<1>1. /\ pc[p] = "apply" /\ n \in todo[p] /\ todo' = [todo EXCEPT ![p] = todo[p] \ {n}]
      /\ UNCHANGED <<log, since, pc, found, edits, gaps>>
  BY AppliesOne DEF git
<1>2. /\ Owed = [m \in Notes |-> Owed[m]]
      /\ \/ /\ found[p][n] = "broken" /\ conf[n] \notin {Low, Blank} /\ Owed[n] = None
            /\ conf' = [conf EXCEPT ![n] = Low] /\ Owed' = [Owed EXCEPT ![n] = conf[n]]
         \/ /\ NotBroken(p, n) /\ Owed[n] # None
            /\ conf' = [conf EXCEPT ![n] = Owed[n]] /\ Owed' = [Owed EXCEPT ![n] = None]
         \/ /\ \/ found[p][n] = "broken" /\ (conf[n] \in {Low, Blank} \/ Owed[n] # None)
               \/ NotBroken(p, n) /\ Owed[n] = None
            /\ UNCHANGED <<conf, Owed>>
  BY OwedMoves
<1>3. \A m \in Notes \ {n} : Owed'[m] = Owed[m] /\ conf'[m] = conf[m]
  BY <1>0, <1>2
<1>4. /\ found[p][n] = "broken" => conf'[n] \in {Low, Blank} \/ Owed'[n] # None
      /\ NotBroken(p, n) => Owed'[n] = None
      /\ Owed'[n] # None => conf'[n] = Low \/ (Owed[n] # None /\ conf'[n] = conf[n])
      /\ found[p][n] = "broken" \/ NotBroken(p, n)
  BY <1>0, <1>2 DEF NotBroken
<1>5. DebtorsAreLow'
  BY <1>1, <1>3, <1>4 DEF DebtorsAreLow, RollInv
<1>6. \A q \in Runners : pc'[q] # "idle" <=> q = p
  BY <1>1 DEF RunsInTurn
<1>7. ASSUME NEW m \in Notes PROVE Judged(p, m)'
  <2>1. Judged(p, m)
    BY <1>1 DEF RollInv, RunsRight
  <2>2. Gone(m)' <=> Gone(m)
    BY <1>1, LogRests
  <2>3. CASE m = n
    <3>1. Sees(p, n) => Treated(n)'
      BY <1>4, <2>1, <2>2, <2>3 DEF Treated, Judged
    <3>2. found[p][n] # "none"
      BY <1>1, <2>1, <2>3 DEF Judged
    <3> QED
      BY <1>1, <2>1, <2>2, <2>3, <3>1, <3>2 DEF Judged, NotBroken, Sees
  <2>4. CASE m # n
    <3>1. m \in todo'[p] <=> m \in todo[p]
      BY <1>0, <1>1, <2>4
    <3>2. /\ Symmetric(m)' <=> Symmetric(m)
          /\ Treated(m)' <=> Treated(m)
          /\ Overdue(m)' <=> Overdue(m)
      BY <1>1, <1>3, <2>2, <2>4, LogRests DEF Symmetric, Treated, Overdue
    <3> QED
      BY <1>1, <2>1, <2>2, <3>1, <3>2 DEF Judged, NotBroken, Sees
  <2> QED
    BY <2>3, <2>4
<1>8. RunsRight'
  BY <1>6, <1>7 DEF RunsRight
<1> QED
  BY <1>5, <1>6, <1>8 DEF AtRest

\* An author speaks between runs, and from then on answers for confidences.
LEMMA EditRolls ==
    ASSUME TypeOK, Calm, LonePaths, OwedSays, OwedSays', RunsInTurn, RollInv, NEW m \in Notes, Edit(m)
    PROVE  DebtorsAreLow' /\ RunsRight' /\ AtRest'
<1>1. /\ \A p \in Runners : pc[p] = "idle"
      /\ UNCHANGED <<log, since, pc, mem, store, gaps>> /\ edits' # 0
  BY DEF Edit, Undisturbed, Calm, git, run, TypeOK, CountTypeOK
<1>2. Owed' = Owed
  BY <1>1 DEF Owed
<1>3. ASSUME NEW n \in Notes, gaps = 0 PROVE Symmetric(n)' \/ Overdue(n)'
  <2>1. Symmetric(n) \/ Overdue(n)
    BY <1>1, <1>3 DEF RollInv, AtRest
  <2>2. (Gone(n)' <=> Gone(n)) /\ (Overdue(n)' <=> Overdue(n))
    BY <1>1, LogRests DEF Overdue
  <2> QED
    BY <1>1, <1>2, <2>1, <2>2 DEF Symmetric
<1> QED
  BY <1>1, <1>3 DEF DebtorsAreLow, RunsRight, AtRest

\* A hook that is missed, or that git never runs, is counted as a gap.
LEMMA GapRolls ==
    ASSUME TypeOK, Calm, LonePaths, OwedSays, OwedSays', RunsInTurn, RollInv,
           NEW r \in Repos, Amend(r) \/ Reset(r) \/ MissHook(r)
    PROVE  DebtorsAreLow' /\ RunsRight' /\ AtRest'
<1>1. gaps' # 0 /\ UNCHANGED <<pc, found, todo>>
  BY DEF Amend, Reset, MissHook, run, TypeOK, CountTypeOK
<1>2. UNCHANGED <<conf, Owed, edits>>
  BY OwedRests
<1>3. UNCHANGED log \/ \A p \in Runners : pc[p] = "idle"
  BY DEF Amend, Reset, MissHook, GitFree, Undisturbed, Calm
<1>4. RunsRight'
  BY <1>1, <1>2, <1>3, JudgedRests DEF RollInv, RunsRight
<1> QED
  BY <1>1, <1>2, <1>4 DEF RollInv, DebtorsAreLow, AtRest

\* Opening the store moves no note, and a step of nobody moves nothing.
LEMMA OpenRolls ==
    ASSUME TypeOK, Calm, LonePaths, OwedSays, OwedSays', RunsInTurn, RollInv,
           UNCHANGED vars \/ \E p \in Runners : OpenStore(p)
    PROVE  DebtorsAreLow' /\ RunsRight' /\ AtRest'
<1>0. pc \in [Runners -> {"idle", "evaluated", "apply"}]
  BY DEF TypeOK, RunTypeOK
<1>1. /\ UNCHANGED <<log, since, found, todo, gaps>>
      /\ \/ UNCHANGED pc
         \/ \E p \in Runners : pc[p] = "evaluated" /\ pc' = [pc EXCEPT ![p] = "apply"]
  BY DEF OpenStore, vars, git, run, count
<1>2. UNCHANGED <<conf, Owed, edits>>
  BY OwedRests
<1>3. \A q \in Runners : pc'[q] = "idle" <=> pc[q] = "idle"
  BY <1>0, <1>1
<1>4. RunsRight'
  BY <1>1, <1>2, <1>3, JudgedRests DEF RollInv, RunsRight
<1>5. \A n \in Notes : (Symmetric(n)' <=> Symmetric(n)) /\ (Overdue(n)' <=> Overdue(n))
  BY <1>1, <1>2, LogRests DEF Symmetric, Overdue
<1> QED
  BY <1>1, <1>2, <1>3, <1>4, <1>5 DEF RollInv, DebtorsAreLow, AtRest

LEMMA RollStep ==
    ASSUME TypeOK, Calm, LonePaths, OwedSays, OwedSays', RunsInTurn, RollInv, [Next]_vars
    PROVE  RollInv'
<1>1. BaseKept'
  BY BaseStep DEF RollInv
<1>2. DebtorsAreLow' /\ RunsRight' /\ AtRest'
  BY MoveRolls, GapRolls, EvaluateRolls, OpenRolls, SaveRolls, ApplyRolls, EditRolls, NothingFails DEF Next
<1> QED
  BY <1>1, <1>2 DEF RollInv

LEMMA RollsBack == ASSUME Calm, LonePaths PROVE Spec => []RollInv
<1>1. Init /\ OwedSays => RollInv
  BY RollInit
<1>2. TypeOK /\ RunsInTurn /\ OwedSays /\ OwedSays' /\ RollInv /\ [Next]_vars => RollInv'
  BY RollStep
<1> QED
  BY <1>1, <1>2, OwedIs, DriftTypes, RunsTakeTurns, PTL DEF Spec

\* At rest, demotion and restore are each other's inverse: a note whose cited code is gone
\* shows no confidence but low, and a note is owed its confidence only while the code is
\* gone, after any commits, checkouts, deep sweeps and re-ratings, as long as every hook ran
\* and no sweep was blind to deletions, without --deep or of undated notes (rollback_test.go).
THEOREM RollbackAlwaysSymmetric == ASSUME Calm, LonePaths PROVE Spec => []RollbackSymmetry
<1>1. ASSUME RollInv, OwedSays PROVE RollbackSymmetry
  <2> SUFFICES ASSUME Settled, gaps = 0, NEW n \in Notes
               PROVE  /\ store[Slug[n]] # None => Gone(n)
                      /\ edits = 0 /\ Gone(n) => conf[n] \in {Low, Blank}
    BY DEF RollbackSymmetry, OwedMeansBroken, BrokenIsLow, Gone
  <2>1. Owed[n] = store[Slug[n]]
    BY <1>1 DEF Settled, OwedSays
  <2>2. ~Overdue(n)
    BY LoneCite DEF Settled, Overdue
  <2> QED
    BY <1>1, <2>1, <2>2 DEF Settled, RollInv, AtRest, Symmetric
<1> QED
  BY <1>1, OwedIs, RollsBack, RunsTakeTurns, PTL

\* No hook, and no deep sweep of a dated note, raises a note while the one path it cites is
\* gone, whatever commits, missed hooks, other sweeps and authors come between; a note that is
\* raised then is raised by a sweep that reports its path as skipped (apply.go:26-28,
\* check.go:93-96).
THEOREM RestoresOnlyWhatIsSound == ASSUME Calm, LonePaths PROVE Spec => RestoredOnlyWhenSound
<1> DEFINE A == \A n \in Notes : Raises(n) /\ CodeGone(n, Now, Base) =>
                  \E p \in Sweepers : n \in todo[p] /\ ~Sees(p, n)
<1>1. ASSUME TypeOK, RunsInTurn, OwedSays, OwedSays', RollInv, [Next]_vars PROVE A
  <2> SUFFICES ASSUME NEW n \in Notes, conf[n] = Low, conf'[n] # Low, edits' = edits, Gone(n)
               PROVE  \E p \in Sweepers : n \in todo[p] /\ ~Sees(p, n)
    BY DEF Gone, Raises
  <2>1. \A m \in Notes : ~Edit(m)
    BY <1>1 DEF Edit, TypeOK, CountTypeOK
  <2>2. PICK p \in Runners, m \in Notes : Demote(p, m) \/ LeaveDown(p, m) \/ Restore(p, m) \/ LeaveUp(p, m)
    BY <1>1, <2>1, OwedRests, NothingFails DEF Next
  <2>3. conf \in [Notes -> Confs]
    BY <1>1 DEF TypeOK, VaultTypeOK
  <2>4. m = n /\ NotBroken(p, n)
    BY <1>1, <2>2, <2>3, OwedMoves
  <2>5. pc[p] # "idle" /\ n \in todo[p]
    BY <1>1, <2>2, <2>4, AppliesOne
  <2>6. ~Sees(p, n)
    BY <1>1, <2>4, <2>5 DEF RollInv, RunsRight, Judged
  <2> QED
    BY <2>5, <2>6 DEF Sees, Runners
<1>2. TypeOK /\ RunsInTurn /\ OwedSays /\ OwedSays' /\ RollInv /\ [Next]_vars => A
  BY <1>1
<1> QED
  BY <1>2, OwedIs, DriftTypes, RollsBack, RunsTakeTurns, PTL DEF Spec, RestoredOnlyWhenSound

\* A deep sweep makes good whatever hooks missed and a shallow one raised: when it has saved,
\* the dated notes whose code is gone are down or owed, and nothing is owed for sound code,
\* even after a hook that did not run, an amended commit or a reset (drift.go, the ungated
\* run).
THEOREM SweepAlwaysSettles == ASSUME Calm, LonePaths PROVE Spec => SweepSettles
<1> DEFINE A == \A p \in Sweepers : pc[p] = "apply" /\ pc'[p] = "idle" =>
                  \A n \in {m \in Notes : Sees(p, m)} :
                     IF CodeGone(n, Now, Base)
                       THEN conf'[n] \in {Low, Blank} \/ store'[Slug[n]] # None
                       ELSE store'[Slug[n]] = None
<1>1. ASSUME TypeOK, RunsInTurn, OwedSays, OwedSays', RollInv, [Next]_vars PROVE A
  <2> SUFFICES ASSUME NEW p \in Sweepers, pc[p] = "apply", pc'[p] = "idle", NEW n \in Notes, Sees(p, n)
               PROVE  IF Gone(n) THEN conf'[n] \in {Low, Blank} \/ store'[Slug[n]] # None
                                 ELSE store'[Slug[n]] = None
    BY DEF Gone
  <2>0. p \in Runners /\ p \notin Repos /\ pc \in [Runners -> {"idle", "evaluated", "apply"}]
    BY <1>1, DriftAssumption DEF Runners, TypeOK, RunTypeOK
  <2>1. Save(p)
    <3>1. ~UNCHANGED pc
      OBVIOUS
    <3>2. ASSUME NEW q \in Runners, Evaluate(q) \/ OpenStore(q) PROVE FALSE
      BY <2>0, <3>2 DEF Evaluate, OpenStore, Undisturbed, Calm
    <3>3. ASSUME NEW q \in Runners, Save(q) PROVE Save(p)
      BY <1>1, <2>0, <3>3 DEF Save, RunsInTurn
    <3>4. ASSUME NEW q \in Runners, NEW m \in Notes,
                 Demote(q, m) \/ LeaveDown(q, m) \/ Restore(q, m) \/ LeaveUp(q, m)
          PROVE  FALSE
      BY <1>1, <3>1, <3>4, AppliesOne
    <3>5. ASSUME NEW r \in Repos, Commit(r) \/ Checkout(r) \/ Amend(r) \/ Reset(r) \/ MissHook(r) PROVE FALSE
      BY <3>1, <3>5, GitBetween DEF Between, run
    <3>6. \A m \in Notes : ~Edit(m)
      BY <3>1 DEF Edit, run
    <3> QED
      BY <1>1, <3>1, <3>2, <3>3, <3>4, <3>5, <3>6, NothingFails DEF Next, vars, run
  <2>2. Judged(p, n) /\ todo[p] = {}
    BY <1>1, <2>0, <2>1 DEF RollInv, RunsRight, Save
  <2>3. Treated(n)
    BY <2>0, <2>2 DEF Judged
  <2>4. conf' = conf /\ Owed' = Owed
    BY <1>1, <2>0, <2>1, OwedRests
  <2>5. \A q \in Runners : pc'[q] # "apply"
    BY <1>1, <2>0, <2>1 DEF RunsInTurn, Save, Ended
  <2>6. store'[Slug[n]] = Owed[n]
    BY <1>1, <2>4, <2>5 DEF OwedSays
  <2> QED
    BY <2>3, <2>4, <2>6 DEF Treated
<1>2. TypeOK /\ RunsInTurn /\ OwedSays /\ OwedSays' /\ RollInv /\ [Next]_vars => A
  BY <1>1
<1> QED
  BY <1>2, OwedIs, DriftTypes, RollsBack, RunsTakeTurns, PTL DEF Spec, SweepSettles
=============================================================================
