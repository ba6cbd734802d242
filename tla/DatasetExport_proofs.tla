------------------------- MODULE DatasetExport_proofs -------------------------
(***************************************************************************)
(* What holds of dataset D3, its captures and its exports for every set of   *)
(* notes and processes, every history and any number of writes cut short: a   *)
(* correction is held once, what is lost is bounded, a capture heals what an   *)
(* earlier one left, and an export is whole and has its entry in the log.     *)
(***************************************************************************)
EXTENDS DatasetExport, SequenceTheorems, FiniteSetTheorems, WellFoundedInduction, TLAPS

(***************************************************************************)
(* A file of lines.                                                        *)
(***************************************************************************)

\* A file whose records are of S.
FileOf(f, S) ==
    /\ f = [lines |-> f.lines, open |-> f.open]
    /\ f.lines \in Seq(S \cup {Bad}) /\ f.open \in BOOLEAN
    /\ f.open => f.lines # << >>

\* The lines that are ended: nothing that is appended touches them.
Solid(f) == IF f.open THEN Len(f.lines) - 1 ELSE Len(f.lines)
Firm(f) == {f.lines[i] : i \in 1 .. Solid(f)} \ {Bad}

\* How many records the last line can still take with it.
Owing(f) == IF ~f.open THEN 0 ELSE IF f.lines[Len(f.lines)] = Bad THEN 1 ELSE 2

\* Line l follows those of f that are ended.
Follows(g, f, l) ==
    /\ Solid(f) \in Nat
    /\ Len(g.lines) = Solid(f) + 1 /\ g.lines[Solid(f) + 1] = l
    /\ \A i \in 1 .. Solid(f) : g.lines[i] = f.lines[i]

\* What that leaves held.
HoldsAlso(g, f, l) ==
    /\ Held(g) = Firm(f) \cup ({l} \ {Bad})
    /\ IF g.open THEN Firm(g) = Firm(f) ELSE Firm(g) = Held(g)
    /\ l = Bad => ~Parses(g)
    /\ ~f.open /\ ~Parses(f) => ~Parses(g)

\* A line goes after those that are ended, and in the place of one that is not.
LEMMA KeepLines ==
    ASSUME NEW S, NEW f, FileOf(f, S), NEW l \in S \cup {Bad}, NEW o \in BOOLEAN
    PROVE  FileOf(Keep(f, l, o), S) /\ Keep(f, l, o).open = o /\ Follows(Keep(f, l, o), f, l)
<1> DEFINE g == Keep(f, l, o)
           kept == IF f.open THEN Front(f.lines) ELSE f.lines
           n == Solid(f)
<1>1. f.lines \in Seq(S \cup {Bad}) /\ f.open \in BOOLEAN /\ (f.open => f.lines # << >>)
  BY DEF FileOf
<1>2. Len(f.lines) \in Nat /\ (f.open => Len(f.lines) >= 1)
  BY <1>1, EmptySeq, LenProperties
<1>3. n \in Nat /\ kept \in Seq(S \cup {Bad}) /\ Len(kept) = n /\ \A i \in 1 .. n : kept[i] = f.lines[i]
  <2>1. CASE f.open
    <3>1. \A i \in 1 .. Len(f.lines) - 1 : f.lines[i] \in S \cup {Bad}
      BY <1>1, <1>2, ElementOfSeq
    <3>2. /\ SubSeq(f.lines, 1, Len(f.lines) - 1) \in Seq(S \cup {Bad})
          /\ Len(SubSeq(f.lines, 1, Len(f.lines) - 1)) = IF 1 <= Len(f.lines) - 1 THEN Len(f.lines) - 1 - 1 + 1 ELSE 0
          /\ \A i \in 1 .. Len(f.lines) - 1 - 1 + 1 : SubSeq(f.lines, 1, Len(f.lines) - 1)[i] = f.lines[1 + i - 1]
      BY <1>2, <3>1, SubSeqProperties
    <3>3. kept = SubSeq(f.lines, 1, Len(f.lines) - 1)
      BY <2>1 DEF Front
    <3> QED
      BY <1>1, <1>2, <2>1, <3>2, <3>3 DEF Solid
  <2>2. CASE ~f.open
    BY <1>1, <1>2, <2>2 DEF Solid
  <2> QED
    BY <2>1, <2>2
<1>4. g.lines = Append(kept, l) /\ g.open = o /\ g = [lines |-> g.lines, open |-> g.open]
  BY DEF Keep
<1> HIDE DEF kept, g
<1>5. /\ g.lines \in Seq(S \cup {Bad}) /\ g.lines # << >> /\ Len(g.lines) = Len(kept) + 1
      /\ \A i \in 1 .. Len(kept) : g.lines[i] = kept[i]
      /\ g.lines[Len(kept) + 1] = l
  BY <1>3, <1>4, AppendProperties
<1>6. FileOf(g, S)
  BY <1>4, <1>5 DEF FileOf
<1> QED
  BY <1>3, <1>4, <1>5, <1>6 DEF g, Follows

\* What Keep leaves held.
LEMMA KeepHolds ==
    ASSUME NEW S, NEW f, FileOf(f, S), NEW l \in S \cup {Bad}, NEW o \in BOOLEAN
    PROVE  HoldsAlso(Keep(f, l, o), f, l)
<1> DEFINE n == Solid(f)
           g == Keep(f, l, o)
<1>1. /\ n \in Nat /\ FileOf(g, S) /\ g.open = o
      /\ Len(g.lines) = n + 1 /\ g.lines[n + 1] = l
      /\ \A i \in 1 .. n : g.lines[i] = f.lines[i]
  BY KeepLines DEF Follows
<1>2. DOMAIN f.lines = 1 .. Len(f.lines) /\ n <= Len(f.lines) /\ Len(f.lines) \in Nat /\ (~f.open => n = Len(f.lines))
  BY LenProperties DEF FileOf, Solid
<1> HIDE DEF n, g
<1>3. DOMAIN g.lines = 1 .. n + 1
  BY <1>1, LenProperties DEF FileOf
<1>4. Solid(g) = IF o THEN n ELSE n + 1
  BY <1>1 DEF Solid
<1>5. ToSet(g.lines) = {f.lines[i] : i \in 1 .. n} \cup {l}
  <2>1. ToSet(g.lines) = {g.lines[i] : i \in 1 .. n + 1}
    BY <1>3 DEF ToSet
  <2>2. {g.lines[i] : i \in 1 .. n + 1} = {g.lines[i] : i \in 1 .. n} \cup {g.lines[n + 1]}
    BY <1>1
  <2>3. {g.lines[i] : i \in 1 .. n} = {f.lines[i] : i \in 1 .. n}
    BY <1>1
  <2> QED
    BY <1>1, <2>1, <2>2, <2>3
<1>6. Firm(f) = {f.lines[i] : i \in 1 .. n} \ {Bad}
  BY DEF Firm, n
<1>7. Held(g) = Firm(f) \cup ({l} \ {Bad})
  BY <1>5, <1>6 DEF Held
<1>8. (o => Firm(g) = Firm(f)) /\ (~o => Firm(g) = Held(g))
  <2>1. CASE o
    BY <1>1, <1>4, <2>1, <1>6 DEF Firm
  <2>2. CASE ~o
    BY <1>3, <1>4, <2>2 DEF Firm, Held, ToSet
  <2> QED
    BY <2>1, <2>2
<1>9. l = Bad => ~Parses(g)
  BY <1>5 DEF Parses
<1>10. ~f.open /\ ~Parses(f) => ~Parses(g)
  <2> SUFFICES ASSUME ~f.open PROVE ToSet(f.lines) \subseteq ToSet(g.lines)
    BY DEF Parses
  <2> QED
    BY <1>2, <1>5 DEF ToSet
<1> QED
  BY <1>1, <1>7, <1>8, <1>9, <1>10 DEF g, HoldsAlso

\* What is held is ended, or is the last line.
LEMMA HeldLines ==
    ASSUME NEW S, NEW f, FileOf(f, S)
    PROVE  /\ Firm(f) \subseteq Held(f)
           /\ ~f.open => Held(f) = Firm(f) /\ Owing(f) = 0
           /\ f.open => /\ Held(f) \subseteq Firm(f) \cup {f.lines[Len(f.lines)]}
                        /\ f.lines[Len(f.lines)] = Bad => Held(f) = Firm(f)
           /\ Owing(f) \in 0 .. 2
           /\ Held(f) \subseteq S
<1>1. f.lines \in Seq(S \cup {Bad}) /\ f.open \in BOOLEAN /\ (f.open => f.lines # << >>)
  BY DEF FileOf
<1>2. Len(f.lines) \in Nat /\ DOMAIN f.lines = 1 .. Len(f.lines) /\ (f.open => Len(f.lines) >= 1)
  BY <1>1, EmptySeq, LenProperties
<1>3. /\ 1 .. Solid(f) \subseteq DOMAIN f.lines
      /\ f.open => DOMAIN f.lines = 1 .. Solid(f) \cup {Len(f.lines)}
      /\ ~f.open => DOMAIN f.lines = 1 .. Solid(f)
  BY <1>1, <1>2 DEF Solid
<1>4. ToSet(f.lines) = {f.lines[i] : i \in DOMAIN f.lines}
  BY DEF ToSet
<1>5. ToSet(f.lines) \subseteq S \cup {Bad}
  BY <1>1, <1>2, <1>4, ElementOfSeq
<1>6. Firm(f) \subseteq Held(f) /\ Held(f) \subseteq S
  BY <1>3, <1>4, <1>5 DEF Firm, Held
<1>7. CASE f.open
  <2> DEFINE last == f.lines[Len(f.lines)]
  <2>1. ToSet(f.lines) = {f.lines[i] : i \in 1 .. Solid(f)} \cup {last}
    BY <1>3, <1>4, <1>7
  <2>2. Held(f) = Firm(f) \cup ({last} \ {Bad})
    BY <2>1 DEF Firm, Held
  <2> HIDE DEF last
  <2>3. Owing(f) = IF last = Bad THEN 1 ELSE 2
    BY <1>7 DEF Owing, last
  <2> QED
    BY <1>6, <1>7, <2>2, <2>3 DEF last
<1>8. CASE ~f.open
  <2>1. ToSet(f.lines) = {f.lines[i] : i \in 1 .. Solid(f)}
    BY <1>3, <1>4, <1>8
  <2>2. Held(f) = Firm(f)
    BY <2>1 DEF Firm, Held
  <2> QED
    BY <1>6, <1>8, <2>2 DEF Owing
<1> QED
  BY <1>1, <1>7, <1>8

\* A record lands after what is ended, or is lost with the line it lands on.
LEMMA EncodeHolds ==
    ASSUME NEW S, NEW f, FileOf(f, S), NEW r \in S, Bad \notin S, NEW g, g = Encode(f, r)
    PROVE  /\ FileOf(g, S) /\ ~g.open /\ Owing(g) = 0
           /\ Firm(f) \subseteq Firm(g) /\ Held(g) = Firm(g)
           /\ ~f.open => Held(g) = Held(f) \cup {r}
           /\ f.open => Held(g) = Firm(f)
           /\ f.open \/ ~Parses(f) => ~Parses(g)
<1> DEFINE l == IF f.open THEN Bad ELSE r
<1>1. g = Keep(f, l, FALSE) /\ l \in S \cup {Bad} /\ FALSE \in BOOLEAN /\ f.open \in BOOLEAN
  BY DEF Encode, FileOf
<1>4. (f.open => l = Bad) /\ (~f.open => l = r) /\ r # Bad
  OBVIOUS
<1> HIDE DEF l
<1>2. l \in S \cup {Bad} /\ FALSE \in BOOLEAN
  BY <1>1
<1>3. HoldsAlso(Keep(f, l, FALSE), f, l)
  BY <1>2, KeepHolds
<1>5. FileOf(Keep(f, l, FALSE), S)
  BY <1>2, KeepLines
<1>6. Keep(f, l, FALSE).open = FALSE
  BY <1>2, KeepLines
<1>7. FileOf(g, S) /\ ~g.open /\ HoldsAlso(g, f, l)
  BY <1>1, <1>3, <1>5, <1>6
<1>8. (~f.open => Held(f) = Firm(f)) /\ Firm(f) \subseteq Held(f)
  BY HeldLines
<1> QED
  BY <1>1, <1>4, <1>7, <1>8 DEF Owing, HoldsAlso

\* A write that is cut short leaves alone what is ended.
LEMMA CutHolds ==
    ASSUME NEW S, NEW f, FileOf(f, S), NEW r \in S, Bad \notin S, NEW g \in Cut(f, r)
    PROVE  /\ FileOf(g, S) /\ Firm(g) = Firm(f)
           /\ \/ g = f
              \/ Held(g) = Firm(f) /\ Owing(g) = 1 /\ ~Parses(g)
              \/ /\ ~f.open /\ Held(g) = Held(f) \cup {r} /\ Owing(g) = 2
                 /\ ~Parses(f) => ~Parses(g)
<1>1. CASE g = f
  BY <1>1
<1>2. ASSUME NEW l \in S \cup {Bad}, g = Keep(f, l, TRUE)
      PROVE  FileOf(g, S) /\ g.open /\ HoldsAlso(g, f, l) /\ g.lines[Len(g.lines)] = l
  <2>1. TRUE \in BOOLEAN
    OBVIOUS
  <2>2. HoldsAlso(Keep(f, l, TRUE), f, l)
    BY <2>1, KeepHolds
  <2>3. FileOf(Keep(f, l, TRUE), S) /\ Follows(Keep(f, l, TRUE), f, l)
    BY <2>1, KeepLines
  <2>4. Keep(f, l, TRUE).open = TRUE
    BY <2>1, KeepLines
  <2>5. FileOf(g, S) /\ g.open /\ HoldsAlso(g, f, l) /\ Follows(g, f, l)
    BY <1>2, <2>2, <2>3, <2>4
  <2> QED
    BY <2>5 DEF Follows
<1>3. CASE g = Keep(f, Bad, TRUE)
  <2>1. FileOf(g, S) /\ g.open /\ HoldsAlso(g, f, Bad) /\ g.lines[Len(g.lines)] = Bad
    BY <1>2, <1>3
  <2> QED
    BY <1>3, <2>1 DEF HoldsAlso, Owing
<1>4. CASE g = Keep(f, r, TRUE) /\ ~f.open
  <2>1. FileOf(g, S) /\ g.open /\ HoldsAlso(g, f, r) /\ g.lines[Len(g.lines)] = r
    BY <1>2, <1>4
  <2>2. Held(f) = Firm(f)
    BY <1>4, HeldLines
  <2>3. r # Bad
    OBVIOUS
  <2> QED
    BY <1>4, <2>1, <2>2, <2>3 DEF HoldsAlso, Owing
<1> QED
  BY <1>1, <1>3, <1>4 DEF Cut

\* To delete a line that does not parse loses no record.
LEMMA RepairHolds ==
    ASSUME NEW S, NEW f, FileOf(f, S), NEW i \in DOMAIN f.lines, f.lines[i] = Bad
    PROVE  LET g == [lines |-> RemoveAt(f.lines, i), open |-> FALSE]
               from(j) == IF j < i THEN j ELSE j + 1
           IN  /\ FileOf(g, S) /\ Held(g) = Held(f)
               /\ \A j \in DOMAIN g.lines : from(j) \in DOMAIN f.lines /\ g.lines[j] = f.lines[from(j)]
               /\ DOMAIN g.lines \subseteq Nat
<1> DEFINE s == f.lines
           T == S \cup {Bad}
           a == SubSeq(s, 1, i - 1)
           b == SubSeq(s, i + 1, Len(s))
           g == [lines |-> RemoveAt(f.lines, i), open |-> FALSE]
           from(j) == IF j < i THEN j ELSE j + 1
<1>1. s \in Seq(T) /\ Len(s) \in Nat /\ DOMAIN s = 1 .. Len(s) /\ i \in 1 .. Len(s)
  BY LenProperties DEF FileOf
<1>2. \A j \in 1 .. Len(s) : s[j] \in T
  BY <1>1, ElementOfSeq
<1>3. /\ a \in Seq(T) /\ Len(a) = i - 1
      /\ \A j \in 1 .. i - 1 : a[j] = s[j]
  <2>1. \A j \in 1 .. i - 1 : s[j] \in T
    BY <1>1, <1>2
  <2>2. /\ a \in Seq(T) /\ Len(a) = IF 1 <= i - 1 THEN i - 1 - 1 + 1 ELSE 0
        /\ \A j \in 1 .. i - 1 - 1 + 1 : a[j] = s[1 + j - 1]
    BY <1>1, <2>1, SubSeqProperties
  <2> QED
    BY <1>1, <2>2
<1>4. /\ b \in Seq(T) /\ Len(b) = Len(s) - i
      /\ \A j \in 1 .. Len(s) - i : b[j] = s[i + j]
  <2>1. \A j \in i + 1 .. Len(s) : s[j] \in T
    BY <1>1, <1>2
  <2>2. /\ b \in Seq(T) /\ Len(b) = IF i + 1 <= Len(s) THEN Len(s) - (i + 1) + 1 ELSE 0
        /\ \A j \in 1 .. Len(s) - (i + 1) + 1 : b[j] = s[i + 1 + j - 1]
    BY <1>1, <2>1, SubSeqProperties
  <2> QED
    BY <1>1, <2>2
<1>5. g.lines = a \o b /\ g.open = FALSE /\ g = [lines |-> g.lines, open |-> g.open]
  BY DEF RemoveAt
<1> HIDE DEF a, b, g
<1>6. /\ g.lines \in Seq(T) /\ Len(g.lines) = Len(s) - 1
      /\ \A j \in 1 .. Len(s) - 1 : g.lines[j] = IF j <= i - 1 THEN a[j] ELSE b[j - (i - 1)]
  <2>1. /\ a \o b \in Seq(T) /\ Len(a \o b) = Len(a) + Len(b)
        /\ \A j \in 1 .. Len(a) + Len(b) : (a \o b)[j] = IF j <= Len(a) THEN a[j] ELSE b[j - Len(a)]
    BY <1>3, <1>4, ConcatProperties
  <2>2. Len(a) + Len(b) = Len(s) - 1
    BY <1>1, <1>3, <1>4
  <2> QED
    BY <1>3, <1>5, <2>1, <2>2
<1>7. \A j \in 1 .. Len(s) - 1 : from(j) \in 1 .. Len(s) /\ g.lines[j] = s[from(j)]
  <2> TAKE j \in 1 .. Len(s) - 1
  <2>1. CASE j <= i - 1
    <3>1. j \in 1 .. i - 1 /\ from(j) = j /\ j \in 1 .. Len(s)
      BY <1>1, <2>1
    <3>2. g.lines[j] = a[j] /\ a[j] = s[j]
      BY <1>3, <1>6, <2>1, <3>1
    <3> QED
      BY <3>1, <3>2
  <2>2. CASE ~ (j <= i - 1)
    <3>1. j - (i - 1) \in 1 .. Len(s) - i /\ from(j) = j + 1 /\ j + 1 \in 1 .. Len(s)
      BY <1>1, <2>2
    <3>2. g.lines[j] = b[j - (i - 1)] /\ b[j - (i - 1)] = s[i + (j - (i - 1))]
      BY <1>4, <1>6, <2>2, <3>1
    <3>3. i + (j - (i - 1)) = j + 1
      BY <1>1
    <3> QED
      BY <3>1, <3>2, <3>3
  <2> QED
    BY <2>1, <2>2
<1>8. DOMAIN g.lines = 1 .. Len(s) - 1
  BY <1>6, LenProperties, <1>1
<1>9. Held(g) = Held(f)
  <2>1. ToSet(g.lines) \subseteq ToSet(s)
    BY <1>1, <1>7, <1>8 DEF ToSet
  <2>2. ASSUME NEW x \in ToSet(s), x # Bad PROVE x \in ToSet(g.lines)
    <3>1. PICK k \in 1 .. Len(s) : s[k] = x
      BY <1>1 DEF ToSet
    <3>2. k # i
      BY <2>2, <3>1
    <3>3. CASE k < i
      <4>1. k \in 1 .. Len(s) - 1 /\ from(k) = k
        BY <1>1, <3>3
      <4> QED
        BY <1>7, <1>8, <3>1, <4>1 DEF ToSet
    <3>4. CASE k > i
      <4>1. k - 1 \in 1 .. Len(s) - 1 /\ from(k - 1) = k
        BY <1>1, <3>4
      <4> QED
        BY <1>7, <1>8, <3>1, <4>1 DEF ToSet
    <3> QED
      BY <1>1, <3>2, <3>3, <3>4
  <2> QED
    BY <2>1, <2>2 DEF Held
<1>10. FileOf(g, S)
  BY <1>5, <1>6 DEF FileOf
<1>11. DOMAIN g.lines \subseteq Nat
  BY <1>1, <1>8
<1> QED
  BY <1>1, <1>7, <1>8, <1>9, <1>10, <1>11 DEF g

\* The first of some pairs is one of them.
LEMMA FirstIsIn ==
    ASSUME NEW keys \in SUBSET (Nat \X Nat), keys # {}
    PROVE  First(keys) \in keys
<1> DEFINE R == OpToRel(<, Nat)
           T == {k[2] : k \in keys}
<1>1. T \subseteq Nat /\ T # {}
  OBVIOUS
<1>2. IsWellFoundedOn(R, Nat)
  BY NatLessThanWellFounded
<1>3. \A x, y \in Nat : <<x, y>> \in R <=> x < y
  BY DEF OpToRel
<1> HIDE DEF R
<1>4. PICK t \in T : \A y \in T : ~ (<<y, t>> \in R)
  <2> HIDE DEF T
  <2> QED
    BY <1>1, <1>2, WFMin
<1>5. PICK k \in keys : t = k[2]
  BY <1>4
<1>6. \A l \in keys : k[2] <= l[2]
  <2> TAKE l \in keys
  <2>1. l[2] \in T /\ l[2] \in Nat /\ t \in Nat
    BY <1>1
  <2> QED
    <3>1. ~ (<<l[2], t>> \in R)
      BY <1>4, <2>1
    <3>2. ~ (l[2] < t)
      BY <1>3, <2>1, <3>1
    <3> QED
      BY <1>5, <2>1, <3>2
<1> QED
  BY <1>6 DEF First

(***************************************************************************)
(* Types.                                                                  *)
(***************************************************************************)

\* The pairs a commit there is can have.
Keys == (1 .. Len(objects)) \X Notes

Process ==
    [at : {"idle", "resolve", "read", "append", "done"}, rev : Nat, sha : Nat, pairs : SUBSET (Nat \X Nat),
     todo : SUBSET (Nat \X Nat), tail : {"ended", "open", "wide", "cut", "fault"}, outcome : {"none", "off", "ok", "failed"}]

Stands(j) ==
    /\ j \in Process /\ j.rev <= Len(objects)
    /\ j.pairs \subseteq Keys /\ j.todo \subseteq j.pairs
    /\ \A k \in j.pairs : k[1] = j.sha
    /\ j.at = "append" => j.todo # {}
    /\ j.at \in {"idle", "resolve", "read"} => j.todo = {}

Types ==
    /\ objects \in Seq(ToSet(objects)) /\ head \in 1 .. Len(objects)
    /\ FileOf(file, Keys)
    /\ proc \in [Captures -> Process] /\ \A p \in Captures : Stands(proc[p])
    /\ cuts \in Nat
    /\ reported \subseteq Keys

LEMMA KeysAreKeys ==
    ASSUME Types
    PROVE  Bad \notin Keys /\ Keys \subseteq Nat \X Nat /\ IsFiniteSet(Keys)
<1>1. Len(objects) \in Nat /\ 1 .. Len(objects) \subseteq Nat /\ 0 \notin 1 .. Len(objects)
  BY LenProperties DEF Types
<1>2. IsFiniteSet(1 .. Len(objects))
  BY <1>1, FS_Interval
<1> QED
  BY <1>1, <1>2, NotesAssumption, FS_Product DEF Keys, Bad

\* A history that grows, grows by one, and knows all that it knew.
LEMMA HistoryGrows ==
    ASSUME Types, NEW c, objects' = Append(objects, c)
    PROVE  /\ objects' \in Seq(ToSet(objects)') /\ Len(objects') = Len(objects) + 1
           /\ Keys \subseteq Keys' /\ Bad \notin Keys'
<1> DEFINE T == ToSet(objects) \cup {c}
<1>1. objects \in Seq(T) /\ Len(objects) \in Nat /\ DOMAIN objects = 1 .. Len(objects)
  BY LenProperties DEF Types
<1>2. /\ objects' \in Seq(T) /\ Len(objects') = Len(objects) + 1
      /\ \A i \in 1 .. Len(objects) : objects'[i] = objects[i]
      /\ objects'[Len(objects) + 1] = c
  <2> HIDE DEF T
  <2>1. c \in T
    BY DEF T
  <2> QED
    BY <1>1, <2>1, AppendProperties
<1>3. T \subseteq ToSet(objects')
  BY <1>1, <1>2, LenProperties DEF ToSet
<1>4. objects' \in Seq(ToSet(objects'))
  <2>1. \A i \in 1 .. Len(objects') : objects'[i] \in ToSet(objects')
    BY <1>2, LenProperties DEF ToSet
  <2> QED
    BY <1>2, <2>1, <1>3
<1>5. Keys \subseteq Keys' /\ Bad \notin Keys'
  BY <1>1, <1>2, NotesAssumption DEF Keys, Bad
<1> QED
  BY <1>2, <1>4, <1>5 DEF ToSet

\* What a file may hold, it may hold among more.
LEMMA FileAmongMore ==
    ASSUME NEW S, NEW T, S \subseteq T, NEW f, FileOf(f, S)
    PROVE  FileOf(f, T)
<1>1. f.lines \in Seq(S \cup {Bad})
  BY DEF FileOf
<1>2. f.lines \in Seq(T \cup {Bad})
  BY <1>1, SeqMonotonic
<1> QED
  BY <1>2 DEF FileOf

\* The pairs of a commit are its own.
LEMMA PairsAreOfNotes ==
    ASSUME NEW sha \in Nat
    PROVE  PairsOf(sha) \subseteq {sha} \X Notes
<1>1. ModifiedFiles(sha) \subseteq Notes
  BY DEF ModifiedFiles
<1> QED
  BY <1>1 DEF PairsOf, Key

\* The next record of a capture is of its pairs.
LEMMA NextRecord ==
    ASSUME Types, NEW p \in Captures, proc[p].at = "append"
    PROVE  /\ First(proc[p].todo) \in proc[p].todo /\ First(proc[p].todo) \in proc[p].pairs
           /\ First(proc[p].todo) \in Keys
<1>1. proc[p].todo \in SUBSET (Nat \X Nat) /\ proc[p].todo # {} /\ proc[p].todo \subseteq proc[p].pairs
      /\ proc[p].pairs \subseteq Keys
  BY DEF Types, Stands, Process
<1> QED
  BY <1>1, FirstIsIn

\* A process that goes on from where it is to where another may stand.
LEMMA MoveStands ==
    ASSUME Types, NEW p \in Captures, NEW j, Move(p, j), Stands(j), UNCHANGED objects
    PROVE  /\ proc' \in [Captures -> Process] /\ \A q \in Captures : Stands(proc[q])'
           /\ proc'[p] = j /\ \A q \in Captures \ {p} : proc'[q] = proc[q]
<1>1. proc \in [Captures -> Process] /\ j \in Process
  BY DEF Types, Stands
<1>2. \A q \in Captures : proc'[q] = IF q = p THEN j ELSE proc[q]
  BY <1>1 DEF Move
<1>3. proc' \in [Captures -> Process]
  BY <1>1 DEF Move
<1>4. Keys' = Keys
  BY DEF Keys
<1>5. \A q \in Captures : Stands(proc[q])'
  BY <1>2, <1>4 DEF Types, Stands
<1> QED
  BY <1>2, <1>3, <1>5

LEMMA InitTypes == Init => Types
<1> SUFFICES ASSUME Init PROVE Types
  OBVIOUS
<1>1. PICK tree \in Roots : objects = <<[parent |-> 0, when |-> 0, forge |-> FALSE, tree |-> tree]>>
  BY DEF Init, CInit
<1>2. Len(objects) = 1 /\ objects \in Seq(ToSet(objects)) /\ head \in 1 .. Len(objects)
  <2> DEFINE c == [parent |-> 0, when |-> 0, forge |-> FALSE, tree |-> tree]
  <2>1. objects = <<c>> /\ head = 1
    BY <1>1 DEF Init, CInit
  <2> HIDE DEF c
  <2>2. Len(objects) = 1 /\ DOMAIN objects = 1 .. 1 /\ objects[1] = c
    BY <2>1
  <2>3. ToSet(objects) = {c}
    BY <2>2 DEF ToSet
  <2> QED
    BY <2>1, <2>2, <2>3
<1>3. FileOf(file, Keys)
  BY DEF FileOf, Init, CInit, NoFile
<1>4. Stands(Idle)
  BY <1>2 DEF Stands, Idle, Process
<1> QED
  BY <1>2, <1>3, <1>4 DEF Types, Stands, Init, CInit

LEMMA StartTypes ==
    ASSUME Types, NEW p \in Captures, Start(p)
    PROVE  Types'
<1>1. Len(objects) \in Nat
  BY LenProperties DEF Types
<1>2. PICK j : Move(p, j) /\ Stands(j)
  <2>1. CASE \E rev \in 0 .. Len(objects) : Move(p, [Idle EXCEPT !.at = "resolve", !.rev = rev])
    <3>1. PICK rev \in 0 .. Len(objects) : Move(p, [Idle EXCEPT !.at = "resolve", !.rev = rev])
      BY <2>1
    <3> DEFINE j == [Idle EXCEPT !.at = "resolve", !.rev = rev]
    <3>4. Idle \in Process /\ Idle.pairs = {} /\ Idle.todo = {}
      BY DEF Idle, Process
    <3>5. rev \in Nat
      BY <1>1
    <3>2. j \in Process /\ j.at = "resolve" /\ j.rev = rev /\ j.pairs = {} /\ j.todo = {}
      BY <3>4, <3>5 DEF Process
    <3> HIDE DEF j
    <3>3. Stands(j)
      BY <1>1, <3>2 DEF Stands
    <3> QED
      BY <3>1, <3>3 DEF j
  <2>2. CASE Move(p, [Idle EXCEPT !.at = "done", !.outcome = "off"])
    <3> DEFINE j == [Idle EXCEPT !.at = "done", !.outcome = "off"]
    <3>1. j \in Process /\ j.at = "done" /\ j.rev = 0 /\ j.pairs = {} /\ j.todo = {}
      BY <1>1 DEF Idle, Process
    <3> HIDE DEF j
    <3>2. Stands(j)
      BY <1>1, <3>1 DEF Stands
    <3> QED
      BY <2>2, <3>2 DEF j
  <2> QED
    BY <2>1, <2>2 DEF Start
<1>3. UNCHANGED <<objects, head, file, cuts, reported>>
  BY DEF Start, history
<1>4. Keys' = Keys
  BY <1>3 DEF Keys
<1> QED
  BY <1>2, <1>3, <1>4, MoveStands DEF Types, FileOf

LEMMA ResolveTypes ==
    ASSUME Types, NEW p \in Captures, Resolve(p)
    PROVE  Types'
<1> DEFINE sha == IF proc[p].rev = 0 THEN head ELSE proc[p].rev
<1>0. PICK pairs \in SUBSET PairsOf(sha) :
        Move(p, [proc[p] EXCEPT !.rev = 0, !.sha = sha, !.pairs = pairs, !.outcome = "ok",
                                !.at = IF pairs = {} THEN "done" ELSE "read"])
  BY DEF Resolve
<1> DEFINE j == [proc[p] EXCEPT !.rev = 0, !.sha = sha, !.pairs = pairs, !.outcome = "ok",
                                !.at = IF pairs = {} THEN "done" ELSE "read"]
<1>1. Move(p, j) /\ UNCHANGED <<objects, head, file, cuts, reported>>
  BY <1>0 DEF Resolve, history
<1>2. Len(objects) \in Nat /\ Stands(proc[p]) /\ proc[p] \in Process
  BY LenProperties DEF Types, Stands
<1>3. sha \in 1 .. Len(objects) /\ sha \in Nat
  BY <1>2 DEF Types, Stands, Process
<1> HIDE DEF sha
<1>4. pairs \subseteq {sha} \X Notes
  BY <1>0, <1>3, PairsAreOfNotes
<1>5. Stands(j)
  <2>1. pairs \subseteq Keys /\ pairs \subseteq Nat \X Nat
    BY <1>3, <1>4, KeysAreKeys DEF Keys
  <2> QED
    <3>1. proc[p].at = "resolve" /\ proc[p].todo = {}
      BY <1>2 DEF Resolve, Stands
    <3>2. /\ j \in Process /\ j.rev = 0 /\ j.sha = sha /\ j.pairs = pairs /\ j.todo = {}
          /\ j.at \in {"done", "read"}
      BY <1>2, <1>3, <2>1, <3>1 DEF Process
    <3> HIDE DEF j
    <3> QED
      BY <1>2, <1>4, <2>1, <3>2 DEF Stands
<1>6. Keys' = Keys
  BY <1>1 DEF Keys
<1> QED
  BY <1>1, <1>5, <1>6, MoveStands DEF Types, FileOf

\* What ReadKeys makes of a process: what is not held is to be written, unless
\* a line is too long and the capture ends there.
LEMMA ReadKeysMoves ==
    ASSUME Types, NEW p \in Captures, ReadKeys(p)
    PROVE  /\ Types' /\ UNCHANGED <<objects, head, file, cuts>>
           /\ proc[p].at = "read"
           /\ \A q \in Captures \ {p} : proc'[q] = proc[q]
           /\ proc'[p].pairs = proc[p].pairs /\ proc'[p].sha = proc[p].sha
           /\ proc'[p].at = IF Scanned /\ proc[p].pairs \ ExistingKeys(file) # {} THEN "append" ELSE "done"
           /\ proc'[p].at = IF proc'[p].todo = {} THEN "done" ELSE "append"
           /\ \/ /\ proc'[p].todo = proc[p].pairs \ Held(file) /\ proc'[p].outcome = "ok"
                 /\ proc'[p].tail = IF file.open THEN "open" ELSE "ended"
                 /\ reported' = IF proc'[p].todo = {} THEN reported \cup proc[p].pairs ELSE reported
              \/ /\ proc'[p].todo = {} /\ proc'[p].outcome = "failed" /\ proc'[p].tail = "wide"
                 /\ reported' = reported
<1> DEFINE fresh == proc[p].pairs \ ExistingKeys(file)
           todo == IF Scanned THEN fresh ELSE {}
           tail == IF wide # {} THEN "wide" ELSE IF file.open THEN "open" ELSE "ended"
           outcome == IF Scanned THEN "ok" ELSE "failed"
           at == IF Scanned /\ fresh # {} THEN "append" ELSE "done"
           j == [proc[p] EXCEPT !.todo = todo, !.tail = tail, !.at = at, !.outcome = outcome]
<1>1. /\ Move(p, j) /\ UNCHANGED <<objects, head, file, cuts>> /\ proc[p].at = "read"
      /\ reported' = IF Scanned /\ fresh = {} THEN reported \cup proc[p].pairs ELSE reported
  BY DEF ReadKeys, history
<1>2. Stands(proc[p]) /\ proc[p] \in Process
  BY DEF Types, Stands
<1>3. /\ fresh = proc[p].pairs \ Held(file) /\ todo = (IF Scanned THEN fresh ELSE {})
      /\ outcome = (IF Scanned THEN "ok" ELSE "failed") /\ at = (IF todo = {} THEN "done" ELSE "append")
      /\ IF Scanned THEN tail = IF file.open THEN "open" ELSE "ended" ELSE tail = "wide"
      /\ at = IF Scanned /\ proc[p].pairs \ ExistingKeys(file) # {} THEN "append" ELSE "done"
      /\ at \in {"append", "done"} /\ tail \in {"ended", "open", "wide"}
  BY DEF ExistingKeys, Scanned
<1> HIDE DEF fresh, todo, tail, outcome, at
<1>4. todo \subseteq proc[p].pairs /\ todo \in SUBSET (Nat \X Nat) /\ outcome \in {"ok", "failed"}
  BY <1>2, <1>3 DEF Process
<1>5. /\ j \in Process /\ j.todo = todo /\ j.pairs = proc[p].pairs /\ j.sha = proc[p].sha /\ j.rev = proc[p].rev
      /\ j.outcome = outcome /\ j.tail = tail /\ j.at = at
  BY <1>2, <1>3, <1>4 DEF Process
<1> HIDE DEF j
<1>6. Stands(j)
  BY <1>2, <1>3, <1>4, <1>5 DEF Stands
<1>7. /\ proc' \in [Captures -> Process] /\ \A q \in Captures : Stands(proc[q])'
      /\ proc'[p] = j /\ \A q \in Captures \ {p} : proc'[q] = proc[q]
  BY <1>1, <1>6, MoveStands
<1>8. Types'
  <2>1. Keys' = Keys
    BY <1>1 DEF Keys
  <2>2. reported' \subseteq Keys
    BY <1>1, <1>2 DEF Types, Stands
  <2> QED
    BY <1>1, <1>7, <2>1, <2>2 DEF Types, FileOf
<1> QED
  BY <1>1, <1>3, <1>5, <1>7, <1>8

\* What AppendOne makes of one: its next record is written, at the end; all
\* are counted after the last, if they are synced.
LEMMA AppendOneMoves ==
    ASSUME Types, NEW p \in Captures, AppendOne(p)
    PROVE  /\ Types' /\ UNCHANGED <<objects, head, cuts, raced>>
           /\ proc[p].at = "append"
           /\ \A q \in Captures \ {p} : proc'[q] = proc[q]
           /\ First(proc[p].todo) \in proc[p].todo
           /\ file' = Encode(file, First(proc[p].todo))
           /\ proc'[p].todo = proc[p].todo \ {First(proc[p].todo)} /\ proc'[p].pairs = proc[p].pairs
           /\ proc'[p].sha = proc[p].sha
           /\ proc'[p].at = IF proc'[p].todo = {} THEN "done" ELSE "append"
           /\ \/ /\ proc'[p].tail = proc[p].tail /\ proc'[p].outcome = proc[p].outcome
                 /\ reported' = IF proc'[p].todo = {} THEN reported \cup proc[p].pairs ELSE reported
              \/ /\ proc'[p].tail = "fault" /\ proc'[p].outcome = "failed"
                 /\ proc'[p].todo = {} /\ reported' = reported
<1> DEFINE k == First(proc[p].todo)
           rest == proc[p].todo \ {k}
           well == [proc[p] EXCEPT !.todo = rest, !.at = IF rest = {} THEN "done" ELSE "append"]
           ill == [proc[p] EXCEPT !.todo = rest, !.at = "done", !.outcome = "failed", !.tail = "fault"]
<1>0. /\ UNCHANGED <<objects, head, cuts, raced>> /\ proc[p].at = "append"
      /\ file' = Encode(file, k)
      /\ \/ Move(p, well) /\ reported' = IF rest = {} THEN reported \cup proc[p].pairs ELSE reported
         \/ Move(p, ill) /\ rest = {} /\ reported' = reported
  BY DEF AppendOne, Other, history
<1>1. PICK j \in {well, ill} :
        /\ Move(p, j) /\ UNCHANGED <<objects, head, cuts, raced>> /\ proc[p].at = "append"
        /\ file' = Encode(file, k)
        /\ \/ j = well /\ reported' = IF rest = {} THEN reported \cup proc[p].pairs ELSE reported
           \/ j = ill /\ rest = {} /\ reported' = reported
  <2> HIDE DEF well, ill, rest, k
  <2> QED
    BY <1>0
<1>2. Stands(proc[p]) /\ proc[p] \in Process
  BY DEF Types, Stands
<1>3. k \in proc[p].todo /\ k \in Keys
  BY <1>1, NextRecord
<1>4. rest \subseteq proc[p].todo /\ rest \in SUBSET (Nat \X Nat) /\ rest = proc[p].todo \ {k}
  BY <1>2 DEF Process
<1> HIDE DEF k, rest
<1>5. /\ j \in Process /\ j.todo = rest /\ j.pairs = proc[p].pairs /\ j.sha = proc[p].sha /\ j.rev = proc[p].rev
      /\ j.at = IF rest = {} THEN "done" ELSE "append"
      /\ \/ /\ j.outcome = proc[p].outcome /\ j.tail = proc[p].tail
            /\ reported' = IF rest = {} THEN reported \cup proc[p].pairs ELSE reported
         \/ j.outcome = "failed" /\ j.tail = "fault" /\ rest = {} /\ reported' = reported
  <2>1. CASE j = well /\ reported' = IF rest = {} THEN reported \cup proc[p].pairs ELSE reported
    BY <1>2, <1>4, <2>1 DEF Process
  <2>2. CASE j = ill /\ rest = {} /\ reported' = reported
    BY <1>2, <1>4, <2>2 DEF Process
  <2> QED
    BY <1>1, <2>1, <2>2
<1> HIDE DEF well, ill
<1>6. Stands(j)
  BY <1>2, <1>4, <1>5 DEF Stands
<1>7. /\ proc' \in [Captures -> Process] /\ \A q \in Captures : Stands(proc[q])'
      /\ proc'[p] = j /\ \A q \in Captures \ {p} : proc'[q] = proc[q]
  BY <1>1, <1>6, MoveStands
<1>8. Types'
  <2>1. Keys' = Keys
    BY <1>1 DEF Keys
  <2>2. reported' \subseteq Keys
    BY <1>1, <1>2 DEF Types, Stands
  <2>3. FileOf(file', Keys)
    BY <1>1, <1>3, KeysAreKeys, EncodeHolds DEF Types
  <2> QED
    BY <1>1, <1>7, <2>1, <2>2, <2>3 DEF Types, FileOf
<1> QED
  BY <1>1, <1>3, <1>4, <1>5, <1>7, <1>8 DEF k

\* What CutShort makes of all that append.
LEMMA CutShortMoves ==
    ASSUME Types, NEW p \in Captures, CutShort(p)
    PROVE  /\ Types' /\ UNCHANGED <<objects, head, reported, raced>>
           /\ proc[p].at = "append" /\ cuts' = cuts + 1
           /\ First(proc[p].todo) \in proc[p].todo
           /\ file' \in Cut(file, First(proc[p].todo))
           /\ proc'[p].at = "done" /\ proc'[p].tail = "cut"
           /\ \A q \in Captures :
                /\ q # p => proc'[q].at = proc[q].at /\ proc'[q].outcome = proc[q].outcome
                /\ proc'[q].todo = proc[q].todo /\ proc'[q].pairs = proc[q].pairs /\ proc'[q].sha = proc[q].sha
                /\ q # p /\ proc[q].at # "append" => proc'[q] = proc[q]
                /\ proc[q].at = "append" => proc'[q].tail = "cut"
<1>1. /\ proc[p].at = "append" /\ UNCHANGED <<objects, head, reported, raced>> /\ cuts' = cuts + 1
      /\ file' \in Cut(file, First(proc[p].todo))
      /\ proc' = [q \in Captures |->
                     IF q = p THEN [proc[p] EXCEPT !.at = "done", !.outcome = "failed", !.tail = "cut"]
                     ELSE IF proc[q].at = "append" THEN [proc[q] EXCEPT !.tail = "cut"] ELSE proc[q]]
  BY DEF CutShort, history
<1>2. \A q \in Captures : Stands(proc[q]) /\ proc[q] \in Process
  BY DEF Types, Stands
<1>3. First(proc[p].todo) \in proc[p].todo /\ First(proc[p].todo) \in Keys
  BY <1>1, NextRecord
<1>4. Keys' = Keys
  BY <1>1 DEF Keys
<1>5. \A q \in Captures :
        /\ proc'[q] \in Process
        /\ q = p => proc'[q].at = "done" /\ proc'[q].tail = "cut"
        /\ q # p => proc'[q].at = proc[q].at /\ proc'[q].outcome = proc[q].outcome
        /\ proc'[q].todo = proc[q].todo /\ proc'[q].pairs = proc[q].pairs /\ proc'[q].sha = proc[q].sha
        /\ proc'[q].rev = proc[q].rev
        /\ q # p /\ proc[q].at # "append" => proc'[q] = proc[q]
        /\ proc[q].at = "append" => proc'[q].tail = "cut"
  <2> TAKE q \in Captures
  <2>1. CASE q = p
    <3>1. proc'[q] = [proc[q] EXCEPT !.at = "done", !.outcome = "failed", !.tail = "cut"]
      BY <1>1, <2>1
    <3>2. proc[q] \in Process /\ proc[q].at = "append"
      BY <1>1, <1>2, <2>1
    <3> QED
      BY <2>1, <3>1, <3>2 DEF Process
  <2>2. CASE q # p /\ proc[q].at = "append"
    <3>1. proc'[q] = [proc[q] EXCEPT !.tail = "cut"]
      BY <1>1, <2>2
    <3> QED
      BY <1>2, <2>2, <3>1 DEF Process
  <2>3. CASE q # p /\ proc[q].at # "append"
    BY <1>1, <1>2, <2>3
  <2> QED
    BY <2>1, <2>2, <2>3
<1>6. \A q \in Captures : Stands(proc[q])'
  BY <1>1, <1>2, <1>4, <1>5 DEF Stands
<1>7. FileOf(file', Keys)
  BY <1>1, <1>3, KeysAreKeys, CutHolds DEF Types
<1>8. Types'
  <2>1. proc' \in [Captures -> Process]
    BY <1>1, <1>5
  <2> QED
    BY <1>1, <1>4, <1>6, <1>7, <2>1 DEF Types, FileOf
<1> QED
  BY <1>1, <1>3, <1>5, <1>8

\* What a repair makes of the file.
LEMMA RepairMoves ==
    ASSUME Types, Repair
    PROVE  /\ Types' /\ UNCHANGED <<objects, head, proc, cuts, raced>>
           /\ \A p \in Captures : proc[p].at # "append"
           /\ ~file'.open /\ Held(file') = Held(file) /\ Firm(file) \subseteq Firm(file')
           /\ reported' = reported \cap Held(file')
           /\ \E i \in DOMAIN file.lines :
                LET from(j) == IF j < i THEN j ELSE j + 1
                IN  \A j \in DOMAIN file'.lines :
                       j \in Nat /\ from(j) \in DOMAIN file.lines /\ file'.lines[j] = file.lines[from(j)]
<1>1. PICK i \in DOMAIN file.lines :
        file.lines[i] = Bad /\ file' = [lines |-> RemoveAt(file.lines, i), open |-> FALSE]
  BY DEF Repair
<1>2. UNCHANGED <<objects, head, proc, cuts, raced>> /\ reported' = reported \cap Held(file')
      /\ \A p \in Captures : proc[p].at # "append"
  BY DEF Repair, history
<1> DEFINE g == [lines |-> RemoveAt(file.lines, i), open |-> FALSE]
           from(j) == IF j < i THEN j ELSE j + 1
<1>3. FileOf(file, Keys)
  BY DEF Types
<1>4. /\ FileOf(g, Keys) /\ Held(g) = Held(file)
      /\ \A j \in DOMAIN g.lines : from(j) \in DOMAIN file.lines /\ g.lines[j] = file.lines[from(j)]
      /\ DOMAIN g.lines \subseteq Nat
  BY <1>1, <1>3, RepairHolds
<1>5. file' = g /\ ~g.open
  BY <1>1
<1> HIDE DEF g
<1>6. Firm(file) \subseteq Firm(g)
  BY <1>3, <1>4, <1>5, HeldLines
<1>7. Types'
  <2>1. Keys' = Keys
    BY <1>2 DEF Keys
  <2> QED
    BY <1>2, <1>4, <1>5, <2>1 DEF Types, Stands, FileOf
<1>8. \A j \in DOMAIN file'.lines :
        j \in Nat /\ from(j) \in DOMAIN file.lines /\ file'.lines[j] = file.lines[from(j)]
  BY <1>4, <1>5
<1> QED
  BY <1>1, <1>2, <1>4, <1>5, <1>6, <1>7, <1>8

\* A step that is no process's reading, writing or failing, nor a repair of the file.
Same ==
    /\ UNCHANGED <<file, cuts, reported, raced>>
    /\ \A p \in Captures :
         \/ proc'[p] = proc[p]
         \/ /\ proc[p].at # "append" /\ proc'[p].at # "append"
            /\ proc'[p].at = "done" => /\ proc'[p].pairs = {} /\ proc'[p].todo = {}
                                       /\ proc'[p].outcome = "failed" => proc'[p].tail = "fault"

LEMMA GrowMoves ==
    ASSUME Types, NEW parent, Grow(parent)
    PROVE  Types' /\ Same
<1>1. PICK c : objects' = Append(objects, c)
  BY DEF Grow
<1>2. head' = Len(objects') /\ UNCHANGED <<file, proc, captures, cuts, reported, raced>>
  BY DEF Grow
<1>3. /\ objects' \in Seq(ToSet(objects)') /\ Len(objects') = Len(objects) + 1
      /\ Keys \subseteq Keys' /\ Bad \notin Keys'
  BY <1>1, HistoryGrows
<1>4. Len(objects) \in Nat
  BY LenProperties DEF Types
<1>5. head' \in 1 .. Len(objects')
  BY <1>2, <1>3, <1>4
<1>6. FileOf(file, Keys')
  BY <1>3, FileAmongMore DEF Types
<1>7. \A p \in Captures : Stands(proc[p])'
  BY <1>2, <1>3, <1>4 DEF Types, Stands, Process
<1>8. Types'
  <2>1. FileOf(file, Keys)'
    BY <1>2, <1>6 DEF FileOf
  <2> QED
    BY <1>2, <1>3, <1>5, <1>7, <2>1 DEF Types
<1> QED
  BY <1>2, <1>8 DEF Same

LEMMA StartMoves ==
    ASSUME Types, NEW p \in Captures, Start(p)
    PROVE  Types' /\ Same
<1>1. PICK j : Move(p, j) /\ proc[p].at = "idle" /\ j.at # "append"
               /\ (j.at = "done" => j.pairs = {} /\ j.todo = {} /\ j.outcome # "failed")
  <2> DEFINE off == [Idle EXCEPT !.at = "done", !.outcome = "off"]
  <2>1. off.at = "done" /\ off.outcome = "off" /\ off.pairs = {} /\ off.todo = {}
    BY DEF Idle
  <2>2. CASE Move(p, off)
    <3> HIDE DEF off
    <3> QED
      BY <2>1, <2>2 DEF Start
  <2>3. CASE \E rev \in 0 .. Len(objects) : Move(p, [Idle EXCEPT !.at = "resolve", !.rev = rev])
    <3>1. PICK rev \in 0 .. Len(objects) : Move(p, [Idle EXCEPT !.at = "resolve", !.rev = rev])
      BY <2>3
    <3> DEFINE j == [Idle EXCEPT !.at = "resolve", !.rev = rev]
    <3>2. j.at = "resolve"
      BY DEF Idle
    <3> HIDE DEF j
    <3> QED
      BY <3>1, <3>2 DEF j, Start
  <2> QED
    BY <2>2, <2>3 DEF Start
<1>2. UNCHANGED <<file, cuts, reported, raced>>
  BY DEF Start
<1>3. \A q \in Captures : proc'[q] = IF q = p THEN j ELSE proc[q]
  BY <1>1 DEF Move, Types
<1> QED
  BY <1>1, <1>2, <1>3, StartTypes DEF Same

LEMMA ResolveMoves ==
    ASSUME Types, NEW p \in Captures, Resolve(p)
    PROVE  Types' /\ Same
<1>1. Stands(proc[p]) /\ proc[p] \in Process /\ proc[p].at = "resolve"
  BY DEF Types, Stands, Resolve
<1>2. proc[p].todo = {}
  BY <1>1 DEF Stands
<1> DEFINE sha == IF proc[p].rev = 0 THEN head ELSE proc[p].rev
<1>0. PICK pairs \in SUBSET PairsOf(sha) :
        Move(p, [proc[p] EXCEPT !.rev = 0, !.sha = sha, !.pairs = pairs, !.outcome = "ok",
                                !.at = IF pairs = {} THEN "done" ELSE "read"])
  BY DEF Resolve
<1> DEFINE j == [proc[p] EXCEPT !.rev = 0, !.sha = sha, !.pairs = pairs, !.outcome = "ok",
                                !.at = IF pairs = {} THEN "done" ELSE "read"]
<1>3. Move(p, j) /\ UNCHANGED <<file, cuts, reported, raced>>
  BY <1>0 DEF Resolve
<1> HIDE DEF sha
<1>4. j.at = (IF pairs = {} THEN "done" ELSE "read") /\ j.pairs = pairs /\ j.todo = {} /\ j.outcome = "ok"
  BY <1>1, <1>2 DEF Process
<1> HIDE DEF j
<1>5. \A q \in Captures : proc'[q] = IF q = p THEN j ELSE proc[q]
  BY <1>3 DEF Move, Types
<1> QED
  BY <1>1, <1>3, <1>4, <1>5, ResolveTypes DEF Same

LEMMA FaultMoves ==
    ASSUME Types, NEW p \in Captures, Fault(p)
    PROVE  Types' /\ Same
<1> DEFINE j == [Idle EXCEPT !.at = "done", !.outcome = "failed", !.tail = "fault"]
<1>1. /\ Move(p, j) /\ proc[p].at \in {"resolve", "read"}
      /\ UNCHANGED <<objects, head, file, cuts, reported, raced>>
  BY DEF Fault, history
<1>2. /\ j \in Process /\ j.at = "done" /\ j.rev = 0 /\ j.pairs = {} /\ j.todo = {}
      /\ j.outcome = "failed" /\ j.tail = "fault"
  BY DEF Idle, Process
<1> HIDE DEF j
<1>3. Stands(j)
  BY <1>2, LenProperties DEF Stands, Types
<1>4. /\ proc' \in [Captures -> Process] /\ \A q \in Captures : Stands(proc[q])'
      /\ proc'[p] = j /\ \A q \in Captures \ {p} : proc'[q] = proc[q]
  BY <1>1, <1>3, MoveStands
<1>5. Keys' = Keys
  BY <1>1 DEF Keys
<1> QED
  BY <1>1, <1>2, <1>4, <1>5 DEF Types, FileOf, Same

LEMMA EndMoves ==
    ASSUME Types, NEW p \in Captures, End(p)
    PROVE  Types' /\ Same
<1>1. Move(p, Idle) /\ proc[p].at = "done" /\ UNCHANGED <<objects, head, file, cuts, reported, raced>>
  BY DEF End, history
<1>2. Stands(Idle) /\ Idle.at = "idle"
  BY LenProperties DEF Idle, Stands, Process, Types
<1>3. /\ proc' \in [Captures -> Process] /\ \A q \in Captures : Stands(proc[q])'
      /\ proc'[p] = Idle /\ \A q \in Captures \ {p} : proc'[q] = proc[q]
  BY <1>1, <1>2, MoveStands
<1>4. Keys' = Keys
  BY <1>1 DEF Keys
<1> QED
  BY <1>1, <1>2, <1>3, <1>4 DEF Types, FileOf, Same

\* Each step is of a kind, and keeps the types.
LEMMA StepKinds ==
    ASSUME Types, [Next]_vars
    PROVE  /\ Types'
           /\ \/ Same
              \/ \E p \in Captures : ReadKeys(p) \/ AppendOne(p) \/ CutShort(p)
              \/ Repair
<1>1. CASE Commit \/ Amend
  BY <1>1, GrowMoves DEF Commit, Amend
<1>2. CASE Repair
  BY <1>2, RepairMoves
<1>3. ASSUME NEW p \in Captures, Start(p) \/ Resolve(p) \/ Fault(p) \/ End(p) PROVE Types' /\ Same
  BY <1>3, StartMoves, ResolveMoves, FaultMoves, EndMoves
<1>4. ASSUME NEW p \in Captures, ReadKeys(p) \/ AppendOne(p) \/ CutShort(p) PROVE Types'
  BY <1>4, ReadKeysMoves, AppendOneMoves, CutShortMoves
<1>5. CASE UNCHANGED cvars
  BY <1>5 DEF cvars, Types, Stands, Keys, FileOf, Same
<1>6. CNext \/ UNCHANGED cvars
  BY DEF Next, vars, Load, Write, Fail
<1> QED
  BY <1>1, <1>2, <1>3, <1>4, <1>5, <1>6 DEF CNext

(***************************************************************************)
(* A capture heals.                                                        *)
(***************************************************************************)

\* A capture that met an ended line finds the file so while it writes, and all
\* it has dealt with is where no later line can reach it.
HealsAt(p) ==
    /\ proc[p].outcome = "failed" => proc[p].tail \notin {"ended", "open"}
    /\ proc[p].at = "append" /\ proc[p].tail = "ended" => ~file.open
    /\ proc[p].tail = "ended" => proc[p].pairs \ proc[p].todo \subseteq Firm(file)
    /\ proc[p].at = "done" /\ proc[p].tail \in {"ended", "open"} => proc[p].todo = {}
Heals == \A p \in Captures : proc[p].at \in {"append", "done"} => HealsAt(p)

\* What is ended stays so.
LEMMA FirmStays ==
    ASSUME Types, [Next]_vars
    PROVE  Firm(file) \subseteq Firm(file)'
<1>1. FileOf(file, Keys) /\ Bad \notin Keys
  BY KeysAreKeys DEF Types
<1>2. ASSUME NEW p \in Captures, AppendOne(p) PROVE Firm(file) \subseteq Firm(file')
  BY <1>1, <1>2, AppendOneMoves, NextRecord, EncodeHolds
<1>3. ASSUME NEW p \in Captures, CutShort(p) PROVE Firm(file) \subseteq Firm(file')
  <2> DEFINE k == First(proc[p].todo)
  <2>1. k \in Keys /\ file' \in Cut(file, k)
    BY <1>3, CutShortMoves, NextRecord
  <2> HIDE DEF k
  <2>2. Firm(file') = Firm(file)
    BY <1>1, <2>1, CutHolds
  <2> QED
    BY <2>2
<1>4. ASSUME NEW p \in Captures, ReadKeys(p) PROVE file' = file
  BY <1>4, ReadKeysMoves
<1>5. CASE Same
  BY <1>5 DEF Same
<1> QED
  BY <1>2, <1>3, <1>4, <1>5, StepKinds, RepairMoves DEF Firm, Solid

LEMMA HealsInit == Init => Heals
  BY DEF Init, CInit, Idle, Heals

LEMMA HealsStep ==
    ASSUME Types, Heals, [Next]_vars
    PROVE  Heals'
<1> SUFFICES ASSUME NEW q \in Captures, proc'[q].at \in {"append", "done"}
             PROVE  HealsAt(q)'
  BY DEF Heals
<1>1. Firm(file) \subseteq Firm(file)'
  BY FirmStays
<1>2. FileOf(file, Keys) /\ Bad \notin Keys /\ proc[q] \in Process
  BY KeysAreKeys DEF Types, Stands
<1>3. ASSUME proc'[q] = proc[q], proc[q].at = "append" /\ proc[q].tail = "ended" => ~file.open' PROVE HealsAt(q)'
  BY <1>1, <1>3 DEF Heals, HealsAt
<1>4. CASE Same
  <2>1. CASE proc'[q] = proc[q]
    BY <1>3, <1>4, <2>1 DEF Same, Heals, HealsAt
  <2>2. CASE proc'[q] # proc[q]
    <3>1. /\ proc'[q].at # "append" /\ proc'[q].pairs = {} /\ proc'[q].todo = {}
          /\ proc'[q].outcome = "failed" => proc'[q].tail = "fault"
      BY <1>4, <2>2 DEF Same
    <3> QED
      BY <3>1 DEF HealsAt
  <2> QED
    BY <2>1, <2>2
<1>5. ASSUME NEW p \in Captures, ReadKeys(p) PROVE HealsAt(q)'
  <2>1. file' = file
    BY <1>5, ReadKeysMoves
  <2>2. CASE q # p
    <3>1. proc'[q] = proc[q]
      BY <1>5, <2>2, ReadKeysMoves
    <3> QED
      BY <1>3, <2>1, <3>1 DEF Heals, HealsAt
  <2>3. CASE q = p
    <3>1. /\ proc'[q].pairs = proc[q].pairs
          /\ proc'[q].at = IF proc'[q].todo = {} THEN "done" ELSE "append"
          /\ \/ /\ proc'[q].todo = proc[q].pairs \ Held(file) /\ proc'[q].outcome = "ok"
                /\ proc'[q].tail = IF file.open THEN "open" ELSE "ended"
             \/ proc'[q].todo = {} /\ proc'[q].outcome = "failed" /\ proc'[q].tail = "wide"
      BY <1>5, <2>3, ReadKeysMoves
    <3>2. ~file.open => Held(file) = Firm(file)
      BY <1>2, HeldLines
    <3> QED
      BY <1>1, <2>1, <3>1, <3>2 DEF HealsAt
  <2> QED
    BY <2>2, <2>3
<1>6. ASSUME NEW p \in Captures, AppendOne(p) PROVE HealsAt(q)'
  <2>1. ~file'.open
    BY <1>2, <1>6, AppendOneMoves, NextRecord, EncodeHolds
  <2>2. CASE q # p
    <3>1. proc'[q] = proc[q]
      BY <1>6, <2>2, AppendOneMoves
    <3> QED
      BY <1>3, <2>1, <3>1
  <2>3. CASE q = p
    <3> DEFINE k == First(proc[q].todo)
    <3>1. /\ proc[q].at = "append" /\ file' = Encode(file, k) /\ k \in Keys /\ k \in proc[q].todo
          /\ proc'[q].todo = proc[q].todo \ {k} /\ proc'[q].pairs = proc[q].pairs
          /\ \/ proc'[q].tail = proc[q].tail /\ proc'[q].outcome = proc[q].outcome
             \/ proc'[q].tail = "fault" /\ proc'[q].outcome = "failed"
          /\ proc'[q].at = IF proc'[q].todo = {} THEN "done" ELSE "append"
      BY <1>6, <2>3, AppendOneMoves, NextRecord
    <3>2. HealsAt(q)
      BY <3>1 DEF Heals
    <3> HIDE DEF k
    <3>3. proc[q].tail = "ended" => k \in Firm(file)'
      <4> SUFFICES ASSUME proc[q].tail = "ended" PROVE k \in Firm(file)'
        OBVIOUS
      <4>1. ~file.open
        BY <3>1, <3>2 DEF HealsAt
      <4>2. Held(file') = Held(file) \cup {k} /\ Held(file') = Firm(file')
        BY <1>2, <3>1, <4>1, EncodeHolds
      <4> QED
        BY <4>2
    <3> QED
      BY <1>1, <2>1, <3>1, <3>2, <3>3 DEF HealsAt
  <2> QED
    BY <2>2, <2>3
<1>7. ASSUME NEW p \in Captures, CutShort(p) PROVE HealsAt(q)'
  <2>1. CASE q = p \/ proc[q].at = "append"
    <3>1. proc'[q].tail = "cut"
      BY <1>7, <2>1, CutShortMoves
    <3> QED
      BY <3>1 DEF HealsAt
  <2>2. CASE q # p /\ proc[q].at # "append"
    <3>1. proc'[q] = proc[q]
      BY <1>7, <2>2, CutShortMoves
    <3> QED
      BY <1>3, <2>2, <3>1
  <2> QED
    BY <2>1, <2>2
<1>8. CASE Repair
  <2>1. proc'[q] = proc[q] /\ ~file'.open
    BY <1>8, RepairMoves
  <2> QED
    BY <1>3, <2>1
<1> QED
  BY <1>4, <1>5, <1>6, <1>7, <1>8, StepKinds

(* A capture fails where git or the disk fails it, by a write cut short or by  *)
(* a line too long to be scanned, and by no line that does not parse; one that *)
(* met a last line that was ended leaves every pair it made in the file, though *)
(* others append, and are cut short, and a person repairs it.                 *)
THEOREM CaptureAlwaysHeals == Spec => []CaptureHeals
<1>1. Init => Types /\ Heals
  BY InitTypes, HealsInit
<1>2. Types /\ Heals /\ [Next]_vars => (Types /\ Heals)'
  BY StepKinds, HealsStep
<1>3. Types /\ Heals => CaptureHeals
  <2> SUFFICES ASSUME Types, Heals, NEW p \in Captures, proc[p].at = "done", proc[p].tail \in {"ended", "open"}
               PROVE  /\ proc[p].outcome # "failed"
                      /\ proc[p].tail = "ended" => proc[p].pairs \subseteq Held(file)
    BY DEF CaptureHeals
  <2>1. HealsAt(p)
    BY DEF Heals
  <2>2. Firm(file) \subseteq Held(file)
    BY HeldLines DEF Types
  <2> QED
    BY <2>1, <2>2 DEF HealsAt
<1> QED
  BY <1>1, <1>2, <1>3, PTL DEF Spec

(***************************************************************************)
(* A correction is captured once.                                          *)
(***************************************************************************)

\* No two lines hold one record, but of a commit two captures were appending at once.
OnceIn(f) ==
    \A i, j \in DOMAIN f.lines :
        i # j /\ f.lines[i] = f.lines[j] /\ f.lines[i] # Bad => f.lines[i][1] \in raced

\* What a capture is about to write is not held yet, but for such a commit.
OnceAt(p) ==
    proc[p].at = "append" =>
        /\ \A k \in proc[p].todo : k \in Held(file) => k[1] \in raced
        /\ \A q \in Captures \ {p} :
             proc[q].at = "append" /\ proc[q].sha = proc[p].sha => proc[p].sha \in raced
OnceInv == OnceIn(file) /\ \A p \in Captures : OnceAt(p)

\* A line more makes no two alike, unless it was there.
LEMMA KeepsOnce ==
    ASSUME NEW S, NEW f, FileOf(f, S), OnceIn(f), NEW l \in S \cup {Bad}, NEW o \in BOOLEAN,
           l # Bad /\ l \in Held(f) => l[1] \in raced
    PROVE  OnceIn(Keep(f, l, o))
<1> DEFINE g == Keep(f, l, o)
           n == Solid(f)
<1>1. /\ FileOf(g, S) /\ n \in Nat /\ Len(g.lines) = n + 1 /\ g.lines[n + 1] = l
      /\ \A i \in 1 .. n : g.lines[i] = f.lines[i]
  BY KeepLines DEF Follows
<1>2. DOMAIN f.lines = 1 .. Len(f.lines) /\ n <= Len(f.lines) /\ Len(f.lines) \in Nat
  BY LenProperties DEF FileOf, Solid
<1> HIDE DEF g, n
<1>3. DOMAIN g.lines = 1 .. n + 1
  BY <1>1, LenProperties DEF FileOf
<1>4. ASSUME NEW i \in 1 .. n, f.lines[i] = l, l # Bad PROVE l[1] \in raced
  <2>1. l \in ToSet(f.lines)
    BY <1>1, <1>2, <1>4 DEF ToSet
  <2> QED
    BY <1>4, <2>1 DEF Held
<1>5. ASSUME NEW i \in 1 .. n + 1, NEW j \in 1 .. n + 1,
             i # j, g.lines[i] = g.lines[j], g.lines[i] # Bad
      PROVE  g.lines[i][1] \in raced
  <2>1. CASE i \in 1 .. n /\ j \in 1 .. n
    <3>1. i \in DOMAIN f.lines /\ j \in DOMAIN f.lines
      BY <1>1, <1>2, <2>1
    <3>2. g.lines[i] = f.lines[i] /\ g.lines[j] = f.lines[j]
      BY <1>1, <2>1
    <3> QED
      BY <1>5, <3>1, <3>2 DEF OnceIn
  <2>2. CASE i = n + 1
    <3>1. j \in 1 .. n /\ g.lines[j] = f.lines[j] /\ g.lines[i] = l
      BY <1>1, <1>5, <2>2
    <3> QED
      BY <1>4, <1>5, <3>1
  <2>3. CASE j = n + 1
    <3>1. i \in 1 .. n /\ g.lines[i] = f.lines[i] /\ g.lines[j] = l
      BY <1>1, <1>5, <2>3
    <3> QED
      BY <1>4, <1>5, <3>1
  <2> QED
    BY <1>1, <2>1, <2>2, <2>3
<1> QED
  BY <1>3, <1>5 DEF OnceIn, g

LEMMA OnceInit == Init => OnceInv
  BY DEF Init, CInit, Idle, NoFile, OnceInv, OnceIn, OnceAt

LEMMA OnceStep ==
    ASSUME Types, OnceInv, [Next]_vars
    PROVE  OnceInv'
<1>1. FileOf(file, Keys) /\ Bad \notin Keys
  BY KeysAreKeys DEF Types
<1>2. CASE Same
  BY <1>2 DEF Same, OnceInv, OnceIn, OnceAt
<1>3. ASSUME NEW p \in Captures, ReadKeys(p) PROVE OnceInv'
  <2>1. /\ file' = file /\ \A q \in Captures \ {p} : proc'[q] = proc[q]
        /\ proc'[p].todo \subseteq proc[p].pairs \ Held(file) /\ proc'[p].sha = proc[p].sha
        /\ proc'[p].at = IF Scanned /\ proc[p].pairs \ ExistingKeys(file) # {} THEN "append" ELSE "done"
        /\ proc'[p].at = IF proc'[p].todo = {} THEN "done" ELSE "append"
    BY <1>3, ReadKeysMoves
  <2>2. /\ raced \subseteq raced'
        /\ proc'[p].at = "append" =>
             \A q \in Captures \ {p} : proc[q].at = "append" /\ proc[q].sha = proc[p].sha => proc[q].sha \in raced'
    <3>1. proc[p].todo \subseteq proc[p].pairs
      BY DEF Types, Stands
    <3> DEFINE at == IF Scanned /\ proc[p].pairs \ ExistingKeys(file) # {} THEN "append" ELSE "done"
    <3>2. at = proc'[p].at
      BY <2>1
    <3>3. raced' = raced \cup {q.sha : q \in {proc[o] : o \in {o \in Captures \ {p} :
                                         at = "append" /\ proc[o].at = "append" /\ proc[o].sha = proc[p].sha}}}
      BY <1>3 DEF ReadKeys
    <3> HIDE DEF at
    <3> QED
      BY <3>2, <3>3
  <2>3. OnceIn(file)'
    BY <2>1, <2>2 DEF OnceInv, OnceIn
  <2>4. ASSUME NEW q \in Captures PROVE OnceAt(q)'
    <3>1. CASE q = p
      BY <2>1, <2>2, <3>1 DEF OnceAt
    <3>2. CASE q # p
      BY <2>1, <2>2, <3>2 DEF OnceInv, OnceAt
    <3> QED
      BY <3>1, <3>2
  <2> QED
    BY <2>3, <2>4 DEF OnceInv
<1>4. ASSUME NEW p \in Captures, AppendOne(p) PROVE OnceInv'
  <2> DEFINE k == First(proc[p].todo)
  <2>1. /\ proc[p].at = "append" /\ k \in proc[p].todo /\ k \in Keys /\ k \in proc[p].pairs
        /\ file' = Encode(file, k) /\ raced' = raced
        /\ \A q \in Captures \ {p} : proc'[q] = proc[q]
        /\ proc'[p].todo = proc[p].todo \ {k} /\ proc'[p].sha = proc[p].sha
    BY <1>4, AppendOneMoves, NextRecord
  <2> HIDE DEF k
  <2>2. k[1] = proc[p].sha /\ (k \in Held(file) => k[1] \in raced)
    BY <2>1 DEF Types, Stands, OnceInv, OnceAt
  <2>3. OnceIn(file')
    <3> DEFINE l == IF file.open THEN Bad ELSE k
    <3>1. l \in Keys \cup {Bad} /\ FALSE \in BOOLEAN /\ (l # Bad /\ l \in Held(file) => l[1] \in raced)
      BY <2>1, <2>2
    <3>2. file' = Keep(file, l, FALSE)
      BY <2>1 DEF Encode
    <3> HIDE DEF l
    <3>3. OnceIn(Keep(file, l, FALSE))
      BY <1>1, <3>1, KeepsOnce DEF OnceInv
    <3> QED
      BY <3>2, <3>3
  <2>4. Held(file') \subseteq Held(file) \cup {k}
    BY <1>1, <2>1, EncodeHolds, HeldLines
  <2>5. ASSUME NEW q \in Captures PROVE OnceAt(q)'
    <3>1. CASE q = p
      BY <2>1, <2>4, <3>1 DEF OnceInv, OnceAt
    <3>2. CASE q # p
      <4>1. SUFFICES ASSUME proc[q].at = "append", NEW m \in proc[q].todo, m \in Held(file') PROVE m[1] \in raced
        BY <2>1, <3>2 DEF OnceInv, OnceAt
      <4>2. CASE m \in Held(file)
        BY <4>1, <4>2 DEF OnceInv, OnceAt
      <4>3. CASE m = k
        <5>1. m[1] = proc[q].sha
          BY DEF Types, Stands
        <5>2. proc[q].sha = proc[p].sha
          BY <2>2, <4>3, <5>1
        <5> QED
          BY <2>1, <3>2, <4>1, <5>1, <5>2 DEF OnceInv, OnceAt
      <4> QED
        BY <2>4, <4>1, <4>2, <4>3
    <3> QED
      BY <3>1, <3>2
  <2>6. OnceIn(file)'
    BY <2>1, <2>3 DEF OnceIn
  <2> QED
    BY <2>5, <2>6 DEF OnceInv
<1>5. ASSUME NEW p \in Captures, CutShort(p) PROVE OnceInv'
  <2> DEFINE k == First(proc[p].todo)
  <2>1. /\ proc[p].at = "append" /\ k \in proc[p].todo /\ k \in Keys /\ k \in proc[p].pairs
        /\ file' \in Cut(file, k) /\ raced' = raced
        /\ proc'[p].at = "done"
        /\ \A q \in Captures :
             /\ q # p => proc'[q].at = proc[q].at
             /\ proc'[q].todo = proc[q].todo /\ proc'[q].sha = proc[q].sha
    BY <1>5, CutShortMoves, NextRecord
  <2> HIDE DEF k
  <2>2. k[1] = proc[p].sha /\ (k \in Held(file) => k[1] \in raced)
    BY <2>1 DEF Types, Stands, OnceInv, OnceAt
  <2>3. OnceIn(file') /\ Held(file') \subseteq Held(file) \cup {k}
    <3>0. TRUE \in BOOLEAN /\ Firm(file) \subseteq Held(file)
      BY <1>1, HeldLines
    <3>1. CASE file' = file
      BY <3>1 DEF OnceInv
    <3>2. CASE file' = Keep(file, Bad, TRUE)
      <4>1. OnceIn(Keep(file, Bad, TRUE))
        BY <1>1, <3>0, KeepsOnce DEF OnceInv
      <4>2. HoldsAlso(Keep(file, Bad, TRUE), file, Bad)
        BY <1>1, <3>0, KeepHolds
      <4> QED
        BY <3>0, <3>2, <4>1, <4>2 DEF HoldsAlso
    <3>3. CASE file' = Keep(file, k, TRUE)
      <4>1. OnceIn(Keep(file, k, TRUE))
        BY <1>1, <2>1, <2>2, <3>0, KeepsOnce DEF OnceInv
      <4>2. HoldsAlso(Keep(file, k, TRUE), file, k)
        BY <1>1, <2>1, <3>0, KeepHolds
      <4> QED
        BY <3>0, <3>3, <4>1, <4>2 DEF HoldsAlso
    <3> QED
      BY <2>1, <3>1, <3>2, <3>3 DEF Cut
  <2>5. ASSUME NEW q \in Captures PROVE OnceAt(q)'
    <3>1. CASE q = p
      BY <2>1, <3>1 DEF OnceAt
    <3>2. CASE q # p
      <4>1. SUFFICES ASSUME proc[q].at = "append", NEW m \in proc[q].todo, m \in Held(file') PROVE m[1] \in raced
        BY <2>1, <3>2 DEF OnceInv, OnceAt
      <4>2. CASE m \in Held(file)
        BY <4>1, <4>2 DEF OnceInv, OnceAt
      <4>3. CASE m = k
        <5>1. m[1] = proc[q].sha
          BY DEF Types, Stands
        <5>2. proc[q].sha = proc[p].sha
          BY <2>2, <4>3, <5>1
        <5> QED
          BY <2>1, <3>2, <4>1, <5>1, <5>2 DEF OnceInv, OnceAt
      <4> QED
        BY <2>3, <4>1, <4>2, <4>3
    <3> QED
      BY <3>1, <3>2
  <2>6. OnceIn(file)'
    BY <2>1, <2>3 DEF OnceIn
  <2> QED
    BY <2>5, <2>6 DEF OnceInv
<1>6. CASE Repair
  <2>1. raced' = raced /\ \A q \in Captures : proc'[q] = proc[q] /\ proc[q].at # "append"
    BY <1>6, RepairMoves
  <2>2. PICK i \in DOMAIN file.lines :
          LET from(j) == IF j < i THEN j ELSE j + 1
          IN  \A j \in DOMAIN file'.lines :
                 j \in Nat /\ from(j) \in DOMAIN file.lines /\ file'.lines[j] = file.lines[from(j)]
    BY <1>6, RepairMoves
  <2> DEFINE from(j) == IF j < i THEN j ELSE j + 1
  <2>3. i \in Nat
    BY <1>1, LenProperties DEF FileOf
  <2>4. \A j, m \in Nat : j # m => from(j) # from(m)
    BY <2>3
  <2>5. \A j \in DOMAIN file'.lines :
          j \in Nat /\ from(j) \in DOMAIN file.lines /\ file'.lines[j] = file.lines[from(j)]
    BY <2>2
  <2> HIDE DEF from
  <2>6. OnceIn(file)'
    BY <2>1, <2>4, <2>5 DEF OnceInv, OnceIn
  <2> QED
    BY <2>1, <2>6 DEF OnceInv, OnceAt
<1> QED
  BY <1>2, <1>3, <1>4, <1>5, <1>6, StepKinds

(* However often the hook fires, from whichever revision and after whatever   *)
(* failure, a correction of a commit is held once, unless two captures of that *)
(* commit overlapped.                                                        *)
THEOREM CapturedOnlyOnce == Spec => []CapturedOnce
<1>1. Init => Types /\ OnceInv
  BY InitTypes, OnceInit
<1>2. Types /\ OnceInv /\ [Next]_vars => (Types /\ OnceInv)'
  BY StepKinds, OnceStep
<1>3. OnceInv => CapturedOnce
  BY DEF OnceInv, OnceIn, CapturedOnce
<1> QED
  BY <1>1, <1>2, <1>3, PTL DEF Spec

(***************************************************************************)
(* What is lost is bounded, and shows.                                     *)
(***************************************************************************)

\* What has been counted, and what the captures at work have done and not counted yet.
Writing == {p \in Captures : proc[p].at = "append"}
Claimed == reported \cup UNION {proc[p].pairs \ proc[p].todo : p \in Writing}
Lost == Claimed \ Held(file)

\* A line left open can still take what it holds, and what lands on it.
LossInv == Cardinality(Lost) + Owing(file) <= 2 * cuts
ShownInv == Lost # {} => ~Parses(file)

LEMMA ClaimsAreKeys ==
    ASSUME Types
    PROVE  Claimed \subseteq Keys /\ IsFiniteSet(Lost) /\ Cardinality(Lost) \in Nat
<1>1. Claimed \subseteq Keys
  BY DEF Types, Stands, Claimed, Writing
<1>2. IsFiniteSet(Lost)
  BY <1>1, KeysAreKeys, FS_Subset DEF Lost
<1> QED
  BY <1>1, <1>2, FS_CardinalityType

\* What each kind of step claims more.
LEMMA ClaimsMove ==
    ASSUME Types, [Next]_vars
    PROVE  /\ Same => Claimed' = Claimed
           /\ \A p \in Captures : ReadKeys(p) => Claimed' \subseteq Claimed \cup Held(file)
           /\ \A p \in Captures : AppendOne(p) => Claimed' \subseteq Claimed \cup {First(proc[p].todo)}
           /\ \A p \in Captures : CutShort(p) => Claimed' \subseteq Claimed
           /\ Repair => Claimed' \subseteq Held(file')
<1> DEFINE Done(p) == proc[p].pairs \ proc[p].todo
<1>1. ASSUME Same PROVE Claimed' = Claimed
  <2>1. Writing' = Writing /\ \A p \in Writing : proc'[p] = proc[p]
    BY <1>1 DEF Same, Writing
  <2>2. {proc'[p].pairs \ proc'[p].todo : p \in Writing'} = {Done(p) : p \in Writing}
    BY <2>1
  <2> QED
    BY <1>1, <2>2 DEF Same, Claimed
<1>2. ASSUME NEW p \in Captures, ReadKeys(p) PROVE Claimed' \subseteq Claimed \cup Held(file)
  <2>1. /\ \A q \in Captures \ {p} : proc'[q] = proc[q]
        /\ proc'[p].pairs = proc[p].pairs /\ proc'[p].at = (IF proc'[p].todo = {} THEN "done" ELSE "append")
        /\ \/ /\ proc'[p].todo = proc[p].pairs \ Held(file)
              /\ reported' = IF proc'[p].todo = {} THEN reported \cup proc[p].pairs ELSE reported
           \/ proc'[p].todo = {} /\ reported' = reported
    BY <1>2, ReadKeysMoves
  <2>2. ASSUME NEW x \in Claimed' PROVE x \in Claimed \cup Held(file)
    <3>1. CASE x \in reported'
      BY <2>1, <3>1 DEF Claimed
    <3>2. CASE \E q \in Captures : proc'[q].at = "append" /\ x \in proc'[q].pairs \ proc'[q].todo
      BY <2>1, <3>2 DEF Claimed, Writing
    <3> QED
      BY <2>2, <3>1, <3>2 DEF Claimed, Writing
  <2> QED
    BY <2>2
<1>3. ASSUME NEW p \in Captures, AppendOne(p) PROVE Claimed' \subseteq Claimed \cup {First(proc[p].todo)}
  <2> DEFINE k == First(proc[p].todo)
  <2>1. /\ \A q \in Captures \ {p} : proc'[q] = proc[q]
        /\ proc[p].at = "append"
        /\ proc'[p].todo = proc[p].todo \ {k} /\ proc'[p].pairs = proc[p].pairs
        /\ \/ reported' = reported
           \/ proc'[p].todo = {} /\ reported' = reported \cup proc[p].pairs
    BY <1>3, AppendOneMoves
  <2> HIDE DEF k
  <2>2. ASSUME NEW x \in Claimed' PROVE x \in Claimed \cup {k}
    <3>1. CASE x \in reported'
      BY <2>1, <3>1 DEF Claimed, Writing
    <3>2. CASE \E q \in Captures : proc'[q].at = "append" /\ x \in proc'[q].pairs \ proc'[q].todo
      BY <2>1, <3>2 DEF Claimed, Writing
    <3> QED
      BY <2>2, <3>1, <3>2 DEF Claimed, Writing
  <2> QED
    BY <2>2 DEF k
<1>4. ASSUME NEW p \in Captures, CutShort(p) PROVE Claimed' \subseteq Claimed
  <2>1. /\ reported' = reported /\ proc'[p].at = "done"
        /\ \A q \in Captures :
             /\ q # p => proc'[q].at = proc[q].at
             /\ proc'[q].todo = proc[q].todo /\ proc'[q].pairs = proc[q].pairs
    BY <1>4, CutShortMoves
  <2> QED
    BY <2>1 DEF Claimed, Writing
<1>5. ASSUME Repair PROVE Claimed' \subseteq Held(file')
  <2>1. /\ reported' \subseteq Held(file')
        /\ \A q \in Captures : proc'[q].at # "append"
    BY <1>5, RepairMoves
  <2> QED
    BY <2>1 DEF Claimed, Writing
<1> QED
  BY <1>1, <1>2, <1>3, <1>4, <1>5

\* Nothing more is lost than Lost.
LEMMA FewerLost ==
    ASSUME NEW S, IsFiniteSet(S), NEW T, T \subseteq S
    PROVE  Cardinality(T) \in Nat /\ Cardinality(S) \in Nat /\ Cardinality(T) <= Cardinality(S)
  BY FS_Subset, FS_CardinalityType

LEMMA OneMoreLost ==
    ASSUME NEW S, IsFiniteSet(S), NEW x, NEW T, T \subseteq S \cup {x}
    PROVE  /\ Cardinality(T) \in Nat /\ Cardinality(S) \in Nat /\ Cardinality(T) <= Cardinality(S) + 1
           /\ IsFiniteSet(S \cup {x}) /\ Cardinality(S \cup {x}) <= Cardinality(S) + 1
<1>1. IsFiniteSet(S \cup {x}) /\ Cardinality(S) \in Nat /\ Cardinality(S \cup {x}) <= Cardinality(S) + 1
  <2>1. /\ IsFiniteSet(S \cup {x})
        /\ Cardinality(S \cup {x}) = IF x \in S THEN Cardinality(S) ELSE Cardinality(S) + 1
    BY FS_AddElement
  <2>2. Cardinality(S) \in Nat
    BY FS_CardinalityType
  <2> QED
    BY <2>1, <2>2
<1>2. Cardinality(T) \in Nat /\ Cardinality(S \cup {x}) \in Nat /\ Cardinality(T) <= Cardinality(S \cup {x})
  BY <1>1, FewerLost
<1> QED
  BY <1>1, <1>2

LEMMA LossInit == Init => LossInv /\ ShownInv
<1> SUFFICES ASSUME Init PROVE LossInv /\ ShownInv
  OBVIOUS
<1>1. Writing = {} /\ reported = {}
  BY DEF Init, CInit, Idle, Writing
<1>2. Lost = {}
  BY <1>1 DEF Lost, Claimed
<1>3. Owing(file) = 0 /\ cuts = 0
  BY DEF Init, CInit, NoFile, Owing
<1> QED
  BY <1>2, <1>3, FS_EmptySet DEF LossInv, ShownInv

LEMMA LossStep ==
    ASSUME Types, LossInv, ShownInv, [Next]_vars
    PROVE  LossInv' /\ ShownInv'
<1>1. FileOf(file, Keys) /\ Bad \notin Keys /\ IsFiniteSet(Lost) /\ Cardinality(Lost) \in Nat /\ cuts \in Nat
  BY KeysAreKeys, ClaimsAreKeys DEF Types
<1>2. /\ Owing(file) \in 0 .. 2 /\ Firm(file) \subseteq Held(file)
      /\ ~file.open => Held(file) = Firm(file) /\ Owing(file) = 0
      /\ file.open => /\ Held(file) \subseteq Firm(file) \cup {file.lines[Len(file.lines)]}
                      /\ file.lines[Len(file.lines)] = Bad => Held(file) = Firm(file)
  BY <1>1, HeldLines
<1>3. ASSUME file' = file, cuts' = cuts, Claimed' \subseteq Claimed \cup Held(file) PROVE LossInv' /\ ShownInv'
  <2>1. Lost' \subseteq Lost /\ Owing(file)' = Owing(file) /\ (Parses(file)' <=> Parses(file))
    BY <1>3 DEF Lost, Owing, Held, Parses
  <2>2. Cardinality(Lost') \in Nat /\ Cardinality(Lost') <= Cardinality(Lost)
    BY <1>1, <2>1, FewerLost
  <2> QED
    BY <1>1, <1>2, <1>3, <2>1, <2>2 DEF LossInv, ShownInv
<1>4. CASE Same
  BY <1>3, <1>4, ClaimsMove DEF Same
<1>5. ASSUME NEW p \in Captures, ReadKeys(p) PROVE LossInv' /\ ShownInv'
  BY <1>3, <1>5, ClaimsMove, ReadKeysMoves
<1>6. ASSUME NEW p \in Captures, AppendOne(p) PROVE LossInv' /\ ShownInv'
  <2> DEFINE k == First(proc[p].todo)
             last == file.lines[Len(file.lines)]
  <2>1. k \in Keys /\ file' = Encode(file, k) /\ cuts' = cuts /\ Claimed' \subseteq Claimed \cup {k}
    BY <1>6, AppendOneMoves, NextRecord, ClaimsMove
  <2> HIDE DEF k
  <2>2. /\ Owing(file') = 0
        /\ ~file.open => Held(file') = Held(file) \cup {k}
        /\ file.open => Held(file') = Firm(file)
        /\ file.open \/ ~Parses(file) => ~Parses(file')
    BY <1>1, <2>1, EncodeHolds
  <2>3. Owing(file)' = Owing(file') /\ (Parses(file)' <=> Parses(file')) /\ Lost' = Claimed' \ Held(file')
    BY DEF Owing, Parses, Lost, Held
  <2>4. CASE ~file.open
    <3>1. Lost' \subseteq Lost
      BY <2>1, <2>2, <2>3, <2>4 DEF Lost
    <3>2. Cardinality(Lost') \in Nat /\ Cardinality(Lost') <= Cardinality(Lost)
      BY <1>1, <3>1, FewerLost
    <3> QED
      BY <1>1, <1>2, <2>1, <2>2, <2>3, <2>4, <3>1, <3>2 DEF LossInv, ShownInv
  <2>5. CASE file.open /\ last = Bad
    <3>1. Lost' \subseteq Lost \cup {k}
      BY <1>2, <2>1, <2>2, <2>3, <2>5 DEF Lost
    <3>2. Cardinality(Lost') \in Nat /\ Cardinality(Lost') <= Cardinality(Lost) + 1
      BY <1>1, <3>1, OneMoreLost
    <3>3. Owing(file) = 1
      BY <2>5 DEF Owing
    <3> QED
      BY <1>1, <2>1, <2>2, <2>3, <2>5, <3>2, <3>3 DEF LossInv, ShownInv
  <2>6. CASE file.open /\ last # Bad
    <3>1. Lost' \subseteq (Lost \cup {k}) \cup {last}
      BY <1>2, <2>1, <2>2, <2>3, <2>6 DEF Lost
    <3>2. IsFiniteSet(Lost \cup {k}) /\ Cardinality(Lost \cup {k}) <= Cardinality(Lost) + 1
      BY <1>1, OneMoreLost
    <3>3. /\ Cardinality(Lost') \in Nat /\ Cardinality(Lost \cup {k}) \in Nat
          /\ Cardinality(Lost') <= Cardinality(Lost \cup {k}) + 1
      <4> HIDE DEF last
      <4> QED
        BY <3>1, <3>2, OneMoreLost
    <3>4. Owing(file) = 2
      BY <2>6 DEF Owing
    <3> HIDE DEF last
    <3> QED
      BY <1>1, <2>1, <2>2, <2>3, <2>6, <3>2, <3>3, <3>4 DEF LossInv, ShownInv
  <2> QED
    BY <2>4, <2>5, <2>6
<1>7. ASSUME NEW p \in Captures, CutShort(p) PROVE LossInv' /\ ShownInv'
  <2> DEFINE k == First(proc[p].todo)
             last == file.lines[Len(file.lines)]
  <2>1. k \in Keys /\ file' \in Cut(file, k) /\ cuts' = cuts + 1 /\ Claimed' \subseteq Claimed
    BY <1>7, CutShortMoves, NextRecord, ClaimsMove
  <2> HIDE DEF k
  <2>2. \/ file' = file
        \/ Held(file') = Firm(file) /\ Owing(file') = 1 /\ ~Parses(file')
        \/ /\ ~file.open /\ Held(file') = Held(file) \cup {k} /\ Owing(file') = 2
           /\ ~Parses(file) => ~Parses(file')
    <3>1. ASSUME NEW g \in Cut(file, k)
          PROVE  \/ g = file
                 \/ Held(g) = Firm(file) /\ Owing(g) = 1 /\ ~Parses(g)
                 \/ /\ ~file.open /\ Held(g) = Held(file) \cup {k} /\ Owing(g) = 2
                    /\ ~Parses(file) => ~Parses(g)
      BY <1>1, <2>1, CutHolds
    <3> QED
      BY <2>1, <3>1
  <2>3. Owing(file)' = Owing(file') /\ (Parses(file)' <=> Parses(file')) /\ Lost' = Claimed' \ Held(file')
    BY DEF Owing, Parses, Lost, Held
  <2>4. CASE Held(file) \subseteq Held(file') /\ Owing(file') <= Owing(file) + 2 /\ Owing(file') \in Nat
             /\ (~Parses(file) => ~Parses(file'))
    <3>1. Lost' \subseteq Lost
      BY <2>1, <2>3, <2>4 DEF Lost
    <3>2. Cardinality(Lost') \in Nat /\ Cardinality(Lost') <= Cardinality(Lost)
      BY <1>1, <3>1, FewerLost
    <3> QED
      BY <1>1, <1>2, <2>1, <2>3, <2>4, <3>1, <3>2 DEF LossInv, ShownInv
  <2>5. CASE file.open /\ last # Bad /\ Held(file') = Firm(file) /\ Owing(file') = 1 /\ ~Parses(file')
    <3>1. Lost' \subseteq Lost \cup {last}
      BY <1>2, <2>1, <2>3, <2>5 DEF Lost
    <3>2. Cardinality(Lost') \in Nat /\ Cardinality(Lost') <= Cardinality(Lost) + 1
      <4> HIDE DEF last
      <4> QED
        BY <1>1, <3>1, OneMoreLost
    <3>3. Owing(file) = 2
      BY <2>5 DEF Owing
    <3> QED
      BY <1>1, <2>1, <2>3, <2>5, <3>2, <3>3 DEF LossInv, ShownInv
  <2>6. CASE file' = file
    BY <1>2, <2>4, <2>6
  <2>7. CASE ~file.open /\ Held(file') = Held(file) \cup {k} /\ Owing(file') = 2 /\ (~Parses(file) => ~Parses(file'))
    BY <1>2, <2>4, <2>7
  <2>8. CASE (~file.open \/ last = Bad) /\ Held(file') = Firm(file) /\ Owing(file') = 1 /\ ~Parses(file')
    BY <1>2, <2>4, <2>8
  <2> QED
    BY <2>2, <2>5, <2>6, <2>7, <2>8
<1>8. CASE Repair
  <2>1. ~file'.open /\ cuts' = cuts /\ Claimed' \subseteq Held(file')
    BY <1>8, RepairMoves, ClaimsMove
  <2>2. Lost' = {} /\ Owing(file)' = 0
    BY <2>1 DEF Lost, Owing, Held
  <2> QED
    BY <1>1, <2>1, <2>2, FS_EmptySet DEF LossInv, ShownInv
<1> QED
  BY <1>4, <1>5, <1>6, <1>7, <1>8, StepKinds

LEMMA LossAlways == Spec => [](Types /\ LossInv /\ ShownInv)
<1>1. Init => Types /\ LossInv /\ ShownInv
  BY InitTypes, LossInit
<1>2. Types /\ LossInv /\ ShownInv /\ [Next]_vars => (Types /\ LossInv /\ ShownInv)'
  BY StepKinds, LossStep
<1> QED
  BY <1>1, <1>2, PTL DEF Spec

(* Each write that is cut short costs two corrections that were counted at    *)
(* the most: the one it left without its newline, and the one that lands on it. *)
THEOREM LossAlwaysBounded == Spec => []LossIsBounded
<1>1. Types /\ LossInv => LossIsBounded
  <2> SUFFICES ASSUME Types, LossInv PROVE LossIsBounded
    OBVIOUS
  <2>1. reported \ Held(file) \subseteq Lost
    BY DEF Lost, Claimed
  <2>2. IsFiniteSet(Lost)
    BY ClaimsAreKeys
  <2>3. /\ Cardinality(reported \ Held(file)) \in Nat /\ Cardinality(Lost) \in Nat
        /\ Cardinality(reported \ Held(file)) <= Cardinality(Lost)
    BY <2>1, <2>2, FewerLost
  <2>4. Owing(file) \in 0 .. 2 /\ cuts \in Nat
    BY HeldLines DEF Types
  <2> QED
    BY <2>3, <2>4 DEF LossInv, LossIsBounded
<1> QED
  BY <1>1, LossAlways, PTL

(* What is lost leaves a line that does not parse, so the strict reader never *)
(* begins an export that lacks a correction any capture has counted.           *)
THEOREM ExportsAreComplete == Spec => ExportIsComplete
<1>1. Types /\ ShownInv /\ [Next]_vars =>
          (stage = "idle" /\ stage' # "idle" => reported \subseteq body')
  <2> SUFFICES ASSUME ShownInv, [Next]_vars, stage = "idle", stage' # "idle" PROVE reported \subseteq body'
    OBVIOUS
  <2>1. Load
    BY DEF Next, vars, xvars, Write, Fail
  <2>2. Parses(file) /\ body' = Held(file)
    BY <2>1 DEF Load, ReadStrict
  <2> QED
    BY <2>2 DEF ShownInv, Lost, Claimed
<1>2. Types /\ ShownInv /\ [Next]_vars =>
          [stage = "idle" /\ stage' # "idle" => reported \subseteq body']_vars
  BY <1>1
<1> QED
  BY <1>2, LossAlways, PTL DEF Spec, ExportIsComplete

(***************************************************************************)
(* An export is logged.                                                    *)
(***************************************************************************)

\* The export under way is logged before its body goes out.
IsLogged(n) == <<n, 1>> \in Held(log) \/ ~Parses(log)
LoggedInv ==
    /\ FileOf(log, Nat \X {1}) /\ exports \in Nat
    /\ stage \in {"idle", "log", "body", "sheet"}
    /\ stage \in {"body", "sheet"} => IsLogged(exports)
    /\ out = [body |-> out.body, sheet |-> out.sheet]
    /\ out.body # 0 => IsLogged(out.body)

LEMMA WritesInOrder ==
    Writes[1] = "log" /\ After("log") = "body" /\ After("body") = "sheet" /\ After("sheet") = "idle"
<1>1. Writes = <<"log", "body", "sheet">> /\ Last(Writes) = "sheet" /\ DOMAIN Writes = {1, 2, 3}
  BY DEF Writes, Last
<1>2. (CHOOSE i \in DOMAIN Writes : Writes[i] = "log") = 1
  BY <1>1
<1>3. (CHOOSE i \in DOMAIN Writes : Writes[i] = "body") = 2
  BY <1>1
<1> QED
  BY <1>1, <1>2, <1>3 DEF After

LEMMA LoggedInit == Init => LoggedInv
  BY DEF Init, NoFile, LoggedInv, FileOf

\* An entry, whole or cut short, leaves what was logged logged, or shows.
LEMMA EntryKeeps ==
    ASSUME LoggedInv, NEW n, IsLogged(n), log' = Encode(log, LogLine) \/ log' \in Cut(log, LogLine)
    PROVE  IsLogged(n)'
<1>1. FileOf(log, Nat \X {1}) /\ Bad \notin Nat \X {1} /\ LogLine \in Nat \X {1}
  BY DEF LoggedInv, Bad, LogLine
<1>2. Held(log)' = Held(log') /\ (Parses(log)' <=> Parses(log'))
  BY DEF Held, Parses
<1>3. ASSUME log' = Encode(log, LogLine) PROVE IsLogged(n)'
  <2>1. /\ ~log.open => Held(log') = Held(log) \cup {LogLine}
        /\ log.open \/ ~Parses(log) => ~Parses(log')
    BY <1>1, <1>3, EncodeHolds
  <2> QED
    BY <1>2, <2>1 DEF IsLogged
<1>4. ASSUME log' \in Cut(log, LogLine) PROVE IsLogged(n)'
  <2>1. ASSUME NEW g \in Cut(log, LogLine)
        PROVE  g = log \/ ~Parses(g) \/ (Held(g) = Held(log) \cup {LogLine} /\ (~Parses(log) => ~Parses(g)))
    BY <1>1, CutHolds
  <2> QED
    BY <1>2, <1>4, <2>1 DEF IsLogged
<1> QED
  BY <1>3, <1>4

LEMMA LoggedStep ==
    ASSUME LoggedInv, [Next]_vars
    PROVE  LoggedInv'
<1>1. FileOf(log, Nat \X {1}) /\ Bad \notin Nat \X {1} /\ LogLine \in Nat \X {1}
  BY DEF LoggedInv, Bad, LogLine
<1>2. CASE UNCHANGED xvars
  BY <1>2 DEF xvars, LoggedInv, IsLogged, Held, Parses, FileOf
<1>3. CASE Load
  BY <1>3, WritesInOrder DEF Load, LoggedInv, IsLogged, Held, Parses, FileOf
<1>4. CASE Write
  <2>1. CASE stage = "log"
    <3>1. log' = Encode(log, LogLine) /\ out' = out /\ exports' = exports /\ stage' = "body"
      BY <1>4, <2>1, WritesInOrder DEF Write
    <3>2. /\ FileOf(log', Nat \X {1})
          /\ ~log.open => Held(log') = Held(log) \cup {LogLine}
          /\ log.open => ~Parses(log')
      BY <1>1, <3>1, EncodeHolds
    <3>3. IsLogged(exports)'
      BY <3>1, <3>2 DEF IsLogged, Held, Parses, LogLine
    <3>4. out'.body # 0 => IsLogged(out.body)'
      BY <3>1, EntryKeeps DEF LoggedInv, IsLogged
    <3> QED
      BY <3>1, <3>2, <3>3, <3>4 DEF LoggedInv, FileOf
  <2>2. CASE stage \in {"body", "sheet"}
    <3>1. /\ log' = log /\ exports' = exports /\ stage' \in {"sheet", "idle"}
          /\ out' = [out EXCEPT ![stage] = exports]
      BY <1>4, <2>2, WritesInOrder DEF Write
    <3>2. /\ out' = [body |-> out'.body, sheet |-> out'.sheet]
          /\ out'.body \in {out.body, exports}
      BY <2>2, <3>1 DEF LoggedInv
    <3> QED
      BY <2>2, <3>1, <3>2 DEF LoggedInv, IsLogged, Held, Parses, FileOf
  <2> QED
    BY <1>4, <2>1, <2>2 DEF LoggedInv, Write
<1>5. CASE Fail
  <2>1. CASE stage = "log"
    <3>1. log' \in Cut(log, LogLine) /\ out' = out /\ exports' = exports /\ stage' = "idle"
      BY <1>5, <2>1 DEF Fail
    <3>2. FileOf(log', Nat \X {1})
      BY <1>1, <3>1, CutHolds
    <3>3. out'.body # 0 => IsLogged(out.body)'
      BY <3>1, EntryKeeps DEF LoggedInv, IsLogged
    <3> QED
      BY <3>1, <3>2, <3>3 DEF LoggedInv, FileOf
  <2>2. CASE stage \in {"body", "sheet"}
    <3>1. /\ log' = log /\ exports' = exports /\ stage' = "idle"
          /\ out' \in {out, [out EXCEPT ![stage] = exports]}
      BY <1>5, <2>2 DEF Fail
    <3>2. /\ out' = [body |-> out'.body, sheet |-> out'.sheet]
          /\ out'.body \in {out.body, exports}
      BY <2>2, <3>1 DEF LoggedInv
    <3> QED
      BY <2>2, <3>1, <3>2 DEF LoggedInv, IsLogged, Held, Parses, FileOf
  <2> QED
    BY <1>5, <2>1, <2>2 DEF LoggedInv, Fail
<1> QED
  BY <1>2, <1>3, <1>4, <1>5 DEF Next, vars

(* The log is written before the export, so one whose records are out has its *)
(* entry, unless that was lost to a line cut short, which shows.              *)
THEOREM ExportsAlwaysLogged == Spec => []ExportsAreLogged
<1>1. Init => LoggedInv
  BY LoggedInit
<1>2. LoggedInv /\ [Next]_vars => LoggedInv'
  BY LoggedStep
<1>3. LoggedInv => ExportsAreLogged
  BY DEF LoggedInv, IsLogged, ExportsAreLogged
<1> QED
  BY <1>1, <1>2, <1>3, PTL DEF Spec
=============================================================================
