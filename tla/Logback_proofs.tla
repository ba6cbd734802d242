---------------------------- MODULE Logback_proofs ----------------------------
(***************************************************************************)
(* What holds of logback's blocks for every source file, vault and number of *)
(* runs, edits and kills: no line of the author's is lost, a second run writes *)
(* nothing, every marker can be taken away, and from the bottom of a file to  *)
(* its top each lands above its symbol.                                      *)
(***************************************************************************)
EXTENDS Logback, SequenceTheorems, FiniteSetTheorems, WellFoundedInduction, TLAPS

(***************************************************************************)
(* Files and the blocks in them.                                           *)
(***************************************************************************)

IsLines(s) == s \in Seq(ToSet(s))

Marks == {"begin", "body", "end"}
Plain(s) == \A i \in DOMAIN s : s[i].is \notin Marks

\* Lines that begin or end a block say nothing more.
Bare(s) ==
    \A i \in DOMAIN s : /\ s[i].is = "begin" => s[i] = BeginLine(s[i].of)
                        /\ s[i].is = "end" => s[i] = EndLine(s[i].of)

\* A block from line b to line e.
Spans(s, b, e) == b < e /\ s[b].is = "begin" /\ s[e].is = "end" /\ s[b].of = s[e].of

\* Line i is of a block that stands, of none of the lines X.
Spanned(s, X, i) == \E b, e \in DOMAIN s \ X : Spans(s, b, e) /\ s[b].of = s[i].of /\ b <= i /\ i <= e

\* But for X, the halves that are left of blocks, every line that begins or ends a block is
\* of one that stands, and each symbol has one at most; nothing else is inside, nor a half of
\* its own symbol; and blocks do not cross.
Cover(s, X) ==
    /\ Bare(s)
    /\ \A i, j \in DOMAIN s \ X : s[i].is \in {"begin", "end"} /\ s[j].is = s[i].is /\ s[j].of = s[i].of => i = j
    /\ \A i \in DOMAIN s \ X : s[i].is \in {"begin", "end"} => Spanned(s, X, i)
    /\ \A b, e \in DOMAIN s \ X : Spans(s, b, e) =>
           \A i \in DOMAIN s : b <= i /\ i <= e => s[i].is \in Marks /\ (i \in X => s[i].of # s[b].of)
    /\ \A b, e, c, f \in DOMAIN s \ X : Spans(s, b, e) /\ Spans(s, c, f) /\ b < c /\ c < e => f < e

\* A file nobody took a line from: no line of a block is outside of it.
Whole(s) == Cover(s, {}) /\ \A i \in DOMAIN s : s[i].is \in Marks => Spanned(s, {}, i)

\* A file of blocks of three lines.
Attached(s) ==
    /\ Bare(s)
    /\ \A i \in DOMAIN s :
           /\ s[i].is = "begin" => i + 2 \in DOMAIN s /\ s[i + 1].is = "body" /\ s[i + 2] = EndLine(s[i].of)
           /\ s[i].is = "end" => i - 2 \in DOMAIN s /\ s[i - 1].is = "body" /\ s[i - 2] = BeginLine(s[i].of)

\* A block of a marker, with its notes, stands in the file.
Holds(s, id, notes) == \E b \in DOMAIN s : b + 2 \in DOMAIN s /\ \A k \in 1 .. 3 : s[b + k - 1] = RenderBlock(id, notes)[k]

(***************************************************************************)
(* The invariant.                                                          *)
(***************************************************************************)

\* A command that has still to resolve its markers, and one that has.
Starting == {"fragment", "resolve"}
Running == {"read", "write", "done"}

Types ==
    /\ IsLines(file[Src]) /\ IsLines(file[Claude]) /\ IsLines(head) /\ IsLines(vault) /\ IsLines(snap)
    /\ file = [f \in {Src, Claude} |-> file[f]] /\ authored = [f \in {Src, Claude} |-> authored[f]]
    /\ at \in Starting \cup Running \cup {"idle"} /\ op \in {"write", "remove"}
    /\ IsLines(plan) /\ \A i \in DOMAIN plan : plan[i].line \in Nat
    /\ at = "write" => plan # << >> /\ IsLines(buffer)
    /\ halves \in Nat /\ quiet \in BOOLEAN /\ fresh \in BOOLEAN /\ nested \in BOOLEAN /\ torn \in BOOLEAN

\* What was read is still there when it is written.
Current == at = "write" /\ ~torn => buffer = Apply(file[Src], Head(plan))

Sound ==
    /\ Whole(file[Claude]) /\ ByHand(file[Claude]) = authored[Claude]
    /\ ~torn /\ halves = 0 => Whole(file[Src])
    /\ ~torn /\ halves = 1 => \E d \in 0 .. Len(file[Src]) : Cover(file[Src], {d})
    /\ ~torn /\ halves <= 1 => ByHand(file[Src]) = authored[Src]
    /\ ~torn /\ halves = 0 /\ ~nested => Attached(file[Src])

\* The markers a quiet command has applied are the first ones.
Applied == Len(Markers) - Len(plan)
Follows ==
    /\ Len(plan) <= Len(Markers)
    /\ \A i \in DOMAIN plan : plan[i] = Markers[Applied + i]

Alone(does) == at \in Running /\ quiet /\ op = does /\ ~torn /\ halves = 0

Progress ==
    /\ at \in Starting /\ quiet => groups = Documented /\ snap = head
    /\ at \in Running /\ quiet => Follows
    /\ at = "done" => plan = << >>
    /\ Alone("write") /\ ~nested => \A j \in 1 .. Applied : Holds(file[Src], Markers[j].id, Markers[j].notes)
    /\ at \in Running \cup {"resolve"} /\ quiet /\ op = "write" /\ Documented # {} => Holds(file[Claude], LogbackId, Documented)
    /\ Alone("remove") => \A j \in 1 .. Applied : \A i \in DOMAIN file[Src] :
                              file[Src][i].is \in Marks => file[Src][i].of # Markers[j].id

\* In a fresh file, from below: what is above the last marker is as it was.
Descending == \A i, j \in DOMAIN Markers : i < j => Markers[i].line > Markers[j].line
Placed ==
    /\ \A j \in 1 .. Applied : \E e \in DOMAIN file[Src] :
          /\ file[Src][e] = EndLine(Markers[j].id) /\ e + 1 \in DOMAIN file[Src] /\ file[Src][e + 1] = Code(Markers[j].id)
    /\ \A i \in DOMAIN head : (\A j \in 1 .. Applied : i < Markers[j].line) => i \in DOMAIN file[Src] /\ file[Src][i] = head[i]
    /\ \A i \in DOMAIN file[Src] : file[Src][i].is \in Marks => \E j \in 1 .. Applied : file[Src][i].of = Markers[j].id
FromBelow ==
    /\ at \in Starting /\ quiet /\ fresh => file[Src] = head
    /\ at \in Starting \cup Running /\ quiet /\ fresh => \A i \in DOMAIN head : head[i].is \in {"code", "blank"}
    /\ Alone("write") /\ fresh /\ Descending => Placed

(***************************************************************************)
(* Numbers in their order.                                                 *)
(***************************************************************************)

\* A set of numbers has a least element, and one with a bound a greatest.
LEMMA LeastIs ==
    ASSUME NEW S \in SUBSET Nat, S # {}
    PROVE  Min(S) \in S /\ \A i \in S : Min(S) <= i
<1> DEFINE R == OpToRel(<, Nat)
<1>1. IsWellFoundedOn(R, Nat)
  BY NatLessThanWellFounded
<1>2. \A x, y \in Nat : <<x, y>> \in R <=> x < y
  BY DEF OpToRel
<1> HIDE DEF R
<1>3. PICK m \in S : \A y \in S : ~ (<<y, m>> \in R)
  BY <1>1, WFMin
<1>4. \A y \in S : m <= y
  <2> TAKE y \in S
  <2>1. ~ (y < m) /\ y \in Nat /\ m \in Nat
    BY <1>2, <1>3
  <2> QED
    BY <2>1
<1> QED
  BY <1>4 DEF Min

LEMMA GreatestIs ==
    ASSUME NEW S \in SUBSET Nat, S # {}, NEW n \in Nat, \A i \in S : i <= n
    PROVE  Max(S) \in S /\ \A i \in S : i <= Max(S)
<1> DEFINE T == {n - i : i \in S}
<1>1. T \in SUBSET Nat /\ T # {}
  <2>1. \A i \in S : n - i \in Nat
    OBVIOUS
  <2> QED
    BY <2>1
<1>2. Min(T) \in T /\ \A j \in T : Min(T) <= j
  <2> HIDE DEF T
  <2> QED
    BY <1>1, LeastIs
<1>3. PICK m \in S : Min(T) = n - m
  BY <1>2
<1>4. \A i \in S : i <= m
  <2> TAKE i \in S
  <2>1. n - m <= n - i /\ i \in Nat /\ m \in Nat
    BY <1>2, <1>3
  <2> QED
    BY <2>1
<1> QED
  BY <1>4 DEF Max

\* Ascending lists a finite set by rank: each number once, in order.
LEMMA AscendingIs ==
    ASSUME NEW S \in SUBSET Nat, IsFiniteSet(S)
    PROVE  /\ Cardinality(S) \in Nat
           /\ \A k \in 1 .. Cardinality(S) :
                  Ascending(S)[k] \in S /\ Cardinality({j \in S : j < Ascending(S)[k]}) = k - 1
           /\ \A i \in S : \E k \in 1 .. Cardinality(S) : Ascending(S)[k] = i
<1> DEFINE n == Cardinality(S)
           Low(i) == {j \in S : j < i}
           rank == [i \in S |-> Cardinality(Low(i)) + 1]
<1>1. n \in Nat
  BY FS_CardinalityType
<1>2. \A i \in S : IsFiniteSet(Low(i)) /\ Cardinality(Low(i)) \in Nat
  <2> TAKE i \in S
  <2>1. Low(i) \in SUBSET S
    OBVIOUS
  <2> QED
    BY <2>1, FS_Subset, FS_CardinalityType
<1>3. ASSUME NEW i \in S, NEW j \in S, i < j
      PROVE  Cardinality(Low(i)) + 1 <= Cardinality(Low(j))
  <2>1. Low(i) \cup {i} \in SUBSET Low(j)
    <3>1. \A l \in Low(i) : l < j
      BY <1>3
    <3> QED
      BY <1>3, <3>1
  <2>2. Cardinality(Low(i) \cup {i}) = Cardinality(Low(i)) + 1
    <3>1. IsFiniteSet(Low(i)) /\ i \notin Low(i)
      BY <1>2
    <3> HIDE DEF Low
    <3> QED
      BY <3>1, FS_AddElement
  <2> QED
    BY <1>2, <2>1, <2>2, FS_Subset
<1>4. \A i \in S : Cardinality(Low(i)) + 1 <= n
  <2> TAKE i \in S
  <2>1. Low(i) \cup {i} \in SUBSET S
    OBVIOUS
  <2>2. Cardinality(Low(i) \cup {i}) = Cardinality(Low(i)) + 1
    <3>1. IsFiniteSet(Low(i)) /\ i \notin Low(i)
      BY <1>2
    <3> HIDE DEF Low
    <3> QED
      BY <3>1, FS_AddElement
  <2> QED
    BY <2>1, <2>2, FS_Subset
<1>5. rank \in Injection(S, 1 .. n)
  <2>1. rank \in [S -> 1 .. n]
    BY <1>1, <1>2, <1>4
  <2>2. \A i, j \in S : rank[i] = rank[j] => i = j
    <3> TAKE i, j \in S
    <3>1. i < j => rank[i] < rank[j]
      BY <1>2, <1>3
    <3>2. j < i => rank[j] < rank[i]
      BY <1>2, <1>3
    <3>3. rank[i] \in Nat /\ rank[j] \in Nat
      BY <1>2
    <3> QED
      BY <3>1, <3>2, <3>3
  <2> QED
    BY <2>1, <2>2 DEF Injection, IsInjective
<1>6. rank \in Surjection(S, 1 .. n)
  <2>1. IsFiniteSet(1 .. n) /\ Cardinality(1 .. n) = n
    BY <1>1, FS_Interval
  <2> QED
    BY <1>5, <2>1, FS_Injection
<1>7. \A k \in 1 .. n : \E i \in S : Cardinality(Low(i)) = k - 1
  <2> TAKE k \in 1 .. n
  <2>1. PICK i \in S : rank[i] = k
    BY <1>6 DEF Surjection
  <2>2. Cardinality(Low(i)) \in Nat /\ rank[i] = Cardinality(Low(i)) + 1
    BY <1>2
  <2>3. Cardinality(Low(i)) = k - 1
    <3> HIDE DEF rank
    <3> QED
      BY <2>1, <2>2
  <2> QED
    BY <2>3
<1>8. \A k \in 1 .. n : Ascending(S)[k] \in S /\ Cardinality(Low(Ascending(S)[k])) = k - 1
  <2> TAKE k \in 1 .. n
  <2>1. Ascending(S)[k] = CHOOSE i \in S : Cardinality(Low(i)) = k - 1
    BY DEF Ascending
  <2> QED
    BY <1>7, <2>1
<1>9. \A i \in S : \E k \in 1 .. n : Ascending(S)[k] = i
  <2> TAKE i \in S
  <2> DEFINE k == Cardinality(Low(i)) + 1
  <2>1. k \in 1 .. n /\ k - 1 = Cardinality(Low(i))
    BY <1>1, <1>2, <1>4
  <2>2. rank[Ascending(S)[k]] = k /\ rank[i] = k /\ Ascending(S)[k] \in S
    BY <1>2, <1>8, <2>1
  <2>3. Ascending(S)[k] = i
    BY <1>5, <2>2 DEF Injection, IsInjective
  <2> QED
    BY <2>1, <2>3
<1> QED
  BY <1>1, <1>8, <1>9

(***************************************************************************)
(* Lines taken out of a file and put into it.                              *)
(***************************************************************************)

LEMMA LinesAre ==
    ASSUME NEW s, IsLines(s)
    PROVE  Len(s) \in Nat /\ DOMAIN s = 1 .. Len(s)
BY LenProperties DEF IsLines

LEMMA LinesOf ==
    ASSUME NEW S, NEW s \in Seq(S)
    PROVE  IsLines(s)
<1>1. s \in Seq(Range(s))
  BY SeqOfRange
<1>2. Range(s) = ToSet(s)
  BY DEF Range, ToSet
<1> QED
  BY <1>1, <1>2 DEF IsLines

\* Where files are compared line by line.
LEMMA SameLines ==
    ASSUME NEW s, NEW t, IsLines(s), IsLines(t), Len(s) = Len(t), \A i \in 1 .. Len(s) : s[i] = t[i]
    PROVE  s = t
<1> DEFINE S == ToSet(s) \cup ToSet(t)
<1>1. s \in Seq(S) /\ t \in Seq(S)
  <2>1. ToSet(s) \subseteq S /\ ToSet(t) \subseteq S
    OBVIOUS
  <2> HIDE DEF S
  <2> QED
    BY <2>1, SeqMonotonic DEF IsLines
<1> HIDE DEF S
<1> QED
  BY <1>1, SeqEqual

Splice(s, b, e, t) == SubSeq(s, 1, b - 1) \o t \o SubSeq(s, e + 1, Len(s))

\* Where a line of the new file comes from: an old one, or one of t.
Old(b, n, j) == j < b \/ j >= b + n
From(b, e, n, j) == IF j < b THEN j ELSE IF j < b + n THEN j - b + 1 ELSE j - n + (e - b + 1)
Out(b, e, i) == i < b \/ i > e

Spliced(r, s, b, e, t) ==
    /\ IsLines(r) /\ IsLines(s) /\ IsLines(t)
    /\ b \in Nat \ {0} /\ e \in Nat /\ b <= e + 1 /\ e <= Len(s)
    /\ Len(r) = Len(s) + Len(t) - (e - b + 1)
    /\ \A i \in 1 .. b - 1 : r[i] = s[i]
    /\ \A k \in 1 .. Len(t) : r[b - 1 + k] = t[k]
    /\ \A i \in e + 1 .. Len(s) : r[i + Len(t) - (e - b + 1)] = s[i]

LEMMA ConcatIs ==
    ASSUME NEW S, NEW u \in Seq(S), NEW v \in Seq(S)
    PROVE  /\ u \o v \in Seq(S) /\ Len(u \o v) = Len(u) + Len(v)
           /\ \A i \in 1 .. Len(u) + Len(v) : (u \o v)[i] = IF i <= Len(u) THEN u[i] ELSE v[i - Len(u)]
BY ConcatProperties

LEMMA SpliceIs ==
    ASSUME NEW s, NEW t, IsLines(s), IsLines(t),
           NEW b \in Nat \ {0}, NEW e \in Nat, b <= e + 1, e <= Len(s)
    PROVE  Spliced(Splice(s, b, e, t), s, b, e, t)
<1> DEFINE S == ToSet(s) \cup ToSet(t)
           top == SubSeq(s, 1, b - 1)
           end == SubSeq(s, e + 1, Len(s))
<1>1. s \in Seq(S) /\ t \in Seq(S)
  <2>1. ToSet(s) \subseteq S /\ ToSet(t) \subseteq S
    OBVIOUS
  <2> HIDE DEF S
  <2> QED
    BY <2>1, SeqMonotonic DEF IsLines
<1> HIDE DEF S
<1>2. Len(s) \in Nat /\ Len(t) \in Nat
  BY LinesAre
<1>3. \A i \in 1 .. Len(s) : s[i] \in S
  BY <1>1, ElementOfSeq
<1>4. /\ top \in Seq(S) /\ Len(top) = b - 1
      /\ \A i \in 1 .. b - 1 : top[i] = s[i]
  <2>1. \A i \in 1 .. b - 1 : s[i] \in S
    BY <1>2, <1>3
  <2>2. /\ top \in Seq(S) /\ Len(top) = IF 1 <= b - 1 THEN b - 1 - 1 + 1 ELSE 0
        /\ \A i \in 1 .. b - 1 - 1 + 1 : top[i] = s[1 + i - 1]
    BY <2>1, SubSeqProperties
  <2> HIDE DEF top
  <2> QED
    BY <2>2
<1>5. /\ end \in Seq(S) /\ Len(end) = Len(s) - e
      /\ \A i \in 1 .. Len(s) - e : end[i] = s[e + i]
  <2>1. \A i \in e + 1 .. Len(s) : s[i] \in S
    BY <1>2, <1>3
  <2>2. /\ end \in Seq(S) /\ Len(end) = IF e + 1 <= Len(s) THEN Len(s) - (e + 1) + 1 ELSE 0
        /\ \A i \in 1 .. Len(s) - (e + 1) + 1 : end[i] = s[e + 1 + i - 1]
    BY <1>2, <2>1, SubSeqProperties
  <2> HIDE DEF end
  <2> QED
    BY <1>2, <2>2
<1>6. Splice(s, b, e, t) = top \o t \o end
  BY DEF Splice
<1> HIDE DEF top, end
<1>7. /\ top \o t \in Seq(S) /\ Len(top \o t) = b - 1 + Len(t)
      /\ \A i \in 1 .. b - 1 + Len(t) : (top \o t)[i] = IF i <= b - 1 THEN top[i] ELSE t[i - (b - 1)]
  <2>1. /\ top \o t \in Seq(S) /\ Len(top \o t) = Len(top) + Len(t)
        /\ \A i \in 1 .. Len(top) + Len(t) : (top \o t)[i] = IF i <= Len(top) THEN top[i] ELSE t[i - Len(top)]
    BY <1>1, <1>4, ConcatIs
  <2>2. Len(top) = b - 1
    BY <1>4
  <2> QED
    BY <2>1, <2>2
<1> DEFINE u == top \o t
           r == u \o end
<1>8. /\ r \in Seq(S) /\ Len(r) = (b - 1 + Len(t)) + (Len(s) - e)
      /\ \A i \in 1 .. (b - 1 + Len(t)) + (Len(s) - e) :
             r[i] = IF i <= b - 1 + Len(t) THEN (top \o t)[i] ELSE end[i - (b - 1 + Len(t))]
  <2>0. u \in Seq(S) /\ end \in Seq(S) /\ Len(u) = b - 1 + Len(t) /\ Len(end) = Len(s) - e
    BY <1>5, <1>7
  <2> HIDE DEF u
  <2>3. u \in Seq(S) /\ end \in Seq(S)
    BY <2>0
  <2>1. /\ r \in Seq(S) /\ Len(r) = Len(u) + Len(end)
        /\ \A i \in 1 .. Len(u) + Len(end) : r[i] = IF i <= Len(u) THEN u[i] ELSE end[i - Len(u)]
    BY <2>3, ConcatIs
  <2>2. \A i \in 1 .. (b - 1 + Len(t)) + (Len(s) - e) :
            r[i] = IF i <= b - 1 + Len(t) THEN u[i] ELSE end[i - (b - 1 + Len(t))]
    BY <2>0, <2>1
  <2> QED
    BY <2>0, <2>1, <2>2 DEF u
<1> HIDE DEF r, u
<1>9. IsLines(r)
  BY <1>8, LinesOf
<1>10. Len(r) = Len(s) + Len(t) - (e - b + 1)
  BY <1>2, <1>8
<1>11. \A i \in 1 .. b - 1 : r[i] = s[i]
  <2> TAKE i \in 1 .. b - 1
  <2>1. i \in 1 .. (b - 1 + Len(t)) + (Len(s) - e) /\ i <= b - 1 + Len(t) /\ i \in 1 .. b - 1 + Len(t)
    BY <1>2
  <2>2. r[i] = (top \o t)[i]
    BY <1>8, <2>1 DEF u
  <2>3. (top \o t)[i] = top[i]
    BY <1>7, <2>1
  <2> QED
    BY <1>4, <2>2, <2>3
<1>12. \A k \in 1 .. Len(t) : r[b - 1 + k] = t[k]
  <2> TAKE k \in 1 .. Len(t)
  <2> DEFINE j == b - 1 + k
  <2>1. /\ j \in 1 .. (b - 1 + Len(t)) + (Len(s) - e) /\ j <= b - 1 + Len(t)
        /\ j \in 1 .. b - 1 + Len(t) /\ ~(j <= b - 1) /\ j - (b - 1) = k
    BY <1>2
  <2> HIDE DEF j
  <2>2. r[j] = (top \o t)[j]
    BY <1>8, <2>1 DEF u
  <2>3. (top \o t)[j] = t[j - (b - 1)]
    BY <1>7, <2>1
  <2> QED
    BY <2>1, <2>2, <2>3 DEF j
<1>13. \A i \in e + 1 .. Len(s) : r[i + Len(t) - (e - b + 1)] = s[i]
  <2> TAKE i \in e + 1 .. Len(s)
  <2> DEFINE j == i + Len(t) - (e - b + 1)
  <2>1. /\ j \in 1 .. (b - 1 + Len(t)) + (Len(s) - e) /\ ~(j <= b - 1 + Len(t))
        /\ j - (b - 1 + Len(t)) = i - e /\ i - e \in 1 .. Len(s) - e /\ e + (i - e) = i
    BY <1>2
  <2> HIDE DEF j
  <2>2. r[j] = end[i - e]
    BY <1>8, <2>1
  <2>3. end[i - e] = s[i]
    BY <1>5, <2>1
  <2> QED
    BY <2>2, <2>3 DEF j
<1> QED
  BY <1>6, <1>9, <1>10, <1>11, <1>12, <1>13 DEF Spliced, r, u

\* Old lines keep their order around the new ones, and all that are out stay.
LEMMA SplicedFrom ==
    ASSUME NEW r, NEW s, NEW t, NEW b, NEW e, Spliced(r, s, b, e, t), NEW n, n = Len(t)
    PROVE  /\ DOMAIN r \subseteq Nat /\ DOMAIN s \subseteq Nat /\ DOMAIN t \subseteq Nat
           /\ \A j \in DOMAIN r : Old(b, n, j) =>
                  From(b, e, n, j) \in DOMAIN s /\ Out(b, e, From(b, e, n, j)) /\ r[j] = s[From(b, e, n, j)]
           /\ \A j \in DOMAIN r : ~Old(b, n, j) => From(b, e, n, j) \in DOMAIN t /\ r[j] = t[From(b, e, n, j)]
           /\ \A i \in DOMAIN s : Out(b, e, i) => \E j \in DOMAIN r : Old(b, n, j) /\ From(b, e, n, j) = i
           /\ \A k \in DOMAIN t : \E j \in DOMAIN r : ~Old(b, n, j) /\ From(b, e, n, j) = k
           /\ \A i, j \in DOMAIN r :
                  (Old(b, n, i) <=> Old(b, n, j)) => (i < j <=> From(b, e, n, i) < From(b, e, n, j))
           /\ \A i, j \in DOMAIN r : Old(b, n, i) /\ ~Old(b, n, j) =>
                  (i < j => From(b, e, n, i) < b) /\ (j < i => From(b, e, n, i) > e)
<1>1. /\ Len(s) \in Nat /\ DOMAIN s = 1 .. Len(s) /\ n \in Nat /\ DOMAIN t = 1 .. n
      /\ DOMAIN r = 1 .. Len(s) + n - (e - b + 1)
      /\ b \in Nat \ {0} /\ e \in Nat /\ b <= e + 1 /\ e <= Len(s)
  BY LinesAre DEF Spliced
<1>2. /\ \A i \in 1 .. b - 1 : r[i] = s[i]
      /\ \A k \in 1 .. n : r[b - 1 + k] = t[k]
      /\ \A i \in e + 1 .. Len(s) : r[i + n - (e - b + 1)] = s[i]
  BY DEF Spliced
<1>3. ASSUME NEW j \in DOMAIN r, j < b
      PROVE  j \in DOMAIN s /\ Out(b, e, j) /\ r[j] = s[j]
  BY <1>1, <1>2, <1>3 DEF Out
<1>4. ASSUME NEW j \in DOMAIN r, j >= b + n
      PROVE  /\ j - n + (e - b + 1) \in DOMAIN s /\ Out(b, e, j - n + (e - b + 1)) /\ r[j] = s[j - n + (e - b + 1)]
             /\ ~(j < b) /\ ~(j < b + n)
  <2> DEFINE i == j - n + (e - b + 1)
  <2>0. j \in Int /\ j <= Len(s) + n - (e - b + 1) /\ j >= b + n
    BY <1>1, <1>4
  <2>1. i \in e + 1 .. Len(s) /\ i + n - (e - b + 1) = j
    <3>1. Len(s) \in Int /\ n \in Int /\ e \in Int /\ b \in Int
      BY <1>1
    <3>2. i \in Int /\ e + 1 <= i /\ i <= Len(s)
      BY <2>0, <3>1
    <3>3. i + n - (e - b + 1) = j
      BY <2>0, <3>1
    <3> HIDE DEF i
    <3> QED
      BY <3>1, <3>2, <3>3
  <2> HIDE DEF i
  <2>2. i \in DOMAIN s /\ Out(b, e, i) /\ r[j] = s[i]
    BY <1>1, <1>2, <2>1 DEF Out
  <2> QED
    BY <1>1, <1>4, <2>2 DEF i
<1>5. \A j \in DOMAIN r : Old(b, n, j) =>
          From(b, e, n, j) \in DOMAIN s /\ Out(b, e, From(b, e, n, j)) /\ r[j] = s[From(b, e, n, j)]
  BY <1>3, <1>4 DEF Old, From
<1>6. \A j \in DOMAIN r : ~Old(b, n, j) => From(b, e, n, j) \in DOMAIN t /\ r[j] = t[From(b, e, n, j)]
  <2> SUFFICES ASSUME NEW j \in DOMAIN r, ~Old(b, n, j)
               PROVE  From(b, e, n, j) \in DOMAIN t /\ r[j] = t[From(b, e, n, j)]
    OBVIOUS
  <2>1. ~(j < b) /\ j < b + n /\ From(b, e, n, j) = j - b + 1
    BY <1>1 DEF Old, From
  <2>2. j - b + 1 \in 1 .. n /\ b - 1 + (j - b + 1) = j
    BY <1>1, <2>1
  <2> QED
    BY <1>1, <1>2, <2>1, <2>2
<1>7. \A i \in DOMAIN s : Out(b, e, i) => \E j \in DOMAIN r : Old(b, n, j) /\ From(b, e, n, j) = i
  <2> SUFFICES ASSUME NEW i \in DOMAIN s, Out(b, e, i)
               PROVE  \E j \in DOMAIN r : Old(b, n, j) /\ From(b, e, n, j) = i
    OBVIOUS
  <2>1. CASE i < b
    BY <1>1, <2>1 DEF Old, From
  <2>2. CASE i > e
    <3>1. i + n - (e - b + 1) \in DOMAIN r
      BY <1>1, <2>2
    <3>2. Old(b, n, i + n - (e - b + 1)) /\ From(b, e, n, i + n - (e - b + 1)) = i
      BY <1>1, <2>2 DEF Old, From
    <3> QED
      BY <3>1, <3>2
  <2> QED
    BY <2>1, <2>2 DEF Out
<1>8. \A k \in DOMAIN t : \E j \in DOMAIN r : ~Old(b, n, j) /\ From(b, e, n, j) = k
  <2> TAKE k \in DOMAIN t
  <2>1. b - 1 + k \in DOMAIN r /\ ~Old(b, n, b - 1 + k) /\ From(b, e, n, b - 1 + k) = k
    BY <1>1 DEF Old, From
  <2> QED
    BY <2>1
<1>9. \A i, j \in DOMAIN r :
          (Old(b, n, i) <=> Old(b, n, j)) => (i < j <=> From(b, e, n, i) < From(b, e, n, j))
  BY <1>1 DEF Old, From
<1>10. \A i, j \in DOMAIN r : Old(b, n, i) /\ ~Old(b, n, j) =>
           (i < j => From(b, e, n, i) < b) /\ (j < i => From(b, e, n, i) > e)
  BY <1>1 DEF Old, From
<1> QED
  BY <1>1, <1>5, <1>6, <1>7, <1>8, <1>9, <1>10

(***************************************************************************)
(* The lines of code of a file.                                            *)
(***************************************************************************)

LEMMA CodesAre ==
    ASSUME NEW s, IsLines(s)
    PROVE  Codes(s) \in SUBSET Nat /\ IsFiniteSet(Codes(s))
<1>1. DOMAIN s = 1 .. Len(s) /\ Len(s) \in Nat
  BY LinesAre
<1>2. IsFiniteSet(1 .. Len(s))
  BY <1>1, FS_Interval
<1>3. Codes(s) \in SUBSET (1 .. Len(s))
  BY <1>1 DEF Codes
<1> QED
  BY <1>1, <1>2, <1>3, FS_Subset

\* Files whose lines of code are the same and in the same order.
LEMMA ByHandSame ==
    ASSUME NEW r, NEW s, IsLines(r), IsLines(s), NEW g \in [Codes(r) -> Codes(s)],
           \A i \in Codes(s) : \E j \in Codes(r) : g[j] = i,
           \A i, j \in Codes(r) : i < j <=> g[i] < g[j],
           \A j \in Codes(r) : r[j] = s[g[j]]
    PROVE  ByHand(r) = ByHand(s)
<1> DEFINE C == Codes(r)
           D == Codes(s)
<1>1. C \in SUBSET Nat /\ IsFiniteSet(C) /\ D \in SUBSET Nat /\ IsFiniteSet(D)
  BY CodesAre
<1>0. /\ g \in [C -> D] /\ \A i \in D : \E j \in C : g[j] = i
      /\ \A i, j \in C : i < j <=> g[i] < g[j]
      /\ \A j \in C : r[j] = s[g[j]]
  OBVIOUS
<1>a. ByHand(r) = [k \in 1 .. Cardinality(C) |-> r[Ascending(C)[k]]] /\ ByHand(s) = [k \in 1 .. Cardinality(D) |-> s[Ascending(D)[k]]]
  BY DEF ByHand
<1> HIDE DEF C, D
<1>2. \A i, j \in C : g[i] = g[j] => i = j
  <2> TAKE i, j \in C
  <2>1. i \in Nat /\ j \in Nat /\ g[i] \in Nat /\ g[j] \in Nat
    BY <1>0, <1>1
  <2> QED
    BY <1>0, <2>1
<1>3. Cardinality(C) = Cardinality(D)
  <2>1. g \in Bijection(C, D)
    BY <1>0, <1>2 DEF Bijection, Injection, Surjection, IsInjective
  <2>2. ExistsBijection(C, D)
    BY <2>1 DEF ExistsBijection
  <2> QED
    BY <1>1, <2>2, FS_Bijection
<1>4. ASSUME NEW x \in C
      PROVE  Cardinality({j \in C : j < x}) = Cardinality({i \in D : i < g[x]})
  <2> DEFINE L == {j \in C : j < x}
             M == {i \in D : i < g[x]}
             h == [j \in L |-> g[j]]
  <2>1. h \in [L -> M]
    BY <1>0
  <2>2. \A i, j \in L : h[i] = h[j] => i = j
    BY <1>2
  <2>3. \A i \in M : \E j \in L : h[j] = i
    <3> TAKE i \in M
    <3>1. PICK j \in C : g[j] = i
      BY <1>0
    <3>2. j \in L
      BY <1>0, <3>1
    <3> QED
      BY <3>1, <3>2
  <2>4. IsFiniteSet(L)
    <3>1. L \in SUBSET C
      OBVIOUS
    <3> HIDE DEF L
    <3> QED
      BY <1>1, <3>1, FS_Subset
  <2> HIDE DEF L, M, h
  <2>5. h \in Bijection(L, M)
    BY <2>1, <2>2, <2>3 DEF Bijection, Injection, Surjection, IsInjective
  <2>6. ExistsBijection(L, M)
    BY <2>5 DEF ExistsBijection
  <2>7. Cardinality(L) = Cardinality(M)
    BY <2>4, <2>6, FS_Bijection
  <2> QED
    BY <2>7 DEF L, M
<1>5. ASSUME NEW k \in 1 .. Cardinality(C)
      PROVE  r[Ascending(C)[k]] = s[Ascending(D)[k]]
  <2> DEFINE x == Ascending(C)[k]
  <2>1. x \in C /\ Cardinality({j \in C : j < x}) = k - 1
    BY <1>1, AscendingIs
  <2> HIDE DEF x
  <2>2. g[x] \in D /\ Cardinality({i \in D : i < g[x]}) = k - 1
    BY <1>0, <1>4, <2>1
  <2>3. PICK l \in 1 .. Cardinality(D) : Ascending(D)[l] = g[x]
    BY <1>1, <2>2, AscendingIs
  <2>4. Cardinality({i \in D : i < g[x]}) = l - 1
    BY <1>1, <2>3, AscendingIs
  <2>5. l = k
    <3>1. Cardinality(D) \in Nat
      BY <1>1, AscendingIs
    <3> QED
      BY <1>3, <2>2, <2>4, <3>1
  <2>6. r[x] = s[g[x]]
    BY <1>0, <2>1
  <2> QED
    BY <2>3, <2>5, <2>6 DEF x
<1> QED
  BY <1>3, <1>5, <1>a

\* What goes and what comes is no code: every line of code stays, in its order.
LEMMA ByHandSpliced ==
    ASSUME NEW r, NEW s, NEW t, NEW b, NEW e, Spliced(r, s, b, e, t),
           \A i \in DOMAIN s : ~Out(b, e, i) => s[i].is # "code",
           \A k \in DOMAIN t : t[k].is # "code"
    PROVE  ByHand(r) = ByHand(s)
<1> DEFINE n == Len(t)
           O(j) == Old(b, n, j)
           F(j) == From(b, e, n, j)
<1>0. IsLines(r) /\ IsLines(s)
  BY DEF Spliced
<1>1. /\ \A j \in DOMAIN r : O(j) => F(j) \in DOMAIN s /\ r[j] = s[F(j)]
      /\ \A j \in DOMAIN r : ~O(j) => F(j) \in DOMAIN t /\ r[j] = t[F(j)]
      /\ \A i \in DOMAIN s : Out(b, e, i) => \E j \in DOMAIN r : O(j) /\ F(j) = i
      /\ \A i, j \in DOMAIN r : (O(i) <=> O(j)) => (i < j <=> F(i) < F(j))
  BY SplicedFrom
<1> HIDE DEF n, O, F
<1> DEFINE g == [j \in Codes(r) |-> F(j)]
<1>2. \A j \in Codes(r) : j \in DOMAIN r /\ O(j) /\ F(j) \in Codes(s) /\ r[j] = s[F(j)]
  BY <1>1 DEF Codes
<1>3. g \in [Codes(r) -> Codes(s)]
  BY <1>2
<1>4. \A i \in Codes(s) : \E j \in Codes(r) : g[j] = i
  <2> TAKE i \in Codes(s)
  <2>1. PICK j \in DOMAIN r : O(j) /\ F(j) = i
    BY <1>1 DEF Codes
  <2>2. j \in Codes(r)
    BY <1>1, <2>1 DEF Codes
  <2> QED
    BY <2>1, <2>2
<1>5. \A i, j \in Codes(r) : i < j <=> g[i] < g[j]
  BY <1>1, <1>2
<1>6. \A j \in Codes(r) : r[j] = s[g[j]]
  BY <1>2
<1> HIDE DEF g
<1> QED
  BY <1>0, <1>3, <1>4, <1>5, <1>6, ByHandSame

\* Every line is an old one or a new one.
LEMMA SplicedLines ==
    ASSUME NEW r, NEW s, NEW t, NEW b, NEW e, Spliced(r, s, b, e, t)
    PROVE  \A j \in DOMAIN r : (\E i \in DOMAIN s : r[j] = s[i]) \/ (\E k \in DOMAIN t : r[j] = t[k])
<1> DEFINE n == Len(t)
<1>1. /\ \A j \in DOMAIN r : Old(b, n, j) => From(b, e, n, j) \in DOMAIN s /\ r[j] = s[From(b, e, n, j)]
      /\ \A j \in DOMAIN r : ~Old(b, n, j) => From(b, e, n, j) \in DOMAIN t /\ r[j] = t[From(b, e, n, j)]
  BY SplicedFrom
<1> QED
  BY <1>1

(***************************************************************************)
(* Blocks that stay whole.                                                 *)
(***************************************************************************)

\* No block that stands is cut by taking the lines from b to e.
Closed(s, X, b, e) == \A c, f \in DOMAIN s \ X : Spans(s, c, f) => (Out(b, e, c) <=> Out(b, e, f))

\* The blocks of t are of other symbols than those that stay.
Apart(s, X, b, e, t) ==
    \A i \in DOMAIN s \ X, k \in DOMAIN t :
        Out(b, e, i) /\ s[i].is \in {"begin", "end"} /\ t[k].is \in {"begin", "end"} => s[i].of # t[k].of

\* What comes is of blocks, or stands in none.
Outside(s, X, b, e, t) ==
    \/ \A k \in DOMAIN t : t[k].is \in Marks
    \/ \A c, f \in DOMAIN s \ X : Spans(s, c, f) => ~(c < b /\ e < f)

\* Where the lines X are by then.
Left(r, b, e, n, X) == {j \in DOMAIN r : Old(b, n, j) /\ From(b, e, n, j) \in X}

LEMMA PlainIs ==
    ASSUME NEW s, Plain(s)
    PROVE  Whole(s) /\ Cover(s, {}) /\ Attached(s)
BY DEF Plain, Marks, Whole, Cover, Attached, Bare, Spans

\* A block that stands and is not cut stands where its lines are by then.
LEMMA SpannedSpliced ==
    ASSUME NEW r, NEW s, NEW t, NEW b, NEW e, Spliced(r, s, b, e, t), NEW X, Closed(s, X, b, e), NEW n, n = Len(t),
           NEW i \in DOMAIN r,
           Old(b, n, i) => Spanned(s, X, From(b, e, n, i)),
           ~Old(b, n, i) => Spanned(t, {}, From(b, e, n, i))
    PROVE  Spanned(r, Left(r, b, e, n, X), i)
<1> DEFINE O(j) == Old(b, n, j)
           F(j) == From(b, e, n, j)
           Y == Left(r, b, e, n, X)
<1>0. b \in Nat /\ e \in Nat /\ b <= e + 1
  BY DEF Spliced
<1>1. /\ DOMAIN r \subseteq Nat /\ DOMAIN s \subseteq Nat /\ DOMAIN t \subseteq Nat
      /\ \A j \in DOMAIN r : O(j) => F(j) \in DOMAIN s /\ Out(b, e, F(j)) /\ r[j] = s[F(j)]
      /\ \A j \in DOMAIN r : ~O(j) => F(j) \in DOMAIN t /\ r[j] = t[F(j)]
      /\ \A x \in DOMAIN s : Out(b, e, x) => \E j \in DOMAIN r : O(j) /\ F(j) = x
      /\ \A k \in DOMAIN t : \E j \in DOMAIN r : ~O(j) /\ F(j) = k
      /\ \A x, j \in DOMAIN r : (O(x) <=> O(j)) => (x < j <=> F(x) < F(j))
  BY SplicedFrom
<1>2. \A j \in DOMAIN r : j \in Y <=> O(j) /\ F(j) \in X
  BY DEF Left
<1>3. (O(i) => Spanned(s, X, F(i))) /\ (~O(i) => Spanned(t, {}, F(i)))
  OBVIOUS
<1> HIDE DEF O, F, Y
<1>4. CASE O(i)
  <2>1. F(i) \in DOMAIN s /\ Out(b, e, F(i)) /\ r[i] = s[F(i)]
    BY <1>1, <1>4
  <2>2. PICK c, f \in DOMAIN s \ X : Spans(s, c, f) /\ s[c].of = s[F(i)].of /\ c <= F(i) /\ F(i) <= f
    BY <1>3, <1>4 DEF Spanned
  <2>3. Out(b, e, c) /\ Out(b, e, f)
    <3>1. Out(b, e, c) <=> Out(b, e, f)
      BY <2>2 DEF Closed
    <3>2. ~(~Out(b, e, c) /\ ~Out(b, e, f))
      <4>1. c \in Nat /\ f \in Nat /\ F(i) \in Nat
        BY <1>1, <2>1
      <4> QED
        BY <1>0, <2>1, <2>2, <4>1 DEF Out
    <3> QED
      BY <3>1, <3>2
  <2>4. PICK x \in DOMAIN r : O(x) /\ F(x) = c
    BY <1>1, <2>3
  <2>5. PICK y \in DOMAIN r : O(y) /\ F(y) = f
    BY <1>1, <2>3
  <2>6. x <= i /\ i <= y /\ x < y
    <3>1. c \in Nat /\ f \in Nat /\ F(i) \in Nat /\ x \in Nat /\ y \in Nat /\ i \in Nat
      BY <1>1, <2>1
    <3>2. /\ F(x) <= F(i) /\ F(i) <= F(y) /\ F(x) < F(y)
          /\ i < x => F(i) < F(x)
          /\ y < i => F(y) < F(i)
          /\ x < y <=> F(x) < F(y)
      BY <1>1, <1>4, <2>2, <2>4, <2>5 DEF Spans
    <3> QED
      BY <2>4, <2>5, <3>1, <3>2
  <2>7. r[x] = s[c] /\ r[y] = s[f] /\ x \notin Y /\ y \notin Y
    BY <1>1, <1>2, <2>2, <2>4, <2>5
  <2> QED
    BY <2>1, <2>2, <2>6, <2>7 DEF Spans, Spanned, Y
<1>5. CASE ~O(i)
  <2>1. F(i) \in DOMAIN t /\ r[i] = t[F(i)]
    BY <1>1, <1>5
  <2>2. PICK c, f \in DOMAIN t : Spans(t, c, f) /\ t[c].of = t[F(i)].of /\ c <= F(i) /\ F(i) <= f
    BY <1>3, <1>5 DEF Spanned
  <2>4. PICK x \in DOMAIN r : ~O(x) /\ F(x) = c
    BY <1>1, <2>2
  <2>5. PICK y \in DOMAIN r : ~O(y) /\ F(y) = f
    BY <1>1, <2>2
  <2>6. x <= i /\ i <= y /\ x < y
    <3>1. c \in Nat /\ f \in Nat /\ F(i) \in Nat /\ x \in Nat /\ y \in Nat /\ i \in Nat
      BY <1>1, <2>1
    <3>2. /\ F(x) <= F(i) /\ F(i) <= F(y) /\ F(x) < F(y)
          /\ i < x => F(i) < F(x)
          /\ y < i => F(y) < F(i)
          /\ x < y <=> F(x) < F(y)
      BY <1>1, <1>5, <2>2, <2>4, <2>5 DEF Spans
    <3> QED
      BY <2>4, <2>5, <3>1, <3>2
  <2>7. r[x] = t[c] /\ r[y] = t[f] /\ x \notin Y /\ y \notin Y
    BY <1>1, <1>2, <2>4, <2>5
  <2> QED
    BY <2>1, <2>2, <2>6, <2>7 DEF Spans, Spanned, Y
<1> QED
  BY <1>4, <1>5

LEMMA CoverSpliced ==
    ASSUME NEW r, NEW s, NEW t, NEW b, NEW e, Spliced(r, s, b, e, t), NEW X, Cover(s, X), Cover(t, {}),
           Closed(s, X, b, e), Apart(s, X, b, e, t), Outside(s, X, b, e, t)
    PROVE  Cover(r, Left(r, b, e, Len(t), X))
<1> DEFINE n == Len(t)
           O(j) == Old(b, n, j)
           F(j) == From(b, e, n, j)
           Y == Left(r, b, e, n, X)
<1>0. b \in Nat /\ e \in Nat /\ b <= e + 1
  BY DEF Spliced
<1>1. /\ DOMAIN r \subseteq Nat /\ DOMAIN s \subseteq Nat /\ DOMAIN t \subseteq Nat
      /\ \A j \in DOMAIN r : O(j) => F(j) \in DOMAIN s /\ Out(b, e, F(j)) /\ r[j] = s[F(j)]
      /\ \A j \in DOMAIN r : ~O(j) => F(j) \in DOMAIN t /\ r[j] = t[F(j)]
      /\ \A i \in DOMAIN s : Out(b, e, i) => \E j \in DOMAIN r : O(j) /\ F(j) = i
      /\ \A k \in DOMAIN t : \E j \in DOMAIN r : ~O(j) /\ F(j) = k
      /\ \A i, j \in DOMAIN r : (O(i) <=> O(j)) => (i < j <=> F(i) < F(j))
      /\ \A i, j \in DOMAIN r : O(i) /\ ~O(j) => (i < j => F(i) < b) /\ (j < i => F(i) > e)
  BY SplicedFrom
<1>a. \A j \in DOMAIN r : j \in Y <=> O(j) /\ F(j) \in X
  BY DEF Left
<1> HIDE DEF n, O, F, Y
<1>b. \A j \in DOMAIN r \ Y : (O(j) => F(j) \in DOMAIN s \ X) /\ (~O(j) => F(j) \in DOMAIN t \ {})
  BY <1>1, <1>a
<1>2. \A i, j \in DOMAIN r \ Y : r[i].is \in {"begin", "end"} /\ r[j].is \in {"begin", "end"} /\ r[i].of = r[j].of => (O(i) <=> O(j))
  BY <1>1, <1>b DEF Apart
<1>3. \A i, j \in DOMAIN r : (O(i) <=> O(j)) /\ F(i) = F(j) => i = j
  <2> TAKE i, j \in DOMAIN r
  <2> HAVE (O(i) <=> O(j)) /\ F(i) = F(j)
  <2>1. F(i) \in Nat /\ i \in Nat /\ j \in Nat
    BY <1>1
  <2> QED
    BY <1>1, <2>1
\* A new line between two old ones is where lines were taken; no old one is between new ones.
<1>4. \A c, i, f \in DOMAIN r : O(c) /\ O(f) /\ ~O(i) /\ c < i /\ i < f => F(c) < b /\ e < F(f)
  BY <1>1
<1>5. \A c, i, f \in DOMAIN r : c < i /\ i < f /\ ~O(c) /\ ~O(f) => ~O(i)
  <2> TAKE c, i, f \in DOMAIN r
  <2> HAVE c < i /\ i < f /\ ~O(c) /\ ~O(f)
  <2> SUFFICES ASSUME O(i)
               PROVE  FALSE
    OBVIOUS
  <2>1. F(i) < b /\ F(i) > e /\ F(i) \in Nat
    BY <1>1
  <2> QED
    BY <1>0, <2>1
<1>6. \A c, f \in DOMAIN r \ Y : Spans(r, c, f) /\ O(c) => O(f) /\ Spans(s, F(c), F(f)) /\ F(c) \in DOMAIN s \ X /\ F(f) \in DOMAIN s \ X
  <2> TAKE c, f \in DOMAIN r \ Y
  <2> HAVE Spans(r, c, f) /\ O(c)
  <2>1. O(f)
    BY <1>2 DEF Spans
  <2>2. r[c] = s[F(c)] /\ r[f] = s[F(f)] /\ F(c) < F(f)
    BY <1>1, <2>1 DEF Spans
  <2> QED
    BY <1>b, <2>1, <2>2 DEF Spans
<1>7. \A c, f \in DOMAIN r \ Y : Spans(r, c, f) /\ ~O(c) => ~O(f) /\ Spans(t, F(c), F(f)) /\ F(c) \in DOMAIN t \ {} /\ F(f) \in DOMAIN t \ {}
  <2> TAKE c, f \in DOMAIN r \ Y
  <2> HAVE Spans(r, c, f) /\ ~O(c)
  <2>1. ~O(f)
    BY <1>2 DEF Spans
  <2>2. r[c] = t[F(c)] /\ r[f] = t[F(f)] /\ F(c) < F(f)
    BY <1>1, <2>1 DEF Spans
  <2> QED
    BY <1>b, <2>1, <2>2 DEF Spans
<1>8. Bare(r)
  BY <1>1 DEF Bare, Cover
<1>9. \A i, j \in DOMAIN r \ Y : r[i].is \in {"begin", "end"} /\ r[j].is = r[i].is /\ r[j].of = r[i].of => i = j
  <2> TAKE i, j \in DOMAIN r \ Y
  <2> HAVE r[i].is \in {"begin", "end"} /\ r[j].is = r[i].is /\ r[j].of = r[i].of
  <2>1. O(i) <=> O(j)
    BY <1>2
  <2>2. F(i) = F(j)
    <3>1. CASE O(i)
      BY <1>1, <1>b, <2>1, <3>1 DEF Cover
    <3>2. CASE ~O(i)
      BY <1>1, <1>b, <2>1, <3>2 DEF Cover
    <3> QED
      BY <3>1, <3>2
  <2> QED
    BY <1>3, <2>1, <2>2
<1>10. ASSUME NEW i \in DOMAIN r \ Y, r[i].is \in {"begin", "end"}
       PROVE  Spanned(r, Y, i)
  <2>1. O(i) => Spanned(s, X, F(i))
    BY <1>1, <1>b, <1>10 DEF Cover
  <2>2. ~O(i) => Spanned(t, {}, F(i))
    BY <1>1, <1>b, <1>10 DEF Cover
  <2> QED
    BY <2>1, <2>2, SpannedSpliced DEF Y, O, F, n
<1>11. ASSUME NEW c \in DOMAIN r \ Y, NEW f \in DOMAIN r \ Y, Spans(r, c, f), NEW i \in DOMAIN r, c <= i, i <= f
       PROVE  r[i].is \in Marks /\ (i \in Y => r[i].of # r[c].of)
  <2>0. c \in Nat /\ f \in Nat /\ i \in Nat /\ c < f
    BY <1>1, <1>11 DEF Spans
  <2>1. CASE i = c \/ i = f
    BY <1>11, <2>1 DEF Spans, Marks
  <2>2. CASE c < i /\ i < f
    <3>1. CASE O(c) /\ O(i)
      <4>1. Spans(s, F(c), F(f)) /\ O(f) /\ F(c) \in DOMAIN s \ X /\ F(f) \in DOMAIN s \ X
        BY <1>6, <1>11, <3>1
      <4>2. F(c) < F(i) /\ F(i) < F(f) /\ F(i) \in DOMAIN s /\ r[i] = s[F(i)]
        BY <1>1, <2>2, <3>1, <4>1
      <4>3. F(c) <= F(i) /\ F(i) <= F(f)
        BY <1>1, <4>1, <4>2
      <4>4. s[F(i)].is \in Marks /\ (F(i) \in X => s[F(i)].of # s[F(c)].of)
        BY <4>1, <4>2, <4>3 DEF Cover
      <4>5. r[c] = s[F(c)]
        BY <1>1, <3>1
      <4> QED
        BY <1>a, <3>1, <4>2, <4>4, <4>5
    <3>2. CASE O(c) /\ ~O(i)
      <4>1. Spans(s, F(c), F(f)) /\ O(f) /\ F(c) \in DOMAIN s \ X /\ F(f) \in DOMAIN s \ X
        BY <1>6, <1>11, <3>2
      <4>2. F(c) < b /\ e < F(f)
        BY <1>4, <2>2, <3>2, <4>1
      <4> QED
        BY <1>1, <1>a, <3>2, <4>1, <4>2 DEF Outside
    <3>3. CASE ~O(c)
      <4>1. Spans(t, F(c), F(f)) /\ ~O(f) /\ F(c) \in DOMAIN t \ {} /\ F(f) \in DOMAIN t \ {}
        BY <1>7, <1>11, <3>3
      <4>2. ~O(i)
        BY <1>5, <2>2, <3>3, <4>1
      <4>3. F(c) < F(i) /\ F(i) < F(f) /\ F(i) \in DOMAIN t /\ r[i] = t[F(i)]
        BY <1>1, <2>2, <3>3, <4>1, <4>2
      <4>4. F(c) <= F(i) /\ F(i) <= F(f)
        BY <1>1, <4>1, <4>3
      <4> QED
        BY <1>a, <4>1, <4>2, <4>3, <4>4 DEF Cover
    <3> QED
      BY <3>1, <3>2, <3>3
  <2> QED
    BY <1>11, <2>0, <2>1, <2>2
<1>12. ASSUME NEW c \in DOMAIN r \ Y, NEW f \in DOMAIN r \ Y, NEW x \in DOMAIN r \ Y, NEW y \in DOMAIN r \ Y,
              Spans(r, c, f), Spans(r, x, y), c < x, x < f
       PROVE  y < f
  <2>1. CASE O(c) /\ O(x)
    <3>1. /\ Spans(s, F(c), F(f)) /\ O(f) /\ F(c) \in DOMAIN s \ X /\ F(f) \in DOMAIN s \ X
          /\ Spans(s, F(x), F(y)) /\ O(y) /\ F(x) \in DOMAIN s \ X /\ F(y) \in DOMAIN s \ X
      BY <1>6, <1>12, <2>1
    <3>2. F(c) < F(x) /\ F(x) < F(f)
      BY <1>1, <1>12, <2>1, <3>1
    <3>3. F(y) < F(f)
      BY <3>1, <3>2 DEF Cover
    <3> QED
      BY <1>1, <3>1, <3>3
  <2>2. CASE O(c) /\ ~O(x)
    <3>1. O(f) /\ ~O(y)
      BY <1>6, <1>7, <1>12, <2>2
    <3>2. F(f) > e /\ F(f) \in Nat
      BY <1>1, <1>12, <2>2, <3>1
    <3>3. f < y => F(f) < b
      BY <1>1, <3>1
    <3>4. f # y /\ f \in Nat /\ y \in Nat
      BY <1>1, <3>1
    <3> QED
      BY <1>0, <3>2, <3>3, <3>4
  <2>3. CASE ~O(c) /\ O(x)
    BY <1>5, <1>7, <1>12, <2>3
  <2>4. CASE ~O(c) /\ ~O(x)
    <3>1. /\ Spans(t, F(c), F(f)) /\ ~O(f) /\ F(c) \in DOMAIN t \ {} /\ F(f) \in DOMAIN t \ {}
          /\ Spans(t, F(x), F(y)) /\ ~O(y) /\ F(x) \in DOMAIN t \ {} /\ F(y) \in DOMAIN t \ {}
      BY <1>7, <1>12, <2>4
    <3>2. F(c) < F(x) /\ F(x) < F(f)
      BY <1>1, <1>12, <2>4, <3>1
    <3>3. F(y) < F(f)
      BY <3>1, <3>2 DEF Cover
    <3> QED
      BY <1>1, <3>1, <3>3
  <2> QED
    BY <2>1, <2>2, <2>3, <2>4
<1> QED
  BY <1>8, <1>9, <1>10, <1>11, <1>12 DEF Cover, Y, n

LEMMA WholeSpliced ==
    ASSUME NEW r, NEW s, NEW t, NEW b, NEW e, Spliced(r, s, b, e, t), Whole(s), Whole(t),
           Closed(s, {}, b, e), Apart(s, {}, b, e, t), Outside(s, {}, b, e, t)
    PROVE  Whole(r)
<1> DEFINE n == Len(t)
           O(j) == Old(b, n, j)
           F(j) == From(b, e, n, j)
<1>1. Left(r, b, e, n, {}) = {}
  BY DEF Left
<1>2. Cover(r, {})
  BY <1>1, CoverSpliced DEF Whole
<1>3. /\ \A j \in DOMAIN r : O(j) => F(j) \in DOMAIN s /\ r[j] = s[F(j)]
      /\ \A j \in DOMAIN r : ~O(j) => F(j) \in DOMAIN t /\ r[j] = t[F(j)]
  BY SplicedFrom
<1>4. ASSUME NEW i \in DOMAIN r, r[i].is \in Marks
      PROVE  Spanned(r, {}, i)
  <2>1. (O(i) => Spanned(s, {}, F(i))) /\ (~O(i) => Spanned(t, {}, F(i)))
    BY <1>3, <1>4 DEF Whole
  <2> QED
    BY <1>1, <2>1, SpannedSpliced
<1> QED
  BY <1>2, <1>4 DEF Whole

\* Where one half at most was left outside of the lines taken, one is left at most.
LEMMA OneLeft ==
    ASSUME NEW r, NEW s, NEW t, NEW b, NEW e, Spliced(r, s, b, e, t), NEW X, NEW d,
           \A i \in DOMAIN s : i \in X /\ Out(b, e, i) => i = d,
           Cover(r, Left(r, b, e, Len(t), X))
    PROVE  \E x \in 0 .. Len(r) : Cover(r, {x})
<1> DEFINE n == Len(t)
           O(j) == Old(b, n, j)
           F(j) == From(b, e, n, j)
           Y == Left(r, b, e, n, X)
<1>0. Len(r) \in Nat /\ DOMAIN r = 1 .. Len(r)
  BY LinesAre DEF Spliced
<1>1. /\ \A j \in DOMAIN r : O(j) => F(j) \in DOMAIN s /\ Out(b, e, F(j))
      /\ DOMAIN s \subseteq Nat
      /\ \A i, j \in DOMAIN r : (O(i) <=> O(j)) => (i < j <=> F(i) < F(j))
  BY SplicedFrom
<1>2. \A j \in DOMAIN r : j \in Y <=> O(j) /\ F(j) \in X
  BY DEF Left
<1>3. Y \subseteq DOMAIN r /\ Cover(r, Y)
  BY DEF Left
<1> HIDE DEF n, O, F, Y
<1>4. \A i, j \in Y : i = j
  <2> TAKE i, j \in Y
  <2>1. i \in DOMAIN r /\ j \in DOMAIN r /\ O(i) /\ O(j) /\ F(i) = d /\ F(j) = d /\ d \in Nat
    BY <1>1, <1>2, <1>3
  <2>2. ~(i < j) /\ ~(j < i)
    BY <1>1, <2>1
  <2> QED
    BY <1>0, <2>1, <2>2
<1>5. CASE Y = {}
  <2>1. DOMAIN r \ {0} = DOMAIN r \ Y /\ \A i \in DOMAIN r : i \in {0} <=> i \in Y
    BY <1>0, <1>5
  <2>2. Cover(r, {0})
    BY <1>3, <2>1 DEF Cover, Spanned
  <2> QED
    BY <1>0, <2>2
<1>6. CASE Y # {}
  <2>1. PICK x \in Y : Y = {x}
    BY <1>4, <1>6
  <2>2. Cover(r, {x})
    BY <1>3, <2>1
  <2>3. x \in 0 .. Len(r)
    BY <1>0, <1>3
  <2> QED
    BY <2>2, <2>3
<1> QED
  BY <1>5, <1>6

\* Every block is at a distance from the lines taken.
Clear(s, b, e) ==
    \A i \in DOMAIN s :
        Out(b, e, i) => /\ s[i].is = "begin" => i + 2 < b \/ i > e
                        /\ s[i].is = "end" => i < b \/ i - 2 > e

LEMMA AttachedSpliced ==
    ASSUME NEW r, NEW s, NEW t, NEW b, NEW e, Spliced(r, s, b, e, t),
           Attached(s), Attached(t), Clear(s, b, e)
    PROVE  Attached(r)
<1> DEFINE n == Len(t)
           O(j) == Old(b, n, j)
           F(j) == From(b, e, n, j)
<1>0. /\ b \in Nat \ {0} /\ e \in Nat /\ b <= e + 1 /\ e <= Len(s) /\ n \in Nat /\ Len(s) \in Nat /\ Len(r) = Len(s) + n - (e - b + 1)
      /\ DOMAIN r = 1 .. Len(r) /\ DOMAIN s = 1 .. Len(s) /\ DOMAIN t = 1 .. n /\ Len(r) \in Nat
  BY LinesAre DEF Spliced
<1>1. /\ \A j \in DOMAIN r : O(j) => F(j) \in DOMAIN s /\ Out(b, e, F(j)) /\ r[j] = s[F(j)]
      /\ \A j \in DOMAIN r : ~O(j) => F(j) \in DOMAIN t /\ r[j] = t[F(j)]
      /\ \A i \in DOMAIN s : Out(b, e, i) => \E j \in DOMAIN r : O(j) /\ F(j) = i
  BY SplicedFrom
<1>2. Bare(r)
  <2> HIDE DEF O, F
  <2> QED
    BY <1>1 DEF Bare, Attached
<1>a. \A j \in DOMAIN r : F(j) \in Int
  BY <1>0 DEF From
<1>b. ASSUME NEW j \in DOMAIN r, NEW k \in Int
      PROVE  /\ /\ O(j) /\ 1 <= F(j) + k /\ F(j) + k <= Len(s)
                /\ \/ k > 0 /\ (F(j) + k < b \/ F(j) > e)
                   \/ k < 0 /\ (F(j) < b \/ F(j) + k > e)
                => j + k \in 1 .. Len(r) /\ O(j + k) /\ F(j + k) = F(j) + k
             /\ ~O(j) /\ 1 <= F(j) + k /\ F(j) + k <= n
                => j + k \in 1 .. Len(r) /\ ~O(j + k) /\ F(j + k) = F(j) + k
  <2>0. /\ b \in Int /\ e \in Int /\ n \in Int /\ Len(s) \in Int /\ Len(r) \in Int /\ j \in Int /\ n >= 0
        /\ b >= 1 /\ b <= e + 1 /\ e <= Len(s) /\ Len(r) = Len(s) + n - (e - b + 1) /\ 1 <= j /\ j <= Len(r)
    BY <1>0
  <2> HIDE DEF n
  <2>1. CASE j < b
    <3>1. O(j) /\ F(j) = j
      BY <2>1 DEF Old, From
    <3>2. j + k < b => O(j + k) /\ F(j + k) = j + k
      BY DEF Old, From
    <3> HIDE DEF O, F
    <3> QED
      BY <2>0, <2>1, <3>1, <3>2
  <2>2. CASE j >= b + n
    <3>1. O(j) /\ F(j) = j - n + (e - b + 1)
      BY <2>0, <2>2 DEF Old, From
    <3>2. j + k >= b + n => O(j + k) /\ F(j + k) = j + k - n + (e - b + 1)
      BY <2>0 DEF Old, From
    <3> HIDE DEF O, F
    <3>3. F(j) \in Int /\ F(j) > e
      BY <2>0, <2>2, <3>1
    <3>4. F(j) + k > e => j + k >= b + n
      BY <2>0, <3>1
    <3>5. j + k >= b + n => F(j + k) = F(j) + k
      BY <2>0, <3>1, <3>2
    <3>6. F(j) + k <= Len(s) => j + k <= Len(r)
      BY <2>0, <3>1
    <3>7. k > 0 => F(j) + k > e
      BY <2>0, <3>3
    <3>8. F(j) + k > e => j + k >= 1 /\ j + k \in Int
      BY <2>0, <3>4
    <3>9. ~(F(j) < b)
      BY <2>0, <3>3
    <3>10. F(j) + k <= Len(s) /\ F(j) + k > e => j + k \in 1 .. Len(r)
      BY <3>6, <3>8, <2>0
    <3>11. (k > 0 /\ (F(j) + k < b \/ F(j) > e)) \/ (k < 0 /\ (F(j) < b \/ F(j) + k > e)) => F(j) + k > e
      BY <3>7, <3>9
    <3>12. F(j) + k > e => O(j + k) /\ F(j + k) = F(j) + k
      BY <3>2, <3>4, <3>5
    <3> QED
      BY <3>1, <3>10, <3>11, <3>12
  <2>3. CASE ~(j < b) /\ ~(j >= b + n)
    <3>1. ~O(j) /\ F(j) = j - b + 1
      BY <2>0, <2>3 DEF Old, From
    <3>2. ~(j + k < b) /\ ~(j + k >= b + n) => ~O(j + k) /\ F(j + k) = j + k - b + 1
      BY <2>0 DEF Old, From
    <3> HIDE DEF O, F
    <3>3. F(j) \in Int /\ (1 <= F(j) + k => ~(j + k < b)) /\ (F(j) + k <= n => ~(j + k >= b + n))
      BY <2>0, <3>1
    <3>4. j + k - b + 1 = F(j) + k
      BY <2>0, <3>1
    <3>5. ~(j + k < b) /\ ~(j + k >= b + n) => j + k \in 1 .. Len(r)
      BY <2>0
    <3> QED
      BY <3>1, <3>2, <3>3, <3>4, <3>5
  <2> HIDE DEF O, F
  <2> QED
    BY <2>0, <2>1, <2>2, <2>3
<1> HIDE DEF n, O, F
<1>3. \A j \in DOMAIN r : O(j) /\ (F(j) + 2 < b \/ F(j) > e) /\ F(j) \in DOMAIN s /\ F(j) + 2 \in DOMAIN s =>
          j + 1 \in DOMAIN r /\ j + 2 \in DOMAIN r /\ O(j + 1) /\ O(j + 2) /\ F(j + 1) = F(j) + 1 /\ F(j + 2) = F(j) + 2
  <2> TAKE j \in DOMAIN r
  <2>1. 1 \in Int /\ 2 \in Int /\ F(j) \in Int /\ j \in Int
    BY <1>0, <1>a
  <2>2. F(j) \in 1 .. Len(s) /\ F(j) + 2 \in 1 .. Len(s) => 1 <= F(j) + 1 /\ F(j) + 1 <= Len(s) /\ 1 <= F(j) + 2 /\ F(j) + 2 <= Len(s)
    BY <1>0, <2>1
  <2>3. F(j) \in 1 .. n /\ F(j) + 2 \in 1 .. n => 1 <= F(j) + 1 /\ F(j) + 1 <= n /\ 1 <= F(j) + 2 /\ F(j) + 2 <= n
    BY <1>0, <2>1
  <2>4. 1 > 0 /\ 2 > 0 /\ (F(j) + 2 < b => F(j) + 1 < b)
    BY <1>0, <2>1
  <2> QED
    BY <1>0, <1>b, <2>1, <2>2, <2>3, <2>4
<1>4. \A j \in DOMAIN r : O(j) /\ (F(j) < b \/ F(j) - 2 > e) /\ F(j) \in DOMAIN s /\ F(j) - 2 \in DOMAIN s =>
          j - 1 \in DOMAIN r /\ j - 2 \in DOMAIN r /\ O(j - 1) /\ O(j - 2) /\ F(j - 1) = F(j) - 1 /\ F(j - 2) = F(j) - 2
  <2> TAKE j \in DOMAIN r
  <2>1. j + (-1) = j - 1 /\ j + (-2) = j - 2 /\ F(j) + (-1) = F(j) - 1 /\ F(j) + (-2) = F(j) - 2 /\ -1 \in Int /\ -2 \in Int
    BY <1>0, <1>a
  <2>2. F(j) \in 1 .. Len(s) /\ F(j) - 2 \in 1 .. Len(s) => 1 <= F(j) + (-1) /\ F(j) + (-1) <= Len(s) /\ 1 <= F(j) + (-2) /\ F(j) + (-2) <= Len(s)
    BY <1>0, <1>a
  <2>3. F(j) \in 1 .. n /\ F(j) - 2 \in 1 .. n => 1 <= F(j) + (-1) /\ F(j) + (-1) <= n /\ 1 <= F(j) + (-2) /\ F(j) + (-2) <= n
    BY <1>0, <1>a
  <2>4. -1 < 0 /\ -2 < 0 /\ (F(j) + (-2) > e => F(j) + (-1) > e)
    BY <1>0, <1>a
  <2> QED
    BY <1>0, <1>b, <2>1, <2>2, <2>3, <2>4
<1>5. \A j \in DOMAIN r : ~O(j) /\ F(j) \in DOMAIN t /\ F(j) + 2 \in DOMAIN t =>
          j + 1 \in DOMAIN r /\ j + 2 \in DOMAIN r /\ ~O(j + 1) /\ ~O(j + 2) /\ F(j + 1) = F(j) + 1 /\ F(j + 2) = F(j) + 2
  <2> TAKE j \in DOMAIN r
  <2>1. 1 \in Int /\ 2 \in Int /\ F(j) \in Int /\ j \in Int
    BY <1>0, <1>a
  <2>2. F(j) \in 1 .. Len(s) /\ F(j) + 2 \in 1 .. Len(s) => 1 <= F(j) + 1 /\ F(j) + 1 <= Len(s) /\ 1 <= F(j) + 2 /\ F(j) + 2 <= Len(s)
    BY <1>0, <2>1
  <2>3. F(j) \in 1 .. n /\ F(j) + 2 \in 1 .. n => 1 <= F(j) + 1 /\ F(j) + 1 <= n /\ 1 <= F(j) + 2 /\ F(j) + 2 <= n
    BY <1>0, <2>1
  <2>4. 1 > 0 /\ 2 > 0 /\ (F(j) + 2 < b => F(j) + 1 < b)
    BY <1>0, <2>1
  <2> QED
    BY <1>0, <1>b, <2>1, <2>2, <2>3, <2>4
<1>6. \A j \in DOMAIN r : ~O(j) /\ F(j) \in DOMAIN t /\ F(j) - 2 \in DOMAIN t =>
          j - 1 \in DOMAIN r /\ j - 2 \in DOMAIN r /\ ~O(j - 1) /\ ~O(j - 2) /\ F(j - 1) = F(j) - 1 /\ F(j - 2) = F(j) - 2
  <2> TAKE j \in DOMAIN r
  <2>1. j + (-1) = j - 1 /\ j + (-2) = j - 2 /\ F(j) + (-1) = F(j) - 1 /\ F(j) + (-2) = F(j) - 2 /\ -1 \in Int /\ -2 \in Int
    BY <1>0, <1>a
  <2>2. F(j) \in 1 .. Len(s) /\ F(j) - 2 \in 1 .. Len(s) => 1 <= F(j) + (-1) /\ F(j) + (-1) <= Len(s) /\ 1 <= F(j) + (-2) /\ F(j) + (-2) <= Len(s)
    BY <1>0, <1>a
  <2>3. F(j) \in 1 .. n /\ F(j) - 2 \in 1 .. n => 1 <= F(j) + (-1) /\ F(j) + (-1) <= n /\ 1 <= F(j) + (-2) /\ F(j) + (-2) <= n
    BY <1>0, <1>a
  <2>4. -1 < 0 /\ -2 < 0 /\ (F(j) + (-2) > e => F(j) + (-1) > e)
    BY <1>0, <1>a
  <2> QED
    BY <1>0, <1>b, <2>1, <2>2, <2>3, <2>4
<1>7. ASSUME NEW j \in DOMAIN r
      PROVE  /\ r[j].is = "begin" => j + 2 \in DOMAIN r /\ r[j + 1].is = "body" /\ r[j + 2] = EndLine(r[j].of)
             /\ r[j].is = "end" => j - 2 \in DOMAIN r /\ r[j - 1].is = "body" /\ r[j - 2] = BeginLine(r[j].of)
  <2>1. ASSUME O(j), r[j].is = "begin"
        PROVE  j + 2 \in DOMAIN r /\ r[j + 1].is = "body" /\ r[j + 2] = EndLine(r[j].of)
    <3> DEFINE i == F(j)
    <3>1. i \in DOMAIN s /\ Out(b, e, i) /\ r[j] = s[i]
      BY <1>1, <2>1
    <3>2. i + 2 \in DOMAIN s /\ s[i + 1].is = "body" /\ s[i + 2] = EndLine(s[i].of) /\ (i + 2 < b \/ i > e)
      BY <2>1, <3>1 DEF Attached, Clear
    <3>3. j + 1 \in DOMAIN r /\ j + 2 \in DOMAIN r /\ r[j + 1] = s[i + 1] /\ r[j + 2] = s[i + 2]
      BY <1>1, <1>3, <2>1, <3>1, <3>2
    <3> QED
      BY <3>1, <3>2, <3>3
  <2>2. ASSUME O(j), r[j].is = "end"
        PROVE  j - 2 \in DOMAIN r /\ r[j - 1].is = "body" /\ r[j - 2] = BeginLine(r[j].of)
    <3> DEFINE i == F(j)
    <3>1. i \in DOMAIN s /\ Out(b, e, i) /\ r[j] = s[i]
      BY <1>1, <2>2
    <3>2. i - 2 \in DOMAIN s /\ s[i - 1].is = "body" /\ s[i - 2] = BeginLine(s[i].of) /\ (i < b \/ i - 2 > e)
      BY <2>2, <3>1 DEF Attached, Clear
    <3>3. j - 1 \in DOMAIN r /\ j - 2 \in DOMAIN r /\ r[j - 1] = s[i - 1] /\ r[j - 2] = s[i - 2]
      BY <1>1, <1>4, <2>2, <3>1, <3>2
    <3> QED
      BY <3>1, <3>2, <3>3
  <2>3. ASSUME ~O(j), r[j].is = "begin"
        PROVE  j + 2 \in DOMAIN r /\ r[j + 1].is = "body" /\ r[j + 2] = EndLine(r[j].of)
    <3> DEFINE i == F(j)
    <3>1. i \in DOMAIN t /\ r[j] = t[i]
      BY <1>1, <2>3
    <3>2. i + 2 \in DOMAIN t /\ t[i + 1].is = "body" /\ t[i + 2] = EndLine(t[i].of)
      BY <2>3, <3>1 DEF Attached
    <3>3. j + 1 \in DOMAIN r /\ j + 2 \in DOMAIN r /\ r[j + 1] = t[i + 1] /\ r[j + 2] = t[i + 2]
      BY <1>1, <1>5, <2>3, <3>1, <3>2
    <3> QED
      BY <3>1, <3>2, <3>3
  <2>4. ASSUME ~O(j), r[j].is = "end"
        PROVE  j - 2 \in DOMAIN r /\ r[j - 1].is = "body" /\ r[j - 2] = BeginLine(r[j].of)
    <3> DEFINE i == F(j)
    <3>1. i \in DOMAIN t /\ r[j] = t[i]
      BY <1>1, <2>4
    <3>2. i - 2 \in DOMAIN t /\ t[i - 1].is = "body" /\ t[i - 2] = BeginLine(t[i].of)
      BY <2>4, <3>1 DEF Attached
    <3>3. j - 1 \in DOMAIN r /\ j - 2 \in DOMAIN r /\ r[j - 1] = t[i - 1] /\ r[j - 2] = t[i - 2]
      BY <1>1, <1>6, <2>4, <3>1, <3>2
    <3> QED
      BY <3>1, <3>2, <3>3
  <2> QED
    BY <2>1, <2>2, <2>3, <2>4
<1> QED
  BY <1>2, <1>7 DEF Attached

(***************************************************************************)
(* What the operations of sentinel do to the lines of a file.              *)
(***************************************************************************)

\* The block that is found: from the last line that begins it to the first that ends it.
LEMMA FoundIs ==
    ASSUME NEW s, NEW id, IsLines(s), Found(s, id)
    PROVE  /\ BeginOf(s, id) \in DOMAIN s /\ EndOf(s, id) \in DOMAIN s /\ BeginOf(s, id) < EndOf(s, id)
           /\ s[BeginOf(s, id)] = BeginLine(id) /\ s[EndOf(s, id)] = EndLine(id)
           /\ \A c, i \in DOMAIN s : s[c] = BeginLine(id) /\ s[i] = EndLine(id) /\ c < i => EndOf(s, id) <= i
           /\ \A i \in DOMAIN s : s[i] = BeginLine(id) /\ i < EndOf(s, id) => i <= BeginOf(s, id)
<1> DEFINE E == Ends(s, id)
           e == EndOf(s, id)
           B == {b \in Begins(s, id) : b < e}
<1>0. DOMAIN s = 1 .. Len(s) /\ Len(s) \in Nat
  BY LinesAre
<1>1. E \in SUBSET Nat /\ E # {}
  BY <1>0 DEF Ends, Found
<1>2. e \in E /\ \A i \in E : e <= i
  <2>1. e = Min(E)
    BY DEF EndOf
  <2> HIDE DEF E, e
  <2> QED
    BY <1>1, <2>1, LeastIs
<1>3. /\ e \in DOMAIN s /\ s[e] = EndLine(id)
      /\ \A c, i \in DOMAIN s : s[c] = BeginLine(id) /\ s[i] = EndLine(id) /\ c < i => e <= i
  BY <1>2 DEF Ends, Begins
<1>4. B \in SUBSET Nat /\ B # {} /\ e \in Nat /\ \A i \in B : i <= e
  <2>1. \E b \in Begins(s, id) : b < e
    BY <1>2 DEF Ends
  <2>2. Begins(s, id) \in SUBSET Nat /\ e \in Nat
    BY <1>0, <1>3 DEF Begins
  <2> HIDE DEF e
  <2> QED
    BY <2>1, <2>2
<1>5. BeginOf(s, id) \in B /\ \A i \in B : i <= BeginOf(s, id)
  <2>1. BeginOf(s, id) = Max(B)
    BY DEF BeginOf
  <2> HIDE DEF B, e
  <2> QED
    BY <1>4, <2>1, GreatestIs
<1> HIDE DEF e, E
<1>6. \A i \in DOMAIN s : s[i] = BeginLine(id) /\ i < e => i <= BeginOf(s, id)
  BY <1>5 DEF Begins
<1>7. BeginOf(s, id) \in DOMAIN s /\ s[BeginOf(s, id)] = BeginLine(id) /\ BeginOf(s, id) < e
  BY <1>5 DEF Begins
<1> QED
  BY <1>3, <1>6, <1>7 DEF e

LEMMA BlockIs ==
    ASSUME NEW id, NEW notes
    PROVE  /\ IsLines(RenderBlock(id, notes)) /\ Len(RenderBlock(id, notes)) = 3 /\ DOMAIN RenderBlock(id, notes) = 1 .. 3
           /\ RenderBlock(id, notes)[1] = BeginLine(id) /\ RenderBlock(id, notes)[2] = Line("body", id, notes)
           /\ RenderBlock(id, notes)[3] = EndLine(id)
           /\ \A k \in DOMAIN RenderBlock(id, notes) :
                  RenderBlock(id, notes)[k].is \in Marks /\ RenderBlock(id, notes)[k].of = id
           /\ Whole(RenderBlock(id, notes)) /\ Cover(RenderBlock(id, notes), {}) /\ Attached(RenderBlock(id, notes))
<1> DEFINE t == RenderBlock(id, notes)
           S == {BeginLine(id), Line("body", id, notes), EndLine(id)}
<1>1. t \in Seq(S) /\ Len(t) = 3
  BY DEF RenderBlock
<1>2. IsLines(t) /\ DOMAIN t = 1 .. 3
  BY <1>1, LinesOf, LenProperties
<1>3. t[1] = BeginLine(id) /\ t[2] = Line("body", id, notes) /\ t[3] = EndLine(id)
  BY DEF RenderBlock
<1>4. /\ t[1].is = "begin" /\ t[2].is = "body" /\ t[3].is = "end"
      /\ t[1].of = id /\ t[2].of = id /\ t[3].of = id
  BY <1>3 DEF BeginLine, EndLine, Line
<1> HIDE DEF t
<1>5. \A k \in DOMAIN t : k = 1 \/ k = 2 \/ k = 3
  BY <1>2
<1>6. \A k \in DOMAIN t : t[k].is \in Marks /\ t[k].of = id
  BY <1>4, <1>5 DEF Marks
<1>7. Bare(t)
  BY <1>3, <1>4, <1>5 DEF Bare
<1>8. Attached(t)
  <2>1. ASSUME NEW i \in DOMAIN t
        PROVE  /\ t[i].is = "begin" => i + 2 \in DOMAIN t /\ t[i + 1].is = "body" /\ t[i + 2] = EndLine(t[i].of)
               /\ t[i].is = "end" => i - 2 \in DOMAIN t /\ t[i - 1].is = "body" /\ t[i - 2] = BeginLine(t[i].of)
    <3>1. CASE i = 1
      BY <1>2, <1>3, <1>4, <3>1
    <3>2. CASE i = 2
      BY <1>4, <3>2
    <3>3. CASE i = 3
      BY <1>2, <1>3, <1>4, <3>3
    <3> QED
      BY <1>5, <3>1, <3>2, <3>3
  <2> QED
    BY <1>7, <2>1 DEF Attached
<1>9. Spans(t, 1, 3) /\ 1 \in DOMAIN t /\ 3 \in DOMAIN t
  BY <1>2, <1>4 DEF Spans
<1>10. \A b, e \in DOMAIN t : Spans(t, b, e) => b = 1 /\ e = 3
  BY <1>4, <1>5 DEF Spans
<1>11. \A i \in DOMAIN t : 1 <= i /\ i <= 3
  BY <1>2
<1>12. Whole(t)
  <2>1. \A i, j \in DOMAIN t : t[i].is \in {"begin", "end"} /\ t[j].is = t[i].is /\ t[j].of = t[i].of => i = j
    BY <1>4, <1>5
  <2>2. \A i \in DOMAIN t : Spanned(t, {}, i)
    BY <1>6, <1>9, <1>11 DEF Spanned
  <2>3. \A b, e \in DOMAIN t : Spans(t, b, e) => \A i \in DOMAIN t : b <= i /\ i <= e => t[i].is \in Marks
    BY <1>6
  <2>4. \A b, e, c, f \in DOMAIN t : Spans(t, b, e) /\ Spans(t, c, f) /\ b < c /\ c < e => f < e
    BY <1>10
  <2> QED
    BY <1>7, <2>1, <2>2, <2>3, <2>4 DEF Whole, Cover
<1> QED
  BY <1>1, <1>2, <1>3, <1>6, <1>8, <1>12 DEF t, Whole

\* One line that is of no block, and no line at all.
LEMMA LineIs ==
    ASSUME NEW x
    PROVE  /\ IsLines(<<x>>) /\ Len(<<x>>) = 1 /\ DOMAIN <<x>> = 1 .. 1 /\ <<x>>[1] = x
           /\ x.is \notin Marks => Plain(<<x>>)
<1>1. <<x>> \in Seq({x}) /\ Len(<<x>>) = 1 /\ DOMAIN <<x>> = 1 .. 1 /\ <<x>>[1] = x
  OBVIOUS
<1>2. IsLines(<<x>>)
  BY <1>1, LinesOf
<1>3. \A i \in 1 .. 1 : i = 1
  OBVIOUS
<1> QED
  BY <1>1, <1>2, <1>3 DEF Plain

LEMMA NoLines ==
    /\ IsLines(<< >>) /\ Len(<< >>) = 0 /\ DOMAIN << >> = {} /\ Plain(<< >>)
<1>1. << >> \in Seq({}) /\ Len(<< >>) = 0
  OBVIOUS
<1>2. IsLines(<< >>)
  BY <1>1, LinesOf
<1>3. DOMAIN << >> = {}
  BY <1>1, <1>2, LinesAre
<1> QED
  BY <1>1, <1>2, <1>3 DEF Plain

LEMMA OtherLines ==
    /\ Blank.is = "blank" /\ \A of : Code(of).is = "code" /\ Code(of).of = of
    /\ \A id : BeginLine(id).is = "begin" /\ BeginLine(id).of = id /\ EndLine(id).is = "end" /\ EndLine(id).of = id
BY DEF Blank, Code, BeginLine, EndLine, Line

LEMMA LeastOfTwo ==
    ASSUME NEW x \in Int, NEW y \in Int
    PROVE  Min({x, y}) = IF x <= y THEN x ELSE y
BY DEF Min

LEMMA GreatestOfTwo ==
    ASSUME NEW x \in Int, NEW y \in Int
    PROVE  Max({x, y}) = IF x <= y THEN y ELSE x
BY DEF Max

LEMMA ReplaceIs ==
    ASSUME NEW s, NEW id, NEW t, IsLines(s), IsLines(t), Found(s, id)
    PROVE  Spliced(ReplaceBlock(s, id, t), s, BeginOf(s, id), EndOf(s, id), t)
<1> DEFINE b == BeginOf(s, id)
           e == EndOf(s, id)
<1>1. ReplaceBlock(s, id, t) = Splice(s, b, e, t)
  BY DEF ReplaceBlock, Before, After, Splice
<1>2. b \in Nat \ {0} /\ e \in Nat /\ b <= e + 1 /\ e <= Len(s)
  <2>1. b \in 1 .. Len(s) /\ e \in 1 .. Len(s) /\ b < e /\ Len(s) \in Nat
    BY FoundIs, LinesAre
  <2> HIDE DEF b, e
  <2> QED
    BY <2>1
<1> HIDE DEF b, e
<1>3. Spliced(Splice(s, b, e, t), s, b, e, t)
  BY <1>2, SpliceIs
<1> QED
  BY <1>1, <1>3 DEF b, e

LEMMA InsertIs ==
    ASSUME NEW s, NEW t, NEW anchor \in Nat, IsLines(s), IsLines(t)
    PROVE  \E p \in 0 .. Len(s) : /\ Spliced(InsertBefore(s, t, anchor), s, p + 1, p, t)
                                  /\ anchor \in 1 .. Len(s) => p = anchor - 1
<1> DEFINE p == Max({0, Min({anchor - 1, Len(s)})})
<1>0. Len(s) \in Nat
  BY LinesAre
<1>1. p \in 0 .. Len(s) /\ (anchor \in 1 .. Len(s) => p = anchor - 1)
  <2> DEFINE q == Min({anchor - 1, Len(s)})
  <2>1. q = IF anchor - 1 <= Len(s) THEN anchor - 1 ELSE Len(s)
    BY <1>0, LeastOfTwo
  <2>2. q \in Int /\ q <= Len(s) /\ (anchor \in 1 .. Len(s) => q = anchor - 1)
    <3> HIDE DEF q
    <3> QED
      BY <1>0, <2>1
  <2>a. p = Max({0, q})
    OBVIOUS
  <2> HIDE DEF q, p
  <2>3. p = IF 0 <= q THEN q ELSE 0
    BY <2>2, <2>a, GreatestOfTwo
  <2> HIDE DEF p
  <2> QED
    BY <1>0, <2>2, <2>3
<1>2. InsertBefore(s, t, anchor) = SubSeq(s, 1, p) \o t \o SubSeq(s, p + 1, Len(s))
  BY DEF InsertBefore
<1> HIDE DEF p
<1> DEFINE b == p + 1
<1>3. b - 1 = p /\ b \in Nat \ {0} /\ p \in Nat /\ b <= p + 1 /\ p <= Len(s)
  BY <1>0, <1>1
<1> HIDE DEF b
<1>4. InsertBefore(s, t, anchor) = Splice(s, b, p, t)
  BY <1>2, <1>3 DEF Splice
<1>5. Spliced(Splice(s, b, p, t), s, b, p, t)
  BY <1>3, SpliceIs
<1> QED
  BY <1>1, <1>4, <1>5 DEF b

\* removeBlock takes a blank line too, or it does not.
LEMMA RemoveIs ==
    ASSUME NEW s, NEW id, IsLines(s), Found(s, id)
    PROVE  \E b \in DOMAIN s :
               /\ b = BeginOf(s, id) \/ (b = BeginOf(s, id) - 1 /\ s[b] = Blank)
               /\ Spliced(RemoveMarker(s, id), s, b, EndOf(s, id), << >>)
<1> DEFINE c == BeginOf(s, id)
           e == EndOf(s, id)
           b == IF e = Len(s) /\ c > 1 /\ s[c - 1] = Blank THEN c - 1 ELSE c
<1>1. c \in 1 .. Len(s) /\ e \in 1 .. Len(s) /\ c < e /\ Len(s) \in Nat /\ DOMAIN s = 1 .. Len(s)
  BY FoundIs, LinesAre
<1>2. RemoveMarker(s, id) = Before(s, b) \o After(s, e)
  BY DEF RemoveMarker, RemoveBlock
<1> HIDE DEF c, e
<1>4. b = c \/ (c > 1 /\ b = c - 1 /\ s[b] = Blank)
  OBVIOUS
<1> HIDE DEF b
<1>3. b \in DOMAIN s /\ b \in Nat \ {0} /\ b <= e + 1 /\ e \in Nat /\ e <= Len(s)
  BY <1>1, <1>4
<1>5. Spliced(Splice(s, b, e, << >>), s, b, e, << >>)
  BY <1>3, SpliceIs, NoLines
<1>6. Before(s, b) \o After(s, e) = Splice(s, b, e, << >>)
  <2> DEFINE top == SubSeq(s, 1, b - 1)
             end == SubSeq(s, e + 1, Len(s))
  <2>1. \A i \in 1 .. Len(s) : s[i] \in ToSet(s)
    BY <1>1 DEF ToSet
  <2>2. top \in Seq(ToSet(s))
    <3>1. \A i \in 1 .. b - 1 : s[i] \in ToSet(s)
      BY <1>1, <1>3, <2>1
    <3> QED
      BY <1>3, <3>1, SubSeqProperties
  <2> HIDE DEF top, end
  <2>3. top \o << >> = top
    BY <2>2, ConcatEmptySeq
  <2> QED
    BY <2>3 DEF Splice, Before, After, top, end
<1> QED
  BY <1>2, <1>3, <1>4, <1>5, <1>6 DEF c, e

\* A line put before all others, and one taken away.
LEMMA FirstIs ==
    ASSUME NEW s, NEW x, IsLines(s)
    PROVE  Spliced(<<x>> \o s, s, 1, 0, <<x>>)
<1>0. Len(s) \in Nat /\ DOMAIN s = 1 .. Len(s)
  BY LinesAre
<1> DEFINE t == <<x>>
           S == ToSet(s) \cup ToSet(t)
<1>1. IsLines(t) /\ Len(t) = 1
  BY LineIs
<1>2. s \in Seq(S) /\ t \in Seq(S)
  <2>1. ToSet(s) \subseteq S /\ ToSet(t) \subseteq S
    OBVIOUS
  <2> HIDE DEF S, t
  <2> QED
    BY <1>1, <2>1, SeqMonotonic DEF IsLines
<1> HIDE DEF S, t
<1>3. /\ t \o s \in Seq(S) /\ Len(t \o s) = Len(t) + Len(s)
      /\ \A i \in 1 .. Len(t) + Len(s) : (t \o s)[i] = IF i <= Len(t) THEN t[i] ELSE s[i - Len(t)]
  BY <1>2, ConcatIs
<1>4. IsLines(t \o s)
  BY <1>3, LinesOf
<1> DEFINE r == t \o s
<1>5. Len(r) = Len(s) + 1 /\ \A i \in 1 .. Len(s) + 1 : r[i] = IF i <= 1 THEN t[i] ELSE s[i - 1]
  BY <1>0, <1>1, <1>3
<1> HIDE DEF r
<1>6. \A i \in 1 .. Len(s) : r[i + 1] = s[i]
  <2> TAKE i \in 1 .. Len(s)
  <2>1. i + 1 \in 1 .. Len(s) + 1 /\ ~(i + 1 <= 1) /\ i + 1 - 1 = i
    BY <1>0
  <2> QED
    BY <1>5, <2>1
<1>7. r[1] = t[1]
  BY <1>0, <1>5
<1>8. Spliced(r, s, 1, 0, t)
  <2>1. Len(r) = Len(s) + Len(t) - (0 - 1 + 1)
    BY <1>0, <1>1, <1>5
  <2>2. \A i \in 1 .. 1 - 1 : r[i] = s[i]
    OBVIOUS
  <2>3. \A k \in 1 .. Len(t) : r[1 - 1 + k] = t[k]
    <3>1. \A k \in 1 .. 1 : k = 1 /\ 1 - 1 + k = 1
      OBVIOUS
    <3> QED
      BY <1>1, <1>7, <3>1
  <2>4. \A i \in 0 + 1 .. Len(s) : r[i + Len(t) - (0 - 1 + 1)] = s[i]
    <3> TAKE i \in 0 + 1 .. Len(s)
    <3>1. i \in 1 .. Len(s) /\ i + Len(t) - (0 - 1 + 1) = i + 1
      BY <1>0, <1>1
    <3> QED
      BY <1>6, <3>1
  <2>5. IsLines(r)
    BY <1>4 DEF r
  <2> QED
    BY <1>0, <1>1, <2>1, <2>2, <2>3, <2>4, <2>5 DEF Spliced
<1> QED
  BY <1>8 DEF r, t

LEMMA TakenIs ==
    ASSUME NEW s, IsLines(s), NEW x \in DOMAIN s
    PROVE  Spliced(RemoveAt(s, x), s, x, x, << >>)
<1>0. Len(s) \in Nat /\ DOMAIN s = 1 .. Len(s) /\ x \in Nat \ {0} /\ x <= Len(s) /\ x <= x + 1
  BY LinesAre
<1>1. RemoveAt(s, x) = SubSeq(s, 1, x - 1) \o SubSeq(s, x + 1, Len(s))
  BY DEF RemoveAt
<1>2. Spliced(Splice(s, x, x, << >>), s, x, x, << >>)
  BY <1>0, SpliceIs, NoLines
<1> DEFINE top == SubSeq(s, 1, x - 1)
           end == SubSeq(s, x + 1, Len(s))
<1>3. top \in Seq(ToSet(s))
  <2>1. \A i \in 1 .. x - 1 : s[i] \in ToSet(s)
    BY <1>0 DEF ToSet
  <2> QED
    BY <1>0, <2>1, SubSeqProperties
<1> HIDE DEF top, end
<1>4. top \o << >> = top
  BY <1>3, ConcatEmptySeq
<1> QED
  BY <1>1, <1>2, <1>4 DEF Splice, top, end

\* A block put at the end, and one more line before it or none.
LEMMA AppendIs ==
    ASSUME NEW s, NEW t, IsLines(s), IsLines(t)
    PROVE  \E q : /\ q = s \/ Spliced(q, s, Len(s) + 1, Len(s), <<Blank>>)
                  /\ IsLines(q) /\ Spliced(AppendBlock(s, t), q, Len(q) + 1, Len(q), t)
<1>1. ASSUME NEW q, NEW v, IsLines(q), IsLines(v)
      PROVE  Spliced(q \o v, q, Len(q) + 1, Len(q), v)
  <2> DEFINE S == ToSet(q) \cup ToSet(v)
  <2>0. Len(q) \in Nat /\ DOMAIN q = 1 .. Len(q) /\ Len(v) \in Nat
    BY <1>1, LinesAre
  <2>1. q \in Seq(S) /\ v \in Seq(S)
    <3>1. ToSet(q) \subseteq S /\ ToSet(v) \subseteq S
      OBVIOUS
    <3> HIDE DEF S
    <3> QED
      BY <1>1, <3>1, SeqMonotonic DEF IsLines
  <2> HIDE DEF S
  <2>2. /\ q \o v \in Seq(S) /\ Len(q \o v) = Len(q) + Len(v)
        /\ \A i \in 1 .. Len(q) + Len(v) : (q \o v)[i] = IF i <= Len(q) THEN q[i] ELSE v[i - Len(q)]
    BY <2>1, ConcatIs
  <2>3. IsLines(q \o v)
    BY <2>2, LinesOf
  <2> DEFINE r == q \o v
  <2> HIDE DEF r
  <2>4. \A i \in 1 .. Len(q) + 1 - 1 : r[i] = q[i]
    <3> TAKE i \in 1 .. Len(q) + 1 - 1
    <3>1. i \in 1 .. Len(q) + Len(v) /\ i <= Len(q)
      BY <2>0
    <3> QED
      BY <2>2, <3>1 DEF r
  <2>5. \A k \in 1 .. Len(v) : r[Len(q) + 1 - 1 + k] = v[k]
    <3> TAKE k \in 1 .. Len(v)
    <3> DEFINE j == Len(q) + 1 - 1 + k
    <3>1. j \in 1 .. Len(q) + Len(v) /\ ~(j <= Len(q)) /\ j - Len(q) = k
      BY <2>0
    <3> HIDE DEF j
    <3>2. r[j] = v[k]
      BY <2>2, <3>1 DEF r
    <3> QED
      BY <3>2 DEF j
  <2>6. \A i \in Len(q) + 1 .. Len(q) : r[i + Len(v) - (Len(q) - (Len(q) + 1) + 1)] = q[i]
    BY <2>0
  <2>7. Len(r) = Len(q) + Len(v) - (Len(q) - (Len(q) + 1) + 1)
    BY <2>0, <2>2 DEF r
  <2>8. Len(q) + 1 \in Nat \ {0} /\ Len(q) + 1 <= Len(q) + 1 /\ Len(q) <= Len(q)
    BY <2>0
  <2>9. Spliced(r, q, Len(q) + 1, Len(q), v)
    BY <1>1, <2>0, <2>3, <2>4, <2>5, <2>6, <2>7, <2>8 DEF Spliced, r
  <2> QED
    BY <2>9 DEF r
<1>2. CASE s = << >> \/ Last(s) = Blank
  BY <1>1, <1>2 DEF AppendBlock
<1>3. CASE ~(s = << >> \/ Last(s) = Blank)
  <2> DEFINE q == Append(s, Blank)
  <2>1. q = s \o <<Blank>>
    BY AppendIsConcat DEF IsLines
  <2>2. Spliced(q, s, Len(s) + 1, Len(s), <<Blank>>)
    BY <1>1, <2>1, LineIs
  <2>3. IsLines(q)
    BY <2>2 DEF Spliced
  <2>4. AppendBlock(s, t) = q \o t
    BY <1>3 DEF AppendBlock
  <2> HIDE DEF q
  <2> QED
    BY <1>1, <2>2, <2>3, <2>4
<1> QED
  BY <1>2, <1>3

(***************************************************************************)
(* What they do to the blocks of a file.                                   *)
(***************************************************************************)

\* The block that is found stands, and takes no other along, whichever half was left of one.
LEMMA CoverFound ==
    ASSUME NEW s, NEW id, NEW d, IsLines(s), Cover(s, {d}), Found(s, id)
    PROVE  LET b == BeginOf(s, id)
               e == EndOf(s, id)
           IN  /\ b \in DOMAIN s \ {d} /\ e \in DOMAIN s \ {d} /\ Spans(s, b, e)
               /\ \A i \in DOMAIN s : ~Out(b, e, i) => s[i].is \in Marks
               /\ \A i \in DOMAIN s \ {d} : s[i].is \in {"begin", "end"} /\ s[i].of = id => ~Out(b, e, i)
               /\ Closed(s, {d}, b, e)
<1> DEFINE b == BeginOf(s, id)
           e == EndOf(s, id)
           D == DOMAIN s \ {d}
<1>0. DOMAIN s = 1 .. Len(s) /\ Len(s) \in Nat /\ D \subseteq DOMAIN s
  BY LinesAre
<1>1. /\ b \in DOMAIN s /\ e \in DOMAIN s /\ b < e /\ s[b] = BeginLine(id) /\ s[e] = EndLine(id)
      /\ \A c, i \in DOMAIN s : s[c] = BeginLine(id) /\ s[i] = EndLine(id) /\ c < i => e <= i
      /\ \A i \in DOMAIN s : s[i] = BeginLine(id) /\ i < e => i <= b
  BY FoundIs
<1> HIDE DEF b, e
<1>2. s[b].of = id /\ s[e].of = id /\ s[b].is = "begin" /\ s[e].is = "end" /\ b \in Nat /\ e \in Nat
  BY <1>0, <1>1, OtherLines
\* A line of this symbol that begins or ends a block does it with one more.
<1>3. ASSUME NEW i \in D, s[i].is \in {"begin", "end"}, s[i].of = id
      PROVE  \E c, f \in D : /\ Spans(s, c, f) /\ s[c] = BeginLine(id) /\ s[f] = EndLine(id)
                             /\ i = IF s[i].is = "begin" THEN c ELSE f
  <2>1. PICK c, f \in D : Spans(s, c, f) /\ s[c].of = id
    BY <1>3 DEF Cover, Spanned
  <2>2. s[c].is = "begin" /\ s[f].is = "end" /\ s[f].of = id
    BY <2>1 DEF Spans
  <2>3. s[c] = BeginLine(id) /\ s[f] = EndLine(id)
    BY <2>1, <2>2 DEF Cover, Bare
  <2>4. i = IF s[i].is = "begin" THEN c ELSE f
    BY <1>3, <2>1, <2>2 DEF Cover
  <2> QED
    BY <2>1, <2>3, <2>4
<1>4. e # d
  <2> SUFFICES ASSUME e = d
               PROVE  FALSE
    OBVIOUS
  <2>1. b \in D
    BY <1>1, <1>2
  <2>2. PICK f \in D : Spans(s, b, f) /\ s[f] = EndLine(id)
    BY <1>2, <1>3, <2>1
  <2>3. e <= f /\ b <= e
    BY <1>0, <1>1, <2>2 DEF Spans
  <2> QED
    BY <1>1, <1>2, <2>1, <2>2, <2>3 DEF Cover
<1>5. b # d
  <2> SUFFICES ASSUME b = d
               PROVE  FALSE
    OBVIOUS
  <2>1. e \in D
    BY <1>1, <1>4
  <2>2. PICK c \in D : Spans(s, c, e) /\ s[c] = BeginLine(id) /\ s[c].of = id
    BY <1>2, <1>3, <2>1, OtherLines
  <2>3. c <= b /\ b <= e
    BY <1>0, <1>1, <2>2 DEF Spans
  <2> QED
    BY <1>1, <1>2, <2>1, <2>2, <2>3 DEF Cover
<1>6. b \in D /\ e \in D /\ Spans(s, b, e)
  BY <1>1, <1>2, <1>4, <1>5 DEF Spans
<1>7. \A i \in DOMAIN s : ~Out(b, e, i) => s[i].is \in Marks
  <2> TAKE i \in DOMAIN s
  <2> HAVE ~Out(b, e, i)
  <2>1. b <= i /\ i <= e
    BY <1>0, <1>2 DEF Out
  <2> QED
    BY <1>6, <2>1 DEF Cover
<1>8. \A i \in D : s[i].is \in {"begin", "end"} /\ s[i].of = id => i = b \/ i = e
  BY <1>2, <1>6 DEF Cover
<1>9. \A i \in D : s[i].is \in {"begin", "end"} /\ s[i].of = id => ~Out(b, e, i)
  BY <1>1, <1>2, <1>8 DEF Out
<1>10. Closed(s, {d}, b, e)
  <2> SUFFICES ASSUME NEW c \in D, NEW f \in D, Spans(s, c, f)
               PROVE  Out(b, e, c) <=> Out(b, e, f)
    BY DEF Closed
  <2>0. c < f /\ s[c].is = "begin" /\ s[f].is = "end" /\ c # e /\ f # b /\ s[c].of = s[f].of
    BY <1>2 DEF Spans
  <2>1. c \in Nat /\ f \in Nat
    BY <1>0
  <2>2. CASE c = b \/ f = e
    <3>1. s[c].of = id /\ s[f].of = id
      BY <1>2, <2>0, <2>2
    <3> QED
      BY <1>9, <2>0, <3>1
  <2>3. CASE c # b /\ f # e
    <3>1. b < c /\ c < e => f < e
      BY <1>6 DEF Cover
    <3>2. c < b /\ b < f => e < f
      BY <1>6 DEF Cover
    <3> QED
      BY <1>2, <2>0, <2>1, <2>3, <3>1, <3>2 DEF Out
  <2> QED
    BY <2>2, <2>3
<1> QED
  BY <1>6, <1>7, <1>9, <1>10 DEF b, e

LEMMA CoverNotFound ==
    ASSUME NEW s, NEW id, NEW X, IsLines(s), Cover(s, X), ~Found(s, id)
    PROVE  \A i \in DOMAIN s \ X : ~(Spanned(s, X, i) /\ s[i].of = id)
<1> SUFFICES ASSUME NEW i \in DOMAIN s \ X, Spanned(s, X, i), s[i].of = id
             PROVE  FALSE
  OBVIOUS
<1>1. PICK c, f \in DOMAIN s \ X : Spans(s, c, f) /\ s[c].of = id
  BY DEF Spanned
<1>2. s[c] = BeginLine(id) /\ s[f] = EndLine(id) /\ c < f
  <2>1. Bare(s)
    BY DEF Cover
  <2>2. s[c].is = "begin" /\ s[f].is = "end" /\ s[c].of = id /\ s[f].of = id /\ c < f
    BY <1>1 DEF Spans
  <2> QED
    BY <2>1, <2>2 DEF Bare
<1>3. f \in Ends(s, id)
  BY <1>2 DEF Ends, Begins
<1> QED
  BY <1>3 DEF Found

\* In a whole file, the block that is found is the one of its symbol.
LEMMA WholeFound ==
    ASSUME NEW s, NEW id, IsLines(s), Whole(s), Found(s, id)
    PROVE  LET b == BeginOf(s, id)
               e == EndOf(s, id)
           IN  /\ Spans(s, b, e)
               /\ \A i \in DOMAIN s : ~Out(b, e, i) => s[i].is \in Marks
               /\ \A i \in DOMAIN s : s[i].is \in Marks /\ s[i].of = id => ~Out(b, e, i)
               /\ Closed(s, {}, b, e)
<1> DEFINE b == BeginOf(s, id)
           e == EndOf(s, id)
<1>0. DOMAIN s = 1 .. Len(s) /\ Len(s) \in Nat /\ DOMAIN s \ {0} = DOMAIN s /\ DOMAIN s \ {} = DOMAIN s
  <2>1. DOMAIN s = 1 .. Len(s) /\ Len(s) \in Nat
    BY LinesAre
  <2>2. 0 \notin DOMAIN s
    BY <2>1
  <2> QED
    BY <2>1, <2>2
<1>1. Cover(s, {0})
  <2>1. \A i \in DOMAIN s : i \notin {0} /\ i \notin {}
    BY <1>0
  <2> QED
    BY <1>0, <2>1 DEF Whole, Cover, Spanned
<1>2. /\ b \in DOMAIN s /\ e \in DOMAIN s /\ Spans(s, b, e)
      /\ \A i \in DOMAIN s : ~Out(b, e, i) => s[i].is \in Marks
      /\ \A i \in DOMAIN s : s[i].is \in {"begin", "end"} /\ s[i].of = id => ~Out(b, e, i)
      /\ Closed(s, {0}, b, e)
  BY <1>0, <1>1, CoverFound
<1> HIDE DEF b, e
<1>3. Closed(s, {}, b, e)
  BY <1>0, <1>2 DEF Closed
<1>4. ASSUME NEW i \in DOMAIN s, s[i].is \in Marks, s[i].of = id
      PROVE  ~Out(b, e, i)
  <2>1. PICK c, f \in DOMAIN s : Spans(s, c, f) /\ s[c].of = id /\ c <= i /\ i <= f
    BY <1>4 DEF Whole, Spanned
  <2>2. ~Out(b, e, c) /\ ~Out(b, e, f)
    BY <1>2, <2>1 DEF Spans
  <2> QED
    BY <1>0, <1>2, <2>1, <2>2 DEF Out
<1> QED
  BY <1>2, <1>3, <1>4 DEF b, e

LEMMA WholeNotFound ==
    ASSUME NEW s, NEW id, IsLines(s), Whole(s), ~Found(s, id)
    PROVE  \A i \in DOMAIN s : s[i].is \in Marks => s[i].of # id
BY CoverNotFound DEF Whole

\* A block put in the place of the one that was found, or anywhere if there is none.
Put(r, s, b, e, id, notes) ==
    /\ Spliced(r, s, b, e, RenderBlock(id, notes))
    /\ \/ Found(s, id) /\ b = BeginOf(s, id) /\ e = EndOf(s, id)
       \/ ~Found(s, id) /\ b = e + 1

LEMMA HoldsPut ==
    ASSUME NEW r, NEW s, NEW b, NEW e, NEW id, NEW notes, Spliced(r, s, b, e, RenderBlock(id, notes))
    PROVE  /\ b \in DOMAIN r /\ b + 2 \in DOMAIN r
           /\ r[b] = BeginLine(id) /\ r[b + 2] = EndLine(id)
           /\ \A k \in 1 .. 3 : r[b + k - 1] = RenderBlock(id, notes)[k]
           /\ Holds(r, id, notes)
<1> DEFINE t == RenderBlock(id, notes)
<1>1. Len(t) = 3 /\ t[1] = BeginLine(id) /\ t[3] = EndLine(id)
  BY BlockIs
<1> HIDE DEF t
<1>2. /\ DOMAIN r = 1 .. Len(r) /\ Len(r) = Len(s) + 3 - (e - b + 1) /\ Len(s) \in Nat
      /\ b \in Nat \ {0} /\ e \in Nat /\ b <= e + 1 /\ e <= Len(s)
      /\ \A k \in 1 .. 3 : r[b - 1 + k] = t[k]
  <2>1. Spliced(r, s, b, e, t)
    BY DEF t
  <2> QED
    BY <1>1, <2>1, LinesAre DEF Spliced
<1>3. b \in DOMAIN r /\ b + 2 \in DOMAIN r
  BY <1>2
<1>4. \A k \in 1 .. 3 : r[b + k - 1] = t[k]
  <2> TAKE k \in 1 .. 3
  <2>1. b + k - 1 = b - 1 + k
    BY <1>2
  <2> QED
    BY <1>2, <2>1
<1>5. r[b] = t[1] /\ r[b + 2] = t[3]
  <2>1. b + 1 - 1 = b /\ b + 3 - 1 = b + 2 /\ 1 \in 1 .. 3 /\ 3 \in 1 .. 3
    BY <1>2
  <2> QED
    BY <1>4, <2>1
<1>6. Holds(r, id, notes)
  BY <1>3, <1>4 DEF Holds, t
<1> QED
  BY <1>1, <1>3, <1>4, <1>5, <1>6 DEF t

LEMMA PutWhole ==
    ASSUME NEW r, NEW s, NEW b, NEW e, NEW id, NEW notes, Put(r, s, b, e, id, notes), IsLines(s), Whole(s)
    PROVE  Whole(r) /\ ByHand(r) = ByHand(s)
<1> DEFINE t == RenderBlock(id, notes)
<1>1. Spliced(r, s, b, e, t)
  BY DEF Put
<1>2. Whole(t) /\ \A k \in DOMAIN t : t[k].is \in Marks /\ t[k].of = id
  BY BlockIs
<1> HIDE DEF t
<1>3. Outside(s, {}, b, e, t)
  BY <1>2 DEF Outside
<1>4. \A k \in DOMAIN t : t[k].is # "code"
  BY <1>2 DEF Marks
<1>5. CASE Found(s, id) /\ b = BeginOf(s, id) /\ e = EndOf(s, id)
  <2>1. /\ \A i \in DOMAIN s : ~Out(b, e, i) => s[i].is \in Marks
        /\ \A i \in DOMAIN s : s[i].is \in Marks /\ s[i].of = id => ~Out(b, e, i)
        /\ Closed(s, {}, b, e)
    BY <1>5, WholeFound
  <2>2. Apart(s, {}, b, e, t)
    BY <1>2, <2>1 DEF Apart, Marks
  <2>3. \A i \in DOMAIN s : ~Out(b, e, i) => s[i].is # "code"
    BY <2>1 DEF Marks
  <2> QED
    BY <1>1, <1>2, <1>3, <1>4, <2>1, <2>2, <2>3, WholeSpliced, ByHandSpliced
<1>6. CASE ~Found(s, id) /\ b = e + 1
  <2>1. \A i \in DOMAIN s : Out(b, e, i)
    <3>1. DOMAIN s = 1 .. Len(s) /\ Len(s) \in Nat /\ e \in Nat
      BY <1>1, LinesAre DEF Spliced
    <3> QED
      BY <1>6, <3>1 DEF Out
  <2>2. Closed(s, {}, b, e)
    BY <2>1 DEF Closed
  <2>3. Apart(s, {}, b, e, t)
    BY <1>2, <1>6, WholeNotFound DEF Apart, Marks
  <2> QED
    BY <1>1, <1>2, <1>3, <1>4, <2>1, <2>2, <2>3, WholeSpliced, ByHandSpliced
<1> QED
  BY <1>5, <1>6 DEF Put

\* The block that was found taken away, and a blank line before it or none.
Took(r, s, b, id) ==
    /\ Found(s, id) /\ b \in DOMAIN s
    /\ b = BeginOf(s, id) \/ (b = BeginOf(s, id) - 1 /\ s[b] = Blank)
    /\ Spliced(r, s, b, EndOf(s, id), << >>)

\* The lines that are taken are those of the block, or blank.
LEMMA TookOut ==
    ASSUME NEW r, NEW s, NEW b, NEW id, Took(r, s, b, id), IsLines(s)
    PROVE  LET c == BeginOf(s, id)
               e == EndOf(s, id)
           IN  \A i \in DOMAIN s : /\ Out(b, e, i) => Out(c, e, i)
                                   /\ Out(c, e, i) /\ ~Out(b, e, i) => s[i] = Blank
<1> DEFINE c == BeginOf(s, id)
           e == EndOf(s, id)
<1>1. DOMAIN s = 1 .. Len(s) /\ Len(s) \in Nat /\ c \in DOMAIN s /\ e \in DOMAIN s /\ c < e /\ b \in DOMAIN s
  BY LinesAre, FoundIs DEF Took
<1>2. b = c \/ (b = c - 1 /\ s[b] = Blank)
  BY DEF Took
<1> HIDE DEF c, e
<1>3. \A i \in DOMAIN s : Out(b, e, i) => Out(c, e, i)
  BY <1>1, <1>2 DEF Out
<1>4. ASSUME NEW i \in DOMAIN s, Out(c, e, i), ~Out(b, e, i)
      PROVE  s[i] = Blank
  <2>1. i = b /\ b # c
    BY <1>1, <1>2, <1>4 DEF Out
  <2> QED
    BY <1>2, <2>1
<1> QED
  BY <1>3, <1>4 DEF c, e

LEMMA TookWhole ==
    ASSUME NEW r, NEW s, NEW b, NEW id, Took(r, s, b, id), IsLines(s), Whole(s)
    PROVE  /\ Whole(r) /\ ByHand(r) = ByHand(s)
           /\ \A j \in DOMAIN r : r[j].is \in Marks =>
                  r[j].of # id /\ \E i \in DOMAIN s : s[i].is \in Marks /\ s[i].of = r[j].of
<1> DEFINE c == BeginOf(s, id)
           e == EndOf(s, id)
<1>1. Spliced(r, s, b, e, << >>) /\ Found(s, id)
  BY DEF Took
<1>2. /\ \A i \in DOMAIN s : ~Out(c, e, i) => s[i].is \in Marks
      /\ \A i \in DOMAIN s : s[i].is \in Marks /\ s[i].of = id => ~Out(c, e, i)
      /\ Closed(s, {}, c, e)
  BY <1>1, WholeFound
<1>3. \A i \in DOMAIN s : /\ Out(b, e, i) => Out(c, e, i)
                          /\ Out(c, e, i) /\ ~Out(b, e, i) => s[i] = Blank
  BY TookOut
<1> HIDE DEF c, e
<1>4. \A i \in DOMAIN s : s[i].is \in Marks => (Out(b, e, i) <=> Out(c, e, i))
  BY <1>3, OtherLines DEF Marks
<1>5. Closed(s, {}, b, e)
  <2>1. \A x, y \in DOMAIN s : Spans(s, x, y) => s[x].is \in Marks /\ s[y].is \in Marks
    BY DEF Spans, Marks
  <2> QED
    BY <1>2, <1>4, <2>1 DEF Closed
<1>6. \A i \in DOMAIN s : ~Out(b, e, i) => s[i].is # "code"
  BY <1>2, <1>3, OtherLines DEF Marks
<1>7. Apart(s, {}, b, e, << >>) /\ Outside(s, {}, b, e, << >>) /\ Whole(<< >>) /\ \A k \in DOMAIN << >> : << >>[k].is # "code"
  BY NoLines, PlainIs DEF Apart, Outside
<1>8. Whole(r) /\ ByHand(r) = ByHand(s)
  BY <1>1, <1>5, <1>6, <1>7, WholeSpliced, ByHandSpliced
<1>9. \A j \in DOMAIN r : \E i \in DOMAIN s : Out(b, e, i) /\ r[j] = s[i]
  <2>1. /\ \A j \in DOMAIN r : Old(b, 0, j) => From(b, e, 0, j) \in DOMAIN s /\ Out(b, e, From(b, e, 0, j)) /\ r[j] = s[From(b, e, 0, j)]
        /\ \A j \in DOMAIN r : ~Old(b, 0, j) => From(b, e, 0, j) \in DOMAIN << >>
    BY <1>1, NoLines, SplicedFrom
  <2> QED
    BY <2>1, NoLines
<1>10. \A j \in DOMAIN r : r[j].is \in Marks =>
           r[j].of # id /\ \E i \in DOMAIN s : s[i].is \in Marks /\ s[i].of = r[j].of
  BY <1>2, <1>4, <1>9
<1> QED
  BY <1>8, <1>10

\* A line of no block, before all or after all.
LEMMA LineWhole ==
    ASSUME NEW r, NEW s, NEW e \in Nat, NEW x, Spliced(r, s, e + 1, e, <<x>>), IsLines(s), Whole(s),
           x.is \notin Marks, ~(0 < e /\ e < Len(s))
    PROVE  Whole(r) /\ (x.is # "code" => ByHand(r) = ByHand(s))
<1> DEFINE t == <<x>>
           b == e + 1
<1>1. Spliced(r, s, b, e, t)
  OBVIOUS
<1>a. b = e + 1 /\ ~(0 < e /\ e < Len(s))
  OBVIOUS
<1> HIDE DEF b
<1>2. Plain(t) /\ \A k \in DOMAIN t : t[k] = x
  <2>1. \A k \in 1 .. 1 : k = 1
    OBVIOUS
  <2> QED
    BY <2>1, LineIs
<1> HIDE DEF t
<1>3. DOMAIN s = 1 .. Len(s) /\ Len(s) \in Nat /\ e \in Nat
  BY <1>1, LinesAre DEF Spliced
<1>4. \A i \in DOMAIN s : Out(b, e, i)
  <2> TAKE i \in DOMAIN s
  <2>1. i \in Int /\ e \in Int /\ b = e + 1
    BY <1>3, <1>a
  <2> QED
    BY <2>1 DEF Out
<1>5. Closed(s, {}, b, e) /\ Apart(s, {}, b, e, t)
  BY <1>2, <1>4, PlainIs DEF Closed, Apart, Plain, Marks
<1>6. \A c, f \in DOMAIN s : ~(c < b /\ e < f)
  <2> TAKE c, f \in DOMAIN s
  <2>1. c \in 1 .. Len(s) /\ f \in 1 .. Len(s) /\ e \in Int /\ b = e + 1 /\ ~(0 < e /\ e < Len(s))
    BY <1>3, <1>a
  <2> QED
    BY <1>3, <2>1
<1>7. Outside(s, {}, b, e, t)
  BY <1>6 DEF Outside
<1>8. Whole(r)
  BY <1>1, <1>2, <1>5, <1>7, PlainIs, WholeSpliced
<1>9. ASSUME x.is # "code"
      PROVE  ByHand(r) = ByHand(s)
  BY <1>1, <1>2, <1>4, <1>9, ByHandSpliced
<1> QED
  BY <1>8, <1>9

(***************************************************************************)
(* What they do where half of a block is left.                             *)
(***************************************************************************)

LEMMA CoverPut ==
    ASSUME NEW r, NEW s, NEW b, NEW e, NEW id, NEW notes, NEW d, Put(r, s, b, e, id, notes), IsLines(s), Cover(s, {d})
    PROVE  (\E x \in 0 .. Len(r) : Cover(r, {x})) /\ ByHand(r) = ByHand(s)
<1> DEFINE t == RenderBlock(id, notes)
<1>1. Spliced(r, s, b, e, t)
  BY DEF Put
<1>2. Cover(t, {}) /\ \A k \in DOMAIN t : t[k].is \in Marks /\ t[k].of = id
  BY BlockIs
<1> HIDE DEF t
<1>3. Outside(s, {d}, b, e, t) /\ \A k \in DOMAIN t : t[k].is # "code"
  BY <1>2 DEF Outside, Marks
<1>4. /\ \A i \in DOMAIN s : ~Out(b, e, i) => s[i].is \in Marks
      /\ Closed(s, {d}, b, e) /\ Apart(s, {d}, b, e, t)
  <2>1. CASE Found(s, id) /\ b = BeginOf(s, id) /\ e = EndOf(s, id)
    <3>1. /\ \A i \in DOMAIN s : ~Out(b, e, i) => s[i].is \in Marks
          /\ \A i \in DOMAIN s \ {d} : s[i].is \in {"begin", "end"} /\ s[i].of = id => ~Out(b, e, i)
          /\ Closed(s, {d}, b, e)
      BY <2>1, CoverFound
    <3> QED
      BY <1>2, <3>1 DEF Apart
  <2>2. CASE ~Found(s, id) /\ b = e + 1
    <3>1. \A i \in DOMAIN s : Out(b, e, i)
      <4>1. DOMAIN s = 1 .. Len(s) /\ Len(s) \in Nat /\ e \in Nat
        BY <1>1, LinesAre DEF Spliced
      <4> QED
        BY <2>2, <4>1 DEF Out
    <3>2. \A i \in DOMAIN s \ {d} : s[i].is \in {"begin", "end"} => s[i].of # id
      BY <2>2, CoverNotFound DEF Cover
    <3> QED
      BY <1>2, <3>1, <3>2 DEF Closed, Apart
  <2> QED
    BY <2>1, <2>2 DEF Put
<1>5. Cover(r, Left(r, b, e, Len(t), {d}))
  BY <1>1, <1>2, <1>3, <1>4, CoverSpliced
<1>6. \E x \in 0 .. Len(r) : Cover(r, {x})
  <2>1. \A i \in DOMAIN s : i \in {d} /\ Out(b, e, i) => i = d
    OBVIOUS
  <2> QED
    BY <1>1, <1>5, <2>1, OneLeft
<1>7. ByHand(r) = ByHand(s)
  <2>1. \A i \in DOMAIN s : ~Out(b, e, i) => s[i].is # "code"
    BY <1>4 DEF Marks
  <2> QED
    BY <1>1, <1>3, <2>1, ByHandSpliced
<1> QED
  BY <1>6, <1>7

LEMMA CoverTook ==
    ASSUME NEW r, NEW s, NEW b, NEW id, NEW d, Took(r, s, b, id), IsLines(s), Cover(s, {d})
    PROVE  (\E x \in 0 .. Len(r) : Cover(r, {x})) /\ ByHand(r) = ByHand(s)
<1> DEFINE c == BeginOf(s, id)
           e == EndOf(s, id)
<1>1. Spliced(r, s, b, e, << >>) /\ Found(s, id)
  BY DEF Took
<1>2. (\A i \in DOMAIN s : ~Out(c, e, i) => s[i].is \in Marks) /\ Closed(s, {d}, c, e)
  BY <1>1, CoverFound
<1>3. \A i \in DOMAIN s : /\ Out(b, e, i) => Out(c, e, i)
                          /\ Out(c, e, i) /\ ~Out(b, e, i) => s[i] = Blank
  BY TookOut
<1> HIDE DEF c, e
<1>4. Closed(s, {d}, b, e)
  <2>1. \A i \in DOMAIN s : s[i].is \in Marks => (Out(b, e, i) <=> Out(c, e, i))
    BY <1>3, OtherLines DEF Marks
  <2>2. \A x, y \in DOMAIN s : Spans(s, x, y) => s[x].is \in Marks /\ s[y].is \in Marks
    BY DEF Spans, Marks
  <2> QED
    BY <1>2, <2>1, <2>2 DEF Closed
<1>5. \A i \in DOMAIN s : ~Out(b, e, i) => s[i].is # "code"
  BY <1>2, <1>3, OtherLines DEF Marks
<1>6. Apart(s, {d}, b, e, << >>) /\ Outside(s, {d}, b, e, << >>) /\ Cover(<< >>, {}) /\ \A k \in DOMAIN << >> : << >>[k].is # "code"
  BY NoLines, PlainIs DEF Apart, Outside
<1>7. Cover(r, Left(r, b, e, Len(<< >>), {d}))
  BY <1>1, <1>4, <1>6, CoverSpliced
<1>8. \E x \in 0 .. Len(r) : Cover(r, {x})
  <2>1. \A i \in DOMAIN s : i \in {d} /\ Out(b, e, i) => i = d
    OBVIOUS
  <2> QED
    BY <1>1, <1>7, <2>1, OneLeft
<1>9. ByHand(r) = ByHand(s)
  BY <1>1, <1>5, <1>6, ByHandSpliced
<1> QED
  BY <1>8, <1>9

LEMMA CoverFirst ==
    ASSUME NEW s, NEW x, NEW d, IsLines(s), Cover(s, {d}), x.is \notin Marks
    PROVE  \E y \in 0 .. Len(<<x>> \o s) : Cover(<<x>> \o s, {y})
<1> DEFINE r == <<x>> \o s
           t == <<x>>
           b == 1
           e == 0
<1>1. Spliced(r, s, b, e, t)
  BY FirstIs
<1>2. Plain(t) /\ Cover(t, {})
  BY LineIs, PlainIs
<1>3. DOMAIN s = 1 .. Len(s) /\ Len(s) \in Nat
  BY LinesAre
<1>4. \A i \in DOMAIN s : Out(b, e, i) /\ ~(i < b)
  BY <1>3 DEF Out
<1> HIDE DEF t, r, b, e
<1>5. Closed(s, {d}, b, e) /\ Apart(s, {d}, b, e, t) /\ Outside(s, {d}, b, e, t)
  BY <1>2, <1>4 DEF Closed, Apart, Outside, Plain, Marks
<1>6. Cover(r, Left(r, b, e, Len(t), {d}))
  BY <1>1, <1>2, <1>5, CoverSpliced
<1>7. \E y \in 0 .. Len(r) : Cover(r, {y})
  <2>1. \A i \in DOMAIN s : i \in {d} /\ Out(b, e, i) => i = d
    OBVIOUS
  <2> QED
    BY <1>1, <1>6, <2>1, OneLeft
<1> QED
  BY <1>7 DEF r, t

\* Half of a block taken away leaves the other half, and all other blocks.
LEMMA CoverHalf ==
    ASSUME NEW s, IsLines(s), Whole(s), NEW i \in DOMAIN s, s[i].is \in {"begin", "end"}
    PROVE  \E y \in 0 .. Len(RemoveAt(s, i)) : Cover(RemoveAt(s, i), {y})
<1> DEFINE r == RemoveAt(s, i)
<1>0. DOMAIN s = 1 .. Len(s) /\ Len(s) \in Nat /\ DOMAIN s \ {} = DOMAIN s
  BY LinesAre
<1>a. Cover(s, {})
  BY DEF Whole
<1>1. Spliced(r, s, i, i, << >>)
  BY TakenIs
<1> HIDE DEF r
<1>2. PICK c, f \in DOMAIN s : Spans(s, c, f) /\ s[c].of = s[i].of
  BY <1>a DEF Cover, Spanned
<1>3. i = c \/ i = f
  BY <1>a, <1>2 DEF Cover, Spans
<1> DEFINE X == {c, f}
           o == IF i = c THEN f ELSE c
\* Of their symbol there is no other.
<1>4. ASSUME NEW x \in DOMAIN s, NEW y \in DOMAIN s, Spans(s, x, y), x \in X \/ y \in X \/ s[x].of = s[c].of
      PROVE  x = c /\ y = f
  <2>1. /\ s[x].is = "begin" /\ s[y].is = "end" /\ s[x].of = s[y].of
        /\ s[c].is = "begin" /\ s[f].is = "end" /\ s[c].of = s[f].of
    BY <1>2, <1>4 DEF Spans
  <2>2. s[x].of = s[c].of
    BY <1>4, <2>1
  <2> QED
    BY <1>a, <2>1, <2>2 DEF Cover
<1>5. \A x, y \in DOMAIN s \ X : Spans(s, x, y) => s[x].of # s[c].of
  BY <1>4
<1>6. ASSUME NEW x \in DOMAIN s \ X, s[x].is \in {"begin", "end"}
      PROVE  Spanned(s, X, x)
  <2>1. PICK y, z \in DOMAIN s : Spans(s, y, z) /\ s[y].of = s[x].of /\ y <= x /\ x <= z
    BY <1>a, <1>6 DEF Cover, Spanned
  <2>2. x = y \/ x = z
    BY <1>a, <1>6, <2>1 DEF Cover, Spans
  <2>3. y \notin X /\ z \notin X
    BY <1>4, <1>6, <2>1, <2>2
  <2> QED
    BY <2>1, <2>3 DEF Spanned
<1>7. Cover(s, X)
  <2>1. \A x \in X : s[x].of = s[c].of
    BY <1>2 DEF Spans
  <2>2. \A x, y \in DOMAIN s \ X : Spans(s, x, y) =>
            \A z \in DOMAIN s : x <= z /\ z <= y => s[z].is \in Marks /\ (z \in X => s[z].of # s[x].of)
    BY <1>a, <1>5, <2>1 DEF Cover
  <2>3. /\ Bare(s)
        /\ \A x, y \in DOMAIN s : s[x].is \in {"begin", "end"} /\ s[y].is = s[x].is /\ s[y].of = s[x].of => x = y
        /\ \A x, y, z, w \in DOMAIN s : Spans(s, x, y) /\ Spans(s, z, w) /\ x < z /\ z < y => w < y
    BY <1>a DEF Cover
  <2> HIDE DEF X
  <2> QED
    BY <1>6, <2>2, <2>3 DEF Cover
<1>8. Closed(s, X, i, i)
  <2>1. \A x \in DOMAIN s \ X : Out(i, i, x)
    BY <1>0, <1>3 DEF Out
  <2> QED
    BY <2>1 DEF Closed
<1>9. \A x \in DOMAIN s : x \in X /\ Out(i, i, x) => x = o
  BY <1>0, <1>3 DEF Out
<1> HIDE DEF X, o
<1>10. Apart(s, X, i, i, << >>) /\ Outside(s, X, i, i, << >>) /\ Cover(<< >>, {})
  BY NoLines, PlainIs DEF Apart, Outside
<1>11. Cover(r, Left(r, i, i, Len(<< >>), X))
  BY <1>1, <1>7, <1>8, <1>10, CoverSpliced
<1>12. \E y \in 0 .. Len(r) : Cover(r, {y})
  BY <1>1, <1>9, <1>11, OneLeft
<1> QED
  BY <1>12 DEF r

(***************************************************************************)
(* Blocks of three lines.                                                  *)
(***************************************************************************)

LEMMA AttachedFound ==
    ASSUME NEW s, NEW id, IsLines(s), Attached(s), Found(s, id)
    PROVE  EndOf(s, id) = BeginOf(s, id) + 2 /\ s[BeginOf(s, id) + 1].is = "body"
<1> DEFINE b == BeginOf(s, id)
           e == EndOf(s, id)
<1>0. DOMAIN s = 1 .. Len(s) /\ Len(s) \in Nat
  BY LinesAre
<1>1. /\ b \in DOMAIN s /\ e \in DOMAIN s /\ b < e /\ s[b] = BeginLine(id) /\ s[e] = EndLine(id)
      /\ \A i \in DOMAIN s : s[i] = BeginLine(id) /\ i < e => i <= b
  BY FoundIs
<1> HIDE DEF b, e
<1>2. s[b].is = "begin" /\ s[e].is = "end" /\ s[e].of = id /\ b \in Nat /\ e \in Nat
  BY <1>0, <1>1, OtherLines
<1>3. e - 2 \in DOMAIN s /\ s[e - 1].is = "body" /\ s[e - 2] = BeginLine(id)
  BY <1>1, <1>2 DEF Attached
<1>4. e - 2 <= b
  BY <1>0, <1>1, <1>3
<1>5. b # e - 1
  BY <1>2, <1>3
<1>6. b + 1 = e - 1 /\ e = b + 2
  BY <1>1, <1>2, <1>4, <1>5
<1> QED
  BY <1>3, <1>6 DEF b, e

\* Lines that begin where no block can go on, and end where none can.
LEMMA ClearIs ==
    ASSUME NEW s, IsLines(s), Attached(s), NEW b \in DOMAIN s, NEW e \in DOMAIN s, b <= e,
           s[b].is \notin {"body", "end"}, s[e].is \notin {"body", "begin"}
    PROVE  Clear(s, b, e)
<1>0. DOMAIN s = 1 .. Len(s) /\ Len(s) \in Nat
  BY LinesAre
<1> SUFFICES ASSUME NEW i \in DOMAIN s, Out(b, e, i)
             PROVE  /\ s[i].is = "begin" => i + 2 < b \/ i > e
                    /\ s[i].is = "end" => i < b \/ i - 2 > e
  BY DEF Clear
<1>1. i \in Nat /\ b \in Nat /\ e \in Nat
  BY <1>0
<1>2. ASSUME s[i].is = "begin", ~(i > e)
      PROVE  i + 2 < b
  <2>1. s[i + 1].is = "body" /\ s[i + 2].is = "end"
    BY <1>2, OtherLines DEF Attached
  <2>2. i + 1 # b /\ i + 2 # b
    BY <2>1
  <2> QED
    BY <1>1, <1>2, <2>2 DEF Out
<1>3. ASSUME s[i].is = "end", ~(i < b)
      PROVE  i - 2 > e
  <2>1. s[i - 1].is = "body" /\ s[i - 2].is = "begin"
    BY <1>3, OtherLines DEF Attached
  <2>2. i - 1 # e /\ i - 2 # e
    BY <2>1
  <2> QED
    BY <1>1, <1>3, <2>2 DEF Out
<1> QED
  BY <1>2, <1>3

\* A block that is put between the lines of another shows.
LEMMA ClearInsert ==
    ASSUME NEW r, NEW s, NEW id, NEW notes, NEW p \in Nat, IsLines(s), Attached(s), ~Found(s, id),
           Spliced(r, s, p + 1, p, RenderBlock(id, notes)), ~Interleaved(r)
    PROVE  Clear(s, p + 1, p)
<1> DEFINE b == p + 1
           t == RenderBlock(id, notes)
           n == Len(t)
<1>0. Spliced(r, s, b, p, t) /\ b \in Nat /\ b > p
  OBVIOUS
<1>a. n = 3
  BY BlockIs
<1> HIDE DEF b, t, n
<1>1. DOMAIN s = 1 .. Len(s) /\ Len(s) \in Nat
  BY LinesAre
<1>2. /\ DOMAIN r \subseteq Nat
      /\ \A j \in DOMAIN r : Old(b, n, j) => r[j] = s[From(b, p, n, j)]
      /\ \A i \in DOMAIN s : Out(b, p, i) => \E j \in DOMAIN r : Old(b, n, j) /\ From(b, p, n, j) = i
      /\ \A i, j \in DOMAIN r : Old(b, n, i) /\ ~Old(b, n, j) =>
             (i < j => From(b, p, n, i) < b) /\ (j < i => From(b, p, n, i) > p)
  BY <1>0, SplicedFrom DEF n
<1>3. b \in DOMAIN r /\ r[b] = BeginLine(id) /\ ~Old(b, n, b)
  BY <1>0, <1>a, HoldsPut DEF Old, t
\* No block of another symbol is around the lines that are put.
<1>4. ASSUME NEW i \in DOMAIN s, i + 2 \in DOMAIN s, s[i].is = "begin", s[i + 2] = EndLine(s[i].of)
      PROVE  i + 2 < b \/ i > p
  <2> SUFFICES ASSUME ~(i + 2 < b), ~(i > p)
               PROVE  FALSE
    OBVIOUS
  <2>0. s[i] = BeginLine(s[i].of)
    BY <1>4 DEF Attached, Bare
  <2>1. s[i].of # id
    <3> SUFFICES ASSUME s[i].of = id
                 PROVE  FALSE
      OBVIOUS
    <3>1. i + 2 \in Ends(s, id)
      BY <1>1, <1>4, <2>0 DEF Ends, Begins
    <3> QED
      BY <3>1 DEF Found
  <2>2. Out(b, p, i) /\ Out(b, p, i + 2)
    BY <1>0, <1>1 DEF Out
  <2>3. PICK x \in DOMAIN r : Old(b, n, x) /\ From(b, p, n, x) = i
    BY <1>2, <2>2
  <2>4. PICK y \in DOMAIN r : Old(b, n, y) /\ From(b, p, n, y) = i + 2
    BY <1>2, <1>4, <2>2
  <2>5. r[x] = s[i] /\ r[y] = s[i + 2]
    BY <1>2, <2>3, <2>4
  <2>6. x <= b /\ b <= y
    <3>1. x \in Nat /\ y \in Nat
      BY <1>2
    <3>2. ~(b < x)
      BY <1>2, <1>3, <2>3
    <3>3. ~(y < b)
      <4>1. y < b => i + 2 < b
        BY <1>2, <1>3, <2>4
      <4> QED
        BY <4>1
    <3> QED
      BY <1>0, <3>1, <3>2, <3>3
  <2>7. b \in x .. y
    BY <1>0, <1>2, <2>6
  <2>8. r[x].is = "begin" /\ r[y] = EndLine(r[x].of) /\ r[b].is = "begin" /\ r[b].of # r[x].of
    BY <1>3, <1>4, <2>1, <2>5, OtherLines
  <2> QED
    BY <1>3, <2>7, <2>8 DEF Interleaved
<1>5. ASSUME NEW i \in DOMAIN s
      PROVE  /\ s[i].is = "begin" => i + 2 < b \/ i > p
             /\ s[i].is = "end" => i < b \/ i - 2 > p
  <2>1. ASSUME s[i].is = "begin"
        PROVE  i + 2 < b \/ i > p
    BY <1>4, <2>1 DEF Attached
  <2>2. ASSUME s[i].is = "end"
        PROVE  i < b \/ i - 2 > p
    <3> DEFINE c == i - 2
    <3>1. c \in DOMAIN s /\ s[c] = BeginLine(s[i].of) /\ s[i] = EndLine(s[i].of) /\ c + 2 = i
      BY <1>1, <2>2 DEF Attached, Bare
    <3> HIDE DEF c
    <3>2. s[c].is = "begin" /\ s[c + 2] = EndLine(s[c].of) /\ c + 2 \in DOMAIN s
      BY <3>1, OtherLines
    <3>3. c + 2 < b \/ c > p
      BY <1>4, <3>1, <3>2
    <3> QED
      BY <3>1, <3>3 DEF c
  <2> QED
    BY <2>1, <2>2
<1> QED
  BY <1>5 DEF Clear, b

LEMMA AttachedPut ==
    ASSUME NEW r, NEW s, NEW b, NEW e, NEW id, NEW notes, Put(r, s, b, e, id, notes), IsLines(s), Attached(s),
           ~Interleaved(r)
    PROVE  /\ Attached(r)
           /\ Clear(s, b, e)
           /\ \A i \in DOMAIN s : ~Out(b, e, i) => s[i] = BeginLine(id) \/ s[i].is \in {"body", "end"}
<1> DEFINE t == RenderBlock(id, notes)
<1>1. Spliced(r, s, b, e, t)
  BY DEF Put
<1>2. Attached(t)
  BY BlockIs
<1>3. DOMAIN s = 1 .. Len(s) /\ Len(s) \in Nat /\ b \in Nat /\ e \in Nat
  BY <1>1, LinesAre DEF Spliced
<1>4. Clear(s, b, e) /\ \A i \in DOMAIN s : ~Out(b, e, i) => s[i] = BeginLine(id) \/ s[i].is \in {"body", "end"}
  <2>1. CASE Found(s, id) /\ b = BeginOf(s, id) /\ e = EndOf(s, id)
    <3>1. e = b + 2 /\ s[b + 1].is = "body"
      BY <2>1, AttachedFound
    <3>2. b \in DOMAIN s /\ e \in DOMAIN s /\ b < e /\ s[b] = BeginLine(id) /\ s[e] = EndLine(id)
      BY <2>1, FoundIs
    <3>3. s[b].is = "begin" /\ s[e].is = "end"
      BY <3>2, OtherLines
    <3>4. Clear(s, b, e)
      <4>1. b <= e /\ s[b].is \notin {"body", "end"} /\ s[e].is \notin {"body", "begin"}
        BY <1>3, <3>2, <3>3
      <4> QED
        BY <3>2, <4>1, ClearIs
    <3>5. ASSUME NEW i \in DOMAIN s, ~Out(b, e, i)
          PROVE  s[i] = BeginLine(id) \/ s[i].is \in {"body", "end"}
      <4>1. i = b \/ i = b + 1 \/ i = e
        BY <1>3, <3>1, <3>5 DEF Out
      <4> QED
        BY <3>1, <3>2, <3>3, <4>1
    <3> QED
      BY <3>4, <3>5
  <2>2. CASE ~Found(s, id) /\ b = e + 1
    <3>1. Spliced(r, s, e + 1, e, RenderBlock(id, notes))
      BY <1>1, <2>2
    <3>2. Clear(s, b, e)
      BY <1>3, <2>2, <3>1, ClearInsert
    <3>3. \A i \in DOMAIN s : Out(b, e, i)
      BY <1>3, <2>2 DEF Out
    <3> QED
      BY <3>2, <3>3
  <2> QED
    BY <2>1, <2>2 DEF Put
<1> HIDE DEF t
<1>5. Attached(r)
  BY <1>1, <1>2, <1>4, AttachedSpliced
<1> QED
  BY <1>4, <1>5

LEMMA AttachedTook ==
    ASSUME NEW r, NEW s, NEW b, NEW id, Took(r, s, b, id), IsLines(s), Attached(s)
    PROVE  Attached(r)
<1> DEFINE c == BeginOf(s, id)
           e == EndOf(s, id)
<1>1. Spliced(r, s, b, e, << >>) /\ Found(s, id)
  BY DEF Took
<1>2. DOMAIN s = 1 .. Len(s) /\ Len(s) \in Nat
  BY LinesAre
<1>3. c \in DOMAIN s /\ e \in DOMAIN s /\ c < e /\ s[c] = BeginLine(id) /\ s[e] = EndLine(id)
  BY <1>1, FoundIs
<1>4. b \in DOMAIN s /\ (b = c \/ (b = c - 1 /\ s[b] = Blank))
  BY DEF Took
<1> HIDE DEF c, e
<1>5. b <= e /\ s[b].is \notin {"body", "end"} /\ s[e].is \notin {"body", "begin"}
  BY <1>2, <1>3, <1>4, OtherLines
<1>6. Clear(s, b, e)
  BY <1>3, <1>4, <1>5, ClearIs
<1> QED
  BY <1>1, <1>6, NoLines, PlainIs, AttachedSpliced

LEMMA AttachedFirst ==
    ASSUME NEW s, NEW x, IsLines(s), Attached(s), x.is \notin Marks
    PROVE  Attached(<<x>> \o s)
<1> DEFINE r == <<x>> \o s
           t == <<x>>
<1>1. Spliced(r, s, 1, 0, t)
  BY FirstIs
<1>2. Attached(t)
  BY LineIs, PlainIs
<1> HIDE DEF t, r
<1>3. DOMAIN s = 1 .. Len(s) /\ Len(s) \in Nat
  BY LinesAre
<1>4. Clear(s, 1, 0)
  <2>1. \A i \in DOMAIN s : s[i].is = "end" => i - 2 > 0
    BY <1>3 DEF Attached
  <2> QED
    BY <1>3, <2>1 DEF Clear
<1>5. Attached(r)
  BY <1>1, <1>2, <1>4, AttachedSpliced
<1> QED
  BY <1>5 DEF r

\* A block that none of the lines were taken of, and none put into, stands.
LEMMA HoldsKept ==
    ASSUME NEW r, NEW s, NEW t, NEW b, NEW e, Spliced(r, s, b, e, t), Attached(s), Clear(s, b, e),
           NEW id, NEW notes, Holds(s, id, notes), \A i \in DOMAIN s : ~Out(b, e, i) => s[i] # BeginLine(id)
    PROVE  Holds(r, id, notes)
<1> DEFINE block == RenderBlock(id, notes)
           n == Len(t) - (e - b + 1)
<1>0. /\ DOMAIN s = 1 .. Len(s) /\ Len(s) \in Nat /\ DOMAIN r = 1 .. Len(r) /\ Len(t) \in Nat
      /\ b \in Nat \ {0} /\ e \in Nat /\ b <= e + 1 /\ e <= Len(s) /\ Len(r) = Len(s) + n
      /\ \A i \in 1 .. b - 1 : r[i] = s[i]
  BY LinesAre DEF Spliced
<1>1. \A i \in e + 1 .. Len(s) : r[i + Len(t) - (e - b + 1)] = s[i]
  BY DEF Spliced
<1>2. PICK i \in DOMAIN s : i + 2 \in DOMAIN s /\ \A k \in 1 .. 3 : s[i + k - 1] = block[k]
  BY DEF Holds
<1>3. block[1] = BeginLine(id)
  BY BlockIs
<1>a. n \in Int /\ \A j \in e + 1 .. Len(s) : r[j + n] = s[j]
  <2>1. n \in Int
    BY <1>0
  <2>2. \A j \in e + 1 .. Len(s) : j + Len(t) - (e - b + 1) = j + n
    BY <1>0
  <2> HIDE DEF n
  <2> QED
    BY <1>1, <2>1, <2>2
<1>b. Len(r) = Len(s) + n /\ e + n >= b - 1
  BY <1>0
<1> HIDE DEF block, n
<1>4. s[i] = BeginLine(id)
  <2>1. i + 1 - 1 = i /\ 1 \in 1 .. 3
    BY <1>0
  <2> QED
    BY <1>2, <1>3, <2>1
<1>5. i + 2 < b \/ i > e
  <2>1. Out(b, e, i) /\ s[i].is = "begin"
    BY <1>0, <1>4, OtherLines
  <2> QED
    BY <2>1 DEF Clear
<1>6. CASE i + 2 < b
  <2>1. i \in DOMAIN r /\ i + 2 \in DOMAIN r
    <3>1. i \in Int /\ i >= 1 /\ i + 2 <= Len(r)
      BY <1>0, <1>6, <1>a, <1>b
    <3>2. Len(r) \in Int
      BY <1>0, <1>a, <1>b
    <3> QED
      BY <1>0, <3>1, <3>2
  <2>2. \A k \in 1 .. 3 : r[i + k - 1] = block[k]
    <3> TAKE k \in 1 .. 3
    <3>1. i + k - 1 \in 1 .. b - 1
      BY <1>0, <1>6
    <3> QED
      BY <1>0, <1>2, <3>1
  <2> QED
    BY <2>1, <2>2 DEF Holds, block
<1>7. CASE i > e
  <2> DEFINE j == i + n
  <2>1. j \in DOMAIN r /\ j + 2 \in DOMAIN r
    <3>1. i \in Int /\ i + 2 <= Len(s)
      BY <1>0, <1>2
    <3> QED
      BY <1>0, <1>7, <1>a, <1>b, <3>1
  <2>2. \A k \in 1 .. 3 : r[j + k - 1] = block[k]
    <3> TAKE k \in 1 .. 3
    <3> DEFINE l == i + k - 1
    <3>1. l \in e + 1 .. Len(s) /\ l + n = j + k - 1
      <4>1. i \in Int /\ i + 2 <= Len(s)
        BY <1>0, <1>2
      <4>2. e \in Int /\ Len(s) \in Int /\ n \in Int /\ k \in Int /\ 1 <= k /\ k <= 3
        BY <1>0, <1>a
      <4>3. l \in Int /\ e + 1 <= l /\ l <= Len(s) /\ l + n = j + k - 1
        BY <1>7, <4>1, <4>2
      <4> QED
        BY <4>2, <4>3
    <3>2. s[l] = block[k]
      BY <1>2
    <3> HIDE DEF l, j
    <3> QED
      BY <1>a, <3>1, <3>2
  <2> HIDE DEF j
  <2> QED
    BY <2>1, <2>2 DEF Holds, block
<1> QED
  BY <1>5, <1>6, <1>7

\* In a whole file a block that holds is the one that is found, so that to write it again changes nothing.
LEMMA HoldsAgain ==
    ASSUME NEW s, NEW id, NEW notes, IsLines(s), Whole(s), Holds(s, id, notes)
    PROVE  /\ Found(s, id)
           /\ ReplaceBlock(s, id, RenderBlock(id, notes)) = s
<1> DEFINE t == RenderBlock(id, notes)
           b == BeginOf(s, id)
           e == EndOf(s, id)
           r == ReplaceBlock(s, id, t)
<1>0. DOMAIN s = 1 .. Len(s) /\ Len(s) \in Nat
  BY LinesAre
<1>1. PICK i \in DOMAIN s : i + 2 \in DOMAIN s /\ \A k \in 1 .. 3 : s[i + k - 1] = t[k]
  BY DEF Holds
<1>2. IsLines(t) /\ Len(t) = 3 /\ t[1] = BeginLine(id) /\ t[3] = EndLine(id)
  BY BlockIs
<1> HIDE DEF t
<1>3. i + 1 - 1 = i /\ i + 3 - 1 = i + 2 /\ 1 \in 1 .. 3 /\ 3 \in 1 .. 3 /\ i < i + 2 /\ i \in Nat
  BY <1>0
<1>4. s[i] = BeginLine(id) /\ s[i + 2] = EndLine(id)
  BY <1>1, <1>2, <1>3
<1>5. Found(s, id)
  <2>1. i + 2 \in Ends(s, id)
    BY <1>1, <1>3, <1>4 DEF Ends, Begins
  <2> QED
    BY <2>1 DEF Found
<1>6. b = i /\ e = i + 2
  <2>1. b \in DOMAIN s /\ e \in DOMAIN s /\ s[b] = BeginLine(id) /\ s[e] = EndLine(id)
    BY <1>5, FoundIs
  <2> HIDE DEF b, e
  <2>2. \A x, y \in DOMAIN s : s[x].is \in {"begin", "end"} /\ s[y].is = s[x].is /\ s[y].of = s[x].of => x = y
    BY DEF Whole, Cover
  <2>3. b = i
    <3>1. s[b].is = "begin" /\ s[i].is = "begin" /\ s[b].of = s[i].of
      BY <1>4, <2>1, OtherLines
    <3> QED
      BY <2>1, <2>2, <3>1
  <2>4. e = i + 2
    <3> DEFINE f == i + 2
    <3>1. s[e].is = "end" /\ s[f].is = "end" /\ s[e].of = s[f].of /\ f \in DOMAIN s
      BY <1>1, <1>4, <2>1, OtherLines
    <3> HIDE DEF f
    <3>2. e = f
      BY <2>1, <2>2, <3>1
    <3> QED
      BY <3>2 DEF f
  <2> QED
    BY <2>3, <2>4
<1>7. Spliced(r, s, b, e, t)
  BY <1>2, <1>5, ReplaceIs
<1> HIDE DEF r, b, e
<1>8. Spliced(r, s, i, i + 2, t)
  BY <1>6, <1>7
<1>9. IsLines(r) /\ Len(r) = Len(s)
  <2>1. Len(r) = Len(s) + 3 - (i + 2 - i + 1)
    BY <1>2, <1>8 DEF Spliced
  <2> QED
    BY <1>0, <1>3, <1>8, <2>1 DEF Spliced
<1>10. ASSUME NEW j \in 1 .. Len(r)
       PROVE  r[j] = s[j]
  <2>1. CASE j < i
    <3>1. j \in 1 .. i - 1
      BY <1>0, <1>3, <1>9, <2>1
    <3>2. \A l \in 1 .. i - 1 : r[l] = s[l]
      BY <1>8 DEF Spliced
    <3> QED
      BY <3>1, <3>2
  <2>2. CASE i <= j /\ j <= i + 2
    <3> DEFINE k == j - i + 1
    <3>1. k \in 1 .. 3 /\ i - 1 + k = j /\ i + k - 1 = j
      BY <1>0, <1>3, <1>9, <2>2
    <3> HIDE DEF k
    <3>2. r[i - 1 + k] = t[k]
      <4>1. \A l \in 1 .. 3 : r[i - 1 + l] = t[l]
        BY <1>2, <1>8 DEF Spliced
      <4> QED
        BY <3>1, <4>1
    <3>3. s[i + k - 1] = t[k]
      BY <1>1, <3>1
    <3> QED
      BY <3>1, <3>2, <3>3
  <2>3. CASE j > i + 2
    <3>1. \A l \in e + 1 .. Len(s) : r[l + Len(t) - (e - b + 1)] = s[l]
      BY <1>7 DEF Spliced
    <3>2. j \in e + 1 .. Len(s) /\ j + Len(t) - (e - b + 1) = j
      BY <1>0, <1>2, <1>3, <1>6, <1>9, <2>3
    <3> QED
      BY <3>1, <3>2
  <2> QED
    BY <1>0, <1>3, <1>9, <2>1, <2>2, <2>3
<1>11. r = s
  BY <1>9, <1>10, SameLines
<1> QED
  BY <1>5, <1>11 DEF r, t

(***************************************************************************)
(* What the command applies.                                               *)
(***************************************************************************)

LEMMA UpsertBeforeIs ==
    ASSUME NEW s, NEW id, NEW notes, NEW anchor \in Nat, IsLines(s)
    PROVE  \E b, e : /\ Put(UpsertBefore(s, id, notes, anchor), s, b, e, id, notes)
                     /\ ~Found(s, id) /\ anchor \in 1 .. Len(s) => b = anchor /\ e = anchor - 1
<1> DEFINE t == RenderBlock(id, notes)
<1>1. IsLines(t)
  BY BlockIs
<1>2. CASE Found(s, id)
  <2>1. UpsertBefore(s, id, notes, anchor) = ReplaceBlock(s, id, t)
    BY <1>2 DEF UpsertBefore
  <2>2. Spliced(ReplaceBlock(s, id, t), s, BeginOf(s, id), EndOf(s, id), t)
    <3> HIDE DEF t
    <3> QED
      BY <1>1, <1>2, ReplaceIs
  <2> QED
    BY <1>2, <2>1, <2>2 DEF Put
<1>3. CASE ~Found(s, id)
  <2>1. UpsertBefore(s, id, notes, anchor) = InsertBefore(s, t, anchor)
    BY <1>3 DEF UpsertBefore
  <2>2. PICK p \in 0 .. Len(s) : Spliced(InsertBefore(s, t, anchor), s, p + 1, p, t) /\ (anchor \in 1 .. Len(s) => p = anchor - 1)
    <3> HIDE DEF t
    <3> QED
      BY <1>1, InsertIs
  <2>3. anchor \in 1 .. Len(s) => p + 1 = anchor
    BY <2>2
  <2>4. Put(UpsertBefore(s, id, notes, anchor), s, p + 1, p, id, notes)
    BY <1>3, <2>1, <2>2 DEF Put
  <2> QED
    BY <2>2, <2>3, <2>4
<1> QED
  BY <1>2, <1>3

LEMMA RemoveMarkerIs ==
    ASSUME NEW s, NEW id, IsLines(s)
    PROVE  /\ Found(s, id) => \E b : Took(RemoveMarker(s, id), s, b, id)
           /\ ~Found(s, id) => RemoveMarker(s, id) = s
BY RemoveIs DEF Took, RemoveMarker

LEMMA ApplyLines ==
    ASSUME NEW s, NEW m, IsLines(s), m.line \in Nat
    PROVE  IsLines(Apply(s, m))
<1>1. IsLines(UpsertBefore(s, m.id, m.notes, m.line))
  BY UpsertBeforeIs DEF Put, Spliced
<1>2. IsLines(RemoveMarker(s, m.id))
  BY RemoveMarkerIs DEF Took, Spliced
<1> QED
  BY <1>1, <1>2 DEF Apply

\* In CLAUDE.md the block is put at the end.
LEMMA UpsertIs ==
    ASSUME NEW s, NEW id, NEW notes, IsLines(s), Whole(s)
    PROVE  LET r == Upsert(s, id, notes)
           IN  IsLines(r) /\ Whole(r) /\ ByHand(r) = ByHand(s) /\ Holds(r, id, notes)
<1> DEFINE t == RenderBlock(id, notes)
           r == Upsert(s, id, notes)
<1>1. IsLines(t)
  BY BlockIs
<1>2. CASE Found(s, id)
  <2>1. r = ReplaceBlock(s, id, t)
    BY <1>2 DEF Upsert
  <2>2. Spliced(ReplaceBlock(s, id, t), s, BeginOf(s, id), EndOf(s, id), t)
    <3> HIDE DEF t
    <3> QED
      BY <1>1, <1>2, ReplaceIs
  <2> HIDE DEF r
  <2>3. Put(r, s, BeginOf(s, id), EndOf(s, id), id, notes)
    BY <1>2, <2>1, <2>2 DEF Put
  <2>4. Whole(r) /\ ByHand(r) = ByHand(s)
    BY <2>3, PutWhole
  <2>5. Holds(r, id, notes)
    BY <2>1, <2>2, HoldsPut
  <2>6. IsLines(r)
    BY <2>1, <2>2 DEF Spliced
  <2> QED
    BY <2>4, <2>5, <2>6 DEF r
<1>3. CASE ~Found(s, id)
  <2>1. r = AppendBlock(s, t)
    BY <1>3 DEF Upsert
  <2>2. PICK q : /\ q = s \/ Spliced(q, s, Len(s) + 1, Len(s), <<Blank>>)
                 /\ IsLines(q) /\ Spliced(r, q, Len(q) + 1, Len(q), t)
    <3> HIDE DEF t, r
    <3> QED
      BY <1>1, <2>1, AppendIs
  <2> HIDE DEF r
  <2>3. Whole(q) /\ ByHand(q) = ByHand(s)
    <3>1. Len(s) \in Nat /\ ~(0 < Len(s) /\ Len(s) < Len(s))
      BY LinesAre
    <3>2. Blank.is \notin Marks /\ Blank.is # "code"
      BY OtherLines DEF Marks
    <3>3. CASE Spliced(q, s, Len(s) + 1, Len(s), <<Blank>>)
      <4> DEFINE x == Blank
                 e == Len(s)
      <4>1. Spliced(q, s, e + 1, e, <<x>>) /\ e \in Nat /\ ~(0 < e /\ e < Len(s)) /\ x.is \notin Marks /\ x.is # "code"
        BY <3>1, <3>2, <3>3
      <4> HIDE DEF x, e
      <4> QED
        BY <4>1, LineWhole
    <3> QED
      BY <2>2, <3>3
  <2>4. ~Found(q, id)
    <3>1. \A j \in DOMAIN q : q[j] = Blank \/ \E i \in DOMAIN s : q[j] = s[i]
      <4> DEFINE x == <<Blank>>
                 b == Len(s) + 1
                 e == Len(s)
                 n == Len(x)
      <4>1. \A k \in DOMAIN x : x[k] = Blank
        <5>1. \A k \in 1 .. 1 : k = 1
          OBVIOUS
        <5> QED
          BY <5>1, LineIs
      <4>2. CASE Spliced(q, s, b, e, x)
        <5> HIDE DEF x, b, e
        <5>1. /\ \A j \in DOMAIN q : Old(b, n, j) => From(b, e, n, j) \in DOMAIN s /\ q[j] = s[From(b, e, n, j)]
              /\ \A j \in DOMAIN q : ~Old(b, n, j) => From(b, e, n, j) \in DOMAIN x /\ q[j] = x[From(b, e, n, j)]
          BY <4>2, SplicedFrom
        <5> QED
          BY <4>1, <5>1
      <4> QED
        BY <2>2, <4>2
    <3>2. \A i \in DOMAIN s : s[i] # BeginLine(id)
      <4>1. BeginLine(id).is \in Marks /\ BeginLine(id).of = id
        BY OtherLines DEF Marks
      <4> QED
        BY <1>3, <4>1, WholeNotFound
    <3>3. Blank # BeginLine(id)
      BY OtherLines
    <3> QED
      BY <2>2, <3>1, <3>2, <3>3, FoundIs
  <2>5. Put(r, q, Len(q) + 1, Len(q), id, notes)
    BY <2>2, <2>4 DEF Put
  <2>6. Whole(r) /\ ByHand(r) = ByHand(q)
    BY <2>2, <2>3, <2>5, PutWhole
  <2>7. Holds(r, id, notes)
    BY <2>2, HoldsPut
  <2>8. IsLines(r)
    BY <2>2 DEF Spliced
  <2> QED
    BY <2>3, <2>6, <2>7, <2>8 DEF r
<1> QED
  BY <1>2, <1>3

LEMMA FunctionIs ==
    ASSUME NEW n \in Nat, NEW f, f = [i \in 1 .. n |-> f[i]]
    PROVE  IsLines(f) /\ Len(f) = n /\ DOMAIN f = 1 .. n
<1> DEFINE S == {f[i] : i \in 1 .. n}
<1>1. f \in [1 .. n -> S] /\ DOMAIN f = 1 .. n
  <2>1. \A i \in 1 .. n : f[i] \in S
    OBVIOUS
  <2> HIDE DEF S
  <2> QED
    BY <2>1
<1> HIDE DEF S
<1>2. f \in Seq(S)
  BY <1>1, SeqDef
<1>3. Len(f) \in Nat /\ 1 .. Len(f) = 1 .. n
  BY <1>1, <1>2, LenProperties
<1>4. Len(f) = n
  <2>1. n > 0 => n \in 1 .. Len(f)
    BY <1>3
  <2>2. Len(f) > 0 => Len(f) \in 1 .. n
    BY <1>3
  <2> QED
    BY <1>3, <2>1, <2>2
<1> QED
  BY <1>1, <1>2, <1>4, LinesOf

LEMMA MarkersInAre ==
    ASSUME IsLines(vault), NEW lines, IsLines(lines)
    PROVE  /\ IsLines(MarkersIn(lines)) /\ Len(MarkersIn(lines)) \in Nat /\ DOMAIN MarkersIn(lines) = 1 .. Len(MarkersIn(lines))
           /\ \A k \in DOMAIN MarkersIn(lines) : MarkersIn(lines)[k].line \in DOMAIN lines /\ lines[MarkersIn(lines)[k].line] = Code(MarkersIn(lines)[k].id)
           /\ \A k \in DOMAIN MarkersIn(lines) : MarkersIn(lines)[k].line \in Nat
           /\ \A k, l \in DOMAIN MarkersIn(lines) : MarkersIn(lines)[k].id = MarkersIn(lines)[l].id => k = l
<1> DEFINE firsts == {i \in DOMAIN vault : /\ Declared(vault[i].symbol, lines)
                                           /\ \A j \in 1 .. i - 1 : vault[j].symbol # vault[i].symbol}
           n == Cardinality(firsts)
           M(k) == [id |-> vault[Ascending(firsts)[k]].symbol, notes |-> NotesOf(vault[Ascending(firsts)[k]].symbol),
                    line |-> LineOf(vault[Ascending(firsts)[k]].symbol, lines)]
<1>0. DOMAIN vault = 1 .. Len(vault) /\ Len(vault) \in Nat /\ DOMAIN lines = 1 .. Len(lines) /\ Len(lines) \in Nat
  BY LinesAre
<1>1. firsts \in SUBSET Nat /\ IsFiniteSet(firsts)
  <2>1. IsFiniteSet(1 .. Len(vault)) /\ firsts \in SUBSET (1 .. Len(vault))
    BY <1>0, FS_Interval
  <2> HIDE DEF firsts
  <2>2. firsts \in SUBSET Nat
    BY <1>0, <2>1
  <2>3. IsFiniteSet(firsts)
    BY <2>1, FS_Subset
  <2> QED
    BY <2>2, <2>3
<1>2. MarkersIn(lines) = [k \in 1 .. n |-> M(k)]
  BY DEF MarkersIn
<1>3. \A i \in firsts : i \in DOMAIN vault /\ Declared(vault[i].symbol, lines)
  OBVIOUS
<1>4. \A i, j \in firsts : vault[i].symbol = vault[j].symbol => i = j
  <2> TAKE i, j \in firsts
  <2> HAVE vault[i].symbol = vault[j].symbol
  <2>1. i \in 1 .. Len(vault) /\ j \in 1 .. Len(vault)
    BY <1>0
  <2>2. i < j => i \in 1 .. j - 1
    BY <1>0, <2>1
  <2>3. j < i => j \in 1 .. i - 1
    BY <1>0, <2>1
  <2> QED
    BY <1>0, <2>1, <2>2, <2>3
<1> HIDE DEF firsts
<1>5. n \in Nat /\ \A k \in 1 .. n : Ascending(firsts)[k] \in firsts /\ Cardinality({j \in firsts : j < Ascending(firsts)[k]}) = k - 1
  BY <1>1, AscendingIs
<1>6. \A k, l \in 1 .. n : Ascending(firsts)[k] = Ascending(firsts)[l] => k = l
  <2> TAKE k, l \in 1 .. n
  <2> HAVE Ascending(firsts)[k] = Ascending(firsts)[l]
  <2>1. k - 1 = l - 1
    BY <1>5
  <2> QED
    BY <2>1
<1>7. ASSUME NEW x, Declared(x, lines)
      PROVE  LineOf(x, lines) \in DOMAIN lines /\ lines[LineOf(x, lines)] = Code(x)
  BY <1>7 DEF Declared, LineOf
<1>8. \A k \in 1 .. n : LET x == vault[Ascending(firsts)[k]].symbol IN MarkersIn(lines)[k].id = x /\ MarkersIn(lines)[k].line = LineOf(x, lines)
  <2> TAKE k \in 1 .. n
  <2>1. MarkersIn(lines)[k] = M(k)
    BY <1>2
  <2> QED
    BY <2>1
<1> HIDE DEF n
<1>9. IsLines(MarkersIn(lines)) /\ Len(MarkersIn(lines)) = n /\ DOMAIN MarkersIn(lines) = 1 .. n
  <2>1. MarkersIn(lines) = [k \in 1 .. n |-> MarkersIn(lines)[k]]
    BY <1>2
  <2> QED
    BY <1>5, <2>1, FunctionIs
<1>10. \A k \in 1 .. n : MarkersIn(lines)[k].line \in DOMAIN lines /\ lines[MarkersIn(lines)[k].line] = Code(MarkersIn(lines)[k].id)
  <2> TAKE k \in 1 .. n
  <2> DEFINE x == vault[Ascending(firsts)[k]].symbol
  <2>1. Declared(x, lines)
    BY <1>3, <1>5
  <2>2. MarkersIn(lines)[k].line = LineOf(x, lines) /\ MarkersIn(lines)[k].id = x
    BY <1>8
  <2> HIDE DEF x
  <2> QED
    BY <1>7, <2>1, <2>2
<1>11. \A k, l \in 1 .. n : MarkersIn(lines)[k].id = MarkersIn(lines)[l].id => k = l
  <2> TAKE k, l \in 1 .. n
  <2> HAVE MarkersIn(lines)[k].id = MarkersIn(lines)[l].id
  <2>1. vault[Ascending(firsts)[k]].symbol = vault[Ascending(firsts)[l]].symbol
    BY <1>8
  <2> QED
    BY <1>4, <1>5, <1>6, <2>1
<1> QED
  BY <1>0, <1>5, <1>9, <1>10, <1>11

LEMMA MarkersAre ==
    ASSUME IsLines(vault), IsLines(head)
    PROVE  /\ IsLines(Markers) /\ Len(Markers) \in Nat /\ DOMAIN Markers = 1 .. Len(Markers)
           /\ \A k \in DOMAIN Markers : Markers[k].line \in DOMAIN head /\ head[Markers[k].line] = Code(Markers[k].id)
           /\ \A k \in DOMAIN Markers : Markers[k].line \in Nat
           /\ \A k, l \in DOMAIN Markers : Markers[k].id = Markers[l].id => k = l
BY MarkersInAre DEF Markers

(***************************************************************************)
(* The invariant, step by step.                                            *)
(***************************************************************************)

IInv == Types /\ Current /\ Sound /\ Progress /\ FromBelow

LEMMA FilesDiffer == Src # Claude
BY DEF Src, Claude

LEMMA PlainFirst ==
    ASSUME NEW s, NEW x, IsLines(s), Plain(s), x.is \notin Marks
    PROVE  IsLines(<<x>> \o s) /\ Plain(<<x>> \o s)
<1> DEFINE t == <<x>>
           r == t \o s
           b == 1
           e == 0
<1>1. Spliced(r, s, b, e, t)
  BY FirstIs
<1>2. Plain(t)
  BY LineIs
<1> HIDE DEF t, r, b, e
<1>3. \A j \in DOMAIN r : (\E i \in DOMAIN s : r[j] = s[i]) \/ (\E k \in DOMAIN t : r[j] = t[k])
  BY <1>1, SplicedLines
<1>4. Plain(r)
  BY <1>2, <1>3 DEF Plain
<1> QED
  BY <1>1, <1>4 DEF Spliced, r, t

LEMMA InitTypes ==
    ASSUME Init
    PROVE  /\ Types
           /\ Plain(file[Src]) /\ Plain(file[Claude])
           /\ authored = [f \in {Src, Claude} |-> ByHand(file[f])]
<1> USE FilesDiffer
<1>1. PICK unsaved \in {<< >>, <<Code("")>>} : file = [f \in {Src, Claude} |-> IF f = Src THEN unsaved \o head ELSE <<Code("")>>]
  BY DEF Init
<1>2. head \in Seq(ToSet(head)) /\ \A i \in DOMAIN head : head[i] \in {Blank, Code(head[i].of)}
  BY SourcesAssumption DEF Init
<1>3. IsLines(head) /\ IsLines(vault)
  BY <1>2, VaultsAssumption DEF Init, IsLines
<1>4. Plain(head)
  BY <1>2, OtherLines DEF Plain, Marks
<1>5. file[Src] = unsaved \o head /\ file[Claude] = <<Code("")>>
  BY <1>1
<1>6. IsLines(file[Claude]) /\ Plain(file[Claude])
  BY <1>5, LineIs, OtherLines DEF Marks
<1>7. IsLines(file[Src]) /\ Plain(file[Src])
  <2>1. CASE unsaved = << >>
    <3>1. unsaved \o head = head
      BY <1>2, <2>1, ConcatEmptySeq
    <3> QED
      BY <1>3, <1>4, <1>5, <3>1
  <2>2. CASE unsaved = <<Code("")>>
    <3> DEFINE x == Code("")
    <3>1. x.is \notin Marks
      BY OtherLines DEF Marks
    <3>2. file[Src] = <<x>> \o head
      BY <1>5, <2>2
    <3> HIDE DEF x
    <3> QED
      BY <1>3, <1>4, <3>1, <3>2, PlainFirst
  <2> QED
    BY <2>1, <2>2
<1>8. authored = [f \in {Src, Claude} |-> ByHand(file[f])]
  BY DEF Init
<1>9. IsLines(plan) /\ DOMAIN plan = {} /\ IsLines(snap)
  BY NoLines DEF Init
<1>10. file = [f \in {Src, Claude} |-> file[f]] /\ authored = [f \in {Src, Claude} |-> authored[f]]
  BY <1>1, <1>8
<1>11. /\ at = "idle" /\ op = "write" /\ halves = 0
       /\ quiet \in BOOLEAN /\ fresh \in BOOLEAN /\ nested \in BOOLEAN /\ torn \in BOOLEAN
  BY DEF Init
<1>12. Types
  BY <1>3, <1>6, <1>7, <1>9, <1>10, <1>11 DEF Types
<1> QED
  BY <1>6, <1>7, <1>8, <1>12

LEMMA InitIInv ==
    ASSUME Init
    PROVE  IInv
<1>1. Types /\ Plain(file[Src]) /\ Plain(file[Claude]) /\ authored = [f \in {Src, Claude} |-> ByHand(file[f])]
  BY InitTypes
<1>2. at = "idle" /\ halves = 0
  BY DEF Init
<1>3. Sound
  <2>1. authored[Src] = ByHand(file[Src]) /\ authored[Claude] = ByHand(file[Claude])
    BY <1>1
  <2> QED
    BY <1>1, <1>2, <2>1, PlainIs DEF Sound
<1>4. Current /\ Progress /\ FromBelow
  BY <1>2 DEF Current, Progress, FromBelow, Alone, Starting, Running
<1> QED
  BY <1>1, <1>3, <1>4 DEF IInv

LEMMA RestOfList ==
    ASSUME NEW s, IsLines(s), s # << >>
    PROVE  /\ IsLines(Tail(s)) /\ Len(Tail(s)) = Len(s) - 1 /\ Len(s) \in Nat \ {0} /\ 1 \in DOMAIN s /\ Head(s) = s[1]
           /\ \A i \in DOMAIN Tail(s) : i + 1 \in DOMAIN s /\ Tail(s)[i] = s[i + 1]
<1>1. s \in Seq(ToSet(s))
  BY DEF IsLines
<1>2. Tail(s) \in Seq(ToSet(s)) /\ Len(Tail(s)) = Len(s) - 1 /\ Len(s) \in Nat \ {0} /\ Head(s) = s[1]
  <2>1. Len(s) \in Nat /\ Len(s) # 0
    BY <1>1, EmptySeq, LenProperties
  <2> QED
    BY <1>1, <2>1, HeadTailProperties
<1>3. DOMAIN s = 1 .. Len(s) /\ DOMAIN Tail(s) = 1 .. Len(s) - 1
  BY <1>1, <1>2, LenProperties
<1>4. \A i \in 1 .. Len(s) - 1 : Tail(s)[i] = s[i + 1]
  BY <1>1, <1>2, HeadTailProperties
<1>5. IsLines(Tail(s))
  BY <1>2, LinesOf
<1> QED
  BY <1>2, <1>3, <1>4, <1>5

\* What an edit leaves.
LEMMA EditIs ==
    ASSUME Types, NEW lines, NEW f \in {Src, Claude}, Edit(lines, f), IsLines(lines)
    PROVE  /\ file'[f] = lines /\ authored'[f] = ByHand(lines)
           /\ \A g \in {Src, Claude} : g # f => file'[g] = file[g] /\ authored'[g] = authored[g]
           /\ IsLines(file'[Src]) /\ IsLines(file'[Claude])
           /\ file' = [g \in {Src, Claude} |-> file'[g]] /\ authored' = [g \in {Src, Claude} |-> authored'[g]]
<1>1. file' = [file EXCEPT ![f] = lines] /\ authored' = [authored EXCEPT ![f] = ByHand(lines)]
  BY DEF Edit
<1>2. file = [g \in {Src, Claude} |-> file[g]] /\ authored = [g \in {Src, Claude} |-> authored[g]] /\ IsLines(file[Src]) /\ IsLines(file[Claude])
  BY DEF Types
<1>3. /\ DOMAIN file' = {Src, Claude} /\ file'[f] = lines /\ authored'[f] = ByHand(lines)
      /\ \A g \in {Src, Claude} : g # f => file'[g] = file[g] /\ authored'[g] = authored[g]
      /\ file' = [g \in {Src, Claude} |-> file'[g]] /\ authored' = [g \in {Src, Claude} |-> authored'[g]]
  BY <1>1, <1>2
<1>4. IsLines(file'[Src]) /\ IsLines(file'[Claude])
  BY <1>2, <1>3
<1> QED
  BY <1>3, <1>4

LEMMA AddLineIs ==
    ASSUME Types, AddLine
    PROVE  \E f \in {Src, Claude} : Edit(<<Code("")>> \o file[f], f) /\ IsLines(<<Code("")>> \o file[f])
BY FirstIs DEF Types, AddLine, Spliced

LEMMA TakeHalfIs ==
    ASSUME Types, TakeHalf
    PROVE  \E i \in DOMAIN file[Src] : /\ file[Src][i].is \in {"begin", "end"}
                                       /\ Edit(RemoveAt(file[Src], i), Src) /\ IsLines(RemoveAt(file[Src], i))
BY TakenIs DEF Types, TakeHalf, Spliced

LEMMA IndentIs ==
    ASSUME Types, Indent
    PROVE  \E lines : Edit(lines, Src) /\ IsLines(lines) /\ Plain(lines)
<1> DEFINE s == file[Src]
           lines == [i \in DOMAIN s |-> IF s[i].is \in {"code", "blank"} THEN s[i] ELSE Line("comment", s[i].of, s[i].says)]
<1>1. Edit(lines, Src)
  BY DEF Indent
<1>2. DOMAIN s = 1 .. Len(s) /\ Len(s) \in Nat
  BY LinesAre DEF Types
<1> HIDE DEF s
<1>3. IsLines(lines)
  <2>1. lines = [i \in 1 .. Len(s) |-> lines[i]]
    BY <1>2
  <2> HIDE DEF lines
  <2> QED
    BY <1>2, <2>1, FunctionIs
<1>4. Plain(lines)
  <2>1. \A i \in DOMAIN s : lines[i].is \notin Marks
    BY DEF Line, Marks
  <2>2. DOMAIN lines = DOMAIN s
    OBVIOUS
  <2> HIDE DEF lines
  <2> QED
    BY <2>1, <2>2 DEF Plain
<1> HIDE DEF lines
<1> QED
  BY <1>1, <1>3, <1>4

LEMMA StepTypes ==
    ASSUME IInv, [Next]_vars
    PROVE  Types'
<1> USE FilesDiffer
<1>1. Types /\ Sound
  BY DEF IInv
<1>2. CASE Begin
  <2>1. /\ snap' = head /\ op' \in {"write", "remove"} /\ at' \in {"fragment", "resolve"} /\ quiet' \in BOOLEAN /\ fresh' \in BOOLEAN
        /\ UNCHANGED <<file, head, vault, plan, authored, nested, torn, halves>>
    BY <1>2 DEF Begin, repo
  <2>2. at' \in Starting /\ at' # "write"
    BY <2>1 DEF Starting
  <2> QED
    BY <1>1, <2>1, <2>2 DEF Types
<1>2a. CASE Resolve
  <2>1. IsLines(MarkersIn(snap)) /\ \A i \in DOMAIN MarkersIn(snap) : MarkersIn(snap)[i].line \in Nat
    BY <1>1, MarkersInAre DEF Types
  <2>2. /\ plan' = MarkersIn(snap) /\ snap' = << >> /\ at' = "read"
        /\ UNCHANGED <<file, head, vault, op, authored, quiet, fresh, nested, torn, halves>>
    BY <1>2a DEF Resolve, repo
  <2>3. IsLines(<< >>)
    BY NoLines
  <2> QED
    BY <1>1, <2>1, <2>2, <2>3 DEF Types, Running
<1>3. CASE Fragment
  <2>1. IsLines(Upsert(file[Claude], LogbackId, groups))
    BY <1>1, UpsertIs DEF Types, Sound
  <2>2. file' = [file EXCEPT ![Claude] = Upsert(file[Claude], LogbackId, groups)]
    BY <1>3 DEF Fragment
  <2>3. IsLines(file'[Src]) /\ IsLines(file'[Claude]) /\ file' = [f \in {Src, Claude} |-> file'[f]]
    BY <1>1, <2>1, <2>2 DEF Types
  <2>4. at' = "resolve" /\ UNCHANGED <<head, vault, snap, op, plan, authored, quiet, fresh, nested, torn, halves>>
    BY <1>3 DEF Fragment, seen
  <2> QED
    BY <1>1, <2>3, <2>4 DEF Types, Starting
<1>4. CASE ReadSource
  <2>1. plan # << >> /\ IsLines(plan) /\ \A i \in DOMAIN plan : plan[i].line \in Nat
    BY <1>1, <1>4 DEF ReadSource, Types
  <2>2. Head(plan).line \in Nat
    BY <2>1, RestOfList
  <2>3. IsLines(Apply(file[Src], Head(plan)))
    BY <1>1, <2>2, ApplyLines DEF Types
  <2>4. /\ at' = "write" /\ buffer' = Apply(file[Src], Head(plan))
        /\ UNCHANGED <<file, head, vault, snap, op, plan, authored, quiet, fresh, nested, torn, halves>>
    BY <1>4 DEF ReadSource, repo, seen
  <2> QED
    BY <1>1, <2>1, <2>3, <2>4 DEF Types, Running
<1>5. CASE WriteSource
  <2>1. plan # << >> /\ IsLines(plan) /\ IsLines(buffer) /\ \A i \in DOMAIN plan : plan[i].line \in Nat
    BY <1>1, <1>5 DEF WriteSource, Types
  <2>2. IsLines(Tail(plan)) /\ \A i \in DOMAIN Tail(plan) : Tail(plan)[i].line \in Nat
    BY <2>1, RestOfList
  <2>3. /\ file' = [file EXCEPT ![Src] = buffer] /\ nested' \in BOOLEAN /\ plan' = Tail(plan) /\ at' = "read"
        /\ UNCHANGED <<head, vault, snap, op, authored, quiet, fresh, torn, halves>>
    BY <1>5 DEF WriteSource, seen
  <2>4. IsLines(file'[Src]) /\ IsLines(file'[Claude]) /\ file' = [f \in {Src, Claude} |-> file'[f]]
    BY <1>1, <2>1, <2>3 DEF Types
  <2> QED
    BY <1>1, <2>2, <2>3, <2>4 DEF Types, Running
<1>6. CASE Done \/ Leave
  <2>1. at' \in {"done", "idle"} /\ UNCHANGED <<file, head, vault, snap, op, plan, authored, quiet, fresh, nested, torn, halves>>
    BY <1>6 DEF Done, Leave, repo, seen
  <2> QED
    BY <1>1, <2>1 DEF Types, Running
<1>7. CASE Killed
  <2>1. at' = "idle" /\ plan' = << >> /\ snap' = << >> /\ UNCHANGED <<head, vault, op, authored, quiet, fresh, nested, halves>>
    BY <1>7 DEF Killed
  <2>2. IsLines(<< >>) /\ DOMAIN << >> = {}
    BY NoLines
  <2>3. torn' \in BOOLEAN /\ IsLines(file'[Src]) /\ IsLines(file'[Claude]) /\ file' = [f \in {Src, Claude} |-> file'[f]]
    <3>1. CASE UNCHANGED <<file, torn>>
      BY <1>1, <3>1 DEF Types
    <3>2. CASE file' = [file EXCEPT ![Src] = << >>] /\ torn' = TRUE
      BY <1>1, <2>2, <3>2 DEF Types
    <3> QED
      BY <1>7, <3>1, <3>2 DEF Killed
  <2> QED
    BY <1>1, <2>1, <2>2, <2>3 DEF Types, Running
<1>8. ASSUME NEW lines, NEW f \in {Src, Claude}, Edit(lines, f), IsLines(lines), UNCHANGED <<head, vault>>,
             halves' \in Nat, torn' \in BOOLEAN
      PROVE  Types'
  <2>1. /\ IsLines(file'[Src]) /\ IsLines(file'[Claude])
        /\ file' = [g \in {Src, Claude} |-> file'[g]] /\ authored' = [g \in {Src, Claude} |-> authored'[g]]
    BY <1>1, <1>8, EditIs
  <2>2. quiet' = FALSE /\ UNCHANGED <<snap, at, op, plan, buffer, fresh, nested>>
    BY <1>8 DEF Edit, seen
  <2> QED
    BY <1>1, <1>8, <2>1, <2>2 DEF Types
<1>9. CASE AddLine
  <2>1. UNCHANGED <<head, vault>> /\ halves' \in Nat /\ torn' \in BOOLEAN
    BY <1>1, <1>9 DEF AddLine, Types
  <2> QED
    BY <1>1, <1>8, <1>9, <2>1, AddLineIs
<1>10. CASE TakeHalf
  <2>1. UNCHANGED <<head, vault>> /\ halves' \in Nat /\ torn' \in BOOLEAN
    BY <1>1, <1>10 DEF TakeHalf, Types
  <2> QED
    BY <1>1, <1>8, <1>10, <2>1, TakeHalfIs
<1>11. CASE Indent
  <2>1. UNCHANGED <<head, vault>> /\ halves' \in Nat /\ torn' \in BOOLEAN
    BY <1>1, <1>11 DEF Indent, Types
  <2> QED
    BY <1>1, <1>8, <1>11, <2>1, IndentIs
<1>12. CASE Commit
  <2>1. /\ head' = file[Src] /\ quiet' = FALSE
        /\ UNCHANGED <<file, vault, snap, at, op, plan, buffer, authored, fresh, nested, torn, halves>>
    BY <1>12 DEF Commit, seen
  <2> QED
    BY <1>1, <2>1 DEF Types
<1>13. CASE Cite
  <2>1. /\ vault' \in Vaults /\ quiet' = FALSE
        /\ UNCHANGED <<file, head, snap, at, op, plan, buffer, authored, fresh, nested, torn, halves>>
    BY <1>13 DEF Cite, seen
  <2>2. IsLines(vault')
    BY <2>1, VaultsAssumption DEF IsLines
  <2> QED
    BY <1>1, <2>1, <2>2 DEF Types
<1>14. CASE UNCHANGED vars
  <2>1. UNCHANGED <<file, head, vault, snap, at, op, plan, buffer, authored, quiet, fresh, nested, torn, halves>>
    BY <1>14 DEF vars
  <2> QED
    BY <1>1, <2>1 DEF Types
<1> QED
  BY <1>2, <1>2a, <1>3, <1>4, <1>5, <1>6, <1>7, <1>9, <1>10, <1>11, <1>12, <1>13, <1>14 DEF Next

LEMMA StepCurrent ==
    ASSUME IInv, [Next]_vars
    PROVE  Current'
<1> USE FilesDiffer
<1>1. Types /\ Current
  BY DEF IInv
<1>2. CASE ReadSource
  <2>1. buffer' = Apply(file[Src], Head(plan)) /\ UNCHANGED <<file, op, plan>>
    BY <1>2 DEF ReadSource, repo
  <2> QED
    BY <2>1 DEF Current, Apply
<1>3. CASE Begin \/ Fragment \/ Resolve \/ WriteSource \/ Done \/ Leave \/ Killed
  <2>1. at' # "write"
    BY <1>3 DEF Begin, Fragment, Resolve, WriteSource, Done, Leave, Killed
  <2> QED
    BY <2>1 DEF Current
<1>4. CASE AddLine
  <2>1. /\ torn' = (torn \/ at = "write") /\ UNCHANGED at
    BY <1>4 DEF AddLine, Edit
  <2> QED
    BY <2>1 DEF Current
<1>5. CASE TakeHalf \/ Indent
  <2>1. at' # "write"
    BY <1>5 DEF TakeHalf, Indent, Edit
  <2> QED
    BY <2>1 DEF Current
<1>6. CASE Commit \/ Cite \/ UNCHANGED vars
  <2>1. UNCHANGED <<file, at, op, plan, buffer, torn>>
    BY <1>6 DEF Commit, Cite, vars
  <2> QED
    BY <1>1, <2>1 DEF Current, Apply
<1> QED
  BY <1>2, <1>3, <1>4, <1>5, <1>6 DEF Next

\* What a write makes of a file nobody took a line from.
LEMMA AppliedWhole ==
    ASSUME NEW s, NEW m, IsLines(s), m.line \in Nat, Whole(s)
    PROVE  Whole(Apply(s, m)) /\ ByHand(Apply(s, m)) = ByHand(s)
<1> DEFINE u == UpsertBefore(s, m.id, m.notes, m.line)
           r == RemoveMarker(s, m.id)
<1>1. Whole(u) /\ ByHand(u) = ByHand(s)
  <2>1. PICK b, e : Put(u, s, b, e, m.id, m.notes)
    BY UpsertBeforeIs
  <2> HIDE DEF u
  <2> QED
    BY <2>1, PutWhole
<1>2. Whole(r) /\ ByHand(r) = ByHand(s)
  <2>1. CASE Found(s, m.id)
    <3>1. PICK b : Took(r, s, b, m.id)
      BY <2>1, RemoveMarkerIs
    <3> HIDE DEF r
    <3> QED
      BY <3>1, TookWhole
  <2>2. CASE ~Found(s, m.id)
    BY <2>2, RemoveMarkerIs
  <2> QED
    BY <2>1, <2>2
<1>3. Apply(s, m) = u \/ Apply(s, m) = r
  BY DEF Apply
<1> QED
  BY <1>1, <1>2, <1>3

\* And of one that half of a block was taken from.
LEMMA AppliedCover ==
    ASSUME NEW s, NEW m, IsLines(s), m.line \in Nat, NEW d \in 0 .. Len(s), Cover(s, {d})
    PROVE  (\E x \in 0 .. Len(Apply(s, m)) : Cover(Apply(s, m), {x})) /\ ByHand(Apply(s, m)) = ByHand(s)
<1> DEFINE u == UpsertBefore(s, m.id, m.notes, m.line)
           r == RemoveMarker(s, m.id)
<1>1. (\E x \in 0 .. Len(u) : Cover(u, {x})) /\ ByHand(u) = ByHand(s)
  <2>1. PICK b, e : Put(u, s, b, e, m.id, m.notes)
    BY UpsertBeforeIs
  <2> HIDE DEF u
  <2> QED
    BY <2>1, CoverPut
<1>2. (\E x \in 0 .. Len(r) : Cover(r, {x})) /\ ByHand(r) = ByHand(s)
  <2>1. CASE Found(s, m.id)
    <3>1. PICK b : Took(r, s, b, m.id)
      BY <2>1, RemoveMarkerIs
    <3> HIDE DEF r
    <3> QED
      BY <3>1, CoverTook
  <2>2. CASE ~Found(s, m.id)
    BY <2>2, RemoveMarkerIs
  <2> QED
    BY <2>1, <2>2
<1>3. Apply(s, m) = u \/ Apply(s, m) = r
  BY DEF Apply
<1> QED
  BY <1>1, <1>2, <1>3

LEMMA AppliedAttached ==
    ASSUME NEW s, NEW m, IsLines(s), m.line \in Nat, Attached(s), ~Interleaved(Apply(s, m))
    PROVE  Attached(Apply(s, m))
<1> DEFINE u == UpsertBefore(s, m.id, m.notes, m.line)
           r == RemoveMarker(s, m.id)
<1>1. ~Interleaved(u) => Attached(u)
  <2>1. PICK b, e : Put(u, s, b, e, m.id, m.notes)
    BY UpsertBeforeIs
  <2> HIDE DEF u
  <2> QED
    BY <2>1, AttachedPut
<1>2. Attached(r)
  <2>1. CASE Found(s, m.id)
    <3>1. PICK b : Took(r, s, b, m.id)
      BY <2>1, RemoveMarkerIs
    <3> HIDE DEF r
    <3> QED
      BY <3>1, AttachedTook
  <2>2. CASE ~Found(s, m.id)
    BY <2>2, RemoveMarkerIs
  <2> QED
    BY <2>1, <2>2
<1>3. Apply(s, m) = u \/ Apply(s, m) = r
  BY DEF Apply
<1> QED
  BY <1>1, <1>2, <1>3

LEMMA StepSound ==
    ASSUME IInv, [Next]_vars
    PROVE  Sound'
<1> USE FilesDiffer
<1>1. Types /\ Current /\ Sound
  BY DEF IInv
<1>2. CASE Begin \/ Resolve \/ ReadSource \/ Done \/ Leave \/ Commit \/ Cite \/ UNCHANGED vars
  <2>1. UNCHANGED <<file, authored, nested, torn, halves>>
    BY <1>2 DEF Begin, Resolve, ReadSource, Done, Leave, Commit, Cite, vars, repo
  <2> QED
    BY <1>1, <2>1 DEF Sound
<1>3. CASE Fragment
  <2> DEFINE s == file[Claude]
             r == Upsert(s, LogbackId, groups)
  <2>1. Whole(r) /\ ByHand(r) = ByHand(s)
    BY <1>1, UpsertIs DEF Types, Sound
  <2>2. file' = [file EXCEPT ![Claude] = r] /\ UNCHANGED <<authored, nested, torn, halves>>
    BY <1>3 DEF Fragment
  <2>3. file'[Claude] = r /\ file'[Src] = file[Src]
    BY <1>1, <2>2 DEF Types
  <2> QED
    BY <1>1, <2>1, <2>2, <2>3 DEF Sound
<1>4. CASE WriteSource
  <2> DEFINE s == file[Src]
             m == Head(plan)
             r == Apply(s, m)
  <2>1. IsLines(s) /\ m.line \in Nat
    BY <1>1, <1>4, RestOfList DEF WriteSource, Types
  <2>2. file' = [file EXCEPT ![Src] = buffer] /\ nested' = (nested \/ Interleaved(buffer)) /\ UNCHANGED <<authored, torn, halves>>
    BY <1>4 DEF WriteSource
  <2>3. file'[Src] = buffer /\ file'[Claude] = file[Claude]
    BY <1>1, <2>2 DEF Types
  <2>4. torn \/ buffer = r
    BY <1>1, <1>4 DEF Current, WriteSource
  <2>5. Whole(s) => Whole(r) /\ ByHand(r) = ByHand(s)
    BY <2>1, AppliedWhole
  <2>6. (\E d \in 0 .. Len(s) : Cover(s, {d})) => (\E x \in 0 .. Len(r) : Cover(r, {x})) /\ ByHand(r) = ByHand(s)
    BY <2>1, AppliedCover
  <2>7. Attached(s) /\ ~Interleaved(r) => Attached(r)
    BY <2>1, AppliedAttached
  <2> HIDE DEF m, r
  <2>8. CASE torn
    BY <1>1, <2>2, <2>3, <2>8 DEF Sound
  <2>9. CASE ~torn
    <3>1. file'[Src] = r
      BY <2>3, <2>4, <2>9
    <3>2. ~nested' => ~nested /\ ~Interleaved(r)
      BY <2>2, <2>4, <2>9
    <3>3. halves = 0 => Whole(r) /\ ByHand(r) = authored[Src]
      BY <1>1, <2>5, <2>9 DEF Sound
    <3>4. halves = 0 /\ ~nested' => Attached(r)
      BY <1>1, <2>7, <2>9, <3>2 DEF Sound
    <3>5. halves = 1 => (\E x \in 0 .. Len(r) : Cover(r, {x})) /\ ByHand(r) = authored[Src]
      <4>1. halves = 1 => halves <= 1
        OBVIOUS
      <4> QED
        BY <1>1, <2>6, <2>9, <4>1 DEF Sound
    <3>6. Whole(file'[Claude]) /\ ByHand(file'[Claude]) = authored'[Claude]
      BY <1>1, <2>2, <2>3 DEF Sound
    <3>7. halves <= 1 => halves = 0 \/ halves = 1
      BY <1>1 DEF Types
    <3> QED
      BY <2>2, <3>1, <3>3, <3>4, <3>5, <3>6, <3>7 DEF Sound
  <2> QED
    BY <2>8, <2>9
<1>5. CASE Killed
  <2>1. UNCHANGED <<authored, nested, halves>>
    BY <1>5 DEF Killed
  <2>2. CASE UNCHANGED <<file, torn>>
    BY <1>1, <2>1, <2>2 DEF Sound
  <2>3. CASE file' = [file EXCEPT ![Src] = << >>] /\ torn' = TRUE
    <3>1. file'[Claude] = file[Claude]
      BY <1>1, <2>3 DEF Types
    <3> QED
      BY <1>1, <2>1, <2>3, <3>1 DEF Sound
  <2> QED
    BY <1>5, <2>2, <2>3 DEF Killed
<1>6. CASE AddLine
  <2>1. PICK f \in {Src, Claude} : Edit(<<Code("")>> \o file[f], f) /\ IsLines(<<Code("")>> \o file[f])
    BY <1>1, <1>6, AddLineIs
  <2> DEFINE s == file[f]
             x == Code("")
             r == <<x>> \o s
  <2>2. /\ file'[f] = r /\ authored'[f] = ByHand(r)
        /\ \A g \in {Src, Claude} : g # f => file'[g] = file[g] /\ authored'[g] = authored[g]
    BY <1>1, <2>1, EditIs
  <2>3. IsLines(s) /\ x.is \notin Marks
    BY <1>1, OtherLines DEF Types, Marks
  <2>4. UNCHANGED <<nested, halves>> /\ (~torn' => ~torn)
    BY <1>6, <2>1 DEF AddLine, Edit
  <2>5. Whole(s) => Whole(r)
    <3> DEFINE e == 0
    <3> HIDE DEF x
    <3>1. Spliced(r, s, 1, 0, <<x>>)
      BY <2>3, FirstIs
    <3>2. Spliced(r, s, e + 1, e, <<x>>) /\ e \in Nat /\ ~(0 < e /\ e < Len(s))
      BY <3>1
    <3> HIDE DEF e, s, r
    <3> QED
      BY <2>3, <3>2, LineWhole
  <2>6. /\ \A d : Cover(s, {d}) => \E y \in 0 .. Len(r) : Cover(r, {y})
        /\ Attached(s) => Attached(r)
    <3> HIDE DEF x
    <3> QED
      BY <2>3, CoverFirst, AttachedFirst
  <2> HIDE DEF r, x
  <2>7. CASE f = Src
    BY <1>1, <2>2, <2>4, <2>5, <2>6, <2>7 DEF Sound
  <2>8. CASE f = Claude
    BY <1>1, <2>2, <2>4, <2>5, <2>8 DEF Sound
  <2> QED
    BY <2>7, <2>8
<1>7. CASE TakeHalf
  <2>1. PICK i \in DOMAIN file[Src] : /\ file[Src][i].is \in {"begin", "end"}
                                      /\ Edit(RemoveAt(file[Src], i), Src) /\ IsLines(RemoveAt(file[Src], i))
    BY <1>1, <1>7, TakeHalfIs
  <2> DEFINE s == file[Src]
             r == RemoveAt(s, i)
  <2>2. file'[Src] = r /\ authored'[Src] = ByHand(r) /\ file'[Claude] = file[Claude] /\ authored'[Claude] = authored[Claude]
    BY <1>1, <2>1, EditIs
  <2>3. UNCHANGED <<nested, torn>> /\ halves' = halves + 1 /\ halves \in Nat
    BY <1>1, <1>7, <2>1 DEF TakeHalf, Edit, Types
  <2>4. Whole(s) => \E y \in 0 .. Len(r) : Cover(r, {y})
    BY <1>1, <2>1, CoverHalf DEF Types
  <2> HIDE DEF r
  <2>5. halves' # 0 /\ (halves' = 1 => halves = 0)
    BY <2>3
  <2> QED
    BY <1>1, <2>2, <2>3, <2>4, <2>5 DEF Sound
<1>8. CASE Indent
  <2>1. PICK lines : Edit(lines, Src) /\ IsLines(lines) /\ Plain(lines)
    BY <1>1, <1>8, IndentIs
  <2>2. file'[Src] = lines /\ authored'[Src] = ByHand(lines) /\ file'[Claude] = file[Claude] /\ authored'[Claude] = authored[Claude]
    BY <1>1, <2>1, EditIs
  <2>3. UNCHANGED <<nested, torn, halves>>
    BY <1>8, <2>1 DEF Indent, Edit
  <2>4. Whole(lines) /\ Attached(lines) /\ 0 \in 0 .. Len(lines) /\ Cover(lines, {0})
    <3>1. Len(lines) \in Nat
      BY <2>1, LinesAre
    <3>2. Cover(lines, {0})
      BY <2>1 DEF Cover, Plain, Marks, Bare, Spans
    <3> QED
      BY <2>1, <3>1, <3>2, PlainIs
  <2> QED
    BY <1>1, <2>2, <2>3, <2>4 DEF Sound
<1> QED
  BY <1>2, <1>3, <1>4, <1>5, <1>6, <1>7, <1>8 DEF Next

LEMMA MarkersStay ==
    ASSUME UNCHANGED <<head, vault>>
    PROVE  Markers' = Markers /\ Documented' = Documented
BY DEF Markers, MarkersIn, Documented, Declared, LineOf, NotesOf

\* The next marker a quiet command writes.
LEMMA WriteIs ==
    ASSUME IInv, WriteSource, quiet
    PROVE  /\ Markers' = Markers /\ Documented' = Documented /\ Follows'
           /\ Applied \in Nat /\ Applied' = Applied + 1 /\ Applied + 1 \in DOMAIN Markers /\ Head(plan) = Markers[Applied + 1]
           /\ \A j \in 1 .. Applied' : j = Applied + 1 \/ j \in 1 .. Applied
           /\ \A j \in 1 .. Applied : j \in DOMAIN Markers /\ j \in 1 .. Applied'
           /\ Applied + 1 \in 1 .. Applied'
           /\ file'[Claude] = file[Claude] /\ (~torn => file'[Src] = Apply(file[Src], Head(plan)))
           /\ IsLines(file[Src]) /\ Head(plan).line \in Nat
<1> USE FilesDiffer
<1>1. Types /\ Current /\ Progress /\ at = "write"
  BY DEF IInv, WriteSource
<1>2. /\ file' = [file EXCEPT ![Src] = buffer] /\ plan' = Tail(plan) /\ UNCHANGED <<head, vault>>
  BY DEF WriteSource
<1>3. Markers' = Markers /\ Documented' = Documented
  BY <1>2, MarkersStay
<1>4. IsLines(plan) /\ plan # << >>
  BY <1>1 DEF Types
<1>5. /\ Len(plan') = Len(plan) - 1 /\ Len(plan) \in Nat \ {0} /\ 1 \in DOMAIN plan /\ Head(plan) = plan[1]
      /\ \A i \in DOMAIN plan' : i + 1 \in DOMAIN plan /\ plan'[i] = plan[i + 1]
  BY <1>2, <1>4, RestOfList
<1>6. Len(plan) <= Len(Markers) /\ \A i \in DOMAIN plan : plan[i] = Markers[Applied + i]
  BY <1>1 DEF Progress, Follows, Running
<1>7. Len(Markers) \in Nat /\ DOMAIN Markers = 1 .. Len(Markers)
  BY <1>1, MarkersAre DEF Types
<1>8. Applied \in Nat /\ Applied' = Applied + 1 /\ Applied + 1 \in DOMAIN Markers
  BY <1>3, <1>5, <1>6, <1>7 DEF Applied
<1>9. Head(plan) = Markers[Applied + 1]
  BY <1>5, <1>6
<1>10. Follows'
  <2>1. Len(plan') <= Len(Markers')
    BY <1>3, <1>5, <1>6, <1>7
  <2>2. ASSUME NEW i \in DOMAIN plan'
        PROVE  plan'[i] = Markers'[Applied' + i]
    <3>1. i \in Nat
      <4>1. IsLines(plan')
        BY <1>2, <1>4, RestOfList
      <4> QED
        BY <4>1, LinesAre
    <3>2. plan'[i] = Markers[Applied + (i + 1)]
      BY <1>5, <1>6
    <3>3. Applied + (i + 1) = Applied' + i
      BY <1>8, <3>1
    <3> QED
      BY <1>3, <3>2, <3>3
  <2> QED
    BY <2>1, <2>2 DEF Follows
<1>11. /\ \A j \in 1 .. Applied' : j = Applied + 1 \/ j \in 1 .. Applied
       /\ \A j \in 1 .. Applied : j \in DOMAIN Markers /\ j \in 1 .. Applied'
       /\ Applied + 1 \in 1 .. Applied'
  BY <1>7, <1>8
<1>12. file'[Claude] = file[Claude] /\ (~torn => file'[Src] = Apply(file[Src], Head(plan)))
  BY <1>1, <1>2 DEF Types, Current
<1>13. IsLines(file[Src]) /\ Head(plan).line \in Nat
  BY <1>1, <1>5 DEF Types
<1> QED
  BY <1>3, <1>8, <1>9, <1>10, <1>11, <1>12, <1>13

\* Every marker written so far is in the file.
LEMMA WriteHolds ==
    ASSUME IInv, WriteSource, Alone("write"), ~nested'
    PROVE  \A j \in 1 .. Applied' : Holds(file'[Src], Markers[j].id, Markers[j].notes)
<1> DEFINE s == file[Src]
           m == Head(plan)
           r == file'[Src]
<1>0. quiet /\ op = "write" /\ ~torn /\ halves = 0
  BY DEF Alone
<1>1. /\ Applied \in Nat /\ Applied + 1 \in DOMAIN Markers /\ m = Markers[Applied + 1]
      /\ \A j \in 1 .. Applied' : j = Applied + 1 \/ j \in 1 .. Applied
      /\ \A j \in 1 .. Applied : j \in DOMAIN Markers
      /\ r = Apply(s, m) /\ IsLines(s) /\ m.line \in Nat
  BY <1>0, WriteIs
<1>2. nested' = (nested \/ Interleaved(buffer)) /\ buffer = r
  BY <1>0, <1>1 DEF WriteSource, IInv, Current
<1>3. Attached(s) /\ \A j \in 1 .. Applied : Holds(s, Markers[j].id, Markers[j].notes)
  BY <1>0, <1>2 DEF IInv, Sound, Progress
<1>4. r = UpsertBefore(s, m.id, m.notes, m.line)
  BY <1>0, <1>1 DEF Apply
<1>5. PICK b, e : Put(r, s, b, e, m.id, m.notes)
  BY <1>1, <1>4, UpsertBeforeIs
<1>6. \A k, l \in DOMAIN Markers : Markers[k].id = Markers[l].id => k = l
  BY MarkersAre DEF IInv, Types
<1> HIDE DEF s, m, r
<1>7. Clear(s, b, e) /\ \A i \in DOMAIN s : ~Out(b, e, i) => s[i] = BeginLine(m.id) \/ s[i].is \in {"body", "end"}
  BY <1>1, <1>2, <1>3, <1>5, AttachedPut
<1>8. Spliced(r, s, b, e, RenderBlock(m.id, m.notes))
  BY <1>5 DEF Put
<1>9. Holds(r, m.id, m.notes)
  BY <1>8, HoldsPut
<1>10. ASSUME NEW j \in 1 .. Applied
       PROVE  Holds(r, Markers[j].id, Markers[j].notes)
  <2> DEFINE id == Markers[j].id
             notes == Markers[j].notes
  <2>1. Holds(s, id, notes)
    BY <1>3
  <2>2. id # m.id
    <3>1. j # Applied + 1
      BY <1>1
    <3> QED
      BY <1>1, <1>6, <3>1
  <2> HIDE DEF id, notes
  <2>3. \A i \in DOMAIN s : ~Out(b, e, i) => s[i] # BeginLine(id)
    BY <1>7, <2>2, OtherLines
  <2>4. Holds(r, id, notes)
    BY <1>3, <1>7, <1>8, <2>1, <2>3, HoldsKept
  <2> QED
    BY <2>4 DEF id, notes
<1> QED
  BY <1>1, <1>9, <1>10 DEF r, m

\* Every marker taken away so far is gone from the file.
LEMMA WriteGone ==
    ASSUME IInv, WriteSource, Alone("remove")
    PROVE  \A j \in 1 .. Applied' : \A i \in DOMAIN file'[Src] :
               file'[Src][i].is \in Marks => file'[Src][i].of # Markers[j].id
<1> DEFINE s == file[Src]
           m == Head(plan)
           r == file'[Src]
<1>0. quiet /\ op = "remove" /\ ~torn /\ halves = 0
  BY DEF Alone
<1>1. /\ m = Markers[Applied + 1]
      /\ \A j \in 1 .. Applied' : j = Applied + 1 \/ j \in 1 .. Applied
      /\ r = Apply(s, m) /\ IsLines(s)
  BY <1>0, WriteIs
<1>2. Whole(s) /\ \A j \in 1 .. Applied : \A i \in DOMAIN s : s[i].is \in Marks => s[i].of # Markers[j].id
  BY <1>0 DEF IInv, Sound, Progress
<1>3. r = RemoveMarker(s, m.id)
  BY <1>0, <1>1 DEF Apply
<1> HIDE DEF s, m, r
<1>4. \A i \in DOMAIN r : r[i].is \in Marks => r[i].of # m.id /\ \E l \in DOMAIN s : s[l].is \in Marks /\ s[l].of = r[i].of
  <2>1. CASE Found(s, m.id)
    <3>1. PICK b : Took(r, s, b, m.id)
      BY <1>1, <1>3, <2>1, RemoveMarkerIs
    <3> QED
      BY <1>1, <1>2, <3>1, TookWhole
  <2>2. CASE ~Found(s, m.id)
    <3>1. r = s
      BY <1>1, <1>3, <2>2, RemoveMarkerIs
    <3>2. \A i \in DOMAIN s : s[i].is \in Marks => s[i].of # m.id
      BY <1>1, <1>2, <2>2, WholeNotFound
    <3> QED
      BY <3>1, <3>2
  <2> QED
    BY <2>1, <2>2
<1>5. \A j \in 1 .. Applied' : \A i \in DOMAIN r : r[i].is \in Marks => r[i].of # Markers[j].id
  BY <1>1, <1>2, <1>4
<1> QED
  BY <1>5 DEF r

LEMMA StepProgress ==
    ASSUME IInv, [Next]_vars, Types'
    PROVE  Progress'
<1> USE FilesDiffer
<1>1. Types /\ Sound /\ Progress
  BY DEF IInv
<1>2. CASE Begin
  <2>1. /\ groups' = Documented /\ snap' = head /\ UNCHANGED <<head, vault>>
        /\ at' = (IF op' = "write" /\ Documented # {} THEN "fragment" ELSE "resolve")
    BY <1>2 DEF Begin, repo
  <2>2. Documented' = Documented
    BY <2>1, MarkersStay
  <2>3. at' \notin Running /\ at' # "done" /\ (op' = "write" /\ Documented' # {} => at' # "resolve")
    BY <2>1, <2>2 DEF Running
  <2> QED
    BY <2>1, <2>2, <2>3 DEF Progress, Alone
<1>3. CASE Fragment
  <2>1. /\ at = "fragment" /\ at' = "resolve" /\ file' = [file EXCEPT ![Claude] = Upsert(file[Claude], LogbackId, groups)]
        /\ UNCHANGED <<head, vault, groups, snap, quiet>>
    BY <1>3 DEF Fragment, seen
  <2>2. Documented' = Documented
    BY <2>1, MarkersStay
  <2>3. file'[Claude] = Upsert(file[Claude], LogbackId, groups)
    BY <1>1, <2>1 DEF Types
  <2>4. Holds(file'[Claude], LogbackId, groups)
    BY <1>1, <2>3, UpsertIs DEF Types, Sound
  <2>5. at \in Starting /\ at' \notin Running /\ at' # "done"
    BY <2>1 DEF Starting, Running
  <2>6. quiet => groups = Documented /\ snap = head
    BY <1>1, <2>5 DEF Progress
  <2> QED
    BY <2>1, <2>2, <2>4, <2>5, <2>6 DEF Progress, Alone
<1>3a. CASE Resolve
  <2>1. /\ at = "resolve" /\ at' = "read" /\ plan' = MarkersIn(snap) /\ UNCHANGED <<file, head, vault, op, quiet>>
    BY <1>3a DEF Resolve, repo
  <2>2. Markers' = Markers /\ Documented' = Documented
    BY <2>1, MarkersStay
  <2>3. Len(Markers) \in Nat /\ DOMAIN Markers = 1 .. Len(Markers)
    BY <1>1, MarkersAre DEF Types
  <2>4. at \in Starting /\ at \notin Running /\ at' \notin Starting /\ at' # "done"
    BY <2>1 DEF Starting, Running
  <2>5. CASE quiet
    <3>1. plan' = Markers
      BY <1>1, <2>1, <2>4, <2>5 DEF Progress, Markers
    <3>2. Applied' = 0
      BY <2>2, <2>3, <3>1 DEF Applied
    <3>3. Follows'
      <4>1. \A i \in DOMAIN Markers : Applied' + i = i
        BY <2>3, <3>2
      <4> QED
        BY <2>2, <2>3, <3>1, <4>1 DEF Follows
    <3>4. \A j \in 1 .. Applied' : FALSE
      BY <3>2
    <3>5. op = "write" /\ Documented # {} => Holds(file[Claude], LogbackId, Documented)
      BY <1>1, <2>1, <2>5 DEF Progress
    <3> QED
      BY <2>1, <2>2, <2>4, <3>3, <3>4, <3>5 DEF Progress
  <2>6. CASE ~quiet
    BY <2>1, <2>4, <2>6 DEF Progress, Alone
  <2> QED
    BY <2>5, <2>6
<1>4. CASE ReadSource \/ Done
  <2>1. /\ at = "read" /\ at' \in {"write", "done"} /\ (at' = "done" => plan = << >>)
        /\ UNCHANGED <<file, head, vault, op, plan, quiet, torn, halves, nested>>
    BY <1>4 DEF ReadSource, Done, repo
  <2>2. Markers' = Markers /\ Documented' = Documented
    BY <2>1, MarkersStay
  <2>3. Applied' = Applied /\ (Follows => Follows')
    BY <2>1, <2>2 DEF Applied, Follows
  <2>4. \A does : Alone(does)' => Alone(does)
    BY <2>1 DEF Alone, Running
  <2>5. at \in Running /\ at' \in Running /\ at' \notin Starting
    BY <2>1 DEF Running, Starting
  <2> QED
    BY <1>1, <2>1, <2>2, <2>3, <2>4, <2>5 DEF Progress
<1>5. CASE WriteSource
  <2>1. at = "write" /\ at' = "read" /\ UNCHANGED <<op, quiet, torn, halves>> /\ nested' = (nested \/ Interleaved(buffer))
    BY <1>5 DEF WriteSource
  <2>2. "write" \in Running /\ at' \notin Starting /\ at' # "done"
    BY <2>1 DEF Running, Starting
  <2>3. \A does : Alone(does)' => Alone(does)
    BY <2>1 DEF Alone, Running
  <2>4. CASE ~quiet
    BY <2>1, <2>2, <2>4 DEF Progress, Alone
  <2>5. CASE quiet
    <3>1. Markers' = Markers /\ Documented' = Documented /\ Follows' /\ file'[Claude] = file[Claude]
      BY <1>5, <2>5, WriteIs
    <3>2. Alone("write") /\ ~nested' => \A j \in 1 .. Applied' : Holds(file'[Src], Markers[j].id, Markers[j].notes)
      BY <1>5, WriteHolds
    <3>3. Alone("remove") => \A j \in 1 .. Applied' : \A i \in DOMAIN file'[Src] :
              file'[Src][i].is \in Marks => file'[Src][i].of # Markers[j].id
      BY <1>5, WriteGone
    <3>4. op = "write" /\ Documented # {} => Holds(file[Claude], LogbackId, Documented)
      BY <1>1, <2>1, <2>2, <2>5 DEF Progress
    <3> QED
      BY <2>1, <2>2, <2>3, <3>1, <3>2, <3>3, <3>4 DEF Progress
  <2> QED
    BY <2>4, <2>5
<1>6. CASE Leave \/ Killed
  <2>1. at' = "idle"
    BY <1>6 DEF Leave, Killed
  <2>2. "idle" \notin Running /\ "idle" \notin Starting /\ "idle" # "resolve" /\ "idle" # "done"
    BY DEF Running, Starting
  <2> QED
    BY <2>1, <2>2 DEF Progress, Alone
<1>7. CASE AddLine \/ TakeHalf \/ Indent \/ Commit \/ Cite
  <2>1. quiet' = FALSE /\ UNCHANGED <<at, plan>>
    BY <1>7 DEF AddLine, TakeHalf, Indent, Commit, Cite, Edit
  <2> QED
    BY <1>1, <2>1 DEF Progress, Alone
<1>8. CASE UNCHANGED vars
  <2>1. UNCHANGED <<file, head, vault, groups, snap, at, op, plan, quiet, torn, halves, nested>>
    BY <1>8 DEF vars
  <2>2. Markers' = Markers /\ Documented' = Documented
    BY <2>1, MarkersStay
  <2>3. Applied' = Applied /\ (Follows => Follows')
    BY <2>1, <2>2 DEF Applied, Follows
  <2>4. \A does : Alone(does)' => Alone(does)
    BY <2>1 DEF Alone
  <2> QED
    BY <1>1, <2>1, <2>2, <2>3, <2>4 DEF Progress
<1> QED
  BY <1>2, <1>3, <1>3a, <1>4, <1>5, <1>6, <1>7, <1>8 DEF Next

\* A marker from below lands above its symbol, and above what was written before it.
LEMMA WritePlaced ==
    ASSUME IInv, WriteSource, Alone("write"), fresh, Descending
    PROVE  Placed'
<1> DEFINE s == file[Src]
           m == Head(plan)
           r == file'[Src]
           A == Applied
           L == m.line
           M == Markers
           t == RenderBlock(m.id, m.notes)
<1>0. quiet /\ op = "write" /\ ~torn /\ at = "write"
  BY DEF Alone, WriteSource
<1>1. /\ M' = M /\ A \in Nat /\ Applied' = A + 1 /\ A + 1 \in DOMAIN M /\ m = M[A + 1]
      /\ \A j \in 1 .. Applied' : j = A + 1 \/ j \in 1 .. A
      /\ \A j \in 1 .. A : j \in DOMAIN M /\ j \in 1 .. Applied'
      /\ A + 1 \in 1 .. Applied'
      /\ r = Apply(s, m) /\ IsLines(s) /\ L \in Nat
  BY <1>0, WriteIs
<1>2. /\ IsLines(head) /\ Placed
      /\ \A i \in DOMAIN head : head[i].is \in {"code", "blank"}
  BY <1>0 DEF IInv, Types, FromBelow, Running
<1>3. /\ \A j \in 1 .. A : \E e \in DOMAIN s :
            s[e] = EndLine(M[j].id) /\ e + 1 \in DOMAIN s /\ s[e + 1] = Code(M[j].id)
      /\ \A i \in DOMAIN head : (\A j \in 1 .. A : i < M[j].line) => i \in DOMAIN s /\ s[i] = head[i]
      /\ \A i \in DOMAIN s : s[i].is \in Marks => \E j \in 1 .. A : s[i].of = M[j].id
  BY <1>2 DEF Placed
<1>4. /\ L \in DOMAIN head /\ head[L] = Code(m.id)
      /\ \A k, l \in DOMAIN M : M[k].id = M[l].id => k = l
      /\ \A k \in DOMAIN M : M[k].line \in Nat
  BY <1>1, MarkersAre DEF IInv, Types
<1>5. \A j \in 1 .. A : M[j].line > L /\ M[j].id # m.id
  <2> TAKE j \in 1 .. A
  <2>1. j < A + 1 /\ j # A + 1 /\ j \in DOMAIN M
    BY <1>1
  <2>2. M[j].line > M[A + 1].line
    BY <1>1, <2>1 DEF Descending
  <2>3. M[j].id # M[A + 1].id
    BY <1>1, <1>4, <2>1
  <2> QED
    BY <1>1, <2>2, <2>3
<1>6. r = UpsertBefore(s, m.id, m.notes, L) /\ head' = head
  BY <1>0, <1>1 DEF Apply, WriteSource
<1>7. PICK b, e : /\ Put(r, s, b, e, m.id, m.notes)
                  /\ ~Found(s, m.id) /\ L \in 1 .. Len(s) => b = L /\ e = L - 1
  BY <1>1, <1>6, UpsertBeforeIs
<1>8. DOMAIN s = 1 .. Len(s) /\ Len(s) \in Nat /\ DOMAIN head = 1 .. Len(head) /\ Len(head) \in Nat
  BY <1>1, <1>2, LinesAre
<1>9. Spliced(r, s, b, e, t)
  BY <1>7 DEF Put
<1>10. /\ Len(t) = 3 /\ \A k \in DOMAIN t : t[k].is \in Marks /\ t[k].of = m.id
  BY BlockIs
<1>11. r[b + 2] = EndLine(m.id)
  BY <1>9, HoldsPut
<1>b. M[A + 1].line = L
  BY <1>1
<1>a. Placed' <=>
      /\ \A j \in 1 .. Applied' : \E x \in DOMAIN r :
            r[x] = EndLine(M'[j].id) /\ x + 1 \in DOMAIN r /\ r[x + 1] = Code(M'[j].id)
      /\ \A i \in DOMAIN head' : (\A j \in 1 .. Applied' : i < M'[j].line) => i \in DOMAIN r /\ r[i] = head'[i]
      /\ \A i \in DOMAIN r : r[i].is \in Marks => \E j \in 1 .. Applied' : r[i].of = M'[j].id
  BY DEF Placed
<1> HIDE DEF s, m, r, A, L, M, t
<1>12. \A i \in DOMAIN head : i <= L => i \in DOMAIN s /\ s[i] = head[i]
  <2> TAKE i \in DOMAIN head
  <2> HAVE i <= L
  <2>1. \A j \in 1 .. A : i < M[j].line
    <3> TAKE j \in 1 .. A
    <3>1. i \in Nat /\ M[j].line \in Nat /\ M[j].line > L
      BY <1>1, <1>4, <1>5, <1>8
    <3> QED
      BY <1>1, <3>1
  <2> QED
    BY <1>3, <2>1
<1>13. ~Found(s, m.id)
  <2> SUFFICES ASSUME Found(s, m.id)
               PROVE  FALSE
    OBVIOUS
  <2>1. PICK i \in DOMAIN s : s[i] = BeginLine(m.id)
    BY <1>1, FoundIs
  <2>2. s[i].is \in Marks /\ s[i].of = m.id
    BY <2>1, OtherLines DEF Marks
  <2> QED
    BY <1>3, <1>5, <2>2
<1>14. b = L /\ e = L - 1 /\ L \in 1 .. Len(s) /\ s[L] = Code(m.id)
  <2>1. L \in DOMAIN s /\ s[L] = head[L]
    BY <1>1, <1>4, <1>12
  <2> QED
    BY <1>4, <1>7, <1>8, <1>13, <2>1
<1>15. /\ Len(r) = Len(s) + 3 /\ DOMAIN r = 1 .. Len(s) + 3
       /\ \A i \in 1 .. L - 1 : r[i] = s[i]
       /\ \A i \in L .. Len(s) : r[i + 3] = s[i]
       /\ r[L + 2] = EndLine(m.id)
  <2>1. /\ IsLines(r) /\ Len(r) = Len(s) + Len(t) - (e - b + 1)
        /\ \A i \in 1 .. b - 1 : r[i] = s[i]
        /\ \A i \in e + 1 .. Len(s) : r[i + Len(t) - (e - b + 1)] = s[i]
    BY <1>9 DEF Spliced
  <2>2. Len(t) = 3 /\ e - b + 1 = 0 /\ e + 1 = L /\ b = L
    BY <1>1, <1>10, <1>14
  <2>3. Len(r) = Len(s) + 3
    BY <1>8, <2>1, <2>2
  <2>4. \A i \in L .. Len(s) : i + Len(t) - (e - b + 1) = i + 3
    BY <1>1, <1>8, <2>2
  <2>5. \A i \in L .. Len(s) : r[i + 3] = s[i]
    BY <2>1, <2>2, <2>4
  <2>6. DOMAIN r = 1 .. Len(s) + 3
    BY <2>1, <2>3, LinesAre
  <2> QED
    BY <1>11, <2>1, <2>2, <2>3, <2>5, <2>6
<1>16. ASSUME NEW j \in 1 .. Applied'
       PROVE  \E x \in DOMAIN r : r[x] = EndLine(M[j].id) /\ x + 1 \in DOMAIN r /\ r[x + 1] = Code(M[j].id)
  <2>1. CASE j = A + 1
    <3>1. M[j].id = m.id
      BY <1>1, <2>1
    <3>2. L + 2 \in DOMAIN r /\ (L + 2) + 1 \in DOMAIN r /\ L \in L .. Len(s) /\ L + 3 = (L + 2) + 1
      BY <1>1, <1>8, <1>14, <1>15
    <3>3. r[(L + 2) + 1] = Code(m.id)
      BY <1>14, <1>15, <3>2
    <3> QED
      BY <1>15, <3>1, <3>2, <3>3
  <2>2. CASE j \in 1 .. A
    <3>1. PICK x \in DOMAIN s : s[x] = EndLine(M[j].id) /\ x + 1 \in DOMAIN s /\ s[x + 1] = Code(M[j].id)
      BY <1>3, <2>2
    <3>2. x \in Nat /\ x >= L
      <4>1. x \in 1 .. Len(s) /\ L \in 1 .. Len(head)
        BY <1>4, <1>8
      <4>2. ~(x < L)
        <5> SUFFICES ASSUME x < L
                     PROVE  FALSE
          OBVIOUS
        <5>1. x \in DOMAIN head /\ x <= L
          BY <1>1, <1>8, <4>1
        <5>2. s[x] = head[x] /\ head[x].is \in {"code", "blank"}
          BY <1>2, <1>12, <5>1
        <5> QED
          BY <3>1, <5>2, OtherLines
      <4> QED
        BY <4>1, <4>2
    <3> DEFINE y == x + 3
    <3>3. y \in DOMAIN r /\ y + 1 \in DOMAIN r /\ x \in L .. Len(s) /\ x + 1 \in L .. Len(s) /\ y + 1 = (x + 1) + 3
      BY <1>1, <1>8, <1>15, <3>1, <3>2
    <3>4. r[y] = s[x] /\ r[y + 1] = s[x + 1]
      BY <1>15, <3>3
    <3> HIDE DEF y
    <3> QED
      BY <3>1, <3>3, <3>4
  <2> QED
    BY <1>1, <2>1, <2>2
<1>17. ASSUME NEW i \in DOMAIN head, \A j \in 1 .. Applied' : i < M[j].line
       PROVE  i \in DOMAIN r /\ r[i] = head[i]
  <2>1. i < L /\ i \in 1 .. Len(head)
    BY <1>1, <1>8, <1>17, <1>b
  <2>2. i \in DOMAIN s /\ s[i] = head[i] /\ i \in 1 .. L - 1
    BY <1>1, <1>12, <2>1
  <2> QED
    BY <1>8, <1>15, <2>2
<1>18. ASSUME NEW i \in DOMAIN r, r[i].is \in Marks
       PROVE  \E j \in 1 .. Applied' : r[i].of = M[j].id
  <2>1. (\E l \in DOMAIN s : r[i] = s[l]) \/ (\E k \in DOMAIN t : r[i] = t[k])
    BY <1>9, SplicedLines
  <2>2. CASE \E l \in DOMAIN s : r[i] = s[l]
    BY <1>1, <1>3, <1>18, <2>2
  <2>3. CASE \E k \in DOMAIN t : r[i] = t[k]
    BY <1>1, <1>10, <2>3
  <2> QED
    BY <2>1, <2>2, <2>3
<1> QED
  BY <1>1, <1>6, <1>16, <1>17, <1>18, <1>a

LEMMA StepFromBelow ==
    ASSUME IInv, [Next]_vars
    PROVE  FromBelow'
<1> USE FilesDiffer
<1>1. Types /\ FromBelow
  BY DEF IInv
<1>2. ASSUME UNCHANGED <<head, vault, op, plan, quiet, fresh, torn, halves>>, file'[Src] = file[Src], at \in Running, at' \notin Starting
      PROVE  FromBelow'
  <2>1. Markers' = Markers
    BY <1>2, MarkersStay
  <2>2. Applied' = Applied /\ (Descending' => Descending)
    BY <1>2, <2>1 DEF Applied, Descending
  <2>3. Placed => Placed'
    BY <1>2, <2>1, <2>2 DEF Placed
  <2>4. Alone("write")' => Alone("write")
    BY <1>2 DEF Alone
  <2> QED
    BY <1>1, <1>2, <2>2, <2>3, <2>4 DEF FromBelow
<1>3. CASE Begin
  <2>1. /\ UNCHANGED <<file, head>> /\ at' \in {"fragment", "resolve"}
        /\ fresh' = (file[Src] = head /\ \A i \in DOMAIN head : head[i].is \in {"code", "blank"})
    BY <1>3 DEF Begin, repo
  <2>2. at' \notin Running
    BY <2>1 DEF Running
  <2> QED
    BY <2>1, <2>2 DEF FromBelow, Alone
<1>4. CASE Fragment
  <2>1. at = "fragment" /\ at' = "resolve" /\ UNCHANGED <<head, quiet, fresh>> /\ file'[Src] = file[Src]
    BY <1>1, <1>4 DEF Fragment, Types
  <2>2. at \in Starting /\ at' \notin Running
    BY <2>1 DEF Starting, Running
  <2> QED
    BY <1>1, <2>1, <2>2 DEF FromBelow, Alone
<1>4a. CASE Resolve
  <2>1. /\ at = "resolve" /\ at' = "read" /\ plan' = MarkersIn(snap) /\ UNCHANGED <<file, head, vault, quiet, fresh>>
    BY <1>4a DEF Resolve, repo
  <2>2. at \in Starting /\ at' \notin Starting
    BY <2>1 DEF Starting
  <2>3. CASE quiet /\ fresh
    <3>1. file[Src] = head /\ snap = head /\ \A i \in DOMAIN head : head[i].is \in {"code", "blank"}
      BY <1>1, <2>2, <2>3 DEF FromBelow, IInv, Progress
    <3>2. Markers' = Markers /\ plan' = Markers
      BY <2>1, <3>1, MarkersStay DEF Markers
    <3>3. Len(Markers) \in Nat
      BY <1>1, MarkersAre DEF Types
    <3>4. \A j \in 1 .. Applied' : FALSE
      <4>1. Applied' = 0
        BY <3>2, <3>3 DEF Applied
      <4> QED
        BY <4>1
    <3>5. \A i \in DOMAIN head : head[i].is \notin Marks
      BY <3>1 DEF Marks
    <3>6. Placed'
      BY <2>1, <3>1, <3>4, <3>5 DEF Placed
    <3> QED
      BY <2>1, <2>2, <3>1, <3>6 DEF FromBelow
  <2>4. CASE ~(quiet /\ fresh)
    BY <2>1, <2>4 DEF FromBelow, Alone
  <2> QED
    BY <2>3, <2>4
<1>5. CASE ReadSource \/ Done
  <2>1. at = "read" /\ at' \in {"write", "done"} /\ UNCHANGED <<file, head, vault, op, plan, quiet, fresh, torn, halves>>
    BY <1>5 DEF ReadSource, Done, repo
  <2> QED
    BY <1>2, <2>1 DEF Running, Starting
<1>6. CASE WriteSource
  <2>1. at = "write" /\ at' = "read" /\ UNCHANGED <<head, vault, op, quiet, fresh, torn, halves>>
    BY <1>6 DEF WriteSource
  <2>2. Alone("write")' => Alone("write")
    BY <2>1 DEF Alone, Running
  <2>3. Descending' => Descending
    BY <2>1, MarkersStay DEF Descending
  <2>4. Alone("write") /\ fresh /\ Descending => Placed'
    BY <1>6, WritePlaced
  <2>5. "write" \in Running /\ at' \notin Starting
    BY <2>1 DEF Running, Starting
  <2> QED
    BY <1>1, <2>1, <2>2, <2>3, <2>4, <2>5 DEF FromBelow
<1>7. CASE Leave \/ Killed
  <2>1. at' = "idle"
    BY <1>7 DEF Leave, Killed
  <2> QED
    BY <2>1 DEF FromBelow, Alone, Starting, Running
<1>8. CASE AddLine \/ TakeHalf \/ Indent \/ Commit \/ Cite
  <2>1. quiet' = FALSE
    BY <1>8 DEF AddLine, TakeHalf, Indent, Commit, Cite, Edit
  <2> QED
    BY <2>1 DEF FromBelow, Alone
<1>9. CASE UNCHANGED vars
  <2>1. UNCHANGED <<file, head, vault, at, op, plan, quiet, fresh, torn, halves>>
    BY <1>9 DEF vars
  <2>2. CASE at \in Running
    <3>1. at' \notin Starting
      BY <2>1, <2>2 DEF Running, Starting
    <3> QED
      BY <1>2, <2>1, <2>2, <3>1
  <2>3. CASE at \notin Running
    BY <1>1, <2>1, <2>3 DEF FromBelow, Alone
  <2> QED
    BY <2>2, <2>3
<1> QED
  BY <1>3, <1>4, <1>4a, <1>5, <1>6, <1>7, <1>8, <1>9 DEF Next

LEMMA StepIInv ==
    ASSUME IInv, [Next]_vars
    PROVE  IInv'
<1>1. Types'
  BY StepTypes
<1> QED
  BY <1>1, StepCurrent, StepSound, StepProgress, StepFromBelow DEF IInv

LEMMA SpecIInv == Spec => []IInv
<1>1. Init => IInv
  BY InitIInv
<1>2. IInv /\ [Next]_vars => IInv'
  BY StepIInv
<1> QED
  BY <1>1, <1>2, PTL DEF Spec

(***************************************************************************)
(* What holds of every run.                                                *)
(***************************************************************************)

\* A command that has ended undisturbed has applied every marker.
LEMMA QuietIs ==
    ASSUME IInv, NEW does, Quiet(does)
    PROVE  /\ Alone(does) /\ at = "done" /\ at \in Running
           /\ IsLines(file[Src]) /\ Whole(file[Src]) /\ DOMAIN Markers = 1 .. Applied
           /\ \A m \in ToSet(Markers) : \E j \in 1 .. Applied : m = Markers[j]
<1>1. at = "done" /\ at \in Running /\ Alone(does) /\ ~torn /\ halves = 0
  BY DEF Quiet, Alone, Running
<1>2. plan = << >> /\ Whole(file[Src]) /\ IsLines(file[Src])
  BY <1>1 DEF IInv, Progress, Sound, Types
<1>3. DOMAIN Markers = 1 .. Len(Markers) /\ Len(Markers) \in Nat
  BY MarkersAre DEF IInv, Types
<1>4. Applied = Len(Markers)
  BY <1>2, <1>3, NoLines DEF Applied
<1> QED
  BY <1>1, <1>2, <1>3, <1>4 DEF ToSet

\* The files, the plan and the flags are what they are meant to be.
THEOREM LogbackTypes == Spec => []Types
<1>1. IInv => Types
  BY DEF IInv
<1> QED
  BY <1>1, SpecIInv, PTL

\* "Never touches code semantics" (logback.go:63-64): whatever markers are written into a
\* file and taken from it, nested or not, its lines of code stay, all and in their order,
\* where no file is lost between a read and its write and at most one half of a block was
\* taken away.
THEOREM CodeAlwaysUntouched == Spec => []CodeUntouched
<1>1. IInv => CodeUntouched
  <2>1. \A f \in {Src, Claude} : f = Src \/ f = Claude
    OBVIOUS
  <2> QED
    BY <2>1 DEF IInv, Sound, CodeUntouched
<1> QED
  BY <1>1, SpecIInv, PTL

\* "Idempotent: a second run with nothing changed" (logback.go:63) finds every block as it
\* would write it, in both files.
THEOREM RerunAlwaysQuiet == Spec => []RerunIsQuiet
<1>1. ASSUME IInv
      PROVE  RerunIsQuiet
  <2> SUFFICES ASSUME Quiet("write")
               PROVE  /\ nested \/ \A m \in ToSet(Markers) : UpsertBefore(file[Src], m.id, m.notes, m.line) = file[Src]
                      /\ Documented # {} => Upsert(file[Claude], LogbackId, Documented) = file[Claude]
    BY DEF RerunIsQuiet
  <2>1. /\ Alone("write") /\ at \in Running /\ IsLines(file[Src]) /\ Whole(file[Src])
        /\ \A m \in ToSet(Markers) : \E j \in 1 .. Applied : m = Markers[j]
    BY <1>1, QuietIs
  <2>2. ASSUME ~nested, NEW m \in ToSet(Markers)
        PROVE  UpsertBefore(file[Src], m.id, m.notes, m.line) = file[Src]
    <3>1. Holds(file[Src], m.id, m.notes)
      BY <1>1, <2>1, <2>2 DEF IInv, Progress
    <3>2. Found(file[Src], m.id) /\ ReplaceBlock(file[Src], m.id, RenderBlock(m.id, m.notes)) = file[Src]
      BY <2>1, <3>1, HoldsAgain
    <3> QED
      BY <3>2 DEF UpsertBefore
  <2>3. ASSUME Documented # {}
        PROVE  Upsert(file[Claude], LogbackId, Documented) = file[Claude]
    <3>1. Holds(file[Claude], LogbackId, Documented)
      BY <1>1, <2>1, <2>3 DEF IInv, Progress, Alone
    <3>2. IsLines(file[Claude]) /\ Whole(file[Claude])
      BY <1>1 DEF IInv, Types, Sound
    <3>3. /\ Found(file[Claude], LogbackId)
          /\ ReplaceBlock(file[Claude], LogbackId, RenderBlock(LogbackId, Documented)) = file[Claude]
      BY <3>1, <3>2, HoldsAgain
    <3> QED
      BY <3>3 DEF Upsert
  <2> QED
    BY <2>2, <2>3
<1>2. IInv => RerunIsQuiet
  BY <1>1
<1> QED
  BY <1>2, SpecIInv, PTL

\* --remove-markers leaves no line of a marker of any symbol cited and declared, however
\* markers were nested into each other (logback_markers.go).
THEOREM MarkersAlwaysCanGo == Spec => []MarkersCanGo
<1>1. ASSUME IInv
      PROVE  MarkersCanGo
  <2> SUFFICES ASSUME Quiet("remove")
               PROVE  \A i \in DOMAIN file[Src] : file[Src][i].is \in {"begin", "body", "end"} =>
                          \A m \in ToSet(Markers) : m.id # file[Src][i].of
    BY DEF MarkersCanGo
  <2>1. Alone("remove") /\ \A m \in ToSet(Markers) : \E j \in 1 .. Applied : m = Markers[j]
    BY <1>1, QuietIs
  <2>2. \A j \in 1 .. Applied : \A i \in DOMAIN file[Src] : file[Src][i].is \in Marks => file[Src][i].of # Markers[j].id
    BY <1>1, <2>1 DEF IInv, Progress
  <2> QED
    BY <2>1, <2>2 DEF Marks
<1>2. IInv => MarkersCanGo
  BY <1>1
<1> QED
  BY <1>2, SpecIInv, PTL

\* Where the notes cite the symbols of a committed file without markers from its bottom to
\* its top, every marker is right above its symbol, though each moves the lines below it.
THEOREM AnchorsAlwaysFromBelow == Spec => []AnchorsFromBelow
<1>1. ASSUME IInv
      PROVE  AnchorsFromBelow
  <2> SUFFICES ASSUME Quiet("write"), fresh, Descending, NEW m \in ToSet(Markers)
               PROVE  Above(m.id)
    BY DEF AnchorsFromBelow, Descending
  <2> DEFINE s == file[Src]
             id == m.id
  <2>1. /\ Alone("write") /\ IsLines(s) /\ Whole(s)
        /\ \E j \in 1 .. Applied : m = Markers[j]
    BY <1>1, QuietIs
  <2>2. Placed
    BY <1>1, <2>1 DEF IInv, FromBelow
  <2>3. PICK e \in DOMAIN s : s[e] = EndLine(id) /\ e + 1 \in DOMAIN s /\ s[e + 1] = Code(id)
    BY <2>1, <2>2 DEF Placed
  <2>a. Above(id) <=> /\ Found(s, id)
                      /\ LET below == Below(s, EndOf(s, id)) IN below # {} /\ s[Min(below)] = Code(id)
    BY DEF Above
  <2> HIDE DEF s, id
  <2>4. DOMAIN s = 1 .. Len(s) /\ Len(s) \in Nat
    BY <2>1, LinesAre
  <2>5. s[e].is \in Marks /\ s[e].is = "end" /\ s[e].of = id
    BY <2>3, OtherLines DEF Marks
  <2>6. Found(s, id)
    BY <2>1, <2>5, WholeNotFound
  <2>7. EndOf(s, id) = e
    <3>1. EndOf(s, id) \in DOMAIN s /\ s[EndOf(s, id)] = EndLine(id)
      BY <2>1, <2>6, FoundIs
    <3>2. s[EndOf(s, id)].is = "end" /\ s[EndOf(s, id)].of = id
      BY <3>1, OtherLines
    <3> QED
      BY <2>1, <2>5, <3>1, <3>2 DEF Whole, Cover
  <2> DEFINE below == Below(s, e)
             f == e + 1
  <2>8. below \in SUBSET Nat /\ f \in below /\ \A i \in below : f <= i
    <3>1. s[f].is = "code"
      BY <2>3, OtherLines
    <3>2. f \in DOMAIN s /\ f > e /\ e \in Nat
      BY <2>3, <2>4
    <3>3. f \in below
      BY <3>1, <3>2 DEF Below
    <3>4. \A i \in below : i \in Nat /\ f <= i
      BY <2>4, <3>2 DEF Below
    <3> QED
      BY <3>3, <3>4
  <2> HIDE DEF below, f
  <2>9. Min(below) \in below /\ \A i \in below : Min(below) <= i
    BY <2>8, LeastIs
  <2>10. Min(below) = f
    <3>1. Min(below) <= f /\ f <= Min(below) /\ Min(below) \in Nat /\ f \in Nat
      BY <2>8, <2>9
    <3> QED
      BY <3>1
  <2>11. below # {} /\ s[Min(below)] = Code(id)
    BY <2>3, <2>8, <2>10 DEF f
  <2> QED
    BY <2>6, <2>7, <2>11, <2>a DEF below, id
<1>2. IInv => AnchorsFromBelow
  BY <1>1
<1> QED
  BY <1>2, SpecIInv, PTL
=============================================================================
