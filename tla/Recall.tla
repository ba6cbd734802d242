-------------------------------- MODULE Recall --------------------------------
(***************************************************************************)
(* How forge recall and forge intent rank the vault against a question and  *)
(* what they decide (pkg/recall).  A text is the set of its terms, stopwords *)
(* removed; a document also says how often its file holds each term.  Scores *)
(* are in ten-thousandths, cut, where the code has a float64.               *)
(***************************************************************************)
EXTENDS Integers, Sequences, FiniteSets, SequencesExt, FiniteSetsExt, Freshness

CONSTANTS Idf(_, _),        \* Idf(df, n): the weight of a term df of n notes carry, capped
          BodyPassSize,     \* how many leaders the body pass opens
          NeighbourWindow,  \* how many leaders may be neighbours
          TopN,             \* how many candidates are shown
          IntentGate,       \* the score from which forge intent speaks
          Thresholds,       \* the triples [answer, update, neighbour] the config may name
          Asked             \* what is asked of which vault: [question, hints, docs]

ASSUME RecallAssumption ==
    /\ {BodyPassSize, NeighbourWindow, TopN} \subseteq Nat \ {0}
    /\ \A n \in 1 .. 4 : \A df \in 1 .. n : Idf(df, n) \in Nat \ {0}

VARIABLES asked,        \* the question and the documents loadDocs returned
          thresholds,
          stage,        \* "idle", "asked", "ranked", "scored", "done"
          cands,        \* the candidates, best first: [at, score]; at is a place in docs
          result        \* [verdict, shown, neighbours, hint]

recallVars == <<asked, thresholds, stage, cands, result>>

One == 10000
Nothing == [verdict |-> "none", shown |-> << >>, neighbours |-> {}, hint |-> 0]

Total(f) == MapThenSumSet(LAMBDA k : f[k], DOMAIN f)

-----------------------------------------------------------------------------
(* Channels: a channel is [weight, value, active].                          *)

Df(docs, field, t) == Cardinality({i \in DOMAIN docs : t \in docs[i][field]})
Vocabulary(docs, field) == UNION {docs[i][field] : i \in DOMAIN docs}

(* weightsOver: a term nobody carries weighs the mean of those somebody does. *)
(* All weights are times the number of those, which keeps them whole.         *)
WeightsOver(terms, docs, field) ==
    LET present == terms \cap Vocabulary(docs, field)
        idf == [t \in present |-> Idf(Df(docs, field, t), Len(docs))]
    IN  [t \in terms |-> IF t \in present THEN idf[t] * Cardinality(present) ELSE Total(idf)]

(* Mutant: any tag at all makes the channel speak.                         *)
WeightedAlways(terms, has, w, weight) ==
    [weight |-> weight, active |-> has # {} /\ Total(w) > 0,
     value |-> IF Total(w) = 0 THEN 0 ELSE (Total([t \in terms \cap has |-> w[t]]) * One) \div Total(w)]

(* tagsChannel and stackChannel speak only where they hit.                  *)
Weighted(terms, has, w, weight) ==
    [weight |-> weight, active |-> terms \cap has # {} /\ Total(w) > 0,
     value |-> IF Total(w) = 0 THEN 0 ELSE (Total([t \in terms \cap has |-> w[t]]) * One) \div Total(w)]

(* 5pr / (4p + r), for a precision h/m and a recall h/q.                    *)
F2(h, q, m) == IF h = 0 THEN 0 ELSE (5 * h * One) \div (4 * q + m)

TitleChannel(terms, d) ==
    [weight |-> 4, active |-> d.title # {},
     value |-> F2(Cardinality(terms \cap d.title), Cardinality(terms), Cardinality(d.title))]

TagsChannel(terms, docs, d) == Weighted(terms, d.tags, WeightsOver(terms, docs, "tags"), 3)

(* A hint no note carries is dropped, a word of the question is kept.       *)
StackTerms(q, docs) == (q.hints \cap Vocabulary(docs, "stack")) \cup q.question

StackChannel(terms, docs, d) == Weighted(terms, d.stack, WeightsOver(terms, docs, "stack"), 2)

(* LoadBody reads the whole file: what the frontmatter says counts too.     *)
Count(d, t) ==
    d.body[t] + Cardinality({f \in {"title", "tags", "stack"} : t \in d[f]})

BodyChannel(terms, d) ==
    [weight |-> 1, active |-> TRUE,
     value |-> IF terms = {} THEN 0
               ELSE (Total([t \in terms |-> IF Count(d, t) > 3 THEN 3 ELSE Count(d, t)]) * One)
                    \div (3 * Cardinality(terms))]

Blend(channels) ==
    LET active == {c \in channels : c.active}
        weights == Total([c \in active |-> c.weight])
    IN  IF active = {} THEN 0 ELSE Total([c \in active |-> c.weight * c.value]) \div weights

FrontmatterChannels(q, docs, d) ==
    {TitleChannel(q.question, d), TagsChannel(q.question, docs, d), StackChannel(StackTerms(q, docs), docs, d)}

FrontmatterScore(q, docs, d) == Blend(FrontmatterChannels(q, docs, d))
FullScore(q, docs, d) == Blend(FrontmatterChannels(q, docs, d) \cup {BodyChannel(q.question, d)})

-----------------------------------------------------------------------------
(* Ranking: by score, and by path where scores are equal; paths are places. *)
Ranked(cs) == SortSeq(cs, LAMBDA a, b : a.score > b.score \/ (a.score = b.score /\ a.at < b.at))

Truncate(cs, n) == SubSeq(cs, 1, IF Len(cs) > n THEN n ELSE Len(cs))

FirstPass(q, docs) ==
    Ranked([i \in DOMAIN docs |-> [at |-> i, score |-> FrontmatterScore(q, docs, docs[i])]])

SecondPass(q, docs, cs) ==
    Ranked([i \in DOMAIN cs |->
        IF i <= BodyPassSize THEN [cs[i] EXCEPT !.score = FullScore(q, docs, docs[cs[i].at])] ELSE cs[i]])

(* nonZero cuts at the first zero; round keeps three decimals.              *)
Pool(cs) ==
    LET kept == SelectSeq(cs, LAMBDA c : c.score # 0)
    IN  [i \in DOMAIN kept |-> [kept[i] EXCEPT !.score = (@ + 5) \div 10]]

Stale(d) == IsStale(d.updated, d.verified, d.days)

Decide(th, docs, pool) ==
    IF pool = << >> THEN "CREATE"
    ELSE LET top == Head(pool)
         IN  CASE top.score >= th.answer /\ ~Stale(docs[top.at]) -> "ANSWER_FROM_VAULT"
               [] top.score >= th.answer /\ Stale(docs[top.at]) -> "UPDATE(refresh)"
               [] top.score < th.answer /\ top.score >= th.update -> "UPDATE(extend)"
               [] OTHER -> "CREATE"

NeighboursOf(th, pool) ==
    {c.at : c \in {x \in ToSet(Truncate(pool, NeighbourWindow)) : th.neighbour <= x.score /\ x.score < th.update}}

ResultFrom(th, docs, pool) ==
    LET verdict == Decide(th, docs, pool)
    IN  [verdict |-> verdict,
         shown |-> Truncate(pool, TopN),
         neighbours |-> IF verdict = "CREATE" THEN NeighboursOf(th, pool) ELSE {},
         hint |-> IF pool # << >> /\ Head(pool).score >= IntentGate THEN Head(pool).at ELSE 0]

-----------------------------------------------------------------------------
RecallIdle ==
    /\ asked = [question |-> {}, hints |-> {}, docs |-> << >>] /\ thresholds \in Thresholds
    /\ stage = "idle" /\ cands = << >> /\ result = Nothing

RecallInit ==
    /\ asked \in Asked /\ thresholds \in Thresholds
    /\ stage = "asked" /\ cands = << >> /\ result = Nothing

FrontmatterPass ==
    /\ stage = "asked"
    /\ cands' = FirstPass(asked, asked.docs)
    /\ stage' = "ranked"
    /\ UNCHANGED <<asked, thresholds, result>>

BodyPass ==
    /\ stage = "ranked"
    /\ cands' = SecondPass(asked, asked.docs, cands)
    /\ stage' = "scored"
    /\ UNCHANGED <<asked, thresholds, result>>

Conclude ==
    /\ stage = "scored"
    /\ result' = ResultFrom(thresholds, asked.docs, Pool(cands))
    /\ stage' = "done"
    /\ UNCHANGED <<asked, thresholds, cands>>

RecallNext == FrontmatterPass \/ BodyPass \/ Conclude

-----------------------------------------------------------------------------
RankOf(q, docs) == SecondPass(q, docs, FirstPass(q, docs))

(* "A note with no relevant tags is inactive whether it has irrelevant ones  *)
(* or none" and "a superset scores full marks" (score.go): what a note's tags  *)
(* and stack say beside the question decides nothing, neither for the note      *)
(* nor, through the weights, for any other.                                    *)
Relevant(d, q) == [d EXCEPT !.tags = @ \cap q.question, !.stack = @ \cap (q.question \cup q.hints)]

CuratedIsNotWorse ==
    stage = "scored" =>
        cands = RankOf(asked, [i \in DOMAIN asked.docs |-> Relevant(asked.docs[i], asked)])

(* "Narrowing a search by kotlin in a vault that has never seen Kotlin should *)
(* not thereby make every note match less well" (score.go:30-32): a hint the   *)
(* vault does not know changes no rank and no score.                           *)
UnknownHintIsFree ==
    stage = "scored" =>
        cands = RankOf([asked EXCEPT !.hints = @ \cap Vocabulary(asked.docs, "stack")], asked.docs)

(* "The vault carrying no note about redis is exactly what the caller needs   *)
(* the score to reflect" (score.go:33-35): one word of the question no note     *)
(* carries lowers the score of every note the other words lead to.             *)
Carried(docs) == UNION {docs[i].title \cup docs[i].tags \cup docs[i].stack : i \in DOMAIN docs}

AbsenceIsEvidence ==
    stage = "scored" =>
        LET known == [asked EXCEPT !.question = @ \cap Carried(asked.docs)]
            score(q, i) == FrontmatterScore(q, asked.docs, asked.docs[i])
        IN  asked.question # known.question =>
                \A i \in DOMAIN asked.docs : score(known, i) > 0 => score(asked, i) < score(known, i)

(* "The body channel can move a score by at most 0.1 and never lifts a         *)
(* non-match into the band" (rank.go:119-121).                                 *)
BodyLiftsNoNonMatch ==
    [][BodyPass =>
        \A i \in DOMAIN cands : \A j \in DOMAIN cands :
            cands[i].at = cands'[j].at /\ cands[i].score = 0 => cands'[j].score < 10 * thresholds.neighbour]_recallVars

(* The window "bounds how many top-ranked, already body-scored candidates"    *)
(* may be neighbours (rank.go:22-23).                                          *)
NeighboursWereOpened ==
    stage = "done" =>
        result.neighbours \subseteq
            {FirstPass(asked, asked.docs)[i].at : i \in 1 .. IF Len(cands) < BodyPassSize THEN Len(cands) ELSE BodyPassSize}
=============================================================================
