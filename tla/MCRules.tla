---- MODULE MCRules ----
(* The note contract with the gates over it, and the ranking: programs that  *)
(* share no state but the notes they are given, so each behaviour is of one.  *)
EXTENDS QualityGate, Recall

MCTypes == {"concept", "decision", "howto"}
MCDefaultsKnown == {"concept", "howto"}
MCUncited == {"decision"}
MCStacks == {"go", "java"}
MCAliasOf == [i \in {"go", "java", "Go", "golang", "Golang", "cobol"} |-> IF i = "golang" THEN "go" ELSE i]
MCLowerOf == [i \in {"go", "java", "Go", "golang", "Golang", "cobol"} |->
                CASE i = "Go" -> "go" [] i = "Golang" -> "golang" [] OTHER -> i]
MCDaysOf == [v \in {"good", "bad", ""} |-> IF v = "good" THEN 2 ELSE 0]

-----------------------------------------------------------------------------
\* drafts
Days == {-1, 0, 1, 2}
Base == [k \in Known |->
            CASE k \in DateKeys -> 1 [] k \in ItemKeys -> <<"go">> [] k \in {"related", "supersedes"} -> << >>
              [] k = "sources" -> <<"good">> [] k = "type" -> "concept" [] OTHER -> "good"]
FileOf(front, keys, inOrder, heading) ==
    [front |-> front, keys |-> keys, inOrder |-> inOrder, mtime |-> 2, heading |-> heading]
Without(f, K) == [k \in DOMAIN f \ K |-> f[k]]
\* every combination of days, of the v1 key `date`, and of order
DatedFiles ==
    {FileOf("yaml", Without([created |-> c, updated |-> u, verified |-> v, date |-> d, type |-> t] @@ Base, K), o, "good") :
        c \in Days, u \in Days, v \in Days, d \in {0, 1}, t \in {"concept", "decision"},
        K \in SUBSET {"created", "date"}, o \in BOOLEAN}
\* every combination of lists, sources, types and legacy keys
ListedFiles ==
    {FileOf("yaml", Without([stack |-> s, sources |-> r, type |-> t, source |-> l, freshness_days |-> f] @@ Base, K), TRUE, "good") :
        s \in {<< >>, <<"go">>, <<"Golang", "go">>, <<"cobol">>, <<"Go", "golang">>},
        r \in {<< >>, <<"good">>, <<"bad">>}, t \in {"concept", "decision", "bad", ""}, l \in {"", "path"},
        f \in {"good", "bad", ""}, K \in SUBSET {"stack", "sources", "type", "source", "freshness_days"}}
\* every combination of scalars
NamedFiles ==
    {FileOf("yaml", Without([title |-> t, slug |-> s, engine_trail |-> e, depth |-> d] @@ Base, K), TRUE, h) :
        t \in {"good", "bad", "foreign", ""}, s \in {"good", "bad", ""}, e \in {"good", "bad"}, d \in {"good", "bad", ""},
        h \in {"good", "foreign"}, K \in SUBSET {"title", "slug", "engine_trail", "depth", "related"}}
BareFiles == {FileOf(fr, << >>, TRUE, h) : fr \in {"none", "unparsable"}, h \in {"good", "foreign"}}
MCFiles == DatedFiles \cup ListedFiles \cup NamedFiles \cup BareFiles

Block(l, s) == [lang |-> l, says |-> s]
OneBlock == {<<Block(l, s)>> : l \in {"bash", "java", "ts", "kotlin"}, s \in {"ok", "syntax", "unresolved", "both", "prose", "killed"}}
TwoBlocks == {<<b[1], c[1]>> : b \in OneBlock, c \in {<<Block("java", s)>> : s \in {"ok", "syntax", "unresolved"}}}
PlainBody == [blocks |-> << >>, banned |-> FALSE, links |-> "none", twin |-> FALSE]
MCBodies ==
    {[PlainBody EXCEPT !.blocks = bs] : bs \in OneBlock \cup TwoBlocks}
    \cup {[PlainBody EXCEPT !.banned = b, !.links = l, !.twin = t] : b, t \in BOOLEAN, l \in {"none", "resolved", "dangling"}}
MCSettings == {[strict |-> s, runCode |-> r, tools |-> t] :
                  s \in BOOLEAN, r \in {"auto", "never"}, t \in {Compilers, {"bash"}}}
Sound == FileOf("yaml", [created |-> 2, updated |-> 2, verified |-> 2] @@ Base, TRUE, "good")

GateIdle == note = FileOf("yaml", Base, TRUE, "good") /\ fixed = FALSE /\ body = PlainBody
            /\ mode = "create" /\ setting = [strict |-> FALSE, runCode |-> "off", tools |-> {}] /\ report = NoReport
GateInit ==
    /\ ContractInit /\ report = NoReport /\ mode \in {"create", "update"}
    /\ \/ body = PlainBody /\ setting \in {[strict |-> TRUE, runCode |-> "auto", tools |-> Compilers]}
       \/ /\ note \in {Sound, [Sound EXCEPT !.keys["type"] = "howto"]}
          /\ body \in Bodies /\ setting \in Settings

-----------------------------------------------------------------------------
\* questions: "redis" and "java" are words of vaults, "kafka" is not
MCIdf(df, n) == CASE n = df -> 69 [] n = 2 * df -> 110 [] n = 3 * df -> 139 [] 2 * n = 3 * df -> 92 [] OTHER -> 161
Words == {"redis", "java"}
Doc(t, g, s, b) ==
    [title |-> t, tags |-> g, stack |-> s, body |-> [w \in Words \cup {"kafka"} |-> IF w \in DOMAIN b THEN b[w] ELSE 0],
     updated |-> 1, verified |-> 1, days |-> 2]
BodyCounts == {[redis |-> 0], [redis |-> 3], [redis |-> 3, java |-> 3]}
AnyDoc == {Doc(t, g, s, b) : t \in {{}, {"redis"}, {"java", "guide"}}, g \in SUBSET {"redis", "java", "misc"},
              s \in {{}, {"java"}, {"misc"}}, b \in BodyCounts}
Fillers == {Doc({"guide"}, {}, {}, [redis |-> 0]), Doc({"redis"}, {"redis"}, {"java"}, [redis |-> 0]),
            [Doc({"java"}, {"misc"}, {"java"}, [redis |-> 3, java |-> 3]) EXCEPT !.days = 9]}
MCAsked == {[question |-> q, hints |-> h, docs |-> <<d, e, f>>] :
               q \in {{"redis"}, {"redis", "java"}, {"redis", "kafka"}}, h \in {{}, {"java"}, {"kafka"}},
               d \in AnyDoc, e \in Fillers, f \in Fillers}
MCThresholds == {[answer |-> 850, update |-> 550, neighbour |-> 150]}

-----------------------------------------------------------------------------
Init == (GateInit /\ RecallIdle) \/ (RecallInit /\ GateIdle)
Next == (GateNext /\ stage = "idle" /\ UNCHANGED recallVars) \/ (RecallNext /\ UNCHANGED gateVars)
vars == <<gateVars, recallVars>>
Spec == Init /\ [][Next]_vars
====
