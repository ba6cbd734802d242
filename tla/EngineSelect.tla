---------------------------- MODULE EngineSelect ----------------------------
(***************************************************************************)
(* Which engine runs a pipeline stage (pkg/engine's select.go and          *)
(* availability.go over pkg/config's chain).  A configuration is a partial *)
(* function from keys to strings, "" being a key left blank; the daily     *)
(* caps are constants.  A ledger maps each metered tier to what today's    *)
(* row of the budget table shows.                                          *)
(***************************************************************************)
EXTENDS Integers

CONSTANTS
    Stages,     \* the stages of the pipeline
    Locked,     \* the T0 static core among them: recall, write, index
    Stampable,  \* the stages engine_trail has lines for
    Cap         \* the daily cap of each metered tier

Metered == {"api", "advisor"}
Engines == Metered \cup {"none", "host", "local"}
Ledger == [Metered -> Nat]

ASSUME CapAssumption == Cap \in Ledger
ASSUME StageAssumption == Locked \subseteq Stages /\ Stampable \subseteq Stages

(***************************************************************************)
(* The configuration chain.                                                *)
(***************************************************************************)
Slots == {"engine", "fallback", "then"}
Default == <<"engines", "default">>
Local == <<"engines", "local">>
OnExhausted == <<"budget", "on_exhausted">>
DrainQueue == <<"check", "drain_advisor_queue">>
Keys == (Stages \X Slots) \cup {Default, Local, OnExhausted, DrainQueue}

IsLayer(f) == DOMAIN f \subseteq Keys /\ f \in [DOMAIN f -> STRING]

\* Maps merge key by key, a scalar of the higher layer replaces the lower one's.
Merge(low, high) ==
    [k \in DOMAIN low \cup DOMAIN high |-> IF k \in DOMAIN high THEN high[k] ELSE low[k]]

\* Packaged, home, project, $FORGE_CONFIG, lowest first.
Load(layers) == Merge(Merge(Merge(layers[1], layers[2]), layers[3]), layers[4])

Get(cfg, key) == IF key \in DOMAIN cfg THEN cfg[key] ELSE ""

\* config.Load's check of the merged chain: of a locked stage only .engine is looked at.
Valid(cfg) ==
    /\ \A s \in Locked : Get(cfg, <<s, "engine">>) \in {"", "none"}
    /\ Get(cfg, OnExhausted) \in {"", "queue", "degrade", "stop"}

(***************************************************************************)
(* Selection.                                                              *)
(***************************************************************************)
CheckLocked(cfg, s) ==
    s \in Locked => \A slot \in Slots : Get(cfg, <<s, slot>>) \in {"", "none"}

\* Mutant: engines.default goes before the stage's own engine.
ChainDefault(cfg, s) ==
    <<IF Get(cfg, Default) # "" THEN Get(cfg, Default) ELSE Get(cfg, <<s, "engine">>),
      Get(cfg, <<s, "fallback">>), Get(cfg, <<s, "then">>)>>

\* The candidates in order; a blank one stands for one that is not there.
Chain(cfg, s) ==
    <<IF Get(cfg, <<s, "engine">>) # "" THEN Get(cfg, <<s, "engine">>) ELSE Get(cfg, Default),
      Get(cfg, <<s, "fallback">>), Get(cfg, <<s, "then">>)>>

\* Mutant: a tier with nothing left is still on offer.
RemainsAtCap(seen, tier) == seen[tier] <= Cap[tier]

Remains(seen, tier) == seen[tier] < Cap[tier]

Available(cfg, seen, engine) ==
    \/ engine \in {"none", "host"}
    \/ engine = "local" /\ Get(cfg, Local) = "enabled"
    \/ engine \in Metered /\ Remains(seen, engine)

Resolve(cfg, seen, s) ==
    LET ready == {i \in 1..3 : Available(cfg, seen, Chain(cfg, s)[i])}
    IN  IF ready = {} THEN "none"
        ELSE Chain(cfg, s)[CHOOSE i \in ready : \A j \in ready : i <= j]

\* Mutant: only the stage's first candidate counts.
ExhaustedFirst(cfg, seen, s) ==
    Chain(cfg, s)[1] \in Metered /\ ~Remains(seen, Chain(cfg, s)[1])

\* A metered tier of the chain has nothing left today.
Exhausted(cfg, seen, s) ==
    \E i \in 1..3 : Chain(cfg, s)[i] \in Metered /\ ~Remains(seen, Chain(cfg, s)[i])

\* The bucket a winning engine draws from; the others book nothing.
Books(engine) == engine \in Metered

(***************************************************************************)
(* The trail of a note: which tier ran which stage.                        *)
(***************************************************************************)
Entry(s, tier) == [stage |-> s, tier |-> tier]

\* Mutant: the earlier entry of the stage stays.
AppendTrail(trail, e) == trail \cup {e}

MergeTrail(trail, e) == {old \in trail : old.stage # e.stage} \cup {e}

\* What `forge engine record` agrees to stamp.
Recordable(s, tier) == s \in Stampable /\ (s \in Locked => tier = "none")
=============================================================================
