------------------------------ MODULE MCBudget ------------------------------
(***************************************************************************)
(* Budget with one interactive run, one weekly drain, one recorder and two *)
(* notes, over the configuration chains a user may write on top of the     *)
(* packaged one.  Money is counted in units of the cheapest call.          *)
(***************************************************************************)
EXTENDS Budget

CONSTANTS r1, d1, e1

Set(key, value) == [k \in {key} |-> value]
Empty == [k \in {} |-> ""]

\* The packaged layer, for the stages of the model.
Packaged ==
    [k \in {<<"recall", "engine">>, <<"research", "engine">>, <<"research", "fallback">>,
            Default, Local, OnExhausted, DrainQueue} |->
        CASE k = <<"recall", "engine">> -> "none"
          [] k = <<"research", "engine">> -> "api"
          [] k \in {Default, <<"research", "fallback">>} -> "host"
          [] k = Local -> "disabled"
          [] k = OnExhausted -> "queue"
          [] k = DrainQueue -> "true"]

Over(home, project) == <<Packaged, home, project, Empty>>

\* No fallback behind a metered tier, so that an empty ledger degrades to none.
NoFallback == Set(<<"research", "fallback">>, "none")
AdvisorLast == Merge(Set(<<"research", "engine">>, "local"), Set(<<"research", "fallback">>, "advisor"))

LocalServer == Merge(Set(<<"research", "fallback">>, "local"), Set(Local, "enabled"))

MCChains ==
    {Over(NoFallback, Set(<<"recall", "fallback">>, "api")),
     Over(AdvisorLast, Set(<<"recall", "then">>, "host")),
     Over(NoFallback, Set(OnExhausted, "stop")),
     Over(Empty, Set(DrainQueue, "false")),
     Over(LocalServer, Set(DrainQueue, "false")),
     Over(NoFallback, Set(<<"recall", "engine">>, "host"))}

\* A locked stage whose engine a layer leaves blank.
MCBlankChains == {Over(Empty, Set(<<"recall", "engine">>, ""))}

MCCap == [t \in Metered |-> 1]
=============================================================================
