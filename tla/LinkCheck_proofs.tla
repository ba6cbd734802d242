---------------------------- MODULE LinkCheck_proofs ----------------------------
(***************************************************************************)
(* What holds of LinkCheck for every set of URLs and hosts, every bound and  *)
(* however servers, network and days move: a source called dead had its       *)
(* server's refusal, a report has a verdict for every URL, and no server is    *)
(* asked two things at once by one spelling of its host.                      *)
(***************************************************************************)
EXTENDS LinkCheck, TLAPS

Requests == [url : AllUrls, method : {"HEAD", "GET"}, by : Servers]

(* The types the arguments below need; the cache on disk stays empty.        *)
TypeInv ==
    /\ server \in [AllUrls -> Holdings]
    /\ disk = Empty
    /\ at \in {"idle", "probing", "render"}
    /\ todo \subseteq AllUrls
    /\ under \subseteq Requests

(* Every URL of a run is answered, under way or yet to be asked for.          *)
Accounted ==
    /\ at = "probing" => cited = DOMAIN out \cup todo \cup {r.url : r \in under}
    /\ at = "render" => cited = DOMAIN out
    /\ at # "probing" => todo = {} /\ under = {}

(* What a run has found so far, and what a report says, is honest.            *)
Honest(found) == \A u \in DOMAIN found : found[u].verdict = "dead" => found[u].had \in {"gone", "forbidden"}
HonestInv == Honest(out) /\ Honest(report)

-----------------------------------------------------------------------------
(* Nothing is fresh in an empty cache, so what it answers is "unreachable".   *)
LEMMA NothingCached ==
    ASSUME disk = Empty
    PROVE  /\ \A urls : {u \in urls : Fresh(LoadCache, u)} = {}
           /\ \A urls : Honest(CachedOnly(LoadCache, urls)) /\ DOMAIN CachedOnly(LoadCache, urls) = urls
<1>1. \A u : ~Fresh(LoadCache, u)
  BY DEF Fresh, LoadCache, Empty
<1>2. \A urls : DOMAIN CachedOnly(LoadCache, urls) = urls
  BY DEF CachedOnly
<1>3. \A urls : \A u \in urls : CachedOnly(LoadCache, urls)[u].verdict = "unreachable"
  BY <1>1 DEF CachedOnly, Found
<1>4. \A urls : Honest(CachedOnly(LoadCache, urls))
  BY <1>2, <1>3 DEF Honest
<1> QED
  BY <1>1, <1>2, <1>4

(* An answer that is not a refusal of HEAD and says dead is gone or forbidden. *)
LEMMA DeadIsRefused ==
    ASSUME NEW r \in Requests, server \in [AllUrls -> Holdings],
           ~(up /\ HeadRefused(r)), Verdict(r) = "dead"
    PROVE  server[r.url] \in {"gone", "forbidden"}
<1>1. server[r.url] \in Holdings /\ r.method \in {"HEAD", "GET"}
  BY DEF Requests
<1>2. up /\ server[r.url] # "ok" /\ ~(server[r.url] = "no-head" /\ r.method = "GET")
  BY DEF Verdict
<1>3. ~(server[r.url] = "no-head" /\ r.method = "HEAD")
  BY <1>2 DEF HeadRefused
<1> QED
  BY <1>1, <1>2, <1>3 DEF Holdings

-----------------------------------------------------------------------------
THEOREM LinkTypes == Spec => []TypeInv
<1>1. Init => TypeInv
  BY DEF Init, TypeInv, Holdings
<1>2. TypeInv /\ [Next]_vars => TypeInv'
  <2> SUFFICES ASSUME TypeInv, [Next]_vars PROVE TypeInv'
    OBVIOUS
  <2>1. ASSUME NEW offline \in BOOLEAN, Begin(offline) PROVE TypeInv'
    <3>1. PICK urls \in SUBSET AllUrls :
            todo' = IF offline THEN {} ELSE urls \ {u \in urls : Fresh(LoadCache, u)}
      BY <2>1 DEF Begin
    <3>2. todo' \subseteq AllUrls
      BY <3>1
    <3> QED
      BY <2>1, <3>2 DEF Begin, TypeInv, world
  <2>2. ASSUME NEW u \in AllUrls, Ask(u) PROVE TypeInv'
    <3>1. [url |-> u, method |-> "HEAD", by |-> Named[Host[u]]] \in Requests
      BY NamedAssumption DEF Requests
    <3> QED
      BY <2>2, <3>1 DEF Ask, TypeInv, world
  <2>3. ASSUME NEW r \in under, Answer(r) PROVE TypeInv'
    <3>1. [r EXCEPT !.method = "GET", !.by = Named[Host[r.url]]] \in Requests
      BY NamedAssumption DEF TypeInv, Requests
    <3> QED
      BY <2>3, <3>1 DEF Answer, TypeInv, world
  <2>11. ASSUME NEW r \in under, Follow(r) PROVE TypeInv'
    <3>1. PICK s \in Servers : under' = (under \ {r}) \cup {[r EXCEPT !.by = s]}
      BY <2>11 DEF Follow
    <3>2. [r EXCEPT !.by = s] \in Requests
      BY DEF TypeInv, Requests
    <3> QED
      BY <2>11, <3>1, <3>2 DEF Follow, TypeInv, world
  <2>4. CASE Joined
    BY <2>4 DEF Joined, TypeInv, world
  <2>5. CASE Render
    BY <2>5 DEF Render, TypeInv, world
  <2>6. CASE Killed
    BY <2>6 DEF Killed, TypeInv, world
  <2>7. CASE NetworkFlips
    BY <2>7 DEF NetworkFlips, Environment, TypeInv
  <2>8. CASE ServerChanges
    BY <2>8 DEF ServerChanges, Environment, TypeInv
  <2>9. CASE NextDay
    BY <2>9 DEF NextDay, TypeInv
  <2>10. CASE UNCHANGED vars
    BY <2>10 DEF vars, TypeInv
  <2> QED
    BY <2>1, <2>2, <2>3, <2>4, <2>5, <2>6, <2>7, <2>8, <2>9, <2>10, <2>11 DEF Next
<1> QED
  BY <1>1, <1>2, PTL DEF Spec

\* One worker to a spelling: it has one request under way, wherever that is led.
OneToAWorker == \A r, s \in under : r # s => Host[r.url] # Host[s.url]

(* Wherever redirects lead, two requests that one server has at once are of    *)
(* two spellings, each of which has a goroutine of its own (linkcheck.go:67-96). *)
THEOREM OneRequestAlways == Spec => []OneRequestToASpelling
<1>1. Init => OneToAWorker
  BY DEF Init, OneToAWorker
<1>2. TypeInv /\ OneToAWorker /\ [Next]_vars => OneToAWorker'
  <2> SUFFICES ASSUME TypeInv, OneToAWorker, [Next]_vars PROVE OneToAWorker'
    OBVIOUS
  <2>1. CASE under' \subseteq under
    BY <2>1 DEF OneToAWorker
  <2>2. ASSUME NEW u \in AllUrls, Ask(u) PROVE OneToAWorker'
    <3> DEFINE new == [url |-> u, method |-> "HEAD", by |-> Named[Host[u]]]
    <3>1. under' = under \cup {new} /\ new.url = u
      BY <2>2 DEF Ask
    <3>2. \A r \in under : Host[r.url] # Host[u]
      BY <2>2 DEF Ask, HostOf
    <3> HIDE DEF new
    <3> QED
      BY <3>1, <3>2 DEF OneToAWorker
  <2>6. ASSUME NEW r \in under, NEW again, again.url = r.url, under' \subseteq (under \ {r}) \cup {again}
        PROVE  OneToAWorker'
    BY <2>6 DEF OneToAWorker
  <2>3. ASSUME NEW r \in under, Answer(r) PROVE OneToAWorker'
    <3> DEFINE again == [r EXCEPT !.method = "GET", !.by = Named[Host[r.url]]]
    <3>1. again.url = r.url
      BY DEF TypeInv, Requests
    <3>2. under' \subseteq (under \ {r}) \cup {again}
      BY <2>3 DEF Answer
    <3> HIDE DEF again
    <3> QED
      BY <2>6, <3>1, <3>2
  <2>7. ASSUME NEW r \in under, Follow(r) PROVE OneToAWorker'
    <3>1. PICK s \in Servers : under' = (under \ {r}) \cup {[r EXCEPT !.by = s]}
      BY <2>7 DEF Follow
    <3> DEFINE again == [r EXCEPT !.by = s]
    <3>2. again.url = r.url
      BY DEF TypeInv, Requests
    <3>3. under' \subseteq (under \ {r}) \cup {again}
      BY <3>1
    <3> HIDE DEF again
    <3> QED
      BY <2>6, <3>2, <3>3
  <2>4. ASSUME NEW offline \in BOOLEAN, Begin(offline) PROVE OneToAWorker'
    BY <2>1, <2>4 DEF Begin
  <2>5. Joined \/ Render \/ Killed \/ NetworkFlips \/ ServerChanges \/ NextDay \/ UNCHANGED vars
        => under' \subseteq under
    BY DEF Joined, Render, Killed, NetworkFlips, ServerChanges, Environment, NextDay, vars
  <2> QED
    BY <2>1, <2>2, <2>3, <2>4, <2>5, <2>7 DEF Next
<1>3. OneToAWorker => OneRequestToASpelling
  BY DEF OneToAWorker, OneRequestToASpelling
<1> QED
  BY <1>1, <1>2, <1>3, LinkTypes, PTL DEF Spec

(* "Dead means a server answered and said no", for any vault, hosts and        *)
(* weather.                                                                  *)
THEOREM DeadAlwaysSaidNo == Spec => []DeadSaidNo
<1>1. Init => HonestInv
  BY DEF Init, HonestInv, Honest, Empty
<1>2. TypeInv /\ HonestInv /\ [Next]_vars => HonestInv'
  <2> SUFFICES ASSUME TypeInv, HonestInv, [Next]_vars PROVE HonestInv'
    OBVIOUS
  <2>1. ASSUME NEW offline \in BOOLEAN, Begin(offline) PROVE HonestInv'
    <3>1. PICK urls : out' = CachedOnly(LoadCache, urls)
      BY <2>1 DEF Begin
    <3>2. Honest(out')
      BY <3>1, NothingCached DEF TypeInv
    <3> QED
      BY <2>1, <3>2 DEF Begin, HonestInv
  <2>2. ASSUME NEW r \in under, Answer(r) PROVE HonestInv'
    <3>1. report' = report
      BY <2>2 DEF Answer
    <3>2. CASE up /\ HeadRefused(r)
      BY <2>2, <3>1, <3>2 DEF Answer, HonestInv
    <3>3. CASE ~(up /\ HeadRefused(r))
      <4>1. /\ DOMAIN out' = DOMAIN out \cup {r.url}
            /\ \A u \in DOMAIN out' :
                 out'[u] = IF u = r.url THEN Found(Verdict(r), server[u]) ELSE out[u]
        BY <2>2, <3>3 DEF Answer
      <4>2. Verdict(r) = "dead" => server[r.url] \in {"gone", "forbidden"}
        BY <3>3, DeadIsRefused DEF TypeInv
      <4>3. ASSUME NEW u \in DOMAIN out', out'[u].verdict = "dead"
            PROVE  out'[u].had \in {"gone", "forbidden"}
        <5>1. CASE u = r.url
          <6>1. out'[u] = Found(Verdict(r), server[r.url])
            BY <4>1, <5>1
          <6>2. out'[u].verdict = Verdict(r) /\ out'[u].had = server[r.url]
            BY <6>1 DEF Found
          <6> QED
            BY <4>2, <4>3, <6>2
        <5>2. CASE u # r.url
          BY <4>1, <4>3, <5>2 DEF Honest, HonestInv
        <5> QED
          BY <5>1, <5>2
      <4>4. Honest(out')
        BY <4>3 DEF Honest
      <4> QED
        BY <3>1, <4>4 DEF HonestInv
    <3> QED
      BY <3>2, <3>3
  <2>3. CASE Render
    BY <2>3 DEF Render, HonestInv, Honest, Empty
  <2>4. CASE Killed
    BY <2>4 DEF Killed, HonestInv, Honest, Empty
  <2>5. ASSUME NEW u \in AllUrls, Ask(u) PROVE HonestInv'
    BY <2>5 DEF Ask, HonestInv
  <2>7. ASSUME NEW r \in under, Follow(r) PROVE HonestInv'
    BY <2>7 DEF Follow, HonestInv
  <2>6. Joined \/ NetworkFlips \/ ServerChanges \/ NextDay \/ UNCHANGED vars => UNCHANGED <<out, report>>
    BY DEF Joined, NetworkFlips, ServerChanges, Environment, NextDay, vars
  <2> QED
    BY <2>1, <2>2, <2>3, <2>4, <2>5, <2>6, <2>7 DEF Next, HonestInv
<1>3. HonestInv => DeadSaidNo
  BY DEF HonestInv, Honest, DeadSaidNo
<1> QED
  BY <1>1, <1>2, <1>3, LinkTypes, PTL DEF Spec

(* A run that has come to its report has a verdict for every URL it was given,  *)
(* however its goroutines ended (check_links.go, cachedOnly; linkcheck.go,      *)
(* Check).                                                                   *)
THEOREM ReportAlwaysWhole == Spec => []ReportIsWhole
<1>1. Init => Accounted
  BY DEF Init, Accounted
<1>2. TypeInv /\ Accounted /\ [Next]_vars => Accounted'
  <2> SUFFICES ASSUME TypeInv, Accounted, [Next]_vars PROVE Accounted'
    OBVIOUS
  <2>1. ASSUME NEW offline \in BOOLEAN, Begin(offline) PROVE Accounted'
    <3>1. PICK urls \in SUBSET AllUrls :
            /\ cited' = urls
            /\ todo' = IF offline THEN {} ELSE urls \ {u \in urls : Fresh(LoadCache, u)}
            /\ out' = CachedOnly(LoadCache, IF offline THEN urls ELSE {u \in urls : Fresh(LoadCache, u)})
      BY <2>1 DEF Begin
    <3>2. under' = {} /\ at' = IF offline THEN "render" ELSE "probing"
      BY <2>1 DEF Begin, Accounted
    <3>3. /\ todo' = IF offline THEN {} ELSE urls
          /\ DOMAIN out' = IF offline THEN urls ELSE {}
      BY <3>1, NothingCached DEF TypeInv
    <3> QED
      BY <3>1, <3>2, <3>3 DEF Accounted
  <2>2. ASSUME NEW u \in AllUrls, Ask(u) PROVE Accounted'
    <3> DEFINE new == [url |-> u, method |-> "HEAD", by |-> Named[Host[u]]]
    <3>1. under' = under \cup {new} /\ new.url = u
      BY <2>2 DEF Ask
    <3> HIDE DEF new
    <3>2. {r.url : r \in under'} = {r.url : r \in under} \cup {u}
      BY <3>1
    <3> QED
      BY <2>2, <3>2 DEF Ask, Accounted
  <2>3. ASSUME NEW r \in under, Answer(r) PROVE Accounted'
    <3>1. CASE up /\ HeadRefused(r)
      <4> DEFINE again == [r EXCEPT !.method = "GET", !.by = Named[Host[r.url]]]
      <4>1. again.url = r.url
        BY DEF TypeInv, Requests
      <4>2. under' = (under \ {r}) \cup {again}
        BY <2>3, <3>1 DEF Answer
      <4> HIDE DEF again
      <4>3. {s.url : s \in under'} = {s.url : s \in under}
        BY <4>1, <4>2
      <4> QED
        BY <2>3, <3>1, <4>3 DEF Answer, Accounted
    <3>2. CASE ~(up /\ HeadRefused(r))
      <4>1. under' = under \ {r} /\ DOMAIN out' = DOMAIN out \cup {r.url}
        BY <2>3, <3>2 DEF Answer
      <4>2. {s.url : s \in under'} \cup {r.url} = {s.url : s \in under}
        BY <4>1
      <4> QED
        BY <2>3, <4>1, <4>2 DEF Answer, Accounted
    <3> QED
      BY <3>1, <3>2
  <2>8. ASSUME NEW r \in under, Follow(r) PROVE Accounted'
    <3>1. PICK s \in Servers : under' = (under \ {r}) \cup {[r EXCEPT !.by = s]}
      BY <2>8 DEF Follow
    <3> DEFINE again == [r EXCEPT !.by = s]
    <3>2. again.url = r.url /\ under' = (under \ {r}) \cup {again}
      BY <3>1 DEF TypeInv, Requests
    <3> HIDE DEF again
    <3>3. {q.url : q \in under'} = {q.url : q \in under}
      BY <3>2
    <3> QED
      BY <2>8, <3>3 DEF Follow, Accounted
  <2>4. CASE Joined
    BY <2>4 DEF Joined, Accounted
  <2>5. CASE Render
    BY <2>5 DEF Render, Accounted
  <2>6. CASE Killed
    BY <2>6 DEF Killed, Accounted
  <2>7. NetworkFlips \/ ServerChanges \/ NextDay \/ UNCHANGED vars
        => UNCHANGED <<at, cited, out, todo, under>>
    BY DEF NetworkFlips, ServerChanges, Environment, NextDay, vars
  <2> QED
    BY <2>1, <2>2, <2>3, <2>4, <2>5, <2>6, <2>7, <2>8 DEF Next, Accounted
<1>3. Accounted => ReportIsWhole
  BY DEF Accounted, ReportIsWhole
<1> QED
  BY <1>1, <1>2, <1>3, LinkTypes, PTL DEF Spec
=============================================================================
