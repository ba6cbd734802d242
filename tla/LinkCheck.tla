------------------------------- MODULE LinkCheck -------------------------------
(***************************************************************************)
(* The dead-link pass of forge check (pkg/linkcheck, check_links.go): every   *)
(* URL the vault cites is asked for once, HEAD and then GET where HEAD is      *)
(* refused, the hosts in parallel and each host's URLs one after the other.    *)
(* The servers and the network are the environment, and move at any time.     *)
(***************************************************************************)
EXTENDS Integers, Sequences, SequencesExt, FiniteSets

CONSTANTS Urls,          \* the URLs that may be cited, in their sorted order
          Host,          \* Host[u]: the host, as u spells it
          Named,         \* Named[h]: the server that a host so spelled is
          Servers,       \* all there are
          TTL,           \* for how many days a verdict stands
          MaxRuns, MaxDays, MaxChanges

VARIABLES server,        \* server[u]: what the server that answers for u has
          up,            \* the network is there
          day,
          disk,          \* linkcheck.json: what it remembers of earlier runs
          cited,         \* the URLs this run checks
          at,            \* "idle", "probing", "render"
          seen,          \* the cache of this run: u :> [verdict, day]
          todo, under,   \* the URLs yet to ask for, and the requests under way:
                         \* [url, method, by], by: the server that now has it
          out,           \* what this run has found: the verdict, and what the
                         \* server had when it last answered
          report,        \* what deadlinks.md says: u :> [verdict, had]
          runs, changes, \* counters for the bounds
          known          \* the day on which a report last had an answer for u

vars == <<server, up, day, disk, cited, at, seen, todo, under, out, report, runs, changes, known>>
world == <<server, up, day, disk, changes>>

AllUrls == ToSet(Urls)
Holdings == {"ok", "gone", "no-head", "forbidden"}
Empty == [u \in {} |-> "none"]

ASSUME HostAssumption == DOMAIN Host = AllUrls /\ TTL \in Nat
ASSUME NamedAssumption == \A u \in AllUrls : Named[Host[u]] \in Servers

Init ==
    /\ server \in [AllUrls -> {"ok", "no-head"}] /\ up = TRUE /\ day = 0
    /\ disk = Empty
    /\ cited = {} /\ at = "idle"
    /\ seen = Empty /\ todo = {} /\ under = {} /\ out = Empty /\ report = Empty
    /\ runs = 0 /\ changes = 0
    /\ known = [u \in AllUrls |-> -1]

-----------------------------------------------------------------------------
(* LoadCache: a missing file is an empty cache, and missing it stays, because *)
(* no command calls Save.                                                     *)
LoadCache == disk

Fresh(cache, u) ==
    u \in DOMAIN cache /\ cache[u].verdict # "unreachable" /\ day - cache[u].day <= TTL

Found(verdict, had) == [verdict |-> verdict, had |-> had]

(* cachedOnly: what is not in the cache is unreachable.                      *)
CachedOnly(cache, urls) ==
    [u \in urls |-> Found(IF Fresh(cache, u) THEN cache[u].verdict ELSE "unreachable", "cached")]

Begin(offline) ==
    /\ at = "idle" /\ runs < MaxRuns
    /\ runs' = runs + 1
    /\ \E urls \in SUBSET AllUrls :
           LET hits == {u \in urls : Fresh(LoadCache, u)}
           IN  /\ cited' = urls
               /\ todo' = IF offline THEN {} ELSE urls \ hits
               /\ out' = CachedOnly(LoadCache, IF offline THEN urls ELSE hits)
    /\ seen' = LoadCache
    /\ at' = IF offline THEN "render" ELSE "probing"
    /\ UNCHANGED <<world, under, report, known>>

(* Mutant: every URL is a bucket of its own.                                 *)
HostOfUrl(u) == u

(* hostOf: the bucket of a URL is its host as it is spelled.                 *)
HostOf(u) == Host[u]

First(urls) == Urls[CHOOSE i \in DOMAIN Urls : Urls[i] \in urls /\ \A j \in 1 .. i - 1 : Urls[j] \notin urls]

(* The worker of a host takes its next URL when the one before is answered.   *)
Ask(u) ==
    /\ at = "probing" /\ u \in todo
    /\ u = First({v \in todo : HostOf(v) = HostOf(u)})
    /\ \A r \in under : HostOf(r.url) # HostOf(u)
    /\ todo' = todo \ {u}
    /\ under' = under \cup {[url |-> u, method |-> "HEAD", by |-> Named[Host[u]]]}
    /\ UNCHANGED <<world, cited, at, seen, out, report, runs, known>>

(* "Redirects are followed": the client goes on to wherever it is sent, and    *)
(* asks no worker.                                                           *)
Follow(r) ==
    /\ at = "probing" /\ r \in under /\ up
    /\ \E s \in Servers \ {r.by} : under' = (under \ {r}) \cup {[r EXCEPT !.by = s]}
    /\ UNCHANGED <<world, cited, at, seen, todo, out, report, runs, known>>

(* Mutant: a refusal of HEAD is the server's answer.                         *)
HeadNeverRefused(r) == FALSE

(* headRefused: 400, 403, 405 and 501.                                      *)
HeadRefused(r) == r.method = "HEAD" /\ server[r.url] \in {"no-head", "forbidden"}

(* verdictOf, of an answer; and no answer at all.                            *)
Verdict(r) ==
    IF ~up THEN "unreachable"
    ELSE IF server[r.url] = "ok" \/ (server[r.url] = "no-head" /\ r.method = "GET") THEN "alive" ELSE "dead"

Answer(r) ==
    /\ at = "probing" /\ r \in under
    /\ IF up /\ HeadRefused(r)
       THEN /\ under' = (under \ {r}) \cup {[r EXCEPT !.method = "GET", !.by = Named[Host[r.url]]]}
            /\ UNCHANGED <<out, seen>>
       ELSE /\ under' = under \ {r}
            /\ out' = [u \in DOMAIN out \cup {r.url} |-> IF u = r.url THEN Found(Verdict(r), server[u]) ELSE out[u]]
            /\ seen' = [u \in DOMAIN seen \cup {r.url} |->
                           IF u = r.url THEN [verdict |-> Verdict(r), day |-> day] ELSE seen[u]]
    /\ UNCHANGED <<world, cited, at, todo, report, runs, known>>

Joined ==
    /\ at = "probing" /\ todo = {} /\ under = {}
    /\ at' = "render"
    /\ UNCHANGED <<world, cited, seen, todo, under, out, report, runs, known>>

(* deadlinks.md is written; the cache is let go of.                          *)
Render ==
    /\ at = "render"
    /\ report' = out
    /\ known' = [u \in AllUrls |-> IF u \in DOMAIN out /\ out[u].verdict # "unreachable" THEN day ELSE known[u]]
    /\ at' = "idle" /\ seen' = Empty /\ out' = Empty
    /\ UNCHANGED <<world, cited, todo, under, runs>>

Killed ==
    /\ at # "idle"
    /\ at' = "idle" /\ seen' = Empty /\ out' = Empty /\ todo' = {} /\ under' = {}
    /\ UNCHANGED <<world, cited, report, runs, known>>

-----------------------------------------------------------------------------
Environment(server2, up2) ==
    /\ changes < MaxChanges /\ changes' = changes + 1
    /\ server' = server2 /\ up' = up2
    /\ UNCHANGED <<day, disk, cited, at, seen, todo, under, out, report, runs, known>>

NetworkFlips == Environment(server, ~up)
ServerChanges == \E u \in AllUrls, has \in Holdings : has # server[u] /\ Environment([server EXCEPT ![u] = has], up)

NextDay ==
    /\ day < MaxDays /\ at = "idle"
    /\ day' = day + 1
    /\ UNCHANGED <<server, up, disk, changes, cited, at, seen, todo, under, out, report, runs, known>>

Next ==
    \/ \E offline \in BOOLEAN : Begin(offline)
    \/ \E u \in AllUrls : Ask(u)
    \/ \E r \in under : Follow(r) \/ Answer(r)
    \/ Joined \/ Render \/ Killed
    \/ NetworkFlips \/ ServerChanges \/ NextDay

Spec == Init /\ [][Next]_vars

-----------------------------------------------------------------------------
(* "Dead means a server answered and said no" (deadlinks.go), however the     *)
(* network and the server moved between a HEAD and its GET: what is reported   *)
(* dead was gone, or forbidden, when its server answered for good.             *)
DeadSaidNo == \A u \in DOMAIN report : report[u].verdict = "dead" => report[u].had \in {"gone", "forbidden"}

(* "Omitting the unknowns would shrink the denominator" (check_links.go): a    *)
(* run that has come to its report, offline or not, whatever its workers met,  *)
(* has a verdict for every URL cited.                                         *)
ReportIsWhole == at = "render" => DOMAIN out = cited

(* Of two requests that one server has at once, whether it was asked or was    *)
(* the end of a redirect, the vault spells the hosts in two ways (linkcheck.go, *)
(* Check): no server is asked twice for one of its spellings.                 *)
OneRequestToASpelling == \A r, s \in under : r # s /\ r.by = s.by => Host[r.url] # Host[s.url]

(* "Checks URLs, one host at a time but hosts in parallel" (linkcheck.go:48).  *)
OneRequestToAHost == \A r, s \in under : r # s => r.by # s.by

(* "It does not re-check a URL it checked recently" (linkcheck.go:7).         *)
NotAskedAgain ==
    [][\A r \in under' \ under : r.method = "HEAD" => known[r.url] = -1 \/ day - known[r.url] > TTL]_vars
=============================================================================
