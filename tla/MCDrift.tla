------------------------------ MODULE MCDrift ------------------------------
(***************************************************************************)
(* Drift on one code repository and two notes, each citing one path; the   *)
(* hooks run one at a time.  File 1 declares `place`; it can be deleted,   *)
(* renamed away or moved and rewritten.  File 2 can be deleted or change.  *)
(* The definitions named Shared are of MCDriftShared.cfg: two repositories *)
(* share the vault and their hooks overlap, with each other and with the   *)
(* authors; writes fail, runs die, .forge/ is deleted.                     *)
(***************************************************************************)
EXTENDS Drift

CONSTANTS app, lib, sweep, glance, place, submit

MCRepos == {app}
MCRepoOf == [f \in Files |-> app]
MCBaseOf == [f \in Files |-> f]

Declares(symbol, body, line) == [s \in {symbol} |-> [body |-> body, line |-> line]]
Original == Declares(place, 1, 4)
MCContents == {Original, Declares(submit, 1, 4)}
MCFirstTree == [f \in Files |-> Original]

Path(f, symbol, line) ==
    [kind |-> "path", files |-> {f}, base |-> f, extra |-> [g \in Files |-> 0],
     symbol |-> symbol, line |-> line]
MCCites == [n \in Notes |-> IF n = 1 THEN {Path(1, place, 4)} ELSE {Path(2, NoSymbol, 0)}]

\* One note that cites both files.
MCBothCites == [n \in Notes |-> {Path(1, place, 4), Path(2, NoSymbol, 0)}]

\* A file that git tracks and in which the extractor finds no declaration.
MCOpaqueContents == {Original, [s \in {} |-> 0]}

MCSlug == [n \in Notes |-> n]
MCFirstConf == [n \in Notes |-> IF n = 1 THEN "high" ELSE "medium"]

SharedRepoOf == [f \in Files |-> IF f = 1 THEN app ELSE lib]
SharedBaseOf == [f \in Files |-> 1]
SharedContents == {Original, Declares(place, 2, 7)}

\* Note 1 cites a bare symbol; note 2 cites a path that fits a file of each
\* repository, the first better, and the full path of the second.
SharedCite(kind, files, line) ==
    [kind |-> kind, files |-> files, base |-> 1, extra |-> [f \in Files |-> f],
     symbol |-> place, line |-> line]
SharedCites == [n \in Notes |->
    IF n = 2 THEN {SharedCite("path", {1, 2}, 4), SharedCite("path", {2}, 4)} ELSE {SharedCite("symbol", {}, 0)}]
SharedSlug == [n \in Notes |-> 1]
SharedConf == [n \in Notes |-> "high"]
=============================================================================
