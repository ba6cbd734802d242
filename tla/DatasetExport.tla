----------------------------- MODULE DatasetExport -----------------------------
(***************************************************************************)
(* forge export-dataset --set d3 (pkg/dataset/export.go) beside the captures: *)
(* the whole tier is read, strictly, and rendered in memory; then the log, the  *)
(* export and its datasheet are written, in that order.                        *)
(***************************************************************************)
EXTENDS Corrections

CONSTANTS MaxExports, MaxFailures

VARIABLES stage,        \* "idle", or the number of the write that is next
          body,         \* the records the export holds in memory
          log,          \* exports.jsonl; an export is named by its number
          out,          \* the export of which --out holds the records or a part of
                        \* them, and the one of which it holds the datasheet
          exports, failures   \* counters for the bounds

xvars == <<stage, body, log, out, exports, failures>>
vars == <<cvars, xvars>>

ASSUME ExportAssumption == MaxExports \in Nat /\ MaxFailures \in Nat

Init ==
    /\ CInit
    /\ stage = "idle" /\ body = {}
    /\ log = NoFile /\ out = [body |-> 0, sheet |-> 0]
    /\ exports = 0 /\ failures = 0

(* readStrict: one line that does not parse and nothing is exported.         *)
ReadStrict(f) == Parses(f)

(* Mutant: the export is written first, then logged.                         *)
BodyFirst == <<"body", "log", "sheet">>

(* The order in which commit writes.                                        *)
Writes == <<"log", "body", "sheet">>

Load ==
    /\ stage = "idle" /\ exports < MaxExports
    /\ exports' = exports + 1
    /\ stage' = IF ReadStrict(file) THEN Writes[1] ELSE "idle"
    /\ body' = IF ReadStrict(file) THEN Held(file) ELSE {}
    /\ UNCHANGED <<cvars, log, out, failures>>

After(s) ==
    IF s = Last(Writes) THEN "idle"
    ELSE Writes[1 + CHOOSE i \in DOMAIN Writes : Writes[i] = s]

LogLine == <<exports, 1>>

Write ==
    /\ stage # "idle"
    /\ log' = IF stage = "log" THEN Encode(log, LogLine) ELSE log
    /\ out' = IF stage = "log" THEN out ELSE [out EXCEPT ![stage] = exports]
    /\ stage' = After(stage)
    /\ body' = IF stage' = "idle" THEN {} ELSE body
    /\ UNCHANGED <<cvars, exports, failures>>

(* The write of one of the three fails, at once or having written a part, and *)
(* what follows it is not written.                                           *)
Fail ==
    /\ stage # "idle" /\ failures < MaxFailures
    /\ failures' = failures + 1
    /\ IF stage = "log" THEN log' \in Cut(log, LogLine) /\ out' = out
       ELSE out' \in {out, [out EXCEPT ![stage] = exports]} /\ log' = log
    /\ stage' = "idle" /\ body' = {}
    /\ UNCHANGED <<cvars, exports>>

Next ==
    \/ CNext /\ UNCHANGED xvars
    \/ Load \/ Write \/ Fail

Spec == Init /\ [][Next]_vars

-----------------------------------------------------------------------------
(* "An export that is short by an unknown amount and, worse, looks complete"  *)
(* (read.go) is what the strict reader is for: an export that goes ahead holds *)
(* every correction any capture has counted, though the file has lost some.    *)
ExportIsComplete ==
    [][stage = "idle" /\ stage' # "idle" => reported \subseteq body']_vars

(* "An export that happened without being recorded is not reachable"          *)
(* (export.go), but for one: its entry is lost to the line that an entry cut    *)
(* short has left, and the log then shows that it has lost something.          *)
ExportsAreLogged == out.body # 0 => <<out.body, 1>> \in Held(log) \/ ~Parses(log)
=============================================================================
