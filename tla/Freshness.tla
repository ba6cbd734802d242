------------------------------ MODULE Freshness ------------------------------
(***************************************************************************)
(* When a note is stale (pkg/recall/freshness.go).  A day is a number;      *)
(* what is none - nothing written, or nothing that parses - is not above 0.  *)
(***************************************************************************)
EXTENDS Integers

CONSTANT Today

Dated(d) == d > 0

(* `verified` first, then `updated`; no window, never stale; no day, always. *)
IsStale(updated, verified, days) ==
    /\ days > 0
    /\ LET when == IF Dated(verified) THEN verified ELSE updated
       IN  ~Dated(when) \/ Today - when > days
=============================================================================
