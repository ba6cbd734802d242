------------------------------ MODULE SharedInbox ------------------------------
(***************************************************************************)
(* forge gate, forge session-capture and a person around one inbox, each at  *)
(* any time.  MaxRuns bounds the commands of both kinds together, MaxTrouble *)
(* the faults and the edits.                                                *)
(***************************************************************************)
EXTENDS GateRun, SessionCapture

CONSTANTS MaxRuns, MaxTrouble

vars == <<inboxVars, gateVars, captureVars>>

Init == InboxInit /\ GateRunInit /\ CaptureInit

Next ==
    /\ \/ GateRunNext /\ UNCHANGED captureVars
       \/ CaptureNext /\ UNCHANGED gateVars
       \/ Person /\ UNCHANGED <<gateVars, captureVars>>
    /\ gates' + firings' <= MaxRuns
    /\ faults' + mishaps' + edits' <= MaxTrouble

Spec == Init /\ [][Next]_vars
=============================================================================
