-------------------------------- MODULE Inbox --------------------------------
(***************************************************************************)
(* <vault>/_inbox: where forge gate leaves what failed and forge            *)
(* session-capture what a session concluded (pkg/vault/quarantine.go), and  *)
(* where a person finds it, works on it and takes it away.                  *)
(***************************************************************************)
EXTENDS Naturals, FiniteSets

CONSTANTS Slugs, MaxEdits

VARIABLES inbox,       \* inbox[s]: the file <s>.md, or Empty
          edits        \* what people have done to the inbox, for the bound

inboxVars == <<inbox, edits>>

Empty == [text |-> "none", edited |-> FALSE]
Torn == [text |-> "torn", edited |-> FALSE]
Waiting == {s \in Slugs : inbox[s].text # "none"}

InboxInit == inbox = [s \in Slugs |-> Empty] /\ edits = 0

(* WriteToInbox: os.WriteFile at _inbox/<slug>.md, whatever is there.       *)
WriteToInbox(s, t) ==
    /\ s \in Slugs
    /\ inbox' = [inbox EXCEPT ![s] = [text |-> t, edited |-> FALSE]]

(* The same, failing once the file is truncated.                            *)
WriteTears(s) == s \in Slugs /\ inbox' = [inbox EXCEPT ![s] = Torn]

(* A person fills in what the open questions ask for, or takes the file out. *)
Work(s) == s \in Waiting /\ inbox' = [inbox EXCEPT ![s].edited = TRUE]
TakeAway(s) == s \in Waiting /\ inbox' = [inbox EXCEPT ![s] = Empty]

Person ==
    /\ edits < MaxEdits
    /\ edits' = edits + 1
    /\ \E s \in Slugs : Work(s) \/ TakeAway(s)
=============================================================================
