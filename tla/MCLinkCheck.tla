----------------------------- MODULE MCLinkCheck -----------------------------
(* Two URLs that spell one server's host alike, and one that spells it in    *)
(* another way; any of them may be redirected to a second server.            *)
EXTENDS LinkCheck, TLC

MCUrls == <<"a/1", "a/2", "A/3">>
MCHost == ("a/1" :> "a") @@ ("a/2" :> "a") @@ ("A/3" :> "A")
MCNamed == ("a" :> "a") @@ ("A" :> "a")
=============================================================================
