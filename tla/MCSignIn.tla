------------------------------ MODULE MCSignIn ------------------------------
(***************************************************************************)
(* Two tabs, of two browsers and one module, or of one browser and all of  *)
(* them.  Jane's account is named by her address and is for the user jane; *)
(* joe is in the password file.                                            *)
(***************************************************************************)
EXTENDS SignIn

Directive(d, a, b) == [name |-> d, arg1 |-> a, arg2 |-> b]
MCDirectives == <<Directive("AppKey", "github.com", "app5678"), Directive("AppKey", "twitter.com", "app2345")>>
MCVhostDirectives == <<Directive("ScopeAttr", "REMOTE_USER", "email"), Directive("ScopeAttr", "REALM", "realm"),
                       Directive("Provider", "file", ""), Directive("Provider", "SCA", "")>>
MCSetups ==
    {[order |-> <<"oauth1">>, browser |-> "t1" :> "b1" @@ "t2" :> "b2", flows |-> 2, ids |-> 2, faults |-> 0],
     [order |-> <<"oauth2", "oauth1", "openauth">>, browser |-> "t1" :> "b1" @@ "t2" :> "b1", flows |-> 1, ids |-> 1, faults |-> 1]}
MCProfiles ==
    [u \in Users |-> IF u = "jane" THEN [id |-> "1", email |-> "jane@example.com"]
                     ELSE IF u = "joe" THEN [id |-> "2", name |-> "joe"] ELSE [name |-> "jack"]]
MCFileUsers == {<<"/oauth1/", "2">>}
MCAccounts == ("jane@example.com" :> [hash |-> "secret", user |-> "jane"])
=============================================================================
