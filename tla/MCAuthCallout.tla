---------------------------- MODULE MCAuthCallout ----------------------------
(* A small instance of AuthCallout for TLC: two permissions files, one of    *)
(* which has two entries under one OAuth2 key, and every combination of a    *)
(* few credentials of each kind.                                             *)
EXTENDS AuthCallout

Entry(subject, azp, scope, profile) ==
    [subject |-> subject, azp |-> azp, scope |-> scope, profile |-> profile]
Keyed(key, profile) == [key |-> key, profile |-> profile]

MCProfiles == {"subject", "party", "party2", "both", "device", "leaf", "anon", "badperm"}
MCGrantable == MCProfiles \ {"badperm"}

Before ==
    [oauth2 |-> {Entry("alice", "", "", "subject"), Entry("", "svc", "ops", "party"),
                 Entry("", "svc", "", "party2"), Entry("bob", "svc", "", "both")},
     mtls   |-> {Keyed(<<"CN=", "bms">>, "device"), Keyed(<<"", "bms.example">>, "badperm")},
     nkey   |-> {Keyed("UKEY", "leaf")},
     noauth |-> "anon"]

\* alice loses her own entry, the certificates and the key lose theirs, and
\* anonymous access is turned off.
After ==
    [oauth2 |-> {Entry("", "svc", "", "party2")},
     mtls   |-> {Keyed(<<"CN=", "other">>, "device")},
     nkey   |-> {},
     noauth |-> NotFound]

Winner(config, profile) ==
    CHOOSE b \in Builds(config) : b.oauth2[<<"", "svc">>].profile = profile

MCBuild == <<Winner(Before, "party"), Winner(After, "party2")>>

Token(jwt, verifies, subject, azp, scope, scopes) ==
    [jwt |-> jwt, verifies |-> verifies, subject |-> subject, azp |-> azp,
     scope |-> scope, scopes |-> scopes]

Tokens ==
    {Token(TRUE, TRUE, "alice", "svc", {"mqtt"}, {}),
     Token(TRUE, TRUE, "alice", "", {"ops"}, {"mqtt"}),
     Token(TRUE, TRUE, "bob", "svc", NoScope, {"mqtt"}),
     Token(TRUE, TRUE, "carol", "svc", NoScope, {"ops"}),
     Token(TRUE, FALSE, "alice", "svc", {"mqtt"}, {}),
     Token(FALSE, FALSE, "", "", NoScope, {})}

Good == Token(TRUE, TRUE, "alice", "svc", {"mqtt"}, {})
Forged == Token(TRUE, FALSE, "alice", "svc", {"mqtt"}, {})

Certificate(parses, trusted, names) ==
    [parses |-> parses, trusted |-> trusted, names |-> names]

Chains ==
    {NoChain, EmptyChain,
     Certificate(TRUE, TRUE, <<"bms", "ops@example", "bms.example", "", "">>),
     Certificate(TRUE, TRUE, <<"", "", "bms.example", "other", "">>),
     Certificate(TRUE, FALSE, <<"bms", "", "", "", "">>),
     Certificate(TRUE, TRUE, <<"", "", "", "", "">>)}

MCRequests ==
    [decodes : {TRUE}, token : Tokens \cup {NoToken},
     user : {""}, password : {NoToken}, chain : Chains,
     nkey : {"", "UKEY"}, sig : {"none", "bad", "good"}]
    \cup
    [decodes : BOOLEAN, token : {NoToken, Good},
     user : {"oauthtoken", "admin"}, password : {NoToken, Good, Forged},
     chain : {NoChain}, nkey : {"", "UOTHER"}, sig : {"good"}]

AllDeployments == [jwks : BOOLEAN, ca : BOOLEAN]
FullDeployment == {[jwks |-> TRUE, ca |-> TRUE]}
=============================================================================
