---------------------------- MODULE AuthDecision ----------------------------
(***************************************************************************)
(* What the auth callout promises about each request: one decision, taken  *)
(* at one instant between the request and the response, from the tables    *)
(* served at that instant, by the rule below and never by another.         *)
(*                                                                          *)
(* The rule is stated without the chain of authenticators.  The method of   *)
(* a request is the strongest enabled one whose credential it carries; the  *)
(* request gets the profile that credential is entitled to under that       *)
(* method, or nothing.                                                      *)
(***************************************************************************)
EXTENDS Authenticators

CONSTANTS
    Requests,       \* what the NATS server can ask
    Build,          \* Build[v]: the tables of the v-th version of the file
    Grantable,      \* profiles whose user claims validate and sign
    MaxVersions,    \* bound on the versions of the file
    NoRequest, Undecided, Rejected

VARIABLES
    file, lookup,   \* the permissions store
    enabled,        \* the methods this deployment has an authenticator for
    asked,          \* the request being decided, or NoRequest
    verdict         \* Undecided, Rejected, or the profile granted

decisionVars == <<enabled, asked, verdict>>
vars == <<file, lookup, decisionVars>>

Methods == {"noauth", "oauth2", "mtls", "nkey"}
Strength == [oauth2 |-> 4, mtls |-> 3, nkey |-> 2, noauth |-> 1]

PermissionStore == INSTANCE PermissionsStore

\* The table a method reads at this instant.
Table(m) == Build[lookup[m]][m]

Carries(m, req) == CanAuthenticate(m, req)

\* An OAuth2 key covers the claims it restricts; the narrowest key that covers
\* them is the one that counts, a subject being narrower than a party.
Covers(key, tok) ==
    /\ key[1] \in {tok.subject, Empty} /\ key[2] \in {tok.azp, Empty}
    /\ key # <<Empty, Empty>>

Narrowness(key) == (IF key[1] # Empty THEN 2 ELSE 0) + (IF key[2] # Empty THEN 1 ELSE 0)

Narrowest(table, tok) ==
    {table[k] : k \in {j \in DOMAIN table :
        /\ Covers(j, tok)
        /\ \A i \in DOMAIN table : Covers(i, tok) => Narrowness(i) <= Narrowness(j)}}

\* The words a token grants: those of its scope string, or else of its array.
Granted(tok) == IF tok.scope = NoScope THEN tok.scopes ELSE tok.scope

\* The profiles a request is entitled to under a method: at most one.
Entitled(m, req) ==
    CASE m = "oauth2" ->
            LET toks == {t \in {req.token, req.password} \ {NoToken} :
                            req.token \in {t, NoToken}}
            IN  UNION {{e.profile : e \in {d \in Narrowest(Table(m), t) :
                                              d.scope \in Granted(t)}} :
                          t \in {u \in toks : u.jwt /\ u.verifies}}
      [] m = "mtls" ->
            {Table(m)[i] : i \in {j \in DOMAIN Table(m) :
                /\ req.chain # EmptyChain
                /\ req.chain.parses /\ (CAPool => req.chain.trusted)
                /\ j = Identity(req.chain)}}
      [] m = "nkey" -> {Table(m)[k] : k \in {j \in DOMAIN Table(m) : j = req.nkey /\ req.sig = "good"}}
      [] m = "noauth" -> {Table(m)} \ {NotFound}

\* The decision: by the strongest method the request carries, or rejection.
Verdict(req) ==
    LET carried == {m \in enabled : Carries(m, req)}
        chosen == {m \in carried : \A n \in carried : Strength[n] <= Strength[m]}
        profiles == (UNION {Entitled(m, req) : m \in chosen}) \cap Grantable
    IN  IF profiles = {} THEN Rejected ELSE CHOOSE p \in profiles : TRUE

-----------------------------------------------------------------------------
Init ==
    /\ file = <<"good">> /\ lookup = [m \in Methods |-> 1]
    /\ {"nkey", "noauth"} \subseteq enabled /\ enabled \subseteq Methods
    /\ asked = NoRequest /\ verdict = Undecided

Reload ==
    /\ PermissionStore!Next
    /\ Len(file') <= MaxVersions
    /\ UNCHANGED decisionVars

Ask ==
    /\ asked = NoRequest
    /\ asked' \in Requests
    /\ UNCHANGED <<file, lookup, enabled, verdict>>

Decide ==
    /\ asked # NoRequest /\ verdict = Undecided
    /\ verdict' = Verdict(asked)
    /\ UNCHANGED <<file, lookup, enabled, asked>>

\* The exchange ends: with the response, or without one where the request does
\* not decode or the response cannot be sent.
Finish ==
    /\ asked # NoRequest
    /\ asked' = NoRequest /\ verdict' = Undecided
    /\ UNCHANGED <<file, lookup, enabled>>

Next == Reload \/ Ask \/ Decide \/ Finish

Spec == Init /\ [][Next]_vars
=============================================================================
