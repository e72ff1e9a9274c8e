----------------------------- MODULE AuthCallout -----------------------------
(***************************************************************************)
(* The auth callout service at work: the callout library hands one request *)
(* at a time to ServiceHandler, which decodes it, calls handleAuthRequest, *)
(* and responds.  handleAuthRequest walks the chain of authenticators; the *)
(* first that takes the request decides it.  Between its steps the          *)
(* permissions manager swaps lookups.                                       *)
(***************************************************************************)
EXTENDS Authenticators

CONSTANTS
    Requests,       \* what the NATS server can ask; req.decodes: decode accepts it
    Deployments,    \* [jwks, ca]: whether jwks.url and mtls.ca-path are set
    Build,          \* Build[v]: the tables of the v-th version of the file
    Grantable,      \* profiles whose user claims validate and sign
    MaxVersions,    \* bound on the versions of the file
    NoRequest, Undecided, Rejected

ASSUME CalloutAssumption ==
    /\ Deployments \subseteq [jwks : BOOLEAN, ca : BOOLEAN]
    /\ Grantable \subseteq Profiles
    /\ MaxVersions \in Nat \ {0}
    /\ NoRequest \notin Requests
    /\ {NotFound, Undecided, Rejected} \cap Profiles = {}
    /\ Undecided # Rejected
    /\ DOMAIN Build = 1..MaxVersions
    /\ \A v \in 1..MaxVersions : WellFormed(Build[v])

VARIABLES
    file, lookup,   \* the permissions store, as PermissionsManager provides it
    authenticators, \* Service.authenticators: the chain New built, in order
    req,            \* the request being served, or NoRequest
    pc,             \* "idle", "decode", "try", "claims" or "respond"
    at,             \* position in the chain of authenticators
    answer,         \* Undecided, Rejected, or the profile
    counted         \* the counters this request has incremented

store == <<file, lookup, authenticators>>
handlerVars == <<req, pc, at, answer, counted>>
vars == <<store, handlerVars>>

Methods == {"noauth", "oauth2", "mtls", "nkey"}
Store == INSTANCE PermissionsStore

Init ==
    /\ file = <<"good">> /\ lookup = [m \in Methods |-> 1]
    /\ authenticators \in {Chain(d.jwks, d.ca) : d \in Deployments}
    /\ req = NoRequest /\ pc = "idle" /\ at = 1
    /\ answer = Undecided /\ counted = {}

\* The permissions manager reloads (PermissionsManager implements this).
Reload ==
    /\ Store!Next
    /\ Len(file') <= MaxVersions
    /\ UNCHANGED <<authenticators, handlerVars>>

\* The subscription of the endpoint delivers the next message.
Receive ==
    /\ pc = "idle"
    /\ req' \in Requests
    /\ pc' = "decode"
    /\ UNCHANGED <<store, at, answer, counted>>

Done ==
    /\ req' = NoRequest /\ pc' = "idle" /\ at' = 1
    /\ answer' = Undecided /\ counted' = {}

\* Every error of decode carries ErrAbortRequest: no response.
Abort ==
    /\ pc = "decode" /\ ~req.decodes
    /\ Done
    /\ UNCHANGED <<store>>

\* MUTANT: the walk starts one position early.
AuthorizeFromZero ==
    /\ pc = "decode" /\ req.decodes
    /\ pc' = "try" /\ at' = 0
    /\ counted' = {"requests"}
    /\ UNCHANGED <<store, req, answer>>

Authorize ==
    /\ pc = "decode" /\ req.decodes
    /\ pc' = "try"
    /\ counted' = {"requests"}
    /\ UNCHANGED <<store, req, at, answer>>

\* handleAuthRequest returns an error: counted once, answered as a rejection.
Reject(counters) ==
    /\ pc' = "respond"
    /\ answer' = Rejected
    /\ counted' = counted \cup counters \cup {"errors"}
    /\ UNCHANGED <<store, req, at>>

\* MUTANT: the position does not advance.
SkipStays ==
    /\ pc = "try" /\ at <= Len(authenticators)
    /\ ~CanAuthenticate(authenticators[at], req)
    /\ UNCHANGED vars

\* The authenticator at this position does not take the request.
Skip ==
    /\ pc = "try" /\ at <= Len(authenticators)
    /\ ~CanAuthenticate(authenticators[at], req)
    /\ at' = at + 1
    /\ UNCHANGED <<store, req, pc, answer, counted>>

\* MUTANT: after a failure the next authenticator has a go.
TryFallsThrough ==
    /\ pc = "try" /\ at <= Len(authenticators)
    /\ LET m == authenticators[at]
           res == TryAuthenticate(m, req, Build[lookup[m]][m])
       IN  /\ CanAuthenticate(m, req)
           /\ counted' = counted \cup res.counted
           /\ IF res.profile = NotFound
              THEN /\ at' = at + 1
                   /\ UNCHANGED <<store, req, pc, answer>>
              ELSE /\ answer' = res.profile
                   /\ pc' = "claims"
                   /\ UNCHANGED <<store, req, at>>

\* It takes the request, and its result is final either way.
Try ==
    /\ pc = "try" /\ at <= Len(authenticators)
    /\ LET m == authenticators[at]
           res == TryAuthenticate(m, req, Build[lookup[m]][m])
       IN  /\ CanAuthenticate(m, req)
           /\ IF res.profile = NotFound
              THEN Reject(res.counted)
              ELSE /\ answer' = res.profile
                   /\ pc' = "claims"
                   /\ counted' = counted \cup res.counted
                   /\ UNCHANGED <<store, req, at>>

NoneMatched ==
    /\ pc = "try" /\ at > Len(authenticators)
    /\ Reject({})

\* MUTANT: claims that do not validate are refused without counting an error.
ClaimsUncounted ==
    /\ pc = "claims"
    /\ pc' = "respond"
    /\ answer' = IF answer \in Grantable THEN answer ELSE Rejected
    /\ UNCHANGED <<store, req, at, counted>>

\* The user claims made of the profile are validated and signed.
Claims ==
    /\ pc = "claims"
    /\ IF answer \in Grantable
       THEN /\ pc' = "respond"
            /\ UNCHANGED <<store, req, at, answer, counted>>
       ELSE Reject({})

\* sendResponse, whether or not the response can be sealed and published.
Respond ==
    /\ pc = "respond"
    /\ Done
    /\ UNCHANGED <<store>>

Handle == Abort \/ Authorize \/ Skip \/ Try \/ NoneMatched \/ Claims \/ Respond

Next == Reload \/ Receive \/ Handle

Spec == Init /\ [][Next]_vars

\* The handler is not interrupted: it runs to its next return.
FairSpec == Spec /\ WF_vars(Handle)

-----------------------------------------------------------------------------
(* Properties                                                               *)

CounterNames == {"requests", "errors", "attempts", "failures"}

TypeOK ==
    /\ file \in Seq({"good", "bad", "gone"})
    /\ lookup \in [Methods -> 1..MaxVersions]
    /\ authenticators \in {Chain(d.jwks, d.ca) : d \in Deployments}
    /\ req \in Requests \cup {NoRequest}
    /\ pc \in {"idle", "decode", "try", "claims", "respond"}
    /\ at \in 1..(Len(authenticators) + 1)
    /\ answer \in Profiles \cup {Undecided, Rejected}
    /\ counted \subseteq CounterNames

\* The chain of authenticators, run step by step while the lookups move, takes
\* the decision the rule of AuthDecision takes at one instant: no fallback to a
\* weaker credential after a failure, no mixture of two versions of the file in
\* one decision (service.go:404-427).
Decision == INSTANCE AuthDecision WITH
    enabled <- {authenticators[i] : i \in DOMAIN authenticators},
    asked   <- req,
    verdict <- IF pc = "claims" /\ answer \notin Grantable THEN Rejected ELSE answer

ImplementsDecision == Decision!Spec

\* The operator's counters agree with what clients were told: an error is
\* counted for exactly the requests that are rejected, and a failure of a
\* method only for one of them (service.go:413, 422, 456, 466).
ErrorsMatchAnswers ==
    pc = "respond" =>
        /\ "requests" \in counted
        /\ ("errors" \in counted) <=> (answer = Rejected)
        /\ "failures" \in counted => answer = Rejected

\* The service has granted a profile on the word of this method.
AdmittedBy(m) ==
    /\ pc \in {"claims", "respond"} /\ answer \in Profiles
    /\ authenticators[at] = m

\* A client that shows a credential the service takes is never admitted as
\* anonymous, whatever is wrong with that credential and whenever the
\* permissions change (service.go:412-417, noauth.go:61-71).
NoDowngrade ==
    AdmittedBy("noauth") =>
        \A i \in DOMAIN authenticators :
            authenticators[i] # "noauth" => ~CanAuthenticate(authenticators[i], req)

\* The endpoint serves one request at a time, so each one must come to an end.
EveryRequestEnds == req # NoRequest ~> req = NoRequest

\* noauth.go:47 says of TryAuthenticate that it "Only succeeds if no other
\* credentials are provided and noauth is configured"; a password is one.
NoAuthWithoutCredentials ==
    AdmittedBy("noauth")
        => /\ req.token = NoToken /\ req.password = NoToken
           /\ req.chain = NoChain /\ req.nkey = Empty

\* authentication.md:150-156 lists an attempts counter of every method and says
\* each has a failures counter: a failed attempt is an attempt.
FailuresAreAttempts ==
    "failures" \in counted => "attempts" \in counted
=============================================================================
