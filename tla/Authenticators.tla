--------------------------- MODULE Authenticators ---------------------------
(***************************************************************************)
(* The four authenticators of the auth callout: which requests each one    *)
(* takes (CanAuthenticate), and what it makes of them (TryAuthenticate).   *)
(*                                                                          *)
(* A request is what the NATS server reports of a connecting client:       *)
(*   token, password   NoToken or a token: [jwt, verifies, subject, azp,    *)
(*                     scope, scopes]; a password is a token too, as the    *)
(*                     code hands it to the same parser                     *)
(*   user              the user name, Empty if absent                       *)
(*   chain             NoChain, EmptyChain (a verified chain that holds no  *)
(*                     certificate) or a certificate [parses, trusted,      *)
(*                     names], names being the CN, e-mail, DNS name, O and  *)
(*                     OU, Empty where absent                               *)
(*   nkey, sig         the public key, Empty if absent, and what becomes of *)
(*                     the signed nonce: "none", "bad" (it does not decode  *)
(*                     or verify under nkey) or "good"                      *)
(* A token's scope is NoScope (claim absent or empty) or the set of its     *)
(* words; scopes is the set in the array claim.                             *)
(*                                                                          *)
(* TryAuthenticate returns the profile, or NotFound for an error, and the   *)
(* counters of the method it incremented.                                   *)
(***************************************************************************)
EXTENDS PermissionsLookup, Sequences

CONSTANTS
    NoToken,        \* no token, no password
    NoScope,        \* no scope string in the claims
    NoChain,        \* no TLS, or no verified chain
    EmptyChain,     \* a verified chain without a certificate
    CAPool          \* TRUE: the CA file holds certificates to validate against

OAuthUser == "oauthtoken"

Result(profile, counted) == [profile |-> profile, counted |-> counted]
Failed(counted) == Result(NotFound, counted)

-----------------------------------------------------------------------------
\* hasScope: a scope string, if there is one, hides the array.
HasScope(scope, scopes, required) ==
    IF scope # NoScope THEN required \in scope ELSE required \in scopes

OAuth2Can(req) ==
    \/ req.token # NoToken
    \/ req.user = OAuthUser /\ req.password # NoToken

\* ParseWithClaims covers the key set, the algorithm, expiry, issuer and
\* audience: "verifies".  A token that is no JWT is refused before any counter.
OAuth2Try(req, table) ==
    LET tok == IF req.token # NoToken THEN req.token ELSE req.password
        found == GetOAuth2Profile(table, tok.subject, tok.azp)
        failure == Failed({"attempts", "failures"})
    IN  IF ~tok.jwt THEN Failed({})
        ELSE IF ~tok.verifies \/ found = NotFound THEN failure
        ELSE IF ~HasScope(tok.scope, tok.scopes, found.scope) THEN failure
        ELSE Result(found.profile, {"attempts"})

-----------------------------------------------------------------------------
\* The fields extractIdentity tries, in order, with the prefix formatDN gives.
IdentityFields == <<"CN=", "", "", "O=", "OU=">>

\* The first name the certificate has; NotFound when it has none.
Identity(cert) ==
    LET present == {i \in DOMAIN cert.names : cert.names[i] # Empty}
    IN  IF present = {} THEN NotFound
        ELSE LET first == CHOOSE i \in present : \A j \in present : i <= j
             IN  <<IdentityFields[first], cert.names[first]>>

MTLSCan(req) == req.chain # NoChain

MTLSTry(req, table) ==
    LET cert == req.chain
        trusted == cert.parses /\ (CAPool => cert.trusted)
        found == IF Identity(cert) = NotFound THEN NotFound
                 ELSE GetKeyedProfile(table, Identity(cert))
    IN  IF cert = EmptyChain THEN Failed({})
        ELSE IF ~trusted \/ found = NotFound THEN Failed({"attempts", "failures"})
        ELSE Result(found, {"attempts"})

-----------------------------------------------------------------------------
NKeyCan(req) == req.nkey # Empty

\* TryAuthenticate does its own lookup and verification; the attempts counter
\* is in Authenticate, which it does not call.
NKeyTry(req, table) ==
    LET found == GetKeyedProfile(table, req.nkey)
    IN  IF found = NotFound \/ req.sig # "good" THEN Failed({"failures"})
        ELSE Result(found, {})

-----------------------------------------------------------------------------
\* Token, verified chain and NKey are looked at; user name and password are not.
NoAuthCan(req) == ~(req.token # NoToken \/ MTLSCan(req) \/ NKeyCan(req))

NoAuthTry(req, profile) ==
    IF ~NoAuthCan(req) \/ profile = NotFound
    THEN Failed({"attempts", "failures"})
    ELSE Result(profile, {"attempts"})

-----------------------------------------------------------------------------
CanAuthenticate(m, req) ==
    CASE m = "oauth2" -> OAuth2Can(req)
      [] m = "mtls"   -> MTLSCan(req)
      [] m = "nkey"   -> NKeyCan(req)
      [] m = "noauth" -> NoAuthCan(req)

TryAuthenticate(m, req, table) ==
    CASE m = "oauth2" -> OAuth2Try(req, table)
      [] m = "mtls"   -> MTLSTry(req, table)
      [] m = "nkey"   -> NKeyTry(req, table)
      [] m = "noauth" -> NoAuthTry(req, table)

\* service.New: the authenticators in priority order, OAuth2 only with a JWKS
\* URL and mTLS only with a CA path.
Chain(jwks, ca) ==
    CASE jwks /\ ca   -> <<"oauth2", "mtls", "nkey", "noauth">>
      [] jwks /\ ~ca  -> <<"oauth2", "nkey", "noauth">>
      [] ~jwks /\ ca  -> <<"mtls", "nkey", "noauth">>
      [] ~jwks /\ ~ca -> <<"nkey", "noauth">>
=============================================================================
