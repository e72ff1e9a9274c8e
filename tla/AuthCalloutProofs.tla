--------------------------- MODULE AuthCalloutProofs ---------------------------
(***************************************************************************)
(* Proofs about the auth callout handler, for every set of requests, every *)
(* deployment and every sequence of well-formed permissions tables.        *)
(*                                                                          *)
(* The argument is about the walk along the chain: at any position of it    *)
(* the authenticators before have all declined the request, and noauth,     *)
(* which is last, is reached only when all the others have.                 *)
(*                                                                          *)
(* For the refinement, three facts about data carry the argument: the       *)
(* lookups of GetOAuth2Profile find the narrowest key (FoundIsNarrowest),    *)
(* each authenticator finds what the rule entitles its credential to        *)
(* (EntitledIsFound), and the chain is in the order of strength, so that it  *)
(* stops at the strongest method (StopsAtTheStrongest).                     *)
(***************************************************************************)
EXTENDS AuthCallout, TLAPS

USE DEF Methods, store, handlerVars, CounterNames

\* Every deployment ends its chain with noauth, and has it nowhere else.
LEMMA ChainShape ==
    ASSUME NEW jwks \in BOOLEAN, NEW ca \in BOOLEAN
    PROVE  /\ Chain(jwks, ca) \in Seq(Methods)
           /\ Len(Chain(jwks, ca)) \in 2..4
           /\ \A i \in 1..Len(Chain(jwks, ca)) :
                 Chain(jwks, ca)[i] = "noauth" => i = Len(Chain(jwks, ca))
<1>1. CASE jwks /\ ca
  <2>1. Chain(jwks, ca) = <<"oauth2", "mtls", "nkey", "noauth">>
    BY <1>1 DEF Chain
  <2> QED BY <2>1
<1>2. CASE jwks /\ ~ca
  <2>1. Chain(jwks, ca) = <<"oauth2", "nkey", "noauth">>
    BY <1>2 DEF Chain
  <2> QED BY <2>1
<1>3. CASE ~jwks /\ ca
  <2>1. Chain(jwks, ca) = <<"mtls", "nkey", "noauth">>
    BY <1>3 DEF Chain
  <2> QED BY <2>1
<1>4. CASE ~jwks /\ ~ca
  <2>1. Chain(jwks, ca) = <<"nkey", "noauth">>
    BY <1>4 DEF Chain
  <2> QED BY <2>1
<1> QED
  BY <1>1, <1>2, <1>3, <1>4

\* The chain a service was built with is one of those.
LEMMA AuthenticatorsShape ==
    ASSUME TypeOK
    PROVE  /\ authenticators \in Seq(Methods)
           /\ Len(authenticators) \in 2..4
           /\ \A i \in 1..Len(authenticators) :
                 authenticators[i] = "noauth" => i = Len(authenticators)
<1>1. PICK d \in Deployments : authenticators = Chain(d.jwks, d.ca)
  BY DEF TypeOK
<1>2. d.jwks \in BOOLEAN /\ d.ca \in BOOLEAN
  BY CalloutAssumption
<1> QED
  BY <1>1, <1>2, ChainShape

\* An OAuth2 lookup finds nothing or the profile of an entry.
LEMMA OAuth2Found ==
    ASSUME NEW table, NEW s, NEW a, \A k \in DOMAIN table : table[k].profile \in Profiles,
           GetOAuth2Profile(table, s, a) # NotFound
    PROVE  GetOAuth2Profile(table, s, a).profile \in Profiles
BY DEF GetOAuth2Profile

\* An authenticator returns a profile of its table or fails, and counts a
\* failure only when it fails.
LEMMA TryResult ==
    ASSUME NEW m \in Methods, NEW r, NEW v \in 1..MaxVersions
    PROVE  LET res == TryAuthenticate(m, r, Build[v][m])
           IN  /\ res.profile \in Profiles \cup {NotFound}
               /\ res.counted \subseteq {"attempts", "failures"}
               /\ res.profile \in Profiles => "failures" \notin res.counted
<1> USE LookupAssumption DEF Result, Failed
<1>1. WellFormed(Build[v])
  BY CalloutAssumption
<1>2. CASE m = "oauth2"
  <2>1. \A k \in DOMAIN Build[v][m] : Build[v][m][k].profile \in Profiles
    BY <1>1, <1>2 DEF WellFormed
  <2>2. TryAuthenticate(m, r, Build[v][m]) = OAuth2Try(r, Build[v][m])
    BY <1>2 DEF TryAuthenticate
  <2> QED BY <2>1, <2>2, OAuth2Found DEF OAuth2Try
<1>3. CASE m = "mtls"
  <2>1. \A k \in DOMAIN Build[v][m] : Build[v][m][k] \in Profiles
    BY <1>1, <1>3 DEF WellFormed
  <2>2. TryAuthenticate(m, r, Build[v][m]) = MTLSTry(r, Build[v][m])
    BY <1>3 DEF TryAuthenticate
  <2> QED BY <2>1, <2>2 DEF MTLSTry, GetKeyedProfile
<1>4. CASE m = "nkey"
  <2>1. \A k \in DOMAIN Build[v][m] : Build[v][m][k] \in Profiles
    BY <1>1, <1>4 DEF WellFormed
  <2>2. TryAuthenticate(m, r, Build[v][m]) = NKeyTry(r, Build[v][m])
    BY <1>4 DEF TryAuthenticate
  <2> QED BY <2>1, <2>2 DEF NKeyTry, GetKeyedProfile
<1>5. CASE m = "noauth"
  <2>1. Build[v][m] \in Profiles \cup {NotFound}
    BY <1>1, <1>5 DEF WellFormed
  <2>2. TryAuthenticate(m, r, Build[v][m]) = NoAuthTry(r, Build[v][m])
    BY <1>5 DEF TryAuthenticate
  <2> QED BY <2>1, <2>2 DEF NoAuthTry
<1> QED
  BY <1>2, <1>3, <1>4, <1>5

-----------------------------------------------------------------------------
(* The inductive invariant                                                  *)

\* The authenticators before this position have declined the request.
Declined == \A i \in 1..(at - 1) : ~CanAuthenticate(authenticators[i], req)

Walk ==
    /\ pc \in {"idle", "decode"} => at = 1
    /\ pc = "try" => Declined
    /\ pc \in {"claims", "respond"} /\ answer \in Profiles =>
          at <= Len(authenticators) /\ Declined

\* What has been counted so far is what the answer so far calls for.
Counted ==
    /\ pc \in {"try", "claims", "respond"} => "requests" \in counted
    /\ pc \in {"try", "claims"} => counted \cap {"errors", "failures"} = {}
    /\ pc = "claims" => answer \in Profiles
    /\ pc = "respond" =>
          \/ answer = Rejected /\ "errors" \in counted
          \/ answer \in Profiles /\ counted \cap {"errors", "failures"} = {}

IInv == TypeOK /\ Walk /\ Counted

\* A service that has served no request yet satisfies IInv.
LEMMA InvInit == Init => IInv
<1> SUFFICES ASSUME Init PROVE IInv
  OBVIOUS
<1>1. file \in Seq({"good", "bad", "gone"})
  BY DEF Init
<1>2. at \in 1..(Len(authenticators) + 1)
  <2>1. PICK d \in Deployments : authenticators = Chain(d.jwks, d.ca)
    BY DEF Init
  <2>2. d.jwks \in BOOLEAN /\ d.ca \in BOOLEAN
    BY CalloutAssumption
  <2> QED BY <2>1, <2>2, ChainShape DEF Init
<1>3. TypeOK
  BY <1>1, <1>2, CalloutAssumption DEF Init, TypeOK
<1> QED
  BY <1>3 DEF Init, IInv, Walk, Counted

\* The lookups move; the request in hand does not.
LEMMA ReloadInv == IInv /\ Reload => IInv'
<1> SUFFICES ASSUME IInv, Reload PROVE IInv'
  OBVIOUS
<1>1. UNCHANGED <<authenticators, handlerVars>> /\ Len(file') <= MaxVersions
  BY DEF Reload
<1>2. CASE Store!Publish
  BY <1>1, <1>2 DEF Store!Publish, IInv, TypeOK, Walk, Declined, Counted
<1>3. ASSUME NEW m \in Methods, Store!Swap(m)
      PROVE  IInv'
  <2>1. PICK v \in Store!Accepted : lookup' = [lookup EXCEPT ![m] = v] /\ UNCHANGED file
    BY <1>3 DEF Store!Swap
  <2>2. v \in 1..MaxVersions
    BY <1>1, <2>1, CalloutAssumption DEF Store!Accepted, IInv, TypeOK
  <2> QED BY <1>1, <2>1, <2>2 DEF IInv, TypeOK, Walk, Declined, Counted
<1> QED
  BY <1>2, <1>3 DEF Reload, Store!Next

\* Reject ends the walk, whatever has been counted.
LEMMA RejectInv ==
    ASSUME IInv, NEW counters \in SUBSET {"attempts", "failures"}, Reject(counters),
           "requests" \in counted
    PROVE  IInv'
BY CalloutAssumption DEF IInv, Reject, TypeOK, Walk, Declined, Counted

\* Try takes the word of the authenticator at this position, once.
LEMMA TryInv == IInv /\ Try => IInv'
<1> SUFFICES ASSUME IInv, Try PROVE IInv'
  OBVIOUS
<1> DEFINE m == authenticators[at]
           res == TryAuthenticate(m, req, Build[lookup[m]][m])
<1>1. pc = "try" /\ at \in 1..Len(authenticators) /\ m \in Methods
  BY AuthenticatorsShape DEF IInv, TypeOK, Try
<1>2. lookup[m] \in 1..MaxVersions
  BY <1>1 DEF IInv, TypeOK
<1>3. /\ res.profile \in Profiles \cup {NotFound}
      /\ res.counted \subseteq {"attempts", "failures"}
      /\ res.profile \in Profiles => "failures" \notin res.counted
  BY <1>1, <1>2, TryResult
<1>4. "requests" \in counted
  BY <1>1 DEF IInv, Counted
<1> HIDE DEF m, res
<1>5. CASE Reject(res.counted)
  BY <1>3, <1>4, <1>5, RejectInv
<1>6. CASE /\ res.profile # NotFound /\ answer' = res.profile /\ pc' = "claims"
           /\ counted' = counted \cup res.counted /\ UNCHANGED <<store, req, at>>
  <2>1. TypeOK'
    BY <1>3, <1>6 DEF IInv, TypeOK
  <2>2. Walk'
    BY <1>1, <1>6 DEF IInv, TypeOK, Walk, Declined
  <2>3. Counted'
    BY <1>1, <1>3, <1>6 DEF IInv, Counted
  <2> QED BY <2>1, <2>2, <2>3 DEF IInv
<1> QED
  BY <1>5, <1>6 DEF Try, m, res

\* Every other step of the handler.
LEMMA HandleInv == IInv /\ (Receive \/ Handle) => IInv'
<1> SUFFICES ASSUME IInv, Receive \/ Handle PROVE IInv'
  OBVIOUS
<1> USE AuthenticatorsShape, CalloutAssumption DEF IInv, TypeOK, Walk, Declined, Counted
<1>1. CASE Receive
  BY <1>1 DEF Receive
<1>2. CASE Abort
  BY <1>2 DEF Abort, Done
<1>3. CASE Authorize
  BY <1>3 DEF Authorize
<1>4. CASE Skip
  BY <1>4 DEF Skip
<1>5. CASE Try
  BY <1>5, TryInv
<1>6. CASE NoneMatched
  BY <1>6, RejectInv DEF NoneMatched
<1>7. CASE Claims
  <2>1. CASE answer \in Grantable
    BY <1>7, <2>1 DEF Claims
  <2>2. CASE answer \notin Grantable
    BY <1>7, <2>2, RejectInv DEF Claims
  <2> QED BY <2>1, <2>2
<1>8. CASE Respond
  BY <1>8 DEF Respond, Done
<1> QED
  BY <1>1, <1>2, <1>3, <1>4, <1>5, <1>6, <1>7, <1>8 DEF Handle

\* IInv holds of every reachable state of the service.
LEMMA InvAlways == Spec => []IInv
<1>1. Init => IInv
  BY InvInit
<1>2. IInv /\ [Next]_vars => IInv'
  <2>1. IInv /\ UNCHANGED vars => IInv'
    BY DEF IInv, TypeOK, Walk, Declined, Counted, vars
  <2> QED BY <2>1, ReloadInv, HandleInv DEF Next
<1> QED
  BY <1>1, <1>2, PTL DEF Spec

-----------------------------------------------------------------------------
(* The theorems                                                             *)

\* TypeOK: the handler's position never leaves the chain, and what it answers
\* is a profile of a served table or a rejection.
THEOREM TypeCorrect == Spec => []TypeOK
<1>1. IInv => TypeOK
  BY DEF IInv
<1> QED BY <1>1, InvAlways, PTL

\* An error is counted for exactly the rejected requests, for every request.
THEOREM CountersAgree == Spec => []ErrorsMatchAnswers
<1>1. IInv => ErrorsMatchAnswers
  BY CalloutAssumption DEF IInv, Counted, ErrorsMatchAnswers
<1> QED BY <1>1, InvAlways, PTL

\* Nobody who shows a credential the service takes is admitted as anonymous,
\* whatever the tables hold and however they are reloaded meanwhile.
THEOREM NobodyIsDowngraded == Spec => []NoDowngrade
<1>1. IInv => NoDowngrade
  <2> SUFFICES ASSUME IInv, AdmittedBy("noauth"), NEW i \in DOMAIN authenticators,
                      authenticators[i] # "noauth"
               PROVE  ~CanAuthenticate(authenticators[i], req)
    BY DEF NoDowngrade
  <2>1. at \in 1..Len(authenticators) /\ Declined
    BY DEF AdmittedBy, IInv, Walk, TypeOK
  <2>2. at = Len(authenticators) /\ i \in 1..(at - 1)
    BY <2>1, AuthenticatorsShape DEF AdmittedBy, IInv
  <2> QED BY <2>1, <2>2 DEF Declined
<1> QED BY <1>1, InvAlways, PTL

-----------------------------------------------------------------------------
(* The chain implements the rule                                            *)

\* A request that is not decided yet has no answer, and only idle has none.
Open ==
    /\ pc \in {"idle", "decode", "try"} => answer = Undecided
    /\ pc = "idle" => req = NoRequest
    /\ pc # "idle" => req \in Requests
    /\ pc = "respond" => answer \in Grantable \cup {Rejected}

\* Open follows the request in hand.
LEMMA OpenStep == IInv /\ Open /\ [Next]_vars => Open'
<1> SUFFICES ASSUME IInv, Open, [Next]_vars PROVE Open'
  OBVIOUS
<1> USE DEF Open
<1>1. CASE Reload \/ UNCHANGED vars
  BY <1>1 DEF Reload, vars
<1>2. CASE Receive
  BY <1>2 DEF Receive
<1>3. CASE Abort \/ Respond
  BY <1>3 DEF Abort, Respond, Done
<1>4. CASE Authorize \/ Skip
  BY <1>4 DEF Authorize, Skip
<1>5. CASE Try
  BY <1>5 DEF Try, Reject
<1>6. CASE NoneMatched \/ Claims
  BY <1>6 DEF NoneMatched, Claims, Reject
<1> QED
  BY <1>1, <1>2, <1>3, <1>4, <1>5, <1>6 DEF Next, Handle

\* The rule looks at requests as the authenticators do.
LEMMA SameCan ==
    ASSUME NEW m \in Methods, NEW r
    PROVE  Decision!Carries(m, r) <=> CanAuthenticate(m, r)
BY DEF Decision!Carries, Decision!CanAuthenticate, Decision!OAuth2Can, Decision!MTLSCan,
   Decision!NKeyCan, Decision!NoAuthCan, Decision!OAuthUser, Decision!Empty, CanAuthenticate,
   OAuth2Can, MTLSCan, NKeyCan, NoAuthCan, OAuthUser, Empty

\* And at certificates.
LEMMA SameIdentity ==
    ASSUME NEW cert
    PROVE  Decision!Identity(cert) = Identity(cert)
BY DEF Decision!Identity, Decision!IdentityFields, Decision!Empty, Identity, IdentityFields, Empty

\* A key that is narrower than all others that cover a token is the narrowest.
LEMMA Narrow ==
    ASSUME NEW table, NEW tok, NEW key \in DOMAIN table, Decision!Covers(key, tok),
           \A k \in DOMAIN table : Decision!Covers(k, tok) /\ k # key =>
               Decision!Narrowness(k) < Decision!Narrowness(key)
    PROVE  Decision!Narrowest(table, tok) = {table[key]}
<1>1. \A k : Decision!Narrowness(k) \in Nat
  BY DEF Decision!Narrowness
<1>2. \A k \in DOMAIN table : Decision!Covers(k, tok) =>
          Decision!Narrowness(k) <= Decision!Narrowness(key)
  BY <1>1
<1>3. \A j \in DOMAIN table :
          /\ Decision!Covers(j, tok)
          /\ \A i \in DOMAIN table :
                Decision!Covers(i, tok) => Decision!Narrowness(i) <= Decision!Narrowness(j)
          <=> j = key
  BY <1>1, <1>2
<1> QED
  BY <1>3 DEF Decision!Narrowest

\* The three lookups of GetOAuth2Profile find the narrowest key.
LEMMA FoundIsNarrowest ==
    ASSUME NEW table, NEW tok,
           \A k \in DOMAIN table : k = <<k[1], k[2]>> /\ k # <<Empty, Empty>> /\ table[k] # NotFound
    PROVE  LET found == GetOAuth2Profile(table, tok.subject, tok.azp)
           IN  Decision!Narrowest(table, tok) = IF found = NotFound THEN {} ELSE {found}
<1> DEFINE s == tok.subject
           a == tok.azp
<1>1. \A k \in DOMAIN table :
          Decision!Covers(k, tok) <=> k \in {<<s, a>>, <<s, Empty>>, <<Empty, a>>}
  BY DEF Decision!Covers, Decision!Empty, Empty
<1>2. \A x, y : Decision!Narrowness(<<x, y>>) =
                   (IF x # Empty THEN 2 ELSE 0) + (IF y # Empty THEN 1 ELSE 0)
  BY DEF Decision!Narrowness, Decision!Empty, Empty
<1>3. <<Empty, Empty>> \notin DOMAIN table
  OBVIOUS
<1>4. CASE <<s, a>> \in DOMAIN table
  <2>1. \A k \in DOMAIN table : Decision!Covers(k, tok) /\ k # <<s, a>> =>
            Decision!Narrowness(k) < Decision!Narrowness(<<s, a>>)
    BY <1>1, <1>2
  <2>2. Decision!Narrowest(table, tok) = {table[<<s, a>>]}
    BY <1>1, <1>4, <2>1, Narrow
  <2> QED
    BY <1>4, <2>2 DEF GetOAuth2Profile
<1>5. CASE <<s, a>> \notin DOMAIN table /\ <<s, Empty>> \in DOMAIN table
  <2>1. \A k \in DOMAIN table : Decision!Covers(k, tok) /\ k # <<s, Empty>> =>
            Decision!Narrowness(k) < Decision!Narrowness(<<s, Empty>>)
    BY <1>1, <1>2, <1>3, <1>5
  <2>2. Decision!Narrowest(table, tok) = {table[<<s, Empty>>]}
    BY <1>1, <1>5, <2>1, Narrow
  <2> QED
    BY <1>5, <2>2 DEF GetOAuth2Profile
<1>6. CASE /\ <<s, a>> \notin DOMAIN table /\ <<s, Empty>> \notin DOMAIN table
           /\ <<Empty, a>> \in DOMAIN table
  <2>1. \A k \in DOMAIN table : Decision!Covers(k, tok) /\ k # <<Empty, a>> =>
            Decision!Narrowness(k) < Decision!Narrowness(<<Empty, a>>)
    BY <1>1, <1>6
  <2>2. Decision!Narrowest(table, tok) = {table[<<Empty, a>>]}
    BY <1>1, <1>6, <2>1, Narrow
  <2> QED
    BY <1>6, <2>2 DEF GetOAuth2Profile
<1>7. CASE /\ <<s, a>> \notin DOMAIN table /\ <<s, Empty>> \notin DOMAIN table
           /\ <<Empty, a>> \notin DOMAIN table
  <2>1. GetOAuth2Profile(table, s, a) = NotFound
    BY <1>7 DEF GetOAuth2Profile
  <2>2. Decision!Narrowest(table, tok) = {}
    BY <1>1, <1>7 DEF Decision!Narrowest
  <2> QED
    BY <2>1, <2>2
<1> QED
  BY <1>4, <1>5, <1>6, <1>7

\* What a request is entitled to under a method is what its authenticator finds.
LEMMA EntitledIsFound ==
    ASSUME TypeOK, NEW m \in Methods, NEW r, CanAuthenticate(m, r)
    PROVE  Decision!Entitled(m, r) =
              {TryAuthenticate(m, r, Build[lookup[m]][m]).profile} \ {NotFound}
<1> DEFINE table == Build[lookup[m]][m]
<1> USE LookupAssumption DEF Result, Failed
<1>1. WellFormed(Build[lookup[m]]) /\ Decision!Table(m) = table
  BY CalloutAssumption DEF TypeOK, Decision!Table
<1>2. CASE m = "oauth2"
  <2>1. /\ TryAuthenticate(m, r, table) = OAuth2Try(r, table)
        /\ OAuth2Can(r)
    BY <1>2 DEF TryAuthenticate, CanAuthenticate
  <2>2. \A k \in DOMAIN table : /\ k = <<k[1], k[2]>> /\ k # <<Empty, Empty>>
                                /\ table[k] # NotFound /\ table[k].profile \in Profiles
    BY <1>1, <1>2 DEF WellFormed
  <2> DEFINE tok == IF r.token # NoToken THEN r.token ELSE r.password
             found == GetOAuth2Profile(table, tok.subject, tok.azp)
  <2>3. {t \in {r.token, r.password} \ {NoToken} : r.token \in {t, NoToken}} = {tok}
    BY <2>1 DEF OAuth2Can
  <2>4. Decision!Narrowest(table, tok) = IF found = NotFound THEN {} ELSE {found}
    BY <2>2, FoundIsNarrowest
  <2>5. found # NotFound => found.profile \in Profiles
    BY <2>2, OAuth2Found
  <2>6. Decision!Entitled(m, r) =
            UNION {{e.profile : e \in {d \in Decision!Narrowest(table, t) :
                                          d.scope \in Decision!Granted(t)}} :
                      t \in {u \in {tok} : u.jwt /\ u.verifies}}
    BY <1>1, <1>2, <2>3 DEF Decision!Entitled
  <2>7. \A sc : HasScope(tok.scope, tok.scopes, sc) <=> sc \in Decision!Granted(tok)
    BY DEF HasScope, Decision!Granted
  <2> HIDE DEF tok, found
  <2>8. CASE tok.jwt /\ tok.verifies /\ found # NotFound /\ found.scope \in Decision!Granted(tok)
    <3>1. Decision!Entitled(m, r) = {found.profile}
      BY <2>4, <2>6, <2>8
    <3>2. OAuth2Try(r, table).profile = found.profile
      BY <2>7, <2>8 DEF OAuth2Try, tok, found
    <3> QED
      BY <2>1, <2>5, <2>8, <3>1, <3>2
  <2>9. CASE ~(tok.jwt /\ tok.verifies /\ found # NotFound /\ found.scope \in Decision!Granted(tok))
    <3>1. Decision!Entitled(m, r) = {}
      BY <2>4, <2>6, <2>9
    <3>2. OAuth2Try(r, table).profile = NotFound
      BY <2>7, <2>9 DEF OAuth2Try, tok, found
    <3> QED
      BY <2>1, <3>1, <3>2
  <2> QED
    BY <2>8, <2>9
<1>3. CASE m = "mtls"
  <2>1. TryAuthenticate(m, r, table) = MTLSTry(r, table)
    BY <1>3 DEF TryAuthenticate
  <2>2. \A k \in DOMAIN table : k # NotFound /\ table[k] \in Profiles
    BY <1>1, <1>3 DEF WellFormed
  <2>3. Decision!Entitled(m, r) =
            {table[i] : i \in {j \in DOMAIN table :
                /\ r.chain # EmptyChain
                /\ r.chain.parses /\ (CAPool => r.chain.trusted)
                /\ j = Identity(r.chain)}}
    BY <1>1, <1>3, SameIdentity DEF Decision!Entitled
  <2> DEFINE ok == /\ r.chain # EmptyChain
                   /\ r.chain.parses /\ (CAPool => r.chain.trusted)
                   /\ Identity(r.chain) \in DOMAIN table
  <2>4. CASE ok
    <3>1. Decision!Entitled(m, r) = {table[Identity(r.chain)]}
      BY <2>3, <2>4
    <3>2. MTLSTry(r, table).profile = table[Identity(r.chain)]
      BY <2>2, <2>4 DEF MTLSTry, GetKeyedProfile
    <3> QED
      BY <2>1, <2>2, <2>4, <3>1, <3>2
  <2>5. CASE ~ok
    <3>1. Decision!Entitled(m, r) = {}
      BY <2>3, <2>5
    <3>2. MTLSTry(r, table).profile = NotFound
      BY <2>2, <2>5 DEF MTLSTry, GetKeyedProfile
    <3> QED
      BY <2>1, <3>1, <3>2
  <2> QED
    BY <2>4, <2>5
<1>4. CASE m = "nkey"
  <2>1. TryAuthenticate(m, r, table) = NKeyTry(r, table)
    BY <1>4 DEF TryAuthenticate
  <2>2. \A k \in DOMAIN table : table[k] \in Profiles
    BY <1>1, <1>4 DEF WellFormed
  <2>3. Decision!Entitled(m, r) =
            {table[k] : k \in {j \in DOMAIN table : j = r.nkey /\ r.sig = "good"}}
    BY <1>1, <1>4 DEF Decision!Entitled
  <2> QED
    BY <2>1, <2>2, <2>3 DEF NKeyTry, GetKeyedProfile
<1>5. CASE m = "noauth"
  <2>1. TryAuthenticate(m, r, table) = NoAuthTry(r, table) /\ NoAuthCan(r)
    BY <1>5 DEF TryAuthenticate, CanAuthenticate
  <2>2. Decision!Entitled(m, r) = {table} \ {NotFound}
    BY <1>1, <1>5 DEF Decision!Entitled
  <2> QED
    BY <2>1, <2>2 DEF NoAuthTry
<1> QED
  BY <1>2, <1>3, <1>4, <1>5

\* The chain goes from the strongest method to the weakest.
LEMMA ChainOrder ==
    ASSUME TypeOK
    PROVE  /\ \A i, j \in 1..Len(authenticators) :
                 i < j => Decision!Strength[authenticators[j]] < Decision!Strength[authenticators[i]]
           /\ \A i \in 1..Len(authenticators) : Decision!Strength[authenticators[i]] \in Nat
           /\ {"nkey", "noauth"} \subseteq {authenticators[i] : i \in DOMAIN authenticators}
<1>1. \/ authenticators = <<"oauth2", "mtls", "nkey", "noauth">>
      \/ authenticators = <<"oauth2", "nkey", "noauth">>
      \/ authenticators = <<"mtls", "nkey", "noauth">>
      \/ authenticators = <<"nkey", "noauth">>
  BY CalloutAssumption DEF TypeOK, Chain
<1>2. /\ Decision!Strength["oauth2"] = 4 /\ Decision!Strength["mtls"] = 3
      /\ Decision!Strength["nkey"] = 2 /\ Decision!Strength["noauth"] = 1
  BY DEF Decision!Strength
<1>3. CASE authenticators = <<"oauth2", "mtls", "nkey", "noauth">>
  BY <1>2, <1>3
<1>4. CASE authenticators = <<"oauth2", "nkey", "noauth">>
  BY <1>2, <1>4
<1>5. CASE authenticators = <<"mtls", "nkey", "noauth">>
  BY <1>2, <1>5
<1>6. CASE authenticators = <<"nkey", "noauth">>
  BY <1>2, <1>6
<1> QED
  BY <1>1, <1>3, <1>4, <1>5, <1>6

\* Where the walk stops, the rule decides as the authenticator there.
LEMMA StopsAtTheStrongest ==
    ASSUME TypeOK, Declined, at <= Len(authenticators), CanAuthenticate(authenticators[at], req)
    PROVE  Decision!Verdict(req) =
              LET m == authenticators[at]
                  profile == TryAuthenticate(m, req, Build[lookup[m]][m]).profile
              IN  IF profile \in Grantable THEN profile ELSE Rejected
<1> DEFINE m == authenticators[at]
           profile == TryAuthenticate(m, req, Build[lookup[m]][m]).profile
           enabled == {authenticators[i] : i \in DOMAIN authenticators}
           carried == {n \in enabled : Decision!Carries(n, req)}
           chosen == {n \in carried : \A o \in carried : Decision!Strength[o] <= Decision!Strength[n]}
<1>1. /\ at \in 1..Len(authenticators) /\ DOMAIN authenticators = 1..Len(authenticators)
      /\ \A i \in 1..Len(authenticators) : authenticators[i] \in Methods
  BY AuthenticatorsShape DEF TypeOK
<1>2. m \in carried
  BY <1>1, SameCan
<1>3. ASSUME NEW n \in carried, n # m
      PROVE  Decision!Strength[n] < Decision!Strength[m]
  <2>1. PICK i \in 1..Len(authenticators) : n = authenticators[i]
    BY <1>1
  <2>2. i \notin 1..(at - 1)
    BY <1>1, <1>3, <2>1, SameCan DEF Declined
  <2>3. at < i
    BY <1>1, <1>3, <2>1, <2>2
  <2> QED
    BY <1>1, <2>1, <2>3, ChainOrder
<1>4. chosen = {m}
  <2>1. Decision!Strength[m] \in Nat /\ \A n \in carried : Decision!Strength[n] \in Nat
    BY <1>1, ChainOrder
  <2> QED
    BY <1>2, <1>3, <2>1
<1>5. Decision!Entitled(m, req) = {profile} \ {NotFound}
  BY <1>1, EntitledIsFound
<1>6. (UNION {Decision!Entitled(n, req) : n \in chosen}) \cap Grantable = {profile} \cap Grantable
  BY <1>4, <1>5, LookupAssumption, CalloutAssumption
<1>7. Decision!Verdict(req) =
          LET profiles == (UNION {Decision!Entitled(n, req) : n \in chosen}) \cap Grantable
          IN  IF profiles = {} THEN Rejected ELSE CHOOSE p \in profiles : TRUE
  BY DEF Decision!Verdict
<1> HIDE DEF chosen, profile
<1>8. Decision!Verdict(req) =
          IF {profile} \cap Grantable = {} THEN Rejected
          ELSE CHOOSE p \in {profile} \cap Grantable : TRUE
  BY <1>6, <1>7
<1> QED
  BY <1>8 DEF profile

\* Where it finds nobody, the rule rejects.
LEMMA NobodyCarried ==
    ASSUME TypeOK, Declined, at > Len(authenticators)
    PROVE  Decision!Verdict(req) = Rejected
<1>1. /\ DOMAIN authenticators = 1..Len(authenticators) /\ at - 1 = Len(authenticators)
      /\ \A i \in 1..Len(authenticators) : authenticators[i] \in Methods
  BY AuthenticatorsShape DEF TypeOK
<1>2. {n \in {authenticators[i] : i \in DOMAIN authenticators} : Decision!Carries(n, req)} = {}
  BY <1>1, SameCan DEF Declined
<1> QED
  BY <1>2 DEF Decision!Verdict

\* The verdict as the rule sees it.
Seen == IF pc = "claims" /\ answer \notin Grantable THEN Rejected ELSE answer

\* Every step of the handler is a step of the rule, or none.
LEMMA DecisionStep ==
    ASSUME IInv, Open, [Next]_vars
    PROVE  [Decision!Next]_(Decision!vars)
<1> USE DEF IInv
<1>0. /\ Grantable \subseteq Profiles /\ Undecided \notin Profiles /\ Rejected \notin Profiles
      /\ Undecided # Rejected /\ NoRequest \notin Requests
  BY CalloutAssumption
<1>1. CASE Reload
  BY <1>1 DEF Reload, Store!Next, Store!Publish, Store!Swap, Store!Accepted, Decision!Next,
     Decision!Reload, Decision!PermissionStore!Next, Decision!PermissionStore!Publish,
     Decision!PermissionStore!Swap, Decision!PermissionStore!Accepted, Decision!Methods,
     Decision!decisionVars
<1>2. CASE Receive
  <2>1. Decision!Ask
    BY <1>2 DEF Receive, Decision!Ask, Open
  <2> QED
    BY <2>1 DEF Decision!Next
<1>3. CASE Abort \/ Respond
  <2>1. Decision!Finish
    BY <1>0, <1>3 DEF Abort, Respond, Done, Decision!Finish, Open
  <2> QED
    BY <2>1 DEF Decision!Next
<1>4. CASE Authorize \/ Skip \/ UNCHANGED vars
  BY <1>4 DEF Authorize, Skip, vars, Decision!vars, Decision!decisionVars
<1>5. CASE Try
  <2> DEFINE m == authenticators[at]
             profile == TryAuthenticate(m, req, Build[lookup[m]][m]).profile
  <2>1. Decision!Verdict(req) = IF profile \in Grantable THEN profile ELSE Rejected
    BY <1>5, StopsAtTheStrongest DEF Try, Walk
  <2>2. Seen' = IF profile \in Grantable THEN profile ELSE Rejected
    BY <1>0, <1>5, LookupAssumption DEF Try, Reject, Seen
  <2>3. /\ req # NoRequest /\ pc = "try" /\ Seen = Undecided
        /\ UNCHANGED <<file, lookup, authenticators, req>>
    BY <1>0, <1>5 DEF Try, Reject, Seen, Open
  <2>4. Decision!Decide
    BY <2>1, <2>2, <2>3 DEF Decision!Decide, Seen
  <2> QED
    BY <2>4 DEF Decision!Next
<1>6. CASE NoneMatched
  <2>1. Decision!Verdict(req) = Rejected
    BY <1>6, NobodyCarried DEF NoneMatched, Walk
  <2>2. Decision!Decide
    BY <1>0, <1>6, <2>1 DEF NoneMatched, Reject, Open, Decision!Decide
  <2> QED
    BY <2>2 DEF Decision!Next
<1>7. CASE Claims
  BY <1>0, <1>7 DEF Claims, Reject, Decision!vars, Decision!decisionVars
<1> QED
  BY <1>1, <1>2, <1>3, <1>4, <1>5, <1>6, <1>7 DEF Next, Handle

\* No request is decided at first, and the methods are those of the chain.
LEMMA DecisionInit == Init => Decision!Init
<1> SUFFICES ASSUME Init PROVE Decision!Init
  OBVIOUS
<1>1. TypeOK
  BY InvInit DEF IInv
<1>2. {authenticators[i] : i \in DOMAIN authenticators} \subseteq Methods
  BY <1>1, AuthenticatorsShape
<1> QED
  BY <1>1, <1>2, ChainOrder DEF Init, Decision!Init, Decision!Methods

\* The chain of authenticators, run step by step while the lookups move, takes
\* the decision the rule takes at one instant, for all tables and requests.
THEOREM ChainImplementsDecision == Spec => ImplementsDecision
<1>1. Init => IInv /\ Open
  BY InvInit DEF Init, Open
<1>2. IInv /\ Open /\ [Next]_vars => (IInv /\ Open)'
  <2>1. IInv /\ UNCHANGED vars => IInv'
    BY DEF IInv, TypeOK, Walk, Declined, Counted, vars
  <2> QED
    BY <2>1, ReloadInv, HandleInv, OpenStep DEF Next
<1>3. IInv /\ Open /\ [Next]_vars => [Decision!Next]_(Decision!vars)
  BY DecisionStep
<1> QED
  BY <1>1, <1>2, <1>3, DecisionInit, PTL DEF Spec, ImplementsDecision, Decision!Spec

-----------------------------------------------------------------------------
(* The tables                                                               *)

\* What the theorems assume of the tables (WellFormed) is what load builds of
\* every file it accepts: no OAuth2 key without subject and party, and tables
\* of the profiles in the file, whichever entry wins under a key.
THEOREM LoadBuildsWellFormed ==
    ASSUME NEW config, Accepts(config),
           \A e \in config.oauth2 : e.profile \in Profiles,
           \A e \in config.mtls : e.profile \in Profiles /\ e.key # NotFound,
           \A e \in config.nkey : e.profile \in Profiles,
           config.noauth \in Profiles \cup {NotFound},
           \A profile, scope : [profile |-> profile, scope |-> scope] # NotFound
    PROVE  \A b \in Builds(config) : WellFormed(b)
<1> SUFFICES ASSUME NEW b \in Builds(config) PROVE WellFormed(b)
  OBVIOUS
<1>1. PICK o \in OAuth2Tables(config.oauth2), m \in KeyedTables(config.mtls),
           n \in KeyedTables(config.nkey) :
          b = [oauth2 |-> o, mtls |-> m, nkey |-> n, noauth |-> config.noauth]
  BY DEF Builds
<1>2. ASSUME NEW k \in DOMAIN o
      PROVE  /\ k = <<k[1], k[2]>> /\ k # <<Empty, Empty>>
             /\ o[k] # NotFound /\ o[k].profile \in Profiles
  <2>1. PICK f \in [{OAuth2Key(e) : e \in config.oauth2} -> config.oauth2] :
            /\ \A j \in DOMAIN f : OAuth2Key(f[j]) = j
            /\ o = [j \in DOMAIN f |-> [profile |-> f[j].profile, scope |-> RequiredScope(f[j])]]
    BY DEF OAuth2Tables
  <2>2. f[k] \in config.oauth2 /\ k = OAuth2Key(f[k])
    BY <1>2, <2>1
  <2>3. o[k] = [profile |-> f[k].profile, scope |-> RequiredScope(f[k])]
    BY <1>2, <2>1
  <2>4. k = <<f[k].subject, f[k].azp>> /\ ~(f[k].subject = Empty /\ f[k].azp = Empty)
    BY <2>2 DEF OAuth2Key, Accepts
  <2> QED
    BY <2>2, <2>3, <2>4
<1>3. ASSUME NEW k \in DOMAIN m
      PROVE  k # NotFound /\ m[k] \in Profiles
  <2>1. PICK f \in [{e.key : e \in config.mtls} -> config.mtls] :
            (\A j \in DOMAIN f : f[j].key = j) /\ m = [j \in DOMAIN f |-> f[j].profile]
    BY DEF KeyedTables
  <2> QED
    BY <1>3, <2>1
<1>4. ASSUME NEW k \in DOMAIN n
      PROVE  n[k] \in Profiles
  <2>1. PICK f \in [{e.key : e \in config.nkey} -> config.nkey] :
            (\A j \in DOMAIN f : f[j].key = j) /\ n = [j \in DOMAIN f |-> f[j].profile]
    BY DEF KeyedTables
  <2> QED
    BY <1>4, <2>1
<1> QED
  BY <1>1, <1>2, <1>3, <1>4 DEF WellFormed

\* The loops of load over the three objects of the file always end with tables.
LEMMA LoadBuildsTables ==
    ASSUME NEW config
    PROVE  Builds(config) # {}
<1>1. ASSUME NEW entries PROVE OAuth2Tables(entries) # {}
  <2> DEFINE f == [k \in {OAuth2Key(e) : e \in entries} |->
                      CHOOSE e \in entries : OAuth2Key(e) = k]
  <2>1. \A k \in DOMAIN f : f[k] \in entries /\ OAuth2Key(f[k]) = k
    OBVIOUS
  <2>2. f \in [{OAuth2Key(e) : e \in entries} -> entries]
    BY <2>1
  <2> HIDE DEF f
  <2>3. [k \in DOMAIN f |-> [profile |-> f[k].profile, scope |-> RequiredScope(f[k])]]
          \in OAuth2Tables(entries)
    BY <2>1, <2>2 DEF OAuth2Tables
  <2> QED
    BY <2>3
<1>2. ASSUME NEW entries PROVE KeyedTables(entries) # {}
  <2> DEFINE f == [k \in {e.key : e \in entries} |-> CHOOSE e \in entries : e.key = k]
  <2>1. \A k \in DOMAIN f : f[k] \in entries /\ f[k].key = k
    OBVIOUS
  <2>2. f \in [{e.key : e \in entries} -> entries]
    BY <2>1
  <2> HIDE DEF f
  <2>3. [k \in DOMAIN f |-> f[k].profile] \in KeyedTables(entries)
    BY <2>1, <2>2 DEF KeyedTables
  <2> QED
    BY <2>3
<1>3. PICK o \in OAuth2Tables(config.oauth2), m \in KeyedTables(config.mtls),
           n \in KeyedTables(config.nkey) : TRUE
  BY <1>1, <1>2
<1>4. [oauth2 |-> o, mtls |-> m, nkey |-> n, noauth |-> config.noauth] \in Builds(config)
  BY DEF Builds
<1> QED
  BY <1>4

\* In a file without two entries under one key.
Distinct(config) ==
    /\ \A e, g \in config.oauth2 : OAuth2Key(e) = OAuth2Key(g) => e = g
    /\ \A e, g \in config.mtls : e.key = g.key => e = g
    /\ \A e, g \in config.nkey : e.key = g.key => e = g

\* An OAuth2 table that has the entry itself under every key.
Holds(table, entries) ==
    /\ DOMAIN table = {OAuth2Key(e) : e \in entries}
    /\ table = [k \in {OAuth2Key(e) : e \in entries} |-> table[k]]
    /\ \A e \in entries :
          table[OAuth2Key(e)] = [profile |-> e.profile, scope |-> RequiredScope(e)]

\* The OAuth2 table of distinct entries is one, and each entry is found in it.
LEMMA OAuth2TableOfDistinct ==
    ASSUME NEW entries, \A e, g \in entries : OAuth2Key(e) = OAuth2Key(g) => e = g,
           NEW table \in OAuth2Tables(entries)
    PROVE  Holds(table, entries)
<1>1. PICK f \in [{OAuth2Key(e) : e \in entries} -> entries] :
          /\ \A k \in DOMAIN f : OAuth2Key(f[k]) = k
          /\ table = [k \in DOMAIN f |->
                         [profile |-> f[k].profile, scope |-> RequiredScope(f[k])]]
  BY DEF OAuth2Tables
<1>2. ASSUME NEW e \in entries
      PROVE  table[OAuth2Key(e)] = [profile |-> e.profile, scope |-> RequiredScope(e)]
  <2>1. OAuth2Key(e) \in DOMAIN f
    OBVIOUS
  <2>2. f[OAuth2Key(e)] = e
    BY <1>1, <2>1
  <2> QED
    BY <1>1, <2>1, <2>2
<1> QED
  BY <1>1, <1>2 DEF Holds

\* The same of the tables of mTLS and NKey.
LEMMA KeyedTableOfDistinct ==
    ASSUME NEW entries, \A e, g \in entries : e.key = g.key => e = g,
           NEW table \in KeyedTables(entries)
    PROVE  /\ DOMAIN table = {e.key : e \in entries}
           /\ table = [k \in {e.key : e \in entries} |-> table[k]]
           /\ \A e \in entries : table[e.key] = e.profile
<1>1. PICK f \in [{e.key : e \in entries} -> entries] :
          (\A k \in DOMAIN f : f[k].key = k) /\ table = [k \in DOMAIN f |-> f[k].profile]
  BY DEF KeyedTables
<1>2. ASSUME NEW e \in entries PROVE table[e.key] = e.profile
  <2>1. e.key \in DOMAIN f
    OBVIOUS
  <2>2. f[e.key] = e
    BY <1>1, <2>1
  <2> QED
    BY <1>1, <2>1, <2>2
<1> QED
  BY <1>1, <1>2

\* What the order of a Go map can change is only which of two entries under
\* one key is served (permissions.go:137-186): a file without such entries builds
\* the same tables on every load, and each of its entries is the one found for
\* its own subject and party, identity or key.
THEOREM LoadIsDetermined ==
    ASSUME NEW config, Distinct(config)
    PROVE  \E b : /\ Builds(config) = {b}
                  /\ \A e \in config.oauth2 :
                        GetOAuth2Profile(b.oauth2, e.subject, e.azp) =
                            [profile |-> e.profile, scope |-> RequiredScope(e)]
                  /\ \A e \in config.mtls : GetKeyedProfile(b.mtls, e.key) = e.profile
                  /\ \A e \in config.nkey : GetKeyedProfile(b.nkey, e.key) = e.profile
<1> DEFINE Keys == {OAuth2Key(e) : e \in config.oauth2}
<1>1. /\ \A e, g \in config.oauth2 : OAuth2Key(e) = OAuth2Key(g) => e = g
      /\ \A e, g \in config.mtls : e.key = g.key => e = g
      /\ \A e, g \in config.nkey : e.key = g.key => e = g
  BY DEF Distinct
<1>2. ASSUME NEW t \in OAuth2Tables(config.oauth2) PROVE Holds(t, config.oauth2)
  BY <1>1, OAuth2TableOfDistinct
<1>3. ASSUME NEW s \in OAuth2Tables(config.oauth2), NEW t \in OAuth2Tables(config.oauth2)
      PROVE  s = t
  <2>1. /\ s = [k \in Keys |-> s[k]] /\ t = [k \in Keys |-> t[k]]
        /\ \A e \in config.oauth2 : s[OAuth2Key(e)] = t[OAuth2Key(e)]
    BY <1>2 DEF Holds
  <2>2. \A k \in Keys : s[k] = t[k]
    BY <2>1
  <2> HIDE DEF Keys
  <2> QED
    BY <2>1, <2>2
<1>4. ASSUME NEW entries, \A e, g \in entries : e.key = g.key => e = g,
             NEW s \in KeyedTables(entries), NEW t \in KeyedTables(entries)
      PROVE  s = t
  <2> DEFINE Named == {e.key : e \in entries}
  <2>1. s = [k \in Named |-> s[k]] /\ \A e \in entries : s[e.key] = e.profile
    BY <1>4, KeyedTableOfDistinct, ZenonT(30)
  <2>2. t = [k \in Named |-> t[k]] /\ \A e \in entries : t[e.key] = e.profile
    BY <1>4, KeyedTableOfDistinct, ZenonT(30)
  <2>3. \A k \in Named : s[k] = t[k]
    BY <2>1, <2>2
  <2> HIDE DEF Named
  <2> QED
    BY <2>1, <2>2, <2>3
<1>5. PICK b : b \in Builds(config)
  BY LoadBuildsTables
<1>6. PICK o \in OAuth2Tables(config.oauth2), m \in KeyedTables(config.mtls),
           n \in KeyedTables(config.nkey) :
          b = [oauth2 |-> o, mtls |-> m, nkey |-> n, noauth |-> config.noauth]
  BY <1>5 DEF Builds
<1>7. ASSUME NEW c \in Builds(config) PROVE c = b
  <2>1. PICK p \in OAuth2Tables(config.oauth2), q \in KeyedTables(config.mtls),
             r \in KeyedTables(config.nkey) :
            c = [oauth2 |-> p, mtls |-> q, nkey |-> r, noauth |-> config.noauth]
    BY DEF Builds
  <2>2. p = o /\ q = m /\ r = n
    BY <1>1, <1>3, <1>4
  <2> QED
    BY <1>6, <2>1, <2>2
<1>8. ASSUME NEW e \in config.oauth2
      PROVE  GetOAuth2Profile(o, e.subject, e.azp) =
                 [profile |-> e.profile, scope |-> RequiredScope(e)]
  <2>1. /\ OAuth2Key(e) \in DOMAIN o
        /\ o[OAuth2Key(e)] = [profile |-> e.profile, scope |-> RequiredScope(e)]
    BY <1>2 DEF Holds
  <2> QED
    BY <2>1 DEF OAuth2Key, GetOAuth2Profile
<1>9. \A e \in config.mtls : GetKeyedProfile(m, e.key) = e.profile
  <2>1. /\ DOMAIN m = {e.key : e \in config.mtls}
        /\ \A e \in config.mtls : m[e.key] = e.profile
    BY <1>1, KeyedTableOfDistinct
  <2> QED
    BY <2>1 DEF GetKeyedProfile
<1>10. \A e \in config.nkey : GetKeyedProfile(n, e.key) = e.profile
  <2>1. /\ DOMAIN n = {e.key : e \in config.nkey}
        /\ \A e \in config.nkey : n[e.key] = e.profile
    BY <1>1, KeyedTableOfDistinct
  <2> QED
    BY <2>1 DEF GetKeyedProfile
<1> QED
  BY <1>5, <1>6, <1>7, <1>8, <1>9, <1>10
=============================================================================
