------------------------- MODULE PermissionsLookup -------------------------
(***************************************************************************)
(* The tables load builds from one version of the permissions file, and    *)
(* the lookups the authenticators make in them.                            *)
(*                                                                          *)
(* A parsed file is a record of entries; the names of the JSON objects are *)
(* left out, so an object is a set of entries.  The empty string stands    *)
(* for a field that is absent, and a profile for the account and the       *)
(* permissions an entry carries.  The values are those after os.ExpandEnv:  *)
(* a field names what its text expands to in the environment of the         *)
(* process, which is the same at every load; two texts may expand to one    *)
(* value and an entry may expand to an empty one.                           *)
(***************************************************************************)
EXTENDS Naturals, FiniteSets

CONSTANTS
    Profiles,       \* the accounts and permissions entries can carry
    NotFound        \* what a lookup that finds nothing returns

ASSUME LookupAssumption == NotFound \notin Profiles

Empty == ""
DefaultScope == "mqtt"

\* An OAuth2 entry that load accepts names a subject, an authorized party, or both.
Accepts(config) ==
    \A e \in config.oauth2 : ~(e.subject = Empty /\ e.azp = Empty)

OAuth2Key(e) == <<e.subject, e.azp>>

RequiredScope(e) == IF e.scope = Empty THEN DefaultScope ELSE e.scope

\* The tables some iteration order of the map builds: entries under one key
\* overwrite each other, and any of them can be the last.
OAuth2Tables(entries) ==
    {[k \in DOMAIN f |-> [profile |-> f[k].profile, scope |-> RequiredScope(f[k])]] :
        f \in {g \in [{OAuth2Key(e) : e \in entries} -> entries] :
                  \A k \in DOMAIN g : OAuth2Key(g[k]) = k}}

\* The mTLS and NKey tables, keyed by identity and by public key.
KeyedTables(entries) ==
    {[k \in DOMAIN f |-> f[k].profile] :
        f \in {g \in [{e.key : e \in entries} -> entries] :
                  \A k \in DOMAIN g : g[k].key = k}}

\* Every outcome of building the lookups from one accepted configuration.
Builds(config) ==
    {[oauth2 |-> o, mtls |-> m, nkey |-> n, noauth |-> config.noauth] :
        o \in OAuth2Tables(config.oauth2),
        m \in KeyedTables(config.mtls),
        n \in KeyedTables(config.nkey)}

\* What every such outcome is: tables of profiles, and perhaps an anonymous one.
\* No OAuth2 key is without subject and party, and no identity is missing.
WellFormed(tables) ==
    /\ \A k \in DOMAIN tables.oauth2 :
          /\ k = <<k[1], k[2]>> /\ k # <<Empty, Empty>>
          /\ tables.oauth2[k] # NotFound /\ tables.oauth2[k].profile \in Profiles
    /\ \A k \in DOMAIN tables.mtls : k # NotFound /\ tables.mtls[k] \in Profiles
    /\ \A k \in DOMAIN tables.nkey : tables.nkey[k] \in Profiles
    /\ tables.noauth \in Profiles \cup {NotFound}

-----------------------------------------------------------------------------
\* MUTANT: the authorized party is looked up before the subject.
GetOAuth2ProfileSwapped(table, subject, azp) ==
    IF <<subject, azp>> \in DOMAIN table THEN table[<<subject, azp>>]
    ELSE IF <<Empty, azp>> \in DOMAIN table THEN table[<<Empty, azp>>]
    ELSE IF <<subject, Empty>> \in DOMAIN table THEN table[<<subject, Empty>>]
    ELSE NotFound

\* Exact match, then subject only, then authorized party only.
GetOAuth2Profile(table, subject, azp) ==
    IF <<subject, azp>> \in DOMAIN table THEN table[<<subject, azp>>]
    ELSE IF <<subject, Empty>> \in DOMAIN table THEN table[<<subject, Empty>>]
    ELSE IF <<Empty, azp>> \in DOMAIN table THEN table[<<Empty, azp>>]
    ELSE NotFound

\* GetMTLSProfile and GetNKeyProfile.
GetKeyedProfile(table, key) == IF key \in DOMAIN table THEN table[key] ELSE NotFound
=============================================================================
