---------------------------- MODULE GenerateNkeys -----------------------------
(***************************************************************************)
(* generate-nkeys.sh: the script that writes the NKeys of the central       *)
(* cluster (CSC), of the data center clusters (CPCs) and of the leaf        *)
(* connections from these to that into a tree of files.  The operator may   *)
(* interrupt it at any point, may lose the machine, and runs it again with  *)
(* other arguments on the tree that is there.  nsc, which makes the keys,   *)
(* may fail.                                                               *)
(***************************************************************************)
EXTENDS Naturals, Sequences, FiniteSets

CONSTANTS
    CpcIds,         \* the arguments that are ids of CPCs
    Accounts,       \* the secret tokens of extra accounts
    Invocations,    \* the arguments a run may be given: its ids and its accounts
    MaxRuns,        \* bound on how often the script is run
    MaxInterrupts,  \* bound on how often it is interrupted
    MaxFailures     \* bound on how often nsc fails

CSC == "csc"

ASSUME NkeysAssumption ==
    /\ CSC \notin CpcIds \cup Accounts
    /\ Invocations \subseteq [cpcs : Seq(CpcIds), extras : Seq(Accounts)]
    /\ {MaxRuns, MaxInterrupts, MaxFailures} \subseteq Nat

VARIABLES
    tree,           \* the files: their contents by <<cluster, secret, key>>
    dirs,           \* the directories: <<cluster>> (its nkeys) and <<cluster, secret>>
    cpcs, extras,   \* the arguments of the run
    pc,             \* where the script is
    at,             \* the CPC it is at: 0 for CSC, then a position in cpcs
    leaf,           \* 0 for the cluster, 1 for its leaf to CSC, then extra accounts
    queue,          \* the files it is about to write: <<file, value>>
    runs, interrupts, failures,
    struck          \* history: the clusters and leaves whose generation was cut
                    \* short: <<cluster>>, <<account, cpc>>

arguments == <<cpcs, extras>>
environment == <<runs, interrupts, failures, struck>>
vars == <<tree, dirs, arguments, pc, at, leaf, queue, environment>>

Ended == {"complete", "failed", "interrupted"}

-----------------------------------------------------------------------------
(* Keys and files.                                                         *)

\* The two halves of the key pair that a run generates for a secret, and what
\* the script goes on with when nsc fails: generate_nkey_pair exits, but only
\* the subshell of read's here-string, and read finds an empty line.
Half(half, run, cluster, secret) == <<half, run, cluster, secret>>
Blank == <<>>

\* A secret is named by the parts of its name.
KeyPair(name) == <<<<<<name>>, "seed", <<name>>>>, <<<<name>>, "pubkey", <<name>>>>>>
Copy(name, key, of) == <<<<<<name>>, key, <<of>>>>>>

\* generate_base_cluster_secrets: the files in the order they are written, as
\* secret, key, and the pair whose half they hold.
BaseFiles ==
    KeyPair("nats-auth-signing") \o KeyPair("nats-xkey") \o KeyPair("nats-authx-user")
    \o KeyPair("nats-nack-user") \o Copy("nats-nack-user", "nack-user.nk", "nats-nack-user")
    \o KeyPair("nats-mtls-leaf") \o KeyPair("nats-mtls-authx-leaf")
    \o KeyPair("nats-mtls-sys-leaf") \o KeyPair("nats-surveyor")
    \o Copy("auth-callout-keys", "nkey-seed", "nats-authx-user")
    \o Copy("auth-callout-keys", "issuer-seed", "nats-auth-signing")
    \o Copy("auth-callout-keys", "xkey-seed", "nats-xkey")

BasePairs == {BaseFiles[i][3] : i \in DOMAIN BaseFiles}

HalfIn(key) == IF key = "pubkey" THEN "pubkey" ELSE "seed"

BaseWrites(cluster, unmade) ==
    [i \in DOMAIN BaseFiles |->
        LET file == BaseFiles[i]
        IN  <<<<cluster, file[1], file[2]>>,
              IF file[3] \in unmade THEN Blank ELSE Half(HalfIn(file[2]), runs, cluster, file[3])>>]

\* The secrets of a leaf connection, on either side.
CscSecret(account, cpc) == <<"nats-leaf", account, cpc>>
CpcSecret(account) == <<"nats-leaf", account>>

CscFile(account, cpc, key) == <<CSC, CscSecret(account, cpc), key>>
CpcFile(account, cpc, key) == <<cpc, CpcSecret(account), key>>

LeafWrites(account, cpc, made) ==
    LET half(h) == IF made THEN Half(h, runs, cpc, CpcSecret(account)) ELSE Blank
    IN  <<<<CscFile(account, cpc, "pubkey"), half("pubkey")>>,
          <<CpcFile(account, cpc, "seed"), half("seed")>>>>

\* secret_key_exists ([ -s ]), secret_started ([ -e ]).
SecretKeyExists(file) == file \in DOMAIN tree /\ tree[file] # Blank
SecretStarted(cluster, secret) == <<cluster, secret>> \in dirs

\* leaf_outputs_match: nk derives the public key from the seed.
PubkeyOf(seed) == <<"pubkey", seed[2], seed[3], seed[4]>>
LeafOutputsMatch(account, cpc) ==
    tree[CscFile(account, cpc, "pubkey")] = PubkeyOf(tree[CpcFile(account, cpc, "seed")])

-----------------------------------------------------------------------------
(* main.                                                                   *)

Cluster == IF at = 0 THEN CSC ELSE cpcs[at]
Account == IF leaf = 1 THEN CSC ELSE extras[leaf - 1]

\* Where main goes when it is through with the cluster or the leaf at hand.
Advance ==
    IF at > 0 /\ leaf <= Len(extras)
    THEN pc' = "leaf" /\ leaf' = leaf + 1 /\ UNCHANGED at
    ELSE /\ leaf' = 0
         /\ at' = at + 1
         /\ pc' = IF at < Len(cpcs) THEN "cluster" ELSE "complete"

\* parse_args: no two accounts may have one token.
ParseArgs ==
    /\ pc = "parse"
    /\ pc' = IF \E i, j \in DOMAIN extras : i # j /\ extras[i] = extras[j]
             THEN "failed" ELSE "cluster"
    /\ UNCHANGED <<tree, dirs, arguments, at, leaf, queue, environment>>

\* MUTANT: a directory that is there does not keep the keys from being generated.
GenerateClusterAnew ==
    /\ pc = "cluster"
    /\ dirs' = dirs \cup {<<Cluster>>} /\ pc' = "mint" /\ UNCHANGED <<at, leaf>>
    /\ UNCHANGED <<tree, arguments, queue, environment>>

\* MUTANT: a cluster that is there is passed over with its leaves.
GenerateClusterSkips ==
    /\ pc = "cluster"
    /\ IF <<Cluster>> \in dirs
       THEN /\ leaf' = 0 /\ at' = at + 1
            /\ pc' = (IF at < Len(cpcs) THEN "cluster" ELSE "complete")
            /\ UNCHANGED dirs
       ELSE dirs' = dirs \cup {<<Cluster>>} /\ pc' = "mint" /\ UNCHANGED <<at, leaf>>
    /\ UNCHANGED <<tree, arguments, queue, environment>>

\* generate_cluster: a directory that is there is left as it is.
GenerateCluster ==
    /\ pc = "cluster"
    /\ IF <<Cluster>> \in dirs
       THEN Advance /\ UNCHANGED dirs
       ELSE dirs' = dirs \cup {<<Cluster>>} /\ pc' = "mint" /\ UNCHANGED <<at, leaf>>
    /\ UNCHANGED <<tree, arguments, queue, environment>>

\* The pairs of the cluster are generated, with none of it in the tree yet.
Mint ==
    /\ pc = "mint"
    /\ \E unmade \in SUBSET BasePairs :
          /\ Cardinality(unmade) + failures <= MaxFailures
          /\ failures' = failures + Cardinality(unmade)
          /\ queue' = BaseWrites(Cluster, unmade)
          /\ struck' = IF unmade = {} THEN struck ELSE struck \cup {<<Cluster>>}
    /\ pc' = "write"
    /\ UNCHANGED <<tree, dirs, arguments, at, leaf, runs, interrupts>>

\* MUTANT: halves that are both there are not compared.
GenerateLeafTrusting ==
    /\ pc = "leaf"
    /\ LET csc == SecretKeyExists(CscFile(Account, Cluster, "pubkey"))
           cpc == SecretKeyExists(CpcFile(Account, Cluster, "seed"))
           started == \/ SecretStarted(CSC, CscSecret(Account, Cluster))
                      \/ SecretStarted(Cluster, CpcSecret(Account))
       IN  \/ /\ csc /\ cpc
              /\ pc' = "unused"
              /\ UNCHANGED <<queue, failures, struck>>
           \/ /\ ~csc /\ ~cpc /\ ~started
              /\ \E made \in BOOLEAN :
                    /\ failures' = IF made THEN failures ELSE failures + 1
                    /\ failures' <= MaxFailures
                    /\ queue' = LeafWrites(Account, Cluster, made)
                    /\ struck' = IF made THEN struck ELSE struck \cup {<<Account, Cluster>>}
              /\ pc' = "write"
           \/ /\ csc # cpc \/ (~csc /\ ~cpc /\ started)
              /\ pc' = "failed"
              /\ UNCHANGED <<queue, failures, struck>>
    /\ UNCHANGED <<tree, dirs, arguments, at, leaf, runs, interrupts>>

\* MUTANT: a pair that is not there as a whole is generated anew.
GenerateLeafAnew ==
    /\ pc = "leaf"
    /\ IF /\ SecretKeyExists(CscFile(Account, Cluster, "pubkey"))
          /\ SecretKeyExists(CpcFile(Account, Cluster, "seed"))
       THEN /\ pc' = IF LeafOutputsMatch(Account, Cluster) THEN "unused" ELSE "failed"
            /\ UNCHANGED <<queue, failures, struck>>
       ELSE /\ \E made \in BOOLEAN :
                  /\ failures' = IF made THEN failures ELSE failures + 1
                  /\ failures' <= MaxFailures
                  /\ queue' = LeafWrites(Account, Cluster, made)
                  /\ struck' = IF made THEN struck ELSE struck \cup {<<Account, Cluster>>}
            /\ pc' = "write"
    /\ UNCHANGED <<tree, dirs, arguments, at, leaf, runs, interrupts>>

\* generate_leaf_outputs_pair: both halves are there and must match, or nothing
\* is and the pair is generated; anything else is an error.
GenerateLeaf ==
    /\ pc = "leaf"
    /\ LET csc == SecretKeyExists(CscFile(Account, Cluster, "pubkey"))
           cpc == SecretKeyExists(CpcFile(Account, Cluster, "seed"))
           started == \/ SecretStarted(CSC, CscSecret(Account, Cluster))
                      \/ SecretStarted(Cluster, CpcSecret(Account))
       IN  \/ /\ csc /\ cpc
              /\ pc' = IF LeafOutputsMatch(Account, Cluster) THEN "unused" ELSE "failed"
              /\ UNCHANGED <<queue, failures, struck>>
           \/ /\ ~csc /\ ~cpc /\ ~started
              /\ \E made \in BOOLEAN :
                    /\ failures' = IF made THEN failures ELSE failures + 1
                    /\ failures' <= MaxFailures
                    /\ queue' = LeafWrites(Account, Cluster, made)
                    /\ struck' = IF made THEN struck ELSE struck \cup {<<Account, Cluster>>}
              /\ pc' = "write"
           \/ /\ csc # cpc \/ (~csc /\ ~cpc /\ started)
              /\ pc' = "failed"
              /\ UNCHANGED <<queue, failures, struck>>
    /\ UNCHANGED <<tree, dirs, arguments, at, leaf, runs, interrupts>>

\* write_secret_value: the directory of the secret, then the file, moved into
\* place in one step.
MakeSecretDir ==
    /\ pc = "write" /\ queue # <<>>
    /\ LET file == Head(queue)[1] IN
       /\ ~SecretStarted(file[1], file[2])
       /\ dirs' = dirs \cup {<<file[1], file[2]>>}
    /\ UNCHANGED <<tree, arguments, pc, at, leaf, queue, environment>>

\* MUTANT: the file is written whether its directory was made or not.
WriteSecretValueAtOnce ==
    /\ pc = "write" /\ queue # <<>>
    /\ LET file == Head(queue)[1] IN
       tree' = [f \in DOMAIN tree \cup {file} |->
                  IF f = file THEN Head(queue)[2] ELSE tree[f]]
    /\ queue' = Tail(queue)
    /\ UNCHANGED <<dirs, arguments, pc, at, leaf, environment>>

WriteSecretValue ==
    /\ pc = "write" /\ queue # <<>>
    /\ LET file == Head(queue)[1] IN
       /\ SecretStarted(file[1], file[2])
       /\ tree' = [f \in DOMAIN tree \cup {file} |->
                     IF f = file THEN Head(queue)[2] ELSE tree[f]]
    /\ queue' = Tail(queue)
    /\ UNCHANGED <<dirs, arguments, pc, at, leaf, environment>>

Written ==
    /\ pc = "write" /\ queue = <<>>
    /\ IF leaf = 0 THEN Advance ELSE pc' = "unused" /\ UNCHANGED <<at, leaf>>
    /\ UNCHANGED <<tree, dirs, arguments, queue, environment>>

\* remove_unused_leaf_keys: the halves older versions of the script also wrote.
Without(file) == [f \in DOMAIN tree \ {file} |-> tree[f]]

RemoveCscSeed ==
    /\ pc = "unused"
    /\ tree' = Without(CscFile(Account, Cluster, "seed"))
    /\ pc' = "unused2"
    /\ UNCHANGED <<dirs, arguments, at, leaf, queue, environment>>

RemoveCpcPubkey ==
    /\ pc = "unused2"
    /\ tree' = Without(CpcFile(Account, Cluster, "pubkey"))
    /\ Advance
    /\ UNCHANGED <<dirs, arguments, queue, environment>>

-----------------------------------------------------------------------------
(* The operator.                                                           *)

\* A signal, a full disk (set -e) or a crash.  It strikes the cluster that has
\* its directory and not yet all its files.
Interrupt ==
    /\ pc \notin Ended
    /\ interrupts < MaxInterrupts
    /\ interrupts' = interrupts + 1
    /\ pc' = "interrupted"
    /\ struck' = IF leaf = 0 /\ (pc = "mint" \/ (pc = "write" /\ queue # <<>>))
                 THEN struck \cup {<<Cluster>>} ELSE struck
    /\ UNCHANGED <<tree, dirs, arguments, at, leaf, queue, runs, failures>>

Rerun ==
    /\ pc \in Ended
    /\ runs < MaxRuns
    /\ runs' = runs + 1
    /\ \E invocation \in Invocations :
          cpcs' = invocation.cpcs /\ extras' = invocation.extras
    /\ pc' = "parse" /\ at' = 0 /\ leaf' = 0 /\ queue' = <<>>
    /\ UNCHANGED <<tree, dirs, interrupts, failures, struck>>

-----------------------------------------------------------------------------
(* The trees the first run may find: none, or one with CSC, one CPC and its *)
(* leaf, by an older version that wrote all four halves; the CSC side may    *)
(* have been mixed up with another leaf's.                                 *)

BaseTree(clusters) ==
    [f \in {<<c, BaseFiles[i][1], BaseFiles[i][2]>> : c \in clusters, i \in DOMAIN BaseFiles} |->
        LET pair == (CHOOSE i \in DOMAIN BaseFiles :
                        BaseFiles[i][1] = f[2] /\ BaseFiles[i][2] = f[3])
        IN  Half(HalfIn(f[3]), 0, f[1], BaseFiles[pair][3])]

LeafTree(cpc, kept) ==
    [f \in {CscFile(CSC, cpc, "pubkey"), CscFile(CSC, cpc, "seed"),
            CpcFile(CSC, cpc, "pubkey"), CpcFile(CSC, cpc, "seed")} |->
        Half(f[3], 0, cpc, IF f[1] = CSC THEN CpcSecret(kept) ELSE CpcSecret(CSC))]

Joined(f, g) == [x \in DOMAIN f \cup DOMAIN g |-> IF x \in DOMAIN f THEN f[x] ELSE g[x]]

DirsOf(t) == {<<f[1]>> : f \in DOMAIN t} \cup {<<f[1], f[2]>> : f \in DOMAIN t}

OldTree(cpc, kept) == Joined(BaseTree({CSC, cpc}), LeafTree(cpc, kept))

OldTrees == {<<>>} \cup {OldTree(cpc, kept) : cpc \in CpcIds, kept \in {CSC} \cup Accounts}

Init ==
    /\ tree \in OldTrees
    /\ dirs = DirsOf(tree)
    /\ \E invocation \in Invocations :
          cpcs = invocation.cpcs /\ extras = invocation.extras
    /\ pc = "parse" /\ at = 0 /\ leaf = 0 /\ queue = <<>>
    /\ runs = 1 /\ interrupts = 0 /\ failures = 0 /\ struck = {}

Script ==
    \/ ParseArgs \/ GenerateCluster \/ Mint \/ GenerateLeaf \/ MakeSecretDir
    \/ WriteSecretValue \/ Written \/ RemoveCscSeed \/ RemoveCpcPubkey

Next == Script \/ Interrupt \/ Rerun

Spec == Init /\ [][Next]_vars

-----------------------------------------------------------------------------
(* Properties.                                                             *)

LeafAccounts == {CSC} \cup {extras[i] : i \in DOMAIN extras}
Requested == {<<account, cpcs[i]>> : account \in LeafAccounts, i \in DOMAIN cpcs}

Unused(f) ==
    \E account \in Accounts \cup {CSC}, cpc \in CpcIds :
        f \in {CscFile(account, cpc, "seed"), CpcFile(account, cpc, "pubkey")}

\* The clusters and the leaves there can be.
Parts == {<<c>> : c \in CpcIds \cup {CSC}} \cup {<<a, c>> : a \in Accounts \cup {CSC}, c \in CpcIds}

\* Every variable has its type.
TypeOK ==
    /\ [cpcs |-> cpcs, extras |-> extras] \in Invocations
    /\ pc \in {"parse", "cluster", "mint", "leaf", "write", "unused", "unused2"} \cup Ended
    /\ at \in 0..(Len(cpcs) + 1)
    /\ leaf \in 0..(Len(extras) + 1)
    /\ runs \in 1..MaxRuns \cup {1}
    /\ interrupts \in 0..MaxInterrupts /\ failures \in 0..MaxFailures
    /\ struck \subseteq Parts
    /\ \A f \in DOMAIN tree : <<f[1]>> \in dirs /\ <<f[1], f[2]>> \in dirs

\* A run that reports completion leaves no requested leaf connection with
\* halves of two pairs, whatever trees were put together, whatever was
\* interrupted before, and also when nsc failed (then both halves are empty).
CompletedLeavesAgree ==
    pc = "complete" =>
        \A r \in Requested :
            LET pubkey == CscFile(r[1], r[2], "pubkey")
                seed == CpcFile(r[1], r[2], "seed")
            IN  /\ {pubkey, seed} \subseteq DOMAIN tree
                /\ \/ tree[pubkey] = Blank /\ tree[seed] = Blank
                   \/ /\ tree[pubkey] # Blank /\ tree[seed] # Blank
                      /\ tree[pubkey] = PubkeyOf(tree[seed])

SamePair == {p \in (DOMAIN BaseFiles) \X (DOMAIN BaseFiles) :
                p[1] < p[2] /\ BaseFiles[p[1]][3] = BaseFiles[p[2]][3]}

\* What a key pair is used for in two places stays one pair: the halves of a
\* secret, and the copies auth-callout takes as its own credentials.
CopiesAgree ==
    \A c \in CpcIds \cup {CSC}, p \in SamePair :
        LET f == <<c, BaseFiles[p[1]][1], BaseFiles[p[1]][2]>>
            g == <<c, BaseFiles[p[2]][1], BaseFiles[p[2]][2]>>
        IN  SecretKeyExists(f) /\ SecretKeyExists(g) => Tail(tree[f]) = Tail(tree[g])

\* The script is additive (deploy/README.md): whatever the arguments and
\* however often it was interrupted, what a file holds stays, but for the
\* halves of leaf keys that are not used.
Additive ==
    [][\A f \in DOMAIN tree :
          \/ f \in DOMAIN tree' /\ tree'[f] = tree[f]
          \/ Unused(f) /\ f \notin DOMAIN tree']_tree

RequestedClusters == {CSC} \cup {cpcs[i] : i \in DOMAIN cpcs}

HasBaseFiles(c) ==
    \A i \in DOMAIN BaseFiles : SecretKeyExists(<<c, BaseFiles[i][1], BaseFiles[i][2]>>)

HasHalves(r) == /\ SecretKeyExists(CscFile(r[1], r[2], "pubkey"))
                /\ SecretKeyExists(CpcFile(r[1], r[2], "seed"))

\* What stops a run, or a failure of nsc, costs the one cluster it was making
\* (its directory is there before its files, so later runs take it for done)
\* or the leaf whose keys nsc did not make: every other cluster and leaf that a
\* run was asked for is complete when it reports completion, in whichever runs
\* it was made.  A leaf that was interrupted is no exception: no run that is
\* asked for it reports completion while a half of it is missing.
CompleteUnlessStruck ==
    pc = "complete" =>
        /\ \A c \in RequestedClusters : <<c>> \in struck \/ HasBaseFiles(c)
        /\ \A r \in Requested : r \in struck \/ HasHalves(r)

\* A run that reports "Secret generation complete" has generated all secrets
\* of the clusters it was asked for, or found them there and left them
\* unchanged (the script's usage).
CompletedIsComplete == pc = "complete" => \A c \in RequestedClusters : HasBaseFiles(c)
==============================================================================
