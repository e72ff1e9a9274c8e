------------------------- MODULE GenerateNkeysProofs -------------------------
(***************************************************************************)
(* Proofs about GenerateNkeys, for any arguments and any bounds on runs,     *)
(* interruptions and failures.                                             *)
(*                                                                         *)
(* Shape is inductive by itself: the types, where main can be (Places), the  *)
(* directories of what it has come to (Entered), and that what it is about   *)
(* to write is in no file yet (Fresh).  So the script only adds (TreeStep),   *)
(* and what is once true of a file it uses stays true.  The other parts of   *)
(* IInv follow a leaf and a cluster from the first file to the last:         *)
(*   Halfway    the pair of a leaf between its two writes;                   *)
(*   Done       the leaves main has behind it agree;                         *)
(*   ThisBatch  what is being written of a cluster is of this run;           *)
(*   OneBatch   what is there of a cluster is of one run;                    *)
(*   NoBlank    only what a failure of nsc struck has empty keys;             *)
(*   Filled     only a cluster that is being written, or was when a run was   *)
(*              interrupted, lacks a file;                                   *)
(*   Passed     the clusters main has behind it are there.                   *)
(***************************************************************************)
EXTENDS GenerateNkeys, SequenceTheorems, FiniteSetTheorems, TLAPS

\* The clusters, and where main is under way.
Clusters == CpcIds \cup {CSC}
AtWork == {"cluster", "mint", "leaf", "write", "unused", "unused2"}

\* Where main can be in its loops.
Places ==
    /\ pc \in AtWork => at <= Len(cpcs)
    /\ pc \in {"leaf", "unused", "unused2"} => at >= 1 /\ leaf >= 1
    /\ pc \in {"cluster", "mint"} => leaf = 0
    /\ pc = "write" /\ leaf >= 1 => at >= 1
    /\ pc = "parse" => at = 0 /\ leaf = 0
    /\ pc = "complete" => at = Len(cpcs) + 1

\* The directories of the clusters main has come to.
Entered ==
    /\ pc \in AtWork \ {"cluster"} => <<Cluster>> \in dirs
    /\ pc \in AtWork \cup {"complete"} /\ at >= 1 => <<CSC>> \in dirs

\* What is about to be written is in none of the files there are.
Fresh ==
    /\ \E S : queue \in Seq(S)
    /\ pc = "mint" => \A f \in DOMAIN tree : f[1] # Cluster
    /\ pc = "write" =>
          /\ \A i \in 1..Len(queue) : /\ queue[i][1] \notin DOMAIN tree
                                      /\ queue[i][1][1] \in {CSC, Cluster}
          /\ \A i, j \in 1..Len(queue) : i < j => queue[i][1] # queue[j][1]

\* The part of the invariant that is inductive by itself.
Shape == TypeOK /\ Places /\ Entered /\ Fresh

\* The arguments and where main is in them.
LEMMA Arguments ==
    ASSUME TypeOK
    PROVE  /\ cpcs \in Seq(CpcIds) /\ extras \in Seq(Accounts)
           /\ Len(cpcs) \in Nat /\ Len(extras) \in Nat
           /\ at \in Nat /\ leaf \in Nat
           /\ at \in 1..Len(cpcs) => Cluster \in CpcIds
           /\ leaf \in 1..(Len(extras) + 1) => Account \in Accounts \cup {CSC}
<1>1. cpcs \in Seq(CpcIds) /\ extras \in Seq(Accounts)
  BY NkeysAssumption DEF TypeOK
<1>2. Len(cpcs) \in Nat /\ Len(extras) \in Nat
  BY <1>1, LenProperties
<1>3. at \in Nat /\ leaf \in Nat
  BY <1>2 DEF TypeOK
<1>4. at \in 1..Len(cpcs) => Cluster \in CpcIds
  <2> SUFFICES ASSUME at \in 1..Len(cpcs) PROVE cpcs[at] \in CpcIds
    BY <1>2 DEF Cluster
  <2> QED
    BY <1>1, ElementOfSeq
<1>5. leaf \in 1..(Len(extras) + 1) => Account \in Accounts \cup {CSC}
  <2> SUFFICES ASSUME leaf \in 2..(Len(extras) + 1) PROVE extras[leaf - 1] \in Accounts
    BY <1>2 DEF Account
  <2>1. leaf - 1 \in 1..Len(extras)
    BY <1>2
  <2> QED
    BY <1>1, <2>1, ElementOfSeq
<1> QED
  BY <1>1, <1>2, <1>3, <1>4, <1>5

\* The files of a cluster, and that none of them is a leaf's.
LEMMA BaseFacts ==
    /\ DOMAIN BaseFiles = 1..20
    /\ \A i, j \in 1..20 :
          i # j => BaseFiles[i][1] # BaseFiles[j][1] \/ BaseFiles[i][2] # BaseFiles[j][2]
    /\ \A i \in 1..20 : \A a, c : /\ BaseFiles[i][1] # CscSecret(a, c)
                                  /\ BaseFiles[i][1] # CpcSecret(a)
<1>1. DOMAIN BaseFiles = 1..20
  BY DEF BaseFiles, KeyPair, Copy
<1>2. \A i, j \in 1..20 :
          i # j => BaseFiles[i][1] # BaseFiles[j][1] \/ BaseFiles[i][2] # BaseFiles[j][2]
  BY DEF BaseFiles, KeyPair, Copy
<1>3. \A i \in 1..20 : \A a, c : /\ BaseFiles[i][1] # CscSecret(a, c)
                                 /\ BaseFiles[i][1] # CpcSecret(a)
  BY DEF BaseFiles, KeyPair, Copy, CscSecret, CpcSecret
<1> QED
  BY <1>1, <1>2, <1>3

\* Where Advance leads.
LEMMA AdvanceTo ==
    ASSUME TypeOK, Places, pc \in AtWork, Advance
    PROVE  \/ /\ at >= 1 /\ leaf <= Len(extras)
              /\ pc' = "leaf" /\ leaf' = leaf + 1 /\ at' = at
           \/ /\ at = 0 \/ leaf = Len(extras) + 1
              /\ leaf' = 0 /\ at' = at + 1 /\ at' \in 1..(Len(cpcs) + 1)
              /\ \/ pc' = "cluster" /\ at' <= Len(cpcs)
                 \/ pc' = "complete" /\ at' = Len(cpcs) + 1
<1>1. at \in Nat /\ leaf \in Nat /\ at <= Len(cpcs) /\ Len(cpcs) \in Nat /\ Len(extras) \in Nat
  BY Arguments DEF Places
<1>2. leaf <= Len(extras) + 1
  BY <1>1 DEF TypeOK
<1> QED
  BY <1>1, <1>2 DEF Advance

\* So it stays within the loops.
LEMMA AdvanceType ==
    ASSUME TypeOK, Places, pc \in AtWork, Advance
    PROVE  /\ pc' \in {"leaf", "cluster", "complete"}
           /\ at' \in 0..(Len(cpcs) + 1) /\ leaf' \in 0..(Len(extras) + 1)
<1>1. at \in Nat /\ leaf \in Nat /\ at <= Len(cpcs) /\ Len(cpcs) \in Nat /\ Len(extras) \in Nat
  BY Arguments DEF Places
<1> QED
  BY <1>1, AdvanceTo

-----------------------------------------------------------------------------
(* Shape.                                                                  *)

\* Nothing is being written at first, and the files found have directories.
LEMMA ShapeInit == Init => Shape
<1> SUFFICES ASSUME Init PROVE Shape
  OBVIOUS
<1>1. [cpcs |-> cpcs, extras |-> extras] \in Invocations
  BY NkeysAssumption DEF Init
<1>2. cpcs \in Seq(CpcIds) /\ extras \in Seq(Accounts)
  BY <1>1, NkeysAssumption
<1>3. Len(cpcs) \in Nat /\ Len(extras) \in Nat /\ MaxInterrupts \in Nat /\ MaxFailures \in Nat
  BY <1>2, LenProperties, NkeysAssumption
<1>4. \A f \in DOMAIN tree : <<f[1]>> \in dirs /\ <<f[1], f[2]>> \in dirs
  BY DEF Init, DirsOf
<1>5. TypeOK
  <2>1. /\ pc = "parse" /\ at = 0 /\ leaf = 0 /\ runs = 1 /\ interrupts = 0 /\ failures = 0
        /\ struck = {}
    BY DEF Init
  <2> QED
    BY <1>1, <1>3, <1>4, <2>1 DEF TypeOK
<1>6. <<>> \in Seq({})
  BY EmptySeq
<1> QED
  BY <1>5, <1>6 DEF Init, Shape, Places, Entered, Fresh, AtWork

\* The keys of a leaf are distinct files.
LEMMA LeafQueue ==
    ASSUME NEW a, NEW c, NEW made \in BOOLEAN, c # CSC, NEW q, q = LeafWrites(a, c, made)
    PROVE  /\ \E S : q \in Seq(S)
           /\ Len(q) = 2
           /\ q[1][1] = CscFile(a, c, "pubkey") /\ q[2][1] = CpcFile(a, c, "seed")
           /\ q[1][1] # q[2][1]
<1>1. q \in Seq({q[1], q[2]})
  BY DEF LeafWrites
<1>2. /\ Len(q) = 2
      /\ q[1][1] = CscFile(a, c, "pubkey") /\ q[2][1] = CpcFile(a, c, "seed")
  BY DEF LeafWrites
<1>3. q[1][1] # q[2][1]
  BY <1>2 DEF CscFile, CpcFile
<1> QED
  BY <1>1, <1>2, <1>3

\* What a cluster's keys are written to, and with what.
LEMMA BaseTarget ==
    ASSUME NEW c, NEW unmade, NEW i \in 1..20
    PROVE  BaseWrites(c, unmade)[i][1] = <<c, BaseFiles[i][1], BaseFiles[i][2]>>
BY BaseFacts DEF BaseWrites

\* The value is a half of this run, or nothing where nsc failed.
LEMMA BaseValue ==
    ASSUME NEW c, NEW unmade, NEW i \in 1..20
    PROVE  BaseWrites(c, unmade)[i][2] =
              IF BaseFiles[i][3] \in unmade THEN Blank
              ELSE Half(HalfIn(BaseFiles[i][2]), runs, c, BaseFiles[i][3])
BY BaseFacts DEF BaseWrites

\* Its keys are distinct files, too.
LEMMA BaseDistinct ==
    ASSUME NEW c, NEW unmade, NEW i \in 1..20, NEW j \in 1..20, i # j
    PROVE  BaseWrites(c, unmade)[i][1] # BaseWrites(c, unmade)[j][1]
<1>1. /\ BaseWrites(c, unmade)[i][1] = <<c, BaseFiles[i][1], BaseFiles[i][2]>>
      /\ BaseWrites(c, unmade)[j][1] = <<c, BaseFiles[j][1], BaseFiles[j][2]>>
  BY BaseTarget
<1>2. BaseFiles[i][1] # BaseFiles[j][1] \/ BaseFiles[i][2] # BaseFiles[j][2]
  BY BaseFacts
<1> QED
  BY <1>1, <1>2

\* There are 20 of them.
LEMMA BaseQueue ==
    ASSUME NEW c, NEW unmade, NEW q, q = BaseWrites(c, unmade)
    PROVE  (\E S : q \in Seq(S)) /\ Len(q) = 20
<1> DEFINE S == {q[i] : i \in 1..20}
<1>1. q \in [1..20 -> S]
  BY BaseFacts DEF BaseWrites
<1> HIDE DEF S
<1>2. q \in Seq(S)
  BY <1>1, SeqDef
<1> QED
  BY <1>1, <1>2, LenProperties

\* The cluster and the leaf that a step can strike.
LEMMA StruckParts ==
    ASSUME Shape
    PROVE  /\ pc \in {"mint", "write"} => Cluster \in Clusters
           /\ pc = "leaf" => Account \in Accounts \cup {CSC} /\ Cluster \in CpcIds
<1>1. at \in Nat /\ Len(cpcs) \in Nat /\ leaf \in Nat /\ leaf <= Len(extras) + 1
  BY Arguments DEF Shape, TypeOK
<1>2. pc \in {"mint", "write"} => Cluster \in Clusters
  BY <1>1, Arguments DEF Shape, Places, AtWork, Clusters, Cluster
<1>3. pc = "leaf" => Account \in Accounts \cup {CSC} /\ Cluster \in CpcIds
  BY <1>1, Arguments DEF Shape, Places, AtWork
<1> QED
  BY <1>2, <1>3

\* Nothing but a cluster or a leaf is struck, and what is struck stays so.
LEMMA StruckStep ==
    ASSUME Shape, [Next]_vars
    PROVE  /\ struck \subseteq struck'
           /\ struck' \subseteq Parts
<1> USE DEF arguments, environment
<1>0. struck \subseteq Parts
  BY DEF Shape, TypeOK
<1>1. CASE Mint \/ Interrupt
  <2>1. struck' # struck => pc \in {"mint", "write"} /\ struck' = struck \cup {<<Cluster>>}
    BY <1>1 DEF Mint, Interrupt
  <2>2. struck' # struck => <<Cluster>> \in Parts
    BY <2>1, StruckParts DEF Clusters, Parts
  <2> QED
    BY <1>0, <2>1, <2>2
<1>2. CASE GenerateLeaf
  <2>1. pc = "leaf" /\ struck' \in {struck, struck \cup {<<Account, Cluster>>}}
    BY <1>2 DEF GenerateLeaf
  <2>2. <<Account, Cluster>> \in Parts
    BY <2>1, StruckParts DEF Parts
  <2> QED
    BY <1>0, <2>1, <2>2
<1>3. CASE ~Mint /\ ~Interrupt /\ ~GenerateLeaf
  <2>1. struck' = struck
    BY <1>3 DEF Next, Script, vars, ParseArgs, GenerateCluster, MakeSecretDir, WriteSecretValue,
       Written, RemoveCscSeed, RemoveCpcPubkey, Rerun
  <2> QED
    BY <1>0, <2>1
<1> QED
  BY <1>1, <1>2, <1>3

\* Every step keeps the types; a file has the directories it is in.
LEMMA TypeStep ==
    ASSUME Shape, [Next]_vars
    PROVE  TypeOK'
<1> USE DEF arguments, environment, Ended, AtWork
<1>000. struck' \subseteq Parts
  BY StruckStep
<1> USE <1>000
<1>0. TypeOK /\ Places /\ Entered /\ Fresh
  BY DEF Shape
<1>00. /\ Len(cpcs) \in Nat /\ Len(extras) \in Nat
       /\ MaxRuns \in Nat /\ MaxInterrupts \in Nat /\ MaxFailures \in Nat
  BY <1>0, Arguments, NkeysAssumption
<1>1. CASE ParseArgs
  BY <1>0, <1>1 DEF ParseArgs, TypeOK
<1>2. CASE GenerateCluster
  <2>1. CASE <<Cluster>> \in dirs
    <3>1. pc = "cluster" /\ Advance /\ UNCHANGED <<tree, dirs, arguments, environment>>
      BY <1>2, <2>1 DEF GenerateCluster
    <3>2. /\ pc' \in {"leaf", "cluster", "complete"}
          /\ at' \in 0..(Len(cpcs) + 1) /\ leaf' \in 0..(Len(extras) + 1)
      BY <1>0, <3>1, AdvanceType
    <3> QED
      BY <1>0, <3>1, <3>2 DEF TypeOK
  <2>2. CASE <<Cluster>> \notin dirs
    BY <1>0, <1>2, <2>2 DEF GenerateCluster, TypeOK
  <2> QED
    BY <2>1, <2>2
<1>3. CASE Mint
  <2>1. PICK unmade \in SUBSET BasePairs :
           /\ Cardinality(unmade) + failures <= MaxFailures
           /\ failures' = failures + Cardinality(unmade)
    BY <1>3 DEF Mint
  <2>2. Cardinality(unmade) \in Nat
    <3>1. IsFiniteSet(BasePairs)
      <4> DEFINE pair == [i \in 1..20 |-> BaseFiles[i][3]]
      <4>1. pair \in Surjection(1..20, BasePairs)
        BY BaseFacts DEF Surjection, BasePairs
      <4> QED
        BY <4>1, FS_NatSurjection DEF ExistsSurjection
    <3> QED
      BY <3>1, FS_Subset, FS_CardinalityType
  <2>3. failures' \in 0..MaxFailures
    BY <1>0, <1>00, <2>1, <2>2 DEF TypeOK
  <2> QED
    BY <1>0, <1>3, <2>3 DEF Mint, TypeOK
<1>4. CASE GenerateLeaf
  <2>1. failures' \in 0..MaxFailures
    BY <1>0, <1>00, <1>4 DEF GenerateLeaf, TypeOK
  <2>2. pc' \in {"unused", "failed", "write"}
    BY <1>4 DEF GenerateLeaf
  <2>3. UNCHANGED <<tree, dirs, cpcs, extras, at, leaf, runs, interrupts>>
    BY <1>4 DEF GenerateLeaf
  <2> QED
    BY <1>0, <2>1, <2>2, <2>3 DEF TypeOK
<1>5. CASE MakeSecretDir
  BY <1>0, <1>5 DEF MakeSecretDir, TypeOK
<1>6. CASE WriteSecretValue
  <2> DEFINE file == Head(queue)[1]
  <2>1. /\ queue # <<>> /\ pc = "write"
        /\ DOMAIN tree' = DOMAIN tree \cup {file} /\ dirs' = dirs
        /\ <<file[1], file[2]>> \in dirs
    BY <1>6 DEF WriteSecretValue, SecretStarted
  <2>2. file[1] \in {CSC, Cluster}
    BY <1>0, <2>1, LenProperties, EmptySeq DEF Fresh
  <2>3. <<file[1]>> \in dirs
    <3>1. CASE at >= 1
      BY <1>0, <2>1, <2>2, <3>1 DEF Entered
    <3>2. CASE ~(at >= 1)
      BY <1>0, <2>1, <2>2, <3>2, Arguments DEF Entered, Cluster
    <3> QED
      BY <3>1, <3>2
  <2> QED
    BY <1>0, <1>6, <2>1, <2>3 DEF WriteSecretValue, TypeOK
<1>7. CASE Written
  <2>1. CASE leaf = 0
    <3>1. pc = "write" /\ Advance /\ UNCHANGED <<tree, dirs, arguments, environment>>
      BY <1>7, <2>1 DEF Written
    <3>2. /\ pc' \in {"leaf", "cluster", "complete"}
          /\ at' \in 0..(Len(cpcs) + 1) /\ leaf' \in 0..(Len(extras) + 1)
      BY <1>0, <3>1, AdvanceType
    <3> QED
      BY <1>0, <3>1, <3>2 DEF TypeOK
  <2>2. CASE leaf # 0
    BY <1>0, <1>7, <2>2 DEF Written, TypeOK
  <2> QED
    BY <2>1, <2>2
<1>8. CASE RemoveCscSeed
  BY <1>0, <1>8 DEF RemoveCscSeed, TypeOK, Without
<1>9. CASE RemoveCpcPubkey
  <2>1. /\ pc = "unused2" /\ Advance /\ UNCHANGED <<dirs, arguments, environment>>
        /\ DOMAIN tree' \subseteq DOMAIN tree
    BY <1>9 DEF RemoveCpcPubkey, Without
  <2>2. /\ pc' \in {"leaf", "cluster", "complete"}
        /\ at' \in 0..(Len(cpcs) + 1) /\ leaf' \in 0..(Len(extras) + 1)
    BY <1>0, <2>1, AdvanceType
  <2> QED
    BY <1>0, <2>1, <2>2 DEF TypeOK
<1>10. CASE Interrupt
  <2>1. interrupts' \in 0..MaxInterrupts
    BY <1>0, <1>00, <1>10 DEF Interrupt, TypeOK
  <2> QED
    BY <1>0, <1>10, <2>1 DEF Interrupt, TypeOK
<1>11. CASE Rerun
  <2>1. [cpcs |-> cpcs', extras |-> extras'] \in Invocations
    BY <1>11, NkeysAssumption DEF Rerun
  <2>2. Len(cpcs') \in Nat /\ Len(extras') \in Nat
    BY <2>1, NkeysAssumption, LenProperties
  <2>3. runs' \in 1..MaxRuns \cup {1} /\ at' \in 0..(Len(cpcs') + 1) /\ leaf' \in 0..(Len(extras') + 1)
    BY <1>0, <1>00, <1>11, <2>2 DEF Rerun, TypeOK
  <2> QED
    BY <1>0, <1>11, <2>1, <2>3 DEF Rerun, TypeOK
<1>12. CASE UNCHANGED vars
  BY <1>0, <1>12 DEF vars, TypeOK
<1> QED
  BY <1>1, <1>2, <1>3, <1>4, <1>5, <1>6, <1>7, <1>8, <1>9, <1>10, <1>11, <1>12
     DEF Next, Script

\* The loops go on in order, and enter a directory before they write in it.
LEMMA PlacesStep ==
    ASSUME Shape, [Next]_vars
    PROVE  Places' /\ Entered'
<1> USE DEF arguments, environment, Ended, AtWork, Places, Entered
<1>0. /\ TypeOK /\ Places /\ Entered
      /\ Len(cpcs) \in Nat /\ Len(extras) \in Nat /\ at \in Nat /\ leaf \in Nat
  BY Arguments DEF Shape
<1>00. CASE Advance /\ pc \in AtWork /\ UNCHANGED <<dirs, cpcs, extras>> /\ <<Cluster>> \in dirs
  <2>1. CASE at >= 1 /\ leaf <= Len(extras) /\ pc' = "leaf" /\ leaf' = leaf + 1 /\ at' = at
    BY <1>0, <1>00, <2>1 DEF Cluster
  <2>2. CASE /\ leaf' = 0 /\ at' = at + 1
             /\ \/ pc' = "cluster" /\ at' <= Len(cpcs)
                \/ pc' = "complete" /\ at' = Len(cpcs) + 1
    <3>1. <<CSC>> \in dirs
      BY <1>0, <1>00 DEF Cluster
    <3> QED
      BY <1>0, <1>00, <2>2, <3>1
  <2> QED
    BY <1>0, <1>00, <2>1, <2>2, AdvanceTo
<1>1. CASE ParseArgs
  BY <1>0, <1>1 DEF ParseArgs
<1>2. CASE GenerateCluster
  <2>1. CASE <<Cluster>> \in dirs
    BY <1>00, <1>2, <2>1 DEF GenerateCluster
  <2>2. CASE <<Cluster>> \notin dirs
    BY <1>0, <1>2, <2>2 DEF GenerateCluster, Cluster
  <2> QED
    BY <2>1, <2>2
<1>3. CASE Mint
  BY <1>0, <1>3 DEF Mint, Cluster
<1>4. CASE GenerateLeaf
  BY <1>0, <1>4 DEF GenerateLeaf, Cluster
<1>5. CASE MakeSecretDir
  BY <1>0, <1>5 DEF MakeSecretDir, Cluster
<1>6. CASE WriteSecretValue
  BY <1>0, <1>6 DEF WriteSecretValue, Cluster
<1>7. CASE Written
  <2>1. CASE leaf = 0
    BY <1>0, <1>00, <1>7, <2>1 DEF Written
  <2>2. CASE leaf # 0
    BY <1>0, <1>7, <2>2 DEF Written, Cluster
  <2> QED
    BY <2>1, <2>2
<1>8. CASE RemoveCscSeed
  BY <1>0, <1>8 DEF RemoveCscSeed, Cluster
<1>9. CASE RemoveCpcPubkey
  BY <1>0, <1>00, <1>9 DEF RemoveCpcPubkey
<1>10. CASE Interrupt
  BY <1>10 DEF Interrupt
<1>11. CASE Rerun
  BY <1>11 DEF Rerun
<1>12. CASE UNCHANGED vars
  BY <1>0, <1>12 DEF vars, Cluster
<1> QED
  BY <1>1, <1>2, <1>3, <1>4, <1>5, <1>6, <1>7, <1>8, <1>9, <1>10, <1>11, <1>12
     DEF Next, Script

\* What is about to be written is new.
LEMMA FreshStep ==
    ASSUME Shape, [Next]_vars
    PROVE  Fresh'
<1> USE DEF arguments, environment, Ended, AtWork
<1>0. TypeOK /\ Places /\ Entered /\ Fresh
  BY DEF Shape
<1>1. CASE GenerateCluster
  <2>1. CASE <<Cluster>> \in dirs
    <3>1. pc' \in {"leaf", "cluster", "complete"} /\ queue' = queue
      BY <1>0, <1>1, <2>1, AdvanceType DEF GenerateCluster
    <3> QED
      BY <1>0, <3>1 DEF Fresh
  <2>2. CASE <<Cluster>> \notin dirs
    <3>1. \A f \in DOMAIN tree : f[1] # Cluster
      BY <1>0, <2>2 DEF TypeOK
    <3>2. pc' = "mint" /\ Cluster' = Cluster /\ UNCHANGED <<tree, queue>>
      BY <1>1, <2>2 DEF GenerateCluster, Cluster
    <3> QED
      BY <1>0, <3>1, <3>2 DEF Fresh
  <2> QED
    BY <2>1, <2>2
<1>2. CASE Mint
  <2>1. PICK unmade : queue' = BaseWrites(Cluster, unmade)
    BY <1>2 DEF Mint
  <2>2. pc = "mint" /\ pc' = "write" /\ tree' = tree /\ Cluster' = Cluster
    BY <1>2 DEF Mint, Cluster
  <2>3. /\ \E S : queue' \in Seq(S)
        /\ Len(queue') = 20
        /\ \A i, j \in 1..20 : i < j => queue'[i][1] # queue'[j][1]
    <3>1. (\E S : queue' \in Seq(S)) /\ Len(queue') = 20
      BY <2>1, BaseQueue
    <3>2. \A i, j \in 1..20 : i < j => queue'[i][1] # queue'[j][1]
      BY <2>1, BaseDistinct
    <3> QED
      BY <3>1, <3>2
  <2>4. \A i \in 1..20 : queue'[i][1][1] = Cluster
    <3> SUFFICES ASSUME NEW i \in 1..20 PROVE queue'[i][1][1] = Cluster
      OBVIOUS
    <3>1. queue'[i][1] = <<Cluster, BaseFiles[i][1], BaseFiles[i][2]>>
      BY <2>1, BaseTarget
    <3> QED
      BY <3>1
  <2> QED
    BY <1>0, <2>2, <2>3, <2>4 DEF Fresh
<1>3. CASE GenerateLeaf
  <2>1. UNCHANGED <<tree, at, leaf, cpcs, extras>> /\ Cluster' = Cluster /\ Account' = Account
    BY <1>3 DEF GenerateLeaf, Cluster, Account
  <2>2. CASE pc' # "write"
    <3>1. queue' = queue /\ pc' # "mint"
      BY <1>3, <2>2 DEF GenerateLeaf
    <3> QED
      BY <1>0, <2>2, <3>1 DEF Fresh
  <2>3. CASE pc' = "write"
    <3>1. PICK made \in BOOLEAN : queue' = LeafWrites(Account, Cluster, made)
      BY <1>3, <2>3 DEF GenerateLeaf
    <3>2. /\ ~SecretStarted(CSC, CscSecret(Account, Cluster))
          /\ ~SecretStarted(Cluster, CpcSecret(Account))
      BY <1>3, <2>3 DEF GenerateLeaf
    <3>3. /\ CscFile(Account, Cluster, "pubkey") \notin DOMAIN tree
          /\ CpcFile(Account, Cluster, "seed") \notin DOMAIN tree
      BY <1>0, <3>2 DEF TypeOK, SecretStarted, CscFile, CpcFile
    <3>4. Cluster # CSC
      BY <1>0, <1>3, Arguments, NkeysAssumption DEF GenerateLeaf, Places
    <3>5. /\ \E S : queue' \in Seq(S)
          /\ Len(queue') = 2
          /\ queue'[1][1] = CscFile(Account, Cluster, "pubkey")
          /\ queue'[2][1] = CpcFile(Account, Cluster, "seed")
          /\ queue'[1][1] # queue'[2][1]
      BY <3>1, <3>4, LeafQueue
    <3>6. queue'[1][1][1] = CSC /\ queue'[2][1][1] = Cluster
      BY <3>5 DEF CscFile, CpcFile
    <3> QED
      BY <2>1, <2>3, <3>3, <3>5, <3>6 DEF Fresh
  <2> QED
    BY <2>2, <2>3
<1>4. CASE WriteSecretValue
  <2> DEFINE file == Head(queue)[1]
  <2>1. /\ queue # <<>> /\ pc = "write" /\ pc' = pc /\ Cluster' = Cluster
        /\ DOMAIN tree' = DOMAIN tree \cup {file}
        /\ queue' = Tail(queue)
    BY <1>4 DEF WriteSecretValue, Cluster
  <2>2. PICK S : queue \in Seq(S)
    BY <1>0 DEF Fresh
  <2>3. /\ Len(queue) \in Nat \ {0} /\ Head(queue) = queue[1]
        /\ queue' \in Seq(S) /\ Len(queue') = Len(queue) - 1
        /\ \A i \in 1..Len(queue') : queue'[i] = queue[i + 1]
    BY <2>1, <2>2, LenProperties, EmptySeq, HeadTailProperties
  <2>4. /\ \A i \in 1..Len(queue) : queue[i][1] \notin DOMAIN tree /\ queue[i][1][1] \in {CSC, Cluster}
        /\ \A i, j \in 1..Len(queue) : i < j => queue[i][1] # queue[j][1]
    BY <1>0, <2>1 DEF Fresh
  <2>5. \A i \in 1..Len(queue') : /\ queue'[i][1] \notin DOMAIN tree'
                                  /\ queue'[i][1][1] \in {CSC, Cluster'}
    BY <2>1, <2>3, <2>4
  <2>6. \A i, j \in 1..Len(queue') : i < j => queue'[i][1] # queue'[j][1]
    BY <2>3, <2>4
  <2> QED
    BY <2>1, <2>3, <2>5, <2>6 DEF Fresh
<1>5. CASE Written \/ RemoveCpcPubkey
  <2>1. pc' \in {"leaf", "cluster", "complete", "unused"} /\ queue' = queue
    BY <1>0, <1>5, AdvanceType DEF Written, RemoveCpcPubkey
  <2> QED
    BY <1>0, <2>1 DEF Fresh
<1>6. CASE ParseArgs \/ RemoveCscSeed \/ Interrupt
  <2>1. pc' \notin {"mint", "write"} /\ queue' = queue
    BY <1>6 DEF ParseArgs, RemoveCscSeed, Interrupt
  <2> QED
    BY <1>0, <2>1 DEF Fresh
<1>7. CASE MakeSecretDir \/ UNCHANGED vars
  <2>1. UNCHANGED <<pc, tree, queue, at, cpcs>> /\ Cluster' = Cluster
    BY <1>7 DEF MakeSecretDir, vars, Cluster
  <2> QED
    BY <1>0, <2>1 DEF Fresh
<1>8. CASE Rerun
  BY <1>8, EmptySeq DEF Rerun, Fresh
<1> QED
  BY <1>1, <1>2, <1>3, <1>4, <1>5, <1>6, <1>7, <1>8 DEF Next, Script

\* Shape is inductive.
LEMMA ShapeStep == Shape /\ [Next]_vars => Shape'
BY TypeStep, PlacesStep, FreshStep DEF Shape

-----------------------------------------------------------------------------
(* What files hold stays.                                                  *)

\* The file that is written next is a new one.
LEMMA WritesNew ==
    ASSUME Shape, WriteSecretValue
    PROVE  /\ pc = "write" /\ pc' = pc
           /\ Len(queue) \in Nat \ {0}
           /\ queue[1][1] \notin DOMAIN tree
           /\ DOMAIN tree' = DOMAIN tree \cup {queue[1][1]}
           /\ \A f \in DOMAIN tree : tree'[f] = tree[f]
           /\ tree'[queue[1][1]] = queue[1][2]
           /\ Len(queue') = Len(queue) - 1
           /\ \A i \in 1..Len(queue') : queue'[i] = queue[i + 1]
<1>1. pc = "write" /\ pc' = pc /\ queue # <<>> /\ queue' = Tail(queue)
  BY DEF WriteSecretValue
<1>2. PICK S : queue \in Seq(S)
  BY DEF Shape, Fresh
<1>3. /\ Len(queue) \in Nat \ {0} /\ Head(queue) = queue[1]
      /\ Len(queue') = Len(queue) - 1
      /\ \A i \in 1..Len(queue') : queue'[i] = queue[i + 1]
  BY <1>1, <1>2, LenProperties, EmptySeq, HeadTailProperties
<1>4. queue[1][1] \notin DOMAIN tree
  BY <1>1, <1>3 DEF Shape, Fresh
<1>5. tree' = [f \in DOMAIN tree \cup {queue[1][1]} |->
                  IF f = queue[1][1] THEN queue[1][2] ELSE tree[f]]
  BY <1>3 DEF WriteSecretValue
<1> QED
  BY <1>1, <1>3, <1>4, <1>5

\* Only a step that writes or removes changes the tree.
LEMMA OnlyWrites ==
    ASSUME [Next]_vars, ~WriteSecretValue, ~RemoveCscSeed, ~RemoveCpcPubkey
    PROVE  tree' = tree
BY DEF Next, Script, vars, ParseArgs, GenerateCluster, Mint, GenerateLeaf, MakeSecretDir,
       Written, Interrupt, Rerun

\* The leaf at hand.
LEMMA LeafAtHand ==
    ASSUME Shape, pc \in {"leaf", "unused", "unused2"} \/ (pc = "write" /\ leaf >= 1)
    PROVE  /\ Cluster \in CpcIds /\ Cluster # CSC /\ Account \in Accounts \cup {CSC}
           /\ at \in 1..Len(cpcs) /\ leaf \in 1..(Len(extras) + 1)
<1>1. at \in 1..Len(cpcs) /\ leaf \in 1..(Len(extras) + 1)
  BY Arguments DEF Shape, Places, AtWork, TypeOK
<1> QED
  BY <1>1, Arguments, NkeysAssumption DEF Shape

\* A file keeps what it holds, unless it is a half that is not used.
LEMMA TreeStep ==
    ASSUME Shape, [Next]_vars, NEW f \in DOMAIN tree
    PROVE  \/ f \in DOMAIN tree' /\ tree'[f] = tree[f]
           \/ Unused(f) /\ f \notin DOMAIN tree'
<1>1. CASE WriteSecretValue
  BY <1>1, WritesNew
<1>2. CASE RemoveCscSeed
  <2>1. /\ Cluster \in CpcIds /\ Account \in Accounts \cup {CSC}
    BY <1>2, LeafAtHand DEF RemoveCscSeed
  <2>2. Unused(CscFile(Account, Cluster, "seed"))
    BY <2>1 DEF Unused
  <2>3. tree' = [g \in DOMAIN tree \ {CscFile(Account, Cluster, "seed")} |-> tree[g]]
    BY <1>2 DEF RemoveCscSeed, Without
  <2> QED
    BY <2>2, <2>3
<1>3. CASE RemoveCpcPubkey
  <2>1. /\ Cluster \in CpcIds /\ Account \in Accounts \cup {CSC}
    BY <1>3, LeafAtHand DEF RemoveCpcPubkey
  <2>2. Unused(CpcFile(Account, Cluster, "pubkey"))
    BY <2>1 DEF Unused
  <2>3. tree' = [g \in DOMAIN tree \ {CpcFile(Account, Cluster, "pubkey")} |-> tree[g]]
    BY <1>3 DEF RemoveCpcPubkey, Without
  <2> QED
    BY <2>2, <2>3
<1> QED
  BY <1>1, <1>2, <1>3, OnlyWrites

-----------------------------------------------------------------------------
(* The leaves.                                                             *)

\* The halves of a leaf's pair agree.
AgreeAt(account, cpc) ==
    LET pubkey == CscFile(account, cpc, "pubkey")
        seed == CpcFile(account, cpc, "seed")
    IN  /\ {pubkey, seed} \subseteq DOMAIN tree
        /\ \/ tree[pubkey] = Blank /\ tree[seed] = Blank
           \/ /\ tree[pubkey] # Blank /\ tree[seed] # Blank
              /\ tree[pubkey] = PubkeyOf(tree[seed])

\* The account of the k-th leaf of a CPC.
AccountOf(k) == IF k = 1 THEN CSC ELSE extras[k - 1]

\* Main is through with a leaf, and has yet to remove what is not used at most.
Behind(i, k) ==
    /\ pc \in AtWork \cup {"complete"}
    /\ \/ i < at
       \/ i = at /\ k < leaf
       \/ i = at /\ k = leaf /\ pc \in {"unused", "unused2"}

\* The leaves that are behind agree.
Done ==
    \A i \in 1..Len(cpcs), k \in 1..(Len(extras) + 1) :
        Behind(i, k) => AgreeAt(AccountOf(k), cpcs[i])

\* A pair is written in two steps.
Halfway ==
    pc = "write" /\ leaf >= 1 =>
        \E made \in BOOLEAN :
            LET pubkey == CscFile(Account, Cluster, "pubkey")
                seed == CpcFile(Account, Cluster, "seed")
                half(h) == IF made THEN Half(h, runs, Cluster, CpcSecret(Account)) ELSE Blank
            IN  \/ /\ Len(queue) = 2
                   /\ queue[1][1] = pubkey /\ queue[1][2] = half("pubkey")
                   /\ queue[2][1] = seed /\ queue[2][2] = half("seed")
                \/ /\ Len(queue) = 1
                   /\ pubkey \in DOMAIN tree /\ tree[pubkey] = half("pubkey")
                   /\ queue[1][1] = seed /\ queue[1][2] = half("seed")
                \/ /\ Len(queue) = 0
                   /\ AgreeAt(Account, Cluster)

\* A leaf whose halves agree stays so: neither is among what is not used.
LEMMA AgreeStays ==
    ASSUME Shape, [Next]_vars, NEW a, NEW c \in CpcIds, AgreeAt(a, c)
    PROVE  AgreeAt(a, c)'
<1> DEFINE pubkey == CscFile(a, c, "pubkey")
           seed == CpcFile(a, c, "seed")
<1>1. ~Unused(pubkey) /\ ~Unused(seed)
  BY NkeysAssumption DEF Unused, CscFile, CpcFile
<1>2. /\ pubkey \in DOMAIN tree' /\ tree'[pubkey] = tree[pubkey]
      /\ seed \in DOMAIN tree' /\ tree'[seed] = tree[seed]
  BY <1>1, TreeStep DEF AgreeAt
<1> QED
  BY <1>2 DEF AgreeAt

\* What a leaf's pair is written from.
LEMMA LeafValues ==
    ASSUME NEW a, NEW c, NEW made
    PROVE  /\ LeafWrites(a, c, made)[1][2] =
                 IF made THEN Half("pubkey", runs, c, CpcSecret(a)) ELSE Blank
           /\ LeafWrites(a, c, made)[2][2] =
                 IF made THEN Half("seed", runs, c, CpcSecret(a)) ELSE Blank
BY DEF LeafWrites

\* A write takes the pair at hand one step further.
LEMMA HalfwayStep ==
    ASSUME Shape, Halfway, [Next]_vars
    PROVE  Halfway'
<1> USE DEF arguments, environment, Ended
<1>1. CASE GenerateLeaf
  <2>1. SUFFICES ASSUME pc' = "write" PROVE Halfway'
    BY DEF Halfway
  <2>2. /\ Cluster' = Cluster /\ Account' = Account /\ runs' = runs /\ Cluster # CSC
    BY <1>1, LeafAtHand DEF GenerateLeaf, Cluster, Account
  <2>3. PICK made \in BOOLEAN : queue' = LeafWrites(Account, Cluster, made)
    BY <1>1, <2>1 DEF GenerateLeaf
  <2>4. /\ Len(queue') = 2
        /\ queue'[1][1] = CscFile(Account, Cluster, "pubkey")
        /\ queue'[2][1] = CpcFile(Account, Cluster, "seed")
    BY <2>2, <2>3, LeafQueue
  <2>5. /\ queue'[1][2] = IF made THEN Half("pubkey", runs, Cluster, CpcSecret(Account)) ELSE Blank
        /\ queue'[2][2] = IF made THEN Half("seed", runs, Cluster, CpcSecret(Account)) ELSE Blank
    BY <2>3, LeafValues
  <2> QED
    BY <2>2, <2>4, <2>5 DEF Halfway
<1>2. CASE WriteSecretValue
  <2>1. SUFFICES ASSUME leaf' >= 1 PROVE Halfway'
    BY DEF Halfway
  <2>2. /\ Cluster' = Cluster /\ Account' = Account /\ runs' = runs /\ leaf' = leaf
    BY <1>2 DEF WriteSecretValue, Cluster, Account
  <2> DEFINE pubkey == CscFile(Account, Cluster, "pubkey")
             seed == CpcFile(Account, Cluster, "seed")
  <2>3. PICK made \in BOOLEAN :
            \/ /\ Len(queue) = 2
               /\ queue[1][1] = pubkey
               /\ queue[1][2] = IF made THEN Half("pubkey", runs, Cluster, CpcSecret(Account)) ELSE Blank
               /\ queue[2][1] = seed
               /\ queue[2][2] = IF made THEN Half("seed", runs, Cluster, CpcSecret(Account)) ELSE Blank
            \/ /\ Len(queue) = 1
               /\ pubkey \in DOMAIN tree
               /\ tree[pubkey] = IF made THEN Half("pubkey", runs, Cluster, CpcSecret(Account)) ELSE Blank
               /\ queue[1][1] = seed
               /\ queue[1][2] = IF made THEN Half("seed", runs, Cluster, CpcSecret(Account)) ELSE Blank
            \/ Len(queue) = 0
    BY <1>2, <2>1, <2>2, WritesNew DEF Halfway
  <2>4. CASE Len(queue) = 2
    <3>1. /\ Len(queue') = 1 /\ queue'[1] = queue[2]
          /\ pubkey \in DOMAIN tree' /\ tree'[pubkey] = queue[1][2]
      BY <1>2, <2>3, <2>4, WritesNew
    <3> QED
      BY <2>2, <2>3, <2>4, <3>1 DEF Halfway
  <2>5. CASE Len(queue) = 1
    <3>1. /\ Len(queue') = 0
          /\ pubkey \in DOMAIN tree' /\ tree'[pubkey] = tree[pubkey]
          /\ seed \in DOMAIN tree' /\ tree'[seed] = queue[1][2]
      BY <1>2, <2>3, <2>5, WritesNew
    <3>2. AgreeAt(Account, Cluster)'
      BY <2>2, <2>3, <2>5, <3>1 DEF AgreeAt, Half, Blank, PubkeyOf
    <3> QED
      BY <2>2, <3>1, <3>2 DEF Halfway
  <2> QED
    BY <1>2, <2>3, <2>4, <2>5, WritesNew
<1>3. CASE MakeSecretDir \/ UNCHANGED vars
  BY <1>3 DEF MakeSecretDir, vars, Halfway, Cluster, Account, AgreeAt
<1>4. CASE Mint
  BY <1>4 DEF Mint, Halfway, Shape, Places
<1>5. CASE GenerateCluster \/ Written \/ RemoveCpcPubkey
  <2>1. pc' # "write"
    BY <1>5, AdvanceType DEF GenerateCluster, Written, RemoveCpcPubkey, Shape, AtWork
  <2> QED
    BY <2>1 DEF Halfway
<1>6. CASE ParseArgs \/ RemoveCscSeed \/ Interrupt \/ Rerun
  BY <1>6 DEF ParseArgs, RemoveCscSeed, Interrupt, Rerun, Halfway
<1> QED
  BY <1>1, <1>2, <1>3, <1>4, <1>5, <1>6 DEF Next, Script

\* Advance leaves no leaf behind that was not behind already.
LEMMA AdvanceBehind ==
    ASSUME Shape, Advance, leaf = 0 \/ pc = "unused2", pc \in AtWork,
           NEW i \in 1..Len(cpcs), NEW k \in 1..(Len(extras) + 1), Behind(i, k)'
    PROVE  Behind(i, k)
<1>1. Len(cpcs) \in Nat /\ Len(extras) \in Nat /\ at \in Nat /\ leaf \in Nat
  BY Arguments DEF Shape
<1>2. pc' \in {"leaf", "cluster", "complete"}
  BY AdvanceType DEF Shape
<1>3. i < at' \/ (i = at' /\ k < leaf')
  BY <1>2 DEF Behind
<1>4. \/ at >= 1 /\ leaf' = leaf + 1 /\ at' = at
      \/ (at = 0 \/ leaf = Len(extras) + 1) /\ leaf' = 0 /\ at' = at + 1
  BY AdvanceTo DEF Shape
<1> QED
  BY <1>1, <1>3, <1>4 DEF Behind

\* A leaf is behind when its pair was found to match or has been written.
LEMMA DoneStep ==
    ASSUME Shape, Halfway, Done, [Next]_vars
    PROVE  Done'
<1> USE DEF arguments, environment, Ended
<1>0. Len(cpcs) \in Nat /\ Len(extras) \in Nat /\ at \in Nat /\ leaf \in Nat
  BY Arguments DEF Shape
<1>1. CASE Rerun
  BY <1>1 DEF Rerun, Done, Behind, AtWork
<1>2. CASE ~Rerun
  <2>1. UNCHANGED <<cpcs, extras>>
    BY <1>2 DEF Next, Script, vars, ParseArgs, GenerateCluster, Mint, GenerateLeaf, MakeSecretDir,
       WriteSecretValue, Written, RemoveCscSeed, RemoveCpcPubkey, Interrupt
  <2> SUFFICES ASSUME NEW i \in 1..Len(cpcs), NEW k \in 1..(Len(extras) + 1), Behind(i, k)'
               PROVE  AgreeAt(AccountOf(k), cpcs[i])'
    BY <2>1 DEF Done
  <2>2. AccountOf(k)' = AccountOf(k) /\ cpcs'[i] = cpcs[i] /\ cpcs[i] \in CpcIds
    BY <2>1, Arguments, ElementOfSeq DEF AccountOf, Shape
  <2>3. AgreeAt(AccountOf(k), cpcs[i]) => AgreeAt(AccountOf(k), cpcs[i])'
    BY <2>2, AgreeStays
  <2>4. Behind(i, k) => AgreeAt(AccountOf(k), cpcs[i])'
    BY <2>3 DEF Done
  <2>5. i = at /\ k = leaf => AccountOf(k) = Account /\ cpcs[i] = Cluster
    BY <1>0 DEF AccountOf, Account, Cluster
  <2>6. CASE ParseArgs
    BY <1>0, <2>6 DEF ParseArgs, Behind, Shape, Places
  <2>7. CASE GenerateCluster
    <3>1. CASE Advance
      BY <2>4, <2>7, <3>1, AdvanceBehind DEF GenerateCluster, Shape, Places, AtWork
    <3>2. CASE pc' = "mint" /\ UNCHANGED <<at, leaf>>
      BY <2>4, <2>7, <3>2 DEF GenerateCluster, Behind, AtWork
    <3> QED
      BY <2>7, <3>1, <3>2 DEF GenerateCluster
  <2>8. CASE Mint \/ MakeSecretDir \/ WriteSecretValue \/ RemoveCscSeed
    BY <2>4, <2>8 DEF Mint, MakeSecretDir, WriteSecretValue, RemoveCscSeed, Behind, AtWork
  <2>9. CASE GenerateLeaf
    <3>1. pc = "leaf" /\ UNCHANGED <<at, leaf>>
      BY <2>9 DEF GenerateLeaf
    <3>2. CASE pc' = "unused"
      <4>1. AgreeAt(Account, Cluster)
        BY <2>9, <3>2 DEF GenerateLeaf, SecretKeyExists, LeafOutputsMatch, AgreeAt
      <4> QED
        BY <2>3, <2>4, <2>5, <3>1, <4>1 DEF Behind, AtWork
    <3>3. CASE pc' # "unused"
      <4>1. pc' # "unused2"
        BY <2>9 DEF GenerateLeaf
      <4> QED
        BY <2>4, <3>1, <3>3, <4>1 DEF Behind, AtWork
    <3> QED
      BY <3>2, <3>3
  <2>10. CASE Written
    <3>1. pc = "write" /\ pc \in AtWork
      BY <2>10 DEF Written, AtWork
    <3>2. CASE leaf = 0
      BY <2>4, <2>10, <3>1, <3>2, AdvanceBehind DEF Written
    <3>3. CASE leaf # 0
      <4>1. AgreeAt(Account, Cluster)
        BY <1>0, <2>10, <3>3, EmptySeq DEF Written, Halfway
      <4>2. pc' = "unused" /\ UNCHANGED <<at, leaf>>
        BY <2>10, <3>3 DEF Written
      <4> QED
        BY <2>3, <2>4, <2>5, <3>1, <4>1, <4>2 DEF Behind
    <3> QED
      BY <3>2, <3>3
  <2>11. CASE RemoveCpcPubkey
    BY <2>4, <2>11, AdvanceBehind DEF RemoveCpcPubkey, AtWork
  <2>12. CASE Interrupt
    BY <2>12 DEF Interrupt, Behind, AtWork
  <2>13. CASE UNCHANGED vars
    BY <2>4, <2>13 DEF vars, Behind
  <2> QED
    BY <1>2, <2>6, <2>7, <2>8, <2>9, <2>10, <2>11, <2>12, <2>13 DEF Next, Script
<1> QED
  BY <1>1, <1>2

-----------------------------------------------------------------------------
(* The clusters.                                                           *)

\* The k-th file of a cluster, and the half a run writes to it.
BaseFile(c, k) == <<c, BaseFiles[k][1], BaseFiles[k][2]>>
BaseHalf(c, k, run) == Half(HalfIn(BaseFiles[k][2]), run, c, BaseFiles[k][3])

\* The files of a cluster are of one run.
OneBatch ==
    \A c \in Clusters : \E run \in Nat : \A k \in 1..20 :
        BaseFile(c, k) \in DOMAIN tree => tree[BaseFile(c, k)] \in {Blank, BaseHalf(c, k, run)}

\* Those that are being written are of this run.
ThisBatch ==
    pc = "write" /\ leaf = 0 =>
        /\ \A i \in 1..Len(queue) : \E k \in 1..20 :
              queue[i][1] = BaseFile(Cluster, k) /\ queue[i][2] \in {Blank, BaseHalf(Cluster, k, runs)}
        /\ \A k \in 1..20 : BaseFile(Cluster, k) \in DOMAIN tree =>
              tree[BaseFile(Cluster, k)] \in {Blank, BaseHalf(Cluster, k, runs)}

\* What is in the tree was there or has been written.
LEMMA TreeBack ==
    ASSUME Shape, [Next]_vars, NEW f \in DOMAIN tree'
    PROVE  \/ f \in DOMAIN tree /\ tree'[f] = tree[f]
           \/ WriteSecretValue /\ f = queue[1][1] /\ tree'[f] = queue[1][2]
<1>1. CASE WriteSecretValue
  BY <1>1, WritesNew
<1>2. CASE RemoveCscSeed
  BY <1>2 DEF RemoveCscSeed, Without
<1>3. CASE RemoveCpcPubkey
  BY <1>3 DEF RemoveCpcPubkey, Without
<1> QED
  BY <1>1, <1>2, <1>3, OnlyWrites

\* A cluster's file tells its cluster and its place, and is not a leaf's.
LEMMA BaseFileFacts ==
    /\ \A c, d : \A k, l \in 1..20 : BaseFile(c, k) = BaseFile(d, l) => c = d /\ k = l
    /\ \A c : \A k \in 1..20 : \A a, d, h :
          BaseFile(c, k) # CscFile(a, d, h) /\ BaseFile(c, k) # CpcFile(a, d, h)
    /\ \A c : \A k \in 1..20 : ~Unused(BaseFile(c, k)) /\ BaseFile(c, k)[1] = c
<1>1. \A c, d : \A k, l \in 1..20 : BaseFile(c, k) = BaseFile(d, l) => c = d /\ k = l
  BY BaseFacts DEF BaseFile
<1>2. \A c : \A k \in 1..20 : \A a, d, h :
          BaseFile(c, k) # CscFile(a, d, h) /\ BaseFile(c, k) # CpcFile(a, d, h)
  BY BaseFacts DEF BaseFile, CscFile, CpcFile
<1>3. \A c : \A k \in 1..20 : ~Unused(BaseFile(c, k))
  BY <1>2 DEF Unused
<1> QED
  BY <1>1, <1>2, <1>3 DEF BaseFile

\* Nothing of the cluster is there when its keys are generated.
LEMMA ThisBatchStep ==
    ASSUME Shape, ThisBatch, [Next]_vars
    PROVE  ThisBatch'
<1> USE DEF arguments, environment, Ended
<1>1. CASE Mint
  <2>1. PICK unmade : queue' = BaseWrites(Cluster, unmade)
    BY <1>1 DEF Mint
  <2>2. pc = "mint" /\ UNCHANGED <<tree, runs>> /\ Cluster' = Cluster /\ Len(queue') = 20
    BY <1>1, <2>1, BaseQueue DEF Mint, Cluster
  <2>3. \A k \in 1..20 : BaseFile(Cluster, k) \notin DOMAIN tree
    BY <2>2, BaseFileFacts DEF Shape, Fresh
  <2>4. \A k \in 1..20 : queue'[k][1] = BaseFile(Cluster, k)
    BY <2>1, BaseTarget DEF BaseFile
  <2>5. \A k \in 1..20 : queue'[k][2] \in {Blank, BaseHalf(Cluster, k, runs)}
    BY <2>1, BaseValue DEF BaseHalf
  <2> QED
    BY <2>2, <2>3, <2>4, <2>5 DEF ThisBatch
<1>2. CASE WriteSecretValue
  <2>1. SUFFICES ASSUME leaf' = 0 PROVE ThisBatch'
    BY DEF ThisBatch
  <2>2. pc = "write" /\ leaf = 0 /\ UNCHANGED runs /\ Cluster' = Cluster
    BY <1>2, <2>1 DEF WriteSecretValue, Cluster
  <2>3. \A i \in 1..Len(queue') : i + 1 \in 1..Len(queue) /\ queue'[i] = queue[i + 1]
    BY <1>2, WritesNew
  <2>4. ASSUME NEW i \in 1..Len(queue')
        PROVE  \E k \in 1..20 : /\ queue'[i][1] = BaseFile(Cluster, k)
                                 /\ queue'[i][2] \in {Blank, BaseHalf(Cluster, k, runs)}
    <3>1. PICK k \in 1..20 : /\ queue[i + 1][1] = BaseFile(Cluster, k)
                             /\ queue[i + 1][2] \in {Blank, BaseHalf(Cluster, k, runs)}
      BY <2>2, <2>3 DEF ThisBatch
    <3>2. queue'[i] = queue[i + 1]
      BY <2>3
    <3> QED
      BY <3>1, <3>2
  <2>5. ASSUME NEW k \in 1..20, BaseFile(Cluster, k) \in DOMAIN tree'
        PROVE  tree'[BaseFile(Cluster, k)] \in {Blank, BaseHalf(Cluster, k, runs)}
    <3>1. CASE BaseFile(Cluster, k) \in DOMAIN tree
      BY <1>2, <2>2, <3>1, WritesNew DEF ThisBatch
    <3>2. CASE BaseFile(Cluster, k) \notin DOMAIN tree
      <4>1. BaseFile(Cluster, k) = queue[1][1] /\ tree'[BaseFile(Cluster, k)] = queue[1][2]
        BY <1>2, <2>5, <3>2, WritesNew
      <4>2. 1 \in 1..Len(queue)
        BY <1>2, WritesNew
      <4>3. PICK l \in 1..20 : /\ queue[1][1] = BaseFile(Cluster, l)
                               /\ queue[1][2] \in {Blank, BaseHalf(Cluster, l, runs)}
        BY <2>2, <4>2 DEF ThisBatch
      <4>4. k = l
        BY <4>1, <4>3, BaseFileFacts
      <4> QED
        BY <4>1, <4>3, <4>4
    <3> QED
      BY <3>1, <3>2
  <2> QED
    BY <2>2, <2>4, <2>5 DEF ThisBatch
<1>3. CASE MakeSecretDir \/ UNCHANGED vars
  BY <1>3 DEF MakeSecretDir, vars, ThisBatch, Cluster
<1>4. CASE GenerateLeaf
  BY <1>4 DEF GenerateLeaf, ThisBatch, Shape, Places
<1>5. CASE GenerateCluster \/ Written \/ RemoveCpcPubkey
  <2>1. pc' # "write"
    BY <1>5, AdvanceType DEF GenerateCluster, Written, RemoveCpcPubkey, Shape, AtWork
  <2> QED
    BY <2>1 DEF ThisBatch
<1>6. CASE ParseArgs \/ RemoveCscSeed \/ Interrupt \/ Rerun
  BY <1>6 DEF ParseArgs, RemoveCscSeed, Interrupt, Rerun, ThisBatch
<1> QED
  BY <1>1, <1>2, <1>3, <1>4, <1>5, <1>6 DEF Next, Script

\* While a leaf is written, no file of a cluster is.
LEMMA LeafNotBase ==
    ASSUME Shape, Halfway, WriteSecretValue, leaf # 0, NEW c, NEW k \in 1..20
    PROVE  BaseFile(c, k) # queue[1][1]
<1>1. leaf >= 1 /\ pc = "write" /\ Len(queue) # 0
  BY WritesNew, Arguments DEF Shape
<1>2. \/ queue[1][1] = CscFile(Account, Cluster, "pubkey")
      \/ queue[1][1] = CpcFile(Account, Cluster, "seed")
  BY <1>1 DEF Halfway
<1> QED
  BY <1>2, BaseFileFacts

\* Only the cluster at hand gets files, all of this run.
LEMMA OneBatchStep ==
    ASSUME Shape, Halfway, ThisBatch, OneBatch, [Next]_vars
    PROVE  OneBatch'
<1> SUFFICES ASSUME NEW c \in Clusters
             PROVE  \E run \in Nat : \A k \in 1..20 :
                        BaseFile(c, k) \in DOMAIN tree' =>
                            tree'[BaseFile(c, k)] \in {Blank, BaseHalf(c, k, run)}
  BY DEF OneBatch
<1>1. PICK run \in Nat : \A k \in 1..20 :
          BaseFile(c, k) \in DOMAIN tree => tree[BaseFile(c, k)] \in {Blank, BaseHalf(c, k, run)}
  BY DEF OneBatch
<1>2. CASE \A k \in 1..20 : ~(WriteSecretValue /\ BaseFile(c, k) = queue[1][1])
  BY <1>1, <1>2, TreeBack
<1>3. CASE \E k \in 1..20 : WriteSecretValue /\ BaseFile(c, k) = queue[1][1]
  <2>1. WriteSecretValue /\ leaf = 0
    BY <1>3, LeafNotBase
  <2>2. 1 \in 1..Len(queue) /\ pc = "write" /\ pc' = "write" /\ leaf' = 0
    BY <2>1, WritesNew DEF WriteSecretValue
  <2>3. c = Cluster
    <3>1. PICK k \in 1..20 : BaseFile(c, k) = queue[1][1]
      BY <1>3
    <3>2. PICK l \in 1..20 : queue[1][1] = BaseFile(Cluster, l)
      BY <2>1, <2>2 DEF ThisBatch
    <3>3. BaseFile(c, k) = BaseFile(Cluster, l)
      BY <3>1, <3>2
    <3> QED
      BY <3>3, BaseFileFacts
  <2>4. Cluster' = Cluster /\ runs' = runs /\ runs \in Nat
    BY <2>1, NkeysAssumption DEF WriteSecretValue, arguments, environment, Cluster, Shape, TypeOK
  <2>5. ThisBatch'
    BY ThisBatchStep
  <2> QED
    BY <2>2, <2>3, <2>4, <2>5 DEF ThisBatch
<1> QED
  BY <1>2, <1>3

-----------------------------------------------------------------------------
(* Completeness.                                                           *)

\* The files of what was struck.
StruckFile(f) ==
    \/ \E c \in Clusters, k \in 1..20 : <<c>> \in struck /\ f = BaseFile(c, k)
    \/ \E a \in Accounts \cup {CSC}, c \in CpcIds :
          <<a, c>> \in struck /\ f \in {CscFile(a, c, "pubkey"), CpcFile(a, c, "seed")}

\* No other key is empty, in the tree or on its way there.
NoBlank ==
    /\ \A f \in DOMAIN tree : tree[f] = Blank => StruckFile(f)
    /\ pc = "write" => \A i \in 1..Len(queue) : queue[i][2] = Blank => StruckFile(queue[i][1])

\* A file of the cluster at hand is yet to be written.
Pending(c, k) ==
    /\ c = Cluster /\ leaf = 0
    /\ \/ pc = "mint"
       \/ pc = "write" /\ \E i \in 1..Len(queue) : queue[i][1] = BaseFile(c, k)

\* A cluster that is there and was not struck is complete, or is the one being
\* written.
Filled ==
    \A c \in Clusters : <<c>> \in dirs /\ <<c>> \notin struck =>
        \A k \in 1..20 : BaseFile(c, k) \in DOMAIN tree \/ Pending(c, k)

\* The clusters main has passed are there.
Passed ==
    pc \in AtWork \cup {"complete"} =>
        \A i \in 1..Len(cpcs) : i < at => <<cpcs[i]>> \in dirs

\* A half of a pair is not empty.
LEMMA HalfNotBlank ==
    ASSUME NEW h, NEW run, NEW c, NEW s
    PROVE  Half(h, run, c, s) # Blank
BY DEF Half, Blank

\* What is struck stays struck, file by file.
LEMMA StruckFileStays ==
    ASSUME Shape, [Next]_vars, NEW f, StruckFile(f)
    PROVE  StruckFile(f)'
<1>1. struck \subseteq struck'
  BY StruckStep
<1> QED
  BY <1>1 DEF StruckFile

\* An empty value comes from a failure, which strikes what it is for.
LEMMA NoBlankStep ==
    ASSUME Shape, NoBlank, [Next]_vars
    PROVE  NoBlank'
<1> USE DEF arguments, environment, Ended
<1>0. \A f : StruckFile(f) => StruckFile(f)'
  BY StruckFileStays
<1>1. CASE Mint
  <2>1. PICK unmade \in SUBSET BasePairs :
           /\ queue' = BaseWrites(Cluster, unmade)
           /\ struck' = IF unmade = {} THEN struck ELSE struck \cup {<<Cluster>>}
    BY <1>1 DEF Mint
  <2>2. Len(queue') = 20 /\ tree' = tree
    BY <1>1, <2>1, BaseQueue DEF Mint
  <2>3. ASSUME NEW k \in 1..20, queue'[k][2] = Blank PROVE StruckFile(queue[k][1])'
    <3>1. BaseFiles[k][3] \in unmade
      <4>1. SUFFICES ASSUME BaseFiles[k][3] \notin unmade PROVE FALSE
        OBVIOUS
      <4>2. queue'[k][2] = Half(HalfIn(BaseFiles[k][2]), runs, Cluster, BaseFiles[k][3])
        BY <2>1, <4>1, BaseValue
      <4> QED
        BY <2>3, <4>2, HalfNotBlank
    <3>2. <<Cluster>> \in struck'
      BY <2>1, <3>1
    <3>3. queue'[k][1] = BaseFile(Cluster, k)
      BY <2>1, BaseTarget DEF BaseFile
    <3>4. Cluster \in Clusters
      BY <1>1, StruckParts DEF Mint
    <3> QED
      BY <3>2, <3>3, <3>4 DEF StruckFile
  <2>4. \A f \in DOMAIN tree' : tree'[f] = Blank => StruckFile(f)'
    BY <1>0, <2>2 DEF NoBlank
  <2> QED
    BY <2>2, <2>3, <2>4 DEF NoBlank
<1>2. CASE GenerateLeaf
  <2>0. tree' = tree
    BY <1>2 DEF GenerateLeaf
  <2>1. CASE pc' = "write"
    <3>1. PICK made \in BOOLEAN :
             /\ queue' = LeafWrites(Account, Cluster, made)
             /\ struck' = IF made THEN struck ELSE struck \cup {<<Account, Cluster>>}
      BY <1>2, <2>1 DEF GenerateLeaf
    <3>2. /\ Account \in Accounts \cup {CSC} /\ Cluster \in CpcIds
      BY <1>2, StruckParts DEF GenerateLeaf
    <3>3. /\ Len(queue') = 2
          /\ queue'[1][1] = CscFile(Account, Cluster, "pubkey")
          /\ queue'[2][1] = CpcFile(Account, Cluster, "seed")
      BY <1>2, <3>1, LeafAtHand, LeafQueue DEF GenerateLeaf
    <3>4. CASE made
      <4>1. /\ queue'[1][2] = Half("pubkey", runs, Cluster, CpcSecret(Account))
            /\ queue'[2][2] = Half("seed", runs, Cluster, CpcSecret(Account))
        BY <3>1, <3>4, LeafValues
      <4>2. queue'[1][2] # Blank /\ queue'[2][2] # Blank
        BY <4>1, HalfNotBlank
      <4> QED
        BY <1>0, <2>0, <3>3, <4>2 DEF NoBlank
    <3>5. CASE ~made
      <4>1. <<Account, Cluster>> \in struck'
        BY <3>1, <3>5
      <4>2. StruckFile(queue[1][1])' /\ StruckFile(queue[2][1])'
        BY <3>2, <3>3, <4>1 DEF StruckFile
      <4> QED
        BY <1>0, <2>0, <3>3, <4>2 DEF NoBlank
    <3> QED
      BY <3>4, <3>5
  <2>2. CASE pc' # "write"
    BY <1>0, <2>0, <2>2 DEF NoBlank
  <2> QED
    BY <2>1, <2>2
<1>3. CASE WriteSecretValue
  <2>1. \A i \in 1..Len(queue') : i + 1 \in 1..Len(queue) /\ queue'[i] = queue[i + 1]
    BY <1>3, WritesNew
  <2>2. 1 \in 1..Len(queue) /\ pc = "write"
    BY <1>3, WritesNew
  <2>3. \A f \in DOMAIN tree' : tree'[f] = Blank => StruckFile(f)'
    BY <1>0, <1>3, <2>2, WritesNew DEF NoBlank
  <2>4. \A i \in 1..Len(queue') : queue'[i][2] = Blank => StruckFile(queue[i][1])'
    <3> SUFFICES ASSUME NEW i \in 1..Len(queue'), queue'[i][2] = Blank
                 PROVE  StruckFile(queue[i][1])'
      OBVIOUS
    <3>1. queue'[i] = queue[i + 1] /\ i + 1 \in 1..Len(queue)
      BY <2>1
    <3>2. StruckFile(queue[i + 1][1])
      BY <2>2, <3>1 DEF NoBlank
    <3>3. StruckFile(queue[i][1])' <=> \E f : f = queue'[i][1] /\ StruckFile(f)'
      BY DEF StruckFile
    <3> QED
      BY <1>0, <3>1, <3>2, <3>3
  <2> QED
    BY <2>3, <2>4 DEF NoBlank
<1>4. CASE GenerateCluster \/ Written \/ RemoveCpcPubkey
  <2>1. pc' # "write"
    BY <1>4, AdvanceType DEF GenerateCluster, Written, RemoveCpcPubkey, Shape, AtWork
  <2>2. ~WriteSecretValue
    BY <1>4 DEF GenerateCluster, Written, RemoveCpcPubkey, WriteSecretValue
  <2> QED
    BY <1>0, <2>1, <2>2, TreeBack DEF NoBlank
<1>5. CASE MakeSecretDir \/ UNCHANGED vars
  <2>1. UNCHANGED <<tree, pc, queue, struck>>
    BY <1>5 DEF MakeSecretDir, vars
  <2> QED
    BY <2>1 DEF NoBlank, StruckFile
<1>6. CASE ParseArgs \/ Interrupt \/ Rerun
  <2>1. tree' = tree /\ pc' # "write"
    BY <1>6 DEF ParseArgs, Interrupt, Rerun
  <2> QED
    BY <1>0, <2>1 DEF NoBlank
<1>7. CASE RemoveCscSeed
  <2>1. pc' # "write" /\ ~WriteSecretValue
    BY <1>7 DEF RemoveCscSeed, WriteSecretValue
  <2> QED
    BY <1>0, <2>1, TreeBack DEF NoBlank
<1> QED
  BY <1>1, <1>2, <1>3, <1>4, <1>5, <1>6, <1>7 DEF Next, Script

\* A cluster's file, once there, is there.
LEMMA BaseStays ==
    ASSUME Shape, [Next]_vars, NEW c, NEW k \in 1..20, BaseFile(c, k) \in DOMAIN tree
    PROVE  BaseFile(c, k) \in DOMAIN tree'
BY TreeStep, BaseFileFacts

\* A file is yet to be written until it is there.
LEMMA FilledStep ==
    ASSUME Shape, Filled, [Next]_vars
    PROVE  Filled'
<1> USE DEF arguments, environment, Ended
<1> SUFFICES ASSUME NEW c \in Clusters, <<c>> \in dirs', <<c>> \notin struck', NEW k \in 1..20
             PROVE  BaseFile(c, k) \in DOMAIN tree' \/ Pending(c, k)'
  BY DEF Filled
<1>0. <<c>> \notin struck
  BY StruckStep
<1>1. CASE <<c>> \notin dirs
  <2>1. ~MakeSecretDir
    BY <1>1 DEF MakeSecretDir
  <2>2. GenerateCluster
    BY <1>1, <2>1 DEF Next, Script, vars, ParseArgs, Mint, GenerateLeaf, WriteSecretValue, Written,
       RemoveCscSeed, RemoveCpcPubkey, Interrupt, Rerun
  <2>3. c = Cluster /\ pc' = "mint" /\ pc = "cluster" /\ leaf' = leaf /\ Cluster' = Cluster
    BY <1>1, <2>2 DEF GenerateCluster, Cluster
  <2> QED
    BY <2>3 DEF Pending, Shape, Places
<1>2. CASE <<c>> \in dirs /\ BaseFile(c, k) \in DOMAIN tree
  BY <1>2, BaseStays
<1>3. CASE <<c>> \in dirs /\ BaseFile(c, k) \notin DOMAIN tree
  <2>1. Pending(c, k)
    BY <1>0, <1>3 DEF Filled
  <2>2. c = Cluster /\ leaf = 0 /\ pc \in {"mint", "write"}
    BY <2>1 DEF Pending
  <2>3. CASE Mint
    <3>1. PICK unmade : queue' = BaseWrites(Cluster, unmade)
      BY <2>3 DEF Mint
    <3>2. Len(queue') = 20 /\ queue'[k][1] = BaseFile(c, k)
      BY <2>2, <3>1, BaseQueue, BaseTarget DEF BaseFile
    <3>3. pc' = "write" /\ leaf' = 0 /\ Cluster' = Cluster
      BY <2>2, <2>3 DEF Mint, Cluster
    <3> QED
      BY <2>2, <3>2, <3>3 DEF Pending
  <2>4. CASE WriteSecretValue
    <3>1. pc = "write" /\ pc' = "write" /\ leaf' = 0 /\ Cluster' = Cluster
      BY <2>2, <2>4 DEF WriteSecretValue, Cluster
    <3>2. PICK i \in 1..Len(queue) : queue[i][1] = BaseFile(c, k)
      BY <2>1, <3>1 DEF Pending
    <3>3. CASE i = 1
      BY <2>4, <3>2, <3>3, WritesNew
    <3>4. CASE i # 1
      <4>1. i - 1 \in 1..Len(queue') /\ queue'[i - 1] = queue[i]
        BY <2>4, <3>4, WritesNew
      <4> QED
        BY <2>2, <3>1, <3>2, <4>1 DEF Pending
    <3> QED
      BY <3>3, <3>4
  <2>5. CASE Written
    BY <2>1, <2>5, EmptySeq DEF Written, Pending
  <2>6. CASE MakeSecretDir \/ UNCHANGED vars
    <3>1. UNCHANGED <<pc, leaf, queue>> /\ Cluster' = Cluster
      BY <2>6 DEF MakeSecretDir, vars, Cluster
    <3> QED
      BY <2>1, <3>1 DEF Pending
  <2>7. CASE Interrupt
    <3>1. pc = "write" => queue # <<>>
      BY <2>1, EmptySeq DEF Pending
    <3>2. <<c>> \in struck'
      BY <2>2, <2>7, <3>1 DEF Interrupt
    <3> QED
      BY <3>2
  <2>8. CASE \/ ParseArgs \/ GenerateCluster \/ GenerateLeaf \/ RemoveCscSeed \/ RemoveCpcPubkey
             \/ Rerun
    BY <2>2, <2>8 DEF ParseArgs, GenerateCluster, GenerateLeaf, RemoveCscSeed, RemoveCpcPubkey, Rerun
  <2> QED
    BY <2>3, <2>4, <2>5, <2>6, <2>7, <2>8 DEF Next, Script
<1> QED
  BY <1>1, <1>2, <1>3

\* Main leaves a cluster only when its directory is there.
LEMMA PassedStep ==
    ASSUME Shape, Passed, [Next]_vars
    PROVE  Passed'
<1> USE DEF arguments, environment, Ended
<1>0. Len(cpcs) \in Nat /\ Len(extras) \in Nat /\ at \in Nat /\ leaf \in Nat
  BY Arguments DEF Shape
<1>1. CASE Rerun \/ ParseArgs \/ Interrupt
  BY <1>0, <1>1 DEF Rerun, ParseArgs, Interrupt, Passed, AtWork, Shape, Places
<1>2. CASE Advance /\ UNCHANGED <<cpcs, extras, dirs>> /\ pc \in AtWork /\ <<Cluster>> \in dirs
  <2>1. at' = at \/ at' = at + 1
    BY <1>2, AdvanceTo DEF Shape
  <2>2. \A i \in 1..Len(cpcs) : i < at => <<cpcs[i]>> \in dirs
    BY <1>2 DEF Passed
  <2>3. \A i \in 1..Len(cpcs) : i = at => <<cpcs[i]>> \in dirs
    BY <1>2 DEF Cluster
  <2> QED
    BY <1>0, <1>2, <2>1, <2>2, <2>3 DEF Passed
<1>3. CASE GenerateCluster
  <2>1. CASE <<Cluster>> \in dirs
    BY <1>2, <1>3, <2>1 DEF GenerateCluster, AtWork
  <2>2. CASE <<Cluster>> \notin dirs
    BY <1>3, <2>2 DEF GenerateCluster, Passed, AtWork
  <2> QED
    BY <2>1, <2>2
<1>4. CASE Written
  <2>1. CASE leaf = 0
    BY <1>2, <1>4, <2>1 DEF Written, AtWork, Shape, Entered
  <2>2. CASE leaf # 0
    BY <1>4, <2>2 DEF Written, Passed, AtWork
  <2> QED
    BY <2>1, <2>2
<1>5. CASE RemoveCpcPubkey
  BY <1>2, <1>5 DEF RemoveCpcPubkey, AtWork, Shape, Entered
<1>6. CASE Mint \/ GenerateLeaf \/ MakeSecretDir \/ WriteSecretValue \/ RemoveCscSeed
  BY <1>6 DEF Mint, GenerateLeaf, MakeSecretDir, WriteSecretValue, RemoveCscSeed, Passed, AtWork
<1>7. CASE UNCHANGED vars
  BY <1>7 DEF vars, Passed
<1> QED
  BY <1>1, <1>3, <1>4, <1>5, <1>6, <1>7 DEF Next, Script

-----------------------------------------------------------------------------
(* The invariant.                                                          *)

\* The inductive invariant.
IInv ==
    Shape /\ Halfway /\ Done /\ ThisBatch /\ OneBatch /\ NoBlank /\ Filled /\ Passed

\* Where a cluster's file is in the list of its files.
PlaceOf(f) ==
    CHOOSE i \in DOMAIN BaseFiles : BaseFiles[i][1] = f[2] /\ BaseFiles[i][2] = f[3]

\* Its name tells it.
LEMMA BasePlace ==
    ASSUME NEW c, NEW k \in 1..20
    PROVE  PlaceOf(BaseFile(c, k)) = k
<1> DEFINE f == BaseFile(c, k)
           P(i) == BaseFiles[i][1] = f[2] /\ BaseFiles[i][2] = f[3]
<1>1. P(k)
  BY DEF BaseFile
<1>2. PlaceOf(f) = CHOOSE i \in 1..20 : P(i)
  BY BaseFacts DEF PlaceOf
<1> DEFINE i == CHOOSE i \in 1..20 : P(i)
<1>3. i \in 1..20 /\ P(i)
  BY <1>1
<1>4. BaseFiles[i][1] = BaseFiles[k][1] /\ BaseFiles[i][2] = BaseFiles[k][2]
  BY <1>1, <1>3
<1> HIDE DEF i
<1>5. i = k
  BY <1>3, <1>4, BaseFacts
<1> QED
  BY <1>2, <1>5 DEF i

\* An older tree of some clusters has all their files, of the run 0.
LEMMA BaseTreeFacts ==
    ASSUME NEW clusters
    PROVE  /\ \A f : f \in DOMAIN BaseTree(clusters) <=>
                    \E c \in clusters, k \in 1..20 : f = BaseFile(c, k)
           /\ \A f \in DOMAIN BaseTree(clusters) :
                 BaseTree(clusters)[f] = Half(HalfIn(f[3]), 0, f[1], BaseFiles[PlaceOf(f)][3])
<1> DEFINE files == {<<c, BaseFiles[i][1], BaseFiles[i][2]>> : c \in clusters, i \in DOMAIN BaseFiles}
           value(f) == Half(HalfIn(f[3]), 0, f[1], BaseFiles[PlaceOf(f)][3])
<1>1. BaseTree(clusters) = [f \in files |-> value(f)]
  BY DEF BaseTree, PlaceOf
<1>2. \A f : f \in files <=> \E c \in clusters, k \in 1..20 : f = BaseFile(c, k)
  <2>1. DOMAIN BaseFiles = 1..20
    BY BaseFacts
  <2> QED
    BY <2>1 DEF BaseFile
<1> HIDE DEF files, value
<1>3. /\ DOMAIN BaseTree(clusters) = files
      /\ \A f \in files : BaseTree(clusters)[f] = value(f)
  BY <1>1
<1> QED
  BY <1>2, <1>3 DEF value

\* So have the trees the first run may find, in which no key is empty.
LEMMA OldTreeFacts ==
    ASSUME Init
    PROVE  /\ \A c \in Clusters, k \in 1..20 : BaseFile(c, k) \in DOMAIN tree =>
                  tree[BaseFile(c, k)] = BaseHalf(c, k, 0)
           /\ \A f \in DOMAIN tree : tree[f] # Blank
           /\ \A c : <<c>> \in dirs => \A k \in 1..20 : BaseFile(c, k) \in DOMAIN tree
<1>1. tree \in OldTrees /\ dirs = DirsOf(tree)
  BY DEF Init
<1>2. CASE tree = <<>>
  <2>1. DOMAIN tree = {}
    BY <1>2
  <2>2. dirs = {}
    BY <1>1, <2>1 DEF DirsOf
  <2> QED
    BY <2>1, <2>2
<1>3. CASE \E cpc \in CpcIds, kept \in {CSC} \cup Accounts :
              tree = OldTree(cpc, kept)
  <2>1. PICK cpc \in CpcIds, kept \in {CSC} \cup Accounts :
            tree = OldTree(cpc, kept)
    BY <1>3
  <2>0. PICK both : both = {CSC, cpc}
    OBVIOUS
  <2> DEFINE b == BaseTree(both)
             l == LeafTree(cpc, kept)
             leaves == {CscFile(CSC, cpc, "pubkey"), CscFile(CSC, cpc, "seed"),
                        CpcFile(CSC, cpc, "pubkey"), CpcFile(CSC, cpc, "seed")}
  <2>2. /\ \A f : f \in DOMAIN b <=> \E c \in both, k \in 1..20 : f = BaseFile(c, k)
        /\ \A f \in DOMAIN b : b[f] = Half(HalfIn(f[3]), 0, f[1], BaseFiles[PlaceOf(f)][3])
    BY BaseTreeFacts
  <2>3. ASSUME NEW c \in both, NEW k \in 1..20
        PROVE  BaseFile(c, k) \in DOMAIN b /\ b[BaseFile(c, k)] = BaseHalf(c, k, 0)
    <3> DEFINE f == BaseFile(c, k)
    <3>1. f[1] = c /\ f[3] = BaseFiles[k][2] /\ PlaceOf(f) = k
      BY BasePlace DEF BaseFile
    <3>2. f \in DOMAIN b
      BY <2>2
    <3>3. b[f] = Half(HalfIn(f[3]), 0, f[1], BaseFiles[PlaceOf(f)][3])
      BY <2>2, <3>2
    <3> QED
      BY <3>1, <3>2, <3>3 DEF BaseHalf
  <2>4. DOMAIN l = leaves /\ \A f \in leaves : l[f] # Blank
    BY HalfNotBlank DEF LeafTree
  <2>5. DOMAIN tree = DOMAIN b \cup leaves
    BY <2>0, <2>1, <2>4 DEF OldTree, Joined
  <2>6. \A f \in DOMAIN tree : tree[f] = IF f \in DOMAIN b THEN b[f] ELSE l[f]
    BY <2>0, <2>1 DEF OldTree, Joined
  <2> HIDE DEF b, l, leaves
  <2>7. \A f \in DOMAIN tree : tree[f] # Blank
    <3>1. \A f \in DOMAIN b : b[f] # Blank
      BY <2>2, HalfNotBlank
    <3> QED
      BY <2>4, <2>5, <2>6, <3>1
  <2>8. ASSUME NEW c \in Clusters, NEW k \in 1..20, BaseFile(c, k) \in DOMAIN tree
        PROVE  tree[BaseFile(c, k)] = BaseHalf(c, k, 0)
    <3>1. BaseFile(c, k) \in DOMAIN b
      BY <2>5, <2>8, BaseFileFacts DEF leaves
    <3>2. c \in both
      BY <2>2, <3>1, BaseFileFacts
    <3> QED
      BY <2>3, <2>6, <2>8, <3>1, <3>2
  <2>9. ASSUME NEW c, <<c>> \in dirs PROVE c \in both
    <3>1. PICK f \in DOMAIN tree : <<c>> = <<f[1]>> \/ <<c>> = <<f[1], f[2]>>
      BY <1>1, <2>9 DEF DirsOf
    <3>2. c = f[1]
      BY <3>1
    <3>3. f[1] \in both
      <4>1. CASE f \in DOMAIN b
        BY <2>2, <4>1, BaseFileFacts
      <4>2. CASE f \in leaves
        BY <2>0, <4>2 DEF leaves, CscFile, CpcFile
      <4> QED
        BY <2>5, <4>1, <4>2
    <3> QED
      BY <3>2, <3>3
  <2>10. \A c : <<c>> \in dirs => \A k \in 1..20 : BaseFile(c, k) \in DOMAIN tree
    BY <2>3, <2>5, <2>9
  <2> QED
    BY <2>7, <2>8, <2>10
<1>4. \/ tree = <<>>
      \/ \E cpc \in CpcIds, kept \in {CSC} \cup Accounts :
            tree = OldTree(cpc, kept)
  BY <1>1 DEF OldTrees
<1> QED
  BY <1>2, <1>3, <1>4

\* The invariant holds of every tree the first run may find.
LEMMA IInit == Init => IInv
<1> SUFFICES ASSUME Init PROVE IInv
  OBVIOUS
<1>1. pc = "parse"
  BY DEF Init
<1>2. OneBatch
  BY OldTreeFacts DEF OneBatch
<1>3. NoBlank /\ Filled
  BY <1>1, OldTreeFacts DEF NoBlank, Filled
<1> QED
  BY <1>1, <1>2, <1>3, ShapeInit DEF IInv, Halfway, Done, Behind, ThisBatch, Passed, AtWork

\* Every step keeps it.
LEMMA IStep == IInv /\ [Next]_vars => IInv'
BY ShapeStep, HalfwayStep, DoneStep, ThisBatchStep, OneBatchStep, NoBlankStep, FilledStep,
   PassedStep DEF IInv

\* It holds throughout, over all runs on the tree.
THEOREM Invariance == Spec => []IInv
<1>1. Init => IInv
  BY IInit
<1>2. IInv /\ [Next]_vars => IInv'
  BY IStep
<1> QED
  BY <1>1, <1>2, PTL DEF Spec

\* Every variable has its type.
THEOREM TypeCorrect == Spec => []TypeOK
<1>1. IInv => TypeOK
  BY DEF IInv, Shape
<1> QED
  BY <1>1, Invariance, PTL

\* The script is additive: no file that is in use is ever overwritten or
\* removed, in any run.
THEOREM NothingOverwritten == Spec => Additive
<1>1. IInv /\ [Next]_vars =>
        [\A f \in DOMAIN tree :
            \/ f \in DOMAIN tree' /\ tree'[f] = tree[f]
            \/ Unused(f) /\ f \notin DOMAIN tree']_tree
  BY TreeStep DEF IInv
<1> QED
  BY <1>1, Invariance, PTL DEF Spec, Additive

\* When main has come to its end, every leaf it was asked for is behind it.
LEMMA CompletedLeaves ==
    ASSUME IInv
    PROVE  CompletedLeavesAgree
<1> SUFFICES ASSUME pc = "complete", NEW r \in Requested PROVE AgreeAt(r[1], r[2])
  BY DEF CompletedLeavesAgree, AgreeAt
<1>1. PICK account \in LeafAccounts, i \in DOMAIN cpcs : r = <<account, cpcs[i]>>
  BY DEF Requested
<1>2. /\ Len(cpcs) \in Nat /\ Len(extras) \in Nat
      /\ DOMAIN cpcs = 1..Len(cpcs) /\ DOMAIN extras = 1..Len(extras)
  BY Arguments, LenProperties DEF IInv, Shape
<1>3. \E k \in 1..(Len(extras) + 1) : account = AccountOf(k)
  <2>1. CASE account = CSC
    BY <1>2, <2>1 DEF AccountOf
  <2>2. CASE \E j \in DOMAIN extras : account = extras[j]
    <3>1. PICK j \in 1..Len(extras) : account = extras[j]
      BY <1>2, <2>2
    <3>2. j + 1 \in 1..(Len(extras) + 1) /\ AccountOf(j + 1) = extras[j]
      BY <1>2 DEF AccountOf
    <3> QED
      BY <3>1, <3>2
  <2> QED
    BY <2>1, <2>2 DEF LeafAccounts
<1>4. PICK k \in 1..(Len(extras) + 1) : account = AccountOf(k)
  BY <1>3
<1>5. Behind(i, k) /\ i \in 1..Len(cpcs)
  BY <1>2 DEF Behind, IInv, Shape, Places
<1> QED
  BY <1>1, <1>4, <1>5 DEF IInv, Done

\* A run that reports completion (main's last line) leaves no leaf it was asked
\* for with halves of two pairs.
THEOREM LeavesAgree == Spec => []CompletedLeavesAgree
<1>1. IInv => CompletedLeavesAgree
  BY CompletedLeaves
<1> QED
  BY <1>1, Invariance, PTL

\* The halves of a pair and its copies for auth-callout, within a cluster, are of
\* one generation, whatever was interrupted.
THEOREM CopiesOfOnePair == Spec => []CopiesAgree
<1>1. IInv => CopiesAgree
  <2> SUFFICES ASSUME IInv, NEW c \in CpcIds \cup {CSC}, NEW p \in SamePair,
                      SecretKeyExists(BaseFile(c, p[1])), SecretKeyExists(BaseFile(c, p[2]))
               PROVE  Tail(tree[BaseFile(c, p[1])]) = Tail(tree[BaseFile(c, p[2])])
    BY DEF CopiesAgree, BaseFile
  <2>1. p[1] \in 1..20 /\ p[2] \in 1..20 /\ BaseFiles[p[1]][3] = BaseFiles[p[2]][3]
    BY BaseFacts DEF SamePair
  <2>2. PICK run \in Nat : \A k \in 1..20 :
            BaseFile(c, k) \in DOMAIN tree => tree[BaseFile(c, k)] \in {Blank, BaseHalf(c, k, run)}
    BY DEF IInv, OneBatch, Clusters
  <2>3. /\ tree[BaseFile(c, p[1])] = BaseHalf(c, p[1], run)
        /\ tree[BaseFile(c, p[2])] = BaseHalf(c, p[2], run)
    BY <2>1, <2>2 DEF SecretKeyExists
  <2> DEFINE pair == BaseFiles[p[1]][3]
  <2>4. \A h : Tail(Half(h, run, c, pair)) = <<run, c, pair>>
    BY DEF Half
  <2> QED
    BY <2>1, <2>3, <2>4 DEF BaseHalf
<1> QED
  BY <1>1, Invariance, PTL

\* Among the files of a cluster and of a leaf, those of what was struck.
LEMMA StruckOwn ==
    ASSUME IInv
    PROVE  /\ \A c, k : k \in 1..20 /\ StruckFile(BaseFile(c, k)) => <<c>> \in struck
           /\ \A a, c : StruckFile(CscFile(a, c, "pubkey")) => <<a, c>> \in struck
           /\ \A a, c : c \in CpcIds /\ StruckFile(CpcFile(a, c, "seed")) => <<a, c>> \in struck
<1>1. \A c, k : k \in 1..20 /\ StruckFile(BaseFile(c, k)) => <<c>> \in struck
  BY BaseFileFacts DEF StruckFile
<1>2. \A a, c : StruckFile(CscFile(a, c, "pubkey")) => <<a, c>> \in struck
  <2> SUFFICES ASSUME NEW a, NEW c, StruckFile(CscFile(a, c, "pubkey")) PROVE <<a, c>> \in struck
    OBVIOUS
  <2>1. PICK b \in Accounts \cup {CSC}, d \in CpcIds :
            /\ <<b, d>> \in struck
            /\ CscFile(a, c, "pubkey") \in {CscFile(b, d, "pubkey"), CpcFile(b, d, "seed")}
    BY BaseFileFacts DEF StruckFile
  <2>2. CscSecret(a, c) = CscSecret(b, d)
    BY <2>1 DEF CscFile, CpcFile
  <2> QED
    BY <2>1, <2>2 DEF CscSecret
<1>3. \A a, c : c \in CpcIds /\ StruckFile(CpcFile(a, c, "seed")) => <<a, c>> \in struck
  <2> SUFFICES ASSUME NEW a, NEW c, c \in CpcIds, StruckFile(CpcFile(a, c, "seed"))
               PROVE  <<a, c>> \in struck
    OBVIOUS
  <2>1. PICK b \in Accounts \cup {CSC}, d \in CpcIds :
            /\ <<b, d>> \in struck
            /\ CpcFile(a, c, "seed") \in {CscFile(b, d, "pubkey"), CpcFile(b, d, "seed")}
    BY BaseFileFacts DEF StruckFile
  <2>2. c = d /\ CpcSecret(a) = CpcSecret(b)
    BY <2>1, NkeysAssumption DEF CscFile, CpcFile
  <2> QED
    BY <2>1, <2>2 DEF CpcSecret
<1> QED
  BY <1>1, <1>2, <1>3

\* A run that reports completion has all secrets of every cluster and leaf it
\* was asked for that no interruption and no failure of nsc has struck, however
\* many of either there were.
THEOREM UnstruckIsComplete == Spec => []CompleteUnlessStruck
<1>1. IInv => CompleteUnlessStruck
  <2> SUFFICES ASSUME IInv, pc = "complete" PROVE CompleteUnlessStruck
    BY DEF CompleteUnlessStruck
  <2>1. \A f \in DOMAIN tree : SecretKeyExists(f) \/ StruckFile(f)
    BY DEF IInv, NoBlank, SecretKeyExists
  <2>2. /\ Len(cpcs) \in Nat /\ DOMAIN cpcs = 1..Len(cpcs) /\ at = Len(cpcs) + 1
        /\ \A i \in 1..Len(cpcs) : cpcs[i] \in CpcIds
    BY Arguments, LenProperties, ElementOfSeq DEF IInv, Shape, Places
  <2>3. ASSUME NEW c \in RequestedClusters, <<c>> \notin struck PROVE HasBaseFiles(c)
    <3> SUFFICES ASSUME NEW k \in 1..20 PROVE SecretKeyExists(BaseFile(c, k))
      BY BaseFacts DEF HasBaseFiles, BaseFile
    <3>1. c \in Clusters
      BY <2>2 DEF Clusters, RequestedClusters
    <3>2. <<c>> \in dirs
      <4>1. CASE c = CSC
        BY <2>2, <4>1 DEF IInv, Shape, Entered
      <4>2. CASE \E i \in DOMAIN cpcs : c = cpcs[i]
        BY <2>2, <4>2 DEF IInv, Passed
      <4> QED
        BY <4>1, <4>2 DEF RequestedClusters
    <3>3. BaseFile(c, k) \in DOMAIN tree
      BY <2>3, <3>1, <3>2 DEF IInv, Filled, Pending
    <3>4. ~StruckFile(BaseFile(c, k))
      BY <2>3, StruckOwn
    <3> QED
      BY <2>1, <3>3, <3>4
  <2>4. ASSUME NEW r \in Requested, r \notin struck PROVE HasHalves(r)
    <3>1. PICK a \in LeafAccounts, i \in DOMAIN cpcs : r = <<a, cpcs[i]>>
      BY DEF Requested
    <3>2. r[1] = a /\ r[2] \in CpcIds /\ <<r[1], r[2]>> \notin struck
      BY <2>2, <2>4, <3>1
    <3>3. {CscFile(r[1], r[2], "pubkey"), CpcFile(r[1], r[2], "seed")} \subseteq DOMAIN tree
      BY CompletedLeaves DEF CompletedLeavesAgree
    <3>4. ~StruckFile(CscFile(r[1], r[2], "pubkey")) /\ ~StruckFile(CpcFile(r[1], r[2], "seed"))
      BY <3>2, StruckOwn
    <3> QED
      BY <2>1, <3>3, <3>4 DEF HasHalves
  <2> QED
    BY <2>3, <2>4 DEF CompleteUnlessStruck
<1> QED
  BY <1>1, Invariance, PTL
==============================================================================
