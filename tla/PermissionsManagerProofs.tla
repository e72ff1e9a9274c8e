---------------------- MODULE PermissionsManagerProofs ----------------------
(***************************************************************************)
(* Proofs about the permissions manager, for any number of debounce timers *)
(* and of versions of the file.                                            *)
(*                                                                          *)
(* The argument has two layers.  IInv relates the goroutines to what they   *)
(* have read and stored; it needs no assumption on timing.  Obligation says *)
(* where the duty to serve the file on disk is at every moment (a poll yet  *)
(* to come, a notification, an armed timer, a load) and is preserved only   *)
(* because a load returns before the timers armed meanwhile fire.           *)
(***************************************************************************)
EXTENDS PermissionsManager, TLAPS

\* A load of this goroutine still has stores to make.
Storing(l) == stage[l] \in Methods

\* The methods a load has already stored at each of its stages.
StoredBefore == [noauth |-> {}, oauth2 |-> {"noauth"},
                 mtls |-> {"noauth", "oauth2"}, nkey |-> {"noauth", "oauth2", "mtls"}]

-----------------------------------------------------------------------------
(* The inductive invariant                                                  *)

\* A timer runs exactly while its load does.
Linked == \A t \in Timers : timer[t] = "running" <=> stage[t] # "idle"

\* The constructor loads before it registers anything, and Stop comes after it.
Phases ==
    /\ pmPc = "load" <=> stage[Main] # "idle"
    /\ pmPc \in {"load", "watchFs"} =>
          /\ ~fsCallback /\ ~pollCallback
          /\ fsPc = "idle" /\ pollPc = "idle"
          /\ \A t \in Timers : timer[t] = "free"
    /\ stopPc # "open" => pmPc \in {"ready", "failed"}
    /\ pmPc = "ready" /\ stopPc = "open" => pollCallback
    /\ stopPc \in {"poll", "done"} => ~fsCallback
    /\ stopPc = "done" => ~pollCallback

\* What goroutines hold they have read: no state from the future.
Bounded ==
    /\ pollLast <= Current /\ pollSeen <= Current
    /\ \A l \in Loaders : got[l] <= Current

\* Loads and lookups hold accepted versions, none older than the initial load's.
Sound ==
    /\ \A l \in Loaders : Storing(l) =>
          /\ got[l] # 0 /\ got[l] >= got[Main]
          /\ file[got[l]] = "good"
    /\ \A m \in Methods : lookup[m] # 0 =>
          /\ lookup[m] <= Current
          /\ file[lookup[m]] = "good"
    /\ Storing(Main) => \A m \in StoredBefore[stage[Main]] : lookup[m] = got[Main]
    /\ pmPc \in {"watchFs", "watchPoll", "ready"} =>
          /\ got[Main] # 0
          /\ \A m \in Methods : lookup[m] >= got[Main]

IInv == TypeOK /\ Linked /\ Phases /\ Bounded /\ Sound

\* The loads that would still store a version other than the one on disk.
Stale == {t \in Timers : Storing(t) /\ got[t] # Current}

\* The duty to serve the file on disk is somewhere.
Covered ==
    \/ pollLast # Current
    \/ fsPc = "notify" \/ pollPc = "notify"
    \/ \E t \in Timers : timer[t] = "armed" /\ Stale \subseteq ahead[t]
    \/ /\ Stale = {}
       /\ \/ \E t \in Timers : stage[t] = "read"
          \/ \E t \in Timers :
                /\ Storing(t) /\ got[t] = Current
                /\ \A m \in StoredBefore[stage[t]] : lookup[m] = Current
          \/ \A m \in Methods : lookup[m] = Current

Obligation ==
    pmPc = "ready" /\ stopPc = "open" /\ file[Current] = "good" /\ Current > baseline
        => Covered

-----------------------------------------------------------------------------
(* Type correctness                                                         *)

USE DEF Kinds, Methods, Loaders

\* The initial states are well-typed.
LEMMA TypeInit == Init => TypeOK
<1> SUFFICES ASSUME Init PROVE TypeOK
  OBVIOUS
<1>1. PICK k \in Kinds : file = <<k>>
  BY DEF Init, WatcherInit
<1>2. file \in Seq(Kinds) /\ Len(file) = 1
  BY <1>1
<1>3. /\ timer \in [Timers -> {"free", "armed", "running", "returned"}]
      /\ ahead \in [Timers -> SUBSET Timers]
  BY DEF Init, WatcherInit
<1>4. WatcherTypeOK
  <2>1. fsWatched \in BOOLEAN /\ fsCallback \in BOOLEAN /\ pollCallback \in BOOLEAN
    BY Zenon DEF Init, WatcherInit
  <2>2. Current \in 1..MaxVersions
    BY <1>2, WatcherAssumption DEF Current
  <2> QED BY <1>2, <1>3, <2>1, <2>2, WatcherAssumption DEF Init, WatcherInit, WatcherTypeOK
<1> QED
  BY <1>4, WatcherAssumption DEF Init, TypeOK

\* One more version is a history still.
LEMMA AppendVersion ==
    ASSUME TypeOK, NEW k \in Kinds, Current < MaxVersions
    PROVE  /\ Append(file, k) \in Seq(Kinds)
           /\ Len(Append(file, k)) = Current + 1
           /\ Len(Append(file, k)) \in 1..MaxVersions
           /\ Append(file, k)[Current + 1] = k
           /\ \A v \in 1..Current : Append(file, k)[v] = file[v]
BY WatcherAssumption DEF TypeOK, WatcherTypeOK, Current

\* Re-arming the debouncer keeps its variables in their types.
LEMMA RearmType ==
    ASSUME TypeOK, Rearm
    PROVE  /\ timer' \in [Timers -> {"free", "armed", "running", "returned"}]
           /\ entry' \in Timers \cup {NoTimer}
           /\ ahead' \in [Timers -> SUBSET Timers]
BY DEF TypeOK, WatcherTypeOK, Rearm, Running

\* Every step of every goroutine, and every change of the file, keeps the types.
LEMMA TypeStep == TypeOK /\ [Next]_vars => TypeOK'
<1> SUFFICES ASSUME TypeOK, [Next]_vars PROVE TypeOK'
  OBVIOUS
<1> USE WatcherAssumption, ManagerAssumption DEF TypeOK, WatcherTypeOK
<1> USE DEF managerVars, fileVars, fsVars, pollVars, timerVars, Current
<1>1. CASE Changing
  <2>1. PICK k \in Kinds : Change(k)
    BY <1>1 DEF Changing
  <2>2. Current < MaxVersions /\ file' = Append(file, k)
    BY <2>1 DEF Change, Replace, WriteInPlace
  <2>3. file' \in Seq(Kinds) /\ Len(file') \in 1..MaxVersions
    BY <2>2, AppendVersion
  <2>4. CASE Replace(k)
    BY <1>1, <2>3, <2>4 DEF Changing, Replace
  <2>5. CASE WriteInPlace(k)
    <3>1. fsQueue' \in Nat
      BY <2>5 DEF WriteInPlace
    <3> QED BY <1>1, <2>3, <2>5, <3>1 DEF Changing, WriteInPlace
  <2> QED BY <2>1, <2>4, <2>5 DEF Change
<1>2. CASE FsTake /\ UNCHANGED managerVars
  BY <1>2 DEF FsTake
<1>3. CASE FsNotify /\ UNCHANGED managerVars
  BY <1>3, RearmType DEF FsNotify
<1>4. CASE PollRead /\ UNCHANGED managerVars
  BY <1>4 DEF PollRead
<1>5. CASE PollCompare /\ UNCHANGED managerVars
  BY <1>5 DEF PollCompare
<1>6. CASE PollNotify /\ UNCHANGED managerVars
  BY <1>6, RearmType DEF PollNotify
<1>7. CASE StopStep /\ UNCHANGED managerVars
  <2>1. CASE StopTimers
    BY <1>7, <2>1 DEF StopTimers
  <2>2. CASE StopFs
    BY <1>7, <2>2 DEF StopFs
  <2>3. CASE StopPoll
    <3>1. pollCallback' \in BOOLEAN
      BY <2>3, Zenon DEF StopPoll
    <3>2. pollLast' \in 0..MaxVersions
      BY <2>3 DEF StopPoll
    <3> QED BY <1>7, <2>3, <3>1, <3>2 DEF StopPoll
  <2> QED BY <1>7, <2>1, <2>2, <2>3 DEF StopStep
<1>8. ASSUME NEW t \in Timers, Forget(t), UNCHANGED managerVars
      PROVE  TypeOK'
  BY <1>8 DEF Forget
<1>9. ASSUME NEW l \in Loaders, LoadRead(l)
      PROVE  TypeOK'
  <2>1. CASE l = Main
    BY <1>9, <2>1 DEF LoadRead, LoadReturns
  <2>2. CASE l \in Timers
    <3>1. CASE file[Current] = "good"
      BY <1>9, <2>2, <3>1 DEF LoadRead
    <3>2. CASE file[Current] # "good"
      BY <1>9, <2>2, <3>2 DEF LoadRead, LoadReturns, Return
    <3> QED BY <3>1, <3>2
  <2> QED BY <2>1, <2>2
<1>10. ASSUME NEW l \in Loaders, LoadStore(l)
       PROVE  TypeOK'
  <2>1. /\ lookup' \in [Methods -> 0..MaxVersions]
        /\ stage' \in [Loaders -> {"idle", "read"} \cup Methods]
    BY <1>10 DEF LoadStore, NextStage
  <2>2. CASE l = Main
    BY <1>10, <2>1, <2>2 DEF LoadStore, LoadReturns
  <2>3. CASE l \in Timers
    BY <1>10, <2>1, <2>3 DEF LoadStore, LoadReturns, Return
  <2> QED BY <2>2, <2>3
<1>11. ASSUME NEW t \in Timers, Reload(t)
       PROVE  TypeOK'
  BY <1>11 DEF Reload, Fire
<1>12. CASE RegisterFs
  BY <1>12 DEF NewFileWatcherFails, watcherVars, RegisterFs, WatchFs
<1>13. CASE RegisterPoll
  BY <1>13 DEF RegisterPoll, WatchPoll
<1>14. CASE RegisterFails
  BY <1>14 DEF RegisterFails
<1>15. CASE Close
  BY <1>15 DEF Close
<1>16. CASE NewFileWatcherFails
  BY <1>16 DEF NewFileWatcherFails, watcherVars
<1>17. CASE UNCHANGED vars
  BY <1>17 DEF vars, watcherVars
<1> QED
  BY <1>1, <1>2, <1>3, <1>4, <1>5, <1>6, <1>7, <1>8, <1>9, <1>10, <1>11, <1>12, <1>13, <1>14,
     <1>15, <1>16, <1>17
  DEF Next, Watching, Loading, FsLoop, PollLoop

\* TypeOK for every number of timers and versions.
THEOREM TypeCorrect == Spec => []TypeOK
<1>1. Init => TypeOK
  BY TypeInit
<1>2. TypeOK /\ [Next]_vars => TypeOK'
  BY TypeStep
<1> QED
  BY <1>1, <1>2, PTL DEF Spec

-----------------------------------------------------------------------------
(* The inductive invariant holds                                            *)

\* IInv holds at the start: nothing is loaded, registered or armed.
LEMMA InvInit == Init => IInv
<1> SUFFICES ASSUME Init PROVE IInv
  OBVIOUS
<1>1. TypeOK
  BY TypeInit
<1>2. Linked
  BY ManagerAssumption DEF Init, WatcherInit, Linked
<1>3. Phases
  BY DEF Init, WatcherInit, Phases
<1>4. Bounded
  BY <1>1 DEF Init, WatcherInit, Bounded, TypeOK, WatcherTypeOK
<1>5. Sound
  BY ManagerAssumption DEF Init, WatcherInit, Sound, Storing
<1> QED
  BY <1>1, <1>2, <1>3, <1>4, <1>5 DEF IInv

\* A change of the file adds a version and alters none that was read.
LEMMA ChangeInv == IInv /\ Changing => IInv'
<1> SUFFICES ASSUME IInv, Changing PROVE IInv'
  OBVIOUS
<1> USE DEF managerVars, fsVars, pollVars, timerVars
<1>1. TypeOK'
  BY TypeStep DEF IInv, Next
<1>2. PICK k \in Kinds : Change(k)
  BY DEF Changing
<1>3. /\ Current < MaxVersions /\ file' = Append(file, k)
      /\ UNCHANGED <<managerVars, fsVars, pollVars, timerVars, stopPc>>
  BY <1>2 DEF Change, Replace, WriteInPlace, Changing
<1>4. /\ Current' = Current + 1 /\ Current \in Nat
      /\ \A v \in 1..Current : file'[v] = file[v]
  BY <1>3, AppendVersion DEF IInv, TypeOK, WatcherTypeOK, Current
<1>5. Linked' /\ Phases'
  BY <1>3 DEF IInv, Linked, Phases
<1>6. Bounded'
  BY <1>3, <1>4 DEF IInv, Bounded, TypeOK, WatcherTypeOK
<1>7. Sound'
  <2>1. ASSUME NEW v \in 0..MaxVersions, v # 0, v <= Current
        PROVE  file'[v] = file[v]
    BY <1>4, <2>1
  <2>2. ASSUME NEW l \in Loaders, Storing(l)'
        PROVE  got'[l] # 0 /\ got'[l] >= got'[Main] /\ file'[got'[l]] = "good"
    BY <1>3, <2>1, <2>2 DEF IInv, Sound, Bounded, Storing, TypeOK, WatcherTypeOK
  <2>3. ASSUME NEW m \in Methods, lookup'[m] # 0
        PROVE  lookup'[m] <= Current' /\ file'[lookup'[m]] = "good"
    <3>1. lookup'[m] = lookup[m] /\ lookup[m] \in 0..MaxVersions
      BY <1>3 DEF IInv, TypeOK
    <3>2. lookup[m] <= Current /\ file[lookup[m]] = "good"
      BY <2>3, <3>1 DEF IInv, Sound
    <3> QED BY <1>4, <2>1, <2>3, <3>1, <3>2
  <2> QED BY <1>3, <2>2, <2>3 DEF IInv, Sound, Storing
<1> QED
  BY <1>1, <1>5, <1>6, <1>7 DEF IInv

\* The loops, the debouncer and Stop move notifications and timers about, and
\* touch nothing a load has read or stored.
LEMMA WatchInv == IInv /\ Watching => IInv'
<1> SUFFICES ASSUME IInv, Watching PROVE IInv'
  OBVIOUS
<1> USE DEF managerVars, fileVars, fsVars, pollVars, timerVars
<1>1. TypeOK'
  BY TypeStep DEF IInv, Next
<1>2. UNCHANGED <<file, managerVars>>
  BY DEF Watching, FsLoop, PollLoop, StopStep, FsTake, FsNotify, PollRead, PollCompare,
     PollNotify, StopTimers, StopFs, StopPoll, Forget
<1>3. Sound'
  BY <1>2 DEF IInv, Sound, Storing, Current
<1>4. Bounded'
  <2>1. pollLast' \in {pollLast, pollSeen, 0} /\ pollSeen' \in {pollSeen, Current}
    BY DEF Watching, FsLoop, PollLoop, StopStep, FsTake, FsNotify, PollRead, PollCompare,
       PollNotify, StopTimers, StopFs, StopPoll, Forget
  <2> QED BY <1>2, <2>1 DEF IInv, Bounded, Current, TypeOK, WatcherTypeOK
<1>5. Linked' /\ Phases'
  <2> USE <1>2 DEF IInv, Linked, Phases, TypeOK, WatcherTypeOK
  <2>1. CASE FsTake
    BY <2>1 DEF FsTake
  <2>2. CASE FsNotify
    BY <2>2 DEF FsNotify, Rearm, Available
  <2>3. CASE PollRead
    BY <2>3 DEF PollRead
  <2>4. CASE PollCompare
    BY <2>4 DEF PollCompare
  <2>5. CASE PollNotify
    BY <2>5 DEF PollNotify, Rearm, Available
  <2>6. CASE StopTimers
    BY <2>6 DEF StopTimers
  <2>7. CASE StopFs
    BY <2>7 DEF StopFs
  <2>8. CASE StopPoll
    BY <2>8 DEF StopPoll
  <2>9. ASSUME NEW t \in Timers, Forget(t)
        PROVE  Linked' /\ Phases'
    BY <2>9 DEF Forget
  <2> QED
    BY <2>1, <2>2, <2>3, <2>4, <2>5, <2>6, <2>7, <2>8, <2>9
    DEF Watching, FsLoop, PollLoop, StopStep
<1> QED
  BY <1>1, <1>3, <1>4, <1>5 DEF IInv

\* A load that reads the file gets the version on disk, or gives up.
LEMMA ReadInv == ASSUME IInv, NEW l \in Loaders, LoadRead(l) PROVE IInv'
<1> USE DEF fileVars, fsVars, pollVars, timerVars
<1>1. TypeOK'
  BY TypeStep DEF IInv, Next, Loading
<1>2. UNCHANGED <<fileVars, fsVars, pollVars, stopPc, lookup, baseline>> /\ stage[l] = "read"
  BY DEF LoadRead
<1>3. CASE file[Current] = "good"
  <2>1. /\ got' = [got EXCEPT ![l] = Current] /\ stage' = [stage EXCEPT ![l] = "noauth"]
        /\ UNCHANGED <<timerVars, pmPc>>
    BY <1>3 DEF LoadRead
  <2>2. Linked' /\ Phases'
    BY <1>2, <2>1 DEF IInv, Linked, Phases, TypeOK
  <2>3. Bounded'
    BY <1>2, <2>1 DEF IInv, Bounded, TypeOK, WatcherTypeOK, Current
  <2>4. Current # 0 /\ Current' = Current /\ Current \in 1..MaxVersions
    BY <1>2 DEF IInv, TypeOK, WatcherTypeOK, Current
  <2>5. l = Main => \A t \in Timers : ~Storing(t)
    BY <1>2 DEF IInv, Phases, Linked, Storing
  <2>6. ASSUME NEW x \in Loaders, Storing(x)'
        PROVE  got'[x] # 0 /\ got'[x] >= got'[Main] /\ file'[got'[x]] = "good"
    <3>1. CASE x = l
      BY <1>2, <1>3, <2>1, <2>4, <3>1 DEF IInv, Bounded, TypeOK
    <3>2. CASE x # l
      <4>1. Storing(x) /\ got'[x] = got[x]
        BY <2>1, <2>6, <3>2 DEF IInv, TypeOK, Storing
      <4>2. l # Main
        BY <2>1, <2>5, <3>2, <4>1
      <4> QED BY <1>2, <2>1, <4>1, <4>2 DEF IInv, TypeOK, Sound
    <3> QED BY <3>1, <3>2
  <2>7. Storing(Main)' => \A m \in StoredBefore[stage'[Main]] : lookup'[m] = got'[Main]
    BY <1>2, <2>1 DEF IInv, TypeOK, Sound, Storing, StoredBefore
  <2>8. pmPc' \in {"watchFs", "watchPoll", "ready"} =>
            got'[Main] # 0 /\ \A m \in Methods : lookup'[m] >= got'[Main]
    BY <1>2, <2>1 DEF IInv, TypeOK, Sound, Phases
  <2>9. Sound'
    BY <1>2, <2>4, <2>6, <2>7, <2>8 DEF IInv, Sound
  <2> QED BY <1>1, <2>2, <2>3, <2>9 DEF IInv
<1>4. CASE file[Current] # "good"
  <2>1. /\ got' = got /\ stage' = [stage EXCEPT ![l] = "idle"]
        /\ LoadReturns(l, FALSE)
    BY <1>4 DEF LoadRead
  <2>2. CASE l = Main
    <3>1. pmPc' = "failed" /\ UNCHANGED timerVars
      BY <2>1, <2>2 DEF LoadReturns
    <3> QED
      BY <1>1, <1>2, <2>1, <2>2, <3>1, ManagerAssumption
      DEF IInv, Linked, Phases, Bounded, Sound, Storing, TypeOK, Current
  <2>3. CASE l \in Timers
    <3>1. timer' = [timer EXCEPT ![l] = "returned"] /\ UNCHANGED <<entry, ahead, pmPc>>
      BY <2>1, <2>3, ManagerAssumption DEF LoadReturns, Return
    <3>2. timer[l] = "running" /\ l # Main
      BY <1>2, <2>3, ManagerAssumption DEF IInv, Linked
    <3>3. Linked' /\ Phases'
      BY <1>2, <2>1, <2>3, <3>1, <3>2 DEF IInv, Linked, Phases, TypeOK, WatcherTypeOK
    <3>4. Bounded' /\ Sound'
      BY <1>2, <2>1, <3>1, <3>2 DEF IInv, Bounded, Sound, Storing, TypeOK, Current
    <3> QED BY <1>1, <3>3, <3>4 DEF IInv
  <2> QED BY <2>2, <2>3
<1> QED
  BY <1>3, <1>4

\* A store replaces one lookup by the version its load read.
LEMMA StoreInv == ASSUME IInv, NEW l \in Loaders, LoadStore(l) PROVE IInv'
<1> USE DEF fileVars, fsVars, pollVars, timerVars
<1>1. TypeOK'
  BY TypeStep DEF IInv, Next, Loading
<1>2. /\ UNCHANGED <<fileVars, fsVars, pollVars, stopPc, got, baseline>> /\ stage[l] \in Methods
      /\ lookup' = [lookup EXCEPT ![stage[l]] = got[l]]
      /\ stage' = [stage EXCEPT ![l] = NextStage[stage[l]]]
  BY DEF LoadStore
<1>3. Bounded'
  BY <1>2 DEF IInv, Bounded, Current
<1>4. /\ got[l] # 0 /\ got[l] >= got[Main] /\ got[l] <= Current
      /\ file[got[l]] = "good"
  BY <1>2 DEF IInv, Sound, Storing, Bounded
<1>5. \A x \in Loaders : Storing(x)' => Storing(x)
  BY <1>2 DEF IInv, TypeOK, Storing
<1>6. ASSUME NEW m \in Methods, lookup'[m] # 0
      PROVE  lookup'[m] <= Current' /\ file'[lookup'[m]] = "good"
  <2>1. Current' = Current
    BY <1>2 DEF Current
  <2>2. CASE m = stage[l]
    BY <1>2, <1>4, <2>1, <2>2 DEF IInv, TypeOK
  <2>3. CASE m # stage[l]
    BY <1>2, <1>6, <2>1, <2>3 DEF IInv, TypeOK, Sound
  <2> QED BY <2>2, <2>3
<1>7. CASE l = Main
  <2>1. pmPc = "load" /\ \A t \in Timers : timer[t] = "free"
    BY <1>2, <1>7 DEF IInv, Phases
  <2>2. \/ stage[Main] # "nkey" /\ UNCHANGED <<timerVars, pmPc>>
        \/ stage[Main] = "nkey" /\ pmPc' = "watchFs" /\ UNCHANGED timerVars
    BY <1>7 DEF LoadStore, LoadReturns
  <2>3. Linked' /\ Phases'
    BY <1>2, <1>7, <2>1, <2>2, ManagerAssumption DEF IInv, Linked, Phases, TypeOK, NextStage
  <2>4. \A m \in StoredBefore[stage[Main]] : lookup[m] = got[Main]
    BY <1>2, <1>7 DEF IInv, Sound, Storing
  <2>5. Storing(Main)' => \A m \in StoredBefore[stage'[Main]] : lookup'[m] = got'[Main]
    BY <1>2, <1>7, <2>4 DEF IInv, TypeOK, Storing, StoredBefore, NextStage
  <2>6. stage[Main] = "nkey" => \A m \in Methods : lookup'[m] = got[Main]
    BY <1>2, <1>7, <2>4 DEF IInv, TypeOK, StoredBefore
  <2>7. got[Main] \in 0..MaxVersions
    BY DEF IInv, TypeOK
  <2>8. Sound'
    <3>1. pmPc' \in {"watchFs", "watchPoll", "ready"} =>
             got'[Main] # 0 /\ \A m \in Methods : lookup'[m] >= got'[Main]
      BY <1>2, <1>4, <1>7, <2>1, <2>2, <2>6, <2>7
    <3>2. \A x \in Loaders : Storing(x)' =>
             got'[x] # 0 /\ got'[x] >= got'[Main] /\ file'[got'[x]] = "good"
      BY <1>2, <1>5 DEF IInv, Sound
    <3> QED BY <1>6, <2>5, <3>1, <3>2 DEF Sound
  <2> QED BY <1>1, <1>3, <2>3, <2>8 DEF IInv
<1>8. CASE l \in Timers
  <2>1. l # Main /\ timer[l] = "running"
    BY <1>2, <1>8, ManagerAssumption DEF IInv, Linked
  <2>2. pmPc # "load" /\ stage[Main] = "idle"
    BY <1>8, <2>1 DEF IInv, Phases
  <2>3. \/ stage[l] # "nkey" /\ UNCHANGED <<timerVars, pmPc>>
        \/ /\ stage[l] = "nkey" /\ timer' = [timer EXCEPT ![l] = "returned"]
           /\ UNCHANGED <<entry, ahead, pmPc>>
    BY <2>1 DEF LoadStore, LoadReturns, Return
  <2>4. Linked' /\ Phases'
    BY <1>2, <1>8, <2>1, <2>2, <2>3
    DEF IInv, Linked, Phases, TypeOK, WatcherTypeOK, NextStage
  <2>5. \A x \in Loaders : Storing(x)' =>
           got'[x] # 0 /\ got'[x] >= got'[Main] /\ file'[got'[x]] = "good"
    BY <1>2, <1>5 DEF IInv, Sound
  <2>6. ~Storing(Main)'
    BY <1>5, <2>2 DEF Storing
  <2>7. pmPc' \in {"watchFs", "watchPoll", "ready"} =>
           got'[Main] # 0 /\ \A m \in Methods : lookup'[m] >= got'[Main]
    <3>1. pmPc' = pmPc
      BY <2>3
    <3>2. ASSUME pmPc \in {"watchFs", "watchPoll", "ready"}, NEW m \in Methods
          PROVE  lookup'[m] >= got'[Main]
      BY <1>2, <1>4, <3>2 DEF IInv, Sound, TypeOK
    <3> QED BY <1>2, <3>1, <3>2 DEF IInv, Sound
  <2>8. Sound'
    BY <1>6, <2>5, <2>6, <2>7 DEF Sound
  <2> QED BY <1>1, <1>3, <2>4, <2>8 DEF IInv
<1> QED
  BY <1>7, <1>8

\* A timer that fires starts a load that has read nothing yet.
LEMMA ReloadInv == ASSUME IInv, NEW t \in Timers, Reload(t) PROVE IInv'
<1> USE DEF fileVars, fsVars, pollVars
<1>1. TypeOK'
  BY TypeStep DEF IInv, Next
<1>2. /\ timer[t] = "armed" /\ timer' = [timer EXCEPT ![t] = "running"]
      /\ stage' = [stage EXCEPT ![t] = "read"] /\ t # Main
      /\ UNCHANGED <<fileVars, fsVars, pollVars, entry, ahead, stopPc, lookup, got, pmPc, baseline>>
  BY ManagerAssumption DEF Reload, Fire
<1>3. Linked' /\ Phases'
  BY <1>2 DEF IInv, Linked, Phases, TypeOK, WatcherTypeOK
<1>4. Bounded'
  BY <1>2 DEF IInv, Bounded, Current
<1>5. Sound'
  BY <1>2 DEF IInv, Sound, Storing, TypeOK, Current
<1> QED
  BY <1>1, <1>3, <1>4, <1>5 DEF IInv

\* The constructor's registrations, and Close, start nothing by themselves.
LEMMA LifecycleInv ==
    IInv /\ (NewFileWatcherFails \/ RegisterFs \/ RegisterPoll \/ RegisterFails \/ Close) => IInv'
<1> SUFFICES ASSUME IInv, NewFileWatcherFails \/ RegisterFs \/ RegisterPoll \/ RegisterFails \/ Close
             PROVE  IInv'
  OBVIOUS
<1> USE DEF managerVars, fileVars, fsVars, pollVars, timerVars
<1>1. TypeOK'
  BY TypeStep DEF IInv, Next
<1>2. UNCHANGED <<file, timerVars, lookup, stage, got>>
  BY DEF NewFileWatcherFails, watcherVars, RegisterFs, WatchFs, RegisterPoll, WatchPoll,
     RegisterFails, Close
<1>3. Linked'
  BY <1>2 DEF IInv, Linked
<1>4. Phases'
  <2> USE <1>2 DEF IInv, Phases
  <2>1. CASE RegisterFs
    BY <2>1 DEF NewFileWatcherFails, watcherVars, RegisterFs, WatchFs
  <2>2. CASE RegisterPoll
    BY <2>2 DEF RegisterPoll, WatchPoll
  <2>3. CASE RegisterFails
    BY <2>3 DEF RegisterFails
  <2>4. CASE Close
    BY <2>4 DEF Close
  <2>5. CASE NewFileWatcherFails
    BY <2>5 DEF NewFileWatcherFails, watcherVars
  <2> QED BY <2>1, <2>2, <2>3, <2>4, <2>5
<1>5. Bounded'
  <2>1. pollLast' \in {pollLast, Current} /\ pollSeen' = pollSeen
    BY DEF NewFileWatcherFails, watcherVars, RegisterFs, WatchFs, RegisterPoll, WatchPoll,
       RegisterFails, Close
  <2> QED BY <1>2, <2>1 DEF IInv, Bounded, Current, TypeOK, WatcherTypeOK
<1>6. Sound'
  <2>1. pmPc' \in {"watchFs", "watchPoll", "ready"} => pmPc \in {"watchFs", "watchPoll", "ready"}
    BY DEF NewFileWatcherFails, watcherVars, RegisterFs, RegisterPoll, RegisterFails, Close
  <2> QED BY <1>2, <2>1 DEF IInv, Sound, Storing, Current
<1> QED
  BY <1>1, <1>3, <1>4, <1>5, <1>6 DEF IInv

\* IInv is inductive.
LEMMA InvStep == IInv /\ [Next]_vars => IInv'
<1> SUFFICES ASSUME IInv, [Next]_vars PROVE IInv'
  OBVIOUS
<1>1. CASE UNCHANGED vars
  <2>1. TypeOK'
    BY TypeStep DEF IInv
  <2> QED
    BY <1>1, <2>1 DEF IInv, vars, watcherVars, managerVars, fileVars, fsVars, pollVars,
       timerVars, Linked, Phases, Bounded, Sound, Storing, Current
<1>2. CASE Next
  BY <1>2, ChangeInv, WatchInv, ReadInv, StoreInv, ReloadInv, LifecycleInv DEF Next, Loading
<1> QED
  BY <1>1, <1>2

\* IInv holds of every reachable state of the manager.
LEMMA InvAlways == Spec => []IInv
<1>1. Init => IInv
  BY InvInit
<1>2. IInv /\ [Next]_vars => IInv'
  BY InvStep
<1> QED
  BY <1>1, <1>2, PTL DEF Spec

-----------------------------------------------------------------------------
(* What follows from IInv alone: no assumption on how long a load takes      *)

\* Readers never find a nil pointer after construction, nor a rejected version.
THEOREM AlwaysServesAccepted == Spec => []ServesAccepted
<1>1. IInv => ServesAccepted
  <2> SUFFICES ASSUME IInv, NEW m \in Methods
               PROVE  IF lookup[m] = 0 THEN pmPc \in {"load", "failed"}
                      ELSE file[lookup[m]] = "good"
    BY DEF ServesAccepted
  <2>1. CASE lookup[m] = 0
    <3>1. got[Main] \in Nat
      BY DEF IInv, TypeOK
    <3> QED BY <2>1, <3>1 DEF IInv, TypeOK, Sound
  <2>2. CASE lookup[m] # 0
    BY <2>2 DEF IInv, Sound
  <2> QED BY <2>1, <2>2
<1> QED
  BY <1>1, InvAlways, PTL

\* Once what Stop left under way has ended, closing is final.
THEOREM CloseIsFinal == Spec => ClosedStaysQuiet
<1>1. ASSUME IInv, [Next]_vars, Drained
      PROVE  Drained' /\ UNCHANGED lookup
  <2> USE <1>1 DEF Drained, managerVars, fileVars, fsVars, pollVars, timerVars
  <2>1. /\ ~fsCallback /\ ~pollCallback /\ pmPc \in {"ready", "failed"}
        /\ \A l \in Loaders : stage[l] = "idle"
    <3>1. stage[Main] = "idle"
      BY DEF IInv, Phases
    <3>2. \A t \in Timers : stage[t] = "idle"
      BY DEF IInv, Linked
    <3> QED BY <3>1, <3>2 DEF IInv, Phases
  <2>2. CASE Changing
    BY <2>2 DEF Changing, Change, Replace, WriteInPlace
  <2>3. CASE Watching
    BY <2>1, <2>3 DEF Watching, FsLoop, PollLoop, StopStep, FsTake, FsNotify, PollRead,
       PollCompare, PollNotify, StopTimers, StopFs, StopPoll, Forget
  <2>4. CASE Loading
    BY <2>1, <2>4 DEF Loading, LoadRead, LoadStore
  <2>5. ~\E t \in Timers : Reload(t)
    BY DEF Reload, Fire
  <2>6. CASE NewFileWatcherFails \/ RegisterFs \/ RegisterPoll \/ RegisterFails \/ Close
    BY <2>1, <2>6 DEF NewFileWatcherFails, watcherVars, RegisterFs, RegisterPoll, RegisterFails, Close
  <2>7. CASE UNCHANGED vars
    BY <2>7 DEF vars, watcherVars
  <2> QED
    BY <2>2, <2>3, <2>4, <2>5, <2>6, <2>7 DEF Next
<1>2. IInv /\ [Next]_vars => [Drained => Drained' /\ UNCHANGED lookup]_vars
  BY <1>1
<1> QED
  BY <1>2, InvAlways, PTL DEF Spec, ClosedStaysQuiet

\* The manager implements the store its readers rely on: each lookup changes by
\* one swap, to the table of an accepted version.
THEOREM ManagerImplementsStore == Spec => ImplementsStore
<1>1. Init => Store!Init
  BY DEF Init, WatcherInit, Store!Init
<1>2. ASSUME IInv, [Next]_vars
      PROVE  [Store!Next]_<<file, lookup>>
  <2> USE <1>2 DEF managerVars, fileVars, fsVars, pollVars, timerVars
  <2>1. CASE Changing
    BY <2>1 DEF Changing, Change, Replace, WriteInPlace, Store!Next, Store!Publish
  <2>2. CASE Watching
    BY <2>2 DEF Watching, FsLoop, PollLoop, StopStep, FsTake, FsNotify, PollRead,
       PollCompare, PollNotify, StopTimers, StopFs, StopPoll, Forget
  <2>3. ASSUME NEW l \in Loaders, LoadRead(l)
        PROVE  UNCHANGED <<file, lookup>>
    BY <2>3 DEF LoadRead
  <2>4. ASSUME NEW l \in Loaders, LoadStore(l)
        PROVE  Store!Next
    <3>1. /\ lookup' = [lookup EXCEPT ![stage[l]] = got[l]] /\ stage[l] \in Methods
          /\ UNCHANGED file
      BY <2>4 DEF LoadStore
    <3>2. got[l] \in 1..Len(file) /\ file[got[l]] = "good"
      BY <3>1 DEF IInv, Sound, Storing, Bounded, TypeOK, WatcherTypeOK, Current
    <3>3. Store!Swap(stage[l])
      BY <3>1, <3>2 DEF Store!Swap, Store!Accepted
    <3> QED BY <3>1, <3>3 DEF Store!Next
  <2>5. CASE \E t \in Timers : Reload(t)
    BY <2>5 DEF Reload, Fire
  <2>6. CASE NewFileWatcherFails \/ RegisterFs \/ RegisterPoll \/ RegisterFails \/ Close
    BY <2>6 DEF NewFileWatcherFails, watcherVars, RegisterFs, WatchFs, RegisterPoll, WatchPoll,
       RegisterFails, Close
  <2>7. CASE UNCHANGED vars
    BY <2>7 DEF vars, watcherVars
  <2> QED
    BY <2>1, <2>2, <2>3, <2>4, <2>5, <2>6, <2>7 DEF Next, Loading
<1>3. IInv /\ [Next]_vars => [Store!Next]_<<file, lookup>>
  BY <1>2
<1> QED
  BY <1>1, <1>3, InvAlways, PTL DEF Spec, ImplementsStore, Store!Spec

-----------------------------------------------------------------------------
(* Convergence, where a load returns within the debounce period              *)

\* Re-arming passes the duty on: whatever load is still to store an old version
\* runs already, so the new timer waits for it.
LEMMA RearmCovers ==
    ASSUME IInv, Rearm, UNCHANGED <<file, stage, got>>
    PROVE  Covered'
<1>1. PICK t \in Timers : timer'[t] = "armed" /\ ahead'[t] = Running
  BY DEF Rearm, IInv, TypeOK, WatcherTypeOK
<1>2. Stale' \subseteq Running
  BY DEF Stale, Storing, Running, IInv, Linked, Current
<1> QED
  BY <1>1, <1>2 DEF Covered

\* A new version is one that polling has not seen.
LEMMA ChangeCovers ==
    ASSUME IInv, Changing
    PROVE  Covered'
<1>1. PICK k \in Kinds : Change(k)
  BY DEF Changing
<1>2. file' = Append(file, k) /\ pollLast' = pollLast
  BY <1>1 DEF Change, Replace, WriteInPlace, pollVars
<1>3. Current' = Current + 1
  BY <1>1, <1>2, AppendVersion DEF IInv, Change, Replace, WriteInPlace, Current
<1>4. pollLast' # Current'
  BY <1>2, <1>3 DEF IInv, Bounded, TypeOK, WatcherTypeOK
<1> QED
  BY <1>4 DEF Covered

\* The loops keep the duty or hand it to a timer.
LEMMA WatchCovers ==
    ASSUME IInv, Watching, Covered, stopPc = "open", pollCallback
    PROVE  Covered'
<1> USE DEF managerVars, fileVars, fsVars, pollVars, timerVars
<1>1. UNCHANGED <<file, managerVars>> /\ Current' = Current
  BY DEF Watching, FsLoop, PollLoop, StopStep, FsTake, FsNotify, PollRead, PollCompare,
     PollNotify, StopTimers, StopFs, StopPoll, Forget, Current
<1>2. Stale' = Stale
  BY <1>1 DEF Stale, Storing
<1>3. CASE FsTake
  BY <1>1, <1>2, <1>3 DEF FsTake, Covered, Storing
<1>4. CASE FsNotify \/ PollNotify
  BY <1>1, <1>4, RearmCovers DEF FsNotify, PollNotify
<1>5. CASE PollRead
  BY <1>1, <1>2, <1>5 DEF PollRead, Covered, Storing
<1>6. CASE PollCompare
  <2>1. CASE pollSeen # Current
    BY <1>1, <1>6, <2>1 DEF PollCompare, Covered
  <2>2. CASE pollSeen = Current /\ pollLast # Current
    BY <1>6, <2>2 DEF PollCompare, Covered
  <2>3. CASE pollSeen = Current /\ pollLast = Current
    BY <1>1, <1>2, <1>6, <2>3 DEF PollCompare, Covered, Storing
  <2> QED BY <2>1, <2>2, <2>3
<1>7. ASSUME NEW t \in Timers, Forget(t)
      PROVE  Covered'
  <2>1. /\ timer[t] = "returned" /\ timer' = [timer EXCEPT ![t] = "free"]
        /\ ahead' = [x \in Timers |-> ahead[x] \ {t}]
        /\ UNCHANGED <<fileVars, fsVars, pollVars>>
    BY <1>7 DEF Forget
  <2>2. t \notin Stale
    BY <2>1 DEF IInv, Linked, Stale, Storing
  <2>3. ASSUME NEW u \in Timers, timer[u] = "armed", Stale \subseteq ahead[u]
        PROVE  timer'[u] = "armed" /\ Stale' \subseteq ahead'[u]
    BY <1>2, <2>1, <2>2, <2>3 DEF IInv, TypeOK, WatcherTypeOK
  <2>4. CASE \E u \in Timers : timer[u] = "armed" /\ Stale \subseteq ahead[u]
    BY <2>3, <2>4 DEF Covered
  <2>5. CASE ~\E u \in Timers : timer[u] = "armed" /\ Stale \subseteq ahead[u]
    BY <1>1, <1>2, <2>1, <2>5 DEF Covered, Storing
  <2> QED BY <2>4, <2>5
<1> QED
  BY <1>3, <1>4, <1>5, <1>6, <1>7
  DEF Watching, FsLoop, PollLoop, StopStep, StopTimers, StopFs, StopPoll

\* A load that reads while the file on disk is good takes the duty over.
LEMMA ReadCovers ==
    ASSUME IInv, NEW t \in Timers, LoadRead(t), Covered, file[Current] = "good"
    PROVE  Covered'
<1> USE DEF fileVars, fsVars, pollVars, timerVars
<1>1. /\ stage[t] = "read" /\ stage' = [stage EXCEPT ![t] = "noauth"]
      /\ got' = [got EXCEPT ![t] = Current] /\ Current' = Current
      /\ UNCHANGED <<fileVars, fsVars, pollVars, timerVars, lookup>>
  BY DEF LoadRead, Current
<1>2. Stale' = Stale
  BY <1>1 DEF Stale, Storing, IInv, TypeOK
<1>3. CASE stage[t] = "read" /\ Stale = {}
  <2>1. Storing(t)' /\ got'[t] = Current' /\ StoredBefore[stage'[t]] = {}
    BY <1>1 DEF Storing, StoredBefore, IInv, TypeOK
  <2> QED BY <1>2, <1>3, <2>1 DEF Covered
<1>4. CASE Stale # {}
  BY <1>1, <1>2, <1>4 DEF Covered
<1> QED
  BY <1>1, <1>3, <1>4

\* A store of the current version advances towards serving it; a store of an
\* older one is made while another holder of the duty waits.
LEMMA StoreCovers ==
    ASSUME IInv, NEW t \in Timers, LoadStore(t), Covered
    PROVE  Covered'
<1> USE DEF fileVars, fsVars, pollVars, timerVars
<1>1. /\ stage[t] \in Methods /\ lookup' = [lookup EXCEPT ![stage[t]] = got[t]]
      /\ stage' = [stage EXCEPT ![t] = NextStage[stage[t]]] /\ Current' = Current
      /\ UNCHANGED <<fileVars, fsVars, pollVars, ahead, got>>
  BY ManagerAssumption DEF LoadStore, LoadReturns, Current
<1>2. \A u \in Timers : timer[u] = "armed" => timer'[u] = "armed"
  <2>1. timer[t] = "running"
    BY <1>1 DEF IInv, Linked
  <2>2. UNCHANGED timer \/ timer' = [timer EXCEPT ![t] = "returned"]
    BY ManagerAssumption DEF LoadStore, LoadReturns, Return
  <2> QED BY <2>1, <2>2 DEF IInv, TypeOK, WatcherTypeOK
<1>3. Stale' \subseteq Stale
  BY <1>1 DEF Stale, Storing, NextStage, IInv, TypeOK
<1>4. \A u \in Timers : u # t => stage'[u] = stage[u]
  BY <1>1 DEF IInv, TypeOK
<1>5. CASE pollLast # Current \/ fsPc = "notify" \/ pollPc = "notify"
  BY <1>1, <1>5 DEF Covered
<1>6. CASE \E u \in Timers : timer[u] = "armed" /\ Stale \subseteq ahead[u]
  BY <1>1, <1>2, <1>3, <1>6 DEF Covered
<1>7. CASE Stale = {}
  <2>1. Stale' = {} /\ got[t] = Current
    BY <1>1, <1>3, <1>7 DEF Stale, Storing
  <2>2. \A m \in Methods : lookup[m] = Current \/ m = stage[t] => lookup'[m] = Current
    BY <1>1, <2>1 DEF IInv, TypeOK
  <2>3. CASE \E u \in Timers : stage[u] = "read"
    BY <1>1, <1>4, <2>1, <2>3 DEF Covered
  <2>4. ASSUME NEW u \in Timers, Storing(u), got[u] = Current,
               \A m \in StoredBefore[stage[u]] : lookup[m] = Current
        PROVE  Covered'
    <3>1. CASE u # t
      <4>1. \A m \in StoredBefore[stage'[u]] : lookup'[m] = Current
        BY <1>4, <2>2, <2>4, <3>1 DEF StoredBefore, Storing
      <4> QED BY <1>1, <1>4, <2>1, <2>4, <3>1, <4>1 DEF Covered, Storing
    <3>2. CASE u = t /\ stage[t] = "nkey"
      <4>1. \A m \in Methods : lookup'[m] = Current
        BY <2>2, <2>4, <3>2 DEF StoredBefore
      <4> QED BY <1>1, <2>1, <4>1 DEF Covered
    <3>3. CASE u = t /\ stage[t] # "nkey"
      <4>1. stage'[t] \in Methods /\ got'[t] = Current'
        BY <1>1, <2>1, <3>3 DEF NextStage, IInv, TypeOK
      <4>2. StoredBefore[stage'[t]] = StoredBefore[stage[t]] \cup {stage[t]}
        BY <1>1, <3>3 DEF NextStage, StoredBefore, IInv, TypeOK
      <4>3. \A m \in StoredBefore[stage[t]] \cup {stage[t]} : m \in Methods
        BY <1>1 DEF StoredBefore
      <4>4. \A m \in StoredBefore[stage'[t]] : lookup'[m] = Current'
        BY <1>1, <2>2, <2>4, <3>3, <4>2, <4>3
      <4> QED BY <2>1, <4>1, <4>4 DEF Covered, Storing
    <3> QED BY <3>1, <3>2, <3>3
  <2>5. CASE \A m \in Methods : lookup[m] = Current
    BY <1>1, <2>1, <2>2, <2>5 DEF Covered
  <2> QED BY <1>5, <1>6, <2>3, <2>4, <2>5 DEF Covered
<1> QED
  BY <1>5, <1>6, <1>7 DEF Covered

\* A timer fires after the loads it waited for: what it reads is stored last.
LEMMA ReloadCovers ==
    ASSUME LoadsBeatDebounce, IInv, NEW t \in Timers, Reload(t), Covered
    PROVE  Covered'
<1> USE DEF fileVars, fsVars, pollVars
<1>1. /\ timer[t] = "armed" /\ timer' = [timer EXCEPT ![t] = "running"]
      /\ stage' = [stage EXCEPT ![t] = "read"] /\ ahead[t] \cap Running = {}
      /\ UNCHANGED <<fileVars, fsVars, pollVars, ahead, lookup, got>> /\ Current' = Current
  BY DEF Reload, Fire, Current
<1>2. stage[t] = "idle"
  BY <1>1 DEF IInv, Linked
<1>3. Stale' = Stale
  BY <1>1, <1>2 DEF Stale, Storing, IInv, TypeOK
<1>4. Stale \subseteq Running
  BY DEF Stale, Storing, Running, IInv, Linked
<1>5. stage'[t] = "read"
  BY <1>1 DEF IInv, TypeOK
<1>6. CASE Stale = {}
  BY <1>3, <1>5, <1>6 DEF Covered
<1>7. CASE \E u \in Timers : timer[u] = "armed" /\ Stale \subseteq ahead[u]
  <2>1. PICK u \in Timers : timer[u] = "armed" /\ Stale \subseteq ahead[u]
    BY <1>7
  <2>2. CASE u = t
    BY <1>1, <1>4, <1>6, <2>1, <2>2
  <2>3. CASE u # t
    BY <1>1, <1>3, <2>1, <2>3 DEF Covered, IInv, TypeOK, WatcherTypeOK
  <2> QED BY <2>2, <2>3
<1>8. CASE pollLast # Current \/ fsPc = "notify" \/ pollPc = "notify"
  BY <1>1, <1>8 DEF Covered
<1> QED
  BY <1>6, <1>7, <1>8 DEF Covered

\* The obligation is inductive relative to IInv.
LEMMA ObligationStep ==
    ASSUME LoadsBeatDebounce, IInv, Obligation, [Next]_vars
    PROVE  Obligation'
<1> SUFFICES ASSUME pmPc' = "ready", stopPc' = "open", file'[Current'] = "good",
                    Current' > baseline'
             PROVE  Covered'
  BY DEF Obligation
<1> USE DEF managerVars, fileVars, fsVars, pollVars, timerVars
<1>1. CASE Changing
  BY <1>1, ChangeCovers
<1>2. CASE RegisterPoll
  BY <1>2 DEF RegisterPoll, WatchPoll, Current, IInv, TypeOK, WatcherTypeOK
<1>3. CASE NewFileWatcherFails \/ RegisterFs \/ RegisterFails \/ Close
  BY <1>3 DEF NewFileWatcherFails, watcherVars, RegisterFs, RegisterFails, Close
<1>4. ASSUME pmPc = "ready", UNCHANGED <<file, stopPc, baseline>>
      PROVE  /\ Covered /\ stopPc = "open" /\ file[Current] = "good" /\ pollCallback
  BY <1>4 DEF Obligation, IInv, Phases, Current
<1>5. CASE Watching
  <2>1. UNCHANGED managerVars /\ UNCHANGED file
    BY <1>5 DEF Watching, FsLoop, PollLoop, StopStep, FsTake, FsNotify, PollRead,
       PollCompare, PollNotify, StopTimers, StopFs, StopPoll, Forget
  <2>2. UNCHANGED stopPc
    BY <1>5 DEF Watching, FsLoop, PollLoop, StopStep, FsTake, FsNotify, PollRead,
       PollCompare, PollNotify, StopTimers, StopFs, StopPoll, Forget
  <2> QED BY <1>4, <1>5, <2>1, <2>2, WatchCovers
<1>6. ASSUME NEW l \in Loaders, LoadRead(l) \/ LoadStore(l)
      PROVE  Covered'
  <2>1. CASE l = Main
    <3>1. stage[Main] # "idle" /\ pmPc = "load"
      BY <1>6, <2>1 DEF LoadRead, LoadStore, IInv, Phases
    <3> QED BY <1>6, <2>1, <3>1 DEF LoadRead, LoadStore, LoadReturns
  <2>2. CASE l \in Timers
    <3>1. UNCHANGED <<file, stopPc, baseline, pmPc>>
      BY <1>6, <2>2, ManagerAssumption DEF LoadRead, LoadStore, LoadReturns
    <3> QED BY <1>4, <1>6, <2>2, <3>1, ReadCovers, StoreCovers
  <2> QED BY <2>1, <2>2
<1>7. ASSUME NEW t \in Timers, Reload(t)
      PROVE  Covered'
  <2>1. UNCHANGED <<file, stopPc, baseline, pmPc>>
    BY <1>7 DEF Reload, Fire
  <2> QED BY <1>4, <1>7, <2>1, ReloadCovers
<1>8. CASE UNCHANGED vars
  BY <1>4, <1>8 DEF vars, watcherVars, Covered, Stale, Storing, Current
<1> QED
  BY <1>1, <1>2, <1>3, <1>5, <1>6, <1>7, <1>8 DEF Next, Loading

\* Hot reload converges, for every number of timers and versions, where a load
\* returns within the debounce period.  The slow_reload run shows that it need
\* not without that assumption.
THEOREM HotReloadConverges == ASSUME LoadsBeatDebounce PROVE Spec => []Converged
<1>1. Init => Obligation
  BY DEF Init, Obligation
<1>2. IInv /\ Obligation /\ [Next]_vars => Obligation'
  BY ObligationStep
<1>3. IInv /\ Obligation => Converged
  <2> SUFFICES ASSUME IInv, Obligation, Quiet, Announced, file[Current] = "good"
               PROVE  \A m \in Methods : lookup[m] = Current
    BY DEF Converged
  <2>1. \A t \in Timers : timer[t] # "armed" /\ stage[t] = "idle"
    BY DEF Quiet, IInv, Linked
  <2>2. CASE Current > baseline
    BY <2>1, <2>2 DEF Obligation, Covered, Quiet, Storing
  <2>3. CASE Current = got[Main]
    <3>1. pmPc = "ready" /\ got[Main] # 0
      BY DEF Quiet, IInv, Sound
    <3> SUFFICES ASSUME NEW m \in Methods PROVE lookup[m] = Current
      OBVIOUS
    <3>2. lookup[m] >= got[Main] /\ lookup[m] \in Nat /\ got[Main] \in Nat /\ Current \in Nat
      BY <3>1 DEF IInv, Sound, TypeOK, WatcherTypeOK
    <3>3. lookup[m] <= Current
      BY <3>1, <3>2 DEF IInv, Sound
    <3> QED BY <2>3, <3>2, <3>3
  <2> QED BY <2>2, <2>3 DEF Announced
<1> QED
  BY <1>1, <1>2, <1>3, InvAlways, PTL DEF Spec
=============================================================================
