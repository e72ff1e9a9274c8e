------------------------- MODULE PermissionsManager -------------------------
(***************************************************************************)
(* The permissions manager of the auth callout: the initial load, the       *)
(* watcher it registers, the reloads the debounce timers run, the four      *)
(* lookups the authenticators read, and Close.                              *)
(*                                                                          *)
(* A load reads the file once and then works on its own copy, so reading,   *)
(* parsing and building the tables is one step; the four Store calls are    *)
(* four steps, between which other loads and the readers run.  A table is   *)
(* the version it was built from.                                           *)
(***************************************************************************)
EXTENDS FileWatcher

CONSTANT Main       \* the goroutine that runs NewPermissionsManager

ASSUME ManagerAssumption == Main \notin Timers

VARIABLES
    lookup,     \* lookup[m]: version the pointer of method m serves; 0 is nil
    stage,      \* stage[l]: what the load of goroutine l does next
    got,        \* got[l]: version the load of l read
    pmPc,       \* "load", "watchFs", "watchPoll", "ready" or "failed"
    baseline    \* history: the version polling was registered on; 0 before

managerVars == <<lookup, stage, got, pmPc, baseline>>
vars == <<watcherVars, managerVars>>

Methods == {"noauth", "oauth2", "mtls", "nkey"}
Loaders == Timers \cup {Main}

\* The order of the Store calls at the end of load: noauth first, then the
\* three "atomic swaps".
NextStage == [noauth |-> "oauth2", oauth2 |-> "mtls", mtls |-> "nkey", nkey |-> "idle"]

TypeOK ==
    /\ WatcherTypeOK
    /\ lookup \in [Methods -> 0..MaxVersions]
    /\ stage \in [Loaders -> {"idle", "read"} \cup Methods]
    /\ got \in [Loaders -> 0..MaxVersions]
    /\ pmPc \in {"load", "watchFs", "watchPoll", "ready", "failed"}
    /\ baseline \in 0..MaxVersions

Init ==
    /\ WatcherInit
    /\ lookup = [m \in Methods |-> 0]
    /\ stage = [l \in Loaders |-> IF l = Main THEN "read" ELSE "idle"]
    /\ got = [l \in Loaders |-> 0]
    /\ pmPc = "load"
    /\ baseline = 0

-----------------------------------------------------------------------------
(* load                                                                     *)

\* load returns: to NewPermissionsManager, or to the timer's function.
LoadReturns(l, ok) ==
    IF l = Main
    THEN /\ pmPc' = IF ok THEN "watchFs" ELSE "failed"
         /\ UNCHANGED timerVars
    ELSE /\ Return(l)
         /\ UNCHANGED <<entry, ahead, pmPc>>

\* MUTANT: a file that load rejects is stored all the same.
LoadReadUnvalidated(l) ==
    /\ stage[l] = "read"
    /\ got' = [got EXCEPT ![l] = Current]
    /\ stage' = [stage EXCEPT ![l] = "noauth"]
    /\ UNCHANGED <<watcherVars, lookup, pmPc, baseline>>

\* MUTANT: the lookups are emptied before they are built again.
LoadReadClears(l) ==
    /\ stage[l] = "read"
    /\ IF file[Current] = "good"
       THEN /\ got' = [got EXCEPT ![l] = Current]
            /\ stage' = [stage EXCEPT ![l] = "noauth"]
            /\ lookup' = [m \in Methods |-> 0]
            /\ UNCHANGED <<timerVars, pmPc>>
       ELSE /\ stage' = [stage EXCEPT ![l] = "idle"]
            /\ LoadReturns(l, FALSE)
            /\ UNCHANGED <<got, lookup>>
    /\ UNCHANGED <<fileVars, fsVars, pollVars, stopPc, baseline>>

\* ReadFile, Unmarshal and the three table loops.  Any error returns before
\* the first Store.
LoadRead(l) ==
    /\ stage[l] = "read"
    /\ IF file[Current] = "good"
       THEN /\ got' = [got EXCEPT ![l] = Current]
            /\ stage' = [stage EXCEPT ![l] = "noauth"]
            /\ UNCHANGED <<timerVars, pmPc>>
       ELSE /\ stage' = [stage EXCEPT ![l] = "idle"]
            /\ LoadReturns(l, FALSE)
            /\ UNCHANGED got
    /\ UNCHANGED <<fileVars, fsVars, pollVars, stopPc, lookup, baseline>>

\* The next Store; load returns nil after the last.
LoadStore(l) ==
    /\ stage[l] \in Methods
    /\ lookup' = [lookup EXCEPT ![stage[l]] = got[l]]
    /\ stage' = [stage EXCEPT ![l] = NextStage[stage[l]]]
    /\ IF stage[l] = "nkey"
       THEN LoadReturns(l, TRUE)
       ELSE UNCHANGED <<timerVars, pmPc>>
    /\ UNCHANGED <<fileVars, fsVars, pollVars, stopPc, got, baseline>>

\* A debounce timer fires and calls the callback, which calls load.
Reload(t) ==
    /\ Fire(t)
    /\ stage' = [stage EXCEPT ![t] = "read"]
    /\ UNCHANGED <<lookup, got, pmPc, baseline>>

-----------------------------------------------------------------------------
(* NewPermissionsManager after the initial load, and Close                  *)

\* NewFileWatcher has no inotify instance: the manager is given up, with the
\* tables of the initial load and without a watcher to stop.
NewFileWatcherFails ==
    /\ pmPc = "watchFs"
    /\ pmPc' = "failed"
    /\ UNCHANGED <<watcherVars, lookup, stage, got, baseline>>

RegisterFs ==
    /\ pmPc = "watchFs"
    /\ WatchFs
    /\ pmPc' = "watchPoll"
    /\ UNCHANGED <<lookup, stage, got, baseline>>

RegisterPoll ==
    /\ pmPc = "watchPoll"
    /\ WatchPoll
    /\ pmPc' = "ready"
    /\ baseline' = Current
    /\ UNCHANGED <<lookup, stage, got>>

\* WatchFile fails on a file that does not open: fw.Stop() and an error.
RegisterFails ==
    /\ pmPc \in {"watchFs", "watchPoll"}
    /\ ~Readable
    /\ pmPc' = "failed"
    /\ stopPc' = "timers"
    /\ UNCHANGED <<fileVars, fsVars, pollVars, timerVars, lookup, stage, got, baseline>>

Close ==
    /\ pmPc = "ready" /\ stopPc = "open"
    /\ stopPc' = "timers"
    /\ UNCHANGED <<fileVars, fsVars, pollVars, timerVars, managerVars>>

-----------------------------------------------------------------------------
Watching ==
    /\ FsLoop \/ PollLoop \/ StopStep \/ (\E t \in Timers : Forget(t))
    /\ UNCHANGED managerVars

Changing == (\E k \in Kinds : Change(k)) /\ UNCHANGED managerVars

Loading == \E l \in Loaders : LoadRead(l) \/ LoadStore(l)

Next ==
    \/ Changing
    \/ Watching
    \/ Loading
    \/ \E t \in Timers : Reload(t)
    \/ NewFileWatcherFails \/ RegisterFs \/ RegisterPoll \/ RegisterFails
    \/ Close

Spec == Init /\ [][Next]_vars

\* Every goroutine that can take its next step takes it: the two loops, each
\* timer, the load it runs, the constructor, and Stop once it was called.
\* Nothing makes the file change or the service close.
Fairness ==
    /\ WF_vars(FsLoop /\ UNCHANGED managerVars)
    /\ WF_vars(PollLoop /\ UNCHANGED managerVars)
    /\ WF_vars(StopStep /\ UNCHANGED managerVars)
    /\ \A t \in Timers :
        /\ WF_vars(Reload(t))
        /\ WF_vars(Forget(t) /\ UNCHANGED managerVars)
    /\ \A l \in Loaders : WF_vars(LoadRead(l) \/ LoadStore(l))
    /\ WF_vars(RegisterFs \/ RegisterPoll \/ RegisterFails)

FairSpec == Spec /\ Fairness

-----------------------------------------------------------------------------
(* Properties                                                               *)

\* Nothing that will lead to a load is outstanding, and no load runs.
Quiet ==
    /\ pmPc = "ready" /\ stopPc = "open"
    /\ fsQueue = 0 /\ fsPc = "idle"
    /\ pollPc = "idle" /\ pollLast = Current
    /\ \A t \in Timers : timer[t] \in {"free", "returned"}

\* The version on disk is one the manager answers for: it is the one the
\* constructor loaded, or it appeared after polling was registered.
Announced == Current = got[Main] \/ Current > baseline

\* Hot reload converges.  Once every event has been handled and no load runs,
\* all four lookups serve the file on disk, if load accepts it: no change is
\* lost between the watchers and the debouncer, and no slow or overlapping
\* load has left an older table behind (permissions.go:104-112, 192-200).
Converged ==
    Quiet /\ Announced /\ file[Current] = "good"
        => \A m \in Methods : lookup[m] = Current

\* TestPermissionsManagerReloadsKubernetesConfigMapVolume requires that the
\* version on disk is served in the end, with no exception for one published
\* while the manager starts (permissions_test.go:32-37).  The code violates it:
\* polling takes a version that appeared after the initial load as its baseline
\* (permissions.go:94-104, polling_watcher.go:71-79).
CaughtUp ==
    Quiet /\ file[Current] = "good" => \A m \in Methods : lookup[m] = Current

\* Once the manager is constructed no reader finds a nil pointer, and what it
\* finds was built from a version load accepts: a bad or missing file never
\* replaces or clears a table (permissions.go:123-131, 142-144).
ServesAccepted ==
    \A m \in Methods :
        IF lookup[m] = 0 THEN pmPc \in {"load", "failed"} ELSE file[lookup[m]] = "good"

\* debounced_watcher.go:57 says "Stop stops all debounce timers and the inner
\* watcher": when Stop is done no timer can still fire.  The code violates it:
\* a loop that holds the callback arms a timer after StopTimers has run, and a
\* timer that ends may have deleted the entry of a newer one.
NoTimerAfterStop == stopPc = "done" => \A t \in Timers : timer[t] # "armed"

\* What the manager promises its readers.
Store == INSTANCE PermissionsStore
ImplementsStore == Store!Spec

\* A version that stays on disk is served by every method in the end, unless
\* the manager is closed first (TestPermissionsManagerReloadsKubernetesConfigMapVolume).
EventuallyServed ==
    \A v \in 1..MaxVersions :
        (pmPc = "ready" /\ Current = v /\ v > baseline /\ file[v] = "good")
            ~> (\/ Current # v
                \/ stopPc # "open"
                \/ \A m \in Methods : lookup[m] = v)

\* Stop is done and nothing it did not reach is left: no loop holds a callback
\* and no timer is armed or runs.
Drained ==
    /\ stopPc = "done"
    /\ fsPc # "notify" /\ pollPc # "notify"
    /\ \A t \in Timers : timer[t] = "free"

\* Closing is final.  What Stop leaves under way (see NoTimerAfterStop) ends,
\* and once it has, nothing starts again and the lookups never change
\* (permissions.go:266-268, composite_watcher.go:45-58).
ClosedStaysQuiet == [][Drained => Drained' /\ UNCHANGED lookup]_vars
=============================================================================
