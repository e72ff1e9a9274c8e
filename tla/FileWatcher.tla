---------------------------- MODULE FileWatcher ----------------------------
(***************************************************************************)
(* The file watcher NewFileWatcher builds for the permissions file: an     *)
(* fsnotify watcher and a polling watcher under a composite, under a       *)
(* debouncer, with one path and one callback.  Five goroutines share it:   *)
(* the fsnotify loop, the polling loop, the goroutine of every debounce    *)
(* timer that fired, and the caller of WatchFile and Stop.  The callback   *)
(* itself is the next module's; here a timer only starts to run it and,    *)
(* once it has returned, forgets the map entry.                            *)
(*                                                                         *)
(* The path is a history of versions.  A version is what                   *)
(* fileStateFrom tells apart (modification time and hash), so every change *)
(* is a new one; its kind is what a reader gets from it.                   *)
(***************************************************************************)
EXTENDS Integers, Sequences

CONSTANTS
    Timers,             \* identities of the debounce timers (a bound: how many at once)
    NoTimer,            \* no timer stored for the path in debounceTimers
    MaxVersions,        \* bound on the number of versions of the file
    LoadsBeatDebounce   \* TRUE: a callback returns within the debounce period

ASSUME WatcherAssumption ==
    /\ NoTimer \notin Timers
    /\ MaxVersions \in Nat \ {0}
    /\ LoadsBeatDebounce \in BOOLEAN

VARIABLES
    file,          \* file[v]: kind of the v-th version; the last one is on disk
    fsWatched,     \* the inotify watch is on the inode the path names
    fsCallback,    \* FSNotifyWatcher.callbacks holds the path
    fsQueue,       \* Write events not yet taken from watcher.Events
    fsPc,          \* "idle" or "notify": handleFileChange holds the callback
    pollCallback,  \* PollingWatcher.callbacks holds the path
    pollLast,      \* PollingWatcher.lastState[path]; 0 is the zero fileState
    pollPc,        \* "idle", "compare" or "notify": where checkFiles is
    pollSeen,      \* current, the state checkFiles read
    timer,         \* timer[t]: "free", "armed", "running" or "returned"
    entry,         \* debounceTimers[path]
    ahead,         \* ahead[t]: callbacks that run since before t was armed
    stopPc         \* "open", then where Stop is: "timers", "fs", "poll", "done"

fileVars  == <<file, fsWatched, fsQueue>>
fsVars    == <<fsCallback, fsPc>>
pollVars  == <<pollCallback, pollLast, pollPc, pollSeen>>
timerVars == <<timer, entry, ahead>>
watcherVars == <<fileVars, fsVars, pollVars, timerVars, stopPc>>

\* "good": load accepts it.  "bad": it opens, and load rejects it (cut short,
\* not JSON, an OAuth2 entry without subject and azp).  "gone": it does not open.
Kinds == {"good", "bad", "gone"}

Current == Len(file)
Readable == file[Current] # "gone"

WatcherTypeOK ==
    /\ file \in Seq(Kinds) /\ Current \in 1..MaxVersions
    /\ fsWatched \in BOOLEAN /\ fsCallback \in BOOLEAN
    /\ fsQueue \in Nat /\ fsPc \in {"idle", "notify"}
    /\ pollCallback \in BOOLEAN
    /\ pollLast \in 0..MaxVersions /\ pollSeen \in 0..MaxVersions
    /\ pollPc \in {"idle", "compare", "notify"}
    /\ timer \in [Timers -> {"free", "armed", "running", "returned"}]
    /\ entry \in Timers \cup {NoTimer}
    /\ ahead \in [Timers -> SUBSET Timers]
    /\ stopPc \in {"open", "timers", "fs", "poll", "done"}

WatcherInit ==
    /\ file \in {<<k>> : k \in Kinds}
    /\ fsWatched = FALSE /\ fsCallback = FALSE /\ fsQueue = 0 /\ fsPc = "idle"
    /\ pollCallback = FALSE /\ pollLast = 0 /\ pollPc = "idle" /\ pollSeen = 0
    /\ timer = [t \in Timers |-> "free"]
    /\ entry = NoTimer
    /\ ahead = [t \in Timers |-> {}]
    /\ stopPc = "open"

-----------------------------------------------------------------------------
(* The file changes under the watcher.                                      *)

\* The kubelet swaps the ..data link, or the file is removed: the path names
\* another inode, whose writes the old inotify watch does not report.  The
\* events of the old inode (attribute change, removal) are not Write or Create.
Replace(k) ==
    /\ Current < MaxVersions
    /\ file' = Append(file, k)
    /\ fsWatched' = FALSE
    /\ UNCHANGED <<fsQueue, fsVars, pollVars, timerVars, stopPc>>

\* os.WriteFile on the path: a truncation, then the data, each a Write event;
\* the kernel may fold an event into an equal one that is still unread.
WriteInPlace(k) ==
    /\ Current < MaxVersions
    /\ Readable /\ k # "gone"
    /\ file' = Append(file, k)
    /\ fsQueue' \in IF fsWatched THEN {fsQueue + 1} \cup ({fsQueue} \ {0}) ELSE {fsQueue}
    /\ UNCHANGED <<fsWatched, fsVars, pollVars, timerVars, stopPc>>

Change(k) == Replace(k) \/ WriteInPlace(k)

-----------------------------------------------------------------------------
(* WatchFile, layer by layer: the debouncer wraps the callback, and the     *)
(* composite registers it with fsnotify, then with polling.                 *)

WatchFs ==
    /\ Readable
    /\ fsCallback' = TRUE
    /\ fsWatched' = TRUE
    /\ UNCHANGED <<file, fsQueue, fsPc, pollVars, timerVars, stopPc>>

\* MUTANT: only the baseline is recorded, and polling never calls back.
WatchPollNoCallback ==
    /\ Readable
    /\ pollLast' = Current
    /\ UNCHANGED <<fileVars, fsVars, pollCallback, pollPc, pollSeen, timerVars, stopPc>>

\* The baseline is the state at registration, not the one the caller loaded.
WatchPoll ==
    /\ Readable
    /\ pollCallback' = TRUE
    /\ pollLast' = Current
    /\ UNCHANGED <<fileVars, fsVars, pollPc, pollSeen, timerVars, stopPc>>

-----------------------------------------------------------------------------
(* The debouncer.                                                           *)

Running == {x \in Timers : timer[x] = "running"}

\* A slot for a new time.AfterFunc: unused, or freed by this very call's Stop.
Available(t) == timer[t] = "free" \/ (t = entry /\ timer[t] = "armed")

\* MUTANT: an event that finds an entry for the path is dropped, not deferred.
RearmLeadingEdge ==
    IF entry # NoTimer
    THEN UNCHANGED timerVars
    ELSE \E t \in {x \in Timers : timer[x] = "free"} :
            /\ timer' = [timer EXCEPT ![t] = "armed"]
            /\ entry' = t
            /\ ahead' = [ahead EXCEPT ![t] = Running]

\* wrapped: under d.mutex, stop the timer of the path's entry (a timer that
\* has already fired does not stop) and put a new one in its place.
Rearm ==
    \E t \in Timers :
        /\ Available(t)
        /\ timer' = [x \in Timers |->
                        IF x = t THEN "armed"
                        ELSE IF x = entry /\ timer[x] = "armed" THEN "free"
                        ELSE timer[x]]
        /\ entry' = t
        /\ ahead' = [ahead EXCEPT ![t] = Running]

\* The timer's function starts.  Where callbacks return within the debounce
\* period, those that ran when t was armed have returned by now.
Fire(t) ==
    /\ timer[t] = "armed"
    /\ LoadsBeatDebounce => ahead[t] \cap Running = {}
    /\ timer' = [timer EXCEPT ![t] = "running"]
    /\ UNCHANGED <<fileVars, fsVars, pollVars, entry, ahead, stopPc>>

Return(t) == timer' = [timer EXCEPT ![t] = "returned"]

\* The end of the timer's function: delete(d.debounceTimers, path), whichever
\* timer the entry holds by then.
Forget(t) ==
    /\ timer[t] = "returned"
    /\ timer' = [timer EXCEPT ![t] = "free"]
    /\ entry' = NoTimer
    /\ ahead' = [x \in Timers |-> ahead[x] \ {t}]
    /\ UNCHANGED <<fileVars, fsVars, pollVars, stopPc>>

-----------------------------------------------------------------------------
(* The fsnotify loop: processEvents, handleFileChange.                      *)

\* MUTANT: the loop does not wait for an event.
FsTakeUnguarded ==
    /\ fsPc = "idle"
    /\ fsQueue' = fsQueue - 1
    /\ fsPc' = IF fsCallback THEN "notify" ELSE "idle"
    /\ UNCHANGED <<file, fsWatched, fsCallback, pollVars, timerVars, stopPc>>

FsTake ==
    /\ fsPc = "idle" /\ fsQueue > 0
    /\ fsQueue' = fsQueue - 1
    /\ fsPc' = IF fsCallback THEN "notify" ELSE "idle"
    /\ UNCHANGED <<file, fsWatched, fsCallback, pollVars, timerVars, stopPc>>

FsNotify ==
    /\ fsPc = "notify"
    /\ Rearm
    /\ fsPc' = "idle"
    /\ UNCHANGED <<fileVars, fsCallback, pollVars, stopPc>>

-----------------------------------------------------------------------------
(* The polling loop: one checkFiles per tick.                               *)

PollRead ==
    /\ pollPc = "idle" /\ pollCallback
    /\ Readable
    /\ pollSeen' = Current
    /\ pollPc' = "compare"
    /\ UNCHANGED <<fileVars, fsVars, pollCallback, pollLast, timerVars, stopPc>>

\* Under the lock: record the new state and pick up the callback, if it is
\* still registered.
PollCompare ==
    /\ pollPc = "compare"
    /\ pollLast' = pollSeen
    /\ pollPc' = IF pollSeen # pollLast /\ pollCallback THEN "notify" ELSE "idle"
    /\ UNCHANGED <<fileVars, fsVars, pollCallback, pollSeen, timerVars, stopPc>>

PollNotify ==
    /\ pollPc = "notify"
    /\ Rearm
    /\ pollPc' = "idle"
    /\ UNCHANGED <<fileVars, fsVars, pollCallback, pollLast, pollSeen, stopPc>>

-----------------------------------------------------------------------------
(* Stop, outside in: the debouncer's timers, then fsnotify, then polling,   *)
(* each under its own lock.                                                 *)

StopTimers ==
    /\ stopPc = "timers"
    /\ timer' = [x \in Timers |->
                    IF x = entry /\ timer[x] = "armed" THEN "free" ELSE timer[x]]
    /\ entry' = NoTimer
    /\ stopPc' = "fs"
    /\ UNCHANGED <<fileVars, fsVars, pollVars, ahead>>

StopFs ==
    /\ stopPc = "fs"
    /\ fsCallback' = FALSE /\ fsWatched' = FALSE /\ fsQueue' = 0
    /\ stopPc' = "poll"
    /\ UNCHANGED <<file, fsPc, pollVars, timerVars>>

\* MUTANT: the callbacks survive Stop.
StopPollKeepsCallback ==
    /\ stopPc = "poll"
    /\ pollLast' = 0
    /\ stopPc' = "done"
    /\ UNCHANGED <<fileVars, fsVars, pollCallback, pollPc, pollSeen, timerVars>>

StopPoll ==
    /\ stopPc = "poll"
    /\ pollCallback' = FALSE /\ pollLast' = 0
    /\ stopPc' = "done"
    /\ UNCHANGED <<fileVars, fsVars, pollPc, pollSeen, timerVars>>

StopStep == StopTimers \/ StopFs \/ StopPoll

FsLoop == FsTake \/ FsNotify
PollLoop == PollRead \/ PollCompare \/ PollNotify
=============================================================================
