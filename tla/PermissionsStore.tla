-------------------------- MODULE PermissionsStore --------------------------
(***************************************************************************)
(* What the permissions manager promises to the authenticators that read   *)
(* its lookups, whatever the watcher and the timers below it do: each       *)
(* lookup changes by one pointer swap, from the table of one accepted       *)
(* version of the file to the table of another, and never back to nil.      *)
(***************************************************************************)
EXTENDS Naturals, Sequences

CONSTANT Methods    \* the authentication methods, one lookup each

VARIABLES
    file,       \* the versions the permissions file has had, by kind
    lookup      \* lookup[m]: version whose table is served for m; 0 is nil

Accepted == {v \in 1..Len(file) : file[v] = "good"}

Init ==
    /\ Len(file) = 1
    /\ lookup = [m \in Methods |-> 0]

\* The file changes; what is served does not change with it.
Publish ==
    /\ \E k \in {"good", "bad", "gone"} : file' = Append(file, k)
    /\ UNCHANGED lookup

\* One lookup starts to serve an accepted version, not always the latest.
Swap(m) ==
    /\ \E v \in Accepted : lookup' = [lookup EXCEPT ![m] = v]
    /\ UNCHANGED file

Next == Publish \/ \E m \in Methods : Swap(m)

Spec == Init /\ [][Next]_<<file, lookup>>
=============================================================================
