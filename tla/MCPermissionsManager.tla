------------------------ MODULE MCPermissionsManager ------------------------
(* Small instances of PermissionsManager for TLC.                           *)
EXTENDS PermissionsManager, TLC

\* The debounce timers are interchangeable.
TimerSymmetry == Permutations(Timers)
=============================================================================
