------------------------------ MODULE BanStore ------------------------------
(***************************************************************************)
(* What the ban list promises: a list in memory and its copy on disk.  The *)
(* list changes by one IP at a time; the copy is only ever replaced as a   *)
(* whole, by the list; a restart begins with the copy.                     *)
(***************************************************************************)
CONSTANT IP
VARIABLES list, copy

vars == <<list, copy>>

Init == copy \in SUBSET IP /\ list = copy

Change == \E ip \in IP : list' \in {list \cup {ip}, list \ {ip}} /\ UNCHANGED copy
Save == copy' = list /\ UNCHANGED list
Restart == list' = copy /\ UNCHANGED copy

Next == Change \/ Save \/ Restart

Spec == Init /\ [][Next]_vars
=============================================================================
