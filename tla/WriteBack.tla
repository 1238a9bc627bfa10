------------------------------- MODULE WriteBack -------------------------------
(***************************************************************************)
(* What the CRDT store promises about one owner's todos, without versions, *)
(* documents or the steps of a save: the list that requests see, and the   *)
(* list on record.  A request changes the first; saving brings the second  *)
(* up to it one todo at a time; a restart forgets what was not saved, and  *)
(* nothing else ever changes either list.                                  *)
(***************************************************************************)
CONSTANTS
    Todos,      \* todo IDs
    Values      \* what a todo ID can stand for, its absence included

VARIABLES
    shown,      \* the todos requests see
    saved       \* the todos on record

WriteBackInit ==
    /\ saved \in [Todos -> Values]
    /\ shown = saved

\* A request, or another server's update, changes the list.
Change == shown' \in [Todos -> Values] /\ UNCHANGED saved

\* One todo is written, or its record deleted.
Flush(t) == saved' = [saved EXCEPT ![t] = shown[t]] /\ UNCHANGED shown

Forget == shown' = saved /\ UNCHANGED saved

WriteBackNext == Change \/ (\E t \in Todos : Flush(t)) \/ Forget

WriteBackSpec == WriteBackInit /\ [][WriteBackNext]_<<shown, saved>>
===============================================================================
