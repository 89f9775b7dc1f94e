----------------------------- MODULE CachedCopy -----------------------------
(***************************************************************************)
(* What a page is promised about the copy of a row it shows: it holds all  *)
(* that was written up to some version, which never goes back.             *)
(*                                                                         *)
(* Versions count the writes of the row and of what belongs to it; the     *)
(* copy is at NoCopy (-1) until one has arrived.                           *)
(***************************************************************************)
EXTENDS Integers

VARIABLES
    version,  \* of the row
    copy      \* the version up to which the page shows everything

NoCopy == -1

Init == version = 0 /\ copy = NoCopy

Write == version' = version + 1 /\ UNCHANGED copy

Refresh == copy' \in (copy + 1) .. version /\ UNCHANGED version

Next == Write \/ Refresh

Spec == Init /\ [][Next]_<<version, copy>>
=============================================================================
