--------------------------- MODULE AtomicRestore ---------------------------
(***************************************************************************)
(* What a restore promises the operator, whatever files it takes: the      *)
(* database always has a content, the program commits new contents, and a  *)
(* restore replaces the content in one step, after the content it replaces *)
(* was saved.  The one exception is a content that could only be copied    *)
(* raw, which is forfeited.                                                *)
(***************************************************************************)
CONSTANT Contents

VARIABLES
    data,    \* the content of the database
    saved,   \* the contents saved by a restore (pre-restore-*.db)
    forfeit  \* a raw copy was the best a restore could save: nothing is promised

Init ==
    /\ data \in Contents
    /\ saved = {}
    /\ forfeit = FALSE

\* A transaction of the program commits a content nobody has seen.
Commit ==
    /\ data' \in Contents \ (saved \cup {data})
    /\ UNCHANGED <<saved, forfeit>>

\* A restore saves the content it is going to replace.
Save ==
    /\ saved' \in {saved, saved \cup {data}}
    /\ UNCHANGED <<data, forfeit>>

Forfeit == forfeit' = TRUE

\* The content is replaced by another whole content.
Restore ==
    /\ data \in saved
    /\ data' \in Contents
    /\ UNCHANGED <<saved, forfeit>>

Next == Commit \/ Save \/ Forfeit \/ Restore

Spec == Init /\ [][Next]_<<data, saved, forfeit>>
=============================================================================
