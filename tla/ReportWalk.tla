----------------------------- MODULE ReportWalk -----------------------------
(***************************************************************************)
(* What an iterator over a report promises its consumer, without pages,    *)
(* offsets, cursors or requests: a walk owes the records it began before,  *)
(* hands them out one after another, and ends when it owes no more.        *)
(*                                                                         *)
(* It comes to no record a second time, unless records in front of it have *)
(* been moved towards the end (grown); and it leaves none of those it owes *)
(* behind, unless some have been moved towards the start (shrunk).  So     *)
(* wherever its consumer stops, it has all that is owed up to there.       *)
(***************************************************************************)
EXTENDS Integers, SequencesExt

CONSTANT Records  \* in the order of the report

VARIABLES owed, got, grown, shrunk, phase

walk == <<owed, got, grown, shrunk, phase>>

Init ==
    /\ owed = {}
    /\ got = <<>>
    /\ grown = FALSE
    /\ shrunk = FALSE
    /\ phase = "start"

\* Where a walk begins is its consumer's choice.
Begin ==
    /\ phase = "start"
    /\ phase' = "walking"
    /\ owed' \in SUBSET Records
    /\ UNCHANGED <<got, grown, shrunk>>

ComesAfter(r) == \A taken \in ToSet(got) : taken < r
LeavesNone(r) == \A o \in owed : o < r => o \in ToSet(got)

Take(r) ==
    /\ phase = "walking"
    /\ grown \/ ComesAfter(r)
    /\ shrunk \/ LeavesNone(r)
    /\ got' = Append(got, r)
    /\ UNCHANGED <<owed, grown, shrunk, phase>>

End ==
    /\ phase = "walking"
    /\ shrunk \/ owed \subseteq ToSet(got)
    /\ phase' = "done"
    /\ UNCHANGED <<owed, got, grown, shrunk>>

Leave ==
    /\ phase = "walking"
    /\ phase' = "stopped"
    /\ UNCHANGED <<owed, got, grown, shrunk>>

Grow == grown' = TRUE /\ UNCHANGED <<owed, got, shrunk, phase>>

\* A record that is deleted is no longer owed.
Lose(r) ==
    /\ owed' = owed \ {r}
    /\ shrunk' \in {shrunk, TRUE}
    /\ UNCHANGED <<got, grown, phase>>

Next ==
    \/ Begin \/ End \/ Leave \/ Grow
    \/ \E r \in Records : Take(r) \/ Lose(r)

Spec == Init /\ [][Next]_walk
=============================================================================
