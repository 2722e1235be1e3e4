----------------------------- MODULE TokenCell -----------------------------
(***************************************************************************)
(* What a token source promises the application, without callers, locks or *)
(* HTTP: a cell that holds the current token, and a saved copy that a      *)
(* single writer brings up to date.  A token is replaced only when it is   *)
(* no longer usable; it may be dropped or age at any time; a write stores  *)
(* the value that was current when it began, and a newer change that       *)
(* deserves a write is remembered until one has begun for it.              *)
(***************************************************************************)
EXTENDS Integers

CONSTANTS
    Values,   \* the tokens, and NoToken
    NoToken,
    Tracked,  \* the values that are saved once they are current
    NoWrite   \* not a value: no write is under way

VARIABLES current, fresh, saved, writing, dirty

cell == <<current, fresh, saved, writing, dirty>>

Init ==
    /\ current \in Values
    /\ fresh \in BOOLEAN
    /\ saved \in {NoToken, current}
    /\ current \in Tracked => saved = current
    /\ writing = NoWrite
    /\ dirty = FALSE

Usable == current # NoToken /\ fresh

Change(t) ==
    /\ current' = t
    /\ dirty' = (t \in Tracked)
    /\ UNCHANGED <<saved, writing>>

Replace == ~Usable /\ fresh' \in BOOLEAN /\ \E t \in Values \ {NoToken} : Change(t)

Drop == fresh' = FALSE /\ Change(NoToken)

Age == fresh' = FALSE /\ UNCHANGED <<current, saved, writing, dirty>>

\* dirty may stay: two drops in a row are reported twice.
BeginWrite ==
    /\ dirty
    /\ writing = NoWrite
    /\ writing' = current
    /\ dirty' \in BOOLEAN
    /\ UNCHANGED <<current, fresh, saved>>

EndWrite ==
    /\ writing # NoWrite
    /\ saved' = writing
    /\ writing' = NoWrite
    /\ UNCHANGED <<current, fresh, dirty>>

Next == Replace \/ Drop \/ Age \/ BeginWrite \/ EndWrite

Spec == Init /\ [][Next]_cell

TypeOK ==
    /\ current \in Values
    /\ fresh \in BOOLEAN
    /\ saved \in Values
    /\ writing \in Values \cup {NoWrite}
    /\ dirty \in BOOLEAN

\* A write of an outdated value is never the last word: either another write
\* is due, or the one under way stores the current value, or it is stored.
SavedFollows ==
    current \in Tracked =>
        dirty \/ writing = current \/ (writing = NoWrite /\ saved = current)
============================================================================
