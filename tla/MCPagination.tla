---------------------------- MODULE MCPagination ----------------------------
(* Pagination for TLC.  Five positions, three of them taken, make pages of    *)
(* one or two records that come out even and uneven, and leave room for an   *)
(* insertion in front of and between the pages.                              *)
EXTENDS Pagination

MCPositions == 1 .. 5
MCStored == {2, 3, 5}

\* No limit; a negative offset, and a walk resumed; the second record on.
MCQueries ==
    { [from |-> 0, limit |-> 0, cursor |-> 0],
      [from |-> -1, limit |-> 1, cursor |-> 3],
      [from |-> 1, limit |-> 2, cursor |-> 0] }
=============================================================================
