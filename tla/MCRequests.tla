----------------------------- MODULE MCRequests -----------------------------
(* FilteredRequests for TLC: one name is enough to tell an address from an   *)
(* empty one, and it is a word the paths use themselves.  The strings of a   *)
(* criteria hold what could end a literal early or pass for an operator.     *)
EXTENDS FilteredRequests

MCVerbs == {"GET", "DELETE"}

\* A plain query; a window; all that is new in v2.1; a walk resumed.
MCQueries ==
    { {}, {"from", "limit", "criteria"}, {"criteria"} \cup ModernParams,
      {"limit", "fields", "record_cursor"} }

MCAtoms ==
    { Node("==", <<"ID">>, <<String(<<Quote, "||", "ID", ">", "1">>)>>),
      Node(".contains", <<"ID">>, <<String(<<Backslash, Quote, ")", Backslash>>)>>),
      Node("<", <<"ID">>, <<Symbol("1")>>) }
=============================================================================
