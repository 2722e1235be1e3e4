-------------------------- MODULE FilteredRequests --------------------------
(***************************************************************************)
(* A consumer that composes a criteria with Eq to Not and updates or       *)
(* deletes the records it selects: Requests with the texts of Expressions. *)
(***************************************************************************)
EXTENDS Requests, Expressions

CONSTANTS
    Atoms,        \* the terms a consumer starts from: comparisons and matches
    MaxOperands,  \* bound: terms it joins at a time
    MaxSteps      \* bound: steps of composing

\* What Eq to EndsWith are given: the name of a field, and a literal.
ComposesFrom(atom) ==
    LET field == atom.text[1]
        value == atom.parts[1]
    IN  /\ atom = Node(atom.op, <<field>>, <<value>>)
        /\ Word(field)
        /\ \/ /\ atom.op \in Comparisons \cup Methods
              /\ value = String(value.text) /\ value.text \in Seq(STRING)
           \/ /\ atom.op \in Comparisons
              /\ value = Symbol(value.text[1]) /\ Word(value.text[1])

ASSUME AtomsAssumption == \A atom \in Atoms : ComposesFrom(atom)
ASSUME StepsAssumption == MaxOperands \in Nat /\ MaxSteps \in Nat

VARIABLES
    terms,   \* what the consumer has: the texts, each with what it stands for
    steps,   \* how often it has composed
    filter   \* history: what the last request is to select, if it was composed

filterVars == <<terms, steps, filter>>

NoFilter == Node("none", <<>>, <<>>)

\* Eq, Ne, Gt, Ge, Lt, Le; Contains, StartsWith, EndsWith.
AtomTerm(atom) ==
    LET value == atom.parts[1]
    IN  [text |-> IF atom.op \in Methods THEN Match(atom.text[1], atom.op, value.text)
                                         ELSE Compare(atom.text[1], atom.op, value),
         means |-> atom]

Uncombined == {AtomTerm(atom) : atom \in Atoms}

FilterInit == Init /\ terms = Uncombined /\ steps = 0 /\ filter = NoFilter

\* An And() or Or() of no terms, among others or negated, leaves a gap.
Gap(term) == term.means \in {Everything, Malformed}

\* And, Or: of no terms, there is nothing to select by; one stands for itself.
JoinedTerm(op, operands) ==
    [text |-> joinTerms(op, [i \in DOMAIN operands |-> operands[i].text]),
     means |->
        CASE operands = <<>> -> Everything
          [] Len(operands) = 1 -> operands[1].means
          [] OTHER -> IF \E i \in DOMAIN operands : Gap(operands[i]) THEN Malformed
                      ELSE Node(op, <<>>, [i \in DOMAIN operands |-> operands[i].means])]

NegatedTerm(term) ==
    [text |-> Not(term.text),
     means |-> IF Gap(term) THEN Malformed ELSE Node("!", <<>>, <<term.means>>)]

\* Composing does not depend on requests: it is done before the first.
Compose(term) ==
    /\ request = NoRequest
    /\ steps < MaxSteps
    /\ steps' = steps + 1
    /\ terms' = terms \cup {term}
    /\ UNCHANGED <<vars, filter>>

\* Any of the terms, composed ones too, in any place and as often as one likes.
ComposeJoin ==
    \E op \in Connectives, operands \in SeqOf(terms, MaxOperands) :
        Compose(JoinedTerm(op, operands))

ComposeNot == \E term \in terms : Compose(NegatedTerm(term))

AsCriteria(text) == IF text = <<>> THEN Empty ELSE text

StartOver == terms' = Uncombined /\ steps' = 0

SendFiltered(term) ==
    /\ \/ UpdateMany({}, AsCriteria(term.text))
       \/ DeleteMany({}, AsCriteria(term.text))
    /\ filter' = term.means
    /\ StartOver

\* Nothing to select by: UpdateMany and DeleteMany send nothing.
SendRefused(term) ==
    /\ Blank(AsCriteria(term.text))
    /\ StartOver
    /\ UNCHANGED <<vars, filter>>

\* Any request, with a criteria that was not composed here.
SendOther ==
    /\ steps = 0
    /\ Next
    /\ filter' = NoFilter
    /\ UNCHANGED <<terms, steps>>

FilterNext ==
    \/ ComposeJoin \/ ComposeNot \/ SendOther
    \/ \E term \in terms : SendFiltered(term) \/ SendRefused(term)

FilterSpec == FilterInit /\ [][FilterNext]_<<vars, filterVars>>

----------------------------------------------------------------------------
(* Properties *)

\* "Criteria assembles Creator filter expressions safely.  Values are escaped":
\* the records an update or a deletion reaches are those the consumer composed
\* its terms for, whatever characters its strings hold and however the terms
\* are nested.  A gap makes the server refuse the text and never widens it.
FilterAsComposed == filter # NoFilter => Reading(request.criteria) = filter
============================================================================
