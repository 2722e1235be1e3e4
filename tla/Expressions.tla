---------------------------- MODULE Expressions ----------------------------
(***************************************************************************)
(* Criteria expressions: the text that Eq to Not put together              *)
(* (src/query.go:144-235), and what a server reads in such a text.         *)
(*                                                                         *)
(* A text is a sequence of symbols: field names, operators, numbers and    *)
(* parentheses, and the characters of string literals, which may be        *)
(* symbols of any kind.  The reader is external.  It gives a text a        *)
(* meaning only where && and || are not mixed without parentheses, so that *)
(* no order of precedence has to be guessed.                               *)
(***************************************************************************)
EXTENDS SequencesExt

Quote == "\""
Backslash == "\\"

Comparisons == {"==", "!=", ">", ">=", "<", "<="}
Methods == {".contains", ".startsWith", ".endsWith"}
Connectives == {"&&", "||"}

\* A meaning, of a term or of a part of one.
Node(op, text, parts) == [op |-> op, text |-> text, parts |-> parts]
Symbol(s) == Node("symbol", <<s>>, <<>>)
String(characters) == Node("string", characters, <<>>)
Everything == Node("everything", <<>>, <<>>)
Malformed == Node("malformed", <<>>, <<>>)

----------------------------------------------------------------------------
(* The text *)

Escaped(text, character) ==
    FlattenSeq([i \in DOMAIN text |->
        IF text[i] = character THEN <<Backslash, character>> ELSE <<text[i]>>])

\* Fault: the backslashes put before quotes are escaped themselves.
quoteStringBackwards(text) ==
    <<Quote>> \o Escaped(Escaped(text, Quote), Backslash) \o <<Quote>>

quoteString(text) == <<Quote>> \o Escaped(Escaped(text, Backslash), Quote) \o <<Quote>>

\* Booleans, ints, floats and nil are symbols; whatever else there is goes out
\* as the string that fmt makes of it.
formatLiteral(value) == IF value.op = "symbol" THEN value.text ELSE quoteString(value.text)

Compare(field, comparison, value) == <<field, comparison>> \o formatLiteral(value)

Match(field, method, text) == <<field, method, "(">> \o quoteString(text) \o <<")">>

joinTerms(op, terms) ==
    LET joined == FlattenSeq([i \in DOMAIN terms |->
                      IF i = 1 THEN terms[1] ELSE <<op>> \o terms[i]])
    IN  IF Len(terms) < 2 THEN joined ELSE <<"(">> \o joined \o <<")">>

Not(term) == <<"!", "(">> \o term \o <<")">>

----------------------------------------------------------------------------
(* The terms of a reading, which keeps a sequence of nodes for each         *)
(* parenthesis that is open                                                 *)

Is(node, symbols) == node.op = "symbol" /\ node.text[1] \in symbols
IsValue(node) ==
    \/ node.op = "string"
    \/ node.op = "symbol" /\
          ~Is(node, Comparisons \cup Methods \cup Connectives \cup {"(", ")", "!"})
IsTerm(node) == node.op \in Comparisons \cup Methods \cup Connectives \cup {"!"}

\* A name, or a literal without quotes: no symbol the language keeps for itself.
Word(symbol) == symbol # Quote /\ IsValue(Symbol(symbol))

\* The end of a sequence of nodes, once it is a whole term.
Contract(nodes) ==
    LET n == Len(nodes)
        term(op, last) == Append(SubSeq(nodes, 1, n - 3), Node(op, nodes[n - 2].text, <<last>>))
    IN  CASE n >= 3 /\ Is(nodes[n - 1], Comparisons) /\ IsValue(nodes[n]) ->
                term(nodes[n - 1].text[1], nodes[n])
          [] n >= 3 /\ Is(nodes[n - 1], Methods) /\ nodes[n].op = "string" ->
                term(nodes[n - 1].text[1], nodes[n])
          [] n >= 2 /\ Is(nodes[n - 1], {"!"}) /\ IsTerm(nodes[n]) ->
                Append(SubSeq(nodes, 1, n - 2), Node("!", <<>>, <<nodes[n]>>))
          [] OTHER -> nodes

\* What a pair of parentheses, or the whole text, holds: one node, or terms
\* between connectives that are all the same.
Group(nodes) ==
    LET n == Len(nodes)
        terms == {i \in 1 .. n : i % 2 = 1}
        joints == {i \in 1 .. n : i % 2 = 0}
    IN  CASE n = 1 -> nodes[1]
          [] /\ n >= 3 /\ n % 2 = 1
             /\ \A i \in terms : IsTerm(nodes[i])
             /\ \E c \in Connectives : \A i \in joints : Is(nodes[i], {c}) ->
                Node(nodes[2].text[1], <<>>, [i \in 1 .. (n + 1) \div 2 |-> nodes[2 * i - 1]])
          [] OTHER -> Malformed

\* A parenthesis closed behind a method is a string's; otherwise, a term's.
Parse(open, lexeme) ==
    LET within(nodes) == Append(Front(open), nodes)
        below == open[Len(open) - 1]
    IN  CASE Is(lexeme, {"("}) -> Append(open, <<>>)
          [] Is(lexeme, {")"}) /\ Len(open) >= 2 ->
                Append(SubSeq(open, 1, Len(open) - 2),
                       Contract(Append(below, Group(Last(open)))))
          [] OTHER -> within(Contract(Append(Last(open), lexeme)))

----------------------------------------------------------------------------
(* The reader: symbol by symbol, apart from what is inside a string literal *)

Code(open) == [at |-> "code", literal |-> <<>>, open |-> open]
Literal(characters, open) == [at |-> "literal", literal |-> characters, open |-> open]
Escape(characters, open) == [at |-> "escape", literal |-> characters, open |-> open]

Step(state, symbol) ==
    CASE state.at = "code" /\ symbol = Quote -> Literal(<<>>, state.open)
      [] state.at = "code" /\ symbol # Quote -> Code(Parse(state.open, Symbol(symbol)))
      [] state.at = "literal" /\ symbol = Quote ->
            Code(Parse(state.open, String(state.literal)))
      [] state.at = "literal" /\ symbol = Backslash -> Escape(state.literal, state.open)
      [] OTHER -> Literal(Append(state.literal, symbol), state.open)

ReadFrom(state, text) ==
    LET read[i \in 0 .. Len(text)] == IF i = 0 THEN state ELSE Step(read[i - 1], text[i])
    IN  read[Len(text)]

Reading(text) ==
    LET end == ReadFrom(Code(<<<<>>>>), text)
        whole == Group(end.open[1])
    IN  CASE text = <<>> -> Everything
          [] text # <<>> /\ end.at = "code" /\ Len(end.open) = 1 /\ IsTerm(whole) -> whole
          [] OTHER -> Malformed
============================================================================
