-------------------------- MODULE ExpressionsProofs --------------------------
(***************************************************************************)
(* What the texts of Expressions read as, for strings and expressions of   *)
(* any size.  A text is characterised by what it leaves with a reader that *)
(* comes upon it anywhere (Leaves), and by the meaning that this gives it  *)
(* (StandsFor); each operation that composes texts carries StandsFor on    *)
(* from its arguments to its result.                                       *)
(***************************************************************************)
EXTENDS Expressions, SequenceTheorems, WellFoundedInduction, TLAPS

----------------------------------------------------------------------------
(* Induction over data.  The library states it with an operator for the     *)
(* predicate; here the set of the numbers it holds for takes that place.    *)

Below == {pair \in Nat \X Nat : pair[1] < pair[2]}

LEMMA BelowWellFounded == IsWellFoundedOn(Below, Nat)
  <1> QED BY NatLessThanWellFounded DEF OpToRel, Below

\* Of the numbers outside S, there would be a least one.
LEMMA Induction ==
  ASSUME NEW S, 0 \in S, \A n \in Nat : n \in S => n + 1 \in S
  PROVE  Nat \subseteq S
  <1> DEFINE T == Nat \ S
  <1> SUFFICES ASSUME T # {} PROVE FALSE
    OBVIOUS
  <1>1. T \subseteq Nat
    OBVIOUS
  <1> HIDE DEF T
  <1>2. PICK n \in T : \A m \in T : ~(<<m, n>> \in Below)
    BY <1>1, BelowWellFounded, WFMin
  <1> USE DEF T
  <1>3. n \in Nat /\ n # 0
    OBVIOUS
  <1>4. n - 1 \in Nat /\ <<n - 1, n>> \in Below
    BY <1>3 DEF Below
  <1>5. n - 1 \in S
    BY <1>2, <1>4
  <1> QED BY <1>3, <1>4, <1>5

----------------------------------------------------------------------------
(* Sequences of anything *)

\* Texts hold strings, nodes are records: no lemma minds of what a sequence is.
IsSeq(s) == \E S : s \in Seq(S)

LEMMA SeqLength ==
  ASSUME NEW s, IsSeq(s)
  PROVE  Len(s) \in Nat /\ DOMAIN s = 1 .. Len(s)
  <1> QED BY LenProperties DEF IsSeq

LEMMA SeqSame ==
  ASSUME NEW s, NEW t, IsSeq(s), IsSeq(t), Len(s) = Len(t),
         \A i \in 1 .. Len(s) : s[i] = t[i]
  PROVE  s = t
  <1>1. PICK S : s \in Seq(S) BY DEF IsSeq
  <1>2. PICK T : t \in Seq(T) BY DEF IsSeq
  <1>3. s \in Seq(S \cup T) /\ t \in Seq(S \cup T)
    BY <1>1, <1>2, SeqMonotonic, S \subseteq S \cup T, T \subseteq S \cup T
  <1> QED BY <1>3, SeqEqual

LEMMA SeqAppend ==
  ASSUME NEW s, NEW e, IsSeq(s)
  PROVE  /\ IsSeq(Append(s, e))
         /\ Len(Append(s, e)) = Len(s) + 1
         /\ \A i \in 1 .. Len(s) : Append(s, e)[i] = s[i]
         /\ Append(s, e)[Len(s) + 1] = e
         /\ Append(s, e) # <<>>
         /\ Append(s, e) = s \o <<e>>
  <1>1. PICK S : s \in Seq(S) BY DEF IsSeq
  <1> DEFINE T == S \cup {e}
  <1>2. s \in Seq(T) /\ e \in T
    BY <1>1, SeqMonotonic, S \subseteq T
  <1> HIDE DEF T
  <1> QED BY <1>2, AppendProperties, AppendIsConcat DEF IsSeq

LEMMA SeqConcat ==
  ASSUME NEW s, NEW t, IsSeq(s), IsSeq(t)
  PROVE  /\ IsSeq(s \o t)
         /\ Len(s \o t) = Len(s) + Len(t)
         /\ \A i \in 1 .. Len(s) + Len(t) :
                (s \o t)[i] = IF i <= Len(s) THEN s[i] ELSE t[i - Len(s)]
         /\ s \o <<>> = s
         /\ <<>> \o s = s
  <1>1. PICK S : s \in Seq(S) BY DEF IsSeq
  <1>2. PICK T : t \in Seq(T) BY DEF IsSeq
  <1> DEFINE U == S \cup T
  <1>3. s \in Seq(U) /\ t \in Seq(U)
    BY <1>1, <1>2, SeqMonotonic, S \subseteq U, T \subseteq U
  <1> HIDE DEF U
  <1>4. s \o t \in Seq(U)
    BY <1>3, ConcatProperties
  <1> QED BY <1>3, <1>4, ConcatProperties, ConcatEmptySeq DEF IsSeq

LEMMA SeqEmpty == IsSeq(<<>>) /\ Len(<<>>) = 0
  <1> QED BY EmptySeq DEF IsSeq

LEMMA SeqOne == \A e : IsSeq(<<e>>) /\ Len(<<e>>) = 1 /\ <<e>>[1] = e /\ <<e>> = Append(<<>>, e)
  <1> TAKE e
  <1>1. <<e>> \in Seq({e})
    OBVIOUS
  <1>2. IsSeq(<<e>>)
    BY <1>1 DEF IsSeq
  <1> QED BY <1>2

LEMMA SeqTwo == \A d, e : IsSeq(<<d, e>>) /\ <<d, e>> = Append(<<d>>, e)
  <1> TAKE d, e
  <1> DEFINE pair == <<d, e>>
             grown == Append(<<d>>, e)
  <1>1. <<d, e>> \in Seq({d, e})
    OBVIOUS
  <1>2. IsSeq(<<d, e>>)
    BY <1>1 DEF IsSeq
  <1>3. Len(<<d, e>>) = 2 /\ <<d, e>>[1] = d /\ <<d, e>>[2] = e
    OBVIOUS
  <1>4. /\ IsSeq(Append(<<d>>, e)) /\ Len(Append(<<d>>, e)) = 2
        /\ Append(<<d>>, e)[1] = d /\ Append(<<d>>, e)[2] = e
    <2> DEFINE t == <<d>>
    <2>1. IsSeq(t) /\ Len(t) = 1 /\ t[1] = d
      BY SeqOne
    <2> HIDE DEF t
    <2>2. /\ IsSeq(Append(t, e)) /\ Len(Append(t, e)) = Len(t) + 1
          /\ \A i \in 1 .. Len(t) : Append(t, e)[i] = t[i]
          /\ Append(t, e)[Len(t) + 1] = e
      BY <2>1, SeqAppend, Zenon
    <2>3. /\ IsSeq(Append(t, e)) /\ Len(Append(t, e)) = 2
          /\ Append(t, e)[1] = d /\ Append(t, e)[2] = e
      BY <2>1, <2>2
    <2> QED BY <2>3 DEF t
  <1>5. \A i \in 1 .. 2 : pair[i] = grown[i]
    BY <1>3, <1>4
  <1>6. IsSeq(pair) /\ IsSeq(grown) /\ Len(pair) = 2 /\ Len(grown) = 2
    BY <1>2, <1>3, <1>4
  <1>7. pair = grown
    <2> HIDE DEF pair, grown
    <2> QED BY <1>5, <1>6, SeqSame
  <1> QED BY <1>2, <1>7

LEMMA SeqRegroup ==
  ASSUME NEW s, NEW t, NEW u, IsSeq(s), IsSeq(t), IsSeq(u)
  PROVE  (s \o t) \o u = s \o (t \o u)
  <1>1. PICK S : s \in Seq(S) BY DEF IsSeq
  <1>2. PICK T : t \in Seq(T) BY DEF IsSeq
  <1>3. PICK U : u \in Seq(U) BY DEF IsSeq
  <1> DEFINE V == S \cup T \cup U
  <1>4. S \subseteq V /\ T \subseteq V /\ U \subseteq V
    OBVIOUS
  <1> HIDE DEF V
  <1>5. s \in Seq(V) /\ t \in Seq(V) /\ u \in Seq(V)
    BY <1>1, <1>2, <1>3, <1>4, SeqMonotonic
  <1> QED BY <1>5, ConcatAssociative

LEMMA SeqPair == \A s, d, e : IsSeq(s) => s \o <<d, e>> = Append(Append(s, d), e)
  <1> SUFFICES ASSUME NEW s, NEW d, NEW e, IsSeq(s)
               PROVE  s \o <<d, e>> = Append(Append(s, d), e)
    OBVIOUS
  <1> DEFINE one == <<d>>
             two == <<e>>
  <1>1. <<d, e>> = one \o two
    <2>1. <<d, e>> = Append(one, e) /\ IsSeq(one)
      BY SeqOne, SeqTwo
    <2> HIDE DEF one
    <2> QED BY <2>1, SeqAppend
  <1>2. IsSeq(one) /\ IsSeq(two)
    BY SeqOne
  <1>3. Append(s, d) = s \o one /\ IsSeq(Append(s, d))
    BY SeqAppend
  <1>4. Append(Append(s, d), e) = Append(s, d) \o two
    BY <1>3, SeqAppend
  <1> HIDE DEF one, two
  <1>5. (s \o one) \o two = s \o (one \o two)
    BY <1>2, SeqRegroup
  <1> QED BY <1>1, <1>3, <1>4, <1>5

LEMMA SeqSplit ==
  ASSUME NEW s, IsSeq(s), s # <<>>
  PROVE  \E front, last : IsSeq(front) /\ s = Append(front, last) /\ Len(s) = Len(front) + 1
  <1>1. PICK S : s \in Seq(S) BY DEF IsSeq
  <1>2. PICK front \in Seq(S), last \in S : s = Append(front, last)
    BY <1>1, SequenceEmptyOrAppend
  <1>3. IsSeq(front)
    BY <1>2 DEF IsSeq
  <1> QED BY <1>2, <1>3, SeqAppend

LEMMA SeqConcatNone ==
  ASSUME NEW s, NEW t, IsSeq(s), IsSeq(t)
  PROVE  IsSeq(s \o t) /\ (s \o t = <<>> <=> s = <<>> /\ t = <<>>)
  <1>1. IsSeq(s \o t) /\ Len(s \o t) = Len(s) + Len(t)
    BY SeqConcat
  <1>2. Len(s) \in Nat /\ Len(t) \in Nat
    BY SeqLength
  <1>3. (s = <<>> <=> Len(s) = 0) /\ (t = <<>> <=> Len(t) = 0)
    BY SeqEmpty, EmptySeq DEF IsSeq
  <1>4. s \o t = <<>> <=> Len(s \o t) = 0
    BY <1>1, SeqEmpty, SeqSame
  <1> QED BY <1>1, <1>2, <1>3, <1>4

LEMMA SeqSubSeq ==
  ASSUME NEW s, IsSeq(s), NEW more, \A i \in 1 .. Len(s) : more[i] = s[i]
  PROVE  SubSeq(more, 1, Len(s)) = s
  <1>1. PICK S : s \in Seq(S) BY DEF IsSeq
  <1>2. Len(s) \in Nat
    BY SeqLength
  <1>3. \A i \in 1 .. Len(s) : more[i] \in S
    BY <1>1, ElementOfSeq
  <1>4. /\ SubSeq(more, 1, Len(s)) \in Seq(S)
        /\ Len(SubSeq(more, 1, Len(s))) = Len(s)
        /\ \A i \in 1 .. Len(s) : SubSeq(more, 1, Len(s))[i] = more[i]
    BY <1>2, <1>3, SubSeqProperties
  <1> QED BY <1>1, <1>4, SeqEqual

LEMMA SeqPrefix ==
  ASSUME NEW s, NEW e, NEW f, IsSeq(s)
  PROVE  /\ SubSeq(Append(s, e), 1, Len(s)) = s
         /\ SubSeq(Append(Append(s, e), f), 1, Len(s)) = s
  <1> DEFINE t == Append(s, e)
             u == Append(t, f)
  <1>1. Len(s) \in Nat
    BY SeqLength
  <1>2. IsSeq(t) /\ Len(t) = Len(s) + 1 /\ \A i \in 1 .. Len(s) : t[i] = s[i]
    BY SeqAppend
  <1>3. \A i \in 1 .. Len(t) : u[i] = t[i]
    BY <1>2, SeqAppend
  <1> HIDE DEF t, u
  <1>4. \A i \in 1 .. Len(s) : u[i] = s[i]
    BY <1>1, <1>2, <1>3
  <1>5. SubSeq(t, 1, Len(s)) = s
    BY <1>2, SeqSubSeq
  <1>6. SubSeq(u, 1, Len(s)) = s
    BY <1>4, SeqSubSeq
  <1> QED BY <1>5, <1>6 DEF t, u

LEMMA GrownBy ==
  ASSUME NEW nodes, IsSeq(nodes), NEW x
  PROVE  /\ IsSeq(Append(nodes, x)) /\ Len(nodes) \in Nat
         /\ Len(Append(nodes, x)) = Len(nodes) + 1
         /\ Append(nodes, x)[Len(nodes) + 1] = x
         /\ nodes # <<>> => Len(nodes) >= 1 /\ Append(nodes, x)[Len(nodes)] = nodes[Len(nodes)]
         /\ nodes = <<>> => Len(nodes) = 0
  <1> DEFINE n == Len(nodes)
             more == Append(nodes, x)
  <1>1. n \in Nat
    BY SeqLength
  <1>2. nodes # <<>> => n # 0
    BY EmptySeq DEF IsSeq
  <1>3. /\ IsSeq(more) /\ Len(more) = n + 1 /\ more[n + 1] = x
        /\ \A i \in 1 .. n : more[i] = nodes[i]
    BY SeqAppend
  <1>4. nodes = <<>> => n = 0
    BY SeqEmpty
  <1> HIDE DEF n, more
  <1>5. nodes # <<>> => n >= 1 /\ more[n] = nodes[n]
    BY <1>1, <1>2, <1>3
  <1> QED BY <1>1, <1>3, <1>4, <1>5 DEF n, more

LEMMA PrefixGrows ==
  ASSUME NEW s, IsSeq(s), NEW n \in Nat, n + 1 <= Len(s)
  PROVE  /\ SubSeq(s, 1, n + 1) = Append(SubSeq(s, 1, n), s[n + 1])
         /\ IsSeq(SubSeq(s, 1, n))
  <1>1. PICK S : s \in Seq(S) BY DEF IsSeq
  <1>2. Len(s) \in Nat
    BY SeqLength
  <1>3. \A i \in 1 .. Len(s) : s[i] \in S
    BY <1>1, ElementOfSeq
  <1> DEFINE a == SubSeq(s, 1, n)
             b == SubSeq(s, 1, n + 1)
  <1>4. a \in Seq(S) /\ Len(a) = n /\ \A i \in 1 .. n : a[i] = s[i]
    <2>1. \A i \in 1 .. n : s[i] \in S
      BY <1>2, <1>3
    <2>2. /\ a \in Seq(S)
          /\ Len(a) = IF 1 <= n THEN n - 1 + 1 ELSE 0
          /\ \A i \in 1 .. n - 1 + 1 : a[i] = s[1 + i - 1]
      BY <2>1, SubSeqProperties
    <2> HIDE DEF a
    <2> QED BY <2>2
  <1>5. b \in Seq(S) /\ Len(b) = n + 1 /\ \A i \in 1 .. n + 1 : b[i] = s[i]
    <2>1. \A i \in 1 .. n + 1 : s[i] \in S
      BY <1>2, <1>3
    <2>2. /\ b \in Seq(S)
          /\ Len(b) = IF 1 <= n + 1 THEN (n + 1) - 1 + 1 ELSE 0
          /\ \A i \in 1 .. (n + 1) - 1 + 1 : b[i] = s[1 + i - 1]
      BY <2>1, SubSeqProperties
    <2> HIDE DEF b
    <2> QED BY <2>2
  <1>6. IsSeq(a) /\ IsSeq(b)
    BY <1>4, <1>5 DEF IsSeq
  <1> DEFINE c == Append(a, s[n + 1])
  <1> HIDE DEF a, b
  <1>7. /\ IsSeq(c) /\ Len(c) = Len(a) + 1 /\ c[Len(a) + 1] = s[n + 1]
        /\ \A i \in 1 .. Len(a) : c[i] = a[i]
    BY <1>6, SeqAppend
  <1> HIDE DEF c
  <1>8. Len(c) = n + 1 /\ \A i \in 1 .. n + 1 : b[i] = c[i]
    <2>1. \A i \in 1 .. n + 1 : i \in 1 .. n \/ i = n + 1
      OBVIOUS
    <2> QED BY <1>4, <1>5, <1>7, <2>1
  <1>9. b = c
    BY <1>5, <1>6, <1>7, <1>8, SeqSame
  <1> QED BY <1>6, <1>9 DEF a, b, c

LEMMA FrontLast ==
  ASSUME NEW s, IsSeq(s), NEW x
  PROVE  Front(Append(s, x)) = s /\ Last(Append(s, x)) = x
  <1> DEFINE more == Append(s, x)
             n == Len(s)
  <1>1. n \in Nat /\ Len(more) = n + 1 /\ more[n + 1] = x
    BY GrownBy
  <1>2. SubSeq(more, 1, n) = s
    BY SeqPrefix
  <1> HIDE DEF more, n
  <1>3. Len(more) - 1 = n
    BY <1>1
  <1>4. Front(more) = s /\ Last(more) = x
    BY <1>1, <1>2, <1>3 DEF Front, Last
  <1> QED BY <1>4 DEF more

LEMMA SeqFunction ==
  ASSUME NEW n \in Nat, NEW f, f = [i \in 1 .. n |-> f[i]]
  PROVE  IsSeq(f) /\ Len(f) = n
  <1> DEFINE S == {f[i] : i \in 1 .. n}
  <1>1. f \in [1 .. n -> S]
    OBVIOUS
  <1> HIDE DEF S
  <1>2. f \in Seq(S)
    BY <1>1, SeqDef
  <1>3. DOMAIN f = 1 .. n /\ DOMAIN f = 1 .. Len(f) /\ Len(f) \in Nat
    BY <1>1, <1>2, LenProperties
  <1> QED BY <1>2, <1>3 DEF IsSeq

----------------------------------------------------------------------------
(* What a reader makes of a text: the last state of its only run *)

\* The states a reader goes through, from the first to the one it ends in.
Run(f, state, text) ==
  /\ f[0] = state
  /\ \A i \in 1 .. Len(text) : f[i] = Step(f[i - 1], text[i])

LEMMA RunExists ==
  ASSUME NEW state, NEW text, IsSeq(text)
  PROVE  \E f : f = [i \in 0 .. Len(text) |-> IF i = 0 THEN state ELSE Step(f[i - 1], text[i])]
  <1> DEFINE After(v, i) == Step(v, text[i])
             Body(f, i) == IF i = 0 THEN state ELSE After(f[i - 1], i)
             Reached == {n \in Nat : \E f : f = [i \in 0 .. n |-> Body(f, i)]}
  <1> HIDE DEF After
  <1>1. 0 \in Reached
    <2> DEFINE f == [i \in 0 .. 0 |-> state]
    <2>1. f = [i \in 0 .. 0 |-> Body(f, i)]
      OBVIOUS
    <2> QED BY <2>1
  <1>2. ASSUME NEW n \in Nat, n \in Reached PROVE n + 1 \in Reached
    <2>1. PICK f : f = [i \in 0 .. n |-> Body(f, i)]
      BY <1>2
    <2> DEFINE g == [i \in 0 .. n + 1 |-> IF i = n + 1 THEN After(f[n], i) ELSE f[i]]
    <2>2. \A i \in 0 .. n : g[i] = f[i]
      OBVIOUS
    <2>3. g[n + 1] = Body(g, n + 1)
      BY <2>2
    <2>4. \A i \in 0 .. n : f[i] = Body(f, i)
      BY <2>1
    <2>5. \A i \in 0 .. n : g[i] = Body(g, i)
      BY <2>2, <2>4
    <2>6. \A i \in 0 .. n + 1 : g[i] = Body(g, i)
      BY <2>3, <2>5
    <2>7. g = [i \in 0 .. n + 1 |-> Body(g, i)]
      <3>1. g = [i \in 0 .. n + 1 |-> g[i]]
        OBVIOUS
      <3> QED BY ONLY <3>1, <2>6
    <2>8. n + 1 \in Nat
      OBVIOUS
    <2> HIDE DEF g, Body
    <2>9. \E h : h = [i \in 0 .. n + 1 |-> Body(h, i)]
      BY <2>7
    <2> QED BY <2>8, <2>9
  <1>3. Len(text) \in Reached
    <2> HIDE DEF Reached
    <2> QED BY <1>1, <1>2, Induction, SeqLength
  <1> QED BY <1>3 DEF After

LEMMA RunUnique ==
  ASSUME NEW state, NEW text, IsSeq(text), NEW f, NEW g, Run(f, state, text), Run(g, state, text)
  PROVE  f[Len(text)] = g[Len(text)]
  <1> DEFINE Agree == {n \in Nat : n <= Len(text) => f[n] = g[n]}
  <1>1. 0 \in Agree
    BY DEF Run
  <1>2. ASSUME NEW n \in Nat, n \in Agree PROVE n + 1 \in Agree
    <2>1. Len(text) \in Nat
      BY SeqLength
    <2> SUFFICES ASSUME n + 1 <= Len(text) PROVE f[n + 1] = g[n + 1]
      OBVIOUS
    <2>2. n + 1 \in 1 .. Len(text) /\ (n + 1) - 1 = n /\ f[n] = g[n]
      BY <1>2, <2>1
    <2> QED BY <2>2 DEF Run
  <1>3. Len(text) \in Agree
    <2> HIDE DEF Agree
    <2> QED BY <1>1, <1>2, Induction, SeqLength
  <1> QED BY <1>3, SeqLength

LEMMA ReadRuns ==
  ASSUME NEW state, NEW text, IsSeq(text)
  PROVE  \E f : Run(f, state, text) /\ ReadFrom(state, text) = f[Len(text)]
  <1> DEFINE read[i \in 0 .. Len(text)] == IF i = 0 THEN state ELSE Step(read[i - 1], text[i])
  <1>1. read = [i \in 0 .. Len(text) |-> IF i = 0 THEN state ELSE Step(read[i - 1], text[i])]
    BY RunExists
  <1>2. ReadFrom(state, text) = read[Len(text)]
    BY DEF ReadFrom
  <1> HIDE DEF read
  <1>3. Run(read, state, text)
    BY <1>1, SeqLength DEF Run
  <1> QED BY <1>2, <1>3

\* Any run will do, however it came about.
LEMMA ReadEnds ==
  ASSUME NEW state, NEW text, IsSeq(text), NEW f, Run(f, state, text)
  PROVE  ReadFrom(state, text) = f[Len(text)]
  <1> QED BY ReadRuns, RunUnique

\* To read on is to read the rest from where the first part has led.
LEMMA ReadConcat ==
  ASSUME NEW state, NEW text, NEW more, IsSeq(text), IsSeq(more)
  PROVE  ReadFrom(state, text \o more) = ReadFrom(ReadFrom(state, text), more)
  <1> DEFINE m == Len(text)
             n == Len(more)
             whole == text \o more
  <1>1. m \in Nat /\ n \in Nat
    BY SeqLength
  <1>2. /\ IsSeq(whole) /\ Len(whole) = m + n
        /\ \A i \in 1 .. m + n : whole[i] = IF i <= m THEN text[i] ELSE more[i - m]
    BY SeqConcat
  <1>3. PICK f : Run(f, state, text) /\ ReadFrom(state, text) = f[m]
    BY ReadRuns
  <1>4. PICK g : Run(g, f[m], more) /\ ReadFrom(f[m], more) = g[n]
    BY ReadRuns
  <1> DEFINE h == [i \in 0 .. m + n |-> IF i <= m THEN f[i] ELSE g[i - m]]
  <1>5. h[0] = state /\ h[m] = f[m]
    BY <1>1, <1>3 DEF Run
  <1> HIDE DEF whole, m, n
  <1>6. ASSUME NEW i \in 1 .. m + n PROVE h[i] = Step(h[i - 1], whole[i])
    <2>1. CASE i <= m
      <3>1. i \in 1 .. m /\ h[i] = f[i] /\ h[i - 1] = f[i - 1] /\ whole[i] = text[i]
        BY <1>1, <1>2, <2>1
      <3> QED BY <3>1, <1>3 DEF Run, m
    <2>2. CASE i = m + 1
      <3>1. 1 \in 1 .. n /\ h[i] = g[1] /\ h[i - 1] = f[m] /\ whole[i] = more[1]
        BY <1>1, <1>2, <2>2
      <3> QED BY <3>1, <1>4 DEF Run, n
    <2>3. CASE i > m + 1
      <3>1. /\ i - m \in 1 .. n /\ h[i] = g[i - m] /\ h[i - 1] = g[(i - m) - 1]
            /\ whole[i] = more[i - m]
        BY <1>1, <1>2, <2>3
      <3> QED BY <3>1, <1>4 DEF Run, n
    <2> QED BY <1>1, <2>1, <2>2, <2>3
  <1>7. Run(h, state, whole)
    BY <1>2, <1>5, <1>6 DEF Run
  <1>8. h[m + n] = g[n]
    <2>1. CASE n = 0
      BY <1>1, <1>4, <1>5, <2>1 DEF Run
    <2>2. CASE n > 0
      BY <1>1, <2>2
    <2> QED BY <1>1, <2>1, <2>2
  <1>9. ReadFrom(state, whole) = h[m + n]
    BY <1>2, <1>7, ReadEnds
  <1> QED BY <1>3, <1>4, <1>8, <1>9 DEF whole

LEMMA ReadNone == \A state : ReadFrom(state, <<>>) = state
  <1> TAKE state
  <1>1. PICK f : Run(f, state, <<>>) /\ ReadFrom(state, <<>>) = f[0]
    BY SeqEmpty, ReadRuns
  <1> QED BY <1>1 DEF Run

LEMMA ReadOne == \A state, symbol : ReadFrom(state, <<symbol>>) = Step(state, symbol)
  <1> TAKE state, symbol
  <1>1. PICK f : Run(f, state, <<symbol>>) /\ ReadFrom(state, <<symbol>>) = f[1]
    BY SeqOne, ReadRuns
  <1>2. 1 \in 1 .. Len(<<symbol>>) /\ <<symbol>>[1] = symbol
    BY SeqOne
  <1>3. f[1] = Step(f[1 - 1], symbol) /\ f[0] = state
    BY <1>1, <1>2 DEF Run
  <1> QED BY <1>1, <1>3

LEMMA ReadSymbol ==
  ASSUME NEW state, NEW text, IsSeq(text), NEW symbol
  PROVE  /\ IsSeq(Append(text, symbol))
         /\ ReadFrom(state, Append(text, symbol)) = Step(ReadFrom(state, text), symbol)
  <1>1. Append(text, symbol) = text \o <<symbol>> /\ IsSeq(Append(text, symbol))
    BY SeqAppend
  <1>2. ReadFrom(state, text \o <<symbol>>) = ReadFrom(ReadFrom(state, text), <<symbol>>)
    BY SeqOne, ReadConcat
  <1> QED BY <1>1, <1>2, ReadOne

----------------------------------------------------------------------------
(* Sequences joined to one: FlattenSeq, by its running joins *)

\* f[i] is what the first i sequences join to.
Joins(f, seqs) == \A i \in 1 .. Len(seqs) : f[i] = IF i = 1 THEN seqs[i] ELSE f[i - 1] \o seqs[i]

LEMMA JoinExists ==
  ASSUME NEW seqs, IsSeq(seqs)
  PROVE  \E f : f = [i \in 1 .. Len(seqs) |-> IF i = 1 THEN seqs[i] ELSE f[i - 1] \o seqs[i]]
  <1> DEFINE Body(f, i) == IF i = 1 THEN seqs[i] ELSE f[i - 1] \o seqs[i]
             Reached == {n \in Nat : \E f : f = [i \in 1 .. n |-> Body(f, i)]}
  <1>1. 0 \in Reached
    <2> DEFINE f == [i \in 1 .. 0 |-> 0]
    <2>1. f = [i \in 1 .. 0 |-> Body(f, i)]
      OBVIOUS
    <2> QED BY <2>1
  <1>2. ASSUME NEW n \in Nat, n \in Reached PROVE n + 1 \in Reached
    <2>1. PICK f : f = [i \in 1 .. n |-> Body(f, i)]
      BY <1>2
    <2> DEFINE g == [i \in 1 .. n + 1 |-> IF i = n + 1 THEN Body(f, i) ELSE f[i]]
    <2>2. \A i \in 1 .. n : g[i] = f[i]
      OBVIOUS
    <2>3. g[n + 1] = Body(g, n + 1)
      BY <2>2
    <2>4. \A i \in 1 .. n : f[i] = Body(f, i)
      BY <2>1
    <2>5. \A i \in 1 .. n : g[i] = Body(g, i)
      BY <2>2, <2>4
    <2>6. \A i \in 1 .. n + 1 : g[i] = Body(g, i)
      <3> HIDE DEF g, Body
      <3>1. \A i \in 1 .. n + 1 : i \in 1 .. n \/ i = n + 1
        OBVIOUS
      <3> QED BY <2>3, <2>5, <3>1
    <2>7. g = [i \in 1 .. n + 1 |-> Body(g, i)]
      <3>1. g = [i \in 1 .. n + 1 |-> g[i]]
        OBVIOUS
      <3> QED BY ONLY <3>1, <2>6
    <2>8. n + 1 \in Nat
      OBVIOUS
    <2> HIDE DEF g, Body
    <2>9. \E h : h = [i \in 1 .. n + 1 |-> Body(h, i)]
      BY <2>7
    <2> QED BY <2>8, <2>9
  <1>3. Len(seqs) \in Reached
    <2> HIDE DEF Reached
    <2> QED BY <1>1, <1>2, Induction, SeqLength
  <1> QED BY <1>3

LEMMA JoinUnique ==
  ASSUME NEW seqs, IsSeq(seqs), NEW f, NEW g, Joins(f, seqs), NEW more, IsSeq(more),
         Len(seqs) <= Len(more), \A i \in 1 .. Len(seqs) : more[i] = seqs[i], Joins(g, more)
  PROVE  \A i \in 1 .. Len(seqs) : f[i] = g[i]
  <1> DEFINE Agree == {n \in Nat : n \in 1 .. Len(seqs) => f[n] = g[n]}
  <1>1. 0 \in Agree
    OBVIOUS
  <1>2. ASSUME NEW n \in Nat, n \in Agree PROVE n + 1 \in Agree
    <2>1. Len(seqs) \in Nat /\ Len(more) \in Nat
      BY SeqLength
    <2> SUFFICES ASSUME n + 1 \in 1 .. Len(seqs) PROVE f[n + 1] = g[n + 1]
      OBVIOUS
    <2>2. n + 1 \in 1 .. Len(more) /\ more[n + 1] = seqs[n + 1]
      BY <2>1
    <2>3. CASE n = 0
      BY <2>2, <2>3 DEF Joins
    <2>4. CASE n # 0
      <3>1. n \in 1 .. Len(seqs) /\ n + 1 # 1 /\ (n + 1) - 1 = n
        BY <2>1, <2>4
      <3>2. f[n + 1] = f[n] \o seqs[n + 1] /\ g[n + 1] = g[n] \o seqs[n + 1]
        BY <2>2, <3>1 DEF Joins
      <3> QED BY <1>2, <3>1, <3>2
    <2> QED BY <2>3, <2>4
  <1>3. Nat \subseteq Agree
    <2> HIDE DEF Agree
    <2> QED BY <1>1, <1>2, Induction
  <1> QED BY <1>3, SeqLength

LEMMA FlattenJoins ==
  ASSUME NEW seqs, IsSeq(seqs), seqs # <<>>
  PROVE  \E f : Joins(f, seqs) /\ FlattenSeq(seqs) = f[Len(seqs)]
  <1> DEFINE flatten[i \in 1 .. Len(seqs)] ==
                 IF i = 1 THEN seqs[i] ELSE flatten[i - 1] \o seqs[i]
  <1>1. flatten = [i \in 1 .. Len(seqs) |->
                       IF i = 1 THEN seqs[i] ELSE flatten[i - 1] \o seqs[i]]
    BY JoinExists
  <1>2. Len(seqs) # 0
    BY EmptySeq DEF IsSeq
  <1>3. FlattenSeq(seqs) = flatten[Len(seqs)]
    BY <1>2 DEF FlattenSeq
  <1> HIDE DEF flatten
  <1>4. Joins(flatten, seqs)
    BY <1>1 DEF Joins
  <1> QED BY <1>3, <1>4

LEMMA FlattenNone == FlattenSeq(<<>>) = <<>>
  <1> QED BY SeqEmpty DEF FlattenSeq

LEMMA FlattenAppend ==
  ASSUME NEW seqs, IsSeq(seqs), NEW s, IsSeq(s)
  PROVE  FlattenSeq(Append(seqs, s)) = FlattenSeq(seqs) \o s
  <1> DEFINE more == Append(seqs, s)
             n == Len(seqs)
  <1>1. /\ IsSeq(more) /\ more # <<>> /\ Len(more) = n + 1 /\ n \in Nat
        /\ \A i \in 1 .. n : more[i] = seqs[i]
        /\ more[n + 1] = s
    BY SeqAppend, SeqLength
  <1>2. PICK g : Joins(g, more) /\ FlattenSeq(more) = g[n + 1]
    BY <1>1, FlattenJoins
  <1> HIDE DEF more
  <1>3. CASE seqs = <<>>
    <2>1. n = 0
      BY <1>3, SeqEmpty
    <2> HIDE DEF n
    <2>2. g[1] = s
      BY <1>1, <1>2, <2>1 DEF Joins
    <2>3. FlattenSeq(seqs) \o s = s
      BY <1>3, FlattenNone, SeqConcat, SeqEmpty
    <2> QED BY <1>2, <2>1, <2>2, <2>3 DEF more
  <1>4. CASE seqs # <<>>
    <2>1. PICK f : Joins(f, seqs) /\ FlattenSeq(seqs) = f[n]
      BY <1>4, FlattenJoins
    <2>2. n # 0
      BY <1>4, EmptySeq DEF IsSeq
    <2>3. f[n] = g[n]
      <3>1. \A i \in 1 .. Len(seqs) : f[i] = g[i]
        BY <1>1, <1>2, <2>1, JoinUnique
      <3> QED BY <1>1, <2>2, <3>1
    <2> HIDE DEF n
    <2>4. g[n + 1] = g[n] \o s
      <3>1. n + 1 \in 1 .. Len(more) /\ n + 1 # 1 /\ (n + 1) - 1 = n
        BY <1>1, <2>2
      <3> QED BY <1>1, <1>2, <3>1 DEF Joins
    <2> QED BY <1>2, <2>1, <2>3, <2>4 DEF more
  <1> QED BY <1>3, <1>4

----------------------------------------------------------------------------
(* String literals: quoteString *)

\* The symbols that no name and no literal is.
Special == Comparisons \cup Methods \cup Connectives \cup {"(", ")", "!"}

LEMMA Alphabet == Quote # Backslash /\ \A c \in Special : c # Quote
  <1> QED BY DEF Special, Comparisons, Methods, Connectives, Quote, Backslash

LEMMA StepInLiteral ==
  ASSUME NEW characters, NEW open
  PROVE  /\ Step(Literal(characters, open), Quote) = Code(Parse(open, String(characters)))
         /\ Step(Literal(characters, open), Backslash) = Escape(characters, open)
         /\ \A x : x \notin {Quote, Backslash} =>
                Step(Literal(characters, open), x) = Literal(Append(characters, x), open)
         /\ \A x : Step(Escape(characters, open), x) = Literal(Append(characters, x), open)
         /\ Step(Code(open), Quote) = Literal(<<>>, open)
         /\ \A x : x # Quote => Step(Code(open), x) = Code(Parse(open, Symbol(x)))
  <1> HIDE DEF Quote, Backslash
  <1> QED BY Alphabet DEF Step, Literal, Escape, Code

EscapedOne(x, character) == IF x = character THEN <<Backslash, character>> ELSE <<x>>

LEMMA EscapedAppend ==
  ASSUME NEW text, IsSeq(text), NEW x, NEW character
  PROVE  Escaped(Append(text, x), character) = Escaped(text, character) \o EscapedOne(x, character)
  <1> DEFINE more == Append(text, x)
             n == Len(text)
             One(y) == EscapedOne(y, character)
             a == [i \in 1 .. n |-> One(text[i])]
             b == [i \in 1 .. n + 1 |-> One(more[i])]
  <1>1. /\ IsSeq(more) /\ Len(more) = n + 1 /\ n \in Nat
        /\ \A i \in 1 .. n : more[i] = text[i]
        /\ more[n + 1] = x
    BY SeqAppend, SeqLength
  <1>2. Escaped(text, character) = FlattenSeq(a)
    BY SeqLength DEF Escaped, EscapedOne
  <1>3. Escaped(more, character) = FlattenSeq(b)
    BY <1>1, SeqLength DEF Escaped, EscapedOne
  <1> HIDE DEF more, One
  <1>4. IsSeq(a) /\ Len(a) = n
    BY <1>1, SeqFunction
  <1>5. IsSeq(b) /\ Len(b) = n + 1
    BY <1>1, SeqFunction
  <1>6. b = Append(a, One(x))
    <2>1. /\ IsSeq(Append(a, One(x))) /\ Len(Append(a, One(x))) = n + 1
          /\ \A i \in 1 .. n : Append(a, One(x))[i] = a[i]
          /\ Append(a, One(x))[n + 1] = One(x)
      <3> HIDE DEF a
      <3>1. /\ IsSeq(Append(a, One(x))) /\ Len(Append(a, One(x))) = Len(a) + 1
            /\ \A i \in 1 .. Len(a) : Append(a, One(x))[i] = a[i]
            /\ Append(a, One(x))[Len(a) + 1] = One(x)
        BY <1>4, SeqAppend, Zenon
      <3> QED BY <1>4, <3>1
    <2>2. \A i \in 1 .. n : b[i] = a[i]
      BY <1>1
    <2>3. b[n + 1] = One(x)
      BY <1>1
    <2> DEFINE c == Append(a, One(x))
    <2>4. IsSeq(c) /\ Len(c) = n + 1 /\ \A i \in 1 .. n + 1 : b[i] = c[i]
      <3> HIDE DEF a, b
      <3>1. \A i \in 1 .. n + 1 : i \in 1 .. n \/ i = n + 1
        BY <1>1
      <3> QED BY <2>1, <2>2, <2>3, <3>1
    <2> HIDE DEF c, b
    <2>5. b = c
      BY <1>5, <2>4, SeqSame
    <2> QED BY <2>5 DEF c
  <1>7. IsSeq(One(x))
    BY SeqOne, SeqTwo DEF One, EscapedOne
  <1> HIDE DEF a, b
  <1>8. FlattenSeq(Append(a, One(x))) = FlattenSeq(a) \o One(x)
    BY <1>4, <1>7, FlattenAppend
  <1> QED BY <1>2, <1>3, <1>6, <1>8 DEF more, One

LEMMA EscapedNone == \A character : Escaped(<<>>, character) = <<>>
  <1> TAKE character
  <1> DEFINE a == [i \in DOMAIN <<>> |->
                     IF <<>>[i] = character THEN <<Backslash, character>> ELSE << <<>>[i] >>]
  <1>1. a = <<>>
    <2>1. DOMAIN <<>> = 1 .. 0
      BY SeqEmpty, SeqLength
    <2>2. a = [i \in 1 .. 0 |-> a[i]]
      BY <2>1
    <2> HIDE DEF a
    <2>3. IsSeq(a) /\ Len(a) = 0
      BY <2>2, SeqFunction
    <2> QED BY <2>3, SeqEmpty, SeqSame
  <1>2. Escaped(<<>>, character) = FlattenSeq(a)
    BY DEF Escaped
  <1> HIDE DEF a
  <1> QED BY <1>1, <1>2, FlattenNone

LEMMA EscapedGrows ==
  ASSUME NEW text, IsSeq(text), NEW x, NEW character, IsSeq(Escaped(text, character))
  PROVE  /\ IsSeq(Escaped(Append(text, x), character))
         /\ x = character =>
                Escaped(Append(text, x), character) =
                    Append(Append(Escaped(text, character), Backslash), x)
         /\ x # character =>
                Escaped(Append(text, x), character) = Append(Escaped(text, character), x)
  <1> DEFINE one == EscapedOne(x, character)
             e == Escaped(text, character)
  <1>1. Escaped(Append(text, x), character) = e \o one
    BY EscapedAppend
  <1>2. CASE x = character
    <2>1. one = <<Backslash, x>>
      BY <1>2 DEF EscapedOne
    <2> HIDE DEF one, e
    <2>2. e \o <<Backslash, x>> = Append(Append(e, Backslash), x)
      BY SeqPair DEF e
    <2>3. IsSeq(Append(Append(e, Backslash), x))
      BY SeqAppend DEF e
    <2> QED BY <1>1, <1>2, <2>1, <2>2, <2>3 DEF e
  <1>3. CASE x # character
    <2>1. one = <<x>>
      BY <1>3 DEF EscapedOne
    <2> HIDE DEF one, e
    <2>2. e \o <<x>> = Append(e, x) /\ IsSeq(Append(e, x))
      BY SeqAppend DEF e
    <2> QED BY <1>1, <1>3, <2>1, <2>2 DEF e
  <1> QED BY <1>2, <1>3

\* What quoteString does to a text before it puts the quotes.
Twice(text) == Escaped(Escaped(text, Backslash), Quote)

LEMMA TwiceGrows ==
  ASSUME NEW text, IsSeq(text), NEW x, IsSeq(Escaped(text, Backslash)), IsSeq(Twice(text))
  PROVE  /\ IsSeq(Escaped(Append(text, x), Backslash)) /\ IsSeq(Twice(Append(text, x)))
         /\ x \in {Quote, Backslash} =>
                Twice(Append(text, x)) = Append(Append(Twice(text), Backslash), x)
         /\ x \notin {Quote, Backslash} => Twice(Append(text, x)) = Append(Twice(text), x)
  <1> DEFINE more == Append(text, x)
             e == Escaped(text, Backslash)
             f == Escaped(more, Backslash)
             g == Append(e, Backslash)
             twice == Twice(text)
  <1>1. IsSeq(e) /\ twice = Escaped(e, Quote) /\ IsSeq(twice) /\ Twice(more) = Escaped(f, Quote)
    BY DEF Twice
  <1>2. /\ IsSeq(f)
        /\ x = Backslash => f = Append(g, x)
        /\ x # Backslash => f = Append(e, x)
    BY EscapedGrows, Zenon
  <1> HIDE DEF more, e, f, g, twice
  <1>3. /\ IsSeq(Escaped(Append(e, x), Quote))
        /\ x = Quote => Escaped(Append(e, x), Quote) = Append(Append(Escaped(e, Quote), Backslash), x)
        /\ x # Quote => Escaped(Append(e, x), Quote) = Append(Escaped(e, Quote), x)
    BY <1>1, EscapedGrows, Zenon
  <1>4. CASE x = Backslash
    <2>1. IsSeq(g)
      BY <1>1, SeqAppend DEF g
    <2>2. IsSeq(Escaped(g, Quote)) /\ Escaped(g, Quote) = Append(Escaped(e, Quote), x)
      BY <1>3, <1>4, Alphabet DEF g
    <2>3. /\ IsSeq(Escaped(Append(g, x), Quote))
          /\ x # Quote => Escaped(Append(g, x), Quote) = Append(Escaped(g, Quote), x)
      BY <2>1, <2>2, EscapedGrows, Zenon
    <2>4. IsSeq(Twice(more)) /\ Twice(more) = Append(Append(twice, Backslash), x)
      BY <1>1, <1>2, <1>4, <2>2, <2>3, Alphabet
    <2> QED BY <1>2, <1>4, <2>4 DEF f, more, twice
  <1>5. CASE x = Quote
    <2>1. IsSeq(Twice(more)) /\ Twice(more) = Append(Append(twice, Backslash), x)
      BY <1>1, <1>2, <1>3, <1>5, Alphabet
    <2> QED BY <1>2, <1>5, <2>1 DEF f, more, twice
  <1>6. CASE x \notin {Quote, Backslash}
    <2>1. IsSeq(Twice(more)) /\ Twice(more) = Append(twice, x)
      BY <1>1, <1>2, <1>3, <1>6
    <2> QED BY <1>2, <1>6, <2>1 DEF f, more, twice
  <1> QED BY <1>4, <1>5, <1>6

\* Behind an opening quote, the reader gets back the text that was escaped.
Spelled(text) ==
  /\ IsSeq(Escaped(text, Backslash)) /\ IsSeq(Twice(text))
  /\ \A open : ReadFrom(Literal(<<>>, open), Twice(text)) = Literal(text, open)

LEMMA SpelledAppend ==
  ASSUME NEW text, IsSeq(text), Spelled(text), NEW x
  PROVE  Spelled(Append(text, x))
  <1> DEFINE more == Append(text, x)
             twice == Twice(text)
             half == Append(twice, Backslash)
  <1>1. IsSeq(Escaped(text, Backslash)) /\ IsSeq(twice)
    BY DEF Spelled
  <1>2. ASSUME NEW open PROVE ReadFrom(Literal(<<>>, open), twice) = Literal(text, open)
    BY DEF Spelled
  <1>3. /\ IsSeq(Escaped(more, Backslash)) /\ IsSeq(Twice(more))
        /\ x \in {Quote, Backslash} => Twice(more) = Append(half, x)
        /\ x \notin {Quote, Backslash} => Twice(more) = Append(twice, x)
    BY <1>1, TwiceGrows, Zenon
  <1> HIDE DEF more, twice, half
  <1>4. ASSUME NEW open PROVE ReadFrom(Literal(<<>>, open), Twice(more)) = Literal(more, open)
    <2> DEFINE start == Literal(<<>>, open)
    <2>1. ReadFrom(start, twice) = Literal(text, open)
      BY <1>2
    <2> HIDE DEF start
    <2>2. /\ IsSeq(half) /\ ReadFrom(start, half) = Step(ReadFrom(start, twice), Backslash)
      <3>1. /\ IsSeq(Append(twice, Backslash))
            /\ ReadFrom(start, Append(twice, Backslash)) = Step(ReadFrom(start, twice), Backslash)
        BY <1>1, ReadSymbol, Zenon
      <3> QED BY <3>1 DEF half
    <2>3. ReadFrom(start, Append(half, x)) = Step(ReadFrom(start, half), x)
      <3>1. IsSeq(half)
        BY <2>2
      <3> QED BY ONLY <3>1, ReadSymbol, Zenon
    <2>4. ReadFrom(start, Append(twice, x)) = Step(ReadFrom(start, twice), x)
      BY <1>1, ReadSymbol, Zenon
    <2>5. Step(Literal(text, open), Backslash) = Escape(text, open)
      BY StepInLiteral
    <2>6. Step(Escape(text, open), x) = Literal(more, open)
      BY StepInLiteral, Zenon DEF more
    <2>7. x \notin {Quote, Backslash} => Step(Literal(text, open), x) = Literal(more, open)
      BY StepInLiteral, Zenon DEF more
    <2>8. ReadFrom(start, Twice(more)) = Literal(more, open)
      BY <1>3, <2>1, <2>2, <2>3, <2>4, <2>5, <2>6, <2>7
    <2> QED BY <2>8 DEF start
  <1> QED BY <1>3, <1>4, Zenon DEF Spelled, more

LEMMA AllSpelled == \A text : IsSeq(text) => Spelled(text)
  <1> DEFINE Done == {n \in Nat : \A text : IsSeq(text) /\ Len(text) = n => Spelled(text)}
  <1>1. Spelled(<<>>)
    <2>1. Escaped(<<>>, Backslash) = <<>> /\ Twice(<<>>) = <<>>
      BY EscapedNone DEF Twice
    <2> QED BY <2>1, SeqEmpty, ReadNone DEF Spelled
  <1>2. ASSUME NEW text, IsSeq(text), Len(text) = 0 PROVE text = <<>>
    BY <1>2, SeqEmpty, SeqSame
  <1>3. 0 \in Done
    BY <1>1, <1>2
  <1>4. ASSUME NEW n \in Nat, n \in Done PROVE n + 1 \in Done
    <2>1. ASSUME NEW text, IsSeq(text), Len(text) = n + 1 PROVE Spelled(text)
      <3>1. text # <<>>
        BY <2>1, SeqEmpty
      <3>2. PICK front, last : IsSeq(front) /\ text = Append(front, last) /\ Len(text) = Len(front) + 1
        BY <2>1, <3>1, SeqSplit
      <3>3. Len(front) \in Nat
        BY <3>2, SeqLength
      <3>4. Len(front) = n
        BY <2>1, <3>2, <3>3
      <3>5. Spelled(front)
        BY <1>4, <3>2, <3>4
      <3> QED BY <3>2, <3>5, SpelledAppend
    <2> QED BY <2>1
  <1>5. Nat \subseteq Done
    <2> HIDE DEF Done
    <2> QED BY <1>3, <1>4, Induction
  <1> QED BY <1>5, SeqLength

\* "Values are escaped": whatever characters a text has, quoteString makes one
\* literal of it, which ends where it should and holds this very text.
THEOREM QuotedReads ==
  ASSUME NEW text, IsSeq(text), NEW open
  PROVE  /\ IsSeq(quoteString(text)) /\ quoteString(text) # <<>>
         /\ ReadFrom(Code(open), quoteString(text)) = Code(Parse(open, String(text)))
  <1> DEFINE start == <<Quote>>
             body == Twice(text)
             opened == start \o body
  <1>1. quoteString(text) = opened \o <<Quote>>
    BY DEF quoteString, Twice
  <1>2. IsSeq(start) /\ IsSeq(body) /\ ReadFrom(Literal(<<>>, open), body) = Literal(text, open)
    BY AllSpelled, SeqOne DEF Spelled
  <1>3. ReadFrom(Code(open), start) = Literal(<<>>, open)
    BY ReadOne, StepInLiteral
  <1> HIDE DEF start, body
  <1>4. IsSeq(opened) /\ ReadFrom(Code(open), opened) = Literal(text, open)
    BY <1>2, <1>3, SeqConcat, ReadConcat
  <1> HIDE DEF opened
  <1> DEFINE closed == Append(opened, Quote)
  <1>5. opened \o <<Quote>> = closed /\ IsSeq(closed) /\ closed # <<>>
    BY <1>4, SeqAppend
  <1>6. ReadFrom(Code(open), closed) = Step(ReadFrom(Code(open), opened), Quote)
    BY <1>4, ReadSymbol, Zenon
  <1>7. Step(Literal(text, open), Quote) = Code(Parse(open, String(text)))
    BY StepInLiteral
  <1> HIDE DEF closed
  <1> QED BY <1>1, <1>4, <1>5, <1>6, <1>7

----------------------------------------------------------------------------
(* Nodes, and the terms they contract to *)

\* What still waits for a node behind it.
Waits(node) == Is(node, Comparisons \cup Methods \cup {"!"})

Quiet(nodes) == nodes = <<>> \/ ~Waits(nodes[Len(nodes)])

LEMMA QuietOne == \A node : IsSeq(<<node>>) /\ (~Waits(node) => Quiet(<<node>>))
  <1> TAKE node
  <1>1. IsSeq(<<node>>) /\ Len(<<node>>) = 1 /\ <<node>>[1] = node
    BY SeqOne
  <1> QED BY <1>1 DEF Quiet

LEMMA QuietConcat ==
  ASSUME NEW nodes, NEW more, IsSeq(nodes), IsSeq(more), Quiet(nodes), Quiet(more)
  PROVE  IsSeq(nodes \o more) /\ Quiet(nodes \o more)
  <1> DEFINE whole == nodes \o more
             m == Len(nodes)
             n == Len(more)
  <1>1. m \in Nat /\ n \in Nat
    BY SeqLength
  <1>2. /\ IsSeq(whole) /\ Len(whole) = m + n
        /\ \A i \in 1 .. m + n : whole[i] = IF i <= m THEN nodes[i] ELSE more[i - m]
        /\ nodes \o <<>> = nodes
    BY SeqConcat
  <1>3. CASE more = <<>>
    BY <1>2, <1>3
  <1>4. CASE more # <<>>
    <2>1. n # 0
      BY <1>4, EmptySeq DEF IsSeq
    <2>2. ~Waits(more[n])
      BY <1>4 DEF Quiet
    <2> HIDE DEF whole, m, n
    <2>3. m + n \in 1 .. m + n /\ ~(m + n <= m) /\ (m + n) - m = n
      BY <1>1, <2>1
    <2>4. whole[Len(whole)] = more[n]
      BY <1>2, <2>3
    <2>5. Quiet(whole)
      BY <2>2, <2>4 DEF Quiet
    <2> QED BY <1>2, <2>5 DEF whole
  <1> QED BY <1>3, <1>4

LEMMA TermsRest == \A node : IsTerm(node) => ~Waits(node)
  <1> TAKE node
  <1> SUFFICES ASSUME IsTerm(node) PROVE node.op # "symbol"
    BY DEF Waits, Is
  <1> QED BY DEF IsTerm, Comparisons, Methods, Connectives

LEMMA SymbolIs == \A s, symbols : Is(Symbol(s), symbols) <=> s \in symbols
  <1> QED BY DEF Is, Symbol, Node

LEMMA StringIs == \A s, symbols : ~Is(String(s), symbols)
  <1> QED BY DEF Is, String, Node

LEMMA ContractQuiet ==
  ASSUME NEW nodes, IsSeq(nodes), Quiet(nodes), NEW x
  PROVE  Contract(Append(nodes, x)) = Append(nodes, x)
  <1> DEFINE more == Append(nodes, x)
             n == Len(nodes)
  <1>1. /\ n \in Nat /\ Len(more) = n + 1 /\ more[n + 1] = x
        /\ nodes # <<>> => n >= 1 /\ more[n] = nodes[n]
        /\ nodes = <<>> => n = 0
    BY GrownBy
  <1>2. nodes # <<>> => ~Waits(nodes[n])
    BY DEF Quiet
  <1> HIDE DEF more, n
  <1>3. n >= 1 => ~Is(more[n], Comparisons) /\ ~Is(more[n], Methods) /\ ~Is(more[n], {"!"})
    BY <1>1, <1>2 DEF Waits, Is
  <1>4. Len(more) - 1 = n /\ (Len(more) >= 2 => n >= 1) /\ (Len(more) >= 3 => n >= 1)
    BY <1>1
  <1>5. Contract(more) = more
    BY <1>3, <1>4 DEF Contract
  <1> QED BY <1>5 DEF more

LEMMA ContractTerm ==
  ASSUME NEW nodes, IsSeq(nodes), NEW field, NEW op, NEW value,
         \/ op \in Comparisons /\ IsValue(value)
         \/ op \in Methods /\ value.op = "string"
  PROVE  Contract(Append(Append(Append(nodes, Symbol(field)), Symbol(op)), value)) =
             Append(nodes, Node(op, <<field>>, <<value>>))
  <1> DEFINE a == Append(nodes, Symbol(field))
             b == Append(a, Symbol(op))
             c == Append(b, value)
             n == Len(nodes)
  <1>1. IsSeq(a) /\ n \in Nat /\ Len(a) = n + 1 /\ a[n + 1] = Symbol(field)
    BY GrownBy
  <1>2. SubSeq(a, 1, n) = nodes /\ \A i \in 1 .. n : a[i] = nodes[i]
    BY SeqPrefix, SeqAppend
  <1> HIDE DEF a, n
  <1>3. /\ IsSeq(b) /\ Len(b) = n + 2 /\ b[n + 2] = Symbol(op)
        /\ \A i \in 1 .. n + 1 : b[i] = a[i]
    <2>1. /\ IsSeq(b) /\ Len(b) = Len(a) + 1 /\ b[Len(a) + 1] = Symbol(op)
          /\ \A i \in 1 .. Len(a) : b[i] = a[i]
      BY <1>1, SeqAppend, Zenon
    <2> HIDE DEF b
    <2> QED BY <1>1, <2>1
  <1> HIDE DEF b
  <1>4. /\ IsSeq(c) /\ Len(c) = n + 3 /\ c[n + 3] = value
        /\ \A i \in 1 .. n + 2 : c[i] = b[i]
    <2>1. /\ IsSeq(c) /\ Len(c) = Len(b) + 1 /\ c[Len(b) + 1] = value
          /\ \A i \in 1 .. Len(b) : c[i] = b[i]
      <3>1. IsSeq(b)
        BY <1>3
      <3> QED BY <3>1, SeqAppend, Zenon
    <2> HIDE DEF c
    <2> QED BY <1>1, <1>3, <2>1
  <1> HIDE DEF c
  <1>5. c[n + 2] = Symbol(op) /\ c[n + 1] = Symbol(field)
    BY <1>1, <1>3, <1>4
  <1>6. SubSeq(c, 1, n) = nodes
    <2>1. \A i \in 1 .. n : c[i] = nodes[i]
      BY <1>1, <1>2, <1>3, <1>4
    <2> QED BY <1>1, <2>1, SeqSubSeq DEF n
  <1>7. Len(c) - 1 = n + 2 /\ Len(c) - 2 = n + 1 /\ Len(c) - 3 = n /\ Len(c) >= 3
    BY <1>1, <1>4
  <1>8. Is(c[n + 2], Comparisons) <=> op \in Comparisons
    BY <1>5, SymbolIs
  <1>9. Is(c[n + 2], Methods) <=> op \in Methods
    BY <1>5, SymbolIs
  <1>10. ~Is(c[n + 2], {"!"}) /\ ~(op \in Comparisons /\ op \in Methods)
    BY <1>5, SymbolIs DEF Comparisons, Methods
  <1>11. c[n + 2].text[1] = op /\ c[n + 1].text = <<field>>
    BY <1>5 DEF Symbol, Node
  <1>12. Contract(c) = Append(nodes, Node(op, <<field>>, <<value>>))
    BY <1>4, <1>6, <1>7, <1>8, <1>9, <1>10, <1>11 DEF Contract
  <1> QED BY <1>12 DEF a, b, c

LEMMA ContractNot ==
  ASSUME NEW nodes, IsSeq(nodes), NEW node
  PROVE  Contract(Append(Append(nodes, Symbol("!")), node)) =
             IF IsTerm(node) THEN Append(nodes, Node("!", <<>>, <<node>>))
                             ELSE Append(Append(nodes, Symbol("!")), node)
  <1> DEFINE a == Append(nodes, Symbol("!"))
             b == Append(a, node)
             n == Len(nodes)
  <1>1. IsSeq(a) /\ n \in Nat /\ Len(a) = n + 1 /\ a[n + 1] = Symbol("!")
    BY GrownBy
  <1>2. SubSeq(b, 1, n) = nodes
    BY SeqPrefix
  <1> HIDE DEF a, n
  <1>3. /\ IsSeq(b) /\ Len(b) = n + 2 /\ b[n + 2] = node
        /\ \A i \in 1 .. n + 1 : b[i] = a[i]
    <2>1. /\ IsSeq(b) /\ Len(b) = Len(a) + 1 /\ b[Len(a) + 1] = node
          /\ \A i \in 1 .. Len(a) : b[i] = a[i]
      BY <1>1, SeqAppend, Zenon
    <2> HIDE DEF b
    <2> QED BY <1>1, <2>1
  <1> HIDE DEF b
  <1>4. b[n + 1] = Symbol("!")
    BY <1>1, <1>3
  <1>5. Len(b) - 1 = n + 1 /\ Len(b) - 2 = n /\ Len(b) >= 2
    BY <1>1, <1>3
  <1>6. Is(b[n + 1], {"!"}) /\ ~Is(b[n + 1], Comparisons) /\ ~Is(b[n + 1], Methods)
    BY <1>4, SymbolIs DEF Comparisons, Methods
  <1>7. Contract(b) = IF IsTerm(node) THEN Append(nodes, Node("!", <<>>, <<node>>)) ELSE b
    BY <1>2, <1>3, <1>5, <1>6 DEF Contract
  <1> QED BY <1>7 DEF a, b

LEMMA ParseNode ==
  ASSUME NEW below, NEW nodes, IsSeq(below), NEW lexeme, ~Is(lexeme, {"("}), ~Is(lexeme, {")"})
  PROVE  Parse(Append(below, nodes), lexeme) = Append(below, Contract(Append(nodes, lexeme)))
  <1> DEFINE open == Append(below, nodes)
  <1>1. Front(open) = below /\ Last(open) = nodes
    BY FrontLast
  <1> HIDE DEF open
  <1>2. Parse(open, lexeme) = Append(Front(open), Contract(Append(Last(open), lexeme)))
    BY DEF Parse
  <1> QED BY <1>1, <1>2 DEF open

LEMMA ParseOpen ==
  ASSUME NEW open
  PROVE  Parse(open, Symbol("(")) = Append(open, <<>>)
  <1>1. Is(Symbol("("), {"("}) /\ ~Is(Symbol("("), {")"})
    BY SymbolIs
  <1> QED BY <1>1 DEF Parse

LEMMA ParseClose ==
  ASSUME NEW below, IsSeq(below), NEW nodes, NEW inner
  PROVE  Parse(Append(Append(below, nodes), inner), Symbol(")")) =
             Append(below, Contract(Append(nodes, Group(inner))))
  <1> DEFINE a == Append(below, nodes)
             open == Append(a, inner)
             n == Len(below)
  <1>1. IsSeq(a) /\ n \in Nat /\ Len(a) = n + 1 /\ a[n + 1] = nodes
    BY GrownBy
  <1>2. SubSeq(open, 1, n) = below
    BY SeqPrefix
  <1> HIDE DEF a, n
  <1>3. Last(open) = inner
    BY <1>1, FrontLast
  <1>4. /\ IsSeq(open) /\ Len(open) = Len(a) + 1
        /\ \A i \in 1 .. Len(a) : open[i] = a[i]
    BY <1>1, SeqAppend, Zenon
  <1> HIDE DEF open
  <1>5. Len(open) >= 2 /\ Len(open) - 2 = n /\ Len(open) - 1 = n + 1 /\ open[n + 1] = nodes
    BY <1>1, <1>4
  <1>6. ~Is(Symbol(")"), {"("}) /\ Is(Symbol(")"), {")"})
    BY SymbolIs
  <1>7. Parse(open, Symbol(")")) =
            Append(SubSeq(open, 1, Len(open) - 2),
                   Contract(Append(open[Len(open) - 1], Group(Last(open)))))
    BY <1>5, <1>6 DEF Parse
  <1>8. Parse(open, Symbol(")")) = Append(below, Contract(Append(nodes, Group(inner))))
    BY <1>2, <1>3, <1>5, <1>7
  <1> QED BY <1>8 DEF a, open

----------------------------------------------------------------------------
(* What a text leaves: the same nodes, wherever no node is waited for *)

\* below: the parentheses that are open; before: the nodes of the last of them.
Leaves(text, nodes) ==
  /\ IsSeq(text) /\ IsSeq(nodes) /\ Quiet(nodes)
  /\ \A below, before : IsSeq(below) /\ IsSeq(before) /\ Quiet(before) =>
        ReadFrom(Code(Append(below, before)), text) = Code(Append(below, before \o nodes))

LEMMA LeavesNothing == Leaves(<<>>, <<>>)
  <1>1. ASSUME NEW below, NEW before, IsSeq(before)
        PROVE  ReadFrom(Code(Append(below, before)), <<>>) = Code(Append(below, before \o <<>>))
    <2>1. before \o <<>> = before
      BY <1>1, SeqConcat, SeqEmpty
    <2> QED BY <2>1, ReadNone
  <1> QED BY <1>1, SeqEmpty DEF Leaves, Quiet

LEMMA LeavesConcat ==
  ASSUME NEW text, NEW nodes, Leaves(text, nodes), NEW more, NEW others, Leaves(more, others)
  PROVE  Leaves(text \o more, nodes \o others)
  <1>1. /\ IsSeq(text) /\ IsSeq(more) /\ IsSeq(nodes) /\ IsSeq(others)
        /\ Quiet(nodes) /\ Quiet(others)
    BY DEF Leaves
  <1>2. IsSeq(text \o more) /\ IsSeq(nodes \o others) /\ Quiet(nodes \o others)
    BY <1>1, SeqConcat, QuietConcat
  <1>3. ASSUME NEW below, NEW before, IsSeq(below), IsSeq(before), Quiet(before)
        PROVE  ReadFrom(Code(Append(below, before)), text \o more) =
                   Code(Append(below, before \o (nodes \o others)))
    <2> DEFINE start == Code(Append(below, before))
               then == before \o nodes
    <2>1. ReadFrom(start, text) = Code(Append(below, then))
      BY <1>3 DEF Leaves
    <2>2. IsSeq(then) /\ Quiet(then)
      BY <1>1, <1>3, QuietConcat
    <2>3. then \o others = before \o (nodes \o others)
      BY <1>1, <1>3, SeqRegroup
    <2> HIDE DEF start, then
    <2>4. ReadFrom(Code(Append(below, then)), more) = Code(Append(below, then \o others))
      BY <1>3, <2>2 DEF Leaves
    <2>5. ReadFrom(start, text \o more) = ReadFrom(ReadFrom(start, text), more)
      BY <1>1, ReadConcat
    <2>6. ReadFrom(start, text \o more) = Code(Append(below, before \o (nodes \o others)))
      BY <2>1, <2>3, <2>4, <2>5
    <2> QED BY <2>6 DEF start
  <1> QED BY <1>2, <1>3, Zenon DEF Leaves

LEMMA LeavesSymbol ==
  ASSUME NEW symbol, symbol # Quote, symbol \notin {"(", ")"}, ~Waits(Symbol(symbol))
  PROVE  Leaves(<<symbol>>, <<Symbol(symbol)>>)
  <1> DEFINE node == Symbol(symbol)
  <1>1. ~Is(node, {"("}) /\ ~Is(node, {")"})
    BY SymbolIs
  <1> HIDE DEF node
  <1>2. ASSUME NEW below, NEW before, IsSeq(below), IsSeq(before), Quiet(before)
        PROVE  ReadFrom(Code(Append(below, before)), <<symbol>>) =
                   Code(Append(below, before \o <<node>>))
    <2>1. ReadFrom(Code(Append(below, before)), <<symbol>>) =
              Code(Parse(Append(below, before), node))
      BY ReadOne, StepInLiteral, Zenon DEF node
    <2>2. Parse(Append(below, before), node) = Append(below, Contract(Append(before, node)))
      BY <1>1, <1>2, ParseNode
    <2>3. Contract(Append(before, node)) = Append(before, node)
      BY <1>2, ContractQuiet
    <2>4. Append(before, node) = before \o <<node>>
      BY <1>2, SeqAppend
    <2> QED BY <2>1, <2>2, <2>3, <2>4
  <1>3. Quiet(<<node>>) /\ IsSeq(<<node>>) /\ IsSeq(<<symbol>>)
    BY QuietOne, SeqOne DEF node
  <1> QED BY <1>2, <1>3, Zenon DEF Leaves, node

----------------------------------------------------------------------------
(* Comparisons *)

LEMMA WordsPlain ==
  ASSUME NEW symbol, Word(symbol)
  PROVE  /\ symbol # Quote /\ symbol \notin {"(", ")"} /\ IsValue(Symbol(symbol))
         /\ ~Waits(Symbol(symbol)) /\ symbol \notin Special
  <1>1. ~Is(Symbol(symbol), Special)
    BY StringIs DEF Word, IsValue, Special, Symbol, Node
  <1>2. symbol \notin Special
    BY <1>1, SymbolIs
  <1>3. symbol \notin Comparisons \cup Methods \cup {"!"} /\ symbol \notin {"(", ")"}
    BY <1>2 DEF Special
  <1>4. ~Waits(Symbol(symbol))
    BY <1>3, SymbolIs DEF Waits
  <1> QED BY <1>2, <1>3, <1>4 DEF Word

\* What formatLiteral is given.
IsLiteral(value) ==
  \/ value = String(value.text) /\ IsSeq(value.text)
  \/ value = Symbol(value.text[1]) /\ Word(value.text[1])

LEMMA LiteralReads ==
  ASSUME NEW value, IsLiteral(value), NEW open
  PROVE  /\ IsSeq(formatLiteral(value))
         /\ ReadFrom(Code(open), formatLiteral(value)) = Code(Parse(open, value))
         /\ IsValue(value) /\ ~Is(value, {"("}) /\ ~Is(value, {")"})
  <1>1. ASSUME value = String(value.text), IsSeq(value.text)
        PROVE  /\ IsSeq(formatLiteral(value))
               /\ ReadFrom(Code(open), formatLiteral(value)) = Code(Parse(open, value))
               /\ IsValue(value) /\ ~Is(value, {"("}) /\ ~Is(value, {")"})
    <2> DEFINE text == value.text
    <2>1. value.op = "string"
      BY <1>1 DEF String, Node
    <2>2. formatLiteral(value) = quoteString(text)
      BY <2>1 DEF formatLiteral
    <2> HIDE DEF text
    <2>3. IsSeq(text) /\ value = String(text)
      BY <1>1 DEF text
    <2>4. /\ IsSeq(quoteString(text))
          /\ ReadFrom(Code(open), quoteString(text)) = Code(Parse(open, String(text)))
      BY <2>3, QuotedReads
    <2> QED BY <2>1, <2>2, <2>3, <2>4 DEF IsValue, Is
  <1>2. ASSUME value = Symbol(value.text[1]), Word(value.text[1])
        PROVE  /\ IsSeq(formatLiteral(value))
               /\ ReadFrom(Code(open), formatLiteral(value)) = Code(Parse(open, value))
               /\ IsValue(value) /\ ~Is(value, {"("}) /\ ~Is(value, {")"})
    <2> DEFINE word == value.text[1]
    <2>1. formatLiteral(value) = <<word>>
      BY <1>2 DEF formatLiteral, Symbol, Node
    <2> HIDE DEF word
    <2>2. value = Symbol(word) /\ Word(word)
      BY <1>2 DEF word
    <2>3. word # Quote /\ word \notin {"(", ")"} /\ IsValue(value)
      BY <2>2, WordsPlain
    <2>4. ReadFrom(Code(open), <<word>>) = Code(Parse(open, Symbol(word)))
      BY <2>3, ReadOne, StepInLiteral, Zenon
    <2>5. ~Is(value, {"("}) /\ ~Is(value, {")"})
      BY <2>2, <2>3, SymbolIs
    <2> QED BY <2>1, <2>2, <2>3, <2>4, <2>5, SeqOne
  <1> QED BY <1>1, <1>2 DEF IsLiteral

LEMMA AlphabetPlain ==
  /\ \A op \in Comparisons \cup Methods : op # Quote /\ op \notin {"(", ")"}
  /\ \A op \in Connectives : op # Quote /\ op \notin {"(", ")"} /\ ~Waits(Symbol(op))
  /\ "(" # Quote /\ ")" # Quote /\ "!" # Quote /\ "!" \notin {"(", ")"}
  <1>1. \A op \in Connectives : op \notin Comparisons \cup Methods \cup {"!"}
    BY DEF Connectives, Comparisons, Methods
  <1>2. \A op \in Connectives : ~Waits(Symbol(op))
    BY <1>1, SymbolIs DEF Waits
  <1>3. \A op \in Comparisons \cup Methods \cup Connectives : op \notin {"(", ")"}
    BY DEF Connectives, Comparisons, Methods
  <1> QED BY <1>2, <1>3, Alphabet DEF Special

\* The name of a field, and an operator behind it.
LEMMA OperatorReads ==
  ASSUME NEW below, NEW before, IsSeq(below), IsSeq(before), Quiet(before),
         NEW field, Word(field), NEW op \in Comparisons \cup Methods
  PROVE  ReadFrom(Code(Append(below, before)), <<field, op>>) =
             Code(Append(below, Append(Append(before, Symbol(field)), Symbol(op))))
  <1> DEFINE one == <<field>>
             a == Append(before, Symbol(field))
             b == Append(a, Symbol(op))
             start == Code(Append(below, before))
  <1>1. field # Quote /\ field \notin {"(", ")"} /\ ~Waits(Symbol(field))
    BY WordsPlain
  <1>2. IsSeq(one) /\ <<field, op>> = Append(one, op) /\ Leaves(one, <<Symbol(field)>>)
    BY <1>1, SeqOne, SeqTwo, LeavesSymbol
  <1>3. IsSeq(a) /\ a = before \o <<Symbol(field)>>
    BY SeqAppend
  <1> HIDE DEF one
  <1>4. ReadFrom(start, one) = Code(Append(below, before \o <<Symbol(field)>>))
    BY <1>2 DEF Leaves
  <1>5. Quiet(a)
    BY <1>1, <1>3, QuietOne, QuietConcat
  <1> HIDE DEF a, start
  <1>6. ReadFrom(start, Append(one, op)) = Step(ReadFrom(start, one), op)
    BY <1>2, ReadSymbol
  <1>7. Step(Code(Append(below, a)), op) = Code(Parse(Append(below, a), Symbol(op)))
    BY AlphabetPlain, StepInLiteral, Zenon
  <1>8. ~Is(Symbol(op), {"("}) /\ ~Is(Symbol(op), {")"})
    BY AlphabetPlain, SymbolIs
  <1>9. Parse(Append(below, a), Symbol(op)) = Append(below, b)
    <2>1. Parse(Append(below, a), Symbol(op)) = Append(below, Contract(Append(a, Symbol(op))))
      BY <1>8, ParseNode
    <2>2. Contract(Append(a, Symbol(op))) = Append(a, Symbol(op))
      BY <1>3, <1>5, ContractQuiet
    <2> QED BY <2>1, <2>2
  <1>10. ReadFrom(start, <<field, op>>) = Code(Append(below, b))
    BY <1>2, <1>3, <1>4, <1>6, <1>7, <1>9
  <1> QED BY <1>10 DEF a, start

LEMMA CompareLeaves ==
  ASSUME NEW field, Word(field), NEW op \in Comparisons, NEW value, IsLiteral(value)
  PROVE  /\ Leaves(Compare(field, op, value), <<Node(op, <<field>>, <<value>>)>>)
         /\ Compare(field, op, value) # <<>>
  <1> DEFINE term == Node(op, <<field>>, <<value>>)
             pair == <<field, op>>
             literal == formatLiteral(value)
  <1>1. IsTerm(term) /\ ~Waits(term)
    BY TermsRest DEF IsTerm, Node
  <1>2. IsSeq(pair) /\ IsSeq(literal) /\ pair # <<>>
    BY SeqTwo, LiteralReads
  <1>3. ASSUME NEW below, NEW before, IsSeq(below), IsSeq(before), Quiet(before)
        PROVE  ReadFrom(Code(Append(below, before)), pair \o literal) =
                   Code(Append(below, before \o <<term>>))
    <2> DEFINE b == Append(Append(before, Symbol(field)), Symbol(op))
               start == Code(Append(below, before))
    <2>1. ReadFrom(start, pair) = Code(Append(below, b))
      BY <1>3, OperatorReads
    <2>2. Contract(Append(b, value)) = Append(before, term)
      BY <1>3, LiteralReads, ContractTerm
    <2>3. Append(before, term) = before \o <<term>>
      BY <1>3, SeqAppend
    <2> HIDE DEF b, start, pair, literal
    <2>4. ReadFrom(Code(Append(below, b)), literal) = Code(Parse(Append(below, b), value))
      BY LiteralReads DEF literal
    <2>5. Parse(Append(below, b), value) = Append(below, Contract(Append(b, value)))
      BY <1>3, LiteralReads, ParseNode
    <2>6. ReadFrom(start, pair \o literal) = ReadFrom(ReadFrom(start, pair), literal)
      BY <1>2, ReadConcat
    <2> QED BY <2>1, <2>2, <2>3, <2>4, <2>5, <2>6 DEF start
  <1>4. IsSeq(<<term>>) /\ Quiet(<<term>>)
    BY <1>1, QuietOne
  <1>5. IsSeq(pair \o literal) /\ pair \o literal # <<>>
    BY <1>2, SeqConcatNone
  <1>6. Compare(field, op, value) = pair \o literal
    BY DEF Compare
  <1> HIDE DEF pair, literal, term
  <1>7. Leaves(pair \o literal, <<term>>)
    BY <1>3, <1>4, <1>5, Zenon DEF Leaves
  <1> QED BY <1>5, <1>6, <1>7 DEF term

----------------------------------------------------------------------------
(* Parentheses: what is in them is read as the first of a new group *)

LEMMA OpenReads ==
  ASSUME NEW below, NEW before, IsSeq(below), IsSeq(before),
         NEW text, NEW nodes, Leaves(text, nodes)
  PROVE  ReadFrom(Code(Append(below, before)), (<<"(">> \o text) \o <<")">>) =
             Code(Append(below, Contract(Append(before, Group(nodes)))))
  <1> DEFINE open == Append(below, before)
             start == Code(open)
             first == <<"(">>
             last == <<")">>
  <1>1. IsSeq(text) /\ IsSeq(nodes) /\ IsSeq(open)
    BY SeqAppend DEF Leaves
  <1>2. ReadFrom(start, first) = Code(Append(open, <<>>))
    <2>1. ReadFrom(start, first) = Step(start, "(")
      BY ReadOne, Zenon
    <2>2. Step(start, "(") = Code(Parse(open, Symbol("(")))
      BY AlphabetPlain, StepInLiteral, Zenon
    <2> QED BY <2>1, <2>2, ParseOpen, Zenon
  <1>3. IsSeq(first) /\ IsSeq(last)
    BY SeqOne
  <1>4. ReadFrom(Code(Append(open, <<>>)), text) = Code(Append(open, nodes))
    <2>1. IsSeq(<<>>) /\ Quiet(<<>>) /\ <<>> \o nodes = nodes
      BY <1>1, SeqEmpty, SeqConcat DEF Quiet
    <2>2. ReadFrom(Code(Append(open, <<>>)), text) = Code(Append(open, <<>> \o nodes))
      BY <1>1, <2>1, Zenon DEF Leaves
    <2> QED BY <2>1, <2>2
  <1>5. ReadFrom(Code(Append(open, nodes)), last) =
            Code(Append(below, Contract(Append(before, Group(nodes)))))
    <2>1. ReadFrom(Code(Append(open, nodes)), last) = Step(Code(Append(open, nodes)), ")")
      BY ReadOne, Zenon
    <2>2. Step(Code(Append(open, nodes)), ")") = Code(Parse(Append(open, nodes), Symbol(")")))
      BY AlphabetPlain, StepInLiteral, Zenon
    <2>3. Parse(Append(open, nodes), Symbol(")")) =
              Append(below, Contract(Append(before, Group(nodes))))
      BY ParseClose
    <2> QED BY <2>1, <2>2, <2>3, Zenon
  <1> HIDE DEF first, last, open, start
  <1>6. IsSeq(first \o text) /\ ReadFrom(start, first \o text) = ReadFrom(ReadFrom(start, first), text)
    BY <1>1, <1>3, SeqConcat, ReadConcat
  <1>7. ReadFrom(start, (first \o text) \o last) = ReadFrom(ReadFrom(start, first \o text), last)
    BY <1>3, <1>6, ReadConcat
  <1>8. ReadFrom(start, (first \o text) \o last) =
            Code(Append(below, Contract(Append(before, Group(nodes)))))
    BY <1>2, <1>4, <1>5, <1>6, <1>7
  <1> QED BY <1>8 DEF first, last, open, start

LEMMA OpenSeq ==
  ASSUME NEW text, IsSeq(text), NEW first, NEW last
  PROVE  /\ IsSeq((<<first>> \o text) \o <<last>>)
         /\ (<<first>> \o text) \o <<last>> # <<>>
         /\ <<first>> \o text \o <<last>> = (<<first>> \o text) \o <<last>>
  <1> DEFINE a == <<first>>
             b == <<last>>
  <1>1. IsSeq(a) /\ IsSeq(b) /\ a # <<>>
    BY SeqOne
  <1>2. <<first>> \o text \o <<last>> = (a \o text) \o b
    OBVIOUS
  <1> HIDE DEF a, b
  <1>3. IsSeq(a \o text) /\ a \o text # <<>>
    BY <1>1, SeqConcatNone
  <1>4. IsSeq((a \o text) \o b) /\ (a \o text) \o b # <<>>
    BY <1>1, <1>3, SeqConcatNone
  <1> QED BY <1>2, <1>4 DEF a, b

\* A term between them, or what is none.
LEMMA ParenthesesLeave ==
  ASSUME NEW text, NEW nodes, Leaves(text, nodes), ~Waits(Group(nodes))
  PROVE  Leaves((<<"(">> \o text) \o <<")">>, <<Group(nodes)>>)
  <1> DEFINE whole == (<<"(">> \o text) \o <<")">>
             node == Group(nodes)
  <1>1. IsSeq(whole)
    BY OpenSeq DEF Leaves
  <1>2. ASSUME NEW below, NEW before, IsSeq(below), IsSeq(before), Quiet(before)
        PROVE  ReadFrom(Code(Append(below, before)), whole) = Code(Append(below, before \o <<node>>))
    <2>1. ReadFrom(Code(Append(below, before)), whole) =
              Code(Append(below, Contract(Append(before, node))))
      BY <1>2, OpenReads
    <2>2. Contract(Append(before, node)) = Append(before, node)
      BY <1>2, ContractQuiet
    <2>3. Append(before, node) = before \o <<node>>
      BY <1>2, SeqAppend
    <2> HIDE DEF whole, node
    <2> QED BY <2>1, <2>2, <2>3
  <1>3. IsSeq(<<node>>) /\ Quiet(<<node>>)
    BY QuietOne
  <1> HIDE DEF whole, node
  <1>4. Leaves(whole, <<node>>)
    BY <1>1, <1>2, <1>3, Zenon DEF Leaves
  <1> QED BY <1>4 DEF whole, node

LEMMA NotLeaves ==
  ASSUME NEW text, NEW nodes, Leaves(text, nodes), ~Waits(Group(nodes))
  PROVE  /\ Not(text) # <<>>
         /\ IsTerm(Group(nodes)) => Leaves(Not(text), <<Node("!", <<>>, <<Group(nodes)>>)>>)
         /\ ~IsTerm(Group(nodes)) => Leaves(Not(text), <<Symbol("!"), Group(nodes)>>)
  <1> DEFINE sign == <<"!">>
             inner == (<<"(">> \o text) \o <<")">>
             node == Group(nodes)
             whole == sign \o inner
  <1>1. IsSeq(text)
    BY DEF Leaves
  <1>2. IsSeq(inner) /\ IsSeq(sign) /\ sign # <<>>
    BY <1>1, SeqOne, OpenSeq
  <1>3. Not(text) = whole
    <2>1. <<"!", "(">> = Append(<<"!">>, "(") /\ Append(<<"!">>, "(") = <<"!">> \o <<"(">>
      BY SeqOne, SeqTwo, SeqAppend
    <2>2. Not(text) = ((<<"!">> \o <<"(">>) \o text) \o <<")">>
      BY <2>1 DEF Not
    <2> DEFINE a == <<"!">>
               b == <<"(">>
               c == <<")">>
    <2>3. IsSeq(a) /\ IsSeq(b) /\ IsSeq(c)
      BY SeqOne
    <2> HIDE DEF a, b, c
    <2>4. IsSeq(b \o text) /\ (a \o b) \o text = a \o (b \o text)
      BY <1>1, <2>3, SeqConcat, SeqRegroup
    <2> DEFINE d == b \o text
    <2>6. IsSeq(d)
      BY <2>4
    <2> HIDE DEF d
    <2>5. (a \o d) \o c = a \o (d \o c)
      BY <2>3, <2>6, SeqRegroup
    <2> QED BY <2>2, <2>4, <2>5 DEF a, b, c, d
  <1> HIDE DEF inner, node
  <1>4. ASSUME NEW below, NEW before, IsSeq(below), IsSeq(before), Quiet(before)
        PROVE  ReadFrom(Code(Append(below, before)), whole) =
                   Code(Append(below, IF IsTerm(node) THEN Append(before, Node("!", <<>>, <<node>>))
                                      ELSE Append(Append(before, Symbol("!")), node)))
    <2> DEFINE a == Append(before, Symbol("!"))
               start == Code(Append(below, before))
    <2>1. ReadFrom(start, sign) = Code(Append(below, a))
      <3>1. ReadFrom(start, sign) = Step(start, "!")
        BY ReadOne, Zenon
      <3>2. Step(start, "!") = Code(Parse(Append(below, before), Symbol("!")))
        BY AlphabetPlain, StepInLiteral, Zenon
      <3>3. ~Is(Symbol("!"), {"("}) /\ ~Is(Symbol("!"), {")"})
        BY SymbolIs
      <3>4. Parse(Append(below, before), Symbol("!")) =
                Append(below, Contract(Append(before, Symbol("!"))))
        BY <1>4, <3>3, ParseNode
      <3>5. Contract(Append(before, Symbol("!"))) = a
        BY <1>4, ContractQuiet
      <3> HIDE DEF start, a, sign
      <3> QED BY <3>1, <3>2, <3>4, <3>5
    <2>2. IsSeq(a)
      BY <1>4, SeqAppend
    <2>3. ReadFrom(Code(Append(below, a)), inner) = Code(Append(below, Contract(Append(a, node))))
      <3> HIDE DEF a
      <3> QED BY <1>4, <2>2, OpenReads DEF inner, node
    <2>4. Contract(Append(a, node)) = IF IsTerm(node) THEN Append(before, Node("!", <<>>, <<node>>))
                                                      ELSE Append(a, node)
      BY <1>4, ContractNot
    <2> HIDE DEF start, sign
    <2>5. ReadFrom(start, whole) = ReadFrom(ReadFrom(start, sign), inner)
      BY <1>2, ReadConcat
    <2>6. ReadFrom(start, whole) = Code(Append(below, Contract(Append(a, node))))
      BY <2>1, <2>3, <2>5
    <2> QED BY <2>4, <2>6 DEF start
  <1>5. IsSeq(whole) /\ whole # <<>>
    <2> HIDE DEF sign
    <2> QED BY <1>2, SeqConcatNone
  <1> HIDE DEF whole
  <1>6. ASSUME IsTerm(node) PROVE Leaves(whole, <<Node("!", <<>>, <<node>>)>>)
    <2> DEFINE term == Node("!", <<>>, <<node>>)
    <2>1. ~Waits(term)
      BY TermsRest DEF IsTerm, Node
    <2>2. IsSeq(<<term>>) /\ Quiet(<<term>>)
      BY <2>1, QuietOne
    <2>3. ASSUME NEW below, NEW before, IsSeq(below), IsSeq(before), Quiet(before)
          PROVE  ReadFrom(Code(Append(below, before)), whole) = Code(Append(below, before \o <<term>>))
      <3>1. before \o <<term>> = Append(before, term)
        BY <2>3, SeqAppend
      <3>2. ReadFrom(Code(Append(below, before)), whole) = Code(Append(below, Append(before, term)))
        BY <1>4, <1>6, <2>3
      <3> QED BY <3>1, <3>2
    <2> HIDE DEF term
    <2>4. Leaves(whole, <<term>>)
      BY <1>5, <2>2, <2>3, Zenon DEF Leaves
    <2> QED BY <2>4 DEF term
  <1>7. ASSUME ~IsTerm(node) PROVE Leaves(whole, <<Symbol("!"), node>>)
    <2> DEFINE junk == <<Symbol("!"), node>>
    <2>1. IsSeq(junk) /\ Quiet(junk)
      <3>1. Len(junk) = 2 /\ junk[2] = node /\ ~Waits(node)
        BY DEF node
      <3> QED BY <3>1, SeqTwo DEF Quiet
    <2>3. ASSUME NEW below, NEW before, IsSeq(below), IsSeq(before), Quiet(before)
          PROVE  ReadFrom(Code(Append(below, before)), whole) = Code(Append(below, before \o junk))
      <3>1. before \o junk = Append(Append(before, Symbol("!")), node)
        BY <2>3, SeqPair
      <3>2. ReadFrom(Code(Append(below, before)), whole) =
                Code(Append(below, Append(Append(before, Symbol("!")), node)))
        BY <1>4, <1>7, <2>3
      <3> QED BY <3>1, <3>2
    <2> HIDE DEF junk
    <2>4. Leaves(whole, junk)
      BY <1>5, <2>1, <2>3, Zenon DEF Leaves
    <2> QED BY <2>4 DEF junk
  <1> QED BY <1>3, <1>5, <1>6, <1>7 DEF node

----------------------------------------------------------------------------
(* Matches *)

LEMMA QuotedLeaves ==
  ASSUME NEW text, IsSeq(text)
  PROVE  Leaves(quoteString(text), <<String(text)>>)
  <1> DEFINE node == String(text)
             quoted == quoteString(text)
  <1>1. IsSeq(quoted)
    BY QuotedReads
  <1>2. ~Is(node, {"("}) /\ ~Is(node, {")"}) /\ ~Waits(node)
    BY StringIs DEF Waits
  <1>3. IsSeq(<<node>>) /\ Quiet(<<node>>)
    BY <1>2, QuietOne
  <1>4. ASSUME NEW open PROVE ReadFrom(Code(open), quoted) = Code(Parse(open, node))
    BY QuotedReads
  <1> HIDE DEF node, quoted
  <1>5. ASSUME NEW below, NEW before, IsSeq(below), IsSeq(before), Quiet(before)
        PROVE  ReadFrom(Code(Append(below, before)), quoted) = Code(Append(below, before \o <<node>>))
    <2>1. ReadFrom(Code(Append(below, before)), quoted) = Code(Parse(Append(below, before), node))
      BY <1>4
    <2>2. Parse(Append(below, before), node) = Append(below, Contract(Append(before, node)))
      BY <1>2, <1>5, ParseNode
    <2>3. Contract(Append(before, node)) = Append(before, node)
      BY <1>5, ContractQuiet
    <2>4. Append(before, node) = before \o <<node>>
      BY <1>5, SeqAppend
    <2> QED BY <2>1, <2>2, <2>3, <2>4
  <1>6. Leaves(quoted, <<node>>)
    BY <1>1, <1>3, <1>5, Zenon DEF Leaves
  <1> QED BY <1>6 DEF node, quoted

LEMMA GroupOne == \A node : Group(<<node>>) = node
  <1> TAKE node
  <1>1. Len(<<node>>) = 1 /\ <<node>>[1] = node
    BY SeqOne
  <1> DEFINE s == <<node>>
  <1> HIDE DEF s
  <1>2. Len(s) = 1 /\ s[1] = node
    BY <1>1 DEF s
  <1>3. Group(s) = node
    BY <1>2 DEF Group
  <1> QED BY <1>3 DEF s

LEMMA MatchLeaves ==
  ASSUME NEW field, Word(field), NEW op \in Methods, NEW text, IsSeq(text)
  PROVE  /\ Leaves(Match(field, op, text), <<Node(op, <<field>>, <<String(text)>>)>>)
         /\ Match(field, op, text) # <<>>
  <1> DEFINE node == String(text)
             term == Node(op, <<field>>, <<node>>)
             quoted == quoteString(text)
             pair == <<field, op>>
             inner == (<<"(">> \o quoted) \o <<")">>
             whole == pair \o inner
  <1>1. IsTerm(term) /\ ~Waits(term) /\ node.op = "string"
    BY TermsRest DEF IsTerm, Node, String
  <1>2. IsSeq(quoted) /\ Leaves(quoted, <<node>>)
    BY QuotedReads, QuotedLeaves
  <1>3. IsSeq(pair) /\ pair # <<>> /\ IsSeq(inner)
    BY <1>2, SeqTwo, OpenSeq
  <1>4. Match(field, op, text) = whole
    <2>1. <<field, op, "(">> = pair \o <<"(">>
      OBVIOUS
    <2>2. Match(field, op, text) = ((pair \o <<"(">>) \o quoted) \o <<")">>
      BY <2>1 DEF Match
    <2> DEFINE b == <<"(">>
               c == <<")">>
    <2>3. IsSeq(b) /\ IsSeq(c)
      BY SeqOne
    <2> HIDE DEF pair, quoted, b, c
    <2>4. IsSeq(b \o quoted) /\ (pair \o b) \o quoted = pair \o (b \o quoted)
      BY <1>2, <1>3, <2>3, SeqConcat, SeqRegroup
    <2> DEFINE d == b \o quoted
    <2>6. IsSeq(d)
      BY <2>4
    <2> HIDE DEF d
    <2>5. (pair \o d) \o c = pair \o (d \o c)
      BY <1>3, <2>3, <2>6, SeqRegroup
    <2> QED BY <2>2, <2>4, <2>5 DEF b, c, d, quoted
  <1> HIDE DEF quoted, pair
  <1>5. IsSeq(whole) /\ whole # <<>>
    <2> HIDE DEF inner
    <2> QED BY <1>3, SeqConcatNone
  <1>6. ASSUME NEW below, NEW before, IsSeq(below), IsSeq(before), Quiet(before)
        PROVE  ReadFrom(Code(Append(below, before)), whole) = Code(Append(below, before \o <<term>>))
    <2> DEFINE a == Append(before, Symbol(field))
               b == Append(a, Symbol(op))
               start == Code(Append(below, before))
    <2>1. ReadFrom(start, pair) = Code(Append(below, b))
      BY <1>6, OperatorReads DEF pair
    <2>2. Contract(Append(b, node)) = Append(before, term)
      <3>1. IsSeq(before) /\ op \in Methods /\ node.op = "string"
        BY <1>1, <1>6
      <3> HIDE DEF node
      <3> QED BY <3>1, ContractTerm
    <2>3. Append(before, term) = before \o <<term>>
      BY <1>6, SeqAppend
    <2>4. IsSeq(b)
      <3>1. IsSeq(a)
        BY <1>6, SeqAppend
      <3> HIDE DEF a
      <3> QED BY <3>1, SeqAppend
    <2> HIDE DEF a, b, start
    <2>5. ReadFrom(Code(Append(below, b)), inner) =
              Code(Append(below, Contract(Append(b, Group(<<node>>)))))
      BY <1>2, <1>6, <2>4, OpenReads
    <2>6. Group(<<node>>) = node
      BY GroupOne
    <2> HIDE DEF inner, node, term
    <2>7. ReadFrom(start, whole) = ReadFrom(ReadFrom(start, pair), inner)
      BY <1>3, ReadConcat
    <2>8. ReadFrom(start, whole) = Code(Append(below, before \o <<term>>))
      BY <2>1, <2>2, <2>3, <2>5, <2>6, <2>7
    <2> QED BY <2>8 DEF start
  <1>7. IsSeq(<<term>>) /\ Quiet(<<term>>)
    BY <1>1, QuietOne
  <1> HIDE DEF term, whole
  <1>8. Leaves(whole, <<term>>)
    BY <1>5, <1>6, <1>7, Zenon DEF Leaves
  <1>9. Leaves(Match(field, op, text), <<term>>) /\ Match(field, op, text) # <<>>
    BY <1>4, <1>5, <1>8
  <1> QED BY <1>9 DEF term, node

----------------------------------------------------------------------------
(* Groups: terms with a connective between them *)

\* What a gap leaves behind: an even number of nodes, or no term where one belongs.
Broken(nodes) ==
  \/ Len(nodes) % 2 = 0
  \/ \E k \in 1 .. Len(nodes) : k % 2 = 1 /\ ~IsTerm(nodes[k])

LEMMA GroupBroken ==
  ASSUME NEW nodes, IsSeq(nodes), Quiet(nodes), Broken(nodes)
  PROVE  ~IsTerm(Group(nodes)) /\ ~Waits(Group(nodes))
  <1> DEFINE n == Len(nodes)
  <1>1. n \in Nat
    BY SeqLength
  <1>2. ~IsTerm(Malformed) /\ ~Waits(Malformed)
    BY DEF Malformed, Node, IsTerm, Waits, Is, Comparisons, Methods, Connectives
  <1>3. CASE n = 1
    <2>1. nodes # <<>>
      BY <1>3, SeqEmpty
    <2>2. ~Waits(nodes[1])
      BY <1>3, <2>1 DEF Quiet
    <2>3. ~IsTerm(nodes[1])
      BY <1>3 DEF Broken
    <2>4. Group(nodes) = nodes[1]
      BY <1>3 DEF Group
    <2> QED BY <2>2, <2>3, <2>4
  <1>4. CASE n # 1
    <2>1. ~(n >= 3 /\ n % 2 = 1 /\ \A i \in {k \in 1 .. n : k % 2 = 1} : IsTerm(nodes[i]))
      BY <1>1 DEF Broken
    <2>2. Group(nodes) = Malformed
      BY <1>4, <2>1 DEF Group
    <2> QED BY <1>2, <2>2
  <1> QED BY <1>3, <1>4

\* The first n terms, and the same connective between them.
Alternates(nodes, means, n, op) ==
  /\ Len(nodes) = 2 * n - 1
  /\ \A k \in 1 .. n : nodes[2 * k - 1] = means[k]
  /\ \A k \in 1 .. n - 1 : nodes[2 * k] = Symbol(op)

AllTerms(means, n) == \A k \in 1 .. n : IsTerm(means[k])

\* What the texts of n terms leave with op between them.
Joined(nodes, means, n, op) ==
  IF AllTerms(means, n) THEN Alternates(nodes, means, n, op) ELSE Broken(nodes)

\* What a text leaves that stands for a term, or for none.
LeavesTerm(nodes, means) == IF IsTerm(means) THEN nodes = <<means>> ELSE Broken(nodes)

LEMMA JoinedFirst ==
  ASSUME NEW means, NEW nodes, LeavesTerm(nodes, means[1]), NEW op
  PROVE  Joined(nodes, means, 1, op)
  <1>1. CASE IsTerm(means[1])
    <2>1. nodes = <<means[1]>>
      BY <1>1 DEF LeavesTerm
    <2>2. Len(nodes) = 1 /\ nodes[1] = means[1]
      BY <2>1
    <2>3. AllTerms(means, 1)
      BY <1>1 DEF AllTerms
    <2> QED BY <2>2, <2>3 DEF Joined, Alternates
  <1>2. CASE ~IsTerm(means[1])
    BY <1>2 DEF LeavesTerm, Joined, AllTerms
  <1> QED BY <1>1, <1>2

LEMMA JoinedNext ==
  ASSUME NEW means, NEW n \in Nat, n >= 1, NEW op \in Connectives,
         NEW nodes, IsSeq(nodes), Joined(nodes, means, n, op),
         NEW others, IsSeq(others), LeavesTerm(others, means[n + 1])
  PROVE  Joined((nodes \o <<Symbol(op)>>) \o others, means, n + 1, op)
  <1> DEFINE joint == <<Symbol(op)>>
             half == nodes \o joint
             whole == half \o others
             p == Len(nodes)
             q == Len(others)
  <1>1. p \in Nat /\ q \in Nat
    BY SeqLength
  <1>2. IsSeq(joint) /\ Len(joint) = 1 /\ joint[1] = Symbol(op)
    BY SeqOne
  <1> HIDE DEF joint
  <1>3. /\ IsSeq(half) /\ Len(half) = p + 1
        /\ \A i \in 1 .. p + 1 : half[i] = IF i <= p THEN nodes[i] ELSE joint[i - p]
    BY <1>2, SeqConcat
  <1> HIDE DEF half
  <1>4. /\ IsSeq(whole) /\ Len(whole) = p + 1 + q
        /\ \A i \in 1 .. p + 1 + q : whole[i] = IF i <= p + 1 THEN half[i] ELSE others[i - (p + 1)]
    BY <1>3, SeqConcat
  <1> HIDE DEF whole, p, q
  <1>5. /\ \A i \in 1 .. p : whole[i] = nodes[i]
        /\ whole[p + 1] = Symbol(op)
        /\ \A i \in 1 .. q : whole[p + 1 + i] = others[i]
    <2>1. \A i \in 1 .. p : whole[i] = nodes[i]
      BY <1>1, <1>3, <1>4
    <2>2. whole[p + 1] = Symbol(op)
      BY <1>1, <1>2, <1>3, <1>4
    <2>3. \A i \in 1 .. q : whole[p + 1 + i] = others[i]
      BY <1>1, <1>4
    <2> QED BY <2>1, <2>2, <2>3
  <1>6. AllTerms(means, n + 1) <=> AllTerms(means, n) /\ IsTerm(means[n + 1])
    BY DEF AllTerms
  <1>7. ~IsTerm(Symbol(op))
    BY DEF Symbol, Node, IsTerm, Comparisons, Methods, Connectives
  <1>8. CASE AllTerms(means, n) /\ IsTerm(means[n + 1])
    <2>1. /\ p = 2 * n - 1
          /\ \A k \in 1 .. n : nodes[2 * k - 1] = means[k]
          /\ \A k \in 1 .. n - 1 : nodes[2 * k] = Symbol(op)
      BY <1>8 DEF Joined, Alternates, p
    <2>2. others = <<means[n + 1]>>
      BY <1>8 DEF LeavesTerm
    <2>3. q = 1 /\ others[1] = means[n + 1]
      BY <2>2 DEF q
    <2>4. Len(whole) = 2 * (n + 1) - 1
      BY <1>4, <2>1, <2>3
    <2>5. ASSUME NEW k \in 1 .. n + 1 PROVE whole[2 * k - 1] = means[k]
      <3>1. CASE k <= n
        <4>1. 2 * k - 1 \in 1 .. p /\ k \in 1 .. n
          BY <2>1, <3>1
        <4> QED BY <1>5, <2>1, <4>1
      <3>2. CASE k = n + 1
        <4>1. 2 * k - 1 = p + 1 + 1 /\ 1 \in 1 .. q
          BY <2>1, <2>3, <3>2
        <4> QED BY <1>5, <2>3, <3>2, <4>1
      <3> QED BY <3>1, <3>2
    <2>6. ASSUME NEW k \in 1 .. n PROVE whole[2 * k] = Symbol(op)
      <3>1. CASE k <= n - 1
        <4>1. 2 * k \in 1 .. p /\ k \in 1 .. n - 1
          BY <2>1, <3>1
        <4> QED BY <1>5, <2>1, <4>1
      <3>2. CASE k = n
        <4>1. 2 * k = p + 1
          BY <2>1, <3>2
        <4> QED BY <1>5, <4>1
      <3> QED BY <3>1, <3>2
    <2>7. Alternates(whole, means, n + 1, op)
      <3>1. (n + 1) - 1 = n
        OBVIOUS
      <3> QED BY <2>4, <2>5, <2>6, <3>1 DEF Alternates
    <2> QED BY <1>6, <1>8, <2>7 DEF Joined, whole, half, joint
  <1>9. CASE ~AllTerms(means, n)
    <2>1. Broken(nodes)
      BY <1>9 DEF Joined
    <2>2. \E k \in 1 .. Len(whole) : k % 2 = 1 /\ ~IsTerm(whole[k])
      <3>1. CASE p % 2 = 0
        <4>1. p + 1 \in 1 .. Len(whole) /\ (p + 1) % 2 = 1
          BY <1>1, <1>4, <3>1
        <4> QED BY <1>5, <1>7, <4>1
      <3>2. ASSUME NEW k \in 1 .. p, k % 2 = 1, ~IsTerm(nodes[k])
            PROVE  \E i \in 1 .. Len(whole) : i % 2 = 1 /\ ~IsTerm(whole[i])
        <4>1. k \in 1 .. Len(whole)
          BY <1>1, <1>4
        <4> QED BY <1>5, <3>2, <4>1
      <3> QED BY <2>1, <3>1, <3>2 DEF Broken, p
    <2> QED BY <1>6, <1>9, <2>2 DEF Joined, Broken, whole, half, joint
  <1>10. CASE AllTerms(means, n) /\ ~IsTerm(means[n + 1])
    <2>1. p = 2 * n - 1
      BY <1>10 DEF Joined, Alternates, p
    <2>2. Broken(others)
      BY <1>10 DEF LeavesTerm
    <2>3. CASE q % 2 = 0
      <3>1. Len(whole) % 2 = 0
        BY <1>1, <1>4, <2>1, <2>3
      <3> QED BY <1>6, <1>10, <3>1 DEF Joined, Broken, whole, half, joint
    <2>4. ASSUME NEW k \in 1 .. q, k % 2 = 1, ~IsTerm(others[k])
          PROVE  \E i \in 1 .. Len(whole) : i % 2 = 1 /\ ~IsTerm(whole[i])
      <3>1. p + 1 + k \in 1 .. Len(whole) /\ (p + 1 + k) % 2 = 1
        BY <1>1, <1>4, <2>1, <2>4
      <3> QED BY <1>5, <2>4, <3>1
    <2> QED BY <1>6, <1>10, <2>2, <2>3, <2>4 DEF Joined, Broken, whole, half, joint, q
  <1> QED BY <1>8, <1>9, <1>10

LEMMA GroupAlternates ==
  ASSUME NEW nodes, NEW means, NEW n \in Nat, n >= 2, NEW op \in Connectives,
         AllTerms(means, n), Alternates(nodes, means, n, op)
  PROVE  Group(nodes) = Node(op, <<>>, [k \in 1 .. n |-> means[k]])
  <1> DEFINE m == Len(nodes)
  <1>1. m = 2 * n - 1 /\ m >= 3 /\ m % 2 = 1 /\ m # 1 /\ (m + 1) \div 2 = n
    BY DEF Alternates
  <1>2. ASSUME NEW i \in {k \in 1 .. m : k % 2 = 1} PROVE IsTerm(nodes[i])
    <2>1. i = 2 * ((i + 1) \div 2) - 1 /\ (i + 1) \div 2 \in 1 .. n
      BY <1>1
    <2> QED BY <2>1 DEF Alternates, AllTerms
  <1>3. ASSUME NEW i \in {k \in 1 .. m : k % 2 = 0} PROVE Is(nodes[i], {op})
    <2>1. i = 2 * (i \div 2) /\ i \div 2 \in 1 .. n - 1
      BY <1>1
    <2>2. nodes[i] = Symbol(op)
      BY <2>1 DEF Alternates
    <2> QED BY <2>2, SymbolIs
  <1>4. nodes[2].text[1] = op
    <2>1. nodes[2 * 1] = Symbol(op)
      BY DEF Alternates
    <2> QED BY <2>1 DEF Symbol, Node
  <1>5. [k \in 1 .. (m + 1) \div 2 |-> nodes[2 * k - 1]] = [k \in 1 .. n |-> means[k]]
    BY <1>1 DEF Alternates
  <1>6. Group(nodes) = Node(nodes[2].text[1], <<>>, [k \in 1 .. (m + 1) \div 2 |-> nodes[2 * k - 1]])
    BY <1>1, <1>2, <1>3 DEF Group
  <1> QED BY <1>4, <1>5, <1>6

LEMMA GroupStands ==
  ASSUME NEW text, NEW nodes, Leaves(text, nodes), NEW means, LeavesTerm(nodes, means)
  PROVE  /\ ~Waits(Group(nodes))
         /\ IsTerm(means) => Group(nodes) = means
         /\ ~IsTerm(means) => ~IsTerm(Group(nodes))
  <1>1. CASE IsTerm(means)
    <2>1. Group(nodes) = means
      BY <1>1, GroupOne DEF LeavesTerm
    <2> QED BY <1>1, <2>1, TermsRest
  <1>2. CASE ~IsTerm(means)
    <2>1. Broken(nodes) /\ IsSeq(nodes) /\ Quiet(nodes)
      BY <1>2 DEF LeavesTerm, Leaves
    <2> QED BY <1>2, <2>1, GroupBroken
  <1> QED BY <1>1, <1>2

----------------------------------------------------------------------------
(* What a text stands for, however it was composed *)

\* Only a text of nothing means everything.
StandsFor(text, means) ==
  /\ means = Everything <=> text = <<>>
  /\ IsTerm(means) \/ means \in {Everything, Malformed}
  /\ \E nodes : Leaves(text, nodes) /\ LeavesTerm(nodes, means)

LEMMA NoTerms == ~IsTerm(Everything) /\ ~IsTerm(Malformed) /\ Everything # Malformed
  <1> QED BY DEF Everything, Malformed, Node, IsTerm, Comparisons, Methods, Connectives

\* The whole text is read as what it stands for.
LEMMA ReadsAs ==
  ASSUME NEW text, NEW means, StandsFor(text, means), text # <<>>
  PROVE  Reading(text) = means
  <1>1. PICK nodes : Leaves(text, nodes) /\ LeavesTerm(nodes, means)
    BY DEF StandsFor
  <1> DEFINE end == ReadFrom(Code(<<<<>>>>), text)
             top == <<nodes>>
  <1>2. IsSeq(<<>>) /\ Quiet(<<>>) /\ IsSeq(nodes)
    BY <1>1, SeqEmpty DEF Quiet, Leaves
  <1>3. ReadFrom(Code(Append(<<>>, <<>>)), text) = Code(Append(<<>>, <<>> \o nodes))
    BY <1>1, <1>2 DEF Leaves
  <1>4. Append(<<>>, <<>>) = <<<<>>>> /\ Append(<<>>, nodes) = top
    BY SeqOne
  <1>5. <<>> \o nodes = nodes
    BY <1>2, SeqConcat
  <1>6. end = Code(top)
    BY <1>3, <1>4, <1>5
  <1>7. Len(top) = 1 /\ top[1] = nodes
    BY SeqOne
  <1> HIDE DEF end, top
  <1>8. end.at = "code" /\ Len(end.open) = 1 /\ end.open[1] = nodes
    BY <1>6, <1>7 DEF Code
  <1> DEFINE whole == Group(end.open[1])
  <1>9. whole = Group(nodes)
    BY <1>8
  <1> HIDE DEF whole
  <1>10. Reading(text) = IF IsTerm(whole) THEN whole ELSE Malformed
    BY <1>8 DEF Reading, whole, end
  <1>11. CASE IsTerm(means)
    BY <1>1, <1>9, <1>10, <1>11, GroupStands
  <1>12. CASE ~IsTerm(means)
    <2>1. means = Malformed
      BY <1>12 DEF StandsFor
    <2> QED BY <1>1, <1>9, <1>10, <1>12, <2>1, GroupStands
  <1> QED BY <1>11, <1>12

LEMMA NotStands ==
  ASSUME NEW text, NEW means, StandsFor(text, means)
  PROVE  StandsFor(Not(text), IF IsTerm(means) THEN Node("!", <<>>, <<means>>) ELSE Malformed)
  <1>1. PICK nodes : Leaves(text, nodes) /\ LeavesTerm(nodes, means)
    BY DEF StandsFor
  <1>2. /\ Not(text) # <<>>
        /\ IsTerm(Group(nodes)) => Leaves(Not(text), <<Node("!", <<>>, <<Group(nodes)>>)>>)
        /\ ~IsTerm(Group(nodes)) => Leaves(Not(text), <<Symbol("!"), Group(nodes)>>)
    BY <1>1, GroupStands, NotLeaves
  <1>3. CASE IsTerm(means)
    <2> DEFINE negated == Node("!", <<>>, <<means>>)
    <2>1. IsTerm(negated)
      BY DEF IsTerm, Node
    <2>2. Leaves(Not(text), <<negated>>)
      BY <1>1, <1>2, <1>3, GroupStands
    <2> HIDE DEF negated
    <2>3. LeavesTerm(<<negated>>, negated)
      BY <2>1 DEF LeavesTerm
    <2>4. StandsFor(Not(text), negated)
      BY <1>2, <2>1, <2>2, <2>3, NoTerms DEF StandsFor
    <2> QED BY <1>3, <2>4 DEF negated
  <1>4. CASE ~IsTerm(means)
    <2> DEFINE left == <<Symbol("!"), Group(nodes)>>
    <2>1. Leaves(Not(text), left)
      BY <1>1, <1>2, <1>4, GroupStands
    <2>2. Len(left) = 2
      OBVIOUS
    <2>3. LeavesTerm(left, Malformed)
      BY <2>2, NoTerms DEF LeavesTerm, Broken
    <2> HIDE DEF left
    <2>4. StandsFor(Not(text), Malformed)
      BY <1>2, <2>1, <2>3, NoTerms DEF StandsFor
    <2> QED BY <1>4, <2>4
  <1> QED BY <1>3, <1>4

LEMMA JoinLeaves ==
  ASSUME NEW texts, NEW means, NEW n \in Nat, n >= 1, NEW op \in Connectives,
         \A i \in 1 .. n : StandsFor(texts[i], means[i])
  PROVE  \E nodes :
             /\ Leaves(FlattenSeq([i \in 1 .. n |-> IF i = 1 THEN texts[1] ELSE <<op>> \o texts[i]]),
                       nodes)
             /\ Joined(nodes, means, n, op)
  <1> DEFINE pieces == [i \in 1 .. n |-> IF i = 1 THEN texts[1] ELSE <<op>> \o texts[i]]
             upto(m) == SubSeq(pieces, 1, m)
             Done == {m \in Nat : m + 1 <= n => \E nodes :
                          Leaves(FlattenSeq(upto(m + 1)), nodes) /\ Joined(nodes, means, m + 1, op)}
  <1>1. IsSeq(pieces) /\ Len(pieces) = n
    BY SeqFunction
  <1>2. \A i \in 1 .. n : pieces[i] = IF i = 1 THEN texts[1] ELSE <<op>> \o texts[i]
    OBVIOUS
  <1> HIDE DEF pieces
  <1>3. 0 \in Done
    <2>1. upto(1) = <<texts[1]>>
      <3>1. upto(0) = <<>>
        BY SubSeqEmpty
      <3>2. upto(0 + 1) = Append(upto(0), pieces[0 + 1])
        BY <1>1, PrefixGrows
      <3>3. 0 + 1 = 1 /\ pieces[1] = texts[1]
        BY <1>2
      <3> HIDE DEF upto
      <3>4. upto(1) = Append(upto(0), pieces[1])
        BY <3>2, <3>3
      <3>5. upto(1) = Append(<<>>, texts[1])
        BY <3>1, <3>3, <3>4
      <3> QED BY <3>5, SeqOne
    <2>2. PICK nodes : Leaves(texts[1], nodes) /\ LeavesTerm(nodes, means[1])
      BY DEF StandsFor
    <2>3. FlattenSeq(<<texts[1]>>) = texts[1]
      <3>1. IsSeq(texts[1])
        BY <2>2 DEF Leaves
      <3>2. FlattenSeq(Append(<<>>, texts[1])) = FlattenSeq(<<>>) \o texts[1]
        BY <3>1, SeqEmpty, FlattenAppend
      <3>3. Append(<<>>, texts[1]) = <<texts[1]>>
        BY SeqOne
      <3>4. <<>> \o texts[1] = texts[1]
        BY <3>1, SeqConcat, SeqEmpty
      <3> QED BY <3>2, <3>3, <3>4, FlattenNone
    <2>4. Joined(nodes, means, 1, op)
      BY <2>2, JoinedFirst
    <2> HIDE DEF upto
    <2>5. Leaves(FlattenSeq(upto(0 + 1)), nodes) /\ Joined(nodes, means, 0 + 1, op)
      BY <2>1, <2>2, <2>3, <2>4
    <2> QED BY <2>5
  <1>4. ASSUME NEW m \in Nat, m \in Done PROVE m + 1 \in Done
    <2> DEFINE k == m + 1
    <2> SUFFICES ASSUME k + 1 <= n
                 PROVE  \E nodes : /\ Leaves(FlattenSeq(upto(k + 1)), nodes)
                                   /\ Joined(nodes, means, k + 1, op)
      OBVIOUS
    <2>1. PICK nodes : Leaves(FlattenSeq(upto(k)), nodes) /\ Joined(nodes, means, k, op)
      BY <1>4
    <2>2. k \in Nat /\ k >= 1 /\ k + 1 \in 1 .. n /\ k + 1 # 1
      OBVIOUS
    <2> HIDE DEF k
    <2>3. PICK others : Leaves(texts[k + 1], others) /\ LeavesTerm(others, means[k + 1])
      BY <2>2 DEF StandsFor
    <2> DEFINE joint == <<op>>
               node == <<Symbol(op)>>
    <2>4. Leaves(joint, node)
      BY AlphabetPlain, LeavesSymbol
    <2>5. upto(k + 1) = Append(upto(k), pieces[k + 1]) /\ IsSeq(upto(k))
      BY <1>1, <2>2, PrefixGrows
    <2>6. pieces[k + 1] = joint \o texts[k + 1]
      BY <1>2, <2>2
    <2> HIDE DEF joint, node, upto
    <2>7. /\ IsSeq(joint) /\ IsSeq(texts[k + 1]) /\ IsSeq(node) /\ IsSeq(others) /\ IsSeq(nodes)
          /\ IsSeq(FlattenSeq(upto(k)))
      BY <2>1, <2>3, <2>4 DEF Leaves
    <2>8. IsSeq(joint \o texts[k + 1])
      BY <2>7, SeqConcat
    <2>9. FlattenSeq(upto(k + 1)) = FlattenSeq(upto(k)) \o (joint \o texts[k + 1])
      BY <2>5, <2>6, <2>8, FlattenAppend
    <2>10. Leaves((FlattenSeq(upto(k)) \o joint) \o texts[k + 1], (nodes \o node) \o others)
      <3>1. Leaves(FlattenSeq(upto(k)) \o joint, nodes \o node)
        BY <2>1, <2>4, LeavesConcat
      <3> QED BY <2>3, <3>1, LeavesConcat
    <2>11. (FlattenSeq(upto(k)) \o joint) \o texts[k + 1] =
               FlattenSeq(upto(k)) \o (joint \o texts[k + 1])
      <3> DEFINE former == FlattenSeq(upto(k))
                 latter == texts[k + 1]
      <3>1. IsSeq(former) /\ IsSeq(joint) /\ IsSeq(latter)
        BY <2>7
      <3> HIDE DEF former, latter
      <3>2. (former \o joint) \o latter = former \o (joint \o latter)
        BY <3>1, SeqRegroup
      <3> QED BY <3>2 DEF former, latter
    <2>12. Joined((nodes \o node) \o others, means, k + 1, op)
      BY <2>1, <2>2, <2>3, <2>7, JoinedNext DEF node
    <2> QED BY <2>9, <2>10, <2>11, <2>12
  <1>5. n - 1 \in Done
    <2> HIDE DEF Done
    <2>1. n - 1 \in Nat
      OBVIOUS
    <2> QED BY <1>3, <1>4, <2>1, Induction
  <1>6. upto((n - 1) + 1) = pieces
    <2>1. PICK S : pieces \in Seq(S) BY <1>1 DEF IsSeq
    <2> QED BY <1>1, <2>1, SubSeqFull
  <1> HIDE DEF upto
  <1>7. (n - 1) + 1 = n /\ (n - 1) + 1 <= n
    OBVIOUS
  <1>8. \E nodes : Leaves(FlattenSeq(pieces), nodes) /\ Joined(nodes, means, n, op)
    BY <1>5, <1>6, <1>7
  <1> QED BY <1>8 DEF pieces

LEMMA JoinStands ==
  ASSUME NEW texts, IsSeq(texts), Len(texts) >= 2, NEW means, NEW op \in Connectives,
         \A i \in 1 .. Len(texts) : StandsFor(texts[i], means[i])
  PROVE  StandsFor(joinTerms(op, texts),
                   IF AllTerms(means, Len(texts))
                   THEN Node(op, <<>>, [i \in 1 .. Len(texts) |-> means[i]]) ELSE Malformed)
  <1> DEFINE n == Len(texts)
             joined == FlattenSeq([i \in 1 .. n |-> IF i = 1 THEN texts[1] ELSE <<op>> \o texts[i]])
             whole == (<<"(">> \o joined) \o <<")">>
  <1>1. n \in Nat /\ n >= 2 /\ DOMAIN texts = 1 .. n
    BY SeqLength
  <1>2. PICK nodes : Leaves(joined, nodes) /\ Joined(nodes, means, n, op)
    <2> HIDE DEF n
    <2>1. \A i \in 1 .. n : StandsFor(texts[i], means[i])
      BY DEF n
    <2>2. n \in Nat /\ n >= 1
      BY <1>1
    <2> QED BY <2>1, <2>2, JoinLeaves
  <1>3. joinTerms(op, texts) = <<"(">> \o joined \o <<")">>
    BY <1>1 DEF joinTerms
  <1> HIDE DEF n, joined
  <1>4. IsSeq(joined) /\ IsSeq(nodes) /\ Quiet(nodes)
    BY <1>2 DEF Leaves
  <1>5. joinTerms(op, texts) = whole /\ whole # <<>>
    BY <1>3, <1>4, OpenSeq
  <1> HIDE DEF whole
  <1>6. CASE AllTerms(means, n)
    <2> DEFINE node == Node(op, <<>>, [i \in 1 .. n |-> means[i]])
    <2>1. Group(nodes) = node
      BY <1>1, <1>2, <1>6, GroupAlternates DEF Joined
    <2>2. IsTerm(node)
      BY DEF IsTerm, Node
    <2> HIDE DEF node
    <2>3. Leaves(whole, <<node>>)
      BY <1>2, <2>1, <2>2, TermsRest, ParenthesesLeave DEF whole
    <2>4. LeavesTerm(<<node>>, node)
      BY <2>2 DEF LeavesTerm
    <2>5. StandsFor(whole, node)
      BY <1>5, <2>2, <2>3, <2>4, NoTerms DEF StandsFor
    <2> QED BY <1>5, <1>6, <2>5 DEF node, n
  <1>7. CASE ~AllTerms(means, n)
    <2>1. Broken(nodes)
      BY <1>2, <1>7 DEF Joined
    <2>2. ~IsTerm(Group(nodes)) /\ ~Waits(Group(nodes))
      BY <1>4, <2>1, GroupBroken
    <2>3. Leaves(whole, <<Group(nodes)>>)
      BY <1>2, <2>2, ParenthesesLeave DEF whole
    <2> DEFINE node == Group(nodes)
    <2> HIDE DEF node
    <2>4. Len(<<node>>) = 1 /\ <<node>>[1] = node
      BY SeqOne
    <2>5. Broken(<<node>>)
      <3>1. 1 \in 1 .. Len(<<node>>) /\ 1 % 2 = 1 /\ ~IsTerm(<<node>>[1])
        BY <2>2, <2>4 DEF node
      <3> QED BY <3>1 DEF Broken
    <2>6. LeavesTerm(<<node>>, Malformed)
      BY <2>5, NoTerms DEF LeavesTerm
    <2>7. StandsFor(whole, Malformed)
      BY <1>5, <2>3, <2>6, NoTerms DEF StandsFor, node
    <2> QED BY <1>5, <1>7, <2>7 DEF n
  <1> QED BY <1>6, <1>7

LEMMA JoinFew ==
  ASSUME NEW op
  PROVE  /\ StandsFor(joinTerms(op, <<>>), Everything)
         /\ \A text : IsSeq(text) => joinTerms(op, <<text>>) = text
  <1>1. joinTerms(op, <<>>) = <<>>
    <2>1. [i \in DOMAIN <<>> |-> IF i = 1 THEN <<>>[1] ELSE <<op>> \o <<>>[i]] = <<>>
      OBVIOUS
    <2> QED BY <2>1, FlattenNone, SeqEmpty DEF joinTerms
  <1>2. StandsFor(<<>>, Everything)
    <2>1. Broken(<<>>)
      BY DEF Broken
    <2> QED BY <2>1, LeavesNothing, NoTerms DEF StandsFor, LeavesTerm
  <1>3. ASSUME NEW text, IsSeq(text) PROVE joinTerms(op, <<text>>) = text
    <2> DEFINE one == <<text>>
               pieces == [i \in DOMAIN one |-> IF i = 1 THEN one[1] ELSE <<op>> \o one[i]]
    <2>1. pieces = <<text>>
      OBVIOUS
    <2>2. Append(<<>>, text) = <<text>> /\ <<>> \o text = text /\ Len(one) = 1
      BY <1>3, SeqOne, SeqConcat
    <2>3. FlattenSeq(Append(<<>>, text)) = FlattenSeq(<<>>) \o text
      BY <1>3, SeqEmpty, FlattenAppend
    <2>4. FlattenSeq(pieces) = text
      BY <2>1, <2>2, <2>3, FlattenNone
    <2>5. joinTerms(op, one) = IF Len(one) < 2 THEN FlattenSeq(pieces)
                                               ELSE <<"(">> \o FlattenSeq(pieces) \o <<")">>
      BY DEF joinTerms
    <2> HIDE DEF pieces
    <2> QED BY <2>2, <2>4, <2>5
  <1> QED BY <1>1, <1>2, <1>3
==============================================================================
