----------------------------- MODULE TextProofs -----------------------------
(***************************************************************************)
(* Proofs about what the program makes of the texts that clients send:     *)
(* Search, StackTraces and Announcement, for texts of every length.  Their *)
(* loops are folds along a sequence; the first part derives what a fold    *)
(* computes from the induction that the well-founded order of the natural  *)
(* numbers allows.                                                         *)
(***************************************************************************)
EXTENDS Search, Announcement, FiniteSetTheorems, WellFoundedInduction, TLAPS

-----------------------------------------------------------------------------
(* Induction, and loops along a sequence *)

\* A set with 0 in it, and with n + 1 for every n in it, holds every natural number.
LEMMA NaturalInduction ==
    ASSUME NEW S, 0 \in S, \A n \in Nat : n \in S => n + 1 \in S
    PROVE  \A n \in Nat : n \in S
<1> DEFINE R == OpToRel(<, Nat)
           T == Nat \ S
<1>1. \A x, y \in Nat : x < y => <<x, y>> \in R
  BY Zenon DEF OpToRel
<1>2. IsWellFoundedOn(R, Nat)
  BY NatLessThanWellFounded
<1> HIDE DEF R
<1>3. ASSUME T # {} PROVE FALSE
  <2>1. PICK x \in T : \A y \in T : <<y, x>> \notin R
    BY <1>2, <1>3, WFMin
  <2>2. x # 0 /\ x - 1 \in Nat /\ x - 1 < x /\ (x - 1) + 1 = x
    OBVIOUS
  <2>3. x - 1 \in S
    BY <1>1, <2>1, <2>2
  <2> QED
    BY <2>2, <2>3
<1> QED
  BY <1>3

\* The same up to a bound.
LEMMA BoundedInduction ==
    ASSUME NEW N \in Nat, NEW S, 0 \in S, \A n \in 0 .. N - 1 : n \in S => n + 1 \in S
    PROVE  \A n \in 0 .. N : n \in S
<1> DEFINE T == {n \in Nat : n <= N => n \in S}
<1>1. 0 \in T /\ \A n \in Nat : n \in T => n + 1 \in T
  OBVIOUS
<1>2. \A n \in Nat : n \in T
  <2> HIDE DEF T
  <2> QED
    BY <1>1, NaturalInduction
<1> QED
  BY <1>2

\* A set of natural numbers up to N that is not empty has a greatest element.
LEMMA GreatestOf ==
    ASSUME NEW N \in Nat, NEW s \in SUBSET (1 .. N), s # {}
    PROVE  Max(s) \in s /\ \A y \in s : y <= Max(s)
<1> DEFINE P == {n \in Nat : \A t \in SUBSET (1 .. n) : t # {} => \E x \in t : \A y \in t : y <= x}
<1>1. 0 \in P
  <2>1. 1 .. 0 = {}
    OBVIOUS
  <2> QED
    BY <2>1
<1>2. ASSUME NEW n \in Nat, n \in P PROVE n + 1 \in P
  <2> SUFFICES ASSUME NEW t \in SUBSET (1 .. n + 1), t # {}
               PROVE  \E x \in t : \A y \in t : y <= x
    OBVIOUS
  <2>1. CASE n + 1 \in t
    BY <2>1
  <2>2. CASE n + 1 \notin t
    <3>1. t \in SUBSET (1 .. n)
      BY <2>2
    <3> QED
      BY <1>2, <3>1
  <2> QED
    BY <2>1, <2>2
<1>3. N \in P
  <2> HIDE DEF P
  <2> QED
    BY <1>1, <1>2, NaturalInduction
<1>4. \E x \in s : \A y \in s : y <= x
  BY <1>3
<1> QED
  BY <1>4, Zenon DEF Max

\* And one that is not empty has a least element.
LEMMA LeastOf ==
    ASSUME NEW s \in SUBSET Nat, s # {}
    PROVE  \E x \in s : \A y \in s : x <= y
<1> DEFINE R == OpToRel(<, Nat)
<1>1. \A x, y \in Nat : x < y => <<x, y>> \in R
  BY Zenon DEF OpToRel
<1>2. IsWellFoundedOn(R, Nat)
  BY NatLessThanWellFounded
<1> HIDE DEF R
<1>3. PICK x \in s : \A y \in s : <<y, x>> \notin R
  BY <1>2, WFMin
<1>4. ASSUME NEW y \in s PROVE x <= y
  <2>1. x \in Nat /\ y \in Nat
    OBVIOUS
  <2>2. ~(y < x)
    BY <1>1, <1>3, <2>1
  <2> QED
    BY <2>1, <2>2
<1> QED
  BY <1>4

LEMMA GreatestOfFirst ==
    ASSUME NEW n \in Nat \ {0}
    PROVE  Max(1 .. n) = n /\ (1 .. n) \ {n} = 1 .. n - 1
<1> DEFINE m == Max(1 .. n)
<1>1. (1 .. n) \in SUBSET (1 .. n) /\ n \in 1 .. n
  OBVIOUS
<1>2. m \in 1 .. n /\ \A y \in 1 .. n : y <= m
  BY <1>1, GreatestOf
<1> HIDE DEF m
<1>3. m = n /\ (1 .. n) \ {n} = 1 .. n - 1
  BY <1>2
<1> QED
  BY <1>3 DEF m

\* The values of a fold on every set of places exist, when the step is a function.
Iterates(iter, base, step, s, n) ==
    \A t \in SUBSET (1 .. n) :
        iter[t] = IF t = {} THEN base ELSE step[<<iter[t \ {Max(t)}], s[Max(t)]>>]

LEMMA IteratesExist ==
    ASSUME NEW S, NEW C, NEW base \in S, NEW step \in [S \X C -> S],
           NEW N \in Nat, NEW s \in [1 .. N -> C]
    PROVE  \E iter \in [SUBSET (1 .. N) -> S] : Iterates(iter, base, step, s, N)
<1> DEFINE Q == {n \in Nat : \E iter \in [SUBSET (1 .. n) -> S] : Iterates(iter, base, step, s, n)}
<1>1. 0 \in Q
  <2>1. 1 .. 0 = {}
    OBVIOUS
  <2> DEFINE iter == [t \in SUBSET (1 .. 0) |-> base]
  <2>2. iter \in [SUBSET (1 .. 0) -> S] /\ Iterates(iter, base, step, s, 0)
    BY <2>1 DEF Iterates
  <2> HIDE DEF iter
  <2> QED
    BY <2>2
<1>2. ASSUME NEW n \in 0 .. N - 1, n \in Q PROVE n + 1 \in Q
  <2>1. PICK iter \in [SUBSET (1 .. n) -> S] : Iterates(iter, base, step, s, n)
    BY <1>2
  <2> DEFINE new == [t \in SUBSET (1 .. n + 1) |->
                        IF n + 1 \in t THEN step[<<iter[t \ {n + 1}], s[n + 1]>>] ELSE iter[t]]
  <2>2. \A t \in SUBSET (1 .. n + 1) : n + 1 \notin t => t \in SUBSET (1 .. n)
    OBVIOUS
  <2>3. \A t \in SUBSET (1 .. n + 1) : t \ {n + 1} \in SUBSET (1 .. n)
    OBVIOUS
  <2>4. n + 1 \in 1 .. N /\ n \in Nat /\ n + 1 \in Nat
    OBVIOUS
  <2>5. new \in [SUBSET (1 .. n + 1) -> S]
    BY <2>2, <2>3, <2>4
  <2>6. ASSUME NEW t \in SUBSET (1 .. n + 1)
        PROVE  new[t] = IF t = {} THEN base ELSE step[<<new[t \ {Max(t)}], s[Max(t)]>>]
    <3>1. CASE n + 1 \in t
      <4>1. Max(t) \in t /\ \A y \in t : y <= Max(t)
        BY <2>4, <3>1, GreatestOf
      <4>2. Max(t) = n + 1
        <5> DEFINE m == Max(t)
        <5>1. m \in t /\ \A y \in t : y <= m
          BY <4>1
        <5> HIDE DEF m
        <5>2. m = n + 1
          BY <3>1, <5>1
        <5> QED
          BY <5>2 DEF m
      <4>3. new[t \ {n + 1}] = iter[t \ {n + 1}]
        BY <2>3
      <4> QED
        BY <3>1, <4>2, <4>3
    <3>2. CASE n + 1 \notin t
      <4>1. t \in SUBSET (1 .. n) /\ new[t] = iter[t]
        BY <2>2, <3>2
      <4>2. t # {} => t \ {Max(t)} \in SUBSET (1 .. n + 1) /\ n + 1 \notin t \ {Max(t)}
        BY <3>2
      <4>3. t # {} => new[t \ {Max(t)}] = iter[t \ {Max(t)}]
        BY <4>2
      <4> QED
        BY <2>1, <4>1, <4>3 DEF Iterates
    <3> QED
      BY <3>1, <3>2
  <2> HIDE DEF new
  <2>7. Iterates(new, base, step, s, n + 1)
    BY <2>6 DEF Iterates
  <2> QED
    BY <2>4, <2>5, <2>7
<1>3. \A n \in 0 .. N : n \in Q
  <2> HIDE DEF Q
  <2> QED
    BY <1>1, <1>2, BoundedInduction
<1>4. N \in Q
  <2> HIDE DEF Q
  <2> QED
    BY <1>3
<1> QED
  BY <1>4

\* The values that a loop has before and after each element, where they are the iterates of a fold.
LoopValues(iter, base, step, s, N, S) ==
    /\ iter[1 .. 0] = base /\ \A n \in 0 .. N : iter[1 .. n] \in S
    /\ \A n \in 1 .. N : iter[1 .. n] = step[<<iter[1 .. n - 1], s[n]>>]

LEMMA LoopOfIterates ==
    ASSUME NEW S, NEW C, NEW base \in S, NEW step \in [S \X C -> S],
           NEW N \in Nat, NEW s \in [1 .. N -> C], NEW iter, Iterates(iter, base, step, s, N)
    PROVE  LoopValues(iter, base, step, s, N, S)
<1>1. iter[1 .. 0] = base
  <2>1. 1 .. 0 = {}
    OBVIOUS
  <2> QED
    BY <2>1 DEF Iterates
<1>2. ASSUME NEW n \in 1 .. N PROVE iter[1 .. n] = step[<<iter[1 .. n - 1], s[n]>>]
  <2>1. Max(1 .. n) = n /\ (1 .. n) \ {n} = 1 .. n - 1
    BY GreatestOfFirst
  <2>2. (1 .. n) \in SUBSET (1 .. N) /\ 1 .. n # {}
    OBVIOUS
  <2> QED
    BY <2>1, <2>2 DEF Iterates
<1>3. \A n \in 0 .. N : iter[1 .. n] \in S
  <2> DEFINE P == {n \in 0 .. N : iter[1 .. n] \in S}
  <2>1. 0 \in P
    BY <1>1
  <2>2. ASSUME NEW n \in 0 .. N - 1, n \in P PROVE n + 1 \in P
    <3>1. n + 1 \in 1 .. N /\ (n + 1) - 1 = n
      OBVIOUS
    <3>2. iter[1 .. n + 1] = step[<<iter[1 .. n], s[n + 1]>>]
      BY <1>2, <3>1
    <3> QED
      BY <2>2, <3>1, <3>2
  <2>3. \A n \in 0 .. N : n \in P
    <3> HIDE DEF P
    <3> QED
      BY <2>1, <2>2, BoundedInduction
  <2> QED
    BY <2>3
<1> QED
  BY <1>1, <1>2, <1>3 DEF LoopValues

\* Two iterations of the same step from the same beginning are the same.
SameSteps(one, other, N) ==
    \A t \in SUBSET (1 .. N) :
        t # {} /\ one[t \ {Max(t)}] = other[t \ {Max(t)}] => one[t] = other[t]

LEMMA SameIterates ==
    ASSUME NEW N \in Nat, NEW one, NEW other, one[{}] = other[{}], SameSteps(one, other, N)
    PROVE  one[1 .. N] = other[1 .. N]
<1> DEFINE P == {n \in 0 .. N : \A t \in SUBSET (1 .. n) : one[t] = other[t]}
<1>1. 0 \in P
  <2>1. ASSUME NEW t \in SUBSET (1 .. 0) PROVE one[t] = other[t]
    <3>1. t = {}
      OBVIOUS
    <3> QED
      BY <3>1
  <2> QED
    BY <2>1
<1>2. ASSUME NEW n \in 0 .. N - 1, n \in P PROVE n + 1 \in P
  <2>1. n + 1 \in 0 .. N /\ n + 1 \in Nat
    OBVIOUS
  <2>2. ASSUME NEW t \in SUBSET (1 .. n + 1), t # {} PROVE one[t] = other[t]
    <3> DEFINE m == Max(t)
    <3>1. m \in t /\ \A y \in t : y <= m
      BY <2>1, <2>2, GreatestOf
    <3> HIDE DEF m
    <3>2. t \ {m} \in SUBSET (1 .. n) /\ t \in SUBSET (1 .. N)
      BY <3>1
    <3>3. one[t \ {m}] = other[t \ {m}]
      BY <1>2, <3>2
    <3> QED
      BY <2>2, <3>2, <3>3 DEF SameSteps, m
  <2>3. \A t \in SUBSET (1 .. n + 1) : one[t] = other[t]
    BY <2>2
  <2> QED
    BY <2>1, <2>3
<1>3. \A n \in 0 .. N : n \in P
  <2> HIDE DEF P
  <2> QED
    BY <1>1, <1>2, BoundedInduction
<1>4. N \in P /\ (1 .. N) \in SUBSET (1 .. N)
  <2> HIDE DEF P
  <2> QED
    BY <1>3
<1> QED
  BY <1>4

-----------------------------------------------------------------------------
(* The loops of Search *)

\* The letters that are keys of links.
KeyLetters == {"a", "s"}

LEMMA TheCharacters ==
    /\ \A letter \in KeyLetters : letter \in Characters
    /\ "a" \in Characters /\ ":" \in Characters /\ "quote" \in Characters /\ "backslash" \in Characters
  BY DEF Characters, KeyLetters

Tokenizers ==
    [tokens : Seq(Seq(Characters)), token : Seq(Characters), quoted : BOOLEAN, escaped : BOOLEAN]

LEMMA TokenizerSteps ==
    /\ NoCharacters \in Tokenizers
    /\ \A s \in Tokenizers, c \in Characters : NextCharacter(s, c) \in Tokenizers
<1>1. NoCharacters \in Tokenizers
  BY DEF NoCharacters, Tokenizers
<1>2. ASSUME NEW s \in Tokenizers, NEW c \in Characters PROVE NextCharacter(s, c) \in Tokenizers
  <2>1. Append(s.token, c) \in Seq(Characters) /\ Append(s.tokens, s.token) \in Seq(Seq(Characters))
    BY DEF Tokenizers
  <2>2. <<>> \in Seq(Characters)
    OBVIOUS
  <2> HIDE DEF Characters
  <2>3. CASE s.escaped
    BY <2>1, <2>3 DEF NextCharacter, Tokenizers
  <2>4. CASE ~s.escaped /\ c = "backslash" /\ s.quoted
    BY <2>4 DEF NextCharacter, Tokenizers
  <2>5. CASE ~s.escaped /\ ~(c = "backslash" /\ s.quoted) /\ c = "quote"
    BY <2>5 DEF NextCharacter, Tokenizers
  <2>6. CASE ~s.escaped /\ ~(c = "backslash" /\ s.quoted) /\ c # "quote"
    BY <2>1, <2>2, <2>6 DEF NextCharacter, Tokenizers
  <2> QED
    BY <2>3, <2>4, <2>5, <2>6
<1> QED
  BY <1>1, <1>2

\* The loop of tokenize.
LEMMA TokenizeLoop ==
    ASSUME NEW input \in Seq(Characters)
    PROVE  \E f \in [0 .. Len(input) -> Tokenizers] :
              /\ f[0] = NoCharacters /\ f[Len(input)] = FoldLeft(NextCharacter, NoCharacters, input)
              /\ \A n \in 1 .. Len(input) : f[n] = NextCharacter(f[n - 1], input[n])
<1> DEFINE N == Len(input)
           step == [p \in Tokenizers \X Characters |-> NextCharacter(p[1], p[2])]
           Values(iter) == [t \in SUBSET DOMAIN input |->
                               IF t = {} THEN NoCharacters
                               ELSE NextCharacter(iter[t \ {Max(t)}], input[Max(t)])]
           chosen == CHOOSE iter : iter = Values(iter)
<1>1. N \in Nat /\ DOMAIN input = 1 .. N /\ input \in [1 .. N -> Characters]
  OBVIOUS
<1>2. NoCharacters \in Tokenizers /\ step \in [Tokenizers \X Characters -> Tokenizers]
  BY TokenizerSteps
<1>3. PICK iter \in [SUBSET (1 .. N) -> Tokenizers] : Iterates(iter, NoCharacters, step, input, N)
  <2> HIDE DEF step, N
  <2> QED
    BY <1>1, <1>2, IteratesExist
<1>4. ASSUME NEW t \in SUBSET (1 .. N), t # {}
      PROVE  /\ iter[t] = NextCharacter(iter[t \ {Max(t)}], input[Max(t)])
             /\ iter[t \ {Max(t)}] \in Tokenizers /\ input[Max(t)] \in Characters
  <2>1. Max(t) \in 1 .. N /\ t \ {Max(t)} \in SUBSET (1 .. N)
    <3> HIDE DEF N
    <3> QED
      BY <1>1, <1>4, GreatestOf
  <2>2. iter[t \ {Max(t)}] \in Tokenizers /\ input[Max(t)] \in Characters
    BY <1>1, <2>1
  <2> QED
    BY <1>3, <1>4, <2>2 DEF Iterates
<1>5. iter = Values(iter)
  <2>1. iter[{}] = NoCharacters
    BY <1>3 DEF Iterates
  <2> QED
    BY <1>1, <1>4, <2>1
<1>6. chosen = Values(chosen)
  <2>1. \E i : i = Values(i)
    BY <1>5
  <2> HIDE DEF Values
  <2> QED
    BY <2>1
<1>7. FoldLeft(NextCharacter, NoCharacters, input) = chosen[DOMAIN input]
  BY Zenon DEF FoldLeft, MapThenFoldSet
<1> HIDE DEF chosen
<1>8. chosen[DOMAIN input] = iter[1 .. N]
  <2>1. \A t \in SUBSET (1 .. N) : chosen[t] = Values(chosen)[t] /\ iter[t] = Values(iter)[t]
    BY <1>5, <1>6
  <2>2. chosen[{}] = iter[{}]
    BY <1>1, <2>1
  <2>3. SameSteps(chosen, iter, N)
    BY <1>1, <2>1 DEF SameSteps
  <2>4. chosen[1 .. N] = iter[1 .. N]
    <3> HIDE DEF N, Values
    <3> QED
      BY <1>1, <2>2, <2>3, SameIterates
  <2> QED
    BY <1>1, <2>4
<1>9. LoopValues(iter, NoCharacters, step, input, N, Tokenizers)
  <2> HIDE DEF step, N
  <2> QED
    BY <1>1, <1>2, <1>3, LoopOfIterates
<1>10. ASSUME NEW n \in 1 .. N PROVE iter[1 .. n] = NextCharacter(iter[1 .. n - 1], input[n])
  <2>1. n - 1 \in 0 .. N
    BY <1>1
  <2>2. iter[1 .. n - 1] \in Tokenizers /\ input[n] \in Characters
    BY <1>1, <1>9, <2>1 DEF LoopValues
  <2> QED
    BY <1>9, <2>2 DEF LoopValues
<1> DEFINE f == [n \in 0 .. N |-> iter[1 .. n]]
<1>11. f \in [0 .. N -> Tokenizers] /\ f[0] = NoCharacters /\ f[N] = FoldLeft(NextCharacter, NoCharacters, input)
  BY <1>1, <1>7, <1>8, <1>9 DEF LoopValues
<1>12. \A n \in 1 .. N : f[n] = NextCharacter(f[n - 1], input[n])
  BY <1>1, <1>10
<1> HIDE DEF f
<1> QED
  BY <1>11, <1>12

LEMMA EscapeSteps ==
    /\ <<>> \in Seq(Characters)
    /\ \A s \in Seq(Characters), c \in Characters : EscapeCharacter(s, c) \in Seq(Characters)
<1>1. "backslash" \in Characters
  BY DEF Characters
<1>2. \A s \in Seq(Characters), c \in Characters : s \o <<c>> \in Seq(Characters)
  OBVIOUS
<1>3. \A s \in Seq(Characters), b, c \in Characters : s \o <<b, c>> \in Seq(Characters)
  OBVIOUS
<1> QED
  BY <1>1, <1>2, <1>3 DEF EscapeCharacter

\* The loop of escaping.
LEMMA EscapeLoop ==
    ASSUME NEW text \in Seq(Characters)
    PROVE  \E f \in [0 .. Len(text) -> Seq(Characters)] :
              /\ f[0] = <<>> /\ f[Len(text)] = Escape(text)
              /\ \A n \in 1 .. Len(text) : f[n] = EscapeCharacter(f[n - 1], text[n])
<1> DEFINE N == Len(text)
           step == [p \in Seq(Characters) \X Characters |-> EscapeCharacter(p[1], p[2])]
           Values(iter) == [t \in SUBSET DOMAIN text |->
                               IF t = {} THEN <<>>
                               ELSE EscapeCharacter(iter[t \ {Max(t)}], text[Max(t)])]
           chosen == CHOOSE iter : iter = Values(iter)
<1>1. N \in Nat /\ DOMAIN text = 1 .. N /\ text \in [1 .. N -> Characters]
  OBVIOUS
<1>2. <<>> \in Seq(Characters) /\ step \in [Seq(Characters) \X Characters -> Seq(Characters)]
  BY EscapeSteps
<1>3. PICK iter \in [SUBSET (1 .. N) -> Seq(Characters)] : Iterates(iter, <<>>, step, text, N)
  <2> HIDE DEF step, N
  <2> QED
    BY <1>1, <1>2, IteratesExist
<1>4. ASSUME NEW t \in SUBSET (1 .. N), t # {}
      PROVE  /\ iter[t] = EscapeCharacter(iter[t \ {Max(t)}], text[Max(t)])
             /\ iter[t \ {Max(t)}] \in Seq(Characters) /\ text[Max(t)] \in Characters
  <2>1. Max(t) \in 1 .. N /\ t \ {Max(t)} \in SUBSET (1 .. N)
    <3> HIDE DEF N
    <3> QED
      BY <1>1, <1>4, GreatestOf
  <2>2. iter[t \ {Max(t)}] \in Seq(Characters) /\ text[Max(t)] \in Characters
    BY <1>1, <2>1
  <2> QED
    BY <1>3, <1>4, <2>2 DEF Iterates
<1>5. iter = Values(iter)
  <2>1. iter[{}] = <<>>
    BY <1>3 DEF Iterates
  <2> QED
    BY <1>1, <1>4, <2>1
<1>6. chosen = Values(chosen)
  <2>1. \E i : i = Values(i)
    BY <1>5
  <2> HIDE DEF Values
  <2> QED
    BY <2>1
<1>7. Escape(text) = chosen[DOMAIN text]
  BY Zenon DEF FoldLeft, MapThenFoldSet, Escape
<1> HIDE DEF chosen
<1>8. chosen[DOMAIN text] = iter[1 .. N]
  <2>1. \A t \in SUBSET (1 .. N) : chosen[t] = Values(chosen)[t] /\ iter[t] = Values(iter)[t]
    BY <1>5, <1>6
  <2>2. chosen[{}] = iter[{}]
    BY <1>1, <2>1
  <2>3. SameSteps(chosen, iter, N)
    BY <1>1, <2>1 DEF SameSteps
  <2>4. chosen[1 .. N] = iter[1 .. N]
    <3> HIDE DEF N, Values
    <3> QED
      BY <1>1, <2>2, <2>3, SameIterates
  <2> QED
    BY <1>1, <2>4
<1>9. LoopValues(iter, <<>>, step, text, N, Seq(Characters))
  <2> HIDE DEF step, N
  <2> QED
    BY <1>1, <1>2, <1>3, LoopOfIterates
<1>10. ASSUME NEW n \in 1 .. N PROVE iter[1 .. n] = EscapeCharacter(iter[1 .. n - 1], text[n])
  <2>1. n - 1 \in 0 .. N
    BY <1>1
  <2>2. iter[1 .. n - 1] \in Seq(Characters) /\ text[n] \in Characters
    BY <1>1, <1>9, <2>1 DEF LoopValues
  <2> QED
    BY <1>9, <2>2 DEF LoopValues
<1> DEFINE f == [n \in 0 .. N |-> iter[1 .. n]]
<1>11. f \in [0 .. N -> Seq(Characters)] /\ f[0] = <<>> /\ f[N] = Escape(text)
  BY <1>1, <1>7, <1>8, <1>9 DEF LoopValues
<1>12. \A n \in 1 .. N : f[n] = EscapeCharacter(f[n - 1], text[n])
  BY <1>1, <1>10
<1> HIDE DEF f
<1> QED
  BY <1>11, <1>12

\* The first colon of a token that has one.
FirstColon(token) == CHOOSE i \in ColonAt(token) : \A j \in ColonAt(token) : i <= j

LEMMA FirstColonIs ==
    ASSUME NEW token \in Seq(Characters), ColonAt(token) # {}
    PROVE  /\ FirstColon(token) \in 1 .. Len(token) /\ token[FirstColon(token)] = ":"
           /\ \A j \in ColonAt(token) : FirstColon(token) <= j
<1>1. ColonAt(token) \subseteq 1 .. Len(token) /\ Len(token) \in Nat
  BY DEF ColonAt
<1>2. \E i \in ColonAt(token) : \A j \in ColonAt(token) : i <= j
  BY <1>1, LeastOf
<1>3. FirstColon(token) \in ColonAt(token) /\ \A j \in ColonAt(token) : FirstColon(token) <= j
  BY <1>2, Zenon DEF FirstColon
<1> QED
  BY <1>1, <1>3 DEF ColonAt

LEMMA LowercaseIs ==
    ASSUME NEW text \in Seq(Characters)
    PROVE  /\ ToAsciiLowercase(text) \in Seq(Characters) /\ Len(ToAsciiLowercase(text)) = Len(text)
           /\ \A i \in 1 .. Len(text) :
                  ToAsciiLowercase(text)[i] = IF text[i] = "A" THEN "a" ELSE text[i]
<1> DEFINE lower == [i \in 1 .. Len(text) |-> IF text[i] = "A" THEN "a" ELSE text[i]]
<1>1. ToAsciiLowercase(text) = lower
  BY DEF ToAsciiLowercase
<1>2. lower \in [1 .. Len(text) -> Characters]
  <2>1. "a" \in Characters
    BY DEF Characters
  <2> QED
    BY <2>1
<1>3. lower \in Seq(Characters) /\ Len(lower) = Len(text)
  <2> HIDE DEF lower
  <2> QED
    BY <1>2
<1> QED
  BY <1>1, <1>3

LEMMA SubSeqIs ==
    ASSUME NEW S, NEW s \in Seq(S), NEW m \in 1 .. Len(s) + 1, NEW n \in m - 1 .. Len(s)
    PROVE  /\ SubSeq(s, m, n) \in Seq(S) /\ Len(SubSeq(s, m, n)) = n - m + 1
           /\ \A i \in 1 .. n - m + 1 : SubSeq(s, m, n)[i] = s[m + i - 1]
  OBVIOUS

Qualifiers == [key : Seq(Characters), value : Seq(Characters)]

LEMMA SplitIs ==
    ASSUME NEW token \in Seq(Characters), ColonAt(token) # {}
    PROVE  /\ SplitAtColon(token) \in Qualifiers
           /\ SplitAtColon(token).key = SubSeq(token, 1, FirstColon(token) - 1)
           /\ SplitAtColon(token).value = SubSeq(token, FirstColon(token) + 1, Len(token))
<1>1. FirstColon(token) \in 1 .. Len(token)
  BY FirstColonIs
<1>2. SplitAtColon(token) = [key |-> SubSeq(token, 1, FirstColon(token) - 1),
                             value |-> SubSeq(token, FirstColon(token) + 1, Len(token))]
  BY DEF SplitAtColon, FirstColon
<1> DEFINE colon == FirstColon(token)
<1> HIDE DEF colon
<1>3. colon \in 1 .. Len(token)
  BY <1>1 DEF colon
<1>4. SubSeq(token, 1, colon - 1) \in Seq(Characters) /\ SubSeq(token, colon + 1, Len(token)) \in Seq(Characters)
  BY <1>3, SubSeqIs
<1> DEFINE key == SubSeq(token, 1, colon - 1)
           rest == SubSeq(token, colon + 1, Len(token))
           part == SplitAtColon(token)
<1>5. part = [key |-> key, value |-> rest]
  BY <1>2 DEF colon
<1> HIDE DEF key, rest, part
<1>6. part.key = key /\ part.value = rest
  BY ONLY <1>5
<1>7. key \in Seq(Characters) /\ rest \in Seq(Characters)
  BY <1>4 DEF key, rest
<1>8. part \in Qualifiers
  BY ONLY <1>5, <1>7 DEF Qualifiers
<1> QED
  BY <1>6, <1>8 DEF colon, key, rest, part

Searches == [valid : BOOLEAN, terms : Seq(Seq(Characters)), qualifiers : Seq(Qualifiers)]

LEMMA SearchSteps ==
    /\ EmptySearch \in Searches
    /\ \A s \in Searches, token \in Seq(Characters) : AddToken(s, token) \in Searches
<1>1. EmptySearch \in Searches
  BY DEF EmptySearch, Searches
<1>2. ASSUME NEW s \in Searches, NEW token \in Seq(Characters) PROVE AddToken(s, token) \in Searches
  <2> DEFINE part == SplitAtColon(token)
             lower == [key |-> ToAsciiLowercase(part.key), value |-> part.value]
  <2>1. CASE ~s.valid
    BY <2>1 DEF AddToken
  <2>2. CASE s.valid /\ ColonAt(token) = {}
    <3>1. Append(s.terms, token) \in Seq(Seq(Characters))
      BY DEF Searches
    <3>2. AddToken(s, token) = [s EXCEPT !.terms = Append(s.terms, token)]
      BY <2>2 DEF AddToken, Searches
    <3> QED
      BY <3>1, <3>2 DEF Searches
  <2>3. CASE s.valid /\ ColonAt(token) # {}
    <3>1. part \in Qualifiers
      BY <2>3, SplitIs
    <3>2. lower \in Qualifiers
      BY <3>1, LowercaseIs DEF Qualifiers
    <3> HIDE DEF lower, part
    <3>3. Append(s.qualifiers, lower) \in Seq(Qualifiers)
      BY <3>2 DEF Searches
    <3>4. \/ AddToken(s, token) = [s EXCEPT !.valid = FALSE]
          \/ AddToken(s, token) = [s EXCEPT !.qualifiers = Append(s.qualifiers, lower)]
      BY <2>3 DEF AddToken, Searches, lower, part
    <3> QED
      BY <3>3, <3>4 DEF Searches
  <2> QED
    BY <2>1, <2>2, <2>3 DEF Searches
<1> QED
  BY <1>1, <1>2

\* The loop of parse.
LEMMA ParseLoop ==
    ASSUME NEW tokens \in Seq(Seq(Characters))
    PROVE  \E f \in [0 .. Len(tokens) -> Searches] :
              /\ f[0] = EmptySearch /\ f[Len(tokens)] = FoldLeft(AddToken, EmptySearch, tokens)
              /\ \A n \in 1 .. Len(tokens) : f[n] = AddToken(f[n - 1], tokens[n])
<1> DEFINE N == Len(tokens)
           step == [p \in Searches \X Seq(Characters) |-> AddToken(p[1], p[2])]
           Values(iter) == [t \in SUBSET DOMAIN tokens |->
                               IF t = {} THEN EmptySearch
                               ELSE AddToken(iter[t \ {Max(t)}], tokens[Max(t)])]
           chosen == CHOOSE iter : iter = Values(iter)
<1>1. N \in Nat /\ DOMAIN tokens = 1 .. N /\ tokens \in [1 .. N -> Seq(Characters)]
  OBVIOUS
<1>2. EmptySearch \in Searches /\ step \in [Searches \X Seq(Characters) -> Searches]
  BY SearchSteps
<1>3. PICK iter \in [SUBSET (1 .. N) -> Searches] : Iterates(iter, EmptySearch, step, tokens, N)
  <2> HIDE DEF step, N
  <2> QED
    BY <1>1, <1>2, IteratesExist
<1>4. ASSUME NEW t \in SUBSET (1 .. N), t # {}
      PROVE  /\ iter[t] = AddToken(iter[t \ {Max(t)}], tokens[Max(t)])
             /\ iter[t \ {Max(t)}] \in Searches /\ tokens[Max(t)] \in Seq(Characters)
  <2>1. Max(t) \in 1 .. N /\ t \ {Max(t)} \in SUBSET (1 .. N)
    <3> HIDE DEF N
    <3> QED
      BY <1>1, <1>4, GreatestOf
  <2>2. iter[t \ {Max(t)}] \in Searches /\ tokens[Max(t)] \in Seq(Characters)
    BY <1>1, <2>1
  <2> QED
    BY <1>3, <1>4, <2>2 DEF Iterates
<1>5. iter = Values(iter)
  <2>1. iter[{}] = EmptySearch
    BY <1>3 DEF Iterates
  <2> QED
    BY <1>1, <1>4, <2>1
<1>6. chosen = Values(chosen)
  <2>1. \E i : i = Values(i)
    BY <1>5
  <2> HIDE DEF Values
  <2> QED
    BY <2>1
<1>7. FoldLeft(AddToken, EmptySearch, tokens) = chosen[DOMAIN tokens]
  BY Zenon DEF FoldLeft, MapThenFoldSet
<1> HIDE DEF chosen
<1>8. chosen[DOMAIN tokens] = iter[1 .. N]
  <2>1. \A t \in SUBSET (1 .. N) : chosen[t] = Values(chosen)[t] /\ iter[t] = Values(iter)[t]
    BY <1>5, <1>6
  <2>2. chosen[{}] = iter[{}]
    BY <1>1, <2>1
  <2>3. SameSteps(chosen, iter, N)
    BY <1>1, <2>1 DEF SameSteps
  <2>4. chosen[1 .. N] = iter[1 .. N]
    <3> HIDE DEF N, Values
    <3> QED
      BY <1>1, <2>2, <2>3, SameIterates
  <2> QED
    BY <1>1, <2>4
<1>9. LoopValues(iter, EmptySearch, step, tokens, N, Searches)
  <2> HIDE DEF step, N
  <2> QED
    BY <1>1, <1>2, <1>3, LoopOfIterates
<1>10. ASSUME NEW n \in 1 .. N PROVE iter[1 .. n] = AddToken(iter[1 .. n - 1], tokens[n])
  <2>1. n - 1 \in 0 .. N
    BY <1>1
  <2>2. iter[1 .. n - 1] \in Searches /\ tokens[n] \in Seq(Characters)
    BY <1>1, <1>9, <2>1 DEF LoopValues
  <2> QED
    BY <1>9, <2>2 DEF LoopValues
<1> DEFINE f == [n \in 0 .. N |-> iter[1 .. n]]
<1>11. f \in [0 .. N -> Searches] /\ f[0] = EmptySearch /\ f[N] = FoldLeft(AddToken, EmptySearch, tokens)
  BY <1>1, <1>7, <1>8, <1>9 DEF LoopValues
<1>12. \A n \in 1 .. N : f[n] = AddToken(f[n - 1], tokens[n])
  BY <1>1, <1>10
<1> HIDE DEF f
<1> QED
  BY <1>11, <1>12

-----------------------------------------------------------------------------
(* What a link is read as *)

LEMMA LengthIs == ASSUME NEW S, NEW s \in Seq(S) PROVE Len(s) \in Nat
  OBVIOUS

LEMMA FirstOfAppend ==
    ASSUME NEW S, NEW s \in Seq(S), s # <<>>, NEW x \in S
    PROVE  Append(s, x) # <<>> /\ Append(s, x)[1] = s[1]
  OBVIOUS

LEMMA ConcatIs ==
    ASSUME NEW S, NEW s \in Seq(S), NEW t \in Seq(S)
    PROVE  /\ s \o t \in Seq(S) /\ Len(s \o t) = Len(s) + Len(t)
           /\ \A i \in 1 .. Len(s) : (s \o t)[i] = s[i]
           /\ \A i \in 1 .. Len(t) : (s \o t)[Len(s) + i] = t[i]
<1>1. \A i \in 1 .. Len(t) : Len(s) + i \in 1 .. Len(s) + Len(t) /\ (Len(s) + i) - Len(s) = i
  OBVIOUS
<1> QED
  BY <1>1

Joined(S, s, t, both) ==
    /\ both \in Seq(S) /\ Len(both) = Len(s) + Len(t)
    /\ \A i \in 1 .. Len(s) : both[i] = s[i]
    /\ \A i \in 1 .. Len(t) : both[Len(s) + i] = t[i]

LEMMA ConcatJoins == ASSUME NEW S, NEW s \in Seq(S), NEW t \in Seq(S) PROVE Joined(S, s, t, s \o t)
  BY ConcatIs DEF Joined

\* The token that a link to this value should be read as.
LinkToken(letter, text) == <<letter, ":">> \o text

LEMMA LinkTokenIs ==
    ASSUME NEW letter \in KeyLetters, NEW text \in Seq(Characters)
    PROVE  /\ LinkToken(letter, text) \in Seq(Characters) /\ Len(LinkToken(letter, text)) = 2 + Len(text)
           /\ LinkToken(letter, text)[1] = letter /\ LinkToken(letter, text)[2] = ":"
           /\ \A i \in 1 .. Len(text) : LinkToken(letter, text)[i + 2] = text[i]
<1>1. letter \in Characters /\ ":" \in Characters
  BY TheCharacters
<1> DEFINE head == <<letter, ":">>
<1>2. head \in Seq(Characters) /\ Len(head) = 2 /\ head[1] = letter /\ head[2] = ":"
  BY <1>1
<1> HIDE DEF head
<1>3. /\ head \o text \in Seq(Characters) /\ Len(head \o text) = Len(head) + Len(text)
      /\ \A i \in 1 .. Len(head) : (head \o text)[i] = head[i]
      /\ \A i \in 1 .. Len(text) : (head \o text)[Len(head) + i] = text[i]
  <2>1. text \in Seq(Characters)
    OBVIOUS
  <2>2. Joined(Characters, head, text, head \o text)
    BY ONLY <1>2, <2>1, ConcatJoins
  <2> QED
    BY ONLY <2>2 DEF Joined
<1>4. \A i \in 1 .. Len(text) : 2 + i = i + 2
  OBVIOUS
<1> QED
  BY <1>2, <1>3, <1>4 DEF LinkToken, head

\* Sequences of the same length with the same elements are the same.
LEMMA SameSequence ==
    ASSUME NEW S, NEW s \in Seq(S), NEW t \in Seq(S), Len(s) = Len(t),
           \A i \in 1 .. Len(s) : s[i] = t[i]
    PROVE  s = t
  OBVIOUS

LEMMA LinkTokenGrows ==
    ASSUME NEW letter \in KeyLetters, NEW text \in Seq(Characters), NEW k \in 0 .. Len(text) - 1
    PROVE  Append(LinkToken(letter, SubSeq(text, 1, k)), text[k + 1]) = LinkToken(letter, SubSeq(text, 1, k + 1))
<1> DEFINE before == SubSeq(text, 1, k)
           after == SubSeq(text, 1, k + 1)
<1>1. /\ before \in Seq(Characters) /\ Len(before) = k /\ \A i \in 1 .. k : before[i] = text[i]
      /\ after \in Seq(Characters) /\ Len(after) = k + 1 /\ \A i \in 1 .. k + 1 : after[i] = text[i]
  BY SubSeqIs
<1> HIDE DEF before, after
<1>2. /\ LinkToken(letter, before) \in Seq(Characters) /\ Len(LinkToken(letter, before)) = 2 + k
      /\ LinkToken(letter, before)[1] = letter /\ LinkToken(letter, before)[2] = ":"
      /\ \A i \in 1 .. k : LinkToken(letter, before)[i + 2] = text[i]
  <2>1. /\ LinkToken(letter, before) \in Seq(Characters) /\ Len(LinkToken(letter, before)) = 2 + Len(before)
        /\ LinkToken(letter, before)[1] = letter /\ LinkToken(letter, before)[2] = ":"
        /\ \A i \in 1 .. Len(before) : LinkToken(letter, before)[i + 2] = before[i]
    BY <1>1, LinkTokenIs
  <2> QED
    BY <1>1, <2>1
<1>3. /\ LinkToken(letter, after) \in Seq(Characters) /\ Len(LinkToken(letter, after)) = 3 + k
      /\ LinkToken(letter, after)[1] = letter /\ LinkToken(letter, after)[2] = ":"
      /\ \A i \in 1 .. k + 1 : LinkToken(letter, after)[i + 2] = text[i]
  <2>1. /\ LinkToken(letter, after) \in Seq(Characters) /\ Len(LinkToken(letter, after)) = 2 + Len(after)
        /\ LinkToken(letter, after)[1] = letter /\ LinkToken(letter, after)[2] = ":"
        /\ \A i \in 1 .. Len(after) : LinkToken(letter, after)[i + 2] = after[i]
    BY <1>1, LinkTokenIs
  <2> QED
    BY <1>1, <2>1
<1> DEFINE one == Append(LinkToken(letter, before), text[k + 1])
           other == LinkToken(letter, after)
<1>4. text[k + 1] \in Characters
  OBVIOUS
<1>5. /\ one \in Seq(Characters) /\ Len(one) = 3 + k /\ one[3 + k] = text[k + 1]
      /\ \A i \in 1 .. 2 + k : one[i] = LinkToken(letter, before)[i]
  BY <1>2, <1>4
<1>6. ASSUME NEW i \in 1 .. 3 + k PROVE one[i] = other[i]
  <2>1. CASE i = 3 + k
    <3>1. k + 1 \in 1 .. k + 1 /\ (k + 1) + 2 = i
      BY <2>1
    <3> QED
      BY <1>3, <1>5, <2>1, <3>1
  <2>2. CASE i \in {1, 2}
    BY <1>2, <1>3, <1>5, <2>2
  <2>3. CASE i \in 3 .. 2 + k
    <3>1. i - 2 \in 1 .. k /\ (i - 2) + 2 = i /\ i - 2 \in 1 .. k + 1
      BY <2>3
    <3>2. LinkToken(letter, before)[(i - 2) + 2] = text[i - 2] /\ LinkToken(letter, after)[(i - 2) + 2] = text[i - 2]
      BY <1>2, <1>3, <3>1
    <3> QED
      BY <1>5, <2>3, <3>1, <3>2
  <2>4. i = 3 + k \/ i \in {1, 2} \/ i \in 3 .. 2 + k
    OBVIOUS
  <2> QED
    BY <2>1, <2>2, <2>3, <2>4
<1>7. one = other
  <2> HIDE DEF one, other
  <2>1. other \in Seq(Characters) /\ Len(other) = 3 + k
    BY <1>3 DEF other
  <2> QED
    BY <1>5, <1>6, <2>1, SameSequence
<1> QED
  BY <1>7 DEF before, after

\* Such a token is one qualifier, unless the value is empty.
LEMMA KeyLowered ==
    ASSUME NEW letter \in KeyLetters
    PROVE  ToAsciiLowercase(<<letter>>) = <<letter>>
<1>1. letter # "A"
  BY DEF KeyLetters
<1>2. [i \in {1} |-> IF <<letter>>[i] = "A" THEN "a" ELSE <<letter>>[i]] = <<letter>>
  BY <1>1
<1> QED
  BY <1>2 DEF ToAsciiLowercase

\* What the key of a link and its value have to be.
Nameable(letter, text) ==
    text # <<>> /\ (<<letter>> = StateKey => ToAsciiLowercase(text) \in ReportStates)

LEMMA KeyValid ==
    ASSUME NEW letter \in KeyLetters, NEW text
    PROVE  ValidateQualifier(<<letter>>, text) <=> Nameable(letter, text)
<1>1. <<letter>> # <<>> /\ Len(<<letter>>) = 1 /\ DOMAIN <<letter>> = {1} /\ <<letter>>[1] = letter
  OBVIOUS
<1>2. 1 <= MaxKeyBytes /\ letter \in {"a", "A", "s"}
  BY SearchAssumption DEF KeyLetters
<1> QED
  BY <1>1, <1>2, KeyLowered DEF ValidateQualifier, Nameable

LEMMA LinkTokenParsed ==
    ASSUME NEW letter \in KeyLetters, NEW text \in Seq(Characters)
    PROVE  AddToken(EmptySearch, LinkToken(letter, text)) =
              IF ~ValidateQualifier(<<letter>>, text)
              THEN [valid |-> FALSE, terms |-> <<>>, qualifiers |-> <<>>]
              ELSE [valid |-> TRUE, terms |-> <<>>, qualifiers |-> <<[key |-> <<letter>>, value |-> text]>>]
<1> DEFINE token == LinkToken(letter, text)
<1>1. /\ token \in Seq(Characters) /\ Len(token) = 2 + Len(text) /\ token[1] = letter /\ token[2] = ":"
      /\ \A i \in 1 .. Len(text) : token[i + 2] = text[i]
  BY LinkTokenIs
<1> HIDE DEF token
<1>2. 2 \in ColonAt(token) /\ 1 \notin ColonAt(token)
  BY <1>1 DEF ColonAt, KeyLetters
<1>3. FirstColon(token) = 2
  <2>1. /\ FirstColon(token) \in 1 .. Len(token) /\ token[FirstColon(token)] = ":"
        /\ \A j \in ColonAt(token) : FirstColon(token) <= j
    BY <1>1, <1>2, FirstColonIs
  <2> QED
    BY <1>1, <1>2, <2>1 DEF ColonAt
<1>4. SplitAtColon(token).key = SubSeq(token, 1, 1) /\ SplitAtColon(token).value = SubSeq(token, 3, Len(token))
  <2>1. 2 - 1 = 1 /\ 2 + 1 = 3
    OBVIOUS
  <2> QED
    BY <1>1, <1>2, <1>3, <2>1, SplitIs
<1>5. SubSeq(token, 1, 1) = <<letter>>
  <2> DEFINE first == SubSeq(token, 1, 1)
             single == <<letter>>
  <2>1. first \in Seq(Characters) /\ Len(first) = 1 /\ first[1] = letter
    BY <1>1, SubSeqIs
  <2>2. letter \in Characters
    BY TheCharacters
  <2>3. single \in Seq(Characters) /\ Len(single) = 1 /\ single[1] = letter
    BY <2>2
  <2> HIDE DEF first, single
  <2>4. \A i \in 1 .. Len(first) : first[i] = single[i]
    BY <2>1, <2>3
  <2>5. first = single
    BY <2>1, <2>3, <2>4, SameSequence
  <2> QED
    BY <2>5 DEF first, single
<1>6. SubSeq(token, 3, Len(token)) = text
  <2> DEFINE rest == SubSeq(token, 3, Len(token))
  <2>1. /\ rest \in Seq(Characters) /\ Len(rest) = Len(text)
        /\ \A i \in 1 .. Len(text) : rest[i] = token[3 + i - 1]
    BY <1>1, SubSeqIs
  <2>2. \A i \in 1 .. Len(text) : 3 + i - 1 = i + 2
    OBVIOUS
  <2> HIDE DEF rest
  <2>3. \A i \in 1 .. Len(text) : rest[i] = text[i]
    BY <1>1, <2>1, <2>2
  <2>4. rest = text
    BY <2>1, <2>3, SameSequence
  <2> QED
    BY <2>4 DEF rest
<1>7. ToAsciiLowercase(<<letter>>) = <<letter>>
  BY KeyLowered
<1>9. ColonAt(token) # {}
  BY <1>2
<1>10. AddToken(EmptySearch, token) =
          IF ~ValidateQualifier(<<letter>>, text) THEN [EmptySearch EXCEPT !.valid = FALSE]
          ELSE [EmptySearch EXCEPT !.qualifiers = Append(EmptySearch.qualifiers, [key |-> <<letter>>, value |-> text])]
  BY <1>4, <1>5, <1>6, <1>7, <1>9 DEF AddToken, EmptySearch
<1>11. EmptySearch.qualifiers = <<>> /\ Append(<<>>, [key |-> <<letter>>, value |-> text]) = <<[key |-> <<letter>>, value |-> text]>>
  BY DEF EmptySearch
<1> QED
  BY <1>10, <1>11 DEF token, EmptySearch

Begins(s, t) == Len(s) <= Len(t) /\ \A i \in 1 .. Len(s) : t[i] = s[i]

LEMMA BeginsConcat ==
    ASSUME NEW S, NEW s \in Seq(S), NEW t \in Seq(S)
    PROVE  s \o t \in Seq(S) /\ Begins(s, s \o t)
<1>1. /\ s \o t \in Seq(S) /\ Len(s \o t) = Len(s) + Len(t)
      /\ \A i \in 1 .. Len(s) : (s \o t)[i] = s[i]
  BY ConcatIs
<1>2. Len(s) \in Nat /\ Len(t) \in Nat
  OBVIOUS
<1> QED
  BY <1>1, <1>2 DEF Begins

LEMMA BeginsTransitive ==
    ASSUME NEW S, NEW s \in Seq(S), NEW t \in Seq(S), NEW u \in Seq(S), Begins(s, t), Begins(t, u)
    PROVE  Begins(s, u)
<1>1. Len(s) \in Nat /\ Len(t) \in Nat /\ Len(u) \in Nat
  OBVIOUS
<1> QED
  BY <1>1 DEF Begins

\* The values of the loop of escaping, each of which begins the last.
Escaping(e, text) ==
    /\ e \in [0 .. Len(text) -> Seq(Characters)] /\ e[0] = <<>>
    /\ \A n \in 1 .. Len(text) : e[n] = EscapeCharacter(e[n - 1], text[n])

Pushed(c) == IF c \in {"quote", "backslash"} THEN <<"backslash", c>> ELSE <<c>>

LEMMA EscapingStep ==
    ASSUME NEW text \in Seq(Characters), NEW e, Escaping(e, text), NEW k \in 0 .. Len(text) - 1
    PROVE  /\ text[k + 1] \in Characters /\ Pushed(text[k + 1]) \in Seq(Characters)
           /\ e[k] \in Seq(Characters) /\ e[k + 1] = e[k] \o Pushed(text[k + 1])
<1>1. k + 1 \in 1 .. Len(text) /\ (k + 1) - 1 = k /\ k \in 0 .. Len(text)
  OBVIOUS
<1>2. text[k + 1] \in Characters /\ "backslash" \in Characters
  BY <1>1, TheCharacters
<1>3. \A c \in Characters : <<c>> \in Seq(Characters) /\ <<"backslash", c>> \in Seq(Characters)
  BY <1>2
<1> QED
  BY <1>1, <1>2, <1>3 DEF Escaping, EscapeCharacter, Pushed

LEMMA EscapingBegins ==
    ASSUME NEW text \in Seq(Characters), NEW e, Escaping(e, text)
    PROVE  \A k \in 0 .. Len(text) : Begins(e[k], e[Len(text)])
<1> DEFINE N == Len(text)
           P == {j \in 0 .. N : Begins(e[N - j], e[N])}
<1>1. N \in Nat /\ \A k \in 0 .. N : e[k] \in Seq(Characters)
  <2>1. e \in [0 .. N -> Seq(Characters)]
    BY DEF Escaping
  <2> QED
    BY <2>1
<1>2. 0 \in P
  <2>1. N - 0 = N /\ N \in 0 .. N
    BY <1>1
  <2> QED
    BY <1>1, <2>1 DEF Begins
<1>3. ASSUME NEW j \in 0 .. N - 1, j \in P PROVE j + 1 \in P
  <2> DEFINE k == N - (j + 1)
  <2>1. k \in 0 .. N - 1 /\ k + 1 = N - j /\ k \in 0 .. N /\ k + 1 \in 0 .. N /\ N \in 0 .. N /\ j + 1 \in 0 .. N
    BY <1>1
  <2> HIDE DEF k, N
  <2>2. Pushed(text[k + 1]) \in Seq(Characters) /\ e[k + 1] = e[k] \o Pushed(text[k + 1])
    BY <2>1, EscapingStep DEF N
  <2>3. Begins(e[k], e[k + 1])
    BY <1>1, <2>1, <2>2, BeginsConcat
  <2>4. Begins(e[k + 1], e[N])
    BY <1>3, <2>1
  <2>5. Begins(e[k], e[N])
    BY <1>1, <2>1, <2>3, <2>4, BeginsTransitive
  <2> QED
    BY <2>1, <2>5 DEF k
<1>4. \A j \in 0 .. N : j \in P
  <2> HIDE DEF P, N
  <2> QED
    BY <1>1, <1>2, <1>3, BoundedInduction
<1>5. ASSUME NEW k \in 0 .. N PROVE Begins(e[k], e[N])
  <2>1. N - k \in 0 .. N /\ N - (N - k) = k
    BY <1>1
  <2>2. N - k \in P
    BY <1>4, <2>1
  <2> QED
    BY <2>1, <2>2
<1> QED
  BY <1>5

\* A tokenizer that has read no token yet, and what of one it has read.
Reading(token, quoted) == [tokens |-> <<>>, token |-> token, quoted |-> quoted, escaped |-> FALSE]

\* The values of the loop of tokenize.
Tokenizing(f, input) ==
    /\ f \in [0 .. Len(input) -> Tokenizers] /\ f[0] = NoCharacters
    /\ \A n \in 1 .. Len(input) : f[n] = NextCharacter(f[n - 1], input[n])

LEMMA ReadStep ==
    ASSUME NEW token, NEW quoted \in BOOLEAN, NEW c
    PROVE  LET next == NextCharacter(Reading(token, quoted), c) IN
           /\ c = "quote" => next = Reading(token, ~quoted)
           /\ (c = "backslash" /\ quoted) =>
                 next = [tokens |-> <<>>, token |-> token, quoted |-> TRUE, escaped |-> TRUE]
           /\ (c \notin {"quote", "backslash"} /\ (quoted \/ c \notin Whitespace)) =>
                 next = Reading(Append(token, c), quoted)
  BY DEF NextCharacter, Reading, Whitespace

LEMMA PlainStep ==
    ASSUME NEW token, NEW quoted \in BOOLEAN, NEW c, c \notin {"quote", "backslash"},
           quoted \/ c \notin Whitespace
    PROVE  NextCharacter(Reading(token, quoted), c) = Reading(Append(token, c), quoted)
  BY ReadStep

LEMMA EscapedStep ==
    ASSUME NEW token, NEW c
    PROVE  NextCharacter([tokens |-> <<>>, token |-> token, quoted |-> TRUE, escaped |-> TRUE], c)
              = Reading(Append(token, c), TRUE)
  BY DEF NextCharacter, Reading

\* A link begins with the key and a colon.
LEMMA KeyRead ==
    ASSUME NEW letter \in KeyLetters, NEW input \in Seq(Characters), NEW f, Tokenizing(f, input), Len(input) >= 2,
           input[1] = letter, input[2] = ":"
    PROVE  f[2] = Reading(LinkToken(letter, <<>>), FALSE)
<1>1. f[1] = NextCharacter(f[0], letter) /\ f[2] = NextCharacter(f[1], ":")
  <2>1. 1 \in 1 .. Len(input) /\ 2 \in 1 .. Len(input) /\ 1 - 1 = 0 /\ 2 - 1 = 1
    OBVIOUS
  <2> QED
    BY <2>1 DEF Tokenizing
<1>2. f[0] = Reading(<<>>, FALSE)
  BY DEF Tokenizing, NoCharacters, Reading
<1>0. /\ FALSE \in BOOLEAN /\ \A c \in {letter, ":"} : c \notin {"quote", "backslash"} /\ c \notin Whitespace
      /\ letter \in {letter, ":"} /\ ":" \in {letter, ":"}
  BY DEF Whitespace, KeyLetters
<1>3. f[1] = Reading(Append(<<>>, letter), FALSE)
  <2> DEFINE token == <<>>
  <2>1. f[0] = Reading(token, FALSE)
    BY <1>2
  <2> HIDE DEF token
  <2>2. f[1] = Reading(Append(token, letter), FALSE)
    BY ONLY <1>0, <1>1, <2>1, PlainStep
  <2> QED
    BY <2>2 DEF token
<1>4. f[2] = Reading(Append(Append(<<>>, letter), ":"), FALSE)
  <2> DEFINE token == Append(<<>>, letter)
  <2>1. f[1] = Reading(token, FALSE)
    BY <1>3
  <2> HIDE DEF token
  <2>2. f[2] = Reading(Append(token, ":"), FALSE)
    BY ONLY <1>0, <1>1, <2>1, PlainStep
  <2> QED
    BY <2>2 DEF token
<1>5. Append(Append(<<>>, letter), ":") = LinkToken(letter, <<>>)
  <2>1. /\ LinkToken(letter, <<>>) \in Seq(Characters) /\ Len(LinkToken(letter, <<>>)) = 2 + Len(<<>>)
        /\ LinkToken(letter, <<>>)[1] = letter /\ LinkToken(letter, <<>>)[2] = ":"
    <3>1. <<>> \in Seq(Characters)
      OBVIOUS
    <3> QED
      BY <3>1, LinkTokenIs
  <2> DEFINE one == Append(Append(<<>>, letter), ":")
             other == LinkToken(letter, <<>>)
  <2>2. Len(<<>>) = 0
    OBVIOUS
  <2>3. one \in Seq(Characters) /\ Len(one) = 2 /\ one[1] = letter /\ one[2] = ":"
    BY TheCharacters
  <2>4. other \in Seq(Characters) /\ Len(other) = 2 /\ other[1] = letter /\ other[2] = ":"
    BY <2>1, <2>2
  <2> HIDE DEF one, other
  <2>5. \A i \in 1 .. Len(one) : one[i] = other[i]
    BY <2>3, <2>4
  <2>6. one = other
    BY <2>3, <2>4, <2>5, SameSequence
  <2> QED
    BY <2>6 DEF one, other
<1> QED
  BY <1>4, <1>5

LEMMA TokenizingStep ==
    ASSUME NEW input \in Seq(Characters), NEW f, Tokenizing(f, input), NEW n \in 0 .. Len(input) - 1
    PROVE  f[n + 1] = NextCharacter(f[n], input[n + 1])
<1>1. n + 1 \in 1 .. Len(input) /\ (n + 1) - 1 = n
  OBVIOUS
<1> QED
  BY <1>1 DEF Tokenizing

LEMMA NoneAndAll ==
    ASSUME NEW S, NEW s \in Seq(S)
    PROVE  SubSeq(s, 1, 0) = <<>> /\ SubSeq(s, 1, Len(s)) = s
  OBVIOUS

\* The parts of a link in quotes.
QuotedLink(letter, input, escaped) ==
    /\ input \in Seq(Characters) /\ Len(input) = 4 + Len(escaped)
    /\ input[1] = letter /\ input[2] = ":" /\ input[3] = "quote"
    /\ \A i \in 1 .. Len(escaped) : input[3 + i] = escaped[i]
    /\ input[4 + Len(escaped)] = "quote"

\* A character of the value, escaped in a link in quotes, is read as itself.
LEMMA QuotedCharacterRead ==
    ASSUME NEW letter \in KeyLetters, NEW text \in Seq(Characters), NEW e, Escaping(e, text), NEW input,
           QuotedLink(letter, input, e[Len(text)]), NEW f, Tokenizing(f, input), NEW k \in 0 .. Len(text) - 1,
           f[3 + Len(e[k])] = Reading(LinkToken(letter, SubSeq(text, 1, k)), TRUE)
    PROVE  f[3 + Len(e[k + 1])] = Reading(LinkToken(letter, SubSeq(text, 1, k + 1)), TRUE)
<1> DEFINE c == text[k + 1]
           l == Len(e[k])
           L == Len(e[Len(text)])
           token == LinkToken(letter, SubSeq(text, 1, k))
<1>1. /\ c \in Characters /\ Pushed(c) \in Seq(Characters)
      /\ e[k] \in Seq(Characters) /\ e[k + 1] = e[k] \o Pushed(c)
  BY EscapingStep
<1>2. k + 1 \in 0 .. Len(text) /\ Len(text) \in 0 .. Len(text)
  OBVIOUS
<1>3. Begins(e[k + 1], e[Len(text)])
  BY <1>2, EscapingBegins
<1>4. e[k + 1] \in Seq(Characters) /\ e[Len(text)] \in Seq(Characters)
  BY <1>2 DEF Escaping
<1>5. /\ Len(e[k + 1]) = l + Len(Pushed(c))
      /\ \A i \in 1 .. Len(Pushed(c)) : e[k + 1][l + i] = Pushed(c)[i]
  <2> DEFINE pushed == Pushed(c)
  <2>1. pushed \in Seq(Characters) /\ e[k + 1] = e[k] \o pushed
    BY <1>1
  <2> HIDE DEF pushed
  <2>2. /\ Len(e[k] \o pushed) = Len(e[k]) + Len(pushed)
        /\ \A i \in 1 .. Len(pushed) : (e[k] \o pushed)[Len(e[k]) + i] = pushed[i]
    BY <1>1, <2>1, ConcatIs
  <2> QED
    BY <2>1, <2>2 DEF pushed
<1>6. l \in Nat /\ L \in Nat /\ Len(e[k + 1]) \in Nat /\ Len(e[k + 1]) <= L
  <2>0. e[k] \in Seq(Characters)
    BY <1>1
  <2>1. Len(e[k]) \in Nat /\ Len(e[k + 1]) \in Nat /\ Len(e[Len(text)]) \in Nat
    BY ONLY <2>0, <1>4, LengthIs
  <2> QED
    BY <1>3, <2>1 DEF Begins
<1>7. Append(token, c) = LinkToken(letter, SubSeq(text, 1, k + 1))
  BY LinkTokenGrows
<1> HIDE DEF token, c, l, L
<1>8. ASSUME NEW i \in 1 .. Len(Pushed(c)), Len(Pushed(c)) \in Nat
      PROVE  3 + l + i - 1 \in 0 .. Len(input) - 1 /\ input[3 + l + i] = Pushed(c)[i]
  <2>1. l + i \in 1 .. Len(e[k + 1]) /\ l + i \in 1 .. L
    BY <1>5, <1>6, <1>8
  <2>2. e[Len(text)][l + i] = Pushed(c)[i]
    BY <1>3, <1>5, <1>8, <2>1 DEF Begins
  <2>3. input[3 + (l + i)] = e[Len(text)][l + i] /\ Len(input) = 4 + L
    BY <2>1 DEF QuotedLink, L
  <2>4. 3 + (l + i) = 3 + l + i
    BY <1>6
  <2> QED
    BY <1>6, <2>1, <2>2, <2>3, <2>4
<1>9. f[3 + l] = Reading(token, TRUE) /\ input \in Seq(Characters)
  BY DEF token, l, QuotedLink
<1>10. CASE c \in {"quote", "backslash"}
  <2>1. Len(Pushed(c)) = 2 /\ Pushed(c)[1] = "backslash" /\ Pushed(c)[2] = c
    BY <1>10 DEF Pushed
  <2>2. /\ 3 + l \in 0 .. Len(input) - 1 /\ input[3 + l + 1] = "backslash"
        /\ 3 + l + 1 \in 0 .. Len(input) - 1 /\ input[3 + l + 2] = c
    <3>1. 1 \in 1 .. 2 /\ 2 \in 1 .. 2 /\ 3 + l + 1 - 1 = 3 + l /\ 3 + l + 2 - 1 = 3 + l + 1
      BY <1>6
    <3> QED
      BY <1>8, <2>1, <3>1
  <2>3. f[3 + l + 1] = NextCharacter(f[3 + l], "backslash")
    BY <1>9, <2>2, TokenizingStep
  <2>4. f[3 + l + 1] = [tokens |-> <<>>, token |-> token, quoted |-> TRUE, escaped |-> TRUE]
    BY <1>9, <2>3, ReadStep
  <2>5. f[3 + l + 1 + 1] = NextCharacter(f[3 + l + 1], input[3 + l + 1 + 1])
    BY <1>9, <2>2, TokenizingStep
  <2>6. 3 + l + 1 + 1 = 3 + l + 2 /\ 3 + Len(e[k + 1]) = 3 + l + 2
    BY <1>5, <1>6, <2>1
  <2>7. f[3 + l + 2] = NextCharacter(f[3 + l + 1], c)
    BY <2>2, <2>5, <2>6
  <2>8. f[3 + l + 2] = Reading(Append(token, c), TRUE)
    BY <2>4, <2>7, EscapedStep
  <2> QED
    BY <1>7, <2>6, <2>8
<1>11. CASE c \notin {"quote", "backslash"}
  <2>1. Len(Pushed(c)) = 1 /\ Pushed(c)[1] = c
    BY <1>11 DEF Pushed
  <2>2. 3 + l \in 0 .. Len(input) - 1 /\ input[3 + l + 1] = c
    <3>1. 1 \in 1 .. 1 /\ 3 + l + 1 - 1 = 3 + l
      BY <1>6
    <3> QED
      BY <1>8, <2>1, <3>1
  <2>3. f[3 + l + 1] = NextCharacter(f[3 + l], c)
    BY <1>9, <2>2, TokenizingStep
  <2>4. f[3 + l + 1] = Reading(Append(token, c), TRUE)
    <3>1. TRUE \in BOOLEAN
      OBVIOUS
    <3> QED
      BY ONLY <1>9, <1>11, <2>3, <3>1, PlainStep
  <2>5. 3 + Len(e[k + 1]) = 3 + l + 1
    BY <1>5, <1>6, <2>1
  <2> QED
    BY <1>7, <2>4, <2>5
<1> QED
  BY <1>10, <1>11

LEMMA QuotedLinkRead ==
    ASSUME NEW letter \in KeyLetters, NEW text \in Seq(Characters), NEW e, Escaping(e, text), NEW input,
           QuotedLink(letter, input, e[Len(text)]), NEW f, Tokenizing(f, input)
    PROVE  f[Len(input)] = Reading(LinkToken(letter, text), FALSE)
<1> DEFINE N == Len(text)
           L == Len(e[N])
           P == {k \in 0 .. N : f[3 + Len(e[k])] = Reading(LinkToken(letter, SubSeq(text, 1, k)), TRUE)}
<1>1. N \in Nat /\ L \in Nat /\ Len(input) = 4 + L /\ input \in Seq(Characters) /\ e[0] = <<>>
  <2>1. e \in [0 .. N -> Seq(Characters)]
    BY DEF Escaping
  <2>2. N \in 0 .. N
    OBVIOUS
  <2>3. e[N] \in Seq(Characters)
    BY <2>1, <2>2
  <2> QED
    BY <2>3 DEF QuotedLink, Escaping
<1>2. SubSeq(text, 1, 0) = <<>> /\ SubSeq(text, 1, N) = text
  BY NoneAndAll
<1>3. f[3] = Reading(LinkToken(letter, <<>>), TRUE)
  <2> HIDE DEF L
  <2>0. Len(input) >= 2 /\ input[1] = letter /\ input[2] = ":" /\ input[3] = "quote"
    BY <1>1 DEF QuotedLink
  <2>1. f[2] = Reading(LinkToken(letter, <<>>), FALSE)
    BY <1>1, <2>0, KeyRead
  <2>2. f[2 + 1] = NextCharacter(f[2], input[2 + 1])
    <3>1. 2 \in 0 .. Len(input) - 1
      BY <1>1
    <3> QED
      BY <1>1, <3>1, TokenizingStep
  <2>3. 2 + 1 = 3
    OBVIOUS
  <2>4. f[3] = NextCharacter(Reading(LinkToken(letter, <<>>), FALSE), "quote")
    BY <2>0, <2>1, <2>2, <2>3
  <2> QED
    BY <2>4, ReadStep
<1>4. 0 \in P
  <2>1. 3 + Len(<<>>) = 3
    OBVIOUS
  <2>2. f[3 + Len(e[0])] = Reading(LinkToken(letter, SubSeq(text, 1, 0)), TRUE)
    BY <1>1, <1>2, <1>3, <2>1
  <2>3. 0 \in 0 .. N
    BY <1>1
  <2> QED
    BY <2>2, <2>3
<1>5. ASSUME NEW k \in 0 .. N - 1, k \in P PROVE k + 1 \in P
  <2>0. f[3 + Len(e[k])] = Reading(LinkToken(letter, SubSeq(text, 1, k)), TRUE)
    BY <1>5
  <2>1. f[3 + Len(e[k + 1])] = Reading(LinkToken(letter, SubSeq(text, 1, k + 1)), TRUE)
    <3>1. k \in 0 .. Len(text) - 1
      BY <1>5
    <3>2. /\ letter \in KeyLetters /\ text \in Seq(Characters) /\ Escaping(e, text)
          /\ QuotedLink(letter, input, e[Len(text)]) /\ Tokenizing(f, input)
      OBVIOUS
    <3> QED
      BY ONLY <2>0, <3>1, <3>2, QuotedCharacterRead, ZenonT(90)
  <2>2. k + 1 \in 0 .. N
    BY <1>1
  <2> QED
    BY <2>1, <2>2
<1>6. N \in P
  <2> HIDE DEF P, N
  <2>1. \A k \in 0 .. N : k \in P
    BY <1>1, <1>4, <1>5, BoundedInduction
  <2> QED
    BY <1>1, <2>1
<1>7. f[3 + L] = Reading(LinkToken(letter, text), TRUE)
  BY <1>2, <1>6
<1> HIDE DEF L
<1>8. f[3 + L + 1] = NextCharacter(f[3 + L], input[3 + L + 1])
  <2>1. 3 + L \in 0 .. Len(input) - 1
    BY <1>1
  <2> QED
    BY <1>1, <2>1, TokenizingStep
<1>9. 3 + L + 1 = 4 + L /\ input[4 + L] = "quote"
  BY <1>1 DEF QuotedLink, L
<1>10. f[4 + L] = NextCharacter(Reading(LinkToken(letter, text), TRUE), "quote")
  BY <1>7, <1>8, <1>9
<1> QED
  BY <1>1, <1>10, ReadStep

\* The parts of a link without quotes.
PlainLink(letter, input, text) ==
    /\ input \in Seq(Characters) /\ Len(input) = 2 + Len(text)
    /\ input[1] = letter /\ input[2] = ":" /\ \A i \in 1 .. Len(text) : input[2 + i] = text[i]

Unquoted(text) ==
    text \in Seq(Characters) /\ \A i \in 1 .. Len(text) : text[i] \notin {" ", "quote", "backslash"}

\* Up to white space, a link without quotes is read as it is written.
LEMMA PlainLinkRead ==
    ASSUME NEW letter \in KeyLetters, NEW text, Unquoted(text), NEW input, PlainLink(letter, input, text), NEW f, Tokenizing(f, input),
           NEW K \in 0 .. Len(text), \A i \in 1 .. K : text[i] # "nbsp"
    PROVE  f[2 + K] = Reading(LinkToken(letter, SubSeq(text, 1, K)), FALSE)
<1> DEFINE P == {k \in 0 .. K : f[2 + k] = Reading(LinkToken(letter, SubSeq(text, 1, k)), FALSE)}
<1>1. text \in Seq(Characters) /\ input \in Seq(Characters) /\ Len(input) = 2 + Len(text)
  BY DEF Unquoted, PlainLink
<1>2. Len(text) \in Nat /\ K \in Nat /\ K <= Len(text)
  BY <1>1
<1>3. 0 \in P
  <2>1. Len(input) >= 2
    BY <1>1, <1>2
  <2>2. f[2] = Reading(LinkToken(letter, <<>>), FALSE)
    BY <1>1, <2>1, KeyRead DEF PlainLink
  <2>3. SubSeq(text, 1, 0) = <<>>
    BY <1>1, NoneAndAll
  <2>4. 2 + 0 = 2 /\ 0 \in 0 .. K
    BY <1>2
  <2> QED
    BY <2>2, <2>3, <2>4
<1>4. ASSUME NEW k \in 0 .. K - 1, k \in P PROVE k + 1 \in P
  <2> DEFINE c == text[k + 1]
             token == LinkToken(letter, SubSeq(text, 1, k))
  <2>1. /\ k \in 0 .. Len(text) - 1 /\ k + 1 \in 1 .. Len(text) /\ k + 1 \in 1 .. K /\ k + 1 \in 0 .. K
        /\ 2 + k \in 0 .. Len(input) - 1 /\ 2 + k + 1 = 2 + (k + 1)
    BY <1>1, <1>2
  <2>2. Append(token, c) = LinkToken(letter, SubSeq(text, 1, k + 1))
    BY <1>1, <2>1, LinkTokenGrows
  <2>3. c \notin {"quote", "backslash"} /\ c \notin Whitespace
    BY <2>1 DEF Unquoted, Whitespace
  <2>4. f[2 + k + 1] = NextCharacter(f[2 + k], input[2 + k + 1])
    BY <1>1, <2>1, TokenizingStep
  <2>5. input[2 + (k + 1)] = c
    BY <2>1 DEF PlainLink
  <2>6. f[2 + k] = Reading(token, FALSE)
    BY <1>4
  <2> HIDE DEF token, c
  <2>7. f[2 + (k + 1)] = NextCharacter(Reading(token, FALSE), c)
    BY <2>1, <2>4, <2>5, <2>6
  <2>8. f[2 + (k + 1)] = Reading(Append(token, c), FALSE)
    BY <2>3, <2>7, ReadStep
  <2> QED
    BY <2>1, <2>2, <2>8
<1>5. \A k \in 0 .. K : k \in P
  <2> HIDE DEF P
  <2> QED
    BY <1>2, <1>3, <1>4, BoundedInduction
<1>6. K \in P
  <2> HIDE DEF P
  <2> QED
    BY <1>2, <1>5
<1> QED
  BY <1>6

\* The first token stays the first.
FirstRead(s, token) == s.tokens # <<>> /\ s.tokens[1] = token /\ ~s.quoted /\ ~s.escaped

LEMMA FirstStaysRead ==
    ASSUME NEW s \in Tokenizers, NEW token, FirstRead(s, token), NEW c \in Characters,
           c \notin {"quote", "backslash"}
    PROVE  FirstRead(NextCharacter(s, c), token)
<1>1. s.tokens \in Seq(Seq(Characters)) /\ s.token \in Seq(Characters)
  BY DEF Tokenizers
<1>2. \/ NextCharacter(s, c) = [s EXCEPT !.token = Append(s.token, c)]
      \/ NextCharacter(s, c) = [s EXCEPT !.tokens = s.tokens, !.token = <<>>]
      \/ NextCharacter(s, c) = [s EXCEPT !.tokens = Append(s.tokens, s.token), !.token = <<>>]
  BY DEF NextCharacter, FirstRead, Tokenizers
<1>3. Append(s.tokens, s.token) # <<>> /\ Append(s.tokens, s.token)[1] = s.tokens[1]
  <2>1. s.tokens # <<>>
    BY DEF FirstRead
  <2> QED
    BY <1>1, <2>1, FirstOfAppend
<1> QED
  BY <1>2, <1>3 DEF FirstRead, Tokenizers

\* White space that is not ASCII splits such a link.
LEMMA PlainLinkSplit ==
    ASSUME NEW letter \in KeyLetters, NEW text, Unquoted(text), NEW input, PlainLink(letter, input, text), NEW f, Tokenizing(f, input),
           NEW p \in 1 .. Len(text), text[p] = "nbsp", \A i \in 1 .. p - 1 : text[i] # "nbsp"
    PROVE  FirstRead(f[Len(input)], LinkToken(letter, SubSeq(text, 1, p - 1)))
<1> DEFINE token == LinkToken(letter, SubSeq(text, 1, p - 1))
           M == Len(text) - p
           P == {j \in 0 .. M : FirstRead(f[2 + p + j], token)}
<1>1. text \in Seq(Characters) /\ input \in Seq(Characters) /\ Len(input) = 2 + Len(text)
  BY DEF Unquoted, PlainLink
<1>2. Len(text) \in Nat /\ M \in Nat /\ p \in Nat /\ p - 1 \in 0 .. Len(text)
  BY <1>1
<1>3. token \in Seq(Characters) /\ token # <<>>
  <2>1. SubSeq(text, 1, p - 1) \in Seq(Characters)
    BY <1>1, <1>2, SubSeqIs
  <2> DEFINE named == SubSeq(text, 1, p - 1)
  <2> HIDE DEF named
  <2>a. named \in Seq(Characters)
    BY <2>1 DEF named
  <2>b. Len(named) \in Nat
    BY ONLY <2>a, LengthIs
  <2>c. LinkToken(letter, named) \in Seq(Characters) /\ Len(LinkToken(letter, named)) = 2 + Len(named)
    BY <2>a, LinkTokenIs
  <2>2. token \in Seq(Characters) /\ Len(token) = 2 + Len(named) /\ Len(named) \in Nat
    BY <2>b, <2>c DEF named
  <2> HIDE DEF token
  <2>3. Len(token) # 0
    BY <2>2
  <2> QED
    BY <2>2, <2>3
<1>4. f[2 + (p - 1)] = Reading(token, FALSE)
  BY <1>2, PlainLinkRead
<1>5. 0 \in P
  <2>1. 2 + (p - 1) \in 0 .. Len(input) - 1 /\ 2 + (p - 1) + 1 = 2 + p /\ 2 + p + 0 = 2 + p /\ 0 \in 0 .. M
    BY <1>1, <1>2
  <2>2. f[2 + (p - 1) + 1] = NextCharacter(f[2 + (p - 1)], input[2 + (p - 1) + 1])
    BY <1>1, <2>1, TokenizingStep
  <2>3. input[2 + p] = "nbsp"
    BY DEF PlainLink
  <2> HIDE DEF token
  <2>4. f[2 + p] = NextCharacter(Reading(token, FALSE), "nbsp")
    BY <1>4, <2>1, <2>2, <2>3
  <2>5. f[2 + p] = [tokens |-> Append(<<>>, token), token |-> <<>>, quoted |-> FALSE, escaped |-> FALSE]
    BY <1>3, <2>4 DEF NextCharacter, Reading, Whitespace
  <2>6. Append(<<>>, token) # <<>> /\ Append(<<>>, token)[1] = token
    OBVIOUS
  <2>7. FirstRead(f[2 + p], token)
    BY <2>5, <2>6 DEF FirstRead
  <2> QED
    BY <2>1, <2>7
<1>6. ASSUME NEW j \in 0 .. M - 1, j \in P PROVE j + 1 \in P
  <2> DEFINE n == 2 + p + j
  <2>1. /\ n \in 0 .. Len(input) - 1 /\ n + 1 = 2 + (p + j + 1) /\ n + 1 = 2 + p + (j + 1) /\ n \in 0 .. Len(input)
        /\ p + j + 1 \in 1 .. Len(text) /\ j + 1 \in 0 .. M
    BY <1>1, <1>2
  <2>2. f[n + 1] = NextCharacter(f[n], input[n + 1])
    BY <1>1, <2>1, TokenizingStep
  <2>3. input[n + 1] = text[p + j + 1] /\ text[p + j + 1] \in Characters
        /\ text[p + j + 1] \notin {"quote", "backslash"}
    <3> DEFINE q == p + j + 1
    <3>1. n + 1 = 2 + q /\ q \in 1 .. Len(text)
      BY <2>1
    <3> HIDE DEF q, n
    <3>2. input[2 + q] = text[q]
      BY <3>1 DEF PlainLink
    <3>3. text[q] \in Characters /\ text[q] \notin {"quote", "backslash"}
      <4>1. q \in 1 .. Len(text) /\ text \in Seq(Characters)
        BY <1>1, <3>1
      <4>2. text[q] \in Characters
        BY ONLY <4>1
      <4> QED
        BY <4>1, <4>2 DEF Unquoted
    <3> QED
      BY <3>1, <3>2, <3>3 DEF q
  <2>4. f[n] \in Tokenizers
    BY <2>1 DEF Tokenizing
  <2>5. FirstRead(f[n], token)
    BY <1>6
  <2> HIDE DEF n, token
  <2>6. FirstRead(f[n + 1], token)
    BY <2>2, <2>3, <2>4, <2>5, FirstStaysRead
  <2> QED
    BY <2>1, <2>6
<1>7. \A j \in 0 .. M : j \in P
  <2> HIDE DEF P, M
  <2> QED
    BY <1>2, <1>5, <1>6, BoundedInduction
<1>8. M \in P /\ 2 + p + M = Len(input)
  <2>1. M \in 0 .. M /\ 2 + p + M = Len(input)
    BY <1>1, <1>2
  <2> QED
    BY <1>7, <2>1
<1> QED
  BY <1>8

\* What is found by a search whose first token is that of a link: no value but that of the link.
Parsing(g, tokens) ==
    /\ g \in [0 .. Len(tokens) -> Searches] /\ g[0] = EmptySearch
    /\ \A n \in 1 .. Len(tokens) : g[n] = AddToken(g[n - 1], tokens[n])

FindsFirst(search, text) ==
    ~search.valid \/ (search.qualifiers # <<>> /\ search.qualifiers[1].value = text)

LEMMA FirstStaysFound ==
    ASSUME NEW search \in Searches, NEW text, FindsFirst(search, text), NEW token \in Seq(Characters)
    PROVE  FindsFirst(AddToken(search, token), text)
<1>1. CASE ~search.valid
  BY <1>1 DEF AddToken, FindsFirst
<1>2. CASE search.valid /\ ColonAt(token) = {}
  BY <1>2 DEF AddToken, FindsFirst, Searches
<1>3. CASE search.valid /\ ColonAt(token) # {}
  <2> DEFINE lower == [key |-> ToAsciiLowercase(SplitAtColon(token).key), value |-> SplitAtColon(token).value]
  <2>1. \/ AddToken(search, token) = [search EXCEPT !.valid = FALSE]
        \/ AddToken(search, token) = [search EXCEPT !.qualifiers = Append(search.qualifiers, lower)]
    BY <1>3 DEF AddToken, Searches
  <2>2. SplitAtColon(token) \in Qualifiers
    BY <1>3, SplitIs
  <2>3. lower \in Qualifiers
    BY <2>2, LowercaseIs DEF Qualifiers
  <2> HIDE DEF lower
  <2>4. search.qualifiers \in Seq(Qualifiers) /\ search.qualifiers # <<>>
    BY <1>3 DEF Searches, FindsFirst
  <2>5. Append(search.qualifiers, lower) # <<>> /\ Append(search.qualifiers, lower)[1] = search.qualifiers[1]
    BY <2>3, <2>4, FirstOfAppend
  <2> QED
    BY <1>3, <2>1, <2>5 DEF FindsFirst, Searches
<1> QED
  BY <1>1, <1>2, <1>3 DEF Searches

LEMMA FirstTokenFound ==
    ASSUME NEW letter \in KeyLetters, NEW tokens \in Seq(Seq(Characters)), tokens # <<>>, NEW text \in Seq(Characters),
           tokens[1] = LinkToken(letter, text), NEW g, Parsing(g, tokens)
    PROVE  /\ FindsFirst(g[Len(tokens)], text)
           /\ Len(tokens) = 1 => g[Len(tokens)] = AddToken(EmptySearch, LinkToken(letter, text))
<1> DEFINE M == Len(tokens) - 1
           P == {j \in 0 .. M : FindsFirst(g[j + 1], text)}
<1>1. Len(tokens) \in Nat /\ M \in Nat /\ Len(tokens) = M + 1 /\ 1 \in 1 .. Len(tokens)
  OBVIOUS
<1>2. g[1] = AddToken(EmptySearch, LinkToken(letter, text))
  <2>1. 1 - 1 = 0
    OBVIOUS
  <2> QED
    BY <1>1, <2>1 DEF Parsing
<1>3. FindsFirst(g[1], text)
  <2>1. \/ g[1] = [valid |-> FALSE, terms |-> <<>>, qualifiers |-> <<>>]
        \/ g[1] = [valid |-> TRUE, terms |-> <<>>, qualifiers |-> <<[key |-> <<letter>>, value |-> text]>>]
    BY <1>2, LinkTokenParsed
  <2> QED
    BY <2>1 DEF FindsFirst
<1>4. 0 \in P
  <2>1. 0 + 1 = 1 /\ 0 \in 0 .. M
    BY <1>1
  <2> QED
    BY <1>3, <2>1
<1>5. ASSUME NEW j \in 0 .. M - 1, j \in P PROVE j + 1 \in P
  <2> DEFINE n == j + 1
  <2>1. n \in 0 .. Len(tokens) /\ n + 1 \in 1 .. Len(tokens) /\ (n + 1) - 1 = n /\ n \in 0 .. M
    BY <1>1
  <2>2. FindsFirst(g[n], text)
    BY <1>5
  <2> HIDE DEF n, M, P
  <2>3. g[n] \in Searches /\ g[n + 1] = AddToken(g[n], tokens[n + 1])
    BY <2>1 DEF Parsing
  <2>4. tokens[n + 1] \in Seq(Characters)
    BY <2>1
  <2>5. FindsFirst(g[n + 1], text)
    BY <2>2, <2>3, <2>4, FirstStaysFound
  <2> QED
    BY <2>1, <2>5 DEF n, P
<1>6. \A j \in 0 .. M : j \in P
  <2> HIDE DEF P, M
  <2> QED
    BY <1>1, <1>4, <1>5, BoundedInduction
<1>7. M \in P
  <2> HIDE DEF P
  <2> QED
    BY <1>1, <1>6
<1> QED
  BY <1>1, <1>2, <1>7

\* What the limits on a search leave of it.
WithinLimits(input, tokens) ==
    IF Bytes(input) > MaxSearchBytes \/ Len(tokens) > MaxSearchTerms
    THEN [EmptySearch EXCEPT !.valid = FALSE]
    ELSE FoldLeft(AddToken, EmptySearch, tokens)

\* What a search finds, from the end of the loop of tokenize.
LEMMA SearchFinds ==
    ASSUME NEW input \in Seq(Characters), NEW f, Tokenizing(f, input),
           FoldLeft(NextCharacter, NoCharacters, input) = f[Len(input)],
           ~f[Len(input)].quoted, ~f[Len(input)].escaped
    PROVE  LET end == f[Len(input)] IN
           \E tokens \in Seq(Seq(Characters)) :
              /\ tokens = IF end.token = <<>> THEN end.tokens ELSE Append(end.tokens, end.token)
              /\ Parse(input) = WithinLimits(input, tokens)
<1> DEFINE end == f[Len(input)]
           tokens == IF end.token = <<>> THEN end.tokens ELSE Append(end.tokens, end.token)
<1>1. end \in Tokenizers
  <2>1. Len(input) \in 0 .. Len(input)
    OBVIOUS
  <2> QED
    BY <2>1 DEF Tokenizing
<1> HIDE DEF end
<1>2. tokens \in Seq(Seq(Characters))
  BY <1>1 DEF Tokenizers
<1>3. Tokenize(input) = {tokens}
  BY DEF Tokenize, end
<1> HIDE DEF tokens
<1>4. (CHOOSE t \in {tokens} : TRUE) = tokens
  OBVIOUS
<1>5. Parse(input) = WithinLimits(input, tokens)
  <2> DEFINE chosen == CHOOSE t \in Tokenize(input) : TRUE
  <2>1. Tokenize(input) # {} /\ chosen = tokens
    BY <1>3, <1>4
  <2>2. Parse(input) = IF Bytes(input) > MaxSearchBytes \/ Tokenize(input) = {} \/ Len(chosen) > MaxSearchTerms
                       THEN [EmptySearch EXCEPT !.valid = FALSE]
                       ELSE FoldLeft(AddToken, EmptySearch, chosen)
    BY Zenon DEF Parse
  <2> HIDE DEF chosen
  <2> QED
    BY <2>1, <2>2, Zenon DEF WithinLimits
<1> QED
  BY <1>2, <1>5 DEF tokens, end

LEMMA BytesNatural == ASSUME NEW text \in Seq(Characters) PROVE Bytes(text) \in Nat
<1> DEFINE wide == {i \in DOMAIN text : text[i] = "nbsp"}
<1>1. IsFiniteSet(1 .. Len(text)) /\ wide \subseteq 1 .. Len(text)
  BY FS_Interval
<1>2. IsFiniteSet(wide)
  BY <1>1, FS_Subset
<1>3. Cardinality(wide) \in Nat
  BY <1>2, FS_CardinalityType
<1> QED
  BY <1>3 DEF Bytes

LEMMA EmptyIs == ASSUME NEW S, NEW s \in Seq(S) PROVE s = <<>> <=> Len(s) = 0
  OBVIOUS

IsConcat(u, s, t, S) ==
    /\ u \in Seq(S) /\ Len(u) = Len(s) + Len(t)
    /\ \A i \in 1 .. Len(s) : u[i] = s[i]
    /\ \A i \in 1 .. Len(t) : u[Len(s) + i] = t[i]

LEMMA Concatenated ==
    ASSUME NEW S, NEW s \in Seq(S), NEW t \in Seq(S)
    PROVE  IsConcat(s \o t, s, t, S)
  BY ConcatIs DEF IsConcat

LEMMA QuotedParts ==
    ASSUME NEW letter \in KeyLetters, NEW head \in Seq(Characters), Len(head) = 2, head[1] = letter, head[2] = ":",
           NEW quote \in Seq(Characters), Len(quote) = 1, quote[1] = "quote", NEW escaped \in Seq(Characters)
    PROVE  QuotedLink(letter, head \o (quote \o escaped \o quote), escaped)
<1> DEFINE one == quote \o escaped
           two == one \o quote
           input == head \o two
           L == Len(escaped)
<1>1. L \in Nat
  BY LengthIs
<1>a. IsConcat(quote \o escaped, quote, escaped, Characters)
  BY Concatenated
<1>2. /\ one \in Seq(Characters) /\ Len(one) = Len(quote) + L
      /\ \A i \in 1 .. Len(quote) : one[i] = quote[i]
      /\ \A i \in 1 .. Len(escaped) : one[Len(quote) + i] = escaped[i]
  <2>1. IsConcat(one, quote, escaped, Characters)
    BY <1>a
  <2> HIDE DEF one
  <2> QED
    BY <2>1 DEF IsConcat
<1> HIDE DEF one
<1>b. IsConcat(one \o quote, one, quote, Characters)
  BY <1>2, Concatenated
<1>3. /\ two \in Seq(Characters) /\ Len(two) = Len(one) + Len(quote)
      /\ \A i \in 1 .. Len(one) : two[i] = one[i]
      /\ \A i \in 1 .. Len(quote) : two[Len(one) + i] = quote[i]
  <2>1. IsConcat(two, one, quote, Characters)
    BY <1>b
  <2> HIDE DEF two
  <2> QED
    BY <2>1 DEF IsConcat
<1> HIDE DEF two
<1>c. IsConcat(head \o two, head, two, Characters)
  BY <1>3, Concatenated
<1>4. /\ input \in Seq(Characters) /\ Len(input) = Len(head) + Len(two)
      /\ \A i \in 1 .. Len(head) : input[i] = head[i]
      /\ \A i \in 1 .. Len(two) : input[Len(head) + i] = two[i]
  <2>1. IsConcat(input, head, two, Characters)
    BY <1>c
  <2> HIDE DEF input
  <2> QED
    BY <2>1 DEF IsConcat
<1> HIDE DEF input, L
<1>5. Len(one) = 1 + L /\ Len(two) = 2 + L /\ Len(input) = 4 + L
  BY <1>1, <1>2, <1>3, <1>4
<1>6. input[1] = letter /\ input[2] = ":"
  BY <1>4
<1>7. input[3] = "quote"
  <2>1. 1 \in 1 .. Len(one) /\ 1 \in 1 .. Len(two) /\ 2 + 1 = 3 /\ 1 \in 1 .. Len(quote)
    BY <1>1, <1>5
  <2>2. input[2 + 1] = two[1] /\ two[1] = one[1] /\ one[1] = quote[1]
    BY <1>2, <1>3, <1>4, <2>1
  <2> QED
    BY <2>1, <2>2
<1>8. ASSUME NEW i \in 1 .. L PROVE input[3 + i] = escaped[i]
  <2>1. 1 + i \in 1 .. Len(one) /\ 1 + i \in 1 .. Len(two) /\ 2 + (1 + i) = 3 + i /\ i \in 1 .. Len(escaped)
    BY <1>1, <1>5 DEF L
  <2>2. input[2 + (1 + i)] = two[1 + i] /\ two[1 + i] = one[1 + i] /\ one[1 + i] = escaped[i]
    BY <1>2, <1>3, <1>4, <2>1
  <2> QED
    BY <2>1, <2>2
<1>9. input[4 + L] = "quote"
  <2>1. Len(one) + 1 \in 1 .. Len(two) /\ 1 \in 1 .. Len(quote) /\ 2 + (Len(one) + 1) = 4 + L
    BY <1>1, <1>5
  <2>2. input[2 + (Len(one) + 1)] = two[Len(one) + 1] /\ two[Len(one) + 1] = quote[1]
    BY <1>3, <1>4, <2>1
  <2> QED
    BY <2>1, <2>2
<1>10. QuotedLink(letter, input, escaped)
  BY <1>4, <1>5, <1>6, <1>7, <1>8, <1>9 DEF QuotedLink, L
<1> QED
  BY <1>10 DEF input, two, one

\* What LinkFindsItsValue says of a value.
Found(letter, search, text) ==
    /\ search.valid /\ search.terms = <<>> /\ Len(search.qualifiers) = 1
    /\ search.qualifiers[1].key = <<letter>>
    /\ ToAsciiLowercase(search.qualifiers[1].value) = ToAsciiLowercase(text)

SplitInLink(text) ==
    ~NeedsQuotes(text) /\ \E i \in DOMAIN text : text[i] \in Whitespace \ AsciiWhitespace

\* A link read as one token finds what it names, unless that is empty.
LEMMA OneTokenFound ==
    ASSUME NEW letter \in KeyLetters, NEW text \in Seq(Characters), NEW named \in Seq(Characters),
           ToAsciiLowercase(named) = ToAsciiLowercase(text),
           NEW input \in Seq(Characters), NEW f, Tokenizing(f, input),
           FoldLeft(NextCharacter, NoCharacters, input) = f[Len(input)],
           f[Len(input)] = Reading(LinkToken(letter, named), FALSE)
    PROVE  Found(letter, Parse(input), text) <=> Nameable(letter, text) /\ Bytes(input) <= MaxSearchBytes
<1> DEFINE token == LinkToken(letter, named)
<1>1. token \in Seq(Characters) /\ Len(token) = 2 + Len(named) /\ Len(named) \in Nat
  BY LinkTokenIs, LengthIs
<1>2. token # <<>>
  <2> HIDE DEF token
  <2> QED
    BY <1>1
<1> HIDE DEF token
<1>3. f[Len(input)] = [tokens |-> <<>>, token |-> token, quoted |-> FALSE, escaped |-> FALSE]
  BY DEF Reading, token
<1>4. PICK tokens \in Seq(Seq(Characters)) :
         tokens = Append(<<>>, token) /\ Parse(input) = WithinLimits(input, tokens)
  <2>1. ~f[Len(input)].quoted /\ ~f[Len(input)].escaped
    <3> DEFINE end == f[Len(input)]
    <3>1. end = [tokens |-> <<>>, token |-> token, quoted |-> FALSE, escaped |-> FALSE]
      BY <1>3
    <3> HIDE DEF end
    <3>2. ~end.quoted /\ ~end.escaped
      BY ONLY <3>1
    <3> QED
      BY <3>2 DEF end
  <2>2. PICK tokens \in Seq(Seq(Characters)) :
           /\ tokens = IF f[Len(input)].token = <<>> THEN f[Len(input)].tokens
                       ELSE Append(f[Len(input)].tokens, f[Len(input)].token)
           /\ Parse(input) = WithinLimits(input, tokens)
    BY <2>1, SearchFinds
  <2>3. tokens = Append(<<>>, token)
    BY <1>2, <1>3, <2>2
  <2> QED
    BY <2>2, <2>3
<1>5. tokens # <<>> /\ Len(tokens) = 1 /\ tokens[1] = LinkToken(letter, named)
  BY <1>1, <1>4 DEF token
<1>6. PICK g \in [0 .. Len(tokens) -> Searches] :
         /\ g[0] = EmptySearch /\ g[Len(tokens)] = FoldLeft(AddToken, EmptySearch, tokens)
         /\ \A n \in 1 .. Len(tokens) : g[n] = AddToken(g[n - 1], tokens[n])
  BY ParseLoop
<1>7. Parsing(g, tokens)
  BY <1>6 DEF Parsing
<1>8. g[Len(tokens)] = AddToken(EmptySearch, LinkToken(letter, named))
  BY <1>5, <1>7, FirstTokenFound
<1>9. FoldLeft(AddToken, EmptySearch, tokens) = AddToken(EmptySearch, LinkToken(letter, named))
  BY <1>6, <1>8
<1>10. Nameable(letter, named) <=> Nameable(letter, text)
  <2>1. Len(ToAsciiLowercase(named)) = Len(named) /\ Len(ToAsciiLowercase(text)) = Len(text)
    BY LowercaseIs
  <2>2. Len(named) = Len(text)
    BY <2>1
  <2>3. named = <<>> <=> text = <<>>
    BY <2>2, EmptyIs
  <2> QED
    BY <2>3 DEF Nameable
<1>11. Len(tokens) <= MaxSearchTerms /\ Bytes(input) \in Nat /\ MaxSearchBytes \in Nat
  <2>1. 1 <= MaxSearchTerms /\ MaxSearchBytes \in Nat
    BY SearchAssumption
  <2> QED
    BY <1>5, <2>1, BytesNatural
<1>12. CASE Bytes(input) > MaxSearchBytes
  <2>1. Parse(input) = [EmptySearch EXCEPT !.valid = FALSE]
    BY <1>4, <1>12 DEF WithinLimits
  <2> QED
    BY <1>11, <1>12, <2>1 DEF Found, EmptySearch
<1>13. CASE ~(Bytes(input) > MaxSearchBytes)
  <2>1. Parse(input) = AddToken(EmptySearch, LinkToken(letter, named)) /\ Bytes(input) <= MaxSearchBytes
    <3>1. ~(Len(tokens) > MaxSearchTerms) /\ Bytes(input) <= MaxSearchBytes
      BY <1>5, <1>11, <1>13, SearchAssumption
    <3> QED
      BY <1>4, <1>9, <1>13, <3>1 DEF WithinLimits
  <2>2. CASE ~Nameable(letter, text)
    <3>1. Parse(input) = [valid |-> FALSE, terms |-> <<>>, qualifiers |-> <<>>]
      BY <1>10, <2>1, <2>2, KeyValid, LinkTokenParsed
    <3> QED
      BY <2>2, <3>1 DEF Found
  <2>3. CASE Nameable(letter, text)
    <3>1. Parse(input) = [valid |-> TRUE, terms |-> <<>>, qualifiers |-> <<[key |-> <<letter>>, value |-> named]>>]
      BY <1>10, <2>1, <2>3, KeyValid, LinkTokenParsed
    <3> QED
      BY <2>1, <2>3, <3>1 DEF Found
  <2> QED
    BY <2>2, <2>3
<1> QED
  BY <1>12, <1>13

LEMMA LinkParts ==
    ASSUME NEW letter \in KeyLetters, NEW text \in Seq(Characters)
    PROVE  /\ NeedsQuotes(text) => QuotedLink(letter, FilterExpression(<<letter>>, text), Escape(text))
           /\ ~NeedsQuotes(text) => PlainLink(letter, FilterExpression(<<letter>>, text), ToAsciiLowercase(text))
<1> DEFINE head == <<letter>> \o <<":">>
           quote == <<"quote">>
           input == FilterExpression(<<letter>>, text)
<1>1. head \in Seq(Characters) /\ Len(head) = 2 /\ head[1] = letter /\ head[2] = ":"
  BY TheCharacters
<1>2. quote \in Seq(Characters) /\ Len(quote) = 1 /\ quote[1] = "quote"
  BY TheCharacters
<1>3. ASSUME NeedsQuotes(text) PROVE QuotedLink(letter, input, Escape(text))
  <2> DEFINE escaped == Escape(text)
  <2>1. escaped \in Seq(Characters)
    <3>1. PICK e \in [0 .. Len(text) -> Seq(Characters)] : e[Len(text)] = Escape(text)
      BY EscapeLoop
    <3>2. Len(text) \in 0 .. Len(text)
      OBVIOUS
    <3> QED
      BY <3>1, <3>2
  <2>2. input = head \o (quote \o escaped \o quote)
    BY <1>3 DEF FilterExpression
  <2> HIDE DEF head, quote, input, escaped
  <2>3. QuotedLink(letter, head \o (quote \o escaped \o quote), escaped)
    BY <1>1, <1>2, <2>1, QuotedParts
  <2> QED
    BY <2>2, <2>3 DEF escaped
<1>4. ASSUME ~NeedsQuotes(text) PROVE PlainLink(letter, input, ToAsciiLowercase(text))
  <2> DEFINE lower == ToAsciiLowercase(text)
  <2>1. lower \in Seq(Characters)
    BY LowercaseIs
  <2>2. input = head \o lower
    BY <1>4 DEF FilterExpression
  <2> HIDE DEF head, input, lower
  <2>3. IsConcat(input, head, lower, Characters)
    BY <1>1, <2>1, <2>2, Concatenated
  <2>4. 1 \in 1 .. Len(head) /\ 2 \in 1 .. Len(head)
    BY <1>1
  <2>5. PlainLink(letter, input, lower)
    BY <1>1, <2>3, <2>4 DEF PlainLink, IsConcat
  <2> QED
    BY <2>5 DEF lower
<1> QED
  BY <1>3, <1>4

\* Lowering is done once and for all, and touches nothing that asks for quotes.
LEMMA LoweredIs ==
    ASSUME NEW text \in Seq(Characters), ~NeedsQuotes(text)
    PROVE  /\ Unquoted(ToAsciiLowercase(text))
           /\ ToAsciiLowercase(ToAsciiLowercase(text)) = ToAsciiLowercase(text)
           /\ SplitInLink(text) <=> \E i \in 1 .. Len(ToAsciiLowercase(text)) : ToAsciiLowercase(text)[i] = "nbsp"
<1> DEFINE lower == ToAsciiLowercase(text)
           again == ToAsciiLowercase(lower)
<1>1. /\ lower \in Seq(Characters) /\ Len(lower) = Len(text)
      /\ \A i \in 1 .. Len(text) : lower[i] = IF text[i] = "A" THEN "a" ELSE text[i]
  BY LowercaseIs
<1> HIDE DEF lower
<1>2. /\ again \in Seq(Characters) /\ Len(again) = Len(lower)
      /\ \A i \in 1 .. Len(lower) : again[i] = IF lower[i] = "A" THEN "a" ELSE lower[i]
  BY <1>1, LowercaseIs
<1> HIDE DEF again
<1>3. DOMAIN text = 1 .. Len(text)
  OBVIOUS
<1>4. \A i \in 1 .. Len(text) : text[i] \notin {" ", "quote", "backslash"}
  BY <1>3 DEF NeedsQuotes, AsciiWhitespace
<1>5. Unquoted(lower)
  BY <1>1, <1>4 DEF Unquoted
<1>6. \A i \in 1 .. Len(again) : again[i] = lower[i]
  BY <1>1, <1>2
<1>7. again = lower
  BY ONLY <1>1, <1>2, <1>6, SameSequence
<1>8. SplitInLink(text) <=> \E i \in 1 .. Len(text) : text[i] = "nbsp"
  BY <1>3 DEF SplitInLink, Whitespace, AsciiWhitespace
<1>9. \A i \in 1 .. Len(text) : text[i] = "nbsp" <=> lower[i] = "nbsp"
  BY <1>1
<1> QED
  BY <1>1, <1>5, <1>7, <1>8, <1>9 DEF lower, again

\* A link that is split is not found: what its first token finds is shorter than the value.
LEMMA SplitNotFound ==
    ASSUME NEW letter \in KeyLetters, NEW text \in Seq(Characters), NEW lower, Unquoted(lower), Len(lower) = Len(text), NEW input, PlainLink(letter, input, lower),
           NEW f, Tokenizing(f, input), FoldLeft(NextCharacter, NoCharacters, input) = f[Len(input)],
           \E i \in 1 .. Len(lower) : lower[i] = "nbsp"
    PROVE  ~Found(letter, Parse(input), text)
<1> DEFINE places == {i \in 1 .. Len(lower) : lower[i] = "nbsp"}
<1>1. lower \in Seq(Characters) /\ input \in Seq(Characters)
  BY DEF Unquoted, PlainLink
<1>2. PICK p \in places : \A i \in places : p <= i
  <2>1. places \in SUBSET Nat /\ places # {}
    BY <1>1
  <2> HIDE DEF places
  <2> QED
    BY <2>1, LeastOf
<1>3. /\ p \in 1 .. Len(lower) /\ lower[p] = "nbsp" /\ Len(lower) \in Nat
      /\ \A i \in 1 .. p - 1 : lower[i] # "nbsp"
  BY <1>1, <1>2
<1> DEFINE named == SubSeq(lower, 1, p - 1)
           end == f[Len(input)]
<1>4. named \in Seq(Characters) /\ Len(named) = p - 1
  BY <1>1, <1>3, SubSeqIs
<1>5. FirstRead(end, LinkToken(letter, named))
  BY <1>3, PlainLinkSplit
<1>6. end \in Tokenizers
  <2>1. Len(input) \in 0 .. Len(input)
    BY <1>1
  <2> QED
    BY <2>1 DEF Tokenizing
<1>7. PICK tokens \in Seq(Seq(Characters)) :
         /\ tokens = IF end.token = <<>> THEN end.tokens ELSE Append(end.tokens, end.token)
         /\ Parse(input) = WithinLimits(input, tokens)
  <2>1. ~f[Len(input)].quoted /\ ~f[Len(input)].escaped
    BY <1>5 DEF FirstRead
  <2> QED
    BY <1>1, <2>1, SearchFinds
<1> HIDE DEF named, end
<1>8. tokens # <<>> /\ tokens[1] = LinkToken(letter, named)
  <2>1. end.tokens \in Seq(Seq(Characters)) /\ end.token \in Seq(Characters)
    BY <1>6 DEF Tokenizers
  <2>2. end.tokens # <<>> /\ end.tokens[1] = LinkToken(letter, named)
    BY <1>5 DEF FirstRead
  <2>3. Append(end.tokens, end.token) # <<>> /\ Append(end.tokens, end.token)[1] = end.tokens[1]
    BY <2>1, <2>2, FirstOfAppend
  <2> QED
    BY <1>7, <2>2, <2>3
<1>9. PICK g \in [0 .. Len(tokens) -> Searches] :
         /\ g[0] = EmptySearch /\ g[Len(tokens)] = FoldLeft(AddToken, EmptySearch, tokens)
         /\ \A n \in 1 .. Len(tokens) : g[n] = AddToken(g[n - 1], tokens[n])
  BY ParseLoop
<1>10. Parsing(g, tokens)
  BY <1>9 DEF Parsing
<1>11. FindsFirst(g[Len(tokens)], named)
  BY <1>4, <1>8, <1>10, FirstTokenFound
<1>12. FindsFirst(Parse(input), named)
  <2>1. FindsFirst([EmptySearch EXCEPT !.valid = FALSE], named)
    BY DEF FindsFirst, EmptySearch
  <2> QED
    BY <1>7, <1>9, <1>11, <2>1 DEF WithinLimits
<1>13. ASSUME Found(letter, Parse(input), text) PROVE FALSE
  <2>1. ToAsciiLowercase(named) = ToAsciiLowercase(text)
    BY <1>12, <1>13 DEF Found, FindsFirst
  <2>2. Len(ToAsciiLowercase(named)) = Len(named) /\ Len(ToAsciiLowercase(text)) = Len(text)
    BY <1>4, LowercaseIs
  <2>3. Len(named) = Len(text)
    BY <2>1, <2>2
  <2> QED
    BY <1>3, <1>4, <2>3
<1> QED
  BY <1>13

LEMMA LinkFound ==
    ASSUME NEW letter \in KeyLetters, NEW text \in Seq(Characters)
    PROVE  LET link == FilterExpression(<<letter>>, text) IN
           Nameable(letter, text) /\ ~SplitInLink(text) /\ Bytes(link) <= MaxSearchBytes
              <=> Found(letter, Parse(link), text)
<1> DEFINE input == FilterExpression(<<letter>>, text)
           lower == ToAsciiLowercase(text)
<1>1. /\ NeedsQuotes(text) => QuotedLink(letter, input, Escape(text))
      /\ ~NeedsQuotes(text) => PlainLink(letter, input, lower)
  BY LinkParts
<1> HIDE DEF input
<1>2. input \in Seq(Characters)
  BY <1>1 DEF QuotedLink, PlainLink
<1>3. PICK f : Tokenizing(f, input) /\ FoldLeft(NextCharacter, NoCharacters, input) = f[Len(input)]
  <2>1. PICK f \in [0 .. Len(input) -> Tokenizers] :
           /\ f[0] = NoCharacters /\ f[Len(input)] = FoldLeft(NextCharacter, NoCharacters, input)
           /\ \A n \in 1 .. Len(input) : f[n] = NextCharacter(f[n - 1], input[n])
    BY <1>2, TokenizeLoop
  <2> QED
    BY <2>1 DEF Tokenizing
<1>4. CASE NeedsQuotes(text)
  <2>1. PICK e : Escaping(e, text) /\ e[Len(text)] = Escape(text)
    <3>1. PICK e \in [0 .. Len(text) -> Seq(Characters)] :
             /\ e[0] = <<>> /\ e[Len(text)] = Escape(text)
             /\ \A n \in 1 .. Len(text) : e[n] = EscapeCharacter(e[n - 1], text[n])
      BY EscapeLoop
    <3> QED
      BY <3>1 DEF Escaping
  <2>2. QuotedLink(letter, input, e[Len(text)])
    BY <1>1, <1>4, <2>1
  <2>3. f[Len(input)] = Reading(LinkToken(letter, text), FALSE)
    BY <1>3, <2>1, <2>2, QuotedLinkRead
  <2>4. Found(letter, Parse(input), text) <=> Nameable(letter, text) /\ Bytes(input) <= MaxSearchBytes
    BY <1>2, <1>3, <2>3, OneTokenFound
  <2> QED
    BY <1>4, <2>4 DEF SplitInLink, input
<1>5. CASE ~NeedsQuotes(text)
  <2>1. /\ Unquoted(lower) /\ ToAsciiLowercase(lower) = lower
        /\ SplitInLink(text) <=> \E i \in 1 .. Len(lower) : lower[i] = "nbsp"
    BY <1>5, LoweredIs
  <2>2. lower \in Seq(Characters) /\ Len(lower) = Len(text) /\ Len(text) \in Nat
    BY LowercaseIs, LengthIs
  <2>3. PlainLink(letter, input, lower)
    BY <1>1, <1>5
  <2>4. ToAsciiLowercase(lower) = ToAsciiLowercase(text)
    BY <2>1
  <2> HIDE DEF lower
  <2>5. CASE SplitInLink(text)
    <3>1. ~Found(letter, Parse(input), text)
      BY <1>3, <2>1, <2>2, <2>3, <2>5, SplitNotFound
    <3> QED
      BY <2>5, <3>1 DEF input
  <2>6. CASE ~SplitInLink(text)
    <3> DEFINE K == Len(lower)
    <3>1. K \in 0 .. Len(lower) /\ \A i \in 1 .. K : lower[i] # "nbsp"
      BY <2>1, <2>2, <2>6
    <3> HIDE DEF K
    <3>2. f[2 + K] = Reading(LinkToken(letter, SubSeq(lower, 1, K)), FALSE)
      BY <1>3, <2>1, <2>3, <3>1, PlainLinkRead
    <3>3. SubSeq(lower, 1, Len(lower)) = lower
      BY <2>2, NoneAndAll
    <3>4. Len(input) = 2 + Len(lower)
      BY <2>3 DEF PlainLink
    <3>5. f[Len(input)] = Reading(LinkToken(letter, lower), FALSE)
      BY <3>2, <3>3, <3>4 DEF K
    <3>6. Found(letter, Parse(input), text) <=> Nameable(letter, text) /\ Bytes(input) <= MaxSearchBytes
      BY <1>2, <1>3, <2>2, <2>4, <3>5, OneTokenFound
    <3> QED
      BY <2>6, <3>6 DEF input
  <2> QED
    BY <2>5, <2>6
<1> QED
  BY <1>4, <1>5

\* The link that filter_expression writes for a value is read by tokenize and parse as a search for
\* exactly that value, for every value and whatever the limits: if and only if it is not empty, not
\* split at white space that is not ASCII, its link is not longer than a search may be, and it is a
\* state where the field is called `state`.
THEOREM LinksFindTheirValues == SearchSpec => []LinkFindsItsValue
<1> DEFINE Typed == value \in Seq(Characters)
<1>1. SearchInit => Typed
  BY DEF SearchInit
<1>2. Typed /\ [SearchNext]_value => Typed'
  <2>1. ASSUME Typed, NEW c \in Characters, Extend(c) PROVE Typed'
    BY <2>1 DEF Extend
  <2> QED
    BY <2>1 DEF SearchNext
<1>3. Typed => LinkFindsItsValue
  <2>1. \A key \in LinkKeys : \E letter \in KeyLetters : key = <<letter>>
    BY DEF LinkKeys, StateKey, KeyLetters
  <2>2. ASSUME Typed, NEW letter \in KeyLetters
        PROVE  LET link == FilterExpression(<<letter>>, value) IN
               Nameable(letter, value) /\ ~SplitInLink(value) /\ Bytes(link) <= MaxSearchBytes
                  <=> Found(letter, Parse(link), value)
    BY <2>2, LinkFound
  <2> QED
    BY <2>1, <2>2 DEF LinkFindsItsValue, Found, SplitInLink, Nameable
<1> QED
  BY <1>1, <1>2, <1>3, PTL DEF SearchSpec

-----------------------------------------------------------------------------
(* The loop over the lines of a stack *)

NamesOf(C) == {FunctionName(row.symbol)[1] : row \in C}
AddressesOf(C) == {<<row.build, row.address>> : row \in C}

ParsedStacks(C) ==
    [rows : Seq(C), frameCount : Nat, frameKeys : Seq(NamesOf(C)), addressKeys : Seq(AddressesOf(C)),
     truncated : BOOLEAN]

LEMMA RowSteps ==
    ASSUME NEW C
    PROVE  /\ \A n \in Nat : NoRows(n > MaxRenderedLines) \in ParsedStacks(C)
           /\ \A parsed \in ParsedStacks(C), row \in C : AddRow(parsed, row) \in ParsedStacks(C)
<1>1. \A n \in Nat : NoRows(n > MaxRenderedLines) \in ParsedStacks(C)
  BY DEF NoRows, ParsedStacks
<1>2. ASSUME NEW parsed \in ParsedStacks(C), NEW row \in C
      PROVE  AddRow(parsed, row) \in ParsedStacks(C)
  <2>1. /\ parsed.rows \in Seq(C) /\ parsed.frameCount \in Nat /\ parsed.frameKeys \in Seq(NamesOf(C))
        /\ parsed.addressKeys \in Seq(AddressesOf(C)) /\ parsed.truncated \in BOOLEAN
    BY DEF ParsedStacks
  <2>2. Append(parsed.rows, row) \in Seq(C) /\ parsed.frameCount + (IF row.number # Absent THEN 1 ELSE 0) \in Nat
    BY <2>1
  <2>3. FunctionName(row.symbol) \in Seq(NamesOf(C))
    <3>1. FunctionName(row.symbol)[1] \in NamesOf(C)
      BY DEF NamesOf
    <3>2. PICK name : FunctionName(row.symbol) = <<>> \/ FunctionName(row.symbol) = <<name>>
      BY DEF FunctionName
    <3>3. CASE FunctionName(row.symbol) = <<name>>
      <4>1. name \in NamesOf(C)
        BY <3>1, <3>3
      <4> QED
        BY <3>3, <4>1
    <3>4. <<>> \in Seq(NamesOf(C))
      OBVIOUS
    <3> QED
      BY <3>2, <3>3, <3>4, Zenon
  <2>4. \A s \in Seq(NamesOf(C)) : parsed.frameKeys \o s \in Seq(NamesOf(C))
    BY <2>1
  <2>5. <<<<row.build, row.address>>>> \in Seq(AddressesOf(C))
    <3> DEFINE key == <<row.build, row.address>>
    <3>1. key \in AddressesOf(C)
      BY DEF AddressesOf
    <3> HIDE DEF key
    <3>2. <<key>> \in Seq(AddressesOf(C))
      BY <3>1
    <3> QED
      BY <3>2 DEF key
  <2>6. \A s \in Seq(AddressesOf(C)) : parsed.addressKeys \o s \in Seq(AddressesOf(C))
    BY <2>1
  <2> DEFINE keys == IF row.relevant /\ Len(parsed.frameKeys) < MaxSignatureFrames
                     THEN FunctionName(row.symbol) ELSE <<>>
             addresses == IF /\ row.unavailable /\ row.build # Absent
                             /\ Len(parsed.addressKeys) < SignatureAddresses
                          THEN <<<<row.build, row.address>>>> ELSE <<>>
  <2>7. keys \in Seq(NamesOf(C)) /\ addresses \in Seq(AddressesOf(C))
    BY <2>3, <2>5
  <2>8. AddRow(parsed, row) =
            [rows |-> Append(parsed.rows, row),
             frameCount |-> parsed.frameCount + (IF row.number # Absent THEN 1 ELSE 0),
             frameKeys |-> parsed.frameKeys \o keys, addressKeys |-> parsed.addressKeys \o addresses,
             truncated |-> parsed.truncated]
    BY DEF AddRow
  <2> HIDE DEF keys, addresses
  <2> QED
    BY <2>1, <2>2, <2>4, <2>6, <2>7, <2>8 DEF ParsedStacks
<1> QED
  BY <1>1, <1>2

LEMMA RowAdded ==
    ASSUME NEW parsed, NEW row
    PROVE  /\ AddRow(parsed, row).rows = Append(parsed.rows, row)
           /\ AddRow(parsed, row).frameCount = parsed.frameCount + IF row.number # Absent THEN 1 ELSE 0
           /\ AddRow(parsed, row).frameKeys =
                  parsed.frameKeys \o (IF row.relevant /\ Len(parsed.frameKeys) < MaxSignatureFrames
                                       THEN FunctionName(row.symbol) ELSE <<>>)
           /\ AddRow(parsed, row).truncated = parsed.truncated
  BY DEF AddRow

LEMMA RowAppended ==
    ASSUME NEW parsed, NEW row PROVE AddRow(parsed, row).rows = Append(parsed.rows, row)
  BY ONLY RowAdded

\* The values of the loop over rows.
RowsRead(f, start, rows, C) ==
    /\ f \in [0 .. Len(rows) -> ParsedStacks(C)]
    /\ f[0] = start /\ f[Len(rows)] = FoldLeft(AddRow, start, rows)
    /\ \A n \in 1 .. Len(rows) : f[n] = AddRow(f[n - 1], rows[n])

\* The loop of parse_stack_trace.
LEMMA RowsAreRead ==
    ASSUME NEW C, NEW rows \in Seq(C), NEW start \in ParsedStacks(C)
    PROVE  \E f : RowsRead(f, start, rows, C)
<1> DEFINE N == Len(rows)
           step == [p \in ParsedStacks(C) \X C |-> AddRow(p[1], p[2])]
           Values(iter) == [t \in SUBSET DOMAIN rows |->
                               IF t = {} THEN start
                               ELSE AddRow(iter[t \ {Max(t)}], rows[Max(t)])]
           chosen == CHOOSE iter : iter = Values(iter)
<1>1. N \in Nat /\ DOMAIN rows = 1 .. N /\ rows \in [1 .. N -> C]
  OBVIOUS
<1>2. start \in ParsedStacks(C) /\ step \in [ParsedStacks(C) \X C -> ParsedStacks(C)]
  BY RowSteps
<1>3. PICK iter \in [SUBSET (1 .. N) -> ParsedStacks(C)] : Iterates(iter, start, step, rows, N)
  <2> HIDE DEF step, N
  <2> QED
    BY <1>1, <1>2, IteratesExist
<1>4. ASSUME NEW t \in SUBSET (1 .. N), t # {}
      PROVE  /\ iter[t] = AddRow(iter[t \ {Max(t)}], rows[Max(t)])
             /\ iter[t \ {Max(t)}] \in ParsedStacks(C) /\ rows[Max(t)] \in C
  <2>1. Max(t) \in 1 .. N /\ t \ {Max(t)} \in SUBSET (1 .. N)
    <3> HIDE DEF N
    <3> QED
      BY <1>1, <1>4, GreatestOf
  <2>2. iter[t \ {Max(t)}] \in ParsedStacks(C) /\ rows[Max(t)] \in C
    BY <1>1, <2>1
  <2> QED
    BY <1>3, <1>4, <2>2 DEF Iterates
<1>5. iter = Values(iter)
  <2>1. iter[{}] = start
    BY <1>3 DEF Iterates
  <2> QED
    BY <1>1, <1>4, <2>1
<1>6. chosen = Values(chosen)
  <2>1. \E i : i = Values(i)
    BY <1>5
  <2> HIDE DEF Values
  <2> QED
    BY <2>1
<1>7. FoldLeft(AddRow, start, rows) = chosen[DOMAIN rows]
  BY Zenon DEF FoldLeft, MapThenFoldSet
<1> HIDE DEF chosen
<1>8. chosen[DOMAIN rows] = iter[1 .. N]
  <2>1. \A t \in SUBSET (1 .. N) : chosen[t] = Values(chosen)[t] /\ iter[t] = Values(iter)[t]
    BY <1>5, <1>6
  <2>2. chosen[{}] = iter[{}]
    BY <1>1, <2>1
  <2>3. SameSteps(chosen, iter, N)
    BY <1>1, <2>1 DEF SameSteps
  <2>4. chosen[1 .. N] = iter[1 .. N]
    <3> HIDE DEF N, Values
    <3> QED
      BY <1>1, <2>2, <2>3, SameIterates
  <2> QED
    BY <1>1, <2>4
<1>9. LoopValues(iter, start, step, rows, N, ParsedStacks(C))
  <2> HIDE DEF step, N
  <2> QED
    BY <1>1, <1>2, <1>3, LoopOfIterates
<1>10. ASSUME NEW n \in 1 .. N PROVE iter[1 .. n] = AddRow(iter[1 .. n - 1], rows[n])
  <2>1. n - 1 \in 0 .. N
    BY <1>1
  <2>2. iter[1 .. n - 1] \in ParsedStacks(C) /\ rows[n] \in C
    BY <1>1, <1>9, <2>1 DEF LoopValues
  <2> QED
    BY <1>9, <2>2 DEF LoopValues
<1> DEFINE f == [n \in 0 .. N |-> iter[1 .. n]]
<1>11. f \in [0 .. N -> ParsedStacks(C)] /\ f[0] = start /\ f[N] = FoldLeft(AddRow, start, rows)
  BY <1>1, <1>7, <1>8, <1>9 DEF LoopValues
<1>12. \A n \in 1 .. N : f[n] = AddRow(f[n - 1], rows[n])
  BY <1>1, <1>10
<1> HIDE DEF f
<1> QED
  BY <1>11, <1>12 DEF RowsRead

-----------------------------------------------------------------------------
(* The tokens of a symbol *)

Reads(C) == [depth : Nat, plain : Seq(C)]

LEMMA TokenIs ==
    ASSUME NEW C, NEW read \in Reads(C), NEW token \in C
    PROVE  /\ NextToken(read, token) \in Reads(C)
           /\ token = "<" => NextToken(read, token) = [depth |-> read.depth + 1, plain |-> read.plain]
           /\ token = ">" /\ read.depth > 0 => NextToken(read, token) = [depth |-> read.depth - 1, plain |-> read.plain]
           /\ token # "<" /\ ~(token = ">" /\ read.depth > 0) =>
                 NextToken(read, token) =
                     [depth |-> read.depth,
                      plain |-> IF read.depth = 0 THEN Append(read.plain, token) ELSE read.plain]
<1> DEFINE d == read.depth
           p == read.plain
           next == NextToken(read, token)
<1>1. read = [depth |-> d, plain |-> p] /\ d \in Nat /\ p \in Seq(C) /\ Append(p, token) \in Seq(C)
  BY DEF Reads
<1>2. CASE token = "<"
  <2>1. next = [read EXCEPT !.depth = @ + 1]
    BY <1>2 DEF NextToken
  <2> HIDE DEF d, p, next
  <2>2. next = [depth |-> d + 1, plain |-> p]
    BY <1>1, <2>1
  <2>3. next \in Reads(C)
    BY <1>1, <2>2 DEF Reads
  <2> QED
    BY <1>2, <2>2, <2>3 DEF d, p, next
<1>3. CASE token = ">" /\ d > 0
  <2>1. next = [read EXCEPT !.depth = @ - 1]
    BY <1>3 DEF NextToken
  <2> HIDE DEF d, p, next
  <2>2. next = [depth |-> d - 1, plain |-> p] /\ d - 1 \in Nat
    BY <1>1, <1>3, <2>1
  <2>3. next \in Reads(C)
    BY <1>1, <2>2 DEF Reads
  <2> QED
    BY <1>3, <2>2, <2>3 DEF d, p, next
<1>4. CASE token # "<" /\ ~(token = ">" /\ d > 0)
  <2>1. next = IF d = 0 THEN [read EXCEPT !.plain = Append(@, token)] ELSE read
    BY <1>4 DEF NextToken
  <2> HIDE DEF d, p, next
  <2>2. next = [depth |-> d, plain |-> IF d = 0 THEN Append(p, token) ELSE p]
    BY <1>1, <2>1
  <2>3. next \in Reads(C)
    BY <1>1, <2>2 DEF Reads
  <2> QED
    BY <1>4, <2>2, <2>3 DEF d, p, next
<1> QED
  BY <1>2, <1>3, <1>4

LEMMA TokenSteps ==
    ASSUME NEW C
    PROVE  /\ \A depth \in Nat : [depth |-> depth, plain |-> <<>>] \in Reads(C)
           /\ \A read \in Reads(C), token \in C : NextToken(read, token) \in Reads(C)
<1>1. \A depth \in Nat : [depth |-> depth, plain |-> <<>>] \in Reads(C)
  BY DEF Reads
<1> QED
  BY <1>1, TokenIs

\* The values of the loop over the tokens of a symbol.
TokensRead(f, start, text, C) ==
    /\ f \in [0 .. Len(text) -> Reads(C)]
    /\ f[0] = start /\ f[Len(text)] = FoldLeft(NextToken, start, text)
    /\ \A n \in 1 .. Len(text) : f[n] = NextToken(f[n - 1], text[n])

\* The loop of function_name.
LEMMA TokensAreRead ==
    ASSUME NEW C, NEW text \in Seq(C), NEW start \in Reads(C)
    PROVE  \E f : TokensRead(f, start, text, C)
<1> DEFINE N == Len(text)
           step == [p \in Reads(C) \X C |-> NextToken(p[1], p[2])]
           Values(iter) == [t \in SUBSET DOMAIN text |->
                               IF t = {} THEN start
                               ELSE NextToken(iter[t \ {Max(t)}], text[Max(t)])]
           chosen == CHOOSE iter : iter = Values(iter)
<1>1. N \in Nat /\ DOMAIN text = 1 .. N /\ text \in [1 .. N -> C]
  OBVIOUS
<1>2. start \in Reads(C) /\ step \in [Reads(C) \X C -> Reads(C)]
  BY TokenSteps
<1>3. PICK iter \in [SUBSET (1 .. N) -> Reads(C)] : Iterates(iter, start, step, text, N)
  <2> HIDE DEF step, N
  <2> QED
    BY <1>1, <1>2, IteratesExist
<1>4. ASSUME NEW t \in SUBSET (1 .. N), t # {}
      PROVE  /\ iter[t] = NextToken(iter[t \ {Max(t)}], text[Max(t)])
             /\ iter[t \ {Max(t)}] \in Reads(C) /\ text[Max(t)] \in C
  <2>1. Max(t) \in 1 .. N /\ t \ {Max(t)} \in SUBSET (1 .. N)
    <3> HIDE DEF N
    <3> QED
      BY <1>1, <1>4, GreatestOf
  <2>2. iter[t \ {Max(t)}] \in Reads(C) /\ text[Max(t)] \in C
    BY <1>1, <2>1
  <2> QED
    BY <1>3, <1>4, <2>2 DEF Iterates
<1>5. iter = Values(iter)
  <2>1. iter[{}] = start
    BY <1>3 DEF Iterates
  <2> QED
    BY <1>1, <1>4, <2>1
<1>6. chosen = Values(chosen)
  <2>1. \E i : i = Values(i)
    BY <1>5
  <2> HIDE DEF Values
  <2> QED
    BY <2>1
<1>7. FoldLeft(NextToken, start, text) = chosen[DOMAIN text]
  BY Zenon DEF FoldLeft, MapThenFoldSet
<1> HIDE DEF chosen
<1>8. chosen[DOMAIN text] = iter[1 .. N]
  <2>1. \A t \in SUBSET (1 .. N) : chosen[t] = Values(chosen)[t] /\ iter[t] = Values(iter)[t]
    BY <1>5, <1>6
  <2>2. chosen[{}] = iter[{}]
    BY <1>1, <2>1
  <2>3. SameSteps(chosen, iter, N)
    BY <1>1, <2>1 DEF SameSteps
  <2>4. chosen[1 .. N] = iter[1 .. N]
    <3> HIDE DEF N, Values
    <3> QED
      BY <1>1, <2>2, <2>3, SameIterates
  <2> QED
    BY <1>1, <2>4
<1>9. LoopValues(iter, start, step, text, N, Reads(C))
  <2> HIDE DEF step, N
  <2> QED
    BY <1>1, <1>2, <1>3, LoopOfIterates
<1>10. ASSUME NEW n \in 1 .. N PROVE iter[1 .. n] = NextToken(iter[1 .. n - 1], text[n])
  <2>1. n - 1 \in 0 .. N
    BY <1>1
  <2>2. iter[1 .. n - 1] \in Reads(C) /\ text[n] \in C
    BY <1>1, <1>9, <2>1 DEF LoopValues
  <2> QED
    BY <1>9, <2>2 DEF LoopValues
<1> DEFINE f == [n \in 0 .. N |-> iter[1 .. n]]
<1>11. f \in [0 .. N -> Reads(C)] /\ f[0] = start /\ f[N] = FoldLeft(NextToken, start, text)
  BY <1>1, <1>7, <1>8, <1>9 DEF LoopValues
<1>12. \A n \in 1 .. N : f[n] = NextToken(f[n - 1], text[n])
  BY <1>1, <1>10
<1> HIDE DEF f
<1> QED
  BY <1>11, <1>12 DEF TokensRead


\* The same, with what ReadFrom makes of it.
TextRead(f, depth, text, C) ==
    /\ Len(text) \in Nat /\ f \in [0 .. Len(text) -> Reads(C)]
    /\ f[0] = [depth |-> depth, plain |-> <<>>] /\ f[Len(text)] = ReadFrom(depth, text)
    /\ \A n \in 1 .. Len(text) : f[n] = NextToken(f[n - 1], text[n])

LEMMA TextIsRead ==
    ASSUME NEW C, NEW text \in Seq(C), NEW depth \in Nat
    PROVE  ReadFrom(depth, text) \in Reads(C) /\ \E f : TextRead(f, depth, text, C)
<1> DEFINE start == [depth |-> depth, plain |-> <<>>]
<1>1. start \in Reads(C)
  BY TokenSteps
<1>2. ReadFrom(depth, text) = FoldLeft(NextToken, start, text)
  BY DEF ReadFrom
<1>3. Len(text) \in Nat
  OBVIOUS
<1> HIDE DEF start
<1>4. PICK f : TokensRead(f, start, text, C)
  BY <1>1, TokensAreRead
<1>5. TextRead(f, depth, text, C)
  BY <1>2, <1>3, <1>4 DEF TokensRead, TextRead, start
<1>6. ReadFrom(depth, text) \in Reads(C)
  BY <1>3, <1>5 DEF TextRead
<1> QED
  BY <1>5, <1>6

\* What is outside of template arguments grows by one token as it would from nothing.
After(before, read) == [depth |-> read.depth, plain |-> before \o read.plain]

LEMMA TokenAfter ==
    ASSUME NEW C, NEW before \in Seq(C), NEW read \in Reads(C), NEW token \in C
    PROVE  NextToken(After(before, read), token) = After(before, NextToken(read, token))
<1> DEFINE d == read.depth
           p == read.plain
           after == [depth |-> d, plain |-> before \o p]
<1>1. d \in Nat /\ p \in Seq(C)
  BY DEF Reads
<1>2. before \o p \in Seq(C) /\ before \o Append(p, token) = Append(before \o p, token)
  <2> HIDE DEF p
  <2> DEFINE one == <<token>>
  <2>1. one \in Seq(C) /\ \A s \in Seq(C) : Append(s, token) = s \o one
    OBVIOUS
  <2> HIDE DEF one
  <2>2. before \o p \in Seq(C) /\ before \o (p \o one) = (before \o p) \o one
    BY <1>1, <2>1
  <2> QED
    BY <1>1, <2>1, <2>2
<1>3. after \in Reads(C) /\ after.depth = d /\ after.plain = before \o p
  BY <1>1, <1>2 DEF Reads
<1> DEFINE next == NextToken(read, token)
           nextAfter == NextToken(after, token)
<1>4. /\ token = "<" => next = [depth |-> d + 1, plain |-> p]
      /\ token = ">" /\ d > 0 => next = [depth |-> d - 1, plain |-> p]
      /\ token # "<" /\ ~(token = ">" /\ d > 0) => next = [depth |-> d, plain |-> IF d = 0 THEN Append(p, token) ELSE p]
  BY TokenIs
<1> HIDE DEF next, nextAfter, d, p, after
<1>6. /\ token = "<" => nextAfter = [depth |-> d + 1, plain |-> before \o p]
      /\ token = ">" /\ d > 0 => nextAfter = [depth |-> d - 1, plain |-> before \o p]
      /\ token # "<" /\ ~(token = ">" /\ d > 0) =>
            nextAfter = [depth |-> d, plain |-> IF d = 0 THEN Append(before \o p, token) ELSE before \o p]
  <2>1. ASSUME NEW r \in Reads(C), r.depth = d, r.plain = before \o p
        PROVE  /\ token = "<" => NextToken(r, token) = [depth |-> d + 1, plain |-> before \o p]
               /\ token = ">" /\ d > 0 => NextToken(r, token) = [depth |-> d - 1, plain |-> before \o p]
               /\ token # "<" /\ ~(token = ">" /\ d > 0) =>
                     NextToken(r, token) =
                         [depth |-> d, plain |-> IF d = 0 THEN Append(before \o p, token) ELSE before \o p]
    <3>1. token \in C
      OBVIOUS
    <3>2. /\ token = "<" => NextToken(r, token) = [depth |-> r.depth + 1, plain |-> r.plain]
          /\ token = ">" /\ r.depth > 0 => NextToken(r, token) = [depth |-> r.depth - 1, plain |-> r.plain]
          /\ token # "<" /\ ~(token = ">" /\ r.depth > 0) =>
                NextToken(r, token) =
                    [depth |-> r.depth, plain |-> IF r.depth = 0 THEN Append(r.plain, token) ELSE r.plain]
      BY ONLY <2>1, <3>1, TokenIs
    <3> QED
      BY ONLY <2>1, <3>2
  <2> QED
    BY <1>3, <2>1 DEF nextAfter
<1>5. nextAfter = [depth |-> next.depth, plain |-> before \o next.plain]
  <2>1. CASE token = "<"
    BY <1>4, <1>6, <2>1
  <2>2. CASE token = ">" /\ d > 0
    BY <1>4, <1>6, <2>2
  <2>3. CASE token # "<" /\ ~(token = ">" /\ d > 0)
    <3>1. CASE d = 0
      <4>1. next.depth = d /\ next.plain = Append(p, token)
        BY <1>4, <2>3, <3>1
      <4>2. nextAfter = [depth |-> d, plain |-> Append(before \o p, token)]
        BY <1>6, <2>3, <3>1
      <4> QED
        BY ONLY <1>2, <4>1, <4>2
    <3>2. CASE d # 0
      BY <1>4, <1>6, <2>3, <3>2
    <3> QED
      BY <3>1, <3>2
  <2> QED
    BY <2>1, <2>2, <2>3
<1> QED
  BY <1>5 DEF next, nextAfter, after, d, p, After

\* Two texts, one after the other.
LEMMA ReadConcat ==
    ASSUME NEW C, NEW one \in Seq(C), NEW other \in Seq(C), NEW depth \in Nat
    PROVE  LET first == ReadFrom(depth, one)
               second == ReadFrom(first.depth, other)
           IN  /\ ReadFrom(depth, one \o other) = After(first.plain, second)
               /\ first \in Reads(C) /\ second \in Reads(C)
<1> DEFINE both == one \o other
           first == ReadFrom(depth, one)
           second == ReadFrom(first.depth, other)
           M == Len(one)
           N == Len(other)
<1>1. IsConcat(both, one, other, C)
  BY Concatenated
<1>2. PICK g : TextRead(g, depth, one, C)
  BY TextIsRead
<1>3. first \in Reads(C) /\ first.depth \in Nat /\ first.plain \in Seq(C)
  BY TextIsRead DEF Reads
<1> HIDE DEF first
<1>4. second \in Reads(C) /\ \E h : TextRead(h, first.depth, other, C)
  BY <1>3, TextIsRead
<1>5. PICK h : TextRead(h, first.depth, other, C)
  BY <1>4
<1>6. both \in Seq(C)
  BY <1>1 DEF IsConcat
<1> HIDE DEF both, second
<1>7. PICK f : TextRead(f, depth, both, C)
  BY <1>6, TextIsRead
<1>8. /\ M \in Nat /\ N \in Nat /\ Len(both) = M + N
      /\ \A n \in 1 .. M : both[n] = one[n]
      /\ \A n \in 1 .. N : both[M + n] = other[n]
  BY <1>1 DEF IsConcat
<1> HIDE DEF M, N
<1>9. /\ f[0] = [depth |-> depth, plain |-> <<>>] /\ g[0] = f[0]
      /\ \A n \in 1 .. M : g[n] = NextToken(g[n - 1], one[n]) /\ f[n] = NextToken(f[n - 1], one[n])
  <2>1. \A n \in 1 .. M : n \in 1 .. Len(both)
    BY <1>8
  <2> QED
    BY <1>2, <1>7, <1>8, <2>1 DEF TextRead, M
<1>10. f[M] = first
  <2> DEFINE P == {n \in 0 .. M : f[n] = g[n]}
  <2>1. 0 \in P
    BY <1>8, <1>9
  <2>2. ASSUME NEW n \in 0 .. M - 1, n \in P PROVE n + 1 \in P
    <3>1. n + 1 \in 1 .. M /\ n + 1 \in 0 .. M /\ (n + 1) - 1 = n
      BY <1>8
    <3> QED
      BY <1>9, <2>2, <3>1
  <2>3. \A n \in 0 .. M : n \in P
    <3> HIDE DEF P
    <3> QED
      BY <1>8, <2>1, <2>2, BoundedInduction
  <2>4. f[M] = g[M]
    BY <1>8, <2>3
  <2> QED
    BY <1>2, <2>4 DEF TextRead, M, first
<1>11. /\ h \in [0 .. N -> Reads(C)] /\ h[0] = [depth |-> first.depth, plain |-> <<>>] /\ h[N] = second
       /\ \A n \in 1 .. N : h[n] = NextToken(h[n - 1], other[n])
  BY <1>5 DEF TextRead, N, second
<1>12. ASSUME NEW n \in 1 .. N PROVE f[M + n] = NextToken(f[M + n - 1], other[n])
  <2>1. M + n \in 1 .. Len(both) /\ both[M + n] = other[n]
    BY <1>8
  <2>2. \A k \in 1 .. Len(both) : f[k] = NextToken(f[k - 1], both[k])
    BY <1>7 DEF TextRead
  <2> DEFINE k == M + n
             before == k - 1
  <2>3. k \in 1 .. Len(both) /\ both[k] = other[n]
    BY <2>1
  <2>5. before = M + n - 1
    BY <1>8
  <2> HIDE DEF k, before
  <2>4. f[k] = NextToken(f[before], other[n])
    BY <2>2, <2>3 DEF before
  <2> QED
    BY <2>4, <2>5 DEF k
<1> DEFINE P == {n \in 0 .. N : f[M + n] = After(first.plain, h[n])}
<1>13. 0 \in P
  <2>1. h[0].depth = first.depth /\ h[0].plain = <<>> /\ first.plain \o <<>> = first.plain
    BY <1>3, <1>11
  <2>2. first = [depth |-> first.depth, plain |-> first.plain]
    BY <1>3 DEF Reads
  <2>3. M + 0 = M /\ 0 \in 0 .. N
    BY <1>8
  <2> QED
    BY <1>10, <2>1, <2>2, <2>3 DEF After
<1>14. ASSUME NEW n \in 0 .. N - 1, n \in P PROVE n + 1 \in P
  <2>1. /\ n + 1 \in 1 .. N /\ n + 1 \in 0 .. N /\ n \in 0 .. N /\ (n + 1) - 1 = n
        /\ M + (n + 1) - 1 = M + n
    BY <1>8
  <2>2. h[n] \in Reads(C) /\ other[n + 1] \in C /\ first.plain \in Seq(C)
    BY <1>3, <1>11, <2>1 DEF N
  <2>3. h[n + 1] = NextToken(h[n], other[n + 1]) /\ f[M + (n + 1)] = NextToken(f[M + n], other[n + 1])
    BY <1>11, <1>12, <2>1
  <2>4. f[M + n] = After(first.plain, h[n])
    BY <1>14
  <2> DEFINE read == h[n]
             token == other[n + 1]
             before == first.plain
  <2>7. read \in Reads(C) /\ token \in C /\ before \in Seq(C)
    BY <2>2
  <2> HIDE DEF read, token, before
  <2>5. NextToken(After(before, read), token) = After(before, NextToken(read, token))
    BY ONLY <2>7, TokenAfter
  <2>6. f[M + (n + 1)] = After(first.plain, h[n + 1])
    BY <2>3, <2>4, <2>5 DEF read, token, before
  <2> QED
    BY <2>1, <2>6
<1>15. N \in P
  <2>1. \A n \in 0 .. N : n \in P
    <3> HIDE DEF P
    <3> QED
      BY <1>8, <1>13, <1>14, BoundedInduction
  <2>2. N \in 0 .. N
    BY <1>8
  <2> HIDE DEF P
  <2> QED
    BY <2>1, <2>2
<1>16. f[M + N] = ReadFrom(depth, both)
  BY <1>7, <1>8 DEF TextRead
<1>17. ReadFrom(depth, both) = After(first.plain, second)
  BY <1>11, <1>15, <1>16
<1> QED
  BY <1>3, <1>4, <1>17 DEF both, first, second

LEMMA ReadOne ==
    ASSUME NEW C, NEW token \in C, NEW depth \in Nat
    PROVE  ReadFrom(depth, <<token>>) = NextToken([depth |-> depth, plain |-> <<>>], token)
<1> DEFINE text == <<token>>
<1>1. text \in Seq(C) /\ Len(text) = 1 /\ text[1] = token
  OBVIOUS
<1> HIDE DEF text
<1>2. PICK f : TextRead(f, depth, text, C)
  BY <1>1, TextIsRead
<1>3. f[0] = [depth |-> depth, plain |-> <<>>] /\ f[1] = ReadFrom(depth, text)
  BY <1>1, <1>2 DEF TextRead
<1>4. 1 \in 1 .. Len(text) /\ 1 - 1 = 0
  BY <1>1
<1>5. f[1] = NextToken(f[0], token)
  BY <1>1, <1>2, <1>4 DEF TextRead
<1> QED
  BY <1>3, <1>5 DEF text

\* A text that is read from outside of template arguments to outside of them, and what is left of it.
ReadAs(C, text, plain) ==
    text \in Seq(C) /\ plain \in Seq(C) /\ ReadFrom(0, text) = [depth |-> 0, plain |-> plain]

LEMMA ReadAsConcat ==
    ASSUME NEW C, NEW s, NEW p, ReadAs(C, s, p), NEW t, NEW q, ReadAs(C, t, q)
    PROVE  ReadAs(C, s \o t, p \o q)
<1>1. s \in Seq(C) /\ t \in Seq(C) /\ p \in Seq(C) /\ q \in Seq(C)
  BY DEF ReadAs
<1>2. ReadFrom(0, s).depth = 0 /\ ReadFrom(0, s).plain = p
  BY DEF ReadAs
<1>3. ReadFrom(0, t).depth = 0 /\ ReadFrom(0, t).plain = q
  BY DEF ReadAs
<1>4. ReadFrom(0, s \o t) = After(ReadFrom(0, s).plain, ReadFrom(ReadFrom(0, s).depth, t))
  <2>1. 0 \in Nat
    OBVIOUS
  <2> QED
    BY ONLY <1>1, <2>1, ReadConcat
<1>5. ReadFrom(0, s \o t) = After(p, ReadFrom(0, t))
  BY <1>2, <1>4
<1>6. ReadFrom(0, s \o t) = [depth |-> 0, plain |-> p \o q]
  BY <1>3, <1>5 DEF After
<1>7. s \o t \in Seq(C) /\ p \o q \in Seq(C)
  BY <1>1
<1> QED
  BY <1>6, <1>7 DEF ReadAs

LEMMA NothingRead == ASSUME NEW C PROVE ReadAs(C, <<>>, <<>>)
<1> DEFINE none == <<>>
<1>1. none \in Seq(C) /\ Len(none) = 0
  OBVIOUS
<1> HIDE DEF none
<1>2. PICK f : TextRead(f, 0, none, C)
  <2>1. 0 \in Nat /\ none \in Seq(C)
    BY <1>1
  <2> QED
    BY ONLY <2>1, TextIsRead
<1>3. ReadFrom(0, none) = [depth |-> 0, plain |-> none]
  <2>1. f[0] = [depth |-> 0, plain |-> none]
    BY <1>2 DEF TextRead, none
  <2>2. f[Len(none)] = ReadFrom(0, none)
    BY <1>2 DEF TextRead
  <2> QED
    BY <1>1, <2>1, <2>2
<1> QED
  BY <1>1, <1>3 DEF ReadAs, none

\* A text without brackets is left as it is.
LEMMA ReadPlain ==
    ASSUME NEW C, NEW text \in Seq(C), "<" \notin C, ">" \notin C
    PROVE  ReadAs(C, text, text)
<1> DEFINE N == Len(text)
<1>1. PICK f : TextRead(f, 0, text, C)
  BY TextIsRead
<1>2. /\ N \in Nat /\ f \in [0 .. N -> Reads(C)] /\ f[0] = [depth |-> 0, plain |-> <<>>] /\ f[N] = ReadFrom(0, text)
      /\ \A n \in 1 .. N : f[n] = NextToken(f[n - 1], text[n])
  BY <1>1 DEF TextRead
<1> DEFINE P == {n \in 0 .. N : /\ f[n].depth = 0 /\ f[n].plain \in Seq(C) /\ Len(f[n].plain) = n
                                /\ \A i \in 1 .. n : f[n].plain[i] = text[i]}
<1>3. 0 \in P
  <2>1. f[0].depth = 0 /\ f[0].plain = <<>>
    BY <1>2
  <2> DEFINE none == <<>>
  <2>2. 0 \in 0 .. N /\ none \in Seq(C) /\ Len(none) = 0 /\ \A i \in 1 .. 0 : none[i] = text[i]
    BY <1>2
  <2>3. f[0].plain = none
    BY <2>1
  <2> HIDE DEF none, N
  <2> QED
    BY <2>1, <2>2, <2>3
<1>4. ASSUME NEW n \in 0 .. N - 1, n \in P PROVE n + 1 \in P
  <2> DEFINE read == f[n]
             p == read.plain
             token == text[n + 1]
             next == NextToken(read, token)
  <2>1. n + 1 \in 1 .. N /\ n + 1 \in 0 .. N /\ n \in 0 .. N /\ (n + 1) - 1 = n /\ n \in Nat
    BY <1>2
  <2>2. read \in Reads(C) /\ token \in C
    BY <1>2, <2>1
  <2>3. f[n + 1] = next
    BY <1>2, <2>1
  <2>4. read.depth = 0 /\ p \in Seq(C) /\ Len(p) = n /\ \A i \in 1 .. n : p[i] = text[i]
    BY <1>4
  <2>5. token # "<" /\ token # ">"
    BY <2>2
  <2>6. next = [depth |-> read.depth, plain |-> IF read.depth = 0 THEN Append(read.plain, token) ELSE read.plain]
    <3> HIDE DEF read, token
    <3> QED
      BY <2>2, <2>5, TokenIs
  <2>7. next.depth = 0 /\ next.plain = Append(p, token)
    <3> HIDE DEF next, token, read
    <3> QED
      BY <2>4, <2>6
  <2>8. Append(p, token) \in Seq(C) /\ Len(Append(p, token)) = n + 1 /\ Append(p, token)[n + 1] = token
        /\ \A i \in 1 .. n : Append(p, token)[i] = p[i]
    <3> HIDE DEF p, token
    <3> QED
      BY <2>1, <2>2, <2>4
  <2>9. \A i \in 1 .. n + 1 : Append(p, token)[i] = text[i]
    <3>1. \A i \in 1 .. n + 1 : i \in 1 .. n \/ i = n + 1
      BY <2>1
    <3> HIDE DEF p
    <3> QED
      BY <2>4, <2>8, <3>1
  <2> HIDE DEF next
  <2> QED
    BY <2>1, <2>3, <2>7, <2>8, <2>9
<1>5. N \in P
  <2>1. \A n \in 0 .. N : n \in P
    <3> HIDE DEF P, N
    <3> QED
      BY <1>2, <1>3, <1>4, BoundedInduction
  <2>2. N \in 0 .. N
    BY <1>2
  <2> HIDE DEF P
  <2> QED
    BY <2>1, <2>2
<1> DEFINE plain == f[N].plain
<1>6. f[N].depth = 0 /\ plain \in Seq(C) /\ Len(plain) = Len(text) /\ \A i \in 1 .. Len(text) : plain[i] = text[i]
  BY <1>5
<1>7. f[N] = [depth |-> 0, plain |-> plain]
  <2>1. f[N] \in Reads(C)
    BY <1>2
  <2> HIDE DEF N
  <2> QED
    BY <1>6, <2>1 DEF Reads
<1> HIDE DEF plain
<1>8. plain = text
  BY <1>6, SameSequence
<1> QED
  BY <1>2, <1>7, <1>8 DEF ReadAs

\* Template arguments leave nothing.
LEMMA ReadArguments ==
    ASSUME NEW C, {"<", ">"} \subseteq C, NEW arguments \in Seq(C),
           ReadFrom(1, arguments) = [depth |-> 1, plain |-> <<>>]
    PROVE  ReadAs(C, <<"<">> \o arguments \o <<">">>, <<>>)
<1> DEFINE open == <<"<">>
           close == <<">">>
           none == <<>>
           opened == open \o arguments
<1>1. open \in Seq(C) /\ close \in Seq(C) /\ none \in Seq(C) /\ opened \in Seq(C) /\ opened \o close \in Seq(C)
  OBVIOUS
<1>2. none \o none = none
  OBVIOUS
<1>3. ReadFrom(0, open) = [depth |-> 1, plain |-> none]
  <2> DEFINE start == [depth |-> 0, plain |-> none]
  <2>1. start \in Reads(C) /\ start.depth = 0 /\ start.plain = none
    BY <1>1 DEF Reads
  <2>2. ReadFrom(0, open) = NextToken(start, "<")
    BY ReadOne
  <2> HIDE DEF start
  <2>3. NextToken(start, "<") = [depth |-> start.depth + 1, plain |-> start.plain]
    BY <2>1, TokenIs
  <2> QED
    BY <2>1, <2>2, <2>3
<1>4. ReadFrom(1, close) = [depth |-> 0, plain |-> none]
  <2> DEFINE start == [depth |-> 1, plain |-> none]
  <2>1. start \in Reads(C) /\ start.depth = 1 /\ start.plain = none
    BY <1>1 DEF Reads
  <2>2. ReadFrom(1, close) = NextToken(start, ">")
    BY ReadOne
  <2> HIDE DEF start
  <2>3. NextToken(start, ">") = [depth |-> start.depth - 1, plain |-> start.plain]
    BY <2>1, TokenIs
  <2> QED
    BY <2>1, <2>2, <2>3
<1>5. ReadFrom(1, arguments) = [depth |-> 1, plain |-> none]
  OBVIOUS
<1> HIDE DEF open, close, none
<1>6. ReadFrom(0, opened) = After(ReadFrom(0, open).plain, ReadFrom(ReadFrom(0, open).depth, arguments))
  <2>1. 0 \in Nat /\ arguments \in Seq(C)
    OBVIOUS
  <2> QED
    BY ONLY <1>1, <2>1, ReadConcat
<1>7. ReadFrom(0, opened) = [depth |-> 1, plain |-> none]
  <2>1. ReadFrom(0, opened) = After(none, ReadFrom(1, arguments))
    BY <1>3, <1>6
  <2>2. After(none, ReadFrom(1, arguments)) = [depth |-> 1, plain |-> none \o none]
    BY <1>5 DEF After
  <2> QED
    BY <1>2, <2>1, <2>2
<1> HIDE DEF opened
<1>8. ReadFrom(0, opened \o close) = After(ReadFrom(0, opened).plain, ReadFrom(ReadFrom(0, opened).depth, close))
  <2>1. 0 \in Nat
    OBVIOUS
  <2> QED
    BY ONLY <1>1, <2>1, ReadConcat
<1>9. ReadFrom(0, opened \o close) = [depth |-> 0, plain |-> none]
  <2>1. ReadFrom(0, opened \o close) = After(none, ReadFrom(1, close))
    BY <1>7, <1>8
  <2>3. \A read : read = [depth |-> 0, plain |-> none] => After(none, read) = [depth |-> 0, plain |-> none \o none]
    BY DEF After
  <2>2. After(none, ReadFrom(1, close)) = [depth |-> 0, plain |-> none \o none]
    BY <1>4, <2>3
  <2> QED
    BY <1>2, <2>1, <2>2
<1> QED
  BY <1>1, <1>9 DEF ReadAs, open, close, none, opened

\* Of parameters, the first parenthesis is left, and something of the rest.
LEMMA ReadParameters ==
    ASSUME NEW C, {"(", ")"} \subseteq C, NEW parameters \in Seq(C)
    PROVE  \E rest \in Seq(C) : ReadFrom(0, <<"(">> \o parameters \o <<")">>).plain = <<"(">> \o rest
<1> DEFINE open == <<"(">>
           close == <<")">>
           none == <<>>
           after == parameters \o close
<1>1. open \in Seq(C) /\ close \in Seq(C) /\ none \in Seq(C) /\ after \in Seq(C)
  OBVIOUS
<1>2. open \o parameters \o close = open \o after
  <2> HIDE DEF open, close
  <2> QED
    BY <1>1
<1>3. ReadFrom(0, open) = [depth |-> 0, plain |-> open]
  <2> DEFINE start == [depth |-> 0, plain |-> none]
  <2>1. start \in Reads(C) /\ start.depth = 0 /\ start.plain = none
    BY <1>1 DEF Reads
  <2>2. ReadFrom(0, open) = NextToken(start, "(")
    BY ReadOne
  <2> HIDE DEF start
  <2>3. NextToken(start, "(") = [depth |-> start.depth, plain |-> IF start.depth = 0 THEN Append(start.plain, "(") ELSE start.plain]
    BY <2>1, TokenIs
  <2>4. Append(none, "(") = open
    OBVIOUS
  <2> QED
    BY <2>1, <2>2, <2>3, <2>4
<1>4. ReadFrom(0, open \o after) = After(ReadFrom(0, open).plain, ReadFrom(ReadFrom(0, open).depth, after))
  <2>1. 0 \in Nat
    OBVIOUS
  <2> HIDE DEF open, after
  <2> QED
    BY ONLY <1>1, <2>1, ReadConcat
<1> HIDE DEF open, after
<1>5. ReadFrom(0, open \o after) = After(open, ReadFrom(0, after))
  BY <1>3, <1>4
<1>6. ReadFrom(0, after).plain \in Seq(C)
  BY <1>1, TextIsRead DEF Reads
<1>7. ReadFrom(0, open \o after).plain = open \o ReadFrom(0, after).plain
  BY <1>5 DEF After
<1> QED
  BY <1>2, <1>6, <1>7 DEF open

LEMMA MoreTokens ==
    ASSUME NEW A, NEW B, A \subseteq B, NEW s \in Seq(A)
    PROVE  s \in Seq(B)
  OBVIOUS

\* Names with what is put between them.
LEMMA PathIs ==
    ASSUME NEW S, NEW names \in Seq(S), Len(names) >= 1
    PROVE  /\ Path(names) \in Seq(S \cup {"::"}) /\ Len(Path(names)) = 2 * Len(names) - 1
           /\ \A n \in 1 .. Len(names) : Path(names)[2 * n - 1] = names[n]
           /\ \A n \in 1 .. Len(names) - 1 : Path(names)[2 * n] = "::"
<1> DEFINE N == Len(names)
           last == 2 * N - 1
           C == S \cup {"::"}
           half(n) == (n + 1) \div 2
           path == [n \in 1 .. last |-> IF n % 2 = 1 THEN names[half(n)] ELSE "::"]
<1>1. N \in Nat /\ last \in Nat /\ names \in [1 .. N -> S]
  OBVIOUS
<1>2. Path(names) = path
  BY DEF Path
<1> HIDE DEF N
<1>3. \A n \in 1 .. last : n % 2 = 1 => half(n) \in 1 .. N
  BY <1>1
<1>4. \A n \in 1 .. N : 2 * n - 1 \in 1 .. last /\ (2 * n - 1) % 2 = 1 /\ half(2 * n - 1) = n
  BY <1>1
<1>5. \A n \in 1 .. N - 1 : 2 * n \in 1 .. last /\ (2 * n) % 2 = 0
  BY <1>1
<1> HIDE DEF half, last
<1>6. path \in [1 .. last -> C]
  BY <1>1, <1>3
<1>7. /\ \A n \in 1 .. N : path[2 * n - 1] = names[n]
      /\ \A n \in 1 .. N - 1 : path[2 * n] = "::"
  BY <1>4, <1>5
<1>8. path \in Seq(C) /\ Len(path) = last
  <2> HIDE DEF path
  <2> QED
    BY <1>1, <1>6
<1> HIDE DEF path
<1> QED
  BY <1>2, <1>7, <1>8 DEF N, last

\* A text that ends with a name, but for what may follow the last name of a path.
EndsWithName(text, name) ==
    \E at \in 1 .. Len(text) :
        text[at] = name /\ \A n \in at + 1 .. Len(text) : text[n] \in {"::", Closure}

LEMMA PathEnds ==
    ASSUME NEW S, NEW names \in Seq(S), NEW name \in S
    PROVE  EndsWithName(Path(Append(names, name)), name)
<1> DEFINE all == Append(names, name)
           N == Len(names) + 1
<1>1. all \in Seq(S) /\ Len(all) = N /\ N \in Nat /\ N >= 1 /\ all[N] = name
  OBVIOUS
<1> HIDE DEF all, N
<1>2. Len(Path(all)) = 2 * N - 1 /\ Path(all)[2 * N - 1] = all[N]
  <2>1. N \in 1 .. Len(all)
    BY <1>1
  <2> QED
    BY <1>1, <2>1, PathIs
<1>3. 2 * N - 1 \in 1 .. 2 * N - 1 /\ (2 * N - 1) + 1 .. 2 * N - 1 = {}
  BY <1>1
<1> DEFINE at == 2 * N - 1
<1> HIDE DEF at
<1>4. at \in 1 .. Len(Path(all)) /\ Path(all)[at] = name /\ at + 1 .. Len(Path(all)) = {}
  BY <1>1, <1>2, <1>3 DEF at
<1>5. EndsWithName(Path(all), name)
  BY <1>4 DEF EndsWithName
<1> QED
  BY <1>5 DEF all

LEMMA EndAfter ==
    ASSUME NEW C, NEW text \in Seq(C), NEW before \in Seq(C), NEW name, EndsWithName(text, name)
    PROVE  EndsWithName(before \o text, name)
<1> DEFINE both == before \o text
           M == Len(before)
           N == Len(text)
<1>1. IsConcat(both, before, text, C)
  BY Concatenated
<1>2. M \in Nat /\ N \in Nat /\ Len(both) = M + N /\ \A i \in 1 .. N : both[M + i] = text[i]
  BY <1>1, LengthIs DEF IsConcat
<1>3. PICK at \in 1 .. N : text[at] = name /\ \A n \in at + 1 .. N : text[n] \in {"::", Closure}
  BY DEF EndsWithName
<1> HIDE DEF both, M, N
<1>4. M + at \in 1 .. Len(both) /\ both[M + at] = name
  BY <1>2, <1>3
<1>5. ASSUME NEW n \in M + at + 1 .. Len(both) PROVE both[n] \in {"::", Closure}
  <2> DEFINE k == n - M
  <2>1. k \in at + 1 .. N /\ k \in 1 .. N /\ M + k = n
    BY <1>2, <1>3
  <2> HIDE DEF k
  <2> QED
    BY <1>2, <1>3, <2>1
<1> QED
  BY <1>4, <1>5 DEF EndsWithName, both

LEMMA EndBefore ==
    ASSUME NEW C, NEW text \in Seq(C), NEW tail \in Seq({"::", Closure}), {"::", Closure} \subseteq C,
           NEW name, EndsWithName(text, name)
    PROVE  EndsWithName(text \o tail, name)
<1> DEFINE both == text \o tail
           M == Len(text)
           N == Len(tail)
<1>1. tail \in Seq(C)
  BY MoreTokens
<1>2. IsConcat(both, text, tail, C)
  BY <1>1, Concatenated
<1>3. /\ M \in Nat /\ N \in Nat /\ Len(both) = M + N /\ \A i \in 1 .. N : both[M + i] = tail[i]
      /\ \A i \in 1 .. M : both[i] = text[i]
  BY <1>2, LengthIs DEF IsConcat
<1>4. \A i \in 1 .. N : tail[i] \in {"::", Closure}
  OBVIOUS
<1>5. PICK at \in 1 .. M : text[at] = name /\ \A n \in at + 1 .. M : text[n] \in {"::", Closure}
  BY DEF EndsWithName
<1> HIDE DEF both, M, N
<1>6. at \in 1 .. Len(both) /\ both[at] = name
  BY <1>3, <1>5
<1>7. ASSUME NEW n \in at + 1 .. Len(both) PROVE both[n] \in {"::", Closure}
  <2>1. CASE n \in 1 .. M
    <3>1. n \in at + 1 .. M
      BY <1>3, <1>5, <2>1
    <3> QED
      BY <1>3, <1>5, <2>1, <3>1
  <2>2. CASE n \notin 1 .. M
    <3> DEFINE k == n - M
    <3>1. k \in 1 .. N /\ M + k = n
      BY <1>3, <1>5, <2>2
    <3> HIDE DEF k
    <3>2. both[n] = tail[k]
      BY <1>3, <3>1
    <3> QED
      BY <1>4, <3>1, <3>2
  <2> QED
    BY <2>1, <2>2
<1> QED
  BY <1>6, <1>7 DEF EndsWithName, both

LEMMA LastSegment ==
    ASSUME NEW C, NEW text \in Seq(C), NEW name \in Words, EndsWithName(text, name)
    PROVE  Segments(text) # {} /\ text[Max(Segments(text))] = name
<1> DEFINE N == Len(text)
           segments == Segments(text)
<1>1. N \in Nat /\ DOMAIN text = 1 .. N
  OBVIOUS
<1>2. PICK at \in 1 .. N : text[at] = name /\ \A n \in at + 1 .. N : text[n] \in {"::", Closure}
  BY DEF EndsWithName
<1>3. name \notin {"::", " ", Closure}
  BY FunctionsAssumption DEF Punctuation
<1>4. \A n \in at .. N : text[n] # " "
  <2> SUFFICES ASSUME NEW n \in at .. N PROVE text[n] # " "
    OBVIOUS
  <2>1. n = at \/ n \in at + 1 .. N
    BY <1>1, <1>2
  <2> HIDE DEF N
  <2> QED
    BY <1>2, <1>3, <2>1 DEF Closure
<1>5. at \in segments
  <2> HIDE DEF N
  <2>1. at \in DOMAIN text
    BY <1>1, <1>2
  <2>2. \A m \in at .. Len(text) : text[m] # " "
    BY <1>4 DEF N
  <2> QED
    BY <1>2, <1>3, <2>1, <2>2 DEF Segments
<1>6. \A n \in segments : n \in 1 .. N /\ n <= at
  <2> SUFFICES ASSUME NEW n \in segments PROVE n \in 1 .. N /\ n <= at
    OBVIOUS
  <2>1. n \in 1 .. N /\ text[n] \notin {"::", " ", Closure}
    BY <1>1 DEF Segments
  <2>2. n \notin at + 1 .. N
    BY <1>2, <2>1
  <2>3. at \in 1 .. N /\ N \in Nat
    BY <1>1, <1>2
  <2>4. ASSUME NEW l \in Nat, NEW a \in 1 .. l, NEW k \in 1 .. l, k \notin a + 1 .. l PROVE k <= a
    BY <2>4
  <2> HIDE DEF N, segments
  <2> QED
    BY <2>1, <2>2, <2>3, <2>4
<1> HIDE DEF segments
<1>7. segments \in SUBSET (1 .. N) /\ segments # {}
  BY <1>5, <1>6
<1> HIDE DEF N
<1>8. Max(segments) \in segments /\ \A n \in segments : n <= Max(segments)
  BY <1>1, <1>7, GreatestOf
<1> DEFINE max == Max(segments)
<1>9. max \in segments /\ \A n \in segments : n <= max
  BY <1>8
<1> HIDE DEF max
<1>10. max = at
  <2>1. max \in Nat /\ at \in Nat /\ max <= at /\ at <= max
    BY <1>1, <1>2, <1>5, <1>6, <1>9
  <2> QED
    BY <2>1
<1> QED
  BY <1>2, <1>7, <1>10 DEF max, segments

\* A text up to its first parenthesis.
LEMMA BeforeIs ==
    ASSUME NEW C, NEW head \in Seq(C), C \cap Opening = {}, NEW D, NEW rest \in Seq(D),
           rest = <<>> \/ (rest # <<>> /\ rest[1] = "(")
    PROVE  BeforeParameters(head \o rest) = head
<1> DEFINE both == head \o rest
           M == Len(head)
           N == Len(rest)
           B == C \cup D
           open == {n \in DOMAIN both : both[n] \in Opening}
<1>1. IsConcat(both, head, rest, B) /\ head \in Seq(B)
  <2>1. head \in Seq(B) /\ rest \in Seq(B)
    BY MoreTokens
  <2> HIDE DEF B
  <2> QED
    BY <2>1, Concatenated
<1>2. M \in Nat /\ N \in Nat
  BY LengthIs
<1> HIDE DEF B, both, M, N
<1>3. /\ both \in Seq(B) /\ Len(both) = M + N /\ DOMAIN both = 1 .. M + N
      /\ \A i \in 1 .. M : both[i] = head[i]
      /\ \A i \in 1 .. N : both[M + i] = rest[i]
  <2>1. /\ both \in Seq(B) /\ Len(both) = M + N
        /\ \A i \in 1 .. M : both[i] = head[i]
        /\ \A i \in 1 .. N : both[M + i] = rest[i]
    BY <1>1 DEF IsConcat, M, N
  <2>2. DOMAIN both = 1 .. Len(both)
    BY <2>1
  <2> QED
    BY <2>1, <2>2
<1>4. \A i \in 1 .. M : both[i] \notin Opening
  <2>1. \A i \in 1 .. M : head[i] \in C
    BY DEF M
  <2> QED
    BY <1>3, <2>1
<1>5. SubSeq(both, 1, M) = head
  <2>1. 1 \in 1 .. Len(both) + 1 /\ M \in 1 - 1 .. Len(both)
    BY <1>2, <1>3
  <2> DEFINE cut == SubSeq(both, 1, M)
  <2>2. cut \in Seq(B) /\ Len(cut) = M - 1 + 1 /\ \A i \in 1 .. M - 1 + 1 : cut[i] = both[1 + i - 1]
    BY <1>3, <2>1, SubSeqIs
  <2> HIDE DEF cut
  <2>3. Len(cut) = Len(head) /\ \A i \in 1 .. Len(cut) : cut[i] = head[i]
    BY <1>2, <1>3, <2>2 DEF M
  <2> QED
    BY <1>1, <2>2, <2>3, SameSequence DEF cut
<1>6. CASE N = 0
  <2>1. open = {}
    BY <1>2, <1>3, <1>4, <1>6
  <2>2. BeforeParameters(both) = SubSeq(both, 1, Len(both))
    BY <2>1 DEF BeforeParameters
  <2> QED
    BY <1>2, <1>3, <1>5, <1>6, <2>2 DEF both
<1>7. CASE N # 0
  <2>1. rest[1] = "("
    BY <1>7 DEF N
  <2>2. M + 1 \in open
    <3>1. 1 \in 1 .. N /\ M + 1 \in 1 .. M + N
      BY <1>2, <1>7
    <3> QED
      BY <1>3, <2>1, <3>1 DEF Opening
  <2>3. \A n \in open : n \in Nat /\ M + 1 <= n
    <3> SUFFICES ASSUME NEW n \in open PROVE n \in Nat /\ M + 1 <= n
      OBVIOUS
    <3>1. n \in 1 .. M + N /\ n \notin 1 .. M
      BY <1>3, <1>4
    <3> QED
      BY <1>2, <3>1
  <2> HIDE DEF open
  <2>4. \E x \in open : \A y \in open : x <= y
    BY <2>2, <2>3
  <2>5. Min(open) \in open /\ \A y \in open : Min(open) <= y
    BY <2>4, Zenon DEF Min
  <2> DEFINE min == Min(open)
  <2>6. min \in open /\ \A y \in open : min <= y
    BY <2>5
  <2> HIDE DEF min
  <2>7. min = M + 1 /\ min - 1 = M
    <3>1. min \in Nat /\ M + 1 <= min /\ min <= M + 1
      BY <2>2, <2>3, <2>6
    <3> QED
      BY <1>2, <3>1
  <2>8. open # {}
    BY <2>2
  <2>9. BeforeParameters(both) = SubSeq(both, 1, Min(open) - 1)
    BY <2>8 DEF BeforeParameters, open
  <2>10. Min(open) - 1 = M
    BY <2>7 DEF min
  <2> QED
    BY <1>5, <2>9, <2>10 DEF both
<1> QED
  BY <1>6, <1>7

-----------------------------------------------------------------------------
(* The name in a symbol *)

OwnNames == Words \ {"std", "ThreadEventQueue"}
HeadTokens == OwnNames \cup {"<", ">", "::", " ", ")", Closure}
Tokens == HeadTokens \cup {"("}

LEMMA TokensApart ==
    /\ HeadTokens \cap Opening = {} /\ OwnNames \cap (Punctuation \cup {"std", "ThreadEventQueue"}) = {}
    /\ Tokens \cap ({"at ", Offset, Inlined, Operator, "(anonymous namespace)", "std", "ThreadEventQueue"} \cup Mangling) = {}
<1>1. Words \cap Punctuation = {}
  BY FunctionsAssumption
<1> QED
  BY <1>1 DEF Punctuation, Opening, Mangling, Offset, Inlined, Closure, Operator, OwnNames, HeadTokens, Tokens

LEMMA TokensTogether ==
    /\ {"<", ">", "::", " ", ")", Closure} \subseteq HeadTokens /\ OwnNames \subseteq HeadTokens
    /\ HeadTokens \subseteq Tokens /\ {"<", ">", "::", " ", "(", ")", Closure} \subseteq Tokens
  BY DEF Tokens, HeadTokens

LEMMA OneToken ==
    ASSUME NEW C, NEW token \in C
    PROVE  <<token>> \in Seq(C) /\ Len(<<token>>) = 1 /\ <<token>>[1] = token /\ <<token>> # <<>>
  OBVIOUS

LEMMA AppendIs == ASSUME NEW C, NEW text \in Seq(C), NEW token PROVE Append(text, token) = text \o <<token>>
<1> DEFINE D == C \cup {token}
<1>1. text \in Seq(D) /\ token \in D
  BY MoreTokens
<1> HIDE DEF D
<1> QED
  BY <1>1

LEMMA TokensIn == ASSUME NEW C, NEW text \in Seq(C) PROVE \A i \in 1 .. Len(text) : text[i] \in C
  OBVIOUS

LEMMA SeparatorIs == ASSUME NEW C, "::" \in C, NEW text \in {<<>>, <<"::">>} PROVE text \in Seq(C)
<1>1. <<>> \in Seq(C)
  OBVIOUS
<1>2. <<"::">> \in Seq(C)
  BY OneToken
<1>3. text = <<>> \/ text = <<"::">>
  OBVIOUS
<1> QED
  BY ONLY <1>1, <1>2, <1>3

Grouped(s, t, u, v) == s \o t \o u \o v = s \o (t \o u \o v)

LEMMA Regroup ==
    ASSUME NEW C, NEW s \in Seq(C), NEW t \in Seq(C), NEW u \in Seq(C), NEW v \in Seq(C)
    PROVE  Grouped(s, t, u, v)
<1> DEFINE tu == t \o u
<1>1. (s \o t) \o u = s \o tu
  OBVIOUS
<1>2. tu \in Seq(C)
  OBVIOUS
<1> HIDE DEF tu
<1>3. (s \o tu) \o v = s \o (tu \o v)
  BY <1>2
<1> QED
  BY <1>1, <1>3 DEF tu, Grouped

LEMMA MoreRead ==
    ASSUME NEW A, NEW B, A \subseteq B, NEW text, NEW plain, ReadAs(A, text, plain)
    PROVE  ReadAs(B, text, plain)
  BY MoreTokens DEF ReadAs

\* Without its template arguments, the text ends with the name before its first parenthesis.
Names(text, name) ==
    \E head \in Seq(HeadTokens), rest \in Seq(Tokens) :
        /\ WithoutTemplates(text) = head \o rest /\ EndsWithName(head, name)
        /\ rest = <<>> \/ (rest # <<>> /\ rest[1] = "(")

LEMMA NameOf ==
    ASSUME NEW symbol, NEW name \in Words, Names(Demangled(BareSymbol(symbol.text)), name),
           BareSymbol(symbol.text) # <<>>, BareSymbol(symbol.text)[1] # "at "
    PROVE  FunctionName(symbol) = <<name>>
<1> DEFINE bare == BareSymbol(symbol.text)
           plain == WithoutTemplates(Demangled(bare))
           path == BeforeParameters(plain)
           segments == Segments(path)
<1>1. PICK head \in Seq(HeadTokens), rest \in Seq(Tokens) :
          /\ plain = head \o rest /\ EndsWithName(head, name)
          /\ rest = <<>> \/ (rest # <<>> /\ rest[1] = "(")
  BY DEF Names
<1>2. bare # <<>> /\ bare[1] # "at "
  OBVIOUS
<1> HIDE DEF bare
<1>3. plain \in Seq(Tokens)
  <2>1. HeadTokens \subseteq Tokens
    BY DEF Tokens
  <2>2. head \in Seq(Tokens)
    BY <2>1, MoreTokens
  <2>3. head \o rest \in Seq(Tokens)
    BY <2>2, ConcatIs
  <2> QED
    BY <1>1, <2>3
<1>4. path = head
  <2>1. HeadTokens \cap Opening = {}
    BY TokensApart
  <2>2. BeforeParameters(head \o rest) = head
    BY <1>1, <2>1, BeforeIs
  <2> QED
    BY <1>1, <2>2
<1> HIDE DEF plain
<1>5. ~Contains(plain, Operator)
  <2>1. Operator \notin Tokens
    BY TokensApart
  <2>2. \A i \in 1 .. Len(plain) : plain[i] \in Tokens
    BY <1>3, TokensIn
  <2>3. \A i \in 1 .. Len(plain) : plain[i] # Operator
    BY <2>1, <2>2
  <2> QED
    BY <2>3, Zenon DEF Contains
<1>6. Segments(head) # {} /\ head[Max(Segments(head))] = name
  BY <1>1, LastSegment
<1>7. segments # {} /\ path[Max(segments)] = name
  BY <1>4, <1>6
<1> HIDE DEF segments, path
<1>8. FunctionName(symbol) =
          IF \/ bare = <<>> \/ bare[1] = "at " \/ Contains(plain, Operator) \/ segments = {}
             \/ path[Max(segments)] \notin Words
          THEN <<>> ELSE <<path[Max(segments)]>>
  BY DEF FunctionName, bare, plain, path, segments
<1> QED
  BY <1>2, <1>5, <1>7, <1>8

\* A text without parentheses and template arguments.
LEMMA PlainNames ==
    ASSUME NEW text \in Seq(OwnNames \cup {"::"}), NEW name, EndsWithName(text, name)
    PROVE  Names(text, name)
<1> DEFINE C == OwnNames \cup {"::"}
           none == <<>>
<1>1. "<" \notin C /\ ">" \notin C
  BY TokensApart DEF Punctuation
<1>2. WithoutTemplates(text) = text
  <2>1. ReadAs(C, text, text)
    BY <1>1, ReadPlain
  <2> QED
    BY <2>1 DEF ReadAs, WithoutTemplates
<1>3. text \in Seq(HeadTokens)
  <2>1. C \subseteq HeadTokens
    BY DEF HeadTokens
  <2> QED
    BY <2>1, MoreTokens
<1>4. none \in Seq(Tokens) /\ text \o none = text
  OBVIOUS
<1> HIDE DEF none
<1>5. none = <<>>
  BY DEF none
<1> QED
  BY <1>2, <1>3, <1>4, <1>5 DEF Names

\* What is left of what a function returns.
LEMMA ReturnsRead ==
    ASSUME NEW returns \in Seq(Tokens), ReadFrom(0, returns).depth = 0,
           "(" \notin ToSet(WithoutTemplates(returns))
    PROVE  \E r \in Seq(HeadTokens) : ReadAs(Tokens, WhereAny(returns, Append(returns, " ")), r)
<1>1. CASE returns = <<>>
  <2> DEFINE none == <<>>
  <2>1. WhereAny(returns, Append(returns, " ")) = none
    BY <1>1 DEF WhereAny
  <2>2. ReadAs(Tokens, none, none) /\ none \in Seq(HeadTokens)
    BY NothingRead
  <2> QED
    BY <2>1, <2>2
<1>2. CASE returns # <<>>
  <2> DEFINE p == WithoutTemplates(returns)
             space == <<" ">>
  <2>1. WhereAny(returns, Append(returns, " ")) = returns \o space
    BY <1>2, AppendIs DEF WhereAny
  <2>2. ReadFrom(0, returns) \in Reads(Tokens)
    <3>1. 0 \in Nat
      OBVIOUS
    <3> QED
      BY <3>1, TextIsRead
  <2>3. ReadFrom(0, returns) = [depth |-> 0, plain |-> p] /\ p \in Seq(Tokens)
    BY <2>2 DEF Reads, WithoutTemplates
  <2>4. ReadAs(Tokens, returns, p)
    BY <2>3 DEF ReadAs
  <2>5. ReadAs(Tokens, space, space)
    <3> DEFINE C == {" "}
    <3>1. space \in Seq(C) /\ "<" \notin C /\ ">" \notin C /\ C \subseteq Tokens
      BY OneToken, TokensTogether
    <3> HIDE DEF space, C
    <3>2. ReadAs(C, space, space)
      BY <3>1, ReadPlain
    <3> QED
      BY <3>1, <3>2, MoreRead
  <2>6. ReadAs(Tokens, returns \o space, p \o space)
    <3> HIDE DEF p, space
    <3> QED
      BY <2>4, <2>5, ReadAsConcat
  <2>7. p \in Seq(HeadTokens)
    <3>1. \A i \in 1 .. Len(p) : p[i] \in Tokens /\ p[i] # "("
      BY <2>3 DEF ToSet
    <3> HIDE DEF p
    <3>2. \A i \in 1 .. Len(p) : p[i] \in HeadTokens
      BY <3>1 DEF Tokens
    <3> QED
      BY <2>3, <3>2
  <2>8. space \in Seq(HeadTokens)
    BY OneToken, TokensTogether
  <2>9. p \o space \in Seq(HeadTokens)
    <3> HIDE DEF p, space
    <3> QED
      BY <2>7, <2>8, ConcatIs
  <2> QED
    BY <2>1, <2>6, <2>9
<1> QED
  BY <1>1, <1>2

\* And of its template arguments.
LEMMA TemplateRead ==
    ASSUME NEW arguments \in Seq(Tokens), ReadFrom(1, arguments) = [depth |-> 1, plain |-> <<>>],
           NEW separator \in {<<>>, <<"::">>}
    PROVE  \E a \in {<<>>, <<"::">>} :
              ReadAs(Tokens, WhereAny(arguments, separator \o <<"<">> \o arguments \o <<">">>), a)
<1> DEFINE none == <<>>
<1>1. CASE arguments = <<>>
  <2>1. WhereAny(arguments, separator \o <<"<">> \o arguments \o <<">">>) = none
    BY <1>1 DEF WhereAny
  <2>2. ReadAs(Tokens, none, none)
    BY NothingRead
  <2> QED
    BY <2>1, <2>2
<1>2. CASE arguments # <<>>
  <2> DEFINE open == <<"<">>
             close == <<">">>
             bracketed == open \o arguments \o close
  <2>1. WhereAny(arguments, separator \o open \o arguments \o close) = separator \o open \o arguments \o close
    BY <1>2 DEF WhereAny
  <2>2. open \in Seq(Tokens) /\ close \in Seq(Tokens) /\ separator \in Seq(Tokens)
    <3>1. open \in Seq(Tokens) /\ close \in Seq(Tokens)
      BY OneToken, TokensTogether
    <3>2. separator \in Seq(Tokens)
      BY SeparatorIs, TokensTogether
    <3> QED
      BY <3>1, <3>2
  <2>3. {"<", ">"} \subseteq Tokens
    BY DEF Tokens, HeadTokens
  <2>4. ReadAs(Tokens, bracketed, none)
    BY <2>3, ReadArguments
  <2>5. ReadAs(Tokens, separator, separator)
    <3>1. CASE separator = <<>>
      BY <3>1, NothingRead
    <3>2. CASE separator = <<"::">>
      <4> DEFINE C == {"::"}
      <4>1. separator \in Seq(C) /\ "<" \notin C /\ ">" \notin C /\ C \subseteq Tokens
        BY <3>2, OneToken, TokensTogether
      <4> HIDE DEF C
      <4>2. ReadAs(C, separator, separator)
        BY <4>1, ReadPlain
      <4> QED
        BY <4>1, <4>2, MoreRead
    <3> QED
      BY <3>1, <3>2
  <2> HIDE DEF open, close
  <2>6. separator \o open \o arguments \o close = separator \o bracketed
    <3>1. arguments \in Seq(Tokens)
      OBVIOUS
    <3>2. Grouped(separator, open, arguments, close)
      BY <2>2, <3>1, Regroup
    <3> QED
      BY <3>2 DEF Grouped
  <2> HIDE DEF bracketed, none
  <2>7. ReadAs(Tokens, separator \o bracketed, separator \o none)
    BY <2>4, <2>5, ReadAsConcat
  <2>8. separator \o none = separator
    BY <2>2 DEF none
  <2>9. ReadAs(Tokens, separator \o open \o arguments \o close, separator)
    BY <2>6, <2>7, <2>8
  <2>10. ReadAs(Tokens, WhereAny(arguments, separator \o open \o arguments \o close), separator)
    BY <2>1, <2>9
  <2> QED
    BY <2>10 DEF open, close
<1> QED
  BY <1>1, <1>2

\* A whole path.
LEMMA PathNames ==
    ASSUME NEW r0, NEW r \in Seq(HeadTokens), ReadAs(Tokens, r0, r),
           NEW scope \in Seq(OwnNames), NEW name \in OwnNames,
           NEW a0, NEW a \in {<<>>, <<"::">>}, ReadAs(Tokens, a0, a),
           NEW closing \in {<<>>, <<"::", Closure>>},
           NEW parameters \in Seq(Tokens), NEW q \in {<<>>, <<"(">> \o parameters \o <<")">>}
    PROVE  /\ Names(r0 \o Path(Append(scope, name)) \o a0 \o closing \o q, name)
           /\ r0 \o Path(Append(scope, name)) \o a0 \o closing \o q \in Seq(Tokens)
           /\ Len(r0 \o Path(Append(scope, name)) \o a0 \o closing \o q)
                 >= 2 * Len(scope) + 1 + Len(q)
<1> DEFINE path == Path(Append(scope, name))
           C == OwnNames \cup {"::"}
           E == {"::", Closure}
           t0 == r0 \o path \o a0 \o closing
           head == r \o path \o a \o closing
<1>1. /\ "<" \notin C /\ ">" \notin C /\ C \subseteq Tokens /\ C \subseteq HeadTokens
      /\ "<" \notin E /\ ">" \notin E /\ E \subseteq Tokens /\ E \subseteq HeadTokens
      /\ {"(", ")"} \subseteq Tokens
  <2>1. "<" \notin C /\ ">" \notin C
    BY TokensApart DEF Punctuation
  <2>2. "<" \notin E /\ ">" \notin E
    BY DEF Closure
  <2> QED
    BY <2>1, <2>2, TokensTogether
<1>2. a \in Seq(E) /\ closing \in Seq(E)
  <2>1. a \in Seq(E)
    BY SeparatorIs
  <2> DEFINE two == <<"::", Closure>>
  <2>2. two \in Seq(E)
    OBVIOUS
  <2>3. closing = <<>> \/ closing = two
    OBVIOUS
  <2>4. <<>> \in Seq(E)
    OBVIOUS
  <2> HIDE DEF two, E
  <2> QED
    BY ONLY <2>1, <2>2, <2>4, <2>3
<1>3. path \in Seq(C) /\ Len(path) = 2 * Len(scope) + 1
  <2> DEFINE all == Append(scope, name)
  <2>1. all \in Seq(OwnNames) /\ Len(all) = Len(scope) + 1 /\ Len(scope) \in Nat
    OBVIOUS
  <2> HIDE DEF all
  <2>4. Len(all) >= 1
    BY <2>1
  <2>2. Path(all) \in Seq(C) /\ Len(Path(all)) = 2 * Len(all) - 1
    BY <2>1, <2>4, PathIs
  <2>3. Len(Path(all)) = 2 * Len(scope) + 1
    BY <2>1, <2>2
  <2> QED
    BY <2>2, <2>3 DEF all
<1>4. EndsWithName(path, name)
  BY PathEnds
<1> HIDE DEF path, C, E
<1>5. ReadAs(Tokens, path, path) /\ ReadAs(Tokens, closing, closing)
  <2>1. ReadAs(C, path, path)
    BY <1>1, <1>3, ReadPlain
  <2>2. ReadAs(E, closing, closing)
    BY <1>1, <1>2, ReadPlain
  <2> QED
    BY <1>1, <2>1, <2>2, MoreRead
<1>6. ReadAs(Tokens, t0, head)
  <2>1. ReadAs(Tokens, r0 \o path, r \o path)
    BY <1>5, ReadAsConcat
  <2>2. ReadAs(Tokens, r0 \o path \o a0, r \o path \o a)
    BY <2>1, ReadAsConcat
  <2> QED
    BY <1>5, <2>2, ReadAsConcat
<1>7. head \in Seq(HeadTokens) /\ EndsWithName(head, name)
  <2>1. path \in Seq(HeadTokens) /\ a \in Seq(HeadTokens) /\ closing \in Seq(HeadTokens)
    BY <1>1, <1>2, <1>3, MoreTokens
  <2>2. r \o path \in Seq(HeadTokens) /\ EndsWithName(r \o path, name)
    BY <1>4, <2>1, EndAfter, ConcatIs
  <2>3. E = {"::", Closure} /\ {"::", Closure} \subseteq HeadTokens
    BY <1>1 DEF E
  <2> DEFINE one == r \o path
  <2>4. one \in Seq(HeadTokens) /\ EndsWithName(one, name)
    BY <2>2
  <2> HIDE DEF one
  <2>5. one \o a \in Seq(HeadTokens) /\ EndsWithName(one \o a, name)
    BY <1>2, <2>1, <2>3, <2>4, EndBefore, ConcatIs
  <2> DEFINE two == one \o a
  <2>6. two \in Seq(HeadTokens) /\ EndsWithName(two, name)
    BY <2>5
  <2> HIDE DEF two
  <2>7. two \o closing \in Seq(HeadTokens) /\ EndsWithName(two \o closing, name)
    BY <1>2, <2>1, <2>3, <2>6, EndBefore, ConcatIs
  <2> QED
    BY <2>7 DEF two, one
<1>8. t0 \in Seq(Tokens) /\ head \in Seq(Tokens) /\ q \in Seq(Tokens) /\ t0 \o q \in Seq(Tokens)
  <2>1. t0 \in Seq(Tokens) /\ head \in Seq(Tokens)
    BY <1>6 DEF ReadAs
  <2>2. q \in Seq(Tokens)
    <3> DEFINE open == <<"(">>
               close == <<")">>
    <3>1. open \in Seq(Tokens) /\ close \in Seq(Tokens)
      BY <1>1, OneToken
    <3>2. q = <<>> \/ q = open \o parameters \o close
      OBVIOUS
    <3>3. parameters \in Seq(Tokens)
      OBVIOUS
    <3>4. <<>> \in Seq(Tokens)
      OBVIOUS
    <3> HIDE DEF open, close
    <3>5. open \o parameters \o close \in Seq(Tokens)
      BY ONLY <3>1, <3>3, ConcatIs
    <3> QED
      BY ONLY <3>2, <3>4, <3>5
  <2> HIDE DEF t0
  <2> QED
    BY <2>1, <2>2, ConcatIs
<1>9. Len(t0 \o q) >= 2 * Len(scope) + 1 + Len(q)
  <2>1. r0 \in Seq(Tokens) /\ path \in Seq(Tokens) /\ a0 \in Seq(Tokens) /\ closing \in Seq(Tokens)
    BY <1>5 DEF ReadAs
  <2>2. r0 \o path \in Seq(Tokens) /\ Len(r0 \o path) = Len(r0) + Len(path)
    BY <2>1, ConcatIs
  <2>3. r0 \o path \o a0 \in Seq(Tokens) /\ Len(r0 \o path \o a0) = Len(r0 \o path) + Len(a0)
    BY <2>1, <2>2, ConcatIs
  <2>4. Len(t0) = Len(r0 \o path \o a0) + Len(closing)
    BY <2>1, <2>3, ConcatIs
  <2>5. Len(t0 \o q) = Len(t0) + Len(q)
    <3> HIDE DEF t0
    <3> QED
      BY <1>8, ConcatIs
  <2>6. Len(r0) \in Nat /\ Len(path) \in Nat /\ Len(a0) \in Nat /\ Len(closing) \in Nat /\ Len(q) \in Nat /\ Len(scope) \in Nat
    BY <1>8, <2>1, LengthIs
  <2>7. Len(t0 \o q) = Len(r0) + Len(path) + Len(a0) + Len(closing) + Len(q)
    BY <2>2, <2>3, <2>4, <2>5
  <2> HIDE DEF t0
  <2> QED
    BY <1>3, <2>6, <2>7
<1> HIDE DEF t0, head
<1>10. \E rest \in Seq(Tokens) : /\ WithoutTemplates(t0 \o q) = head \o rest
                                 /\ rest = <<>> \/ (rest # <<>> /\ rest[1] = "(")
  <2>1. WithoutTemplates(t0 \o q) = head \o ReadFrom(0, q).plain
    <3>1. ReadFrom(0, t0 \o q) = After(ReadFrom(0, t0).plain, ReadFrom(ReadFrom(0, t0).depth, q))
      <4>1. 0 \in Nat /\ t0 \in Seq(Tokens) /\ q \in Seq(Tokens)
        BY <1>8
      <4> QED
        BY ONLY <4>1, ReadConcat
    <3>2. ReadFrom(0, t0).plain = head /\ ReadFrom(0, t0).depth = 0
      BY <1>6 DEF ReadAs
    <3>3. ReadFrom(0, t0 \o q) = After(head, ReadFrom(0, q))
      BY <3>1, <3>2
    <3> QED
      BY <3>3 DEF WithoutTemplates, After
  <2>2. CASE q = <<>>
    <3> DEFINE none == <<>>
    <3>1. ReadAs(Tokens, none, none)
      BY NothingRead
    <3>2. ReadFrom(0, q).plain = none /\ none \in Seq(Tokens)
      BY <2>2, <3>1 DEF ReadAs
    <3> QED
      BY <2>1, <3>2
  <2>3. CASE q = <<"(">> \o parameters \o <<")">>
    <3> DEFINE open == <<"(">>
    <3>1. PICK z \in Seq(Tokens) : ReadFrom(0, q).plain = open \o z
      BY <1>1, <2>3, ReadParameters
    <3>2. open \in Seq(Tokens) /\ Len(open) = 1 /\ open[1] = "("
      BY <1>1, OneToken
    <3> DEFINE rest == open \o z
    <3>3. rest \in Seq(Tokens) /\ Len(rest) = 1 + Len(z) /\ rest[1] = "(" /\ Len(z) \in Nat
      <4> HIDE DEF open
      <4>1. 1 \in 1 .. Len(open)
        BY <3>2
      <4>2. IsConcat(open \o z, open, z, Tokens)
        BY <3>2, Concatenated
      <4> QED
        BY <3>2, <4>1, <4>2, LengthIs DEF IsConcat
    <3> HIDE DEF rest
    <3>4. rest # <<>>
      BY <3>3, EmptyIs
    <3>5. WithoutTemplates(t0 \o q) = head \o rest
      BY <2>1, <3>1 DEF rest
    <3> QED
      BY <3>3, <3>4, <3>5
  <2> QED
    BY <2>2, <2>3
<1>11. Names(t0 \o q, name)
  BY <1>7, <1>10 DEF Names
<1> QED
  BY <1>8, <1>9, <1>11 DEF t0, path

-----------------------------------------------------------------------------
(* What surrounds a symbol *)

LEMMA OffsetCut ==
    ASSUME NEW C, NEW inner \in Seq(C), inner # <<>>, inner[Len(inner)] # Offset,
           NEW after \in {<<>>, <<Offset>>}, NEW text, text = inner \o after
    PROVE  (IF text # <<>> /\ text[Len(text)] = Offset THEN SubSeq(text, 1, Len(text) - 1) ELSE text) = inner
<1>1. Len(inner) \in Nat /\ Len(inner) # 0
  BY LengthIs, EmptyIs
<1>2. CASE after = <<>>
  <2>1. text = inner
    BY <1>2
  <2> QED
    BY <2>1
<1>3. CASE after = <<Offset>>
  <2> DEFINE B == C \cup {Offset}
             one == <<Offset>>
             cut == SubSeq(text, 1, Len(text) - 1)
  <2>1. inner \in Seq(B) /\ one \in Seq(B) /\ Len(one) = 1 /\ one[1] = Offset
    BY MoreTokens, OneToken
  <2>2. text = inner \o one
    BY <1>3
  <2> HIDE DEF one, B
  <2>3. IsConcat(text, inner, one, B)
    BY <2>1, <2>2, Concatenated
  <2>4. 1 \in 1 .. Len(one)
    BY <2>1
  <2>5. /\ text \in Seq(B) /\ Len(text) = Len(inner) + 1 /\ text[Len(inner) + 1] = Offset
        /\ \A i \in 1 .. Len(inner) : text[i] = inner[i]
    BY <2>1, <2>3, <2>4 DEF IsConcat
  <2>6. text # <<>> /\ text[Len(text)] = Offset
    BY <1>1, <2>5, EmptyIs
  <2>7. 1 \in 1 .. Len(text) + 1 /\ Len(text) - 1 \in 1 - 1 .. Len(text) /\ Len(text) - 1 - 1 + 1 = Len(inner)
    BY <1>1, <2>5
  <2>8. /\ cut \in Seq(B) /\ Len(cut) = Len(text) - 1 - 1 + 1
        /\ \A i \in 1 .. Len(text) - 1 - 1 + 1 : cut[i] = text[1 + i - 1]
    BY <2>5, <2>7, SubSeqIs
  <2> HIDE DEF cut
  <2>9. Len(cut) = Len(inner) /\ \A i \in 1 .. Len(cut) : cut[i] = inner[i]
    BY <1>1, <2>5, <2>7, <2>8
  <2>10. cut = inner
    BY <2>1, <2>8, <2>9, SameSequence
  <2> QED
    BY <2>6, <2>10 DEF cut
<1> QED
  BY <1>2, <1>3

\* The mark of inlining and the offset are taken away.
LEMMA BareIs ==
    ASSUME NEW D, Offset \notin D, Inlined \notin D, NEW body \in Seq(D), body # <<>>,
           NEW before \in {<<>>, <<Inlined>>}, NEW after \in {<<>>, <<Offset>>}
    PROVE  BareSymbol(before \o body \o after) = body
<1> DEFINE C == D \cup {Inlined}
           inner == before \o body
           text == inner \o after
           symbol == IF text # <<>> /\ text[Len(text)] = Offset THEN SubSeq(text, 1, Len(text) - 1) ELSE text
           one == <<Inlined>>
<1>1. one \in Seq(C) /\ Len(one) = 1 /\ one[1] = Inlined /\ body \in Seq(C)
  BY MoreTokens, OneToken
<1>2. before = <<>> \/ before = one
  OBVIOUS
<1>3. \A i \in 1 .. Len(body) : body[i] \in D
  BY TokensIn
<1>4. Len(body) \in Nat /\ Len(body) # 0
  BY LengthIs, EmptyIs
<1>5. body[1] # Inlined /\ body[Len(body)] # Offset
  <2>1. 1 \in 1 .. Len(body) /\ Len(body) \in 1 .. Len(body)
    BY <1>4
  <2> QED
    BY <1>3, <2>1
<1>6. BareSymbol(text) = IF symbol # <<>> /\ symbol[1] = Inlined THEN Tail(symbol) ELSE symbol
  BY DEF BareSymbol
<1> HIDE DEF symbol, one, C
<1>7. CASE before = <<>>
  <2>1. inner = body
    BY <1>7
  <2>2. symbol = body
    BY <1>1, <1>5, <2>1, OffsetCut DEF symbol
  <2> HIDE DEF text, inner
  <2> QED
    BY <1>5, <1>6, <2>2 DEF text, inner
<1>8. CASE before = one
  <2>1. inner = one \o body
    BY <1>8
  <2> HIDE DEF inner
  <2>2. IsConcat(inner, one, body, C)
    BY <1>1, <2>1, Concatenated
  <2>3. /\ inner \in Seq(C) /\ Len(inner) = 1 + Len(body) /\ inner[1] = Inlined
        /\ \A i \in 1 .. Len(body) : inner[1 + i] = body[i]
    <3>1. 1 \in 1 .. Len(one)
      BY <1>1
    <3> QED
      BY <1>1, <2>2, <3>1 DEF IsConcat
  <2>4. inner # <<>> /\ inner[Len(inner)] # Offset
    <3>1. Len(body) \in 1 .. Len(body) /\ Len(inner) # 0
      BY <1>4, <2>3
    <3> QED
      BY <1>5, <2>3, <3>1, EmptyIs
  <2>5. symbol = inner
    BY <2>3, <2>4, OffsetCut DEF symbol
  <2>6. Tail(inner) = body
    <3> DEFINE tail == Tail(inner)
    <3>1. tail \in Seq(C) /\ Len(tail) = Len(inner) - 1 /\ \A i \in 1 .. Len(inner) - 1 : tail[i] = inner[i + 1]
      BY <2>3, <2>4
    <3> HIDE DEF tail
    <3>2. Len(tail) = Len(body) /\ \A i \in 1 .. Len(tail) : tail[i] = body[i]
      <4>1. \A i \in 1 .. Len(body) : i + 1 = 1 + i
        OBVIOUS
      <4> QED
        BY <1>4, <2>3, <3>1, <4>1
    <3> QED
      BY <1>1, <3>1, <3>2, SameSequence DEF tail
  <2> QED
    BY <1>6, <2>3, <2>4, <2>5, <2>6 DEF inner
<1> QED
  BY <1>2, <1>7, <1>8

LEMMA NameSteps ==
    ASSUME NEW C
    PROVE  \A names \in Seq(C), token \in C : AddName(names, token) \in Seq(C)
  BY DEF AddName

\* The values of the loop over a mangled symbol.
NamesRead(f, start, text, C) ==
    /\ f \in [0 .. Len(text) -> Seq(C)]
    /\ f[0] = start /\ f[Len(text)] = FoldLeft(AddName, start, text)
    /\ \A n \in 1 .. Len(text) : f[n] = AddName(f[n - 1], text[n])

\* The loop of demangled.
LEMMA NamesAreRead ==
    ASSUME NEW C, NEW text \in Seq(C), NEW start \in Seq(C)
    PROVE  \E f : NamesRead(f, start, text, C)
<1> DEFINE N == Len(text)
           step == [p \in Seq(C) \X C |-> AddName(p[1], p[2])]
           Values(iter) == [t \in SUBSET DOMAIN text |->
                               IF t = {} THEN start
                               ELSE AddName(iter[t \ {Max(t)}], text[Max(t)])]
           chosen == CHOOSE iter : iter = Values(iter)
<1>1. N \in Nat /\ DOMAIN text = 1 .. N /\ text \in [1 .. N -> C]
  OBVIOUS
<1>2. start \in Seq(C) /\ step \in [Seq(C) \X C -> Seq(C)]
  BY NameSteps
<1>3. PICK iter \in [SUBSET (1 .. N) -> Seq(C)] : Iterates(iter, start, step, text, N)
  <2> HIDE DEF step, N
  <2> QED
    BY <1>1, <1>2, IteratesExist
<1>4. ASSUME NEW t \in SUBSET (1 .. N), t # {}
      PROVE  /\ iter[t] = AddName(iter[t \ {Max(t)}], text[Max(t)])
             /\ iter[t \ {Max(t)}] \in Seq(C) /\ text[Max(t)] \in C
  <2>1. Max(t) \in 1 .. N /\ t \ {Max(t)} \in SUBSET (1 .. N)
    <3> HIDE DEF N
    <3> QED
      BY <1>1, <1>4, GreatestOf
  <2>2. iter[t \ {Max(t)}] \in Seq(C) /\ text[Max(t)] \in C
    BY <1>1, <2>1
  <2> QED
    BY <1>3, <1>4, <2>2 DEF Iterates
<1>5. iter = Values(iter)
  <2>1. iter[{}] = start
    BY <1>3 DEF Iterates
  <2> QED
    BY <1>1, <1>4, <2>1
<1>6. chosen = Values(chosen)
  <2>1. \E i : i = Values(i)
    BY <1>5
  <2> HIDE DEF Values
  <2> QED
    BY <2>1
<1>7. FoldLeft(AddName, start, text) = chosen[DOMAIN text]
  BY Zenon DEF FoldLeft, MapThenFoldSet
<1> HIDE DEF chosen
<1>8. chosen[DOMAIN text] = iter[1 .. N]
  <2>1. \A t \in SUBSET (1 .. N) : chosen[t] = Values(chosen)[t] /\ iter[t] = Values(iter)[t]
    BY <1>5, <1>6
  <2>2. chosen[{}] = iter[{}]
    BY <1>1, <2>1
  <2>3. SameSteps(chosen, iter, N)
    BY <1>1, <2>1 DEF SameSteps
  <2>4. chosen[1 .. N] = iter[1 .. N]
    <3> HIDE DEF N, Values
    <3> QED
      BY <1>1, <2>2, <2>3, SameIterates
  <2> QED
    BY <1>1, <2>4
<1>9. LoopValues(iter, start, step, text, N, Seq(C))
  <2> HIDE DEF step, N
  <2> QED
    BY <1>1, <1>2, <1>3, LoopOfIterates
<1>10. ASSUME NEW n \in 1 .. N PROVE iter[1 .. n] = AddName(iter[1 .. n - 1], text[n])
  <2>1. n - 1 \in 0 .. N
    BY <1>1
  <2>2. iter[1 .. n - 1] \in Seq(C) /\ text[n] \in C
    BY <1>1, <1>9, <2>1 DEF LoopValues
  <2> QED
    BY <1>9, <2>2 DEF LoopValues
<1> DEFINE f == [n \in 0 .. N |-> iter[1 .. n]]
<1>11. f \in [0 .. N -> Seq(C)] /\ f[0] = start /\ f[N] = FoldLeft(AddName, start, text)
  BY <1>1, <1>7, <1>8, <1>9 DEF LoopValues
<1>12. \A n \in 1 .. N : f[n] = AddName(f[n - 1], text[n])
  BY <1>1, <1>10
<1> HIDE DEF f
<1> QED
  BY <1>11, <1>12 DEF NamesRead


\* The names of a mangled symbol are those of its path.
LEMMA MangledIs ==
    ASSUME NEW D, D \cap Mangling = {}, NEW names \in Seq(D), NEW tail \in {<<>>, <<"0">>}
    PROVE  Demangled(<<"_R", "NvNt", "Cs7_">> \o names \o tail \o <<>>) = Path(names)
<1> DEFINE C == D \cup Mangling
           prefix == <<"_R", "NvNt", "Cs7_">>
           none == <<>>
           start == prefix \o names
           text == start \o tail
           N == Len(names)
<1>1. /\ prefix \in Seq(Mangling) /\ Len(prefix) = 3 /\ prefix[1] = "_R"
      /\ \A i \in 1 .. 3 : prefix[i] \in Mangling
  BY DEF Mangling
<1>2. tail \in Seq(Mangling) /\ Len(tail) \in {0, 1} /\ \A i \in 1 .. Len(tail) : tail[i] \in Mangling
  <2> DEFINE one == <<"0">>
  <2>1. none \in Seq(Mangling) /\ Len(none) = 0
    OBVIOUS
  <2>2. "0" \in Mangling
    BY DEF Mangling
  <2>3. one \in Seq(Mangling) /\ Len(one) = 1
    BY <2>2, OneToken
  <2>4. tail = none \/ tail = one
    OBVIOUS
  <2> HIDE DEF one, none
  <2>5. tail \in Seq(Mangling) /\ Len(tail) \in {0, 1}
    BY <2>1, <2>3, <2>4
  <2> QED
    BY <2>5, TokensIn
<1>3. prefix \in Seq(C) /\ names \in Seq(C) /\ tail \in Seq(C) /\ none \in Seq(C) /\ N \in Nat
  <2>1. none \in Seq(C)
    OBVIOUS
  <2>2. Mangling \subseteq C /\ D \subseteq C
    OBVIOUS
  <2> HIDE DEF C, prefix, none
  <2> QED
    BY <1>1, <1>2, <2>1, <2>2, MoreTokens, LengthIs
<1> HIDE DEF C, prefix
<1>4. IsConcat(start, prefix, names, C)
  BY <1>3, Concatenated
<1>5. start \in Seq(C)
  BY <1>4 DEF IsConcat
<1> HIDE DEF start
<1>6. IsConcat(text, start, tail, C)
  BY <1>3, <1>5, Concatenated
<1>7. text \in Seq(C) /\ text \o none = text
  BY <1>6 DEF IsConcat
<1> HIDE DEF text, N
<1>8. /\ Len(start) = 3 + N
      /\ \A i \in 1 .. 3 : start[i] \in Mangling
      /\ start[1] = "_R" /\ \A i \in 1 .. N : start[3 + i] = names[i]
  <2>1. \A i \in 1 .. 3 : start[i] = prefix[i]
    BY <1>1, <1>4 DEF IsConcat
  <2>2. 1 \in 1 .. 3
    OBVIOUS
  <2> QED
    BY <1>1, <1>4, <2>1, <2>2 DEF IsConcat, N
<1>9. /\ Len(text) = 3 + N + Len(tail) /\ \A i \in 1 .. 3 + N : text[i] = start[i]
      /\ \A i \in 1 .. Len(tail) : text[3 + N + i] = tail[i]
  BY <1>6, <1>8 DEF IsConcat
<1>10. PICK f : NamesRead(f, none, text, C)
  BY <1>3, <1>7, NamesAreRead
<1>11. /\ f \in [0 .. 3 + N + Len(tail) -> Seq(C)] /\ f[0] = none
       /\ f[3 + N + Len(tail)] = FoldLeft(AddName, none, text)
       /\ \A n \in 1 .. 3 + N + Len(tail) : f[n] = AddName(f[n - 1], text[n])
  BY <1>9, <1>10 DEF NamesRead
<1>12. \A n \in 1 .. 3 + N + Len(tail) : text[n] \in Mangling => f[n] = f[n - 1]
  BY <1>11 DEF AddName
<1>13. f[3] = none
  <2>1. \A n \in 1 .. 3 : n \in 1 .. 3 + N + Len(tail) /\ text[n] \in Mangling
    BY <1>2, <1>3, <1>8, <1>9
  <2>2. f[1] = f[1 - 1] /\ f[2] = f[2 - 1] /\ f[3] = f[3 - 1]
    <3>1. 1 \in 1 .. 3 /\ 2 \in 1 .. 3 /\ 3 \in 1 .. 3
      OBVIOUS
    <3> QED
      BY <1>12, <2>1, <3>1
  <2>3. 1 - 1 = 0 /\ 2 - 1 = 1 /\ 3 - 1 = 2
    OBVIOUS
  <2> QED
    BY <1>11, <2>2, <2>3
<1> DEFINE P == {k \in 0 .. N : Len(f[3 + k]) = k /\ \A i \in 1 .. k : f[3 + k][i] = names[i]}
<1>14. 0 \in P
  <2>1. 3 + 0 = 3 /\ 0 \in 0 .. N /\ Len(none) = 0 /\ 1 .. 0 = {}
    BY <1>3
  <2> HIDE DEF none
  <2> QED
    BY <1>13, <2>1
<1>15. ASSUME NEW k \in 0 .. N - 1, k \in P PROVE k + 1 \in P
  <2> DEFINE m == 3 + k
             n == 3 + (k + 1)
             before == f[m]
             token == names[k + 1]
  <2>1. /\ k \in Nat /\ k + 1 \in 1 .. N /\ k + 1 \in 0 .. N /\ n \in 1 .. 3 + N + Len(tail) /\ n \in 1 .. 3 + N
        /\ m \in 0 .. 3 + N + Len(tail) /\ n - 1 = m
    BY <1>2, <1>3
  <2>2. before \in Seq(C) /\ Len(before) = k /\ \A i \in 1 .. k : before[i] = names[i]
    BY <1>11, <1>15, <2>1
  <2>3. token \in D
    BY <2>1 DEF N
  <2>4. token \notin Mangling /\ token \in C
    BY <2>3 DEF C
  <2>5. text[n] = token
    BY <1>8, <1>9, <2>1
  <2> HIDE DEF m, before, token
  <2>6. f[n] = Append(before, token)
    <3>1. f[n] = AddName(f[n - 1], text[n])
      BY <1>11, <2>1
    <3>2. f[n] = AddName(before, token)
      BY <2>1, <2>5, <3>1 DEF before
    <3> QED
      BY <2>4, <3>2 DEF AddName
  <2> DEFINE next == Append(before, token)
  <2>7. Len(next) = k + 1 /\ next[k + 1] = token /\ \A i \in 1 .. k : next[i] = before[i]
    BY <2>2, <2>4
  <2> HIDE DEF next
  <2>8. \A i \in 1 .. k + 1 : next[i] = names[i]
    <3>1. \A i \in 1 .. k + 1 : i \in 1 .. k \/ i = k + 1
      BY <2>1
    <3> QED
      BY <2>2, <2>7, <3>1 DEF token
  <2>9. f[3 + (k + 1)] = next
    BY <2>6 DEF next
  <2> HIDE DEF n
  <2> QED
    BY <2>1, <2>7, <2>8, <2>9
<1>16. f[3 + N] = names
  <2>1. \A k \in 0 .. N : k \in P
    <3> HIDE DEF P
    <3> QED
      BY <1>3, <1>14, <1>15, BoundedInduction
  <2>2. N \in 0 .. N /\ 3 + N \in 0 .. 3 + N + Len(tail)
    BY <1>2, <1>3
  <2>3. Len(f[3 + N]) = N /\ \A i \in 1 .. N : f[3 + N][i] = names[i]
    BY <2>1, <2>2
  <2>4. f[3 + N] \in Seq(C)
    BY <1>11, <2>2
  <2> QED
    BY <1>3, <2>3, <2>4, SameSequence DEF N
<1>17. f[3 + N + Len(tail)] = names
  <2>1. CASE Len(tail) = 0
    BY <1>3, <1>16, <2>1
  <2>2. CASE Len(tail) = 1
    <3>1. /\ 3 + N + Len(tail) \in 1 .. 3 + N + Len(tail) /\ (3 + N + Len(tail)) - 1 = 3 + N
          /\ 1 \in 1 .. Len(tail) /\ 3 + N + 1 = 3 + N + Len(tail)
      BY <1>3, <2>2
    <3>2. text[3 + N + 1] = tail[1] /\ tail[1] \in Mangling
      BY <1>2, <1>9, <3>1
    <3>3. text[3 + N + Len(tail)] \in Mangling
      BY <3>1, <3>2
    <3> QED
      BY <1>12, <1>16, <3>1, <3>3
  <2> QED
    BY <1>2, <2>1, <2>2
<1>18. text # <<>> /\ text[1] = "_R"
  <2>1. Len(text) # 0 /\ 1 \in 1 .. 3 + N
    BY <1>2, <1>3, <1>9
  <2> QED
    BY <1>7, <1>8, <1>9, <2>1, EmptyIs
<1>19. Demangled(text) = Path(FoldLeft(AddName, none, text))
  BY <1>18 DEF Demangled
<1>20. Demangled(text) = Path(names)
  BY <1>11, <1>17, <1>19
<1> QED
  BY <1>7, <1>20 DEF text, start, prefix

LEMMA Surrounded ==
    ASSUME NEW f, NEW style \in Styles, NEW D, Offset \notin D, Inlined \notin D,
           NEW body \in Seq(D), body # <<>>, body = Spelled(f, FormOf(f, style))
    PROVE  BareSymbol(Symbol(f, style).text) = body
<1> DEFINE before == IF style.inlined THEN <<Inlined>> ELSE <<>>
           after == IF style.offset THEN <<Offset>> ELSE <<>>
<1>1. Symbol(f, style).text = before \o body \o after
  BY DEF Symbol
<1>2. before \in {<<>>, <<Inlined>>} /\ after \in {<<>>, <<Offset>>}
  OBVIOUS
<1> HIDE DEF before, after
<1>3. BareSymbol(before \o body \o after) = body
  BY <1>2, BareIs
<1> QED
  BY <1>1, <1>3

\* A symbol that is none of the machinery.
LEMMA OfTheProgram ==
    ASSUME NEW symbol, NEW D, D \cap {"std", "ThreadEventQueue"} = {},
           BareSymbol(symbol.text) \in Seq(D), BareSymbol(symbol.text) # <<"main">>,
           NEW E, E \cap {"std"} = {}, Demangled(BareSymbol(symbol.text)) \in Seq(E),
           Demangled(BareSymbol(symbol.text)) # <<"abort">>
    PROVE  ~IsGenericFrame(symbol) /\ ~IsRuntimeFrame(symbol)
<1> DEFINE bare == BareSymbol(symbol.text)
           text == Demangled(bare)
           std == <<"std", "::", "process", "::", "abort">>
           queue == <<"Core", "::", "ThreadEventQueue", "::", "process">>
<1>1. /\ bare \in Seq(D) /\ Len(bare) \in Nat /\ \A i \in 1 .. Len(bare) : bare[i] \in D
      /\ text \in Seq(E) /\ Len(text) \in Nat /\ \A i \in 1 .. Len(text) : text[i] \in E
  BY TokensIn, LengthIs
<1>2. bare # <<"main">> /\ text # <<"abort">>
  OBVIOUS
<1>3. /\ Len(std) = 5 /\ 1 \in DOMAIN std /\ std[1] = "std"
      /\ Len(queue) = 5 /\ 3 \in DOMAIN queue /\ queue[3] = "ThreadEventQueue"
  OBVIOUS
<1> HIDE DEF text, bare, std, queue
<1>4. ~StartsWith(bare, queue)
  <2>1. SUFFICES ASSUME StartsWith(bare, queue) PROVE FALSE
    OBVIOUS
  <2>2. 5 <= Len(bare) /\ bare[3] = "ThreadEventQueue"
    BY <1>3, <2>1 DEF StartsWith
  <2>3. 3 \in 1 .. Len(bare)
    BY <1>1, <2>2
  <2> QED
    BY <1>1, <2>2, <2>3
<1>5. ~Contained(std, text)
  <2>1. SUFFICES ASSUME Contained(std, text) PROVE FALSE
    OBVIOUS
  <2>2. PICK n \in 0 .. Len(text) : n + 5 <= Len(text) /\ text[n + 1] = "std"
    BY <1>3, <2>1 DEF Contained
  <2>3. n + 1 \in 1 .. Len(text)
    BY <1>1, <2>2
  <2> QED
    BY <1>1, <2>2, <2>3
<1>6. ~IsGenericFrame(symbol)
  BY <1>2, <1>4 DEF IsGenericFrame, EntryPoints, EventLoop, bare, queue
<1>7. ~IsRuntimeFrame(symbol)
  BY <1>2, <1>5 DEF IsRuntimeFrame, RuntimeFunctions, RuntimePaths, text, bare, std
<1> QED
  BY <1>6, <1>7

LEMMA ProgramFunction ==
    ASSUME NEW f \in Functions
    PROVE  /\ f.language \in {"c++", "rust"} /\ f.name \in OwnNames /\ f.name \in Words
           /\ f.scope \in Seq(OwnNames \cup {"(anonymous namespace)"})
           /\ f.language = "rust" => f.scope \in Seq(OwnNames) /\ f.scope # <<>>
           /\ f.closure \in BOOLEAN /\ (f.closure => f.language = "rust")
           /\ f.returns \in Seq(Tokens) /\ f.arguments \in Seq(Tokens) /\ f.parameters \in Seq(Tokens)
           /\ ReadFrom(0, f.returns).depth = 0
           /\ ReadFrom(1, f.arguments) = [depth |-> 1, plain |-> <<>>]
<1> DEFINE Type == OwnNames \cup {"<", ">", "::", " ", "(", ")"}
           Part == OwnNames \cup IF f.language = "rust" THEN {} ELSE {"(anonymous namespace)"}
<1>1. /\ f.language \in {"c++", "rust"} /\ f.name \in OwnNames
      /\ f.scope \in Seq(Part)
      /\ f.language = "rust" => f.scope # <<>>
      /\ f.closure \in BOOLEAN /\ (f.closure => f.language = "rust")
      /\ {f.returns, f.arguments, f.parameters} \subseteq Seq(Type)
      /\ ReadFrom(0, f.returns).depth = 0
      /\ ReadFrom(1, f.arguments) = [depth |-> 1, plain |-> <<>>]
  BY FunctionsAssumption DEF OwnNames
<1>2. Type \subseteq Tokens
  BY TokensTogether
<1>3. f.returns \in Seq(Type) /\ f.arguments \in Seq(Type) /\ f.parameters \in Seq(Type)
  BY <1>1
<1>4. Part \subseteq OwnNames \cup {"(anonymous namespace)"} /\ (f.language = "rust" => Part \subseteq OwnNames)
  OBVIOUS
<1>5. f.name \in Words
  BY <1>1 DEF OwnNames
<1> HIDE DEF Type, Part
<1>6. f.returns \in Seq(Tokens) /\ f.arguments \in Seq(Tokens) /\ f.parameters \in Seq(Tokens)
  BY <1>2, <1>3, MoreTokens
<1>7. /\ f.scope \in Seq(OwnNames \cup {"(anonymous namespace)"})
      /\ f.language = "rust" => f.scope \in Seq(OwnNames)
  BY <1>1, <1>4, MoreTokens
<1> QED
  BY <1>1, <1>5, <1>6, <1>7

Bracketed(parameters) == <<"(">> \o parameters \o <<")">>

LEMMA BracketedIs ==
    ASSUME NEW parameters \in Seq(Tokens)
    PROVE  Bracketed(parameters) \in Seq(Tokens) /\ Len(Bracketed(parameters)) >= 2
<1> DEFINE open == <<"(">>
           close == <<")">>
           opened == open \o parameters
<1>1. open \in Seq(Tokens) /\ close \in Seq(Tokens) /\ Len(open) = 1 /\ Len(close) = 1
  BY TokensTogether, OneToken
<1> HIDE DEF open, close
<1>2. IsConcat(opened, open, parameters, Tokens) /\ Len(parameters) \in Nat
  BY <1>1, Concatenated, LengthIs
<1>3. opened \in Seq(Tokens) /\ Len(opened) = 1 + Len(parameters)
  BY <1>1, <1>2 DEF IsConcat
<1> HIDE DEF opened
<1>4. IsConcat(opened \o close, opened, close, Tokens)
  BY <1>1, <1>3, Concatenated
<1>5. opened \o close \in Seq(Tokens) /\ Len(opened \o close) = Len(opened) + 1
  BY <1>1, <1>4 DEF IsConcat
<1>6. Len(opened \o close) >= 2
  BY <1>2, <1>3, <1>5
<1> QED
  BY <1>5, <1>6 DEF Bracketed, opened, open, close

LEMMA NoTokens == ASSUME NEW C PROVE <<>> \in Seq(C)
  OBVIOUS

LEMMA FewerTokens ==
    ASSUME NEW A, NEW B, NEW text \in Seq(A), \A i \in 1 .. Len(text) : text[i] \in B
    PROVE  text \in Seq(B)
  OBVIOUS

LEMMA NotAmong ==
    ASSUME NEW A, NEW text \in Seq(A), NEW token, token \notin ToSet(text)
    PROVE  \A i \in 1 .. Len(text) : text[i] # token
<1>1. DOMAIN text = 1 .. Len(text)
  OBVIOUS
<1>2. \A i \in DOMAIN text : text[i] # token
  BY Zenon DEF ToSet
<1> QED
  BY <1>1, <1>2

LEMMA OwnScope ==
    ASSUME NEW scope \in Seq(OwnNames \cup {"(anonymous namespace)"}), "(anonymous namespace)" \notin ToSet(scope)
    PROVE  scope \in Seq(OwnNames)
<1>1. \A i \in 1 .. Len(scope) : scope[i] \in OwnNames \cup {"(anonymous namespace)"}
  BY TokensIn
<1>2. \A i \in 1 .. Len(scope) : scope[i] # "(anonymous namespace)"
  BY NotAmong
<1>3. \A i \in 1 .. Len(scope) : scope[i] \in OwnNames
  BY <1>1, <1>2
<1> QED
  BY <1>3, FewerTokens

MadeOf(text, returns, scope, name, arguments, separator, closing, q) ==
    text = WhereAny(returns, Append(returns, " ")) \o Path(Append(scope, name))
               \o WhereAny(arguments, separator \o <<"<">> \o arguments \o <<">">>) \o closing \o q

PathOf(text, language, returns, scope, name, arguments, separator, closing, parameters, q) ==
    /\ returns \in Seq(Tokens) /\ ReadFrom(0, returns).depth = 0 /\ "(" \notin ToSet(WithoutTemplates(returns))
    /\ scope \in Seq(OwnNames) /\ name \in OwnNames /\ (language = "rust" => scope # <<>>)
    /\ arguments \in Seq(Tokens) /\ ReadFrom(1, arguments) = [depth |-> 1, plain |-> <<>>]
    /\ separator \in {<<>>, <<"::">>} /\ closing \in {<<>>, <<"::", Closure>>}
    /\ parameters \in Seq(Tokens) /\ q \in {<<>>, Bracketed(parameters)}
    /\ language = "rust" \/ q = Bracketed(parameters)
    /\ MadeOf(text, returns, scope, name, arguments, separator, closing, q)

LEMMA WholePath ==
    ASSUME NEW text, NEW language, NEW returns, NEW scope, NEW name, NEW arguments, NEW separator, NEW closing,
           NEW parameters, NEW q,
           PathOf(text, language, returns, scope, name, arguments, separator, closing, parameters, q)
    PROVE  text \in Seq(Tokens) /\ Len(text) >= 2 /\ Names(text, name)
<1>0. /\ returns \in Seq(Tokens) /\ ReadFrom(0, returns).depth = 0 /\ "(" \notin ToSet(WithoutTemplates(returns))
      /\ scope \in Seq(OwnNames) /\ name \in OwnNames /\ (language = "rust" => scope # <<>>)
      /\ arguments \in Seq(Tokens) /\ ReadFrom(1, arguments) = [depth |-> 1, plain |-> <<>>]
      /\ separator \in {<<>>, <<"::">>} /\ closing \in {<<>>, <<"::", Closure>>}
      /\ parameters \in Seq(Tokens) /\ q \in {<<>>, Bracketed(parameters)}
      /\ language = "rust" \/ q = Bracketed(parameters)
      /\ MadeOf(text, returns, scope, name, arguments, separator, closing, q)
  BY DEF PathOf
<1> DEFINE r0 == WhereAny(returns, Append(returns, " "))
           a0 == WhereAny(arguments, separator \o <<"<">> \o arguments \o <<">">>)
<1>1. PICK r \in Seq(HeadTokens) : ReadAs(Tokens, r0, r)
  BY <1>0, ReturnsRead
<1>2. PICK a \in {<<>>, <<"::">>} : ReadAs(Tokens, a0, a)
  BY <1>0, TemplateRead
<1> HIDE DEF r0, a0
<1>3. q \in {<<>>, <<"(">> \o parameters \o <<")">>}
  BY <1>0 DEF Bracketed
<1>4. text = r0 \o Path(Append(scope, name)) \o a0 \o closing \o q
  BY <1>0 DEF MadeOf, r0, a0
<1>5. Names(text, name) /\ text \in Seq(Tokens) /\ Len(text) >= 2 * Len(scope) + 1 + Len(q)
  <2>1. /\ scope \in Seq(OwnNames) /\ name \in OwnNames /\ parameters \in Seq(Tokens)
        /\ closing \in {<<>>, <<"::", Closure>>} /\ r \in Seq(HeadTokens) /\ a \in {<<>>, <<"::">>}
    BY <1>0
  <2>2. /\ Names(r0 \o Path(Append(scope, name)) \o a0 \o closing \o q, name)
        /\ r0 \o Path(Append(scope, name)) \o a0 \o closing \o q \in Seq(Tokens)
        /\ Len(r0 \o Path(Append(scope, name)) \o a0 \o closing \o q) >= 2 * Len(scope) + 1 + Len(q)
    BY ONLY <1>1, <1>2, <1>3, <2>1, PathNames
  <2> QED
    BY ONLY <1>4, <2>2
<1>6. Len(scope) \in Nat /\ Len(q) \in Nat /\ Len(text) \in Nat /\ (language # "rust" => Len(q) >= 2)
  <2> DEFINE none == <<>>
             b == Bracketed(parameters)
  <2>1. none \in Seq(Tokens) /\ b \in Seq(Tokens) /\ Len(b) >= 2
    <3>1. none \in Seq(Tokens)
      BY NoTokens
    <3>2. b \in Seq(Tokens) /\ Len(b) >= 2
      BY <1>0, BracketedIs
    <3> QED
      BY <3>1, <3>2
  <2>2. q = none \/ q = b
    BY <1>0
  <2>3. language = "rust" \/ q = b
    BY <1>0
  <2> HIDE DEF none, b
  <2>4. q \in Seq(Tokens)
    BY <2>1, <2>2
  <2> QED
    BY <1>0, <1>5, <2>1, <2>3, <2>4, LengthIs
<1>7. language = "rust" => Len(scope) # 0
  BY <1>0, EmptyIs
<1> DEFINE l == Len(text)
           m == Len(scope)
           n == Len(q)
<1>8. l \in Nat /\ m \in Nat /\ n \in Nat /\ l >= 2 * m + 1 + n /\ (m # 0 \/ n >= 2)
  BY <1>5, <1>6, <1>7
<1> HIDE DEF l, m, n
<1>9. Len(text) >= 2
  <2>1. l >= 2
    BY ONLY <1>8
  <2> QED
    BY <2>1 DEF l
<1> QED
  BY <1>5, <1>9

LEMMA ProgramPath ==
    ASSUME NEW f \in Functions, "(anonymous namespace)" \notin ToSet(f.scope),
           "(" \notin ToSet(WithoutTemplates(f.returns))
    PROVE  PathText(f) \in Seq(Tokens) /\ Len(PathText(f)) >= 2 /\ Names(PathText(f), f.name)
<1> DEFINE scope == f.scope
           name == f.name
           returns == f.returns
           arguments == f.arguments
           parameters == f.parameters
           separator == Separator(f)
           closing == IF f.closure THEN <<"::", Closure>> ELSE <<>>
           q == IF f.language = "c++" THEN <<"(">> \o parameters \o <<")">> ELSE <<>>
           language == f.language
           text == PathText(f)
<1>1. MadeOf(text, returns, scope, name, arguments, separator, closing, q)
  BY DEF PathText, MadeOf
<1>2. /\ name \in OwnNames /\ parameters \in Seq(Tokens) /\ arguments \in Seq(Tokens)
      /\ language \in {"c++", "rust"} /\ scope \in Seq(OwnNames \cup {"(anonymous namespace)"})
      /\ language = "rust" => scope # <<>>
      /\ ReadFrom(1, arguments) = [depth |-> 1, plain |-> <<>>]
      /\ returns \in Seq(Tokens) /\ ReadFrom(0, returns).depth = 0
  BY ProgramFunction
<1>3. "(anonymous namespace)" \notin ToSet(scope) /\ "(" \notin ToSet(WithoutTemplates(returns))
  OBVIOUS
<1>4. separator \in {<<>>, <<"::">>}
  BY DEF Separator
<1>5. closing \in {<<>>, <<"::", Closure>>}
  OBVIOUS
<1>6. (language = "rust" \/ q = Bracketed(parameters)) /\ q \in {<<>>, Bracketed(parameters)}
  BY ProgramFunction DEF Bracketed
<1> HIDE DEF scope, name, returns, arguments, parameters, separator, closing, q, language, text
<1>7. scope \in Seq(OwnNames)
  BY <1>2, <1>3, OwnScope
<1>8. text \in Seq(Tokens) /\ Len(text) >= 2 /\ Names(text, name)
  <2>1. PathOf(text, language, returns, scope, name, arguments, separator, closing, parameters, q)
    BY ONLY <1>1, <1>2, <1>3, <1>4, <1>5, <1>6, <1>7 DEF PathOf
  <2> QED
    BY ONLY <2>1, WholePath
<1> QED
  BY <1>8 DEF text, name

\* A symbol that a client writes.
IsSymbol(symbol) ==
    \/ symbol \in Nameless
    \/ \E f \in Functions \cup Machinery \cup {Lambda}, style \in Styles : symbol = Symbol(f, style)

KeyIs(symbol, name) ==
    ~IsGenericFrame(symbol) /\ ~IsRuntimeFrame(symbol) /\ FunctionName(symbol) = <<name>>

LEMMA NotMangled ==
    ASSUME NEW C, "_R" \notin C, NEW text \in Seq(C)
    PROVE  Demangled(text) = text
<1>1. CASE text = <<>>
  BY <1>1 DEF Demangled
<1>2. CASE text # <<>>
  <2>1. 1 \in 1 .. Len(text)
    BY <1>2, LengthIs, EmptyIs
  <2>2. text[1] # "_R"
    BY <2>1, TokensIn
  <2> QED
    BY <2>2 DEF Demangled
<1> QED
  BY <1>1, <1>2

\* A function of the program, as it is written in each form.
LEMMA PathKey ==
    ASSUME NEW f \in Functions, "(anonymous namespace)" \notin ToSet(f.scope),
           "(" \notin ToSet(WithoutTemplates(f.returns)),
           NEW symbol, BareSymbol(symbol.text) = PathText(f)
    PROVE  KeyIs(symbol, f.name)
<1> DEFINE text == PathText(f)
           bare == BareSymbol(symbol.text)
           name == f.name
<1>1. bare = text /\ text \in Seq(Tokens) /\ Len(text) >= 2 /\ Names(text, name) /\ name \in Words
  BY ProgramPath, ProgramFunction
<1>2. Tokens \cap {"at ", "_R", "std", "ThreadEventQueue"} = {}
  BY TokensApart DEF Mangling
<1> HIDE DEF text, bare, name
<1>3. Demangled(bare) = bare
  BY <1>1, <1>2, NotMangled
<1>4. bare # <<>> /\ bare[1] # "at " /\ bare # <<"main">> /\ bare # <<"abort">>
  <2> DEFINE l == Len(bare)
  <2>1. bare \in Seq(Tokens) /\ l >= 2
    BY <1>1
  <2>2. l \in Nat
    BY <2>1, LengthIs
  <2>3. l # 0 /\ l # 1 /\ 1 \in 1 .. l
    <3> HIDE DEF l
    <3> QED
      BY ONLY <2>1, <2>2
  <2>4. bare[1] \in Tokens /\ bare # <<>>
    BY <2>1, <2>3, TokensIn, EmptyIs
  <2>5. Len(<<"main">>) = 1 /\ Len(<<"abort">>) = 1
    OBVIOUS
  <2> QED
    BY <1>2, <2>3, <2>4, <2>5
<1>5. FunctionName(symbol) = <<name>>
  BY <1>1, <1>3, <1>4, NameOf DEF bare
<1>6. ~IsGenericFrame(symbol) /\ ~IsRuntimeFrame(symbol)
  <2>1. /\ Tokens \cap {"std", "ThreadEventQueue"} = {} /\ Tokens \cap {"std"} = {}
        /\ bare \in Seq(Tokens) /\ Demangled(bare) \in Seq(Tokens) /\ Demangled(bare) # <<"abort">>
    BY <1>1, <1>2, <1>3, <1>4
  <2> QED
    BY <1>4, <2>1, OfTheProgram DEF bare
<1> QED
  BY <1>5, <1>6 DEF KeyIs, name

LEMMA BareKey ==
    ASSUME NEW name \in OwnNames, name \notin {"main", "abort"},
           NEW symbol, BareSymbol(symbol.text) = <<name>>
    PROVE  KeyIs(symbol, name)
<1> DEFINE text == <<name>>
           bare == BareSymbol(symbol.text)
           C == OwnNames \cup {"::"}
<1>1. /\ bare = text /\ text \in Seq(OwnNames) /\ text \in Seq(C) /\ Len(text) = 1 /\ text[1] = name
      /\ text # <<"main">> /\ text # <<"abort">> /\ text # <<>>
  OBVIOUS
<1>2. OwnNames \cap {"at ", "_R", "std", "ThreadEventQueue"} = {} /\ name \in Words
  BY TokensApart DEF Punctuation, Mangling, OwnNames
<1>3. EndsWithName(text, name)
  <2>1. 1 \in 1 .. Len(text) /\ 1 + 1 .. Len(text) = {}
    BY <1>1
  <2> QED
    BY <1>1, <2>1 DEF EndsWithName
<1> HIDE DEF text, bare, C
<1>4. Names(text, name)
  BY <1>1, <1>3, PlainNames DEF C
<1>5. Demangled(bare) = bare
  BY <1>1, <1>2, NotMangled
<1>6. bare # <<>> /\ bare[1] # "at "
  BY <1>1, <1>2
<1>7. FunctionName(symbol) = <<name>>
  BY <1>1, <1>2, <1>4, <1>5, <1>6, NameOf DEF bare
<1>8. ~IsGenericFrame(symbol) /\ ~IsRuntimeFrame(symbol)
  <2>1. /\ OwnNames \cap {"std", "ThreadEventQueue"} = {} /\ OwnNames \cap {"std"} = {}
        /\ bare \in Seq(OwnNames) /\ Demangled(bare) \in Seq(OwnNames) /\ Demangled(bare) # <<"abort">>
        /\ bare # <<"main">>
    BY <1>1, <1>2, <1>5
  <2> QED
    BY <2>1, OfTheProgram DEF bare
<1> QED
  BY <1>7, <1>8 DEF KeyIs

Mangled(names, tail) == <<"_R", "NvNt", "Cs7_">> \o names \o tail \o <<>>

LEMMA MangledTokens ==
    ASSUME NEW D, NEW names \in Seq(D), NEW tail \in {<<>>, <<"0">>}
    PROVE  /\ Mangled(names, tail) \in Seq(D \cup Mangling) /\ Mangled(names, tail) # <<>>
           /\ Mangled(names, tail)[1] = "_R"
<1> DEFINE C == D \cup Mangling
           prefix == <<"_R", "NvNt", "Cs7_">>
           none == <<>>
           one == <<"0">>
           start == prefix \o names
           text == start \o tail
<1>1. prefix \in Seq(Mangling) /\ Len(prefix) = 3 /\ prefix[1] = "_R" /\ "0" \in Mangling
  BY DEF Mangling
<1>2. one \in Seq(C) /\ none \in Seq(C) /\ (tail = none \/ tail = one)
  BY <1>1, OneToken, NoTokens
<1>3. Mangling \subseteq C /\ D \subseteq C
  OBVIOUS
<1> HIDE DEF C, prefix, one
<1>4. prefix \in Seq(C) /\ names \in Seq(C) /\ tail \in Seq(C)
  BY <1>1, <1>2, <1>3, MoreTokens
<1>5. IsConcat(start, prefix, names, C) /\ Len(names) \in Nat /\ Len(tail) \in Nat
  BY <1>4, Concatenated, LengthIs
<1>6. start \in Seq(C) /\ start[1] = "_R" /\ Len(start) = 3 + Len(names)
  <2>1. 1 \in 1 .. Len(prefix)
    BY <1>1
  <2> QED
    BY <1>1, <1>5, <2>1 DEF IsConcat
<1> HIDE DEF start
<1>7. IsConcat(text, start, tail, C)
  BY <1>4, <1>6, Concatenated
<1>8. text \in Seq(C) /\ text[1] = "_R" /\ Len(text) # 0 /\ text \o none = text
  <2>1. 1 \in 1 .. Len(start)
    BY <1>5, <1>6
  <2>2. text \in Seq(C) /\ text[1] = "_R" /\ Len(text) # 0
    BY <1>5, <1>6, <1>7, <2>1 DEF IsConcat
  <2> HIDE DEF text
  <2> QED
    BY <2>2
<1>9. Mangled(names, tail) = text
  BY <1>8 DEF Mangled, text, start, prefix
<1> HIDE DEF text
<1> QED
  BY <1>8, <1>9, EmptyIs DEF C

LEMMA MangledKey ==
    ASSUME NEW scope \in Seq(OwnNames), scope # <<>>, NEW name \in OwnNames, NEW tail \in {<<>>, <<"0">>},
           NEW symbol, BareSymbol(symbol.text) = Mangled(Append(scope, name), tail)
    PROVE  KeyIs(symbol, name)
<1> DEFINE names == Append(scope, name)
           text == Path(names)
           bare == BareSymbol(symbol.text)
           C == OwnNames \cup {"::"}
           D == OwnNames \cup Mangling
<1>1. names \in Seq(OwnNames) /\ Len(names) = Len(scope) + 1 /\ Len(scope) \in Nat /\ Len(scope) # 0
  BY EmptyIs
<1>2. /\ OwnNames \cap Mangling = {} /\ name \in Words
      /\ C \cap {"std", "ThreadEventQueue"} = {} /\ D \cap {"std", "ThreadEventQueue"} = {}
  BY TokensApart DEF Punctuation, Mangling, OwnNames
<1>3. bare = Mangled(names, tail)
  OBVIOUS
<1>4. EndsWithName(text, name)
  BY PathEnds
<1> HIDE DEF names, bare
<1>5. text \in Seq(C) /\ Len(text) = 2 * Len(names) - 1
  <2>1. Len(names) >= 1
    BY <1>1
  <2> QED
    BY <1>1, <2>1, PathIs
<1>6. Demangled(bare) = text
  BY <1>1, <1>2, <1>3, MangledIs DEF Mangled
<1>7. bare \in Seq(D) /\ bare # <<>> /\ bare[1] = "_R"
  BY <1>1, <1>3, MangledTokens
<1> HIDE DEF text, C, D
<1>8. bare # <<"main">> /\ text # <<"abort">>
  <2>1. <<"main">>[1] = "main" /\ Len(<<"abort">>) = 1
    OBVIOUS
  <2>2. Len(text) # 1
    BY <1>1, <1>5
  <2> QED
    BY <1>7, <2>1, <2>2
<1>9. Names(text, name)
  BY <1>4, <1>5, PlainNames DEF C
<1>10. FunctionName(symbol) = <<name>>
  <2>1. bare[1] # "at "
    BY <1>7
  <2> QED
    BY <1>2, <1>6, <1>7, <1>9, <2>1, NameOf DEF bare
<1>11. ~IsGenericFrame(symbol) /\ ~IsRuntimeFrame(symbol)
  <2>1. C \cap {"std"} = {}
    BY <1>2
  <2> QED
    BY <1>2, <1>5, <1>6, <1>7, <1>8, <2>1, OfTheProgram DEF bare
<1> QED
  BY <1>10, <1>11 DEF KeyIs

LEMMA ProgramKey ==
    ASSUME NEW f \in Functions, NEW style \in Styles, Legible(Symbol(f, style))
    PROVE  KeyIs(Symbol(f, style), f.name)
<1> DEFINE symbol == Symbol(f, style)
           form == FormOf(f, style)
           bare == BareSymbol(symbol.text)
<1>1. symbol.function = f /\ symbol.form = form /\ f # Absent
  BY FunctionsAssumption DEF Symbol
<1>2. f \notin Machinery \/ f \in Machinery
  OBVIOUS
<1>3. /\ f.language \in {"c++", "rust"} /\ f.name \in OwnNames /\ f.closure \in BOOLEAN
      /\ f.language = "rust" => f.scope \in Seq(OwnNames) /\ f.scope # <<>>
  BY ProgramFunction
<1>4. form \in {"bare", "path", "mangled"} /\ (form = "mangled" => f.language = "rust")
  BY <1>3, StylesAssumption DEF FormOf
<1>5. OwnNames \cap {Offset, Inlined} = {} /\ Mangling \cap {Offset, Inlined} = {} /\ Tokens \cap {Offset, Inlined} = {}
  BY TokensApart DEF Punctuation, Mangling, Offset, Inlined
<1>6. CASE form = "path"
  <2>1. "(anonymous namespace)" \notin ToSet(f.scope) /\ "(" \notin ToSet(WithoutTemplates(f.returns))
    BY <1>1, <1>6 DEF Legible
  <2>2. PathText(f) \in Seq(Tokens) /\ PathText(f) # <<>>
    <3> DEFINE text == PathText(f)
    <3>1. text \in Seq(Tokens) /\ Len(text) >= 2
      BY <2>1, ProgramPath
    <3> HIDE DEF text
    <3>2. text # <<>>
      BY <3>1, EmptyIs
    <3> QED
      BY <3>1, <3>2 DEF text
  <2>3. PathText(f) = Spelled(f, FormOf(f, style))
    BY <1>6 DEF Spelled
  <2>4. bare = PathText(f)
    BY <1>5, <2>2, <2>3, Surrounded
  <2> QED
    BY <2>1, <2>4, PathKey
<1>7. CASE form = "mangled"
  <2> DEFINE scope == f.scope
             name == f.name
             tail == IF f.closure THEN <<"0">> ELSE <<>>
             names == Append(scope, name)
  <2>1. f.arguments = <<>>
    BY <1>1, <1>7 DEF Legible
  <2>2. MangledText(f) = Mangled(names, tail)
    BY <2>1 DEF MangledText, WhereAny, Mangled
  <2>3. MangledText(f) = Spelled(f, FormOf(f, style))
    BY <1>7 DEF Spelled
  <2>4. scope \in Seq(OwnNames) /\ scope # <<>> /\ name \in OwnNames /\ tail \in {<<>>, <<"0">>}
    BY <1>3, <1>4, <1>7
  <2> HIDE DEF scope, name, tail
  <2>5. names \in Seq(OwnNames)
    BY <2>4
  <2> HIDE DEF names
  <2>6. Mangled(names, tail) \in Seq(OwnNames \cup Mangling) /\ Mangled(names, tail) # <<>>
    BY <2>4, <2>5, MangledTokens
  <2>7. Offset \notin OwnNames \cup Mangling /\ Inlined \notin OwnNames \cup Mangling
    BY <1>5
  <2>8. bare = Mangled(names, tail)
    BY <2>2, <2>3, <2>6, <2>7, Surrounded
  <2>9. bare = Mangled(Append(scope, name), tail)
    BY <2>8 DEF names
  <2>10. KeyIs(symbol, name)
    <3> HIDE DEF symbol
    <3> QED
      BY <2>4, <2>9, MangledKey
  <2> QED
    BY <2>10 DEF name
<1>8. CASE form = "bare"
  <2> DEFINE name == f.name
  <2>1. /\ IF f \in Machinery THEN f.language = "c"
           ELSE ~f.closure /\ <<f.name>> \notin RuntimeFunctions \cup EntryPoints
    BY <1>1, <1>8 DEF Legible
  <2>2. ~f.closure /\ name \notin {"abort", "main"}
    BY <1>3, <2>1 DEF RuntimeFunctions, EntryPoints
  <2>3. <<name>> = Spelled(f, FormOf(f, style))
    BY <1>8, <2>2 DEF Spelled
  <2>4. name \in OwnNames
    BY <1>3
  <2> HIDE DEF name
  <2>5. <<name>> \in Seq(OwnNames) /\ <<name>> # <<>>
    BY <2>4, OneToken
  <2>6. bare = <<name>>
    BY <1>5, <2>3, <2>5, Surrounded
  <2>7. KeyIs(symbol, name)
    <3> HIDE DEF symbol
    <3> QED
      BY <2>2, <2>4, <2>6, BareKey
  <2> QED
    BY <2>7 DEF name
<1> QED
  BY <1>4, <1>6, <1>7, <1>8

\* The machinery.
Keyless(symbol) == IsGenericFrame(symbol) \/ IsRuntimeFrame(symbol) \/ FunctionName(symbol) = <<>>

LEMMA OneName ==
    ASSUME NEW name, name \notin {Offset, Inlined, "_R"}, NEW style \in Styles, NEW f,
           <<name>> = Spelled(f, FormOf(f, style))
    PROVE  /\ BareSymbol(Symbol(f, style).text) = <<name>>
           /\ Demangled(BareSymbol(Symbol(f, style).text)) = <<name>>
<1> DEFINE D == {name}
           text == <<name>>
<1>1. Offset \notin D /\ Inlined \notin D /\ "_R" \notin D /\ text \in Seq(D) /\ text # <<>>
  BY OneToken
<1>2. text = Spelled(f, FormOf(f, style))
  OBVIOUS
<1> HIDE DEF D, text
<1>3. BareSymbol(Symbol(f, style).text) = text
  BY <1>1, <1>2, Surrounded
<1>4. Demangled(text) = text
  BY <1>1, NotMangled
<1> QED
  BY <1>3, <1>4 DEF text

LEMMA AbortAndMain ==
    ASSUME NEW style \in Styles
    PROVE  Keyless(Symbol(InC("abort"), style)) /\ Keyless(Symbol(InC("main"), style))
<1>1. <<"abort">> = Spelled(InC("abort"), FormOf(InC("abort"), style))
  BY DEF Spelled, FormOf, InC, Declared
<1>2. <<"main">> = Spelled(InC("main"), FormOf(InC("main"), style))
  BY DEF Spelled, FormOf, InC, Declared
<1>3. Demangled(BareSymbol(Symbol(InC("abort"), style).text)) = <<"abort">>
  BY <1>1, OneName DEF Offset, Inlined
<1>4. BareSymbol(Symbol(InC("main"), style).text) = <<"main">>
  BY <1>2, OneName DEF Offset, Inlined
<1>5. IsRuntimeFrame(Symbol(InC("abort"), style))
  BY <1>3 DEF IsRuntimeFrame, RuntimeFunctions
<1>6. IsGenericFrame(Symbol(InC("main"), style))
  BY <1>4 DEF IsGenericFrame, EntryPoints
<1> QED
  BY <1>5, <1>6 DEF Keyless

\* A path of three names.
LEMMA ThreeNames ==
    ASSUME NEW S, NEW one \in S, NEW two \in S, NEW three \in S
    PROVE  LET names == Append(<<one, two>>, three)
               path == Path(names)
           IN  /\ names \in Seq(S) /\ path \in Seq(S \cup {"::"}) /\ Len(path) = 5
               /\ path[1] = one /\ path[2] = "::" /\ path[3] = two /\ path[4] = "::" /\ path[5] = three
<1> DEFINE names == Append(<<one, two>>, three)
           path == Path(names)
<1>1. /\ names \in Seq(S) /\ Len(names) = 3 /\ Len(names) >= 1
      /\ names[1] = one /\ names[2] = two /\ names[3] = three
  OBVIOUS
<1> HIDE DEF names
<1>2. /\ path \in Seq(S \cup {"::"}) /\ Len(path) = 2 * Len(names) - 1
      /\ \A n \in 1 .. Len(names) : path[2 * n - 1] = names[n]
      /\ \A n \in 1 .. Len(names) - 1 : path[2 * n] = "::"
  BY <1>1, PathIs
<1> HIDE DEF path
<1>3. /\ 1 \in 1 .. Len(names) /\ 2 \in 1 .. Len(names) /\ 3 \in 1 .. Len(names)
      /\ 1 \in 1 .. Len(names) - 1 /\ 2 \in 1 .. Len(names) - 1
  BY <1>1
<1>4. /\ path[2 * 1 - 1] = names[1] /\ path[2 * 2 - 1] = names[2] /\ path[2 * 3 - 1] = names[3]
      /\ path[2 * 1] = "::" /\ path[2 * 2] = "::"
  BY <1>2, <1>3
<1>5. /\ 2 * 1 - 1 = 1 /\ 2 * 2 - 1 = 3 /\ 2 * 3 - 1 = 5 /\ 2 * 1 = 2 /\ 2 * 2 = 4
      /\ 2 * Len(names) - 1 = 5
  BY <1>1
<1>6. path[1] = one /\ path[2] = "::" /\ path[3] = two /\ path[4] = "::" /\ path[5] = three
  BY <1>1, <1>4, <1>5
<1> QED
  BY <1>1, <1>2, <1>5, <1>6 DEF names, path

LEMMA ProcessAbort ==
    ASSUME NEW style \in Styles, Legible(Symbol(InRust(<<"std", "process">>, "abort"), style))
    PROVE  Keyless(Symbol(InRust(<<"std", "process">>, "abort"), style))
<1> DEFINE f == InRust(<<"std", "process">>, "abort")
           form == FormOf(f, style)
           symbol == Symbol(f, style)
           names == Append(<<"std", "process">>, "abort")
           path == Path(names)
           S == {"std", "process", "abort"}
           C == S \cup {"::"}
           std == <<"std", "::", "process", "::", "abort">>
           none == <<>>
<1>1. /\ names \in Seq(S) /\ path \in Seq(C) /\ Len(path) = 5
      /\ path[1] = "std" /\ path[2] = "::" /\ path[3] = "process" /\ path[4] = "::" /\ path[5] = "abort"
  <2>1. "std" \in S /\ "process" \in S /\ "abort" \in S
    OBVIOUS
  <2> HIDE DEF S
  <2> QED
    BY <2>1, ThreeNames
<1>2. /\ f.language = "rust" /\ f.scope = <<"std", "process">> /\ f.name = "abort" /\ f.closure = FALSE
      /\ f.returns = none /\ f.arguments = none
      /\ f \in Machinery /\ f # Absent
  BY FunctionsAssumption DEF InRust, Declared, Machinery
<1> HIDE DEF path
<1>3. Contained(std, path)
  <2>1. DOMAIN std = 1 .. 5 /\ Len(std) = 5 /\ \A i \in 1 .. 5 : i \in {1, 2, 3, 4, 5}
    OBVIOUS
  <2>2. \A i \in DOMAIN std : path[0 + i] = std[i]
    BY <1>1, <2>1
  <2>3. 0 \in 0 .. Len(path) /\ 0 + Len(std) <= Len(path)
    BY <1>1, <2>1
  <2> HIDE DEF std
  <2> QED
    BY <2>2, <2>3 DEF Contained
<1>4. Offset \notin C /\ Inlined \notin C /\ "_R" \notin C /\ S \cap Mangling = {}
  BY DEF Offset, Inlined, Mangling
<1>5. /\ Offset \notin S \cup Mangling /\ Inlined \notin S \cup Mangling
  BY DEF Offset, Inlined, Mangling
<1>6. form \in {"bare", "path", "mangled"} /\ symbol.function = f /\ symbol.form = form
  BY <1>2, StylesAssumption DEF FormOf, Symbol
<1>7. Demangled(BareSymbol(symbol.text)) = path
  <2>1. CASE form = "bare"
    BY <1>2, <1>6, <2>1 DEF Legible
  <2>2. CASE form = "path"
    <3>1. PathText(f) = none \o path \o none \o none \o none
      BY <1>2 DEF PathText, WhereAny, path
    <3>2. PathText(f) = path
      <4> HIDE DEF f
      <4> QED
        BY <1>1, <3>1
    <3>3. path = Spelled(f, form)
      <4> HIDE DEF f
      <4> QED
        BY <2>2, <3>2 DEF Spelled
    <3>4. path # <<>>
      BY <1>1
    <3> HIDE DEF C, f
    <3>5. BareSymbol(symbol.text) = path
      BY <1>1, <1>4, <3>3, <3>4, Surrounded
    <3> QED
      BY <1>1, <1>4, <3>5, NotMangled
  <2>3. CASE form = "mangled"
    <3> DEFINE text == Mangled(names, none)
    <3>1. MangledText(f) = text
      BY <1>2 DEF MangledText, WhereAny, Mangled
    <3> HIDE DEF f, names, S
    <3>2. text = Spelled(f, form)
      BY <2>3, <3>1 DEF Spelled
    <3>3. none \in {<<>>, <<"0">>}
      OBVIOUS
    <3> HIDE DEF none
    <3>4. text \in Seq(S \cup Mangling) /\ text # <<>>
      BY <1>1, <3>3, MangledTokens
    <3>5. Demangled(text) = Path(names)
      BY <1>1, <1>4, <3>3, MangledIs DEF Mangled
    <3> HIDE DEF text
    <3>6. BareSymbol(symbol.text) = text
      BY <1>5, <3>2, <3>4, Surrounded
    <3> QED
      BY <3>5, <3>6 DEF path
  <2> QED
    BY <1>6, <2>1, <2>2, <2>3
<1>8. IsRuntimeFrame(symbol)
  <2> HIDE DEF symbol
  <2> QED
    BY <1>3, <1>7 DEF IsRuntimeFrame, RuntimePaths
<1> QED
  BY <1>8 DEF Keyless

LEMMA NoParameters == ASSUME NEW C, "(" \in C, ")" \in C PROVE <<"(">> \o <<>> \o <<")">> \in Seq(C)
<1> DEFINE open == <<"(">>
           close == <<")">>
           none == <<>>
<1>1. open \in Seq(C) /\ close \in Seq(C) /\ none \in Seq(C)
  BY OneToken, NoTokens
<1> HIDE DEF open, close, none
<1>2. open \o none \o close \in Seq(C)
  BY <1>1, ConcatIs
<1> QED
  BY <1>2 DEF open, close, none

\* No name is found.
NoName(bare) ==
    \/ bare = <<>> \/ bare[1] = "at " \/ Contains(WithoutTemplates(Demangled(bare)), Operator)
    \/ Segments(BeforeParameters(WithoutTemplates(Demangled(bare)))) = {}

LEMMA NameIsNone == ASSUME NEW symbol, NoName(BareSymbol(symbol.text)) PROVE FunctionName(symbol) = <<>>
<1> DEFINE bare == BareSymbol(symbol.text)
           plain == WithoutTemplates(Demangled(bare))
           path == BeforeParameters(plain)
           segments == Segments(path)
<1>1. bare = <<>> \/ bare[1] = "at " \/ Contains(plain, Operator) \/ segments = {}
  BY DEF NoName
<1>2. FunctionName(symbol) =
          IF \/ bare = <<>> \/ bare[1] = "at " \/ Contains(plain, Operator) \/ segments = {}
             \/ path[Max(segments)] \notin Words
          THEN <<>> ELSE <<path[Max(segments)]>>
  BY DEF FunctionName
<1> HIDE DEF bare, plain, path, segments
<1> QED
  BY ONLY <1>1, <1>2

LEMMA EventLoopProcess ==
    ASSUME NEW style \in Styles, Legible(Symbol(InCxx(<<"Core", "ThreadEventQueue">>, "process"), style))
    PROVE  Keyless(Symbol(InCxx(<<"Core", "ThreadEventQueue">>, "process"), style))
<1> DEFINE f == InCxx(<<"Core", "ThreadEventQueue">>, "process")
           form == FormOf(f, style)
           symbol == Symbol(f, style)
           path == Path(Append(<<"Core", "ThreadEventQueue">>, "process"))
           S == {"Core", "ThreadEventQueue", "process"}
           C == S \cup {"::", "(", ")"}
           queue == <<"Core", "::", "ThreadEventQueue", "::", "process">>
           brackets == <<"(">> \o <<>> \o <<")">>
           none == <<>>
           text == path \o brackets
<1>1. /\ path \in Seq(S \cup {"::"}) /\ Len(path) = 5
      /\ path[1] = "Core" /\ path[2] = "::" /\ path[3] = "ThreadEventQueue" /\ path[4] = "::" /\ path[5] = "process"
  <2>1. "Core" \in S /\ "ThreadEventQueue" \in S /\ "process" \in S
    OBVIOUS
  <2> HIDE DEF S
  <2> QED
    BY <2>1, ThreeNames
<1>2. /\ f.language = "c++" /\ f.scope = <<"Core", "ThreadEventQueue">> /\ f.name = "process" /\ f.closure = FALSE
      /\ f.returns = none /\ f.arguments = none /\ f.parameters = none
      /\ f \in Machinery /\ f # Absent
  BY FunctionsAssumption DEF InCxx, Declared, Machinery
<1>3. brackets \in Seq(C)
  BY NoParameters
<1>4. Offset \notin C /\ Inlined \notin C /\ S \cup {"::"} \subseteq C
  BY DEF Offset, Inlined
<1> HIDE DEF path, C
<1>5. path \in Seq(C)
  BY <1>1, <1>4, MoreTokens
<1> HIDE DEF brackets
<1>6. IsConcat(text, path, brackets, C) /\ Len(brackets) \in Nat
  BY <1>3, <1>5, Concatenated, LengthIs
<1> HIDE DEF text
<1>7. /\ text \in Seq(C) /\ Len(text) = 5 + Len(brackets) /\ \A i \in 1 .. 5 : text[i] = path[i]
  BY <1>1, <1>6 DEF IsConcat
<1>8. StartsWith(text, queue)
  <2>1. DOMAIN queue = 1 .. 5 /\ Len(queue) = 5 /\ \A i \in 1 .. 5 : i \in {1, 2, 3, 4, 5}
    OBVIOUS
  <2>2. \A i \in DOMAIN queue : path[i] = queue[i]
    BY <1>1, <2>1
  <2>3. \A i \in DOMAIN queue : text[i] = queue[i]
    BY <1>7, <2>1, <2>2
  <2>4. Len(queue) <= Len(text)
    BY <1>6, <1>7, <2>1
  <2> HIDE DEF queue
  <2> QED
    BY <2>3, <2>4 DEF StartsWith
<1>9. form \in {"bare", "path"} /\ symbol.function = f /\ symbol.form = form
  BY <1>2, StylesAssumption DEF FormOf, Symbol
<1>10. form = "path"
  BY <1>2, <1>9 DEF Legible
<1>11. PathText(f) = none \o path \o none \o none \o brackets
  BY <1>2 DEF PathText, WhereAny, path, brackets
<1>12. text = Spelled(f, form)
  <2> HIDE DEF f
  <2>1. PathText(f) = path \o brackets
    BY <1>5, <1>11
  <2> QED
    BY <1>10, <2>1 DEF Spelled, text
<1>13. text # <<>>
  <2>1. Len(text) # 0
    BY <1>6, <1>7
  <2> QED
    BY <1>7, <2>1, EmptyIs
<1> HIDE DEF f
<1>14. BareSymbol(symbol.text) = text
  BY <1>4, <1>7, <1>12, <1>13, Surrounded
<1>15. IsGenericFrame(symbol)
  <2> HIDE DEF symbol
  <2> QED
    BY <1>8, <1>14 DEF IsGenericFrame, EventLoop
<1> QED
  BY <1>15 DEF Keyless, f

LEMMA LambdaHasNoName == ASSUME NEW style \in Styles PROVE Keyless(Symbol(Lambda, style))
<1> DEFINE form == FormOf(Lambda, style)
           symbol == Symbol(Lambda, style)
           path == Path(Append(<<"Web">>, Operator))
           S == {"Web", Operator}
           C == S \cup {"::", "(", ")"}
           one == <<Operator>>
           brackets == <<"(">> \o <<>> \o <<")">>
           none == <<>>
           text == path \o brackets
<1>1. Offset \notin C /\ Inlined \notin C /\ S \cup {"::"} \subseteq C /\ "_R" \notin C /\ "<" \notin C /\ ">" \notin C
  BY DEF Offset, Inlined, Operator
<1>2. one \in Seq(C) /\ Len(one) = 1 /\ one[1] = Operator
  BY OneToken
<1>3. path \in Seq(S \cup {"::"}) /\ Len(path) = 3 /\ path[3] = Operator
  <2> DEFINE names == Append(<<"Web">>, Operator)
  <2>1. names \in Seq(S) /\ Len(names) = 2 /\ Len(names) >= 1 /\ names[2] = Operator
    OBVIOUS
  <2> HIDE DEF names, S
  <2>2. Path(names) \in Seq(S \cup {"::"}) /\ Len(Path(names)) = 2 * Len(names) - 1
        /\ \A n \in 1 .. Len(names) : Path(names)[2 * n - 1] = names[n]
    BY <2>1, PathIs
  <2>3. 2 \in 1 .. Len(names) /\ 2 * 2 - 1 = 3 /\ 2 * Len(names) - 1 = 3
    BY <2>1
  <2>4. Path(names)[2 * 2 - 1] = names[2]
    BY <2>2, <2>3
  <2> QED
    BY <2>1, <2>2, <2>3, <2>4 DEF names
<1>4. brackets \in Seq(C)
  BY NoParameters
<1> HIDE DEF path, C, one
<1>5. path \in Seq(C)
  BY <1>1, <1>3, MoreTokens
<1> HIDE DEF brackets
<1>6. IsConcat(text, path, brackets, C) /\ Len(brackets) \in Nat
  BY <1>4, <1>5, Concatenated, LengthIs
<1> HIDE DEF text
<1>7. text \in Seq(C) /\ Len(text) = 3 + Len(brackets) /\ text[3] = Operator
  <2>1. 3 \in 1 .. Len(path)
    BY <1>3
  <2> QED
    BY <1>3, <1>6, <2>1 DEF IsConcat
<1>8. form \in {"bare", "path"}
  BY StylesAssumption DEF FormOf, Lambda, InCxx, Declared
<1>9. PathText(Lambda) = none \o path \o none \o none \o brackets
  BY DEF PathText, WhereAny, path, brackets, Lambda, InCxx, Declared
<1>10. PathText(Lambda) = text
  BY <1>5, <1>9 DEF text
<1>11. form = "bare" => Spelled(Lambda, form) = one
  BY DEF Spelled, Lambda, InCxx, Declared, one
<1>12. form = "path" => Spelled(Lambda, form) = text
  BY <1>10 DEF Spelled
<1> DEFINE body == Spelled(Lambda, form)
<1>13. body \in Seq(C) /\ \E i \in 1 .. Len(body) : body[i] = Operator
  <2>1. CASE form = "bare"
    <3>1. 1 \in 1 .. Len(one)
      BY <1>2
    <3> QED
      BY <1>2, <1>11, <2>1, <3>1
  <2>2. CASE form = "path"
    <3>1. 3 \in 1 .. Len(text)
      BY <1>6, <1>7
    <3> QED
      BY <1>7, <1>12, <2>2, <3>1
  <2> QED
    BY <1>8, <2>1, <2>2
<1>14. body = Spelled(Lambda, FormOf(Lambda, style))
  OBVIOUS
<1> HIDE DEF body
<1>15. body # <<>>
  <2>1. Len(body) # 0
    BY <1>13
  <2> QED
    BY <1>13, <2>1, EmptyIs
<1>16. BareSymbol(symbol.text) = body
  BY <1>1, <1>13, <1>14, <1>15, Surrounded
<1>17. Demangled(body) = body
  BY <1>1, <1>13, NotMangled
<1>18. WithoutTemplates(body) = body
  <2>1. ReadAs(C, body, body)
    BY <1>1, <1>13, ReadPlain
  <2> QED
    BY <2>1 DEF ReadAs, WithoutTemplates
<1>19. Contains(WithoutTemplates(Demangled(body)), Operator)
  BY <1>13, <1>17, <1>18, Zenon DEF Contains
<1>20. FunctionName(symbol) = <<>>
  <2> HIDE DEF symbol
  <2> QED
    BY <1>16, <1>19, NameIsNone DEF NoName
<1> QED
  BY <1>20 DEF Keyless

LEMMA NamelessHasNoName == ASSUME NEW symbol \in Nameless PROVE Keyless(symbol) /\ symbol.function = Absent
<1> DEFINE inlined == <<"(", "inlined", ")">>
           module == <<"at ", "module">>
           none == <<>>
           C == {"(", "inlined", ")"}
<1>1. symbol.function = Absent /\ symbol.text \in {inlined, module}
  <2>1. PICK text \in {inlined, module} : symbol = [function |-> Absent, form |-> Absent, text |-> text]
    BY DEF Nameless
  <2> HIDE DEF inlined, module
  <2> QED
    BY <2>1
<1>2. CASE symbol.text = module
  <2>1. module # <<>> /\ Len(module) = 2 /\ module[1] = "at " /\ module[2] = "module"
    OBVIOUS
  <2> HIDE DEF module
  <2>2. BareSymbol(module) = module
    BY <2>1 DEF BareSymbol, Offset, Inlined
  <2>4. NoName(module)
    BY <2>1 DEF NoName
  <2>3. FunctionName(symbol) = <<>>
    BY <1>2, <2>2, <2>4, NameIsNone
  <2> QED
    BY <1>1, <2>3 DEF Keyless
<1>3. CASE symbol.text = inlined
  <2>1. /\ inlined # <<>> /\ Len(inlined) = 3 /\ inlined[1] = "(" /\ inlined[3] = ")"
        /\ inlined \in Seq(C) /\ "<" \notin C /\ ">" \notin C /\ "_R" \notin C
    OBVIOUS
  <2> HIDE DEF inlined, C
  <2>2. BareSymbol(inlined) = inlined
    BY <2>1 DEF BareSymbol, Offset, Inlined
  <2>3. Demangled(inlined) = inlined
    BY <2>1, NotMangled
  <2>4. WithoutTemplates(inlined) = inlined
    <3>1. ReadAs(C, inlined, inlined)
      BY <2>1, ReadPlain
    <3> QED
      BY <3>1 DEF ReadAs, WithoutTemplates
  <2>5. BeforeParameters(inlined) = none
    <3> DEFINE E == {}
    <3>1. none \in Seq(E) /\ E \cap Opening = {}
      BY NoTokens
    <3>2. none \o inlined = inlined
      BY <2>1
    <3> HIDE DEF none, E
    <3>3. BeforeParameters(none \o inlined) = none
      BY <2>1, <3>1, BeforeIs
    <3> QED
      BY <3>2, <3>3
  <2>6. Segments(none) = {}
    BY DEF Segments
  <2> HIDE DEF none
  <2>7. Segments(BeforeParameters(WithoutTemplates(Demangled(inlined)))) = {}
    BY <2>3, <2>4, <2>5, <2>6
  <2>9. BareSymbol(symbol.text) = inlined
    BY <1>3, <2>2
  <2>10. NoName(inlined)
    BY <2>7 DEF NoName
  <2>8. FunctionName(symbol) = <<>>
    BY <2>9, <2>10, NameIsNone
  <2> QED
    BY <1>1, <2>8 DEF Keyless
<1> QED
  BY <1>1, <1>2, <1>3

LEMMA NotTheProgram == (Machinery \cup {Lambda}) \cap Functions = {}
<1>1. ASSUME NEW f \in Functions
      PROVE  /\ f.language \in {"c++", "rust"} /\ f.name \in Words
             /\ f.scope \in Seq(OwnNames \cup {"(anonymous namespace)"})
  BY ProgramFunction
<1>2. InC("abort") \notin Functions /\ InC("main") \notin Functions
  <2>1. InC("abort").language = "c" /\ InC("main").language = "c"
    BY DEF InC, Declared
  <2> QED
    BY <1>1, <2>1
<1>3. InRust(<<"std", "process">>, "abort") \notin Functions
  <2>1. InRust(<<"std", "process">>, "abort").scope = <<"std", "process">>
    BY DEF InRust, Declared
  <2>2. <<"std", "process">> \notin Seq(OwnNames \cup {"(anonymous namespace)"})
    <3> SUFFICES ASSUME <<"std", "process">> \in Seq(OwnNames \cup {"(anonymous namespace)"}) PROVE FALSE
      OBVIOUS
    <3>1. "std" \in OwnNames \cup {"(anonymous namespace)"}
      BY DEF OwnNames
    <3> QED
      BY <3>1 DEF OwnNames
  <2> QED
    BY <1>1, <2>1, <2>2
<1>4. InCxx(<<"Core", "ThreadEventQueue">>, "process") \notin Functions
  <2>1. InCxx(<<"Core", "ThreadEventQueue">>, "process").scope = <<"Core", "ThreadEventQueue">>
    BY DEF InCxx, Declared
  <2>2. <<"Core", "ThreadEventQueue">> \notin Seq(OwnNames \cup {"(anonymous namespace)"})
    <3> SUFFICES ASSUME <<"Core", "ThreadEventQueue">> \in Seq(OwnNames \cup {"(anonymous namespace)"}) PROVE FALSE
      OBVIOUS
    <3>1. "ThreadEventQueue" \in OwnNames \cup {"(anonymous namespace)"}
      BY DEF OwnNames
    <3> QED
      BY <3>1 DEF OwnNames
  <2> QED
    BY <1>1, <2>1, <2>2
<1>5. Lambda \notin Functions
  <2>1. Lambda.name = Operator
    BY DEF Lambda, InCxx, Declared
  <2>2. Operator \notin Words
    BY FunctionsAssumption DEF Punctuation
  <2> QED
    BY <1>1, <2>1, <2>2
<1> QED
  BY <1>2, <1>3, <1>4, <1>5 DEF Machinery

\* However it is written, the name of a function of the program is the key of its frame, and nothing
\* else has one.
LEMMA SymbolKey ==
    ASSUME NEW symbol, IsSymbol(symbol), Legible(symbol)
    PROVE  /\ symbol.function \in Functions =>
                 /\ ~IsGenericFrame(symbol) /\ ~IsRuntimeFrame(symbol)
                 /\ FunctionName(symbol) = <<symbol.function.name>>
           /\ symbol.function \notin Functions =>
                 IsGenericFrame(symbol) \/ IsRuntimeFrame(symbol) \/ FunctionName(symbol) = <<>>
<1>1. CASE symbol \in Nameless
  <2>1. symbol.function \notin Functions
    BY <1>1, NamelessHasNoName, FunctionsAssumption
  <2> QED
    BY <1>1, <2>1, NamelessHasNoName DEF Keyless
<1>2. ASSUME NEW f \in Functions, NEW style \in Styles, symbol = Symbol(f, style)
      PROVE  symbol.function = f /\ KeyIs(symbol, f.name)
  BY <1>2, ProgramKey DEF Symbol
<1>3. ASSUME NEW f \in Machinery \cup {Lambda}, NEW style \in Styles, symbol = Symbol(f, style)
      PROVE  symbol.function = f /\ Keyless(symbol)
  <2>1. symbol.function = f
    BY <1>3 DEF Symbol
  <2>2. Legible(Symbol(f, style))
    BY <1>3
  <2>3. \/ f = InC("abort") \/ f = InC("main") \/ f = InRust(<<"std", "process">>, "abort")
        \/ f = InCxx(<<"Core", "ThreadEventQueue">>, "process") \/ f = Lambda
    BY DEF Machinery
  <2>4. Keyless(Symbol(f, style))
    BY <2>2, <2>3, AbortAndMain, ProcessAbort, EventLoopProcess, LambdaHasNoName
  <2> QED
    BY <1>3, <2>1, <2>4
<1>4. CASE \E f \in Functions, style \in Styles : symbol = Symbol(f, style)
  <2>1. PICK f \in Functions, style \in Styles : symbol = Symbol(f, style)
    BY <1>4
  <2>2. symbol.function = f /\ KeyIs(symbol, f.name)
    BY <1>2, <2>1
  <2> QED
    BY <2>2 DEF KeyIs
<1>5. CASE \E f \in Machinery \cup {Lambda}, style \in Styles : symbol = Symbol(f, style)
  <2>1. PICK f \in Machinery \cup {Lambda}, style \in Styles : symbol = Symbol(f, style)
    BY <1>5
  <2>2. symbol.function = f /\ Keyless(symbol)
    BY <1>3, <2>1
  <2>3. symbol.function \notin Functions
    BY <2>2, NotTheProgram
  <2> QED
    BY <2>2, <2>3 DEF Keyless
<1> QED
  BY <1>1, <1>4, <1>5 DEF IsSymbol

-----------------------------------------------------------------------------
(* Two stacks of one crash *)

\* A line that a client writes, and whether it names a function of the program.
IsLine(line) ==
    \/ line = Header \/ line = Text
    \/ line.is = "frame" /\ (line.symbol = Absent \/ IsSymbol(line.symbol))

Named(line) == line.is = "frame" /\ line.symbol # Absent /\ line.symbol.function \in Functions

Known(line) == line.is = "frame" /\ line.symbol # Absent => Legible(line.symbol)

KeyOf(row) == IF row.relevant THEN FunctionName(row.symbol) ELSE <<>>

LEMMA LineKey ==
    ASSUME NEW line, IsLine(line), Known(line)
    PROVE  /\ ParseFrame(line).relevant \in BOOLEAN
           /\ Named(line) => KeyOf(ParseFrame(line)) = <<line.symbol.function.name>>
           /\ ~Named(line) => KeyOf(ParseFrame(line)) = <<>>
<1> DEFINE row == ParseFrame(line)
<1>1. CASE line = Header \/ line = Text
  <2>1. line.is # "frame"
    BY <1>1 DEF Header, Text
  <2>2. row.relevant = FALSE
    BY <2>1 DEF ParseFrame
  <2> QED
    BY <2>1, <2>2 DEF KeyOf, Named
<1>2. CASE line.is = "frame" /\ line.symbol = Absent
  <2>1. row.relevant = FALSE
    BY <1>2 DEF ParseFrame
  <2> QED
    BY <1>2, <2>1 DEF KeyOf, Named
<1>3. CASE line.is = "frame" /\ line.symbol # Absent /\ IsSymbol(line.symbol)
  <2> DEFINE symbol == line.symbol
  <2>1. /\ IsSymbol(symbol) /\ Legible(symbol) /\ symbol # Absent
        /\ Named(line) <=> symbol.function \in Functions
    BY <1>3 DEF Known, Named
  <2>2. row.symbol = symbol /\ row.relevant = (symbol # Absent /\ ~IsGenericFrame(symbol) /\ ~IsRuntimeFrame(symbol))
    BY <1>3 DEF ParseFrame
  <2> HIDE DEF symbol, row
  <2>3. /\ symbol.function \in Functions =>
              /\ ~IsGenericFrame(symbol) /\ ~IsRuntimeFrame(symbol)
              /\ FunctionName(symbol) = <<symbol.function.name>>
        /\ symbol.function \notin Functions =>
              IsGenericFrame(symbol) \/ IsRuntimeFrame(symbol) \/ FunctionName(symbol) = <<>>
    BY <2>1, SymbolKey
  <2>4. row.relevant \in BOOLEAN
    BY <2>2 DEF IsGenericFrame, IsRuntimeFrame
  <2>5. Named(line) => KeyOf(row) = <<symbol.function.name>>
    BY <2>1, <2>2, <2>3 DEF KeyOf
  <2>6. ~Named(line) => KeyOf(row) = <<>>
    BY <2>1, <2>2, <2>3 DEF KeyOf
  <2> QED
    BY <2>4, <2>5, <2>6 DEF row, symbol
<1> QED
  BY <1>1, <1>2, <1>3 DEF IsLine

\* The functions named up to each line of a stack are the first of these.
Counted(c, s, names) ==
    /\ c \in [0 .. Len(s) -> 0 .. Len(names)] /\ c[0] = 0 /\ c[Len(s)] = Len(names)
    /\ \A n \in 1 .. Len(s) :
          IF Named(s[n]) THEN c[n] = c[n - 1] + 1 /\ names[c[n]] = s[n].symbol.function.name
          ELSE c[n] = c[n - 1]

IsStack(s) == \E L : s \in Seq(L) /\ \A line \in L : IsLine(line)

NamesFunctions(s, names) == IsStack(s) /\ \E c : Counted(c, s, names)

LEMMA StackGrows ==
    ASSUME NEW s, IsStack(s), NEW line, IsLine(line)
    PROVE  /\ IsStack(s \o <<line>>) /\ Len(s) \in Nat /\ Len(s \o <<line>>) = Len(s) + 1
           /\ \A n \in 1 .. Len(s) : (s \o <<line>>)[n] = s[n]
           /\ (s \o <<line>>)[Len(s) + 1] = line
<1>1. PICK L : s \in Seq(L) /\ \A l \in L : IsLine(l)
  BY DEF IsStack
<1> DEFINE M == L \cup {line}
           one == <<line>>
<1>2. s \in Seq(M) /\ one \in Seq(M) /\ Len(one) = 1 /\ one[1] = line
  BY <1>1
<1>3. \A l \in M : IsLine(l)
  BY <1>1
<1> HIDE DEF M, one
<1>4. IsConcat(s \o one, s, one, M)
  BY <1>2, Concatenated
<1>5. 1 \in 1 .. Len(one)
  BY <1>2
<1>6. /\ s \o one \in Seq(M) /\ Len(s) \in Nat /\ Len(s \o one) = Len(s) + 1
      /\ \A n \in 1 .. Len(s) : (s \o one)[n] = s[n]
      /\ (s \o one)[Len(s) + 1] = line
  BY <1>2, <1>4, <1>5, LengthIs DEF IsConcat
<1> QED
  BY <1>3, <1>6 DEF IsStack, one

LEMMA NamesNoMore ==
    ASSUME NEW s, NEW names \in Seq(Words), NamesFunctions(s, names), NEW line, IsLine(line), ~Named(line)
    PROVE  NamesFunctions(s \o <<line>>, names)
<1> DEFINE t == s \o <<line>>
           N == Len(s)
<1>1. PICK c : Counted(c, s, names)
  BY DEF NamesFunctions
<1>2. /\ IsStack(t) /\ N \in Nat /\ Len(t) = N + 1
      /\ \A n \in 1 .. N : t[n] = s[n]
      /\ t[N + 1] = line
  BY StackGrows DEF NamesFunctions
<1> HIDE DEF t
<1> DEFINE d == [n \in 0 .. N + 1 |-> IF n = N + 1 THEN Len(names) ELSE c[n]]
<1>3. /\ c \in [0 .. N -> 0 .. Len(names)] /\ c[0] = 0 /\ c[N] = Len(names) /\ Len(names) \in Nat
      /\ \A n \in 1 .. N : IF Named(s[n]) THEN c[n] = c[n - 1] + 1 /\ names[c[n]] = s[n].symbol.function.name
                           ELSE c[n] = c[n - 1]
  BY <1>1 DEF Counted
<1> HIDE DEF N
<1>4. /\ d \in [0 .. N + 1 -> 0 .. Len(names)] /\ d[N + 1] = Len(names)
      /\ \A n \in 0 .. N : d[n] = c[n]
  BY <1>2, <1>3
<1> HIDE DEF d
<1>5. d[0] = 0
  BY <1>2, <1>3, <1>4
<1>6. ASSUME NEW n \in 1 .. N + 1
      PROVE  IF Named(t[n]) THEN d[n] = d[n - 1] + 1 /\ names[d[n]] = t[n].symbol.function.name
             ELSE d[n] = d[n - 1]
  <2>1. CASE n = N + 1
    <3>1. n - 1 = N /\ N \in 0 .. N
      BY <1>2, <2>1
    <3> QED
      BY <1>2, <1>3, <1>4, <2>1, <3>1
  <2>2. CASE n # N + 1
    <3>1. n \in 1 .. N /\ n \in 0 .. N /\ n - 1 \in 0 .. N
      BY <1>2, <2>2
    <3>2. t[n] = s[n] /\ d[n] = c[n] /\ d[n - 1] = c[n - 1]
      BY <1>2, <1>4, <3>1
    <3> QED
      BY <1>3, <3>1, <3>2
  <2> QED
    BY <2>1, <2>2
<1>7. Counted(d, t, names)
  BY <1>2, <1>4, <1>5, <1>6 DEF Counted
<1> QED
  BY <1>2, <1>7 DEF NamesFunctions, t

LEMMA NamesOneMore ==
    ASSUME NEW s, NEW names \in Seq(Words), NamesFunctions(s, names), NEW line, IsLine(line), Named(line),
           NEW name \in Words, line.symbol.function.name = name
    PROVE  NamesFunctions(s \o <<line>>, Append(names, name))
<1> DEFINE t == s \o <<line>>
           more == Append(names, name)
           N == Len(s)
           M == Len(names)
<1>1. PICK c : Counted(c, s, names)
  BY DEF NamesFunctions
<1>2. /\ IsStack(t) /\ N \in Nat /\ Len(t) = N + 1
      /\ \A n \in 1 .. N : t[n] = s[n]
      /\ t[N + 1] = line
  BY StackGrows DEF NamesFunctions
<1> HIDE DEF t
<1>3. /\ c \in [0 .. N -> 0 .. M] /\ c[0] = 0 /\ c[N] = M /\ M \in Nat
      /\ \A n \in 1 .. N : IF Named(s[n]) THEN c[n] = c[n - 1] + 1 /\ names[c[n]] = s[n].symbol.function.name
                           ELSE c[n] = c[n - 1]
  BY <1>1 DEF Counted
<1>4. Len(more) = M + 1 /\ more[M + 1] = name /\ \A m \in 1 .. M : more[m] = names[m]
  OBVIOUS
<1> DEFINE d == [n \in 0 .. N + 1 |-> IF n = N + 1 THEN M + 1 ELSE c[n]]
<1> HIDE DEF N, M, more
<1>5. d \in [0 .. N + 1 -> 0 .. M + 1] /\ d[N + 1] = M + 1 /\ \A n \in 0 .. N : d[n] = c[n] /\ c[n] \in 0 .. M
  BY <1>2, <1>3
<1> HIDE DEF d
<1>6. d[0] = 0
  BY <1>2, <1>3, <1>5
<1>7. ASSUME NEW n \in 1 .. N + 1
      PROVE  IF Named(t[n]) THEN d[n] = d[n - 1] + 1 /\ more[d[n]] = t[n].symbol.function.name
             ELSE d[n] = d[n - 1]
  <2>1. CASE n = N + 1
    <3>1. n - 1 = N /\ N \in 0 .. N
      BY <1>2, <2>1
    <3>2. d[n - 1] = M /\ d[n] = M + 1 /\ t[n] = line
      BY <1>2, <1>3, <1>5, <2>1, <3>1
    <3> QED
      BY <1>4, <3>2
  <2>2. CASE n # N + 1
    <3>1. n \in 1 .. N /\ n \in 0 .. N /\ n - 1 \in 0 .. N
      BY <1>2, <2>2
    <3>2. t[n] = s[n] /\ d[n] = c[n] /\ d[n - 1] = c[n - 1] /\ c[n] \in 0 .. M /\ c[n - 1] \in 0 .. M
      BY <1>2, <1>5, <3>1
    <3>3. Named(s[n]) => c[n] \in 1 .. M
      BY <1>3, <3>1, <3>2
    <3>4. Named(s[n]) => more[c[n]] = names[c[n]]
      BY <1>4, <3>3
    <3> QED
      BY <1>3, <3>1, <3>2, <3>4
  <2> QED
    BY <2>1, <2>2
<1>8. Counted(d, t, more)
  BY <1>2, <1>4, <1>5, <1>6, <1>7 DEF Counted
<1> QED
  BY <1>2, <1>8 DEF NamesFunctions, t, more

\* The lines that become rows are those of the stack, up to the cut and after a header.
LEMMA BodyIs ==
    ASSUME NEW L, NEW text \in Seq(L)
    PROVE  \E o \in {0, 1}, m \in 0 .. Len(text) :
              /\ m = (IF Len(text) < MaxRenderedLines THEN Len(text) ELSE MaxRenderedLines)
              /\ Body(text) \in Seq(L) /\ o <= m /\ Len(Body(text)) = m - o
              /\ \A n \in 1 .. m - o : Body(text)[n] = text[n + o]
              /\ o = 1 => text[1] = Header
<1> DEFINE m == IF Len(text) < MaxRenderedLines THEN Len(text) ELSE MaxRenderedLines
           lines == First(MaxRenderedLines, text)
<1>1. MaxRenderedLines \in Nat /\ Len(text) \in Nat
  BY StackTracesAssumption
<1>2. m \in Nat /\ m \in 0 .. Len(text)
  BY <1>1
<1>3. lines = SubSeq(text, 1, m)
  BY DEF First
<1> HIDE DEF m, lines
<1>4. lines \in Seq(L) /\ Len(lines) = m /\ \A n \in 1 .. m : lines[n] = text[n]
  BY <1>2, <1>3, SubSeqIs
<1>5. CASE lines # <<>> /\ lines[1] = Header
  <2>1. Body(text) = Tail(lines)
    BY <1>5 DEF Body, lines
  <2>2. 1 <= m /\ 1 \in 1 .. m
    BY <1>2, <1>4, <1>5
  <2>3. Tail(lines) \in Seq(L) /\ Len(Tail(lines)) = m - 1 /\ \A n \in 1 .. m - 1 : Tail(lines)[n] = lines[n + 1]
    BY <1>4, <1>5
  <2>4. \A n \in 1 .. m - 1 : Tail(lines)[n] = text[n + 1]
    <3>1. \A n \in 1 .. m - 1 : n + 1 \in 1 .. m
      BY <1>2
    <3> QED
      BY <1>4, <2>3, <3>1
  <2>5. text[1] = Header
    BY <1>4, <1>5, <2>2
  <2> QED
    BY <1>2, <2>1, <2>2, <2>3, <2>4, <2>5 DEF m
<1>6. CASE ~(lines # <<>> /\ lines[1] = Header)
  <2>1. Body(text) = lines
    BY <1>6 DEF Body, lines
  <2>2. m - 0 = m /\ 0 <= m /\ \A n \in 1 .. m : n + 0 = n
    BY <1>2
  <2> QED
    BY <1>2, <1>4, <2>1, <2>2 DEF m
<1> QED
  BY <1>5, <1>6

\* The values of the loop over a stack of which m lines are read, the first o of them as a header.
StackRead(f, text, o, m, C) ==
    /\ m = (IF Len(text) < MaxRenderedLines THEN Len(text) ELSE MaxRenderedLines)
    /\ m \in Nat /\ m <= Len(text) /\ o \in {0, 1} /\ o <= m /\ m - o \in Nat
    /\ o = 1 => text[1] = Header
    /\ f \in [0 .. m - o -> ParsedStacks(C)]
    /\ f[0] = NoRows(Len(text) > MaxRenderedLines) /\ f[m - o] = ParseStackTrace(text)
    /\ \A n \in 1 .. m - o : f[n] = AddRow(f[n - 1], ParseFrame(text[n + o]))

LEMMA StackIsRead ==
    ASSUME NEW L, NEW text \in Seq(L)
    PROVE  \E f, o, m : StackRead(f, text, o, m, {ParseFrame(line) : line \in L})
<1> DEFINE C == {ParseFrame(line) : line \in L}
           body == Body(text)
           rows == [i \in DOMAIN body |-> ParseFrame(body[i])]
<1>1. PICK o \in {0, 1}, m \in 0 .. Len(text) :
         /\ m = (IF Len(text) < MaxRenderedLines THEN Len(text) ELSE MaxRenderedLines)
         /\ body \in Seq(L) /\ o <= m /\ Len(body) = m - o
         /\ \A n \in 1 .. m - o : body[n] = text[n + o]
         /\ o = 1 => text[1] = Header
  BY BodyIs
<1> HIDE DEF body
<1>2. m \in Nat /\ m <= Len(text) /\ m - o \in Nat /\ DOMAIN body = 1 .. m - o
  BY <1>1
<1>3. rows \in [1 .. m - o -> C] /\ \A n \in 1 .. m - o : rows[n] = ParseFrame(text[n + o])
  BY <1>1, <1>2
<1> DEFINE start == NoRows(Len(text) > MaxRenderedLines)
<1>4. ParseStackTrace(text) = FoldLeft(AddRow, start, rows)
  BY DEF ParseStackTrace, body
<1>5. start \in ParsedStacks(C)
  BY RowSteps
<1> HIDE DEF rows, C, start
<1>6. rows \in Seq(C) /\ Len(rows) = m - o
  BY <1>2, <1>3
<1>7. PICK f : RowsRead(f, start, rows, C)
  BY <1>5, <1>6, RowsAreRead
<1>8. \A n \in 1 .. m - o : f[n] = AddRow(f[n - 1], ParseFrame(text[n + o]))
  BY <1>3, <1>6, <1>7 DEF RowsRead
<1>9. StackRead(f, text, o, m, C)
  BY <1>1, <1>2, <1>4, <1>6, <1>7, <1>8 DEF StackRead, start, RowsRead
<1> QED
  BY <1>9 DEF C

\* The first names grow by the next.
LEMMA FirstNamesGrow ==
    ASSUME NEW C, NEW names \in Seq(C), NEW k \in 0 .. Len(names) - 1
    PROVE  SubSeq(names, 1, k) \o <<names[k + 1]>> = SubSeq(names, 1, k + 1)
<1> DEFINE before == SubSeq(names, 1, k)
           after == SubSeq(names, 1, k + 1)
           one == <<names[k + 1]>>
<1>1. /\ before \in Seq(C) /\ Len(before) = k /\ \A i \in 1 .. k : before[i] = names[i]
      /\ after \in Seq(C) /\ Len(after) = k + 1 /\ \A i \in 1 .. k + 1 : after[i] = names[i]
  BY SubSeqIs
<1>2. names[k + 1] \in C
  OBVIOUS
<1>3. one \in Seq(C) /\ Len(one) = 1 /\ one[1] = names[k + 1]
  BY <1>2
<1> HIDE DEF before, after, one
<1>4. IsConcat(before \o one, before, one, C)
  BY <1>1, <1>3, Concatenated
<1>5. 1 \in 1 .. Len(one)
  BY <1>3
<1>6. before \o one \in Seq(C) /\ Len(before \o one) = k + 1 /\ (before \o one)[k + 1] = names[k + 1]
  BY <1>1, <1>3, <1>4, <1>5 DEF IsConcat
<1>7. \A i \in 1 .. k : (before \o one)[i] = names[i]
  BY <1>1, <1>4 DEF IsConcat
<1>8. \A i \in 1 .. k + 1 : (before \o one)[i] = after[i]
  BY <1>1, <1>6, <1>7
<1>9. before \o one = after
  BY <1>1, <1>6, <1>8, SameSequence
<1> QED
  BY <1>9 DEF before, after, one

\* No more functions are kept than MaxSignatureFrames.
Kept(k) == IF k < MaxSignatureFrames THEN k ELSE MaxSignatureFrames

LEMMA KeysOfStack ==
    ASSUME NEW s, NEW names \in Seq(Words), NamesFunctions(s, names), \A n \in 1 .. Len(s) : Known(s[n])
    PROVE  \E k \in 0 .. Len(names) :
              /\ ParseStackTrace(s).frameKeys = SubSeq(names, 1, Kept(k))
              /\ ~ParseStackTrace(s).truncated => k = Len(names)
<1>1. PICK L : s \in Seq(L) /\ \A line \in L : IsLine(line)
  BY DEF NamesFunctions, IsStack
<1>2. PICK c : Counted(c, s, names)
  BY DEF NamesFunctions
<1> DEFINE C == {ParseFrame(line) : line \in L}
<1>3. PICK f, o, m : StackRead(f, s, o, m, C)
  BY <1>1, StackIsRead
<1> HIDE DEF C
<1> DEFINE truncated == Len(s) > MaxRenderedLines
           P == {n \in 0 .. m - o : f[n].frameKeys = SubSeq(names, 1, Kept(c[n + o])) /\ f[n].truncated = truncated}
<1>4. /\ Len(s) \in Nat /\ Len(names) \in Nat /\ m \in Nat /\ m <= Len(s) /\ o \in {0, 1} /\ o <= m /\ m - o \in Nat
      /\ MaxSignatureFrames \in Nat /\ MaxRenderedLines \in Nat
  BY <1>1, <1>3, StackTracesAssumption DEF StackRead
<1>5. \A n \in 0 .. Len(s) : c[n] \in 0 .. Len(names)
  BY <1>2 DEF Counted
<1>6. 0 \in P
  <2>1. c[o] = 0
    <3>1. CASE o = 0
      BY <1>2, <3>1 DEF Counted
    <3>2. CASE o = 1
      <4>1. 1 \in 1 .. Len(s) /\ 1 - 1 = 0 /\ s[1] = Header
        BY <1>3, <1>4, <3>2 DEF StackRead
      <4>2. ~Named(s[1])
        BY <4>1 DEF Named, Header
      <4> QED
        BY <1>2, <3>2, <4>1, <4>2 DEF Counted
    <3> QED
      BY <1>4, <3>1, <3>2
  <2>2. Kept(0) = 0
    BY <1>4, StackTracesAssumption DEF Kept
  <2>3. SubSeq(names, 1, 0) = <<>>
    BY NoneAndAll
  <2>4. f[0] = NoRows(truncated)
    BY <1>3 DEF StackRead
  <2>5. f[0].frameKeys = <<>> /\ f[0].truncated = truncated
    BY <2>4 DEF NoRows
  <2>6. 0 \in 0 .. m - o /\ 0 + o = o
    BY <1>4
  <2> QED
    BY <2>1, <2>2, <2>3, <2>5, <2>6
<1>7. ASSUME NEW n \in 0 .. (m - o) - 1, n \in P PROVE n + 1 \in P
  <2> DEFINE p == n + 1 + o
             line == s[p]
             row == ParseFrame(line)
             old == c[n + o]
             new == c[p]
             keys == f[n].frameKeys
  <2>1. /\ p \in 1 .. Len(s) /\ p - 1 = n + o /\ n + o \in 0 .. Len(s) /\ p \in 0 .. Len(s)
        /\ n + 1 \in 1 .. m - o /\ n + 1 \in 0 .. m - o /\ (n + 1) - 1 = n
    BY <1>4
  <2>2. f[n + 1] = AddRow(f[n], row)
    BY <1>3, <2>1 DEF StackRead
  <2>3. IsLine(line) /\ Known(line)
    BY <1>1, <2>1
  <2>4. /\ Named(line) => KeyOf(row) = <<line.symbol.function.name>>
        /\ ~Named(line) => KeyOf(row) = <<>>
    BY <2>3, LineKey
  <2>5. /\ old \in 0 .. Len(names) /\ new \in 0 .. Len(names)
        /\ Named(line) => new = old + 1 /\ names[new] = line.symbol.function.name
        /\ ~Named(line) => new = old
    <3>1. IF Named(s[p]) THEN c[p] = c[p - 1] + 1 /\ names[c[p]] = s[p].symbol.function.name ELSE c[p] = c[p - 1]
      BY <1>2, <2>1 DEF Counted
    <3> QED
      BY <1>5, <2>1, <3>1
  <2>6. keys = SubSeq(names, 1, Kept(old)) /\ f[n].truncated = truncated
    BY <1>7
  <2> HIDE DEF p, line, row, old, new, keys
  <2>7. Kept(old) \in 0 .. Len(names) /\ Kept(old) \in Nat /\ Len(keys) = Kept(old) /\ keys \in Seq(Words)
    <3>1. Kept(old) \in 0 .. Len(names) /\ Kept(old) \in Nat
      BY <1>4, <2>5 DEF Kept
    <3>2. Len(SubSeq(names, 1, Kept(old))) = Kept(old) /\ SubSeq(names, 1, Kept(old)) \in Seq(Words)
      BY <3>1
    <3> QED
      BY <2>6, <3>1, <3>2
  <2>8. /\ f[n + 1].truncated = truncated
        /\ f[n + 1].frameKeys = keys \o (IF row.relevant /\ Len(keys) < MaxSignatureFrames
                                         THEN FunctionName(row.symbol) ELSE <<>>)
    <3> DEFINE parsed == f[n]
    <3>1. f[n + 1] = AddRow(parsed, row) /\ parsed.truncated = truncated /\ keys = parsed.frameKeys
      BY <2>2, <2>6 DEF keys
    <3> HIDE DEF parsed, truncated
    <3>2. /\ AddRow(parsed, row).truncated = parsed.truncated
          /\ AddRow(parsed, row).frameKeys = parsed.frameKeys \o (IF row.relevant /\ Len(parsed.frameKeys) < MaxSignatureFrames
                                         THEN FunctionName(row.symbol) ELSE <<>>)
      BY RowAdded
    <3> QED
      BY ONLY <3>1, <3>2
  <2>9. keys \o <<>> = keys
    BY <2>7
  <2>10. f[n + 1].frameKeys = SubSeq(names, 1, Kept(new))
    <3>1. CASE ~Named(line)
      <4>1. f[n + 1].frameKeys = keys \o <<>>
        BY <2>4, <2>8, <3>1 DEF KeyOf
      <4> QED
        BY <2>5, <2>6, <2>9, <3>1, <4>1
    <3>2. CASE Named(line) /\ old < MaxSignatureFrames
      <4>1. Kept(old) = old /\ Kept(new) = old + 1 /\ Len(keys) < MaxSignatureFrames /\ old \in 0 .. Len(names) - 1
        BY <1>4, <2>5, <2>7, <3>2 DEF Kept
      <4>2. f[n + 1].frameKeys = keys \o KeyOf(row)
        BY <2>8, <4>1 DEF KeyOf
      <4>3. f[n + 1].frameKeys = SubSeq(names, 1, old) \o <<names[old + 1]>>
        BY <2>4, <2>5, <2>6, <3>2, <4>1, <4>2
      <4>4. SubSeq(names, 1, old) \o <<names[old + 1]>> = SubSeq(names, 1, old + 1)
        BY <4>1, FirstNamesGrow
      <4> QED
        BY <4>1, <4>3, <4>4
    <3>3. CASE Named(line) /\ ~(old < MaxSignatureFrames)
      <4>1. Kept(old) = MaxSignatureFrames /\ Kept(new) = MaxSignatureFrames /\ ~(Len(keys) < MaxSignatureFrames)
        BY <1>4, <2>5, <2>7, <3>3 DEF Kept
      <4>2. f[n + 1].frameKeys = keys \o <<>>
        BY <2>8, <4>1
      <4> QED
        BY <2>6, <2>9, <4>1, <4>2
    <3> QED
      BY <3>1, <3>2, <3>3
  <2> QED
    BY <2>1, <2>8, <2>10 DEF new, p
<1>8. \A n \in 0 .. m - o : n \in P
  <2> DEFINE N == m - o
  <2>1. N \in Nat /\ \A n \in 0 .. N - 1 : n \in P => n + 1 \in P
    BY <1>4, <1>7
  <2> HIDE DEF P, N
  <2>2. \A n \in 0 .. N : n \in P
    BY <1>6, <2>1, BoundedInduction
  <2> QED
    BY <2>2 DEF N
<1>9. m - o \in P /\ (m - o) + o = m
  <2>1. m - o \in 0 .. m - o /\ (m - o) + o = m
    BY <1>4
  <2> HIDE DEF P
  <2> QED
    BY <1>8, <2>1
<1>10. f[m - o] = ParseStackTrace(s)
  BY <1>3 DEF StackRead
<1>11. ParseStackTrace(s).frameKeys = SubSeq(names, 1, Kept(c[m])) /\ ParseStackTrace(s).truncated = truncated
  BY <1>9, <1>10
<1>12. c[m] \in 0 .. Len(names)
  BY <1>4, <1>5
<1>13. ~truncated => c[m] = Len(names)
  <2>1. ~truncated => m = Len(s)
    BY <1>3, <1>4 DEF StackRead
  <2> QED
    BY <1>2, <2>1 DEF Counted
<1> QED
  BY <1>11, <1>12, <1>13

FirstAgree(keys, names) ==
    First(SignatureFrames, keys) = First(SignatureFrames, names) /\ (keys = <<>> <=> names = <<>>)

LEMMA FirstKeys ==
    ASSUME NEW names \in Seq(Words), NEW k \in 0 .. Len(names), NEW keys, keys = SubSeq(names, 1, Kept(k)),
           Len(keys) >= SignatureFrames \/ k = Len(names)
    PROVE  FirstAgree(keys, names)
<1> DEFINE j == Kept(k)
           m == IF j < SignatureFrames THEN j ELSE SignatureFrames
           one == SubSeq(keys, 1, m)
           other == SubSeq(names, 1, m)
<1>1. /\ Len(names) \in Nat /\ SignatureFrames \in Nat \ {0} /\ MaxSignatureFrames \in Nat \ {0}
      /\ SignatureFrames <= MaxSignatureFrames
  BY StackTracesAssumption
<1>2. j \in 0 .. Len(names) /\ j \in Nat
  BY <1>1 DEF Kept
<1>3. keys \in Seq(Words) /\ Len(keys) = j /\ \A i \in 1 .. j : keys[i] = names[i]
  BY <1>2, SubSeqIs
<1>4. j >= SignatureFrames \/ k = Len(names)
  BY <1>3
<1>5. m \in 0 .. j /\ m \in 0 .. Len(names) /\ m \in Nat
  BY <1>1, <1>2
<1>6. m = IF Len(names) < SignatureFrames THEN Len(names) ELSE SignatureFrames
  BY <1>1, <1>2, <1>4 DEF Kept
<1>7. First(SignatureFrames, keys) = one
  BY <1>3 DEF First
<1>8. First(SignatureFrames, names) = other
  BY <1>6 DEF First
<1>9. keys = <<>> <=> names = <<>>
  <2>1. j = 0 <=> Len(names) = 0
    BY <1>1, <1>2, <1>4 DEF Kept
  <2> QED
    BY <1>3, <2>1, EmptyIs
<1> HIDE DEF m, j
<1>10. one \in Seq(Words) /\ Len(one) = m /\ \A i \in 1 .. m : one[i] = keys[i]
  BY <1>3, <1>5, SubSeqIs
<1>11. other \in Seq(Words) /\ Len(other) = m /\ \A i \in 1 .. m : other[i] = names[i]
  BY <1>5, SubSeqIs
<1> HIDE DEF one, other
<1>12. \A i \in 1 .. m : i \in 1 .. j
  BY <1>2, <1>5
<1>13. one = other
  <2>1. \A i \in 1 .. Len(one) : one[i] = other[i]
    BY <1>3, <1>10, <1>11, <1>12
  <2> QED
    BY ONLY <1>10, <1>11, <2>1, SameSequence
<1> QED
  BY <1>7, <1>8, <1>9, <1>13 DEF FirstAgree

\* What the two clients have in common.
ClientsAgree ==
    /\ \A i \in 1 .. 2 : client[i].style \in Styles
    /\ client[1].signal.name = client[2].signal.name
    /\ \/ \A i \in 1 .. 2 : client[i].reason = Absent
       \/ \A i \in 1 .. 2 : client[i].reason = Reason(i, i)

StacksAgree == \E names \in Seq(Words) : NamesFunctions(stack[1], names) /\ NamesFunctions(stack[2], names)

LEMMA SameSignatures ==
    ASSUME ClientsAgree, StacksAgree
    PROVE  SameCrashSameSignature
<1> SUFFICES ASSUME \A i \in 1 .. 2 : Whole(i) /\ \A symbol \in SymbolsOf(i) : Legible(symbol),
                    client[1].reason # Absent \/ NamesFunction(1)
             PROVE  Signature(1) = Signature(2) /\ Signature(1) # {}
  BY DEF SameCrashSameSignature
<1>1. PICK names \in Seq(Words) : \A i \in 1 .. 2 : NamesFunctions(stack[i], names)
  BY DEF StacksAgree
<1> DEFINE Keys(i) == ParseStackTrace(stack[i]).frameKeys
           first == First(SignatureFrames, names)
<1>2. ASSUME NEW i \in 1 .. 2
      PROVE  First(SignatureFrames, Keys(i)) = first /\ (Keys(i) = <<>> <=> names = <<>>)
  <2>1. \A n \in 1 .. Len(stack[i]) : Known(stack[i][n])
    <3>1. PICK L : stack[i] \in Seq(L)
      BY <1>1 DEF NamesFunctions, IsStack
    <3>2. DOMAIN stack[i] = 1 .. Len(stack[i])
      BY <3>1
    <3>3. \A symbol \in SymbolsOf(i) : Legible(symbol)
      OBVIOUS
    <3>4. ASSUME NEW n \in 1 .. Len(stack[i]), stack[i][n].is = "frame", stack[i][n].symbol # Absent
          PROVE  stack[i][n].symbol \in SymbolsOf(i)
      BY <3>2, <3>4 DEF SymbolsOf
    <3> QED
      BY <3>3, <3>4 DEF Known
  <2>2. NamesFunctions(stack[i], names)
    BY <1>1
  <2>3. PICK k \in 0 .. Len(names) :
           /\ ParseStackTrace(stack[i]).frameKeys = SubSeq(names, 1, Kept(k))
           /\ ~ParseStackTrace(stack[i]).truncated => k = Len(names)
    BY <2>1, <2>2, KeysOfStack
  <2>4. Len(Keys(i)) >= SignatureFrames \/ k = Len(names)
    BY <2>3 DEF Whole, FunctionKeys
  <2>5. Keys(i) = SubSeq(names, 1, Kept(k))
    BY <2>3
  <2> DEFINE keys == Keys(i)
  <2> HIDE DEF keys, Keys
  <2>6. keys = SubSeq(names, 1, Kept(k)) /\ (Len(keys) >= SignatureFrames \/ k = Len(names))
    BY <2>4, <2>5 DEF keys
  <2>7. FirstAgree(keys, names)
    <3>1. names \in Seq(Words) /\ k \in 0 .. Len(names)
      OBVIOUS
    <3> QED
      BY ONLY <2>6, <3>1, FirstKeys
  <2> QED
    BY <2>7 DEF keys, FirstAgree
<1> DEFINE Failure(i) == IF client[i].reason = Absent THEN <<>> ELSE FailureKey(client[i].reason)
<1>3. ASSUME NEW i \in 1 .. 2
      PROVE  Failure(i) = IF client[1].reason = Absent THEN <<>> ELSE <<"Verification failed", "Node.cpp">>
  <2>1. CASE \A n \in 1 .. 2 : client[n].reason = Absent
    <3>1. client[i].reason = Absent /\ client[1].reason = Absent
      BY <2>1
    <3> QED
      BY <3>1
  <2>2. CASE \A n \in 1 .. 2 : client[n].reason = Reason(n, n)
    <3>1. client[i].reason # Absent /\ client[1].reason # Absent
      BY <2>2, ReasonAssumption
    <3>2. FailureKey(Reason(i, i)) = <<"Verification failed", "Node.cpp">>
      BY DEF FailureKey, Reason
    <3>3. client[i].reason = Reason(i, i)
      BY <2>2
    <3> QED
      BY <3>1, <3>2, <3>3
  <2> QED
    BY <2>1, <2>2 DEF ClientsAgree
<1>4. client[1].reason = Absent => names # <<>>
  <2> SUFFICES ASSUME NamesFunction(1) PROVE names # <<>>
    OBVIOUS
  <2>1. PICK n \in DOMAIN stack[1] :
           stack[1][n].is = "frame" /\ stack[1][n].symbol # Absent /\ stack[1][n].symbol.function \in Functions
    BY DEF NamesFunction, SymbolsOf
  <2>2. NamesFunctions(stack[1], names)
    BY <1>1
  <2>3. PICK c : Counted(c, stack[1], names)
    BY <2>2 DEF NamesFunctions
  <2>4. PICK L : stack[1] \in Seq(L)
    BY <2>2 DEF NamesFunctions, IsStack
  <2>5. n \in 1 .. Len(stack[1]) /\ n - 1 \in 0 .. Len(stack[1]) /\ n \in 0 .. Len(stack[1]) /\ Len(names) \in Nat
    BY <2>4
  <2>6. c[n] = c[n - 1] + 1 /\ c[n - 1] \in 0 .. Len(names) /\ c[n] \in 0 .. Len(names)
    BY <2>1, <2>3, <2>5 DEF Counted, Named
  <2>7. Len(names) # 0
    BY <2>5, <2>6
  <2> QED
    BY <2>7
<1> DEFINE failure == IF client[1].reason = Absent THEN <<>> ELSE <<"Verification failed", "Node.cpp">>
<1>5. failure # <<>> <=> client[1].reason # Absent
  OBVIOUS
<1>6. ASSUME NEW i \in 1 .. 2
      PROVE  Signature(i) = {<<client[i].signal.name, failure, first>>}
  <2>1. Failure(i) = failure
    BY <1>3
  <2>2. failure # <<>> \/ Keys(i) # <<>>
    <3> HIDE DEF Keys, failure
    <3> QED
      BY <1>2, <1>4, <1>5
  <2>3. Signature(i) =
            LET frames == IF Failure(i) # <<>> \/ Keys(i) # <<>> THEN Keys(i)
                          ELSE ParseStackTrace(stack[i]).addressKeys
            IN  IF frames = <<>> /\ Failure(i) = <<>> THEN {}
                ELSE {<<client[i].signal.name, Failure(i), First(SignatureFrames, frames)>>}
    BY DEF Signature, StackFingerprint
  <2>4. First(SignatureFrames, Keys(i)) = first
    BY <1>2
  <2> HIDE DEF Keys, failure, Failure, first
  <2>5. Signature(i) = {<<client[i].signal.name, Failure(i), First(SignatureFrames, Keys(i))>>}
    BY <2>1, <2>2, <2>3
  <2> QED
    BY <2>1, <2>4, <2>5
<1>7. 1 \in 1 .. 2 /\ 2 \in 1 .. 2 /\ client[1].signal.name = client[2].signal.name
  BY DEF ClientsAgree
<1> HIDE DEF failure, first
<1> QED
  BY <1>6, <1>7

\* What a step adds to the stacks.
LEMMA FrameIsLine ==
    ASSUME NEW number, NEW build, NEW address, NEW style \in Styles,
           NEW f \in Functions \cup Machinery \cup {Lambda}
    PROVE  LET line == Frame(number, build, address, Symbol(f, style)) IN
           IsLine(line) /\ (Named(line) <=> f \in Functions) /\ line.symbol.function = f
<1> DEFINE line == Frame(number, build, address, Symbol(f, style))
<1>1. line.is = "frame" /\ line.symbol = Symbol(f, style)
  BY DEF Frame
<1>2. Symbol(f, style) # Absent /\ Symbol(f, style).function = f
  <2>1. Symbol(f, style).function = f
    BY DEF Symbol
  <2> QED
    BY <2>1, StylesAssumption
<1> HIDE DEF line
<1>3. IsLine(line) /\ (Named(line) <=> f \in Functions) /\ line.symbol.function = f
  BY <1>1, <1>2 DEF IsLine, IsSymbol, Named
<1> QED
  BY <1>3 DEF line

LEMMA NamelessIsLine ==
    ASSUME NEW number, NEW build, NEW address, NEW symbol \in Nameless
    PROVE  LET line == Frame(number, build, address, symbol) IN IsLine(line) /\ ~Named(line)
<1> DEFINE line == Frame(number, build, address, symbol)
<1>1. line.is = "frame" /\ line.symbol = symbol
  BY DEF Frame
<1>2. symbol.function = Absent /\ Absent \notin Functions
  <2>1. symbol.function = Absent
    <3>1. PICK text : symbol = [function |-> Absent, form |-> Absent, text |-> text]
      BY DEF Nameless
    <3> QED
      BY <3>1
  <2>2. Absent \notin Functions \cup Machinery \cup {Lambda}
    BY FunctionsAssumption
  <2> QED
    BY <2>1, <2>2
<1> HIDE DEF line
<1>3. IsLine(line) /\ ~Named(line)
  BY <1>1, <1>2 DEF IsLine, IsSymbol, Named
<1> QED
  BY <1>3 DEF line

LEMMA AddedNothing ==
    ASSUME NEW s, NEW names, NamesFunctions(s, names)
    PROVE  NamesFunctions(s \o <<>>, names)
<1>1. PICK L : s \in Seq(L)
  BY DEF NamesFunctions, IsStack
<1>2. s \o <<>> = s
  BY <1>1
<1> QED
  BY <1>2

\* Two reports of one crash have one signature, for every pair of clients, stacks of every length
\* and every limit on lines, frames and keys (stack_fingerprint over parse_stack_trace).
THEOREM CrashesHaveOneSignature == StacksSpec => []SameCrashSameSignature
<1>1. StacksInit => ClientsAgree /\ StacksAgree
  <2> SUFFICES ASSUME StacksInit PROVE ClientsAgree /\ StacksAgree
    OBVIOUS
  <2>1. ClientsAgree
    <3>1. PICK failed \in BOOLEAN, style \in [1 .. 2 -> Styles], build \in [1 .. 2 -> Builds] :
             client = [i \in 1 .. 2 |->
                 [style |-> style[i], build |-> build[i],
                  reason |-> IF failed THEN Reason(i, i) ELSE Absent,
                  signal |-> [name |-> "SIGABRT", numbered |-> i = 1]]]
      BY DEF StacksInit
    <3>2. ASSUME NEW i \in 1 .. 2
          PROVE  /\ client[i].style = style[i] /\ client[i].signal.name = "SIGABRT"
                 /\ client[i].reason = IF failed THEN Reason(i, i) ELSE Absent
      BY <3>1
    <3> QED
      BY <3>2 DEF ClientsAgree
  <2>2. NamesFunctions(<<>>, <<>>)
    <3> DEFINE c == [n \in 0 .. 0 |-> 0]
    <3>1. Counted(c, <<>>, <<>>)
      BY DEF Counted
    <3>2. IsStack(<<>>)
      <4> DEFINE L == {Text}
      <4>1. <<>> \in Seq(L) /\ \A line \in L : IsLine(line)
        BY DEF IsLine
      <4> HIDE DEF L
      <4> QED
        BY <4>1 DEF IsStack
    <3> QED
      BY <3>1, <3>2 DEF NamesFunctions
  <2>3. NamesFunctions(<<Header>>, <<>>)
    <3>1. IsLine(Header) /\ ~Named(Header)
      BY DEF IsLine, Named, Header
    <3>2. NamesFunctions(<<>> \o <<Header>>, <<>>)
      <4>1. <<>> \in Seq(Words)
        OBVIOUS
      <4> QED
        BY <2>2, <3>1, <4>1, NamesNoMore
    <3>3. <<>> \o <<Header>> = <<Header>>
      OBVIOUS
    <3> QED
      BY <3>2, <3>3
  <2>4. stack[1] = <<>> /\ (stack[2] = <<>> \/ stack[2] = <<Header>>)
    BY DEF StacksInit
  <2>5. <<>> \in Seq(Words)
    OBVIOUS
  <2> QED
    BY <2>1, <2>2, <2>3, <2>4, <2>5 DEF StacksAgree
<1>2. ClientsAgree /\ StacksAgree /\ [StacksNext]_stackVars => ClientsAgree' /\ StacksAgree'
  <2> SUFFICES ASSUME ClientsAgree, StacksAgree, [StacksNext]_stackVars
               PROVE  ClientsAgree' /\ StacksAgree'
    OBVIOUS
  <2>1. PICK names \in Seq(Words) : NamesFunctions(stack[1], names) /\ NamesFunctions(stack[2], names)
    BY DEF StacksAgree
  <2>2. CASE UNCHANGED stackVars
    BY <2>2 DEF stackVars, ClientsAgree, StacksAgree
  <2>3. ASSUME NEW line, IsLine(line), ~Named(line), Add(<<>>, <<line>>)
        PROVE  StacksAgree'
    <3>1. NamesFunctions(stack[1] \o <<>>, names) /\ NamesFunctions(stack[2] \o <<line>>, names)
      BY <2>1, <2>3, AddedNothing, NamesNoMore
    <3>2. stack'[1] = stack[1] \o <<>> /\ stack'[2] = stack[2] \o <<line>>
      BY <2>3 DEF Add
    <3> QED
      BY <3>1, <3>2 DEF StacksAgree
  <2>4. ASSUME NEW one, NEW other, IsLine(one), IsLine(other), ~Named(one), ~Named(other), Add(<<one>>, <<other>>)
        PROVE  StacksAgree'
    <3>1. NamesFunctions(stack[1] \o <<one>>, names) /\ NamesFunctions(stack[2] \o <<other>>, names)
      BY <2>1, <2>4, NamesNoMore
    <3>2. stack'[1] = stack[1] \o <<one>> /\ stack'[2] = stack[2] \o <<other>>
      BY <2>4 DEF Add
    <3> QED
      BY <3>1, <3>2 DEF StacksAgree
  <2>5. \A i \in 1 .. 2 : client[i].style \in Styles
    BY DEF ClientsAgree
  <2>6. ASSUME OwnLine PROVE ClientsAgree' /\ StacksAgree'
    <3>1. PICK line \in {Written(2, Symbol(f, client[2].style)) : f \in Machinery \cup {Lambda}}
                            \cup {Written(2, symbol) : symbol \in Nameless} \cup {Text} : Add(<<>>, <<line>>)
      BY <2>6 DEF OwnLine
    <3>2. IsLine(line) /\ ~Named(line)
      <4>1. CASE line = Text
        BY <4>1 DEF IsLine, Named, Text
      <4>2. CASE line \in {Written(2, Symbol(f, client[2].style)) : f \in Machinery \cup {Lambda}}
        <5>1. PICK f \in Machinery \cup {Lambda} : line = Written(2, Symbol(f, client[2].style))
          BY <4>2
        <5>2. f \notin Functions
          BY NotTheProgram
        <5> QED
          BY <2>5, <5>1, <5>2, FrameIsLine DEF Written
      <4>3. CASE line \in {Written(2, symbol) : symbol \in Nameless}
        <5>1. PICK symbol \in Nameless : line = Written(2, symbol)
          BY <4>3
        <5> QED
          BY <5>1, NamelessIsLine DEF Written
      <4> QED
        BY <3>1, <4>1, <4>2, <4>3
    <3>3. client' = client
      BY <3>1 DEF Add
    <3> QED
      BY <2>3, <3>1, <3>2, <3>3 DEF ClientsAgree
  <2>7. ASSUME UnavailableFrame PROVE ClientsAgree' /\ StacksAgree'
    <3>1. PICK both \in BOOLEAN, address \in {"address", Absent} :
             LET frame(i) == Frame(Numbered(i), IF address = Absent THEN Absent ELSE client[i].build,
                                   address, Absent)
             IN  Add(IF both THEN <<frame(1)>> ELSE <<>>, <<frame(2)>>)
      BY <2>7 DEF UnavailableFrame
    <3> DEFINE frame(i) == Frame(Numbered(i), IF address = Absent THEN Absent ELSE client[i].build,
                                 address, Absent)
               one == frame(1)
               other == frame(2)
    <3>2. Add(IF both THEN <<one>> ELSE <<>>, <<other>>)
      BY <3>1
    <3>3. IsLine(one) /\ ~Named(one) /\ IsLine(other) /\ ~Named(other)
      BY DEF IsLine, Named, Frame
    <3> HIDE DEF one, other
    <3>4. client' = client
      BY <3>2 DEF Add
    <3>5. CASE both
      BY <2>4, <3>2, <3>3, <3>4, <3>5 DEF ClientsAgree
    <3>6. CASE ~both
      BY <2>3, <3>2, <3>3, <3>4, <3>6 DEF ClientsAgree
    <3> QED
      BY <3>5, <3>6
  <2>8. ASSUME NEW f \in Functions, NamedFrame(f) PROVE ClientsAgree' /\ StacksAgree'
    <3> DEFINE one == Written(1, Symbol(f, client[1].style))
               other == Written(2, Symbol(f, client[2].style))
               name == f.name
    <3>1. /\ IsLine(one) /\ Named(one) /\ one.symbol.function = f
          /\ IsLine(other) /\ Named(other) /\ other.symbol.function = f
      BY <2>5, FrameIsLine DEF Written
    <3>5. name \in Words
      BY FunctionsAssumption
    <3>2. /\ stack'[1] = stack[1] \o <<one>> /\ stack'[2] = stack[2] \o <<other>>
          /\ client' = client
      BY <2>8 DEF NamedFrame, Add
    <3>6. one.symbol.function.name = name /\ other.symbol.function.name = name
      BY <3>1
    <3> HIDE DEF one, other, name
    <3>3. /\ NamesFunctions(stack[1] \o <<one>>, Append(names, name))
          /\ NamesFunctions(stack[2] \o <<other>>, Append(names, name))
      BY <2>1, <3>1, <3>5, <3>6, NamesOneMore
    <3>4. Append(names, name) \in Seq(Words)
      BY <3>5
    <3> QED
      BY <3>2, <3>3, <3>4 DEF StacksAgree, ClientsAgree
  <2> QED
    BY <2>2, <2>6, <2>7, <2>8 DEF StacksNext
<1>3. ClientsAgree /\ StacksAgree => SameCrashSameSignature
  BY SameSignatures
<1> QED
  BY <1>1, <1>2, <1>3, PTL DEF StacksSpec

-----------------------------------------------------------------------------
(* The loops of the message about a report *)

TraceLines ==
    {Header, Text} \cup {Frame(number, Absent, "address", symbol) :
                            number \in 0 .. LastNumber, symbol \in Symbols \cup {Absent}}

TraceRows == {ParseFrame(line) : line \in TraceLines}

RunLines == [first : 0 .. LastNumber, last : 0 .. LastNumber, symbol : {Absent} \cup Nat]

LEMMA PrefixIs ==
    ASSUME NEW S, NEW s \in Seq(S), NEW n \in 0 .. Len(s)
    PROVE  SubSeq(s, 1, n) \in Seq(S) /\ Len(SubSeq(s, 1, n)) = n /\ \A j \in 1 .. n : SubSeq(s, 1, n)[j] = s[j]
  BY SubSeqIs

LEMMA TheBounds ==
    /\ LastNumber \in Nat \ {0} /\ MaxRenderedLines \in Nat \ {0} /\ MaxRenderedLines <= LastNumber
    /\ SymbolCharacters \in Nat \ {0} /\ LongLine \in Nat /\ RepositoryCharacters \in 1 .. 140
    /\ Absent \notin Nat
  BY AnnouncementAssumption, StackTracesAssumption

LEMMA TraceRowIs ==
    ASSUME NEW row \in TraceRows
    PROVE  (row.number = Absent \/ row.number \in 0 .. LastNumber) /\ row.unavailable \in BOOLEAN
<1>1. PICK line \in TraceLines : row = ParseFrame(line)
  BY DEF TraceRows
<1>2. CASE line \in {Header, Text}
  <2>1. line.is # "frame"
    BY <1>2 DEF Header, Text
  <2> QED
    BY <1>1, <2>1 DEF ParseFrame
<1>3. CASE line \notin {Header, Text}
  <2>1. PICK number \in 0 .. LastNumber, symbol \in Symbols \cup {Absent} :
           line = Frame(number, Absent, "address", symbol)
    BY <1>1, <1>3 DEF TraceLines
  <2>2. line.is = "frame" /\ line.number = number /\ line.symbol = symbol
    BY <2>1 DEF Frame
  <2> QED
    BY <1>1, <2>2 DEF ParseFrame
<1> QED
  BY <1>2, <1>3

LEMMA TruncatedIs ==
    ASSUME NEW characters \in Int, NEW maximum \in Int
    PROVE  /\ TruncateText(characters, maximum) \in Int /\ TruncateText(characters, maximum) <= maximum
           /\ characters \in Nat /\ maximum \in Nat => TruncateText(characters, maximum) \in Nat
  BY DEF TruncateText, Lesser

\* A run grows by a frame whose number follows, or another begins.
Extended(new, runs, row) ==
    /\ Len(runs) \in Nat \ {0} /\ Len(new) = Len(runs) /\ \A j \in 1 .. Len(runs) - 1 : new[j] = runs[j]
    /\ new[Len(runs)].first = runs[Len(runs)].first /\ new[Len(runs)].last = row.number
    /\ (runs[Len(runs)].last + 1) % (LastNumber + 1) = row.number

Appended(new, runs, row) ==
    /\ Len(runs) \in Nat /\ Len(new) = Len(runs) + 1 /\ \A j \in 1 .. Len(runs) : new[j] = runs[j]
    /\ new[Len(runs) + 1].first = row.number /\ new[Len(runs) + 1].last = row.number

LEMMA FrameAdded ==
    ASSUME NEW runs \in Seq(RunLines), NEW row \in TraceRows, row.number # Absent
    PROVE  /\ AddFrame(runs, row) \in Seq(RunLines)
           /\ Extended(AddFrame(runs, row), runs, row) \/ Appended(AddFrame(runs, row), runs, row)
<1> DEFINE N == Len(runs)
           new == AddFrame(runs, row)
<1>1. N \in Nat /\ row.number \in 0 .. LastNumber
  BY TraceRowIs
<1>2. CASE /\ row.unavailable /\ runs # <<>>
           /\ Last(runs).symbol = Absent /\ (Last(runs).last + 1) % (LastNumber + 1) = row.number
  <2> DEFINE last == [runs[N] EXCEPT !.last = row.number]
             front == SubSeq(runs, 1, N - 1)
  <2>1. new = Append(front, last)
    BY <1>2 DEF AddFrame, Last, Front
  <2>2. N \in Nat \ {0} /\ runs[N] \in RunLines /\ N - 1 \in 0 .. N
    BY <1>1, <1>2
  <2>3. last \in RunLines /\ last.first = runs[N].first /\ last.last = row.number
    BY <1>1, <2>2 DEF RunLines
  <2>4. front \in Seq(RunLines) /\ Len(front) = N - 1 /\ \A j \in 1 .. N - 1 : front[j] = runs[j]
    <3> DEFINE n == N - 1
    <3>1. n \in 0 .. Len(runs) /\ runs \in Seq(RunLines)
      BY <2>2
    <3> HIDE DEF n
    <3>2. SubSeq(runs, 1, n) \in Seq(RunLines) /\ Len(SubSeq(runs, 1, n)) = n /\ \A j \in 1 .. n : SubSeq(runs, 1, n)[j] = runs[j]
      BY ONLY <3>1, PrefixIs
    <3> QED
      BY <3>2 DEF n
  <2> HIDE DEF last, front, N
  <2>5. /\ Append(front, last) \in Seq(RunLines) /\ Len(Append(front, last)) = N
        /\ Append(front, last)[N] = last /\ \A j \in 1 .. N - 1 : Append(front, last)[j] = front[j]
    BY <2>2, <2>3, <2>4
  <2>6. (runs[N].last + 1) % (LastNumber + 1) = row.number
    BY <1>2 DEF Last, N
  <2> QED
    BY <2>1, <2>2, <2>3, <2>4, <2>5, <2>6 DEF Extended, N
<1>3. CASE ~(/\ row.unavailable /\ runs # <<>>
             /\ Last(runs).symbol = Absent /\ (Last(runs).last + 1) % (LastNumber + 1) = row.number)
  <2> DEFINE symbol == IF row.unavailable THEN Absent ELSE TruncateText(SymbolCharacters, 96)
             run == [first |-> row.number, last |-> row.number, symbol |-> symbol]
  <2>1. new = Append(runs, run)
    BY <1>3 DEF AddFrame
  <2>2. symbol \in {Absent} \cup Nat
    <3>1. TruncateText(SymbolCharacters, 96) \in Nat
      <4>1. SymbolCharacters \in Int /\ 96 \in Int /\ SymbolCharacters \in Nat /\ 96 \in Nat
        BY TheBounds
      <4> QED
        BY ONLY <4>1, TruncatedIs
    <3> QED
      BY <3>1
  <2> HIDE DEF symbol
  <2>3. run \in RunLines /\ run.first = row.number /\ run.last = row.number
    BY <1>1, <2>2 DEF RunLines
  <2> HIDE DEF run
  <2>4. /\ Append(runs, run) \in Seq(RunLines) /\ Len(Append(runs, run)) = N + 1
        /\ Append(runs, run)[N + 1] = run /\ \A j \in 1 .. N : Append(runs, run)[j] = runs[j]
    BY <2>3
  <2> QED
    BY <1>1, <2>1, <2>3, <2>4 DEF Appended
<1> QED
  BY <1>2, <1>3

LEMMA RunSteps ==
    ASSUME NEW rows
    PROVE  /\ <<>> \in Seq(RunLines)
           /\ \A runs \in Seq(RunLines), row \in TraceRows : AddRun(rows, runs, row) \in Seq(RunLines)
  BY FrameAdded DEF AddRun

\* The values of the loop that makes the runs.
RunsMade(f, rows) ==
    /\ f \in [0 .. Len(rows) -> Seq(RunLines)]
    /\ f[0] = <<>> /\ f[Len(rows)] = Runs(rows)
    /\ \A n \in 1 .. Len(rows) : f[n] = AddRun(rows, f[n - 1], rows[n])

\* Which it does.
LEMMA RunsAreMade ==
    ASSUME NEW rows \in Seq(TraceRows)
    PROVE  \E f : RunsMade(f, rows)
<1> DEFINE N == Len(rows)
           step == [p \in Seq(RunLines) \X TraceRows |-> AddRun(rows, p[1], p[2])]
           Values(iter) == [t \in SUBSET DOMAIN rows |->
                               IF t = {} THEN <<>>
                               ELSE AddRun(rows, iter[t \ {Max(t)}], rows[Max(t)])]
           chosen == CHOOSE iter : iter = Values(iter)
<1>1. N \in Nat /\ DOMAIN rows = 1 .. N /\ rows \in [1 .. N -> TraceRows]
  OBVIOUS
<1>2. <<>> \in Seq(RunLines) /\ step \in [Seq(RunLines) \X TraceRows -> Seq(RunLines)]
  BY RunSteps
<1>3. PICK iter \in [SUBSET (1 .. N) -> Seq(RunLines)] : Iterates(iter, <<>>, step, rows, N)
  <2> HIDE DEF step, N
  <2> QED
    BY <1>1, <1>2, IteratesExist
<1>4. ASSUME NEW t \in SUBSET (1 .. N), t # {}
      PROVE  /\ iter[t] = AddRun(rows, iter[t \ {Max(t)}], rows[Max(t)])
             /\ iter[t \ {Max(t)}] \in Seq(RunLines) /\ rows[Max(t)] \in TraceRows
  <2>1. Max(t) \in 1 .. N /\ t \ {Max(t)} \in SUBSET (1 .. N)
    <3> HIDE DEF N
    <3> QED
      BY <1>1, <1>4, GreatestOf
  <2>2. iter[t \ {Max(t)}] \in Seq(RunLines) /\ rows[Max(t)] \in TraceRows
    BY <1>1, <2>1
  <2> QED
    BY <1>3, <1>4, <2>2 DEF Iterates
<1>5. iter = Values(iter)
  <2>1. iter[{}] = <<>>
    BY <1>3 DEF Iterates
  <2> QED
    BY <1>1, <1>4, <2>1
<1>6. chosen = Values(chosen)
  <2>1. \E i : i = Values(i)
    BY <1>5
  <2> HIDE DEF Values
  <2> QED
    BY <2>1
<1>7. Runs(rows) = chosen[DOMAIN rows]
  BY Zenon DEF FoldLeft, MapThenFoldSet, Runs
<1> HIDE DEF chosen
<1>8. chosen[DOMAIN rows] = iter[1 .. N]
  <2>1. \A t \in SUBSET (1 .. N) : chosen[t] = Values(chosen)[t] /\ iter[t] = Values(iter)[t]
    BY <1>5, <1>6
  <2>2. chosen[{}] = iter[{}]
    BY <1>1, <2>1
  <2>3. SameSteps(chosen, iter, N)
    BY <1>1, <2>1 DEF SameSteps
  <2>4. chosen[1 .. N] = iter[1 .. N]
    <3> HIDE DEF N, Values
    <3> QED
      BY <1>1, <2>2, <2>3, SameIterates
  <2> QED
    BY <1>1, <2>4
<1>9. LoopValues(iter, <<>>, step, rows, N, Seq(RunLines))
  <2> HIDE DEF step, N
  <2> QED
    BY <1>1, <1>2, <1>3, LoopOfIterates
<1>10. ASSUME NEW n \in 1 .. N PROVE iter[1 .. n] = AddRun(rows, iter[1 .. n - 1], rows[n])
  <2>1. n - 1 \in 0 .. N
    BY <1>1
  <2>2. iter[1 .. n - 1] \in Seq(RunLines) /\ rows[n] \in TraceRows
    BY <1>1, <1>9, <2>1 DEF LoopValues
  <2> QED
    BY <1>9, <2>2 DEF LoopValues
<1> DEFINE f == [n \in 0 .. N |-> iter[1 .. n]]
<1>11. f \in [0 .. N -> Seq(RunLines)] /\ f[0] = <<>> /\ f[N] = Runs(rows)
  BY <1>1, <1>7, <1>8, <1>9 DEF LoopValues
<1>12. \A n \in 1 .. N : f[n] = AddRun(rows, f[n - 1], rows[n])
  BY <1>1, <1>10
<1> HIDE DEF f
<1> QED
  BY <1>11, <1>12 DEF RunsMade

Previews == [characters : Int, lines : Nat, frames : Nat, full : BOOLEAN]

LEMMA RunIs ==
    ASSUME NEW run \in RunLines
    PROVE  /\ Rendered(run) \in Nat /\ FrameCount(run) \in Nat \ {0}
           /\ run.first \in 0 .. LastNumber /\ run.last \in 0 .. LastNumber
<1>1. run.first \in 0 .. LastNumber /\ run.last \in 0 .. LastNumber /\ run.symbol \in {Absent} \cup Nat
  BY DEF RunLines
<1>2. \A n : NumberCharacters(n) \in {1, 10}
  BY DEF NumberCharacters
<1>3. Rendered(run) \in Nat
  <2>1. (IF run.symbol = Absent THEN 11 ELSE run.symbol) \in Nat
    BY <1>1
  <2>2. (IF run.first = run.last THEN 0 ELSE 2 + NumberCharacters(run.last)) \in Nat
    BY <1>2
  <2> QED
    BY <1>2, <2>1, <2>2 DEF Rendered
<1>4. (run.last - run.first) % (LastNumber + 1) \in 0 .. LastNumber
  <2> DEFINE M == LastNumber + 1
             d == run.last - run.first
  <2>1. M \in Nat \ {0} /\ d \in Int /\ M - 1 = LastNumber
    BY <1>1, TheBounds
  <2> HIDE DEF M, d
  <2>2. d % M \in 0 .. M - 1
    BY ONLY <2>1
  <2> QED
    BY <2>1, <2>2 DEF M, d
<1> QED
  BY <1>1, <1>3, <1>4, TheBounds DEF FrameCount

LEMMA ShowSteps ==
    NothingShown \in Previews /\ \A shown \in Previews, run \in RunLines : Show(shown, run) \in Previews
<1>1. NothingShown \in Previews
  BY DEF NothingShown, Previews
<1>2. ASSUME NEW shown \in Previews, NEW run \in RunLines PROVE Show(shown, run) \in Previews
  <2>1. Rendered(run) \in Nat /\ FrameCount(run) \in Nat
    BY RunIs
  <2>2. shown.characters \in Int /\ shown.lines \in Nat /\ shown.frames \in Nat
    BY DEF Previews
  <2>3. shown.characters + Rendered(run) \in Int /\ shown.lines + 1 \in Nat /\ shown.frames + FrameCount(run) \in Nat
    BY <2>1, <2>2
  <2> QED
    BY <2>3 DEF Show, Previews
<1> QED
  BY <1>1, <1>2

\* The values of the loop that shows the runs.
RunsShown(f, runs) ==
    /\ f \in [0 .. Len(runs) -> Previews]
    /\ f[0] = NothingShown /\ f[Len(runs)] = Preview(runs)
    /\ \A n \in 1 .. Len(runs) : f[n] = Show(f[n - 1], runs[n])

\* Which it does.
LEMMA RunsAreShown ==
    ASSUME NEW runs \in Seq(RunLines)
    PROVE  \E f : RunsShown(f, runs)
<1> DEFINE N == Len(runs)
           step == [p \in Previews \X RunLines |-> Show(p[1], p[2])]
           Values(iter) == [t \in SUBSET DOMAIN runs |->
                               IF t = {} THEN NothingShown
                               ELSE Show(iter[t \ {Max(t)}], runs[Max(t)])]
           chosen == CHOOSE iter : iter = Values(iter)
<1>1. N \in Nat /\ DOMAIN runs = 1 .. N /\ runs \in [1 .. N -> RunLines]
  OBVIOUS
<1>2. NothingShown \in Previews /\ step \in [Previews \X RunLines -> Previews]
  BY ShowSteps
<1>3. PICK iter \in [SUBSET (1 .. N) -> Previews] : Iterates(iter, NothingShown, step, runs, N)
  <2> HIDE DEF step, N
  <2> QED
    BY <1>1, <1>2, IteratesExist
<1>4. ASSUME NEW t \in SUBSET (1 .. N), t # {}
      PROVE  /\ iter[t] = Show(iter[t \ {Max(t)}], runs[Max(t)])
             /\ iter[t \ {Max(t)}] \in Previews /\ runs[Max(t)] \in RunLines
  <2>1. Max(t) \in 1 .. N /\ t \ {Max(t)} \in SUBSET (1 .. N)
    <3> HIDE DEF N
    <3> QED
      BY <1>1, <1>4, GreatestOf
  <2>2. iter[t \ {Max(t)}] \in Previews /\ runs[Max(t)] \in RunLines
    BY <1>1, <2>1
  <2> QED
    BY <1>3, <1>4, <2>2 DEF Iterates
<1>5. iter = Values(iter)
  <2>1. iter[{}] = NothingShown
    BY <1>3 DEF Iterates
  <2> QED
    BY <1>1, <1>4, <2>1
<1>6. chosen = Values(chosen)
  <2>1. \E i : i = Values(i)
    BY <1>5
  <2> HIDE DEF Values
  <2> QED
    BY <2>1
<1>7. Preview(runs) = chosen[DOMAIN runs]
  BY Zenon DEF FoldLeft, MapThenFoldSet, Preview
<1> HIDE DEF chosen
<1>8. chosen[DOMAIN runs] = iter[1 .. N]
  <2>1. \A t \in SUBSET (1 .. N) : chosen[t] = Values(chosen)[t] /\ iter[t] = Values(iter)[t]
    BY <1>5, <1>6
  <2>2. chosen[{}] = iter[{}]
    BY <1>1, <2>1
  <2>3. SameSteps(chosen, iter, N)
    BY <1>1, <2>1 DEF SameSteps
  <2>4. chosen[1 .. N] = iter[1 .. N]
    <3> HIDE DEF N, Values
    <3> QED
      BY <1>1, <2>2, <2>3, SameIterates
  <2> QED
    BY <1>1, <2>4
<1>9. LoopValues(iter, NothingShown, step, runs, N, Previews)
  <2> HIDE DEF step, N
  <2> QED
    BY <1>1, <1>2, <1>3, LoopOfIterates
<1>10. ASSUME NEW n \in 1 .. N PROVE iter[1 .. n] = Show(iter[1 .. n - 1], runs[n])
  <2>1. n - 1 \in 0 .. N
    BY <1>1
  <2>2. iter[1 .. n - 1] \in Previews /\ runs[n] \in RunLines
    BY <1>1, <1>9, <2>1 DEF LoopValues
  <2> QED
    BY <1>9, <2>2 DEF LoopValues
<1> DEFINE f == [n \in 0 .. N |-> iter[1 .. n]]
<1>11. f \in [0 .. N -> Previews] /\ f[0] = NothingShown /\ f[N] = Preview(runs)
  BY <1>1, <1>7, <1>8, <1>9 DEF LoopValues
<1>12. \A n \in 1 .. N : f[n] = Show(f[n - 1], runs[n])
  BY <1>1, <1>10
<1> HIDE DEF f
<1> QED
  BY <1>11, <1>12 DEF RunsShown

LEMMA LineSteps == \A sum \in Int : \A line : AddLine(sum, line) \in Int
<1>1. \A line : LineCharacters(line) \in Int
  BY TheBounds DEF LineCharacters
<1> QED
  BY <1>1 DEF AddLine

\* The values of the sum of the characters of lines.
LinesAdded(f, start, lines) ==
    /\ f \in [0 .. Len(lines) -> Int]
    /\ f[0] = start /\ f[Len(lines)] = FoldLeft(AddLine, start, lines)
    /\ \A n \in 1 .. Len(lines) : f[n] = AddLine(f[n - 1], lines[n])

\* Which is one.
LEMMA LinesAreAdded ==
    ASSUME NEW C, NEW lines \in Seq(C), NEW start \in Int
    PROVE  \E f : LinesAdded(f, start, lines)
<1> DEFINE N == Len(lines)
           step == [p \in Int \X C |-> AddLine(p[1], p[2])]
           Values(iter) == [t \in SUBSET DOMAIN lines |->
                               IF t = {} THEN start
                               ELSE AddLine(iter[t \ {Max(t)}], lines[Max(t)])]
           chosen == CHOOSE iter : iter = Values(iter)
<1>1. N \in Nat /\ DOMAIN lines = 1 .. N /\ lines \in [1 .. N -> C]
  OBVIOUS
<1>2. start \in Int /\ step \in [Int \X C -> Int]
  BY LineSteps
<1>3. PICK iter \in [SUBSET (1 .. N) -> Int] : Iterates(iter, start, step, lines, N)
  <2> HIDE DEF step, N
  <2> QED
    BY <1>1, <1>2, IteratesExist
<1>4. ASSUME NEW t \in SUBSET (1 .. N), t # {}
      PROVE  /\ iter[t] = AddLine(iter[t \ {Max(t)}], lines[Max(t)])
             /\ iter[t \ {Max(t)}] \in Int /\ lines[Max(t)] \in C
  <2>1. Max(t) \in 1 .. N /\ t \ {Max(t)} \in SUBSET (1 .. N)
    <3> HIDE DEF N
    <3> QED
      BY <1>1, <1>4, GreatestOf
  <2>2. iter[t \ {Max(t)}] \in Int /\ lines[Max(t)] \in C
    BY <1>1, <2>1
  <2> QED
    BY <1>3, <1>4, <2>2 DEF Iterates
<1>5. iter = Values(iter)
  <2>1. iter[{}] = start
    BY <1>3 DEF Iterates
  <2> QED
    BY <1>1, <1>4, <2>1
<1>6. chosen = Values(chosen)
  <2>1. \E i : i = Values(i)
    BY <1>5
  <2> HIDE DEF Values
  <2> QED
    BY <2>1
<1>7. FoldLeft(AddLine, start, lines) = chosen[DOMAIN lines]
  BY Zenon DEF FoldLeft, MapThenFoldSet
<1> HIDE DEF chosen
<1>8. chosen[DOMAIN lines] = iter[1 .. N]
  <2>1. \A t \in SUBSET (1 .. N) : chosen[t] = Values(chosen)[t] /\ iter[t] = Values(iter)[t]
    BY <1>5, <1>6
  <2>2. chosen[{}] = iter[{}]
    BY <1>1, <2>1
  <2>3. SameSteps(chosen, iter, N)
    BY <1>1, <2>1 DEF SameSteps
  <2>4. chosen[1 .. N] = iter[1 .. N]
    <3> HIDE DEF N, Values
    <3> QED
      BY <1>1, <2>2, <2>3, SameIterates
  <2> QED
    BY <1>1, <2>4
<1>9. LoopValues(iter, start, step, lines, N, Int)
  <2> HIDE DEF step, N
  <2> QED
    BY <1>1, <1>2, <1>3, LoopOfIterates
<1>10. ASSUME NEW n \in 1 .. N PROVE iter[1 .. n] = AddLine(iter[1 .. n - 1], lines[n])
  <2>1. n - 1 \in 0 .. N
    BY <1>1
  <2>2. iter[1 .. n - 1] \in Int /\ lines[n] \in C
    BY <1>1, <1>9, <2>1 DEF LoopValues
  <2> QED
    BY <1>9, <2>2 DEF LoopValues
<1> DEFINE f == [n \in 0 .. N |-> iter[1 .. n]]
<1>11. f \in [0 .. N -> Int] /\ f[0] = start /\ f[N] = FoldLeft(AddLine, start, lines)
  BY <1>1, <1>7, <1>8, <1>9 DEF LoopValues
<1>12. \A n \in 1 .. N : f[n] = AddLine(f[n - 1], lines[n])
  BY <1>1, <1>10
<1> HIDE DEF f
<1> QED
  BY <1>11, <1>12 DEF LinesAdded

MessageFields == [name : Nat, value : Int]

LEMMA FieldSteps == 0 \in Int /\ \A sum \in Int, field \in MessageFields : AddField(sum, field) \in Int
  BY DEF AddField, MessageFields

\* The values of the sum of the characters of fields.
FieldsAdded(f, fields) ==
    /\ f \in [0 .. Len(fields) -> Int]
    /\ f[0] = 0 /\ f[Len(fields)] = FoldLeft(AddField, 0, fields)
    /\ \A n \in 1 .. Len(fields) : f[n] = AddField(f[n - 1], fields[n])

\* Which is one.
LEMMA FieldsAreAdded ==
    ASSUME NEW fields \in Seq(MessageFields)
    PROVE  \E f : FieldsAdded(f, fields)
<1> DEFINE N == Len(fields)
           step == [p \in Int \X MessageFields |-> AddField(p[1], p[2])]
           Values(iter) == [t \in SUBSET DOMAIN fields |->
                               IF t = {} THEN 0
                               ELSE AddField(iter[t \ {Max(t)}], fields[Max(t)])]
           chosen == CHOOSE iter : iter = Values(iter)
<1>1. N \in Nat /\ DOMAIN fields = 1 .. N /\ fields \in [1 .. N -> MessageFields]
  OBVIOUS
<1>2. 0 \in Int /\ step \in [Int \X MessageFields -> Int]
  BY FieldSteps
<1>3. PICK iter \in [SUBSET (1 .. N) -> Int] : Iterates(iter, 0, step, fields, N)
  <2> HIDE DEF step, N
  <2> QED
    BY <1>1, <1>2, IteratesExist
<1>4. ASSUME NEW t \in SUBSET (1 .. N), t # {}
      PROVE  /\ iter[t] = AddField(iter[t \ {Max(t)}], fields[Max(t)])
             /\ iter[t \ {Max(t)}] \in Int /\ fields[Max(t)] \in MessageFields
  <2>1. Max(t) \in 1 .. N /\ t \ {Max(t)} \in SUBSET (1 .. N)
    <3> HIDE DEF N
    <3> QED
      BY <1>1, <1>4, GreatestOf
  <2>2. iter[t \ {Max(t)}] \in Int /\ fields[Max(t)] \in MessageFields
    BY <1>1, <2>1
  <2> QED
    BY <1>3, <1>4, <2>2 DEF Iterates
<1>5. iter = Values(iter)
  <2>1. iter[{}] = 0
    BY <1>3 DEF Iterates
  <2> QED
    BY <1>1, <1>4, <2>1
<1>6. chosen = Values(chosen)
  <2>1. \E i : i = Values(i)
    BY <1>5
  <2> HIDE DEF Values
  <2> QED
    BY <2>1
<1>7. FoldLeft(AddField, 0, fields) = chosen[DOMAIN fields]
  BY Zenon DEF FoldLeft, MapThenFoldSet
<1> HIDE DEF chosen
<1>8. chosen[DOMAIN fields] = iter[1 .. N]
  <2>1. \A t \in SUBSET (1 .. N) : chosen[t] = Values(chosen)[t] /\ iter[t] = Values(iter)[t]
    BY <1>5, <1>6
  <2>2. chosen[{}] = iter[{}]
    BY <1>1, <2>1
  <2>3. SameSteps(chosen, iter, N)
    BY <1>1, <2>1 DEF SameSteps
  <2>4. chosen[1 .. N] = iter[1 .. N]
    <3> HIDE DEF N, Values
    <3> QED
      BY <1>1, <2>2, <2>3, SameIterates
  <2> QED
    BY <1>1, <2>4
<1>9. LoopValues(iter, 0, step, fields, N, Int)
  <2> HIDE DEF step, N
  <2> QED
    BY <1>1, <1>2, <1>3, LoopOfIterates
<1>10. ASSUME NEW n \in 1 .. N PROVE iter[1 .. n] = AddField(iter[1 .. n - 1], fields[n])
  <2>1. n - 1 \in 0 .. N
    BY <1>1
  <2>2. iter[1 .. n - 1] \in Int /\ fields[n] \in MessageFields
    BY <1>1, <1>9, <2>1 DEF LoopValues
  <2> QED
    BY <1>9, <2>2 DEF LoopValues
<1> DEFINE f == [n \in 0 .. N |-> iter[1 .. n]]
<1>11. f \in [0 .. N -> Int] /\ f[0] = 0 /\ f[N] = FoldLeft(AddField, 0, fields)
  BY <1>1, <1>7, <1>8, <1>9 DEF LoopValues
<1>12. \A n \in 1 .. N : f[n] = AddField(f[n - 1], fields[n])
  BY <1>1, <1>10
<1> HIDE DEF f
<1> QED
  BY <1>11, <1>12 DEF FieldsAdded

-----------------------------------------------------------------------------
(* Whether frames are left out *)

FramesCounted(h, rows) ==
    /\ h \in [0 .. Len(rows) -> Nat] /\ h[0] = 0
    /\ \A n \in 1 .. Len(rows) : h[n] = h[n - 1] + IF rows[n].number # Absent THEN 1 ELSE 0

LEMMA ParsedRowsAre ==
    ASSUME NEW text \in Seq(TraceLines)
    PROVE  /\ ParseStackTrace(text).rows \in Seq(TraceRows) /\ Len(ParseStackTrace(text).rows) <= MaxRenderedLines
           /\ ParseStackTrace(text).frameCount \in Nat /\ ParseStackTrace(text).truncated \in BOOLEAN
           /\ \E h : /\ FramesCounted(h, ParseStackTrace(text).rows)
                     /\ h[Len(ParseStackTrace(text).rows)] = ParseStackTrace(text).frameCount
<1> DEFINE parsed == ParseStackTrace(text)
<1>1. PICK f, o, m : StackRead(f, text, o, m, TraceRows)
  BY StackIsRead DEF TraceRows
<1> DEFINE N == m - o
           P == {n \in 0 .. N : Len(f[n].rows) = n /\ \A j \in 1 .. n : f[n].rows[j] = ParseFrame(text[j + o])}
<1>2. /\ N \in Nat /\ N <= MaxRenderedLines /\ f \in [0 .. N -> ParsedStacks(TraceRows)]
      /\ f[0] = NoRows(Len(text) > MaxRenderedLines) /\ f[N] = parsed
      /\ \A n \in 1 .. N : f[n] = AddRow(f[n - 1], ParseFrame(text[n + o]))
  BY <1>1, TheBounds DEF StackRead
<1> HIDE DEF N, parsed
<1>3. ASSUME NEW n \in 0 .. N
      PROVE  f[n].rows \in Seq(TraceRows) /\ f[n].frameCount \in Nat /\ f[n].truncated \in BOOLEAN
  BY <1>2 DEF ParsedStacks
<1>4. 0 \in P
  <2>1. f[0].rows = <<>>
    BY <1>2 DEF NoRows
  <2>2. 0 \in 0 .. N
    BY <1>2
  <2> QED
    BY <2>1, <2>2
<1>5. ASSUME NEW n \in 0 .. N - 1, n \in P PROVE n + 1 \in P
  <2> DEFINE row == ParseFrame(text[n + 1 + o])
             old == f[n].rows
             new == f[n + 1].rows
  <2>1. n + 1 \in 1 .. N /\ n + 1 \in 0 .. N /\ n \in 0 .. N /\ (n + 1) - 1 = n
    BY <1>2
  <2>2. f[n + 1] = AddRow(f[n], row)
    BY <1>2, <2>1
  <2>3. new = Append(old, row)
    BY ONLY <2>2, RowAppended DEF new, old
  <2>4. old \in Seq(TraceRows) /\ Len(old) = n /\ \A j \in 1 .. n : old[j] = ParseFrame(text[j + o])
    BY <1>3, <1>5, <2>1
  <2>5. row = ParseFrame(text[n + 1 + o])
    OBVIOUS
  <2> HIDE DEF old, new, row
  <2>6. Len(new) = n + 1 /\ new[n + 1] = row /\ \A j \in 1 .. n : new[j] = old[j]
    BY <2>3, <2>4
  <2>7. \A j \in 1 .. n + 1 : new[j] = ParseFrame(text[j + o])
    BY <2>4, <2>5, <2>6
  <2> QED
    BY <2>1, <2>6, <2>7 DEF new
<1>6. N \in P
  <2> HIDE DEF P
  <2>1. \A n \in 0 .. N : n \in P
    BY <1>2, <1>4, <1>5, BoundedInduction
  <2> QED
    BY <1>2, <2>1
<1>7. N \in 0 .. N
  BY <1>2
<1>8. /\ parsed.rows \in Seq(TraceRows) /\ parsed.frameCount \in Nat /\ parsed.truncated \in BOOLEAN
      /\ Len(parsed.rows) = N /\ \A j \in 1 .. N : parsed.rows[j] = ParseFrame(text[j + o])
  BY <1>2, <1>3, <1>6, <1>7
<1> DEFINE h == [n \in 0 .. N |-> f[n].frameCount]
<1>9. h \in [0 .. N -> Nat] /\ h[0] = 0 /\ h[N] = parsed.frameCount
  <2>1. f[0].frameCount = 0
    BY <1>2 DEF NoRows
  <2> QED
    BY <1>2, <1>3, <1>7, <2>1
<1>10. ASSUME NEW n \in 1 .. N
       PROVE  h[n] = h[n - 1] + IF parsed.rows[n].number # Absent THEN 1 ELSE 0
  <2>1. n \in 0 .. N /\ n - 1 \in 0 .. N
    BY <1>2
  <2>2. f[n] = AddRow(f[n - 1], parsed.rows[n])
    BY <1>2, <1>8
  <2>3. f[n].frameCount = f[n - 1].frameCount + IF parsed.rows[n].number # Absent THEN 1 ELSE 0
    <3> DEFINE old == f[n - 1]
               row == parsed.rows[n]
    <3> HIDE DEF old, row
    <3>1. AddRow(old, row).frameCount = old.frameCount + IF row.number # Absent THEN 1 ELSE 0
      BY RowAdded
    <3> QED
      BY <2>2, <3>1 DEF old, row
  <2> QED
    BY <2>1, <2>3
<1> HIDE DEF h
<1>11. FramesCounted(h, parsed.rows)
  BY <1>8, <1>9, <1>10 DEF FramesCounted
<1> QED
  BY <1>2, <1>8, <1>9, <1>11 DEF parsed

\* How many frames there are up to each run.
Tallied(t, runs) ==
    /\ t \in [0 .. Len(runs) -> Nat] /\ t[0] = 0
    /\ \A j \in 1 .. Len(runs) : t[j] = t[j - 1] + FrameCount(runs[j])

TallyGrows(t, runs, new) == \E u : Tallied(u, new) /\ u[Len(new)] = t[Len(runs)] + 1

LEMMA TallyAppended ==
    ASSUME NEW runs \in Seq(RunLines), NEW new \in Seq(RunLines), NEW row, row.number \in 0 .. LastNumber,
           Appended(new, runs, row), NEW t, Tallied(t, runs)
    PROVE  TallyGrows(t, runs, new)
<1> DEFINE N == Len(runs)
           u == [j \in 0 .. N + 1 |-> IF j = N + 1 THEN t[N] + 1 ELSE t[j]]
<1>1. /\ N \in Nat /\ Len(new) = N + 1 /\ \A j \in 1 .. N : new[j] = runs[j]
      /\ new[N + 1].first = row.number /\ new[N + 1].last = row.number
  BY DEF Appended
<1>2. t \in [0 .. N -> Nat] /\ t[0] = 0 /\ \A j \in 1 .. N : t[j] = t[j - 1] + FrameCount(runs[j])
  BY DEF Tallied
<1> HIDE DEF N
<1>3. u \in [0 .. N + 1 -> Nat] /\ u[N + 1] = t[N] + 1 /\ \A j \in 0 .. N : u[j] = t[j]
  BY <1>1, <1>2
<1> HIDE DEF u
<1>4. FrameCount(new[N + 1]) = 1
  <2> DEFINE M == LastNumber + 1
  <2>1. M \in Nat \ {0} /\ row.number - row.number = 0
    BY TheBounds
  <2> HIDE DEF M
  <2>2. 0 % M = 0
    BY ONLY <2>1
  <2>3. FrameCount(new[N + 1]) = ((row.number - row.number) % M) + 1
    BY <1>1 DEF FrameCount, M
  <2> QED
    BY <2>1, <2>2, <2>3
<1>5. ASSUME NEW j \in 1 .. N + 1 PROVE u[j] = u[j - 1] + FrameCount(new[j])
  <2>1. CASE j = N + 1
    <3>1. j - 1 = N /\ N \in 0 .. N
      BY <1>1, <2>1
    <3> QED
      BY <1>3, <1>4, <2>1, <3>1
  <2>2. CASE j # N + 1
    <3>1. j \in 1 .. N /\ j \in 0 .. N /\ j - 1 \in 0 .. N
      BY <1>1, <2>2
    <3> QED
      BY <1>1, <1>2, <1>3, <3>1
  <2> QED
    BY <2>1, <2>2
<1>6. u[0] = 0
  BY <1>1, <1>2, <1>3
<1>7. Tallied(u, new)
  BY <1>1, <1>3, <1>5, <1>6 DEF Tallied
<1> QED
  BY <1>1, <1>3, <1>7 DEF TallyGrows, N

\* The number of frames in a run, where numbers start again after the last.
LEMMA NextInRun ==
    ASSUME NEW M \in Nat \ {0}, NEW a \in 0 .. M - 1, NEW b \in 0 .. M - 1, NEW c, c = (b + 1) % M,
           ((b - a) % M) + 1 < M
    PROVE  (c - a) % M = ((b - a) % M) + 1
<1>1. (b - a) % M = IF b >= a THEN b - a ELSE b - a + M
  OBVIOUS
<1>2. CASE b + 1 = M
  <2>1. c = 0
    BY <1>2
  <2>2. a # 0
    BY <1>1, <1>2
  <2>3. (0 - a) % M = 0 - a + M
    BY <2>2
  <2> QED
    BY <1>1, <1>2, <2>1, <2>2, <2>3
<1>3. CASE b + 1 # M
  <2>1. c = b + 1 /\ c \in 0 .. M - 1
    <3>1. b + 1 \in 0 .. M - 1
      BY <1>3
    <3> QED
      BY <3>1
  <2>2. (c - a) % M = IF c >= a THEN c - a ELSE c - a + M
    BY ONLY <2>1
  <2>3. c # a
    BY <1>1, <2>1
  <2> QED
    BY <1>1, <2>1, <2>2, <2>3
<1> QED
  BY <1>2, <1>3

LEMMA TallyExtended ==
    ASSUME NEW runs \in Seq(RunLines), NEW new \in Seq(RunLines), NEW row, row.number \in 0 .. LastNumber,
           Extended(new, runs, row), NEW t, Tallied(t, runs), t[Len(runs)] <= LastNumber
    PROVE  TallyGrows(t, runs, new)
<1> DEFINE N == Len(runs)
           u == [j \in 0 .. N |-> IF j = N THEN t[N] + 1 ELSE t[j]]
<1>1. /\ N \in Nat \ {0} /\ Len(new) = N /\ \A j \in 1 .. N - 1 : new[j] = runs[j]
      /\ new[N].first = runs[N].first /\ new[N].last = row.number
      /\ (runs[N].last + 1) % (LastNumber + 1) = row.number
  BY DEF Extended
<1>2. t \in [0 .. N -> Nat] /\ t[0] = 0 /\ \A j \in 1 .. N : t[j] = t[j - 1] + FrameCount(runs[j])
  BY DEF Tallied
<1>3. t[N] <= LastNumber /\ runs[N] \in RunLines
  BY <1>1
<1> HIDE DEF N
<1>4. /\ u \in [0 .. N -> Nat] /\ u[N] = t[N] + 1 /\ \A j \in 0 .. N - 1 : u[j] = t[j]
      /\ N \in 0 .. N /\ N \in 1 .. N /\ N - 1 \in 0 .. N /\ N - 1 \in 0 .. N - 1
  BY <1>1, <1>2
<1> HIDE DEF u
<1>5. FrameCount(new[N]) = FrameCount(runs[N]) + 1
  <2> DEFINE M == LastNumber + 1
             a == runs[N].first
             b == runs[N].last
             c == row.number
  <2>1. M \in Nat \ {0} /\ a \in 0 .. M - 1 /\ b \in 0 .. M - 1 /\ LastNumber \in Nat
    BY <1>3, RunIs, TheBounds
  <2>2. FrameCount(runs[N]) = ((b - a) % M) + 1 /\ FrameCount(new[N]) = ((c - a) % M) + 1 /\ c = (b + 1) % M
    BY <1>1 DEF FrameCount
  <2>3. FrameCount(runs[N]) \in Nat /\ FrameCount(runs[N]) <= LastNumber
    <3>1. t[N] = t[N - 1] + FrameCount(runs[N]) /\ t[N - 1] \in Nat
      BY <1>2, <1>4
    <3>2. FrameCount(runs[N]) \in Nat
      BY <1>3, RunIs
    <3> QED
      BY <1>3, <2>1, <3>1, <3>2
  <2>4. ((b - a) % M) + 1 < M
    BY <2>1, <2>2, <2>3
  <2> HIDE DEF M, a, b, c
  <2>5. (c - a) % M = ((b - a) % M) + 1
    BY ONLY <2>1, <2>2, <2>4, NextInRun
  <2> QED
    BY <2>2, <2>5
<1>6. ASSUME NEW j \in 1 .. N PROVE u[j] = u[j - 1] + FrameCount(new[j])
  <2>1. CASE j = N
    <3>1. u[N - 1] = t[N - 1] /\ t[N] = t[N - 1] + FrameCount(runs[N]) /\ t[N - 1] \in Nat
      BY <1>2, <1>4
    <3>2. FrameCount(runs[N]) \in Nat
      BY <1>3, RunIs
    <3> QED
      BY <1>4, <1>5, <2>1, <3>1, <3>2
  <2>2. CASE j # N
    <3>1. j \in 1 .. N - 1 /\ j \in 0 .. N - 1 /\ j - 1 \in 0 .. N - 1
      BY <1>1, <2>2
    <3> QED
      BY <1>1, <1>2, <1>4, <3>1
  <2> QED
    BY <2>1, <2>2
<1>7. u[0] = 0
  BY <1>1, <1>2, <1>4
<1>8. Tallied(u, new)
  BY <1>1, <1>4, <1>6, <1>7 DEF Tallied
<1> QED
  BY <1>1, <1>4, <1>8 DEF TallyGrows, N

\* The runs hold every frame that is not skipped, once.
TallyAt(t, runs, rows, n, count) ==
    /\ Tallied(t, runs) /\ t[Len(runs)] \in Nat /\ t[Len(runs)] <= count /\ count <= n
    /\ t[Len(runs)] = count <=> \A i \in 1 .. n : ~Skipped(rows, rows[i])

LEMMA TallyStep ==
    ASSUME NEW rows \in Seq(TraceRows), NEW runs \in Seq(RunLines), NEW n \in 0 .. Len(rows) - 1, n < LastNumber,
           NEW count \in Nat, NEW t, TallyAt(t, runs, rows, n, count)
    PROVE  LET row == rows[n + 1] IN
           \E u : TallyAt(u, AddRun(rows, runs, row), rows, n + 1, count + IF row.number # Absent THEN 1 ELSE 0)
<1> DEFINE row == rows[n + 1]
           new == AddRun(rows, runs, row)
           total == t[Len(runs)]
           None == \A i \in 1 .. n : ~Skipped(rows, rows[i])
           NoneNow == \A i \in 1 .. n + 1 : ~Skipped(rows, rows[i])
<1>1. /\ Tallied(t, runs) /\ total \in Nat /\ total <= count /\ count <= n
      /\ total = count <=> None
  BY DEF TallyAt
<1>2. n \in Nat /\ row \in TraceRows /\ LastNumber \in Nat /\ n + 1 \in 1 .. n + 1 /\ \A i \in 1 .. n + 1 : i \in 1 .. n \/ i = n + 1
  BY TheBounds
<1>3. NoneNow <=> None /\ ~Skipped(rows, row)
  <2>1. \A i \in 1 .. n : i \in 1 .. n + 1
    BY <1>2
  <2> QED
    BY <1>2, <2>1
<1>4. CASE row.number = Absent
  <2>1. new = runs /\ ~Skipped(rows, row)
    BY <1>4 DEF AddRun, Skipped
  <2> HIDE DEF new
  <2>2. count + (IF row.number # Absent THEN 1 ELSE 0) = count /\ count <= n + 1
    BY <1>1, <1>2, <1>4
  <2> HIDE DEF row, None
  <2>3. TallyAt(t, new, rows, n + 1, count)
    BY <1>1, <1>3, <2>1, <2>2 DEF TallyAt
  <2> QED
    BY <2>2, <2>3 DEF new, row
<1>5. CASE Skipped(rows, row)
  <2>1. new = runs /\ row.number # Absent
    BY <1>5 DEF AddRun, Skipped
  <2>2. count + (IF row.number # Absent THEN 1 ELSE 0) = count + 1
    BY <2>1
  <2>3. total <= count + 1 /\ count + 1 <= n + 1 /\ total # count + 1
    BY <1>1, <1>2
  <2>4. ~NoneNow
    BY <1>3, <1>5
  <2> HIDE DEF new, row, None
  <2>5. TallyAt(t, new, rows, n + 1, count + 1)
    BY <1>1, <2>1, <2>3, <2>4 DEF TallyAt
  <2> QED
    BY <2>2, <2>5 DEF new, row
<1>6. CASE row.number # Absent /\ ~Skipped(rows, row)
  <2>1. new = AddFrame(runs, row)
    BY <1>6 DEF AddRun
  <2>2. row.number \in 0 .. LastNumber
    BY <1>2, <1>6, TraceRowIs
  <2>3. new \in Seq(RunLines) /\ (Extended(new, runs, row) \/ Appended(new, runs, row))
    BY <1>2, <1>6, <2>1, FrameAdded
  <2>4. total <= LastNumber
    BY <1>1, <1>2
  <2>5. count + (IF row.number # Absent THEN 1 ELSE 0) = count + 1
    BY <1>6
  <2> HIDE DEF new, row, None
  <2>6. TallyGrows(t, runs, new)
    BY <1>1, <2>2, <2>3, <2>4, TallyAppended, TallyExtended
  <2>7. PICK u : Tallied(u, new) /\ u[Len(new)] = t[Len(runs)] + 1
    BY <2>6 DEF TallyGrows
  <2>8. /\ u[Len(new)] \in Nat /\ u[Len(new)] <= count + 1 /\ count + 1 <= n + 1
        /\ u[Len(new)] = count + 1 <=> total = count
    BY <1>1, <1>2, <2>7
  <2>9. NoneNow <=> None
    BY <1>3, <1>6
  <2>10. TallyAt(u, new, rows, n + 1, count + 1)
    BY <1>1, <2>7, <2>8, <2>9 DEF TallyAt
  <2> QED
    BY <2>5, <2>10 DEF new, row
<1> QED
  BY <1>4, <1>5, <1>6

LEMMA RunsTally ==
    ASSUME NEW rows \in Seq(TraceRows), Len(rows) <= MaxRenderedLines, NEW h, FramesCounted(h, rows)
    PROVE  Runs(rows) \in Seq(RunLines) /\ \E t : TallyAt(t, Runs(rows), rows, Len(rows), h[Len(rows)])
<1>1. PICK f : RunsMade(f, rows)
  BY RunsAreMade
<1> DEFINE N == Len(rows)
           P == {n \in 0 .. N : \E t : TallyAt(t, f[n], rows, n, h[n])}
<1>2. /\ N \in Nat /\ N <= LastNumber /\ LastNumber \in Nat /\ N \in 0 .. N
  BY TheBounds
<1>3. /\ f \in [0 .. N -> Seq(RunLines)] /\ f[0] = <<>> /\ f[N] = Runs(rows)
      /\ \A n \in 1 .. N : f[n] = AddRun(rows, f[n - 1], rows[n])
  BY <1>1 DEF RunsMade
<1>4. /\ h \in [0 .. N -> Nat] /\ h[0] = 0
      /\ \A n \in 1 .. N : h[n] = h[n - 1] + IF rows[n].number # Absent THEN 1 ELSE 0
  BY DEF FramesCounted
<1> HIDE DEF N
<1>5. 0 \in P
  <2> DEFINE t == [j \in 0 .. 0 |-> 0]
             runs == f[0]
  <2>1. runs = <<>> /\ Len(<<>>) = 0
    BY <1>3
  <2>2. t \in [0 .. 0 -> Nat] /\ t[0] = 0
    OBVIOUS
  <2> HIDE DEF t, runs
  <2>3. Tallied(t, runs)
    BY <2>1, <2>2 DEF Tallied
  <2>4. TallyAt(t, runs, rows, 0, 0)
    BY <2>1, <2>2, <2>3 DEF TallyAt
  <2>5. 0 \in 0 .. N
    BY <1>2
  <2> QED
    BY <1>4, <2>4, <2>5 DEF runs
<1>6. ASSUME NEW n \in 0 .. N - 1, n \in P PROVE n + 1 \in P
  <2>1. /\ n + 1 \in 1 .. N /\ n + 1 \in 0 .. N /\ (n + 1) - 1 = n /\ n \in 0 .. N /\ n < LastNumber
        /\ n \in 0 .. Len(rows) - 1
    BY <1>2 DEF N
  <2>2. PICK t : TallyAt(t, f[n], rows, n, h[n])
    BY <1>6
  <2> DEFINE runs == f[n]
             count == h[n]
             row == rows[n + 1]
  <2>3. runs \in Seq(RunLines) /\ count \in Nat
    BY <1>3, <1>4, <2>1
  <2>4. f[n + 1] = AddRun(rows, runs, row)
    BY <1>3, <2>1
  <2>5. h[n + 1] = count + IF row.number # Absent THEN 1 ELSE 0
    BY <1>4, <2>1
  <2> HIDE DEF runs, count
  <2>6. PICK u : TallyAt(u, AddRun(rows, runs, row), rows, n + 1, count + IF row.number # Absent THEN 1 ELSE 0)
    BY <2>1, <2>2, <2>3, TallyStep DEF runs, count
  <2>7. TallyAt(u, f[n + 1], rows, n + 1, h[n + 1])
    BY <2>4, <2>5, <2>6
  <2> QED
    BY <2>1, <2>7
<1>7. N \in P
  <2> HIDE DEF P
  <2>1. \A n \in 0 .. N : n \in P
    BY <1>2, <1>5, <1>6, BoundedInduction
  <2> QED
    BY <1>2, <2>1
<1> QED
  BY <1>2, <1>3, <1>7 DEF N

\* What is shown after so many runs: all of their frames, or fewer once the preview is full.
ShownAt(shown, j, frames) ==
    /\ \/ ~shown.full /\ shown.lines = j /\ shown.frames = frames
       \/ shown.full /\ shown.lines < j /\ shown.frames < frames
    /\ shown.lines > 0 => shown.characters + MoreFrames <= layout.characters

LEMMA ShowStep ==
    ASSUME NEW shown \in Previews, NEW run \in RunLines, NEW j \in Nat, NEW frames \in Nat,
           ShownAt(shown, j, frames)
    PROVE  ShownAt(Show(shown, run), j + 1, frames + FrameCount(run))
<1> DEFINE new == Show(shown, run)
           count == FrameCount(run)
           rendered == Rendered(run)
<1>1. count \in Nat \ {0} /\ rendered \in Nat
  BY RunIs
<1>2. shown.lines \in Nat /\ shown.frames \in Nat /\ shown.characters \in Int /\ shown.full \in BOOLEAN
  BY DEF Previews
<1>3. CASE shown.full \/ shown.lines >= layout.lines \/ ~Fits(shown, run)
  <2>1. new = [shown EXCEPT !.full = TRUE]
    BY <1>3 DEF Show
  <2>2. new.full /\ new.lines = shown.lines /\ new.frames = shown.frames /\ new.characters = shown.characters
    BY <2>1 DEF Previews
  <2> HIDE DEF new, count
  <2>3. shown.lines < j + 1 /\ shown.frames < frames + count
    BY <1>1, <1>2 DEF ShownAt
  <2>4. ShownAt(new, j + 1, frames + count)
    BY <2>2, <2>3 DEF ShownAt
  <2> QED
    BY <2>4 DEF new, count
<1>4. CASE ~(shown.full \/ shown.lines >= layout.lines \/ ~Fits(shown, run))
  <2>1. new = [shown EXCEPT !.characters = shown.characters + rendered, !.lines = shown.lines + 1,
                            !.frames = shown.frames + count]
    BY <1>4 DEF Show
  <2> HIDE DEF new, count, rendered
  <2>2. new.full = shown.full /\ new.lines = shown.lines + 1 /\ new.frames = shown.frames + count /\ new.characters = shown.characters + rendered
    BY <2>1 DEF Previews
  <2>3. shown.lines = j /\ shown.frames = frames /\ ~shown.full
    BY <1>4 DEF ShownAt
  <2>4. shown.characters + rendered + MoreFrames <= layout.characters
    BY <1>4 DEF Fits, rendered
  <2>5. ShownAt(new, j + 1, frames + count)
    BY <2>2, <2>3, <2>4 DEF ShownAt
  <2> QED
    BY <2>5 DEF new, count
<1> QED
  BY <1>3, <1>4

LEMMA ShownIs ==
    ASSUME NEW runs \in Seq(RunLines), NEW t, Tallied(t, runs)
    PROVE  Preview(runs) \in Previews /\ ShownAt(Preview(runs), Len(runs), t[Len(runs)])
<1>1. PICK f : RunsShown(f, runs)
  BY RunsAreShown
<1> DEFINE N == Len(runs)
           P == {n \in 0 .. N : ShownAt(f[n], n, t[n])}
<1>2. N \in Nat /\ N \in 0 .. N
  OBVIOUS
<1>3. /\ f \in [0 .. N -> Previews] /\ f[0] = NothingShown /\ f[N] = Preview(runs)
      /\ \A n \in 1 .. N : f[n] = Show(f[n - 1], runs[n])
  BY <1>1 DEF RunsShown
<1>4. t \in [0 .. N -> Nat] /\ t[0] = 0 /\ \A n \in 1 .. N : t[n] = t[n - 1] + FrameCount(runs[n])
  BY DEF Tallied
<1> HIDE DEF N
<1>5. 0 \in P
  <2> DEFINE shown == NothingShown
  <2>1. ~shown.full /\ shown.lines = 0 /\ shown.frames = 0
    BY DEF NothingShown
  <2> HIDE DEF shown
  <2>2. ShownAt(shown, 0, 0)
    BY <2>1 DEF ShownAt
  <2>3. 0 \in 0 .. N
    BY <1>2
  <2> QED
    BY <1>3, <1>4, <2>2, <2>3 DEF shown
<1>6. ASSUME NEW n \in 0 .. N - 1, n \in P PROVE n + 1 \in P
  <2>1. n + 1 \in 1 .. N /\ n + 1 \in 0 .. N /\ (n + 1) - 1 = n /\ n \in 0 .. N /\ n \in Nat
    BY <1>2
  <2> DEFINE shown == f[n]
             run == runs[n + 1]
             frames == t[n]
  <2>2. shown \in Previews /\ frames \in Nat /\ ShownAt(shown, n, frames)
    BY <1>3, <1>4, <1>6, <2>1
  <2>3. run \in RunLines
    BY <2>1 DEF N
  <2>4. f[n + 1] = Show(shown, run) /\ t[n + 1] = frames + FrameCount(run)
    BY <1>3, <1>4, <2>1
  <2> HIDE DEF shown, run, frames
  <2>5. ShownAt(Show(shown, run), n + 1, frames + FrameCount(run))
    BY <2>1, <2>2, <2>3, ShowStep
  <2> QED
    BY <2>1, <2>4, <2>5
<1>7. N \in P
  <2> HIDE DEF P
  <2>1. \A n \in 0 .. N : n \in P
    BY <1>2, <1>5, <1>6, BoundedInduction
  <2> QED
    BY <1>2, <2>1
<1> QED
  BY <1>2, <1>3, <1>7 DEF N

\* The description of a report with a stack is within its room, and says when frames are left out.
DescriptionFits(d) ==
    /\ d.characters \in Int /\ d.characters <= layout.characters + 29
    /\ d.marked <=> ~d.whole

LEMMA RawDescriptionFits ==
    ASSUME layout.characters \in Int, layout.lines \in Nat, NEW text \in Seq(TraceLines)
    PROVE  DescriptionFits(RawStackDescription(text))
<1> DEFINE selected == First(layout.lines, text)
           characters == FoldLeft(AddLine, Len(selected) - 1, selected)
           cut == characters > layout.characters
           more == IF Len(text) > Len(selected) /\ ~cut THEN 1 ELSE 0
           excerpt == TruncateText(characters, layout.characters)
           d == RawStackDescription(text)
<1>1. selected \in Seq(TraceLines) /\ Len(selected) <= Len(text) /\ Len(selected) \in Nat /\ Len(text) \in Nat
  <2> DEFINE n == IF Len(text) < layout.lines THEN Len(text) ELSE layout.lines
  <2>1. n \in 0 .. Len(text) /\ Len(text) \in Nat
    OBVIOUS
  <2>2. selected = SubSeq(text, 1, n)
    BY DEF First
  <2> HIDE DEF n, selected
  <2>3. SubSeq(text, 1, n) \in Seq(TraceLines) /\ Len(SubSeq(text, 1, n)) = n
    BY <2>1, PrefixIs
  <2> QED
    BY <2>1, <2>2, <2>3
<1>2. d = [characters |-> 24 + excerpt + more + 4,
           marked |-> cut \/ Len(text) > Len(selected), whole |-> ~cut /\ Len(selected) = Len(text)]
  BY DEF RawStackDescription
<1> HIDE DEF selected
<1>3. characters \in Int
  <2> DEFINE start == Len(selected) - 1
  <2>1. start \in Int
    BY <1>1
  <2> HIDE DEF start
  <2>2. PICK f : LinesAdded(f, start, selected)
    BY <1>1, <2>1, LinesAreAdded
  <2>3. f \in [0 .. Len(selected) -> Int] /\ f[Len(selected)] = FoldLeft(AddLine, start, selected) /\ Len(selected) \in 0 .. Len(selected)
    BY <1>1, <2>2 DEF LinesAdded
  <2> QED
    BY <2>3 DEF start
<1> HIDE DEF characters
<1>4. excerpt \in Int /\ excerpt <= layout.characters
  BY <1>3, TruncatedIs
<1>5. more \in {0, 1}
  OBVIOUS
<1> HIDE DEF excerpt, more, d
<1>6. d.characters = 24 + excerpt + more + 4
  BY <1>2
<1>7. d.marked = (cut \/ Len(text) > Len(selected)) /\ d.whole = (~cut /\ Len(selected) = Len(text))
  BY <1>2
<1>8. d.marked <=> ~d.whole
  <2> HIDE DEF cut
  <2>1. Len(text) > Len(selected) <=> Len(selected) # Len(text)
    BY <1>1
  <2> QED
    BY <1>7, <2>1
<1>9. d.characters \in Int /\ d.characters <= layout.characters + 29
  BY <1>4, <1>5, <1>6
<1> QED
  BY <1>8, <1>9 DEF DescriptionFits, d

LEMMA StackDescriptionFits ==
    ASSUME layout.characters \in Int, layout.lines \in Nat, NEW text \in Seq(TraceLines)
    PROVE  DescriptionFits(StackDescription(text))
<1> DEFINE parsed == ParseStackTrace(text)
           rows == parsed.rows
           runs == Runs(rows)
           shown == Preview(runs)
           more == parsed.frameCount > shown.frames \/ parsed.truncated
           whole == /\ \A i \in DOMAIN rows : ~Skipped(rows, rows[i])
                    /\ shown.lines = Len(runs) /\ ~parsed.truncated
           d == StackDescription(text)
<1>1. /\ rows \in Seq(TraceRows) /\ Len(rows) <= MaxRenderedLines
      /\ parsed.frameCount \in Nat /\ parsed.truncated \in BOOLEAN
  BY ParsedRowsAre
<1>2. PICK h : FramesCounted(h, rows) /\ h[Len(rows)] = parsed.frameCount
  BY ParsedRowsAre
<1>3. d = IF shown.lines = 0 THEN RawStackDescription(text)
          ELSE [characters |-> shown.characters + (IF more THEN MoreFrames ELSE -1), marked |-> more, whole |-> whole]
  BY DEF StackDescription
<1> HIDE DEF parsed, rows
<1>4. runs \in Seq(RunLines) /\ \E t : TallyAt(t, runs, rows, Len(rows), h[Len(rows)])
  BY <1>1, <1>2, RunsTally
<1>5. PICK t : TallyAt(t, runs, rows, Len(rows), parsed.frameCount)
  BY <1>2, <1>4
<1> HIDE DEF runs
<1> DEFINE total == t[Len(runs)]
<1>6. /\ Tallied(t, runs) /\ total \in Nat /\ total <= parsed.frameCount
      /\ total = parsed.frameCount <=> \A i \in 1 .. Len(rows) : ~Skipped(rows, rows[i])
  BY <1>5 DEF TallyAt
<1>7. shown \in Previews /\ ShownAt(shown, Len(runs), total)
  BY <1>4, <1>6, ShownIs
<1> HIDE DEF shown, total
<1>8. shown.lines \in Nat /\ shown.frames \in Nat /\ shown.characters \in Int
  BY <1>7 DEF Previews
<1>9. shown.frames <= total /\ (shown.frames = total <=> shown.lines = Len(runs))
  <2>1. Len(runs) \in Nat
    BY <1>4
  <2> QED
    BY <1>6, <1>7, <1>8, <2>1 DEF ShownAt
<1>10. more <=> ~whole
  <2>1. DOMAIN rows = 1 .. Len(rows)
    BY <1>1
  <2>2. whole <=> total = parsed.frameCount /\ shown.lines = Len(runs) /\ ~parsed.truncated
    BY <1>6, <2>1
  <2>3. parsed.frameCount > shown.frames <=> ~(total = parsed.frameCount /\ shown.frames = total)
    BY <1>1, <1>6, <1>8, <1>9
  <2> HIDE DEF whole
  <2> QED
    BY <1>9, <2>2, <2>3
<1> HIDE DEF more, whole, d
<1>11. CASE shown.lines = 0
  <2>1. d = RawStackDescription(text)
    BY <1>3, <1>11
  <2>2. DescriptionFits(RawStackDescription(text))
    BY RawDescriptionFits
  <2> QED
    BY <2>1, <2>2 DEF d
<1>12. CASE shown.lines # 0
  <2>1. d = [characters |-> shown.characters + (IF more THEN MoreFrames ELSE -1), marked |-> more, whole |-> whole]
    BY <1>3, <1>12
  <2>2. d.characters = shown.characters + (IF more THEN MoreFrames ELSE -1)
    BY <2>1
  <2>3. d.marked = more /\ d.whole = whole
    BY <2>1
  <2>4. shown.characters + MoreFrames <= layout.characters /\ MoreFrames = 33
    BY <1>7, <1>8, <1>12 DEF ShownAt, MoreFrames
  <2>5. d.characters \in Int /\ d.characters <= layout.characters + 29
    BY <1>8, <2>2, <2>4
  <2>6. d.marked <=> ~d.whole
    BY <1>10, <2>3
  <2> QED
    BY <2>5, <2>6 DEF DescriptionFits, d
<1> QED
  BY <1>11, <1>12

-----------------------------------------------------------------------------
(* The message fits *)

\* Fields that take up to so many characters, each of them within its limit.
FieldsFit(fields, characters) ==
    /\ fields \in Seq(MessageFields) /\ \A i \in 1 .. Len(fields) : Accepted(fields[i].value)
    /\ FoldLeft(AddField, 0, fields) \in Int /\ FoldLeft(AddField, 0, fields) <= characters

IsField(fields, characters) ==
    \/ fields = <<>>
    \/ \E field \in MessageFields :
          fields = <<field>> /\ Accepted(field.value) /\ field.name + field.value <= characters

LEMMA NoFieldsFit == FieldsFit(<<>>, 0)
<1> DEFINE none == <<>>
<1>1. none \in Seq(MessageFields) /\ Len(none) = 0
  OBVIOUS
<1> HIDE DEF none
<1>2. PICK f : FieldsAdded(f, none)
  BY <1>1, FieldsAreAdded
<1>3. FoldLeft(AddField, 0, none) = 0
  BY <1>1, <1>2 DEF FieldsAdded
<1>4. FieldsFit(none, 0)
  BY <1>1, <1>3 DEF FieldsFit
<1> QED
  BY <1>4 DEF none

LEMMA FieldAppended ==
    ASSUME NEW fields \in Seq(MessageFields), NEW field \in MessageFields
    PROVE  /\ FoldLeft(AddField, 0, fields) \in Int
           /\ FoldLeft(AddField, 0, Append(fields, field)) = AddField(FoldLeft(AddField, 0, fields), field)
<1> DEFINE all == Append(fields, field)
           N == Len(fields)
<1>1. N \in Nat /\ all \in Seq(MessageFields) /\ Len(all) = N + 1 /\ all[N + 1] = field /\ \A n \in 1 .. N : all[n] = fields[n]
  OBVIOUS
<1> HIDE DEF all
<1>2. PICK f : FieldsAdded(f, fields)
  BY FieldsAreAdded
<1>3. PICK g : FieldsAdded(g, all)
  BY <1>1, FieldsAreAdded
<1>4. /\ f \in [0 .. N -> Int] /\ f[0] = 0 /\ f[N] = FoldLeft(AddField, 0, fields)
      /\ \A n \in 1 .. N : f[n] = AddField(f[n - 1], fields[n])
  BY <1>2 DEF FieldsAdded
<1>5. /\ g[0] = 0 /\ g[N + 1] = FoldLeft(AddField, 0, all)
      /\ \A n \in 1 .. N + 1 : g[n] = AddField(g[n - 1], all[n])
  BY <1>1, <1>3 DEF FieldsAdded
<1> HIDE DEF N
<1> DEFINE Q == {n \in 0 .. N : f[n] = g[n]}
<1>6. 0 \in Q
  BY <1>1, <1>4, <1>5
<1>7. ASSUME NEW n \in 0 .. N - 1, n \in Q PROVE n + 1 \in Q
  <2>1. n + 1 \in 1 .. N /\ n + 1 \in 1 .. N + 1 /\ n + 1 \in 0 .. N /\ (n + 1) - 1 = n
    BY <1>1
  <2>2. f[n + 1] = AddField(f[n], fields[n + 1]) /\ g[n + 1] = AddField(g[n], all[n + 1]) /\ all[n + 1] = fields[n + 1]
    BY <1>1, <1>4, <1>5, <2>1
  <2>3. f[n] = g[n]
    BY <1>7
  <2> QED
    BY <2>1, <2>2, <2>3
<1>8. N \in Q
  <2> HIDE DEF Q
  <2>1. \A n \in 0 .. N : n \in Q
    BY <1>1, <1>6, <1>7, BoundedInduction
  <2>2. N \in 0 .. N
    BY <1>1
  <2> QED
    BY <2>1, <2>2
<1>9. N + 1 \in 1 .. N + 1 /\ (N + 1) - 1 = N /\ N \in 0 .. N
  BY <1>1
<1>10. g[N + 1] = AddField(g[N], field)
  BY <1>1, <1>5, <1>9
<1>11. f[N] \in Int
  BY <1>4, <1>9
<1> QED
  BY <1>4, <1>5, <1>8, <1>10, <1>11 DEF all

LEMMA FieldFits ==
    ASSUME NEW fields, NEW characters \in Int, FieldsFit(fields, characters),
           NEW part, NEW room \in Nat, IsField(part, room)
    PROVE  FieldsFit(fields \o part, characters + room)
<1>1. fields \in Seq(MessageFields) /\ FoldLeft(AddField, 0, fields) \in Int /\ FoldLeft(AddField, 0, fields) <= characters
  BY DEF FieldsFit
<1>2. CASE part = <<>>
  <2>1. fields \o part = fields
    BY <1>1, <1>2
  <2>2. FoldLeft(AddField, 0, fields) <= characters + room
    <3> DEFINE sum == FoldLeft(AddField, 0, fields)
    <3> HIDE DEF sum
    <3>1. sum \in Int /\ sum <= characters
      BY <1>1 DEF sum
    <3>2. sum <= characters + room
      BY <3>1
    <3> QED
      BY <3>2 DEF sum
  <2> QED
    BY <2>1, <2>2 DEF FieldsFit
<1>3. CASE part # <<>>
  <2>1. PICK field \in MessageFields : part = <<field>> /\ Accepted(field.value) /\ field.name + field.value <= room
    BY <1>3 DEF IsField
  <2> DEFINE all == Append(fields, field)
             sum == FoldLeft(AddField, 0, fields)
             total == FoldLeft(AddField, 0, all)
  <2>2. fields \o part = all
    BY <1>1, <2>1
  <2>3. sum \in Int /\ total = AddField(sum, field)
    BY <1>1, FieldAppended
  <2>4. sum <= characters
    BY <1>1
  <2>5. all \in Seq(MessageFields) /\ Len(all) = Len(fields) + 1 /\ all[Len(fields) + 1] = field /\ Len(fields) \in Nat
        /\ \A i \in 1 .. Len(fields) : all[i] = fields[i]
    BY <1>1
  <2> HIDE DEF all, sum, total
  <2>6. field.name \in Nat /\ field.value \in Int
    BY DEF MessageFields
  <2>7. total = sum + field.name + field.value
    BY <2>3 DEF AddField
  <2>8. total \in Int /\ total <= characters + room
    BY <2>1, <2>3, <2>4, <2>6, <2>7
  <2>9. \A i \in 1 .. Len(all) : Accepted(all[i].value)
    <3>1. \A i \in 1 .. Len(fields) : Accepted(fields[i].value)
      BY DEF FieldsFit
    <3>2. \A i \in 1 .. Len(all) : i \in 1 .. Len(fields) \/ i = Len(fields) + 1
      BY <2>5
    <3> QED
      BY <2>1, <2>5, <3>1, <3>2
  <2>10. FieldsFit(all, characters + room)
    BY <2>5, <2>8, <2>9 DEF FieldsFit, total
  <2> QED
    BY <2>2, <2>10
<1> QED
  BY <1>2, <1>3

\* What a report may consist of, and how a message may be laid out.
AboutIsValid ==
    /\ about.version \in 1 .. 256 /\ about.commit \in {Absent} \cup 7 .. 64
    /\ about.url \in {Absent} \cup Nat /\ about.build \in {Absent} \cup Nat
    /\ about.platform \in {Absent} \cup Nat /\ about.architecture \in {Absent} \cup Nat
    /\ about.process \in {Absent} \cup Nat /\ about.signal \in {Absent} \cup Nat
    /\ about.number \in {Absent} \cup Nat /\ about.description \in {Absent} \cup Nat
    /\ about.failure # Absent =>
          /\ about.failure.directory \in Nat /\ about.failure.file \in Nat
          /\ about.failure.line \in Nat /\ about.failure.expression \in Nat

LayoutIsValid == layout.lines \in 1 .. 100 /\ layout.characters \in 256 .. 3500

LEMMA ReportedIsValid == (about \in Reported => AboutIsValid) /\ (layout \in Layouts => LayoutIsValid)
<1>1. ASSUME about \in Reported PROVE AboutIsValid
  <2>1. about.version \in 1 .. 256 /\ about.commit \in {Absent} \cup 7 .. 64
    BY <1>1, AnnouncementAssumption
  <2>2. \A characters \in {about.url, about.build, about.platform, about.architecture, about.process, about.signal,
                           about.number, about.description} : characters \in {Absent} \cup Nat
    BY <1>1, AnnouncementAssumption
  <2>3. about.failure # Absent =>
           \A characters \in {about.failure.directory, about.failure.file, about.failure.line,
                              about.failure.expression} : characters \in Nat
    BY <1>1, AnnouncementAssumption
  <2> QED
    BY <2>1, <2>2, <2>3 DEF AboutIsValid
<1>2. ASSUME layout \in Layouts PROVE LayoutIsValid
  <2>1. \A l \in Layouts : l.lines \in 1 .. 100 /\ l.characters \in 256 .. 3500
    BY ONLY AnnouncementAssumption, Zenon
  <2> QED
    BY <1>2, <2>1 DEF LayoutIsValid
<1> QED
  BY <1>1, <1>2

LEMMA FieldIsSequence ==
    ASSUME NEW part, NEW room, IsField(part, room) PROVE part \in Seq(MessageFields)
<1>1. CASE part = <<>>
  BY <1>1
<1>2. CASE part # <<>>
  <2>1. PICK field \in MessageFields : part = <<field>>
    BY <1>2 DEF IsField
  <2>2. <<field>> \in Seq(MessageFields)
    OBVIOUS
  <2> QED
    BY <2>1, <2>2
<1> QED
  BY <1>1, <1>2

LEMMA TruncatedValue ==
    ASSUME NEW characters \in {Absent} \cup Nat, characters # Absent, NEW maximum \in Nat
    PROVE  /\ TruncateText(characters, maximum) \in Int /\ TruncateText(characters, maximum) <= maximum
           /\ characters # 0 /\ maximum # 0 => TruncateText(characters, maximum) > 0
  BY DEF TruncateText, Lesser

\* What is empty is left out, where it is.
LEMMA NotEmpty ==
    ASSUME NEW characters \in {Absent} \cup Nat
    PROVE  Filled(characters) \in {Absent} \cup Nat /\ Filled(characters) # 0
<1>1. Absent # 0
  BY StackTracesAssumption
<1> QED
  BY <1>1 DEF Filled

LEMMA FieldIs ==
    ASSUME NEW name \in Nat, NEW maximum \in 1 .. 1024, NEW characters \in {Absent} \cup Nat,
           characters # 0 \/ SentEmpty
    PROVE  IsField(Field(name, characters, maximum), name + maximum)
<1>1. CASE characters = Absent
  BY <1>1 DEF Field, IsField
<1>2. CASE characters # Absent
  <2> DEFINE field == [name |-> name, value |-> TruncateText(characters, maximum)]
  <2>1. Field(name, characters, maximum) = <<field>>
    BY <1>2 DEF Field
  <2>2. /\ TruncateText(characters, maximum) \in Int /\ TruncateText(characters, maximum) <= maximum
        /\ characters # 0 => TruncateText(characters, maximum) > 0
    BY <1>2, TruncatedValue
  <2>3. field \in MessageFields /\ Accepted(field.value) /\ field.name + field.value <= name + maximum
    BY <2>2 DEF MessageFields, Accepted
  <2> HIDE DEF field
  <2> QED
    BY <2>1, <2>3 DEF IsField
<1> QED
  BY <1>1, <1>2

LEMMA CommitFieldIs ==
    ASSUME AboutIsValid PROVE IsField(CommitField, 108 + RepositoryCharacters)
<1>1. CASE about.commit = Absent
  BY <1>1 DEF CommitField, IsField
<1>2. CASE about.commit # Absent
  <2> DEFINE length == 1 + 7 + 2 + 19 + RepositoryCharacters + 8 + about.commit + 1
             field == [name |-> 6, value |-> length]
  <2>1. CommitField = <<field>>
    BY <1>2 DEF CommitField
  <2>2. about.commit \in 7 .. 64 /\ RepositoryCharacters \in 1 .. 140
    BY <1>2, TheBounds DEF AboutIsValid
  <2>3. length \in Int /\ length <= 102 + RepositoryCharacters /\ length <= 1024 /\ length > 0
    BY <2>2
  <2> HIDE DEF length
  <2>4. field \in MessageFields /\ field.name = 6 /\ field.value = length
    BY <2>3 DEF MessageFields
  <2>5. Accepted(field.value) /\ field.name + field.value <= 108 + RepositoryCharacters
    BY <2>2, <2>3, <2>4 DEF Accepted
  <2> HIDE DEF field
  <2> QED
    BY <2>1, <2>4, <2>5 DEF IsField
<1> QED
  BY <1>1, <1>2

LEMMA MoreRoom ==
    ASSUME NEW fields, NEW room \in Int, NEW more \in Int, room <= more, IsField(fields, room)
    PROVE  IsField(fields, more)
  BY DEF IsField, MessageFields

LEMMA SignalFieldIs ==
    ASSUME AboutIsValid PROVE IsField(SignalField, 241)
<1> DEFINE signal == Filled(about.signal)
           number == Filled(about.number)
<1>1. /\ signal \in {Absent} \cup Nat /\ signal # 0 /\ number \in {Absent} \cup Nat /\ number # 0
      /\ signal # Absent => signal = about.signal
      /\ number # Absent => number = about.number
  <2>1. about.signal \in {Absent} \cup Nat /\ about.number \in {Absent} \cup Nat
    BY DEF AboutIsValid
  <2> QED
    BY <2>1, NotEmpty DEF Filled
<1>2. SignalField = IF signal = Absent THEN Field(6, number, 32)
                    ELSE IF number = Absent THEN Field(6, about.signal, 200)
                    ELSE <<[name |-> 6,
                            value |-> TruncateText(about.signal, 200) + 3 + TruncateText(about.number, 32)]>>
  BY DEF SignalField
<1> HIDE DEF signal, number
<1>3. IsField(Field(6, number, 32), 38) /\ IsField(Field(6, signal, 200), 206)
  <2>1. 6 \in Nat /\ 32 \in 1 .. 1024 /\ 200 \in 1 .. 1024 /\ 6 + 32 = 38 /\ 6 + 200 = 206
    OBVIOUS
  <2>2. IsField(Field(6, number, 32), 6 + 32)
    BY ONLY <1>1, <2>1, FieldIs
  <2>3. IsField(Field(6, signal, 200), 6 + 200)
    BY ONLY <1>1, <2>1, FieldIs
  <2> QED
    BY <2>1, <2>2, <2>3
<1>4. CASE signal = Absent
  BY <1>2, <1>3, <1>4, MoreRoom
<1>5. CASE signal # Absent /\ number = Absent
  BY <1>1, <1>2, <1>3, <1>5, MoreRoom
<1>6. CASE signal # Absent /\ number # Absent
  <2> DEFINE length == TruncateText(signal, 200) + 3 + TruncateText(number, 32)
             field == [name |-> 6, value |-> length]
  <2>1. SignalField = <<field>>
    BY <1>1, <1>2, <1>6
  <2>2. /\ TruncateText(signal, 200) \in Int /\ TruncateText(signal, 200) <= 200 /\ TruncateText(signal, 200) > 0
        /\ TruncateText(number, 32) \in Int /\ TruncateText(number, 32) <= 32 /\ TruncateText(number, 32) > 0
    <3>1. 200 \in Nat /\ 32 \in Nat /\ 200 # 0 /\ 32 # 0
      OBVIOUS
    <3> QED
      BY ONLY <1>1, <1>6, <3>1, TruncatedValue
  <2>3. length \in Int /\ length <= 235 /\ length > 0
    BY <2>2
  <2> HIDE DEF length
  <2>4. field \in MessageFields /\ Accepted(field.value) /\ field.name + field.value <= 241
    BY <2>3 DEF MessageFields, Accepted
  <2> HIDE DEF field
  <2> QED
    BY <2>1, <2>4 DEF IsField
<1> QED
  BY <1>4, <1>5, <1>6

LEMMA PageUrlFieldIs ==
    ASSUME AboutIsValid PROVE IsField(PageUrlField, 1010)
<1>1. CASE Filled(about.url) = Absent
  BY <1>1 DEF PageUrlField, IsField
<1>2. CASE Filled(about.url) # Absent
  <2> DEFINE length == 2 + TruncateText(about.url, 1000)
             field == [name |-> 8, value |-> length]
  <2>1. PageUrlField = <<field>>
    BY <1>2 DEF PageUrlField
  <2>2. length \in Int /\ length <= 1002 /\ length > 0
    <3>1. about.url \in {Absent} \cup Nat /\ about.url # Absent /\ about.url # 0 /\ 1000 \in Nat /\ 1000 # 0
      BY <1>2 DEF AboutIsValid, Filled
    <3>2. TruncateText(about.url, 1000) \in Int /\ TruncateText(about.url, 1000) <= 1000 /\ TruncateText(about.url, 1000) > 0
      BY ONLY <3>1, TruncatedValue
    <3> QED
      BY <3>2
  <2> HIDE DEF length
  <2>3. field \in MessageFields /\ Accepted(field.value) /\ field.name + field.value <= 1010
    BY <2>2 DEF MessageFields, Accepted
  <2> HIDE DEF field
  <2> QED
    BY <2>1, <2>3 DEF IsField
<1> QED
  BY <1>1, <1>2

LEMMA AllFieldsFit ==
    ASSUME AboutIsValid PROVE FieldsFit(Fields, 2671 + RepositoryCharacters)
<1> DEFINE a == Field(7, about.version, 256)
           b == Field(5, Filled(about.build), 512)
           c == CommitField
           d == Field(8, about.platform, 256)
           e == Field(12, about.architecture, 256)
           f == SignalField
           g == PageUrlField
           R == RepositoryCharacters
<1>1. /\ about.version \in {Absent} \cup Nat /\ about.version # 0
      /\ Filled(about.build) \in {Absent} \cup Nat /\ Filled(about.build) # 0
      /\ about.platform \in {Absent} \cup Nat /\ (about.platform # 0 \/ SentEmpty)
      /\ about.architecture \in {Absent} \cup Nat /\ (about.architecture # 0 \/ SentEmpty)
  BY NotEmpty DEF AboutIsValid, SentEmpty
<1>2. IsField(a, 7 + 256) /\ IsField(b, 5 + 512)
  <2>1. 7 \in Nat /\ 256 \in 1 .. 1024 /\ 5 \in Nat /\ 512 \in 1 .. 1024
    OBVIOUS
  <2>4. ASSUME NEW l \in {Absent} \cup Nat, l # 0 PROVE IsField(Field(7, l, 256), 7 + 256)
    BY ONLY <2>1, <2>4, FieldIs
  <2>2. IsField(Field(7, about.version, 256), 7 + 256)
    BY ONLY <1>1, <2>4
  <2>3. IsField(Field(5, Filled(about.build), 512), 5 + 512)
    BY ONLY <1>1, <2>1, FieldIs
  <2> QED
    BY <2>2, <2>3
<1>3. IsField(d, 8 + 256) /\ IsField(e, 12 + 256)
  <2>1. 8 \in Nat /\ 256 \in 1 .. 1024 /\ 12 \in Nat
    OBVIOUS
  <2>4. ASSUME NEW l \in {Absent} \cup Nat, l # 0 \/ SentEmpty PROVE IsField(Field(8, l, 256), 8 + 256)
    BY ONLY <2>1, <2>4, FieldIs
  <2>2. IsField(Field(8, about.platform, 256), 8 + 256)
    BY ONLY <1>1, <2>4
  <2>3. IsField(Field(12, about.architecture, 256), 12 + 256)
    BY ONLY <1>1, <2>1, FieldIs
  <2> QED
    BY <2>2, <2>3
<1>4. IsField(c, 108 + R) /\ IsField(f, 241) /\ IsField(g, 1010) /\ R \in Nat
  BY CommitFieldIs, SignalFieldIs, PageUrlFieldIs, TheBounds
<1>5. Fields = a \o b \o c \o d \o e \o f \o g
  BY DEF Fields
<1> HIDE DEF a, b, c, d, e, f, g, R
<1>6. <<>> \o a = a
  <2>1. a \in Seq(MessageFields)
    BY <1>2, FieldIsSequence
  <2> QED
    BY <2>1
<1>7. FieldsFit(a, 263)
  <2> DEFINE none == <<>>
  <2>1. FieldsFit(none, 0) /\ 0 \in Int /\ 7 + 256 \in Nat
    BY NoFieldsFit
  <2>2. none \o a = a
    BY <1>6
  <2> HIDE DEF none
  <2>3. FieldsFit(none \o a, 0 + (7 + 256))
    BY ONLY <1>2, <2>1, FieldFits
  <2>4. 0 + (7 + 256) = 263
    OBVIOUS
  <2> QED
    BY <2>2, <2>3, <2>4
<1>8. FieldsFit(a \o b, 263 + (5 + 512))
  BY <1>2, <1>7, FieldFits
<1>9. FieldsFit(a \o b \o c, 780 + (108 + R))
  <2>1. FieldsFit(a \o b, 780) /\ 108 + R \in Nat
    BY <1>4, <1>8
  <2> QED
    BY <1>4, <2>1, FieldFits
<1>10. FieldsFit(a \o b \o c \o d, 888 + R + (8 + 256))
  <2>1. FieldsFit(a \o b \o c, 888 + R) /\ 888 + R \in Int
    <3>1. 780 + (108 + R) = 888 + R /\ 888 + R \in Int
      BY <1>4
    <3> QED
      BY <1>9, <3>1
  <2> QED
    BY <1>3, <2>1, FieldFits
<1>11. FieldsFit(a \o b \o c \o d \o e, 1152 + R + (12 + 256))
  <2>1. FieldsFit(a \o b \o c \o d, 1152 + R) /\ 1152 + R \in Int
    <3>1. 888 + R + (8 + 256) = 1152 + R /\ 1152 + R \in Int
      BY <1>4
    <3> QED
      BY <1>10, <3>1
  <2> QED
    BY <1>3, <2>1, FieldFits
<1>12. FieldsFit(a \o b \o c \o d \o e \o f, 1420 + R + 241)
  <2>1. FieldsFit(a \o b \o c \o d \o e, 1420 + R) /\ 1420 + R \in Int
    <3>1. 1152 + R + (12 + 256) = 1420 + R /\ 1420 + R \in Int
      BY <1>4
    <3> QED
      BY <1>11, <3>1
  <2> QED
    BY <1>4, <2>1, FieldFits
<1>13. FieldsFit(a \o b \o c \o d \o e \o f \o g, 1661 + R + 1010)
  <2>1. FieldsFit(a \o b \o c \o d \o e \o f, 1661 + R) /\ 1661 + R \in Int
    <3>1. 1420 + R + 241 = 1661 + R /\ 1661 + R \in Int
      BY <1>4
    <3> QED
      BY <1>12, <3>1
  <2> QED
    BY <1>4, <2>1, FieldFits
<1>14. 1661 + R + 1010 = 2671 + R
  BY <1>4
<1> QED
  BY <1>5, <1>13, <1>14 DEF R

LEMMA LesserIs ==
    ASSUME NEW a \in Int, NEW b \in Int PROVE Lesser(a, b) \in Int /\ Greater(a, b) \in Int
  BY DEF Lesser, Greater

LEMMA TitleIs == ASSUME AboutIsValid PROVE TruncateText(TitleCharacters, 256) \in Int /\ TruncateText(TitleCharacters, 256) <= 256
<1> DEFINE kind == KindCharacters(about.kind)
           context == ContextCharacters(about.process) + ContextCharacters(about.platform)
                          + ContextCharacters(about.signal)
<1>2. kind \in Int /\ MaxTitleCharacters \in Int /\ SymbolCharacters \in Int
  BY TheBounds DEF KindCharacters, MaxTitleCharacters
<1>3. \A characters \in {Absent} \cup Nat : ContextCharacters(characters) \in Int
  BY DEF ContextCharacters, Lesser
<1>4. context \in Int
  <2>1. /\ about.process \in {Absent} \cup Nat /\ about.platform \in {Absent} \cup Nat
        /\ about.signal \in {Absent} \cup Nat
    BY DEF AboutIsValid
  <2>2. /\ ContextCharacters(about.process) \in Int /\ ContextCharacters(about.platform) \in Int
        /\ ContextCharacters(about.signal) \in Int
    BY <1>3, <2>1
  <2> QED
    BY <2>2
<1> HIDE DEF kind, context
<1> DEFINE failed == LET title == kind + 2 + LocationCharacters(about.failure)
                         expression == ExpressionCharacters(about.failure,
                                           Greater(0, MaxTitleCharacters - (title + 4)))
                     IN  title + IF expression = 0 THEN 0 ELSE 3 + expression
           page == kind + 2 + Lesser(about.url, MaxTitleCharacters - kind - 2)
           named == kind + 2 + Lesser(SymbolCharacters, MaxTitleCharacters - kind - 2)
           other == kind + 10 + IF context > 0 THEN context - 3 ELSE Lesser(about.version, 60)
<1>5. TitleCharacters =
          IF about.kind = "crash" /\ about.failure # Absent THEN failed
          ELSE IF about.kind = "web_compat" /\ about.url # Absent THEN page
          ELSE IF HasRelevantFrames(ParseStackTrace(trace).rows) THEN named ELSE other
  BY DEF TitleCharacters, kind, context
<1>6. about.failure # Absent => failed \in Int
  <2> SUFFICES ASSUME about.failure # Absent PROVE failed \in Int
    OBVIOUS
  <2> DEFINE location == LocationCharacters(about.failure)
             title == kind + 2 + location
             room == Greater(0, MaxTitleCharacters - (title + 4))
             expression == ExpressionCharacters(about.failure, room)
  <2>1. /\ about.failure.directory \in Nat /\ about.failure.file \in Nat
        /\ about.failure.line \in Nat /\ about.failure.expression \in Nat
    BY DEF AboutIsValid
  <2>2. location \in Int
    BY <2>1 DEF LocationCharacters
  <2> HIDE DEF location
  <2>3. title \in Int
    BY <1>2, <2>2
  <2> HIDE DEF title
  <2>4. room \in Int
    <3>1. MaxTitleCharacters - (title + 4) \in Int
      BY <1>2, <2>3
    <3>2. 0 \in Int
      OBVIOUS
    <3> QED
      BY ONLY <3>1, <3>2, LesserIs
  <2> HIDE DEF room
  <2>5. expression \in Int
    <3>1. 60 \in Int /\ about.failure.expression \in Int
      BY <2>1
    <3> DEFINE limit == Lesser(room, 60)
    <3>2. limit \in Int
      BY ONLY <2>4, <3>1, LesserIs
    <3>3. expression = IF limit < 10 THEN 0 ELSE Lesser(about.failure.expression, limit)
      BY DEF ExpressionCharacters
    <3> HIDE DEF limit, expression
    <3>4. Lesser(about.failure.expression, limit) \in Int
      BY ONLY <3>1, <3>2, LesserIs
    <3> QED
      BY ONLY <3>3, <3>4
  <2> HIDE DEF expression
  <2>6. title + (IF expression = 0 THEN 0 ELSE 3 + expression) \in Int
    BY <2>3, <2>5
  <2> QED
    BY <2>6 DEF title, location, room, expression
<1>7. about.url # Absent => page \in Int
  <2>1. about.url # Absent => about.url \in Int
    BY DEF AboutIsValid
  <2> DEFINE room == MaxTitleCharacters - kind - 2
             shown == Lesser(about.url, room)
  <2>2. room \in Int
    BY <1>2
  <2> HIDE DEF room
  <2>3. about.url # Absent => shown \in Int
    BY ONLY <2>1, <2>2, LesserIs DEF shown
  <2> HIDE DEF shown
  <2>4. shown \in Int => kind + 2 + shown \in Int
    BY <1>2
  <2> QED
    BY <2>3, <2>4 DEF room, shown
<1>8. named \in Int
  <2> DEFINE room == MaxTitleCharacters - kind - 2
             shown == Lesser(SymbolCharacters, room)
  <2>1. room \in Int
    BY <1>2
  <2> HIDE DEF room
  <2>2. shown \in Int
    BY ONLY <1>2, <2>1, LesserIs DEF shown
  <2> HIDE DEF shown
  <2>3. kind + 2 + shown \in Int
    BY <1>2, <2>2
  <2> QED
    BY <2>3 DEF room, shown
<1>9. other \in Int
  <2> DEFINE shown == Lesser(about.version, 60)
  <2>1. shown \in Int
    <3>1. about.version \in Int /\ 60 \in Int
      BY DEF AboutIsValid
    <3> QED
      BY ONLY <3>1, LesserIs
  <2> HIDE DEF shown
  <2>2. kind + 10 + (IF context > 0 THEN context - 3 ELSE shown) \in Int
    BY <1>2, <1>4, <2>1
  <2> QED
    BY <2>2 DEF shown
<1> HIDE DEF failed, page, named, other
<1>10. TitleCharacters \in Int
  BY <1>5, <1>6, <1>7, <1>8, <1>9
<1> QED
  BY <1>10 DEF TruncateText, Lesser

\* Discord's limits hold for every part of a message and for all of it, and a stack is marked
\* exactly when frames of it are left out: for every stack and every limit on its lines.
LEMMA MessagesFit ==
    ASSUME AboutIsValid, LayoutIsValid, trace \in Seq(TraceLines)
    PROVE  MessageFits
<1> DEFINE m == Message
           d == Description
           R == RepositoryCharacters
           sum == FoldLeft(AddField, 0, Fields)
           title == TruncateText(TitleCharacters, 256)
<1>1. m = [title |-> title, description |-> d, fields |-> Fields]
  BY DEF Message
<1>2. layout.lines \in Nat /\ layout.characters \in Int /\ layout.characters <= 3500 /\ R \in 1 .. 140
  <2> DEFINE lines == layout.lines
             room == layout.characters
  <2>1. lines \in 1 .. 100 /\ room \in 256 .. 3500
    BY DEF LayoutIsValid
  <2> HIDE DEF lines, room
  <2>2. lines \in Nat /\ room \in Int /\ room <= 3500
    BY <2>1
  <2>3. R \in 1 .. 140
    BY TheBounds
  <2> QED
    BY <2>2, <2>3 DEF lines, room
<1>3. title \in Int /\ title <= 256
  BY TitleIs
<1>4. /\ Fields \in Seq(MessageFields) /\ \A i \in 1 .. Len(Fields) : Accepted(Fields[i].value)
      /\ sum \in Int /\ sum <= 2671 + R
  BY AllFieldsFit DEF FieldsFit
<1>5. /\ d.marked <=> ~d.whole
      /\ d.characters \in Int /\ (d.characters <= layout.characters + 29 \/ d.characters <= 2016)
  <2>1. CASE trace # <<>>
    <3>1. d = StackDescription(trace)
      BY <2>1 DEF Description
    <3>2. DescriptionFits(StackDescription(trace))
      BY <1>2, StackDescriptionFits
    <3> QED
      BY <3>1, <3>2 DEF DescriptionFits
  <2>2. CASE trace = <<>>
    <3> DEFINE characters == IF about.description = Absent THEN 33
                             ELSE 16 + TruncateText(about.description, 2000)
    <3>1. d = [characters |-> characters, marked |-> FALSE, whole |-> TRUE]
      BY <2>2 DEF Description
    <3>2. characters \in Int /\ characters <= 2016
      <4>1. about.description \in {Absent} \cup Nat /\ 2000 \in Nat
        BY DEF AboutIsValid
      <4>2. about.description # Absent =>
               /\ TruncateText(about.description, 2000) \in Int
               /\ TruncateText(about.description, 2000) <= 2000
        BY ONLY <4>1, TruncatedValue
      <4> QED
        BY <4>2
    <3> HIDE DEF characters, d
    <3>3. d.characters = characters /\ d.marked = FALSE /\ d.whole = TRUE
      BY <3>1
    <3> QED
      BY <3>2, <3>3
  <2> QED
    BY <2>1, <2>2
<1> HIDE DEF m, d, title
<1>6. m.title = title /\ m.description = d /\ m.fields = Fields
  BY <1>1
<1>7. TotalCharacters(m) = title + d.characters + sum
  BY <1>6 DEF TotalCharacters
<1> HIDE DEF sum, R
<1>8. m.title <= 256 /\ m.description.characters <= 4096
  BY <1>2, <1>3, <1>5, <1>6
<1>9. \A i \in DOMAIN m.fields : Accepted(m.fields[i].value)
  <2>1. DOMAIN Fields = 1 .. Len(Fields)
    BY <1>4
  <2> QED
    BY <1>4, <1>6, <2>1
<1>10. layout.characters + R + 2956 <= 6000 => title + d.characters + sum <= 6000
  <2> DEFINE room == layout.characters
             characters == d.characters
  <2>1. /\ room \in Int /\ R \in 1 .. 140 /\ title \in Int /\ title <= 256
        /\ sum \in Int /\ sum <= 2671 + R
        /\ characters \in Int /\ (characters <= room + 29 \/ characters <= 2016)
    BY <1>2, <1>3, <1>4, <1>5
  <2> HIDE DEF room, characters
  <2>2. room + R + 2956 <= 6000 => title + characters + sum <= 6000
    BY ONLY <2>1
  <2> QED
    BY <2>2 DEF room, characters
<1> QED
  BY <1>5, <1>6, <1>7, <1>8, <1>9, <1>10 DEF MessageFits, Deliverable, m, R

\* Frames have the numbers of their type.
LEMMA NumbersFollow ==
    ASSUME trace \in Seq(TraceLines) PROVE NextNumbers \subseteq 0 .. LastNumber
<1> DEFINE frames == {i \in DOMAIN trace : trace[i].is = "frame"}
           next == (trace[Max(frames)].number + 1) % (LastNumber + 1)
<1>1. NextNumbers = {0} \cup IF frames = {} THEN {LastNumber} ELSE {next}
  BY DEF NextNumbers
<1>2. frames # {} => next \in 0 .. LastNumber
  <2> SUFFICES ASSUME frames # {} PROVE next \in 0 .. LastNumber
    OBVIOUS
  <2>1. Len(trace) \in Nat /\ frames \in SUBSET (1 .. Len(trace))
    OBVIOUS
  <2>2. \A i \in frames : trace[i].is = "frame" /\ trace[i] \in TraceLines
    OBVIOUS
  <2> DEFINE i == Max(frames)
  <2> HIDE DEF frames
  <2>3. i \in frames
    BY <2>1, GreatestOf
  <2> HIDE DEF i
  <2> DEFINE line == trace[i]
  <2>4. line.is = "frame" /\ line \in TraceLines
    BY <2>2, <2>3
  <2> HIDE DEF line
  <2>5. line.number \in 0 .. LastNumber
    <3>1. line \notin {Header, Text}
      BY <2>4 DEF Header, Text
    <3>2. PICK number \in 0 .. LastNumber, symbol \in Symbols \cup {Absent} :
             line = Frame(number, Absent, "address", symbol)
      BY <2>4, <3>1 DEF TraceLines
    <3> QED
      BY <3>2 DEF Frame
  <2> DEFINE M == LastNumber + 1
             n == line.number + 1
  <2>6. M \in Nat \ {0} /\ n \in Int /\ M - 1 = LastNumber
    BY <2>5, TheBounds
  <2>7. next = n % M
    BY DEF line, i
  <2> HIDE DEF M, n
  <2>8. n % M \in 0 .. M - 1
    BY ONLY <2>6
  <2> QED
    BY <2>6, <2>7, <2>8
<1> HIDE DEF frames, next
<1> QED
  BY <1>1, <1>2, TheBounds

\* Discord accepts every message, and the message about a stack some of whose frames are left out
\* says so (report_message, stack_description): for every stack, layout and report.
THEOREM MessagesFitDiscord == AnnouncementSpec => []MessageFits
<1> DEFINE IInv == AboutIsValid /\ LayoutIsValid /\ trace \in Seq(TraceLines)
<1>1. AnnouncementInit => IInv
  BY ReportedIsValid DEF AnnouncementInit
<1>2. IInv /\ [WriteLine]_announcementVars => IInv'
  <2> SUFFICES ASSUME IInv, [WriteLine]_announcementVars PROVE IInv'
    OBVIOUS
  <2>1. CASE UNCHANGED announcementVars
    <3>1. about' = about /\ layout' = layout /\ trace' = trace
      BY <2>1 DEF announcementVars
    <3>2. AboutIsValid'
      BY <3>1 DEF AboutIsValid
    <3>3. LayoutIsValid'
      BY <3>1 DEF LayoutIsValid
    <3> QED
      BY <3>1, <3>2, <3>3
  <2>2. CASE WriteLine
    <3>1. PICK line \in {Header, Text} \cup {Frame(number, Absent, "address", symbol) :
                                              number \in NextNumbers, symbol \in Symbols \cup {Absent}} :
             trace' = Append(trace, line)
      BY <2>2 DEF WriteLine
    <3>2. line \in TraceLines
      BY <3>1, NumbersFollow DEF TraceLines
    <3>3. trace' \in Seq(TraceLines)
      BY <3>1, <3>2
    <3>4. about' = about /\ layout' = layout
      BY <2>2 DEF WriteLine
    <3>5. AboutIsValid'
      BY <3>4 DEF AboutIsValid
    <3>6. LayoutIsValid'
      BY <3>4 DEF LayoutIsValid
    <3> QED
      BY <3>3, <3>5, <3>6
  <2> QED
    BY <2>1, <2>2
<1>3. IInv => MessageFits
  BY MessagesFit
<1> QED
  BY <1>1, <1>2, <1>3, PTL DEF AnnouncementSpec
=============================================================================
