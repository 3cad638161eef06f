------------------------- MODULE MySQLDataLemmas --------------------------
(***************************************************************************)
(* Lemmas about sequences, numbers and recursive functions, and about what *)
(* MySQLData cuts into pieces, puts together, numbers and converts.        *)
(***************************************************************************)
EXTENDS MySQLData, WellFoundedInduction, TLAPS

-----------------------------------------------------------------------------
(* Induction.                                                              *)

(***************************************************************************)
(* A set of naturals with 0 and with every successor has them all.         *)
(***************************************************************************)
LEMMA SetInduction ==
    ASSUME NEW S, 0 \in S, \A n \in Nat : n \in S => n + 1 \in S
    PROVE  \A n \in Nat : n \in S
<1> DEFINE R == {ss \in Nat \X Nat : ss[1] < ss[2]}
           T == Nat \ S
<1>1. R = OpToRel(<, Nat)
  BY DEF OpToRel
<1>2. IsWellFoundedOn(R, Nat)
  BY <1>1, NatLessThanWellFounded
<1>3. SUFFICES ASSUME T # {}
               PROVE  FALSE
  OBVIOUS
<1>4. T \subseteq Nat
  OBVIOUS
<1>5. PICK x \in T : \A y \in T : <<y, x>> \notin R
  <2> HIDE DEF R, T
  <2>1. QED
    BY <1>2, <1>3, <1>4, WFMin
<1>6. x \in Nat /\ x # 0 /\ x - 1 \in Nat
  OBVIOUS
<1>7. x - 1 \in T
  <2>1. x - 1 + 1 = x
    BY <1>6
  <2>2. QED
    BY <1>6, <2>1
<1>8. <<x - 1, x>> \in R
  BY <1>6
<1>9. QED
  BY <1>5, <1>7, <1>8

(***************************************************************************)
(* A function that is defined by its first value and by a step from each   *)
(* value to the next.                                                      *)
(***************************************************************************)
Recursive(f, first, last, base, step) ==
    f = [k \in first..last |-> IF k = first THEN base ELSE step[k][f[k - 1]]]

(***************************************************************************)
(* There is one.                                                           *)
(***************************************************************************)
LEMMA RecursionExists ==
    ASSUME NEW A, NEW base \in A, NEW first \in Nat, NEW last \in Nat, first <= last,
           NEW step \in [first..last -> [A -> A]]
    PROVE  \E f \in [first..last -> A] : Recursive(f, first, last, base, step)
<1> DEFINE Upto(f, j) == /\ f \in [first..j -> A]
                         /\ f[first] = base
                         /\ \A k \in (first + 1)..j : f[k] = step[k][f[k - 1]]
           S == {m \in Nat : first + m <= last => \E f : Upto(f, first + m)}
<1>1. 0 \in S
  <2>1. Upto([k \in first..first |-> base], first)
    OBVIOUS
  <2>2. first + 0 = first
    OBVIOUS
  <2>3. \E f : Upto(f, first + 0)
    <3> HIDE DEF Upto
    <3>1. QED
      BY <2>1, <2>2
  <2>4. QED
    BY <2>3
<1>2. ASSUME NEW m \in Nat, m \in S
      PROVE  m + 1 \in S
  <2>1. SUFFICES ASSUME first + m + 1 <= last
                 PROVE  \E g : Upto(g, first + m + 1)
    OBVIOUS
  <2>2. PICK f : Upto(f, first + m)
    BY <1>2, <2>1
  <2> DEFINE n == first + m + 1
             g == [k \in first..n |-> IF k = n THEN step[n][f[n - 1]] ELSE f[k]]
  <2>3. n \in first..last /\ n - 1 \in first..(first + m) /\ n # first
    BY <2>1
  <2>4. step[n][f[n - 1]] \in A
    <3>1. f[n - 1] \in A /\ step[n] \in [A -> A]
      BY <2>2, <2>3
    <3>2. QED
      BY <3>1
  <2>5. \A k \in first..n : k # n => k \in first..(first + m)
    OBVIOUS
  <2>6. g \in [first..n -> A]
    BY <2>2, <2>4, <2>5
  <2>7. g[first] = base
    BY <2>2, <2>3, <2>5
  <2>8. ASSUME NEW k \in (first + 1)..n
        PROVE  g[k] = step[k][g[k - 1]]
    <3>1. k - 1 \in first..n /\ k - 1 # n /\ k \in first..n
      OBVIOUS
    <3>2. g[k - 1] = f[k - 1]
      BY <3>1
    <3>3. CASE k = n
      BY <3>1, <3>2, <3>3
    <3>4. CASE k # n
      <4>1. k \in (first + 1)..(first + m) /\ g[k] = f[k]
        BY <3>1, <3>4
      <4>2. QED
        BY <2>2, <3>2, <4>1
    <3>5. QED
      BY <3>3, <3>4
  <2>9. QED
    BY <2>6, <2>7, <2>8
<1>3. last - first \in S
  <2> HIDE DEF S
  <2>1. \A m \in Nat : m \in S
    BY <1>1, <1>2, SetInduction
  <2>2. QED
    BY <2>1
<1>4. PICK f : Upto(f, last)
  <2>1. first + (last - first) = last
    OBVIOUS
  <2>2. QED
    BY <1>3, <2>1
<1>5. f = [k \in first..last |-> IF k = first THEN base ELSE step[k][f[k - 1]]]
  <2>1. \A k \in first..last : f[k] = IF k = first THEN base ELSE step[k][f[k - 1]]
    BY <1>4
  <2>2. QED
    BY <1>4, <2>1
<1>6. QED
  BY <1>4, <1>5 DEF Recursive

(***************************************************************************)
(* What holds at the first number of a range, and at every next one, holds *)
(* at all of them.                                                         *)
(***************************************************************************)
LEMMA RangeInduction ==
    ASSUME NEW S, NEW first \in Nat, NEW last \in Nat,
           first <= last => first \in S,
           \A k \in first..last : k # first /\ k - 1 \in S => k \in S
    PROVE  \A k \in first..last : k \in S
<1> DEFINE T == {j \in Nat : first + j <= last => first + j \in S}
<1>1. 0 \in T
  OBVIOUS
<1>2. ASSUME NEW j \in Nat, j \in T
      PROVE  j + 1 \in T
  <2>1. SUFFICES ASSUME first + (j + 1) <= last
                 PROVE  first + (j + 1) \in S
    OBVIOUS
  <2>2. first + (j + 1) \in first..last /\ first + (j + 1) # first /\ first + (j + 1) - 1 = first + j
    BY <2>1
  <2>3. first + j \in S
    BY <1>2, <2>1
  <2>4. QED
    BY <2>2, <2>3
<1>3. \A j \in Nat : j \in T
  <2> HIDE DEF T
  <2>1. QED
    BY <1>1, <1>2, SetInduction
<1>4. ASSUME NEW k \in first..last
      PROVE  k \in S
  <2>1. k - first \in Nat /\ first + (k - first) = k
    OBVIOUS
  <2>2. QED
    BY <1>3, <2>1
<1>5. QED
  BY <1>4

-----------------------------------------------------------------------------
(* Sequences put together.                                                 *)

(***************************************************************************)
(* Concatenation.                                                          *)
(***************************************************************************)
LEMMA Concat ==
    ASSUME NEW S, NEW s \in Seq(S), NEW t \in Seq(S)
    PROVE  /\ s \o t \in Seq(S) /\ Len(s \o t) = Len(s) + Len(t)
           /\ Len(s) \in Nat /\ Len(t) \in Nat
           /\ DOMAIN s = 1..Len(s) /\ DOMAIN t = 1..Len(t)
           /\ \A i \in 1..(Len(s) + Len(t)) :
                (s \o t)[i] = IF i <= Len(s) THEN s[i] ELSE t[i - Len(s)]
           /\ <<>> \o t = t /\ s \o <<>> = s
OBVIOUS

(***************************************************************************)
(* One more element; the others keep their places.                         *)
(***************************************************************************)
LEMMA Ends ==
    ASSUME NEW S, NEW s \in Seq(S), NEW x \in S
    PROVE  /\ Len(s) \in Nat /\ \A k \in 1..Len(s) : s[k] \in S
           /\ Append(s, x) \in Seq(S) /\ Append(s, x) # <<>>
           /\ Len(Append(s, x)) = Len(s) + 1 /\ Append(s, x)[Len(s) + 1] = x
           /\ \A k \in 1..Len(s) : Append(s, x)[k] = s[k]
           /\ <<x>> \in Seq(S) /\ <<x>> # <<>> /\ Len(<<x>>) = 1 /\ <<x>>[1] = x
           /\ <<>> \in Seq(S) /\ Len(<<>>) = 0
           /\ s # <<>> => /\ Len(s) >= 1 /\ Head(s) = s[1] /\ s[1] \in S
                         /\ Tail(s) \in Seq(S) /\ Len(Tail(s)) = Len(s) - 1
                         /\ \A k \in 1..(Len(s) - 1) : Tail(s)[k] = s[k + 1]
           /\ Len(s) = 1 => s = <<s[1]>> /\ Tail(s) = <<>>
           /\ s = <<>> => Append(s, x) = <<x>>
<1>1. /\ Len(s) \in Nat /\ \A k \in 1..Len(s) : s[k] \in S
      /\ Append(s, x) \in Seq(S) /\ Append(s, x) # <<>>
      /\ Len(Append(s, x)) = Len(s) + 1 /\ Append(s, x)[Len(s) + 1] = x
      /\ \A k \in 1..Len(s) : Append(s, x)[k] = s[k]
  OBVIOUS
<1>2. /\ <<x>> \in Seq(S) /\ <<x>> # <<>> /\ Len(<<x>>) = 1 /\ <<x>>[1] = x
      /\ <<>> \in Seq(S) /\ Len(<<>>) = 0
  OBVIOUS
<1>3. s # <<>> => /\ Len(s) >= 1 /\ Head(s) = s[1] /\ s[1] \in S
                  /\ Tail(s) \in Seq(S) /\ Len(Tail(s)) = Len(s) - 1
                  /\ \A k \in 1..(Len(s) - 1) : Tail(s)[k] = s[k + 1]
  OBVIOUS
<1>4. ASSUME Len(s) = 1
      PROVE  s = <<s[1]>> /\ Tail(s) = <<>>
  <2>1. \A i \in 1..1 : i = 1
    OBVIOUS
  <2>2. s = <<s[1]>>
    BY <1>4, <2>1
  <2>3. Tail(s) = <<>>
    <3>1. s # <<>>
      BY <1>4
    <3> DEFINE t == Tail(s)
    <3>2. t \in Seq(S) /\ Len(t) = 0
      BY <1>3, <1>4, <3>1
    <3> HIDE DEF t
    <3>3. t = <<>>
      BY <3>2
    <3>4. QED
      BY <3>3 DEF t
  <2>4. QED
    BY <2>2, <2>3
<1>5. s = <<>> => Append(s, x) = <<x>>
  OBVIOUS
<1>6. QED
  BY <1>1, <1>2, <1>3, <1>4, <1>5

(***************************************************************************)
(* The first element and the others.                                       *)
(***************************************************************************)
LEMMA SeqHead ==
    ASSUME NEW S, NEW s \in Seq(S), s # <<>>
    PROVE  /\ Len(s) \in Nat /\ Len(s) >= 1 /\ 1 \in 1..Len(s)
           /\ Head(s) = s[1] /\ Head(s) \in S /\ Tail(s) \in Seq(S)
OBVIOUS

(***************************************************************************)
(* Two sequences are equal if they have the same elements.                 *)
(***************************************************************************)
LEMMA SameSeq ==
    ASSUME NEW S, NEW T, NEW s \in Seq(S), NEW t \in Seq(T), Len(s) = Len(t),
           \A i \in 1..Len(s) : s[i] = t[i]
    PROVE  s = t
OBVIOUS

(***************************************************************************)
(* It does not matter what is put together first.                          *)
(***************************************************************************)
LEMMA ConcatAssociative ==
    ASSUME NEW S, NEW s \in Seq(S), NEW t \in Seq(S), NEW u \in Seq(S)
    PROVE  (s \o t) \o u = s \o (t \o u)
OBVIOUS

(***************************************************************************)
(* So it is for bytes.                                                     *)
(***************************************************************************)
LEMMA ConcatBytes ==
    \A s, t, u \in Seq(Int) : (s \o t) \o u = s \o (t \o u)
OBVIOUS

(***************************************************************************)
(* The sequences f[1], f[2], ... grow by what is put together.             *)
(***************************************************************************)
Grows(f, s) == /\ f[1] = s[1]
               /\ \A k \in 2..Len(s) : f[k] = f[k - 1] \o s[k]

(***************************************************************************)
(* FlattenSeq is the last of them.                                         *)
(***************************************************************************)
LEMMA Flattening ==
    ASSUME NEW S, NEW s \in Seq(Seq(S)), s # <<>>
    PROVE  \E f \in [1..Len(s) -> Seq(S)] : Grows(f, s) /\ SX!FlattenSeq(s) = f[Len(s)]
<1>1. PICK n \in Nat : n = Len(s)
  OBVIOUS
<1>2. PICK A : A = Seq(S)
  OBVIOUS
<1>3. 1 \in 1..n /\ 1 <= n /\ \A k \in 1..n : s[k] \in A
  BY <1>1, <1>2
<1> DEFINE step == [k \in 1..n |-> [a \in A |-> a \o s[k]]]
<1>4. step \in [1..n -> [A -> A]]
  <2>1. \A k \in 1..n, a \in A : a \o s[k] \in A
    BY <1>2, <1>3, Concat
  <2>2. QED
    BY <2>1
<1>5. \A k \in 1..n : k # 1 => k - 1 \in 1..n
  OBVIOUS
<1>6. PICK f \in [1..n -> A] : Recursive(f, 1, n, s[1], step)
  <2>1. s[1] \in A
    BY <1>3
  <2> HIDE DEF step
  <2>2. QED
    BY <1>3, <1>4, <2>1, RecursionExists
<1>7. \A k \in 1..n : f[k] = IF k = 1 THEN s[k] ELSE f[k - 1] \o s[k]
  <2>1. \A k \in 1..n : f[k] = IF k = 1 THEN s[1] ELSE step[k][f[k - 1]]
    <3> HIDE DEF step
    <3>1. QED
      BY <1>6 DEF Recursive
  <2>2. \A k \in 1..n : k # 1 => f[k - 1] \in A
    BY <1>5, <1>6
  <2>3. QED
    BY <2>1, <2>2
<1> DEFINE Equation(g) == g = [i \in 1..n |-> IF i = 1 THEN s[i] ELSE g[i - 1] \o s[i]]
           g == CHOOSE g : Equation(g)
<1>8. Equation(f)
  BY <1>6, <1>7
<1>9. Equation(g)
  BY <1>8
<1>10. \A k \in 1..n : g[k] = IF k = 1 THEN s[k] ELSE g[k - 1] \o s[k]
  <2> HIDE DEF g
  <2>1. QED
    BY <1>9
<1>11. \A k \in 1..n : g[k] = f[k]
  <2> DEFINE T == {k \in 1..n : g[k] = f[k]}
  <2> HIDE DEF g, step
  <2>1. 1 \in T
    BY <1>3, <1>7, <1>10
  <2>2. \A k \in 1..n : k # 1 /\ k - 1 \in T => k \in T
    BY <1>7, <1>10
  <2>3. \A k \in 1..n : k \in T
    <3> HIDE DEF T
    <3>1. QED
      BY <2>1, <2>2, RangeInduction
  <2>4. QED
    BY <2>3
<1>12. SX!FlattenSeq(s) = g[n]
  BY <1>1, <1>3 DEF SX!FlattenSeq
<1>13. Grows(f, s)
  <2>1. \A k \in 2..n : k \in 1..n /\ k # 1
    OBVIOUS
  <2>2. QED
    BY <1>1, <1>3, <1>7, <2>1 DEF Grows
<1>14. g[n] = f[n]
  <2>1. n \in 1..n
    BY <1>3
  <2> HIDE DEF g
  <2>2. QED
    BY <1>11, <2>1
<1>15. QED
  BY <1>1, <1>2, <1>6, <1>12, <1>13, <1>14

(***************************************************************************)
(* Whatever grows like this ends in FlattenSeq.                            *)
(***************************************************************************)
LEMMA Flattened ==
    ASSUME NEW S, NEW s \in Seq(Seq(S)), s # <<>>, NEW f, Grows(f, s)
    PROVE  SX!FlattenSeq(s) = f[Len(s)] /\ SX!FlattenSeq(s) \in Seq(S)
<1>1. PICK g \in [1..Len(s) -> Seq(S)] : Grows(g, s) /\ SX!FlattenSeq(s) = g[Len(s)]
  BY Flattening
<1>2. Len(s) \in Nat /\ Len(s) \in 1..Len(s)
  OBVIOUS
<1> DEFINE T == {k \in 1..Len(s) : f[k] = g[k]}
<1>3. 1 \in T
  BY <1>1, <1>2 DEF Grows
<1>4. ASSUME NEW k \in 1..Len(s), k # 1, k - 1 \in T
      PROVE  k \in T
  <2>1. k \in 2..Len(s) /\ f[k - 1] = g[k - 1]
    BY <1>4
  <2>2. QED
    BY <1>1, <2>1 DEF Grows
<1>5. \A k \in 1..Len(s) : k \in T
  <2> HIDE DEF T
  <2>1. QED
    BY <1>2, <1>3, <1>4, RangeInduction
<1>6. f[Len(s)] = g[Len(s)]
  BY <1>2, <1>5
<1>7. QED
  BY <1>1, <1>2, <1>6

(***************************************************************************)
(* FlattenSeq of one sequence, and of one more.                            *)
(***************************************************************************)
LEMMA FlattenAppend ==
    ASSUME NEW S, NEW s \in Seq(Seq(S)), NEW x \in Seq(S)
    PROVE  /\ SX!FlattenSeq(<<>>) = <<>>
           /\ SX!FlattenSeq(s) \in Seq(S)
           /\ SX!FlattenSeq(Append(s, x)) = SX!FlattenSeq(s) \o x
           /\ SX!FlattenSeq(<<x>>) = x
<1>1. SX!FlattenSeq(<<>>) = <<>>
  BY DEF SX!FlattenSeq
<1>2. SX!FlattenSeq(<<x>>) = x
  <2>1. /\ <<x>> \in Seq(Seq(S)) /\ <<x>> # <<>> /\ Len(<<x>>) = 1 /\ <<x>>[1] = x
    BY Ends
  <2>2. Grows(<<x>>, <<x>>)
    BY <2>1 DEF Grows
  <2>3. QED
    BY <2>1, <2>2, Flattened
<1>3. CASE s = <<>>
  <2>1. Append(s, x) = <<x>> /\ <<>> \in Seq(S)
    BY <1>3
  <2>2. <<>> \o x = x
    BY <2>1, Concat
  <2>3. QED
    BY <1>1, <1>2, <1>3, <2>1, <2>2
<1>4. CASE s # <<>>
  <2>1. PICK f \in [1..Len(s) -> Seq(S)] : Grows(f, s) /\ SX!FlattenSeq(s) = f[Len(s)]
    BY <1>4, Flattening
  <2> DEFINE t == Append(s, x)
             g == [k \in 1..(Len(s) + 1) |-> IF k = Len(s) + 1 THEN f[Len(s)] \o x ELSE f[k]]
  <2>2. /\ t \in Seq(Seq(S)) /\ t # <<>> /\ Len(t) = Len(s) + 1 /\ Len(s) \in Nat /\ Len(s) >= 1
        /\ t[Len(s) + 1] = x /\ \A k \in 1..Len(s) : t[k] = s[k]
    BY <1>4, Ends
  <2>3. g[1] = t[1]
    BY <2>1, <2>2 DEF Grows
  <2>4. ASSUME NEW k \in 2..Len(t)
        PROVE  g[k] = g[k - 1] \o t[k]
    <3>1. k \in 1..(Len(s) + 1) /\ k - 1 \in 1..(Len(s) + 1) /\ k - 1 # Len(s) + 1
      BY <2>2
    <3>2. g[k - 1] = f[k - 1]
      BY <3>1
    <3>3. CASE k = Len(s) + 1
      <4>1. k - 1 = Len(s)
        BY <2>2, <3>3
      <4>2. QED
        BY <2>2, <3>1, <3>2, <3>3, <4>1
    <3>4. CASE k # Len(s) + 1
      <4>1. k \in 2..Len(s) /\ k \in 1..Len(s)
        BY <2>2, <3>4
      <4>2. f[k] = f[k - 1] \o s[k]
        BY <2>1, <4>1 DEF Grows
      <4>3. QED
        BY <2>2, <3>1, <3>2, <3>4, <4>1, <4>2
    <3>5. QED
      BY <3>3, <3>4
  <2>5. Grows(g, t)
    <3> HIDE DEF g, t
    <3>1. QED
      BY <2>3, <2>4 DEF Grows
  <2>6. g[Len(t)] = f[Len(s)] \o x
    BY <2>2
  <2>7. SX!FlattenSeq(t) = g[Len(t)]
    <3> HIDE DEF g, t
    <3>1. QED
      BY <2>2, <2>5, Flattened
  <2>8. SX!FlattenSeq(s) \in Seq(S)
    BY <1>4, <2>1, Flattened
  <2>9. QED
    BY <1>1, <1>2, <2>1, <2>6, <2>7, <2>8
<1>5. QED
  BY <1>3, <1>4, <1>1, <1>2

(***************************************************************************)
(* FlattenSeq, from the front.                                             *)
(***************************************************************************)
LEMMA FlattenCons ==
    ASSUME NEW S, NEW s \in Seq(Seq(S)), s # <<>>
    PROVE  SX!FlattenSeq(s) = Head(s) \o SX!FlattenSeq(Tail(s))
<1> DEFINE n == Len(s)
           t == Tail(s)
<1>0. \A a, b, c \in Seq(S) : (a \o b) \o c = a \o (b \o c)
  BY ConcatAssociative
<1>1. /\ n \in Nat /\ n >= 1 /\ t \in Seq(Seq(S)) /\ Len(t) = n - 1 /\ Head(s) = s[1]
      /\ \A k \in 1..n : s[k] \in Seq(S)
      /\ \A k \in 1..(n - 1) : t[k] = s[k + 1]
      /\ n = 1 => s = <<s[1]>> /\ t = <<>>
  <2>1. <<>> \in Seq(S)
    OBVIOUS
  <2>2. QED
    BY <2>1, Ends
<1>2. CASE n = 1
  <2>1. s = <<s[1]>> /\ t = <<>> /\ s[1] \in Seq(S)
    BY <1>1, <1>2
  <2>2. SX!FlattenSeq(<<s[1]>>) = s[1] /\ SX!FlattenSeq(<<>>) = <<>> /\ s[1] \o <<>> = s[1]
    <3>1. <<>> \in Seq(Seq(S)) /\ <<>> \in Seq(S)
      OBVIOUS
    <3>2. QED
      BY <2>1, <3>1, FlattenAppend, Concat
  <2>3. QED
    BY <1>1, <2>1, <2>2
<1>3. CASE n > 1
  <2>1. t # <<>>
    <3>1. Len(<<>>) = 0 /\ Len(t) > 0
      BY <1>1, <1>3
    <3> HIDE DEF t
    <3>2. QED
      BY <3>1
  <2>2. PICK h \in [1..Len(t) -> Seq(S)] : Grows(h, t) /\ SX!FlattenSeq(t) = h[Len(t)]
    BY <1>1, <2>1, Flattening
  <2> DEFINE g == [k \in 1..n |-> IF k = 1 THEN s[1] ELSE s[1] \o h[k - 1]]
  <2>3. g[1] = s[1]
    BY <1>1
  <2>4. ASSUME NEW k \in 2..n
        PROVE  g[k] = g[k - 1] \o s[k]
    <3>1. /\ k \in 1..n /\ k # 1 /\ k - 1 \in 1..n /\ k - 1 \in 1..Len(t)
          /\ s[k] = t[k - 1] /\ s[k] \in Seq(S) /\ s[1] \in Seq(S)
      <4>1. k - 1 \in 1..(n - 1) /\ k - 1 + 1 = k /\ 1 \in 1..n
        BY <1>1
      <4>2. QED
        BY <1>1, <4>1
    <3>2. g[k] = s[1] \o h[k - 1]
      BY <3>1
    <3>3. CASE k = 2
      <4>1. g[k - 1] = s[1] /\ h[k - 1] = t[1] /\ k - 1 = 1
        BY <2>2, <2>3, <3>3 DEF Grows
      <4>2. QED
        BY <3>1, <3>2, <4>1
    <3>4. CASE k # 2
      <4>1. /\ k - 1 \in 2..Len(t) /\ k - 2 \in 1..Len(t) /\ k - 1 - 1 = k - 2
            /\ k - 1 # 1
        <5> HIDE DEF n, t
        <5>1. QED
          BY <1>1, <3>4
      <4>2. h[k - 1] = h[k - 2] \o t[k - 1]
        BY <2>2, <4>1 DEF Grows
      <4>3. g[k - 1] = s[1] \o h[k - 2]
        BY <3>1, <4>1
      <4>4. h[k - 2] \in Seq(S)
        BY <2>2, <4>1
      <4>5. (s[1] \o h[k - 2]) \o s[k] = s[1] \o (h[k - 2] \o s[k])
        <5> HIDE DEF n, t, g
        <5>1. QED
          BY <1>0, <3>1, <4>4
      <4>6. QED
        BY <3>1, <3>2, <4>2, <4>3, <4>5
    <3>5. QED
      BY <3>3, <3>4
  <2>5. Grows(g, s)
    <3> HIDE DEF g
    <3>1. QED
      BY <2>3, <2>4 DEF Grows
  <2>6. g[n] = s[1] \o h[Len(t)]
    <3>1. n \in 1..n /\ n # 1 /\ n - 1 = Len(t)
      BY <1>1, <1>3
    <3>2. QED
      BY <3>1
  <2>7. SX!FlattenSeq(s) = g[n]
    <3> HIDE DEF g
    <3>1. QED
      BY <2>5, Flattened
  <2>8. QED
    BY <1>1, <2>2, <2>6, <2>7
<1>4. QED
  BY <1>1, <1>2, <1>3

-----------------------------------------------------------------------------
(* Pieces of sequences.                                                    *)

(***************************************************************************)
(* The same element several times.                                         *)
(***************************************************************************)
LEMMA Repeated ==
    ASSUME NEW S, NEW x \in S, NEW n \in Nat
    PROVE  /\ Repeat(x, n) \in Seq(S) /\ Len(Repeat(x, n)) = n
           /\ DOMAIN Repeat(x, n) = 1..n
           /\ \A i \in 1..n : Repeat(x, n)[i] = x
           /\ Repeat(x, 0) = <<>>
           /\ Repeat(x, 1) = <<x>>
           /\ Repeat(x, n + 1) = Append(Repeat(x, n), x)
           /\ n > 0 => /\ Repeat(x, n) # <<>>
                       /\ Head(Repeat(x, n)) = x
                       /\ Tail(Repeat(x, n)) = Repeat(x, n - 1)
<1>1. /\ Repeat(x, n) \in Seq(S) /\ Len(Repeat(x, n)) = n /\ DOMAIN Repeat(x, n) = 1..n
      /\ \A i \in 1..n : Repeat(x, n)[i] = x
  BY DEF Repeat
<1>2. Repeat(x, 0) = <<>>
  BY DEF Repeat
<1>3. Repeat(x, 1) = <<x>>
  BY DEF Repeat
<1>4. Repeat(x, n + 1) = Append(Repeat(x, n), x)
  BY DEF Repeat
<1>5. ASSUME n > 0
      PROVE  /\ Repeat(x, n) # <<>>
             /\ Head(Repeat(x, n)) = x
             /\ Tail(Repeat(x, n)) = Repeat(x, n - 1)
  BY <1>5 DEF Repeat
<1>6. QED
  BY <1>1, <1>2, <1>3, <1>4, <1>5

(***************************************************************************)
(* A piece of a sequence.                                                  *)
(***************************************************************************)
LEMMA Slice ==
    ASSUME NEW S, NEW s \in Seq(S), NEW a \in Nat, NEW b \in Nat, a <= b, b <= Len(s)
    PROVE  /\ SubSeq(s, a + 1, b) \in Seq(S) /\ Len(SubSeq(s, a + 1, b)) = b - a
           /\ \A i \in 1..(b - a) : SubSeq(s, a + 1, b)[i] = s[a + i]
           /\ a = b => SubSeq(s, a + 1, b) = <<>>
           /\ SubSeq(s, 1, Len(s)) = s
OBVIOUS

(***************************************************************************)
(* Two pieces put together.                                                *)
(***************************************************************************)
LEMMA Slices ==
    ASSUME NEW S, NEW s \in Seq(S), NEW a \in Nat, NEW b \in Nat, a <= b, b <= Len(s)
    PROVE  /\ SubSeq(s, 1, a) \o SubSeq(s, a + 1, b) = SubSeq(s, 1, b)
           /\ SubSeq(SubSeq(s, a + 1, Len(s)), 1, b - a) = SubSeq(s, a + 1, b)
           /\ SubSeq(SubSeq(s, a + 1, Len(s)), b - a + 1, Len(s) - a)
                = SubSeq(s, b + 1, Len(s))
OBVIOUS

(***************************************************************************)
(* A piece of a piece that may end before the sequence does.               *)
(***************************************************************************)
LEMMA PieceOfPiece ==
    ASSUME NEW S, NEW s \in Seq(S), NEW m \in Nat, NEW l \in Nat, l <= Len(s),
           NEW a \in Nat, NEW b \in Nat, a <= b, b + m <= l
    PROVE  SubSeq(SubSeq(s, m + 1, l), a + 1, b) = SubSeq(s, a + m + 1, b + m)
OBVIOUS

(***************************************************************************)
(* The pieces of two sequences put together.                               *)
(***************************************************************************)
LEMMA Halves ==
    ASSUME NEW S, NEW s \in Seq(S), NEW t \in Seq(S)
    PROVE  /\ SubSeq(s \o t, 1, Len(s)) = s
           /\ SubSeq(s \o t, Len(s) + 1, Len(s \o t)) = t
           /\ \A n \in 0..Len(t) : SubSeq(s \o t, Len(s) + 1, Len(s) + n) = SubSeq(t, 1, n)
OBVIOUS

-----------------------------------------------------------------------------
(* Arithmetic.                                                             *)

(***************************************************************************)
(* Multiples.                                                              *)
(***************************************************************************)
LEMMA Multiples ==
    ASSUME NEW a \in Nat, NEW m \in Nat
    PROVE  /\ (a + 1) * m = a * m + m /\ a * m \in Nat /\ 0 * m = 0
           /\ \A b \in Nat : a <= b => a * m <= b * m
OBVIOUS

(***************************************************************************)
(* Quotients.                                                              *)
(***************************************************************************)
LEMMA Quotients ==
    ASSUME NEW l \in Nat, NEW m \in Nat, m > 0
    PROVE  /\ l \div m \in Nat /\ (l \div m) * m <= l /\ l < (l \div m) * m + m
           /\ \A q \in Nat : q * m <= l /\ l < q * m + m => l \div m = q
OBVIOUS

(***************************************************************************)
(* What a number leaves beyond a multiple.                                 *)
(***************************************************************************)
LEMMA Remainder ==
    ASSUME NEW k \in Nat, NEW q \in Nat, NEW r \in Nat, NEW m \in Nat, r < m, k = q * m + r
    PROVE  k % m = r
OBVIOUS

(***************************************************************************)
(* Remainders.                                                             *)
(***************************************************************************)
LEMMA Remainders ==
    ASSUME NEW n \in Nat, NEW m \in Nat, m > 1
    PROVE  /\ n % m \in 0..(m - 1)
           /\ n < m => n % m = n
           /\ (n * m) % m = 0
           /\ (n + 1) % m = ((n % m) + 1) % m
<1>1. n % m \in 0..(m - 1) /\ (n < m => n % m = n) /\ (n * m) % m = 0
  OBVIOUS
<1>3. PICK q \in Nat, r \in Nat : n = q * m + r /\ r < m
  <2>1. n \div m \in Nat /\ n = (n \div m) * m + (n % m) /\ n % m < m
    OBVIOUS
  <2>2. QED
    BY <1>1, <2>1
<1>4. n % m = r
  BY <1>3, Remainder
<1>5. PICK k \in Nat : k = n + 1
  OBVIOUS
<1>6. CASE r + 1 < m
  <2>1. PICK j \in Nat : j = r + 1
    OBVIOUS
  <2>2. k = q * m + j /\ j < m
    BY <1>3, <1>5, <1>6, <2>1
  <2>3. k % m = j /\ j % m = j
    BY <2>2, Remainder
  <2>4. QED
    BY <1>1, <1>4, <1>5, <2>1, <2>3
<1>7. CASE r + 1 = m
  <2>1. PICK p \in Nat : p = q + 1
    OBVIOUS
  <2>2. k = p * m + 0 /\ 0 < m
    BY <1>3, <1>5, <1>7, <2>1
  <2>3. k % m = 0
    BY <2>2, Remainder
  <2>4. m = 1 * m + 0
    OBVIOUS
  <2>5. m % m = 0
    BY <2>4, Remainder
  <2>6. QED
    BY <1>1, <1>4, <1>5, <1>7, <2>3, <2>5
<1>8. QED
  BY <1>3, <1>6, <1>7

-----------------------------------------------------------------------------
(* Packets and their parts.                                                *)

\* A part is no longer than the largest packet.
PartData == {d \in Seq(Int) : Len(d) <= MaxPacket}

(***************************************************************************)
(* The pieces between two multiples, and one multiple less.                *)
(***************************************************************************)
LEMMA Pieces ==
    ASSUME NEW l \in Nat, NEW m \in Nat, m > 0, NEW k \in Nat, k >= 1, k <= l \div m + 1
    PROVE  /\ (k - 1) * m \in Nat /\ (k - 1) * m <= l /\ k * m = (k - 1) * m + m
           /\ k * m \in Nat
<1>1. PICK n \in Nat : n = k - 1
  OBVIOUS
<1>2. PICK q \in Nat : q = l \div m
  BY Quotients
<1>3. q * m <= l
  BY <1>2, Quotients
<1>4. n <= q
  BY <1>1, <1>2
<1>5. n * m \in Nat /\ n * m <= q * m /\ (n + 1) * m = n * m + m
  BY <1>4, Multiples
<1>6. q * m \in Nat
  BY Multiples
<1>7. n * m <= l
  <2>1. PICK a \in Nat, b \in Nat : a = n * m /\ b = q * m
    BY <1>5, <1>6
  <2>2. a <= b /\ b <= l
    BY <1>3, <1>5, <2>1
  <2>3. a <= l
    BY <2>2
  <2>4. QED
    BY <2>1, <2>3
<1>8. n + 1 = k
  BY <1>1
<1>9. QED
  BY <1>1, <1>5, <1>7, <1>8

(***************************************************************************)
(* A payload shorter than a part is its only part; a longer one is a part  *)
(* and the parts of the rest.                                              *)
(***************************************************************************)
LEMMA SplitShort ==
    ASSUME NEW p \in Seq(Int), Len(p) < MaxPacket
    PROVE  Split(p) = <<p>>
<1>1. PICK m \in Nat : m = MaxPacket /\ m > 0
  BY DataAssumption DEF DataAssumption
<1>2. PICK l \in Nat : l = Len(p) /\ l < m
  BY <1>1
<1>3. l \div m = 0
  <2>1. 0 * m <= l /\ l < 0 * m + m
    BY <1>1, <1>2
  <2>2. QED
    BY <1>1, <2>1, Quotients
<1>4. Split(p) = [k \in 1..1 |-> SubSeq(p, (k - 1) * m + 1, MinOf(k * m, l))]
  BY <1>1, <1>2, <1>3 DEF Split
<1>5. SubSeq(p, (1 - 1) * m + 1, MinOf(1 * m, l)) = p
  <2>1. (1 - 1) * m + 1 = 1 /\ MinOf(1 * m, l) = l
    BY <1>1, <1>2 DEF MinOf
  <2>2. QED
    BY <1>2, <2>1
<1>6. [k \in 1..1 |-> p] = <<p>>
  OBVIOUS
<1>7. \A k \in 1..1 : SubSeq(p, (k - 1) * m + 1, MinOf(k * m, l)) = p
  BY <1>5
<1>8. QED
  BY <1>4, <1>6, <1>7

(***************************************************************************)
(* A longer one is a part and the parts of the rest.                       *)
(***************************************************************************)
LEMMA SplitLong ==
    ASSUME NEW p \in Seq(Int), Len(p) >= MaxPacket
    PROVE  /\ SubSeq(p, 1, MaxPacket) \in Seq(Int)
           /\ Len(SubSeq(p, 1, MaxPacket)) = MaxPacket
           /\ SubSeq(p, MaxPacket + 1, Len(p)) \in Seq(Int)
           /\ SubSeq(p, 1, MaxPacket) \o SubSeq(p, MaxPacket + 1, Len(p)) = p
           /\ Len(Split(p)) = Len(Split(SubSeq(p, MaxPacket + 1, Len(p)))) + 1
           /\ Split(p)[1] = SubSeq(p, 1, MaxPacket)
           /\ \A k \in 1..Len(Split(SubSeq(p, MaxPacket + 1, Len(p)))) :
                Split(p)[k + 1] = Split(SubSeq(p, MaxPacket + 1, Len(p)))[k]
<1>1. PICK m \in Nat : m = MaxPacket /\ m > 0
  BY DataAssumption DEF DataAssumption
<1>2. PICK l \in Nat : l = Len(p) /\ l >= m
  BY <1>1
<1>0. m <= l /\ l <= Len(p)
  BY <1>1, <1>2
<1>3. PICK r \in Seq(Int) : r = SubSeq(p, m + 1, l) /\ Len(r) = l - m
  <2>1. SubSeq(p, m + 1, l) \in Seq(Int) /\ Len(SubSeq(p, m + 1, l)) = l - m
    BY <1>0, Slice
  <2>2. QED
    BY <2>1
<1>4. /\ SubSeq(p, 0 + 1, m) \in Seq(Int) /\ Len(SubSeq(p, 0 + 1, m)) = m - 0
      /\ SubSeq(p, 1, m) \o SubSeq(p, m + 1, l) = SubSeq(p, 1, l)
      /\ SubSeq(p, 1, l) = p
  <2>1. 0 <= m /\ m <= Len(p) /\ 0 \in Nat
    BY <1>1, <1>2
  <2>2. SubSeq(p, 0 + 1, m) \in Seq(Int) /\ Len(SubSeq(p, 0 + 1, m)) = m - 0
    BY <2>1, Slice
  <2>3. SubSeq(p, 1, m) \o SubSeq(p, m + 1, l) = SubSeq(p, 1, l)
    BY <1>0, Slices
  <2>4. SubSeq(p, 1, l) = p
    BY <1>2
  <2>5. QED
    BY <2>2, <2>3, <2>4
<1>5. PICK q \in Nat : q = l \div m /\ q >= 1
  <2>1. (l \div m) \in Nat /\ l < (l \div m) * m + m
    BY <1>1, <1>2, Quotients
  <2>2. l \div m # 0
    <3>1. 0 * m = 0
      OBVIOUS
    <3>2. QED
      BY <1>1, <1>2, <2>1, <3>1
  <2>3. QED
    BY <2>1, <2>2
<1>6. PICK j \in Nat : q = j + 1
  <2>1. PICK i \in Nat : i = q /\ i >= 1
    BY <1>5
  <2>2. i - 1 \in Nat /\ i = (i - 1) + 1
    BY <2>1
  <2>3. QED
    BY <2>1, <2>2
<1>7. (l - m) \div m = j
  <2>1. q * m <= l /\ l < q * m + m
    BY <1>1, <1>2, <1>5, Quotients
  <2>2. q * m = j * m + m /\ j * m \in Nat
    BY <1>1, <1>6, Multiples
  <2>3. PICK c \in Nat : c = j * m
    BY <2>2
  <2>4. c + m <= l /\ l < c + m + m
    BY <2>1, <2>2, <2>3
  <2>5. c <= l - m /\ l - m < c + m /\ l - m \in Nat
    BY <1>1, <1>2, <2>4
  <2>6. QED
    BY <1>1, <2>3, <2>5, Quotients
<1>8. Split(p) = [k \in 1..(q + 1) |-> SubSeq(p, (k - 1) * m + 1, MinOf(k * m, l))]
  BY <1>1, <1>2, <1>5 DEF Split
<1>9. Split(r) = [k \in 1..(j + 1) |-> SubSeq(r, (k - 1) * m + 1, MinOf(k * m, l - m))]
  BY <1>1, <1>3, <1>7 DEF Split
<1>10. Split(p)[1] = SubSeq(p, 1, m)
  <2>1. (1 - 1) * m + 1 = 1 /\ MinOf(1 * m, l) = m
    BY <1>1, <1>2 DEF MinOf
  <2>2. 1 \in 1..(q + 1)
    BY <1>5
  <2>3. QED
    BY <1>8, <2>1, <2>2
<1>11. ASSUME NEW k \in 1..(j + 1)
       PROVE  Split(p)[k + 1] = Split(r)[k]
  <2>1. PICK a \in Nat : a = (k - 1) * m /\ a <= l - m /\ k * m = a + m
    <3>1. l - m \in Nat /\ k \in Nat /\ k >= 1 /\ k <= j + 1
      BY <1>1, <1>2
    <3>2. QED
      BY <1>1, <1>7, <3>1, Pieces
  <2>2. (k + 1) * m = a + m + m
    <3>1. k \in Nat
      OBVIOUS
    <3>2. (k + 1) * m = k * m + m
      BY <1>1, <3>1, Multiples
    <3>3. QED
      BY <2>1, <3>2
  <2>3. Split(p)[k + 1] = SubSeq(p, a + m + 1, MinOf(a + m + m, l))
    <3>1. k + 1 \in 1..(q + 1) /\ k + 1 - 1 = k
      BY <1>6
    <3>2. \A i \in 1..(q + 1) : \A x, y : x = (i - 1) * m /\ y = i * m =>
              Split(p)[i] = SubSeq(p, x + 1, MinOf(y, l))
      BY <1>8
    <3>3. PICK i, x, y : i = k + 1 /\ x = a + m /\ y = a + m + m
      OBVIOUS
    <3>4. i - 1 = k
      BY <3>1, <3>3
    <3>5. (i - 1) * m = x /\ i * m = y
      BY <2>1, <2>2, <3>3, <3>4
    <3>6. Split(p)[i] = SubSeq(p, x + 1, MinOf(y, l))
      BY <3>1, <3>2, <3>3, <3>5
    <3>7. QED
      BY <3>3, <3>6
  <2>4. Split(r)[k] = SubSeq(r, a + 1, MinOf(a + m, l - m))
    BY <1>9, <2>1
  <2>9. a <= l - m
    BY <2>1
  <2>5. PICK b \in Nat : b = MinOf(a + m, l - m) /\ a <= b /\ b <= l - m
    <3>1. MinOf(a + m, l - m) \in Nat /\ a <= MinOf(a + m, l - m) /\ MinOf(a + m, l - m) <= l - m
      BY <1>0, <2>9 DEF MinOf
    <3>2. QED
      BY <3>1
  <2>6. MinOf(a + m + m, l) = b + m
    BY <1>0, <2>5, <2>9 DEF MinOf
  <2>7. SubSeq(r, a + 1, b) = SubSeq(p, a + m + 1, b + m)
    <3>1. a <= b /\ b + m <= l /\ l <= Len(p) /\ r = SubSeq(p, m + 1, l) /\ b + m \in Nat /\ a + m \in Nat
      BY <1>0, <1>3, <2>5
    <3>2. QED
      BY <3>1, PieceOfPiece
  <2>8. QED
    BY <2>3, <2>4, <2>5, <2>6, <2>7
<1>12. Len(Split(p)) = q + 1 /\ Len(Split(r)) = j + 1
  BY <1>6, <1>8, <1>9
<1>13. /\ SubSeq(p, 1, m) \in Seq(Int) /\ Len(SubSeq(p, 1, m)) = m
       /\ SubSeq(p, 1, m) \o r = p
  BY <1>1, <1>3, <1>4
<1>14. Len(Split(p)) = Len(Split(r)) + 1 /\ \A k \in 1..Len(Split(r)) : Split(p)[k + 1] = Split(r)[k]
  BY <1>6, <1>11, <1>12
<1>15. r = SubSeq(p, MaxPacket + 1, Len(p))
  BY <1>1, <1>2, <1>3
<1>16. QED
  BY <1>1, <1>10, <1>13, <1>14, <1>15

(***************************************************************************)
(* The parts of any payload.                                               *)
(***************************************************************************)
LEMMA SplitType ==
    ASSUME NEW p \in Seq(Int)
    PROVE  Split(p) \in Seq(PartData) /\ Len(Split(p)) \in Nat /\ Len(Split(p)) >= 1
<1>1. PICK m \in Nat : m = MaxPacket /\ m > 0
  BY DataAssumption DEF DataAssumption
<1>2. PICK l \in Nat : l = Len(p)
  OBVIOUS
<1>3. PICK q \in Nat : q = l \div m
  BY <1>1, Quotients
<1>4. Split(p) = [k \in 1..(q + 1) |-> SubSeq(p, (k - 1) * m + 1, MinOf(k * m, l))]
  BY <1>1, <1>2, <1>3 DEF Split
<1>5. ASSUME NEW k \in 1..(q + 1)
      PROVE  SubSeq(p, (k - 1) * m + 1, MinOf(k * m, l)) \in PartData
  <2>1. PICK a \in Nat : a = (k - 1) * m /\ a <= l /\ k * m = a + m
    <3>1. k \in Nat /\ k >= 1 /\ k <= q + 1
      OBVIOUS
    <3>2. QED
      BY <1>1, <1>2, <1>3, <3>1, Pieces
  <2>2. PICK b \in Nat : b = MinOf(a + m, l) /\ a <= b /\ b <= l /\ b - a <= m
    BY <1>1, <1>2, <2>1 DEF MinOf
  <2>3. SubSeq(p, a + 1, b) \in Seq(Int) /\ Len(SubSeq(p, a + 1, b)) = b - a
    BY <1>2, <2>2, Slice
  <2>4. QED
    BY <1>1, <2>1, <2>2, <2>3 DEF PartData
<1>6. PICK A : A = PartData
  OBVIOUS
<1>7. PICK f : f = [k \in 1..(q + 1) |-> SubSeq(p, (k - 1) * m + 1, MinOf(k * m, l))]
  OBVIOUS
<1>8. q + 1 \in Nat /\ q + 1 >= 1
  OBVIOUS
<1>9. f \in [1..(q + 1) -> A]
  BY <1>5, <1>6, <1>7
<1>10. f \in Seq(A) /\ Len(f) = q + 1
  BY <1>8, <1>9
<1>11. QED
  BY <1>4, <1>6, <1>7, <1>8, <1>10

-----------------------------------------------------------------------------
(* The rows in a statement.                                                *)

\* Another row begins at p.
BeginsAt(sql, p) == sql[p] > 0 /\ (p = 1 \/ sql[p - 1] # sql[p])

\* The rows found by each place of a text.
FoundUpto(f, sql) ==
    /\ f[0] = <<>>
    /\ \A p \in 1..Len(sql) :
         f[p] = IF BeginsAt(sql, p) THEN Append(f[p - 1], sql[p]) ELSE f[p - 1]

(***************************************************************************)
(* RowsIn is what has been found by the end.                               *)
(***************************************************************************)
LEMMA RowsFound ==
    ASSUME NEW sql \in Seq(Int)
    PROVE  \E f \in [0..Len(sql) -> Seq(Int)] : FoundUpto(f, sql) /\ RowsIn(sql) = f[Len(sql)]
<1>1. PICK n \in Nat : n = Len(sql)
  OBVIOUS
<1>2. PICK A : A = Seq(Int)
  OBVIOUS
<1>3. 0 \in 0..n /\ 0 <= n /\ n \in 0..n /\ <<>> \in A
  BY <1>2
<1>4. \A p \in 1..n : p \in 0..n /\ p - 1 \in 0..n /\ p # 0 /\ sql[p] \in Int
  BY <1>1
<1> DEFINE step == [p \in 0..n |-> [a \in A |-> IF p # 0 /\ BeginsAt(sql, p)
                                               THEN Append(a, sql[p]) ELSE a]]
<1>5. step \in [0..n -> [A -> A]]
  <2>1. ASSUME NEW p \in 0..n, NEW a \in A
        PROVE  (IF p # 0 /\ BeginsAt(sql, p) THEN Append(a, sql[p]) ELSE a) \in A
    <3>1. CASE p = 0
      BY <3>1
    <3>2. CASE p # 0
      <4>1. p \in 1..n
        BY <3>2
      <4>2. sql[p] \in Int /\ a \in Seq(Int)
        BY <1>2, <1>4, <4>1
      <4>3. Append(a, sql[p]) \in A
        BY <1>2, <4>2
      <4>4. QED
        BY <4>3
    <3>3. QED
      BY <3>1, <3>2
  <2>2. QED
    BY <2>1
<1>6. PICK f \in [0..n -> A] : Recursive(f, 0, n, <<>>, step)
  <2> HIDE DEF step
  <2>1. QED
    BY <1>3, <1>5, RecursionExists
<1>7. /\ f[0] = <<>>
      /\ \A p \in 1..n : f[p] = IF BeginsAt(sql, p) THEN Append(f[p - 1], sql[p]) ELSE f[p - 1]
  <2>1. \A p \in 0..n : f[p] = IF p = 0 THEN <<>> ELSE step[p][f[p - 1]]
    <3> HIDE DEF step
    <3>1. QED
      BY <1>6 DEF Recursive
  <2>2. \A p \in 1..n : f[p - 1] \in A
    BY <1>4, <1>6
  <2>3. ASSUME NEW p \in 1..n
        PROVE  f[p] = IF BeginsAt(sql, p) THEN Append(f[p - 1], sql[p]) ELSE f[p - 1]
    <3>1. f[p] = step[p][f[p - 1]]
      BY <1>4, <2>1
    <3>2. \A a \in A : step[p][a] = IF BeginsAt(sql, p) THEN Append(a, sql[p]) ELSE a
      BY <1>4
    <3>3. QED
      <4> HIDE DEF step
      <4>1. QED
        BY <2>2, <3>1, <3>2
  <2>4. QED
    BY <1>3, <2>1, <2>3
<1> DEFINE Equation(g) == g = [p \in 0..n |->
                                 IF p = 0 THEN <<>>
                                 ELSE IF sql[p] > 0 /\ (p = 1 \/ sql[p - 1] # sql[p])
                                   THEN Append(g[p - 1], sql[p])
                                 ELSE g[p - 1]]
           g == CHOOSE g : Equation(g)
<1>8. Equation(f)
  <2>1. \A p \in 0..n : p = 0 \/ p \in 1..n
    OBVIOUS
  <2>2. \A p \in 0..n : f[p] = IF p = 0 THEN <<>>
                               ELSE IF sql[p] > 0 /\ (p = 1 \/ sql[p - 1] # sql[p])
                                 THEN Append(f[p - 1], sql[p])
                               ELSE f[p - 1]
    BY <1>4, <1>7, <2>1 DEF BeginsAt
  <2>3. QED
    BY <1>6, <2>2
<1>9. Equation(g)
  BY <1>8
<1>10. \A p \in 0..n : g[p] = IF p = 0 THEN <<>>
                              ELSE IF BeginsAt(sql, p) THEN Append(g[p - 1], sql[p])
                              ELSE g[p - 1]
  <2> HIDE DEF g
  <2>1. QED
    BY <1>9 DEF BeginsAt
<1>11. \A p \in 0..n : g[p] = f[p]
  <2> DEFINE T == {p \in 0..n : g[p] = f[p]}
  <2> HIDE DEF g, step
  <2>1. 0 \in T
    BY <1>3, <1>7, <1>10
  <2>2. \A p \in 0..n : p # 0 /\ p - 1 \in T => p \in T
    BY <1>7, <1>10
  <2>3. \A p \in 0..n : p \in T
    <3> HIDE DEF T
    <3>1. 0 \in Nat
      OBVIOUS
    <3>2. QED
      BY <1>1, <2>1, <2>2, <3>1, RangeInduction
  <2>4. QED
    BY <2>3
<1>12. RowsIn(sql) = g[n]
  BY <1>1, <1>3 DEF RowsIn
<1>13. g[n] = f[n]
  <2> HIDE DEF g
  <2>1. QED
    BY <1>3, <1>11
<1>14. QED
  BY <1>1, <1>2, <1>6, <1>7, <1>12, <1>13 DEF FoundUpto

(***************************************************************************)
(* One byte more: it begins a row if it is another row's than the last.    *)
(***************************************************************************)
LEMMA RowsInAppend ==
    ASSUME NEW s \in Seq(Int), NEW x \in Int
    PROVE  /\ RowsIn(s) \in Seq(Int)
           /\ RowsIn(<<>>) = <<>>
           /\ RowsIn(Append(s, x)) = IF x > 0 /\ (s = <<>> \/ s[Len(s)] # x)
                                       THEN Append(RowsIn(s), x) ELSE RowsIn(s)
<1>1. PICK t \in Seq(Int) : /\ t = Append(s, x) /\ Len(t) = Len(s) + 1 /\ t[Len(t)] = x
                            /\ \A k \in 1..Len(s) : t[k] = s[k]
  <2>1. /\ Append(s, x) \in Seq(Int) /\ Len(Append(s, x)) = Len(s) + 1
        /\ Append(s, x)[Len(s) + 1] = x /\ \A k \in 1..Len(s) : Append(s, x)[k] = s[k]
    OBVIOUS
  <2>2. QED
    BY <2>1
<1>2. PICK n \in Nat : n = Len(s)
  OBVIOUS
<1>3. PICK f \in [0..n -> Seq(Int)] : FoundUpto(f, s) /\ RowsIn(s) = f[n]
  BY <1>2, RowsFound
<1>4. PICK g \in [0..(n + 1) -> Seq(Int)] : FoundUpto(g, t) /\ RowsIn(t) = g[n + 1]
  BY <1>1, <1>2, RowsFound
<1> DEFINE T == {k \in 0..n : g[k] = f[k]}
<1>5. 0 \in T
  BY <1>2, <1>3, <1>4 DEF FoundUpto
<1>6. ASSUME NEW k \in 0..n, k # 0, k - 1 \in T
      PROVE  k \in T
  <2>1. k \in 1..n /\ k \in 1..(n + 1) /\ t[k] = s[k] /\ (k # 1 => k - 1 \in 1..n)
    BY <1>1, <1>2, <1>6
  <2>2. BeginsAt(t, k) <=> BeginsAt(s, k)
    BY <1>1, <1>2, <2>1 DEF BeginsAt
  <2>3. g[k - 1] = f[k - 1]
    BY <1>6
  <2>4. g[k] = IF BeginsAt(t, k) THEN Append(g[k - 1], t[k]) ELSE g[k - 1]
    BY <1>1, <1>2, <1>4, <2>1 DEF FoundUpto
  <2>5. f[k] = IF BeginsAt(s, k) THEN Append(f[k - 1], s[k]) ELSE f[k - 1]
    BY <1>2, <1>3, <2>1 DEF FoundUpto
  <2>6. QED
    BY <2>1, <2>2, <2>3, <2>4, <2>5
<1>7. g[n] = f[n]
  <2>1. \A k \in 0..n : k \in T
    <3> HIDE DEF T
    <3>1. 0 \in Nat
      OBVIOUS
    <3>2. QED
      BY <1>5, <1>6, <3>1, RangeInduction
  <2>2. n \in 0..n
    OBVIOUS
  <2>3. QED
    BY <2>1, <2>2
<1>8. g[n + 1] = IF BeginsAt(t, n + 1) THEN Append(g[n], x) ELSE g[n]
  <2>1. n + 1 \in 1..Len(t) /\ t[n + 1] = x /\ n + 1 - 1 = n
    BY <1>1, <1>2
  <2>2. PICK i : i = n + 1
    OBVIOUS
  <2>3. g[i] = IF BeginsAt(t, i) THEN Append(g[i - 1], t[i]) ELSE g[i - 1]
    BY <1>4, <2>1, <2>2 DEF FoundUpto
  <2>4. t[i] = x /\ i - 1 = n
    BY <2>1, <2>2
  <2>5. QED
    BY <2>2, <2>3, <2>4
<1>9. BeginsAt(t, n + 1) <=> x > 0 /\ (s = <<>> \/ s[n] # x)
  <2>1. PICK i : i = n + 1
    OBVIOUS
  <2>2. t[i] = x /\ i - 1 = n
    BY <1>1, <1>2, <2>1
  <2>3. i = 1 <=> s = <<>>
    BY <1>2, <2>1
  <2>4. i # 1 => t[n] = s[n]
    BY <1>1, <1>2, <2>1
  <2>5. BeginsAt(t, i) <=> t[i] > 0 /\ (i = 1 \/ t[i - 1] # t[i])
    BY DEF BeginsAt
  <2>6. BeginsAt(t, i) <=> x > 0 /\ (s = <<>> \/ s[n] # x)
    BY <2>2, <2>3, <2>4, <2>5
  <2>7. QED
    BY <2>1, <2>6
<1>10. RowsIn(<<>>) = <<>>
  <2>1. <<>> \in Seq(Int) /\ Len(<<>>) = 0
    OBVIOUS
  <2>2. PICK h \in [0..0 -> Seq(Int)] : FoundUpto(h, <<>>) /\ RowsIn(<<>>) = h[0]
    BY <2>1, RowsFound
  <2>3. QED
    BY <2>2 DEF FoundUpto
<1>11. RowsIn(s) \in Seq(Int)
  BY <1>3
<1>12. QED
  BY <1>1, <1>2, <1>3, <1>4, <1>7, <1>8, <1>9, <1>10, <1>11

(***************************************************************************)
(* A run of bytes of a row is one row more; a run of signs is none.        *)
(***************************************************************************)
LEMMA RowsInRun ==
    ASSUME NEW s \in Seq(Int), NEW x \in Int, NEW n \in Nat
    PROVE  /\ s \o Repeat(x, n) \in Seq(Int)
           /\ x <= 0 => RowsIn(s \o Repeat(x, n)) = RowsIn(s)
           /\ n > 0 => /\ s \o Repeat(x, n) # <<>>
                       /\ (s \o Repeat(x, n))[Len(s \o Repeat(x, n))] = x
           /\ x > 0 /\ n > 0 /\ s # <<>> /\ s[Len(s)] # x =>
                RowsIn(s \o Repeat(x, n)) = Append(RowsIn(s), x)
<1> DEFINE t(k) == s \o Repeat(x, k)
           Holds(k) == /\ t(k) \in Seq(Int)
                       /\ x <= 0 => RowsIn(t(k)) = RowsIn(s)
                       /\ k > 0 => t(k) # <<>> /\ t(k)[Len(t(k))] = x
                       /\ x > 0 /\ k > 0 /\ s # <<>> /\ s[Len(s)] # x =>
                            RowsIn(t(k)) = Append(RowsIn(s), x)
           T == {k \in Nat : Holds(k)}
<1>1. 0 \in T
  <2>0. 0 \in Nat
    OBVIOUS
  <2>3. Repeat(x, 0) = <<>>
    BY <2>0, Repeated
  <2>4. s \o <<>> = s
    OBVIOUS
  <2>1. Repeat(x, 0) = <<>> /\ s \o <<>> = s
    BY <2>3, <2>4
  <2>2. t(0) = s /\ 0 \in Nat
    BY <2>1
  <2>5. QED
    <3> HIDE DEF t
    <3>1. QED
      BY <2>2
<1>2. ASSUME NEW k \in Nat, k \in T
      PROVE  k + 1 \in T
  <2>1. t(k + 1) = Append(t(k), x)
    <3>1. Repeat(x, k + 1) = Append(Repeat(x, k), x) /\ Repeat(x, k) \in Seq(Int)
      BY Repeated
    <3>2. \A r \in Seq(Int) : s \o Append(r, x) = Append(s \o r, x)
      OBVIOUS
    <3>3. QED
      BY <3>1, <3>2
  <2>2. Holds(k)
    BY <1>2
  <2> HIDE DEF t
  <2>3. /\ t(k + 1) \in Seq(Int) /\ t(k + 1) # <<>> /\ t(k + 1)[Len(t(k + 1))] = x
    <3>1. Append(t(k), x) \in Seq(Int) /\ Append(t(k), x) # <<>>
          /\ Len(Append(t(k), x)) = Len(t(k)) + 1 /\ Append(t(k), x)[Len(t(k)) + 1] = x
      BY <2>2, Ends
    <3>2. QED
      BY <2>1, <3>1
  <2>4. RowsIn(t(k + 1)) = IF x > 0 /\ (t(k) = <<>> \/ t(k)[Len(t(k))] # x)
                             THEN Append(RowsIn(t(k)), x) ELSE RowsIn(t(k))
    BY <2>1, <2>2, RowsInAppend
  <2>5. k = 0 => t(k) = s
    <3>1. t(0) = s
      <4>0. 0 \in Nat
        OBVIOUS
      <4>1. Repeat(x, 0) = <<>>
        BY <4>0, Repeated
      <4>2. s \o <<>> = s
        OBVIOUS
      <4>3. QED
        BY <4>1, <4>2 DEF t
    <3>2. QED
      BY <3>1
  <2>6. Holds(k + 1)
    <3>1. CASE k = 0
      BY <2>2, <2>3, <2>4, <2>5, <3>1
    <3>2. CASE k > 0
      BY <2>2, <2>3, <2>4, <3>2
    <3>3. QED
      BY <3>1, <3>2
  <2>7. k + 1 \in Nat
    OBVIOUS
  <2>8. QED
    BY <2>6, <2>7
<1>3. n \in T
  <2> HIDE DEF T
  <2>1. QED
    BY <1>1, <1>2, SetInduction
<1>4. QED
  BY <1>3

-----------------------------------------------------------------------------
(* Parts on their way.                                                     *)

PartType == [no : 0..(SeqMod - 1), data : PartData]

\* The number of part i, if next is that of the part after the last.
NumberOf(parts, i, next) == IF i = Len(parts) + 1 THEN next ELSE parts[i].no

\* Parts with the numbers from first on, and next after them.
InTurn(parts, first, next) ==
    /\ NumberOf(parts, 1, next) = first
    /\ \A i \in 1..Len(parts) : NumberOf(parts, i + 1, next) = NextNumber(parts[i].no)

\* Parts that are the first ones of those to come.
Bring(parts, coming) ==
    /\ Len(parts) <= Len(coming)
    /\ \A i \in 1..Len(parts) : parts[i].data = coming[i]

(***************************************************************************)
(* Numbers.                                                                *)
(***************************************************************************)
LEMMA Sizes ==
    /\ MaxPacket \in Nat /\ MaxPacket > 15
    /\ SeqMod \in Nat /\ SeqMod > 1
    /\ Columns \in Nat /\ Columns > 0 /\ Prefix \in Nat /\ Prefix > 0
    /\ Postfix \in Nat /\ Postfix > 0 /\ MaxStmt \in Nat
BY DataAssumption DEF DataAssumption

(***************************************************************************)
(* A number is a byte, and the next number is that of the next packet.     *)
(***************************************************************************)
LEMMA NextNumbers ==
    ASSUME NEW n \in Nat
    PROVE  /\ NextNumber(n) \in 0..(SeqMod - 1)
           /\ (n + 1) % SeqMod = NextNumber(n % SeqMod)
           /\ n % SeqMod \in 0..(SeqMod - 1)
           /\ 0 % SeqMod = 0
<1>1. n + 1 \in Nat /\ 0 \in Nat
  OBVIOUS
<1>2. PICK m \in Nat : m = SeqMod /\ m > 1
  BY Sizes
<1>3. (n + 1) % m \in 0..(m - 1) /\ n % m \in 0..(m - 1) /\ 0 % m = 0
  BY <1>1, <1>2, Remainders
<1>4. (n + 1) % m = ((n % m) + 1) % m
  BY <1>2, Remainders
<1>5. QED
  BY <1>2, <1>3, <1>4 DEF NextNumber

(***************************************************************************)
(* No part, the first part, and one part more.                             *)
(***************************************************************************)
LEMMA InTurnNone ==
    ASSUME NEW a, NEW b
    PROVE  InTurn(<<>>, a, b) <=> a = b
<1>1. Len(<<>>) = 0
  OBVIOUS
<1>2. QED
  BY <1>1 DEF InTurn, NumberOf

(***************************************************************************)
(* The first part has the first number, and the others have the next ones. *)
(***************************************************************************)
LEMMA InTurnTail ==
    ASSUME NEW parts \in Seq(PartType), parts # <<>>, NEW first, NEW next,
           InTurn(parts, first, next)
    PROVE  /\ Head(parts).no = first
           /\ Tail(parts) \in Seq(PartType)
           /\ InTurn(Tail(parts), NextNumber(first), next)
<1>1. PICK T : T = PartType
  OBVIOUS
<1>2. PICK n \in Nat : n = Len(parts) /\ n >= 1
  OBVIOUS
<1>3. PICK t : t = Tail(parts)
  OBVIOUS
<1>4. /\ Head(parts) = parts[1] /\ t \in Seq(T) /\ Len(t) = n - 1
      /\ \A k \in 1..(n - 1) : t[k] = parts[k + 1]
  BY <1>1, <1>2, <1>3
<1>5. parts[1].no = first
  BY <1>2 DEF InTurn, NumberOf
<1>6. \A i \in 1..n : NumberOf(parts, i + 1, next) = NextNumber(parts[i].no)
  BY <1>2 DEF InTurn
<1>7. \A i \in 1..n : NumberOf(t, i, next) = NumberOf(parts, i + 1, next)
  BY <1>2, <1>4 DEF NumberOf
<1>8. NumberOf(t, 1, next) = NextNumber(first)
  BY <1>2, <1>5, <1>6, <1>7
<1>9. ASSUME NEW i \in 1..Len(t)
      PROVE  NumberOf(t, i + 1, next) = NextNumber(t[i].no)
  <2>1. i + 1 \in 1..n /\ t[i] = parts[i + 1]
    BY <1>2, <1>4
  <2>2. QED
    BY <1>6, <1>7, <2>1
<1>10. QED
  BY <1>1, <1>3, <1>4, <1>5, <1>8, <1>9 DEF InTurn

(***************************************************************************)
(* A part that is sent has the next number.                                *)
(***************************************************************************)
LEMMA InTurnAppend ==
    ASSUME NEW parts \in Seq(PartType), NEW first, NEW next \in 0..(SeqMod - 1),
           NEW data \in PartData, InTurn(parts, first, next)
    PROVE  /\ Append(parts, Part(next, data)) \in Seq(PartType)
           /\ InTurn(Append(parts, Part(next, data)), first, NextNumber(next))
<1>1. PICK T : T = PartType
  OBVIOUS
<1>2. PICK n \in Nat : n = Len(parts)
  OBVIOUS
<1>3. PICK x \in T : x = Part(next, data) /\ x.no = next
  <2>1. Part(next, data) \in PartType
    BY DEF PartType, Part
  <2>2. Part(next, data).no = next
    BY DEF Part
  <2>3. QED
    BY <1>1, <2>1, <2>2
<1>4. PICK t : t = Append(parts, x)
  OBVIOUS
<1>5. /\ t \in Seq(T) /\ Len(t) = n + 1 /\ t[n + 1] = x
      /\ \A k \in 1..n : t[k] = parts[k]
  BY <1>1, <1>2, <1>4
<1>6. \A k \in 1..(n + 1) : NumberOf(t, k, NextNumber(next)) = NumberOf(parts, k, next)
  BY <1>2, <1>3, <1>5 DEF NumberOf
<1>7. NumberOf(parts, 1, next) = first
      /\ \A i \in 1..n : NumberOf(parts, i + 1, next) = NextNumber(parts[i].no)
  BY <1>2 DEF InTurn
<1>8. NumberOf(t, 1, NextNumber(next)) = first
  BY <1>6, <1>7
<1>9. ASSUME NEW i \in 1..(n + 1)
      PROVE  NumberOf(t, i + 1, NextNumber(next)) = NextNumber(t[i].no)
  <2>1. CASE i = n + 1
    BY <1>2, <1>3, <1>5, <2>1 DEF NumberOf
  <2>2. CASE i # n + 1
    <3>1. i \in 1..n /\ i + 1 \in 1..(n + 1)
      BY <2>2
    <3>2. QED
      BY <1>5, <1>6, <1>7, <3>1
  <2>3. QED
    BY <2>1, <2>2
<1>10. QED
  BY <1>1, <1>3, <1>4, <1>5, <1>8, <1>9 DEF InTurn

(***************************************************************************)
(* Part of what is on its way.                                             *)
(***************************************************************************)
LEMMA InTurnFront ==
    ASSUME NEW parts \in Seq(PartType), NEW first \in 0..(SeqMod - 1), NEW next,
           InTurn(parts, first, next), NEW k \in 0..Len(parts)
    PROVE  /\ SubSeq(parts, 1, k) \in Seq(PartType)
           /\ \E n : InTurn(SubSeq(parts, 1, k), first, n)
<1>1. PICK T : T = PartType
  OBVIOUS
<1>2. PICK n \in Nat : n = Len(parts) /\ k \in Nat /\ k <= n
  OBVIOUS
<1>3. PICK t : t = SubSeq(parts, 1, k)
  OBVIOUS
<1>4. t \in Seq(T) /\ Len(t) = k /\ \A i \in 1..k : t[i] = parts[i]
  BY <1>1, <1>2, <1>3
<1>5. NumberOf(parts, 1, next) = first
      /\ \A i \in 1..n : NumberOf(parts, i + 1, next) = NextNumber(parts[i].no)
  BY <1>2 DEF InTurn
<1>6. PICK m : m = NumberOf(parts, k + 1, next)
  OBVIOUS
<1>7. \A i \in 1..(k + 1) : NumberOf(t, i, m) = NumberOf(parts, i, next)
  BY <1>2, <1>4, <1>6 DEF NumberOf
<1>8. NumberOf(t, 1, m) = first
  BY <1>2, <1>5, <1>7
<1>9. ASSUME NEW i \in 1..k
      PROVE  NumberOf(t, i + 1, m) = NextNumber(t[i].no)
  <2>1. i + 1 \in 1..(k + 1) /\ i \in 1..n
    BY <1>2
  <2>2. QED
    BY <1>4, <1>5, <1>7, <2>1
<1>10. InTurn(t, first, m)
  BY <1>4, <1>8, <1>9 DEF InTurn
<1>11. QED
  BY <1>1, <1>3, <1>4, <1>10

(***************************************************************************)
(* A reply is numbered from the number after the command on.               *)
(***************************************************************************)
LEMMA NumberedInTurn ==
    ASSUME NEW parts \in Seq(PartData), NEW no \in Nat
    PROVE  /\ Numbered(parts, no) \in Seq(PartType)
           /\ Len(Numbered(parts, no)) = Len(parts)
           /\ \A i \in 1..Len(parts) : Numbered(parts, no)[i].data = parts[i]
           /\ \E next : InTurn(Numbered(parts, no), no % SeqMod, next)
<1>1. PICK n \in Nat : n = Len(parts) /\ DOMAIN parts = 1..n
  OBVIOUS
<1>2. PICK t : t = Numbered(parts, no)
  OBVIOUS
<1>3. t = [k \in 1..n |-> Part((no + k - 1) % SeqMod, parts[k])]
  BY <1>1, <1>2 DEF Numbered
<1>4. ASSUME NEW k \in 1..n
      PROVE  /\ t[k] \in PartType /\ t[k].data = parts[k]
             /\ t[k].no = (no + k - 1) % SeqMod
             /\ NextNumber(t[k].no) = (no + k) % SeqMod
  <2>1. PICK j \in Nat : j = no + k - 1 /\ j + 1 = no + k
    OBVIOUS
  <2>2. j % SeqMod \in 0..(SeqMod - 1) /\ (j + 1) % SeqMod = NextNumber(j % SeqMod)
    BY NextNumbers
  <2>3. t[k] = Part(j % SeqMod, parts[k]) /\ parts[k] \in PartData
    BY <1>1, <1>3, <2>1
  <2>4. t[k].no = j % SeqMod /\ t[k].data = parts[k]
    BY <2>3 DEF Part
  <2>5. t[k] \in PartType
    BY <2>2, <2>3 DEF Part, PartType
  <2>6. QED
    BY <2>1, <2>2, <2>4, <2>5
<1>5. t \in Seq(PartType) /\ Len(t) = n
  <2>1. PICK T : T = PartType
    OBVIOUS
  <2>2. t \in [1..n -> T]
    BY <1>3, <1>4, <2>1
  <2>3. t \in Seq(T) /\ Len(t) = n
    BY <2>2
  <2>4. QED
    BY <2>1, <2>3
<1>6. PICK next : next = (no + n) % SeqMod
  OBVIOUS
<1>7. ASSUME NEW k \in 1..(n + 1)
      PROVE  NumberOf(t, k, next) = (no + k - 1) % SeqMod
  <2>1. CASE k = n + 1
    <3>1. no + k - 1 = no + n
      BY <2>1
    <3>2. QED
      BY <1>5, <1>6, <2>1, <3>1 DEF NumberOf
  <2>2. CASE k # n + 1
    BY <1>4, <1>5, <2>2 DEF NumberOf
  <2>3. QED
    BY <2>1, <2>2
<1>8. NumberOf(t, 1, next) = no % SeqMod
  <2>1. no + 1 - 1 = no /\ 1 \in 1..(n + 1)
    OBVIOUS
  <2>2. NumberOf(t, 1, next) = (no + 1 - 1) % SeqMod
    BY <1>7, <2>1
  <2>3. QED
    BY <2>1, <2>2
<1>9. ASSUME NEW i \in 1..n
      PROVE  NumberOf(t, i + 1, next) = NextNumber(t[i].no)
  <2>1. i + 1 \in 1..(n + 1) /\ no + (i + 1) - 1 = no + i
    OBVIOUS
  <2>2. NumberOf(t, i + 1, next) = (no + (i + 1) - 1) % SeqMod
    BY <1>7, <2>1
  <2>3. QED
    BY <1>4, <2>1, <2>2
<1>10. InTurn(t, no % SeqMod, next)
  BY <1>5, <1>8, <1>9 DEF InTurn
<1>11. QED
  BY <1>1, <1>2, <1>4, <1>5, <1>10

-----------------------------------------------------------------------------
(* A reply on its way.                                                     *)

\* The parts of some packets.
Flow(packets) == SX!FlattenSeq([k \in DOMAIN packets |-> Split(packets[k])])

\* buffer has been read of the first packet, and rest of it is to come.
Coming(packets, rest) == Split(rest) \o Flow(Tail(packets))

Arriving(parts, seq, buffer, packets, rest) ==
    /\ buffer \o rest = packets[1]
    /\ \E next : InTurn(parts, seq, next)
    /\ Bring(parts, Coming(packets, rest))

(***************************************************************************)
(* The parts of no packet, of the first and of the others.                 *)
(***************************************************************************)
LEMMA Flows ==
    ASSUME NEW packets \in Seq(Seq(Int))
    PROVE  /\ Flow(packets) \in Seq(PartData)
           /\ Flow(<<>>) = <<>>
           /\ packets # <<>> =>
                /\ packets[1] \in Seq(Int) /\ Tail(packets) \in Seq(Seq(Int))
                /\ Flow(packets) = Coming(packets, packets[1])
<1>1. PICK A : A = Seq(Int)
  OBVIOUS
<1>2. PICK B : B = Seq(PartData)
  OBVIOUS
<1>3. PICK n \in Nat : n = Len(packets) /\ DOMAIN packets = 1..n
  OBVIOUS
<1>4. \A k \in 1..n : packets[k] \in A /\ Split(packets[k]) \in B
  <2>1. \A k \in 1..n : packets[k] \in Seq(Int)
    BY <1>3
  <2>2. QED
    BY <1>1, <1>2, <2>1, SplitType
<1>5. PICK f : f = [k \in 1..n |-> Split(packets[k])]
  OBVIOUS
<1>6. f \in Seq(B) /\ Len(f) = n /\ \A k \in 1..n : f[k] = Split(packets[k])
  BY <1>4, <1>5
<1>7. Flow(packets) = SX!FlattenSeq(f)
  BY <1>3, <1>5 DEF Flow
<1>8. Flow(packets) \in Seq(PartData)
  <2>1. <<>> \in Seq(PartData)
    OBVIOUS
  <2>2. SX!FlattenSeq(f) \in Seq(PartData)
    BY <1>2, <1>6, <2>1, FlattenAppend
  <2>3. QED
    BY <1>7, <2>2
<1>9. Flow(<<>>) = <<>>
  <2>1. [k \in DOMAIN <<>> |-> Split(<<>>[k])] = <<>>
    OBVIOUS
  <2>2. SX!FlattenSeq(<<>>) = <<>>
    BY FlattenAppend DEF SX!FlattenSeq
  <2>3. QED
    BY <2>1, <2>2 DEF Flow
<1>10. ASSUME packets # <<>>
       PROVE  /\ packets[1] \in A /\ Tail(packets) \in Seq(A)
              /\ Flow(packets) = Coming(packets, packets[1])
  <2>1. PICK t : t = Tail(packets)
    OBVIOUS
  <2>2. /\ t \in Seq(A) /\ Len(t) = n - 1 /\ \A k \in 1..(n - 1) : t[k] = packets[k + 1]
        /\ n >= 1 /\ packets[1] \in A /\ DOMAIN t = 1..(n - 1)
    BY <1>1, <1>3, <1>10, <2>1
  <2>3. f # <<>> /\ Head(f) = Split(packets[1]) /\ Tail(f) = [k \in 1..(n - 1) |-> f[k + 1]]
    <3>1. f # <<>> /\ 1 \in 1..n
      BY <1>6, <2>2
    <3>2. PICK u : u = [k \in 1..(n - 1) |-> f[k + 1]]
      OBVIOUS
    <3>3. f[1] \in B
      BY <1>4, <1>6, <3>1
    <3>4. Head(f) = f[1] /\ Tail(f) \in Seq(B) /\ Len(Tail(f)) = n - 1
          /\ \A k \in 1..(n - 1) : Tail(f)[k] = f[k + 1]
      BY <1>6, <3>1, <3>3, Ends
    <3>5. PICK g : g = Tail(f)
      OBVIOUS
    <3>8. g \in Seq(B) /\ Len(g) = n - 1 /\ \A k \in 1..(n - 1) : g[k] = f[k + 1]
      BY <3>4, <3>5
    <3>9. g = [k \in 1..(n - 1) |-> g[k]]
      BY <3>8
    <3>6. Tail(f) = u
      BY <3>2, <3>5, <3>8, <3>9
    <3>7. QED
      BY <1>6, <3>1, <3>2, <3>4, <3>6
  <2>4. Tail(f) = [k \in DOMAIN t |-> Split(t[k])]
    <3>0. \A k \in 1..(n - 1) : k + 1 \in 1..n
      BY <1>3
    <3>1. \A k \in 1..(n - 1) : f[k + 1] = Split(t[k])
      BY <1>6, <2>2, <3>0
    <3>2. QED
      BY <2>2, <2>3, <3>1
  <2>5. SX!FlattenSeq(f) = Head(f) \o SX!FlattenSeq(Tail(f))
    BY <1>2, <1>6, <2>3, FlattenCons
  <2>6. QED
    BY <1>7, <2>1, <2>2, <2>3, <2>4, <2>5 DEF Flow, Coming
<1>11. QED
  BY <1>1, <1>8, <1>9, <1>10

\* One element in front of others.
OneMore(s, t) == Len(s) = Len(t) + 1 /\ \A k \in 1..Len(t) : s[k + 1] = t[k]

(***************************************************************************)
(* The first part on its way is the first one to come, and the others the  *)
(* next ones.                                                              *)
(***************************************************************************)
LEMMA BringTail ==
    ASSUME NEW parts \in Seq(PartType), parts # <<>>, NEW coming \in Seq(PartData),
           NEW later \in Seq(PartData), OneMore(coming, later), Bring(parts, coming)
    PROVE  /\ Head(parts).data = coming[1]
           /\ Bring(Tail(parts), later)
           /\ Len(parts) = Len(coming) <=> Len(Tail(parts)) = Len(later)
<1>0. Len(coming) = Len(later) + 1 /\ \A k \in 1..Len(later) : coming[k + 1] = later[k]
  BY DEF OneMore
<1>1. PICK T : T = PartType
  OBVIOUS
<1>2. PICK n \in Nat, m \in Nat : n = Len(parts) /\ m = Len(later) /\ n >= 1 /\ n <= m + 1
  <2>1. Len(parts) \in Nat /\ Len(later) \in Nat /\ Len(parts) >= 1
    OBVIOUS
  <2>2. QED
    BY <1>0, <2>1 DEF Bring
<1>3. PICK t : t = Tail(parts)
  OBVIOUS
<1>4. /\ Head(parts) = parts[1] /\ t \in Seq(T) /\ Len(t) = n - 1
      /\ \A k \in 1..(n - 1) : t[k] = parts[k + 1]
  BY <1>1, <1>2, <1>3
<1>5. \A i \in 1..n : parts[i].data = coming[i]
  BY <1>2 DEF Bring
<1>6. \A i \in 1..(n - 1) : t[i].data = later[i]
  <2>1. \A i \in 1..(n - 1) : i + 1 \in 1..n /\ i \in 1..m
    BY <1>2
  <2>2. QED
    BY <1>0, <1>2, <1>4, <1>5, <2>1
<1>7. Bring(t, later)
  <2>1. Len(t) <= Len(later) /\ \A i \in 1..Len(t) : t[i].data = later[i]
    BY <1>2, <1>4, <1>6
  <2>2. QED
    BY <2>1 DEF Bring
<1>8. Len(parts) = Len(coming) <=> Len(t) = Len(later)
  BY <1>0, <1>2, <1>4
<1>9. QED
  BY <1>2, <1>3, <1>4, <1>5, <1>7, <1>8

(***************************************************************************)
(* One element in front, and another sequence behind.                      *)
(***************************************************************************)
LEMMA ConcatCons ==
    ASSUME NEW S, NEW s \in Seq(S), NEW t \in Seq(S), NEW u \in Seq(S),
           OneMore(s, t)
    PROVE  OneMore(s \o u, t \o u)
<1>8. Len(s) = Len(t) + 1 /\ \A k \in 1..Len(t) : s[k + 1] = t[k]
  BY DEF OneMore
<1>1. PICK m \in Nat : m = Len(t)
  OBVIOUS
<1>2. PICK l \in Nat : l = Len(u)
  OBVIOUS
<1>0. Len(s) = m + 1
  BY <1>1, <1>8
<1>3. /\ s \o u \in Seq(S) /\ Len(s \o u) = m + 1 + l
      /\ \A i \in 1..(m + 1 + l) : (s \o u)[i] = IF i <= m + 1 THEN s[i] ELSE u[i - (m + 1)]
  <2>1. s \o u \in Seq(S) /\ Len(s \o u) = Len(s) + Len(u)
    OBVIOUS
  <2>2. \A i \in 1..(Len(s) + Len(u)) : (s \o u)[i] = IF i <= Len(s) THEN s[i] ELSE u[i - Len(s)]
    OBVIOUS
  <2>3. QED
    BY <1>0, <1>2, <2>1, <2>2
<1>4. /\ t \o u \in Seq(S) /\ Len(t \o u) = m + l
      /\ \A i \in 1..(m + l) : (t \o u)[i] = IF i <= m THEN t[i] ELSE u[i - m]
  BY <1>1, <1>2, Concat
<1>5. ASSUME NEW k \in 1..(m + l)
      PROVE  (s \o u)[k + 1] = (t \o u)[k]
  <2>1. PICK j \in 1..(m + 1 + l) : j = k + 1
    BY <1>1, <1>2
  <2>2. (j <= m + 1 <=> k <= m) /\ j - (m + 1) = k - m /\ (k <= m => k \in 1..m)
    BY <1>1, <2>1
  <2>3. k <= m => s[j] = t[k]
    BY <1>1, <1>8, <2>1, <2>2
  <2>4. QED
    BY <1>3, <1>4, <2>1, <2>2, <2>3
<1>7. QED
  <2>1. Len(s \o u) = Len(t \o u) + 1 /\ \A k \in 1..Len(t \o u) : (s \o u)[k + 1] = (t \o u)[k]
    BY <1>1, <1>2, <1>3, <1>4, <1>5
  <2>2. QED
    BY <2>1 DEF OneMore

(***************************************************************************)
(* A full part leaves the others of its packet to come; a shorter one is   *)
(* the last of it, and the next packet is to come.                         *)
(***************************************************************************)
LEMMA FirstPart ==
    ASSUME NEW packets \in Seq(Seq(Int)), packets # <<>>, NEW rest \in Seq(Int)
    PROVE  /\ Coming(packets, rest) \in Seq(PartData)
           /\ Coming(packets, rest)[1] = Split(rest)[1]
           /\ Len(Split(rest)[1]) = MaxPacket =>
                \E later \in Seq(Int) :
                  /\ Split(rest)[1] \o later = rest
                  /\ Coming(packets, later) \in Seq(PartData)
                  /\ OneMore(Coming(packets, rest), Coming(packets, later))
           /\ Len(Split(rest)[1]) # MaxPacket =>
                /\ Split(rest)[1] = rest
                /\ OneMore(Coming(packets, rest), Flow(Tail(packets)))
<1>1. PICK T : T = PartData
  OBVIOUS
<1>2. PICK flow \in Seq(T) : flow = Flow(Tail(packets))
  BY <1>1, Flows
<1>4. \A p \in Seq(Int) : Split(p) \in Seq(T) /\ Len(Split(p)) \in Nat /\ Len(Split(p)) >= 1
  BY <1>1, SplitType
<1>5. \A p \in Seq(Int) : Coming(packets, p) = Split(p) \o flow
  BY <1>2 DEF Coming
<1>6. PICK s \in Seq(T) : s = Split(rest) /\ Len(s) \in Nat /\ Len(s) >= 1
  BY <1>4
<1>7. Coming(packets, rest) = s \o flow
  BY <1>5, <1>6
<1>8. <<>> \in Seq(T) /\ Len(<<>>) = 0 /\ <<>> \o flow = flow
  OBVIOUS
<1>9. (s \o flow)[1] = s[1]
  BY <1>6
<1>11. CASE Len(rest) >= MaxPacket
  <2>1. PICK later \in Seq(Int) : later = SubSeq(rest, MaxPacket + 1, Len(rest))
    BY <1>11, SplitLong
  <2>2. PICK u \in Seq(T) : u = Split(later)
    BY <1>4
  <2>3. OneMore(s, u) /\ Len(s[1]) = MaxPacket /\ s[1] \o later = rest
    BY <1>6, <1>11, <2>1, <2>2, SplitLong DEF OneMore
  <2>4. Coming(packets, later) = u \o flow
    BY <1>5, <2>2
  <2>7. OneMore(s, u)
    BY <2>3
  <2>8. s \o flow \in Seq(T) /\ u \o flow \in Seq(T)
    OBVIOUS
  <2>5. /\ s \o flow \in Seq(T) /\ u \o flow \in Seq(T) /\ (s \o flow)[1] = s[1]
        /\ OneMore(s \o flow, u \o flow)
    <3>1. OneMore(s \o flow, u \o flow)
      BY <2>7, ConcatCons
    <3>2. QED
      BY <1>9, <2>8, <3>1
  <2>6. QED
    BY <1>1, <1>6, <1>7, <2>3, <2>4, <2>5
<1>12. CASE Len(rest) < MaxPacket
  <2>1. Split(rest) = <<rest>> /\ <<rest>>[1] = rest /\ Len(<<rest>>) = 1
    BY <1>12, SplitShort
  <2>2. s[1] = rest /\ Len(s) = 1 /\ Len(s[1]) # MaxPacket
    BY <1>6, <1>8, <1>12, <2>1, Sizes
  <2>3. OneMore(s, <<>>)
    BY <2>2 DEF OneMore
  <2>5. s \o flow \in Seq(T) /\ (s \o flow)[1] = s[1] /\ OneMore(s \o flow, <<>> \o flow)
    <3>1. OneMore(s \o flow, <<>> \o flow)
      BY <1>8, <2>3, ConcatCons
    <3>2. s \o flow \in Seq(T)
      OBVIOUS
    <3>3. QED
      BY <1>9, <3>1, <3>2
  <2>6. QED
    BY <1>1, <1>2, <1>6, <1>7, <1>8, <2>2, <2>5
<1>13. Len(rest) >= MaxPacket \/ Len(rest) < MaxPacket
  <2>1. Len(rest) \in Nat /\ MaxPacket \in Nat
    BY Sizes
  <2>2. QED
    BY <2>1
<1>14. QED
  BY <1>11, <1>12, <1>13

\* All that is to come is on its way.
Complete(parts, packets, rest) == Len(parts) = Len(Coming(packets, rest))

(***************************************************************************)
(* A full part is read, and the packet goes on.                            *)
(***************************************************************************)
LEMMA ReadFull ==
    ASSUME NEW parts \in Seq(PartType), parts # <<>>, NEW seq, NEW buffer \in Seq(Int),
           NEW packets \in Seq(Seq(Int)), packets # <<>>, NEW rest \in Seq(Int),
           Arriving(parts, seq, buffer, packets, rest), Len(Head(parts).data) = MaxPacket
    PROVE  \E later \in Seq(Int) :
             /\ Arriving(Tail(parts), NextNumber(seq), buffer \o Head(parts).data, packets, later)
             /\ Complete(parts, packets, rest) => Complete(Tail(parts), packets, later)
<1>1. PICK next : InTurn(parts, seq, next)
  BY DEF Arriving
<1>2. buffer \o rest = packets[1] /\ Bring(parts, Coming(packets, rest))
  BY DEF Arriving
<1>3. InTurn(Tail(parts), NextNumber(seq), next)
  BY <1>1, InTurnTail
<1>4. PICK coming \in Seq(PartData) : coming = Coming(packets, rest) /\ coming[1] = Split(rest)[1]
  BY FirstPart
<1>5. PICK data \in Seq(Int) : data = Head(parts).data /\ data = coming[1]
  <2>1. Head(parts).data = coming[1]
    <3>1. Len(parts) >= 1 /\ Head(parts) = parts[1] /\ 1 \in 1..Len(parts)
      BY SeqHead
    <3>2. QED
      BY <1>2, <1>4, <3>1 DEF Bring
  <2>2. Head(parts).data \in Seq(Int)
    <3>1. Head(parts) \in PartType
      BY SeqHead
    <3>2. QED
      BY <3>1 DEF PartType, PartData
  <2>3. QED
    BY <2>1, <2>2
<1>6. PICK later \in Seq(Int) : /\ data \o later = rest
                                /\ Coming(packets, later) \in Seq(PartData)
                                /\ OneMore(coming, Coming(packets, later))
  <2>1. Len(Split(rest)[1]) = MaxPacket
    BY <1>4, <1>5
  <2>2. PICK later \in Seq(Int) : /\ Split(rest)[1] \o later = rest
                                  /\ Coming(packets, later) \in Seq(PartData)
                                  /\ OneMore(Coming(packets, rest), Coming(packets, later))
    BY <2>1, FirstPart
  <2>3. QED
    BY <1>4, <1>5, <2>2
<1>7. (buffer \o data) \o later = packets[1]
  <2>1. (buffer \o data) \o later = buffer \o (data \o later)
    BY ConcatBytes
  <2>2. QED
    BY <1>2, <1>6, <2>1
<1>8. /\ Bring(Tail(parts), Coming(packets, later))
      /\ Len(parts) = Len(coming) <=> Len(Tail(parts)) = Len(Coming(packets, later))
  BY <1>2, <1>4, <1>6, BringTail
<1>9. QED
  BY <1>3, <1>4, <1>5, <1>7, <1>8 DEF Arriving, Complete

(***************************************************************************)
(* The last part of a packet is read: the packet is complete, and the next *)
(* one is to come.                                                         *)
(***************************************************************************)
LEMMA ReadShort ==
    ASSUME NEW parts \in Seq(PartType), parts # <<>>, NEW seq, NEW buffer \in Seq(Int),
           NEW packets \in Seq(Seq(Int)), packets # <<>>, NEW rest \in Seq(Int),
           Arriving(parts, seq, buffer, packets, rest), Len(Head(parts).data) # MaxPacket
    PROVE  /\ buffer \o Head(parts).data = packets[1]
           /\ \E next : InTurn(Tail(parts), NextNumber(seq), next)
           /\ Tail(packets) = <<>> => Tail(parts) = <<>>
           /\ Tail(packets) # <<>> =>
                /\ Tail(packets)[1] \in Seq(Int)
                /\ Arriving(Tail(parts), NextNumber(seq), <<>>, Tail(packets), Tail(packets)[1])
                /\ Complete(parts, packets, rest) =>
                     Complete(Tail(parts), Tail(packets), Tail(packets)[1])
<1>1. PICK next : InTurn(parts, seq, next)
  BY DEF Arriving
<1>2. buffer \o rest = packets[1] /\ Bring(parts, Coming(packets, rest))
  BY DEF Arriving
<1>3. InTurn(Tail(parts), NextNumber(seq), next) /\ Tail(parts) \in Seq(PartType)
  BY <1>1, InTurnTail
<1>4. PICK coming \in Seq(PartData) : coming = Coming(packets, rest) /\ coming[1] = Split(rest)[1]
  BY FirstPart
<1>5. Head(parts).data = coming[1]
  <2>1. Len(parts) >= 1 /\ Head(parts) = parts[1] /\ 1 \in 1..Len(parts)
    BY SeqHead
  <2>2. QED
    BY <1>2, <1>4, <2>1 DEF Bring
<1>6. Head(parts).data = rest /\ OneMore(coming, Flow(Tail(packets)))
  BY <1>4, <1>5, FirstPart
<1>7. PICK others \in Seq(Seq(Int)) : others = Tail(packets)
  BY Flows
<1>8. Flow(others) \in Seq(PartData)
  BY Flows
<1>9. /\ Bring(Tail(parts), Flow(others))
      /\ Len(parts) = Len(coming) <=> Len(Tail(parts)) = Len(Flow(others))
  BY <1>2, <1>4, <1>6, <1>7, <1>8, BringTail
<1>10. ASSUME others = <<>>
       PROVE  Tail(parts) = <<>>
  <2>1. Len(Flow(others)) = 0
    BY <1>10, Flows
  <2>2. PICK t \in Seq(PartType) : t = Tail(parts)
    BY <1>3
  <2>3. Len(t) <= 0
    BY <1>9, <2>1, <2>2 DEF Bring
  <2>4. t = <<>>
    BY <2>3
  <2>5. QED
    BY <2>2, <2>4
<1>11. ASSUME others # <<>>
       PROVE  /\ others[1] \in Seq(Int)
              /\ Arriving(Tail(parts), NextNumber(seq), <<>>, others, others[1])
              /\ Complete(parts, packets, rest) => Complete(Tail(parts), others, others[1])
  <2>1. others[1] \in Seq(Int) /\ Flow(others) = Coming(others, others[1])
    BY <1>11, Flows
  <2>2. <<>> \o others[1] = others[1]
    BY <2>1
  <2>3. QED
    BY <1>3, <1>4, <1>9, <2>1, <2>2 DEF Arriving, Complete
<1>12. QED
  BY <1>2, <1>3, <1>6, <1>7, <1>10, <1>11

-----------------------------------------------------------------------------
(* A command on its way.                                                   *)

\* buffer has been received of the command, and rest of it has not.
Leaving(parts, first, next, buffer, command, rest) ==
    /\ buffer \o rest = command
    /\ InTurn(parts, first, next)
    /\ Bring(parts, Split(rest))

\* What is on its way is followed by what is left.
Left(parts, rest, left) ==
    /\ Len(Split(rest)) = Len(parts) + Len(Split(left))
    /\ \A i \in 1..Len(Split(left)) : Split(rest)[Len(parts) + i] = Split(left)[i]

\* All of it is on its way.
Sent(parts, rest) == Len(Split(rest)) = Len(parts)

(***************************************************************************)
(* The first part of a payload.                                            *)
(***************************************************************************)
LEMMA SplitFirst ==
    ASSUME NEW rest \in Seq(Int)
    PROVE  /\ Len(Split(rest)[1]) = MaxPacket =>
                /\ Len(rest) >= MaxPacket
                /\ \E later \in Seq(Int) :
                     Split(rest)[1] \o later = rest /\ OneMore(Split(rest), Split(later))
           /\ Len(Split(rest)[1]) # MaxPacket =>
                Split(rest)[1] = rest /\ Len(Split(rest)) = 1
<1>1. Len(rest) \in Nat /\ MaxPacket \in Nat
  BY Sizes
<1>2. CASE Len(rest) >= MaxPacket
  <2>1. PICK later \in Seq(Int) : later = SubSeq(rest, MaxPacket + 1, Len(rest))
    BY <1>2, SplitLong
  <2>2. /\ OneMore(Split(rest), Split(later)) /\ Len(Split(rest)[1]) = MaxPacket
        /\ Split(rest)[1] \o later = rest
    BY <1>2, <2>1, SplitLong DEF OneMore
  <2>3. QED
    BY <1>2, <2>2
<1>3. CASE Len(rest) < MaxPacket
  <2>1. Split(rest) = <<rest>> /\ <<rest>>[1] = rest /\ Len(<<rest>>) = 1
    BY <1>3, SplitShort
  <2>2. Split(rest)[1] = rest /\ Len(Split(rest)) = 1 /\ Len(rest) # MaxPacket
    BY <1>1, <1>3, <2>1
  <2>3. QED
    BY <2>2
<1>4. QED
  BY <1>1, <1>2, <1>3

(***************************************************************************)
(* A full part is received, and the command goes on.                       *)
(***************************************************************************)
LEMMA ReceiveFull ==
    ASSUME NEW parts \in Seq(PartType), parts # <<>>, NEW first, NEW next,
           NEW buffer \in Seq(Int), NEW command, NEW rest \in Seq(Int),
           Leaving(parts, first, next, buffer, command, rest),
           Len(Head(parts).data) = MaxPacket
    PROVE  \E later \in Seq(Int) :
             /\ Leaving(Tail(parts), NextNumber(first), next, buffer \o Head(parts).data,
                        command, later)
             /\ Sent(parts, rest) => Sent(Tail(parts), later)
             /\ \A left \in Seq(Int) : Left(parts, rest, left) => Left(Tail(parts), later, left)
<1>1. /\ buffer \o rest = command /\ InTurn(parts, first, next) /\ Bring(parts, Split(rest))
  BY DEF Leaving
<1>2. PICK t \in Seq(PartType) : t = Tail(parts) /\ InTurn(t, NextNumber(first), next)
  BY <1>1, InTurnTail
<1>3. PICK coming \in Seq(PartData) : coming = Split(rest)
  BY SplitType
<1>4. PICK data \in Seq(Int) : data = Head(parts).data /\ data = coming[1]
  <2>1. Head(parts).data = coming[1]
    <3>1. Len(parts) >= 1 /\ Head(parts) = parts[1] /\ 1 \in 1..Len(parts)
      BY SeqHead
    <3>2. QED
      BY <1>1, <1>3, <3>1 DEF Bring
  <2>2. Head(parts).data \in Seq(Int)
    <3>1. Head(parts) \in PartType
      BY SeqHead
    <3>2. QED
      BY <3>1 DEF PartType, PartData
  <2>3. QED
    BY <2>1, <2>2
<1>5. PICK later \in Seq(Int) : data \o later = rest /\ OneMore(coming, Split(later))
  <2>1. Len(Split(rest)[1]) = MaxPacket
    BY <1>3, <1>4
  <2>2. PICK later \in Seq(Int) : Split(rest)[1] \o later = rest
                                  /\ OneMore(Split(rest), Split(later))
    BY <2>1, SplitFirst
  <2>3. QED
    BY <1>3, <1>4, <2>2
<1>6. (buffer \o data) \o later = command
  <2>1. (buffer \o data) \o later = buffer \o (data \o later)
    BY ConcatBytes
  <2>2. QED
    BY <1>1, <1>5, <2>1
<1>7. PICK others \in Seq(PartData) : others = Split(later)
  BY SplitType
<1>8. /\ Bring(t, others)
      /\ Len(parts) = Len(coming) <=> Len(t) = Len(others)
  BY <1>1, <1>2, <1>3, <1>5, <1>7, BringTail
<1>9. Leaving(t, NextNumber(first), next, buffer \o data, command, later)
  BY <1>2, <1>6, <1>7, <1>8 DEF Leaving
<1>10. ASSUME NEW left \in Seq(Int), Left(parts, rest, left)
       PROVE  Left(t, later, left)
  <2>1. PICK u \in Seq(PartData) : u = Split(left)
    BY SplitType
  <2>2. /\ Len(coming) = Len(parts) + Len(u)
        /\ \A i \in 1..Len(u) : coming[Len(parts) + i] = u[i]
    BY <1>3, <1>10, <2>1 DEF Left
  <2>3. Len(coming) = Len(others) + 1 /\ \A k \in 1..Len(others) : coming[k + 1] = others[k]
    BY <1>5, <1>7 DEF OneMore
  <2>4. Len(t) = Len(parts) - 1 /\ Len(parts) \in Nat /\ Len(t) \in Nat /\ Len(u) \in Nat /\ Len(others) \in Nat
    BY <1>2
  <2>8. PICK n \in Nat, m \in Nat, j \in Nat, c \in Nat :
             n = Len(parts) /\ m = Len(u) /\ j = Len(others) /\ Len(t) = n - 1 /\ c = Len(coming)
    BY <2>4
  <2>9. c = n + m /\ c = j + 1
    BY <2>2, <2>3, <2>8
  <2>10. j = (n - 1) + m
    BY <2>9
  <2>5. Len(others) = Len(t) + Len(u)
    BY <2>8, <2>10
  <2>6. ASSUME NEW i \in 1..Len(u)
        PROVE  others[Len(t) + i] = u[i]
    <3>1. PICK k \in 1..Len(others) : k = Len(t) + i /\ k + 1 = Len(parts) + i
      <4>1. \A a \in 1..m : (n - 1) + a \in 1..j /\ ((n - 1) + a) + 1 = n + a
        <5>1. n >= 1
          BY <2>4, <2>8
        <5>2. QED
          BY <2>10, <5>1
      <4>2. QED
        BY <2>8, <4>1
    <3>2. others[k] = coming[k + 1]
      BY <2>3
    <3>3. QED
      BY <2>2, <3>1, <3>2
  <2>7. QED
    BY <1>7, <2>1, <2>5, <2>6 DEF Left
<1>11. Sent(parts, rest) => Sent(t, later)
  BY <1>3, <1>7, <1>8 DEF Sent
<1>12. QED
  BY <1>2, <1>4, <1>9, <1>10, <1>11

(***************************************************************************)
(* The last part of a command is received: the command is complete, and    *)
(* nothing of it is left to send.                                          *)
(***************************************************************************)
LEMMA ReceiveShort ==
    ASSUME NEW parts \in Seq(PartType), parts # <<>>, NEW first, NEW next,
           NEW buffer \in Seq(Int), NEW command, NEW rest \in Seq(Int),
           Leaving(parts, first, next, buffer, command, rest),
           Len(Head(parts).data) # MaxPacket
    PROVE  /\ buffer \o Head(parts).data = command
           /\ Tail(parts) = <<>>
           /\ next = NextNumber(first)
           /\ \A left \in Seq(Int) : ~Left(parts, rest, left)
<1>1. /\ buffer \o rest = command /\ InTurn(parts, first, next) /\ Bring(parts, Split(rest))
  BY DEF Leaving
<1>2. PICK t \in Seq(PartType) : t = Tail(parts) /\ InTurn(t, NextNumber(first), next)
  BY <1>1, InTurnTail
<1>3. Head(parts).data = Split(rest)[1]
  <2>1. Len(parts) >= 1 /\ Head(parts) = parts[1] /\ 1 \in 1..Len(parts)
    BY SeqHead
  <2>2. QED
    BY <1>1, <2>1 DEF Bring
<1>4. Split(rest)[1] = rest /\ Len(Split(rest)) = 1
  BY <1>3, SplitFirst
<1>5. Len(parts) = 1
  <2>1. Len(parts) <= Len(Split(rest)) /\ Len(parts) \in Nat /\ Len(parts) >= 1
    BY <1>1, SeqHead DEF Bring
  <2>2. PICK n \in Nat : n = Len(parts) /\ n >= 1 /\ n <= 1
    BY <1>4, <2>1
  <2>3. n = 1
    BY <2>2
  <2>4. QED
    BY <2>2, <2>3
<1>6. t = <<>>
  <2>1. Len(t) = 0
    BY <1>2, <1>5
  <2>2. QED
    BY <2>1
<1>7. next = NextNumber(first)
  BY <1>2, <1>6, InTurnNone
<1>8. ASSUME NEW left \in Seq(Int), Left(parts, rest, left)
      PROVE  FALSE
  <2>1. Len(Split(left)) \in Nat /\ Len(Split(left)) >= 1
    BY SplitType
  <2>2. Len(Split(rest)) = Len(parts) + Len(Split(left))
    BY <1>8 DEF Left
  <2>3. PICK n \in Nat : n = Len(Split(left)) /\ n >= 1 /\ 1 = 1 + n
    BY <1>4, <1>5, <2>1, <2>2
  <2>4. QED
    BY <2>3
<1>9. QED
  BY <1>1, <1>2, <1>3, <1>4, <1>6, <1>7, <1>8

\* The next part of what is left, and what is left after it.
Cut(left, data, after) ==
    LET size == MinOf(MaxPacket, Len(left))
    IN  data = SubSeq(left, 1, size) /\ after = SubSeq(left, size + 1, Len(left))

\* That part on its way.
Sends(parts, next, data, sent) == sent = Append(parts, Part(next, data))

(***************************************************************************)
(* A part is sent, and the rest is left.                                   *)
(***************************************************************************)
LEMMA SendsPart ==
    ASSUME NEW parts \in Seq(PartType), NEW first, NEW next \in 0..(SeqMod - 1),
           NEW buffer \in Seq(Int), NEW command, NEW rest \in Seq(Int), NEW left \in Seq(Int),
           Leaving(parts, first, next, buffer, command, rest), Left(parts, rest, left),
           NEW data, NEW after, Cut(left, data, after),
           NEW sent, Sends(parts, next, data, sent)
    PROVE  /\ data \in PartData /\ after \in Seq(Int) /\ sent \in Seq(PartType)
           /\ Leaving(sent, first, NextNumber(next), buffer, command, rest)
           /\ ~LastPart(data, after) => Left(sent, rest, after)
           /\ LastPart(data, after) => Sent(sent, rest)
<1>15. PICK size : size = MinOf(MaxPacket, Len(left))
  OBVIOUS
<1>16. /\ data = SubSeq(left, 1, size) /\ after = SubSeq(left, size + 1, Len(left))
       /\ sent = Append(parts, Part(next, data))
  BY <1>15 DEF Cut, Sends
<1>1. buffer \o rest = command /\ InTurn(parts, first, next) /\ Bring(parts, Split(rest))
  BY DEF Leaving
<1>2. PICK s \in Seq(PartData) : s = Split(left) /\ Len(s) >= 1
  BY SplitType
<1>3. PICK c \in Seq(PartData) : c = Split(rest)
  BY SplitType
<1>4. PICK n \in Nat, m \in Nat : n = Len(parts) /\ m = Len(s) /\ m >= 1 /\ Len(c) = n + m
  BY <1>2, <1>3 DEF Left
<1>5. \A i \in 1..m : c[n + i] = s[i]
  BY <1>2, <1>3, <1>4 DEF Left
<1>6. /\ data = s[1] /\ after \in Seq(Int)
      /\ LastPart(data, after) => m = 1
      /\ ~LastPart(data, after) => OneMore(s, Split(after))
  <2>1. CASE Len(left) >= MaxPacket
    <3>1. size = MaxPacket
      BY <1>15, <2>1, Sizes DEF MinOf
    <3>2. /\ data = s[1] /\ after \in Seq(Int) /\ Len(data) = MaxPacket
          /\ OneMore(s, Split(after))
      BY <1>2, <1>16, <2>1, <3>1, SplitLong DEF OneMore
    <3>3. ~LastPart(data, after)
      <4>1. ~(MaxPacket < MaxPacket)
        BY Sizes
      <4>2. ~(Len(data) < MaxPacket)
        BY <3>2, <4>1
      <4>3. QED
        BY <4>2 DEF LastPart
    <3>4. QED
      BY <3>2, <3>3
  <2>2. CASE Len(left) < MaxPacket
    <3>1. size = Len(left)
      BY <1>15, <2>2, Sizes DEF MinOf
    <3>2. data = left /\ after = <<>>
      BY <1>16, <3>1
    <3>3. Split(left) = <<left>> /\ <<left>>[1] = left /\ Len(<<left>>) = 1
      BY <2>2, SplitShort
    <3>4. LastPart(data, after)
      BY <2>2, <3>2 DEF LastPart
    <3>5. data = s[1] /\ m = 1 /\ <<>> \in Seq(Int)
      BY <1>2, <1>4, <3>2, <3>3
    <3>6. QED
      BY <3>2, <3>4, <3>5
  <2>3. Len(left) >= MaxPacket \/ Len(left) < MaxPacket
    <3>1. Len(left) \in Nat /\ MaxPacket \in Nat
      BY Sizes
    <3>2. QED
      BY <3>1
  <2>4. QED
    BY <2>1, <2>2, <2>3
<1>7. data \in PartData
  <2>1. s[1] \in PartData
    <3>1. PICK T : T = PartData
      OBVIOUS
    <3>2. s \in Seq(T) /\ Len(s) >= 1
      BY <1>2, <3>1
    <3>3. s[1] \in T
      BY <3>2
    <3>4. QED
      BY <3>1, <3>3
  <2>2. QED
    BY <1>6, <2>1
<1>8. sent \in Seq(PartType) /\ InTurn(sent, first, NextNumber(next))
  BY <1>1, <1>7, <1>16, InTurnAppend
<1>9. /\ Len(sent) = n + 1 /\ sent[n + 1].data = data
      /\ \A i \in 1..n : sent[i] = parts[i]
  <2>1. PICK T, x : T = PartType /\ x = Part(next, data)
    OBVIOUS
  <2>2. parts \in Seq(T) /\ x.data = data
    BY <2>1 DEF Part
  <2>3. Len(sent) = n + 1 /\ sent[n + 1] = x /\ \A i \in 1..n : sent[i] = parts[i]
    BY <1>4, <1>16, <2>1, <2>2
  <2>4. QED
    BY <2>2, <2>3
<1>10. c[n + 1] = data
  <2>1. 1 \in 1..m
    BY <1>4
  <2>2. QED
    BY <1>5, <1>6, <2>1
<1>11. Bring(sent, c)
  <2>1. \A i \in 1..n : parts[i].data = c[i]
    BY <1>1, <1>3, <1>4 DEF Bring
  <2>2. \A i \in 1..(n + 1) : sent[i].data = c[i]
    <3>1. \A i \in 1..(n + 1) : i = n + 1 \/ i \in 1..n
      BY <1>4
    <3>2. QED
      BY <1>9, <1>10, <2>1, <3>1
  <2>3. Len(sent) <= Len(c)
    BY <1>4, <1>9
  <2>4. QED
    BY <1>9, <2>2, <2>3 DEF Bring
<1>12. Leaving(sent, first, NextNumber(next), buffer, command, rest)
  BY <1>1, <1>3, <1>8, <1>11 DEF Leaving
<1>13. ASSUME LastPart(data, after)
       PROVE  Sent(sent, rest)
  BY <1>3, <1>4, <1>6, <1>9, <1>13 DEF Sent
<1>14. ASSUME ~LastPart(data, after)
       PROVE  Left(sent, rest, after)
  <2>1. PICK a \in Seq(PartData) : a = Split(after)
    BY <1>6, SplitType
  <2>2. PICK j \in Nat : j = Len(a)
    OBVIOUS
  <2>3. m = j + 1 /\ \A k \in 1..j : s[k + 1] = a[k]
    BY <1>4, <1>6, <1>14, <2>1, <2>2 DEF OneMore
  <2>7. m = j + 1 /\ Len(c) = n + m
    BY <1>4, <2>3
  <2>4. Len(c) = (n + 1) + j
    BY <2>7
  <2>5. ASSUME NEW k \in 1..j
        PROVE  c[(n + 1) + k] = a[k]
    <3>1. PICK i \in 1..m : i = k + 1 /\ n + i = (n + 1) + k
      BY <1>4, <2>3
    <3>2. c[n + i] = a[k]
      BY <1>5, <2>3, <3>1
    <3>3. QED
      BY <3>1, <3>2
  <2>6. QED
    BY <1>3, <1>9, <2>1, <2>2, <2>4, <2>5 DEF Left
<1>17. QED
  BY <1>6, <1>7, <1>8, <1>12, <1>13, <1>14

(***************************************************************************)
(* A command begins: none of it is on its way, and all of it is left.      *)
(***************************************************************************)
LEMMA BeginsLeaving ==
    ASSUME NEW command \in Seq(Int), NEW n
    PROVE  Leaving(<<>>, n, n, <<>>, command, command) /\ Left(<<>>, command, command)
<1>1. <<>> \o command = command /\ Len(<<>>) = 0
  OBVIOUS
<1>2. Len(Split(command)) \in Nat
  BY SplitType
<1>3. Bring(<<>>, Split(command))
  BY <1>1, <1>2 DEF Bring
<1>4. Left(<<>>, command, command)
  BY <1>1, <1>2 DEF Left
<1>5. QED
  BY <1>1, <1>3, <1>4, InTurnNone DEF Leaving

-----------------------------------------------------------------------------
(* Packets of every kind.                                                  *)

(***************************************************************************)
(* What is put in front of something is what it starts with.               *)
(***************************************************************************)
Joined(s, r) == s \o r

(***************************************************************************)
(* What is put together starts as its first sequence does.                 *)
(***************************************************************************)
LEMMA StartsWith ==
    ASSUME NEW S, NEW s \in Seq(S), NEW r \in Seq(S), Len(s) >= 1
    PROVE  /\ Joined(s, r) \in Seq(S) /\ Len(Joined(s, r)) >= Len(s)
           /\ Joined(s, r)[1] = s[1]
           /\ Len(s) >= 3 => Joined(s, r)[2] = s[2] /\ Joined(s, r)[3] = s[3]
BY DEF Joined

(***************************************************************************)
(* So do bytes.                                                            *)
(***************************************************************************)
LEMMA BytesStartWith ==
    ASSUME NEW s \in Seq(Int), NEW r \in Seq(Int), Len(s) >= 1
    PROVE  /\ Joined(s, r) \in Seq(Int) /\ Len(Joined(s, r)) >= Len(s)
           /\ Joined(s, r)[1] = s[1]
           /\ Len(s) >= 3 => Joined(s, r)[2] = s[2] /\ Joined(s, r)[3] = s[3]
<1>1. PICK A : A = Int
  OBVIOUS
<1>2. s \in Seq(A) /\ r \in Seq(A)
  BY <1>1
<1>3. Joined(s, r) \in Seq(A) /\ Len(Joined(s, r)) >= Len(s) /\ Joined(s, r)[1] = s[1]
  BY <1>2, StartsWith
<1>4. Len(s) >= 3 => Joined(s, r)[2] = s[2] /\ Joined(s, r)[3] = s[3]
  BY <1>2, StartsWith
<1>5. QED
  BY <1>1, <1>3, <1>4

(***************************************************************************)
(* The bytes a number is written with, and that they are.                  *)
(***************************************************************************)
Written(s, n) ==
    \/ n < 251 /\ s[1] = n /\ Len(s) = 1
    \/ s[1] = 252 /\ Len(s) = 3 /\ s[2] = n /\ s[3] = 0
    \/ s[1] = 253 /\ Len(s) = 4 /\ s[2] = n /\ s[3] = 0
    \/ s[1] = 254 /\ Len(s) = 9 /\ s[2] = n /\ s[3] = 0

(***************************************************************************)
(* A small number is a byte; a larger one is a byte that says how many     *)
(* follow, and these.                                                      *)
(***************************************************************************)
LEMMA NumberWritten ==
    ASSUME NEW n \in Nat
    PROVE  LenencInt(n) \in Seq(Int) /\ Written(LenencInt(n), n)
<1>1. ByteMax \in Nat /\ ByteMax <= 251 /\ ShortMax \in Nat /\ Int24Max \in Nat
  BY DataAssumption DEF DataAssumption
<1>2. CASE n < ByteMax
  <2>1. LenencInt(n) = <<n>> /\ n < 251
    BY <1>1, <1>2 DEF LenencInt
  <2>2. PICK s : s = <<n>>
    OBVIOUS
  <2>3. s \in Seq(Int) /\ Len(s) = 1 /\ s[1] = n
    BY <2>2
  <2>4. Written(s, n)
    BY <2>1, <2>3 DEF Written
  <2>5. QED
    BY <2>1, <2>2, <2>3, <2>4
<1>3. CASE ~(n < ByteMax) /\ n < ShortMax
  <2>1. LenencInt(n) = <<252, n, 0>>
    BY <1>3 DEF LenencInt
  <2>2. PICK s : s = <<252, n, 0>>
    OBVIOUS
  <2>3. s \in Seq(Int) /\ Len(s) = 3 /\ s[1] = 252 /\ s[2] = n /\ s[3] = 0
    BY <2>2
  <2>4. Written(s, n)
    BY <2>3 DEF Written
  <2>5. QED
    BY <2>1, <2>2, <2>3, <2>4
<1>4. CASE ~(n < ByteMax) /\ ~(n < ShortMax) /\ n < Int24Max
  <2>1. LenencInt(n) = <<253, n, 0, 0>>
    BY <1>4 DEF LenencInt
  <2>2. PICK s : s = <<253, n, 0, 0>>
    OBVIOUS
  <2>3. s \in Seq(Int) /\ Len(s) = 4 /\ s[1] = 253 /\ s[2] = n /\ s[3] = 0
    BY <2>2
  <2>4. Written(s, n)
    BY <2>3 DEF Written
  <2>5. QED
    BY <2>1, <2>2, <2>3, <2>4
<1>5. CASE ~(n < ByteMax) /\ ~(n < ShortMax) /\ ~(n < Int24Max)
  <2>1. LenencInt(n) = <<254, n, 0, 0, 0, 0, 0, 0, 0>>
    BY <1>5 DEF LenencInt
  <2>2. PICK s : s = <<254, n, 0, 0, 0, 0, 0, 0, 0>>
    OBVIOUS
  <2>3. s \in Seq(Int) /\ Len(s) = 9 /\ s[1] = 254 /\ s[2] = n /\ s[3] = 0
    BY <2>2
  <2>4. Written(s, n)
    BY <2>3 DEF Written
  <2>5. QED
    BY <2>1, <2>2, <2>3, <2>4
<1>6. QED
  BY <1>2, <1>3, <1>4, <1>5

(***************************************************************************)
(* A number is read as it was written, whatever follows it.  Its first     *)
(* byte is that of no error, and that of an EOF only in a long packet.     *)
(***************************************************************************)
LEMMA LengthsComeBack ==
    ASSUME NEW n \in Nat, NEW r \in Seq(Int)
    PROVE  /\ LenencInt(n) \in Seq(Int) /\ Len(LenencInt(n)) >= 1
           /\ Joined(LenencInt(n), r) \in Seq(Int)
           /\ LengthEncoded(Joined(LenencInt(n), r)) = [n |-> n, size |-> Len(LenencInt(n))]
           /\ ~IsErrorPacket(Joined(LenencInt(n), r)) /\ ~IsEofPacket(Joined(LenencInt(n), r))
<1>1. PICK s : s = LenencInt(n)
  OBVIOUS
<1>2. s \in Seq(Int) /\ Written(s, n)
  BY <1>1, NumberWritten
<1>3. Len(s) >= 1
  BY <1>2 DEF Written
<1>4. PICK p : p = Joined(s, r)
  OBVIOUS
<1>5. p \in Seq(Int) /\ Len(p) >= Len(s) /\ p[1] = s[1]
  BY <1>2, <1>3, <1>4, BytesStartWith
<1>6. Len(s) >= 3 => p[2] = s[2] /\ p[3] = s[3]
  BY <1>2, <1>3, <1>4, BytesStartWith
<1>7. LengthEncoded(p) = [n |-> n, size |-> Len(s)] /\ ~IsErrorPacket(p) /\ ~IsEofPacket(p)
  <2>1. CASE n < 251 /\ s[1] = n /\ Len(s) = 1
    <3>1. p[1] = n /\ n # 251 /\ n # 255 /\ n # 254 /\ n < 251
      BY <1>5, <2>1
    <3>2. QED
      BY <2>1, <3>1 DEF LengthEncoded, IsErrorPacket, IsEofPacket
  <2>2. CASE s[1] = 252 /\ Len(s) = 3 /\ s[2] = n /\ s[3] = 0
    <3>1. p[1] = 252 /\ p[2] = n /\ p[3] = 0
      BY <1>5, <1>6, <2>2
    <3>2. QED
      BY <2>2, <3>1 DEF LengthEncoded, IsErrorPacket, IsEofPacket
  <2>3. CASE s[1] = 253 /\ Len(s) = 4 /\ s[2] = n /\ s[3] = 0
    <3>1. p[1] = 253 /\ p[2] = n /\ p[3] = 0
      BY <1>5, <1>6, <2>3
    <3>2. QED
      BY <2>3, <3>1 DEF LengthEncoded, IsErrorPacket, IsEofPacket
  <2>4. CASE s[1] = 254 /\ Len(s) = 9 /\ s[2] = n /\ s[3] = 0
    <3>1. p[1] = 254 /\ p[2] = n /\ p[3] = 0 /\ Len(p) >= 9
      BY <1>5, <1>6, <2>4
    <3>2. QED
      BY <2>4, <3>1 DEF LengthEncoded, IsErrorPacket, IsEofPacket
  <2>5. QED
    BY <1>2, <2>1, <2>2, <2>3, <2>4 DEF Written
<1>8. QED
  BY <1>1, <1>2, <1>3, <1>4, <1>5, <1>7

(***************************************************************************)
(* So is NULL.                                                             *)
(***************************************************************************)
LEMMA NullComesBack ==
    ASSUME NEW r \in Seq(Int)
    PROVE  /\ <<251>> \in Seq(Int) /\ Len(<<251>>) = 1
           /\ Joined(<<251>>, r) \in Seq(Int)
           /\ LengthEncoded(Joined(<<251>>, r)) = [n |-> Null, size |-> 1]
           /\ ~IsErrorPacket(Joined(<<251>>, r)) /\ ~IsEofPacket(Joined(<<251>>, r))
<1>1. PICK s : s = <<251>>
  OBVIOUS
<1>2. s \in Seq(Int) /\ Len(s) = 1 /\ s[1] = 251
  BY <1>1
<1>3. PICK p : p = Joined(s, r)
  OBVIOUS
<1>4. p \in Seq(Int) /\ p[1] = s[1]
  <2>1. s \in Seq(Int)
    BY <1>2
  <2>2. Len(s) >= 1
    BY <1>2
  <2>3. QED
    BY <1>3, <2>1, <2>2, BytesStartWith
<1>5. LengthEncoded(p) = [n |-> Null, size |-> 1] /\ ~IsErrorPacket(p) /\ ~IsEofPacket(p)
  BY <1>2, <1>4 DEF LengthEncoded, IsErrorPacket, IsEofPacket
<1>6. QED
  BY <1>1, <1>2, <1>3, <1>4, <1>5

(***************************************************************************)
(* The other packets.                                                      *)
(***************************************************************************)
LEMMA PacketKinds ==
    /\ ErrPacket \in Seq(Int) /\ IsErrorPacket(ErrPacket) /\ ~IsOkPacket(ErrPacket)
    /\ ~IsEofPacket(ErrPacket)
    /\ EofPacket \in Seq(Int) /\ IsEofPacket(EofPacket) /\ ~IsErrorPacket(EofPacket)
    /\ FieldPacket \in Seq(Int) /\ ~IsErrorPacket(FieldPacket)
    /\ \A n \in Nat : /\ OkPacket(n) \in Seq(Int) /\ ~IsErrorPacket(OkPacket(n))
                      /\ OkPacket(n)[2] = n
<1>3. ErrPacket \in Seq(Int) /\ ErrPacket[1] = 255
  BY DEF ErrPacket
<1>4. EofPacket \in Seq(Int) /\ EofPacket[1] = 254 /\ Len(EofPacket) = 5
  BY DEF EofPacket
<1>5. FieldPacket \in Seq(Int) /\ FieldPacket[1] = 3
  BY DEF FieldPacket
<1>6. ASSUME NEW n \in Nat
      PROVE  OkPacket(n) \in Seq(Int) /\ OkPacket(n)[1] = 0 /\ OkPacket(n)[2] = n
  BY DEF OkPacket
<1>7. IsErrorPacket(ErrPacket) /\ ~IsOkPacket(ErrPacket) /\ ~IsEofPacket(ErrPacket)
  BY <1>3 DEF IsErrorPacket, IsOkPacket, IsEofPacket
<1>8. IsEofPacket(EofPacket) /\ ~IsErrorPacket(EofPacket)
  BY <1>4 DEF IsErrorPacket, IsEofPacket
<1>9. ~IsErrorPacket(FieldPacket)
  BY <1>5 DEF IsErrorPacket
<1>10. \A n \in Nat : ~IsErrorPacket(OkPacket(n))
  BY <1>6 DEF IsErrorPacket
<1>11. QED
  BY <1>3, <1>4, <1>5, <1>6, <1>7, <1>8, <1>9, <1>10

-----------------------------------------------------------------------------
(* Rows.                                                                   *)

\* The rows the call was given are those of its kind.
Given ==
    /\ cl.col \in {"text", "binary", "json", "time"}
    /\ cl.args \in IF cl.col = "time" THEN TimeArgs ELSE TextArgs

(***************************************************************************)
(* What each of them is.                                                   *)
(***************************************************************************)
LEMMA GivenRows ==
    ASSUME Given
    PROVE  /\ Len(cl.args) \in Nat /\ Len(cl.args) >= 1 /\ DOMAIN cl.args = 1..Len(cl.args)
           /\ \A i \in 1..Len(cl.args) :
                /\ i \in Nat /\ i > 0
                /\ cl.col = "time" => cl.args[i] \in [s : Int, f : 0..(Micro - 1)]
                /\ cl.col # "time" => cl.args[i] \in Nat \cup {Null}
<1>1. CASE cl.col = "time"
  <2>1. cl.args \in Seq([s : Int, f : 0..(Micro - 1)]) /\ cl.args # <<>>
    BY <1>1, DataAssumption DEF DataAssumption, Given
  <2>2. PICK A : A = [s : Int, f : 0..(Micro - 1)]
    OBVIOUS
  <2>3. cl.args \in Seq(A) /\ cl.args # <<>>
    BY <2>1, <2>2
  <2>4. /\ Len(cl.args) \in Nat /\ Len(cl.args) >= 1 /\ DOMAIN cl.args = 1..Len(cl.args)
        /\ \A i \in 1..Len(cl.args) : i \in Nat /\ i > 0 /\ cl.args[i] \in A
    BY <2>3
  <2>5. QED
    BY <1>1, <2>1, <2>2, <2>4
<1>2. CASE cl.col # "time"
  <2>1. cl.args \in Seq(Nat \cup {Null}) /\ cl.args # <<>>
    BY <1>2, DataAssumption DEF DataAssumption, Given
  <2>2. PICK A : A = Nat \cup {Null}
    OBVIOUS
  <2>3. cl.args \in Seq(A) /\ cl.args # <<>>
    BY <2>1, <2>2
  <2>4. /\ Len(cl.args) \in Nat /\ Len(cl.args) >= 1 /\ DOMAIN cl.args = 1..Len(cl.args)
        /\ \A i \in 1..Len(cl.args) : i \in Nat /\ i > 0 /\ cl.args[i] \in A
    BY <2>3
  <2>5. QED
    BY <1>2, <2>2, <2>4
<1>3. QED
  BY <1>1, <1>2

(***************************************************************************)
(* What the second of two sequences begins with.                           *)
(***************************************************************************)
LEMMA SecondHalf ==
    ASSUME NEW S, NEW s \in Seq(S), NEW t \in Seq(S), NEW n \in 0..Len(t)
    PROVE  SubSeq(s \o t, Len(s) + 1, Len(s) + n) = SubSeq(t, 1, n)
OBVIOUS

\* What the client makes of the first value of a packet, and what is left.
ReadValue(p) ==
    LET l == LengthEncoded(p)
        n == IF l.n = Null THEN 0 ELSE l.n
    IN  [value |-> IF l.n = Null THEN NullValue
                   ELSE Converted(SubSeq(p, l.size + 1, l.size + n)),
         rest |-> SubSeq(p, l.size + n + 1, Len(p))]

(***************************************************************************)
(* Letters after their number are found again.                             *)
(***************************************************************************)
LEMMA LettersComeBack ==
    ASSUME NEW i \in Nat, NEW n \in Nat, NEW r \in Seq(Int)
    PROVE  /\ LenencInt(n) \o Letters(i, n) \in Seq(Int)
           /\ LenencInt(n) \o Letters(i, n) # <<>>
           /\ ReadValue(Joined(LenencInt(n) \o Letters(i, n), r))
                = [value |-> Converted(Letters(i, n)), rest |-> r]
           /\ ~IsErrorPacket(Joined(LenencInt(n) \o Letters(i, n), r))
           /\ ~IsEofPacket(Joined(LenencInt(n) \o Letters(i, n), r))
<1>1. PICK L : L = Letters(i, n)
  OBVIOUS
<1>2. L \in Seq(Int) /\ Len(L) = n
  <2>1. 100 + i \in Int
    OBVIOUS
  <2>2. QED
    BY <1>1, <2>1, Repeated DEF Letters
<1>3. PICK h : h = LenencInt(n)
  OBVIOUS
<1>4. h \in Seq(Int) /\ Len(h) >= 1
  BY <1>3, LengthsComeBack, <1>2
<1>5. PICK A : A = Int
  OBVIOUS
<1>6. h \in Seq(A) /\ L \in Seq(A) /\ r \in Seq(A)
  BY <1>2, <1>4, <1>5
<1>7. /\ h \o L \in Seq(A) /\ Len(h \o L) = Len(h) + n /\ Len(h) \in Nat
      /\ L \o r \in Seq(A) /\ Len(L \o r) >= n
  <2>1. h \o L \in Seq(A) /\ Len(h \o L) = Len(h) + Len(L) /\ Len(h) \in Nat
    BY <1>6, Concat
  <2>2. L \o r \in Seq(A) /\ Len(L \o r) = Len(L) + Len(r) /\ Len(r) \in Nat
    BY <1>6, Concat
  <2>3. QED
    BY <1>2, <2>1, <2>2
<1>8. PICK p : p = Joined(h, L \o r)
  OBVIOUS
<1>9. p = (h \o L) \o r /\ p = h \o (L \o r) /\ p = Joined(h \o L, r)
  <2>1. (h \o L) \o r = h \o (L \o r)
    <3>1. h \in Seq(Int) /\ L \in Seq(Int)
      BY <1>2, <1>4
    <3>2. QED
      BY <3>1, ConcatBytes, Zenon
  <2>2. QED
    BY <1>8, <2>1 DEF Joined
<1>10. /\ LengthEncoded(p) = [n |-> n, size |-> Len(h)]
       /\ ~IsErrorPacket(p) /\ ~IsEofPacket(p)
  <2>1. L \o r \in Seq(Int)
    BY <1>5, <1>7
  <2>2. QED
    BY <1>3, <1>8, <2>1, LengthsComeBack
<1>11. SubSeq(p, Len(h) + 1, Len(h) + n) = L
  <2>1. PICK u \in Seq(A) : u = L \o r
    BY <1>7
  <2>5. Len(u) \in Nat /\ Len(u) >= n
    BY <1>7, <2>1
  <2>6. n \in 0..Len(u)
    BY <2>5
  <2>8. SubSeq(h \o u, Len(h) + 1, Len(h) + n) = SubSeq(u, 1, n)
    BY <1>6, <2>1, <2>6, SecondHalf
  <2>2. SubSeq(p, Len(h) + 1, Len(h) + n) = SubSeq(u, 1, n)
    BY <1>9, <2>1, <2>8
  <2>3. SubSeq(L \o r, 1, n) = L
    BY <1>2, <1>6, Halves
  <2>4. QED
    BY <2>1, <2>2, <2>3
<1>12. SubSeq(p, Len(h) + n + 1, Len(p)) = r
  <2>1. SubSeq((h \o L) \o r, Len(h \o L) + 1, Len((h \o L) \o r)) = r
    BY <1>6, <1>7, Halves
  <2>2. QED
    BY <1>7, <1>9, <2>1
<1>13. n # Null
  BY DEF Null
<1>14. ReadValue(p) = [value |-> Converted(L), rest |-> r]
  <2>1. PICK l : l = LengthEncoded(p)
    OBVIOUS
  <2>2. l.n = n /\ l.n # Null /\ l.size = Len(h)
    BY <1>10, <1>13, <2>1
  <2>3. ReadValue(p) = [value |-> Converted(SubSeq(p, l.size + 1, l.size + l.n)),
                        rest |-> SubSeq(p, l.size + l.n + 1, Len(p))]
    BY <2>1, <2>2 DEF ReadValue
  <2>4. QED
    BY <1>11, <1>12, <2>2, <2>3
<1>15. h \o L \in Seq(Int) /\ h \o L # <<>>
  BY <1>4, <1>5, <1>7
<1>16. QED
  BY <1>1, <1>3, <1>9, <1>10, <1>14, <1>15

\* What the value of row i is read as.
Shown(i) ==
    IF cl.col = "time"
      THEN [as |-> "timedelta", v |-> ConvertTimedelta(ServerTime(EscapeTimedelta(cl.args[i])))]
    ELSE IF cl.args[i] = Null THEN NullValue
    ELSE [as |-> Encoding(cl.col), v |-> Letters(i, cl.args[i])]

ShownRow(i) == Repeat(Shown(i), Columns)

(***************************************************************************)
(* A value is read as it was sent, and no more than the value: NULL, a     *)
(* text of any length, a time.  It looks like no error and no EOF.         *)
(***************************************************************************)
LEMMA ValueComesBack ==
    ASSUME Given, NEW i \in 1..Len(cl.args), NEW r \in Seq(Int)
    PROVE  /\ ServerValue(i) \in Seq(Int) /\ ServerValue(i) # <<>>
           /\ ReadValue(Joined(ServerValue(i), r)) = [value |-> Shown(i), rest |-> r]
           /\ ~IsErrorPacket(Joined(ServerValue(i), r))
           /\ ~IsEofPacket(Joined(ServerValue(i), r))
<1>1. i \in Nat /\ i > 0
  BY GivenRows
<1>2. CASE cl.col = "time"
  <2>1. ServerValue(i) = LenencInt(8) \o Letters(i, 8)
    BY <1>2 DEF ServerValue
  <2>2. 8 \in Nat
    OBVIOUS
  <2>3. Letters(i, 8)[1] - 100 = i
    <3>1. 1 \in 1..8
      OBVIOUS
    <3>2. Letters(i, 8)[1] = 100 + i
      BY <3>1 DEF Letters, Repeat
    <3>3. QED
      BY <1>1, <3>2
  <2>4. Converted(Letters(i, 8)) = Shown(i)
    BY <1>2, <2>3 DEF Converted, Shown
  <2>5. QED
    BY <1>1, <2>1, <2>2, <2>4, LettersComeBack
<1>3. CASE cl.col # "time" /\ cl.args[i] = Null
  <2>1. ServerValue(i) = <<251>> /\ Shown(i) = NullValue
    BY <1>3 DEF ServerValue, Shown
  <2>2. PICK p : p = Joined(<<251>>, r)
    OBVIOUS
  <2>3. /\ LengthEncoded(p) = [n |-> Null, size |-> 1]
        /\ ~IsErrorPacket(p) /\ ~IsEofPacket(p)
    BY <2>2, NullComesBack
  <2>4. SubSeq(p, 1 + 0 + 1, Len(p)) = r
    <3>1. PICK A : A = Int
      OBVIOUS
    <3>2. PICK s : s = <<251>>
      OBVIOUS
    <3>3. s \in Seq(A) /\ r \in Seq(A) /\ Len(s) = 1
      BY <3>1, <3>2
    <3>4. SubSeq(s \o r, Len(s) + 1, Len(s \o r)) = r
      BY <3>3, Halves
    <3>5. 1 + 0 + 1 = Len(s) + 1 /\ p = s \o r
      BY <2>2, <3>2, <3>3 DEF Joined
    <3>6. QED
      BY <3>4, <3>5
  <2>5. ReadValue(p) = [value |-> NullValue, rest |-> r]
    <3>1. PICK l : l = LengthEncoded(p)
      OBVIOUS
    <3>2. l.n = Null /\ l.size = 1
      BY <2>3, <3>1
    <3>3. ReadValue(p) = [value |-> NullValue, rest |-> SubSeq(p, 1 + 0 + 1, Len(p))]
      BY <3>1, <3>2 DEF ReadValue
    <3>4. QED
      BY <2>4, <3>3
  <2>6. <<251>> \in Seq(Int) /\ <<251>> # <<>>
    OBVIOUS
  <2>7. QED
    BY <2>1, <2>2, <2>3, <2>5, <2>6
<1>4. CASE cl.col # "time" /\ cl.args[i] # Null
  <2>1. ServerValue(i) = LenencInt(cl.args[i]) \o Letters(i, cl.args[i])
    BY <1>4 DEF ServerValue
  <2>2. cl.args[i] \in Nat
    BY <1>4, GivenRows
  <2>3. Converted(Letters(i, cl.args[i])) = Shown(i)
    BY <1>4 DEF Converted, Shown
  <2>4. QED
    BY <1>1, <2>1, <2>2, <2>3, LettersComeBack
<1>5. QED
  BY <1>2, <1>3, <1>4

(***************************************************************************)
(* n values on end are one, and n - 1 after it.                            *)
(***************************************************************************)
LEMMA ValuesOnEnd ==
    ASSUME NEW v \in Seq(Int), NEW n \in Nat
    PROVE  /\ SX!FlattenSeq(Repeat(v, n)) \in Seq(Int)
           /\ n = 0 => SX!FlattenSeq(Repeat(v, n)) = <<>>
           /\ n > 0 => SX!FlattenSeq(Repeat(v, n))
                         = Joined(v, SX!FlattenSeq(Repeat(v, n - 1)))
<1>1. PICK A : A = Int
  OBVIOUS
<1>2. PICK B : B = Seq(A)
  OBVIOUS
<1>3. v \in B
  BY <1>1, <1>2
<1>4. PICK s : s = Repeat(v, n)
  OBVIOUS
<1>5. /\ s \in Seq(B) /\ (n = 0 => s = <<>>)
      /\ n > 0 => s # <<>> /\ Head(s) = v /\ Tail(s) = Repeat(v, n - 1)
  <2>1. s \in Seq(B)
    BY <1>3, <1>4, Repeated
  <2>2. n = 0 => s = <<>>
    BY <1>3, <1>4, Repeated
  <2>3. n > 0 => s # <<>> /\ Head(s) = v /\ Tail(s) = Repeat(v, n - 1)
    BY <1>3, <1>4, Repeated
  <2>4. QED
    BY <2>1, <2>2, <2>3
<1>6. s \in Seq(Seq(A))
  BY <1>2, <1>5
<1>7. <<>> \in Seq(A)
  OBVIOUS
<1>8. SX!FlattenSeq(s) \in Seq(A) /\ SX!FlattenSeq(<<>>) = <<>>
  BY <1>6, <1>7, FlattenAppend
<1>9. ASSUME n > 0
      PROVE  SX!FlattenSeq(s) = Joined(v, SX!FlattenSeq(Repeat(v, n - 1)))
  <2>1. SX!FlattenSeq(s) = Head(s) \o SX!FlattenSeq(Tail(s))
    BY <1>5, <1>6, <1>9, FlattenCons
  <2>2. QED
    BY <1>5, <1>9, <2>1 DEF Joined
<1>10. QED
  BY <1>1, <1>4, <1>5, <1>8, <1>9

(***************************************************************************)
(* So a row is read as it was sent.                                        *)
(***************************************************************************)
LEMMA RowComesBack ==
    ASSUME Given, NEW i \in 1..Len(cl.args)
    PROVE  /\ ServerRow(i) \in Seq(Int)
           /\ ~IsErrorPacket(ServerRow(i)) /\ ~IsEofPacket(ServerRow(i))
           /\ RowFrom(ServerRow(i)) = ShownRow(i)
<1>1. PICK n \in Nat : n = Columns /\ n > 0
  BY DataAssumption DEF DataAssumption
<1>2. PICK v : v = ServerValue(i)
  OBVIOUS
<1>3. PICK w : w = Shown(i)
  OBVIOUS
<1> DEFINE Rest(m) == SX!FlattenSeq(Repeat(v, m))
<1>4. v \in Seq(Int)
  <2>1. <<>> \in Seq(Int)
    OBVIOUS
  <2>2. QED
    BY <1>2, <2>1, ValueComesBack
<1>5. \A m \in Nat : /\ Rest(m) \in Seq(Int)
                     /\ m > 0 => Rest(m) = Joined(v, Rest(m - 1))
  BY <1>4, ValuesOnEnd
<1>6. \A r \in Seq(Int) : /\ ReadValue(Joined(v, r)) = [value |-> w, rest |-> r]
                          /\ ~IsErrorPacket(Joined(v, r)) /\ ~IsEofPacket(Joined(v, r))
  BY <1>2, <1>3, ValueComesBack
<1>7. ServerRow(i) = Rest(n)
  BY <1>1, <1>2 DEF ServerRow
<1> HIDE DEF Rest
<1>8. \A m \in 1..n : /\ Rest(m) \in Seq(Int) /\ ~IsErrorPacket(Rest(m)) /\ ~IsEofPacket(Rest(m))
                      /\ ReadValue(Rest(m)) = [value |-> w, rest |-> Rest(m - 1)]
  <2>1. SUFFICES ASSUME NEW m \in 1..n
                 PROVE  /\ Rest(m) \in Seq(Int)
                        /\ ~IsErrorPacket(Rest(m)) /\ ~IsEofPacket(Rest(m))
                        /\ ReadValue(Rest(m)) = [value |-> w, rest |-> Rest(m - 1)]
    OBVIOUS
  <2>2. m \in Nat /\ m - 1 \in Nat /\ m > 0
    OBVIOUS
  <2>3. Rest(m) \in Seq(Int) /\ Rest(m - 1) \in Seq(Int) /\ Rest(m) = Joined(v, Rest(m - 1))
    BY <1>5, <2>2
  <2>4. QED
    BY <1>6, <2>3
<1>9. n \in 1..n
  BY <1>1
<1> DEFINE Step(g, k) == [row |-> Append(g[k - 1].row, ReadValue(g[k - 1].rest).value),
                          rest |-> ReadValue(g[k - 1].rest).rest]
           Equation(g) == g = [k \in 0..n |->
                                 IF k = 0 THEN [row |-> <<>>, rest |-> Rest(n)]
                                 ELSE Step(g, k)]
           f == [k \in 0..n |-> [row |-> Repeat(w, k), rest |-> Rest(n - k)]]
<1>10. Equation(f)
  <2>1. Repeat(w, 0) = <<>> /\ n - 0 = n
    BY DEF Repeat
  <2>2. ASSUME NEW k \in 1..n
        PROVE  f[k] = Step(f, k)
    <3>1. k \in 0..n /\ k - 1 \in 0..n /\ k - 1 \in Nat /\ n - (k - 1) \in 1..n
          /\ n - (k - 1) - 1 = n - k /\ k - 1 + 1 = k
      OBVIOUS
    <3>2. f[k - 1] = [row |-> Repeat(w, k - 1), rest |-> Rest(n - (k - 1))]
      BY <3>1
    <3>3. ReadValue(Rest(n - (k - 1))) = [value |-> w, rest |-> Rest(n - k)]
      BY <1>8, <3>1
    <3>4. Repeat(w, k) = Append(Repeat(w, k - 1), w)
      <4>1. PICK j \in Nat : j = k - 1
        BY <3>1
      <4>2. w \in {w}
        OBVIOUS
      <4>3. Repeat(w, j + 1) = Append(Repeat(w, j), w)
        BY <4>2, Repeated
      <4>4. QED
        BY <3>1, <4>1, <4>3
    <3>5. f[k] = [row |-> Repeat(w, k), rest |-> Rest(n - k)]
      BY <3>1
    <3>6. f[k - 1].row = Repeat(w, k - 1) /\ f[k - 1].rest = Rest(n - (k - 1))
      BY <3>2
    <3> HIDE DEF f
    <3>7. ReadValue(f[k - 1].rest).value = w /\ ReadValue(f[k - 1].rest).rest = Rest(n - k)
      BY <3>3, <3>6
    <3>8. QED
      BY <3>4, <3>5, <3>6, <3>7
  <2>3. \A k \in 0..n : k = 0 \/ k \in 1..n
    OBVIOUS
  <2>4. 0 \in 0..n
    OBVIOUS
  <2>5. f[0] = [row |-> <<>>, rest |-> Rest(n)]
    BY <2>1, <2>4
  <2>6. \A k \in 0..n : f[k] = IF k = 0 THEN [row |-> <<>>, rest |-> Rest(n)] ELSE Step(f, k)
    <3> HIDE DEF Step, f
    <3>1. QED
      BY <2>2, <2>3, <2>5
  <2>7. f = [k \in 0..n |-> f[k]]
    OBVIOUS
  <2>8. QED
    <3> HIDE DEF Step, f
    <3>1. QED
      BY <2>6, <2>7
<1> DEFINE g == CHOOSE g : Equation(g)
<1>11. Equation(g)
  <2> HIDE DEF Equation, f
  <2>1. QED
    BY <1>10
<1>12. \A k \in 0..n : g[k] = f[k]
  <2> DEFINE T == {k \in 0..n : g[k] = f[k]}
  <2>1. \A k \in 0..n : g[k] = IF k = 0 THEN [row |-> <<>>, rest |-> Rest(n)] ELSE Step(g, k)
    <3> HIDE DEF g, Step
    <3>1. QED
      BY <1>11
  <2>2. \A k \in 0..n : f[k] = IF k = 0 THEN [row |-> <<>>, rest |-> Rest(n)] ELSE Step(f, k)
    <3> HIDE DEF f, Step
    <3>1. QED
      BY <1>10
  <2> HIDE DEF g, f
  <2>3. 0 \in 0..n /\ 0 \in Nat
    OBVIOUS
  <2>4. 0 \in T
    BY <2>1, <2>2, <2>3
  <2>5. \A k \in 0..n : k # 0 /\ k - 1 \in T => k \in T
    BY <2>1, <2>2
  <2>6. \A k \in 0..n : k \in T
    <3> HIDE DEF T
    <3>1. QED
      BY <2>3, <2>4, <2>5, RangeInduction
  <2>7. QED
    BY <2>6
<1>13. RowFrom(ServerRow(i)) = g[n].row
  <2> DEFINE Body(h, k) ==
               IF k = 0 THEN [row |-> <<>>, rest |-> ServerRow(i)]
               ELSE LET before == h[k - 1]
                        l == LengthEncoded(before.rest)
                        m == IF l.n = Null THEN 0 ELSE l.n
                        data == SubSeq(before.rest, l.size + 1, l.size + m)
                    IN  [row |-> Append(before.row, IF l.n = Null THEN NullValue
                                                    ELSE Converted(data)),
                         rest |-> SubSeq(before.rest, l.size + m + 1, Len(before.rest))]
             read == CHOOSE h : h = [k \in 0..Columns |-> Body(h, k)]
  <2>1. RowFrom(ServerRow(i)) = read[Columns].row
    BY DEF RowFrom
  <2>2. ASSUME NEW h, NEW k
        PROVE  Body(h, k) = IF k = 0 THEN [row |-> <<>>, rest |-> Rest(n)] ELSE Step(h, k)
    <3>1. Step(h, k) = LET l == LengthEncoded(h[k - 1].rest)
                           m == IF l.n = Null THEN 0 ELSE l.n
                       IN  [row |-> Append(h[k - 1].row,
                                           IF l.n = Null THEN NullValue
                                           ELSE Converted(SubSeq(h[k - 1].rest, l.size + 1,
                                                                 l.size + m))),
                            rest |-> SubSeq(h[k - 1].rest, l.size + m + 1,
                                            Len(h[k - 1].rest))]
      BY DEF ReadValue
    <3>2. QED
      BY <1>7, <3>1
  <2> HIDE DEF Body, Step
  <2>3. ASSUME NEW h
        PROVE  (h = [k \in 0..Columns |-> Body(h, k)]) <=> Equation(h)
    BY <1>1, <2>2
  <2> HIDE DEF Equation
  <2>4. read = g
    BY <2>3
  <2> HIDE DEF read, g, f
  <2>5. QED
    BY <1>1, <2>1, <2>4
<1>14. f[n].row = Repeat(w, n)
  <2>1. n \in 0..n
    OBVIOUS
  <2>2. QED
    BY <2>1
<1>15. g[n] = f[n]
  <2> HIDE DEF f, g
  <2>1. n \in 0..n
    OBVIOUS
  <2>2. QED
    BY <1>12, <2>1
<1>16. QED
  <2> HIDE DEF f, g
  <2>1. QED
    BY <1>1, <1>3, <1>7, <1>8, <1>9, <1>13, <1>14, <1>15 DEF ShownRow

(***************************************************************************)
(* Days, and hours, minutes and seconds of a day.                          *)
(***************************************************************************)
LEMMA HoursMinutesSeconds ==
    ASSUME NEW s \in Int
    PROVE  \E d \in Int, h \in Nat, m \in Nat, r \in Nat :
             /\ s = d * 86400 + h * 3600 + m * 60 + r
             /\ h < 24 /\ m < 60 /\ r < 60
             /\ s \div 86400 = d
             /\ ((s % 86400) \div 3600) % 24 = h
             /\ ((s % 86400) \div 60) % 60 = m
             /\ (s % 86400) % 60 = r
             /\ s % 3600 = 0 => m = 0 /\ r = 0
<1>1. PICK d \in Int : d = s \div 86400
  BY SMT
<1>2. PICK u \in Nat : u = s % 86400 /\ u < 86400
  BY SMT
<1>3. s = d * 86400 + u
  BY <1>1, <1>2, SMT
<1>4. PICK h \in Nat : h = u \div 3600 /\ h < 24
  BY <1>2, SMT
<1>5. PICK v \in Nat : u = h * 3600 + v /\ v < 3600
  BY <1>4, SMT
<1>6. PICK m \in Nat : m = v \div 60 /\ m < 60
  BY <1>5, SMT
<1>7. PICK r \in Nat : v = m * 60 + r /\ r < 60
  BY <1>6, SMT
<1>8. (u \div 3600) % 24 = h
  BY <1>4, SMT
<1>9. (u \div 60) % 60 = m
  <2>1. u \div 60 = h * 60 + m
    BY <1>5, <1>7, SMT
  <2>2. (h * 60 + m) % 60 = m
    BY <1>6, SMT
  <2>3. QED
    BY <2>1, <2>2, SMT
<1>10. u % 60 = r
  BY <1>5, <1>7, SMT
<1>11. ASSUME s % 3600 = 0
       PROVE  m = 0 /\ r = 0
  <2>1. s = (d * 24 + h) * 3600 + v
    BY <1>3, <1>5, SMT
  <2>2. s % 3600 = v
    BY <1>5, <2>1, SMT
  <2>3. v = 0
    BY <1>11, <2>2, SMT
  <2>4. QED
    BY <1>7, <2>3, SMT
<1>12. s = d * 86400 + h * 3600 + m * 60 + r
  BY <1>3, <1>5, <1>7, SMT
<1>13. QED
  BY <1>1, <1>2, <1>4, <1>6, <1>7, <1>8, <1>9, <1>10, <1>11, <1>12, SMT

(***************************************************************************)
(* The fraction of a second, in hundredths.                                *)
(***************************************************************************)
LEMMA FractionComesBack ==
    ASSUME NEW f \in Nat, f < 100, f % Unit = 0
    PROVE  ConvertSecondFraction(f \div Unit, Fsp) = f
<1>1. Fsp \in 0..2
  BY DataAssumption DEF DataAssumption
<1>2. CASE Fsp = 0
  BY <1>2, SMT DEF Unit, ConvertSecondFraction
<1>3. CASE Fsp = 1
  <2>1. f % 10 = 0 /\ ConvertSecondFraction(f \div Unit, Fsp) = (f \div 10) * 10
    BY <1>3, SMT DEF Unit, ConvertSecondFraction
  <2>2. QED
    BY <2>1, SMT
<1>4. CASE Fsp = 2
  BY <1>4, SMT DEF Unit, ConvertSecondFraction
<1>5. QED
  BY <1>1, <1>2, <1>3, <1>4

(***************************************************************************)
(* A time that is written as it is, is read as it was given.               *)
(***************************************************************************)
LEMMA TimeComesBack ==
    ASSUME NEW t \in [s : Int, f : 0..(Micro - 1)], t.f % Unit = 0, WrittenAsIs(t)
    PROVE  ConvertTimedelta(ServerTime(EscapeTimedelta(t))) = t
<1>1. Micro = 100
  BY DataAssumption DEF DataAssumption
<1>2. PICK s \in Int : s = t.s
  BY SMT
<1>3. PICK f \in Nat : f = t.f /\ f < 100
  BY <1>1, SMT
<1>4. PICK d \in Int, h \in Nat, m \in Nat, r \in Nat :
             /\ s = d * 86400 + h * 3600 + m * 60 + r
             /\ h < 24 /\ m < 60 /\ r < 60
             /\ s \div 86400 = d
             /\ ((s % 86400) \div 3600) % 24 = h
             /\ ((s % 86400) \div 60) % 60 = m
             /\ (s % 86400) % 60 = r
             /\ s % 3600 = 0 => m = 0 /\ r = 0
  BY HoursMinutesSeconds, SMT
<1>5. PICK hours \in Int : hours = h + d * 24
  BY SMT
<1>20. PICK sign \in {1, -1} : sign = IF hours < 0 THEN -1 ELSE 1
  BY SMT
<1>6. PICK e : e = [negate |-> sign, h |-> AbsOf(hours), m |-> m, s |-> r, f |-> f,
                    digits |-> IF f = 0 THEN 0 ELSE 2]
  OBVIOUS
<1>16. EscapeTimedelta(t) = e
  <2>1. (((s % 86400) \div 3600) % 24) + ((s \div 86400) * 24) = hours
    BY <1>4, <1>5, SMT
  <2>2. EscapeTimedelta(t) = [negate |-> sign, h |-> AbsOf(hours),
                              m |-> ((s % 86400) \div 60) % 60, s |-> (s % 86400) % 60,
                              f |-> f, digits |-> IF f = 0 THEN 0 ELSE 2]
    BY <1>2, <1>3, <1>20, <2>1, SMT DEF EscapeTimedelta
  <2>3. QED
    BY <1>4, <1>6, <2>2, SMT
<1>17. PICK x : x = ServerTime(e)
  OBVIOUS
<1>7. /\ x.negate = sign /\ x.h = AbsOf(hours) /\ x.m = m /\ x.s = r
      /\ x.f = f \div Unit /\ x.digits = Fsp
  <2>1. e.negate = sign /\ e.h = AbsOf(hours) /\ e.m = m /\ e.s = r /\ e.f = f
    BY <1>6
  <2>2. x.negate = e.negate /\ x.h = e.h
    BY <1>6, <1>17, SMT DEF ServerTime
  <2>3. x.m = e.m /\ x.s = e.s
    BY <1>6, <1>17, SMT DEF ServerTime
  <2>4. x.f = e.f \div Unit
    BY <1>6, <1>17, SMT DEF ServerTime
  <2>5. x.digits = Fsp
    BY <1>6, <1>17, SMT DEF ServerTime
  <2>6. QED
    BY <2>1, <2>2, <2>3, <2>4, <2>5
<1>8. ConvertSecondFraction(x.f, x.digits) = f
  BY <1>3, <1>7, FractionComesBack, SMT
<1>9. PICK size \in Int : size = (AbsOf(hours) * 3600 + m * 60 + r) * 100 + f
  BY SMT DEF AbsOf
<1>10. ConvertTimedelta(x) = [s |-> (size * sign) \div 100, f |-> (size * sign) % 100]
  <2>1. (x.h * 3600 + x.m * 60 + x.s) * Micro + ConvertSecondFraction(x.f, x.digits) = size
    BY <1>1, <1>7, <1>8, <1>9, SMT
  <2>2. QED
    BY <1>1, <1>7, <2>1, SMT DEF ConvertTimedelta
<1>11. s >= 0 \/ (s % 3600 = 0 /\ f = 0)
  BY <1>2, <1>3, SMT DEF WrittenAsIs
<1>12. size * sign = s * 100 + f
  <2>1. CASE hours < 0
    <3>1. s < 0
      BY <1>4, <1>5, <2>1, SMT
    <3>2. m = 0 /\ r = 0 /\ f = 0
      BY <1>4, <1>11, <3>1, SMT
    <3>3. size = (-hours) * 3600 * 100
      BY <1>9, <2>1, <3>2, SMT DEF AbsOf
    <3>4. sign = -1
      BY <1>20, <2>1, SMT
    <3>5. QED
      BY <1>4, <1>5, <3>2, <3>3, <3>4, SMT
  <2>2. CASE ~(hours < 0)
    <3>1. size = (hours * 3600 + m * 60 + r) * 100 + f
      BY <1>9, <2>2, SMT DEF AbsOf
    <3>2. sign = 1
      BY <1>20, <2>2, SMT
    <3>3. QED
      BY <1>4, <1>5, <3>1, <3>2, SMT
  <2>3. QED
    BY <2>1, <2>2, SMT
<1>13. (s * 100 + f) \div 100 = s /\ (s * 100 + f) % 100 = f
  BY <1>3, SMT
<1>14. ConvertTimedelta(x) = [s |-> s, f |-> f]
  BY <1>10, <1>12, <1>13, SMT
<1>15. t = [s |-> s, f |-> f]
  BY <1>2, <1>3, SMT
<1>19. QED
  BY <1>14, <1>15, <1>16, <1>17

(***************************************************************************)
(* What is read of a row is what should be.                                *)
(***************************************************************************)
LEMMA ShownAsGiven ==
    ASSUME Given, NEW i \in 1..Len(cl.args),
           cl.col = "time" => WrittenAsIs(cl.args[i]) /\ KeptInFull(cl.args[i])
    PROVE  ShownRow(i) = GivenRow(i)
<1>1. CASE cl.col = "time"
  <2>1. PICK t : t = cl.args[i]
    OBVIOUS
  <2>2. t \in [s : Int, f : 0..(Micro - 1)]
    BY <1>1, <2>1, GivenRows
  <2>3. WrittenAsIs(t) /\ t.f % Unit = 0
    BY <1>1, <2>1 DEF KeptInFull
  <2>4. ConvertTimedelta(ServerTime(EscapeTimedelta(t))) = t
    BY <2>2, <2>3, TimeComesBack
  <2>5. Shown(i) = [as |-> "timedelta", v |-> cl.args[i]]
    BY <1>1, <2>1, <2>4 DEF Shown
  <2>6. QED
    BY <1>1, <2>5 DEF ShownRow, GivenRow
<1>2. CASE cl.col # "time" /\ cl.args[i] = Null
  BY <1>2 DEF ShownRow, GivenRow, Shown
<1>3. CASE cl.col # "time" /\ cl.args[i] # Null
  <2>1. cl.col \in {"text", "binary", "json"}
    BY <1>3 DEF Given
  <2>2. Encoding(cl.col) = IF cl.col = "binary" THEN "bytes" ELSE "str"
    BY <2>1 DEF Encoding
  <2>3. QED
    BY <1>3, <2>2 DEF ShownRow, GivenRow, Shown
<1>4. QED
  BY <1>1, <1>2, <1>3

-----------------------------------------------------------------------------
(* Statements.                                                             *)

\* The rows first, first + 1, ..., last.
RowsOf(first, last) == [k \in 1..(last - first + 1) |-> first + k - 1]

\* A statement up to what follows the rows.
Opened(rows) ==
    Repeat(PREFIX, Prefix)
    \o SX!FlattenSeq([k \in DOMAIN rows |->
                     (IF k = 1 THEN <<>> ELSE <<COMMA>>) \o RowText(rows[k])])

(***************************************************************************)
(* Rows on end.                                                            *)
(***************************************************************************)
LEMMA RowsOnEnd ==
    ASSUME NEW a \in Nat, NEW b \in Nat, a <= b + 1
    PROVE  /\ RowsOf(a, b) \in Seq(Nat) /\ Len(RowsOf(a, b)) = b - a + 1
           /\ DOMAIN RowsOf(a, b) = 1..(b - a + 1)
           /\ \A k \in 1..(b - a + 1) : RowsOf(a, b)[k] = a + k - 1
           /\ RowsOf(a, b + 1) = Append(RowsOf(a, b), b + 1)
<1>1. /\ RowsOf(a, b) \in Seq(Nat) /\ Len(RowsOf(a, b)) = b - a + 1
      /\ DOMAIN RowsOf(a, b) = 1..(b - a + 1)
      /\ \A k \in 1..(b - a + 1) : RowsOf(a, b)[k] = a + k - 1
  BY DEF RowsOf
<1>2. RowsOf(a, b + 1) = Append(RowsOf(a, b), b + 1)
  <2>1. b + 1 \in Nat /\ b + 1 - a + 1 \in Nat
    OBVIOUS
  <2>2. /\ RowsOf(a, b + 1) \in Seq(Nat) /\ Len(RowsOf(a, b + 1)) = b - a + 2
        /\ \A k \in 1..(b - a + 2) : RowsOf(a, b + 1)[k] = a + k - 1
    BY DEF RowsOf
  <2>3. /\ Append(RowsOf(a, b), b + 1) \in Seq(Nat)
        /\ Len(Append(RowsOf(a, b), b + 1)) = b - a + 2
        /\ Append(RowsOf(a, b), b + 1)[b - a + 2] = b + 1
        /\ \A k \in 1..(b - a + 1) : Append(RowsOf(a, b), b + 1)[k] = a + k - 1
    BY <1>1
  <2>4. \A k \in 1..(b - a + 2) : RowsOf(a, b + 1)[k] = Append(RowsOf(a, b), b + 1)[k]
    <3>1. \A k \in 1..(b - a + 2) : k \in 1..(b - a + 1) \/ k = b - a + 2
      OBVIOUS
    <3>2. a + (b - a + 2) - 1 = b + 1
      OBVIOUS
    <3>3. QED
      BY <2>2, <2>3, <3>1, <3>2
  <2>5. QED
    BY <2>2, <2>3, <2>4, SameSeq
<1>3. QED
  BY <1>1, <1>2

(***************************************************************************)
(* Runs of rows put together.                                              *)
(***************************************************************************)
LEMMA RowsJoined ==
    ASSUME NEW a \in Nat, NEW b \in Nat, NEW c \in Nat, a <= b + 1, b <= c
    PROVE  RowsOf(a, b) \o RowsOf(b + 1, c) = RowsOf(a, c)
<1>1. PICK s : s = RowsOf(a, b)
  OBVIOUS
<1>2. PICK t : t = RowsOf(b + 1, c)
  OBVIOUS
<1>3. PICK u : u = RowsOf(a, c)
  OBVIOUS
<1>4. /\ s \in Seq(Nat) /\ Len(s) = b - a + 1
      /\ \A k \in 1..(b - a + 1) : s[k] = a + k - 1
  BY <1>1 DEF RowsOf
<1>5. /\ t \in Seq(Nat) /\ Len(t) = c - b
      /\ \A k \in 1..(c - b) : t[k] = b + k
  BY <1>2 DEF RowsOf
<1>6. /\ u \in Seq(Nat) /\ Len(u) = c - a + 1
      /\ \A k \in 1..(c - a + 1) : u[k] = a + k - 1
  BY <1>3 DEF RowsOf
<1>7. PICK A : A = Nat
  OBVIOUS
<1>8. s \in Seq(A) /\ t \in Seq(A) /\ u \in Seq(A)
  BY <1>4, <1>5, <1>6, <1>7
<1>9. PICK w : w = s \o t
  OBVIOUS
<1>10. /\ w \in Seq(A) /\ Len(w) = c - a + 1
       /\ \A k \in 1..(c - a + 1) : w[k] = IF k <= b - a + 1 THEN s[k] ELSE t[k - (b - a + 1)]
  <2>1. /\ w \in Seq(A) /\ Len(w) = Len(s) + Len(t)
        /\ \A k \in 1..(Len(s) + Len(t)) : w[k] = IF k <= Len(s) THEN s[k] ELSE t[k - Len(s)]
    BY <1>8, <1>9, Concat
  <2>2. Len(s) + Len(t) = c - a + 1
    BY <1>4, <1>5
  <2>3. QED
    BY <1>4, <2>1, <2>2
<1>11. \A k \in 1..(c - a + 1) : w[k] = u[k]
  <2>1. SUFFICES ASSUME NEW k \in 1..(c - a + 1)
                 PROVE  w[k] = u[k]
    OBVIOUS
  <2>2. CASE k <= b - a + 1
    BY <1>4, <1>6, <1>10, <2>2
  <2>3. CASE ~(k <= b - a + 1)
    <3>1. PICK j \in Nat : j = k - (b - a + 1) /\ j \in 1..(c - b) /\ b + j = a + k - 1
      BY <2>3
    <3>2. w[k] = t[j]
      BY <1>10, <2>3, <3>1
    <3>3. QED
      BY <1>5, <1>6, <3>1, <3>2
  <2>4. QED
    BY <2>2, <2>3
<1>12. QED
  BY <1>1, <1>2, <1>3, <1>6, <1>8, <1>9, <1>10, <1>11, SameSeq

(***************************************************************************)
(* The text of a row.                                                      *)
(***************************************************************************)
LEMMA RowTexts ==
    ASSUME Given, NEW i \in 1..Len(cl.args)
    PROVE  /\ TextLength(i) \in Nat /\ TextLength(i) > 0
           /\ RowText(i) \in Seq(Int) /\ RowText(i) # <<>>
           /\ Len(RowText(i)) = TextLength(i)
<1>1. cl.col # "time" => cl.args[i] \in Nat \cup {Null}
  BY GivenRows
<1>2. TextLength(i) \in Nat /\ TextLength(i) > 0
  BY <1>1 DEF TextLength, Null
<1>3. i \in Int
  BY GivenRows
<1>4. PICK n \in Nat : n = TextLength(i) /\ n > 0
  BY <1>2
<1>5. Repeat(i, n) \in Seq(Int) /\ Len(Repeat(i, n)) = n /\ Repeat(i, n) # <<>>
  BY <1>3, <1>4, Repeated
<1>6. QED
  BY <1>2, <1>4, <1>5 DEF RowText

\* What a statement has of the row in place k.
Listed(rows) == [k \in DOMAIN rows |-> (IF k = 1 THEN <<>> ELSE <<COMMA>>) \o RowText(rows[k])]

(***************************************************************************)
(* The pieces of a statement.                                              *)
(***************************************************************************)
LEMMA ListedRows ==
    ASSUME Given, NEW a \in Nat, NEW b \in Nat, 1 <= a, a <= b, b <= Len(cl.args)
    PROVE  /\ Listed(RowsOf(a, b)) \in Seq(Seq(Int))
           /\ Len(Listed(RowsOf(a, b))) = b - a + 1
           /\ \A k \in 1..(b - a + 1) :
                Listed(RowsOf(a, b))[k]
                  = (IF k = 1 THEN <<>> ELSE <<COMMA>>) \o RowText(a + k - 1)
<1>1. PICK n \in Nat : n = b - a + 1
  OBVIOUS
<1>2. Listed(RowsOf(a, b))
        = [k \in 1..n |-> (IF k = 1 THEN <<>> ELSE <<COMMA>>) \o RowText(a + k - 1)]
  <2>1. DOMAIN RowsOf(a, b) = 1..n /\ \A k \in 1..n : RowsOf(a, b)[k] = a + k - 1
    BY <1>1 DEF RowsOf
  <2>2. QED
    BY <2>1 DEF Listed
<1>3. ASSUME NEW k \in 1..n
      PROVE  (IF k = 1 THEN <<>> ELSE <<COMMA>>) \o RowText(a + k - 1) \in Seq(Int)
  <2>1. Len(cl.args) \in Nat
    BY GivenRows
  <2>2. a + k - 1 \in 1..Len(cl.args)
    BY <1>1, <2>1
  <2>3. RowText(a + k - 1) \in Seq(Int)
    BY <2>2, RowTexts
  <2>4. <<>> \in Seq(Int) /\ <<COMMA>> \in Seq(Int)
    BY DEF COMMA
  <2>5. QED
    BY <2>3, <2>4
<1>4. PICK B : B = Seq(Int)
  OBVIOUS
<1>5. PICK f : f = [k \in 1..n |-> (IF k = 1 THEN <<>> ELSE <<COMMA>>) \o RowText(a + k - 1)]
  OBVIOUS
<1>6. f \in [1..n -> B]
  BY <1>3, <1>4, <1>5
<1>7. f \in Seq(B) /\ Len(f) = n
  BY <1>6
<1>8. \A k \in 1..n : f[k] = (IF k = 1 THEN <<>> ELSE <<COMMA>>) \o RowText(a + k - 1)
  BY <1>5
<1>9. QED
  BY <1>1, <1>2, <1>4, <1>5, <1>7, <1>8

(***************************************************************************)
(* A statement begins with one row.                                        *)
(***************************************************************************)
LEMMA OpenedFirst ==
    ASSUME Given, NEW a \in Nat, 1 <= a, a <= Len(cl.args)
    PROVE  Opened(RowsOf(a, a)) = Repeat(PREFIX, Prefix) \o RowText(a)
<1>1. Len(cl.args) \in Nat
  BY GivenRows
<1>2. a \in 1..Len(cl.args)
  BY <1>1
<1>3. PICK x : x = RowText(a)
  OBVIOUS
<1>4. x \in Seq(Int)
  BY <1>2, <1>3, RowTexts
<1>5. PICK B : B = Seq(Int)
  OBVIOUS
<1>6. PICK s : s = Listed(RowsOf(a, a))
  OBVIOUS
<1>8. a - a + 1 = 1 /\ 1 \in 1..1 /\ a + 1 - 1 = a /\ a <= a /\ 1 \in Nat
  OBVIOUS
<1>7. /\ s \in Seq(B) /\ Len(s) = 1
      /\ \A k \in 1..1 :
            s[k] = (IF k = 1 THEN <<>> ELSE <<COMMA>>) \o RowText(a + k - 1)
  <2>1. PICK b \in Nat : b = a
    OBVIOUS
  <2>2. 1 <= a /\ a <= b /\ b <= Len(cl.args)
    BY <1>2, <2>1
  <2>3. /\ Listed(RowsOf(a, b)) \in Seq(Seq(Int)) /\ Len(Listed(RowsOf(a, b))) = b - a + 1
        /\ \A k \in 1..(b - a + 1) : Listed(RowsOf(a, b))[k]
                             = (IF k = 1 THEN <<>> ELSE <<COMMA>>) \o RowText(a + k - 1)
    BY <2>2, ListedRows
  <2>4. b - a + 1 = 1
    BY <2>1
  <2>5. QED
    BY <1>5, <1>6, <2>1, <2>3, <2>4
<1>9. s[1] = <<>> \o x
  BY <1>3, <1>7, <1>8
<1>10. <<>> \o x = x
  BY <1>4
<1>11. s = <<x>>
  <2>1. Len(s) = 1
    BY <1>7, <1>8
  <2>2. x \in B
    BY <1>4, <1>5
  <2>3. s = <<s[1]>>
    BY <1>7, <2>1, <2>2, Ends
  <2>4. QED
    BY <1>9, <1>10, <2>3
<1>12. SX!FlattenSeq(<<x>>) = x
  <2>1. <<>> \in Seq(Seq(Int))
    OBVIOUS
  <2>2. QED
    BY <1>4, <2>1, FlattenAppend
<1>13. Opened(RowsOf(a, a)) = Repeat(PREFIX, Prefix) \o SX!FlattenSeq(s)
  BY <1>6 DEF Opened, Listed
<1>14. QED
  BY <1>3, <1>11, <1>12, <1>13

(***************************************************************************)
(* The rows of a statement are put together one by one.                    *)
(***************************************************************************)
LEMMA OpenedNext ==
    ASSUME Given, NEW a \in Nat, NEW b \in Nat, 1 <= a, a <= b, b + 1 <= Len(cl.args)
    PROVE  /\ Opened(RowsOf(a, b)) \in Seq(Int)
           /\ Opened(RowsOf(a, b + 1)) = Opened(RowsOf(a, b)) \o <<COMMA>> \o RowText(b + 1)
<1>1. Len(cl.args) \in Nat
  BY GivenRows
<1>2. b + 1 \in 1..Len(cl.args) /\ b + 1 \in Nat /\ a <= b + 1 /\ b <= Len(cl.args)
  BY <1>1
<1>3. PICK x : x = RowText(b + 1)
  OBVIOUS
<1>4. x \in Seq(Int)
  BY <1>2, <1>3, RowTexts
<1>5. PICK B : B = Seq(Int)
  OBVIOUS
<1>6. PICK s : s = Listed(RowsOf(a, b))
  OBVIOUS
<1>7. PICK t : t = Listed(RowsOf(a, b + 1))
  OBVIOUS
<1>8. PICK n \in Nat : n = b - a + 1 /\ b + 1 - a + 1 = n + 1 /\ a + (n + 1) - 1 = b + 1 /\ n >= 1
  OBVIOUS
<1>9. /\ s \in Seq(B) /\ Len(s) = n
      /\ \A k \in 1..n : s[k] = (IF k = 1 THEN <<>> ELSE <<COMMA>>) \o RowText(a + k - 1)
  <2>1. n = b - a + 1
    BY <1>8
  <2>2. /\ Listed(RowsOf(a, b)) \in Seq(Seq(Int)) /\ Len(Listed(RowsOf(a, b))) = b - a + 1
        /\ \A k \in 1..(b - a + 1) : Listed(RowsOf(a, b))[k]
                             = (IF k = 1 THEN <<>> ELSE <<COMMA>>) \o RowText(a + k - 1)
    BY <1>2, ListedRows
  <2>3. QED
    BY <1>5, <1>6, <2>1, <2>2
<1>10. /\ t \in Seq(B) /\ Len(t) = n + 1
       /\ \A k \in 1..(n + 1) : t[k] = (IF k = 1 THEN <<>> ELSE <<COMMA>>) \o RowText(a + k - 1)
  <2>1. n + 1 \in Nat /\ n + 1 = (b + 1) - a + 1
    BY <1>8
  <2>2. PICK c \in Nat : c = b + 1
    OBVIOUS
  <2>3. PICK j \in Nat : j = n + 1
    BY <2>1
  <2>4. 1 <= a /\ a <= c /\ c <= Len(cl.args) /\ j = c - a + 1
    BY <1>2, <2>1, <2>2, <2>3
  <2>5. t = Listed(RowsOf(a, c))
    BY <1>7, <2>2
  <2>6. /\ Listed(RowsOf(a, c)) \in Seq(Seq(Int)) /\ Len(Listed(RowsOf(a, c))) = c - a + 1
        /\ \A k \in 1..(c - a + 1) : Listed(RowsOf(a, c))[k]
                             = (IF k = 1 THEN <<>> ELSE <<COMMA>>) \o RowText(a + k - 1)
    BY <2>4, ListedRows
  <2>7. QED
    BY <1>5, <2>3, <2>4, <2>5, <2>6
<1>11. PICK y : y = <<COMMA>> \o x
  OBVIOUS
<1>12. <<COMMA>> \in Seq(Int)
  BY DEF COMMA
<1>13. y \in B
  BY <1>4, <1>5, <1>11, <1>12
<1>14. t[n + 1] = y
  <2>1. n + 1 \in 1..(n + 1) /\ n + 1 # 1
    BY <1>8
  <2>2. t[n + 1] = <<COMMA>> \o RowText(a + (n + 1) - 1)
    BY <1>10, <2>1
  <2>3. QED
    BY <1>3, <1>8, <1>11, <2>2
<1>15. t = Append(s, y)
  <2>1. PICK u : u = Append(s, y)
    OBVIOUS
  <2>2. /\ u \in Seq(B) /\ Len(u) = n + 1 /\ u[n + 1] = y
        /\ \A k \in 1..n : u[k] = s[k]
    BY <1>9, <1>13, <2>1
  <2>3. \A k \in 1..(n + 1) : t[k] = u[k]
    <3>1. \A k \in 1..(n + 1) : k \in 1..n \/ k = n + 1
      OBVIOUS
    <3>4. \A k \in 1..n : k \in 1..(n + 1)
      OBVIOUS
    <3>2. \A k \in 1..n : t[k] = s[k]
      BY <1>9, <1>10, <3>4
    <3>3. QED
      BY <1>14, <2>2, <3>1, <3>2
  <2>4. t = u
    BY <1>10, <2>2, <2>3, SameSeq
  <2>5. QED
    BY <2>1, <2>4
<1>16. /\ SX!FlattenSeq(s) \in Seq(Int)
       /\ SX!FlattenSeq(t) = SX!FlattenSeq(s) \o y
  <2>1. s \in Seq(Seq(Int)) /\ y \in Seq(Int)
    BY <1>5, <1>9, <1>13
  <2>2. QED
    BY <1>15, <2>1, FlattenAppend
<1>17. PICK q : q = Repeat(PREFIX, Prefix)
  OBVIOUS
<1>18. q \in Seq(Int)
  <2>1. Prefix \in Nat /\ PREFIX \in Int
    BY DataAssumption DEF DataAssumption, PREFIX
  <2>2. QED
    BY <1>17, <2>1, Repeated
<1>19. PICK f : f = SX!FlattenSeq(s)
  OBVIOUS
<1>20. f \in Seq(Int) /\ SX!FlattenSeq(t) = f \o y
  BY <1>16, <1>19
<1>21. Opened(RowsOf(a, b)) = q \o f
  BY <1>6, <1>17, <1>19 DEF Opened, Listed
<1>22. Opened(RowsOf(a, b + 1)) = q \o (f \o y)
  BY <1>7, <1>17, <1>20 DEF Opened, Listed
<1>23. q \o f \in Seq(Int)
  BY <1>18, <1>20
<1>24. q \o (f \o y) = ((q \o f) \o <<COMMA>>) \o x
  <2>1. y \in Seq(Int)
    BY <1>5, <1>13
  <2>2. (q \o f) \o y = q \o (f \o y)
    BY <1>18, <1>20, <2>1, ConcatBytes
  <2>3. ((q \o f) \o <<COMMA>>) \o x = (q \o f) \o (<<COMMA>> \o x)
    BY <1>4, <1>12, <1>23, ConcatBytes
  <2>4. QED
    BY <1>11, <2>2, <2>3
<1>25. QED
  BY <1>3, <1>21, <1>22, <1>23, <1>24

\* s has the rows, and the bytes of the last of them at its end.
Lists(s, rows, last) ==
    s \in Seq(Int) /\ s # <<>> /\ RowsIn(s) = rows /\ s[Len(s)] = last

(***************************************************************************)
(* A server finds in a statement the rows that were put into it.           *)
(***************************************************************************)
LEMMA FirstListed ==
    ASSUME Given, NEW a \in Nat, 1 <= a, a <= Len(cl.args)
    PROVE  Lists(Repeat(PREFIX, Prefix) \o RowText(a), <<a>>, a)
<1>1. Len(cl.args) \in Nat
  BY GivenRows
<1>2. a \in 1..Len(cl.args) /\ a \in Int /\ a > 0
  BY <1>1
<1>3. PICK n \in Nat : n = TextLength(a) /\ n > 0
  BY <1>2, RowTexts
<1>4. PICK m \in Nat : m = Prefix /\ m > 0
  BY DataAssumption DEF DataAssumption
<1>5. PREFIX \in Int /\ PREFIX <= 0 /\ PREFIX # a
  BY DEF PREFIX
<1>6. PICK s : s = <<>> \o Repeat(PREFIX, m)
  OBVIOUS
<1>7. <<>> \in Seq(Int)
  OBVIOUS
<1>8. s \in Seq(Int) /\ RowsIn(s) = RowsIn(<<>>) /\ s # <<>> /\ s[Len(s)] = PREFIX
  BY <1>4, <1>5, <1>6, <1>7, RowsInRun
<1>9. RowsIn(<<>>) = <<>>
  BY <1>2, <1>7, RowsInAppend
<1>10. s = Repeat(PREFIX, m)
  <2>1. Repeat(PREFIX, m) \in Seq(Int)
    BY <1>5, Repeated
  <2>2. QED
    BY <1>6, <2>1
<1>11. s[Len(s)] # a
  BY <1>5, <1>8
<1>12. PICK t : t = s \o Repeat(a, n)
  OBVIOUS
<1>13. t \in Seq(Int) /\ t # <<>> /\ t[Len(t)] = a /\ RowsIn(t) = Append(RowsIn(s), a)
  BY <1>2, <1>3, <1>8, <1>11, <1>12, RowsInRun
<1>14. RowsIn(t) = <<a>>
  <2>1. Append(<<>>, a) = <<a>>
    OBVIOUS
  <2>2. RowsIn(s) = <<>>
    BY <1>8, <1>9
  <2>3. QED
    BY <1>13, <2>1, <2>2
<1>15. t = Repeat(PREFIX, Prefix) \o RowText(a)
  BY <1>3, <1>4, <1>10, <1>12 DEF RowText
<1>16. QED
  BY <1>13, <1>14, <1>15 DEF Lists

(***************************************************************************)
(* One row more.                                                           *)
(***************************************************************************)
LEMMA NextListed ==
    ASSUME Given, NEW s, NEW rows, NEW b \in Nat, Lists(s, rows, b),
           1 <= b, b + 1 <= Len(cl.args)
    PROVE  Lists(s \o <<COMMA>> \o RowText(b + 1), Append(rows, b + 1), b + 1)
<1>1. Len(cl.args) \in Nat
  BY GivenRows
<1>2. b + 1 \in 1..Len(cl.args) /\ b + 1 \in Int /\ b + 1 > 0
  BY <1>1
<1>3. PICK n \in Nat : n = TextLength(b + 1) /\ n > 0
  BY <1>2, RowTexts
<1>4. COMMA \in Int /\ COMMA <= 0 /\ COMMA # b + 1
  BY DEF COMMA
<1>5. s \in Seq(Int) /\ RowsIn(s) = rows
  BY DEF Lists
<1>6. Repeat(COMMA, 1) = <<COMMA>>
  BY DEF Repeat
<1>7. 1 \in Nat /\ 1 > 0
  OBVIOUS
<1>8. PICK t : t = s \o Repeat(COMMA, 1)
  OBVIOUS
<1>9. t \in Seq(Int) /\ RowsIn(t) = rows /\ t # <<>> /\ t[Len(t)] = COMMA
  BY <1>4, <1>5, <1>7, <1>8, RowsInRun
<1>10. t[Len(t)] # b + 1
  BY <1>4, <1>9
<1>11. PICK c \in Int : c = b + 1
  OBVIOUS
<1>12. PICK u : u = t \o Repeat(c, n)
  OBVIOUS
<1>13. u \in Seq(Int) /\ u # <<>> /\ u[Len(u)] = c /\ RowsIn(u) = Append(rows, c)
  BY <1>2, <1>3, <1>9, <1>10, <1>11, <1>12, RowsInRun
<1>14. u = (s \o <<COMMA>>) \o RowText(b + 1)
  BY <1>3, <1>6, <1>8, <1>11, <1>12 DEF RowText
<1>15. QED
  BY <1>11, <1>13, <1>14 DEF Lists

(***************************************************************************)
(* What follows the rows has none.                                         *)
(***************************************************************************)
LEMMA EndListed ==
    ASSUME NEW s \in Seq(Int)
    PROVE  /\ s \o Repeat(POSTFIX, Postfix) \in Seq(Int)
           /\ RowsIn(s \o Repeat(POSTFIX, Postfix)) = RowsIn(s)
           /\ Len(s \o Repeat(POSTFIX, Postfix)) = Len(s) + Postfix
<1>1. PICK m \in Nat : m = Postfix
  BY DataAssumption DEF DataAssumption
<1>2. POSTFIX \in Int /\ POSTFIX <= 0
  BY DEF POSTFIX
<1>3. s \o Repeat(POSTFIX, m) \in Seq(Int) /\ RowsIn(s \o Repeat(POSTFIX, m)) = RowsIn(s)
  BY <1>2, RowsInRun
<1>4. Repeat(POSTFIX, m) \in Seq(Int) /\ Len(Repeat(POSTFIX, m)) = m
  BY <1>2, Repeated
<1>5. PICK r : r = Repeat(POSTFIX, m)
  OBVIOUS
<1>6. Len(s \o r) = Len(s) + m
  BY <1>4, <1>5
<1>7. QED
  BY <1>1, <1>3, <1>5, <1>6
=============================================================================
