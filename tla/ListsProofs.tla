------------------------------ MODULE ListsProofs ------------------------------
(***************************************************************************)
(* What the operators on lists return, for lists of any length: the lemmas *)
(* that the proofs about Manifests and Rendering share.                    *)
(***************************************************************************)
EXTENDS Lists, WellFoundedInduction, TLAPS

-----------------------------------------------------------------------------
(* Recursion along a list.  The provers have no induction, but they know    *)
(* that every non-empty set of numbers has a least element.                 *)

LEMMA SetInduction ==
  ASSUME NEW S, 0 \in S, \A n \in Nat : n \in S => n + 1 \in S
  PROVE  Nat \subseteq S
<1> DEFINE T == {n \in Nat : n \notin S}
           R == OpToRel(<, Nat)
<1>1. SUFFICES ASSUME T # {} PROVE FALSE
  OBVIOUS
<1>2. IsWellFoundedOn(R, Nat)
  BY NatLessThanWellFounded
<1>3. \A x, y \in Nat : x < y => <<x, y>> \in R
  BY DEF OpToRel
<1>4. T \subseteq Nat
  OBVIOUS
<1> HIDE DEF R, T
<1>5. PICK x \in T : \A y \in T : ~ (<<y, x>> \in R)
  BY <1>1, <1>2, <1>4, WFMin
<1>6. x \in Nat /\ x \notin S /\ x # 0
  BY <1>5 DEF T
<1>7. x - 1 \in Nat /\ x - 1 < x /\ (x - 1) + 1 = x
  BY <1>6
<1>8. x - 1 \in T
  BY <1>6, <1>7 DEF T
<1> QED BY <1>3, <1>5, <1>6, <1>7, <1>8

LEMMA UpTo ==
  ASSUME NEW n \in Nat, NEW S, 0 \in S, \A i \in 1..n : i - 1 \in S => i \in S
  PROVE  0..n \subseteq S
<1> DEFINE T == {i \in Nat : i <= n => i \in S}
<1>1. 0 \in T
  OBVIOUS
<1>2. \A i \in Nat : i \in T => i + 1 \in T
  <2> SUFFICES ASSUME NEW i \in Nat, i \in T, i + 1 <= n PROVE i + 1 \in S
    OBVIOUS
  <2>1. i \in S /\ i + 1 \in 1..n /\ (i + 1) - 1 = i
    OBVIOUS
  <2> QED BY <2>1
<1> HIDE DEF T
<1>3. Nat \subseteq T
  BY <1>1, <1>2, SetInduction
<1> QED BY <1>3 DEF T

Iterates(f, X, base, n, step) ==
    /\ f \in [0..n -> X] /\ f[0] = base
    /\ \A i \in 1..n : f[i] = step[i][f[i - 1]]

LEMMA Recursion ==
  ASSUME NEW X, NEW base \in X, NEW n \in Nat, NEW step \in [1..n -> [X -> X]]
  PROVE  \E f : Iterates(f, X, base, n, step)
<1> DEFINE Good(m, f) == f[0] = base /\ \A i \in 1..m : f[i] = step[i][f[i - 1]]
           S == {m \in 0..n : \E f \in [0..m -> X] : Good(m, f)}
<1>1. 0 \in S
  <2> DEFINE f == [i \in 0..0 |-> base]
  <2>1. f \in [0..0 -> X] /\ Good(0, f)
    OBVIOUS
  <2> HIDE DEF f, Good
  <2> QED BY <2>1
<1>2. ASSUME NEW m \in 1..n, m - 1 \in S PROVE m \in S
  <2>1. PICK f \in [0..(m - 1) -> X] : Good(m - 1, f)
    BY <1>2
  <2> DEFINE g == [i \in 0..m |-> IF i = m THEN step[m][f[m - 1]] ELSE f[i]]
  <2>2. step[m][f[m - 1]] \in X
    OBVIOUS
  <2>3. g \in [0..m -> X]
    BY <2>2
  <2>4. g[0] = base
    BY <2>1
  <2>5. ASSUME NEW i \in 1..m PROVE g[i] = step[i][g[i - 1]]
    <3>1. g[i - 1] = f[i - 1]
      OBVIOUS
    <3>2. CASE i = m
      BY <3>1, <3>2
    <3>3. CASE i # m
      <4>1. i \in 1..(m - 1) /\ g[i] = f[i]
        BY <3>3
      <4> QED BY <2>1, <3>1, <4>1
    <3> QED BY <3>2, <3>3
  <2>6. Good(m, g)
    BY <2>4, <2>5
  <2> HIDE DEF g, Good
  <2> QED BY <2>3, <2>6
<1> HIDE DEF S
<1>3. 0..n \subseteq S
  BY <1>1, <1>2, UpTo
<1>4. n \in S
  BY <1>3
<1> QED BY <1>4 DEF S, Iterates

\* f is the list after each element that Only has looked at.
Filters(f, T, s, S) ==
    /\ f \in [0..Len(s) -> Seq(T \cap S)] /\ f[0] = <<>>
    /\ \A i \in 1..Len(s) : f[i] = IF s[i] \in S THEN Append(f[i - 1], s[i]) ELSE f[i - 1]
    /\ Only(s, S) = f[Len(s)]

LEMMA OnlyDef ==
  ASSUME NEW T, NEW s \in Seq(T), NEW S
  PROVE  \E f : Filters(f, T, s, S)
<1> DEFINE X == Seq(T \cap S)
           n == Len(s)
           Def(f, i) == IF i = 0 THEN <<>>
                        ELSE IF s[i] \in S THEN Append(f[i - 1], s[i]) ELSE f[i - 1]
           step == [i \in 1..n |-> [x \in X |-> IF s[i] \in S THEN Append(x, s[i]) ELSE x]]
           k == CHOOSE f : f = [i \in 0..n |-> Def(f, i)]
<1>1. n \in Nat /\ <<>> \in X
  OBVIOUS
<1>2. step \in [1..n -> [X -> X]]
  <2>1. ASSUME NEW i \in 1..n, NEW x \in X PROVE (IF s[i] \in S THEN Append(x, s[i]) ELSE x) \in X
    <3>1. s[i] \in T
      OBVIOUS
    <3> QED BY <3>1
  <2> HIDE DEF X
  <2> QED BY <2>1
<1>3. \A i \in 1..n, x \in X : step[i][x] = IF s[i] \in S THEN Append(x, s[i]) ELSE x
  OBVIOUS
<1> HIDE DEF step, X, n
<1>4. PICK f : Iterates(f, X, <<>>, n, step)
  BY <1>1, <1>2, Recursion
<1>14. f \in [0..n -> X] /\ f[0] = <<>> /\ \A i \in 1..n : f[i] = step[i][f[i - 1]]
  BY <1>4 DEF Iterates
<1>5. \A i \in 1..n : f[i - 1] \in X
  BY <1>1, <1>14
<1>6. \A i \in 1..n : f[i] = IF s[i] \in S THEN Append(f[i - 1], s[i]) ELSE f[i - 1]
  BY <1>3, <1>14, <1>5
<1>7. f = [i \in 0..n |-> Def(f, i)]
  <2>1. \A i \in 0..n : f[i] = Def(f, i)
    <3> TAKE i \in 0..n
    <3>1. CASE i = 0
      BY <1>14, <3>1
    <3>2. CASE i # 0
      <4>1. i \in 1..n
        BY <1>1, <3>2
      <4> QED BY <1>6, <3>2, <4>1
    <3> QED BY <3>1, <3>2
  <2> HIDE DEF Def
  <2> QED BY <1>14, <2>1
<1>8. k = [i \in 0..n |-> Def(k, i)]
  BY <1>7
<1>9. Only(s, S) = k[n]
  BY DEF Only, n
<1> HIDE DEF k
<1> DEFINE E == {i \in 0..n : k[i] = f[i]}
<1>10. 0 \in E
  BY <1>1, <1>14, <1>8
<1>11. ASSUME NEW i \in 1..n, i - 1 \in E PROVE i \in E
  <2>1. k[i] = IF s[i] \in S THEN Append(k[i - 1], s[i]) ELSE k[i - 1]
    <3>1. i \in 0..n /\ i # 0
      BY <1>1
    <3>2. k[i] = Def(k, i)
      BY <1>8, <3>1
    <3> QED BY <3>1, <3>2
  <2> QED BY <1>1, <1>6, <1>11, <2>1
<1> HIDE DEF E
<1>12. 0..n \subseteq E
  BY <1>1, <1>10, <1>11, UpTo
<1>13. k[n] = f[n]
  BY <1>1, <1>12 DEF E
<1> QED BY <1>14, <1>6, <1>9, <1>13 DEF X, n, Filters

LEMMA InToSet ==
  ASSUME NEW T, NEW s \in Seq(T), NEW x
  PROVE  x \in ToSet(s) <=> \E i \in 1..Len(s) : x = s[i]
BY DEF ToSet

\* What a filtered list contains.
LEMMA OnlySet ==
  ASSUME NEW T, NEW s \in Seq(T), NEW S
  PROVE  /\ Only(s, S) \in Seq(T \cap S)
         /\ ToSet(Only(s, S)) = ToSet(s) \cap S
<1> DEFINE n == Len(s)
           In(x, q) == \E i \in 1..Len(q) : x = q[i]
<1>10. PICK f : Filters(f, T, s, S)
  BY OnlyDef
<1>1. /\ f \in [0..n -> Seq(T \cap S)] /\ f[0] = <<>>
      /\ \A i \in 1..n : f[i] = IF s[i] \in S THEN Append(f[i - 1], s[i]) ELSE f[i - 1]
      /\ Only(s, S) = f[n]
  BY <1>10 DEF Filters
<1>2. n \in Nat
  OBVIOUS
<1> DEFINE E == {m \in 0..n : \A x : In(x, f[m]) <=> x \in S /\ \E i \in 1..m : x = s[i]}
<1>3. 0 \in E
  <2>1. 1..Len(<<>>) = {} /\ 1..0 = {}
    OBVIOUS
  <2>2. \A x : ~In(x, f[0])
    BY <1>1, <2>1
  <2> HIDE DEF In
  <2> QED BY <1>2, <2>1, <2>2
<1>4. ASSUME NEW m \in 1..n, m - 1 \in E PROVE m \in E
  <2>1. f[m - 1] \in Seq(T \cap S) /\ s[m] \in T
    BY <1>1, <1>2
  <2>2. ASSUME NEW x PROVE In(x, f[m]) <=> (In(x, f[m - 1]) \/ (x = s[m] /\ x \in S))
    <3>1. CASE s[m] \in S
      <4>1. f[m] = Append(f[m - 1], s[m])
        BY <1>1, <3>1
      <4>2. /\ Len(f[m]) = Len(f[m - 1]) + 1 /\ Len(f[m - 1]) \in Nat
            /\ f[m][Len(f[m - 1]) + 1] = s[m]
            /\ \A i \in 1..Len(f[m - 1]) : f[m][i] = f[m - 1][i]
        BY <2>1, <4>1, <3>1
      <4>3. 1..Len(f[m]) = (1..Len(f[m - 1])) \cup {Len(f[m - 1]) + 1}
        BY <4>2
      <4> QED BY <3>1, <4>2, <4>3
    <3>2. CASE s[m] \notin S
      BY <1>1, <3>2
    <3> QED BY <3>1, <3>2
  <2>3. \A x : In(x, f[m - 1]) <=> x \in S /\ \E i \in 1..(m - 1) : x = s[i]
    BY <1>4
  <2>4. 1..m = (1..(m - 1)) \cup {m}
    BY <1>2
  <2> HIDE DEF In
  <2> QED BY <2>2, <2>3, <2>4
<1> HIDE DEF E, n
<1>5. 0..n \subseteq E
  BY <1>2, <1>3, <1>4, UpTo
<1>6. n \in E /\ f[n] \in Seq(T \cap S)
  BY <1>1, <1>2, <1>5
<1>7. \A x : In(x, Only(s, S)) <=> x \in S /\ \E i \in 1..n : x = s[i]
  BY <1>1, <1>6 DEF E
<1>8. Only(s, S) \in Seq(T \cap S)
  BY <1>1, <1>6
<1>9. \A x : x \in ToSet(Only(s, S)) <=> x \in ToSet(s) \cap S
  <2> TAKE x
  <2>1. x \in ToSet(Only(s, S)) <=> In(x, Only(s, S))
    BY <1>8, InToSet
  <2>2. x \in ToSet(s) <=> \E i \in 1..n : x = s[i]
    BY InToSet DEF n
  <2> HIDE DEF In
  <2> QED BY <1>7, <2>1, <2>2
<1> QED BY <1>8, <1>9

\* The lists of match expressions have one element, or none.
LEMMA OnlyShort ==
  ASSUME NEW T, NEW x \in T, NEW S
  PROVE  /\ Only(<<x>>, S) = IF x \in S THEN <<x>> ELSE <<>>
         /\ Only(<<>>, S) = <<>>
<1>1. Only(<<>>, S) = <<>>
  <2>1. <<>> \in Seq(T) /\ Len(<<>>) = 0
    OBVIOUS
  <2>2. PICK f : Filters(f, T, <<>>, S)
    BY <2>1, OnlyDef
  <2> QED BY <2>1, <2>2 DEF Filters
<1>2. Only(<<x>>, S) = IF x \in S THEN <<x>> ELSE <<>>
  <2> DEFINE s == <<x>>
  <2>1. s \in Seq(T) /\ Len(s) = 1 /\ s[1] = x /\ Append(<<>>, x) = <<x>>
    OBVIOUS
  <2> HIDE DEF s
  <2>2. PICK f : Filters(f, T, s, S)
    BY <2>1, OnlyDef
  <2>3. 1 \in 1..1 /\ 1 - 1 = 0
    OBVIOUS
  <2>4. f[1] = IF x \in S THEN Append(<<>>, x) ELSE <<>>
    BY <2>1, <2>2, <2>3 DEF Filters
  <2>5. Only(s, S) = f[1]
    BY <2>1, <2>2 DEF Filters
  <2> QED BY <2>1, <2>4, <2>5 DEF s
<1> QED BY <1>1, <1>2

\* FlattenSeq puts the lists one behind the other.
Joins(f, C, ss) ==
    /\ f \in [0..Len(ss) -> Seq(C)] /\ f[0] = <<>>
    /\ \A i \in 1..Len(ss) : f[i] = f[i - 1] \o ss[i]
    /\ FlattenSeq(ss) = f[Len(ss)]

LEMMA FlattenDef ==
  ASSUME NEW C, NEW ss \in Seq(Seq(C))
  PROVE  \E f : Joins(f, C, ss)
<1> DEFINE X == Seq(C)
           n == Len(ss)
           Def(f, i) == IF i = 1 THEN ss[i] ELSE f[i - 1] \o ss[i]
           step == [i \in 1..n |-> [x \in X |-> x \o ss[i]]]
           k == CHOOSE f : f = [i \in 1..n |-> Def(f, i)]
<1>1. n \in Nat /\ <<>> \in X
  OBVIOUS
<1>2. step \in [1..n -> [X -> X]]
  <2>1. ASSUME NEW i \in 1..n, NEW x \in X PROVE x \o ss[i] \in X
    <3>1. ss[i] \in Seq(C)
      OBVIOUS
    <3> QED BY <3>1
  <2> HIDE DEF X
  <2> QED BY <2>1
<1>3. \A i \in 1..n, x \in X : step[i][x] = x \o ss[i]
  OBVIOUS
<1>4. \A i \in 1..n : ss[i] \in X /\ <<>> \o ss[i] = ss[i]
  <2> TAKE i \in 1..n
  <2>1. ss[i] \in Seq(C)
    OBVIOUS
  <2> QED BY <2>1
<1> HIDE DEF step, X, n
<1>5. PICK f : Iterates(f, X, <<>>, n, step)
  BY <1>1, <1>2, Recursion
<1>6. f \in [0..n -> X] /\ f[0] = <<>> /\ \A i \in 1..n : f[i] = step[i][f[i - 1]]
  BY <1>5 DEF Iterates
<1>7. \A i \in 1..n : f[i - 1] \in X
  BY <1>1, <1>6
<1>8. \A i \in 1..n : f[i] = f[i - 1] \o ss[i]
  BY <1>3, <1>6, <1>7
<1>9. CASE n = 0
  <2>1. ss = <<>> /\ FlattenSeq(ss) = ss
    BY <1>9 DEF FlattenSeq, n
  <2> QED BY <1>6, <1>8, <1>9, <2>1 DEF X, n, Joins
<1>10. CASE n # 0
  <2> DEFINE h == [i \in 1..n |-> f[i]]
  <2>1. \A i \in 1..n : h[i] = Def(h, i)
    <3> TAKE i \in 1..n
    <3>1. CASE i = 1
      <4>1. 1 \in 1..n /\ 1 - 1 = 0
        BY <3>1
      <4>2. f[1] = <<>> \o ss[1]
        BY <1>6, <1>8, <4>1
      <4>3. f[1] = ss[1]
        BY <1>4, <4>1, <4>2
      <4> QED BY <3>1, <4>3
    <3>2. CASE i # 1
      <4>1. i - 1 \in 1..n
        BY <1>1, <3>2
      <4> QED BY <1>8, <3>2, <4>1
    <3> QED BY <3>1, <3>2
  <2>2. h = [i \in 1..n |-> Def(h, i)]
    <3> HIDE DEF Def
    <3>1. DOMAIN h = 1..n
      OBVIOUS
    <3> QED BY <2>1, <3>1
  <2>3. k = [i \in 1..n |-> Def(k, i)]
    <3> HIDE DEF h
    <3> QED BY <2>2
  <2>4. FlattenSeq(ss) = k[n]
    BY <1>10 DEF FlattenSeq, n
  <2> HIDE DEF k
  <2> DEFINE E == {i \in 0..n : i # 0 => k[i] = f[i]}
  <2>5. 0 \in E
    BY <1>1
  <2>6. ASSUME NEW i \in 1..n, i - 1 \in E PROVE i \in E
    <3>1. k[i] = Def(k, i)
      BY <2>3
    <3>2. f[i] = Def(h, i) /\ i \in 0..n
      BY <1>1, <2>1
    <3>3. CASE i = 1
      BY <3>1, <3>2, <3>3
    <3>4. CASE i # 1
      <4>1. i - 1 \in 1..n /\ i - 1 # 0
        BY <1>1, <3>4
      <4>2. k[i - 1] = f[i - 1] /\ h[i - 1] = f[i - 1]
        BY <2>6, <4>1
      <4>3. k[i] = f[i]
        BY <3>1, <3>2, <3>4, <4>2
      <4> QED BY <3>2, <4>3
    <3> QED BY <3>3, <3>4
  <2> HIDE DEF E
  <2>7. 0..n \subseteq E
    BY <1>1, <2>5, <2>6, UpTo
  <2>8. k[n] = f[n]
    BY <1>1, <1>10, <2>7 DEF E
  <2> QED BY <1>6, <1>8, <2>4, <2>8 DEF X, n, Joins
<1> QED BY <1>9, <1>10

-----------------------------------------------------------------------------
(* Lists of lists *)

LEMMA ConcatSet ==
  ASSUME NEW C, NEW s \in Seq(C), NEW t \in Seq(C)
  PROVE  s \o t \in Seq(C) /\ ToSet(s \o t) = ToSet(s) \cup ToSet(t)
<1>1. s \o t \in Seq(C)
  OBVIOUS
<1>2. /\ Len(s) \in Nat /\ Len(t) \in Nat /\ Len(s \o t) = Len(s) + Len(t)
      /\ \A i \in 1..Len(s) : (s \o t)[i] = s[i]
      /\ \A i \in 1..Len(t) : (s \o t)[Len(s) + i] = t[i]
  OBVIOUS
<1>3. \A i \in 1..(Len(s) + Len(t)) : i \in 1..Len(s) \/ \E j \in 1..Len(t) : i = Len(s) + j
  <2> TAKE i \in 1..(Len(s) + Len(t))
  <2>1. CASE i <= Len(s)
    BY <1>2, <2>1
  <2>2. CASE ~(i <= Len(s))
    <3>1. i - Len(s) \in 1..Len(t) /\ i = Len(s) + (i - Len(s))
      BY <1>2, <2>2
    <3> QED BY <3>1
  <2> QED BY <2>1, <2>2
<1>4. ASSUME NEW x PROVE x \in ToSet(s \o t) <=> x \in ToSet(s) \cup ToSet(t)
  <2>1. x \in ToSet(s) <=> \E i \in 1..Len(s) : x = s[i]
    BY InToSet
  <2>2. x \in ToSet(t) <=> \E i \in 1..Len(t) : x = t[i]
    BY InToSet
  <2>3. x \in ToSet(s \o t) <=> \E i \in 1..(Len(s) + Len(t)) : x = (s \o t)[i]
    <3>1. ASSUME NEW u \in Seq(C), NEW n, Len(u) = n
          PROVE  x \in ToSet(u) <=> \E i \in 1..n : x = u[i]
      BY <3>1, InToSet
    <3> QED BY <1>1, <1>2, <3>1
  <2>4. \A i \in 1..Len(s) : i \in 1..(Len(s) + Len(t))
    BY <1>2
  <2>5. \A i \in 1..Len(t) : Len(s) + i \in 1..(Len(s) + Len(t))
    BY <1>2
  <2>6. ASSUME x \in ToSet(s \o t) PROVE x \in ToSet(s) \cup ToSet(t)
    <3>1. PICK i \in 1..(Len(s) + Len(t)) : x = (s \o t)[i]
      BY <2>3, <2>6
    <3> QED BY <1>2, <1>3, <2>1, <2>2, <3>1
  <2>7. ASSUME x \in ToSet(s) PROVE x \in ToSet(s \o t)
    <3>1. PICK i \in 1..Len(s) : x = s[i]
      BY <2>1, <2>7
    <3> QED BY <1>2, <2>3, <2>4, <3>1
  <2>8. ASSUME x \in ToSet(t) PROVE x \in ToSet(s \o t)
    <3>1. PICK i \in 1..Len(t) : x = t[i]
      BY <2>2, <2>8
    <3>2. x = (s \o t)[Len(s) + i] /\ Len(s) + i \in 1..(Len(s) + Len(t))
      BY <1>2, <2>5, <3>1
    <3> QED BY <2>3, <3>2
  <2> QED BY <2>6, <2>7, <2>8
<1> QED BY <1>1, <1>4

\* Whatever is in P comes after something that is in Q.
Guarded(s, P, Q) == \A i \in 1..Len(s) : s[i] \in P => \E j \in 1..(i - 1) : s[j] \in Q

\* A list may follow a guarded one if it is guarded itself, or if the first one
\* already has what guards it.
LEMMA ConcatGuarded ==
  ASSUME NEW C, NEW s \in Seq(C), NEW t \in Seq(C), NEW P, NEW Q, Guarded(s, P, Q),
         Guarded(t, P, Q) \/ ToSet(s) \cap Q # {}
  PROVE  Guarded(s \o t, P, Q)
<1>1. /\ Len(s) \in Nat /\ Len(t) \in Nat /\ Len(s \o t) = Len(s) + Len(t)
      /\ \A i \in 1..Len(s) : (s \o t)[i] = s[i]
      /\ \A i \in 1..Len(t) : (s \o t)[Len(s) + i] = t[i]
  OBVIOUS
<1> SUFFICES ASSUME NEW i \in 1..(Len(s) + Len(t)), (s \o t)[i] \in P
             PROVE  \E j \in 1..(i - 1) : (s \o t)[j] \in Q
  BY <1>1 DEF Guarded
<1>2. CASE i <= Len(s)
  <2>1. i \in 1..Len(s) /\ s[i] \in P
    BY <1>1, <1>2
  <2>2. PICK j \in 1..(i - 1) : s[j] \in Q
    BY <2>1 DEF Guarded
  <2>3. j \in 1..Len(s)
    BY <1>1, <1>2
  <2> QED BY <1>1, <2>2, <2>3
<1>3. CASE ~(i <= Len(s)) /\ ToSet(s) \cap Q # {}
  <2>1. PICK j \in 1..Len(s) : s[j] \in Q
    BY <1>3, InToSet
  <2>2. j \in 1..(i - 1)
    BY <1>1, <1>3
  <2> QED BY <1>1, <2>1, <2>2
<1>4. CASE ~(i <= Len(s)) /\ Guarded(t, P, Q)
  <2>1. i - Len(s) \in 1..Len(t) /\ Len(s) + (i - Len(s)) = i
    BY <1>1, <1>4
  <2>2. t[i - Len(s)] \in P
    BY <1>1, <2>1
  <2>3. PICK j \in 1..((i - Len(s)) - 1) : t[j] \in Q
    BY <1>4, <2>1, <2>2 DEF Guarded
  <2>4. j \in 1..Len(t) /\ Len(s) + j \in 1..(i - 1)
    BY <1>1, <2>1
  <2> QED BY <1>1, <2>3, <2>4
<1> QED BY <1>2, <1>3, <1>4

LEMMA UnguardedNeeded ==
  ASSUME NEW C, NEW s \in Seq(C), NEW P, NEW Q, ToSet(s) \cap P = {}
  PROVE  Guarded(s, P, Q)
BY InToSet DEF Guarded

LEMMA FlattenHas ==
  ASSUME NEW C, NEW ss \in Seq(Seq(C))
  PROVE  /\ FlattenSeq(ss) \in Seq(C)
         /\ UNION {ToSet(ss[j]) : j \in 1..Len(ss)} \subseteq ToSet(FlattenSeq(ss))
<1>1. PICK f : Joins(f, C, ss)
  BY FlattenDef
<1> DEFINE n == Len(ss)
<1>2. /\ f \in [0..n -> Seq(C)] /\ \A i \in 1..n : f[i] = f[i - 1] \o ss[i]
      /\ FlattenSeq(ss) = f[n]
  BY <1>1 DEF Joins
<1>3. n \in Nat /\ \A i \in 1..n : ss[i] \in Seq(C)
  OBVIOUS
<1> HIDE DEF n
<1> DEFINE E == {m \in 0..n : \A j \in 1..m : ToSet(ss[j]) \subseteq ToSet(f[m])}
<1>4. 0 \in E
  BY <1>3
<1>5. ASSUME NEW m \in 1..n, m - 1 \in E PROVE m \in E
  <2>10. m - 1 \in 0..n
    BY <1>3
  <2>1. f[m - 1] \in Seq(C) /\ ss[m] \in Seq(C) /\ f[m] = f[m - 1] \o ss[m]
    BY <1>2, <1>3, <2>10
  <2>2. ToSet(f[m]) = ToSet(f[m - 1]) \cup ToSet(ss[m])
    BY <2>1, ConcatSet
  <2>3. \A j \in 1..m : j = m \/ j \in 1..(m - 1)
    BY <1>3
  <2>4. m \in 0..n
    BY <1>3
  <2> QED BY <1>5, <2>2, <2>3, <2>4
<1> HIDE DEF E
<1>6. 0..n \subseteq E
  BY <1>3, <1>4, <1>5, UpTo
<1>7. n \in E /\ f[n] \in Seq(C)
  BY <1>2, <1>3, <1>6
<1>8. \A j \in 1..n : ToSet(ss[j]) \subseteq ToSet(f[n])
  BY <1>7 DEF E
<1>9. FlattenSeq(ss) \in Seq(C)
  BY <1>2, <1>7
<1>10. \A j \in 1..Len(ss) : ToSet(ss[j]) \subseteq ToSet(FlattenSeq(ss))
  BY <1>2, <1>8 DEF n
<1>11. QED BY <1>9, <1>10

LEMMA FlattenGuarded ==
  ASSUME NEW C, NEW ss \in Seq(Seq(C)), NEW P, NEW Q,
         \A j \in 1..Len(ss) : Guarded(ss[j], P, Q)
  PROVE  Guarded(FlattenSeq(ss), P, Q)
<1> DEFINE n == Len(ss)
<1>1. PICK f : Joins(f, C, ss)
  BY FlattenDef
<1>2. /\ f \in [0..n -> Seq(C)] /\ f[0] = <<>> /\ \A i \in 1..n : f[i] = f[i - 1] \o ss[i]
      /\ FlattenSeq(ss) = f[n]
  BY <1>1 DEF Joins
<1>3. n \in Nat /\ \A i \in 1..n : ss[i] \in Seq(C) /\ Guarded(ss[i], P, Q)
  OBVIOUS
<1> HIDE DEF n
<1> DEFINE E == {m \in 0..n : Guarded(f[m], P, Q)}
<1>4. 0 \in E
  <2>1. 1..Len(<<>>) = {}
    OBVIOUS
  <2>2. Guarded(<<>>, P, Q)
    BY <2>1 DEF Guarded
  <2> QED BY <1>2, <1>3, <2>2
<1>5. ASSUME NEW m \in 1..n, m - 1 \in E PROVE m \in E
  <2>10. m - 1 \in 0..n
    BY <1>3
  <2>1. f[m - 1] \in Seq(C) /\ ss[m] \in Seq(C) /\ f[m] = f[m - 1] \o ss[m]
    BY <1>2, <1>3, <2>10
  <2>2. Guarded(f[m], P, Q)
    BY <1>3, <1>5, <2>1, ConcatGuarded
  <2> QED BY <1>3, <2>2
<1> HIDE DEF E
<1>6. 0..n \subseteq E
  BY <1>3, <1>4, <1>5, UpTo
<1> QED BY <1>2, <1>3, <1>6 DEF E

-----------------------------------------------------------------------------
(* Heads, tails and functions as lists *)

\* The calls that are left after the first.
LEMMA TailList ==
  ASSUME NEW C, NEW s \in Seq(C), s # <<>>
  PROVE  /\ Head(s) \in C /\ Tail(s) \in Seq(C)
         /\ \A x \in ToSet(s) : x = Head(s) \/ x \in ToSet(Tail(s))
<1>1. Head(s) \in C /\ Tail(s) \in Seq(C)
  OBVIOUS
<1>2. /\ Len(s) \in Nat /\ Len(s) # 0 /\ Len(Tail(s)) = Len(s) - 1 /\ Head(s) = s[1]
      /\ \A i \in 1..(Len(s) - 1) : Tail(s)[i] = s[i + 1]
  OBVIOUS
<1>3. ASSUME NEW x \in ToSet(s), x # Head(s) PROVE x \in ToSet(Tail(s))
  <2>1. PICK i \in 1..Len(s) : x = s[i]
    BY InToSet
  <2>2. i # 1
    BY <1>2, <1>3, <2>1
  <2>3. i - 1 \in 1..(Len(s) - 1) /\ (i - 1) + 1 = i
    BY <1>2, <2>2
  <2>4. x = Tail(s)[i - 1] /\ i - 1 \in 1..Len(Tail(s))
    BY <1>2, <2>1, <2>3
  <2>5. \A y : y \in ToSet(Tail(s)) <=> \E j \in 1..Len(Tail(s)) : y = Tail(s)[j]
    BY ONLY <1>1, InToSet
  <2> QED BY ONLY <2>4, <2>5
<1> QED BY <1>1, <1>3

LEMMA TailGuarded ==
  ASSUME NEW C, NEW s \in Seq(C), s # <<>>, NEW P, NEW Q, Guarded(s, P, Q)
  PROVE  Head(s) \notin P /\ (Head(s) \notin Q => Guarded(Tail(s), P, Q))
<1>1. /\ Len(s) \in Nat /\ Len(s) # 0 /\ Len(Tail(s)) = Len(s) - 1 /\ Head(s) = s[1]
      /\ \A i \in 1..(Len(s) - 1) : Tail(s)[i] = s[i + 1]
  OBVIOUS
<1>2. Head(s) \notin P
  <2>1. 1 \in 1..Len(s) /\ 1..(1 - 1) = {}
    BY <1>1
  <2> QED BY <1>1, <2>1 DEF Guarded
<1>3. ASSUME Head(s) \notin Q, NEW i \in 1..(Len(s) - 1), Tail(s)[i] \in P
      PROVE  \E j \in 1..(i - 1) : Tail(s)[j] \in Q
  <2>1. i + 1 \in 1..Len(s) /\ (i + 1) - 1 = i /\ s[i + 1] \in P
    BY <1>1, <1>3
  <2>2. PICK j \in 1..i : s[j] \in Q
    BY <2>1 DEF Guarded
  <2>3. j # 1
    BY <1>1, <1>3, <2>2
  <2>4. j - 1 \in 1..(Len(s) - 1) /\ (j - 1) + 1 = j /\ j - 1 \in 1..(i - 1)
    BY <1>1, <2>3
  <2>5. Tail(s)[j - 1] = s[j]
    BY <1>1, <2>4
  <2> QED BY <2>2, <2>4, <2>5
<1> QED BY <1>1, <1>2, <1>3 DEF Guarded

IsList(m, n, U) == m = [i \in 1..n |-> m[i]] /\ \A i \in 1..n : m[i] \in U

LEMMA Mapped ==
  ASSUME NEW n \in Nat, NEW U, NEW m, IsList(m, n, U)
  PROVE  /\ m \in Seq(U) /\ Len(m) = n
         /\ \A x : x \in ToSet(m) <=> \E i \in 1..n : x = m[i]
<1>1. m \in Seq(U) /\ Len(m) = n
  BY DEF IsList
<1>2. \A x : x \in ToSet(m) <=> \E i \in 1..Len(m) : x = m[i]
  BY ONLY <1>1, InToSet
<1> QED BY ONLY <1>1, <1>2

LEMMA ReverseList ==
  ASSUME NEW T, NEW s \in Seq(T)
  PROVE  /\ Reverse(s) \in Seq(T) /\ Len(Reverse(s)) = Len(s)
         /\ \A i \in 1..Len(s) : Reverse(s)[i] = s[(Len(s) - i) + 1]
         /\ ToSet(Reverse(s)) = ToSet(s)
<1> DEFINE n == Len(s)
           m == Reverse(s)
<1>1. n \in Nat /\ \A i \in 1..n : s[i] \in T
  OBVIOUS
<1>2. m = [i \in 1..n |-> s[(n - i) + 1]]
  BY DEF Reverse
<1>3. \A x : x \in ToSet(s) <=> \E i \in 1..n : x = s[i]
  BY InToSet
<1> HIDE DEF m, n
<1>4. \A i \in 1..n : (n - i) + 1 \in 1..n /\ (n - ((n - i) + 1)) + 1 = i
  BY <1>1
<1>5. IsList(m, n, T) /\ \A i \in 1..n : m[i] = s[(n - i) + 1]
  BY <1>1, <1>2, <1>4 DEF IsList
<1>6. /\ m \in Seq(T) /\ Len(m) = n
      /\ \A x : x \in ToSet(m) <=> \E i \in 1..n : x = m[i]
  BY ONLY <1>1, <1>5, Mapped
<1>7. \A i \in 1..n : s[i] = m[(n - i) + 1]
  BY <1>4, <1>5
<1>8. ASSUME NEW x PROVE x \in ToSet(m) <=> x \in ToSet(s)
  <2>1. ASSUME x \in ToSet(m) PROVE x \in ToSet(s)
    <3>1. PICK i \in 1..n : x = m[i]
      BY <1>6, <2>1
    <3> QED BY <1>3, <1>4, <1>5, <3>1
  <2>2. ASSUME x \in ToSet(s) PROVE x \in ToSet(m)
    <3>1. PICK i \in 1..n : x = s[i]
      BY <1>3, <2>2
    <3>2. x = m[(n - i) + 1] /\ (n - i) + 1 \in 1..n
      BY <1>4, <1>7, <3>1
    <3> QED BY ONLY <1>6, <3>2
  <2> QED BY <2>1, <2>2
<1> QED BY <1>5, <1>6, <1>8 DEF m, n

LEMMA OnlyAll ==
  ASSUME NEW T, NEW s \in Seq(T), NEW S, ToSet(s) \subseteq S
  PROVE  Only(s, S) = s
<1> DEFINE n == Len(s)
<1>1. PICK f : Filters(f, T, s, S)
  BY OnlyDef
<1>2. /\ f \in [0..n -> Seq(T \cap S)] /\ f[0] = <<>> /\ Only(s, S) = f[n]
      /\ \A i \in 1..n : f[i] = IF s[i] \in S THEN Append(f[i - 1], s[i]) ELSE f[i - 1]
  BY <1>1 DEF Filters
<1>3. n \in Nat /\ \A i \in 1..n : s[i] \in S
  BY InToSet
<1> HIDE DEF n
<1> DEFINE E == {m \in 0..n : Len(f[m]) = m /\ \A i \in 1..m : f[m][i] = s[i]}
<1>4. 0 \in E
  <2>1. Len(<<>>) = 0 /\ 1..0 = {} /\ 0 \in 0..n
    BY <1>3
  <2> QED BY <1>2, <2>1
<1>5. ASSUME NEW m \in 1..n, m - 1 \in E PROVE m \in E
  <2>1. m \in 0..n /\ m - 1 \in 0..n /\ (m - 1) + 1 = m
    BY <1>3
  <2>2. f[m - 1] \in Seq(T \cap S) /\ f[m] = Append(f[m - 1], s[m])
    BY <1>2, <1>3, <2>1
  <2>3. Len(f[m - 1]) = m - 1 /\ \A i \in 1..(m - 1) : f[m - 1][i] = s[i]
    BY <1>5
  <2>4. s[m] \in T \cap S
    BY <1>3 DEF n
  <2>5. Len(f[m]) = Len(f[m - 1]) + 1 /\ f[m][Len(f[m - 1]) + 1] = s[m]
        /\ \A i \in 1..Len(f[m - 1]) : f[m][i] = f[m - 1][i]
    BY <2>2, <2>4
  <2>6. \A i \in 1..m : i = m \/ i \in 1..(m - 1)
    BY <1>3
  <2>7. Len(f[m]) = m /\ f[m][m] = s[m] /\ \A i \in 1..(m - 1) : f[m][i] = s[i]
    BY <2>1, <2>3, <2>5
  <2> QED BY <2>1, <2>6, <2>7
<1> HIDE DEF E
<1>6. 0..n \subseteq E
  BY <1>3, <1>4, <1>5, UpTo
<1>7. n \in 0..n
  BY <1>3
<1>8. f[n] \in Seq(T \cap S) /\ Len(f[n]) = n /\ \A i \in 1..n : f[n][i] = s[i]
  BY <1>2, <1>6, <1>7 DEF E
<1>9. f[n] = s
  BY <1>8 DEF n
<1> QED BY <1>2, <1>9

\* A list whose front is in the set and whose rest is not.
LEMMA OnlyFront ==
  ASSUME NEW T, NEW a \in Seq(T), NEW b \in Seq(T), NEW S,
         ToSet(a) \subseteq S, ToSet(b) \cap S = {}
  PROVE  Only(a \o b, S) = a
<1> DEFINE s == a \o b
           l == Len(a)
           n == Len(s)
<1>1. /\ s \in Seq(T) /\ l \in Nat /\ n \in Nat /\ n = l + Len(b) /\ l <= n
      /\ \A i \in 1..l : s[i] = a[i]
      /\ \A i \in (l + 1)..n : s[i] = b[i - l] /\ i - l \in 1..Len(b)
  OBVIOUS
<1>2. PICK f : Filters(f, T, s, S)
  BY <1>1, OnlyDef
<1>3. /\ f \in [0..n -> Seq(T \cap S)] /\ f[0] = <<>> /\ Only(s, S) = f[n]
      /\ \A i \in 1..n : f[i] = IF s[i] \in S THEN Append(f[i - 1], s[i]) ELSE f[i - 1]
  BY <1>2 DEF Filters
<1>4. (\A i \in 1..l : a[i] \in S) /\ (\A i \in 1..Len(b) : b[i] \notin S)
  BY InToSet
<1>5. \A i \in 1..l : a[i] \in T
  OBVIOUS
<1> HIDE DEF s, l, n
<1> DEFINE Begins(m) == /\ Len(f[m]) = IF m <= l THEN m ELSE l
                        /\ \A i \in 1..Len(f[m]) : f[m][i] = a[i]
           E == {m \in 0..n : Begins(m)}
<1>6. 0 \in E
  <2>1. Len(<<>>) = 0 /\ 1..0 = {} /\ 0 \in 0..n /\ 0 <= l
    BY <1>1
  <2> QED BY <1>3, <2>1
<1>7. ASSUME NEW m \in 1..n, m - 1 \in E PROVE m \in E
  <2>1. m \in 0..n /\ m - 1 \in 0..n /\ (m - 1) + 1 = m
    BY <1>1
  <2>2. CASE m <= l
    <3>1. m \in 1..l /\ m - 1 <= l
      BY <1>1, <2>2
    <3>2. f[m - 1] \in Seq(T \cap S) /\ f[m] = Append(f[m - 1], a[m]) /\ a[m] \in T \cap S
      BY <1>1, <1>3, <1>4, <1>5, <2>1, <3>1
    <3>3. Len(f[m - 1]) = m - 1 /\ \A i \in 1..(m - 1) : f[m - 1][i] = a[i]
      BY <1>7, <3>1
    <3>4. /\ Len(f[m]) = Len(f[m - 1]) + 1 /\ f[m][Len(f[m - 1]) + 1] = a[m]
          /\ \A i \in 1..Len(f[m - 1]) : f[m][i] = f[m - 1][i]
      BY <3>2
    <3>5. Len(f[m]) = m /\ f[m][m] = a[m] /\ \A i \in 1..(m - 1) : f[m][i] = a[i]
      BY <2>1, <3>3, <3>4
    <3>6. \A i \in 1..m : i = m \/ i \in 1..(m - 1)
      BY <2>1
    <3> QED BY <2>1, <2>2, <3>5, <3>6
  <2>3. CASE ~(m <= l)
    <3>1. m \in (l + 1)..n
      BY <1>1, <2>3
    <3>2. s[m] \notin S
      BY <1>1, <1>4, <3>1
    <3>3. f[m] = f[m - 1]
      BY <1>3, <3>2
    <3>4. Len(f[m - 1]) = l
      <4>1. CASE m - 1 = l
        BY <1>1, <1>7, <4>1
      <4>2. CASE m - 1 # l
        <5>1. ~(m - 1 <= l)
          BY <1>1, <3>1, <4>2
        <5> QED BY <1>7, <5>1
      <4> QED BY <4>1, <4>2
    <3> QED BY <1>7, <2>1, <2>3, <3>3, <3>4
  <2> QED BY <2>2, <2>3
<1> HIDE DEF E
<1>8. 0..n \subseteq E
  BY <1>1, <1>6, <1>7, UpTo
<1>9. n \in 0..n
  BY <1>1
<1>10. f[n] \in Seq(T \cap S) /\ Begins(n)
  BY <1>3, <1>8, <1>9 DEF E
<1>11. Len(f[n]) = l
  BY <1>1, <1>10
<1>12. f[n] = a
  <2> DEFINE g == f[n]
  <2>1. g \in Seq(T) /\ Len(g) = Len(a) /\ \A i \in 1..Len(g) : g[i] = a[i]
    BY <1>10, <1>11 DEF l
  <2> HIDE DEF g
  <2>2. g = a
    BY <2>1
  <2> QED BY <2>2 DEF g
<1> QED BY <1>3, <1>12 DEF s
=============================================================================
