--------------------------- MODULE RenderingProofs ---------------------------
(***************************************************************************)
(* The rendering of a Deployment for every cluster and every KedaController *)
(* (Rendering): what the transformers do to lists of any length, what each  *)
(* step does to the Deployment, the invariant of the order in which the     *)
(* transformers are lined up, and the properties that follow.               *)
(***************************************************************************)
EXTENDS Rendering, ListsProofs, FiniteSetTheorems

-----------------------------------------------------------------------------
(* Lists of entries *)

\* No two entries have the name.
Once(list, n) ==
    \A i, j \in 1..Len(list) : list[i].name = n /\ list[j].name = n => i = j

\* No entry with one of the names comes twice.
NoTwins(list, free) ==
    \A i, j \in 1..Len(list) : list[i] = list[j] /\ list[i].name \in free => i = j

\* What one new entry makes of a list: it is there, it has replaced nothing but
\* an entry of its name (and not even that if its name is one of free), and the
\* names stay as unique as they were.
Sets(list, e, out, free) ==
    /\ out \in Seq(Entries)
    /\ NamesOf(out) = NamesOf(list) \cup {e.name}
    /\ e \in ToSet(out)
    /\ \A x \in ToSet(list) : x.name # e.name \/ x.name \in free => x \in ToSet(out)
    /\ \A n : n \notin free /\ Once(list, n) => Once(out, n)
    /\ NoTwins(list, free) => NoTwins(out, free)

\* What a list of new entries makes of a list: the same, and of the new entries
\* those stay that no later one replaces.
SetsAll(list, new, out, free) ==
    /\ out \in Seq(Entries)
    /\ NamesOf(out) = NamesOf(list) \cup NamesOf(new)
    /\ \A x \in ToSet(list) : x.name \notin NamesOf(new) \/ x.name \in free => x \in ToSet(out)
    /\ \A i \in 1..Len(new) :
         \/ new[i].name \in free
         \/ \A j \in i..Len(new) : new[j].name = new[i].name => new[j] = new[i]
         => new[i] \in ToSet(out)
    /\ \A n : n \notin free /\ Once(list, n) => Once(out, n)
    /\ NoTwins(list, free) => NoTwins(out, free)

LEMMA InNames ==
  ASSUME NEW T, NEW s \in Seq(T), NEW n
  PROVE  n \in NamesOf(s) <=> \E i \in 1..Len(s) : s[i].name = n
BY DEF NamesOf

LEMMA NamesOfSet ==
  ASSUME NEW T, NEW s \in Seq(T)
  PROVE  NamesOf(s) = {e.name : e \in ToSet(s)}
BY DEF NamesOf, ToSet

\* The names looked up are found at their first position.
LEMMA FirstOfIs ==
  ASSUME NEW T, NEW s \in Seq(T), NEW n \in NamesOf(s)
  PROVE  FirstOf(s, n) \in 1..Len(s) /\ s[FirstOf(s, n)].name = n
<1> DEFINE P(i) == s[i].name = n /\ \A j \in 1..(i - 1) : s[j].name # n
<1>1. \E i \in 1..Len(s) : P(i)
  <2> SUFFICES ASSUME \A i \in 1..Len(s) : ~P(i) PROVE FALSE
    OBVIOUS
  <2> DEFINE E == {m \in 0..Len(s) : \A j \in 1..m : s[j].name # n}
  <2>0. Len(s) \in Nat
    OBVIOUS
  <2>1. 0 \in E
    BY <2>0
  <2>2. ASSUME NEW m \in 1..Len(s), m - 1 \in E PROVE m \in E
    <3>1. s[m].name # n
      BY <2>0, <2>2
    <3>2. \A j \in 1..m : j = m \/ j \in 1..(m - 1)
      BY <2>0
    <3> QED BY <2>0, <2>2, <3>1, <3>2
  <2> HIDE DEF E
  <2>3. 0..Len(s) \subseteq E
    BY <2>0, <2>1, <2>2, UpTo
  <2>4. Len(s) \in E
    BY <2>0, <2>3
  <2> QED BY <2>4, InNames DEF E
<1>2. DOMAIN s = 1..Len(s)
  OBVIOUS
<1>3. FirstOf(s, n) = CHOOSE i \in 1..Len(s) : P(i)
  BY <1>2 DEF FirstOf
<1> HIDE DEF P
<1>4. FirstOf(s, n) \in 1..Len(s) /\ P(FirstOf(s, n))
  BY <1>1, <1>3
<1> QED BY <1>4 DEF P

LEMMA PutSets ==
  ASSUME NEW list \in Seq(Entries), NEW e \in Entries
  PROVE  Put(list, e) \in Seq(Entries) /\ Sets(list, e, Put(list, e), {})
<1> DEFINE out == Put(list, e)
           n == Len(list)
<1>0. n \in Nat /\ \A i \in 1..n : list[i] \in Entries
  OBVIOUS
<1>1. CASE e.name \in NamesOf(list)
  <2> DEFINE k == FirstOf(list, e.name)
  <2>1. k \in 1..n /\ list[k].name = e.name
    BY <1>1, FirstOfIs
  <2>2. out = [list EXCEPT ![k] = e]
    BY <1>1 DEF Put
  <2> HIDE DEF k, out
  <2>3. out \in Seq(Entries) /\ Len(out) = n
        /\ out[k] = e /\ \A i \in 1..n : i # k => out[i] = list[i]
    BY <2>1, <2>2
  <2>4. \A i \in 1..n : out[i].name = list[i].name
    BY <2>1, <2>3
  <2>5. \A x : x \in ToSet(out) <=> \E i \in 1..n : x = out[i]
    BY <2>3, InToSet
  <2>6. \A x : x \in ToSet(list) <=> \E i \in 1..n : x = list[i]
    BY InToSet
  <2>7. \A x : x \in NamesOf(out) <=> \E i \in 1..n : out[i].name = x
    BY <2>3, InNames
  <2>8. \A x : x \in NamesOf(list) <=> \E i \in 1..n : list[i].name = x
    BY InNames
  <2>9. NamesOf(out) = NamesOf(list) \cup {e.name}
    BY <1>1, <2>4, <2>7, <2>8
  <2>10. e \in ToSet(out)
    BY <2>1, <2>3, <2>5
  <2>11. \A x \in ToSet(list) : x.name # e.name => x \in ToSet(out)
    BY <2>1, <2>3, <2>5, <2>6
  <2>12. \A m : Once(list, m) => Once(out, m)
    BY <2>3, <2>4 DEF Once
  <2> QED BY <2>3, <2>9, <2>10, <2>11, <2>12 DEF Sets, NoTwins, out
<1>2. CASE e.name \notin NamesOf(list)
  <2>2. out = Append(list, e)
    BY <1>2 DEF Put
  <2> HIDE DEF out
  <2>3. out \in Seq(Entries) /\ Len(out) = n + 1
        /\ out[n + 1] = e /\ \A i \in 1..n : out[i] = list[i]
    BY <2>2
  <2>4. 1..(n + 1) = (1..n) \cup {n + 1}
    BY <1>0
  <2>5. \A x : x \in ToSet(out) <=> \E i \in 1..(n + 1) : x = out[i]
    BY <2>3, InToSet
  <2>6. \A x : x \in ToSet(list) <=> \E i \in 1..n : x = list[i]
    BY InToSet
  <2>7. \A x : x \in NamesOf(out) <=> \E i \in 1..(n + 1) : out[i].name = x
    BY <2>3, InNames
  <2>8. \A x : x \in NamesOf(list) <=> \E i \in 1..n : list[i].name = x
    BY InNames
  <2>9. NamesOf(out) = NamesOf(list) \cup {e.name}
    BY <2>3, <2>4, <2>7, <2>8
  <2>10. e \in ToSet(out)
    BY <2>3, <2>4, <2>5
  <2>11. \A x \in ToSet(list) : x \in ToSet(out)
    BY <2>3, <2>4, <2>5, <2>6
  <2>12. \A i \in 1..n : list[i].name # e.name
    BY <1>2, <2>8
  <2>13. ASSUME NEW m, Once(list, m) PROVE Once(out, m)
    BY <2>3, <2>4, <2>12, <2>13 DEF Once
  <2> QED BY <2>3, <2>9, <2>10, <2>11, <2>13 DEF Sets, NoTwins, out
<1> QED BY <1>1, <1>2

LEMMA ArgSets ==
  ASSUME NEW list \in Seq(Entries), NEW e \in Entries
  PROVE  /\ replaceContainerArg(list, e) \in Seq(Entries)
         /\ Sets(list, e, replaceContainerArg(list, e), {""})
<1> DEFINE out == replaceContainerArg(list, e)
           n == Len(list)
<1>0. n \in Nat /\ DOMAIN list = 1..n
  OBVIOUS
<1>6. \A x : x \in ToSet(list) <=> \E i \in 1..n : x = list[i]
  BY InToSet
<1>8. \A x : x \in NamesOf(list) <=> \E i \in 1..n : list[i].name = x
  BY InNames
<1>1. CASE e.name # ""
  <2>1. out = Put(list, e)
    BY <1>1 DEF replaceContainerArg
  <2>2. out \in Seq(Entries) /\ Sets(list, e, out, {})
    BY <2>1, PutSets
  <2>3. ASSUME NoTwins(list, {""}) PROVE NoTwins(out, {""})
    <3>1. CASE e.name \in NamesOf(list)
      <4> DEFINE k == FirstOf(list, e.name)
      <4>1. k \in 1..n /\ list[k].name = e.name
        BY <3>1, FirstOfIs
      <4>2. out = [list EXCEPT ![k] = e]
        BY <2>1, <3>1 DEF Put
      <4> HIDE DEF k, out
      <4>3. Len(out) = n /\ out[k] = e /\ \A i \in 1..n : i # k => out[i] = list[i]
        BY <4>1, <4>2
      <4> QED BY <1>1, <2>3, <4>3 DEF NoTwins
    <3>2. CASE e.name \notin NamesOf(list)
      <4>2. out = Append(list, e)
        BY <2>1, <3>2 DEF Put
      <4> HIDE DEF out
      <4>3. Len(out) = n + 1 /\ out[n + 1] = e /\ \A i \in 1..n : out[i] = list[i]
        BY <4>2
      <4>4. 1..(n + 1) = (1..n) \cup {n + 1}
        BY <1>0
      <4> QED BY <1>1, <2>3, <4>3, <4>4 DEF NoTwins
    <3> QED BY <3>1, <3>2
  <2>4. \A x \in ToSet(list) : x.name # e.name \/ x.name \in {""} => x \in ToSet(out)
    BY <1>1, <2>2 DEF Sets
  <2> HIDE DEF out
  <2> QED BY <2>2, <2>3, <2>4 DEF Sets, out
<1>2. CASE e.name = "" /\ e \in ToSet(list)
  <2>1. out = list
    BY <1>0, <1>2, <1>6 DEF replaceContainerArg
  <2>2. "" \in NamesOf(list)
    BY <1>2, <1>6, <1>8
  <2> HIDE DEF out
  <2> QED BY <1>2, <2>1, <2>2 DEF Sets, out
<1>3. CASE e.name = "" /\ e \notin ToSet(list)
  <2>2. out = Append(list, e)
    BY <1>0, <1>3, <1>6 DEF replaceContainerArg
  <2> HIDE DEF out
  <2>3. out \in Seq(Entries) /\ Len(out) = n + 1
        /\ out[n + 1] = e /\ \A i \in 1..n : out[i] = list[i]
    BY <2>2
  <2>4. 1..(n + 1) = (1..n) \cup {n + 1}
    BY <1>0
  <2>5. \A x : x \in ToSet(out) <=> \E i \in 1..(n + 1) : x = out[i]
    BY <2>3, InToSet
  <2>7. \A x : x \in NamesOf(out) <=> \E i \in 1..(n + 1) : out[i].name = x
    BY <2>3, InNames
  <2>9. NamesOf(out) = NamesOf(list) \cup {e.name}
    BY <1>8, <2>3, <2>4, <2>7
  <2>10. e \in ToSet(out)
    BY <2>3, <2>4, <2>5
  <2>11. \A x \in ToSet(list) : x \in ToSet(out)
    BY <1>6, <2>3, <2>4, <2>5
  <2>12. \A i \in 1..n : list[i] # e
    BY <1>3, <1>6
  <2>13. ASSUME NEW m, m # "", Once(list, m) PROVE Once(out, m)
    BY <1>3, <2>3, <2>4, <2>13 DEF Once
  <2>14. ASSUME NoTwins(list, {""}) PROVE NoTwins(out, {""})
    <3> SUFFICES ASSUME NEW i \in 1..(n + 1), NEW j \in 1..(n + 1), out[i] = out[j],
                        out[i].name \in {""}
                 PROVE  i = j
      BY <2>3 DEF NoTwins
    <3>1. \A k, l \in 1..n : list[k] = list[l] /\ list[k].name \in {""} => k = l
      BY <2>14 DEF NoTwins
    <3>2. CASE i \in 1..n /\ j \in 1..n
      BY <2>3, <3>1, <3>2
    <3>3. CASE i = n + 1 \/ j = n + 1
      BY <2>3, <2>4, <2>12, <3>3
    <3> QED BY <2>4, <3>2, <3>3
  <2> QED BY <2>3, <2>9, <2>10, <2>11, <2>13, <2>14 DEF Sets, out
<1> QED BY <1>1, <1>2, <1>3

\* A list that new entries are put into one after the other.
Folds(f, list, new, free) ==
    /\ f \in [0..Len(new) -> Seq(Entries)] /\ f[0] = list
    /\ \A i \in 1..Len(new) : Sets(f[i - 1], new[i], f[i], free)

LEMMA FoldSets ==
  ASSUME NEW list \in Seq(Entries), NEW new \in Seq(Entries), NEW free, NEW f,
         Folds(f, list, new, free)
  PROVE  SetsAll(list, new, f[Len(new)], free)
<1> DEFINE n == Len(new)
<1>1. n \in Nat /\ f \in [0..n -> Seq(Entries)] /\ f[0] = list
  BY DEF Folds
<1>2. \A i \in 1..n : Sets(f[i - 1], new[i], f[i], free)
  BY DEF Folds
<1>3. \A x : x \in NamesOf(new) <=> \E i \in 1..n : new[i].name = x
  BY InNames
<1> HIDE DEF n
<1> DEFINE Names(m) == NamesOf(f[m]) = NamesOf(list) \cup {new[i].name : i \in 1..m}
           Others(m) == \A x \in ToSet(list) :
                          (\A i \in 1..m : new[i].name # x.name) \/ x.name \in free
                            => x \in ToSet(f[m])
           Stays(m) == \A i \in 1..m :
                         \/ new[i].name \in free
                         \/ \A j \in i..m : new[j].name = new[i].name => new[j] = new[i]
                         => new[i] \in ToSet(f[m])
           Single(m) == /\ \A x : x \notin free /\ Once(list, x) => Once(f[m], x)
                        /\ NoTwins(list, free) => NoTwins(f[m], free)
           E == {m \in 0..n : Names(m) /\ Others(m) /\ Stays(m) /\ Single(m)}
<1>4. 0 \in E
  BY <1>1
<1>5. ASSUME NEW m \in 1..n, m - 1 \in E PROVE m \in E
  <2>1. m \in 0..n /\ Sets(f[m - 1], new[m], f[m], free)
    BY <1>1, <1>2
  <2>2. \A j \in 1..m : j = m \/ j \in 1..(m - 1)
    BY <1>1
  <2>3. Names(m - 1) /\ Others(m - 1) /\ Stays(m - 1) /\ Single(m - 1)
    BY <1>5
  <2>4. 1..m = (1..(m - 1)) \cup {m}
    BY <1>1
  <2>5. Names(m)
    <3>1. NamesOf(f[m]) = NamesOf(f[m - 1]) \cup {new[m].name}
      BY <2>1 DEF Sets
    <3> QED BY <2>3, <2>4, <3>1
  <2>6. \A x \in ToSet(f[m - 1]) : x.name # new[m].name \/ x.name \in free => x \in ToSet(f[m])
    BY <2>1 DEF Sets
  <2>7. Others(m)
    BY <2>3, <2>4, <2>6
  <2>8. Stays(m)
    <3> SUFFICES ASSUME NEW i \in 1..m,
                        \/ new[i].name \in free
                        \/ \A j \in i..m : new[j].name = new[i].name => new[j] = new[i]
                 PROVE  new[i] \in ToSet(f[m])
      OBVIOUS
    <3>1. new[m] \in ToSet(f[m])
      BY <2>1 DEF Sets
    <3>2. CASE i = m
      BY <3>1, <3>2
    <3>3. CASE i # m
      <4>1. i \in 1..(m - 1) /\ m \in i..m /\ \A j \in i..(m - 1) : j \in i..m
        BY <1>1, <3>3
      <4>2. new[i] \in ToSet(f[m - 1])
        BY <2>3, <4>1
      <4>3. CASE new[i].name \in free \/ new[i].name # new[m].name
        BY <2>6, <4>2, <4>3
      <4>4. CASE new[i].name \notin free /\ new[i].name = new[m].name
        BY <3>1, <4>1, <4>4
      <4> QED BY <4>3, <4>4
    <3> QED BY <3>2, <3>3
  <2>9. Single(m)
    BY <2>1, <2>3 DEF Sets
  <2> HIDE DEF Names, Others, Stays, Single
  <2> QED BY <2>1, <2>5, <2>7, <2>8, <2>9
<1> HIDE DEF E
<1>6. 0..n \subseteq E
  BY <1>1, <1>4, <1>5, UpTo
<1>7. n \in E
  BY <1>1, <1>6
<1>8. Names(n) /\ Others(n) /\ Stays(n) /\ Single(n)
  BY <1>7 DEF E
<1>9. f[n] \in Seq(Entries) /\ NamesOf(f[n]) = NamesOf(list) \cup NamesOf(new)
  <2>1. {new[i].name : i \in 1..n} = NamesOf(new)
    <3> HIDE DEF Names, Others, Stays, Single
    <3> QED BY <1>3
  <2>2. Names(n) /\ n \in 0..n
    <3> HIDE DEF Names, Others, Stays, Single
    <3> QED BY <1>1, <1>8
  <2>3. NamesOf(f[n]) = NamesOf(list) \cup {new[i].name : i \in 1..n}
    BY <2>2
  <2> QED BY <1>1, <2>1, <2>2, <2>3
<1>10. \A x \in ToSet(list) :
         x.name \notin NamesOf(new) \/ x.name \in free => x \in ToSet(f[n])
  <2> SUFFICES ASSUME NEW x \in ToSet(list), x.name \notin NamesOf(new) \/ x.name \in free
               PROVE  x \in ToSet(f[n])
    OBVIOUS
  <2>1. (\A i \in 1..n : new[i].name # x.name) \/ x.name \in free
    <3> HIDE DEF Names, Others, Stays, Single
    <3> QED BY <1>3
  <2>2. Others(n)
    <3> HIDE DEF Names, Others, Stays, Single
    <3> QED BY <1>8
  <2> QED BY <2>1, <2>2
<1> QED BY <1>8, <1>9, <1>10 DEF SetsAll, n

LEMMA PutAllSets ==
  ASSUME NEW list \in Seq(Entries), NEW new \in Seq(Entries)
  PROVE  SetsAll(list, new, PutAll(list, new), {})
<1> DEFINE X == Seq(Entries)
           n == Len(new)
           Def(f, i) == IF i = 0 THEN list ELSE Put(f[i - 1], new[i])
           step == [i \in 1..n |-> [x \in X |-> Put(x, new[i])]]
           k == CHOOSE f : f = [i \in 0..n |-> Def(f, i)]
<1>1. n \in Nat /\ list \in X /\ \A i \in 1..n : new[i] \in Entries
  OBVIOUS
<1>2. \A i \in 1..n, x \in X : Put(x, new[i]) \in X /\ Sets(x, new[i], Put(x, new[i]), {})
  BY <1>1, PutSets
<1>3. step \in [1..n -> [X -> X]] /\ \A i \in 1..n, x \in X : step[i][x] = Put(x, new[i])
  <2> HIDE DEF X
  <2> QED BY <1>2
<1>9. PutAll(list, new) = k[n]
  BY DEF PutAll, n
<1> HIDE DEF step, X, n
<1>4. PICK f : Iterates(f, X, list, n, step)
  BY <1>1, <1>3, Recursion
<1>5. f \in [0..n -> X] /\ f[0] = list /\ \A i \in 1..n : f[i - 1] \in X /\ f[i] = step[i][f[i - 1]]
  <2>1. \A i \in 1..n : i - 1 \in 0..n
    BY <1>1
  <2> QED BY <1>4, <2>1 DEF Iterates
<1>6. \A i \in 1..n : f[i] = Put(f[i - 1], new[i])
  BY <1>3, <1>5
<1>7. f = [i \in 0..n |-> Def(f, i)]
  <2>1. \A i \in 0..n : f[i] = Def(f, i)
    <3> TAKE i \in 0..n
    <3>1. CASE i = 0
      BY <1>5, <3>1
    <3>2. CASE i # 0
      <4>1. i \in 1..n
        BY <1>1, <3>2
      <4> QED BY <1>6, <3>2, <4>1
    <3> QED BY <3>1, <3>2
  <2> HIDE DEF Def
  <2> QED BY <1>5, <2>1
<1>8. k = [i \in 0..n |-> Def(k, i)]
  BY <1>7
<1> HIDE DEF k
<1> DEFINE E == {i \in 0..n : k[i] = f[i]}
<1>10. 0 \in E
  BY <1>1, <1>5, <1>8
<1>11. ASSUME NEW i \in 1..n, i - 1 \in E PROVE i \in E
  <2>1. i \in 0..n /\ i # 0
    BY <1>1
  <2>2. k[i] = Put(k[i - 1], new[i])
    BY <1>8, <2>1
  <2> QED BY <1>6, <1>11, <2>1, <2>2
<1> HIDE DEF E
<1>12. 0..n \subseteq E
  BY <1>1, <1>10, <1>11, UpTo
<1>13. k[n] = f[n]
  BY <1>1, <1>12 DEF E
<1>14. \A i \in 1..n : Sets(f[i - 1], new[i], f[i], {})
  BY <1>2, <1>5, <1>6
<1>15. Folds(f, list, new, {})
  BY <1>5, <1>14 DEF Folds, X, n
<1> QED BY <1>9, <1>13, <1>15, FoldSets DEF n

LEMMA SetArgsSets ==
  ASSUME NEW list \in Seq(Entries), NEW new \in Seq(Entries)
  PROVE  SetsAll(list, new, SetArgs(list, new), {""})
<1> DEFINE X == Seq(Entries)
           n == Len(new)
           Def(f, i) == IF i = 0 THEN list ELSE replaceContainerArg(f[i - 1], new[i])
           step == [i \in 1..n |-> [x \in X |-> replaceContainerArg(x, new[i])]]
           k == CHOOSE f : f = [i \in 0..n |-> Def(f, i)]
<1>1. n \in Nat /\ list \in X /\ \A i \in 1..n : new[i] \in Entries
  OBVIOUS
<1>2. \A i \in 1..n, x \in X :
         replaceContainerArg(x, new[i]) \in X /\ Sets(x, new[i], replaceContainerArg(x, new[i]), {""})
  BY <1>1, ArgSets
<1>3. /\ step \in [1..n -> [X -> X]]
      /\ \A i \in 1..n, x \in X : step[i][x] = replaceContainerArg(x, new[i])
  <2> HIDE DEF X
  <2> QED BY <1>2
<1>9. SetArgs(list, new) = k[n]
  BY DEF SetArgs, n
<1> HIDE DEF step, X, n
<1>4. PICK f : Iterates(f, X, list, n, step)
  BY <1>1, <1>3, Recursion
<1>5. f \in [0..n -> X] /\ f[0] = list /\ \A i \in 1..n : f[i - 1] \in X /\ f[i] = step[i][f[i - 1]]
  <2>1. \A i \in 1..n : i - 1 \in 0..n
    BY <1>1
  <2> QED BY <1>4, <2>1 DEF Iterates
<1>6. \A i \in 1..n : f[i] = replaceContainerArg(f[i - 1], new[i])
  BY <1>3, <1>5
<1>7. f = [i \in 0..n |-> Def(f, i)]
  <2>1. \A i \in 0..n : f[i] = Def(f, i)
    <3> TAKE i \in 0..n
    <3>1. CASE i = 0
      BY <1>5, <3>1
    <3>2. CASE i # 0
      <4>1. i \in 1..n
        BY <1>1, <3>2
      <4> QED BY <1>6, <3>2, <4>1
    <3> QED BY <3>1, <3>2
  <2> HIDE DEF Def
  <2> QED BY <1>5, <2>1
<1>8. k = [i \in 0..n |-> Def(k, i)]
  BY <1>7
<1> HIDE DEF k
<1> DEFINE E == {i \in 0..n : k[i] = f[i]}
<1>10. 0 \in E
  BY <1>1, <1>5, <1>8
<1>11. ASSUME NEW i \in 1..n, i - 1 \in E PROVE i \in E
  <2>1. i \in 0..n /\ i # 0
    BY <1>1
  <2>2. k[i] = replaceContainerArg(k[i - 1], new[i])
    BY <1>8, <2>1
  <2> QED BY <1>6, <1>11, <2>1, <2>2
<1> HIDE DEF E
<1>12. 0..n \subseteq E
  BY <1>1, <1>10, <1>11, UpTo
<1>13. k[n] = f[n]
  BY <1>1, <1>12 DEF E
<1>14. \A i \in 1..n : Sets(f[i - 1], new[i], f[i], {""})
  BY <1>2, <1>5, <1>6
<1>15. Folds(f, list, new, {""})
  BY <1>5, <1>14 DEF Folds, X, n
<1> QED BY <1>9, <1>13, <1>15, FoldSets DEF n

LEMMA SetsNothing ==
  ASSUME NEW list \in Seq(Entries), NEW free
  PROVE  SetsAll(list, <<>>, list, free)
<1>1. Len(<<>>) = 0 /\ NamesOf(<<>>) = {} /\ 1..0 = {}
  BY DEF NamesOf
<1> QED BY <1>1 DEF SetsAll

\* A single new entry is a list of one.
LEMMA SetsOne ==
  ASSUME NEW list, NEW e \in Entries, NEW out, NEW free, Sets(list, e, out, free)
  PROVE  SetsAll(list, <<e>>, out, free)
<1> DEFINE new == <<e>>
<1>1. new \in Seq(Entries) /\ Len(new) = 1 /\ 1..1 = {1} /\ new[1] = e
  OBVIOUS
<1> HIDE DEF new
<1>2. NamesOf(new) = {e.name}
  BY <1>1, InNames
<1> QED BY <1>1, <1>2 DEF Sets, SetsAll, new

LEMMA SetsTwo ==
  ASSUME NEW list \in Seq(Entries), NEW mid \in Seq(Entries), NEW out \in Seq(Entries),
         NEW a \in Entries, NEW b \in Entries, NEW free,
         Sets(list, a, mid, free), Sets(mid, b, out, free)
  PROVE  SetsAll(list, <<a, b>>, out, free)
<1> DEFINE new == <<a, b>>
           f == [i \in 0..2 |-> IF i = 0 THEN list ELSE IF i = 1 THEN mid ELSE out]
<1>1. new \in Seq(Entries) /\ Len(new) = 2 /\ new[1] = a /\ new[2] = b /\ 1..2 = {1, 2}
  OBVIOUS
<1>2. f \in [0..2 -> Seq(Entries)] /\ f[0] = list /\ f[1] = mid /\ f[2] = out
  OBVIOUS
<1> HIDE DEF new, f
<1>3. Folds(f, list, new, free)
  <2>1. \A i \in 1..2 : Sets(f[i - 1], new[i], f[i], free)
    BY <1>1, <1>2
  <2> QED BY <1>1, <1>2, <2>1 DEF Folds
<1>4. SetsAll(list, new, f[Len(new)], free)
  BY <1>1, <1>3, FoldSets
<1> QED BY <1>1, <1>2, <1>4 DEF new

\* Names of a list with at most four entries, as the transformers have them.
LEMMA Names1 ==
  ASSUME NEW a \in Entries
  PROVE  /\ <<a>> \in Seq(Entries) /\ Len(<<a>>) = 1
         /\ NamesOf(<<a>>) = {a.name} /\ ToSet(<<a>>) = {a}
<1> DEFINE s == <<a>>
<1>1. s \in Seq(Entries) /\ Len(s) = 1 /\ 1..1 = {1} /\ s[1] = a
  OBVIOUS
<1> HIDE DEF s
<1>2. NamesOf(s) = {a.name} /\ ToSet(s) = {a}
  BY <1>1, InNames, InToSet
<1> QED BY <1>1, <1>2 DEF s

LEMMA Names2 ==
  ASSUME NEW a \in Entries, NEW b \in Entries
  PROVE  /\ <<a, b>> \in Seq(Entries) /\ Len(<<a, b>>) = 2
         /\ NamesOf(<<a, b>>) = {a.name, b.name} /\ ToSet(<<a, b>>) = {a, b}
<1> DEFINE s == <<a, b>>
<1>1. s \in Seq(Entries) /\ Len(s) = 2 /\ 1..2 = {1, 2} /\ s[1] = a /\ s[2] = b
  OBVIOUS
<1> HIDE DEF s
<1>2. NamesOf(s) = {a.name, b.name} /\ ToSet(s) = {a, b}
  BY <1>1, InNames, InToSet
<1> QED BY <1>1, <1>2 DEF s

LEMMA Names3 ==
  ASSUME NEW a \in Entries, NEW b \in Entries, NEW c \in Entries
  PROVE  /\ <<a, b, c>> \in Seq(Entries) /\ Len(<<a, b, c>>) = 3
         /\ NamesOf(<<a, b, c>>) = {a.name, b.name, c.name} /\ ToSet(<<a, b, c>>) = {a, b, c}
<1> DEFINE s == <<a, b, c>>
<1>1. /\ s \in Seq(Entries) /\ Len(s) = 3 /\ 1..3 = {1, 2, 3}
      /\ s[1] = a /\ s[2] = b /\ s[3] = c
  OBVIOUS
<1> HIDE DEF s
<1>2. NamesOf(s) = {a.name, b.name, c.name} /\ ToSet(s) = {a, b, c}
  BY <1>1, InNames, InToSet
<1> QED BY <1>1, <1>2 DEF s

LEMMA Names4 ==
  ASSUME NEW a \in Entries, NEW b \in Entries, NEW c \in Entries, NEW d \in Entries
  PROVE  /\ <<a, b, c, d>> \in Seq(Entries) /\ Len(<<a, b, c, d>>) = 4
         /\ NamesOf(<<a, b, c, d>>) = {a.name, b.name, c.name, d.name}
         /\ ToSet(<<a, b, c, d>>) = {a, b, c, d}
<1> DEFINE s == <<a, b, c, d>>
<1>1. /\ s \in Seq(Entries) /\ Len(s) = 4 /\ 1..4 = {1, 2, 3, 4}
      /\ s[1] = a /\ s[2] = b /\ s[3] = c /\ s[4] = d
  OBVIOUS
<1> HIDE DEF s
<1>2. NamesOf(s) = {a.name, b.name, c.name, d.name} /\ ToSet(s) = {a, b, c, d}
  BY <1>1, InNames, InToSet
<1> QED BY <1>1, <1>2 DEF s

\* Part of a list: its names, and that names come once if they did.
LEMMA OnlyNames ==
  ASSUME NEW s \in Seq(Entries), NEW S
  PROVE  /\ Only(s, S) \in Seq(Entries)
         /\ ToSet(Only(s, S)) = ToSet(s) \cap S
         /\ NamesOf(Only(s, S)) = {e.name : e \in ToSet(s) \cap S}
         /\ NamesOf(Only(s, S)) \subseteq NamesOf(s)
<1>1. Only(s, S) \in Seq(Entries \cap S) /\ ToSet(Only(s, S)) = ToSet(s) \cap S
  BY OnlySet
<1>2. Only(s, S) \in Seq(Entries)
  BY <1>1
<1>3. NamesOf(Only(s, S)) = {e.name : e \in ToSet(Only(s, S))}
  BY <1>2, NamesOfSet
<1>4. NamesOf(s) = {e.name : e \in ToSet(s)}
  BY NamesOfSet
<1> QED BY <1>1, <1>2, <1>3, <1>4

LEMMA OnlyOnce ==
  ASSUME NEW s \in Seq(Entries), NEW S, NamedOnce(s)
  PROVE  NamedOnce(Only(s, S))
<1> DEFINE n == Len(s)
<1>10. PICK f : Filters(f, Entries, s, S)
  BY OnlyDef
<1>1. /\ f \in [0..n -> Seq(Entries \cap S)] /\ f[0] = <<>>
      /\ \A i \in 1..n : f[i] = IF s[i] \in S THEN Append(f[i - 1], s[i]) ELSE f[i - 1]
      /\ Only(s, S) = f[n]
  BY <1>10 DEF Filters
<1>2. n \in Nat /\ \A i \in 1..n : s[i] \in Entries
  OBVIOUS
<1>3. \A i, j \in 1..n : s[i].name = s[j].name => i = j
  BY DEF NamedOnce
<1> HIDE DEF n
<1> DEFINE From(m) == \A j \in 1..Len(f[m]) : \E i \in 1..m : f[m][j] = s[i]
           E == {m \in 0..n : From(m) /\ NamedOnce(f[m])}
<1>4. 0 \in E
  <2>1. Len(<<>>) = 0 /\ DOMAIN <<>> = {} /\ 1..0 = {}
    OBVIOUS
  <2> QED BY <1>1, <1>2, <2>1 DEF NamedOnce
<1>5. ASSUME NEW m \in 1..n, m - 1 \in E PROVE m \in E
  <2>1. m \in 0..n /\ m - 1 \in 0..n /\ m \in 1..m /\ \A i \in 1..(m - 1) : i \in 1..m /\ i # m
    BY <1>2
  <2>2. f[m - 1] \in Seq(Entries \cap S)
    BY <1>1, <2>1
  <2>3. CASE s[m] \notin S
    <3>1. f[m] = f[m - 1]
      BY <1>1, <2>3
    <3> QED BY <1>5, <2>1, <3>1
  <2>4. CASE s[m] \in S
    <3> DEFINE g == f[m - 1]
               h == f[m]
               l == Len(g)
    <3>1. h = Append(g, s[m]) /\ s[m] \in Entries \cap S
      BY <1>1, <1>2, <2>4
    <3>2. g \in Seq(Entries \cap S)
      BY <2>2
    <3> HIDE DEF g, h
    <3>3. /\ l \in Nat /\ Len(h) = l + 1 /\ DOMAIN h = 1..(l + 1) /\ DOMAIN g = 1..l
          /\ h[l + 1] = s[m] /\ \A i \in 1..l : h[i] = g[i]
      BY <3>1, <3>2
    <3>4. 1..(l + 1) = (1..l) \cup {l + 1}
      BY <3>3
    <3>5. \A j \in 1..l : \E i \in 1..(m - 1) : g[j] = s[i]
      BY <1>5 DEF g
    <3>6. \A i, j \in 1..l : g[i].name = g[j].name => i = j
      <4>1. NamedOnce(g)
        BY <1>5 DEF g
      <4> QED BY <3>3, <4>1 DEF NamedOnce
    <3>7. \A j \in 1..(l + 1) : \E i \in 1..m : h[j] = s[i]
      BY <2>1, <3>3, <3>4, <3>5
    <3>8. \A j \in 1..l : g[j].name # s[m].name
      <4> TAKE j \in 1..l
      <4>1. PICK i \in 1..(m - 1) : g[j] = s[i]
        BY <3>5
      <4>2. i \in 1..n /\ i # m
        BY <1>2, <2>1
      <4> QED BY <1>3, <4>1, <4>2
    <3>9. ASSUME NEW i \in 1..(l + 1), NEW j \in 1..(l + 1), h[i].name = h[j].name PROVE i = j
      <4>1. CASE i \in 1..l /\ j \in 1..l
        BY <3>3, <3>6, <3>9, <4>1
      <4>2. CASE i = l + 1 \/ j = l + 1
        BY <3>3, <3>4, <3>8, <3>9, <4>2
      <4> QED BY <3>4, <4>1, <4>2
    <3>10. NamedOnce(h)
      BY <3>3, <3>9 DEF NamedOnce
    <3> HIDE DEF l
    <3> QED BY <2>1, <3>3, <3>7, <3>10 DEF h
  <2> QED BY <2>3, <2>4
<1> HIDE DEF E
<1>6. 0..n \subseteq E
  BY <1>2, <1>4, <1>5, UpTo
<1> QED BY <1>1, <1>2, <1>6 DEF E

LEMMA ConcatOnce ==
  ASSUME NEW a \in Seq(Entries), NEW b \in Seq(Entries)
  PROVE  /\ NamesOf(a \o b) = NamesOf(a) \cup NamesOf(b)
         /\ NamedOnce(a) /\ NamedOnce(b) /\ NamesOf(a) \cap NamesOf(b) = {} => NamedOnce(a \o b)
<1> DEFINE c == a \o b
           m == Len(a)
           n == Len(b)
<1>1. /\ m \in Nat /\ n \in Nat /\ c \in Seq(Entries) /\ Len(c) = m + n
      /\ DOMAIN a = 1..m /\ DOMAIN b = 1..n /\ DOMAIN c = 1..(m + n)
      /\ \A i \in 1..m : c[i] = a[i]
      /\ \A i \in (m + 1)..(m + n) : c[i] = b[i - m] /\ i - m \in 1..n
  OBVIOUS
<1>2. ToSet(c) = ToSet(a) \cup ToSet(b)
  BY ConcatSet
<1>3. /\ NamesOf(a) = {e.name : e \in ToSet(a)} /\ NamesOf(b) = {e.name : e \in ToSet(b)}
      /\ NamesOf(c) = {e.name : e \in ToSet(c)}
  BY <1>1, NamesOfSet
<1>4. ASSUME NamedOnce(a), NamedOnce(b), NamesOf(a) \cap NamesOf(b) = {} PROVE NamedOnce(c)
  <2> SUFFICES ASSUME NEW i \in 1..(m + n), NEW j \in 1..(m + n), c[i].name = c[j].name
               PROVE  i = j
    BY <1>1 DEF NamedOnce
  <2>1. /\ \A k, l \in 1..m : a[k].name = a[l].name => k = l
        /\ \A k, l \in 1..n : b[k].name = b[l].name => k = l
    BY <1>1, <1>4 DEF NamedOnce
  <2>2. /\ \A k \in 1..m : a[k].name \in NamesOf(a)
        /\ \A k \in 1..n : b[k].name \in NamesOf(b)
    BY InNames
  <2> HIDE DEF c, m, n
  <2>3. \A k \in 1..(m + n) : k \in 1..m \/ k \in (m + 1)..(m + n)
    BY <1>1
  <2>4. CASE i \in 1..m /\ j \in 1..m
    BY <1>1, <2>1, <2>4
  <2>5. CASE i \in (m + 1)..(m + n) /\ j \in (m + 1)..(m + n)
    <3>1. i - m = j - m
      BY <1>1, <2>1, <2>5
    <3> QED BY <1>1, <3>1
  <2>6. CASE i \in 1..m /\ j \in (m + 1)..(m + n)
    BY <1>1, <1>4, <2>2, <2>6
  <2>7. CASE i \in (m + 1)..(m + n) /\ j \in 1..m
    BY <1>1, <1>4, <2>2, <2>7
  <2> QED BY <2>3, <2>4, <2>5, <2>6, <2>7
<1> QED BY <1>2, <1>3, <1>4

LEMMA OnceEach ==
  ASSUME NEW T, NEW s \in Seq(T)
  PROVE  NamedOnce(s) <=> \A n : Once(s, n)
<1>1. DOMAIN s = 1..Len(s)
  OBVIOUS
<1>2. ASSUME NamedOnce(s) PROVE \A n : Once(s, n)
  BY <1>1, <1>2 DEF NamedOnce, Once
<1>3. ASSUME \A n : Once(s, n) PROVE NamedOnce(s)
  <2> SUFFICES ASSUME NEW i \in 1..Len(s), NEW j \in 1..Len(s), s[i].name = s[j].name
               PROVE  i = j
    BY <1>1 DEF NamedOnce
  <2>1. Once(s, s[i].name)
    BY <1>3
  <2> QED BY <2>1 DEF Once
<1> QED BY <1>2, <1>3

\* What the volumes or the mounts of a Deployment become when new ones are put in.
Overlays(list, new, out) ==
    /\ out \in Seq(Entries)
    /\ NamesOf(out) = NamesOf(list) \cup NamesOf(new)
    /\ \A x \in ToSet(list) : x.name \notin NamesOf(new) => x \in ToSet(out)
    /\ NamedOnce(new) => ToSet(new) \subseteq ToSet(out)
    /\ NamedOnce(new) /\ NamedOnce(list) => NamedOnce(out)

LEMMA SetsOverlay ==
  ASSUME NEW list \in Seq(Entries), NEW new \in Seq(Entries), NEW out,
         SetsAll(list, new, out, {})
  PROVE  /\ Overlays(list, new, out)
         /\ NamedOnce(list) => NamedOnce(out)
<1>1. NamedOnce(list) => NamedOnce(out)
  BY OnceEach DEF SetsAll
<1>2. ASSUME NamedOnce(new) PROVE ToSet(new) \subseteq ToSet(out)
  <2> SUFFICES ASSUME NEW i \in 1..Len(new) PROVE new[i] \in ToSet(out)
    BY InToSet
  <2>1. \A j \in i..Len(new) : j \in 1..Len(new)
    OBVIOUS
  <2>2. \A j \in i..Len(new) : new[j].name = new[i].name => new[j] = new[i]
    BY <1>2, <2>1 DEF NamedOnce
  <2> QED BY <2>2 DEF SetsAll
<1> QED BY <1>1, <1>2 DEF Overlays, SetsAll

LEMMA VolumesOverlay ==
  ASSUME NEW list \in Seq(Entries), NEW new \in Seq(Entries)
  PROVE  Overlays(list, new, ReplaceDeploymentVolumes(list, new))
<1> DEFINE known == {e \in ToSet(new) : e.name \in NamesOf(list)}
           old == Only(new, known)
           a == PutAll(list, old)
           b == Only(new, ToSet(new) \ known)
           out == ReplaceDeploymentVolumes(list, new)
<1>1. out = a \o b
  BY DEF ReplaceDeploymentVolumes
<1>2. /\ old \in Seq(Entries) /\ ToSet(old) = known
      /\ NamesOf(old) = {e.name : e \in known}
  BY OnlyNames
<1>3. /\ b \in Seq(Entries) /\ ToSet(b) = ToSet(new) \ known
      /\ NamesOf(b) = {e.name : e \in ToSet(new) \ known}
  BY OnlyNames
<1>4. SetsAll(list, old, a, {})
  BY <1>2, PutAllSets
<1>5. NamesOf(new) = {e.name : e \in ToSet(new)}
  BY NamesOfSet
<1>6. NamedOnce(new) => NamedOnce(old) /\ NamedOnce(b)
  BY OnlyOnce
<1> HIDE DEF old, a, b, out
<1>7. a \in Seq(Entries) /\ NamesOf(a) = NamesOf(list)
  BY <1>2, <1>4 DEF SetsAll
<1>8. /\ out \in Seq(Entries) /\ ToSet(out) = ToSet(a) \cup ToSet(b)
      /\ NamesOf(out) = NamesOf(a) \cup NamesOf(b)
  BY <1>1, <1>3, <1>7, ConcatSet, ConcatOnce
<1>9. NamesOf(out) = NamesOf(list) \cup NamesOf(new)
  BY <1>3, <1>5, <1>7, <1>8
<1>10. \A x \in ToSet(list) : x.name \notin NamesOf(new) => x \in ToSet(out)
  <2>1. \A x \in ToSet(list) : x.name \notin NamesOf(old) => x \in ToSet(a)
    BY <1>4 DEF SetsAll
  <2> QED BY <1>2, <1>5, <1>8, <2>1
<1>11. Overlays(list, old, a)
  BY <1>2, <1>4, SetsOverlay
<1>12. NamedOnce(new) => ToSet(new) \subseteq ToSet(out)
  BY <1>2, <1>3, <1>6, <1>8, <1>11 DEF Overlays
<1>13. NamesOf(a) \cap NamesOf(b) = {}
  BY <1>3, <1>7
<1>14. NamedOnce(new) /\ NamedOnce(list) => NamedOnce(out)
  <2>1. NamedOnce(new) /\ NamedOnce(list) => NamedOnce(a)
    BY <1>6, <1>11 DEF Overlays
  <2> QED BY <1>1, <1>3, <1>6, <1>7, <1>13, <2>1, ConcatOnce
<1> QED BY <1>8, <1>9, <1>10, <1>12, <1>14 DEF Overlays, out

-----------------------------------------------------------------------------
(* The order of the transformers *)

Transformers ==
    {"gcpConfig", "watchNamespace", "tls", "caArgs", "caEnv", "caVolumes", "certificates",
     "certRotation", "certPaths", "certSecret", "proxyTLS", "audit", "auditConfig", "seccomp",
     "image", "log", "spec", "volumes", "mounts", "args", "gcp", "env"}

\* What is in P does not come after the last t.
Before(s, P, t) == \A i \in 1..Len(s) : s[i] \in P => \E j \in i..Len(s) : s[j] = t

\* Only what is in P comes before t.
Early(s, P, t) == \A i, j \in 1..Len(s) : i < j /\ s[j] = t => s[i] \in P

\* What comes right before t is p.
Adjacent(s, p, t) == \A i \in 1..(Len(s) - 1) : s[i + 1] = t => s[i] = p

\* The transformers that a component does without.
Foreign(c) ==
    (IF c \in AddonComponents THEN {"watchNamespace", "gcp"} ELSE {})
      \cup (IF c = "addon" THEN {"tls", "proxyTLS", "caEnv"} ELSE {})
      \cup (IF c = "operator" THEN {} ELSE {"caArgs"})
      \cup (IF c \in {"operator", "interceptor"} THEN {} ELSE {"caVolumes"})

\* What the proofs use of the order in which a component's transformers run.
Order(c, s) ==
    /\ s \in Seq(Transformers \ Foreign(c))
    /\ Adjacent(s, "volumes", "mounts")
    /\ c \in KedaComponents => /\ Before(s, Transformers, "env")
                               /\ Before(s, Transformers \ {"gcp", "env"}, "args")
    /\ c = "operator" => /\ Before(s, Transformers \ {"env"}, "gcp")
                         /\ Early(s, {"gcpConfig", "watchNamespace", "tls"}, "caArgs")
                         /\ Early(s, {"gcpConfig", "watchNamespace", "tls", "caArgs"}, "caVolumes")

LEMMA TailElements ==
  ASSUME NEW C, NEW s \in Seq(C), s # <<>>
  PROVE  /\ Len(s) \in Nat /\ Len(s) # 0 /\ Tail(s) \in Seq(C) /\ Len(Tail(s)) = Len(s) - 1
         /\ Head(s) = s[1] /\ \A i \in 1..(Len(s) - 1) : Tail(s)[i] = s[i + 1]
OBVIOUS

LEMMA TailBefore ==
  ASSUME NEW C, NEW s \in Seq(C), s # <<>>, NEW P, NEW t, Before(s, P, t)
  PROVE  Before(Tail(s), P, t) /\ (Head(s) \in P => t \in ToSet(s))
<1> DEFINE n == Len(s)
           r == Tail(s)
<1>1. /\ n \in Nat /\ n # 0 /\ r \in Seq(C) /\ Len(r) = n - 1
      /\ Head(s) = s[1] /\ \A i \in 1..(n - 1) : r[i] = s[i + 1]
  BY TailElements
<1> HIDE DEF r, n
<1>2. \A i \in 1..n : s[i] \in P => \E j \in i..n : s[j] = t
  BY DEF Before, n
<1>3. ASSUME Head(s) \in P PROVE t \in ToSet(s)
  <2>1. 1 \in 1..n
    BY <1>1
  <2>2. PICK j \in 1..n : s[j] = t
    BY <1>1, <1>2, <1>3, <2>1
  <2> QED BY <2>2, InToSet DEF n
<1>4. ASSUME NEW i \in 1..(n - 1), r[i] \in P PROVE \E j \in i..(n - 1) : r[j] = t
  <2>1. i + 1 \in 1..n /\ s[i + 1] \in P
    BY <1>1, <1>4
  <2>2. PICK j \in (i + 1)..n : s[j] = t
    BY <1>2, <2>1
  <2>3. j - 1 \in i..(n - 1) /\ j - 1 \in 1..(n - 1) /\ (j - 1) + 1 = j
    BY <1>1
  <2> QED BY <1>1, <2>2, <2>3
<1>5. Before(r, P, t)
  BY <1>1, <1>4 DEF Before
<1> QED BY <1>3, <1>5 DEF r

LEMMA TailEarly ==
  ASSUME NEW C, NEW s \in Seq(C), s # <<>>, NEW P, NEW t, Early(s, P, t)
  PROVE  Early(Tail(s), P, t) /\ (t \in ToSet(Tail(s)) => Head(s) \in P)
<1> DEFINE n == Len(s)
           r == Tail(s)
<1>1. /\ n \in Nat /\ n # 0 /\ r \in Seq(C) /\ Len(r) = n - 1
      /\ Head(s) = s[1] /\ \A i \in 1..(n - 1) : r[i] = s[i + 1]
  BY TailElements
<1> HIDE DEF r, n
<1>2. \A i, j \in 1..n : i < j /\ s[j] = t => s[i] \in P
  BY DEF Early, n
<1>3. ASSUME t \in ToSet(r) PROVE Head(s) \in P
  <2>1. PICK j \in 1..(n - 1) : r[j] = t
    BY <1>1, <1>3, InToSet
  <2>2. 1 \in 1..n /\ j + 1 \in 1..n /\ 1 < j + 1 /\ s[j + 1] = t
    BY <1>1, <2>1
  <2> QED BY <1>1, <1>2, <2>2
<1>4. ASSUME NEW i \in 1..(n - 1), NEW j \in 1..(n - 1), i < j, r[j] = t PROVE r[i] \in P
  <2>1. i + 1 \in 1..n /\ j + 1 \in 1..n /\ i + 1 < j + 1
    BY <1>1, <1>4
  <2>4. "WATCH_NAMESPACE" \in Texts /\ "watched" \in Texts
    BY DEF Texts
  <2> QED BY <1>1, <1>2, <1>4, <2>4, <2>1
<1>5. Early(r, P, t)
  BY <1>1, <1>4 DEF Early
<1> QED BY <1>3, <1>5 DEF r

LEMMA TailAdjacent ==
  ASSUME NEW C, NEW s \in Seq(C), s # <<>>, NEW p, NEW t, Adjacent(s, p, t)
  PROVE  /\ Adjacent(Tail(s), p, t)
         /\ Tail(s) # <<>> /\ Head(Tail(s)) = t => Head(s) = p
<1> DEFINE n == Len(s)
           r == Tail(s)
<1>1. /\ n \in Nat /\ n # 0 /\ r \in Seq(C) /\ Len(r) = n - 1
      /\ Head(s) = s[1] /\ \A i \in 1..(n - 1) : r[i] = s[i + 1]
  BY TailElements
<1> HIDE DEF r, n
<1>2. \A i \in 1..(n - 1) : s[i + 1] = t => s[i] = p
  BY DEF Adjacent, n
<1>3. ASSUME r # <<>>, Head(r) = t PROVE Head(s) = p
  <2>1. r[1] = t /\ n - 1 # 0
    BY <1>1, <1>3
  <2>2. 1 \in 1..(n - 1)
    BY <1>1, <2>1
  <2> QED BY <1>1, <1>2, <2>1, <2>2
<1>4. ASSUME NEW i \in 1..((n - 1) - 1), r[i + 1] = t PROVE r[i] = p
  <2>1. i \in 1..(n - 1) /\ i + 1 \in 1..(n - 1)
    BY <1>1
  <2>2. s[(i + 1) + 1] = t
    BY <1>1, <1>4, <2>1
  <2> QED BY <1>1, <1>2, <2>1, <2>2
<1>5. Adjacent(r, p, t)
  BY <1>1, <1>4 DEF Adjacent
<1> QED BY <1>3, <1>5 DEF r

LEMMA TailOrder ==
  ASSUME NEW c, NEW s, Order(c, s), s # <<>>
  PROVE  Order(c, Tail(s))
<1> DEFINE C == Transformers \ Foreign(c)
<1>1. s \in Seq(C)
  BY DEF Order
<1> HIDE DEF C
<1>2. Tail(s) \in Seq(C)
  BY <1>1
<1>3. \A P, t : Before(s, P, t) => Before(Tail(s), P, t)
  BY <1>1, TailBefore
<1>4. \A P, t : Early(s, P, t) => Early(Tail(s), P, t)
  BY <1>1, TailEarly
<1>5. Adjacent(Tail(s), "volumes", "mounts")
  BY <1>1, TailAdjacent DEF Order
<1> QED BY <1>2, <1>3, <1>4, <1>5 DEF Order, C

\* installController
LEMMA OperatorOrder == Order("operator", <<"gcpConfig">> \o OperatorPipeline)
<1> DEFINE s == <<"gcpConfig">> \o OperatorPipeline
<1>1. /\ Len(s) = 16 /\ s[1] = "gcpConfig" /\ s[2] = "watchNamespace" /\ s[3] = "tls"
      /\ s[4] = "caArgs" /\ s[5] = "caVolumes" /\ s[6] = "certificates"
      /\ s[7] = "certRotation" /\ s[8] = "seccomp" /\ s[9] = "image" /\ s[10] = "log"
      /\ s[11] = "spec" /\ s[12] = "volumes" /\ s[13] = "mounts" /\ s[14] = "args"
      /\ s[15] = "gcp" /\ s[16] = "env"
  BY DEF OperatorPipeline, SpecTransforms
<1>2. Foreign("operator") = {}
  BY DEF Foreign, AddonComponents
<1>3. s \in Seq(Transformers \ {})
  BY DEF OperatorPipeline, SpecTransforms, Transformers
<1> HIDE DEF s
<1>5. Adjacent(s, "volumes", "mounts")
  BY <1>1 DEF Adjacent
<1>6. Before(s, Transformers, "env")
  BY <1>1 DEF Before
<1>7. Before(s, Transformers \ {"gcp", "env"}, "args")
  BY <1>1 DEF Before
<1>8. Before(s, Transformers \ {"env"}, "gcp")
  BY <1>1 DEF Before
<1>9. Early(s, {"gcpConfig", "watchNamespace", "tls"}, "caArgs")
  BY <1>1 DEF Early
<1>10. Early(s, {"gcpConfig", "watchNamespace", "tls", "caArgs"}, "caVolumes")
  BY <1>1 DEF Early
<1> QED BY <1>2, <1>3, <1>5, <1>6, <1>7, <1>8, <1>9, <1>10 DEF Order, s

\* installMetricsServer
LEMMA MetricsOrder == Order("metrics", <<"gcpConfig">> \o MetricsPipeline)
<1> DEFINE s == <<"gcpConfig">> \o MetricsPipeline
<1>1. /\ Len(s) = 14 /\ s[1] = "gcpConfig" /\ s[2] = "image" /\ s[3] = "tls"
      /\ s[4] = "seccomp" /\ s[5] = "certificates" /\ s[6] = "certPaths" /\ s[7] = "audit"
      /\ s[8] = "log" /\ s[9] = "spec" /\ s[10] = "auditConfig" /\ s[11] = "volumes"
      /\ s[12] = "mounts" /\ s[13] = "args" /\ s[14] = "env"
  BY DEF MetricsPipeline
<1>2. Foreign("metrics") = {"caArgs", "caVolumes"}
  BY DEF Foreign, AddonComponents
<1>3. s \in Seq(Transformers \ {"caArgs", "caVolumes"})
  BY DEF MetricsPipeline, Transformers
<1> HIDE DEF s
<1>5. Adjacent(s, "volumes", "mounts")
  BY <1>1 DEF Adjacent
<1>6. Before(s, Transformers, "env")
  BY <1>1 DEF Before
<1>7. Before(s, Transformers \ {"gcp", "env"}, "args")
  BY <1>1 DEF Before
<1> QED BY <1>2, <1>3, <1>5, <1>6, <1>7 DEF Order, s

\* installAdmissionWebhooks
LEMMA WebhooksOrder == Order("webhooks", <<"gcpConfig">> \o WebhooksPipeline)
<1> DEFINE s == <<"gcpConfig">> \o WebhooksPipeline
<1>1. /\ Len(s) = 12 /\ s[1] = "gcpConfig" /\ s[2] = "watchNamespace" /\ s[3] = "tls"
      /\ s[4] = "seccomp" /\ s[5] = "certificates" /\ s[6] = "image" /\ s[7] = "log"
      /\ s[8] = "spec" /\ s[9] = "volumes" /\ s[10] = "mounts" /\ s[11] = "args"
      /\ s[12] = "env"
  BY DEF WebhooksPipeline, SpecTransforms
<1>2. Foreign("webhooks") = {"caArgs", "caVolumes"}
  BY DEF Foreign, AddonComponents
<1>3. s \in Seq(Transformers \ {"caArgs", "caVolumes"})
  BY DEF WebhooksPipeline, SpecTransforms, Transformers
<1> HIDE DEF s
<1>5. Adjacent(s, "volumes", "mounts")
  BY <1>1 DEF Adjacent
<1>6. Before(s, Transformers, "env")
  BY <1>1 DEF Before
<1>7. Before(s, Transformers \ {"gcp", "env"}, "args")
  BY <1>1 DEF Before
<1> QED BY <1>2, <1>3, <1>5, <1>6, <1>7 DEF Order, s

\* installHTTPAddon
LEMMA AddonOrder ==
  /\ Order("interceptor", <<"gcpConfig">> \o InterceptorPipeline)
  /\ Order("addon", <<"gcpConfig">> \o AddonTransforms)
<1> DEFINE s == <<"gcpConfig">> \o InterceptorPipeline
           a == <<"gcpConfig">> \o AddonTransforms
           without == {"watchNamespace", "gcp", "tls", "proxyTLS", "caEnv", "caArgs", "caVolumes"}
<1>1. /\ Len(s) = 13 /\ s[1] = "gcpConfig" /\ s[2] = "image" /\ s[3] = "env" /\ s[4] = "log"
      /\ s[5] = "spec" /\ s[6] = "volumes" /\ s[7] = "mounts" /\ s[8] = "seccomp"
      /\ s[9] = "certSecret" /\ s[10] = "proxyTLS" /\ s[11] = "tls" /\ s[12] = "caEnv"
      /\ s[13] = "caVolumes"
  BY DEF InterceptorPipeline, AddonTransforms
<1>2. /\ Len(a) = 8 /\ a[1] = "gcpConfig" /\ a[2] = "image" /\ a[3] = "env" /\ a[4] = "log"
      /\ a[5] = "spec" /\ a[6] = "volumes" /\ a[7] = "mounts" /\ a[8] = "seccomp"
  BY DEF AddonTransforms
<1>3. Foreign("interceptor") = {"watchNamespace", "gcp", "caArgs"} /\ Foreign("addon") = without
  BY DEF Foreign, AddonComponents
<1>4. s \in Seq(Transformers \ {"watchNamespace", "gcp", "caArgs"})
  BY DEF InterceptorPipeline, AddonTransforms, Transformers
<1>5. a \in Seq(Transformers \ without)
  BY DEF AddonTransforms, Transformers
<1> HIDE DEF s, a
<1>6. Adjacent(s, "volumes", "mounts")
  BY <1>1 DEF Adjacent
<1>7. Adjacent(a, "volumes", "mounts")
  BY <1>2 DEF Adjacent
<1>8. Order("interceptor", s)
  BY <1>3, <1>4, <1>6 DEF Order, KedaComponents
<1>9. Order("addon", a)
  BY <1>3, <1>5, <1>7 DEF Order, KedaComponents
<1> QED BY <1>8, <1>9 DEF s, a

-----------------------------------------------------------------------------
(* The steps *)

DeployFields == {"env", "args", "volumes", "mounts", "seccomp", "image", "maps", "fields"}

IsDeployment(d) ==
    /\ DOMAIN d = DeployFields /\ DOMAIN d.maps = MapNames
    /\ d.env \in Seq(Entries) /\ d.args \in Seq(Entries)
    /\ d.volumes \in Seq(Entries) /\ d.mounts \in Seq(Entries)

\* The types, and the transformers that are left in their order.
TypeInv == component \in Components /\ input \in Inputs /\ IsDeployment(deploy)
OrderInv == todo = <<"rejected">> \/ Order(component, todo)

\* An error ends the rendering; otherwise a step takes the first transformer.
Rejects == todo' = <<"rejected">> /\ UNCHANGED <<component, input, deploy>>
Moves ==
    /\ todo # <<>> /\ Head(todo) \in Transformers
    /\ todo' = Tail(todo) /\ UNCHANGED <<component, input>>

\* What each transformer leaves alone.
Untouched ==
    /\ DOMAIN deploy' = DeployFields /\ DOMAIN deploy'.maps = MapNames
    /\ Head(todo) \notin {"watchNamespace", "tls", "caEnv", "gcp", "env", "proxyTLS"}
         => deploy'.env = deploy.env
    /\ Head(todo) \notin {"caArgs", "certRotation", "certPaths", "audit", "auditConfig", "log", "args"}
         => deploy'.args = deploy.args
    /\ Head(todo) \notin {"caVolumes", "certificates", "audit", "volumes", "gcp", "certSecret"}
         => deploy'.volumes = deploy.volumes
    /\ Head(todo) \notin {"caVolumes", "certificates", "audit", "mounts", "gcp", "certSecret"}
         => deploy'.mounts = deploy.mounts
    /\ Head(todo) # "seccomp" => deploy'.seccomp = deploy.seccomp

LEMMA StepUntouched ==
  ASSUME TypeInv, Next
  PROVE  (Rejects /\ Head(todo) \in {"gcpConfig", "audit"}) \/ (Moves /\ Untouched)
<1>0. DOMAIN deploy = DeployFields /\ DOMAIN deploy.maps = MapNames
  BY DEF TypeInv, IsDeployment
<1> USE DEF Step, When, Moves, Untouched, Transformers, DeployFields
<1>1. CASE CheckGCPConfig
  BY <1>0, <1>1 DEF CheckGCPConfig, Reject, Rejects
<1>2. CASE ReplaceContainerImage
  BY <1>0, <1>2 DEF ReplaceContainerImage
<1>3. CASE RemoveSeccompProfile
  BY <1>0, <1>3 DEF RemoveSeccompProfile
<1>4. CASE ReplaceSpecFields
  BY <1>0, <1>4 DEF ReplaceSpecFields
<1>5. CASE ReplaceWatchNamespace
  BY <1>0, <1>5 DEF ReplaceWatchNamespace
<1>6. CASE TLSEnvVars
  BY <1>0, <1>6 DEF TLSEnvVars
<1>7. CASE EnsureCADirs
  BY <1>0, <1>7 DEF EnsureCADirs
<1>8. CASE EnsureCADirsEnv
  BY <1>0, <1>8 DEF EnsureCADirsEnv
<1>9. CASE ensureCACertVolumesAndMounts
  BY <1>0, <1>9 DEF ensureCACertVolumesAndMounts
<1>10. CASE EnsureCertificatesVolume
  BY <1>0, <1>10 DEF EnsureCertificatesVolume, WithCertificates
<1>11. CASE SetOperatorCertRotation
  BY <1>0, <1>11 DEF SetOperatorCertRotation
<1>12. CASE EnsurePathsToCerts
  BY <1>0, <1>12 DEF EnsurePathsToCerts
<1>13. CASE EnsureAudit
  <2>1. input.audit \in {"off", "stdout", "volume"}
    BY <1>13, InputsAssumption DEF TypeInv, EnsureAudit, AuditAccepted
  <2>2. CASE input.audit = "off"
    BY <1>0, <1>13, <2>2 DEF EnsureAudit
  <2>3. CASE input.audit = "stdout"
    BY <1>0, <1>13, <2>3
    DEF EnsureAudit, ReplaceAuditConfig, EnsureAuditPolicyConfigMapMountsVolume
  <2>4. CASE input.audit = "volume"
    BY <1>0, <1>13, <2>4
    DEF EnsureAudit, ReplaceAuditConfig, EnsureAuditPolicyConfigMapMountsVolume,
        EnsureAuditLogMount
  <2> QED BY <2>1, <2>2, <2>3, <2>4
<1>14. CASE RejectAudit
  BY <1>14 DEF RejectAudit, Reject, Rejects
<1>15. CASE auditConfigTransformation
  BY <1>0, <1>15 DEF auditConfigTransformation
<1>16. CASE ReplaceLogLevel
  BY <1>0, <1>16 DEF ReplaceLogLevel
<1>17. CASE ReplaceVolumes
  BY <1>0, <1>17 DEF ReplaceVolumes
<1>18. CASE ReplaceVolumeMounts
  BY <1>0, <1>18 DEF ReplaceVolumeMounts
<1>19. CASE ReplaceArgs
  BY <1>0, <1>19 DEF ReplaceArgs
<1>20. CASE GCPDeploymentTransforms
  BY <1>0, <1>20 DEF GCPDeploymentTransforms
<1>21. CASE ReplaceContainerEnv
  BY <1>0, <1>21 DEF ReplaceContainerEnv
<1>22. CASE EnsureCertSecretVolume
  BY <1>0, <1>22 DEF EnsureCertSecretVolume
<1>23. CASE EnsureProxyTLS
  BY <1>0, <1>23 DEF EnsureProxyTLS
<1> QED BY <1>1, <1>2, <1>3, <1>4, <1>5, <1>6, <1>7, <1>8, <1>9, <1>10, <1>11, <1>12, <1>13,
           <1>14, <1>15, <1>16, <1>17, <1>18, <1>19, <1>20, <1>21, <1>22, <1>23 DEF Next

\* The transformer at the head of the list is the one that takes the step.
LEMMA Dispatch ==
  ASSUME Next
  PROVE  /\ Head(todo) = "gcpConfig" => CheckGCPConfig
         /\ Head(todo) = "image" => ReplaceContainerImage
         /\ Head(todo) = "seccomp" => RemoveSeccompProfile
         /\ Head(todo) = "spec" => ReplaceSpecFields
         /\ Head(todo) = "watchNamespace" => ReplaceWatchNamespace
         /\ Head(todo) = "tls" => TLSEnvVars
         /\ Head(todo) = "caArgs" => EnsureCADirs
         /\ Head(todo) = "caEnv" => EnsureCADirsEnv
         /\ Head(todo) = "caVolumes" => ensureCACertVolumesAndMounts
         /\ Head(todo) = "certificates" => EnsureCertificatesVolume
         /\ Head(todo) = "certRotation" => SetOperatorCertRotation
         /\ Head(todo) = "certPaths" => EnsurePathsToCerts
         /\ Head(todo) = "audit" => EnsureAudit \/ RejectAudit
         /\ Head(todo) = "auditConfig" => auditConfigTransformation
         /\ Head(todo) = "log" => ReplaceLogLevel
         /\ Head(todo) = "volumes" => ReplaceVolumes
         /\ Head(todo) = "mounts" => ReplaceVolumeMounts
         /\ Head(todo) = "args" => ReplaceArgs
         /\ Head(todo) = "gcp" => GCPDeploymentTransforms
         /\ Head(todo) = "env" => ReplaceContainerEnv
         /\ Head(todo) = "certSecret" => EnsureCertSecretVolume
         /\ Head(todo) = "proxyTLS" => EnsureProxyTLS
<1> USE DEF Step, Reject
<1>1. CheckGCPConfig => Head(todo) = "gcpConfig"
  BY DEF CheckGCPConfig
<1>2. ReplaceContainerImage => Head(todo) = "image"
  BY DEF ReplaceContainerImage
<1>3. RemoveSeccompProfile => Head(todo) = "seccomp"
  BY DEF RemoveSeccompProfile
<1>4. ReplaceSpecFields => Head(todo) = "spec"
  BY DEF ReplaceSpecFields
<1>5. ReplaceWatchNamespace => Head(todo) = "watchNamespace"
  BY DEF ReplaceWatchNamespace
<1>6. TLSEnvVars => Head(todo) = "tls"
  BY DEF TLSEnvVars
<1>7. EnsureCADirs => Head(todo) = "caArgs"
  BY DEF EnsureCADirs
<1>8. EnsureCADirsEnv => Head(todo) = "caEnv"
  BY DEF EnsureCADirsEnv
<1>9. ensureCACertVolumesAndMounts => Head(todo) = "caVolumes"
  BY DEF ensureCACertVolumesAndMounts
<1>10. EnsureCertificatesVolume => Head(todo) = "certificates"
  BY DEF EnsureCertificatesVolume
<1>11. SetOperatorCertRotation => Head(todo) = "certRotation"
  BY DEF SetOperatorCertRotation
<1>12. EnsurePathsToCerts => Head(todo) = "certPaths"
  BY DEF EnsurePathsToCerts
<1>13. EnsureAudit => Head(todo) = "audit"
  BY DEF EnsureAudit
<1>14. RejectAudit => Head(todo) = "audit"
  BY DEF RejectAudit
<1>15. auditConfigTransformation => Head(todo) = "auditConfig"
  BY DEF auditConfigTransformation
<1>16. ReplaceLogLevel => Head(todo) = "log"
  BY DEF ReplaceLogLevel
<1>17. ReplaceVolumes => Head(todo) = "volumes"
  BY DEF ReplaceVolumes
<1>18. ReplaceVolumeMounts => Head(todo) = "mounts"
  BY DEF ReplaceVolumeMounts
<1>19. ReplaceArgs => Head(todo) = "args"
  BY DEF ReplaceArgs
<1>20. GCPDeploymentTransforms => Head(todo) = "gcp"
  BY DEF GCPDeploymentTransforms
<1>21. ReplaceContainerEnv => Head(todo) = "env"
  BY DEF ReplaceContainerEnv
<1>22. EnsureCertSecretVolume => Head(todo) = "certSecret"
  BY DEF EnsureCertSecretVolume
<1>23. EnsureProxyTLS => Head(todo) = "proxyTLS"
  BY DEF EnsureProxyTLS
<1> QED BY <1>1, <1>2, <1>3, <1>4, <1>5, <1>6, <1>7, <1>8, <1>9, <1>10, <1>11, <1>12, <1>13,
           <1>14, <1>15, <1>16, <1>17, <1>18, <1>19, <1>20, <1>21, <1>22, <1>23 DEF Next

\* The texts of the steps with many hypotheses, where the provers are slow to find them.
LEMMA TLSTexts == {"TLS_MIN_VERSION", "TLS_CIPHER_LIST", "profile"} \subseteq Texts
  BY DEF Texts

LEMMA AuditTexts ==
  /\ {"--audit-policy-file=", "policy.yaml", "--audit-log-path="} \subseteq Texts
  /\ "-" \in Texts /\ "file" \in Texts
  /\ {"audit-policy", "policy", "/var/audit-policy", "audit-log", "claim",
      "/var/audit-policy/log"} \subseteq Texts
  BY DEF Texts

LEMMA TextEntry ==
  ASSUME NEW n \in Texts, NEW v \in Texts
  PROVE  Entry(n, v) \in Entries /\ Entry(n, v).name = n /\ Entry(n, v).value = v
BY TextsAssumption DEF Entry, Entries

\* The add-on's containers that the operator leaves as the user wants them.
UserLast == component \in AddonComponents /\ (component = "interceptor" => ~input.openshift)

\* What the transformers put into the environment of the container.
EnvStep ==
    \E new \in Seq(Entries) :
       /\ SetsAll(deploy.env, new, deploy'.env, {})
       /\ Head(todo) = "env" => new = input.env
       /\ Head(todo) = "gcp" /\ gcpConfig.kind = "config"
            => "GOOGLE_APPLICATION_CREDENTIALS" \in NamesOf(new)
       /\ UserLast => Head(todo) = "env" \/ new = <<>>

LEMMA EnvSteps ==
  ASSUME TypeInv, OrderInv, Next, Moves, Untouched
  PROVE  EnvStep
<1>0. /\ DOMAIN deploy = DeployFields /\ deploy.env \in Seq(Entries) /\ input \in Inputs
      /\ component \in Components
  BY DEF TypeInv, IsDeployment
<1>00. Head(todo) \in Transformers \ Foreign(component)
  <2>1. todo # <<"rejected">>
    BY DEF Moves, Transformers
  <2>2. todo \in Seq(Transformers \ Foreign(component))
    BY <2>1 DEF OrderInv, Order
  <2> QED BY <2>2 DEF Moves
<1>1. ASSUME deploy'.env = deploy.env, Head(todo) # "env",
             ~(Head(todo) = "gcp" /\ gcpConfig.kind = "config")
      PROVE  EnvStep
  <2>1. <<>> \in Seq(Entries) /\ NamesOf(<<>>) = {}
    BY DEF NamesOf
  <2>2. SetsAll(deploy.env, <<>>, deploy.env, {})
    BY <1>0, SetsNothing
  <2> QED BY <1>1, <2>1, <2>2 DEF EnvStep
<1>2. ASSUME NEW n \in Texts, NEW v \in Texts, deploy'.env = Put(deploy.env, Entry(n, v)),
             Head(todo) \notin {"env", "gcp"},
             ~UserLast
      PROVE  EnvStep
  <2> DEFINE e == Entry(n, v)
  <2>1. e \in Entries
    BY TextEntry
  <2> HIDE DEF e
  <2>2. <<e>> \in Seq(Entries) /\ SetsAll(deploy.env, <<e>>, Put(deploy.env, e), {})
    BY <1>0, <2>1, PutSets, SetsOne
  <2> QED BY <1>2, <2>2 DEF EnvStep, e
<1>3. CASE Head(todo) \notin {"watchNamespace", "tls", "caEnv", "gcp", "env", "proxyTLS"}
  BY <1>1, <1>3 DEF Untouched
<1>4. CASE Head(todo) = "watchNamespace"
  <2>1. ReplaceWatchNamespace
    BY <1>4, Dispatch
  <2>2. component \notin AddonComponents
    BY <1>00, <1>4 DEF Foreign
  <2>3. \/ deploy'.env = deploy.env
        \/ deploy'.env = Put(deploy.env, Entry("WATCH_NAMESPACE", "watched"))
    BY <1>0, <2>1 DEF ReplaceWatchNamespace, When, DeployFields
  <2>4. "WATCH_NAMESPACE" \in Texts /\ "watched" \in Texts
    BY DEF Texts
  <2> QED BY <1>1, <1>2, <1>4, <2>4, <2>2, <2>3 DEF UserLast
<1>5. CASE Head(todo) = "caEnv"
  <2>1. EnsureCADirsEnv
    BY <1>5, Dispatch
  <2>3. \/ deploy'.env = deploy.env
        \/ input.openshift /\ deploy'.env = Put(deploy.env, Entry("KEDA_HTTP_TLS_CA_DIRS", "/custom/ca0"))
    BY <1>0, <2>1 DEF EnsureCADirsEnv, When, DeployFields
  <2>4. "KEDA_HTTP_TLS_CA_DIRS" \in Texts /\ "/custom/ca0" \in Texts
    BY DEF Texts
  <2>2. component # "addon"
    BY <1>00, <1>5 DEF Foreign
  <2> QED BY <1>1, <1>2, <1>5, <2>2, <2>4, <2>3 DEF UserLast, AddonComponents
<1>6. CASE Head(todo) = "proxyTLS"
  <2>1. EnsureProxyTLS
    BY <1>6, Dispatch
  <2>3. \/ deploy'.env = deploy.env
        \/ input.openshift /\ deploy'.env = Put(deploy.env, Entry("KEDA_HTTP_PROXY_TLS_ENABLED", "true"))
    BY <1>0, <2>1 DEF EnsureProxyTLS, When, DeployFields
  <2>4. "KEDA_HTTP_PROXY_TLS_ENABLED" \in Texts /\ "true" \in Texts
    BY DEF Texts
  <2>2. component # "addon"
    BY <1>00, <1>6 DEF Foreign
  <2> QED BY <1>1, <1>2, <1>6, <2>2, <2>4, <2>3 DEF UserLast, AddonComponents
<1>7. CASE Head(todo) = "tls"
  <2> DEFINE a == Entry("TLS_MIN_VERSION", "profile")
             b == Entry("TLS_CIPHER_LIST", "profile")
  <2>1. TLSEnvVars
    BY <1>7, Dispatch
  <2>2. component # "addon"
    BY <1>00, <1>7 DEF Foreign
  <2>3. a \in Entries /\ b \in Entries
    <3>1. {"TLS_MIN_VERSION", "TLS_CIPHER_LIST", "profile"} \subseteq Texts
      BY TLSTexts
    <3> QED BY <3>1, TextEntry
  <2>4. \/ deploy'.env = deploy.env
        \/ /\ component = "interceptor" => input.openshift
           /\ deploy'.env = PutAll(deploy.env, <<a, b>>)
    BY <1>0, <2>1 DEF TLSEnvVars, When, DeployFields
  <2> HIDE DEF a, b
  <2>5. <<a, b>> \in Seq(Entries) /\ SetsAll(deploy.env, <<a, b>>, PutAll(deploy.env, <<a, b>>), {})
    BY <1>0, <2>3, Names2, PutAllSets
  <2>6. CASE deploy'.env = PutAll(deploy.env, <<a, b>>) /\ (component = "interceptor" => input.openshift)
    BY <1>7, <2>2, <2>5, <2>6 DEF EnvStep, UserLast, AddonComponents
  <2> QED BY <1>1, <1>7, <2>4, <2>6
<1>8. CASE Head(todo) = "env"
  <2>1. deploy'.env = PutAll(deploy.env, input.env)
    BY <1>0, <1>8, Dispatch DEF ReplaceContainerEnv, DeployFields
  <2>2. input.env \in Seq(Entries)
    BY <1>0, InputsAssumption
  <2>3. SetsAll(deploy.env, input.env, deploy'.env, {})
    BY <1>0, <2>1, <2>2, PutAllSets
  <2> QED BY <1>8, <2>2, <2>3 DEF EnvStep
<1>9. CASE Head(todo) = "gcp"
  <2>1. GCPDeploymentTransforms
    BY <1>9, Dispatch
  <2>2. component \notin AddonComponents
    BY <1>00, <1>9 DEF Foreign
  <2>3. CASE gcpConfig.kind # "config"
    BY <1>0, <1>1, <1>9, <2>1, <2>3 DEF GCPDeploymentTransforms, When
  <2>4. CASE gcpConfig.kind = "config"
    <3> DEFINE a == Entry("GOOGLE_APPLICATION_CREDENTIALS", "file")
               b == Entry("CLOUDSDK_CORE_PROJECT", gcpProject)
               rest == IF gcpProject = "" THEN <<>> ELSE <<b>>
               new == <<a>> \o rest
    <3>1. deploy'.env = PutAll(deploy.env, new)
      BY <1>0, <2>1, <2>4 DEF GCPDeploymentTransforms, When, DeployFields
    <3>2. gcpProject \in STRING
      BY <1>0, <2>4, InputsAssumption
      DEF gcpProject, gcpPlatform, gcpConfig, gcpWorkloadIdentityConfig, ConfigFromSpec,
          ConfigFromEnv, parseConfig, NotConfigured, Invalid, PlatformFromInfrastructure, TrimSpace
    <3>3. a \in Entries /\ b \in Entries /\ a.name = "GOOGLE_APPLICATION_CREDENTIALS"
      <4>1. {"GOOGLE_APPLICATION_CREDENTIALS", "file", "CLOUDSDK_CORE_PROJECT"} \subseteq STRING
        BY TextsAssumption DEF Texts
      <4> QED BY <3>2, <4>1 DEF Entry, Entries
    <3> HIDE DEF a, b
    <3>4. <<a>> \in Seq(Entries) /\ NamesOf(<<a>>) = {a.name} /\ <<b>> \in Seq(Entries)
      BY <3>3, Names1
    <3>10. <<>> \in Seq(Entries)
      OBVIOUS
    <3>7. new = <<a>> \o rest /\ rest \in Seq(Entries)
      <4>1. rest \in {<<>>, <<b>>}
        OBVIOUS
      <4> HIDE DEF rest
      <4> QED BY <3>4, <3>10, <4>1
    <3> HIDE DEF new, rest
    <3>8. new \in Seq(Entries)
      BY <3>4, <3>7
    <3>9. NamesOf(new) = NamesOf(<<a>>) \cup NamesOf(rest)
      BY <3>4, <3>7, ConcatOnce
    <3>5. new \in Seq(Entries) /\ a.name \in NamesOf(new)
      BY <3>4, <3>8, <3>9
    <3>6. SetsAll(deploy.env, new, deploy'.env, {})
      BY <1>0, <3>1, <3>5, PutAllSets
    <3> QED BY <1>9, <2>2, <3>3, <3>5, <3>6 DEF EnvStep, UserLast
  <2> QED BY <2>3, <2>4
<1> QED BY <1>3, <1>4, <1>5, <1>6, <1>7, <1>8, <1>9

\* The user's arguments as the operator reads them.
Given == [i \in DOMAIN input.args |-> ReplaceArbitraryArg(input.args[i])]

LEMMA GivenEntries ==
  ASSUME input \in Inputs
  PROVE  Given \in Seq(Entries) /\ Len(Given) = Len(input.args)
<1>1. input.args \in Seq(Arguments)
  BY InputsAssumption
<1>2. "" \in STRING
  BY TextsAssumption DEF Texts
<1>3. ASSUME NEW a \in Arguments PROVE ReplaceArbitraryArg(a) \in Entries
  <2>1. CASE a \in [form : {"bare"}, value : STRING]
    BY <1>2, <2>1 DEF ReplaceArbitraryArg, Entry, Entries
  <2>2. CASE a \in [form : {"plain"}, prefix : STRING, value : STRING]
    BY <2>2 DEF ReplaceArbitraryArg, Entry, Entries
  <2>3. CASE a \in [form : {"more"}, prefix : STRING, value : STRING, head : STRING]
    BY <2>3 DEF ReplaceArbitraryArg, Entry, Entries
  <2> QED BY <2>1, <2>2, <2>3 DEF Arguments
<1>4. \A i \in 1..Len(input.args) : input.args[i] \in Arguments
  BY <1>1
<1>5. Len(input.args) \in Nat /\ DOMAIN input.args = 1..Len(input.args)
  BY <1>1
<1>6. IsList(Given, Len(input.args), Entries)
  BY <1>3, <1>4, <1>5 DEF IsList, Given
<1> QED BY <1>5, <1>6, Mapped

\* What the transformers put into the arguments of the container.
ArgsStep ==
    Head(todo) # "caArgs" =>
      \E new \in Seq(Entries) :
         /\ SetsAll(deploy.args, new, deploy'.args, {""})
         /\ Head(todo) = "args" => new = Given
         /\ Head(todo) # "args" => "--ca-dir=" \notin NamesOf(new)

LEMMA ArgsSteps ==
  ASSUME TypeInv, Next, Moves, Untouched
  PROVE  ArgsStep
<1>0. /\ DOMAIN deploy = DeployFields /\ deploy.args \in Seq(Entries) /\ input \in Inputs
      /\ component \in Components
  BY DEF TypeInv, IsDeployment
<1>1. ASSUME deploy'.args = deploy.args, Head(todo) # "args" PROVE ArgsStep
  <2>1. <<>> \in Seq(Entries) /\ NamesOf(<<>>) = {}
    BY DEF NamesOf
  <2>2. SetsAll(deploy.args, <<>>, deploy.args, {""})
    BY <1>0, SetsNothing
  <2> QED BY <1>1, <2>1, <2>2 DEF ArgsStep
<1>2. ASSUME NEW new \in Seq(Entries), deploy'.args = SetArgs(deploy.args, new),
             Head(todo) # "args", "--ca-dir=" \notin NamesOf(new)
      PROVE  ArgsStep
  <2>1. SetsAll(deploy.args, new, deploy'.args, {""})
    BY <1>0, <1>2, SetArgsSets
  <2> QED BY <1>2, <2>1 DEF ArgsStep
<1>3. CASE Head(todo) \notin {"caArgs", "certRotation", "certPaths", "audit", "auditConfig", "log", "args"}
  BY <1>1, <1>3 DEF Untouched
<1>4. CASE Head(todo) = "certRotation"
  <2> DEFINE e == Entry("--enable-cert-rotation=", IF input.openshift THEN "false" ELSE "true")
  <2>1. deploy'.args = replaceContainerArg(deploy.args, e)
    BY <1>0, <1>4, Dispatch DEF SetOperatorCertRotation, DeployFields
  <2>2. {"--enable-cert-rotation=", "false", "true"} \subseteq Texts
    BY DEF Texts
  <2>6. (IF input.openshift THEN "false" ELSE "true") \in Texts
    BY <2>2, Zenon
  <2>3. e \in Entries /\ e.name = "--enable-cert-rotation="
    BY <2>2, <2>6, TextEntry
  <2> HIDE DEF e
  <2>4. SetsAll(deploy.args, <<e>>, replaceContainerArg(deploy.args, e), {""})
    BY <1>0, <2>3, ArgSets, SetsOne
  <2>5. <<e>> \in Seq(Entries) /\ NamesOf(<<e>>) = {e.name}
    BY <2>3, Names1
  <2> QED BY <1>4, <2>1, <2>3, <2>4, <2>5 DEF ArgsStep
<1>5. CASE Head(todo) = "certPaths"
  <2> DEFINE a == Entry("--client-ca-file=", "/certs/ca.crt")
             b == Entry("--tls-cert-file=", "/certs/ocp-tls.crt")
             c == Entry("--tls-private-key-file=", "/certs/ocp-tls.key")
  <2>1. \/ deploy'.args = deploy.args
        \/ deploy'.args = SetArgs(deploy.args, <<a, b, c>>)
    BY <1>0, <1>5, Dispatch DEF EnsurePathsToCerts, When, DeployFields
  <2>2. {"--client-ca-file=", "/certs/ca.crt", "--tls-cert-file=", "/certs/ocp-tls.crt",
         "--tls-private-key-file=", "/certs/ocp-tls.key"} \subseteq Texts
    BY DEF Texts
  <2>3. /\ a \in Entries /\ a.name = "--client-ca-file="
        /\ b \in Entries /\ b.name = "--tls-cert-file="
        /\ c \in Entries /\ c.name = "--tls-private-key-file="
    BY <2>2, TextEntry
  <2> HIDE DEF a, b, c
  <2>4. <<a, b, c>> \in Seq(Entries) /\ NamesOf(<<a, b, c>>) = {a.name, b.name, c.name}
    BY <2>3, Names3
  <2> QED BY <1>1, <1>2, <1>5, <2>1, <2>3, <2>4
<1>6. CASE Head(todo) = "audit"
  <2>1. EnsureAudit \/ RejectAudit
    BY <1>6, Dispatch
  <2>2. CASE RejectAudit
    BY <1>1, <1>6, <2>2 DEF RejectAudit, Reject
  <2>3. CASE EnsureAudit
    <3> DEFINE a == Entry("--audit-policy-file=", "policy.yaml")
               mid == replaceContainerArg(deploy.args, a)
    <3>1. input.audit \in {"off", "stdout", "volume"}
      BY <1>0, <2>3, InputsAssumption DEF EnsureAudit, AuditAccepted
    <3>2. CASE input.audit = "off"
      BY <1>1, <1>6, <2>3, <3>2 DEF EnsureAudit
    <3>3. ASSUME NEW to \in Texts, deploy'.args = replaceContainerArg(mid, Entry("--audit-log-path=", to))
          PROVE  ArgsStep
      <4> DEFINE b == Entry("--audit-log-path=", to)
                 out == replaceContainerArg(mid, b)
      <4>1. {"--audit-policy-file=", "policy.yaml", "--audit-log-path="} \subseteq Texts
        BY AuditTexts
      <4>2. /\ a \in Entries /\ a.name = "--audit-policy-file="
            /\ b \in Entries /\ b.name = "--audit-log-path="
        BY <4>1, TextEntry
      <4>6. deploy'.args = out
        BY <3>3
      <4> HIDE DEF a, b
      <4>3. mid \in Seq(Entries) /\ Sets(deploy.args, a, mid, {""})
        BY <1>0, <4>2, ArgSets
      <4> HIDE DEF mid
      <4>4. out \in Seq(Entries) /\ Sets(mid, b, out, {""})
        BY <4>2, <4>3, ArgSets
      <4> HIDE DEF out
      <4>5. SetsAll(deploy.args, <<a, b>>, out, {""})
        BY <1>0, <4>2, <4>3, <4>4, SetsTwo
      <4>7. <<a, b>> \in Seq(Entries) /\ NamesOf(<<a, b>>) = {a.name, b.name}
        BY <4>2, Names2
      <4> QED BY <1>6, <4>2, <4>5, <4>6, <4>7 DEF ArgsStep
    <3>4. "-" \in Texts /\ "file" \in Texts
      BY AuditTexts
    <3>5. CASE input.audit = "stdout"
      <4>1. deploy'.args = replaceContainerArg(mid, Entry("--audit-log-path=", "-"))
        BY <1>0, <2>3, <3>5
        DEF EnsureAudit, ReplaceAuditConfig, EnsureAuditPolicyConfigMapMountsVolume, DeployFields
      <4> QED BY <3>3, <3>4, <4>1
    <3>6. CASE input.audit = "volume"
      <4>1. deploy'.args = replaceContainerArg(mid, Entry("--audit-log-path=", "file"))
        BY <1>0, <2>3, <3>6
        DEF EnsureAudit, ReplaceAuditConfig, EnsureAuditPolicyConfigMapMountsVolume,
            EnsureAuditLogMount, DeployFields
      <4> QED BY <3>3, <3>4, <4>1
    <3> QED BY <3>1, <3>2, <3>5, <3>6
  <2> QED BY <2>1, <2>2, <2>3
<1>7. CASE Head(todo) = "auditConfig"
  <2> DEFINE a == Entry("--audit-log-format=", input.lifetime.format)
             b == Entry("--audit-log-maxage=", input.lifetime.maxage)
             c == Entry("--audit-log-maxbackup=", input.lifetime.maxbackup)
             d == Entry("--audit-log-maxsize=", input.lifetime.maxsize)
             flags == <<a, b, c, d>>
             new == Only(flags, {e \in ToSet(flags) : e.value # ""})
  <2>1. deploy'.args = SetArgs(deploy.args, new)
    BY <1>0, <1>7, Dispatch DEF auditConfigTransformation, DeployFields
  <2>2. {"--audit-log-format=", "--audit-log-maxage=", "--audit-log-maxbackup=",
         "--audit-log-maxsize="} \subseteq STRING
    BY TextsAssumption DEF Texts
  <2>3. /\ input.lifetime.format \in STRING /\ input.lifetime.maxage \in STRING
        /\ input.lifetime.maxbackup \in STRING /\ input.lifetime.maxsize \in STRING
    BY <1>0, InputsAssumption
  <2>4. /\ a \in Entries /\ a.name = "--audit-log-format="
        /\ b \in Entries /\ b.name = "--audit-log-maxage="
        /\ c \in Entries /\ c.name = "--audit-log-maxbackup="
        /\ d \in Entries /\ d.name = "--audit-log-maxsize="
    BY <2>2, <2>3 DEF Entry, Entries
  <2> HIDE DEF a, b, c, d
  <2>5. flags \in Seq(Entries) /\ NamesOf(flags) = {a.name, b.name, c.name, d.name}
    BY <2>4, Names4
  <2> HIDE DEF flags
  <2>6. new \in Seq(Entries) /\ NamesOf(new) \subseteq NamesOf(flags)
    BY <2>5, OnlyNames
  <2> QED BY <1>2, <1>7, <2>1, <2>4, <2>5, <2>6
<1>8. CASE Head(todo) = "log"
  <2>1. deploy'.args = SetArgs(deploy.args, KnownLogSettings)
    BY <1>0, <1>8, Dispatch DEF ReplaceLogLevel, DeployFields
  <2>2. {"--v=", "--zap-log-level=", "--zap-encoder=", "--zap-time-encoding="} \subseteq STRING
    BY TextsAssumption DEF Texts
  <2>3. input.log.level \in STRING /\ input.log.encoder \in STRING /\ input.log.time \in STRING
    BY <1>0, InputsAssumption
  <2>4. KnownLogSettings \in Seq(Entries) /\ "--ca-dir=" \notin NamesOf(KnownLogSettings)
    <3>1. CASE component = "metrics"
      <4> DEFINE a == Entry("--v=", input.log.level)
      <4>1. a \in Entries /\ a.name = "--v="
        BY <2>2, <2>3 DEF Entry, Entries
      <4>2. KnownLogSettings = Only(<<a>>, {Entry("--v=", "3")})
        BY <3>1 DEF KnownLogSettings
      <4> HIDE DEF a
      <4>3. <<a>> \in Seq(Entries) /\ NamesOf(<<a>>) = {a.name}
        BY <4>1, Names1
      <4>4. KnownLogSettings \in Seq(Entries) /\ NamesOf(KnownLogSettings) \subseteq NamesOf(<<a>>)
        BY <4>2, <4>3, OnlyNames
      <4> QED BY <4>1, <4>3, <4>4
    <3>2. CASE component # "metrics"
      <4> DEFINE a == Entry("--zap-log-level=", input.log.level)
                 b == Entry("--zap-encoder=", input.log.encoder)
                 c == Entry("--zap-time-encoding=", input.log.time)
                 S == {e \in Entries : e.value \in {"debug", "3", "json", "epoch"}}
      <4>1. /\ a \in Entries /\ a.name = "--zap-log-level="
            /\ b \in Entries /\ b.name = "--zap-encoder="
            /\ c \in Entries /\ c.name = "--zap-time-encoding="
        BY <2>2, <2>3 DEF Entry, Entries
      <4>2. KnownLogSettings = Only(<<a, b, c>>, S)
        BY <3>2 DEF KnownLogSettings
      <4> HIDE DEF a, b, c, S
      <4>3. <<a, b, c>> \in Seq(Entries) /\ NamesOf(<<a, b, c>>) = {a.name, b.name, c.name}
        BY <4>1, Names3
      <4>4. KnownLogSettings \in Seq(Entries) /\ NamesOf(KnownLogSettings) \subseteq NamesOf(<<a, b, c>>)
        BY <4>2, <4>3, OnlyNames
      <4> QED BY <4>1, <4>3, <4>4
    <3> QED BY <3>1, <3>2
  <2> QED BY <1>2, <1>8, <2>1, <2>4
<1>9. CASE Head(todo) = "args"
  <2>1. deploy'.args = SetArgs(deploy.args, Given)
    BY <1>0, <1>9, Dispatch DEF ReplaceArgs, DeployFields, Given
  <2>2. Given \in Seq(Entries) /\ SetsAll(deploy.args, Given, deploy'.args, {""})
    BY <1>0, <2>1, GivenEntries, SetArgsSets
  <2> QED BY <1>9, <2>2 DEF ArgsStep
<1>10. CASE Head(todo) = "caArgs"
  BY <1>10 DEF ArgsStep
<1> QED BY <1>3, <1>4, <1>5, <1>6, <1>7, <1>8, <1>9, <1>10

\* The volumes that the transformers themselves put in, and those of Workload Identity.
OperatorVolumes ==
    {"certificates", "audit-policy", "audit-log", "bound-sa-token", "gcp-credentials",
     "interceptor-certs"}
GCPVolumes == {Entry("bound-sa-token", gcpConfig.token),
               Entry("gcp-credentials", "keda-gcp-credentials")}
GCPMounts == {Entry("bound-sa-token", "/var/run/secrets/openshift"),
              Entry("gcp-credentials", "/var/run/secrets/gcp")}

\* What the transformers put into the volumes and the mounts.
VolumesBy(volumes, mounts) ==
    /\ volumes \in Seq(Entries) /\ mounts \in Seq(Entries)
    /\ Overlays(deploy.volumes, volumes, deploy'.volumes)
    /\ Overlays(deploy.mounts, mounts, deploy'.mounts)
    /\ NamedOnce(deploy.mounts) => NamedOnce(deploy'.mounts)

VolumesStep ==
    Head(todo) # "caVolumes" =>
      \E volumes, mounts \in Seq(Entries) :
         /\ VolumesBy(volumes, mounts)
         /\ Head(todo) = "volumes" => volumes = input.volumes /\ mounts = <<>>
         /\ Head(todo) = "mounts" => volumes = <<>> /\ mounts = input.mounts
         /\ Head(todo) \notin {"volumes", "mounts"} =>
              /\ NamedOnce(volumes) /\ NamesOf(volumes) \subseteq OperatorVolumes
              /\ NamesOf(mounts) \subseteq NamesOf(volumes)
         /\ Head(todo) = "gcp" /\ gcpConfig.kind = "config" =>
              /\ NamedOnce(mounts)
              /\ ToSet(volumes) = GCPVolumes /\ ToSet(mounts) = GCPMounts

LEMMA OverlayNothing ==
  ASSUME NEW list \in Seq(Entries)
  PROVE  /\ <<>> \in Seq(Entries) /\ Overlays(list, <<>>, list)
         /\ NamedOnce(<<>>) /\ NamesOf(<<>>) = {}
<1>1. <<>> \in Seq(Entries)
  OBVIOUS
<1>2. Overlays(list, <<>>, list)
  BY <1>1, SetsNothing, SetsOverlay
<1> QED BY <1>1, <1>2 DEF NamedOnce, NamesOf

LEMMA OverlayOne ==
  ASSUME NEW list \in Seq(Entries), NEW e \in Entries
  PROVE  /\ <<e>> \in Seq(Entries) /\ Put(list, e) \in Seq(Entries)
         /\ Overlays(list, <<e>>, Put(list, e))
         /\ NamedOnce(list) => NamedOnce(Put(list, e))
         /\ NamedOnce(<<e>>) /\ NamesOf(<<e>>) = {e.name}
<1>1. <<e>> \in Seq(Entries) /\ NamesOf(<<e>>) = {e.name}
  BY Names1
<1>2. Put(list, e) \in Seq(Entries) /\ SetsAll(list, <<e>>, Put(list, e), {})
  BY PutSets, SetsOne
<1>3. Overlays(list, <<e>>, Put(list, e)) /\ (NamedOnce(list) => NamedOnce(Put(list, e)))
  BY <1>1, <1>2, SetsOverlay
<1>4. NamedOnce(<<e>>)
  BY DEF NamedOnce
<1> QED BY <1>1, <1>2, <1>3, <1>4

LEMMA PairOnce ==
  ASSUME NEW a \in Entries, NEW b \in Entries, a.name # b.name
  PROVE  NamedOnce(<<a, b>>)
BY DEF NamedOnce

LEMMA OverlayTwo ==
  ASSUME NEW list \in Seq(Entries), NEW a \in Entries, NEW b \in Entries, a.name # b.name
  PROVE  /\ Overlays(list, <<a, b>>, Put(Put(list, a), b))
         /\ NamedOnce(list) => NamedOnce(Put(Put(list, a), b))
<1> DEFINE mid == Put(list, a)
           out == Put(mid, b)
<1>1. mid \in Seq(Entries) /\ Sets(list, a, mid, {})
  BY PutSets
<1> HIDE DEF mid
<1>2. out \in Seq(Entries) /\ Sets(mid, b, out, {})
  BY <1>1, PutSets
<1> HIDE DEF out
<1>3. SetsAll(list, <<a, b>>, out, {})
  BY <1>1, <1>2, SetsTwo
<1>4. <<a, b>> \in Seq(Entries)
  BY Names2
<1>5. Overlays(list, <<a, b>>, out) /\ (NamedOnce(list) => NamedOnce(out))
  BY <1>3, <1>4, SetsOverlay
<1> QED BY <1>5 DEF out, mid

LEMMA VolumesSteps ==
  ASSUME TypeInv, Next, Moves, Untouched
  PROVE  VolumesStep
<1>0. /\ DOMAIN deploy = DeployFields /\ input \in Inputs /\ component \in Components
      /\ deploy.volumes \in Seq(Entries) /\ deploy.mounts \in Seq(Entries)
  BY DEF TypeInv, IsDeployment
<1>1. ASSUME deploy'.volumes = deploy.volumes, deploy'.mounts = deploy.mounts,
             Head(todo) \notin {"volumes", "mounts"},
             ~(Head(todo) = "gcp" /\ gcpConfig.kind = "config")
      PROVE  VolumesStep
  <2>1. VolumesBy(<<>>, <<>>) /\ NamedOnce(<<>>) /\ NamesOf(<<>>) = {}
    BY <1>0, <1>1, OverlayNothing DEF VolumesBy
  <2>2. <<>> \in Seq(Entries)
    OBVIOUS
  <2> QED BY <1>1, <2>1, <2>2 DEF VolumesStep
<1>2. ASSUME NEW v \in Entries, NEW m \in Entries, v.name \in OperatorVolumes, m.name = v.name,
             deploy'.volumes = Put(deploy.volumes, v), deploy'.mounts = Put(deploy.mounts, m),
             Head(todo) \notin {"volumes", "mounts", "gcp"}
      PROVE  VolumesStep
  <2>1. /\ VolumesBy(<<v>>, <<m>>) /\ NamedOnce(<<v>>)
        /\ NamesOf(<<v>>) = {v.name} /\ NamesOf(<<m>>) = {v.name}
    BY <1>0, <1>2, OverlayOne DEF VolumesBy
  <2>2. <<v>> \in Seq(Entries) /\ <<m>> \in Seq(Entries)
    OBVIOUS
  <2> QED BY <1>2, <2>1, <2>2 DEF VolumesStep
<1>3. CASE Head(todo) \notin {"caVolumes", "certificates", "audit", "volumes", "mounts", "gcp", "certSecret"}
  BY <1>1, <1>3 DEF Untouched
<1>4. CASE Head(todo) = "caVolumes"
  BY <1>4 DEF VolumesStep
<1>5. CASE Head(todo) = "certificates"
  <2> DEFINE v == Entry("certificates", "service-certs")
             m == Entry("certificates", "/certs")
  <2>1. EnsureCertificatesVolume
    BY <1>5, Dispatch
  <2>2. {"certificates", "service-certs", "/certs"} \subseteq Texts
    BY DEF Texts
  <2>3. v \in Entries /\ v.name = "certificates" /\ m \in Entries /\ m.name = "certificates"
    BY <2>2, TextEntry
  <2>4. CASE ~input.openshift
    BY <1>1, <1>5, <2>1, <2>4 DEF EnsureCertificatesVolume, When
  <2>5. CASE input.openshift /\ component # "operator"
    <3>1. deploy'.volumes = Put(deploy.volumes, v) /\ deploy'.mounts = Put(deploy.mounts, m)
      BY <1>0, <2>1, <2>5 DEF EnsureCertificatesVolume, When, WithCertificates, DeployFields
    <3> HIDE DEF v, m
    <3> QED BY <1>2, <1>5, <2>3, <3>1 DEF OperatorVolumes
  <2>6. CASE input.openshift /\ component = "operator"
    <3>1. deploy'.volumes = Put(deploy.volumes, v) /\ deploy'.mounts = deploy.mounts
      BY <1>0, <2>1, <2>6 DEF EnsureCertificatesVolume, When, WithCertificates, DeployFields
    <3> HIDE DEF v, m
    <3>2. /\ VolumesBy(<<v>>, <<>>) /\ NamedOnce(<<v>>) /\ <<v>> \in Seq(Entries)
          /\ <<>> \in Seq(Entries) /\ NamesOf(<<v>>) = {v.name} /\ NamesOf(<<>>) = {}
      BY <1>0, <2>3, <3>1, OverlayOne, OverlayNothing DEF VolumesBy
    <3> QED BY <1>5, <2>3, <3>2 DEF VolumesStep, OperatorVolumes
  <2> QED BY <2>4, <2>5, <2>6
<1>6. CASE Head(todo) = "certSecret"
  <2> DEFINE v == Entry("interceptor-certs", "proxy-certs")
             m == Entry("interceptor-certs", "/certs")
  <2>1. EnsureCertSecretVolume
    BY <1>6, Dispatch
  <2>2. {"interceptor-certs", "proxy-certs", "/certs"} \subseteq Texts
    BY DEF Texts
  <2>3. v \in Entries /\ v.name = "interceptor-certs" /\ m \in Entries /\ m.name = "interceptor-certs"
    BY <2>2, TextEntry
  <2>4. CASE ~input.openshift
    BY <1>1, <1>6, <2>1, <2>4 DEF EnsureCertSecretVolume, When
  <2>5. CASE input.openshift
    <3>1. deploy'.volumes = Put(deploy.volumes, v) /\ deploy'.mounts = Put(deploy.mounts, m)
      BY <1>0, <2>1, <2>5 DEF EnsureCertSecretVolume, When, DeployFields
    <3> HIDE DEF v, m
    <3> QED BY <1>2, <1>6, <2>3, <3>1 DEF OperatorVolumes
  <2> QED BY <2>4, <2>5
<1>7. CASE Head(todo) = "audit"
  <2> DEFINE v == Entry("audit-policy", "policy")
             m == Entry("audit-policy", "/var/audit-policy")
             w == Entry("audit-log", "claim")
             n == Entry("audit-log", "/var/audit-policy/log")
  <2>1. EnsureAudit \/ RejectAudit
    BY <1>7, Dispatch
  <2>2. CASE RejectAudit
    BY <1>1, <1>7, <2>2 DEF RejectAudit, Reject
  <2>3. {"audit-policy", "policy", "/var/audit-policy", "audit-log", "claim",
         "/var/audit-policy/log"} \subseteq Texts
    BY AuditTexts
  <2>4. /\ v \in Entries /\ v.name = "audit-policy" /\ m \in Entries /\ m.name = "audit-policy"
        /\ w \in Entries /\ w.name = "audit-log" /\ n \in Entries /\ n.name = "audit-log"
    BY <2>3, TextEntry
  <2>5. CASE EnsureAudit
    <3>1. input.audit \in {"off", "stdout", "volume"}
      BY <1>0, <2>5, InputsAssumption DEF EnsureAudit, AuditAccepted
    <3>2. CASE input.audit = "off"
      BY <1>1, <1>7, <2>5, <3>2 DEF EnsureAudit
    <3>3. CASE input.audit = "stdout"
      <4>1. deploy'.volumes = Put(deploy.volumes, v) /\ deploy'.mounts = Put(deploy.mounts, m)
        BY <1>0, <2>5, <3>3
        DEF EnsureAudit, ReplaceAuditConfig, EnsureAuditPolicyConfigMapMountsVolume, DeployFields
      <4> HIDE DEF v, m
      <4> QED BY <1>2, <1>7, <2>4, <4>1 DEF OperatorVolumes
    <3>4. CASE input.audit = "volume"
      <4>1. /\ deploy'.volumes = Put(Put(deploy.volumes, v), w)
            /\ deploy'.mounts = Put(Put(deploy.mounts, m), n)
        BY <1>0, <2>5, <3>4
        DEF EnsureAudit, ReplaceAuditConfig, EnsureAuditPolicyConfigMapMountsVolume,
            EnsureAuditLogMount, DeployFields
      <4> HIDE DEF v, m, w, n
      <4>2. /\ <<v, w>> \in Seq(Entries) /\ NamesOf(<<v, w>>) = {"audit-policy", "audit-log"}
            /\ <<m, n>> \in Seq(Entries) /\ NamesOf(<<m, n>>) = {"audit-policy", "audit-log"}
        BY <2>4, Names2
      <4>3. NamedOnce(<<v, w>>)
        BY <2>4, PairOnce
      <4>4. VolumesBy(<<v, w>>, <<m, n>>)
        BY <1>0, <2>4, <4>1, <4>2, OverlayTwo DEF VolumesBy
      <4> QED BY <1>7, <4>2, <4>3, <4>4 DEF VolumesStep, OperatorVolumes
    <3> QED BY <3>1, <3>2, <3>3, <3>4
  <2> QED BY <2>1, <2>2, <2>5
<1>8. CASE Head(todo) = "volumes"
  <2>1. deploy'.volumes = ReplaceDeploymentVolumes(deploy.volumes, input.volumes)
    BY <1>0, <1>8, Dispatch DEF ReplaceVolumes, DeployFields
  <2>2. deploy'.mounts = deploy.mounts
    BY <1>8 DEF Untouched
  <2>3. input.volumes \in Seq(Entries)
    BY <1>0, InputsAssumption
  <2>4. VolumesBy(input.volumes, <<>>) /\ <<>> \in Seq(Entries)
    BY <1>0, <2>1, <2>2, <2>3, VolumesOverlay, OverlayNothing DEF VolumesBy
  <2> QED BY <1>8, <2>3, <2>4 DEF VolumesStep
<1>9. CASE Head(todo) = "mounts"
  <2>1. deploy'.mounts = PutAll(deploy.mounts, input.mounts)
    BY <1>0, <1>9, Dispatch DEF ReplaceVolumeMounts, DeployFields
  <2>2. deploy'.volumes = deploy.volumes
    BY <1>9 DEF Untouched
  <2>3. input.mounts \in Seq(Entries)
    BY <1>0, InputsAssumption
  <2>4. SetsAll(deploy.mounts, input.mounts, deploy'.mounts, {})
    BY <1>0, <2>1, <2>3, PutAllSets
  <2>5. VolumesBy(<<>>, input.mounts) /\ <<>> \in Seq(Entries)
    BY <1>0, <2>2, <2>3, <2>4, SetsOverlay, OverlayNothing DEF VolumesBy
  <2> QED BY <1>9, <2>3, <2>5 DEF VolumesStep
<1>10. CASE Head(todo) = "gcp"
  <2>1. GCPDeploymentTransforms
    BY <1>10, Dispatch
  <2>2. CASE gcpConfig.kind # "config"
    BY <1>0, <1>1, <1>10, <2>1, <2>2 DEF GCPDeploymentTransforms, When
  <2>3. CASE gcpConfig.kind = "config"
    <3> DEFINE v == Entry("bound-sa-token", gcpConfig.token)
               w == Entry("gcp-credentials", "keda-gcp-credentials")
               m == Entry("bound-sa-token", "/var/run/secrets/openshift")
               n == Entry("gcp-credentials", "/var/run/secrets/gcp")
    <3>1. /\ deploy'.volumes = ReplaceDeploymentVolumes(deploy.volumes, <<v, w>>)
          /\ deploy'.mounts = PutAll(deploy.mounts, <<m, n>>)
      BY <1>0, <2>1, <2>3 DEF GCPDeploymentTransforms, When, DeployFields
    <3>2. {"bound-sa-token", "gcp-credentials", "keda-gcp-credentials", "openshift",
           "/var/run/secrets/openshift", "/var/run/secrets/gcp"} \subseteq STRING
      BY TextsAssumption DEF Texts
    <3>3. gcpConfig.token \in STRING
      BY <1>0, <2>3, <3>2, InputsAssumption
      DEF gcpConfig, gcpWorkloadIdentityConfig, ConfigFromSpec, ConfigFromEnv, parseConfig,
          NotConfigured, Invalid, TrimSpace
    <3>4. /\ v \in Entries /\ v.name = "bound-sa-token" /\ m \in Entries /\ m.name = "bound-sa-token"
          /\ w \in Entries /\ w.name = "gcp-credentials" /\ n \in Entries /\ n.name = "gcp-credentials"
      BY <3>2, <3>3 DEF Entry, Entries
    <3>5. GCPVolumes = {v, w} /\ GCPMounts = {m, n}
      BY DEF GCPVolumes, GCPMounts
    <3> HIDE DEF v, m, w, n
    <3>6. /\ <<v, w>> \in Seq(Entries) /\ NamesOf(<<v, w>>) = {"bound-sa-token", "gcp-credentials"}
          /\ <<m, n>> \in Seq(Entries) /\ NamesOf(<<m, n>>) = {"bound-sa-token", "gcp-credentials"}
          /\ ToSet(<<v, w>>) = GCPVolumes /\ ToSet(<<m, n>>) = GCPMounts
      BY <3>4, <3>5, Names2
    <3>7. NamedOnce(<<v, w>>) /\ NamedOnce(<<m, n>>)
      BY <3>4, PairOnce
    <3>8. SetsAll(deploy.mounts, <<m, n>>, deploy'.mounts, {})
      BY <1>0, <3>1, <3>6, PutAllSets
    <3>9. Overlays(deploy.volumes, <<v, w>>, deploy'.volumes)
      BY <1>0, <3>1, <3>6, VolumesOverlay
    <3>10. /\ Overlays(deploy.mounts, <<m, n>>, deploy'.mounts)
           /\ NamedOnce(deploy.mounts) => NamedOnce(deploy'.mounts)
      BY <1>0, <3>6, <3>8, SetsOverlay
    <3>11. VolumesBy(<<v, w>>, <<m, n>>)
      BY <3>6, <3>9, <3>10 DEF VolumesBy
    <3> QED BY <1>10, <3>6, <3>7, <3>11 DEF VolumesStep, OperatorVolumes
  <2> QED BY <2>2, <2>3
<1> QED BY <1>3, <1>4, <1>5, <1>6, <1>7, <1>8, <1>9, <1>10

-----------------------------------------------------------------------------
(* CA bundles *)

LEMMA Arranged ==
  ASSUME NEW S, IsFiniteSet(S), NEW r \in SetToSeqs(S)
  PROVE  /\ r \in Seq(S) /\ ToSet(r) = S
         /\ \A i, j \in 1..Len(r) : r[i] = r[j] => i = j
<1> DEFINE n == Cardinality(S)
<1>1. n \in Nat
  BY FS_CardinalityType
<1>2. r \in [1..n -> S] /\ \A i, j \in 1..n : i # j => r[i] # r[j]
  BY DEF SetToSeqs
<1> HIDE DEF n
<1>3. r \in Seq(S) /\ Len(r) = n
  BY <1>1, <1>2
<1>4. r \in Injection(1..n, S)
  BY <1>2 DEF Injection, IsInjective
<1>5. IsFiniteSet(1..n) /\ Cardinality(1..n) = n
  <2>1. IsFiniteSet(1..n) /\ Cardinality(1..n) = IF 1 > n THEN 0 ELSE n - 1 + 1
    BY <1>1, FS_Interval
  <2> QED BY <1>1, <2>1
<1>6. r \in Surjection(1..n, S)
  BY <1>4, <1>5, FS_Injection DEF n
<1>7. \A x \in S : \E i \in 1..n : r[i] = x
  BY <1>6 DEF Surjection
<1>8. \A x : x \in ToSet(r) <=> \E i \in 1..n : x = r[i]
  BY <1>3, InToSet
<1>9. ToSet(r) = S
  BY <1>2, <1>7, <1>8
<1> QED BY <1>2, <1>3, <1>9

\* What is keyed: finitely many entries with the names of CA volumes.
Keyed(keyed) ==
    /\ IsFiniteSet(DOMAIN keyed)
    /\ \A k \in DOMAIN keyed : keyed[k] \in Entries /\ keyed[k].name \in CANames

\* The entries of a list that Rekeyed leaves alone.
Alone(list, keyed) ==
    {x \in ToSet(list) : x.name \notin DOMAIN keyed /\ x.name \notin CANames}

\* How Rekeyed builds its result.
Rebuilt(list, keyed, kept, placed, rest, out) ==
    /\ kept = Only(list, {e \in ToSet(list) : e.name \in DOMAIN keyed \/ ~IsCA(e.name)})
    /\ Len(placed) = Len(kept)
    /\ \A i \in 1..Len(kept) :
         placed[i] = IF kept[i].name \in DOMAIN keyed THEN keyed[kept[i].name] ELSE kept[i]
    /\ ToSet(rest) = {keyed[k] : k \in DOMAIN keyed \ NamesOf(list)}
    /\ \A i, j \in 1..Len(rest) : rest[i] = rest[j] => i = j
    /\ out = placed \o rest

LEMMA RekeyedParts ==
  ASSUME NEW list \in Seq(Entries), NEW keyed, Keyed(keyed), NEW out \in Rekeyed(list, keyed)
  PROVE  \E kept, placed, rest \in Seq(Entries) : Rebuilt(list, keyed, kept, placed, rest, out)
<1> DEFINE S == {e \in ToSet(list) : e.name \in DOMAIN keyed \/ ~IsCA(e.name)}
           kept == Only(list, S)
           placed == [i \in DOMAIN kept |->
                        IF kept[i].name \in DOMAIN keyed THEN keyed[kept[i].name] ELSE kept[i]]
           D == DOMAIN keyed \ NamesOf(list)
           missing == {keyed[k] : k \in D}
           g == [k \in D |-> keyed[k]]
<1>1. PICK rest \in SetToSeqs(missing) : out = placed \o rest
  BY DEF Rekeyed
<1>2. IsFiniteSet(missing)
  <2>1. IsFiniteSet(D)
    BY FS_Subset DEF Keyed
  <2>2. g \in Surjection(D, missing)
    BY DEF Surjection
  <2> HIDE DEF g, D, missing
  <2> QED BY <2>1, <2>2, FS_Surjection
<1>3. missing \subseteq Entries
  BY DEF Keyed
<1>4. kept \in Seq(Entries)
  BY OnlyNames
<1>5. /\ rest \in Seq(missing) /\ ToSet(rest) = missing
      /\ \A i, j \in 1..Len(rest) : rest[i] = rest[j] => i = j
  BY <1>1, <1>2, Arranged
<1>6. rest \in Seq(Entries)
  BY <1>3, <1>5
<1> HIDE DEF kept, missing, D
<1>7. Len(kept) \in Nat /\ DOMAIN kept = 1..Len(kept) /\ \A i \in 1..Len(kept) : kept[i] \in Entries
  BY <1>4
<1>8. \A i \in 1..Len(kept) :
        placed[i] = IF kept[i].name \in DOMAIN keyed THEN keyed[kept[i].name] ELSE kept[i]
  BY <1>7
<1>9. IsList(placed, Len(kept), Entries)
  BY <1>7 DEF IsList, Keyed
<1> HIDE DEF placed
<1>10. placed \in Seq(Entries) /\ Len(placed) = Len(kept)
  BY <1>7, <1>9, Mapped
<1>11. Rebuilt(list, keyed, kept, placed, rest, out)
  BY <1>1, <1>5, <1>8, <1>10 DEF missing, kept, D, Rebuilt
<1> QED BY <1>4, <1>6, <1>10, <1>11

LEMMA RekeyedSet ==
  ASSUME NEW list \in Seq(Entries), NEW keyed, Keyed(keyed), NEW out \in Rekeyed(list, keyed)
  PROVE  /\ out \in Seq(Entries)
         /\ ToSet(out) = {keyed[k] : k \in DOMAIN keyed} \cup Alone(list, keyed)
<1> DEFINE S == {e \in ToSet(list) : e.name \in DOMAIN keyed \/ ~IsCA(e.name)}
<1>0. PICK kept, placed, rest \in Seq(Entries) : Rebuilt(list, keyed, kept, placed, rest, out)
  BY RekeyedParts
<1>1. /\ kept = Only(list, S)
      /\ Len(placed) = Len(kept)
      /\ \A i \in 1..Len(kept) :
           placed[i] = IF kept[i].name \in DOMAIN keyed THEN keyed[kept[i].name] ELSE kept[i]
      /\ ToSet(rest) = {keyed[k] : k \in DOMAIN keyed \ NamesOf(list)}
      /\ \A i, j \in 1..Len(rest) : rest[i] = rest[j] => i = j
      /\ out = placed \o rest
  BY <1>0 DEF Rebuilt
<1>2. ToSet(kept) = S
  <2>1. ToSet(kept) = ToSet(list) \cap S
    BY <1>1, OnlyNames
  <2> QED BY <2>1
<1>3. out \in Seq(Entries) /\ ToSet(out) = ToSet(placed) \cup ToSet(rest)
  BY <1>1, ConcatSet
<1>4. \A x : x \in ToSet(kept) <=> \E i \in 1..Len(kept) : x = kept[i]
  BY InToSet
<1>11. \A x : x \in ToSet(placed) <=> \E i \in 1..Len(placed) : x = placed[i]
  BY InToSet
<1>5. \A x : x \in ToSet(placed) <=> \E i \in 1..Len(kept) : x = placed[i]
  BY <1>1, <1>11
<1> DEFINE Becomes(y) == IF y.name \in DOMAIN keyed THEN keyed[y.name] ELSE y
<1>12. \A i \in 1..Len(kept) : placed[i] = Becomes(kept[i])
  BY <1>1
<1>6. \A x : x \in ToSet(placed) <=> \E y \in S : x = Becomes(y)
  <2> HIDE DEF Becomes, S
  <2> TAKE x
  <2>1. ASSUME x \in ToSet(placed) PROVE \E y \in S : x = Becomes(y)
    <3>1. PICK i \in 1..Len(kept) : x = placed[i]
      BY <1>5, <2>1
    <3>2. kept[i] \in S /\ x = Becomes(kept[i])
      BY <1>2, <1>4, <1>12, <3>1
    <3> QED BY <3>2
  <2>2. ASSUME NEW y \in S, x = Becomes(y) PROVE x \in ToSet(placed)
    <3>1. PICK i \in 1..Len(kept) : y = kept[i]
      BY <1>2, <1>4, <2>2
    <3> QED BY <1>5, <1>12, <2>2, <3>1
  <2> QED BY <2>1, <2>2
<1>7. NamesOf(list) = {e.name : e \in ToSet(list)}
  BY NamesOfSet
<1>8. ASSUME NEW x \in ToSet(out) PROVE x \in {keyed[k] : k \in DOMAIN keyed} \cup Alone(list, keyed)
  <2>1. CASE x \in ToSet(rest)
    BY <1>1, <2>1
  <2>2. CASE x \in ToSet(placed)
    <3>1. PICK y \in S : x = Becomes(y)
      BY <1>6, <2>2
    <3> QED BY <3>1 DEF Alone, IsCA
  <2> QED BY <1>3, <2>1, <2>2
<1>9. ASSUME NEW k \in DOMAIN keyed PROVE keyed[k] \in ToSet(out)
  <2>1. CASE k \notin NamesOf(list)
    BY <1>1, <1>3, <2>1
  <2>2. CASE k \in NamesOf(list)
    <3>1. PICK y \in ToSet(list) : y.name = k
      BY <1>7, <2>2
    <3>2. y \in S
      BY <3>1
    <3>3. keyed[k] \in ToSet(placed)
      BY <1>6, <3>1, <3>2
    <3> QED BY <1>3, <3>3
  <2> QED BY <2>1, <2>2
<1>10. ASSUME NEW x \in Alone(list, keyed) PROVE x \in ToSet(out)
  <2>1. x \in S /\ x.name \notin DOMAIN keyed
    BY DEF Alone, IsCA
  <2>2. x \in ToSet(placed)
    BY <1>6, <2>1
  <2> QED BY <1>3, <2>2
<1> QED BY <1>3, <1>8, <1>9, <1>10

LEMMA RekeyedOnce ==
  ASSUME NEW list \in Seq(Entries), NEW keyed, Keyed(keyed), NEW out \in Rekeyed(list, keyed),
         NamedOnce(list),
         \A k, l \in DOMAIN keyed : keyed[k].name = keyed[l].name => k = l
  PROVE  NamedOnce(out)
<1> DEFINE S == {e \in ToSet(list) : e.name \in DOMAIN keyed \/ ~IsCA(e.name)}
<1>0. PICK kept, placed, rest \in Seq(Entries) : Rebuilt(list, keyed, kept, placed, rest, out)
  BY RekeyedParts
<1>1. /\ kept = Only(list, S)
      /\ Len(placed) = Len(kept)
      /\ \A i \in 1..Len(kept) :
           placed[i] = IF kept[i].name \in DOMAIN keyed THEN keyed[kept[i].name] ELSE kept[i]
      /\ ToSet(rest) = {keyed[k] : k \in DOMAIN keyed \ NamesOf(list)}
      /\ \A i, j \in 1..Len(rest) : rest[i] = rest[j] => i = j
      /\ out = placed \o rest
  BY <1>0 DEF Rebuilt
<1>2. NamedOnce(kept) /\ NamesOf(kept) \subseteq NamesOf(list) /\ ToSet(kept) = ToSet(list) \cap S
  BY <1>1, OnlyNames, OnlyOnce
<1>3. \A i, j \in 1..Len(kept) : kept[i].name = kept[j].name => i = j
  BY <1>2 DEF NamedOnce
<1>4. \A i \in 1..Len(kept) : kept[i].name \in NamesOf(list)
                              /\ (kept[i].name \notin DOMAIN keyed => kept[i].name \notin CANames)
  <2> TAKE i \in 1..Len(kept)
  <2>1. kept[i] \in ToSet(kept) /\ kept[i].name \in NamesOf(kept)
    BY InToSet, InNames
  <2> QED BY <1>2, <2>1 DEF IsCA
<1>5. \A k \in DOMAIN keyed : keyed[k].name \in CANames
  BY DEF Keyed
<1> HIDE DEF S
<1>6. NamedOnce(placed)
  <2> SUFFICES ASSUME NEW i \in 1..Len(kept), NEW j \in 1..Len(kept), placed[i].name = placed[j].name
               PROVE  i = j
    <3>1. DOMAIN placed = 1..Len(placed) /\ Len(placed) = Len(kept)
      BY <1>1
    <3> QED BY <3>1 DEF NamedOnce
  <2>1. CASE kept[i].name \in DOMAIN keyed /\ kept[j].name \in DOMAIN keyed
    BY <1>1, <1>3, <2>1
  <2>2. CASE kept[i].name \in DOMAIN keyed /\ kept[j].name \notin DOMAIN keyed
    BY <1>1, <1>4, <1>5, <2>2
  <2>3. CASE kept[i].name \notin DOMAIN keyed /\ kept[j].name \in DOMAIN keyed
    BY <1>1, <1>4, <1>5, <2>3
  <2>4. CASE kept[i].name \notin DOMAIN keyed /\ kept[j].name \notin DOMAIN keyed
    BY <1>1, <1>3, <2>4
  <2> QED BY <2>1, <2>2, <2>3, <2>4
<1>7. \A i \in 1..Len(rest) : \E k \in DOMAIN keyed \ NamesOf(list) : rest[i] = keyed[k]
  <2> TAKE i \in 1..Len(rest)
  <2>1. rest[i] \in ToSet(rest)
    BY InToSet
  <2> QED BY <1>1, <2>1
<1>8. NamedOnce(rest)
  <2> SUFFICES ASSUME NEW i \in 1..Len(rest), NEW j \in 1..Len(rest), rest[i].name = rest[j].name
               PROVE  i = j
    BY DEF NamedOnce
  <2>1. PICK k \in DOMAIN keyed : rest[i] = keyed[k]
    BY <1>7
  <2>2. PICK l \in DOMAIN keyed : rest[j] = keyed[l]
    BY <1>7
  <2>3. k = l
    BY <2>1, <2>2
  <2> QED BY <1>1, <2>1, <2>2, <2>3
<1>9. NamesOf(placed) \cap NamesOf(rest) = {}
  <2>1. ASSUME NEW i \in 1..Len(kept), NEW j \in 1..Len(rest), placed[i].name = rest[j].name
        PROVE  FALSE
    <3>1. PICK l \in DOMAIN keyed \ NamesOf(list) : rest[j] = keyed[l]
      BY <1>7
    <3>2. CASE kept[i].name \in DOMAIN keyed
      <4>1. kept[i].name = l
        BY <1>1, <2>1, <3>1, <3>2
      <4> QED BY <1>4, <3>1, <4>1
    <3>3. CASE kept[i].name \notin DOMAIN keyed
      BY <1>1, <1>4, <1>5, <2>1, <3>1, <3>3
    <3> QED BY <3>2, <3>3
  <2>2. \A x : x \in NamesOf(placed) <=> \E i \in 1..Len(placed) : placed[i].name = x
    BY InNames
  <2>3. \A x : x \in NamesOf(rest) <=> \E i \in 1..Len(rest) : rest[i].name = x
    BY InNames
  <2>4. Len(placed) = Len(kept)
    BY <1>1
  <2> QED BY ONLY <2>1, <2>2, <2>3, <2>4
<1> QED BY <1>1, <1>6, <1>8, <1>9, ConcatOnce

\* A list with something new put before it.
LEMMA Prepended ==
  ASSUME NEW C, NEW x \in C, NEW s \in Seq(C), x \notin ToSet(s), NEW d, d = <<x>> \o s
  PROVE  /\ d \in Seq(C) /\ Len(d) = Len(s) + 1 /\ ToSet(d) = {x} \cup ToSet(s)
         /\ IsInjective(s) => IsInjective(d)
<1>1. Len(s) \in Nat /\ DOMAIN s = 1..Len(s) /\ \A i \in 1..Len(s) : s[i] \in C
  OBVIOUS
<1>2. \A y : y \in ToSet(s) <=> \E i \in 1..Len(s) : y = s[i]
  BY InToSet
<1>3. d \in Seq(C) /\ Len(d) = Len(s) + 1 /\ d[1] = x
  OBVIOUS
<1>4. \A i \in 1..Len(s) : d[i + 1] = s[i]
  OBVIOUS
<1>5. \A y : y \in ToSet(d) <=> \E i \in 1..Len(d) : y = d[i]
  BY <1>3, InToSet
<1>6. DOMAIN d = 1..(Len(s) + 1)
  BY <1>3
<1>7. \A i \in 1..(Len(s) + 1) : i = 1 \/ (i - 1 \in 1..Len(s) /\ (i - 1) + 1 = i)
  BY <1>1
<1>8. \A i \in 1..(Len(s) + 1) : i # 1 => i - 1 \in 1..Len(s) /\ d[i] = s[i - 1]
  BY <1>4, <1>7
<1>9. \A i \in 1..Len(s) : i + 1 \in 1..(Len(s) + 1)
  BY <1>1
<1>10. 1 \in 1..(Len(s) + 1)
  BY <1>1
<1>11. ToSet(d) = {x} \cup ToSet(s)
  <2>1. ASSUME NEW y \in ToSet(d) PROVE y \in {x} \cup ToSet(s)
    <3>1. PICK i \in 1..(Len(s) + 1) : y = d[i]
      BY <1>3, <1>5
    <3> QED BY <1>2, <1>3, <1>8, <3>1
  <2>2. x \in ToSet(d)
    BY <1>3, <1>5, <1>10
  <2>3. ASSUME NEW y \in ToSet(s) PROVE y \in ToSet(d)
    BY <1>2, <1>3, <1>4, <1>5, <1>9
  <2> QED BY <2>1, <2>2, <2>3
<1>12. ASSUME IsInjective(s) PROVE IsInjective(d)
  <2>1. \A i, j \in 1..Len(s) : s[i] = s[j] => i = j
    BY <1>1, <1>12 DEF IsInjective
  <2>2. \A i \in 1..(Len(s) + 1) : i # 1 => d[i] # x
    BY <1>2, <1>8
  <2>3. ASSUME NEW i \in 1..(Len(s) + 1), NEW j \in 1..(Len(s) + 1), d[i] = d[j] PROVE i = j
    <3>1. CASE i = 1 \/ j = 1
      BY <1>3, <2>2, <2>3, <3>1
    <3>2. CASE i # 1 /\ j # 1
      <4>1. i - 1 \in 1..Len(s) /\ j - 1 \in 1..Len(s) /\ s[i - 1] = s[j - 1]
        BY <1>8, <2>3, <3>2
      <4>2. i - 1 = j - 1
        BY <2>1, <4>1
      <4> QED BY <1>1, <4>2
    <3> QED BY <3>1, <3>2
  <2> QED BY <1>6, <2>3 DEF IsInjective
<1> QED BY <1>3, <1>11, <1>12

LEMMA Within ==
  ASSUME NEW T, NEW s \in Seq(T), NEW n \in Nat, n <= Len(s)
  PROVE  \A i \in 1..n : s[i] \in T /\ i \in DOMAIN s
<1>1. Len(s) \in Nat /\ DOMAIN s = 1..Len(s)
  OBVIOUS
<1>2. \A i \in 1..n : i \in 1..Len(s)
  BY <1>1
<1> QED BY <1>1, <1>2

LEMMA CAMaps ==
  ASSUME TypeInv
  PROVE  /\ caConfigMaps \in Seq(STRING) /\ Len(caConfigMaps) <= Len(CAVolume)
         /\ IsInjective(input.caConfigMaps) => IsInjective(caConfigMaps)
         /\ ToSet(caConfigMaps) \subseteq ToSet(input.caConfigMaps) \cup {"keda-ocp-cabundle"}
         /\ component = "interceptor" => caConfigMaps = <<"keda-ocp-cabundle">>
<1> DEFINE o == "keda-ocp-cabundle"
           c == input.caConfigMaps
<1>1. /\ c \in Seq(STRING) /\ Len(c) < Len(CAVolume) /\ Len(c) \in Nat /\ Len(CAVolume) \in Nat
      /\ input.openshift \in BOOLEAN
  BY InputsAssumption, CAAssumption DEF TypeInv
<1>2. o \in STRING
  BY TextsAssumption DEF Texts
<1>3. <<o>> \in Seq(STRING) /\ Len(<<o>>) = 1 /\ ToSet(<<o>>) = {o} /\ IsInjective(<<o>>)
  <2>1. <<o>> \in Seq(STRING) /\ Len(<<o>>) = 1 /\ <<o>>[1] = o /\ DOMAIN <<o>> = 1..1 /\ 1..1 = {1}
    BY <1>2
  <2>2. ToSet(<<o>>) = {o}
    <3>1. \A x : x \in ToSet(<<o>>) <=> \E i \in 1..Len(<<o>>) : x = <<o>>[i]
      BY <2>1, InToSet
    <3> QED BY <2>1, <3>1
  <2>3. IsInjective(<<o>>)
    BY <2>1 DEF IsInjective
  <2> QED BY <2>1, <2>2, <2>3
<1>4. CASE component = "interceptor"
  BY <1>1, <1>3, <1>4 DEF caConfigMaps
<1>5. CASE component # "interceptor" /\ input.openshift /\ o \notin ToSet(c)
  <2> DEFINE d == <<o>> \o c
  <2>1. caConfigMaps = d
    BY <1>5 DEF caConfigMaps
  <2> HIDE DEF o, c
  <2>2. /\ d \in Seq(STRING) /\ Len(d) = Len(c) + 1 /\ ToSet(d) = {o} \cup ToSet(c)
        /\ IsInjective(c) => IsInjective(d)
    BY <1>1, <1>2, <1>5, Prepended
  <2> HIDE DEF d
  <2> USE DEF o, c
  <2> QED BY <1>1, <1>5, <2>1, <2>2
<1>6. CASE component # "interceptor" /\ ~(input.openshift /\ o \notin ToSet(c))
  <2>1. caConfigMaps = c
    BY <1>6 DEF caConfigMaps
  <2> QED BY <1>1, <1>6, <2>1
<1> QED BY <1>4, <1>5, <1>6

\* The volumes of the ConfigMaps, looked up by the name of the ConfigMap.
LEMMA BundleVolumes ==
  ASSUME NEW maps \in Seq(STRING), Len(maps) <= Len(CAVolume)
  PROVE  /\ Keyed(cabundleVolumes(maps)) /\ DOMAIN cabundleVolumes(maps) = ToSet(maps)
         /\ IsInjective(maps) =>
              \A i \in 1..Len(maps) : cabundleVolumes(maps)[maps[i]] = Entry(CAVolume[i], maps[i])
<1> DEFINE n == Len(maps)
           keyed == cabundleVolumes(maps)
           Latest(m, i) == maps[i] = m /\ \A j \in 1..n : maps[j] = m => j <= i
           last(m) == CHOOSE i \in 1..n : Latest(m, i)
<1>1. /\ n \in Nat /\ DOMAIN maps = 1..n /\ Len(CAVolume) \in Nat
      /\ \A i \in 1..n : CAVolume[i] \in CANames /\ CAVolume[i] \in STRING
      /\ \A i \in 1..n : maps[i] \in STRING
  <2>1. CAVolume \in Seq(CANames) /\ CANames \subseteq STRING
    BY CAAssumption
  <2>2. n \in Nat /\ DOMAIN maps = 1..n /\ Len(CAVolume) \in Nat /\ \A i \in 1..n : maps[i] \in STRING
    BY <2>1
  <2>3. \A i \in 1..n : CAVolume[i] \in CANames
    BY <2>1, <2>2, Within
  <2> QED BY <2>1, <2>2, <2>3
<1>2. \A x : x \in ToSet(maps) <=> \E i \in 1..n : x = maps[i]
  BY InToSet
<1>3. /\ DOMAIN keyed = ToSet(maps)
      /\ \A m \in ToSet(maps) : keyed[m] = Entry(CAVolume[last(m)], m)
  BY <1>1 DEF cabundleVolumes
<1> HIDE DEF keyed, n
<1>4. ASSUME NEW m \in ToSet(maps) PROVE \E i \in 1..n : Latest(m, i)
  <2> SUFFICES ASSUME \A i \in 1..n : ~Latest(m, i) PROVE FALSE
    OBVIOUS
  <2> DEFINE E == {k \in 0..n : \A j \in 1..n : maps[j] = m => j <= n - k}
  <2>1. 0 \in E
    BY <1>1
  <2>2. ASSUME NEW k \in 1..n, k - 1 \in E PROVE k \in E
    <3>1. \A j \in 1..n : maps[j] = m => j <= n - (k - 1)
      BY <2>2
    <3>2. n - (k - 1) \in 1..n /\ k \in 0..n
      BY <1>1
    <3>3. maps[n - (k - 1)] # m
      BY <3>1, <3>2
    <3>4. \A j \in 1..n : maps[j] = m => j <= n - k
      <4> SUFFICES ASSUME NEW j \in 1..n, maps[j] = m PROVE j <= n - k
        OBVIOUS
      <4>1. j <= n - (k - 1) /\ j # n - (k - 1)
        BY <3>1, <3>3
      <4> QED BY <1>1, <4>1
    <3> QED BY <3>2, <3>4
  <2> HIDE DEF E
  <2>3. 0..n \subseteq E
    BY <1>1, <2>1, <2>2, UpTo
  <2>4. n \in E
    BY <1>1, <2>3
  <2>5. \A j \in 1..n : maps[j] = m => j <= n - n
    BY <2>4 DEF E
  <2> QED BY <1>1, <1>2, <2>5
<1>5. \A m \in ToSet(maps) : last(m) \in 1..n /\ maps[last(m)] = m
  <2> TAKE m \in ToSet(maps)
  <2>1. last(m) \in 1..n /\ Latest(m, last(m))
    <3> HIDE DEF Latest
    <3> QED BY <1>4
  <2> QED BY <2>1
<1> HIDE DEF last
<1>6. \A m \in ToSet(maps) : m \in STRING
  BY <1>1, <1>2
<1>7. \A m \in ToSet(maps) : keyed[m] \in Entries /\ keyed[m].name \in CANames
  BY <1>1, <1>3, <1>5, <1>6 DEF Entry, Entries
<1>8. IsFiniteSet(ToSet(maps))
  <2>1. maps \in [1..n -> ToSet(maps)]
    BY <1>1, <1>2 DEF n
  <2>2. maps \in Surjection(1..n, ToSet(maps))
    BY <1>2, <2>1 DEF Surjection
  <2>3. IsFiniteSet(1..n)
    BY <1>1, FS_Interval
  <2> QED BY <2>2, <2>3, FS_Surjection
<1>9. ASSUME IsInjective(maps), NEW i \in 1..n PROVE keyed[maps[i]] = Entry(CAVolume[i], maps[i])
  <2>1. maps[i] \in ToSet(maps)
    BY <1>2
  <2>2. last(maps[i]) = i
    BY <1>1, <1>5, <1>9, <2>1 DEF IsInjective
  <2> QED BY <1>3, <2>1, <2>2
<1> QED BY <1>3, <1>7, <1>8, <1>9 DEF Keyed, keyed, n

\* The mounts, looked up by the name of the volume.
LEMMA BundleMounts ==
  ASSUME NEW maps \in Seq(STRING), Len(maps) <= Len(CAVolume)
  PROVE  /\ Keyed(cabundleVolumeMounts(maps))
         /\ DOMAIN cabundleVolumeMounts(maps) = {CAVolume[i] : i \in 1..Len(maps)}
         /\ \A i \in 1..Len(maps) :
              cabundleVolumeMounts(maps)[CAVolume[i]] = Entry(CAVolume[i], CADir[i])
<1> DEFINE n == Len(maps)
           keyed == cabundleVolumeMounts(maps)
           D == {CAVolume[i] : i \in 1..n}
           at(v) == CHOOSE i \in 1..n : CAVolume[i] = v
<1>1. /\ n \in Nat /\ DOMAIN maps = 1..n /\ Len(CAVolume) \in Nat
      /\ \A i \in 1..n : /\ CAVolume[i] \in CANames /\ CAVolume[i] \in STRING
                         /\ CADir[i] \in STRING /\ i \in DOMAIN CAVolume
      /\ IsInjective(CAVolume)
  <2>1. /\ CAVolume \in Seq(CANames) /\ CANames \subseteq STRING /\ IsInjective(CAVolume)
        /\ CADir \in Seq(STRING) /\ Len(CAVolume) = Len(CADir)
    BY CAAssumption
  <2>2. n \in Nat /\ DOMAIN maps = 1..n /\ Len(CAVolume) \in Nat /\ n <= Len(CADir)
    BY <2>1
  <2>3. \A i \in 1..n : CAVolume[i] \in CANames /\ i \in DOMAIN CAVolume
    BY <2>1, <2>2, Within
  <2>4. \A i \in 1..n : CADir[i] \in STRING
    BY <2>1, <2>2, Within
  <2> QED BY <2>1, <2>2, <2>3, <2>4
<1>2. DOMAIN keyed = D /\ \A v \in D : keyed[v] = Entry(v, CADir[at(v)])
  BY <1>1 DEF cabundleVolumeMounts
<1> HIDE DEF keyed, n
<1>3. \A i \in 1..n : at(CAVolume[i]) \in 1..n /\ CAVolume[at(CAVolume[i])] = CAVolume[i]
  OBVIOUS
<1>4. \A i \in 1..n : at(CAVolume[i]) = i
  <2> HIDE DEF at
  <2> QED BY <1>1, <1>3 DEF IsInjective
<1> HIDE DEF at
<1>5. \A i \in 1..n : keyed[CAVolume[i]] = Entry(CAVolume[i], CADir[i])
  BY <1>2, <1>4
<1>6. \A v \in D : keyed[v] \in Entries /\ keyed[v].name \in CANames
  <2>1. \A i \in 1..n : Entry(CAVolume[i], CADir[i]) \in Entries /\ Entry(CAVolume[i], CADir[i]).name = CAVolume[i]
    BY <1>1 DEF Entry, Entries
  <2> QED BY <1>1, <1>5, <2>1
<1>7. IsFiniteSet(D)
  <2> DEFINE g == [i \in 1..n |-> CAVolume[i]]
  <2>1. g \in Surjection(1..n, D)
    BY DEF Surjection
  <2>2. IsFiniteSet(1..n)
    BY <1>1, FS_Interval
  <2> HIDE DEF g, D
  <2> QED BY <2>1, <2>2, FS_Surjection
<1> QED BY <1>2, <1>5, <1>6, <1>7 DEF Keyed, keyed, n

\* The arguments that name the directories of the CA bundles.
CAArgs == [i \in 1..Len(caConfigMaps) |-> Entry("--ca-dir=", CADir[i])]

LEMMA CAArgsList ==
  ASSUME TypeInv
  PROVE  /\ CAArgs \in Seq(Entries) /\ Len(CAArgs) = Len(caConfigMaps)
         /\ \A i \in 1..Len(caConfigMaps) : CAArgs[i] = Entry("--ca-dir=", CADir[i])
         /\ NamesOf(CAArgs) \subseteq {"--ca-dir="}
         /\ LET dirs == SubSeq(CADir, 1, Len(caConfigMaps))
            IN [i \in DOMAIN dirs |-> Entry("--ca-dir=", dirs[i])] = CAArgs
<1> DEFINE n == Len(caConfigMaps)
           dirs == SubSeq(CADir, 1, n)
<1>1. n \in Nat /\ n <= Len(CAVolume)
  BY CAMaps
<1>2. CADir \in Seq(STRING) /\ n <= Len(CADir)
  BY <1>1, CAAssumption
<1> HIDE DEF n
<1>3. \A i \in 1..n : CADir[i] \in STRING
  BY <1>1, <1>2, Within
<1>4. "--ca-dir=" \in STRING
  BY TextsAssumption DEF Texts
<1>5. \A i \in 1..n : Entry("--ca-dir=", CADir[i]) \in Entries
  BY <1>3, <1>4 DEF Entry, Entries
<1>6. /\ DOMAIN CAArgs = 1..n
      /\ \A i \in 1..n : CAArgs[i] = Entry("--ca-dir=", CADir[i])
      /\ CAArgs = [i \in 1..n |-> Entry("--ca-dir=", CADir[i])]
  BY DEF CAArgs, n
<1>7. IsList(CAArgs, n, Entries)
  BY <1>5, <1>6 DEF IsList
<1>8. CAArgs \in Seq(Entries) /\ Len(CAArgs) = n
  BY <1>1, <1>7, Mapped
<1>9. NamesOf(CAArgs) \subseteq {"--ca-dir="}
  BY <1>6 DEF NamesOf, Entry
<1>10. DOMAIN dirs = 1..n /\ \A i \in 1..n : dirs[i] = CADir[i]
  <2>1. Len(CADir) \in Nat
    BY <1>2
  <2>2. dirs \in Seq(STRING) /\ Len(dirs) = n
    BY <1>1, <1>2, <2>1
  <2>3. \A i \in 1..n : dirs[i] = CADir[i]
    BY <1>1, <1>2, <2>1
  <2> QED BY <2>2, <2>3
<1> HIDE DEF dirs
<1>11. [i \in DOMAIN dirs |-> Entry("--ca-dir=", dirs[i])] = CAArgs
  BY <1>6, <1>10
<1> QED BY <1>6, <1>8, <1>9, <1>11 DEF n, dirs

LEMMA CAArgsStep ==
  ASSUME TypeInv, EnsureCADirs
  PROVE  /\ deploy'.args \in Seq(Entries)
         /\ "--ca-dir=" \notin NamesOf(deploy.args) => deploy'.args = deploy.args \o CAArgs
<1> DEFINE args == deploy.args
           first == FirstOf(args, "--ca-dir=")
           rest == SubSeq(args, first + 1, Len(args))
           others == {e \in ToSet(args) : e.name # "--ca-dir="}
<1>1. args \in Seq(Entries) /\ Len(args) \in Nat
  BY DEF TypeInv, IsDeployment
<1>2. CAArgs \in Seq(Entries)
  BY CAArgsList
<1>3. deploy'.args = replaceContainerArgs(args, "--ca-dir=", SubSeq(CADir, 1, Len(caConfigMaps)))
  BY DEF EnsureCADirs, TypeInv, IsDeployment, DeployFields
<1>4. deploy'.args = IF "--ca-dir=" \notin NamesOf(args) THEN args \o CAArgs
                     ELSE SubSeq(args, 1, first - 1) \o CAArgs \o Only(rest, others)
  <2> DEFINE dirs == SubSeq(CADir, 1, Len(caConfigMaps))
  <2>1. [i \in DOMAIN dirs |-> Entry("--ca-dir=", dirs[i])] = CAArgs
    BY CAArgsList
  <2> HIDE DEF dirs
  <2> QED BY <1>3, <2>1 DEF replaceContainerArgs, dirs
<1>5. CASE "--ca-dir=" \notin NamesOf(args)
  BY <1>1, <1>2, <1>4, <1>5
<1>6. CASE "--ca-dir=" \in NamesOf(args)
  <2> HIDE DEF args
  <2>1. first \in 1..Len(args)
    BY <1>1, <1>6, FirstOfIs
  <2> HIDE DEF first
  <2>2. SubSeq(args, 1, first - 1) \in Seq(Entries)
    BY <1>1, <2>1
  <2>3. rest \in Seq(Entries)
    BY <1>1, <2>1
  <2> HIDE DEF rest, others
  <2>4. Only(rest, others) \in Seq(Entries)
    BY <2>3, OnlyNames
  <2>5. SubSeq(args, 1, first - 1) \o CAArgs \in Seq(Entries)
    BY <1>2, <2>2
  <2>6. SubSeq(args, 1, first - 1) \o CAArgs \o Only(rest, others) \in Seq(Entries)
    BY <2>4, <2>5
  <2> USE DEF args
  <2> QED BY <1>4, <1>6, <2>6
<1> QED BY <1>5, <1>6

\* What the volumes and mounts of the CA bundles are.
CAStep ==
    \/ component = "interceptor" /\ UNCHANGED deploy
    \/ /\ deploy'.volumes \in Rekeyed(deploy.volumes, cabundleVolumes(caConfigMaps))
       /\ deploy'.mounts \in Rekeyed(deploy.mounts, cabundleVolumeMounts(caConfigMaps))

LEMMA CASteps ==
  ASSUME TypeInv, ensureCACertVolumesAndMounts
  PROVE  /\ CAStep
         /\ deploy'.volumes \in Seq(Entries) /\ deploy'.mounts \in Seq(Entries)
<1>1. /\ deploy.volumes \in Seq(Entries) /\ deploy.mounts \in Seq(Entries)
      /\ DOMAIN deploy = DeployFields
  BY DEF TypeInv, IsDeployment
<1>2. CAStep
  <2>1. CASE component = "interceptor" /\ ~input.openshift /\ UNCHANGED deploy
    BY <2>1 DEF CAStep
  <2>2. ASSUME NEW volumes \in Rekeyed(deploy.volumes, cabundleVolumes(caConfigMaps)),
               NEW mounts \in Rekeyed(deploy.mounts, cabundleVolumeMounts(caConfigMaps)),
               deploy' = [deploy EXCEPT !.volumes = volumes, !.mounts = mounts]
        PROVE  CAStep
    <3>1. "volumes" \in DOMAIN deploy /\ "mounts" \in DOMAIN deploy
      BY <1>1 DEF DeployFields
    <3>2. deploy'.volumes = volumes /\ deploy'.mounts = mounts
      BY <2>2, <3>1
    <3> QED BY <3>2 DEF CAStep
  <2> QED BY <2>1, <2>2 DEF ensureCACertVolumesAndMounts
<1>3. Keyed(cabundleVolumes(caConfigMaps)) /\ Keyed(cabundleVolumeMounts(caConfigMaps))
  BY CAMaps, BundleVolumes, BundleMounts
<1>4. CASE component = "interceptor" /\ UNCHANGED deploy
  BY <1>1, <1>2, <1>4
<1>5. CASE /\ deploy'.volumes \in Rekeyed(deploy.volumes, cabundleVolumes(caConfigMaps))
           /\ deploy'.mounts \in Rekeyed(deploy.mounts, cabundleVolumeMounts(caConfigMaps))
  BY <1>1, <1>2, <1>3, <1>5, RekeyedSet
<1> QED BY <1>2, <1>4, <1>5 DEF CAStep

-----------------------------------------------------------------------------
(* Where a rendering starts *)

\* What the transformers find at the start.
LinedUp(c, s) ==
    /\ Order(c, s) /\ Head(s) = "gcpConfig"
    /\ {"gcpConfig", "seccomp", "env"} \subseteq ToSet(s)
    /\ c \in KedaComponents => "args" \in ToSet(s)
    /\ c = "operator" => {"gcp", "caArgs", "caVolumes"} \subseteq ToSet(s)

LEMMA At ==
  ASSUME NEW T, NEW s \in Seq(T), NEW i \in 1..Len(s)
  PROVE  s[i] \in ToSet(s)
BY InToSet

LEMMA OperatorLinedUp == LinedUp("operator", <<"gcpConfig">> \o OperatorPipeline)
<1> DEFINE s == <<"gcpConfig">> \o OperatorPipeline
<1>1. /\ Len(s) = 16 /\ s[1] = "gcpConfig" /\ s[4] = "caArgs" /\ s[5] = "caVolumes"
      /\ s[8] = "seccomp" /\ s[14] = "args" /\ s[15] = "gcp" /\ s[16] = "env"
  BY DEF OperatorPipeline, SpecTransforms
<1>2. Order("operator", s)
  BY OperatorOrder
<1> HIDE DEF s
<1>3. s \in Seq(Transformers \ Foreign("operator"))
  BY <1>2 DEF Order
<1>4. \A i \in 1..16 : s[i] \in ToSet(s)
  BY <1>1, <1>3, At
<1>5. {"gcpConfig", "caArgs", "caVolumes", "seccomp", "args", "gcp", "env"} \subseteq ToSet(s)
  <2>1. \A i \in {1, 4, 5, 8, 14, 15, 16} : i \in 1..16
    OBVIOUS
  <2> QED BY <1>1, <1>4, <2>1
<1>6. Head(s) = "gcpConfig"
  <2>1. s # <<>>
    BY <1>1
  <2> QED BY <1>1, <1>3, <2>1, TailElements
<1> QED BY <1>2, <1>5, <1>6 DEF LinedUp, s

LEMMA MetricsLinedUp == LinedUp("metrics", <<"gcpConfig">> \o MetricsPipeline)
<1> DEFINE s == <<"gcpConfig">> \o MetricsPipeline
<1>1. /\ Len(s) = 14 /\ s[1] = "gcpConfig" /\ s[4] = "seccomp" /\ s[13] = "args" /\ s[14] = "env"
  BY DEF MetricsPipeline
<1>2. Order("metrics", s)
  BY MetricsOrder
<1> HIDE DEF s
<1>3. s \in Seq(Transformers \ Foreign("metrics"))
  BY <1>2 DEF Order
<1>4. \A i \in 1..14 : s[i] \in ToSet(s)
  BY <1>1, <1>3, At
<1>5. {"gcpConfig", "seccomp", "args", "env"} \subseteq ToSet(s)
  <2>1. \A i \in {1, 4, 13, 14} : i \in 1..14
    OBVIOUS
  <2> QED BY <1>1, <1>4, <2>1
<1>6. Head(s) = "gcpConfig"
  <2>1. s # <<>>
    BY <1>1
  <2> QED BY <1>1, <1>3, <2>1, TailElements
<1> QED BY <1>2, <1>5, <1>6 DEF LinedUp, s

LEMMA WebhooksLinedUp == LinedUp("webhooks", <<"gcpConfig">> \o WebhooksPipeline)
<1> DEFINE s == <<"gcpConfig">> \o WebhooksPipeline
<1>1. /\ Len(s) = 12 /\ s[1] = "gcpConfig" /\ s[4] = "seccomp" /\ s[11] = "args" /\ s[12] = "env"
  BY DEF WebhooksPipeline, SpecTransforms
<1>2. Order("webhooks", s)
  BY WebhooksOrder
<1> HIDE DEF s
<1>3. s \in Seq(Transformers \ Foreign("webhooks"))
  BY <1>2 DEF Order
<1>4. \A i \in 1..12 : s[i] \in ToSet(s)
  BY <1>1, <1>3, At
<1>5. {"gcpConfig", "seccomp", "args", "env"} \subseteq ToSet(s)
  <2>1. \A i \in {1, 4, 11, 12} : i \in 1..12
    OBVIOUS
  <2> QED BY <1>1, <1>4, <2>1
<1>6. Head(s) = "gcpConfig"
  <2>1. s # <<>>
    BY <1>1
  <2> QED BY <1>1, <1>3, <2>1, TailElements
<1> QED BY <1>2, <1>5, <1>6 DEF LinedUp, s

LEMMA InterceptorLinedUp == LinedUp("interceptor", <<"gcpConfig">> \o InterceptorPipeline)
<1> DEFINE s == <<"gcpConfig">> \o InterceptorPipeline
<1>1. /\ Len(s) = 13 /\ s[1] = "gcpConfig" /\ s[3] = "env" /\ s[8] = "seccomp"
  BY DEF InterceptorPipeline, AddonTransforms
<1>2. Order("interceptor", s)
  BY AddonOrder
<1> HIDE DEF s
<1>3. s \in Seq(Transformers \ Foreign("interceptor"))
  BY <1>2 DEF Order
<1>4. \A i \in 1..13 : s[i] \in ToSet(s)
  BY <1>1, <1>3, At
<1>5. {"gcpConfig", "seccomp", "env"} \subseteq ToSet(s)
  <2>1. \A i \in {1, 3, 8} : i \in 1..13
    OBVIOUS
  <2> QED BY <1>1, <1>4, <2>1
<1>6. Head(s) = "gcpConfig"
  <2>1. s # <<>>
    BY <1>1
  <2> QED BY <1>1, <1>3, <2>1, TailElements
<1> QED BY <1>2, <1>5, <1>6 DEF LinedUp, KedaComponents, s

LEMMA AddonLinedUp == LinedUp("addon", <<"gcpConfig">> \o AddonTransforms)
<1> DEFINE s == <<"gcpConfig">> \o AddonTransforms
<1>1. /\ Len(s) = 8 /\ s[1] = "gcpConfig" /\ s[3] = "env" /\ s[8] = "seccomp"
  BY DEF AddonTransforms
<1>2. Order("addon", s)
  BY AddonOrder
<1> HIDE DEF s
<1>3. s \in Seq(Transformers \ Foreign("addon"))
  BY <1>2 DEF Order
<1>4. \A i \in 1..8 : s[i] \in ToSet(s)
  BY <1>1, <1>3, At
<1>5. {"gcpConfig", "seccomp", "env"} \subseteq ToSet(s)
  <2>1. \A i \in {1, 3, 8} : i \in 1..8
    OBVIOUS
  <2> QED BY <1>1, <1>4, <2>1
<1>6. Head(s) = "gcpConfig"
  <2>1. s # <<>>
    BY <1>1
  <2> QED BY <1>1, <1>3, <2>1, TailElements
<1> QED BY <1>2, <1>5, <1>6 DEF LinedUp, KedaComponents, s

LEMMA PipelineLinedUp ==
  ASSUME NEW c \in KedaComponents \cup AddonComponents
  PROVE  LinedUp(c, <<"gcpConfig">> \o Pipeline(c))
<1>1. c \in {"operator", "metrics", "webhooks", "interceptor", "addon"}
  BY DEF KedaComponents, AddonComponents
<1>2. CASE c = "operator"
  BY <1>2, OperatorLinedUp DEF Pipeline
<1>3. CASE c = "metrics"
  BY <1>3, MetricsLinedUp DEF Pipeline
<1>4. CASE c = "webhooks"
  BY <1>4, WebhooksLinedUp DEF Pipeline
<1>5. CASE c = "interceptor"
  BY <1>5, InterceptorLinedUp DEF Pipeline
<1>6. CASE c = "addon"
  BY <1>6, AddonLinedUp DEF Pipeline
<1> QED BY <1>1, <1>2, <1>3, <1>4, <1>5, <1>6

\* What the manifests have of a component.
Fresh(d) ==
    /\ IsDeployment(d)
    /\ NamedOnce(d.env) /\ NamedOnce(d.args) /\ NamedOnce(d.volumes) /\ NamedOnce(d.mounts)
    /\ "--ca-dir=" \notin NamesOf(d.args)
    /\ NamesOf(d.mounts) = NamesOf(d.volumes)
    /\ NamesOf(d.volumes) \subseteq {"certificates", "temp-vol"}

LEMMA OneOnce ==
  ASSUME NEW a \in Entries
  PROVE  NamedOnce(<<a>>)
BY DEF NamedOnce

LEMMA ThreeOnce ==
  ASSUME NEW a \in Entries, NEW b \in Entries, NEW c \in Entries,
         a.name # b.name, a.name # c.name, b.name # c.name
  PROVE  NamedOnce(<<a, b, c>>)
BY DEF NamedOnce

LEMMA FourOnce ==
  ASSUME NEW a \in Entries, NEW b \in Entries, NEW c \in Entries, NEW d \in Entries,
         a.name # b.name, a.name # c.name, b.name # c.name,
         a.name # d.name, b.name # d.name, c.name # d.name
  PROVE  NamedOnce(<<a, b, c, d>>)
BY DEF NamedOnce

LEMMA ZapArgsFresh ==
  /\ ZapArgs \in Seq(Entries) /\ NamedOnce(ZapArgs)
  /\ NamesOf(ZapArgs) = {"--zap-log-level=", "--zap-encoder=", "--zap-time-encoding="}
<1> DEFINE a == Entry("--zap-log-level=", "info")
           b == Entry("--zap-encoder=", "console")
           c == Entry("--zap-time-encoding=", "rfc3339")
<1>1. a \in Entries /\ b \in Entries /\ c \in Entries
  <2>1. {"--zap-log-level=", "info", "--zap-encoder=", "console", "--zap-time-encoding=", "rfc3339"}
          \subseteq Texts
    BY DEF Texts
  <2> QED BY <2>1, TextEntry
<1>2. a.name = "--zap-log-level=" /\ b.name = "--zap-encoder=" /\ c.name = "--zap-time-encoding="
  BY DEF Entry
<1> HIDE DEF a, b, c
<1>3. /\ <<a, b, c>> \in Seq(Entries) /\ NamedOnce(<<a, b, c>>)
      /\ NamesOf(<<a, b, c>>) = {a.name, b.name, c.name}
  BY <1>1, <1>2, Names3, ThreeOnce
<1>4. ZapArgs = <<a, b, c>>
  BY DEF ZapArgs, a, b, c
<1> QED BY <1>2, <1>3, <1>4

LEMMA ContainerFresh ==
  ASSUME NEW env \in Seq(Entries), NEW args \in Seq(Entries), NEW volumes \in Seq(Entries),
         NEW mounts \in Seq(Entries), NEW seccomp,
         NamedOnce(env), NamedOnce(args), NamedOnce(volumes), NamedOnce(mounts),
         "--ca-dir=" \notin NamesOf(args), NamesOf(mounts) = NamesOf(volumes),
         NamesOf(volumes) \subseteq {"certificates", "temp-vol"}
  PROVE  Fresh(Container(env, args, volumes, mounts, seccomp))
BY DEF Fresh, IsDeployment, DeployFields, Container

LEMMA OperatorFresh == Fresh(Manifest.operator)
<1> DEFINE env == Entry("WATCH_NAMESPACE", "")
           first == Entry("", "--leader-elect")
           last == Entry("--enable-cert-rotation=", "true")
           volume == Entry("certificates", "kedaorg-certs")
           mount == Entry("certificates", "/certs")
           args == <<first>> \o ZapArgs \o <<last>>
<1>1. {"WATCH_NAMESPACE", "", "--leader-elect", "--enable-cert-rotation=", "true", "certificates",
       "kedaorg-certs", "/certs"} \subseteq Texts
  BY DEF Texts
<1>2. env \in Entries /\ first \in Entries /\ last \in Entries /\ volume \in Entries /\ mount \in Entries
  BY <1>1, TextEntry
<1>3. /\ first.name = "" /\ last.name = "--enable-cert-rotation="
      /\ volume.name = "certificates" /\ mount.name = "certificates"
  BY DEF Entry
<1>4. Manifest.operator = Container(<<env>>, args, <<volume>>, <<mount>>, "container")
  BY DEF Manifest
<1> HIDE DEF env, first, last, volume, mount, args
<1>5. /\ <<env>> \in Seq(Entries) /\ <<volume>> \in Seq(Entries) /\ <<mount>> \in Seq(Entries)
      /\ <<first>> \in Seq(Entries) /\ <<last>> \in Seq(Entries)
      /\ NamesOf(<<first>>) = {""} /\ NamesOf(<<last>>) = {"--enable-cert-rotation="}
      /\ NamesOf(<<volume>>) = {"certificates"} /\ NamesOf(<<mount>>) = {"certificates"}
  BY <1>2, <1>3, Names1
<1>6. NamedOnce(<<env>>) /\ NamedOnce(<<first>>) /\ NamedOnce(<<last>>) /\ NamedOnce(<<volume>>)
      /\ NamedOnce(<<mount>>)
  BY <1>2, OneOnce
<1>7. args \in Seq(Entries) /\ NamedOnce(args) /\ "--ca-dir=" \notin NamesOf(args)
  <2> DEFINE front == <<first>> \o ZapArgs
  <2>1. front \in Seq(Entries)
    BY <1>5, ZapArgsFresh, ConcatSet
  <2>2. /\ NamesOf(front) = {"", "--zap-log-level=", "--zap-encoder=", "--zap-time-encoding="}
        /\ NamedOnce(front)
    <3>1. /\ NamesOf(front) = NamesOf(<<first>>) \cup NamesOf(ZapArgs)
          /\ NamesOf(<<first>>) \cap NamesOf(ZapArgs) = {} => NamedOnce(front)
      BY <1>5, <1>6, ZapArgsFresh, ConcatOnce
    <3> QED BY <1>5, <3>1, ZapArgsFresh
  <2> HIDE DEF front
  <2>3. /\ NamesOf(front \o <<last>>) = NamesOf(front) \cup {"--enable-cert-rotation="}
        /\ NamedOnce(front \o <<last>>)
    BY <1>5, <1>6, <2>1, <2>2, ConcatOnce
  <2>4. front \o <<last>> \in Seq(Entries)
    BY <1>5, <2>1, ConcatSet
  <2>5. args = front \o <<last>>
    BY DEF args, front
  <2> QED BY <2>2, <2>3, <2>4, <2>5
<1>8. {"certificates"} \subseteq {"certificates", "temp-vol"}
  OBVIOUS
<1>9. Fresh(Container(<<env>>, args, <<volume>>, <<mount>>, "container"))
  BY <1>5, <1>6, <1>7, <1>8, ContainerFresh
<1> QED BY <1>4, <1>9

LEMMA MetricsFresh == Fresh(Manifest.metrics)
<1> DEFINE env == Entry("WATCH_NAMESPACE", "")
           a == Entry("--zap-log-level=", "error")
           b == Entry("--client-ca-file=", "/certs/ca.crt")
           c == Entry("--tls-cert-file=", "/certs/tls.crt")
           d == Entry("--tls-private-key-file=", "/certs/tls.key")
           temp == Entry("temp-vol", "emptyDir")
           volume == Entry("certificates", "kedaorg-certs")
           tmp == Entry("temp-vol", "/tmp")
           mount == Entry("certificates", "/certs")
<1>1. {"WATCH_NAMESPACE", "", "--zap-log-level=", "error", "--client-ca-file=", "/certs/ca.crt",
       "--tls-cert-file=", "/certs/tls.crt", "--tls-private-key-file=", "/certs/tls.key",
       "temp-vol", "emptyDir", "/tmp", "certificates", "kedaorg-certs", "/certs"} \subseteq Texts
  BY DEF Texts
<1>2. a \in Entries /\ b \in Entries /\ c \in Entries /\ d \in Entries
  BY <1>1, TextEntry
<1>3. env \in Entries /\ temp \in Entries /\ volume \in Entries /\ tmp \in Entries /\ mount \in Entries
  BY <1>1, TextEntry
<1>4. /\ a.name = "--zap-log-level=" /\ b.name = "--client-ca-file="
      /\ c.name = "--tls-cert-file=" /\ d.name = "--tls-private-key-file="
      /\ temp.name = "temp-vol" /\ volume.name = "certificates"
      /\ tmp.name = "temp-vol" /\ mount.name = "certificates"
  BY DEF Entry
<1>5. Manifest.metrics = Container(<<env>>, <<a, b, c, d>>, <<temp, volume>>, <<tmp, mount>>, "container")
  BY DEF Manifest
<1> HIDE DEF env, a, b, c, d, temp, volume, tmp, mount
<1>6. <<env>> \in Seq(Entries) /\ NamedOnce(<<env>>)
  BY <1>3, Names1, OneOnce
<1>7. /\ <<a, b, c, d>> \in Seq(Entries) /\ NamedOnce(<<a, b, c, d>>)
      /\ NamesOf(<<a, b, c, d>>) = {a.name, b.name, c.name, d.name}
  BY <1>2, <1>4, Names4, FourOnce
<1>8. /\ <<temp, volume>> \in Seq(Entries) /\ NamedOnce(<<temp, volume>>)
      /\ NamesOf(<<temp, volume>>) = {"certificates", "temp-vol"}
  BY <1>3, <1>4, Names2, PairOnce
<1>9. /\ <<tmp, mount>> \in Seq(Entries) /\ NamedOnce(<<tmp, mount>>)
      /\ NamesOf(<<tmp, mount>>) = {"certificates", "temp-vol"}
  BY <1>3, <1>4, Names2, PairOnce
<1>10. "--ca-dir=" \notin NamesOf(<<a, b, c, d>>)
  BY <1>4, <1>7
<1>11. {"certificates", "temp-vol"} \subseteq {"certificates", "temp-vol"}
  OBVIOUS
<1> DEFINE theEnv == <<env>>
           theArgs == <<a, b, c, d>>
           theVolumes == <<temp, volume>>
           theMounts == <<tmp, mount>>
<1> HIDE DEF theEnv, theArgs, theVolumes, theMounts
<1>12. Fresh(Container(theEnv, theArgs, theVolumes, theMounts, "container"))
  <2>1. theEnv \in Seq(Entries) /\ NamedOnce(theEnv)
    BY <1>6 DEF theEnv
  <2>2. theArgs \in Seq(Entries) /\ NamedOnce(theArgs) /\ "--ca-dir=" \notin NamesOf(theArgs)
    BY <1>7, <1>10 DEF theArgs
  <2>3. /\ theVolumes \in Seq(Entries) /\ NamedOnce(theVolumes)
        /\ NamesOf(theVolumes) = {"certificates", "temp-vol"}
    BY <1>8 DEF theVolumes
  <2>4. /\ theMounts \in Seq(Entries) /\ NamedOnce(theMounts)
        /\ NamesOf(theMounts) = {"certificates", "temp-vol"}
    BY <1>9 DEF theMounts
  <2> QED BY <1>11, <2>1, <2>2, <2>3, <2>4, ContainerFresh
<1> QED BY <1>5, <1>12 DEF theEnv, theArgs, theVolumes, theMounts

LEMMA WebhooksFresh == Fresh(Manifest.webhooks)
<1> DEFINE env == Entry("WATCH_NAMESPACE", "")
           volume == Entry("certificates", "kedaorg-certs")
           mount == Entry("certificates", "/certs")
<1>1. {"WATCH_NAMESPACE", "", "certificates", "kedaorg-certs", "/certs"} \subseteq Texts
  BY DEF Texts
<1>2. env \in Entries /\ volume \in Entries /\ mount \in Entries
  BY <1>1, TextEntry
<1>3. volume.name = "certificates" /\ mount.name = "certificates"
  BY DEF Entry
<1>4. Manifest.webhooks = Container(<<env>>, ZapArgs, <<volume>>, <<mount>>, "container")
  BY DEF Manifest
<1> HIDE DEF env, volume, mount
<1>5. /\ <<env>> \in Seq(Entries) /\ <<volume>> \in Seq(Entries) /\ <<mount>> \in Seq(Entries)
      /\ NamesOf(<<volume>>) = {"certificates"} /\ NamesOf(<<mount>>) = {"certificates"}
  BY <1>2, <1>3, Names1
<1>6. NamedOnce(<<env>>) /\ NamedOnce(<<volume>>) /\ NamedOnce(<<mount>>)
  BY <1>2, OneOnce
<1>7. {"certificates"} \subseteq {"certificates", "temp-vol"}
  OBVIOUS
<1>8. "--ca-dir=" \notin NamesOf(ZapArgs)
  BY ZapArgsFresh
<1>9. Fresh(Container(<<env>>, ZapArgs, <<volume>>, <<mount>>, "container"))
  BY <1>5, <1>6, <1>7, <1>8, ZapArgsFresh, ContainerFresh
<1> QED BY <1>4, <1>9

LEMMA AddonFresh == Fresh(Manifest.interceptor) /\ Fresh(Manifest.addon)
<1> DEFINE proxy == Entry("KEDA_HTTP_PROXY_PORT", "8080")
           scaler == Entry("KEDA_HTTP_SCALER_PORT", "9090")
<1>1. {"KEDA_HTTP_PROXY_PORT", "8080", "KEDA_HTTP_SCALER_PORT", "9090"} \subseteq Texts
  BY DEF Texts
<1>2. proxy \in Entries /\ scaler \in Entries
  BY <1>1, TextEntry
<1>3. /\ Manifest.interceptor = Container(<<proxy>>, ZapArgs, <<>>, <<>>, "pod")
      /\ Manifest.addon = Container(<<scaler>>, ZapArgs, <<>>, <<>>, "pod")
  BY DEF Manifest
<1> HIDE DEF proxy, scaler
<1>4. /\ <<proxy>> \in Seq(Entries) /\ <<scaler>> \in Seq(Entries)
      /\ NamedOnce(<<proxy>>) /\ NamedOnce(<<scaler>>)
  BY <1>2, Names1, OneOnce
<1>5. <<>> \in Seq(Entries) /\ NamedOnce(<<>>) /\ NamesOf(<<>>) = {}
  <2>1. <<>> \in Seq(Entries)
    OBVIOUS
  <2> QED BY <2>1, OverlayNothing
<1>6. "--ca-dir=" \notin NamesOf(ZapArgs) /\ {} \subseteq {"certificates", "temp-vol"}
  BY ZapArgsFresh
<1>7. ASSUME NEW e \in Seq(Entries), NamedOnce(e)
      PROVE  Fresh(Container(e, ZapArgs, <<>>, <<>>, "pod"))
  <2> DEFINE none == <<>>
  <2> HIDE DEF none
  <2>1. none \in Seq(Entries) /\ NamedOnce(none) /\ NamesOf(none) = {}
    BY <1>5 DEF none
  <2>2. Fresh(Container(e, ZapArgs, none, none, "pod"))
    BY <1>6, <1>7, <2>1, ZapArgsFresh, ContainerFresh
  <2> QED BY <2>2 DEF none
<1>8. Fresh(Container(<<proxy>>, ZapArgs, <<>>, <<>>, "pod"))
  BY <1>4, <1>7
<1>9. Fresh(Container(<<scaler>>, ZapArgs, <<>>, <<>>, "pod"))
  BY <1>4, <1>7
<1> QED BY <1>3, <1>8, <1>9

LEMMA ManifestFresh ==
  ASSUME NEW c \in KedaComponents \cup AddonComponents
  PROVE  Fresh(Manifest[c])
<1>1. c \in {"operator", "metrics", "webhooks", "interceptor", "addon"}
  BY DEF KedaComponents, AddonComponents
<1> QED BY <1>1, OperatorFresh, MetricsFresh, WebhooksFresh, AddonFresh

-----------------------------------------------------------------------------
(* Types and order *)

\* A step that is not the last of a rejected rendering.
Proceeds == Moves /\ Untouched /\ Order(component, todo)

LEMMA NextProceeds ==
  ASSUME TypeInv, OrderInv, Next
  PROVE  Rejects \/ Proceeds
<1>1. Head(todo) \in Transformers
  <2>1. {"gcpConfig", "audit"} \subseteq Transformers
    BY DEF Transformers
  <2> QED BY <2>1, StepUntouched DEF Moves
<1>2. todo # <<"rejected">>
  <2>1. Head(<<"rejected">>) = "rejected" /\ "rejected" \notin Transformers
    BY DEF Transformers
  <2> QED BY <1>1, <2>1
<1> QED BY <1>2, StepUntouched DEF OrderInv, Proceeds

LEMMA InitTypes ==
  ASSUME Init
  PROVE  TypeInv /\ LinedUp(component, todo) /\ Fresh(deploy) /\ deploy = Manifest[component]
<1>1. component \in KedaComponents \cup AddonComponents
  BY InputsAssumption DEF Init
<1>2. Fresh(Manifest[component]) /\ LinedUp(component, <<"gcpConfig">> \o Pipeline(component))
  BY <1>1, ManifestFresh, PipelineLinedUp
<1> QED BY <1>2 DEF Init, TypeInv, Fresh

LEMMA NextTypes ==
  ASSUME TypeInv, OrderInv, Next
  PROVE  TypeInv' /\ OrderInv'
<1>1. CASE Rejects
  <2>1. TypeInv'
    BY <1>1 DEF Rejects, TypeInv
  <2>2. OrderInv'
    BY <1>1 DEF Rejects, OrderInv
  <2> QED BY <2>1, <2>2
<1>2. CASE Proceeds
  <2>1. Moves /\ Untouched /\ Order(component, todo) /\ todo # <<>>
    BY <1>2 DEF Proceeds, Moves
  <2>2. OrderInv'
    <3>1. Order(component, Tail(todo))
      BY <2>1, TailOrder
    <3>2. todo' = Tail(todo) /\ component' = component
      BY <2>1 DEF Moves
    <3> QED BY <3>1, <3>2 DEF OrderInv
  <2>3. deploy'.env \in Seq(Entries)
    BY <2>1, EnvSteps DEF EnvStep, SetsAll
  <2>4. deploy'.args \in Seq(Entries)
    <3>1. CASE Head(todo) = "caArgs"
      BY <3>1, Dispatch, CAArgsStep
    <3>2. CASE Head(todo) # "caArgs"
      BY <2>1, <3>2, ArgsSteps DEF ArgsStep, SetsAll
    <3> QED BY <3>1, <3>2
  <2>5. deploy'.volumes \in Seq(Entries) /\ deploy'.mounts \in Seq(Entries)
    <3>1. CASE Head(todo) = "caVolumes"
      BY <3>1, Dispatch, CASteps
    <3>2. CASE Head(todo) # "caVolumes"
      BY <2>1, <3>2, VolumesSteps DEF VolumesStep, VolumesBy, Overlays
    <3> QED BY <3>1, <3>2
  <2>6. component' = component /\ input' = input
    BY <2>1 DEF Moves
  <2>7. DOMAIN deploy' = DeployFields /\ DOMAIN deploy'.maps = MapNames
    BY <2>1 DEF Untouched
  <2>8. IsDeployment(deploy)'
    BY <2>3, <2>4, <2>5, <2>7 DEF IsDeployment
  <2>9. TypeInv'
    BY <2>6, <2>8 DEF TypeInv
  <2> QED BY <2>2, <2>9
<1> QED BY <1>1, <1>2, NextProceeds

LEMMA StutterTypes ==
  ASSUME TypeInv, OrderInv, UNCHANGED vars
  PROVE  TypeInv' /\ OrderInv'
BY DEF TypeInv, OrderInv, vars

\* Every transformer leaves lists of entries for the next one, for every KedaController
\* (TypeInv), and what is left to run is always the rest of the pipeline that the
\* install function has lined up, or nothing after an error (OrderInv).
THEOREM TypesAndOrder == Spec => [](TypeInv /\ OrderInv)
<1>1. ASSUME Init PROVE TypeInv /\ OrderInv
  BY <1>1, InitTypes DEF LinedUp, OrderInv
<1>2. ASSUME TypeInv, OrderInv, [Next]_vars PROVE TypeInv' /\ OrderInv'
  BY <1>2, NextTypes, StutterTypes
<1> QED BY <1>1, <1>2, PTL DEF Spec

\* ReplaceDeploymentVolumes aside: the other volumes stay when CA bundles are mounted.
LEMMA OthersStay ==
  ASSUME NEW list \in Seq(Entries), NEW keyed, Keyed(keyed), NEW out \in Rekeyed(list, keyed),
         DOMAIN keyed \cap NamesOf(list) = {}
  PROVE  OtherVolumes(out) = OtherVolumes(list)
<1>1. PICK kept, placed, rest \in Seq(Entries) : Rebuilt(list, keyed, kept, placed, rest, out)
  BY RekeyedParts
<1> DEFINE S == {e \in ToSet(list) : e.name \in DOMAIN keyed \/ ~IsCA(e.name)}
           R == {e \in ToSet(list) : ~IsCA(e.name)}
<1>2. \A e \in ToSet(list) : e.name \notin DOMAIN keyed
  BY NamesOfSet
<1>3. S = R
  BY <1>2
<1>4. kept = Only(list, S) /\ out = placed \o rest
  BY <1>1 DEF Rebuilt
<1>5. ToSet(kept) = R
  <2>1. ToSet(kept) = ToSet(list) \cap S
    BY <1>4, OnlyNames
  <2> QED BY <1>3, <2>1
<1>6. kept = OtherVolumes(list)
  BY <1>3, <1>4 DEF OtherVolumes
<1> HIDE DEF S
<1>7. placed = kept
  <2>1. Len(placed) = Len(kept)
    BY <1>1 DEF Rebuilt
  <2>2. \A i \in 1..Len(kept) : placed[i] = kept[i]
    <3> TAKE i \in 1..Len(kept)
    <3>1. kept[i] \in ToSet(kept)
      BY InToSet
    <3>2. kept[i].name \notin DOMAIN keyed
      BY <1>2, <1>5, <3>1
    <3> QED BY <1>1, <3>2 DEF Rebuilt
  <2> QED BY <2>1, <2>2
<1>8. ToSet(rest) \cap {e \in Entries : ~IsCA(e.name)} = {}
  <2>1. \A e \in ToSet(rest) : e.name \in CANames
    BY <1>1 DEF Rebuilt, Keyed
  <2> QED BY <2>1 DEF IsCA
<1> DEFINE P == {e \in ToSet(out) : ~IsCA(e.name)}
<1>9. ToSet(out) = ToSet(kept) \cup ToSet(rest)
  BY <1>4, <1>7, ConcatSet
<1>10. ToSet(kept) \subseteq P /\ ToSet(rest) \cap P = {}
  <2>1. ToSet(kept) \subseteq P
    BY <1>5, <1>9
  <2>2. \A e \in ToSet(rest) : e.name \in CANames
    BY <1>1 DEF Rebuilt, Keyed
  <2> QED BY <2>1, <2>2 DEF IsCA
<1> HIDE DEF P, R
<1>11. Only(kept \o rest, P) = kept
  BY <1>10, OnlyFront
<1>12. OtherVolumes(out) = Only(out, P)
  BY DEF OtherVolumes, P
<1> QED BY <1>4, <1>6, <1>7, <1>11, <1>12

LEMMA VolumesStay ==
  ASSUME TypeInv, Next, Head(todo) = "caVolumes",
         ToSet(caConfigMaps) \cap NamesOf(deploy.volumes) = {}
  PROVE  OtherVolumes(deploy.volumes) = OtherVolumes(deploy'.volumes)
<1>1. CAStep
  BY Dispatch, CASteps
<1>2. Keyed(cabundleVolumes(caConfigMaps)) /\ DOMAIN cabundleVolumes(caConfigMaps) = ToSet(caConfigMaps)
  BY CAMaps, BundleVolumes
<1>3. deploy.volumes \in Seq(Entries)
  BY DEF TypeInv, IsDeployment
<1>4. CASE UNCHANGED deploy
  BY <1>4
<1>5. CASE deploy'.volumes \in Rekeyed(deploy.volumes, cabundleVolumes(caConfigMaps))
  BY <1>2, <1>3, <1>5, OthersStay
<1> QED BY <1>1, <1>4, <1>5 DEF CAStep

\* ensureCACertVolumesAndMounts replaces stale cabundle volumes and leaves every other
\* volume as it is and where it is, whatever Deployment it is given and in whatever
\* order Go iterates over the map of new volumes.
THEOREM OtherVolumesStay == Spec => OtherVolumesKept
<1> DEFINE Kept == /\ todo # <<>> /\ Head(todo) = "caVolumes"
                   /\ ToSet(caConfigMaps) \cap NamesOf(deploy.volumes) = {}
                   => OtherVolumes(deploy.volumes) = OtherVolumes(deploy'.volumes)
<1>1. ASSUME TypeInv, OrderInv, [Next]_vars PROVE [Kept]_vars
  BY <1>1, VolumesStay
<1>2. Spec => [](TypeInv /\ OrderInv)
  BY TypesAndOrder
<1>3. Spec => [][Kept]_vars
  BY <1>1, <1>2, PTL DEF Spec
<1> QED BY <1>3 DEF OtherVolumesKept

-----------------------------------------------------------------------------
(* What has run *)

\* The transformer has run, and no error has ended the rendering.
Done(t) == todo # <<"rejected">> /\ t \notin ToSet(todo)

LEMMA DoneStep ==
  ASSUME Proceeds, NEW t, Done(t)'
  PROVE  Done(t) \/ Head(todo) = t
<1>1. todo # <<>> /\ Head(todo) \in Transformers /\ todo' = Tail(todo) /\ todo \in Seq(Transformers)
  <2>1. todo \in Seq(Transformers \ Foreign(component))
    BY DEF Proceeds, Order
  <2>2. todo \in Seq(Transformers)
    BY <2>1
  <2> QED BY <2>2 DEF Proceeds, Moves
<1>2. todo # <<"rejected">>
  <2>1. Head(<<"rejected">>) = "rejected" /\ "rejected" \notin Transformers
    BY DEF Transformers
  <2> QED BY <1>1, <2>1
<1>3. \A x \in ToSet(todo) : x = Head(todo) \/ x \in ToSet(Tail(todo))
  BY <1>1, TailList
<1>4. t \notin ToSet(Tail(todo))
  BY <1>1 DEF Done
<1> QED BY <1>2, <1>3, <1>4 DEF Done

LEMMA DoneOrStop ==
  ASSUME NEW t
  PROVE  /\ Rejects => ~Done(t)'
         /\ UNCHANGED vars => (Done(t)' <=> Done(t))
BY DEF Rejects, Done, vars

LEMMA RenderedDone ==
  ASSUME Rendered, NEW t
  PROVE  Done(t)
<1>1. <<>> \in Seq(Transformers) /\ Len(<<>>) = 0 /\ 1..0 = {}
  OBVIOUS
<1>2. ToSet(<<>>) = {}
  BY <1>1, InToSet
<1>3. <<>> # <<"rejected">>
  OBVIOUS
<1> QED BY <1>2, <1>3 DEF Rendered, Done

LEMMA InitNotDone ==
  ASSUME Init
  PROVE  /\ ~Done("gcpConfig") /\ ~Done("seccomp") /\ ~Done("env")
         /\ component \in KedaComponents => ~Done("args")
         /\ component = "operator" => ~Done("gcp") /\ ~Done("caArgs") /\ ~Done("caVolumes")
BY InitTypes DEF LinedUp, Done

-----------------------------------------------------------------------------
(* GCP Workload Identity *)

ConfigInv == Done("gcpConfig") => gcpConfig.kind # "invalid"

LEMMA NextConfig ==
  ASSUME TypeInv, OrderInv, ConfigInv, [Next]_vars
  PROVE  ConfigInv'
<1>1. CASE UNCHANGED vars
  BY <1>1, DoneOrStop DEF ConfigInv, gcpConfig, vars
<1>2. CASE Next /\ Rejects
  BY <1>2, DoneOrStop DEF ConfigInv
<1>3. ASSUME Next, Proceeds, Done("gcpConfig")' PROVE gcpConfig'.kind # "invalid"
  <2>1. gcpConfig' = gcpConfig /\ todo' = Tail(todo)
    BY <1>3 DEF gcpConfig, Proceeds, Moves
  <2>2. CASE Done("gcpConfig")
    BY <2>1, <2>2 DEF ConfigInv
  <2>3. CASE Head(todo) = "gcpConfig"
    <3>1. CheckGCPConfig
      BY <1>3, <2>3, Dispatch
    <3>2. todo' # <<"rejected">>
      BY <1>3 DEF Done
    <3> QED BY <2>1, <3>1, <3>2 DEF CheckGCPConfig, Reject
  <2> QED BY <1>3, <2>2, <2>3, DoneStep
<1> QED BY <1>1, <1>2, <1>3, NextProceeds DEF ConfigInv

LEMMA Resolved ==
  ASSUME NEW audience, NEW number, NEW pool, NEW provider,
         resolveAudience(audience, number, pool, provider).ok
  PROVE  LET value == resolveAudience(audience, number, pool, provider).value
         IN /\ audience = <<>> \/ audience = value
            /\ number = <<>> \/ number = value[2]
            /\ pool = <<>> \/ pool = value[4]
            /\ provider = <<>> \/ provider = value[5]
<1> DEFINE triplet == number # <<>> \/ pool # <<>> \/ provider # <<>>
           built == audienceFormat(number, pool, provider)
           value == resolveAudience(audience, number, pool, provider).value
<1>1. value = IF triplet THEN built ELSE audience
  BY DEF resolveAudience
<1>2. triplet => (audience # <<>> => audience = built)
  BY DEF resolveAudience
<1>3. built[2] = number /\ built[4] = pool /\ built[5] = provider
  BY DEF audienceFormat
<1> HIDE DEF built, value
<1> QED BY <1>1, <1>2, <1>3 DEF value

\* A configuration has the parameters that it was parsed from.
Faithful(p, config) ==
    /\ config.email = p.email.text
    /\ p.audience.text = <<>> \/ p.audience.text = config.audience
    /\ p.number.text = <<>> \/ p.number.text = config.audience[2]
    /\ p.pool.text = <<>> \/ p.pool.text = config.audience[4]
    /\ p.provider.text = <<>> \/ p.provider.text = config.audience[5]
    /\ p.token.text \in {"", config.token}
    /\ p.project.text \in {"", config.project}

\* What parseConfig makes of its parameters.
LEMMA Parsed ==
  ASSUME NEW p, NEW required \in BOOLEAN, NEW source, NEW config, config = parseConfig(p, required, source),
         config.kind # "invalid"
  PROVE  \/ config.kind = "none" /\ ~required /\ NothingSet(p)
         \/ config.kind = "config" /\ Faithful(p, config)
<1> DEFINE audience == resolveAudience(p.audience.text, p.number.text, p.pool.text, p.provider.text)
<1>1. CASE ~required /\ NothingSet(p)
  <2>1. config = NotConfigured
    BY <1>1 DEF parseConfig
  <2> QED BY <1>1, <2>1 DEF NotConfigured
<1>2. CASE ~(~required /\ NothingSet(p))
  <2>1. validateServiceAccountEmail(p.email.text) /\ audience.ok
    <3>1. ASSUME ~validateServiceAccountEmail(p.email.text) \/ ~audience.ok PROVE FALSE
      <4>1. config = Invalid
        BY <1>2, <3>1 DEF parseConfig, TrimSpace
      <4> QED BY <4>1 DEF Invalid
    <3> QED BY <3>1
  <2>2. config = [kind |-> "config", source |-> source, audience |-> audience.value,
                  email |-> p.email.text, project |-> p.project.text,
                  token |-> IF p.token.text = "" THEN "openshift" ELSE p.token.text]
    BY <1>2, <2>1 DEF parseConfig, TrimSpace
  <2>3. LET value == audience.value
        IN /\ p.audience.text = <<>> \/ p.audience.text = value
           /\ p.number.text = <<>> \/ p.number.text = value[2]
           /\ p.pool.text = <<>> \/ p.pool.text = value[4]
           /\ p.provider.text = <<>> \/ p.provider.text = value[5]
    BY <2>1, Resolved
  <2> HIDE DEF audience
  <2>4. /\ config.kind = "config" /\ config.audience = audience.value
        /\ config.email = p.email.text /\ config.project = p.project.text
        /\ config.token = IF p.token.text = "" THEN "openshift" ELSE p.token.text
    <3> DEFINE token == IF p.token.text = "" THEN "openshift" ELSE p.token.text
    <3>1. config = [kind |-> "config", source |-> source, audience |-> audience.value,
                    email |-> p.email.text, project |-> p.project.text, token |-> token]
      BY <2>2
    <3> HIDE DEF token
    <3>2. /\ config.kind = "config" /\ config.audience = audience.value
          /\ config.email = p.email.text /\ config.project = p.project.text
          /\ config.token = token
      BY <3>1
    <3> QED BY <3>2 DEF token
  <2>5. p.token.text \in {"", config.token}
    <3>1. CASE p.token.text = ""
      BY <3>1
    <3>2. CASE p.token.text # ""
      BY <2>4, <3>2
    <3> QED BY <3>1, <3>2
  <2>6. Faithful(p, config)
    BY <2>3, <2>4, <2>5 DEF Faithful
  <2> QED BY <2>4, <2>6
<1> QED BY <1>1, <1>2

\* Whatever a KedaController and the operator's environment contain, the rendered
\* Deployment goes with every parameter of the source in effect as it was given and
\* with nothing of the other source: parseConfig and resolveAudience never let an
\* audience and a triplet that disagree, or half a configuration, pass.
THEOREM IntendedProvider == Spec => []ProviderIsTheIntendedOne
<1>1. Init => ConfigInv
  BY InitNotDone DEF ConfigInv
<1>2. TypeInv /\ OrderInv /\ ConfigInv /\ [Next]_vars => ConfigInv'
  BY NextConfig
<1>3. ConfigInv => ProviderIsTheIntendedOne
  <2> SUFFICES ASSUME ConfigInv, Rendered PROVE ProviderIsTheIntendedOne
    BY DEF ProviderIsTheIntendedOne
  <2>1. gcpConfig.kind # "invalid"
    BY RenderedDone DEF ConfigInv
  <2>2. CASE input.block.given
    <3>1. gcpConfig = parseConfig(input.block.params, TRUE, "KedaController")
      BY <2>2 DEF gcpConfig, gcpWorkloadIdentityConfig, ConfigFromSpec
    <3>2. gcpConfig.kind = "config" /\ Faithful(input.block.params, gcpConfig)
      BY <2>1, <3>1, Parsed
    <3>3. gcpConfig.kind # "none"
      BY <3>2
    <3> QED BY <2>2, <3>2, <3>3 DEF ProviderIsTheIntendedOne, Faithful
  <2>3. CASE ~input.block.given
    <3>1. gcpConfig = parseConfig(input.wif, FALSE, "OperatorEnvironment")
      BY <2>3 DEF gcpConfig, gcpWorkloadIdentityConfig, ConfigFromEnv
    <3>2. \/ gcpConfig.kind = "none" /\ NothingSet(input.wif)
          \/ gcpConfig.kind = "config" /\ Faithful(input.wif, gcpConfig)
      BY <2>1, <3>1, Parsed
    <3>3. CASE gcpConfig.kind = "none"
      BY <2>3, <3>2, <3>3 DEF ProviderIsTheIntendedOne
    <3>4. CASE gcpConfig.kind # "none"
      BY <2>3, <3>2, <3>4 DEF ProviderIsTheIntendedOne, Faithful
    <3> QED BY <3>3, <3>4
  <2> QED BY <2>2, <2>3
<1> QED BY <1>1, <1>2, <1>3, TypesAndOrder, PTL DEF Spec

-----------------------------------------------------------------------------
(* The environment of the container *)

\* Variables come once, and the user's are there once they have been put in, unless
\* the interceptor's on OpenShift are put in after them.
UserEnv == \A i \in 1..Len(input.env) : IsLast(input.env, i) => input.env[i] \in ToSet(deploy.env)

EnvInv ==
    /\ NamedOnce(deploy.env)
    /\ Done("env") /\ (component = "interceptor" => ~input.openshift) => UserEnv

LEMMA LastStays ==
  ASSUME NEW list \in Seq(Entries), NEW new \in Seq(Entries), NEW out, NEW free,
         SetsAll(list, new, out, free), NEW i \in 1..Len(new), IsLast(new, i)
  PROVE  new[i] \in ToSet(out)
<1>1. Len(new) \in Nat /\ DOMAIN new = 1..Len(new)
  OBVIOUS
<1>2. ASSUME NEW j \in i..Len(new), new[j].name = new[i].name PROVE new[j] = new[i]
  <2>1. j \in 1..Len(new) /\ i <= j
    BY <1>1
  <2>2. j <= i
    BY <1>1, <1>2, <2>1 DEF IsLast
  <2>3. j = i
    BY <1>1, <2>1, <2>2
  <2> QED BY <2>3
<1> QED BY <1>2 DEF SetsAll

LEMMA NextEnv ==
  ASSUME TypeInv, OrderInv, EnvInv, [Next]_vars
  PROVE  EnvInv'
<1>1. CASE UNCHANGED vars
  <2>1. Done("env")' <=> Done("env")
    BY <1>1, DoneOrStop
  <2> QED BY <1>1, <2>1 DEF EnvInv, UserEnv, vars
<1>2. CASE Rejects
  BY <1>2, DoneOrStop DEF EnvInv, Rejects
<1>3. ASSUME Next, Proceeds PROVE EnvInv'
  <2>1. PICK new \in Seq(Entries) :
          /\ SetsAll(deploy.env, new, deploy'.env, {})
          /\ Head(todo) = "env" => new = input.env
          /\ UserLast => Head(todo) = "env" \/ new = <<>>
    BY <1>3, EnvSteps DEF EnvStep, Proceeds
  <2>2. deploy.env \in Seq(Entries)
    BY DEF TypeInv, IsDeployment
  <2>3. NamedOnce(deploy'.env)
    BY <2>1, <2>2, SetsOverlay DEF EnvInv
  <2>4. input' = input /\ component' = component
    BY <1>3 DEF Proceeds, Moves
  <2>5. ASSUME Done("env")', component = "interceptor" => ~input.openshift,
               NEW i \in 1..Len(input.env), IsLast(input.env, i)
        PROVE  input.env[i] \in ToSet(deploy'.env)
    <3>1. CASE Head(todo) = "env"
      BY <2>1, <2>2, <2>5, <3>1, LastStays
    <3>2. CASE Head(todo) # "env"
      <4>1. Done("env")
        BY <1>3, <2>5, <3>2, DoneStep
      <4>2. component \notin KedaComponents
        <5>1. ASSUME component \in KedaComponents PROVE FALSE
          <6>1. /\ Before(todo, Transformers, "env") /\ todo # <<>> /\ Head(todo) \in Transformers
                /\ todo \in Seq(Transformers \ Foreign(component))
            BY <1>3, <5>1 DEF Proceeds, Order, Moves
          <6>2. "env" \in ToSet(todo)
            BY <6>1, TailBefore
          <6> QED BY <4>1, <6>2 DEF Done
        <5> QED BY <5>1
      <4>3. UserLast
        BY <2>5, <4>2, InputsAssumption DEF TypeInv, UserLast
      <4>4. new = <<>>
        BY <2>1, <3>2, <4>3
      <4>5. input.env[i] \in ToSet(deploy.env)
        BY <2>5, <4>1 DEF EnvInv, UserEnv
      <4>6. NamesOf(new) = {}
        BY <2>2, <4>4, OverlayNothing
      <4> QED BY <2>1, <4>5, <4>6 DEF SetsAll
    <3> QED BY <3>1, <3>2
  <2>6. ASSUME Done("env")', component' = "interceptor" => ~input'.openshift PROVE UserEnv'
    BY <2>4, <2>5, <2>6 DEF UserEnv
  <2> QED BY <2>3, <2>6 DEF EnvInv
<1> QED BY <1>1, <1>2, <1>3, NextProceeds

\* Whatever variables the manifest and the transformers set, and whatever the user's
\* list contains, repeated names included: the rendered container has the user's last
\* value of every variable and no second entry of that name.
THEOREM UserVariablesWin == Spec => []UserVariableWins
<1>1. Init => EnvInv
  BY InitTypes, InitNotDone DEF EnvInv, Fresh
<1>2. TypeInv /\ OrderInv /\ EnvInv /\ [Next]_vars => EnvInv'
  BY NextEnv
<1>3. TypeInv /\ EnvInv => UserVariableWins
  <2> SUFFICES ASSUME TypeInv, EnvInv, Rendered, component = "interceptor" => ~input.openshift
               PROVE  UserEnvIn(deploy.env)
    BY DEF UserVariableWins
  <2>1. UserEnv /\ NamedOnce(deploy.env)
    BY RenderedDone DEF EnvInv
  <2>2. deploy.env \in Seq(Entries) /\ input.env \in Seq(Entries)
    BY InputsAssumption DEF TypeInv, IsDeployment
  <2>3. DOMAIN input.env = 1..Len(input.env) /\ DOMAIN deploy.env = 1..Len(deploy.env)
    BY <2>2
  <2>4. ASSUME NEW i \in 1..Len(input.env), IsLast(input.env, i)
        PROVE  {deploy.env[j] : j \in {k \in 1..Len(deploy.env) : deploy.env[k].name = input.env[i].name}}
                 = {input.env[i]}
    <3>1. PICK k \in 1..Len(deploy.env) : input.env[i] = deploy.env[k]
      BY <2>1, <2>2, <2>4, InToSet DEF UserEnv
    <3>2. \A j \in 1..Len(deploy.env) : deploy.env[j].name = input.env[i].name => j = k
      BY <2>1, <2>3, <3>1 DEF NamedOnce
    <3> QED BY <3>1, <3>2
  <2> QED BY <2>3, <2>4 DEF UserEnvIn
<1> QED BY <1>1, <1>2, <1>3, TypesAndOrder, PTL DEF Spec

-----------------------------------------------------------------------------
(* The arguments of the container *)

\* The transformer is still to run.
Pending(t) == todo # <<"rejected">> /\ t \in ToSet(todo)

LEMMA PendingStep ==
  ASSUME Proceeds, NEW t, Pending(t)'
  PROVE  Pending(t) /\ t \in ToSet(Tail(todo)) /\ todo \in Seq(Transformers) /\ todo # <<>>
<1>1. todo # <<>> /\ Head(todo) \in Transformers /\ todo' = Tail(todo) /\ todo \in Seq(Transformers)
  <2>1. todo \in Seq(Transformers \ Foreign(component))
    BY DEF Proceeds, Order
  <2>2. todo \in Seq(Transformers)
    BY <2>1
  <2> QED BY <2>2 DEF Proceeds, Moves
<1>2. todo # <<"rejected">>
  <2>1. Head(<<"rejected">>) = "rejected" /\ "rejected" \notin Transformers
    BY DEF Transformers
  <2> QED BY <1>1, <2>1
<1>3. t \in ToSet(Tail(todo))
  BY <1>1 DEF Pending
<1>4. /\ Len(todo) \in Nat /\ Tail(todo) \in Seq(Transformers) /\ Len(Tail(todo)) = Len(todo) - 1
      /\ \A i \in 1..(Len(todo) - 1) : Tail(todo)[i] = todo[i + 1]
  BY <1>1, TailElements
<1>5. PICK i \in 1..(Len(todo) - 1) : t = todo[i + 1]
  <2> DEFINE s == Tail(todo)
  <2>1. s \in Seq(Transformers) /\ Len(s) = Len(todo) - 1 /\ t \in ToSet(s)
    BY <1>3, <1>4
  <2>2. \A i \in 1..(Len(todo) - 1) : s[i] = todo[i + 1]
    BY <1>4
  <2> HIDE DEF s
  <2>3. \E i \in 1..Len(s) : t = s[i]
    BY <2>1, InToSet
  <2> QED BY <2>1, <2>2, <2>3
<1>6. i + 1 \in 1..Len(todo)
  BY <1>4
<1>7. t \in ToSet(todo)
  BY <1>1, <1>5, <1>6, InToSet
<1> QED BY <1>1, <1>2, <1>3, <1>7 DEF Pending

LEMMA PendingOrStop ==
  ASSUME NEW t
  PROVE  /\ Rejects => ~Pending(t)'
         /\ UNCHANGED vars => (Pending(t)' <=> Pending(t))
BY DEF Rejects, Pending, vars

\* What is at the head of the list is still to run.
LEMMA HeadPending ==
  ASSUME Proceeds
  PROVE  Pending(Head(todo))
<1>1. todo # <<>> /\ Head(todo) \in Transformers /\ todo \in Seq(Transformers)
  <2>1. todo \in Seq(Transformers \ Foreign(component))
    BY DEF Proceeds, Order
  <2>2. todo \in Seq(Transformers)
    BY <2>1
  <2> QED BY <2>2 DEF Proceeds, Moves
<1>2. todo # <<"rejected">>
  <2>1. Head(<<"rejected">>) = "rejected" /\ "rejected" \notin Transformers
    BY DEF Transformers
  <2> QED BY <1>1, <2>1
<1>3. Len(todo) \in Nat /\ Len(todo) # 0 /\ Head(todo) = todo[1]
  BY <1>1, TailElements
<1>4. 1 \in 1..Len(todo)
  BY <1>3
<1>5. Head(todo) \in ToSet(todo)
  BY <1>1, <1>3, <1>4, At
<1> QED BY <1>2, <1>5 DEF Pending

\* No argument has a second of its prefix, the directories of the CA bundles and the
\* bare ones aside, of which none comes twice; the directories are put in when none is
\* there; the user's arguments are there once they have been put in.
ArgsOnce ==
    /\ \A n : n \notin {"", "--ca-dir="} => Once(deploy.args, n)
    /\ NoTwins(deploy.args, {""})

UserArgs ==
    \A i \in 1..Len(Given) :
       Given[i].name = "" \/ IsLast(Given, i) => Given[i] \in ToSet(deploy.args)

ArgsInv ==
    /\ ArgsOnce
    /\ component = "operator" /\ Pending("caArgs") => "--ca-dir=" \notin NamesOf(deploy.args)
    /\ component \in KedaComponents /\ Done("args") => UserArgs

LEMMA AppendedOnce ==
  ASSUME NEW a \in Seq(Entries), NEW b \in Seq(Entries), NamesOf(b) \subseteq {"--ca-dir="}
  PROVE  /\ \A n : n # "--ca-dir=" /\ Once(a, n) => Once(a \o b, n)
         /\ NoTwins(a, {""}) => NoTwins(a \o b, {""})
<1> DEFINE c == a \o b
<1>1. /\ Len(a) \in Nat /\ Len(b) \in Nat /\ Len(c) = Len(a) + Len(b)
      /\ \A i \in 1..Len(a) : c[i] = a[i]
  OBVIOUS
<1>2. \A i \in (Len(a) + 1)..(Len(a) + Len(b)) : c[i] = b[i - Len(a)] /\ i - Len(a) \in 1..Len(b)
  OBVIOUS
<1>3. \A i \in 1..Len(b) : b[i].name = "--ca-dir="
  BY InNames
<1> HIDE DEF c
<1>4. \A i \in 1..Len(c) : c[i].name # "--ca-dir=" => i \in 1..Len(a) /\ c[i] = a[i]
  <2> SUFFICES ASSUME NEW i \in 1..Len(c), c[i].name # "--ca-dir=" PROVE i \in 1..Len(a)
    BY <1>1
  <2>1. CASE i <= Len(a)
    BY <1>1, <2>1
  <2>2. CASE ~(i <= Len(a))
    <3>1. i \in (Len(a) + 1)..(Len(a) + Len(b))
      BY <1>1, <2>2
    <3> QED BY <1>2, <1>3, <3>1
  <2> QED BY <2>1, <2>2
<1>5. ASSUME NEW n, n # "--ca-dir=", Once(a, n) PROVE Once(c, n)
  BY <1>4, <1>5 DEF Once
<1>6. ASSUME NoTwins(a, {""}) PROVE NoTwins(c, {""})
  BY <1>4, <1>6 DEF NoTwins
<1> QED BY <1>5, <1>6 DEF c

LEMMA NextArgsOnce ==
  ASSUME TypeInv, OrderInv, ArgsInv, Next, Proceeds
  PROVE  ArgsOnce'
<1>1. deploy.args \in Seq(Entries) /\ Moves /\ Untouched
  BY DEF TypeInv, IsDeployment, Proceeds
<1>2. CASE Head(todo) = "caArgs"
  <2>1. component = "operator"
    <3>1. todo \in Seq(Transformers \ Foreign(component)) /\ todo # <<>>
      BY DEF Proceeds, Order, Moves
    <3>2. Head(todo) \in Transformers \ Foreign(component)
      BY <3>1, TailList
    <3> QED BY <1>2, <3>2 DEF Foreign
  <2>2. Pending("caArgs")
    BY <1>2, HeadPending
  <2>3. deploy'.args = deploy.args \o CAArgs
    BY <1>2, <2>1, <2>2, Dispatch, CAArgsStep DEF ArgsInv
  <2>4. CAArgs \in Seq(Entries) /\ NamesOf(CAArgs) \subseteq {"--ca-dir="}
    BY CAArgsList
  <2>5. /\ \A n : n # "--ca-dir=" /\ Once(deploy.args, n) => Once(deploy'.args, n)
        /\ NoTwins(deploy.args, {""}) => NoTwins(deploy'.args, {""})
    BY <1>1, <2>3, <2>4, AppendedOnce
  <2> QED BY <2>5 DEF ArgsInv, ArgsOnce
<1>3. CASE Head(todo) # "caArgs"
  <2>1. PICK new \in Seq(Entries) : SetsAll(deploy.args, new, deploy'.args, {""})
    BY <1>1, <1>3, ArgsSteps DEF ArgsStep
  <2>2. /\ \A n : n \notin {""} /\ Once(deploy.args, n) => Once(deploy'.args, n)
        /\ NoTwins(deploy.args, {""}) => NoTwins(deploy'.args, {""})
    BY <2>1 DEF SetsAll
  <2> QED BY <2>2 DEF ArgsInv, ArgsOnce
<1> QED BY <1>2, <1>3

LEMMA NextArgs ==
  ASSUME TypeInv, OrderInv, ArgsInv, [Next]_vars
  PROVE  ArgsInv'
<1>1. CASE UNCHANGED vars
  <2>1. (Done("args")' <=> Done("args")) /\ (Pending("caArgs")' <=> Pending("caArgs"))
    BY <1>1, DoneOrStop, PendingOrStop
  <2>2. deploy' = deploy /\ input' = input /\ component' = component
    BY <1>1 DEF vars
  <2> QED BY <2>1, <2>2 DEF ArgsInv, ArgsOnce, UserArgs, Given
<1>2. CASE Rejects
  <2>1. ~Done("args")' /\ ~Pending("caArgs")'
    BY <1>2, DoneOrStop, PendingOrStop
  <2> QED BY <1>2, <2>1 DEF ArgsInv, ArgsOnce, Rejects
<1>3. ASSUME Next, Proceeds PROVE ArgsInv'
  <2>1. ArgsOnce'
    BY <1>3, NextArgsOnce
  <2>2. input' = input /\ component' = component /\ Moves /\ Untouched
    BY <1>3 DEF Proceeds, Moves
  <2>3. ASSUME component = "operator", Pending("caArgs")' PROVE "--ca-dir=" \notin NamesOf(deploy'.args)
    <3>1. /\ Pending("caArgs") /\ "caArgs" \in ToSet(Tail(todo)) /\ todo \in Seq(Transformers)
          /\ todo # <<>>
      BY <1>3, <2>3, PendingStep
    <3>2. Early(todo, {"gcpConfig", "watchNamespace", "tls"}, "caArgs")
      BY <1>3, <2>3 DEF Proceeds, Order
    <3>3. Head(todo) \in {"gcpConfig", "watchNamespace", "tls"}
      BY <3>1, <3>2, TailEarly
    <3>4. deploy'.args = deploy.args
      BY <2>2, <3>3 DEF Untouched
    <3> QED BY <2>3, <3>1, <3>4 DEF ArgsInv
  <2>4. ASSUME component \in KedaComponents, Done("args")', NEW i \in 1..Len(Given),
               Given[i].name = "" \/ IsLast(Given, i)
        PROVE  Given[i] \in ToSet(deploy'.args)
    <3>1. CASE Head(todo) = "args"
      <4>1. SetsAll(deploy.args, Given, deploy'.args, {""})
        BY <1>3, <2>2, <3>1, ArgsSteps DEF ArgsStep
      <4>2. Given \in Seq(Entries) /\ deploy.args \in Seq(Entries)
        BY GivenEntries DEF TypeInv, IsDeployment
      <4>3. CASE Given[i].name = ""
        BY <4>1, <4>3 DEF SetsAll
      <4>4. CASE IsLast(Given, i)
        BY <4>1, <4>2, <4>4, LastStays
      <4> QED BY <2>4, <4>3, <4>4
    <3>2. CASE Head(todo) # "args"
      <4>1. Done("args")
        BY <1>3, <2>4, <3>2, DoneStep
      <4>2. /\ Before(todo, Transformers \ {"gcp", "env"}, "args") /\ todo # <<>>
            /\ Head(todo) \in Transformers /\ todo \in Seq(Transformers \ Foreign(component))
        BY <1>3, <2>4 DEF Proceeds, Order, Moves
      <4>3. Head(todo) \in {"gcp", "env"}
        <5>1. ASSUME Head(todo) \in Transformers \ {"gcp", "env"} PROVE FALSE
          <6>1. "args" \in ToSet(todo)
            BY <4>2, <5>1, TailBefore
          <6> QED BY <4>1, <6>1 DEF Done
        <5> QED BY <4>2, <5>1
      <4>4. deploy'.args = deploy.args
        BY <2>2, <4>3 DEF Untouched
      <4> QED BY <2>4, <4>1, <4>4 DEF ArgsInv, UserArgs
    <3> QED BY <3>1, <3>2
  <2>5. Given' = Given
    BY <2>2 DEF Given
  <2>6. ASSUME component' \in KedaComponents, Done("args")' PROVE UserArgs'
    BY <2>2, <2>4, <2>5, <2>6 DEF UserArgs
  <2> QED BY <2>1, <2>2, <2>3, <2>6 DEF ArgsInv
<1> QED BY <1>1, <1>2, <1>3, NextProceeds

LEMMA InitArgs ==
  ASSUME Init
  PROVE  ArgsInv
<1>1. Fresh(deploy) /\ deploy.args \in Seq(Entries)
  BY InitTypes DEF Fresh, IsDeployment
<1>2. NamedOnce(deploy.args) /\ "--ca-dir=" \notin NamesOf(deploy.args)
  BY <1>1 DEF Fresh
<1>3. \A n : Once(deploy.args, n)
  BY <1>1, <1>2, OnceEach
<1>4. NoTwins(deploy.args, {""})
  BY <1>3 DEF NoTwins, Once
<1> QED BY <1>2, <1>3, <1>4, InitNotDone DEF ArgsInv, ArgsOnce

\* Both have the same prefixes, and the same values if no "=" follows the first one.
LEMMA ReadAsWritten ==
  ASSUME input \in Inputs, NEW i \in 1..Len(input.args)
  PROVE  /\ Given[i].name = UserArguments[i].name
         /\ input.args[i].form # "more" => Given[i] = UserArguments[i]
<1>1. DOMAIN input.args = 1..Len(input.args) /\ input.args[i] \in Arguments
  BY InputsAssumption
<1> DEFINE a == input.args[i]
           user == Entry(IF a.form = "bare" THEN "" ELSE a.prefix, a.value)
<1>2. Given[i] = ReplaceArbitraryArg(a) /\ UserArguments[i] = user
  BY <1>1 DEF Given, UserArguments
<1>3. a \in Arguments
  BY <1>1
<1> HIDE DEF a
<1>4. CASE a \in [form : {"bare"}, value : STRING]
  BY <1>2, <1>4 DEF ReplaceArbitraryArg, Entry, a
<1>5. CASE a \in [form : {"plain"}, prefix : STRING, value : STRING]
  BY <1>2, <1>5 DEF ReplaceArbitraryArg, Entry, a
<1>6. CASE a \in [form : {"more"}, prefix : STRING, value : STRING, head : STRING]
  <2>1. ReplaceArbitraryArg(a).name = a.prefix /\ user.name = a.prefix /\ a.form = "more"
    BY <1>6 DEF ReplaceArbitraryArg, Entry
  <2> QED BY <1>2, <2>1 DEF a
<1> QED BY <1>3, <1>4, <1>5, <1>6 DEF Arguments

\* "Any user-defined arguments with possibility to override any existing or previously
\* defined arguments" for every list of arguments: each argument with at most one "="
\* is rendered as the user wrote it unless a later one has its prefix, and no
\* transformer leaves or adds another value under that prefix.  Nothing is claimed of
\* an argument with more, which ReplaceArbitraryArg cuts.
THEOREM UserArgumentsWin == Spec => []UserArgumentWins
<1>1. Init => ArgsInv
  BY InitArgs
<1>2. TypeInv /\ OrderInv /\ ArgsInv /\ [Next]_vars => ArgsInv'
  BY NextArgs
<1>3. TypeInv /\ ArgsInv => UserArgumentWins
  <2> SUFFICES ASSUME TypeInv, ArgsInv, Rendered, component \in KedaComponents
               PROVE  UserArgumentWins
    BY DEF UserArgumentWins
  <2>1. UserArgs /\ ArgsOnce
    BY RenderedDone DEF ArgsInv
  <2>2. deploy.args \in Seq(Entries) /\ Given \in Seq(Entries)
    BY GivenEntries DEF TypeInv, IsDeployment
  <2>3. DOMAIN Given = 1..Len(Given) /\ DOMAIN deploy.args = 1..Len(deploy.args)
    BY <2>2
  <2>4. ASSUME NEW i \in 1..Len(Given), Given[i].name = "" \/ IsLast(Given, i)
        PROVE  Given[i] \in ToSet(deploy.args)
    BY <2>1, <2>4 DEF UserArgs
  <2>5. ASSUME NEW i \in 1..Len(Given), Given[i].name = "",
               NEW j \in 1..Len(deploy.args), NEW k \in 1..Len(deploy.args),
               deploy.args[j] = Given[i], deploy.args[k] = Given[i]
        PROVE  j = k
    BY <2>1, <2>5 DEF ArgsOnce, NoTwins
  <2>6. ASSUME NEW i \in 1..Len(Given), Given[i].name # "", Given[i].name # "--ca-dir=",
               NEW j \in 1..Len(deploy.args), NEW k \in 1..Len(deploy.args),
               deploy.args[j].name = Given[i].name, deploy.args[k].name = Given[i].name
        PROVE  j = k
    BY <2>1, <2>6 DEF ArgsOnce, Once
  <2>7. input \in Inputs /\ Len(Given) = Len(input.args) /\ DOMAIN input.args = 1..Len(input.args)
    BY GivenEntries, InputsAssumption DEF TypeInv
  <2>8. DOMAIN UserArguments = 1..Len(Given)
    BY <2>7 DEF UserArguments
  <2>9. ASSUME NEW i \in 1..Len(Given), InEffect(i), input.args[i].form # "more"
        PROVE  /\ Given[i].name = "" \/ IsLast(Given, i)
               /\ UserArguments[i] = Given[i]
    <3>1. \A j \in 1..Len(Given) : Given[j].name = UserArguments[j].name
      BY <2>7, ReadAsWritten
    <3>2. UserArguments[i] = Given[i]
      BY <2>7, <2>9, ReadAsWritten
    <3>3. IsLast(UserArguments, i) => IsLast(Given, i)
      BY <2>3, <2>8, <3>1 DEF IsLast
    <3> QED BY <2>9, <3>2, <3>3 DEF InEffect
  <2> HIDE DEF Given
  <2> QED BY <2>3, <2>4, <2>5, <2>6, <2>7, <2>9 DEF UserArgumentWins
<1> QED BY <1>1, <1>2, <1>3, TypesAndOrder, PTL DEF Spec

-----------------------------------------------------------------------------
(* The credentials of Workload Identity *)

CredentialsThere ==
    /\ deploy.maps.podAnnotations[HashAnnotation] = CredentialsHash(gcpDocument)
    /\ GCPVolumes \subseteq ToSet(deploy.volumes) /\ GCPMounts \subseteq ToSet(deploy.mounts)
    /\ "GOOGLE_APPLICATION_CREDENTIALS" \in NamesOf(deploy.env)

CredentialsInv ==
    component = "operator" /\ Done("gcp") /\ gcpConfig.kind = "config" => CredentialsThere

LEMMA Updated ==
  ASSUME NEW k, NEW v, NEW old
  PROVE  updateMap(old, [a \in {k} |-> v])[k] = v
BY DEF updateMap

LEMMA CredentialsPut ==
  ASSUME TypeInv, OrderInv, Next, Proceeds, Head(todo) = "gcp", gcpConfig.kind = "config"
  PROVE  CredentialsThere'
<1>1. Moves /\ Untouched /\ input' = input
  BY DEF Proceeds, Moves
<1>2. gcpDocument' = gcpDocument /\ GCPVolumes' = GCPVolumes /\ GCPMounts' = GCPMounts
  BY <1>1 DEF gcpDocument, gcpConfig, gcpPlatform, GCPVolumes, GCPMounts
<1>3. PICK volumes, mounts \in Seq(Entries) :
        /\ Overlays(deploy.volumes, volumes, deploy'.volumes)
        /\ Overlays(deploy.mounts, mounts, deploy'.mounts)
        /\ NamedOnce(volumes) /\ NamedOnce(mounts)
        /\ ToSet(volumes) = GCPVolumes /\ ToSet(mounts) = GCPMounts
  BY <1>1, VolumesSteps DEF VolumesStep, VolumesBy
<1>4. GCPVolumes \subseteq ToSet(deploy'.volumes) /\ GCPMounts \subseteq ToSet(deploy'.mounts)
  BY <1>3 DEF Overlays
<1>5. "GOOGLE_APPLICATION_CREDENTIALS" \in NamesOf(deploy'.env)
  BY <1>1, EnvSteps DEF EnvStep, SetsAll
<1>6. deploy'.maps.podAnnotations[HashAnnotation] = CredentialsHash(gcpDocument)
  <2> DEFINE old == deploy.maps.podAnnotations
             new == updateMap(old, [a \in {HashAnnotation} |-> CredentialsHash(gcpDocument)])
  <2>1. GCPDeploymentTransforms
    BY Dispatch
  <2>2. \E v, m, e : deploy' = [deploy EXCEPT !.volumes = v, !.mounts = m, !.env = e,
                                              !.maps.podAnnotations = new]
    BY <2>1 DEF GCPDeploymentTransforms, When
  <2>3. DOMAIN deploy = DeployFields /\ DOMAIN deploy.maps = MapNames
    BY DEF TypeInv, IsDeployment
  <2>4. /\ "maps" \in DeployFields /\ "podAnnotations" \in MapNames
    BY DEF DeployFields, MapNames
  <2> HIDE DEF new
  <2>5. deploy'.maps.podAnnotations = new
    BY <2>2, <2>3, <2>4
  <2>6. new[HashAnnotation] = CredentialsHash(gcpDocument)
    BY Updated DEF new
  <2> QED BY <2>5, <2>6
<1> QED BY <1>2, <1>4, <1>5, <1>6 DEF CredentialsThere

LEMMA CredentialsStay ==
  ASSUME TypeInv, OrderInv, Next, Proceeds, Head(todo) = "env", CredentialsThere
  PROVE  CredentialsThere'
<1>1. Moves /\ Untouched /\ input' = input
  BY DEF Proceeds, Moves
<1>2. gcpDocument' = gcpDocument /\ GCPVolumes' = GCPVolumes /\ GCPMounts' = GCPMounts
  BY <1>1 DEF gcpDocument, gcpConfig, gcpPlatform, GCPVolumes, GCPMounts
<1>3. deploy'.volumes = deploy.volumes /\ deploy'.mounts = deploy.mounts
  BY <1>1 DEF Untouched
<1>4. NamesOf(deploy.env) \subseteq NamesOf(deploy'.env)
  BY <1>1, EnvSteps DEF EnvStep, SetsAll
<1>5. deploy'.maps = deploy.maps
  <2>1. ReplaceContainerEnv
    BY Dispatch
  <2>2. DOMAIN deploy = DeployFields /\ "maps" \in DeployFields
    BY DEF TypeInv, IsDeployment, DeployFields
  <2> QED BY <2>1, <2>2 DEF ReplaceContainerEnv
<1> QED BY <1>2, <1>3, <1>4, <1>5 DEF CredentialsThere

LEMMA NextCredentials ==
  ASSUME TypeInv, OrderInv, CredentialsInv, [Next]_vars
  PROVE  CredentialsInv'
<1>1. CASE UNCHANGED vars
  <2>1. Done("gcp")' <=> Done("gcp")
    BY <1>1, DoneOrStop
  <2>2. deploy' = deploy /\ input' = input /\ component' = component
    BY <1>1 DEF vars
  <2>3. /\ gcpDocument' = gcpDocument /\ GCPVolumes' = GCPVolumes /\ GCPMounts' = GCPMounts
        /\ gcpConfig' = gcpConfig
    BY <2>2 DEF gcpDocument, gcpConfig, gcpPlatform, GCPVolumes, GCPMounts
  <2> QED BY <2>1, <2>2, <2>3 DEF CredentialsInv, CredentialsThere
<1>2. CASE Rejects
  BY <1>2, DoneOrStop DEF CredentialsInv
<1>3. ASSUME Next, Proceeds, component = "operator", Done("gcp")', gcpConfig.kind = "config"
      PROVE  CredentialsThere'
  <2>1. CASE Head(todo) = "gcp"
    BY <1>3, <2>1, CredentialsPut
  <2>2. CASE Head(todo) # "gcp"
    <3>1. Done("gcp") /\ CredentialsThere
      BY <1>3, <2>2, DoneStep DEF CredentialsInv
    <3>2. /\ Before(todo, Transformers \ {"env"}, "gcp") /\ todo # <<>>
          /\ Head(todo) \in Transformers /\ todo \in Seq(Transformers \ Foreign(component))
      BY <1>3 DEF Proceeds, Order, Moves
    <3>3. Head(todo) = "env"
      <4>1. ASSUME Head(todo) \in Transformers \ {"env"} PROVE FALSE
        <5>1. "gcp" \in ToSet(todo)
          BY <3>2, <4>1, TailBefore
        <5> QED BY <3>1, <5>1 DEF Done
      <4> QED BY <3>2, <4>1
    <3> QED BY <1>3, <3>1, <3>3, CredentialsStay
  <2> QED BY <2>1, <2>2
<1>4. ASSUME Proceeds PROVE component' = component /\ gcpConfig' = gcpConfig
  BY <1>4 DEF Proceeds, Moves, gcpConfig
<1> QED BY <1>1, <1>2, <1>3, <1>4, NextProceeds DEF CredentialsInv

\* With Workload Identity configured, the operator's rendered pod carries the hash of
\* the credentials in effect and mounts the Secret and the token, whatever
\* annotations, volumes, mounts and variables the user has under those names.
THEOREM CredentialsArrive == Spec => []CredentialsReachTheOperator
<1>1. Init => CredentialsInv
  BY InitNotDone DEF CredentialsInv
<1>2. TypeInv /\ OrderInv /\ CredentialsInv /\ [Next]_vars => CredentialsInv'
  BY NextCredentials
<1>3. CredentialsInv => CredentialsReachTheOperator
  <2> SUFFICES ASSUME CredentialsInv, Rendered, component = "operator", gcpConfig.kind = "config"
               PROVE  CredentialsReachTheOperator
    BY DEF CredentialsReachTheOperator
  <2>1. CredentialsThere
    BY RenderedDone DEF CredentialsInv
  <2> QED BY <2>1 DEF CredentialsThere, GCPVolumes, GCPMounts, CredentialsReachTheOperator
<1> QED BY <1>1, <1>2, <1>3, TypesAndOrder, PTL DEF Spec

-----------------------------------------------------------------------------
(* Volumes, mounts and the seccomp profile *)

LEMMA OperatorManifestVolumes == NamesOf(Manifest.operator.volumes) = {"certificates"}
<1> DEFINE volume == Entry("certificates", "kedaorg-certs")
<1>1. volume \in Entries /\ volume.name = "certificates"
  <2>1. "certificates" \in Texts /\ "kedaorg-certs" \in Texts
    BY DEF Texts
  <2> QED BY <2>1, TextEntry
<1>2. Manifest.operator.volumes = <<volume>>
  BY DEF Manifest, Container
<1> HIDE DEF volume
<1> QED BY <1>1, <1>2, Names1

\* What the API server asks of a Deployment, and what makes the steps keep it: the
\* manifest's volumes stay, the user's are there when the user's mounts are put in,
\* and no volume has the name of a ConfigMap when the CA bundles are mounted.
VolumesInv ==
    /\ NamedOnce(deploy.volumes) /\ NamedOnce(deploy.mounts)
    /\ NamesOf(deploy.mounts) \subseteq NamesOf(deploy.volumes)
    /\ NamesOf(Manifest[component].volumes) \subseteq NamesOf(deploy.volumes)
    /\ "keda-ocp-cabundle" \notin NamesOf(deploy.volumes)
    /\ todo # <<>> /\ Head(todo) = "mounts" => NamesOf(input.volumes) \subseteq NamesOf(deploy.volumes)

PlainVolumes ==
    component = "operator" /\ Pending("caVolumes") => NamesOf(deploy.volumes) \subseteq {"certificates"}

SeccompInv ==
    Done("seccomp") /\ input.openshift /\ input.kube = [known |-> TRUE, major |-> 1, minor |-> 23]
      => deploy.seccomp = {}

\* The names that CA bundles leave in a list.
LEMMA BundleNames ==
  ASSUME TypeInv
  PROVE  LET new == {CAVolume[i] : i \in 1..Len(caConfigMaps)}
         IN /\ \A list \in Seq(Entries) : \A out \in Rekeyed(list, cabundleVolumeMounts(caConfigMaps)) :
                 /\ NamesOf(out) = new \cup (NamesOf(list) \ CANames)
                 /\ NamedOnce(list) => NamedOnce(out)
            /\ IsInjective(caConfigMaps) =>
                 \A list \in Seq(Entries) : \A out \in Rekeyed(list, cabundleVolumes(caConfigMaps)) :
                    /\ NamesOf(out) = new \cup (NamesOf(list) \ (CANames \cup ToSet(caConfigMaps)))
                    /\ NamedOnce(list) => NamedOnce(out)
<1> DEFINE maps == caConfigMaps
           n == Len(maps)
           new == {CAVolume[i] : i \in 1..n}
           mounts == cabundleVolumeMounts(maps)
           volumes == cabundleVolumes(maps)
<1>1. maps \in Seq(STRING) /\ n <= Len(CAVolume)
  BY CAMaps
<1>2. /\ CAVolume \in Seq(CANames) /\ IsInjective(CAVolume) /\ n \in Nat
      /\ DOMAIN CAVolume = 1..Len(CAVolume) /\ Len(CAVolume) \in Nat
  BY <1>1, CAAssumption
<1> HIDE DEF maps
<1>3. \A i \in 1..n : CAVolume[i] \in CANames /\ i \in DOMAIN CAVolume
  BY <1>1, <1>2, Within
<1>4. \A i, j \in 1..n : CAVolume[i] = CAVolume[j] => i = j
  BY <1>2, <1>3 DEF IsInjective
<1>5. /\ Keyed(mounts) /\ DOMAIN mounts = new
      /\ \A i \in 1..n : mounts[CAVolume[i]] = Entry(CAVolume[i], CADir[i])
  BY <1>1, BundleMounts
<1>6. /\ Keyed(volumes) /\ DOMAIN volumes = ToSet(maps)
      /\ IsInjective(maps) => \A i \in 1..n : volumes[maps[i]] = Entry(CAVolume[i], maps[i])
  BY <1>1, BundleVolumes
<1> HIDE DEF mounts, volumes
<1>7. ASSUME NEW list \in Seq(Entries), NEW out \in Rekeyed(list, mounts)
      PROVE  /\ NamesOf(out) = new \cup (NamesOf(list) \ CANames)
             /\ NamedOnce(list) => NamedOnce(out)
  <2>1. \A k \in new : mounts[k].name = k
    <3> TAKE k \in new
    <3>1. PICK i \in 1..n : k = CAVolume[i]
      OBVIOUS
    <3>2. mounts[k] = Entry(k, CADir[i])
      BY <1>5, <3>1
    <3> QED BY <3>2 DEF Entry
  <2>2. out \in Seq(Entries) /\ ToSet(out) = {mounts[k] : k \in DOMAIN mounts} \cup Alone(list, mounts)
    BY <1>5, <1>7, RekeyedSet
  <2>3. NamesOf(out) = {e.name : e \in ToSet(out)} /\ NamesOf(list) = {e.name : e \in ToSet(list)}
    BY <2>2, NamesOfSet
  <2>4. Alone(list, mounts) = {x \in ToSet(list) : x.name \notin CANames}
    BY <1>3, <1>5 DEF Alone
  <2>5. {e.name : e \in Alone(list, mounts)} = NamesOf(list) \ CANames
    <3> DEFINE A == {x \in ToSet(list) : x.name \notin CANames}
    <3>1. \A m : m \in {e.name : e \in A} <=> m \in {e.name : e \in ToSet(list)} /\ m \notin CANames
      OBVIOUS
    <3> QED BY <2>3, <2>4, <3>1
  <2>6. {e.name : e \in {mounts[k] : k \in new}} = new
    <3> HIDE DEF new
    <3> QED BY <2>1
  <2>7. NamesOf(out) = {e.name : e \in {mounts[k] : k \in new}} \cup {e.name : e \in Alone(list, mounts)}
    <3> HIDE DEF new
    <3> QED BY <1>5, <2>2, <2>3
  <2>8. NamedOnce(list) => NamedOnce(out)
    <3> HIDE DEF new
    <3>1. \A k, l \in DOMAIN mounts : mounts[k].name = mounts[l].name => k = l
      BY <1>5, <2>1
    <3> QED BY <1>5, <1>7, <3>1, RekeyedOnce
  <2> QED BY <2>5, <2>6, <2>7, <2>8
<1>8. ASSUME IsInjective(maps), NEW list \in Seq(Entries), NEW out \in Rekeyed(list, volumes)
      PROVE  /\ NamesOf(out) = new \cup (NamesOf(list) \ (CANames \cup ToSet(maps)))
             /\ NamedOnce(list) => NamedOnce(out)
  <2>1. \A k : k \in ToSet(maps) <=> \E i \in 1..n : k = maps[i]
    BY <1>1, InToSet
  <2>2. \A i \in 1..n : volumes[maps[i]].name = CAVolume[i]
    <3> TAKE i \in 1..n
    <3>1. volumes[maps[i]] = Entry(CAVolume[i], maps[i])
      BY <1>6, <1>8
    <3> QED BY <3>1 DEF Entry
  <2>3. out \in Seq(Entries) /\ ToSet(out) = {volumes[k] : k \in DOMAIN volumes} \cup Alone(list, volumes)
    BY <1>6, <1>8, RekeyedSet
  <2>4. NamesOf(out) = {e.name : e \in ToSet(out)} /\ NamesOf(list) = {e.name : e \in ToSet(list)}
    BY <2>3, NamesOfSet
  <2>5. {e.name : e \in Alone(list, volumes)} = NamesOf(list) \ (CANames \cup ToSet(maps))
    <3> DEFINE A == {x \in ToSet(list) : x.name \notin ToSet(maps) /\ x.name \notin CANames}
    <3>1. Alone(list, volumes) = A
      BY <1>6 DEF Alone
    <3>2. \A m : m \in {e.name : e \in A} <=>
                 m \in {e.name : e \in ToSet(list)} /\ m \notin CANames /\ m \notin ToSet(maps)
      OBVIOUS
    <3> QED BY <2>4, <3>1, <3>2
  <2>6. {e.name : e \in {volumes[k] : k \in ToSet(maps)}} = new
    BY <2>1, <2>2
  <2>7. NamesOf(out) = {e.name : e \in {volumes[k] : k \in ToSet(maps)}}
                         \cup {e.name : e \in Alone(list, volumes)}
    <3> HIDE DEF new
    <3> QED BY <1>6, <2>3, <2>4
  <2>8. NamedOnce(list) => NamedOnce(out)
    <3>1. \A k, l \in DOMAIN volumes : volumes[k].name = volumes[l].name => k = l
      BY <1>4, <1>6, <2>1, <2>2
    <3> QED BY <1>6, <1>8, <3>1, RekeyedOnce
  <2> QED BY <2>5, <2>6, <2>7, <2>8
<1> QED BY <1>7, <1>8 DEF maps, volumes, mounts

LEMMA NoBundleName ==
  ASSUME TypeInv, VolumesInv, PlainVolumes, Coherent, Proceeds, Head(todo) = "caVolumes"
  PROVE  NamesOf(deploy.volumes) \cap ToSet(caConfigMaps) = {} /\ IsInjective(caConfigMaps)
<1> DEFINE o == "keda-ocp-cabundle"
<1>1. component \in {"operator", "interceptor"}
  <2>1. todo \in Seq(Transformers \ Foreign(component)) /\ todo # <<>>
    BY DEF Proceeds, Order, Moves
  <2>2. Head(todo) \in Transformers \ Foreign(component)
    BY <2>1, TailList
  <2> QED BY <2>2 DEF Foreign
<1>2. CASE component = "operator"
  <2>1. NamesOf(deploy.volumes) \subseteq {"certificates"}
    BY <1>2, HeadPending DEF PlainVolumes
  <2>2. ToSet(caConfigMaps) \subseteq ToSet(input.caConfigMaps) \cup {o} /\ IsInjective(caConfigMaps)
    BY CAMaps DEF Coherent
  <2>3. "certificates" \notin ToSet(input.caConfigMaps) /\ "certificates" # o
    BY DEF Coherent
  <2> QED BY <2>1, <2>2, <2>3
<1>3. CASE component = "interceptor"
  <2>1. caConfigMaps = <<o>>
    BY <1>3, CAMaps
  <2>2. o \in STRING
    BY TextsAssumption DEF Texts
  <2>3. <<o>> \in Seq(STRING) /\ Len(<<o>>) = 1 /\ <<o>>[1] = o /\ DOMAIN <<o>> = 1..1 /\ 1..1 = {1}
    BY <2>2
  <2>4. ToSet(<<o>>) = {o}
    <3>1. \A x : x \in ToSet(<<o>>) <=> \E i \in 1..Len(<<o>>) : x = <<o>>[i]
      BY <2>3, InToSet
    <3> QED BY <2>3, <3>1
  <2>5. IsInjective(<<o>>)
    BY <2>3 DEF IsInjective
  <2>6. o \notin NamesOf(deploy.volumes)
    BY DEF VolumesInv
  <2> QED BY <2>1, <2>4, <2>5, <2>6
<1> QED BY <1>1, <1>2, <1>3

\* What the volumes of a component's manifest are called.
LEMMA ManifestNames ==
  ASSUME TypeInv
  PROVE  /\ NamesOf(Manifest[component].volumes) \subseteq {"certificates", "temp-vol"}
         /\ {"certificates", "temp-vol", "keda-ocp-cabundle"} \cap CANames = {}
<1>1. component \in KedaComponents \cup AddonComponents
  BY InputsAssumption DEF TypeInv
<1>2. NamesOf(Manifest[component].volumes) \subseteq {"certificates", "temp-vol"}
  BY <1>1, ManifestFresh DEF Fresh
<1>3. {"certificates", "temp-vol", "audit-policy", "audit-log", "bound-sa-token", "gcp-credentials",
       "interceptor-certs", "keda-ocp-cabundle"} \cap CANames = {}
  BY CAAssumption
<1> QED BY <1>2, <1>3

LEMMA BundlesKeepVolumes ==
  ASSUME TypeInv, OrderInv, VolumesInv, PlainVolumes, Coherent, Next, Proceeds, Head(todo) = "caVolumes"
  PROVE  VolumesInv'
<1> DEFINE new == {CAVolume[i] : i \in 1..Len(caConfigMaps)}
           o == "keda-ocp-cabundle"
<1>1. input' = input /\ component' = component /\ todo' = Tail(todo) /\ todo # <<>>
  BY DEF Proceeds, Moves
<1>2. ~(todo' # <<>> /\ Head(todo') = "mounts")
  <2>1. Adjacent(todo, "volumes", "mounts") /\ todo \in Seq(Transformers \ Foreign(component))
    BY DEF Proceeds, Order
  <2>2. Tail(todo) # <<>> /\ Head(Tail(todo)) = "mounts" => Head(todo) = "volumes"
    BY <1>1, <2>1, TailAdjacent
  <2> QED BY <1>1, <2>2
<1>3. CAStep
  BY Dispatch, CASteps
<1>4. NamesOf(deploy.volumes) \cap ToSet(caConfigMaps) = {} /\ IsInjective(caConfigMaps)
  BY NoBundleName
<1>5. deploy.volumes \in Seq(Entries) /\ deploy.mounts \in Seq(Entries)
  BY DEF TypeInv, IsDeployment
<1>6. CASE UNCHANGED deploy
  BY <1>1, <1>2, <1>6 DEF VolumesInv
<1>7. CASE /\ deploy'.volumes \in Rekeyed(deploy.volumes, cabundleVolumes(caConfigMaps))
           /\ deploy'.mounts \in Rekeyed(deploy.mounts, cabundleVolumeMounts(caConfigMaps))
  <2> HIDE DEF new
  <2>1. /\ NamesOf(deploy'.mounts) = new \cup (NamesOf(deploy.mounts) \ CANames)
        /\ NamedOnce(deploy.mounts) => NamedOnce(deploy'.mounts)
    BY <1>5, <1>7, BundleNames DEF new
  <2>2. /\ NamesOf(deploy'.volumes) = new \cup (NamesOf(deploy.volumes) \ (CANames \cup ToSet(caConfigMaps)))
        /\ NamedOnce(deploy.volumes) => NamedOnce(deploy'.volumes)
    BY <1>4, <1>5, <1>7, BundleNames DEF new
  <2>3. NamesOf(deploy'.volumes) = new \cup (NamesOf(deploy.volumes) \ CANames)
    BY <1>4, <2>2
  <2>4. new \subseteq CANames
    <3>1. Len(caConfigMaps) \in Nat /\ Len(caConfigMaps) <= Len(CAVolume)
      BY CAMaps
    <3>2. \A i \in 1..Len(caConfigMaps) : CAVolume[i] \in CANames
      BY <3>1, Within, CAAssumption
    <3> QED BY <3>2 DEF new
  <2>5. NamesOf(Manifest[component].volumes) \cap CANames = {} /\ o \notin CANames
    BY ManifestNames
  <2>6. NamedOnce(deploy'.volumes) /\ NamedOnce(deploy'.mounts)
    BY <2>1, <2>2 DEF VolumesInv
  <2>7. NamesOf(deploy'.mounts) \subseteq NamesOf(deploy'.volumes)
    BY <2>1, <2>3 DEF VolumesInv
  <2>8. NamesOf(Manifest[component].volumes) \subseteq NamesOf(deploy'.volumes)
    BY <2>3, <2>5 DEF VolumesInv
  <2>9. o \notin NamesOf(deploy'.volumes)
    BY <2>3, <2>4, <2>5 DEF VolumesInv
  <2> QED BY <1>1, <1>2, <2>6, <2>7, <2>8, <2>9 DEF VolumesInv
<1> QED BY <1>3, <1>6, <1>7 DEF CAStep

LEMMA OthersKeepVolumes ==
  ASSUME TypeInv, OrderInv, VolumesInv, Coherent, Next, Proceeds, Head(todo) # "caVolumes"
  PROVE  VolumesInv'
<1> DEFINE o == "keda-ocp-cabundle"
<1>1. /\ input' = input /\ component' = component /\ todo' = Tail(todo) /\ todo # <<>>
      /\ Moves /\ Untouched
  BY DEF Proceeds, Moves
<1>2. todo' # <<>> /\ Head(todo') = "mounts" => Head(todo) = "volumes"
  <2>1. Adjacent(todo, "volumes", "mounts") /\ todo \in Seq(Transformers \ Foreign(component))
    BY DEF Proceeds, Order
  <2>2. Tail(todo) # <<>> /\ Head(Tail(todo)) = "mounts" => Head(todo) = "volumes"
    BY <1>1, <2>1, TailAdjacent
  <2> QED BY <1>1, <2>2
<1>3. PICK volumes, mounts \in Seq(Entries) :
        /\ VolumesBy(volumes, mounts)
        /\ Head(todo) = "volumes" => volumes = input.volumes /\ mounts = <<>>
        /\ Head(todo) = "mounts" => volumes = <<>> /\ mounts = input.mounts
        /\ Head(todo) \notin {"volumes", "mounts"} =>
             /\ NamedOnce(volumes) /\ NamesOf(volumes) \subseteq OperatorVolumes
             /\ NamesOf(mounts) \subseteq NamesOf(volumes)
  BY <1>1, VolumesSteps DEF VolumesStep
<1>4. /\ NamesOf(deploy'.volumes) = NamesOf(deploy.volumes) \cup NamesOf(volumes)
      /\ NamesOf(deploy'.mounts) = NamesOf(deploy.mounts) \cup NamesOf(mounts)
      /\ NamedOnce(volumes) /\ NamedOnce(deploy.volumes) => NamedOnce(deploy'.volumes)
      /\ NamedOnce(deploy.mounts) => NamedOnce(deploy'.mounts)
  BY <1>3 DEF VolumesBy, Overlays
<1>5. NamedOnce(<<>>) /\ NamesOf(<<>>) = {}
  BY <1>3, OverlayNothing
<1>6. /\ NamedOnce(volumes) /\ o \notin NamesOf(volumes)
      /\ NamesOf(mounts) \subseteq NamesOf(deploy.volumes) \cup NamesOf(volumes)
  <2>1. CASE Head(todo) = "volumes"
    BY <1>3, <1>5, <2>1 DEF Coherent
  <2>2. CASE Head(todo) = "mounts"
    <3>1. NamesOf(input.volumes) \subseteq NamesOf(deploy.volumes)
      BY <1>1, <2>2 DEF VolumesInv
    <3>2. NamesOf(Manifest[component].volumes) \subseteq NamesOf(deploy.volumes)
      BY DEF VolumesInv
    <3>3. NamesOf(input.mounts) \subseteq NamesOf(input.volumes) \cup NamesOf(Manifest[component].volumes)
      BY DEF Coherent
    <3>4. mounts = input.mounts /\ volumes = <<>>
      BY <1>3, <2>2
    <3>5. NamesOf(mounts) \subseteq NamesOf(deploy.volumes)
      BY <3>1, <3>2, <3>3, <3>4
    <3> QED BY <1>5, <3>4, <3>5
  <2>3. CASE Head(todo) \notin {"volumes", "mounts"}
    <3>1. o \notin OperatorVolumes
      BY DEF OperatorVolumes
    <3> QED BY <1>3, <2>3, <3>1
  <2> QED BY <2>1, <2>2, <2>3
<1>7. NamedOnce(deploy'.volumes) /\ NamedOnce(deploy'.mounts)
  BY <1>4, <1>6 DEF VolumesInv
<1>8. NamesOf(deploy'.mounts) \subseteq NamesOf(deploy'.volumes)
  BY <1>4, <1>6 DEF VolumesInv
<1>9. NamesOf(Manifest[component].volumes) \subseteq NamesOf(deploy'.volumes)
  BY <1>4 DEF VolumesInv
<1>10. o \notin NamesOf(deploy'.volumes)
  BY <1>4, <1>6 DEF VolumesInv
<1>11. ASSUME todo' # <<>>, Head(todo') = "mounts" PROVE NamesOf(input.volumes) \subseteq NamesOf(deploy'.volumes)
  BY <1>2, <1>3, <1>4, <1>11
<1> QED BY <1>1, <1>7, <1>8, <1>9, <1>10, <1>11 DEF VolumesInv

LEMMA NextPlainVolumes ==
  ASSUME TypeInv, OrderInv, PlainVolumes, [Next]_vars
  PROVE  PlainVolumes'
<1>1. CASE UNCHANGED vars
  <2>1. Pending("caVolumes")' <=> Pending("caVolumes")
    BY <1>1, PendingOrStop
  <2> QED BY <1>1, <2>1 DEF PlainVolumes, vars
<1>2. CASE Rejects
  BY <1>2, PendingOrStop DEF PlainVolumes
<1>3. ASSUME Next, Proceeds, component = "operator", Pending("caVolumes")'
      PROVE  NamesOf(deploy'.volumes) \subseteq {"certificates"}
  <2>1. /\ Pending("caVolumes") /\ "caVolumes" \in ToSet(Tail(todo)) /\ todo \in Seq(Transformers)
        /\ todo # <<>>
    BY <1>3, PendingStep
  <2>2. Early(todo, {"gcpConfig", "watchNamespace", "tls", "caArgs"}, "caVolumes")
    BY <1>3 DEF Proceeds, Order
  <2>3. Head(todo) \in {"gcpConfig", "watchNamespace", "tls", "caArgs"}
    BY <2>1, <2>2, TailEarly
  <2>4. deploy'.volumes = deploy.volumes
    BY <1>3, <2>3 DEF Proceeds, Untouched
  <2> QED BY <1>3, <2>1, <2>4 DEF PlainVolumes
<1>4. ASSUME Proceeds PROVE component' = component
  BY <1>4 DEF Proceeds, Moves
<1> QED BY <1>1, <1>2, <1>3, <1>4, NextProceeds DEF PlainVolumes

LEMMA NextVolumes ==
  ASSUME TypeInv, OrderInv, PlainVolumes, Coherent => VolumesInv, [Next]_vars
  PROVE  (Coherent => VolumesInv)'
<1>1. CASE UNCHANGED vars
  BY <1>1 DEF VolumesInv, Coherent, vars
<1>2. CASE Rejects
  <2>1. Head(<<"rejected">>) = "rejected"
    OBVIOUS
  <2>2. Head(todo') # "mounts" /\ component' = component /\ input' = input /\ deploy' = deploy
    BY <1>2, <2>1 DEF Rejects
  <2> QED BY <2>2 DEF VolumesInv, Coherent
<1>3. ASSUME Next, Proceeds PROVE (Coherent => VolumesInv)'
  <2>1. Coherent' => Coherent
    BY <1>3 DEF Proceeds, Moves, Coherent
  <2>2. CASE Head(todo) = "caVolumes"
    BY <1>3, <2>1, <2>2, BundlesKeepVolumes
  <2>3. CASE Head(todo) # "caVolumes"
    BY <1>3, <2>1, <2>3, OthersKeepVolumes
  <2> QED BY <2>2, <2>3
<1> QED BY <1>1, <1>2, <1>3, NextProceeds

LEMMA NextSeccomp ==
  ASSUME TypeInv, OrderInv, SeccompInv, [Next]_vars
  PROVE  SeccompInv'
<1> DEFINE Old == input.openshift /\ input.kube = [known |-> TRUE, major |-> 1, minor |-> 23]
<1>1. CASE UNCHANGED vars
  <2>1. Done("seccomp")' <=> Done("seccomp")
    BY <1>1, DoneOrStop
  <2> QED BY <1>1, <2>1 DEF SeccompInv, vars
<1>2. CASE Rejects
  BY <1>2, DoneOrStop DEF SeccompInv
<1>3. ASSUME Next, Proceeds, Done("seccomp")', Old PROVE deploy'.seccomp = {}
  <2>1. CASE Head(todo) = "seccomp"
    <3>1. RemoveSeccompProfile
      BY <1>3, <2>1, Dispatch
    <3>2. input.openshift /\ input.kube.known /\ input.kube.major = 1 /\ input.kube.minor = 23
      BY <1>3
    <3>3. RunningOnClusterWithoutSeccompProfileDefault
      BY <3>2 DEF RunningOnClusterWithoutSeccompProfileDefault
    <3>4. DOMAIN deploy = DeployFields /\ "seccomp" \in DeployFields
      BY DEF TypeInv, IsDeployment, DeployFields
    <3>5. deploy' = [deploy EXCEPT !.seccomp = {}]
      BY <3>1, <3>2, <3>3 DEF RemoveSeccompProfile, When
    <3> QED BY <3>4, <3>5
  <2>2. CASE Head(todo) # "seccomp"
    <3>1. Done("seccomp")
      BY <1>3, <2>2, DoneStep
    <3>2. deploy'.seccomp = deploy.seccomp
      BY <1>3, <2>2 DEF Proceeds, Untouched
    <3> QED BY <1>3, <3>1, <3>2 DEF SeccompInv
  <2> QED BY <2>1, <2>2
<1>4. ASSUME Proceeds PROVE input' = input
  BY <1>4 DEF Proceeds, Moves
<1> QED BY <1>1, <1>2, <1>3, <1>4, NextProceeds DEF SeccompInv

LEMMA InitVolumes ==
  ASSUME Init
  PROVE  PlainVolumes /\ (Coherent => VolumesInv) /\ SeccompInv
<1>1. /\ TypeInv /\ LinedUp(component, todo) /\ Fresh(deploy) /\ deploy = Manifest[component]
  BY InitTypes
<1>2. PlainVolumes
  <2>1. component = "operator" => deploy.volumes = Manifest.operator.volumes
    BY <1>1
  <2> QED BY <2>1, OperatorManifestVolumes DEF PlainVolumes
<1>3. Head(todo) = "gcpConfig"
  BY <1>1 DEF LinedUp
<1>4. "keda-ocp-cabundle" \notin NamesOf(deploy.volumes)
  BY <1>1 DEF Fresh
<1>5. VolumesInv
  BY <1>1, <1>3, <1>4 DEF VolumesInv, Fresh
<1>6. SeccompInv
  BY InitNotDone DEF SeccompInv
<1> QED BY <1>2, <1>5, <1>6

\* Whatever the user adds that fits together, and whatever the cluster: the rendered
\* Deployment is one the API server takes.  Every mount has its volume, because each
\* transformer that adds mounts adds their volumes or, for the user's mounts, runs right
\* after the one that adds the user's volumes; no name comes twice; and the seccomp
\* profile is gone where it would be refused.
THEOREM MountsFindVolumes == Spec => []MountsHaveVolumes
<1> DEFINE Inv == PlainVolumes /\ (Coherent => VolumesInv) /\ SeccompInv
<1>1. Init => Inv
  BY InitVolumes
<1>2. TypeInv /\ OrderInv /\ Inv /\ [Next]_vars => Inv'
  BY NextPlainVolumes, NextVolumes, NextSeccomp
<1>3. Inv => MountsHaveVolumes
  BY RenderedDone DEF MountsHaveVolumes, VolumesInv, SeccompInv
<1> QED BY <1>1, <1>2, <1>3, TypesAndOrder, PTL DEF Spec

-----------------------------------------------------------------------------
(* The CA bundles of the operator *)

\* The user leaves the CA bundles to the operator.
CAFree ==
    /\ component = "operator" /\ IsInjective(input.caConfigMaps)
    /\ \A i \in DOMAIN input.args : ReplaceArbitraryArg(input.args[i]).name # "--ca-dir="
    /\ \A n \in NamesOf(input.volumes) \cup NamesOf(input.mounts) : ~IsCA(n)

BundleArgs ==
    \A i \in 1..Len(caConfigMaps) : Entry("--ca-dir=", CADir[i]) \in ToSet(deploy.args)

BundlesMounted ==
    \A i \in 1..Len(caConfigMaps) :
       /\ Entry(CAVolume[i], CADir[i]) \in ToSet(deploy.mounts)
       /\ Entry(CAVolume[i], caConfigMaps[i]) \in ToSet(deploy.volumes)

BundlesInv ==
    CAFree => (Done("caArgs") => BundleArgs) /\ (Done("caVolumes") => BundlesMounted)

LEMMA NextBundleArgs ==
  ASSUME TypeInv, OrderInv, ArgsInv, CAFree, Next, Proceeds, Head(todo) = "caArgs" \/ BundleArgs
  PROVE  BundleArgs'
<1>1. /\ deploy.args \in Seq(Entries) /\ Moves /\ Untouched
      /\ input' = input /\ component' = component
  BY DEF TypeInv, IsDeployment, Proceeds, Moves
<1>2. caConfigMaps' = caConfigMaps
  BY <1>1 DEF caConfigMaps
<1>3. ASSUME NEW i \in 1..Len(caConfigMaps) PROVE Entry("--ca-dir=", CADir[i]) \in ToSet(deploy'.args)
  <2>1. CASE Head(todo) = "caArgs"
    <3>1. component = "operator" /\ Pending("caArgs")
      BY <2>1, HeadPending DEF CAFree
    <3>2. deploy'.args = deploy.args \o CAArgs
      BY <2>1, <3>1, Dispatch, CAArgsStep DEF ArgsInv
    <3>3. /\ CAArgs \in Seq(Entries) /\ Len(CAArgs) = Len(caConfigMaps)
          /\ CAArgs[i] = Entry("--ca-dir=", CADir[i])
      BY CAArgsList
    <3>4. CAArgs[i] \in ToSet(CAArgs)
      BY <3>3, InToSet
    <3>5. ToSet(deploy'.args) = ToSet(deploy.args) \cup ToSet(CAArgs)
      BY <1>1, <3>2, <3>3, ConcatSet
    <3> QED BY <3>3, <3>4, <3>5
  <2>2. CASE Head(todo) # "caArgs"
    <3>1. PICK new \in Seq(Entries) :
            /\ SetsAll(deploy.args, new, deploy'.args, {""})
            /\ Head(todo) = "args" => new = Given
            /\ Head(todo) # "args" => "--ca-dir=" \notin NamesOf(new)
      BY <1>1, <2>2, ArgsSteps DEF ArgsStep
    <3>2. "--ca-dir=" \notin NamesOf(new)
      <4>1. CASE Head(todo) = "args"
        <5>1. \A k \in DOMAIN input.args : Given[k].name # "--ca-dir="
          BY DEF CAFree, Given
        <5>2. DOMAIN Given = DOMAIN input.args
          BY DEF Given
        <5>3. "--ca-dir=" \notin NamesOf(Given)
          BY <5>1, <5>2 DEF NamesOf
        <5> QED BY <3>1, <4>1, <5>3
      <4>2. CASE Head(todo) # "args"
        BY <3>1, <4>2
      <4> QED BY <4>1, <4>2
    <3>3. Entry("--ca-dir=", CADir[i]) \in ToSet(deploy.args)
      BY <2>2 DEF BundleArgs
    <3>4. Entry("--ca-dir=", CADir[i]).name = "--ca-dir="
      BY DEF Entry
    <3> QED BY <3>1, <3>2, <3>3, <3>4 DEF SetsAll
  <2> QED BY <2>1, <2>2
<1> QED BY <1>2, <1>3 DEF BundleArgs

LEMMA NextBundlesMounted ==
  ASSUME TypeInv, OrderInv, CAFree, Next, Proceeds, Head(todo) = "caVolumes" \/ BundlesMounted
  PROVE  BundlesMounted'
<1> DEFINE n == Len(caConfigMaps)
<1>1. /\ deploy.volumes \in Seq(Entries) /\ deploy.mounts \in Seq(Entries) /\ Moves /\ Untouched
      /\ input' = input /\ component' = component
  BY DEF TypeInv, IsDeployment, Proceeds, Moves
<1>2. caConfigMaps' = caConfigMaps
  BY <1>1 DEF caConfigMaps
<1>3. /\ caConfigMaps \in Seq(STRING) /\ n \in Nat /\ n <= Len(CAVolume) /\ IsInjective(caConfigMaps)
  BY CAMaps DEF CAFree
<1>4. \A i \in 1..n : CAVolume[i] \in CANames
  BY <1>3, Within, CAAssumption
<1>5. ASSUME NEW i \in 1..n
      PROVE  /\ Entry(CAVolume[i], CADir[i]) \in ToSet(deploy'.mounts)
             /\ Entry(CAVolume[i], caConfigMaps[i]) \in ToSet(deploy'.volumes)
  <2>1. CASE Head(todo) = "caVolumes"
    <3>1. CAStep /\ component # "interceptor"
      BY <2>1, Dispatch, CASteps DEF CAFree
    <3>2. /\ deploy'.volumes \in Rekeyed(deploy.volumes, cabundleVolumes(caConfigMaps))
          /\ deploy'.mounts \in Rekeyed(deploy.mounts, cabundleVolumeMounts(caConfigMaps))
      BY <3>1 DEF CAStep
    <3>3. /\ Keyed(cabundleVolumes(caConfigMaps))
          /\ DOMAIN cabundleVolumes(caConfigMaps) = ToSet(caConfigMaps)
          /\ cabundleVolumes(caConfigMaps)[caConfigMaps[i]] = Entry(CAVolume[i], caConfigMaps[i])
      BY <1>3, BundleVolumes
    <3>4. /\ Keyed(cabundleVolumeMounts(caConfigMaps))
          /\ DOMAIN cabundleVolumeMounts(caConfigMaps) = {CAVolume[j] : j \in 1..n}
          /\ cabundleVolumeMounts(caConfigMaps)[CAVolume[i]] = Entry(CAVolume[i], CADir[i])
      BY <1>3, BundleMounts
    <3>5. caConfigMaps[i] \in ToSet(caConfigMaps)
      BY <1>3, InToSet
    <3>6. {cabundleVolumes(caConfigMaps)[k] : k \in ToSet(caConfigMaps)} \subseteq ToSet(deploy'.volumes)
      BY <1>1, <3>2, <3>3, RekeyedSet
    <3>7. {cabundleVolumeMounts(caConfigMaps)[k] : k \in {CAVolume[j] : j \in 1..n}}
            \subseteq ToSet(deploy'.mounts)
      BY <1>1, <3>2, <3>4, RekeyedSet
    <3>8. Entry(CAVolume[i], caConfigMaps[i]) \in ToSet(deploy'.volumes)
      BY <3>3, <3>5, <3>6
    <3>9. Entry(CAVolume[i], CADir[i]) \in ToSet(deploy'.mounts)
      BY <3>4, <3>7
    <3> QED BY <3>8, <3>9
  <2>2. CASE Head(todo) # "caVolumes"
    <3>1. PICK volumes, mounts \in Seq(Entries) :
            /\ VolumesBy(volumes, mounts)
            /\ Head(todo) = "volumes" => volumes = input.volumes /\ mounts = <<>>
            /\ Head(todo) = "mounts" => volumes = <<>> /\ mounts = input.mounts
            /\ Head(todo) \notin {"volumes", "mounts"} =>
                 /\ NamedOnce(volumes) /\ NamesOf(volumes) \subseteq OperatorVolumes
                 /\ NamesOf(mounts) \subseteq NamesOf(volumes)
      BY <1>1, <2>2, VolumesSteps DEF VolumesStep
    <3>2. NamesOf(<<>>) = {}
      BY <3>1, OverlayNothing
    <3>3. NamesOf(volumes) \cap CANames = {} /\ NamesOf(mounts) \cap CANames = {}
      <4>1. OperatorVolumes \cap CANames = {}
        <5>1. {"certificates", "temp-vol", "audit-policy", "audit-log", "bound-sa-token",
               "gcp-credentials", "interceptor-certs", "keda-ocp-cabundle"} \cap CANames = {}
          BY CAAssumption
        <5> QED BY <5>1 DEF OperatorVolumes
      <4>2. \A m \in NamesOf(input.volumes) \cup NamesOf(input.mounts) : m \notin CANames
        BY DEF CAFree, IsCA
      <4>3. CASE Head(todo) = "volumes"
        BY <3>1, <3>2, <4>2, <4>3
      <4>4. CASE Head(todo) = "mounts"
        BY <3>1, <3>2, <4>2, <4>4
      <4>5. CASE Head(todo) \notin {"volumes", "mounts"}
        BY <3>1, <4>1, <4>5
      <4> QED BY <4>3, <4>4, <4>5
    <3>4. /\ Entry(CAVolume[i], CADir[i]) \in ToSet(deploy.mounts)
          /\ Entry(CAVolume[i], caConfigMaps[i]) \in ToSet(deploy.volumes)
      BY <2>2 DEF BundlesMounted
    <3>5. /\ Entry(CAVolume[i], CADir[i]).name = CAVolume[i]
          /\ Entry(CAVolume[i], caConfigMaps[i]).name = CAVolume[i]
      BY DEF Entry
    <3>6. CAVolume[i] \notin NamesOf(volumes) /\ CAVolume[i] \notin NamesOf(mounts)
      BY <1>4, <3>3
    <3>7. /\ Overlays(deploy.volumes, volumes, deploy'.volumes)
          /\ Overlays(deploy.mounts, mounts, deploy'.mounts)
      BY <3>1 DEF VolumesBy
    <3>8. Entry(CAVolume[i], CADir[i]) \in ToSet(deploy'.mounts)
      BY <3>4, <3>5, <3>6, <3>7 DEF Overlays
    <3>9. Entry(CAVolume[i], caConfigMaps[i]) \in ToSet(deploy'.volumes)
      BY <3>4, <3>5, <3>6, <3>7 DEF Overlays
    <3> QED BY <3>8, <3>9
  <2> QED BY <2>1, <2>2
<1> QED BY <1>2, <1>5 DEF BundlesMounted

LEMMA NextBundles ==
  ASSUME TypeInv, OrderInv, ArgsInv, BundlesInv, [Next]_vars
  PROVE  BundlesInv'
<1>1. CASE UNCHANGED vars
  <2>1. (Done("caArgs")' <=> Done("caArgs")) /\ (Done("caVolumes")' <=> Done("caVolumes"))
    BY <1>1, DoneOrStop
  <2>2. deploy' = deploy /\ input' = input /\ component' = component
    BY <1>1 DEF vars
  <2>3. caConfigMaps' = caConfigMaps
    BY <2>2 DEF caConfigMaps
  <2> QED BY <2>1, <2>2, <2>3 DEF BundlesInv, CAFree, BundleArgs, BundlesMounted
<1>2. CASE Rejects
  <2>1. ~Done("caArgs")' /\ ~Done("caVolumes")'
    BY <1>2, DoneOrStop
  <2> QED BY <2>1 DEF BundlesInv
<1>3. ASSUME Next, Proceeds PROVE BundlesInv'
  <2>1. CAFree' => CAFree
    BY <1>3 DEF Proceeds, Moves, CAFree
  <2>2. ASSUME CAFree, Done("caArgs")' PROVE BundleArgs'
    <3>1. Head(todo) = "caArgs" \/ BundleArgs
      BY <1>3, <2>2, DoneStep DEF BundlesInv
    <3> QED BY <1>3, <2>2, <3>1, NextBundleArgs
  <2>3. ASSUME CAFree, Done("caVolumes")' PROVE BundlesMounted'
    <3>1. Head(todo) = "caVolumes" \/ BundlesMounted
      BY <1>3, <2>3, DoneStep DEF BundlesInv
    <3> QED BY <1>3, <2>3, <3>1, NextBundlesMounted
  <2> QED BY <2>1, <2>2, <2>3 DEF BundlesInv
<1> QED BY <1>1, <1>2, <1>3, NextProceeds

\* For every list of CA ConfigMaps, on OpenShift or not, and in whatever order the new
\* volumes are appended: the operator is told to load CAs from a directory for each of
\* them, and each is mounted at its own directory.
THEOREM CABundlesAreMounted == Spec => []CADirsAreMounted
<1>1. Init => ArgsInv /\ BundlesInv
  BY InitArgs, InitNotDone DEF BundlesInv, CAFree
<1>2. TypeInv /\ OrderInv /\ ArgsInv /\ BundlesInv /\ [Next]_vars => ArgsInv' /\ BundlesInv'
  BY NextArgs, NextBundles
<1>3. TypeInv /\ BundlesInv => CADirsAreMounted
  <2> SUFFICES ASSUME TypeInv, BundlesInv, Rendered, CAFree
               PROVE  \A i \in DOMAIN caConfigMaps :
                         /\ Entry("--ca-dir=", CADir[i]) \in ToSet(deploy.args)
                         /\ \E v \in CANames :
                               /\ Entry(v, CADir[i]) \in ToSet(deploy.mounts)
                               /\ Entry(v, caConfigMaps[i]) \in ToSet(deploy.volumes)
    BY DEF CADirsAreMounted, CAFree
  <2>1. BundleArgs /\ BundlesMounted
    BY RenderedDone DEF BundlesInv
  <2>2. /\ caConfigMaps \in Seq(STRING) /\ Len(caConfigMaps) \in Nat
        /\ Len(caConfigMaps) <= Len(CAVolume) /\ DOMAIN caConfigMaps = 1..Len(caConfigMaps)
    BY CAMaps
  <2>3. \A i \in 1..Len(caConfigMaps) : CAVolume[i] \in CANames
    BY <2>2, Within, CAAssumption
  <2> QED BY <2>1, <2>2, <2>3 DEF BundleArgs, BundlesMounted
<1> QED BY <1>1, <1>2, <1>3, TypesAndOrder, PTL DEF Spec
=============================================================================
