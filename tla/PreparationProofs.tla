--------------------------- MODULE PreparationProofs ---------------------------
(***************************************************************************)
(* What the stages before the first host promise, proved: that the result  *)
(* is the inventory and nobody is asked in vain, that a configuration is   *)
(* executed as it is documented, that names become the projects they name, *)
(* that the filter keeps what its rules mean and that a server shows its   *)
(* own cards, disks and project; of lists of any length and pages of any   *)
(* size, and whatever changes meanwhile.                                   *)
(*                                                                         *)
(* Lists of any length need induction.  The library's induction theorems   *)
(* take the predicate as a parameter; NatInd and SeqInd take the set of    *)
(* those it holds of, and follow from the least counterexample (WFMin).    *)
(***************************************************************************)
EXTENDS Preparation, FiniteSetTheorems, SequenceTheorems, WellFoundedInduction, TLAPS

-----------------------------------------------------------------------------
(* Induction, and the lists that Only makes.                                  *)

\* Induction over the numbers, of a set in place of a predicate: the least
\* number that is not in T would follow one that is.
LEMMA NatInd ==
  ASSUME NEW T, 0 \in T, \A n \in Nat : n \in T => n + 1 \in T
  PROVE  \A n \in Nat : n \in T
<1> SUFFICES ASSUME \E n \in Nat : n \notin T PROVE FALSE
  OBVIOUS
<1> DEFINE U == Nat \ T
<1>1. U \subseteq Nat /\ U # {}
  OBVIOUS
<1>2. PICK x \in U : \A y \in U : ~(<<y, x>> \in OpToRel(<, Nat))
  BY <1>1, NatLessThanWellFounded, WFMin
<1>3. \A y \in U : ~(y < x)
  BY <1>1, <1>2 DEF OpToRel
<1>4. x # 0
  OBVIOUS
<1>5. x - 1 \in Nat /\ x - 1 < x /\ (x - 1) + 1 = x
  BY <1>4
<1> QED BY <1>3, <1>5

\* Induction over lists that grow at their end.
LEMMA SeqInd ==
  ASSUME NEW X, NEW T, << >> \in T,
         \A q \in Seq(X), x \in X : q \in T => Append(q, x) \in T
  PROVE  \A q \in Seq(X) : q \in T
<1> DEFINE L == {n \in Nat : \A q \in Seq(X) : Len(q) = n => q \in T}
<1>1. 0 \in L
  BY EmptySeq
<1>2. ASSUME NEW n \in Nat, n \in L PROVE n + 1 \in L
  <2> SUFFICES ASSUME NEW q \in Seq(X), Len(q) = n + 1 PROVE q \in T
    OBVIOUS
  <2> DEFINE p == SubSeq(q, 1, n)
  <2>1. p \in Seq(X) /\ Len(p) = n /\ q[n + 1] \in X
    BY SubSeqProperties, LenProperties, ElementOfSeq
  <2>2. q = Append(p, q[n + 1])
    BY <2>1, SubSeqProperties, AppendProperties, LenProperties, SeqEqual
  <2> QED BY <1>2, <2>1, <2>2
<1> HIDE DEF L
<1>3. \A n \in Nat : n \in L
  BY <1>1, <1>2, NatInd
<1> QED BY <1>3, LenProperties DEF L

\* The function Only is made of.
IsUpto(f, q, S, m) ==
  f = [n \in 0..m |-> IF n = 0 THEN << >>
                      ELSE IF q[n] \in S THEN Append(f[n - 1], q[n]) ELSE f[n - 1]]

\* Its value at a step, from the one before.
LEMMA UptoStep ==
  ASSUME NEW f, NEW q, NEW S, NEW m \in Nat, IsUpto(f, q, S, m), NEW n \in Nat, n < m
  PROVE  f[n + 1] = IF q[n + 1] \in S THEN Append(f[n], q[n + 1]) ELSE f[n]
<1>1. n + 1 \in 0..m /\ n + 1 # 0 /\ (n + 1) - 1 = n
  OBVIOUS
<1>2. \A i \in 0..m : f[i] = IF i = 0 THEN << >>
                      ELSE IF q[i] \in S THEN Append(f[i - 1], q[i]) ELSE f[i - 1]
  BY DEF IsUpto
<1> QED BY <1>1, <1>2

\* It exists, for as many elements as the list has.
LEMMA UptoExists ==
  ASSUME NEW X, NEW q \in Seq(X), NEW S
  PROVE  \E f : IsUpto(f, q, S, Len(q))
<1> DEFINE T == {m \in Nat : \E f : IsUpto(f, q, S, m)}
<1>1. 0 \in T
  <2>1. IsUpto([n \in 0..0 |-> << >>], q, S, 0)
    BY DEF IsUpto
  <2> QED BY <2>1
<1>2. ASSUME NEW m \in Nat, m \in T PROVE m + 1 \in T
  <2>1. PICK f : IsUpto(f, q, S, m)
    BY <1>2
  <2> DEFINE last == IF q[m + 1] \in S THEN Append(f[m], q[m + 1]) ELSE f[m]
             g == [n \in 0..(m + 1) |-> IF n = m + 1 THEN last ELSE f[n]]
  <2>2. \A n \in 0..m : f[n] = IF n = 0 THEN << >>
                      ELSE IF q[n] \in S THEN Append(f[n - 1], q[n]) ELSE f[n - 1]
    BY <2>1 DEF IsUpto
  <2>3. \A n \in 0..(m + 1) : g[n] = IF n = 0 THEN << >>
                      ELSE IF q[n] \in S THEN Append(g[n - 1], q[n]) ELSE g[n - 1]
    BY <2>2
  <2>4. IsUpto(g, q, S, m + 1)
    BY <2>3 DEF IsUpto
  <2> QED BY <2>4
<1> HIDE DEF T
<1>3. \A n \in Nat : n \in T
  BY <1>1, <1>2, NatInd
<1> QED BY <1>3, LenProperties DEF T

\* Only is its last value.
LEMMA OnlyIsUpto ==
  ASSUME NEW X, NEW q \in Seq(X), NEW S
  PROVE  \E f : IsUpto(f, q, S, Len(q)) /\ Only(q, S) = f[Len(q)]
<1> DEFINE u == CHOOSE f : IsUpto(f, q, S, Len(q))
<1>1. IsUpto(u, q, S, Len(q))
  BY UptoExists
<1>2. Only(q, S) = u[Len(q)]
  BY DEF Only, IsUpto
<1> QED BY <1>1, <1>2

\* Nothing passes of the empty list.
LEMMA OnlyEmpty == ASSUME NEW S PROVE Only(<< >>, S) = << >>
<1>1. << >> \in Seq({}) /\ Len(<< >>) = 0
  BY EmptySeq
<1>2. PICK f : IsUpto(f, << >>, S, 0) /\ Only(<< >>, S) = f[0]
  BY <1>1, OnlyIsUpto
<1> QED BY <1>2 DEF IsUpto

\* An element more: it is added if it passes.
LEMMA OnlyAppend ==
  ASSUME NEW X, NEW q \in Seq(X), NEW x \in X, NEW S
  PROVE  Only(Append(q, x), S) = IF x \in S THEN Append(Only(q, S), x) ELSE Only(q, S)
<1> DEFINE r == Append(q, x)
           k == Len(q)
<1>1. /\ r \in Seq(X) /\ Len(r) = k + 1 /\ k \in Nat /\ r[k + 1] = x
      /\ \A i \in 1..k : r[i] = q[i]
  BY AppendProperties, LenProperties
<1>2. PICK f : IsUpto(f, q, S, k) /\ Only(q, S) = f[k]
  BY OnlyIsUpto
<1>3. PICK g : IsUpto(g, r, S, k + 1) /\ Only(r, S) = g[k + 1]
  BY <1>1, OnlyIsUpto
<1> HIDE DEF r, k
<1> DEFINE T == {n \in Nat : n <= k => g[n] = f[n]}
<1>4. 0 \in T
  BY <1>1, <1>2, <1>3 DEF IsUpto
<1>5. ASSUME NEW n \in Nat, n \in T PROVE n + 1 \in T
  <2> SUFFICES ASSUME n + 1 <= k PROVE g[n + 1] = f[n + 1]
    OBVIOUS
  <2>1. f[n + 1] = IF q[n + 1] \in S THEN Append(f[n], q[n + 1]) ELSE f[n]
    BY <1>1, <1>2, UptoStep
  <2>2. g[n + 1] = IF r[n + 1] \in S THEN Append(g[n], r[n + 1]) ELSE g[n]
    BY <1>1, <1>3, UptoStep
  <2> QED BY <1>1, <1>5, <2>1, <2>2
<1> HIDE DEF T
<1>6. k \in T
  BY <1>1, <1>4, <1>5, NatInd
<1>7. g[k] = f[k]
  BY <1>1, <1>6 DEF T
<1>8. g[k + 1] = IF r[k + 1] \in S THEN Append(g[k], r[k + 1]) ELSE g[k]
  BY <1>1, <1>3, UptoStep
<1> QED BY <1>1, <1>2, <1>3, <1>7, <1>8 DEF r

\* What is listed after one more.
LEMMA InListAppend ==
  ASSUME NEW X, NEW q \in Seq(X), NEW x
  PROVE  InList(Append(q, x)) = InList(q) \cup {x}
<1>1. /\ Len(q) \in Nat /\ DOMAIN q = 1..Len(q) /\ DOMAIN Append(q, x) = 1..(Len(q) + 1)
      /\ \A i \in 1..Len(q) : Append(q, x)[i] = q[i]
      /\ Append(q, x)[Len(q) + 1] = x
  BY LenProperties, AppendProperties
<1>2. \A i \in 1..(Len(q) + 1) : i \in 1..Len(q) \/ i = Len(q) + 1
  BY <1>1
<1>3. Len(q) + 1 \in 1..(Len(q) + 1) /\ \A i \in 1..Len(q) : i \in 1..(Len(q) + 1)
  BY <1>1
<1> QED BY <1>1, <1>2, <1>3 DEF InList

\* What passes is the part of the list that is in the set.
LEMMA OnlyElements ==
  ASSUME NEW X, NEW S
  PROVE  \A q \in Seq(X) : Only(q, S) \in Seq(X) /\ InList(Only(q, S)) = InList(q) \cap S
<1> DEFINE T == {q \in Seq(X) : Only(q, S) \in Seq(X) /\ InList(Only(q, S)) = InList(q) \cap S}
<1>1. << >> \in T
  <2>1. InList(<< >>) = {}
    BY DEF InList
  <2> QED BY <2>1, OnlyEmpty, EmptySeq
<1>2. ASSUME NEW q \in Seq(X), NEW x \in X, q \in T PROVE Append(q, x) \in T
  <2>1. /\ Append(q, x) \in Seq(X) /\ InList(Append(q, x)) = InList(q) \cup {x}
        /\ Only(q, S) \in Seq(X) /\ InList(Only(q, S)) = InList(q) \cap S
    BY <1>2, AppendProperties, InListAppend
  <2>2. CASE x \in S
    <3>1. Only(Append(q, x), S) = Append(Only(q, S), x)
      BY <2>2, OnlyAppend
    <3>2. Append(Only(q, S), x) \in Seq(X) /\ InList(Append(Only(q, S), x)) = InList(Only(q, S)) \cup {x}
      BY <2>1, AppendProperties, InListAppend
    <3> QED BY <2>1, <2>2, <3>1, <3>2
  <2>3. CASE x \notin S
    <3>1. Only(Append(q, x), S) = Only(q, S)
      BY <2>3, OnlyAppend
    <3> QED BY <2>1, <2>3, <3>1
  <2> QED BY <2>2, <2>3
<1> HIDE DEF T
<1>3. \A q \in Seq(X) : q \in T
  BY <1>1, <1>2, SeqInd
<1> QED BY <1>3 DEF T

\* One more at the end of two lists.
LEMMA ConcatAppend ==
  ASSUME NEW X, NEW q \in Seq(X), NEW r \in Seq(X), NEW x \in X
  PROVE  q \o Append(r, x) = Append(q \o r, x)
BY AppendIsConcat, ConcatAssociative, ConcatProperties, AppendProperties

\* A list in two parts is filtered part by part.
LEMMA OnlyConcat ==
  ASSUME NEW X, NEW S, NEW q \in Seq(X)
  PROVE  \A r \in Seq(X) : Only(q \o r, S) = Only(q, S) \o Only(r, S)
<1> DEFINE T == {r \in Seq(X) : Only(q \o r, S) = Only(q, S) \o Only(r, S)}
<1>0. Only(q, S) \in Seq(X)
  BY OnlyElements
<1>1. << >> \in T
  BY <1>0, OnlyEmpty, EmptySeq, ConcatEmptySeq
<1>2. ASSUME NEW r \in Seq(X), NEW x \in X, r \in T PROVE Append(r, x) \in T
  <2>1. q \o r \in Seq(X) /\ Only(r, S) \in Seq(X) /\ Append(r, x) \in Seq(X)
    BY ConcatProperties, OnlyElements, AppendProperties
  <2>2. q \o Append(r, x) = Append(q \o r, x)
    BY ConcatAppend
  <2>3. CASE x \in S
    <3>1. Only(q \o Append(r, x), S) = Append(Only(q \o r, S), x)
      BY <2>1, <2>2, <2>3, OnlyAppend
    <3>2. Only(Append(r, x), S) = Append(Only(r, S), x)
      BY <2>3, OnlyAppend
    <3>3. Only(q, S) \o Append(Only(r, S), x) = Append(Only(q, S) \o Only(r, S), x)
      BY <1>0, <2>1, ConcatAppend
    <3> QED BY <1>2, <2>1, <3>1, <3>2, <3>3
  <2>4. CASE x \notin S
    <3>1. Only(q \o Append(r, x), S) = Only(q \o r, S)
      BY <2>1, <2>2, <2>4, OnlyAppend
    <3>2. Only(Append(r, x), S) = Only(r, S)
      BY <2>4, OnlyAppend
    <3> QED BY <1>2, <2>1, <3>1, <3>2
  <2> QED BY <2>3, <2>4
<1> HIDE DEF T
<1>3. \A r \in Seq(X) : r \in T
  BY <1>1, <1>2, SeqInd
<1> QED BY <1>3 DEF T

\* Two filters in a row are one.
LEMMA OnlyTwice ==
  ASSUME NEW X, NEW S, NEW R
  PROVE  \A q \in Seq(X) : Only(Only(q, S), R) = Only(q, S \cap R)
<1> DEFINE T == {q \in Seq(X) : Only(Only(q, S), R) = Only(q, S \cap R)}
<1>1. << >> \in T
  BY OnlyEmpty, EmptySeq
<1>2. ASSUME NEW q \in Seq(X), NEW x \in X, q \in T PROVE Append(q, x) \in T
  <2>1. Append(q, x) \in Seq(X) /\ Only(q, S) \in Seq(X)
    BY AppendProperties, OnlyElements
  <2>2. CASE x \notin S
    <3>1. Only(Append(q, x), S) = Only(q, S)
      BY <2>2, OnlyAppend
    <3>2. Only(Append(q, x), S \cap R) = Only(q, S \cap R)
      <4>1. x \notin S \cap R
        BY <2>2
      <4> QED BY <4>1, OnlyAppend
    <3> QED BY <1>2, <2>1, <3>1, <3>2
  <2>3. CASE x \in S \ R
    <3>1. Only(Append(q, x), S) = Append(Only(q, S), x)
      BY <2>3, OnlyAppend
    <3>2. Only(Append(q, x), S \cap R) = Only(q, S \cap R)
      <4>1. x \notin S \cap R
        BY <2>3
      <4> QED BY <4>1, OnlyAppend
    <3>3. Only(Append(Only(q, S), x), R) = Only(Only(q, S), R)
      BY <2>1, <2>3, OnlyAppend
    <3> QED BY <1>2, <2>1, <3>1, <3>2, <3>3
  <2>4. CASE x \in S \cap R
    <3>1. Only(Append(q, x), S) = Append(Only(q, S), x)
      BY <2>4, OnlyAppend
    <3>2. Only(Append(q, x), S \cap R) = Append(Only(q, S \cap R), x)
      BY <2>4, OnlyAppend
    <3>3. Only(Append(Only(q, S), x), R) = Append(Only(Only(q, S), R), x)
      BY <2>1, <2>4, OnlyAppend
    <3> QED BY <1>2, <2>1, <3>1, <3>2, <3>3
  <2> QED BY <2>2, <2>3, <2>4
<1> HIDE DEF T
<1>3. \A q \in Seq(X) : q \in T
  BY <1>1, <1>2, SeqInd
<1> QED BY <1>3 DEF T

\* Nothing is twice after one more, if that one is new.
LEMMA DistinctAppend ==
  ASSUME NEW X, NEW q \in Seq(X), NEW x
  PROVE  Distinct(Append(q, x)) <=> Distinct(q) /\ x \notin InList(q)
<1>1. /\ Len(q) \in Nat /\ DOMAIN q = 1..Len(q) /\ DOMAIN Append(q, x) = 1..(Len(q) + 1)
      /\ \A i \in 1..Len(q) : Append(q, x)[i] = q[i]
      /\ Append(q, x)[Len(q) + 1] = x
  BY LenProperties, AppendProperties
<1>2. \A i \in 1..(Len(q) + 1) : i \in 1..Len(q) \/ i = Len(q) + 1
  BY <1>1
<1>3. Len(q) + 1 \in 1..(Len(q) + 1) /\ \A i \in 1..Len(q) : i \in 1..(Len(q) + 1) /\ i # Len(q) + 1
  BY <1>1
<1> QED BY <1>1, <1>2, <1>3 DEF InList, Distinct

\* Of a list without repetitions, what passes has none and is counted by its set.
LEMMA OnlyDistinct ==
  ASSUME NEW X, NEW S
  PROVE  \A q \in Seq(X) : Distinct(q) => /\ Distinct(Only(q, S))
                                          /\ IsFiniteSet(InList(q) \cap S)
                                          /\ Len(Only(q, S)) = Cardinality(InList(q) \cap S)
<1> DEFINE Good(q) == /\ Distinct(Only(q, S))
                      /\ IsFiniteSet(InList(q) \cap S)
                      /\ Len(Only(q, S)) = Cardinality(InList(q) \cap S)
           T == {q \in Seq(X) : Distinct(q) => Good(q)}
<1>1. << >> \in T
  <2>1. InList(<< >>) = {} /\ Distinct(<< >>)
    BY DEF InList, Distinct
  <2> QED BY <2>1, OnlyEmpty, EmptySeq, FS_EmptySet
<1>2. ASSUME NEW q \in Seq(X), NEW x \in X, q \in T PROVE Append(q, x) \in T
  <2> SUFFICES ASSUME Distinct(Append(q, x)) PROVE Good(Append(q, x))
    BY AppendProperties
  <2>1. Distinct(q) /\ x \notin InList(q) /\ InList(Append(q, x)) = InList(q) \cup {x}
    BY DistinctAppend, InListAppend
  <2>2. Good(q) /\ Only(q, S) \in Seq(X) /\ InList(Only(q, S)) = InList(q) \cap S
    BY <1>2, <2>1, OnlyElements
  <2>3. CASE x \in S
    <3>1. Only(Append(q, x), S) = Append(Only(q, S), x)
      BY <2>3, OnlyAppend
    <3>2. Distinct(Append(Only(q, S), x))
      BY <2>1, <2>2, DistinctAppend
    <3>3. Len(Append(Only(q, S), x)) = Len(Only(q, S)) + 1
      BY <2>2, AppendProperties
    <3>4. InList(Append(q, x)) \cap S = (InList(q) \cap S) \cup {x} /\ x \notin InList(q) \cap S
      BY <2>1, <2>3
    <3>5. /\ IsFiniteSet((InList(q) \cap S) \cup {x})
          /\ Cardinality((InList(q) \cap S) \cup {x}) = Cardinality(InList(q) \cap S) + 1
      BY <2>2, <3>4, FS_AddElement
    <3> QED BY <2>2, <3>1, <3>2, <3>3, <3>4, <3>5
  <2>4. CASE x \notin S
    <3>1. Only(Append(q, x), S) = Only(q, S)
      BY <2>4, OnlyAppend
    <3>2. InList(Append(q, x)) \cap S = InList(q) \cap S
      BY <2>1, <2>4
    <3> QED BY <2>2, <3>1, <3>2
  <2> QED BY <2>3, <2>4
<1> HIDE DEF T
<1>3. \A q \in Seq(X) : q \in T
  BY <1>1, <1>2, SeqInd
<1> QED BY <1>3 DEF T

\* Two that pass are at two places.
LEMMA OnlyMany ==
  ASSUME NEW X, NEW S
  PROVE  \A q \in Seq(X) : Len(Only(q, S)) > 1 =>
           \E i, j \in DOMAIN q : i # j /\ q[i] \in S /\ q[j] \in S
<1> DEFINE Some(q) == Len(Only(q, S)) > 0 => \E i \in DOMAIN q : q[i] \in S
           Many(q) == Len(Only(q, S)) > 1 => \E i, j \in DOMAIN q : i # j /\ q[i] \in S /\ q[j] \in S
           T == {q \in Seq(X) : Some(q) /\ Many(q)}
<1>1. << >> \in T
  BY OnlyEmpty, EmptySeq
<1>2. ASSUME NEW q \in Seq(X), NEW x \in X, q \in T PROVE Append(q, x) \in T
  <2>1. /\ Append(q, x) \in Seq(X) /\ Only(q, S) \in Seq(X) /\ Len(Only(q, S)) \in Nat
        /\ Len(q) \in Nat /\ DOMAIN q = 1..Len(q) /\ DOMAIN Append(q, x) = 1..(Len(q) + 1)
        /\ \A i \in 1..Len(q) : Append(q, x)[i] = q[i]
        /\ Append(q, x)[Len(q) + 1] = x
    BY AppendProperties, OnlyElements, LenProperties
  <2>2. \A i \in 1..Len(q) : i \in 1..(Len(q) + 1) /\ i # Len(q) + 1
    BY <2>1
  <2>3. Len(q) + 1 \in 1..(Len(q) + 1)
    BY <2>1
  <2>4. CASE x \notin S
    <3>1. Only(Append(q, x), S) = Only(q, S)
      BY <2>4, OnlyAppend
    <3> QED BY <1>2, <2>1, <2>2, <3>1
  <2>5. CASE x \in S
    <3>1. Only(Append(q, x), S) = Append(Only(q, S), x)
      BY <2>5, OnlyAppend
    <3>2. Len(Append(Only(q, S), x)) = Len(Only(q, S)) + 1
      BY <2>1, AppendProperties
    <3>3. Some(Append(q, x))
      BY <2>1, <2>3, <2>5
    <3>4. ASSUME Len(Only(q, S)) > 0
          PROVE  \E i, j \in DOMAIN Append(q, x) :
                   i # j /\ Append(q, x)[i] \in S /\ Append(q, x)[j] \in S
      <4>1. PICK i \in DOMAIN q : q[i] \in S
        BY <1>2, <3>4
      <4> QED BY <2>1, <2>2, <2>3, <2>5, <4>1
    <3>5. Len(Only(Append(q, x), S)) > 1 => Len(Only(q, S)) > 0
      BY <2>1, <3>1, <3>2
    <3> QED BY <2>1, <3>3, <3>4, <3>5
  <2> QED BY <2>4, <2>5
<1> HIDE DEF T
<1>3. \A q \in Seq(X) : q \in T
  BY <1>1, <1>2, SeqInd
<1> QED BY <1>3 DEF T

\* What is merged.
IsMerge(f, q, r, m) ==
  f = [n \in 0..m |-> IF n = 0 THEN q
                      ELSE IF r[n] \in InList(f[n - 1]) THEN f[n - 1] ELSE Append(f[n - 1], r[n])]

\* There is such a function.
LEMMA MergeExists ==
  ASSUME NEW q, NEW r, NEW l \in Nat
  PROVE  \E f : IsMerge(f, q, r, l)
<1> DEFINE T == {m \in Nat : \E f : IsMerge(f, q, r, m)}
<1>1. 0 \in T
  <2>1. IsMerge([n \in 0..0 |-> q], q, r, 0)
    BY DEF IsMerge
  <2> QED BY <2>1
<1>2. ASSUME NEW m \in Nat, m \in T PROVE m + 1 \in T
  <2>1. PICK f : IsMerge(f, q, r, m)
    BY <1>2
  <2> DEFINE last == IF r[m + 1] \in InList(f[m]) THEN f[m] ELSE Append(f[m], r[m + 1])
             g    == [n \in 0..(m + 1) |-> IF n = m + 1 THEN last ELSE f[n]]
  <2>2. ASSUME NEW n \in 0..(m + 1)
        PROVE  g[n] = IF n = 0 THEN q
                      ELSE IF r[n] \in InList(g[n - 1]) THEN g[n - 1] ELSE Append(g[n - 1], r[n])
    <3>1. CASE n = m + 1
      <4>1. n # 0 /\ n - 1 = m /\ m \in 0..(m + 1) /\ m # m + 1
        BY <3>1
      <4>2. g[n] = last /\ g[n - 1] = f[m]
        BY <3>1, <4>1
      <4> QED BY <3>1, <4>1, <4>2
    <3>2. CASE n # m + 1
      <4>1. n \in 0..m /\ (n # 0 => n - 1 \in 0..m /\ n - 1 # m + 1 /\ n - 1 \in 0..(m + 1))
        BY <3>2
      <4>2. f[n] = IF n = 0 THEN q
                   ELSE IF r[n] \in InList(f[n - 1]) THEN f[n - 1] ELSE Append(f[n - 1], r[n])
        BY <2>1, <4>1 DEF IsMerge
      <4>3. g[n] = f[n] /\ (n # 0 => g[n - 1] = f[n - 1])
        BY <3>2, <4>1
      <4> QED BY <4>2, <4>3
    <3> QED BY <3>1, <3>2
  <2>3. IsMerge(g, q, r, m + 1)
    <3>1. g = [n \in 0..(m + 1) |-> g[n]]
      OBVIOUS
    <3> HIDE DEF g
    <3> QED BY <2>2, <3>1 DEF IsMerge
  <2> QED BY <2>3
<1> HIDE DEF T
<1>3. \A m \in Nat : m \in T
  BY <1>1, <1>2, NatInd
<1> QED BY <1>3 DEF T

\* A merged list holds what both hold, and repeats nothing if the first does not.
LEMMA MergedFacts ==
  ASSUME NEW X, NEW q \in Seq(X), NEW r \in Seq(X)
  PROVE  /\ Merged(q, r) \in Seq(X)
         /\ InList(Merged(q, r)) = InList(q) \cup InList(r)
         /\ Distinct(q) => Distinct(Merged(q, r))
<1> DEFINE u == CHOOSE f : IsMerge(f, q, r, Len(r))
           Part(n) == {r[i] : i \in 1..n}
<1>0. Len(r) \in Nat /\ DOMAIN r = 1..Len(r) /\ \A i \in 1..Len(r) : r[i] \in X
  BY LenProperties, ElementOfSeq
<1>1. IsMerge(u, q, r, Len(r))
  BY <1>0, MergeExists
<1>2. Merged(q, r) = u[Len(r)]
  BY DEF Merged, IsMerge
<1> HIDE DEF u
<1> DEFINE Good(n) == /\ u[n] \in Seq(X) /\ InList(u[n]) = InList(q) \cup Part(n)
                      /\ Distinct(q) => Distinct(u[n])
           T == {n \in Nat : n <= Len(r) => Good(n)}
<1>3. 0 \in T
  <2>1. u[0] = q
    BY <1>0, <1>1 DEF IsMerge
  <2> QED BY <2>1
<1>4. ASSUME NEW n \in Nat, n \in T PROVE n + 1 \in T
  <2> SUFFICES ASSUME n + 1 <= Len(r) PROVE Good(n + 1)
    OBVIOUS
  <2>1. Good(n)
    BY <1>0, <1>4
  <2>2. n + 1 \in 0..Len(r) /\ n + 1 \in 1..Len(r) /\ n + 1 # 0 /\ (n + 1) - 1 = n
    BY <1>0
  <2>3. u[n + 1] = IF r[n + 1] \in InList(u[n]) THEN u[n] ELSE Append(u[n], r[n + 1])
    BY <1>1, <2>2 DEF IsMerge
  <2>4. Part(n + 1) = Part(n) \cup {r[n + 1]}
    <3>1. 1..(n + 1) = 1..n \cup {n + 1}
      OBVIOUS
    <3> QED BY <3>1
  <2>5. r[n + 1] \in X
    BY <1>0, <2>2
  <2> HIDE DEF Part
  <2>6. CASE r[n + 1] \in InList(u[n])
    BY <2>1, <2>3, <2>4, <2>6
  <2>7. CASE r[n + 1] \notin InList(u[n])
    <3>1. Append(u[n], r[n + 1]) \in Seq(X)
      BY <2>1, <2>5, AppendProperties
    <3>2. InList(Append(u[n], r[n + 1])) = InList(u[n]) \cup {r[n + 1]}
      BY <2>1, InListAppend
    <3>3. Distinct(u[n]) => Distinct(Append(u[n], r[n + 1]))
      BY <2>1, <2>7, DistinctAppend
    <3> QED BY <2>1, <2>3, <2>4, <2>7, <3>1, <3>2, <3>3
  <2> QED BY <2>6, <2>7
<1> HIDE DEF T
<1>5. Len(r) \in T
  BY <1>0, <1>3, <1>4, NatInd
<1>6. Good(Len(r))
  BY <1>0, <1>5 DEF T
<1>7. Part(Len(r)) = InList(r)
  BY <1>0 DEF InList
<1> QED BY <1>2, <1>6, <1>7

-----------------------------------------------------------------------------
(* Collect: the inductive invariant.  RequestsTyped is what holds of every    *)
(* run; the rest is about a calm one.                                         *)

Added == {"enis", "disks", "names", "ok"}

\* Outside the pools nobody has an index in hand, and only what is kept is handed
\* to them.
PoolsAreClosed ==
  /\ at \notin Fetching => unsent = {} /\ \A w \in Workers : holds[w] = 0
  /\ InList(vms) \subseteq chosen
  /\ at \in Fetching => InList(vms) \subseteq kept
  /\ at = "details" => kind = "bms"

\* What the kinds before this one have given.
Before == IF turn = 1 THEN << >> ELSE Wanted(Kinds[1])

Whole == IF Len(Kinds) = 2 THEN Wanted("ecs") \o Wanted("bms") ELSE Wanted(Kinds[1])

\* The pages so far, and what of them is of a chosen project.
Seen == SubSeq(Inventory[kind], 1, (page - 1) * PageSize)

\* In calm the list read so far is a beginning of the inventory.
ListIsInventory ==
  /\ inventory = Inventory
  /\ at = "list" => /\ (page - 1) * PageSize <= Len(Inventory[kind])
                    /\ vms = Only(Seen, chosen)
  /\ at \in Fetching => vms = Wanted(kind)
  /\ at \in Fetching \cup {"list"} => result = Before
  /\ at \in Added => result = Whole

\* The chosen servers of a kind that the filter removes.
Lost(k) == InList(Inventory[k]) \cap (chosen \ kept)

LostBefore == IF turn = 1 THEN 0 ELSE Cardinality(Lost(Kinds[1]))

DroppedSoFar ==
  /\ at = "list" => dropped = LostBefore
  /\ at \in Fetching \cup Added => dropped = LostBefore + Cardinality(Lost(kind))
  /\ at \in Added => turn = Len(Kinds)

\* In calm, who has been asked: those of the result, and those of this kind that
\* are sent.
Asked(what, s, n) == asked[what][s] = n

ResultIsAsked ==
  \A s \in InList(result) : /\ Asked("passwords", s, 1)
                            /\ Asked("details", s, IF s \in BMS THEN 1 ELSE 0)

OthersAreNot ==
  at \in Fetching \cup {"list"} =>
    \A s \in Servers \ (InList(result) \cup (IF at = "list" THEN {} ELSE InList(vms))) :
      \A what \in Fetching : Asked(what, s, 0)

SentAreAsked ==
  /\ at = "passwords" => \A i \in DOMAIN vms : /\ Asked("passwords", vms[i], IF i \in unsent THEN 0 ELSE 1)
                                               /\ Asked("details", vms[i], 0)
  /\ at = "details"   => \A i \in DOMAIN vms : /\ Asked("passwords", vms[i], 1)
                                               /\ Asked("details", vms[i], IF i \in unsent THEN 0 ELSE 1)

RequestsTyped == CollectTypeOK /\ PoolsAreClosed /\ OnlyKeptAreAsked

CalmInv == ListIsInventory /\ DroppedSoFar /\ ResultIsAsked /\ OthersAreNot /\ SentAreAsked

CollectIInv == RequestsTyped /\ (Calm => CalmInv)

-----------------------------------------------------------------------------
(* Collect: the constants, the pages and the lists.                           *)

\* The kinds, and the list of each.
LEMMA InventoryFacts ==
  /\ Len(Kinds) \in {1, 2} /\ DOMAIN Kinds = 1..Len(Kinds)
  /\ \A n \in DOMAIN Kinds : Kinds[n] \in {"ecs", "bms"}
  /\ Len(Kinds) = 2 => Kinds[1] = "ecs" /\ Kinds[2] = "bms"
  /\ \A k \in {"ecs", "bms"} : Inventory[k] \in Seq(Servers) /\ Distinct(Inventory[k])
  /\ InList(Inventory["ecs"]) \subseteq ECS /\ InList(Inventory["bms"]) \subseteq BMS
  /\ IsFiniteSet(Servers) /\ ECS \cap BMS = {}
<1>4. /\ Len(Kinds) \in {1, 2} /\ DOMAIN Kinds = 1..Len(Kinds)
      /\ \A n \in DOMAIN Kinds : Kinds[n] \in {"ecs", "bms"}
      /\ Len(Kinds) = 2 => Kinds[1] = "ecs" /\ Kinds[2] = "bms"
  <2>1. CASE Kinds = <<"ecs">>
    BY <2>1
  <2>2. CASE Kinds = <<"bms">>
    BY <2>2
  <2>3. CASE Kinds = <<"ecs", "bms">>
    BY <2>3
  <2> QED BY <2>1, <2>2, <2>3, CollectAssumption
<1>5. Inventory["ecs"] \in Seq(ECS) /\ Inventory["bms"] \in Seq(BMS)
  BY CollectAssumption
<1>6. Inventory["ecs"] \in Seq(Servers) /\ Inventory["bms"] \in Seq(Servers)
  BY <1>5, SeqMonotonic DEF Servers
<1>7. InList(Inventory["ecs"]) \subseteq ECS /\ InList(Inventory["bms"]) \subseteq BMS
  BY <1>5, ElementOfSeq, LenProperties DEF InList
<1>8. Distinct(Inventory["ecs"]) /\ Distinct(Inventory["bms"])
  BY CollectAssumption
<1> QED BY <1>4, <1>6, <1>7, <1>8, CollectAssumption

\* How many pages a list has: one that covers it.
LEMMA PagesCover ==
  ASSUME NEW n \in Nat, NEW p \in Nat \ {0}, NEW k \in Nat
  PROVE  k >= (n + p - 1) \div p <=> k * p >= n
OBVIOUS

\* The page before.
LEMMA PageBefore ==
  ASSUME NEW p \in Nat, NEW k \in Nat \ {0}
  PROVE  (k - 1) * p \in Nat /\ k * p \in Nat /\ k * p = (k - 1) * p + p
OBVIOUS

\* A page has room for somebody.
LEMMA SizeFacts == PageSize \in Nat \ {0}
BY CollectAssumption

\* A page is a part of the list.
LEMMA PageTyped ==
  ASSUME NEW X, NEW q \in Seq(X), NEW n \in Nat \ {0}, NEW size \in Nat \ {0}
  PROVE  PageOf(q, n, size) \in Seq(X)
<1>1. size \in Nat \ {0} /\ Len(q) \in Nat
  BY LenProperties
<1>2. (n - 1) * size \in Nat /\ n * size \in Nat
  BY <1>1, PageBefore
<1> DEFINE a == (n - 1) * size
           b == n * size
<1>3. a \in Nat /\ b \in Nat
  BY <1>2
<1> HIDE DEF a, b
<1>4. Smaller(b, Len(q)) \in Nat /\ Smaller(b, Len(q)) <= Len(q)
  BY <1>1, <1>3 DEF Smaller
<1>5. \A i \in (a + 1)..Smaller(b, Len(q)) : q[i] \in X
  BY <1>1, <1>3, <1>4, ElementOfSeq
<1>6. SubSeq(q, a + 1, Smaller(b, Len(q))) \in Seq(X)
  BY <1>3, <1>4, <1>5, SubSeqProperties
<1> QED BY <1>6 DEF PageOf, a, b

\* The number of elements in two lists put together, and what the filter takes.
LEMMA InListConcat ==
  ASSUME NEW X, NEW q \in Seq(X), NEW r \in Seq(X)
  PROVE  InList(q \o r) = InList(q) \cup InList(r)
<1>1. /\ Len(q) \in Nat /\ DOMAIN q = 1..Len(q) /\ Len(r) \in Nat /\ DOMAIN r = 1..Len(r)
      /\ DOMAIN (q \o r) = 1..(Len(q) + Len(r))
      /\ \A i \in 1..(Len(q) + Len(r)) : (q \o r)[i] = IF i <= Len(q) THEN q[i] ELSE r[i - Len(q)]
  BY LenProperties, ConcatProperties
<1>2. ASSUME NEW i \in 1..(Len(q) + Len(r))
      PROVE  (q \o r)[i] \in InList(q) \cup InList(r)
  <2>1. CASE i <= Len(q)
    BY <1>1, <2>1 DEF InList
  <2>2. CASE i > Len(q)
    <3>1. i - Len(q) \in 1..Len(r) /\ (q \o r)[i] = r[i - Len(q)]
      BY <1>1, <2>2
    <3> QED BY <1>1, <3>1 DEF InList
  <2> QED BY <1>1, <2>1, <2>2
<1>3. ASSUME NEW i \in 1..Len(q) PROVE q[i] \in InList(q \o r)
  <2>1. i \in 1..(Len(q) + Len(r)) /\ (q \o r)[i] = q[i]
    BY <1>1
  <2> QED BY <1>1, <2>1 DEF InList
<1>4. ASSUME NEW i \in 1..Len(r) PROVE r[i] \in InList(q \o r)
  <2>1. /\ i + Len(q) \in 1..(Len(q) + Len(r)) /\ ~(i + Len(q) <= Len(q))
        /\ (i + Len(q)) - Len(q) = i
    BY <1>1
  <2>2. (q \o r)[i + Len(q)] = r[i]
    BY <1>1, <2>1
  <2> QED BY <1>1, <2>1, <2>2 DEF InList
<1> QED BY <1>1, <1>2, <1>3, <1>4 DEF InList

\* What passes is not more than there was.
LEMMA OnlyShorter ==
  ASSUME NEW X, NEW S
  PROVE  \A q \in Seq(X) : Len(Only(q, S)) <= Len(q)
<1> DEFINE T == {q \in Seq(X) : Len(Only(q, S)) <= Len(q)}
<1>1. << >> \in T
  BY OnlyEmpty, EmptySeq
<1>2. ASSUME NEW q \in Seq(X), NEW x \in X, q \in T PROVE Append(q, x) \in T
  <2>1. /\ Append(q, x) \in Seq(X) /\ Len(Append(q, x)) = Len(q) + 1 /\ Only(q, S) \in Seq(X)
        /\ Len(q) \in Nat /\ Len(Only(q, S)) \in Nat
    BY AppendProperties, OnlyElements, LenProperties
  <2>2. CASE x \in S
    <3>1. Only(Append(q, x), S) = Append(Only(q, S), x)
      BY <2>2, OnlyAppend
    <3>2. Len(Append(Only(q, S), x)) = Len(Only(q, S)) + 1
      BY <2>1, AppendProperties
    <3> QED BY <1>2, <2>1, <3>1, <3>2
  <2>3. CASE x \notin S
    <3>1. Only(Append(q, x), S) = Only(q, S)
      BY <2>3, OnlyAppend
    <3> QED BY <1>2, <2>1, <3>1
  <2> QED BY <2>2, <2>3
<1> HIDE DEF T
<1>3. \A q \in Seq(X) : q \in T
  BY <1>1, <1>2, SeqInd
<1> QED BY <1>3 DEF T

\* What is wanted of a kind, in order and once each.
LEMMA WantedFacts ==
  ASSUME NEW k \in {"ecs", "bms"}
  PROVE  /\ Wanted(k) \in Seq(Servers) /\ Distinct(Wanted(k))
         /\ InList(Wanted(k)) = InList(Inventory[k]) \cap (chosen \cap kept)
BY InventoryFacts, OnlyElements, OnlyDistinct DEF Wanted

\* What the filter removes of a kind, counted.
LEMMA LostIsCounted ==
  ASSUME NEW k \in {"ecs", "bms"}
  PROVE  /\ IsFiniteSet(Lost(k)) /\ Cardinality(Lost(k)) \in Nat
         /\ Len(Only(Inventory[k], chosen)) - Len(Wanted(k)) = Cardinality(Lost(k))
<1> DEFINE C == InList(Inventory[k]) \cap chosen
           D == InList(Inventory[k]) \cap (chosen \cap kept)
<1>1. /\ IsFiniteSet(C) /\ Len(Only(Inventory[k], chosen)) = Cardinality(C)
      /\ IsFiniteSet(D) /\ Len(Wanted(k)) = Cardinality(D)
  BY InventoryFacts, OnlyDistinct DEF Wanted
<1>2. Lost(k) = C \ D /\ C \cap D = D
  BY DEF Lost
<1> HIDE DEF C, D
<1>3. IsFiniteSet(C \ D) /\ Cardinality(C \ D) = Cardinality(C) - Cardinality(C \cap D)
  BY <1>1, FS_Difference
<1>4. Cardinality(C \ D) \in Nat /\ Cardinality(C) \in Nat /\ Cardinality(D) \in Nat
  BY <1>1, <1>3, FS_CardinalityType
<1> QED BY <1>1, <1>2, <1>3, <1>4

-----------------------------------------------------------------------------
(* Collect: what holds of every run.                                          *)

\* What is gathered is of the chosen projects.
LEMMA GatheredTyped ==
  ASSUME RequestsTyped, NEW items \in Seq(Servers)
  PROVE  Gathered(items) \in Seq(Servers) /\ InList(Gathered(items)) \subseteq chosen
<1>1. vms \in Seq(Servers) /\ InList(vms) \subseteq chosen
  BY DEF RequestsTyped, CollectTypeOK, PoolsAreClosed
<1>2. Only(items, chosen) \in Seq(Servers) /\ InList(Only(items, chosen)) \subseteq chosen
  BY OnlyElements
<1> QED BY <1>1, <1>2, ConcatProperties, InListConcat DEF Gathered

\* An answer to a request for a page.
LEMMA ListedTyped ==
  ASSUME RequestsTyped, NEW items \in Seq(Servers), NEW total, Listed(items, total), soft' \in BOOLEAN
  PROVE  RequestsTyped'
<1> DEFINE all == Gathered(items)
<1>1. all \in Seq(Servers) /\ InList(all) \subseteq chosen
  BY GatheredTyped
<1>2. /\ at = "list" /\ unsent = {} /\ \A w \in Workers : holds[w] = 0
      /\ UNCHANGED <<config, inventory, changes, turn, result, holds, asked>>
  BY DEF Listed, RequestsTyped, PoolsAreClosed, Fetching, pool
<1> HIDE DEF all
<1>3. CASE Filter(all) /\ at' = "passwords" /\ UNCHANGED page
  <2>1. /\ vms' \in Seq(Servers) /\ InList(vms') \subseteq chosen \cap kept
        /\ vms' = Only(all, kept) /\ unsent' = DOMAIN vms'
    BY <1>1, <1>3, OnlyElements DEF Filter
  <2>2. Len(vms') <= Len(all) /\ Len(vms') \in Nat /\ Len(all) \in Nat
    BY <1>1, <2>1, OnlyShorter, LenProperties
  <2>3. dropped' \in Nat
    BY <1>3, <2>2 DEF Filter, RequestsTyped, CollectTypeOK
  <2>4. CollectTypeOK'
    BY <1>2, <1>3, <2>1, <2>3 DEF RequestsTyped, CollectTypeOK, config, Stages, Fetching
  <2>5. PoolsAreClosed'
    BY <1>2, <1>3, <2>1 DEF PoolsAreClosed, Fetching, config
  <2> QED BY <1>2, <2>4, <2>5 DEF RequestsTyped, OnlyKeptAreAsked, config
<1>4. CASE /\ vms' = all /\ page' = page + 1
            /\ UNCHANGED <<at, dropped, unsent>>
  <2>1. CollectTypeOK'
    BY <1>1, <1>2, <1>4 DEF RequestsTyped, CollectTypeOK, config
  <2>2. PoolsAreClosed'
    BY <1>1, <1>2, <1>4 DEF PoolsAreClosed, Fetching, config
  <2> QED BY <1>2, <2>1, <2>2 DEF RequestsTyped, OnlyKeptAreAsked, config
<1> QED BY <1>3, <1>4 DEF Listed, all, pool

\* The gateway changes its lists.
LEMMA GatewayTyped ==
  ASSUME RequestsTyped, Gateway
  PROVE  RequestsTyped'
<1>1. PICK s \in Servers : Appear(s) \/ Disappear(s)
  BY DEF Gateway
<1>2. inventory \in [ecs : Seq(ECS), bms : Seq(BMS)] /\ changes \in 0..MaxChanges
  BY DEF RequestsTyped, CollectTypeOK
<1>3. inventory.ecs \in Seq(ECS) /\ inventory.bms \in Seq(BMS)
  BY <1>2
<1>4. /\ changes < MaxChanges /\ changes' = changes + 1
      /\ UNCHANGED <<config, soft, at, list, pool>>
  BY <1>1 DEF Appear, Disappear
<1>5. changes' \in 0..MaxChanges
  BY <1>2, <1>4, CollectAssumption
<1>6. inventory' \in [ecs : Seq(ECS), bms : Seq(BMS)]
  <2>1. CASE Disappear(s)
    <3>1. inventory' = [ecs |-> Only(inventory.ecs, Servers \ {s}),
                        bms |-> Only(inventory.bms, Servers \ {s})]
      BY <2>1 DEF Disappear
    <3>2. Only(inventory.ecs, Servers \ {s}) \in Seq(ECS) /\ Only(inventory.bms, Servers \ {s}) \in Seq(BMS)
      BY <1>3, OnlyElements
    <3> QED BY <3>1, <3>2
  <2>2. CASE Appear(s) /\ s \in ECS
    <3>1. \E q \in {<<s>> \o inventory.ecs, Append(inventory.ecs, s)} :
            inventory' = [inventory EXCEPT !.ecs = q]
      BY <2>2 DEF Appear
    <3>2. <<s>> \in Seq(ECS)
      BY <2>2
    <3>3. <<s>> \o inventory.ecs \in Seq(ECS) /\ Append(inventory.ecs, s) \in Seq(ECS)
      BY <1>3, <2>2, <3>2, ConcatProperties, AppendProperties
    <3> QED BY <1>2, <3>1, <3>3
  <2>3. CASE Appear(s) /\ s \notin ECS
    <3>1. \E q \in {<<s>> \o inventory.bms, Append(inventory.bms, s)} :
            inventory' = [inventory EXCEPT !.bms = q]
      BY <2>3 DEF Appear
    <3>2. s \in BMS /\ <<s>> \in Seq(BMS)
      BY <2>3 DEF Servers
    <3>3. <<s>> \o inventory.bms \in Seq(BMS) /\ Append(inventory.bms, s) \in Seq(BMS)
      BY <1>3, <3>2, ConcatProperties, AppendProperties
    <3> QED BY <1>2, <3>1, <3>3
  <2> QED BY <1>1, <2>1, <2>2, <2>3
<1>7. CollectTypeOK'
  BY <1>4, <1>5, <1>6 DEF RequestsTyped, CollectTypeOK, config, list, pool
<1>8. PoolsAreClosed' /\ OnlyKeptAreAsked'
  BY <1>4 DEF RequestsTyped, PoolsAreClosed, OnlyKeptAreAsked, config, list, pool, kind
<1> QED BY <1>7, <1>8 DEF RequestsTyped

\* A worker asks.
LEMMA TakeTyped ==
  ASSUME RequestsTyped, NEW w \in Workers, NEW i \in DOMAIN vms, Take(w, i)
  PROVE  RequestsTyped'
<1>1. /\ at \in Fetching /\ UNCHANGED <<config, gateway, at, list>>
      /\ unsent' = unsent \ {i} /\ holds' = [holds EXCEPT ![w] = i]
      /\ asked' = [asked EXCEPT ![at][vms[i]] = @ + 1]
  BY DEF Take
<1>2. vms[i] \in Servers /\ vms[i] \in chosen \cap kept
  <2>1. vms[i] \in InList(vms)
    BY DEF InList
  <2> QED BY <1>1, <2>1 DEF RequestsTyped, CollectTypeOK, PoolsAreClosed
<1>3. asked' \in [Fetching -> [Servers -> Nat]]
  BY <1>1, <1>2 DEF RequestsTyped, CollectTypeOK
<1>4. CollectTypeOK'
  BY <1>1, <1>3 DEF RequestsTyped, CollectTypeOK, config, gateway, list
<1>5. PoolsAreClosed'
  BY <1>1 DEF RequestsTyped, PoolsAreClosed, config, list, kind, Fetching
<1>6. OnlyKeptAreAsked'
  <2> SUFFICES ASSUME NEW what \in Fetching, NEW s \in Servers, asked'[what][s] > 0
               PROVE  s \in chosen \cap kept
    BY <1>1 DEF OnlyKeptAreAsked, config
  <2>1. CASE what = at /\ s = vms[i]
    BY <1>2, <2>1
  <2>2. CASE ~(what = at /\ s = vms[i])
    <3>1. asked'[what][s] = asked[what][s]
      BY <1>1, <1>2, <2>2 DEF RequestsTyped, CollectTypeOK
    <3> QED BY <3>1 DEF RequestsTyped, OnlyKeptAreAsked
  <2> QED BY <2>1, <2>2
<1> QED BY <1>4, <1>5, <1>6 DEF RequestsTyped

\* Every step.
LEMMA RequestsTypedStep ==
  ASSUME RequestsTyped, [Next]_vars
  PROVE  RequestsTyped'
<1>1. CASE UNCHANGED vars
  <2>1. UNCHANGED <<config, gateway, at, list, pool>>
    BY <1>1 DEF vars
  <2>2. CollectTypeOK'
    BY <2>1 DEF RequestsTyped, CollectTypeOK, config, gateway, list, pool
  <2>3. PoolsAreClosed' /\ OnlyKeptAreAsked'
    BY <2>1 DEF RequestsTyped, PoolsAreClosed, OnlyKeptAreAsked, config, list, pool, kind
  <2> QED BY <2>2, <2>3 DEF RequestsTyped
<1>2. CASE Gateway
  BY <1>2, GatewayTyped
<1>3. CASE ListPage
  <2>1. inventory[kind] \in Seq(Servers)
    <3>1. kind = "ecs" \/ kind = "bms"
      BY InventoryFacts DEF kind, RequestsTyped, CollectTypeOK
    <3>2. inventory["ecs"] \in Seq(ECS) /\ inventory["bms"] \in Seq(BMS)
      BY DEF RequestsTyped, CollectTypeOK
    <3>3. inventory["ecs"] \in Seq(Servers) /\ inventory["bms"] \in Seq(Servers)
      BY <3>2, SeqMonotonic DEF Servers
    <3> QED BY <3>1, <3>3
  <2>2. PageOf(inventory[kind], page, PageSize) \in Seq(Servers)
    BY <2>1, SizeFacts, PageTyped DEF RequestsTyped, CollectTypeOK
  <2>3. soft' \in BOOLEAN
    BY <1>3 DEF ListPage, RequestsTyped, CollectTypeOK
  <2> QED BY <1>3, <2>2, <2>3, ListedTyped DEF ListPage
<1>4. CASE ListSoftError
  <2>1. << >> \in Seq(Servers) /\ soft' \in BOOLEAN
    BY <1>4, EmptySeq DEF ListSoftError
  <2> QED BY <1>4, <2>1, ListedTyped DEF ListSoftError
<1>5. CASE Fail /\ at \in {"list", "disks"}
  BY <1>5 DEF Fail, RequestsTyped, CollectTypeOK, PoolsAreClosed, OnlyKeptAreAsked, config, gateway, list,
              pool, Stages, Fetching
<1>6. ASSUME NEW w \in Workers, Answer(w) PROVE RequestsTyped'
  <2>1. CollectTypeOK'
    BY <1>6 DEF Answer, RequestsTyped, CollectTypeOK, config, gateway, list
  <2>2. PoolsAreClosed' /\ OnlyKeptAreAsked'
    BY <1>6 DEF Answer, RequestsTyped, PoolsAreClosed, OnlyKeptAreAsked, config, list, kind, Fetching
  <2> QED BY <2>1, <2>2 DEF RequestsTyped
<1>7. ASSUME NEW w \in Workers, NEW i \in DOMAIN vms, Take(w, i) PROVE RequestsTyped'
  BY <1>7, TakeTyped
<1>8. CASE PasswordsOfBMS
  <2>1. CollectTypeOK'
    BY <1>8 DEF PasswordsOfBMS, RequestsTyped, CollectTypeOK, config, gateway, list, Stages, Fetching
  <2>2. PoolsAreClosed' /\ OnlyKeptAreAsked'
    BY <1>8 DEF PasswordsOfBMS, RequestsTyped, PoolsAreClosed, OnlyKeptAreAsked, config, list, Fetching, kind
  <2> QED BY <2>1, <2>2 DEF RequestsTyped
<1>9. CASE KindDone
  <2>1. /\ UNCHANGED <<config, gateway, dropped, pool>> /\ unsent = {} /\ \A w \in Workers : holds[w] = 0
        /\ at' \in {"list", "ok", "enis"} /\ vms' = << >> /\ result' = result \o vms
        /\ (turn' = turn /\ page' = page) \/ (turn < Len(Kinds) /\ turn' = turn + 1 /\ page' = 1)
    BY <1>9 DEF KindDone, NextKind, PoolDone
  <2>2. result' \in Seq(Servers) /\ vms' \in Seq(Servers) /\ InList(vms') = {}
    <3>1. InList(<< >>) = {}
      BY DEF InList
    <3> QED BY <2>1, <3>1, ConcatProperties, EmptySeq DEF RequestsTyped, CollectTypeOK
  <2>3. turn' \in DOMAIN Kinds /\ page' \in Nat \ {0}
    BY <2>1, InventoryFacts DEF RequestsTyped, CollectTypeOK
  <2>4. holds' \in [Workers -> DOMAIN vms' \cup {0}] /\ unsent' \subseteq DOMAIN vms'
    BY <2>1 DEF RequestsTyped, CollectTypeOK, pool
  <2>5. CollectTypeOK'
    BY <2>1, <2>2, <2>3, <2>4 DEF RequestsTyped, CollectTypeOK, config, gateway, pool, Stages
  <2>6. PoolsAreClosed' /\ OnlyKeptAreAsked'
    BY <2>1, <2>2 DEF RequestsTyped, PoolsAreClosed, OnlyKeptAreAsked, config, pool, Fetching
  <2> QED BY <2>5, <2>6 DEF RequestsTyped
<1>10. ASSUME NEW from \in {"enis", "disks", "names"}, NEW to \in {"disks", "names", "ok"}, Add(from, to)
       PROVE  RequestsTyped'
  BY <1>10 DEF Add, RequestsTyped, CollectTypeOK, PoolsAreClosed, OnlyKeptAreAsked, config, gateway, list,
               pool, Stages, Fetching
<1> QED
  BY <1>1, <1>2, <1>3, <1>4, <1>5, <1>6, <1>7, <1>8, <1>9, <1>10
  DEF Next, Collecting, ListFails, Enis, Disks, Names

-----------------------------------------------------------------------------
(* Collect: a calm run.                                                       *)

\* The pages before n and page n are the pages up to n: the whole list when n is
\* the last, and n full pages otherwise.
LEMMA PagesFit ==
  ASSUME NEW X, NEW q \in Seq(X), NEW n \in Nat \ {0}, NEW size \in Nat \ {0}, (n - 1) * size <= Len(q)
  PROVE  /\ SubSeq(q, 1, (n - 1) * size) \in Seq(X)
         /\ (n >= Pages(q, size) \/ Pages(q, size) <= 0) =>
               SubSeq(q, 1, (n - 1) * size) \o PageOf(q, n, size) = q
         /\ n < Pages(q, size) =>
               /\ n * size <= Len(q)
               /\ SubSeq(q, 1, (n - 1) * size) \o PageOf(q, n, size) = SubSeq(q, 1, n * size)
<1>1. size \in Nat \ {0} /\ Len(q) \in Nat
  BY LenProperties
<1> DEFINE a == (n - 1) * size
           b == n * size
           k == Smaller(b, Len(q))
<1>2. a \in Nat /\ b \in Nat /\ b = a + size /\ a <= Len(q)
  BY <1>1, PageBefore
<1>3. Pages(q, size) \in Int /\ (n >= Pages(q, size) <=> b >= Len(q))
  BY <1>1, PagesCover DEF Pages
<1>4. PageOf(q, n, size) = SubSeq(q, a + 1, k)
  BY DEF PageOf
<1> HIDE DEF a, b
<1>5. k \in a..Len(q) /\ k = IF b < Len(q) THEN b ELSE Len(q)
  BY <1>1, <1>2 DEF Smaller
<1> HIDE DEF k
<1>6. SubSeq(q, 1, a) \o SubSeq(q, a + 1, k) = SubSeq(q, 1, k)
  <2>1. 1 \in 1..(Len(q) + 1) /\ a \in (1 - 1)..Len(q) /\ k \in a..Len(q)
    BY <1>1, <1>2, <1>5
  <2> QED BY <2>1, ConcatAdjacentSubSeq
<1>7. SubSeq(q, 1, a) \in Seq(X)
  <2>1. \A i \in 1..a : q[i] \in X
    BY <1>1, <1>2, ElementOfSeq
  <2> QED BY <1>2, <2>1, SubSeqProperties
<1>8. SubSeq(q, 1, Len(q)) = q
  BY SubSeqFull
<1>9. n < Pages(q, size) => b < Len(q)
  BY <1>1, <1>2, <1>3
<1>10. (n >= Pages(q, size) \/ Pages(q, size) <= 0) => b >= Len(q)
  <2>1. Pages(q, size) <= 0 => n >= Pages(q, size)
    BY <1>3
  <2> QED BY <1>3, <2>1
<1>11. b >= Len(q) => SubSeq(q, 1, a) \o PageOf(q, n, size) = q
  <2>1. b >= Len(q) => k = Len(q)
    BY <1>1, <1>2, <1>5
  <2> QED BY <1>4, <1>6, <1>8, <2>1
<1>12. b < Len(q) => b <= Len(q) /\ SubSeq(q, 1, a) \o PageOf(q, n, size) = SubSeq(q, 1, b)
  BY <1>1, <1>2, <1>4, <1>5, <1>6
<1>13. /\ SubSeq(q, 1, a) \in Seq(X)
       /\ (n >= Pages(q, size) \/ Pages(q, size) <= 0) => SubSeq(q, 1, a) \o PageOf(q, n, size) = q
       /\ n < Pages(q, size) => b <= Len(q) /\ SubSeq(q, 1, a) \o PageOf(q, n, size) = SubSeq(q, 1, b)
  BY <1>7, <1>9, <1>10, <1>11, <1>12
<1>14. a = (n - 1) * size /\ b = n * size
  BY DEF a, b
<1> QED BY <1>13, <1>14

\* The kind that is being read.
LEMMA KindFacts ==
  ASSUME RequestsTyped
  PROVE  /\ kind \in {"ecs", "bms"} /\ turn \in 1..Len(Kinds)
         /\ turn = 1 \/ (turn = 2 /\ Len(Kinds) = 2 /\ kind = "bms" /\ Kinds[1] = "ecs")
         /\ turn < Len(Kinds) => turn = 1 /\ Len(Kinds) = 2 /\ kind = "ecs" /\ Kinds[2] = "bms"
         /\ Kinds[1] \in {"ecs", "bms"}
<1>1. turn \in 1..Len(Kinds) /\ Len(Kinds) \in {1, 2} /\ kind = Kinds[turn]
  BY InventoryFacts DEF kind, RequestsTyped, CollectTypeOK
<1>2. Kinds[1] \in {"ecs", "bms"} /\ kind \in {"ecs", "bms"}
  BY <1>1, InventoryFacts
<1>3. turn = 1 \/ turn = 2
  BY <1>1
<1>4. turn = 2 => Len(Kinds) = 2
  BY <1>1
<1>5. turn < Len(Kinds) => turn = 1 /\ Len(Kinds) = 2
  <2>1. CASE Len(Kinds) = 1
    BY <1>1, <2>1
  <2>2. CASE Len(Kinds) = 2
    BY <1>3, <2>2
  <2> QED BY <1>1, <2>1, <2>2
<1> QED BY <1>1, <1>2, <1>3, <1>4, <1>5, InventoryFacts

\* The servers of two kinds are not the same.
LEMMA ResultIsOther ==
  ASSUME RequestsTyped, result = Before
  PROVE  /\ InList(result) \cap InList(Wanted(kind)) = {} /\ InList(result) \subseteq Servers
         /\ InList(Wanted(kind)) \subseteq Servers
         /\ kind = "ecs" => InList(Wanted(kind)) \cap BMS = {}
         /\ kind = "bms" => InList(Wanted(kind)) \subseteq BMS
<1>1. /\ InList(Wanted("ecs")) \subseteq ECS /\ InList(Wanted("bms")) \subseteq BMS
      /\ ECS \cap BMS = {} /\ ECS \subseteq Servers /\ BMS \subseteq Servers
  BY WantedFacts, InventoryFacts DEF Servers
<1>2. InList(<< >>) = {}
  BY DEF InList
<1> QED BY <1>1, <1>2, KindFacts DEF Before

\* What is said of the constants and of the choice stays.
LEMMA SameReference ==
  ASSUME UNCHANGED <<config, turn>>
  PROVE  /\ kind' = kind /\ Before' = Before /\ Whole' = Whole /\ Wanted(kind)' = Wanted(kind)
         /\ LostBefore' = LostBefore /\ Lost(kind)' = Lost(kind)
BY DEF config, kind, Before, Whole, Wanted, LostBefore, Lost

\* A page of the inventory.
LEMMA CalmPage ==
  ASSUME CollectIInv, Calm, ListPage
  PROVE  CalmInv'
<1> DEFINE q == Inventory[kind]
           items == PageOf(q, page, PageSize)
           all == Gathered(items)
<1>1. /\ RequestsTyped /\ at = "list" /\ inventory = Inventory /\ result = Before
      /\ (page - 1) * PageSize <= Len(q) /\ vms = Only(Seen, chosen)
      /\ dropped = LostBefore /\ ResultIsAsked /\ OthersAreNot /\ page \in Nat \ {0}
      /\ Listed(items, Pages(q, PageSize))
  BY DEF CollectIInv, CalmInv, ListIsInventory, DroppedSoFar, ListPage, Listed, RequestsTyped, CollectTypeOK
<1>2. kind \in {"ecs", "bms"} /\ q \in Seq(Servers)
  BY <1>1, KindFacts, InventoryFacts
<1>3. Seen \in Seq(Servers) /\ items \in Seq(Servers)
  BY <1>1, <1>2, SizeFacts, PagesFit, PageTyped DEF Seen
<1>4. all = Only(Seen \o items, chosen)
  BY <1>1, <1>3, OnlyConcat DEF Gathered
<1>5. /\ LastPage(Pages(q, PageSize)) => Seen \o items = q
      /\ page < Pages(q, PageSize) =>
           page * PageSize <= Len(q) /\ Seen \o items = SubSeq(q, 1, page * PageSize)
  <2>1. page \in Nat \ {0} /\ PageSize \in Nat \ {0} /\ q \in Seq(Servers) /\ (page - 1) * PageSize <= Len(q)
    BY <1>1, <1>2, SizeFacts
  <2>2. Seen = SubSeq(q, 1, (page - 1) * PageSize)
    BY DEF Seen
  <2> HIDE DEF q
  <2>3. /\ (page >= Pages(q, PageSize) \/ Pages(q, PageSize) <= 0) =>
             SubSeq(q, 1, (page - 1) * PageSize) \o PageOf(q, page, PageSize) = q
        /\ page < Pages(q, PageSize) =>
             /\ page * PageSize <= Len(q)
             /\ SubSeq(q, 1, (page - 1) * PageSize) \o PageOf(q, page, PageSize) = SubSeq(q, 1, page * PageSize)
    BY <2>1, PagesFit
  <2> QED BY <2>2, <2>3 DEF LastPage
<1>6. LastPage(Pages(q, PageSize)) => all = Only(q, chosen)
  <2> SUFFICES ASSUME LastPage(Pages(q, PageSize)) PROVE all = Only(q, chosen)
    OBVIOUS
  <2>1. Seen \o items = q
    BY <1>5
  <2> QED BY <1>4, <2>1
<1>7. ~LastPage(Pages(q, PageSize)) =>
         page * PageSize <= Len(q) /\ all = Only(SubSeq(q, 1, page * PageSize), chosen)
  <2>1. Pages(q, PageSize) \in Int
    <3>1. Len(q) \in Nat
      BY <1>2, LenProperties
    <3> DEFINE l == Len(q)
    <3>2. Pages(q, PageSize) = (l + PageSize - 1) \div PageSize
      BY DEF Pages
    <3> HIDE DEF l
    <3>3. l \in Nat => (l + PageSize - 1) \div PageSize \in Int
      BY SizeFacts
    <3> QED BY <3>1, <3>2, <3>3 DEF l
  <2> HIDE DEF q, items, all
  <2>2. ~LastPage(Pages(q, PageSize)) => page < Pages(q, PageSize)
    BY <1>1, <2>1 DEF LastPage
  <2> QED BY <1>4, <1>5, <2>2
<1>8. /\ UNCHANGED <<config, inventory, turn, result, asked>>
      /\ UNCHANGED <<kind, Before, LostBefore>>
  <2>1. UNCHANGED <<config, inventory, turn, result, asked>>
    BY <1>1 DEF Listed, pool
  <2> QED BY <2>1, SameReference
<1>9. ResultIsAsked'
  BY <1>1, <1>8 DEF ResultIsAsked, Asked
<1>10. CASE /\ LastPage(Pages(q, PageSize)) /\ Filter(all) /\ at' = "passwords"
  <2>1. all = Only(q, chosen)
    BY <1>10, <1>6
  <2>2. vms' = Wanted(kind) /\ unsent' = DOMAIN vms'
    BY <1>2, <1>10, <2>1, OnlyTwice DEF Filter, Wanted
  <2>3. dropped' = LostBefore + Cardinality(Lost(kind))
    <3>1. /\ Len(Only(q, chosen)) - Len(Wanted(kind)) = Cardinality(Lost(kind))
          /\ Cardinality(Lost(kind)) \in Nat
      BY <1>2, LostIsCounted
    <3>2. dropped' = dropped + Len(Only(q, chosen)) - Len(Wanted(kind))
      BY <1>10, <2>1, <2>2 DEF Filter
    <3>3. dropped \in Nat /\ Len(Only(q, chosen)) \in Nat /\ Len(Wanted(kind)) \in Nat
      BY <1>1, <1>2, OnlyElements, WantedFacts, LenProperties DEF RequestsTyped, CollectTypeOK
    <3> QED BY <1>1, <3>1, <3>2, <3>3
  <2>4. Wanted(kind)' = Wanted(kind) /\ Lost(kind)' = Lost(kind)
    BY <1>8, SameReference
  <2>5. ListIsInventory' /\ DroppedSoFar'
    BY <1>1, <1>8, <1>10, <2>2, <2>3, <2>4 DEF ListIsInventory, DroppedSoFar, Fetching, Added
  <2>6. \A i \in DOMAIN vms' : vms'[i] \in Servers \ InList(result)
    <3>1. InList(vms') \subseteq Servers /\ InList(vms') \cap InList(result) = {}
      BY <1>1, <2>2, ResultIsOther
    <3> QED BY <3>1 DEF InList
  <2>7. \A s \in Servers \ InList(result) : asked["passwords"][s] = 0 /\ asked["details"][s] = 0
    BY <1>1 DEF OthersAreNot, Fetching, Asked
  <2>8. OthersAreNot' /\ SentAreAsked'
    BY <1>8, <1>10, <2>2, <2>6, <2>7 DEF OthersAreNot, SentAreAsked, Asked, Fetching
  <2> QED BY <1>9, <2>5, <2>8 DEF CalmInv
<1>11. CASE /\ ~LastPage(Pages(q, PageSize)) /\ vms' = all /\ page' = page + 1
            /\ UNCHANGED <<at, dropped, pool>>
  <2>1. /\ page * PageSize <= Len(q) /\ all = Only(SubSeq(q, 1, page * PageSize), chosen)
    BY <1>11, <1>7
  <2>2. page' - 1 = page
    BY <1>1, <1>11
  <2>3. ListIsInventory' /\ DroppedSoFar'
    BY <1>1, <1>8, <1>11, <2>1, <2>2 DEF ListIsInventory, DroppedSoFar, Fetching, Added, Seen, config
  <2>4. OthersAreNot' /\ SentAreAsked'
    BY <1>1, <1>8, <1>11 DEF OthersAreNot, SentAreAsked, Asked, Fetching
  <2> QED BY <1>9, <2>3, <2>4 DEF CalmInv
<1> QED BY <1>1, <1>10, <1>11 DEF Listed

\* A worker asks for what is next.
LEMMA CalmTake ==
  ASSUME CollectIInv, Calm, NEW w \in Workers, NEW i \in DOMAIN vms, Take(w, i)
  PROVE  CalmInv'
<1>1. /\ at \in Fetching /\ UNCHANGED <<config, gateway, at, list>> /\ i \in unsent
      /\ unsent' = unsent \ {i} /\ asked' = [asked EXCEPT ![at][vms[i]] = @ + 1]
  BY DEF Take
<1>2. UNCHANGED <<chosen, kept, inventory, turn, page, vms, result, dropped>>
  BY <1>1 DEF config, gateway, list
<1>3. RequestsTyped /\ CalmInv /\ result = Before /\ vms = Wanted(kind)
  BY <1>1 DEF CollectIInv, CalmInv, ListIsInventory
<1>4. /\ asked \in [Fetching -> [Servers -> Nat]]
      /\ \A n \in DOMAIN vms : vms[n] \in Servers \ InList(result) /\ vms[n] \in InList(vms)
      /\ InList(result) \subseteq Servers
  <2>1. \A n \in DOMAIN vms : vms[n] \in InList(vms)
    BY DEF InList
  <2> QED BY <1>3, <2>1, ResultIsOther DEF RequestsTyped, CollectTypeOK
<1>5. Distinct(vms)
  BY <1>3, KindFacts, WantedFacts
<1>6. \A what \in Fetching, s \in Servers :
        asked'[what][s] = IF what = at /\ s = vms[i] THEN asked[what][s] + 1 ELSE asked[what][s]
  BY <1>1, <1>4
<1>7. \A n \in DOMAIN vms : vms[n] = vms[i] <=> n = i
  BY <1>5 DEF Distinct
<1>8. ListIsInventory' /\ DroppedSoFar'
  <2>1. UNCHANGED <<kind, Before, Whole, Wanted(kind), LostBefore, Lost(kind)>>
    BY <1>2, SameReference DEF config
  <2> QED BY <1>1, <1>2, <1>3, <2>1 DEF CalmInv, ListIsInventory, DroppedSoFar, Fetching, Added
<1>9. ResultIsAsked'
  BY <1>2, <1>3, <1>4, <1>6 DEF CalmInv, ResultIsAsked, Asked, Fetching
<1>10. OthersAreNot'
  BY <1>1, <1>2, <1>3, <1>4, <1>6 DEF CalmInv, OthersAreNot, Asked, Fetching
<1>11. SentAreAsked'
  <2>1. CASE at = "passwords"
    <3>1. \A n \in DOMAIN vms : /\ asked["passwords"][vms[n]] = IF n \in unsent THEN 0 ELSE 1
                                /\ asked["details"][vms[n]] = 0
      BY <1>3, <2>1 DEF CalmInv, SentAreAsked, Asked
    <3>2. \A n \in DOMAIN vms : /\ asked'["passwords"][vms[n]] = IF n \in unsent' THEN 0 ELSE 1
                                /\ asked'["details"][vms[n]] = 0
      BY <1>1, <1>4, <1>6, <1>7, <2>1, <3>1 DEF Fetching
    <3> QED BY <1>1, <1>2, <2>1, <3>2 DEF SentAreAsked, Asked
  <2>2. CASE at = "details"
    <3>1. \A n \in DOMAIN vms : /\ asked["passwords"][vms[n]] = 1
                                /\ asked["details"][vms[n]] = IF n \in unsent THEN 0 ELSE 1
      BY <1>3, <2>2 DEF CalmInv, SentAreAsked, Asked
    <3>2. \A n \in DOMAIN vms : /\ asked'["passwords"][vms[n]] = 1
                                /\ asked'["details"][vms[n]] = IF n \in unsent' THEN 0 ELSE 1
      BY <1>1, <1>4, <1>6, <1>7, <2>2, <3>1 DEF Fetching
    <3> QED BY <1>1, <1>2, <2>2, <3>2 DEF SentAreAsked, Asked
  <2> QED BY <1>1, <2>1, <2>2 DEF Fetching
<1> QED BY <1>8, <1>9, <1>10, <1>11 DEF CalmInv

\* Bare metal: the passwords are done, the details are next.
LEMMA CalmDetails ==
  ASSUME CollectIInv, Calm, PasswordsOfBMS
  PROVE  CalmInv'
<1>1. /\ at = "passwords" /\ at' = "details" /\ unsent = {} /\ unsent' = DOMAIN vms
      /\ UNCHANGED <<chosen, kept, inventory, turn, page, vms, result, dropped, asked>>
  BY DEF PasswordsOfBMS, PoolDone, config, gateway, list
<1>2. CalmInv
  BY DEF CollectIInv
<1>3. ListIsInventory' /\ DroppedSoFar'
  <2>1. UNCHANGED <<kind, Before, Whole, Wanted(kind), LostBefore, Lost(kind)>>
    BY <1>1, SameReference DEF config
  <2> QED BY <1>1, <1>2, <2>1 DEF CalmInv, ListIsInventory, DroppedSoFar, Fetching, Added
<1>4. ResultIsAsked' /\ OthersAreNot'
  BY <1>1, <1>2 DEF CalmInv, ResultIsAsked, OthersAreNot, Asked, Fetching
<1>5. SentAreAsked'
  BY <1>1, <1>2 DEF CalmInv, SentAreAsked, Asked
<1> QED BY <1>3, <1>4, <1>5 DEF CalmInv

\* A kind is done: what was asked for it is asked for the result.
LEMMA CalmKindDone ==
  ASSUME CollectIInv, Calm, KindDone
  PROVE  CalmInv'
<1>1. /\ at = IF kind = "bms" THEN "details" ELSE "passwords"
      /\ unsent = {} /\ result' = result \o vms /\ vms' = << >>
      /\ UNCHANGED <<chosen, kept, inventory, dropped, asked>>
      /\ \/ turn < Len(Kinds) /\ at' = "list" /\ turn' = turn + 1 /\ page' = 1
         \/ turn = Len(Kinds) /\ at' \in Added /\ UNCHANGED <<turn, page>>
  BY DEF KindDone, NextKind, PoolDone, config, gateway, pool, Added
<1>2. /\ RequestsTyped /\ CalmInv /\ result = Before /\ vms = Wanted(kind) /\ inventory = Inventory
      /\ dropped = LostBefore + Cardinality(Lost(kind))
  BY <1>1 DEF CollectIInv, CalmInv, ListIsInventory, DroppedSoFar, Fetching
<1>3. kind \in {"ecs", "bms"} /\ Wanted(kind) \in Seq(Servers) /\ Before \in Seq(Servers)
  BY <1>2, KindFacts, WantedFacts, EmptySeq DEF Before
<1>4. InList(result') = InList(result) \cup InList(vms)
  BY <1>1, <1>2, <1>3, InListConcat
<1>5. ResultIsAsked'
  <2>1. \A s \in InList(result) : /\ asked["passwords"][s] = 1
                                  /\ asked["details"][s] = IF s \in BMS THEN 1 ELSE 0
    BY <1>2 DEF CalmInv, ResultIsAsked, Asked
  <2>2. \A s \in InList(vms) : \E n \in DOMAIN vms : s = vms[n]
    BY DEF InList
  <2>3. \A s \in InList(vms) : /\ asked["passwords"][s] = 1
                               /\ asked["details"][s] = IF s \in BMS THEN 1 ELSE 0
    <3>1. CASE kind = "bms"
      <4>1. \A n \in DOMAIN vms : asked["passwords"][vms[n]] = 1 /\ asked["details"][vms[n]] = 1
        BY <1>1, <1>2, <3>1 DEF CalmInv, SentAreAsked, Asked
      <4>2. InList(vms) \subseteq BMS
        BY <1>2, <3>1, ResultIsOther
      <4> QED BY <2>2, <4>1, <4>2
    <3>2. CASE kind = "ecs"
      <4>1. \A n \in DOMAIN vms : asked["passwords"][vms[n]] = 1 /\ asked["details"][vms[n]] = 0
        BY <1>1, <1>2, <3>2 DEF CalmInv, SentAreAsked, Asked
      <4>2. InList(vms) \cap BMS = {}
        BY <1>2, <3>2, ResultIsOther
      <4> QED BY <2>2, <4>1, <4>2
    <3> QED BY <1>3, <3>1, <3>2
  <2> QED BY <1>1, <1>4, <2>1, <2>3 DEF ResultIsAsked, Asked
<1>6. SentAreAsked'
  BY <1>1 DEF SentAreAsked, Added
<1>7. CASE turn < Len(Kinds) /\ at' = "list" /\ turn' = turn + 1 /\ page' = 1
  <2>1. turn = 1 /\ Len(Kinds) = 2 /\ kind = "ecs" /\ Kinds[2] = "bms" /\ kind = Kinds[1] /\ turn' = 2
    BY <1>2, <1>7, KindFacts DEF kind
  <2>2. result' = Wanted(Kinds[1]) /\ Before' = Wanted(Kinds[1])
    <3>1. result' = << >> \o Wanted(kind)
      BY <1>1, <1>2, <2>1 DEF Before
    <3>2. result' = Wanted(kind)
      BY <1>3, <3>1, ConcatEmptySeq
    <3>3. Before' = Wanted(Kinds[1])
      BY <1>1, <2>1 DEF Before, Wanted
    <3> QED BY <2>1, <3>2, <3>3
  <2>3. dropped' = Cardinality(Lost(Kinds[1])) /\ LostBefore' = Cardinality(Lost(Kinds[1]))
    <3>1. LostBefore = 0 /\ Cardinality(Lost(kind)) \in Nat
      BY <1>3, <2>1, LostIsCounted DEF LostBefore
    <3>2. LostBefore' = Cardinality(Lost(Kinds[1]))
      BY <1>1, <2>1 DEF LostBefore, Lost
    <3> QED BY <1>1, <1>2, <2>1, <3>1, <3>2
  <2>4. (page' - 1) * PageSize = 0 /\ Len(Inventory["bms"]) \in Nat
    <3>1. Len(Inventory["bms"]) \in Nat
      BY InventoryFacts, LenProperties
    <3> QED BY <1>7, <3>1, CollectAssumption
  <2>5. kind' = "bms" /\ Seen' = << >>
    <3>1. kind' = "bms"
      BY <2>1 DEF kind
    <3>2. Seen' = SubSeq(Inventory["bms"], 1, 0)
      BY <2>4, <3>1 DEF Seen
    <3> QED BY <3>1, <3>2, SubSeqEmpty
  <2>6. vms' = Only(Seen, chosen)'
    BY <1>1, <2>5, OnlyEmpty
  <2>7. ListIsInventory'
    BY <1>1, <1>2, <1>7, <2>2, <2>4, <2>5, <2>6 DEF ListIsInventory, Fetching, Added
  <2>8. DroppedSoFar'
    BY <1>7, <2>3 DEF DroppedSoFar, Fetching, Added
  <2>9. OthersAreNot'
    <3>1. \A s \in Servers \ (InList(result) \cup InList(vms)) : \A what \in Fetching : asked[what][s] = 0
      BY <1>1, <1>2 DEF CalmInv, OthersAreNot, Asked, Fetching
    <3> QED BY <1>1, <1>4, <1>7, <3>1 DEF OthersAreNot, Asked
  <2> QED BY <1>5, <1>6, <2>7, <2>8, <2>9 DEF CalmInv
<1>8. CASE turn = Len(Kinds) /\ at' \in Added /\ UNCHANGED <<turn, page>>
  <2>1. result' = Whole
    <3>1. CASE turn = 1
      <4>1. result' = << >> \o Wanted(kind) /\ kind = Kinds[1] /\ Len(Kinds) = 1
        BY <1>1, <1>2, <1>8, <3>1 DEF Before, kind
      <4>2. result' = Wanted(kind)
        BY <1>3, <4>1, ConcatEmptySeq
      <4> QED BY <4>1, <4>2 DEF Whole
    <3>2. CASE turn = 2
      <4>1. Len(Kinds) = 2 /\ kind = "bms" /\ Kinds[1] = "ecs"
        BY <1>2, <3>2, KindFacts
      <4> QED BY <1>1, <1>2, <3>2, <4>1 DEF Whole, Before
    <3> QED BY <1>2, <3>1, <3>2, KindFacts
  <2>2. UNCHANGED <<kind, Before, Whole, Wanted(kind), LostBefore, Lost(kind)>>
    BY <1>1, <1>8, SameReference DEF config
  <2>3. ListIsInventory' /\ DroppedSoFar'
    BY <1>1, <1>2, <1>8, <2>1, <2>2 DEF ListIsInventory, DroppedSoFar, Fetching, Added
  <2>4. OthersAreNot'
    BY <1>8 DEF OthersAreNot, Fetching, Added
  <2> QED BY <1>5, <1>6, <2>3, <2>4 DEF CalmInv
<1> QED BY <1>1, <1>7, <1>8

\* A step that moves nothing but the stage, to a stage where nothing is fetched.
LEMMA CalmMoves ==
  ASSUME CollectIInv, Calm, UNCHANGED <<config, inventory, list, unsent, asked>>,
         \/ UNCHANGED at
         \/ at' = "failed"
         \/ at \in Added /\ at' \in Added
  PROVE  CalmInv'
<1>1. CalmInv /\ UNCHANGED <<chosen, kept, turn, page, vms, result, dropped>>
  BY DEF CollectIInv, config, list
<1>2. UNCHANGED <<kind, Before, Whole, Wanted(kind), LostBefore, Lost(kind), Seen>>
  <2>1. UNCHANGED <<kind, Before, Whole, Wanted(kind), LostBefore, Lost(kind)>>
    BY <1>1, SameReference DEF config
  <2> QED BY <1>1, <2>1 DEF Seen
<1>3. ListIsInventory' /\ DroppedSoFar'
  BY <1>1, <1>2 DEF CalmInv, ListIsInventory, DroppedSoFar, Fetching, Added
<1>4. ResultIsAsked' /\ OthersAreNot' /\ SentAreAsked'
  BY <1>1 DEF CalmInv, ResultIsAsked, OthersAreNot, SentAreAsked, Asked, Fetching, Added
<1> QED BY <1>3, <1>4 DEF CalmInv

\* The invariant is inductive.
LEMMA CollectStep ==
  ASSUME CollectIInv, [Next]_vars
  PROVE  CollectIInv'
<1>1. RequestsTyped'
  BY RequestsTypedStep DEF CollectIInv
<1>2. ASSUME Calm' PROVE CalmInv'
  <2>1. changes' = 0 /\ soft' = FALSE
    BY <1>1, <1>2 DEF Calm, RequestsTyped, CollectTypeOK
  <2>2. changes \in Nat /\ soft \in BOOLEAN
    BY CollectAssumption DEF CollectIInv, RequestsTyped, CollectTypeOK
  <2>3. CASE UNCHANGED vars
    <3>1. UNCHANGED <<config, gateway, at, list, pool>>
      BY <2>3 DEF vars
    <3>2. Calm /\ UNCHANGED <<config, inventory, list, unsent, asked, at>>
      BY <2>1, <3>1 DEF Calm, gateway, pool
    <3> QED BY <3>2, CalmMoves
  <2>4. CASE Gateway
    <3>1. changes' = changes + 1
      BY <2>4 DEF Gateway, Appear, Disappear
    <3> QED BY <2>1, <2>2, <3>1
  <2>5. CASE ListSoftError
    BY <2>1, <2>5 DEF ListSoftError
  <2>6. CASE ListPage
    <3>1. Calm
      BY <2>1, <2>6 DEF Calm, ListPage, Listed
    <3> QED BY <2>6, <3>1, CalmPage
  <2>7. CASE Fail
    <3>1. Calm /\ at' = "failed" /\ UNCHANGED <<config, inventory, list, unsent, asked>>
      BY <2>1, <2>7 DEF Fail, Calm, gateway, pool
    <3> QED BY <3>1, CalmMoves
  <2>8. ASSUME NEW w \in Workers, Answer(w) PROVE CalmInv'
    <3>1. Calm /\ UNCHANGED <<config, inventory, list, unsent, asked, at>>
      BY <2>1, <2>8 DEF Answer, Calm, gateway
    <3> QED BY <3>1, CalmMoves
  <2>9. ASSUME NEW w \in Workers, NEW i \in DOMAIN vms, Take(w, i) PROVE CalmInv'
    <3>1. Calm
      BY <2>1, <2>9 DEF Take, Calm, gateway
    <3> QED BY <2>9, <3>1, CalmTake
  <2>10. CASE PasswordsOfBMS
    <3>1. Calm
      BY <2>1, <2>10 DEF PasswordsOfBMS, Calm, gateway
    <3> QED BY <2>10, <3>1, CalmDetails
  <2>11. CASE KindDone
    <3>1. Calm
      BY <2>1, <2>11 DEF KindDone, Calm, gateway
    <3> QED BY <2>11, <3>1, CalmKindDone
  <2>12. ASSUME NEW from \in {"enis", "disks", "names"}, NEW to \in {"disks", "names", "ok"}, Add(from, to)
         PROVE  CalmInv'
    <3>1. Calm /\ at \in Added /\ at' \in Added /\ UNCHANGED <<config, inventory, list, unsent, asked>>
      BY <2>1, <2>12 DEF Add, Calm, gateway, pool, Added
    <3> QED BY <3>1, CalmMoves
  <2> QED
    BY <2>3, <2>4, <2>5, <2>6, <2>7, <2>8, <2>9, <2>10, <2>11, <2>12
    DEF Next, Collecting, ListFails, Enis, Disks, Names
<1> QED BY <1>1, <1>2 DEF CollectIInv

\* It holds at the start.
LEMMA CollectInit ==
  ASSUME Init
  PROVE  CollectIInv
<1>1. PICK some, good \in SUBSET Servers : Begin(some, good)
  BY DEF Init
<1>2. InList(<< >>) = {} /\ << >> \in Seq(Servers) /\ DOMAIN << >> = {}
  BY EmptySeq DEF InList
<1>3. 1 \in DOMAIN Kinds
  BY InventoryFacts
<1>4. CollectTypeOK
  <2>1. inventory \in [ecs : Seq(ECS), bms : Seq(BMS)] /\ changes \in 0..MaxChanges
    BY <1>1, CollectAssumption DEF Begin
  <2>2. vms \in Seq(Servers) /\ result \in Seq(Servers) /\ unsent \subseteq DOMAIN vms
    BY <1>1, <1>2 DEF Begin
  <2>3. holds \in [Workers -> DOMAIN vms \cup {0}] /\ asked \in [Fetching -> [Servers -> Nat]]
    BY <1>1 DEF Begin
  <2>4. chosen \subseteq Servers /\ kept \subseteq Servers /\ soft \in BOOLEAN /\ at \in Stages
    BY <1>1 DEF Begin, Stages
  <2>5. turn = 1 /\ page = 1 /\ dropped = 0
    BY <1>1 DEF Begin
  <2>6. turn \in DOMAIN Kinds /\ page \in Nat \ {0} /\ dropped \in Nat
    BY <1>3, <2>5
  <2> QED BY <2>1, <2>2, <2>3, <2>4, <2>6 DEF CollectTypeOK
<1>5. PoolsAreClosed /\ OnlyKeptAreAsked
  BY <1>1, <1>2 DEF Begin, PoolsAreClosed, OnlyKeptAreAsked, Fetching
<1>6. ListIsInventory
  <2>1. (page - 1) * PageSize = 0
    BY <1>1, CollectAssumption DEF Begin
  <2>2. Len(Inventory[kind]) \in Nat
    <3>1. Inventory[kind] \in Seq(Servers)
      BY <1>4, <1>5, InventoryFacts, KindFacts DEF RequestsTyped
    <3> QED BY <3>1, LenProperties
  <2>3. vms = Only(Seen, chosen)
    <3>1. Seen = SubSeq(Inventory[kind], 1, 0)
      BY <2>1 DEF Seen
    <3>2. SubSeq(Inventory[kind], 1, 0) = << >>
      BY SubSeqEmpty
    <3>3. Only(<< >>, chosen) = << >> /\ vms = << >>
      BY <1>1, OnlyEmpty DEF Begin
    <3> QED BY <3>1, <3>2, <3>3
  <2> QED BY <1>1, <2>1, <2>2, <2>3 DEF Begin, ListIsInventory, Before, Fetching, Added
<1>7. DroppedSoFar /\ ResultIsAsked /\ OthersAreNot /\ SentAreAsked
  BY <1>1, <1>2 DEF Begin, DroppedSoFar, LostBefore, ResultIsAsked, OthersAreNot, SentAreAsked, Asked,
                    Fetching, Added
<1> QED BY <1>4, <1>5, <1>6, <1>7 DEF CollectIInv, RequestsTyped, CalmInv

\* What the invariant is for.
LEMMA CollectPromises ==
  ASSUME CollectIInv
  PROVE  RequestsInv /\ InventoryInv
<1>1. CollectTypeOK /\ OnlyKeptAreAsked /\ RequestsTyped
  BY DEF CollectIInv, RequestsTyped
<1>2. AskedOnce
  <2> SUFFICES ASSUME Calm, NEW i \in DOMAIN result
               PROVE  /\ asked["passwords"][result[i]] = 1
                      /\ asked["details"][result[i]] = IF result[i] \in BMS THEN 1 ELSE 0
    BY DEF AskedOnce
  <2>1. result[i] \in InList(result)
    BY DEF InList
  <2> QED BY <2>1 DEF CollectIInv, CalmInv, ResultIsAsked, Asked
<1>3. ResultIsInventory
  BY DEF ResultIsInventory, CollectIInv, CalmInv, ListIsInventory, Whole, Added
<1>4. DroppedIsHonest
  <2> SUFFICES ASSUME at = "ok", Calm
               PROVE  dropped = Cardinality({s \in chosen \ kept : \E n \in DOMAIN Kinds :
                                               s \in InList(Inventory[Kinds[n]])})
    BY DEF DroppedIsHonest
  <2>1. dropped = LostBefore + Cardinality(Lost(kind)) /\ turn = Len(Kinds)
    BY DEF CollectIInv, CalmInv, DroppedSoFar, Added
  <2>2. CASE Len(Kinds) = 1
    <3>1. {s \in chosen \ kept : \E n \in DOMAIN Kinds : s \in InList(Inventory[Kinds[n]])} = Lost(Kinds[1])
      BY <2>2, InventoryFacts DEF Lost
    <3>2. LostBefore = 0 /\ kind = Kinds[1] /\ Cardinality(Lost(kind)) \in Nat
      BY <1>1, <2>1, <2>2, KindFacts, LostIsCounted DEF LostBefore, kind
    <3>3. dropped = Cardinality(Lost(Kinds[1]))
      BY <2>1, <3>2
    <3> QED BY <3>1, <3>3
  <2>3. CASE Len(Kinds) = 2
    <3>1. {s \in chosen \ kept : \E n \in DOMAIN Kinds : s \in InList(Inventory[Kinds[n]])}
            = Lost("ecs") \cup Lost("bms")
      <4>1. DOMAIN Kinds = {1, 2} /\ Kinds[1] = "ecs" /\ Kinds[2] = "bms"
        BY <2>3, InventoryFacts
      <4> QED BY <4>1 DEF Lost
    <3>2. LostBefore = Cardinality(Lost("ecs")) /\ kind = "bms"
      BY <1>1, <2>1, <2>3, KindFacts DEF LostBefore
    <3>3. Lost("ecs") \cap Lost("bms") = {}
      BY InventoryFacts DEF Lost
    <3>4. /\ IsFiniteSet(Lost("ecs")) /\ IsFiniteSet(Lost("bms"))
          /\ Cardinality(Lost("ecs")) \in Nat /\ Cardinality(Lost("bms")) \in Nat
      BY LostIsCounted
    <3>5. Cardinality(Lost("ecs") \cup Lost("bms")) =
            Cardinality(Lost("ecs")) + Cardinality(Lost("bms")) - Cardinality(Lost("ecs") \cap Lost("bms"))
      BY <3>4, FS_Union
    <3>6. dropped = Cardinality(Lost("ecs") \cup Lost("bms"))
      <4>1. Cardinality(Lost("ecs") \cap Lost("bms")) = 0
        BY <3>3, FS_EmptySet
      <4>2. dropped = Cardinality(Lost("ecs")) + Cardinality(Lost("bms"))
        BY <2>1, <3>2
      <4> QED BY <3>4, <3>5, <4>1, <4>2
    <3> QED BY <3>1, <3>6
  <2> QED BY <2>2, <2>3, InventoryFacts
<1> QED BY <1>1, <1>2, <1>3, <1>4 DEF RequestsInv, InventoryInv

-----------------------------------------------------------------------------
(* Configuration: what a step is executed as.                                 *)

\* What is done for a step, once its type is known.
Done(what, where, times, policy, mode, content, timeout, names) ==
  [does |-> what, where |-> where, times |-> times, policy |-> policy, mode |-> mode,
   content |-> content, timeout |-> timeout, names |-> names]

\* One field changed.
LEMMA DoneExcept ==
  ASSUME NEW a, NEW b, NEW c, NEW d, NEW e, NEW f, NEW g, NEW h, NEW x
  PROVE  /\ [Done(a, b, c, d, e, f, g, h) EXCEPT !.where = x]   = Done(a, x, c, d, e, f, g, h)
         /\ [Done(a, b, c, d, e, f, g, h) EXCEPT !.times = x]   = Done(a, b, x, d, e, f, g, h)
         /\ [Done(a, b, c, d, e, f, g, h) EXCEPT !.policy = x]  = Done(a, b, c, x, e, f, g, h)
         /\ [Done(a, b, c, d, e, f, g, h) EXCEPT !.mode = x]    = Done(a, b, c, d, x, f, g, h)
         /\ [Done(a, b, c, d, e, f, g, h) EXCEPT !.content = x] = Done(a, b, c, d, e, x, g, h)
         /\ [Done(a, b, c, d, e, f, g, h) EXCEPT !.timeout = x] = Done(a, b, c, d, e, f, x, h)
         /\ [Done(a, b, c, d, e, f, g, h) EXCEPT !.names = x]   = Done(a, b, c, d, e, f, g, x)
BY DEF Done

\* The policy of a step.
Policy(s) == IF s.onError = Loading!NoText THEN "stop" ELSE s.onError

\* It is the one StepOnError gives, since no other is accepted.
LEMMA PolicyIsMeant ==
  ASSUME NEW s, s.onError \in {Loading!NoText, "stop", "continue"}
  PROVE  Policy(s) = IF Loading!StepOnError(s) = "stop" THEN "stop" ELSE "continue"
BY DEF Policy, Loading!StepOnError, Loading!Or, Loading!NoText

\* A record with these fields and no other.
IsDone(r) == r = Done(r.does, r.where, r.times, r.policy, r.mode, r.content, r.timeout, r.names)

\* The policy is looked at last.
LEMMA ExecutionIs ==
  ASSUME NEW s, s.onError \in {Loading!NoText, "stop", "continue"}, NEW r, Loading!Dispatched(s) = r, IsDone(r)
  PROVE  Loading!Execution(s) = Done(r.does, r.where, r.times, Policy(s), r.mode, r.content, r.timeout, r.names)
<1> DEFINE p == IF Loading!StepOnError(s) = "stop" THEN "stop" ELSE "continue"
<1>1. Loading!Execution(s) = [r EXCEPT !.policy = p]
  BY DEF Loading!Execution
<1>2. p = Policy(s)
  BY PolicyIsMeant
<1> HIDE DEF p
<1>3. [r EXCEPT !.policy = p] = Done(r.does, r.where, r.times, p, r.mode, r.content, r.timeout, r.names)
  BY DEF IsDone, Done
<1> QED BY <1>1, <1>2, <1>3

\* How often a step is meant to run.
Times(s, default) == IF s.run = Loading!NoText THEN default ELSE s.run

\* A step is executed as it is meant, once on the hosts apart.
AsMeant(s) == \/ Loading!Execution(s) = Loading!Meant(s)
              \/ /\ Loading!RemoteOnce(s)
                 /\ Loading!Execution(s) = [Loading!Meant(s) EXCEPT !.times = "always"]

\* What is done agrees with what is meant if only the times differ, and only for a
\* remote step that is to run once.
LEMMA TimesDiffer ==
  ASSUME NEW s, s.run \in {Loading!NoText, "once", "always"}, ~Loading!StepIsLocal(s),
         NEW r, Loading!Execution(s) = r, IsDone(r), r.times = "always",
         Loading!Meant(s) = Done(r.does, r.where, Times(s, "always"), r.policy, r.mode, r.content, r.timeout, r.names)
  PROVE  AsMeant(s)
<1>1. CASE s.run = "once"
  <2>1. [Loading!Meant(s) EXCEPT !.times = "always"] = r
    BY DEF IsDone, Done
  <2> QED BY <1>1, <2>1 DEF Loading!RemoteOnce, AsMeant
<1>2. CASE s.run # "once"
  <2>1. Times(s, "always") = "always"
    BY <1>2 DEF Times
  <2> QED BY <2>1 DEF IsDone, AsMeant
<1> QED BY <1>1, <1>2

\* An accepted step, of each type, field by field.
LEMMA FilesAreMeant ==
  ASSUME NEW s, Loading!StepValid(s), s.type = "files"
  PROVE  AsMeant(s)
<1>1. /\ s.target \in {"push", "pull"} /\ s.onError \in {Loading!NoText, "stop", "continue"}
      /\ s.run \in {Loading!NoText, "once", "always"}
      /\ s.rule.mode = << >> \/ Loading!ModeParses(s.rule.mode)
  BY DEF Loading!StepValid, Loading!FilesValid, Loading!RuleValid, Loading!NoText
<1>2. ~Loading!StepIsLocal(s) /\ Loading!StepTarget(s) = s.target
  BY <1>1 DEF Loading!StepIsLocal, Loading!StepTarget, Loading!Or, Loading!NoText
<1> DEFINE mode == IF s.rule.mode = << >> THEN 420 ELSE Loading!Mode(s.rule.mode)
<1>4. s.target = IF Loading!StepTarget(s) = "pull" THEN "pull" ELSE "push"
  BY <1>1, <1>2
<1>5. Loading!Dispatched(s) = Done(s.target, "host", "always", s.onError, mode, Loading!NoText, Loading!NoText, {})
  BY <1>1, <1>4 DEF Loading!Dispatched, Loading!Doing, Done
<1>7. Loading!Meant(s) = Done(s.target, "host", Times(s, "always"), Policy(s), mode, Loading!NoText, Loading!NoText, {})
  BY <1>1 DEF Loading!Meant, Loading!MeantContent, Loading!NoText, Done, Times, Policy
<1> HIDE DEF mode
<1>6. Loading!Execution(s) = Done(s.target, "host", "always", Policy(s), mode, Loading!NoText, Loading!NoText, {})
  <2> DEFINE r == Loading!Dispatched(s)
  <2>1. /\ IsDone(r) /\ r.does = s.target /\ r.where = "host" /\ r.times = "always" /\ r.mode = mode
        /\ r.content = Loading!NoText /\ r.timeout = Loading!NoText /\ r.names = {}
    BY <1>5 DEF IsDone, Done
  <2>2. s.onError \in {Loading!NoText, "stop", "continue"}
    BY <1>1
  <2> HIDE DEF r, mode
  <2> QED BY <2>1, <2>2, ExecutionIs DEF r
<1> QED
  <2> DEFINE r == Loading!Execution(s)
  <2>1. /\ IsDone(r) /\ r.times = "always"
        /\ Loading!Meant(s) = Done(r.does, r.where, Times(s, "always"), r.policy, r.mode, r.content, r.timeout, r.names)
    BY <1>6, <1>7 DEF IsDone, Done
  <2>2. s.run \in {Loading!NoText, "once", "always"}
    BY <1>1
  <2> HIDE DEF r
  <2> QED BY <1>2, <2>1, <2>2, TimesDiffer DEF r

\* A command, here or on the host.
LEMMA CommandIsMeant ==
  ASSUME NEW s \in Loading!ExecStep, Loading!StepValid(s), s.type = "command"
  PROVE  AsMeant(s)
<1>1. /\ s.target \in {Loading!NoText, "local", "remote"} /\ s.onError \in {Loading!NoText, "stop", "continue"}
      /\ s.run \in {Loading!NoText, "once", "always"} /\ s.timeout \in {Loading!NoText, "5s"}
      /\ s.given # {} /\ \A a, b \in s.given : a = b
  BY DEF Loading!StepValid, Loading!CommandValid, Loading!NoText
<1>2. Loading!StepIsLocal(s) <=> s.target = "local"
  BY <1>1 DEF Loading!StepIsLocal, Loading!StepTarget, Loading!Or, Loading!NoText
<1> DEFINE timeout == IF s.timeout = Loading!NoText THEN "60s" ELSE s.timeout
           content == CHOOSE c \in s.given : TRUE
           where == IF s.target = "local" THEN "here" ELSE "host"
           times == IF s.target = "local" /\ Loading!StepRunMode(s) = "once" THEN "once" ELSE "always"
<1>3. Loading!StepTimeout(s) = timeout
  BY <1>1 DEF Loading!StepTimeout, Loading!NoText, Loading!Bad
<1>4. Loading!Content(s) = content
  <2>1. s.given \subseteq {"command", "script", "scriptPath"}
    BY DEF Loading!ExecStep
  <2>2. content \in s.given
    BY <1>1
  <2>3. content \in {"command", "script", "scriptPath"} /\ s.given = {content}
    BY <1>1, <2>1, <2>2
  <2> HIDE DEF content
  <2>4. CASE content = "command"
    BY <2>3, <2>4 DEF Loading!Content
  <2>5. CASE content = "script"
    BY <2>3, <2>5 DEF Loading!Content
  <2>6. CASE content = "scriptPath"
    BY <2>3, <2>6 DEF Loading!Content
  <2> QED BY <2>3, <2>4, <2>5, <2>6
<1>5. Loading!MeantContent(s) = content
  BY <1>1 DEF Loading!MeantContent
<1>6. Loading!Meant(s) = Done("command", where, Times(s, IF s.target = "local" THEN "once" ELSE "always"),
                              Policy(s), 0, content, timeout, {})
  <2> HIDE DEF content
  <2> QED BY <1>1, <1>5 DEF Loading!Meant, Loading!NoText, Done, Times, Policy
<1>7. Loading!Dispatched(s) = Done("command", where, times, s.onError, 0, content, timeout, {})
  <2>1. Loading!Dispatched(s) =
          [Loading!Doing("command", s) EXCEPT !.where = where, !.times = times, !.content = content,
                                              !.timeout = timeout]
    BY <1>2, <1>3, <1>4 DEF Loading!Dispatched
  <2> HIDE DEF content, timeout, where, times
  <2> QED BY <2>1 DEF Loading!Doing, Done
<1>9. s.target = "local" => times = Times(s, "once")
  BY <1>1, <1>2 DEF Loading!StepRunMode, Times, Loading!Or, Loading!NoText
<1>10. s.target # "local" => times = "always" /\ where = "host"
  OBVIOUS
<1> HIDE DEF content, timeout, where, times
<1>8. Loading!Execution(s) = Done("command", where, times, Policy(s), 0, content, timeout, {})
  <2> DEFINE r == Loading!Dispatched(s)
  <2>1. /\ IsDone(r) /\ r.does = "command" /\ r.where = where /\ r.times = times /\ r.mode = 0
        /\ r.content = content /\ r.timeout = timeout /\ r.names = {}
    BY <1>7 DEF IsDone, Done
  <2> HIDE DEF r
  <2> QED BY <1>1, <2>1, ExecutionIs DEF r
<1>11. CASE s.target = "local"
  BY <1>6, <1>8, <1>9, <1>11 DEF AsMeant
<1>12. CASE s.target # "local"
  <2> DEFINE r == Loading!Execution(s)
  <2>1. /\ IsDone(r) /\ r.times = "always"
        /\ Loading!Meant(s) = Done(r.does, r.where, Times(s, "always"), r.policy, r.mode, r.content, r.timeout, r.names)
    BY <1>8, <1>6, <1>10, <1>12 DEF IsDone, Done
  <2>2. s.run \in {Loading!NoText, "once", "always"}
    BY <1>1
  <2>3. ~Loading!StepIsLocal(s)
    BY <1>2, <1>12
  <2> HIDE DEF r
  <2> QED BY <2>1, <2>2, <2>3, TimesDiffer DEF r
<1> QED BY <1>11, <1>12

\* A check of services, whose names can be asked for.
LEMMA ServicesAreMeant ==
  ASSUME NEW s, Loading!StepValid(s), s.type = "services"
  PROVE  AsMeant(s) \/ Loading!Bad \in Loading!Meant(s).names
<1> DEFINE names == IF s.names = {} THEN {"sshd"} ELSE s.names
<1>1. s.onError \in {Loading!NoText, "stop", "continue"} /\ s.run \in {Loading!NoText, "once", "always"}
  BY DEF Loading!StepValid, Loading!NoText
<1>2. ~Loading!StepIsLocal(s)
  BY DEF Loading!StepIsLocal
<1>3. Loading!Meant(s) = Done("services", "host", Times(s, "always"), Policy(s), 0, Loading!NoText, Loading!NoText, names)
  BY DEF Loading!Meant, Loading!MeantContent, Loading!NoText, Done, Times, Policy
<1>4. SUFFICES ASSUME Loading!Bad \notin names PROVE AsMeant(s)
  BY <1>3 DEF Done
<1>5. Loading!Checked(s) = names /\ names # {}
  BY <1>4 DEF Loading!Checked
<1> HIDE DEF names
<1>6. Loading!Dispatched(s) = Done("services", "host", "always", s.onError, 0, Loading!NoText, Loading!NoText, names)
  BY <1>5 DEF Loading!Dispatched, Loading!Doing, Done
<1>7. Loading!Execution(s) = Done("services", "host", "always", Policy(s), 0, Loading!NoText, Loading!NoText, names)
  <2> DEFINE r == Loading!Dispatched(s)
  <2>1. /\ IsDone(r) /\ r.does = "services" /\ r.where = "host" /\ r.times = "always" /\ r.mode = 0
        /\ r.content = Loading!NoText /\ r.timeout = Loading!NoText /\ r.names = names
    BY <1>6 DEF IsDone, Done
  <2> HIDE DEF r
  <2> QED BY <1>1, <2>1, ExecutionIs DEF r
<1> QED
  <2> DEFINE r == Loading!Execution(s)
  <2>1. /\ IsDone(r) /\ r.times = "always"
        /\ Loading!Meant(s) = Done(r.does, r.where, Times(s, "always"), r.policy, r.mode, r.content, r.timeout, r.names)
    BY <1>7, <1>3 DEF IsDone, Done
  <2>2. s.run \in {Loading!NoText, "once", "always"}
    BY <1>1
  <2> HIDE DEF r
  <2> QED BY <1>2, <2>1, <2>2, TimesDiffer DEF r

\* A check of the state of the host.
LEMMA StatusIsMeant ==
  ASSUME NEW s, Loading!StepValid(s), s.type = "status"
  PROVE  AsMeant(s)
<1>1. s.onError \in {Loading!NoText, "stop", "continue"} /\ s.run \in {Loading!NoText, "once", "always"}
  BY DEF Loading!StepValid, Loading!NoText
<1>2. ~Loading!StepIsLocal(s)
  BY DEF Loading!StepIsLocal
<1>3. Loading!Meant(s) = Done("status", "host", Times(s, "always"), Policy(s), 0, Loading!NoText, Loading!NoText, {})
  BY DEF Loading!Meant, Loading!MeantContent, Loading!NoText, Done, Times, Policy
<1>6. Loading!Dispatched(s) = Done("status", "host", "always", s.onError, 0, Loading!NoText, Loading!NoText, {})
  BY DEF Loading!Dispatched, Loading!Doing, Done
<1>7. Loading!Execution(s) = Done("status", "host", "always", Policy(s), 0, Loading!NoText, Loading!NoText, {})
  <2> DEFINE r == Loading!Dispatched(s)
  <2>1. /\ IsDone(r) /\ r.does = "status" /\ r.where = "host" /\ r.times = "always" /\ r.mode = 0
        /\ r.content = Loading!NoText /\ r.timeout = Loading!NoText /\ r.names = {}
    BY <1>6 DEF IsDone, Done
  <2> HIDE DEF r
  <2> QED BY <1>1, <2>1, ExecutionIs DEF r
<1> QED
  <2> DEFINE r == Loading!Execution(s)
  <2>1. /\ IsDone(r) /\ r.times = "always"
        /\ Loading!Meant(s) = Done(r.does, r.where, Times(s, "always"), r.policy, r.mode, r.content, r.timeout, r.names)
    BY <1>7, <1>3 DEF IsDone, Done
  <2>2. s.run \in {Loading!NoText, "once", "always"}
    BY <1>1
  <2> HIDE DEF r
  <2> QED BY <1>2, <2>1, <2>2, TimesDiffer DEF r

\* Whatever its type is.
LEMMA StepIsMeant ==
  ASSUME NEW s \in Loading!ExecStep, Loading!StepValid(s)
  PROVE  AsMeant(s) \/ Loading!Bad \in Loading!Meant(s).names
<1>1. s.type \in {"files", "command", "services", "status"}
  BY DEF Loading!StepValid
<1> QED BY <1>1, FilesAreMeant, CommandIsMeant, ServicesAreMeant, StatusIsMeant

\* What the completion changes, and what it leaves.
LEMMA CompletedFacts ==
  ASSUME NEW c \in Loading!Config, Loading!Valid(c)
  PROVE  /\ Loading!Completed(c).execList = c.execList /\ Loading!Completed(c).services = c.services
         /\ Loading!Completed(c).pageSize \in 1..100 /\ Loading!Completed(c).port > 0
         /\ Loading!Completed(c).useIP \in {"internal", "eip", "internal-then-eip"}
         /\ Loading!Completed(c).resource \in {"ecs", "bms", "all"}
<1>1. /\ c.pageSize \in Int /\ c.port \in Int
      /\ c.resource \in {Loading!NoText, "ecs", "bms", "all"}
      /\ c.useIP \in {Loading!NoText, "internal", "eip", "internal-then-eip"}
  BY DEF Loading!Config, Loading!Valid
<1>2. /\ Loading!Completed(c).execList = c.execList
      /\ Loading!Completed(c).services = c.services
  BY DEF Loading!Config, Loading!Completed
<1>3. /\ Loading!Completed(c).pageSize = IF c.pageSize <= 0 \/ c.pageSize > 100 THEN 100 ELSE c.pageSize
      /\ Loading!Completed(c).port = IF c.port <= 0 THEN 22 ELSE c.port
  BY DEF Loading!Config, Loading!Completed
<1>4. /\ Loading!Completed(c).useIP = IF c.useIP = Loading!NoText THEN "internal" ELSE c.useIP
      /\ Loading!Completed(c).resource = IF c.resource = Loading!NoText THEN "ecs" ELSE c.resource
  BY DEF Loading!Config, Loading!Completed, Loading!Or
<1> QED BY <1>1, <1>2, <1>3, <1>4

\* The inductive invariant: what the stages leave behind.
LoadedInv ==
  /\ raw \in Configs
  /\ stage \in {"read", "loaded", "refused", "planned"}
  /\ stage \in {"read", "refused"} => cfg = raw
  /\ stage \in {"loaded", "planned"} => Loading!Valid(raw) /\ cfg = Loading!Completed(raw)
  /\ plan = IF stage = "planned" THEN [i \in DOMAIN Loading!EffectiveSteps |->
                                         Loading!Execution(Loading!EffectiveSteps[i])]
            ELSE << >>

\* It holds at the start.
LEMMA LoadedInit ==
  ASSUME Loading!Init
  PROVE  LoadedInv
BY DEF Loading!Init, Loading!Begin, LoadedInv

\* Loading and planning keep it.
LEMMA LoadedStep ==
  ASSUME LoadedInv, [Loading!Next]_configVars
  PROVE  LoadedInv'
<1>1. CASE UNCHANGED configVars
  BY <1>1 DEF configVars, LoadedInv, Loading!EffectiveSteps
<1>2. CASE Loading!Load
  BY <1>2 DEF Loading!Load, LoadedInv
<1>3. CASE Loading!Run
  <2>1. UNCHANGED <<raw, cfg>> /\ stage = "loaded" /\ stage' = "planned"
    BY <1>3 DEF Loading!Run
  <2>2. Loading!EffectiveSteps' = Loading!EffectiveSteps
    BY <2>1 DEF Loading!EffectiveSteps
  <2>3. plan' = [i \in DOMAIN Loading!EffectiveSteps |-> Loading!Execution(Loading!EffectiveSteps[i])]
    BY <1>3 DEF Loading!Run
  <2> QED BY <2>1, <2>2, <2>3 DEF LoadedInv
<1> QED BY <1>1, <1>2, <1>3 DEF Loading!Next

\* The two checks that stand for a list that is left out: a step that only says
\* its type, but for the policy.
LEMMA PolicyChanged ==
  ASSUME NEW s, NEW d, d.type = s.type, s.type \in {"services", "status"},
         d.run = Loading!NoText, s.run = Loading!NoText, d.names = s.names,
         d.onError = "continue"
  PROVE  Loading!Meant(d) = [Loading!Meant(s) EXCEPT !.policy = "continue"]
<1>1. "continue" # Loading!NoText
  BY DEF Loading!NoText
<1> DEFINE names == IF s.type = "services" THEN IF s.names = {} THEN {"sshd"} ELSE s.names ELSE {}
           policy == IF s.onError = Loading!NoText THEN "stop" ELSE s.onError
<1>2. Loading!Meant(s) = Done(s.type, "host", "always", policy, 0, Loading!NoText, Loading!NoText, names)
  BY DEF Loading!Meant, Loading!MeantContent, Done
<1>3. Loading!Meant(d) = Done(s.type, "host", "always", "continue", 0, Loading!NoText, Loading!NoText, names)
  BY <1>1 DEF Loading!Meant, Loading!MeantContent, Done
<1> HIDE DEF names, policy
<1> QED BY <1>2, <1>3 DEF Done

\* They are executed as two such steps are meant, but for names that cannot be
\* asked for.
LEMMA NewStepFacts ==
  ASSUME NEW n
  PROVE  LET status   == [Loading!NewStep EXCEPT !.type = "status"]
             services == [Loading!NewStep EXCEPT !.type = "services", !.names = n]
             first    == [Loading!NewStep EXCEPT !.type = "status", !.target = "remote", !.onError = "continue"]
             second   == [Loading!NewStep EXCEPT !.type = "services", !.target = "remote",
                                                 !.onError = "continue", !.names = n]
         IN  /\ Loading!Execution(first) = [Loading!Meant(status) EXCEPT !.policy = "continue"]
             /\ \/ Loading!Execution(second) = [Loading!Meant(services) EXCEPT !.policy = "continue"]
                \/ Loading!Bad \in [Loading!Meant(services) EXCEPT !.policy = "continue"].names
<1> DEFINE status   == [Loading!NewStep EXCEPT !.type = "status"]
           services == [Loading!NewStep EXCEPT !.type = "services", !.names = n]
           first    == [Loading!NewStep EXCEPT !.type = "status", !.target = "remote", !.onError = "continue"]
           second   == [Loading!NewStep EXCEPT !.type = "services", !.target = "remote",
                                               !.onError = "continue", !.names = n]
           t == Loading!NoText
<1>1. t # "once"
  BY DEF Loading!NoText
<1>2. /\ first.type = "status" /\ first.target = "remote" /\ first.run = t /\ first.onError = "continue"
      /\ first.names = {}
  BY DEF Loading!NewStep
<1>3. /\ second.type = "services" /\ second.target = "remote" /\ second.run = t
      /\ second.onError = "continue" /\ second.names = n
  BY DEF Loading!NewStep
<1>4. status.type = "status" /\ status.run = t /\ status.names = {}
  BY DEF Loading!NewStep
<1>5. services.type = "services" /\ services.run = t /\ services.names = n
  BY DEF Loading!NewStep
<1> HIDE DEF first, second, status, services, t
<1>6. Loading!StepValid(first) /\ Loading!StepValid(second)
  BY <1>2, <1>3 DEF Loading!StepValid, t
<1>7. ~Loading!RemoteOnce(first) /\ ~Loading!RemoteOnce(second)
  BY <1>1, <1>2, <1>3 DEF Loading!RemoteOnce
<1>8. Loading!Meant(first) = [Loading!Meant(status) EXCEPT !.policy = "continue"]
  BY <1>2, <1>4, PolicyChanged DEF t
<1>9. Loading!Meant(second) = [Loading!Meant(services) EXCEPT !.policy = "continue"]
  BY <1>3, <1>5, PolicyChanged DEF t
<1>10. AsMeant(first) /\ (AsMeant(second) \/ Loading!Bad \in Loading!Meant(second).names)
  BY <1>2, <1>3, <1>6, StatusIsMeant, ServicesAreMeant
<1>11. Loading!Execution(first) = Loading!Meant(first)
  BY <1>7, <1>10 DEF AsMeant
<1>12. Loading!Execution(second) = Loading!Meant(second) \/ Loading!Bad \in Loading!Meant(second).names
  BY <1>7, <1>10 DEF AsMeant
<1>13. /\ Loading!Execution(first) = [Loading!Meant(status) EXCEPT !.policy = "continue"]
       /\ \/ Loading!Execution(second) = [Loading!Meant(services) EXCEPT !.policy = "continue"]
          \/ Loading!Bad \in [Loading!Meant(services) EXCEPT !.policy = "continue"].names
  BY <1>8, <1>9, <1>11, <1>12
<1> QED BY <1>13 DEF first, second, status, services

\* What was loaded is executed as it is meant.
LEMMA LoadedIsMeant ==
  ASSUME LoadedInv, stage = "planned"
  PROVE  Loading!AcceptedIsExecuted
<1>1. /\ raw \in Loading!Config /\ Loading!Valid(raw)
      /\ cfg.execList = raw.execList /\ cfg.services = raw.services
      /\ plan = [i \in DOMAIN Loading!EffectiveSteps |-> Loading!Execution(Loading!EffectiveSteps[i])]
  BY ConfigsAssumption, CompletedFacts DEF LoadedInv
<1>2. raw.execList.given \in BOOLEAN /\ Loading!Steps(raw) \in Seq(Loading!ExecStep)
  BY <1>1 DEF Loading!Config, Loading!Steps
<1>3. CASE raw.execList.given
  <2> DEFINE q == Loading!Steps(raw)
  <2>1. Loading!EffectiveSteps = q
    BY <1>1, <1>3 DEF Loading!EffectiveSteps, Loading!Steps
  <2>2. Loading!MeantSteps = [i \in DOMAIN q |-> Loading!Meant(q[i])]
    BY <1>3 DEF Loading!MeantSteps
  <2>3. \A i \in DOMAIN q : Loading!StepValid(q[i])
    BY <1>1 DEF Loading!Valid
  <2>4. Len(q) \in Nat /\ DOMAIN q = 1..Len(q) /\ \A i \in DOMAIN q : q[i] \in Loading!ExecStep
    BY <1>2, LenProperties, ElementOfSeq
  <2> HIDE DEF q
  <2>5. plan = [i \in 1..Len(q) |-> Loading!Execution(q[i])]
    BY <1>1, <2>1, <2>4
  <2>6. Loading!MeantSteps = [i \in 1..Len(q) |-> Loading!Meant(q[i])]
    BY <2>2, <2>4
  <2>7. Len(plan) = Len(q) /\ DOMAIN plan = 1..Len(q)
    BY <2>4, <2>5
  <2>8. Len(Loading!MeantSteps) = Len(q)
    BY <2>4, <2>6
  <2>9. ASSUME NEW i \in 1..Len(q)
        PROVE  \/ plan[i] = Loading!MeantSteps[i]
               \/ /\ Loading!RemoteOnce(q[i])
                  /\ plan[i] = [Loading!MeantSteps[i] EXCEPT !.times = "always"]
               \/ Loading!Bad \in Loading!MeantSteps[i].names
    <3>1. plan[i] = Loading!Execution(q[i]) /\ Loading!MeantSteps[i] = Loading!Meant(q[i])
      BY <2>5, <2>6
    <3>2. AsMeant(q[i]) \/ Loading!Bad \in Loading!Meant(q[i]).names
      BY <2>3, <2>4, StepIsMeant
    <3> QED BY <3>1, <3>2 DEF AsMeant
  <2> QED BY <1>3, <2>7, <2>8, <2>9 DEF Loading!AcceptedIsExecuted, q
<1>4. CASE ~raw.execList.given
  <2> DEFINE status   == [Loading!NewStep EXCEPT !.type = "status"]
             services == [Loading!NewStep EXCEPT !.type = "services", !.names = raw.services]
             first    == [Loading!NewStep EXCEPT !.type = "status", !.target = "remote", !.onError = "continue"]
             second   == [Loading!NewStep EXCEPT !.type = "services", !.target = "remote",
                                                 !.onError = "continue", !.names = raw.services]
             one == [Loading!Meant(status) EXCEPT !.policy = "continue"]
             two == [Loading!Meant(services) EXCEPT !.policy = "continue"]
  <2>1. Loading!EffectiveSteps = <<first, second>>
    BY <1>1, <1>4 DEF Loading!EffectiveSteps
  <2>2. Loading!MeantSteps = <<one, two>>
    BY <1>4 DEF Loading!MeantSteps
  <2>3. Loading!Execution(first) = one /\ (Loading!Execution(second) = two \/ Loading!Bad \in two.names)
    BY NewStepFacts
  <2> HIDE DEF first, second, one, two
  <2>4. plan = [i \in {1, 2} |-> Loading!Execution(<<first, second>>[i])]
    <3>1. DOMAIN <<first, second>> = {1, 2}
      OBVIOUS
    <3> QED BY <1>1, <2>1, <3>1
  <2>5. plan = <<Loading!Execution(first), Loading!Execution(second)>>
    BY <2>4
  <2>6. Len(plan) = 2 /\ DOMAIN plan = {1, 2} /\ Len(Loading!MeantSteps) = 2
    BY <2>2, <2>5
  <2>7. /\ plan[1] = Loading!Execution(first) /\ plan[2] = Loading!Execution(second)
        /\ Loading!MeantSteps[1] = one /\ Loading!MeantSteps[2] = two
    BY <2>2, <2>5
  <2>8. \A i \in DOMAIN plan : plan[i] = Loading!MeantSteps[i] \/ Loading!Bad \in Loading!MeantSteps[i].names
    BY <2>3, <2>6, <2>7
  <2> QED BY <2>6, <2>8 DEF Loading!AcceptedIsExecuted
<1> QED BY <1>2, <1>3, <1>4

\* What the invariant is for.
LEMMA LoadedPromises ==
  ASSUME LoadedInv
  PROVE  Loading!ConfigurationInv
<1>1. Loading!ConfigurationTypeOK
  BY DEF LoadedInv, Loading!ConfigurationTypeOK
<1>2. Loading!AcceptedIsExecuted
  BY LoadedIsMeant DEF Loading!AcceptedIsExecuted
<1>3. Loading!NumbersAreUsable
  <2> SUFFICES ASSUME stage = "loaded"
               PROVE  /\ cfg.pageSize \in 1..100 /\ cfg.port > 0
                      /\ cfg.useIP \in {"internal", "eip", "internal-then-eip"}
                      /\ cfg.resource \in {"ecs", "bms", "all"}
    BY DEF Loading!NumbersAreUsable
  <2>1. raw \in Loading!Config /\ Loading!Valid(raw) /\ cfg = Loading!Completed(raw)
    BY ConfigsAssumption DEF LoadedInv
  <2> QED BY <2>1, CompletedFacts
<1> QED BY <1>1, <1>2, <1>3 DEF Loading!ConfigurationInv

-----------------------------------------------------------------------------
(* Projects: the inductive invariant, and its parts.                          *)

\* All projects are meant; and a name is past when a project of it is there.
Everybody  == InList(Projecting!Wanted) \cap Everything # {}
Past(i)    == i < turnOf \/ (resolving = "done" /\ ~allMode)

\* Types, and what the gateway ever had.
ResolutionTyped ==
  /\ setting \in Projecting!Settings /\ Projecting!Wanted # << >>
  /\ catalog \in [list : Seq(Projecting!ProjectSet), disks : Seq(Projecting!ProjectSet)]
  /\ known \subseteq Projecting!ProjectSet
  /\ InList(catalog.list) \subseteq known /\ InList(catalog.disks) \subseteq known
  /\ web \in BOOLEAN /\ unsettled \in BOOLEAN /\ allMode \in BOOLEAN
  /\ resolving \in {"page", "start", "list", "disks", "choose", "done", "failed"}
  /\ turnOf \in 1..Len(Projecting!Wanted) /\ pageOf \in Nat \ {0}
  /\ catalogChanges \in 0..MaxChanges
  /\ got \in Seq(known) /\ projects \in Seq(known)
  /\ questions \subseteq InList(Projecting!Wanted)

\* What holds whatever happens to the lists meanwhile: every name of the past has
\* its project, and no project is there twice.
ResolvedSoFar ==
  /\ resolving \in {"page", "start"} =>
       turnOf = 1 /\ pageOf = 1 /\ got = << >> /\ questions = {} /\ projects = << >> /\ ~allMode
  /\ resolving \in {"list", "disks", "choose"} => ~Everybody /\ ~allMode
  /\ resolving = "done" => (allMode <=> Everybody)
  /\ allMode => resolving = "done" /\ projects = << >>
  /\ \A i, j \in DOMAIN projects : projects[i].id = projects[j].id => i = j
  /\ \A p \in InList(projects) : p.name \in InList(Projecting!Wanted)
  /\ \A i \in DOMAIN Projecting!Wanted : Past(i) =>
       \E p \in InList(projects) : Projecting!Project(p.id, Projecting!Wanted[i]) \in known
  /\ resolving = "choose" => \A p \in InList(got) : p.name = Projecting!name

Ambiguous(n) == Cardinality(Projecting!FoundAs(n)) > 1

\* What holds of a resolution that nothing has disturbed: what is there of a list is
\* what its pages so far hold, the list knows nobody of a name that is looked for
\* among the disks, and every question of the past was one.
CalmResolution ==
  /\ resolving = "list" =>
       /\ (pageOf - 1) * ListSize <= Len(catalog.list)
       /\ got = SubSeq(catalog.list, 1, (pageOf - 1) * ListSize)
  /\ resolving = "disks" =>
       /\ Projecting!Listed(Projecting!name) = {}
       /\ (pageOf - 1) * PageSize <= Len(catalog.disks)
       /\ Distinct(got)
       /\ InList(got) = Projecting!Complete(SubSeq(catalog.disks, 1, (pageOf - 1) * PageSize))
  /\ resolving = "choose" => Projecting!name \in questions
  /\ resolving = "failed" => Projecting!FoundAs(Projecting!name) = {} \/ Projecting!name \in questions
  /\ \A n \in questions : Projecting!IsTwice(n)
  /\ \A i \in DOMAIN Projecting!Wanted :
       Past(i) /\ Ambiguous(Projecting!Wanted[i]) => Projecting!Wanted[i] \in questions
  /\ web => \A p \in InList(projects) : Ambiguous(p.name) => p.id = preselected

ResolutionIInv == ResolutionTyped /\ ResolvedSoFar /\ (~unsettled => CalmResolution)

\* The resolution makes its lists as the others do.
LEMMA SameLists ==
  /\ \A q : Projecting!ToSet(q) = InList(q)
  /\ \A q, S : Projecting!Only(q, S) = Only(q, S)
  /\ \A q, r : Projecting!Merged(q, r) = Merged(q, r)
  /\ \A q, n, size : Projecting!PageOf(q, n, size) = PageOf(q, n, size)
  /\ \A q, size : Projecting!Pages(q, size) = Pages(q, size)
<1>1. \A q : Projecting!ToSet(q) = InList(q)
  BY DEF Projecting!ToSet, InList
<1>2. \A q, S : Projecting!Only(q, S) = Only(q, S)
  BY DEF Projecting!Only, Only
<1>3. \A q, r : Projecting!Merged(q, r) = Merged(q, r)
  BY DEF Projecting!Merged, Merged, Projecting!InList, InList
<1>4. \A q, n, size : Projecting!PageOf(q, n, size) = PageOf(q, n, size)
  BY DEF Projecting!PageOf, PageOf, Projecting!Smaller, Smaller
<1>5. \A q, size : Projecting!Pages(q, size) = Pages(q, size)
  BY DEF Projecting!Pages, Pages
<1> QED BY <1>1, <1>2, <1>3, <1>4, <1>5

-----------------------------------------------------------------------------
(* Projects: what the answers lead to.                                        *)

\* The pages of a list that says how many entries it has.
LEMMA ListPagesFit ==
  ASSUME NEW X, NEW q \in Seq(X), NEW n \in Nat \ {0}, NEW size \in Nat \ {0}, (n - 1) * size <= Len(q)
  PROVE  IF \/ PageOf(q, n, size) = << >>
            \/ Len(SubSeq(q, 1, (n - 1) * size) \o PageOf(q, n, size)) >= Len(q)
         THEN SubSeq(q, 1, (n - 1) * size) \o PageOf(q, n, size) = q
         ELSE /\ n * size <= Len(q)
              /\ SubSeq(q, 1, (n - 1) * size) \o PageOf(q, n, size) = SubSeq(q, 1, n * size)
<1> DEFINE a == (n - 1) * size
           b == n * size
           part == PageOf(q, n, size)
           all == SubSeq(q, 1, a) \o part
<1>1. /\ SubSeq(q, 1, a) \in Seq(X) /\ part \in Seq(X) /\ Pages(q, size) \in Int
      /\ n >= Pages(q, size) => all = q
      /\ n < Pages(q, size) => b <= Len(q) /\ all = SubSeq(q, 1, b)
  <2>1. Pages(q, size) \in Int
    <3>1. Len(q) \in Nat
      BY LenProperties
    <3> QED BY <3>1 DEF Pages
  <2>2. /\ SubSeq(q, 1, a) \in Seq(X)
        /\ n >= Pages(q, size) => SubSeq(q, 1, a) \o PageOf(q, n, size) = q
        /\ n < Pages(q, size) => b <= Len(q) /\ SubSeq(q, 1, a) \o PageOf(q, n, size) = SubSeq(q, 1, b)
    BY PagesFit
  <2>3. part \in Seq(X)
    BY PageTyped
  <2> QED BY <2>1, <2>2, <2>3
<1>2. a \in Nat /\ b \in Nat /\ a < b /\ Len(q) \in Nat
  BY PageBefore, LenProperties
<1>3. all = SubSeq(q, 1, a) \o part /\ a <= Len(q)
  OBVIOUS
<1> HIDE DEF a, b, part, all
<1>4. CASE n >= Pages(q, size)
  <2>1. all = q
    BY <1>1, <1>4
  <2> QED BY <1>2, <2>1 DEF part, all, a
<1>5. CASE n < Pages(q, size)
  <2>1. b <= Len(q) /\ all = SubSeq(q, 1, b)
    BY <1>1, <1>5
  <2>2. Len(SubSeq(q, 1, a)) = a /\ Len(SubSeq(q, 1, b)) = b
    <3>1. \A i \in 1..Len(q) : q[i] \in X
      BY ElementOfSeq
    <3> QED BY <1>2, <1>3, <2>1, <3>1, SubSeqProperties
  <2>3. part # << >>
    BY <1>1, <1>2, <1>3, <2>1, <2>2, ConcatEmptySeq
  <2>4. Len(all) >= Len(q) => all = q
    BY <1>2, <2>1, <2>2, SubSeqFull
  <2> QED BY <2>1, <2>3, <2>4 DEF part, all, a, b
<1>6. n >= Pages(q, size) \/ n < Pages(q, size)
  BY <1>1
<1> QED BY <1>4, <1>5, <1>6

\* Nothing happens to the lists, and nobody is told anything new.
Steady == UNCHANGED <<setting, web, preselected, catalog, known, catalogChanges>>

\* Those of a list that have the name; and a list that has it at two places.
Matches(all) == {p \in InList(all) : p.name = Projecting!name}
Many(all)    == \E i, j \in DOMAIN all : i # j /\ all[i].name = Projecting!name /\ all[j].name = Projecting!name

\* A question is put.
Asks(matches) ==
  /\ resolving' = "choose" /\ got' = matches /\ questions' = questions \cup {Projecting!name}
  /\ UNCHANGED <<turnOf, pageOf, projects, allMode>>

\* The next page is fetched.
NextPage(all) ==
  got' = all /\ pageOf' = pageOf + 1 /\ UNCHANGED <<resolving, turnOf, questions, projects, allMode>>

\* What comes of a complete list.
Settled(all) ==
  \/ \E p \in known : Matches(all) = {p} /\ Projecting!Resolved(p)
  \/ \E matches \in Seq(known) : InList(matches) = Matches(all) /\ Many(all) /\ Asks(matches)

\* What the loop over a list finds there.
LEMMA MatchFacts ==
  ASSUME NEW all \in Seq(known), NEW matches, matches = Only(all, Matches(all))
  PROVE  /\ matches \in Seq(known) /\ InList(matches) = Matches(all)
         /\ Len(matches) \in Nat
         /\ Len(matches) = 0 => Matches(all) = {}
         /\ Len(matches) = 1 => Matches(all) = {matches[1]} /\ matches[1] \in known
         /\ Len(matches) > 1 => Many(all)
<1>1. matches \in Seq(known) /\ InList(matches) = InList(all) \cap Matches(all)
  BY OnlyElements
<1>2. InList(all) \cap Matches(all) = Matches(all)
  BY DEF Matches
<1>3. Len(matches) \in Nat /\ DOMAIN matches = 1..Len(matches) /\ \A i \in 1..Len(matches) : matches[i] \in known
  BY <1>1, LenProperties, ElementOfSeq
<1>4. Len(matches) = 0 => InList(matches) = {}
  BY <1>3 DEF InList
<1>5. Len(matches) = 1 => InList(matches) = {matches[1]} /\ matches[1] \in known
  <2>1. Len(matches) = 1 => DOMAIN matches = {1}
    BY <1>3
  <2> QED BY <1>3, <2>1 DEF InList
<1>6. Len(matches) > 1 => Many(all)
  BY OnlyMany DEF Many, Matches
<1> QED BY <1>1, <1>2, <1>3, <1>4, <1>5, <1>6

\* None, one or several.
LEMMA SmallNumbers == \A n \in Nat : n = 0 \/ n = 1 \/ (n > 1 /\ n # 0 /\ n # 1)
OBVIOUS

\* What an answer to a request of the list leads to.
LEMMA ListCases ==
  ASSUME NEW items \in Seq(known), NEW total \in Nat, got \in Seq(known), known' = known,
         Projecting!ListAnswer(items, total)
  PROVE  /\ resolving = "list" /\ got \o items \in Seq(known)
         /\ UNCHANGED <<setting, web, preselected, catalog, known, catalogChanges>>
         /\ \/ /\ items = << >> \/ Len(got \o items) >= total
               /\ \/ Settled(got \o items)
                  \/ Matches(got \o items) = {} /\ Projecting!LookAmongDisks
            \/ /\ ~(items = << >> \/ Len(got \o items) >= total)
               /\ NextPage(got \o items)
<1> DEFINE all == got \o items
           matches == Only(all, Matches(all))
<1>1. all \in Seq(known)
  BY ConcatProperties
<1>2. /\ matches \in Seq(known) /\ InList(matches) = Matches(all)
      /\ Len(matches) \in Nat
      /\ Len(matches) = 0 => Matches(all) = {}
      /\ Len(matches) = 1 => Matches(all) = {matches[1]} /\ matches[1] \in known
      /\ Len(matches) > 1 => Many(all)
  BY <1>1, MatchFacts
<1>3. Projecting!Only(all, {p \in Projecting!ToSet(all) : p.name = Projecting!name}) = matches
  BY SameLists DEF Matches
<1> HIDE DEF all, matches
<1>4. resolving = "list" /\ UNCHANGED <<setting, web, preselected, catalog, known, catalogChanges>>
  BY DEF Projecting!ListAnswer, Projecting!asking
<1>5. CASE items = << >> \/ Len(all) >= total
  <2>0. Len(matches) = 0 \/ Len(matches) = 1 \/ (Len(matches) > 1 /\ Len(matches) # 0 /\ Len(matches) # 1)
    BY <1>2, SmallNumbers
  <2>1. CASE Len(matches) = 0
    <3>1. Projecting!LookAmongDisks
      BY <1>3, <1>5, <2>1 DEF Projecting!ListAnswer, Projecting!ListEnds, Projecting!Match, all
    <3> QED BY <1>1, <1>2, <1>4, <1>5, <2>1, <3>1 DEF all
  <2>2. CASE Len(matches) = 1
    <3>1. Projecting!Resolved(matches[1])
      BY <1>3, <1>5, <2>2 DEF Projecting!ListAnswer, Projecting!ListEnds, Projecting!Match, all
    <3>2. Settled(all)
      BY <1>2, <2>2, <3>1 DEF Settled
    <3> QED BY <1>1, <1>4, <1>5, <3>2 DEF all
  <2>3. CASE Len(matches) > 1 /\ Len(matches) # 0 /\ Len(matches) # 1
    <3>1. Asks(matches)
      BY <1>3, <1>5, <2>3 DEF Projecting!ListAnswer, Projecting!ListEnds, Projecting!Match, all, Asks
    <3>2. Settled(all)
      BY <1>2, <2>3, <3>1 DEF Settled
    <3> QED BY <1>1, <1>4, <1>5, <3>2 DEF all
  <2> QED BY <2>0, <2>1, <2>2, <2>3
<1>6. CASE ~(items = << >> \/ Len(all) >= total)
  <2>1. NextPage(all)
    BY <1>6 DEF Projecting!ListAnswer, Projecting!ListEnds, Projecting!More, all, NextPage
  <2> QED BY <1>1, <1>4, <1>6, <2>1 DEF all
<1> QED BY <1>5, <1>6

\* What a page of disks adds to the list.
WithDisks(items) == Merged(got, Only(items, Projecting!Complete(items)))

\* It is typed, and repeats nothing.
LEMMA WithDisksFacts ==
  ASSUME NEW items \in Seq(known), got \in Seq(known)
  PROVE  /\ WithDisks(items) \in Seq(known)
         /\ InList(WithDisks(items)) = InList(got) \cup Projecting!Complete(items)
         /\ Distinct(got) => Distinct(WithDisks(items))
<1> DEFINE r == Only(items, Projecting!Complete(items))
<1>1. r \in Seq(known) /\ InList(r) = InList(items) \cap Projecting!Complete(items)
  BY OnlyElements
<1>2. InList(items) \cap Projecting!Complete(items) = Projecting!Complete(items)
  BY SameLists DEF Projecting!Complete
<1> HIDE DEF r
<1>3. /\ Merged(got, r) \in Seq(known)
      /\ InList(Merged(got, r)) = InList(got) \cup InList(r)
      /\ Distinct(got) => Distinct(Merged(got, r))
  BY <1>1, MergedFacts
<1>4. WithDisks(items) = Merged(got, r)
  BY DEF WithDisks, r
<1> QED BY <1>1, <1>2, <1>3, <1>4

\* What an answer to a request of the disks leads to.
LEMMA DiskCases ==
  ASSUME NEW items \in Seq(known), NEW total \in Int, got \in Seq(known), pageOf \in Nat, known' = known,
         Projecting!DiskAnswer(items, total)
  PROVE  /\ resolving = "disks" /\ WithDisks(items) \in Seq(known)
         /\ UNCHANGED <<setting, web, preselected, catalog, known, catalogChanges>>
         /\ \/ /\ total <= 0 \/ pageOf >= total
               /\ \/ Settled(WithDisks(items))
                  \/ Matches(WithDisks(items)) = {} /\ Projecting!NotFound
            \/ /\ ~(total <= 0 \/ pageOf >= total)
               /\ NextPage(WithDisks(items))
<1> DEFINE all == WithDisks(items)
           matches == Only(all, Matches(all))
<1>1. all \in Seq(known)
  BY WithDisksFacts
<1>2. /\ matches \in Seq(known) /\ InList(matches) = Matches(all)
      /\ Len(matches) \in Nat
      /\ Len(matches) = 0 => Matches(all) = {}
      /\ Len(matches) = 1 => Matches(all) = {matches[1]} /\ matches[1] \in known
      /\ Len(matches) > 1 => Many(all)
  BY <1>1, MatchFacts
<1>3. Projecting!Only(all, {p \in Projecting!ToSet(all) : p.name = Projecting!name}) = matches
  BY SameLists DEF Matches
<1>4. Projecting!Merged(got, Projecting!Only(items, Projecting!Complete(items))) = all
  BY SameLists DEF WithDisks
<1> HIDE DEF all, matches
<1>5. resolving = "disks" /\ UNCHANGED <<setting, web, preselected, catalog, known, catalogChanges>>
  BY DEF Projecting!DiskAnswer, Projecting!asking
<1>6. IF total <= 0 \/ pageOf >= total THEN Projecting!Match(all, Projecting!NotFound) ELSE Projecting!More(all)
  BY <1>4 DEF Projecting!DiskAnswer
<1>7. CASE total <= 0 \/ pageOf >= total
  <2>0. Len(matches) = 0 \/ Len(matches) = 1 \/ (Len(matches) > 1 /\ Len(matches) # 0 /\ Len(matches) # 1)
    BY <1>2, SmallNumbers
  <2>1. CASE Len(matches) = 0
    <3>1. Projecting!NotFound
      BY <1>3, <1>6, <1>7, <2>1 DEF Projecting!Match
    <3> QED BY <1>1, <1>2, <1>5, <1>7, <2>1, <3>1 DEF all
  <2>2. CASE Len(matches) = 1
    <3>1. Projecting!Resolved(matches[1])
      BY <1>3, <1>6, <1>7, <2>2 DEF Projecting!Match
    <3>2. Settled(all)
      BY <1>2, <2>2, <3>1 DEF Settled
    <3> QED BY <1>1, <1>5, <1>7, <3>2 DEF all
  <2>3. CASE Len(matches) > 1 /\ Len(matches) # 0 /\ Len(matches) # 1
    <3>1. Asks(matches)
      BY <1>3, <1>6, <1>7, <2>3 DEF Projecting!Match, Asks
    <3>2. Settled(all)
      BY <1>2, <2>3, <3>1 DEF Settled
    <3> QED BY <1>1, <1>5, <1>7, <3>2 DEF all
  <2> QED BY <2>0, <2>1, <2>2, <2>3
<1>8. CASE ~(total <= 0 \/ pageOf >= total)
  <2>1. NextPage(all)
    BY <1>6, <1>8 DEF Projecting!More, NextPage
  <2> QED BY <1>1, <1>5, <1>8, <2>1 DEF all
<1> QED BY <1>7, <1>8

\* What does not change while the setting, or the catalog, does not.
LEMMA SameSetting ==
  ASSUME setting' = setting
  PROVE  Projecting!Wanted' = Projecting!Wanted /\ (Everybody' <=> Everybody)
BY DEF Projecting!Wanted, Everybody

LEMMA SameCatalog ==
  ASSUME catalog' = catalog, NEW CONSTANT n
  PROVE  /\ Projecting!Listed(n)' = Projecting!Listed(n)
         /\ Projecting!FoundAs(n)' = Projecting!FoundAs(n)
         /\ Projecting!IsTwice(n)' <=> Projecting!IsTwice(n)
         /\ Ambiguous(n)' <=> Ambiguous(n)
<1>1. Projecting!Listed(n)' = Projecting!Listed(n) /\ Projecting!OfDisks(n)' = Projecting!OfDisks(n)
  BY DEF Projecting!Listed, Projecting!OfDisks
<1>2. Projecting!FoundAs(n)' = Projecting!FoundAs(n)
  BY <1>1 DEF Projecting!FoundAs
<1>3. Projecting!IsTwice(n)' <=> Projecting!IsTwice(n)
  BY DEF Projecting!IsTwice
<1> QED BY <1>1, <1>2, <1>3 DEF Ambiguous

\* The names, and the one whose turn it is.
LEMMA WantedTyped ==
  ASSUME ResolutionTyped
  PROVE  /\ Projecting!Wanted \in Seq(STRING) /\ Len(Projecting!Wanted) \in Nat \ {0}
         /\ DOMAIN Projecting!Wanted = 1..Len(Projecting!Wanted)
         /\ turnOf \in DOMAIN Projecting!Wanted
         /\ Projecting!name = Projecting!Wanted[turnOf] /\ Projecting!name \in InList(Projecting!Wanted)
<1>1. Projecting!Wanted \in Seq(STRING)
  <2>1. setting.name \in STRING /\ setting.names \in Seq(STRING)
    BY DEF ResolutionTyped, Projecting!Settings
  <2>2. <<setting.name>> \in Seq(STRING)
    BY <2>1
  <2> QED BY <2>1, <2>2 DEF Projecting!Wanted, Projecting!WantedBy
<1>2. Len(Projecting!Wanted) \in Nat /\ DOMAIN Projecting!Wanted = 1..Len(Projecting!Wanted)
  BY <1>1, LenProperties
<1>3. Len(Projecting!Wanted) # 0
  BY <1>1, EmptySeq DEF ResolutionTyped
<1>4. turnOf \in DOMAIN Projecting!Wanted
  BY <1>2 DEF ResolutionTyped
<1>5. Projecting!name = Projecting!Wanted[turnOf]
  BY DEF Projecting!name
<1> QED BY <1>1, <1>2, <1>3, <1>4, <1>5 DEF InList

\* A project that is added.
LEMMA AddFacts ==
  ASSUME projects \in Seq(known), NEW p \in known, NEW r, r = Projecting!Add(p),
         \A i, j \in DOMAIN projects : projects[i].id = projects[j].id => i = j
  PROVE  /\ r \in Seq(known)
         /\ InList(projects) \subseteq InList(r) /\ InList(r) \subseteq InList(projects) \cup {p}
         /\ \E q \in InList(r) : q.id = p.id
         /\ \A i, j \in DOMAIN r : r[i].id = r[j].id => i = j
<1>1. CASE \E q \in InList(projects) : q.id = p.id
  <2>1. r = projects
    BY <1>1, SameLists DEF Projecting!Add
  <2> QED BY <1>1, <2>1
<1>2. CASE ~(\E q \in InList(projects) : q.id = p.id)
  <2>1. r = Append(projects, p)
    BY <1>2, SameLists DEF Projecting!Add
  <2>2. /\ Append(projects, p) \in Seq(known) /\ InList(Append(projects, p)) = InList(projects) \cup {p}
        /\ Len(projects) \in Nat /\ DOMAIN projects = 1..Len(projects)
        /\ DOMAIN Append(projects, p) = 1..(Len(projects) + 1)
        /\ \A i \in 1..Len(projects) : Append(projects, p)[i] = projects[i]
        /\ Append(projects, p)[Len(projects) + 1] = p
    BY AppendProperties, InListAppend, LenProperties
  <2>3. \A i \in 1..Len(projects) : projects[i].id # p.id
    BY <1>2, <2>2 DEF InList
  <2>4. \A i \in 1..(Len(projects) + 1) : i \in 1..Len(projects) \/ i = Len(projects) + 1
    BY <2>2
  <2>5. \A i, j \in DOMAIN r : r[i].id = r[j].id => i = j
    BY <2>1, <2>2, <2>3, <2>4
  <2> QED BY <2>1, <2>2, <2>5
<1> QED BY <1>1, <1>2

\* A name is resolved: the next one is searched for, or all are.
LEMMA ResolvedFacts ==
  ASSUME ResolutionTyped, NEW p, Projecting!Resolved(p), Steady
  PROVE  /\ projects' = Projecting!Add(p) /\ questions' = questions /\ allMode' = allMode
         /\ \/ /\ turnOf < Len(Projecting!Wanted) /\ turnOf' = turnOf + 1
               /\ resolving' = "list" /\ pageOf' = 1 /\ got' = << >>
            \/ /\ turnOf = Len(Projecting!Wanted) /\ turnOf' = turnOf
               /\ resolving' = "done" /\ pageOf' = pageOf /\ got' = got
<1>1. turnOf \in 1..Len(Projecting!Wanted) /\ Len(Projecting!Wanted) \in Nat
  BY WantedTyped DEF ResolutionTyped
<1> QED BY <1>1 DEF Projecting!Resolved, Projecting!Search

\* It keeps the types ...
LEMMA ResolvedTyped ==
  ASSUME ResolutionTyped, ResolvedSoFar, NEW p \in known, Projecting!Resolved(p), Steady, unsettled' \in BOOLEAN
  PROVE  ResolutionTyped'
<1>1. Projecting!Wanted' = Projecting!Wanted
  BY SameSetting DEF Steady
<1>2. projects' \in Seq(known) /\ questions' = questions /\ allMode' = allMode
  BY ResolvedFacts, AddFacts DEF ResolutionTyped, ResolvedSoFar
<1>3. /\ turnOf' \in 1..Len(Projecting!Wanted) /\ pageOf' \in Nat \ {0} /\ got' \in Seq(known)
      /\ resolving' \in {"list", "done"}
  <2>1. /\ turnOf \in 1..Len(Projecting!Wanted) /\ Len(Projecting!Wanted) \in Nat
        /\ pageOf \in Nat \ {0} /\ got \in Seq(known) /\ << >> \in Seq(known)
    BY WantedTyped, EmptySeq DEF ResolutionTyped
  <2>2. \/ /\ turnOf < Len(Projecting!Wanted) /\ turnOf' = turnOf + 1
           /\ resolving' = "list" /\ pageOf' = 1 /\ got' = << >>
        \/ /\ turnOf' = turnOf /\ resolving' = "done" /\ pageOf' = pageOf /\ got' = got
    BY ResolvedFacts
  <2>3. turnOf' \in 1..Len(Projecting!Wanted)
    BY <2>1, <2>2
  <2>4. pageOf' \in Nat \ {0}
    BY <2>1, <2>2
  <2>5. got' \in Seq(known)
    BY <2>1, <2>2
  <2>6. resolving' \in {"list", "done"}
    BY <2>2
  <2> QED BY <2>3, <2>4, <2>5, <2>6
<1> QED BY <1>1, <1>2, <1>3 DEF ResolutionTyped, Steady

\* Only the name that was resolved becomes one of the past.
LEMMA PastNext ==
  ASSUME ResolutionTyped, ~allMode, NEW p, Projecting!Resolved(p), Steady, NEW i \in DOMAIN Projecting!Wanted, Past(i)'
  PROVE  Past(i) \/ i = turnOf
<1>1. /\ turnOf \in 1..Len(Projecting!Wanted) /\ Len(Projecting!Wanted) \in Nat
      /\ i \in 1..Len(Projecting!Wanted)
  BY WantedTyped DEF ResolutionTyped
<1>2. i < turnOf' \/ resolving' = "done"
  BY DEF Past
<1> QED BY <1>1, <1>2, ResolvedFacts DEF Past

\* ... what is known of every resolution ...
LEMMA ResolvedKept ==
  ASSUME ResolutionTyped, ResolvedSoFar, resolving \in {"list", "disks", "choose"},
         NEW p \in known, p.name = Projecting!name, Projecting!Resolved(p), Steady
  PROVE  ResolvedSoFar'
<1>1. Projecting!Wanted' = Projecting!Wanted /\ (Everybody' <=> Everybody) /\ known' = known
  BY SameSetting DEF Steady
<1>2. ~allMode /\ ~allMode' /\ ~Everybody' /\ resolving' \in {"list", "done"}
  BY <1>1, ResolvedFacts DEF ResolvedSoFar
<1>3. /\ projects' \in Seq(known)
      /\ InList(projects) \subseteq InList(projects') /\ InList(projects') \subseteq InList(projects) \cup {p}
      /\ \E q \in InList(projects') : q.id = p.id
      /\ \A i, j \in DOMAIN projects' : projects'[i].id = projects'[j].id => i = j
  BY ResolvedFacts, AddFacts DEF ResolutionTyped, ResolvedSoFar
<1>4. \A q \in InList(projects') : q.name \in InList(Projecting!Wanted)
  BY <1>3, WantedTyped DEF ResolvedSoFar
<1>5. ASSUME NEW i \in DOMAIN Projecting!Wanted, Past(i)'
      PROVE  \E q \in InList(projects') : Projecting!Project(q.id, Projecting!Wanted[i]) \in known
  <2>1. CASE Past(i)
    BY <1>3, <1>5, <2>1 DEF ResolvedSoFar
  <2>2. CASE i = turnOf
    <3>1. PICK q \in InList(projects') : q.id = p.id
      BY <1>3
    <3>2. p = [id |-> p.id, name |-> p.name]
      BY DEF ResolutionTyped, Projecting!ProjectSet
    <3>3. Projecting!Project(q.id, Projecting!Wanted[i]) = p
      BY <2>2, <3>1, <3>2, WantedTyped DEF Projecting!Project
    <3> QED BY <3>1, <3>3
  <2> QED BY <1>2, <1>5, <2>1, <2>2, PastNext
<1>6. \A i \in DOMAIN Projecting!Wanted' : Past(i)' =>
        \E q \in InList(projects') : Projecting!Project(q.id, Projecting!Wanted'[i]) \in known'
  BY <1>1, <1>5
<1>7. \A q \in InList(projects') : q.name \in InList(Projecting!Wanted')
  BY <1>1, <1>4
<1> QED BY <1>2, <1>3, <1>6, <1>7 DEF ResolvedSoFar, Projecting!Project, InList

\* ... and of a calm one.
LEMMA ResolvedCalm ==
  ASSUME ResolutionTyped, ResolvedSoFar, CalmResolution, resolving \in {"list", "disks", "choose"},
         NEW p \in known, p.name = Projecting!name, Projecting!Resolved(p), Steady,
         Ambiguous(Projecting!name) => Projecting!name \in questions /\ (web => p.id = preselected)
  PROVE  CalmResolution'
<1>1. /\ Projecting!Wanted' = Projecting!Wanted /\ catalog' = catalog /\ web' = web
      /\ preselected' = preselected /\ questions' = questions
  BY SameSetting, ResolvedFacts DEF Steady
<1>2. ~allMode /\ resolving' \in {"list", "done"}
  BY ResolvedFacts DEF ResolvedSoFar
<1>3. InList(projects') \subseteq InList(projects) \cup {p}
  BY ResolvedFacts, AddFacts DEF ResolutionTyped, ResolvedSoFar
<1>4. \A n : (Projecting!IsTwice(n)' <=> Projecting!IsTwice(n)) /\ (Ambiguous(n)' <=> Ambiguous(n))
  BY <1>1, SameCatalog
<1>5. resolving' = "list" =>
        /\ (pageOf' - 1) * ListSize <= Len(catalog.list)
        /\ got' = SubSeq(catalog.list, 1, (pageOf' - 1) * ListSize)
  <2> SUFFICES ASSUME resolving' = "list"
               PROVE  /\ (pageOf' - 1) * ListSize <= Len(catalog.list)
                      /\ got' = SubSeq(catalog.list, 1, (pageOf' - 1) * ListSize)
    OBVIOUS
  <2>1. pageOf' = 1 /\ got' = << >>
    BY ResolvedFacts
  <2>2. (pageOf' - 1) * ListSize = 0
    BY <2>1, ListAssumption
  <2>3. Len(catalog.list) \in Nat /\ SubSeq(catalog.list, 1, 0) = << >>
    BY LenProperties, SubSeqEmpty DEF ResolutionTyped
  <2> QED BY <2>1, <2>2, <2>3
<1>6. \A n \in questions' : Projecting!IsTwice(n)'
  BY <1>1, <1>4 DEF CalmResolution
<1>7. ASSUME NEW i \in DOMAIN Projecting!Wanted, Past(i)', Ambiguous(Projecting!Wanted[i])
      PROVE  Projecting!Wanted[i] \in questions
  <2>1. Past(i) \/ i = turnOf
    BY <1>2, <1>7, PastNext
  <2>2. i = turnOf => Projecting!Wanted[i] = Projecting!name
    BY WantedTyped
  <2> QED BY <1>7, <2>1, <2>2 DEF CalmResolution
<1>8. web => \A q \in InList(projects') : Ambiguous(q.name) => q.id = preselected
  BY <1>3 DEF CalmResolution
<1> QED BY <1>1, <1>2, <1>4, <1>5, <1>6, <1>7, <1>8 DEF CalmResolution, InList

\* Somebody is asked which of several is meant.
LEMMA AsksKeeps ==
  ASSUME ResolutionTyped, ResolvedSoFar, resolving \in {"list", "disks"}, unsettled' \in BOOLEAN, Steady,
         NEW all \in Seq(known), NEW matches \in Seq(known), InList(matches) = Matches(all), Asks(matches)
  PROVE  ResolutionTyped' /\ ResolvedSoFar'
<1>1. Projecting!Wanted' = Projecting!Wanted /\ (Everybody' <=> Everybody) /\ Projecting!name' = Projecting!name
  BY SameSetting DEF Steady, Asks, Projecting!name
<1>2. ~allMode /\ ~Everybody
  BY DEF ResolvedSoFar
<1>3. ResolutionTyped'
  <2>1. Projecting!name \in InList(Projecting!Wanted)
    BY WantedTyped
  <2> QED BY <1>1, <2>1 DEF ResolutionTyped, Steady, Asks
<1>4. \A p \in InList(matches) : p.name = Projecting!name
  BY DEF Matches
<1>5. \A i \in DOMAIN Projecting!Wanted : Past(i)' => Past(i)
  BY DEF Past, Asks
<1> QED BY <1>1, <1>2, <1>3, <1>4, <1>5 DEF ResolvedSoFar, Steady, Asks, InList

\* Calm, the gateway has the name twice.
LEMMA AsksCalm ==
  ASSUME ResolutionTyped, ResolvedSoFar, CalmResolution, resolving \in {"list", "disks"}, Steady,
         NEW matches, Asks(matches), Projecting!IsTwice(Projecting!name)
  PROVE  CalmResolution'
<1>1. /\ Projecting!Wanted' = Projecting!Wanted /\ Projecting!name' = Projecting!name
      /\ catalog' = catalog /\ web' = web /\ preselected' = preselected
      /\ projects' = projects /\ resolving' = "choose"
      /\ questions' = questions \cup {Projecting!name}
  BY SameSetting DEF Steady, Asks, Projecting!name
<1>2. \A n : (Projecting!IsTwice(n)' <=> Projecting!IsTwice(n)) /\ (Ambiguous(n)' <=> Ambiguous(n))
  BY <1>1, SameCatalog
<1>3. \A i \in DOMAIN Projecting!Wanted : Past(i)' => Past(i)
  BY DEF Past, Asks
<1>4. \A n \in questions' : Projecting!IsTwice(n)'
  BY <1>1, <1>2 DEF CalmResolution
<1>5. \A i \in DOMAIN Projecting!Wanted :
        Past(i)' /\ Ambiguous(Projecting!Wanted[i]) => Projecting!Wanted[i] \in questions'
  BY <1>1, <1>3 DEF CalmResolution
<1> QED BY <1>1, <1>2, <1>4, <1>5 DEF CalmResolution, InList

\* Another page is fetched.
LEMMA NextPageKeeps ==
  ASSUME ResolutionTyped, ResolvedSoFar, resolving \in {"list", "disks"}, unsettled' \in BOOLEAN, Steady,
         NEW all \in Seq(known), NextPage(all)
  PROVE  ResolutionTyped' /\ ResolvedSoFar'
<1>1. Projecting!Wanted' = Projecting!Wanted /\ (Everybody' <=> Everybody) /\ Projecting!name' = Projecting!name
  BY SameSetting DEF Steady, NextPage, Projecting!name
<1>2. ResolutionTyped'
  BY <1>1 DEF ResolutionTyped, Steady, NextPage
<1>3. \A i \in DOMAIN Projecting!Wanted : Past(i)' => Past(i)
  BY DEF Past, NextPage
<1> QED BY <1>1, <1>2, <1>3 DEF ResolvedSoFar, Steady, NextPage, InList

\* Calm, what is there is what the pages before had.
LEMMA NextPageCalm ==
  ASSUME ResolutionTyped, ResolvedSoFar, CalmResolution, Steady, NEW all, NextPage(all),
         \/ /\ resolving = "list" /\ pageOf * ListSize <= Len(catalog.list)
            /\ all = SubSeq(catalog.list, 1, pageOf * ListSize)
         \/ /\ resolving = "disks" /\ pageOf * PageSize <= Len(catalog.disks) /\ Distinct(all)
            /\ InList(all) = Projecting!Complete(SubSeq(catalog.disks, 1, pageOf * PageSize))
  PROVE  CalmResolution'
<1>1. /\ Projecting!Wanted' = Projecting!Wanted /\ Projecting!name' = Projecting!name
      /\ catalog' = catalog /\ web' = web /\ preselected' = preselected
      /\ projects' = projects /\ resolving' = resolving /\ questions' = questions /\ got' = all
  BY SameSetting DEF Steady, NextPage, Projecting!name
<1>2. \A n : /\ Projecting!IsTwice(n)' <=> Projecting!IsTwice(n)
             /\ Ambiguous(n)' <=> Ambiguous(n)
             /\ Projecting!Listed(n)' = Projecting!Listed(n)
  BY <1>1, SameCatalog
<1>3. \A i \in DOMAIN Projecting!Wanted : Past(i)' => Past(i)
  BY DEF Past, NextPage
<1>4. pageOf' - 1 = pageOf
  BY DEF NextPage, ResolutionTyped
<1>5. \A n \in questions' : Projecting!IsTwice(n)'
  BY <1>1, <1>2 DEF CalmResolution
<1>6. \A i \in DOMAIN Projecting!Wanted :
        Past(i)' /\ Ambiguous(Projecting!Wanted[i]) => Projecting!Wanted[i] \in questions'
  BY <1>1, <1>3 DEF CalmResolution
<1>7. resolving' = "disks" => Projecting!Listed(Projecting!name)' = {}
  BY <1>1, <1>2 DEF CalmResolution
<1>8. /\ resolving' = "list" => /\ (pageOf' - 1) * ListSize <= Len(catalog.list)
                                /\ got' = SubSeq(catalog.list, 1, (pageOf' - 1) * ListSize)
      /\ resolving' = "disks" =>
           /\ (pageOf' - 1) * PageSize <= Len(catalog.disks)
           /\ Distinct(got')
           /\ InList(got') = Projecting!Complete(SubSeq(catalog.disks, 1, (pageOf' - 1) * PageSize))
  BY <1>1, <1>4
<1>9. Distinct(got)' = Distinct(got') /\ InList(got)' = InList(got')
  BY DEF Distinct, InList
<1>10. (resolving = "list" => /\ (pageOf - 1) * ListSize <= Len(catalog.list)
                              /\ got = SubSeq(catalog.list, 1, (pageOf - 1) * ListSize))'
  BY <1>1, <1>8
<1>11. (resolving = "disks" =>
          /\ (pageOf - 1) * PageSize <= Len(catalog.disks)
          /\ Distinct(got)
          /\ InList(got) = Projecting!Complete(SubSeq(catalog.disks, 1, (pageOf - 1) * PageSize)))'
  BY <1>1, <1>8, <1>9 DEF Projecting!Complete, Projecting!ToSet
<1>12. resolving' \in {"list", "disks"}
  BY <1>1
<1> QED BY <1>1, <1>2, <1>5, <1>6, <1>7, <1>10, <1>11, <1>12 DEF CalmResolution, InList

\* The list does not have the name, and the disks are looked at.
LEMMA DisksKeeps ==
  ASSUME ResolutionTyped, ResolvedSoFar, resolving = "list", unsettled' \in BOOLEAN, Steady,
         Projecting!LookAmongDisks
  PROVE  ResolutionTyped' /\ ResolvedSoFar'
<1>1. Projecting!Wanted' = Projecting!Wanted /\ (Everybody' <=> Everybody)
  BY SameSetting DEF Steady
<1>2. ResolutionTyped'
  BY <1>1, EmptySeq DEF ResolutionTyped, Steady, Projecting!LookAmongDisks, Projecting!Search
<1>3. \A i \in DOMAIN Projecting!Wanted : Past(i)' => Past(i)
  BY DEF Past, Projecting!LookAmongDisks, Projecting!Search
<1> QED BY <1>1, <1>2, <1>3 DEF ResolvedSoFar, Steady, Projecting!LookAmongDisks, Projecting!Search, InList

\* Calm, the list has nobody of that name.
LEMMA DisksCalm ==
  ASSUME ResolutionTyped, ResolvedSoFar, CalmResolution, resolving = "list", Steady,
         Projecting!LookAmongDisks, Projecting!Listed(Projecting!name) = {}
  PROVE  CalmResolution'
<1>1. /\ Projecting!Wanted' = Projecting!Wanted /\ Projecting!name' = Projecting!name
      /\ catalog' = catalog /\ web' = web /\ preselected' = preselected
      /\ projects' = projects /\ resolving' = "disks" /\ questions' = questions /\ got' = << >> /\ pageOf' = 1
  BY SameSetting DEF Steady, Projecting!LookAmongDisks, Projecting!Search, Projecting!name
<1>2. \A n : /\ Projecting!IsTwice(n)' <=> Projecting!IsTwice(n)
             /\ Ambiguous(n)' <=> Ambiguous(n)
             /\ Projecting!Listed(n)' = Projecting!Listed(n)
  BY <1>1, SameCatalog
<1>3. \A i \in DOMAIN Projecting!Wanted : Past(i)' => Past(i)
  BY DEF Past, Projecting!LookAmongDisks, Projecting!Search
<1>4. (pageOf' - 1) * PageSize = 0
  BY <1>1, CollectAssumption
<1>5. Len(catalog.disks) \in Nat /\ SubSeq(catalog.disks, 1, 0) = << >>
  BY LenProperties, SubSeqEmpty DEF ResolutionTyped
<1>6. \A n \in questions' : Projecting!IsTwice(n)'
  BY <1>1, <1>2 DEF CalmResolution
<1>7. \A i \in DOMAIN Projecting!Wanted :
        Past(i)' /\ Ambiguous(Projecting!Wanted[i]) => Projecting!Wanted[i] \in questions'
  BY <1>1, <1>3 DEF CalmResolution
<1>8. Projecting!Listed(Projecting!name)' = {}
  BY <1>1, <1>2
<1>9. Distinct(<< >>) /\ InList(<< >>) = {} /\ Projecting!Complete(<< >>) = {}
  BY DEF Distinct, InList, Projecting!Complete, Projecting!ToSet
<1>10. /\ (pageOf' - 1) * PageSize <= Len(catalog.disks)
       /\ Distinct(got') /\ InList(got') = Projecting!Complete(SubSeq(catalog.disks, 1, (pageOf' - 1) * PageSize))
  <2> DEFINE k == (pageOf' - 1) * PageSize
  <2>1. k = 0
    BY <1>4
  <2> HIDE DEF k
  <2>2. k <= Len(catalog.disks)
    BY <1>5, <2>1
  <2>3. Projecting!Complete(SubSeq(catalog.disks, 1, k)) = {}
    BY <1>5, <1>9, <2>1
  <2>4. Distinct(got') /\ InList(got') = {}
    BY <1>1, <1>9
  <2> QED BY <2>2, <2>3, <2>4 DEF k
<1>11. Distinct(got)' = Distinct(got') /\ InList(got)' = InList(got')
  BY DEF Distinct, InList
<1>12. (resolving = "disks" =>
          /\ Projecting!Listed(Projecting!name) = {}
          /\ (pageOf - 1) * PageSize <= Len(catalog.disks)
          /\ Distinct(got)
          /\ InList(got) = Projecting!Complete(SubSeq(catalog.disks, 1, (pageOf - 1) * PageSize)))'
  BY <1>1, <1>8, <1>10, <1>11 DEF Projecting!Complete, Projecting!ToSet
<1> QED BY <1>1, <1>2, <1>6, <1>7, <1>12 DEF CalmResolution, InList

\* Nobody has the name, or a request fails: the resolution does.
LEMMA FailKeeps ==
  ASSUME ResolutionTyped, ResolvedSoFar, resolving \in {"list", "disks", "choose"}, unsettled' \in BOOLEAN, Steady,
         resolving' = "failed", UNCHANGED Projecting!search
  PROVE  ResolutionTyped' /\ ResolvedSoFar'
<1>1. Projecting!Wanted' = Projecting!Wanted /\ (Everybody' <=> Everybody)
  BY SameSetting DEF Steady
<1>2. ResolutionTyped'
  BY <1>1 DEF ResolutionTyped, Steady, Projecting!search
<1>3. \A i \in DOMAIN Projecting!Wanted : Past(i)' => Past(i)
  BY DEF Past, Projecting!search
<1> QED BY <1>1, <1>2, <1>3 DEF ResolvedSoFar, Steady, Projecting!search, InList

\* Calm, it fails for a reason.
LEMMA FailCalm ==
  ASSUME ResolutionTyped, ResolvedSoFar, CalmResolution, Steady, resolving' = "failed", UNCHANGED Projecting!search,
         Projecting!FoundAs(Projecting!name) = {} \/ Projecting!name \in questions
  PROVE  CalmResolution'
<1>1. /\ Projecting!Wanted' = Projecting!Wanted /\ Projecting!name' = Projecting!name
      /\ catalog' = catalog /\ web' = web /\ preselected' = preselected
      /\ projects' = projects /\ questions' = questions
  BY SameSetting DEF Steady, Projecting!search, Projecting!name
<1>2. \A n : /\ Projecting!IsTwice(n)' <=> Projecting!IsTwice(n)
             /\ Ambiguous(n)' <=> Ambiguous(n)
             /\ Projecting!FoundAs(n)' = Projecting!FoundAs(n)
  BY <1>1, SameCatalog
<1>3. \A i \in DOMAIN Projecting!Wanted : Past(i)' => Past(i)
  BY DEF Past, Projecting!search
<1>4. \A n \in questions' : Projecting!IsTwice(n)'
  BY <1>1, <1>2 DEF CalmResolution
<1>5. \A i \in DOMAIN Projecting!Wanted :
        Past(i)' /\ Ambiguous(Projecting!Wanted[i]) => Projecting!Wanted[i] \in questions'
  BY <1>1, <1>3 DEF CalmResolution
<1>6. Projecting!FoundAs(Projecting!name)' = {} \/ Projecting!name' \in questions'
  BY <1>1, <1>2
<1> QED BY <1>1, <1>2, <1>4, <1>5, <1>6 DEF CalmResolution, InList

\* The places of a list in two parts.
LEMMA ConcatPlaces ==
  ASSUME NEW X, NEW q \in Seq(X), NEW r \in Seq(X)
  PROVE  /\ Len(q) \in Nat /\ Len(r) \in Nat /\ DOMAIN q = 1..Len(q) /\ DOMAIN r = 1..Len(r)
         /\ DOMAIN (q \o r) = 1..(Len(q) + Len(r))
         /\ \A i \in 1..(Len(q) + Len(r)) : (q \o r)[i] = IF i <= Len(q) THEN q[i] ELSE r[i - Len(q)]
BY LenProperties, ConcatProperties

\* Places of the second part.
LEMMA Shifted ==
  ASSUME NEW m \in Nat, NEW l \in Nat, NEW i \in 1..l
  PROVE  i + m \in 1..(m + l) /\ ~(i + m <= m) /\ (i + m) - m = i
OBVIOUS

\* Who has a name, by the list that is complete.
LEMMA TwiceListed ==
  ASSUME catalog.list \in Seq(Projecting!ProjectSet), catalog.disks \in Seq(Projecting!ProjectSet),
         NEW n,
         \/ \E i, j \in DOMAIN catalog.list : i # j /\ catalog.list[i].name = n /\ catalog.list[j].name = n
         \/ \E i, j \in DOMAIN catalog.disks : i # j /\ catalog.disks[i].name = n /\ catalog.disks[j].name = n
  PROVE  Projecting!IsTwice(n)
<1> DEFINE all == catalog.list \o catalog.disks
           k == Len(catalog.list)
           l == Len(catalog.disks)
<1>1. /\ k \in Nat /\ l \in Nat /\ DOMAIN catalog.list = 1..k /\ DOMAIN catalog.disks = 1..l
      /\ DOMAIN all = 1..(k + l)
      /\ \A i \in 1..(k + l) : all[i] = IF i <= k THEN catalog.list[i] ELSE catalog.disks[i - k]
  BY ConcatPlaces
<1> HIDE DEF all, k, l
<1>2. ASSUME NEW i \in DOMAIN catalog.list, NEW j \in DOMAIN catalog.list,
             i # j, catalog.list[i].name = n, catalog.list[j].name = n
      PROVE  \E a, b \in DOMAIN all : a # b /\ n = all[a].name /\ n = all[b].name
  <2>1. i \in 1..(k + l) /\ j \in 1..(k + l) /\ i <= k /\ j <= k
    BY <1>1, <1>2
  <2> QED BY <1>1, <1>2, <2>1
<1>3. ASSUME NEW i \in DOMAIN catalog.disks, NEW j \in DOMAIN catalog.disks,
             i # j, catalog.disks[i].name = n, catalog.disks[j].name = n
      PROVE  \E a, b \in DOMAIN all : a # b /\ n = all[a].name /\ n = all[b].name
  <2>1. /\ i + k \in 1..(k + l) /\ j + k \in 1..(k + l) /\ ~(i + k <= k) /\ ~(j + k <= k)
        /\ (i + k) - k = i /\ (j + k) - k = j /\ i + k # j + k
    <3>1. k \in Nat /\ l \in Nat /\ i \in 1..l /\ j \in 1..l /\ i # j
      BY <1>1, <1>3
    <3>2. /\ i + k \in 1..(k + l) /\ ~(i + k <= k) /\ (i + k) - k = i
          /\ j + k \in 1..(k + l) /\ ~(j + k <= k) /\ (j + k) - k = j
      BY <3>1, Shifted
    <3> QED BY <3>1, <3>2
  <2>2. all[i + k] = catalog.disks[i] /\ all[j + k] = catalog.disks[j]
    BY <1>1, <2>1
  <2> QED BY <1>1, <1>3, <2>1, <2>2
<1>4. \E a, b \in DOMAIN all : a # b /\ n = all[a].name /\ n = all[b].name
  BY <1>2, <1>3
<1> QED BY <1>4 DEF Projecting!IsTwice, all

\* One project of a name leaves no choice.
LEMMA OneIsClear ==
  ASSUME NEW S, NEW p, NEW n, {q \in S : q.name = n} = {p}
  PROVE  Projecting!Named(n, S) = {p.id} /\ Projecting!Named(n, S) # {} /\ ~(Cardinality(Projecting!Named(n, S)) > 1)
<1>1. Projecting!Named(n, S) = {p.id}
  BY DEF Projecting!Named
<1>2. Cardinality({p.id}) = 1
  BY FS_Singleton
<1> QED BY <1>1, <1>2

\* The whole list tells who has a name, and whether it is ambiguous.
LEMMA ListTells ==
  ASSUME ResolutionTyped, NEW all, all = catalog.list
  PROVE  /\ Matches(all) = {} => Projecting!Listed(Projecting!name) = {}
         /\ \A p : Matches(all) = {p} => ~Ambiguous(Projecting!name)
         /\ Many(all) => Projecting!IsTwice(Projecting!name)
<1>1. Matches(all) = {q \in Projecting!ToSet(catalog.list) : q.name = Projecting!name}
  BY SameLists DEF Matches
<1>2. Matches(all) = {} => Projecting!Listed(Projecting!name) = {}
  BY <1>1 DEF Projecting!Listed, Projecting!Named
<1>3. ASSUME NEW p, Matches(all) = {p} PROVE ~Ambiguous(Projecting!name)
  <2>1. /\ Projecting!Listed(Projecting!name) # {}
        /\ ~(Cardinality(Projecting!Listed(Projecting!name)) > 1)
    BY <1>1, <1>3, OneIsClear DEF Projecting!Listed
  <2> QED BY <2>1 DEF Ambiguous, Projecting!FoundAs
<1>4. Many(all) => Projecting!IsTwice(Projecting!name)
  <2>1. catalog.list \in Seq(Projecting!ProjectSet) /\ catalog.disks \in Seq(Projecting!ProjectSet)
    BY DEF ResolutionTyped
  <2> QED BY <2>1, TwiceListed DEF Many
<1> QED BY <1>2, <1>3, <1>4

\* So do all disks, if the list does not have the name.
LEMMA DisksTell ==
  ASSUME ResolutionTyped, Projecting!Listed(Projecting!name) = {}, NEW all, Distinct(all),
         InList(all) = Projecting!Complete(catalog.disks)
  PROVE  /\ Matches(all) = {} => Projecting!FoundAs(Projecting!name) = {}
         /\ \A p : Matches(all) = {p} => ~Ambiguous(Projecting!name)
         /\ Many(all) => Projecting!IsTwice(Projecting!name)
<1>1. Matches(all) = {q \in Projecting!Complete(catalog.disks) : q.name = Projecting!name}
  BY DEF Matches
<1>2. Projecting!FoundAs(Projecting!name) = Projecting!OfDisks(Projecting!name)
  BY DEF Projecting!FoundAs
<1>3. Matches(all) = {} => Projecting!FoundAs(Projecting!name) = {}
  BY <1>1, <1>2 DEF Projecting!OfDisks, Projecting!Named
<1>4. ASSUME NEW p, Matches(all) = {p} PROVE ~Ambiguous(Projecting!name)
  <2>1. ~(Cardinality(Projecting!OfDisks(Projecting!name)) > 1)
    BY <1>1, <1>4, OneIsClear DEF Projecting!OfDisks
  <2> QED BY <1>2, <2>1 DEF Ambiguous
<1>5. ASSUME Many(all) PROVE Projecting!IsTwice(Projecting!name)
  <2>1. PICK i, j \in DOMAIN all : i # j /\ all[i].name = Projecting!name /\ all[j].name = Projecting!name
    BY <1>5 DEF Many
  <2>2. all[i] # all[j] /\ all[i] \in InList(all) /\ all[j] \in InList(all)
    BY <2>1 DEF Distinct, InList
  <2>3. all[i] \in Projecting!ToSet(catalog.disks) /\ all[j] \in Projecting!ToSet(catalog.disks)
    BY <2>2 DEF Projecting!Complete
  <2>4. PICK a, b \in DOMAIN catalog.disks : catalog.disks[a] = all[i] /\ catalog.disks[b] = all[j]
    BY <2>3 DEF Projecting!ToSet
  <2>5. a # b /\ catalog.disks[a].name = Projecting!name /\ catalog.disks[b].name = Projecting!name
    BY <2>1, <2>2, <2>4
  <2>6. catalog.list \in Seq(Projecting!ProjectSet) /\ catalog.disks \in Seq(Projecting!ProjectSet)
    BY DEF ResolutionTyped
  <2> QED BY <2>5, <2>6, TwiceListed
<1> QED BY <1>3, <1>4, <1>5

\* What a complete list settles.
LEMMA SettledKeeps ==
  ASSUME ResolutionTyped, ResolvedSoFar, resolving \in {"list", "disks"}, unsettled' \in BOOLEAN, Steady,
         NEW all \in Seq(known), Settled(all)
  PROVE  ResolutionTyped' /\ ResolvedSoFar'
<1>1. ASSUME NEW p \in known, Matches(all) = {p}, Projecting!Resolved(p)
      PROVE  ResolutionTyped' /\ ResolvedSoFar'
  <2>1. p.name = Projecting!name
    BY <1>1 DEF Matches
  <2> QED BY <1>1, <2>1, ResolvedTyped, ResolvedKept
<1>2. ASSUME NEW matches \in Seq(known), InList(matches) = Matches(all), Asks(matches)
      PROVE  ResolutionTyped' /\ ResolvedSoFar'
  BY <1>2, AsksKeeps
<1> QED BY <1>1, <1>2 DEF Settled

\* Calm, what is settled without a question was clear.
LEMMA SettledCalm ==
  ASSUME ResolutionTyped, ResolvedSoFar, CalmResolution, resolving \in {"list", "disks"}, Steady,
         NEW all \in Seq(known), Settled(all),
         \A p : Matches(all) = {p} => ~Ambiguous(Projecting!name),
         Many(all) => Projecting!IsTwice(Projecting!name)
  PROVE  CalmResolution'
<1>1. ASSUME NEW p \in known, Matches(all) = {p}, Projecting!Resolved(p)
      PROVE  CalmResolution'
  <2>1. p.name = Projecting!name /\ ~Ambiguous(Projecting!name)
    BY <1>1 DEF Matches
  <2> QED BY <1>1, <2>1, ResolvedCalm
<1>2. ASSUME NEW matches \in Seq(known), Many(all), Asks(matches)
      PROVE  CalmResolution'
  BY <1>2, AsksCalm
<1> QED BY <1>1, <1>2 DEF Settled

\* Every answer to a request of the list, an error among them.
LEMMA ListAnswerKeeps ==
  ASSUME ResolutionTyped, ResolvedSoFar, NEW items \in Seq(known), NEW total \in Nat, known' = known,
         Projecting!ListAnswer(items, total), unsettled' \in BOOLEAN
  PROVE  ResolutionTyped' /\ ResolvedSoFar'
<1>1. got \in Seq(known)
  BY DEF ResolutionTyped
<1>2. /\ resolving = "list" /\ got \o items \in Seq(known) /\ Steady
      /\ \/ Settled(got \o items) \/ Projecting!LookAmongDisks \/ NextPage(got \o items)
  BY <1>1, ListCases DEF Steady
<1> QED BY <1>2, SettledKeeps, DisksKeeps, NextPageKeeps

\* Every answer to a request of the disks, an error among them.
LEMMA DiskAnswerKeeps ==
  ASSUME ResolutionTyped, ResolvedSoFar, NEW items \in Seq(known), NEW total \in Int, known' = known,
         Projecting!DiskAnswer(items, total), unsettled' \in BOOLEAN
  PROVE  ResolutionTyped' /\ ResolvedSoFar'
<1>1. got \in Seq(known) /\ pageOf \in Nat
  BY DEF ResolutionTyped
<1>2. /\ resolving = "disks" /\ WithDisks(items) \in Seq(known) /\ Steady
      /\ \/ Settled(WithDisks(items)) \/ Projecting!NotFound \/ NextPage(WithDisks(items))
  BY <1>1, DiskCases DEF Steady
<1>3. Projecting!NotFound => resolving' = "failed" /\ UNCHANGED Projecting!search
  BY DEF Projecting!NotFound
<1> QED BY <1>2, <1>3, SettledKeeps, FailKeeps, NextPageKeeps

\* What the gateway answers is known.
LEMMA KnownPages ==
  ASSUME ResolutionTyped
  PROVE  /\ catalog.list \in Seq(known) /\ catalog.disks \in Seq(known)
         /\ PageOf(catalog.list, pageOf, ListSize) \in Seq(known)
         /\ PageOf(catalog.disks, pageOf, PageSize) \in Seq(known)
         /\ Len(catalog.list) \in Nat /\ Pages(catalog.disks, PageSize) \in Int
<1>1. \A q \in Seq(Projecting!ProjectSet) : InList(q) \subseteq known => q \in Seq(known)
  <2> TAKE q \in Seq(Projecting!ProjectSet)
  <2>1. Len(q) \in Nat /\ DOMAIN q = 1..Len(q) /\ q = [i \in 1..Len(q) |-> q[i]]
    BY LenProperties
  <2>2. InList(q) \subseteq known => \A i \in 1..Len(q) : q[i] \in known
    BY <2>1 DEF InList
  <2> QED BY <2>1, <2>2, SeqDef
<1>2. catalog.list \in Seq(known) /\ catalog.disks \in Seq(known)
  BY <1>1 DEF ResolutionTyped
<1>3. pageOf \in Nat \ {0} /\ ListSize \in Nat \ {0} /\ PageSize \in Nat \ {0}
  BY ListAssumption, CollectAssumption DEF ResolutionTyped
<1>4. Len(catalog.list) \in Nat /\ Len(catalog.disks) \in Nat
  BY <1>2, LenProperties
<1>5. Pages(catalog.disks, PageSize) \in Int
  BY <1>3, <1>4 DEF Pages
<1> QED BY <1>2, <1>3, <1>4, <1>5, PageTyped

\* A page of the list that comes in calm.
LEMMA ListPageCalm ==
  ASSUME ResolutionTyped, ResolvedSoFar, CalmResolution, known' = known,
         Projecting!ListAnswer(PageOf(catalog.list, pageOf, ListSize), Len(catalog.list))
  PROVE  CalmResolution'
<1> DEFINE q == catalog.list
           items == PageOf(q, pageOf, ListSize)
           all == got \o items
<1>1. /\ got \in Seq(known) /\ q \in Seq(known) /\ items \in Seq(known) /\ Len(q) \in Nat
      /\ pageOf \in Nat \ {0} /\ ListSize \in Nat \ {0}
  BY KnownPages, ListAssumption DEF ResolutionTyped
<1>2. /\ resolving = "list" /\ all \in Seq(known) /\ Steady
      /\ \/ /\ items = << >> \/ Len(all) >= Len(q)
            /\ Settled(all) \/ (Matches(all) = {} /\ Projecting!LookAmongDisks)
         \/ /\ ~(items = << >> \/ Len(all) >= Len(q))
            /\ NextPage(all)
  BY <1>1, ListCases DEF Steady
<1>3. (pageOf - 1) * ListSize <= Len(q) /\ got = SubSeq(q, 1, (pageOf - 1) * ListSize)
  BY <1>2 DEF CalmResolution
<1> HIDE DEF q
<1>4. IF items = << >> \/ Len(all) >= Len(q)
      THEN all = q
      ELSE pageOf * ListSize <= Len(q) /\ all = SubSeq(q, 1, pageOf * ListSize)
  <2>1. all = SubSeq(q, 1, (pageOf - 1) * ListSize) \o items
    BY <1>3
  <2>2. IF items = << >> \/ Len(SubSeq(q, 1, (pageOf - 1) * ListSize) \o items) >= Len(q)
        THEN SubSeq(q, 1, (pageOf - 1) * ListSize) \o items = q
        ELSE /\ pageOf * ListSize <= Len(q)
             /\ SubSeq(q, 1, (pageOf - 1) * ListSize) \o items = SubSeq(q, 1, pageOf * ListSize)
    BY <1>1, <1>3, ListPagesFit
  <2> HIDE DEF all, items
  <2> QED BY <2>1, <2>2
<1> HIDE DEF items, all
<1>5. CASE items = << >> \/ Len(all) >= Len(q)
  <2>1. all = q
    BY <1>4, <1>5
  <2>2. CASE Settled(all)
    BY <1>2, <2>1, <2>2, ListTells, SettledCalm DEF q
  <2>3. CASE Matches(all) = {} /\ Projecting!LookAmongDisks
    BY <1>2, <2>1, <2>3, ListTells, DisksCalm DEF q
  <2> QED BY <1>2, <1>5, <2>2, <2>3
<1>6. CASE ~(items = << >> \/ Len(all) >= Len(q))
  <2>1. pageOf * ListSize <= Len(q) /\ all = SubSeq(q, 1, pageOf * ListSize)
    BY <1>4, <1>6
  <2>2. NextPage(all)
    BY <1>2, <1>6
  <2> QED BY <1>2, <2>1, <2>2, NextPageCalm DEF q
<1> QED BY <1>5, <1>6

\* The disks that tell whose they are, of a list in two parts.
LEMMA CompleteConcat ==
  ASSUME NEW X, NEW q \in Seq(X), NEW r \in Seq(X)
  PROVE  Projecting!Complete(q \o r) = Projecting!Complete(q) \cup Projecting!Complete(r)
<1>1. InList(q \o r) = InList(q) \cup InList(r)
  BY InListConcat
<1> QED BY <1>1, SameLists DEF Projecting!Complete

\* A page of the disks that comes in calm.
LEMMA DiskPageCalm ==
  ASSUME ResolutionTyped, ResolvedSoFar, CalmResolution, known' = known,
         Projecting!DiskAnswer(PageOf(catalog.disks, pageOf, PageSize), Pages(catalog.disks, PageSize))
  PROVE  CalmResolution'
<1> DEFINE q == catalog.disks
           items == PageOf(q, pageOf, PageSize)
           total == Pages(q, PageSize)
           all == WithDisks(items)
           before == SubSeq(q, 1, (pageOf - 1) * PageSize)
<1>1. /\ got \in Seq(known) /\ q \in Seq(known) /\ items \in Seq(known) /\ total \in Int
      /\ pageOf \in Nat \ {0} /\ PageSize \in Nat \ {0}
  BY KnownPages, CollectAssumption DEF ResolutionTyped
<1>2. /\ resolving = "disks" /\ all \in Seq(known) /\ Steady
      /\ \/ /\ total <= 0 \/ pageOf >= total
            /\ Settled(all) \/ (Matches(all) = {} /\ Projecting!NotFound)
         \/ /\ ~(total <= 0 \/ pageOf >= total)
            /\ NextPage(all)
  BY <1>1, DiskCases DEF Steady
<1>3. /\ (pageOf - 1) * PageSize <= Len(q) /\ Distinct(got)
      /\ InList(got) = Projecting!Complete(before) /\ Projecting!Listed(Projecting!name) = {}
  BY <1>2 DEF CalmResolution
<1> HIDE DEF q
<1>4. /\ before \in Seq(known)
      /\ (pageOf >= total \/ total <= 0) => before \o items = q
      /\ pageOf < total => pageOf * PageSize <= Len(q) /\ before \o items = SubSeq(q, 1, pageOf * PageSize)
  BY <1>1, <1>3, PagesFit
<1>5. InList(all) = Projecting!Complete(before) \cup Projecting!Complete(items) /\ Distinct(all)
  BY <1>1, <1>3, WithDisksFacts
<1>6. InList(all) = Projecting!Complete(before \o items)
  <2> HIDE DEF items, all, before, total
  <2> QED BY <1>1, <1>4, <1>5, CompleteConcat
<1> HIDE DEF items, all, before, total
<1>7. CASE total <= 0 \/ pageOf >= total
  <2>1. InList(all) = Projecting!Complete(q)
    BY <1>4, <1>6, <1>7
  <2>2. CASE Settled(all)
    BY <1>2, <1>3, <1>5, <2>1, <2>2, DisksTell, SettledCalm DEF q
  <2>3. CASE Matches(all) = {} /\ Projecting!NotFound
    <3>1. Projecting!FoundAs(Projecting!name) = {}
      BY <1>3, <1>5, <2>1, <2>3, DisksTell DEF q
    <3>2. resolving' = "failed" /\ UNCHANGED Projecting!search
      BY <2>3 DEF Projecting!NotFound
    <3> QED BY <1>2, <3>1, <3>2, FailCalm
  <2> QED BY <1>2, <1>7, <2>2, <2>3
<1>8. CASE ~(total <= 0 \/ pageOf >= total)
  <2>1. pageOf < total
    BY <1>1, <1>8
  <2>2. pageOf * PageSize <= Len(q) /\ InList(all) = Projecting!Complete(SubSeq(q, 1, pageOf * PageSize))
    BY <1>4, <1>6, <2>1
  <2>3. NextPage(all)
    BY <1>2, <1>8
  <2> QED BY <1>2, <1>5, <2>2, <2>3, NextPageCalm DEF q
<1> QED BY <1>7, <1>8

\* An answer to the question.
LEMMA ChooseKeeps ==
  ASSUME ResolutionTyped, ResolvedSoFar, Projecting!Choose
  PROVE  /\ ResolutionTyped' /\ ResolvedSoFar' /\ unsettled' = unsettled
         /\ CalmResolution => CalmResolution'
<1>1. resolving = "choose" /\ Steady /\ unsettled' = unsettled /\ unsettled' \in BOOLEAN
  BY DEF Projecting!Choose, Projecting!gateway, Projecting!asking, Steady, ResolutionTyped
<1>2. CalmResolution => Projecting!name \in questions
  BY <1>1 DEF CalmResolution
<1>3. ASSUME NEW p \in InList(got), web => p.id = preselected, Projecting!Resolved(p)
      PROVE  ResolutionTyped' /\ ResolvedSoFar' /\ (CalmResolution => CalmResolution')
  <2>1. p \in known /\ p.name = Projecting!name
    <3>1. InList(got) \subseteq known
      BY LenProperties, ElementOfSeq DEF ResolutionTyped, InList
    <3> QED BY <1>1, <3>1 DEF ResolvedSoFar
  <2> QED BY <1>1, <1>2, <1>3, <2>1, ResolvedTyped, ResolvedKept, ResolvedCalm
<1>4. ASSUME Projecting!NotFound
      PROVE  ResolutionTyped' /\ ResolvedSoFar' /\ (CalmResolution => CalmResolution')
  <2>1. resolving' = "failed" /\ UNCHANGED Projecting!search
    BY <1>4 DEF Projecting!NotFound
  <2> QED BY <1>1, <1>2, <2>1, FailKeeps, FailCalm
<1>5. \/ \E p \in InList(got) : (web => p.id = preselected) /\ Projecting!Resolved(p)
      \/ Projecting!NotFound
  BY SameLists DEF Projecting!Choose, Projecting!Chosen
<1> QED BY <1>1, <1>3, <1>4, <1>5

\* The resolution begins.
LEMMA StartKeeps ==
  ASSUME ResolutionTyped, ResolvedSoFar, Projecting!Start
  PROVE  /\ ResolutionTyped' /\ ResolvedSoFar' /\ unsettled' = unsettled
         /\ CalmResolution => CalmResolution'
<1>1. /\ resolving = "start" /\ Steady /\ unsettled' = unsettled
      /\ UNCHANGED <<turnOf, pageOf, got, questions, projects>>
      /\ IF Everybody THEN resolving' = "done" /\ allMode' = TRUE ELSE resolving' = "list" /\ allMode' = allMode
  BY SameLists DEF Projecting!Start, Projecting!gateway, Projecting!asking, Steady, Everybody
<1>2. Projecting!Wanted' = Projecting!Wanted /\ (Everybody' <=> Everybody)
  BY <1>1, SameSetting DEF Steady
<1>3. turnOf = 1 /\ pageOf = 1 /\ got = << >> /\ questions = {} /\ projects = << >> /\ ~allMode
  <2>1. resolving \in {"page", "start"}
    BY <1>1
  <2> QED BY <2>1 DEF ResolvedSoFar
<1>4. \A i \in DOMAIN Projecting!Wanted : ~Past(i)'
  <2> TAKE i \in DOMAIN Projecting!Wanted
  <2>1. i \in Nat /\ i >= 1
    BY WantedTyped
  <2> QED BY <1>1, <1>3, <2>1 DEF Past
<1>5. ResolutionTyped'
  BY <1>1, <1>2 DEF ResolutionTyped, Steady
<1>6. ResolvedSoFar'
  BY <1>1, <1>2, <1>3, <1>4 DEF ResolvedSoFar, Steady, InList
<1>7. CalmResolution'
  <2>1. ListSize \in Nat \ {0} /\ (pageOf' - 1) * ListSize = 0
    BY <1>1, <1>3, ListAssumption
  <2>2. Len(catalog.list) \in Nat /\ SubSeq(catalog.list, 1, 0) = << >>
    BY LenProperties, SubSeqEmpty DEF ResolutionTyped
  <2>3. /\ (pageOf' - 1) * ListSize <= Len(catalog'.list)
        /\ got' = SubSeq(catalog'.list, 1, (pageOf' - 1) * ListSize)
    BY <1>1, <1>3, <2>1, <2>2 DEF Steady
  <2>4. resolving' \in {"list", "done"} /\ questions' = {} /\ InList(projects') = {}
    BY <1>1, <1>3 DEF InList
  <2> QED BY <1>2, <1>4, <2>3, <2>4 DEF CalmResolution, InList
<1> QED BY <1>1, <1>5, <1>6, <1>7

\* A project goes from a list.
LEMMA ChangeKeeps ==
  ASSUME ResolutionTyped, ResolvedSoFar, Projecting!Change
  PROVE  ResolutionTyped' /\ ResolvedSoFar' /\ unsettled'
<1>1. PICK k \in {"list", "disks"} : \E n \in DOMAIN catalog[k] :
        catalog' = [catalog EXCEPT ![k] = Projecting!RemoveAt(@, n)]
  BY DEF Projecting!Change
<1>2. PICK n \in DOMAIN catalog[k] : catalog' = [catalog EXCEPT ![k] = Projecting!RemoveAt(@, n)]
  BY <1>1
<1>3. /\ unsettled' = TRUE /\ catalogChanges < MaxChanges /\ catalogChanges' = catalogChanges + 1
      /\ UNCHANGED <<known, setting, web, preselected, resolving, turnOf, pageOf, got, questions, projects, allMode>>
  BY DEF Projecting!Change, Projecting!asking, Projecting!search
<1>4. catalog[k] \in Seq(known)
  BY KnownPages
<1>5. Projecting!RemoveAt(catalog[k], n) \in Seq(known)
  <2> DEFINE q == catalog[k]
  <2>1. q \in Seq(known) /\ n \in DOMAIN q
    BY <1>4
  <2> HIDE DEF q
  <2>2. Len(q) \in Nat /\ DOMAIN q = 1..Len(q) /\ \A i \in 1..Len(q) : q[i] \in known
    BY <2>1, LenProperties, ElementOfSeq
  <2>3. SubSeq(q, 1, n - 1) \in Seq(known) /\ SubSeq(q, n + 1, Len(q)) \in Seq(known)
    BY <2>1, <2>2, SubSeqProperties
  <2>4. SubSeq(q, 1, n - 1) \o SubSeq(q, n + 1, Len(q)) \in Seq(known)
    BY <2>3, ConcatProperties
  <2> QED BY <2>4 DEF Projecting!RemoveAt, q
<1>6. catalog'.list \in Seq(known) /\ catalog'.disks \in Seq(known)
      /\ catalog' \in [list : Seq(known), disks : Seq(known)]
  <2>1. catalog.list \in Seq(known) /\ catalog.disks \in Seq(known)
    BY KnownPages
  <2>2. catalog = [list |-> catalog.list, disks |-> catalog.disks]
    BY DEF ResolutionTyped
  <2> QED BY <1>1, <1>2, <1>5, <2>1, <2>2
<1>7. ASSUME NEW q \in Seq(known) PROVE q \in Seq(Projecting!ProjectSet) /\ InList(q) \subseteq known
  <2>1. Len(q) \in Nat /\ DOMAIN q = 1..Len(q) /\ q = [i \in 1..Len(q) |-> q[i]]
        /\ \A i \in 1..Len(q) : q[i] \in known
    BY LenProperties, ElementOfSeq
  <2>2. \A i \in 1..Len(q) : q[i] \in Projecting!ProjectSet
    BY <2>1 DEF ResolutionTyped
  <2> QED BY <2>1, <2>2, SeqDef DEF InList
<1>8. ResolutionTyped'
  <2>1. Projecting!Wanted' = Projecting!Wanted
    BY <1>3, SameSetting
  <2>2. catalogChanges' \in 0..MaxChanges
    BY <1>3, CollectAssumption DEF ResolutionTyped
  <2>3. /\ catalog' \in [list : Seq(Projecting!ProjectSet), disks : Seq(Projecting!ProjectSet)]
        /\ InList(catalog'.list) \subseteq known /\ InList(catalog'.disks) \subseteq known
    BY <1>6, <1>7
  <2> QED BY <1>3, <2>1, <2>2, <2>3 DEF ResolutionTyped, InList
<1>9. ResolvedSoFar'
  <2>1. \A i : Past(i)' <=> Past(i)
    BY <1>3 DEF Past
  <2>2. Projecting!Wanted' = Projecting!Wanted /\ (Everybody' <=> Everybody) /\ Projecting!name' = Projecting!name
    BY <1>3, SameSetting DEF Projecting!name
  <2> QED BY <1>3, <2>1, <2>2 DEF ResolvedSoFar, InList
<1> QED BY <1>3, <1>8, <1>9

\* The page asks for a run.
LEMMA PreselectKeeps ==
  ASSUME ResolutionTyped, ResolvedSoFar, Projecting!Preselect
  PROVE  /\ ResolutionTyped' /\ ResolvedSoFar' /\ unsettled' = unsettled
         /\ CalmResolution => CalmResolution'
<1>1. /\ resolving = "page" /\ resolving' = "start"
      /\ UNCHANGED <<catalog, known, unsettled, catalogChanges, setting, web>>
      /\ UNCHANGED <<turnOf, pageOf, got, questions, projects, allMode>>
  BY DEF Projecting!Preselect, Projecting!gateway, Projecting!search
<1>2. /\ Projecting!Wanted' = Projecting!Wanted /\ (Everybody' <=> Everybody)
      /\ Projecting!name' = Projecting!name
  BY <1>1, SameSetting DEF Projecting!name
<1>3. turnOf = 1 /\ pageOf = 1 /\ got = << >> /\ questions = {} /\ projects = << >> /\ ~allMode
  <2>1. resolving \in {"page", "start"}
    BY <1>1
  <2> QED BY <2>1 DEF ResolvedSoFar
<1>4. \A i \in DOMAIN Projecting!Wanted : ~Past(i)'
  <2> TAKE i \in DOMAIN Projecting!Wanted
  <2>1. i \in Nat /\ i >= 1
    BY WantedTyped
  <2> QED BY <1>1, <1>3, <2>1 DEF Past
<1>5. ResolutionTyped'
  BY <1>1, <1>2 DEF ResolutionTyped, InList
<1>6. ResolvedSoFar'
  BY <1>1, <1>2, <1>3, <1>4 DEF ResolvedSoFar, InList
<1>7. CalmResolution'
  BY <1>1, <1>2, <1>3, <1>4 DEF CalmResolution, InList
<1> QED BY <1>1, <1>5, <1>6, <1>7

\* An answer of the gateway, an error that is one, and a request that fails.
LEMMA AnswersKeep ==
  ASSUME ResolutionTyped, ResolvedSoFar,
         Projecting!ListPage \/ Projecting!DiskPage \/ Projecting!SoftError \/ Projecting!RequestFails
  PROVE  /\ ResolutionTyped' /\ ResolvedSoFar'
         /\ ~unsettled' => ~unsettled /\ (CalmResolution => CalmResolution')
<1>1. unsettled \in BOOLEAN /\ << >> \in Seq(known) /\ 0 \in Nat /\ 0 \in Int
  BY EmptySeq DEF ResolutionTyped
<1>2. CASE Projecting!ListPage
  <2>1. /\ Projecting!ListAnswer(PageOf(catalog.list, pageOf, ListSize), Len(catalog.list))
        /\ unsettled' = unsettled /\ known' = known
    BY <1>2, SameLists DEF Projecting!ListPage, Projecting!ListAnswer
  <2> QED BY <1>1, <2>1, KnownPages, ListAnswerKeeps, ListPageCalm
<1>3. CASE Projecting!DiskPage
  <2>1. /\ Projecting!DiskAnswer(PageOf(catalog.disks, pageOf, PageSize), Pages(catalog.disks, PageSize))
        /\ unsettled' = unsettled /\ known' = known
    BY <1>3, SameLists DEF Projecting!DiskPage, Projecting!DiskAnswer
  <2> QED BY <1>1, <2>1, KnownPages, DiskAnswerKeeps, DiskPageCalm
<1>4. CASE Projecting!SoftError
  <2>1. /\ Projecting!ListAnswer(<< >>, 0) \/ Projecting!DiskAnswer(<< >>, 0)
        /\ unsettled' = TRUE
    BY <1>4 DEF Projecting!SoftError
  <2>2. known' = known
    BY <2>1 DEF Projecting!ListAnswer, Projecting!DiskAnswer
  <2> QED BY <1>1, <2>1, <2>2, ListAnswerKeeps, DiskAnswerKeeps
<1>5. CASE Projecting!RequestFails
  <2>1. /\ resolving \in {"list", "disks", "choose"} /\ resolving' = "failed" /\ unsettled' = TRUE
        /\ UNCHANGED Projecting!search /\ Steady
    BY <1>5 DEF Projecting!RequestFails, Projecting!Fail, Projecting!asking, Steady
  <2> QED BY <2>1, FailKeeps
<1> QED BY <1>2, <1>3, <1>4, <1>5

\* Every step keeps what the resolution knows.
LEMMA ResolutionStep ==
  ASSUME ResolutionIInv, [Projecting!Next]_projectVars
  PROVE  ResolutionIInv'
<1>1. CASE Projecting!Change
  BY <1>1, ChangeKeeps DEF ResolutionIInv
<1>2. CASE Projecting!Preselect
  BY <1>2, PreselectKeeps DEF ResolutionIInv
<1>3. CASE Projecting!Start
  BY <1>3, StartKeeps DEF ResolutionIInv
<1>4. CASE Projecting!ListPage \/ Projecting!DiskPage \/ Projecting!SoftError \/ Projecting!RequestFails
  BY <1>4, AnswersKeep DEF ResolutionIInv
<1>5. CASE Projecting!Choose
  BY <1>5, ChooseKeeps DEF ResolutionIInv
<1>6. CASE UNCHANGED projectVars
  <2>1. /\ Projecting!Wanted' = Projecting!Wanted /\ (Everybody' <=> Everybody)
        /\ Projecting!name' = Projecting!name
    BY <1>6, SameSetting DEF Projecting!name, projectVars
  <2>2. \A i : Past(i)' <=> Past(i)
    BY <1>6 DEF Past, projectVars
  <2>3. \A n : /\ Projecting!IsTwice(n)' <=> Projecting!IsTwice(n)
               /\ Ambiguous(n)' <=> Ambiguous(n)
               /\ Projecting!Listed(n)' = Projecting!Listed(n)
               /\ Projecting!FoundAs(n)' = Projecting!FoundAs(n)
    BY <1>6, SameCatalog DEF projectVars
  <2>4. ResolutionTyped'
    BY <1>6, <2>1 DEF ResolutionIInv, ResolutionTyped, projectVars, InList
  <2>5. ResolvedSoFar'
    BY <1>6, <2>1, <2>2 DEF ResolutionIInv, ResolvedSoFar, projectVars, InList
  <2>6. ASSUME ~unsettled' PROVE CalmResolution'
    <3>1. CalmResolution
      BY <1>6, <2>6 DEF ResolutionIInv, projectVars
    <3>2. Distinct(got)' = Distinct(got) /\ InList(got)' = InList(got) /\ InList(projects)' = InList(projects)
      BY <1>6 DEF Distinct, InList, projectVars
    <3>3. \A q : Projecting!Complete(q)' = Projecting!Complete(q)
      BY DEF Projecting!Complete, Projecting!ToSet
    <3>4. (resolving = "disks" =>
             /\ Projecting!Listed(Projecting!name) = {}
             /\ (pageOf - 1) * PageSize <= Len(catalog.disks)
             /\ Distinct(got)
             /\ InList(got) = Projecting!Complete(SubSeq(catalog.disks, 1, (pageOf - 1) * PageSize)))'
      BY <1>6, <2>1, <2>3, <3>1, <3>2 DEF CalmResolution, projectVars, Projecting!Complete, Projecting!ToSet
    <3>5. (resolving = "list" =>
             /\ (pageOf - 1) * ListSize <= Len(catalog.list)
             /\ got = SubSeq(catalog.list, 1, (pageOf - 1) * ListSize))'
      BY <1>6, <3>1 DEF CalmResolution, projectVars
    <3> QED BY <1>6, <2>1, <2>2, <2>3, <3>1, <3>2, <3>4, <3>5 DEF CalmResolution, projectVars
  <2> QED BY <2>4, <2>5, <2>6 DEF ResolutionIInv
<1> QED BY <1>1, <1>2, <1>3, <1>4, <1>5, <1>6 DEF Projecting!Next, Projecting!Resolving

\* A resolution begins as the invariant says.
LEMMA ResolutionInit ==
  ASSUME Projecting!Init PROVE ResolutionIInv
<1>1. PICK written \in Configured, inWeb \in BOOLEAN, now \in Catalogs : Projecting!Begin(written, inWeb, now)
  BY DEF Projecting!Init
<1>2. /\ setting = written /\ web = inWeb /\ catalog = now
      /\ known = InList(catalog.list) \cup InList(catalog.disks)
      /\ unsettled = FALSE /\ catalogChanges = 0
      /\ resolving = (IF web THEN "page" ELSE "start")
      /\ turnOf = 1 /\ pageOf = 1 /\ got = << >> /\ questions = {} /\ projects = << >> /\ allMode = FALSE
  BY <1>1, SameLists DEF Projecting!Begin
<1>3. /\ setting \in Projecting!Settings /\ Projecting!Wanted # << >>
      /\ catalog \in [list : Seq(Projecting!ProjectSet), disks : Seq(Projecting!ProjectSet)]
  BY <1>1, <1>2, ProjectsAssumption DEF Projecting!Wanted
<1>4. Projecting!Wanted \in Seq(STRING)
  <2>1. setting.name \in STRING /\ setting.names \in Seq(STRING)
    BY <1>3 DEF Projecting!Settings
  <2>2. <<setting.name>> \in Seq(STRING)
    BY <2>1
  <2> QED BY <2>1, <2>2 DEF Projecting!Wanted, Projecting!WantedBy
<1>5. /\ Len(Projecting!Wanted) \in Nat /\ DOMAIN Projecting!Wanted = 1..Len(Projecting!Wanted)
      /\ Len(Projecting!Wanted) # 0
  BY <1>3, <1>4, LenProperties, EmptySeq
<1>6. InList(catalog.list) \subseteq Projecting!ProjectSet /\ InList(catalog.disks) \subseteq Projecting!ProjectSet
  BY <1>3, LenProperties, ElementOfSeq DEF InList
<1>7. turnOf \in 1..Len(Projecting!Wanted) /\ pageOf \in Nat \ {0} /\ catalogChanges \in 0..MaxChanges
  BY <1>2, <1>5, CollectAssumption
<1>8. ResolutionTyped
  BY <1>1, <1>2, <1>3, <1>6, <1>7, EmptySeq DEF ResolutionTyped
<1>9. resolving \in {"page", "start"} /\ InList(projects) = {} /\ \A i \in DOMAIN Projecting!Wanted : ~Past(i)
  <2>1. \A i \in DOMAIN Projecting!Wanted : i \in Nat /\ i >= 1
    BY <1>5
  <2> QED BY <1>2, <2>1 DEF Past, InList
<1>10. ResolvedSoFar
  <2>1. DOMAIN projects = {}
    BY <1>2
  <2> QED BY <1>2, <1>9, <2>1 DEF ResolvedSoFar
<1>11. CalmResolution
  BY <1>2, <1>9 DEF CalmResolution
<1> QED BY <1>8, <1>10, <1>11 DEF ResolutionIInv

\* The size of a set is the same in both.
LEMMA SameCardinality == \A S : Projecting!Cardinality(S) = Cardinality(S)
BY DEF Projecting!Cardinality, Cardinality

\* The invariant is stronger than what the resolution promises.
LEMMA ResolutionPromises ==
  ASSUME ResolutionIInv PROVE Projecting!ProjectsInv
<1> USE DEF ResolutionIInv
<1>1. /\ Projecting!ToSet(projects) = InList(projects)
      /\ Projecting!ToSet(Projecting!Wanted) = InList(Projecting!Wanted)
  BY SameLists
<1>2. Projecting!ProjectsTypeOK
  <2>1. InList(projects) \subseteq known
    BY LenProperties, ElementOfSeq DEF ResolutionTyped, InList
  <2> QED BY <1>1, <2>1 DEF ResolutionTyped, Projecting!ProjectsTypeOK
<1>3. resolving = "done" /\ ~allMode => \A i \in DOMAIN Projecting!Wanted : Past(i)
  BY DEF Past
<1>4. Projecting!EveryNameIsResolved
  <2>1. resolving = "done" =>
          IF Everybody THEN allMode /\ projects = << >>
          ELSE ~allMode /\ \A n \in InList(Projecting!Wanted) :
                 \E p \in InList(projects) : Projecting!Project(p.id, n) \in known
    BY <1>3 DEF ResolvedSoFar, InList
  <2>2. \A i, j \in DOMAIN projects : projects[i].id = projects[j].id => i = j
    BY DEF ResolvedSoFar
  <2>3. \A p \in InList(projects) : p.name \in InList(Projecting!Wanted)
    BY DEF ResolvedSoFar
  <2> QED BY <1>1, <2>1, <2>2, <2>3 DEF Projecting!EveryNameIsResolved, Everybody
<1>5. Projecting!AmbiguousIsAsked
  <2> SUFFICES ASSUME ~unsettled
               PROVE  /\ \A n \in questions : Projecting!IsTwice(n)
                      /\ resolving = "done" /\ ~allMode =>
                           \A n \in InList(Projecting!Wanted) : Ambiguous(n) => n \in questions
                      /\ resolving = "failed" =>
                           Projecting!FoundAs(Projecting!name) = {} \/ Projecting!name \in questions
    <3>1. \A n : Ambiguous(n) <=> Projecting!Cardinality(Projecting!FoundAs(n)) > 1
      BY SameCardinality DEF Ambiguous
    <3> QED BY <1>1, <3>1 DEF Projecting!AmbiguousIsAsked
  <2>1. resolving = "done" /\ ~allMode =>
          \A i \in DOMAIN Projecting!Wanted : Ambiguous(Projecting!Wanted[i]) => Projecting!Wanted[i] \in questions
    BY <1>3 DEF CalmResolution
  <2> QED BY <2>1 DEF CalmResolution, InList
<1>6. Projecting!PreselectionDecides
  <2>1. \A n : Ambiguous(n) <=> Projecting!Cardinality(Projecting!FoundAs(n)) > 1
    BY SameCardinality DEF Ambiguous
  <2>2. web /\ ~unsettled => \A p \in InList(projects) : Ambiguous(p.name) => p.id = preselected
    BY DEF CalmResolution
  <2> QED BY <1>1, <2>1, <2>2 DEF Projecting!PreselectionDecides
<1> QED BY <1>2, <1>4, <1>5, <1>6 DEF Projecting!ProjectsInv

-----------------------------------------------------------------------------
(* IPFilter: addresses as numbers.                                         *)

\* Numbers with the same quotient are a range, from a multiple of the divisor on.
LEMMA Quotients ==
  ASSUME NEW w \in Nat \ {0}, NEW x \in Nat, NEW y \in Nat
  PROVE  x \div w = y \div w <=> x \in (y - (y % w))..((y - (y % w)) + w - 1)
OBVIOUS

\* What is left of a number without its last digit.
LEMMA DigitOf ==
  ASSUME NEW w \in Nat \ {0}, NEW x \in Nat, NEW d \in 0..(w - 1)
  PROVE  x * w + d \in Nat /\ (x * w + d) \div w = x
OBVIOUS

\* Numbers are the same if their digits are.
LEMMA DigitsDiffer ==
  ASSUME NEW w \in Nat \ {0}, NEW x \in Nat, NEW y \in Nat, NEW d \in 0..(w - 1), NEW e \in 0..(w - 1)
  PROVE  x * w + d = y * w + e <=> x = y /\ d = e
<1>1. (x * w + d) \div w = x /\ (y * w + e) \div w = y
  BY DigitOf
<1>2. x = y => (x * w + d = y * w + e <=> d = e)
  OBVIOUS
<1> QED BY <1>1, <1>2

\* The bits of all segments and of all but one.
LEMMA LessOne ==
  ASSUME NEW s \in Nat \ {0}, NEW w \in Nat
  PROVE  s * w - (s - 1) * w = w /\ s * w - s * w = 0 /\ s * w \in Nat /\ (s - 1) * w \in 0..(s * w)
OBVIOUS

\* The powers of two up to one of them, as PowerOfTwo counts them.
ArePowers(f, m) == f = [i \in 0..m |-> IF i = 0 THEN 1 ELSE 2 * f[i - 1]]

\* They exist.
LEMMA PowersExist ==
  ASSUME NEW m \in Nat
  PROVE  \E f : ArePowers(f, m)
<1> DEFINE T == {n \in Nat : \E f : ArePowers(f, n)}
<1>1. 0 \in T
  <2>1. ArePowers([i \in 0..0 |-> 1], 0)
    BY DEF ArePowers
  <2> QED BY <2>1
<1>2. ASSUME NEW n \in Nat, n \in T PROVE n + 1 \in T
  <2>1. PICK f : ArePowers(f, n)
    BY <1>2
  <2> DEFINE g == [i \in 0..(n + 1) |-> IF i = n + 1 THEN 2 * f[n] ELSE f[i]]
  <2>2. \A i \in 0..n : f[i] = IF i = 0 THEN 1 ELSE 2 * f[i - 1]
    BY <2>1 DEF ArePowers
  <2>3. \A i \in 0..(n + 1) : g[i] = IF i = 0 THEN 1 ELSE 2 * g[i - 1]
    <3> TAKE i \in 0..(n + 1)
    <3>1. CASE i = n + 1
      BY <3>1
    <3>2. CASE i # n + 1
      BY <2>2, <3>2
    <3> QED BY <3>1, <3>2
  <2>4. g = [i \in 0..(n + 1) |-> g[i]]
    OBVIOUS
  <2> HIDE DEF g
  <2>5. ArePowers(g, n + 1)
    BY <2>3, <2>4 DEF ArePowers
  <2> QED BY <2>5
<1> HIDE DEF T
<1>3. \A n \in Nat : n \in T
  BY <1>1, <1>2, NatInd
<1> QED BY <1>3 DEF T

\* Powers of two are positive, and the first is one.
LEMMA PowerFacts ==
  /\ \A n \in Nat : Filtering!PowerOfTwo(n) \in Nat \ {0}
  /\ Filtering!PowerOfTwo(0) = 1
<1> SUFFICES ASSUME NEW n \in Nat
             PROVE  /\ Filtering!PowerOfTwo(n) \in Nat \ {0}
                    /\ n = 0 => Filtering!PowerOfTwo(n) = 1
  OBVIOUS
<1> DEFINE u == CHOOSE f : f = [i \in 0..n |-> IF i = 0 THEN 1 ELSE 2 * f[i - 1]]
<1>1. u = [i \in 0..n |-> IF i = 0 THEN 1 ELSE 2 * u[i - 1]]
  BY PowersExist DEF ArePowers
<1>2. Filtering!PowerOfTwo(n) = u[n]
  BY DEF Filtering!PowerOfTwo
<1> HIDE DEF u
<1>3. \A i \in 0..n : u[i] = IF i = 0 THEN 1 ELSE 2 * u[i - 1]
  BY <1>1
<1> DEFINE T == {i \in Nat : i <= n => u[i] \in Nat \ {0}}
<1>4. 0 \in T
  BY <1>3
<1>5. ASSUME NEW i \in Nat, i \in T PROVE i + 1 \in T
  <2>1. i + 1 <= n => u[i + 1] = 2 * u[i]
    BY <1>3
  <2> QED BY <1>5, <2>1
<1> HIDE DEF T
<1>6. n \in T
  BY <1>4, <1>5, NatInd
<1> QED BY <1>2, <1>3, <1>6 DEF T

\* A segment has a digit.
LEMMA SizeOfDigits == Filtering!Size \in Nat \ {0} /\ Filtering!Digit = 0..(Filtering!Size - 1)
BY PowerFacts, FilterAssumption DEF Filtering!Size, Filtering!Digit

\* The numbers an address stands for, up to each of its segments, as Number counts them.
IsNumber(f, t, m) == f = [i \in 0..m |-> IF i = 0 THEN 0 ELSE f[i - 1] * Filtering!Size + t[i]]

\* They exist, whatever the text.
LEMMA NumbersExist ==
  ASSUME NEW t, NEW m \in Nat
  PROVE  \E f : IsNumber(f, t, m)
<1> DEFINE T == {n \in Nat : \E f : IsNumber(f, t, n)}
<1>1. 0 \in T
  <2>1. IsNumber([i \in 0..0 |-> 0], t, 0)
    BY DEF IsNumber
  <2> QED BY <2>1
<1>2. ASSUME NEW n \in Nat, n \in T PROVE n + 1 \in T
  <2>1. PICK f : IsNumber(f, t, n)
    BY <1>2
  <2> DEFINE last == f[n] * Filtering!Size + t[n + 1]
             g == [i \in 0..(n + 1) |-> IF i = n + 1 THEN last ELSE f[i]]
  <2>2. \A i \in 0..n : f[i] = IF i = 0 THEN 0 ELSE f[i - 1] * Filtering!Size + t[i]
    BY <2>1 DEF IsNumber
  <2>3. \A i \in 0..(n + 1) : g[i] = IF i = 0 THEN 0 ELSE g[i - 1] * Filtering!Size + t[i]
    <3> TAKE i \in 0..(n + 1)
    <3>1. CASE i = n + 1
      <4>1. i # 0 /\ i - 1 = n /\ n \in 0..(n + 1) /\ n # n + 1
        BY <3>1
      <4>2. g[i - 1] = f[n] /\ g[i] = last
        BY <3>1, <4>1
      <4> QED BY <3>1, <4>1, <4>2
    <3>2. CASE i # n + 1
      <4>1. i \in 0..n /\ (i # 0 => i - 1 \in 0..n /\ i - 1 # n + 1 /\ i - 1 \in 0..(n + 1))
        BY <3>2
      <4>2. g[i] = f[i] /\ (i # 0 => g[i - 1] = f[i - 1])
        BY <3>2, <4>1
      <4> QED BY <2>2, <4>1, <4>2
    <3> QED BY <3>1, <3>2
  <2>4. g = [i \in 0..(n + 1) |-> g[i]]
    OBVIOUS
  <2> HIDE DEF g
  <2>5. IsNumber(g, t, n + 1)
    BY <2>3, <2>4 DEF IsNumber
  <2> QED BY <2>5
<1> HIDE DEF T
<1>3. \A n \in Nat : n \in T
  BY <1>1, <1>2, NatInd
<1> QED BY <1>3 DEF T

\* The texts that parse as addresses, and their numbers.
Digits == [1..Segments -> Filtering!Digit]

\* The numbers of one address.
Values(t) == CHOOSE f : IsNumber(f, t, Segments)

\* Every segment is one digit more.
LEMMA NumberSteps ==
  ASSUME NEW t \in Digits
  PROVE  /\ Filtering!Number(t) = Values(t)[Segments] /\ Values(t)[0] = 0
         /\ \A i \in 1..Segments : /\ Values(t)[i] = Values(t)[i - 1] * Filtering!Size + t[i]
                                   /\ t[i] \in 0..(Filtering!Size - 1)
         /\ \A i \in 0..Segments : Values(t)[i] \in Nat
<1>1. IsNumber(Values(t), t, Segments)
  BY NumbersExist, FilterAssumption DEF Values
<1>2. Filtering!Number(t) = Values(t)[Segments]
  BY DEF Filtering!Number, Values, IsNumber
<1> DEFINE u == Values(t)
<1> HIDE DEF u
<1>3. \A i \in 0..Segments : u[i] = IF i = 0 THEN 0 ELSE u[i - 1] * Filtering!Size + t[i]
  BY <1>1 DEF IsNumber, u
<1>4. \A i \in 1..Segments : t[i] \in 0..(Filtering!Size - 1)
  BY SizeOfDigits DEF Digits
<1>5. u[0] = 0 /\ \A i \in 1..Segments : u[i] = u[i - 1] * Filtering!Size + t[i]
  BY <1>3, FilterAssumption
<1> DEFINE T == {i \in Nat : i <= Segments => u[i] \in Nat}
<1>6. 0 \in T
  BY <1>5
<1>7. ASSUME NEW i \in Nat, i \in T PROVE i + 1 \in T
  <2> SUFFICES ASSUME i + 1 <= Segments PROVE u[i + 1] \in Nat
    OBVIOUS
  <2>1. i + 1 \in 1..Segments /\ (i + 1) - 1 = i /\ u[i] \in Nat
    BY <1>7, FilterAssumption
  <2>2. u[i + 1] = u[i] * Filtering!Size + t[i + 1] /\ t[i + 1] \in 0..(Filtering!Size - 1)
    BY <1>4, <1>5, <2>1
  <2> HIDE DEF T
  <2> QED BY <2>1, <2>2, SizeOfDigits, DigitOf
<1> HIDE DEF T
<1>8. \A i \in Nat : i \in T
  BY <1>6, <1>7, NatInd
<1>9. \A i \in 0..Segments : u[i] \in Nat
  BY <1>8, FilterAssumption DEF T
<1> QED BY <1>2, <1>4, <1>5, <1>9 DEF u

\* Two addresses have the same number up to a segment if they have the same segments.
LEMMA NumbersTell ==
  ASSUME NEW t \in Digits, NEW v \in Digits, NEW n \in 0..Segments
  PROVE  Values(t)[n] = Values(v)[n] <=> \A i \in 1..n : t[i] = v[i]
<1> DEFINE T == {k \in Nat : k <= Segments => (Values(t)[k] = Values(v)[k] <=> \A i \in 1..k : t[i] = v[i])}
<1>1. 0 \in T
  BY NumberSteps
<1>2. ASSUME NEW k \in Nat, k \in T PROVE k + 1 \in T
  <2> SUFFICES ASSUME k + 1 <= Segments
               PROVE  Values(t)[k + 1] = Values(v)[k + 1] <=> \A i \in 1..(k + 1) : t[i] = v[i]
    OBVIOUS
  <2>1. k + 1 \in 1..Segments /\ (k + 1) - 1 = k /\ k \in 0..Segments
    BY FilterAssumption
  <2>2. Values(t)[k] = Values(v)[k] <=> \A i \in 1..k : t[i] = v[i]
    BY <1>2, <2>1
  <2>3. /\ Values(t)[k + 1] = Values(t)[k] * Filtering!Size + t[k + 1]
        /\ Values(v)[k + 1] = Values(v)[k] * Filtering!Size + v[k + 1]
        /\ t[k + 1] \in 0..(Filtering!Size - 1) /\ v[k + 1] \in 0..(Filtering!Size - 1)
        /\ Values(t)[k] \in Nat /\ Values(v)[k] \in Nat
    BY <2>1, NumberSteps
  <2>4. Values(t)[k + 1] = Values(v)[k + 1] <=> Values(t)[k] = Values(v)[k] /\ t[k + 1] = v[k + 1]
    <3> DEFINE w == Filtering!Size
               x == Values(t)[k]
               y == Values(v)[k]
               d == t[k + 1]
               e == v[k + 1]
    <3>1. w \in Nat \ {0} /\ x \in Nat /\ y \in Nat /\ d \in 0..(w - 1) /\ e \in 0..(w - 1)
      BY <2>3, SizeOfDigits
    <3> HIDE DEF w, x, y, d, e
    <3>2. x * w + d = y * w + e <=> x = y /\ d = e
      BY <3>1, DigitsDiffer
    <3> QED BY <2>3, <3>2 DEF w, x, y, d, e
  <2>5. (\A i \in 1..(k + 1) : t[i] = v[i]) <=> (\A i \in 1..k : t[i] = v[i]) /\ t[k + 1] = v[k + 1]
    <3>1. \A i : i \in 1..(k + 1) <=> i \in 1..k \/ i = k + 1
      OBVIOUS
    <3> QED BY <3>1
  <2> QED BY <2>2, <2>4, <2>5
<1> HIDE DEF T
<1>3. \A k \in Nat : k \in T
  BY <1>1, <1>2, NatInd
<1>4. n \in Nat /\ n <= Segments
  BY FilterAssumption
<1> QED BY <1>3, <1>4 DEF T

-----------------------------------------------------------------------------
(* IPFilter: what a rule matches and what it names.                        *)

\* What a text is made of.
LEMMA TextFacts ==
  ASSUME NEW t \in Texts
  PROVE  /\ t \in Seq(Filtering!Segment) /\ DOMAIN t = 1..Len(t) /\ Len(t) \in Nat
         /\ \A i \in DOMAIN t : t[i] \in Filtering!Segment
         /\ Filtering!Parses(t) => t \in Digits
<1>1. t \in Seq(Filtering!Segment)
  BY FilterAssumption
<1>2. DOMAIN t = 1..Len(t) /\ Len(t) \in Nat /\ \A i \in DOMAIN t : t[i] \in Filtering!Segment
  BY <1>1, LenProperties, ElementOfSeq
<1>3. Filtering!Parses(t) => t \in Digits
  <2> SUFFICES ASSUME Filtering!Parses(t) PROVE t \in Digits
    OBVIOUS
  <2>1. DOMAIN t = 1..Segments /\ \A i \in 1..Segments : t[i] \in Filtering!Digit
    BY <1>2 DEF Filtering!Parses, Filtering!Segment
  <2>2. t = [i \in 1..Segments |-> t[i]]
    BY <1>1, <2>1
  <2> QED BY <2>1, <2>2 DEF Digits
<1> QED BY <1>1, <1>2, <1>3

\* A star and a gap are no digits.
LEMMA SegmentFacts ==
  /\ Filtering!Star \notin Filtering!Segment /\ Filtering!Gap \notin Filtering!Digit
  /\ Filtering!Star # Filtering!Gap
  /\ 0 \in Filtering!Digit /\ \A d \in Filtering!Segment : d \in Filtering!Digit \/ d = Filtering!Gap
BY SizeOfDigits DEF Filtering!Star, Filtering!Gap, Filtering!Segment

\* An address is a number.
LEMMA NumberTyped == ASSUME NEW t \in Digits PROVE Filtering!Number(t) \in Nat
BY NumberSteps, FilterAssumption

\* No netmask is wider than an address.
LEMMA WidthTyped ==
  /\ Segments \in Nat \ {0} /\ Width \in Nat /\ Segments * Width \in Nat
  /\ \A n \in 0..(Segments * Width) : Segments * Width - n \in Nat
<1>1. Segments \in Nat \ {0} /\ Width \in Nat
  BY FilterAssumption
<1>2. Segments * Width \in Nat
  BY <1>1, LessOne
<1> DEFINE sw == Segments * Width
<1> HIDE DEF sw
<1>3. sw \in Nat => \A n \in 0..sw : sw - n \in Nat
  OBVIOUS
<1> QED BY <1>1, <1>2, <1>3 DEF sw

\* A network matches the addresses from its first to its last.
LEMMA NetworkIsNamed ==
  ASSUME NEW r, r.type = "cidr", r.text \in Digits, r.bits \in 0..(Segments * Width), NEW t \in Texts
  PROVE  Filtering!Contains(r, t) <=> t \in Filtering!Named(r)
<1> DEFINE width == Filtering!PowerOfTwo(Segments * Width - r.bits)
           first == Filtering!Number(r.text) - (Filtering!Number(r.text) % width)
           x == Filtering!Number(t)
           y == Filtering!Number(r.text)
<1>1. width \in Nat \ {0}
  BY WidthTyped, PowerFacts
<1>2. y \in Nat
  BY NumberTyped
<1>3. Filtering!Named(r) = {u \in Texts : /\ Len(u) = Segments /\ Filtering!Gap \notin {u[i] : i \in DOMAIN u}
                                          /\ Filtering!Number(u) \in first..(first + width - 1)}
  BY DEF Filtering!Named
<1>4. Filtering!Contains(r, t) <=> Filtering!Parses(t) /\ x \div width = y \div width
  BY DEF Filtering!Contains, Filtering!Network
<1>5. Filtering!Parses(t) <=> Len(t) = Segments /\ Filtering!Gap \notin {t[i] : i \in DOMAIN t}
  BY DEF Filtering!Parses
<1>6. t \in Filtering!Named(r) <=> Filtering!Parses(t) /\ x \in first..(first + width - 1)
  BY <1>3, <1>5
<1>7. Filtering!Parses(t) => x \in Nat
  BY TextFacts, NumberTyped
<1>8. first = y - (y % width)
  OBVIOUS
<1> HIDE DEF width, first, x, y
<1>9. Filtering!Parses(t) => (x \div width = y \div width <=> x \in first..(first + width - 1))
  BY <1>1, <1>2, <1>7, <1>8, Quotients
<1> QED BY <1>4, <1>6, <1>9

\* A wildcard matches what it is filled to.
LEMMA WildIsNamed ==
  ASSUME NEW r, r.type = "wild", r.text \in Seq(Filtering!Segment \cup {Filtering!Star}), NEW t \in Texts
  PROVE  Filtering!Fits(r, t) <=> t \in Filtering!Named(r)
<1> DEFINE s == r.text
           Filled(f) == [i \in DOMAIN s |-> IF s[i] = Filtering!Star THEN f[i] ELSE s[i]]
<1>1. Filtering!Named(r) = {u \in Texts : \E f \in [DOMAIN s -> Filtering!Digit] : u = Filled(f)}
  BY DEF Filtering!Named
<1>2. DOMAIN s = 1..Len(s) /\ Len(s) \in Nat
  BY LenProperties
<1>3. Filtering!Fits(r, t) <=> /\ Len(t) = Len(s)
                               /\ \A i \in DOMAIN s : s[i] = t[i] \/ (s[i] = Filtering!Star /\ t[i] # Filtering!Gap)
  BY DEF Filtering!Fits
<1>4. ASSUME Filtering!Fits(r, t) PROVE \E f \in [DOMAIN s -> Filtering!Digit] : t = Filled(f)
  <2> DEFINE f == [i \in DOMAIN s |-> IF t[i] \in Filtering!Digit THEN t[i] ELSE 0]
  <2>1. f \in [DOMAIN s -> Filtering!Digit]
    BY SegmentFacts
  <2>2. DOMAIN t = DOMAIN s /\ t = [i \in DOMAIN s |-> t[i]]
    BY <1>2, <1>3, <1>4, TextFacts
  <2>3. \A i \in DOMAIN s : t[i] = IF s[i] = Filtering!Star THEN f[i] ELSE s[i]
    <3> SUFFICES ASSUME NEW i \in DOMAIN s PROVE t[i] = IF s[i] = Filtering!Star THEN f[i] ELSE s[i]
      OBVIOUS
    <3>1. t[i] \in Filtering!Segment
      BY <2>2, TextFacts
    <3>2. s[i] = t[i] \/ (s[i] = Filtering!Star /\ t[i] # Filtering!Gap)
      BY <1>3, <1>4
    <3> QED BY <3>1, <3>2, SegmentFacts
  <2>4. t = Filled(f)
    BY <2>2, <2>3
  <2> QED BY <2>1, <2>4
<1>5. ASSUME NEW f \in [DOMAIN s -> Filtering!Digit], t = Filled(f) PROVE Filtering!Fits(r, t)
  <2>1. DOMAIN t = DOMAIN s
    BY <1>5
  <2>2. Len(t) = Len(s)
    BY <1>2, <2>1, TextFacts
  <2>3. \A i \in DOMAIN s : s[i] = t[i] \/ (s[i] = Filtering!Star /\ t[i] # Filtering!Gap)
    BY <1>5, SegmentFacts
  <2> QED BY <1>3, <2>2, <2>3
<1> QED BY <1>1, <1>4, <1>5

\* A rule matches what it names.
LEMMA HitsIsNamed ==
  ASSUME NEW r, Filtering!IsRule(r), NEW t \in Texts
  PROVE  /\ Filtering!Hits(r, t) <=> t \in Filtering!Named(r)
         /\ << >> \notin Filtering!Named(r)
<1>1. CASE r \in {Filtering!Blank, Filtering!Bad}
  BY <1>1 DEF Filtering!Blank, Filtering!Bad, Filtering!Hits, Filtering!Named
<1>2. CASE r.type = "exact" /\ r.text \in Seq(Filtering!Segment) \ {<< >>}
  BY <1>2 DEF Filtering!Hits, Filtering!Named
<1>3. CASE r.type = "cidr" /\ r.text \in Digits /\ r.bits \in 0..(Segments * Width)
  <2>1. Filtering!Hits(r, t) <=> t \in Filtering!Named(r)
    BY <1>3, NetworkIsNamed DEF Filtering!Hits
  <2>2. \A u \in Filtering!Named(r) : Len(u) = Segments
    BY <1>3 DEF Filtering!Named
  <2> QED BY <2>1, <2>2, WidthTyped
<1>4. CASE r.type = "wild" /\ r.text \in Seq(Filtering!Segment \cup {Filtering!Star}) \ {<< >>}
  <2>1. Filtering!Hits(r, t) <=> t \in Filtering!Named(r)
    BY <1>4, WildIsNamed DEF Filtering!Hits
  <2>2. \A u \in Filtering!Named(r) : DOMAIN u = DOMAIN r.text
    BY <1>4 DEF Filtering!Named
  <2>3. DOMAIN r.text # {}
    <3> DEFINE s == r.text
               X == Filtering!Segment \cup {Filtering!Star}
    <3>1. s \in Seq(X) /\ s # << >>
      BY <1>4
    <3> HIDE DEF s, X
    <3>2. DOMAIN s = 1..Len(s) /\ Len(s) \in Nat /\ Len(s) # 0
      BY <3>1, LenProperties, EmptySeq
    <3> QED BY <3>2 DEF s
  <2> QED BY <2>1, <2>2, <2>3
<1> QED BY <1>1, <1>2, <1>3, <1>4 DEF Filtering!IsRule, Digits

\* A list matches what its rules name.
LEMMA MatchIsNamed ==
  ASSUME rules \in [Filtering!Groups -> SUBSET Rules], NEW g \in Filtering!Groups, NEW t \in Texts
  PROVE  Filtering!Match(rules[g], t) <=> t \in Filtering!NamedBy(g)
<1>1. \A r \in rules[g] : Filtering!IsRule(r)
  BY FilterAssumption
<1> QED BY <1>1, HitsIsNamed DEF Filtering!Match, Filtering!NamedBy

\* The test of the loop is what the lists mean.
LEMMA PassesIsMeant ==
  ASSUME rules \in [Filtering!Groups -> SUBSET Rules], NEW h \in Filtering!InList(Hosts)
  PROVE  Filtering!Included(h) /\ ~Filtering!Excluded(h) <=> h \in Filtering!Meant
<1>1. h.ip \in Texts /\ h.eip \in Texts
  <2>1. h \in [ip : Texts, eip : Texts]
    <3>1. PICK i \in DOMAIN Hosts : h = Hosts[i]
      BY DEF Filtering!InList
    <3> DEFINE X == [ip : Texts, eip : Texts]
    <3>2. Hosts \in Seq(X)
      BY FilterAssumption
    <3> HIDE DEF X
    <3>3. Hosts[i] \in X
      BY <3>1, <3>2, LenProperties, ElementOfSeq
    <3> QED BY <3>1, <3>3 DEF X
  <2> QED BY <2>1
<1>2. \A g \in Filtering!Groups : /\ Filtering!Match(rules[g], h.ip) <=> h.ip \in Filtering!NamedBy(g)
                                  /\ Filtering!Match(rules[g], h.eip) <=> h.eip \in Filtering!NamedBy(g)
  BY <1>1, MatchIsNamed
<1>3. Filtering!Open <=> ~Filtering!HasRules(rules["includeIP"]) /\ ~Filtering!HasRules(rules["includeEIP"])
  BY DEF Filtering!Open, Filtering!HasRules
<1>4. Filtering!Groups = {"includeIP", "includeEIP", "excludeIP", "excludeEIP"}
  BY DEF Filtering!Groups
<1> QED BY <1>2, <1>3, <1>4 DEF Filtering!Included, Filtering!Excluded, Filtering!Meant

\* The whole address as a network, and all of it but the last segment.
LEMMA NetworksTell ==
  ASSUME NEW t \in Digits, NEW u \in Digits
  PROVE  /\ Filtering!Network(u, Segments * Width) = Filtering!Network(t, Segments * Width) <=> u = t
         /\ Filtering!Network(u, (Segments - 1) * Width) = Filtering!Network(t, (Segments - 1) * Width)
              <=> \A i \in 1..(Segments - 1) : u[i] = t[i]
<1>1. /\ Segments * Width - Segments * Width = 0
      /\ Segments * Width - (Segments - 1) * Width = Width
  BY FilterAssumption, LessOne
<1>2. \A v \in Digits : Filtering!Network(v, Segments * Width) = Filtering!Number(v)
  <2> TAKE v \in Digits
  <2>1. Filtering!Network(v, Segments * Width) = Filtering!Number(v) \div 1
    BY <1>1, PowerFacts DEF Filtering!Network
  <2>2. \A n \in Nat : n \div 1 = n
    OBVIOUS
  <2> QED BY <2>1, <2>2, NumberTyped
<1>3. \A v \in Digits : Filtering!Network(v, (Segments - 1) * Width) = Values(v)[Segments - 1]
  <2> TAKE v \in Digits
  <2> DEFINE w == Filtering!Size
             x == Values(v)[Segments - 1]
             d == v[Segments]
  <2>1. Segments \in 1..Segments /\ Segments - 1 \in 0..Segments
    BY FilterAssumption
  <2>2. Filtering!Number(v) = x * w + d /\ x \in Nat /\ d \in 0..(w - 1)
    BY <2>1, NumberSteps
  <2>3. Filtering!Network(v, (Segments - 1) * Width) = Filtering!Number(v) \div w
    BY <1>1 DEF Filtering!Network, Filtering!Size
  <2>4. w \in Nat \ {0}
    BY SizeOfDigits
  <2> HIDE DEF w, x, d
  <2>5. (x * w + d) \div w = x
    BY <2>2, <2>4, DigitOf
  <2> QED BY <2>2, <2>3, <2>5 DEF x
<1>4. Filtering!Number(u) = Filtering!Number(t) <=> \A i \in 1..Segments : u[i] = t[i]
  <2>1. Segments \in 0..Segments
    BY FilterAssumption
  <2> QED BY <2>1, NumberSteps, NumbersTell
<1>5. (\A i \in 1..Segments : u[i] = t[i]) <=> u = t
  <2>1. u = [i \in 1..Segments |-> u[i]] /\ t = [i \in 1..Segments |-> t[i]]
    BY DEF Digits
  <2> QED BY <2>1
<1>6. Values(u)[Segments - 1] = Values(t)[Segments - 1] <=> \A i \in 1..(Segments - 1) : u[i] = t[i]
  <2>1. Segments - 1 \in 0..Segments
    BY FilterAssumption
  <2> QED BY <2>1, NumbersTell
<1> QED BY <1>2, <1>3, <1>4, <1>5, <1>6

\* The same rule in two kinds matches the same.
LEMMA KindsAgree ==
  ASSUME NEW t \in Texts, Filtering!Parses(t), NEW u \in Texts, Filtering!Parses(u)
  PROVE  /\ Filtering!Hits(Filtering!CIDR(t, Segments * Width), u) <=> Filtering!Hits(Filtering!Exact(t), u)
         /\ Filtering!Hits(Filtering!CIDR(t, (Segments - 1) * Width), u)
              <=> Filtering!Hits(Filtering!Wild([t EXCEPT ![Segments] = Filtering!Star]), u)
<1>1. t \in Digits /\ u \in Digits
  BY TextFacts
<1>2. \A n : Filtering!Hits(Filtering!CIDR(t, n), u) <=> Filtering!Network(u, n) = Filtering!Network(t, n)
  BY DEF Filtering!Hits, Filtering!CIDR, Filtering!Contains
<1>3. Filtering!Hits(Filtering!Exact(t), u) <=> u = t
  BY DEF Filtering!Hits, Filtering!Exact
<1>4. Filtering!Hits(Filtering!Wild([t EXCEPT ![Segments] = Filtering!Star]), u)
        <=> \A i \in 1..(Segments - 1) : u[i] = t[i]
  <2> DEFINE s == [t EXCEPT ![Segments] = Filtering!Star]
  <2>1. Filtering!Hits(Filtering!Wild(s), u) <=>
          /\ Len(u) = Len(s)
          /\ \A i \in DOMAIN s : s[i] = u[i] \/ (s[i] = Filtering!Star /\ u[i] # Filtering!Gap)
    BY DEF Filtering!Hits, Filtering!Wild, Filtering!Fits
  <2>2. /\ DOMAIN t = 1..Segments /\ Segments \in 1..Segments /\ Len(t) = Segments /\ Len(u) = Segments
        /\ DOMAIN s = 1..Segments
        /\ s[Segments] = Filtering!Star /\ \A i \in 1..(Segments - 1) : i \in 1..Segments /\ i # Segments /\ s[i] = t[i]
    BY FilterAssumption, <1>1 DEF Digits, Filtering!Parses
  <2>3. Len(s) = Segments
    <3>1. s \in [1..Segments -> Int]
      BY <2>2, <1>1, SizeOfDigits DEF Digits, Filtering!Star
    <3> HIDE DEF s
    <3> QED BY <3>1, FilterAssumption
  <2>4. \A i \in 1..Segments : u[i] # Filtering!Gap /\ t[i] # Filtering!Star
    BY <1>1, SegmentFacts DEF Digits, Filtering!Segment
  <2>5. \A i \in 1..Segments : i \in 1..(Segments - 1) \/ i = Segments
    BY FilterAssumption
  <2> HIDE DEF s
  <2>6. ASSUME NEW i \in 1..(Segments - 1) PROVE (s[i] = u[i] \/ (s[i] = Filtering!Star /\ u[i] # Filtering!Gap)) <=> u[i] = t[i]
    BY <2>2, <2>4
  <2> QED BY <2>1, <2>2, <2>3, <2>4, <2>5, <2>6 DEF s
<1> QED BY <1>1, <1>2, <1>3, <1>4, NetworksTell

\* Rules can be rewritten whatever else is listed; this needs no step.
LEMMA AgreementHolds == Filtering!RulesAgree
<1> SUFFICES ASSUME NEW g \in Filtering!Groups, NEW t \in Texts, Filtering!Parses(t), NEW u \in Texts, Filtering!Parses(u)
             PROVE  /\ Filtering!Match(rules[g] \cup {Filtering!CIDR(t, Segments * Width)}, u)
                         <=> Filtering!Match(rules[g] \cup {Filtering!Exact(t)}, u)
                    /\ Filtering!Match(rules[g] \cup {Filtering!CIDR(t, (Segments - 1) * Width)}, u)
                         <=> Filtering!Match(rules[g] \cup {Filtering!Wild([t EXCEPT ![Segments] = Filtering!Star])}, u)
  BY DEF Filtering!RulesAgree
<1>1. ASSUME NEW r, NEW s, Filtering!Hits(r, u) <=> Filtering!Hits(s, u)
      PROVE  Filtering!Match(rules[g] \cup {r}, u) <=> Filtering!Match(rules[g] \cup {s}, u)
  BY <1>1 DEF Filtering!Match
<1> QED BY <1>1, KindsAgree

-----------------------------------------------------------------------------
(* IPFilter: the loop.                                                     *)

\* The inductive invariant: what was kept is what is meant of the hosts seen.
FilteredSoFar ==
  /\ Filtering!IPFilterTypeOK
  /\ filterAt = "compile" => next = 1
  /\ passed = Only(SubSeq(Hosts, 1, next - 1), Filtering!Meant)
  /\ filterAt = "done" => next = Len(Hosts) + 1 /\ filtered = Len(Hosts) - Len(passed)

\* The hosts are listed.
LEMMA HostFacts ==
  /\ Hosts \in Seq(Filtering!InList(Hosts)) /\ Len(Hosts) \in Nat
  /\ \A i \in 1..Len(Hosts) : Hosts[i] \in Filtering!InList(Hosts)
<1> DEFINE X == [ip : Texts, eip : Texts]
<1>1. Hosts \in Seq(X)
  BY FilterAssumption
<1> HIDE DEF X
<1>2. Len(Hosts) \in Nat /\ DOMAIN Hosts = 1..Len(Hosts) /\ Hosts = [i \in 1..Len(Hosts) |-> Hosts[i]]
  BY <1>1, LenProperties
<1>3. \A i \in 1..Len(Hosts) : Hosts[i] \in Filtering!InList(Hosts)
  BY <1>2 DEF Filtering!InList
<1> QED BY <1>2, <1>3, IsASeq

\* A host more has been seen.
LEMMA PrefixGrows ==
  ASSUME NEW n \in 1..Len(Hosts)
  PROVE  /\ SubSeq(Hosts, 1, n - 1) \in Seq(Filtering!InList(Hosts))
         /\ SubSeq(Hosts, 1, n) = Append(SubSeq(Hosts, 1, n - 1), Hosts[n])
<1> DEFINE X == Filtering!InList(Hosts)
<1>1. Hosts \in Seq(X) /\ n \in Nat /\ Len(Hosts) \in Nat /\ Hosts[n] \in X
  BY HostFacts
<1> HIDE DEF X
<1>2. SubSeq(Hosts, 1, n - 1) \in Seq(X)
  BY <1>1, SubSeqProperties, ElementOfSeq
<1>3. SubSeq(Hosts, 1, n) = SubSeq(Hosts, 1, n - 1) \o << Hosts[n] >>
  BY <1>1, SubSeqRecursiveSecond
<1> QED BY <1>1, <1>2, <1>3, AppendIsConcat DEF X

\* At the beginning none was seen.
LEMMA FilterStart == Filtering!Init \/ Filtering!Begin([g \in Filtering!Groups |-> {}]) => FilteredSoFar
<1> SUFFICES ASSUME NEW written \in [Filtering!Groups -> SUBSET Rules], Filtering!Begin(written)
             PROVE  FilteredSoFar
  BY DEF Filtering!Init
<1>1. rules = written /\ filterAt = "compile" /\ next = 1 /\ passed = << >> /\ filtered = 0
  BY DEF Filtering!Begin
<1>2. Filtering!IPFilterTypeOK
  BY <1>1, HostFacts, EmptySeq DEF Filtering!IPFilterTypeOK
<1>3. SubSeq(Hosts, 1, next - 1) = << >>
  BY <1>1, SubSeqEmpty
<1> QED BY <1>1, <1>2, <1>3, OnlyEmpty DEF FilteredSoFar

\* Every step of the filter keeps the invariant.
LEMMA FilterStep == FilteredSoFar /\ [Filtering!Next]_filterVars => FilteredSoFar'
<1> SUFFICES ASSUME FilteredSoFar, [Filtering!Next]_filterVars PROVE FilteredSoFar'
  OBVIOUS
<1> DEFINE X == Filtering!InList(Hosts)
           M == Filtering!Meant
           pre == SubSeq(Hosts, 1, next - 1)
<1>1. /\ rules \in [Filtering!Groups -> SUBSET Rules] /\ next \in 1..(Len(Hosts) + 1) /\ passed \in Seq(X)
      /\ filtered \in 0..Len(Hosts) /\ passed = Only(pre, M)
      /\ filterAt \in {"compile", "loop", "error", "done"}
      /\ filterAt = "compile" => next = 1
      /\ filterAt = "done" => next = Len(Hosts) + 1 /\ filtered = Len(Hosts) - Len(passed)
  BY DEF FilteredSoFar, Filtering!IPFilterTypeOK
<1>2. rules' = rules => M' = M
  BY DEF Filtering!Meant, Filtering!Open, Filtering!NamedBy
<1>3. rules' = rules
  BY DEF Filtering!Next, Filtering!Compile, Filtering!Skip, Filtering!Keep, Filtering!Return, filterVars
<1>4. Hosts \in Seq(X) /\ Len(Hosts) \in Nat
  BY HostFacts
<1>5. ASSUME UNCHANGED <<next, passed>> PROVE passed' = Only(pre, M)'
  BY <1>1, <1>2, <1>3, <1>5
<1>6. CASE UNCHANGED filterVars
  BY <1>1, <1>3, <1>5, <1>6 DEF filterVars, FilteredSoFar, Filtering!IPFilterTypeOK
<1>7. CASE Filtering!Compile
  BY <1>1, <1>3, <1>5, <1>7 DEF Filtering!Compile, FilteredSoFar, Filtering!IPFilterTypeOK
<1>8. ASSUME filterAt = "loop", next <= Len(Hosts), next' = next + 1,
             passed' = IF Hosts[next] \in M THEN Append(passed, Hosts[next]) ELSE passed
      PROVE  passed' \in Seq(X) /\ passed' = Only(pre, M)'
  <2>1. next \in 1..Len(Hosts) /\ Hosts[next] \in X /\ next' - 1 = next
    BY <1>1, <1>4, <1>8, HostFacts
  <2>2. pre \in Seq(X) /\ SubSeq(Hosts, 1, next) = Append(pre, Hosts[next])
    BY <2>1, PrefixGrows
  <2>3. pre' = Append(pre, Hosts[next])
    BY <2>1, <2>2
  <2>4. Only(pre, M)' = Only(pre', M')
    BY DEF Only
  <2>5. Only(Append(pre, Hosts[next]), M) = IF Hosts[next] \in M THEN Append(Only(pre, M), Hosts[next]) ELSE Only(pre, M)
    <3> DEFINE h == Hosts[next]
    <3>1. pre \in Seq(X) /\ h \in X
      BY <2>1, <2>2
    <3> HIDE DEF X, M, pre, h
    <3>2. Only(Append(pre, h), M) = IF h \in M THEN Append(Only(pre, M), h) ELSE Only(pre, M)
      BY <3>1, OnlyAppend
    <3> QED BY <3>2 DEF h
  <2>6. passed' = Only(pre, M)'
    BY <1>1, <1>2, <1>3, <1>8, <2>3, <2>4, <2>5
  <2>7. passed' \in Seq(X)
    BY <1>1, <1>8, <2>1, AppendProperties
  <2> QED BY <2>6, <2>7
<1>9. CASE Filtering!Skip \/ Filtering!Keep
  <2>1. /\ filterAt = "loop" /\ next <= Len(Hosts) /\ next' = next + 1 /\ UNCHANGED <<filterAt, filtered>>
        /\ passed' = IF Filtering!Included(Hosts[next]) /\ ~Filtering!Excluded(Hosts[next])
                     THEN Append(passed, Hosts[next]) ELSE passed
    BY <1>9 DEF Filtering!Skip, Filtering!Keep
  <2>2. Hosts[next] \in X
    BY <1>1, <1>4, <2>1, HostFacts
  <2>3. Filtering!Included(Hosts[next]) /\ ~Filtering!Excluded(Hosts[next]) <=> Hosts[next] \in M
    BY <1>1, <2>2, PassesIsMeant
  <2>4. passed' \in Seq(X) /\ passed' = Only(pre, M)'
    BY <1>8, <2>1, <2>3
  <2>5. next' \in 1..(Len(Hosts) + 1)
    BY <1>1, <1>4, <2>1
  <2> QED BY <1>1, <1>3, <2>1, <2>4, <2>5 DEF FilteredSoFar, Filtering!IPFilterTypeOK
<1>10. CASE Filtering!Return
  <2>1. filterAt = "loop" /\ next > Len(Hosts) /\ filterAt' = "done" /\ filtered' = Len(Hosts) - Len(passed)
        /\ UNCHANGED <<next, passed>>
    BY <1>10 DEF Filtering!Return
  <2>2. next = Len(Hosts) + 1
    BY <1>1, <1>4, <2>1
  <2>3. pre = Hosts
    BY <1>4, <2>2, SubSeqFull
  <2>4. Len(passed) \in Nat /\ Len(passed) <= Len(Hosts)
    BY <1>1, <1>4, <2>3, OnlyShorter, LenProperties
  <2>5. filtered' \in 0..Len(Hosts)
    BY <1>4, <2>1, <2>4
  <2> QED BY <1>1, <1>3, <1>5, <2>1, <2>2, <2>5 DEF FilteredSoFar, Filtering!IPFilterTypeOK
<1> QED BY <1>6, <1>7, <1>9, <1>10 DEF Filtering!Next

\* The invariant is enough.
LEMMA FilterPromises == FilteredSoFar => Filtering!FilterInv
<1> SUFFICES ASSUME FilteredSoFar PROVE Filtering!FilterInv
  OBVIOUS
<1>1. Filtering!IPFilterTypeOK
  BY DEF FilteredSoFar
<1>2. Filtering!KeptIsMeant
  <2> SUFFICES ASSUME filterAt = "done"
               PROVE  passed = Filtering!Only(Hosts, Filtering!Meant) /\ Len(passed) + filtered = Len(Hosts)
    BY DEF Filtering!KeptIsMeant
  <2> DEFINE X == Filtering!InList(Hosts)
  <2>1. next - 1 = Len(Hosts) /\ Hosts \in Seq(X) /\ Len(Hosts) \in Nat /\ passed \in Seq(X)
    BY HostFacts DEF FilteredSoFar, Filtering!IPFilterTypeOK
  <2>2. SubSeq(Hosts, 1, next - 1) = Hosts
    BY <2>1, SubSeqFull
  <2>3. \A q, S : Filtering!Only(q, S) = Only(q, S)
    BY DEF Filtering!Only, Only
  <2>4. passed = Filtering!Only(Hosts, Filtering!Meant)
    BY <2>2, <2>3 DEF FilteredSoFar
  <2>5. Len(passed) \in Nat /\ filtered = Len(Hosts) - Len(passed)
    BY <2>1, LenProperties DEF FilteredSoFar
  <2> QED BY <2>1, <2>4, <2>5
<1> QED BY <1>1, <1>2, AgreementHolds DEF Filtering!FilterInv

-----------------------------------------------------------------------------
(* Details: the lists.                                                        *)

\* The completion makes its lists as the others do.
LEMMA AddingLists ==
  /\ \A q : Adding!InList(q) = InList(q)
  /\ \A q, S : Adding!Only(q, S) = Only(q, S)
  /\ \A q, r : Adding!Merged(q, r) = Merged(q, r)
  /\ \A q, n, size : Adding!PageOf(q, n, size) = PageOf(q, n, size)
  /\ \A q, size : Adding!Pages(q, size) = Pages(q, size)
<1>1. \A q : Adding!InList(q) = InList(q)
  BY DEF Adding!InList, InList
<1>2. \A q, S : Adding!Only(q, S) = Only(q, S)
  BY DEF Adding!Only, Only
<1>3. \A q, r : Adding!Merged(q, r) = Merged(q, r)
  BY DEF Adding!Merged, Merged, Adding!InList, InList
<1>4. \A q, n, size : Adding!PageOf(q, n, size) = PageOf(q, n, size)
  BY DEF Adding!PageOf, PageOf, Adding!Smaller, Smaller
<1>5. \A q, size : Adding!Pages(q, size) = Pages(q, size)
  BY DEF Adding!Pages, Pages
<1> QED BY <1>1, <1>2, <1>3, <1>4, <1>5

\* The last and the first of some places.
LEMMA PlacesHaveEnds ==
  ASSUME NEW n \in Nat, NEW U, U \subseteq 1..n, U # {}
  PROVE  /\ \E i \in U : \A j \in U : j <= i
         /\ \E i \in U : \A j \in U : i <= j
<1> DEFINE T == {m \in Nat : \A V \in SUBSET (1..m) : V # {} =>
                   (\E i \in V : \A j \in V : j <= i) /\ (\E i \in V : \A j \in V : i <= j)}
<1>1. 0 \in T
  <2>1. 1..0 = {}
    OBVIOUS
  <2> QED BY <2>1
<1>2. ASSUME NEW m \in Nat, m \in T PROVE m + 1 \in T
  <2> SUFFICES ASSUME NEW V \in SUBSET (1..(m + 1)), V # {}
               PROVE  (\E i \in V : \A j \in V : j <= i) /\ (\E i \in V : \A j \in V : i <= j)
    OBVIOUS
  <2> DEFINE W == V \ {m + 1}
  <2>1. W \in SUBSET (1..m)
    OBVIOUS
  <2>2. W # {} => (\E i \in W : \A j \in W : j <= i) /\ (\E i \in W : \A j \in W : i <= j)
    BY <1>2, <2>1
  <2>3. CASE W = {}
    <3>1. V = {m + 1}
      BY <2>3
    <3> QED BY <3>1
  <2>4. CASE W # {}
    <3>1. PICK i \in W : \A j \in W : i <= j
      BY <2>2, <2>4
    <3>2. \A j \in V : i <= j
      BY <2>1, <3>1
    <3>3. PICK k \in W : \A j \in W : j <= k
      BY <2>2, <2>4
    <3>4. m + 1 \in V => \A j \in V : j <= m + 1
      OBVIOUS
    <3>5. m + 1 \notin V => W = V
      OBVIOUS
    <3> QED BY <3>1, <3>2, <3>3, <3>4, <3>5
  <2> QED BY <2>3, <2>4
<1> HIDE DEF T
<1>3. n \in T
  BY <1>1, <1>2, NatInd
<1> QED BY <1>3 DEF T

\* Nothing passes a set that holds nothing of the list.
LEMMA OnlyNothing ==
  ASSUME NEW X, NEW q \in Seq(X), NEW S, InList(q) \cap S = {}
  PROVE  Only(q, S) = << >>
<1>1. Only(q, S) \in Seq(X) /\ InList(Only(q, S)) = {}
  BY OnlyElements
<1>2. DOMAIN Only(q, S) = {}
  BY <1>1 DEF InList
<1>3. Len(Only(q, S)) \in Nat /\ DOMAIN Only(q, S) = 1..Len(Only(q, S))
  BY <1>1, LenProperties
<1>4. Len(Only(q, S)) = 0
  BY <1>2, <1>3
<1> QED BY <1>1, <1>4, EmptySeq

\* Everything passes a set that holds all of it.
LEMMA OnlyEverything ==
  ASSUME NEW X, NEW S
  PROVE  \A q \in Seq(X) : InList(q) \subseteq S => Only(q, S) = q
<1> DEFINE T == {q \in Seq(X) : InList(q) \subseteq S => Only(q, S) = q}
<1>1. << >> \in T
  BY OnlyEmpty, EmptySeq
<1>2. ASSUME NEW q \in Seq(X), NEW x \in X, q \in T PROVE Append(q, x) \in T
  <2>1. Append(q, x) \in Seq(X)
    BY AppendProperties
  <2>2. InList(Append(q, x)) = InList(q) \cup {x}
    BY InListAppend
  <2>3. Only(Append(q, x), S) = IF x \in S THEN Append(Only(q, S), x) ELSE Only(q, S)
    BY OnlyAppend
  <2> QED BY <1>2, <2>1, <2>2, <2>3
<1> HIDE DEF T
<1>3. \A q \in Seq(X) : q \in T
  BY <1>1, <1>2, SeqInd
<1> QED BY <1>3 DEF T

-----------------------------------------------------------------------------
(* Details: what a list adds.                                                 *)

Card       == [id : STRING, server : STRING, mac : STRING]
DiskRecord == [disk : STRING, system : BOOLEAN, attached : Seq(STRING), project : Projecting!ProjectSet]

\* A server shows the addresses of its cards, and of all of them, but of one whose
\* id a later one has.
LEMMA CardsShown ==
  ASSUME NEW s \in DOMAIN Found, NEW all \in Seq(Card)
  PROVE  /\ \A m \in InList(Adding!CardsOf(s, all)) : \E e \in InList(all) : e.mac = m /\ Adding!IsCardOf(e, s)
         /\ \A i \in DOMAIN all : Adding!IsCardOf(all[i], s) =>
              \/ all[i].mac \in InList(Adding!CardsOf(s, all))
              \/ /\ all[i].server # Found[s].id
                 /\ \E j \in (i + 1)..Len(all) : all[j].id = all[i].id
<1> DEFINE id == Found[s].id
           cards == Found[s].cards
           Marked == {e \in Adding!InList(all) : e.mac # Adding!NoText}
           Mine == {e \in Marked : e.server = id}
           Own == Adding!Only(all, Mine)
           At(c) == {i \in DOMAIN all : all[i] \in Marked /\ all[i].id = c}
           last(c) == CHOOSE i \in At(c) : \A j \in At(c) : j <= i
           Known == {c \in Adding!InList(cards) : At(c) # {}}
           Linked == Adding!Only(cards, Known)
           A == [i \in DOMAIN Own |-> Own[i].mac]
           B == [i \in DOMAIN Linked |-> all[last(Linked[i])].mac]
<1>1. cards \in Seq(STRING)
  BY DetailsAssumption
<1>a. Adding!CardsOf(s, all) = Adding!Merged(<< >>, A \o B)
  BY DEF Adding!CardsOf, Adding!Deduped
<1>b. Adding!InList(all) = InList(all) /\ Adding!InList(cards) = InList(cards)
  BY AddingLists
<1>2. Adding!CardsOf(s, all) = Merged(<< >>, A \o B)
  BY <1>a, AddingLists
<1>3. \A e : Adding!IsCardOf(e, s) <=> e.mac # Adding!NoText /\ (e.server = id \/ e.id \in InList(cards))
  BY AddingLists DEF Adding!IsCardOf
<1>4. /\ Len(all) \in Nat /\ DOMAIN all = 1..Len(all) /\ \A i \in DOMAIN all : all[i] \in Card
      /\ InList(all) \subseteq Card
  BY LenProperties, ElementOfSeq DEF InList
<1>5. ASSUME NEW c, At(c) # {} PROVE last(c) \in At(c) /\ \A j \in At(c) : j <= last(c)
  <2>1. At(c) \subseteq 1..Len(all)
    BY <1>4
  <2>2. \E i \in At(c) : \A j \in At(c) : j <= i
    <3> HIDE DEF At
    <3> QED BY <1>4, <1>5, <2>1, PlacesHaveEnds
  <2> HIDE DEF At
  <2> QED BY <2>2
<1>c. Own = Only(all, Mine) /\ Linked = Only(cards, Known)
  BY AddingLists
<1>6. Own \in Seq(Card) /\ InList(Own) = Mine
  <2>1. Own \in Seq(Card) /\ InList(Own) = InList(all) \cap Mine
    <3> HIDE DEF Own, Mine
    <3> QED BY <1>c, OnlyElements
  <2> QED BY <1>b, <2>1
<1>7. Linked \in Seq(STRING) /\ InList(Linked) = Known
  <2>1. Linked \in Seq(STRING) /\ InList(Linked) = InList(cards) \cap Known
    <3> HIDE DEF Linked, Known, cards
    <3> QED BY <1>1, <1>c, OnlyElements
  <2> QED BY <1>b, <2>1
<1>8. \A c : last(c) \in At(c) => all[last(c)] \in Marked /\ all[last(c)].id = c /\ last(c) \in DOMAIN all
  OBVIOUS
<1>9. \A i \in DOMAIN all : all[i] \in InList(all)
  BY DEF InList
<1> HIDE DEF last, Own, Linked
<1>10. A \in Seq(STRING) /\ InList(A) = {e.mac : e \in Mine}
  <2>1. Len(Own) \in Nat /\ DOMAIN Own = 1..Len(Own) /\ \A i \in DOMAIN Own : Own[i] \in Card
    BY <1>6, LenProperties, ElementOfSeq
  <2>2. A \in [1..Len(Own) -> STRING]
    BY <2>1 DEF Card
  <2>3. A \in Seq(STRING)
    BY <2>1, <2>2, SeqDef
  <2>4. InList(A) = {Own[i].mac : i \in DOMAIN Own}
    BY DEF InList
  <2>5. {Own[i].mac : i \in DOMAIN Own} = {e.mac : e \in InList(Own)}
    BY DEF InList
  <2> HIDE DEF A
  <2> QED BY <1>6, <2>3, <2>4, <2>5
<1>11. B \in Seq(STRING) /\ InList(B) = {all[last(c)].mac : c \in Known}
  <2>1. Len(Linked) \in Nat /\ DOMAIN Linked = 1..Len(Linked) /\ \A i \in DOMAIN Linked : Linked[i] \in Known
    BY <1>7, LenProperties DEF InList
  <2>2. \A c \in Known : all[last(c)].mac \in STRING
    BY <1>4, <1>5, <1>8 DEF Card
  <2>3. B \in [1..Len(Linked) -> STRING]
    <3> HIDE DEF Known
    <3> QED BY <2>1, <2>2
  <2>4. B \in Seq(STRING)
    BY <2>1, <2>3, SeqDef
  <2>5. InList(B) = {all[last(Linked[i])].mac : i \in DOMAIN Linked}
    BY DEF InList
  <2>6. {all[last(Linked[i])].mac : i \in DOMAIN Linked} = {all[last(c)].mac : c \in InList(Linked)}
    BY DEF InList
  <2> HIDE DEF B, Known
  <2> QED BY <1>7, <2>4, <2>5, <2>6
<1> HIDE DEF A, B
<1>12. InList(Adding!CardsOf(s, all)) = InList(A) \cup InList(B)
  <2>1. << >> \in Seq(STRING) /\ InList(<< >>) = {}
    BY EmptySeq DEF InList
  <2>2. A \o B \in Seq(STRING) /\ InList(A \o B) = InList(A) \cup InList(B)
    BY <1>10, <1>11, ConcatProperties, InListConcat
  <2>3. InList(Merged(<< >>, A \o B)) = InList(<< >>) \cup InList(A \o B)
    <3> DEFINE e == << >>
               C == A \o B
    <3>1. e \in Seq(STRING) /\ C \in Seq(STRING)
      BY <2>1, <2>2
    <3> HIDE DEF e, C
    <3>2. InList(Merged(e, C)) = InList(e) \cup InList(C)
      BY <3>1, MergedFacts
    <3> QED BY <3>2 DEF e, C
  <2> QED BY <1>2, <2>1, <2>2, <2>3
<1>13. ASSUME NEW m \in InList(Adding!CardsOf(s, all))
       PROVE  \E e \in InList(all) : e.mac = m /\ Adding!IsCardOf(e, s)
  <2>1. CASE \E e \in Mine : m = e.mac
    BY <1>3, <1>b, <2>1
  <2>2. CASE \E c \in Known : m = all[last(c)].mac
    <3>1. PICK c \in Known : m = all[last(c)].mac
      BY <2>2
    <3>2. c \in InList(cards) /\ last(c) \in At(c)
      BY <1>5, <1>b, <3>1
    <3> QED BY <1>3, <1>8, <1>b, <3>1, <3>2
  <2> HIDE DEF Mine, Known
  <2> QED BY <1>10, <1>11, <1>12, <1>13, <2>1, <2>2
<1>14. ASSUME NEW i \in DOMAIN all, Adding!IsCardOf(all[i], s)
       PROVE  \/ all[i].mac \in InList(Adding!CardsOf(s, all))
              \/ /\ all[i].server # id
                 /\ \E j \in (i + 1)..Len(all) : all[j].id = all[i].id
  <2> DEFINE c == all[i].id
  <2>1. all[i] \in Marked
    BY <1>3, <1>9, <1>14, <1>b
  <2>2. CASE all[i].server = id
    <3>1. all[i] \in Mine
      BY <2>1, <2>2
    <3>2. all[i].mac \in {e.mac : e \in Mine}
      BY <3>1
    <3> QED BY <1>10, <1>12, <3>2
  <2>3. CASE all[i].server # id
    <3>1. i \in At(c) /\ c \in Known
      BY <1>3, <1>14, <1>b, <2>1, <2>3
    <3>2. /\ last(c) \in At(c) /\ i <= last(c) /\ last(c) \in 1..Len(all) /\ i \in 1..Len(all)
          /\ all[last(c)].id = c
      BY <1>4, <1>5, <1>8, <3>1
    <3>3. CASE last(c) = i
      <4>1. all[i].mac \in {all[last(d)].mac : d \in Known}
        BY <3>1, <3>3
      <4> QED BY <1>11, <1>12, <4>1
    <3>4. CASE last(c) # i
      <4>1. last(c) \in (i + 1)..Len(all)
        BY <1>4, <3>2, <3>4
      <4> QED BY <2>3, <3>2, <4>1
    <3> QED BY <3>3, <3>4
  <2> QED BY <2>2, <2>3
<1> QED BY <1>13, <1>14

\* A project is named as it was, or else by one of the list.
LEMMA NamedFacts ==
  ASSUME NEW names, NEW X, NEW all \in Seq(X)
  PROVE  /\ DOMAIN names \subseteq DOMAIN Adding!NamedBy(names, all)
         /\ \A i \in DOMAIN names : Adding!NamedBy(names, all)[i] = names[i]
         /\ \A i \in DOMAIN Adding!NamedBy(names, all) : i \notin DOMAIN names =>
              \E r \in InList(all) : r.id = i /\ Adding!NamedBy(names, all)[i] = r.name
<1> DEFINE N == Adding!NamedBy(names, all)
           Of(i) == {n \in DOMAIN all : all[n].id = i}
           first(i) == CHOOSE n \in Of(i) : \A m \in Of(i) : n <= m
<1>1. N = [i \in DOMAIN names \cup {all[n].id : n \in DOMAIN all} |->
             IF i \in DOMAIN names THEN names[i] ELSE all[first(i)].name]
  BY DEF Adding!NamedBy, Adding!Places
<1>2. Len(all) \in Nat /\ DOMAIN all = 1..Len(all)
  BY LenProperties
<1>3. ASSUME NEW i, Of(i) # {} PROVE first(i) \in Of(i)
  <2>1. Of(i) \subseteq 1..Len(all)
    BY <1>2
  <2> HIDE DEF Of
  <2>2. \E n \in Of(i) : \A m \in Of(i) : n <= m
    BY <1>2, <1>3, <2>1, PlacesHaveEnds
  <2> QED BY <2>2
<1>4. \A i : first(i) \in Of(i) => first(i) \in DOMAIN all /\ all[first(i)].id = i
  OBVIOUS
<1>5. \A i : i \in {all[n].id : n \in DOMAIN all} => Of(i) # {}
  OBVIOUS
<1> HIDE DEF N, first, Of
<1>6. DOMAIN names \subseteq DOMAIN N /\ \A i \in DOMAIN names : N[i] = names[i]
  BY <1>1
<1>7. ASSUME NEW i \in DOMAIN N, i \notin DOMAIN names PROVE \E r \in InList(all) : r.id = i /\ N[i] = r.name
  <2>1. i \in {all[n].id : n \in DOMAIN all} /\ N[i] = all[first(i)].name
    BY <1>1, <1>7
  <2>2. first(i) \in DOMAIN all /\ all[first(i)].id = i
    BY <1>3, <1>4, <1>5, <2>1
  <2> QED BY <2>1, <2>2 DEF InList
<1> QED BY <1>6, <1>7 DEF N

-----------------------------------------------------------------------------
(* Details: the disks.                                                        *)

\* The entries for the attachments of a disk.
LEMMA EntriesFacts ==
  ASSUME NEW s \in DOMAIN Found, NEW r \in DiskRecord
  PROVE  /\ Adding!Entries(s, r) \in Seq(STRING) /\ Len(Adding!Entries(s, r)) = Len(Adding!Here(s, r))
         /\ InList(Adding!Entries(s, r)) \subseteq {r.disk}
         /\ InList(Adding!Entries(s, r)) # {} => Found[s].id \in InList(r.attached)
<1> DEFINE h == Adding!Here(s, r)
           e == Adding!Entries(s, r)
<1>1. r.attached \in Seq(STRING) /\ r.disk \in STRING
  BY DEF DiskRecord
<1>2. h = Only(r.attached, {Found[s].id})
  BY AddingLists DEF Adding!Here
<1>3. e = [a \in DOMAIN h |-> r.disk]
  BY DEF Adding!Entries
<1> HIDE DEF h, e
<1>4. h \in Seq(STRING) /\ InList(h) = InList(r.attached) \cap {Found[s].id}
  BY <1>1, <1>2, OnlyElements
<1>5. Len(h) \in Nat /\ DOMAIN h = 1..Len(h)
  BY <1>4, LenProperties
<1>6. e \in [1..Len(h) -> STRING]
  BY <1>1, <1>3, <1>5
<1>7. e \in Seq(STRING)
  BY <1>5, <1>6, SeqDef
<1>8. Len(e) = Len(h)
  BY <1>5, <1>6, <1>7, LenProperties
<1>9. InList(e) \subseteq {r.disk}
  BY <1>3 DEF InList
<1>10. InList(e) # {} => InList(h) # {}
  BY <1>3 DEF InList
<1>11. InList(e) # {} => Found[s].id \in InList(r.attached)
  BY <1>4, <1>10
<1> QED BY <1>7, <1>8, <1>9, <1>11 DEF h, e

\* The loop over the list, as far as m.
DisksUpto(f, s, all, m) ==
  f = [n \in 0..m |-> IF n = 0 THEN << >>
                      ELSE IF n \in Adding!Data(all) THEN f[n - 1] \o Adding!Entries(s, all[n]) ELSE f[n - 1]]

\* Its values.
LEMMA DisksValue ==
  ASSUME NEW f, NEW s, NEW all, NEW m \in Nat, DisksUpto(f, s, all, m)
  PROVE  /\ f[0] = << >>
         /\ \A n \in Nat : n < m =>
              f[n + 1] = IF n + 1 \in Adding!Data(all) THEN f[n] \o Adding!Entries(s, all[n + 1]) ELSE f[n]
<1>1. \A n \in 0..m : f[n] = IF n = 0 THEN << >>
                      ELSE IF n \in Adding!Data(all) THEN f[n - 1] \o Adding!Entries(s, all[n]) ELSE f[n - 1]
  BY DEF DisksUpto
<1>2. f[0] = << >>
  <2>1. 0 \in 0..m
    OBVIOUS
  <2> QED BY <1>1, <2>1
<1>3. ASSUME NEW n \in Nat, n < m
      PROVE  f[n + 1] = IF n + 1 \in Adding!Data(all) THEN f[n] \o Adding!Entries(s, all[n + 1]) ELSE f[n]
  <2>1. n + 1 \in 0..m /\ n + 1 # 0 /\ (n + 1) - 1 = n
    BY <1>3
  <2> QED BY <1>1, <2>1
<1> QED BY <1>2, <1>3

\* It exists, for a list of any length.
LEMMA DisksExist ==
  ASSUME NEW s, NEW all
  PROVE  \A m \in Nat : \E f : DisksUpto(f, s, all, m)
<1> DEFINE T == {m \in Nat : \E f : DisksUpto(f, s, all, m)}
<1>1. 0 \in T
  <2>1. DisksUpto([n \in 0..0 |-> << >>], s, all, 0)
    BY DEF DisksUpto
  <2> QED BY <2>1
<1>2. ASSUME NEW m \in Nat, m \in T PROVE m + 1 \in T
  <2>1. PICK f : DisksUpto(f, s, all, m)
    BY <1>2
  <2> DEFINE last == IF m + 1 \in Adding!Data(all) THEN f[m] \o Adding!Entries(s, all[m + 1]) ELSE f[m]
             g == [n \in 0..(m + 1) |-> IF n = m + 1 THEN last ELSE f[n]]
  <2>2. \A n \in 0..m : f[n] = IF n = 0 THEN << >>
                      ELSE IF n \in Adding!Data(all) THEN f[n - 1] \o Adding!Entries(s, all[n]) ELSE f[n - 1]
    BY <2>1 DEF DisksUpto
  <2>3. \A n \in 0..(m + 1) : g[n] = IF n = 0 THEN << >>
                      ELSE IF n \in Adding!Data(all) THEN g[n - 1] \o Adding!Entries(s, all[n]) ELSE g[n - 1]
    BY <2>2
  <2>4. DisksUpto(g, s, all, m + 1)
    BY <2>3 DEF DisksUpto
  <2> QED BY <2>4
<1> HIDE DEF T
<1>3. \A m \in Nat : m \in T
  BY <1>1, <1>2, NatInd
<1> QED BY <1>3 DEF T

\* Entries that are added: of one disk for each of its attachments.
Shown(q, s, all, m) ==
  /\ q \in Seq(STRING)
  /\ \A d \in InList(q) : \E n \in 1..m :
       n \in Adding!Data(all) /\ d = all[n].disk /\ Found[s].id \in InList(all[n].attached)
  /\ \A n \in 1..m : n \in Adding!Data(all) =>
       Len(Only(q, {all[n].disk})) = Len(Adding!Here(s, all[n]))

\* One disk more, and all disks different.
LEMMA ShownMore ==
  ASSUME NEW s \in DOMAIN Found, NEW all \in Seq(DiskRecord),
         \A i, j \in DOMAIN all : all[i].disk = all[j].disk => i = j,
         NEW m \in Nat, m + 1 <= Len(all), m + 1 \in Adding!Data(all), NEW q, Shown(q, s, all, m)
  PROVE  Shown(q \o Adding!Entries(s, all[m + 1]), s, all, m + 1)
<1> DEFINE r == all[m + 1]
           e == Adding!Entries(s, r)
           h == Adding!Here(s, r)
<1>1. Len(all) \in Nat /\ DOMAIN all = 1..Len(all) /\ m + 1 \in DOMAIN all
  BY LenProperties
<1>2. r \in DiskRecord
  BY <1>1, ElementOfSeq
<1> HIDE DEF r
<1>3. /\ e \in Seq(STRING) /\ Len(e) = Len(h) /\ InList(e) \subseteq {r.disk}
      /\ InList(e) # {} => Found[s].id \in InList(r.attached)
  BY <1>2, EntriesFacts
<1> HIDE DEF e, h
<1>4. /\ q \in Seq(STRING)
      /\ \A d \in InList(q) : \E n \in 1..m :
           n \in Adding!Data(all) /\ d = all[n].disk /\ Found[s].id \in InList(all[n].attached)
      /\ \A n \in 1..m : n \in Adding!Data(all) => Len(Only(q, {all[n].disk})) = Len(Adding!Here(s, all[n]))
  BY DEF Shown
<1>5. q \o e \in Seq(STRING) /\ InList(q \o e) = InList(q) \cup InList(e)
  BY <1>3, <1>4, ConcatProperties, InListConcat
<1>6. \A S : Only(q \o e, S) = Only(q, S) \o Only(e, S)
  BY <1>3, <1>4, OnlyConcat
<1>7. \A n \in 1..m : n \in DOMAIN all /\ n \in 1..(m + 1) /\ n # m + 1
  BY <1>1
<1>8. \A n \in 1..m : all[n].disk # r.disk
  BY <1>1, <1>7 DEF r
<1>9. ASSUME NEW d \in InList(q \o e)
      PROVE  \E n \in 1..(m + 1) :
               n \in Adding!Data(all) /\ d = all[n].disk /\ Found[s].id \in InList(all[n].attached)
  <2>1. CASE d \in InList(q)
    BY <1>4, <1>7, <2>1
  <2>2. CASE d \in InList(e)
    BY <1>3, <2>2 DEF r
  <2> QED BY <1>5, <1>9, <2>1, <2>2
<1>10. ASSUME NEW n \in 1..(m + 1), n \in Adding!Data(all)
       PROVE  Len(Only(q \o e, {all[n].disk})) = Len(Adding!Here(s, all[n]))
  <2>1. CASE n = m + 1
    <3>1. Only(q, {r.disk}) = << >>
      <4>1. InList(q) \cap {r.disk} = {}
        BY <1>4, <1>8
      <4> QED BY <1>4, <4>1, OnlyNothing
    <3>2. Only(e, {r.disk}) = e
      BY <1>3, OnlyEverything
    <3>3. << >> \o e = e
      BY <1>3, ConcatEmptySeq
    <3>4. Len(Only(q \o e, {r.disk})) = Len(h)
      BY <1>3, <1>6, <3>1, <3>2, <3>3
    <3> QED BY <2>1, <3>4 DEF r, h
  <2>2. CASE n \in 1..m
    <3> DEFINE S == {all[n].disk}
    <3>1. Only(e, S) = << >>
      <4>1. InList(e) \cap S = {}
        BY <1>3, <1>8, <2>2
      <4> HIDE DEF S
      <4> QED BY <1>3, <4>1, OnlyNothing
    <3>2. Only(q, S) \o << >> = Only(q, S)
      <4> HIDE DEF S
      <4>1. Only(q, S) \in Seq(STRING)
        BY <1>4, OnlyElements
      <4> QED BY <4>1, ConcatEmptySeq
    <3>3. Only(q \o e, S) = Only(q, S)
      BY <1>6, <3>1, <3>2
    <3> QED BY <1>4, <1>10, <2>2, <3>3
  <2>3. n = m + 1 \/ n \in 1..m
    OBVIOUS
  <2> QED BY <2>1, <2>2, <2>3
<1>11. Shown(q \o e, s, all, m + 1)
  BY <1>5, <1>9, <1>10 DEF Shown
<1> QED BY <1>11 DEF e, r

\* A server shows its data disks: without the assumption that all are different,
\* none but those; with it, each as often as it is attached.
LEMMA DisksShown ==
  ASSUME NEW s \in DOMAIN Found, NEW all \in Seq(DiskRecord)
  PROVE  /\ \A d \in InList(Adding!DisksOf(s, all)) : \E r \in InList(all) :
              r.disk = d /\ ~r.system /\ Found[s].id \in InList(r.attached)
         /\ (\A i, j \in DOMAIN all : all[i].disk = all[j].disk => i = j) =>
              \A r \in InList(all) : ~r.system =>
                Len(Only(Adding!DisksOf(s, all), {r.disk})) = Len(Adding!Here(s, r))
<1> DEFINE n == Len(all)
           u == CHOOSE f : DisksUpto(f, s, all, n)
           own(d) == \E r \in InList(all) : r.disk = d /\ ~r.system /\ Found[s].id \in InList(r.attached)
<1>1. n \in Nat /\ DOMAIN all = 1..n
  BY LenProperties
<1>2. Adding!DisksOf(s, all) = u[n]
  BY DEF Adding!DisksOf, DisksUpto
<1>3. DisksUpto(u, s, all, n)
  BY <1>1, DisksExist
<1> HIDE DEF u
<1>4. u[0] = << >>
  BY <1>1, <1>3, DisksValue
<1>5. ASSUME NEW m \in Nat, m + 1 <= n
      PROVE  u[m + 1] = IF m + 1 \in Adding!Data(all) THEN u[m] \o Adding!Entries(s, all[m + 1]) ELSE u[m]
  BY <1>1, <1>3, <1>5, DisksValue
<1>6. \A m \in 1..n : all[m] \in DiskRecord /\ all[m] \in InList(all)
  BY <1>1, ElementOfSeq DEF InList
<1>7. \A m : m \in Adding!Data(all) <=> m \in 1..n /\ ~all[m].system
  BY <1>1 DEF Adding!Data
<1>8. InList(<< >>) = {} /\ << >> \in Seq(STRING)
  BY EmptySeq DEF InList
<1> HIDE DEF n
<1>9. u[n] \in Seq(STRING) /\ \A d \in InList(u[n]) : own(d)
  <2> HIDE DEF own
  <2> DEFINE T == {m \in Nat : m <= n => u[m] \in Seq(STRING) /\ \A d \in InList(u[m]) : own(d)}
  <2>1. 0 \in T
    BY <1>4, <1>8
  <2>2. ASSUME NEW m \in Nat, m \in T PROVE m + 1 \in T
    <3> SUFFICES ASSUME m + 1 <= n PROVE u[m + 1] \in Seq(STRING) /\ \A d \in InList(u[m + 1]) : own(d)
      OBVIOUS
    <3>1. u[m] \in Seq(STRING) /\ \A d \in InList(u[m]) : own(d)
      BY <1>1, <2>2
    <3>2. CASE m + 1 \notin Adding!Data(all)
      BY <1>5, <3>1, <3>2
    <3>3. CASE m + 1 \in Adding!Data(all)
      <4> DEFINE r == all[m + 1]
                 e == Adding!Entries(s, r)
      <4>1. r \in DiskRecord /\ r \in InList(all) /\ ~r.system
        BY <1>6, <1>7, <3>3
      <4>2. u[m + 1] = u[m] \o e
        BY <1>5, <3>3
      <4> HIDE DEF r
      <4>3. /\ e \in Seq(STRING) /\ InList(e) \subseteq {r.disk}
            /\ InList(e) # {} => Found[s].id \in InList(r.attached)
        BY <4>1, EntriesFacts
      <4> HIDE DEF e
      <4>4. \A d \in InList(e) : own(d)
        BY <4>1, <4>3 DEF own
      <4>5. u[m] \o e \in Seq(STRING) /\ InList(u[m] \o e) = InList(u[m]) \cup InList(e)
        BY <3>1, <4>3, ConcatProperties, InListConcat
      <4> QED BY <3>1, <4>2, <4>4, <4>5
    <3> QED BY <3>2, <3>3
  <2> HIDE DEF T
  <2>3. n \in T
    BY <1>1, <2>1, <2>2, NatInd
  <2> QED BY <1>1, <2>3 DEF T
<1>10. ASSUME \A i, j \in DOMAIN all : all[i].disk = all[j].disk => i = j
       PROVE  \A r \in InList(all) : ~r.system => Len(Only(u[n], {r.disk})) = Len(Adding!Here(s, r))
  <2> DEFINE T == {m \in Nat : m <= n => Shown(u[m], s, all, m)}
  <2>1. 0 \in T
    <3>1. Shown(<< >>, s, all, 0)
      BY <1>8 DEF Shown
    <3> QED BY <1>4, <3>1
  <2>2. ASSUME NEW m \in Nat, m \in T PROVE m + 1 \in T
    <3> SUFFICES ASSUME m + 1 <= n PROVE Shown(u[m + 1], s, all, m + 1)
      OBVIOUS
    <3>1. Shown(u[m], s, all, m)
      BY <1>1, <2>2
    <3>2. CASE m + 1 \notin Adding!Data(all)
      <4>1. u[m + 1] = u[m]
        BY <1>5, <3>2
      <4>2. \A i \in 1..m : i \in 1..(m + 1)
        OBVIOUS
      <4>3. \A i \in 1..(m + 1) : i \in Adding!Data(all) => i \in 1..m
        BY <3>2
      <4> QED BY <3>1, <4>1, <4>2, <4>3 DEF Shown
    <3>3. CASE m + 1 \in Adding!Data(all)
      <4>1. Shown(u[m] \o Adding!Entries(s, all[m + 1]), s, all, m + 1)
        BY <1>10, <3>1, <3>3, ShownMore DEF n
      <4> QED BY <1>5, <3>3, <4>1
    <3> QED BY <3>2, <3>3
  <2> HIDE DEF T
  <2>3. n \in T
    BY <1>1, <2>1, <2>2, NatInd
  <2>4. Shown(u[n], s, all, n)
    BY <1>1, <2>3 DEF T
  <2>5. ASSUME NEW r \in InList(all), ~r.system PROVE Len(Only(u[n], {r.disk})) = Len(Adding!Here(s, r))
    <3>1. PICK m \in 1..n : r = all[m]
      BY <1>1 DEF InList
    <3>2. m \in Adding!Data(all)
      BY <1>7, <2>5, <3>1
    <3> QED BY <2>4, <3>1, <3>2 DEF Shown
  <2> QED BY <2>5
<1> QED BY <1>2, <1>9, <1>10

-----------------------------------------------------------------------------
(* Details: the inductive invariant.                                          *)

AllLists == [enis : Seq(Card), disks : Seq(DiskRecord), projects : Seq(Projecting!ProjectSet)]

\* The lists are those of the start, or lists of the same.
ListsTyped ==
  /\ start \in AllLists /\ lists \in AllLists
  /\ \A i, j \in DOMAIN start.disks : start.disks[i].disk = start.disks[j].disk => i = j
  /\ InList(lists.enis) \subseteq InList(start.enis)
  /\ InList(lists.disks) \subseteq InList(start.disks)
  /\ InList(lists.projects) \subseteq InList(start.projects)
  /\ ~disturbed => lists = start

FetchTyped ==
  /\ adding \in {"enis", "disks", "projects", "ok", "failed"}
  /\ pageAt \in Nat \ {0} /\ cut \in Nat /\ listChanges \in 0..MaxChanges
  /\ DOMAIN mac = DOMAIN Found /\ DOMAIN dataDisks = DOMAIN Found /\ DOMAIN named = DOMAIN Found

\* What has been fetched of a list is of the list; in calm, the pages so far.
Fetched(k, X) ==
  adding = k =>
    /\ listed \in Seq(X) /\ InList(listed) \subseteq InList(start[k])
    /\ k # "projects" /\ ~disturbed =>
         (pageAt - 1) * PageSize <= Len(start[k]) /\ listed = SubSeq(start[k], 1, (pageAt - 1) * PageSize)

FetchedSoFar ==
  /\ Fetched("enis", Card) /\ (adding = "enis" => cut = 0)
  /\ Fetched("disks", DiskRecord)
  /\ Fetched("projects", Projecting!ProjectSet)

\* What a server shows so far is its own, and nothing of it is missing.
MacsAreOwn ==
  \A s \in DOMAIN Found : \A m \in InList(mac[s]) :
    \E e \in InList(start.enis) : e.mac = m /\ Adding!IsCardOf(e, s)
DisksAreOwn ==
  \A s \in DOMAIN Found : \A d \in InList(dataDisks[s]) : \E r \in InList(start.disks) :
    r.disk = d /\ ~r.system /\ Found[s].id \in InList(r.attached) /\ ~Found[s].metal

CardsSoFar == ~disturbed /\ adding # "enis" => \A s \in DOMAIN Found : Adding!CardsAreThere(s)
DisksSoFar == ~disturbed /\ adding \in {"projects", "ok"} => \A s \in DOMAIN Found : Adding!DisksAreThere(s)

\* The resolved names are kept, and every other one was given.
NamesSoFar(names) ==
  /\ DOMAIN ProjectNames \subseteq DOMAIN names
  /\ \A p \in DOMAIN names :
       IF p \in DOMAIN ProjectNames THEN names[p] = ProjectNames[p] ELSE names[p] \in Adding!Given(p)

DetailsIInv ==
  /\ ListsTyped /\ FetchTyped /\ FetchedSoFar /\ MacsAreOwn /\ DisksAreOwn /\ CardsSoFar /\ DisksSoFar
  /\ NamesSoFar(naming) /\ Adding!NamesArePreferred

\* The lists stay as they are, and what was disturbed is.
NoMoreCalm == UNCHANGED <<lists, start, listChanges>> /\ (~disturbed' => ~disturbed)

\* The lists are untouched.
LEMMA ListsStay ==
  ASSUME ListsTyped, UNCHANGED <<lists, start>>, ~disturbed' => ~disturbed
  PROVE  ListsTyped'
BY DEF ListsTyped

\* The names that are given are those of the start.
LEMMA GivenStays ==
  ASSUME start' = start
  PROVE  \A p : Adding!Given(p)' = Adding!Given(p)
BY DEF Adding!Given

\* More names, of given projects.
LEMMA NamesGrow ==
  ASSUME NEW names, NamesSoFar(names), NEW X, NEW all \in Seq(X), \A r \in InList(all) : r.name \in Adding!Given(r.id)
  PROVE  NamesSoFar(Adding!NamedBy(names, all))
<1> DEFINE N == Adding!NamedBy(names, all)
<1>1. /\ DOMAIN names \subseteq DOMAIN N /\ \A i \in DOMAIN names : N[i] = names[i]
      /\ \A i \in DOMAIN N : i \notin DOMAIN names => \E r \in InList(all) : r.id = i /\ N[i] = r.name
  BY NamedFacts
<1> HIDE DEF N
<1>2. NamesSoFar(N)
  BY <1>1 DEF NamesSoFar
<1> QED BY <1>2 DEF N

\* The names of a list of projects are given.
LEMMA ListGives ==
  ASSUME ListsTyped
  PROVE  /\ \A r \in InList(start.projects) : r.name \in Adding!Given(r.id)
         /\ \A r \in InList(start.disks) : r.project.name \in Adding!Given(r.project.id)
<1>1. Adding!InList(start.projects) = InList(start.projects)
  BY AddingLists
<1>2. \A r \in InList(start.projects) : r.name \in Adding!Given(r.id)
  BY <1>1 DEF Adding!Given
<1>3. \A r \in InList(start.disks) : r.project \in Adding!InList(Adding!ProjectsOf(start.disks))
  BY DEF Adding!InList, InList, Adding!ProjectsOf
<1>4. \A r \in InList(start.disks) : r.project.name \in Adding!Given(r.project.id)
  BY <1>3 DEF Adding!Given
<1> QED BY <1>2, <1>4

\* The names that the disks give.
LEMMA DisksGive ==
  ASSUME ListsTyped, NEW all \in Seq(DiskRecord), InList(all) \subseteq InList(start.disks),
         NamesSoFar(naming)
  PROVE  NamesSoFar(Adding!NamedBy(naming,
           LET q == Adding!ProjectsOf(all)
           IN  Adding!Only(q, {p \in Adding!InList(q) : Adding!NoText \notin {p.id, p.name}})))
<1> DEFINE q == Adding!ProjectsOf(all)
           S == {p \in Adding!InList(q) : Adding!NoText \notin {p.id, p.name}}
           u == Adding!Only(q, S)
<1>1. q = [i \in DOMAIN all |-> all[i].project]
  BY DEF Adding!ProjectsOf
<1>2. Len(all) \in Nat /\ DOMAIN all = 1..Len(all) /\ \A i \in DOMAIN all : all[i] \in DiskRecord
  BY LenProperties, ElementOfSeq
<1>3. q \in Seq(Projecting!ProjectSet)
  <2>1. q \in [1..Len(all) -> Projecting!ProjectSet]
    BY <1>1, <1>2 DEF DiskRecord
  <2> QED BY <1>2, <2>1, SeqDef
<1>4. \A p \in InList(q) : \E r \in InList(all) : p = r.project
  BY <1>1 DEF InList
<1> HIDE DEF q, S
<1>5. u = Only(q, S)
  BY AddingLists
<1>6. u \in Seq(Projecting!ProjectSet) /\ InList(u) \subseteq InList(q)
  BY <1>3, <1>5, OnlyElements
<1> HIDE DEF u
<1>7. \A p \in InList(u) : p.name \in Adding!Given(p.id)
  BY <1>4, <1>6, ListGives
<1>8. NamesSoFar(Adding!NamedBy(naming, u))
  BY <1>6, <1>7, NamesGrow
<1> QED BY <1>8 DEF u, q, S

-----------------------------------------------------------------------------
(* Details: the steps.                                                        *)

\* The cards are complete, or broke off at a page.
LEMMA CardsKeep ==
  ASSUME DetailsIInv, adding = "enis", NEW all \in Seq(Card), InList(all) \subseteq InList(start.enis),
         Adding!Cards(all), NoMoreCalm, cut' \in Nat,
         ~disturbed' => \/ cut' = 0 /\ all = start.enis
                        \/ /\ cut' # 0 /\ (cut' - 1) * PageSize <= Len(start.enis)
                           /\ all = SubSeq(start.enis, 1, (cut' - 1) * PageSize)
  PROVE  DetailsIInv'
<1>1. /\ mac' = [s \in DOMAIN Found |-> Adding!CardsOf(s, all)]
      /\ adding' = "disks" /\ pageAt' = 1 /\ listed' = << >>
      /\ dataDisks' = dataDisks /\ naming' = naming /\ named' = named
  BY DEF Adding!Cards, Adding!NextList, Adding!Servers
<1>2. lists' = lists /\ start' = start /\ listChanges' = listChanges /\ (~disturbed' => ~disturbed)
  BY DEF NoMoreCalm
<1>3. ListsTyped'
  BY <1>2, ListsStay DEF DetailsIInv
<1>4. FetchTyped'
  BY <1>1, <1>2 DEF DetailsIInv, FetchTyped
<1>5. FetchedSoFar'
  <2>1. start.disks \in Seq(DiskRecord) /\ start.enis \in Seq(Card)
    BY DEF DetailsIInv, ListsTyped, AllLists
  <2>2. (1 - 1) * PageSize = 0 /\ Len(start.disks) \in Nat
    BY <2>1, LenProperties, SizeFacts
  <2>3. << >> \in Seq(DiskRecord) /\ InList(<< >>) = {} /\ << >> = SubSeq(start.disks, 1, 0)
    BY <2>1, <2>2, EmptySeq, SubSeqEmpty DEF InList
  <2> QED BY <1>1, <1>2, <2>1, <2>2, <2>3 DEF FetchedSoFar, Fetched
<1>6. MacsAreOwn'
  <2>1. \A s \in DOMAIN Found : \A m \in InList(mac'[s]) : \E e \in InList(start.enis) : e.mac = m /\ Adding!IsCardOf(e, s)
    BY <1>1, CardsShown
  <2> QED BY <1>2, <2>1 DEF MacsAreOwn
<1>7. DisksAreOwn'
  BY <1>1, <1>2 DEF DetailsIInv, DisksAreOwn
<1>8. CardsSoFar'
  <2> SUFFICES ASSUME ~disturbed', NEW s \in DOMAIN Found PROVE Adding!CardsAreThere(s)'
    BY DEF CardsSoFar
  <2> SUFFICES ASSUME NEW i \in DOMAIN start.enis, Adding!IsCardOf(start.enis[i], s)
               PROVE  \/ start.enis[i].mac \in InList(mac'[s])
                      \/ /\ start.enis[i].server # Found[s].id
                         /\ \E j \in (i + 1)..Len(start.enis) : start.enis[j].id = start.enis[i].id
                      \/ cut' # 0 /\ i > (cut' - 1) * PageSize
    BY <1>2, AddingLists DEF Adding!CardsAreThere
  <2>1. start.enis \in Seq(Card)
    BY DEF DetailsIInv, ListsTyped, AllLists
  <2>2. Len(start.enis) \in Nat /\ DOMAIN start.enis = 1..Len(start.enis)
    BY <2>1, LenProperties
  <2>3. mac'[s] = Adding!CardsOf(s, all)
    BY <1>1
  <2>4. \A n \in DOMAIN all : Adding!IsCardOf(all[n], s) =>
              \/ all[n].mac \in InList(mac'[s])
              \/ all[n].server # Found[s].id /\ \E j \in (n + 1)..Len(all) : all[j].id = all[n].id
    BY <2>3, CardsShown
  <2>5. CASE all = start.enis
    BY <2>4, <2>5
  <2>6. CASE /\ cut' # 0 /\ (cut' - 1) * PageSize <= Len(start.enis)
             /\ all = SubSeq(start.enis, 1, (cut' - 1) * PageSize)
    <3> DEFINE c == (cut' - 1) * PageSize
    <3>1. c \in Nat
      BY <2>6, PageBefore, SizeFacts
    <3> HIDE DEF c
    <3>2. CASE i > c
      BY <2>6, <3>2 DEF c
    <3>3. CASE i <= c
      <4>1. c <= Len(start.enis) /\ all = SubSeq(start.enis, 1, c)
        BY <2>6 DEF c
      <4>2. \A n \in 1..c : start.enis[n] \in Card
        BY <2>1, <2>2, <3>1, <4>1, ElementOfSeq
      <4>3. Len(all) = c /\ DOMAIN all = 1..c /\ \A n \in 1..c : all[n] = start.enis[n]
        BY <2>1, <2>2, <3>1, <4>1, <4>2, SubSeqProperties, LenProperties
      <4>4. i \in DOMAIN all /\ all[i] = start.enis[i]
        BY <2>2, <3>1, <3>3, <4>3
      <4>5. \A j \in (i + 1)..Len(all) : j \in (i + 1)..Len(start.enis) /\ all[j] = start.enis[j]
        BY <2>2, <3>1, <4>1, <4>3
      <4> QED BY <2>4, <4>4, <4>5
    <3> QED BY <2>2, <3>1, <3>2, <3>3
  <2> QED BY <2>5, <2>6
<1>9. DisksSoFar'
  BY <1>1 DEF DisksSoFar
<1>10. NamesSoFar(naming)'
  BY <1>1, <1>2 DEF DetailsIInv, NamesSoFar, Adding!Given
<1>11. Adding!NamesArePreferred'
  BY <1>1 DEF Adding!NamesArePreferred
<1> QED BY <1>3, <1>4, <1>5, <1>6, <1>7, <1>8, <1>9, <1>10, <1>11 DEF DetailsIInv

\* The disks are complete.
LEMMA DisksKeep ==
  ASSUME DetailsIInv, adding = "disks", NEW all \in Seq(DiskRecord), InList(all) \subseteq InList(start.disks),
         Adding!Disks(all), NoMoreCalm, cut' = cut, ~disturbed' => all = start.disks
  PROVE  DetailsIInv'
<1>1. /\ dataDisks' = [s \in DOMAIN Found |-> IF Found[s].metal THEN << >> ELSE Adding!DisksOf(s, all)]
      /\ adding' = "projects" /\ pageAt' = 1 /\ listed' = << >> /\ mac' = mac /\ named' = named
  BY DEF Adding!Disks, Adding!NextList, Adding!Servers
<1>2. lists' = lists /\ start' = start /\ listChanges' = listChanges /\ (~disturbed' => ~disturbed)
  BY DEF NoMoreCalm
<1>3. ListsTyped /\ ListsTyped'
  BY <1>2, ListsStay DEF DetailsIInv
<1>4. FetchTyped'
  BY <1>1, <1>2 DEF DetailsIInv, FetchTyped
<1>5. FetchedSoFar'
  <2>1. << >> \in Seq(Projecting!ProjectSet) /\ InList(<< >>) = {}
    BY EmptySeq DEF InList
  <2> QED BY <1>1, <1>2, <2>1 DEF FetchedSoFar, Fetched
<1>6. MacsAreOwn'
  BY <1>1, <1>2 DEF DetailsIInv, MacsAreOwn
<1>7. DisksAreOwn'
  <2> SUFFICES ASSUME NEW s \in DOMAIN Found, NEW d \in InList(dataDisks'[s])
               PROVE  \E r \in InList(start.disks) :
                        r.disk = d /\ ~r.system /\ Found[s].id \in InList(r.attached) /\ ~Found[s].metal
    BY <1>2 DEF DisksAreOwn
  <2>1. CASE Found[s].metal
    BY <1>1, <2>1 DEF InList
  <2>2. CASE ~Found[s].metal
    <3>1. dataDisks'[s] = Adding!DisksOf(s, all)
      BY <1>1, <2>2
    <3>2. PICK r \in InList(all) : r.disk = d /\ ~r.system /\ Found[s].id \in InList(r.attached)
      BY <3>1, DisksShown
    <3> QED BY <2>2, <3>2
  <2> QED BY <2>1, <2>2
<1>8. CardsSoFar'
  BY <1>1, <1>2 DEF DetailsIInv, CardsSoFar, Adding!CardsAreThere
<1>9. DisksSoFar'
  <2> SUFFICES ASSUME ~disturbed', NEW s \in DOMAIN Found, ~Found[s].metal, NEW r \in InList(start.disks), ~r.system
               PROVE  Len(Only(dataDisks'[s], {r.disk})) = Len(Adding!Here(s, r))
    BY <1>2, AddingLists DEF DisksSoFar, Adding!DisksAreThere
  <2>1. dataDisks'[s] = Adding!DisksOf(s, start.disks)
    BY <1>1
  <2>2. \A i, j \in DOMAIN start.disks : start.disks[i].disk = start.disks[j].disk => i = j
    BY <1>3 DEF ListsTyped
  <2>3. start.disks \in Seq(DiskRecord)
    BY <1>3 DEF ListsTyped, AllLists
  <2> QED BY <2>1, <2>2, <2>3, DisksShown
<1>10. NamesSoFar(naming)'
  <2> DEFINE N == Adding!NamedBy(naming,
                    LET q == Adding!ProjectsOf(all)
                    IN  Adding!Only(q, {p \in Adding!InList(q) : Adding!NoText \notin {p.id, p.name}}))
  <2>1. naming' = N
    BY DEF Adding!Disks
  <2>2. NamesSoFar(N)
    BY <1>3, DisksGive DEF DetailsIInv
  <2> HIDE DEF N
  <2> QED BY <1>2, <2>1, <2>2 DEF NamesSoFar, Adding!Given
<1>11. Adding!NamesArePreferred'
  BY <1>1 DEF Adding!NamesArePreferred
<1> QED BY <1>3, <1>4, <1>5, <1>6, <1>7, <1>8, <1>9, <1>10, <1>11 DEF DetailsIInv

\* The names are complete, or broke off.
LEMMA NamesKeep ==
  ASSUME DetailsIInv, adding = "projects", NEW all \in Seq(Projecting!ProjectSet), InList(all) \subseteq InList(start.projects),
         Adding!Names(all), NoMoreCalm, cut' = cut
  PROVE  DetailsIInv'
<1>1. /\ naming' = Adding!NamedBy(naming, all) /\ named' = Adding!Shown(naming')
      /\ adding' = "ok" /\ pageAt' = pageAt /\ listed' = listed /\ mac' = mac /\ dataDisks' = dataDisks
  BY DEF Adding!Names
<1>2. lists' = lists /\ start' = start /\ listChanges' = listChanges /\ (~disturbed' => ~disturbed)
  BY DEF NoMoreCalm
<1>3. ListsTyped /\ ListsTyped'
  BY <1>2, ListsStay DEF DetailsIInv
<1>4. FetchTyped'
  BY <1>1, <1>2 DEF DetailsIInv, FetchTyped, Adding!Shown, Adding!Servers
<1>5. FetchedSoFar'
  BY <1>1 DEF FetchedSoFar, Fetched
<1>6. MacsAreOwn'
  BY <1>1, <1>2 DEF DetailsIInv, MacsAreOwn
<1>7. DisksAreOwn'
  BY <1>1, <1>2 DEF DetailsIInv, DisksAreOwn
<1>8. CardsSoFar'
  BY <1>1, <1>2 DEF DetailsIInv, CardsSoFar, Adding!CardsAreThere
<1>9. DisksSoFar'
  BY <1>1, <1>2 DEF DetailsIInv, DisksSoFar, Adding!DisksAreThere
<1>10. NamesSoFar(naming')
  <2>1. \A r \in InList(all) : r.name \in Adding!Given(r.id)
    BY <1>3, ListGives
  <2> QED BY <1>1, <2>1, NamesGrow DEF DetailsIInv
<1>11. NamesSoFar(naming)'
  BY <1>2, <1>10 DEF NamesSoFar, Adding!Given
<1>12. Adding!NamesArePreferred'
  <2> SUFFICES ASSUME NEW s \in DOMAIN Found
               PROVE  LET p == Found[s].project
                      IN  IF p \in DOMAIN ProjectNames /\ ProjectNames[p] # Adding!NoText
                          THEN named'[s] = ProjectNames[p]
                          ELSE named'[s] \in Adding!Given(p) \cup {p}
    BY <1>2, GivenStays DEF Adding!NamesArePreferred, Adding!Servers
  <2> DEFINE p == Found[s].project
  <2>1. named'[s] = IF p \in DOMAIN naming' /\ naming'[p] # Adding!NoText THEN naming'[p] ELSE p
    BY <1>1 DEF Adding!Shown, Adding!Servers
  <2> QED BY <1>10, <2>1 DEF NamesSoFar
<1> QED BY <1>3, <1>4, <1>5, <1>6, <1>7, <1>8, <1>9, <1>11, <1>12 DEF DetailsIInv

-----------------------------------------------------------------------------
(* Details: the answers.                                                      *)

\* A page more, and not the last.
LEMMA MoreKeeps ==
  ASSUME DetailsIInv, NEW all, Adding!More(all), NoMoreCalm, cut' = cut,
         adding \in {"enis", "disks", "projects"}, FetchedSoFar'
  PROVE  DetailsIInv'
<1>1. /\ listed' = all /\ pageAt' = pageAt + 1 /\ adding' = adding
      /\ mac' = mac /\ dataDisks' = dataDisks /\ naming' = naming /\ named' = named
  BY DEF Adding!More, Adding!added
<1>2. lists' = lists /\ start' = start /\ listChanges' = listChanges /\ (~disturbed' => ~disturbed)
  BY DEF NoMoreCalm
<1>3. ListsTyped'
  BY <1>2, ListsStay DEF DetailsIInv
<1>4. FetchTyped'
  BY <1>1, <1>2 DEF DetailsIInv, FetchTyped
<1>5. MacsAreOwn' /\ DisksAreOwn'
  BY <1>1, <1>2 DEF DetailsIInv, MacsAreOwn, DisksAreOwn
<1>6. CardsSoFar'
  BY <1>1, <1>2 DEF DetailsIInv, CardsSoFar, Adding!CardsAreThere
<1>7. DisksSoFar'
  BY <1>1, <1>2 DEF DetailsIInv, DisksSoFar, Adding!DisksAreThere
<1>8. NamesSoFar(naming)'
  BY <1>1, <1>2 DEF DetailsIInv, NamesSoFar, Adding!Given
<1>9. Adding!NamesArePreferred'
  BY <1>1 DEF Adding!NamesArePreferred
<1> QED BY <1>3, <1>4, <1>5, <1>6, <1>7, <1>8, <1>9 DEF DetailsIInv

\* A page of a list, and the pages before.
LEMMA PageAdds ==
  ASSUME NEW X, NEW q \in Seq(X), NEW r \in Seq(X), NEW S, InList(q) \subseteq S, InList(r) \subseteq S
  PROVE  q \o r \in Seq(X) /\ InList(q \o r) \subseteq S
BY ConcatProperties, InListConcat

\* An answer about the cards: a page, or an error that looks like one.
LEMMA EniAnswerKeeps ==
  ASSUME DetailsIInv, NEW items \in Seq(Card), InList(items) \subseteq InList(start.enis), NEW total \in Int,
         Adding!EniAnswer(items, total), NoMoreCalm, cut' = cut,
         ~disturbed' => items = PageOf(start.enis, pageAt, PageSize) /\ total = Pages(start.enis, PageSize)
  PROVE  DetailsIInv'
<1> DEFINE all == listed \o items
<1>1. /\ adding = "enis"
      /\ IF total <= 0 \/ pageAt >= total THEN Adding!Cards(all) ELSE Adding!More(all)
  BY DEF Adding!EniAnswer
<1>2. /\ listed \in Seq(Card) /\ InList(listed) \subseteq InList(start.enis) /\ cut = 0
      /\ start.enis \in Seq(Card) /\ pageAt \in Nat \ {0} /\ PageSize \in Nat \ {0}
      /\ ~disturbed => /\ (pageAt - 1) * PageSize <= Len(start.enis)
                       /\ listed = SubSeq(start.enis, 1, (pageAt - 1) * PageSize)
  BY <1>1, SizeFacts DEF DetailsIInv, FetchedSoFar, Fetched, ListsTyped, AllLists, FetchTyped
<1>3. all \in Seq(Card) /\ InList(all) \subseteq InList(start.enis)
  BY <1>2, PageAdds
<1>4. start' = start /\ (~disturbed' => ~disturbed)
  BY DEF NoMoreCalm
<1>5. ~disturbed' =>
        /\ (total <= 0 \/ pageAt >= total) => all = start.enis
        /\ pageAt < total =>
             pageAt * PageSize <= Len(start.enis) /\ all = SubSeq(start.enis, 1, pageAt * PageSize)
  <2> SUFFICES ASSUME ~disturbed'
               PROVE  /\ (total <= 0 \/ pageAt >= total) => all = start.enis
                      /\ pageAt < total =>
                           pageAt * PageSize <= Len(start.enis) /\ all = SubSeq(start.enis, 1, pageAt * PageSize)
    OBVIOUS
  <2>1. /\ (pageAt - 1) * PageSize <= Len(start.enis)
        /\ all = SubSeq(start.enis, 1, (pageAt - 1) * PageSize) \o PageOf(start.enis, pageAt, PageSize)
        /\ total = Pages(start.enis, PageSize)
    BY <1>2, <1>4
  <2> DEFINE q == start.enis
             before == SubSeq(q, 1, (pageAt - 1) * PageSize)
  <2>2. q \in Seq(Card) /\ (pageAt - 1) * PageSize <= Len(q)
    BY <1>2, <2>1
  <2> HIDE DEF q, all
  <2>3. /\ (pageAt >= Pages(q, PageSize) \/ Pages(q, PageSize) <= 0) => before \o PageOf(q, pageAt, PageSize) = q
        /\ pageAt < Pages(q, PageSize) =>
             /\ pageAt * PageSize <= Len(q)
             /\ before \o PageOf(q, pageAt, PageSize) = SubSeq(q, 1, pageAt * PageSize)
    BY <1>2, <2>2, PagesFit
  <2> QED BY <2>1, <2>3 DEF q
<1> HIDE DEF all
<1>6. CASE total <= 0 \/ pageAt >= total
  <2>1. Adding!Cards(all) /\ cut' \in Nat
    BY <1>1, <1>2, <1>6
  <2> QED BY <1>1, <1>2, <1>3, <1>5, <1>6, <2>1, CardsKeep
<1>7. CASE ~(total <= 0 \/ pageAt >= total)
  <2>1. Adding!More(all) /\ pageAt < total
    BY <1>1, <1>2, <1>7
  <2>2. listed' = all /\ pageAt' = pageAt + 1 /\ adding' = "enis"
    BY <1>1, <2>1 DEF Adding!More
  <2>3. (pageAt + 1) - 1 = pageAt
    BY <1>2
  <2>4. FetchedSoFar'
    BY <1>2, <1>3, <1>4, <1>5, <2>1, <2>2, <2>3 DEF FetchedSoFar, Fetched
  <2> QED BY <1>1, <2>1, <2>4, MoreKeeps
<1> QED BY <1>6, <1>7

\* An answer about the disks.
LEMMA DisksAnswerKeeps ==
  ASSUME DetailsIInv, NEW items \in Seq(DiskRecord), InList(items) \subseteq InList(start.disks), NEW total \in Int,
         Adding!DiskAnswer(items, total), NoMoreCalm, cut' = cut,
         ~disturbed' => items = PageOf(start.disks, pageAt, PageSize) /\ total = Pages(start.disks, PageSize)
  PROVE  DetailsIInv'
<1> DEFINE all == listed \o items
<1>1. /\ adding = "disks"
      /\ IF total <= 0 \/ pageAt >= total THEN Adding!Disks(all) ELSE Adding!More(all)
  BY DEF Adding!DiskAnswer
<1>2. /\ listed \in Seq(DiskRecord) /\ InList(listed) \subseteq InList(start.disks)
      /\ start.disks \in Seq(DiskRecord) /\ pageAt \in Nat \ {0} /\ PageSize \in Nat \ {0}
      /\ ~disturbed => /\ (pageAt - 1) * PageSize <= Len(start.disks)
                       /\ listed = SubSeq(start.disks, 1, (pageAt - 1) * PageSize)
  BY <1>1, SizeFacts DEF DetailsIInv, FetchedSoFar, Fetched, ListsTyped, AllLists, FetchTyped
<1>3. all \in Seq(DiskRecord) /\ InList(all) \subseteq InList(start.disks)
  BY <1>2, PageAdds
<1>4. start' = start /\ (~disturbed' => ~disturbed)
  BY DEF NoMoreCalm
<1>5. ~disturbed' =>
        /\ (total <= 0 \/ pageAt >= total) => all = start.disks
        /\ pageAt < total =>
             pageAt * PageSize <= Len(start.disks) /\ all = SubSeq(start.disks, 1, pageAt * PageSize)
  <2> SUFFICES ASSUME ~disturbed'
               PROVE  /\ (total <= 0 \/ pageAt >= total) => all = start.disks
                      /\ pageAt < total =>
                           pageAt * PageSize <= Len(start.disks) /\ all = SubSeq(start.disks, 1, pageAt * PageSize)
    OBVIOUS
  <2>1. /\ (pageAt - 1) * PageSize <= Len(start.disks)
        /\ all = SubSeq(start.disks, 1, (pageAt - 1) * PageSize) \o PageOf(start.disks, pageAt, PageSize)
        /\ total = Pages(start.disks, PageSize)
    BY <1>2, <1>4
  <2> DEFINE q == start.disks
             before == SubSeq(q, 1, (pageAt - 1) * PageSize)
  <2>2. q \in Seq(DiskRecord) /\ (pageAt - 1) * PageSize <= Len(q)
    BY <1>2, <2>1
  <2> HIDE DEF q, all
  <2>3. /\ (pageAt >= Pages(q, PageSize) \/ Pages(q, PageSize) <= 0) => before \o PageOf(q, pageAt, PageSize) = q
        /\ pageAt < Pages(q, PageSize) =>
             /\ pageAt * PageSize <= Len(q)
             /\ before \o PageOf(q, pageAt, PageSize) = SubSeq(q, 1, pageAt * PageSize)
    BY <1>2, <2>2, PagesFit
  <2> QED BY <2>1, <2>3 DEF q
<1> HIDE DEF all
<1>6. CASE total <= 0 \/ pageAt >= total
  <2>1. Adding!Disks(all)
    BY <1>1, <1>6
  <2> QED BY <1>1, <1>2, <1>3, <1>5, <1>6, <2>1, DisksKeep
<1>7. CASE ~(total <= 0 \/ pageAt >= total)
  <2>1. Adding!More(all) /\ pageAt < total
    BY <1>1, <1>2, <1>7
  <2>2. listed' = all /\ pageAt' = pageAt + 1 /\ adding' = "disks"
    BY <1>1, <2>1 DEF Adding!More
  <2>3. (pageAt + 1) - 1 = pageAt
    BY <1>2
  <2>4. FetchedSoFar'
    BY <1>2, <1>3, <1>4, <1>5, <2>1, <2>2, <2>3 DEF FetchedSoFar, Fetched
  <2> QED BY <1>1, <2>1, <2>4, MoreKeeps
<1> QED BY <1>6, <1>7

\* An answer about the projects.
LEMMA ProjectsAnswerKeeps ==
  ASSUME DetailsIInv, NEW items \in Seq(Projecting!ProjectSet), InList(items) \subseteq InList(start.projects),
         NEW total, Adding!ProjectAnswer(items, total), NoMoreCalm, cut' = cut
  PROVE  DetailsIInv'
<1> DEFINE all == listed \o items
           done == items = << >> \/ Len(all) >= total
<1>1. /\ adding = "projects"
      /\ IF done THEN Adding!Names(all) ELSE Adding!More(all)
  BY DEF Adding!ProjectAnswer
<1>2. listed \in Seq(Projecting!ProjectSet) /\ InList(listed) \subseteq InList(start.projects)
  BY <1>1 DEF DetailsIInv, FetchedSoFar, Fetched
<1>3. all \in Seq(Projecting!ProjectSet) /\ InList(all) \subseteq InList(start.projects)
  BY <1>2, PageAdds
<1> HIDE DEF all, done
<1>4. CASE Adding!Names(all)
  BY <1>1, <1>3, <1>4, NamesKeep
<1>5. CASE Adding!More(all)
  <2>1. listed' = all /\ adding' = "projects" /\ start' = start
    BY <1>1, <1>5 DEF Adding!More, NoMoreCalm
  <2>2. FetchedSoFar'
    BY <1>3, <2>1 DEF FetchedSoFar, Fetched
  <2> QED BY <1>1, <1>5, <2>2, MoreKeeps
<1> QED BY <1>1, <1>4, <1>5

\* A page of a list of the gateway has what the list has.
LEMMA PageIsOf ==
  ASSUME NEW X, NEW q \in Seq(X), NEW n \in Nat \ {0}, NEW size \in Nat \ {0}
  PROVE  /\ PageOf(q, n, size) \in Seq(X) /\ InList(PageOf(q, n, size)) \subseteq InList(q)
         /\ Pages(q, size) \in Int
<1>1. \A i \in DOMAIN q : q[i] \in InList(q)
  BY DEF InList
<1>2. Len(q) \in Nat /\ DOMAIN q = 1..Len(q) /\ q = [i \in 1..Len(q) |-> q[i]]
  BY LenProperties
<1>3. q \in [1..Len(q) -> InList(q)]
  BY <1>1, <1>2
<1>4. q \in Seq(InList(q))
  BY <1>2, <1>3, SeqDef
<1>5. PageOf(q, n, size) \in Seq(X) /\ PageOf(q, n, size) \in Seq(InList(q))
  BY <1>4, PageTyped
<1>6. InList(PageOf(q, n, size)) \subseteq InList(q)
  <2> DEFINE p == PageOf(q, n, size)
  <2>1. p \in Seq(InList(q))
    BY <1>5
  <2> HIDE DEF p
  <2>2. \A i \in DOMAIN p : p[i] \in InList(q)
    BY <2>1, ElementOfSeq, LenProperties
  <2>3. InList(p) \subseteq InList(q)
    BY <2>2 DEF InList
  <2> QED BY <2>3 DEF p
<1>7. Pages(q, size) \in Int
  BY <1>2 DEF Pages
<1> QED BY <1>5, <1>6, <1>7

\* The answers of the gateway.
LEMMA AnswerKeeps ==
  ASSUME DetailsIInv, Adding!Answer
  PROVE  DetailsIInv'
<1>1. /\ lists' = lists /\ start' = start /\ disturbed' = disturbed /\ listChanges' = listChanges /\ cut' = cut
      /\ NoMoreCalm
  BY DEF Adding!Answer, NoMoreCalm
<1>2. /\ lists.enis \in Seq(Card) /\ lists.disks \in Seq(DiskRecord) /\ lists.projects \in Seq(Projecting!ProjectSet)
      /\ InList(lists.enis) \subseteq InList(start.enis) /\ InList(lists.disks) \subseteq InList(start.disks)
      /\ InList(lists.projects) \subseteq InList(start.projects)
      /\ ~disturbed => lists = start
  BY DEF DetailsIInv, ListsTyped, AllLists
<1>3. pageAt \in Nat \ {0} /\ PageSize \in Nat \ {0} /\ ListSize \in Nat \ {0}
  BY SizeFacts, ListAssumption DEF DetailsIInv, FetchTyped
<1>4. CASE Adding!EniAnswer(Adding!PageOf(lists.enis, pageAt, PageSize), Adding!Pages(lists.enis, PageSize))
  <2> DEFINE items == PageOf(lists.enis, pageAt, PageSize)
             total == Pages(lists.enis, PageSize)
  <2>1. Adding!EniAnswer(items, total)
    BY <1>4, AddingLists
  <2>2. items \in Seq(Card) /\ InList(items) \subseteq InList(start.enis) /\ total \in Int
    BY <1>2, <1>3, PageIsOf
  <2>3. ~disturbed' => items = PageOf(start.enis, pageAt, PageSize) /\ total = Pages(start.enis, PageSize)
    BY <1>1, <1>2
  <2> HIDE DEF items, total
  <2> QED BY <1>1, <2>1, <2>2, <2>3, EniAnswerKeeps
<1>5. CASE Adding!DiskAnswer(Adding!PageOf(lists.disks, pageAt, PageSize), Adding!Pages(lists.disks, PageSize))
  <2> DEFINE items == PageOf(lists.disks, pageAt, PageSize)
             total == Pages(lists.disks, PageSize)
  <2>1. Adding!DiskAnswer(items, total)
    BY <1>5, AddingLists
  <2>2. items \in Seq(DiskRecord) /\ InList(items) \subseteq InList(start.disks) /\ total \in Int
    BY <1>2, <1>3, PageIsOf
  <2>3. ~disturbed' => items = PageOf(start.disks, pageAt, PageSize) /\ total = Pages(start.disks, PageSize)
    BY <1>1, <1>2
  <2> HIDE DEF items, total
  <2> QED BY <1>1, <2>1, <2>2, <2>3, DisksAnswerKeeps
<1>6. CASE Adding!ProjectAnswer(Adding!PageOf(lists.projects, pageAt, ListSize), Len(lists.projects))
  <2> DEFINE items == PageOf(lists.projects, pageAt, ListSize)
  <2>1. Adding!ProjectAnswer(items, Len(lists.projects))
    BY <1>6, AddingLists
  <2>2. items \in Seq(Projecting!ProjectSet) /\ InList(items) \subseteq InList(start.projects)
    BY <1>2, <1>3, PageIsOf
  <2> HIDE DEF items
  <2> QED BY <1>1, <2>1, <2>2, ProjectsAnswerKeeps
<1> QED BY <1>4, <1>5, <1>6 DEF Adding!Answer

\* An error with status 200 is an answer of nothing.
LEMMA SoftErrorKeeps ==
  ASSUME DetailsIInv, Adding!SoftError
  PROVE  DetailsIInv'
<1>1. disturbed' = TRUE /\ cut' = cut /\ NoMoreCalm
  BY DEF Adding!SoftError, NoMoreCalm
<1> DEFINE none == << >>
<1>2. /\ none \in Seq(Card) /\ none \in Seq(DiskRecord) /\ none \in Seq(Projecting!ProjectSet)
      /\ InList(none) = {}
  BY EmptySeq DEF InList
<1>3. Adding!EniAnswer(none, 0) \/ Adding!DiskAnswer(none, 0) \/ Adding!ProjectAnswer(none, 0)
  BY DEF Adding!SoftError
<1> HIDE DEF none
<1>4. CASE Adding!EniAnswer(none, 0)
  BY <1>1, <1>2, <1>4, EniAnswerKeeps
<1>5. CASE Adding!DiskAnswer(none, 0)
  BY <1>1, <1>2, <1>5, DisksAnswerKeeps
<1>6. CASE Adding!ProjectAnswer(none, 0)
  BY <1>1, <1>2, <1>6, ProjectsAnswerKeeps
<1> QED BY <1>3, <1>4, <1>5, <1>6

\* A request fails: the cards break off, the disks end it, the names are left out.
LEMMA FailureKeeps ==
  ASSUME DetailsIInv, Adding!RequestFails
  PROVE  DetailsIInv'
<1>1. lists' = lists /\ start' = start /\ disturbed' = disturbed /\ listChanges' = listChanges /\ NoMoreCalm
  BY DEF Adding!RequestFails, NoMoreCalm
<1>2. CASE adding = "enis" /\ cut' = pageAt /\ Adding!Cards(listed)
  <2>1. /\ listed \in Seq(Card) /\ InList(listed) \subseteq InList(start.enis) /\ pageAt \in Nat \ {0}
        /\ ~disturbed => /\ (pageAt - 1) * PageSize <= Len(start.enis)
                         /\ listed = SubSeq(start.enis, 1, (pageAt - 1) * PageSize)
    BY <1>2 DEF DetailsIInv, FetchedSoFar, Fetched, FetchTyped
  <2> QED BY <1>1, <1>2, <2>1, CardsKeep
<1>3. CASE adding = "disks" /\ adding' = "failed" /\ UNCHANGED <<pageAt, listed, cut, mac, dataDisks, naming, named>>
  <2>1. ListsTyped'
    BY <1>1, ListsStay DEF DetailsIInv
  <2>2. FetchTyped' /\ FetchedSoFar'
    BY <1>1, <1>3 DEF DetailsIInv, FetchTyped, FetchedSoFar, Fetched
  <2>3. MacsAreOwn' /\ DisksAreOwn'
    BY <1>1, <1>3 DEF DetailsIInv, MacsAreOwn, DisksAreOwn
  <2>4. CardsSoFar'
    BY <1>1, <1>3 DEF DetailsIInv, CardsSoFar, Adding!CardsAreThere
  <2>5. DisksSoFar'
    BY <1>3 DEF DisksSoFar
  <2>6. NamesSoFar(naming)' /\ Adding!NamesArePreferred'
    BY <1>1, <1>3 DEF DetailsIInv, NamesSoFar, Adding!Given, Adding!NamesArePreferred
  <2> QED BY <2>1, <2>2, <2>3, <2>4, <2>5, <2>6 DEF DetailsIInv
<1>4. CASE adding = "projects" /\ cut' = cut /\ Adding!Names(<< >>)
  <2>1. << >> \in Seq(Projecting!ProjectSet) /\ InList(<< >>) = {}
    BY EmptySeq DEF InList
  <2> QED BY <1>1, <1>4, <2>1, NamesKeep
<1> QED BY <1>2, <1>3, <1>4 DEF Adding!RequestFails, Adding!CardsKept, Adding!added

\* An entry less.
LEMMA EntryGoes ==
  ASSUME NEW X, NEW q \in Seq(X), NEW n \in DOMAIN q
  PROVE  Adding!RemoveAt(q, n) \in Seq(X) /\ InList(Adding!RemoveAt(q, n)) \subseteq InList(q)
<1>1. Len(q) \in Nat /\ DOMAIN q = 1..Len(q) /\ q = [i \in 1..Len(q) |-> q[i]]
  BY LenProperties
<1>2. \A i \in 1..Len(q) : q[i] \in X /\ q[i] \in InList(q)
  BY <1>1, ElementOfSeq DEF InList
<1>3. ASSUME NEW Y, \A i \in 1..Len(q) : q[i] \in Y PROVE Adding!RemoveAt(q, n) \in Seq(Y)
  <2>1. q \in Seq(Y)
    BY <1>1, <1>3, SeqDef
  <2>2. SubSeq(q, 1, n - 1) \in Seq(Y) /\ SubSeq(q, n + 1, Len(q)) \in Seq(Y)
    BY <1>1, <1>3, <2>1, SubSeqProperties
  <2>3. SubSeq(q, 1, n - 1) \o SubSeq(q, n + 1, Len(q)) \in Seq(Y)
    BY <2>2, ConcatProperties
  <2> QED BY <2>3 DEF Adding!RemoveAt
<1> DEFINE r == Adding!RemoveAt(q, n)
<1>4. r \in Seq(X) /\ r \in Seq(InList(q))
  BY <1>2, <1>3
<1> HIDE DEF r
<1>5. \A i \in DOMAIN r : r[i] \in InList(q)
  BY <1>4, ElementOfSeq, LenProperties
<1>6. InList(r) \subseteq InList(q)
  BY <1>5 DEF InList
<1> QED BY <1>4, <1>6 DEF r

\* The gateway drops an entry.
LEMMA ListsChangeKeeps ==
  ASSUME DetailsIInv, Adding!Change
  PROVE  DetailsIInv'
<1>1. PICK k \in {"enis", "disks", "projects"} : \E n \in DOMAIN lists[k] :
        lists' = [lists EXCEPT ![k] = Adding!RemoveAt(@, n)]
  BY DEF Adding!Change
<1>2. PICK n \in DOMAIN lists[k] : lists' = [lists EXCEPT ![k] = Adding!RemoveAt(@, n)]
  BY <1>1
<1>3. /\ listChanges < MaxChanges /\ listChanges' = listChanges + 1 /\ disturbed' = TRUE
      /\ start' = start /\ adding' = adding /\ pageAt' = pageAt /\ listed' = listed /\ cut' = cut
      /\ mac' = mac /\ dataDisks' = dataDisks /\ naming' = naming /\ named' = named
  BY DEF Adding!Change, Adding!added
<1>4. /\ lists.enis \in Seq(Card) /\ lists.disks \in Seq(DiskRecord) /\ lists.projects \in Seq(Projecting!ProjectSet)
      /\ lists = [enis |-> lists.enis, disks |-> lists.disks, projects |-> lists.projects]
      /\ ListsTyped
  BY DEF DetailsIInv, ListsTyped, AllLists
<1> DEFINE r == Adding!RemoveAt(lists[k], n)
<1>5. InList(r) \subseteq InList(lists[k])
      /\ (k = "enis" => r \in Seq(Card)) /\ (k = "disks" => r \in Seq(DiskRecord))
      /\ (k = "projects" => r \in Seq(Projecting!ProjectSet))
  BY <1>4, EntryGoes
<1>6. /\ lists'[k] = r /\ \A j \in {"enis", "disks", "projects"} : j # k => lists'[j] = lists[j]
      /\ lists' = [enis |-> lists'.enis, disks |-> lists'.disks, projects |-> lists'.projects]
  BY <1>2, <1>4
<1> HIDE DEF r
<1>7. /\ lists'.enis \in Seq(Card) /\ lists'.disks \in Seq(DiskRecord) /\ lists'.projects \in Seq(Projecting!ProjectSet)
      /\ InList(lists'.enis) \subseteq InList(lists.enis) /\ InList(lists'.disks) \subseteq InList(lists.disks)
      /\ InList(lists'.projects) \subseteq InList(lists.projects)
  BY <1>4, <1>5, <1>6
<1>8. ListsTyped'
  <2>1. lists' \in AllLists
    BY <1>6, <1>7 DEF AllLists
  <2> QED BY <1>3, <1>4, <1>7, <2>1 DEF ListsTyped
<1>9. FetchTyped'
  <2>1. listChanges' \in 0..MaxChanges
    BY <1>3, CollectAssumption DEF DetailsIInv, FetchTyped
  <2> QED BY <1>3, <2>1 DEF DetailsIInv, FetchTyped
<1>10. FetchedSoFar'
  BY <1>3 DEF DetailsIInv, FetchedSoFar, Fetched
<1>11. MacsAreOwn' /\ DisksAreOwn'
  BY <1>3 DEF DetailsIInv, MacsAreOwn, DisksAreOwn
<1>12. CardsSoFar' /\ DisksSoFar'
  BY <1>3 DEF CardsSoFar, DisksSoFar
<1>13. NamesSoFar(naming)' /\ Adding!NamesArePreferred'
  BY <1>3 DEF DetailsIInv, NamesSoFar, Adding!Given, Adding!NamesArePreferred
<1> QED BY <1>8, <1>9, <1>10, <1>11, <1>12, <1>13 DEF DetailsIInv

\* Another stage works.
LEMMA DetailsStay ==
  ASSUME DetailsIInv, UNCHANGED detailVars
  PROVE  DetailsIInv'
<1>1. /\ lists' = lists /\ start' = start /\ disturbed' = disturbed /\ listChanges' = listChanges /\ adding' = adding
      /\ pageAt' = pageAt /\ listed' = listed /\ cut' = cut /\ mac' = mac /\ dataDisks' = dataDisks
      /\ naming' = naming /\ named' = named
  BY DEF detailVars
<1>2. ListsTyped' /\ FetchTyped' /\ FetchedSoFar'
  BY <1>1 DEF DetailsIInv, ListsTyped, FetchTyped, FetchedSoFar, Fetched
<1>3. MacsAreOwn' /\ DisksAreOwn'
  BY <1>1 DEF DetailsIInv, MacsAreOwn, DisksAreOwn
<1>4. CardsSoFar' /\ DisksSoFar'
  BY <1>1 DEF DetailsIInv, CardsSoFar, DisksSoFar, Adding!CardsAreThere, Adding!DisksAreThere
<1>5. NamesSoFar(naming)' /\ Adding!NamesArePreferred'
  BY <1>1 DEF DetailsIInv, NamesSoFar, Adding!Given, Adding!NamesArePreferred
<1> QED BY <1>2, <1>3, <1>4, <1>5 DEF DetailsIInv

\* The invariant holds after every step,
LEMMA DetailsStep ==
  ASSUME DetailsIInv, [Adding!Next]_detailVars
  PROVE  DetailsIInv'
BY AnswerKeeps, SoftErrorKeeps, FailureKeeps, ListsChangeKeeps, DetailsStay DEF Adding!Next, Adding!Completing

\* at the start,
LEMMA DetailsInit ==
  ASSUME Adding!Init
  PROVE  DetailsIInv
<1>1. PICK g \in Gateways : Adding!Begin(g)
  BY DEF Adding!Init
<1>2. /\ lists = g /\ start = g /\ disturbed = FALSE /\ listChanges = 0
      /\ adding = "enis" /\ pageAt = 1 /\ listed = << >> /\ cut = 0
      /\ mac = [s \in DOMAIN Found |-> << >>] /\ dataDisks = [s \in DOMAIN Found |-> << >>]
      /\ naming = ProjectNames /\ named = [s \in DOMAIN Found |-> Adding!NoName]
  BY <1>1 DEF Adding!Begin, Adding!Servers
<1>3. g \in AllLists /\ \A i, j \in DOMAIN g.disks : g.disks[i].disk = g.disks[j].disk => i = j
  BY DetailsAssumption DEF AllLists, Card, DiskRecord
<1>4. ListsTyped
  BY <1>2, <1>3 DEF ListsTyped
<1>5. FetchTyped
  BY <1>2, CollectAssumption DEF FetchTyped
<1>6. InList(<< >>) = {} /\ << >> \in Seq(Card)
  BY EmptySeq DEF InList
<1>7. FetchedSoFar
  <2>1. start.enis \in Seq(Card)
    BY <1>2, <1>3 DEF AllLists
  <2>2. (1 - 1) * PageSize = 0 /\ Len(start.enis) \in Nat
    BY <2>1, LenProperties, SizeFacts
  <2>3. << >> = SubSeq(start.enis, 1, 0)
    BY <2>1, <2>2, SubSeqEmpty
  <2> QED BY <1>2, <1>6, <2>2, <2>3 DEF FetchedSoFar, Fetched
<1>8. MacsAreOwn /\ DisksAreOwn
  BY <1>2, <1>6 DEF MacsAreOwn, DisksAreOwn
<1>9. CardsSoFar /\ DisksSoFar
  BY <1>2 DEF CardsSoFar, DisksSoFar
<1>10. NamesSoFar(naming) /\ Adding!NamesArePreferred
  BY <1>2 DEF NamesSoFar, Adding!NamesArePreferred
<1> QED BY <1>4, <1>5, <1>7, <1>8, <1>9, <1>10 DEF DetailsIInv

\* and the properties follow from it.
LEMMA DetailsPromises == DetailsIInv => Adding!DetailsInv
<1> SUFFICES ASSUME DetailsIInv PROVE Adding!DetailsInv
  OBVIOUS
<1>1. Adding!DetailsTypeOK
  BY DEF DetailsIInv, FetchTyped, Adding!DetailsTypeOK, Adding!Servers
<1>2. Adding!ShownIsOwn
  BY AddingLists DEF DetailsIInv, MacsAreOwn, DisksAreOwn, Adding!ShownIsOwn, Adding!Servers
<1>3. Adding!NothingIsMissing
  BY DEF DetailsIInv, CardsSoFar, DisksSoFar, Adding!NothingIsMissing, Adding!Servers
<1> QED BY <1>1, <1>2, <1>3 DEF DetailsIInv, Adding!DetailsInv

-----------------------------------------------------------------------------
(* The stages together.                                                       *)

\* The collection among the other stages is a collection: what they do does not
\* touch it, and where it is not the one at work it stands at its beginning.
THEOREM StagesKeepCollection == PreparationSpec => Spec
<1>1. PreparationInit => Init
  BY DEF PreparationInit, Init
<1>2. [Working \/ Surroundings]_preparationVars => [Next]_vars
  BY DEF Working, Surroundings, preparationVars, Next
<1> QED BY <1>1, <1>2, PTL DEF PreparationSpec, Spec

\* In every stage the invariant holds.
LEMMA CollectAlways == PreparationSpec => []CollectIInv
<1>1. Init => CollectIInv
  BY CollectInit
<1>2. CollectIInv /\ [Next]_vars => CollectIInv'
  BY CollectStep
<1> QED BY <1>1, <1>2, StagesKeepCollection, PTL DEF Spec

\* However many pages, workers and servers there are, and whatever comes and goes
\* meanwhile, nobody is asked who is not chosen and kept, and in calm everybody in
\* the result was asked exactly once (README.md:160).
THEOREM NobodyIsAskedInVain == PreparationSpec => []RequestsInv
<1>1. CollectIInv => RequestsInv
  BY CollectPromises
<1> QED BY <1>1, CollectAlways, PTL

\* A calm collection is the inventory, chosen and kept, in its order, and what it
\* reports as filtered is what is missing (main.go:265, main.go:413).
THEOREM CollectionIsComplete == PreparationSpec => []InventoryInv
<1>1. CollectIInv => InventoryInv
  BY CollectPromises
<1> QED BY <1>1, CollectAlways, PTL

\* What is accepted is executed as its fields are documented, whatever the texts in
\* it and however many steps it lists, except once for a step on the hosts and names
\* of services that cannot be asked for (config.go:198).
THEOREM AcceptedIsMeant == PreparationSpec => []ConfigurationInv
<1> DEFINE I == area = "configuration" => LoadedInv
<1>1. PreparationInit => I
  BY LoadedInit DEF PreparationInit
<1>2. I /\ [Working \/ Surroundings]_preparationVars => I'
  <2> SUFFICES ASSUME I, [Working \/ Surroundings]_preparationVars, area' = "configuration"
               PROVE  LoadedInv'
    OBVIOUS
  <2>1. area = "configuration" /\ [Loading!Next]_configVars
    BY DEF Working, Surroundings, preparationVars
  <2> QED BY <2>1, LoadedStep
<1>3. I => ConfigurationInv
  BY LoadedPromises DEF ConfigurationInv
<1> QED BY <1>1, <1>2, <1>3, PTL DEF PreparationSpec

\* However many names, projects and pages there are, and whatever comes and goes
\* meanwhile, a resolution that succeeds has a project of every name, none twice and
\* none that was not named; undisturbed, it asks about the ambiguous names and no
\* others, and the web mode takes what was preselected (project.go:12, web.go:153).
THEOREM NamesBecomeProjects == PreparationSpec => []ProjectsInv
<1> DEFINE I == area = "projects" => ResolutionIInv
<1>1. PreparationInit => I
  BY ResolutionInit DEF PreparationInit
<1>2. I /\ [Working \/ Surroundings]_preparationVars => I'
  <2> SUFFICES ASSUME I, [Working \/ Surroundings]_preparationVars, area' = "projects"
               PROVE  ResolutionIInv'
    OBVIOUS
  <2>1. area = "projects" /\ [Projecting!Next]_projectVars
    BY DEF Working, Surroundings, preparationVars, Projecting!Next
  <2> QED BY <2>1, ResolutionStep
<1>3. I => ProjectsInv
  BY ResolutionPromises DEF ProjectsInv
<1> QED BY <1>1, <1>2, <1>3, PTL DEF PreparationSpec

\* However wide a segment is and whatever the rules, a filter keeps the hosts its
\* lists mean, in their order, and counts the rest; and what a rule matches does not
\* depend on the kind it is written in (README.md:158).
THEOREM FilterKeepsWhatIsMeant == PreparationSpec => []FilterInv
<1> DEFINE I == area = "filter" => FilteredSoFar
<1>1. PreparationInit => I
  BY FilterStart DEF PreparationInit
<1>2. I /\ [Working \/ Surroundings]_preparationVars => I'
  <2> SUFFICES ASSUME I, [Working \/ Surroundings]_preparationVars, area' = "filter"
               PROVE  FilteredSoFar'
    OBVIOUS
  <2>1. area = "filter" /\ [Filtering!Next]_filterVars
    BY DEF Working, Surroundings, preparationVars
  <2> QED BY <2>1, FilterStep
<1>3. I => FilterInv
  BY FilterPromises DEF FilterInv
<1> QED BY <1>1, <1>2, <1>3, PTL DEF PreparationSpec

\* Whatever the lists of the gateway, the size of a page and the changes meanwhile, what
\* is added to a server is its own, all of it when the lists are fetched in calm, and
\* its project is shown by the name it was resolved by (main.go:309).
THEOREM DetailsAreOwn == PreparationSpec => []DetailsInv
<1> DEFINE I == area = "details" => DetailsIInv
<1>1. PreparationInit => I
  BY DetailsInit DEF PreparationInit
<1>2. I /\ [Working \/ Surroundings]_preparationVars => I'
  <2> SUFFICES ASSUME I, [Working \/ Surroundings]_preparationVars, area' = "details"
               PROVE  DetailsIInv'
    OBVIOUS
  <2>1. area = "details" /\ [Adding!Next]_detailVars
    BY DEF Working, Surroundings, preparationVars, Adding!Next
  <2> QED BY <2>1, DetailsStep
<1>3. I => DetailsInv
  BY DetailsPromises DEF DetailsInv
<1> QED BY <1>1, <1>2, <1>3, PTL DEF PreparationSpec
=============================================================================
