----------------------------- MODULE ListLemmas -----------------------------
(***************************************************************************)
(* What the list operations of the kernel's tables do to the elements of a *)
(* sequence, its length and its freedom from repetitions; and minima.      *)
(***************************************************************************)
EXTENDS Lists, Integers, SequenceTheorems, FiniteSetTheorems, WellFoundedInduction, TLAPS

(* A set of naturals that is not empty has a least element, and Min is it. *)
LEMMA LeastNatural ==
  ASSUME NEW T, T \subseteq Nat, T # {}
  PROVE  Min(T) \in T /\ \A y \in T : Min(T) <= y
<1>1. PICK x \in T : \A y \in T : ~(<<y, x>> \in OpToRel(<, Nat))
  BY NatLessThanWellFounded, WFMin
<1>2. OpToRel(<, Nat) = {ss \in Nat \X Nat : ss[1] < ss[2]}
  BY Zenon DEF OpToRel
<1>3. \A y \in T : x <= y
  <2> SUFFICES ASSUME NEW y \in T PROVE ~(y < x)
    OBVIOUS
  <2> QED
    BY <1>1, <1>2
<1> QED
  BY <1>3 DEF Min

(* Elements and repetitions in terms of positions.                         *)
LEMMA Elements ==
  ASSUME NEW S, NEW s \in Seq(S)
  PROVE  /\ Len(s) \in Nat
         /\ DOMAIN s = 1 .. Len(s)
         /\ \A i \in 1 .. Len(s) : s[i] \in S /\ s[i] \in Range(s)
         /\ \A y : y \in Range(s) <=> \E i \in 1 .. Len(s) : s[i] = y
         /\ IsInjective(s) <=> \A i, j \in 1 .. Len(s) : s[i] = s[j] => i = j
<1>1. Len(s) \in Nat /\ DOMAIN s = 1 .. Len(s) /\ \A i \in 1 .. Len(s) : s[i] \in S
  OBVIOUS
<1>2. \A y : y \in Range(s) <=> \E i \in 1 .. Len(s) : s[i] = y
  BY <1>1 DEF Range
<1>3. IsInjective(s) <=> \A i, j \in 1 .. Len(s) : s[i] = s[j] => i = j
  BY <1>1 DEF IsInjective
<1> QED
  BY <1>1, <1>2, <1>3

(* Appending a new element.                                                *)
LEMMA AppendNew ==
  ASSUME NEW S, NEW s \in Seq(S), NEW x \in S
  PROVE  /\ Append(s, x) \in Seq(S)
         /\ Len(Append(s, x)) = Len(s) + 1
         /\ Range(Append(s, x)) = Range(s) \cup {x}
         /\ IsInjective(s) /\ x \notin Range(s) => IsInjective(Append(s, x))
<1> DEFINE t == Append(s, x)
<1>1. /\ t \in Seq(S) /\ Len(t) = Len(s) + 1 /\ Len(s) \in Nat
      /\ t[Len(s) + 1] = x /\ \A i \in 1 .. Len(s) : t[i] = s[i]
  OBVIOUS
<1> HIDE DEF t
<1>2. Range(t) = Range(s) \cup {x}
  <2>1. ASSUME NEW y \in Range(t) PROVE y \in Range(s) \cup {x}
    <3>1. PICK i \in 1 .. Len(t) : t[i] = y
      BY <2>1, <1>1, Elements
    <3> QED
      BY <3>1, <1>1, Elements
  <2>2. ASSUME NEW y \in Range(s) PROVE y \in Range(t)
    <3>1. PICK i \in 1 .. Len(s) : s[i] = y
      BY <2>2, Elements
    <3>2. i \in 1 .. Len(t) /\ t[i] = y
      BY <3>1, <1>1
    <3> QED
      BY <3>2, <1>1, Elements
  <2>3. x \in Range(t)
    <3>1. Len(s) + 1 \in 1 .. Len(t)
      BY <1>1
    <3> QED
      BY <3>1, <1>1, Elements
  <2> QED
    BY <2>1, <2>2, <2>3
<1>3. ASSUME IsInjective(s), x \notin Range(s) PROVE IsInjective(t)
  BY <1>1, <1>3, Elements
<1> QED
  BY <1>1, <1>2, <1>3 DEF t

(* Pushing a new element at the front.                                     *)
LEMMA PushNew ==
  ASSUME NEW S, NEW s \in Seq(S), NEW x \in S
  PROVE  /\ <<x>> \o s \in Seq(S)
         /\ Range(<<x>> \o s) = Range(s) \cup {x}
         /\ IsInjective(s) /\ x \notin Range(s) => IsInjective(<<x>> \o s)
<1> DEFINE t == <<x>> \o s
<1>1. /\ t \in Seq(S) /\ Len(t) = Len(s) + 1 /\ Len(s) \in Nat
      /\ t[1] = x /\ \A i \in 1 .. Len(s) : t[i + 1] = s[i]
      /\ \A i \in 2 .. Len(t) : t[i] = s[i - 1] /\ i - 1 \in 1 .. Len(s)
  OBVIOUS
<1> HIDE DEF t
<1>2. Range(t) = Range(s) \cup {x}
  <2>1. ASSUME NEW y \in Range(t) PROVE y \in Range(s) \cup {x}
    <3>1. PICK i \in 1 .. Len(t) : t[i] = y
      BY <2>1, <1>1, Elements
    <3>2. CASE i = 1
      BY <3>1, <3>2, <1>1
    <3>3. CASE i # 1
      BY <3>1, <3>3, <1>1, Elements
    <3> QED
      BY <3>2, <3>3
  <2>2. ASSUME NEW y \in Range(s) \cup {x} PROVE y \in Range(t)
    <3>1. CASE y = x
      BY <3>1, <1>1, Elements
    <3>2. CASE y \in Range(s)
      <4>1. PICK i \in 1 .. Len(s) : s[i] = y
        BY <3>2, Elements
      <4>2. i + 1 \in 1 .. Len(t) /\ t[i + 1] = y
        BY <4>1, <1>1
      <4> QED
        BY <4>2, <1>1, Elements
    <3> QED
      BY <2>2, <3>1, <3>2
  <2> QED
    BY <2>1, <2>2
<1>3. ASSUME IsInjective(s), x \notin Range(s) PROVE IsInjective(t)
  <2> SUFFICES ASSUME NEW i \in 1 .. Len(t), NEW j \in 1 .. Len(t), t[i] = t[j]
               PROVE  i = j
    BY <1>1, Elements
  <2>1. \A k \in 2 .. Len(t) : t[k] # x
    BY <1>1, <1>3, Elements
  <2>2. CASE i = 1 \/ j = 1
    BY <2>1, <2>2, <1>1
  <2>3. CASE i # 1 /\ j # 1
    <3>1. s[i - 1] = s[j - 1] /\ i - 1 \in 1 .. Len(s) /\ j - 1 \in 1 .. Len(s)
      BY <1>1, <2>3
    <3>2. i - 1 = j - 1
      BY <3>1, <1>3, Elements
    <3> QED
      BY <3>2
  <2> QED
    BY <2>2, <2>3
<1> QED
  BY <1>1, <1>2, <1>3 DEF t

(* Dropping the first element.                                             *)
LEMMA TailOf ==
  ASSUME NEW S, NEW s \in Seq(S), s # <<>>
  PROVE  /\ Tail(s) \in Seq(S)
         /\ Len(Tail(s)) = Len(s) - 1
         /\ Head(s) \in Range(s)
         /\ Range(s) = Range(Tail(s)) \cup {Head(s)}
         /\ IsInjective(s) => IsInjective(Tail(s)) /\ Head(s) \notin Range(Tail(s))
<1> DEFINE t == Tail(s)
<1>1. Len(s) \in Nat \ {0} /\ Head(s) = s[1] /\ t \in Seq(S) /\ Len(t) = Len(s) - 1
  OBVIOUS
<1>2. \A i \in 1 .. Len(t) : t[i] = s[i + 1] /\ i + 1 \in 1 .. Len(s) /\ i + 1 # 1
  BY <1>1
<1> HIDE DEF t
<1>3. ASSUME NEW y \in Range(s) PROVE y \in Range(t) \cup {Head(s)}
  <2>1. PICK i \in 1 .. Len(s) : s[i] = y
    BY <1>3, Elements
  <2>2. CASE i = 1
    BY <2>1, <2>2, <1>1
  <2>3. CASE i # 1
    <3>1. i - 1 \in 1 .. Len(t) /\ t[i - 1] = y
      BY <2>1, <2>3, <1>1, <1>2
    <3> QED
      BY <3>1, <1>1, Elements
  <2> QED
    BY <2>2, <2>3
<1>4. ASSUME NEW y \in Range(t) PROVE y \in Range(s)
  BY <1>1, <1>2, <1>4, Elements
<1>5. Head(s) \in Range(s)
  BY <1>1, Elements
<1>6. ASSUME IsInjective(s) PROVE IsInjective(t) /\ Head(s) \notin Range(t)
  <2>1. ASSUME NEW i \in 1 .. Len(t), NEW j \in 1 .. Len(t), t[i] = t[j] PROVE i = j
    <3>1. i + 1 = j + 1
      BY <1>2, <1>6, <2>1, Elements
    <3> QED
      BY <3>1
  <2>2. \A i \in 1 .. Len(t) : t[i] # Head(s)
    <3> SUFFICES ASSUME NEW i \in 1 .. Len(t), t[i] = Head(s) PROVE FALSE
      OBVIOUS
    <3>1. s[i + 1] = s[1] /\ i + 1 \in 1 .. Len(s) /\ 1 \in 1 .. Len(s)
      BY <1>1, <1>2
    <3> QED
      BY <3>1, <1>2, <1>6, Elements
  <2>3. IsInjective(t)
    BY <2>1, <1>1, Elements
  <2>4. Head(s) \notin Range(t)
    BY <2>2, <1>1, Elements
  <2> QED
    BY <2>3, <2>4
<1> QED
  BY <1>1, <1>3, <1>4, <1>5, <1>6 DEF t

(* Dropping the last element.                                              *)
LEMMA FrontOf ==
  ASSUME NEW S, NEW s \in Seq(S), s # <<>>, IsInjective(s)
  PROVE  /\ Front(s) \in Seq(S)
         /\ Last(s) \in Range(s)
         /\ Range(Front(s)) = Range(s) \ {Last(s)}
         /\ IsInjective(Front(s))
         /\ Len(Front(s)) = Len(s) - 1
         /\ \A i \in 1 .. Len(s) - 1 : Front(s)[i] = s[i]
<1> DEFINE t == Front(s)
<1>0. Len(s) \in Nat /\ Len(s) >= 1
  OBVIOUS
<1>1. /\ t \in Seq(S) /\ Len(t) = Len(s) - 1
      /\ \A i \in 1 .. Len(s) - 1 : t[i] = s[i]
  <2>1. t = SubSeq(s, 1, Len(s) - 1)
    BY DEF Front
  <2>2. \A i \in 1 .. Len(s) - 1 : s[i] \in S
    BY <1>0
  <2> HIDE DEF t
  <2>3. /\ t \in Seq(S)
        /\ Len(t) = IF 1 <= Len(s) - 1 THEN Len(s) - 1 - 1 + 1 ELSE 0
        /\ \A i \in 1 .. Len(s) - 1 - 1 + 1 : t[i] = s[1 + i - 1]
    BY <2>1, <2>2, <1>0, SubSeqProperties
  <2>4. Len(t) = Len(s) - 1
    <3>1. \A n \in Nat : n >= 1 => (IF 1 <= n - 1 THEN n - 1 - 1 + 1 ELSE 0) = n - 1
      OBVIOUS
    <3> QED
      BY <3>1, <2>3, <1>0
  <2>5. ASSUME NEW i \in 1 .. Len(s) - 1 PROVE t[i] = s[i]
    <3>1. i \in 1 .. Len(s) - 1 - 1 + 1 /\ 1 + i - 1 = i
      BY <1>0
    <3>2. t[i] = s[1 + i - 1]
      BY <3>1, <2>3
    <3> QED
      BY <3>1, <3>2
  <2> QED
    BY <2>3, <2>4, <2>5
<1>2. Last(s) = s[Len(s)]
  BY DEF Last
<1> HIDE DEF t
<1>3. Last(s) \in Range(s)
  BY <1>0, <1>2, Elements
<1>4. ASSUME NEW y \in Range(s) \ {Last(s)} PROVE y \in Range(t)
  <2>1. PICK i \in 1 .. Len(s) : s[i] = y
    BY <1>4, Elements
  <2>2. i \in 1 .. Len(t)
    BY <2>1, <1>0, <1>1, <1>2, <1>4
  <2> QED
    BY <2>1, <2>2, <1>1, Elements
<1>5. ASSUME NEW y \in Range(t) PROVE y \in Range(s) \ {Last(s)}
  <2>1. PICK i \in 1 .. Len(t) : t[i] = y
    BY <1>5, <1>1, Elements
  <2>2. s[i] = y /\ i \in 1 .. Len(s) /\ i # Len(s)
    BY <2>1, <1>0, <1>1
  <2> QED
    BY <2>2, <1>0, <1>2, Elements
<1>6. IsInjective(t)
  BY <1>0, <1>1, Elements
<1> QED
  BY <1>1, <1>3, <1>4, <1>5, <1>6 DEF t

(* Reversing.                                                              *)
LEMMA ReverseOf ==
  ASSUME NEW S, NEW s \in Seq(S), IsInjective(s)
  PROVE  /\ Reverse(s) \in Seq(S)
         /\ Range(Reverse(s)) = Range(s)
         /\ IsInjective(Reverse(s))
<1> DEFINE t == Reverse(s)
           at(i) == (Len(s) - i) + 1
<1>1. Len(s) \in Nat /\ \A i \in 1 .. Len(s) : at(i) \in 1 .. Len(s) /\ at(at(i)) = i
  OBVIOUS
<1>2. t = [i \in 1 .. Len(s) |-> s[at(i)]]
  BY DEF Reverse
<1>3. /\ t \in Seq(S) /\ Len(t) = Len(s)
      /\ \A i \in 1 .. Len(s) : t[i] = s[at(i)]
  <2>1. t \in [1 .. Len(s) -> S]
    BY <1>1, <1>2, Elements
  <2> QED
    BY <2>1, <1>1, <1>2
<1> HIDE DEF t, at
<1>4. ASSUME NEW y \in Range(s) PROVE y \in Range(t)
  <2>1. PICK i \in 1 .. Len(s) : s[i] = y
    BY <1>4, Elements
  <2>2. at(i) \in 1 .. Len(t) /\ t[at(i)] = y
    BY <2>1, <1>1, <1>3
  <2> QED
    BY <2>2, <1>3, Elements
<1>5. ASSUME NEW y \in Range(t) PROVE y \in Range(s)
  <2>1. PICK i \in 1 .. Len(t) : t[i] = y
    BY <1>3, <1>5, Elements
  <2>2. at(i) \in 1 .. Len(s) /\ s[at(i)] = y
    BY <2>1, <1>1, <1>3
  <2> QED
    BY <2>2, Elements
<1>6. ASSUME NEW i \in 1 .. Len(s), NEW j \in 1 .. Len(s), t[i] = t[j] PROVE i = j
  <2>1. at(i) \in 1 .. Len(s) /\ at(j) \in 1 .. Len(s) /\ s[at(i)] = s[at(j)]
    BY <1>1, <1>3, <1>6
  <2>2. at(i) = at(j)
    BY <2>1, Elements
  <2> QED
    BY <2>2, <1>1
<1>7. IsInjective(t)
  BY <1>3, <1>6, Elements
<1> QED
  BY <1>3, <1>4, <1>5, <1>7 DEF t

(* Erasing the element at position k.                                      *)
LEMMA WithoutAt ==
  ASSUME NEW S, NEW s \in Seq(S), IsInjective(s), NEW k \in 1 .. Len(s)
  PROVE  LET t == Without(s, s[k]) IN
         /\ t \in Seq(S) /\ Len(t) = Len(s) - 1
         /\ \A i \in 1 .. Len(t) :
              t[i] = (IF i < k THEN s[i] ELSE s[i + 1]) /\ i \in 1 .. Len(s) /\ i + 1 \in 1 .. Len(s)
<1> DEFINE t == Without(s, s[k])
           a == SubSeq(s, 1, k - 1)
           b == SubSeq(s, k + 1, Len(s))
<1>1. Len(s) \in Nat
  OBVIOUS
<1>2. t = a \o b
  <2>1. s[k] \in Range(s) /\ (CHOOSE i \in DOMAIN s : s[i] = s[k]) = k
    BY Elements DEF IsInjective
  <2> QED
    BY <2>1 DEF Without, RemoveAt
<1>3. a \in Seq(S) /\ Len(a) = k - 1 /\ \A i \in 1 .. k - 1 : a[i] = s[i]
  <2>1. 1 \in 1 .. Len(s) + 1 /\ k - 1 \in 0 .. Len(s)
    BY <1>1
  <2> QED
    BY <2>1, <1>1, SubSeqProperties
<1>4. b \in Seq(S) /\ Len(b) = Len(s) - k /\ \A i \in 1 .. Len(s) - k : b[i] = s[k + i]
  <2>1. k + 1 \in 1 .. Len(s) + 1 /\ Len(s) \in k .. Len(s)
    BY <1>1
  <2> QED
    BY <2>1, <1>1, SubSeqProperties
<1> HIDE DEF t, a, b
<1>5. /\ t \in Seq(S) /\ Len(t) = Len(a) + Len(b)
      /\ \A i \in 1 .. Len(a) + Len(b) : t[i] = IF i <= Len(a) THEN a[i] ELSE b[i - Len(a)]
  BY <1>2, <1>3, <1>4, ConcatProperties
<1>6. Len(t) = Len(s) - 1
  BY <1>1, <1>3, <1>4, <1>5
<1>7. ASSUME NEW i \in 1 .. Len(t), i < k PROVE t[i] = s[i]
  <2>1. i \in 1 .. k - 1 /\ i <= Len(a) /\ t[i] = a[i]
    BY <1>1, <1>3, <1>4, <1>5, <1>7
  <2> QED
    BY <2>1, <1>3
<1>8. ASSUME NEW i \in 1 .. Len(t), ~(i < k) PROVE t[i] = s[i + 1]
  <2>1. i - (k - 1) \in 1 .. Len(s) - k /\ t[i] = b[i - (k - 1)] /\ k + (i - (k - 1)) = i + 1
    BY <1>1, <1>3, <1>4, <1>5, <1>6, <1>8
  <2> QED
    BY <2>1, <1>4
<1> QED
  BY <1>1, <1>5, <1>6, <1>7, <1>8 DEF t

(* Erasing one element.                                                    *)
LEMMA WithoutOf ==
  ASSUME NEW S, NEW s \in Seq(S), NEW x, IsInjective(s)
  PROVE  /\ Without(s, x) \in Seq(S)
         /\ Range(Without(s, x)) = Range(s) \ {x}
         /\ IsInjective(Without(s, x))
         /\ Len(Without(s, x)) = IF x \in Range(s) THEN Len(s) - 1 ELSE Len(s)
<1>1. CASE x \notin Range(s)
  BY <1>1 DEF Without
<1>2. CASE x \in Range(s)
  <2> DEFINE t == Without(s, x)
  <2>1. PICK k \in 1 .. Len(s) : s[k] = x
    BY <1>2, Elements
  <2>2. Len(s) \in Nat
    OBVIOUS
  <2>3. /\ t \in Seq(S) /\ Len(t) = Len(s) - 1
        /\ \A i \in 1 .. Len(t) :
             t[i] = (IF i < k THEN s[i] ELSE s[i + 1]) /\ i \in 1 .. Len(s) /\ i + 1 \in 1 .. Len(s)
    BY <2>1, WithoutAt
  <2> HIDE DEF t
  <2>4. IsInjective(t)
    <3> SUFFICES ASSUME NEW i \in 1 .. Len(t), NEW j \in 1 .. Len(t), t[i] = t[j]
                 PROVE  i = j
      BY <2>3, Elements
    <3> DEFINE from(n) == IF n < k THEN n ELSE n + 1
    <3>1. s[from(i)] = s[from(j)] /\ from(i) \in 1 .. Len(s) /\ from(j) \in 1 .. Len(s)
      BY <2>1, <2>3
    <3>2. from(i) = from(j)
      BY <3>1, Elements
    <3> QED
      BY <3>2, <2>1
  <2>5. ASSUME NEW y \in Range(t) PROVE y \in Range(s) \ {x}
    <3>1. PICK i \in 1 .. Len(t) : t[i] = y
      BY <2>5, <2>3, Elements
    <3>2. PICK j \in 1 .. Len(s) : s[j] = y /\ j # k
      <4>1. CASE i < k
        <5>1. i \in 1 .. Len(s) /\ s[i] = y /\ i # k
          BY <4>1, <3>1, <2>1, <2>3
        <5> QED
          BY <5>1
      <4>2. CASE ~(i < k)
        <5>1. i + 1 \in 1 .. Len(s) /\ s[i + 1] = y /\ i + 1 # k
          BY <4>2, <3>1, <2>1, <2>3
        <5> QED
          BY <5>1
      <4> QED
        BY <4>1, <4>2
    <3> QED
      BY <3>2, <2>1, Elements
  <2>6. ASSUME NEW y \in Range(s) \ {x} PROVE y \in Range(t)
    <3>1. PICK j \in 1 .. Len(s) : s[j] = y
      BY <2>6, Elements
    <3>2. j # k
      BY <3>1, <2>1, <2>6
    <3>3. CASE j < k
      <4>1. j \in 1 .. Len(t) /\ t[j] = y
        BY <3>1, <3>3, <2>1, <2>3
      <4> QED
        BY <4>1, <2>3, Elements
    <3>4. CASE j > k
      <4>1. j - 1 \in 1 .. Len(t) /\ t[j - 1] = y
        BY <3>1, <3>4, <2>1, <2>3
      <4> QED
        BY <4>1, <2>3, Elements
    <3> QED
      BY <3>2, <3>3, <3>4, <2>1
  <2> QED
    BY <1>2, <2>3, <2>4, <2>5, <2>6 DEF t
<1> QED
  BY <1>1, <1>2

-----------------------------------------------------------------------------
(* Reversed lists.                                                         *)

LEMMA ReverseAt ==
  ASSUME NEW S, NEW s \in Seq(S)
  PROVE  /\ Reverse(s) \in Seq(S) /\ Len(Reverse(s)) = Len(s)
         /\ \A i \in 1 .. Len(s) : Reverse(s)[i] = s[(Len(s) - i) + 1]
                                   /\ (Len(s) - i) + 1 \in 1 .. Len(s)
<1>1. Len(s) \in Nat /\ \A i \in 1 .. Len(s) : (Len(s) - i) + 1 \in 1 .. Len(s)
  OBVIOUS
<1>2. Reverse(s) = [i \in 1 .. Len(s) |-> s[(Len(s) - i) + 1]]
  BY DEF Reverse
<1>3. Reverse(s) \in [1 .. Len(s) -> S]
  BY <1>1, <1>2, Elements
<1> QED
  BY <1>1, <1>2, <1>3

(* The last of a list is the first of its reverse.                         *)
LEMMA ReverseAppend ==
  ASSUME NEW S, NEW s \in Seq(S), NEW x \in S
  PROVE  Reverse(Append(s, x)) = <<x>> \o Reverse(s)
<1> DEFINE a == Append(s, x)
           r == Reverse(s)
           n == Len(s)
<1>1. n \in Nat /\ a \in Seq(S) /\ Len(a) = n + 1 /\ a[n + 1] = x /\ \A i \in 1 .. n : a[i] = s[i]
  OBVIOUS
<1>2. r \in Seq(S) /\ Len(r) = n /\ \A i \in 1 .. n : r[i] = s[(n - i) + 1]
  BY ReverseAt
<1> HIDE DEF a, r, n
<1>3. /\ <<x>> \o r \in Seq(S) /\ Len(<<x>> \o r) = n + 1 /\ (<<x>> \o r)[1] = x
      /\ \A i \in 2 .. n + 1 : (<<x>> \o r)[i] = r[i - 1]
  BY <1>1, <1>2
<1>4. /\ Reverse(a) \in Seq(S) /\ Len(Reverse(a)) = n + 1
      /\ \A i \in 1 .. n + 1 : Reverse(a)[i] = a[(n + 1 - i) + 1]
  BY <1>1, ReverseAt
<1>5. ASSUME NEW i \in 1 .. n + 1 PROVE Reverse(a)[i] = (<<x>> \o r)[i]
  <2>1. CASE i = 1
    <3>1. (n + 1 - 1) + 1 = n + 1 /\ 1 \in 1 .. n + 1
      BY <1>1
    <3>2. Reverse(a)[1] = x
      BY <3>1, <1>1, <1>4
    <3> QED
      BY <2>1, <3>2, <1>3
  <2>2. CASE i # 1
    <3>1. /\ i \in 2 .. n + 1 /\ i - 1 \in 1 .. n
          /\ (n + 1 - i) + 1 \in 1 .. n /\ (n - (i - 1)) + 1 = (n + 1 - i) + 1
      BY <2>2, <1>1
    <3>2. (<<x>> \o r)[i] = r[i - 1] /\ r[i - 1] = s[(n - (i - 1)) + 1]
      BY <3>1, <1>2, <1>3
    <3>3. Reverse(a)[i] = a[(n + 1 - i) + 1] /\ a[(n + 1 - i) + 1] = s[(n + 1 - i) + 1]
      BY <3>1, <1>1, <1>4
    <3> QED
      BY <3>1, <3>2, <3>3
  <2> QED
    BY <2>1, <2>2
<1>6. Reverse(a) = <<x>> \o r
  BY <1>3, <1>4, <1>5, SeqEqual
<1> QED
  BY <1>6 DEF a, r

(* Reversing and erasing commute.                                          *)
LEMMA ReverseWithout ==
  ASSUME NEW S, NEW s \in Seq(S), IsInjective(s), NEW x
  PROVE  Reverse(Without(s, x)) = Without(Reverse(s), x)
<1> DEFINE r == Reverse(s)
           n == Len(s)
<1>1. n \in Nat /\ r \in Seq(S) /\ Len(r) = n /\ IsInjective(r) /\ Range(r) = Range(s)
  BY ReverseAt, ReverseOf
<1>2. \A i \in 1 .. n : r[i] = s[(n - i) + 1]
  BY ReverseAt
<1> HIDE DEF r, n
<1>3. CASE x \notin Range(s)
  BY <1>1, <1>3 DEF Without, r
<1>4. CASE x \in Range(s)
  <2>1. PICK k \in 1 .. n : s[k] = x
    BY <1>4, Elements DEF n
  <2> DEFINE l == (n - k) + 1
             w == Without(s, x)
             v == Without(r, x)
  <2>2. l \in 1 .. n /\ r[l] = x /\ n - l + 1 = k
    BY <1>1, <1>2, <2>1
  <2>3. /\ w \in Seq(S) /\ Len(w) = n - 1
        /\ \A i \in 1 .. n - 1 : w[i] = IF i < k THEN s[i] ELSE s[i + 1]
    BY <2>1, WithoutAt DEF n
  <2>4. /\ v \in Seq(S) /\ Len(v) = n - 1
        /\ \A i \in 1 .. n - 1 : v[i] = IF i < l THEN r[i] ELSE r[i + 1]
    BY <2>2, <1>1, WithoutAt
  <2> HIDE DEF w, v
  <2>5. /\ Reverse(w) \in Seq(S) /\ Len(Reverse(w)) = n - 1
        /\ \A i \in 1 .. n - 1 : Reverse(w)[i] = w[(n - 1 - i) + 1]
    BY <2>3, ReverseAt
  <2>6. ASSUME NEW i \in 1 .. n - 1 PROVE Reverse(w)[i] = v[i]
    <3> DEFINE j == (n - 1 - i) + 1
    <3>1. j \in 1 .. n - 1 /\ i \in 1 .. n /\ i + 1 \in 1 .. n
      BY <1>1
    <3>2. CASE i < l
      <4>1. ~(j < k) /\ j + 1 = (n - i) + 1
        BY <3>2, <1>1, <2>1
      <4> QED
        BY <3>1, <3>2, <4>1, <1>2, <2>3, <2>4, <2>5
    <3>3. CASE ~(i < l)
      <4>1. j < k /\ j = (n - (i + 1)) + 1
        BY <3>3, <1>1, <2>1
      <4> QED
        BY <3>1, <3>3, <4>1, <1>2, <2>3, <2>4, <2>5
    <3> QED
      BY <3>2, <3>3
  <2>7. Reverse(w) = v
    BY <1>1, <2>4, <2>5, <2>6, SeqEqual
  <2> QED
    BY <2>7 DEF w, v, r
<1> QED
  BY <1>3, <1>4 DEF r

(* The front of a list is the list without its last.                       *)
LEMMA FrontWithout ==
  ASSUME NEW S, NEW s \in Seq(S), s # <<>>, IsInjective(s)
  PROVE  Front(s) = Without(s, Last(s))
<1> DEFINE w == Without(s, Last(s))
           n == Len(s)
<1>1. n \in Nat /\ n \in 1 .. n /\ Last(s) = s[n]
  BY DEF Last
<1>2. /\ w \in Seq(S) /\ Len(w) = n - 1
      /\ \A i \in 1 .. n - 1 : w[i] = s[i]
  <2>1. \A i \in 1 .. n - 1 : i < n
    BY <1>1
  <2> QED
    BY <2>1, <1>1, WithoutAt
<1>3. Front(s) \in Seq(S) /\ Len(Front(s)) = n - 1 /\ \A i \in 1 .. n - 1 : Front(s)[i] = s[i]
  BY FrontOf
<1> HIDE DEF w
<1>4. Front(s) = w
  BY <1>1, <1>2, <1>3, SeqEqual
<1> QED
  BY <1>4 DEF w

(* A list without repetitions is as long as it has elements.               *)
LEMMA DistinctLength ==
  ASSUME NEW S, NEW s \in Seq(S), IsInjective(s)
  PROVE  IsFiniteSet(Range(s)) /\ Cardinality(Range(s)) = Len(s)
<1> DEFINE n == Len(s)
<1>1. n \in Nat /\ s \in [1 .. n -> Range(s)]
  BY Elements
<1>2. s \in Bijection(1 .. n, Range(s))
  BY <1>1, Elements DEF Bijection, Injection, Surjection
<1>3. ExistsBijection(1 .. n, Range(s))
  BY <1>2 DEF ExistsBijection
<1>4. IsFiniteSet(1 .. n) /\ Cardinality(1 .. n) = n
  BY <1>1, FS_Interval
<1> QED
  BY <1>3, <1>4, FS_Bijection
=============================================================================
