------------------------------ MODULE DataLemmas ------------------------------
(***************************************************************************)
(* Facts about numbers, finite sets and sequences that the proofs need:    *)
(* minima and maxima, remainders, what inserting into a vector and erasing *)
(* from it does to its elements, enumerations of finite sets and sums over *)
(* them.                                                                   *)
(***************************************************************************)
EXTENDS Integers, SequencesExt, FiniteSetsExt, SequenceTheorems, FiniteSetTheorems,
        NaturalsInduction, WellFoundedInduction, TLAPS

Less == {ss \in Nat \X Nat : ss[1] < ss[2]}

LEMMA LessWellFounded == IsWellFoundedOn(Less, Nat)
<1>1. IsWellFoundedOn(OpToRel(<, Nat), Nat)
  BY NatLessThanWellFounded
<1> QED BY <1>1 DEF OpToRel, Less

(* Induction over numbers, without a predicate as a parameter: of those    *)
(* that violate a property, if any, one is the first.                      *)
LEMMA MinExists ==
  ASSUME NEW T \in SUBSET Nat, T # {}
  PROVE  \E x \in T : \A y \in T : x <= y
<1>1. PICK x \in T : \A y \in T : ~(<<y, x>> \in Less)
  BY LessWellFounded, WFMin
<1>2. \A y \in T : ~(y < x)
  <2> TAKE y \in T
  <2>1. <<y, x>> \in Nat \X Nat /\ <<y, x>>[1] = y /\ <<y, x>>[2] = x
    OBVIOUS
  <2> QED BY <1>1, <2>1 DEF Less
<1> QED BY <1>2

LEMMA MinProperties ==
  ASSUME NEW T \in SUBSET Nat, T # {}
  PROVE  Min(T) \in T /\ \A y \in T : Min(T) <= y
  BY MinExists DEF Min

LEMMA MaxProperties ==
  ASSUME NEW n \in Nat, NEW T \in SUBSET (1..n), T # {}
  PROVE  Max(T) \in T /\ \A y \in T : y <= Max(T)
<1> DEFINE U == {i \in Nat : n - i \in T}
<1>1. U # {}
  <2>1. PICK x \in T : TRUE
    OBVIOUS
  <2>2. n - x \in Nat /\ n - (n - x) = x
    OBVIOUS
  <2> QED BY <2>2
<1>2. PICK u \in U : \A v \in U : u <= v
  BY <1>1, MinExists
<1>3. \A y \in T : y <= n - u
  <2> TAKE y \in T
  <2>1. n - y \in Nat /\ n - (n - y) = y
    OBVIOUS
  <2>2. n - y \in U
    BY <2>1
  <2>3. u <= n - y
    BY <1>2, <2>2
  <2> QED BY <2>3
<1>4. \E m \in T : \A y \in T : m >= y
  BY <1>3
<1> QED BY <1>4 DEF Max

(* Positions in a sequence whose head is removed. *)
LEMMA ShiftPositions ==
  ASSUME NEW n \in Nat, NEW T \in SUBSET (1 .. n + 1)
  PROVE  LET U == {j \in 1..n : j + 1 \in T}
         IN  /\ IsFiniteSet(T) /\ Cardinality(T) \in Nat /\ Cardinality(U) \in Nat
             /\ Cardinality(U) = IF 1 \in T THEN Cardinality(T) - 1 ELSE Cardinality(T)
<1> DEFINE U == {j \in 1..n : j + 1 \in T}
           V == T \ {1}
           f == [j \in U |-> j + 1]
<1>1. IsFiniteSet(T) /\ IsFiniteSet(U) /\ Cardinality(T) \in Nat /\ Cardinality(U) \in Nat
  <2>1. IsFiniteSet(1 .. n + 1) /\ IsFiniteSet(1..n)
    BY FS_Interval
  <2>2. U \subseteq 1..n
    OBVIOUS
  <2> HIDE DEF U
  <2> QED BY <2>1, <2>2, FS_Subset, FS_CardinalityType
<1>2. f \in [U -> V]
  OBVIOUS
<1>3. \A a, b \in U : f[a] = f[b] => a = b
  OBVIOUS
<1>4. \A y \in V : \E x \in U : f[x] = y
  <2> TAKE y \in V
  <2>1. y - 1 \in 1..n /\ (y - 1) + 1 = y
    OBVIOUS
  <2> QED BY <2>1
<1> HIDE DEF f, U, V
<1>5. Cardinality(V) = Cardinality(U)
  <2>1. f \in Bijection(U, V)
    <3>1. f \in Surjection(U, V)
      BY <1>2, <1>4 DEF Surjection
    <3>2. f \in Injection(U, V)
      <4>1. DOMAIN f = U
        BY <1>2
      <4> QED BY <1>2, <1>3, <4>1 DEF Injection, IsInjective
    <3> QED BY <3>1, <3>2 DEF Bijection
  <2>2. ExistsBijection(U, V)
    BY <2>1 DEF ExistsBijection
  <2> QED BY <1>1, <2>2, FS_Bijection
<1>6. Cardinality(V) = IF 1 \in T THEN Cardinality(T) - 1 ELSE Cardinality(T)
  BY <1>1, FS_RemoveElement DEF V
<1> QED BY <1>1, <1>5, <1>6 DEF U

(* Inserting into a sequence: where the elements of the result come from.  *)
LEMMA InsertAtProperties ==
  ASSUME NEW s \in Seq(Nat), NEW e \in Nat, NEW p \in 1..Len(s) + 1
  PROVE  /\ InsertAt(s, p, e) \in Seq(Nat)
         /\ Len(InsertAt(s, p, e)) = Len(s) + 1
         /\ \A j \in 1..Len(s) + 1 :
              InsertAt(s, p, e)[j] = IF j < p THEN s[j]
                                     ELSE IF j = p THEN e ELSE s[j - 1]
<1>1. \A i \in 1..Len(s) : s[i] \in Nat
  BY LenProperties
<1>2. /\ SubSeq(s, 1, p - 1) \in Seq(Nat)
      /\ Len(SubSeq(s, 1, p - 1)) = p - 1
      /\ \A i \in 1..p - 1 : SubSeq(s, 1, p - 1)[i] = s[i]
  BY <1>1, SubSeqProperties
<1>3. /\ SubSeq(s, p, Len(s)) \in Seq(Nat)
      /\ Len(SubSeq(s, p, Len(s))) = Len(s) - p + 1
      /\ \A i \in 1..Len(s) - p + 1 : SubSeq(s, p, Len(s))[i] = s[p + i - 1]
  BY <1>1, SubSeqProperties
<1>4. <<e>> \in Seq(Nat) /\ Len(<<e>>) = 1 /\ <<e>>[1] = e
  OBVIOUS
<1> DEFINE front == SubSeq(s, 1, p - 1) \o <<e>>
<1>5. /\ front \in Seq(Nat)
      /\ Len(front) = p
      /\ \A i \in 1..p : front[i] = IF i < p THEN s[i] ELSE e
  BY <1>2, <1>4, ConcatProperties
<1> HIDE DEF front
<1> DEFINE tail == SubSeq(s, p, Len(s))
<1>6. /\ front \o tail \in Seq(Nat)
      /\ Len(front \o tail) = Len(s) + 1
      /\ \A j \in 1..Len(s) + 1 :
           (front \o tail)[j] = IF j <= p THEN front[j] ELSE tail[j - p]
  <2> HIDE DEF tail
  <2>1. tail \in Seq(Nat) /\ Len(tail) = Len(s) - p + 1
    BY <1>3 DEF tail
  <2>2. /\ front \o tail \in Seq(Nat)
        /\ Len(front \o tail) = Len(front) + Len(tail)
        /\ \A j \in 1..Len(front) + Len(tail) :
             (front \o tail)[j] = IF j <= Len(front) THEN front[j]
                                  ELSE tail[j - Len(front)]
    BY <1>5, <2>1, ConcatProperties, Zenon
  <2>3. Len(front) = p /\ Len(front) + Len(tail) = Len(s) + 1
    BY <1>5, <2>1
  <2> QED BY ONLY <2>2, <2>3
<1>7. \A j \in p + 1..Len(s) + 1 : tail[j - p] = s[j - 1]
  BY <1>3
<1>8. InsertAt(s, p, e) = front \o tail
  BY DEF InsertAt, front
<1> QED BY <1>5, <1>6, <1>7, <1>8

(* Removing from a sequence: where the elements of the result come from.   *)
LEMMA RemoveAtProperties ==
  ASSUME NEW S, NEW s \in Seq(S), NEW p \in 1..Len(s)
  PROVE  /\ RemoveAt(s, p) \in Seq(S)
         /\ Len(RemoveAt(s, p)) = Len(s) - 1
         /\ \A j \in 1..Len(s) - 1 :
              RemoveAt(s, p)[j] = IF j < p THEN s[j] ELSE s[j + 1]
<1>1. \A i \in 1..Len(s) : s[i] \in S
  BY LenProperties
<1> DEFINE front == SubSeq(s, 1, p - 1)
           tail == SubSeq(s, p + 1, Len(s))
<1>2. /\ front \in Seq(S) /\ Len(front) = p - 1
      /\ \A i \in 1..p - 1 : front[i] = s[i]
  BY <1>1, SubSeqProperties
<1>3. /\ tail \in Seq(S) /\ Len(tail) = Len(s) - p
      /\ \A i \in 1..Len(s) - p : tail[i] = s[p + i]
  BY <1>1, SubSeqProperties
<1> HIDE DEF front, tail
<1>4. Len(front) = p - 1 /\ Len(front) + Len(tail) = Len(s) - 1
  BY <1>2, <1>3
<1>5. /\ front \o tail \in Seq(S)
      /\ Len(front \o tail) = Len(front) + Len(tail)
      /\ \A j \in 1..Len(front) + Len(tail) :
           (front \o tail)[j] = IF j <= Len(front) THEN front[j]
                                ELSE tail[j - Len(front)]
  BY <1>2, <1>3, ConcatProperties, Zenon
<1>6. RemoveAt(s, p) = front \o tail
  BY DEF RemoveAt, front, tail
<1>7. \A j \in p..Len(s) - 1 : tail[j - (p - 1)] = s[j + 1]
  <2> TAKE j \in p..Len(s) - 1
  <2>1. j - (p - 1) \in 1..Len(s) - p /\ p + (j - (p - 1)) = j + 1
    OBVIOUS
  <2> QED BY <1>3, <2>1
<1>8. \A j \in 1..p - 1 : front[j] = s[j]
  BY <1>2
<1> QED BY <1>4, <1>5, <1>6, <1>7, <1>8

(* Any order of a finite set lists each of its elements once. *)
LEMMA SetToSeqsProperties ==
  ASSUME NEW S, IsFiniteSet(S), NEW s \in SetToSeqs(S)
  PROVE  /\ s \in Seq(S) /\ Len(s) \in Nat
         /\ \A i, j \in 1..Len(s) : s[i] = s[j] => i = j
         /\ \A x \in S : \E i \in 1..Len(s) : s[i] = x
<1> DEFINE n == Cardinality(S)
<1>1. n \in Nat
  BY FS_CardinalityType
<1>2. /\ IsFiniteSet(1..n) /\ Cardinality(1..n) = n
  BY <1>1, FS_Interval
<1>3. s \in [1..n -> S] /\ \A i, j \in 1..n : i # j => s[i] # s[j]
  BY DEF SetToSeqs
<1>4. s \in Seq(S) /\ Len(s) = n
  BY <1>1, <1>3
<1>5. s \in Injection(1..n, S)
  BY <1>3 DEF Injection, IsInjective
<1>6. s \in Surjection(1..n, S)
  BY <1>2, <1>5, FS_Injection
<1> QED BY <1>1, <1>3, <1>4, <1>6 DEF Surjection
------------------------------------------------------------------------------
(* A vector that lists things, each once. *)
Lists(s, x) == \E i \in 1..Len(s) : s[i] = x
NoRepeats(s) == \A i, j \in 1..Len(s) : s[i] = s[j] => i = j

LEMMA EmptyLists == NoRepeats(<<>>) /\ \A x : ~Lists(<<>>, x)
  BY DEF NoRepeats, Lists

LEMMA ConcatLists ==
  ASSUME NEW S, NEW s \in Seq(S), NEW t \in Seq(S)
  PROVE  /\ s \o t \in Seq(S)
         /\ \A x : Lists(s \o t, x) <=> Lists(s, x) \/ Lists(t, x)
         /\ NoRepeats(s) /\ NoRepeats(t) /\ (\A x : ~(Lists(s, x) /\ Lists(t, x)))
              => NoRepeats(s \o t)
<1> DEFINE st == s \o t
<1>1. /\ st \in Seq(S) /\ Len(st) = Len(s) + Len(t)
      /\ \A i \in 1..Len(s) + Len(t) : st[i] = IF i <= Len(s) THEN s[i] ELSE t[i - Len(s)]
  BY ConcatProperties, Zenon
<1>2. Len(s) \in Nat /\ Len(t) \in Nat
  BY LenProperties
<1> HIDE DEF st
<1>3. /\ \A i \in 1..Len(s) : i \in 1..Len(st) /\ st[i] = s[i]
      /\ \A i \in 1..Len(t) : Len(s) + i \in 1..Len(st) /\ st[Len(s) + i] = t[i]
  <2>1. ASSUME NEW i \in 1..Len(t) PROVE Len(s) + i \in 1..Len(st) /\ st[Len(s) + i] = t[i]
    <3>1. Len(s) + i \in 1..Len(s) + Len(t) /\ ~(Len(s) + i <= Len(s)) /\ Len(s) + i - Len(s) = i
      BY <1>2
    <3> QED BY <1>1, <3>1
  <2> QED BY <1>1, <1>2, <2>1
<1>4. \A x : Lists(st, x) <=> Lists(s, x) \/ Lists(t, x)
  <2> TAKE x
  <2>1. ASSUME NEW i \in 1..Len(st), st[i] = x PROVE Lists(s, x) \/ Lists(t, x)
    <3>1. CASE i <= Len(s)
      BY <1>1, <1>2, <2>1, <3>1 DEF Lists
    <3>2. CASE ~(i <= Len(s))
      <4>1. i - Len(s) \in 1..Len(t) /\ t[i - Len(s)] = x
        BY <1>1, <1>2, <2>1, <3>2
      <4> QED BY <4>1 DEF Lists
    <3> QED BY <3>1, <3>2
  <2> QED BY <1>3, <2>1 DEF Lists
<1>5. ASSUME NoRepeats(s), NoRepeats(t), \A x : ~(Lists(s, x) /\ Lists(t, x)),
             NEW i \in 1..Len(st), NEW j \in 1..Len(st), st[i] = st[j]
      PROVE  i = j
  <2> DEFINE first(m) == m <= Len(s)
  <2>1. \A m \in 1..Len(st) : IF first(m) THEN m \in 1..Len(s) /\ st[m] = s[m]
                               ELSE m - Len(s) \in 1..Len(t) /\ st[m] = t[m - Len(s)]
    BY <1>1, <1>2
  <2>2. \A m \in 1..Len(s), n \in 1..Len(t) : s[m] # t[n]
    BY <1>5 DEF Lists
  <2>3. CASE first(i) /\ first(j)
    BY <1>5, <2>1, <2>3 DEF NoRepeats
  <2>4. CASE ~first(i) /\ ~first(j)
    <3>1. i - Len(s) = j - Len(s)
      BY <1>5, <2>1, <2>4 DEF NoRepeats
    <3> QED BY <1>2, <3>1
  <2>5. CASE first(i) # first(j)
    BY <1>5, <2>1, <2>2, <2>5
  <2> QED BY <2>3, <2>4, <2>5
<1> QED BY <1>1, <1>4, <1>5 DEF NoRepeats, st

LEMMA AppendLists ==
  ASSUME NEW S, NEW s \in Seq(S), NEW e \in S
  PROVE  /\ Append(s, e) \in Seq(S)
         /\ \A x : Lists(Append(s, e), x) <=> Lists(s, x) \/ x = e
         /\ NoRepeats(s) /\ ~Lists(s, e) => NoRepeats(Append(s, e))
<1>1. Append(s, e) = s \o <<e>> /\ <<e>> \in Seq(S)
  BY AppendIsConcat
<1>2. /\ \A x : Lists(<<e>>, x) <=> x = e
      /\ NoRepeats(<<e>>)
  BY DEF Lists, NoRepeats
<1>3. /\ s \o <<e>> \in Seq(S)
      /\ \A x : Lists(s \o <<e>>, x) <=> Lists(s, x) \/ Lists(<<e>>, x)
      /\ NoRepeats(s) /\ NoRepeats(<<e>>) /\ (\A x : ~(Lists(s, x) /\ Lists(<<e>>, x)))
           => NoRepeats(s \o <<e>>)
  BY <1>1, ConcatLists, Zenon
<1> QED BY <1>1, <1>2, <1>3, Zenon

LEMMA PrefixLists ==
  ASSUME NEW S, NEW s \in Seq(S), NEW k \in 1..Len(s), NoRepeats(s)
  PROVE  LET front == SubSeq(s, 1, k - 1)
             behind == ToSet(SubSeq(s, k + 1, Len(s)))
         IN  /\ front \in Seq(S) /\ NoRepeats(front) /\ s[k] \in S
             /\ ~Lists(front, s[k]) /\ s[k] \notin behind
             /\ \A x : Lists(s, x) <=> Lists(front, x) \/ x = s[k] \/ x \in behind
             /\ \A x : ~(Lists(front, x) /\ x \in behind)
<1> DEFINE front == SubSeq(s, 1, k - 1)
           back == SubSeq(s, k + 1, Len(s))
<1>0. Len(s) \in Nat /\ \A i \in 1..Len(s) : s[i] \in S
  BY LenProperties
<1>1. /\ front \in Seq(S) /\ Len(front) = k - 1
      /\ \A i \in 1..k - 1 : front[i] = s[i]
  BY <1>0, SubSeqProperties
<1>2. /\ back \in Seq(S) /\ Len(back) = Len(s) - k
      /\ \A i \in 1..Len(s) - k : back[i] = s[k + i]
  BY <1>0, SubSeqProperties
<1>3. ToSet(back) = {back[i] : i \in 1..Len(s) - k}
  <2>1. DOMAIN back = 1..Len(s) - k
    BY <1>2, LenProperties
  <2> QED BY <2>1 DEF ToSet
<1> HIDE DEF front, back
<1>4. \A x : x \in ToSet(back) <=> \E j \in k + 1..Len(s) : s[j] = x
  <2> TAKE x
  <2>1. ASSUME NEW j \in k + 1..Len(s), s[j] = x PROVE x \in ToSet(back)
    <3>1. j - k \in 1..Len(s) - k /\ k + (j - k) = j
      BY <1>0
    <3> QED BY <1>2, <1>3, <2>1, <3>1
  <2>2. ASSUME NEW i \in 1..Len(s) - k, back[i] = x PROVE \E j \in k + 1..Len(s) : s[j] = x
    <3>1. k + i \in k + 1..Len(s) /\ s[k + i] = x
      BY <1>0, <1>2, <2>2
    <3> QED BY <3>1
  <2> QED BY <1>3, <2>1, <2>2
<1>5. \A x : Lists(front, x) <=> \E j \in 1..k - 1 : s[j] = x
  BY <1>1 DEF Lists
<1>6. \A j \in 1..Len(s) : j \in 1..k - 1 \/ j = k \/ j \in k + 1..Len(s)
  BY <1>0
<1>7. \A x : Lists(s, x) <=> Lists(front, x) \/ x = s[k] \/ x \in ToSet(back)
  <2>1. 1..k - 1 \subseteq 1..Len(s) /\ k + 1..Len(s) \subseteq 1..Len(s)
    BY <1>0
  <2> QED BY <1>4, <1>5, <1>6, <2>1 DEF Lists
<1>8. NoRepeats(front)
  BY <1>0, <1>1 DEF NoRepeats
<1>9. ~Lists(front, s[k]) /\ s[k] \notin ToSet(back)
      /\ \A x : ~(Lists(front, x) /\ x \in ToSet(back))
  <2>1. \A i \in 1..k - 1, j \in k + 1..Len(s) : s[i] # s[k] /\ s[j] # s[k] /\ s[i] # s[j]
    BY <1>0 DEF NoRepeats
  <2>2. ~Lists(front, s[k])
    BY <1>5, <2>1, <1>0 DEF NoRepeats
  <2>3. s[k] \notin ToSet(back)
    BY <1>4, <1>0 DEF NoRepeats
  <2>4. ASSUME NEW x, Lists(front, x), x \in ToSet(back) PROVE FALSE
    <3>1. PICK i \in 1..k - 1 : s[i] = x
      BY <1>5, <2>4
    <3>2. PICK j \in k + 1..Len(s) : s[j] = x
      BY <1>4, <2>4
    <3> QED BY <2>1, <3>1, <3>2
  <2> QED BY <2>2, <2>3, <2>4
<1> QED BY <1>0, <1>1, <1>7, <1>8, <1>9 DEF front, back
------------------------------------------------------------------------------
(* Numbers of one word: the remainder of a sum is that of what is left.  *)
LEMMA ModUnique ==
  ASSUME NEW W \in Nat, W # 0, NEW q \in Int, NEW r \in 0..(W - 1)
  PROVE  (q * W + r) % W = r
<1> DEFINE a == q * W + r
           d == a \div W
<1>0. q * W \in Int /\ a \in Int /\ d \in Int
  OBVIOUS
<1>1. a = W * d + (a % W) /\ a % W \in 0..(W - 1)
  BY <1>0
<1>2. W * (q - d) = (a % W) - r
  BY <1>0, <1>1
<1> DEFINE e == q - d
<1>3. e \in Int /\ W * e < W /\ W * e > 0 - W
  BY <1>0, <1>1, <1>2
<1> HIDE DEF e
<1>4. e = 0
  <2>1. CASE e >= 1
    <3>1. W * e >= W
      BY <1>3, <2>1
    <3> QED BY <3>1, <1>3
  <2>2. CASE e <= 0 - 1
    <3>1. W * e <= 0 - W
      BY <1>3, <2>2
    <3> QED BY <3>1, <1>3
  <2> QED BY <2>1, <2>2, <1>3
<1>5. W * e = 0
  BY <1>4
<1> QED BY <1>0, <1>1, <1>2, <1>5 DEF e

LEMMA ModPlus ==
  ASSUME NEW W \in Nat, W # 0, NEW x \in Int, NEW b \in Int
  PROVE  ((x % W) + b) % W = (x + b) % W
<1> DEFINE q == x \div W
           y == (x % W) + b
           d == y \div W
<1>1. q \in Int /\ x = W * q + (x % W) /\ x % W \in 0..(W - 1)
  OBVIOUS
<1>2. y \in Int /\ d \in Int /\ y = W * d + (y % W) /\ y % W \in 0..(W - 1)
  BY <1>1
<1>3. x + b = W * q + y
  BY <1>1
<1>4. W * q + W * d = (q + d) * W /\ q + d \in Int
  BY <1>1, <1>2
<1> HIDE DEF q, d, y
<1>5. W * q \in Int /\ W * d \in Int
  BY <1>1, <1>2
<1>6. x + b = (q + d) * W + (y % W)
  BY <1>2, <1>3, <1>4, <1>5
<1>7. ((q + d) * W + (y % W)) % W = y % W
  BY <1>2, <1>4, ModUnique
<1> QED BY <1>6, <1>7 DEF y
------------------------------------------------------------------------------
(* Sums over finite sets, as the community modules compute them: of a      *)
(* first element, whichever is chosen, and the rest.                       *)
SumOver(f, S) == MapThenSumSet(LAMBDA m : f[m], S)

FirstOf(s) == CHOOSE x \in s : TRUE

SumEquation(f, S, g) ==
  g = [s \in SUBSET S |-> IF s = {} THEN 0 ELSE f[FirstOf(s)] + g[s \ {FirstOf(s)}]]

LEMMA SumIsChosen ==
  ASSUME NEW f, NEW S
  PROVE  SumOver(f, S) = (CHOOSE g : SumEquation(f, S, g))[S]
  BY DEF SumOver, MapThenSumSet, MapThenFoldSet, SumEquation, FirstOf

LEMMA Fewer ==
  ASSUME NEW s, IsFiniteSet(s), NEW x \in s, NEW k \in Nat, Cardinality(s) = k
  PROVE  IsFiniteSet(s \ {x}) /\ Cardinality(s \ {x}) \in Nat
         /\ ~(k <= Cardinality(s \ {x}))
<1>1. IsFiniteSet(s \ {x}) /\ Cardinality(s \ {x}) = k - 1
  BY FS_RemoveElement
<1>2. Cardinality(s \ {x}) \in Nat
  BY <1>1, FS_CardinalityType
<1>3. ~(k <= k - 1)
  OBVIOUS
<1> QED BY <1>1, <1>2, <1>3

LEMMA FirstProperties ==
  ASSUME NEW s, IsFiniteSet(s), s # {}
  PROVE  /\ FirstOf(s) \in s /\ IsFiniteSet(s \ {FirstOf(s)})
         /\ Cardinality(s) \in Nat /\ Cardinality(s \ {FirstOf(s)}) \in Nat
         /\ Cardinality(s \ {FirstOf(s)}) = Cardinality(s) - 1
<1>1. FirstOf(s) \in s
  BY DEF FirstOf
<1> QED BY <1>1, FS_RemoveElement, FS_CardinalityType

(* There is such a function: on the sets of k elements at most, for every  *)
(* k, because there is no first k for which there is none.                 *)
LEMMA SumEquationHasSolution ==
  ASSUME NEW S, IsFiniteSet(S), NEW f, \A x \in S : f[x] \in Nat
  PROVE  \E g : SumEquation(f, S, g)
<1> DEFINE Small(k) == {s \in SUBSET S : Cardinality(s) <= k}
           Step(g, k) == [s \in Small(k) |->
                            IF s = {} THEN 0 ELSE f[FirstOf(s)] + g[s \ {FirstOf(s)}]]
           Solved(k) == \E g : g = Step(g, k)
           Unsolved == {k \in Nat : ~Solved(k)}
<1>1. \A s \in SUBSET S : IsFiniteSet(s) /\ Cardinality(s) \in Nat
  BY FS_Subset, FS_CardinalityType
<1>2. Unsolved = {}
  <2> SUFFICES ASSUME NEW k \in Unsolved, \A j \in Unsolved : k <= j
               PROVE  FALSE
    BY MinExists
  <2> HIDE DEF Step
  <2>1. CASE k = 0
    <3>1. Small(0) = {{}}
      <4>1. \A s \in Small(0) : s = {}
        BY <1>1, FS_EmptySet
      <4>2. {} \in Small(0)
        BY FS_EmptySet
      <4> QED BY <4>1, <4>2
    <3> DEFINE g == [s \in Small(0) |-> 0]
    <3>2. g = Step(g, 0)
      BY <3>1 DEF Step
    <3> QED BY <2>1, <3>2
  <2>2. CASE k # 0
    <3>1. k - 1 \in Nat /\ ~(k <= k - 1)
      BY <2>2
    <3>2. PICK g : g = Step(g, k - 1)
      BY <3>1
    <3> DEFINE h == Step(g, k)
    <3>3. \A s \in Small(k - 1) : h[s] = g[s]
      <4>1. Small(k - 1) \subseteq Small(k)
        BY <1>1
      <4>2. \A s \in Small(k - 1) : h[s] =
              IF s = {} THEN 0 ELSE f[FirstOf(s)] + g[s \ {FirstOf(s)}]
        BY <4>1 DEF Step
      <4>3. \A s \in Small(k - 1) : g[s] =
              IF s = {} THEN 0 ELSE f[FirstOf(s)] + g[s \ {FirstOf(s)}]
        BY <3>2 DEF Step
      <4> QED BY <4>2, <4>3
    <3>4. \A s \in Small(k) : s # {} => s \ {FirstOf(s)} \in Small(k - 1)
      BY <1>1, FirstProperties
    <3> HIDE DEF Small
    <3>5. h = Step(h, k)
      <4>1. \A s \in Small(k) : (IF s = {} THEN 0 ELSE f[FirstOf(s)] + g[s \ {FirstOf(s)}])
                              = (IF s = {} THEN 0 ELSE f[FirstOf(s)] + h[s \ {FirstOf(s)}])
        BY <3>3, <3>4
      <4> HIDE DEF h
      <4>2. Step(g, k) = Step(h, k)
        BY <4>1 DEF Step
      <4> QED BY <4>2 DEF h
    <3> QED BY <3>5
  <2> QED BY <2>1, <2>2
<1>3. Cardinality(S) \in Nat /\ Small(Cardinality(S)) = SUBSET S
  <2>1. \A s \in SUBSET S : Cardinality(s) <= Cardinality(S)
    BY FS_Subset
  <2> QED BY <2>1, <1>1
<1>4. PICK g : g = Step(g, Cardinality(S))
  BY <1>2, <1>3
<1> QED BY <1>3, <1>4 DEF SumEquation

(* Two such functions agree wherever what they add up does.                *)
LEMMA SumSolutionsAgree ==
  ASSUME NEW S, IsFiniteSet(S), NEW T, S \subseteq T, IsFiniteSet(T), NEW f, NEW e,
         \A x \in S : f[x] = e[x],
         NEW g, SumEquation(f, S, g), NEW h, SumEquation(e, T, h)
  PROVE  \A s \in SUBSET S : g[s] = h[s]
<1> DEFINE Differ == {k \in Nat : \E s \in SUBSET S : Cardinality(s) = k /\ g[s] # h[s]}
<1>1. Differ = {}
  <2> SUFFICES ASSUME NEW k \in Differ, \A j \in Differ : k <= j
               PROVE  FALSE
    BY MinExists
  <2>1. PICK s \in SUBSET S : Cardinality(s) = k /\ g[s] # h[s]
    OBVIOUS
  <2>2. s \in SUBSET T /\ IsFiniteSet(s)
    BY FS_Subset
  <2>3. /\ g[s] = IF s = {} THEN 0 ELSE f[FirstOf(s)] + g[s \ {FirstOf(s)}]
        /\ h[s] = IF s = {} THEN 0 ELSE e[FirstOf(s)] + h[s \ {FirstOf(s)}]
    BY <2>2 DEF SumEquation
  <2>4. s # {}
    BY <2>1, <2>3
  <2>5. /\ FirstOf(s) \in S /\ Cardinality(s \ {FirstOf(s)}) \in Nat
        /\ ~(k <= Cardinality(s \ {FirstOf(s)}))
    <3>1. FirstOf(s) \in s
      BY <2>2, <2>4, FirstProperties
    <3>2. k \in Nat /\ Cardinality(s) = k
      BY <2>1
    <3> HIDE DEF Differ
    <3> QED BY <2>2, <3>1, <3>2, Fewer
  <2>6. g[s \ {FirstOf(s)}] = h[s \ {FirstOf(s)}]
    BY <2>5
  <2> QED BY <2>1, <2>3, <2>5, <2>6
<1>2. \A s \in SUBSET S : Cardinality(s) \in Nat
  BY FS_Subset, FS_CardinalityType
<1> QED BY <1>1, <1>2

(* It does not matter which element is added first.                        *)
LEMMA SumOfAnyAndRest ==
  ASSUME NEW S, IsFiniteSet(S), NEW f, \A x \in S : f[x] \in Nat,
         NEW g, SumEquation(f, S, g)
  PROVE  \A s \in SUBSET S : g[s] \in Nat /\ \A x \in s : g[s] = f[x] + g[s \ {x}]
<1> DEFINE Right(s) == g[s] \in Nat /\ \A x \in s : g[s] = f[x] + g[s \ {x}]
           Wrong == {k \in Nat : \E s \in SUBSET S : Cardinality(s) = k /\ ~Right(s)}
<1>1. Wrong = {}
  <2> SUFFICES ASSUME NEW k \in Wrong, \A j \in Wrong : k <= j
               PROVE  FALSE
    BY MinExists
  <2>1. PICK s \in SUBSET S : Cardinality(s) = k /\ ~Right(s)
    OBVIOUS
  <2>2. IsFiniteSet(s)
    BY FS_Subset
  <2>3. g[s] = IF s = {} THEN 0 ELSE f[FirstOf(s)] + g[s \ {FirstOf(s)}]
    BY DEF SumEquation
  <2>4. s # {}
    BY <2>1, <2>3
  <2>5. \A x \in s : /\ s \ {x} \in SUBSET S /\ Cardinality(s \ {x}) \in Nat
                     /\ ~(k <= Cardinality(s \ {x}))
    <3>1. k \in Nat /\ Cardinality(s) = k
      BY <2>1
    <3> HIDE DEF Wrong
    <3> QED BY <2>2, <3>1, Fewer
  <2>6. \A x \in s : Right(s \ {x})
    BY <2>5
  <2> DEFINE y == FirstOf(s)
  <2>7. y \in s
    BY <2>2, <2>4, FirstProperties
  <2> HIDE DEF y, Wrong
  <2>8. g[s] = f[y] + g[s \ {y}] /\ g[s] \in Nat
    <3>1. g[s] = f[y] + g[s \ {y}]
      BY <2>3, <2>4 DEF y
    <3>2. f[y] \in Nat /\ g[s \ {y}] \in Nat
      BY <2>6, <2>7
    <3> QED BY <3>1, <3>2
  <2>9. ASSUME NEW x \in s, x # y PROVE g[s] = f[x] + g[s \ {x}]
    <3>1. x \in s \ {y} /\ y \in s \ {x} /\ (s \ {y}) \ {x} = (s \ {x}) \ {y}
      BY <2>7, <2>9
    <3>2. g[s \ {y}] = f[x] + g[(s \ {y}) \ {x}]
      BY <2>6, <2>7, <3>1
    <3>3. g[s \ {x}] = f[y] + g[(s \ {y}) \ {x}] /\ g[s \ {x}] \in Nat
      BY <2>6, <3>1
    <3>4. f[x] \in Nat /\ f[y] \in Nat /\ g[s \ {y}] \in Nat
      BY <2>6, <2>7
    <3>5. g[(s \ {y}) \ {x}] \in Int
      <4>1. (s \ {y}) \ {x} \in SUBSET S /\ Cardinality((s \ {y}) \ {x}) \in Nat
            /\ ~(k <= Cardinality((s \ {y}) \ {x}))
        <5>1. k \in Nat /\ Cardinality(s) = k
          BY <2>1 DEF Wrong
        <5>2. Cardinality(s \ {y}) = k - 1 /\ IsFiniteSet(s \ {y})
          BY <2>2, <2>7, <5>1, FS_RemoveElement
        <5> DEFINE r == s \ {y}
        <5> HIDE DEF Right, r
        <5>a. IsFiniteSet(r) /\ x \in r /\ Cardinality(r) = k - 1
          BY <3>1, <5>2 DEF r
        <5>b. Cardinality(r \ {x}) = Cardinality(r) - 1 /\ IsFiniteSet(r \ {x})
          BY <5>a, FS_RemoveElement
        <5>3. Cardinality((s \ {y}) \ {x}) = k - 1 - 1 /\ IsFiniteSet((s \ {y}) \ {x})
          BY <5>a, <5>b DEF r
        <5>4. Cardinality((s \ {y}) \ {x}) \in Nat
          BY <5>3, FS_CardinalityType
        <5>5. ~(k <= k - 1 - 1)
          BY <5>1
        <5> QED BY <5>3, <5>4, <5>5
      <4> QED BY <4>1 DEF Wrong
    <3> QED BY <2>8, <3>2, <3>3, <3>4, <3>5
  <2> QED BY <2>1, <2>8, <2>9
<1>2. \A s \in SUBSET S : Cardinality(s) \in Nat
  BY FS_Subset, FS_CardinalityType
<1> QED BY <1>1, <1>2

LEMMA SumSolution ==
  ASSUME NEW S, IsFiniteSet(S), NEW f, \A x \in S : f[x] \in Nat
  PROVE  \E g : SumEquation(f, S, g) /\ SumOver(f, S) = g[S]
  BY SumIsChosen, SumEquationHasSolution

LEMMA SumOfNone == \A f : SumOver(f, {}) = 0
<1> SUFFICES ASSUME NEW f PROVE SumOver(f, {}) = 0
  OBVIOUS
<1>1. PICK g : SumEquation(f, {}, g) /\ SumOver(f, {}) = g[{}]
  BY SumSolution, FS_EmptySet
<1> QED BY <1>1 DEF SumEquation

(* A sum changes by what is added or removed, and depends on nothing else. *)
LEMMA SumOfSame ==
  ASSUME NEW S, IsFiniteSet(S), NEW f, \A x \in S : f[x] \in Nat,
         NEW e, \A x \in S : f[x] = e[x]
  PROVE  SumOver(f, S) = SumOver(e, S) /\ SumOver(f, S) \in Nat
<1>1. PICK g : SumEquation(f, S, g) /\ SumOver(f, S) = g[S]
  BY SumSolution
<1>2. PICK h : SumEquation(e, S, h) /\ SumOver(e, S) = h[S]
  BY SumSolution
<1>3. g[S] = h[S]
  BY <1>1, <1>2, SumSolutionsAgree
<1>4. g[S] \in Nat
  BY <1>1, SumOfAnyAndRest
<1> QED BY <1>1, <1>2, <1>3, <1>4

LEMMA SumOfRest ==
  ASSUME NEW S, IsFiniteSet(S), NEW f, \A x \in S : f[x] \in Nat, NEW x \in S
  PROVE  /\ SumOver(f, S) = f[x] + SumOver(f, S \ {x})
         /\ SumOver(f, S) \in Nat /\ SumOver(f, S \ {x}) \in Nat
<1>1. PICK g : SumEquation(f, S, g) /\ SumOver(f, S) = g[S]
  BY SumSolution
<1>2. IsFiniteSet(S \ {x})
  BY FS_RemoveElement
<1>3. PICK h : SumEquation(f, S \ {x}, h) /\ SumOver(f, S \ {x}) = h[S \ {x}]
  BY <1>2, SumSolution
<1>4. h[S \ {x}] = g[S \ {x}]
  BY <1>1, <1>2, <1>3, SumSolutionsAgree
<1>5. g[S] \in Nat /\ g[S \ {x}] \in Nat /\ g[S] = f[x] + g[S \ {x}]
  BY <1>1, SumOfAnyAndRest
<1> QED BY <1>1, <1>3, <1>4, <1>5
------------------------------------------------------------------------------
(* Sequences of sequences, joined as the community modules do it.          *)
Joined(ss, g, n) == g = [i \in 1..n |-> IF i = 1 THEN ss[i] ELSE g[i - 1] \o ss[i]]

LEMMA FlattenIsChosen ==
  ASSUME NEW ss, Len(ss) # 0
  PROVE  FlattenSeq(ss) = (CHOOSE g : Joined(ss, g, Len(ss)))[Len(ss)]
  BY DEF FlattenSeq, Joined

LEMMA JoinedExtends ==
  ASSUME NEW ss, NEW n \in Nat, NEW g, Joined(ss, g, n)
  PROVE  \E h : Joined(ss, h, n + 1) /\ \A i \in 1..n : h[i] = g[i]
<1> DEFINE h == [i \in 1..(n + 1) |-> IF i = 1 THEN ss[i] ELSE g[i - 1] \o ss[i]]
<1>1. \A i \in 1..n : g[i] = IF i = 1 THEN ss[i] ELSE g[i - 1] \o ss[i]
  BY DEF Joined
<1>2. \A i \in 1..n : h[i] = g[i]
  BY <1>1
<1>3. \A i \in 1..(n + 1) : i # 1 => i - 1 \in 1..n
  OBVIOUS
<1>4. \A i \in 1..(n + 1) : (IF i = 1 THEN ss[i] ELSE g[i - 1] \o ss[i])
                            = (IF i = 1 THEN ss[i] ELSE h[i - 1] \o ss[i])
  BY <1>2, <1>3
<1>5. h = [i \in 1..(n + 1) |-> IF i = 1 THEN ss[i] ELSE h[i - 1] \o ss[i]]
  <2> HIDE DEF h
  <2>1. [i \in 1..(n + 1) |-> IF i = 1 THEN ss[i] ELSE g[i - 1] \o ss[i]]
        = [i \in 1..(n + 1) |-> IF i = 1 THEN ss[i] ELSE h[i - 1] \o ss[i]]
    BY <1>4
  <2> QED BY <2>1 DEF h
<1> QED BY <1>2, <1>5 DEF Joined

LEMMA JoinedExists ==
  ASSUME NEW ss, NEW n \in Nat
  PROVE  \E g : Joined(ss, g, n)
<1> DEFINE Unsolved == {k \in Nat : ~(\E g : Joined(ss, g, k))}
<1>1. Unsolved = {}
  <2> SUFFICES ASSUME NEW k \in Unsolved, \A j \in Unsolved : k <= j
               PROVE  FALSE
    BY MinExists
  <2>1. CASE k = 0
    <3> DEFINE g == [i \in 1..0 |-> ss]
    <3>1. g = [i \in 1..0 |-> IF i = 1 THEN ss[i] ELSE g[i - 1] \o ss[i]]
      OBVIOUS
    <3>2. Joined(ss, g, 0)
      BY <3>1 DEF Joined
    <3> QED BY <2>1, <3>2
  <2>2. CASE k # 0
    <3>1. k - 1 \in Nat /\ ~(k <= k - 1) /\ (k - 1) + 1 = k
      BY <2>2
    <3>2. PICK g : Joined(ss, g, k - 1)
      BY <3>1
    <3>3. \E h : Joined(ss, h, (k - 1) + 1)
      BY <3>1, <3>2, JoinedExtends
    <3> QED BY <3>1, <3>3
  <2> QED BY <2>1, <2>2
<1> QED BY <1>1

(* What is joined depends only on what it is joined from.                  *)
LEMMA JoinedAgree ==
  ASSUME NEW ss, NEW tt, NEW n \in Nat, NEW m \in Nat, n <= m,
         \A i \in 1..n : ss[i] = tt[i],
         NEW g, Joined(ss, g, n), NEW h, Joined(tt, h, m)
  PROVE  \A i \in 1..n : g[i] = h[i]
<1> DEFINE Differ == {i \in 1..n : g[i] # h[i]}
<1>1. /\ \A i \in 1..n : g[i] = IF i = 1 THEN ss[i] ELSE g[i - 1] \o ss[i]
      /\ \A i \in 1..m : h[i] = IF i = 1 THEN tt[i] ELSE h[i - 1] \o tt[i]
  BY DEF Joined
<1>2. Differ \in SUBSET Nat /\ 1..n \subseteq 1..m
  OBVIOUS
<1>3. Differ = {}
  <2> SUFFICES ASSUME NEW k \in Differ, \A j \in Differ : k <= j
               PROVE  FALSE
    BY <1>2, MinExists
  <2>1. k # 1
    BY <1>1, <1>2
  <2>2. k - 1 \in 1..n /\ ~(k <= k - 1)
    BY <2>1
  <2>3. g[k - 1] = h[k - 1]
    BY <2>2
  <2> QED BY <1>1, <1>2, <2>1, <2>3
<1> QED BY <1>3

LEMMA FlattenIs ==
  ASSUME NEW ss, Len(ss) \in Nat \ {0}, NEW g, NEW m \in Nat, Len(ss) <= m, NEW tt,
         \A i \in 1..Len(ss) : ss[i] = tt[i], Joined(tt, g, m)
  PROVE  FlattenSeq(ss) = g[Len(ss)]
<1>1. \E h : Joined(ss, h, Len(ss))
  BY JoinedExists
<1> PICK h : h = CHOOSE f : Joined(ss, f, Len(ss))
  OBVIOUS
<1>2. Joined(ss, h, Len(ss)) /\ FlattenSeq(ss) = h[Len(ss)]
  BY <1>1, FlattenIsChosen
<1>3. Len(ss) \in 1..Len(ss) /\ Len(ss) \in Nat
  OBVIOUS
<1> QED BY <1>2, <1>3, JoinedAgree

LEMMA FlattenNone == FlattenSeq(<<>>) = <<>>
  BY DEF FlattenSeq

LEMMA FlattenOne ==
  ASSUME NEW q
  PROVE  FlattenSeq(<<q>>) = q
<1> DEFINE ss == <<q>>
<1>1. Len(ss) = 1 /\ ss[1] = q
  OBVIOUS
<1> HIDE DEF ss
<1>2. PICK g : Joined(ss, g, 1)
  <2>1. 1 \in Nat
    OBVIOUS
  <2> QED BY <2>1, JoinedExists
<1>3. FlattenSeq(ss) = g[1]
  <2>1. 1 \in Nat \ {0} /\ 1 <= 1
    OBVIOUS
  <2>2. Len(ss) \in Nat \ {0} /\ Len(ss) <= 1 /\ Joined(ss, g, 1) /\ 1 \in Nat
    BY <1>1, <1>2, <2>1
  <2>3. FlattenSeq(ss) = g[Len(ss)]
    BY <2>2, FlattenIs
  <2> QED BY <1>1, <2>3
<1>4. g[1] = ss[1]
  BY <1>2 DEF Joined
<1> QED BY <1>1, <1>3, <1>4 DEF ss

(* Joining one more.                                                       *)
LEMMA FlattenMore ==
  ASSUME NEW ss, NEW n \in Nat \ {0}, Len(ss) = n, NEW tt, Len(tt) = n + 1,
         \A i \in 1..n : tt[i] = ss[i]
  PROVE  FlattenSeq(tt) = FlattenSeq(ss) \o tt[n + 1]
<1>1. PICK g : Joined(tt, g, n + 1)
  <2>1. n + 1 \in Nat
    OBVIOUS
  <2> QED BY <2>1, JoinedExists
<1>2. FlattenSeq(tt) = g[n + 1]
  BY <1>1, FlattenIs
<1>3. FlattenSeq(ss) = g[n]
  BY <1>1, FlattenIs
<1>4. n + 1 # 1 /\ (n + 1) - 1 = n /\ n + 1 \in 1..(n + 1)
  OBVIOUS
<1>5. g[n + 1] = g[n] \o tt[n + 1]
  BY <1>1, <1>4 DEF Joined
<1> QED BY <1>2, <1>3, <1>5

LEMMA FlattenType ==
  ASSUME NEW S, NEW ss, NEW n \in Nat, Len(ss) = n, n = 0 => ss = <<>>,
         \A i \in 1..n : ss[i] \in Seq(S)
  PROVE  FlattenSeq(ss) \in Seq(S)
<1>1. CASE n = 0
  <2>1. <<>> \in Seq(S)
    OBVIOUS
  <2> QED BY <1>1, <2>1, FlattenNone
<1>2. CASE n # 0
  <2>1. PICK g : Joined(ss, g, n)
    BY JoinedExists
  <2>2. \A i \in 1..n : g[i] = IF i = 1 THEN ss[i] ELSE g[i - 1] \o ss[i]
    BY <2>1 DEF Joined
  <2> DEFINE Wrong == {i \in 1..n : g[i] \notin Seq(S)}
  <2>3. Wrong = {}
    <3>0. Wrong \in SUBSET Nat
      OBVIOUS
    <3> SUFFICES ASSUME NEW k \in Wrong, \A j \in Wrong : k <= j
                 PROVE  FALSE
      BY <3>0, MinExists
    <3>1. k # 1
      BY <2>2
    <3>2. k - 1 \in 1..n /\ ~(k <= k - 1)
      BY <3>1
    <3>3. g[k - 1] \in Seq(S) /\ ss[k] \in Seq(S)
      BY <3>2
    <3>4. g[k - 1] \o ss[k] \in Seq(S)
      BY <3>3
    <3> QED BY <2>2, <3>1, <3>4
  <2>4. n \in 1..n
    BY <1>2
  <2> QED BY <1>2, <2>1, <2>3, <2>4, FlattenIs
<1> QED BY <1>1, <1>2
------------------------------------------------------------------------------
(* FoldLeft is a recursive function on the subsets of the positions of a   *)
(* sequence.                                                               *)
FoldEquation(step, base, cs, n, g) ==
  \A s \in SUBSET (1..n) :
    g[s] = IF s = {} THEN base ELSE step[<<g[s \ {Max(s)}], cs[Max(s)]>>]

LEMMA GreatestIs ==
  ASSUME NEW S \in SUBSET Nat, NEW x \in S, \A y \in S : y <= x
  PROVE  Max(S) = x
<1> PICK m : m = Max(S)
  OBVIOUS
<1>1. \A y \in S : x >= y
  OBVIOUS
<1>2. m = CHOOSE z \in S : \A y \in S : z >= y
  BY DEF Max
<1>3. m \in S /\ m >= x
  BY <1>1, <1>2
<1>4. m <= x /\ m \in Nat /\ x \in Nat
  BY <1>3
<1> QED BY <1>3, <1>4

LEMMA PrefixMax ==
  ASSUME NEW k \in Nat \ {0}
  PROVE  Max(1..k) = k /\ (1..k) \ {k} = 1..(k - 1) /\ 1..k # {}
  BY GreatestIs

(* What holds at first, and is kept by each of n steps, holds at the end.  *)
LEMMA AfterSteps ==
  ASSUME NEW n \in Nat, NEW good \in SUBSET Nat, 0 \in good,
         \A k \in 0 .. n - 1 : k \in good => k + 1 \in good
  PROVE  n \in good
<1> SUFFICES ASSUME n \notin good PROVE FALSE
  OBVIOUS
<1> PICK k \in 0..n : k \notin good /\ \A j \in 0..n : j \notin good => k <= j
  <2> DEFINE Bad == {j \in 0..n : j \notin good}
  <2>1. n \in Bad /\ Bad \in SUBSET Nat
    OBVIOUS
  <2> HIDE DEF Bad
  <2>2. \E x \in Bad : \A y \in Bad : x <= y
    BY <2>1, MinExists
  <2> QED BY <2>2 DEF Bad
<1>1. k # 0 /\ k - 1 \in 0 .. n - 1
  OBVIOUS
<1>2. k - 1 \in good
  BY <1>1
<1> QED BY <1>1, <1>2

LEMMA FoldEquationExtends ==
  ASSUME NEW D, NEW X, NEW step, NEW base \in D, NEW k \in Nat, NEW cs, cs[k + 1] \in X,
         \A v \in D, x \in X : step[<<v, x>>] \in D,
         NEW g, FoldEquation(step, base, cs, k, g), \A s \in SUBSET (1..k) : g[s] \in D
  PROVE  \E h : /\ FoldEquation(step, base, cs, k + 1, h)
                /\ \A s \in SUBSET (1 .. k + 1) : h[s] \in D
<1> PICK m \in Nat : m = k + 1
  OBVIOUS
<1> DEFINE h == [s \in SUBSET (1..m) |-> IF m \in s THEN step[<<g[s \ {m}], cs[m]>>] ELSE g[s]]
<1>1. \A s \in SUBSET (1..m) : h[s] = IF m \in s THEN step[<<g[s \ {m}], cs[m]>>] ELSE g[s]
  OBVIOUS
<1> HIDE DEF h
<1>2. \A s \in SUBSET (1..m) : s \ {m} \in SUBSET (1..k)
  OBVIOUS
<1>3. \A s \in SUBSET (1..k) : s \in SUBSET (1..m) /\ m \notin s
  OBVIOUS
<1>4. \A s \in SUBSET (1..k) : h[s] = g[s]
  BY <1>1, <1>3
<1>5. ASSUME NEW s \in SUBSET (1..m)
      PROVE  h[s] = (IF s = {} THEN base ELSE step[<<h[s \ {Max(s)}], cs[Max(s)]>>]) /\ h[s] \in D
  <2>1. CASE m \in s
    <3>1. Max(s) = m
      BY <2>1, GreatestIs
    <3>2. h[s] = step[<<g[s \ {m}], cs[m]>>] /\ h[s \ {m}] = g[s \ {m}] /\ g[s \ {m}] \in D
      BY <1>1, <1>2, <1>4, <2>1
    <3> QED BY <2>1, <3>1, <3>2
  <2>2. CASE m \notin s
    <3>1. s \in SUBSET (1..k) /\ s \ {Max(s)} \in SUBSET (1..k)
      <4>1. \A x \in s : x \in 1..m /\ x # m
        BY <2>2
      <4>2. \A x \in s : x \in 1..k
        BY <4>1
      <4> QED BY <4>2
    <3>2. h[s] = g[s] /\ h[s \ {Max(s)}] = g[s \ {Max(s)}]
      BY <1>4, <3>1
    <3> QED BY <3>1, <3>2 DEF FoldEquation
  <2> QED BY <2>1, <2>2
<1>6. FoldEquation(step, base, cs, m, h)
  BY <1>5 DEF FoldEquation
<1> QED BY <1>5, <1>6

LEMMA FoldEquationHasSolution ==
  ASSUME NEW D, NEW X, NEW step, NEW base, NEW n, NEW cs, base \in D, n \in Nat,
         \A i \in 1..n : cs[i] \in X, \A v \in D, x \in X : step[<<v, x>>] \in D
  PROVE  \E g : FoldEquation(step, base, cs, n, g) /\ \A s \in SUBSET (1..n) : g[s] \in D
<1> DEFINE Solved(k) == \E g : /\ FoldEquation(step, base, cs, k, g)
                               /\ \A s \in SUBSET (1..k) : g[s] \in D
           good == {k \in Nat : Solved(k)}
<1>1. Solved(0)
  <2> DEFINE g == [s \in SUBSET (1..0) |-> base]
  <2>1. \A s \in SUBSET (1..0) : s = {} /\ g[s] = base
    OBVIOUS
  <2> HIDE DEF g
  <2>2. FoldEquation(step, base, cs, 0, g)
    BY <2>1 DEF FoldEquation
  <2> QED BY <2>1, <2>2
<1>2. ASSUME NEW k \in 0 .. n - 1, Solved(k)
      PROVE  Solved(k + 1)
  <2>1. cs[k + 1] \in X /\ k \in Nat
    OBVIOUS
  <2> QED BY <1>2, <2>1, FoldEquationExtends
<1> HIDE DEF Solved
<1>3. n \in good
  <2>1. 0 \in good /\ good \in SUBSET Nat
    BY <1>1
  <2>2. \A k \in 0 .. n - 1 : k \in good => k + 1 \in good
    BY <1>2
  <2> HIDE DEF good
  <2> QED BY <2>1, <2>2, AfterSteps
<1>4. Solved(n)
  BY <1>3
<1> QED BY <1>4 DEF Solved
=============================================================================
