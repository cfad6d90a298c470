---------------------------- MODULE ProofLemmas -----------------------------
(***************************************************************************)
(* Facts about sequences and numbers that several proofs need.             *)
(***************************************************************************)
EXTENDS Integers, SequencesExt, SequenceTheorems, FiniteSetTheorems, TLAPS

-----------------------------------------------------------------------------
(* Sequences *)

(* Taking one element out of a sequence moves the later ones up.           *)
LEMMA RemoveAtElements ==
  ASSUME NEW S, NEW s \in Seq(S), NEW i \in 1 .. Len(s)
  PROVE  /\ RemoveAt(s, i) \in Seq(S)
         /\ Len(RemoveAt(s, i)) = Len(s) - 1
         /\ \A j \in 1 .. Len(s) - 1 : RemoveAt(s, i)[j] = IF j < i THEN s[j] ELSE s[j + 1]
<1> DEFINE l == SubSeq(s, 1, i - 1)
           r == SubSeq(s, i + 1, Len(s))
<1>0. Len(s) \in Nat /\ \A j \in 1 .. Len(s) : s[j] \in S
  BY ElementOfSeq, LenProperties
<1>1. /\ l \in Seq(S) /\ Len(l) = i - 1
      /\ \A j \in 1 .. i - 1 : l[j] = s[j]
  <2>1. \A j \in 1 .. i - 1 : s[j] \in S
    BY <1>0
  <2>2. 1 \in Int /\ i - 1 \in Int
    BY <1>0
  <2>3. /\ l \in Seq(S) /\ Len(l) = IF 1 <= i - 1 THEN (i - 1) - 1 + 1 ELSE 0
        /\ \A j \in 1 .. (i - 1) - 1 + 1 : l[j] = s[1 + j - 1]
    BY <2>1, <2>2, SubSeqProperties
  <2> QED BY <2>3, <1>0
<1>2. /\ r \in Seq(S) /\ Len(r) = Len(s) - i
      /\ \A j \in 1 .. Len(s) - i : r[j] = s[i + j]
  <2>1. \A j \in i + 1 .. Len(s) : s[j] \in S
    BY <1>0
  <2>2. i + 1 \in Int /\ Len(s) \in Int
    BY <1>0
  <2>3. /\ r \in Seq(S) /\ Len(r) = IF i + 1 <= Len(s) THEN Len(s) - (i + 1) + 1 ELSE 0
        /\ \A j \in 1 .. Len(s) - (i + 1) + 1 : r[j] = s[(i + 1) + j - 1]
    BY <2>1, <2>2, SubSeqProperties
  <2> QED BY <2>3, <1>0
<1> HIDE DEF l, r
<1>3. /\ l \o r \in Seq(S)
      /\ Len(l \o r) = Len(l) + Len(r)
      /\ \A j \in 1 .. Len(l) + Len(r) :
           (l \o r)[j] = IF j <= Len(l) THEN l[j] ELSE r[j - Len(l)]
  BY <1>1, <1>2, ConcatProperties
<1>4. Len(l \o r) = Len(s) - 1
  BY <1>0, <1>1, <1>2, <1>3
<1>5. ASSUME NEW j \in 1 .. Len(s) - 1
      PROVE  (l \o r)[j] = IF j < i THEN s[j] ELSE s[j + 1]
  <2>1. CASE j < i
    BY <2>1, <1>0, <1>1, <1>2, <1>3
  <2>2. CASE ~ (j < i)
    <3>1. j - (i - 1) \in 1 .. Len(s) - i /\ i + (j - (i - 1)) = j + 1
      BY <2>2, <1>0
    <3>2. (l \o r)[j] = r[j - Len(l)]
      BY <2>2, <1>0, <1>1, <1>2, <1>3
    <3> QED BY <2>2, <3>1, <3>2, <1>1, <1>2
  <2> QED BY <2>1, <2>2
<1>6. RemoveAt(s, i) = l \o r
  BY DEF RemoveAt, l, r
<1> QED BY <1>3, <1>4, <1>5, <1>6

-----------------------------------------------------------------------------
(* Numbers *)

(* A nonempty set of numbers up to n has a greatest one.  The sets of the  *)
(* numbers above each of them are ordered by inclusion, which is well      *)
(* founded on finite sets.                                                 *)
LEMMA Greatest ==
  ASSUME NEW n \in Nat, NEW D \in SUBSET (0 .. n), D # {}
  PROVE  \E d \in D : \A e \in D : e <= d
<1> DEFINE Above(d) == {x \in 0 .. n : x > d}
           T == {Above(d) : d \in D}
<1>1. IsFiniteSet(0 .. n)
  BY FS_Interval
<1>2. T \in SUBSET FiniteSubsetsOf(0 .. n)
  <2>1. \A d \in D : Above(d) \in SUBSET (0 .. n)
    OBVIOUS
  <2> QED BY <1>1, <2>1, FS_FiniteSubsetsOfFinite
<1>3. PICK x \in T : \A y \in T : ~ (<<y, x>> \in StrictSubsetOrdering(0 .. n))
  <2>1. T # {}
    OBVIOUS
  <2>2. IsWellFoundedOn(StrictSubsetOrdering(0 .. n), FiniteSubsetsOf(0 .. n))
    BY FS_StrictSubsetOrderingWellFounded
  <2> HIDE DEF T
  <2> QED BY <1>2, <2>1, <2>2, WFMin
<1>4. PICK d \in D : x = Above(d)
  BY <1>3
<1>5. ASSUME NEW e \in D, e > d
      PROVE  FALSE
  <2>1. Above(e) \subseteq Above(d) /\ Above(e) # Above(d)
    <3>1. e \in Above(d) /\ e \notin Above(e)
      BY <1>5
    <3>2. Above(e) \subseteq Above(d)
      BY <1>5
    <3> QED BY <3>1, <3>2
  <2>2. Above(e) \in T /\ Above(e) \in SUBSET (0 .. n) /\ Above(d) \in SUBSET (0 .. n)
    OBVIOUS
  <2> HIDE DEF Above, T
  <2>3. <<Above(e), x>> \in StrictSubsetOrdering(0 .. n)
    BY <2>1, <2>2, <1>4 DEF StrictSubsetOrdering
  <2> QED BY <1>3, <2>2, <2>3
<1> QED BY <1>5

(* And a least one.                                                        *)
LEMMA Least ==
  ASSUME NEW n \in Nat, NEW D \in SUBSET (0 .. n), D # {}
  PROVE  \E d \in D : \A e \in D : d <= e
<1> DEFINE M == {n - d : d \in D}
<1>1. M \in SUBSET (0 .. n) /\ M # {}
  OBVIOUS
<1>2. PICK m \in M : \A e \in M : e <= m
  <2> HIDE DEF M
  <2> QED BY <1>1, Greatest
<1>3. PICK d \in D : m = n - d
  BY <1>2
<1>4. \A e \in D : n - e <= n - d
  BY <1>2, <1>3
<1> QED BY <1>4

(* What holds of 0 and passes from each number to the next, up to n, holds *)
(* of all of them: induction, for a set instead of a predicate.            *)
LEMMA UpTo ==
  ASSUME NEW n \in Nat, NEW S, 0 \in S, \A m \in 0 .. n - 1 : m \in S => m + 1 \in S
  PROVE  \A m \in 0 .. n : m \in S
<1> DEFINE D == {m \in 0 .. n : m \notin S}
<1>1. ASSUME D # {}
      PROVE  FALSE
  <2>1. D \in SUBSET (0 .. n)
    OBVIOUS
  <2>2. PICK d \in D : \A e \in D : d <= e
    <3> HIDE DEF D
    <3> QED BY <1>1, <2>1, Least
  <2>3. d \in 0 .. n /\ d \notin S /\ d # 0
    OBVIOUS
  <2>4. d - 1 \in 0 .. n - 1 /\ d - 1 \notin D
    BY <2>2, <2>3
  <2>5. d - 1 \in S
    BY <2>3, <2>4
  <2> QED BY <2>3, <2>4, <2>5
<1> QED BY <1>1

(* A set of numbers up to m + 1 has one more than those up to m if m + 1   *)
(* is one of them.                                                         *)
LEMMA CountNext ==
  ASSUME NEW P, NEW m \in Nat
  PROVE  /\ IsFiniteSet({q \in 1 .. m : q \in P}) /\ Cardinality({q \in 1 .. m : q \in P}) \in 0 .. m
         /\ Cardinality({q \in 1 .. m + 1 : q \in P})
              = Cardinality({q \in 1 .. m : q \in P}) + (IF m + 1 \in P THEN 1 ELSE 0)
<1>1. IsFiniteSet(1 .. m) /\ Cardinality(1 .. m) = m
  BY FS_Interval
<1>2. {q \in 1 .. m : q \in P} \in SUBSET (1 .. m)
  OBVIOUS
<1>3. IsFiniteSet({q \in 1 .. m : q \in P}) /\ Cardinality({q \in 1 .. m : q \in P}) \in 0 .. m
  <2>1. IsFiniteSet({q \in 1 .. m : q \in P}) /\ Cardinality({q \in 1 .. m : q \in P}) <= m
    BY <1>1, <1>2, FS_Subset
  <2> QED BY <2>1, FS_CardinalityType
<1>4. CASE m + 1 \in P
  <2>1. {q \in 1 .. m + 1 : q \in P} = {q \in 1 .. m : q \in P} \cup {m + 1}
    BY <1>4
  <2>2. m + 1 \notin {q \in 1 .. m : q \in P}
    OBVIOUS
  <2> QED BY <1>3, <1>4, <2>1, <2>2, FS_AddElement
<1>5. CASE m + 1 \notin P
  <2>1. {q \in 1 .. m + 1 : q \in P} = {q \in 1 .. m : q \in P}
    BY <1>5
  <2> QED BY <1>3, <1>5, <2>1
<1> QED BY <1>3, <1>4, <1>5

(* Remainders of numbers below the modulus, and of those that once went    *)
(* round.                                                                  *)
LEMMA ModInRange == ASSUME NEW x \in Int, NEW n \in Nat \ {0}
                    PROVE  x % n \in 0 .. n - 1
OBVIOUS

(* A number below the modulus is its own remainder.                        *)
LEMMA ModBelow == ASSUME NEW n \in Nat, NEW x \in 0 .. n - 1
                  PROVE  x % n = x
OBVIOUS

(* So is one that once went round.                                         *)
LEMMA ModWrapped == ASSUME NEW n \in Nat, NEW x \in 0 .. n - 1
                    PROVE  (x + n) % n = x
OBVIOUS

(* A number is made of its quotient and its remainder,                     *)
LEMMA DivMod == ASSUME NEW x \in Int, NEW n \in Nat \ {0}
                PROVE  x \div n \in Int /\ x % n \in 0 .. n - 1 /\ x = n * (x \div n) + (x % n)
OBVIOUS

(* and of no others.                                                       *)
LEMMA ModIs == ASSUME NEW n \in Nat \ {0}, NEW q \in Int, NEW r \in 0 .. n - 1,
                      NEW x \in Int, x = n * q + r
               PROVE  x % n = r /\ x \div n = q
<1>1. x % n = r
  OBVIOUS
<1>2. x \div n = q
  OBVIOUS
<1> QED BY <1>1, <1>2
=============================================================================
