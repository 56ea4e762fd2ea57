--------------------------- MODULE SequenceFacts ---------------------------
(***************************************************************************)
(* What the proofs need to know of sequences whose elements are not typed: *)
(* the operations and messages of the models are records of several kinds, *)
(* and most arguments are about their order and not about what they hold.  *)
(***************************************************************************)
EXTENDS Integers, Sequences, SequenceTheorems, WellFoundedInduction, TLAPS

\* s is a sequence, of whatever elements.
IsSeq(s) == \E S : s \in Seq(S)

\* What Append does to a sequence over an unnamed set.
LEMMA AppendShape ==
    ASSUME NEW s, IsSeq(s), NEW e
    PROVE  /\ IsSeq(Append(s, e))
           /\ Len(s) \in Nat
           /\ Len(Append(s, e)) = Len(s) + 1
           /\ \A i \in 1 .. Len(s) : Append(s, e)[i] = s[i]
           /\ Append(s, e)[Len(s) + 1] = e
<1>1. PICK S : s \in Seq(S)
  BY DEF IsSeq
<1>2. s \in Seq(S \cup {e}) /\ e \in S \cup {e}
  BY <1>1
<1>3. Append(s, e) \in Seq(S \cup {e})
  BY <1>2
<1> QED
  BY <1>2, <1>3 DEF IsSeq

\* What is left of a sequence when its first d elements are dropped.
LEMMA SuffixShape ==
    ASSUME NEW s, IsSeq(s), NEW d \in Nat, d <= Len(s)
    PROVE  /\ IsSeq(SubSeq(s, d + 1, Len(s)))
           /\ Len(SubSeq(s, d + 1, Len(s))) = Len(s) - d
           /\ \A i \in 1 .. Len(s) - d : SubSeq(s, d + 1, Len(s))[i] = s[d + i]
<1>1. PICK S : s \in Seq(S)
  BY DEF IsSeq
<1>2. Len(s) \in Nat
  BY <1>1
<1>3. SubSeq(s, d + 1, Len(s)) \in Seq(S)
  BY <1>1, <1>2
<1>4. /\ Len(SubSeq(s, d + 1, Len(s))) = Len(s) - d
      /\ \A i \in 1 .. Len(s) - d : SubSeq(s, d + 1, Len(s))[i] = s[d + i]
  BY <1>1, <1>2
<1> QED
  BY <1>3, <1>4 DEF IsSeq

\* What is left of a sequence when only its first k elements are kept.
LEMMA PrefixShape ==
    ASSUME NEW s, IsSeq(s), NEW k \in 0 .. Len(s)
    PROVE  /\ IsSeq(SubSeq(s, 1, k))
           /\ Len(SubSeq(s, 1, k)) = k
           /\ \A i \in 1 .. k : SubSeq(s, 1, k)[i] = s[i]
           /\ Len(s) \in Nat
<1>1. PICK S : s \in Seq(S)
  BY DEF IsSeq
<1>2. SubSeq(s, 1, k) \in Seq(S)
  BY <1>1
<1>3. Len(SubSeq(s, 1, k)) = k /\ \A i \in 1 .. k : SubSeq(s, 1, k)[i] = s[i]
  BY <1>1
<1>4. Len(s) \in Nat
  BY <1>1
<1> QED
  BY <1>2, <1>3, <1>4 DEF IsSeq

\* What Head and Tail are of a sequence that is not empty.
LEMMA TailShape ==
    ASSUME NEW s, IsSeq(s), s # << >>
    PROVE  /\ IsSeq(Tail(s)) /\ Len(s) \in Nat /\ Len(s) > 0
           /\ Len(Tail(s)) = Len(s) - 1
           /\ \A i \in 1 .. Len(s) - 1 : Tail(s)[i] = s[i + 1]
           /\ Head(s) = s[1]
<1>1. PICK S : s \in Seq(S)
  BY DEF IsSeq
<1>2. Len(s) \in Nat /\ Len(s) > 0
  BY <1>1, EmptySeq
<1>3. Tail(s) \in Seq(S)
  BY <1>1
<1>4. /\ Len(Tail(s)) = Len(s) - 1 /\ Head(s) = s[1]
      /\ \A i \in 1 .. Len(s) - 1 : Tail(s)[i] = s[i + 1]
  BY <1>1, <1>2
<1> QED
  BY <1>2, <1>3, <1>4 DEF IsSeq

\* Only the empty sequence has length 0.
LEMMA EmptyShape ==
    /\ IsSeq(<< >>) /\ Len(<< >>) = 0
    /\ \A s : IsSeq(s) => Len(s) \in Nat /\ (Len(s) = 0 <=> s = << >>)
<1>1. << >> \in Seq({}) /\ Len(<< >>) = 0
  OBVIOUS
<1>2. ASSUME NEW s, IsSeq(s) PROVE Len(s) \in Nat /\ (Len(s) = 0 <=> s = << >>)
  <2>1. PICK S : s \in Seq(S)
    BY <1>2 DEF IsSeq
  <2> QED
    BY <2>1, EmptySeq
<1> QED
  BY <1>1, <1>2 DEF IsSeq

\* The concatenation of two sequences.
LEMMA ConcatShape ==
    ASSUME NEW s, IsSeq(s), NEW r, IsSeq(r)
    PROVE  /\ IsSeq(s \o r) /\ Len(s \o r) = Len(s) + Len(r)
           /\ \A i \in 1 .. Len(s) : (s \o r)[i] = s[i]
           /\ \A i \in 1 .. Len(r) : (s \o r)[Len(s) + i] = r[i]
<1>1. PICK S : s \in Seq(S)
  BY DEF IsSeq
<1>2. PICK R : r \in Seq(R)
  BY DEF IsSeq
<1>3. s \in Seq(S \cup R) /\ r \in Seq(S \cup R)
  BY <1>1, <1>2
<1>4. s \o r \in Seq(S \cup R) /\ Len(s \o r) = Len(s) + Len(r)
  BY <1>3, ConcatProperties
<1>5. /\ \A i \in 1 .. Len(s) : (s \o r)[i] = s[i]
      /\ \A i \in 1 .. Len(r) : (s \o r)[Len(s) + i] = r[i]
  BY <1>3
<1> QED
  BY <1>4, <1>5 DEF IsSeq

\* The same with a name for the concatenation.
IsConcat(c, s, r) == c = s \o r
Joins(c, s, r) ==
    /\ IsSeq(c) /\ Len(c) = Len(s) + Len(r)
    /\ \A i \in 1 .. Len(s) : c[i] = s[i]
    /\ \A i \in 1 .. Len(r) : c[Len(s) + i] = r[i]

LEMMA ConcatNamed ==
    ASSUME NEW s, IsSeq(s), NEW r, IsSeq(r)
    PROVE  \E c : IsConcat(c, s, r) /\ Joins(c, s, r)
<1> DEFINE c == s \o r
<1>1. IsSeq(c) /\ Len(c) = Len(s) + Len(r)
  BY ConcatShape
<1>2. \A i \in 1 .. Len(s) : c[i] = s[i]
  BY ConcatShape
<1>3. \A i \in 1 .. Len(r) : c[Len(s) + i] = r[i]
  BY ConcatShape
<1>4. IsConcat(c, s, r)
  BY DEF IsConcat
<1> HIDE DEF c
<1>5. Joins(c, s, r)
  BY <1>1, <1>2, <1>3 DEF Joins
<1> QED
  BY <1>4, <1>5

\* The indices of a sequence.
LEMMA DomainShape ==
    ASSUME NEW s, IsSeq(s)
    PROVE  Len(s) \in Nat /\ DOMAIN s = 1 .. Len(s)
<1>1. PICK S : s \in Seq(S)
  BY DEF IsSeq
<1> QED
  BY <1>1

\* A function on 1 .. n is a sequence of length n.
LEMMA FunctionShape ==
    ASSUME NEW n \in Nat, NEW g, g = [i \in 1 .. n |-> g[i]]
    PROVE  IsSeq(g) /\ Len(g) = n
<1>1. g \in [1 .. n -> {g[i] : i \in 1 .. n}]
  OBVIOUS
<1>2. g \in Seq({g[i] : i \in 1 .. n}) /\ Len(g) = n
  BY <1>1
<1> QED
  BY <1>2 DEF IsSeq

\* A sequence of one element.
LEMMA SingleShape ==
    ASSUME NEW e
    PROVE  IsSeq(<<e>>) /\ Len(<<e>>) = 1 /\ <<e>> # << >>
<1>1. <<e>> \in Seq({e}) /\ Len(<<e>>) = 1
  OBVIOUS
<1> QED
  BY <1>1, EmptyShape DEF IsSeq

\* A piece of a sequence.
LEMMA SliceShape ==
    ASSUME NEW s, IsSeq(s), NEW m \in Nat, NEW n \in Nat, m <= n, n <= Len(s)
    PROVE  /\ IsSeq(SubSeq(s, m + 1, n)) /\ Len(SubSeq(s, m + 1, n)) = n - m
           /\ \A i \in 1 .. n - m : SubSeq(s, m + 1, n)[i] = s[m + i]
<1>1. PICK S : s \in Seq(S)
  BY DEF IsSeq
<1>2. SubSeq(s, m + 1, n) \in Seq(S)
  BY <1>1
<1>3. /\ Len(SubSeq(s, m + 1, n)) = n - m
      /\ \A i \in 1 .. n - m : SubSeq(s, m + 1, n)[i] = s[m + i]
  BY <1>1
<1> QED
  BY <1>2, <1>3 DEF IsSeq

\* A piece is its first element and the others.
LEMMA SliceSplits ==
    ASSUME NEW T, IsSeq(T), NEW j \in Nat, NEW k \in Nat, j + 1 <= k, k <= Len(T)
    PROVE  <<T[j + 1]>> \o SubSeq(T, (j + 1) + 1, k) = SubSeq(T, j + 1, k)
<1>1. PICK S : T \in Seq(S)
  BY DEF IsSeq
<1> QED
  BY <1>1

\* Two sequences with the same elements are the same.
LEMMA SameSequence ==
    ASSUME NEW s, IsSeq(s), NEW r, IsSeq(r), Len(s) = Len(r),
           \A i \in 1 .. Len(s) : s[i] = r[i]
    PROVE  s = r
<1>1. PICK S : s \in Seq(S)
  BY DEF IsSeq
<1>2. PICK R : r \in Seq(R)
  BY DEF IsSeq
<1>3. DOMAIN s = 1 .. Len(s) /\ DOMAIN r = 1 .. Len(s)
  BY <1>1, <1>2
<1>4. s = [i \in 1 .. Len(s) |-> s[i]] /\ r = [i \in 1 .. Len(s) |-> r[i]]
  BY <1>1, <1>2, <1>3
<1> QED
  BY ONLY <1>4, \A i \in 1 .. Len(s) : s[i] = r[i]

\* The order of the numbers, as a relation.
Below == {ss \in Nat \X Nat : ss[1] < ss[2]}

LEMMA BelowWellFounded == IsWellFoundedOn(Below, Nat)
  BY NatLessThanWellFounded, Zenon DEF OpToRel, Below

\* Induction over the numbers, for a set of numbers.
LEMMA SetInduction ==
    ASSUME NEW S, 0 \in S, \A n \in Nat : n \in S => n + 1 \in S
    PROVE  Nat \subseteq S
<1> DEFINE T == Nat \ S
<1> SUFFICES ASSUME T # {} PROVE FALSE
  OBVIOUS
<1>1. PICK x \in T : \A y \in T : ~ (<<y, x>> \in Below)
  <2>1. T \subseteq Nat
    OBVIOUS
  <2> HIDE DEF T
  <2> QED
    BY <2>1, WFMin, BelowWellFounded
<1>2. x # 0 /\ x - 1 \in Nat
  OBVIOUS
<1>3. x - 1 \notin T
  <2>1. <<x - 1, x>> \in Below
    BY <1>2 DEF Below
  <2> QED
    BY <1>1, <2>1
<1> QED
  BY <1>2, <1>3
=============================================================================
