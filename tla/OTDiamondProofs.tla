-------------------------- MODULE OTDiamondProofs --------------------------
(***************************************************************************)
(* TP1 for every text and every pair of operations in range: the two       *)
(* orders of a pair of concurrent operations give the same text.  First    *)
(* how insertions into and removals from a sequence commute, index by      *)
(* index; then what apply and transform reduce to when no word overflows,  *)
(* one lemma per pair of operation types; then that the text both end with *)
(* is the reference merge.  At the end: a cursor that is moved past an     *)
(* operation stays between the same characters.                            *)
(***************************************************************************)
EXTENDS OTDiamond, SequenceFacts, TLAPS

-----------------------------------------------------------------------------
(* x is d, of size n, with the k elements of s inserted after p, or without *)
(* the k elements after p.  The lemmas below are proved index by index from *)
(* these two facts alone.                                                   *)

Inserted(x, d, n, p, s, k) ==
    \A i \in 1 .. n + k : x[i] = IF i <= p THEN d[i]
                                 ELSE IF i <= p + k THEN s[i - p] ELSE d[i - k]

Removed(x, d, n, p, k) ==
    \A i \in 1 .. n - k : x[i] = IF i <= p THEN d[i] ELSE d[i + k]

LEMMA InsertShape ==
    ASSUME NEW d \in Seq(Int), NEW t \in Seq(Int), NEW p \in Nat, p <= Len(d)
    PROVE  /\ InsertText(d, p, t) \in Seq(Int)
           /\ Len(InsertText(d, p, t)) = Len(d) + Len(t)
           /\ Inserted(InsertText(d, p, t), d, Len(d), p, t, Len(t))
<1>1. \A i \in 1 .. Len(d) + Len(t) :
         (IF i <= p THEN d[i] ELSE IF i <= p + Len(t) THEN t[i - p]
          ELSE d[i - Len(t)]) \in Int
  OBVIOUS
<1>2. InsertText(d, p, t) \in [1 .. Len(d) + Len(t) -> Int]
  BY <1>1 DEF InsertText
<1> QED
  BY <1>2 DEF InsertText, Inserted

LEMMA EraseShape ==
    ASSUME NEW d \in Seq(Int), NEW p \in Nat, NEW n \in Nat, p + n <= Len(d)
    PROVE  /\ EraseText(d, p, n) \in Seq(Int)
           /\ Len(EraseText(d, p, n)) = Len(d) - n
           /\ Removed(EraseText(d, p, n), d, Len(d), p, n)
<1>1. \A i \in 1 .. Len(d) - n : (IF i <= p THEN d[i] ELSE d[i + n]) \in Int
  OBVIOUS
<1>2. Len(d) - n \in Nat
  OBVIOUS
<1>3. EraseText(d, p, n) \in [1 .. Len(d) - n -> Int]
  BY <1>1 DEF EraseText
<1> QED
  BY <1>2, <1>3 DEF EraseText, Removed

\* Two sequences of one length with the same elements are equal.
LEMMA SeqExtensional ==
    ASSUME NEW s \in Seq(Int), NEW t \in Seq(Int), Len(s) = Len(t),
           \A i \in 1 .. Len(s) : s[i] = t[i]
    PROVE  s = t
  OBVIOUS

\* Insertions at p and q, p first or at the same place.
LEMMA InsertTextsCommute ==
    ASSUME NEW d, d \in Seq(Int), NEW s, s \in Seq(Int), NEW t, t \in Seq(Int),
           NEW p \in Nat, NEW q \in Nat, p <= q, q <= Len(d)
    PROVE  InsertText(InsertText(d, p, s), q + Len(s), t)
             = InsertText(InsertText(d, q, t), p, s)
<1> DEFINE x == InsertText(d, p, s)
           y == InsertText(d, q, t)
           l == InsertText(x, q + Len(s), t)
           r == InsertText(y, p, s)
           n == Len(d)
           j == Len(s)
           k == Len(t)
<1>1. n \in Nat /\ j \in Nat /\ k \in Nat /\ p <= q /\ p <= n /\ q <= n
  OBVIOUS
<1>2. x \in Seq(Int) /\ Len(x) = n + j /\ Inserted(x, d, n, p, s, j)
  BY <1>1, InsertShape
<1>3. y \in Seq(Int) /\ Len(y) = n + k /\ Inserted(y, d, n, q, t, k)
  BY <1>1, InsertShape
<1> HIDE DEF x, y
<1>4. q + j \in Nat /\ q + j <= Len(x) /\ p <= Len(y)
  BY <1>1, <1>2, <1>3
<1>5. l \in Seq(Int) /\ Len(l) = Len(x) + k /\ Inserted(l, x, Len(x), q + j, t, k)
  BY <1>2, <1>4, InsertShape
<1>6. r \in Seq(Int) /\ Len(r) = Len(y) + j /\ Inserted(r, y, Len(y), p, s, j)
  BY <1>3, <1>4, InsertShape
<1> HIDE DEF l, r
<1>7. /\ Inserted(x, d, n, p, s, j) /\ Inserted(l, x, n + j, q + j, t, k)
      /\ Inserted(y, d, n, q, t, k) /\ Inserted(r, y, n + k, p, s, j)
  BY <1>2, <1>3, <1>5, <1>6
<1> HIDE DEF n, j, k
<1>8. \A i \in 1 .. n + j + k : l[i] = r[i]
  BY ONLY <1>1, <1>7, p \in Nat, q \in Nat DEF Inserted
<1> USE DEF n, j, k
<1>9. Len(l) = n + j + k /\ Len(r) = n + j + k
  BY <1>1, <1>2, <1>3, <1>5, <1>6
<1>10. l = r
  BY <1>5, <1>6, <1>8, <1>9, SeqExtensional
<1> QED
  BY <1>10 DEF l, r, x, y

\* An insertion at or before the start of a removed range.
LEMMA InsertBeforeErase ==
    ASSUME NEW d, d \in Seq(Int), NEW s, s \in Seq(Int), NEW k \in Nat,
           NEW p \in Nat, NEW q \in Nat, p <= q, q + k <= Len(d)
    PROVE  EraseText(InsertText(d, p, s), q + Len(s), k)
             = InsertText(EraseText(d, q, k), p, s)
<1> DEFINE x == InsertText(d, p, s)
           y == EraseText(d, q, k)
           l == EraseText(x, q + Len(s), k)
           r == InsertText(y, p, s)
           n == Len(d)
           j == Len(s)
<1>1. n \in Nat /\ j \in Nat /\ p <= q /\ p <= n /\ q + k <= n
  OBVIOUS
<1>2. x \in Seq(Int) /\ Len(x) = n + j /\ Inserted(x, d, n, p, s, j)
  BY <1>1, InsertShape
<1>3. y \in Seq(Int) /\ Len(y) = n - k /\ Removed(y, d, n, q, k)
  BY <1>1, EraseShape
<1> HIDE DEF x, y
<1>4. q + j \in Nat /\ q + j + k <= Len(x) /\ p <= Len(y)
  BY <1>1, <1>2, <1>3
<1>5. l \in Seq(Int) /\ Len(l) = Len(x) - k /\ Removed(l, x, Len(x), q + j, k)
  BY <1>2, <1>4, EraseShape
<1>6. r \in Seq(Int) /\ Len(r) = Len(y) + j /\ Inserted(r, y, Len(y), p, s, j)
  BY <1>3, <1>4, InsertShape
<1> HIDE DEF l, r
<1>7. /\ Inserted(x, d, n, p, s, j) /\ Removed(l, x, n + j, q + j, k)
      /\ Removed(y, d, n, q, k) /\ Inserted(r, y, n - k, p, s, j)
  BY <1>2, <1>3, <1>5, <1>6
<1> HIDE DEF n, j
<1>8. ASSUME NEW i \in 1 .. n + j - k PROVE l[i] = r[i]
  <2>1. CASE i <= p
    BY ONLY <2>1, <1>1, <1>7, p \in Nat, q \in Nat, k \in Nat, i \in 1 .. n + j - k
       DEF Inserted, Removed
  <2>2. CASE p < i /\ i <= p + j
    BY ONLY <2>2, <1>1, <1>7, p \in Nat, q \in Nat, k \in Nat, i \in 1 .. n + j - k
       DEF Inserted, Removed
  <2>3. CASE p + j < i /\ i <= q + j
    BY ONLY <2>3, <1>1, <1>7, p \in Nat, q \in Nat, k \in Nat, i \in 1 .. n + j - k
       DEF Inserted, Removed
  <2>4. CASE q + j < i
    BY ONLY <2>4, <1>1, <1>7, p \in Nat, q \in Nat, k \in Nat, i \in 1 .. n + j - k
       DEF Inserted, Removed
  <2> QED
    BY <1>1, <2>1, <2>2, <2>3, <2>4
<1> USE DEF n, j
<1>9. Len(l) = n + j - k /\ Len(r) = n + j - k
  BY <1>1, <1>2, <1>3, <1>5, <1>6
<1>10. l = r
  BY <1>5, <1>6, <1>8, <1>9, SeqExtensional
<1> QED
  BY <1>10 DEF l, r, x, y

\* An insertion at or after the end of a removed range.
LEMMA InsertAfterErase ==
    ASSUME NEW d, d \in Seq(Int), NEW s, s \in Seq(Int), NEW k \in Nat,
           NEW p \in Nat, NEW q \in Nat, q + k <= p, p <= Len(d)
    PROVE  EraseText(InsertText(d, p, s), q, k)
             = InsertText(EraseText(d, q, k), p - k, s)
<1> DEFINE x == InsertText(d, p, s)
           y == EraseText(d, q, k)
           l == EraseText(x, q, k)
           r == InsertText(y, p - k, s)
           n == Len(d)
           j == Len(s)
<1>1. n \in Nat /\ j \in Nat /\ q + k <= p /\ p <= n /\ q + k <= n
  OBVIOUS
<1>2. x \in Seq(Int) /\ Len(x) = n + j /\ Inserted(x, d, n, p, s, j)
  BY <1>1, InsertShape
<1>3. y \in Seq(Int) /\ Len(y) = n - k /\ Removed(y, d, n, q, k)
  BY <1>1, EraseShape
<1> HIDE DEF x, y
<1>4. q + k <= Len(x) /\ p - k \in Nat /\ p - k <= Len(y)
  BY <1>1, <1>2, <1>3
<1>5. l \in Seq(Int) /\ Len(l) = Len(x) - k /\ Removed(l, x, Len(x), q, k)
  BY <1>2, <1>4, EraseShape
<1>6. r \in Seq(Int) /\ Len(r) = Len(y) + j /\ Inserted(r, y, Len(y), p - k, s, j)
  BY <1>3, <1>4, InsertShape
<1> HIDE DEF l, r
<1>7. /\ Inserted(x, d, n, p, s, j) /\ Removed(l, x, n + j, q, k)
      /\ Removed(y, d, n, q, k) /\ Inserted(r, y, n - k, p - k, s, j)
  BY <1>2, <1>3, <1>5, <1>6
<1> HIDE DEF n, j
<1>8. \A i \in 1 .. n + j - k : l[i] = r[i]
  BY ONLY <1>1, <1>7, p \in Nat, q \in Nat, k \in Nat DEF Inserted, Removed
<1> USE DEF n, j
<1>9. Len(l) = n + j - k /\ Len(r) = n + j - k
  BY <1>1, <1>2, <1>3, <1>5, <1>6
<1>10. l = r
  BY <1>5, <1>6, <1>8, <1>9, SeqExtensional
<1> QED
  BY <1>10 DEF l, r, x, y

\* An insertion strictly inside a removed range goes with it.
LEMMA InsertInsideErase ==
    ASSUME NEW d, d \in Seq(Int), NEW s, s \in Seq(Int), NEW k \in Nat,
           NEW p \in Nat, NEW q \in Nat, q < p, p < q + k, q + k <= Len(d)
    PROVE  EraseText(InsertText(d, p, s), q, k + Len(s)) = EraseText(d, q, k)
<1> DEFINE x == InsertText(d, p, s)
           y == EraseText(d, q, k)
           l == EraseText(x, q, k + Len(s))
           n == Len(d)
           j == Len(s)
<1>1. n \in Nat /\ j \in Nat /\ q < p /\ p < q + k /\ p <= n /\ q + k <= n
  OBVIOUS
<1>2. x \in Seq(Int) /\ Len(x) = n + j /\ Inserted(x, d, n, p, s, j)
  BY <1>1, InsertShape
<1>3. y \in Seq(Int) /\ Len(y) = n - k /\ Removed(y, d, n, q, k)
  BY <1>1, EraseShape
<1> HIDE DEF x, y
<1>4. k + j \in Nat /\ q + (k + j) <= Len(x)
  BY <1>1, <1>2
<1>5. /\ l \in Seq(Int) /\ Len(l) = Len(x) - (k + j)
      /\ Removed(l, x, Len(x), q, k + j)
  BY <1>2, <1>4, EraseShape
<1> HIDE DEF l
<1>6. /\ Inserted(x, d, n, p, s, j) /\ Removed(l, x, n + j, q, k + j)
      /\ Removed(y, d, n, q, k)
  BY <1>2, <1>3, <1>5
<1> HIDE DEF n, j
<1>7. \A i \in 1 .. n - k : l[i] = y[i]
  BY ONLY <1>1, <1>6, p \in Nat, q \in Nat, k \in Nat DEF Inserted, Removed
<1> USE DEF n, j
<1>8. Len(l) = n - k
  BY <1>1, <1>2, <1>5
<1>9. l = y
  BY <1>3, <1>5, <1>7, <1>8, SeqExtensional
<1> QED
  BY <1>9 DEF l, x, y

\* Removals of ranges that do not meet.
LEMMA DisjointErasesCommute ==
    ASSUME NEW d, d \in Seq(Int), NEW j \in Nat, NEW k \in Nat,
           NEW p \in Nat, NEW q \in Nat, p + j <= q, q + k <= Len(d)
    PROVE  EraseText(EraseText(d, p, j), q - j, k)
             = EraseText(EraseText(d, q, k), p, j)
<1> DEFINE x == EraseText(d, p, j)
           y == EraseText(d, q, k)
           l == EraseText(x, q - j, k)
           r == EraseText(y, p, j)
           n == Len(d)
<1>1. n \in Nat /\ p + j <= q /\ p + j <= n /\ q + k <= n
  OBVIOUS
<1>2. x \in Seq(Int) /\ Len(x) = n - j /\ Removed(x, d, n, p, j)
  BY <1>1, EraseShape
<1>3. y \in Seq(Int) /\ Len(y) = n - k /\ Removed(y, d, n, q, k)
  BY <1>1, EraseShape
<1> HIDE DEF x, y
<1>4. q - j \in Nat /\ q - j + k <= Len(x) /\ p + j <= Len(y)
  BY <1>1, <1>2, <1>3
<1>5. l \in Seq(Int) /\ Len(l) = Len(x) - k /\ Removed(l, x, Len(x), q - j, k)
  BY <1>2, <1>4, EraseShape
<1>6. r \in Seq(Int) /\ Len(r) = Len(y) - j /\ Removed(r, y, Len(y), p, j)
  BY <1>3, <1>4, EraseShape
<1> HIDE DEF l, r
<1>7. /\ Removed(x, d, n, p, j) /\ Removed(l, x, n - j, q - j, k)
      /\ Removed(y, d, n, q, k) /\ Removed(r, y, n - k, p, j)
  BY <1>2, <1>3, <1>5, <1>6
<1> HIDE DEF n
<1>8. \A i \in 1 .. n - j - k : l[i] = r[i]
  BY ONLY <1>1, <1>7, p \in Nat, q \in Nat, j \in Nat, k \in Nat DEF Removed
<1> USE DEF n
<1>9. Len(l) = n - j - k /\ Len(r) = n - j - k
  BY <1>1, <1>2, <1>3, <1>5, <1>6
<1>10. l = r
  BY <1>5, <1>6, <1>8, <1>9, SeqExtensional
<1> QED
  BY <1>10 DEF l, r, x, y

\* Removals of ranges with o elements in common, the one at p not later.
LEMMA OverlappingErasesCommute ==
    ASSUME NEW d, d \in Seq(Int), NEW j \in Nat, NEW k \in Nat, NEW o \in Nat,
           NEW p \in Nat, NEW q \in Nat, p <= q, q < p + j,
           p + j <= Len(d), q + k <= Len(d),
           o = Least(p + j, q + k) - q
    PROVE  EraseText(EraseText(d, p, j), p, k - o)
             = EraseText(EraseText(d, q, k), p, j - o)
<1> DEFINE x == EraseText(d, p, j)
           y == EraseText(d, q, k)
           l == EraseText(x, p, k - o)
           r == EraseText(y, p, j - o)
           n == Len(d)
<1>1. /\ n \in Nat /\ p <= q /\ q < p + j /\ p + j <= n /\ q + k <= n
      /\ o <= j /\ o <= k
      /\ o = p + j - q \/ (o = k /\ q + k <= p + j)
  BY DEF Least
<1>2. x \in Seq(Int) /\ Len(x) = n - j /\ Removed(x, d, n, p, j)
  BY <1>1, EraseShape
<1>3. y \in Seq(Int) /\ Len(y) = n - k /\ Removed(y, d, n, q, k)
  BY <1>1, EraseShape
<1> HIDE DEF x, y
<1>11. /\ n - j \in Nat /\ n - k \in Nat
      /\ k - o \in Nat /\ p + (k - o) <= n - j
      /\ j - o \in Nat /\ p + (j - o) <= n - k
  <2> HIDE DEF n
  <2> QED BY ONLY <1>1, p \in Nat, q \in Nat, j \in Nat, k \in Nat, o \in Nat
<1>4. /\ k - o \in Nat /\ p + (k - o) <= Len(x)
      /\ j - o \in Nat /\ p + (j - o) <= Len(y)
  BY ONLY <1>11, <1>2, <1>3
<1>5. l \in Seq(Int) /\ Len(l) = Len(x) - (k - o) /\ Removed(l, x, Len(x), p, k - o)
  BY <1>2, <1>4, EraseShape
<1>6. r \in Seq(Int) /\ Len(r) = Len(y) - (j - o) /\ Removed(r, y, Len(y), p, j - o)
  BY <1>3, <1>4, EraseShape
<1> HIDE DEF l, r
<1>7. /\ Removed(x, d, n, p, j) /\ Removed(l, x, n - j, p, k - o)
      /\ Removed(y, d, n, q, k) /\ Removed(r, y, n - k, p, j - o)
  BY <1>2, <1>3, <1>5, <1>6
<1> HIDE DEF n
<1>8. \A i \in 1 .. n - j - k + o : l[i] = r[i]
  BY ONLY <1>1, <1>7, p \in Nat, q \in Nat, j \in Nat, k \in Nat, o \in Nat DEF Removed
<1>9. Len(l) = n - j - k + o /\ Len(r) = n - j - k + o
  BY ONLY <1>1, <1>2, <1>3, <1>5, <1>6, j \in Nat, k \in Nat, o \in Nat
<1> USE DEF n
<1>10. l = r
  BY <1>5, <1>6, <1>8, <1>9, SeqExtensional
<1> QED
  BY <1>10 DEF l, r, x, y

-----------------------------------------------------------------------------
(* apply, for operations within the text. *)

LEMMA ApplyInsert ==
    ASSUME NEW d, d \in Seq(Int), NEW op, op.type = "insert",
           op.text \in Seq(Int), op.position \in Nat, op.position <= Len(d)
    PROVE  apply(d, op) = InsertText(d, op.position, op.text)
<1>1. Least(op.position, Len(d)) = op.position
  BY DEF Least
<1>2. CASE op.text = << >>
  <2>1. apply(d, op) = d
    BY <1>2 DEF apply, is_noop
  <2>2. InsertText(d, op.position, op.text) = d
    BY <1>2 DEF InsertText
  <2> QED
    BY <2>1, <2>2
<1>3. CASE op.text # << >>
  <2>1. ~ is_noop(op)
    BY <1>3 DEF is_noop
  <2> QED
    BY <1>1, <2>1 DEF apply
<1> QED
  BY <1>2, <1>3

LEMMA ApplyDelete ==
    ASSUME NEW d, d \in Seq(Int), NEW op, op.type = "delete",
           op.position \in Nat, op.length \in Nat,
           op.position + op.length <= Len(d)
    PROVE  apply(d, op) = EraseText(d, op.position, op.length)
<1>1. /\ Least(op.position, Len(d)) = op.position
      /\ Least(op.length, Len(d) - op.position) = op.length
  BY DEF Least
<1>2. CASE op.length = 0
  <2>1. apply(d, op) = d
    BY <1>2 DEF apply, is_noop
  <2>2. EraseText(d, op.position, op.length) = d
    BY <1>2 DEF EraseText
  <2> QED
    BY <2>1, <2>2
<1>3. CASE op.length # 0
  <2>1. ~ is_noop(op)
    BY <1>3 DEF is_noop
  <2> QED
    BY <1>1, <2>1 DEF apply
<1> QED
  BY <1>2, <1>3

\* An operation with nothing to insert or to remove leaves every text alone,
\* wherever it points.
LEMMA ApplyNoop ==
    ASSUME NEW d, NEW op, is_noop(op)
    PROVE  apply(d, op) = d
  BY DEF apply

-----------------------------------------------------------------------------
(* transform, for operations that can be concurrent on a text d. *)

\* The text of the site that issued a when it has applied b too.
Joint(d, a, b) == apply(apply(d, a), transform(a, b)[2])

Diamond(d, a, b) ==
    apply(apply(d, a), transform(a, b)[2]) = apply(apply(d, b), transform(a, b)[1])

LEMMA WrapFits ==
    ASSUME NEW n \in Nat, n < HalfWord
    PROVE  Wrap(n) = n /\ Signed(n) = n
  BY HalfWordAssumption DEF Wrap, Signed, WordSize

LEMMA InsertInsertDiamond ==
    ASSUME NEW d, d \in Seq(Int), NEW s, s \in Seq(Int), NEW t, t \in Seq(Int),
           NEW p \in Nat, NEW q \in Nat, p <= Len(d), q <= Len(d),
           NEW u \in Nat, NEW v \in Nat, u # v,
           Len(d) + Len(s) < HalfWord, Len(d) + Len(t) < HalfWord
    PROVE  /\ Diamond(d, make_insert(p, s, u, 0), make_insert(q, t, v, 0))
           /\ u < v =>
                Joint(d, make_insert(p, s, u, 0), make_insert(q, t, v, 0))
                  = InsertText(InsertText(d, p, s), IF p <= q THEN q + Len(s) ELSE q, t)
<1> DEFINE a == make_insert(p, s, u, 0)
           b == make_insert(q, t, v, 0)
<1>1. /\ a.type = "insert" /\ a.position = p /\ a.text = s /\ a.length = Len(s)
      /\ b.type = "insert" /\ b.position = q /\ b.text = t /\ b.length = Len(t)
      /\ a.userId = u /\ b.userId = v
  BY DEF make_insert
<1>2. apply(d, a) = InsertText(d, p, s) /\ apply(d, b) = InsertText(d, q, t)
  BY <1>1, ApplyInsert
<1>3. /\ InsertText(d, p, s) \in Seq(Int)
      /\ Len(InsertText(d, p, s)) = Len(d) + Len(s)
  BY InsertShape
<1>4. /\ InsertText(d, q, t) \in Seq(Int)
      /\ Len(InsertText(d, q, t)) = Len(d) + Len(t)
  BY InsertShape
<1>5. Wrap(q + Len(s)) = q + Len(s) /\ Wrap(p + Len(t)) = p + Len(t)
  <2>1. /\ q + Len(s) \in Nat /\ q + Len(s) < HalfWord
        /\ p + Len(t) \in Nat /\ p + Len(t) < HalfWord
    BY HalfWordAssumption
  <2> QED
    BY <2>1, WrapFits
<1>6. transform(a, b) = transform_insert_insert(a, b)
  BY <1>1 DEF transform
<1>7. CASE p < q \/ (p = q /\ u < v)
  <2> DEFINE c == MovedBy(b, Len(s))
  <2>1. transform(a, b) = <<a, c>>
    BY <1>1, <1>6, <1>7, SMTT(30) DEF transform_insert_insert
  <2>2. c.type = "insert" /\ c.position = q + Len(s) /\ c.text = t
    BY <1>5 DEF MovedBy, make_insert
  <2> HIDE DEF a, b, c
  <2>3. apply(InsertText(d, p, s), c)
          = InsertText(InsertText(d, p, s), q + Len(s), t)
    <3>1. c.position \in Nat /\ c.position <= Len(InsertText(d, p, s))
      BY <1>3, <2>2
    <3> QED
      BY <3>1, <2>2, <1>3, ApplyInsert
  <2>4. apply(InsertText(d, q, t), a) = InsertText(InsertText(d, q, t), p, s)
    <3>1. a.position \in Nat /\ a.position <= Len(InsertText(d, q, t))
      BY <1>1, <1>4
    <3> QED
      BY <3>1, <1>1, <1>4, ApplyInsert
  <2>5. InsertText(InsertText(d, p, s), q + Len(s), t)
          = InsertText(InsertText(d, q, t), p, s)
    BY <1>7, InsertTextsCommute
  <2>6. Diamond(d, a, b) /\ Joint(d, a, b) = InsertText(InsertText(d, p, s), q + Len(s), t)
    BY <1>2, <2>1, <2>3, <2>4, <2>5 DEF Diamond, Joint
  <2> QED
    BY <1>7, <2>6 DEF a, b
<1>8. CASE q < p \/ (p = q /\ v < u)
  <2> DEFINE c == MovedBy(a, Len(t))
  <2>1. transform(a, b) = <<c, b>>
    BY <1>1, <1>6, <1>8, SMTT(30) DEF transform_insert_insert
  <2>2. c.type = "insert" /\ c.position = p + Len(t) /\ c.text = s
    BY <1>5 DEF MovedBy, make_insert
  <2> HIDE DEF a, b, c
  <2>3. apply(InsertText(d, q, t), c)
          = InsertText(InsertText(d, q, t), p + Len(t), s)
    <3>1. c.position \in Nat /\ c.position <= Len(InsertText(d, q, t))
      BY <1>4, <2>2
    <3> QED
      BY <3>1, <2>2, <1>4, ApplyInsert
  <2>4. apply(InsertText(d, p, s), b) = InsertText(InsertText(d, p, s), q, t)
    <3>1. b.position \in Nat /\ b.position <= Len(InsertText(d, p, s))
      BY <1>1, <1>3
    <3> QED
      BY <3>1, <1>1, <1>3, ApplyInsert
  <2>5. InsertText(InsertText(d, q, t), p + Len(t), s)
          = InsertText(InsertText(d, p, s), q, t)
    BY <1>8, InsertTextsCommute
  <2>6. Diamond(d, a, b) /\ Joint(d, a, b) = InsertText(InsertText(d, p, s), q, t)
    BY <1>2, <2>1, <2>3, <2>4, <2>5 DEF Diamond, Joint
  <2>7. u < v => ~ (p <= q)
    BY <1>8
  <2> QED
    BY <2>6, <2>7 DEF a, b
<1> QED
  BY <1>7, <1>8

LEMMA InsertDeleteDiamond ==
    ASSUME NEW d, d \in Seq(Int), NEW s, s \in Seq(Int), NEW k \in Nat,
           NEW p \in Nat, NEW q \in Nat, p <= Len(d), q + k <= Len(d),
           NEW u \in Nat, NEW v \in Nat, Len(d) + Len(s) < HalfWord
    PROVE  /\ Diamond(d, make_insert(p, s, u, 0), make_delete(q, k, v, 0))
           /\ Joint(d, make_insert(p, s, u, 0), make_delete(q, k, v, 0))
                = IF p <= q THEN EraseText(InsertText(d, p, s), q + Len(s), k)
                  ELSE IF q + k <= p THEN EraseText(InsertText(d, p, s), q, k)
                  ELSE EraseText(d, q, k)
<1> DEFINE a == make_insert(p, s, u, 0)
           b == make_delete(q, k, v, 0)
           x == InsertText(d, p, s)
           y == EraseText(d, q, k)
<1>1. /\ a.type = "insert" /\ a.position = p /\ a.text = s /\ a.length = Len(s)
      /\ b.type = "delete" /\ b.position = q /\ b.length = k
  BY DEF make_insert, make_delete
<1>2. apply(d, a) = x /\ apply(d, b) = y
  BY <1>1, ApplyInsert, ApplyDelete
<1>3. x \in Seq(Int) /\ Len(x) = Len(d) + Len(s)
  BY InsertShape
<1>4. y \in Seq(Int) /\ Len(y) = Len(d) - k
  BY EraseShape
<1>5. /\ Wrap(q + Len(s)) = q + Len(s) /\ Wrap(q + k) = q + k
      /\ Wrap(k + Len(s)) = k + Len(s)
  <2>1. /\ q + Len(s) \in Nat /\ q + Len(s) < HalfWord
        /\ q + k \in Nat /\ q + k < HalfWord
        /\ k + Len(s) \in Nat /\ k + Len(s) < HalfWord
    BY HalfWordAssumption
  <2> QED
    BY <2>1, WrapFits
<1>6. transform(a, b) = transform_insert_delete(a, b)
  BY <1>1 DEF transform
<1> HIDE DEF x, y
<1>7. CASE p <= q
  <2> DEFINE c == MovedBy(b, Len(s))
  <2>1. transform(a, b) = <<a, c>>
    BY <1>1, <1>6, <1>7 DEF transform_insert_delete
  <2>2. c.type = "delete" /\ c.position = q + Len(s) /\ c.length = k
    BY <1>5 DEF MovedBy, make_delete
  <2> HIDE DEF a, b, c
  <2>3. apply(x, c) = EraseText(x, q + Len(s), k)
    <3>1. /\ c.position \in Nat /\ c.length \in Nat
          /\ c.position + c.length <= Len(x)
      BY <1>3, <2>2
    <3> QED
      BY <3>1, <2>2, <1>3, ApplyDelete
  <2>4. apply(y, a) = InsertText(y, p, s)
    <3>1. a.position \in Nat /\ a.position <= Len(y)
      BY <1>1, <1>4, <1>7
    <3> QED
      BY <3>1, <1>1, <1>4, ApplyInsert
  <2>5. EraseText(x, q + Len(s), k) = InsertText(y, p, s)
    BY <1>7, InsertBeforeErase DEF x, y
  <2>6. Diamond(d, a, b) /\ Joint(d, a, b) = EraseText(x, q + Len(s), k)
    BY <1>2, <2>1, <2>3, <2>4, <2>5 DEF Diamond, Joint
  <2> QED
    BY <1>7, <2>6 DEF a, b, x, y
<1>8. CASE q < p /\ q + k <= p
  <2> DEFINE c == MovedBy(a, -k)
  <2>1. transform(a, b) = <<c, b>>
    <3>1. ~ (p <= q) /\ p >= q + k
      BY <1>8
    <3> QED
      BY <1>1, <1>5, <1>6, <3>1 DEF transform_insert_delete
  <2>2. c.type = "insert" /\ c.position = p - k /\ c.text = s
    <3>1. p - k \in Nat /\ p - k < HalfWord /\ p + (-k) = p - k
      BY <1>8, HalfWordAssumption
    <3>2. Wrap(p - k) = p - k
      BY <3>1, WrapFits
    <3> QED
      BY <3>1, <3>2 DEF MovedBy, make_insert
  <2> HIDE DEF a, b, c
  <2>3. apply(y, c) = InsertText(y, p - k, s)
    <3>1. c.position \in Nat /\ c.position <= Len(y)
      BY <1>4, <1>8, <2>2
    <3> QED
      BY <3>1, <2>2, <1>4, ApplyInsert
  <2>4. apply(x, b) = EraseText(x, q, k)
    <3>1. /\ b.position \in Nat /\ b.length \in Nat
          /\ b.position + b.length <= Len(x)
      BY <1>1, <1>3
    <3> QED
      BY <3>1, <1>1, <1>3, ApplyDelete
  <2>5. EraseText(x, q, k) = InsertText(y, p - k, s)
    BY <1>8, InsertAfterErase DEF x, y
  <2>6. Diamond(d, a, b) /\ Joint(d, a, b) = EraseText(x, q, k)
    BY <1>2, <2>1, <2>3, <2>4, <2>5 DEF Diamond, Joint
  <2> QED
    BY <1>8, <2>6 DEF a, b, x, y
<1>9. CASE q < p /\ p < q + k
  <2> DEFINE c == [a EXCEPT !.position = b.position, !.text = << >>, !.length = 0]
             e == [b EXCEPT !.length = Wrap(@ + a.length)]
  <2>1. transform(a, b) = <<c, e>>
    <3>1. ~ (p <= q) /\ ~ (p >= q + k)
      BY <1>9
    <3> QED
      BY <1>1, <1>5, <1>6, <3>1 DEF transform_insert_delete
  <2>2. /\ c.type = "insert" /\ c.text = << >>
        /\ e.type = "delete" /\ e.position = q /\ e.length = k + Len(s)
    BY <1>5 DEF make_insert, make_delete
  <2> HIDE DEF a, b, c, e
  <2>3. apply(y, c) = y
    BY <2>2, ApplyNoop DEF is_noop
  <2>4. apply(x, e) = EraseText(x, q, k + Len(s))
    <3>1. /\ e.position \in Nat /\ e.length \in Nat
          /\ e.position + e.length <= Len(x)
      BY <1>3, <2>2
    <3> QED
      BY <3>1, <2>2, <1>3, ApplyDelete
  <2>5. EraseText(x, q, k + Len(s)) = y
    BY <1>9, InsertInsideErase DEF x, y
  <2>6. Diamond(d, a, b) /\ Joint(d, a, b) = y
    BY <1>2, <2>1, <2>3, <2>4, <2>5 DEF Diamond, Joint
  <2> QED
    BY <1>9, <2>6 DEF a, b, x, y
<1> QED
  BY <1>7, <1>8, <1>9

\* The removal that starts first, given first.
LEMMA DeleteDeleteDiamond ==
    ASSUME NEW d, d \in Seq(Int), NEW j \in Nat, NEW k \in Nat,
           NEW p \in Nat, NEW q \in Nat, p + j <= Len(d), q + k <= Len(d),
           p <= q, NEW u \in Nat, NEW v \in Nat, Len(d) < HalfWord
    PROVE  /\ Diamond(d, make_delete(p, j, u, 0), make_delete(q, k, v, 0))
           /\ Joint(d, make_delete(p, j, u, 0), make_delete(q, k, v, 0))
                = EraseText(EraseText(d, p, j), IF q < p + j THEN p ELSE q - j,
                            k - Greatest(0, Least(p + j, q + k) - q))
<1> DEFINE a == make_delete(p, j, u, 0)
           b == make_delete(q, k, v, 0)
           x == EraseText(d, p, j)
           y == EraseText(d, q, k)
           o == Overlap(a, b)
           n == Len(d)
<1>1. /\ a.type = "delete" /\ a.position = p /\ a.length = j
      /\ b.type = "delete" /\ b.position = q /\ b.length = k
  BY DEF make_delete
<1>2. apply(d, a) = x /\ apply(d, b) = y
  BY <1>1, ApplyDelete
<1>3. x \in Seq(Int) /\ Len(x) = n - j
  BY EraseShape
<1>4. y \in Seq(Int) /\ Len(y) = n - k
  BY EraseShape
<1>5. n \in Nat /\ HalfWord \in Nat /\ n < HalfWord
  BY HalfWordAssumption
<1>6. o = Greatest(0, Least(p + j, q + k) - q)
  <2>1. Wrap(p + j) = p + j /\ Wrap(q + k) = q + k /\ Signed(q) = q
    BY <1>5, WrapFits
  <2>2. Least(p + j, q + k) \in Nat /\ Least(p + j, q + k) < HalfWord
    BY <1>5 DEF Least
  <2>3. Signed(Least(p + j, q + k)) = Least(p + j, q + k)
    BY <2>2, WrapFits
  <2>4. Greatest(p, q) = q
    BY DEF Greatest
  <2> QED
    BY <1>1, <2>1, <2>3, <2>4 DEF Overlap
<1>7. transform(a, b) = transform_delete_delete(a, b)
  BY <1>1 DEF transform
<1> HIDE DEF x, y, o
<1>8. CASE o # 0
  <2> DEFINE c == [a EXCEPT !.position = Least(a.position, b.position),
                            !.length = Wrap(@ - o)]
             e == [b EXCEPT !.position = Least(a.position, b.position),
                            !.length = Wrap(@ - o)]
  <2>1. /\ o \in Nat /\ q < p + j /\ o = Least(p + j, q + k) - q
        /\ o <= j /\ o <= k /\ Least(p, q) = p
    BY <1>6, <1>8 DEF Greatest, Least
  <2>2. transform(a, b) = <<c, e>>
    BY <1>7, <1>8 DEF transform_delete_delete, o
  <2>3. Wrap(j - o) = j - o /\ Wrap(k - o) = k - o
    <3>1. /\ j - o \in Nat /\ j - o < HalfWord
          /\ k - o \in Nat /\ k - o < HalfWord
      BY <1>5, <2>1
    <3> QED
      BY <3>1, WrapFits
  <2>4. /\ c.type = "delete" /\ c.position = p /\ c.length = j - o
        /\ e.type = "delete" /\ e.position = p /\ e.length = k - o
    BY <1>1, <2>1, <2>3 DEF make_delete
  <2> HIDE DEF a, b, c, e
  <2>5. apply(x, e) = EraseText(x, p, k - o)
    <3>1. /\ e.position \in Nat /\ e.length \in Nat
          /\ e.position + e.length <= Len(x)
      BY <1>3, <1>5, <2>1, <2>4 DEF Least
    <3> QED
      BY <3>1, <2>4, <1>3, ApplyDelete
  <2>6. apply(y, c) = EraseText(y, p, j - o)
    <3>1. /\ c.position \in Nat /\ c.length \in Nat
          /\ c.position + c.length <= Len(y)
      BY <1>4, <1>5, <2>1, <2>4 DEF Least
    <3> QED
      BY <3>1, <2>4, <1>4, ApplyDelete
  <2>7. EraseText(x, p, k - o) = EraseText(y, p, j - o)
    <3>1. \A m \in Nat : q < p + j /\ m = Least(p + j, q + k) - q =>
             EraseText(EraseText(d, p, j), p, k - m)
               = EraseText(EraseText(d, q, k), p, j - m)
      BY OverlappingErasesCommute
    <3> QED
      BY <2>1, <3>1 DEF x, y
  <2>8. Diamond(d, a, b) /\ Joint(d, a, b) = EraseText(x, p, k - o)
    BY <1>2, <2>2, <2>5, <2>6, <2>7 DEF Diamond, Joint
  <2> QED
    BY <1>6, <2>1, <2>8 DEF a, b, x
<1>9. CASE o = 0
  <2> DEFINE c == IF p < q THEN MovedBy(b, -j) ELSE b
  <2>1. transform(a, b) = <<a, c>>
    BY <1>1, <1>7, <1>9 DEF transform_delete_delete, o
  <2>2. p + j <= q \/ k = 0
    BY <1>6, <1>9 DEF Greatest, Least
  <2>3. c.type = "delete" /\ c.length = k
    BY DEF MovedBy, make_delete
  <2>4. CASE k = 0
    <3>1. is_noop(b) /\ is_noop(c)
      BY <1>1, <2>3, <2>4 DEF is_noop
    <3>2. apply(d, b) = d /\ apply(apply(d, a), c) = apply(d, a)
      BY <3>1, ApplyNoop
    <3> HIDE DEF a, b, c
    <3>3. Diamond(d, a, b) /\ Joint(d, a, b) = x
      BY <1>2, <2>1, <3>2 DEF Diamond, Joint
    <3>4. ASSUME NEW i \in Nat, i <= Len(x) PROVE EraseText(x, i, 0) = x
      <4>1. /\ EraseText(x, i, 0) \in Seq(Int) /\ Len(EraseText(x, i, 0)) = Len(x) - 0
            /\ Removed(EraseText(x, i, 0), x, Len(x), i, 0)
        BY ONLY <1>3, <3>4, EraseShape
      <4>2. \A l \in 1 .. Len(x) : EraseText(x, i, 0)[l] = x[l]
        BY ONLY <1>3, <4>1 DEF Removed
      <4> QED
        BY ONLY <1>3, <4>1, <4>2, SeqExtensional
    <3>5. /\ k - o = 0 /\ (IF q < p + j THEN p ELSE q - j) \in Nat
          /\ (IF q < p + j THEN p ELSE q - j) <= Len(x)
      BY <1>3, <1>9, <2>4
    <3> QED
      BY <1>6, <3>3, <3>4, <3>5 DEF a, b, x
  <2>5. CASE p + j <= q
    <3>1. c.position = q - j
      <4>1. q - j \in Nat /\ q - j < HalfWord /\ q + (-j) = q - j
        BY <1>5, <2>5
      <4>2. Wrap(q - j) = q - j
        BY <4>1, WrapFits
      <4>3. CASE p < q
        BY <4>1, <4>2, <4>3 DEF MovedBy, make_delete
      <4>4. CASE ~ (p < q)
        BY <2>5, <4>4, <1>1
      <4> QED
        BY <4>3, <4>4
    <3> HIDE DEF a, b, c
    <3>2. apply(x, c) = EraseText(x, q - j, k)
      <4>1. /\ c.position \in Nat /\ c.length \in Nat
            /\ c.position + c.length <= Len(x)
        BY <1>3, <1>5, <2>3, <2>5, <3>1
      <4> QED
        BY <4>1, <2>3, <3>1, <1>3, ApplyDelete
    <3>3. apply(y, a) = EraseText(y, p, j)
      <4>1. /\ a.position \in Nat /\ a.length \in Nat
            /\ a.position + a.length <= Len(y)
        BY <1>1, <1>4, <1>5, <2>5
      <4> QED
        BY <4>1, <1>1, <1>4, ApplyDelete
    <3>4. EraseText(x, q - j, k) = EraseText(y, p, j)
      BY <2>5, DisjointErasesCommute DEF x, y
    <3>5. Diamond(d, a, b) /\ Joint(d, a, b) = EraseText(x, q - j, k)
      BY <1>2, <2>1, <3>2, <3>3, <3>4 DEF Diamond, Joint
    <3>6. k - o = k /\ ~ (q < p + j)
      BY <1>9, <2>5
    <3> QED
      BY <1>6, <3>5, <3>6 DEF a, b, x
  <2> QED
    BY <2>2, <2>4, <2>5
<1> QED
  BY <1>8, <1>9

-----------------------------------------------------------------------------
(* Any two operations of OpsOn. *)

\* What transform needs of an operation.
IsOp(a) == /\ a.type \in {"insert", "delete"}
           /\ a.position \in Nat /\ a.length \in Nat /\ a.userId \in Nat

\* transform treats its arguments alike: swapping them swaps the results.
LEMMA TransformSwaps ==
    ASSUME NEW a, NEW b, IsOp(a), IsOp(b)
    PROVE  transform(b, a)[2] = transform(a, b)[1]
<1>1. CASE a.type = "insert" /\ b.type = "insert"
  BY <1>1 DEF IsOp, transform, transform_insert_insert
<1>2. CASE a.type = "insert" /\ b.type = "delete"
  BY <1>2 DEF transform
<1>3. CASE a.type = "delete" /\ b.type = "insert"
  BY <1>3 DEF transform
<1>4. CASE a.type = "delete" /\ b.type = "delete"
  <2>1. Least(b.position, a.position) = Least(a.position, b.position)
    BY DEF IsOp, Least
  <2>2. Overlap(b, a) = Overlap(a, b)
    <3> DEFINE m == Wrap(a.position + a.length)
               n == Wrap(b.position + b.length)
    <3>1. m \in Int /\ n \in Int
      BY HalfWordAssumption DEF IsOp, Wrap, WordSize
    <3> HIDE DEF m, n
    <3>2. Least(n, m) = Least(m, n)
      BY <3>1 DEF Least
    <3>3. Greatest(b.position, a.position) = Greatest(a.position, b.position)
      BY DEF IsOp, Greatest
    <3> QED
      BY <3>2, <3>3 DEF Overlap, m, n
  <2> QED
    BY <1>4, <2>1, <2>2 DEF IsOp, transform, transform_delete_delete
<1> QED
  BY <1>1, <1>2, <1>3, <1>4 DEF IsOp

LEMMA DiamondSwaps ==
    ASSUME NEW d, NEW a, NEW b, IsOp(a), IsOp(b), Diamond(d, b, a)
    PROVE  Diamond(d, a, b)
  BY TransformSwaps DEF Diamond

LEMMA OpsOnCases ==
    ASSUME NEW d, d \in Texts, NEW u \in Nat, NEW a, a \in OpsOn(d, u)
    PROVE  /\ IsOp(a)
           /\ \/ \E p \in Nat, t \in Texts : /\ p <= Len(d)
                                             /\ a = make_insert(p, t, u, 0)
              \/ \E q \in Nat, k \in Nat : /\ q + k <= Len(d)
                                           /\ a = make_delete(q, k, u, 0)
<1>1. d \in Seq(Int) /\ Len(d) \in Nat
  BY TextsAssumption
<1>2. CASE \E p \in 0 .. Len(d), t \in Texts : a = make_insert(p, t, u, 0)
  <2>1. PICK p \in 0 .. Len(d), t \in Texts : a = make_insert(p, t, u, 0)
    BY <1>2
  <2>2. p \in Nat /\ p <= Len(d)
    BY <1>1, <2>1
  <2>3. Len(t) \in Nat
    BY TextsAssumption
  <2> QED
    BY <2>1, <2>2, <2>3 DEF IsOp, make_insert
<1>3. CASE \E q \in {r \in (0 .. Len(d)) \X (0 .. Len(d)) : r[1] <= r[2]} :
              a = make_delete(q[1], q[2] - q[1], u, 0)
  <2>1. PICK q \in {r \in (0 .. Len(d)) \X (0 .. Len(d)) : r[1] <= r[2]} :
              a = make_delete(q[1], q[2] - q[1], u, 0)
    BY <1>3
  <2>2. /\ q[1] \in Nat /\ q[2] - q[1] \in Nat
        /\ q[1] + (q[2] - q[1]) <= Len(d)
    BY <1>1, <2>1
  <2> QED
    BY <2>1, <2>2 DEF IsOp, make_delete
<1> QED
  BY <1>2, <1>3 DEF OpsOn

LEMMA DiamondHolds ==
    ASSUME NEW d, d \in Texts, NEW a, a \in OpsOn(d, 1), NEW b, b \in OpsOn(d, 2)
    PROVE  Diamond(d, a, b)
<1>1. /\ d \in Seq(Int) /\ Len(d) \in Nat /\ Len(d) < HalfWord
      /\ \A t \in Texts : t \in Seq(Int) /\ Len(d) + Len(t) < HalfWord
  BY TextsAssumption, HalfWordAssumption
<1>2. IsOp(a) /\ IsOp(b)
  BY OpsOnCases
<1>3. \/ \E p \in Nat, t \in Texts : p <= Len(d) /\ a = make_insert(p, t, 1, 0)
      \/ \E q \in Nat, k \in Nat : q + k <= Len(d) /\ a = make_delete(q, k, 1, 0)
  BY OpsOnCases
<1>4. \/ \E p \in Nat, t \in Texts : p <= Len(d) /\ b = make_insert(p, t, 2, 0)
      \/ \E q \in Nat, k \in Nat : q + k <= Len(d) /\ b = make_delete(q, k, 2, 0)
  BY OpsOnCases
<1>5. ASSUME NEW p \in Nat, NEW s \in Texts, p <= Len(d),
             a = make_insert(p, s, 1, 0)
      PROVE  Diamond(d, a, b)
  <2>1. ASSUME NEW q \in Nat, NEW t \in Texts, q <= Len(d),
               b = make_insert(q, t, 2, 0)
        PROVE  Diamond(d, a, b)
    BY <1>1, <1>5, <2>1, InsertInsertDiamond
  <2>2. ASSUME NEW q \in Nat, NEW k \in Nat, q + k <= Len(d),
               b = make_delete(q, k, 2, 0)
        PROVE  Diamond(d, a, b)
    BY <1>1, <1>5, <2>2, InsertDeleteDiamond
  <2> QED
    BY <1>4, <2>1, <2>2
<1>6. ASSUME NEW p \in Nat, NEW j \in Nat, p + j <= Len(d),
             a = make_delete(p, j, 1, 0)
      PROVE  Diamond(d, a, b)
  <2>1. ASSUME NEW q \in Nat, NEW t \in Texts, q <= Len(d),
               b = make_insert(q, t, 2, 0)
        PROVE  Diamond(d, a, b)
    <3>1. Diamond(d, b, a)
      BY <1>1, <1>6, <2>1, InsertDeleteDiamond
    <3> QED
      BY <1>2, <3>1, DiamondSwaps
  <2>2. ASSUME NEW q \in Nat, NEW k \in Nat, q + k <= Len(d),
               b = make_delete(q, k, 2, 0)
        PROVE  Diamond(d, a, b)
    <3>1. CASE p <= q
      BY <1>1, <1>6, <2>2, <3>1, DeleteDeleteDiamond
    <3>2. CASE q <= p
      <4>1. Diamond(d, b, a)
        BY <1>1, <1>6, <2>2, <3>2, DeleteDeleteDiamond
      <4> QED
        BY <1>2, <4>1, DiamondSwaps
    <3> QED
      BY <3>1, <3>2
  <2> QED
    BY <1>4, <2>1, <2>2
<1> QED
  BY <1>3, <1>5, <1>6

-----------------------------------------------------------------------------
(* The reference merge.  FlattenSeq is a recursive function; that a text cut *)
(* into pieces is what it gives for the pieces is an induction over their    *)
(* number, in the form of the least counterexample of a set of numbers.      *)

\* The elements of s are those of t behind the first m.
Matches(t, m, s) == \A k \in 1 .. Len(s) : t[m + k] = s[k]

\* The n sequences of seqs are the pieces of t between the cuts ends[0], ...,
\* ends[n].
Tiles(seqs, n, t, ends) ==
    /\ ends[0] = 0 /\ ends[n] = Len(t)
    /\ \A i \in 0 .. n : ends[i] \in 0 .. Len(t)
    /\ \A i \in 1 .. n : /\ ends[i] = ends[i - 1] + Len(seqs[i])
                         /\ Matches(t, ends[i - 1], seqs[i])

\* What is before a cut and the next piece is what is before the next cut.
LEMMA NextPrefix ==
    ASSUME NEW t, t \in Seq(Int), NEW m \in Nat, NEW s, s \in Seq(Int), m + Len(s) <= Len(t),
           Matches(t, m, s)
    PROVE  SubSeq(t, 1, m) \o s = SubSeq(t, 1, m + Len(s))
<1> DEFINE x == SubSeq(t, 1, m)
           y == SubSeq(t, 1, m + Len(s))
           z == x \o s
<1>1. IsSeq(t) /\ IsSeq(s) /\ Len(s) \in Nat /\ Len(t) \in Nat
  BY DEF IsSeq
<1>2. x \in Seq(Int) /\ Len(x) = m /\ \A i \in 1 .. m : x[i] = t[i]
  OBVIOUS
<1>3. /\ y \in Seq(Int) /\ Len(y) = m + Len(s)
      /\ \A i \in 1 .. m + Len(s) : y[i] = t[i]
  OBVIOUS
<1> HIDE DEF x, y
<1>4. /\ z \in Seq(Int) /\ Len(z) = m + Len(s)
      /\ \A i \in 1 .. m : z[i] = x[i]
      /\ \A i \in 1 .. Len(s) : z[m + i] = s[i]
  <2>1. z \in Seq(Int)
    BY <1>2
  <2>2. IsSeq(x)
    BY <1>2 DEF IsSeq
  <2>3. /\ Len(z) = Len(x) + Len(s)
        /\ \A i \in 1 .. Len(x) : z[i] = x[i]
        /\ \A i \in 1 .. Len(s) : z[Len(x) + i] = s[i]
    BY <1>1, <2>2, ConcatShape
  <2> HIDE DEF z
  <2> QED
    BY <1>2, <2>1, <2>3
<1> HIDE DEF z
<1>5. ASSUME NEW i \in 1 .. m + Len(s) PROVE z[i] = y[i]
  <2>1. CASE i <= m
    <3>1. i \in 1 .. m
      BY <2>1
    <3> QED
      BY <1>2, <1>3, <1>4, <3>1
  <2>2. CASE i > m
    <3>1. i - m \in 1 .. Len(s) /\ m + (i - m) = i
      BY <1>1, <2>2
    <3>2. z[m + (i - m)] = s[i - m] /\ t[m + (i - m)] = s[i - m]
      BY <1>4, <3>1 DEF Matches
    <3> QED
      BY <1>3, <3>1, <3>2
  <2> QED
    BY <1>1, <2>1, <2>2
<1> QED
  BY <1>3, <1>4, <1>5, SeqExtensional DEF x, y, z

\* The pieces of t, put together, are t.
LEMMA FlattenTiles ==
    ASSUME NEW n \in Nat, n > 0, NEW seqs, seqs \in [1 .. n -> Seq(Int)],
           NEW t, t \in Seq(Int), NEW ends, Tiles(seqs, n, t, ends)
    PROVE  FlattenSeq(seqs) = t
<1> DEFINE P(f) == f = [i \in 1 .. Len(seqs) |-> IF i = 1 THEN seqs[i] ELSE f[i - 1] \o seqs[i]]
           flat == CHOOSE f : P(f)
           g == [i \in 1 .. n |-> SubSeq(t, 1, ends[i])]
           S == {m \in Nat : m \in 1 .. n => flat[m] = SubSeq(t, 1, ends[m])}
<1>1. Len(seqs) = n
  OBVIOUS
<1>2. FlattenSeq(seqs) = flat[n]
  BY <1>1 DEF FlattenSeq
<1>3. SubSeq(t, 1, ends[1]) = seqs[1]
  <2>1. /\ seqs[1] \in Seq(Int) /\ ends[1] = Len(seqs[1]) /\ ends[1] \in 0 .. Len(t)
        /\ Matches(t, 0, seqs[1])
    BY DEF Tiles
  <2>2. \A k \in 1 .. Len(seqs[1]) : t[k] = seqs[1][k]
    BY <2>1 DEF Matches
  <2> QED
    BY <2>1, <2>2
<1>4. \A i \in 2 .. n : SubSeq(t, 1, ends[i]) = SubSeq(t, 1, ends[i - 1]) \o seqs[i]
  <2> SUFFICES ASSUME NEW i \in 2 .. n
               PROVE  SubSeq(t, 1, ends[i]) = SubSeq(t, 1, ends[i - 1]) \o seqs[i]
    OBVIOUS
  <2>1. /\ seqs[i] \in Seq(Int) /\ ends[i - 1] \in Nat /\ ends[i] = ends[i - 1] + Len(seqs[i])
        /\ ends[i] <= Len(t) /\ Matches(t, ends[i - 1], seqs[i])
    BY DEF Tiles
  <2>2. PICK m, s : m = ends[i - 1] /\ s = seqs[i]
    OBVIOUS
  <2>3. SubSeq(t, 1, m) \o s = SubSeq(t, 1, m + Len(s))
    BY <2>1, <2>2, NextPrefix
  <2> QED
    BY <2>1, <2>2, <2>3
<1>5. P(g)
  <2>1. \A i \in 1 .. n : g[i] = IF i = 1 THEN seqs[i] ELSE g[i - 1] \o seqs[i]
    <3> SUFFICES ASSUME NEW i \in 1 .. n
                 PROVE  g[i] = IF i = 1 THEN seqs[i] ELSE g[i - 1] \o seqs[i]
      OBVIOUS
    <3>1. CASE i = 1
      BY <1>3, <3>1
    <3>2. CASE i # 1
      <4>1. i \in 2 .. n /\ i - 1 \in 1 .. n
        BY <3>2
      <4>2. g[i] = SubSeq(t, 1, ends[i]) /\ g[i - 1] = SubSeq(t, 1, ends[i - 1])
        BY <4>1
      <4> HIDE DEF g
      <4> QED
        BY <1>4, <3>2, <4>1, <4>2
    <3> QED
      BY <3>1, <3>2
  <2> QED
    BY <1>1, <2>1
<1>6. P(flat)
  <2>1. \E f : P(f)
    BY <1>5
  <2> QED
    BY <2>1, Zenon
<1>7. /\ flat[1] = seqs[1]
      /\ \A i \in 2 .. n : flat[i] = flat[i - 1] \o seqs[i]
  <2> HIDE DEF flat
  <2>1. \A i \in 1 .. n : flat[i] = IF i = 1 THEN seqs[i] ELSE flat[i - 1] \o seqs[i]
    BY <1>1, <1>6
  <2>2. 1 \in 1 .. n /\ \A i \in 2 .. n : i \in 1 .. n /\ i # 1
    OBVIOUS
  <2> QED
    BY <2>1, <2>2
<1> HIDE DEF flat
<1>8. 0 \in S
  OBVIOUS
<1>9. ASSUME NEW m \in Nat, m \in S PROVE m + 1 \in S
  <2>1. CASE m = 0
    BY <1>3, <1>7, <2>1
  <2>2. CASE m > 0 /\ m + 1 <= n
    <3>1. m + 1 \in 2 .. n /\ (m + 1) - 1 = m /\ m \in 1 .. n
      BY <2>2
    <3>2. flat[m] = SubSeq(t, 1, ends[m])
      BY <1>9, <3>1
    <3>3. /\ flat[m + 1] = flat[m] \o seqs[m + 1]
          /\ SubSeq(t, 1, ends[m + 1]) = SubSeq(t, 1, ends[m]) \o seqs[m + 1]
      BY <1>4, <1>7, <3>1
    <3>4. flat[m + 1] = SubSeq(t, 1, ends[m + 1])
      BY <3>2, <3>3
    <3> QED
      BY <3>4
  <2>3. CASE m + 1 > n
    BY <2>3
  <2> QED
    BY <2>1, <2>2, <2>3
<1> HIDE DEF S
<1>10. n \in S
  BY <1>8, <1>9, SetInduction
<1>11. flat[n] = SubSeq(t, 1, Len(t))
  BY <1>10 DEF S, Tiles
<1> QED
  BY <1>2, <1>11

\* Two pieces one behind the other are one piece.
LEMMA MatchesBoth ==
    ASSUME NEW t, NEW m \in Nat, NEW x, x \in Seq(Int), NEW y, y \in Seq(Int),
           Matches(t, m, x), Matches(t, m + Len(x), y)
    PROVE  x \o y \in Seq(Int) /\ Len(x \o y) = Len(x) + Len(y) /\ Matches(t, m, x \o y)
<1> DEFINE z == x \o y
<1>1. IsSeq(x) /\ IsSeq(y) /\ z \in Seq(Int) /\ Len(x) \in Nat /\ Len(y) \in Nat
  BY DEF IsSeq
<1>2. /\ Len(z) = Len(x) + Len(y)
      /\ \A i \in 1 .. Len(x) : z[i] = x[i]
      /\ \A i \in 1 .. Len(y) : z[Len(x) + i] = y[i]
  BY <1>1, ConcatShape
<1> HIDE DEF z
<1>3. ASSUME NEW k \in 1 .. Len(x) + Len(y) PROVE t[m + k] = z[k]
  <2>1. CASE k <= Len(x)
    <3>1. k \in 1 .. Len(x)
      BY <1>1, <2>1
    <3> QED
      BY <1>2, <3>1 DEF Matches
  <2>2. CASE k > Len(x)
    <3>1. PICK l \in 1 .. Len(y) : k = Len(x) + l
      <4>1. k - Len(x) \in 1 .. Len(y) /\ k = Len(x) + (k - Len(x))
        BY <1>1, <2>2
      <4> QED
        BY <4>1
    <3>2. t[m + Len(x) + l] = y[l] /\ m + Len(x) + l = m + k
      BY <1>1, <3>1 DEF Matches
    <3> QED
      BY <1>2, <3>1, <3>2
  <2> QED
    BY <1>1, <2>1, <2>2
<1>4. Matches(t, m, z)
  BY <1>2, <1>3 DEF Matches
<1> QED
  BY <1>1, <1>2, <1>4 DEF z

-----------------------------------------------------------------------------
(* The reference merge, gap by gap. *)

\* What the merge keeps of the element behind a gap.
Kept(d, a, b, gap) ==
    IF gap = Len(d) \/ gap + 1 \in Erased(a) \cup Erased(b) THEN << >> ELSE <<d[gap + 1]>>

\* t is cut into the pieces of the merge: ends[gap] elements come before gap.
Cuts(t, d, a, b, ends) ==
    /\ ends[0] = 0 /\ ends[Len(d) + 1] = Len(t)
    /\ \A gap \in 0 .. Len(d) + 1 : ends[gap] \in 0 .. Len(t)
    /\ \A gap \in 0 .. Len(d) :
          LET x == TextAt(a, b, gap)
              y == TextAt(b, a, gap)
              z == Kept(d, a, b, gap)
          IN  /\ ends[gap + 1] = ends[gap] + Len(x) + Len(y) + Len(z)
              /\ Matches(t, ends[gap], x) /\ Matches(t, ends[gap] + Len(x), y)
              /\ Matches(t, ends[gap] + Len(x) + Len(y), z)

\* A text that can be cut into the pieces of the merge is the merge.
LEMMA MergedIs ==
    ASSUME NEW d, d \in Seq(Int), NEW a, NEW b,
           a.type = "insert" => a.text \in Seq(Int), b.type = "insert" => b.text \in Seq(Int),
           NEW t, t \in Seq(Int), NEW ends, Cuts(t, d, a, b, ends)
    PROVE  Merged(d, a, b) = t
<1> DEFINE n == Len(d) + 1
           seqs == [i \in 1 .. n |->
                      TextAt(a, b, i - 1) \o TextAt(b, a, i - 1) \o Kept(d, a, b, i - 1)]
<1>1. Len(d) \in Nat /\ n \in Nat /\ n > 0
  OBVIOUS
<1>2. Merged(d, a, b) = FlattenSeq(seqs)
  BY DEF Merged, Kept
<1>3. ASSUME NEW i \in 1 .. n
      PROVE  /\ seqs[i] \in Seq(Int) /\ ends[i] = ends[i - 1] + Len(seqs[i])
             /\ Matches(t, ends[i - 1], seqs[i])
  <2> DEFINE g == i - 1
             x == TextAt(a, b, g)
             y == TextAt(b, a, g)
             z == Kept(d, a, b, g)
             m == ends[g]
  <2>1. g \in 0 .. Len(d) /\ g + 1 = i /\ g \in 0 .. Len(d) + 1
    BY <1>1
  <2>2. seqs[i] = x \o y \o z
    OBVIOUS
  <2>3. x \in Seq(Int) /\ y \in Seq(Int)
    BY DEF TextAt
  <2>4. z \in Seq(Int)
    BY <1>1, <2>1 DEF Kept
  <2>5. /\ m \in Nat /\ ends[g + 1] = m + Len(x) + Len(y) + Len(z)
        /\ Matches(t, m, x) /\ Matches(t, m + Len(x), y)
        /\ Matches(t, m + Len(x) + Len(y), z)
    BY <2>1 DEF Cuts
  <2> HIDE DEF seqs, x, y, z, m, g
  <2>6. PICK v : v = x \o y
    OBVIOUS
  <2>7. v \in Seq(Int) /\ Len(v) = Len(x) + Len(y) /\ Matches(t, m, v)
    BY <2>3, <2>5, <2>6, MatchesBoth
  <2>8. Len(x) \in Nat /\ Len(y) \in Nat /\ Len(z) \in Nat
    BY <2>3, <2>4
  <2>9. m + Len(v) = m + Len(x) + Len(y)
    BY <2>5, <2>7, <2>8
  <2>10. v \o z \in Seq(Int) /\ Len(v \o z) = Len(v) + Len(z) /\ Matches(t, m, v \o z)
    BY <2>4, <2>5, <2>7, <2>9, MatchesBoth
  <2>11. seqs[i] = v \o z
    BY <2>2, <2>6
  <2>12. ends[i] = m + Len(seqs[i])
    <3>1. ends[i] = ends[g + 1] /\ Len(seqs[i]) = Len(v) + Len(z)
      BY <2>1, <2>10, <2>11
    <3>2. m + (Len(v) + Len(z)) = m + Len(x) + Len(y) + Len(z)
      BY <2>5, <2>7, <2>8
    <3> QED
      BY <2>5, <3>1, <3>2
  <2> QED
    BY <2>10, <2>11, <2>12 DEF m, g
<1>4. seqs \in [1 .. n -> Seq(Int)]
  BY <1>3
<1>5. Tiles(seqs, n, t, ends)
  <2> HIDE DEF seqs
  <2> QED
    BY <1>3 DEF Tiles, Cuts
<1> HIDE DEF seqs, n
<1> QED
  BY <1>1, <1>2, <1>4, <1>5, FlattenTiles

\* Unless both insert, nothing depends on which of the two is given first.
LEMMA MergedSwaps ==
    ASSUME NEW d, NEW a, NEW b, a.type # "insert" \/ b.type # "insert",
           \A o \in {a, b} : o.type = "insert" => o.text \in Seq(Int)
    PROVE  Merged(d, a, b) = Merged(d, b, a)
<1>1. ASSUME NEW gap
      PROVE  TextAt(a, b, gap) \o TextAt(b, a, gap) = TextAt(b, a, gap) \o TextAt(a, b, gap)
  <2>1. \A s \in Seq(Int) : s \o << >> = s /\ << >> \o s = s
    OBVIOUS
  <2>2. /\ TextAt(a, b, gap) \in Seq(Int) /\ TextAt(b, a, gap) \in Seq(Int)
        /\ TextAt(a, b, gap) = << >> \/ TextAt(b, a, gap) = << >>
    BY DEF TextAt
  <2> QED
    BY <2>1, <2>2
<1>2. Erased(a) \cup Erased(b) = Erased(b) \cup Erased(a)
  OBVIOUS
<1> QED
  BY <1>1, <1>2 DEF Merged

\* A piece of no element, and one of one element.
LEMMA NoMatch == ASSUME NEW t, NEW m PROVE Matches(t, m, << >>) /\ Len(<< >>) = 0
  BY DEF Matches

LEMMA MatchesOne ==
    ASSUME NEW t, NEW m \in Nat, NEW e, t[m + 1] = e
    PROVE  Matches(t, m, <<e>>) /\ Len(<<e>>) = 1
  BY DEF Matches

\* Two insertions; at the same place the first one comes first.
LEMMA InsertInsertMerge ==
    ASSUME NEW d, d \in Seq(Int), NEW s, s \in Seq(Int), NEW t, t \in Seq(Int),
           NEW p \in Nat, NEW q \in Nat, p <= Len(d), q <= Len(d), NEW u, NEW v
    PROVE  Merged(d, make_insert(p, s, u, 0), make_insert(q, t, v, 0))
             = InsertText(InsertText(d, p, s), IF p <= q THEN q + Len(s) ELSE q, t)
<1>1. PICK a, b : a = make_insert(p, s, u, 0) /\ b = make_insert(q, t, v, 0)
  OBVIOUS
<1>2. PICK n, j, k : n = Len(d) /\ j = Len(s) /\ k = Len(t)
  OBVIOUS
<1>3. PICK x : x = InsertText(d, p, s)
  OBVIOUS
<1>4. PICK q2 : q2 = IF p <= q THEN q + j ELSE q
  OBVIOUS
<1>5. PICK r : r = InsertText(x, q2, t)
  OBVIOUS
<1>6. PICK ends : ends = [g \in 0 .. n + 1 |-> (IF g <= n THEN g ELSE n)
                            + (IF p < g THEN j ELSE 0) + (IF q < g THEN k ELSE 0)]
  OBVIOUS
<1>7. n \in Nat /\ j \in Nat /\ k \in Nat /\ p <= n /\ q <= n /\ q2 \in Nat /\ q2 <= n + j
  BY <1>2, <1>4
<1>8. x \in Seq(Int) /\ Len(x) = n + j /\ Inserted(x, d, n, p, s, j)
  BY <1>2, <1>3, InsertShape
<1>9. r \in Seq(Int) /\ Len(r) = n + j + k /\ Inserted(r, x, n + j, q2, t, k)
  <2>1. q2 <= Len(x)
    BY <1>7, <1>8
  <2>2. /\ InsertText(x, q2, t) \in Seq(Int) /\ Len(InsertText(x, q2, t)) = Len(x) + Len(t)
        /\ Inserted(InsertText(x, q2, t), x, Len(x), q2, t, Len(t))
    BY ONLY <1>7, <1>8, <2>1, t \in Seq(Int), InsertShape
  <2> QED
    BY ONLY <1>2, <1>5, <1>8, <2>2
<1>10. /\ a.type = "insert" /\ a.position = p /\ a.text = s
       /\ b.type = "insert" /\ b.position = q /\ b.text = t
  BY <1>1 DEF make_insert
<1>11. Cuts(r, d, a, b, ends)
  <2>0. /\ n \in Nat /\ j \in Nat /\ k \in Nat /\ p \in Nat /\ q \in Nat /\ p <= n /\ q <= n
        /\ q2 \in Nat /\ q2 = (IF p <= q THEN q + j ELSE q)
    BY <1>4, <1>7
  <2>1. Erased(a) = {} /\ Erased(b) = {}
    BY <1>10 DEF Erased
  <2>2. /\ \A g \in 0 .. n + 1 : /\ ends[g] = (IF g <= n THEN g ELSE n)
                                     + (IF p < g THEN j ELSE 0) + (IF q < g THEN k ELSE 0)
                                  /\ ends[g] \in 0 .. n + j + k
        /\ ends[0] = 0 /\ ends[n + 1] = n + j + k
    <3>1. \A g \in 0 .. n + 1 : ends[g] = (IF g <= n THEN g ELSE n)
                                     + (IF p < g THEN j ELSE 0) + (IF q < g THEN k ELSE 0)
      BY <1>6
    <3>2. 0 \in 0 .. n + 1 /\ n + 1 \in 0 .. n + 1
      BY ONLY <2>0
    <3> QED
      BY ONLY <2>0, <3>1, <3>2
  <2>3. ASSUME NEW g \in 0 .. n, NEW y, y = TextAt(a, b, g), NEW z, z = TextAt(b, a, g),
               NEW w, w = Kept(d, a, b, g), NEW m, m = ends[g]
        PROVE  /\ ends[g + 1] = m + Len(y) + Len(z) + Len(w)
               /\ Matches(r, m, y) /\ Matches(r, m + Len(y), z)
               /\ Matches(r, m + Len(y) + Len(z), w)
    <3>1. /\ y = IF g = p THEN s ELSE << >>
          /\ z = IF g = q THEN t ELSE << >>
      BY ONLY <1>10, <2>1, <2>3 DEF TextAt
    <3>2. w = IF g = n THEN << >> ELSE <<d[g + 1]>>
      BY ONLY <1>2, <2>1, <2>3 DEF Kept
    <3>3. /\ Len(y) = (IF g = p THEN j ELSE 0) /\ Len(z) = (IF g = q THEN k ELSE 0)
          /\ Len(w) = (IF g = n THEN 0 ELSE 1)
      BY <1>2, <3>1, <3>2
    <3>4. /\ m = g + (IF p < g THEN j ELSE 0) + (IF q < g THEN k ELSE 0)
          /\ m \in Nat /\ g \in Nat /\ g <= n
      <4>1. g \in 0 .. n + 1
        BY ONLY <2>0, <2>3
      <4> QED
        BY ONLY <2>0, <2>2, <2>3, <4>1
    <3>5. ends[g + 1] = (IF g < n THEN g + 1 ELSE n) + (IF p <= g THEN j ELSE 0)
                          + (IF q <= g THEN k ELSE 0)
      <4>1. /\ g + 1 \in 0 .. n + 1 /\ (g + 1 <= n <=> g < n) /\ (p < g + 1 <=> p <= g)
            /\ (q < g + 1 <=> q <= g)
        BY ONLY <2>0, <3>4
      <4> QED
        BY ONLY <2>2, <4>1
    <3>6. ends[g + 1] = m + Len(y) + Len(z) + Len(w)
      BY ONLY <2>0, <3>3, <3>4, <3>5
    <3>7. Matches(r, m, y)
      <4>1. CASE g # p
        BY <3>1, <4>1, NoMatch
      <4>2. CASE g = p
        <5>1. \A i \in 1 .. j : r[m + i] = s[i]
          <6>1. \A i \in 1 .. j : p + i \in 1 .. n + j /\ x[p + i] = s[i]
            BY ONLY <2>0, <1>8 DEF Inserted
          <6>2. CASE p <= q
            <7>1. m = p /\ q2 = q + j
              BY ONLY <2>0, <3>4, <4>2, <6>2
            <7>2. \A i \in 1 .. j : r[p + i] = x[p + i]
              BY ONLY <2>0, <6>2, <7>1, <1>9 DEF Inserted
            <7> QED
              BY <6>1, <7>1, <7>2
          <6>3. CASE p > q
            <7>1. m = p + k /\ q2 = q
              BY ONLY <2>0, <3>4, <4>2, <6>3
            <7>2. \A i \in 1 .. j : r[p + k + i] = x[p + i]
              BY ONLY <2>0, <6>3, <7>1, <1>9 DEF Inserted
            <7> QED
              BY <6>1, <7>1, <7>2
          <6> QED
            BY ONLY <2>0, <6>2, <6>3
        <5> QED
          BY ONLY <1>2, <3>1, <4>2, <5>1 DEF Matches
      <4> QED
        BY <4>1, <4>2
    <3>8. Matches(r, m + Len(y), z)
      <4>1. CASE g # q
        BY <3>1, <4>1, NoMatch
      <4>2. CASE g = q
        <5>1. m + Len(y) = q2
          BY ONLY <2>0, <3>3, <3>4, <4>2
        <5>2. \A i \in 1 .. k : r[q2 + i] = t[i]
          BY ONLY <2>0, <1>9 DEF Inserted
        <5> QED
          BY ONLY <1>2, <3>1, <4>2, <5>1, <5>2 DEF Matches
      <4> QED
        BY <4>1, <4>2
    <3>9. Matches(r, m + Len(y) + Len(z), w)
      <4>1. CASE g = n
        BY <3>2, <4>1, NoMatch
      <4>2. CASE g # n
        <5>1. PICK l \in Nat : l = m + Len(y) + Len(z)
          BY ONLY <2>0, <3>3, <3>4
        <5>2. PICK h \in Nat : h = g + (IF p <= g THEN j ELSE 0)
          BY ONLY <2>0, <3>4
        <5>3. l = h + (IF q <= g THEN k ELSE 0)
          BY ONLY <2>0, <3>3, <3>4, <5>1, <5>2
        <5>4. x[h + 1] = d[g + 1]
          BY ONLY <2>0, <3>4, <4>2, <5>2, <1>8 DEF Inserted
        <5>5. r[l + 1] = x[h + 1]
          <6>1. CASE q <= g
            <7>1. l = h + k /\ h >= q2 /\ h < n + j
              BY ONLY <2>0, <3>4, <4>2, <5>2, <5>3, <6>1
            <7>2. h + 1 \in q2 + 1 .. n + j /\ l + 1 = (h + 1) + k
              BY ONLY <2>0, <5>1, <5>2, <7>1
            <7>3. r[(h + 1) + k] = x[h + 1]
              BY ONLY <2>0, <7>2, <1>9 DEF Inserted
            <7> QED
              BY ONLY <7>2, <7>3
          <6>2. CASE q > g
            <7>1. l = h /\ h < q2 /\ h < n + j
              BY ONLY <2>0, <3>4, <4>2, <5>2, <5>3, <6>2
            <7> QED
              BY ONLY <2>0, <5>1, <5>2, <7>1, <1>9 DEF Inserted
          <6> QED
            BY ONLY <2>0, <3>4, <6>1, <6>2
        <5> QED
          BY <3>2, <4>2, <5>1, <5>4, <5>5, MatchesOne
      <4> QED
        BY <4>1, <4>2
    <3> QED
      BY <3>6, <3>7, <3>8, <3>9
  <2>4. \A g \in 0 .. n :
           LET y == TextAt(a, b, g)
               z == TextAt(b, a, g)
               w == Kept(d, a, b, g)
           IN  /\ ends[g + 1] = ends[g] + Len(y) + Len(z) + Len(w)
               /\ Matches(r, ends[g], y) /\ Matches(r, ends[g] + Len(y), z)
               /\ Matches(r, ends[g] + Len(y) + Len(z), w)
    BY ONLY <2>3
  <2> QED
    BY ONLY <1>2, <1>9, <2>2, <2>4 DEF Cuts
<1>12. Merged(d, a, b) = r
  BY <1>9, <1>10, <1>11, MergedIs
<1> QED
  BY <1>1, <1>2, <1>3, <1>4, <1>5, <1>12

\* How many of the k elements behind q are among the first g.
Gone(g, q, k) == IF g <= q THEN 0 ELSE IF g <= q + k THEN g - q ELSE k

\* An insertion at p and a removal behind q: what is left of the insertion, e
\* elements, and of the text, element by element.
LeftOfInsert(r, d, s, p, q, k, e) ==
    /\ e = (IF q < p /\ p < q + k THEN 0 ELSE Len(s)) /\ Len(r) = Len(d) + e - k
    /\ \A i \in 1 .. e : r[p - (IF p <= q THEN 0 ELSE k) + i] = s[i]
    /\ \A g \in 0 .. Len(d) - 1 : g < q \/ q + k <= g =>
          r[g + (IF p <= g THEN e ELSE 0) - (IF g < q THEN 0 ELSE k) + 1] = d[g + 1]

LEMMA InsertDeleteMerge ==
    ASSUME NEW d, d \in Seq(Int), NEW s, s \in Seq(Int), NEW p \in Nat, NEW q \in Nat,
           NEW k \in Nat, p <= Len(d), q + k <= Len(d), NEW u, NEW v,
           NEW r, r \in Seq(Int), NEW e \in Nat,
           LeftOfInsert(r, d, s, p, q, k, e)
    PROVE  Merged(d, make_insert(p, s, u, 0), make_delete(q, k, v, 0)) = r
<1>1. PICK a, b : a = make_insert(p, s, u, 0) /\ b = make_delete(q, k, v, 0)
  OBVIOUS
<1>2. PICK n, j : n = Len(d) /\ j = Len(s)
  OBVIOUS
<1>3. PICK ends : ends = [g \in 0 .. n + 1 |-> (IF g <= n THEN g - Gone(g, q, k) ELSE n - k)
                                                  + (IF p < g THEN e ELSE 0)]
  OBVIOUS
<1>4. /\ n \in Nat /\ j \in Nat /\ p \in Nat /\ q \in Nat /\ k \in Nat /\ e \in Nat
      /\ p <= n /\ q + k <= n /\ e = IF q < p /\ p < q + k THEN 0 ELSE j
  BY <1>2 DEF LeftOfInsert
<1>5. /\ a.type = "insert" /\ a.position = p /\ a.text = s
      /\ b.type = "delete" /\ b.position = q /\ b.length = k
  BY <1>1 DEF make_insert, make_delete
<1>6. Erased(a) = {} /\ Erased(b) = q + 1 .. q + k
  BY <1>5 DEF Erased
<1>7. /\ r \in Seq(Int) /\ Len(r) = n + e - k
      /\ \A i \in 1 .. e : r[p - (IF p <= q THEN 0 ELSE k) + i] = s[i]
      /\ \A g \in 0 .. n - 1 : g < q \/ q + k <= g =>
            r[g + (IF p <= g THEN e ELSE 0) - (IF g < q THEN 0 ELSE k) + 1] = d[g + 1]
  BY <1>2 DEF LeftOfInsert
<1>8. /\ \A g \in 0 .. n + 1 : /\ ends[g] = (IF g <= n THEN g - Gone(g, q, k) ELSE n - k)
                                               + (IF p < g THEN e ELSE 0)
                               /\ ends[g] \in 0 .. n + e - k
      /\ ends[0] = 0 /\ ends[n + 1] = n + e - k
  <2>1. \A g \in 0 .. n + 1 : ends[g] = (IF g <= n THEN g - Gone(g, q, k) ELSE n - k)
                                               + (IF p < g THEN e ELSE 0)
    BY ONLY <1>3
  <2>2. 0 \in 0 .. n + 1 /\ n + 1 \in 0 .. n + 1
    BY ONLY <1>4
  <2> QED
    BY ONLY <1>4, <2>1, <2>2 DEF Gone
<1>9. ASSUME NEW g \in 0 .. n, NEW y, y = TextAt(a, b, g), NEW z, z = TextAt(b, a, g),
             NEW w, w = Kept(d, a, b, g), NEW m, m = ends[g]
      PROVE  /\ ends[g + 1] = m + Len(y) + Len(z) + Len(w)
             /\ Matches(r, m, y) /\ Matches(r, m + Len(y), z)
             /\ Matches(r, m + Len(y) + Len(z), w)
  <2>1. z = << >> /\ Len(z) = 0
    BY ONLY <1>5, <1>9 DEF TextAt
  <2>2. g \in Nat /\ g <= n /\ g + 1 \in 0 .. n + 1 /\ g \in 0 .. n + 1
    BY ONLY <1>4, <1>9
  <2>3. y = IF g = p /\ ~ (q < p /\ p < q + k) THEN s ELSE << >>
    <3>1. {g, g + 1} \subseteq q + 1 .. q + k <=> q < g /\ g < q + k
      BY ONLY <1>4, <2>2
    <3> QED
      BY ONLY <1>5, <1>6, <1>9, <3>1 DEF TextAt
  <2>4. w = IF g < n /\ (g < q \/ q + k <= g) THEN <<d[g + 1]>> ELSE << >>
    <3>1. g + 1 \in {} \cup (q + 1 .. q + k) <=> ~ (g < q \/ q + k <= g)
      BY ONLY <1>4, <2>2
    <3>2. g = n <=> ~ (g < n)
      BY ONLY <1>4, <2>2
    <3> QED
      BY ONLY <1>2, <1>6, <1>9, <3>1, <3>2 DEF Kept
  <2>5. /\ Len(y) = (IF g = p THEN e ELSE 0)
        /\ Len(w) = (IF g < n /\ (g < q \/ q + k <= g) THEN 1 ELSE 0)
    <3>1. Len(y) = (IF g = p THEN e ELSE 0)
      BY ONLY <1>2, <1>4, <2>3
    <3> QED
      BY ONLY <2>4, <3>1
  <2>6. m = g - Gone(g, q, k) + (IF p < g THEN e ELSE 0) /\ m \in Nat
    BY ONLY <1>4, <1>8, <1>9, <2>2
  <2>7. ends[g + 1] = (IF g < n THEN (g + 1) - Gone(g + 1, q, k) ELSE n - k)
                        + (IF p <= g THEN e ELSE 0)
    <3>1. (g + 1 <= n <=> g < n) /\ (p < g + 1 <=> p <= g)
      BY ONLY <1>4, <2>2
    <3>2. ends[g + 1] = (IF g + 1 <= n THEN (g + 1) - Gone(g + 1, q, k) ELSE n - k)
                          + (IF p < g + 1 THEN e ELSE 0)
      BY ONLY <1>8, <2>2
    <3> QED
      BY ONLY <3>1, <3>2
  <2>8. ends[g + 1] = m + Len(y) + Len(z) + Len(w)
    BY ONLY <1>4, <2>1, <2>2, <2>5, <2>6, <2>7 DEF Gone
  <2>9. Matches(r, m, y)
    <3>1. CASE g # p \/ (q < p /\ p < q + k)
      <4>1. y = << >>
        BY ONLY <2>3, <3>1
      <4> QED
        BY ONLY <4>1, NoMatch
    <3>2. CASE g = p /\ ~ (q < p /\ p < q + k)
      <4>1. m = p - (IF p <= q THEN 0 ELSE k) /\ e = j /\ y = s
        BY ONLY <1>4, <2>2, <2>3, <2>6, <3>2 DEF Gone
      <4> QED
        BY ONLY <1>2, <1>7, <4>1 DEF Matches
    <3> QED
      BY ONLY <3>1, <3>2
  <2>10. Matches(r, m + Len(y), z)
    BY ONLY <2>1, NoMatch
  <2>11. Matches(r, m + Len(y) + Len(z), w)
    <3>1. CASE ~ (g < n /\ (g < q \/ q + k <= g))
      <4>1. w = << >>
        BY ONLY <2>4, <3>1
      <4> QED
        BY ONLY <4>1, NoMatch
    <3>2. CASE g < n /\ (g < q \/ q + k <= g)
      <4>1. PICK l \in Nat : l = m + Len(y) + Len(z)
        BY ONLY <1>4, <2>1, <2>5, <2>6
      <4>2. l = g + (IF p <= g THEN e ELSE 0) - (IF g < q THEN 0 ELSE k) /\ g \in 0 .. n - 1
        BY ONLY <1>4, <2>1, <2>2, <2>5, <2>6, <3>2, <4>1 DEF Gone
      <4>3. r[l + 1] = d[g + 1] /\ w = <<d[g + 1]>>
        BY ONLY <1>7, <2>4, <3>2, <4>2
      <4> QED
        BY ONLY <4>1, <4>3, MatchesOne
    <3> QED
      BY ONLY <3>1, <3>2
  <2> QED
    BY ONLY <2>8, <2>9, <2>10, <2>11
<1>10. \A g \in 0 .. n :
         LET y == TextAt(a, b, g)
             z == TextAt(b, a, g)
             w == Kept(d, a, b, g)
         IN  /\ ends[g + 1] = ends[g] + Len(y) + Len(z) + Len(w)
             /\ Matches(r, ends[g], y) /\ Matches(r, ends[g] + Len(y), z)
             /\ Matches(r, ends[g] + Len(y) + Len(z), w)
  BY ONLY <1>9
<1>11. Cuts(r, d, a, b, ends)
  BY ONLY <1>2, <1>7, <1>8, <1>10 DEF Cuts
<1>12. Merged(d, a, b) = r
  <2>1. a.type = "insert" => a.text \in Seq(Int)
    BY <1>5
  <2>2. b.type = "insert" => b.text \in Seq(Int)
    BY ONLY <1>5
  <2>3. d \in Seq(Int)
    OBVIOUS
  <2> QED
    BY ONLY <1>7, <1>11, <2>1, <2>2, <2>3, MergedIs
<1> QED
  BY <1>1, <1>12

\* Two removals, behind p and behind q, which have the o elements behind q in
\* common.
LeftOfBoth(r, d, p, j, q, k, o) ==
    /\ o = Greatest(0, Least(p + j, q + k) - q) /\ Len(r) = Len(d) - j - k + o
    /\ \A g \in 0 .. Len(d) - 1 : (g < p \/ p + j <= g) /\ (g < q \/ q + k <= g) =>
          r[g - (IF g < p THEN 0 ELSE j) - (IF g < q THEN 0 ELSE k - o) + 1] = d[g + 1]

LEMMA DeleteDeleteMerge ==
    ASSUME NEW d, d \in Seq(Int), NEW p \in Nat, NEW j \in Nat, NEW q \in Nat, NEW k \in Nat,
           p + j <= Len(d), q + k <= Len(d), p <= q, NEW u, NEW v,
           NEW o \in Nat, NEW r, r \in Seq(Int), LeftOfBoth(r, d, p, j, q, k, o)
    PROVE  Merged(d, make_delete(p, j, u, 0), make_delete(q, k, v, 0)) = r
<1>1. PICK a, b : a = make_delete(p, j, u, 0) /\ b = make_delete(q, k, v, 0)
  OBVIOUS
<1>2. PICK n : n = Len(d)
  OBVIOUS
<1>3. PICK ends : ends = [g \in 0 .. n + 1 |->
                            LET h == IF g <= n THEN g ELSE n
                            IN  h - Gone(h, p, j) - Gone(h, q, k) + Gone(h, q, o)]
  OBVIOUS
<1>4. /\ n \in Nat /\ p \in Nat /\ j \in Nat /\ q \in Nat /\ k \in Nat /\ o \in Nat
      /\ p + j <= n /\ q + k <= n /\ p <= q /\ o <= k /\ o <= j
      /\ (p + j <= q => o = 0) /\ (p + j > q /\ p + j <= q + k => q + o = p + j)
      /\ (p + j > q + k => o = k)
  <2>1. n \in Nat /\ p + j <= n /\ q + k <= n /\ p <= q /\ o = Greatest(0, Least(p + j, q + k) - q)
    BY <1>2 DEF LeftOfBoth
  <2> QED
    BY ONLY <2>1, p \in Nat, j \in Nat, q \in Nat, k \in Nat, o \in Nat DEF Greatest, Least
<1>5. /\ a.type = "delete" /\ a.position = p /\ a.length = j
      /\ b.type = "delete" /\ b.position = q /\ b.length = k
  BY <1>1 DEF make_delete
<1>6. Erased(a) = p + 1 .. p + j /\ Erased(b) = q + 1 .. q + k
  BY <1>5 DEF Erased
<1>7. /\ r \in Seq(Int) /\ Len(r) = n - j - k + o
      /\ \A g \in 0 .. n - 1 : (g < p \/ p + j <= g) /\ (g < q \/ q + k <= g) =>
            r[g - (IF g < p THEN 0 ELSE j) - (IF g < q THEN 0 ELSE k - o) + 1] = d[g + 1]
  BY <1>2 DEF LeftOfBoth
<1>8. \A g \in 0 .. n :
         /\ g - Gone(g, p, j) - Gone(g, q, k) + Gone(g, q, o) \in 0 .. n - j - k + o
         /\ g = 0 => g - Gone(g, p, j) - Gone(g, q, k) + Gone(g, q, o) = 0
         /\ g = n => g - Gone(g, p, j) - Gone(g, q, k) + Gone(g, q, o) = n - j - k + o
  <2> SUFFICES ASSUME NEW g \in 0 .. n
               PROVE  /\ g - Gone(g, p, j) - Gone(g, q, k) + Gone(g, q, o) \in 0 .. n - j - k + o
                      /\ g = 0 => g - Gone(g, p, j) - Gone(g, q, k) + Gone(g, q, o) = 0
                      /\ g = n => g - Gone(g, p, j) - Gone(g, q, k) + Gone(g, q, o)
                                    = n - j - k + o
    OBVIOUS
  <2>1. g \in Nat /\ g <= n
    BY <1>4
  <2> QED
    BY ONLY <1>4, <2>1 DEF Gone
<1>9. /\ \A g \in 0 .. n : ends[g] = g - Gone(g, p, j) - Gone(g, q, k) + Gone(g, q, o)
      /\ \A g \in 0 .. n + 1 : ends[g] \in 0 .. n - j - k + o
      /\ ends[0] = 0 /\ ends[n + 1] = n - j - k + o
  <2>1. \A g \in 0 .. n + 1 :
           ends[g] = LET h == IF g <= n THEN g ELSE n
                     IN  h - Gone(h, p, j) - Gone(h, q, k) + Gone(h, q, o)
    BY ONLY <1>3
  <2>2. /\ 0 \in 0 .. n + 1 /\ n + 1 \in 0 .. n + 1 /\ ~ (n + 1 <= n) /\ n \in 0 .. n /\ 0 \in 0 .. n
        /\ \A g \in 0 .. n : g \in 0 .. n + 1 /\ g <= n
        /\ \A g \in 0 .. n + 1 : (IF g <= n THEN g ELSE n) \in 0 .. n
    BY ONLY <1>4
  <2>3. \A g \in 0 .. n : ends[g] = g - Gone(g, p, j) - Gone(g, q, k) + Gone(g, q, o)
    BY ONLY <2>1, <2>2
  <2>4. ends[n + 1] = n - j - k + o
    BY ONLY <1>8, <2>1, <2>2
  <2>5. \A g \in 0 .. n + 1 : ends[g] \in 0 .. n - j - k + o
    BY ONLY <1>8, <2>1, <2>2
  <2> QED
    BY ONLY <1>8, <2>2, <2>3, <2>4, <2>5
<1>10. ASSUME NEW g \in 0 .. n, NEW y, y = TextAt(a, b, g), NEW z, z = TextAt(b, a, g),
             NEW w, w = Kept(d, a, b, g), NEW m, m = ends[g]
      PROVE  /\ ends[g + 1] = m + Len(y) + Len(z) + Len(w)
             /\ Matches(r, m, y) /\ Matches(r, m + Len(y), z)
             /\ Matches(r, m + Len(y) + Len(z), w)
  <2>1. y = << >> /\ Len(y) = 0 /\ z = << >> /\ Len(z) = 0
    BY ONLY <1>5, <1>10 DEF TextAt
  <2>2. g \in Nat /\ g <= n /\ m \in Nat
        /\ m = g - Gone(g, p, j) - Gone(g, q, k) + Gone(g, q, o)
    BY ONLY <1>4, <1>8, <1>9, <1>10
  <2>3. w = IF g < n /\ (g < p \/ p + j <= g) /\ (g < q \/ q + k <= g)
            THEN <<d[g + 1]>> ELSE << >>
    <3>1. g + 1 \in (p + 1 .. p + j) \cup (q + 1 .. q + k)
            <=> ~ ((g < p \/ p + j <= g) /\ (g < q \/ q + k <= g))
      BY ONLY <1>4, <2>2
    <3>2. g = n <=> ~ (g < n)
      BY ONLY <1>4, <2>2
    <3> QED
      BY ONLY <1>2, <1>6, <1>10, <3>1, <3>2 DEF Kept
  <2>4. Len(w) = IF g < n /\ (g < p \/ p + j <= g) /\ (g < q \/ q + k <= g) THEN 1 ELSE 0
    BY ONLY <2>3
  <2>5. ends[g + 1] = m + Len(w)
    <3>1. CASE g < n
      <4>1. g + 1 \in 0 .. n
        BY ONLY <1>4, <2>2, <3>1
      <4>2. ends[g + 1] = (g + 1) - Gone(g + 1, p, j) - Gone(g + 1, q, k) + Gone(g + 1, q, o)
        BY ONLY <1>9, <4>1
      <4> QED
        BY ONLY <1>4, <2>2, <2>4, <3>1, <4>2 DEF Gone
    <3>2. CASE g = n
      BY ONLY <1>4, <1>8, <1>9, <2>2, <2>4, <3>2
    <3> QED
      BY ONLY <1>4, <2>2, <3>1, <3>2
  <2>6. m + Len(y) = m /\ m + Len(y) + Len(z) = m
    BY ONLY <2>1, <2>2
  <2>7. Matches(r, m, y) /\ Matches(r, m + Len(y), z)
    BY ONLY <2>1, NoMatch
  <2>8. Matches(r, m, w)
    <3>1. CASE ~ (g < n /\ (g < p \/ p + j <= g) /\ (g < q \/ q + k <= g))
      <4>1. w = << >>
        BY ONLY <2>3, <3>1
      <4> QED
        BY ONLY <4>1, NoMatch
    <3>2. CASE g < n /\ (g < p \/ p + j <= g) /\ (g < q \/ q + k <= g)
      <4>1. /\ m = g - (IF g < p THEN 0 ELSE j) - (IF g < q THEN 0 ELSE k - o)
            /\ g \in 0 .. n - 1
        BY ONLY <1>4, <2>2, <3>2 DEF Gone
      <4>2. r[m + 1] = d[g + 1] /\ w = <<d[g + 1]>>
        BY ONLY <1>7, <2>3, <3>2, <4>1
      <4> QED
        BY ONLY <2>2, <4>2, MatchesOne
    <3> QED
      BY ONLY <3>1, <3>2
  <2> QED
    BY ONLY <2>5, <2>6, <2>7, <2>8
<1>11. \A g \in 0 .. n :
         LET y == TextAt(a, b, g)
             z == TextAt(b, a, g)
             w == Kept(d, a, b, g)
         IN  /\ ends[g + 1] = ends[g] + Len(y) + Len(z) + Len(w)
             /\ Matches(r, ends[g], y) /\ Matches(r, ends[g] + Len(y), z)
             /\ Matches(r, ends[g] + Len(y) + Len(z), w)
  BY ONLY <1>10
<1>12. Cuts(r, d, a, b, ends)
  BY ONLY <1>2, <1>7, <1>9, <1>11 DEF Cuts
<1>13. Merged(d, a, b) = r
  BY <1>5, <1>7, <1>12, MergedIs
<1> QED
  BY <1>1, <1>13

\* The three ways the code treats an insertion and a removal.
LEMMA InsertDeleteJoint ==
    ASSUME NEW d, d \in Seq(Int), NEW s, s \in Seq(Int), NEW p \in Nat, NEW q \in Nat,
           NEW k \in Nat, p <= Len(d), q + k <= Len(d), NEW u, NEW v
    PROVE  Merged(d, make_insert(p, s, u, 0), make_delete(q, k, v, 0))
             = IF p <= q THEN EraseText(InsertText(d, p, s), q + Len(s), k)
               ELSE IF q + k <= p THEN EraseText(InsertText(d, p, s), q, k)
               ELSE EraseText(d, q, k)
<1>1. PICK n, j, x : n = Len(d) /\ j = Len(s) /\ x = InsertText(d, p, s)
  OBVIOUS
<1>2. /\ n \in Nat /\ j \in Nat /\ p \in Nat /\ q \in Nat /\ k \in Nat
      /\ p <= n /\ q + k <= n /\ d \in Seq(Int) /\ s \in Seq(Int)
  BY <1>1
<1>3. x \in Seq(Int) /\ Len(x) = n + j /\ Inserted(x, d, n, p, s, j)
  BY <1>1, InsertShape
<1>4. CASE p <= q
  <2>1. PICK r : r = EraseText(x, q + j, k)
    OBVIOUS
  <2>2. r \in Seq(Int) /\ Len(r) = (n + j) - k /\ Removed(r, x, n + j, q + j, k)
    <3>1. q + j \in Nat /\ (q + j) + k <= Len(x)
      BY ONLY <1>2, <1>3
    <3>2. PICK i : i = q + j
      OBVIOUS
    <3>3. /\ EraseText(x, i, k) \in Seq(Int) /\ Len(EraseText(x, i, k)) = Len(x) - k
          /\ Removed(EraseText(x, i, k), x, Len(x), i, k)
      BY ONLY k \in Nat, <1>3, <3>1, <3>2, EraseShape
    <3> QED
      BY ONLY <1>3, <2>1, <3>2, <3>3
  <2>3. j = (IF q < p /\ p < q + k THEN 0 ELSE Len(s)) /\ Len(r) = Len(d) + j - k
    BY ONLY <1>1, <1>2, <1>4, <2>2
  <2>4. \A i \in 1 .. j : r[p - (IF p <= q THEN 0 ELSE k) + i] = s[i]
    <3>1. ASSUME NEW i \in 1 .. j PROVE r[p + i] = s[i]
      <4>1. p + i \in 1 .. (n + j) - k /\ p + i <= q + j /\ p + i \in 1 .. n + j
        BY ONLY <1>2, <1>4, <3>1
      <4>2. r[p + i] = x[p + i]
        BY ONLY <2>2, <4>1 DEF Removed
      <4>3. x[p + i] = s[i]
        BY ONLY <1>2, <1>3, <3>1, <4>1 DEF Inserted
      <4> QED
        BY ONLY <4>2, <4>3
    <3>2. p - (IF p <= q THEN 0 ELSE k) = p
      BY ONLY <1>2, <1>4
    <3> QED
      BY ONLY <3>1, <3>2
  <2>5. ASSUME NEW g \in 0 .. n - 1, g < q \/ q + k <= g
        PROVE  r[g + (IF p <= g THEN j ELSE 0) - (IF g < q THEN 0 ELSE k) + 1] = d[g + 1]
    <3>0. g \in Nat /\ g < n
      BY ONLY <1>2, <2>5
    <3>1. PICK l : l = (g + (IF p <= g THEN j ELSE 0)) + 1
      OBVIOUS
    <3>2. l \in 1 .. n + j /\ x[l] = d[g + 1]
      <4>1. /\ l \in 1 .. n + j
            /\ g < p => l = g + 1 /\ l <= p
            /\ p <= g => l - j = g + 1 /\ ~ (l <= p) /\ ~ (l <= p + j)
        BY ONLY <1>2, <3>0, <3>1
      <4>2. g < p \/ p <= g
        BY ONLY <1>2, <3>0
      <4> QED
        BY ONLY <1>3, <4>1, <4>2 DEF Inserted
    <3>3. PICK m : m = g + (IF p <= g THEN j ELSE 0) - (IF g < q THEN 0 ELSE k) + 1
      OBVIOUS
    <3>4. /\ m \in 1 .. (n + j) - k
          /\ l = IF m <= q + j THEN m ELSE m + k
      BY ONLY <1>2, <1>4, <2>5, <3>0, <3>1, <3>3
    <3>5. r[m] = x[l]
      BY ONLY <2>2, <3>4 DEF Removed
    <3> QED
      BY ONLY <3>2, <3>3, <3>5
  <2>6. Merged(d, make_insert(p, s, u, 0), make_delete(q, k, v, 0)) = r
    <3>1. n = Len(d) /\ p <= Len(d) /\ q + k <= Len(d)
      BY ONLY <1>1, <1>2
    <3>2. \A g \in 0 .. Len(d) - 1 : g < q \/ q + k <= g =>
             r[g + (IF p <= g THEN j ELSE 0) - (IF g < q THEN 0 ELSE k) + 1] = d[g + 1]
      BY ONLY <2>5, <3>1
    <3>3. /\ d \in Seq(Int) /\ s \in Seq(Int) /\ r \in Seq(Int) /\ j \in Nat
          /\ p \in Nat /\ q \in Nat /\ k \in Nat
      BY ONLY <1>2, <2>2
    <3>4. LeftOfInsert(r, d, s, p, q, k, j)
      BY ONLY <2>3, <2>4, <3>2 DEF LeftOfInsert
    <3> QED
      BY ONLY <3>1, <3>3, <3>4, InsertDeleteMerge
  <2> QED
    BY <1>1, <1>4, <2>1, <2>6
<1>5. CASE ~ (p <= q) /\ q + k <= p
  <2>1. PICK r : r = EraseText(x, q, k)
    OBVIOUS
  <2>2. r \in Seq(Int) /\ Len(r) = (n + j) - k /\ Removed(r, x, n + j, q, k)
    <3>1. q + k <= Len(x)
      BY ONLY <1>2, <1>3
    <3>2. /\ EraseText(x, q, k) \in Seq(Int) /\ Len(EraseText(x, q, k)) = Len(x) - k
          /\ Removed(EraseText(x, q, k), x, Len(x), q, k)
      BY ONLY q \in Nat, k \in Nat, <1>3, <3>1, EraseShape
    <3> QED
      BY ONLY <1>3, <2>1, <3>2
  <2>3. j = (IF q < p /\ p < q + k THEN 0 ELSE Len(s)) /\ Len(r) = Len(d) + j - k
    BY ONLY <1>1, <1>2, <1>5, <2>2
  <2>4. \A i \in 1 .. j : r[p - (IF p <= q THEN 0 ELSE k) + i] = s[i]
    <3>1. ASSUME NEW i \in 1 .. j PROVE r[(p - k) + i] = s[i]
      <4>1. /\ (p - k) + i \in 1 .. (n + j) - k /\ ~ ((p - k) + i <= q)
            /\ ((p - k) + i) + k = p + i /\ p + i \in 1 .. n + j
        BY ONLY <1>2, <1>5, <3>1
      <4>2. r[(p - k) + i] = x[p + i]
        BY ONLY <2>2, <4>1 DEF Removed
      <4>3. x[p + i] = s[i]
        BY ONLY <1>2, <1>3, <3>1, <4>1 DEF Inserted
      <4> QED
        BY ONLY <4>2, <4>3
    <3>2. p - (IF p <= q THEN 0 ELSE k) = p - k
      BY ONLY <1>2, <1>5
    <3> QED
      BY ONLY <3>1, <3>2
  <2>5. ASSUME NEW g \in 0 .. n - 1, g < q \/ q + k <= g
        PROVE  r[g + (IF p <= g THEN j ELSE 0) - (IF g < q THEN 0 ELSE k) + 1] = d[g + 1]
    <3>0. g \in Nat /\ g < n
      BY ONLY <1>2, <2>5
    <3>1. PICK l : l = (g + (IF p <= g THEN j ELSE 0)) + 1
      OBVIOUS
    <3>2. l \in 1 .. n + j /\ x[l] = d[g + 1]
      <4>1. /\ l \in 1 .. n + j
            /\ g < p => l = g + 1 /\ l <= p
            /\ p <= g => l - j = g + 1 /\ ~ (l <= p) /\ ~ (l <= p + j)
        BY ONLY <1>2, <3>0, <3>1
      <4>2. g < p \/ p <= g
        BY ONLY <1>2, <3>0
      <4> QED
        BY ONLY <1>3, <4>1, <4>2 DEF Inserted
    <3>3. PICK m : m = g + (IF p <= g THEN j ELSE 0) - (IF g < q THEN 0 ELSE k) + 1
      OBVIOUS
    <3>4. /\ m \in 1 .. (n + j) - k
          /\ l = IF m <= q THEN m ELSE m + k
      BY ONLY <1>2, <1>5, <2>5, <3>0, <3>1, <3>3
    <3>5. r[m] = x[l]
      BY ONLY <2>2, <3>4 DEF Removed
    <3> QED
      BY ONLY <3>2, <3>3, <3>5
  <2>6. Merged(d, make_insert(p, s, u, 0), make_delete(q, k, v, 0)) = r
    <3>1. n = Len(d) /\ p <= Len(d) /\ q + k <= Len(d)
      BY ONLY <1>1, <1>2
    <3>2. \A g \in 0 .. Len(d) - 1 : g < q \/ q + k <= g =>
             r[g + (IF p <= g THEN j ELSE 0) - (IF g < q THEN 0 ELSE k) + 1] = d[g + 1]
      BY ONLY <2>5, <3>1
    <3>3. /\ d \in Seq(Int) /\ s \in Seq(Int) /\ r \in Seq(Int) /\ j \in Nat
          /\ p \in Nat /\ q \in Nat /\ k \in Nat
      BY ONLY <1>2, <2>2
    <3>4. LeftOfInsert(r, d, s, p, q, k, j)
      BY ONLY <2>3, <2>4, <3>2 DEF LeftOfInsert
    <3> QED
      BY ONLY <3>1, <3>3, <3>4, InsertDeleteMerge
  <2> QED
    BY <1>1, <1>5, <2>1, <2>6
<1>6. CASE ~ (p <= q) /\ ~ (q + k <= p)
  <2>1. PICK r : r = EraseText(d, q, k)
    OBVIOUS
  <2>2. r \in Seq(Int) /\ Len(r) = n - k /\ Removed(r, d, n, q, k)
    BY ONLY <1>1, <1>2, <2>1, EraseShape
  <2>3. 0 = (IF q < p /\ p < q + k THEN 0 ELSE Len(s)) /\ Len(r) = Len(d) + 0 - k
    BY ONLY <1>1, <1>2, <1>6, <2>2
  <2>4. \A i \in 1 .. 0 : r[p - (IF p <= q THEN 0 ELSE k) + i] = s[i]
    OBVIOUS
  <2>5. ASSUME NEW g \in 0 .. n - 1, g < q \/ q + k <= g
        PROVE  r[g + (IF p <= g THEN 0 ELSE 0) - (IF g < q THEN 0 ELSE k) + 1] = d[g + 1]
    <3>0. g \in Nat /\ g < n
      BY ONLY <1>2, <2>5
    <3>1. PICK m : m = g + (IF p <= g THEN 0 ELSE 0) - (IF g < q THEN 0 ELSE k) + 1
      OBVIOUS
    <3>2. /\ m \in 1 .. n - k /\ g + 1 = IF m <= q THEN m ELSE m + k
      BY ONLY <1>2, <2>5, <3>0, <3>1
    <3>3. r[m] = d[g + 1]
      BY ONLY <2>2, <3>2 DEF Removed
    <3> QED
      BY ONLY <3>1, <3>3
  <2>6. Merged(d, make_insert(p, s, u, 0), make_delete(q, k, v, 0)) = r
    <3>1. n = Len(d) /\ p <= Len(d) /\ q + k <= Len(d)
      BY ONLY <1>1, <1>2
    <3>2. \A g \in 0 .. Len(d) - 1 : g < q \/ q + k <= g =>
             r[g + (IF p <= g THEN 0 ELSE 0) - (IF g < q THEN 0 ELSE k) + 1] = d[g + 1]
      BY ONLY <2>5, <3>1
    <3>3. /\ d \in Seq(Int) /\ s \in Seq(Int) /\ r \in Seq(Int) /\ 0 \in Nat
          /\ p \in Nat /\ q \in Nat /\ k \in Nat
      BY ONLY <1>2, <2>2
    <3>4. LeftOfInsert(r, d, s, p, q, k, 0)
      BY ONLY <2>3, <2>4, <3>2 DEF LeftOfInsert
    <3> QED
      BY ONLY <3>1, <3>3, <3>4, InsertDeleteMerge
  <2> QED
    BY <1>1, <1>6, <2>1, <2>6
<1> QED
  BY <1>4, <1>5, <1>6

\* The removal that starts first, given first: the second removal is what is
\* left of it, where it is now.
LEMMA DeleteDeleteJoint ==
    ASSUME NEW d, d \in Seq(Int), NEW p \in Nat, NEW j \in Nat, NEW q \in Nat, NEW k \in Nat,
           p + j <= Len(d), q + k <= Len(d), p <= q, NEW u, NEW v
    PROVE  Merged(d, make_delete(p, j, u, 0), make_delete(q, k, v, 0))
             = EraseText(EraseText(d, p, j), IF q < p + j THEN p ELSE q - j,
                         k - Greatest(0, Least(p + j, q + k) - q))
<1>1. PICK n, x, o, h, r :
         /\ n = Len(d) /\ x = EraseText(d, p, j) /\ o = Greatest(0, Least(p + j, q + k) - q)
         /\ h = (IF q < p + j THEN p ELSE q - j) /\ r = EraseText(x, h, k - o)
  OBVIOUS
<1>2. /\ n \in Nat /\ p \in Nat /\ j \in Nat /\ q \in Nat /\ k \in Nat
      /\ p + j <= n /\ q + k <= n /\ p <= q /\ d \in Seq(Int)
      /\ h = (IF q < p + j THEN p ELSE q - j)
  BY <1>1
<1>3. /\ o \in Nat /\ o <= k /\ o <= j
      /\ (p + j <= q => o = 0) /\ (p + j > q /\ p + j <= q + k => q + o = p + j)
      /\ (p + j > q + k => o = k)
  BY ONLY <1>1, <1>2 DEF Greatest, Least
<1>4. x \in Seq(Int) /\ Len(x) = n - j /\ Removed(x, d, n, p, j)
  BY ONLY <1>1, <1>2, EraseShape
<1>5. h \in Nat /\ k - o \in Nat /\ h + (k - o) <= n - j
  BY ONLY <1>2, <1>3
<1>6. r \in Seq(Int) /\ Len(r) = (n - j) - (k - o) /\ Removed(r, x, n - j, h, k - o)
  <2>1. r = EraseText(x, h, k - o) /\ h + (k - o) <= Len(x)
    BY ONLY <1>1, <1>4, <1>5
  <2>2. PICK i : i = k - o
    OBVIOUS
  <2>3. /\ EraseText(x, h, i) \in Seq(Int) /\ Len(EraseText(x, h, i)) = Len(x) - i
        /\ Removed(EraseText(x, h, i), x, Len(x), h, i)
    BY ONLY <1>4, <1>5, <2>1, <2>2, EraseShape
  <2> QED
    BY ONLY <1>4, <2>1, <2>2, <2>3
<1>7. ASSUME NEW g \in 0 .. n - 1, (g < p \/ p + j <= g) /\ (g < q \/ q + k <= g)
      PROVE  r[g - (IF g < p THEN 0 ELSE j) - (IF g < q THEN 0 ELSE k - o) + 1] = d[g + 1]
  <2>0. g \in Nat /\ g < n
    BY ONLY <1>2, <1>7
  <2>1. PICK l : l = g - (IF g < p THEN 0 ELSE j) + 1
    OBVIOUS
  <2>2. l \in 1 .. n - j /\ g + 1 = IF l <= p THEN l ELSE l + j
    BY ONLY <1>2, <1>7, <2>0, <2>1
  <2>3. PICK m : m = g - (IF g < p THEN 0 ELSE j) - (IF g < q THEN 0 ELSE k - o) + 1
    OBVIOUS
  <2>4. m \in 1 .. (n - j) - (k - o) /\ l = IF m <= h THEN m ELSE m + (k - o)
    BY ONLY <1>2, <1>3, <1>7, <2>0, <2>1, <2>3
  <2>5. r[m] = x[l]
    BY ONLY <1>6, <2>4 DEF Removed
  <2>6. x[l] = d[g + 1]
    BY ONLY <1>4, <2>2 DEF Removed
  <2> QED
    BY ONLY <2>3, <2>5, <2>6
<1>8. Len(r) = Len(d) - j - k + o /\ n = Len(d) /\ o = Greatest(0, Least(p + j, q + k) - q)
  <2>1. n = Len(d) /\ o = Greatest(0, Least(p + j, q + k) - q)
    BY ONLY <1>1
  <2> QED
    BY ONLY <1>2, <1>3, <1>6, <2>1
<1>9. Merged(d, make_delete(p, j, u, 0), make_delete(q, k, v, 0)) = r
  <2>1. \A g \in 0 .. Len(d) - 1 : (g < p \/ p + j <= g) /\ (g < q \/ q + k <= g) =>
           r[g - (IF g < p THEN 0 ELSE j) - (IF g < q THEN 0 ELSE k - o) + 1] = d[g + 1]
    BY ONLY <1>7, <1>8
  <2>2. p + j <= Len(d) /\ q + k <= Len(d)
    BY ONLY <1>2, <1>8
  <2>3. LeftOfBoth(r, d, p, j, q, k, o)
    BY ONLY <1>8, <2>1 DEF LeftOfBoth
  <2>4. /\ d \in Seq(Int) /\ r \in Seq(Int) /\ p <= q /\ o \in Nat
        /\ p \in Nat /\ j \in Nat /\ q \in Nat /\ k \in Nat
    BY ONLY <1>2, <1>3, <1>6
  <2> QED
    BY ONLY <2>2, <2>3, <2>4, DeleteDeleteMerge
<1> QED
  BY <1>1, <1>9

\* What the two lemmas above and InsertInsertMerge say, of any two operations.
LEMMA JointMerges ==
    ASSUME NEW d, d \in Texts, NEW a, a \in OpsOn(d, 1), NEW b, b \in OpsOn(d, 2)
    PROVE  Joint(d, a, b) = Merged(d, a, b)
<1>1. /\ d \in Seq(Int) /\ Len(d) \in Nat /\ Len(d) < HalfWord
      /\ \A t \in Texts : t \in Seq(Int) /\ Len(d) + Len(t) < HalfWord
  BY TextsAssumption, HalfWordAssumption
<1>2. IsOp(a) /\ IsOp(b)
  BY OpsOnCases
<1>3. \/ \E p \in Nat, t \in Texts : p <= Len(d) /\ a = make_insert(p, t, 1, 0)
      \/ \E q \in Nat, k \in Nat : q + k <= Len(d) /\ a = make_delete(q, k, 1, 0)
  BY OpsOnCases
<1>4. \/ \E p \in Nat, t \in Texts : p <= Len(d) /\ b = make_insert(p, t, 2, 0)
      \/ \E q \in Nat, k \in Nat : q + k <= Len(d) /\ b = make_delete(q, k, 2, 0)
  BY OpsOnCases
<1>5. Joint(d, a, b) = Joint(d, b, a)
  BY <1>2, DiamondHolds, TransformSwaps DEF Diamond, Joint
<1>6. ASSUME NEW p \in Nat, NEW s \in Texts, p <= Len(d),
             a = make_insert(p, s, 1, 0)
      PROVE  Joint(d, a, b) = Merged(d, a, b)
  <2>1. ASSUME NEW q \in Nat, NEW t \in Texts, q <= Len(d),
               b = make_insert(q, t, 2, 0)
        PROVE  Joint(d, a, b) = Merged(d, a, b)
    <3>1. Joint(d, a, b) = InsertText(InsertText(d, p, s), IF p <= q THEN q + Len(s) ELSE q, t)
      <4>1. 1 \in Nat /\ 2 \in Nat /\ 1 # 2 /\ 1 < 2
        OBVIOUS
      <4> QED
        BY ONLY <1>1, <1>6, <2>1, <4>1, InsertInsertDiamond
    <3> QED
      BY ONLY <1>1, <1>6, <2>1, <3>1, InsertInsertMerge
  <2>2. ASSUME NEW q \in Nat, NEW k \in Nat, q + k <= Len(d),
               b = make_delete(q, k, 2, 0)
        PROVE  Joint(d, a, b) = Merged(d, a, b)
    <3>1. d \in Seq(Int) /\ s \in Seq(Int) /\ Len(d) + Len(s) < HalfWord /\ 1 \in Nat /\ 2 \in Nat
      BY ONLY <1>1, s \in Texts
    <3> QED
      <4>1. Joint(d, a, b) = IF p <= q THEN EraseText(InsertText(d, p, s), q + Len(s), k)
                             ELSE IF q + k <= p THEN EraseText(InsertText(d, p, s), q, k)
                             ELSE EraseText(d, q, k)
        BY ONLY <1>6, <2>2, <3>1, InsertDeleteDiamond
      <4>2. Merged(d, a, b) = IF p <= q THEN EraseText(InsertText(d, p, s), q + Len(s), k)
                              ELSE IF q + k <= p THEN EraseText(InsertText(d, p, s), q, k)
                              ELSE EraseText(d, q, k)
        BY ONLY <1>6, <2>2, <3>1, InsertDeleteJoint
      <4> QED
        BY ONLY <4>1, <4>2
  <2> QED
    BY <1>4, <2>1, <2>2
<1>7. ASSUME NEW p \in Nat, NEW j \in Nat, p + j <= Len(d),
             a = make_delete(p, j, 1, 0)
      PROVE  Joint(d, a, b) = Merged(d, a, b)
  <2>1. ASSUME \A o \in {a, b} : o.type = "insert" => o.text \in Seq(Int)
        PROVE  Merged(d, a, b) = Merged(d, b, a)
    <3>1. a.type # "insert"
      BY <1>7 DEF make_delete
    <3> QED
      BY <2>1, <3>1, MergedSwaps
  <2>2. ASSUME NEW q \in Nat, NEW t \in Texts, q <= Len(d),
               b = make_insert(q, t, 2, 0)
        PROVE  Joint(d, a, b) = Merged(d, a, b)
    <3>1. Joint(d, b, a) = Merged(d, b, a)
      <4>1. d \in Seq(Int) /\ t \in Seq(Int) /\ Len(d) + Len(t) < HalfWord /\ 1 \in Nat /\ 2 \in Nat
        BY ONLY <1>1, t \in Texts
      <4> QED
        <5>1. Joint(d, b, a) = IF q <= p THEN EraseText(InsertText(d, q, t), p + Len(t), j)
                               ELSE IF p + j <= q THEN EraseText(InsertText(d, q, t), p, j)
                               ELSE EraseText(d, p, j)
          BY ONLY <1>7, <2>2, <4>1, InsertDeleteDiamond
        <5>2. Merged(d, b, a) = IF q <= p THEN EraseText(InsertText(d, q, t), p + Len(t), j)
                                ELSE IF p + j <= q THEN EraseText(InsertText(d, q, t), p, j)
                                ELSE EraseText(d, p, j)
          BY ONLY <1>7, <2>2, <4>1, InsertDeleteJoint
        <5> QED
          BY ONLY <5>1, <5>2
    <3>2. \A o \in {a, b} : o.type = "insert" => o.text \in Seq(Int)
      BY <1>1, <1>7, <2>2 DEF make_insert, make_delete
    <3> QED
      BY <1>5, <2>1, <3>1, <3>2
  <2>3. ASSUME NEW q \in Nat, NEW k \in Nat, q + k <= Len(d),
               b = make_delete(q, k, 2, 0)
        PROVE  Joint(d, a, b) = Merged(d, a, b)
    <3>1. CASE p <= q
      BY <1>1, <1>7, <2>3, <3>1, DeleteDeleteDiamond, DeleteDeleteJoint
    <3>2. CASE q <= p
      <4>1. Joint(d, b, a) = Merged(d, b, a)
        BY <1>1, <1>7, <2>3, <3>2, DeleteDeleteDiamond, DeleteDeleteJoint
      <4>2. \A o \in {a, b} : o.type = "insert" => o.text \in Seq(Int)
        BY <1>7, <2>3 DEF make_delete
      <4> QED
        BY <1>5, <2>1, <4>1, <4>2
    <3> QED
      BY <3>1, <3>2
  <2> QED
    BY <1>4, <2>2, <2>3
<1> QED
  BY <1>3, <1>6, <1>7

-----------------------------------------------------------------------------
(* Cursors: what follows a cursor in the text, element by element. *)

LEMMA AfterShape ==
    ASSUME NEW d, d \in Seq(Int), NEW c \in Nat, c <= Len(d)
    PROVE  /\ AfterCursor(d, c) \in Seq(Int) /\ Len(AfterCursor(d, c)) = Len(d) - c
           /\ \A i \in 1 .. Len(d) - c : AfterCursor(d, c)[i] = d[c + i]
  BY DEF AfterCursor

LEMMA CursorAtInsert ==
    ASSUME NEW d, d \in Seq(Int), NEW t, t \in Seq(Int), NEW q \in Nat, q <= Len(d),
           NEW u, NEW p \in Nat, p <= Len(d), Len(d) + Len(t) < HalfWord
    PROVE  LET op == make_insert(q, t, u, 0)
               c == translate(p, op)
           IN  /\ c \in 0 .. Len(apply(d, op))
               /\ AfterCursor(apply(d, op), c) = LeftAfter(d, op, p)
<1> DEFINE op == make_insert(q, t, u, 0)
           c == translate(p, op)
           x == InsertText(d, q, t)
           y == AfterCursor(d, p)
           m == Len(d)
           k == Len(t)
<1>1. /\ op.type = "insert" /\ op.position = q /\ op.text = t /\ op.length = k
  BY DEF make_insert
<1>2. apply(d, op) = x
  BY <1>1, ApplyInsert
<1>3. /\ m \in Nat /\ k \in Nat /\ k = Len(t) /\ HalfWord \in Nat
      /\ p + k \in Nat /\ p + k < HalfWord /\ p <= m /\ q <= m
  BY HalfWordAssumption
<1>4. Wrap(p + k) = p + k
  BY <1>3, WrapFits
<1>5. c = IF q <= p THEN p + k ELSE p
  <2>1. CASE t = << >>
    BY <1>1, <1>3, <2>1 DEF translate, is_noop
  <2>2. CASE t # << >>
    BY <1>1, <1>4, <2>2 DEF translate, is_noop
  <2> QED
    BY <2>1, <2>2
<1>6. /\ x \in Seq(Int) /\ Len(x) = m + k /\ Inserted(x, d, m, q, t, k)
  BY InsertShape
<1>7. /\ y \in Seq(Int) /\ Len(y) = m - p /\ \A i \in 1 .. m - p : y[i] = d[p + i]
  BY AfterShape
<1>8. LeftAfter(d, op, p) = IF q > p THEN InsertText(y, q - p, t) ELSE y
  BY <1>1 DEF LeftAfter
<1> HIDE DEF op, c, x, y, m, k
<1>9. CASE q <= p
  <2>1. c = p + k /\ c \in Nat /\ c <= Len(x)
    BY <1>3, <1>5, <1>6, <1>9
  <2>2. /\ AfterCursor(x, c) \in Seq(Int) /\ Len(AfterCursor(x, c)) = m - p
        /\ \A i \in 1 .. m - p : AfterCursor(x, c)[i] = x[c + i]
    <3>1. Len(x) - c = m - p
      BY <1>3, <1>6, <2>1
    <3> QED
      BY <1>6, <2>1, <3>1, AfterShape
  <2>3. \A i \in 1 .. m - p : x[c + i] = d[p + i]
    <3> SUFFICES ASSUME NEW i \in 1 .. m - p PROVE x[c + i] = d[p + i]
      OBVIOUS
    <3>1. /\ c + i \in 1 .. m + k /\ ~ (c + i <= q) /\ ~ (c + i <= q + k)
          /\ (c + i) - k = p + i
      BY <1>3, <1>9, <2>1
    <3> QED
      BY <1>6, <3>1 DEF Inserted
  <2>4. AfterCursor(x, c) = y
    BY <1>7, <2>2, <2>3, SeqExtensional
  <2>5. ~ (q > p)
    BY <1>9
  <2> QED
    BY <1>2, <1>8, <2>1, <2>4, <2>5, <1>6, <1>3 DEF op, c
<1>10. CASE q > p
  <2> DEFINE z == InsertText(y, q - p, t)
  <2>1. c = p /\ c \in Nat /\ c <= Len(x) /\ q - p \in Nat /\ q - p <= Len(y)
    <3>1. ~ (q <= p) /\ q - p \in Nat /\ q - p <= m - p /\ p <= m + k
      BY <1>3, <1>10
    <3>2. c = p
      BY <1>5, <3>1
    <3> QED
      BY <1>6, <1>7, <3>1, <3>2
  <2>2. /\ AfterCursor(x, c) \in Seq(Int) /\ Len(AfterCursor(x, c)) = m - p + k
        /\ \A i \in 1 .. m - p + k : AfterCursor(x, c)[i] = x[p + i]
    <3>1. Len(x) - c = m - p + k
      BY <1>3, <1>6, <2>1
    <3> QED
      BY <1>6, <2>1, <3>1, AfterShape
  <2>3. /\ z \in Seq(Int) /\ Len(z) = m - p + k /\ Inserted(z, y, m - p, q - p, t, k)
    <3>1. Len(z) = Len(y) + Len(t) /\ Inserted(z, y, Len(y), q - p, t, Len(t)) /\ z \in Seq(Int)
      BY <1>7, <2>1, InsertShape
    <3> QED
      BY <1>3, <1>7, <3>1
  <2>4. \A i \in 1 .. m - p + k : x[p + i] = z[i]
    <3> SUFFICES ASSUME NEW i \in 1 .. m - p + k PROVE x[p + i] = z[i]
      OBVIOUS
    <3>1. PICK j \in 1 .. m + k : j = p + i
      BY <1>3
    <3>2. x[j] = IF j <= q THEN d[j] ELSE IF j <= q + k THEN t[j - q] ELSE d[j - k]
      BY <1>6 DEF Inserted
    <3>3. z[i] = IF i <= q - p THEN y[i]
                 ELSE IF i <= q - p + k THEN t[i - (q - p)] ELSE y[i - k]
      BY <2>3 DEF Inserted
    <3>4. CASE i <= q - p
      <4>1. i \in 1 .. m - p /\ j <= q
        BY <1>3, <3>1, <3>4
      <4> QED
        BY <1>7, <3>1, <3>2, <3>3, <3>4, <4>1
    <3>5. CASE ~ (i <= q - p) /\ i <= q - p + k
      <4>1. ~ (j <= q) /\ j <= q + k /\ j - q = i - (q - p)
        BY <1>3, <3>1, <3>5
      <4> QED
        BY <3>1, <3>2, <3>3, <3>5, <4>1
    <3>6. CASE ~ (i <= q - p) /\ ~ (i <= q - p + k)
      <4>1. /\ ~ (j <= q) /\ ~ (j <= q + k) /\ i - k \in 1 .. m - p
            /\ p + (i - k) = j - k
        BY <1>3, <1>10, <3>1, <3>6
      <4>2. y[i - k] = d[j - k]
        BY <1>7, <4>1
      <4> QED
        BY <3>1, <3>2, <3>3, <3>6, <4>1, <4>2
    <3> QED
      BY <3>4, <3>5, <3>6
  <2>5. AfterCursor(x, c) = z
    <3> HIDE DEF z
    <3> QED
      BY <1>3, <2>2, <2>3, <2>4, SeqExtensional
  <2> QED
    BY <1>2, <1>8, <1>10, <2>1, <2>5, <1>6, <1>3 DEF op, c
<1> QED
  BY <1>9, <1>10

LEMMA CursorAtDelete ==
    ASSUME NEW d, d \in Seq(Int), NEW q \in Nat, NEW k \in Nat, q + k <= Len(d),
           NEW u, NEW p \in Nat, p <= Len(d), Len(d) < HalfWord
    PROVE  LET op == make_delete(q, k, u, 0)
               c == translate(p, op)
           IN  /\ c \in 0 .. Len(apply(d, op))
               /\ AfterCursor(apply(d, op), c) = LeftAfter(d, op, p)
<1> DEFINE op == make_delete(q, k, u, 0)
           c == translate(p, op)
           x == EraseText(d, q, k)
           y == AfterCursor(d, p)
           m == Len(d)
           first == Greatest(q, p)
           last == Greatest(q + k, p)
           z == EraseText(y, first - p, last - first)
<1>1. /\ op.type = "delete" /\ op.position = q /\ op.length = k
  BY DEF make_delete
<1>2. apply(d, op) = x
  BY <1>1, ApplyDelete
<1>3. /\ m \in Nat /\ HalfWord \in Nat /\ q + k \in Nat /\ q + k < HalfWord
      /\ p <= m /\ q + k <= m
  BY HalfWordAssumption
<1>4. Wrap(q + k) = q + k /\ (k <= p => Wrap(p - k) = p - k)
  BY <1>3, WrapFits
<1>5. c = IF q + k <= p THEN p - k ELSE IF q >= p THEN p ELSE q
  BY <1>1, <1>3, <1>4 DEF translate, is_noop
<1>6. /\ x \in Seq(Int) /\ Len(x) = m - k /\ Removed(x, d, m, q, k)
  BY EraseShape
<1>7. /\ y \in Seq(Int) /\ Len(y) = m - p /\ \A i \in 1 .. m - p : y[i] = d[p + i]
  BY AfterShape
<1>8. LeftAfter(d, op, p) = z
  BY <1>1 DEF LeftAfter
<1> HIDE DEF op, c, x, y, m
<1>9. /\ first = IF q >= p THEN q ELSE p
      /\ last = IF q + k >= p THEN q + k ELSE p
      /\ first \in Nat /\ last \in Nat /\ p <= first /\ first <= last /\ last <= m
  BY <1>3 DEF Greatest
<1> HIDE DEF first, last
<1>10. /\ z \in Seq(Int) /\ Len(z) = m - p - (last - first)
       /\ Removed(z, y, m - p, first - p, last - first)
  <2>1. first - p \in Nat /\ last - first \in Nat /\ (first - p) + (last - first) <= Len(y)
    BY <1>3, <1>7, <1>9
  <2> QED
    <3>1. /\ z \in Seq(Int) /\ Len(z) = Len(y) - (last - first)
          /\ Removed(z, y, Len(y), first - p, last - first)
      BY <1>7, <2>1, EraseShape
    <3> QED
      BY <1>7, <3>1
<1> HIDE DEF z
<1>11. /\ c \in Nat /\ c <= m - k /\ m - k - c = m - p - (last - first)
  BY <1>3, <1>5, <1>9
<1>12. /\ AfterCursor(x, c) \in Seq(Int) /\ Len(AfterCursor(x, c)) = Len(z)
       /\ \A i \in 1 .. Len(z) : AfterCursor(x, c)[i] = x[c + i]
  <2>1. c <= Len(x) /\ Len(x) - c = Len(z)
    BY <1>3, <1>6, <1>10, <1>11
  <2> QED
    BY <1>6, <1>11, <2>1, AfterShape
<1>13. ASSUME NEW i \in 1 .. Len(z) PROVE x[c + i] = z[i]
  <2>1. c + i \in 1 .. m - k /\ i \in 1 .. m - p - (last - first)
    BY <1>3, <1>10, <1>11
  <2>2. x[c + i] = IF c + i <= q THEN d[c + i] ELSE d[c + i + k]
    BY <1>6, <2>1 DEF Removed
  <2>3. z[i] = IF i <= first - p THEN y[i] ELSE y[i + (last - first)]
    BY <1>10, <2>1 DEF Removed
  <2>4. i <= first - p => y[i] = d[p + i] /\ c + i = p + i /\ c + i <= q
    BY <1>3, <1>5, <1>7, <1>9, <2>1, SMTT(30)
  <2>5. ASSUME ~ (i <= first - p)
        PROVE  y[i + (last - first)] = d[c + i + k] /\ ~ (c + i <= q)
    <3>1. i + (last - first) \in 1 .. m - p
      BY <1>3, <1>9, <2>1
    <3>2. p + (i + (last - first)) = c + i + k
      BY <1>3, <1>5, <1>9, <1>11, <2>1
    <3>3. ~ (c + i <= q)
      BY <1>3, <1>5, <1>9, <2>1, <2>5
    <3> QED
      BY <1>7, <3>1, <3>2, <3>3
  <2> QED
    BY <2>2, <2>3, <2>4, <2>5
<1>14. AfterCursor(x, c) = z
  BY <1>10, <1>12, <1>13, SeqExtensional
<1> QED
  BY <1>2, <1>3, <1>6, <1>8, <1>11, <1>14 DEF op, c

-----------------------------------------------------------------------------
(* The specification. *)

\* The text of a site, from how far it has come.
TextAtStage(s) ==
    IF stage[s] = 0 THEN base
    ELSE IF stage[s] = 1 THEN apply(base, opOf[s])
    ELSE apply(apply(base, opOf[s]), transform(opOf[s], opOf[Other(s)])[2])

IndInv == TypeOK /\ text = [s \in Sites |-> TextAtStage(s)]

LEMMA InitInd == Init => IndInv
<1> SUFFICES ASSUME Init PROVE IndInv
  OBVIOUS
<1>1. /\ base \in Texts /\ text = <<base, base>> /\ stage = <<0, 0>>
      /\ opOf[1] \in OpsOn(base, 1) /\ opOf[2] \in OpsOn(base, 2)
  BY DEF Init
<1>2. stage \in [Sites -> 0 .. 2] /\ stage[1] = 0 /\ stage[2] = 0
  BY <1>1 DEF Sites
<1>3. text = [s \in Sites |-> TextAtStage(s)]
  <2>1. \A s \in Sites : TextAtStage(s) = base
    BY <1>2 DEF TextAtStage, Sites
  <2>2. [s \in Sites |-> TextAtStage(s)] = [s \in Sites |-> base]
    BY <2>1
  <2>3. text = [s \in Sites |-> base]
    BY <1>1 DEF Sites
  <2> QED
    BY <2>2, <2>3
<1> QED
  BY <1>1, <1>2, <1>3 DEF IndInv, TypeOK

LEMMA StepInd == IndInv /\ [Next]_vars => IndInv'
<1> SUFFICES ASSUME IndInv, [Next]_vars PROVE IndInv'
  OBVIOUS
<1> USE DEF IndInv, TypeOK
<1>1. ASSUME NEW s \in Sites, ApplyOwn(s) PROVE IndInv'
  <2>1. /\ UNCHANGED <<base, opOf>> /\ stage[s] = 0 /\ stage' = [stage EXCEPT ![s] = 1]
        /\ text' = [text EXCEPT ![s] = apply(@, opOf[s])]
    BY <1>1 DEF ApplyOwn
  <2>2. stage' \in [Sites -> 0 .. 2]
    BY <2>1
  <2>3. \A r \in Sites : text'[r] = TextAtStage(r)'
    BY <2>1 DEF TextAtStage
  <2>4. text' = [r \in Sites |-> text'[r]]
    BY <2>1
  <2>5. text' = [r \in Sites |-> TextAtStage(r)']
    BY <2>3, <2>4
  <2> QED
    BY <2>1, <2>2, <2>5
<1>2. ASSUME NEW s \in Sites, ApplyRemote(s) PROVE IndInv'
  <2>1. /\ UNCHANGED <<base, opOf>> /\ stage[s] = 1 /\ stage' = [stage EXCEPT ![s] = 2]
        /\ text' = [text EXCEPT ![s] =
                      apply(@, transform(opOf[s], opOf[Other(s)])[2])]
    BY <1>2 DEF ApplyRemote
  <2>2. stage' \in [Sites -> 0 .. 2]
    BY <2>1
  <2>3. \A r \in Sites : text'[r] = TextAtStage(r)'
    BY <2>1 DEF TextAtStage
  <2>4. text' = [r \in Sites |-> text'[r]]
    BY <2>1
  <2>5. text' = [r \in Sites |-> TextAtStage(r)']
    BY <2>3, <2>4
  <2> QED
    BY <2>1, <2>2, <2>5
<1>3. CASE UNCHANGED vars
  BY <1>3 DEF vars, TextAtStage
<1> QED
  BY <1>1, <1>2, <1>3 DEF Next

LEMMA IndConverges == IndInv => BothPathsConverge
<1> SUFFICES ASSUME IndInv, stage = <<2, 2>> PROVE text[1] = text[2]
  BY DEF BothPathsConverge
<1> DEFINE a == opOf[1]
           b == opOf[2]
<1>1. text[1] = TextAtStage(1) /\ text[2] = TextAtStage(2)
  BY DEF IndInv, Sites
<1>2. stage[1] = 2 /\ stage[2] = 2 /\ Other(1) = 2 /\ Other(2) = 1
  BY DEF Other
<1>3. /\ text[1] = apply(apply(base, a), transform(a, b)[2])
      /\ text[2] = apply(apply(base, b), transform(b, a)[2])
  BY <1>1, <1>2 DEF TextAtStage
<1>4. base \in Texts /\ a \in OpsOn(base, 1) /\ b \in OpsOn(base, 2)
  BY DEF IndInv, TypeOK
<1>5. Diamond(base, a, b) /\ transform(b, a)[2] = transform(a, b)[1]
  <2>1. IsOp(a) /\ IsOp(b)
    BY <1>4, OpsOnCases
  <2> HIDE DEF a, b
  <2> QED
    BY <1>4, <2>1, DiamondHolds, TransformSwaps
<1> QED
  BY <1>3, <1>5 DEF Diamond

\* TP1 of core/src/ot.cpp for every set of texts: two sites that apply the
\* same pair of concurrent operations in opposite orders, each transforming
\* the other's against its own, end with the same text.
THEOREM PathsConverge == Spec => []BothPathsConverge
<1>1. Spec => []IndInv
  BY InitInd, StepInd, PTL DEF Spec
<1> QED
  BY <1>1, IndConverges, PTL

LEMMA IndMerges == IndInv => MergesIntentions
<1> SUFFICES ASSUME IndInv, NEW s \in Sites, stage[s] = 2
             PROVE  text[s] = Merged(base, opOf[1], opOf[2])
  BY DEF MergesIntentions
<1>1. PICK a, b : a = opOf[1] /\ b = opOf[2]
  OBVIOUS
<1>2. base \in Texts /\ a \in OpsOn(base, 1) /\ b \in OpsOn(base, 2)
  BY <1>1 DEF IndInv, TypeOK
<1>3. Joint(base, a, b) = Merged(base, a, b)
  BY <1>2, JointMerges
<1>4. Joint(base, b, a) = Joint(base, a, b)
  <2>1. IsOp(a) /\ IsOp(b)
    BY <1>2, OpsOnCases
  <2> QED
    BY <1>2, <2>1, DiamondHolds, TransformSwaps DEF Diamond, Joint
<1>5. text[s] = TextAtStage(s) /\ Other(1) = 2 /\ Other(2) = 1
  BY DEF IndInv, Other
<1>6. s = 1 => text[s] = Joint(base, a, b)
  BY <1>1, <1>5 DEF TextAtStage, Joint
<1>7. s = 2 => text[s] = Joint(base, b, a)
  BY <1>1, <1>5 DEF TextAtStage, Joint
<1> QED
  BY <1>1, <1>3, <1>4, <1>6, <1>7 DEF Sites

\* transform and apply of core/src/ot.cpp for every set of texts: a site that
\* has applied both operations of a pair holds the reference merge, the
\* characters neither erased in their order with the inserted texts at their
\* gaps, and nothing else.
THEOREM IntentionsMerged == Spec => []MergesIntentions
<1>1. Spec => []IndInv
  BY InitInd, StepInd, PTL DEF Spec
<1> QED
  BY <1>1, IndMerges, PTL

LEMMA IndKeepsPlace == IndInv => CursorKeepsPlace
<1> SUFFICES ASSUME IndInv, NEW s \in Sites, stage[s] = 1, NEW p \in 0 .. Len(base)
             PROVE  LET q == translate(p, opOf[s])
                    IN  /\ q \in 0 .. Len(text[s])
                        /\ AfterCursor(text[s], q) = LeftAfter(base, opOf[s], p)
  BY DEF CursorKeepsPlace
<1>1. base \in Texts /\ opOf[s] \in OpsOn(base, s) /\ s \in Nat
  BY DEF IndInv, TypeOK, Sites
<1>2. text[s] = apply(base, opOf[s])
  BY DEF IndInv, TextAtStage
<1>3. /\ base \in Seq(Int) /\ Len(base) \in Nat /\ Len(base) < HalfWord
      /\ \A t \in Texts : t \in Seq(Int) /\ Len(base) + Len(t) < HalfWord
  BY <1>1, TextsAssumption, HalfWordAssumption
<1>4. p \in Nat /\ p <= Len(base)
  BY <1>3
<1>5. CASE \E q \in Nat, t \in Texts : q <= Len(base) /\ opOf[s] = make_insert(q, t, s, 0)
  BY <1>2, <1>3, <1>4, <1>5, CursorAtInsert
<1>6. CASE \E q \in Nat, k \in Nat : q + k <= Len(base) /\ opOf[s] = make_delete(q, k, s, 0)
  BY <1>2, <1>3, <1>4, <1>6, CursorAtDelete
<1> QED
  BY <1>1, <1>5, <1>6, OpsOnCases

\* cursor_translator.cpp for every text, operation and cursor: the cursor stays
\* in the text, and what follows it is what the operation left of what
\* followed it.
THEOREM CursorsKeepPlace == Spec => []CursorKeepsPlace
<1>1. Spec => []IndInv
  BY InitInd, StepInd, PTL DEF Spec
<1> QED
  BY <1>1, IndKeepsPlace, PTL
====
