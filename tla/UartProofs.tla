------------------------------ MODULE UartProofs ------------------------------
(***************************************************************************)
(* Lemmas about UartDriver for the proofs about the two tasks that use it: *)
(* the number of pieces that a queue of events announces, and the order of *)
(* the pieces between the line and what a task has read.                   *)
(***************************************************************************)
EXTENDS UartDriver, QueueLemmas, FiniteSetTheorems

-----------------------------------------------------------------------------
(* Announced *)

Pieces(q) == UNION {PiecesOfEvent(q, i) : i \in DOMAIN q}

LEMMA PiecesOfOne ==
    ASSUME NEW i, NEW n \in Nat
    PROVE  IsFiniteSet({i} \X (1 .. n)) /\ Cardinality({i} \X (1 .. n)) = n
<1>1. IsFiniteSet({i}) /\ Cardinality({i}) = 1
  BY FS_Singleton
<1>2. IsFiniteSet(1 .. n) /\ Cardinality(1 .. n) = n
  BY FS_Interval
<1>3. /\ IsFiniteSet({i} \X (1 .. n))
      /\ Cardinality({i} \X (1 .. n)) = Cardinality({i}) * Cardinality(1 .. n)
  BY <1>1, <1>2, FS_Product
<1> QED
  BY <1>1, <1>2, <1>3

LEMMA EventType ==
    ASSUME NEW e \in Event
    PROVE  e.size \in Nat
  BY DEF Event

LEMMA PiecesFinite ==
    ASSUME NEW q \in Seq(Event)
    PROVE  IsFiniteSet(Pieces(q))
<1> DEFINE S == {PiecesOfEvent(q, i) : i \in 1 .. Len(q)}
           f == [i \in 1 .. Len(q) |-> PiecesOfEvent(q, i)]
<1>1. Len(q) \in Nat /\ DOMAIN q = 1 .. Len(q) /\ \A i \in 1 .. Len(q) : q[i].size \in Nat
  BY LenProperties, ElementOfSeq, EventType
<1>2. f \in Surjection(1 .. Len(q), S)
  BY DEF Surjection
<1>3. IsFiniteSet(1 .. Len(q))
  BY <1>1, FS_Interval
<1>4. IsFiniteSet(S)
  <2> HIDE DEF f, S
  <2> QED
    BY <1>2, <1>3, FS_Surjection
<1>5. \A T \in S : IsFiniteSet(T)
  <2>1. ASSUME NEW i \in 1 .. Len(q)
        PROVE  IsFiniteSet(PiecesOfEvent(q, i))
    BY <1>1, PiecesOfOne DEF PiecesOfEvent
  <2> QED
    BY <2>1
<1> HIDE DEF S
<1>6. IsFiniteSet(UNION S)
  BY <1>4, <1>5, FS_UNION
<1> QED
  BY <1>1, <1>6 DEF S, Pieces

LEMMA AnnouncedType ==
    ASSUME NEW q \in Seq(Event)
    PROVE  Announced(q) \in Nat
<1>1. Announced(q) = Cardinality(Pieces(q))
  BY DEF Announced, Pieces
<1> QED
  BY <1>1, PiecesFinite, FS_CardinalityType

LEMMA AnnouncedNone == Announced(<<>>) = 0
<1>1. UNION {PiecesOfEvent(<<>>, i) : i \in DOMAIN <<>>} = {}
  OBVIOUS
<1> QED
  BY <1>1, FS_EmptySet DEF Announced

\* A set in two parts.
LEMMA TwoParts ==
    ASSUME NEW S, NEW T, IsFiniteSet(S), IsFiniteSet(T), S \cap T = {}
    PROVE  Cardinality(S \cup T) = Cardinality(S) + Cardinality(T)
<1>1. Cardinality(S \cup T) = Cardinality(S) + Cardinality(T) - Cardinality(S \cap T)
  BY FS_Union
<1>2. Cardinality(S) \in Nat /\ Cardinality(T) \in Nat /\ Cardinality(S \cap T) = 0
  BY FS_CardinalityType, FS_EmptySet
<1> QED
  BY <1>1, <1>2

LEMMA AnnouncedAppend ==
    ASSUME NEW q \in Seq(Event), NEW e \in Event
    PROVE  /\ Announced(q) \in Nat
           /\ Announced(Append(q, e)) = Announced(q) + e.size
<1> DEFINE r == Append(q, e)
           n == Len(q)
           T == {n + 1} \X (1 .. e.size)
<1>1. /\ n \in Nat /\ DOMAIN q = 1 .. n /\ DOMAIN r = 1 .. (n + 1)
      /\ \A i \in 1 .. (n + 1) : r[i] = IF i = n + 1 THEN e ELSE q[i]
      /\ r \in Seq(Event)
  BY LenProperties, QueueTypes
<1>2. IsFiniteSet(Pieces(q)) /\ Announced(q) = Cardinality(Pieces(q))
  BY PiecesFinite DEF Announced, Pieces
<1>3. Announced(r) = Cardinality(Pieces(r))
  BY DEF Announced, Pieces
<1>4. IsFiniteSet(T) /\ Cardinality(T) = e.size
  BY PiecesOfOne, EventType
<1> HIDE DEF r, n
<1>5. Pieces(r) = Pieces(q) \cup T
  <2>1. ASSUME NEW u
        PROVE  u \in Pieces(r) <=> \E i \in 1 .. (n + 1) : u \in PiecesOfEvent(r, i)
    BY <1>1 DEF Pieces
  <2>2. ASSUME NEW u
        PROVE  u \in Pieces(q) <=> \E i \in 1 .. n : u \in PiecesOfEvent(q, i)
    BY <1>1 DEF Pieces
  <2>3. \A i \in 1 .. n : i \in 1 .. (n + 1) /\ PiecesOfEvent(r, i) = PiecesOfEvent(q, i)
    BY <1>1 DEF PiecesOfEvent
  <2>4. n + 1 \in 1 .. (n + 1) /\ PiecesOfEvent(r, n + 1) = T
    BY <1>1 DEF PiecesOfEvent
  <2>5. \A i \in 1 .. (n + 1) : i \in 1 .. n \/ i = n + 1
    BY <1>1
  <2> HIDE DEF T
  <2> QED
    BY <2>1, <2>2, <2>3, <2>4, <2>5
<1>6. Pieces(q) \cap T = {}
  <2>1. \A i \in 1 .. n : i # n + 1
    BY <1>1
  <2> QED
    BY <1>1, <2>1 DEF Pieces, PiecesOfEvent
<1>7. Cardinality(Pieces(q)) \in Nat
  BY <1>2, FS_CardinalityType
<1> HIDE DEF T
<1>8. Cardinality(Pieces(q) \cup T) = Cardinality(Pieces(q)) + Cardinality(T)
  BY <1>2, <1>4, <1>6, TwoParts
<1> QED
  BY <1>2, <1>3, <1>4, <1>5, <1>7, <1>8 DEF r

LEMMA AnnouncedTail ==
    ASSUME NEW q \in Seq(Event), q # <<>>
    PROVE  Announced(q) = Announced(Tail(q)) + Head(q).size
<1> DEFINE r == Tail(q)
           n == Len(r)
           T == {1} \X (1 .. q[1].size)
           U == Pieces(q) \ T
           f == [u \in U |-> <<u[1] - 1, u[2]>>]
<1>1. /\ n \in Nat /\ DOMAIN r = 1 .. n /\ DOMAIN q = 1 .. (n + 1) /\ Head(q) = q[1]
      /\ \A i \in 1 .. n : r[i] = q[i + 1]
      /\ r \in Seq(Event) /\ q[1] \in Event
  BY LenProperties, QueueTypes
<1>2. /\ IsFiniteSet(Pieces(q)) /\ Announced(q) = Cardinality(Pieces(q))
      /\ Announced(r) = Cardinality(Pieces(r))
  BY PiecesFinite DEF Announced, Pieces
<1>3. IsFiniteSet(T) /\ Cardinality(T) = q[1].size
  BY <1>1, PiecesOfOne, EventType
<1> HIDE DEF r, n
<1>p. /\ \A u : u \in Pieces(q) <=> \E i \in 1 .. (n + 1) : \E b \in 1 .. q[i].size : u = <<i, b>>
      /\ \A u : u \in Pieces(r) <=> \E i \in 1 .. n : \E b \in 1 .. r[i].size : u = <<i, b>>
  BY <1>1 DEF Pieces, PiecesOfEvent
<1>4. T \subseteq Pieces(q)
  BY <1>1, <1>p
<1>u. \A u : u \in U <=> \E i \in 2 .. (n + 1) : \E b \in 1 .. q[i].size : u = <<i, b>>
  <2>1. ASSUME NEW u \in U
        PROVE  \E i \in 2 .. (n + 1) : \E b \in 1 .. q[i].size : u = <<i, b>>
    <3>1. PICK i \in 1 .. (n + 1) : \E b \in 1 .. q[i].size : u = <<i, b>>
      BY <1>p
    <3>2. i # 1
      BY <3>1
    <3> QED
      BY <1>1, <3>1, <3>2
  <2>2. ASSUME NEW i \in 2 .. (n + 1), NEW b \in 1 .. q[i].size
        PROVE  <<i, b>> \in U
    <3>1. i \in 1 .. (n + 1) /\ i # 1
      BY <1>1
    <3>2. <<i, b>> \in Pieces(q)
      BY <1>p, <3>1
    <3> QED
      BY <3>1, <3>2
  <2> HIDE DEF U
  <2> QED
    BY <2>1, <2>2
<1> HIDE DEF U
<1>5. f \in Bijection(U, Pieces(r))
  <2>1. ASSUME NEW u \in U
        PROVE  f[u] \in Pieces(r)
    <3>0. PICK i \in 2 .. (n + 1) : \E b \in 1 .. q[i].size : u = <<i, b>>
      BY <1>u
    <3>1. PICK b \in 1 .. q[i].size : u = <<i, b>>
      BY <3>0
    <3>2. i - 1 \in 1 .. n /\ r[i - 1] = q[i] /\ f[u] = <<i - 1, b>>
      BY <1>1, <3>1
    <3> HIDE DEF f
    <3> QED
      BY <1>p, <3>2
  <2>2. ASSUME NEW u \in U, NEW v \in U, f[u] = f[v]
        PROVE  u = v
    <3>0. PICK i \in 2 .. (n + 1) : \E b \in 1 .. q[i].size : u = <<i, b>>
      BY <1>u
    <3>1. PICK b \in 1 .. q[i].size : u = <<i, b>>
      BY <3>0
    <3>j. PICK j \in 2 .. (n + 1) : \E c \in 1 .. q[j].size : v = <<j, c>>
      BY <1>u
    <3>2. PICK c \in 1 .. q[j].size : v = <<j, c>>
      BY <3>j
    <3>3. <<i - 1, b>> = <<j - 1, c>>
      BY <2>2, <3>1, <3>2
    <3>4. i - 1 = j - 1 /\ b = c
      BY <3>3
    <3>5. i = j
      BY <3>4
    <3> QED
      BY <3>1, <3>2, <3>4, <3>5
  <2>3. ASSUME NEW v \in Pieces(r)
        PROVE  \E u \in U : f[u] = v
    <3>0. PICK i \in 1 .. n : \E b \in 1 .. r[i].size : v = <<i, b>>
      BY <1>p
    <3>1. PICK b \in 1 .. r[i].size : v = <<i, b>>
      BY <3>0
    <3>2. i + 1 \in 2 .. (n + 1) /\ r[i] = q[i + 1] /\ (i + 1) - 1 = i
      BY <1>1
    <3>3. <<i + 1, b>> \in U
      BY <1>u, <3>1, <3>2
    <3>4. f[<<i + 1, b>>] = v
      BY <3>1, <3>2, <3>3
    <3> QED
      BY <3>3, <3>4
  <2>4. f \in [U -> Pieces(r)]
    BY <2>1
  <2> HIDE DEF f
  <2> QED
    BY <2>2, <2>3, <2>4 DEF Bijection, Injection, Surjection, IsInjective
<1> HIDE DEF f
<1>6. IsFiniteSet(U)
  BY <1>2, FS_Difference DEF U
<1>7. Cardinality(Pieces(r)) = Cardinality(U)
  BY <1>5, <1>6, FS_Bijection DEF ExistsBijection
<1>8. Pieces(q) = U \cup T /\ U \cap T = {}
  BY <1>4 DEF U
<1> HIDE DEF T
<1>9. Cardinality(U \cup T) = Cardinality(U) + Cardinality(T)
  BY <1>3, <1>6, <1>8, TwoParts
<1> QED
  BY <1>1, <1>2, <1>3, <1>7, <1>8, <1>9 DEF r

-----------------------------------------------------------------------------
(* The order of the pieces *)

Pos(p) == 2 * p.frame + p.part

Ascending(q) == \A i, j \in 1 .. Len(q) : i < j => Pos(q[i]) < Pos(q[j])

Precedes(q, r) == \A x \in Range(q), y \in Range(r) : Pos(x) < Pos(y)

\* The pieces behind low that have arrived and are not lost are in order: those
\* that a task has read (q), those in the ring buffer (r), and those in the FIFO (f).
\* The next piece to arrive is at high.
Stream(low, q, r, f, high) ==
    /\ low < high
    /\ Ascending(q) /\ Ascending(r) /\ Ascending(f)
    /\ Precedes(q, r) /\ Precedes(q, f) /\ Precedes(r, f)
    /\ \A p \in Range(q) \cup Range(r) \cup Range(f) : low < Pos(p) /\ Pos(p) < high

NextPos == 2 * Len(line) + (IF part = 1 THEN 3 ELSE 2)

LEMMA PieceType ==
    ASSUME NEW p \in Piece
    PROVE  p.frame \in Nat /\ p.frame >= 1 /\ p.part \in {1, 2} /\ Pos(p) \in Nat
  BY UartAssumption DEF Piece, Pos

LEMMA AscendingShort == Ascending(<<>>) /\ \A r : Precedes(<<>>, r) /\ Precedes(r, <<>>)
<1>1. Range(<<>>) = {} /\ Len(<<>>) = 0
  BY RangeOfShort, EmptySeq
<1> QED
  BY <1>1 DEF Ascending, Precedes

LEMMA AscendingAppend ==
    ASSUME NEW q \in Seq(Piece), NEW p \in Piece, Ascending(q), \A x \in Range(q) : Pos(x) < Pos(p)
    PROVE  Ascending(Append(q, p)) /\ Range(Append(q, p)) = Range(q) \cup {p}
<1> DEFINE r == Append(q, p)
<1>1. /\ Len(q) \in Nat /\ Len(r) = Len(q) + 1
      /\ \A i \in 1 .. Len(r) : r[i] = IF i = Len(q) + 1 THEN p ELSE q[i]
  BY QueueTypes
<1>2. Range(q) = {q[i] : i \in 1 .. Len(q)} /\ Range(r) = Range(q) \cup {p}
  BY RangeOf
<1> HIDE DEF r
<1>3. ASSUME NEW i \in 1 .. Len(r), NEW j \in 1 .. Len(r), i < j
      PROVE  Pos(r[i]) < Pos(r[j])
  <2>1. i \in 1 .. Len(q) /\ r[i] = q[i] /\ q[i] \in Range(q)
    BY <1>1, <1>2, <1>3
  <2>2. CASE j = Len(q) + 1
    BY <1>1, <2>1, <2>2
  <2>3. CASE j # Len(q) + 1
    BY <1>1, <1>3, <2>1, <2>3 DEF Ascending
  <2> QED
    BY <2>2, <2>3
<1> QED
  BY <1>2, <1>3 DEF Ascending, r

LEMMA AscendingConcat ==
    ASSUME NEW q \in Seq(Piece), NEW r \in Seq(Piece), Ascending(q), Ascending(r), Precedes(q, r)
    PROVE  Ascending(q \o r) /\ Range(q \o r) = Range(q) \cup Range(r)
<1> DEFINE c == q \o r
<1>1. /\ Len(q) \in Nat /\ Len(r) \in Nat /\ Len(c) = Len(q) + Len(r)
      /\ \A i \in 1 .. Len(c) : c[i] = IF i <= Len(q) THEN q[i] ELSE r[i - Len(q)]
  BY LenProperties, ConcatProperties
<1>2. /\ Range(c) = Range(q) \cup Range(r)
      /\ Range(q) = {q[i] : i \in 1 .. Len(q)} /\ Range(r) = {r[i] : i \in 1 .. Len(r)}
  BY RangeConcatenation, RangeOf
<1> HIDE DEF c
<1>3. ASSUME NEW i \in 1 .. Len(c), NEW j \in 1 .. Len(c), i < j
      PROVE  Pos(c[i]) < Pos(c[j])
  <2>1. CASE j <= Len(q)
    BY <1>1, <1>3, <2>1 DEF Ascending
  <2>2. CASE i > Len(q)
    <3>1. /\ i - Len(q) \in 1 .. Len(r) /\ j - Len(q) \in 1 .. Len(r)
          /\ i - Len(q) < j - Len(q) /\ c[i] = r[i - Len(q)] /\ c[j] = r[j - Len(q)]
      BY <1>1, <1>3, <2>2
    <3> QED
      BY <3>1 DEF Ascending
  <2>3. CASE i <= Len(q) /\ j > Len(q)
    <3>1. /\ i \in 1 .. Len(q) /\ j - Len(q) \in 1 .. Len(r)
          /\ c[i] = q[i] /\ c[j] = r[j - Len(q)]
      BY <1>1, <2>3
    <3> QED
      BY <1>2, <3>1 DEF Precedes
  <2> QED
    BY <1>1, <2>1, <2>2, <2>3
<1> QED
  BY <1>2, <1>3 DEF Ascending, c

\* The first k elements and the others.
LEMMA SplitTypes ==
    ASSUME NEW q \in Seq(Piece), NEW k \in 0 .. Len(q)
    PROVE  LET a == SubSeq(q, 1, k)
               b == SubSeq(q, k + 1, Len(q))
           IN /\ a \in Seq(Piece) /\ Len(a) = k /\ \A i \in 1 .. k : a[i] = q[i]
              /\ b \in Seq(Piece) /\ Len(b) = Len(q) - k
              /\ \A i \in 1 .. (Len(q) - k) : b[i] = q[k + i]
<1> DEFINE a == SubSeq(q, 1, k)
           b == SubSeq(q, k + 1, Len(q))
<1>0. Len(q) \in Nat /\ k \in Nat /\ k <= Len(q) /\ \A i \in 1 .. Len(q) : q[i] \in Piece
  BY LenProperties, ElementOfSeq
<1>1. /\ a \in Seq(Piece) /\ Len(a) = k /\ \A i \in 1 .. k : a[i] = q[i]
  <2>1. \A i \in 1 .. k : q[i] \in Piece
    BY <1>0
  <2>2. /\ a \in Seq(Piece) /\ Len(a) = (IF 1 <= k THEN k - 1 + 1 ELSE 0)
        /\ \A i \in 1 .. k - 1 + 1 : a[i] = q[1 + i - 1]
    BY <1>0, <2>1, SubSeqProperties
  <2> QED
    BY <1>0, <2>2
<1>2. /\ b \in Seq(Piece) /\ Len(b) = Len(q) - k /\ \A i \in 1 .. (Len(q) - k) : b[i] = q[k + i]
  <2>1. \A i \in (k + 1) .. Len(q) : q[i] \in Piece
    BY <1>0
  <2>2. /\ b \in Seq(Piece)
        /\ Len(b) = (IF k + 1 <= Len(q) THEN Len(q) - (k + 1) + 1 ELSE 0)
        /\ \A i \in 1 .. Len(q) - (k + 1) + 1 : b[i] = q[(k + 1) + i - 1]
    BY <1>0, <2>1, SubSeqProperties
  <2>3. \A i \in 1 .. (Len(q) - k) : b[i] = q[k + i]
    <3>1. ASSUME NEW i \in 1 .. (Len(q) - k)
          PROVE  i \in 1 .. Len(q) - (k + 1) + 1 /\ (k + 1) + i - 1 = k + i
      BY <1>0
    <3> QED
      BY <2>2, <3>1
  <2> QED
    BY <1>0, <2>2, <2>3
<1> QED
  BY <1>1, <1>2

\* What a read does to the buffer of the task and to the ring buffer.
LEMMA ReadMoves ==
    ASSUME NEW q \in Seq(Piece), NEW r \in Seq(Piece), NEW k \in 0 .. Len(r)
    PROVE  /\ q \o SubSeq(r, 1, k) \in Seq(Piece)
           /\ Len(q \o SubSeq(r, 1, k)) = Len(q) + k
           /\ SubSeq(r, k + 1, Len(r)) \in Seq(Piece)
           /\ Len(SubSeq(r, k + 1, Len(r))) = Len(r) - k
<1>1. /\ SubSeq(r, 1, k) \in Seq(Piece) /\ Len(SubSeq(r, 1, k)) = k
      /\ SubSeq(r, k + 1, Len(r)) \in Seq(Piece)
      /\ Len(SubSeq(r, k + 1, Len(r))) = Len(r) - k
  BY SplitTypes
<1> QED
  BY <1>1, ConcatProperties

LEMMA AscendingSplit ==
    ASSUME NEW q \in Seq(Piece), NEW k \in 0 .. Len(q), Ascending(q)
    PROVE  LET a == SubSeq(q, 1, k)
               b == SubSeq(q, k + 1, Len(q))
           IN /\ a \in Seq(Piece) /\ b \in Seq(Piece)
              /\ Ascending(a) /\ Ascending(b) /\ Precedes(a, b)
              /\ Range(a) \subseteq Range(q) /\ Range(b) \subseteq Range(q)
<1> DEFINE a == SubSeq(q, 1, k)
           b == SubSeq(q, k + 1, Len(q))
<1>0. Len(q) \in Nat /\ k \in Nat /\ k <= Len(q)
  BY LenProperties
<1>1. a \in Seq(Piece) /\ Len(a) = k /\ \A i \in 1 .. k : a[i] = q[i]
  BY SplitTypes
<1>2. /\ b \in Seq(Piece) /\ Len(b) = Len(q) - k
      /\ \A i \in 1 .. (Len(q) - k) : b[i] = q[k + i]
  BY SplitTypes
<1> HIDE DEF a, b
<1>3. /\ Range(q) = {q[i] : i \in 1 .. Len(q)}
      /\ Range(a) = {a[i] : i \in 1 .. k} /\ Range(b) = {b[i] : i \in 1 .. (Len(q) - k)}
  BY <1>1, <1>2, RangeOf
<1>4. Ascending(a)
  BY <1>0, <1>1 DEF Ascending
<1>5. Ascending(b)
  <2>1. ASSUME NEW i \in 1 .. (Len(q) - k), NEW j \in 1 .. (Len(q) - k), i < j
        PROVE  Pos(b[i]) < Pos(b[j])
    <3>1. k + i \in 1 .. Len(q) /\ k + j \in 1 .. Len(q) /\ k + i < k + j
      BY <1>0, <2>1
    <3> QED
      BY <1>2, <3>1 DEF Ascending
  <2> QED
    BY <1>2, <2>1 DEF Ascending
<1>6. Precedes(a, b)
  <2>1. ASSUME NEW i \in 1 .. k, NEW j \in 1 .. (Len(q) - k)
        PROVE  Pos(a[i]) < Pos(b[j])
    <3>1. i \in 1 .. Len(q) /\ k + j \in 1 .. Len(q) /\ i < k + j
      BY <1>0
    <3> QED
      BY <1>1, <1>2, <3>1 DEF Ascending
  <2> QED
    BY <1>3, <2>1 DEF Precedes
<1>7. Range(a) \subseteq Range(q) /\ Range(b) \subseteq Range(q)
  <2>1. /\ \A i \in 1 .. k : i \in 1 .. Len(q)
        /\ \A i \in 1 .. (Len(q) - k) : k + i \in 1 .. Len(q)
    BY <1>0
  <2> QED
    BY <1>1, <1>2, <1>3, <2>1
<1> QED
  BY <1>1, <1>2, <1>4, <1>5, <1>6, <1>7 DEF a, b

\* What has been read is done with: the rest comes after each piece of it.
LEMMA StreamDone ==
    ASSUME NEW low, NEW high, NEW q, NEW r, NEW f, Stream(low, q, r, f, high)
    PROVE  /\ Stream(low, <<>>, r, f, high)
           /\ \A p \in Range(q) :
                 Stream(Pos(p), <<>>, r, f, high) /\ low < Pos(p) /\ Pos(p) < high
  BY AscendingShort, RangeOfShort DEF Stream, Precedes

LEMMA StreamFlush ==
    ASSUME NEW low, NEW high, NEW q, NEW r, NEW f, Stream(low, q, r, f, high)
    PROVE  Stream(low, q, r, <<>>, high) /\ Stream(low, q, <<>>, <<>>, high)
  BY AscendingShort, RangeOfShort DEF Stream

LEMMA StreamRead ==
    ASSUME NEW low, NEW high, NEW q \in Seq(Piece), NEW r \in Seq(Piece), NEW f,
           NEW k \in 0 .. Len(r), Stream(low, q, r, f, high)
    PROVE  Stream(low, q \o SubSeq(r, 1, k), SubSeq(r, k + 1, Len(r)), f, high)
<1> DEFINE a == SubSeq(r, 1, k)
           b == SubSeq(r, k + 1, Len(r))
<1>1. /\ a \in Seq(Piece) /\ Ascending(a) /\ Ascending(b) /\ Precedes(a, b)
      /\ Range(a) \subseteq Range(r) /\ Range(b) \subseteq Range(r)
  BY AscendingSplit DEF Stream
<1> HIDE DEF a, b
<1>2. Precedes(q, a)
  BY <1>1 DEF Stream, Precedes
<1>3. Ascending(q \o a) /\ Range(q \o a) = Range(q) \cup Range(a)
  BY <1>1, <1>2, AscendingConcat DEF Stream
<1>4. Precedes(q \o a, b) /\ Precedes(q \o a, f) /\ Precedes(b, f)
  BY <1>1, <1>3 DEF Stream, Precedes
<1>5. Stream(low, q \o a, b, f, high)
  BY <1>1, <1>3, <1>4 DEF Stream
<1> QED
  BY <1>5 DEF a, b

-----------------------------------------------------------------------------
(* The steps of the driver *)

\* Only events with data announce pieces.
SizedEvent == {e \in Event : e.type = "UART_DATA" \/ e.size = 0}

UartTypes ==
    /\ line \in Seq(Kinds) /\ Len(line) <= MaxFrames
    /\ part \in {1, 2} /\ (part = 2 => Len(line) >= 1)
    /\ fifo \in Seq(Piece) /\ ring \in Seq(Piece)
    /\ uart_queue \in Seq(SizedEvent) /\ uart_queue \in Seq(Event)
    /\ Len(uart_queue) <= EVENT_QUEUE
    /\ errors \in 0 .. MaxErrors

UartStep ==
    \/ \E k \in Kinds : Arrive(k)
    \/ IsrData
    \/ \E type \in Errors : IsrError(type)

LEMMA PostType ==
    ASSUME UartTypes, NEW e \in SizedEvent, Post(e)
    PROVE  /\ uart_queue' \in Seq(SizedEvent) /\ uart_queue' \in Seq(Event)
           /\ Len(uart_queue') <= EVENT_QUEUE
           /\ trouble \subseteq trouble' /\ trouble' \subseteq trouble \cup {"dropped"}
           /\ Announced(uart_queue) \in Nat
           /\ \/ Announced(uart_queue') = Announced(uart_queue) + e.size
              \/ Announced(uart_queue') = Announced(uart_queue) /\ "dropped" \in trouble'
<1>1. CASE Len(uart_queue) < EVENT_QUEUE
  <2>1. uart_queue' = Append(uart_queue, e) /\ trouble' = trouble
    BY <1>1 DEF Post
  <2>0. e \in Event
    BY DEF SizedEvent
  <2>2. /\ Append(uart_queue, e) \in Seq(Event) /\ Append(uart_queue, e) \in Seq(SizedEvent)
        /\ Len(Append(uart_queue, e)) = Len(uart_queue) + 1 /\ Len(uart_queue) \in Nat
    BY <2>0, QueueTypes DEF UartTypes
  <2>3. /\ Announced(uart_queue) \in Nat
        /\ Announced(Append(uart_queue, e)) = Announced(uart_queue) + e.size
    BY <2>0, AnnouncedAppend DEF UartTypes
  <2>4. Len(uart_queue') <= EVENT_QUEUE
    BY <1>1, <2>1, <2>2, UartAssumption
  <2> QED
    BY <2>1, <2>2, <2>3, <2>4
<1>2. CASE ~(Len(uart_queue) < EVENT_QUEUE)
  BY <1>2, AnnouncedType DEF Post, UartTypes
<1> QED
  BY <1>1, <1>2

LEMMA ArriveStep ==
    ASSUME UartTypes, NEW k \in Kinds, Arrive(k)
    PROVE  /\ Len(line') \in Nat /\ Len(line) \in Nat /\ Len(line') <= MaxFrames
           /\ line' \in Seq(Kinds)
           /\ \A i \in 1 .. Len(line) : i \in 1 .. Len(line') /\ line'[i] = line[i]
           /\ [frame |-> Len(line'), part |-> part] \in Piece
           /\ Pos([frame |-> Len(line'), part |-> part]) = NextPos
           /\ NextPos' = NextPos + 1 /\ NextPos \in Nat
           /\ part' \in {1, 2} /\ (part' = 2 => Len(line') >= 1)
<1>t. Len(line) \in Nat /\ line \in Seq(Kinds) /\ MaxFrames \in Nat
  BY LenProperties, UartAssumption DEF UartTypes
<1>1. CASE part = 1
  <2>1. line' = Append(line, k) /\ Len(line) < MaxFrames /\ part' = 2
    BY <1>1 DEF Arrive
  <2>2. /\ line' \in Seq(Kinds) /\ Len(line') = Len(line) + 1
        /\ \A i \in 1 .. Len(line') : line'[i] = IF i = Len(line) + 1 THEN k ELSE line[i]
    BY <1>t, <2>1, QueueTypes
  <2>3. [frame |-> Len(line'), part |-> part] \in Piece
    BY <1>t, <1>1, <2>1, <2>2 DEF Piece
  <2>4. \A i \in 1 .. Len(line) : i \in 1 .. Len(line') /\ line'[i] = line[i]
    BY <1>t, <2>2
  <2> QED
    BY <1>t, <1>1, <2>1, <2>2, <2>3, <2>4 DEF Pos, NextPos
<1>2. CASE part = 2
  <2>1. line' = line /\ part' = 1 /\ k = line[Len(line)]
    BY <1>2 DEF Arrive
  <2> QED
    BY <1>t, <1>2, <2>1 DEF Pos, NextPos, Piece, UartTypes
<1> QED
  BY <1>1, <1>2 DEF UartTypes

\* Whatever the driver does, the types and the order of the pieces hold, frames
\* keep their kinds, and the events announce the pieces that they bring or fewer.
LEMMA UartStepKeeps ==
    ASSUME UartTypes, UartStep
    PROVE  /\ UartTypes'
           /\ Len(fifo) <= FIFO => Len(fifo') <= FIFO
           /\ trouble \subseteq trouble' /\ trouble' \subseteq trouble \cup {"dropped"}
           /\ \A low \in Int, q \in Seq(Piece) :
                 Stream(low, q, ring, fifo, NextPos) => Stream(low, q, ring', fifo', NextPos')
           /\ NextPos \in Nat /\ NextPos' \in Nat /\ NextPos <= NextPos'
           /\ Len(line) \in Nat /\ Len(line') \in Nat
           /\ \A i \in 1 .. Len(line) : i \in 1 .. Len(line') /\ line'[i] = line[i]
           /\ \E n \in Nat :
                 /\ Len(ring') = Len(ring) + n
                 /\ \/ Announced(uart_queue') = Announced(uart_queue) + n
                    \/ Announced(uart_queue') = Announced(uart_queue) /\ "dropped" \in trouble'
<1>t. /\ Len(line) \in Nat /\ Len(ring) \in Nat /\ Len(fifo) \in Nat /\ NextPos \in Nat
      /\ FIFO \in Nat /\ 0 \in Nat
  BY LenProperties, UartAssumption DEF UartTypes, NextPos
<1>1. ASSUME NEW k \in Kinds, Arrive(k)
      PROVE  /\ UartTypes' /\ Len(fifo') <= FIFO /\ trouble' = trouble
             /\ \A low \in Int, q \in Seq(Piece) :
                   Stream(low, q, ring, fifo, NextPos) => Stream(low, q, ring', fifo', NextPos')
             /\ NextPos <= NextPos' /\ NextPos' \in Nat /\ Len(line') \in Nat
             /\ \A i \in 1 .. Len(line) : i \in 1 .. Len(line') /\ line'[i] = line[i]
             /\ Len(ring') = Len(ring) + 0
             /\ Announced(uart_queue') = Announced(uart_queue) + 0
  <2> DEFINE p == [frame |-> Len(line'), part |-> part]
  <2>1. /\ UNCHANGED <<ring, uart_queue, errors, trouble>> /\ fifo' = Append(fifo, p)
        /\ Len(fifo) < FIFO
    BY <1>1 DEF Arrive
  <2>2. /\ Len(line') \in Nat /\ Len(line') <= MaxFrames
        /\ line' \in Seq(Kinds) /\ part' \in {1, 2} /\ (part' = 2 => Len(line') >= 1)
        /\ \A i \in 1 .. Len(line) : i \in 1 .. Len(line') /\ line'[i] = line[i]
        /\ p \in Piece /\ Pos(p) = NextPos /\ NextPos' = NextPos + 1
    BY <1>1, ArriveStep
  <2> HIDE DEF p
  <2>3. fifo' \in Seq(Piece) /\ Len(fifo') = Len(fifo) + 1
    BY <2>1, <2>2, QueueTypes DEF UartTypes
  <2>4. ASSUME NEW low \in Int, NEW q \in Seq(Piece), Stream(low, q, ring, fifo, NextPos)
        PROVE  Stream(low, q, ring', fifo', NextPos')
    <3>0. \A x \in Range(q) \cup Range(ring) \cup Range(fifo) : Pos(x) \in Int
      BY RangeOf, PieceType DEF UartTypes
    <3>1. \A x \in Range(q) \cup Range(ring) \cup Range(fifo) : low < Pos(x) /\ Pos(x) < Pos(p)
      BY <2>2, <2>4 DEF Stream
    <3>2. Ascending(fifo') /\ Range(fifo') = Range(fifo) \cup {p}
      BY <2>1, <2>2, <2>4, <3>1, AscendingAppend DEF Stream, UartTypes
    <3>3. Precedes(q, fifo') /\ Precedes(ring, fifo')
      BY <2>4, <3>1, <3>2 DEF Stream, Precedes
    <3>4. ASSUME NEW x \in Range(q) \cup Range(ring') \cup Range(fifo')
          PROVE  low < Pos(x) /\ Pos(x) < NextPos'
      <4>1. CASE x = p
        BY <1>t, <2>2, <2>4, <4>1 DEF Stream
      <4>2. CASE x \in Range(q) \cup Range(ring) \cup Range(fifo)
        <5>1. low < Pos(x) /\ Pos(x) < NextPos /\ Pos(x) \in Int
          BY <2>4, <3>0, <4>2 DEF Stream
        <5> QED
          BY <1>t, <2>2, <5>1
      <4> QED
        BY <2>1, <3>2, <4>1, <4>2
    <3> QED
      BY <1>t, <2>1, <2>2, <2>4, <3>2, <3>3, <3>4 DEF Stream
  <2>5. Announced(uart_queue) \in Nat
    BY AnnouncedType DEF UartTypes
  <2> QED
    BY <1>t, <2>1, <2>2, <2>3, <2>4, <2>5 DEF UartTypes
<1>2. CASE IsrData
  <2> DEFINE e == [type |-> "UART_DATA", size |-> Len(fifo)]
  <2>1. /\ UNCHANGED <<line, part, errors>> /\ NextPos' = NextPos
        /\ ring' = ring \o fifo /\ fifo' = <<>> /\ Post(e)
    BY <1>2 DEF IsrData, NextPos
  <2>2. e \in SizedEvent /\ e.size = Len(fifo)
    BY <1>t DEF Event, SizedEvent
  <2> HIDE DEF e
  <2>3. /\ uart_queue' \in Seq(Event) /\ uart_queue' \in Seq(SizedEvent)
        /\ Len(uart_queue') <= EVENT_QUEUE
        /\ trouble \subseteq trouble' /\ trouble' \subseteq trouble \cup {"dropped"}
        /\ \/ Announced(uart_queue') = Announced(uart_queue) + e.size
           \/ Announced(uart_queue') = Announced(uart_queue) /\ "dropped" \in trouble'
    BY <2>1, <2>2, PostType
  <2>4. ring' \in Seq(Piece) /\ Len(ring') = Len(ring) + Len(fifo)
    BY <2>1, ConcatProperties DEF UartTypes
  <2>5. fifo' \in Seq(Piece) /\ Len(fifo') = 0 /\ Ascending(fifo') /\ Range(fifo') = {}
    BY <2>1, EmptySeq, AscendingShort, RangeOfShort
  <2>6. ASSUME NEW low \in Int, NEW q \in Seq(Piece), Stream(low, q, ring, fifo, NextPos)
        PROVE  Stream(low, q, ring', fifo', NextPos')
    <3>1. Ascending(ring') /\ Range(ring') = Range(ring) \cup Range(fifo)
      BY <2>1, <2>6, AscendingConcat DEF Stream, UartTypes
    <3>2. Precedes(q, ring') /\ Precedes(q, fifo') /\ Precedes(ring', fifo')
      BY <2>5, <2>6, <3>1 DEF Stream, Precedes
    <3> QED
      BY <2>1, <2>5, <2>6, <3>1, <3>2 DEF Stream
  <2>7. UartTypes'
    BY <2>1, <2>3, <2>4, <2>5 DEF UartTypes
  <2>8. /\ Len(fifo') <= FIFO
        /\ \A i \in 1 .. Len(line) : i \in 1 .. Len(line') /\ line'[i] = line[i]
        /\ NextPos <= NextPos'
    BY <1>t, <2>1, <2>5
  <2>9. \E n \in Nat :
           /\ Len(ring') = Len(ring) + n
           /\ \/ Announced(uart_queue') = Announced(uart_queue) + n
              \/ Announced(uart_queue') = Announced(uart_queue) /\ "dropped" \in trouble'
    BY <1>t, <2>2, <2>3, <2>4
  <2> QED
    BY <1>t, <2>1, <2>3, <2>6, <2>7, <2>8, <2>9
<1>3. ASSUME NEW type \in Errors, IsrError(type)
      PROVE  /\ UartTypes' /\ Len(fifo') <= FIFO
             /\ trouble \subseteq trouble' /\ trouble' \subseteq trouble \cup {"dropped"}
             /\ \A low \in Int, q \in Seq(Piece) :
                   Stream(low, q, ring, fifo, NextPos) => Stream(low, q, ring', fifo', NextPos')
             /\ UNCHANGED <<line, ring>> /\ NextPos' = NextPos
             /\ Announced(uart_queue') = Announced(uart_queue) + 0
  <2> DEFINE e == [type |-> type, size |-> 0]
  <2>1. /\ UNCHANGED <<line, part, ring>> /\ NextPos' = NextPos
        /\ fifo' = <<>> /\ Post(e) /\ errors < MaxErrors /\ errors' = errors + 1
    BY <1>3 DEF IsrError, NextPos
  <2>2. e \in SizedEvent /\ e.size = 0
    BY DEF Event, SizedEvent
  <2> HIDE DEF e
  <2>3. /\ uart_queue' \in Seq(Event) /\ uart_queue' \in Seq(SizedEvent)
        /\ Len(uart_queue') <= EVENT_QUEUE
        /\ trouble \subseteq trouble' /\ trouble' \subseteq trouble \cup {"dropped"} /\ Announced(uart_queue) \in Nat
        /\ \/ Announced(uart_queue') = Announced(uart_queue) + e.size
           \/ Announced(uart_queue') = Announced(uart_queue) /\ "dropped" \in trouble'
    BY <2>1, <2>2, PostType
  <2>4. fifo' \in Seq(Piece) /\ Len(fifo') = 0
    BY <2>1, EmptySeq
  <2>5. errors' \in 0 .. MaxErrors
    BY <2>1, UartAssumption DEF UartTypes
  <2>6. \A low \in Int, q \in Seq(Piece) :
           Stream(low, q, ring, fifo, NextPos) => Stream(low, q, ring', fifo', NextPos')
    BY <2>1, StreamFlush
  <2>7. UartTypes'
    BY <2>1, <2>3, <2>4, <2>5 DEF UartTypes
  <2>8. Announced(uart_queue') = Announced(uart_queue) + 0
    <3>1. Announced(uart_queue') = Announced(uart_queue)
      BY <2>2, <2>3
    <3> QED
      BY <2>3, <3>1
  <2>9. Len(fifo') <= FIFO
    BY <1>t, <2>4
  <2> QED
    BY <2>1, <2>3, <2>6, <2>7, <2>8, <2>9
<1>4. CASE \E k \in Kinds : Arrive(k)
  <2>1. PICK k \in Kinds : Arrive(k)
    BY <1>4
  <2>2. \E n \in Nat : Len(ring') = Len(ring) + n /\ Announced(uart_queue') = Announced(uart_queue) + n
    BY <1>t, <1>1, <2>1
  <2> QED
    BY <1>t, <1>1, <2>1, <2>2
<1>5. CASE \E type \in Errors : IsrError(type)
  <2>1. PICK type \in Errors : IsrError(type)
    BY <1>5
  <2>2. Len(ring') = Len(ring) + 0 /\ Len(line') \in Nat /\ NextPos' \in Nat /\ NextPos <= NextPos'
    BY <1>t, <1>3, <2>1
  <2>3. \E n \in Nat : Len(ring') = Len(ring) + n /\ Announced(uart_queue') = Announced(uart_queue) + n
    BY <1>t, <1>3, <2>1, <2>2
  <2>4. \A i \in 1 .. Len(line) : i \in 1 .. Len(line') /\ line'[i] = line[i]
    BY <1>3, <2>1
  <2> QED
    BY <1>t, <1>3, <2>1, <2>2, <2>3, <2>4
<1>6. CASE IsrData
  <2>1. Len(line') \in Nat /\ NextPos' \in Nat
    BY <1>t, <1>6 DEF IsrData, NextPos
  <2> QED
    BY <1>t, <1>2, <1>6, <2>1
<1> QED
  BY <1>4, <1>5, <1>6 DEF UartStep
=============================================================================
