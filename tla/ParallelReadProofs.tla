-------------------------- MODULE ParallelReadProofs --------------------------
(***************************************************************************)
(* Proofs about ParallelRead for arrays, chunks and thread counts of every *)
(* size and for every way WorkParallelForN may cut the tasks.              *)
(*                                                                         *)
(* The arithmetic comes first: the task ranges of the bodies partition the *)
(* tasks, and the pieces of the tasks partition the array, in all three    *)
(* styles.  The inductive invariant then says that as long as nobody has   *)
(* failed, what a body has behind it is stored.                            *)
(***************************************************************************)
EXTENDS ParallelRead, Integers, FiniteSetTheorems, WellFoundedInduction, TLAPS

-----------------------------------------------------------------------------
(* Arithmetic.                                                             *)

\* A set of natural numbers that is not empty has a least element.
LEMMA LeastElement ==
  ASSUME NEW S, S \subseteq Nat, S # {}
  PROVE  \E x \in S : \A y \in S : x <= y
<1>1. PICK x \in S : \A y \in S : ~ (<<y, x>> \in OpToRel(<, Nat))
  BY NatLessThanWellFounded, WFMin
<1>2. ASSUME NEW y \in S
      PROVE  x <= y
  <2>1. ASSUME y < x
        PROVE  FALSE
    <3>1. <<y, x>> \in {ss \in Nat \X Nat : ss[1] < ss[2]}
      BY <2>1
    <3> QED
      BY <1>1, <3>1 DEF OpToRel
  <2> QED
    BY <2>1
<1> QED
  BY <1>2

\* A quotient lies below its dividend by less than the divisor.
LEMMA DivisionBounds ==
  ASSUME NEW a \in Nat, NEW T \in Nat \ {0}
  PROVE  a \div T \in Nat /\ (a \div T) * T <= a /\ a < (a \div T) * T + T
  BY SMT

\* Larger numbers have larger quotients.
LEMMA DivisionIsMonotonic ==
  ASSUME NEW a \in Nat, NEW b \in Nat, a <= b, NEW T \in Nat \ {0}
  PROVE  a \div T <= b \div T
  BY SMT

\* Division undoes multiplication.
LEMMA DivisionOfMultiple ==
  ASSUME NEW a \in Nat, NEW T \in Nat \ {0}
  PROVE  (a * T) \div T = a
  BY SMT

\* Larger numbers have larger products.
LEMMA ProductIsMonotonic ==
  ASSUME NEW a \in Nat, NEW b \in Nat, a <= b, NEW T \in Nat
  PROVE  a * T \in Nat /\ a * T <= b * T /\ T * a <= T * b
  BY SMT

\* What is added to a multiple is its remainder.
LEMMA RemainderOf ==
  ASSUME NEW i \in Nat, NEW T \in Nat \ {0}, NEW t \in 0..(T - 1)
  PROVE  (t + i * T) % T = t
  BY SMT

\* A number is its remainder and a multiple of the divisor.
LEMMA RemainderBounds ==
  ASSUME NEW a \in Nat, NEW T \in Nat \ {0}
  PROVE  /\ a % T \in 0..(T - 1) /\ a \div T \in Nat
         /\ a = (a % T) + (a \div T) * T
<1> DEFINE q == a \div T
           r == a - q * T
<1>1. q \in Nat /\ q * T \in Nat /\ q * T <= a /\ a < q * T + T
  BY DivisionBounds
<1> HIDE DEF q
<1>2. r \in 0..(T - 1) /\ a = r + q * T
  BY <1>1
<1> HIDE DEF r
<1>3. a % T = r
  BY <1>1, <1>2, RemainderOf
<1> QED
  BY <1>1, <1>2, <1>3 DEF q

\* Two remainders reach the same number only if they are the same.
LEMMA StridesApart ==
  ASSUME NEW T \in Nat \ {0}, NEW t \in 0..(T - 1), NEW u \in 0..(T - 1),
         NEW i \in Nat, NEW j \in Nat, t + i * T = u + j * T
  PROVE  t = u
  BY RemainderOf

\* Where the part of task t begins when n things are dealt out to T tasks.
Share(n, t, T) == (n * t) \div T

\* Shares are natural numbers.
LEMMA ShareType ==
  ASSUME NEW n \in Nat, NEW T \in Nat \ {0}, NEW t \in Nat
  PROVE  Share(n, t, T) \in Nat
  BY ProductIsMonotonic, DivisionBounds DEF Share

\* Parts follow each other and stay within the n things.
LEMMA SharesApart ==
  ASSUME NEW n \in Nat, NEW T \in Nat \ {0}, NEW t \in Nat, NEW u \in Nat, t <= u
  PROVE  Share(n, t, T) <= Share(n, u, T)
<1>1. n * t \in Nat /\ n * u \in Nat /\ n * t <= n * u
  BY ProductIsMonotonic
<1> QED
  BY <1>1, DivisionBounds, DivisionIsMonotonic DEF Share

\* The first share begins at 0, the last one ends at n.
LEMMA LastShare ==
  ASSUME NEW n \in Nat, NEW T \in Nat \ {0}
  PROVE  Share(n, 0, T) = 0 /\ Share(n, T, T) = n
  BY DivisionOfMultiple DEF Share

\* All n things are dealt.
LEMMA ShareOf ==
  ASSUME NEW n \in Nat, NEW T \in Nat \ {0}, NEW i \in 0..(n - 1)
  PROVE  \E t \in 0..(T - 1) : Share(n, t, T) <= i /\ i < Share(n, t + 1, T)
<1> DEFINE S == {s \in 0..T : i < Share(n, s, T)}
<1>1. T \in S
  BY LastShare
<1>2. PICK s \in S : \A y \in S : s <= y
  <2>1. S \subseteq Nat
    OBVIOUS
  <2> HIDE DEF S
  <2> QED
    BY <1>1, <2>1, LeastElement
<1>3. s # 0
  BY LastShare
<1>4. s - 1 \in 0..(T - 1) /\ s - 1 \notin S
  BY <1>2, <1>3
<1>5. Share(n, s - 1, T) <= i
  <2>1. Share(n, s - 1, T) \in Nat
    BY <1>4, ShareType
  <2> QED
    BY <1>4, <2>1
<1>6. (s - 1) + 1 = s
  BY <1>4
<1> QED
  BY <1>4, <1>5, <1>6

-----------------------------------------------------------------------------
(* Chunks, tasks and pieces.                                               *)

\* The smaller of two numbers.
LEMMA MinOfTwo ==
  ASSUME NEW a \in Int, NEW b \in Int
  PROVE  /\ MinOf({a, b}) \in {a, b}
         /\ MinOf({a, b}) <= a /\ MinOf({a, b}) <= b
<1>1. \E x \in {a, b} : \A y \in {a, b} : x <= y
  OBVIOUS
<1> QED
  BY <1>1 DEF MinOf

\* The smallest of three numbers.
LEMMA MinOfThree ==
  ASSUME NEW a \in Int, NEW b \in Int, NEW c \in Int
  PROVE  /\ MinOf({a, b, c}) \in {a, b, c}
         /\ MinOf({a, b, c}) <= a /\ MinOf({a, b, c}) <= b /\ MinOf({a, b, c}) <= c
<1>1. \E x \in {a, b, c} : \A y \in {a, b, c} : x <= y
  <2>1. CASE a <= b /\ a <= c
    BY <2>1
  <2>2. CASE b <= a /\ b <= c
    BY <2>2
  <2>3. CASE c <= a /\ c <= b
    BY <2>3
  <2> QED
    BY <2>1, <2>2, <2>3
<1> QED
  BY <1>1 DEF MinOf

\* The request of a call.
RequestOK ==
  /\ style \in {"ranges", "blocks", "strided"}
  /\ count \in Nat \ {0}
  /\ ioThreads \in 1..MaxThreads
  /\ workLimit \in 1..MaxThreads

\* The chunks cover the array, and each begins inside it.
LEMMA ChunksCover ==
  ASSUME NEW n \in Nat \ {0}
  PROVE  /\ ChunkCount(n) \in Nat \ {0}
         /\ \A i \in 0..(n - 1) : i \div Grain \in 0..(ChunkCount(n) - 1)
<1> USE ConstantsAssumption
<1> DEFINE a == n + Grain - 1
<1>1. a \in Nat /\ Grain \in Nat \ {0} /\ Grain <= a
  OBVIOUS
<1>2. Grain \div Grain = 1
  OBVIOUS
<1>3. 1 <= a \div Grain /\ a \div Grain \in Nat
  BY <1>1, <1>2, DivisionBounds, DivisionIsMonotonic
<1>4. ASSUME NEW i \in 0..(n - 1)
      PROVE  i \div Grain \in 0..(a \div Grain - 1)
  <2>1. i + Grain \in Nat /\ i + Grain <= a
    OBVIOUS
  <2>2. (i + Grain) \div Grain = i \div Grain + 1
    OBVIOUS
  <2>3. (i + Grain) \div Grain <= a \div Grain
    BY <1>1, <2>1, DivisionIsMonotonic
  <2>4. i \div Grain \in Nat
    BY DivisionBounds
  <2> QED
    BY <1>3, <2>2, <2>3, <2>4
<1> QED
  BY <1>3, <1>4 DEF ChunkCount

\* There is a task, and never more tasks than threads.
LEMMA TasksBounds == RequestOK => Tasks \in 1..MaxThreads
<1> SUFFICES ASSUME RequestOK
             PROVE  Tasks \in 1..MaxThreads
  OBVIOUS
<1> USE ConstantsAssumption
<1>1. MinOf({ioThreads, workLimit, count}) \in 1..MaxThreads
  <2>1. ioThreads \in Int /\ workLimit \in Int /\ count \in Int
    BY DEF RequestOK
  <2>2. /\ MinOf({ioThreads, workLimit, count}) \in {ioThreads, workLimit, count}
        /\ MinOf({ioThreads, workLimit, count}) <= ioThreads
    BY <2>1, MinOfThree
  <2> QED
    BY <2>2 DEF RequestOK
<1>2. MinOf({ChunkCount(count), ioThreads}) \in 1..MaxThreads
  <2>1. ChunkCount(count) \in Nat \ {0} /\ ioThreads \in Int
    BY ChunksCover DEF RequestOK
  <2>2. /\ MinOf({ChunkCount(count), ioThreads}) \in {ChunkCount(count), ioThreads}
        /\ MinOf({ChunkCount(count), ioThreads}) <= ioThreads
    BY <2>1, MinOfTwo
  <2> QED
    BY <2>1, <2>2 DEF RequestOK
<1> QED
  BY <1>1, <1>2 DEF Tasks, TaskCount

\* A chunk begins at a multiple of the grain and ends within the array.
LEMMA ChunkBounds ==
  ASSUME RequestOK, NEW c \in Nat
  PROVE  /\ Chunk(c).first \in Nat /\ Chunk(c).last \in Nat
         /\ Chunk(c).last <= count
         /\ Chunk(c).first = c * Grain
         /\ Chunk(c).last <= (c + 1) * Grain
<1>1. c * Grain \in Nat /\ (c + 1) * Grain \in Nat
  BY ConstantsAssumption
<1>2. count \in Nat \ {0} /\ (c + 1) * Grain \in Int /\ count \in Int
  BY <1>1 DEF RequestOK
<1>3. /\ MinOf({(c + 1) * Grain, count}) \in {(c + 1) * Grain, count}
      /\ MinOf({(c + 1) * Grain, count}) <= (c + 1) * Grain
      /\ MinOf({(c + 1) * Grain, count}) <= count
  BY <1>2, MinOfTwo
<1> QED
  BY <1>1, <1>2, <1>3 DEF Chunk

\* Chunks follow each other.
LEMMA ChunksApart ==
  ASSUME RequestOK, NEW c \in Nat, NEW d \in Nat, c < d
  PROVE  Chunk(c).last <= Chunk(d).first
<1>1. (c + 1) * Grain <= d * Grain
  BY ConstantsAssumption, ProductIsMonotonic
<1>2. (c + 1) * Grain \in Nat /\ d * Grain \in Nat
  BY ConstantsAssumption
<1> QED
  BY <1>1, <1>2, ChunkBounds

\* An element is in the chunk that its position names.
LEMMA ChunkOf ==
  ASSUME RequestOK, NEW i \in 0..(count - 1)
  PROVE  Chunk(i \div Grain).first <= i /\ i < Chunk(i \div Grain).last
<1> DEFINE c == i \div Grain
<1>1. c \in Nat /\ c * Grain <= i /\ i < c * Grain + Grain
  BY ConstantsAssumption, DivisionBounds DEF RequestOK
<1> HIDE DEF c
<1>2. (c + 1) * Grain = c * Grain + Grain /\ c * Grain \in Nat
  BY <1>1, ConstantsAssumption
<1>3. Chunk(c).last \in {(c + 1) * Grain, count}
  BY <1>1, <1>2, ConstantsAssumption, MinOfTwo DEF Chunk, RequestOK
<1>4. Chunk(c).first <= i /\ i < Chunk(c).last
  BY <1>1, <1>2, <1>3, ConstantsAssumption, ChunkBounds DEF RequestOK
<1> QED
  BY <1>4 DEF c

\* The pieces of the task ranges and of the runs of chunks.
LEMMA RangePiece ==
  ASSUME style = "ranges", NEW t, NEW i
  PROVE  Piece(t, i) = [first |-> Share(count, t, Tasks),
                        last  |-> Share(count, t + 1, Tasks)]
  BY DEF Piece, Share

\* The runs of chunks of the EnSight reader.
LEMMA BlockPiece ==
  ASSUME style = "blocks", NEW t, NEW i
  PROVE  /\ PieceCount(t) = Share(ChunkCount(count), t + 1, Tasks)
                              - Share(ChunkCount(count), t, Tasks)
         /\ Piece(t, i) = Chunk(Share(ChunkCount(count), t, Tasks) + i)
  BY DEF Piece, PieceCount, Share

\* The chunks of a task of the "blocks" style.
LEMMA BlockChunk ==
  ASSUME RequestOK, style = "blocks", NEW t \in 0..(Tasks - 1), NEW i \in Nat,
         i < PieceCount(t)
  PROVE  LET c == Share(ChunkCount(count), t, Tasks) + i
         IN  /\ c \in Nat /\ Piece(t, i) = Chunk(c)
             /\ Share(ChunkCount(count), t, Tasks) <= c
             /\ c < Share(ChunkCount(count), t + 1, Tasks)
<1> DEFINE C == ChunkCount(count)
<1>1. Tasks \in Nat \ {0} /\ t \in Nat /\ t + 1 \in Nat
  BY TasksBounds, ConstantsAssumption
<1>2. C \in Nat
  BY ChunksCover DEF RequestOK
<1> HIDE DEF C
<1>3. Share(C, t, Tasks) \in Nat /\ Share(C, t + 1, Tasks) \in Nat
  BY <1>1, <1>2, ShareType
<1>4. PieceCount(t) = Share(C, t + 1, Tasks) - Share(C, t, Tasks)
  BY BlockPiece DEF C
<1>5. Piece(t, i) = Chunk(Share(C, t, Tasks) + i)
  BY BlockPiece DEF C
<1> QED
  BY <1>3, <1>4, <1>5 DEF C

\* Every piece lies within the array.
LEMMA PieceBounds ==
  ASSUME RequestOK, NEW t \in 0..(Tasks - 1), NEW i \in Nat, i < PieceCount(t)
  PROVE  /\ Piece(t, i).first \in Nat /\ Piece(t, i).last \in Nat
         /\ Piece(t, i).last <= count
<1>1. Tasks \in Nat \ {0} /\ t \in Nat /\ t + 1 \in Nat /\ count \in Nat
  BY TasksBounds, ConstantsAssumption DEF RequestOK
<1>2. CASE style = "ranges"
  <2>1. Share(count, t, Tasks) \in Nat /\ Share(count, t + 1, Tasks) \in Nat
    BY <1>1, ShareType
  <2>2. Share(count, t + 1, Tasks) <= Share(count, Tasks, Tasks)
    BY <1>1, SharesApart
  <2>3. Share(count, t + 1, Tasks) <= count
    BY <1>1, <2>2, LastShare
  <2> QED
    BY <1>2, <2>1, <2>3, RangePiece
<1>3. CASE style = "blocks"
  <2> DEFINE c == Share(ChunkCount(count), t, Tasks) + i
  <2>1. c \in Nat /\ Piece(t, i) = Chunk(c)
    BY <1>3, BlockChunk
  <2> HIDE DEF c
  <2> QED
    BY <2>1, ChunkBounds
<1>4. CASE style = "strided"
  <2>1. t + i * Tasks \in Nat
    BY <1>1
  <2> QED
    BY <1>4, <2>1, ChunkBounds DEF Piece
<1> QED
  BY <1>2, <1>3, <1>4 DEF RequestOK

\* Pieces of different tasks do not overlap.
LEMMA PiecesApart ==
  ASSUME RequestOK,
         NEW t \in 0..(Tasks - 1), NEW u \in 0..(Tasks - 1), t # u,
         NEW i \in Nat, NEW j \in Nat, i < PieceCount(t), j < PieceCount(u)
  PROVE  \/ Piece(t, i).last <= Piece(u, j).first
         \/ Piece(u, j).last <= Piece(t, i).first
<1>1. Tasks \in Nat \ {0} /\ count \in Nat
  BY TasksBounds, ConstantsAssumption DEF RequestOK
<1>2. CASE style = "ranges"
  <2>1. CASE t + 1 <= u
    <3>1. Share(count, t + 1, Tasks) <= Share(count, u, Tasks)
      BY <1>1, <2>1, SharesApart
    <3> QED
      BY <1>2, <3>1, RangePiece
  <2>2. CASE u + 1 <= t
    <3>1. Share(count, u + 1, Tasks) <= Share(count, t, Tasks)
      BY <1>1, <2>2, SharesApart
    <3> QED
      BY <1>2, <3>1, RangePiece
  <2> QED
    BY <1>1, <2>1, <2>2
<1>3. CASE style = "blocks"
  <2> DEFINE C == ChunkCount(count)
             c == Share(C, t, Tasks) + i
             d == Share(C, u, Tasks) + j
  <2>1. /\ c \in Nat /\ Piece(t, i) = Chunk(c)
        /\ Share(C, t, Tasks) <= c /\ c < Share(C, t + 1, Tasks)
    BY <1>3, BlockChunk
  <2>2. /\ d \in Nat /\ Piece(u, j) = Chunk(d)
        /\ Share(C, u, Tasks) <= d /\ d < Share(C, u + 1, Tasks)
    BY <1>3, BlockChunk
  <2>3. C \in Nat
    BY ChunksCover DEF RequestOK
  <2> HIDE DEF C, c, d
  <2>4. /\ Share(C, t, Tasks) \in Nat /\ Share(C, t + 1, Tasks) \in Nat
        /\ Share(C, u, Tasks) \in Nat /\ Share(C, u + 1, Tasks) \in Nat
    <3>1. t \in Nat /\ t + 1 \in Nat /\ u \in Nat /\ u + 1 \in Nat
      BY <1>1
    <3> QED
      BY <1>1, <2>3, <3>1, ShareType
  <2>5. CASE t + 1 <= u
    <3>1. Share(C, t + 1, Tasks) <= Share(C, u, Tasks)
      BY <1>1, <2>3, <2>5, SharesApart
    <3>2. c < d
      BY <2>1, <2>2, <2>4, <3>1
    <3> QED
      BY <2>1, <2>2, <3>2, ChunksApart
  <2>6. CASE u + 1 <= t
    <3>1. Share(C, u + 1, Tasks) <= Share(C, t, Tasks)
      BY <1>1, <2>3, <2>6, SharesApart
    <3>2. d < c
      BY <2>1, <2>2, <2>4, <3>1
    <3> QED
      BY <2>1, <2>2, <3>2, ChunksApart
  <2> QED
    BY <1>1, <2>5, <2>6
<1>4. CASE style = "strided"
  <2> DEFINE c == t + i * Tasks
             d == u + j * Tasks
  <2>1. c \in Nat /\ d \in Nat /\ c # d
    BY <1>1, StridesApart
  <2>2. Piece(t, i) = Chunk(c) /\ Piece(u, j) = Chunk(d)
    BY <1>4 DEF Piece
  <2> HIDE DEF c, d
  <2>3. c < d \/ d < c
    BY <2>1
  <2> QED
    BY <2>1, <2>2, <2>3, ChunksApart
<1> QED
  BY <1>2, <1>3, <1>4 DEF RequestOK

\* The task that chunk c falls to in the "strided" style has more pieces than
\* come before c.
LEMMA StrideCount ==
  ASSUME NEW C \in Nat, NEW T \in Nat \ {0}, NEW c \in 0..(C - 1)
  PROVE  c \div T < Cardinality({d \in 0..(C - 1) : d % T = c % T})
<1> DEFINE S == {d \in 0..(C - 1) : d % T = c % T}
           q == c \div T
           f == [k \in 0..q |-> (c % T) + k * T]
<1>1. q \in Nat /\ c % T \in 0..(T - 1) /\ c = (c % T) + q * T
  <2>1. c \in Nat
    OBVIOUS
  <2> QED
    BY <2>1, RemainderBounds
<1> HIDE DEF q
<1>2. ASSUME NEW k \in 0..q
      PROVE  f[k] \in S
  <2>1. k * T \in Nat /\ k * T <= q * T
    BY <1>1, ProductIsMonotonic
  <2>2. f[k] \in 0..(C - 1)
    BY <1>1, <2>1
  <2>3. f[k] % T = c % T
    BY <1>1, RemainderOf
  <2> QED
    BY <2>2, <2>3
<1>3. f \in Injection(0..q, S)
  <2>1. f \in [0..q -> S]
    BY <1>2
  <2>2. ASSUME NEW k \in 0..q, NEW l \in 0..q, f[k] = f[l]
        PROVE  k = l
    <3>1. k * T = l * T /\ k \in Nat /\ l \in Nat
      BY <1>1, <2>2
    <3>2. (k * T) \div T = k /\ (l * T) \div T = l
      BY <3>1, DivisionOfMultiple
    <3> QED
      BY <3>1, <3>2
  <2> QED
    BY <2>1, <2>2 DEF Injection, IsInjective
<1>4. IsFiniteSet(S)
  <2>1. IsFiniteSet(0..(C - 1)) /\ S \in SUBSET (0..(C - 1))
    BY FS_Interval
  <2> HIDE DEF S
  <2> QED
    BY <2>1, FS_Subset
<1> HIDE DEF S, f
<1>5. Cardinality(0..q) <= Cardinality(S) /\ Cardinality(S) \in Nat
  BY <1>3, <1>4, FS_Injection, FS_CardinalityType
<1>6. Cardinality(0..q) = q + 1
  BY <1>1, FS_Interval
<1>7. q < Cardinality(S)
  BY <1>1, <1>5, <1>6
<1> QED
  BY <1>7 DEF S, q

\* Every element of the array is in a piece of some task.
LEMMA PiecesCover ==
  ASSUME RequestOK, NEW i \in 0..(count - 1)
  PROVE  \E t \in 0..(Tasks - 1), j \in Nat :
           /\ j < PieceCount(t)
           /\ Piece(t, j).first <= i /\ i < Piece(t, j).last
<1> DEFINE C == ChunkCount(count)
           c == i \div Grain
<1>1. Tasks \in Nat \ {0} /\ count \in Nat \ {0}
  BY TasksBounds, ConstantsAssumption DEF RequestOK
<1>2. C \in Nat /\ c \in 0..(C - 1) /\ Chunk(c).first <= i /\ i < Chunk(c).last
  BY <1>1, ChunksCover, ChunkOf
<1>3. CASE style = "ranges"
  <2>1. PICK t \in 0..(Tasks - 1) : /\ Share(count, t, Tasks) <= i
                                    /\ i < Share(count, t + 1, Tasks)
    BY <1>1, ShareOf
  <2>2. 0 < PieceCount(t)
    BY <1>3 DEF PieceCount
  <2>3. Piece(t, 0).first <= i /\ i < Piece(t, 0).last
    BY <1>3, <2>1, RangePiece
  <2> QED
    BY <2>2, <2>3
<1>4. CASE style = "blocks"
  <2>1. \A t : PieceCount(t) = Share(C, t + 1, Tasks) - Share(C, t, Tasks)
    BY <1>4, BlockPiece
  <2>2. \A t, j : Piece(t, j) = Chunk(Share(C, t, Tasks) + j)
    BY <1>4, BlockPiece
  <2> HIDE DEF C, c
  <2>3. PICK t \in 0..(Tasks - 1) : Share(C, t, Tasks) <= c /\ c < Share(C, t + 1, Tasks)
    BY <1>1, <1>2, ShareOf
  <2>4. t \in Nat /\ t + 1 \in Nat
    BY <1>1
  <2>5. Share(C, t, Tasks) \in Nat /\ Share(C, t + 1, Tasks) \in Nat
    BY <1>1, <1>2, <2>4, ShareType
  <2> DEFINE j == c - Share(C, t, Tasks)
  <2>6. /\ j \in Nat /\ Share(C, t, Tasks) + j = c
        /\ j < Share(C, t + 1, Tasks) - Share(C, t, Tasks)
    BY <1>2, <2>3, <2>5
  <2> HIDE DEF j
  <2>7. j < PieceCount(t) /\ Piece(t, j) = Chunk(c)
    BY <2>1, <2>2, <2>6
  <2> QED
    BY <1>2, <2>6, <2>7
<1>5. CASE style = "strided"
  <2> HIDE DEF C, c
  <2> DEFINE t == c % Tasks
             j == c \div Tasks
  <2>1. t \in 0..(Tasks - 1) /\ j \in Nat /\ c = t + j * Tasks
    <3>1. c \in Nat
      BY <1>2
    <3> QED
      BY <1>1, <3>1, RemainderBounds
  <2>2. j < Cardinality({d \in 0..(C - 1) : d % Tasks = t})
    BY <1>1, <1>2, StrideCount
  <2> HIDE DEF t, j
  <2>3. j < PieceCount(t) /\ Piece(t, j) = Chunk(c)
    BY <1>5, <2>1, <2>2 DEF PieceCount, Piece, C
  <2> QED
    BY <1>2, <2>1, <2>3
<1> QED
  BY <1>3, <1>4, <1>5 DEF RequestOK

-----------------------------------------------------------------------------
(* The task ranges of WorkParallelForN.                                    *)

\* The ranges of two bodies do not overlap.
LEMMA CutsApart ==
  ASSUME NEW n \in 1..MaxThreads, NEW f \in Cuts(n),
         NEW a \in Bodies, NEW b \in Bodies, a < b, f[a] # 0, f[b] # 0
  PROVE  f[a] <= b
<1> USE ConstantsAssumption DEF Bodies
<1> DEFINE Overlaps(d) == f[d] # 0 /\ \E c \in Bodies : c < d /\ f[c] # 0 /\ d < f[c]
           X == {d \in Bodies : Overlaps(d)}
<1>1. f \in [Bodies -> 0..n]
  BY DEF Cuts
<1>2. ASSUME NEW d \in Bodies, f[d] # 0, d # 0
      PROVE  \E p \in 0..(d - 1) : f[p] = d
  BY <1>2 DEF Cuts
<1>3. SUFFICES ASSUME ~ f[a] <= b
               PROVE  FALSE
  OBVIOUS
<1>4. b \in X
  BY <1>1, <1>3
<1>5. PICK d \in X : \A e \in X : d <= e
  <2>1. X \subseteq Nat /\ X # {}
    BY <1>4
  <2> HIDE DEF X
  <2> QED
    BY <2>1, LeastElement
<1>6. PICK c \in Bodies : c < d /\ f[c] # 0 /\ d < f[c]
  BY <1>5
<1>7. d \in Bodies /\ f[d] # 0 /\ d # 0
  BY <1>5, <1>6
<1>8. PICK p \in 0..(d - 1) : f[p] = d
  BY <1>2, <1>7
<1>9. p \in Bodies /\ f[p] # 0 /\ p # c
  BY <1>6, <1>7, <1>8
<1>10. CASE c < p
  <2>1. p \in X
    BY <1>1, <1>6, <1>8, <1>9, <1>10
  <2> QED
    BY <1>5, <1>8, <2>1
<1>11. CASE p < c
  <2>1. c \in X
    BY <1>1, <1>6, <1>7, <1>8, <1>9, <1>11
  <2> QED
    BY <1>5, <1>6, <2>1
<1> QED
  BY <1>9, <1>10, <1>11

\* Every task is in the range of a body.
LEMMA CutsCover ==
  ASSUME NEW n \in 1..MaxThreads, NEW f \in Cuts(n), NEW t \in 0..(n - 1)
  PROVE  \E b \in Bodies : f[b] # 0 /\ b <= t /\ t < f[b]
<1> USE ConstantsAssumption DEF Bodies
<1> DEFINE X == {d \in 0..t : f[t - d] # 0}
<1>1. f \in [Bodies -> 0..n] /\ f[0] # 0
  BY DEF Cuts
<1>2. ASSUME NEW a \in Bodies, NEW b \in Bodies, a < b, f[a] = b, b < n
      PROVE  f[b] # 0
  <2>1. a \in 0..(b - 1)
    BY <1>2
  <2> QED
    BY <1>2, <2>1 DEF Cuts
<1>3. ASSUME NEW b \in Bodies, f[b] # 0
      PROVE  b < f[b]
  BY <1>3 DEF Cuts
<1>4. t \in X
  BY <1>1
<1>5. PICK d \in X : \A e \in X : d <= e
  <2>1. X \subseteq Nat /\ X # {}
    BY <1>4
  <2> HIDE DEF X
  <2> QED
    BY <2>1, LeastElement
<1> DEFINE b == t - d
<1>6. b \in Bodies /\ b <= t /\ f[b] # 0
  BY <1>5
<1>7. ASSUME f[b] <= t
      PROVE  FALSE
  <2>1. f[b] \in Bodies /\ b < f[b] /\ f[b] < n
    BY <1>1, <1>3, <1>6, <1>7
  <2>2. f[f[b]] # 0
    BY <1>2, <1>6, <2>1
  <2>3. t - f[b] \in 0..t /\ t - (t - f[b]) = f[b]
    BY <1>7, <2>1
  <2>4. t - f[b] \in X
    BY <2>2, <2>3
  <2> QED
    BY <1>5, <2>1, <2>4
<1> QED
  BY <1>1, <1>6, <1>7

-----------------------------------------------------------------------------
(* The inductive invariant.                                                *)

Types ==
  /\ style \in Styles
  /\ count \in 1..MaxCount
  /\ ioThreads \in 1..MaxThreads
  /\ workLimit \in 1..MaxThreads
  /\ bodies \in Cuts(Tasks)
  /\ length \in 0..count
  /\ array \in [0..(count - 1) -> Nat \cup {NoElement}]
  /\ failed \in BOOLEAN
  /\ failure \in BOOLEAN
  /\ pc \in [Bodies -> PCs]
  /\ task \in [Bodies -> 0..MaxThreads]
  /\ piece \in [Bodies -> Nat]
  /\ result \in {"running", "ok", "error"}

\* A body stays within its range, and unless somebody failed it leaves none of
\* it out.
BodyInv(b) ==
  /\ pc[b] = "none" <=> bodies[b] = 0
  /\ pc[b] # "none" => task[b] \in b..bodies[b]
  /\ pc[b] = "read" => task[b] < bodies[b]
  /\ pc[b] = "report" => failed
  /\ pc[b] = "done" /\ ~failed => task[b] = bodies[b]

\* Body b has piece j of task t behind it.
Behind(b, t, j) ==
  \/ b <= t /\ t < task[b] /\ j < PieceCount(t)
  \/ pc[b] = "read" /\ t = task[b] /\ j < piece[b]

IsStored(t, j) ==
  \A i \in 0..(count - 1) :
    Piece(t, j).first <= i /\ i < Piece(t, j).last => array[i] = i

\* Unless somebody failed, what a body has behind it is stored.
StoredInv ==
  ~failed => \A b \in Bodies, t \in Nat, j \in Nat : Behind(b, t, j) => IsStored(t, j)

\* The outcome is that of the bodies.
OutcomeInv ==
  /\ failed /\ style = "ranges" => failure \/ \E b \in Bodies : pc[b] = "report"
  /\ result # "running" => \A b \in Bodies : pc[b] \in {"none", "done"}
  /\ result = "ok" => ~failed

IInv ==
  /\ Types
  /\ \A b \in Bodies : BodyInv(b)
  /\ StoredInv
  /\ OutcomeInv

\* The invariant holds when the bodies start.
LEMMA InitInv == Init => IInv
<1> SUFFICES ASSUME Init
             PROVE  IInv
  OBVIOUS
<1> USE ConstantsAssumption
<1>1. Types
  <2>1. array \in [0..(count - 1) -> Nat \cup {NoElement}]
    BY DEF Init
  <2>2. pc \in [Bodies -> PCs]
    BY DEF Init, PCs
  <2>3. task \in [Bodies -> 0..MaxThreads] /\ piece \in [Bodies -> Nat]
    BY DEF Init, Bodies
  <2>4. /\ style \in Styles /\ count \in 1..MaxCount
        /\ ioThreads \in 1..MaxThreads /\ workLimit \in 1..MaxThreads
        /\ bodies \in Cuts(Tasks) /\ length \in 0..count
        /\ result \in {"running", "ok", "error"}
    BY DEF Init
  <2>5. failed \in BOOLEAN /\ failure \in BOOLEAN
    BY DEF Init
  <2> QED
    BY <2>1, <2>2, <2>3, <2>4, <2>5 DEF Types
<1>2. ASSUME NEW b \in Bodies
      PROVE  BodyInv(b)
  <2>1. bodies \in [Bodies -> 0..Tasks] /\ (bodies[b] # 0 => b < bodies[b])
    BY DEF Init, Cuts
  <2>2. Tasks \in Nat
    BY TasksBounds DEF Init, RequestOK
  <2>3. pc[b] = (IF bodies[b] = 0 THEN "none" ELSE "task") /\ task[b] = b /\ ~failed
    BY DEF Init
  <2> QED
    BY <2>1, <2>2, <2>3 DEF BodyInv, Bodies
<1>3. StoredInv
  BY DEF Init, StoredInv, Behind, Bodies
<1>4. OutcomeInv
  BY DEF Init, OutcomeInv
<1> QED
  BY <1>1, <1>2, <1>3, <1>4 DEF IInv

\* The request, and with it the way the array is cut, stays as it is.
LEMMA SamePieces ==
  ASSUME UNCHANGED request
  PROVE  /\ Tasks' = Tasks
         /\ \A t, j : PieceCount(t)' = PieceCount(t) /\ Piece(t, j)' = Piece(t, j)
<1>1. style' = style /\ count' = count /\ Tasks' = Tasks
  BY DEF request, Tasks
<1>2. \A c : Chunk(c)' = Chunk(c)
  BY <1>1 DEF Chunk
<1> QED
  BY <1>1, <1>2 DEF PieceCount, Piece

\* The types and the range of a body, from the invariant.
LEMMA InvTypes ==
  ASSUME IInv
  PROVE  /\ RequestOK /\ Tasks \in 1..MaxThreads
         /\ bodies \in [Bodies -> 0..MaxThreads]
         /\ \A b \in Bodies : bodies[b] \in 0..Tasks /\ (bodies[b] # 0 => b < bodies[b])
<1> USE ConstantsAssumption
<1>1. RequestOK
  BY DEF IInv, Types, RequestOK
<1>2. Tasks \in 1..MaxThreads
  BY <1>1, TasksBounds
<1>3. bodies \in Cuts(Tasks)
  BY DEF IInv, Types
<1>4. bodies \in [Bodies -> 0..Tasks] /\ \A b \in Bodies : bodies[b] # 0 => b < bodies[b]
  BY <1>3 DEF Cuts
<1>5. \A b \in Bodies : bodies[b] \in 0..MaxThreads
  BY <1>2, <1>4
<1> QED
  BY <1>1, <1>2, <1>4, <1>5

\* A body goes to the next task only within its range, so its task number stays
\* one.
LEMMA NextTypes == IInv /\ [Next]_vars => Types'
<1> SUFFICES ASSUME IInv, [Next]_vars
             PROVE  Types'
  OBVIOUS
<1> USE ConstantsAssumption
<1>1. Types /\ bodies \in [Bodies -> 0..MaxThreads]
  BY InvTypes DEF IInv
<1>2. UNCHANGED request => Tasks' = Tasks
  BY SamePieces
<1>3. ASSUME NEW p
      PROVE  Stored(p) \in [0..(count - 1) -> Nat \cup {NoElement}]
  BY <1>1 DEF Stored, Types
<1>4. ASSUME NEW b \in Bodies, NextTask(b)
      PROVE  Types'
  BY <1>1, <1>2, <1>4 DEF NextTask, Goto, PCs, Types, request
<1>5. ASSUME NEW b \in Bodies, EndTask(b)
      PROVE  Types'
  <2>1. task[b] < bodies[b]
    BY <1>5 DEF IInv, BodyInv, EndTask
  <2>2. task[b] + 1 \in 0..MaxThreads
    BY <1>1, <2>1 DEF Types
  <2> QED
    BY <1>1, <1>2, <1>5, <2>2 DEF EndTask, Goto, PCs, Types, request
<1>6. ASSUME NEW b \in Bodies, StopEarly(b)
      PROVE  Types'
  BY <1>1, <1>2, <1>6 DEF StopEarly, Goto, PCs, Types, request
<1>7. ASSUME NEW b \in Bodies, ReadPiece(b)
      PROVE  Types'
  BY <1>1, <1>2, <1>3, <1>7 DEF ReadPiece, Types, request
<1>8. ASSUME NEW b \in Bodies, ReadFails(b)
      PROVE  Types'
  BY <1>1, <1>2, <1>3, <1>8 DEF ReadFails, Goto, PCs, Types, request
<1>9. ASSUME NEW b \in Bodies, Report(b)
      PROVE  Types'
  BY <1>1, <1>2, <1>9 DEF Report, Goto, PCs, Types, request
<1>10. CASE Join
  BY <1>1, <1>2, <1>10 DEF Join, Types, request
<1>11. CASE Truncate
  BY <1>1, <1>2, <1>11 DEF Truncate, Types, request
<1>12. CASE UNCHANGED vars
  BY <1>1, <1>2, <1>12 DEF vars, Types, request
<1> QED
  BY <1>4, <1>5, <1>6, <1>7, <1>8, <1>9, <1>10, <1>11, <1>12 DEF Next

\* Bodies stay within their ranges.
LEMMA NextBodyInv == IInv /\ [Next]_vars => \A b \in Bodies : BodyInv(b)'
<1> SUFFICES ASSUME IInv, [Next]_vars, NEW b \in Bodies
             PROVE  BodyInv(b)'
  OBVIOUS
<1> USE ConstantsAssumption
<1>1. /\ Types /\ bodies \in [Bodies -> 0..MaxThreads] /\ BodyInv(b)
      /\ pc \in [Bodies -> PCs] /\ task \in [Bodies -> 0..MaxThreads]
  BY InvTypes DEF IInv, Types
<1>2. b \in Nat
  BY DEF Bodies
<1>3. ASSUME NEW a \in Bodies, NextTask(a)
      PROVE  BodyInv(b)'
  BY <1>1, <1>2, <1>3 DEF NextTask, Goto, BodyInv, request
<1>4. ASSUME NEW a \in Bodies, EndTask(a)
      PROVE  BodyInv(b)'
  BY <1>1, <1>2, <1>4 DEF EndTask, Goto, BodyInv, request
<1>5. ASSUME NEW a \in Bodies, StopEarly(a)
      PROVE  BodyInv(b)'
  BY <1>1, <1>5 DEF StopEarly, Reading, Goto, BodyInv, request
<1>6. ASSUME NEW a \in Bodies, ReadPiece(a)
      PROVE  BodyInv(b)'
  BY <1>1, <1>6 DEF ReadPiece, BodyInv, request
<1>7. ASSUME NEW a \in Bodies, ReadFails(a)
      PROVE  BodyInv(b)'
  BY <1>1, <1>7 DEF ReadFails, Reading, Goto, BodyInv, request
<1>8. ASSUME NEW a \in Bodies, Report(a)
      PROVE  BodyInv(b)'
  BY <1>1, <1>8 DEF Report, Goto, BodyInv, request
<1>9. CASE Join
  BY <1>1, <1>9 DEF Join, BodyInv, request
<1>10. CASE Truncate
  BY <1>1, <1>10 DEF Truncate, BodyInv, request
<1>11. CASE UNCHANGED vars
  BY <1>1, <1>11 DEF vars, BodyInv
<1> QED
  BY <1>3, <1>4, <1>5, <1>6, <1>7, <1>8, <1>9, <1>10, <1>11 DEF Next

\* A stored element stays: it is only ever overwritten by itself.
LEMMA StoringKeeps ==
  ASSUME UNCHANGED request, NEW t, NEW j, IsStored(t, j),
         array' = array \/ \E p : array' = Stored(p)
  PROVE  IsStored(t, j)'
<1>1. count' = count /\ Piece(t, j)' = Piece(t, j)
  BY SamePieces DEF request
<1>2. ASSUME NEW i \in 0..(count - 1), array[i] = i
      PROVE  array'[i] = i
  BY <1>2 DEF Stored
<1> QED
  BY <1>1, <1>2 DEF IsStored

\* What a body leaves behind is stored: only ReadPiece adds to it, the piece it
\* has just read in full.
LEMMA NextStoredInv == IInv /\ [Next]_vars => StoredInv'
<1> SUFFICES ASSUME IInv, [Next]_vars
             PROVE  StoredInv'
  OBVIOUS
<1> USE ConstantsAssumption
<1>1. /\ Types /\ StoredInv
      /\ pc \in [Bodies -> PCs] /\ task \in [Bodies -> 0..MaxThreads]
      /\ piece \in [Bodies -> Nat] /\ failed \in BOOLEAN
  BY DEF IInv, Types
<1>2. /\ UNCHANGED request
      /\ array' = array \/ \E p : array' = Stored(p)
      /\ ~failed' => ~failed
  BY DEF Next, vars, request, NextTask, EndTask, StopEarly, ReadPiece, ReadFails,
         Report, Join, Truncate
<1>3. \A t, j : PieceCount(t)' = PieceCount(t) /\ Piece(t, j)' = Piece(t, j)
  BY <1>2, SamePieces
<1>4. \* What was behind a body before the step is stored after it.
      ASSUME ~failed', NEW b \in Bodies, NEW t \in Nat, NEW j \in Nat, Behind(b, t, j)
      PROVE  IsStored(t, j)'
  BY <1>1, <1>2, <1>4, StoringKeeps DEF StoredInv
<1>5. SUFFICES ASSUME ~failed', NEW b \in Bodies, NEW t \in Nat, NEW j \in Nat,
                      Behind(b, t, j)', ~ Behind(b, t, j)
               PROVE  IsStored(t, j)'
  BY <1>4 DEF StoredInv
<1>6. ASSUME NEW a \in Bodies, NextTask(a)
      PROVE  FALSE
  BY <1>1, <1>3, <1>5, <1>6 DEF NextTask, Goto, Behind
<1>7. ASSUME NEW a \in Bodies, EndTask(a)
      PROVE  FALSE
  BY <1>1, <1>3, <1>5, <1>7 DEF EndTask, Goto, Behind
<1>8. ASSUME NEW a \in Bodies, StopEarly(a)
      PROVE  FALSE
  BY <1>1, <1>3, <1>5, <1>8 DEF StopEarly, Goto, Behind
<1>9. ASSUME NEW a \in Bodies, ReadPiece(a)
      PROVE  IsStored(t, j)'
  <2>1. a = b /\ t = task[b] /\ j = piece[b]
    BY <1>1, <1>3, <1>5, <1>9 DEF ReadPiece, Behind
  <2>2. array' = Stored(Piece(t, j)) /\ Piece(t, j).last <= length
    BY <1>9, <2>1 DEF ReadPiece, Current
  <2>3. Piece(t, j).last \in Nat
    <3>1. j < PieceCount(t)
      BY <1>9, <2>1 DEF ReadPiece, Reading
    <3>2. t \in 0..(Tasks - 1)
      BY <1>1, <1>9, <2>1, InvTypes DEF ReadPiece, Reading, IInv, BodyInv
    <3> QED
      BY <3>1, <3>2, InvTypes, PieceBounds
  <2>4. ASSUME NEW i \in 0..(count - 1), Piece(t, j).first <= i, i < Piece(t, j).last
        PROVE  array'[i] = i
    <3>1. i < length
      BY <1>1, <2>2, <2>3, <2>4 DEF Types
    <3> QED
      BY <2>2, <2>4, <3>1 DEF Stored
  <2>5. count' = count /\ Piece(t, j)' = Piece(t, j)
    BY <1>2, <1>3 DEF request
  <2> QED
    BY <2>4, <2>5 DEF IsStored
<1>10. ASSUME NEW a \in Bodies, ReadFails(a)
       PROVE  FALSE
  BY <1>5, <1>10 DEF ReadFails
<1>11. ASSUME NEW a \in Bodies, Report(a)
       PROVE  FALSE
  BY <1>1, <1>3, <1>5, <1>11 DEF Report, Goto, Behind
<1>12. ASSUME Join \/ Truncate \/ UNCHANGED vars
       PROVE  FALSE
  BY <1>3, <1>5, <1>12 DEF Join, Truncate, vars, Behind
<1> QED
  BY <1>6, <1>7, <1>8, <1>9, <1>10, <1>11, <1>12 DEF Next

\* The call returns when all bodies have, with the flag as it is then.
LEMMA NextOutcomeInv == IInv /\ [Next]_vars => OutcomeInv'
<1> SUFFICES ASSUME IInv, [Next]_vars
             PROVE  OutcomeInv'
  OBVIOUS
<1>1. /\ OutcomeInv /\ failed \in BOOLEAN
      /\ pc \in [Bodies -> PCs] /\ result \in {"running", "ok", "error"}
  BY DEF IInv, Types
<1>2. ASSUME NEW b \in Bodies, NextTask(b)
      PROVE  OutcomeInv'
  BY <1>1, <1>2 DEF NextTask, Goto, OutcomeInv, request
<1>3. ASSUME NEW b \in Bodies, EndTask(b)
      PROVE  OutcomeInv'
  BY <1>1, <1>3 DEF EndTask, Goto, OutcomeInv, request
<1>4. ASSUME NEW b \in Bodies, StopEarly(b)
      PROVE  OutcomeInv'
  BY <1>1, <1>4 DEF StopEarly, Reading, Goto, OutcomeInv, request
<1>5. ASSUME NEW b \in Bodies, ReadPiece(b)
      PROVE  OutcomeInv'
  BY <1>1, <1>5 DEF ReadPiece, OutcomeInv, request
<1>6. ASSUME NEW b \in Bodies, ReadFails(b)
      PROVE  OutcomeInv'
  BY <1>1, <1>6 DEF ReadFails, Reading, Goto, OutcomeInv, request
<1>7. ASSUME NEW b \in Bodies, Report(b)
      PROVE  OutcomeInv'
  BY <1>1, <1>7 DEF Report, Goto, OutcomeInv, request
<1>8. CASE Join
  BY <1>1, <1>8 DEF Join, OutcomeInv, request
<1>9. CASE Truncate
  BY <1>1, <1>9 DEF Truncate, OutcomeInv, request
<1>10. CASE UNCHANGED vars
  BY <1>1, <1>10 DEF vars, OutcomeInv
<1> QED
  BY <1>2, <1>3, <1>4, <1>5, <1>6, <1>7, <1>8, <1>9, <1>10 DEF Next

-----------------------------------------------------------------------------
(* What the invariant says of a call.                                      *)

\* Reading bodies are within the array.
LEMMA InvReading ==
  ASSUME IInv, NEW b \in Bodies, Reading(b)
  PROVE  /\ task[b] \in 0..(Tasks - 1) /\ piece[b] \in Nat
         /\ b <= task[b] /\ task[b] < bodies[b] /\ bodies[b] # 0
  BY InvTypes DEF IInv, Types, BodyInv, Reading, Bodies

\* Bodies that read work on different tasks, whose pieces do not overlap.
LEMMA InvApart == IInv => TasksStayApart
<1> SUFFICES ASSUME IInv
             PROVE  TasksStayApart
  OBVIOUS
<1>1. ASSUME NEW b \in Bodies, Reading(b)
      PROVE  Current(b).last <= count
  <2>1. task[b] \in 0..(Tasks - 1) /\ piece[b] \in Nat /\ piece[b] < PieceCount(task[b])
    BY <1>1, InvReading DEF Reading
  <2> QED
    BY <2>1, InvTypes, PieceBounds DEF Current
<1>2. ASSUME NEW b \in Bodies
      PROVE  pc[b] \in {"task", "read"} => task[b] \in b..bodies[b]
  BY <1>2 DEF IInv, BodyInv
<1>3. TypeOK
  BY <1>1, <1>2, InvTypes DEF IInv, Types, TypeOK
<1>4. ASSUME NEW a \in Bodies, NEW b \in Bodies, a # b, Reading(a), Reading(b)
      PROVE  \/ Current(a).last <= Current(b).first
             \/ Current(b).last <= Current(a).first
  <2>1. /\ task[a] \in 0..(Tasks - 1) /\ piece[a] \in Nat
        /\ task[a] \in Nat /\ a <= task[a] /\ task[a] < bodies[a] /\ bodies[a] # 0
    BY <1>4, InvReading
  <2>2. /\ task[b] \in 0..(Tasks - 1) /\ piece[b] \in Nat
        /\ task[b] \in Nat /\ b <= task[b] /\ task[b] < bodies[b] /\ bodies[b] # 0
    BY <1>4, InvReading
  <2>3. bodies \in Cuts(Tasks) /\ Tasks \in 1..MaxThreads /\ RequestOK
    BY InvTypes DEF IInv, Types
  <2>4. bodies[a] \in Nat /\ bodies[b] \in Nat
    BY InvTypes
  <2>5. task[a] # task[b]
    <3>1. a < b \/ b < a
      BY <1>4 DEF Bodies
    <3>2. a < b => bodies[a] <= b
      BY <2>1, <2>2, <2>3, CutsApart
    <3>3. b < a => bodies[b] <= a
      BY <2>1, <2>2, <2>3, CutsApart
    <3> QED
      BY <2>1, <2>2, <2>4, <3>1, <3>2, <3>3 DEF Bodies
  <2>6. piece[a] < PieceCount(task[a]) /\ piece[b] < PieceCount(task[b])
    BY <1>4 DEF Reading
  <2> QED
    BY <2>1, <2>2, <2>3, <2>5, <2>6, PiecesApart DEF Current
<1> QED
  BY <1>3, <1>4 DEF TasksStayApart, NoSharedElement

\* Every element is in a piece of a task that some body has behind it.
LEMMA InvComplete == IInv => NothingUninitialized
<1> SUFFICES ASSUME IInv, result = "ok", NEW i \in 0..(count - 1)
             PROVE  array[i] = i
  BY DEF NothingUninitialized
<1>1. /\ bodies \in Cuts(Tasks) /\ Tasks \in 1..MaxThreads /\ RequestOK
      /\ \A b \in Bodies : bodies[b] \in Nat
  BY InvTypes DEF IInv, Types
<1>2. ~failed /\ \A b \in Bodies : pc[b] \in {"none", "done"}
  BY DEF IInv, OutcomeInv
<1>3. PICK t \in 0..(Tasks - 1), j \in Nat :
             j < PieceCount(t) /\ Piece(t, j).first <= i /\ i < Piece(t, j).last
  BY <1>1, PiecesCover
<1>4. PICK b \in Bodies : bodies[b] # 0 /\ b <= t /\ t < bodies[b]
  BY <1>1, CutsCover
<1>5. task[b] = bodies[b]
  BY <1>2, <1>4 DEF IInv, BodyInv
<1>6. Behind(b, t, j)
  BY <1>3, <1>4, <1>5 DEF Behind
<1>7. IsStored(t, j)
  <2>1. t \in Nat
    BY <1>1
  <2> QED
    BY <1>2, <1>6, <2>1 DEF IInv, StoredInv
<1> QED
  BY <1>3, <1>7 DEF IsStored

\* Bodies that have returned do not read.
LEMMA InvQuiet == IInv => ReturnIsQuiet
<1> SUFFICES ASSUME IInv, result # "running"
             PROVE  /\ \A b \in Bodies : ~Reading(b)
                    /\ failed /\ style = "ranges" => failure
  BY DEF ReturnIsQuiet
<1>1. \A b \in Bodies : pc[b] \in {"none", "done"}
  BY DEF IInv, OutcomeInv
<1> QED
  BY <1>1 DEF IInv, OutcomeInv, Reading

-----------------------------------------------------------------------------
\* The invariant holds in every state.
LEMMA Invariant == Spec => []IInv
<1>1. IInv /\ [Next]_vars => IInv'
  <2> SUFFICES ASSUME IInv, [Next]_vars
               PROVE  IInv'
    OBVIOUS
  <2>1. Types' /\ StoredInv' /\ OutcomeInv'
    BY NextTypes, NextStoredInv, NextOutcomeInv
  <2>2. \A b \in Bodies : BodyInv(b)'
    BY NextBodyInv
  <2> QED
    BY <2>1, <2>2 DEF IInv
<1> QED
  BY InitInv, <1>1, PTL DEF Spec

\* The tasks of one read keep to the array and never store to the same element,
\* whatever its size and however WorkParallelForN groups them: the destination
\* of WorkParallelForN's bodies (FileHandle.cpp, OmniSciEnSightFileFormat.cpp,
\* OmniSciOpenFoamFileFormat.cpp) needs no lock.
THEOREM TasksStayApartCorrect == Spec => []TasksStayApart
  BY Invariant, InvApart, PTL

\* A read that reports success has stored every element of the array, which
\* starts out uninitialized.
THEOREM NothingUninitializedCorrect == Spec => []NothingUninitialized
  BY Invariant, InvComplete, PTL

\* Once the call returns nobody reads into the array, and a failure of the VTK
\* reader has its message.
THEOREM ReturnIsQuietCorrect == Spec => []ReturnIsQuiet
  BY Invariant, InvQuiet, PTL

=============================================================================
