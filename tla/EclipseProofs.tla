---------------------------- MODULE EclipseProofs ----------------------------
(***************************************************************************)
(* What is loaded from a GRDECL deck is what Read listed, in the size of   *)
(* the grid, and a deck is turned down for a reason: for every deck, every *)
(* nesting of its files and whatever the files are rewritten to.  The      *)
(* index of a binary file is that of all it takes from the file, and what  *)
(* is loaded is what the simulator stored, at the time of its report step. *)
(***************************************************************************)
EXTENDS GrdeclDeck, EclipseBinary, TLAPS, FiniteSetTheorems, FunctionTheorems,
        SequenceTheorems, WellFoundedInduction

-----------------------------------------------------------------------------
(* The inductive invariant.                                                *)

Frames == [file : DOMAIN files, at : Nat \ {0}]
DeckTypes ==
  /\ files \in [DOMAIN files -> Seq(Token)]
  /\ frames \in Seq(Frames)
  /\ phase \in {"parsing", "failed", "read"}
  /\ rewrites \in Nat

\* No file is parsed while it is parsed.
ChainInv ==
  /\ Root \in visited
  /\ \A i \in DOMAIN frames :
       /\ frames[i].file \in visited
       /\ \A j \in DOMAIN frames : frames[i].file = frames[j].file => i = j

\* An array was met at a keyword that names it.
IsMet(keyword) ==
  LET tokens == files[arrays[keyword].file] IN
  met[keyword] \in DOMAIN tokens /\ tokens[met[keyword]].text = keyword
MetInv ==
  /\ DOMAIN met = DOMAIN arrays
  /\ \A keyword \in DOMAIN arrays :
       /\ IsArrayKeyword(keyword)
       /\ arrays[keyword].keyword = keyword /\ arrays[keyword].file \in DOMAIN files
       /\ rewrites = 0 => IsMet(keyword)

\* Only what was read is rewritten and loaded, and what was loaded last is what the
\* files have now.
LoadedInv ==
  /\ phase # "read" => loaded = None /\ rewrites = 0
  /\ loaded # None =>
       \/ /\ loaded.array \in DOMAIN arrays
          /\ loaded.value = LoadKeywordArray(arrays[loaded.array])
       \/ /\ loaded.array = "logicalCellToActiveCell" /\ "ACTNUM" \in DOMAIN arrays
          /\ loaded.value = LoadLogicalCellToActiveCellArray(arrays["ACTNUM"])

DeckInv == DeckTypes /\ ChainInv /\ MetInv /\ LoadedInv /\ FailsForAReason

-----------------------------------------------------------------------------
(* Numbers, and the tokens of a file.                                      *)

\* The least of natural numbers is one of them.
LEMMA MinIs ==
  ASSUME NEW S, S \subseteq Nat, S # {}
  PROVE  Min(S) \in S /\ \A y \in S : Min(S) <= y
<1>1. PICK x \in S : \A y \in S : ~ (<<y, x>> \in OpToRel(<, Nat))
  BY NatLessThanWellFounded, WFMin
<1>2. ASSUME NEW y \in S
      PROVE  x <= y
  <2>1. ASSUME y < x
        PROVE  FALSE
    <3>1. <<y, x>> \in {ss \in Nat \X Nat : ss[1] < ss[2]}
      BY <2>1
    <3> QED
      BY <1>1, <3>1 DEF OpToRel
  <2> QED
    BY <2>1
<1>3. \E m \in S : \A y \in S : m <= y
  BY <1>2
<1> QED
  BY <1>3 DEF Min

\* Counting the numbers below each of a finite set numbers them without a gap, in
\* their order.
LEMMA RanksAre ==
  ASSUME NEW F, IsFiniteSet(F), F \subseteq Nat,
         NEW rank, rank = [i \in F |-> Cardinality({j \in F : j < i})]
  PROVE  /\ \A i \in F : rank[i] \in Nat
         /\ {rank[i] : i \in F} = 0..(Cardinality(F) - 1)
         /\ \A i, j \in F : i < j => rank[i] < rank[j]
<1> DEFINE below(i) == {j \in F : j < i}
<1>1. ASSUME NEW i \in F
      PROVE  /\ IsFiniteSet(below(i)) /\ Cardinality(below(i)) \in Nat
             /\ rank[i] = Cardinality(below(i))
             /\ rank[i] < Cardinality(F)
  <2>1. below(i) \subseteq F /\ i \notin below(i) /\ i \in F
    OBVIOUS
  <2>2. IsFiniteSet(below(i)) /\ Cardinality(below(i)) \in Nat /\ Cardinality(F) \in Nat
    BY <2>1, FS_Subset, FS_CardinalityType
  <2>3. Cardinality(below(i)) < Cardinality(F)
    <3> HIDE DEF below
    <3> QED
      BY <2>1, <2>2, FS_Subset
  <2> QED
    BY <2>2, <2>3
<1>2. ASSUME NEW i \in F, NEW j \in F, i < j
      PROVE  rank[i] < rank[j]
  <2>1. below(i) \subseteq below(j) /\ i \in below(j) /\ i \notin below(i)
    <3>1. ASSUME NEW k \in F, k < i
          PROVE  k < j
      <4>1. k \in Nat /\ i \in Nat /\ j \in Nat
        OBVIOUS
      <4> QED
        BY <1>2, <3>1, <4>1
    <3>2. i \in Nat /\ ~(i < i)
      OBVIOUS
    <3>3. below(i) \subseteq below(j)
      BY <3>1
    <3>4. i \in below(j)
      BY <1>2
    <3>5. i \notin below(i)
      BY <3>2
    <3> QED
      BY <3>3, <3>4, <3>5
  <2>2. /\ IsFiniteSet(below(j))
        /\ Cardinality(below(i)) \in Nat /\ Cardinality(below(j)) \in Nat
        /\ rank[i] = Cardinality(below(i)) /\ rank[j] = Cardinality(below(j))
    BY <1>1
  <2>3. Cardinality(below(i)) < Cardinality(below(j))
    <3> HIDE DEF below
    <3> QED
      BY <2>1, <2>2, FS_Subset
  <2> QED
    BY <2>2, <2>3
<1>3. \A i, j \in F : rank[i] = rank[j] => i = j
  <2> TAKE i \in F, j \in F
  <2>1. i \in Nat /\ j \in Nat /\ rank[i] \in Nat /\ rank[j] \in Nat
    BY <1>1
  <2> QED
    BY <1>2, <2>1
<1> DEFINE n == Cardinality(F) last == n - 1
<1>4. n \in Nat
  BY FS_CardinalityType
<1>5. rank \in [F -> 0..last]
  <2>1. \A i \in F : rank[i] \in 0..last
    BY <1>1, <1>4
  <2> QED
    BY <2>1
<1>6. IsFiniteSet(0..last) /\ Cardinality(0..last) = n
  <2>1. last \in Int /\ 0 \in Int
    BY <1>4
  <2>2. /\ IsFiniteSet(0..last)
        /\ Cardinality(0..last) = IF 0 > last THEN 0 ELSE last - 0 + 1
    <3> HIDE DEF last
    <3> QED
      BY <2>1, FS_Interval
  <2>3. (IF 0 > last THEN 0 ELSE last - 0 + 1) = n
    BY <1>4
  <2> QED
    BY <2>2, <2>3
<1>7. rank \in Injection(F, 0..last)
  <2> HIDE DEF last
  <2> QED
    BY <1>3, <1>5, Fun_IsInj
<1>8. rank \in Surjection(F, 0..last)
  <2> HIDE DEF last
  <2> QED
    BY <1>6, <1>7, FS_Injection
<1>9. \A k \in 0..last : \E i \in F : rank[i] = k
  <2> DEFINE T == 0..last
  <2>1. rank \in Surjection(F, T)
    BY <1>8
  <2> HIDE DEF T
  <2>2. \A k \in T : \E i \in F : rank[i] = k
    BY <2>1 DEF Surjection
  <2> QED
    BY <2>2 DEF T
<1>10. {rank[i] : i \in F} = 0..last
  <2> HIDE DEF last
  <2> QED
    BY <1>5, <1>9
<1> QED
  BY <1>1, <1>2, <1>10

\* The map from cells to active cells numbers the active ones without a gap, in their
\* order.
LEMMA CellMapIs ==
  ASSUME NEW actnum \in Seq(Int),
         NEW map, map = BuildLogicalCellToActiveCellArray(actnum)
  PROVE  NumbersActiveCells(map, actnum)
<1> DEFINE n == Len(actnum)
           active == {cell \in DOMAIN map : map[cell] # -1}
           F == {cell \in 1..n : actnum[cell] # 0}
           rank == [i \in F |-> Cardinality({j \in F : j < i})]
<1>1. n \in Nat /\ DOMAIN actnum = 1..n
  OBVIOUS
<1> HIDE DEF n
<1>2. F \subseteq Nat /\ IsFiniteSet(F)
  <2>1. F \subseteq 1..n /\ IsFiniteSet(1..n) /\ 1..n \subseteq Nat
    BY <1>1, FS_Interval
  <2> HIDE DEF F
  <2> QED
    BY <2>1, FS_Subset
<1>3. /\ \A i \in F : rank[i] \in Nat
      /\ {rank[i] : i \in F} = 0..(Cardinality(F) - 1)
      /\ \A i, j \in F : i < j => rank[i] < rank[j]
  <2> HIDE DEF F
  <2> QED
    BY <1>2, RanksAre
<1>4. \A i \in F : map[i] = rank[i]
  <2> TAKE i \in F
  <2>1. {c \in 1..(i - 1) : actnum[c] # 0} = {j \in F : j < i}
    BY <1>1
  <2>2. map[i] = Cardinality({c \in 1..(i - 1) : actnum[c] # 0})
    BY <1>1 DEF BuildLogicalCellToActiveCellArray
  <2> QED
    BY <2>1, <2>2
<1>5. DOMAIN map = 1..n /\ \A i \in 1..n : i \notin F => map[i] = -1
  BY <1>1 DEF BuildLogicalCellToActiveCellArray
<1>6. active = F
  <2>1. \A i \in F : rank[i] # -1
    BY <1>3
  <2>2. F = {cell \in 1..n : map[cell] # -1}
    <3>1. F \subseteq 1..n
      OBVIOUS
    <3> HIDE DEF F, rank
    <3> QED
      BY <1>4, <1>5, <2>1, <3>1
  <2> QED
    BY <1>5, <2>2
<1>7. {map[cell] : cell \in active} = {rank[i] : i \in F}
  <2> HIDE DEF F, rank
  <2> QED
    BY <1>4, <1>6
<1>8. active = {cell \in DOMAIN actnum : actnum[cell] # 0}
  BY <1>1, <1>6
<1> HIDE DEF F, rank, active
<1>9. \A c, d \in active : c < d => map[c] < map[d]
  BY <1>3, <1>4, <1>6
<1> QED
  BY <1>3, <1>6, <1>7, <1>8, <1>9 DEF NumbersActiveCells, active

\* How many elements the first of some parts have.
LEMMA UpToIs ==
  ASSUME NEW S, NEW parts \in Seq(Seq(S))
  PROVE  /\ UpTo(parts) \in [0..Len(parts) -> Nat]
         /\ UpTo(parts)[0] = 0
         /\ \A i \in 1..Len(parts) : UpTo(parts)[i] = UpTo(parts)[i - 1] + Len(parts[i])
         /\ \A i, j \in 0..Len(parts) : i <= j => UpTo(parts)[i] <= UpTo(parts)[j]
<1> DEFINE L == Len(parts)
           slot(j) == {j} \X DOMAIN parts[j]
           slots(i) == UNION {slot(j) : j \in 1..i}
<1>1. L \in Nat /\ \A j \in 1..L : parts[j] \in Seq(S)
  OBVIOUS
<1>2. ASSUME NEW j \in 1..L
      PROVE  IsFiniteSet(slot(j)) /\ Cardinality(slot(j)) = Len(parts[j]) /\ Len(parts[j]) \in Nat
  <2>1. Len(parts[j]) \in Nat /\ DOMAIN parts[j] = 1..Len(parts[j])
    BY <1>1
  <2> DEFINE n == Len(parts[j])
  <2>2. IsFiniteSet(1..n) /\ Cardinality(1..n) = n
    <3>1. n \in Nat
      BY <2>1
    <3> HIDE DEF n
    <3> QED
      BY <3>1, FS_Interval
  <2>3. IsFiniteSet({j}) /\ Cardinality({j}) = 1
    BY FS_Singleton
  <2>4. IsFiniteSet({j} \X (1..n)) /\ Cardinality({j} \X (1..n)) = 1 * n
    <3> HIDE DEF n
    <3>1. /\ IsFiniteSet({j} \X (1..n))
          /\ Cardinality({j} \X (1..n)) = Cardinality({j}) * Cardinality(1..n)
      BY <2>2, <2>3, FS_Product
    <3> QED
      BY <2>3, <2>2, <3>1
  <2> QED
    BY <2>1, <2>4
<1> HIDE DEF slot, L
<1>3. ASSUME NEW i \in 0..L
      PROVE  IsFiniteSet(slots(i)) /\ Cardinality(slots(i)) \in Nat
  <2> DEFINE all == {slot(j) : j \in 1..i}
             byPlace == [j \in 1..i |-> slot(j)]
  <2>1. byPlace \in Surjection(1..i, all)
    <3>1. byPlace \in [1..i -> all] /\ \A s \in all : \E j \in 1..i : byPlace[j] = s
      OBVIOUS
    <3> HIDE DEF byPlace, all
    <3> QED
      BY <3>1, Fun_IsSurj
  <2>2. IsFiniteSet(1..i)
    BY <1>1, FS_Interval
  <2>3. \A s \in all : IsFiniteSet(s)
    BY <1>1, <1>2
  <2> HIDE DEF byPlace, all
  <2>4. IsFiniteSet(all)
    BY <2>1, <2>2, FS_Surjection
  <2>5. IsFiniteSet(UNION all)
    BY <2>3, <2>4, FS_UNION
  <2> QED
    BY <2>5, FS_CardinalityType DEF all
<1>4. UpTo(parts) = [i \in 0..L |-> Cardinality(slots(i))]
  BY DEF UpTo, L, slot
<1>5. UpTo(parts)[0] = 0
  <2>1. slots(0) = {}
    OBVIOUS
  <2>2. UpTo(parts)[0] = Cardinality(slots(0))
    <3> HIDE DEF slots
    <3> QED
      BY <1>1, <1>4
  <2> QED
    BY <2>1, <2>2, FS_EmptySet
<1>6. ASSUME NEW i \in 1..L
      PROVE  UpTo(parts)[i] = UpTo(parts)[i - 1] + Len(parts[i])
  <2>1. i - 1 \in 0..L /\ i \in 0..L
    BY <1>1
  <2>2. slots(i) = slots(i - 1) \cup slot(i)
    <3>1. 1..i = 1..(i - 1) \cup {i}
      BY <1>1
    <3> HIDE DEF slots
    <3>2. \A n : slots(n) = UNION {slot(j) : j \in 1..n}
      BY DEF slots
    <3> QED
      BY <3>1, <3>2
  <2>3. slots(i - 1) \cap slot(i) = {}
    <3>1. \A j \in 1..(i - 1) : slot(j) \cap slot(i) = {}
      BY <1>1 DEF slot
    <3> QED
      BY <3>1
  <2> DEFINE below == slots(i - 1)
             now == slots(i)
  <2>4. IsFiniteSet(below) /\ Cardinality(below) \in Nat
    BY <1>3, <2>1
  <2>5. now = below \cup slot(i)
    BY <2>2
  <2>6. IsFiniteSet(slot(i)) /\ Cardinality(slot(i)) = Len(parts[i]) /\ Len(parts[i]) \in Nat
    BY <1>2
  <2> HIDE DEF below, now
  <2>7. Cardinality(below \cup slot(i)) = Cardinality(below) + Cardinality(slot(i)) - Cardinality(below \cap slot(i))
    BY <2>4, <2>6, FS_Union
  <2>8. Cardinality(below \cap slot(i)) = 0
    BY <2>3, FS_EmptySet DEF below
  <2>9. Cardinality(now) = Cardinality(below) + Len(parts[i])
    BY <2>4, <2>5, <2>6, <2>7, <2>8
  <2> HIDE DEF slots
  <2> QED
    BY <1>4, <2>1, <2>9 DEF below, now
<1>7. ASSUME NEW i \in 0..L, NEW j \in 0..L, i <= j
      PROVE  UpTo(parts)[i] <= UpTo(parts)[j]
  <2>1. slots(i) \subseteq slots(j)
    BY <1>1, <1>7
  <2>2. Cardinality(slots(i)) <= Cardinality(slots(j))
    <3> HIDE DEF slots
    <3> QED
      BY <1>3, <2>1, FS_Subset
  <2> HIDE DEF slots
  <2> QED
    BY <1>4, <2>2
<1>8. UpTo(parts) \in [0..L -> Nat]
  <2> HIDE DEF slots
  <2> QED
    BY <1>3, <1>4
<1> QED
  BY <1>5, <1>6, <1>7, <1>8 DEF L

\* All parts one after the other.
LEMMA ConcatIs ==
  ASSUME NEW S, NEW parts \in Seq(Seq(S))
  PROVE  /\ Concat(parts) \in Seq(S)
         /\ Len(Concat(parts)) = UpTo(parts)[Len(parts)]
         /\ \A i \in 1..Len(parts) : \A k \in 1..Len(parts[i]) :
              /\ UpTo(parts)[i - 1] + k \in 1..Len(Concat(parts))
              /\ Concat(parts)[UpTo(parts)[i - 1] + k] = parts[i][k]
<1> DEFINE L == Len(parts)
           upTo == UpTo(parts)
           total == upTo[L]
           from(n) == {i \in DOMAIN parts : n <= upTo[i]}
<1>1. L \in Nat /\ DOMAIN parts = 1..L /\ \A j \in 1..L : parts[j] \in Seq(S) /\ Len(parts[j]) \in Nat
  OBVIOUS
<1>2. /\ upTo \in [0..L -> Nat] /\ upTo[0] = 0
      /\ \A i \in 1..L : upTo[i] = upTo[i - 1] + Len(parts[i])
      /\ \A i, j \in 0..L : i <= j => upTo[i] <= upTo[j]
  BY UpToIs
<1>3. Concat(parts) = [n \in 1..total |-> parts[Min(from(n))][n - upTo[Min(from(n)) - 1]]]
  BY DEF Concat
<1> HIDE DEF L, upTo
<1>4. total \in Nat /\ \A i \in 0..L : upTo[i] \in Nat /\ upTo[i] <= total
  BY <1>1, <1>2
<1>5. ASSUME NEW i \in 1..L, NEW k \in 1..Len(parts[i])
      PROVE  upTo[i - 1] + k \in 1..total /\ Min(from(upTo[i - 1] + k)) = i
  <2>1. i - 1 \in 0..L /\ i \in 0..L /\ Len(parts[i]) \in Nat
    BY <1>1
  <2>2. upTo[i - 1] \in Nat /\ upTo[i] \in Nat /\ upTo[i] = upTo[i - 1] + Len(parts[i]) /\ upTo[i] <= total
    BY <1>2, <1>4, <2>1
  <2> DEFINE n == upTo[i - 1] + k
  <2>3. n \in 1..total /\ n <= upTo[i] /\ n > upTo[i - 1] /\ n \in Nat
    <3>1. k \in Nat /\ k <= Len(parts[i]) /\ k >= 1
      BY <2>1
    <3>2. total \in Nat
      BY <1>4
    <3> HIDE DEF total
    <3> DEFINE start == upTo[i - 1] end == upTo[i] len == Len(parts[i])
    <3>3. start \in Nat /\ end \in Nat /\ end = start + len /\ end <= total /\ len \in Nat /\ k <= len
      BY <2>1, <2>2, <3>1
    <3> HIDE DEF start, end, len
    <3>4. start + k \in 1..total /\ start + k <= end /\ start + k > start /\ start + k \in Nat
      BY <3>1, <3>2, <3>3
    <3> QED
      BY <3>4 DEF start, end, total
  <2> HIDE DEF n
  <2>4. i \in from(n)
    BY <1>1, <2>3
  <2>5. ASSUME NEW j \in from(n)
        PROVE  i <= j
    <3>1. j \in 1..L /\ n <= upTo[j] /\ j \in 0..L /\ upTo[j] \in Nat
      BY <1>1, <1>4
    <3>2. ASSUME j < i
          PROVE  FALSE
      <4>1. j <= i - 1
        BY <3>1, <3>2
      <4>2. upTo[j] <= upTo[i - 1]
        BY <1>2, <2>1, <3>1, <4>1
      <4> QED
        BY <2>2, <2>3, <3>1, <4>2
    <3> QED
      BY <3>1, <3>2
  <2>6. from(n) \subseteq Nat
    BY <1>1
  <2> HIDE DEF from
  <2>7. Min(from(n)) \in from(n) /\ Min(from(n)) <= i
    BY <2>4, <2>6, MinIs
  <2>8. i <= Min(from(n))
    BY <2>5, <2>7
  <2>9. Min(from(n)) = i
    <3>1. Min(from(n)) \in Nat
      BY <2>6, <2>7
    <3> QED
      BY <2>7, <2>8, <3>1
  <2> QED
    BY <2>3, <2>9 DEF n
<1>6. ASSUME NEW n \in 1..total
      PROVE  parts[Min(from(n))][n - upTo[Min(from(n)) - 1]] \in S
  <2>1. total > 0
    BY <1>4
  <2>2. L \in from(n)
    <3>1. L # 0
      BY <1>2, <2>1
    <3> QED
      BY <1>1, <1>4, <3>1
  <2>3. from(n) \subseteq Nat
    BY <1>1
  <2> DEFINE i == Min(from(n))
  <2>4. i \in from(n) /\ \A j \in from(n) : i <= j
    <3> HIDE DEF from
    <3> QED
      BY <2>2, <2>3, MinIs
  <2> HIDE DEF i
  <2>5. i \in 1..L /\ n <= upTo[i] /\ i - 1 \in 0..L
    BY <1>1, <2>4
  <2>6. n > upTo[i - 1]
    <3>1. CASE i = 1
      BY <1>2, <1>4, <3>1
    <3>2. CASE i # 1
      <4>1. i - 1 \in 1..L /\ i - 1 < i
        BY <1>1, <2>5, <3>2
      <4>2. i - 1 \notin from(n)
        BY <2>3, <2>4, <4>1
      <4> QED
        BY <1>1, <1>4, <2>5, <4>1, <4>2
    <3> QED
      BY <3>1, <3>2
  <2>7. n - upTo[i - 1] \in 1..Len(parts[i])
    BY <1>1, <1>2, <1>4, <2>5, <2>6
  <2>8. parts[i] \in Seq(S)
    BY <1>1, <2>5
  <2>9. parts[i][n - upTo[i - 1]] \in S
    BY <2>7, <2>8, ElementOfSeq
  <2> QED
    BY <2>9 DEF i
<1> HIDE DEF from
<1>7. Concat(parts) \in Seq(S) /\ Len(Concat(parts)) = total
  <2> HIDE DEF total
  <2> QED
    BY <1>3, <1>4, <1>6
<1>8. ASSUME NEW i \in 1..L, NEW k \in 1..Len(parts[i])
      PROVE  /\ upTo[i - 1] + k \in 1..Len(Concat(parts))
             /\ Concat(parts)[upTo[i - 1] + k] = parts[i][k]
  <2>1. upTo[i - 1] + k \in 1..total /\ Min(from(upTo[i - 1] + k)) = i
    BY <1>5
  <2>2. Concat(parts)[upTo[i - 1] + k] = parts[i][(upTo[i - 1] + k) - upTo[i - 1]]
    BY <1>3, <2>1
  <2>3. (upTo[i - 1] + k) - upTo[i - 1] = k
    <3>1. upTo[i - 1] \in Nat /\ k \in Nat
      <4>1. i - 1 \in 0..L /\ Len(parts[i]) \in Nat
        BY <1>1
      <4> QED
        BY <1>4, <4>1
    <3> QED
      BY <3>1
  <2> QED
    BY <1>7, <2>1, <2>2, <2>3
<1> QED
  BY <1>7, <1>8 DEF L, upTo

\* Where a record or a block ends, and the tokens of a record.
LEMMA RecordIs ==
  ASSUME NEW tokens \in Seq(Token), NEW at \in Nat \ {0}
  PROVE  /\ SlashFrom(tokens, at) \in Nat \ {0}
         /\ EndOfBlock(tokens, at) \in Nat \ {0}
         /\ ReadRecordTokens(tokens, at) \in Seq(Token)
<1>1. Len(tokens) \in Nat
  OBVIOUS
<1>2. ASSUME NEW S, S \subseteq at..Len(tokens)
      PROVE  Min(S \cup {Len(tokens) + 1}) \in Nat \ {0} /\ Min(S \cup {Len(tokens) + 1}) <= Len(tokens) + 1
  <2>1. S \cup {Len(tokens) + 1} \subseteq Nat \ {0}
    <3>1. \A i \in S : i \in at..Len(tokens)
      BY <1>2
    <3>2. \A i \in at..Len(tokens) : i \in Nat /\ i # 0
      BY <1>1
    <3>3. Len(tokens) + 1 \in Nat /\ Len(tokens) + 1 # 0
      BY <1>1
    <3> QED
      BY <3>1, <3>2, <3>3
  <2>2. /\ Min(S \cup {Len(tokens) + 1}) \in S \cup {Len(tokens) + 1}
        /\ \A y \in S \cup {Len(tokens) + 1} : Min(S \cup {Len(tokens) + 1}) <= y
    BY <2>1, MinIs
  <2> QED
    BY <2>1, <2>2
<1>3. SlashFrom(tokens, at) \in Nat \ {0} /\ SlashFrom(tokens, at) <= Len(tokens) + 1
  BY <1>2 DEF SlashFrom
<1>4. EndOfBlock(tokens, at) \in Nat \ {0}
  BY <1>2 DEF EndOfBlock
<1>5. ReadRecordTokens(tokens, at) \in Seq(Token)
  <2> DEFINE end == SlashFrom(tokens, at) - 1
  <2>1. end \in Nat /\ end <= Len(tokens)
    BY <1>1, <1>3
  <2> HIDE DEF end
  <2>2. \A i \in at..end : tokens[i] \in Token
    <3> TAKE i \in at..end
    <3>1. i \in 1..Len(tokens)
      BY <1>1, <2>1
    <3> QED
      BY <3>1, ElementOfSeq
  <2>3. SubSeq(tokens, at, end) \in Seq(Token)
    BY <2>1, <2>2, SubSeqProperties
  <2> QED
    BY <2>3 DEF ReadRecordTokens, end
<1> QED
  BY <1>3, <1>4, <1>5

\* The values of a record.
LEMMA ValuesAre ==
  ASSUME NEW record \in Seq(Token), ExpandTokens(record) # Error
  PROVE  ExpandTokens(record) \in Seq(Int)
<1> DEFINE parts == [i \in DOMAIN record |-> [n \in 1..Repeats(record[i]) |-> record[i].value]]
<1>1. ASSUME NEW i \in DOMAIN record
      PROVE  [n \in 1..Repeats(record[i]) |-> record[i].value] \in Seq(Int)
  <2>1. record[i] \in Token
    OBVIOUS
  <2>2. Repeats(record[i]) \in Nat /\ record[i].value \in Int
    BY <2>1 DEF Token, Repeats
  <2> QED
    BY <2>2
<1>2. parts \in Seq(Seq(Int))
  <2>1. Len(record) \in Nat /\ DOMAIN record = 1..Len(record)
    OBVIOUS
  <2> QED
    BY <1>1, <2>1
<1>3. ExpandTokens(record) = Concat(parts)
  BY DEF ExpandTokens
<1> HIDE DEF parts
<1> QED
  BY <1>2, <1>3, ConcatIs

-----------------------------------------------------------------------------
(* Read.                                                                   *)

\* The file that is parsed, and the keyword in it.
LEMMA TopIs ==
  ASSUME DeckTypes, frames # <<>>
  PROVE  /\ Len(frames) \in Nat \ {0} /\ DOMAIN frames = 1..Len(frames)
         /\ Top = frames[Len(frames)] /\ Top \in Frames
         /\ Top.file \in DOMAIN files /\ Top.at \in Nat \ {0}
         /\ Here \in Seq(Token) /\ DeckRecord \in Seq(Token)
         /\ AfterRecord \in Nat \ {0}
         /\ Keyword # "end of file" =>
              Top.at \in DOMAIN Here /\ Here[Top.at].text = Keyword
<1>1. frames \in Seq(Frames)
  BY DEF DeckTypes
<1>2. Len(frames) \in Nat \ {0} /\ DOMAIN frames = 1..Len(frames)
  BY <1>1, EmptySeq
<1>3. Top = frames[Len(frames)] /\ Top \in Frames
  <2>1. Len(frames) \in 1..Len(frames)
    BY <1>2
  <2> QED
    BY <1>1, <2>1, ElementOfSeq DEF Top, Last
<1>4. Top.file \in DOMAIN files /\ Top.at \in Nat \ {0}
  BY <1>3 DEF Frames
<1>5. Here \in Seq(Token)
  BY <1>4 DEF Here, DeckTypes
<1>6. Top.at + 1 \in Nat \ {0}
  BY <1>4
<1>7. DeckRecord \in Seq(Token) /\ AfterRecord \in Nat \ {0}
  <2>1. DeckRecord \in Seq(Token) /\ SlashFrom(Here, Top.at + 1) \in Nat \ {0}
    BY <1>5, <1>6, RecordIs DEF DeckRecord
  <2>2. \A n \in Nat \ {0} : n + 1 \in Nat \ {0}
    OBVIOUS
  <2> QED
    BY <2>1, <2>2 DEF AfterRecord
<1>8. ASSUME Keyword # "end of file"
      PROVE  Top.at \in DOMAIN Here /\ Here[Top.at].text = Keyword
  <2>1. ~(Top.at > Len(Here)) /\ Keyword = Here[Top.at].text
    BY <1>8 DEF Keyword
  <2> QED
    BY <1>4, <1>5, <2>1
<1> QED
  BY <1>2, <1>3, <1>4, <1>5, <1>7, <1>8

\* The frame on top goes on at another token.
LEMMA ContinueIs ==
  ASSUME DeckTypes, ChainInv, frames # <<>>, NEW at \in Nat \ {0},
         NEW moved, moved = [frames EXCEPT ![Len(frames)].at = at]
  PROVE  /\ moved \in Seq(Frames) /\ DOMAIN moved = DOMAIN frames /\ Len(moved) = Len(frames)
         /\ \A i \in DOMAIN moved : moved[i].file = frames[i].file
<1> DEFINE last == Len(frames)
<1>1. frames \in Seq(Frames) /\ last \in 1..last /\ DOMAIN frames = 1..last
  <2>1. frames \in Seq(Frames)
    BY DEF DeckTypes
  <2>2. last \in Nat \ {0} /\ DOMAIN frames = 1..last
    BY TopIs
  <2> QED
    BY <2>1, <2>2
<1>2. frames[last] \in Frames
  BY <1>1, ElementOfSeq
<1>3. [frames[last] EXCEPT !.at = at] \in Frames
  BY <1>2 DEF Frames
<1>4. moved = [frames EXCEPT ![last] = [frames[last] EXCEPT !.at = at]]
  OBVIOUS
<1>5. moved \in Seq(Frames) /\ Len(moved) = Len(frames)
  BY <1>1, <1>3, <1>4, ExceptSeq
<1>6. ASSUME NEW i \in DOMAIN frames
      PROVE  moved[i].file = frames[i].file
  <2>1. CASE i = last
    BY <1>2, <1>4, <1>6, <2>1 DEF Frames
  <2>2. CASE i # last
    BY <1>4, <1>6, <2>2
  <2> QED
    BY <2>1, <2>2
<1>7. DOMAIN moved = DOMAIN frames
  BY <1>4
<1> QED
  BY <1>5, <1>6, <1>7

\* The frames as they are after a step of Read: one goes on, one ends, or a file is
\* included that was never visited.
LEMMA FramesKept ==
  ASSUME DeckTypes, ChainInv, [DeckNext]_deckVars
  PROVE  frames' \in Seq(Frames) /\ ChainInv'
<1> DEFINE moved(at) == [frames EXCEPT ![Len(frames)].at = at]
<1>1. ASSUME Parsing, NEW at \in Nat \ {0}, Continue(at), visited' = visited
      PROVE  frames' \in Seq(Frames) /\ ChainInv'
  <2>1. /\ frames' \in Seq(Frames) /\ DOMAIN frames' = DOMAIN frames
        /\ \A i \in DOMAIN frames' : frames'[i].file = frames[i].file
    BY <1>1, ContinueIs DEF Parsing, Continue
  <2> QED
    BY <1>1, <2>1 DEF ChainInv
<1>2. CASE frames' = frames /\ visited' = visited
  BY <1>2 DEF ChainInv, DeckTypes
<1>3. Parsing => Top.at + 1 \in Nat \ {0} /\ AfterRecord \in Nat \ {0}
  <2>1. \A n \in Nat \ {0} : n + 1 \in Nat \ {0}
    OBVIOUS
  <2> QED
    BY <2>1, TopIs DEF Parsing
<1>4. CASE EndOfDeckFile
  <2>1. /\ frames' = SubSeq(frames, 1, Len(frames) - 1) /\ visited' = visited
        /\ frames # <<>> /\ frames \in Seq(Frames)
    BY <1>4 DEF EndOfDeckFile, Front, Parsing, DeckTypes
  <2>2. Len(frames) \in Nat \ {0} /\ DOMAIN frames = 1..Len(frames)
    BY <2>1, TopIs
  <2>3. \A i \in 1..(Len(frames) - 1) : i \in 1..Len(frames) /\ frames[i] \in Frames
    BY <2>1, <2>2, ElementOfSeq
  <2>4. /\ frames' \in Seq(Frames) /\ DOMAIN frames' = 1..(Len(frames) - 1)
        /\ \A i \in 1..(Len(frames) - 1) : frames'[i] = frames[i]
    BY <2>1, <2>2, <2>3, SubSeqProperties
  <2> QED
    BY <2>1, <2>2, <2>3, <2>4 DEF ChainInv
<1>5. CASE Include
  <2> DEFINE target == IF DeckRecord = <<>> THEN Root ELSE DeckRecord[1].text
             deep == DeckRecord # <<>> /\ (target \notin DOMAIN files \/ Len(frames) > MaxDepth)
             includer == moved(AfterRecord)
  <2>1. Parsing /\ frames # <<>>
    BY <1>5 DEF Include, Parsing
  <2>2. CASE deep
    <3>1. frames' = frames /\ visited' = visited
      BY <1>5, <2>2 DEF Include, Throw
    <3> QED
      BY <1>2, <3>1
  <2>3. CASE ~deep
    <3> HIDE DEF target
    <3>1. /\ frames' = IF IsVisited(target) THEN includer ELSE Append(includer, [file |-> target, at |-> 1])
          /\ visited' = visited \cup {target}
      BY <1>5, <2>3 DEF Include, target
    <3>2. /\ includer \in Seq(Frames) /\ DOMAIN includer = DOMAIN frames
          /\ Len(includer) = Len(frames)
          /\ \A i \in DOMAIN includer : includer[i].file = frames[i].file
      BY <1>3, <2>1, ContinueIs
    <3> HIDE DEF moved
    <3>3. CASE IsVisited(target)
      BY <3>1, <3>2, <3>3 DEF ChainInv, moved
    <3>4. CASE ~IsVisited(target)
      <4>1. target \in DOMAIN files
        BY <2>3, <3>4 DEF ChainInv, IsVisited, target
      <4>2. [file |-> target, at |-> 1] \in Frames
        BY <4>1 DEF Frames
      <4> DEFINE n == Len(frames) new == [file |-> target, at |-> 1]
      <4>3. n \in Nat /\ DOMAIN includer = 1..n
        BY <2>1, <3>2, TopIs
      <4>4. frames' = Append(includer, new)
        BY <3>1, <3>4
      <4> HIDE DEF includer, n, new
      <4>5. /\ frames' \in Seq(Frames) /\ DOMAIN frames' = 1..(n + 1)
            /\ \A i \in 1..n : frames'[i] = includer[i]
            /\ frames'[n + 1] = new
        BY <3>2, <4>2, <4>3, <4>4 DEF n, new
      <4>6. \A i \in 1..n : frames'[i].file \in visited /\ i # n + 1
        BY <3>2, <4>3, <4>5 DEF ChainInv
      <4>7. frames'[n + 1].file = target /\ target \notin visited
        BY <3>4, <4>5 DEF IsVisited, new
      <4>8. \A i, j \in 1..n : frames'[i].file = frames'[j].file => i = j
        BY <3>2, <4>3, <4>5 DEF ChainInv
      <4>9. \A i \in 1..(n + 1) : i \in 1..n \/ i = n + 1
        BY <4>3
      <4>10. Root \in visited' /\ visited \subseteq visited' /\ target \in visited'
        BY <3>1 DEF ChainInv
      <4> QED
        BY <4>5, <4>6, <4>7, <4>8, <4>9, <4>10 DEF ChainInv
    <3> QED
      BY <3>3, <3>4
  <2> QED
    BY <2>2, <2>3
<1>6. CASE SkipKeyword
  BY <1>1, <1>3, <1>6 DEF SkipKeyword
<1>7. CASE ParseDimRecord
  BY <1>1, <1>2, <1>3, <1>7 DEF ParseDimRecord, Throw
<1>8. CASE ParseMapAxesRecord
  BY <1>1, <1>2, <1>3, <1>8 DEF ParseMapAxesRecord, Throw
<1>9. CASE ParseGridUnitRecord
  BY <1>1, <1>3, <1>9 DEF ParseGridUnitRecord
<1>10. CASE ListArray
  BY <1>1, <1>3, <1>10 DEF ListArray
<1>11. CASE SkipSlashTerminatedBlock
  <2>1. Parsing
    BY <1>11 DEF SkipSlashTerminatedBlock
  <2>2. EndOfBlock(Here, Top.at + 1) \in Nat \ {0}
    BY <1>3, <2>1, TopIs, RecordIs DEF Parsing
  <2>3. EndOfBlock(Here, Top.at + 1) + 1 \in Nat \ {0}
    BY <2>2
  <2> QED
    BY <1>1, <1>11, <2>1, <2>3 DEF SkipSlashTerminatedBlock
<1>12. CASE SkipSingleRecord
  BY <1>1, <1>3, <1>12 DEF SkipSingleRecord
<1>13. CASE \/ EndDeck \/ (\E keyword \in DOMAIN arrays : Load(keyword)) \/ LoadCellMap \/ Rewrite
            \/ UNCHANGED deckVars
  <2>1. frames' = frames /\ visited' = visited
    BY <1>13 DEF EndDeck, Load, LoadCellMap, Rewrite, deckVars, parseVars
  <2> QED
    BY <1>2, <2>1
<1> QED
  BY <1>4, <1>5, <1>6, <1>7, <1>8, <1>9, <1>10, <1>11, <1>12, <1>13 DEF DeckNext

\* Files are rewritten to what files may be, and no file comes or goes.
LEMMA FilesKept ==
  ASSUME DeckTypes, [DeckNext]_deckVars
  PROVE  /\ DOMAIN files' = DOMAIN files
         /\ files' \in [DOMAIN files' -> Seq(Token)]
         /\ files' = files \/ Rewrite
<1>1. CASE files' = files
  BY <1>1 DEF DeckTypes
<1>2. CASE Rewrite
  <2>1. PICK f \in DOMAIN files, tokens \in Contents : files' = [files EXCEPT ![f] = tokens]
    BY <1>2 DEF Rewrite
  <2>2. tokens \in Seq(Token)
    BY DecksAssumption
  <2> QED
    BY <1>2, <2>1, <2>2 DEF DeckTypes
<1> QED
  BY <1>1, <1>2 DEF DeckNext, SkipKeyword, EndOfDeckFile, Include, ParseDimRecord, ParseMapAxesRecord,
     ParseGridUnitRecord, ListArray, SkipSlashTerminatedBlock, SkipSingleRecord, EndDeck, Load,
     LoadCellMap, deckVars, parseVars

\* The type invariant is kept.
LEMMA DeckTypesKept ==
  ASSUME DeckTypes, ChainInv, [DeckNext]_deckVars
  PROVE  DeckTypes'
<1>1. Frames' = Frames
  BY FilesKept DEF Frames
<1>2. frames' \in Seq(Frames')
  BY <1>1, FramesKept
<1>3. phase' \in {"parsing", "failed", "read"}
  BY DEF DeckTypes, DeckNext, SkipKeyword, EndOfDeckFile, Include, ParseDimRecord, ParseMapAxesRecord,
     ParseGridUnitRecord, ListArray, SkipSlashTerminatedBlock, SkipSingleRecord, EndDeck, Load,
     LoadCellMap, Rewrite, Throw, deckVars, parseVars
<1>4. rewrites' = rewrites \/ rewrites' = rewrites + 1
  BY DEF DeckNext, SkipKeyword, EndOfDeckFile, Include, ParseDimRecord, ParseMapAxesRecord,
     ParseGridUnitRecord, ListArray, SkipSlashTerminatedBlock, SkipSingleRecord, EndDeck, Load,
     LoadCellMap, Rewrite, deckVars
<1>5. rewrites' \in Nat
  BY <1>4 DEF DeckTypes
<1> QED
  BY <1>2, <1>3, <1>5, FilesKept DEF DeckTypes

\* An array is listed where it is met; later ones replace earlier ones.
LEMMA MetKept ==
  ASSUME DeckTypes, MetInv, LoadedInv, [DeckNext]_deckVars
  PROVE  MetInv'
<1>1. CASE ListArray
  <2> DEFINE key == Keyword
             ref == [keyword |-> key, file |-> Top.file]
  <2>1. /\ Parsing /\ frames # <<>> /\ IsArrayKeyword(key) /\ phase # "read"
        /\ UNCHANGED <<files, rewrites>>
    BY <1>1 DEF ListArray, Parsing
  <2>2. /\ arrays' = [k \in DOMAIN arrays \cup {key} |-> IF k = key THEN ref ELSE arrays[k]]
        /\ met' = [k \in DOMAIN met \cup {key} |-> IF k = key THEN Top.at ELSE met[k]]
    BY <1>1 DEF ListArray
  <2>3. key # "end of file"
    BY <2>1 DEF IsArrayKeyword, IsSupportedCellPropertyKeyword, IsIntCellPropertyKeyword,
       IsDoubleCellPropertyKeyword
  <2>4. /\ Top.file \in DOMAIN files /\ Top.at \in DOMAIN files[Top.file]
        /\ files[Top.file][Top.at].text = key
    BY <2>1, <2>3, TopIs DEF Here
  <2> HIDE DEF key
  <2>5. DOMAIN met' = DOMAIN arrays'
    BY <2>2 DEF MetInv
  <2>6. ASSUME NEW k \in DOMAIN arrays'
        PROVE  /\ IsArrayKeyword(k)
               /\ arrays'[k].keyword = k /\ arrays'[k].file \in DOMAIN files'
               /\ rewrites' = 0 => /\ met'[k] \in DOMAIN files'[arrays'[k].file]
                                   /\ files'[arrays'[k].file][met'[k]].text = k
    <3>1. CASE k = key
      <4>1. arrays'[k] = ref /\ met'[k] = Top.at
        BY <2>2, <3>1 DEF MetInv
      <4> QED
        BY <2>1, <2>4, <3>1, <4>1
    <3>2. CASE k # key
      <4>1. k \in DOMAIN arrays /\ arrays'[k] = arrays[k] /\ met'[k] = met[k]
        BY <2>2, <2>6, <3>2 DEF MetInv
      <4> QED
        BY <2>1, <4>1 DEF MetInv, IsMet
    <3> QED
      BY <3>1, <3>2
  <2> QED
    BY <2>5, <2>6 DEF MetInv, IsMet, IsArrayKeyword, IsSupportedCellPropertyKeyword,
       IsIntCellPropertyKeyword, IsDoubleCellPropertyKeyword
<1>2. CASE Rewrite
  <2>1. rewrites' # 0 /\ UNCHANGED <<arrays, met>>
    BY <1>2 DEF Rewrite, parseVars, DeckTypes
  <2> QED
    BY <2>1, FilesKept DEF MetInv
<1>3. CASE ~ListArray /\ ~Rewrite
  <2>1. UNCHANGED <<files, arrays, met, rewrites>>
    BY <1>3 DEF DeckNext, SkipKeyword, EndOfDeckFile, Include, ParseDimRecord, ParseMapAxesRecord,
       ParseGridUnitRecord, SkipSlashTerminatedBlock, SkipSingleRecord, EndDeck, Load,
       LoadCellMap, Throw, deckVars, parseVars
  <2> QED
    BY <2>1 DEF MetInv, IsMet
<1> QED
  BY <1>1, <1>2, <1>3

\* What was loaded is dropped when a file is rewritten, and nothing that a loader
\* goes by changes after the deck was read.
LEMMA LoadedKept ==
  ASSUME DeckTypes, LoadedInv, [DeckNext]_deckVars
  PROVE  LoadedInv'
<1>1. CASE phase = "parsing" /\ UNCHANGED <<loaded, rewrites>>
  BY <1>1 DEF LoadedInv
<1>2. CASE Rewrite
  BY <1>2 DEF Rewrite, LoadedInv, parseVars
<1>3. \A ref : UNCHANGED <<files, grid>> =>
        /\ LoadKeywordArray(ref)' = LoadKeywordArray(ref)
        /\ LoadLogicalCellToActiveCellArray(ref)' = LoadLogicalCellToActiveCellArray(ref)
  BY DEF LoadKeywordArray, LoadLogicalCellToActiveCellArray, KeywordValues, ExpectedCount
<1>4. ASSUME NEW keyword \in DOMAIN arrays, Load(keyword)
      PROVE  LoadedInv'
  <2>1. /\ phase = "read" /\ UNCHANGED <<files, grid, arrays, phase>>
        /\ loaded'.array = keyword /\ loaded'.value = LoadKeywordArray(arrays[keyword])
    BY <1>4 DEF Load, parseVars
  <2> QED
    BY <1>3, <2>1 DEF LoadedInv
<1>5. CASE LoadCellMap
  <2>1. /\ phase = "read" /\ UNCHANGED <<files, grid, arrays, phase>> /\ "ACTNUM" \in DOMAIN arrays
        /\ loaded'.array = "logicalCellToActiveCell"
        /\ loaded'.value = LoadLogicalCellToActiveCellArray(arrays["ACTNUM"])
    BY <1>5 DEF LoadCellMap, parseVars
  <2> QED
    BY <1>3, <2>1 DEF LoadedInv
<1>6. CASE UNCHANGED deckVars
  <2>1. UNCHANGED <<files, grid, arrays, phase, loaded, rewrites>>
    BY <1>6 DEF deckVars, parseVars
  <2> QED
    BY <1>3, <2>1 DEF LoadedInv
<1> QED
  BY <1>1, <1>2, <1>4, <1>5, <1>6 DEF DeckNext, SkipKeyword, EndOfDeckFile, Include, ParseDimRecord,
     ParseMapAxesRecord, ParseGridUnitRecord, ListArray, SkipSlashTerminatedBlock,
     SkipSingleRecord, EndDeck, Parsing

\* A file that Read turns down has a record that is malformed, or is nested too deep.
LEMMA ThrowsForAReason ==
  ASSUME DeckTypes, ChainInv, Parsing, phase' = "failed", UNCHANGED <<files, frames>>,
         Include \/ ParseDimRecord \/ ParseMapAxesRecord
  PROVE  HasMalformedRecord \/ IsDeepChain
<1>1. frames # <<>>
  BY DEF Parsing
<1>2. Keyword # "end of file"
  BY DEF Include, ParseDimRecord, ParseMapAxesRecord, IsDimsKeyword
<1>3. /\ Top.file \in DOMAIN files /\ Top.at \in DOMAIN files[Top.file]
      /\ files[Top.file][Top.at].text = Keyword
      /\ DeckRecord = ReadRecordTokens(files[Top.file], Top.at + 1)
      /\ DeckRecord \in Seq(Token)
  BY <1>1, <1>2, TopIs DEF Here, DeckRecord
<1>4. phase = "parsing"
  BY DEF Parsing
<1>5. CASE Include
  <2>1. DeckRecord # <<>> /\ (DeckRecord[1].text \notin DOMAIN files \/ Len(frames) > MaxDepth)
    BY <1>4, <1>5 DEF Include
  <2>2. Keyword = "INCLUDE"
    BY <1>5 DEF Include
  <2>3. CASE Len(frames) > MaxDepth
    BY <2>3 DEF IsDeepChain, ChainInv
  <2>4. CASE DeckRecord[1].text \notin DOMAIN files
    BY <1>3, <2>1, <2>2, <2>4 DEF HasMalformedRecord
  <2> QED
    BY <2>1, <2>3, <2>4
<1>6. CASE ParseDimRecord
  <2>1. IsDimsKeyword(Keyword) /\ Len(DeckRecord) >= 3 /\ \E i \in 1..3 : ~IsDimension(DeckRecord[i])
    BY <1>4, <1>6 DEF ParseDimRecord
  <2> QED
    BY <1>3, <2>1 DEF HasMalformedRecord
<1>7. CASE ParseMapAxesRecord
  <2>1. Keyword = "MAPAXES" /\ ExpandTokens(DeckRecord) = Error
    BY <1>4, <1>7 DEF ParseMapAxesRecord
  <2> QED
    BY <1>3, <2>1 DEF HasMalformedRecord
<1> QED
  BY <1>5, <1>6, <1>7

\* A deck is turned down for a reason.
LEMMA ReasonKept ==
  ASSUME DeckTypes, ChainInv, LoadedInv, FailsForAReason, [DeckNext]_deckVars
  PROVE  FailsForAReason'
<1> SUFFICES ASSUME phase' = "failed"
             PROVE  HasMalformedRecord' \/ IsDeepChain'
                    \/ (frames' = <<>> /\ (grid'.dims = None
                                           \/ ~({"COORD", "ZCORN"} \subseteq DOMAIN arrays')))
  BY DEF FailsForAReason
<1>1. CASE phase = "failed"
  <2>1. UNCHANGED deckVars
    BY <1>1 DEF DeckNext, SkipKeyword, EndOfDeckFile, Include, ParseDimRecord, ParseMapAxesRecord,
       ParseGridUnitRecord, ListArray, SkipSlashTerminatedBlock, SkipSingleRecord, EndDeck, Load,
       LoadCellMap, Rewrite, Parsing
  <2>2. UNCHANGED <<files, frames, grid, arrays>>
    BY <2>1 DEF deckVars, parseVars
  <2>3. (HasMalformedRecord => HasMalformedRecord') /\ (IsDeepChain => IsDeepChain')
    BY <2>2 DEF HasMalformedRecord, IsDeepChain
  <2> QED
    BY <1>1, <2>2, <2>3 DEF FailsForAReason, LoadedInv
<1>2. CASE EndDeck
  BY <1>2 DEF EndDeck
<1>3. CASE phase # "failed" /\ ~EndDeck
  <2>1. /\ Include \/ ParseDimRecord \/ ParseMapAxesRecord
        /\ Parsing /\ UNCHANGED <<files, frames>>
    BY <1>3 DEF DeckNext, SkipKeyword, EndOfDeckFile, Include, ParseDimRecord, ParseMapAxesRecord,
       ParseGridUnitRecord, ListArray, SkipSlashTerminatedBlock, SkipSingleRecord, Load,
       LoadCellMap, Rewrite, Throw, deckVars, parseVars
  <2>2. HasMalformedRecord \/ IsDeepChain
    BY <2>1, ThrowsForAReason
  <2> QED
    BY <2>1, <2>2 DEF HasMalformedRecord, IsDeepChain
<1> QED
  BY <1>1, <1>2, <1>3

\* The invariant holds in every state that is reached.
LEMMA DeckInvariant ==
  DeckSpec => []DeckInv
<1>1. DeckInit => DeckInv
  <2> SUFFICES ASSUME DeckInit
               PROVE  DeckInv
    OBVIOUS
  <2>1. /\ files = [f \in DOMAIN files |-> files[f]] /\ Root \in DOMAIN files
        /\ \A f \in DOMAIN files : files[f] \in Seq(Token)
    BY DecksAssumption DEF DeckInit
  <2>2. frames = <<[file |-> Root, at |-> 1]>> /\ visited = {Root}
    BY DEF DeckInit
  <2>3. frames \in Seq(Frames)
    BY <2>1, <2>2 DEF Frames
  <2>4. DOMAIN frames = {1} /\ frames[1].file = Root
    BY <2>2
  <2>5. DeckTypes
    BY <2>1, <2>3 DEF DeckInit, DeckTypes
  <2>6. ChainInv
    BY <2>2, <2>4 DEF ChainInv
  <2>7. MetInv /\ LoadedInv /\ FailsForAReason
    BY DEF DeckInit, MetInv, LoadedInv, FailsForAReason
  <2> QED
    BY <2>5, <2>6, <2>7 DEF DeckInv
<1>2. DeckInv /\ [DeckNext]_deckVars => DeckInv'
  BY DeckTypesKept, FramesKept, MetKept, LoadedKept, ReasonKept DEF DeckInv
<1> QED
  BY <1>1, <1>2, PTL DEF DeckSpec

-----------------------------------------------------------------------------
(* Loaders.                                                                *)

\* What the loader of an array searches for is found where Read met the array, unless
\* an earlier token of the file reads the same.
LEMMA SearchFindsMet ==
  ASSUME DeckInv, rewrites = 0, NEW keyword \in DOMAIN arrays, NamedFirst(keyword)
  PROVE  LoadKeywordArray(arrays[keyword]) = MetValues(keyword)
<1> DEFINE ref == arrays[keyword]
           tokens == files[ref.file]
           places == {i \in DOMAIN tokens : tokens[i].text = keyword} \cup {Len(tokens) + 1}
           at == met[keyword]
<1>1. ref.keyword = keyword /\ ref.file \in DOMAIN files /\ IsMet(keyword)
  BY DEF DeckInv, MetInv
<1>2. tokens \in Seq(Token)
  BY <1>1 DEF DeckInv, DeckTypes
<1>3. at \in DOMAIN tokens /\ tokens[at].text = keyword
  BY <1>1 DEF IsMet
<1>4. Len(tokens) \in Nat /\ DOMAIN tokens = 1..Len(tokens)
  BY <1>2
<1>5. \A i \in DOMAIN tokens : tokens[i].text = keyword => i >= at
  BY DEF NamedFirst
<1> HIDE DEF tokens, at
<1>6. places \subseteq Nat /\ at \in places
  BY <1>3, <1>4
<1>7. \A i \in places : i >= at
  BY <1>3, <1>4, <1>5
<1>8. Min(places) \in places /\ Min(places) <= at
  <2> HIDE DEF places
  <2> QED
    BY <1>6, MinIs
<1>9. Min(places) = at /\ at <= Len(tokens)
  BY <1>3, <1>4, <1>6, <1>7, <1>8
<1>10. KeywordValues(ref) = ExpandTokens(ReadRecordTokens(tokens, at + 1))
  <2>1. KeywordValues(ref) = IF Min(places) > Len(tokens) THEN Error
                             ELSE ExpandTokens(ReadRecordTokens(tokens, Min(places) + 1))
    BY <1>1 DEF KeywordValues, tokens
  <2>2. ~(at > Len(tokens))
    BY <1>3, <1>4
  <2> QED
    BY <1>9, <2>1, <2>2
<1> QED
  BY <1>1, <1>10 DEF LoadKeywordArray, MetValues, tokens, at

\* A listed array that is loaded is the one of the record that Read met, whatever
\* the deck's files, their order and their nesting.
THEOREM ListedArraysAreLoaded ==
  DeckSpec => []ListedArraysLoad
<1>1. DeckInv => ListedArraysLoad
  <2> SUFFICES ASSUME DeckInv, WasLoaded, loaded.array \in DOMAIN arrays, NamedFirst(loaded.array)
               PROVE  loaded.value = MetValues(loaded.array)
    BY DEF ListedArraysLoad
  <2>1. IsArrayKeyword(loaded.array)
    BY DEF DeckInv, MetInv
  <2>2. loaded.array # "logicalCellToActiveCell"
    BY <2>1 DEF IsArrayKeyword, IsSupportedCellPropertyKeyword, IsIntCellPropertyKeyword,
       IsDoubleCellPropertyKeyword
  <2>3. loaded.value = LoadKeywordArray(arrays[loaded.array])
    BY <2>2 DEF DeckInv, LoadedInv, WasLoaded
  <2> QED
    BY <2>3, SearchFindsMet DEF WasLoaded
<1> QED
  BY <1>1, DeckInvariant, PTL

\* What a loader gives is a sequence of numbers of the size it was made for.
LEMMA LoadedIsFitting ==
  ASSUME DeckInv, NEW keyword \in DOMAIN arrays, LoadKeywordArray(arrays[keyword]) # Error
  PROVE  /\ LoadKeywordArray(arrays[keyword]) \in Seq(Int)
         /\ Len(LoadKeywordArray(arrays[keyword])) = ExpectedCount(keyword)
<1> DEFINE ref == arrays[keyword]
           tokens == files[ref.file]
           places == {i \in DOMAIN tokens : tokens[i].text = ref.keyword} \cup {Len(tokens) + 1}
           record == ReadRecordTokens(tokens, Min(places) + 1)
<1>1. ref.keyword = keyword /\ ref.file \in DOMAIN files
  BY DEF DeckInv, MetInv
<1>2. tokens \in Seq(Token)
  BY <1>1 DEF DeckInv, DeckTypes
<1>3. /\ LoadKeywordArray(ref) = KeywordValues(ref) /\ KeywordValues(ref) # Error
      /\ Len(KeywordValues(ref)) = ExpectedCount(keyword)
  BY <1>1 DEF LoadKeywordArray
<1>4. KeywordValues(ref) = ExpandTokens(record)
  BY <1>3 DEF KeywordValues
<1>5. Min(places) + 1 \in Nat \ {0}
  <2>1. Len(tokens) \in Nat /\ DOMAIN tokens = 1..Len(tokens)
    BY <1>2
  <2> HIDE DEF tokens
  <2>2. places \subseteq Nat /\ places # {}
    BY <2>1
  <2>3. Min(places) \in Nat
    <3> HIDE DEF places
    <3> QED
      BY <2>2, MinIs
  <2> HIDE DEF places
  <2> QED
    BY <2>3
<1>6. record \in Seq(Token)
  <2> HIDE DEF tokens, places
  <2> QED
    BY <1>2, <1>5, RecordIs
<1>7. KeywordValues(ref) \in Seq(Int)
  <2> HIDE DEF record
  <2> QED
    BY <1>3, <1>4, <1>6, ValuesAre
<1> QED
  BY <1>3, <1>7

\* What is loaded has the size that the grid was read with, whatever the files became
\* since, and the cell map numbers the active cells; and a deck that is turned down has
\* given a reason: not that its files include each other.
THEOREM DecksLoadOrFail ==
  DeckSpec => []DeckLoadsOrFails
<1>1. DeckInv => LoadedArraysFit
  <2> SUFFICES ASSUME DeckInv, loaded # None, loaded.value # Error
               PROVE  LoadedArraysFit
    BY DEF LoadedArraysFit
  <2>1. CASE loaded.array # "logicalCellToActiveCell"
    <3>1. loaded.array \in DOMAIN arrays /\ loaded.value = LoadKeywordArray(arrays[loaded.array])
      BY <2>1 DEF DeckInv, LoadedInv
    <3>2. Len(loaded.value) = ExpectedCount(loaded.array)
      BY <3>1, LoadedIsFitting
    <3> QED
      BY <2>1, <3>2 DEF LoadedArraysFit
  <2>2. CASE loaded.array = "logicalCellToActiveCell"
    <3> DEFINE actnum == LoadKeywordArray(arrays["ACTNUM"])
    <3>1. loaded.array \notin DOMAIN arrays
      BY <2>2 DEF DeckInv, MetInv, IsArrayKeyword, IsSupportedCellPropertyKeyword,
         IsIntCellPropertyKeyword, IsDoubleCellPropertyKeyword
    <3>2. /\ "ACTNUM" \in DOMAIN arrays
          /\ loaded.value = LoadLogicalCellToActiveCellArray(arrays["ACTNUM"])
      BY <3>1 DEF DeckInv, LoadedInv
    <3>3. actnum # Error /\ loaded.value = BuildLogicalCellToActiveCellArray(actnum)
      BY <3>2 DEF LoadLogicalCellToActiveCellArray
    <3>4. actnum \in Seq(Int)
      BY <3>2, <3>3, LoadedIsFitting
    <3> HIDE DEF actnum
    <3>5. NumbersActiveCells(loaded.value, actnum)
      BY <3>3, <3>4, CellMapIs
    <3> QED
      BY <2>2, <3>5 DEF LoadedArraysFit, actnum
  <2> QED
    BY <2>1, <2>2
<1>2. DeckInv => DeckLoadsOrFails
  BY <1>1 DEF DeckLoadsOrFails, DeckInv
<1> QED
  BY <1>2, DeckInvariant, PTL

-----------------------------------------------------------------------------
(* The words of a binary file.                                             *)

FilesThere == {FileOf(name) : name \in DOMAIN Files}

\* The words that the first chunks of an item take, with their markers.
FramesOf(item) == [c \in DOMAIN item.chunks |-> Framed(item.chunks[c])]
FramedUpTo(item) == UpTo(FramesOf(item))

\* The word behind the first chunks of an item.
PosOf(f, i, c) == f.ends[i - 1] + 6 + FramedUpTo(f.items[i])[c] + 1

\* What is known of an item when its first chunks are read.
IndexedRecord(f, i, c) ==
  [keyword |-> f.items[i].keyword, type |-> f.items[i].type, count |-> f.items[i].count,
   chunks |-> [d \in 1..c |-> [offset |-> PosOf(f, i, d - 1) + 1,
                               words |-> Len(f.items[i].chunks[d])]],
   read |-> UpTo(f.items[i].chunks)[c]]

\* Numbers and texts are words.
LEMMA NumbersAreWords ==
  /\ \A v \in Int : Number(v) \in FileWord /\ Number(v).int = v
  /\ \A t \in Texts : Text(t) \in FileWord /\ Text(t).text = t
<1>1. \A v \in Int : Number(v) \in FileWord /\ Number(v).int = v
  BY SMT DEF FileWord, Texts, Number
<1>2. Huge \in Int
  BY SMT DEF Huge
<1>3. \A t \in Texts : Text(t) \in FileWord /\ Text(t).text = t
  BY <1>2, SMT DEF FileWord, Text
<1> QED
  BY <1>1, <1>3

\* A chunk stands between two markers with its length.
LEMMA FramedIs ==
  ASSUME NEW chunk \in Seq(FileWord)
  PROVE  /\ Framed(chunk) \in Seq(FileWord) /\ Len(Framed(chunk)) = Len(chunk) + 2
         /\ Framed(chunk)[1] = Number(4 * Len(chunk))
         /\ Framed(chunk)[Len(chunk) + 2] = Number(4 * Len(chunk))
         /\ \A m \in 1..Len(chunk) : Framed(chunk)[m + 1] = chunk[m]
<1> DEFINE marker == Number(4 * Len(chunk))
<1>1. Len(chunk) \in Nat /\ marker \in FileWord
  <2>1. Len(chunk) \in Nat
    OBVIOUS
  <2>2. 4 * Len(chunk) \in Int
    BY <2>1
  <2> QED
    BY <2>1, <2>2, NumbersAreWords
<1> HIDE DEF marker
<1>2. <<marker>> \in Seq(FileWord) /\ Len(<<marker>>) = 1 /\ <<marker>>[1] = marker
  BY <1>1
<1>3. /\ <<marker>> \o chunk \in Seq(FileWord) /\ Len(<<marker>> \o chunk) = Len(chunk) + 1
      /\ (<<marker>> \o chunk)[1] = marker
      /\ \A m \in 1..Len(chunk) : (<<marker>> \o chunk)[m + 1] = chunk[m]
  BY <1>1, <1>2
<1>4. Framed(chunk) = (<<marker>> \o chunk) \o <<marker>>
  BY DEF Framed, marker
<1> QED
  BY <1>1, <1>2, <1>3, <1>4 DEF marker

\* The header of an item.
LEMMA HeaderIs ==
  ASSUME NEW item \in Item
  PROVE  /\ Header(item) \in Seq(FileWord) /\ Len(Header(item)) = 6
         /\ Header(item)[1].int = 16 /\ Header(item)[6].int = 16
         /\ Header(item)[2].text = item.keyword /\ Header(item)[4].int = item.count
         /\ Header(item)[5].text = item.type
<1>1. item.keyword \in Texts /\ item.type \in Texts /\ item.count \in Int
  BY DEF Item
<1>2. "rest" \in Texts /\ 16 \in Int
  BY DEF Texts
<1>3. /\ Number(16) \in FileWord /\ Text(item.keyword) \in FileWord /\ Text("rest") \in FileWord
      /\ Number(item.count) \in FileWord /\ Text(item.type) \in FileWord
      /\ Number(16).int = 16 /\ Number(item.count).int = item.count
      /\ Text(item.keyword).text = item.keyword /\ Text(item.type).text = item.type
  BY <1>1, <1>2, NumbersAreWords
<1> DEFINE a == Number(16) b == Text(item.keyword) c == Text("rest")
           d == Number(item.count) e == Text(item.type)
<1>4. Header(item) = <<a, b, c, d, e, a>>
  BY DEF Header
<1> HIDE DEF a, b, c, d, e
<1>5. /\ <<a, b, c, d, e, a>> \in Seq(FileWord) /\ Len(<<a, b, c, d, e, a>>) = 6
  BY <1>3 DEF a, b, c, d, e
<1> QED
  BY <1>3, <1>4, <1>5 DEF a, b, d, e

\* The words of an item: its header and its chunks, each between its markers.
LEMMA WordsOfIs ==
  ASSUME NEW item \in Item
  PROVE  /\ FramedUpTo(item) \in [0..Len(item.chunks) -> Nat] /\ FramedUpTo(item)[0] = 0
         /\ \A c \in 1..Len(item.chunks) :
              FramedUpTo(item)[c] = FramedUpTo(item)[c - 1] + Len(item.chunks[c]) + 2
         /\ \A c, d \in 0..Len(item.chunks) : c <= d => FramedUpTo(item)[c] <= FramedUpTo(item)[d]
         /\ WordsOf(item) \in Seq(FileWord)
         /\ Len(WordsOf(item)) = 6 + FramedUpTo(item)[Len(item.chunks)]
         /\ \A k \in 1..6 : WordsOf(item)[k] = Header(item)[k]
         /\ \A c \in 1..Len(item.chunks) : \A m \in 1..(Len(item.chunks[c]) + 2) :
              /\ 6 + FramedUpTo(item)[c - 1] + m \in 1..Len(WordsOf(item))
              /\ WordsOf(item)[6 + FramedUpTo(item)[c - 1] + m] = Framed(item.chunks[c])[m]
<1> DEFINE parts == FramesOf(item)
           n == Len(item.chunks)
           behind == Concat(parts)
<1>1. item.chunks \in Seq(Seq(FileWord)) /\ n \in Nat /\ DOMAIN item.chunks = 1..n
  BY DEF Item
<1>2. \A c \in 1..n : /\ Framed(item.chunks[c]) \in Seq(FileWord)
                      /\ Len(Framed(item.chunks[c])) = Len(item.chunks[c]) + 2
                      /\ Len(item.chunks[c]) \in Nat
  <2> TAKE c \in 1..n
  <2> DEFINE chunk == item.chunks[c]
  <2>1. chunk \in Seq(FileWord)
    BY <1>1
  <2> HIDE DEF chunk
  <2>2. Framed(chunk) \in Seq(FileWord) /\ Len(Framed(chunk)) = Len(chunk) + 2 /\ Len(chunk) \in Nat
    BY <2>1, FramedIs
  <2> QED
    BY <2>2 DEF chunk
<1>3. /\ parts \in Seq(Seq(FileWord)) /\ Len(parts) = n
      /\ \A c \in 1..n : parts[c] = Framed(item.chunks[c])
  BY <1>1, <1>2 DEF FramesOf
<1>4. FramedUpTo(item) = UpTo(parts)
  BY DEF FramedUpTo
<1>5. WordsOf(item) = Header(item) \o behind
  BY DEF WordsOf, FramesOf
<1> HIDE DEF parts, n
<1>6. /\ UpTo(parts) \in [0..n -> Nat] /\ UpTo(parts)[0] = 0
      /\ \A c \in 1..n : UpTo(parts)[c] = UpTo(parts)[c - 1] + Len(parts[c])
      /\ \A c, d \in 0..n : c <= d => UpTo(parts)[c] <= UpTo(parts)[d]
  BY <1>3, UpToIs
<1>7. /\ behind \in Seq(FileWord) /\ Len(behind) = UpTo(parts)[n]
      /\ \A c \in 1..n : \A m \in 1..Len(parts[c]) :
           /\ UpTo(parts)[c - 1] + m \in 1..Len(behind)
           /\ behind[UpTo(parts)[c - 1] + m] = parts[c][m]
  BY <1>3, ConcatIs
<1> HIDE DEF behind
<1>8. Header(item) \in Seq(FileWord) /\ Len(Header(item)) = 6
  BY HeaderIs
<1>9. /\ WordsOf(item) \in Seq(FileWord) /\ Len(WordsOf(item)) = 6 + Len(behind)
      /\ \A k \in 1..6 : WordsOf(item)[k] = Header(item)[k]
      /\ \A k \in 1..Len(behind) : WordsOf(item)[6 + k] = behind[k]
  <2>1. \A a, b \in Seq(FileWord) :
          /\ a \o b \in Seq(FileWord) /\ Len(a \o b) = Len(a) + Len(b)
          /\ \A k \in 1..Len(a) : (a \o b)[k] = a[k]
          /\ \A k \in 1..Len(b) : (a \o b)[Len(a) + k] = b[k]
    <3> HIDE DEF FileWord
    <3> QED
      OBVIOUS
  <2> DEFINE h == Header(item)
  <2>2. h \in Seq(FileWord) /\ Len(h) = 6 /\ WordsOf(item) = h \o behind
    BY <1>5, <1>8
  <2> HIDE DEF h
  <2>3. behind \in Seq(FileWord)
    BY <1>7
  <2>4. /\ h \o behind \in Seq(FileWord) /\ Len(h \o behind) = Len(h) + Len(behind)
        /\ \A k \in 1..Len(h) : (h \o behind)[k] = h[k]
        /\ \A k \in 1..Len(behind) : (h \o behind)[Len(h) + k] = behind[k]
    BY <2>1, <2>2, <2>3
  <2> QED
    BY <2>2, <2>4 DEF h
<1>10. \A c \in 1..n : UpTo(parts)[c] = UpTo(parts)[c - 1] + Len(item.chunks[c]) + 2
  <2> TAKE c \in 1..n
  <2>1. c - 1 \in 0..n /\ UpTo(parts)[c - 1] \in Nat
    BY <1>1, <1>6
  <2>2. UpTo(parts)[c] = UpTo(parts)[c - 1] + (Len(item.chunks[c]) + 2)
    BY <1>2, <1>3, <1>6
  <2>3. Len(item.chunks[c]) \in Nat
    BY <1>2
  <2> QED
    BY <2>1, <2>2, <2>3
<1>11. ASSUME NEW c \in 1..n, NEW m \in 1..(Len(item.chunks[c]) + 2)
       PROVE  /\ 6 + UpTo(parts)[c - 1] + m \in 1..Len(WordsOf(item))
              /\ WordsOf(item)[6 + UpTo(parts)[c - 1] + m] = Framed(item.chunks[c])[m]
  <2>1. c - 1 \in 0..n /\ UpTo(parts)[c - 1] \in Nat /\ m \in Nat
    BY <1>1, <1>2, <1>6
  <2>2. m \in 1..Len(parts[c])
    BY <1>2, <1>3
  <2> DEFINE k == UpTo(parts)[c - 1] + m
  <2>3. k \in 1..Len(behind) /\ behind[k] = parts[c][m] /\ Len(behind) \in Nat
    BY <1>7, <2>2
  <2>4. 6 + UpTo(parts)[c - 1] + m = 6 + k
    BY <2>1
  <2> HIDE DEF k
  <2>5. 6 + k \in 1..Len(WordsOf(item)) /\ WordsOf(item)[6 + k] = behind[k]
    BY <1>9, <2>3
  <2> QED
    BY <1>3, <2>3, <2>4, <2>5
<1> QED
  BY <1>4, <1>6, <1>7, <1>9, <1>10, <1>11 DEF n

\* The words of a file: those of its items, one after the other.
LEMMA FileIs ==
  ASSUME NEW f \in FilesThere
  PROVE  /\ f.kind \in {"EGRID", "INIT", "UNRST"}
         /\ f.items \in Seq(Item) /\ f.words \in Seq(FileWord)
         /\ f.ends \in [0..Len(f.items) -> Nat] /\ f.ends[0] = 0
         /\ \A i \in 1..Len(f.items) :
              f.ends[i] = f.ends[i - 1] + 6 + FramedUpTo(f.items[i])[Len(f.items[i].chunks)]
         /\ \A i, j \in 0..Len(f.items) : i <= j => f.ends[i] <= f.ends[j]
         /\ Len(f.words) = f.ends[Len(f.items)]
         /\ \A i \in 1..Len(f.items) : \A k \in 1..Len(WordsOf(f.items[i])) :
              /\ f.ends[i - 1] + k \in 1..Len(f.words)
              /\ f.words[f.ends[i - 1] + k] = WordsOf(f.items[i])[k]
<1>1. PICK name \in DOMAIN Files : f = FileOf(name)
  BY DEF FilesThere
<1> DEFINE its == Files[name].items
           parts == [i \in DOMAIN its |-> WordsOf(its[i])]
<1>2. its \in Seq(Item) /\ Files[name].kind \in {"EGRID", "INIT", "UNRST"}
  BY ConstantsAssumption
<1>3. /\ f.kind = Files[name].kind /\ f.items = its
      /\ f.words = Concat(parts) /\ f.ends = UpTo(parts)
  BY <1>1 DEF FileOf
<1> HIDE DEF its
<1>4. \A i \in 1..Len(its) :
        /\ its[i] \in Item /\ WordsOf(its[i]) \in Seq(FileWord)
        /\ Len(WordsOf(its[i])) = 6 + FramedUpTo(its[i])[Len(its[i].chunks)]
        /\ FramedUpTo(its[i])[Len(its[i].chunks)] \in Nat
  <2> TAKE i \in 1..Len(its)
  <2>1. its[i] \in Item /\ Len(its[i].chunks) \in Nat
    <3>1. its[i] \in Item
      BY <1>2
    <3>2. its[i].chunks \in Seq(Seq(FileWord))
      BY <3>1 DEF Item
    <3> QED
      BY <3>1, <3>2
  <2> DEFINE item == its[i] n == Len(item.chunks)
  <2> HIDE DEF item
  <2>2. /\ FramedUpTo(item) \in [0..n -> Nat]
        /\ WordsOf(item) \in Seq(FileWord) /\ Len(WordsOf(item)) = 6 + FramedUpTo(item)[n]
    BY <2>1, WordsOfIs DEF item
  <2>3. n \in Nat
    BY <2>1 DEF item
  <2>4. FramedUpTo(item)[n] \in Nat
    BY <2>2, <2>3
  <2> QED
    BY <2>1, <2>2, <2>4 DEF item
<1>5. parts \in Seq(Seq(FileWord)) /\ Len(parts) = Len(its) /\ \A i \in 1..Len(its) : parts[i] = WordsOf(its[i])
  BY <1>2, <1>4
<1> HIDE DEF parts
<1>6. /\ UpTo(parts) \in [0..Len(its) -> Nat] /\ UpTo(parts)[0] = 0
      /\ \A i \in 1..Len(its) : UpTo(parts)[i] = UpTo(parts)[i - 1] + Len(parts[i])
      /\ \A i, j \in 0..Len(its) : i <= j => UpTo(parts)[i] <= UpTo(parts)[j]
  BY <1>5, UpToIs
<1>7. /\ Concat(parts) \in Seq(FileWord)
      /\ Len(Concat(parts)) = UpTo(parts)[Len(its)]
      /\ \A i \in 1..Len(its) : \A k \in 1..Len(parts[i]) :
           /\ UpTo(parts)[i - 1] + k \in 1..Len(Concat(parts))
           /\ Concat(parts)[UpTo(parts)[i - 1] + k] = parts[i][k]
  BY <1>5, ConcatIs
<1>8. \A i \in 1..Len(its) :
        UpTo(parts)[i] = UpTo(parts)[i - 1] + 6 + FramedUpTo(its[i])[Len(its[i].chunks)]
  <2> TAKE i \in 1..Len(its)
  <2>1. i - 1 \in 0..Len(its) /\ UpTo(parts)[i - 1] \in Nat
    BY <1>2, <1>6
  <2> DEFINE b == FramedUpTo(its[i])[Len(its[i].chunks)]
  <2>2. UpTo(parts)[i] = UpTo(parts)[i - 1] + (6 + b)
    BY <1>4, <1>5, <1>6
  <2>3. b \in Nat
    BY <1>4
  <2> HIDE DEF b
  <2>4. UpTo(parts)[i] = UpTo(parts)[i - 1] + 6 + b
    BY <2>1, <2>2, <2>3
  <2> QED
    BY <2>4 DEF b
<1> QED
  <2>1. /\ f.kind \in {"EGRID", "INIT", "UNRST"} /\ f.items \in Seq(Item) /\ f.words \in Seq(FileWord)
        /\ f.ends \in [0..Len(f.items) -> Nat] /\ f.ends[0] = 0 /\ Len(f.words) = f.ends[Len(f.items)]
    BY <1>2, <1>3, <1>6, <1>7
  <2>2. /\ \A i \in 1..Len(f.items) :
             f.ends[i] = f.ends[i - 1] + 6 + FramedUpTo(f.items[i])[Len(f.items[i].chunks)]
        /\ \A i, j \in 0..Len(f.items) : i <= j => f.ends[i] <= f.ends[j]
    BY ONLY <1>3, <1>6, <1>8
  <2>3. \A i \in 1..Len(f.items) : \A k \in 1..Len(WordsOf(f.items[i])) :
          /\ f.ends[i - 1] + k \in 1..Len(f.words)
          /\ f.words[f.ends[i - 1] + k] = WordsOf(f.items[i])[k]
    BY ONLY <1>3, <1>5, <1>7
  <2> QED
    BY ONLY <2>1, <2>2, <2>3

\* Where the header and the chunks of an item are, and what is there.
LEMMA PlacesAre ==
  ASSUME NEW f \in FilesThere, NEW i \in 1..Len(f.items)
  PROVE  LET item == f.items[i]
             n == Len(item.chunks)
             start == f.ends[i - 1]
         IN
         /\ item \in Item /\ n \in Nat /\ start \in Nat
         /\ \A c \in 1..n : item.chunks[c] \in Seq(FileWord) /\ Len(item.chunks[c]) \in Nat
         /\ f.ends[i] \in Nat /\ start + 6 <= f.ends[i] /\ f.ends[i] <= Len(f.words)
         /\ f.words[start + 1].int = 16 /\ f.words[start + 6].int = 16
         /\ f.words[start + 2].text = item.keyword /\ f.words[start + 4].int = item.count
         /\ f.words[start + 5].text = item.type
         /\ \A c \in 0..n : PosOf(f, i, c) \in Nat /\ PosOf(f, i, c) <= f.ends[i] + 1
         /\ PosOf(f, i, 0) = start + 7 /\ PosOf(f, i, n) = f.ends[i] + 1
         /\ \A c \in 1..n :
              /\ PosOf(f, i, c) = PosOf(f, i, c - 1) + Len(item.chunks[c]) + 2
              /\ f.words[PosOf(f, i, c - 1)].int = 4 * Len(item.chunks[c])
              /\ f.words[PosOf(f, i, c - 1) + Len(item.chunks[c]) + 1].int = 4 * Len(item.chunks[c])
              /\ \A m \in 1..Len(item.chunks[c]) :
                   /\ PosOf(f, i, c - 1) + m \in 1..Len(f.words)
                   /\ f.words[PosOf(f, i, c - 1) + m] = item.chunks[c][m]
<1> DEFINE item == f.items[i]
           n == Len(item.chunks)
           start == f.ends[i - 1]
<1>1. f.items \in Seq(Item) /\ Len(f.items) \in Nat /\ item \in Item
  BY FileIs
<1>2. item.chunks \in Seq(Seq(FileWord)) /\ n \in Nat /\ item.count \in Int
  <2>1. item.chunks \in Seq(Seq(FileWord)) /\ item.count \in Int
    BY <1>1 DEF Item
  <2> QED
    BY <2>1
<1>3. \A c \in 1..n : item.chunks[c] \in Seq(FileWord) /\ Len(item.chunks[c]) \in Nat
  BY <1>2
<1>4. i - 1 \in 0..Len(f.items) /\ i \in 0..Len(f.items) /\ Len(f.items) \in 0..Len(f.items) /\ i <= Len(f.items)
  BY <1>1
<1>5. start \in Nat /\ f.ends[i] \in Nat /\ Len(f.words) \in Nat /\ f.ends[i] <= Len(f.words)
  <2>1. /\ f.ends \in [0..Len(f.items) -> Nat] /\ Len(f.words) = f.ends[Len(f.items)]
        /\ \A a, b \in 0..Len(f.items) : a <= b => f.ends[a] <= f.ends[b]
    BY FileIs
  <2> QED
    BY <1>4, <2>1
<1> HIDE DEF n, start
<1> DEFINE u == FramedUpTo(item)
           words == WordsOf(item)
<1>6. /\ u \in [0..n -> Nat] /\ u[0] = 0
      /\ \A c \in 1..n : u[c] = u[c - 1] + Len(item.chunks[c]) + 2
      /\ \A c, d \in 0..n : c <= d => u[c] <= u[d]
      /\ words \in Seq(FileWord) /\ Len(words) = 6 + u[n]
      /\ \A k \in 1..6 : words[k] = Header(item)[k]
      /\ \A c \in 1..n : \A m \in 1..(Len(item.chunks[c]) + 2) :
           6 + u[c - 1] + m \in 1..Len(words) /\ words[6 + u[c - 1] + m] = Framed(item.chunks[c])[m]
  BY <1>1, WordsOfIs DEF n
<1> HIDE DEF u, words
<1>7. u[n] \in Nat /\ f.ends[i] = start + 6 + u[n]
  <2>1. f.ends[i] = f.ends[i - 1] + 6 + FramedUpTo(f.items[i])[Len(f.items[i].chunks)]
    BY FileIs
  <2>2. f.ends[i] = start + 6 + u[n]
    BY <2>1 DEF u, n, start
  <2>3. n \in 0..n
    BY <1>2
  <2> QED
    BY <1>6, <2>2, <2>3
<1>8. \A k \in 1..Len(words) : start + k \in 1..Len(f.words) /\ f.words[start + k] = words[k]
  BY FileIs DEF words, start
<1>9. \A k \in 1..6 : f.words[start + k] = Header(item)[k]
  <2>1. \A k \in 1..6 : k \in 1..Len(words)
    <3> DEFINE b == u[n]
    <3>1. Len(words) = 6 + b /\ b \in Nat
      BY <1>6, <1>7
    <3> HIDE DEF b
    <3> QED
      BY <3>1
  <2> QED
    BY <1>6, <1>8, <2>1
<1>10. /\ f.words[start + 1].int = 16 /\ f.words[start + 6].int = 16
       /\ f.words[start + 2].text = item.keyword /\ f.words[start + 4].int = item.count
       /\ f.words[start + 5].text = item.type
  <2>1. /\ Header(item)[1].int = 16 /\ Header(item)[6].int = 16
        /\ Header(item)[2].text = item.keyword /\ Header(item)[4].int = item.count
        /\ Header(item)[5].text = item.type
    BY <1>1, HeaderIs
  <2>2. /\ f.words[start + 1] = Header(item)[1] /\ f.words[start + 2] = Header(item)[2]
        /\ f.words[start + 4] = Header(item)[4] /\ f.words[start + 5] = Header(item)[5]
        /\ f.words[start + 6] = Header(item)[6]
    BY <1>9
  <2> QED
    BY <2>1, <2>2
<1>11. \A c \in 0..n : u[c] \in Nat /\ u[c] <= u[n] /\ PosOf(f, i, c) = start + 6 + u[c] + 1
  <2> TAKE c \in 0..n
  <2>1. n \in 0..n /\ c <= n
    BY <1>2
  <2>2. PosOf(f, i, c) = start + 6 + u[c] + 1
    BY DEF PosOf, u, start
  <2> QED
    BY <1>6, <2>1, <2>2
<1>12. \A c \in 0..n : PosOf(f, i, c) \in Nat /\ PosOf(f, i, c) <= f.ends[i] + 1
  <2> TAKE c \in 0..n
  <2> DEFINE a == u[c] b == u[n] p == PosOf(f, i, c) last == f.ends[i]
  <2>1. /\ a \in Nat /\ a <= b /\ p = start + 6 + a + 1 /\ start \in Nat /\ b \in Nat
        /\ last = start + 6 + b
    BY <1>5, <1>7, <1>11
  <2> HIDE DEF a, b, p, last, item
  <2>2. p \in Nat /\ p <= last + 1
    BY <2>1
  <2> QED
    BY <2>2 DEF p, last
<1>13. PosOf(f, i, 0) = start + 7 /\ PosOf(f, i, n) = f.ends[i] + 1
  <2>1. 0 \in 0..n /\ n \in 0..n
    BY <1>2
  <2>2. PosOf(f, i, 0) = start + 6 + u[0] + 1 /\ PosOf(f, i, n) = start + 6 + u[n] + 1
    BY <1>11, <2>1
  <2>3. u[0] = 0
    BY <1>6
  <2> DEFINE b == u[n] p == PosOf(f, i, n) last == f.ends[i]
  <2>4. p = start + 6 + b + 1 /\ last = start + 6 + b /\ b \in Nat
    BY <1>7, <2>2
  <2> HIDE DEF b, p, last
  <2>5. p = last + 1
    BY <1>5, <2>4
  <2>6. PosOf(f, i, 0) = start + 7
    BY <1>5, <2>2, <2>3
  <2> QED
    BY <2>5, <2>6 DEF p, last
<1>14. ASSUME NEW c \in 1..n
       PROVE  /\ PosOf(f, i, c) = PosOf(f, i, c - 1) + Len(item.chunks[c]) + 2
              /\ f.words[PosOf(f, i, c - 1)].int = 4 * Len(item.chunks[c])
              /\ f.words[PosOf(f, i, c - 1) + Len(item.chunks[c]) + 1].int = 4 * Len(item.chunks[c])
              /\ \A m \in 1..Len(item.chunks[c]) :
                   /\ PosOf(f, i, c - 1) + m \in 1..Len(f.words)
                   /\ f.words[PosOf(f, i, c - 1) + m] = item.chunks[c][m]
  <2> DEFINE chunk == item.chunks[c]
             len == Len(chunk)
             base == u[c - 1]
             p == PosOf(f, i, c - 1)
  <2>1. c - 1 \in 0..n /\ c \in 0..n /\ base \in Nat /\ len \in Nat /\ chunk \in Seq(FileWord)
    <3>1. c - 1 \in 0..n /\ c \in 0..n
      BY <1>2
    <3>2. chunk \in Seq(FileWord)
      BY <1>2, <1>3
    <3>3. base \in Nat
      BY <1>11, <3>1
    <3> QED
      BY <3>1, <3>2, <3>3
  <2>2. p = start + 6 + base + 1 /\ PosOf(f, i, c) = start + 6 + u[c] + 1 /\ u[c] = base + len + 2
    BY <1>6, <1>11, <2>1
  <2>3. /\ Framed(chunk)[1] = Number(4 * len) /\ Framed(chunk)[len + 2] = Number(4 * len)
        /\ \A m \in 1..len : Framed(chunk)[m + 1] = chunk[m]
    BY <2>1, FramedIs
  <2>4. \A m \in 1..(len + 2) : 6 + base + m \in 1..Len(words) /\ words[6 + base + m] = Framed(chunk)[m]
    BY <1>6
  <2>5. Number(4 * len).int = 4 * len
    BY DEF Number
  <2> HIDE DEF chunk, len, base, p
  <2>6. p \in Nat /\ PosOf(f, i, c) = p + len + 2
    <3> DEFINE q == PosOf(f, i, c) b == u[c]
    <3>1. q = start + 6 + b + 1 /\ b = base + len + 2
      BY <2>2
    <3> HIDE DEF q, b, item
    <3>2. p \in Nat /\ q = p + len + 2
      BY <1>5, <2>1, <2>2, <3>1
    <3> QED
      BY <3>2 DEF q
  <2>7. ASSUME NEW m \in 1..(len + 2)
        PROVE  p + m - 1 \in 1..Len(f.words) /\ f.words[p + m - 1] = Framed(chunk)[m]
    <3> DEFINE k == 6 + base + m
    <3>1. k \in 1..Len(words) /\ words[k] = Framed(chunk)[m]
      BY <2>4
    <3>2. start + k = p + m - 1
      <4>1. p = start + 6 + base + 1 /\ start \in Nat /\ base \in Nat /\ m \in Nat
        BY <1>5, <2>1, <2>2
      <4> HIDE DEF item
      <4> QED
        BY <4>1
    <3> HIDE DEF k
    <3> QED
      BY <1>8, <3>1, <3>2
  <2>8. f.words[p].int = 4 * len
    <3>1. 1 \in 1..(len + 2) /\ p + 1 - 1 = p
      BY <2>1, <2>6
    <3> QED
      BY <2>3, <2>5, <2>7, <3>1
  <2>9. f.words[p + len + 1].int = 4 * len
    <3>1. len + 2 \in 1..(len + 2) /\ p + (len + 2) - 1 = p + len + 1
      BY <2>1, <2>6
    <3> QED
      BY <2>3, <2>5, <2>7, <3>1
  <2>10. ASSUME NEW m \in 1..len
         PROVE  p + m \in 1..Len(f.words) /\ f.words[p + m] = chunk[m]
    <3>1. m + 1 \in 1..(len + 2) /\ p + (m + 1) - 1 = p + m
      BY <2>1, <2>6
    <3> QED
      BY <2>3, <2>7, <3>1
  <2> QED
    BY <2>6, <2>8, <2>9, <2>10 DEF chunk, len, p
<1>15. start + 6 <= f.ends[i]
  <2> DEFINE b == u[n] last == f.ends[i]
  <2>1. last = start + 6 + b /\ b \in Nat
    BY <1>7
  <2> HIDE DEF b, last
  <2>2. start + 6 <= last
    BY <1>5, <2>1
  <2> QED
    BY <2>2 DEF last
<1> HIDE DEF item
<1>16. /\ item \in Item /\ n \in Nat /\ start \in Nat
       /\ f.ends[i] \in Nat /\ start + 6 <= f.ends[i] /\ f.ends[i] <= Len(f.words)
  BY <1>1, <1>2, <1>5, <1>15
<1> QED
  BY <1>3, <1>10, <1>12, <1>13, <1>14, <1>16 DEF item, n, start

\* What is known of an item is a record.
LEMMA RecordsAre ==
  ASSUME NEW f \in FilesThere, NEW i \in 1..Len(f.items), NEW c \in 0..Len(f.items[i].chunks)
  PROVE  IndexedRecord(f, i, c) \in RecordType /\ IndexedRecord(f, i, c) # None
<1> DEFINE item == f.items[i]
           ch == IndexedRecord(f, i, c).chunks
<1>1. item \in Item /\ Len(item.chunks) \in Nat
  BY PlacesAre
<1>2. item.keyword \in Texts /\ item.type \in Texts /\ item.count \in Int /\ item.chunks \in Seq(Seq(FileWord))
  BY <1>1 DEF Item
<1>3. UpTo(item.chunks)[c] \in Int
  <2>1. UpTo(item.chunks) \in [0..Len(item.chunks) -> Nat]
    BY <1>2, UpToIs
  <2>2. c \in 0..Len(item.chunks)
    OBVIOUS
  <2> HIDE DEF item
  <2>3. UpTo(item.chunks)[c] \in Nat
    BY <2>1, <2>2
  <2> QED
    BY <2>3
<1>4. \A d \in 1..c : PosOf(f, i, d - 1) + 1 \in Int /\ Len(item.chunks[d]) \in Int
  <2> TAKE d \in 1..c
  <2>1. d \in 1..Len(item.chunks) /\ d - 1 \in 0..Len(item.chunks)
    BY <1>1
  <2>2. PosOf(f, i, d - 1) \in Nat /\ Len(item.chunks[d]) \in Nat
    BY <2>1, PlacesAre
  <2> QED
    BY <2>2
<1>5. ch \in Seq(Chunk)
  <2>1. ch = [d \in 1..c |-> [offset |-> PosOf(f, i, d - 1) + 1, words |-> Len(item.chunks[d])]]
    BY DEF IndexedRecord
  <2>2. c \in Nat
    OBVIOUS
  <2> HIDE DEF ch, item
  <2>3. \A d \in 1..c : [offset |-> PosOf(f, i, d - 1) + 1, words |-> Len(item.chunks[d])] \in Chunk
    BY <1>4 DEF Chunk
  <2> QED
    BY <2>1, <2>2, <2>3
<1>6. IndexedRecord(f, i, c) = [keyword |-> item.keyword, type |-> item.type, count |-> item.count,
                                chunks |-> ch, read |-> UpTo(item.chunks)[c]]
  BY DEF IndexedRecord
<1> HIDE DEF ch, item
<1>7. IndexedRecord(f, i, c) \in RecordType
  BY <1>2, <1>3, <1>5, <1>6 DEF RecordType
<1> QED
  BY <1>7, ConstantsAssumption

\* A header is that of its item, and a chunk adds itself.
LEMMA RecordsGrow ==
  ASSUME NEW f \in FilesThere, NEW i \in 1..Len(f.items)
  PROVE  LET item == f.items[i] IN
         /\ IndexedRecord(f, i, 0) = [keyword |-> item.keyword, count |-> item.count,
                                      type |-> item.type, chunks |-> <<>>, read |-> 0]
         /\ \A c \in 0..(Len(item.chunks) - 1) :
              IndexedRecord(f, i, c + 1) =
                [keyword |-> item.keyword, count |-> item.count, type |-> item.type,
                 chunks |-> Append(IndexedRecord(f, i, c).chunks,
                                   [offset |-> PosOf(f, i, c) + 1,
                                    words |-> Len(item.chunks[c + 1])]),
                 read |-> IndexedRecord(f, i, c).read + Len(item.chunks[c + 1])]
<1> DEFINE item == f.items[i]
           u == UpTo(item.chunks)
           piece(d) == [offset |-> PosOf(f, i, d - 1) + 1, words |-> Len(item.chunks[d])]
<1>1. item \in Item /\ Len(item.chunks) \in Nat
  BY PlacesAre
<1>2. item.chunks \in Seq(Seq(FileWord))
  BY <1>1 DEF Item
<1> HIDE DEF item
<1>3. /\ u \in [0..Len(item.chunks) -> Nat] /\ u[0] = 0
      /\ \A c \in 1..Len(item.chunks) : u[c] = u[c - 1] + Len(item.chunks[c])
  BY <1>2, UpToIs
<1> HIDE DEF u, piece
<1>4. \A c : IndexedRecord(f, i, c) =
               [keyword |-> item.keyword, type |-> item.type, count |-> item.count,
                chunks |-> [d \in 1..c |-> piece(d)], read |-> u[c]]
  BY DEF IndexedRecord, piece, u, item
<1>5. [d \in 1..0 |-> piece(d)] = <<>>
  OBVIOUS
<1>6. IndexedRecord(f, i, 0) = [keyword |-> item.keyword, count |-> item.count,
                                type |-> item.type, chunks |-> <<>>, read |-> 0]
  BY <1>3, <1>4, <1>5
<1>7. ASSUME NEW c \in 0..(Len(item.chunks) - 1)
      PROVE  IndexedRecord(f, i, c + 1) =
                [keyword |-> item.keyword, count |-> item.count, type |-> item.type,
                 chunks |-> Append(IndexedRecord(f, i, c).chunks,
                                   [offset |-> PosOf(f, i, c) + 1,
                                    words |-> Len(item.chunks[c + 1])]),
                 read |-> IndexedRecord(f, i, c).read + Len(item.chunks[c + 1])]
  <2>1. c \in Nat /\ c + 1 \in 1..Len(item.chunks) /\ c + 1 - 1 = c
    BY <1>1 DEF item
  <2>2. piece(c + 1) = [offset |-> PosOf(f, i, c) + 1, words |-> Len(item.chunks[c + 1])]
    BY <2>1 DEF piece
  <2>3. u[c + 1] = u[c] + Len(item.chunks[c + 1])
    BY <1>3, <2>1
  <2> DEFINE before == [d \in 1..c |-> piece(d)]
  <2>4. Len(before) = c /\ DOMAIN before = 1..c /\ \A d \in 1..c : before[d] = piece(d)
    BY <2>1
  <2>5. [d \in 1..(c + 1) |-> piece(d)] = Append(before, piece(c + 1))
    <3> DEFINE S == {piece(d) : d \in 1..(c + 1)}
    <3>2. before \in Seq(S) /\ piece(c + 1) \in S
      <4>1. \A d \in 1..c : piece(d) \in S
        BY <2>1
      <4>2. piece(c + 1) \in S
        BY <2>1
      <4> HIDE DEF S
      <4> QED
        BY <2>1, <4>1, <4>2
    <3> HIDE DEF before, S
    <3> DEFINE after == Append(before, piece(c + 1))
    <3>3. /\ after \in Seq(S) /\ Len(after) = c + 1 /\ after[c + 1] = piece(c + 1)
          /\ \A d \in 1..c : after[d] = before[d]
      BY <2>4, <3>2, AppendProperties
    <3> HIDE DEF after
    <3>4. DOMAIN after = 1..(c + 1) /\ after = [d \in 1..(c + 1) |-> after[d]]
      BY <3>3
    <3>5. \A d \in 1..(c + 1) : after[d] = piece(d)
      <4> TAKE d \in 1..(c + 1)
      <4>1. d \in 1..c \/ d = c + 1
        BY <2>1
      <4> QED
        BY <2>4, <3>3, <4>1
    <3> QED
      BY <3>4, <3>5 DEF after
  <2> HIDE DEF before
  <2>6. /\ IndexedRecord(f, i, c) = [keyword |-> item.keyword, type |-> item.type,
                                     count |-> item.count, chunks |-> before, read |-> u[c]]
        /\ IndexedRecord(f, i, c + 1) = [keyword |-> item.keyword, type |-> item.type,
                                         count |-> item.count,
                                         chunks |-> Append(before, piece(c + 1)), read |-> u[c + 1]]
    BY <1>4, <2>5 DEF before
  <2>7. IndexedRecord(f, i, c).chunks = before /\ IndexedRecord(f, i, c).read = u[c]
    BY <2>6
  <2> QED
    BY <2>2, <2>3, <2>6, <2>7
<1> QED
  BY <1>6, <1>7 DEF item

-----------------------------------------------------------------------------
(* The walk over the records of a binary file.                             *)

\* The file is one that may be there, and its disk has a part of it.
BinaryTypes ==
  /\ file \in FilesThere /\ disk \in 0..Len(Words)
  /\ phase \in {"closed", "indexing", "parsing", "failed", "read"}

\* Chunks of the item behind the records are read.
IsAt(c) ==
  LET i == Len(records) + 1 IN
  open = IndexedRecord(file, i, c) /\ pos = PosOf(file, i, c) /\ pos - 1 <= disk

\* The records are those of the first items, whole and in order, and the stream is where
\* the next item or its next chunk begins.
WalkInv ==
  LET n == Len(records) IN
  /\ n \in 0..Len(Items)
  /\ records = [i \in 1..n |-> IndexedRecord(file, i, Len(Items[i].chunks))]
  /\ \A i \in 1..n : IsInOrder(Items[i]) /\ IsWholeOnDisk(i)
  /\ phase = "closed" => records = <<>> /\ open = None
  /\ open = None => pos = file.ends[n] + 1
  /\ open # None =>
       /\ phase \in {"indexing", "failed"} /\ n + 1 \in 1..Len(Items)
       /\ Items[n + 1].count >= 0
       /\ Items[n + 1].count > 0 => IsSupportedType(Items[n + 1].type)
       /\ \E c \in 0..Len(Items[n + 1].chunks) : IsAt(c)

\* What a step may do that reads nothing of the file.
SameIndex ==
  /\ UNCHANGED <<file, pos, open, records>> /\ disk <= disk'
  /\ phase' = phase \/ (open = None /\ phase' # "closed")

\* A step grows what is on disk at most, and never changes what the file will be.
LEMMA DiskGrows ==
  ASSUME BinaryTypes, [Next]_vars
  PROVE  BinaryTypes' /\ file' = file /\ disk <= disk' /\ (NoItemMisleads' <=> NoItemMisleads)
<1>1. disk \in Nat /\ Len(Words) \in Nat /\ disk <= Len(Words)
  <2>1. Len(Words) \in Nat
    BY FileIs DEF BinaryTypes, Words
  <2> QED
    BY <2>1 DEF BinaryTypes
<1>2. file' = file /\ phase' \in {"closed", "indexing", "parsing", "failed", "read"}
  BY DEF BinaryTypes, Next, vars, fileVars, indexVars, infoVars, Flush, OpenFile, ReadHeader,
         ReadChunk, EndRecord, EndOfFile, ParseEgrid, ParseInit, InitRecord, Seqnum, Intehead,
         Doubhead, OtherRecord, Register, LoadGridArray, LoadSample
<1>3. disk' = disk \/ (disk < Len(Words) /\ disk' = disk + 1)
  BY DEF Next, vars, fileVars, indexVars, infoVars, Flush, OpenFile, ReadHeader,
         ReadChunk, EndRecord, EndOfFile, ParseEgrid, ParseInit, InitRecord, Seqnum, Intehead,
         Doubhead, OtherRecord, Register, LoadGridArray, LoadSample
<1>4. disk <= disk' /\ disk' \in 0..Len(Words)
  BY <1>1, <1>3
<1>5. NoItemMisleads' <=> NoItemMisleads
  BY <1>2 DEF NoItemMisleads, Misleads, Items
<1> QED
  BY <1>2, <1>4, <1>5 DEF BinaryTypes, Words

\* Every step but those that read a header or chunks reads nothing.
LEMMA OthersReadNothing ==
  ASSUME BinaryTypes, WalkInv, [Next]_vars,
         ~(ReadHeader /\ HeaderIsWhole(pos)), ~ReadChunk, ~EndRecord
  PROVE  SameIndex
<1>1. phase \notin {"indexing", "failed"} => open = None
  BY DEF WalkInv
<1>2. disk <= disk'
  BY DiskGrows
<1>3. UNCHANGED <<file, pos, open, records>> /\ (phase' = phase \/ (open = None /\ phase' # "closed"))
  <2> DEFINE quiet == /\ UNCHANGED <<file, pos, open, records>>
                      /\ phase' = phase \/ (open = None /\ phase' # "closed")
  <2>1. ASSUME Flush \/ OpenFile \/ EndOfFile
        PROVE  quiet
    BY <1>1, <2>1 DEF fileVars, indexVars, Flush, OpenFile, EndOfFile
  <2>2. ASSUME ReadHeader, ~HeaderIsWhole(pos)
        PROVE  quiet
    BY <2>2 DEF fileVars, ReadHeader
  <2>3. ASSUME ParseEgrid \/ ParseInit \/ InitRecord \/ Register
        PROVE  quiet
    BY <1>1, <2>3 DEF fileVars, indexVars, ParseEgrid, ParseInit, InitRecord, Register
  <2>4. ASSUME Seqnum \/ Intehead \/ Doubhead \/ OtherRecord
        PROVE  quiet
    BY <1>1, <2>4 DEF fileVars, indexVars, Seqnum, Intehead, Doubhead, OtherRecord, AtUnrstRecord
  <2>5. ASSUME \/ \E array \in {"COORD", "ZCORN", "ACTNUM", "logicalCellToActiveCell"} :
                    LoadGridArray(array)
               \/ \E f \in DOMAIN fields : \E s \in DOMAIN fields[f].samples : LoadSample(f, s)
               \/ UNCHANGED vars
        PROVE  quiet
    BY <2>5 DEF vars, fileVars, indexVars, LoadGridArray, LoadSample
  <2> HIDE DEF quiet
  <2>6. quiet
    BY <2>1, <2>2, <2>3, <2>4, <2>5 DEF Next
  <2> QED
    BY <2>6 DEF quiet
<1> QED
  BY <1>2, <1>3 DEF SameIndex

\* The walk is where it was when nothing was read.
LEMMA SameIndexKeepsWalk ==
  ASSUME BinaryTypes, BinaryTypes', WalkInv, SameIndex
  PROVE  WalkInv'
<1>1. /\ file' = file /\ pos' = pos /\ open' = open /\ records' = records /\ disk <= disk'
      /\ Items' = Items
  BY DEF SameIndex, Items
<1>2. disk \in Nat /\ disk' \in Nat
  BY DEF BinaryTypes
<1>3. \A i \in 1..Len(records) : IsWholeOnDisk(i) => IsWholeOnDisk(i)'
  <2> TAKE i \in 1..Len(records)
  <2>1. i \in 0..Len(file.items) /\ file.ends \in [0..Len(file.items) -> Nat]
    <3>1. file.ends \in [0..Len(file.items) -> Nat] /\ Len(file.items) \in Nat
      BY FileIs DEF BinaryTypes
    <3>2. Len(records) \in 0..Len(file.items)
      BY DEF WalkInv, Items
    <3> QED
      BY <3>1, <3>2
  <2>2. file.ends[i] \in Nat
    BY <2>1
  <2>3. file'.ends[i] = file.ends[i]
    BY <1>1
  <2> QED
    BY <1>1, <1>2, <2>2, <2>3 DEF IsWholeOnDisk
<1>4. open # None => phase' \in {"indexing", "failed"}
  BY DEF WalkInv, SameIndex
<1>5. phase' = "closed" => records = <<>> /\ open = None
  BY DEF WalkInv, SameIndex
<1>6. open # None =>
        /\ Len(records) + 1 \in 1..Len(Items)
        /\ \E c \in 0..Len(Items[Len(records) + 1].chunks) : IsAt(c)'
  <2>1. ASSUME open # None
        PROVE  \E c \in 0..Len(Items[Len(records) + 1].chunks) : IsAt(c)'
    <3>1. PICK c \in 0..Len(Items[Len(records) + 1].chunks) : IsAt(c)
      BY <2>1 DEF WalkInv
    <3>2. PosOf(file, Len(records) + 1, c) \in Nat
      <4>1. Len(records) + 1 \in 1..Len(file.items)
        BY <2>1 DEF WalkInv, Items
      <4> QED
        BY <4>1, PlacesAre DEF BinaryTypes, Items
    <3>3. pos \in Nat /\ pos - 1 <= disk'
      BY <1>1, <1>2, <3>1, <3>2 DEF IsAt
    <3> QED
      BY <1>1, <3>1, <3>3 DEF IsAt
  <2> QED
    BY <2>1 DEF WalkInv
<1> QED
  BY <1>1, <1>3, <1>4, <1>5, <1>6 DEF WalkInv, IsInOrder, WordsNeeded

\* A whole header is that of the item behind the records.
LEMMA HeaderKeepsWalk ==
  ASSUME BinaryTypes, WalkInv, ReadHeader, HeaderIsWhole(pos)
  PROVE  WalkInv'
<1> DEFINE n == Len(records)
           i == n + 1
           start == file.ends[n]
<1>1. /\ phase = "indexing" /\ open = None /\ pos = start + 1 /\ n \in 0..Len(Items)
      /\ UNCHANGED <<file, disk, records, phase>> /\ pos' = pos + 6
      /\ open' = [keyword |-> Words[pos + 1].text, count |-> Words[pos + 3].int,
                  type |-> Words[pos + 4].text, chunks |-> <<>>, read |-> 0]
  BY DEF ReadHeader, WalkInv, fileVars
<1>2. /\ file \in FilesThere /\ Len(Items) \in Nat /\ disk \in Nat /\ disk <= Len(Words)
      /\ start \in Nat /\ file.ends[Len(Items)] = Len(Words) /\ Len(Words) \in Nat
  <2>1. file \in FilesThere /\ disk \in 0..Len(Words)
    BY DEF BinaryTypes
  <2>2. /\ file.items \in Seq(Item) /\ file.words \in Seq(FileWord)
        /\ file.ends \in [0..Len(file.items) -> Nat] /\ file.ends[Len(file.items)] = Len(file.words)
    BY <2>1, FileIs
  <2>3. Len(file.items) \in Nat /\ Len(file.words) \in Nat
    BY <2>2
  <2>4. n \in 0..Len(file.items)
    BY <1>1 DEF Items
  <2> HIDE DEF n
  <2>5. file.ends[n] \in Nat
    BY <2>2, <2>4
  <2>6. disk \in Nat /\ disk <= Len(file.words)
    BY <2>1, <2>3 DEF Words
  <2> QED
    BY <2>1, <2>2, <2>3, <2>5, <2>6 DEF Items, Words
<1>3. n \in Nat /\ i \in 1..Len(Items) /\ i - 1 = n /\ start + 6 <= disk
  <2>1. start + 6 <= disk
    <3>1. pos + 5 <= disk
      BY <1>1 DEF HeaderIsWhole, OnDisk
    <3>2. pos = start + 1
      BY <1>1
    <3> HIDE DEF start
    <3> QED
      BY <1>2, <3>1, <3>2
  <2>2. n # Len(Items)
    <3>1. n = Len(Items) => start = Len(Words)
      BY <1>2
    <3> HIDE DEF n, start
    <3> QED
      BY <1>2, <2>1, <3>1
  <2> QED
    BY <1>1, <1>2, <2>1, <2>2
<1> DEFINE item == Items[i]
<1> HIDE DEF n, i, start
<1>4. /\ Words[start + 2].text = item.keyword /\ Words[start + 4].int = item.count
      /\ Words[start + 5].text = item.type /\ PosOf(file, i, 0) = start + 7
      /\ Len(item.chunks) \in Nat
  BY <1>2, <1>3, PlacesAre DEF Items, Words, start
<1>5. /\ pos + 1 = start + 2 /\ pos + 3 = start + 4 /\ pos + 4 = start + 5
      /\ pos' = start + 7 /\ pos' - 1 = start + 6
  BY <1>1, <1>2
<1>6. IndexedRecord(file, i, 0) = [keyword |-> item.keyword, count |-> item.count,
                                   type |-> item.type, chunks |-> <<>>, read |-> 0]
  BY <1>2, <1>3, RecordsGrow DEF Items
<1>7. open' = IndexedRecord(file, i, 0) /\ open' # None
  <2>1. open' = IndexedRecord(file, i, 0)
    BY <1>1, <1>4, <1>5, <1>6
  <2>2. 0 \in 0..Len(item.chunks)
    BY <1>4
  <2> QED
    BY <1>2, <1>3, <2>1, <2>2, RecordsAre DEF Items
<1>8. item.count >= 0 /\ (item.count > 0 => IsSupportedType(item.type))
  <2>1. item.count \in Int
    BY <1>2, <1>3, PlacesAre DEF Items, Item
  <2>2. /\ Words[pos + 3].int >= 0
        /\ Words[pos + 3].int = 0 \/ IsSupportedType(Words[pos + 4].text)
    BY DEF HeaderIsWhole
  <2>3. item.count >= 0 /\ (item.count = 0 \/ IsSupportedType(item.type))
    BY <1>4, <1>5, <2>2
  <2> HIDE DEF item
  <2> QED
    BY <2>1, <2>3
<1>9. IsAt(0)'
  BY <1>1, <1>3, <1>4, <1>5, <1>7 DEF IsAt, i, n
<1>10. 0 \in 0..Len(item.chunks)
  BY <1>4
<1>11. /\ records' = records /\ file' = file /\ disk' = disk /\ phase' = phase
       /\ Items' = Items /\ Len(records)' = n /\ Len(records) = n
  BY <1>1 DEF Items, n
<1>12. /\ open' # None /\ n + 1 \in 1..Len(Items) /\ Items[n + 1] = item
  BY <1>3, <1>7 DEF i
<1>13. \A j \in 1..n : IsInOrder(Items[j]) /\ IsWholeOnDisk(j)
  BY DEF WalkInv, n
<1>14. \A j \in 1..n : IsWholeOnDisk(j)'
  BY <1>11, <1>13 DEF IsWholeOnDisk
<1>15. /\ n \in 0..Len(Items) /\ phase = "indexing"
       /\ records = [j \in 1..n |-> IndexedRecord(file, j, Len(Items[j].chunks))]
  BY <1>1 DEF WalkInv, n
<1> HIDE DEF item
<1> QED
  BY <1>8, <1>9, <1>10, <1>11, <1>12, <1>13, <1>14, <1>15 DEF WalkInv, IsInOrder, WordsNeeded

\* The item behind the records, of which some chunks are read.
LEMMA OpenItemIs ==
  ASSUME BinaryTypes, WalkInv, open # None,
         NEW i, i = Len(records) + 1, NEW item, item = Items[i]
  PROVE  /\ i \in 1..Len(Items) /\ i - 1 = Len(records) /\ item \in Item
         /\ phase \in {"indexing", "failed"}
         /\ item.chunks \in Seq(Seq(FileWord)) /\ Len(item.chunks) \in Nat
         /\ item.count \in Int /\ item.count >= 0
         /\ item.count > 0 => IsSupportedType(item.type)
         /\ \E c \in 0..Len(item.chunks) :
              /\ open = IndexedRecord(file, i, c) /\ pos = PosOf(file, i, c) /\ pos - 1 <= disk
              /\ open.read = UpTo(item.chunks)[c] /\ open.read \in Nat
              /\ ExpectedWords(open) = WordsNeeded(item)
              /\ pos \in Nat
<1>1. /\ i \in 1..Len(Items) /\ item.count >= 0 /\ Len(records) \in Nat
      /\ phase \in {"indexing", "failed"}
      /\ item.count > 0 => IsSupportedType(item.type)
      /\ \E c \in 0..Len(item.chunks) : IsAt(c)
  BY DEF WalkInv
<1>2. file \in FilesThere /\ i \in 1..Len(file.items) /\ item = file.items[i]
  BY <1>1 DEF BinaryTypes, Items
<1>3. item \in Item /\ Len(item.chunks) \in Nat
  BY <1>2, PlacesAre
<1>4. item.chunks \in Seq(Seq(FileWord)) /\ item.count \in Int
  BY <1>3 DEF Item
<1>5. UpTo(item.chunks) \in [0..Len(item.chunks) -> Nat]
  BY <1>4, UpToIs
<1>6. PICK c \in 0..Len(item.chunks) : IsAt(c)
  BY <1>1
<1>7. open = IndexedRecord(file, i, c) /\ pos = PosOf(file, i, c) /\ pos - 1 <= disk
  BY <1>6 DEF IsAt
<1>8. /\ open.read = UpTo(item.chunks)[c] /\ open.count = item.count /\ open.type = item.type
  BY <1>2, <1>7 DEF IndexedRecord
<1>9. open.read \in Nat
  BY <1>5, <1>8
<1>10. ExpectedWords(open) = WordsNeeded(item)
  BY <1>8 DEF ExpectedWords, WordsNeeded
<1>11. pos \in Nat
  BY <1>2, <1>7, PlacesAre
<1>12. i - 1 = Len(records)
  BY <1>1
<1> QED
  BY <1>1, <1>3, <1>4, <1>7, <1>8, <1>9, <1>10, <1>11, <1>12

\* A whole chunk is that of the item: there is none behind the last that looks like one.
LEMMA ChunkKeepsWalk ==
  ASSUME BinaryTypes, WalkInv, NoItemMisleads, ReadChunk
  PROVE  WalkInv'
<1> DEFINE n == Len(records)
           i == n + 1
           item == Items[i]
           m == Len(item.chunks)
<1>1. open # None /\ open.read < ExpectedWords(open) /\ UNCHANGED <<file, disk, records>>
  BY DEF ReadChunk, fileVars
<1>2. PICK c \in 0..m :
        /\ open = IndexedRecord(file, i, c) /\ pos = PosOf(file, i, c) /\ pos - 1 <= disk
        /\ open.read = UpTo(item.chunks)[c] /\ open.read \in Nat
        /\ ExpectedWords(open) = WordsNeeded(item)
        /\ pos \in Nat
  BY <1>1, OpenItemIs
<1>3. /\ i \in 1..Len(Items) /\ i - 1 = n /\ item \in Item /\ m \in Nat
      /\ item.count \in Int /\ item.count >= 0
      /\ item.count > 0 => IsSupportedType(item.type)
      /\ item.chunks \in Seq(Seq(FileWord))
  BY <1>1, OpenItemIs
<1>4. file \in FilesThere /\ i \in 1..Len(file.items) /\ item = file.items[i] /\ disk \in Nat /\ disk <= Len(Words)
  <2>1. file \in FilesThere /\ i \in 1..Len(file.items) /\ item = file.items[i] /\ disk \in 0..Len(Words)
    BY <1>3 DEF BinaryTypes, Items
  <2>2. Len(Words) \in Nat
    BY <2>1, FileIs DEF Words
  <2> QED
    BY <2>1, <2>2
<1>5. /\ \A j \in 1..n : IsInOrder(Items[j]) /\ IsWholeOnDisk(j)
      /\ n \in 0..Len(Items)
      /\ records = [j \in 1..n |-> IndexedRecord(file, j, Len(Items[j].chunks))]
  BY DEF WalkInv
<1> HIDE DEF i, n, item, m
<1>6. records' = records /\ file' = file /\ disk' = disk /\ Items' = Items /\ Len(records)' = n
  BY <1>1 DEF Items, n
<1>7. \A j \in 1..n : IsWholeOnDisk(j)'
  BY <1>5, <1>6 DEF IsWholeOnDisk
<1>8. SUFFICES /\ open' # None /\ phase' \in {"indexing", "failed"}
               /\ \E d \in 0..m : /\ open' = IndexedRecord(file, i, d) /\ pos' = PosOf(file, i, d)
                                  /\ pos' - 1 <= disk
  <2>1. Items[n + 1] = item /\ n + 1 = i
    BY DEF item, i
  <2> QED
    BY <1>3, <1>5, <1>6, <1>7, <1>8, <2>1 DEF WalkInv, IsInOrder, WordsNeeded, IsAt, m
<1>9. CASE ~ChunkIsWhole(pos)
  <2>1. phase' = "failed" /\ pos' = pos /\ open' = open
    BY <1>9 DEF ReadChunk
  <2> QED
    BY <1>1, <1>2, <2>1
<1>10. CASE ChunkIsWhole(pos)
  <2> DEFINE w == Words[pos].int
             behind == pos + w \div 4 + 1
  <2>1. /\ open' = [keyword |-> open.keyword, count |-> open.count, type |-> open.type,
                    chunks |-> Append(open.chunks, ChunkAt(pos)), read |-> open.read + w \div 4]
        /\ pos' = pos + w \div 4 + 2 /\ phase' = "indexing"
    BY <1>10 DEF ReadChunk
  <2>2. /\ pos <= disk /\ open.read + w \div 4 <= ExpectedWords(open) /\ behind <= disk
    BY <1>10 DEF ChunkIsWhole, OnDisk
  <2>3. c # m
    <3>1. SUFFICES ASSUME c = m
                   PROVE  FALSE
      OBVIOUS
    <3>2. pos = file.ends[i] + 1 /\ file.ends[i] \in Nat
      BY <1>2, <1>4, <3>1, PlacesAre DEF m
    <3>3. i < Len(Items)
      <4>1. file.ends[Len(file.items)] = Len(Words)
        BY <1>4, FileIs DEF Words
      <4>2. i # Len(Items)
        BY <1>4, <2>2, <3>2, <4>1 DEF Items
      <4>3. Len(Items) \in Nat
        BY <1>4, FileIs DEF Items
      <4> QED
        BY <1>3, <4>2, <4>3
    <3>4. w = 16
      <4> DEFINE k == i + 1
      <4>1. k \in 1..Len(file.items) /\ k - 1 = i
        BY <1>4, <3>3, FileIs DEF Items
      <4> HIDE DEF k
      <4>2. file.words[file.ends[k - 1] + 1].int = 16
        BY <1>4, <4>1, PlacesAre
      <4> QED
        BY <3>2, <4>1, <4>2 DEF Words
    <3>5. UpTo(item.chunks)[m] + 4 <= WordsNeeded(item)
      BY <1>2, <2>2, <3>1, <3>4
    <3>6. Misleads(i)
      BY <1>3, <3>3, <3>5 DEF Misleads, item, m
    <3>7. i \in DOMAIN Items
      <4>1. Items \in Seq(Item)
        BY <1>4, FileIs DEF Items
      <4> QED
        BY <1>3, <4>1
    <3> QED
      BY <3>6, <3>7 DEF NoItemMisleads
  <2>4. c + 1 \in 1..m /\ c + 1 - 1 = c /\ c \in 0..(m - 1) /\ c + 1 \in 0..m
    BY <1>3, <2>3
  <2> DEFINE len == Len(item.chunks[c + 1])
  <2>5. w = 4 * len /\ len \in Nat /\ PosOf(file, i, c + 1) = pos + len + 2
    <3> DEFINE d == c + 1
    <3>1. d \in 1..m /\ d - 1 = c /\ len = Len(item.chunks[d])
      BY <2>4
    <3> HIDE DEF d, len
    <3>2. /\ PosOf(file, i, d) = PosOf(file, i, d - 1) + Len(item.chunks[d]) + 2
          /\ file.words[PosOf(file, i, d - 1)].int = 4 * Len(item.chunks[d])
          /\ Len(item.chunks[d]) \in Nat
      BY <1>4, <3>1, PlacesAre DEF m
    <3>3. PosOf(file, i, d) = PosOf(file, i, c + 1)
      BY DEF d
    <3> QED
      BY <1>2, <3>1, <3>2, <3>3 DEF Words
  <2> HIDE DEF w, len
  <2>6. w \div 4 = len
    BY <2>5
  <2>7. ChunkAt(pos) = [offset |-> pos + 1, words |-> len]
    BY <2>6 DEF ChunkAt, w
  <2>8. open.keyword = item.keyword /\ open.count = item.count /\ open.type = item.type
    BY <1>2, <1>4 DEF IndexedRecord
  <2>9. IndexedRecord(file, i, c + 1) =
          [keyword |-> item.keyword, count |-> item.count, type |-> item.type,
           chunks |-> Append(open.chunks, [offset |-> pos + 1, words |-> len]),
           read |-> open.read + len]
    BY <1>2, <1>4, <2>4, RecordsGrow DEF m, len
  <2>10. open' = IndexedRecord(file, i, c + 1)
    BY <2>1, <2>6, <2>7, <2>8, <2>9
  <2>11. open' # None
    BY <1>4, <2>4, <2>10, RecordsAre DEF m
  <2>12. pos' = PosOf(file, i, c + 1) /\ pos' - 1 <= disk
    <3>1. pos' = pos + len + 2 /\ pos + len + 1 <= disk
      BY <2>1, <2>2, <2>6
    <3> QED
      BY <1>2, <2>5, <3>1
  <2> QED
    BY <2>1, <2>4, <2>10, <2>11, <2>12
<1> QED
  BY <1>9, <1>10

\* The chunks that were read are all chunks of the item, and it is in order.
LEMMA EndKeepsWalk ==
  ASSUME BinaryTypes, WalkInv, NoItemMisleads, EndRecord
  PROVE  WalkInv'
<1> DEFINE n == Len(records)
           i == n + 1
           item == Items[i]
           m == Len(item.chunks)
<1>1. /\ open # None /\ open.read = ExpectedWords(open) /\ UNCHANGED <<file, disk, pos>>
      /\ records' = Append(records, open) /\ open' = None
      /\ phase = "indexing" /\ phase' \in {"indexing", "parsing"}
  BY DEF EndRecord, fileVars
<1>2. PICK c \in 0..m :
        /\ open = IndexedRecord(file, i, c) /\ pos = PosOf(file, i, c) /\ pos - 1 <= disk
        /\ open.read = UpTo(item.chunks)[c] /\ open.read \in Nat
        /\ ExpectedWords(open) = WordsNeeded(item)
        /\ pos \in Nat
  BY <1>1, OpenItemIs
<1>3. /\ i \in 1..Len(Items) /\ i - 1 = n /\ item \in Item /\ m \in Nat
      /\ item.count \in Int /\ item.count >= 0
      /\ item.count > 0 => IsSupportedType(item.type)
      /\ item.chunks \in Seq(Seq(FileWord))
  BY <1>1, OpenItemIs
<1>4. /\ file \in FilesThere /\ i \in 1..Len(file.items) /\ item = file.items[i] /\ disk \in Nat
      /\ Items \in Seq(Item)
  <2>1. file \in FilesThere /\ i \in 1..Len(file.items) /\ item = file.items[i] /\ disk \in 0..Len(Words)
    BY <1>3 DEF BinaryTypes, Items
  <2>2. Items \in Seq(Item)
    BY <2>1, FileIs DEF Items
  <2> QED
    BY <2>1, <2>2
<1>5. /\ \A j \in 1..n : IsInOrder(Items[j]) /\ IsWholeOnDisk(j)
      /\ n \in 0..Len(Items)
      /\ records = [j \in 1..n |-> IndexedRecord(file, j, Len(Items[j].chunks))]
  BY DEF WalkInv
<1>6. i = n + 1 /\ n \in Nat /\ i \in Nat
  BY <1>3, <1>5
<1> HIDE DEF i, n, item, m
<1>7. c = m
  <2>1. SUFFICES ASSUME c # m
                 PROVE  FALSE
    OBVIOUS
  <2>2. c + 1 \in DOMAIN item.chunks /\ c + 1 - 1 = c
    BY <1>3, <2>1 DEF m
  <2>3. UpTo(item.chunks)[c + 1 - 1] = WordsNeeded(item)
    BY <1>1, <1>2, <2>2
  <2>4. Misleads(i)
    BY <2>2, <2>3 DEF Misleads, item
  <2>5. i \in DOMAIN Items
    BY <1>3, <1>4
  <2> QED
    BY <2>4, <2>5 DEF NoItemMisleads
<1>8. IsInOrder(item)
  <2>1. Len(Concat(item.chunks)) = UpTo(item.chunks)[m]
    BY <1>3, ConcatIs DEF m
  <2> QED
    BY <1>1, <1>2, <1>3, <1>7, <2>1 DEF IsInOrder
<1>9. pos = file.ends[i] + 1 /\ file.ends[i] \in Nat
  BY <1>2, <1>4, <1>7, PlacesAre DEF m
<1>10. file.ends[i] <= disk
  BY <1>2, <1>4, <1>9
<1>11. records' = [j \in 1..i |-> IndexedRecord(file, j, Len(Items[j].chunks))] /\ Len(records') = i
  <2> DEFINE entry(j) == IndexedRecord(file, j, Len(Items[j].chunks))
             S == {entry(j) : j \in 1..i}
  <2>1. records = [j \in 1..n |-> entry(j)] /\ open = entry(i)
    BY <1>2, <1>5, <1>7 DEF m, item
  <2> HIDE DEF entry
  <2>2. records \in Seq(S) /\ open \in S /\ Len(records) = n
    <3>1. \A j \in 1..n : entry(j) \in S
      BY <1>6
    <3>2. entry(i) \in S
      BY <1>6
    <3> HIDE DEF S
    <3>3. records \in Seq(S)
      BY <1>6, <2>1, <3>1
    <3> QED
      BY <1>6, <2>1, <3>2, <3>3
  <2> HIDE DEF S
  <2> DEFINE after == Append(records, open)
  <2>3. /\ after \in Seq(S) /\ Len(after) = i /\ after[i] = open
        /\ \A j \in 1..n : after[j] = records[j]
    BY <1>6, <2>2, AppendProperties
  <2> HIDE DEF after
  <2>4. after = [j \in 1..i |-> after[j]]
    BY <2>3
  <2>5. \A j \in 1..i : after[j] = entry(j)
    <3> TAKE j \in 1..i
    <3>1. j \in 1..n \/ j = i
      BY <1>6
    <3> QED
      BY <2>1, <2>3, <3>1
  <2>6. after = [j \in 1..i |-> entry(j)]
    BY <2>4, <2>5
  <2> QED
    BY <1>1, <2>3, <2>6 DEF after, entry
<1>12. \A j \in 1..i : IsInOrder(Items[j]) /\ IsWholeOnDisk(j)
  <2> TAKE j \in 1..i
  <2>1. j \in 1..n \/ j = i
    BY <1>6
  <2> QED
    BY <1>5, <1>8, <1>10, <2>1 DEF IsWholeOnDisk, item
<1>13. file' = file /\ disk' = disk /\ Items' = Items /\ pos' = file.ends[i] + 1
  BY <1>1, <1>9 DEF Items
<1>14. \A j \in 1..i : IsWholeOnDisk(j)'
  BY <1>12, <1>13 DEF IsWholeOnDisk
<1>15. i \in 0..Len(Items)
  BY <1>3, <1>6
<1> QED
  BY <1>1, <1>11, <1>12, <1>13, <1>14, <1>15 DEF WalkInv, IsInOrder, WordsNeeded

-----------------------------------------------------------------------------
(* IndexIsWhole.                                                           *)

\* No end of the global grid is indexed.
NoRecordEndsTheGrid == \A j \in 1..Len(records) : Items[j].keyword # "ENDGRID"

\* The end of the grid is the last record of its index, and what is behind it does not
\* turn the grid down.
TailInv ==
  /\ phase # "read" => grid = None
  /\ Kind = "EGRID" /\ phase \in {"closed", "indexing"} => NoRecordEndsTheGrid
  /\ Kind = "EGRID" =>
       \A j \in 1..Len(records) : Items[j].keyword = "ENDGRID" => j = Len(records)
  /\ TailNeverMatters

\* The items end one behind the other.
LEMMA EndsAre ==
  ASSUME BinaryTypes
  PROVE  /\ Items \in Seq(Item) /\ DOMAIN Items = 1..Len(Items) /\ Len(Items) \in Nat
         /\ \A i \in 0..Len(Items) : file.ends[i] \in Nat
         /\ \A i \in 1..Len(Items) : file.ends[i - 1] + 6 <= file.ends[i]
         /\ \A i, j \in 0..Len(Items) : i <= j => file.ends[i] <= file.ends[j]
<1>1. file \in FilesThere
  BY DEF BinaryTypes
<1>2. /\ file.items \in Seq(Item) /\ file.ends \in [0..Len(file.items) -> Nat]
      /\ \A i, j \in 0..Len(file.items) : i <= j => file.ends[i] <= file.ends[j]
  BY <1>1, FileIs
<1>3. DOMAIN file.items = 1..Len(file.items) /\ Len(file.items) \in Nat
  BY <1>2
<1>4. \A i \in 0..Len(file.items) : file.ends[i] \in Nat
  BY <1>2
<1>5. \A i \in 1..Len(file.items) : file.ends[i - 1] + 6 <= file.ends[i]
  BY <1>1, PlacesAre
<1> QED
  BY <1>2, <1>3, <1>4, <1>5 DEF Items

\* Where the walk stops behind whole records, the items to come are still to come.
LEMMA StopsInFront ==
  ASSUME BinaryTypes, WalkInv, open = None, NoRecordEndsTheGrid,
         NEW i \in DOMAIN Items, Items[i].keyword = "ENDGRID"
  PROVE  pos <= file.ends[i]
<1> DEFINE n == Len(records)
<1>1. n \in 0..Len(Items) /\ pos = file.ends[n] + 1
  BY DEF WalkInv
<1>2. i \in 1..Len(Items) /\ Len(Items) \in Nat
  BY EndsAre
<1>3. ~(i <= n)
  BY <1>1, <1>2 DEF NoRecordEndsTheGrid
<1> HIDE DEF n
<1>4. n <= i - 1 /\ i - 1 \in 0..Len(Items) /\ i \in 0..Len(Items)
  BY <1>1, <1>2, <1>3
<1>5. /\ file.ends[n] <= file.ends[i - 1] /\ file.ends[i - 1] + 6 <= file.ends[i]
      /\ file.ends[n] \in Nat /\ file.ends[i - 1] \in Nat /\ file.ends[i] \in Nat
  BY <1>1, <1>2, <1>4, EndsAre
<1> DEFINE behind == file.ends[n] front == file.ends[i - 1] end == file.ends[i]
<1>6. pos = behind + 1
  BY <1>1
<1>7. behind <= front /\ front + 6 <= end /\ behind \in Nat /\ front \in Nat /\ end \in Nat
  BY <1>5
<1> HIDE DEF behind, front, end
<1>8. pos <= end
  BY <1>6, <1>7
<1> QED
  BY <1>8 DEF end

\* Where it stops in an item, the item is not in order or still has chunks.
LEMMA StopsInside ==
  ASSUME BinaryTypes, WalkInv, open # None, open.read < ExpectedWords(open), NoRecordEndsTheGrid,
         NEW i \in DOMAIN Items, Items[i].keyword = "ENDGRID", IsInOrder(Items[i])
  PROVE  pos <= file.ends[i]
<1> DEFINE n == Len(records)
           k == n + 1
           item == Items[k]
           m == Len(item.chunks)
<1>1. PICK c \in 0..m :
        /\ pos = PosOf(file, k, c) /\ pos \in Nat
        /\ open.read = UpTo(item.chunks)[c] /\ open.read \in Nat
        /\ ExpectedWords(open) = WordsNeeded(item)
  BY OpenItemIs
<1>2. k \in 1..Len(Items) /\ item.chunks \in Seq(Seq(FileWord)) /\ m \in Nat /\ n \in Nat
  <2>1. k \in 1..Len(Items) /\ item.chunks \in Seq(Seq(FileWord)) /\ m \in Nat
    BY OpenItemIs
  <2>2. n \in 0..Len(Items)
    BY DEF WalkInv
  <2> QED
    BY <2>1, <2>2
<1>3. i \in 1..Len(Items) /\ Len(Items) \in Nat /\ file \in FilesThere /\ Items = file.items
  BY EndsAre DEF BinaryTypes, Items
<1>4. ~(i <= n)
  BY <1>2, <1>3 DEF NoRecordEndsTheGrid
<1>5. i = k \/ k <= i - 1
  BY <1>2, <1>3, <1>4
<1> HIDE DEF n, k, item, m
<1>6. pos <= file.ends[k] + 1 /\ file.ends[k] \in Nat
  BY <1>1, <1>2, <1>3, PlacesAre DEF item, m
<1>7. CASE i = k
  <2>1. c # m
    <3>1. Len(Concat(item.chunks)) = UpTo(item.chunks)[m]
      BY <1>2, ConcatIs DEF m
    <3>2. Len(Concat(item.chunks)) = WordsNeeded(item)
      BY <1>7 DEF IsInOrder, item
    <3>3. open.read # WordsNeeded(item)
      BY <1>1, <3>1, <3>2
    <3> QED
      BY <1>1, <3>1, <3>2, <3>3
  <2> DEFINE d == c + 1
  <2>2. d \in 1..m /\ d - 1 = c /\ d \in 0..m
    BY <1>2, <2>1
  <2> HIDE DEF d
  <2>3. /\ PosOf(file, k, d) = PosOf(file, k, d - 1) + Len(item.chunks[d]) + 2
        /\ Len(item.chunks[d]) \in Nat
        /\ PosOf(file, k, d) <= file.ends[k] + 1
    BY <1>2, <1>3, <2>2, PlacesAre DEF item, m
  <2>4. pos + Len(item.chunks[d]) + 2 <= file.ends[k] + 1
    BY <1>1, <2>2, <2>3
  <2> DEFINE len == Len(item.chunks[d]) last == file.ends[k]
  <2>5. pos + len + 2 <= last + 1 /\ len \in Nat /\ last \in Nat /\ pos \in Nat
    BY <1>1, <1>6, <2>3, <2>4
  <2> HIDE DEF len, last
  <2>6. pos <= last
    BY <2>5
  <2> QED
    BY <1>7, <2>6 DEF last
<1>8. CASE k <= i - 1
  <2>1. i - 1 \in 0..Len(Items) /\ i \in 0..Len(Items) /\ k \in 0..Len(Items)
    BY <1>2, <1>3
  <2>2. /\ file.ends[k] <= file.ends[i - 1] /\ file.ends[i - 1] + 6 <= file.ends[i]
        /\ file.ends[i - 1] \in Nat /\ file.ends[i] \in Nat
    BY <1>3, <1>8, <2>1, EndsAre
  <2> QED
    BY <1>1, <1>6, <2>2
<1> QED
  BY <1>5, <1>7, <1>8

\* Records come only at the end of one, while the file is indexed.
LEMMA RecordsStay ==
  ASSUME [Next]_vars
  PROVE  \/ EndRecord
         \/ /\ records' = records
            /\ phase' \in {"closed", "indexing"} => phase \in {"closed", "indexing"}
<1>1. ASSUME Flush \/ OpenFile \/ ReadHeader \/ ReadChunk \/ EndOfFile
      PROVE  /\ records' = records
             /\ phase' \in {"closed", "indexing"} => phase \in {"closed", "indexing"}
  BY <1>1 DEF Flush, OpenFile, ReadHeader, ReadChunk, EndOfFile, indexVars
<1>2. ASSUME ParseEgrid \/ ParseInit \/ InitRecord \/ Register
      PROVE  records' = records /\ phase' \in {phase, "read", "failed"}
  BY <1>2 DEF ParseEgrid, ParseInit, InitRecord, Register, indexVars
<1>3. ASSUME Seqnum \/ Intehead \/ Doubhead \/ OtherRecord
      PROVE  records' = records /\ phase' \in {phase, "read", "failed"}
  BY <1>3 DEF Seqnum, Intehead, Doubhead, OtherRecord, AtUnrstRecord, indexVars
<1>4. ASSUME \/ \E array \in {"COORD", "ZCORN", "ACTNUM", "logicalCellToActiveCell"} :
                  LoadGridArray(array)
             \/ \E f \in DOMAIN fields : \E s \in DOMAIN fields[f].samples : LoadSample(f, s)
             \/ UNCHANGED vars
      PROVE  records' = records /\ phase' = phase
  BY <1>4 DEF vars, indexVars, LoadGridArray, LoadSample
<1> QED
  BY <1>1, <1>2, <1>3, <1>4 DEF Next

\* What follows the end of the grid does not matter.
LEMMA TailKept ==
  ASSUME BinaryTypes, BinaryTypes', WalkInv, WalkInv', TailInv, [Next]_vars
  PROVE  TailInv'
<1>1. file' = file /\ Items' = Items /\ Kind' = Kind
  BY DiskGrows DEF Items, Kind
<1>2. phase' # "read" => grid' = None
  <2>1. ASSUME Flush \/ OpenFile \/ ReadHeader \/ ReadChunk \/ EndRecord \/ EndOfFile
        PROVE  grid' = grid /\ (phase = "read" => phase' = "read")
    BY <2>1 DEF Flush, OpenFile, ReadHeader, ReadChunk, EndRecord, EndOfFile, infoVars
  <2>2. ASSUME ParseEgrid
        PROVE  phase' # "read" => grid' = grid /\ phase # "read"
    BY <2>2 DEF ParseEgrid
  <2>3. ASSUME ParseInit \/ InitRecord \/ Seqnum \/ Intehead \/ Doubhead \/ OtherRecord \/ Register
        PROVE  grid' = grid /\ phase # "read"
    BY <2>3 DEF ParseInit, InitRecord, Seqnum, Intehead, Doubhead, OtherRecord, Register,
                AtUnrstRecord, infoVars
  <2>4. ASSUME \/ \E array \in {"COORD", "ZCORN", "ACTNUM", "logicalCellToActiveCell"} :
                    LoadGridArray(array)
               \/ \E f \in DOMAIN fields : \E s \in DOMAIN fields[f].samples : LoadSample(f, s)
               \/ UNCHANGED vars
        PROVE  grid' = grid /\ phase' = phase
    BY <2>4 DEF vars, infoVars, LoadGridArray, LoadSample
  <2> QED
    BY <2>1, <2>2, <2>3, <2>4 DEF Next, TailInv
<1>3. \/ EndRecord
      \/ /\ records' = records
         /\ phase' \in {"closed", "indexing"} => phase \in {"closed", "indexing"}
  BY RecordsStay
<1>4. /\ Kind' = "EGRID" /\ phase' \in {"closed", "indexing"} => NoRecordEndsTheGrid'
      /\ Kind' = "EGRID" =>
           \A j \in 1..Len(records') : Items'[j].keyword = "ENDGRID" => j = Len(records')
  <2>1. CASE EndRecord
    <3> DEFINE n == Len(records)
    <3>1. /\ open # None /\ phase = "indexing" /\ records' = Append(records, open)
          /\ phase' = IF StopsAfter(open.keyword) THEN "parsing" ELSE phase
      BY <2>1 DEF EndRecord
    <3>2. /\ n \in Nat /\ n + 1 \in 1..Len(Items) /\ open.keyword = Items[n + 1].keyword
          /\ DOMAIN records = 1..n
      <4>1. n \in Nat /\ n + 1 \in 1..Len(Items) /\ DOMAIN records = 1..n
        BY <3>1 DEF WalkInv
      <4>2. PICK c : open = IndexedRecord(file, n + 1, c)
        BY <3>1, OpenItemIs
      <4> QED
        BY <4>1, <4>2 DEF IndexedRecord, Items
    <3>3. Len(records') = n + 1
      <4>1. records' = [j \in 1..Len(records') |-> IndexedRecord(file', j, Len(Items'[j].chunks))]
            /\ Len(records') \in Nat
        BY DEF WalkInv
      <4>2. Len(Append(records, open)) = Len(records) + 1
        <5> DEFINE S == {records[j] : j \in 1..n} \cup {open}
        <5>1. \A j \in 1..n : records[j] \in S
          OBVIOUS
        <5>2. open \in S
          OBVIOUS
        <5>3. records = [j \in 1..n |-> records[j]]
          BY DEF WalkInv
        <5> HIDE DEF S
        <5>4. records \in Seq(S)
          BY <3>2, <5>1, <5>3
        <5> QED
          BY <5>2, <5>4, AppendProperties
      <4> QED
        BY <3>1, <4>2
    <3>4. Kind = "EGRID" => NoRecordEndsTheGrid
      BY <3>1 DEF TailInv
    <3> HIDE DEF n
    <3>5. \A j \in 1..(n + 1) : j \in 1..n \/ j = n + 1
      BY <3>2
    <3>6. ASSUME Kind = "EGRID", NEW j \in 1..(n + 1), Items[j].keyword = "ENDGRID"
          PROVE  j = n + 1 /\ phase' = "parsing"
      <4>1. j = n + 1
        BY <3>4, <3>5, <3>6 DEF NoRecordEndsTheGrid, n
      <4> QED
        BY <3>1, <3>2, <3>6, <4>1 DEF StopsAfter
    <3> QED
      BY <1>1, <3>3, <3>6 DEF NoRecordEndsTheGrid
  <2>2. CASE /\ records' = records
             /\ phase' \in {"closed", "indexing"} => phase \in {"closed", "indexing"}
    BY <1>1, <2>2 DEF TailInv, NoRecordEndsTheGrid
  <2> QED
    BY <1>3, <2>1, <2>2
<1>5. TailNeverMatters'
  <2>1. SUFFICES ASSUME phase' = "failed", Kind = "EGRID", NEW i \in DOMAIN Items,
                        Items[i].keyword = "ENDGRID", IsInOrder(Items[i])
                 PROVE  \/ pos' <= file.ends[i]
                        \/ grid' = None /\ records' # <<>> /\ Last(records').keyword = "ENDGRID"
    BY <1>1 DEF TailNeverMatters, IsInOrder, WordsNeeded
  <2>2. CASE Flush \/ UNCHANGED vars
    <3>1. phase = "failed" /\ pos' = pos /\ records' = records /\ grid' = grid
      BY <2>1, <2>2 DEF Flush, vars, indexVars, infoVars
    <3> QED
      BY <2>1, <3>1 DEF TailInv, TailNeverMatters
  <2>3. CASE OpenFile
    <3>1. pos' = pos /\ open = None /\ NoRecordEndsTheGrid
      BY <2>1, <2>3 DEF OpenFile, indexVars, WalkInv, TailInv
    <3> QED
      BY <2>1, <3>1, StopsInFront
  <2>4. CASE ReadHeader
    <3>1. pos' = pos /\ open = None /\ NoRecordEndsTheGrid
      BY <2>1, <2>4 DEF ReadHeader, TailInv
    <3> QED
      BY <2>1, <3>1, StopsInFront
  <2>5. CASE ReadChunk
    <3>1. pos' = pos /\ open # None /\ open.read < ExpectedWords(open) /\ NoRecordEndsTheGrid
      BY <2>1, <2>5 DEF ReadChunk, TailInv
    <3> QED
      BY <2>1, <3>1, StopsInside
  <2>6. CASE ParseEgrid
    <3>1. /\ phase = "parsing" /\ pos' = pos /\ records' = records /\ grid' = None /\ open = None
      BY <1>2, <2>1, <2>6 DEF ParseEgrid, indexVars, WalkInv
    <3>2. CASE NoRecordEndsTheGrid
      BY <2>1, <3>1, <3>2, StopsInFront
    <3>3. CASE ~NoRecordEndsTheGrid
      <4>1. PICK j \in 1..Len(records) : Items[j].keyword = "ENDGRID" /\ j = Len(records)
        BY <2>1, <3>3 DEF NoRecordEndsTheGrid, TailInv
      <4> DEFINE n == Len(records)
      <4>2. n \in Nat /\ n \in 1..n /\ records = [k \in 1..n |-> IndexedRecord(file, k, Len(Items[k].chunks))]
        BY <4>1 DEF WalkInv
      <4> HIDE DEF n
      <4>3. records[n].keyword = Items[n].keyword
        BY <4>2 DEF IndexedRecord, Items
      <4>4. records # <<>>
        BY <4>2 DEF n
      <4>5. Last(records).keyword = "ENDGRID"
        BY <4>1, <4>3 DEF Last, n
      <4> QED
        BY <3>1, <4>4, <4>5
    <3> QED
      BY <3>2, <3>3
  <2>7. phase # "failed" => \/ Flush \/ UNCHANGED vars \/ OpenFile \/ ReadHeader \/ ReadChunk
                            \/ ParseEgrid
    <3>1. ~(ParseInit \/ InitRecord \/ Register)
      BY <2>1 DEF ParseInit, InitRecord, Register
    <3>2. ~(Seqnum \/ Intehead \/ Doubhead \/ OtherRecord)
      BY <2>1 DEF Seqnum, Intehead, Doubhead, OtherRecord, AtUnrstRecord
    <3>3. ASSUME EndRecord \/ EndOfFile
          PROVE  FALSE
      BY <2>1, <3>3 DEF EndRecord, EndOfFile
    <3>4. ASSUME \/ \E array \in {"COORD", "ZCORN", "ACTNUM", "logicalCellToActiveCell"} :
                      LoadGridArray(array)
                 \/ \E f \in DOMAIN fields : \E s \in DOMAIN fields[f].samples : LoadSample(f, s)
          PROVE  FALSE
      BY <2>1, <3>4 DEF LoadGridArray, LoadSample
    <3> QED
      BY <3>1, <3>2, <3>3, <3>4 DEF Next
  <2>8. phase = "failed" => Flush \/ UNCHANGED vars
    <3>1. ASSUME phase = "failed", OpenFile \/ ReadHeader \/ ReadChunk \/ EndRecord \/ EndOfFile
          PROVE  FALSE
      BY <3>1 DEF OpenFile, ReadHeader, ReadChunk, EndRecord, EndOfFile
    <3>2. ASSUME phase = "failed", \/ ParseEgrid \/ ParseInit \/ InitRecord \/ Seqnum \/ Intehead
                                   \/ Doubhead \/ OtherRecord \/ Register
          PROVE  FALSE
      BY <3>2 DEF ParseEgrid, ParseInit, InitRecord, Seqnum, Intehead, Doubhead, OtherRecord,
                  Register, AtUnrstRecord
    <3>3. ASSUME phase = "failed",
                 \/ \E array \in {"COORD", "ZCORN", "ACTNUM", "logicalCellToActiveCell"} :
                      LoadGridArray(array)
                 \/ \E f \in DOMAIN fields : \E s \in DOMAIN fields[f].samples : LoadSample(f, s)
          PROVE  FALSE
      BY <3>3 DEF LoadGridArray, LoadSample
    <3> QED
      BY <3>1, <3>2, <3>3 DEF Next
  <2> QED
    BY <2>2, <2>3, <2>4, <2>5, <2>6, <2>7, <2>8
<1> QED
  BY <1>2, <1>4, <1>5 DEF TailInv

BinaryInv == BinaryTypes /\ (NoItemMisleads => WalkInv /\ TailInv)

\* Every reachable state has an index as far as it was read.
LEMMA BinaryInvariant == Spec => []BinaryInv
<1>1. Init => BinaryInv
  <2> SUFFICES ASSUME Init
               PROVE  BinaryInv
    OBVIOUS
  <2>1. /\ file \in FilesThere /\ disk = 0 /\ phase = "closed" /\ pos = 1 /\ open = None
        /\ records = <<>> /\ grid = None
    BY DEF Init, FilesThere
  <2>2. Len(Words) \in Nat /\ Len(Items) \in Nat /\ file.ends[0] = 0
    BY <2>1, FileIs DEF Words, Items
  <2>3. BinaryTypes
    BY <2>1, <2>2 DEF BinaryTypes
  <2>4. Len(records) = 0 /\ 1..0 = {}
    BY <2>1
  <2>5. records = [i \in 1..0 |-> IndexedRecord(file, i, Len(Items[i].chunks))]
    BY <2>1
  <2>6. WalkInv
    BY <2>1, <2>2, <2>4, <2>5 DEF WalkInv
  <2>7. TailInv
    BY <2>1, <2>4 DEF TailInv, NoRecordEndsTheGrid, TailNeverMatters
  <2> QED
    BY <2>3, <2>6, <2>7 DEF BinaryInv
<1>2. BinaryInv /\ [Next]_vars => BinaryInv'
  <2> SUFFICES ASSUME BinaryInv, [Next]_vars
               PROVE  BinaryInv'
    OBVIOUS
  <2>1. BinaryTypes /\ BinaryTypes' /\ (NoItemMisleads' <=> NoItemMisleads)
    BY DiskGrows DEF BinaryInv
  <2>2. ASSUME NoItemMisleads
        PROVE  WalkInv' /\ TailInv'
    <3>1. WalkInv /\ TailInv
      BY <2>2 DEF BinaryInv
    <3>2. ASSUME ReadHeader, HeaderIsWhole(pos)
          PROVE  WalkInv'
      BY <2>1, <3>1, <3>2, HeaderKeepsWalk
    <3>3. ASSUME ReadChunk
          PROVE  WalkInv'
      BY <2>1, <2>2, <3>1, <3>3, ChunkKeepsWalk
    <3>4. ASSUME EndRecord
          PROVE  WalkInv'
      BY <2>1, <2>2, <3>1, <3>4, EndKeepsWalk
    <3>5. ASSUME ~(ReadHeader /\ HeaderIsWhole(pos)) /\ ~ReadChunk /\ ~EndRecord
          PROVE  WalkInv'
      BY <2>1, <3>1, <3>5, OthersReadNothing, SameIndexKeepsWalk
    <3>6. WalkInv'
      BY <3>2, <3>3, <3>4, <3>5
    <3> QED
      BY <2>1, <3>1, <3>6, TailKept
  <2> QED
    BY <2>1, <2>2 DEF BinaryInv
<1> QED
  BY <1>1, <1>2, PTL DEF Spec

\* The records that are indexed are the items of the file, whole and in order, and what
\* follows the end of a grid never keeps it from being read: for every file whose items
\* do not mislead, wherever the simulator is when it is read.
THEOREM IndexesAreWhole == Spec => []IndexIsWhole
<1>1. BinaryInv => IndexIsWhole
  <2> SUFFICES ASSUME BinaryInv, NoItemMisleads
               PROVE  WholeOrNothing /\ TailNeverMatters
    BY DEF IndexIsWhole
  <2>1. WalkInv /\ TailInv
    BY DEF BinaryInv
  <2> DEFINE n == Len(records)
  <2>2. /\ n \in 0..Len(Items) /\ records = [i \in 1..n |-> IndexedRecord(file, i, Len(Items[i].chunks))]
        /\ \A i \in 1..n : IsInOrder(Items[i]) /\ IsWholeOnDisk(i)
    BY <2>1 DEF WalkInv
  <2> HIDE DEF n
  <2>3. \A i \in DOMAIN records : /\ IsWholeOnDisk(i) /\ IsInOrder(Items[i])
                                  /\ records[i].keyword = Items[i].keyword
                                  /\ records[i].count = Items[i].count
    <3> TAKE i \in DOMAIN records
    <3>1. i \in 1..n /\ records[i] = IndexedRecord(file, i, Len(Items[i].chunks))
      BY <2>2
    <3> QED
      BY <2>2, <3>1 DEF IndexedRecord, Items
  <2>4. n <= Len(Items)
    <3>1. Len(Items) \in Nat
      BY EndsAre DEF BinaryInv
    <3> QED
      BY <2>2, <3>1
  <2> QED
    BY <2>1, <2>3, <2>4 DEF WholeOrNothing, TailInv, n
<1> QED
  BY <1>1, BinaryInvariant, PTL

-----------------------------------------------------------------------------
(* LoadedIsStored.                                                         *)

\* What is known of an item that is indexed.
RecordOf(i) == IndexedRecord(file, i, Len(Items[i].chunks))

\* The words of a whole item that is in order, from the chunks of its record.
LEMMA ChunksAreThere ==
  ASSUME BinaryTypes, NEW i \in 1..Len(Items), IsWholeOnDisk(i),
         NEW d \in 1..Len(Items[i].chunks)
  PROVE  LET chunk == RecordOf(i).chunks[d] IN
         /\ chunk.words = Len(Items[i].chunks[d])
         /\ SubSeq(Words, chunk.offset, chunk.offset + chunk.words - 1) = Items[i].chunks[d]
         /\ OnDisk(chunk.offset + chunk.words - 1)
<1> DEFINE item == Items[i]
           p == PosOf(file, i, d - 1)
           len == Len(item.chunks[d])
           n == Len(item.chunks)
<1>1. file \in FilesThere /\ i \in 1..Len(file.items) /\ item = file.items[i] /\ disk \in Nat
  BY DEF BinaryTypes, Items
<1>2. n \in Nat /\ d - 1 \in 0..n /\ d \in 1..n /\ d \in 0..n
  <2>1. n \in Nat
    BY <1>1, PlacesAre
  <2> QED
    BY <2>1
<1>3. RecordOf(i).chunks[d] = [offset |-> p + 1, words |-> len]
  BY <1>1 DEF RecordOf, IndexedRecord, Items
<1> HIDE DEF n
<1>4. /\ item.chunks[d] \in Seq(FileWord) /\ len \in Nat /\ p \in Nat
      /\ PosOf(file, i, d) = p + len + 2 /\ PosOf(file, i, d) <= file.ends[i] + 1
      /\ file.ends[i] \in Nat
      /\ \A m \in 1..len : p + m \in 1..Len(Words) /\ Words[p + m] = item.chunks[d][m]
  <2>1. item.chunks[d] \in Seq(FileWord) /\ len \in Nat
    BY <1>1, <1>2, PlacesAre DEF n
  <2>2. p \in Nat /\ file.ends[i] \in Nat /\ PosOf(file, i, d) <= file.ends[i] + 1
    BY <1>1, <1>2, PlacesAre DEF n
  <2>3. /\ PosOf(file, i, d) = p + len + 2
        /\ \A m \in 1..len : p + m \in 1..Len(Words) /\ Words[p + m] = item.chunks[d][m]
    <3>1. d \in 1..Len(file.items[i].chunks)
      BY <1>1
    <3>2. /\ PosOf(file, i, d) = PosOf(file, i, d - 1) + Len(file.items[i].chunks[d]) + 2
          /\ \A m \in 1..Len(file.items[i].chunks[d]) :
               /\ PosOf(file, i, d - 1) + m \in 1..Len(file.words)
               /\ file.words[PosOf(file, i, d - 1) + m] = file.items[i].chunks[d][m]
      BY <1>1, <3>1, PlacesAre
    <3> QED
      BY <3>2 DEF Words, Items
  <2> HIDE DEF p, len, item
  <2> QED
    BY <2>1, <2>2, <2>3
<1> HIDE DEF item
<1> DEFINE chunk == item.chunks[d]
<1>5. chunk \in Seq(FileWord) /\ Len(chunk) = len
  BY <1>4
<1> HIDE DEF p, len, chunk
<1>6. p + 1 + len - 1 <= disk
  <2> DEFINE last == file.ends[i]
  <2>1. p + len + 2 <= last + 1 /\ last \in Nat /\ last <= disk
    BY <1>4 DEF IsWholeOnDisk
  <2> HIDE DEF last
  <2> QED
    BY <1>1, <1>4, <2>1
<1>7. SubSeq(Words, p + 1, p + 1 + len - 1) = chunk
  <2> DEFINE a == p + 1 b == p + 1 + len - 1 part == SubSeq(Words, a, b)
  <2>1. a \in Int /\ b \in Int /\ b - a + 1 = len /\ (a <= b <=> len > 0)
    BY <1>4
  <2>2. \A k \in a..b : Words[k] \in FileWord
    <3> TAKE k \in a..b
    <3> DEFINE m == k - p
    <3>1. m \in 1..len /\ k = p + m
      <4>1. p \in Nat /\ len \in Nat /\ k \in (p + 1)..(p + 1 + len - 1)
        BY <1>4
      <4> QED
        BY <4>1
    <3> HIDE DEF m
    <3>2. Words[k] = chunk[m]
      BY <1>4, <3>1 DEF chunk
    <3> QED
      BY <1>5, <3>1, <3>2
  <2>3. \A m \in 1..len : Words[a + m - 1] = chunk[m]
    <3> TAKE m \in 1..len
    <3>1. a + m - 1 = p + m
      BY <1>4
    <3> QED
      BY <1>4, <3>1 DEF chunk
  <2> HIDE DEF a, b
  <2>4. /\ part \in Seq(FileWord) /\ Len(part) = (IF a <= b THEN b - a + 1 ELSE 0)
        /\ \A m \in 1..(b - a + 1) : part[m] = Words[a + m - 1]
    BY <2>1, <2>2, SubSeqProperties
  <2>5. Len(part) = len /\ \A m \in 1..len : part[m] = chunk[m]
    BY <1>4, <2>1, <2>3, <2>4
  <2> HIDE DEF part
  <2>6. part = chunk
    BY <1>5, <2>4, <2>5
  <2> QED
    BY <2>6 DEF part, a, b
<1> QED
  BY <1>3, <1>6, <1>7 DEF OnDisk, chunk, len, item

\* The numbers of such an item are loaded, unless a chunk ends inside one.
LEMMA WordsLoad ==
  ASSUME BinaryTypes, NEW i \in 1..Len(Items), IsWholeOnDisk(i), IsInOrder(Items[i])
  PROVE  LET item == Items[i] IN
         /\ ItemValues(item) \in Seq(Int) /\ Len(ItemValues(item)) = item.count
         /\ IsCut(item) => LoadWords(RecordOf(i)) = Error
         /\ ~IsCut(item) => /\ LoadWords(RecordOf(i)) # Error
                            /\ Decoded(LoadWords(RecordOf(i))) = ItemValues(item)
<1> DEFINE item == Items[i]
           r == RecordOf(i)
           n == Len(item.chunks)
           size == ItemWords(item.type)
           parts == [c \in DOMAIN r.chunks |->
                       LET chunk == r.chunks[c]
                       IN SubSeq(Words, chunk.offset, chunk.offset + chunk.words - 1)]
           words == Concat(item.chunks)
<1>1. file \in FilesThere /\ i \in 1..Len(file.items) /\ item = file.items[i]
  BY DEF BinaryTypes, Items
<1>2. item \in Item /\ n \in Nat /\ item.chunks \in Seq(Seq(FileWord)) /\ item.count \in Int
  <2>1. item \in Item /\ n \in Nat
    BY <1>1, PlacesAre
  <2> QED
    BY <2>1 DEF Item
<1>3. DOMAIN r.chunks = 1..n /\ r.type = item.type
  BY <1>1 DEF RecordOf, IndexedRecord, Items
<1>4. /\ words \in Seq(FileWord) /\ Len(words) = item.count * size
      /\ item.count \in Nat /\ size \in {1, 2}
  <2>1. words \in Seq(FileWord)
    BY <1>2, ConcatIs
  <2> QED
    BY <1>2, <2>1 DEF IsInOrder, WordsNeeded, ItemWords
<1>5. parts = item.chunks
  <2>1. ASSUME NEW c \in 1..n
        PROVE  parts[c] = item.chunks[c]
    <3>1. c \in DOMAIN r.chunks
      BY <1>3
    <3>2. SubSeq(Words, r.chunks[c].offset, r.chunks[c].offset + r.chunks[c].words - 1) = item.chunks[c]
      BY ChunksAreThere
    <3> HIDE DEF r, item
    <3> QED
      BY <3>1, <3>2
  <2>2. parts = [c \in 1..n |-> parts[c]]
    BY <1>3
  <2>3. item.chunks = [c \in 1..n |-> item.chunks[c]]
    <3>1. \A t \in Seq(Seq(FileWord)) : t = [c \in 1..Len(t) |-> t[c]]
      OBVIOUS
    <3> QED
      BY <1>2, <3>1
  <2> HIDE DEF parts, n, item
  <2> QED
    BY <2>1, <2>2, <2>3
<1>6. (\E c \in DOMAIN r.chunks : ~ChunkIsLoadable(r, r.chunks[c])) <=> IsCut(item)
  <2>1. DOMAIN item.chunks = 1..n
    BY <1>2
  <2>2. \A c \in 1..n : ChunkIsLoadable(r, r.chunks[c]) <=> Len(item.chunks[c]) % size = 0
    BY <1>3, ChunksAreThere DEF ChunkIsLoadable
  <2> HIDE DEF r, n
  <2> QED
    BY <1>3, <2>1, <2>2 DEF IsCut
<1> DEFINE found == [k \in 1..(Len(words) \div size) |-> words[(k - 1) * size + 1]]
<1>7. LoadWords(r) = IF IsCut(item) THEN Error ELSE found
  <2>1. LoadWords(r) = IF \E c \in DOMAIN r.chunks : ~ChunkIsLoadable(r, r.chunks[c]) THEN Error
                       ELSE [k \in 1..(Len(Concat(parts)) \div size) |-> Concat(parts)[(k - 1) * size + 1]]
    BY <1>3 DEF LoadWords
  <2> HIDE DEF r, parts
  <2> QED
    BY <1>5, <1>6, <2>1
<1>8. Len(words) \div size = item.count /\ \A k \in 1..item.count : (k - 1) * size + 1 \in 1..Len(words)
  <2> DEFINE n1 == item.count l == Len(words)
  <2>1. n1 \in Nat /\ l = n1 * size /\ size \in {1, 2}
    BY <1>4
  <2> DEFINE fit(t) == l \div t = n1 /\ \A k \in 1..n1 : (k - 1) * t + 1 \in 1..l
  <2> HIDE DEF n1, l, size
  <2>2. ASSUME size = 1
        PROVE  fit(size)
    <3>1. l = n1 /\ l \in Nat
      BY <2>1, <2>2
    <3>2. fit(1)
      BY <2>1, <3>1
    <3> HIDE DEF fit
    <3> QED
      BY <2>2, <3>2
  <2>3. ASSUME size = 2
        PROVE  fit(size)
    <3>1. l = n1 * 2
      BY <2>1, <2>3
    <3>2. fit(2)
      BY <2>1, <3>1
    <3> HIDE DEF fit
    <3> QED
      BY <2>3, <3>2
  <2>4. l \div size = n1 /\ \A k \in 1..n1 : (k - 1) * size + 1 \in 1..l
    BY <2>1, <2>2, <2>3
  <2> QED
    BY <2>4 DEF n1, l
<1> HIDE DEF r, parts, n, size, words, item
<1>9. \A k \in 1..item.count : words[(k - 1) * size + 1] \in FileWord
  <2>1. \A m \in 1..Len(words) : words[m] \in FileWord
    BY <1>4
  <2> QED
    BY ONLY <1>8, <2>1
<1>10. found = [k \in 1..item.count |-> words[(k - 1) * size + 1]]
  BY <1>8
<1>11. ItemValues(item) = [k \in 1..item.count |-> words[(k - 1) * size + 1].int]
  BY DEF ItemValues, words, size
<1>12. ItemValues(item) \in Seq(Int) /\ Len(ItemValues(item)) = item.count
  <2>1. \A k \in 1..item.count : words[(k - 1) * size + 1].int \in Int
    BY <1>9 DEF FileWord
  <2> DEFINE m == item.count at(k) == words[(k - 1) * size + 1].int
  <2>2. m \in Nat /\ ItemValues(item) = [k \in 1..m |-> at(k)] /\ \A k \in 1..m : at(k) \in Int
    BY <1>4, <1>11, <2>1
  <2> HIDE DEF m, at
  <2>3. [k \in 1..m |-> at(k)] \in Seq(Int) /\ Len([k \in 1..m |-> at(k)]) = m
    BY <2>2
  <2> QED
    BY <2>2, <2>3 DEF m
<1>13. found # Error
  <2> DEFINE m == item.count at(k) == words[(k - 1) * size + 1]
  <2>1. found \in Seq(FileWord)
    <3>1. m \in Nat /\ found = [k \in 1..m |-> at(k)] /\ \A k \in 1..m : at(k) \in FileWord
      BY <1>4, <1>9, <1>10
    <3> HIDE DEF m, at, found
    <3> QED
      BY <3>1
  <2> QED
    BY <2>1, ConstantsAssumption
<1>14. Decoded(found) = ItemValues(item)
  <2>1. Decoded(found) = [k \in DOMAIN found |-> found[k].int]
    BY <1>13 DEF Decoded
  <2>2. DOMAIN found = 1..item.count /\ \A k \in 1..item.count : found[k] = words[(k - 1) * size + 1]
    BY <1>10
  <2> HIDE DEF found
  <2> QED
    BY <1>11, <2>1, <2>2
<1> HIDE DEF found
<1> QED
  BY <1>7, <1>12, <1>13, <1>14 DEF r, item

\* What the loaders make of them.
LEMMA ArraysLoad ==
  ASSUME BinaryTypes, NEW i \in 1..Len(Items), IsWholeOnDisk(i), IsInOrder(Items[i])
  PROVE  LET item == Items[i] IN
         /\ LoadIntArray(RecordOf(i)) \in {ItemValues(item), Error}
         /\ LoadIntArray(RecordOf(i)) = Error <=> DoesNotLoad(item, TRUE)
         /\ LoadDoubleArray(RecordOf(i)) \in {ItemValues(item), Error}
         /\ LoadDoubleArray(RecordOf(i)) = Error <=> DoesNotLoad(item, FALSE)
         /\ ItemValues(item) \in Seq(Int) /\ ItemValues(item) # Error
         /\ Len(ItemValues(item)) = item.count
<1> DEFINE item == Items[i]
<1>1. RecordOf(i).type = item.type
  BY DEF RecordOf, IndexedRecord, Items
<1>2. /\ IsIntegerRecord(RecordOf(i)) <=> IsIntegerRecord(item)
      /\ IsFloatingPointRecord(RecordOf(i)) <=> IsFloatingPointRecord(item)
  BY <1>1 DEF IsIntegerRecord, IsFloatingPointRecord
<1> DEFINE v == ItemValues(item) w == LoadWords(RecordOf(i))
<1>3. /\ v \in Seq(Int) /\ Len(v) = item.count
      /\ IsCut(item) => w = Error
      /\ ~IsCut(item) => w # Error /\ Decoded(w) = v
  BY WordsLoad
<1>4. v # Error
  BY <1>3, ConstantsAssumption
<1>5. w = Error => Decoded(w) = Error
  BY DEF Decoded
<1> HIDE DEF v, w
<1>6. /\ LoadIntArray(RecordOf(i)) = IF IsIntegerRecord(item) THEN Decoded(w) ELSE Error
      /\ LoadDoubleArray(RecordOf(i)) = IF IsFloatingPointRecord(item) THEN Decoded(w) ELSE Error
  BY <1>2 DEF LoadIntArray, LoadDoubleArray, w
<1>7. /\ DoesNotLoad(item, TRUE) <=> IsCut(item) \/ ~IsIntegerRecord(item)
      /\ DoesNotLoad(item, FALSE) <=> IsCut(item) \/ ~IsFloatingPointRecord(item)
  BY DEF DoesNotLoad
<1> DEFINE a == LoadIntArray(RecordOf(i)) b == LoadDoubleArray(RecordOf(i))
<1> HIDE DEF a, b, item
<1>8. /\ a = (IF IsIntegerRecord(item) THEN Decoded(w) ELSE Error)
      /\ b = (IF IsFloatingPointRecord(item) THEN Decoded(w) ELSE Error)
  BY <1>6 DEF a, b
<1>9. a \in {v, Error} /\ (a = Error <=> DoesNotLoad(item, TRUE))
  BY <1>3, <1>4, <1>5, <1>7, <1>8
<1>10. b \in {v, Error} /\ (b = Error <=> DoesNotLoad(item, FALSE))
  BY <1>3, <1>4, <1>5, <1>7, <1>8
<1> QED
  BY <1>3, <1>4, <1>9, <1>10 DEF v, a, b, item

\* The first record with a keyword is that of the first item with it.
LEMMA FirstIs ==
  ASSUME BinaryTypes, WalkInv, NEW keyword, FindFirst(keyword) # None
  PROVE  LET i == CHOOSE i \in DOMAIN Items :
                    /\ Items[i].keyword = keyword
                    /\ \A j \in 1..(i - 1) : Items[j].keyword # keyword
         IN /\ i \in 1..Len(Items) /\ IsWholeOnDisk(i) /\ IsInOrder(Items[i])
            /\ FindFirst(keyword) = RecordOf(i)
<1> DEFINE n == Len(records)
           ends == {i \in DOMAIN records : records[i].keyword = "ENDGRID"} \cup {n + 1}
           end == Min(ends)
           found == {i \in 1..(end - 1) : records[i].keyword = keyword}
           first == Min(found)
           IsFirst(i) == /\ Items[i].keyword = keyword
                         /\ \A j \in 1..(i - 1) : Items[j].keyword # keyword
<1>1. /\ n \in Nat /\ n <= Len(Items) /\ Len(Items) \in Nat /\ DOMAIN Items = 1..Len(Items)
      /\ DOMAIN records = 1..n
      /\ \A i \in 1..n : records[i] = RecordOf(i) /\ IsInOrder(Items[i]) /\ IsWholeOnDisk(i)
  <2>1. Len(Items) \in Nat /\ DOMAIN Items = 1..Len(Items)
    BY EndsAre
  <2> QED
    BY <2>1 DEF WalkInv, RecordOf
<1>2. \A i \in 1..n : records[i].keyword = Items[i].keyword
  BY <1>1 DEF RecordOf, IndexedRecord, Items
<1>3. FindFirst(keyword) = IF found = {} THEN None ELSE records[first]
  BY DEF FindFirst
<1>4. end \in Nat /\ end <= n + 1
  <2>1. ends \subseteq Nat /\ n + 1 \in ends
    BY <1>1
  <2> HIDE DEF ends
  <2> QED
    BY <2>1, MinIs
<1>5. \A i \in 1..(end - 1) : i \in 1..n /\ 1..(i - 1) \subseteq 1..(end - 1)
  <2> HIDE DEF end, n
  <2> QED
    BY <1>1, <1>4
<1> HIDE DEF end, ends, n
<1>6. found # {}
  BY <1>3
<1>7. first \in found /\ \A i \in found : first <= i
  <2>1. found \subseteq Nat
    BY <1>4
  <2> HIDE DEF found
  <2> QED
    BY <1>6, <2>1, MinIs
<1>8. first \in 1..n /\ IsFirst(first)
  <2>1. first \in 1..(end - 1) /\ records[first].keyword = keyword
    BY <1>7
  <2>2. first \in 1..n /\ Items[first].keyword = keyword
    BY <1>2, <1>5, <2>1
  <2>3. ASSUME NEW j \in 1..(first - 1), Items[j].keyword = keyword
        PROVE  FALSE
    <3>1. j \in 1..(end - 1) /\ j \in 1..n
      BY <1>5, <2>1, <2>3
    <3>2. j \in found
      BY <1>2, <2>3, <3>1
    <3>3. first <= j
      BY <1>7, <3>2
    <3> HIDE DEF first, found
    <3> QED
      BY <1>1, <2>2, <3>1, <3>3
  <2> HIDE DEF first
  <2> QED
    BY <2>2, <2>3
<1> HIDE DEF first, found
<1>9. ASSUME NEW i \in DOMAIN Items, IsFirst(i)
      PROVE  i = first
  <2>1. i \in Nat /\ first \in Nat /\ i >= 1 /\ first >= 1
    BY <1>1, <1>8
  <2>2. ~(i < first)
    BY <1>8, <1>9, <2>1
  <2>3. ~(first < i)
    BY <1>8, <1>9, <2>1
  <2> QED
    BY <2>1, <2>2, <2>3
<1>10. first \in DOMAIN Items
  BY <1>1, <1>8
<1> HIDE DEF IsFirst
<1>11. (CHOOSE i \in DOMAIN Items : IsFirst(i)) = first
  BY <1>8, <1>9, <1>10
<1>12. /\ first \in 1..Len(Items) /\ IsWholeOnDisk(first) /\ IsInOrder(Items[first])
       /\ FindFirst(keyword) = RecordOf(first)
  BY <1>1, <1>3, <1>6, <1>8
<1> QED
  BY <1>11, <1>12 DEF IsFirst

\* A sequence, and the sequences of fields and of their samples.
IsSeq(s) == Len(s) \in Nat /\ s = [i \in 1..Len(s) |-> s[i]]
FieldsAre(all) == IsSeq(all) /\ \A f \in DOMAIN all : IsSeq(all[f].samples)
SamplesOf(all) == UNION {{all[f].samples[s] : s \in DOMAIN all[f].samples} : f \in DOMAIN all}

\* A sequence with one more element.
LEMMA AppendIs ==
  ASSUME NEW s, IsSeq(s), NEW e
  PROVE  /\ IsSeq(Append(s, e)) /\ Len(Append(s, e)) = Len(s) + 1
         /\ DOMAIN s = 1..Len(s) /\ DOMAIN Append(s, e) = 1..(Len(s) + 1)
         /\ \A i \in 1..Len(s) : Append(s, e)[i] = s[i]
         /\ Append(s, e)[Len(s) + 1] = e
<1> DEFINE n == Len(s)
           S == {s[i] : i \in 1..n} \cup {e}
           after == Append(s, e)
<1>1. n \in Nat /\ s = [i \in 1..n |-> s[i]]
  BY DEF IsSeq
<1>2. s \in Seq(S) /\ e \in S
  <2>1. \A i \in 1..n : s[i] \in S
    OBVIOUS
  <2>2. e \in S
    OBVIOUS
  <2> HIDE DEF S, n
  <2> QED
    BY <1>1, <2>1, <2>2
<1> HIDE DEF S, n
<1>3. /\ after \in Seq(S) /\ Len(after) = Len(s) + 1
      /\ \A i \in 1..Len(s) : after[i] = s[i]
      /\ after[Len(s) + 1] = e
  BY <1>2, AppendProperties
<1> HIDE DEF after
<1>4. IsSeq(after) /\ DOMAIN after = 1..(Len(s) + 1) /\ DOMAIN s = 1..Len(s)
  BY <1>1, <1>2, <1>3 DEF IsSeq, n
<1> QED
  BY <1>3, <1>4 DEF after

\* A sample goes to the field of its keyword, or begins one.
LEMMA SamplesAre ==
  ASSUME FieldsAre(fields), NEW record, NEW sample
  PROVE  /\ FieldsAre(WithSample(record, sample))
         /\ SamplesOf(WithSample(record, sample)) \subseteq SamplesOf(fields) \cup {sample}
         /\ FieldsAre(Append(fields, NewField(record, <<sample>>)))
         /\ SamplesOf(Append(fields, NewField(record, <<sample>>))) \subseteq SamplesOf(fields) \cup {sample}
<1>1. IsSeq(fields) /\ \A f \in DOMAIN fields : IsSeq(fields[f].samples)
  BY DEF FieldsAre
<1> DEFINE new == NewField(record, <<sample>>)
           more == Append(fields, new)
           n == Len(fields)
<1>2. /\ IsSeq(more) /\ DOMAIN fields = 1..n /\ DOMAIN more = 1..(n + 1) /\ n \in Nat
      /\ \A i \in 1..n : more[i] = fields[i]
      /\ more[n + 1] = new
  BY <1>1, AppendIs DEF IsSeq
<1>3. new.samples = <<sample>>
  BY DEF NewField
<1>4. IsSeq(<<sample>>) /\ DOMAIN <<sample>> = {1} /\ <<sample>>[1] = sample
  BY DEF IsSeq
<1> HIDE DEF new, more, n
<1>5. FieldsAre(more) /\ SamplesOf(more) \subseteq SamplesOf(fields) \cup {sample}
  <2>1. ASSUME NEW f \in DOMAIN more
        PROVE  /\ IsSeq(more[f].samples)
               /\ {more[f].samples[s] : s \in DOMAIN more[f].samples} \subseteq SamplesOf(fields) \cup {sample}
    <3>1. CASE f \in DOMAIN fields
      BY <1>1, <1>2, <3>1 DEF SamplesOf
    <3>2. CASE f = n + 1
      BY <1>2, <1>3, <1>4, <3>2
    <3> QED
      BY <1>2, <3>1, <3>2
  <2> QED
    BY <1>2, <2>1 DEF FieldsAre, SamplesOf
<1> DEFINE grown == [f \in DOMAIN fields |->
                      IF fields[f].keyword = record.keyword
                      THEN [fields[f] EXCEPT !.samples = Append(@, sample)] ELSE fields[f]]
<1>6. FieldsAre(grown) /\ SamplesOf(grown) \subseteq SamplesOf(fields) \cup {sample}
  <2>1. ASSUME NEW f \in DOMAIN fields
        PROVE  /\ IsSeq(grown[f].samples)
               /\ {grown[f].samples[s] : s \in DOMAIN grown[f].samples} \subseteq SamplesOf(fields) \cup {sample}
    <3>1. CASE grown[f] = fields[f]
      <4> HIDE DEF grown
      <4> QED
        BY <1>1, <3>1 DEF SamplesOf
    <3>2. CASE grown[f] = [fields[f] EXCEPT !.samples = Append(@, sample)]
      <4> DEFINE old == fields[f].samples now == grown[f].samples k == Len(old)
      <4>1. grown[f].samples = old \/ grown[f].samples = Append(old, sample)
        BY <3>2
      <4>2. CASE grown[f].samples = old
        BY <1>1, <4>2 DEF SamplesOf
      <4>3. CASE grown[f].samples = Append(old, sample)
        <5>1. IsSeq(old)
          BY <1>1
        <5> HIDE DEF old, grown
        <5>2. /\ IsSeq(Append(old, sample)) /\ k \in Nat
              /\ DOMAIN old = 1..k /\ DOMAIN Append(old, sample) = 1..(k + 1)
              /\ \A s \in 1..k : Append(old, sample)[s] = old[s]
              /\ Append(old, sample)[k + 1] = sample
          BY <5>1, AppendIs DEF IsSeq
        <5> HIDE DEF k
        <5>3. \A s \in 1..(k + 1) : s \in 1..k \/ s = k + 1
          BY <5>2
        <5>4. \A s \in DOMAIN old : old[s] \in SamplesOf(fields)
          BY DEF SamplesOf, old
        <5>5. \A s \in 1..(k + 1) : Append(old, sample)[s] \in SamplesOf(fields) \cup {sample}
          BY <5>2, <5>3, <5>4
        <5> QED
          BY <4>3, <5>2, <5>5
      <4> QED
        BY <4>1, <4>2, <4>3
    <3> QED
      BY <3>1, <3>2
  <2>2. IsSeq(grown) /\ DOMAIN grown = DOMAIN fields
    <3>1. DOMAIN grown = DOMAIN fields /\ grown = [f \in DOMAIN fields |-> grown[f]]
      OBVIOUS
    <3> HIDE DEF grown
    <3> QED
      BY <1>2, <3>1 DEF IsSeq
  <2> HIDE DEF grown
  <2> QED
    BY <2>1, <2>2 DEF FieldsAre, SamplesOf
<1>7. WithSample(record, sample) = IF HasField(record.keyword) THEN grown ELSE more
  BY DEF WithSample, more, new
<1> HIDE DEF grown
<1> QED
  BY <1>5, <1>6, <1>7 DEF more, new

\* Fields have samples of indexed records, and there are none before parsing.
FieldInv ==
  /\ FieldsAre(fields) /\ next \in Nat \ {0}
  /\ Kind = "EGRID" \/ phase \in {"closed", "indexing"} => fields = <<>>
  /\ \A sample \in SamplesOf(fields) : sample.record \in 1..Len(records)

\* A grid is made of the first records with its keywords.
GridInv ==
  grid # None =>
    /\ Kind = "EGRID" /\ phase = "read"
    /\ grid.coord = FindFirst("COORD") /\ grid.coord # None
    /\ grid.zcorn = FindFirst("ZCORN") /\ grid.zcorn # None
    /\ grid.actnum = FindFirst("ACTNUM")

\* Nothing is loaded before all is read.
ArrayInv == phase # "read" => loaded = None

LoadInv == FieldInv /\ GridInv /\ ArrayInv /\ LoadedIsStored

\* A field is written to while its record is parsed.
LEMMA FieldsStay ==
  ASSUME [Next]_vars
  PROVE  \/ /\ fields' = fields
            /\ next' = next \/ next' = next + 1
         \/ /\ Kind # "EGRID" /\ phase = "parsing" /\ phase' = "parsing" /\ next <= Len(records)
            /\ next' = next + 1
            /\ \E time : \/ fields' = WithSample(Record, Sample(time))
                         \/ fields' = Append(fields, NewField(Record, <<Sample(time)>>))
<1>1. ASSUME Flush \/ OpenFile \/ ReadHeader \/ ReadChunk \/ EndRecord \/ EndOfFile
      PROVE  fields' = fields /\ next' = next
  BY <1>1 DEF Flush, OpenFile, ReadHeader, ReadChunk, EndRecord, EndOfFile, infoVars
<1>2. ASSUME ParseEgrid \/ ParseInit \/ Register
      PROVE  fields' = fields /\ next' = next
  BY <1>2 DEF ParseEgrid, ParseInit, Register, infoVars
<1>3. ASSUME Seqnum \/ Intehead \/ Doubhead
      PROVE  fields' = fields /\ (next' = next \/ next' = next + 1)
  BY <1>3 DEF Seqnum, Intehead, Doubhead
<1>4. ASSUME InitRecord
      PROVE  /\ next' = next + 1
             /\ \/ fields' = fields
                \/ /\ Kind # "EGRID" /\ phase = "parsing" /\ phase' = "parsing" /\ next <= Len(records)
                   /\ fields' = Append(fields, NewField(Record, <<Sample(0)>>))
  BY <1>4 DEF InitRecord
<1>5. ASSUME OtherRecord
      PROVE  /\ next' = next + 1
             /\ \/ fields' = fields
                \/ /\ Kind # "EGRID" /\ phase = "parsing" /\ phase' = "parsing" /\ next <= Len(records)
                   /\ fields' = WithSample(Record, Sample(ResolveSampleTime(StepNow)))
  BY <1>5 DEF OtherRecord
<1>6. ASSUME \/ \E array \in {"COORD", "ZCORN", "ACTNUM", "logicalCellToActiveCell"} :
                  LoadGridArray(array)
             \/ \E f \in DOMAIN fields : \E s \in DOMAIN fields[f].samples : LoadSample(f, s)
             \/ UNCHANGED vars
      PROVE  fields' = fields /\ next' = next
  BY <1>6 DEF vars, infoVars, LoadGridArray, LoadSample
<1> QED
  BY <1>1, <1>2, <1>3, <1>4, <1>5, <1>6 DEF Next

\* The samples of the fields stay records that are indexed.
LEMMA FieldsKept ==
  ASSUME BinaryTypes, WalkInv, WalkInv', FieldInv, [Next]_vars
  PROVE  FieldInv'
<1>1. file' = file /\ Kind' = Kind
  BY DiskGrows DEF Kind
<1>2. Len(records) \in Nat /\ Len(records)' \in Nat
  BY DEF WalkInv
<1>3. next \in Nat /\ next >= 1 /\ FieldsAre(fields)
  BY DEF FieldInv
<1>4. CASE EndRecord
  <2>1. fields' = fields /\ next' = next /\ phase = "indexing"
    BY <1>4 DEF EndRecord, infoVars
  <2>2. fields = <<>> /\ SamplesOf(fields) = {}
    BY <2>1 DEF FieldInv, SamplesOf
  <2> QED
    BY <1>3, <2>1, <2>2 DEF FieldInv
<1>5. CASE records' = records /\ (phase' \in {"closed", "indexing"} => phase \in {"closed", "indexing"})
  <2>1. CASE fields' = fields /\ (next' = next \/ next' = next + 1)
    BY <1>1, <1>3, <1>5, <2>1 DEF FieldInv
  <2>2. CASE /\ Kind # "EGRID" /\ phase = "parsing" /\ phase' = "parsing" /\ next <= Len(records)
             /\ next' = next + 1
             /\ \E time : \/ fields' = WithSample(Record, Sample(time))
                          \/ fields' = Append(fields, NewField(Record, <<Sample(time)>>))
    <3>1. PICK time : \/ fields' = WithSample(Record, Sample(time))
                      \/ fields' = Append(fields, NewField(Record, <<Sample(time)>>))
      BY <2>2
    <3>2. FieldsAre(fields') /\ SamplesOf(fields') \subseteq SamplesOf(fields) \cup {Sample(time)}
      <4> DEFINE record == Record sample == Sample(time)
      <4>1. \/ fields' = WithSample(record, sample)
            \/ fields' = Append(fields, NewField(record, <<sample>>))
        BY <3>1
      <4> HIDE DEF record, sample
      <4>2. /\ FieldsAre(WithSample(record, sample))
            /\ SamplesOf(WithSample(record, sample)) \subseteq SamplesOf(fields) \cup {sample}
            /\ FieldsAre(Append(fields, NewField(record, <<sample>>)))
            /\ SamplesOf(Append(fields, NewField(record, <<sample>>)))
                 \subseteq SamplesOf(fields) \cup {sample}
        BY <1>3, SamplesAre
      <4>3. FieldsAre(fields') /\ SamplesOf(fields') \subseteq SamplesOf(fields) \cup {sample}
        BY <4>1, <4>2
      <4> QED
        BY <4>3 DEF sample
    <3>3. Sample(time).record = next /\ next \in 1..Len(records)
      BY <1>2, <1>3, <2>2 DEF Sample
    <3>4. \A sample \in SamplesOf(fields') : sample.record \in 1..Len(records)
      BY <3>2, <3>3 DEF FieldInv
    <3>5. next' \in Nat \ {0}
      BY <1>3, <2>2
    <3>6. Kind' # "EGRID" /\ phase' = "parsing" /\ records' = records
      BY <1>1, <1>5, <2>2
    <3> QED
      BY <3>2, <3>4, <3>5, <3>6 DEF FieldInv
  <2> QED
    BY <2>1, <2>2, FieldsStay
<1> QED
  BY <1>4, <1>5, RecordsStay

\* What is read once stays read, and a grid comes with it.
LEMMA GridsStay ==
  ASSUME [Next]_vars
  PROVE  /\ phase = "read" => phase' = "read" /\ fields' = fields /\ records' = records
         /\ \/ grid' = grid
            \/ /\ Kind = "EGRID" /\ phase' = "read" /\ records' = records
               /\ grid'.coord = FindFirst("COORD") /\ grid'.coord # None
               /\ grid'.zcorn = FindFirst("ZCORN") /\ grid'.zcorn # None
               /\ grid'.actnum = FindFirst("ACTNUM")
         /\ \/ loaded' = loaded
            \/ \E array \in {"COORD", "ZCORN", "ACTNUM", "logicalCellToActiveCell"} :
                 LoadGridArray(array)
            \/ \E f \in DOMAIN fields : \E s \in DOMAIN fields[f].samples : LoadSample(f, s)
<1> DEFINE still == /\ phase = "read" => phase' = "read" /\ fields' = fields /\ records' = records
                    /\ grid' = grid
<1>1. ASSUME Flush \/ OpenFile \/ ReadHeader \/ ReadChunk \/ EndRecord \/ EndOfFile
      PROVE  still /\ loaded' = loaded
  BY <1>1 DEF Flush, OpenFile, ReadHeader, ReadChunk, EndRecord, EndOfFile, infoVars, indexVars
<1>2. ASSUME ParseInit \/ InitRecord \/ Register
      PROVE  still /\ loaded' = loaded
  BY <1>2 DEF ParseInit, InitRecord, Register, infoVars, indexVars
<1>3. ASSUME Seqnum \/ Intehead \/ Doubhead \/ OtherRecord
      PROVE  still /\ loaded' = loaded
  BY <1>3 DEF Seqnum, Intehead, Doubhead, OtherRecord, AtUnrstRecord, indexVars
<1>4. ASSUME ParseEgrid
      PROVE  /\ phase # "read" /\ loaded' = loaded
             /\ \/ grid' = grid
                \/ /\ Kind = "EGRID" /\ phase' = "read" /\ records' = records
                   /\ grid'.coord = FindFirst("COORD") /\ grid'.coord # None
                   /\ grid'.zcorn = FindFirst("ZCORN") /\ grid'.zcorn # None
                   /\ grid'.actnum = FindFirst("ACTNUM")
  BY <1>4 DEF ParseEgrid, indexVars
<1>5. ASSUME NEW array \in {"COORD", "ZCORN", "ACTNUM", "logicalCellToActiveCell"},
             LoadGridArray(array)
      PROVE  still
  BY <1>5 DEF LoadGridArray, infoVars, indexVars
<1>6. ASSUME NEW f \in DOMAIN fields, NEW s \in DOMAIN fields[f].samples, LoadSample(f, s)
      PROVE  still
  BY <1>6 DEF LoadSample, infoVars, indexVars
<1>7. ASSUME UNCHANGED vars
      PROVE  still /\ loaded' = loaded
  BY <1>7 DEF vars, infoVars, indexVars
<1> QED
  BY <1>1, <1>2, <1>3, <1>4, <1>5, <1>6, <1>7 DEF Next

\* A grid keeps the records it was made of.
LEMMA GridKept ==
  ASSUME BinaryTypes, GridInv, [Next]_vars
  PROVE  GridInv'
<1>1. Kind' = Kind
  BY DiskGrows DEF Kind
<1>2. CASE grid' = grid
  <2>1. SUFFICES ASSUME grid # None
                 PROVE  GridInv'
    BY <1>2 DEF GridInv
  <2>2. records' = records /\ phase' = "read"
    BY <2>1, GridsStay DEF GridInv
  <2>3. \A keyword : FindFirst(keyword)' = FindFirst(keyword)
    BY <2>2 DEF FindFirst
  <2> QED
    BY <1>1, <1>2, <2>1, <2>2, <2>3 DEF GridInv
<1>3. CASE grid' # grid
  <2>1. /\ Kind = "EGRID" /\ phase' = "read" /\ records' = records
        /\ grid'.coord = FindFirst("COORD") /\ grid'.coord # None
        /\ grid'.zcorn = FindFirst("ZCORN") /\ grid'.zcorn # None
        /\ grid'.actnum = FindFirst("ACTNUM")
    BY <1>3, GridsStay
  <2>2. \A keyword : FindFirst(keyword)' = FindFirst(keyword)
    BY <2>1 DEF FindFirst
  <2> QED
    BY <1>1, <2>1, <2>2 DEF GridInv
<1> QED
  BY <1>2, <1>3

\* What is loaded of a grid is its first item with the keyword.
LEMMA GridArrayIsStored ==
  ASSUME BinaryTypes, WalkInv, GridInv,
         NEW array \in {"COORD", "ZCORN", "ACTNUM", "logicalCellToActiveCell"},
         LoadGridArray(array)
  PROVE  LoadedIsStored'
<1> DEFINE first(keyword) == CHOOSE i \in DOMAIN Items :
                               /\ Items[i].keyword = keyword
                               /\ \A j \in 1..(i - 1) : Items[j].keyword # keyword
           stored(keyword) == Items[first(keyword)]
           value == loaded'.value
<1>1. /\ grid # None /\ Kind = "EGRID" /\ phase = "read" /\ file' = file
      /\ grid.coord = FindFirst("COORD") /\ grid.coord # None
      /\ grid.zcorn = FindFirst("ZCORN") /\ grid.zcorn # None
      /\ grid.actnum = FindFirst("ACTNUM")
  BY DEF LoadGridArray, GridInv, fileVars
<1>2. ASSUME NEW keyword, FindFirst(keyword) # None
      PROVE  /\ first(keyword) \in 1..Len(Items) /\ IsWholeOnDisk(first(keyword))
             /\ IsInOrder(Items[first(keyword)])
             /\ FindFirst(keyword) = RecordOf(first(keyword))
  BY <1>2, FirstIs
<1> HIDE DEF first
<1>3. ASSUME NEW keyword, FindFirst(keyword) # None
      PROVE  /\ LoadIntArray(FindFirst(keyword)) \in {ItemValues(stored(keyword)), Error}
             /\ LoadIntArray(FindFirst(keyword)) = Error <=> DoesNotLoad(stored(keyword), TRUE)
             /\ LoadDoubleArray(FindFirst(keyword)) \in {ItemValues(stored(keyword)), Error}
             /\ LoadDoubleArray(FindFirst(keyword)) = Error <=> DoesNotLoad(stored(keyword), FALSE)
             /\ ItemValues(stored(keyword)) \in Seq(Int)
  BY <1>2, <1>3, ArraysLoad
<1> HIDE DEF stored
<1>4. \/ array = "COORD" /\ Loaded(array, 1, LoadDoubleArray(grid.coord))
      \/ array = "ZCORN" /\ Loaded(array, 1, LoadDoubleArray(grid.zcorn))
      \/ grid.actnum # None /\ array = "ACTNUM" /\ Loaded(array, 1, LoadIntArray(grid.actnum))
      \/ /\ grid.actnum # None /\ array = "logicalCellToActiveCell"
         /\ Loaded(array, 1, IF LoadIntArray(grid.actnum) = Error THEN Error
                             ELSE BuildLogicalCellToActiveCellArray(LoadIntArray(grid.actnum)))
  BY DEF LoadGridArray
<1>5. array # "logicalCellToActiveCell" =>
        loaded'.array = array /\ IsStored(value, stored(array), array = "ACTNUM")
  <2>1. CASE array = "COORD" /\ Loaded(array, 1, LoadDoubleArray(grid.coord))
    BY <1>1, <1>3, <2>1 DEF Loaded, IsStored
  <2>2. CASE array = "ZCORN" /\ Loaded(array, 1, LoadDoubleArray(grid.zcorn))
    BY <1>1, <1>3, <2>2 DEF Loaded, IsStored
  <2>3. CASE grid.actnum # None /\ array = "ACTNUM" /\ Loaded(array, 1, LoadIntArray(grid.actnum))
    BY <1>1, <1>3, <2>3 DEF Loaded, IsStored
  <2> QED
    BY <1>4, <2>1, <2>2, <2>3
<1>6. array = "logicalCellToActiveCell" =>
        /\ loaded'.array = array
        /\ IF value = Error THEN DoesNotLoad(stored("ACTNUM"), TRUE)
           ELSE NumbersActiveCells(value, ItemValues(stored("ACTNUM")))
  <2>1. SUFFICES ASSUME array = "logicalCellToActiveCell"
                 PROVE  /\ loaded'.array = array
                        /\ IF value = Error THEN DoesNotLoad(stored("ACTNUM"), TRUE)
                           ELSE NumbersActiveCells(value, ItemValues(stored("ACTNUM")))
    OBVIOUS
  <2> DEFINE actnum == LoadIntArray(grid.actnum)
             map == BuildLogicalCellToActiveCellArray(actnum)
  <2>2. /\ actnum \in {ItemValues(stored("ACTNUM")), Error}
        /\ actnum = Error <=> DoesNotLoad(stored("ACTNUM"), TRUE)
        /\ ItemValues(stored("ACTNUM")) \in Seq(Int)
        /\ loaded'.array = array /\ value = IF actnum = Error THEN Error ELSE map
    <3>1. grid.actnum # None /\ Loaded(array, 1, IF actnum = Error THEN Error ELSE map)
      BY <1>4, <2>1
    <3> HIDE DEF actnum, map
    <3>2. loaded'.array = array /\ value = IF actnum = Error THEN Error ELSE map
      BY <3>1 DEF Loaded
    <3>3. grid.actnum = FindFirst("ACTNUM") /\ FindFirst("ACTNUM") # None
      BY <1>1, <3>1
    <3>4. /\ actnum \in {ItemValues(stored("ACTNUM")), Error}
          /\ actnum = Error <=> DoesNotLoad(stored("ACTNUM"), TRUE)
          /\ ItemValues(stored("ACTNUM")) \in Seq(Int)
      BY <1>3, <3>3 DEF actnum
    <3> QED
      BY <3>2, <3>4
  <2> HIDE DEF actnum, map
  <2>3. CASE actnum = Error
    BY <2>2, <2>3
  <2>4. CASE actnum # Error
    <3>1. actnum \in Seq(Int) /\ value = map /\ actnum = ItemValues(stored("ACTNUM"))
      BY <2>2, <2>4
    <3>2. NumbersActiveCells(map, actnum)
      BY <3>1, CellMapIs DEF map
    <3>3. map # Error
      <4> DEFINE n == Len(actnum) active == {cell \in DOMAIN map : map[cell] # -1}
      <4>1. n \in Nat /\ map = [cell \in 1..n |-> map[cell]] /\ DOMAIN map = 1..n
        BY <3>1 DEF map, BuildLogicalCellToActiveCellArray
      <4> HIDE DEF n
      <4>2. \A cell \in 1..n : map[cell] \in Int
        <5>1. {map[cell] : cell \in active} = 0..(Cardinality(active) - 1)
          BY <3>2 DEF NumbersActiveCells
        <5>2. \A cell \in 1..n : map[cell] = -1 \/ map[cell] \in 0..(Cardinality(active) - 1)
          BY <4>1, <5>1
        <5> HIDE DEF active
        <5> QED
          BY <5>2
      <4>3. map \in Seq(Int)
        BY <4>1, <4>2
      <4> QED
        BY <4>3, ConstantsAssumption
    <3> QED
      BY <2>2, <3>1, <3>2, <3>3
  <2> QED
    BY <2>3, <2>4
<1>7. Items' = Items /\ Kind' = "EGRID"
  BY <1>1 DEF Items, Kind
<1> HIDE DEF value
<1>8. IF loaded'.array # "logicalCellToActiveCell"
      THEN IsStored(value, stored(loaded'.array), loaded'.array = "ACTNUM")
      ELSE IF value = Error THEN DoesNotLoad(stored("ACTNUM"), TRUE)
      ELSE NumbersActiveCells(value, ItemValues(stored("ACTNUM")))
  BY <1>5, <1>6
<1> QED
  BY <1>7, <1>8 DEF LoadedIsStored, stored, first, value

\* What is loaded of a field is the item of the record its sample has.
LEMMA SampleIsStored ==
  ASSUME BinaryTypes, WalkInv, FieldInv,
         NEW f \in DOMAIN fields, NEW s \in DOMAIN fields[f].samples, LoadSample(f, s)
  PROVE  LoadedIsStored'
<1> DEFINE i == fields[f].samples[s].record
           integer == fields[f].integer
           value == IF integer THEN LoadIntArray(records[i]) ELSE LoadDoubleArray(records[i])
<1>1. /\ loaded' = [array |-> fields[f].keyword, sample |-> s, value |-> value]
      /\ fields' = fields /\ file' = file
  BY DEF LoadSample, Loaded, infoVars, fileVars
<1>2. i \in 1..Len(records) /\ Kind # "EGRID"
  <2>1. fields[f].samples[s] \in SamplesOf(fields)
    BY DEF SamplesOf
  <2>2. fields # <<>>
    OBVIOUS
  <2> QED
    BY <2>1, <2>2 DEF FieldInv
<1>3. /\ i \in 1..Len(Items) /\ IsWholeOnDisk(i) /\ IsInOrder(Items[i])
      /\ records[i] = RecordOf(i)
  <2>1. \A k \in 1..Len(records) : /\ k \in 1..Len(Items) /\ IsWholeOnDisk(k) /\ IsInOrder(Items[k])
                                   /\ records[k] = RecordOf(k)
    <3>1. Len(Items) \in Nat
      BY EndsAre
    <3> QED
      BY <3>1 DEF WalkInv, RecordOf
  <2> HIDE DEF i
  <2> QED
    BY <1>2, <2>1
<1> DEFINE item == Items[i]
<1> HIDE DEF i
<1>4. /\ LoadIntArray(records[i]) \in {ItemValues(item), Error}
      /\ LoadIntArray(records[i]) = Error <=> DoesNotLoad(item, TRUE)
      /\ LoadDoubleArray(records[i]) \in {ItemValues(item), Error}
      /\ LoadDoubleArray(records[i]) = Error <=> DoesNotLoad(item, FALSE)
  BY <1>3, ArraysLoad
<1> HIDE DEF item
<1>5. IsStored(value, item, integer)
  <2>1. DoesNotLoad(item, integer) <=> DoesNotLoad(item, IF integer THEN TRUE ELSE FALSE)
    BY DEF DoesNotLoad
  <2>2. CASE integer
    <3>1. /\ value = LoadIntArray(records[i])
          /\ DoesNotLoad(item, integer) <=> DoesNotLoad(item, TRUE)
      BY <2>1, <2>2
    <3> HIDE DEF value, integer
    <3> QED
      BY <1>4, <3>1 DEF IsStored
  <2>3. CASE ~integer
    <3>1. /\ value = LoadDoubleArray(records[i])
          /\ DoesNotLoad(item, integer) <=> DoesNotLoad(item, FALSE)
      BY <2>1, <2>3
    <3> HIDE DEF value, integer
    <3> QED
      BY <1>4, <3>1 DEF IsStored
  <2> QED
    BY <2>2, <2>3
<1>6. Kind' # "EGRID" /\ Items' = Items
  BY <1>1, <1>2 DEF Kind, Items
<1> HIDE DEF value
<1>7. /\ f \in DOMAIN fields' /\ fields'[f].keyword = loaded'.array /\ loaded'.sample = s
      /\ loaded'.value = value /\ fields'[f].integer = integer
      /\ Items'[fields'[f].samples[loaded'.sample].record] = item
  BY <1>1, <1>6 DEF i, item
<1>8. \E g \in DOMAIN fields' :
        /\ fields'[g].keyword = loaded'.array
        /\ IsStored(loaded'.value, Items'[fields'[g].samples[loaded'.sample].record],
                    fields'[g].integer)
  BY <1>5, <1>7
<1> QED
  BY <1>6, <1>8 DEF LoadedIsStored

\* What was loaded is what is stored, step by step.
LEMMA LoadsKept ==
  ASSUME BinaryTypes, BinaryTypes', NoItemMisleads, WalkInv, WalkInv', LoadInv, [Next]_vars
  PROVE  LoadInv'
<1>1. FieldInv'
  BY FieldsKept DEF LoadInv
<1>2. GridInv'
  BY GridKept DEF LoadInv
<1>3. ArrayInv' /\ LoadedIsStored'
  <2>1. CASE loaded' = loaded
    <3>1. CASE phase = "read"
      <4>1. fields' = fields /\ file' = file /\ phase' = "read"
        BY <3>1, GridsStay, DiskGrows
      <4>2. Items' = Items /\ Kind' = Kind
        BY <4>1 DEF Items, Kind
      <4>3. LoadedIsStored
        BY DEF LoadInv
      <4>4. NoItemMisleads'
        BY DiskGrows
      <4> QED
        BY <2>1, <4>1, <4>2, <4>3, <4>4 DEF ArrayInv, LoadedIsStored
    <3>2. CASE phase # "read"
      BY <2>1, <3>2 DEF LoadInv, ArrayInv, LoadedIsStored
    <3> QED
      BY <3>1, <3>2
  <2>2. ASSUME NEW array \in {"COORD", "ZCORN", "ACTNUM", "logicalCellToActiveCell"},
               LoadGridArray(array)
        PROVE  ArrayInv' /\ LoadedIsStored'
    <3>1. phase' = "read"
      BY <2>2 DEF LoadGridArray
    <3> QED
      BY <2>2, <3>1, GridArrayIsStored DEF LoadInv, ArrayInv
  <2>3. ASSUME NEW f \in DOMAIN fields, NEW s \in DOMAIN fields[f].samples, LoadSample(f, s)
        PROVE  ArrayInv' /\ LoadedIsStored'
    <3>1. phase' = "read"
      BY <2>3 DEF LoadSample
    <3> QED
      BY <2>3, <3>1, SampleIsStored DEF LoadInv, ArrayInv
  <2> QED
    BY <2>1, <2>2, <2>3, GridsStay
<1> QED
  BY <1>1, <1>2, <1>3 DEF LoadInv

\* A loaded array has the numbers of its own item, the first one with its keyword for a
\* grid, or the item has a chunk or a type that the loader does not take: for every file
\* whose items do not mislead, every number of chunks, and however far it grows.
THEOREM LoadedArraysAreStored == Spec => []LoadedIsStored
<1>1. Init => (NoItemMisleads => LoadInv)
  <2> SUFFICES ASSUME Init
               PROVE  LoadInv
    OBVIOUS
  <2>1. /\ phase = "closed" /\ grid = None /\ fields = <<>> /\ loaded = None /\ next = 1
    BY DEF Init
  <2>2. FieldsAre(fields) /\ SamplesOf(fields) = {}
    BY <2>1 DEF FieldsAre, IsSeq, SamplesOf
  <2> QED
    BY <2>1, <2>2 DEF LoadInv, FieldInv, GridInv, ArrayInv, LoadedIsStored
<1>2. BinaryInv /\ BinaryInv' /\ (NoItemMisleads => LoadInv) /\ [Next]_vars => (NoItemMisleads => LoadInv)'
  <2> SUFFICES ASSUME BinaryInv, BinaryInv', NoItemMisleads => LoadInv, [Next]_vars, NoItemMisleads'
               PROVE  LoadInv'
    OBVIOUS
  <2>1. BinaryTypes /\ BinaryTypes'
    BY DEF BinaryInv
  <2>2. NoItemMisleads
    BY <2>1, DiskGrows
  <2> QED
    BY <2>1, <2>2, LoadsKept DEF BinaryInv
<1>3. (NoItemMisleads => LoadInv) => LoadedIsStored
  BY DEF LoadInv, LoadedIsStored
<1> QED
  BY <1>1, <1>2, <1>3, BinaryInvariant, PTL DEF Spec

-----------------------------------------------------------------------------
(* SamplesAtTheirStep.  Of a file and a source of times that stay: the     *)
(* report step of an item, what the items up to one say of a step, and the *)
(* times that this makes.                                                  *)

StepIn(items, i) ==
  Cardinality({j \in 1..i : items[j].keyword = "SEQNUM"})
  + IF items[1].keyword = "SEQNUM" THEN 0 ELSE 1
Seen(items, k, m, keyword) == {j \in 1..m : items[j].keyword = keyword /\ StepIn(items, j) = k}
ValueOf(items, seen, else) == IF seen = {} THEN else ELSE FirstValue(items[Max(seen)])
StepAt(items, k, m) ==
  [valid |-> TRUE, sampleIndex |-> k - 1,
   reportStep |-> ValueOf(items, Seen(items, k, m, "SEQNUM"), k - 1),
   simulationDays |-> ValueOf(items, Seen(items, k, m, "DOUBHEAD"), k - 1)]
Resolve(source, s) ==
  TimeOffset + TimeScale * CASE source = "TimeStep" -> s.sampleIndex
                             [] source = "TimeValue" -> s.simulationDays
                             [] source = "IterationValue" -> s.reportStep
AreTimes(t, source, items, k, m) ==
  IsSeq(t) /\ Len(t) = k /\ \A j \in 1..k : t[j] = Resolve(source, StepAt(items, j, m))

\* The current step and the times are those of the records that were parsed, and a
\* sample has the time that its step had when it was met.
UnrstInv ==
  LET m == next - 1
      k == StepIn(Items, m)
  IN /\ options.timeSource \in {"TimeStep", "TimeValue", "IterationValue"}
     /\ next \in 1..(Len(records) + 1)
     /\ IF next = 1 THEN step = NoStep /\ times = <<>>
        ELSE step = StepAt(Items, k, m) /\ AreTimes(times, options.timeSource, Items, k, m)
     /\ \A sample \in SamplesOf(fields) :
          /\ sample.record \in 1..m
          /\ sample.time = Resolve(options.timeSource,
                             StepAt(Items, StepIn(Items, sample.record), sample.record))

\* The greatest of numbers.
LEMMA MaxIs ==
  ASSUME NEW S, S \subseteq Nat, NEW x \in S, \A y \in S : x >= y
  PROVE  Max(S) = x
<1> DEFINE Greatest(m) == m \in S /\ \A y \in S : m >= y
<1>1. Max(S) = CHOOSE m : Greatest(m)
  BY DEF Max
<1>2. Greatest(CHOOSE m : Greatest(m))
  <2> HIDE DEF Greatest
  <2>1. \E m : Greatest(m)
    BY DEF Greatest
  <2> QED
    BY <2>1
<1>3. Greatest(Max(S))
  BY <1>1, <1>2
<1>4. \A m : Greatest(m) => m = x
  OBVIOUS
<1> HIDE DEF Greatest
<1> QED
  BY <1>3, <1>4


\* The steps are numbered from 1, and each SEQNUM but the first item begins another.
LEMMA StepsAre ==
  ASSUME NEW items, Len(items) \in Nat
  PROVE  /\ \A i \in 1..Len(items) : StepIn(items, i) \in Nat \ {0}
         /\ Len(items) >= 1 => StepIn(items, 1) = 1
         /\ \A i, j \in 1..Len(items) :
              i < j => /\ StepIn(items, i) <= StepIn(items, j)
                       /\ items[j].keyword = "SEQNUM" => StepIn(items, i) < StepIn(items, j)
         /\ \A i \in 2..Len(items) :
              StepIn(items, i) = StepIn(items, i - 1)
                                 + IF items[i].keyword = "SEQNUM" THEN 1 ELSE 0
<1> DEFINE S(i) == {j \in 1..i : items[j].keyword = "SEQNUM"}
           c == IF items[1].keyword = "SEQNUM" THEN 0 ELSE 1
<1>1. \A i \in Nat : IsFiniteSet(S(i)) /\ Cardinality(S(i)) \in Nat
  <2> TAKE i \in Nat
  <2>1. IsFiniteSet(1..i)
    BY FS_Interval
  <2>2. S(i) \subseteq 1..i
    OBVIOUS
  <2> HIDE DEF S
  <2> QED
    BY <2>1, <2>2, FS_Subset, FS_CardinalityType
<1>2. \A i : StepIn(items, i) = Cardinality(S(i)) + c
  BY DEF StepIn
<1>3. c \in Nat
  OBVIOUS
<1>4. ASSUME NEW i \in 1..Len(items), NEW j \in 1..Len(items), i < j
      PROVE  /\ StepIn(items, i) <= StepIn(items, j)
             /\ items[j].keyword = "SEQNUM" => StepIn(items, i) < StepIn(items, j)
  <2>1. S(i) \subseteq S(j)
    BY <1>4
  <2>2. Cardinality(S(i)) <= Cardinality(S(j))
    BY <1>1, <2>1, FS_Subset
  <2>3. ASSUME items[j].keyword = "SEQNUM"
        PROVE  Cardinality(S(i)) < Cardinality(S(j))
    <3>1. S(i) \cup {j} \subseteq S(j) /\ j \notin S(i)
      BY <1>4, <2>1, <2>3
    <3> HIDE DEF S
    <3>2. i \in Nat /\ j \in Nat
      OBVIOUS
    <3>3. /\ Cardinality(S(i)) \in Nat /\ IsFiniteSet(S(i))
          /\ Cardinality(S(j)) \in Nat /\ IsFiniteSet(S(j))
      BY <1>1, <3>2
    <3>4. Cardinality(S(i) \cup {j}) = Cardinality(S(i)) + 1
      BY <3>1, <3>3, FS_AddElement
    <3>5. Cardinality(S(i) \cup {j}) <= Cardinality(S(j))
      BY <3>1, <3>3, FS_Subset
    <3> QED
      BY <3>3, <3>4, <3>5
  <2> HIDE DEF S, c
  <2>4. Cardinality(S(i)) \in Nat /\ Cardinality(S(j)) \in Nat
    <3>1. i \in Nat /\ j \in Nat
      OBVIOUS
    <3> QED
      BY <1>1, <3>1
  <2> QED
    BY <1>2, <1>3, <2>2, <2>3, <2>4
<1>5. ASSUME Len(items) >= 1
      PROVE  StepIn(items, 1) = 1
  <2>1. CASE items[1].keyword = "SEQNUM"
    <3>1. S(1) = {1} /\ c = 0
      BY <2>1
    <3>2. Cardinality({1}) = 1
      BY FS_Singleton
    <3> HIDE DEF S, c
    <3> QED
      BY <1>2, <3>1, <3>2
  <2>2. CASE items[1].keyword # "SEQNUM"
    <3>1. S(1) = {} /\ c = 1
      BY <2>2
    <3> QED
      BY <1>2, <3>1, FS_EmptySet
  <2> QED
    BY <2>1, <2>2
<1>6. ASSUME NEW i \in 2..Len(items)
      PROVE  StepIn(items, i) = StepIn(items, i - 1) + IF items[i].keyword = "SEQNUM" THEN 1 ELSE 0
  <2>1. Cardinality(S(i - 1)) \in Nat /\ IsFiniteSet(S(i - 1)) /\ i \notin S(i - 1)
    BY <1>1
  <2>2. CASE items[i].keyword = "SEQNUM"
    <3>1. S(i) = S(i - 1) \cup {i}
      BY <2>2
    <3>2. Cardinality(S(i)) = Cardinality(S(i - 1)) + 1
      BY <2>1, <3>1, FS_AddElement
    <3> HIDE DEF S, c
    <3> QED
      BY <1>2, <1>3, <2>1, <2>2, <3>2
  <2>3. CASE items[i].keyword # "SEQNUM"
    <3>1. S(i) = S(i - 1)
      BY <2>3
    <3> HIDE DEF S, c
    <3> QED
      BY <1>2, <1>3, <2>1, <2>3, <3>1
  <2> QED
    BY <2>2, <2>3
<1>7. \A i \in 1..Len(items) : StepIn(items, i) \in Nat \ {0}
  <2> TAKE i \in 1..Len(items)
  <2>1. StepIn(items, i) \in Nat
    <3> HIDE DEF S, c
    <3>1. i \in Nat
      OBVIOUS
    <3>2. Cardinality(S(i)) \in Nat
      BY <1>1, <3>1
    <3> QED
      BY <1>2, <1>3, <3>2
  <2>2. StepIn(items, 1) = 1 /\ (i = 1 \/ 1 < i)
    BY <1>5
  <2>3. i # 1 => StepIn(items, 1) <= StepIn(items, i)
    BY <1>4, <2>2
  <2> QED
    BY <2>1, <2>2, <2>3
<1> QED
  BY <1>4, <1>5, <1>6, <1>7

\* The last item decides for its own step, and a SEQNUM is the first of its step.
LEMMA LastDecides ==
  ASSUME NEW items, Len(items) \in Nat, NEW n \in 1..Len(items),
         NEW k, k = StepIn(items, n), NEW keyword
  PROVE  /\ items[n].keyword = keyword =>
              ValueOf(items, Seen(items, k, n, keyword), k - 1) = FirstValue(items[n])
         /\ items[n].keyword = "SEQNUM" => Seen(items, k, n - 1, keyword) = {}
<1>1. 1..(n - 1) \subseteq 1..Len(items)
  OBVIOUS
<1>2. ASSUME items[n].keyword = keyword
      PROVE  ValueOf(items, Seen(items, k, n, keyword), k - 1) = FirstValue(items[n])
  <2> DEFINE T == Seen(items, k, n, keyword)
  <2>1. n \in T /\ T \subseteq 1..n
    BY <1>2 DEF Seen
  <2> HIDE DEF T
  <2>2. T \subseteq Nat /\ \A y \in T : n >= y
    BY <2>1
  <2>3. Max(T) = n
    BY <2>1, <2>2, MaxIs
  <2>4. T # {}
    BY <2>1
  <2>5. ValueOf(items, T, k - 1) = FirstValue(items[n])
    BY <2>3, <2>4 DEF ValueOf
  <2> QED
    BY <2>5 DEF T
<1>3. ASSUME items[n].keyword = "SEQNUM"
      PROVE  Seen(items, k, n - 1, keyword) = {}
  <2>1. \A j \in 1..(n - 1) : StepIn(items, j) \in Nat /\ StepIn(items, j) < StepIn(items, n)
    BY <1>1, <1>3, StepsAre
  <2>2. StepIn(items, n) \in Nat
    BY StepsAre
  <2>3. \A j \in 1..(n - 1) : StepIn(items, j) # k
    BY <2>1, <2>2
  <2> QED
    BY <2>3 DEF Seen
<1> QED
  BY <1>2, <1>3

\* What a record of a header gives, once it loads.
LEMMA FirstsAre ==
  ASSUME BinaryTypes, WalkInv, next \in 1..Len(records)
  PROVE  /\ next \in 1..Len(Items) /\ Record.keyword = Items[next].keyword
         /\ \A values \in {LoadIntArray(Record), LoadDoubleArray(Record)} :
              values # Error =>
                (IF values = <<>> THEN 0 ELSE values[1]) = FirstValue(Items[next])
<1>1. /\ next \in 1..Len(Items) /\ IsWholeOnDisk(next) /\ IsInOrder(Items[next])
      /\ Record = RecordOf(next)
  <2>1. Len(Items) \in Nat
    BY EndsAre
  <2> QED
    BY <2>1 DEF WalkInv, RecordOf, Record
<1>2. Record.keyword = Items[next].keyword
  BY <1>1 DEF RecordOf, IndexedRecord, Items
<1> DEFINE v == ItemValues(Items[next]) item == Items[next]
<1>3. /\ LoadIntArray(Record) \in {v, Error} /\ LoadDoubleArray(Record) \in {v, Error}
      /\ v \in Seq(Int) /\ Len(v) = item.count
  BY <1>1, ArraysLoad
<1> HIDE DEF v
<1>4. v = <<>> <=> item.count = 0
  BY <1>3
<1>5. (IF v = <<>> THEN 0 ELSE v[1]) = FirstValue(item)
  BY <1>4 DEF FirstValue, v
<1> QED
  BY <1>1, <1>2, <1>3, <1>5

\* Behind the records that were parsed, the next step begins with its number from 0.
LEMMA TimesSoFar ==
  ASSUME UnrstInv, next \in 1..Len(Items), Len(Items) \in Nat,
         NEW k, k = StepIn(Items, next)
  PROVE  LET source == options.timeSource
             before == IF next = 1 THEN 0 ELSE StepIn(Items, next - 1)
         IN /\ k \in Nat \ {0} /\ before \in Nat
            /\ AreTimes(times, source, Items, before, next - 1)
            /\ before = 0 <=> next = 1
            /\ k = before + IF Items[next].keyword = "SEQNUM" \/ next = 1 THEN 1 ELSE 0
<1> DEFINE source == options.timeSource
           before == IF next = 1 THEN 0 ELSE StepIn(Items, next - 1)
<1>1. k \in Nat \ {0} /\ (next = 1 => k = 1)
  BY StepsAre
<1>2. CASE next = 1
  <2>1. times = <<>>
    BY <1>2 DEF UnrstInv
  <2>2. IsSeq(<<>>) /\ Len(<<>>) = 0
    BY DEF IsSeq
  <2> QED
    BY <1>1, <1>2, <2>1, <2>2 DEF AreTimes
<1>3. CASE next # 1
  <2>1. next \in 2..Len(Items) /\ next - 1 \in 1..Len(Items)
    BY <1>3
  <2>2. before \in Nat \ {0} /\ k = before + IF Items[next].keyword = "SEQNUM" THEN 1 ELSE 0
    BY <1>3, <2>1, StepsAre
  <2>3. AreTimes(times, source, Items, before, next - 1)
    BY <1>3 DEF UnrstInv
  <2>4. /\ k \in Nat \ {0} /\ before \in Nat /\ (before = 0 <=> next = 1)
        /\ k = before + IF Items[next].keyword = "SEQNUM" \/ next = 1 THEN 1 ELSE 0
    <3> HIDE DEF before
    <3> QED
      BY <1>1, <1>3, <2>2
  <2> QED
    BY <2>3, <2>4
<1> QED
  BY <1>2, <1>3

\* At a record that is no SEQNUM, a step is there: that of the record, from the records
\* in front of it.
LEMMA NowIs ==
  ASSUME UnrstInv, next \in 1..Len(Items), Len(Items) \in Nat, Items[next].keyword # "SEQNUM",
         NEW k, k = StepIn(Items, next)
  PROVE  /\ k \in Nat \ {0} /\ StepNow = StepAt(Items, k, next - 1)
         /\ AreTimes(TimesNow, options.timeSource, Items, k, next - 1)
<1> DEFINE source == options.timeSource
<1>1. k \in Nat \ {0}
  BY StepsAre
<1>2. CASE next = 1
  <2>1. times = <<>> /\ ~step.valid /\ k = 1
    BY <1>2, StepsAre DEF UnrstInv, NoStep
  <2>2. \A keyword : Seen(Items, 1, 0, keyword) = {}
    BY DEF Seen
  <2>3. StepAt(Items, 1, 0) = [valid |-> TRUE, sampleIndex |-> 0, reportStep |-> 0, simulationDays |-> 0]
    <3>1. 1 - 1 = 0 /\ ValueOf(Items, {}, 0) = 0
      BY DEF ValueOf
    <3> QED
      BY <2>2, <3>1 DEF StepAt
  <2>4. StepNow = StepAt(Items, 1, 0)
    BY <2>1, <2>3 DEF StepNow, NewStep
  <2>5. TimesNow = <<Resolve(source, StepAt(Items, 1, 0))>>
    <3>1. \A t : Append(<<>>, t) = <<t>>
      OBVIOUS
    <3>2. ResolveSampleTime(StepNow) = Resolve(source, StepNow)
      BY DEF ResolveSampleTime, Resolve
    <3>3. TimesNow = Append(<<>>, ResolveSampleTime(StepNow))
      BY <2>1 DEF TimesNow
    <3> QED
      BY <2>4, <3>1, <3>2, <3>3
  <2>6. \A t : /\ IsSeq(<<t>>) /\ Len(<<t>>) = 1 /\ \A j \in 1..1 : <<t>>[j] = t /\ j = 1
    BY DEF IsSeq
  <2> QED
    BY <1>1, <1>2, <2>1, <2>4, <2>5, <2>6 DEF AreTimes
<1>3. CASE next # 1
  <2>1. k = StepIn(Items, next - 1)
    BY <1>3, StepsAre
  <2>2. step = StepAt(Items, k, next - 1) /\ AreTimes(times, source, Items, k, next - 1)
    BY <1>3, <2>1 DEF UnrstInv
  <2>3. step.valid
    BY <2>2 DEF StepAt
  <2> QED
    BY <1>1, <2>2, <2>3 DEF StepNow, TimesNow
<1> QED
  BY <1>2, <1>3

\* The times up to a record stay those of the steps, when the record is of another step
\* or gives no time.
LEMMA StepsStay ==
  ASSUME NEW items, Len(items) \in Nat, NEW n \in 1..Len(items), NEW j,
         \/ j # StepIn(items, n)
         \/ items[n].keyword \notin {"SEQNUM", "DOUBHEAD"}
  PROVE  StepAt(items, j, n) = StepAt(items, j, n - 1)
<1>1. \A keyword \in {"SEQNUM", "DOUBHEAD"} :
        Seen(items, j, n, keyword) = Seen(items, j, n - 1, keyword)
  <2> TAKE keyword \in {"SEQNUM", "DOUBHEAD"}
  <2>1. j # StepIn(items, n) \/ items[n].keyword # keyword
    OBVIOUS
  <2>2. \A i \in 1..n : i \in 1..(n - 1) \/ i = n
    OBVIOUS
  <2>3. \A i \in 1..(n - 1) : i \in 1..n
    OBVIOUS
  <2> QED
    BY <2>1, <2>2, <2>3 DEF Seen
<1> QED
  BY <1>1 DEF StepAt

\* A record is parsed when the step and the times have what it says.
LEMMA ParsedOn ==
  ASSUME BinaryTypes, WalkInv, UnrstInv, next \in 1..Len(records),
         UNCHANGED <<file, options, records>>, next' = next + 1,
         NEW k, k = StepIn(Items, next), step' = StepAt(Items, k, next),
         AreTimes(times', options.timeSource, Items, k, next),
         \A sample \in SamplesOf(fields') :
           \/ sample \in SamplesOf(fields)
           \/ sample.record = next /\ sample.time = Resolve(options.timeSource, StepAt(Items, k, next))
  PROVE  UnrstInv'
<1>1. /\ Items' = Items /\ options'.timeSource = options.timeSource /\ Len(records') = Len(records)
      /\ next' - 1 = next /\ next' # 1 /\ next' \in 1..(Len(records) + 1) /\ next \in 1..next
      /\ Len(records) \in Nat
  BY DEF Items, WalkInv
<1>2. \A sample \in SamplesOf(fields') :
        /\ sample.record \in 1..next
        /\ sample.time = Resolve(options.timeSource,
                           StepAt(Items, StepIn(Items, sample.record), sample.record))
  <2> TAKE sample \in SamplesOf(fields')
  <2>1. CASE sample \in SamplesOf(fields)
    <3>1. /\ sample.record \in 1..(next - 1)
          /\ sample.time = Resolve(options.timeSource,
                             StepAt(Items, StepIn(Items, sample.record), sample.record))
      BY <2>1 DEF UnrstInv
    <3> QED
      BY <3>1
  <2>2. CASE sample.record = next /\ sample.time = Resolve(options.timeSource, StepAt(Items, k, next))
    BY <1>1, <2>2
  <2> QED
    BY <2>1, <2>2
<1>3. options.timeSource \in {"TimeStep", "TimeValue", "IterationValue"}
  BY DEF UnrstInv
<1> QED
  BY <1>1, <1>2, <1>3 DEF UnrstInv

\* A SEQNUM begins a step of its own: it has its number, and no days yet.
LEMMA SeqnumKeeps ==
  ASSUME BinaryTypes, WalkInv, UnrstInv, Seqnum, Record.keyword = "SEQNUM", next' = next + 1
  PROVE  UnrstInv'
<1> DEFINE source == options.timeSource
           k == StepIn(Items, next)
           values == LoadIntArray(Record)
           value == IF values = <<>> THEN 0 ELSE values[1]
<1>1. next \in 1..Len(records) /\ next \in Nat
  BY DEF Seqnum, AtUnrstRecord, UnrstInv, WalkInv
<1>2. /\ values # Error /\ step' = NewStep(value) /\ times' = Append(times, ResolveSampleTime(step'))
      /\ UNCHANGED <<file, options, records, fields>>
  BY <1>1 DEF Seqnum, fileVars, indexVars
<1>3. /\ next \in 1..Len(Items) /\ Items[next].keyword = "SEQNUM" /\ Len(Items) \in Nat
      /\ value = FirstValue(Items[next])
  BY <1>1, <1>2, FirstsAre, EndsAre
<1>4. k \in Nat \ {0} /\ AreTimes(times, source, Items, k - 1, next - 1)
  BY <1>3, TimesSoFar
<1>5. StepAt(Items, k, next) = NewStep(value)
  <2>1. ValueOf(Items, Seen(Items, k, next, "SEQNUM"), k - 1) = value
    BY <1>3, LastDecides
  <2>2. Seen(Items, k, next - 1, "DOUBHEAD") = {}
    BY <1>3, LastDecides
  <2>3. Seen(Items, k, next, "DOUBHEAD") = {}
    <3>1. \A i \in 1..next : i \in 1..(next - 1) \/ i = next
      BY <1>1
    <3> QED
      BY <1>3, <2>2, <3>1 DEF Seen
  <2>4. ValueOf(Items, {}, k - 1) = k - 1
    BY DEF ValueOf
  <2>5. Len(times) = k - 1
    BY <1>4 DEF AreTimes
  <2> HIDE DEF k, value
  <2> QED
    BY <2>1, <2>3, <2>4, <2>5 DEF StepAt, NewStep
<1>6. times' = Append(times, Resolve(source, StepAt(Items, k, next)))
  <2>1. ResolveSampleTime(step') = Resolve(source, step')
    BY DEF ResolveSampleTime, Resolve
  <2> QED
    BY <1>2, <1>5, <2>1
<1>7. AreTimes(times', source, Items, k, next)
  <2> DEFINE e == Resolve(source, StepAt(Items, k, next))
  <2>1. IsSeq(times) /\ Len(times) = k - 1
    BY <1>4 DEF AreTimes
  <2>2. /\ IsSeq(times') /\ Len(times') = Len(times) + 1
        /\ \A j \in 1..Len(times) : times'[j] = times[j]
        /\ times'[Len(times) + 1] = e
    BY <1>6, <2>1, AppendIs
  <2>3. ASSUME NEW j \in 1..k
        PROVE  times'[j] = Resolve(source, StepAt(Items, j, next))
    <3>1. CASE j = k
      BY <1>4, <2>1, <2>2, <3>1
    <3>2. CASE j # k
      <4>1. StepAt(Items, j, next) = StepAt(Items, j, next - 1)
        BY <1>3, <3>2, StepsStay
      <4>2. j \in 1..(k - 1)
        BY <1>4, <3>2
      <4>3. times[j] = Resolve(source, StepAt(Items, j, next - 1))
        BY <1>4, <4>2 DEF AreTimes
      <4> QED
        BY <2>1, <2>2, <4>1, <4>2, <4>3
    <3> QED
      BY <3>1, <3>2
  <2> HIDE DEF e, k
  <2> QED
    BY <1>4, <2>1, <2>2, <2>3 DEF AreTimes
<1> HIDE DEF k, value
<1>8. step' = StepAt(Items, k, next) /\ SamplesOf(fields') = SamplesOf(fields)
  BY <1>2, <1>5
<1> QED
  BY <1>1, <1>2, <1>7, <1>8, ParsedOn DEF k

\* A record that says nothing of the time leaves the step and the times of NowIs.
LEMMA OtherKeeps ==
  ASSUME BinaryTypes, WalkInv, UnrstInv, next \in 1..Len(records),
         Record.keyword \notin {"SEQNUM", "DOUBHEAD"},
         UNCHANGED <<file, options, records>>, next' = next + 1,
         step' = StepNow, times' = TimesNow,
         \A sample \in SamplesOf(fields') :
           \/ sample \in SamplesOf(fields)
           \/ sample = Sample(ResolveSampleTime(StepNow))
  PROVE  UnrstInv'
<1> DEFINE source == options.timeSource
<1> DEFINE k == StepIn(Items, next)
<1>1. /\ next \in 1..Len(Items) /\ Items[next].keyword \notin {"SEQNUM", "DOUBHEAD"}
      /\ Len(Items) \in Nat
  BY FirstsAre, EndsAre
<1>2. /\ k \in Nat \ {0} /\ StepNow = StepAt(Items, k, next - 1)
      /\ AreTimes(TimesNow, source, Items, k, next - 1)
  BY <1>1, NowIs
<1>3. \A j : StepAt(Items, j, next) = StepAt(Items, j, next - 1)
  BY <1>1, StepsStay
<1>4. AreTimes(times', source, Items, k, next)
  BY <1>2, <1>3 DEF AreTimes
<1>5. step' = StepAt(Items, k, next)
  BY <1>2, <1>3
<1>6. ResolveSampleTime(StepNow) = Resolve(source, StepAt(Items, k, next))
  <2>1. \A s : ResolveSampleTime(s) = Resolve(source, s)
    BY DEF ResolveSampleTime, Resolve
  <2> QED
    BY <1>2, <1>3, <2>1
<1>7. \A sample \in SamplesOf(fields') :
        \/ sample \in SamplesOf(fields)
        \/ sample.record = next /\ sample.time = Resolve(source, StepAt(Items, k, next))
  BY <1>6 DEF Sample
<1> HIDE DEF k
<1> QED
  BY <1>4, <1>5, <1>7, ParsedOn DEF k

\* A DOUBHEAD gives its days to the step, and to its time if days are the source.
LEMMA DoubheadKeeps ==
  ASSUME BinaryTypes, WalkInv, UnrstInv, Doubhead, next' = next + 1
  PROVE  UnrstInv'
<1> DEFINE source == options.timeSource
           k == StepIn(Items, next)
           values == LoadDoubleArray(Record)
           days == IF values = <<>> THEN 0 ELSE values[1]
           now == StepAt(Items, k, next - 1)
           after == StepAt(Items, k, next)
<1>1. next \in 1..Len(records) /\ next \in Nat /\ Record.keyword = "DOUBHEAD"
  BY DEF Doubhead, AtUnrstRecord, UnrstInv, WalkInv
<1>2. /\ values # Error /\ step' = [StepNow EXCEPT !.simulationDays = days]
      /\ times' = IF source = "TimeValue"
                  THEN Append(Front(TimesNow),
                              ResolveSampleTime([StepNow EXCEPT !.simulationDays = days]))
                  ELSE TimesNow
      /\ UNCHANGED <<file, options, records, fields>>
  BY <1>1 DEF Doubhead, DaysOf, fileVars, indexVars
<1>3. /\ next \in 1..Len(Items) /\ Items[next].keyword = "DOUBHEAD" /\ Len(Items) \in Nat
      /\ days = FirstValue(Items[next])
  BY <1>1, <1>2, FirstsAre, EndsAre
<1>4. k \in Nat \ {0} /\ StepNow = now /\ AreTimes(TimesNow, source, Items, k, next - 1)
  BY <1>3, NowIs
<1>5. [now EXCEPT !.simulationDays = days] = after
  <2>1. ValueOf(Items, Seen(Items, k, next, "DOUBHEAD"), k - 1) = days
    BY <1>3, LastDecides
  <2>2. Seen(Items, k, next, "SEQNUM") = Seen(Items, k, next - 1, "SEQNUM")
    <3>1. \A i \in 1..next : i \in 1..(next - 1) \/ i = next
      BY <1>1
    <3>2. \A i \in 1..(next - 1) : i \in 1..next
      BY <1>1
    <3> QED
      BY <1>3, <3>1, <3>2 DEF Seen
  <2> DEFINE r == ValueOf(Items, Seen(Items, k, next, "SEQNUM"), k - 1)
             d == ValueOf(Items, Seen(Items, k, next - 1, "DOUBHEAD"), k - 1)
             v == TRUE
  <2>3. /\ now = [valid |-> v, sampleIndex |-> k - 1, reportStep |-> r, simulationDays |-> d]
        /\ after = [valid |-> v, sampleIndex |-> k - 1, reportStep |-> r, simulationDays |-> days]
    <3> HIDE DEF k, days
    <3> QED
      BY <2>1, <2>2 DEF StepAt
  <2> HIDE DEF v, k, days
  <2>4. \A x, y, z : [[valid |-> v, sampleIndex |-> x, reportStep |-> y, simulationDays |-> z]
                      EXCEPT !.simulationDays = days]
                    = [valid |-> v, sampleIndex |-> x, reportStep |-> y, simulationDays |-> days]
    OBVIOUS
  <2> HIDE DEF now, after, r, d
  <2> QED
    BY <2>3, <2>4
<1>6. \A s : ResolveSampleTime(s) = Resolve(source, s)
  BY DEF ResolveSampleTime, Resolve
<1>7. AreTimes(times', source, Items, k, next)
  <2>1. ASSUME NEW j \in 1..k, j # k
        PROVE  TimesNow[j] = Resolve(source, StepAt(Items, j, next))
    <3>1. StepAt(Items, j, next) = StepAt(Items, j, next - 1)
      BY <1>3, <2>1, StepsStay
    <3> QED
      BY <1>4, <3>1 DEF AreTimes
  <2>2. TimesNow[k] = Resolve(source, now) /\ IsSeq(TimesNow) /\ Len(TimesNow) = k
    BY <1>4 DEF AreTimes
  <2>3. CASE source = "TimeValue"
    <3> DEFINE front == Front(TimesNow) e == Resolve(source, after)
    <3>1. times' = Append(front, e)
      BY <1>2, <1>4, <1>5, <1>6, <2>3
    <3>2. front = [j \in 1..(k - 1) |-> TimesNow[j]]
      <4> HIDE DEF k
      <4> QED
        BY <1>4, <2>2 DEF Front
    <3> HIDE DEF k, front
    <3>3. Len(front) = k - 1 /\ IsSeq(front) /\ \A j \in 1..(k - 1) : front[j] = TimesNow[j]
      BY <1>4, <3>2 DEF IsSeq
    <3>4. /\ IsSeq(times') /\ Len(times') = Len(front) + 1
          /\ \A j \in 1..Len(front) : times'[j] = front[j]
          /\ times'[Len(front) + 1] = e
      <4> HIDE DEF e
      <4> QED
        BY <3>1, <3>3, AppendIs
    <3>5. \A j \in 1..k : j = k \/ j \in 1..(k - 1)
      BY <1>4
    <3>6. \A j \in 1..k : times'[j] = Resolve(source, StepAt(Items, j, next))
      <4> TAKE j \in 1..k
      <4>1. CASE j = k
        BY <1>4, <3>3, <3>4, <4>1
      <4>2. CASE j # k
        <5>1. j \in 1..(k - 1)
          BY <3>5, <4>2
        <5>2. times'[j] = TimesNow[j]
          BY <3>3, <3>4, <5>1
        <5> QED
          BY <2>1, <4>2, <5>2
      <4> QED
        BY <4>1, <4>2
    <3> HIDE DEF e
    <3> QED
      BY <1>4, <3>3, <3>4, <3>6 DEF AreTimes
  <2>4. CASE source # "TimeValue"
    <3>1. times' = TimesNow
      BY <1>2, <2>4
    <3>2. Resolve(source, after) = Resolve(source, now)
      <4>1. source \in {"TimeStep", "IterationValue"}
        BY <2>4 DEF UnrstInv
      <4>2. Seen(Items, k, next, "SEQNUM") = Seen(Items, k, next - 1, "SEQNUM")
        <5>1. \A i \in 1..next : i \in 1..(next - 1) \/ i = next
          BY <1>1
        <5>2. \A i \in 1..(next - 1) : i \in 1..next
          BY <1>1
        <5> QED
          BY <1>3, <5>1, <5>2 DEF Seen
      <4>3. after.sampleIndex = now.sampleIndex /\ after.reportStep = now.reportStep
        <5> HIDE DEF k
        <5> QED
          BY <4>2 DEF StepAt
      <4> HIDE DEF after, now
      <4> QED
        BY <4>1, <4>3 DEF Resolve
    <3>3. \A j \in 1..k : TimesNow[j] = Resolve(source, StepAt(Items, j, next))
      BY <2>1, <2>2, <3>2
    <3> HIDE DEF k
    <3> QED
      BY <2>2, <3>1, <3>3 DEF AreTimes
  <2> QED
    BY <2>3, <2>4
<1>8. step' = after /\ SamplesOf(fields') = SamplesOf(fields)
  BY <1>2, <1>4, <1>5
<1> HIDE DEF k
<1> QED
  BY <1>1, <1>2, <1>7, <1>8, ParsedOn DEF k

\* The other steps leave the times alone, or are those above.
LEMMA TimesStay ==
  ASSUME BinaryTypes, WalkInv, UnrstInv, FieldsAre(fields), Kind = "UNRST", [Next]_vars
  PROVE  \/ /\ UNCHANGED <<options, next, step, times, fields>>
         \/ Seqnum /\ Record.keyword = "SEQNUM" /\ next' = next + 1
         \/ Doubhead /\ next' = next + 1
         \/ /\ next \in 1..Len(records) /\ Record.keyword \notin {"SEQNUM", "DOUBHEAD"}
            /\ UNCHANGED <<options, records>> /\ next' = next + 1
            /\ step' = StepNow /\ times' = TimesNow
            /\ \A sample \in SamplesOf(fields') :
                 \/ sample \in SamplesOf(fields)
                 \/ sample = Sample(ResolveSampleTime(StepNow))
<1> DEFINE still == UNCHANGED <<options, next, step, times, fields>>
<1>1. ASSUME Flush \/ OpenFile \/ ReadHeader \/ ReadChunk \/ EndRecord \/ EndOfFile
      PROVE  still
  BY <1>1 DEF Flush, OpenFile, ReadHeader, ReadChunk, EndRecord, EndOfFile, infoVars
<1>2. ASSUME ParseEgrid \/ ParseInit \/ InitRecord \/ Register
      PROVE  still
  BY <1>2 DEF ParseEgrid, ParseInit, InitRecord, Register, infoVars
<1>3. ASSUME Seqnum
      PROVE  still \/ (Record.keyword = "SEQNUM" /\ next' = next + 1)
  BY <1>3 DEF Seqnum, AtUnrstRecord
<1>4. ASSUME Doubhead
      PROVE  still \/ next' = next + 1
  BY <1>4 DEF Doubhead
<1>5. next \in Nat \ {0} /\ Len(records) \in Nat
  BY DEF UnrstInv, WalkInv
<1>6. ASSUME Intehead
      PROVE  \/ still
             \/ /\ next \in 1..Len(records) /\ Record.keyword \notin {"SEQNUM", "DOUBHEAD"}
                /\ UNCHANGED <<options, records>> /\ next' = next + 1
                /\ step' = StepNow /\ times' = TimesNow /\ fields' = fields
  BY <1>5, <1>6 DEF Intehead, AtUnrstRecord, indexVars
<1>7. ASSUME OtherRecord
      PROVE  /\ next \in 1..Len(records) /\ Record.keyword \notin {"SEQNUM", "DOUBHEAD"}
             /\ UNCHANGED <<options, records>> /\ next' = next + 1
             /\ step' = StepNow /\ times' = TimesNow
             /\ \A sample \in SamplesOf(fields') :
                  \/ sample \in SamplesOf(fields)
                  \/ sample = Sample(ResolveSampleTime(StepNow))
  <2> DEFINE record == Record new == Sample(ResolveSampleTime(StepNow))
  <2>1. /\ next \in 1..Len(records) /\ Record.keyword \notin {"SEQNUM", "DOUBHEAD"}
        /\ UNCHANGED <<options, records>> /\ next' = next + 1
        /\ step' = StepNow /\ times' = TimesNow
        /\ fields' = fields \/ fields' = WithSample(record, new)
    BY <1>5, <1>7 DEF OtherRecord, indexVars
  <2> HIDE DEF record, new
  <2>2. SamplesOf(WithSample(record, new)) \subseteq SamplesOf(fields) \cup {new}
    BY SamplesAre
  <2>3. \A sample \in SamplesOf(fields') : sample \in SamplesOf(fields) \/ sample = new
    BY <2>1, <2>2
  <2> QED
    BY <2>1, <2>3 DEF new
<1>8. ASSUME \/ \E array \in {"COORD", "ZCORN", "ACTNUM", "logicalCellToActiveCell"} :
                  LoadGridArray(array)
             \/ \E f \in DOMAIN fields : \E s \in DOMAIN fields[f].samples : LoadSample(f, s)
             \/ UNCHANGED vars
      PROVE  still
  BY <1>8 DEF vars, infoVars, LoadGridArray, LoadSample
<1> QED
  BY <1>1, <1>2, <1>3, <1>4, <1>6, <1>7, <1>8 DEF Next

\* Records are added and the times stay, or a record is parsed.
LEMMA UnrstKept ==
  ASSUME BinaryTypes, WalkInv, WalkInv', UnrstInv, FieldInv, Kind = "UNRST", [Next]_vars
  PROVE  UnrstInv'
<1>1. file' = file /\ Items' = Items
  BY DiskGrows DEF Items
<1>2. CASE UNCHANGED <<options, next, step, times, fields>>
  <2>1. Len(records) \in Nat /\ Len(records)' \in Nat /\ Len(records) <= Len(records)'
    <3>1. CASE records' = records
      BY <3>1 DEF WalkInv
    <3>2. CASE EndRecord
      <4>1. records' = Append(records, open)
        BY <3>2 DEF EndRecord
      <4>2. records = [i \in 1..Len(records) |-> records[i]] /\ Len(records) \in Nat
        BY DEF WalkInv
      <4>3. Len(Append(records, open)) = Len(records) + 1
        BY <4>2, AppendIs DEF IsSeq
      <4> QED
        BY <4>1, <4>2, <4>3
    <3> QED
      BY <3>1, <3>2, RecordsStay
  <2>2. next \in 1..(Len(records)' + 1)
    BY <2>1 DEF UnrstInv
  <2> QED
    BY <1>1, <1>2, <2>2 DEF UnrstInv
<1>3. CASE Seqnum /\ Record.keyword = "SEQNUM" /\ next' = next + 1
  BY <1>3, SeqnumKeeps
<1>4. CASE Doubhead /\ next' = next + 1
  BY <1>4, DoubheadKeeps
<1>5. CASE /\ next \in 1..Len(records) /\ Record.keyword \notin {"SEQNUM", "DOUBHEAD"}
           /\ UNCHANGED <<options, records>> /\ next' = next + 1
           /\ step' = StepNow /\ times' = TimesNow
           /\ \A sample \in SamplesOf(fields') :
                \/ sample \in SamplesOf(fields)
                \/ sample = Sample(ResolveSampleTime(StepNow))
  BY <1>1, <1>5, OtherKeeps
<1> QED
  BY <1>2, <1>3, <1>4, <1>5, TimesStay DEF FieldInv

\* What the items up to one say of its step is all there is, if the days of each step
\* come before its arrays.
LEMMA HeadersSay ==
  ASSUME BinaryTypes, options.timeSource \in {"TimeStep", "TimeValue", "IterationValue"},
         NEW i \in 1..Len(Items), \A j \in InStep(i, "DOUBHEAD") : j < i,
         NEW m \in 1..Len(Items), i <= m
  PROVE  /\ StepOf(i) = StepIn(Items, i) /\ StepIn(Items, i) \in 1..StepIn(Items, m)
         /\ Resolve(options.timeSource, StepAt(Items, StepIn(Items, i), m)) = TimeOfStep(i)
<1> DEFINE k == StepIn(Items, i) source == options.timeSource
<1>1. \A j : StepOf(j) = StepIn(Items, j)
  BY DEF StepOf, StepIn
<1>2. DOMAIN Items = 1..Len(Items) /\ Len(Items) \in Nat
  BY EndsAre
<1>3. k \in Nat \ {0} /\ StepIn(Items, m) \in Nat /\ k <= StepIn(Items, m)
  <2>1. k \in Nat \ {0} /\ StepIn(Items, m) \in Nat
    BY <1>2, StepsAre
  <2>2. i = m \/ i < m
    OBVIOUS
  <2>3. i < m => k <= StepIn(Items, m)
    BY <1>2, StepsAre
  <2> HIDE DEF k
  <2> QED
    BY <2>1, <2>2, <2>3 DEF k
<1>4. Seen(Items, k, m, "DOUBHEAD") = InStep(i, "DOUBHEAD")
  <2>1. \A j \in InStep(i, "DOUBHEAD") : j \in 1..m
    BY <1>2 DEF InStep
  <2>2. 1..m \subseteq DOMAIN Items
    BY <1>2
  <2> QED
    BY <1>1, <2>1, <2>2 DEF Seen, InStep
<1>5. Seen(Items, k, m, "SEQNUM") = InStep(i, "SEQNUM")
  <2>1. ASSUME NEW j \in InStep(i, "SEQNUM")
        PROVE  j \in 1..m
    <3>1. j \in 1..Len(Items) /\ Items[j].keyword = "SEQNUM" /\ StepIn(Items, j) = k
      BY <1>1, <1>2, <2>1 DEF InStep
    <3>2. i < j => k < StepIn(Items, j)
      BY <1>2, <3>1, StepsAre
    <3>3. ~(i < j)
      BY <1>3, <3>1, <3>2
    <3> QED
      BY <3>1, <3>3
  <2>2. 1..m \subseteq DOMAIN Items
    BY <1>2
  <2> QED
    BY <1>1, <2>1, <2>2 DEF Seen, InStep
<1>6. Resolve(source, StepAt(Items, k, m)) = TimeOfStep(i)
  <2> DEFINE days == InStep(i, "DOUBHEAD") seqnum == InStep(i, "SEQNUM")
  <2>1. StepAt(Items, k, m) = [valid |-> TRUE, sampleIndex |-> k - 1,
                               reportStep |-> LastValue(seqnum, k - 1),
                               simulationDays |-> LastValue(days, k - 1)]
    <3> HIDE DEF k
    <3> QED
      BY <1>4, <1>5 DEF StepAt, ValueOf, LastValue
  <2>2. TimeOfStep(i) = TimeOf(k - 1, days, seqnum)
    BY <1>1 DEF TimeOfStep
  <2> HIDE DEF k, days, seqnum
  <2> QED
    BY <2>1, <2>2 DEF TimeOf, Resolve
<1> QED
  BY <1>1, <1>3, <1>6

\* Every sample of a restart file is at the time of its own report step, and so are the
\* time codes: for every file, whatever gives the time, and however far it was written.
THEOREM SamplesAreAtTheirStep == Spec => []SamplesAtTheirStep
<1> DEFINE Inv == Kind = "UNRST" /\ NoItemMisleads => FieldInv /\ UnrstInv
<1>1. Init => Inv
  <2> SUFFICES ASSUME Init, Kind = "UNRST"
               PROVE  FieldInv /\ UnrstInv
    OBVIOUS
  <2>1. /\ phase = "closed" /\ fields = <<>> /\ next = 1 /\ records = <<>> /\ step = NoStep /\ times = <<>>
        /\ options.timeSource \in {"TimeStep", "TimeValue", "IterationValue"}
    BY DEF Init
  <2>2. FieldsAre(fields) /\ SamplesOf(fields) = {}
    BY <2>1 DEF FieldsAre, IsSeq, SamplesOf
  <2> QED
    BY <2>1, <2>2 DEF FieldInv, UnrstInv
<1>2. BinaryInv /\ BinaryInv' /\ Inv /\ [Next]_vars => Inv'
  <2> SUFFICES ASSUME BinaryInv, BinaryInv', Inv, [Next]_vars, Kind' = "UNRST", NoItemMisleads'
               PROVE  FieldInv' /\ UnrstInv'
    OBVIOUS
  <2>1. BinaryTypes /\ BinaryTypes'
    BY DEF BinaryInv
  <2>2. NoItemMisleads /\ Kind = "UNRST"
    BY <2>1, DiskGrows DEF Kind
  <2>3. WalkInv /\ WalkInv' /\ FieldInv /\ UnrstInv
    BY <2>2 DEF BinaryInv
  <2>4. FieldInv'
    BY <2>1, <2>3, FieldsKept
  <2> QED
    BY <2>1, <2>2, <2>3, <2>4, UnrstKept
<1>3. BinaryInv /\ Inv => SamplesAtTheirStep
  <2> SUFFICES ASSUME BinaryInv, Inv, Kind = "UNRST", HeadersFirst, NoItemMisleads,
                      NEW f \in DOMAIN fields, NEW s \in DOMAIN fields[f].samples
               PROVE  LET sample == fields[f].samples[s] IN
                      /\ sample.time = TimeOfStep(sample.record)
                      /\ sample.time = times[StepOf(sample.record)]
    BY DEF SamplesAtTheirStep
  <2> DEFINE sample == fields[f].samples[s]
             i == sample.record
             m == next - 1
             source == options.timeSource
  <2>1. BinaryTypes /\ WalkInv /\ FieldInv /\ UnrstInv
    BY DEF BinaryInv
  <2>2. sample \in SamplesOf(fields)
    BY DEF SamplesOf
  <2>3. /\ i \in 1..m /\ sample.time = Resolve(source, StepAt(Items, StepIn(Items, i), i))
        /\ source \in {"TimeStep", "TimeValue", "IterationValue"}
        /\ next \in 1..(Len(records) + 1)
    <3> HIDE DEF sample
    <3> QED
      BY <2>1, <2>2 DEF UnrstInv
  <2>4. Len(Items) \in Nat /\ Len(records) \in 0..Len(Items)
    BY <2>1, EndsAre DEF WalkInv
  <2>5. \A j \in InStep(i, "DOUBHEAD") : j < i
    BY DEF HeadersFirst
  <2>6. next # 1 /\ AreTimes(times, source, Items, StepIn(Items, m), m)
    BY <2>1, <2>3, <2>4 DEF UnrstInv
  <2> HIDE DEF sample, i, m
  <2>7. m \in 1..Len(Items) /\ i \in 1..Len(Items) /\ i <= m /\ i <= i
    BY <2>3, <2>4, <2>6 DEF m
  <2>8. /\ StepOf(i) = StepIn(Items, i) /\ StepIn(Items, i) \in 1..StepIn(Items, m)
        /\ Resolve(source, StepAt(Items, StepIn(Items, i), m)) = TimeOfStep(i)
    BY <2>1, <2>3, <2>5, <2>7, HeadersSay
  <2>9. Resolve(source, StepAt(Items, StepIn(Items, i), i)) = TimeOfStep(i)
    BY <2>1, <2>3, <2>5, <2>7, HeadersSay
  <2>10. times[StepOf(i)] = TimeOfStep(i)
    BY <2>6, <2>8 DEF AreTimes
  <2>11. sample.time = TimeOfStep(i) /\ sample.time = times[StepOf(i)]
    BY <2>3, <2>9, <2>10
  <2> QED
    BY <2>11 DEF i, sample
<1> QED
  BY <1>1, <1>2, <1>3, BinaryInvariant, PTL DEF Spec

=============================================================================
