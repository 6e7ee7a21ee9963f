--------------------------- MODULE SeriesScanProofs ---------------------------
(***************************************************************************)
(* SeriesScan is right for every set of files, whatever their numbers,     *)
(* stored times and contents, for every scale, and whatever the solver     *)
(* writes meanwhile and however often.                                     *)
(***************************************************************************)
EXTENDS SeriesScan, TLAPS, FiniteSetTheorems, FunctionTheorems, SequenceTheorems,
        WellFoundedInduction

-----------------------------------------------------------------------------
(* Samples and lists of samples.                                           *)

\* No file is listed twice.
DistinctFiles(list) ==
  \A i, j \in 1..Len(list) : list[i].file = list[j].file => i = j

\* Ordered by the numbers in the names.
InOrder(list) ==
  \A i, j \in 1..Len(list) : i < j => Number[list[i].file] <= Number[list[j].file]

SortedByTime(list) == \A i, j \in 1..Len(list) : i < j => list[i].time <= list[j].time

\* The first files of a list.
Prefix(list, k) == {list[i].file : i \in 1..k}

\* The same samples in another order.
Rearranges(s, list) ==
  /\ s \in [1..Len(list) -> {list[i] : i \in 1..Len(list)}]
  /\ {s[i] : i \in 1..Len(list)} = {list[i] : i \in 1..Len(list)}

\* The parts of a sample.
LEMMA SampleFields ==
  ASSUME NEW s \in Sample
  PROVE  /\ s.file \in Files /\ s.raw \in Int \cup {NoStamp}
         /\ s.fields \subseteq Fields /\ s.time \in Int
  BY DEF Sample

\* The members of a list of samples and their parts.
LEMMA ListOfSamples ==
  ASSUME NEW list \in Seq(Sample)
  PROVE  /\ Len(list) \in Nat /\ DOMAIN list = 1..Len(list)
         /\ list \in [1..Len(list) -> Sample]
         /\ \A i \in 1..Len(list) :
              /\ list[i] \in Sample /\ list[i].file \in Files /\ list[i].time \in Int
              /\ list[i].raw \in Int \cup {NoStamp} /\ list[i].fields \subseteq Fields
<1>1. Len(list) \in Nat /\ DOMAIN list = 1..Len(list) /\ list \in [1..Len(list) -> Sample]
  BY LenProperties
<1>2. ASSUME NEW i \in 1..Len(list)
      PROVE  /\ list[i] \in Sample /\ list[i].file \in Files /\ list[i].time \in Int
             /\ list[i].raw \in Int \cup {NoStamp} /\ list[i].fields \subseteq Fields
  BY <1>1, SampleFields
<1> QED
  BY <1>1, <1>2

\* The files of a list are those of its members.
LEMMA FilesOfMembers ==
  ASSUME NEW list, NEW f
  PROVE  f \in FilesOf(list) <=> \E i \in 1..Len(list) : list[i].file = f
  BY DEF FilesOf

\* How many numbers an interval has.
LEMMA IntervalCount ==
  ASSUME NEW n \in Nat
  PROVE  IsFiniteSet(1..n) /\ Cardinality(1..n) = n
  BY FS_Interval

\* Distinct images are as many as their arguments.
LEMMA ImageCount ==
  ASSUME NEW n \in Nat, NEW Im, NEW g \in [1..n -> Im],
         \A a, b \in 1..n : g[a] = g[b] => a = b,
         \A x \in Im : \E a \in 1..n : g[a] = x
  PROVE  IsFiniteSet(Im) /\ Cardinality(Im) = n
<1>1. g \in Injection(1..n, Im)
  BY Fun_IsInj
<1>2. g \in Surjection(1..n, Im)
  BY Fun_IsSurj
<1>3. ExistsBijection(1..n, Im)
  BY <1>1, <1>2 DEF ExistsBijection, Bijection
<1> QED
  BY <1>3, IntervalCount, FS_Bijection

\* A list without repetition has as many files as members.
LEMMA PrefixCount ==
  ASSUME NEW list \in Seq(Sample), DistinctFiles(list), NEW k \in 0..Len(list)
  PROVE  IsFiniteSet(Prefix(list, k)) /\ Cardinality(Prefix(list, k)) = k
<1> DEFINE first == [i \in 1..k |-> list[i].file]
<1>1. Len(list) \in Nat /\ k \in Nat
  BY ListOfSamples
<1>2. first \in [1..k -> Prefix(list, k)]
  BY DEF Prefix
<1>3. \A a, b \in 1..k : first[a] = first[b] => a = b
  BY <1>1 DEF DistinctFiles
<1>4. \A f \in Prefix(list, k) : \E a \in 1..k : first[a] = f
  BY DEF Prefix
<1> HIDE DEF first
<1> QED
  BY <1>1, <1>2, <1>3, <1>4, ImageCount

\* A list names as many files as it has samples.
LEMMA FilesCount ==
  ASSUME NEW list \in Seq(Sample), DistinctFiles(list)
  PROVE  IsFiniteSet(FilesOf(list)) /\ Cardinality(FilesOf(list)) = Len(list)
<1>1. FilesOf(list) = Prefix(list, Len(list)) /\ Len(list) \in 0..Len(list)
  BY ListOfSamples DEF FilesOf, Prefix
<1> QED
  BY <1>1, PrefixCount

\* Sorting neither loses nor doubles a sample.
LEMMA Rearranged ==
  ASSUME NEW list \in Seq(Sample), DistinctFiles(list), NEW s, Rearranges(s, list)
  PROVE  /\ s \in Seq(Sample) /\ Len(s) = Len(list)
         /\ \A i \in 1..Len(list) : \E j \in 1..Len(list) : s[i] = list[j]
         /\ FilesOf(s) = FilesOf(list)
         /\ DistinctFiles(s)
<1> DEFINE n == Len(list)
           entries == {list[i] : i \in 1..n}
<1>1. n \in Nat /\ entries \subseteq Sample /\ \A i \in 1..n : list[i] \in entries
  BY ListOfSamples
<1>2. s \in [1..n -> entries] /\ {s[i] : i \in 1..n} = entries
  BY DEF Rearranges
<1>3. s \in Seq(Sample) /\ Len(s) = n
  BY <1>1, <1>2
<1>4. /\ \A i \in 1..n : \E j \in 1..n : s[i] = list[j]
      /\ \A j \in 1..n : \E i \in 1..n : s[i] = list[j]
  BY <1>1, <1>2
<1>5. FilesOf(s) = FilesOf(list)
  <2>1. ASSUME NEW f
        PROVE  f \in FilesOf(s) <=> f \in FilesOf(list)
    <3>1. f \in FilesOf(s) <=> \E i \in 1..n : s[i].file = f
      BY <1>3, FilesOfMembers
    <3>2. f \in FilesOf(list) <=> \E i \in 1..n : list[i].file = f
      BY FilesOfMembers
    <3> HIDE DEF n
    <3>3. ASSUME NEW i \in 1..n
          PROVE  (s[i].file = f => \E j \in 1..n : list[j].file = f)
      BY <1>4
    <3>4. ASSUME NEW j \in 1..n
          PROVE  (list[j].file = f => \E i \in 1..n : s[i].file = f)
      BY <1>4
    <3> QED
      BY <3>1, <3>2, <3>3, <3>4
  <2> QED
    BY <2>1
<1>6. IsFiniteSet(1..n) /\ Cardinality(1..n) = n
  BY <1>1, IntervalCount
<1>7. Cardinality(entries) = n
  <2> DEFINE g == [i \in 1..n |-> list[i]]
  <2>1. g \in [1..n -> entries] /\ \A x \in entries : \E a \in 1..n : g[a] = x
    OBVIOUS
  <2>2. \A a, b \in 1..n : g[a] = g[b] => a = b
    BY DEF DistinctFiles
  <2> HIDE DEF g, entries
  <2> QED
    BY <1>1, <2>1, <2>2, ImageCount
<1>8. s \in Surjection(1..n, entries)
  BY <1>2 DEF Surjection
<1>9. \A i, j \in 1..n : s[i] = s[j] => i = j
  <2> HIDE DEF entries, n
  <2>1. s \in Injection(1..n, entries)
    BY <1>6, <1>7, <1>8, FS_SurjSameCardinalityImpliesInj
  <2> QED
    BY <2>1, Fun_InjectionProperties
<1>10. DistinctFiles(s)
  <2> SUFFICES ASSUME NEW i \in 1..n, NEW j \in 1..n, s[i].file = s[j].file
               PROVE  i = j
    BY <1>3 DEF DistinctFiles
  <2>1. PICK a \in 1..n : s[i] = list[a]
    BY <1>4
  <2>2. PICK b \in 1..n : s[j] = list[b]
    BY <1>4
  <2>3. a = b
    BY <2>1, <2>2 DEF DistinctFiles
  <2> QED
    BY <1>9, <2>1, <2>2, <2>3
<1> QED
  BY <1>3, <1>4, <1>5, <1>10

\* Sorting by number rearranges a list into the order of the numbers.
LEMMA OrdersByNumber ==
  ASSUME NEW list \in Seq(Sample), NEW s \in Orders(list, ByNumber)
  PROVE  /\ Rearranges(s, list)
         /\ \A i, j \in 1..Len(list) : i < j => ~(Number[s[j].file] < Number[s[i].file])
  BY DEF Orders, Rearranges, ByNumber

\* The natural order of names is the order of their numbers.
LEMMA OrdersNatural ==
  ASSUME NEW list \in Seq(Sample), NEW s \in Orders(list, NaturalLess)
  PROVE  /\ Rearranges(s, list)
         /\ \A i, j \in 1..Len(list) : i < j => ~(Number[s[j].file] < Number[s[i].file])
  BY DEF Orders, Rearranges, NaturalLess, ByNumber

\* Sorting by time rearranges a list into the order of the times.
LEMMA OrdersByTime ==
  ASSUME NEW list \in Seq(Sample), NEW s \in Orders(list, ByTime)
  PROVE  /\ Rearranges(s, list)
         /\ \A i, j \in 1..Len(list) : i < j => ~(s[j].time < s[i].time)
  BY DEF Orders, Rearranges, ByTime

-----------------------------------------------------------------------------
(* Times.                                                                  *)

\* A set of natural numbers that is not empty has a least element.
LEMMA LeastElement ==
  ASSUME NEW S, S \subseteq Nat, S # {}
  PROVE  \E x \in S : \A y \in S : x <= y
<1>1. PICK x \in S : \A y \in S : ~ (<<y, x>> \in OpToRel(<, Nat))
  BY NatLessThanWellFounded, WFMin
<1>2. ASSUME NEW y \in S
      PROVE  x <= y
  <2>1. ASSUME y < x
        PROVE  FALSE
    <3>1. <<y, x>> \in {ss \in Nat \X Nat : ss[1] < ss[2]}
      BY <2>1
    <3> QED
      BY <1>1, <3>1 DEF OpToRel
  <2> QED
    BY <2>1
<1> QED
  BY <1>2

\* If no time is below the one before it, none is below any before it.
LEMMA AdjacentIsSorted ==
  ASSUME NEW list \in Seq(Sample),
         \A i \in 2..Len(list) : list[i - 1].time <= list[i].time
  PROVE  SortedByTime(list)
<1> DEFINE n == Len(list)
<1>1. n \in Nat /\ \A i \in 1..n : list[i].time \in Int
  BY ListOfSamples
<1> HIDE DEF n
<1> SUFFICES ASSUME NEW a \in 1..n, NEW b \in 1..n, a < b, ~(list[a].time <= list[b].time)
             PROVE  FALSE
  BY DEF SortedByTime, n
<1> DEFINE S == {j \in 1..n : a < j /\ ~(list[a].time <= list[j].time)}
<1>2. S \subseteq Nat /\ b \in S
  BY <1>1
<1>3. PICK j \in S : \A k \in S : j <= k
  BY <1>2, LeastElement
<1>4. j \in 2..n /\ j - 1 \in 1..n
  BY <1>1
<1>5. list[j - 1].time <= list[j].time
  BY <1>4 DEF n
<1>6. CASE j - 1 = a
  BY <1>3, <1>5, <1>6
<1>7. CASE j - 1 # a
  <2>1. j - 1 \notin S
    BY <1>1, <1>3
  <2>2. list[a].time <= list[j - 1].time
    BY <1>1, <1>3
  <2> QED
    BY <1>1, <1>3, <1>4, <1>5, <2>2
<1> QED
  BY <1>6, <1>7

\* A positive factor keeps the order of two numbers, a negative one turns it.
LEMMA ProductOrder ==
  ASSUME NEW a \in Int, NEW b \in Int, a < b, NEW k \in Int
  PROVE  /\ a * k \in Int /\ b * k \in Int
         /\ k > 0 => a * k < b * k
         /\ k < 0 => b * k < a * k
<1>1. a * k \in Int /\ b * k \in Int
  OBVIOUS
<1>2. ASSUME k > 0
      PROVE  a * k < b * k
  BY <1>2, SMT
<1>3. ASSUME k < 0
      PROVE  b * k < a * k
  BY <1>3, SMT
<1> QED
  BY <1>1

\* Sample times run with source times, or against them if the scale is below 0.
LEMMA TimeOrder ==
  ASSUME TypeOK, NEW a \in Int, NEW b \in Int
  PROVE  /\ SampleTime(a) \in Int
         /\ SampleTime(a) <= SampleTime(b) =>
              (timeScale > 0 => a <= b) /\ (timeScale < 0 => b <= a)
<1>1. timeScale \in Int /\ TimeOffset \in Int
  BY ConstantsAssumption DEF TypeOK
<1>2. SampleTime(a) = a * timeScale + TimeOffset /\ SampleTime(b) = b * timeScale + TimeOffset
  BY DEF SampleTime
<1>3. a * timeScale \in Int /\ b * timeScale \in Int
  BY <1>1
<1>4. a < b => /\ timeScale > 0 => a * timeScale < b * timeScale
               /\ timeScale < 0 => b * timeScale < a * timeScale
  BY <1>1, ProductOrder
<1>5. b < a => /\ timeScale > 0 => b * timeScale < a * timeScale
               /\ timeScale < 0 => a * timeScale < b * timeScale
  BY <1>1, ProductOrder
<1> DEFINE A == a * timeScale
           B == b * timeScale
<1>6. /\ A \in Int /\ B \in Int
      /\ SampleTime(a) = A + TimeOffset /\ SampleTime(b) = B + TimeOffset
      /\ a < b => (timeScale > 0 => A < B) /\ (timeScale < 0 => B < A)
      /\ b < a => (timeScale > 0 => B < A) /\ (timeScale < 0 => A < B)
  BY <1>2, <1>3, <1>4, <1>5
<1> HIDE DEF A, B
<1> QED
  BY <1>1, <1>6

\* With time steps as the source, times order samples as the numbers do.
StepOrder(list) ==
  timeSource = "TimeStep" =>
    \A i, j \in 1..Len(list) : list[i].time <= list[j].time =>
      FollowSteps(list[i].file, list[j].file)

\* The samples have the times of their files; a single FLASH snapshot is at 0.
HaveTheirTimes(list) ==
  \A i \in 1..Len(list) :
    IF reader = "FLASH" /\ Len(list) = 1 THEN list[i].time = 0
    ELSE \E raw \in ReferenceTimes(list[i].file) : list[i].time = SampleTime(raw)

\* A list whose samples have been given the times of raw.
Retimed(t, list, raw) ==
  /\ t \in Seq(Sample) /\ Len(t) = Len(list)
  /\ \A i \in 1..Len(list) :
       /\ t[i].file = list[i].file /\ t[i].raw = list[i].raw
       /\ t[i].fields = list[i].fields /\ t[i].time = SampleTime(raw[i])

\* Giving a list its times, and sorting it by them, loses and adds no sample.
LEMMA TimedList ==
  ASSUME TypeOK, NEW list \in Seq(Sample), NEW raw \in [1..Len(list) -> Int]
  PROVE  Retimed(Timed(list, raw), list, raw)
<1> DEFINE n == Len(list)
           t == Timed(list, raw)
<1>1. n \in Nat /\ \A i \in 1..n : list[i] \in Sample
  BY ListOfSamples
<1>2. t = [i \in 1..n |-> [list[i] EXCEPT !.time = SampleTime(raw[i])]]
  BY DEF Timed
<1> HIDE DEF t
<1>3. ASSUME NEW i \in 1..n
      PROVE  /\ t[i] \in Sample
             /\ t[i].file = list[i].file /\ t[i].raw = list[i].raw
             /\ t[i].fields = list[i].fields /\ t[i].time = SampleTime(raw[i])
  <2>1. SampleTime(raw[i]) \in Int
    BY TimeOrder
  <2>2. list[i] \in Sample /\ t[i] = [list[i] EXCEPT !.time = SampleTime(raw[i])]
    BY <1>1, <1>2
  <2> QED
    BY <2>1, <2>2 DEF Sample
<1>4. t \in [1..n -> Sample]
  BY <1>2, <1>3
<1>5. t \in Seq(Sample) /\ Len(t) = n
  BY <1>1, <1>4
<1> QED
  BY <1>3, <1>5 DEF Retimed, t

\* New times neither move nor rename a sample.
LEMMA RetimedFiles ==
  ASSUME NEW t, NEW list \in Seq(Sample), NEW raw, Retimed(t, list, raw)
  PROVE  /\ FilesOf(t) = FilesOf(list)
         /\ DistinctFiles(list) => DistinctFiles(t)
         /\ InOrder(list) => InOrder(t)
<1>1. FilesOf(t) = FilesOf(list)
  BY DEF Retimed, FilesOf
<1>2. DistinctFiles(list) => DistinctFiles(t)
  BY DEF Retimed, DistinctFiles
<1>3. InOrder(list) => InOrder(t)
  BY DEF Retimed, InOrder
<1> QED
  BY <1>1, <1>2, <1>3

ByIndex(list) ==
  [i \in 1..Len(list) |-> IF timeSource = "TimeValue" THEN list[i].raw ELSE i - 1]

ByName(list) ==
  [i \in 1..Len(list) |->
     IF timeSource = "TimeValue" THEN list[i].raw ELSE Number[list[i].file]]

\* Times by position in the list follow the steps.
LEMMA ResolvedByIndex ==
  ASSUME TypeOK, NEW list \in Seq(Sample),
         timeSource = "TimeValue" => \A i \in 1..Len(list) : list[i].raw \in Int
  PROVE  /\ Retimed(ResolveByIndex(list), list, ByIndex(list))
         /\ InOrder(list) => StepOrder(ResolveByIndex(list))
<1> DEFINE t == ResolveByIndex(list)
           n == Len(list)
<1>1. n \in Nat /\ ByIndex(list) \in [1..n -> Int]
  BY ListOfSamples DEF ByIndex
<1>2. Retimed(t, list, ByIndex(list))
  BY <1>1, TimedList DEF ResolveByIndex, ByIndex
<1>3. ASSUME InOrder(list), timeSource = "TimeStep", NEW i \in 1..n, NEW j \in 1..n,
             t[i].time <= t[j].time
      PROVE  FollowSteps(t[i].file, t[j].file)
  <2>1. t[i].file = list[i].file /\ t[j].file = list[j].file
    BY <1>2 DEF Retimed
  <2>2. t[i].time = SampleTime(i - 1) /\ t[j].time = SampleTime(j - 1)
    BY <1>2, <1>3 DEF Retimed, ByIndex
  <2>3. (timeScale > 0 => i - 1 <= j - 1) /\ (timeScale < 0 => j - 1 <= i - 1)
    <3> HIDE DEF t
    <3>1. SampleTime(i - 1) <= SampleTime(j - 1) /\ i - 1 \in Int /\ j - 1 \in Int
      BY <1>1, <1>3, <2>2
    <3> QED
      BY <3>1, TimeOrder
  <2>4. Number[list[i].file] \in Nat /\ Number[list[j].file] \in Nat
    BY ConstantsAssumption, ListOfSamples
  <2> HIDE DEF t
  <2>5. ASSUME i <= j
        PROVE  Number[list[i].file] <= Number[list[j].file]
    BY <1>1, <1>3, <2>4, <2>5 DEF InOrder
  <2>6. ASSUME j <= i
        PROVE  Number[list[j].file] <= Number[list[i].file]
    BY <1>1, <1>3, <2>4, <2>6 DEF InOrder
  <2> QED
    BY <1>1, <2>1, <2>3, <2>5, <2>6 DEF FollowSteps
<1>4. InOrder(list) => StepOrder(t)
  BY <1>2, <1>3 DEF Retimed, StepOrder
<1> QED
  BY <1>2, <1>4

\* Times by the number in the name follow the steps.
LEMMA ResolvedByNumber ==
  ASSUME TypeOK, NEW list \in Seq(Sample),
         timeSource = "TimeValue" => \A i \in 1..Len(list) : list[i].raw \in Int
  PROVE  /\ Retimed(ResolveByNumber(list), list, ByName(list))
         /\ StepOrder(ResolveByNumber(list))
<1> DEFINE t == ResolveByNumber(list)
           n == Len(list)
<1>1. /\ n \in Nat /\ ByName(list) \in [1..n -> Int]
      /\ \A i \in 1..n : Number[list[i].file] \in Nat
  BY ConstantsAssumption, ListOfSamples DEF ByName
<1>2. Retimed(t, list, ByName(list))
  BY <1>1, TimedList DEF ResolveByNumber, ByName
<1>3. ASSUME timeSource = "TimeStep", NEW i \in 1..n, NEW j \in 1..n,
             t[i].time <= t[j].time
      PROVE  FollowSteps(t[i].file, t[j].file)
  <2>1. t[i].file = list[i].file /\ t[j].file = list[j].file
    BY <1>2 DEF Retimed
  <2>2. /\ t[i].time = SampleTime(Number[list[i].file])
        /\ t[j].time = SampleTime(Number[list[j].file])
    BY <1>2, <1>3 DEF Retimed, ByName
  <2> HIDE DEF t
  <2>3. Number[list[i].file] \in Int /\ Number[list[j].file] \in Int
    BY <1>1
  <2>4. SampleTime(Number[list[i].file]) <= SampleTime(Number[list[j].file])
    BY <1>3, <2>2
  <2> QED
    BY <2>1, <2>3, <2>4, TimeOrder DEF FollowSteps
<1>4. StepOrder(t)
  BY <1>2, <1>3 DEF Retimed, StepOrder
<1> QED
  BY <1>2, <1>4

\* A sample's index is the place of its file among those that exist.
LEMMA PlaceOfIndex ==
  ASSUME NEW list \in Seq(Sample), DistinctFiles(list), InOrder(list),
         NEW series, FilesOf(list) = series, NEW i \in 1..Len(list)
  PROVE  i - 1 \in Cardinality({g \in series : Number[g] < Number[list[i].file]}) ..
                   (Cardinality({g \in series : Number[g] <= Number[list[i].file]}) - 1)
<1> DEFINE n == Len(list)
           f == list[i].file
           below == {g \in series : Number[g] < Number[f]}
           upTo == {g \in series : Number[g] <= Number[f]}
<1>1. /\ n \in Nat /\ i \in 1..n
      /\ \A j \in 1..n : list[j].file \in Files /\ Number[list[j].file] \in Nat
  BY ConstantsAssumption, ListOfSamples
<1>2. IsFiniteSet(series)
  BY FilesCount
<1>3. /\ IsFiniteSet(Prefix(list, i - 1)) /\ Cardinality(Prefix(list, i - 1)) = i - 1
      /\ IsFiniteSet(Prefix(list, i)) /\ Cardinality(Prefix(list, i)) = i
  <2>1. i - 1 \in 0..n /\ i \in 0..n
    BY <1>1
  <2> QED
    BY <2>1, PrefixCount
<1>4. below \subseteq Prefix(list, i - 1)
  <2> SUFFICES ASSUME NEW g \in series, Number[g] < Number[f]
               PROVE  g \in Prefix(list, i - 1)
    OBVIOUS
  <2>1. PICK j \in 1..n : list[j].file = g
    BY FilesOfMembers
  <2>2. ~(i <= j)
    BY <1>1, <2>1 DEF InOrder
  <2>3. j \in 1..(i - 1)
    BY <1>1, <2>2
  <2> QED
    BY <2>1, <2>3 DEF Prefix
<1>5. Prefix(list, i) \subseteq upTo
  <2> SUFFICES ASSUME NEW j \in 1..i
               PROVE  list[j].file \in series /\ Number[list[j].file] <= Number[f]
    BY DEF Prefix
  <2>1. j \in 1..n
    BY <1>1
  <2>2. list[j].file \in series
    BY <2>1, FilesOfMembers
  <2> QED
    BY <1>1, <2>2 DEF InOrder
<1>6. upTo \subseteq series /\ IsFiniteSet(upTo)
  BY <1>2, FS_Subset
<1> HIDE DEF below, upTo
<1>7. IsFiniteSet(below) /\ Cardinality(below) <= i - 1
  BY <1>3, <1>4, FS_Subset
<1>8. i <= Cardinality(upTo)
  BY <1>3, <1>5, <1>6, FS_Subset
<1>9. Cardinality(below) \in Nat /\ Cardinality(upTo) \in Nat
  BY <1>6, <1>7, FS_CardinalityType
<1>10. i - 1 \in Cardinality(below) .. (Cardinality(upTo) - 1)
  BY <1>1, <1>7, <1>8, <1>9
<1> QED
  BY <1>10 DEF below, upTo

\* What holds of the samples of a list holds of them in another order.
LEMMA RearrangedTimes ==
  ASSUME NEW list \in Seq(Sample), DistinctFiles(list), NEW s, Rearranges(s, list)
  PROVE  /\ StepOrder(list) => StepOrder(s)
         /\ HaveTheirTimes(list) => HaveTheirTimes(s)
<1>1. Len(s) = Len(list) /\ \A i \in 1..Len(list) : \E j \in 1..Len(list) : s[i] = list[j]
  BY Rearranged
<1>2. ASSUME StepOrder(list), timeSource = "TimeStep",
             NEW i \in 1..Len(s), NEW j \in 1..Len(s), s[i].time <= s[j].time
      PROVE  FollowSteps(s[i].file, s[j].file)
  <2>1. PICK a \in 1..Len(list) : s[i] = list[a]
    BY <1>1
  <2>2. PICK b \in 1..Len(list) : s[j] = list[b]
    BY <1>1
  <2> QED
    BY <1>2, <2>1, <2>2 DEF StepOrder
<1>3. ASSUME HaveTheirTimes(list)
      PROVE  HaveTheirTimes(s)
  <2> SUFFICES ASSUME NEW i \in 1..Len(s)
               PROVE  IF reader = "FLASH" /\ Len(s) = 1 THEN s[i].time = 0
                      ELSE \E raw \in ReferenceTimes(s[i].file) : s[i].time = SampleTime(raw)
    BY DEF HaveTheirTimes
  <2>1. PICK a \in 1..Len(list) : s[i] = list[a]
    BY <1>1
  <2> QED
    BY <1>1, <1>3, <2>1 DEF HaveTheirTimes
<1> QED
  BY <1>2, <1>3 DEF StepOrder

-----------------------------------------------------------------------------
(* The inductive invariant.                                                *)

\* The history says what happened to the files since the read began.
HistoryInv ==
  /\ disk \in [Files -> UNION {Contents[f] : f \in Files}]
  /\ throughout \subseteq Offered
  /\ pc # "idle" => Offered \subseteq appeared
  /\ pc # "idle" /\ undisturbed => throughout = Offered /\ appeared = Offered

\* The steps of a read and what each leaves for the next.
PhaseInv ==
  /\ pc = "idle" => samples = <<>> /\ visited = {}
  /\ pc \in {"idle", "list", "find", "fields"} => fields = {}
  /\ pc \in {"idle", "list"} => cursor = 0
  /\ pc \in {"scan", "resolve"} => reader = "FLASH"
  /\ pc = "scan" => cursor < Len(samples)
  /\ pc = "resolve" => cursor = Len(samples)
  /\ pc = "fields" /\ reader # "OpenFOAM" => chosen \in Files
  /\ pc \in {"find", "fields", "check"} => samples # <<>>
  /\ pc = "check" => reader = "OpenFOAM"
  /\ pc # "done" => DOMAIN registered = {}
  /\ pc = "done" =>
       /\ DOMAIN registered = fields
       /\ \A x \in fields :
            registered[x] \in IF reader = "FLASH" THEN {samples} ELSE RegisteredLists

\* What has been listed is accounted for.
CountInv ==
  /\ DistinctFiles(samples)
  /\ FilesOf(samples) \subseteq visited \cap appeared \cap Members
  /\ pc # "failed" => throughout \cap visited \cap Members \subseteq FilesOf(samples)
  /\ pc \notin {"idle", "list", "failed"} => throughout \cap Members \subseteq visited

\* While the directory is listed, samples have the raw times of their files, and
\* EDEM comes by its files in order.
ListInv ==
  pc = "list" /\ reader # "FLASH" =>
    /\ \A i \in 1..Len(samples) :
         /\ samples[i].raw \in Int
         /\ reader = "OpenFOAM" => samples[i].raw = Number[samples[i].file]
         /\ reader = "VTKHDF" /\ undisturbed =>
              samples[i].raw = StampOr(samples[i].file, Number[samples[i].file])
         /\ reader = "EDEM" /\ undisturbed => samples[i].raw = StampOr(samples[i].file, i - 1)
    /\ reader = "EDEM" =>
         /\ InOrder(samples)
         /\ visited \subseteq EdemFiles
         /\ \A g \in visited, f \in EdemFiles : Number[f] < Number[g] => f \in visited

\* FLASH: the snapshots scanned so far are as they are on disk; none has a time
\* before the series is resolved.
FlashInv ==
  reader = "FLASH" =>
    /\ pc \in {"list", "scan", "resolve"} =>
         \A i \in 1..Len(samples) : samples[i].time = 0
    /\ pc \in {"scan", "resolve"} =>
         /\ InOrder(samples)
         /\ undisturbed => \A i \in 1..cursor :
              /\ Readable(samples[i].file)
              /\ samples[i].raw = disk[samples[i].file].stamp
              /\ samples[i].fields = disk[samples[i].file].fields
    /\ pc \in {"register", "done"} =>
         /\ SortedByTime(samples)
         /\ DistinctTimes(samples)
         /\ undisturbed => \A i \in 1..Len(samples) :
              /\ Readable(samples[i].file)
              /\ fields = disk[samples[i].file].fields

\* Samples that have been given times have the right ones.
TimesInv ==
  pc \in {"find", "fields", "check", "register", "done"} =>
    /\ StepOrder(samples)
    /\ undisturbed => HaveTheirTimes(samples)

\* OpenFOAM: the fields chosen so far are in every directory.
FieldsInv ==
  reader = "OpenFOAM" /\ undisturbed /\ pc \in {"check", "register", "done"} =>
    \A x \in fields : PresentOnAllSamples(x)

IInv ==
  /\ TypeOK
  /\ HistoryInv
  /\ PhaseInv
  /\ CountInv
  /\ ListInv
  /\ FlashInv
  /\ TimesInv
  /\ FieldsInv

-----------------------------------------------------------------------------
(* The invariant holds in the beginning.                                   *)

\* The list without samples.
LEMMA EmptyList ==
  /\ <<>> \in Seq(Sample) /\ Len(<<>>) = 0 /\ FilesOf(<<>>) = {} /\ DOMAIN <<>> = {}
  /\ DistinctFiles(<<>>) /\ InOrder(<<>>)
  BY DEF FilesOf, DistinctFiles, InOrder

\* The invariant holds before the scan.
LEMMA InitInv == Init => IInv
<1> SUFFICES ASSUME Init
             PROVE  IInv
  OBVIOUS
<1> USE ConstantsAssumption, EmptyList
<1>1. TypeOK
  BY DEF Init, TypeOK, PCs
<1>2. HistoryInv
  BY DEF Init, HistoryInv
<1>3. PhaseInv
  BY DEF Init, PhaseInv
<1>4. CountInv
  BY DEF Init, CountInv
<1>5. ListInv /\ FlashInv /\ TimesInv /\ FieldsInv
  BY DEF Init, ListInv, FlashInv, TimesInv, FieldsInv
<1> QED
  BY <1>1, <1>2, <1>3, <1>4, <1>5 DEF IInv

-----------------------------------------------------------------------------
(* Steps of a reader that make a list.                                     *)

\* A file that can be read has a content of its type.
LEMMA ReadableSnapshot ==
  ASSUME TypeOK, NEW f \in Files, Readable(f)
  PROVE  disk[f] \in Snapshot /\ disk[f].stamp \in Int \cup {NoStamp}
         /\ disk[f].fields \subseteq Fields
  BY ConstantsAssumption DEF TypeOK, Readable, Snapshot

\* A time that is stored, or stands in for one, is a number.
LEMMA StampIsInt ==
  ASSUME TypeOK, NEW f \in Files, NEW d \in Int
  PROVE  StampOr(f, d) \in Int
  BY ReadableSnapshot DEF StampOr

\* As long as nothing is written and no option changes, reference times stay.
LEMMA SameTimes ==
  ASSUME UNCHANGED <<options, disk>>
  PROVE  /\ StepOrder(samples)' <=> StepOrder(samples')
         /\ HaveTheirTimes(samples)' <=> HaveTheirTimes(samples')
  BY DEF options, StepOrder, FollowSteps, HaveTheirTimes, ReferenceTimes, SampleTime,
     Offered, Present, WithoutStep, Members, EdemFiles, StampOr, Readable

\* When the listing has come by all files, the samples are those of the series.
LEMMA ListedIsSeries ==
  ASSUME IInv, pc = "list", throughout \cap Members \subseteq visited, undisturbed
  PROVE  FilesOf(samples) = Offered \cap Members
  BY DEF IInv, HistoryInv, CountInv

\* A listing that sorts by number.
LEMMA SortedListing ==
  ASSUME IInv, NEW s, \/ s \in Orders(samples, ByNumber)
                      \/ s \in Orders(samples, NaturalLess)
  PROVE  /\ samples \in Seq(Sample) /\ DistinctFiles(samples)
         /\ s \in Seq(Sample) /\ Len(s) = Len(samples)
         /\ FilesOf(s) = FilesOf(samples) /\ DistinctFiles(s) /\ InOrder(s)
         /\ \A i \in 1..Len(s) : \E j \in 1..Len(samples) : s[i] = samples[j]
<1>1. samples \in Seq(Sample) /\ DistinctFiles(samples)
  BY DEF IInv, TypeOK, CountInv
<1>2. /\ Rearranges(s, samples)
      /\ \A i, j \in 1..Len(samples) : i < j => ~(Number[s[j].file] < Number[s[i].file])
  BY <1>1, OrdersByNumber, OrdersNatural
<1>3. /\ s \in Seq(Sample) /\ Len(s) = Len(samples)
      /\ FilesOf(s) = FilesOf(samples) /\ DistinctFiles(s)
      /\ \A i \in 1..Len(samples) : \E j \in 1..Len(samples) : s[i] = samples[j]
  BY <1>1, <1>2, Rearranged
<1>4. \A i \in 1..Len(s) : Number[s[i].file] \in Int
  <2>1. \A i \in 1..Len(s) : s[i].file \in Files
    BY <1>3, ListOfSamples
  <2> QED
    BY <2>1, ConstantsAssumption
<1>5. InOrder(s)
  <2> SUFFICES ASSUME NEW i \in 1..Len(s), NEW j \in 1..Len(s), i < j
               PROVE  Number[s[i].file] <= Number[s[j].file]
    BY DEF InOrder
  <2>1. ~(Number[s[j].file] < Number[s[i].file])
    BY <1>2, <1>3
  <2>2. Number[s[i].file] \in Int /\ Number[s[j].file] \in Int
    BY <1>4
  <2> QED
    BY <2>1, <2>2
<1> QED
  BY <1>1, <1>3, <1>5

\* What a listing that gives times leaves.
Listed ==
  /\ samples' \in Seq(Sample) /\ Len(samples') = Len(samples)
  /\ FilesOf(samples') = FilesOf(samples) /\ DistinctFiles(samples')
  /\ StepOrder(samples')
  /\ undisturbed => HaveTheirTimes(samples')

\* The VTKHDF reader ends with a list of all files.
LEMMA VtkHdfListed ==
  ASSUME IInv, EndListVtkHdf
  PROVE  Listed
<1>1. PICK s \in Orders(samples, ByNumber) : samples' = ResolveByNumber(s)
  BY DEF EndListVtkHdf
<1>2. /\ s \in Seq(Sample) /\ Len(s) = Len(samples)
      /\ FilesOf(s) = FilesOf(samples) /\ DistinctFiles(s)
      /\ \A i \in 1..Len(s) : \E j \in 1..Len(samples) : s[i] = samples[j]
  BY SortedListing
<1>3. /\ TypeOK /\ reader = "VTKHDF"
      /\ \A j \in 1..Len(samples) :
           /\ samples[j].raw \in Int
           /\ undisturbed => samples[j].raw = StampOr(samples[j].file, Number[samples[j].file])
  BY DEF IInv, ListInv, EndListVtkHdf, EndList
<1>4. /\ Retimed(samples', s, ByName(s)) /\ StepOrder(samples')
  <2>1. \A i \in 1..Len(s) : s[i].raw \in Int
    BY <1>2, <1>3
  <2> QED
    BY <1>1, <1>2, <1>3, <2>1, ResolvedByNumber
<1>5. FilesOf(samples') = FilesOf(samples) /\ DistinctFiles(samples')
  BY <1>2, <1>4, RetimedFiles
<1>6. ASSUME undisturbed
      PROVE  HaveTheirTimes(samples')
  <2> SUFFICES ASSUME NEW i \in 1..Len(s)
               PROVE  \E raw \in ReferenceTimes(samples'[i].file) :
                        samples'[i].time = SampleTime(raw)
    BY <1>3, <1>4 DEF HaveTheirTimes, Retimed
  <2>1. samples'[i].file = s[i].file /\ samples'[i].time = SampleTime(ByName(s)[i])
    BY <1>4 DEF Retimed
  <2>2. s[i].raw = StampOr(s[i].file, Number[s[i].file])
    BY <1>2, <1>3, <1>6
  <2>3. ByName(s)[i] \in ReferenceTimes(s[i].file)
    BY <1>3, <2>2 DEF ByName, ReferenceTimes
  <2> QED
    BY <2>1, <2>3
<1> QED
  BY <1>2, <1>4, <1>5, <1>6 DEF Listed, Retimed

\* The OpenFOAM reader ends with a list of all files.
LEMMA OpenFoamListed ==
  ASSUME IInv, EndListOpenFoam
  PROVE  Listed
<1>1. PICK s \in Orders(samples, ByNumber) : samples' = ResolveByIndex(s)
  BY DEF EndListOpenFoam
<1>2. /\ s \in Seq(Sample) /\ Len(s) = Len(samples)
      /\ FilesOf(s) = FilesOf(samples) /\ DistinctFiles(s) /\ InOrder(s)
      /\ \A i \in 1..Len(s) : \E j \in 1..Len(samples) : s[i] = samples[j]
  BY SortedListing
<1>3. /\ TypeOK /\ reader = "OpenFOAM" /\ pc = "list" /\ throughout \subseteq visited
      /\ \A j \in 1..Len(samples) :
           samples[j].raw \in Int /\ samples[j].raw = Number[samples[j].file]
  BY DEF IInv, ListInv, EndListOpenFoam, EndList, ListedAll
<1>4. /\ Retimed(samples', s, ByIndex(s)) /\ StepOrder(samples')
  <2>1. \A i \in 1..Len(s) : s[i].raw \in Int
    BY <1>2, <1>3
  <2> QED
    BY <1>1, <1>2, <1>3, <2>1, ResolvedByIndex
<1>5. FilesOf(samples') = FilesOf(samples) /\ DistinctFiles(samples')
  BY <1>2, <1>4, RetimedFiles
<1>6. ASSUME undisturbed
      PROVE  HaveTheirTimes(samples')
  <2> SUFFICES ASSUME NEW i \in 1..Len(s)
               PROVE  \E raw \in ReferenceTimes(samples'[i].file) :
                        samples'[i].time = SampleTime(raw)
    BY <1>3, <1>4 DEF HaveTheirTimes, Retimed
  <2>1. samples'[i].file = s[i].file /\ samples'[i].time = SampleTime(ByIndex(s)[i])
    BY <1>4 DEF Retimed
  <2>2. s[i].raw = Number[s[i].file]
    BY <1>2, <1>3
  <2>3. FilesOf(s) = Offered \cap Members
    BY <1>2, <1>3, <1>6, ListedIsSeries
  <2>4. ByIndex(s)[i] \in ReferenceTimes(s[i].file)
    <3>1. CASE timeSource = "TimeValue"
      BY <1>3, <2>2, <3>1 DEF ByIndex, ReferenceTimes
    <3>2. CASE timeSource # "TimeValue"
      <4>1. /\ ByIndex(s)[i] = i - 1
            /\ ReferenceTimes(s[i].file) =
                 Cardinality({g \in Offered \cap Members : Number[g] < Number[s[i].file]}) ..
                 (Cardinality({g \in Offered \cap Members : Number[g] <= Number[s[i].file]}) - 1)
        BY <1>3, <3>2 DEF ByIndex, ReferenceTimes
      <4> QED
        BY <1>2, <2>3, <4>1, PlaceOfIndex
    <3> QED
      BY <3>1, <3>2
  <2> QED
    BY <2>1, <2>4
<1> QED
  BY <1>2, <1>4, <1>5, <1>6 DEF Listed, Retimed

\* The EDEM reader ends with a list of all files.
LEMMA EdemListed ==
  ASSUME IInv, EndListEdem
  PROVE  Listed
<1>1. samples' = ResolveByIndex(samples)
  BY DEF EndListEdem
<1>2. samples \in Seq(Sample) /\ DistinctFiles(samples) /\ InOrder(samples)
  BY DEF IInv, TypeOK, CountInv, ListInv, EndListEdem, EndList
<1>3. /\ TypeOK /\ reader = "EDEM" /\ pc = "list" /\ Members \subseteq visited
      /\ \A i \in 1..Len(samples) :
           /\ samples[i].raw \in Int
           /\ undisturbed => samples[i].raw = StampOr(samples[i].file, i - 1)
  BY DEF IInv, ListInv, EndListEdem, EndList, Members
<1>4. /\ Retimed(samples', samples, ByIndex(samples)) /\ StepOrder(samples')
  BY <1>1, <1>2, <1>3, ResolvedByIndex
<1>5. FilesOf(samples') = FilesOf(samples) /\ DistinctFiles(samples')
  BY <1>2, <1>4, RetimedFiles
<1>6. ASSUME undisturbed
      PROVE  HaveTheirTimes(samples')
  <2> SUFFICES ASSUME NEW i \in 1..Len(samples)
               PROVE  \E raw \in ReferenceTimes(samples'[i].file) :
                        samples'[i].time = SampleTime(raw)
    BY <1>3, <1>4 DEF HaveTheirTimes, Retimed
  <2>1. /\ samples'[i].file = samples[i].file
        /\ samples'[i].time = SampleTime(ByIndex(samples)[i])
    BY <1>4 DEF Retimed
  <2>2. samples[i].raw = StampOr(samples[i].file, i - 1)
    BY <1>3, <1>6
  <2>3. FilesOf(samples) = Offered \cap Members
    BY <1>3, <1>6, ListedIsSeries
  <2>4. ByIndex(samples)[i] \in ReferenceTimes(samples[i].file)
    BY <1>2, <1>3, <2>2, <2>3, PlaceOfIndex DEF ByIndex, ReferenceTimes
  <2> QED
    BY <2>1, <2>4
<1> QED
  BY <1>2, <1>4, <1>5, <1>6 DEF Listed, Retimed

\* A file that the listing finds joins the samples.
LEMMA FoundSample ==
  ASSUME IInv, NEW f \in Files, f \notin visited, NEW raw \in Int \cup {NoStamp},
         samples' = Append(samples, Entry(f, raw))
  PROVE  /\ samples' \in Seq(Sample) /\ Len(samples') = Len(samples) + 1
         /\ \A i \in 1..Len(samples) : samples'[i] = samples[i]
         /\ samples'[Len(samples) + 1] = Entry(f, raw)
         /\ FilesOf(samples') = FilesOf(samples) \cup {f}
         /\ DistinctFiles(samples')
<1>1. /\ samples \in Seq(Sample) /\ DistinctFiles(samples) /\ f \notin FilesOf(samples)
      /\ Len(samples) \in Nat
  BY ListOfSamples DEF IInv, TypeOK, CountInv
<1>2. Entry(f, raw) \in Sample /\ Entry(f, raw).file = f
  BY DEF Sample, Entry
<1>3. /\ samples' \in Seq(Sample) /\ Len(samples') = Len(samples) + 1
      /\ \A i \in 1..Len(samples) : samples'[i] = samples[i]
      /\ samples'[Len(samples) + 1] = Entry(f, raw)
  BY <1>1, <1>2
<1> DEFINE n == Len(samples)
           t == samples'
<1> HIDE DEF t
<1>4. \A g : (\E i \in 1..Len(t) : t[i].file = g) <=> g = f \/ \E i \in 1..n : samples[i].file = g
  <2> SUFFICES ASSUME NEW g
               PROVE  (\E i \in 1..(n + 1) : t[i].file = g)
                        <=> g = f \/ \E i \in 1..n : samples[i].file = g
    BY <1>3 DEF t
  <2>1. \A i \in 1..(n + 1) : i \in 1..n \/ i = n + 1
    BY <1>1
  <2>2. n + 1 \in 1..(n + 1) /\ \A i \in 1..n : i \in 1..(n + 1)
    BY <1>1
  <2>3. t[n + 1].file = f /\ \A i \in 1..n : t[i].file = samples[i].file
    BY <1>2 DEF t
  <2> QED
    BY <2>1, <2>3
<1>5. FilesOf(t) = FilesOf(samples) \cup {f}
  <2> SUFFICES ASSUME NEW g
               PROVE  g \in FilesOf(t) <=> g \in FilesOf(samples) \cup {f}
    OBVIOUS
  <2> QED
    BY <1>4, FilesOfMembers
<1>6. DistinctFiles(t)
  <2> SUFFICES ASSUME NEW i \in 1..(n + 1), NEW j \in 1..(n + 1), t[i].file = t[j].file
               PROVE  i = j
    BY <1>3 DEF DistinctFiles, t
  <2>1. \A k \in 1..(n + 1) : k \in 1..n \/ k = n + 1
    BY <1>1
  <2>2. t[n + 1].file = f /\ \A k \in 1..n : t[k].file = samples[k].file
    BY <1>2 DEF t
  <2>3. \A k \in 1..n : samples[k].file # f
    BY <1>1, FilesOfMembers
  <2> QED
    BY <1>1, <2>2, <2>3 DEF DistinctFiles
<1> QED
  BY <1>3, <1>5, <1>6 DEF t

\* FLASH takes up what the next snapshot holds.
LEMMA ScannedSample ==
  ASSUME IInv, ScanSnapshot, pc' # "failed"
  PROVE  /\ samples \in Seq(Sample) /\ cursor + 1 \in 1..Len(samples)
         /\ Readable(samples[cursor + 1].file)
         /\ samples' \in Seq(Sample) /\ Len(samples') = Len(samples)
         /\ cursor' = cursor + 1
         /\ \A i \in 1..Len(samples) : i # cursor + 1 => samples'[i] = samples[i]
         /\ \A i \in 1..Len(samples) :
              samples'[i].file = samples[i].file
              /\ (samples[i].time = 0 => samples'[i].time = 0)
         /\ samples'[cursor + 1].raw = disk[samples[cursor + 1].file].stamp
         /\ samples'[cursor + 1].fields = disk[samples[cursor + 1].file].fields
<1>1. /\ TypeOK /\ samples \in Seq(Sample) /\ Len(samples) \in Nat
      /\ cursor \in 0..Len(samples) /\ cursor < Len(samples)
  BY ListOfSamples DEF IInv, TypeOK, PhaseInv, ScanSnapshot
<1>2. cursor + 1 \in 1..Len(samples)
  BY <1>1
<1> DEFINE f == samples[cursor + 1].file
           s == [Entry(f, disk[f].stamp) EXCEPT !.fields = disk[f].fields]
<1>3. /\ Readable(f) /\ cursor' = cursor + 1
      /\ samples' = [samples EXCEPT ![cursor + 1] = s]
  BY DEF ScanSnapshot, Fail
<1>4. f \in Files /\ samples \in [1..Len(samples) -> Sample]
  BY <1>1, ListOfSamples
<1>5. /\ s \in Sample /\ s.file = f /\ s.time = 0
      /\ s.raw = disk[f].stamp /\ s.fields = disk[f].fields
  <2>1. disk[f].stamp \in Int \cup {NoStamp} /\ disk[f].fields \subseteq Fields
    BY <1>1, <1>3, <1>4, ReadableSnapshot
  <2> QED
    BY <1>4, <2>1 DEF Entry, Sample
<1> HIDE DEF s
<1>6. /\ samples' \in [1..Len(samples) -> Sample] /\ samples'[cursor + 1] = s
      /\ \A i \in 1..Len(samples) : i # cursor + 1 => samples'[i] = samples[i]
  BY <1>2, <1>3, <1>4, <1>5
<1>7. samples' \in Seq(Sample) /\ Len(samples') = Len(samples)
  BY <1>1, <1>6
<1> QED
  BY <1>1, <1>3, <1>5

\* What FLASH registers is sorted, has the times of its files and the fields of
\* every snapshot.
LEMMA SeriesResolved ==
  ASSUME IInv, ResolveSeries, pc' # "failed"
  PROVE  /\ Listed
         /\ SortedByTime(samples') /\ DistinctTimes(samples')
         /\ undisturbed => \A i \in 1..Len(samples') :
              /\ Readable(samples'[i].file)
              /\ fields' = disk[samples'[i].file].fields
<1> DEFINE n == Len(samples)
<1>1. /\ TypeOK /\ reader = "FLASH" /\ samples \in Seq(Sample) /\ samples # <<>>
      /\ DistinctFiles(samples) /\ InOrder(samples) /\ n \in Nat /\ cursor = n
      /\ pc = "resolve" /\ \A i \in 1..n : samples[i].time = 0
  BY ListOfSamples DEF IInv, TypeOK, PhaseInv, CountInv, FlashInv, ResolveSeries, PCs
<1>2. SeriesIsValid /\ fields' = samples[1].fields
  BY DEF ResolveSeries, Fail
<1>3. 1 \in 1..n /\ n > 0
  BY <1>1
<1>4. ASSUME undisturbed
      PROVE  \A i \in 1..n :
               /\ Readable(samples[i].file) /\ fields' = disk[samples[i].file].fields
               /\ samples[i].raw = disk[samples[i].file].stamp
  <2>1. \A i \in 1..n :
          /\ Readable(samples[i].file)
          /\ samples[i].raw = disk[samples[i].file].stamp
          /\ samples[i].fields = disk[samples[i].file].fields
    BY <1>1, <1>4 DEF IInv, FlashInv
  <2> QED
    BY <1>2, <2>1 DEF SeriesIsValid, ValidateSnapshotCompatibility
<1>5. CASE n = 1
  <2>1. samples' = samples
    BY <1>2, <1>5 DEF ResolveSeries
  <2>2. \A i \in 1..n : i = 1
    BY <1>5
  <2>3. samples[1].file \in Files /\ Number[samples[1].file] \in Int
    BY <1>1, ListOfSamples, ConstantsAssumption
  <2>4. StepOrder(samples)
    BY <2>2, <2>3 DEF StepOrder, FollowSteps
  <2>5. HaveTheirTimes(samples)
    BY <1>1, <1>5 DEF HaveTheirTimes
  <2>6. SortedByTime(samples) /\ DistinctTimes(samples)
    BY <2>2 DEF SortedByTime, DistinctTimes
  <2> QED
    BY <1>1, <1>4, <2>1, <2>4, <2>5, <2>6 DEF Listed
<1>6. CASE n # 1
  <2> DEFINE t == ResolveByIndex(samples)
  <2>1. n > 1
    BY <1>1, <1>6
  <2>2. HasTimes /\ DistinctTimes(t)
    BY <1>2, <2>1 DEF SeriesIsValid
  <2>3. timeSource = "TimeValue" => \A i \in 1..n : samples[i].raw \in Int
    BY <1>1, <2>2, ListOfSamples DEF HasTimes
  <2>4. PICK s \in Orders(t, ByTime) : samples' = s
    BY <1>2, <1>6 DEF ResolveSeries
  <2>5. Retimed(t, samples, ByIndex(samples)) /\ StepOrder(t)
    BY <1>1, <2>3, ResolvedByIndex
  <2> HIDE DEF t
  <2>6. t \in Seq(Sample) /\ Len(t) = n /\ FilesOf(t) = FilesOf(samples) /\ DistinctFiles(t)
    BY <1>1, <2>5, RetimedFiles DEF Retimed
  <2>7. Rearranges(s, t) /\ \A i, j \in 1..n : i < j => ~(s[j].time < s[i].time)
    BY <2>4, <2>6, OrdersByTime
  <2>8. /\ s \in Seq(Sample) /\ Len(s) = n
        /\ \A i \in 1..n : \E j \in 1..n : s[i] = t[j]
        /\ FilesOf(s) = FilesOf(t) /\ DistinctFiles(s)
    <3>1. /\ s \in Seq(Sample) /\ Len(s) = Len(t)
          /\ \A i \in 1..Len(t) : \E j \in 1..Len(t) : s[i] = t[j]
          /\ FilesOf(s) = FilesOf(t) /\ DistinctFiles(s)
      BY <2>6, <2>7, Rearranged
    <3> QED
      BY <2>6, <3>1
  <2>9. StepOrder(s) /\ (HaveTheirTimes(t) => HaveTheirTimes(s))
    BY <2>5, <2>6, <2>7, RearrangedTimes
  <2>10. SortedByTime(s)
    <3>1. \A i \in 1..n : s[i].time \in Int
      BY <2>8, ListOfSamples
    <3>2. ASSUME NEW i \in 1..n, NEW j \in 1..n, i < j
          PROVE  s[i].time <= s[j].time
      <4>1. ~(s[j].time < s[i].time)
        BY <2>7, <3>2
      <4>2. s[i].time \in Int /\ s[j].time \in Int
        BY <3>1
      <4> QED
        BY <4>1, <4>2
    <3> QED
      BY <2>8, <3>2 DEF SortedByTime
  <2>11. DistinctTimes(s)
    <3> SUFFICES ASSUME NEW i \in 1..n, NEW j \in 1..n, s[i].time = s[j].time
                 PROVE  i = j
      BY <2>8 DEF DistinctTimes
    <3>1. PICK a \in 1..n : s[i] = t[a]
      BY <2>8
    <3>2. PICK b \in 1..n : s[j] = t[b]
      BY <2>8
    <3>3. a = b
      <4>1. DistinctTimes(t) /\ Len(t) = n /\ t[a].time = t[b].time
        BY <2>2, <2>6, <3>1, <3>2
      <4> QED
        BY <4>1 DEF DistinctTimes
    <3>4. s[i].file = s[j].file
      BY <3>1, <3>2, <3>3
    <3>5. DistinctFiles(s) /\ Len(s) = n
      BY <2>8
    <3> QED
      BY <3>4, <3>5 DEF DistinctFiles
  <2>12. ASSUME undisturbed
         PROVE  HaveTheirTimes(t)
    <3> SUFFICES ASSUME NEW i \in 1..n
                 PROVE  \E raw \in ReferenceTimes(t[i].file) : t[i].time = SampleTime(raw)
      BY <1>1, <2>1, <2>6 DEF HaveTheirTimes
    <3>1. t[i].file = samples[i].file /\ t[i].time = SampleTime(ByIndex(samples)[i])
      BY <2>5 DEF Retimed
    <3>2. FilesOf(samples) = Offered \cap Members
      BY <1>1, <2>12 DEF IInv, HistoryInv, CountInv
    <3>3. timeSource = "TimeValue" => samples[i].raw = StampOr(samples[i].file, i - 1)
      BY <1>4, <2>2, <2>12 DEF HasTimes, StampOr
    <3>4. ByIndex(samples)[i] \in ReferenceTimes(samples[i].file)
      BY <1>1, <3>2, <3>3, PlaceOfIndex DEF ByIndex, ReferenceTimes
    <3> QED
      BY <3>1, <3>4
  <2>13. ASSUME undisturbed, NEW i \in 1..n
         PROVE  Readable(s[i].file) /\ fields' = disk[s[i].file].fields
    <3>1. PICK a \in 1..n : s[i] = t[a]
      BY <2>8
    <3>2. s[i].file = samples[a].file
      BY <2>5, <3>1 DEF Retimed
    <3> QED
      BY <1>4, <2>13, <3>2
  <2> QED
    BY <2>4, <2>6, <2>8, <2>9, <2>10, <2>11, <2>12, <2>13 DEF Listed
<1> QED
  BY <1>5, <1>6

\* Only the empty list has no first sample.
LEMMA EmptyLength ==
  ASSUME NEW list \in Seq(Sample)
  PROVE  /\ Len(list) = 0 <=> list = <<>>
         /\ list # <<>> => 1 \in 1..Len(list)
  BY EmptySeq

\* The lists that may be registered for a field.
LEMMA RegisteredList ==
  ASSUME samples \in Seq(Sample), DistinctFiles(samples), NEW list \in RegisteredLists
  PROVE  /\ list \in Seq(Sample) /\ Len(list) = Len(samples)
         /\ FilesOf(list) = FilesOf(samples) /\ DistinctFiles(list)
         /\ SortedByTime(list)
         /\ StepOrder(samples) => StepOrder(list)
         /\ HaveTheirTimes(samples) => HaveTheirTimes(list)
<1>1. CASE TimesAreSorted
  <2>1. list = samples
    BY <1>1 DEF RegisteredLists
  <2>2. SortedByTime(samples)
    BY <1>1, AdjacentIsSorted DEF TimesAreSorted
  <2> QED
    BY <2>1, <2>2
<1>2. CASE ~TimesAreSorted
  <2>1. list \in Orders(samples, ByTime)
    BY <1>2 DEF RegisteredLists
  <2>2. /\ Rearranges(list, samples)
        /\ \A i, j \in 1..Len(samples) : i < j => ~(list[j].time < list[i].time)
    BY <2>1, OrdersByTime
  <2>3. /\ list \in Seq(Sample) /\ Len(list) = Len(samples)
        /\ FilesOf(list) = FilesOf(samples) /\ DistinctFiles(list)
    BY <2>2, Rearranged
  <2>4. SortedByTime(list)
    <3> SUFFICES ASSUME NEW i \in 1..Len(list), NEW j \in 1..Len(list), i < j
                 PROVE  list[i].time <= list[j].time
      BY DEF SortedByTime
    <3>1. ~(list[j].time < list[i].time)
      BY <2>2, <2>3
    <3>2. list[i].time \in Int /\ list[j].time \in Int
      BY <2>3, ListOfSamples
    <3> QED
      BY <3>1, <3>2
  <2> QED
    BY <2>2, <2>3, <2>4, RearrangedTimes
<1> QED
  BY <1>1, <1>2

-----------------------------------------------------------------------------
(* Every step keeps the invariant.                                         *)

\* Every step keeps the types.
LEMMA NextTypes == IInv /\ [Next]_vars => TypeOK'
<1> SUFFICES ASSUME IInv, [Next]_vars
             PROVE  TypeOK'
  OBVIOUS
<1> USE ConstantsAssumption
<1>1. /\ TypeOK /\ HistoryInv /\ PhaseInv /\ CountInv
      /\ samples \in Seq(Sample) /\ Len(samples) \in Nat
  BY ListOfSamples DEF IInv, TypeOK
<1>2. CASE Begin
  BY <1>1, <1>2 DEF Begin, options, history, TypeOK, PCs
<1>3. ASSUME NEW f \in Files, VisitVtkHdf(f)
      PROVE  TypeOK'
  <2>1. StampOr(f, Number[f]) \in Int
    BY <1>1, StampIsInt
  <2>2. samples' \in Seq(Sample) /\ Len(samples') = Len(samples) + 1
    BY <1>3, <2>1, FoundSample DEF VisitVtkHdf, Visit, Found
  <2> QED
    BY <1>1, <1>3, <2>2 DEF VisitVtkHdf, Visit, Found, options, history, TypeOK
<1>4. ASSUME NEW f \in Files, VisitFlash(f)
      PROVE  TypeOK'
  <2>1. samples' \in Seq(Sample) /\ Len(samples') = Len(samples) + 1
    BY <1>4, FoundSample DEF VisitFlash, Visit, Found
  <2> QED
    BY <1>1, <1>4, <2>1 DEF VisitFlash, Visit, Found, options, history, TypeOK
<1>5. ASSUME NEW f \in Files, VisitOpenFoam(f)
      PROVE  TypeOK'
  <2>1. samples' \in Seq(Sample) /\ Len(samples') = Len(samples) + 1
    BY <1>5, FoundSample DEF VisitOpenFoam, Visit, Found
  <2> QED
    BY <1>1, <1>5, <2>1
    DEF VisitOpenFoam, Visit, Found, options, history, TypeOK
<1>6. ASSUME NEW f \in Files, VisitEdem(f)
      PROVE  TypeOK'
  <2>1. CASE samples' = samples
    BY <1>1, <1>6, <2>1 DEF VisitEdem, Visit, Found, Fail, options, history, TypeOK, PCs
  <2>2. CASE Found(f, StampOr(f, Len(samples)))
    <3>1. StampOr(f, Len(samples)) \in Int
      BY <1>1, StampIsInt
    <3>2. samples' \in Seq(Sample) /\ Len(samples') = Len(samples) + 1
      BY <1>6, <2>2, <3>1, FoundSample DEF VisitEdem, Visit, Found
    <3> QED
      BY <1>1, <1>6, <2>2, <3>2 DEF VisitEdem, Visit, Found, options, history, TypeOK, PCs
  <2> QED
    BY <1>6, <2>1, <2>2 DEF VisitEdem, Fail
<1>7. ASSUME NEW f \in Files, Write(f)
      PROVE  TypeOK'
  BY <1>1, <1>7 DEF Write, options, history, TypeOK, PCs, HistoryInv,
     Offered, Present, WithoutStep, Readable
<1>8. CASE EndListVtkHdf
  <2>1. samples' \in Seq(Sample) /\ Len(samples') = Len(samples)
    BY <1>8, VtkHdfListed DEF Listed
  <2> QED
    BY <1>1, <1>8, <2>1, EmptyList, EmptyLength
    DEF EndListVtkHdf, EndList, options, history, TypeOK, PCs
<1>9. CASE EndListFlash
  <2>1. samples' \in Seq(Sample) /\ Len(samples') = Len(samples)
    BY <1>9, SortedListing DEF EndListFlash
  <2> QED
    BY <1>1, <1>9, <2>1, EmptyList, EmptyLength
    DEF EndListFlash, EndList, options, history, TypeOK, PCs
<1>10. CASE EndListOpenFoam
  <2>1. samples' \in Seq(Sample) /\ Len(samples') = Len(samples)
    BY <1>10, OpenFoamListed DEF Listed
  <2> QED
    BY <1>1, <1>10, <2>1, EmptyList, EmptyLength
    DEF EndListOpenFoam, EndList, options, history, TypeOK, PCs
<1>11. CASE EndListEdem
  <2>1. samples' \in Seq(Sample) /\ Len(samples') = Len(samples)
    BY <1>11, EdemListed DEF Listed
  <2> QED
    BY <1>1, <1>11, <2>1, EmptyList, EmptyLength
    DEF EndListEdem, EndList, options, history, TypeOK, PCs
<1>12. CASE ScanSnapshot
  <2>1. CASE pc' = "failed"
    BY <1>1, <1>12, <2>1 DEF ScanSnapshot, Fail, options, history, TypeOK, PCs
  <2>2. CASE pc' # "failed"
    <3>1. /\ samples' \in Seq(Sample) /\ Len(samples') = Len(samples)
          /\ cursor' \in 0..Len(samples)
      BY <1>1, <1>12, <2>2, ScannedSample
    <3> QED
      BY <1>1, <1>12, <2>2, <3>1, EmptyList, EmptyLength
         DEF ScanSnapshot, Fail, options, history, TypeOK, PCs
  <2> QED
    BY <2>1, <2>2
<1>13. CASE ResolveSeries
  <2>1. CASE pc' = "failed"
    BY <1>1, <1>13, <2>1 DEF ResolveSeries, Fail, options, history, TypeOK, PCs
  <2>2. CASE pc' # "failed"
    <3>1. samples' \in Seq(Sample) /\ Len(samples') = Len(samples) /\ samples # <<>>
      BY <1>1, <1>13, <2>2, SeriesResolved
      DEF Listed, ResolveSeries, TypeOK, PhaseInv, PCs
    <3>2. samples[1].fields \subseteq Fields
      BY <1>1, <3>1, ListOfSamples
    <3> QED
      BY <1>1, <1>13, <2>2, <3>1, <3>2, EmptyLength
         DEF ResolveSeries, Fail, options, history, TypeOK, PCs
  <2> QED
    BY <2>1, <2>2
<1>14. CASE FindSampleWithData
  BY <1>1, <1>14, ListOfSamples
  DEF FindSampleWithData, Choose, options, history, TypeOK, PCs
<1>15. CASE FirstSample
  <2>1. samples[1].file \in Files
    BY <1>1, <1>15, EmptyLength, ListOfSamples DEF FirstSample, Choose, TypeOK, PCs
  <2> QED
    BY <1>1, <1>15, <2>1 DEF FirstSample, Choose, options, history, TypeOK, PCs
<1>16. CASE ScanParticleFields \/ ScanParticleClouds
  BY <1>1, <1>16, ReadableSnapshot
     DEF ScanParticleFields, ScanParticleClouds, FieldsOfChosen, Fail, options, history,
         TypeOK, PhaseInv, PCs
<1>17. CASE ListFields
  BY <1>1, <1>17 DEF ListFields, Fail, options, history, TypeOK, PCs
<1>18. ASSUME NEW x \in Fields, CheckField(x)
       PROVE  TypeOK'
  BY <1>1, <1>18 DEF CheckField, options, history, TypeOK, PCs
<1>19. CASE RegisterFlash
  BY <1>1, <1>19 DEF RegisterFlash, RegisterAll, options, history, TypeOK, PCs
<1>20. CASE RegisterVtkHdf \/ RegisterOpenFoam \/ RegisterEdem
  <2>1. \A list \in RegisteredLists : list \in Seq(Sample)
    BY <1>1, RegisteredList DEF CountInv
  <2> QED
    BY <1>1, <1>20, <2>1
       DEF RegisterVtkHdf, RegisterOpenFoam, RegisterEdem, RegisterAll, options, history,
           TypeOK, PCs
<1>21. CASE MeshFails
  BY <1>1, <1>21 DEF MeshFails, Fail, options, history, TypeOK, PCs
<1>22. CASE Close
  BY <1>1, <1>22, EmptyList DEF Close, options, history, TypeOK, PCs
<1>23. CASE UNCHANGED vars
  BY <1>1, <1>23 DEF vars, options, history, TypeOK, PCs
<1> QED
  BY <1>2, <1>3, <1>4, <1>5, <1>6, <1>7, <1>8, <1>9, <1>10, <1>11, <1>12, <1>13, <1>14,
     <1>15, <1>16, <1>17, <1>18, <1>19, <1>20, <1>21, <1>22, <1>23 DEF Next

\* The lists that may be registered depend on the samples alone.
LEMMA SameLists ==
  ASSUME UNCHANGED samples
  PROVE  RegisteredLists' = RegisteredLists
  BY DEF RegisteredLists, TimesAreSorted

\* Every step keeps the history of the files.
LEMMA NextHistory == IInv /\ [Next]_vars => HistoryInv'
<1> SUFFICES ASSUME IInv, [Next]_vars
             PROVE  HistoryInv'
  OBVIOUS
<1> USE ConstantsAssumption
<1>1. TypeOK /\ HistoryInv /\ PhaseInv
  BY DEF IInv
<1>2. CASE Begin
  BY <1>1, <1>2 DEF Begin, options, history, HistoryInv,
     Offered, Present, WithoutStep, Readable
<1>3. ASSUME NEW f \in Files, VisitVtkHdf(f)
      PROVE  HistoryInv'
  BY <1>1, <1>3 DEF VisitVtkHdf, Visit, Found, options, history, HistoryInv,
     Offered, Present, WithoutStep, Readable
<1>4. ASSUME NEW f \in Files, VisitFlash(f)
      PROVE  HistoryInv'
  BY <1>1, <1>4 DEF VisitFlash, Visit, Found, options, history, HistoryInv,
     Offered, Present, WithoutStep, Readable
<1>5. ASSUME NEW f \in Files, VisitOpenFoam(f)
      PROVE  HistoryInv'
  BY <1>1, <1>5 DEF VisitOpenFoam, Visit, Found, options, history, HistoryInv,
     Offered, Present, WithoutStep, Readable
<1>6. ASSUME NEW f \in Files, VisitEdem(f)
      PROVE  HistoryInv'
  BY <1>1, <1>6 DEF VisitEdem, Visit, Found, Fail, options, history, HistoryInv,
     Offered, Present, WithoutStep, Readable
<1>7. ASSUME NEW f \in Files, Write(f)
      PROVE  HistoryInv'
  <2>1. PICK c \in Contents[f] : disk' = [disk EXCEPT ![f] = c]
    BY <1>7 DEF Write
  <2>2. disk' \in [Files -> UNION {Contents[g] : g \in Files}]
    BY <1>1, <2>1 DEF HistoryInv
  <2>3. \A g \in Files : disk'[g] = IF g = f THEN c ELSE disk[g]
    BY <1>1, <2>1 DEF HistoryInv
  <2> QED
    BY <1>1, <1>7, <2>2, <2>3 DEF Write, HistoryInv,
     Offered, Present, WithoutStep, Readable
<1>8. CASE EndListVtkHdf
  BY <1>1, <1>8 DEF EndListVtkHdf, EndList, options, history, HistoryInv,
     Offered, Present, WithoutStep, Readable
<1>9. CASE EndListFlash
  BY <1>1, <1>9 DEF EndListFlash, EndList, options, history, HistoryInv,
     Offered, Present, WithoutStep, Readable
<1>10. CASE EndListOpenFoam
  BY <1>1, <1>10 DEF EndListOpenFoam, EndList, options, history, HistoryInv,
     Offered, Present, WithoutStep, Readable
<1>11. CASE EndListEdem
  BY <1>1, <1>11 DEF EndListEdem, EndList, options, history, HistoryInv,
     Offered, Present, WithoutStep, Readable
<1>12. CASE ScanSnapshot
  BY <1>1, <1>12 DEF ScanSnapshot, Fail, options, history, HistoryInv,
     Offered, Present, WithoutStep, Readable
<1>13. CASE ResolveSeries
  BY <1>1, <1>13 DEF ResolveSeries, Fail, options, history, HistoryInv,
     Offered, Present, WithoutStep, Readable
<1>14. CASE FindSampleWithData
  BY <1>1, <1>14 DEF FindSampleWithData, Choose, options, history, HistoryInv,
     Offered, Present, WithoutStep, Readable
<1>15. CASE FirstSample
  BY <1>1, <1>15 DEF FirstSample, Choose, options, history, HistoryInv,
     Offered, Present, WithoutStep, Readable
<1>16. CASE ScanParticleFields \/ ScanParticleClouds
  BY <1>1, <1>16 DEF ScanParticleFields, ScanParticleClouds, FieldsOfChosen, Fail,
     options, history, HistoryInv,
     Offered, Present, WithoutStep, Readable
<1>17. CASE ListFields
  BY <1>1, <1>17 DEF ListFields, Fail, options, history, HistoryInv,
     Offered, Present, WithoutStep, Readable
<1>18. ASSUME NEW x \in Fields, CheckField(x)
       PROVE  HistoryInv'
  BY <1>1, <1>18 DEF CheckField, options, history, HistoryInv,
     Offered, Present, WithoutStep, Readable
<1>19. CASE RegisterFlash
  BY <1>1, <1>19 DEF RegisterFlash, RegisterAll, options, history, HistoryInv,
     Offered, Present, WithoutStep, Readable
<1>20. CASE RegisterVtkHdf \/ RegisterOpenFoam \/ RegisterEdem
  BY <1>1, <1>20 DEF RegisterVtkHdf, RegisterOpenFoam, RegisterEdem, RegisterAll,
     options, history, HistoryInv,
     Offered, Present, WithoutStep, Readable
<1>21. CASE MeshFails
  BY <1>1, <1>21 DEF MeshFails, Fail, options, history, HistoryInv,
     Offered, Present, WithoutStep, Readable
<1>22. CASE Close
  BY <1>1, <1>22 DEF Close, options, history, HistoryInv,
     Offered, Present, WithoutStep, Readable
<1>23. CASE UNCHANGED vars
  BY <1>1, <1>23 DEF vars, options, history, HistoryInv,
     Offered, Present, WithoutStep, Readable
<1> QED
  BY <1>2, <1>3, <1>4, <1>5, <1>6, <1>7, <1>8, <1>9, <1>10, <1>11, <1>12, <1>13, <1>14,
     <1>15, <1>16, <1>17, <1>18, <1>19, <1>20, <1>21, <1>22, <1>23 DEF Next

\* Every step leaves what the next one needs.
LEMMA NextPhase == IInv /\ [Next]_vars => PhaseInv'
<1> SUFFICES ASSUME IInv, [Next]_vars
             PROVE  PhaseInv'
  OBVIOUS
<1>1. TypeOK /\ PhaseInv /\ Len(samples) \in Nat /\ TypeOK'
  BY NextTypes DEF IInv
<1>2. CASE Begin
  BY <1>1, <1>2 DEF Begin, PhaseInv
<1>3. ASSUME NEW f \in Files, VisitVtkHdf(f)
      PROVE  PhaseInv'
  BY <1>1, <1>3 DEF VisitVtkHdf, Visit, Found, options, history, PhaseInv
<1>4. ASSUME NEW f \in Files, VisitFlash(f)
      PROVE  PhaseInv'
  BY <1>1, <1>4 DEF VisitFlash, Visit, Found, options, history, PhaseInv
<1>5. ASSUME NEW f \in Files, VisitOpenFoam(f)
      PROVE  PhaseInv'
  BY <1>1, <1>5 DEF VisitOpenFoam, Visit, Found, options, history, PhaseInv
<1>6. ASSUME NEW f \in Files, VisitEdem(f)
      PROVE  PhaseInv'
  BY <1>1, <1>6 DEF VisitEdem, Visit, Found, Fail, options, history, PhaseInv
<1>7. ASSUME NEW f \in Files, Write(f)
      PROVE  PhaseInv'
  BY <1>1, <1>7, SameLists DEF Write, options, history, PhaseInv
<1>8. CASE EndListVtkHdf
  <2>1. samples' = <<>> <=> samples = <<>>
    BY <1>1, <1>8, VtkHdfListed, EmptyLength DEF Listed, TypeOK
  <2> QED
    BY <1>1, <1>8, <2>1 DEF EndListVtkHdf, EndList, options, history, PhaseInv
<1>9. CASE EndListFlash
  <2>1. samples' \in Seq(Sample) /\ Len(samples') = Len(samples)
    BY <1>9, SortedListing DEF EndListFlash
  <2>2. samples \in Seq(Sample) /\ (samples # <<>> => Len(samples) > 0)
    BY <1>1 DEF TypeOK
  <2> QED
    BY <1>1, <1>9, <2>1, <2>2 DEF EndListFlash, EndList, options, history, PhaseInv
<1>10. CASE EndListOpenFoam
  <2>1. samples' = <<>> <=> samples = <<>>
    BY <1>1, <1>10, OpenFoamListed, EmptyLength DEF Listed, TypeOK
  <2> QED
    BY <1>1, <1>10, <2>1 DEF EndListOpenFoam, EndList, options, history, PhaseInv
<1>11. CASE EndListEdem
  <2>1. samples' = <<>> <=> samples = <<>>
    BY <1>1, <1>11, EdemListed, EmptyLength DEF Listed, TypeOK
  <2> QED
    BY <1>1, <1>11, <2>1 DEF EndListEdem, EndList, options, history, PhaseInv
<1>12. CASE ScanSnapshot
  <2>1. CASE pc' = "failed"
    BY <1>1, <1>12, <2>1 DEF ScanSnapshot, Fail, options, history, PhaseInv
  <2>2. CASE pc' # "failed"
    <3>1. Len(samples') = Len(samples) /\ cursor' = cursor + 1
      BY <1>12, <2>2, ScannedSample
    <3>2. pc' = IF cursor' = Len(samples) THEN "resolve" ELSE "scan"
      BY <1>12, <2>2 DEF ScanSnapshot, Fail
    <3> QED
      BY <1>1, <1>12, <2>2, <3>1, <3>2
      DEF ScanSnapshot, Fail, options, history, TypeOK, PhaseInv
  <2> QED
    BY <2>1, <2>2
<1>13. CASE ResolveSeries
  BY <1>1, <1>13 DEF ResolveSeries, Fail, options, history, PhaseInv
<1>14. CASE FindSampleWithData
  BY <1>1, <1>14, ListOfSamples DEF FindSampleWithData, Choose, options, history,
     PhaseInv, TypeOK
<1>15. CASE FirstSample
  <2>1. samples[1].file \in Files
    BY <1>1, <1>15, EmptyLength, ListOfSamples DEF FirstSample, Choose, TypeOK, PCs
  <2> QED
    BY <1>1, <1>15, <2>1 DEF FirstSample, Choose, options, history, PhaseInv
<1>16. CASE ScanParticleFields \/ ScanParticleClouds
  BY <1>1, <1>16 DEF ScanParticleFields, ScanParticleClouds, FieldsOfChosen, Fail,
     options, history, PhaseInv
<1>17. CASE ListFields
  BY <1>1, <1>17 DEF ListFields, Fail, options, history, PhaseInv
<1>18. ASSUME NEW x \in Fields, CheckField(x)
       PROVE  PhaseInv'
  BY <1>1, <1>18 DEF CheckField, options, PhaseInv
<1>19. CASE RegisterFlash
  BY <1>1, <1>19, SameLists DEF RegisterFlash, RegisterAll, options, history, PhaseInv
<1>20. CASE RegisterVtkHdf \/ RegisterOpenFoam \/ RegisterEdem
  BY <1>1, <1>20, SameLists DEF RegisterVtkHdf, RegisterOpenFoam, RegisterEdem,
     RegisterAll, options, history, PhaseInv
<1>21. CASE MeshFails
  BY <1>1, <1>21 DEF MeshFails, Fail, options, history, PhaseInv
<1>22. CASE Close
  BY <1>22, EmptyList DEF Close, PhaseInv
<1>23. CASE UNCHANGED vars
  BY <1>1, <1>23, SameLists DEF vars, options, history, PhaseInv
<1> QED
  BY <1>2, <1>3, <1>4, <1>5, <1>6, <1>7, <1>8, <1>9, <1>10, <1>11, <1>12, <1>13, <1>14,
     <1>15, <1>16, <1>17, <1>18, <1>19, <1>20, <1>21, <1>22, <1>23 DEF Next

\* Every step accounts for the files that were listed.
LEMMA NextCount == IInv /\ [Next]_vars => CountInv'
<1> SUFFICES ASSUME IInv, [Next]_vars
             PROVE  CountInv'
  OBVIOUS
<1>1. TypeOK /\ HistoryInv /\ PhaseInv /\ CountInv /\ samples \in Seq(Sample)
  BY DEF IInv, TypeOK
<1>2. ASSUME UNCHANGED <<options, samples, visited, throughout, appeared>>,
             pc \notin {"idle", "list", "failed"} \/ pc' = "failed"
      PROVE  CountInv'
  BY <1>1, <1>2 DEF CountInv, options, Members, EdemFiles
<1>3. ASSUME Listed, pc = "list", UNCHANGED <<options, visited, throughout, appeared>>,
             throughout \cap Members \subseteq visited
      PROVE  CountInv'
  BY <1>1, <1>3 DEF CountInv, options, Members, EdemFiles, Listed
<1>4. CASE Begin
  <2>1. samples' = <<>> /\ visited' = {} /\ pc' \in {"list", "failed"}
    BY <1>1, <1>4 DEF Begin, PhaseInv
  <2> QED
    BY <2>1, EmptyList DEF CountInv
<1>5. ASSUME NEW f \in Files, VisitVtkHdf(f)
      PROVE  CountInv'
  <2>1. FilesOf(samples') = FilesOf(samples) \cup {f} /\ DistinctFiles(samples')
    <3>1. StampOr(f, Number[f]) \in Int
      BY <1>1, StampIsInt, ConstantsAssumption
    <3>2. f \notin visited /\ samples' = Append(samples, Entry(f, StampOr(f, Number[f])))
      BY <1>5 DEF VisitVtkHdf, Visit, Found
    <3> QED
      BY <3>1, <3>2, FoundSample
  <2>2. f \in appeared /\ f \in Members
    <3>1. f \in Offered /\ reader = "VTKHDF" /\ pc = "list"
      BY <1>5 DEF VisitVtkHdf, Visit, Offered, WithoutStep
    <3> QED
      BY <1>1, <3>1 DEF HistoryInv, Members
  <2> QED
    BY <1>1, <1>5, <2>1, <2>2
       DEF VisitVtkHdf, Visit, Found, options, history, CountInv, Members, EdemFiles
<1>6. ASSUME NEW f \in Files, VisitFlash(f)
      PROVE  CountInv'
  <2>1. FilesOf(samples') = FilesOf(samples) \cup {f} /\ DistinctFiles(samples')
    BY <1>1, <1>6, FoundSample
       DEF VisitFlash, Visit, Found
  <2>2. f \in appeared /\ f \in Members
    BY <1>1, <1>6 DEF VisitFlash, Visit, Found, HistoryInv, Members, Offered, WithoutStep
  <2> QED
    BY <1>1, <1>6, <2>1, <2>2
       DEF VisitFlash, Visit, Found, options, history, CountInv, Members, EdemFiles
<1>7. ASSUME NEW f \in Files, VisitOpenFoam(f)
      PROVE  CountInv'
  <2>1. FilesOf(samples') = FilesOf(samples) \cup {f} /\ DistinctFiles(samples')
    BY <1>1, <1>7, FoundSample, ConstantsAssumption
       DEF VisitOpenFoam, Visit, Found
  <2>2. f \in appeared /\ f \in Members
    BY <1>1, <1>7 DEF VisitOpenFoam, Visit, Found, HistoryInv, Members, Offered, WithoutStep
  <2> QED
    BY <1>1, <1>7, <2>1, <2>2
       DEF VisitOpenFoam, Visit, Found, options, history, CountInv, Members, EdemFiles
<1>8. ASSUME NEW f \in Files, VisitEdem(f)
      PROVE  CountInv'
  <2>1. CASE f \notin Offered
    <3>1. f \notin throughout /\ samples' = samples /\ pc' = pc
      BY <1>1, <1>8, <2>1 DEF VisitEdem, HistoryInv
    <3> QED
      BY <1>1, <1>8, <3>1
      DEF VisitEdem, Visit, options, history, CountInv, Members, EdemFiles
  <2>2. CASE f \in Offered /\ ~Readable(f)
    <3>1. samples' = samples /\ pc' = "failed" /\ visited \subseteq visited'
      BY <1>8, <2>2 DEF VisitEdem, Visit, Fail
    <3> QED
      BY <1>1, <1>8, <3>1
      DEF VisitEdem, Visit, options, history, CountInv, Members, EdemFiles
  <2>3. CASE f \in Offered /\ Readable(f)
    <3>1. StampOr(f, Len(samples)) \in Int
      BY <1>1, StampIsInt
    <3>2. Found(f, StampOr(f, Len(samples)))
      BY <1>8, <2>3 DEF VisitEdem
    <3>3. FilesOf(samples') = FilesOf(samples) \cup {f} /\ DistinctFiles(samples')
      BY <1>8, <3>1, <3>2, FoundSample DEF VisitEdem, Visit, Found
    <3>4. f \in appeared /\ f \in Members
      BY <1>1, <1>8, <2>3 DEF VisitEdem, Visit, HistoryInv, Members
    <3> QED
      BY <1>1, <1>8, <3>2, <3>3, <3>4
         DEF VisitEdem, Visit, Found, options, history, CountInv, Members, EdemFiles
  <2> QED
    BY <2>1, <2>2, <2>3
<1>9. ASSUME NEW f \in Files, Write(f)
      PROVE  CountInv'
  BY <1>1, <1>9 DEF Write, options, history, CountInv, Members, EdemFiles
<1>10. CASE EndListVtkHdf
  BY <1>3, <1>10, VtkHdfListed DEF EndListVtkHdf, EndList, ListedAll, history
<1>11. CASE EndListFlash
  <2>1. FilesOf(samples') = FilesOf(samples) /\ DistinctFiles(samples')
    BY <1>11, SortedListing DEF EndListFlash
  <2> QED
    BY <1>1, <1>11, <2>1
    DEF EndListFlash, EndList, ListedAll, options, history, CountInv, Members
<1>12. CASE EndListOpenFoam
  BY <1>3, <1>12, OpenFoamListed DEF EndListOpenFoam, EndList, ListedAll, history
<1>13. CASE EndListEdem
  <2>1. throughout \cap Members \subseteq visited
    BY <1>13 DEF EndListEdem, Members
  <2> QED
    BY <1>3, <1>13, <2>1, EdemListed DEF EndListEdem, EndList, history
<1>14. CASE ScanSnapshot
  <2>1. CASE pc' = "failed"
    BY <1>2, <1>14, <2>1 DEF ScanSnapshot, Fail, history
  <2>2. CASE pc' # "failed"
    <3>1. FilesOf(samples') = FilesOf(samples) /\ DistinctFiles(samples')
      BY <1>1, <1>14, <2>2, ScannedSample DEF FilesOf, DistinctFiles, CountInv
    <3> QED
      BY <1>1, <1>14, <2>2, <3>1
      DEF ScanSnapshot, Fail, options, history, CountInv, Members, EdemFiles
  <2> QED
    BY <2>1, <2>2
<1>15. CASE ResolveSeries
  <2>1. CASE pc' = "failed"
    BY <1>2, <1>15, <2>1 DEF ResolveSeries, Fail, history
  <2>2. CASE pc' # "failed"
    BY <1>1, <1>15, <2>2, SeriesResolved
       DEF ResolveSeries, Fail, options, history, CountInv, Members, EdemFiles, Listed
  <2> QED
    BY <2>1, <2>2
<1>16. CASE FindSampleWithData
  BY <1>1, <1>16
  DEF FindSampleWithData, Choose, options, history, CountInv, Members
<1>17. CASE FirstSample
  BY <1>1, <1>17, <1>2 DEF FirstSample, Choose, options, history, CountInv, Members,
     EdemFiles
<1>18. CASE ScanParticleFields \/ ScanParticleClouds
  BY <1>1, <1>18, <1>2 DEF ScanParticleFields, ScanParticleClouds, FieldsOfChosen,
     Fail, options, history, CountInv, Members, EdemFiles
<1>19. CASE ListFields
  BY <1>1, <1>19 DEF ListFields, Fail, options, history, CountInv, Members
<1>20. ASSUME NEW x \in Fields, CheckField(x)
       PROVE  CountInv'
  BY <1>1, <1>20, <1>2 DEF CheckField, options, history, CountInv, Members, EdemFiles
<1>21. CASE RegisterFlash
  BY <1>1, <1>21
  DEF RegisterFlash, RegisterAll, options, history, CountInv, Members
<1>22. CASE RegisterVtkHdf \/ RegisterOpenFoam \/ RegisterEdem
  BY <1>1, <1>22, <1>2 DEF RegisterVtkHdf, RegisterOpenFoam, RegisterEdem, RegisterAll,
     options, history, CountInv, Members, EdemFiles
<1>23. CASE MeshFails
  BY <1>1, <1>23, <1>2 DEF MeshFails, Fail, options, history, CountInv, Members,
     EdemFiles
<1>24. CASE Close
  BY <1>24, EmptyList DEF Close, CountInv
<1>25. CASE UNCHANGED vars
  BY <1>1, <1>25 DEF vars, options, history, CountInv, Members,
     EdemFiles
<1> QED
  BY <1>4, <1>5, <1>6, <1>7, <1>8, <1>9, <1>10, <1>11, <1>12, <1>13, <1>14, <1>15,
     <1>16, <1>17, <1>18, <1>19, <1>20, <1>21, <1>22, <1>23, <1>24, <1>25 DEF Next

\* While the directory is listed, the samples have the raw times of their files.
LEMMA NextList == IInv /\ [Next]_vars => ListInv'
<1> SUFFICES ASSUME IInv, [Next]_vars
             PROVE  ListInv'
  OBVIOUS
<1>1. /\ TypeOK /\ HistoryInv /\ PhaseInv /\ CountInv /\ ListInv
      /\ samples \in Seq(Sample) /\ Len(samples) \in Nat
  BY ListOfSamples DEF IInv, TypeOK
<1>2. ASSUME pc' # "list" \/ reader' = "FLASH"
      PROVE  ListInv'
  BY <1>2 DEF ListInv
<1>3. CASE Begin
  BY <1>1, <1>3, EmptyList DEF Begin, PhaseInv, ListInv
<1>4. ASSUME NEW f \in Files, VisitVtkHdf(f)
      PROVE  ListInv'
  <2>1. StampOr(f, Number[f]) \in Int
    BY <1>1, StampIsInt, ConstantsAssumption
  <2>2. /\ Len(samples') = Len(samples) + 1
        /\ \A i \in 1..Len(samples) : samples'[i] = samples[i]
        /\ samples'[Len(samples) + 1] = Entry(f, StampOr(f, Number[f]))
    BY <1>4 DEF VisitVtkHdf, Found
  <2>3. \A i \in 1..(Len(samples) + 1) : i \in 1..Len(samples) \/ i = Len(samples) + 1
    BY <1>1
  <2>4. \A g : StampOr(g, Number[g])' = StampOr(g, Number[g])
    BY <1>4 DEF VisitVtkHdf, Visit, StampOr, Readable
  <2> QED
    BY <1>1, <1>4, <2>1, <2>4
    DEF VisitVtkHdf, Visit, Found, options, history, ListInv, Entry
<1>5. ASSUME NEW f \in Files, VisitFlash(f)
      PROVE  ListInv'
  BY <1>2, <1>5 DEF VisitFlash, Visit, options
<1>6. ASSUME NEW f \in Files, VisitOpenFoam(f)
      PROVE  ListInv'
  <2>1. Number[f] \in Int
    BY ConstantsAssumption
  <2>2. /\ Len(samples') = Len(samples) + 1
        /\ \A i \in 1..Len(samples) : samples'[i] = samples[i]
        /\ samples'[Len(samples) + 1] = Entry(f, Number[f])
    BY <1>6 DEF VisitOpenFoam, Found
  <2>3. \A i \in 1..(Len(samples) + 1) : i \in 1..Len(samples) \/ i = Len(samples) + 1
    BY <1>1
  <2> QED
    BY <1>1, <1>6, <2>1, <2>2, <2>3
       DEF VisitOpenFoam, Visit, Found, options, history, ListInv, Entry
<1>7. ASSUME NEW f \in Files, VisitEdem(f)
      PROVE  ListInv'
  <2>1. /\ reader = "EDEM" /\ f \in EdemFiles /\ f \notin visited /\ pc = "list"
        /\ \A g \in EdemFiles : Number[g] < Number[f] => g \in visited
        /\ visited' = visited \cup {f} /\ UNCHANGED <<options, disk, history>>
    BY <1>7 DEF VisitEdem, Visit
  <2>2. /\ \A g : Number[g] \in Nat \/ g \notin Files
        /\ EdemFiles \subseteq Files /\ visited \subseteq Files
    BY <1>1, ConstantsAssumption DEF EdemFiles, TypeOK
  <2>3. /\ InOrder(samples) /\ visited \subseteq EdemFiles
        /\ \A g \in visited, h \in EdemFiles : Number[h] < Number[g] => h \in visited
    BY <1>1, <2>1 DEF ListInv
  <2>4. /\ visited' \subseteq EdemFiles
        /\ \A g \in visited', h \in EdemFiles : Number[h] < Number[g] => h \in visited'
    BY <2>1, <2>3
  <2>5. EdemFiles' = EdemFiles /\ reader' = reader /\ undisturbed' = undisturbed
    BY <2>1 DEF options, history, EdemFiles
  <2>6. \A g, d : StampOr(g, d)' = StampOr(g, d)
    BY <2>1 DEF StampOr, Readable
  <2>7. CASE UNCHANGED samples
    BY <1>1, <2>1, <2>3, <2>4, <2>5, <2>6, <2>7 DEF ListInv
  <2>8. CASE Found(f, StampOr(f, Len(samples)))
    <3>1. StampOr(f, Len(samples)) \in Int
      BY <1>1, StampIsInt
    <3> DEFINE n == Len(samples)
               s == samples'
               raw == StampOr(f, n)
    <3>2. /\ Len(s) = n + 1
          /\ \A i \in 1..n : s[i] = samples[i]
          /\ s[n + 1].file = f /\ s[n + 1].raw = raw
      BY <2>1, <2>8 DEF Found, Entry
    <3>3. \A i \in 1..(n + 1) : i \in 1..n \/ i = n + 1
      BY <1>1
    <3>4. \A i \in 1..n : samples[i].file \in visited
      BY <1>1, FilesOfMembers DEF CountInv
    <3> HIDE DEF n, s, raw
    <3>5. n \in Nat
      BY <1>1 DEF n
    <3>6. InOrder(s)
      <4> SUFFICES ASSUME NEW i \in 1..(n + 1), NEW j \in 1..(n + 1), i < j
                   PROVE  Number[s[i].file] <= Number[s[j].file]
        BY <3>2 DEF InOrder
      <4>1. i \in 1..n /\ s[i].file = samples[i].file
        BY <3>2, <3>5
      <4>2. CASE j \in 1..n
        BY <2>3, <3>2, <4>1, <4>2 DEF InOrder, n
      <4>3. CASE j = n + 1
        <5>1. samples[i].file \in visited /\ ~(Number[f] < Number[samples[i].file])
          BY <2>1, <2>3, <3>4, <4>1
        <5>2. Number[f] \in Nat /\ Number[samples[i].file] \in Nat
          BY <2>1, <2>2, <5>1
        <5> QED
          BY <3>2, <4>1, <4>3, <5>1, <5>2
      <4> QED
        BY <3>3, <4>2, <4>3
    <3>7. \A i \in 1..(n + 1) :
            s[i].raw \in Int /\ (undisturbed => s[i].raw = StampOr(s[i].file, i - 1))
      <4> SUFFICES ASSUME NEW i \in 1..(n + 1)
                   PROVE  s[i].raw \in Int /\ (undisturbed => s[i].raw = StampOr(s[i].file, i - 1))
        OBVIOUS
      <4>1. CASE i \in 1..n
        BY <1>1, <2>1, <3>2, <4>1 DEF ListInv, n
      <4>2. CASE i = n + 1
        BY <3>1, <3>2, <3>5, <4>2 DEF raw, n
      <4> QED
        BY <3>3, <4>1, <4>2
    <3> QED
      BY <2>1, <2>4, <2>5, <2>6, <3>2, <3>6, <3>7 DEF ListInv, s
  <2>9. CASE Fail
    BY <1>2, <2>9 DEF Fail
  <2> QED
    BY <1>7, <2>7, <2>8, <2>9 DEF VisitEdem
<1>8. ASSUME NEW f \in Files, Write(f)
      PROVE  ListInv'
  BY <1>1, <1>8 DEF Write, options, ListInv, EdemFiles
<1>9. CASE EndListVtkHdf
  BY <1>2, <1>9 DEF EndListVtkHdf, EndList
<1>10. CASE EndListFlash
  BY <1>2, <1>10 DEF EndListFlash, EndList
<1>11. CASE EndListOpenFoam
  BY <1>2, <1>11 DEF EndListOpenFoam, EndList
<1>12. CASE EndListEdem
  BY <1>2, <1>12 DEF EndListEdem, EndList
<1>13. CASE ScanSnapshot
  BY <1>2, <1>13 DEF ScanSnapshot, Fail
<1>14. CASE ResolveSeries
  BY <1>2, <1>14 DEF ResolveSeries, Fail
<1>15. CASE FindSampleWithData
  BY <1>2, <1>15 DEF FindSampleWithData, Choose
<1>16. CASE FirstSample
  BY <1>2, <1>16 DEF FirstSample, Choose
<1>17. CASE ScanParticleFields \/ ScanParticleClouds
  BY <1>2, <1>17 DEF ScanParticleFields, ScanParticleClouds, FieldsOfChosen, Fail
<1>18. CASE ListFields
  BY <1>2, <1>18 DEF ListFields, Fail
<1>19. ASSUME NEW x \in Fields, CheckField(x)
       PROVE  ListInv'
  BY <1>2, <1>19 DEF CheckField
<1>20. CASE RegisterFlash
  BY <1>2, <1>20 DEF RegisterFlash, RegisterAll
<1>21. CASE RegisterVtkHdf \/ RegisterOpenFoam \/ RegisterEdem
  BY <1>2, <1>21 DEF RegisterVtkHdf, RegisterOpenFoam, RegisterEdem, RegisterAll
<1>22. CASE MeshFails
  BY <1>2, <1>22 DEF MeshFails, Fail
<1>23. CASE Close
  BY <1>2, <1>23 DEF Close
<1>24. CASE UNCHANGED vars
  BY <1>1, <1>24 DEF vars, options, history, ListInv, StampOr, Readable, EdemFiles
<1> QED
  BY <1>3, <1>4, <1>5, <1>6, <1>7, <1>8, <1>9, <1>10, <1>11, <1>12, <1>13, <1>14,
     <1>15, <1>16, <1>17, <1>18, <1>19, <1>20, <1>21, <1>22, <1>23, <1>24 DEF Next

\* The fields that are chosen are in every directory.
LEMMA NextFields == IInv /\ [Next]_vars => FieldsInv'
<1> SUFFICES ASSUME IInv, [Next]_vars
             PROVE  FieldsInv'
  OBVIOUS
<1>1. TypeOK /\ PhaseInv /\ FieldsInv
  BY DEF IInv
<1>2. ASSUME fields' = {} \/ reader' # "OpenFOAM" \/ pc' \notin {"check", "register", "done"}
      PROVE  FieldsInv'
  BY <1>2 DEF FieldsInv
<1>3. ASSUME UNCHANGED <<disk, samples>>
      PROVE  \A x : PresentOnAllSamples(x)' <=> PresentOnAllSamples(x)
  BY <1>3 DEF PresentOnAllSamples, HasFieldFile, Readable
<1>4. CASE Begin
  BY <1>1, <1>2, <1>4 DEF Begin
<1>5. ASSUME NEW f \in Files, VisitVtkHdf(f)
      PROVE  FieldsInv'
  BY <1>1, <1>2, <1>5 DEF VisitVtkHdf, Visit, Found, PhaseInv, options, history
<1>6. ASSUME NEW f \in Files, VisitFlash(f)
      PROVE  FieldsInv'
  BY <1>1, <1>2, <1>6 DEF VisitFlash, Visit, Found, PhaseInv, options, history
<1>7. ASSUME NEW f \in Files, VisitOpenFoam(f)
      PROVE  FieldsInv'
  BY <1>1, <1>2, <1>7 DEF VisitOpenFoam, Visit, Found, PhaseInv, options, history
<1>8. ASSUME NEW f \in Files, VisitEdem(f)
      PROVE  FieldsInv'
  BY <1>1, <1>2, <1>8 DEF VisitEdem, Visit, Found, Fail, PhaseInv, options, history
<1>9. ASSUME NEW f \in Files, Write(f)
      PROVE  FieldsInv'
  BY <1>1, <1>2, <1>9 DEF Write, FieldsInv, PhaseInv, options
<1>10. CASE EndListVtkHdf
  BY <1>1, <1>2, <1>10 DEF EndListVtkHdf, EndList, PhaseInv, options, history
<1>11. CASE EndListFlash
  BY <1>1, <1>2, <1>11 DEF EndListFlash, EndList, PhaseInv, options, history
<1>12. CASE EndListOpenFoam
  BY <1>1, <1>2, <1>12 DEF EndListOpenFoam, EndList, PhaseInv, options, history
<1>13. CASE EndListEdem
  BY <1>1, <1>2, <1>13 DEF EndListEdem, EndList, PhaseInv, options, history
<1>14. CASE ScanSnapshot
  BY <1>1, <1>2, <1>14 DEF ScanSnapshot, Fail, PhaseInv, options, history
<1>15. CASE ResolveSeries
  BY <1>1, <1>2, <1>15 DEF ResolveSeries, Fail, PhaseInv, options
<1>16. CASE FindSampleWithData
  BY <1>1, <1>2, <1>16 DEF FindSampleWithData, Choose, PhaseInv, options, history
<1>17. CASE FirstSample
  BY <1>1, <1>2, <1>17 DEF FirstSample, Choose, PhaseInv, options, history
<1>18. CASE ScanParticleFields \/ ScanParticleClouds
  BY <1>2, <1>18
  DEF ScanParticleFields, ScanParticleClouds, FieldsOfChosen, options
<1>19. CASE ListFields
  BY <1>1, <1>2, <1>19 DEF ListFields, Fail, PhaseInv, options, history
<1>20. ASSUME NEW x \in Fields, CheckField(x)
       PROVE  FieldsInv'
  <2>1. \A y : PresentOnAllSamples(y)' <=> PresentOnAllSamples(y)
    BY <1>3, <1>20 DEF CheckField
  <2>2. fields' \subseteq {y \in fields \cup {x} : y \in fields \/ PresentOnAllSamples(y)}
    BY <1>20 DEF CheckField
  <2> QED
    BY <1>1, <1>20, <2>1, <2>2 DEF CheckField, options, history, FieldsInv
<1>21. CASE RegisterFlash
  BY <1>1, <1>2, <1>21 DEF RegisterFlash, RegisterAll, PhaseInv, options
<1>22. CASE RegisterVtkHdf \/ RegisterOpenFoam \/ RegisterEdem
  <2>1. \A y : PresentOnAllSamples(y)' <=> PresentOnAllSamples(y)
    BY <1>3, <1>22 DEF RegisterVtkHdf, RegisterOpenFoam, RegisterEdem, RegisterAll
  <2> QED
    BY <1>1, <1>22, <2>1
       DEF RegisterVtkHdf, RegisterOpenFoam, RegisterEdem, RegisterAll, options, history, FieldsInv
<1>23. CASE MeshFails
  BY <1>1, <1>2, <1>23 DEF MeshFails, Fail, PhaseInv, options, history
<1>24. CASE Close
  BY <1>1, <1>2, <1>24 DEF Close
<1>25. CASE UNCHANGED vars
  BY <1>1, <1>3, <1>25 DEF vars, options, history, FieldsInv
<1> QED
  BY <1>4, <1>5, <1>6, <1>7, <1>8, <1>9, <1>10, <1>11, <1>12, <1>13, <1>14, <1>15,
     <1>16, <1>17, <1>18, <1>19, <1>20, <1>21, <1>22, <1>23, <1>24, <1>25 DEF Next

\* FLASH: every step keeps what is known of the snapshots.
LEMMA NextFlash == IInv /\ [Next]_vars => FlashInv'
<1> SUFFICES ASSUME IInv, [Next]_vars
             PROVE  FlashInv'
  OBVIOUS
<1>1. /\ TypeOK /\ PhaseInv /\ FlashInv
      /\ samples \in Seq(Sample) /\ Len(samples) \in Nat /\ cursor \in Nat
  BY ListOfSamples DEF IInv, TypeOK
<1>2. ASSUME reader' # "FLASH" \/ pc' \in {"idle", "find", "fields", "check", "failed"}
      PROVE  FlashInv'
  BY <1>2 DEF FlashInv
<1>3. CASE Begin
  BY <1>1, <1>3, EmptyList DEF Begin, PhaseInv, FlashInv
<1>4. ASSUME NEW f \in Files, VisitVtkHdf(f)
      PROVE  FlashInv'
  BY <1>2, <1>4 DEF VisitVtkHdf, Visit, options
<1>5. ASSUME NEW f \in Files, VisitFlash(f)
      PROVE  FlashInv'
  <2>1. /\ Len(samples') = Len(samples) + 1
        /\ \A i \in 1..Len(samples) : samples'[i] = samples[i]
        /\ samples'[Len(samples) + 1].time = 0
    BY <1>5, FoundSample DEF VisitFlash, Visit, Found, Entry
  <2>2. \A i \in 1..(Len(samples) + 1) : i \in 1..Len(samples) \/ i = Len(samples) + 1
    BY <1>1
  <2> QED
    BY <1>1, <1>5, <2>1, <2>2 DEF VisitFlash, Visit, Found, options, history, FlashInv
<1>6. ASSUME NEW f \in Files, VisitOpenFoam(f)
      PROVE  FlashInv'
  BY <1>2, <1>6 DEF VisitOpenFoam, Visit, options
<1>7. ASSUME NEW f \in Files, VisitEdem(f)
      PROVE  FlashInv'
  BY <1>2, <1>7 DEF VisitEdem, Visit, Found, Fail, options
<1>8. ASSUME NEW f \in Files, Write(f)
      PROVE  FlashInv'
  <2>1. pc = "idle" => samples = <<>>
    BY <1>1 DEF PhaseInv
  <2> QED
    BY <1>1, <1>8, <2>1 DEF Write, options, FlashInv
<1>9. CASE EndListVtkHdf
  BY <1>2, <1>9 DEF EndListVtkHdf, EndList
<1>10. CASE EndListFlash
  <2>1. InOrder(samples') /\ \A i \in 1..Len(samples') : samples'[i].time = 0
    <3>1. /\ reader = "FLASH" /\ pc = "list"
          /\ \E s \in Orders(samples, NaturalLess) : samples' = s
      BY <1>10 DEF EndListFlash, EndList
    <3>2. InOrder(samples') /\ \A i \in 1..Len(samples') :
                                \E j \in 1..Len(samples) : samples'[i] = samples[j]
      BY <3>1, SortedListing
    <3> QED
      BY <1>1, <3>1, <3>2 DEF FlashInv
  <2>2. cursor' = 0 /\ pc' \in {"failed", "scan"}
    BY <1>1, <1>10 DEF EndListFlash, EndList, PhaseInv
  <2> QED
    BY <2>1, <2>2 DEF FlashInv
<1>11. CASE EndListOpenFoam
  BY <1>2, <1>11 DEF EndListOpenFoam, EndList, options
<1>12. CASE EndListEdem
  BY <1>2, <1>12 DEF EndListEdem, EndList
<1>13. CASE ScanSnapshot
  <2>1. CASE pc' = "failed"
    BY <1>2, <2>1
  <2>2. CASE pc' # "failed"
    <3>1. /\ cursor + 1 \in 1..Len(samples) /\ Readable(samples[cursor + 1].file)
          /\ Len(samples') = Len(samples) /\ cursor' = cursor + 1
          /\ \A i \in 1..Len(samples) : i # cursor + 1 => samples'[i] = samples[i]
          /\ \A i \in 1..Len(samples) :
               samples'[i].file = samples[i].file
               /\ (samples[i].time = 0 => samples'[i].time = 0)
          /\ samples'[cursor + 1].raw = disk[samples[cursor + 1].file].stamp
          /\ samples'[cursor + 1].fields = disk[samples[cursor + 1].file].fields
      BY <1>13, <2>2, ScannedSample
    <3>2. /\ pc = "scan" /\ pc' \in {"scan", "resolve"} /\ reader = "FLASH"
          /\ UNCHANGED <<options, disk, history>>
      BY <1>1, <1>13, <2>2 DEF ScanSnapshot, Fail, PhaseInv
    <3>3. InOrder(samples') /\ \A i \in 1..Len(samples') : samples'[i].time = 0
      BY <1>1, <3>1, <3>2 DEF FlashInv, InOrder
    <3>4. \A f : Readable(f)' <=> Readable(f)
      BY <3>2 DEF Readable
    <3>5. \A i \in 1..(cursor + 1) :
            \/ i \in 1..cursor /\ i \in 1..Len(samples) /\ i # cursor + 1
            \/ i = cursor + 1
      BY <1>1, <3>1
    <3>6. ASSUME undisturbed, NEW i \in 1..(cursor + 1)
          PROVE  /\ Readable(samples'[i].file)
                 /\ samples'[i].raw = disk[samples'[i].file].stamp
                 /\ samples'[i].fields = disk[samples'[i].file].fields
      BY <1>1, <3>1, <3>2, <3>5, <3>6 DEF FlashInv
    <3> QED
      BY <3>1, <3>2, <3>3, <3>4, <3>6 DEF FlashInv, history
  <2> QED
    BY <2>1, <2>2
<1>14. CASE ResolveSeries
  <2>1. CASE pc' = "failed"
    BY <1>2, <2>1
  <2>2. CASE pc' # "failed"
    <3>1. /\ SortedByTime(samples') /\ DistinctTimes(samples')
          /\ undisturbed => \A i \in 1..Len(samples') :
               /\ Readable(samples'[i].file)
               /\ fields' = disk[samples'[i].file].fields
      BY <1>14, <2>2, SeriesResolved
    <3>2. pc' = "register" /\ UNCHANGED <<disk, undisturbed>>
      BY <1>14, <2>2 DEF ResolveSeries, Fail, history
    <3>3. \A f : Readable(f)' <=> Readable(f)
      BY <3>2 DEF Readable
    <3> QED
      BY <3>1, <3>2, <3>3 DEF FlashInv
  <2> QED
    BY <2>1, <2>2
<1>15. CASE FindSampleWithData
  BY <1>2, <1>15 DEF FindSampleWithData, Choose
<1>16. CASE FirstSample
  BY <1>2, <1>16 DEF FirstSample, Choose
<1>17. CASE ScanParticleFields \/ ScanParticleClouds
  BY <1>2, <1>17
  DEF ScanParticleFields, ScanParticleClouds, FieldsOfChosen, options
<1>18. CASE ListFields
  BY <1>2, <1>18 DEF ListFields, options
<1>19. ASSUME NEW x \in Fields, CheckField(x)
       PROVE  FlashInv'
  BY <1>1, <1>2, <1>19 DEF CheckField, options, PhaseInv
<1>20. CASE RegisterFlash
  BY <1>1, <1>20 DEF RegisterFlash, RegisterAll, options, history, FlashInv, Readable
<1>21. CASE RegisterVtkHdf \/ RegisterOpenFoam \/ RegisterEdem
  BY <1>2, <1>21 DEF RegisterVtkHdf, RegisterOpenFoam, RegisterEdem, RegisterAll,
     options
<1>22. CASE MeshFails
  BY <1>2, <1>22 DEF MeshFails, Fail
<1>23. CASE Close
  BY <1>2, <1>23 DEF Close
<1>24. CASE UNCHANGED vars
  BY <1>1, <1>24 DEF vars, options, history, FlashInv, Readable
<1> QED
  BY <1>3, <1>4, <1>5, <1>6, <1>7, <1>8, <1>9, <1>10, <1>11, <1>12, <1>13, <1>14,
     <1>15, <1>16, <1>17, <1>18, <1>19, <1>20, <1>21, <1>22, <1>23, <1>24 DEF Next

\* Samples keep the times they were given.
LEMMA NextTimes == IInv /\ [Next]_vars => TimesInv'
<1> SUFFICES ASSUME IInv, [Next]_vars
             PROVE  TimesInv'
  OBVIOUS
<1>1. TypeOK /\ PhaseInv /\ TimesInv
  BY DEF IInv
<1>2. ASSUME pc' \notin {"find", "fields", "check", "register", "done"}
      PROVE  TimesInv'
  BY <1>2 DEF TimesInv
<1>3. ASSUME UNCHANGED <<options, disk, samples, undisturbed>>,
             pc \in {"find", "fields", "check", "register", "done"}
      PROVE  TimesInv'
  BY <1>1, <1>3, SameTimes DEF TimesInv
<1>4. ASSUME Listed, UNCHANGED <<options, disk, undisturbed>>
      PROVE  TimesInv'
  BY <1>4, SameTimes DEF TimesInv, Listed
<1>5. CASE Begin
  BY <1>2, <1>5 DEF Begin
<1>6. ASSUME NEW f \in Files, VisitVtkHdf(f)
      PROVE  TimesInv'
  BY <1>2, <1>6 DEF VisitVtkHdf, Visit, Found
<1>7. ASSUME NEW f \in Files, VisitFlash(f)
      PROVE  TimesInv'
  BY <1>2, <1>7 DEF VisitFlash, Visit, Found
<1>8. ASSUME NEW f \in Files, VisitOpenFoam(f)
      PROVE  TimesInv'
  BY <1>2, <1>8 DEF VisitOpenFoam, Visit, Found
<1>9. ASSUME NEW f \in Files, VisitEdem(f)
      PROVE  TimesInv'
  BY <1>2, <1>9 DEF VisitEdem, Visit, Found, Fail
<1>10. ASSUME NEW f \in Files, Write(f)
       PROVE  TimesInv'
  <2>1. \/ pc' \notin {"find", "fields", "check", "register", "done"}
        \/ ~undisturbed' /\ pc \in {"find", "fields", "check", "register", "done"}
    BY <1>10 DEF Write
  <2>2. StepOrder(samples) => StepOrder(samples)'
    BY <1>10 DEF Write, options, StepOrder, FollowSteps
  <2> QED
    BY <1>1, <2>1, <2>2 DEF TimesInv
<1>11. CASE EndListVtkHdf
  BY <1>4, <1>11, VtkHdfListed DEF EndListVtkHdf, EndList, history
<1>12. CASE EndListFlash
  BY <1>2, <1>12 DEF EndListFlash, EndList
<1>13. CASE EndListOpenFoam
  BY <1>4, <1>13, OpenFoamListed DEF EndListOpenFoam, EndList, history
<1>14. CASE EndListEdem
  BY <1>4, <1>14, EdemListed DEF EndListEdem, EndList, history
<1>15. CASE ScanSnapshot
  BY <1>2, <1>15 DEF ScanSnapshot, Fail
<1>16. CASE ResolveSeries
  <2>1. CASE pc' = "failed"
    BY <1>2, <2>1
  <2>2. CASE pc' # "failed"
    BY <1>4, <1>16, <2>2, SeriesResolved DEF ResolveSeries, history
  <2> QED
    BY <2>1, <2>2
<1>17. CASE FindSampleWithData
  BY <1>2, <1>3, <1>17 DEF FindSampleWithData, Choose, history
<1>18. CASE FirstSample
  BY <1>2, <1>3, <1>18 DEF FirstSample, Choose, history
<1>19. CASE ScanParticleFields \/ ScanParticleClouds
  BY <1>2, <1>3, <1>19 DEF ScanParticleFields, ScanParticleClouds, FieldsOfChosen,
     Fail, history
<1>20. CASE ListFields
  BY <1>2, <1>3, <1>20 DEF ListFields, Fail, history
<1>21. ASSUME NEW x \in Fields, CheckField(x)
       PROVE  TimesInv'
  BY <1>2, <1>3, <1>21 DEF CheckField, history
<1>22. CASE RegisterFlash
  BY <1>2, <1>3, <1>22 DEF RegisterFlash, RegisterAll, history
<1>23. CASE RegisterVtkHdf \/ RegisterOpenFoam \/ RegisterEdem
  BY <1>2, <1>3, <1>23 DEF RegisterVtkHdf, RegisterOpenFoam, RegisterEdem, RegisterAll,
     history
<1>24. CASE MeshFails
  BY <1>2, <1>24 DEF MeshFails, Fail
<1>25. CASE Close
  BY <1>2, <1>25 DEF Close
<1>26. CASE UNCHANGED vars
  BY <1>2, <1>3, <1>26 DEF vars, options, history, history
<1> QED
  BY <1>5, <1>6, <1>7, <1>8, <1>9, <1>10, <1>11, <1>12, <1>13, <1>14, <1>15, <1>16,
     <1>17, <1>18, <1>19, <1>20, <1>21, <1>22, <1>23, <1>24, <1>25, <1>26 DEF Next

\* Every step keeps the invariant.
LEMMA NextInv == IInv /\ [Next]_vars => IInv'
  BY NextTypes, NextHistory, NextPhase, NextCount, NextList, NextFlash, NextTimes,
     NextFields DEF IInv

\* The invariant holds in every state of the specification.
LEMMA Invariant == Spec => []IInv
  BY InitInv, NextInv, PTL DEF Spec

-----------------------------------------------------------------------------
(* What the invariant says when the read is done.                          *)

\* Whatever is registered has the samples, in an order that lookups need.
LEMMA RegisteredIs ==
  ASSUME IInv, pc = "done", NEW x \in DOMAIN registered
  PROVE  /\ registered[x] \in Seq(Sample) /\ Len(registered[x]) = Len(samples)
         /\ FilesOf(registered[x]) = FilesOf(samples) /\ DistinctFiles(registered[x])
         /\ SortedByTime(registered[x]) /\ StepOrder(registered[x])
         /\ undisturbed => HaveTheirTimes(registered[x])
         /\ reader = "FLASH" => registered[x] = samples
<1>1. /\ samples \in Seq(Sample) /\ DistinctFiles(samples) /\ StepOrder(samples)
      /\ undisturbed => HaveTheirTimes(samples)
  BY DEF IInv, TypeOK, CountInv, TimesInv
<1>2. registered[x] \in IF reader = "FLASH" THEN {samples} ELSE RegisteredLists
  BY DEF IInv, PhaseInv
<1>3. CASE reader = "FLASH"
  BY <1>1, <1>2, <1>3 DEF IInv, FlashInv
<1>4. CASE reader # "FLASH"
  BY <1>1, <1>2, <1>4, RegisteredList
<1> QED
  BY <1>3, <1>4

\* Every file that was there is a sample, once.
LEMMA InvEveryFile == IInv => EveryFileIsASample
<1> SUFFICES ASSUME IInv
             PROVE  EveryFileIsASample
  OBVIOUS
<1>1. TypeOK
  BY DEF IInv
<1>2. ASSUME pc = "done", NEW x \in DOMAIN registered
      PROVE  /\ throughout \cap Members \subseteq FilesOf(registered[x])
             /\ FilesOf(registered[x]) \subseteq appeared \cap Members
             /\ Cardinality(FilesOf(registered[x])) = Len(registered[x])
  <2>1. /\ registered[x] \in Seq(Sample) /\ DistinctFiles(registered[x])
        /\ FilesOf(registered[x]) = FilesOf(samples)
    BY <1>2, RegisteredIs
  <2>2. /\ throughout \cap Members \subseteq FilesOf(samples)
        /\ FilesOf(samples) \subseteq appeared \cap Members
    BY <1>2 DEF IInv, CountInv
  <2> QED
    BY <2>1, <2>2, FilesCount
<1> QED
  BY <1>1, <1>2 DEF EveryFileIsASample, NoSampleLost

\* The times of a list follow the numbers of its files.
LEMMA InvTimesFollow == IInv => TimesFollowSteps
<1> SUFFICES ASSUME IInv, pc = "done", NEW x \in DOMAIN registered,
                    NEW i \in 1..Len(registered[x]), NEW j \in 1..Len(registered[x]), i < j
             PROVE  /\ registered[x][i].time <= registered[x][j].time
                    /\ timeSource = "TimeStep" =>
                         FollowSteps(registered[x][i].file, registered[x][j].file)
  BY DEF TimesFollowSteps
<1>1. SortedByTime(registered[x]) /\ StepOrder(registered[x])
  BY RegisteredIs
<1> QED
  BY <1>1 DEF SortedByTime, StepOrder

\* Samples have the times of the file they are of.
LEMMA InvTheirTimes == IInv => SamplesHaveTheirTimes
<1> SUFFICES ASSUME IInv, pc = "done", undisturbed, NEW x \in DOMAIN registered,
                    NEW i \in 1..Len(registered[x])
             PROVE  IF reader = "FLASH" /\ Len(samples) = 1 THEN registered[x][i].time = 0
                    ELSE \E raw \in ReferenceTimes(registered[x][i].file) :
                           registered[x][i].time = SampleTime(raw)
  BY DEF SamplesHaveTheirTimes
<1>1. HaveTheirTimes(registered[x]) /\ Len(registered[x]) = Len(samples)
  BY RegisteredIs
<1> QED
  BY <1>1 DEF HaveTheirTimes

\* Fields that are promised are in the files that were inspected for them.
LEMMA InvPromised == IInv => PromisedFieldsExist
<1> SUFFICES ASSUME IInv, pc = "done"
             PROVE  PromisedFieldsExist
  BY DEF PromisedFieldsExist
<1>1. \A x \in DOMAIN registered : x \in fields /\ FilesOf(registered[x]) = FilesOf(samples)
  BY RegisteredIs DEF IInv, PhaseInv
<1>2. ASSUME undisturbed, reader \in {"FLASH", "OpenFOAM"},
             NEW x \in DOMAIN registered, NEW f \in FilesOf(registered[x])
      PROVE  HasFieldFile(f, x) /\ (reader = "FLASH" => Readable(f))
  <2>1. PICK i \in 1..Len(samples) : samples[i].file = f
    BY <1>1, FilesOfMembers
  <2>2. CASE reader = "FLASH"
    BY <1>1, <1>2, <2>1, <2>2 DEF IInv, FlashInv, HasFieldFile
  <2>3. CASE reader = "OpenFOAM"
    BY <1>1, <1>2, <2>1, <2>3 DEF IInv, FieldsInv, PresentOnAllSamples
  <2> QED
    BY <1>2, <2>2, <2>3
<1>3. ASSUME reader = "FLASH", NEW x \in DOMAIN registered
      PROVE  DistinctTimes(registered[x])
  <2>1. registered[x] = samples
    BY <1>3, RegisteredIs
  <2> QED
    BY <1>3, <2>1 DEF IInv, FlashInv
<1> QED
  BY <1>2, <1>3 DEF PromisedFieldsExist

-----------------------------------------------------------------------------
(* Theorems.                                                               *)

\* However many files there are and whatever the solver writes meanwhile, every
\* registered field has one sample for each file that was there all the time,
\* and none for a file that never was: no listing, sort or skip loses one.
THEOREM EveryFileIsASampleCorrect == Spec => []EveryFileIsASample
<1>1. IInv => EveryFileIsASample
  BY InvEveryFile
<1> QED
  BY <1>1, Invariant, PTL

\* Whatever order the directory is listed in and the sorts leave equal keys in,
\* for every scale and offset: registered times never fall, and with time steps
\* as the source they follow the numbers in the names.
THEOREM TimesFollowStepsCorrect == Spec => []TimesFollowSteps
<1>1. IInv => TimesFollowSteps
  BY InvTimesFollow
<1> QED
  BY <1>1, Invariant, PTL

\* A series that nobody writes to gets, for each sample, the time of its own
\* file: the stored one, the number in the name or its place among the files.
THEOREM SamplesHaveTheirTimesCorrect == Spec => []SamplesHaveTheirTimes
<1>1. IInv => SamplesHaveTheirTimes
  BY InvTheirTimes
<1> QED
  BY <1>1, Invariant, PTL

\* A field that FLASH or OpenFOAM registers is there at every sample, and FLASH
\* has no two samples at one time.
THEOREM PromisedFieldsExistCorrect == Spec => []PromisedFieldsExist
<1>1. IInv => PromisedFieldsExist
  BY InvPromised
<1> QED
  BY <1>1, Invariant, PTL
=============================================================================
