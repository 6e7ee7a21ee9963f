---------------------------- MODULE CgnsReaderProofs ----------------------------
(***************************************************************************)
(* A loader gives the array that its prim, its attribute and its time      *)
(* name, a field has the samples its pointer array says, no solution gets  *)
(* lost, and the library has no other file open: for every file, whatever  *)
(* fails, however many threads call loaders.                               *)
(***************************************************************************)
EXTENDS CgnsReader, TLAPS, FiniteSetTheorems, FunctionTheorems, SequenceTheorems,
        WellFoundedInduction

-----------------------------------------------------------------------------
(* The inductive invariant.                                                *)

Times == [numSteps: Nat, sampleValues: Seq(Int), resolved: Seq(Int)]
Places == [base: Nat \ {0}, zone: Nat, item: Nat \ {0},
           part: {"head", "grids", "sections", "pointers", "solutions"}]
\* The path of a node of a zone, by its identifier.
Under(b, z, id) ==
  <<TfMakeValidIdentifier(file.bases[b].name),
    TfMakeValidIdentifier(file.bases[b].zones[z].name), id>>

FileTypes ==
  /\ file \in [bases: Seq(Bases)] /\ NamesDiffer(file.bases)
  /\ options \in [intSize: Int, floatSize: Int, timeSource: STRING, filterBase: STRING,
                  filterZone: STRING, numbersParse: BOOLEAN]
StateTypes ==
  /\ version \in Nat /\ leaks \in Nat
  /\ holder \in Threads \cup {None}
  /\ phase \in {"unread", "reading", "read", "failed"}
  /\ pc \in [Threads -> {"idle", "reading", "open", "atGrid", "close"}]
  /\ call = [t \in Threads |-> call[t]] /\ value = [t \in Threads |-> value[t]]
  /\ at \in Places
TimeTypes ==
  /\ baseTimes \in [DOMAIN file.bases -> Times]
  /\ \A b \in DOMAIN file.bases :
       baseTimes[b].resolved = ResolveBaseSampleTimes(baseTimes[b].numSteps, baseTimes[b].sampleValues)
TypeInv == FileTypes /\ StateTypes /\ TimeTypes

\* Whoever uses the library holds the mutex, and has one file open.
MutexInv ==
  /\ \A t \in Threads : holder = t <=> pc[t] \in {"reading", "open", "atGrid", "close"}
  /\ NoOtherHandles
  /\ \A t \in Threads : pc[t] = "reading" => phase = "reading"
  /\ \A t \in Threads : pc[t] \in {"open", "atGrid", "close"} => phase = "read"

ShowsBase(b) ==
  /\ b \in DOMAIN file.bases
  /\ file.bases[b].cellDimension = 3
  /\ options.filterBase \in {"", file.bases[b].name}
ShowsZone(b, z) ==
  /\ ShowsBase(b) /\ z \in DOMAIN file.bases[b].zones
  /\ ~file.bases[b].zones[z].structured
  /\ options.filterZone \in {"", file.bases[b].zones[z].name}

\* ReadCGNS has begun a zone, and is done with a solution of one.
Begun(b, z) ==
  /\ ShowsZone(b, z)
  /\ \/ b < at.base
     \/ b = at.base /\ z < at.zone
     \/ b = at.base /\ z = at.zone /\ at.part # "head"
Passed(b, z, s) ==
  /\ ShowsZone(b, z) /\ s \in DOMAIN file.bases[b].zones[z].solutions
  /\ \/ b < at.base
     \/ b = at.base /\ z < at.zone
     \/ b = at.base /\ z = at.zone /\ at.part = "solutions" /\ s < at.item

\* Where ReadCGNS is, is in the file.
AtInv ==
  /\ at.base <= Len(file.bases) + 1
  /\ at.zone > 0 => ShowsBase(at.base) /\ at.zone <= Len(file.bases[at.base].zones) + 1
  /\ at.part # "head" => at.zone > 0 /\ ShowsZone(at.base, at.zone)
  /\ phase = "unread" => at.base = 1 /\ at.zone = 0
  /\ phase = "read" => at.base > Len(file.bases)

PointersInv ==
  at.part = "solutions" =>
    zoneIterative = IF baseTimes[at.base].numSteps = 0 THEN NoPointers
                    ELSE PointersOf(file.bases[at.base].zones[at.zone].pointers)

\* What a sample of an attribute loads is what the attribute stands for.
CoordinateFits(zone, key, loader) ==
  /\ loader.grid \in DOMAIN zone.grids
  /\ loader.grid > 0
  /\ TfMakeValidIdentifier(zone.grids[loader.grid].name) = key[1][3]
  /\ loader.array \in DOMAIN zone.grids[loader.grid].arrays
  /\ GetGridCoordinateInstanceName(zone.grids[loader.grid].arrays[loader.array].name,
                                   loader.array) = key[2]
  /\ loader.count = CoordValueCount(zone, zone.grids[loader.grid].arrays[loader.array])
SectionFits(zone, key, loader) ==
  /\ loader.section \in DOMAIN zone.sections
  /\ TfMakeValidIdentifier(zone.sections[loader.section].name) = key[1][3]
  /\ loader.count = OffsetCount(zone.sections[loader.section])
  /\ loader.values = key[2]
  /\ \/ loader.values = "connectivity"
     \/ loader.kind = "poly" /\ loader.values = "offsets"
FieldFits(b, zone, key, loader, time) ==
  /\ loader.solution \in DOMAIN zone.solutions
  /\ TfMakeValidIdentifier(loader.name) = key[2]
  /\ \E l \in DOMAIN zone.solutions :
       LET leader == zone.solutions[l] steps == StepsOf(b, zone, leader.name) IN
       /\ TfMakeValidIdentifier(leader.name) = key[1][3]
       /\ loader.count = DataSize(zone, leader.location)
       /\ \E i \in DOMAIN steps :
            TimeOfStep(b, i) = time /\ zone.solutions[loader.solution].name = steps[i]
SampleFits(b, z, key, type, sample) ==
  LET zone == file.bases[b].zones[z] loader == sample.loader IN
  /\ loader.base = b /\ loader.zone = z
  /\ DataTypeToSdfTypeName(loader.type) = type
  /\ \/ loader.kind = "coordinate" /\ CoordinateFits(zone, key, loader)
     \/ loader.kind \in {"elements", "poly"} /\ SectionFits(zone, key, loader)
     \/ loader.kind = "field" /\ FieldFits(b, zone, key, loader, sample.time)
AttrFits(b, z, key, attr) ==
  /\ key = <<Under(b, z, key[1][3]), key[2]>>
  /\ \A n \in DOMAIN attr.samples : SampleFits(b, z, key, attr.type, attr.samples[n])
AttrsInv ==
  \A key \in DOMAIN attrs : \E b, z \in Nat : Begun(b, z) /\ AttrFits(b, z, key, attrs[key])

\* Only zones that are shown have prims.
PrimsInv ==
  \A path \in prims : Len(path) = 2 => \E b, z \in Nat : Begun(b, z) /\ path = PathOf(b, z)

\* What follows from a solution that ReadCGNS is done with.
InArray(zone, name) == \E n \in DOMAIN zone.pointers : name \in ToSet(zone.pointers[n])
IsShown(b, z, s) ==
  LET zone == file.bases[b].zones[z] name == zone.solutions[s].name IN
  \/ NodeOf(b, z, name) \in prims
  \/ /\ baseTimes[b].numSteps # 0
     /\ InArray(zone, name) /\ StartingWith(zone.pointers, name) = {}
SamplesFit(b, z, steps, samples) ==
  LET zone == file.bases[b].zones[z] IN
  /\ \A n \in DOMAIN samples :
       /\ samples[n].loader.kind = "field"
       /\ samples[n].loader.base = b /\ samples[n].loader.zone = z
       /\ samples[n].loader.solution \in DOMAIN zone.solutions
  /\ AreSamplesOf(b, zone, steps, samples)
IsLed(b, z, s) ==
  LET zone == file.bases[b].zones[z] solution == zone.solutions[s] IN
  ZoneIsApart(b, z) /\ IsApart(zone.solutions, s) =>
    \A steps \in LeadingArrays(b, zone) : steps[1] = solution.name =>
      \A f \in DOMAIN solution.fields :
        LET key == <<NodeOf(b, z, solution.name), TfMakeValidIdentifier(solution.fields[f].name)>> IN
        key \in DOMAIN attrs /\ SamplesFit(b, z, steps, attrs[key].samples)
SolutionsInv ==
  phase # "failed" =>
    \A b, z, s \in Nat : Passed(b, z, s) => IsShown(b, z, s) /\ IsLed(b, z, s)

\* A call stays with the sample it was made for, and the cursor of a call that
\* went to a grid stays there.
CallInv ==
  \A t \in Threads :
    /\ pc[t] \in {"open", "atGrid", "close"} =>
         /\ call[t].key \in DOMAIN attrs
         /\ call[t].sample \in DOMAIN attrs[call[t].key].samples
         /\ call[t].loader = attrs[call[t].key].samples[call[t].sample].loader
    /\ pc[t] = "atGrid" =>
         /\ call[t].loader.kind = "coordinate"
         /\ cursor = [base |-> call[t].loader.base, zone |-> call[t].loader.zone,
                      grid |-> call[t].loader.grid]
PolyInv ==
  \A key \in DOMAIN polySeen :
    key \in DOMAIN polyCache /\ polySeen[key] \subseteq {polyCache[key].version}

IInv ==
  /\ TypeInv /\ MutexInv /\ AtInv /\ PointersInv /\ AttrsInv /\ PrimsInv /\ SolutionsInv
  /\ CallInv /\ RightArray /\ PolyInv

-----------------------------------------------------------------------------
(* Numbers, and the order of steps.                                        *)

\* A set of natural numbers that is not empty has a least element.
LEMMA LeastElement ==
  ASSUME NEW S, S \subseteq Nat, S # {}
  PROVE  \E x \in S : \A y \in S : x <= y
<1>1. PICK x \in S : \A y \in S : ~ (<<y, x>> \in OpToRel(<, Nat))
  BY NatLessThanWellFounded, WFMin
<1>2. ASSUME NEW y \in S
      PROVE  x <= y
  <2>1. ASSUME y < x
        PROVE  FALSE
    <3>1. <<y, x>> \in {ss \in Nat \X Nat : ss[1] < ss[2]}
      BY <2>1
    <3> QED
      BY <1>1, <3>1 DEF OpToRel
  <2> QED
    BY <2>1
<1> QED
  BY <1>2

\* A bounded set of natural numbers that is not empty has a greatest element.
LEMMA GreatestElement ==
  ASSUME NEW S, S \subseteq Nat, S # {}, NEW b \in Nat, \A x \in S : x <= b
  PROVE  \E x \in S : \A y \in S : x >= y
<1> DEFINE T == {b - x : x \in S}
<1>1. T \subseteq Nat /\ T # {}
  <2>1. \A x \in S : b - x \in Nat
    OBVIOUS
  <2> QED
    BY <2>1
<1>2. PICK d \in T : \A e \in T : d <= e
  BY <1>1, LeastElement
<1>3. PICK x \in S : d = b - x
  BY <1>2
<1>4. \A y \in S : b - x <= b - y
  <2> TAKE y \in S
  <2>1. b - y \in T
    OBVIOUS
  <2> QED
    BY <1>2, <1>3, <2>1
<1>5. \A y \in S : x >= y
  <2> TAKE y \in S
  <2>1. x \in Nat /\ y \in Nat /\ b - x <= b - y
    BY <1>4
  <2> QED
    BY <2>1
<1> QED
  BY <1>5

\* Max is what its name says.
LEMMA MaxIs ==
  ASSUME NEW S, S \subseteq Nat, NEW x \in S, \A y \in S : x >= y
  PROVE  Max(S) = x
<1> DEFINE Greatest(m) == m \in S /\ \A y \in S : m >= y
<1>1. Max(S) = CHOOSE m : Greatest(m)
  BY DEF Max
<1>2. Greatest(CHOOSE m : Greatest(m))
  <2> HIDE DEF Greatest
  <2>1. \E m : Greatest(m)
    BY DEF Greatest
  <2> QED
    BY <2>1
<1>3. Greatest(Max(S))
  BY <1>1, <1>2
<1>4. \A m : Greatest(m) => m = x
  OBVIOUS
<1> HIDE DEF Greatest
<1> QED
  BY <1>3, <1>4

\* The greatest of numbers up to a bound is one of them.
LEMMA MaxIsIn ==
  ASSUME NEW S, S # {}, NEW b \in Nat, S \subseteq 1..b
  PROVE  Max(S) \in S
<1>1. \A x \in S : x \in Nat /\ x <= b
  OBVIOUS
<1>2. PICK x \in S : \A y \in S : x >= y
  BY <1>1, GreatestElement
<1> QED
  BY <1>1, <1>2, MaxIs

\* The order of steps by their times, and the place of a step in it.
Precedes(T, i, j) ==
  \/ T[i] < T[j]
  \/ T[i] = T[j] /\ i < j
PlaceIn(F, T) == [i \in F |-> Cardinality({j \in F : Precedes(T, j, i)}) + 1]

\* A step has a greater place than one that precedes it.
LEMMA PlacesGrow ==
  ASSUME NEW F, IsFiniteSet(F), F \subseteq Nat, NEW T \in [F -> Int],
         NEW i \in F, NEW j \in F, Precedes(T, i, j)
  PROVE  PlaceIn(F, T)[i] < PlaceIn(F, T)[j]
<1> DEFINE before(k) == {l \in F : Precedes(T, l, k)}
<1>1. before(i) \subseteq before(j) /\ i \in before(j) /\ i \notin before(i)
  <2>1. ASSUME NEW k \in F, Precedes(T, k, i)
        PROVE  Precedes(T, k, j)
    <3>1. /\ T[k] \in Int /\ T[i] \in Int /\ T[j] \in Int
          /\ k \in Nat /\ i \in Nat /\ j \in Nat
      OBVIOUS
    <3> QED
      BY <2>1, <3>1 DEF Precedes
  <2>2. ~Precedes(T, i, i)
    <3>1. T[i] \in Int /\ i \in Nat
      OBVIOUS
    <3> QED
      BY <3>1 DEF Precedes
  <2> QED
    BY <2>1, <2>2
<1>2. /\ IsFiniteSet(before(i)) /\ IsFiniteSet(before(j))
      /\ Cardinality(before(i)) \in Nat /\ Cardinality(before(j)) \in Nat
  BY FS_Subset, FS_CardinalityType
<1>3. Cardinality(before(i)) < Cardinality(before(j))
  BY <1>1, <1>2, FS_Subset
<1> QED
  BY <1>2, <1>3 DEF PlaceIn

\* The places of steps are the numbers up to their count, one each, and grow with
\* the times.
LEMMA PlacesAre ==
  ASSUME NEW F, IsFiniteSet(F), F \subseteq Nat, NEW T \in [F -> Int]
  PROVE  /\ PlaceIn(F, T) \in [F -> 1..Cardinality(F)]
         /\ \A i, j \in F : PlaceIn(F, T)[i] = PlaceIn(F, T)[j] => i = j
         /\ \A n \in 1..Cardinality(F) : \E i \in F : PlaceIn(F, T)[i] = n
         /\ \A i, j \in F : PlaceIn(F, T)[i] < PlaceIn(F, T)[j] => T[i] <= T[j]
<1>1. ASSUME NEW i \in F, NEW j \in F
      PROVE  i = j \/ Precedes(T, i, j) \/ Precedes(T, j, i)
  BY DEF Precedes
<1>2. ASSUME NEW i \in F
      PROVE  PlaceIn(F, T)[i] \in 1..Cardinality(F)
  <2> DEFINE before == {l \in F : Precedes(T, l, i)}
  <2>1. before \subseteq F /\ i \notin before
    BY DEF Precedes
  <2>2. IsFiniteSet(before) /\ Cardinality(before) \in Nat /\ Cardinality(F) \in Nat
    BY FS_Subset, FS_CardinalityType
  <2>3. Cardinality(before) < Cardinality(F)
    BY <2>1, <2>2, FS_Subset
  <2> QED
    BY <2>2, <2>3 DEF PlaceIn
<1>3. ASSUME NEW i \in F, NEW j \in F
      PROVE  /\ PlaceIn(F, T)[i] \in Nat
             /\ Precedes(T, i, j) => PlaceIn(F, T)[i] < PlaceIn(F, T)[j]
  <2>1. PlaceIn(F, T)[i] \in Nat
    BY <1>2, FS_CardinalityType
  <2>2. Precedes(T, i, j) => PlaceIn(F, T)[i] < PlaceIn(F, T)[j]
    BY PlacesGrow, Zenon
  <2> QED
    BY <2>1, <2>2
<1>4. ASSUME NEW i \in F, NEW j \in F, PlaceIn(F, T)[i] = PlaceIn(F, T)[j]
      PROVE  i = j
  <2>1. ~(PlaceIn(F, T)[i] < PlaceIn(F, T)[j]) /\ ~(PlaceIn(F, T)[j] < PlaceIn(F, T)[i])
    BY <1>3, <1>4
  <2> QED
    BY <1>1, <1>3, <2>1
<1>5. PlaceIn(F, T) \in Injection(F, 1..Cardinality(F))
  BY <1>2, <1>4, Fun_IsInj DEF PlaceIn
<1>6. IsFiniteSet(1..Cardinality(F)) /\ Cardinality(1..Cardinality(F)) = Cardinality(F)
  BY FS_CardinalityType, FS_Interval
<1>7. PlaceIn(F, T) \in Surjection(F, 1..Cardinality(F))
  BY <1>5, <1>6, FS_Injection
<1>8. ASSUME NEW i \in F, NEW j \in F, PlaceIn(F, T)[i] < PlaceIn(F, T)[j]
      PROVE  T[i] <= T[j]
  <2>1. ~Precedes(T, j, i)
    BY <1>3, <1>8
  <2>2. T[i] \in Int /\ T[j] \in Int
    OBVIOUS
  <2> QED
    BY <2>1, <2>2, <1>1 DEF Precedes
<1>9. /\ PlaceIn(F, T) \in [F -> 1..Cardinality(F)]
      /\ \A n \in 1..Cardinality(F) : \E i \in F : PlaceIn(F, T)[i] = n
  BY <1>7, Fun_SurjectionProperties
<1> QED
  BY <1>4, <1>8, <1>9

\* The samples of a pointer array are sorted: each step that is found once, in the
\* order of the times.
LEMMA SortedByTimeIs ==
  ASSUME NEW steps, IsFiniteSet(StepsFound(steps)), StepsFound(steps) \subseteq Nat,
         \A i \in StepsFound(steps) : StepTime(steps, i) \in Int
  PROVE  LET F == StepsFound(steps) order == SortedByTime(steps) IN
         /\ Cardinality(F) \in Nat
         /\ order \in [1..Cardinality(F) -> F]
         /\ \A i \in F : \E n \in 1..Cardinality(F) : order[n] = i
         /\ \A m, n \in 1..Cardinality(F) :
              m < n => StepTime(steps, order[m]) <= StepTime(steps, order[n])
<1> DEFINE F == StepsFound(steps)
           T == [i \in F |-> StepTime(steps, i)]
           order == SortedByTime(steps)
<1>1. T \in [F -> Int]
  OBVIOUS
<1>2. ASSUME NEW i \in F
      PROVE  Place(steps, i) = PlaceIn(F, T)[i]
  <2>1. \A j \in F : IsBefore(steps, j, i) <=> Precedes(T, j, i)
    BY DEF IsBefore, Precedes
  <2>2. {j \in F : IsBefore(steps, j, i)} = {j \in F : Precedes(T, j, i)}
    BY <2>1
  <2> QED
    BY <2>2 DEF Place, PlaceIn
<1>3. /\ PlaceIn(F, T) \in [F -> 1..Cardinality(F)]
      /\ \A i, j \in F : PlaceIn(F, T)[i] = PlaceIn(F, T)[j] => i = j
      /\ \A n \in 1..Cardinality(F) : \E i \in F : PlaceIn(F, T)[i] = n
      /\ \A i, j \in F : PlaceIn(F, T)[i] < PlaceIn(F, T)[j] => T[i] <= T[j]
  <2> HIDE DEF T
  <2> QED
    BY <1>1, PlacesAre
<1>4. Cardinality(F) \in Nat
  BY FS_CardinalityType
<1>5. ASSUME NEW n \in 1..Cardinality(F)
      PROVE  order[n] \in F /\ PlaceIn(F, T)[order[n]] = n
  <2>1. \E i \in F : PlaceIn(F, T)[i] = n
    BY <1>3
  <2>2. \E i \in F : Place(steps, i) = n
    BY <1>2, <2>1
  <2>3. order[n] = CHOOSE i \in F : Place(steps, i) = n
    BY DEF SortedByTime
  <2>4. order[n] \in F /\ Place(steps, order[n]) = n
    BY <2>2, <2>3
  <2> QED
    BY <1>2, <2>4
<1>6. ASSUME NEW i \in F
      PROVE  \E n \in 1..Cardinality(F) : order[n] = i
  <2>1. PlaceIn(F, T)[i] \in 1..Cardinality(F)
    BY <1>3
  <2>2. order[PlaceIn(F, T)[i]] = i
    BY <1>3, <1>5, <2>1
  <2> QED
    BY <2>1, <2>2
<1>7. ASSUME NEW m \in 1..Cardinality(F), NEW n \in 1..Cardinality(F), m < n
      PROVE  StepTime(steps, order[m]) <= StepTime(steps, order[n])
  <2>1. T[order[m]] <= T[order[n]]
    <3> HIDE DEF T, order
    <3> QED
      BY <1>3, <1>5, <1>7
  <2> QED
    BY <1>5, <2>1
<1>8. order \in [1..Cardinality(F) -> F]
  BY <1>5 DEF SortedByTime
<1> QED
  BY <1>4, <1>6, <1>7, <1>8

\* Registering attributes: those with other keys stay, and a key that is registered
\* gets one of the attributes with it.
LEMMA RegisteredAttrs ==
  ASSUME NEW more, NEW L \in Nat, DOMAIN more \subseteq 1..L, RegisterAll(more)
  PROVE  /\ DOMAIN attrs' = DOMAIN attrs \cup {more[n].key : n \in DOMAIN more}
         /\ \A key \in DOMAIN attrs : (\A n \in DOMAIN more : more[n].key # key) =>
              attrs'[key] = attrs[key]
         /\ \A n \in DOMAIN more : \E m \in DOMAIN more :
              more[m].key = more[n].key /\ attrs'[more[n].key] = more[m]
<1> DEFINE of(key) == {n \in DOMAIN more : more[n].key = key}
<1>1. attrs' = [key \in DOMAIN attrs \cup {more[n].key : n \in DOMAIN more} |->
                  IF of(key) = {} THEN attrs[key] ELSE more[Max(of(key))]]
  BY DEF RegisterAll, AttrsWith
<1>2. ASSUME NEW key \in DOMAIN attrs, \A n \in DOMAIN more : more[n].key # key
      PROVE  attrs'[key] = attrs[key]
  BY <1>1, <1>2
<1>3. ASSUME NEW n \in DOMAIN more
      PROVE  \E m \in DOMAIN more :
               more[m].key = more[n].key /\ attrs'[more[n].key] = more[m]
  <2> DEFINE S == of(more[n].key)
  <2>1. S # {} /\ S \subseteq 1..L
    OBVIOUS
  <2>2. Max(S) \in S
    <3> HIDE DEF S
    <3> QED
      BY <2>1, MaxIsIn
  <2>3. attrs'[more[n].key] = more[Max(S)]
    BY <1>1, <2>1
  <2> QED
    BY <2>2, <2>3
<1> QED
  BY <1>1, <1>2, <1>3

-----------------------------------------------------------------------------
(* The file, and where ReadCGNS is in it.                                  *)

\* A base of the file, and its times.
LEMMA BaseTypes ==
  ASSUME TypeInv, NEW b \in DOMAIN file.bases
  PROVE  /\ Len(file.bases) \in Nat /\ b \in 1..Len(file.bases)
         /\ file.bases[b] \in Bases
         /\ Len(file.bases[b].zones) \in Nat
         /\ DOMAIN file.bases[b].zones = 1..Len(file.bases[b].zones)
         /\ baseTimes[b] \in Times
<1>1. file.bases \in Seq(Bases)
  BY DEF TypeInv, FileTypes, StateTypes, TimeTypes
<1>2. /\ DOMAIN file.bases = 1..Len(file.bases) /\ Len(file.bases) \in Nat
      /\ file.bases[b] \in Bases
  BY <1>1
<1>3. file.bases[b].zones \in Seq(Zones)
  BY <1>2 DEF Bases
<1> QED
  BY <1>2, <1>3 DEF TypeInv, FileTypes, StateTypes, TimeTypes

\* A zone of the file, its solutions and its pointer arrays.
LEMMA ZoneTypes ==
  ASSUME TypeInv, NEW b \in DOMAIN file.bases, NEW z \in DOMAIN file.bases[b].zones
  PROVE  LET zone == file.bases[b].zones[z] IN
         /\ z \in Nat /\ z > 0
         /\ zone \in Zones
         /\ zone.solutions \in Seq(Solutions) /\ Len(zone.solutions) \in Nat
         /\ DOMAIN zone.solutions = 1..Len(zone.solutions)
         /\ zone.pointers \in Seq(Seq(STRING)) /\ Len(zone.pointers) \in Nat
         /\ DOMAIN zone.pointers = 1..Len(zone.pointers)
         /\ \A n \in DOMAIN zone.pointers : zone.pointers[n] \in Seq(STRING)
         /\ \A s \in DOMAIN zone.solutions :
              /\ zone.solutions[s] \in Solutions
              /\ Len(zone.solutions[s].fields) \in Nat
              /\ DOMAIN zone.solutions[s].fields = 1..Len(zone.solutions[s].fields)
<1> DEFINE zone == file.bases[b].zones[z]
<1>1. /\ file.bases[b].zones \in Seq(Zones)
      /\ Len(file.bases[b].zones) \in Nat
      /\ DOMAIN file.bases[b].zones = 1..Len(file.bases[b].zones)
  BY BaseTypes DEF Bases
<1>2. z \in Nat /\ z > 0 /\ zone \in Zones
  BY <1>1
<1>3. /\ zone.solutions \in Seq(Solutions)
      /\ zone.pointers \in Seq(Seq(STRING))
  BY <1>2 DEF Zones
<1>4. ASSUME NEW s \in DOMAIN zone.solutions
      PROVE  /\ zone.solutions[s] \in Solutions
             /\ Len(zone.solutions[s].fields) \in Nat
             /\ DOMAIN zone.solutions[s].fields = 1..Len(zone.solutions[s].fields)
  <2>1. zone.solutions[s] \in Solutions
    BY <1>3, <1>4
  <2>2. zone.solutions[s].fields \in Seq(Fields)
    BY <2>1 DEF Solutions
  <2>3. ASSUME NEW fields \in Seq(Fields)
        PROVE  Len(fields) \in Nat /\ DOMAIN fields = 1..Len(fields)
    BY <2>3
  <2> QED
    BY <2>1, <2>2, <2>3
<1>5. \A n \in DOMAIN zone.pointers : zone.pointers[n] \in Seq(STRING)
  <2>1. ASSUME NEW seq \in Seq(Seq(STRING)), NEW n \in DOMAIN seq
        PROVE  seq[n] \in Seq(STRING)
    BY <2>1, ElementOfSeq
  <2> QED
    BY <1>3, <2>1
<1>6. Len(zone.solutions) \in Nat /\ DOMAIN zone.solutions = 1..Len(zone.solutions)
  BY <1>3
<1>7. Len(zone.pointers) \in Nat /\ DOMAIN zone.pointers = 1..Len(zone.pointers)
  BY <1>3
<1> QED
  BY <1>2, <1>3, <1>4, <1>5, <1>6, <1>7

\* No other zone is in the place of one that is apart.
LEMMA ZonesDiffer ==
  ASSUME NEW b, NEW z, ZoneIsApart(b, z),
         NEW c \in DOMAIN file.bases, NEW y \in DOMAIN file.bases[c].zones,
         PathOf(b, z) = PathOf(c, y)
  PROVE  b = c /\ z = y
<1>1. /\ TfMakeValidIdentifier(file.bases[b].name) = TfMakeValidIdentifier(file.bases[c].name)
      /\ TfMakeValidIdentifier(file.bases[b].zones[z].name)
           = TfMakeValidIdentifier(file.bases[c].zones[y].name)
  BY DEF PathOf
<1>2. b = c
  BY <1>1 DEF ZoneIsApart, IsApart
<1>3. z = y
  BY <1>1, <1>2 DEF ZoneIsApart, IsApart
<1> QED
  BY <1>2, <1>3

\* No two solutions of a zone, and no two fields of a solution, have one name.
LEMMA SolutionsDiffer ==
  ASSUME TypeInv,
         NEW b \in DOMAIN file.bases, NEW z \in DOMAIN file.bases[b].zones
  PROVE  /\ Differ(file.bases[b].zones[z].solutions)
         /\ \A s \in DOMAIN file.bases[b].zones[z].solutions :
              Differ(file.bases[b].zones[z].solutions[s].fields)
  BY DEF TypeInv, FileTypes, NamesDiffer

\* The time of a step is the one the pointer arrays and the properties go by.
LEMMA TimesResolved ==
  ASSUME TypeInv, at.base \in DOMAIN file.bases, NEW i \in Nat, i > 0
  PROVE  ResolveSampleTime(i) = TimeOfStep(at.base, i) /\ TimeOfStep(at.base, i) \in Int
<1> DEFINE times == baseTimes[at.base]
<1>1. times \in Times /\ times.resolved = ResolveBaseSampleTimes(times.numSteps, times.sampleValues)
  BY BaseTypes DEF TypeInv, FileTypes, StateTypes, TimeTypes
<1>2. /\ times.numSteps \in Nat
      /\ times.sampleValues \in Seq(Int) /\ times.resolved \in Seq(Int)
  BY <1>1 DEF Times
<1>3. RawTime(at.base, i) \in Int
  BY <1>2 DEF RawTime
<1>4. TimeOfStep(at.base, i) \in Int
  BY <1>3, ConstantsAssumption DEF TimeOfStep
<1>5. CASE times.sampleValues = <<>>
  <2>1. RawTime(at.base, i) = i - 1
    BY <1>5 DEF RawTime
  <2>2. times.resolved = [n \in 1..times.numSteps |-> SampleTimeOf(n - 1)]
    BY <1>1, <1>5 DEF ResolveBaseSampleTimes
  <2>3. Len(times.resolved) = times.numSteps
    BY <1>2, <2>2
  <2> QED
    BY <1>2, <1>4, <2>1, <2>2, <2>3 DEF ResolveSampleTime, TimeOfStep, SampleTimeOf
<1>6. CASE times.sampleValues # <<>>
  <2>1. times.resolved = [n \in DOMAIN times.sampleValues |-> SampleTimeOf(times.sampleValues[n])]
    BY <1>1, <1>6 DEF ResolveBaseSampleTimes
  <2>2. /\ DOMAIN times.resolved = DOMAIN times.sampleValues
        /\ DOMAIN times.resolved = 1..Len(times.resolved)
    BY <1>2, <2>1
  <2>3. CASE i <= Len(times.resolved)
    BY <1>2, <1>4, <2>1, <2>2, <2>3 DEF ResolveSampleTime, TimeOfStep, RawTime, SampleTimeOf
  <2>4. CASE ~(i <= Len(times.resolved))
    <3>1. i \notin DOMAIN times.sampleValues
      BY <1>2, <2>2, <2>4
    <3> QED
      BY <1>4, <2>4, <3>1 DEF ResolveSampleTime, TimeOfStep, RawTime, SampleTimeOf
  <2> QED
    BY <2>3, <2>4
<1> QED
  BY <1>5, <1>6

\* What is said of a base changes with the times of that base only.
LEMMA StepsKept ==
  ASSUME NEW b, baseTimes'[b] = baseTimes[b]
  PROVE  /\ \A zone, name : StepsOf(b, zone, name)' = StepsOf(b, zone, name)
         /\ \A i : TimeOfStep(b, i)' = TimeOfStep(b, i)
         /\ \A zone : LeadingArrays(b, zone)' = LeadingArrays(b, zone)
<1>1. \A zone, name : StepsOf(b, zone, name)' = StepsOf(b, zone, name)
  BY DEF StepsOf
<1>2. \A i : TimeOfStep(b, i)' = TimeOfStep(b, i)
  BY DEF TimeOfStep, RawTime
<1>3. ASSUME NEW zone
      PROVE  LeadingArrays(b, zone)' = LeadingArrays(b, zone)
  BY <1>1 DEF LeadingArrays
<1> QED
  BY <1>1, <1>2, <1>3

-----------------------------------------------------------------------------
(* What a step keeps.                                                      *)

\* ReadCGNS goes on: what it has begun stays begun, with the times it has.
GoesOn ==
  /\ file' = file /\ options' = options
  /\ \A b, z \in Nat : Begun(b, z) => Begun(b, z)' /\ baseTimes'[b] = baseTimes[b]

\* An attribute stands for the same arrays as long as ReadCGNS goes on.
LEMMA AttrFitsKept ==
  ASSUME GoesOn,
         NEW b \in Nat, NEW z \in Nat, Begun(b, z),
         NEW key, NEW attr, AttrFits(b, z, key, attr)
  PROVE  AttrFits(b, z, key, attr)'
<1> DEFINE zone == file.bases[b].zones[z]
<1>1. file' = file /\ baseTimes'[b] = baseTimes[b]
  BY DEF GoesOn
<1>2. ASSUME NEW n \in DOMAIN attr.samples
      PROVE  SampleFits(b, z, key, attr.type, attr.samples[n])'
  <2> DEFINE loader == attr.samples[n].loader
  <2>1. SampleFits(b, z, key, attr.type, attr.samples[n])
    BY DEF AttrFits
  <2>2. ASSUME SectionFits(zone, key, loader)
        PROVE  SectionFits(zone, key, loader)'
    BY <1>1, <2>2 DEF SectionFits
  <2>3. ASSUME FieldFits(b, zone, key, loader, attr.samples[n].time)
        PROVE  FieldFits(b, zone, key, loader, attr.samples[n].time)'
    BY <1>1, <2>3, StepsKept DEF FieldFits
  <2>4. CoordinateFits(zone, key, loader) => CoordinateFits(zone, key, loader)'
    BY <1>1 DEF CoordinateFits
  <2> QED
    BY <1>1, <2>1, <2>2, <2>3, <2>4 DEF SampleFits
<1>3. key = <<Under(b, z, key[1][3]), key[2]>>'
  BY <1>1 DEF AttrFits, Under
<1> QED
  BY <1>2, <1>3 DEF AttrFits

\* The attributes keep fitting when those that are new fit.
LEMMA AttrsKept ==
  ASSUME AttrsInv, GoesOn,
         \A key \in DOMAIN attrs' :
           \/ key \in DOMAIN attrs /\ attrs'[key] = attrs[key]
           \/ \E b, z \in Nat : Begun(b, z)' /\ AttrFits(b, z, key, attrs[key])'
  PROVE  AttrsInv'
<1> SUFFICES ASSUME NEW key \in DOMAIN attrs', key \in DOMAIN attrs, attrs'[key] = attrs[key]
             PROVE  \E b, z \in Nat : Begun(b, z)' /\ AttrFits(b, z, key, attrs[key])'
  BY DEF AttrsInv
<1>1. PICK b \in Nat, z \in Nat : Begun(b, z) /\ AttrFits(b, z, key, attrs[key])
  BY DEF AttrsInv
<1>2. AttrFits(b, z, key, attrs[key])'
  BY <1>1, AttrFitsKept
<1>3. Begun(b, z)'
  BY <1>1 DEF GoesOn
<1> QED
  BY <1>2, <1>3

\* The prims of zones stay those of zones that are begun.
LEMMA PrimsKept ==
  ASSUME PrimsInv, GoesOn,
         \A path \in prims' : path \in prims \/ Len(path) # 2
                              \/ \E b, z \in Nat : Begun(b, z)' /\ path = PathOf(b, z)
  PROVE  PrimsInv'
<1>1. \A b, z : PathOf(b, z)' = PathOf(b, z)
  BY DEF PathOf, GoesOn
<1> SUFFICES ASSUME NEW path \in prims', Len(path) = 2
             PROVE  \E b, z \in Nat : Begun(b, z)' /\ path = PathOf(b, z)'
  BY DEF PrimsInv
<1>2. CASE path \in prims
  <2>1. PICK b \in Nat, z \in Nat : Begun(b, z) /\ path = PathOf(b, z)
    BY <1>2 DEF PrimsInv
  <2> QED
    BY <1>1, <2>1 DEF GoesOn
<1>3. CASE path \notin prims
  BY <1>1, <1>3
<1> QED
  BY <1>2, <1>3

\* A zone with a solution that is passed is begun.
LEMMA PassedIsBegun ==
  ASSUME NEW b, NEW z, NEW s, Passed(b, z, s)
  PROVE  Begun(b, z)
  BY DEF Passed, Begun

\* No attribute below the node of a solution changes.
KeepsNode(b, z, s) ==
  ZoneIsApart(b, z) /\ IsApart(file.bases[b].zones[z].solutions, s) =>
  \A key \in DOMAIN attrs :
    key[1] = NodeOf(b, z, file.bases[b].zones[z].solutions[s].name) =>
      key \in DOMAIN attrs' /\ attrs'[key] = attrs[key]

\* A step that registers nothing changes no attribute of a solution.
LEMMA NodesKept ==
  ASSUME attrs' = attrs, NEW b, NEW z, NEW s
  PROVE  KeepsNode(b, z, s)
  BY DEF KeepsNode

\* Samples fit as long as the times of their base stay.
LEMMA SamplesFitKept ==
  ASSUME file' = file, NEW b, baseTimes'[b] = baseTimes[b],
         NEW z, NEW steps, NEW samples, SamplesFit(b, z, steps, samples)
  PROVE  SamplesFit(b, z, steps, samples)'
<1> DEFINE found == {i \in DOMAIN steps : InFile(file.bases[b].zones[z], steps[i])}
<1>1. \A i : TimeOfStep(b, i)' = TimeOfStep(b, i)
  BY StepsKept
<1>2. {<<TimeOfStep(b, i), steps[i]>> : i \in found}' = {<<TimeOfStep(b, i), steps[i]>> : i \in found}
  BY <1>1
<1> QED
  BY <1>2 DEF SamplesFit, AreSamplesOf

\* What follows from a solution that was passed keeps following from it.
LEMMA SolutionKept ==
  ASSUME TypeInv, GoesOn, prims \subseteq prims',
         NEW b \in Nat, NEW z \in Nat, NEW s \in Nat,
         Passed(b, z, s), IsShown(b, z, s), IsLed(b, z, s),
         KeepsNode(b, z, s)
  PROVE  IsShown(b, z, s)' /\ IsLed(b, z, s)'
<1> DEFINE zone == file.bases[b].zones[z] solution == zone.solutions[s]
           keyOf(f) == <<NodeOf(b, z, solution.name), TfMakeValidIdentifier(solution.fields[f].name)>>
<1>1. file' = file /\ baseTimes'[b] = baseTimes[b]
  BY PassedIsBegun DEF GoesOn
<1>2. IsShown(b, z, s)'
  BY <1>1 DEF IsShown, NodeOf
<1>3. ASSUME ZoneIsApart(b, z), IsApart(zone.solutions, s),
             NEW steps \in LeadingArrays(b, zone), steps[1] = solution.name,
             NEW f \in DOMAIN solution.fields
      PROVE  /\ keyOf(f) \in DOMAIN attrs'
             /\ \A list : list = attrs'[keyOf(f)].samples => SamplesFit(b, z, steps, list)'
  <2>1. keyOf(f) \in DOMAIN attrs /\ SamplesFit(b, z, steps, attrs[keyOf(f)].samples)
    BY <1>3 DEF IsLed
  <2>2. keyOf(f)[1] = NodeOf(b, z, solution.name)
    OBVIOUS
  <2>3. keyOf(f) \in DOMAIN attrs' /\ attrs'[keyOf(f)] = attrs[keyOf(f)]
    BY <1>3, <2>1, <2>2 DEF KeepsNode
  <2>4. \A list : SamplesFit(b, z, steps, list) => SamplesFit(b, z, steps, list)'
    BY <1>1, SamplesFitKept
  <2>5. ASSUME NEW list, list = attrs[keyOf(f)].samples
        PROVE  SamplesFit(b, z, steps, list)'
    BY <2>1, <2>4, <2>5
  <2> QED
    BY <2>3, <2>5
<1>4. LeadingArrays(b, zone)' = LeadingArrays(b, zone)
  BY <1>1, StepsKept
<1>5. IsLed(b, z, s)'
  <2> SUFFICES ASSUME ZoneIsApart(b, z)', IsApart(zone.solutions, s)',
                      NEW steps \in LeadingArrays(b, zone)', steps[1] = solution'.name,
                      NEW f \in DOMAIN solution'.fields
               PROVE  /\ keyOf(f)' \in DOMAIN attrs'
                      /\ SamplesFit(b, z, steps, attrs[keyOf(f)].samples)'
    BY DEF IsLed
  <2>1. keyOf(f)' = keyOf(f) /\ solution' = solution
    BY <1>1 DEF NodeOf
  <2>2. ZoneIsApart(b, z) /\ IsApart(zone.solutions, s)
    BY <1>1 DEF ZoneIsApart, IsApart
  <2> QED
    BY <1>3, <1>4, <2>1, <2>2
<1> QED
  BY <1>2, <1>5

\* The solutions ReadCGNS is done with stay those, and a new one is in order.
LEMMA SolutionsKept ==
  ASSUME TypeInv, SolutionsInv, GoesOn, phase # "failed", prims \subseteq prims',
         \A b, z, s \in Nat : Passed(b, z, s)' =>
           \/ /\ Passed(b, z, s)
              /\ KeepsNode(b, z, s)
           \/ IsShown(b, z, s)' /\ IsLed(b, z, s)'
  PROVE  SolutionsInv'
<1> SUFFICES ASSUME NEW b \in Nat, NEW z \in Nat, NEW s \in Nat, Passed(b, z, s)'
             PROVE  IsShown(b, z, s)' /\ IsLed(b, z, s)'
  BY DEF SolutionsInv
<1>1. Passed(b, z, s) => IsShown(b, z, s) /\ IsLed(b, z, s)
  BY DEF SolutionsInv
<1> QED
  BY <1>1, SolutionKept

\* A step that reads nothing, and at most ends the reading.
LEMMA ReadKept ==
  ASSUME TypeInv, AttrsInv, PrimsInv, SolutionsInv, PointersInv,
         UNCHANGED <<file, options, readVars>>,
         phase = "failed" => phase' = "failed"
  PROVE  AttrsInv' /\ PrimsInv' /\ SolutionsInv' /\ PointersInv'
<1>1. \A b, z, s : (Begun(b, z)' <=> Begun(b, z)) /\ (Passed(b, z, s)' <=> Passed(b, z, s))
  BY DEF Begun, Passed, ShowsZone, ShowsBase, readVars
<1>2. GoesOn
  BY <1>1 DEF GoesOn, readVars
<1>3. AttrsInv'
  BY <1>2, AttrsKept DEF readVars
<1>4. PrimsInv'
  BY <1>2, PrimsKept DEF readVars
<1>5. SolutionsInv'
  <2>1. CASE phase' = "failed"
    BY <2>1 DEF SolutionsInv
  <2>2. CASE phase # "failed"
    BY <1>1, <1>2, <2>2, NodesKept, SolutionsKept DEF readVars
  <2> QED
    BY <2>1, <2>2
<1>6. PointersInv'
  BY DEF PointersInv, readVars
<1> QED
  BY <1>3, <1>4, <1>5, <1>6

\* While the file is read nobody is in a call.
LEMMA NoCallsKept ==
  ASSUME PolyInv, UNCHANGED <<polyCache, polySeen>>,
         \A t \in Threads : pc'[t] \notin {"open", "atGrid", "close"}
  PROVE  CallInv' /\ RightArray' /\ PolyInv'
  BY DEF CallInv, RightArray, PolyInv

\* ReadCGNS moves to a later place.
MovesOn ==
  \/ at'.base > at.base
  \/ at'.base = at.base /\ at'.zone > at.zone
  \/ at'.base = at.base /\ at'.zone = at.zone /\ (at.part # "head" => at'.part # "head")

\* Moving to a later place, nothing that was begun is left, and only the times of a
\* base that was not are set.
LEMMA MovingGoesOn ==
  ASSUME TypeInv, TypeInv', AtInv, UNCHANGED <<file, options>>, MovesOn,
         \/ baseTimes' = baseTimes
         \/ at.zone = 0 /\ \A b \in Nat : b # at.base => baseTimes'[b] = baseTimes[b]
  PROVE  GoesOn
<1>1. ASSUME NEW b \in Nat, NEW z \in Nat, Begun(b, z)
      PROVE  Begun(b, z)' /\ baseTimes'[b] = baseTimes[b]
  <2>1. ShowsZone(b, z)'
    BY <1>1 DEF Begun, ShowsZone, ShowsBase
  <2>2. /\ at.base \in Nat /\ at.zone \in Nat /\ at'.base \in Nat /\ at'.zone \in Nat
    BY DEF TypeInv, StateTypes, Places
  <2>3. Begun(b, z)'
    BY <1>1, <2>1, <2>2 DEF Begun, MovesOn
  <2>4. baseTimes'[b] = baseTimes[b]
    BY <1>1, <2>2 DEF Begun, AtInv
  <2> QED
    BY <2>3, <2>4
<1> QED
  BY <1>1 DEF GoesOn

-----------------------------------------------------------------------------
(* Types and the mutex.                                                    *)

\* The times of a base, read or not.
LEMMA BaseTimeTypes ==
  ASSUME TypeInv, at.base \in DOMAIN file.bases,
         NEW gotoFails \in BOOLEAN, NEW readFails \in BOOLEAN
  PROVE  LET times == ReadBaseTimeInfo(gotoFails, readFails) IN
         /\ times \in Times
         /\ times.resolved = ResolveBaseSampleTimes(times.numSteps, times.sampleValues)
<1> DEFINE times == ReadBaseTimeInfo(gotoFails, readFails)
           iterative == Base.iterative
           name == GetIterativeArrayNameForTimeSource
           values == IF readFails \/ name = "" THEN <<>> ELSE iterative.arrays[name]
<1>1. CASE times = NoTime
  <2>1. ResolveBaseSampleTimes(0, <<>>) = <<>>
    BY DEF ResolveBaseSampleTimes
  <2> QED
    BY <1>1, <2>1 DEF NoTime, Times
<1>2. CASE times # NoTime
  <2>1. /\ iterative # None
        /\ times = [numSteps |-> iterative.steps, sampleValues |-> values,
                    resolved |-> ResolveBaseSampleTimes(iterative.steps, values)]
    BY <1>2 DEF ReadBaseTimeInfo
  <2>2. iterative \in Iterative
    BY <2>1, BaseTypes DEF Base, Bases
  <2>3. values \in Seq(Int)
    <3>1. name \in {"TimeValues", "IterationValues", ""}
      BY DEF GetIterativeArrayNameForTimeSource
    <3>2. iterative.arrays \in [{"TimeValues", "IterationValues"} -> Seq(Int)]
      BY <2>2 DEF Iterative
    <3> HIDE DEF name, iterative
    <3>3. CASE readFails \/ name = ""
      <4>1. values = <<>>
        BY <3>3
      <4> HIDE DEF values
      <4> QED
        BY <4>1
    <3>4. CASE ~(readFails \/ name = "")
      BY <3>1, <3>2, <3>4
    <3> QED
      BY <3>3, <3>4
  <2>4. iterative.steps \in Nat
    BY <2>2 DEF Iterative
  <2>5. \A raw \in Int : SampleTimeOf(raw) \in Int
    BY ConstantsAssumption DEF SampleTimeOf
  <2>6. ResolveBaseSampleTimes(iterative.steps, values) \in Seq(Int)
    <3> HIDE DEF values, iterative
    <3>1. CASE values = <<>>
      <4>1. \A i \in 1..iterative.steps : SampleTimeOf(i - 1) \in Int
        BY <2>4, <2>5
      <4> QED
        BY <2>4, <3>1, <4>1 DEF ResolveBaseSampleTimes
    <3>2. CASE values # <<>>
      <4>1. DOMAIN values = 1..Len(values) /\ Len(values) \in Nat
        BY <2>3
      <4>2. \A i \in 1..Len(values) : SampleTimeOf(values[i]) \in Int
        BY <2>3, <2>5
      <4> QED
        BY <3>2, <4>1, <4>2 DEF ResolveBaseSampleTimes
    <3> QED
      BY <3>1, <3>2
  <2> HIDE DEF values, iterative
  <2> QED
    BY <2>1, <2>3, <2>4, <2>6 DEF Times
<1> QED
  BY <1>1, <1>2

\* A base whose head is read is there.
LEMMA AtIsThere ==
  ASSUME TypeInv, AtInv
  PROVE  /\ at.zone > 0 => at.base \in DOMAIN file.bases
         /\ at.zone = 0 /\ at.base <= Len(file.bases) => at.base \in DOMAIN file.bases
<1>1. DOMAIN file.bases = 1..Len(file.bases) /\ Len(file.bases) \in Nat
  BY DEF TypeInv, FileTypes
<1>2. at.base \in Nat \ {0}
  BY DEF TypeInv, StateTypes, Places
<1>3. at.zone > 0 => at.base \in DOMAIN file.bases
  BY DEF AtInv, ShowsBase
<1> QED
  BY <1>1, <1>2, <1>3

\* The places ReadCGNS goes to from a place.
LEMMA NextPlaces ==
  ASSUME NEW place \in Places
  PROVE  /\ [place EXCEPT !.base = @ + 1] \in Places
         /\ [place EXCEPT !.zone = 1] \in Places
         /\ [place EXCEPT !.base = @ + 1, !.zone = 0] \in Places
         /\ [place EXCEPT !.zone = @ + 1] \in Places
         /\ [place EXCEPT !.item = @ + 1] \in Places
         /\ [place EXCEPT !.zone = @ + 1, !.part = "head"] \in Places
         /\ \A part \in {"grids", "sections", "pointers", "solutions"} :
              [place EXCEPT !.part = part, !.item = 1] \in Places
<1>1. /\ place.base + 1 \in Nat \ {0} /\ place.zone + 1 \in Nat /\ place.item + 1 \in Nat \ {0}
      /\ 0 \in Nat /\ 1 \in Nat \ {0}
  BY DEF Places
<1>2. [place EXCEPT !.base = @ + 1] \in Places
  BY <1>1 DEF Places
<1>3. [place EXCEPT !.zone = 1] \in Places
  BY <1>1 DEF Places
<1>4. [place EXCEPT !.base = @ + 1, !.zone = 0] \in Places
  BY <1>1 DEF Places
<1>5. [place EXCEPT !.zone = @ + 1] \in Places
  BY <1>1 DEF Places
<1>6. [place EXCEPT !.item = @ + 1] \in Places
  BY <1>1 DEF Places
<1>7. [place EXCEPT !.zone = @ + 1, !.part = "head"] \in Places
  BY <1>1 DEF Places
<1>8. ASSUME NEW part \in {"grids", "sections", "pointers", "solutions"}
      PROVE  [place EXCEPT !.part = part, !.item = 1] \in Places
  BY <1>1 DEF Places
<1> QED
  BY <1>2, <1>3, <1>4, <1>5, <1>6, <1>7, <1>8

\* The types of what changes from step to step; nobody changes the file's layout.
LEMMA StateTypesKept ==
  ASSUME StateTypes, [Next]_vars
  PROVE  StateTypes' /\ UNCHANGED <<file, options>>
<1> USE DEF fileVars, libraryVars, readVars, loadVars, StateTypes
<1>1. CASE UNCHANGED vars
  BY <1>1 DEF vars
<1>2. ASSUME NEW t \in Threads, ReadStep(t)
      PROVE  StateTypes' /\ UNCHANGED <<file, options>>
  <2> USE DEF Goto, NextItem, NextPart, CloseAfterRead
  <2>1. CASE OpenFile(t)
    BY <2>1 DEF OpenFile
  <2>2. CASE ParseReadOptionsThrows(t)
    BY <2>2 DEF ParseReadOptionsThrows
  <2>3. CASE ReadThrows(t)
    BY <2>3 DEF ReadThrows
  <2>4. CASE ReadBase(t)
    BY <2>4, NextPlaces DEF ReadBase
  <2>5. CASE EndBase(t)
    BY <2>5, NextPlaces DEF EndBase
  <2>6. CASE ReadZone(t)
    BY <2>6, NextPlaces DEF ReadZone
  <2>7. CASE ReadGridCoordinates(t)
    BY <2>7, NextPlaces DEF ReadGridCoordinates
  <2>8. CASE ReadSections(t)
    BY <2>8, NextPlaces DEF ReadSections
  <2>9. CASE ReadZoneIterativeInfo(t)
    BY <2>9, NextPlaces DEF ReadZoneIterativeInfo
  <2>10. CASE ReadFlowSolution(t)
    BY <2>10, NextPlaces DEF ReadFlowSolution
  <2>11. CASE EndZone(t)
    BY <2>11, NextPlaces DEF EndZone
  <2>12. CASE EndRead(t)
    BY <2>12 DEF EndRead
  <2> QED
    BY <1>2, <2>1, <2>2, <2>3, <2>4, <2>5, <2>6, <2>7, <2>8, <2>9, <2>10, <2>11, <2>12 DEF ReadStep
<1>3. ASSUME NEW t \in Threads, CallLoader(t) \/ LoadStep(t)
      PROVE  StateTypes' /\ UNCHANGED <<file, options>>
  <2> USE DEF Goto, Give, CloseAfterRead
  <2>1. CASE CallLoader(t)
    BY <2>1 DEF CallLoader
  <2>2. CASE GotoGrid(t)
    BY <2>2 DEF GotoGrid
  <2>3. CASE ReadCurrentCGNSArrayAsValue(t)
    BY <2>3 DEF ReadCurrentCGNSArrayAsValue
  <2>4. CASE ReadElementConnectivityAsValue(t)
    BY <2>4 DEF ReadElementConnectivityAsValue
  <2>5. CASE ReadPolyElementsAsValues(t)
    BY <2>5 DEF ReadPolyElementsAsValues
  <2>6. CASE ReadFlowSolutionField(t)
    <3>1. /\ \E v : Give(t, v)
          /\ UNCHANGED <<fileVars, libraryVars, phase, readVars, call, leaks>>
      BY <2>6 DEF ReadFlowSolutionField
    <3> QED
      BY <3>1
  <2>7. CASE LoadThrows(t)
    BY <2>7 DEF LoadThrows, UnlockOnThrow
  <2>8. CASE CloseFile(t)
    BY <2>8 DEF CloseFile
  <2> QED
    BY <1>3, <2>1, <2>2, <2>3, <2>4, <2>5, <2>6, <2>7, <2>8 DEF LoadStep
<1>4. CASE Rewrite \/ Delete
  BY <1>4 DEF Rewrite, Delete
<1> QED
  BY <1>1, <1>2, <1>3, <1>4 DEF Next

\* The times of a base are read once, when it is entered.
LEMMA TimesChange ==
  ASSUME [Next]_vars
  PROVE  baseTimes' = baseTimes \/ \E t \in Threads : ReadBase(t) /\ ~SkipsBase
<1> USE DEF readVars
<1>1. ASSUME NEW t \in Threads, ReadStep(t)
      PROVE  baseTimes' = baseTimes \/ (ReadBase(t) /\ ~SkipsBase)
  <2>1. OpenFile(t) => baseTimes' = baseTimes
    BY DEF OpenFile
  <2>2. ParseReadOptionsThrows(t) => baseTimes' = baseTimes
    BY DEF ParseReadOptionsThrows
  <2>3. ReadThrows(t) => baseTimes' = baseTimes
    BY DEF ReadThrows
  <2>4. ReadBase(t) => baseTimes' = baseTimes \/ ~SkipsBase
    BY DEF ReadBase
  <2>5. EndBase(t) => baseTimes' = baseTimes
    BY DEF EndBase
  <2>6. ReadZone(t) => baseTimes' = baseTimes
    BY DEF ReadZone
  <2>7. ReadGridCoordinates(t) => baseTimes' = baseTimes
    BY DEF ReadGridCoordinates
  <2>8. ReadSections(t) => baseTimes' = baseTimes
    BY DEF ReadSections
  <2>9. ReadZoneIterativeInfo(t) => baseTimes' = baseTimes
    BY DEF ReadZoneIterativeInfo
  <2>10. ReadFlowSolution(t) => baseTimes' = baseTimes
    BY DEF ReadFlowSolution
  <2>11. EndZone(t) => baseTimes' = baseTimes
    BY DEF EndZone
  <2>12. EndRead(t) => baseTimes' = baseTimes
    BY DEF EndRead
  <2> QED
    BY <1>1, <2>1, <2>2, <2>3, <2>4, <2>5, <2>6, <2>7, <2>8, <2>9, <2>10, <2>11, <2>12 DEF ReadStep
<1>2. ASSUME NEW t \in Threads, CallLoader(t) \/ LoadStep(t)
      PROVE  UNCHANGED readVars
  <2>1. CallLoader(t) => UNCHANGED readVars
    BY DEF CallLoader
  <2>2. LoadStep(t) => UNCHANGED readVars
    BY DEF LoadStep, GotoGrid, ReadCurrentCGNSArrayAsValue, ReadElementConnectivityAsValue,
           ReadPolyElementsAsValues, ReadFlowSolutionField, LoadThrows, CloseFile
  <2> QED
    BY <1>2, <2>1, <2>2
<1>3. Rewrite \/ Delete => UNCHANGED readVars
  BY DEF Rewrite, Delete
<1> QED
  BY <1>1, <1>2, <1>3 DEF Next, vars

\* The type invariant is kept.
LEMMA TypeKept ==
  ASSUME TypeInv, AtInv, [Next]_vars
  PROVE  TypeInv'
<1>1. StateTypes' /\ UNCHANGED <<file, options>>
  BY StateTypesKept DEF TypeInv
<1>2. FileTypes'
  BY <1>1 DEF TypeInv, FileTypes
<1>3. \A steps, values : ResolveBaseSampleTimes(steps, values)' = ResolveBaseSampleTimes(steps, values)
  BY DEF ResolveBaseSampleTimes, SampleTimeOf
<1>4. CASE baseTimes' = baseTimes
  BY <1>1, <1>2, <1>4 DEF TypeInv, TimeTypes, ResolveBaseSampleTimes, SampleTimeOf
<1>5. ASSUME NEW t \in Threads, ReadBase(t), ~SkipsBase
      PROVE  TimeTypes'
  <2>1. PICK gotoFails \in BOOLEAN, readFails \in BOOLEAN :
          baseTimes' = [baseTimes EXCEPT ![at.base] = ReadBaseTimeInfo(gotoFails, readFails)]
    BY <1>5 DEF ReadBase
  <2>2. at.base \in DOMAIN file.bases
    BY <1>5, AtIsThere DEF ReadBase
  <2> DEFINE times == ReadBaseTimeInfo(gotoFails, readFails)
  <2>3. times \in Times /\ times.resolved = ResolveBaseSampleTimes(times.numSteps, times.sampleValues)
    BY <2>2, BaseTimeTypes
  <2> HIDE DEF times
  <2>4. baseTimes \in [DOMAIN file.bases -> Times]
    BY DEF TypeInv, TimeTypes
  <2>5. baseTimes' \in [DOMAIN file.bases -> Times]
    BY <2>1, <2>3, <2>4 DEF times
  <2>6. ASSUME NEW b \in DOMAIN file.bases
        PROVE  baseTimes'[b].resolved
                 = ResolveBaseSampleTimes(baseTimes'[b].numSteps, baseTimes'[b].sampleValues)
    <3>1. CASE b = at.base
      BY <2>1, <2>3, <2>4, <3>1 DEF times
    <3>2. CASE b # at.base
      <4>1. baseTimes'[b] = baseTimes[b]
        BY <2>1, <2>4, <3>2
      <4> QED
        BY <4>1 DEF TypeInv, TimeTypes
    <3> QED
      BY <3>1, <3>2
  <2> QED
    BY <1>1, <1>3, <2>5, <2>6 DEF TimeTypes
<1> QED
  BY <1>1, <1>2, <1>4, <1>5, TimesChange DEF TypeInv

\* The mutex is held by whoever uses the library, and every file that is open is
\* that of its holder or of an exception.
LEMMA MutexKept ==
  ASSUME StateTypes, MutexInv, [Next]_vars
  PROVE  MutexInv'
<1>1. /\ None \notin Threads /\ leaks \in Nat
      /\ pc \in [Threads -> {"idle", "reading", "open", "atGrid", "close"}]
  BY ConstantsAssumption DEF StateTypes
<1> USE DEF MutexInv, NoOtherHandles
<1>2. CASE UNCHANGED vars
  BY <1>2 DEF vars, fileVars, libraryVars, loadVars
<1>3. ASSUME NEW t \in Threads, ReadStep(t)
      PROVE  MutexInv'
  <2> USE DEF Goto, CloseAfterRead, libraryVars, loadVars
  <2>1. CASE OpenFile(t)
    BY <1>1, <2>1 DEF OpenFile, MutexIsFree
  <2>2. CASE ParseReadOptionsThrows(t)
    BY <1>1, <2>2 DEF ParseReadOptionsThrows
  <2>3. CASE ReadThrows(t)
    BY <1>1, <2>3 DEF ReadThrows
  <2>4. CASE EndRead(t)
    BY <1>1, <2>4 DEF EndRead, Reading
  <2>5. CASE ReadBase(t) \/ EndBase(t) \/ ReadZone(t) \/ EndZone(t)
    <3>1. UNCHANGED <<holder, handles, phase, pc, leaks>>
      BY <2>5 DEF ReadBase, EndBase, ReadZone, EndZone
    <3> QED
      BY <3>1
  <2>6. CASE \/ ReadGridCoordinates(t) \/ ReadSections(t) \/ ReadZoneIterativeInfo(t)
             \/ ReadFlowSolution(t)
    <3>1. UNCHANGED <<holder, handles, phase, pc, leaks>>
      BY <2>6 DEF ReadGridCoordinates, ReadSections, ReadZoneIterativeInfo, ReadFlowSolution
    <3> QED
      BY <3>1
  <2> QED
    BY <1>3, <2>1, <2>2, <2>3, <2>4, <2>5, <2>6 DEF ReadStep
<1>4. ASSUME NEW t \in Threads, CallLoader(t) \/ LoadStep(t)
      PROVE  MutexInv'
  <2> USE DEF Goto, CloseAfterRead, libraryVars, loadVars
  <2>1. CASE CallLoader(t)
    BY <1>1, <2>1 DEF CallLoader, MutexIsFree
  <2>2. CASE GotoGrid(t)
    BY <1>1, <2>2 DEF GotoGrid
  <2>3. CASE LoadThrows(t)
    BY <1>1, <2>3 DEF LoadThrows, UnlockOnThrow
  <2>4. CASE CloseFile(t)
    BY <1>1, <2>4 DEF CloseFile
  <2>5. CASE \/ ReadCurrentCGNSArrayAsValue(t) \/ ReadElementConnectivityAsValue(t)
             \/ ReadPolyElementsAsValues(t) \/ ReadFlowSolutionField(t)
    <3>1. /\ pc[t] \in {"open", "atGrid"} /\ pc' = [pc EXCEPT ![t] = "close"]
          /\ UNCHANGED <<holder, handles, phase, leaks>>
      BY <2>5 DEF ReadCurrentCGNSArrayAsValue, ReadElementConnectivityAsValue,
                  ReadPolyElementsAsValues, ReadFlowSolutionField, Give
    <3> QED
      BY <1>1, <3>1
  <2> QED
    BY <1>4, <2>1, <2>2, <2>3, <2>4, <2>5 DEF LoadStep
<1>5. CASE Rewrite \/ Delete
  BY <1>5 DEF Rewrite, Delete, libraryVars, loadVars
<1> QED
  BY <1>2, <1>3, <1>4, <1>5 DEF Next

-----------------------------------------------------------------------------
(* The steps of a call.                                                    *)

\* What a loader gives is in its attribute's type and, if its part of the file is as
\* it was, an array that the attribute and the time of the sample name.
GivesRightArray(t, v) ==
  LET key == call[t].key
      time == attrs[key].samples[call[t].sample].time
  IN /\ v.type = attrs[key].type
     /\ IsAsRead(call[t].loader) => IsNamed(key, time, v)

\* A loader, the zone it is of and the sample it is of.
IsLoaderOf(b, z, key, sample, loader) ==
  /\ b \in DOMAIN file.bases /\ z \in DOMAIN file.bases[b].zones
  /\ ~file.bases[b].zones[z].structured
  /\ key \in DOMAIN attrs
  /\ key[1][1] = TfMakeValidIdentifier(file.bases[b].name)
  /\ key[1][2] = TfMakeValidIdentifier(file.bases[b].zones[z].name)
  /\ attrs[key].samples[sample].loader = loader
  /\ loader.base = b /\ loader.zone = z
  /\ SampleFits(b, z, key, attrs[key].type, attrs[key].samples[sample])

\* The sample of a call fits its attribute.
LEMMA CallFits ==
  ASSUME AttrsInv, CallInv, NEW t \in Threads, pc[t] \in {"open", "atGrid"}
  PROVE  \E b, z : IsLoaderOf(b, z, call[t].key, call[t].sample, call[t].loader)
<1> DEFINE key == call[t].key sample == attrs[key].samples[call[t].sample]
<1>1. /\ key \in DOMAIN attrs /\ call[t].sample \in DOMAIN attrs[key].samples
      /\ sample.loader = call[t].loader
  BY DEF CallInv
<1>2. PICK b \in Nat, z \in Nat : Begun(b, z) /\ AttrFits(b, z, key, attrs[key])
  BY <1>1 DEF AttrsInv
<1>3. /\ b \in DOMAIN file.bases /\ z \in DOMAIN file.bases[b].zones
      /\ ~file.bases[b].zones[z].structured
  BY <1>2 DEF Begun, ShowsZone, ShowsBase
<1>4. SampleFits(b, z, key, attrs[key].type, sample)
  BY <1>1, <1>2 DEF AttrFits
<1>5. key = <<Under(b, z, key[1][3]), key[2]>>
  BY <1>2 DEF AttrFits
<1>6. key[1] = <<TfMakeValidIdentifier(file.bases[b].name),
                 TfMakeValidIdentifier(file.bases[b].zones[z].name), key[1][3]>>
  BY <1>5 DEF Under
<1>7. /\ key[1][1] = TfMakeValidIdentifier(file.bases[b].name)
      /\ key[1][2] = TfMakeValidIdentifier(file.bases[b].zones[z].name)
  BY <1>6
<1>8. call[t].loader.base = b /\ call[t].loader.zone = z
  BY <1>1, <1>4 DEF SampleFits
<1> QED
  BY <1>1, <1>3, <1>4, <1>7, <1>8 DEF IsLoaderOf

\* A value of the loader's type that its zone says is named, is named.
LEMMA Named ==
  ASSUME NEW b, NEW z, NEW key, NEW sample, NEW loader, IsLoaderOf(b, z, key, sample, loader),
         NEW v,
         LET zone == file.bases[b].zones[z] time == attrs[key].samples[sample].time IN
         IsCoordinate(zone, key, v) \/ IsElements(zone, key, v) \/ IsField(b, zone, key, time, v)
  PROVE  IsNamed(key, attrs[key].samples[sample].time, v)
  BY DEF IsNamed, IsLoaderOf

\* A coordinate is read at the cursor, which is still at the grid of its loader.
LEMMA CoordinateIsRight ==
  ASSUME AttrsInv, CallInv, NEW t \in Threads, ReadCurrentCGNSArrayAsValue(t)
  PROVE  \E v : Give(t, v) /\ GivesRightArray(t, v)
<1> DEFINE loader == call[t].loader key == call[t].key
           now == ZoneNow(loader).grids[loader.grid].arrays[loader.array]
           v == Filled(now.data, now.count, loader.type, loader.count)
<1>1. PICK b, z : IsLoaderOf(b, z, key, call[t].sample, loader)
  BY CallFits DEF ReadCurrentCGNSArrayAsValue
<1> DEFINE zone == file.bases[b].zones[z]
<1>2. /\ loader.kind = "coordinate"
      /\ cursor = [base |-> loader.base, zone |-> loader.zone, grid |-> loader.grid]
  BY DEF CallInv, ReadCurrentCGNSArrayAsValue
<1>3. /\ CoordinateFits(zone, key, loader)
      /\ DataTypeToSdfTypeName(loader.type) = attrs[key].type
  BY <1>1, <1>2 DEF IsLoaderOf, SampleFits
<1>4. Give(t, v)
  BY <1>2 DEF ReadCurrentCGNSArrayAsValue, ZoneNow
<1>5. v.type = attrs[key].type /\ v.count = loader.count
  BY <1>3 DEF Filled, Value
<1>6. ASSUME IsAsRead(loader)
      PROVE  IsNamed(key, attrs[key].samples[call[t].sample].time, v)
  <2> DEFINE grid == zone.grids[loader.grid] array == grid.arrays[loader.array]
  <2>1. now = array
    BY <1>1, <1>2, <1>6 DEF IsAsRead, IsLoaderOf
  <2>2. grid \in Identified(zone.grids, key[1][3]) /\ loader.array \in DOMAIN grid.arrays
    BY <1>3 DEF CoordinateFits, Identified
  <2>3. /\ GetGridCoordinateInstanceName(array.name, loader.array) = key[2]
        /\ loader.count = CoordValueCount(zone, array)
    BY <1>3 DEF CoordinateFits
  <2>4. v.count = array.count => v.data = array.data
    <3>1. v = Value(IF now.count = loader.count THEN now.data ELSE None, loader.type, loader.count)
      BY DEF Filled
    <3> HIDE DEF now, v
    <3> QED
      BY <1>5, <2>1, <3>1 DEF Value
  <2> HIDE DEF v
  <2>5. IsCoordinate(zone, key, v)
    BY <1>5, <2>2, <2>3, <2>4 DEF IsCoordinate
  <2> QED
    BY <1>1, <2>5, Named
<1> QED
  BY <1>4, <1>5, <1>6 DEF GivesRightArray

\* The connectivity of elements of one size.
LEMMA ElementsAreRight ==
  ASSUME AttrsInv, CallInv, NEW t \in Threads, ReadElementConnectivityAsValue(t)
  PROVE  \E v : Give(t, v) /\ GivesRightArray(t, v)
<1> DEFINE loader == call[t].loader key == call[t].key
           now == ZoneNow(loader).sections[loader.section]
           v == Value(now.connectivity, loader.type, now.count)
<1>1. PICK b, z : IsLoaderOf(b, z, key, call[t].sample, loader)
  BY CallFits DEF ReadElementConnectivityAsValue
<1> DEFINE zone == file.bases[b].zones[z]
<1>2. loader.kind = "elements" /\ Give(t, v)
  BY DEF ReadElementConnectivityAsValue
<1>3. /\ SectionFits(zone, key, loader)
      /\ DataTypeToSdfTypeName(loader.type) = attrs[key].type
  BY <1>1, <1>2 DEF IsLoaderOf, SampleFits
<1>4. /\ v.type = attrs[key].type
      /\ v.data = now.connectivity /\ v.count = now.count
  BY <1>3 DEF Value
<1>5. ASSUME IsAsRead(loader)
      PROVE  IsNamed(key, attrs[key].samples[call[t].sample].time, v)
  <2> DEFINE section == zone.sections[loader.section]
  <2>1. now = section
    BY <1>1, <1>2, <1>5 DEF IsAsRead, IsLoaderOf
  <2>2. section \in Identified(zone.sections, key[1][3])
    BY <1>3 DEF SectionFits, Identified
  <2>3. key[2] # "offsets"
    BY <1>2, <1>3 DEF SectionFits
  <2> HIDE DEF v, now
  <2>4. IsElements(zone, key, v)
    BY <1>4, <2>1, <2>2, <2>3 DEF IsElements
  <2> QED
    BY <1>1, <2>4, Named
<1> QED
  BY <1>2, <1>4, <1>5 DEF GivesRightArray

\* Attributes and times name the same arrays as long as ReadCGNS does nothing.
LEMMA NamedSame ==
  ASSUME UNCHANGED <<file, readVars>>, NEW key, NEW time, NEW v
  PROVE  IsNamed(key, time, v)' <=> IsNamed(key, time, v)
<1>1. file' = file /\ baseTimes' = baseTimes
  BY DEF readVars
<1>2. \A b, zone, name : StepsOf(b, zone, name)' = StepsOf(b, zone, name)
  BY <1>1, StepsKept
<1>3. \A b, i : TimeOfStep(b, i)' = TimeOfStep(b, i)
  BY <1>1, StepsKept
<1>4. \A b, zone, leader : SolutionsAt(b, zone, leader, time)' = SolutionsAt(b, zone, leader, time)
  BY <1>2, <1>3 DEF SolutionsAt
<1>5. ASSUME NEW b, NEW zone
      PROVE  IsField(b, zone, key, time, v)' <=> IsField(b, zone, key, time, v)
  BY <1>4 DEF IsField
<1>6. ASSUME NEW zone
      PROVE  /\ IsCoordinate(zone, key, v)' <=> IsCoordinate(zone, key, v)
             /\ IsElements(zone, key, v)' <=> IsElements(zone, key, v)
  BY DEF IsCoordinate, IsElements
<1> QED
  BY <1>1, <1>5, <1>6 DEF IsNamed

\* The arrays of a polyhedral section, as they are in its cache from then on.
LEMMA PolyIsRight ==
  ASSUME AttrsInv, CallInv, NEW t \in Threads, ReadPolyElementsAsValues(t)
  PROVE  \E v : Give(t, v) /\ GivesRightArray(t, v)'
<1> DEFINE loader == call[t].loader key == call[t].key
           place == <<loader.base, loader.zone, loader.section>>
           elements == PolyElements(place, ZoneNow(loader).sections[loader.section])
           now == elements.section
           v == IF loader.values = "offsets"
                THEN Filled(now.offsets, OffsetCount(now), loader.type, loader.count)
                ELSE Value(now.connectivity, loader.type, now.count)
<1>1. PICK b, z : IsLoaderOf(b, z, key, call[t].sample, loader)
  BY CallFits DEF ReadPolyElementsAsValues
<1> DEFINE zone == file.bases[b].zones[z]
<1>2. /\ loader.kind = "poly" /\ Give(t, v)
      /\ polyCache' = With(polyCache, place, elements)
      /\ UNCHANGED <<file, disk, readVars, call>>
  BY DEF ReadPolyElementsAsValues, fileVars
<1>3. /\ SectionFits(zone, key, loader)
      /\ DataTypeToSdfTypeName(loader.type) = attrs[key].type
  BY <1>1, <1>2 DEF IsLoaderOf, SampleFits
<1>4. polyCache'[place] = elements
  <2> HIDE DEF place, elements
  <2> QED
    BY <1>2 DEF With
<1> HIDE DEF elements
<1>5. v.type = attrs[key].type
  BY <1>3 DEF Filled, Value
<1>6. ASSUME now = zone.sections[loader.section]
      PROVE  IsNamed(key, attrs[key].samples[call[t].sample].time, v)
  <2>1. now \in Identified(zone.sections, key[1][3]) /\ loader.values = key[2]
    BY <1>3, <1>6 DEF SectionFits, Identified
  <2>2. loader.count = OffsetCount(now)
    BY <1>3, <1>6 DEF SectionFits
  <2> HIDE DEF now, zone
  <2>3. IF key[2] = "offsets" THEN v.data = now.offsets /\ v.count = OffsetCount(now)
        ELSE v.data = now.connectivity /\ v.count = now.count
    BY <2>1, <2>2 DEF Filled, Value
  <2> HIDE DEF v
  <2>4. IsElements(zone, key, v)
    BY <2>1, <2>3 DEF IsElements
  <2> QED
    BY <1>1, <2>4, Named DEF zone
<1>7. IsAsRead(loader)' => now = zone.sections[loader.section]
  <2>1. PICK l : l = loader
    OBVIOUS
  <2>2. l.base = b /\ l.zone = z /\ l.kind = "poly" /\ place = <<l.base, l.zone, l.section>>
    BY <1>1, <1>2, <2>1 DEF IsLoaderOf
  <2>3. IsAsRead(l)' => polyCache'[place].section = zone.sections[l.section]
    BY <1>2, <2>2 DEF IsAsRead
  <2> HIDE DEF place
  <2>4. loader' = l
    BY <1>2, <2>1
  <2> QED
    BY <1>4, <2>1, <2>3, <2>4
<1> HIDE DEF now, v
<1>8. PICK w : w = v
  OBVIOUS
<1>9. PICK time : time = attrs[key].samples[call[t].sample].time
  OBVIOUS
<1>10. PICK k : k = key
  OBVIOUS
<1>11. IsAsRead(loader)' => IsNamed(k, time, w)'
  BY <1>2, <1>6, <1>7, <1>8, <1>9, <1>10, NamedSame
<1>12. attrs' = attrs /\ call' = call
  BY <1>2 DEF readVars
<1>13. GivesRightArray(t, w)'
  BY <1>5, <1>8, <1>9, <1>10, <1>11, <1>12 DEF GivesRightArray
<1> QED
  BY <1>2, <1>8, <1>13

\* A field is read from the solution that its sample has.
LEMMA FieldIsRight ==
  ASSUME AttrsInv, CallInv, NEW t \in Threads, ReadFlowSolutionField(t)
  PROVE  \E v : Give(t, v) /\ GivesRightArray(t, v)
<1> DEFINE loader == call[t].loader key == call[t].key
           time == attrs[key].samples[call[t].sample].time
           now == ZoneNow(loader).solutions[loader.solution]
<1>1. PICK b, z : IsLoaderOf(b, z, key, call[t].sample, loader)
  BY CallFits DEF ReadFlowSolutionField
<1> DEFINE zone == file.bases[b].zones[z]
<1>2. loader.kind = "field"
  BY DEF ReadFlowSolutionField
<1>3. /\ FieldFits(b, zone, key, loader, time)
      /\ DataTypeToSdfTypeName(loader.type) = attrs[key].type
  BY <1>1, <1>2 DEF IsLoaderOf, SampleFits
<1>4. PICK f \in DOMAIN now.fields :
        /\ now.fields[f].name = loader.name
        /\ Give(t, Value(IF ZoneNow(loader).structured THEN None ELSE now.fields[f].data,
                         loader.type, loader.count))
  BY DEF ReadFlowSolutionField
<1> DEFINE v == Value(IF ZoneNow(loader).structured THEN None ELSE now.fields[f].data,
                      loader.type, loader.count)
<1>5. /\ v.type = attrs[key].type /\ v.count = loader.count
      /\ ~ZoneNow(loader).structured => v.data = now.fields[f].data
  BY <1>3 DEF Value
<1> HIDE DEF v
<1>6. ASSUME IsAsRead(loader)
      PROVE  IsNamed(key, time, v)
  <2> DEFINE solution == zone.solutions[loader.solution]
  <2>1. now = solution /\ ~ZoneNow(loader).structured
    BY <1>1, <1>2, <1>6 DEF IsAsRead, IsLoaderOf
  <2>2. PICK l \in DOMAIN zone.solutions :
          LET leader == zone.solutions[l] steps == StepsOf(b, zone, leader.name) IN
          /\ TfMakeValidIdentifier(leader.name) = key[1][3]
          /\ loader.count = DataSize(zone, leader.location)
          /\ \E i \in DOMAIN steps : TimeOfStep(b, i) = time /\ solution.name = steps[i]
    BY <1>3 DEF FieldFits
  <2> DEFINE leader == zone.solutions[l]
  <2>3. leader \in Identified(zone.solutions, key[1][3])
    BY <2>2 DEF Identified
  <2>4. solution \in SolutionsAt(b, zone, leader.name, time)
    <3>1. PICK i \in DOMAIN StepsOf(b, zone, leader.name) :
            TimeOfStep(b, i) = time /\ solution.name = StepsOf(b, zone, leader.name)[i]
      BY <2>2
    <3>2. solution \in NamedNodes(zone.solutions, StepsOf(b, zone, leader.name)[i])
      BY <1>3, <3>1 DEF FieldFits, NamedNodes
    <3> QED
      BY <3>1, <3>2 DEF SolutionsAt
  <2>5. solution.fields[f] \in Identified(solution.fields, key[2])
    BY <1>3, <1>4, <2>1 DEF FieldFits, Identified
  <2>6. v.data = solution.fields[f].data
    BY <1>5, <2>1
  <2>7. solution.location = leader.location => v.count = DataSize(zone, solution.location)
    BY <1>5, <2>2
  <2> HIDE DEF solution, leader
  <2>8. IsField(b, zone, key, time, v)
    BY <2>3, <2>4, <2>5, <2>6, <2>7 DEF IsField
  <2> QED
    BY <1>1, <2>8, Named
<1> QED
  BY <1>4, <1>5, <1>6 DEF GivesRightArray, v

\* The part of the invariant about what is read.
ReadInv == AttrsInv /\ PrimsInv /\ SolutionsInv /\ PointersInv

\* A value that is right is so after the step that gives it, too.
LEMMA GivesSame ==
  ASSUME UNCHANGED <<file, disk, readVars, call, polyCache>>, NEW t \in Threads, NEW v,
         GivesRightArray(t, v)
  PROVE  GivesRightArray(t, v)'
<1>1. file' = file /\ disk' = disk /\ attrs' = attrs /\ call' = call /\ polyCache' = polyCache
  BY DEF readVars
<1>2. ASSUME NEW l
      PROVE  IsAsRead(l)' <=> IsAsRead(l)
  BY <1>1 DEF IsAsRead, ZoneNow
<1>3. \A key, time : IsNamed(key, time, v)' <=> IsNamed(key, time, v)
  BY NamedSame
<1> QED
  BY <1>1, <1>2, <1>3 DEF GivesRightArray

\* What a step does that gives a value: it is the only one that is given.
LEMMA GivingKeepsCalls ==
  ASSUME StateTypes, MutexInv, CallInv, NEW t \in Threads, pc[t] \in {"open", "atGrid"},
         UNCHANGED <<cursor, readVars, call>>,
         NEW v, Give(t, v), GivesRightArray(t, v)'
  PROVE  CallInv' /\ RightArray'
<1>1. /\ pc' = [pc EXCEPT ![t] = "close"] /\ value' = [value EXCEPT ![t] = v]
      /\ pc \in [Threads -> {"idle", "reading", "open", "atGrid", "close"}]
      /\ DOMAIN value = Threads
  BY DEF Give, Goto, StateTypes
<1>2. CallInv'
  BY <1>1 DEF CallInv, readVars
<1>3. \A u \in Threads : pc'[u] = "close" => u = t
  BY <1>1 DEF MutexInv
<1>4. value'[t] = v
  BY <1>1
<1>5. ASSUME NEW u \in Threads, pc'[u] = "close"
      PROVE  GivesRightArray(u, value[u])'
  BY <1>3, <1>4, <1>5
<1> QED
  BY <1>2, <1>5 DEF RightArray, GivesRightArray

\* Both loaders of a polyhedral section get what the first of them read.
LEMMA PolyKept ==
  ASSUME PolyInv, NEW t \in Threads, ReadPolyElementsAsValues(t)
  PROVE  PolyInv'
<1> DEFINE loader == call[t].loader
           key == <<loader.base, loader.zone, loader.section>>
           elements == PolyElements(key, ZoneNow(loader).sections[loader.section])
           seen == IF key \in DOMAIN polySeen THEN polySeen[key] ELSE {}
<1>1. /\ polyCache' = With(polyCache, key, elements)
      /\ polySeen' = With(polySeen, key, seen \cup {elements.version})
  BY DEF ReadPolyElementsAsValues
<1>2. seen \subseteq {elements.version}
  BY DEF PolyInv, PolyElements
<1> HIDE DEF key, elements, seen
<1>3. ASSUME NEW k \in DOMAIN polySeen'
      PROVE  k \in DOMAIN polyCache' /\ polySeen'[k] \subseteq {polyCache'[k].version}
  <2>1. CASE k = key
    <3>1. k \in DOMAIN polyCache' /\ polyCache'[k] = elements
      BY <1>1, <2>1 DEF With
    <3>2. polySeen'[k] = seen \cup {elements.version}
      BY <1>1, <2>1 DEF With
    <3> QED
      BY <1>2, <3>1, <3>2
  <2>2. CASE k # key
    <3>1. k \in DOMAIN polySeen /\ polySeen'[k] = polySeen[k]
      BY <1>1, <1>3, <2>2 DEF With
    <3>2. k \in DOMAIN polyCache
      BY <3>1 DEF PolyInv
    <3>3. k \in DOMAIN polyCache' /\ polyCache'[k] = polyCache[k]
      BY <1>1, <2>2, <3>2 DEF With
    <3> QED
      BY <3>1, <3>3 DEF PolyInv
  <2> QED
    BY <2>1, <2>2
<1> QED
  BY <1>3 DEF PolyInv

\* Only the holder of the mutex moves the cursor under a call.
LEMMA CallStep ==
  ASSUME IInv, NEW t \in Threads, CallLoader(t) \/ LoadStep(t)
  PROVE  CallInv' /\ RightArray' /\ PolyInv'
<1> USE DEF IInv
<1>1. /\ pc \in [Threads -> {"idle", "reading", "open", "atGrid", "close"}]
      /\ DOMAIN call = Threads /\ DOMAIN value = Threads /\ StateTypes
  BY DEF TypeInv, StateTypes
<1>2. ASSUME NEW v, pc[t] \in {"open", "atGrid"}, Give(t, v), GivesRightArray(t, v),
             UNCHANGED <<file, disk, cursor, readVars, call, polyCache>>
      PROVE  CallInv' /\ RightArray'
  <2>1. GivesRightArray(t, v)'
    BY <1>2, GivesSame
  <2> QED
    BY <1>1, <1>2, <2>1, GivingKeepsCalls
<1>3. UNCHANGED <<polyCache, polySeen>> => PolyInv'
  BY DEF PolyInv
<1>4. ASSUME \A u \in Threads : pc'[u] # "close"
      PROVE  RightArray'
  BY <1>4 DEF RightArray
<1>5. CASE CallLoader(t)
  <2>1. CallInv'
    BY <1>1, <1>5 DEF CallLoader, CallInv, Goto, readVars
  <2>2. \A u \in Threads : pc'[u] # "close"
    BY <1>1, <1>5, ConstantsAssumption DEF CallLoader, MutexIsFree, MutexInv, Goto
  <2> QED
    BY <1>3, <1>4, <1>5, <2>1, <2>2 DEF CallLoader
<1>6. CASE GotoGrid(t)
  <2>1. CallInv'
    BY <1>1, <1>6 DEF GotoGrid, CallInv, MutexInv, Goto, readVars, loadVars
  <2>2. \A u \in Threads : pc'[u] # "close"
    BY <1>1, <1>6 DEF GotoGrid, MutexInv, Goto
  <2> QED
    BY <1>3, <1>4, <1>6, <2>1, <2>2 DEF GotoGrid, loadVars
<1>7. CASE ReadCurrentCGNSArrayAsValue(t)
  <2>1. PICK v : Give(t, v) /\ GivesRightArray(t, v)
    BY <1>7, CoordinateIsRight
  <2>2. /\ pc[t] \in {"open", "atGrid"} /\ UNCHANGED polySeen
        /\ UNCHANGED <<file, disk, cursor, readVars, call, polyCache>>
    BY <1>7 DEF ReadCurrentCGNSArrayAsValue, fileVars, libraryVars
  <2>3. CallInv' /\ RightArray'
    BY <1>2, <2>1, <2>2
  <2> QED
    BY <1>3, <2>2, <2>3
<1>8. CASE ReadElementConnectivityAsValue(t)
  <2>1. PICK v : Give(t, v) /\ GivesRightArray(t, v)
    BY <1>8, ElementsAreRight
  <2>2. /\ pc[t] \in {"open", "atGrid"} /\ UNCHANGED polySeen
        /\ UNCHANGED <<file, disk, cursor, readVars, call, polyCache>>
    BY <1>8 DEF ReadElementConnectivityAsValue, fileVars, libraryVars
  <2>3. CallInv' /\ RightArray'
    BY <1>2, <2>1, <2>2
  <2> QED
    BY <1>3, <2>2, <2>3
<1>9. CASE ReadPolyElementsAsValues(t)
  <2>1. PICK v : Give(t, v) /\ GivesRightArray(t, v)'
    BY <1>9, PolyIsRight
  <2>2. pc[t] \in {"open", "atGrid"} /\ UNCHANGED <<cursor, readVars, call>>
    BY <1>9 DEF ReadPolyElementsAsValues, libraryVars
  <2>3. CallInv' /\ RightArray'
    BY <1>1, <2>1, <2>2, GivingKeepsCalls
  <2> QED
    BY <1>9, <2>3, PolyKept
<1>10. CASE ReadFlowSolutionField(t)
  <2>1. PICK v : Give(t, v) /\ GivesRightArray(t, v)
    BY <1>10, FieldIsRight
  <2>2. /\ pc[t] \in {"open", "atGrid"} /\ UNCHANGED polySeen
        /\ UNCHANGED <<file, disk, cursor, readVars, call, polyCache>>
    BY <1>10 DEF ReadFlowSolutionField, fileVars, libraryVars
  <2>3. CallInv' /\ RightArray'
    BY <1>2, <2>1, <2>2
  <2> QED
    BY <1>3, <2>2, <2>3
<1>11. CASE LoadThrows(t)
  <2>1. CallInv'
    BY <1>1, <1>11 DEF LoadThrows, CallInv, Goto, readVars
  <2>2. \A u \in Threads : pc'[u] # "close"
    BY <1>1, <1>11 DEF LoadThrows, MutexInv, Goto
  <2> QED
    BY <1>3, <1>4, <1>11, <2>1, <2>2 DEF LoadThrows
<1>12. CASE CloseFile(t)
  <2>1. CallInv'
    BY <1>1, <1>12 DEF CloseFile, CallInv, Goto, readVars
  <2>2. \A u \in Threads : pc'[u] # "close"
    BY <1>1, <1>12 DEF CloseFile, MutexInv, Goto
  <2> QED
    BY <1>3, <1>4, <1>12, <2>1, <2>2 DEF CloseFile
<1> QED
  BY <1>5, <1>6, <1>7, <1>8, <1>9, <1>10, <1>11, <1>12 DEF LoadStep

-----------------------------------------------------------------------------
(* The steps of ReadCGNS.                                                  *)

\* A zone that is being read is shown, and has begun.
LEMMA InZone ==
  ASSUME TypeInv, AtInv, at.part # "head"
  PROVE  /\ at.base \in Nat /\ at.zone \in Nat /\ at.item \in Nat /\ at.item > 0
         /\ ShowsZone(at.base, at.zone) /\ Begun(at.base, at.zone)
         /\ at.base \in DOMAIN file.bases
         /\ at.zone \in DOMAIN file.bases[at.base].zones
         /\ Base = file.bases[at.base] /\ Zone = file.bases[at.base].zones[at.zone]
         /\ \A node : ChildPath(node) = NodeOf(at.base, at.zone, node.name)
<1>1. at.base \in Nat /\ at.zone \in Nat /\ at.item \in Nat /\ at.item > 0
  BY DEF TypeInv, StateTypes, Places
<1>2. ShowsZone(at.base, at.zone)
  BY DEF AtInv
<1>3. /\ Begun(at.base, at.zone) /\ at.base \in DOMAIN file.bases
      /\ at.zone \in DOMAIN file.bases[at.base].zones
  BY <1>2 DEF Begun, ShowsZone, ShowsBase
<1>4. Base = file.bases[at.base] /\ Zone = file.bases[at.base].zones[at.zone]
  BY DEF Base, Zone
<1>5. \A node : ChildPath(node) = NodeOf(at.base, at.zone, node.name)
  BY <1>4 DEF ChildPath, NodeOf
<1> QED
  BY <1>1, <1>2, <1>3, <1>4, <1>5

\* Attributes that are registered below one node change those of no other.
LEMMA OthersKeepAttrs ==
  ASSUME TypeInv, AtInv, at.part # "head",
         NEW more, NEW L \in Nat, DOMAIN more \subseteq 1..L, RegisterAll(more),
         NEW name, \A n \in DOMAIN more : more[n].key[1] = NodeOf(at.base, at.zone, name),
         NEW b, NEW z, NEW s, Passed(b, z, s),
         ~ (/\ b = at.base /\ z = at.zone
            /\ TfMakeValidIdentifier(file.bases[b].zones[z].solutions[s].name)
                 = TfMakeValidIdentifier(name))
  PROVE  KeepsNode(b, z, s)
<1> DEFINE other == file.bases[b].zones[z].solutions[s].name
<1> SUFFICES ASSUME ZoneIsApart(b, z),
                    NEW key \in DOMAIN attrs, key[1] = NodeOf(b, z, other)
             PROVE  key \in DOMAIN attrs' /\ attrs'[key] = attrs[key]
  BY DEF KeepsNode
<1>1. b \in DOMAIN file.bases /\ z \in DOMAIN file.bases[b].zones
  BY DEF Passed, ShowsZone, ShowsBase
<1>2. NodeOf(b, z, other) # NodeOf(at.base, at.zone, name)
  <2>1. SUFFICES ASSUME NodeOf(b, z, other) = NodeOf(at.base, at.zone, name)
                 PROVE  FALSE
    OBVIOUS
  <2>2. /\ PathOf(b, z) = PathOf(at.base, at.zone)
        /\ TfMakeValidIdentifier(other) = TfMakeValidIdentifier(name)
    BY <2>1 DEF NodeOf, PathOf
  <2>3. b = at.base /\ z = at.zone
    BY <2>2, InZone, ZonesDiffer
  <2> QED
    BY <2>2, <2>3
<1>3. \A n \in DOMAIN more : more[n].key # key
  BY <1>2
<1> HIDE DEF other
<1> QED
  BY <1>3, RegisteredAttrs

\* Attributes that fit a zone that has begun can be registered.
LEMMA RegisteringFits ==
  ASSUME AttrsInv, GoesOn,
         NEW more, NEW L \in Nat, DOMAIN more \subseteq 1..L, RegisterAll(more),
         NEW b \in Nat, NEW z \in Nat, Begun(b, z),
         \A n \in DOMAIN more : AttrFits(b, z, more[n].key, more[n])'
  PROVE  AttrsInv'
<1>1. Begun(b, z)'
  BY DEF GoesOn
<1>2. /\ DOMAIN attrs' = DOMAIN attrs \cup {more[n].key : n \in DOMAIN more}
      /\ \A key \in DOMAIN attrs : (\A n \in DOMAIN more : more[n].key # key) =>
           attrs'[key] = attrs[key]
      /\ \A n \in DOMAIN more : \E m \in DOMAIN more :
           more[m].key = more[n].key /\ attrs'[more[n].key] = more[m]
  BY RegisteredAttrs
<1>3. ASSUME NEW key \in DOMAIN attrs'
      PROVE  \/ key \in DOMAIN attrs /\ attrs'[key] = attrs[key]
             \/ \E c, y \in Nat : Begun(c, y)' /\ AttrFits(c, y, key, attrs[key])'
  <2>1. CASE \E n \in DOMAIN more : more[n].key = key
    <3>1. PICK m \in DOMAIN more : more[m].key = key /\ attrs'[key] = more[m]
      BY <1>2, <2>1
    <3>2. AttrFits(b, z, more[m].key, more[m])'
      OBVIOUS
    <3>3. AttrFits(b, z, key, attrs[key])'
      BY <3>1, <3>2
    <3> QED
      BY <1>1, <3>3
  <2>2. CASE ~\E n \in DOMAIN more : more[n].key = key
    BY <1>2, <2>2
  <2> QED
    BY <2>1, <2>2
<1> QED
  BY <1>3, AttrsKept

\* An attribute with one sample.
LEMMA SingleState ==
  ASSUME NEW path, NEW name, NEW type, NEW time, NEW loader
  PROVE  LET attr == RegisterLazySingleState(path, name, type, time, loader) IN
         /\ attr.key = <<path, name>> /\ attr.type = DataTypeToSdfTypeName(type)
         /\ DOMAIN attr.samples = {1}
         /\ attr.samples[1].time = time /\ attr.samples[1].loader = loader
  BY DEF RegisterLazySingleState, Attr

\* The coordinates of a grid are registered under its node.
LEMMA CoordAttrsFit ==
  ASSUME TypeInv, AtInv, at.part # "head", at.item \in DOMAIN Zone.grids
  PROVE  LET more == CoordAttrs(Zone.grids[at.item]) IN
         /\ \E L \in Nat : DOMAIN more \subseteq 1..L
         /\ \A n \in DOMAIN more :
              /\ more[n].key[1] = NodeOf(at.base, at.zone, Zone.grids[at.item].name)
              /\ AttrFits(at.base, at.zone, more[n].key, more[n])
<1> DEFINE grid == Zone.grids[at.item] more == CoordAttrs(grid)
<1>1. DOMAIN grid.arrays = 1..Len(grid.arrays) /\ Len(grid.arrays) \in Nat
  <2>1. Zone \in Zones
    BY InZone, ZoneTypes
  <2>2. Zone.grids \in Seq(Grids)
    BY <2>1 DEF Zones
  <2>3. grid \in Grids
    BY <2>2
  <2>4. grid.arrays \in Seq(Arrays)
    BY <2>3 DEF Grids
  <2> QED
    BY <2>4
<1>2. DOMAIN more = {i \in DOMAIN grid.arrays :
                       GetGridCoordinateInstanceName(grid.arrays[i].name, i) # ""}
  BY DEF CoordAttrs
<1>3. ASSUME NEW n \in DOMAIN more
      PROVE  /\ more[n].key[1] = NodeOf(at.base, at.zone, grid.name)
             /\ AttrFits(at.base, at.zone, more[n].key, more[n])
  <2> DEFINE type == ResolveDataType(grid.arrays[n].type)
             name == GetGridCoordinateInstanceName(grid.arrays[n].name, n)
             loader == [kind |-> "coordinate", base |-> at.base, zone |-> at.zone,
                        grid |-> at.item, array |-> n, type |-> type,
                        count |-> CoordValueCount(Zone, grid.arrays[n])]
  <2>1. more[n] = RegisterLazySingleState(ChildPath(grid), name, type,
                    GetSingleStateSampleTime, loader)
    BY <1>2 DEF CoordAttrs
  <2>2. ChildPath(grid) = NodeOf(at.base, at.zone, grid.name)
    BY InZone
  <2> DEFINE path == NodeOf(at.base, at.zone, grid.name)
  <2>3. /\ more[n].key = <<path, name>> /\ more[n].type = DataTypeToSdfTypeName(type)
        /\ DOMAIN more[n].samples = {1} /\ more[n].samples[1].loader = loader
    <3> HIDE DEF more, loader, name, type
    <3> QED
      BY <2>1, <2>2, SingleState
  <2>4. path[3] = TfMakeValidIdentifier(grid.name) /\ path = Under(at.base, at.zone, path[3])
    BY DEF NodeOf, Under
  <2>5. CoordinateFits(Zone, <<path, name>>, loader)
    BY <1>2, <2>4, InZone DEF CoordinateFits
  <2>6. SampleFits(at.base, at.zone, <<path, name>>, more[n].type, more[n].samples[1])
    <3> HIDE DEF more, name, type, path
    <3> QED
      BY <2>3, <2>5, InZone DEF SampleFits
  <2> HIDE DEF more, loader, name, type
  <2> QED
    BY <2>3, <2>4, <2>6 DEF AttrFits
<1> QED
  BY <1>1, <1>2, <1>3

\* The pointer arrays that count are those of the names that start one.
LEMMA LeadingIs ==
  ASSUME TypeInv, NEW b \in DOMAIN file.bases, NEW z \in DOMAIN file.bases[b].zones,
         NEW steps \in LeadingArrays(b, file.bases[b].zones[z])
  PROVE  LET zone == file.bases[b].zones[z] IN
         /\ baseTimes[b].numSteps # 0
         /\ StartingWith(zone.pointers, steps[1]) # {}
         /\ steps = StepsOf(b, zone, steps[1])
<1> DEFINE zone == file.bases[b].zones[z]
<1>1. PICK n \in DOMAIN zone.pointers :
        zone.pointers[n] # <<>> /\ steps = StepsOf(b, zone, zone.pointers[n][1])
  BY DEF LeadingArrays
<1> DEFINE name == zone.pointers[n][1] starting == StartingWith(zone.pointers, name)
<1>2. baseTimes[b].numSteps # 0
  BY DEF LeadingArrays
<1>3. n \in starting
  BY <1>1 DEF StartingWith
<1>4. starting \subseteq 1..Len(zone.pointers) /\ Len(zone.pointers) \in Nat
  BY ZoneTypes DEF StartingWith
<1>5. Max(starting) \in starting
  <2> HIDE DEF starting
  <2> QED
    BY <1>3, <1>4, MaxIsIn
<1>6. steps = zone.pointers[Max(starting)]
  BY <1>1, <1>2, <1>3 DEF StepsOf
<1>7. steps[1] = name
  BY <1>5, <1>6 DEF StartingWith
<1> QED
  BY <1>1, <1>2, <1>3, <1>7

\* ZoneIterativeInfo has the pointer arrays of the zone, if there are steps.
LEMMA PointersAre ==
  ASSUME TypeInv, AtInv, PointersInv, at.part = "solutions", NEW name
  PROVE  LET led == baseTimes[at.base].numSteps # 0 /\ StartingWith(Zone.pointers, name) # {} IN
         /\ name \in DOMAIN zoneIterative.groups <=> led
         /\ led => zoneIterative.groups[name] = StepsOf(at.base, Zone, name)
         /\ ~led => StepsOf(at.base, Zone, name) = <<name>>
         /\ name \in zoneIterative.all <=>
              baseTimes[at.base].numSteps # 0 /\ InArray(Zone, name)
<1>1. Zone = file.bases[at.base].zones[at.zone]
  BY InZone
<1>2. CASE baseTimes[at.base].numSteps = 0
  <2>1. zoneIterative.groups = <<>> /\ zoneIterative.all = {}
    BY <1>2 DEF PointersInv, NoPointers
  <2>2. DOMAIN zoneIterative.groups = {}
    BY <2>1
  <2> QED
    BY <1>2, <2>1, <2>2 DEF StepsOf
<1>3. CASE baseTimes[at.base].numSteps # 0
  <2> DEFINE arrays == Zone.pointers
  <2>1. zoneIterative = PointersOf(arrays)
    BY <1>1, <1>3 DEF PointersInv
  <2>2. DOMAIN zoneIterative.groups = {arrays[n][1] : n \in {n \in DOMAIN arrays : arrays[n] # <<>>}}
    BY <2>1 DEF PointersOf
  <2>3. name \in DOMAIN zoneIterative.groups <=> StartingWith(arrays, name) # {}
    BY <2>2 DEF StartingWith
  <2>4. name \in DOMAIN zoneIterative.groups =>
          zoneIterative.groups[name] = arrays[Max(StartingWith(arrays, name))]
    BY <2>1 DEF PointersOf
  <2>5. name \in zoneIterative.all <=> InArray(Zone, name)
    BY <2>1 DEF PointersOf, InArray
  <2> QED
    BY <1>3, <2>3, <2>4, <2>5 DEF StepsOf
<1> QED
  BY <1>2, <1>3

\* The index of a solution is found by its name.
LEMMA IndexMapIs ==
  ASSUME NEW name
  PROVE  /\ name \in DOMAIN BuildSolutionIndexMap <=> InFile(Zone, name)
         /\ name \in DOMAIN BuildSolutionIndexMap =>
              /\ BuildSolutionIndexMap[name] \in DOMAIN Zone.solutions
              /\ Zone.solutions[BuildSolutionIndexMap[name]].name = name
<1>1. name \in DOMAIN BuildSolutionIndexMap <=> \E s \in DOMAIN Zone.solutions : Zone.solutions[s].name = name
  BY DEF BuildSolutionIndexMap
<1>2. InFile(Zone, name) <=> \E s \in DOMAIN Zone.solutions : Zone.solutions[s].name = name
  BY DEF InFile, NamedNodes
<1>3. name \in DOMAIN BuildSolutionIndexMap =>
        BuildSolutionIndexMap[name] =
          CHOOSE s \in DOMAIN Zone.solutions : Zone.solutions[s].name = name
  BY DEF BuildSolutionIndexMap
<1> QED
  BY <1>1, <1>2, <1>3

\* The loader of a field.
FieldLoader(s, name, type, count) ==
  [kind |-> "field", base |-> at.base, zone |-> at.zone, solution |-> s,
   name |-> name, type |-> type, count |-> count]

\* The samples of a field load the field in solutions that the steps name.
SamplesMatch(s, name, type, count) ==
  LET steps == StepsOf(at.base, Zone, Zone.solutions[s].name)
      samples == FieldSamples(Zone.solutions[s], FieldLoader(s, name, type, count))
  IN \A n \in DOMAIN samples :
       /\ \E r \in DOMAIN Zone.solutions : samples[n].loader = FieldLoader(r, name, type, count)
       /\ \E i \in DOMAIN steps :
            /\ TimeOfStep(at.base, i) = samples[n].time
            /\ Zone.solutions[samples[n].loader.solution].name = steps[i]

\* The samples of a field of the first solution of a pointer array.
LEMMA LedSamples ==
  ASSUME TypeInv, AtInv, PointersInv, at.part = "solutions",
         NEW s \in DOMAIN Zone.solutions, NEW name, NEW type, NEW count,
         Zone.solutions[s].name \in DOMAIN zoneIterative.groups
  PROVE  LET solution == Zone.solutions[s]
             steps == StepsOf(at.base, Zone, solution.name)
             samples == FieldSamples(solution, FieldLoader(s, name, type, count))
         IN SamplesFit(at.base, at.zone, steps, samples) /\ SamplesMatch(s, name, type, count)
<1> DEFINE solution == Zone.solutions[s]
           loader == FieldLoader(s, name, type, count)
           steps == StepsOf(at.base, Zone, solution.name)
           samples == FieldSamples(solution, loader)
           found == {i \in DOMAIN steps : InFile(Zone, steps[i])}
           order == SortedByTime(steps)
<1>1. zoneIterative.groups[solution.name] = steps
  BY PointersAre
<1>2. steps \in Seq(STRING)
  <2>1. /\ StartingWith(Zone.pointers, solution.name) # {}
        /\ baseTimes[at.base].numSteps # 0
    BY PointersAre
  <2>2. /\ StartingWith(Zone.pointers, solution.name) \subseteq 1..Len(Zone.pointers)
        /\ Len(Zone.pointers) \in Nat
    BY InZone, ZoneTypes DEF StartingWith
  <2>3. Max(StartingWith(Zone.pointers, solution.name)) \in StartingWith(Zone.pointers, solution.name)
    BY <2>1, <2>2, MaxIsIn
  <2>4. Max(StartingWith(Zone.pointers, solution.name)) \in DOMAIN Zone.pointers
    BY <2>3 DEF StartingWith
  <2>5. steps = Zone.pointers[Max(StartingWith(Zone.pointers, solution.name))]
    BY <2>1 DEF StepsOf
  <2>6. \A n \in DOMAIN Zone.pointers : Zone.pointers[n] \in Seq(STRING)
    BY InZone, ZoneTypes
  <2> QED
    BY <2>4, <2>5, <2>6
<1> HIDE DEF steps
<1>3. StepsFound(steps) = found
  BY IndexMapIs DEF StepsFound
<1>4. IsFiniteSet(found) /\ found \subseteq Nat /\ \A i \in found : i > 0 /\ i \in DOMAIN steps
  <2>1. DOMAIN steps = 1..Len(steps) /\ Len(steps) \in Nat
    BY <1>2
  <2>2. IsFiniteSet(1..Len(steps)) /\ found \subseteq 1..Len(steps)
    BY <2>1, FS_Interval
  <2>3. IsFiniteSet(found)
    BY <2>2, FS_Subset
  <2> QED
    BY <2>1, <2>2, <2>3
<1>5. ASSUME NEW i \in found
      PROVE  StepTime(steps, i) = TimeOfStep(at.base, i) /\ StepTime(steps, i) \in Int
  BY <1>4, InZone, TimesResolved DEF StepTime
<1> HIDE DEF found
<1>6. /\ Cardinality(found) \in Nat
      /\ order \in [1..Cardinality(found) -> found]
      /\ \A i \in found : \E n \in 1..Cardinality(found) : order[n] = i
      /\ \A m, n \in 1..Cardinality(found) :
           m < n => StepTime(steps, order[m]) <= StepTime(steps, order[n])
  BY <1>3, <1>4, <1>5, SortedByTimeIs
<1>7. samples = [n \in 1..Cardinality(found) |->
                   [time |-> StepTime(steps, order[n]),
                    loader |-> [loader EXCEPT !.solution = BuildSolutionIndexMap[steps[order[n]]]]]]
  BY <1>1, <1>6 DEF FieldSamples
<1>8. ASSUME NEW n \in 1..Cardinality(found)
      PROVE  LET r == BuildSolutionIndexMap[steps[order[n]]] IN
             /\ order[n] \in found /\ order[n] \in DOMAIN steps
             /\ samples[n].time = TimeOfStep(at.base, order[n])
             /\ r \in DOMAIN Zone.solutions
             /\ Zone.solutions[r].name = steps[order[n]]
             /\ samples[n].loader = FieldLoader(r, name, type, count)
             /\ samples[n].loader.solution = r
  <2>1. order[n] \in found
    BY <1>6
  <2>2. steps[order[n]] \in DOMAIN BuildSolutionIndexMap
    BY <1>3, <2>1 DEF StepsFound
  <2>3. samples[n].time = TimeOfStep(at.base, order[n])
    BY <1>5, <1>7, <2>1
  <2>4. \A r : /\ [loader EXCEPT !.solution = r] = FieldLoader(r, name, type, count)
               /\ FieldLoader(r, name, type, count).solution = r
    BY DEF FieldLoader
  <2>5. samples[n].loader = [loader EXCEPT !.solution = BuildSolutionIndexMap[steps[order[n]]]]
    BY <1>7
  <2> QED
    BY <1>4, <2>1, <2>2, <2>3, <2>4, <2>5, IndexMapIs
<1> HIDE DEF samples, order, loader
<1>9. DOMAIN samples = 1..Cardinality(found) /\ Len(samples) = Cardinality(found)
  BY <1>6, <1>7
<1>10. {<<samples[n].time, Zone.solutions[samples[n].loader.solution].name>> : n \in DOMAIN samples}
         = {<<TimeOfStep(at.base, i), steps[i]>> : i \in found}
  <2>1. ASSUME NEW n \in 1..Cardinality(found)
        PROVE  <<samples[n].time, Zone.solutions[samples[n].loader.solution].name>>
                 = <<TimeOfStep(at.base, order[n]), steps[order[n]]>>
    BY <1>8
  <2>2. ASSUME NEW i \in found
        PROVE  \E n \in DOMAIN samples :
                 <<samples[n].time, Zone.solutions[samples[n].loader.solution].name>>
                   = <<TimeOfStep(at.base, i), steps[i]>>
    BY <1>6, <1>9, <2>1
  <2> QED
    BY <1>8, <1>9, <2>1, <2>2
<1>11. ASSUME NEW m \in DOMAIN samples, NEW n \in DOMAIN samples, m < n
       PROVE  samples[m].time <= samples[n].time
  BY <1>5, <1>6, <1>8, <1>9, <1>11
<1>12. ASSUME NEW n \in DOMAIN samples
       PROVE  /\ samples[n].loader.kind = "field"
              /\ samples[n].loader.base = at.base /\ samples[n].loader.zone = at.zone
              /\ samples[n].loader.solution \in DOMAIN Zone.solutions
  <2>1. /\ samples[n].loader.solution \in DOMAIN Zone.solutions
        /\ \E r : samples[n].loader = FieldLoader(r, name, type, count)
    BY <1>8, <1>9
  <2>2. \A r : /\ FieldLoader(r, name, type, count).kind = "field"
               /\ FieldLoader(r, name, type, count).base = at.base
               /\ FieldLoader(r, name, type, count).zone = at.zone
    BY DEF FieldLoader
  <2> QED
    BY <2>1, <2>2
<1>13. SamplesFit(at.base, at.zone, steps, samples)
  BY <1>9, <1>10, <1>11, <1>12, InZone DEF SamplesFit, AreSamplesOf, found
<1>14. ASSUME NEW n \in DOMAIN samples
       PROVE  /\ \E r \in DOMAIN Zone.solutions : samples[n].loader = FieldLoader(r, name, type, count)
              /\ \E i \in DOMAIN steps :
                   /\ TimeOfStep(at.base, i) = samples[n].time
                   /\ Zone.solutions[samples[n].loader.solution].name = steps[i]
  BY <1>8, <1>9
<1> QED
  BY <1>13, <1>14 DEF steps, samples, loader, SamplesMatch

\* The samples of a field of any solution fit it.
LEMMA FieldSamplesFit ==
  ASSUME TypeInv, AtInv, PointersInv, at.part = "solutions",
         NEW s \in DOMAIN Zone.solutions, NEW name, NEW type, NEW count
  PROVE  SamplesMatch(s, name, type, count)
<1> DEFINE solution == Zone.solutions[s]
           loader == FieldLoader(s, name, type, count)
           samples == FieldSamples(solution, loader)
<1>1. CASE solution.name \in DOMAIN zoneIterative.groups
  BY <1>1, LedSamples
<1>2. CASE solution.name \notin DOMAIN zoneIterative.groups
  <2>1. StepsOf(at.base, Zone, solution.name) = <<solution.name>>
    BY <1>2, PointersAre
  <2>2. samples = <<[time |-> ResolveSampleTime(1), loader |-> loader]>>
    BY <1>2 DEF FieldSamples
  <2>3. loader.solution = s
    BY DEF FieldLoader
  <2>4. ResolveSampleTime(1) = TimeOfStep(at.base, 1)
    BY InZone, TimesResolved
  <2> HIDE DEF loader
  <2>5. /\ DOMAIN samples = {1} /\ samples[1].time = TimeOfStep(at.base, 1)
        /\ samples[1].loader = loader
    BY <2>2, <2>4
  <2> QED
    BY <2>1, <2>3, <2>5 DEF loader, SamplesMatch
<1> QED
  BY <1>1, <1>2

\* The attributes of a solution fit it, and are its samples in order if it is the
\* first of a pointer array.
LEMMA FieldAttrsFit ==
  ASSUME TypeInv, AtInv, PointersInv, at.part = "solutions", at.item \in DOMAIN Zone.solutions,
         NEW f \in DOMAIN Zone.solutions[at.item].fields
  PROVE  LET solution == Zone.solutions[at.item]
             attr == RegisterFlowSolutionField(at.item, f)
         IN /\ attr.key = <<NodeOf(at.base, at.zone, solution.name),
                             TfMakeValidIdentifier(solution.fields[f].name)>>
            /\ AttrFits(at.base, at.zone, attr.key, attr)
            /\ solution.name \in DOMAIN zoneIterative.groups =>
                 SamplesFit(at.base, at.zone, StepsOf(at.base, Zone, solution.name), attr.samples)
<1> DEFINE solution == Zone.solutions[at.item]
           attr == RegisterFlowSolutionField(at.item, f)
           name == solution.fields[f].name
           type == ResolveDataType(solution.fields[f].type)
           count == DataSize(Zone, solution.location)
           id == TfMakeValidIdentifier(name)
           path == NodeOf(at.base, at.zone, solution.name)
           samples == FieldSamples(solution, FieldLoader(at.item, name, type, count))
<1>1. attr = Attr(ChildPath(solution), id, type, samples)
  BY DEF RegisterFlowSolutionField, FieldLoader
<1>2. /\ attr.key = <<path, id>> /\ attr.type = DataTypeToSdfTypeName(type)
      /\ attr.samples = samples
  BY <1>1, InZone DEF Attr
<1>3. /\ path[3] = TfMakeValidIdentifier(solution.name)
      /\ path = Under(at.base, at.zone, path[3])
  BY DEF NodeOf, Under
<1>4. SamplesMatch(at.item, name, type, count)
  <2> HIDE DEF count, type, name
  <2> QED
    BY FieldSamplesFit
<1>5. ASSUME NEW n \in DOMAIN samples
      PROVE  SampleFits(at.base, at.zone, <<path, id>>, attr.type, samples[n])
  <2> HIDE DEF count, type, name
  <2>1. PICK r \in DOMAIN Zone.solutions : samples[n].loader = FieldLoader(r, name, type, count)
    BY <1>4 DEF SamplesMatch
  <2>2. \E i \in DOMAIN StepsOf(at.base, Zone, solution.name) :
          /\ TimeOfStep(at.base, i) = samples[n].time
          /\ Zone.solutions[samples[n].loader.solution].name = StepsOf(at.base, Zone, solution.name)[i]
    BY <1>4 DEF SamplesMatch
  <2> HIDE DEF samples, attr, path
  <2>3. /\ samples[n].loader.solution = r /\ samples[n].loader.name = name
        /\ samples[n].loader.base = at.base /\ samples[n].loader.zone = at.zone
        /\ samples[n].loader.type = type /\ samples[n].loader.kind = "field"
        /\ samples[n].loader.count = DataSize(Zone, solution.location)
    BY <2>1 DEF FieldLoader, count
  <2>4. FieldFits(at.base, Zone, <<path, id>>, samples[n].loader, samples[n].time)
    BY <1>3, <2>2, <2>3 DEF FieldFits
  <2> QED
    BY <1>2, <2>3, <2>4, InZone DEF SampleFits
<1> HIDE DEF samples, name, attr, type
<1>6. AttrFits(at.base, at.zone, attr.key, attr)
  BY <1>2, <1>3, <1>5 DEF AttrFits
<1>7. solution.name \in DOMAIN zoneIterative.groups =>
        SamplesFit(at.base, at.zone, StepsOf(at.base, Zone, solution.name), samples)
  BY LedSamples DEF samples
<1> QED
  BY <1>2, <1>6, <1>7 DEF attr, name

\* ReadCGNS is at work.
LEMMA IsReading ==
  ASSUME MutexInv, NEW t \in Threads, pc[t] = "reading"
  PROVE  phase = "reading"
  BY DEF MutexInv

\* A step inside a zone, which registers attributes below one of its nodes.
LEMMA ZoneStep ==
  ASSUME IInv, TypeInv', at.part \notin {"head", "solutions"}, phase = "reading",
         UNCHANGED <<file, options, phase, baseTimes>>,
         at'.base = at.base, at'.zone = at.zone, at'.part # "head",
         at'.part = "solutions" => at'.item = 1,
         prims \subseteq prims', \A path \in prims' : path \in prims \/ Len(path) # 2,
         AttrsInv',
         \A b, z, s \in Nat : Passed(b, z, s) =>
           KeepsNode(b, z, s),
         PointersInv'
  PROVE  ReadInv' /\ AtInv'
<1> USE DEF IInv
<1>1. AtInv'
  <2>1. ShowsZone(at.base, at.zone)' /\ ShowsBase(at.base)'
    BY InZone DEF ShowsZone, ShowsBase
  <2> QED
    BY <2>1, InZone DEF AtInv
<1>2. GoesOn
  BY MovingGoesOn DEF MovesOn
<1>3. PrimsInv'
  BY <1>2, PrimsKept
<1>4. ASSUME NEW b \in Nat, NEW z \in Nat, NEW s \in Nat, Passed(b, z, s)'
      PROVE  Passed(b, z, s)
  <2>1. ShowsZone(b, z) /\ s \in DOMAIN file.bases[b].zones[z].solutions
    BY <1>4 DEF Passed, ShowsZone, ShowsBase
  <2>2. s > 0
    <3>1. b \in DOMAIN file.bases /\ z \in DOMAIN file.bases[b].zones
      BY <2>1 DEF ShowsZone, ShowsBase
    <3>2. DOMAIN file.bases[b].zones[z].solutions = 1..Len(file.bases[b].zones[z].solutions)
      BY <3>1, ZoneTypes
    <3> QED
      BY <2>1, <3>2
  <2> QED
    BY <1>4, <2>1, <2>2 DEF Passed
<1>5. SolutionsInv'
  BY <1>2, <1>4, SolutionsKept
<1> QED
  BY <1>1, <1>3, <1>5 DEF ReadInv

\* A grid of a zone, or on to its sections.
LEMMA GridStep ==
  ASSUME IInv, TypeInv', NEW t \in Threads, ReadGridCoordinates(t)
  PROVE  ReadInv' /\ AtInv'
<1> USE DEF IInv
<1>1. /\ at.part = "grids" /\ phase = "reading"
      /\ UNCHANGED <<file, options, phase, baseTimes, zoneIterative, polyCache>>
  BY IsReading DEF ReadGridCoordinates, Reading, fileVars, loadVars
<1>2. at \in Places
  BY DEF TypeInv, StateTypes
<1>3. CASE at.item > Len(Zone.grids)
  <2>1. /\ at' = [at EXCEPT !.part = "sections", !.item = 1]
        /\ UNCHANGED <<prims, attrs>>
    BY <1>3 DEF ReadGridCoordinates, NextPart
  <2>2. at'.base = at.base /\ at'.zone = at.zone /\ at'.part = "sections"
    BY <1>2, <2>1 DEF Places
  <2>3. GoesOn
    BY <1>1, <2>2, MovingGoesOn DEF MovesOn
  <2>4. AttrsInv'
    BY <1>1, <2>1, <2>3, AttrsKept
  <2>5. PointersInv'
    BY <2>2 DEF PointersInv
  <2> QED
    BY <1>1, <2>1, <2>2, <2>4, <2>5, NodesKept, ZoneStep
<1>4. CASE ~(at.item > Len(Zone.grids))
  <2>1. at.item \in DOMAIN Zone.grids
    <3>1. Zone.grids \in Seq(Grids)
      BY <1>1, InZone, ZoneTypes DEF Zones
    <3> QED
      BY <1>1, <1>4, <3>1, InZone
  <2> DEFINE grid == Zone.grids[at.item]
  <2>2. /\ prims' = prims \cup {ChildPath(grid)} /\ RegisterAll(CoordAttrs(grid))
        /\ at' = [at EXCEPT !.item = @ + 1]
    BY <1>4 DEF ReadGridCoordinates, NextItem
  <2>3. at'.base = at.base /\ at'.zone = at.zone /\ at'.part = "grids"
    BY <1>1, <1>2, <2>2 DEF Places
  <2>4. GoesOn
    BY <1>1, <2>3, MovingGoesOn DEF MovesOn
  <2>5. PICK more : more = CoordAttrs(grid)
    OBVIOUS
  <2>6. PICK b, z, name : b = at.base /\ z = at.zone /\ name = grid.name
    OBVIOUS
  <2>7. /\ \E L \in Nat : DOMAIN more \subseteq 1..L
        /\ \A n \in DOMAIN more :
             more[n].key[1] = NodeOf(b, z, name) /\ AttrFits(b, z, more[n].key, more[n])
    BY <1>1, <2>1, <2>5, <2>6, CoordAttrsFit
  <2>8. PICK L \in Nat : DOMAIN more \subseteq 1..L
    BY <2>7
  <2>9. b \in Nat /\ z \in Nat /\ Begun(b, z) /\ RegisterAll(more)
    BY <1>1, <2>2, <2>5, <2>6, InZone
  <2>10. \A n \in DOMAIN more : AttrFits(b, z, more[n].key, more[n])'
    BY <1>1, <2>4, <2>7, <2>9, AttrFitsKept
  <2>11. AttrsInv'
    BY <1>1, <2>4, <2>8, <2>9, <2>10, RegisteringFits
  <2>12. ASSUME NEW c \in Nat, NEW y \in Nat, NEW s \in Nat, Passed(c, y, s)
         PROVE  KeepsNode(c, y, s)
    <3>1. ~(c = at.base /\ y = at.zone)
      BY <1>1, <1>2, <2>12 DEF Passed, Places
    <3>2. \A n \in DOMAIN more : more[n].key[1] = NodeOf(at.base, at.zone, name)
      BY <2>6, <2>7
    <3> QED
      BY <1>1, <2>8, <2>9, <2>12, <3>1, <3>2, OthersKeepAttrs
  <2>13. \A path \in prims' : path \in prims \/ Len(path) # 2
    <3>1. Len(ChildPath(grid)) = 3
      BY DEF ChildPath
    <3> QED
      BY <2>2, <3>1
  <2>14. PointersInv'
    BY <2>3 DEF PointersInv
  <2> QED
    BY <1>1, <2>2, <2>3, <2>11, <2>12, <2>13, <2>14, ZoneStep
<1> QED
  BY <1>3, <1>4

\* The arrays of a section are registered under its node.
LEMMA SectionAttrsFit ==
  ASSUME TypeInv, AtInv, at.part # "head", at.item \in DOMAIN Zone.sections,
         NEW b, b = at.base, NEW z, z = at.zone,
         NEW more, more = SectionAttrs(Zone.sections[at.item])
  PROVE  /\ DOMAIN more \subseteq 1..2
         /\ \A n \in DOMAIN more :
              /\ more[n].key[1] = NodeOf(b, z, Zone.sections[at.item].name)
              /\ AttrFits(b, z, more[n].key, more[n])
<1> DEFINE section == Zone.sections[at.item]
           type == ResolveDataType("LongInteger")
           loader(name) == [kind |-> IF section.poly THEN "poly" ELSE "elements", values |-> name,
                            base |-> at.base, zone |-> at.zone, section |-> at.item, type |-> type,
                            count |-> OffsetCount(section)]
           attr(name) == RegisterLazySingleState(ChildPath(section), name, type,
                           GetSingleStateSampleTime, loader(name))
           path == NodeOf(b, z, section.name)
<1>1. more = IF section.poly THEN <<attr("connectivity"), attr("offsets")>>
             ELSE <<attr("connectivity")>>
  BY DEF SectionAttrs
<1>2. /\ section.poly => DOMAIN more = {1, 2} /\ more[1] = attr("connectivity") /\ more[2] = attr("offsets")
      /\ ~section.poly => DOMAIN more = {1} /\ more[1] = attr("connectivity")
  <2> HIDE DEF attr, section
  <2> QED
    BY <1>1
<1>3. ASSUME NEW n \in DOMAIN more
      PROVE  \E name : /\ more[n] = attr(name)
                       /\ name = "connectivity" \/ (section.poly /\ name = "offsets")
  <2> HIDE DEF attr, section
  <2>1. CASE section.poly
    <3>1. n = 1 \/ n = 2
      BY <1>2, <2>1
    <3> QED
      BY <1>2, <2>1, <3>1
  <2>2. CASE ~section.poly
    BY <1>2, <2>2
  <2> QED
    BY <2>1, <2>2
<1>4. ASSUME NEW name, NEW a, a = attr(name),
             name = "connectivity" \/ (section.poly /\ name = "offsets")
      PROVE  a.key[1] = path /\ AttrFits(b, z, a.key, a)
  <2> DEFINE given == loader(name)
  <2>1. /\ a.key = <<path, name>> /\ a.type = DataTypeToSdfTypeName(type)
        /\ DOMAIN a.samples = {1} /\ a.samples[1].loader = given
    <3>1. ChildPath(section) = path
      BY InZone
    <3> HIDE DEF path, section, given, type
    <3>2. a = RegisterLazySingleState(path, name, type, GetSingleStateSampleTime, given)
      BY <1>4, <3>1 DEF given
    <3> QED
      BY <3>2, SingleState
  <2>2. given.type = type
    OBVIOUS
  <2>3. /\ given.values = name /\ given.section = at.item /\ given.count = OffsetCount(section)
        /\ given.base = b /\ given.zone = z
        /\ given.kind = IF section.poly THEN "poly" ELSE "elements"
    OBVIOUS
  <2>4. PICK l : l = given
    OBVIOUS
  <2>5. PICK nm : nm = section.name
    OBVIOUS
  <2> HIDE DEF given, type
  <2>6. /\ a.key[1][3] = TfMakeValidIdentifier(nm) /\ a.key[2] = name
        /\ a.key = <<Under(b, z, a.key[1][3]), a.key[2]>>
    BY <2>1, <2>5 DEF NodeOf, Under
  <2>7. SectionFits(file.bases[b].zones[z], a.key, l)
    <3>1. Zone = file.bases[b].zones[z]
      BY InZone
    <3>2. /\ l.section \in DOMAIN file.bases[b].zones[z].sections
          /\ TfMakeValidIdentifier(file.bases[b].zones[z].sections[l.section].name) = a.key[1][3]
          /\ l.count = OffsetCount(file.bases[b].zones[z].sections[l.section])
      BY <2>3, <2>4, <2>5, <2>6, <3>1
    <3>3. /\ l.values = a.key[2]
          /\ l.values = "connectivity" \/ (l.kind = "poly" /\ l.values = "offsets")
      BY <1>4, <2>3, <2>4, <2>6
    <3> HIDE DEF section
    <3> QED
      BY <3>2, <3>3 DEF SectionFits
  <2>8. SampleFits(b, z, a.key, a.type, a.samples[1])
    <3>1. l.kind \in {"elements", "poly"} /\ l.base = b /\ l.zone = z
      BY <2>3, <2>4
    <3>2. a.samples[1].loader = l /\ DataTypeToSdfTypeName(l.type) = a.type
      BY <2>1, <2>2, <2>4
    <3> HIDE DEF section
    <3> QED
      BY <2>7, <3>1, <3>2 DEF SampleFits
  <2> QED
    BY <2>1, <2>6, <2>8 DEF AttrFits
<1>5. ASSUME NEW n \in DOMAIN more
      PROVE  more[n].key[1] = path /\ AttrFits(b, z, more[n].key, more[n])
  <2>1. PICK name : /\ more[n] = attr(name)
                    /\ name = "connectivity" \/ (section.poly /\ name = "offsets")
    BY <1>3
  <2> HIDE DEF attr, section, path
  <2> QED
    BY <1>4, <2>1
<1>6. DOMAIN more \subseteq 1..2
  <2> HIDE DEF attr, section
  <2> QED
    BY <1>2
<1> QED
  BY <1>5, <1>6

\* A section of a zone, or on to its pointer arrays.
LEMMA SectionStep ==
  ASSUME IInv, TypeInv', NEW t \in Threads, ReadSections(t)
  PROVE  ReadInv' /\ AtInv'
<1> USE DEF IInv
<1>1. /\ at.part = "sections" /\ phase = "reading"
      /\ UNCHANGED <<file, options, phase, baseTimes, zoneIterative>>
  BY IsReading DEF ReadSections, Reading, fileVars
<1>2. at \in Places
  BY DEF TypeInv, StateTypes
<1>3. CASE at.item > Len(Zone.sections)
  <2>1. /\ at' = [at EXCEPT !.part = "pointers", !.item = 1]
        /\ UNCHANGED <<prims, attrs>>
    BY <1>3 DEF ReadSections, NextPart
  <2>2. at'.base = at.base /\ at'.zone = at.zone /\ at'.part = "pointers"
    BY <1>2, <2>1 DEF Places
  <2>3. GoesOn
    BY <1>1, <2>2, MovingGoesOn DEF MovesOn
  <2>4. AttrsInv'
    BY <1>1, <2>1, <2>3, AttrsKept
  <2>5. PointersInv'
    BY <2>2 DEF PointersInv
  <2> QED
    BY <1>1, <2>1, <2>2, <2>4, <2>5, NodesKept, ZoneStep
<1>4. CASE ~(at.item > Len(Zone.sections))
  <2>1. at.item \in DOMAIN Zone.sections
    <3>1. Zone.sections \in Seq(Sections)
      BY <1>1, InZone, ZoneTypes DEF Zones
    <3> QED
      BY <1>1, <1>4, <3>1, InZone
  <2> DEFINE section == Zone.sections[at.item]
  <2>2. /\ prims' = prims \cup {ChildPath(section)} /\ RegisterAll(SectionAttrs(section))
        /\ at' = [at EXCEPT !.item = @ + 1]
    BY <1>4 DEF ReadSections, NextItem
  <2>3. at'.base = at.base /\ at'.zone = at.zone /\ at'.part = "sections"
    BY <1>1, <1>2, <2>2 DEF Places
  <2>4. GoesOn
    BY <1>1, <2>3, MovingGoesOn DEF MovesOn
  <2>5. PICK more : more = SectionAttrs(section)
    OBVIOUS
  <2>6. PICK b, z, name : b = at.base /\ z = at.zone /\ name = section.name
    OBVIOUS
  <2>7. /\ DOMAIN more \subseteq 1..2
        /\ \A n \in DOMAIN more :
             more[n].key[1] = NodeOf(b, z, name) /\ AttrFits(b, z, more[n].key, more[n])
    BY <1>1, <2>1, <2>5, <2>6, SectionAttrsFit
  <2>8. b \in Nat /\ z \in Nat /\ Begun(b, z) /\ RegisterAll(more)
    BY <1>1, <2>2, <2>5, <2>6, InZone
  <2>9. \A n \in DOMAIN more : AttrFits(b, z, more[n].key, more[n])'
    BY <1>1, <2>4, <2>7, <2>8, AttrFitsKept
  <2>10. AttrsInv'
    BY <1>1, <2>4, <2>7, <2>8, <2>9, RegisteringFits
  <2>11. ASSUME NEW c \in Nat, NEW y \in Nat, NEW s \in Nat, Passed(c, y, s)
         PROVE  KeepsNode(c, y, s)
    <3>1. ~(c = at.base /\ y = at.zone)
      BY <1>1, <1>2, <2>11 DEF Passed, Places
    <3>2. \A n \in DOMAIN more : more[n].key[1] = NodeOf(at.base, at.zone, name)
      BY <2>6, <2>7
    <3> QED
      BY <1>1, <2>7, <2>8, <2>11, <3>1, <3>2, OthersKeepAttrs
  <2>12. \A path \in prims' : path \in prims \/ Len(path) # 2
    <3>1. Len(ChildPath(section)) = 3
      BY DEF ChildPath
    <3> QED
      BY <2>2, <3>1
  <2>13. PointersInv'
    BY <2>3 DEF PointersInv
  <2> HIDE DEF section
  <2> QED
    BY <1>1, <2>2, <2>3, <2>10, <2>11, <2>12, <2>13, ZoneStep
<1> QED
  BY <1>3, <1>4

\* The pointer arrays of a zone.
LEMMA PointersStep ==
  ASSUME IInv, TypeInv', NEW t \in Threads, ReadZoneIterativeInfo(t)
  PROVE  ReadInv' /\ AtInv'
<1> USE DEF IInv
<1>1. /\ at.part = "pointers" /\ phase = "reading"
      /\ UNCHANGED <<file, options, phase, baseTimes, prims, attrs, polyCache>>
      /\ at' = [at EXCEPT !.part = "solutions", !.item = 1]
      /\ zoneIterative' = IF baseTimes[at.base].numSteps = 0 THEN NoPointers
                          ELSE PointersOf(Zone.pointers)
  BY IsReading DEF ReadZoneIterativeInfo, Reading, fileVars, loadVars, NextPart
<1>2. at'.base = at.base /\ at'.zone = at.zone /\ at'.part = "solutions" /\ at'.item = 1
  BY <1>1 DEF TypeInv, StateTypes, Places
<1>3. GoesOn
  BY <1>1, <1>2, MovingGoesOn DEF MovesOn
<1>4. AttrsInv'
  BY <1>1, <1>3, AttrsKept
<1>5. PointersInv'
  <2>1. Zone = file.bases[at.base].zones[at.zone]
    BY <1>1, InZone
  <2> QED
    BY <1>1, <1>2, <2>1 DEF PointersInv
<1> QED
  BY <1>1, <1>2, <1>4, <1>5, NodesKept, ZoneStep

\* A solution that has been read is shown, as a prim or by the others of its array,
\* and its samples are those of its own array.
LEMMA SolutionStep ==
  ASSUME IInv, TypeInv', NEW t \in Threads, ReadFlowSolution(t)
  PROVE  ReadInv' /\ AtInv'
<1> USE DEF IInv
<1> DEFINE solution == Zone.solutions[at.item]
<1>1. /\ at.part = "solutions" /\ phase = "reading" /\ at.item <= Len(Zone.solutions)
      /\ UNCHANGED <<file, options, phase, baseTimes, zoneIterative, polyCache>>
      /\ at' = [at EXCEPT !.item = @ + 1]
  BY IsReading DEF ReadFlowSolution, Reading, fileVars, loadVars, NextItem
<1>2. /\ at'.base = at.base /\ at'.zone = at.zone /\ at'.part = "solutions"
      /\ at'.item = at.item + 1 /\ at.item \in Nat /\ at.item > 0
  BY <1>1 DEF TypeInv, StateTypes, Places
<1>3. at.item \in DOMAIN Zone.solutions
  <2>1. DOMAIN Zone.solutions = 1..Len(Zone.solutions)
    BY <1>1, InZone, ZoneTypes
  <2> QED
    BY <1>1, <1>2, <2>1
<1>4. GoesOn
  BY <1>1, <1>2, MovingGoesOn DEF MovesOn
<1>5. AtInv'
  <2>1. ShowsZone(at.base, at.zone)' /\ ShowsBase(at.base)'
    BY <1>1, <1>2, InZone DEF ShowsZone, ShowsBase
  <2> QED
    BY <1>1, <1>2, <2>1, InZone DEF AtInv
<1>6. PointersInv'
  BY <1>1, <1>2 DEF PointersInv
<1>7. \A path \in prims' : path \in prims \/ Len(path) # 2
  <2>1. Len(ChildPath(solution)) = 3
    BY DEF ChildPath
  <2> QED
    BY <2>1 DEF ReadFlowSolution
<1>8. PrimsInv'
  BY <1>4, <1>7, PrimsKept
<1>9. PICK b, z, s, name : b = at.base /\ z = at.zone /\ s = at.item /\ name = solution.name
  OBVIOUS
<1>10. ASSUME NEW c \in Nat, NEW y \in Nat, NEW r \in Nat, Passed(c, y, r)'
       PROVE  Passed(c, y, r) \/ (c = b /\ y = z /\ r = s)
  <2>1. ShowsZone(c, y) /\ r \in DOMAIN file.bases[c].zones[y].solutions
    BY <1>1, <1>10 DEF Passed, ShowsZone, ShowsBase
  <2> QED
    BY <1>1, <1>2, <1>9, <1>10, <2>1 DEF Passed
<1>11. ASSUME NEW c \in Nat, NEW y \in Nat, NEW r \in Nat, Passed(c, y, r), c = b, y = z,
              IsApart(file.bases[c].zones[y].solutions, r)
       PROVE  TfMakeValidIdentifier(file.bases[c].zones[y].solutions[r].name)
                # TfMakeValidIdentifier(name)
  <2>1. r < s /\ r \in DOMAIN Zone.solutions
    BY <1>1, <1>2, <1>9, <1>11, InZone DEF Passed
  <2>2. Zone = file.bases[c].zones[y]
    BY <1>1, <1>9, <1>11, InZone
  <2>3. s \in DOMAIN Zone.solutions /\ Zone.solutions[s].name = name /\ r # s
    BY <1>2, <1>3, <1>9, <2>1
  <2>4. IsApart(Zone.solutions, r)
    BY <1>11, <2>2
  <2>5. Zone.solutions[r].name = file.bases[c].zones[y].solutions[r].name
    BY <2>2
  <2> QED
    BY <2>3, <2>4, <2>5 DEF IsApart
<1>12. /\ b \in DOMAIN file.bases /\ z \in DOMAIN file.bases[b].zones
       /\ b \in Nat /\ z \in Nat /\ s \in Nat /\ Begun(b, z)
       /\ Zone = file.bases[b].zones[z] /\ name = file.bases[b].zones[z].solutions[s].name
       /\ solution = file.bases[b].zones[z].solutions[s]
       /\ baseTimes'[b] = baseTimes[b]
  BY <1>1, <1>2, <1>9, InZone
<1> DEFINE zone == file.bases[b].zones[z]
<1>13. ASSUME NEW steps \in LeadingArrays(b, zone), steps[1] = name
       PROVE  name \in DOMAIN zoneIterative.groups /\ steps = StepsOf(b, zone, name)
  <2>1. /\ baseTimes[b].numSteps # 0 /\ StartingWith(zone.pointers, steps[1]) # {}
        /\ steps = StepsOf(b, zone, steps[1])
    BY <1>12, LeadingIs
  <2>2. baseTimes[at.base].numSteps # 0 /\ StartingWith(Zone.pointers, name) # {}
    BY <1>9, <1>12, <1>13, <2>1
  <2>3. name \in DOMAIN zoneIterative.groups
    BY <1>1, <2>2, PointersAre
  <2> QED
    BY <1>13, <2>1, <2>3
<1>14. LeadingArrays(b, zone)' = LeadingArrays(b, zone)
  BY <1>1, <1>12, StepsKept
<1>15. ASSUME prims \subseteq prims', AttrsInv', IsShown(b, z, s)', IsLed(b, z, s)',
              \A c, y, r \in Nat : Passed(c, y, r) =>
                KeepsNode(c, y, r)
       PROVE  ReadInv' /\ AtInv'
  <2>1. SolutionsInv'
    BY <1>1, <1>4, <1>10, <1>15, SolutionsKept
  <2> QED
    BY <1>5, <1>6, <1>8, <1>15, <2>1 DEF ReadInv
<1>16. CASE IsSkipped(solution.name)
  <2>1. UNCHANGED <<prims, attrs>>
    BY <1>16 DEF ReadFlowSolution
  <2>2. AttrsInv'
    BY <1>1, <1>4, <2>1, AttrsKept
  <2>3. /\ name \notin DOMAIN zoneIterative.groups
        /\ baseTimes[b].numSteps # 0 /\ InArray(zone, name)
        /\ StartingWith(zone.pointers, name) = {}
    BY <1>1, <1>9, <1>12, <1>16, PointersAre DEF IsSkipped
  <2>4. IsShown(b, z, s)'
    BY <1>1, <1>12, <2>3 DEF IsShown
  <2>5. IsLed(b, z, s)'
    BY <1>1, <1>12, <1>13, <1>14, <2>3 DEF IsLed
  <2> QED
    BY <1>15, <2>1, <2>2, <2>4, <2>5, NodesKept
<1>17. CASE ~IsSkipped(solution.name)
  <2>1. PICK more : more = [f \in DOMAIN solution.fields |-> RegisterFlowSolutionField(at.item, f)]
    OBVIOUS
  <2>2. prims' = prims \cup {ChildPath(solution)} /\ RegisterAll(more)
    BY <1>17, <2>1 DEF ReadFlowSolution
  <2>3. PICK L \in Nat : DOMAIN more \subseteq 1..L
    <3>1. DOMAIN solution.fields = 1..Len(solution.fields) /\ Len(solution.fields) \in Nat
      BY <1>1, <1>3, InZone, ZoneTypes
    <3> HIDE DEF solution
    <3> QED
      BY <2>1, <3>1
  <2> DEFINE fields == zone.solutions[s].fields
  <2>4. ASSUME NEW f \in DOMAIN more
        PROVE  /\ f \in DOMAIN fields /\ more[f].key = <<NodeOf(b, z, name), TfMakeValidIdentifier(fields[f].name)>>
               /\ AttrFits(b, z, more[f].key, more[f])
               /\ name \in DOMAIN zoneIterative.groups =>
                    SamplesFit(b, z, StepsOf(b, zone, name), more[f].samples)
    <3>1. f \in DOMAIN solution.fields /\ more[f] = RegisterFlowSolutionField(at.item, f)
      BY <2>1
    <3> QED
      BY <1>1, <1>3, <1>9, <1>12, <3>1, FieldAttrsFit
  <2>5. \A f \in DOMAIN more : AttrFits(b, z, more[f].key, more[f])'
    BY <1>1, <1>4, <1>12, <2>4, AttrFitsKept
  <2>6. AttrsInv'
    BY <1>1, <1>4, <1>12, <2>2, <2>3, <2>5, RegisteringFits
  <2>7. ASSUME NEW c \in Nat, NEW y \in Nat, NEW r \in Nat, Passed(c, y, r)
        PROVE  KeepsNode(c, y, r)
    <3> SUFFICES ASSUME IsApart(file.bases[c].zones[y].solutions, r)
                 PROVE  KeepsNode(c, y, r)
      BY DEF KeepsNode
    <3>1. \A f \in DOMAIN more : more[f].key[1] = NodeOf(b, z, name)
      <4> SUFFICES ASSUME NEW f \in DOMAIN more
                   PROVE  more[f].key[1] = NodeOf(b, z, name)
        OBVIOUS
      <4>1. more[f].key = <<NodeOf(b, z, name), TfMakeValidIdentifier(fields[f].name)>>
        BY <2>4
      <4> HIDE DEF fields
      <4> QED
        BY <4>1
    <3>2. \A f \in DOMAIN more : more[f].key[1] = NodeOf(at.base, at.zone, name)
      BY <1>9, <3>1
    <3>3. ~(c = at.base /\ y = at.zone 
             /\ TfMakeValidIdentifier(file.bases[c].zones[y].solutions[r].name)
                  = TfMakeValidIdentifier(name))
      BY <1>9, <1>11, <2>7
    <3>4. TypeInv /\ AtInv /\ at.part # "head" /\ RegisterAll(more) /\ L \in Nat /\ DOMAIN more \subseteq 1..L
      BY <1>1, <2>2, <2>3
    <3>5. Passed(c, y, r)
      BY <2>7
    <3> HIDE DEF IInv
    <3> QED
      BY <3>2, <3>3, <3>4, <3>5, OthersKeepAttrs
  <2>8. NodeOf(b, z, name) \in prims'
    BY <1>1, <1>9, <2>2, InZone
  <2>9. IsShown(b, z, s)'
    BY <1>1, <1>12, <2>8 DEF IsShown, NodeOf
  <2>10. ASSUME NEW f \in DOMAIN fields
         PROVE  /\ f \in DOMAIN more /\ more[f].key \in DOMAIN attrs'
                /\ \E m \in DOMAIN more : attrs'[more[f].key] = more[m]
    <3>1. f \in DOMAIN more
      BY <1>12, <2>1
    <3>2. DOMAIN attrs' = DOMAIN attrs \cup {more[n].key : n \in DOMAIN more}
      BY <2>2, <2>3, RegisteredAttrs
    <3>3. more[f].key \in DOMAIN attrs'
      BY <3>1, <3>2
    <3>4. \E m \in DOMAIN more : attrs'[more[f].key] = more[m]
      BY <2>2, <2>3, <3>1, RegisteredAttrs
    <3> QED
      BY <3>1, <3>3, <3>4
  <2>11. ASSUME NEW steps \in LeadingArrays(b, zone), steps[1] = name,
                NEW f \in DOMAIN fields,
                NEW key, key = <<NodeOf(b, z, name), TfMakeValidIdentifier(fields[f].name)>>
         PROVE  key \in DOMAIN attrs' /\ SamplesFit(b, z, steps, attrs[key].samples)'
    <3>1. key = more[f].key /\ key \in DOMAIN attrs'
      BY <2>4, <2>10, <2>11
    <3>2. PICK m \in DOMAIN more : attrs'[key] = more[m]
      BY <2>10, <3>1
    <3>3. SamplesFit(b, z, steps, more[m].samples)
      BY <1>13, <2>4, <2>11
    <3>4. SamplesFit(b, z, steps, more[m].samples)'
      BY <1>1, <1>12, <3>3, SamplesFitKept
    <3> QED
      BY <3>1, <3>2, <3>4
  <2>12. IsLed(b, z, s)'
    <3> DEFINE node == zone.solutions[s]
               keyOf(f) == <<NodeOf(b, z, node.name), TfMakeValidIdentifier(node.fields[f].name)>>
    <3> SUFFICES ASSUME NEW steps \in LeadingArrays(b, zone)', steps[1] = node'.name,
                        NEW f \in DOMAIN node'.fields
                 PROVE  keyOf(f)' \in DOMAIN attrs' /\ SamplesFit(b, z, steps, attrs[keyOf(f)].samples)'
      BY DEF IsLed
    <3>1. keyOf(f)' = keyOf(f) /\ node' = node
      BY <1>1 DEF NodeOf
    <3>2. steps \in LeadingArrays(b, zone) /\ steps[1] = name /\ f \in DOMAIN fields
      BY <1>12, <1>14, <3>1
    <3>3. keyOf(f) = <<NodeOf(b, z, name), TfMakeValidIdentifier(fields[f].name)>>
      BY <1>12
    <3>4. PICK key : key = keyOf(f)
      OBVIOUS
    <3>5. key \in DOMAIN attrs' /\ SamplesFit(b, z, steps, attrs[key].samples)'
      BY <2>11, <3>2, <3>3, <3>4
    <3> QED
      BY <3>1, <3>4, <3>5
  <2> QED
    BY <1>15, <2>2, <2>6, <2>7, <2>9, <2>12
<1> QED
  BY <1>16, <1>17

\* A step from one base or zone to another, which finds nothing new in those that
\* are shown.
LEMMA WalkStep ==
  ASSUME IInv, TypeInv', phase = "reading",
         UNCHANGED <<file, options, phase, attrs, polyCache>>, MovesOn,
         \/ baseTimes' = baseTimes
         \/ at.zone = 0 /\ \A b \in Nat : b # at.base => baseTimes'[b] = baseTimes[b],
         AtInv', at'.part # "solutions", prims \subseteq prims',
         \A path \in prims' : path \in prims \/ Len(path) # 2
                              \/ \E b, z \in Nat : Begun(b, z)' /\ path = PathOf(b, z),
         \A b, z, s \in Nat : Passed(b, z, s)' => Passed(b, z, s)
  PROVE  ReadInv' /\ AtInv'
<1> USE DEF IInv
<1>1. GoesOn
  BY MovingGoesOn
<1>2. AttrsInv'
  BY <1>1, AttrsKept
<1>3. PrimsInv'
  BY <1>1, PrimsKept
<1>4. SolutionsInv'
  BY <1>1, NodesKept, SolutionsKept
<1>5. PointersInv'
  BY DEF PointersInv
<1> QED
  BY <1>2, <1>3, <1>4, <1>5 DEF ReadInv

\* What is skipped is not shown.
LEMMA SkippedIs ==
  /\ SkipsBase <=> ~(file.bases[at.base].cellDimension = 3
                     /\ options.filterBase \in {"", file.bases[at.base].name})
  /\ at.base \in DOMAIN file.bases => (SkipsBase <=> ~ShowsBase(at.base))
  /\ ShowsBase(at.base) /\ at.zone \in DOMAIN file.bases[at.base].zones =>
       (SkipsZone <=> ~ShowsZone(at.base, at.zone))
  BY DEF SkipsBase, ShowsBase, SkipsZone, ShowsZone, Base, Zone

\* What is shown, and what was passed, by where ReadCGNS is.
LEMMA PassedIs ==
  ASSUME TypeInv, NEW b, NEW z, NEW s, ShowsZone(b, z),
         s \in DOMAIN file.bases[b].zones[z].solutions
  PROVE  /\ b \in Nat /\ z \in Nat /\ z > 0 /\ s \in Nat /\ s > 0
         /\ b <= Len(file.bases) /\ Len(file.bases) \in Nat
         /\ z <= Len(file.bases[b].zones) /\ Len(file.bases[b].zones) \in Nat
         /\ s <= Len(file.bases[b].zones[z].solutions)
         /\ Len(file.bases[b].zones[z].solutions) \in Nat
<1>1. b \in DOMAIN file.bases /\ z \in DOMAIN file.bases[b].zones
  BY DEF ShowsZone, ShowsBase
<1>2. /\ b \in 1..Len(file.bases) /\ Len(file.bases) \in Nat
      /\ z \in 1..Len(file.bases[b].zones) /\ Len(file.bases[b].zones) \in Nat
  BY <1>1, BaseTypes
<1>3. /\ s \in 1..Len(file.bases[b].zones[z].solutions)
      /\ Len(file.bases[b].zones[z].solutions) \in Nat
  BY <1>1, ZoneTypes
<1> QED
  BY <1>2, <1>3

\* ReadCGNS is between two zones of the file.
LEMMA HeadIsThere ==
  ASSUME UNCHANGED <<file, options>>, phase' = "reading", at'.part = "head",
         at'.base <= Len(file.bases) + 1,
         at'.zone > 0 =>
           ShowsBase(at'.base) /\ at'.zone <= Len(file.bases[at'.base].zones) + 1
  PROVE  AtInv'
  BY DEF AtInv, ShowsBase

\* To the next base, or to the first zone of this one.
LEMMA BaseStep ==
  ASSUME IInv, TypeInv', NEW t \in Threads, ReadBase(t)
  PROVE  ReadInv' /\ AtInv'
<1> USE DEF IInv
<1>1. /\ phase = "reading" /\ at.part = "head" /\ at.zone = 0 /\ at.base <= Len(file.bases)
      /\ UNCHANGED <<file, options, phase, attrs, polyCache>>
  BY IsReading DEF ReadBase, Reading, fileVars, loadVars
<1>2. at \in Places /\ at.base \in Nat /\ at.base \in DOMAIN file.bases
  BY <1>1, AtIsThere DEF TypeInv, StateTypes, Places
<1>3. \A b, z : (ShowsBase(b)' <=> ShowsBase(b)) /\ (ShowsZone(b, z)' <=> ShowsZone(b, z))
  BY <1>1 DEF ShowsBase, ShowsZone
<1>4. CASE SkipsBase
  <2>1. at' = [at EXCEPT !.base = @ + 1] /\ UNCHANGED <<prims, baseTimes>>
    BY <1>4 DEF ReadBase
  <2>2. at'.base = at.base + 1 /\ at'.zone = 0 /\ at'.part = "head"
    BY <1>1, <1>2, <2>1 DEF Places
  <2>3. ~ShowsBase(at.base)
    BY <1>2, <1>4, SkippedIs
  <2>4. ASSUME NEW b \in Nat, NEW z \in Nat, NEW s \in Nat, Passed(b, z, s)'
        PROVE  Passed(b, z, s)
    <3>1. ShowsZone(b, z) /\ s \in DOMAIN file.bases[b].zones[z].solutions
      BY <1>1, <1>3, <2>4 DEF Passed
    <3>2. b # at.base /\ z > 0
      BY <2>3, <3>1, PassedIs DEF ShowsZone
    <3> QED
      BY <1>2, <2>2, <2>4, <3>1, <3>2 DEF Passed
  <2>5. AtInv'
    BY <1>1, <1>2, <2>2, BaseTypes DEF AtInv
  <2>6. MovesOn
    BY <1>2, <2>2 DEF MovesOn
  <2> QED
    BY <1>1, <2>1, <2>2, <2>4, <2>5, <2>6, WalkStep
<1>5. CASE ~SkipsBase
  <2>1. /\ prims' = prims \cup {BasePath} /\ at' = [at EXCEPT !.zone = 1]
        /\ \A b \in Nat : b # at.base => baseTimes'[b] = baseTimes[b]
    <3>1. PICK gotoFails \in BOOLEAN, readFails \in BOOLEAN :
            baseTimes' = [baseTimes EXCEPT ![at.base] = ReadBaseTimeInfo(gotoFails, readFails)]
      BY <1>5 DEF ReadBase
    <3> QED
      BY <1>5, <3>1 DEF ReadBase
  <2>2. at'.base = at.base /\ at'.zone = 1 /\ at'.part = "head"
    BY <1>1, <1>2, <2>1 DEF Places
  <2>3. ShowsBase(at.base)
    BY <1>2, <1>5, SkippedIs
  <2>4. ASSUME NEW b \in Nat, NEW z \in Nat, NEW s \in Nat, Passed(b, z, s)'
        PROVE  Passed(b, z, s)
    <3>1. ShowsZone(b, z) /\ s \in DOMAIN file.bases[b].zones[z].solutions
      BY <1>1, <1>3, <2>4 DEF Passed
    <3>2. z > 0
      BY <3>1, PassedIs
    <3> QED
      BY <1>2, <2>2, <2>4, <3>1, <3>2 DEF Passed
  <2>5. AtInv'
    <3>1. Len(file.bases[at.base].zones) \in Nat /\ Len(file.bases) \in Nat
      BY <1>2, BaseTypes
    <3> QED
      BY <1>1, <1>2, <2>2, <2>3, <3>1, HeadIsThere
  <2>6. MovesOn
    BY <1>1, <2>2 DEF MovesOn
  <2>7. \A path \in prims' : path \in prims \/ Len(path) # 2
    <3>1. Len(BasePath) # 2
      BY DEF BasePath
    <3> QED
      BY <2>1, <3>1
  <2>8. prims \subseteq prims'
    BY <2>1
  <2>9. /\ at.zone = 0 /\ at'.part # "solutions"
        /\ \A b \in Nat : b # at.base => baseTimes'[b] = baseTimes[b]
    BY <1>1, <2>1, <2>2
  <2> QED
    BY <1>1, <2>2, <2>4, <2>5, <2>6, <2>7, <2>8, <2>9, WalkStep
<1> QED
  BY <1>4, <1>5

\* On to the next base.
LEMMA EndBaseStep ==
  ASSUME IInv, TypeInv', NEW t \in Threads, EndBase(t)
  PROVE  ReadInv' /\ AtInv'
<1> USE DEF IInv
<1>1. /\ phase = "reading" /\ at.part = "head" /\ at.zone > 0 /\ at.zone > Len(Base.zones)
      /\ UNCHANGED <<file, options, phase, attrs, polyCache, prims, baseTimes>>
      /\ at' = [at EXCEPT !.base = @ + 1, !.zone = 0]
  BY IsReading DEF EndBase, Reading, fileVars, loadVars
<1>2. /\ at \in Places /\ at.base \in Nat /\ at.zone \in Nat /\ at.base \in DOMAIN file.bases
      /\ Base = file.bases[at.base]
  BY <1>1, AtIsThere DEF TypeInv, StateTypes, Places, Base
<1>3. \A b, z : ShowsZone(b, z)' <=> ShowsZone(b, z)
  BY <1>1 DEF ShowsBase, ShowsZone
<1>4. at'.base = at.base + 1 /\ at'.zone = 0 /\ at'.part = "head"
  BY <1>1, <1>2 DEF Places
<1>5. ASSUME NEW b \in Nat, NEW z \in Nat, NEW s \in Nat, Passed(b, z, s)'
      PROVE  Passed(b, z, s)
  <2>1. ShowsZone(b, z) /\ s \in DOMAIN file.bases[b].zones[z].solutions
    BY <1>1, <1>3, <1>5 DEF Passed
  <2>2. z > 0 /\ z <= Len(file.bases[b].zones) /\ Len(file.bases[b].zones) \in Nat
    BY <2>1, PassedIs
  <2> QED
    BY <1>1, <1>2, <1>4, <1>5, <2>1, <2>2 DEF Passed
<1>6. AtInv'
  BY <1>1, <1>2, <1>4, BaseTypes DEF AtInv
<1>7. MovesOn
  BY <1>2, <1>4 DEF MovesOn
<1> QED
  BY <1>1, <1>4, <1>5, <1>6, <1>7, WalkStep

\* Into a zone, or past one that is skipped.
LEMMA ReadZoneStep ==
  ASSUME IInv, TypeInv', NEW t \in Threads, ReadZone(t)
  PROVE  ReadInv' /\ AtInv'
<1> USE DEF IInv
<1>1. /\ phase = "reading" /\ at.part = "head" /\ at.zone > 0 /\ at.zone <= Len(Base.zones)
      /\ UNCHANGED <<file, options, phase, attrs, polyCache, baseTimes>>
  BY IsReading DEF ReadZone, Reading, fileVars, loadVars
<1>2. /\ at \in Places /\ at.base \in Nat /\ at.zone \in Nat /\ at.base \in DOMAIN file.bases
      /\ Base = file.bases[at.base] /\ ShowsBase(at.base)
  BY <1>1, AtIsThere DEF TypeInv, StateTypes, Places, Base, AtInv
<1>3. /\ at.zone \in DOMAIN file.bases[at.base].zones
      /\ Len(file.bases[at.base].zones) \in Nat /\ Len(file.bases) \in Nat
      /\ at.base <= Len(file.bases)
  BY <1>1, <1>2, BaseTypes
<1>4. \A b, z : (ShowsBase(b)' <=> ShowsBase(b)) /\ (ShowsZone(b, z)' <=> ShowsZone(b, z))
  BY <1>1 DEF ShowsBase, ShowsZone
<1>5. CASE SkipsZone
  <2>1. at' = [at EXCEPT !.zone = @ + 1] /\ UNCHANGED prims
    BY <1>5 DEF ReadZone
  <2>2. at'.base = at.base /\ at'.zone = at.zone + 1 /\ at'.part = "head"
    BY <1>1, <1>2, <2>1 DEF Places
  <2>3. ~ShowsZone(at.base, at.zone)
    BY <1>2, <1>3, <1>5, SkippedIs
  <2>4. ASSUME NEW b \in Nat, NEW z \in Nat, NEW s \in Nat, Passed(b, z, s)'
        PROVE  Passed(b, z, s)
    <3>1. ShowsZone(b, z) /\ s \in DOMAIN file.bases[b].zones[z].solutions
      BY <1>1, <1>4, <2>4 DEF Passed
    <3> QED
      BY <1>2, <2>2, <2>3, <2>4, <3>1 DEF Passed
  <2>5. AtInv'
    BY <1>1, <1>2, <1>3, <1>4, <2>2 DEF AtInv
  <2>6. MovesOn
    BY <1>2, <2>2 DEF MovesOn
  <2> QED
    BY <1>1, <2>1, <2>2, <2>4, <2>5, <2>6, WalkStep
<1>6. CASE ~SkipsZone
  <2>1. /\ at' = [at EXCEPT !.part = "grids", !.item = 1]
        /\ prims' = prims \cup {ZonePath}
    BY <1>6 DEF ReadZone
  <2>2. at'.base = at.base /\ at'.zone = at.zone /\ at'.part = "grids"
    BY <1>1, <1>2, <2>1 DEF Places
  <2>3. ShowsZone(at.base, at.zone)
    BY <1>2, <1>3, <1>6, SkippedIs
  <2>4. ASSUME NEW b \in Nat, NEW z \in Nat, NEW s \in Nat, Passed(b, z, s)'
        PROVE  Passed(b, z, s)
    <3>1. ShowsZone(b, z) /\ s \in DOMAIN file.bases[b].zones[z].solutions
      BY <1>1, <1>4, <2>4 DEF Passed
    <3> QED
      BY <2>2, <2>4, <3>1 DEF Passed
  <2>5. AtInv'
    BY <1>1, <1>2, <1>3, <1>4, <2>2, <2>3 DEF AtInv
  <2>6. MovesOn
    BY <2>2 DEF MovesOn
  <2>7. ZonePath = PathOf(at.base, at.zone)
    BY <1>2 DEF ZonePath, PathOf, Zone
  <2>8. PICK b \in Nat, z \in Nat : b = at.base /\ z = at.zone
    BY <1>2
  <2>9. Begun(b, z)'
    BY <1>4, <2>2, <2>3, <2>8 DEF Begun
  <2>10. \A path \in prims' : path \in prims \/ \E c, y \in Nat : Begun(c, y)' /\ path = PathOf(c, y)
    BY <2>1, <2>7, <2>8, <2>9
  <2> QED
    BY <1>1, <2>1, <2>2, <2>4, <2>5, <2>6, <2>10, WalkStep
<1> QED
  BY <1>5, <1>6

\* On to the next zone.
LEMMA EndZoneStep ==
  ASSUME IInv, TypeInv', NEW t \in Threads, EndZone(t)
  PROVE  ReadInv' /\ AtInv'
<1> USE DEF IInv
<1>1. /\ phase = "reading" /\ at.part = "solutions" /\ at.item > Len(Zone.solutions)
      /\ UNCHANGED <<file, options, phase, attrs, polyCache, prims, baseTimes>>
      /\ at' = [at EXCEPT !.zone = @ + 1, !.part = "head"]
  BY IsReading DEF EndZone, Reading, fileVars, loadVars
<1>2. /\ at \in Places /\ at.base \in Nat /\ at.zone \in Nat /\ at.item \in Nat
      /\ at.base \in DOMAIN file.bases /\ at.zone \in DOMAIN file.bases[at.base].zones
      /\ Zone = file.bases[at.base].zones[at.zone] /\ ShowsBase(at.base)
  BY <1>1, InZone DEF TypeInv, StateTypes, ShowsZone
<1>3. /\ at.zone <= Len(file.bases[at.base].zones) /\ Len(file.bases[at.base].zones) \in Nat
      /\ at.base <= Len(file.bases) /\ Len(file.bases) \in Nat
  BY <1>2, BaseTypes
<1>4. \A b, z : (ShowsBase(b)' <=> ShowsBase(b)) /\ (ShowsZone(b, z)' <=> ShowsZone(b, z))
  BY <1>1 DEF ShowsBase, ShowsZone
<1>5. at'.base = at.base /\ at'.zone = at.zone + 1 /\ at'.part = "head"
  BY <1>1, <1>2 DEF Places
<1>6. ASSUME NEW b \in Nat, NEW z \in Nat, NEW s \in Nat, Passed(b, z, s)'
      PROVE  Passed(b, z, s)
  <2>1. ShowsZone(b, z) /\ s \in DOMAIN file.bases[b].zones[z].solutions
    BY <1>1, <1>4, <1>6 DEF Passed
  <2>2. s <= Len(file.bases[b].zones[z].solutions) /\ Len(file.bases[b].zones[z].solutions) \in Nat
    BY <2>1, PassedIs
  <2>3. b < at'.base \/ (b = at'.base /\ z < at'.zone)
    BY <1>5, <1>6 DEF Passed
  <2>4. b < at.base \/ (b = at.base /\ z < at.zone) \/ (b = at.base /\ z = at.zone)
    BY <1>2, <1>5, <2>3
  <2>5. b = at.base /\ z = at.zone => at.part = "solutions" /\ s < at.item
    <3> SUFFICES ASSUME b = at.base, z = at.zone
                 PROVE  s < at.item
      BY <1>1
    <3>1. Zone = file.bases[b].zones[z] /\ at.item \in Nat /\ s \in Nat
      BY <1>2, <1>6 DEF Places
    <3>2. s <= Len(Zone.solutions) /\ at.item > Len(Zone.solutions) /\ Len(Zone.solutions) \in Nat
      BY <1>1, <2>2, <3>1
    <3>3. \A m, i, k \in Nat : k <= m /\ i > m => k < i
      OBVIOUS
    <3> QED
      BY ONLY <3>1, <3>2, <3>3
  <2> QED
    BY <2>1, <2>4, <2>5 DEF Passed
<1>7. AtInv'
  BY <1>1, <1>2, <1>3, <1>5, HeadIsThere
<1>8. MovesOn
  BY <1>2, <1>5 DEF MovesOn
<1> QED
  BY <1>1, <1>5, <1>6, <1>7, <1>8, WalkStep

\* A step that reads nothing.
LEMMA RestStep ==
  ASSUME IInv, UNCHANGED <<file, options, readVars>>,
         phase = "failed" => phase' = "failed",
         phase' = "unread" => phase = "unread",
         phase' = "read" => phase = "read" \/ at.base > Len(file.bases)
  PROVE  ReadInv' /\ AtInv'
<1>1. ReadInv'
  BY ReadKept DEF IInv, ReadInv
<1>2. AtInv'
  BY DEF IInv, AtInv, ShowsZone, ShowsBase, readVars
<1> QED
  BY <1>1, <1>2

\* What ReadCGNS has collected is dropped when it throws.
LEMMA ThrowStep ==
  ASSUME IInv, NEW t \in Threads, ReadThrows(t)
  PROVE  ReadInv' /\ AtInv'
<1>1. /\ phase' = "failed" /\ prims' = {} /\ DOMAIN attrs' = {}
      /\ UNCHANGED <<file, options, at, baseTimes, zoneIterative>>
  BY DEF ReadThrows, fileVars
<1>2. AttrsInv' /\ PrimsInv' /\ SolutionsInv'
  BY <1>1 DEF AttrsInv, PrimsInv, SolutionsInv
<1>3. PointersInv'
  BY <1>1 DEF IInv, PointersInv
<1>4. AtInv'
  BY <1>1 DEF IInv, AtInv, ShowsZone, ShowsBase
<1> QED
  BY <1>2, <1>3, <1>4 DEF ReadInv

\* Every step of ReadCGNS keeps what is said of the layer.
LEMMA LayerStep ==
  ASSUME IInv, TypeInv', NEW t \in Threads, ReadStep(t)
  PROVE  ReadInv' /\ AtInv'
<1>1. CASE OpenFile(t)
  BY <1>1, RestStep DEF OpenFile, fileVars, loadVars
<1>2. CASE ParseReadOptionsThrows(t)
  BY <1>2, RestStep DEF ParseReadOptionsThrows, fileVars
<1>3. CASE EndRead(t)
  <2>1. phase = "reading"
    BY <1>3, IsReading DEF IInv, EndRead, Reading
  <2> QED
    BY <1>3, <2>1, RestStep DEF EndRead, Reading, fileVars, loadVars
<1> QED
  BY <1>1, <1>2, <1>3, ThrowStep, BaseStep, EndBaseStep, ReadZoneStep, GridStep, SectionStep,
     PointersStep, SolutionStep, EndZoneStep DEF ReadStep

\* Nobody is in a call while the file is read.
LEMMA ReadingStep ==
  ASSUME IInv, NEW t \in Threads, ReadStep(t)
  PROVE  CallInv' /\ RightArray' /\ PolyInv'
<1>1. /\ UNCHANGED <<polyCache, polySeen>>
      /\ phase # "read"
      /\ pc' = pc \/ pc' = [pc EXCEPT ![t] = "idle"] \/ pc' = [pc EXCEPT ![t] = "reading"]
  BY IsReading DEF IInv, ReadStep, OpenFile, ParseReadOptionsThrows, ReadThrows, ReadBase, EndBase,
     ReadZone, ReadGridCoordinates, ReadSections, ReadZoneIterativeInfo, ReadFlowSolution, EndZone,
     EndRead, Reading, Goto, loadVars
<1>2. pc \in [Threads -> {"idle", "reading", "open", "atGrid", "close"}]
  BY DEF IInv, TypeInv, StateTypes
<1>3. \A u \in Threads : pc'[u] \notin {"open", "atGrid", "close"}
  <2>1. \A u \in Threads : pc[u] \notin {"open", "atGrid", "close"}
    BY <1>1 DEF IInv, MutexInv
  <2> QED
    BY <1>1, <1>2, <2>1
<1> QED
  BY <1>1, <1>3, NoCallsKept DEF IInv

\* Other programs, and a step that does nothing.
LEMMA OtherStep ==
  ASSUME IInv, UNCHANGED <<file, options, libraryVars, phase, pc, readVars, loadVars>>,
         disk' = disk \/ \A t \in Threads : pc[t] = "idle"
  PROVE  ReadInv' /\ AtInv' /\ CallInv' /\ RightArray' /\ PolyInv'
<1>1. ReadInv' /\ AtInv'
  BY RestStep
<1>2. CallInv'
  BY DEF IInv, CallInv, libraryVars, readVars, loadVars
<1>3. PolyInv'
  BY DEF IInv, PolyInv, loadVars
<1>4. RightArray'
  <2>1. ASSUME NEW t \in Threads, pc'[t] = "close"
        PROVE  GivesRightArray(t, value[t])'
    <3>1. disk' = disk /\ GivesRightArray(t, value[t])
      BY <2>1 DEF IInv, RightArray, GivesRightArray
    <3>2. \A v : GivesRightArray(t, v) => GivesRightArray(t, v)'
      BY <3>1, GivesSame DEF loadVars
    <3>3. value'[t] = value[t]
      BY DEF loadVars
    <3> QED
      BY <3>1, <3>2, <3>3
  <2> QED
    BY <2>1 DEF RightArray, GivesRightArray
<1> QED
  BY <1>1, <1>2, <1>3, <1>4

\* The initial states are in order.
LEMMA InitIsRight ==
  ASSUME Init
  PROVE  IInv
<1> USE DEF Init
<1>1. FileTypes
  BY FilesAssumption, OptionsAssumption DEF FileTypes
<1>2. StateTypes
  BY ConstantsAssumption DEF StateTypes, Places
<1>3. TimeTypes
  <2>1. ResolveBaseSampleTimes(0, <<>>) = <<>>
    BY DEF ResolveBaseSampleTimes
  <2>2. NoTime \in Times
    BY DEF NoTime, Times
  <2> QED
    BY <2>1, <2>2 DEF TimeTypes, NoTime
<1>4. MutexInv
  BY ConstantsAssumption DEF MutexInv, NoOtherHandles
<1>5. AtInv
  <2>1. Len(file.bases) \in Nat
    BY <1>1 DEF FileTypes
  <2> QED
    BY <2>1 DEF AtInv
<1>6. \A b, z, s \in Nat : ~Passed(b, z, s)
  <2> SUFFICES ASSUME NEW b \in Nat, NEW z \in Nat, NEW s \in Nat, Passed(b, z, s)
               PROVE  FALSE
    OBVIOUS
  <2>1. b \in DOMAIN file.bases /\ (b < 1 \/ z < 0)
    BY DEF Passed, ShowsZone, ShowsBase
  <2>2. b \in 1..Len(file.bases)
    BY <1>1, <2>1 DEF FileTypes
  <2> QED
    BY <2>1, <2>2
<1>7. PointersInv /\ AttrsInv /\ PrimsInv /\ SolutionsInv
  <2>1. DOMAIN attrs = {} /\ prims = {} /\ at.part = "head"
    OBVIOUS
  <2>2. PointersInv /\ AttrsInv /\ PrimsInv
    BY <2>1 DEF PointersInv, AttrsInv, PrimsInv
  <2>3. SolutionsInv
    BY <1>6 DEF SolutionsInv
  <2> QED
    BY <2>2, <2>3
<1>8. CallInv /\ RightArray /\ PolyInv
  BY DEF CallInv, RightArray, PolyInv
<1> QED
  BY <1>1, <1>2, <1>3, <1>4, <1>5, <1>7, <1>8 DEF IInv, TypeInv

\* Every step keeps the invariant.
LEMMA NextIsRight ==
  ASSUME IInv, [Next]_vars
  PROVE  IInv'
<1>1. TypeInv' /\ MutexInv'
  BY TypeKept, MutexKept DEF IInv, TypeInv
<1>2. ASSUME NEW t \in Threads, ReadStep(t)
      PROVE  ReadInv' /\ AtInv' /\ CallInv' /\ RightArray' /\ PolyInv'
  BY <1>1, <1>2, LayerStep, ReadingStep
<1>3. ASSUME NEW t \in Threads, CallLoader(t) \/ LoadStep(t)
      PROVE  ReadInv' /\ AtInv' /\ CallInv' /\ RightArray' /\ PolyInv'
  <2>1. UNCHANGED <<file, options, readVars, phase>>
    BY <1>3 DEF CallLoader, LoadStep, GotoGrid, ReadCurrentCGNSArrayAsValue,
       ReadElementConnectivityAsValue, ReadPolyElementsAsValues, ReadFlowSolutionField, LoadThrows,
       CloseFile, fileVars
  <2> QED
    BY <1>3, <2>1, CallStep, RestStep
<1>4. CASE Rewrite \/ Delete \/ UNCHANGED vars
  <2>1. /\ UNCHANGED <<file, options, libraryVars, phase, pc, readVars, loadVars>>
        /\ disk' = disk \/ \A t \in Threads : pc[t] = "idle"
    BY <1>4 DEF Rewrite, Delete, vars, fileVars
  <2> QED
    BY <1>1, <2>1, OtherStep DEF IInv, ReadInv
<1> QED
  BY <1>1, <1>2, <1>3, <1>4 DEF Next, IInv, ReadInv

\* The invariant holds in every state that is reached.
LEMMA Invariant ==
  Spec => []IInv
<1>1. Init => IInv
  BY InitIsRight
<1>2. IInv /\ [Next]_vars => IInv'
  BY NextIsRight
<1> QED
  BY <1>1, <1>2, PTL DEF Spec

\* When the file is read every zone that is shown is passed with all its solutions.
LEMMA AllPassed ==
  ASSUME TypeInv, AtInv, phase = "read", NEW b, NEW z, ShowsZone(b, z),
         NEW s \in DOMAIN file.bases[b].zones[z].solutions
  PROVE  /\ Passed(b, z, s)
         /\ b \in Nat /\ z \in Nat /\ s \in Nat
<1>1. b \in Nat /\ z \in Nat /\ s \in Nat /\ b <= Len(file.bases) /\ Len(file.bases) \in Nat
  BY PassedIs
<1>2. at.base > Len(file.bases) /\ at.base \in Nat
  BY DEF AtInv, TypeInv, StateTypes, Places
<1> QED
  BY <1>1, <1>2 DEF Passed

\* The samples of the fields of a leader, and the prims and samples that stand for
\* a solution, when the file is read.
LEMMA AllLed ==
  ASSUME IInv, phase = "read", NEW b, NEW z, ShowsZone(b, z),
         NEW s \in DOMAIN file.bases[b].zones[z].solutions
  PROVE  IsShown(b, z, s) /\ IsLed(b, z, s)
  BY AllPassed DEF IInv, SolutionsInv

\* An array of a leader with a field has a sample for every solution of the file in it.
LEMMA LedIsSample ==
  ASSUME IInv, phase = "read", NEW b, NEW z, ShowsZone(b, z),
         NEW s \in DOMAIN file.bases[b].zones[z].solutions,
         NEW steps \in LeadingArrays(b, file.bases[b].zones[z]),
         file.bases[b].zones[z].solutions[s].name \in ToSet(steps),
         ZoneIsApart(b, z), NEW l \in DOMAIN file.bases[b].zones[z].solutions,
         file.bases[b].zones[z].solutions[l].name = steps[1],
         IsApart(file.bases[b].zones[z].solutions, l),
         file.bases[b].zones[z].solutions[l].fields # <<>>
  PROVE  IsSample(b, z, s)
<1> DEFINE zone == file.bases[b].zones[z] name == zone.solutions[s].name
           leader == zone.solutions[l]
<1>1. b \in DOMAIN file.bases /\ z \in DOMAIN file.bases[b].zones
  BY DEF ShowsZone, ShowsBase
<1>2. leader.name = steps[1]
  OBVIOUS
<1>3. IsLed(b, z, l)
  BY AllLed
<1>4. PICK f : f \in DOMAIN leader.fields
  <2>1. leader.fields \in Seq(Fields)
    BY <1>1, <1>2, ZoneTypes DEF IInv, Solutions
  <2>2. ASSUME NEW fields \in Seq(Fields), fields # <<>>
        PROVE  1 \in DOMAIN fields
    BY <2>2
  <2> QED
    BY <2>1, <2>2
<1> DEFINE key == <<NodeOf(b, z, leader.name), TfMakeValidIdentifier(leader.fields[f].name)>>
<1>5. key \in DOMAIN attrs /\ SamplesFit(b, z, steps, attrs[key].samples)
  BY <1>2, <1>3, <1>4 DEF IsLed
<1> HIDE DEF key
<1> DEFINE samples == attrs[key].samples
<1>6. PICK i \in DOMAIN steps : steps[i] = name
  BY DEF ToSet
<1>7. InFile(zone, name)
  BY DEF InFile, NamedNodes
<1>8. PICK n \in DOMAIN samples :
        <<samples[n].time, zone.solutions[samples[n].loader.solution].name>>
          = <<TimeOfStep(b, i), steps[i]>>
  BY <1>5, <1>6, <1>7 DEF SamplesFit, AreSamplesOf
<1>9. /\ samples[n].loader.kind = "field"
      /\ samples[n].loader.base = b /\ samples[n].loader.zone = z
      /\ samples[n].loader.solution \in DOMAIN zone.solutions
  BY <1>5 DEF SamplesFit
<1>10. samples[n].loader.solution = s
  <2>1. zone.solutions[samples[n].loader.solution].name = zone.solutions[s].name
    BY <1>6, <1>8
  <2>2. Differ(zone.solutions)
    BY <1>1, SolutionsDiffer DEF IInv
  <2> QED
    BY <1>9, <2>1, <2>2 DEF Differ
<1> QED
  BY <1>5, <1>9, <1>10 DEF IsSample

-----------------------------------------------------------------------------
(* What the runs check, for every file and any number of threads.          *)

\* Whatever is read before, beside and after it, a loader gives the array it was
\* registered for, and the two arrays of a polyhedral section come from one read.
THEOREM LoadersAreRight ==
  Spec => []LoadersGiveTheirArray
<1>1. ASSUME IInv
      PROVE  LoadersGiveTheirArray
  <2>1. ASSUME NEW key \in DOMAIN polySeen
        PROVE  Cardinality(polySeen[key]) <= 1
    <3>1. polySeen[key] \subseteq {polyCache[key].version}
      BY <1>1 DEF IInv, PolyInv
    <3>2. IsFiniteSet({polyCache[key].version}) /\ Cardinality({polyCache[key].version}) = 1
      BY FS_Singleton
    <3>3. Cardinality(polySeen[key]) <= Cardinality({polyCache[key].version})
      BY <3>1, <3>2, FS_Subset
    <3> QED
      BY <3>2, <3>3
  <2> QED
    BY <1>1, <2>1 DEF IInv, LoadersGiveTheirArray, PolyArraysMatch
<1> QED
  BY <1>1, Invariant, PTL

\* A field of the first solution of a pointer array has a sample for each step whose
\* solution is in the file, at the time of that step, in the order of the times.
THEOREM SamplesAreOfTheirStep ==
  Spec => []SamplesOfTheirStep
<1>1. ASSUME IInv
      PROVE  SamplesOfTheirStep
  <2> SUFFICES
        ASSUME phase = "read", NEW b \in DOMAIN file.bases, NEW z \in DOMAIN file.bases[b].zones,
               ZoneIsApart(b, z)
        PROVE  LET zone == file.bases[b].zones[z] IN
               \A steps \in LeadingArrays(b, zone) : \A l \in DOMAIN zone.solutions :
                 steps[1] = zone.solutions[l].name /\ IsApart(zone.solutions, l) =>
                   \A f \in DOMAIN zone.solutions[l].fields :
                     LET key == <<NodeOf(b, z, steps[1]),
                                  TfMakeValidIdentifier(zone.solutions[l].fields[f].name)>> IN
                     key \in DOMAIN attrs => AreSamplesOf(b, zone, steps, attrs[key].samples)
    BY DEF SamplesOfTheirStep
  <2> SUFFICES
        ASSUME NEW steps \in LeadingArrays(b, file.bases[b].zones[z]),
               NEW l \in DOMAIN file.bases[b].zones[z].solutions,
               steps[1] = file.bases[b].zones[z].solutions[l].name,
               IsApart(file.bases[b].zones[z].solutions, l),
               NEW f \in DOMAIN file.bases[b].zones[z].solutions[l].fields,
               NEW key,
               key = <<NodeOf(b, z, steps[1]),
                       TfMakeValidIdentifier(file.bases[b].zones[z].solutions[l].fields[f].name)>>,
               key \in DOMAIN attrs
        PROVE  AreSamplesOf(b, file.bases[b].zones[z], steps, attrs[key].samples)
    OBVIOUS
  <2>1. PICK c \in Nat, y \in Nat : Begun(c, y) /\ AttrFits(c, y, key, attrs[key])
    BY <1>1 DEF IInv, AttrsInv
  <2>2. c \in DOMAIN file.bases /\ y \in DOMAIN file.bases[c].zones /\ ShowsZone(c, y)
    BY <2>1 DEF Begun, ShowsZone, ShowsBase
  <2>3. NodeOf(b, z, steps[1]) = Under(c, y, key[1][3])
    BY <2>1 DEF AttrFits
  <2>4. PathOf(b, z) = PathOf(c, y)
    BY <2>3 DEF NodeOf, Under, PathOf
  <2>5. b = c /\ z = y
    <3>1. b = c
      BY <2>2, <2>4 DEF PathOf, ZoneIsApart, IsApart
    <3> QED
      BY <2>2, <2>4, <3>1 DEF PathOf, ZoneIsApart, IsApart
  <2>6. IsLed(b, z, l)
    BY <1>1, <2>2, <2>5, AllLed
  <2> QED
    BY <2>6 DEF IsLed, SamplesFit
<1> QED
  BY <1>1, Invariant, PTL

\* Each solution of a zone that is shown has a prim of its own or is a sample, but
\* for those of pointer arrays whose first solution has no field, is not in the
\* file or starts another array.
THEOREM EverySolutionIsShown ==
  Spec => []EverySolutionShown
<1>1. ASSUME IInv
      PROVE  EverySolutionShown
  <2> SUFFICES
        ASSUME phase = "read", NEW b \in DOMAIN file.bases, NEW z \in DOMAIN file.bases[b].zones,
               ZoneIsApart(b, z), PathOf(b, z) \in prims,
               NEW s \in DOMAIN file.bases[b].zones[z].solutions,
               NodeOf(b, z, file.bases[b].zones[z].solutions[s].name) \notin prims,
               ~IsSample(b, z, s)
        PROVE  HasNoLeader(b, file.bases[b].zones[z], file.bases[b].zones[z].solutions[s].name)
    BY DEF EverySolutionShown
  <2> DEFINE zone == file.bases[b].zones[z] name == zone.solutions[s].name
  <2>1. Len(PathOf(b, z)) = 2
    BY DEF PathOf
  <2>2. PICK c \in Nat, y \in Nat : Begun(c, y) /\ PathOf(b, z) = PathOf(c, y)
    BY <1>1, <2>1 DEF IInv, PrimsInv
  <2>3. c \in DOMAIN file.bases /\ y \in DOMAIN file.bases[c].zones /\ ShowsZone(c, y)
    BY <2>2 DEF Begun, ShowsZone, ShowsBase
  <2>4. ShowsZone(b, z)
    <3>1. b = c /\ z = y
      BY <2>2, <2>3, ZonesDiffer
    <3> QED
      BY <2>3, <3>1
  <2>5. baseTimes[b].numSteps # 0 /\ InArray(zone, name) /\ StartingWith(zone.pointers, name) = {}
    BY <1>1, <2>4, AllLed DEF IsShown
  <2>6. ASSUME NEW n \in DOMAIN zone.pointers, name \in ToSet(zone.pointers[n])
        PROVE  zone.pointers[n][1] # name
    <3>1. DOMAIN zone.pointers[n] # {}
      BY <2>6 DEF ToSet
    <3>2. zone.pointers[n] # <<>>
      BY <3>1
    <3> QED
      BY <2>5, <3>2 DEF StartingWith
  <2>7. ASSUME NEW n \in DOMAIN zone.pointers, name \in ToSet(zone.pointers[n]),
               zone.pointers[n] \in LeadingArrays(b, zone),
               NEW l \in DOMAIN zone.solutions, zone.solutions[l].name = zone.pointers[n][1],
               IsApart(zone.solutions, l)
        PROVE  zone.solutions[l].fields = <<>>
    <3>1. ASSUME zone.solutions[l].fields # <<>>
          PROVE  FALSE
      <4> DEFINE steps == zone.pointers[n]
      <4>1. /\ steps \in LeadingArrays(b, zone) /\ name \in ToSet(steps)
            /\ zone.solutions[l].name = steps[1]
        BY <2>7
      <4> HIDE DEF steps
      <4> QED
        BY <1>1, <2>4, <2>7, <3>1, <4>1, LedIsSample
    <3> QED
      BY <3>1
  <2> QED
    BY <2>5, <2>6, <2>7 DEF InArray, HasNoLeader, ArraysWith
<1> QED
  BY <1>1, Invariant, PTL

\* Whatever fails, the library has no file open but that of the call that holds the
\* mutex and those of the exceptions that passed by cg_close.
THEOREM NoHandleGetsLost ==
  Spec => []NoOtherHandles
<1>1. IInv => NoOtherHandles
  BY DEF IInv, MutexInv
<1> QED
  BY <1>1, Invariant, PTL

=============================================================================
