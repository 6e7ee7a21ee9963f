--------------------------- MODULE LazySamplesProofs ---------------------------
(***************************************************************************)
(* A sample that is asked for is the one the reader registered there, and  *)
(* what is retained is final: for every number of threads, attributes and  *)
(* paths that share a cache entry, for every list a reader may register,   *)
(* and however often the data file is rewritten.  The queries about specs, *)
(* fields, samples and children agree with each other, whatever the mount  *)
(* path and whatever the attributes are called.                            *)
(***************************************************************************)
EXTENDS LazySamples, TLAPS, SequenceTheorems, WellFoundedInduction

\* A set of natural numbers that is not empty has a least element.
LEMMA LeastElement ==
  ASSUME NEW S, S \subseteq Nat, S # {}
  PROVE  \E x \in S : \A y \in S : x <= y
<1>1. PICK x \in S : \A y \in S : ~ (<<y, x>> \in OpToRel(<, Nat))
  BY NatLessThanWellFounded, WFMin
<1>2. ASSUME NEW y \in S
      PROVE  x <= y
  <2>1. ASSUME y < x
        PROVE  FALSE
    <3>1. <<y, x>> \in {ss \in Nat \X Nat : ss[1] < ss[2]}
      BY <2>1
    <3> QED
      BY <1>1, <3>1 DEF OpToRel
  <2> QED
    BY <2>1
<1> QED
  BY <1>2

\* The part of the assumption on constants that is not about prims.
LEMMA ListConstants ==
  /\ Times \subseteq Nat
  /\ MaxVersion \in Nat
  /\ CanonicalPath \in [Attributes -> Paths]
  /\ SampleLists \in [Attributes -> SUBSET Seq(Sample)]
  /\ Unregistered \notin Seq(Sample)
  /\ NoCall \notin Call
  /\ NoLoader \notin Loaders
  /\ NoValue \notin Value
  BY ConstantsAssumption

-----------------------------------------------------------------------------
(* Lists of samples.                                                       *)

\* A list that is registered has the samples of its attribute.
LEMMA RegisteredList ==
  ASSUME NEW list \in Seq(Sample),
         NEW s \in IF TimeSamplesAreSorted(list) THEN {list} ELSE SortedOrders(list)
  PROVE  s \in Seq(Sample)
<1>1. /\ Len(list) \in Nat /\ list \in [1..Len(list) -> Sample]
      /\ \A i \in 1..Len(list) : list[i] \in Sample
  BY LenProperties
<1>2. ASSUME s \in SortedOrders(list)
      PROVE  s \in Seq(Sample)
  <2>1. s \in [1..Len(list) -> {list[i] : i \in 1..Len(list)}]
    BY <1>2 DEF SortedOrders
  <2>2. s \in [1..Len(list) -> Sample]
    BY <1>1, <2>1
  <2> QED
    BY <1>1, <2>2, IsASeq
<1> QED
  BY <1>2

\* The lower bound of a list is one of its indices, or one past the end.
LEMMA LowerBoundIs ==
  ASSUME NEW list \in Seq(Sample), NEW s \in Nat
  PROVE  /\ LowerBound(list, s) \in 1..(Len(list) + 1)
         /\ LowerBound(list, s) <= Len(list) => list[LowerBound(list, s)].time >= s
         /\ \A j \in 1..(LowerBound(list, s) - 1) : list[j].time < s
<1>1. /\ Len(list) \in Nat /\ s \in Nat
      /\ \A i \in 1..Len(list) : list[i] \in Sample /\ list[i].time \in Nat
  <2>1. Len(list) \in Nat /\ \A i \in 1..Len(list) : list[i] \in Sample
    BY LenProperties
  <2> QED
    BY <2>1, ConstantsAssumption DEF Sample
<1>2. CASE ~\E i \in 1..Len(list) : list[i].time >= s
  <2>1. LowerBound(list, s) = Len(list) + 1
    BY <1>2 DEF LowerBound
  <2>2. \A j \in 1..Len(list) : list[j].time < s
    BY <1>1, <1>2
  <2> QED
    BY <1>1, <2>1, <2>2
<1>3. CASE \E i \in 1..Len(list) : list[i].time >= s
  <2> DEFINE S == {i \in 1..Len(list) : list[i].time >= s}
             First(i) == list[i].time >= s /\ \A j \in 1..(i - 1) : list[j].time < s
  <2>1. S \subseteq Nat /\ S # {}
    BY <1>1, <1>3
  <2>2. PICK x \in S : \A y \in S : x <= y
    BY <2>1, LeastElement
  <2>3. ASSUME NEW j \in 1..(x - 1)
        PROVE  list[j].time < s
    <3>1. j \in 1..Len(list) /\ ~(x <= j)
      BY <1>1
    <3>2. j \notin S
      BY <2>2, <3>1
    <3> QED
      BY <1>1, <3>1, <3>2
  <2>4. x \in 1..Len(list) /\ First(x)
    BY <2>3
  <2>5. LowerBound(list, s) = CHOOSE i \in 1..Len(list) : First(i)
    BY <1>3 DEF LowerBound
  <2>6. PICK i \in 1..Len(list) : LowerBound(list, s) = i /\ First(i)
    <3> HIDE DEF First
    <3> QED
      BY <2>4, <2>5
  <2> QED
    BY <1>1, <2>6
<1> QED
  BY <1>2, <1>3

\* What is found at a time is the loader of a sample at that time.
LEMMA FoundIsSample ==
  ASSUME NEW list \in Seq(Sample), NEW s \in Times, FindTimeSample(list, s) # NoLoader
  PROVE  \E i \in 1..Len(list) : list[i] = [time |-> s, loader |-> FindTimeSample(list, s)]
                                   /\ FindTimeSample(list, s) \in Loaders
<1> DEFINE i == LowerBound(list, s)
<1>1. i \in 1..(Len(list) + 1) /\ Len(list) \in Nat
  BY LowerBoundIs, LenProperties, ConstantsAssumption
<1>2. i <= Len(list) /\ list[i].time = s /\ FindTimeSample(list, s) = list[i].loader
  BY DEF FindTimeSample
<1> HIDE DEF i
<1>3. i \in 1..Len(list)
  BY <1>1, <1>2
<1>4. list[i] \in Sample
  BY <1>3, LenProperties
<1>5. list[i] = [time |-> s, loader |-> FindTimeSample(list, s)] /\ list[i].loader \in Loaders
  BY <1>2, <1>4 DEF Sample
<1> QED
  BY <1>2, <1>3, <1>5

-----------------------------------------------------------------------------
(* The inductive invariant.                                                *)

\* Before the data is set nothing is retained, and without caching never.
CacheInv ==
  ~published \/ cacheMode # "All" =>
    \A p \in Paths, s \in Times : timeSampleCache[p][s] = NoValue

\* The list at a path has a sample with this loader at a time.
Holds(list, s, loader) ==
  /\ list # Unregistered
  /\ \E i \in 1..Len(list) : list[i] = [time |-> s, loader |-> loader]

\* Whatever is retained is a sample of the list registered at its path.
RetainedInv ==
  \A p \in Paths, s \in Times :
    timeSampleCache[p][s] # NoValue =>
      Holds(lazyTimeSamples[p], s, timeSampleCache[p][s].loader)

\* A call under way: there is a sample at the time it asks for, it has no value
\* before it has found or loaded one, and then a right one; a layer that does
\* not cache has no value from before the call.
CallInv(t) ==
  /\ pc[t] \in {"idle", "lookup", "load", "threw"} => value[t] = NoValue
  /\ pc[t] \in {"lookup", "load", "store"} =>
       FindTimeSample(lazyTimeSamples[call[t].path], call[t].time) # NoLoader
  /\ pc[t] = "store" => value[t] # NoValue
  /\ pc[t] \in {"store", "returned"} /\ value[t] # NoValue =>
       /\ Holds(lazyTimeSamples[call[t].path], call[t].time, value[t].loader)
       /\ cacheMode # "All" => value[t].version >= call[t].began
  /\ pc[t] # "idle" => call[t].began <= version

IInv ==
  /\ TypeOK
  /\ CacheInv
  /\ RetainedInv
  /\ \A t \in Threads : CallInv(t)

\* The invariant of calls and caches holds in the beginning.
LEMMA InitInv == Init => IInv
<1> USE ListConstants
<1> SUFFICES ASSUME Init
             PROVE  IInv
  OBVIOUS
<1>1. TypeOK
  <2>1. timeSampleCache \in [Paths -> [Times -> Value \cup {NoValue}]]
    BY DEF Init
  <2>2. \A t \in Threads : pc[t] = "idle" /\ call[t] = NoCall
    BY DEF Init
  <2>3. /\ cacheMode \in Modes /\ mount \in MountPaths /\ attrInfos \subseteq Attributes
        /\ lazyTimeSamples \in [Paths -> Seq(Sample) \cup {Unregistered}]
    BY DEF Init
  <2>5. published \in BOOLEAN
    BY DEF Init
  <2>6. version \in Version
    BY DEF Init, Version
  <2>4. /\ pc \in [Threads -> PCs] /\ call \in [Threads -> Call \cup {NoCall}]
        /\ value \in [Threads -> Value \cup {NoValue}]
    BY DEF Init, PCs
  <2> QED
    BY <2>1, <2>2, <2>3, <2>4, <2>5, <2>6 DEF TypeOK
<1>2. CacheInv /\ RetainedInv
  BY DEF Init, CacheInv, RetainedInv
<1>3. ASSUME NEW t \in Threads
      PROVE  CallInv(t)
  BY <1>3 DEF Init, CallInv
<1> QED
  BY <1>1, <1>2, <1>3 DEF IInv

\* Every step keeps the types.
LEMMA NextTypes == IInv /\ [Next]_vars => TypeOK'
<1> SUFFICES ASSUME IInv, [Next]_vars
             PROVE  TypeOK'
  OBVIOUS
<1> USE ListConstants
<1>1. TypeOK /\ CacheInv /\ RetainedInv /\ \A t \in Threads : CallInv(t)
  BY DEF IInv
<1>2. ASSUME NEW a \in Attributes, NEW list \in SampleLists[a], Register(a, list)
      PROVE  TypeOK'
  <2>1. list \in Seq(Sample)
    OBVIOUS
  <2>2. PICK s \in IF TimeSamplesAreSorted(list) THEN {list} ELSE SortedOrders(list) :
          lazyTimeSamples' = [lazyTimeSamples EXCEPT ![CanonicalPath[a]] = s]
    BY <1>2 DEF Register
  <2>3. s \in Seq(Sample) /\ CanonicalPath[a] \in Paths
    BY <2>1, RegisteredList
  <2> QED
    BY <1>1, <1>2, <2>2, <2>3 DEF Register, TypeOK, PCs
<1>3. CASE Publish
  BY <1>1, <1>3 DEF Publish, specVars, TypeOK, PCs, Version
<1>4. ASSUME NEW t \in Threads, NEW a \in Attributes, NEW s \in Times, Query(t, a, s)
      PROVE  TypeOK'
  <2>1. CanonicalPath[a] \in Paths
    OBVIOUS
  <2>2. [path |-> CanonicalPath[a], time |-> s, began |-> version] \in Call
    BY <1>1, <2>1 DEF TypeOK, Call
  <2>3. call' \in [Threads -> Call \cup {NoCall}]
    BY <1>1, <1>4, <2>2 DEF Query, TypeOK
  <2> QED
    BY <1>1, <1>4, <2>1, <2>2, <2>3
       DEF Query, Goto, ShouldCacheTimeSamples, specVars, TypeOK, PCs
<1>5. ASSUME NEW t \in Threads, Lookup(t)
      PROVE  TypeOK'
  <2>1. call[t] \in Call /\ call[t].path \in Paths /\ call[t].time \in Times
    BY <1>1, <1>5 DEF Lookup, TypeOK, Call
  <2>2. Cached(t) \in Value \cup {NoValue}
    <3>1. timeSampleCache \in [Paths -> [Times -> Value \cup {NoValue}]]
      BY <1>1 DEF TypeOK
    <3>2. timeSampleCache[call[t].path] \in [Times -> Value \cup {NoValue}]
      BY <2>1, <3>1
    <3> QED
      BY <2>1, <3>2 DEF Cached
  <2>3. value' \in [Threads -> Value \cup {NoValue}]
    BY <1>1, <1>5, <2>2 DEF Lookup, TypeOK
  <2> QED
    BY <1>1, <1>5, <2>1, <2>3 DEF Lookup, Goto, specVars, TypeOK, PCs
<1>6. ASSUME NEW t \in Threads, Load(t)
      PROVE  TypeOK'
  <2>1. PICK holds \in BOOLEAN :
          value' = [value EXCEPT ![t] =
                     [loader |-> FindTimeSample(lazyTimeSamples[call[t].path], call[t].time),
                      version |-> version, holds |-> holds]]
    BY <1>6 DEF Load
  <2>2. /\ call[t] \in Call /\ call[t].path \in Paths /\ call[t].time \in Times
        /\ lazyTimeSamples[call[t].path] \in Seq(Sample)
    BY <1>1, <1>6 DEF Load, TypeOK, Call
  <2>3. FindTimeSample(lazyTimeSamples[call[t].path], call[t].time) \in Loaders
    BY <1>1, <1>6, <2>2, FoundIsSample DEF Load, CallInv
  <2>4. value' \in [Threads -> Value \cup {NoValue}]
    BY <1>1, <2>1, <2>3 DEF TypeOK, Value
  <2> QED
    BY <1>1, <1>6, <2>4 DEF Load, Goto, ShouldCacheTimeSamples, specVars, TypeOK, PCs
<1>7. ASSUME NEW t \in Threads, LoadThrows(t)
      PROVE  TypeOK'
  BY <1>1, <1>7 DEF LoadThrows, Goto, specVars, TypeOK, PCs, Version
<1>8. ASSUME NEW t \in Threads, Store(t)
      PROVE  TypeOK'
  <2>1. call[t] \in Call /\ call[t].path \in Paths /\ call[t].time \in Times
    BY <1>1, <1>8 DEF Store, TypeOK, Call
  <2>2. timeSampleCache' \in [Paths -> [Times -> Value \cup {NoValue}]]
    BY <1>1, <1>8, <2>1 DEF Store, TypeOK
  <2> QED
    BY <1>1, <1>8, <2>1, <2>2 DEF Store, Goto, specVars, TypeOK, PCs
<1>9. ASSUME NEW t \in Threads, Return(t)
      PROVE  TypeOK'
  BY <1>1, <1>9 DEF Return, Goto, specVars, TypeOK, PCs, Version
<1>10. CASE Rewrite
  BY <1>1, <1>10 DEF Rewrite, specVars, TypeOK, PCs, Version
<1>11. CASE UNCHANGED vars
  BY <1>1, <1>11 DEF vars, specVars, TypeOK, PCs, Version
<1> QED
  BY <1>2, <1>3, <1>4, <1>5, <1>6, <1>7, <1>8, <1>9, <1>10, <1>11 DEF Next

\* Only a layer that caches retains, and only once its data is set.
LEMMA NextCache == IInv /\ [Next]_vars => CacheInv'
<1> SUFFICES ASSUME IInv, [Next]_vars
             PROVE  CacheInv'
  OBVIOUS
<1>1. TypeOK /\ CacheInv
  BY DEF IInv
<1>2. ASSUME NEW a \in Attributes, NEW list \in SampleLists[a], Register(a, list)
      PROVE  CacheInv'
  BY <1>1, <1>2 DEF Register, CacheInv
<1>3. CASE Publish
  BY <1>1, <1>3 DEF Publish, CacheInv
<1>4. ASSUME NEW t \in Threads, NEW a \in Attributes, NEW s \in Times, Query(t, a, s)
      PROVE  CacheInv'
  BY <1>1, <1>4 DEF Query, Goto, CacheInv
<1>5. ASSUME NEW t \in Threads, Lookup(t)
      PROVE  CacheInv'
  BY <1>1, <1>5 DEF Lookup, Cached, Goto, CacheInv
<1>6. ASSUME NEW t \in Threads, Load(t)
      PROVE  CacheInv'
  BY <1>1, <1>6 DEF Load, Goto, CacheInv
<1>7. ASSUME NEW t \in Threads, LoadThrows(t)
      PROVE  CacheInv'
  BY <1>1, <1>7 DEF LoadThrows, Goto, CacheInv
<1>8. ASSUME NEW t \in Threads, Store(t)
      PROVE  CacheInv'
  BY <1>1, <1>8 DEF Store, TypeOK, CacheInv
<1>9. ASSUME NEW t \in Threads, Return(t)
      PROVE  CacheInv'
  BY <1>1, <1>9 DEF Return, Goto, CacheInv
<1>10. CASE Rewrite
  BY <1>1, <1>10 DEF Rewrite, CacheInv
<1>11. CASE UNCHANGED vars
  BY <1>1, <1>11 DEF vars, CacheInv
<1> QED
  BY <1>2, <1>3, <1>4, <1>5, <1>6, <1>7, <1>8, <1>9, <1>10, <1>11 DEF Next

\* Only Store retains, and only the value that its call has loaded.
LEMMA NextRetained == IInv /\ [Next]_vars => RetainedInv'
<1> SUFFICES ASSUME IInv, [Next]_vars
             PROVE  RetainedInv'
  OBVIOUS
<1> USE ListConstants
<1>1. TypeOK /\ CacheInv /\ RetainedInv /\ \A t \in Threads : CallInv(t)
  BY DEF IInv
<1>2. ASSUME UNCHANGED <<lazyTimeSamples, timeSampleCache>>
      PROVE  RetainedInv'
  BY <1>1, <1>2 DEF RetainedInv
<1>3. ASSUME NEW a \in Attributes, NEW list \in SampleLists[a], Register(a, list)
      PROVE  RetainedInv'
  BY <1>1, <1>3 DEF Register, CacheInv, RetainedInv
<1>4. CASE Publish
  BY <1>2, <1>4 DEF Publish
<1>5. ASSUME NEW t \in Threads, NEW a \in Attributes, NEW s \in Times, Query(t, a, s)
      PROVE  RetainedInv'
  BY <1>2, <1>5 DEF Query, Goto
<1>6. ASSUME NEW t \in Threads, Lookup(t)
      PROVE  RetainedInv'
  BY <1>2, <1>6 DEF Lookup, Cached, Goto
<1>7. ASSUME NEW t \in Threads, Load(t)
      PROVE  RetainedInv'
  BY <1>2, <1>7 DEF Load, Goto
<1>8. ASSUME NEW t \in Threads, LoadThrows(t)
      PROVE  RetainedInv'
  BY <1>2, <1>8 DEF LoadThrows, Goto
<1>9. ASSUME NEW t \in Threads, Store(t)
      PROVE  RetainedInv'
  <2>1. call[t] \in Call /\ call[t].path \in Paths /\ call[t].time \in Times
    BY <1>1, <1>9 DEF Store, TypeOK, Call
  <2>2. /\ Holds(lazyTimeSamples[call[t].path], call[t].time, value[t].loader)
        /\ lazyTimeSamples' = lazyTimeSamples
    BY <1>1, <1>9 DEF Store, CallInv
  <2>3. ASSUME NEW p \in Paths, NEW s \in Times
        PROVE  timeSampleCache'[p][s] = IF p = call[t].path /\ s = call[t].time
                                        THEN value[t] ELSE timeSampleCache[p][s]
    BY <1>1, <1>9, <2>1 DEF Store, TypeOK
  <2> QED
    BY <1>1, <2>2, <2>3 DEF RetainedInv
<1>10. ASSUME NEW t \in Threads, Return(t)
       PROVE  RetainedInv'
  BY <1>2, <1>10 DEF Return, Goto
<1>11. CASE Rewrite
  BY <1>2, <1>11 DEF Rewrite
<1>12. CASE UNCHANGED vars
  BY <1>2, <1>12 DEF vars
<1> QED
  BY <1>3, <1>4, <1>5, <1>6, <1>7, <1>8, <1>9, <1>10, <1>11, <1>12 DEF Next

\* Every step keeps what is known of the calls.
LEMMA NextCall == IInv /\ [Next]_vars => \A z \in Threads : CallInv(z)'
<1> SUFFICES ASSUME IInv, [Next]_vars
             PROVE  \A z \in Threads : CallInv(z)'
  OBVIOUS
<1> USE ListConstants
<1>1. /\ TypeOK /\ CacheInv /\ RetainedInv /\ \A t \in Threads : CallInv(t)
      /\ pc \in [Threads -> PCs] /\ call \in [Threads -> Call \cup {NoCall}]
      /\ value \in [Threads -> Value \cup {NoValue}] /\ version \in Nat
  BY DEF IInv, TypeOK, Version
<1>2. ASSUME NEW a \in Attributes, NEW list \in SampleLists[a], Register(a, list)
      PROVE  \A z \in Threads : CallInv(z)'
  BY <1>1, <1>2 DEF Register, TypeOK, CallInv
<1>3. CASE Publish
  BY <1>1, <1>3 DEF Publish, specVars, CallInv
<1>4. ASSUME NEW t \in Threads, NEW a \in Attributes, NEW s \in Times, Query(t, a, s)
      PROVE  \A z \in Threads : CallInv(z)'
  <2> DEFINE c == [path |-> CanonicalPath[a], time |-> s, began |-> version]
             list == lazyTimeSamples[CanonicalPath[a]]
  <2>1. c.path = CanonicalPath[a] /\ c.time = s /\ c.began = version
    OBVIOUS
  <2>2. call' = [call EXCEPT ![t] = c]
    BY <1>4 DEF Query
  <2> HIDE DEF c
  <2>3. /\ pc[t] = "idle" /\ pc' = [pc EXCEPT ![t] = pc'[t]]
        /\ pc'[t] \in {"returned", "lookup", "load"}
        /\ pc'[t] # "returned" => FindTimeSample(list, s) # NoLoader
        /\ UNCHANGED <<cacheMode, lazyTimeSamples, version, value>>
    BY <1>1, <1>4 DEF Query, Goto
  <2>4. CallInv(t)'
    BY <1>1, <2>1, <2>2, <2>3 DEF CallInv
  <2>5. ASSUME NEW z \in Threads \ {t}
        PROVE  CallInv(z)'
    BY <1>1, <2>2, <2>3 DEF CallInv
  <2> QED
    BY <2>4, <2>5
<1>5. ASSUME NEW t \in Threads, Lookup(t)
      PROVE  \A z \in Threads : CallInv(z)'
  <2>1. call[t] \in Call /\ call[t].path \in Paths /\ call[t].time \in Times
    BY <1>1, <1>5 DEF Lookup, TypeOK, Call
  <2>2. cacheMode = "All" /\ pc[t] = "lookup"
    BY <1>1, <1>5 DEF Lookup, TypeOK
  <2>3. Cached(t) # NoValue =>
          Holds(lazyTimeSamples[call[t].path], call[t].time, Cached(t).loader)
    BY <1>1, <2>1 DEF RetainedInv, Cached
  <2>4. CallInv(t)'
    BY <1>1, <1>5, <2>2, <2>3 DEF Lookup, Goto, specVars, CallInv
  <2>5. ASSUME NEW z \in Threads \ {t}
        PROVE  CallInv(z)'
    BY <1>1, <1>5 DEF Lookup, Goto, specVars, CallInv
  <2> QED
    BY <2>4, <2>5
<1>6. ASSUME NEW t \in Threads, Load(t)
      PROVE  \A z \in Threads : CallInv(z)'
  <2> DEFINE list == lazyTimeSamples[call[t].path]
             found == FindTimeSample(list, call[t].time)
  <2>1. PICK holds \in BOOLEAN :
          value' = [value EXCEPT ![t] =
                     [loader |-> found, version |-> version, holds |-> holds]]
    BY <1>6 DEF Load
  <2>2. /\ call[t] \in Call /\ call[t].path \in Paths /\ call[t].time \in Times
        /\ list \in Seq(Sample) /\ list # Unregistered
    BY <1>1, <1>6 DEF Load, TypeOK, Call
  <2>3. Holds(list, call[t].time, found) /\ found \in Loaders
    BY <1>1, <1>6, <2>2, FoundIsSample DEF Load, CallInv, Holds
  <2>4. value'[t].loader = found /\ value'[t].version = version
    BY <1>1, <2>1
  <2>5. /\ pc[t] = "load" /\ pc' = [pc EXCEPT ![t] = pc'[t]]
        /\ pc'[t] \in {"store", "returned"}
        /\ UNCHANGED <<cacheMode, lazyTimeSamples, version, call>>
    BY <1>1, <1>6 DEF Load, Goto
  <2>6. value'[t] # NoValue
    BY <1>1, <2>1, <2>3 DEF TypeOK, Value
  <2>7. CallInv(t)'
    BY <1>1, <2>2, <2>3, <2>4, <2>5, <2>6 DEF CallInv
  <2>8. ASSUME NEW z \in Threads \ {t}
        PROVE  CallInv(z)'
    BY <1>1, <2>1, <2>5 DEF CallInv
  <2> QED
    BY <2>7, <2>8
<1>7. ASSUME NEW t \in Threads, LoadThrows(t)
      PROVE  \A z \in Threads : CallInv(z)'
  BY <1>1, <1>7 DEF LoadThrows, Goto, specVars, CallInv
<1>8. ASSUME NEW t \in Threads, Store(t)
      PROVE  \A z \in Threads : CallInv(z)'
  BY <1>1, <1>8 DEF Store, Goto, specVars, CallInv
<1>9. ASSUME NEW t \in Threads, Return(t)
      PROVE  \A z \in Threads : CallInv(z)'
  BY <1>1, <1>9 DEF Return, Goto, specVars, CallInv
<1>10. CASE Rewrite
  <2> SUFFICES ASSUME NEW z \in Threads
               PROVE  CallInv(z)'
    OBVIOUS
  <2>1. pc[z] # "idle" => call[z].began \in Nat
    BY <1>1 DEF TypeOK, Call, Version
  <2>2. version' = version + 1 /\ UNCHANGED <<cacheMode, lazyTimeSamples, pc, call, value>>
    BY <1>10 DEF Rewrite
  <2>3. pc[z] # "idle" => call[z].began <= version + 1
    BY <1>1, <2>1 DEF CallInv
  <2> QED
    BY <1>1, <2>2, <2>3 DEF CallInv
<1>11. CASE UNCHANGED vars
  BY <1>1, <1>11 DEF vars, specVars, CallInv
<1> QED
  BY <1>2, <1>3, <1>4, <1>5, <1>6, <1>7, <1>8, <1>9, <1>10, <1>11 DEF Next

\* Every step keeps the invariant of calls and caches.
LEMMA NextInv == IInv /\ [Next]_vars => IInv'
  BY NextTypes, NextCache, NextRetained, NextCall DEF IInv

\* That invariant holds in every state.
LEMMA Invariant == Spec => []IInv
  BY InitInv, NextInv, PTL DEF Spec

-----------------------------------------------------------------------------
(* What the invariant says of values.                                      *)

\* What a list holds for a sample has been registered for it.
LEMMA HoldsIsSample ==
  ASSUME NEW v, NEW p, NEW s, Holds(lazyTimeSamples[p], s, v.loader)
  PROVE  IsSampleOf(v, p, s)
  BY DEF Holds, IsSampleOf

\* Values that are served are of the sample that was asked for.
LEMMA InvRightSample == IInv => RightSampleIsFound
<1> SUFFICES ASSUME IInv
             PROVE  RightSampleIsFound
  OBVIOUS
<1>1. SampleIdentity
  BY HoldsIsSample DEF IInv, RetainedInv, CallInv, SampleIdentity
<1>2. FreshUnlessRetained
  BY DEF IInv, CacheInv, CallInv, FreshUnlessRetained
<1> QED
  BY <1>1, <1>2 DEF IInv, RightSampleIsFound

\* What is retained stays, and nobody loads it again.
Settled ==
  \A p \in Paths, s \in Times :
    /\ timeSampleCache[p][s] # NoValue
    /\ \A t \in Threads : ~Loading(t, p, s)
    => /\ timeSampleCache'[p][s] = timeSampleCache[p][s]
       /\ \A t \in Threads : ~Loading(t, p, s)'

\* No step changes a value that nobody is loading, or starts to load it again.
LEMMA SettledStep == IInv /\ [Next]_vars => Settled
<1> SUFFICES ASSUME IInv, [Next]_vars
             PROVE  Settled
  OBVIOUS
<1>1. /\ TypeOK /\ CacheInv
      /\ pc \in [Threads -> PCs] /\ call \in [Threads -> Call \cup {NoCall}]
  BY DEF IInv, TypeOK
<1>2. ASSUME NEW a \in Attributes, NEW list \in SampleLists[a], Register(a, list)
      PROVE  Settled
  BY <1>1, <1>2 DEF Register, Settled, Loading
<1>3. CASE Publish
  BY <1>1, <1>3 DEF Publish, Settled, Loading
<1>4. ASSUME NEW t \in Threads, NEW a \in Attributes, NEW s \in Times, Query(t, a, s)
      PROVE  Settled
  <2> DEFINE c == [path |-> CanonicalPath[a], time |-> s, began |-> version]
  <2>1. call' = [call EXCEPT ![t] = c]
    BY <1>4 DEF Query
  <2> HIDE DEF c
  <2>2. /\ UNCHANGED timeSampleCache /\ pc' = [pc EXCEPT ![t] = pc'[t]]
        /\ pc'[t] \in {"load", "store"} => cacheMode # "All"
    BY <1>1, <1>4 DEF Query, Goto, ShouldCacheTimeSamples
  <2>3. CASE cacheMode # "All"
    BY <1>1, <2>3 DEF CacheInv, Settled
  <2>4. CASE cacheMode = "All"
    BY <1>1, <2>1, <2>2, <2>4 DEF Settled, Loading
  <2> QED
    BY <2>3, <2>4
<1>5. ASSUME NEW t \in Threads, Lookup(t)
      PROVE  Settled
  BY <1>1, <1>5 DEF Lookup, Cached, Goto, Settled, Loading
<1>6. ASSUME NEW t \in Threads, Load(t)
      PROVE  Settled
  BY <1>1, <1>6 DEF Load, Goto, Settled, Loading
<1>7. ASSUME NEW t \in Threads, LoadThrows(t)
      PROVE  Settled
  BY <1>1, <1>7 DEF LoadThrows, Goto, Settled, Loading
<1>8. ASSUME NEW t \in Threads, Store(t)
      PROVE  Settled
  <2>1. call[t] \in Call /\ call[t].path \in Paths /\ call[t].time \in Times
    BY <1>1, <1>8 DEF Store, TypeOK, Call
  <2>2. ASSUME NEW p \in Paths, NEW s \in Times, ~Loading(t, p, s)
        PROVE  timeSampleCache'[p][s] = timeSampleCache[p][s]
    BY <1>1, <1>8, <2>1, <2>2 DEF Store, TypeOK, Loading
  <2> QED
    BY <1>1, <1>8, <2>2 DEF Store, Goto, Settled, Loading
<1>9. ASSUME NEW t \in Threads, Return(t)
      PROVE  Settled
  BY <1>1, <1>9 DEF Return, Goto, Settled, Loading
<1>10. CASE Rewrite
  BY <1>1, <1>10 DEF Rewrite, Settled, Loading
<1>11. CASE UNCHANGED vars
  BY <1>1, <1>11 DEF vars, Settled, Loading
<1> QED
  BY <1>2, <1>3, <1>4, <1>5, <1>6, <1>7, <1>8, <1>9, <1>10, <1>11 DEF Next

-----------------------------------------------------------------------------
(* Theorems.                                                               *)

\* For any number of threads that miss and load at once: an array that is
\* retained or returned was made by a loader registered for its path and time,
\* and a layer that does not cache returns nothing from before the call.
THEOREM RightSampleIsFoundCorrect == Spec => []RightSampleIsFound
<1>1. IInv => RightSampleIsFound
  BY InvRightSample
<1> QED
  BY <1>1, Invariant, PTL

\* What is retained when the loads that raced for it have ended stays, and is
\* never loaded again.
THEOREM CacheSettlesCorrect == Spec => CacheSettles
<1>1. IInv /\ [Next]_vars => [Settled]_vars
  BY SettledStep
<1> QED
  BY <1>1, Invariant, PTL DEF Spec, CacheSettles, Settled

-----------------------------------------------------------------------------
(* Times around a time: what the binary search gives is what the reference *)
(* definition asks for.                                                    *)

\* A bounded set of natural numbers that is not empty has a greatest element.
LEMMA GreatestElement ==
  ASSUME NEW S, S \subseteq Nat, S # {}, NEW b \in Nat, \A x \in S : x <= b
  PROVE  \E x \in S : \A y \in S : x >= y
<1> DEFINE T == {b - x : x \in S}
<1>1. T \subseteq Nat /\ T # {}
  <2>1. \A x \in S : b - x \in Nat
    OBVIOUS
  <2> QED
    BY <2>1
<1>2. PICK d \in T : \A e \in T : d <= e
  BY <1>1, LeastElement
<1>3. PICK x \in S : d = b - x
  BY <1>2
<1>4. \A y \in S : b - x <= b - y
  <2> TAKE y \in S
  <2>1. b - y \in T
    OBVIOUS
  <2> QED
    BY <1>2, <1>3, <2>1
<1>5. \A y \in S : x >= y
  <2> TAKE y \in S
  <2>1. x \in Nat /\ y \in Nat /\ b - x <= b - y
    BY <1>4
  <2> QED
    BY <2>1
<1> QED
  BY <1>5

\* Max and Min are what their names say.
LEMMA MaxIs ==
  ASSUME NEW S, S \subseteq Nat, NEW x \in S, \A y \in S : x >= y
  PROVE  Max(S) = x
<1> DEFINE Greatest(m) == m \in S /\ \A y \in S : m >= y
<1>1. Max(S) = CHOOSE m : Greatest(m)
  BY DEF Max
<1>2. Greatest(CHOOSE m : Greatest(m))
  <2> HIDE DEF Greatest
  <2>1. \E m : Greatest(m)
    BY DEF Greatest
  <2> QED
    BY <2>1
<1>3. Greatest(Max(S))
  BY <1>1, <1>2
<1>4. \A m : Greatest(m) => m = x
  OBVIOUS
<1> HIDE DEF Greatest
<1> QED
  BY <1>3, <1>4

\* The least element of a set, found by Min.
LEMMA MinIs ==
  ASSUME NEW S, S \subseteq Nat, NEW x \in S, \A y \in S : x <= y
  PROVE  Min(S) = x
<1> DEFINE Least(m) == m \in S /\ \A y \in S : m <= y
<1>1. Min(S) = CHOOSE m : Least(m)
  BY DEF Min
<1>2. Least(CHOOSE m : Least(m))
  <2> HIDE DEF Least
  <2>1. \E m : Least(m)
    BY DEF Least
  <2> QED
    BY <2>1
<1>3. Least(Min(S))
  BY <1>1, <1>2
<1>4. \A m : Least(m) => m = x
  OBVIOUS
<1> HIDE DEF Least
<1> QED
  BY <1>3, <1>4

\* In a sorted list no sample is after one that follows it.
LEMMA SortedPairs ==
  ASSUME NEW list \in Seq(Sample), TimeSamplesAreSorted(list),
         NEW i \in 1..Len(list), NEW j \in 1..Len(list), i <= j
  PROVE  list[i].time <= list[j].time
<1>1. Len(list) \in Nat /\ \A k \in 1..Len(list) : list[k].time \in Nat
  <2>1. Len(list) \in Nat /\ \A k \in 1..Len(list) : list[k] \in Sample
    BY LenProperties
  <2> QED
    BY <2>1, ConstantsAssumption DEF Sample
<1> DEFINE S == {k \in i..Len(list) : list[k].time < list[i].time}
<1>2. SUFFICES ASSUME S # {}
               PROVE  FALSE
  BY <1>1
<1>3. PICK k \in S : \A e \in S : k <= e
  <2>1. S \subseteq Nat
    BY <1>1
  <2> QED
    BY <1>2, <2>1, LeastElement
<1>4. k \in (i + 1)..Len(list) /\ k - 1 \in i..Len(list) /\ k \in 2..Len(list)
  BY <1>1
<1>5. ~(list[k - 1].time < list[i].time)
  BY <1>3, <1>4, <1>1
<1>6. list[k - 1].time <= list[k].time
  BY <1>4 DEF TimeSamplesAreSorted
<1>7. /\ list[k].time < list[i].time
      /\ list[k - 1].time \in Nat /\ list[k].time \in Nat /\ list[i].time \in Nat
  BY <1>1, <1>4
<1> QED
  BY <1>5, <1>6, <1>7

\* The times of a list.
LEMMA TimesOfList ==
  ASSUME NEW list \in Seq(Sample)
  PROVE  /\ Len(list) \in Nat
         /\ TimesOf(list) \subseteq Nat
         /\ \A i \in 1..Len(list) : list[i].time \in TimesOf(list) /\ list[i].loader # NoLoader
<1>1. Len(list) \in Nat /\ \A i \in 1..Len(list) : list[i] \in Sample
  BY LenProperties
<1>2. \A i \in 1..Len(list) : list[i].time \in Nat /\ list[i].loader # NoLoader
  <2>1. \A i \in 1..Len(list) : list[i].time \in Times /\ list[i].loader \in Loaders
    BY <1>1 DEF Sample
  <2> QED
    BY <2>1, ListConstants
<1> QED
  BY <1>1, <1>2 DEF TimesOf

\* A sorted list has a sample at a time when the search for it finds one.
LEMMA FoundIff ==
  ASSUME NEW list \in Seq(Sample), TimeSamplesAreSorted(list), NEW s \in Nat
  PROVE  FindTimeSample(list, s) # NoLoader <=> s \in TimesOf(list)
<1>1. /\ Len(list) \in Nat
      /\ \A i \in 1..Len(list) : list[i].time \in Nat /\ list[i].loader # NoLoader
  BY TimesOfList
<1> DEFINE i == LowerBound(list, s)
<1>2. /\ i \in 1..(Len(list) + 1)
      /\ i <= Len(list) => list[i].time >= s
      /\ \A j \in 1..(i - 1) : list[j].time < s
  BY LowerBoundIs
<1>3. FindTimeSample(list, s) = IF i <= Len(list) /\ list[i].time = s THEN list[i].loader ELSE NoLoader
  BY DEF FindTimeSample
<1> HIDE DEF i
<1>4. ASSUME NEW j \in 1..Len(list), list[j].time = s
      PROVE  i <= Len(list) /\ list[i].time = s
  <2>1. ~(j < i)
    BY <1>1, <1>2, <1>4
  <2>2. i \in 1..Len(list) /\ i <= j
    BY <1>1, <1>2, <2>1
  <2>3. list[i].time <= list[j].time
    BY <2>2, SortedPairs
  <2> QED
    BY <1>1, <1>2, <1>4, <2>2, <2>3
<1> QED
  BY <1>1, <1>2, <1>3, <1>4 DEF TimesOf

\* The two times around a time, as the code and the reference define them.
LEMMA BracketsOfList ==
  ASSUME NEW list \in Seq(Sample), TimeSamplesAreSorted(list), Len(list) > 0, NEW s \in Nat
  PROVE  /\ BracketingTimes(list, s) = BracketReference(TimesOf(list), s)
         /\ \A k \in 1..2 : BracketingTimes(list, s)[k] \in TimesOf(list)
<1> DEFINE i == LowerBound(list, s)
           n == Len(list)
           all == TimesOf(list)
           below == {x \in all : x <= s}
           above == {x \in all : x >= s}
<1>1. /\ n \in Nat /\ n > 0 /\ all \subseteq Nat
      /\ \A j \in 1..n : list[j].time \in Nat /\ list[j].time \in all
  BY TimesOfList
<1>2. /\ i \in 1..(n + 1)
      /\ i <= n => list[i].time >= s
      /\ \A j \in 1..(i - 1) : list[j].time < s
  BY LowerBoundIs
<1>3. \A j, k \in 1..n : j <= k => list[j].time <= list[k].time
  BY SortedPairs
<1>4. \A x \in all : \E j \in 1..n : x = list[j].time
  BY DEF TimesOf
<1>5. BracketReference(all, s) =
        <<IF below # {} THEN Max(below) ELSE Min(all), IF above # {} THEN Min(above) ELSE Max(all)>>
  BY DEF BracketReference
<1>6. BracketingTimes(list, s) =
        IF i = n + 1 THEN <<list[n].time, list[n].time>>
        ELSE IF i = 1 \/ list[i].time = s THEN <<list[i].time, list[i].time>>
        ELSE <<list[i - 1].time, list[i].time>>
  BY DEF BracketingTimes
<1>p. /\ below \subseteq all /\ above \subseteq all
      /\ \A x \in all : (x \in below <=> x <= s) /\ (x \in above <=> x >= s)
  OBVIOUS
<1>q. below \subseteq Nat /\ above \subseteq Nat
  BY <1>1, <1>p
<1> HIDE DEF i, n, all, below, above
<1>r. SUFFICES \E x, y \in all : /\ BracketingTimes(list, s) = <<x, y>>
                              /\ BracketReference(all, s) = <<x, y>>
  BY DEF all
<1>7. CASE i = n + 1
  <2>1. n \in 1..n /\ \A j \in 1..n : list[j].time < s /\ list[j].time <= list[n].time
    BY <1>1, <1>2, <1>3, <1>7
  <2>2. ASSUME NEW x \in all
        PROVE  x \in below /\ x \notin above /\ list[n].time >= x
    <3>1. PICK j \in 1..n : x = list[j].time
      BY <1>4
    <3> QED
      BY <1>1, <1>p, <2>1, <3>1
  <2>3. below = all /\ above = {} /\ list[n].time \in all
    BY <1>1, <1>p, <2>1, <2>2
  <2>4. Max(all) = list[n].time
    BY <1>1, <2>2, <2>3, MaxIs
  <2> QED
    BY <1>5, <1>6, <1>7, <2>3, <2>4
<1>8. CASE i \in 1..n
  <2>1. list[i].time \in above
    BY <1>1, <1>2, <1>8, <1>p
  <2>2. ASSUME NEW x \in above
        PROVE  list[i].time <= x
    <3>1. PICK j \in 1..n : x = list[j].time /\ x >= s
      BY <1>4, <1>p
    <3>2. ~(j < i)
      BY <1>1, <1>2, <1>8, <3>1
    <3>3. i <= j
      BY <1>1, <1>8, <3>2
    <3> QED
      BY <1>3, <1>8, <3>1, <3>3
  <2>3. Min(above) = list[i].time /\ above # {}
    BY <1>q, <2>1, <2>2, MinIs
  <2>4. CASE list[i].time = s
    <3>1. s \in below /\ \A x \in below : s >= x
      BY <1>1, <1>8, <1>p, <1>q, <2>4
    <3>2. Max(below) = s /\ below # {}
      BY <1>q, <3>1, MaxIs
    <3>3. i # n + 1
      BY <1>1, <1>8
    <3> QED
      BY <1>5, <1>6, <2>1, <2>3, <2>4, <3>2, <3>3, <1>p
  <2>5. CASE list[i].time # s /\ i = 1
    <3>1. ASSUME NEW x \in all
          PROVE  x \notin below /\ x \in above
      <4>1. PICK j \in 1..n : x = list[j].time
        BY <1>4
      <4>2. list[i].time <= list[j].time /\ list[i].time > s
        BY <1>1, <1>2, <1>3, <1>8, <2>5
      <4> QED
        BY <1>1, <1>8, <1>p, <4>1, <4>2
    <3>2. below = {} /\ above = all
      BY <1>p, <3>1
    <3>3. i # n + 1
      BY <1>1, <1>8
    <3> QED
      BY <1>5, <1>6, <2>1, <2>3, <2>5, <3>2, <3>3, <1>p
  <2>6. CASE list[i].time # s /\ i # 1
    <3>1. i - 1 \in 1..n /\ list[i].time > s /\ i # n + 1
      BY <1>1, <1>2, <1>8, <2>6
    <3>2. list[i - 1].time \in below
      BY <1>1, <1>2, <1>8, <1>p, <3>1
    <3>3. ASSUME NEW x \in below
          PROVE  list[i - 1].time >= x
      <4>1. PICK j \in 1..n : x = list[j].time /\ x <= s
        BY <1>4, <1>p
      <4>2. ~(i <= j)
        BY <1>1, <1>3, <1>8, <3>1, <4>1
      <4>3. j <= i - 1
        BY <1>1, <1>8, <4>2
      <4> QED
        BY <1>1, <1>3, <3>1, <4>1, <4>3
    <3>4. Max(below) = list[i - 1].time /\ below # {}
      BY <1>q, <3>2, <3>3, MaxIs
    <3> QED
      BY <1>5, <1>6, <2>1, <2>3, <2>6, <3>1, <3>2, <3>4, <1>p
  <2> QED
    BY <2>4, <2>5, <2>6
<1> QED
  BY <1>1, <1>2, <1>7, <1>8

\* The same for the times of the whole layer.
LEMMA BracketsOfLayer ==
  ASSUME ListAllTimeSamples \subseteq Nat, ListAllTimeSamples # {}, NEW s \in Nat
  PROVE  LayerBracketingTimes(s) = BracketReference(ListAllTimeSamples, s)
<1> DEFINE all == ListAllTimeSamples
           below == {x \in all : x <= s}
           above == {x \in all : x >= s}
           upper == IF \E x \in all : x >= s THEN Min(above) ELSE Max(all)
           before == {x \in all : x < upper}
<1>1. LayerBracketingTimes(s) = <<IF upper > s /\ before # {} THEN Max(before) ELSE upper, upper>>
  BY DEF LayerBracketingTimes
<1>2. BracketReference(all, s) =
        <<IF below # {} THEN Max(below) ELSE Min(all), IF above # {} THEN Min(above) ELSE Max(all)>>
  BY DEF BracketReference
<1> HIDE DEF all
<1>3. all \subseteq Nat /\ all # {}
  BY DEF all
<1>p. /\ below \subseteq all /\ above \subseteq all
      /\ \A x \in all : (x \in below <=> x <= s) /\ (x \in above <=> x >= s)
      /\ (\E x \in all : x >= s) <=> above # {}
  OBVIOUS
<1>q. below \subseteq Nat /\ above \subseteq Nat
  BY <1>3, <1>p
<1> HIDE DEF below, above
<1>4. CASE above = {}
  <2>1. ASSUME NEW x \in all
        PROVE  x < s /\ x \in below
    BY <1>3, <1>4, <1>p
  <2>2. PICK m \in all : \A x \in all : m >= x
    <3>1. \A x \in all : x <= s
      BY <1>3, <2>1
    <3> QED
      BY <1>3, <3>1, GreatestElement
  <2>3. Max(all) = m /\ below = all /\ m < s
    BY <1>3, <1>p, <2>1, <2>2, MaxIs
  <2>4. upper = m /\ ~(m > s)
    BY <1>3, <1>4, <1>p, <2>3
  <2> QED
    BY <1>1, <1>2, <1>3, <1>4, <2>3, <2>4 DEF all
<1>5. CASE above # {}
  <2>1. PICK u \in above : \A x \in above : u <= x
    BY <1>q, <1>5, LeastElement
  <2>2. Min(above) = u
    BY <1>q, <2>1, MinIs
  <2>3. upper = u /\ u \in all /\ u \in Nat /\ u >= s
    BY <1>3, <1>5, <1>p, <2>1, <2>2
  <2> HIDE DEF upper
  <2>4. CASE u = s
    <3>1. s \in below /\ \A x \in below : s >= x
      BY <1>3, <1>p, <1>q, <2>3, <2>4
    <3>2. Max(below) = s /\ below # {}
      BY <1>q, <3>1, MaxIs
    <3> QED
      BY <1>1, <1>2, <1>5, <2>2, <2>3, <2>4, <3>2 DEF all
  <2>5. CASE u # s
    <3>1. ASSUME NEW x \in all
          PROVE  x \in below <=> x < upper
      <4>1. CASE x \in above
        BY <1>3, <1>p, <2>1, <2>3, <2>5, <4>1
      <4>2. CASE x \notin above
        BY <1>3, <1>p, <2>3, <4>2
      <4> QED
        BY <4>1, <4>2
    <3>2. before = below
      BY <1>p, <3>1
    <3>5. upper > s
      BY <2>3, <2>5
    <3>3. CASE below # {}
      BY <1>1, <1>2, <1>5, <2>2, <2>3, <3>2, <3>3, <3>5 DEF all
    <3>4. CASE below = {}
      <4>1. above = all
        <5>1. ASSUME NEW x \in all
              PROVE  x \in above
          BY <1>3, <1>p, <3>4
        <5> QED
          BY <1>p, <5>1
      <4> QED
        BY <1>1, <1>2, <1>5, <2>2, <2>3, <3>2, <3>4, <3>5, <4>1 DEF all
    <3> QED
      BY <3>3, <3>4
  <2> QED
    BY <2>4, <2>5
<1> QED
  BY <1>4, <1>5

-----------------------------------------------------------------------------
(* Paths of prims.                                                         *)

\* The first names of a path.
LEMMA Cut ==
  ASSUME NEW h \in Seq(PrimNames), NEW k \in 0..Len(h)
  PROVE  /\ SubSeq(h, 1, k) \in Seq(PrimNames)
         /\ Len(SubSeq(h, 1, k)) = k
         /\ \A i \in 1..k : SubSeq(h, 1, k)[i] = h[i]
<1>1. Len(h) \in Nat /\ k \in Int /\ 1 \in Int
  BY LenProperties
<1>2. \A i \in 1..k : h[i] \in PrimNames
  BY <1>1, LenProperties
<1>3. /\ SubSeq(h, 1, k) \in Seq(PrimNames)
      /\ Len(SubSeq(h, 1, k)) = IF 1 <= k THEN k - 1 + 1 ELSE 0
      /\ \A i \in 1..(k - 1 + 1) : SubSeq(h, 1, k)[i] = h[1 + i - 1]
  BY <1>1, <1>2, SubSeqProperties
<1> QED
  BY <1>1, <1>3

\* The parent of a prefix is the root or a shorter prefix.
LEMMA PrefixFacts ==
  ASSUME NEW h \in Seq(PrimNames), NEW n \in GetPrefixes(h)
  PROVE  /\ n \in Seq(PrimNames) /\ n # <<>>
         /\ Front(n) \in Seq(PrimNames) /\ Last(n) \in PrimNames
         /\ Front(n) = <<>> \/ Front(n) \in GetPrefixes(h)
<1>1. PICK k \in 1..Len(h) : n = SubSeq(h, 1, k)
  BY DEF GetPrefixes
<1>2. Len(h) \in Nat /\ k \in 0..Len(h) /\ k - 1 \in 0..Len(h) /\ k \in 1..k
  BY LenProperties
<1>3. /\ n \in Seq(PrimNames) /\ Len(n) = k
      /\ \A i \in 1..k : n[i] = h[i]
  BY <1>1, <1>2, Cut
<1>4. k - 1 \in 0..Len(n)
  BY <1>2, <1>3
<1>5. /\ SubSeq(n, 1, k - 1) \in Seq(PrimNames) /\ Len(SubSeq(n, 1, k - 1)) = k - 1
      /\ \A i \in 1..(k - 1) : SubSeq(n, 1, k - 1)[i] = n[i]
  BY <1>3, <1>4, Cut
<1>6. /\ SubSeq(h, 1, k - 1) \in Seq(PrimNames) /\ Len(SubSeq(h, 1, k - 1)) = k - 1
      /\ \A i \in 1..(k - 1) : SubSeq(h, 1, k - 1)[i] = h[i]
  BY <1>2, Cut
<1>7. \A i \in 1..(k - 1) : SubSeq(n, 1, k - 1)[i] = SubSeq(h, 1, k - 1)[i]
  BY <1>2, <1>3, <1>5, <1>6
<1>8. Front(n) = SubSeq(h, 1, k - 1) /\ Front(n) \in Seq(PrimNames)
  <2>1. SubSeq(n, 1, k - 1) = SubSeq(h, 1, k - 1)
    BY <1>5, <1>6, <1>7, SeqEqual
  <2> QED
    BY <1>3, <1>5, <2>1 DEF Front
<1>9. Last(n) \in PrimNames
  BY <1>2, <1>3, ElementOfSeq DEF Last
<1>10. n # <<>>
  BY <1>2, <1>3, EmptySeq
<1>11. Front(n) = <<>> \/ Front(n) \in GetPrefixes(h)
  <2>1. CASE k = 1
    BY <1>8, <2>1, SubSeqEmpty
  <2>2. CASE k # 1
    <3>1. k - 1 \in 1..Len(h)
      BY <1>2, <2>2
    <3> QED
      BY <1>8, <3>1 DEF GetPrefixes
  <2> QED
    BY <2>1, <2>2
<1> QED
  BY <1>3, <1>8, <1>9, <1>10, <1>11

\* A path is a prefix of itself, its first name is one under the root, and it
\* is none of the prefixes of its parent.
LEMMA PrefixesOf ==
  ASSUME NEW h \in Seq(PrimNames), h # <<>>
  PROVE  /\ h \in GetPrefixes(h)
         /\ \E n \in GetPrefixes(h) : Front(n) = <<>> /\ Last(n) = Head(h)
         /\ Head(h) \in PrimNames
         /\ GetPrefixes(Front(h)) \subseteq GetPrefixes(h) \ {h}
<1>1. Len(h) \in Nat \ {0} /\ 1 \in 0..Len(h) /\ 1 \in 1..Len(h)
  BY EmptySeq
<1>2. h \in GetPrefixes(h)
  BY <1>1, SubSeqFull DEF GetPrefixes
<1>3. Head(h) = h[1] /\ Head(h) \in PrimNames
  BY <1>1, HeadTailProperties
<1>4. \E n \in GetPrefixes(h) : Front(n) = <<>> /\ Last(n) = Head(h)
  <2>1. SubSeq(h, 1, 1) \in GetPrefixes(h)
    BY <1>1 DEF GetPrefixes
  <2>2. Len(SubSeq(h, 1, 1)) = 1 /\ SubSeq(h, 1, 1)[1] = h[1]
    BY <1>1, Cut
  <2>3. Front(SubSeq(h, 1, 1)) = <<>>
    BY <2>2, SubSeqEmpty DEF Front
  <2> QED
    BY <1>3, <2>1, <2>2, <2>3 DEF Last
<1>5. ASSUME NEW n \in GetPrefixes(Front(h))
      PROVE  n \in GetPrefixes(h) /\ n # h
  <2> DEFINE m == Len(h) - 1
             f == SubSeq(h, 1, m)
  <2>1. m \in 0..Len(h)
    BY <1>1
  <2>2. /\ f \in Seq(PrimNames) /\ Len(f) = m
        /\ \A i \in 1..m : f[i] = h[i]
    BY <2>1, Cut
  <2>3. PICK k \in 1..m : n = SubSeq(f, 1, k)
    BY <1>5, <2>2 DEF GetPrefixes, Front
  <2> HIDE DEF f, m
  <2>4. k \in 0..Len(f) /\ k \in 0..Len(h) /\ k \in 1..Len(h) /\ k # Len(h)
    BY <1>1, <2>1, <2>2, <2>3 DEF m
  <2>5. /\ n \in Seq(PrimNames) /\ Len(n) = k
        /\ \A i \in 1..k : n[i] = f[i]
    BY <2>2, <2>3, <2>4, Cut
  <2>6. /\ SubSeq(h, 1, k) \in Seq(PrimNames) /\ Len(SubSeq(h, 1, k)) = k
        /\ \A i \in 1..k : SubSeq(h, 1, k)[i] = h[i]
    BY <2>4, Cut
  <2>7. \A i \in 1..k : n[i] = SubSeq(h, 1, k)[i]
    <3>1. \A i \in 1..k : i \in 1..m
      BY <2>1, <2>3, <2>4
    <3> QED
      BY <2>2, <2>5, <2>6, <3>1
  <2>8. n = SubSeq(h, 1, k)
    BY <2>5, <2>6, <2>7, SeqEqual
  <2> QED
    BY <2>4, <2>5, <2>8 DEF GetPrefixes
<1> QED
  BY <1>2, <1>3, <1>4, <1>5

\* What is above a path is above all that is below it.
LEMMA PrefixesOfConcat ==
  ASSUME NEW h \in Seq(PrimNames), NEW t \in Seq(PrimNames)
  PROVE  GetPrefixes(h) \subseteq GetPrefixes(h \o t)
<1>1. Len(h) \in Nat /\ Len(t) \in Nat /\ Len(h \o t) = Len(h) + Len(t)
  BY LenProperties, ConcatProperties
<1> SUFFICES ASSUME NEW k \in 1..Len(h)
             PROVE  SubSeq(h, 1, k) \in GetPrefixes(h \o t)
  BY DEF GetPrefixes
<1>2. 1 \in 1..Len(h) /\ k \in 1..Len(h \o t)
  BY <1>1
<1>3. SubSeq(h \o t, 1, k) = SubSeq(h, 1, k)
  BY <1>2, SubSeqOfConcat1
<1> QED
  BY <1>2, <1>3 DEF GetPrefixes

\* Where attributes are.
LEMMA PathOfAttribute ==
  ASSUME mount \in MountPaths, NEW a \in Attributes
  PROVE  /\ mount \in Seq(PrimNames) /\ mount # <<>>
         /\ PathOf(a).prim \in Seq(PrimNames) /\ PathOf(a).prim # <<>>
         /\ PathOf(a).prim \in Homes
         /\ PathOf(a).prop = a /\ PathOf(a).prop # NoProperty
         /\ GetPrefixes(mount) \subseteq GetPrefixes(PathOf(a).prim)
<1>1. /\ mount \in Seq(PrimNames) /\ mount # <<>> /\ HomeOf[a] \in Seq(PrimNames)
      /\ NoProperty \notin Attributes
  BY ConstantsAssumption
<1>2. PathOf(a).prim = mount \o HomeOf[a] /\ PathOf(a).prop = a
  BY DEF PathOf
<1>3. mount \o HomeOf[a] \in Seq(PrimNames) /\ mount \o HomeOf[a] # <<>>
  BY <1>1, ConcatProperties, ConcatEqualIffEmpty
<1> QED
  BY <1>1, <1>2, <1>3, PrefixesOfConcat DEF Homes

-----------------------------------------------------------------------------
(* The specs of the layer.                                                 *)

\* The prims above the registered attributes.
ShownPrims == UNION {GetPrefixes(PathOf(a).prim) : a \in attrInfos}

\* What the overrides know of prims is the tree above the attributes; what is
\* stored is nothing, and the structure below its overs once the data is set.
\* The lists of registered attributes are sorted.
SpecsInv ==
  /\ overPaths = {PrimPath(n) : n \in ShownPrims}
  /\ childrenMap = [p \in {Front(n) : n \in ShownPrims} |-> Names(p, ShownPrims)]
  /\ stored = IF published THEN AuthorMountPathOvers(StructureLayer) ELSE <<>>
  /\ \A a \in attrInfos :
       /\ lazyTimeSamples[CanonicalPath[a]] # Unregistered
       /\ TimeSamplesAreSorted(lazyTimeSamples[CanonicalPath[a]])

\* The prims above attributes have paths of their own, and parents.
LEMMA Shown ==
  ASSUME TypeOK, NEW n \in ShownPrims
  PROVE  /\ n \in Seq(PrimNames) /\ n # <<>> /\ n \in StructurePrims
         /\ Front(n) = <<>> \/ Front(n) \in ShownPrims
         /\ Last(n) \in PrimNames
<1>1. PICK a \in attrInfos : n \in GetPrefixes(PathOf(a).prim)
  BY DEF ShownPrims
<1>2. a \in Attributes /\ mount \in MountPaths
  BY DEF TypeOK
<1>3. PathOf(a).prim \in Seq(PrimNames) /\ PathOf(a).prim \in Homes
  BY <1>2, PathOfAttribute
<1>4. /\ n \in Seq(PrimNames) /\ n # <<>> /\ Last(n) \in PrimNames
      /\ Front(n) = <<>> \/ Front(n) \in GetPrefixes(PathOf(a).prim)
  BY <1>1, <1>3, PrefixFacts
<1> QED
  BY <1>1, <1>3, <1>4 DEF ShownPrims, StructurePrims

\* The specs are whole before anything is registered.
LEMMA InitSpecs == Init => SpecsInv
<1> SUFFICES ASSUME Init
             PROVE  SpecsInv
  OBVIOUS
<1>1. attrInfos = {} /\ overPaths = {} /\ childrenMap = <<>> /\ stored = <<>> /\ published = FALSE
  BY DEF Init
<1>2. ShownPrims = {}
  BY <1>1 DEF ShownPrims
<1>3. childrenMap = [p \in {Front(n) : n \in ShownPrims} |-> Names(p, ShownPrims)]
  <2>1. {Front(n) : n \in ShownPrims} = {}
    BY <1>2
  <2> QED
    BY <1>1, <2>1
<1> QED
  BY <1>1, <1>2, <1>3 DEF SpecsInv

\* Nothing but the mount path decides on the structure.
LEMMA SameStructure ==
  ASSUME UNCHANGED mount
  PROVE  AuthorMountPathOvers(StructureLayer)' = AuthorMountPathOvers(StructureLayer)
  BY DEF AuthorMountPathOvers, StructureLayer, StructureFields, StructurePrims, Homes,
         WithDefaultPrim

\* What a query does leaves the specs alone.
LEMMA SpecsUnchanged ==
  ASSUME SpecsInv,
         UNCHANGED <<lazyTimeSamples, attrInfos, overPaths, childrenMap, mount, stored, published>>
  PROVE  SpecsInv'
<1>1. ShownPrims' = ShownPrims
  BY DEF ShownPrims, PathOf
<1> QED
  BY <1>1, SameStructure DEF SpecsInv

\* A list that is registered is sorted.
LEMMA RegisteredIsSorted ==
  ASSUME NEW list,
         NEW s \in IF TimeSamplesAreSorted(list) THEN {list} ELSE SortedOrders(list)
  PROVE  TimeSamplesAreSorted(s)
  BY DEF SortedOrders

\* Registering an attribute shows the prims above it that were not shown yet.
LEMMA RegisterSpecs ==
  ASSUME TypeOK, SpecsInv, NEW a \in Attributes, NEW list \in SampleLists[a], Register(a, list)
  PROVE  SpecsInv'
<1> DEFINE prefixes == GetPrefixes(PathOf(a).prim)
           new == {n \in prefixes : PrimPath(n) \notin overPaths}
<1>1. /\ overPaths' = overPaths \cup {PrimPath(n) : n \in new}
      /\ childrenMap' = [parent \in DOMAIN childrenMap \cup {Front(n) : n \in new} |->
                           ChildrenOf(parent) \cup Names(parent, new)]
      /\ attrInfos' = attrInfos \cup {a}
      /\ ~published /\ UNCHANGED <<mount, stored, published>>
  BY DEF Register
<1>2. /\ overPaths = {PrimPath(n) : n \in ShownPrims}
      /\ childrenMap = [p \in {Front(n) : n \in ShownPrims} |-> Names(p, ShownPrims)]
  BY DEF SpecsInv
<1>3. new = prefixes \ ShownPrims
  BY <1>2 DEF PrimPath
<1>4. ShownPrims' = ShownPrims \cup new
  <2>1. ShownPrims' = ShownPrims \cup prefixes
    BY <1>1 DEF ShownPrims, PathOf
  <2> QED
    BY <1>3, <2>1
<1>5. overPaths' = {PrimPath(n) : n \in ShownPrims'}
  <2> HIDE DEF new
  <2> QED
    BY <1>1, <1>2, <1>4
<1>6. \A n \in ShownPrims' : n # <<>>
  <2>1. \A n \in ShownPrims : n # <<>>
    BY Shown
  <2>2. \A n \in prefixes : n # <<>>
    BY PathOfAttribute, PrefixFacts DEF TypeOK
  <2> QED
    BY <1>4, <2>1, <2>2
<1>7. childrenMap' = [p \in {Front(n) : n \in ShownPrims'} |-> Names(p, ShownPrims')]
  <2> HIDE DEF new
  <2>1. DOMAIN childrenMap = {Front(n) : n \in ShownPrims}
    BY <1>2
  <2>2. DOMAIN childrenMap \cup {Front(n) : n \in new} = {Front(n) : n \in ShownPrims'}
    BY <1>4, <2>1
  <2>3. ASSUME NEW p
        PROVE  ChildrenOf(p) = Names(p, ShownPrims)
    <3>1. CASE p \in DOMAIN childrenMap
      BY <1>2, <3>1 DEF ChildrenOf
    <3>2. CASE p \notin DOMAIN childrenMap
      BY <2>1, <3>2 DEF ChildrenOf, Names
    <3> QED
      BY <3>1, <3>2
  <2>4. ASSUME NEW p
        PROVE  Names(p, ShownPrims) \cup Names(p, new) = Names(p, ShownPrims')
    BY <1>4 DEF Names
  <2> QED
    BY <1>1, <2>2, <2>3, <2>4
<1>8. stored' = <<>> /\ published' = FALSE
  BY <1>1 DEF SpecsInv
<1>9. ASSUME NEW b \in attrInfos'
      PROVE  /\ lazyTimeSamples[CanonicalPath[b]]' # Unregistered
             /\ TimeSamplesAreSorted(lazyTimeSamples[CanonicalPath[b]])'
  <2>1. PICK s \in IF TimeSamplesAreSorted(list) THEN {list} ELSE SortedOrders(list) :
               lazyTimeSamples' = [lazyTimeSamples EXCEPT ![CanonicalPath[a]] = s]
    BY DEF Register
  <2>2. list \in Seq(Sample) /\ CanonicalPath[a] \in Paths /\ Unregistered \notin Seq(Sample)
    BY ConstantsAssumption
  <2>3. s # Unregistered /\ TimeSamplesAreSorted(s)
    BY <2>2, RegisteredList, RegisteredIsSorted
  <2>4. CanonicalPath[b] \in Paths /\ lazyTimeSamples \in [Paths -> Seq(Sample) \cup {Unregistered}]
    BY <1>1, ConstantsAssumption DEF TypeOK
  <2>5. CASE CanonicalPath[b] = CanonicalPath[a]
    <3>1. lazyTimeSamples'[CanonicalPath[b]] = s
      BY <2>1, <2>4, <2>5
    <3> QED
      BY <2>3, <3>1 DEF TimeSamplesAreSorted
  <2>6. CASE CanonicalPath[b] # CanonicalPath[a]
    <3>1. lazyTimeSamples'[CanonicalPath[b]] = lazyTimeSamples[CanonicalPath[b]]
      BY <2>1, <2>4, <2>6
    <3>2. b \in attrInfos
      BY <1>1, <2>6
    <3> QED
      BY <3>1, <3>2 DEF SpecsInv, TimeSamplesAreSorted
  <2> QED
    BY <2>5, <2>6
<1> QED
  BY <1>5, <1>7, <1>8, <1>9 DEF SpecsInv

\* Every step keeps the specs whole: registering an attribute adds the prims
\* above it and their children entries together, publishing sets the structure.
LEMMA NextSpecs == TypeOK /\ SpecsInv /\ [Next]_vars => SpecsInv'
<1> SUFFICES ASSUME TypeOK, SpecsInv, [Next]_vars
             PROVE  SpecsInv'
  OBVIOUS
<1>1. ASSUME NEW a \in Attributes, NEW list \in SampleLists[a], Register(a, list)
      PROVE  SpecsInv'
  BY <1>1, RegisterSpecs
<1>2. CASE Publish
  <2>1. /\ stored' = AuthorMountPathOvers(StructureLayer) /\ published' = TRUE
        /\ UNCHANGED <<lazyTimeSamples, attrInfos, overPaths, childrenMap, mount>>
    BY <1>2 DEF Publish
  <2>2. ShownPrims' = ShownPrims
    BY <2>1 DEF ShownPrims, PathOf
  <2> QED
    BY <2>1, <2>2, SameStructure DEF SpecsInv
<1>3. ASSUME NEW t \in Threads, NEW a \in Attributes, NEW s \in Times, Query(t, a, s)
      PROVE  SpecsInv'
  BY <1>3, SpecsUnchanged DEF Query, specVars
<1>4. ASSUME NEW t \in Threads, Lookup(t) \/ Load(t) \/ LoadThrows(t) \/ Store(t) \/ Return(t)
      PROVE  SpecsInv'
  BY <1>4, SpecsUnchanged DEF Lookup, Load, LoadThrows, Store, Return, specVars
<1>5. CASE Rewrite \/ UNCHANGED vars
  BY <1>5, SpecsUnchanged DEF Rewrite, vars, specVars
<1> QED
  BY <1>1, <1>2, <1>3, <1>4, <1>5 DEF Next

-----------------------------------------------------------------------------
(* The answers to questions about specs.                                   *)

\* The specs of the structure, and what becomes of them.
LEMMA StoredPaths ==
  ASSUME SpecsInv
  PROVE  DOMAIN stored =
           IF published
           THEN {PrimPath(n) : n \in StructurePrims}
                  \cup {[prim |-> h, prop |-> Metadata] : h \in Homes}
           ELSE {}
  BY DEF SpecsInv, AuthorMountPathOvers, StructureLayer

\* A prim of the structure has its fields; the root gets the default prim, the
\* prims above the dataset another specifier.
LEMMA StoredPrim ==
  ASSUME SpecsInv, TypeOK, published, NEW n \in StructurePrims
  PROVE  /\ stored[PrimPath(n)].type = IF n = <<>> THEN "pseudoRoot" ELSE "prim"
         /\ DOMAIN stored[PrimPath(n)].fields =
              DOMAIN StructureFields(n) \cup (IF n = <<>> THEN {"defaultPrim"} ELSE {})
         /\ \A f \in DOMAIN stored[PrimPath(n)].fields :
              stored[PrimPath(n)].fields[f] =
                IF n = <<>> /\ f = "defaultPrim" THEN Head(mount)
                ELSE IF n # <<>> /\ f = "specifier" /\ n \in GetPrefixes(Front(mount)) THEN "over"
                ELSE StructureFields(n)[f]
<1> DEFINE path == PrimPath(n)
           spec == StructureLayer[path]
<1>1. path.prop = NoProperty /\ path.prim = n /\ (path = Root <=> n = <<>>)
  BY DEF PrimPath, Root
<1>2. path \in DOMAIN StructureLayer
  BY DEF StructureLayer
<1>3. spec = [type |-> IF path = Root THEN "pseudoRoot" ELSE "prim", fields |-> StructureFields(n)]
  BY <1>1, <1>2 DEF StructureLayer
<1>4. stored[path] =
        CASE path = Root -> [spec EXCEPT !.fields = WithDefaultPrim(@)]
          [] path.prop = NoProperty /\ path.prim \in GetPrefixes(Front(mount)) ->
               [spec EXCEPT !.fields["specifier"] = "over"]
          [] OTHER -> spec
  BY <1>2 DEF SpecsInv, AuthorMountPathOvers
<1> HIDE DEF spec, path
<1>5. CASE n = <<>>
  <2>1. stored[path] = [type |-> "pseudoRoot", fields |-> WithDefaultPrim(StructureFields(n))]
    <3>1. path = Root /\ path.prim \notin GetPrefixes(Front(mount))
      <4>1. mount \in Seq(PrimNames) /\ mount # <<>>
        BY ConstantsAssumption DEF TypeOK
      <4>2. mount \in GetPrefixes(mount)
        BY <4>1, PrefixesOf
      <4>3. Front(mount) \in Seq(PrimNames)
        BY <4>1, <4>2, PrefixFacts
      <4> QED
        BY <1>1, <1>5, <4>3, PrefixFacts
    <3>3. stored[path] = [spec EXCEPT !.fields = WithDefaultPrim(spec.fields)]
      BY <1>4, <3>1
    <3>2. spec = [type |-> "pseudoRoot", fields |-> StructureFields(n)]
      BY <1>1, <1>3, <1>5
    <3> QED
      BY <3>2, <3>3
  <2>2. "specifier" \notin DOMAIN StructureFields(n)
    BY <1>5 DEF StructureFields
  <2> QED
    BY <1>5, <2>1, <2>2 DEF WithDefaultPrim, path
<1>6. CASE n # <<>> /\ n \in GetPrefixes(Front(mount))
  <2>1. stored[path] = [type |-> "prim", fields |-> [StructureFields(n) EXCEPT !["specifier"] = "over"]]
    <3>1. stored[path] = [spec EXCEPT !.fields["specifier"] = "over"]
      BY <1>1, <1>4, <1>6
    <3> QED
      BY <1>1, <1>3, <1>6, <3>1
  <2> QED
    BY <1>6, <2>1 DEF path
<1>7. CASE n # <<>> /\ n \notin GetPrefixes(Front(mount))
  <2>1. stored[path] = spec /\ spec.type = "prim" /\ spec.fields = StructureFields(n)
    BY <1>1, <1>3, <1>4, <1>7
  <2> QED
    BY <1>7, <2>1 DEF path
<1> QED
  BY <1>5, <1>6, <1>7

\* An attribute of metadata has its fields.
LEMMA StoredMetadata ==
  ASSUME SpecsInv, published, NEW h \in Homes
  PROVE  LET spec == stored[[prim |-> h, prop |-> Metadata]]
         IN /\ spec.type = "attribute"
            /\ DOMAIN spec.fields = {"typeName", "variability", "custom", "default"}
            /\ \A f \in DOMAIN spec.fields : spec.fields[f] = "authored"
<1> DEFINE path == [prim |-> h, prop |-> Metadata]
<1>1. path.prop # NoProperty /\ path # Root
  BY ConstantsAssumption DEF PrimPath, Root
<1>2. path \in DOMAIN StructureLayer
  BY DEF StructureLayer
<1>3. stored[path] = StructureLayer[path]
  BY <1>1, <1>2 DEF SpecsInv, AuthorMountPathOvers
<1>4. StructureLayer[path] =
        [type |-> "attribute",
         fields |-> [f \in {"typeName", "variability", "custom", "default"} |-> "authored"]]
  BY <1>1, <1>2 DEF StructureLayer
<1> QED
  BY <1>3, <1>4

\* The names of the children of a prim of the structure, or of one that is
\* shown, are names.
LEMMA NamesAreNames ==
  ASSUME TypeOK, NEW prims, prims \subseteq StructurePrims, NEW p
  PROVE  Names(p, prims) \subseteq PrimNames
<1> SUFFICES ASSUME NEW n \in prims, n # <<>>
             PROVE  Last(n) \in PrimNames
  BY DEF Names
<1>1. PICK h \in Homes : n \in GetPrefixes(h)
  BY DEF StructurePrims
<1>2. h \in Seq(PrimNames)
  <2>1. PICK a \in Attributes : h = mount \o HomeOf[a]
    BY <1>1 DEF Homes
  <2> QED
    BY <2>1, PathOfAttribute DEF PathOf, TypeOK
<1> QED
  BY <1>1, <1>2, PrefixFacts

\* No value is the absence of one.
LEMMA ValuesAreValues ==
  ASSUME TypeOK, SpecsInv
  PROVE  /\ \A path : \A f \in StoredFields(path) : stored[path].fields[f] # NoValue
         /\ \A n : ChildrenOf(n) # NoValue
         /\ \A path \in DOMAIN stored : stored[path].type \in {"pseudoRoot", "prim", "attribute"}
<1>1. /\ NoValue \notin PrimNames /\ NoValue # {Metadata}
      /\ \A S : S \subseteq PrimNames => NoValue # S
      /\ NoValue \notin {"def", "over", "authored"}
  BY ConstantsAssumption
<1>2. \A n : ChildrenOf(n) # NoValue
  <2>1. ShownPrims \subseteq StructurePrims
    BY Shown
  <2>2. ASSUME NEW n
        PROVE  ChildrenOf(n) \subseteq PrimNames
    BY <2>1, NamesAreNames DEF ChildrenOf, SpecsInv
  <2> QED
    BY <1>1, <2>2
<1>3. ASSUME NEW path \in DOMAIN stored
      PROVE  /\ stored[path].type \in {"pseudoRoot", "prim", "attribute"}
             /\ \A f \in DOMAIN stored[path].fields : stored[path].fields[f] # NoValue
  <2>1. published
    BY <1>3, StoredPaths
  <2>2. ASSUME NEW n \in StructurePrims, path = PrimPath(n)
        PROVE  /\ stored[path].type \in {"pseudoRoot", "prim"}
               /\ \A f \in DOMAIN stored[path].fields : stored[path].fields[f] # NoValue
    <3>1. Head(mount) \in PrimNames
      <4>1. mount \in Seq(PrimNames) /\ mount # <<>>
        BY ConstantsAssumption DEF TypeOK
      <4> QED
        BY <4>1
    <3>2. Names(n, StructurePrims) \subseteq PrimNames
      BY NamesAreNames
    <3>3. \A f \in DOMAIN StructureFields(n) : StructureFields(n)[f] # NoValue
      BY <1>1, <3>2 DEF StructureFields
    <3> QED
      BY <1>1, <2>1, <2>2, <3>1, <3>3, StoredPrim
  <2>3. ASSUME NEW h \in Homes, path = [prim |-> h, prop |-> Metadata]
        PROVE  /\ stored[path].type = "attribute"
               /\ \A f \in DOMAIN stored[path].fields : stored[path].fields[f] # NoValue
    BY <1>1, <2>1, <2>3, StoredMetadata
  <2> QED
    BY <2>1, <2>2, <2>3, StoredPaths
<1> QED
  BY <1>2, <1>3 DEF StoredFields

\* The root, the prims above attributes, the attributes and what is stored.
LEMMA Kinds ==
  ASSUME TypeOK, SpecsInv
  PROVE  /\ \A a \in Attributes : PathOf(a) \notin DOMAIN stored \cup overPaths \cup {Root}
         /\ \A path \in AttrPaths : path \notin DOMAIN stored \cup overPaths \cup {Root}
         /\ \A path \in AttrPaths : path.prop \in attrInfos
         /\ Root \notin overPaths
<1>1. ASSUME NEW a \in Attributes
      PROVE  /\ PathOf(a).prop = a /\ a # NoProperty /\ a # Metadata
             /\ PathOf(a) \notin DOMAIN stored \cup overPaths \cup {Root}
  <2>1. PathOf(a).prop = a /\ a # NoProperty /\ a # Metadata
    BY ConstantsAssumption DEF PathOf
  <2>2. \A n : PrimPath(n).prop = NoProperty
    BY DEF PrimPath
  <2>3. \A path \in DOMAIN stored : path.prop \in {NoProperty, Metadata}
    BY <2>2, StoredPaths
  <2> QED
    BY <2>1, <2>2, <2>3 DEF SpecsInv, Root
<1>2. attrInfos \subseteq Attributes
  BY DEF TypeOK
<1>3. Root \notin overPaths
  BY Shown DEF SpecsInv, Root, PrimPath
<1> QED
  BY <1>1, <1>2, <1>3 DEF AttrPaths

\* The root has children as soon as the layer shows anything else.
LEMMA RootHasChildren ==
  ASSUME TypeOK, SpecsInv, VisitSpecs # {Root}
  PROVE  "primChildren" \in StoredFields(Root) \/ <<>> \in DOMAIN childrenMap
<1>1. CASE published
  <2>1. PICK a \in Attributes : TRUE
    BY ConstantsAssumption
  <2>2. PICK n \in GetPrefixes(PathOf(a).prim) : Front(n) = <<>>
    BY PathOfAttribute, PrefixesOf DEF TypeOK
  <2>3. n # <<>> /\ n \in StructurePrims
    <3>1. PathOf(a).prim \in Homes /\ PathOf(a).prim \in Seq(PrimNames)
      BY PathOfAttribute DEF TypeOK
    <3> QED
      BY <3>1, PrefixFacts DEF StructurePrims
  <2>4. Names(<<>>, StructurePrims) # {}
    BY <2>2, <2>3 DEF Names
  <2>5. "primChildren" \in DOMAIN StructureFields(<<>>) /\ <<>> \in StructurePrims
    BY <2>4 DEF StructureFields, StructurePrims
  <2>6. Root \in DOMAIN stored /\ DOMAIN StructureFields(<<>>) \subseteq DOMAIN stored[Root].fields
    BY <1>1, <2>5, StoredPaths, StoredPrim DEF Root
  <2> QED
    BY <2>5, <2>6 DEF StoredFields
<1>2. CASE ~published
  <2>1. attrInfos # {}
    BY <1>2, StoredPaths DEF VisitSpecs, AttrPaths, SpecsInv, ShownPrims
  <2>2. PICK a \in attrInfos : a \in Attributes
    BY <2>1 DEF TypeOK
  <2>3. PICK n \in GetPrefixes(PathOf(a).prim) : Front(n) = <<>>
    BY <2>2, PathOfAttribute, PrefixesOf DEF TypeOK
  <2> QED
    BY <2>2, <2>3 DEF SpecsInv, ShownPrims
<1> QED
  BY <1>1, <1>2

\* The queries about specs agree with each other.
LEMMA InvSpecsAgree == TypeOK /\ SpecsInv => SpecsAgree
<1> SUFFICES ASSUME TypeOK, SpecsInv, NEW path \in KnownPaths
             PROVE  /\ HasSpec(path) <=> path \in VisitSpecs
                    /\ HasSpec(path) <=> GetSpecType(path) # "unknown"
                    /\ \A field \in Fields :
                         /\ HasField(path, field) <=> GetField(path, field) # NoValue
                         /\ HasField(path, field) <=> HasSpecAndField(path, field)
                         /\ VisitSpecs # {Root} => (HasField(path, field) <=> field \in ListFields(path))
                    /\ path \in AttrPaths => ~HasField(path, "default")
  BY DEF SpecsAgree
<1>1. /\ path \in AttrPaths => path \notin DOMAIN stored \cup overPaths \cup {Root}
      /\ Root \notin overPaths
  BY Kinds
<1>2. HasSpec(path) <=> path \in VisitSpecs
  BY DEF HasSpec, VisitSpecs
<1>3. HasSpec(path) <=> GetSpecType(path) # "unknown"
  <2>1. path \in DOMAIN stored => stored[path].type \in {"pseudoRoot", "prim", "attribute"}
    BY ValuesAreValues
  <2> QED
    BY <1>1, <2>1 DEF HasSpec, GetSpecType
<1>4. path \in AttrPaths => ~HasField(path, "default")
  BY <1>1 DEF HasField, IsLazyValueField
<1>5. ASSUME NEW field \in Fields
      PROVE  HasField(path, field) <=> GetField(path, field) # NoValue
  <2>1. CASE ~IsLazyValueField(path, field) /\ field \in StoredFields(path)
    <3>1. stored[path].fields[field] # NoValue
      BY <2>1, ValuesAreValues
    <3> QED
      BY <2>1, <3>1 DEF HasField, GetField
  <2>2. CASE IsLazyValueField(path, field) \/ field \notin StoredFields(path)
    <3>1. /\ \A n : ChildrenOf(n) # NoValue
          /\ NoValue \notin {"over", "registered", "empty map", "1.0"}
      BY ValuesAreValues, ConstantsAssumption
    <3> QED
      BY <1>1, <2>2, <3>1 DEF HasField, GetField
  <2> QED
    BY <2>1, <2>2
<1>6. ASSUME NEW field \in Fields
      PROVE  HasField(path, field) <=> HasSpecAndField(path, field)
  BY <1>3 DEF HasSpecAndField, HasField, HasSpec, StoredFields
<1>7. ASSUME NEW field \in Fields, VisitSpecs # {Root}
      PROVE  HasField(path, field) <=> field \in ListFields(path)
  <2>1. CASE path = Root
    <3>1. path \notin AttrPaths /\ path \notin overPaths
      BY <1>1, <2>1
    <3>2. "primChildren" \in StoredFields(Root) \/ <<>> \in DOMAIN childrenMap
      BY <1>7, RootHasChildren
    <3> QED
      BY <2>1, <3>1, <3>2 DEF HasField, ListFields, IsLazyValueField
  <2>2. CASE path \in AttrPaths
    <3>1. StoredFields(path) = {}
      BY <1>1, <2>2 DEF StoredFields
    <3> QED
      BY <1>1, <2>2, <3>1 DEF HasField, ListFields
  <2>3. CASE path # Root /\ path \notin AttrPaths
    BY <2>3 DEF HasField, ListFields, IsLazyValueField
  <2> QED
    BY <2>1, <2>2, <2>3
<1> QED
  BY <1>2, <1>3, <1>4, <1>5, <1>6, <1>7

\* The children that the layer gives for a parent include all that it shows.
LEMMA ChildIsListed ==
  ASSUME TypeOK, SpecsInv, NEW n \in StructurePrims, n # <<>>, published \/ n \in ShownPrims
  PROVE  Last(n) \in GetField(PrimPath(Front(n)), "primChildren")
<1> DEFINE parent == PrimPath(Front(n))
<1>1. /\ parent.prop = NoProperty /\ parent.prim = Front(n)
      /\ parent = Root <=> Front(n) = <<>>
  BY DEF PrimPath, Root
<1>2. parent \notin AttrPaths
  <2>1. \A path \in AttrPaths : path.prop \in Attributes
    BY Kinds DEF TypeOK
  <2> QED
    BY <1>1, <2>1, ConstantsAssumption
<1>3. CASE published
  <2>1. PICK h \in Homes : n \in GetPrefixes(h)
    BY DEF StructurePrims
  <2>2. h \in Seq(PrimNames)
    <3>1. PICK a \in Attributes : h = mount \o HomeOf[a]
      BY DEF Homes
    <3> QED
      BY <3>1, PathOfAttribute DEF PathOf, TypeOK
  <2>3. Front(n) \in StructurePrims
    BY <2>1, <2>2, PrefixFacts DEF StructurePrims
  <2>4. Last(n) \in Names(Front(n), StructurePrims)
    BY DEF Names
  <2>5. /\ "primChildren" \in DOMAIN StructureFields(Front(n))
        /\ StructureFields(Front(n))["primChildren"] = Names(Front(n), StructurePrims)
    BY <2>4 DEF StructureFields
  <2>6. /\ parent \in DOMAIN stored
        /\ "primChildren" \in DOMAIN stored[parent].fields
        /\ stored[parent].fields["primChildren"] = Names(Front(n), StructurePrims)
    BY <1>3, <2>3, <2>5, StoredPaths, StoredPrim
  <2>7. GetField(parent, "primChildren") = stored[parent].fields["primChildren"]
    BY <2>6 DEF GetField, IsLazyValueField, StoredFields
  <2> QED
    BY <2>4, <2>6, <2>7
<1>4. CASE ~published
  <2>1. n \in ShownPrims /\ StoredFields(parent) = {}
    BY <1>4, StoredPaths DEF StoredFields
  <2>2. /\ Front(n) \in DOMAIN childrenMap
        /\ Last(n) \in ChildrenOf(Front(n))
    BY <2>1 DEF SpecsInv, ChildrenOf, Names
  <2>3. CASE Front(n) = <<>>
    <3>1. parent = Root /\ parent \notin overPaths
      BY <1>1, <2>3, Kinds
    <3> QED
      BY <1>2, <2>1, <2>2, <2>3, <3>1 DEF GetField
  <2>4. CASE Front(n) # <<>>
    <3>1. Front(n) \in ShownPrims
      BY <2>1, <2>4, Shown
    <3>2. parent \in overPaths /\ parent # Root
      BY <1>1, <2>4, <3>1 DEF SpecsInv
    <3> QED
      BY <1>1, <1>2, <2>1, <2>2, <3>2 DEF GetField
  <2> QED
    BY <2>3, <2>4
<1> QED
  BY <1>3, <1>4

\* A field of a prim of the structure is what is stored.
LEMMA StoredAnswers ==
  ASSUME TypeOK, SpecsInv, published, NEW n \in StructurePrims,
         NEW field \in DOMAIN stored[PrimPath(n)].fields
  PROVE  GetField(PrimPath(n), field) = stored[PrimPath(n)].fields[field]
<1>1. PrimPath(n) \in DOMAIN stored
  BY StoredPaths
<1>2. PrimPath(n) \notin AttrPaths
  BY <1>1, Kinds
<1> QED
  BY <1>1, <1>2 DEF GetField, IsLazyValueField, StoredFields

\* The specs are a tree: every prim is listed by its parent.
LEMMA InvTree == TypeOK /\ SpecsInv => TreeIsWhole
<1> SUFFICES ASSUME TypeOK, SpecsInv
             PROVE  TreeIsWhole
  OBVIOUS
<1>1. ASSUME NEW path \in VisitSpecs
      PROVE  IF path.prop = NoProperty
             THEN path # Root =>
                    Last(path.prim) \in GetField(PrimPath(Front(path.prim)), "primChildren")
             ELSE PrimPath(path.prim) \in VisitSpecs
  <2>1. ASSUME NEW n, path = PrimPath(n), n \in StructurePrims, published \/ n \in ShownPrims
        PROVE  /\ path.prop = NoProperty
               /\ path # Root => Last(path.prim) \in GetField(PrimPath(Front(path.prim)), "primChildren")
    <3>1. path.prop = NoProperty /\ path.prim = n /\ (path = Root <=> n = <<>>)
      BY <2>1 DEF PrimPath, Root
    <3> QED
      BY <2>1, <3>1, ChildIsListed
  <2>2. CASE path = Root
    BY <2>2 DEF Root, PrimPath
  <2>3. CASE path \in overPaths
    <3>1. PICK n \in ShownPrims : path = PrimPath(n)
      BY <2>3 DEF SpecsInv
    <3> QED
      BY <2>1, <3>1, Shown
  <2>4. CASE path \in AttrPaths
    <3>1. PICK a \in attrInfos : path = PathOf(a)
      BY <2>4 DEF AttrPaths
    <3>2. /\ path.prop # NoProperty
          /\ path.prim \in GetPrefixes(path.prim)
      BY <3>1, PathOfAttribute, PrefixesOf DEF TypeOK
    <3>3. PrimPath(path.prim) \in overPaths
      BY <3>1, <3>2 DEF SpecsInv, ShownPrims
    <3> QED
      BY <3>2, <3>3 DEF VisitSpecs
  <2>5. CASE path \in DOMAIN stored
    <3>1. published
      BY <2>5, StoredPaths
    <3>2. ASSUME NEW n \in StructurePrims, path = PrimPath(n)
          PROVE  IF path.prop = NoProperty
                 THEN path # Root =>
                        Last(path.prim) \in GetField(PrimPath(Front(path.prim)), "primChildren")
                 ELSE PrimPath(path.prim) \in VisitSpecs
      BY <2>1, <3>1, <3>2
    <3>3. ASSUME NEW h \in Homes, path = [prim |-> h, prop |-> Metadata]
          PROVE  path.prop # NoProperty /\ PrimPath(path.prim) \in VisitSpecs
      <4>1. PICK a \in Attributes : h = mount \o HomeOf[a]
        BY DEF Homes
      <4>2. h \in GetPrefixes(h)
        BY <4>1, PathOfAttribute, PrefixesOf DEF PathOf, TypeOK
      <4>3. PrimPath(h) \in DOMAIN stored
        BY <3>1, <4>2, StoredPaths DEF StructurePrims
      <4>4. path.prop # NoProperty /\ path.prim = h
        BY <3>3, ConstantsAssumption
      <4> QED
        BY <4>3, <4>4 DEF VisitSpecs
    <3> QED
      BY <2>5, <3>1, <3>2, <3>3, StoredPaths
  <2> QED
    BY <2>2, <2>3, <2>4, <2>5 DEF VisitSpecs
<1>2. ASSUME published
      PROVE  /\ GetField(Root, "defaultPrim") \in GetField(Root, "primChildren")
             /\ GetField(PrimPath(mount), "specifier") = "def"
             /\ \A n \in GetPrefixes(Front(mount)) : GetField(PrimPath(n), "specifier") = "over"
  <2>1. PICK a \in Attributes : TRUE
    BY ConstantsAssumption
  <2>2. /\ mount \in Seq(PrimNames) /\ mount # <<>>
        /\ GetPrefixes(mount) \subseteq StructurePrims
    BY PathOfAttribute DEF TypeOK, StructurePrims
  <2>3. GetPrefixes(Front(mount)) \subseteq GetPrefixes(mount) \ {mount} /\ mount \in GetPrefixes(mount)
    BY <2>2, PrefixesOf
  <2>4. ASSUME NEW n \in GetPrefixes(mount)
        PROVE  GetField(PrimPath(n), "specifier") =
                 IF n \in GetPrefixes(Front(mount)) THEN "over" ELSE "def"
    <3>1. n # <<>> /\ n \in StructurePrims
      BY <2>2, PrefixFacts
    <3>2. "specifier" \in DOMAIN StructureFields(n) /\ StructureFields(n)["specifier"] = "def"
      BY <3>1 DEF StructureFields
    <3>3. /\ "specifier" \in DOMAIN stored[PrimPath(n)].fields
          /\ stored[PrimPath(n)].fields["specifier"] =
               IF n \in GetPrefixes(Front(mount)) THEN "over" ELSE "def"
      BY <1>2, <3>1, <3>2, StoredPrim
    <3> QED
      BY <1>2, <3>1, <3>3, StoredAnswers
  <2>5. GetField(Root, "defaultPrim") = Head(mount)
    <3>1. <<>> \in StructurePrims
      BY DEF StructurePrims
    <3>2. /\ "defaultPrim" \in DOMAIN stored[PrimPath(<<>>)].fields
          /\ stored[PrimPath(<<>>)].fields["defaultPrim"] = Head(mount)
      BY <1>2, <3>1, StoredPrim
    <3> QED
      BY <1>2, <3>1, <3>2, StoredAnswers DEF Root
  <2>6. Head(mount) \in GetField(Root, "primChildren")
    <3>1. PICK n \in GetPrefixes(mount) : Front(n) = <<>> /\ Last(n) = Head(mount)
      BY <2>2, PrefixesOf
    <3>2. n # <<>> /\ n \in StructurePrims
      BY <2>2, PrefixFacts
    <3> QED
      BY <1>2, <3>1, <3>2, ChildIsListed DEF Root
  <2> QED
    BY <2>3, <2>4, <2>5, <2>6
<1> QED
  BY <1>1, <1>2 DEF TreeIsWhole

\* The times of the samples of an attribute, and of the layer.
LEMMA InvBrackets == TypeOK /\ SpecsInv => BracketsAreSamples /\ LayerBracketsAreSamples
<1> SUFFICES ASSUME TypeOK, SpecsInv
             PROVE  BracketsAreSamples /\ LayerBracketsAreSamples
  OBVIOUS
<1>1. Times \subseteq Nat
  BY ConstantsAssumption
<1>2. ASSUME NEW a \in attrInfos, NEW s \in Times
      PROVE  LET list == lazyTimeSamples[CanonicalPath[a]]
             IN /\ Len(list) > 0 =>
                     /\ BracketingTimes(list, s) = BracketReference(TimesOf(list), s)
                     /\ \A i \in 1..2 :
                          FindTimeSample(list, BracketingTimes(list, s)[i]) # NoLoader
                /\ QueryTimeSampleTypeid(a, s) = "registered"
                     <=> s \in TimesOf(list)
  <2> DEFINE list == lazyTimeSamples[CanonicalPath[a]]
  <2>1. list \in Seq(Sample) /\ list # Unregistered /\ TimeSamplesAreSorted(list)
    <3>1. CanonicalPath[a] \in Paths
      BY ConstantsAssumption DEF TypeOK
    <3> QED
      BY <3>1 DEF TypeOK, SpecsInv
  <2>2. QueryTimeSampleTypeid(a, s) = "registered" <=> FindTimeSample(list, s) # NoLoader
    BY <2>1 DEF QueryTimeSampleTypeid, GetFieldTypeid
  <2> HIDE DEF list
  <2>3. s \in Nat /\ TimesOf(list) \subseteq Nat
    BY <1>1, <2>1, TimesOfList
  <2>4. FindTimeSample(list, s) # NoLoader <=> s \in TimesOf(list)
    BY <2>1, <2>3, FoundIff
  <2>5. ASSUME Len(list) > 0
        PROVE  /\ BracketingTimes(list, s) = BracketReference(TimesOf(list), s)
               /\ \A i \in 1..2 :
                    FindTimeSample(list, BracketingTimes(list, s)[i]) # NoLoader
    <3>1. /\ BracketingTimes(list, s) = BracketReference(TimesOf(list), s)
          /\ \A i \in 1..2 : BracketingTimes(list, s)[i] \in TimesOf(list)
      BY <2>1, <2>3, <2>5, BracketsOfList
    <3> QED
      BY <2>1, <2>3, <3>1, FoundIff
  <2> QED
    BY <2>2, <2>4, <2>5 DEF list
<1>3. ASSUME NEW s \in Times, ListAllTimeSamples # {}
      PROVE  LayerBracketingTimes(s) = BracketReference(ListAllTimeSamples, s)
  <2>1. ListAllTimeSamples \subseteq Nat
    <3>1. ASSUME NEW p \in Paths, lazyTimeSamples[p] # Unregistered
          PROVE  TimesOf(lazyTimeSamples[p]) \subseteq Nat
      BY <3>1, TimesOfList DEF TypeOK
    <3> QED
      BY <3>1 DEF ListAllTimeSamples
  <2> QED
    BY <1>1, <1>3, <2>1, BracketsOfLayer
<1> QED
  BY <1>2, <1>3 DEF BracketsAreSamples, LayerBracketsAreSamples

\* Whatever a consumer asks of the layer, while it is read or after it, for any
\* tree of prims, any lists of samples and any aliases of them: the answers
\* agree, lead from the root to every prim, and give times that have a sample.
THEOREM QueriesAgreeCorrect == Spec => []QueriesAgree
<1>1. Init => SpecsInv
  BY InitSpecs
<1>2. IInv /\ SpecsInv /\ [Next]_vars => SpecsInv'
  BY NextSpecs DEF IInv
<1>3. IInv /\ SpecsInv => QueriesAgree
  BY InvBrackets, InvSpecsAgree, InvTree DEF IInv, QueriesAgree
<1> QED
  BY <1>1, <1>2, <1>3, Invariant, PTL DEF Spec
================================================================================
