----------------------- MODULE EnSightIndexCacheProofs -----------------------
(***************************************************************************)
(* Proofs about EnSightIndexCache for every number of threads, files and   *)
(* file versions.                                                          *)
(*                                                                         *)
(* The inductive invariant says who holds what: an owner holds the entry   *)
(* of its key and a promise nobody has kept, a waiter holds the entry of   *)
(* its key or the future of a build that failed and is gone from the map,  *)
(* and what a thread brings back from either function is in the map.       *)
(***************************************************************************)
EXTENDS EnSightIndexCache, TLAPS

\* The frame owns the build of its key, up to the removal of a failed one.
Owns(c) == pc[c] \in OwnerSteps \cup {"erase"}

\* A geometry index is asked for on its own, or by the build of a variable
\* index that waits for that very geometry.
NestedCalls ==
  \A t \in Threads :
    pc[<<t, "geo">>] # "idle" =>
      \/ pc[<<t, "var">>] = "idle"
      \/ /\ pc[<<t, "var">>] = "geometry"
         /\ key[<<t, "geo">>] = GeoOf[key[<<t, "var">>]]

\* The entry of a key stays its owner's until the owner lets it go.
OwnersHoldTheirEntry ==
  \A c \in Frames : Owns(c) => cache[key[c]] = ref[c]

\* What a shared state holds when its build has failed.
Failure == [done |-> TRUE, index |-> Failed]

\* An owner keeps its promise once; only a failed build is taken out again.
PromisesAreKeptOnce ==
  \A c \in Frames :
    /\ pc[c] \in OwnerSteps => future[ref[c]] = Pending
    /\ pc[c] = "erase" => future[ref[c]] = Failure
    /\ pc[c] = "set_value" => index[c].ok

\* A shared state nobody refers to is fresh when it is used again.
UnusedArePending ==
  \A f \in Futures :
    (\A c \in Frames : ref[c] # f) /\ (\A k \in Keys : cache[k] # f)
      => future[f] = Pending

OneKeyPerFuture ==
  \A k, l \in Keys : cache[k] # NoFuture /\ cache[k] = cache[l] => k = l

\* A waiter's future is the entry of its key, or that of a build that failed.
WaitersHoldTheirEntry ==
  \A c \in Frames : pc[c] = "get" =>
    \/ cache[key[c]] = ref[c]
    \/ /\ future[ref[c]] = Failure
       /\ \A k \in Keys : cache[k] # ref[c]

\* An index that a call brings back is the one in the map.
ResultIsCached(c) ==
  /\ pc[c] = "returned" /\ index[c].ok =>
       IsBuilt(key[c]) /\ future[cache[key[c]]].index = index[c]
  /\ pc[c] = "erase" => ~index[c].ok

\* A variable index is built with the geometry index in the map.
BuildUsesCachedGeometry(c) ==
  c[2] = "var" /\ pc[c] \in {"build", "set_value"} =>
    /\ IsBuilt(GeoOf[key[c]])
    /\ index[c].geo = future[cache[GeoOf[key[c]]]].index.own

EntryInv ==
  /\ NestedCalls
  /\ OwnersHoldTheirEntry
  /\ PromisesAreKeptOnce
  /\ UnusedArePending
  /\ OneOwnerPerKey
  /\ UnbuiltHasOwner
  /\ OneKeyPerFuture
  /\ WaitersHoldTheirEntry

IndexInv ==
  /\ \A c \in Frames : ResultIsCached(c) /\ BuildUsesCachedGeometry(c)
  /\ VariableMatchesGeometry

-----------------------------------------------------------------------------
(* Types.                                                                  *)

\* The caches start empty.
LEMMA InitTypeOK == Init => TypeOK
  BY ConstantsAssumption
  DEF Init, TypeOK, Version, Index, Failed, Pending, Future, PCs, HolderSteps,
      OwnerSteps

\* The frames of the actions.
LEMMA FrameOf ==
  ASSUME NEW t \in Threads, NEW layer \in Layers
  PROVE  <<t, layer>> \in Frames
  BY DEF Frames

\* Every step of a call and every rewrite of a file keeps the types.
LEMMA NextTypeOK == TypeOK /\ [Next]_vars => TypeOK'
<1> SUFFICES ASSUME TypeOK, [Next]_vars
             PROVE  TypeOK'
  OBVIOUS
<1> USE ConstantsAssumption DEF Goto
<1>a. Failed \in Index /\ Pending \in Future
  BY DEF Failed, Index, Pending, Future, Version
<1>1. ASSUME NEW t \in Threads, NEW layer \in Layers, NEW k \in KeysOf(layer),
             Call(t, layer, k)
      PROVE  TypeOK'
  <2>1. <<t, layer>> \in Frames /\ <<t, layer>>[2] = layer /\ k \in Keys
    BY FrameOf DEF KeysOf, Keys
  <2>2. pc[<<t, layer>>] = "idle"
    BY <1>1 DEF Call, Layers
  <2> QED
    BY <1>1, <2>1, <2>2 DEF Call, TypeOK, PCs, HolderSteps, OwnerSteps
<1>2. ASSUME NEW c \in Frames, Find(c)
      PROVE  TypeOK'
  BY <1>2 DEF Find, TypeOK, PCs, HolderSteps, OwnerSteps, KeysOf, Keys
<1>3. ASSUME NEW c \in Frames, Insert(c)
      PROVE  TypeOK'
  BY <1>3 DEF Insert, FreeFutures, FirstBuildStep, TypeOK, PCs, HolderSteps,
     OwnerSteps, KeysOf, Keys
<1>4. ASSUME NEW t \in Threads, AskGeometry(t)
      PROVE  TypeOK'
  BY <1>4, FrameOf DEF AskGeometry, TypeOK, PCs, HolderSteps, OwnerSteps,
     KeysOf, Keys, Layers
<1>5. ASSUME NEW t \in Threads, GeometryReturned(t)
      PROVE  TypeOK'
  <2> DEFINE g == <<t, "geo">>
             v == <<t, "var">>
  <2>1. g \in Frames /\ v \in Frames /\ g # v
    BY FrameOf DEF Layers
  <2>2. index[g] \in Index /\ index[v] \in Index
    BY <2>1 DEF TypeOK
  <2>3. [index[v] EXCEPT !.geo = index[g].own] \in Index
    BY <2>2 DEF Index
  <2>4. index' = [index EXCEPT ![g] = Failed,
                               ![v] = [index[v] EXCEPT !.geo = index[g].own]]
    BY <1>5, <2>1 DEF GeometryReturned, TypeOK
  <2> HIDE DEF g, v
  <2>5. index' \in [Frames -> Index]
    BY <1>a, <2>1, <2>3, <2>4 DEF TypeOK
  <2> QED
    BY <1>5, <2>1, <2>5 DEF GeometryReturned, TypeOK, PCs, HolderSteps,
       OwnerSteps, g, v
<1>6. ASSUME NEW c \in Frames, Build(c)
      PROVE  TypeOK'
  <2>1. index[c] \in Index /\ file[key[c]] \in Version
    BY <1>6 DEF Build, TypeOK, KeysOf, Keys
  <2>2. [ok |-> TRUE, own |-> file[key[c]], geo |-> index[c].geo] \in Index
    BY <2>1 DEF Index
  <2> QED
    <3>1. index' \in [Frames -> Index]
      BY <1>6, <2>2 DEF Build, TypeOK
    <3>2. \E s \in {"set_value", "set_exception"} : pc' = [pc EXCEPT ![c] = s]
      BY <1>6 DEF Build
    <3> QED
      BY <1>6, <3>1, <3>2 DEF Build, TypeOK, PCs, HolderSteps, OwnerSteps
<1>7. ASSUME NEW c \in Frames, SetValue(c)
      PROVE  TypeOK'
  BY <1>7 DEF SetValue, TypeOK, PCs, HolderSteps, OwnerSteps, Future
<1>8. ASSUME NEW c \in Frames, SetException(c)
      PROVE  TypeOK'
  BY <1>8, <1>a DEF SetException, TypeOK, PCs, HolderSteps, OwnerSteps, Future
<1>9. ASSUME NEW c \in Frames, Get(c)
      PROVE  TypeOK'
  <2>1. ref[c] \in Futures
    BY <1>9 DEF Get, TypeOK, HolderSteps
  <2>2. future[ref[c]].index \in Index
    <3>1. future[ref[c]] \in Future /\ future[ref[c]] # Pending
      BY <1>9, <2>1 DEF Get, TypeOK, Pending
    <3> QED
      BY <3>1 DEF Future
  <2>3. future' \in [Futures -> Future]
    BY <1>9, <1>a DEF Get, Released, TypeOK
  <2> QED
    BY <1>9, <2>2, <2>3 DEF Get, TypeOK, PCs, HolderSteps, OwnerSteps
<1>10. ASSUME NEW c \in Frames, Erase(c)
      PROVE  TypeOK'
  BY <1>10, <1>a DEF Erase, Released, TypeOK, PCs, HolderSteps, OwnerSteps,
     KeysOf, Keys
<1>11. ASSUME NEW t \in Threads, NEW layer \in Layers, Return(t, layer)
      PROVE  TypeOK'
  BY <1>11, <1>a, FrameOf DEF Return, TypeOK, PCs, HolderSteps, OwnerSteps,
     Layers
<1>12. ASSUME NEW k \in Keys, Write(k)
      PROVE  TypeOK'
  BY <1>12 DEF Write, TypeOK, Version
<1>13. CASE UNCHANGED vars
  BY <1>13 DEF vars, TypeOK
<1> QED
  BY <1>1, <1>2, <1>3, <1>4, <1>5, <1>6, <1>7, <1>8, <1>9, <1>10, <1>11, <1>12,
     <1>13, FrameOf
  DEF Next, Step

-----------------------------------------------------------------------------
(* Who holds what.                                                         *)

\* Empty caches satisfy the invariant of the entries.
LEMMA InitEntryInv == Init => EntryInv
<1> SUFFICES ASSUME Init
             PROVE  EntryInv
  OBVIOUS
<1>1. /\ \A c \in Frames : pc[c] = "idle"
      /\ \A k \in Keys : cache[k] = NoFuture
      /\ \A f \in Futures : future[f] = Pending
  BY DEF Init
<1>2. NestedCalls
  BY <1>1 DEF NestedCalls, Frames, Layers
<1>3. OwnersHoldTheirEntry /\ PromisesAreKeptOnce /\ OneOwnerPerKey /\ WaitersHoldTheirEntry
  BY <1>1 DEF OwnersHoldTheirEntry, PromisesAreKeptOnce, OneOwnerPerKey,
     WaitersHoldTheirEntry, Owns, OwnerSteps
<1>4. UnusedArePending /\ UnbuiltHasOwner /\ OneKeyPerFuture
  BY <1>1 DEF UnusedArePending, UnbuiltHasOwner, OneKeyPerFuture
<1> QED
  BY <1>2, <1>3, <1>4 DEF EntryInv

\* A kept promise is not an open one.
LEMMA FailureNotPending == Failure # Pending /\ Failure.done /\ ~Pending.done
  BY DEF Failure, Pending

\* Every step of a thread keeps the invariant of the entries: an entry that is not
\* built has one owner, who will keep its promise and holds it until then.
LEMMA NextEntryInv == TypeOK /\ TypeOK' /\ EntryInv /\ [Next]_vars => EntryInv'
<1> SUFFICES ASSUME TypeOK, TypeOK', EntryInv, [Next]_vars
             PROVE  EntryInv'
  OBVIOUS
<1> USE ConstantsAssumption DEF Goto, EntryInv
<1>1. ASSUME NEW t \in Threads, NEW layer \in Layers, NEW k \in KeysOf(layer),
             Call(t, layer, k)
      PROVE  EntryInv'
  <2>1. NestedCalls'
    BY <1>1 DEF Call, NestedCalls, HolderSteps
  <2>2. OwnersHoldTheirEntry'
    BY <1>1 DEF Call, OwnersHoldTheirEntry, TypeOK, OwnerSteps, Owns
  <2>3. PromisesAreKeptOnce'
    BY <1>1 DEF Call, PromisesAreKeptOnce, OwnerSteps
  <2>4. UnusedArePending'
    BY <1>1 DEF Call, UnusedArePending
  <2>5. OneOwnerPerKey'
    BY <1>1 DEF Call, OneOwnerPerKey, TypeOK, OwnerSteps
  <2>6. UnbuiltHasOwner'
    BY <1>1 DEF Call, UnbuiltHasOwner, TypeOK, HolderSteps, OwnerSteps, IsBuilt
  <2>7. OneKeyPerFuture'
    BY <1>1 DEF Call, OneKeyPerFuture
  <2>8. WaitersHoldTheirEntry'
    BY <1>1 DEF Call, WaitersHoldTheirEntry, TypeOK
  <2> QED
    BY <2>1, <2>2, <2>3, <2>4, <2>5, <2>6, <2>7, <2>8
<1>2. ASSUME NEW c \in Frames, Find(c)
      PROVE  EntryInv'
  <2>1. NestedCalls'
    BY <1>2 DEF Find, NestedCalls, TypeOK, Layers, Frames
  <2>2. OwnersHoldTheirEntry'
    BY <1>2 DEF Find, OwnersHoldTheirEntry, TypeOK, HolderSteps, Owns
  <2>3. PromisesAreKeptOnce'
    BY <1>2 DEF Find, PromisesAreKeptOnce, TypeOK, OwnerSteps
  <2>4. UnusedArePending'
    BY <1>2 DEF Find, UnusedArePending, TypeOK, HolderSteps, OwnerSteps
  <2>5. OneOwnerPerKey'
    BY <1>2 DEF Find, OneOwnerPerKey, TypeOK, OwnerSteps
  <2>6. UnbuiltHasOwner'
    BY <1>2 DEF Find, UnbuiltHasOwner, TypeOK, OwnerSteps, IsBuilt
  <2>7. OneKeyPerFuture'
    BY <1>2 DEF Find, OneKeyPerFuture
  <2>8. WaitersHoldTheirEntry'
    BY <1>2 DEF Find, WaitersHoldTheirEntry, TypeOK
  <2> QED
    BY <2>1, <2>2, <2>3, <2>4, <2>5, <2>6, <2>7, <2>8
<1>3. ASSUME NEW c \in Frames, Insert(c)
      PROVE  EntryInv'
  <2>a. key[c] \in Keys /\ ref[c] = NoFuture /\ pc[c] = "insert"
    BY <1>3 DEF Insert, TypeOK, KeysOf, Keys, HolderSteps, OwnerSteps
  <2>b. ASSUME cache[key[c]] # NoFuture
        PROVE  OwnersHoldTheirEntry' /\ WaitersHoldTheirEntry'
    <3>1. /\ ref' = [ref EXCEPT ![c] = cache[key[c]]] /\ pc' = [pc EXCEPT ![c] = "get"]
          /\ UNCHANGED <<file, cache, future, key, index>>
      BY <1>3, <2>b DEF Insert
    <3>2. OwnersHoldTheirEntry' /\ WaitersHoldTheirEntry'
      BY <3>1 DEF OwnersHoldTheirEntry, WaitersHoldTheirEntry, Owns, TypeOK
    <3> QED
      BY <3>2
  <2>c. ASSUME cache[key[c]] = NoFuture
        PROVE  OwnersHoldTheirEntry' /\ WaitersHoldTheirEntry'
    <3>1. PICK f \in FreeFutures :
            cache' = [cache EXCEPT ![key[c]] = f] /\ ref' = [ref EXCEPT ![c] = f]
      BY <1>3, <2>c DEF Insert
    <3>2. /\ pc'[c] \in OwnerSteps
          /\ \A d \in Frames \ {c} : pc'[d] = pc[d]
          /\ UNCHANGED <<future, key>>
      BY <1>3, <2>c DEF Insert, FirstBuildStep, OwnerSteps, TypeOK
    <3>3. \A d \in Frames \ {c} : pc[d] \in HolderSteps => ref[d] # NoFuture
      BY DEF TypeOK
    <3>4. OwnersHoldTheirEntry'
      BY <3>1, <3>2, <2>c DEF OwnersHoldTheirEntry, Owns, TypeOK, HolderSteps
    <3>5. WaitersHoldTheirEntry'
      BY <3>1, <3>2, <2>c
      DEF WaitersHoldTheirEntry, TypeOK, HolderSteps, FreeFutures
    <3> QED
      BY <3>4, <3>5
  <2>1. NestedCalls'
    BY <1>3 DEF Insert, NestedCalls, TypeOK, Layers, Frames
  <2>2. OwnersHoldTheirEntry'
    BY <2>b, <2>c
  <2>3. PromisesAreKeptOnce'
    BY <1>3
    DEF Insert, FreeFutures, FirstBuildStep, PromisesAreKeptOnce, TypeOK,
        OwnerSteps, UnusedArePending
  <2>4. UnusedArePending'
    BY <1>3 DEF Insert, UnusedArePending, TypeOK, HolderSteps, OwnerSteps
  <2>5. OneOwnerPerKey'
    BY <1>3
    DEF Insert, OneOwnerPerKey, TypeOK, HolderSteps, OwnerSteps, Owns,
        OwnersHoldTheirEntry
  <2>6. UnbuiltHasOwner'
    BY <1>3
    DEF Insert, FirstBuildStep, UnbuiltHasOwner, TypeOK, OwnerSteps, IsBuilt
  <2>7. OneKeyPerFuture'
    BY <1>3 DEF Insert, FreeFutures, OneKeyPerFuture, TypeOK
  <2>8. WaitersHoldTheirEntry'
    BY <2>b, <2>c
  <2> QED
    BY <2>1, <2>2, <2>3, <2>4, <2>5, <2>6, <2>7, <2>8
<1>4. ASSUME NEW t \in Threads, AskGeometry(t)
      PROVE  EntryInv'
  <2>1. NestedCalls'
    BY <1>4 DEF AskGeometry, NestedCalls, TypeOK
  <2>2. OwnersHoldTheirEntry'
    BY <1>4 DEF AskGeometry, OwnersHoldTheirEntry, OwnerSteps, Owns
  <2>3. PromisesAreKeptOnce'
    BY <1>4 DEF AskGeometry, PromisesAreKeptOnce, TypeOK, HolderSteps
  <2>4. UnusedArePending'
    BY <1>4 DEF AskGeometry, UnusedArePending
  <2>5. OneOwnerPerKey'
    BY <1>4 DEF AskGeometry, OneOwnerPerKey, OwnerSteps
  <2>6. UnbuiltHasOwner'
    BY <1>4 DEF AskGeometry, UnbuiltHasOwner, TypeOK, IsBuilt
  <2>7. OneKeyPerFuture'
    BY <1>4 DEF AskGeometry, OneKeyPerFuture
  <2>8. WaitersHoldTheirEntry'
    BY <1>4 DEF AskGeometry, WaitersHoldTheirEntry
  <2> QED
    BY <2>1, <2>2, <2>3, <2>4, <2>5, <2>6, <2>7, <2>8
<1>5. ASSUME NEW t \in Threads, GeometryReturned(t)
      PROVE  EntryInv'
  <2> DEFINE g == <<t, "geo">>
             v == <<t, "var">>
  <2>a. /\ g \in Frames /\ v \in Frames /\ g # v
        /\ pc[g] = "returned" /\ pc[v] = "geometry"
        /\ UNCHANGED <<file, cache, future, ref>>
    BY <1>5, FrameOf DEF GeometryReturned, Layers
  <2>b. /\ pc'[g] = "idle" /\ pc'[v] \in {"build", "set_exception"}
        /\ \A d \in Frames \ {g, v} : pc'[d] = pc[d] /\ index'[d] = index[d]
        /\ \A d \in Frames \ {g} : key'[d] = key[d]
    BY <1>5 DEF GeometryReturned, TypeOK
  <2> HIDE DEF g, v
  <2>1. NestedCalls'
    BY <1>5 DEF GeometryReturned, NestedCalls, TypeOK, Layers, Frames
  <2>2. OwnersHoldTheirEntry'
    BY <2>a, <2>b DEF OwnersHoldTheirEntry, OwnerSteps, Owns
  <2>3. PromisesAreKeptOnce'
    BY <2>a, <2>b DEF PromisesAreKeptOnce, TypeOK, HolderSteps
  <2>4. UnusedArePending'
    BY <1>5 DEF GeometryReturned, UnusedArePending
  <2>5. OneOwnerPerKey'
    BY <2>a, <2>b DEF OneOwnerPerKey, OwnerSteps
  <2>6. UnbuiltHasOwner'
    BY <1>5 DEF GeometryReturned, UnbuiltHasOwner, TypeOK, OwnerSteps, IsBuilt
  <2>7. OneKeyPerFuture'
    BY <1>5 DEF GeometryReturned, OneKeyPerFuture
  <2>8. WaitersHoldTheirEntry'
    BY <2>a, <2>b DEF WaitersHoldTheirEntry
  <2> QED
    BY <2>1, <2>2, <2>3, <2>4, <2>5, <2>6, <2>7, <2>8
<1>6. ASSUME NEW c \in Frames, Build(c)
      PROVE  EntryInv'
  <2>1. NestedCalls'
    BY <1>6 DEF Build, NestedCalls, TypeOK, Layers, Frames
  <2>2. OwnersHoldTheirEntry'
    BY <1>6 DEF Build, OwnersHoldTheirEntry, TypeOK, HolderSteps, Owns
  <2>3. PromisesAreKeptOnce'
    BY <1>6 DEF Build, PromisesAreKeptOnce, TypeOK, HolderSteps
  <2>4. UnusedArePending'
    BY <1>6 DEF Build, UnusedArePending
  <2>5. OneOwnerPerKey'
    BY <1>6 DEF Build, OneOwnerPerKey, TypeOK, HolderSteps
  <2>6. UnbuiltHasOwner'
    BY <1>6 DEF Build, UnbuiltHasOwner, TypeOK, HolderSteps, IsBuilt
  <2>7. OneKeyPerFuture'
    BY <1>6 DEF Build, OneKeyPerFuture
  <2>8. WaitersHoldTheirEntry'
    BY <1>6 DEF Build, WaitersHoldTheirEntry, TypeOK
  <2> QED
    BY <2>1, <2>2, <2>3, <2>4, <2>5, <2>6, <2>7, <2>8
<1>7. ASSUME NEW c \in Frames, SetValue(c)
      PROVE  EntryInv'
  <2>a. /\ ref[c] \in Futures /\ key[c] \in Keys /\ cache[key[c]] = ref[c]
        /\ future[ref[c]] = Pending /\ index[c].ok
    BY <1>7
    DEF SetValue, TypeOK, KeysOf, Keys, OwnersHoldTheirEntry, Owns,
        PromisesAreKeptOnce, OwnerSteps
  <2>b. \A d \in Frames \ {c} : Owns(d) => ref[d] # ref[c]
    BY <1>7
    DEF SetValue, TypeOK, KeysOf, Keys, OwnersHoldTheirEntry, Owns,
        OneOwnerPerKey, OneKeyPerFuture, OwnerSteps
  <2>c. /\ future'[ref[c]].done /\ future'[ref[c]].index = index[c]
        /\ \A f \in Futures \ {ref[c]} : future'[f] = future[f]
        /\ pc'[c] = "returned"
        /\ \A d \in Frames \ {c} : pc'[d] = pc[d] /\ ref'[d] = ref[d]
        /\ ref'[c] = NoFuture
        /\ UNCHANGED <<cache, key, index>>
    BY <1>7 DEF SetValue, TypeOK
  <2>1. NestedCalls'
    BY <1>7 DEF SetValue, NestedCalls
  <2>2. OwnersHoldTheirEntry'
    BY <1>7 DEF SetValue, OwnersHoldTheirEntry, TypeOK, HolderSteps, Owns
  <2>3. PromisesAreKeptOnce'
    BY <2>a, <2>b, <2>c DEF PromisesAreKeptOnce, TypeOK, HolderSteps, Owns
  <2>4. UnusedArePending'
    BY <2>a, <2>c DEF UnusedArePending
  <2>5. OneOwnerPerKey'
    BY <1>7 DEF SetValue, OneOwnerPerKey, TypeOK, HolderSteps
  <2>6. UnbuiltHasOwner'
    BY <2>a, <2>c DEF UnbuiltHasOwner, TypeOK, IsBuilt
  <2>7. OneKeyPerFuture'
    BY <1>7 DEF SetValue, OneKeyPerFuture
  <2>8. WaitersHoldTheirEntry'
    BY <1>7, FailureNotPending
    DEF SetValue, WaitersHoldTheirEntry, TypeOK, HolderSteps,
        PromisesAreKeptOnce
  <2> QED
    BY <2>1, <2>2, <2>3, <2>4, <2>5, <2>6, <2>7, <2>8
<1>8. ASSUME NEW c \in Frames, SetException(c)
      PROVE  EntryInv'
  <2>a. /\ ref[c] \in Futures /\ key[c] \in Keys /\ cache[key[c]] = ref[c]
        /\ future[ref[c]] = Pending
    BY <1>8
    DEF SetException, TypeOK, KeysOf, Keys, OwnersHoldTheirEntry, Owns,
        PromisesAreKeptOnce, OwnerSteps
  <2>b. \A d \in Frames \ {c} : Owns(d) => ref[d] # ref[c]
    BY <1>8
    DEF SetException, TypeOK, KeysOf, Keys, OwnersHoldTheirEntry, Owns,
        OneOwnerPerKey, OneKeyPerFuture, OwnerSteps
  <2>c. /\ future' = [future EXCEPT ![ref[c]] = Failure]
        /\ pc'[c] = "erase"
        /\ \A d \in Frames \ {c} : pc'[d] = pc[d] /\ index'[d] = index[d]
        /\ UNCHANGED <<cache, key, ref>>
    BY <1>8 DEF SetException, TypeOK, Failure
  <2>1. NestedCalls'
    BY <1>8 DEF SetException, NestedCalls
  <2>2. OwnersHoldTheirEntry'
    BY <1>8 DEF SetException, OwnersHoldTheirEntry, TypeOK, HolderSteps, Owns
  <2>3. PromisesAreKeptOnce'
    BY <2>a, <2>b, <2>c DEF PromisesAreKeptOnce, TypeOK, OwnerSteps, Owns
  <2>4. UnusedArePending'
    BY <2>a, <2>c DEF UnusedArePending
  <2>5. OneOwnerPerKey'
    BY <1>8 DEF SetException, OneOwnerPerKey, TypeOK, HolderSteps
  <2>6. UnbuiltHasOwner'
    BY <2>a, <2>c, FailureNotPending DEF UnbuiltHasOwner, IsBuilt
  <2>7. OneKeyPerFuture'
    BY <1>8 DEF SetException, OneKeyPerFuture
  <2>8. WaitersHoldTheirEntry'
    BY <1>8, FailureNotPending
    DEF SetException, WaitersHoldTheirEntry, TypeOK, HolderSteps,
        PromisesAreKeptOnce
  <2> QED
    BY <2>1, <2>2, <2>3, <2>4, <2>5, <2>6, <2>7, <2>8
<1>9. ASSUME NEW c \in Frames, Get(c)
      PROVE  EntryInv'
  <2>1. NestedCalls'
    BY <1>9 DEF Get, NestedCalls
  <2>2. OwnersHoldTheirEntry'
    BY <1>9 DEF Get, OwnersHoldTheirEntry, TypeOK, HolderSteps, Owns
  <2>3. PromisesAreKeptOnce'
    BY <1>9 DEF Get, Released, PromisesAreKeptOnce, TypeOK, HolderSteps
  <2>4. UnusedArePending'
    BY <1>9 DEF Get, Released, UnusedArePending
  <2>5. OneOwnerPerKey'
    BY <1>9 DEF Get, OneOwnerPerKey, TypeOK, HolderSteps
  <2>6. UnbuiltHasOwner'
    BY <1>9 DEF Get, Released, UnbuiltHasOwner, TypeOK, OwnerSteps, IsBuilt
  <2>7. OneKeyPerFuture'
    BY <1>9 DEF Get, OneKeyPerFuture
  <2>8. WaitersHoldTheirEntry'
    BY <1>9 DEF Get, Released, WaitersHoldTheirEntry, TypeOK
  <2> QED
    BY <2>1, <2>2, <2>3, <2>4, <2>5, <2>6, <2>7, <2>8
<1>10. ASSUME NEW c \in Frames, Erase(c)
      PROVE  EntryInv'
  <2>1. NestedCalls'
    BY <1>10 DEF Erase, NestedCalls
  <2>2. OwnersHoldTheirEntry'
    BY <1>10 DEF Erase, OwnersHoldTheirEntry, TypeOK, Owns, OneOwnerPerKey
  <2>3. PromisesAreKeptOnce'
    BY <1>10 DEF Erase, Released, PromisesAreKeptOnce, TypeOK, HolderSteps
  <2>4. UnusedArePending'
    BY <1>10 DEF Erase, Released, UnusedArePending, Owns, OwnersHoldTheirEntry
  <2>5. OneOwnerPerKey'
    BY <1>10 DEF Erase, OneOwnerPerKey
  <2>6. UnbuiltHasOwner'
    BY <1>10 DEF Erase, Released, UnbuiltHasOwner, TypeOK, IsBuilt
  <2>7. OneKeyPerFuture'
    BY <1>10 DEF Erase, OneKeyPerFuture
  <2>8. WaitersHoldTheirEntry'
    BY <1>10
    DEF Erase, Released, WaitersHoldTheirEntry, TypeOK, HolderSteps,
        OwnersHoldTheirEntry, Owns, OneKeyPerFuture, PromisesAreKeptOnce
  <2> QED
    BY <2>1, <2>2, <2>3, <2>4, <2>5, <2>6, <2>7, <2>8
<1>11. ASSUME NEW t \in Threads, NEW layer \in Layers, Return(t, layer)
      PROVE  EntryInv'
  <2>1. NestedCalls'
    BY <1>11 DEF Return, NestedCalls
  <2>2. OwnersHoldTheirEntry'
    BY <1>11 DEF Return, OwnersHoldTheirEntry, OwnerSteps, Owns
  <2>3. PromisesAreKeptOnce'
    BY <1>11 DEF Return, PromisesAreKeptOnce, TypeOK, HolderSteps
  <2>4. UnusedArePending'
    BY <1>11 DEF Return, UnusedArePending
  <2>5. OneOwnerPerKey'
    BY <1>11 DEF Return, OneOwnerPerKey, OwnerSteps
  <2>6. UnbuiltHasOwner'
    BY <1>11 DEF Return, UnbuiltHasOwner, OwnerSteps, IsBuilt
  <2>7. OneKeyPerFuture'
    BY <1>11 DEF Return, OneKeyPerFuture
  <2>8. WaitersHoldTheirEntry'
    BY <1>11 DEF Return, WaitersHoldTheirEntry
  <2> QED
    BY <2>1, <2>2, <2>3, <2>4, <2>5, <2>6, <2>7, <2>8
<1>12. ASSUME NEW k \in Keys, Write(k)
      PROVE  EntryInv'
  <2>1. NestedCalls'
    BY <1>12 DEF Write, NestedCalls
  <2>2. OwnersHoldTheirEntry'
    BY <1>12 DEF Write, OwnersHoldTheirEntry, Owns
  <2>3. PromisesAreKeptOnce'
    BY <1>12 DEF Write, PromisesAreKeptOnce
  <2>4. UnusedArePending'
    BY <1>12 DEF Write, UnusedArePending
  <2>5. OneOwnerPerKey'
    BY <1>12 DEF Write, OneOwnerPerKey
  <2>6. UnbuiltHasOwner'
    BY <1>12 DEF Write, UnbuiltHasOwner, IsBuilt
  <2>7. OneKeyPerFuture'
    BY <1>12 DEF Write, OneKeyPerFuture
  <2>8. WaitersHoldTheirEntry'
    BY <1>12 DEF Write, WaitersHoldTheirEntry
  <2> QED
    BY <2>1, <2>2, <2>3, <2>4, <2>5, <2>6, <2>7, <2>8
<1>13. CASE UNCHANGED vars
  BY <1>13 DEF vars, NestedCalls, OwnersHoldTheirEntry, PromisesAreKeptOnce,
     UnusedArePending, OneOwnerPerKey, UnbuiltHasOwner, OneKeyPerFuture,
     WaitersHoldTheirEntry, Owns, IsBuilt
<1> QED
  BY <1>1, <1>2, <1>3, <1>4, <1>5, <1>6, <1>7, <1>8, <1>9, <1>10, <1>11, <1>12,
     <1>13, FrameOf
  DEF Next, Step

\* No step touches the entry of a key whose index is built, nor its future.
LEMMA BuiltStays ==
  ASSUME TypeOK, EntryInv, [Next]_vars, NEW k \in Keys, IsBuilt(k)
  PROVE  /\ cache'[k] = cache[k]
         /\ future'[cache[k]] = future[cache[k]]
         /\ IsBuilt(k)'
<1> USE DEF Goto
<1>a. cache[k] \in Futures /\ future[cache[k]].done /\ future[cache[k]].index.ok
  BY DEF IsBuilt, TypeOK
<1>b. ~Pending.done /\ ~Failure.index.ok
  BY DEF Pending, Failure, Failed
<1>1. ASSUME NEW c \in Frames, Insert(c)
      PROVE  cache'[k] = cache[k] /\ UNCHANGED future
  BY <1>1, <1>a, ConstantsAssumption DEF Insert, TypeOK
<1>2. ASSUME NEW c \in Frames, SetValue(c) \/ SetException(c)
      PROVE  UNCHANGED cache /\ future'[cache[k]] = future[cache[k]]
  <2>1. future[ref[c]] = Pending
    BY <1>2 DEF SetValue, SetException, EntryInv, PromisesAreKeptOnce, OwnerSteps
  <2>2. ref[c] # cache[k]
    BY <1>a, <1>b, <2>1
  <2> QED
    BY <1>2, <1>a, <2>2 DEF SetValue, SetException, TypeOK
<1>3. ASSUME NEW c \in Frames, Get(c)
      PROVE  UNCHANGED cache /\ future'[cache[k]] = future[cache[k]]
  BY <1>3, <1>a DEF Get, Released
<1>4. ASSUME NEW c \in Frames, Erase(c)
      PROVE  cache'[k] = cache[k] /\ future'[cache[k]] = future[cache[k]]
  <2>1. future[ref[c]] = Failure /\ cache[key[c]] = ref[c]
    BY <1>4 DEF Erase, EntryInv, PromisesAreKeptOnce, OwnersHoldTheirEntry, Owns
  <2>2. key[c] # k
    BY <1>a, <1>b, <2>1
  <2>3. cache'[k] = cache[k]
    BY <1>4, <2>2 DEF Erase, TypeOK
  <2> QED
    BY <1>4, <1>a, <2>3 DEF Erase, Released
<1>5. cache'[k] = cache[k] /\ future'[cache[k]] = future[cache[k]]
  <2>1. CASE UNCHANGED <<cache, future>>
    BY <2>1
  <2> QED
    BY <1>1, <1>2, <1>3, <1>4, <2>1, FrameOf
    DEF Next, Step, Call, Find, AskGeometry, GeometryReturned, Build, Return,
        Write, vars
<1> QED
  BY <1>5 DEF IsBuilt

\* Only the owner of a key can put an index there.
LEMMA NewlyBuilt ==
  ASSUME TypeOK, EntryInv, [Next]_vars,
         NEW k \in Keys, ~IsBuilt(k), IsBuilt(k)'
  PROVE  \E c \in Frames : SetValue(c) /\ key[c] = k
<1> USE DEF Goto
<1>a. ~Pending.done /\ ~Failure.index.ok
  BY DEF Pending, Failure, Failed
<1>1. ASSUME NEW c \in Frames, Insert(c)
      PROVE  FALSE
  <2>1. key[c] \in Keys /\ UNCHANGED future
    BY <1>1 DEF Insert, TypeOK, KeysOf, Keys
  <2>2. PICK f \in FreeFutures : cache' = [cache EXCEPT ![key[c]] = f]
    BY <1>1, <2>1 DEF Insert, IsBuilt
  <2>3. future[f] = Pending
    BY DEF FreeFutures, EntryInv, UnusedArePending
  <2> QED
    BY <1>a, <2>1, <2>2, <2>3 DEF IsBuilt, TypeOK
<1>2. ASSUME NEW c \in Frames, SetException(c)
      PROVE  FALSE
  BY <1>2, <1>a DEF SetException, IsBuilt, TypeOK, Failure
<1>3. ASSUME NEW c \in Frames, Get(c) \/ Erase(c)
      PROVE  FALSE
  BY <1>3, <1>a DEF Get, Erase, Released, IsBuilt, TypeOK
<1>4. ASSUME NEW c \in Frames, SetValue(c)
      PROVE  key[c] = k
  <2>1. cache[key[c]] = ref[c] /\ key[c] \in Keys /\ ref[c] # NoFuture
    BY <1>4, ConstantsAssumption
    DEF SetValue, EntryInv, OwnersHoldTheirEntry, Owns, OwnerSteps, HolderSteps,
        TypeOK, KeysOf, Keys
  <2>2. cache[k] = ref[c]
    BY <1>4 DEF SetValue, IsBuilt, TypeOK
  <2> QED
    BY <2>1, <2>2 DEF IsBuilt, EntryInv, OneKeyPerFuture
<1>5. ~(UNCHANGED <<cache, future>>)
  BY DEF IsBuilt
<1> QED
  BY <1>1, <1>2, <1>3, <1>4, <1>5, FrameOf
  DEF Next, Step, Call, Find, AskGeometry, GeometryReturned, Build, Return,
      Write, vars

-----------------------------------------------------------------------------
(* What the two maps hold.                                                 *)

\* Empty caches satisfy the invariant of the indexes.
LEMMA InitIndexInv == Init => IndexInv
  BY ConstantsAssumption
  DEF Init, IndexInv, ResultIsCached, BuildUsesCachedGeometry,
      VariableMatchesGeometry, IsBuilt, Keys

\* Whoever brings an index back, or builds with a geometry, took it from the
\* map, where it stays.
LEMMA NextIndexInv ==
  ASSUME TypeOK, TypeOK', EntryInv, EntryInv', IndexInv, [Next]_vars
  PROVE  IndexInv'
<1> USE ConstantsAssumption DEF Goto
\* What a frame relies on stays in the map.
<1>a. ASSUME NEW c \in Frames, UNCHANGED <<pc[c], key[c], index[c]>>
      PROVE  ResultIsCached(c)' /\ BuildUsesCachedGeometry(c)'
  <2>1. ResultIsCached(c)'
    <3>1. CASE pc[c] = "returned" /\ index[c].ok
      <4>1. key[c] \in Keys /\ IsBuilt(key[c])
        BY <3>1 DEF TypeOK, KeysOf, Keys, IndexInv, ResultIsCached
      <4> QED
        BY <1>a, <3>1, <4>1, BuiltStays DEF IndexInv, ResultIsCached
    <3>2. CASE ~(pc[c] = "returned" /\ index[c].ok)
      BY <1>a, <3>2 DEF IndexInv, ResultIsCached
    <3> QED
      BY <3>1, <3>2
  <2>2. BuildUsesCachedGeometry(c)'
    <3>1. CASE c[2] = "var" /\ pc[c] \in {"build", "set_value"}
      <4>1. GeoOf[key[c]] \in Keys /\ IsBuilt(GeoOf[key[c]])
        BY <3>1 DEF TypeOK, KeysOf, Keys, IndexInv, BuildUsesCachedGeometry
      <4> QED
        BY <1>a, <3>1, <4>1, BuiltStays DEF IndexInv, BuildUsesCachedGeometry
    <3>2. CASE ~(c[2] = "var" /\ pc[c] \in {"build", "set_value"})
      BY <1>a, <3>2 DEF BuildUsesCachedGeometry
    <3> QED
      BY <3>1, <3>2
  <2> QED
    BY <2>1, <2>2
<1>b. ASSUME NEW c \in Frames,
             pc'[c] \notin {"returned", "erase", "build", "set_value"}
      PROVE  ResultIsCached(c)' /\ BuildUsesCachedGeometry(c)'
  BY <1>b DEF ResultIsCached, BuildUsesCachedGeometry
<1>c. ASSUME NEW c \in Frames, NEW d \in Frames, d # c,
             \/ Find(c) \/ Insert(c) \/ Build(c) \/ SetValue(c)
             \/ SetException(c) \/ Get(c) \/ Erase(c)
      PROVE  UNCHANGED <<pc[d], key[d], index[d]>>
  BY <1>c DEF Find, Insert, Build, SetValue, SetException, Get, Erase, TypeOK
\* A step of one frame.
<1>1. ASSUME NEW c \in Frames, Find(c) \/ Insert(c)
      PROVE  ResultIsCached(c)' /\ BuildUsesCachedGeometry(c)'
  BY <1>1 DEF Find, Insert, FirstBuildStep, TypeOK, ResultIsCached,
     BuildUsesCachedGeometry
<1>2. ASSUME NEW c \in Frames, Build(c)
      PROVE  ResultIsCached(c)' /\ BuildUsesCachedGeometry(c)'
  <2>1. pc'[c] \in {"set_value", "set_exception"} /\ index'[c].geo = index[c].geo
    BY <1>2 DEF Build, TypeOK
  <2>2. CASE c[2] = "var"
    <3>1. GeoOf[key[c]] \in Keys /\ IsBuilt(GeoOf[key[c]])
      BY <1>2, <2>2 DEF Build, TypeOK, KeysOf, Keys, IndexInv, BuildUsesCachedGeometry
    <3> QED
      BY <1>2, <2>1, <2>2, <3>1, BuiltStays
      DEF Build, IndexInv, ResultIsCached, BuildUsesCachedGeometry
  <2> QED
    BY <2>1, <2>2 DEF ResultIsCached, BuildUsesCachedGeometry
<1>3. ASSUME NEW c \in Frames, SetValue(c)
      PROVE  ResultIsCached(c)' /\ BuildUsesCachedGeometry(c)'
  <2>1. /\ ref[c] \in Futures /\ cache[key[c]] = ref[c]
        /\ cache[key[c]] # NoFuture
    BY <1>3 DEF SetValue, TypeOK, EntryInv, OwnersHoldTheirEntry, Owns, OwnerSteps,
       HolderSteps
  <2>2. /\ pc'[c] = "returned" /\ future'[ref[c]].done
        /\ future'[ref[c]].index = index[c]
        /\ UNCHANGED <<cache, key, index>>
    BY <1>3, <2>1 DEF SetValue, TypeOK
  <2> QED
    BY <2>1, <2>2 DEF IsBuilt, ResultIsCached, BuildUsesCachedGeometry
<1>4. ASSUME NEW c \in Frames, SetException(c)
      PROVE  ResultIsCached(c)' /\ BuildUsesCachedGeometry(c)'
  BY <1>4 DEF SetException, TypeOK, Failed, ResultIsCached, BuildUsesCachedGeometry
<1>5. ASSUME NEW c \in Frames, Get(c)
      PROVE  ResultIsCached(c)' /\ BuildUsesCachedGeometry(c)'
  <2>1. /\ pc'[c] = "returned" /\ index'[c] = future[ref[c]].index
        /\ key'[c] = key[c]
        /\ key[c] \in Keys /\ ref[c] \in Futures /\ future[ref[c]].done
    BY <1>5 DEF Get, TypeOK, KeysOf, Keys, HolderSteps
  <2>2. CASE index'[c].ok
    <3>1. cache[key[c]] = ref[c]
      BY <1>5, <2>1, <2>2
      DEF Get, EntryInv, WaitersHoldTheirEntry, Failure, Failed
    <3>2. IsBuilt(key[c])
      BY <2>1, <2>2, <3>1, ConstantsAssumption DEF IsBuilt
    <3> QED
      BY <2>1, <3>1, <3>2, BuiltStays DEF ResultIsCached, BuildUsesCachedGeometry
  <2> QED
    BY <2>1, <2>2 DEF ResultIsCached, BuildUsesCachedGeometry
<1>6. ASSUME NEW c \in Frames, Erase(c)
      PROVE  ResultIsCached(c)' /\ BuildUsesCachedGeometry(c)'
  <2>1. ~index[c].ok
    BY <1>6 DEF Erase, IndexInv, ResultIsCached
  <2> QED
    BY <1>6, <2>1 DEF Erase, TypeOK, ResultIsCached, BuildUsesCachedGeometry
\* The steps that move a nested call.
<1>7. ASSUME NEW t \in Threads, GeometryReturned(t), NEW d \in Frames
      PROVE  ResultIsCached(d)' /\ BuildUsesCachedGeometry(d)'
  <2> DEFINE g == <<t, "geo">>
             v == <<t, "var">>
  <2>1. g \in Frames /\ v \in Frames /\ g # v
    BY FrameOf DEF Layers
  <2>2. /\ pc'[g] = "idle" /\ key'[v] = key[v]
        /\ \A e \in Frames \ {g, v} : UNCHANGED <<pc[e], key[e], index[e]>>
        /\ pc'[v] = IF index[g].ok THEN "build" ELSE "set_exception"
    BY <1>7, <2>1 DEF GeometryReturned, TypeOK
  <2>3. index'[v] = [index[v] EXCEPT !.geo = index[g].own]
    BY <1>7, <2>1 DEF GeometryReturned, TypeOK
  <2>4. index'[v].geo = index[g].own
    <3>1. index[v] \in Index
      BY <2>1 DEF TypeOK
    <3> QED
      BY <2>3, <3>1 DEF Index
  <2>5. CASE index[g].ok
    <3>1. /\ key[g] \in Keys /\ key[g] = GeoOf[key[v]] /\ IsBuilt(key[g])
          /\ future[cache[key[g]]].index = index[g]
      BY <1>7, <2>1, <2>5
      DEF GeometryReturned, TypeOK, KeysOf, Keys, EntryInv, NestedCalls, IndexInv,
          ResultIsCached
    <3>2. ResultIsCached(v)' /\ BuildUsesCachedGeometry(v)'
      BY <2>2, <2>4, <2>5, <3>1, BuiltStays DEF ResultIsCached, BuildUsesCachedGeometry
    <3> QED
      BY <1>a, <1>b, <2>1, <2>2, <3>2
  <2>6. CASE ~index[g].ok
    BY <1>a, <1>b, <2>1, <2>2, <2>6
  <2> QED
    BY <2>5, <2>6
<1>8. ASSUME NEW t \in Threads, NEW layer \in Layers, NEW d \in Frames,
             \/ \E k \in KeysOf(layer) : Call(t, layer, k)
             \/ AskGeometry(t)
             \/ Return(t, layer)
      PROVE  ResultIsCached(d)' /\ BuildUsesCachedGeometry(d)'
  <2>1. \/ UNCHANGED <<pc[d], key[d], index[d]>>
        \/ pc'[d] \in {"idle", "find"}
    BY <1>8, FrameOf DEF Call, AskGeometry, Return, TypeOK, Layers
  <2> QED
    BY <1>a, <1>b, <2>1
<1>9. ASSUME NEW d \in Frames
      PROVE  ResultIsCached(d)' /\ BuildUsesCachedGeometry(d)'
  <2>1. CASE UNCHANGED vars \/ \E k \in Keys : Write(k)
    BY <1>a, <2>1 DEF vars, Write
  <2>2. ASSUME NEW c \in Frames,
               \/ Find(c) \/ Insert(c) \/ Build(c) \/ SetValue(c)
               \/ SetException(c) \/ Get(c) \/ Erase(c)
        PROVE  ResultIsCached(d)' /\ BuildUsesCachedGeometry(d)'
    <3>1. CASE c = d
      BY <1>1, <1>2, <1>3, <1>4, <1>5, <1>6, <2>2, <3>1
    <3>2. CASE c # d
      BY <1>a, <1>c, <2>2, <3>2
    <3> QED
      BY <3>1, <3>2
  <2>3. CASE \E t \in Threads : Step(t)
    BY <1>7, <1>8, <2>2, <2>3, FrameOf DEF Step, Layers
  <2> QED
    BY <1>8, <2>1, <2>3 DEF Next
<1>10. VariableMatchesGeometry'
  <2> SUFFICES ASSUME NEW v \in VarKeys, IsBuilt(v)'
               PROVE  /\ IsBuilt(GeoOf[v])'
                      /\ (future[cache[v]].index.geo
                            = future[cache[GeoOf[v]]].index.own)'
    BY DEF VariableMatchesGeometry
  <2>1. v \in Keys /\ GeoOf[v] \in Keys
    BY DEF Keys
  <2>2. CASE IsBuilt(v)
    <3>1. IsBuilt(GeoOf[v])
      BY <2>2 DEF IndexInv, VariableMatchesGeometry
    <3> QED
      BY <2>1, <2>2, <3>1, BuiltStays DEF IndexInv, VariableMatchesGeometry
  <2>3. CASE ~IsBuilt(v)
    <3>1. PICK c \in Frames : SetValue(c) /\ key[c] = v
      BY <2>1, <2>3, NewlyBuilt
    <3>2. c[2] = "var" /\ ref[c] \in Futures /\ cache[v] = ref[c]
      BY <3>1 DEF SetValue, TypeOK, KeysOf, Frames, Layers, HolderSteps, OwnerSteps,
         EntryInv, OwnersHoldTheirEntry, Owns
    <3>3. /\ IsBuilt(GeoOf[v])
          /\ index[c].geo = future[cache[GeoOf[v]]].index.own
      BY <3>1, <3>2 DEF SetValue, IndexInv, BuildUsesCachedGeometry
    <3>4. future'[cache'[v]].index = index[c]
      BY <3>1, <3>2 DEF SetValue, TypeOK
    <3> QED
      BY <2>1, <3>3, <3>4, BuiltStays
  <2> QED
    BY <2>2, <2>3
<1> QED
  BY <1>9, <1>10 DEF IndexInv

-----------------------------------------------------------------------------
(* The theorems.                                                           *)

\* The invariant holds throughout.
LEMMA Invariants == Spec => [](TypeOK /\ EntryInv /\ IndexInv)
<1>1. Init => TypeOK /\ EntryInv /\ IndexInv
  BY InitTypeOK, InitEntryInv, InitIndexInv
<1>2. TypeOK /\ EntryInv /\ IndexInv /\ [Next]_vars
        => (TypeOK /\ EntryInv /\ IndexInv)'
  BY NextTypeOK, NextEntryInv, NextIndexInv
<1> QED
  BY <1>1, <1>2, PTL DEF Spec

\* However many threads race for an index and whatever builds fail, each key has
\* at most one owner, and each unbuilt future in the maps has exactly one: two
\* threads never build the same index, and nobody waits for a promise that no
\* thread will keep.
THEOREM EveryBuildHasOneOwnerCorrect == Spec => []EveryBuildHasOneOwner
<1>1. TypeOK /\ EntryInv /\ IndexInv => EveryBuildHasOneOwner
  BY DEF EntryInv, EveryBuildHasOneOwner
<1> QED
  BY <1>1, Invariants, PTL

\* The offsets of a variable index in the map were computed with the geometry
\* index in the map, though the two are built under different locks and both
\* files are rewritten meanwhile.
THEOREM VariableMatchesGeometryCorrect == Spec => []VariableMatchesGeometry
<1>1. TypeOK /\ EntryInv /\ IndexInv => VariableMatchesGeometry
  BY DEF IndexInv
<1> QED
  BY <1>1, Invariants, PTL

\* A built index stays in its map: the removal of a failed build never hits an
\* index that another thread has built since.
THEOREM BuiltIsForEverCorrect == Spec => BuiltIsForEver
<1>1. TypeOK /\ EntryInv /\ IndexInv /\ [Next]_vars
        => [\A k \in Keys : IsBuilt(k) => cache'[k] = cache[k] /\ IsBuilt(k)']_vars
  BY BuiltStays
<1> QED
  BY <1>1, Invariants, PTL DEF Spec, BuiltIsForEver
=============================================================================
