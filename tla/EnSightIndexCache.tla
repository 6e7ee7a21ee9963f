-------------------------- MODULE EnSightIndexCache --------------------------
(***************************************************************************)
(* The two process-wide index caches of the EnSight reader                 *)
(* (ensight/src/OmniSciEnSightFileFormat.cpp): geometry indexes by file    *)
(* path, variable indexes by variable file, geometry file and kind.        *)
(*                                                                         *)
(* Both map a key to a shared_future.  A caller looks the key up under a   *)
(* shared lock, and if it is absent looks again under the exclusive lock   *)
(* and inserts the future of its own promise: it then owns the build and   *)
(* the others wait on the future.  A build that throws sets the exception  *)
(* and, in a later critical section, erases the key.  The build of a       *)
(* variable index starts by asking for the geometry index, so an owner of  *)
(* a variable future may itself wait on a geometry future.                 *)
(*                                                                         *)
(* GetGeoIndex and GetVariableIndex are the same protocol at two layers; a *)
(* thread has one frame per layer.  An index is abstracted to the versions *)
(* of the files it was built from.  Files are rewritten at any time.       *)
(***************************************************************************)
EXTENDS Naturals, FiniteSets

CONSTANTS
  Threads,     \* loader and reader threads
  GeoKeys,     \* geometry files
  VarKeys,     \* variable index keys
  GeoOf,       \* geometry file of a variable key
  Futures,     \* pool of shared states of promises
  MaxVersion,  \* bound on how often one file is rewritten
  NoFuture, NoKey

Keys == GeoKeys \cup VarKeys
Layers == {"geo", "var"}
Frames == Threads \X Layers
Version == 0..MaxVersion

ASSUME ConstantsAssumption ==
  /\ MaxVersion \in Nat
  /\ GeoKeys \cap VarKeys = {}
  /\ GeoOf \in [VarKeys -> GeoKeys]
  /\ NoFuture \notin Futures
  /\ NoKey \notin Keys

KeysOf(layer) == IF layer = "geo" THEN GeoKeys ELSE VarKeys

VARIABLES
  file,    \* file[k]: current version of the file behind key k
  cache,   \* the two maps: key to shared_future
  future,  \* the shared states
  pc,      \* where each frame is in GetGeoIndex or GetVariableIndex
  key,     \* its argument
  ref,     \* its shared_future
  index    \* the index it returns, or the one it is building

vars == <<file, cache, future, pc, key, ref, index>>

\* ok is FALSE for an exception; own and geo are the versions an index was
\* built from (geo is 0 for a geometry index).
Index == [ok : BOOLEAN, own : Version, geo : Version]
Failed == [ok |-> FALSE, own |-> 0, geo |-> 0]

Pending == [done |-> FALSE, index |-> Failed]
Future == {Pending} \cup [done : {TRUE}, index : Index]

OwnerSteps == {"geometry", "build", "set_value", "set_exception"}
HolderSteps == OwnerSteps \cup {"get", "erase"}
PCs == HolderSteps \cup {"idle", "find", "insert", "returned"}

\* Types; a frame refers to a future exactly from the moment it found or
\* inserted one to the moment it returns.
TypeOK ==
  /\ file \in [Keys -> Version]
  /\ cache \in [Keys -> Futures \cup {NoFuture}]
  /\ future \in [Futures -> Future]
  /\ pc \in [Frames -> PCs]
  /\ key \in [Frames -> Keys \cup {NoKey}]
  /\ ref \in [Frames -> Futures \cup {NoFuture}]
  /\ index \in [Frames -> Index]
  /\ \A c \in Frames :
       /\ key[c] \in (IF pc[c] = "idle" THEN {NoKey} ELSE KeysOf(c[2]))
       /\ pc[c] \in HolderSteps <=> ref[c] \in Futures
       /\ pc[c] = "geometry" => c[2] = "var"

Init ==
  /\ file = [k \in Keys |-> 0]
  /\ cache = [k \in Keys |-> NoFuture]
  /\ future = [f \in Futures |-> Pending]
  /\ pc = [c \in Frames |-> "idle"]
  /\ key = [c \in Frames |-> NoKey]
  /\ ref = [c \in Frames |-> NoFuture]
  /\ index = [c \in Frames |-> Failed]

-----------------------------------------------------------------------------
Goto(c, step) == pc' = [pc EXCEPT ![c] = step]

\* A shared state lives while a future, a promise or the map refers to it.
FreeFutures ==
  {f \in Futures : /\ \A c \in Frames : ref[c] # f
                   /\ \A k \in Keys : cache[k] # f}

\* The shared states after frame c has dropped its reference and the map has
\* become newCache.
Released(c, newCache) ==
  [f \in Futures |->
     IF /\ f = ref[c]
        /\ \A d \in Frames \ {c} : ref[d] # f
        /\ \A k \in Keys : newCache[k] # f
     THEN Pending ELSE future[f]]

\* A thread that is inside neither function calls one of them.
Call(t, layer, k) ==
  /\ pc[<<t, "geo">>] = "idle"
  /\ pc[<<t, "var">>] = "idle"
  /\ Goto(<<t, layer>>, "find")
  /\ key' = [key EXCEPT ![<<t, layer>>] = k]
  /\ UNCHANGED <<file, cache, future, ref, index>>

\* First look, under the shared lock.
Find(c) ==
  /\ pc[c] = "find"
  /\ IF cache[key[c]] # NoFuture
     THEN /\ ref' = [ref EXCEPT ![c] = cache[key[c]]]
          /\ Goto(c, "get")
     ELSE /\ Goto(c, "insert")
          /\ UNCHANGED ref
  /\ UNCHANGED <<file, cache, future, key, index>>

FirstBuildStep(c) == IF c[2] = "var" THEN "geometry" ELSE "build"

\* Seeded fault: the second look is left out.
Insert_Blind(c) ==
  /\ pc[c] = "insert"
  /\ \E f \in FreeFutures :
       /\ cache' = [cache EXCEPT ![key[c]] = f]
       /\ ref' = [ref EXCEPT ![c] = f]
  /\ Goto(c, FirstBuildStep(c))
  /\ UNCHANGED <<file, future, key, index>>


\* Seeded fault: shouldBuild is not set, the owner waits for itself.
Insert_NotOwner(c) ==
  /\ pc[c] = "insert"
  /\ IF cache[key[c]] # NoFuture
     THEN /\ ref' = [ref EXCEPT ![c] = cache[key[c]]]
          /\ UNCHANGED cache
     ELSE \E f \in FreeFutures :
            /\ cache' = [cache EXCEPT ![key[c]] = f]
            /\ ref' = [ref EXCEPT ![c] = f]
  /\ Goto(c, "get")
  /\ UNCHANGED <<file, future, key, index>>

\* Second look, under the exclusive lock: insert the own future or take the
\* one that another thread inserted in between.
Insert(c) ==
  /\ pc[c] = "insert"
  /\ IF cache[key[c]] # NoFuture
     THEN /\ ref' = [ref EXCEPT ![c] = cache[key[c]]]
          /\ Goto(c, "get")
          /\ UNCHANGED cache
     ELSE /\ \E f \in FreeFutures :
               /\ cache' = [cache EXCEPT ![key[c]] = f]
               /\ ref' = [ref EXCEPT ![c] = f]
          /\ Goto(c, FirstBuildStep(c))
  /\ UNCHANGED <<file, future, key, index>>

\* BuildVariableIndex asks for the geometry index first.
AskGeometry(t) ==
  /\ pc[<<t, "var">>] = "geometry"
  /\ pc[<<t, "geo">>] = "idle"
  /\ Goto(<<t, "geo">>, "find")
  /\ key' = [key EXCEPT ![<<t, "geo">>] = GeoOf[key[<<t, "var">>]]]
  /\ UNCHANGED <<file, cache, future, ref, index>>

\* Seeded fault: the geometry's exception is swallowed.
GeometryReturned_Ignored(t) ==
  LET g == <<t, "geo">>
      v == <<t, "var">>
  IN  /\ pc[v] = "geometry"
      /\ pc[g] = "returned"
      /\ pc' = [pc EXCEPT ![g] = "idle", ![v] = "build"]
      /\ index' = [index EXCEPT ![g] = Failed, ![v].geo = index[g].geo]
      /\ key' = [key EXCEPT ![g] = NoKey]
      /\ UNCHANGED <<file, cache, future, ref>>

\* Its exception makes the variable build fail as well.
GeometryReturned(t) ==
  LET g == <<t, "geo">>
      v == <<t, "var">>
  IN  /\ pc[v] = "geometry"
      /\ pc[g] = "returned"
      /\ pc' = [pc EXCEPT ![g] = "idle",
                          ![v] = IF index[g].ok THEN "build" ELSE "set_exception"]
      /\ index' = [index EXCEPT ![g] = Failed, ![v].geo = index[g].own]
      /\ key' = [key EXCEPT ![g] = NoKey]
      /\ UNCHANGED <<file, cache, future, ref>>

\* Scan the file: it may be missing, truncated or malformed.
Build(c) ==
  /\ pc[c] = "build"
  /\ \/ /\ index' = [index EXCEPT ![c] =
                     [ok |-> TRUE, own |-> file[key[c]], geo |-> index[c].geo]]
        /\ Goto(c, "set_value")
     \/ /\ index' = index
        /\ Goto(c, "set_exception")
  /\ UNCHANGED <<file, cache, future, key, ref>>

SetValue(c) ==
  /\ pc[c] = "set_value"
  /\ future' = [future EXCEPT ![ref[c]] = [done |-> TRUE, index |-> index[c]]]
  /\ ref' = [ref EXCEPT ![c] = NoFuture]
  /\ Goto(c, "returned")
  /\ UNCHANGED <<file, cache, key, index>>

SetException(c) ==
  /\ pc[c] = "set_exception"
  /\ future' = [future EXCEPT ![ref[c]] = [done |-> TRUE, index |-> Failed]]
  /\ index' = [index EXCEPT ![c] = Failed]
  /\ Goto(c, "erase")
  /\ UNCHANGED <<file, cache, key, ref>>

\* Seeded fault: every thread that saw the exception erases the key.
Get_Erase(c) ==
  /\ pc[c] = "get"
  /\ future[ref[c]].done
  /\ index' = [index EXCEPT ![c] = future[ref[c]].index]
  /\ IF future[ref[c]].index.ok
     THEN /\ ref' = [ref EXCEPT ![c] = NoFuture]
          /\ future' = Released(c, cache)
          /\ Goto(c, "returned")
     ELSE /\ Goto(c, "erase")
          /\ UNCHANGED <<ref, future>>
  /\ UNCHANGED <<file, cache, key>>

\* future.get() blocks until the owner has set a value or an exception.
Get(c) ==
  /\ pc[c] = "get"
  /\ future[ref[c]].done
  /\ index' = [index EXCEPT ![c] = future[ref[c]].index]
  /\ ref' = [ref EXCEPT ![c] = NoFuture]
  /\ future' = Released(c, cache)
  /\ Goto(c, "returned")
  /\ UNCHANGED <<file, cache, key>>


\* "Drop failed builds from the cache so a later request can retry."
Erase(c) ==
  /\ pc[c] = "erase"
  /\ cache' = [cache EXCEPT ![key[c]] = NoFuture]
  /\ ref' = [ref EXCEPT ![c] = NoFuture]
  /\ future' = Released(c, cache')
  /\ Goto(c, "returned")
  /\ UNCHANGED <<file, key, index>>

\* The outermost call hands its index or exception to the reader.
Return(t, layer) ==
  LET c == <<t, layer>>
  IN  /\ pc[c] = "returned"
      /\ layer = "geo" => pc[<<t, "var">>] = "idle"
      /\ Goto(c, "idle")
      /\ key' = [key EXCEPT ![c] = NoKey]
      /\ index' = [index EXCEPT ![c] = Failed]
      /\ UNCHANGED <<file, cache, future, ref>>

Write(k) ==
  /\ file[k] < MaxVersion
  /\ file' = [file EXCEPT ![k] = file[k] + 1]
  /\ UNCHANGED <<cache, future, pc, key, ref, index>>

-----------------------------------------------------------------------------
Step(t) ==
  \/ AskGeometry(t) \/ GeometryReturned(t)
  \/ \E layer \in Layers :
       LET c == <<t, layer>>
       IN  \/ Find(c) \/ Insert(c) \/ Build(c) \/ SetValue(c)
           \/ SetException(c) \/ Get(c) \/ Erase(c)
           \/ Return(t, layer)

Next ==
  \/ \E t \in Threads : Step(t)
  \/ \E t \in Threads, layer \in Layers : \E k \in KeysOf(layer) : Call(t, layer, k)
  \/ \E k \in Keys : Write(k)

Spec == Init /\ [][Next]_vars

\* Builds terminate and the scheduler runs every thread that can move.
FairSpec == Spec /\ \A t \in Threads : WF_vars(Step(t))

-----------------------------------------------------------------------------
(* Properties.                                                             *)

IsBuilt(k) ==
  cache[k] # NoFuture /\ future[cache[k]].done /\ future[cache[k]].index.ok

\* Racing misses share one build: no key has two owners at a time ("concurrent
\* misses build the index once and share the result").
OneOwnerPerKey ==
  \A c, d \in Frames :
    /\ pc[c] \in OwnerSteps \cup {"erase"}
    /\ pc[d] \in OwnerSteps \cup {"erase"}
    /\ key[c] = key[d]
    => c = d

\* A future in the map that holds no index has an owner that will either
\* resolve it or erase it: no waiter is left with a promise that nobody keeps,
\* and no failure stays in the cache.
UnbuiltHasOwner ==
  \A k \in Keys : (cache[k] # NoFuture /\ ~IsBuilt(k)) =>
    \E c \in Frames : /\ key[c] = k
                      /\ ref[c] = cache[k]
                      /\ pc[c] \in OwnerSteps \cup {"erase"}

\* Whatever threads race for an index and whatever builds fail, a key that is
\* being built has one owner, and every unbuilt future has one.
EveryBuildHasOneOwner == TypeOK /\ OneOwnerPerKey /\ UnbuiltHasOwner

\* Clearing up after a failure never removes an index that another thread has
\* built since: a built index stays for the life of the process, the same one.
BuiltIsForEver ==
  [][\A k \in Keys : IsBuilt(k) => cache'[k] = cache[k] /\ IsBuilt(k)']_vars

\* The offsets in a variable index were computed with the geometry index that is
\* in the other cache, which is the one that loaders of the mesh read by: though a
\* build looks it up under another lock, where builds fail and are erased, the two
\* caches never disagree on the geometry.
VariableMatchesGeometry ==
  \A v \in VarKeys : IsBuilt(v) =>
    /\ IsBuilt(GeoOf[v])
    /\ future[cache[v]].index.geo = future[cache[GeoOf[v]]].index.own

\* The nesting of the layers cannot deadlock, and no waiter waits for ever.
EveryCallReturns ==
  \A c \in Frames : (pc[c] # "idle") ~> (pc[c] = "idle")

\* An index taken from the cache describes the file as it is: no file changed
\* since its index was built ("cache immutable parse/index metadata by resolved
\* path and file signature").  The code has no signature.
IndexIsCurrent ==
  \A c \in Frames :
    (pc[c] = "find" /\ IsBuilt(key[c])) =>
      future[cache[key[c]]].index.own = file[key[c]]
=============================================================================
