----------------------------- MODULE LazySamples -----------------------------
(***************************************************************************)
(* CaeFileFormatData (shared/CaeFileFormatData.cpp): the layer data behind *)
(* every reader of this repository.  While the layer is read, one thread   *)
(* registers lists of time samples, each sample with a loader that fetches *)
(* its array from the data file.  Once the data is set on the layer, any   *)
(* thread may ask for a sample; its loader runs outside the cache's lock,  *)
(* so two threads that miss together both load and both store.             *)
(*                                                                         *)
(* A loaded array is abstracted to the loader that produced it, the        *)
(* version of the data file it read and whether it holds anything: a       *)
(* loader that fails quietly returns an empty VtValue.  The paths an       *)
(* attribute and its ":chunk_N" aliases share are given by CanonicalPath.  *)
(*                                                                         *)
(* The registered attributes are no specs of SdfData: the overrides of     *)
(* SdfAbstractData answer for them, and for the prims above them, next to  *)
(* what SdfData stores.  (_lazyFields, _arrayCache and _propertyChildren   *)
(* are never filled, and the branches that read them are left out.)        *)
(***************************************************************************)
EXTENDS Naturals, Sequences, SequencesExt, FiniteSetsExt, TLC

CONSTANTS
  Threads,           \* threads that resolve values
  Attributes,        \* attribute paths, chunk aliases included
  Paths,             \* canonical cache paths
  CanonicalPath,     \* canonical path of an attribute
  Times,             \* the times of samples and of queries
  Loaders,           \* std::function objects that read one array
  SampleLists,       \* the lists a reader may register for an attribute
  MaxVersion,        \* bound on how often the data file is rewritten
  PrimNames,         \* names of prims
  MountPaths,        \* paths of the dataset prim: sequences of names
  HomeOf,            \* path of the prim of an attribute, below the dataset prim
  Metadata,          \* an attribute that the reader authors beside the arrays
  NoProperty,
  Unregistered, NoCall, NoLoader, NoValue

Modes == {"All", "Static", "None"}
Version == 0..MaxVersion
Sample == [time : Times, loader : Loaders]
Value == [loader : Loaders, version : Version, holds : BOOLEAN]

\* The arguments of a query; began is history: the version when it started.
Call == [path : Paths, time : Times, began : Version]

\* (A reader that publishes a layer has a dataset, with one attribute at least.)
ASSUME ConstantsAssumption ==
  /\ Attributes # {}
  /\ Times \subseteq Nat
  /\ MaxVersion \in Nat
  /\ CanonicalPath \in [Attributes -> Paths]
  /\ SampleLists \in [Attributes -> SUBSET Seq(Sample)]
  /\ Metadata \notin Attributes /\ NoProperty \notin Attributes \cup {Metadata}
  /\ MountPaths \subseteq Seq(PrimNames) \ {<<>>}
  /\ HomeOf \in [Attributes -> Seq(PrimNames)]
  /\ Unregistered \notin Seq(Sample)
  /\ NoCall \notin Call
  /\ NoLoader \notin Loaders
  /\ NoValue \notin Value \cup PrimNames
       \cup {"def", "over", "authored", "registered", "empty map", "1.0"}
  /\ \A children \in (SUBSET PrimNames) \cup {{Metadata}} : NoValue # children

VARIABLES
  cacheMode,        \* the cacheMode argument of the layer
  lazyTimeSamples,  \* canonical path to its list of samples
  attrInfos,        \* attributes that have been registered
  overPaths, childrenMap,   \* prims above them, and their names by parent
  mount,            \* path of the dataset prim
  stored,           \* the specs of SdfData: type and fields by path
  published,        \* the data has been set on the layer
  timeSampleCache,  \* the retained values
  version,          \* current version of the data file
  pc, call, value   \* the QueryTimeSample call of each thread

specVars == <<overPaths, childrenMap, mount, stored>>
vars == <<cacheMode, lazyTimeSamples, attrInfos, specVars, published, timeSampleCache,
          version, pc, call, value>>

-----------------------------------------------------------------------------
(* Lists of samples.                                                       *)

TimesOf(list) == {list[i].time : i \in 1..Len(list)}

\* The test the readers make before they choose how to register.
TimeSamplesAreSorted(list) ==
  \A i \in 2..Len(list) : list[i - 1].time <= list[i].time

\* Every order std::sort may leave a list in; it is not stable.
SortedOrders(list) ==
  LET n == Len(list)
  IN {s \in [1..n -> {list[i] : i \in 1..n}] :
        /\ TimeSamplesAreSorted(s)
        /\ \A x \in {list[i] : i \in 1..n} :
             Cardinality({i \in 1..n : s[i] = x})
               = Cardinality({i \in 1..n : list[i] = x})}

\* std::lower_bound: index of the first sample not before t, or one past the
\* end.
LowerBound(list, t) ==
  IF \E i \in 1..Len(list) : list[i].time >= t
  THEN CHOOSE i \in 1..Len(list) :
         /\ list[i].time >= t
         /\ \A j \in 1..(i - 1) : list[j].time < t
  ELSE Len(list) + 1

\* Seeded fault: the sample found is not compared with the time asked for.
FindTimeSample_Nearest(list, t) ==
  LET i == LowerBound(list, t)
  IN IF i <= Len(list) THEN list[i].loader ELSE NoLoader

\* The loader of the sample at exactly t, or NoLoader.
FindTimeSample(list, t) ==
  LET i == LowerBound(list, t)
  IN IF i <= Len(list) /\ list[i].time = t THEN list[i].loader ELSE NoLoader

\* GetBracketingTimeSamplesForPath of a list that is not empty.
BracketingTimes(list, t) ==
  LET i == LowerBound(list, t)
  IN IF i = Len(list) + 1
     THEN <<list[Len(list)].time, list[Len(list)].time>>
     ELSE IF i = 1 \/ list[i].time = t THEN <<list[i].time, list[i].time>>
     ELSE <<list[i - 1].time, list[i].time>>

ShouldCacheTimeSamples(mode) == mode = "All"

GetFieldTypeid(a) == IF a \in attrInfos THEN "registered" ELSE "void"

\* The type a probe reports without a loader: the registered one, the
\* backend's default, or void.
QueryTimeSampleTypeid(a, t) ==
  LET list == lazyTimeSamples[CanonicalPath[a]]
  IN CASE list = Unregistered -> "stored"
       [] list # Unregistered /\ FindTimeSample(list, t) = NoLoader -> "void"
       [] OTHER -> GetFieldTypeid(a)

-----------------------------------------------------------------------------
(* The specs of the layer.                                                 *)

PrimPath(names) == [prim |-> names, prop |-> NoProperty]
Root == PrimPath(<<>>)
PathOf(a) == [prim |-> mount \o HomeOf[a], prop |-> a]
AttrPaths == {PathOf(a) : a \in attrInfos}
SamplesAt(path) == lazyTimeSamples[CanonicalPath[path.prop]]

\* The names of the prims of a set that are children of a prim.
Names(parent, prims) == {Last(n) : n \in {m \in prims : m # <<>> /\ Front(m) = parent}}
GetPrefixes(names) == {SubSeq(names, 1, n) : n \in 1..Len(names)}

\* What a reader authors through a stage: a tree of prims down to those that
\* arrays belong to, with an attribute of metadata on each of these.
Homes == {mount \o HomeOf[a] : a \in Attributes}
StructurePrims == {<<>>} \cup UNION {GetPrefixes(h) : h \in Homes}
StructureFields(n) ==
  LET children == Names(n, StructurePrims)
  IN [f \in (IF n # <<>> THEN {"specifier"} ELSE {})
             \cup (IF children # {} THEN {"primChildren"} ELSE {})
             \cup (IF n \in Homes THEN {"propertyChildren"} ELSE {}) |->
        CASE f = "specifier" -> "def"
          [] f = "primChildren" -> children
          [] f = "propertyChildren" -> {Metadata}]
StructureLayer ==
  [path \in {PrimPath(n) : n \in StructurePrims} \cup {[prim |-> h, prop |-> Metadata] : h \in Homes} |->
     IF path.prop = NoProperty
     THEN [type |-> IF path = Root THEN "pseudoRoot" ELSE "prim", fields |-> StructureFields(path.prim)]
     ELSE [type |-> "attribute",
           fields |-> [f \in {"typeName", "variability", "custom", "default"} |-> "authored"]]]

WithDefaultPrim(fields) ==
  [f \in DOMAIN fields \cup {"defaultPrim"} |->
     IF f = "defaultPrim" THEN Head(mount) ELSE fields[f]]

\* Seeded fault: the loop over the prefixes goes up to the dataset.
AuthorMountPathOvers_Leaf(specs) ==
  [path \in DOMAIN specs |->
     CASE path = Root -> [specs[path] EXCEPT !.fields = WithDefaultPrim(@)]
       [] path.prop = NoProperty /\ path.prim \in GetPrefixes(mount) ->
            [specs[path] EXCEPT !.fields["specifier"] = "over"]
       [] OTHER -> specs[path]]
\* The prims above the dataset become overs; the first is the default prim.
AuthorMountPathOvers(specs) ==
  [path \in DOMAIN specs |->
     CASE path = Root -> [specs[path] EXCEPT !.fields = WithDefaultPrim(@)]
       [] path.prop = NoProperty /\ path.prim \in GetPrefixes(Front(mount)) ->
            [specs[path] EXCEPT !.fields["specifier"] = "over"]
       [] OTHER -> specs[path]]

HasSpec(path) ==
  path \in DOMAIN stored \/ path = Root \/ path \in overPaths \/ path \in AttrPaths
GetSpecType(path) ==
  CASE path \in DOMAIN stored -> stored[path].type
    [] path \notin DOMAIN stored /\ path = Root -> "pseudoRoot"
    [] path \notin DOMAIN stored /\ path \in AttrPaths -> "attribute"
    [] path \notin DOMAIN stored /\ path \in overPaths -> "prim"
    [] OTHER -> "unknown"

\* SdfData does not answer for the values of a registered attribute.
IsLazyValueField(path, field) ==
  path \in AttrPaths /\ field \in {"default", "timeSamples"}
StoredFields(path) == IF path \in DOMAIN stored THEN DOMAIN stored[path].fields ELSE {}

\* The fields that the overrides answer for, where SdfData has none.
HasField(path, field) ==
  \/ ~IsLazyValueField(path, field) /\ field \in StoredFields(path)
  \/ path = Root /\ field \in {"primChildren", "timeCodesPerSecond"}
  \/ /\ path # Root /\ path \in overPaths
     /\ field = "specifier" \/ (field = "primChildren" /\ path.prim \in DOMAIN childrenMap)
  \/ /\ path \in AttrPaths
     /\ \/ field \in {"typeName", "variability", "custom"}
        \/ field = "timeSamples" /\ SamplesAt(path) # Unregistered

HasSpecAndField(path, field) == GetSpecType(path) # "unknown" /\ HasField(path, field)

ChildrenOf(names) == IF names \in DOMAIN childrenMap THEN childrenMap[names] ELSE {}
GetField(path, field) ==
  CASE ~IsLazyValueField(path, field) /\ field \in StoredFields(path) -> stored[path].fields[field]
    [] OTHER ->
         CASE path = Root /\ field = "primChildren" -> ChildrenOf(<<>>)
           [] path = Root /\ field = "timeCodesPerSecond" -> "1.0"
           [] path # Root /\ path \in overPaths /\ field = "specifier" -> "over"
           [] path # Root /\ path \in overPaths /\ field = "primChildren"
                /\ path.prim \in DOMAIN childrenMap -> ChildrenOf(path.prim)
           [] path \in AttrPaths /\ field \in {"typeName", "variability", "custom"} -> "registered"
           [] path \in AttrPaths /\ field = "timeSamples" /\ SamplesAt(path) # Unregistered -> "empty map"
           [] OTHER -> NoValue

ListFields(path) ==
  StoredFields(path) \cup
  CASE path = Root ->
         {"timeCodesPerSecond"} \cup (IF <<>> \in DOMAIN childrenMap THEN {"primChildren"} ELSE {})
    [] path \in AttrPaths ->
         {"typeName", "variability", "custom"} \cup
           (IF SamplesAt(path) # Unregistered THEN {"timeSamples"} ELSE {})
    [] path # Root /\ path \in overPaths ->
         {"specifier"} \cup (IF path.prim \in DOMAIN childrenMap THEN {"primChildren"} ELSE {})
    [] OTHER -> {}

\* The specs that are visited, each once.
VisitSpecs == DOMAIN stored \cup {Root} \cup overPaths \cup AttrPaths

\* The times of the layer, and the two of them around a time.
ListAllTimeSamples ==
  UNION {TimesOf(lazyTimeSamples[p]) : p \in {q \in Paths : lazyTimeSamples[q] # Unregistered}}
LayerBracketingTimes(t) ==
  LET all == ListAllTimeSamples
      upper == IF \E x \in all : x >= t THEN Min({x \in all : x >= t}) ELSE Max(all)
      before == {x \in all : x < upper}
  IN <<IF upper > t /\ before # {} THEN Max(before) ELSE upper, upper>>

-----------------------------------------------------------------------------
PCs == {"idle", "lookup", "load", "store", "returned", "threw"}

Loading(t, p, s) == pc[t] \in {"load", "store"} /\ call[t].path = p /\ call[t].time = s

\* Types; only a caching layer looks a sample up or stores it, and a call
\* returns a value only for a sample that is registered.
TypeOK ==
  /\ cacheMode \in Modes
  /\ lazyTimeSamples \in [Paths -> Seq(Sample) \cup {Unregistered}]
  /\ attrInfos \subseteq Attributes
  /\ mount \in MountPaths
  /\ published \in BOOLEAN
  /\ timeSampleCache \in [Paths -> [Times -> Value \cup {NoValue}]]
  /\ version \in Version
  /\ pc \in [Threads -> PCs]
  /\ call \in [Threads -> Call \cup {NoCall}]
  /\ value \in [Threads -> Value \cup {NoValue}]
  /\ \A t \in Threads :
       /\ pc[t] # "idle" => published
       /\ pc[t] = "idle" <=> call[t] = NoCall
       /\ pc[t] \in {"lookup", "store"} => cacheMode = "All"
       /\ pc[t] \in {"lookup", "load", "store"} =>
            lazyTimeSamples[call[t].path] # Unregistered

Init ==
  /\ cacheMode \in Modes
  /\ lazyTimeSamples = [p \in Paths |-> Unregistered]
  /\ attrInfos = {}
  /\ overPaths = {} /\ childrenMap = <<>>
  /\ mount \in MountPaths
  /\ stored = <<>>
  /\ published = FALSE
  /\ timeSampleCache = [p \in Paths |-> [s \in Times |-> NoValue]]
  /\ version = 0
  /\ pc = [t \in Threads |-> "idle"]
  /\ call = [t \in Threads |-> NoCall]
  /\ value = [t \in Threads |-> NoValue]

-----------------------------------------------------------------------------
Goto(t, step) == pc' = [pc EXCEPT ![t] = step]


\* A reader registers the samples of an attribute, through the sorting entry
\* point when they are out of order.  The list of a chunk replaces the list of
\* its siblings.  (Each attribute registers once: a bound.)
Register(a, list) ==
  /\ ~published
  /\ a \notin attrInfos
  /\ \E s \in IF TimeSamplesAreSorted(list) THEN {list} ELSE SortedOrders(list) :
       lazyTimeSamples' = [lazyTimeSamples EXCEPT ![CanonicalPath[a]] = s]
  /\ attrInfos' = attrInfos \cup {a}
  /\ LET new == {n \in GetPrefixes(PathOf(a).prim) : PrimPath(n) \notin overPaths} IN
     /\ overPaths' = overPaths \cup {PrimPath(n) : n \in new}
     /\ childrenMap' = [parent \in DOMAIN childrenMap \cup {Front(n) : n \in new} |->
                          ChildrenOf(parent) \cup Names(parent, new)]
  /\ UNCHANGED <<cacheMode, mount, stored, published, timeSampleCache, version,
                 pc, call, value>>

\* Read ends: the structure is copied into the data, the data is set on the
\* layer, and the prims above the dataset become overs.
Publish ==
  /\ ~published
  /\ stored' = AuthorMountPathOvers(StructureLayer)
  /\ published' = TRUE
  /\ UNCHANGED <<cacheMode, lazyTimeSamples, attrInfos, overPaths, childrenMap, mount,
                 timeSampleCache, version, pc, call, value>>


\* QueryTimeSample up to the cache: a path without samples is answered by the
\* base class, a time without a sample by false.
Query(t, a, s) ==
  /\ published
  /\ pc[t] = "idle"
  /\ call' = [call EXCEPT ![t] =
               [path |-> CanonicalPath[a], time |-> s, began |-> version]]
  /\ LET list == lazyTimeSamples[CanonicalPath[a]]
     IN Goto(t, IF list = Unregistered \/ FindTimeSample(list, s) = NoLoader
                THEN "returned"
                ELSE IF ShouldCacheTimeSamples(cacheMode)
                THEN "lookup" ELSE "load")
  /\ UNCHANGED <<cacheMode, lazyTimeSamples, attrInfos, specVars, published,
                 timeSampleCache, version, value>>

Cached(t) == timeSampleCache[call[t].path][call[t].time]

\* Seeded fault: an empty array that is retained is not a hit.
Lookup_SkipEmpty(t) ==
  /\ pc[t] = "lookup"
  /\ IF Cached(t) # NoValue /\ Cached(t).holds
     THEN /\ value' = [value EXCEPT ![t] = Cached(t)]
          /\ Goto(t, "returned")
     ELSE /\ Goto(t, "load")
          /\ UNCHANGED value
  /\ UNCHANGED <<cacheMode, lazyTimeSamples, attrInfos, specVars, published,
                 timeSampleCache, version, call>>

\* The cache, under the shared lock.
Lookup(t) ==
  /\ pc[t] = "lookup"
  /\ IF Cached(t) # NoValue
     THEN /\ value' = [value EXCEPT ![t] = Cached(t)]
          /\ Goto(t, "returned")
     ELSE /\ Goto(t, "load")
          /\ UNCHANGED value
  /\ UNCHANGED <<cacheMode, lazyTimeSamples, attrInfos, specVars, published,
                 timeSampleCache, version, call>>

\* _LoadLazyField, under no lock: the loader reads the file as it now is, or
\* fails and returns an empty value.
Load(t) ==
  /\ pc[t] = "load"
  /\ \E holds \in BOOLEAN :
       value' = [value EXCEPT ![t] =
                   [loader |-> FindTimeSample(lazyTimeSamples[call[t].path], call[t].time),
                    version |-> version, holds |-> holds]]
  /\ Goto(t, IF ShouldCacheTimeSamples(cacheMode) THEN "store" ELSE "returned")
  /\ UNCHANGED <<cacheMode, lazyTimeSamples, attrInfos, specVars, published,
                 timeSampleCache, version, call>>

\* The loader throws: nothing is stored and the exception leaves the call.
LoadThrows(t) ==
  /\ pc[t] = "load"
  /\ Goto(t, "threw")
  /\ UNCHANGED <<cacheMode, lazyTimeSamples, attrInfos, specVars, published,
                 timeSampleCache, version, call, value>>

\* The store, under the exclusive lock; it replaces what another thread that
\* missed at the same time has stored.
Store(t) ==
  /\ pc[t] = "store"
  /\ timeSampleCache' = [timeSampleCache EXCEPT ![call[t].path][call[t].time] = value[t]]
  /\ Goto(t, "returned")
  /\ UNCHANGED <<cacheMode, lazyTimeSamples, attrInfos, specVars, published,
                 version, call, value>>

Return(t) ==
  /\ pc[t] \in {"returned", "threw"}
  /\ Goto(t, "idle")
  /\ call' = [call EXCEPT ![t] = NoCall]
  /\ value' = [value EXCEPT ![t] = NoValue]
  /\ UNCHANGED <<cacheMode, lazyTimeSamples, attrInfos, specVars, published,
                 timeSampleCache, version>>

\* Something outside rewrites the data file (MaxVersion is a bound).
Rewrite ==
  /\ version < MaxVersion
  /\ version' = version + 1
  /\ UNCHANGED <<cacheMode, lazyTimeSamples, attrInfos, specVars, published,
                 timeSampleCache, pc, call, value>>

Next ==
  \/ \E a \in Attributes : \E list \in SampleLists[a] : Register(a, list)
  \/ Publish
  \/ \E t \in Threads :
       \/ \E a \in Attributes, s \in Times : Query(t, a, s)
       \/ Lookup(t)
       \/ Load(t)
       \/ LoadThrows(t)
       \/ Store(t)
       \/ Return(t)
  \/ Rewrite

Spec == Init /\ [][Next]_vars

-----------------------------------------------------------------------------
(* Properties.                                                             *)

IsSampleOf(v, p, s) ==
  /\ lazyTimeSamples[p] # Unregistered
  /\ [time |-> s, loader |-> v.loader]
       \in {lazyTimeSamples[p][i] : i \in 1..Len(lazyTimeSamples[p])}

\* An array that is retained for, or handed to a caller at, a path and a time
\* was made by a loader that the reader registered for that path and time,
\* whatever aliases, times without a sample and racing loads are involved.
SampleIdentity ==
  /\ \A p \in Paths, s \in Times :
       timeSampleCache[p][s] # NoValue => IsSampleOf(timeSampleCache[p][s], p, s)
  /\ \A t \in Threads :
       pc[t] = "returned" /\ value[t] # NoValue =>
         IsSampleOf(value[t], call[t].path, call[t].time)

\* Static and None retain nothing: what a caller gets was read from the data
\* file after its call began, however often the file was rewritten before.
FreshUnlessRetained ==
  cacheMode # "All" =>
    /\ \A p \in Paths, s \in Times : timeSampleCache[p][s] = NoValue
    /\ \A t \in Threads :
         pc[t] = "returned" /\ value[t] # NoValue => value[t].version >= call[t].began

\* Once a sample is retained and the loads that raced with it have ended, its
\* value is final: no step replaces it and no call starts its loader again.
CacheSettles ==
  [][\A p \in Paths, s \in Times :
       /\ timeSampleCache[p][s] # NoValue
       /\ \A t \in Threads : ~Loading(t, p, s)
       => /\ timeSampleCache'[p][s] = timeSampleCache[p][s]
          /\ \A t \in Threads : ~Loading(t, p, s)']_vars

\* Reference definition: the greatest sample time not after s and the least
\* not before it, both the end of the list that s lies beyond.
BracketReference(times, s) ==
  LET below == {x \in times : x <= s}
      above == {x \in times : x >= s}
  IN <<IF below # {} THEN Max(below) ELSE Min(times),
       IF above # {} THEN Min(above) ELSE Max(times)>>

\* The two times a caller interpolates between are times QueryTimeSample has
\* an answer for, they are the right ones, and the type probe agrees with the
\* query about which samples of a registered attribute exist.
BracketsAreSamples ==
  \A a \in attrInfos, s \in Times :
    LET list == lazyTimeSamples[CanonicalPath[a]]
    IN /\ Len(list) > 0 =>
            /\ BracketingTimes(list, s) = BracketReference(TimesOf(list), s)
            /\ \A i \in 1..2 :
                 FindTimeSample(list, BracketingTimes(list, s)[i]) # NoLoader
       /\ QueryTimeSampleTypeid(a, s) = "registered"
            <=> s \in TimesOf(list)

\* The two times around a time, for the whole layer, are the right ones, too.
LayerBracketsAreSamples ==
  \A s \in Times :
    ListAllTimeSamples # {} => LayerBracketingTimes(s) = BracketReference(ListAllTimeSamples, s)

Fields == {"specifier", "typeName", "variability", "custom", "default", "timeSamples",
           "primChildren", "propertyChildren", "timeCodesPerSecond", "defaultPrim"}
KnownPaths == VisitSpecs \cup {PathOf(a) : a \in Attributes}

\* HasSpec, GetSpecType and the visitor know the same specs; the fields that are
\* listed are those that are there, and those are the ones that have a value.
\* (An empty layer has the children of its root without listing them.)  A
\* registered attribute never has a default.
SpecsAgree ==
  \A path \in KnownPaths :
    /\ HasSpec(path) <=> path \in VisitSpecs
    /\ HasSpec(path) <=> GetSpecType(path) # "unknown"
    /\ \A field \in Fields :
         /\ HasField(path, field) <=> GetField(path, field) # NoValue
         /\ HasField(path, field) <=> HasSpecAndField(path, field)
         /\ VisitSpecs # {Root} => (HasField(path, field) <=> field \in ListFields(path))
    /\ path \in AttrPaths => ~HasField(path, "default")

\* Every prim and every registered attribute is under a prim that the layer
\* shows, all the way from the root; once the layer is read the dataset is a
\* definition under overs, and the default prim is the first of them.
TreeIsWhole ==
  /\ \A path \in VisitSpecs :
       IF path.prop = NoProperty
       THEN path # Root =>
              Last(path.prim) \in GetField(PrimPath(Front(path.prim)), "primChildren")
       ELSE PrimPath(path.prim) \in VisitSpecs
  /\ published =>
       /\ GetField(Root, "defaultPrim") \in GetField(Root, "primChildren")
       /\ GetField(PrimPath(mount), "specifier") = "def"
       /\ \A n \in GetPrefixes(Front(mount)) : GetField(PrimPath(n), "specifier") = "over"

\* Whatever a consumer asks the layer - which specs and fields there are, their
\* values, their times - the answers agree with each other, while attributes
\* are registered as well as after the structure has been merged in.  (A query
\* changes nothing of this, so that it is enough to look between them.)
QueriesAgree ==
  (\A t \in Threads : pc[t] = "idle") =>
    BracketsAreSamples /\ LayerBracketsAreSamples /\ SpecsAgree /\ TreeIsWhole

\* A sample that is asked for, twice or from two threads, is the one that the
\* reader registered there, and no older than the cache mode allows.
RightSampleIsFound == TypeOK /\ SampleIdentity /\ FreshUnlessRetained
=============================================================================
