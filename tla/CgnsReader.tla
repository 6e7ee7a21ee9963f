------------------------------ MODULE CgnsReader ------------------------------
(***************************************************************************)
(* The CGNS reader (cgns/src): ReadCGNS walks bases, zones, grids,         *)
(* sections and flow solutions and registers a loader per array and step;  *)
(* a loader opens the file again.  The CGNS library has a cursor, which    *)
(* cg_goto moves and cg_array_read_as reads at, for the whole process: the *)
(* reader and its loaders hold one mutex while they use it.  Between two    *)
(* calls other programs may replace the file by one with another layout.   *)
(***************************************************************************)
EXTENDS Integers, Sequences, SequencesExt, FiniteSets, FiniteSetsExt

CONSTANTS
  Threads,
  Files,                   \* the contents of a file, by name
  Options,                 \* the format arguments a layer may have
  TimeScale, TimeOffset,
  MaxVersion, MaxLeaks,    \* bounds: rewrites of the file, loads that throw
  TfMakeValidIdentifier(_), \* of a node's name; other names may have the same
  None

DataTypes == {"RealSingle", "RealDouble", "Integer", "LongInteger"}
Arrays == [name: STRING, type: DataTypes, data: STRING, count: Nat]
Grids == [name: STRING, arrays: Seq(Arrays)]
Sections == [name: STRING, poly: BOOLEAN, start: Nat, end: Nat, count: Nat,
             connectivity: STRING, offsets: STRING]
Fields == [name: STRING, type: DataTypes, data: STRING]
Solutions == [name: STRING, location: {"Vertex", "CellCenter"}, fields: Seq(Fields)]
Zones == [name: STRING, structured: BOOLEAN, nodes: Nat, cells: Nat, grids: Seq(Grids),
          sections: Seq(Sections), pointers: Seq(Seq(STRING)), solutions: Seq(Solutions)]
\* An array with times that is not there is empty.
Iterative == [steps: Nat, arrays: [{"TimeValues", "IterationValues"} -> Seq(Int)]]
Bases == [name: STRING, cellDimension: Nat, iterative: Iterative \cup {None}, zones: Seq(Zones)]

\* The library lets no two children of a node have one name.
Differ(nodes) == \A i, j \in DOMAIN nodes : nodes[i].name = nodes[j].name => i = j
NamesDiffer(bases) ==
  /\ Differ(bases)
  /\ \A b \in DOMAIN bases :
       /\ Differ(bases[b].zones)
       /\ \A z \in DOMAIN bases[b].zones :
            /\ Differ(bases[b].zones[z].solutions)
            /\ \A s \in DOMAIN bases[b].zones[z].solutions :
                 Differ(bases[b].zones[z].solutions[s].fields)

ASSUME ConstantsAssumption ==
  /\ TimeScale \in Int /\ TimeOffset \in Int
  /\ MaxVersion \in Nat /\ MaxLeaks \in Nat \ {0}
  /\ None \notin Threads /\ None \notin Nat
ASSUME FilesAssumption ==
  \A name \in DOMAIN Files :
    Files[name] \in [bases: Seq(Bases)] /\ NamesDiffer(Files[name].bases)
ASSUME OptionsAssumption ==
  Options \subseteq [intSize: Int, floatSize: Int, timeSource: STRING, filterBase: STRING,
                     filterZone: STRING, numbersParse: BOOLEAN]

VARIABLES
  file,      \* the layout of the file that ReadCGNS reads
  disk,      \* the layout of the file now
  present,   \* cg_open finds it
  version,   \* of the values in it
  options,
  holder,    \* of GetCGNSMutex()
  handles,   \* how many files the library has open
  cursor,    \* the node cg_goto went to
  phase,     \* of the layer: "unread", "reading", "read" or "failed"
  pc, call, value,    \* of each thread
  at,        \* the base, the zone, the part of it and the item that ReadCGNS is at
  baseTimes, zoneIterative,  \* BaseTimeInfo of each base, ZoneIterativeInfo
  prims,     \* the paths of the prims that are defined
  attrs,     \* the lazy attributes: their type and their samples
  polyCache, \* what a PolyElementCache keeps once it is read, and its version
  polySeen,  \* of each polyhedral section: the versions that loaders returned
  leaks      \* exceptions that passed by cg_close

fileVars == <<file, disk, present, version, options>>
libraryVars == <<holder, handles, cursor>>
readVars == <<at, baseTimes, zoneIterative, prims, attrs>>
loadVars == <<call, value, polyCache, polySeen, leaks>>
vars == <<fileVars, libraryVars, phase, pc, readVars, loadVars>>

NoTime == [numSteps |-> 0, sampleValues |-> <<>>, resolved |-> <<>>]
NoPointers == [groups |-> <<>>, all |-> {}]
\* A map after an assignment to one of its keys.
With(map, key, x) == [k \in DOMAIN map \cup {key} |-> IF k = key THEN x ELSE map[k]]

Init ==
  /\ file \in {Files[name] : name \in DOMAIN Files} /\ disk = file
  /\ present \in BOOLEAN /\ version = 0
  /\ options \in Options
  /\ holder = None /\ handles = 0 /\ cursor = None
  /\ phase = "unread"
  /\ pc = [t \in Threads |-> "idle"]
  /\ call = [t \in Threads |-> None] /\ value = [t \in Threads |-> None]
  /\ at = [base |-> 1, zone |-> 0, part |-> "head", item |-> 1]
  /\ baseTimes = [b \in DOMAIN file.bases |-> NoTime] /\ zoneIterative = NoPointers
  /\ prims = {} /\ attrs = <<>>
  /\ polyCache = <<>> /\ polySeen = <<>> /\ leaks = 0

Base == file.bases[at.base]
Zone == Base.zones[at.zone]
BasePath == <<TfMakeValidIdentifier(Base.name)>>
ZonePath == <<TfMakeValidIdentifier(Base.name), TfMakeValidIdentifier(Zone.name)>>
ChildPath(node) ==
  <<TfMakeValidIdentifier(Base.name), TfMakeValidIdentifier(Zone.name),
    TfMakeValidIdentifier(node.name)>>
Goto(t, step) == pc' = [pc EXCEPT ![t] = step]

\* Seeded fault: the library is entered without the mutex.
MutexIsFree_Always == TRUE
MutexIsFree == holder = None

-----------------------------------------------------------------------------
(* Types and times.                                                        *)

\* The intSize and floatSize arguments replace the width in the file.
ResolveDataType(fileType) ==
  IF fileType \in {"RealSingle", "RealDouble"}
  THEN CASE options.floatSize = 32 -> "RealSingle"
         [] options.floatSize = 64 -> "RealDouble"
         [] OTHER -> fileType
  ELSE CASE options.intSize = 32 -> "Integer"
         [] options.intSize = 64 -> "LongInteger"
         [] OTHER -> fileType

Sdf == [RealSingle |-> "float[]", RealDouble |-> "double[]",
        Integer |-> "int[]", LongInteger |-> "int64[]"]
DataTypeToSdfTypeName(type) == Sdf[type]

SampleTimeOf(raw) == TimeOffset + TimeScale * raw

ResolveBaseSampleTimes(steps, values) ==
  IF values = <<>> THEN [i \in 1..steps |-> SampleTimeOf(i - 1)]
  ELSE [i \in DOMAIN values |-> SampleTimeOf(values[i])]

ResolveSampleTime(i) ==
  IF i <= Len(baseTimes[at.base].resolved) THEN baseTimes[at.base].resolved[i] ELSE SampleTimeOf(i - 1)

GetSingleStateSampleTime ==
  IF baseTimes[at.base].resolved = <<>> THEN TimeOffset ELSE Head(baseTimes[at.base].resolved)

GetIterativeArrayNameForTimeSource ==
  CASE options.timeSource = "TimeValue" -> "TimeValues"
    [] options.timeSource = "IterationValue" -> "IterationValues"
    [] OTHER -> ""

-----------------------------------------------------------------------------
(* ReadCGNS.                                                               *)

Reading(t, part) == pc[t] = "reading" /\ at.part = part

OpenFile(t) ==
  /\ pc[t] = "idle" /\ phase = "unread" /\ MutexIsFree
  /\ IF present
     THEN /\ holder' = t /\ handles' = handles + 1
          /\ Goto(t, "reading") /\ phase' = "reading"
     ELSE phase' = "failed" /\ UNCHANGED <<holder, handles, pc>>
  /\ UNCHANGED <<fileVars, cursor, readVars, loadVars>>

\* std::stoi and std::stod throw something else than a FileFormatError.
ParseReadOptionsThrows(t) ==
  /\ pc[t] = "reading" /\ ~options.numbersParse
  /\ holder' = None /\ phase' = "failed" /\ leaks' = leaks + 1
  /\ Goto(t, "idle")
  /\ UNCHANGED <<fileVars, handles, cursor, readVars, call, value, polyCache, polySeen>>

CloseAfterRead == handles' = handles - 1

\* Any call of the library may fail: call_safe throws and all is dropped.
ReadThrows(t) ==
  /\ pc[t] = "reading" /\ options.numbersParse
  /\ CloseAfterRead
  /\ holder' = None /\ phase' = "failed"
  /\ Goto(t, "idle")
  /\ prims' = {} /\ attrs' = <<>>
  /\ UNCHANGED <<fileVars, cursor, at, baseTimes, zoneIterative, loadVars>>

\* The array with the times is looked for at the cursor; without the node there
\* are no steps, and when it cannot be read the times are the steps.
ReadBaseTimeInfo(gotoFails, readFails) ==
  LET iterative == Base.iterative
      name == GetIterativeArrayNameForTimeSource
      values == IF readFails \/ name = "" THEN <<>> ELSE iterative.arrays[name]
  IN IF iterative = None THEN NoTime
     ELSE IF iterative.steps = 0 \/ (name # "" /\ gotoFails) THEN NoTime
     ELSE [numSteps |-> iterative.steps, sampleValues |-> values,
           resolved |-> ResolveBaseSampleTimes(iterative.steps, values)]

SkipsBase ==
  \/ Base.cellDimension # 3
  \/ options.filterBase \notin {"", Base.name}

ReadBase(t) ==
  /\ options.numbersParse
  /\ Reading(t, "head") /\ at.zone = 0 /\ at.base <= Len(file.bases)
  /\ IF SkipsBase
     THEN /\ at' = [at EXCEPT !.base = @ + 1]
          /\ UNCHANGED <<cursor, prims, baseTimes>>
     ELSE /\ \E gotoFails, readFails \in BOOLEAN :
               baseTimes' = [baseTimes EXCEPT ![at.base] = ReadBaseTimeInfo(gotoFails, readFails)]
          /\ cursor' = [base |-> at.base, zone |-> 0, grid |-> 0]
          /\ prims' = prims \cup {BasePath}
          /\ at' = [at EXCEPT !.zone = 1]
  /\ UNCHANGED <<fileVars, holder, handles, phase, pc, zoneIterative, attrs, loadVars>>

EndBase(t) ==
  /\ Reading(t, "head") /\ at.zone > 0 /\ at.zone > Len(Base.zones)
  /\ at' = [at EXCEPT !.base = @ + 1, !.zone = 0]
  /\ UNCHANGED <<fileVars, libraryVars, phase, pc, baseTimes, zoneIterative, prims, attrs, loadVars>>

SkipsZone ==
  \/ Zone.structured
  \/ options.filterZone \notin {"", Zone.name}

ReadZone(t) ==
  /\ Reading(t, "head") /\ at.zone > 0 /\ at.zone <= Len(Base.zones)
  /\ IF SkipsZone
     THEN at' = [at EXCEPT !.zone = @ + 1] /\ UNCHANGED prims
     ELSE at' = [at EXCEPT !.part = "grids", !.item = 1] /\ prims' = prims \cup {ZonePath}
  /\ UNCHANGED <<fileVars, libraryVars, phase, pc, baseTimes, zoneIterative, attrs, loadVars>>

\* A lazy attribute.
Attr(path, name, type, samples) ==
  [key |-> <<path, name>>, type |-> DataTypeToSdfTypeName(type), samples |-> samples]
RegisterLazySingleState(path, name, type, time, loader) ==
  Attr(path, name, type, <<[time |-> time, loader |-> loader]>>)

\* Attributes are registered in the order of their numbers; registering one
\* again replaces it.
AttrsWith(more) ==
  LET of(key) == {n \in DOMAIN more : more[n].key = key} IN
  [key \in DOMAIN attrs \cup {more[n].key : n \in DOMAIN more} |->
     IF of(key) = {} THEN attrs[key] ELSE more[Max(of(key))]]
RegisterAll(more) == attrs' = AttrsWith(more)

GetGridCoordinateInstanceName(name, i) ==
  LET Axes == <<"X", "Y", "Z">> IN
  CASE name = "CoordinateX" -> "X"
    [] name = "CoordinateY" -> "Y"
    [] name = "CoordinateZ" -> "Z"
    [] OTHER -> IF i <= 3 THEN Axes[i] ELSE ""

\* An array of no values is given a value per node.
CoordValueCount(zone, array) == IF array.count = 0 THEN zone.nodes ELSE array.count

CoordAttrs(grid) ==
  LET attr(i) ==
        LET type == ResolveDataType(grid.arrays[i].type) IN
        RegisterLazySingleState(ChildPath(grid),
          GetGridCoordinateInstanceName(grid.arrays[i].name, i), type, GetSingleStateSampleTime,
          [kind |-> "coordinate", base |-> at.base, zone |-> at.zone, grid |-> at.item,
           array |-> i, type |-> type, count |-> CoordValueCount(Zone, grid.arrays[i])])
  IN [i \in {i \in DOMAIN grid.arrays :
               GetGridCoordinateInstanceName(grid.arrays[i].name, i) # ""} |-> attr(i)]

NextItem == at' = [at EXCEPT !.item = @ + 1]
NextPart(part) == at' = [at EXCEPT !.part = part, !.item = 1]

ReadGridCoordinates(t) ==
  /\ Reading(t, "grids")
  /\ IF at.item > Len(Zone.grids)
     THEN NextPart("sections") /\ UNCHANGED <<cursor, prims, attrs>>
     ELSE LET grid == Zone.grids[at.item] IN
          /\ cursor' = [base |-> at.base, zone |-> at.zone, grid |-> at.item]
          /\ prims' = prims \cup {ChildPath(grid)}
          /\ RegisterAll(CoordAttrs(grid))
          /\ NextItem
  /\ UNCHANGED <<fileVars, holder, handles, phase, pc, baseTimes, zoneIterative, loadVars>>

\* There is an offset per element, and one more.
OffsetCount(section) == section.end - section.start + 2

\* The connectivity, and the offsets of a section with polygons or polyhedra.
SectionAttrs(section) ==
  LET type == ResolveDataType("LongInteger")
      attr(name) == RegisterLazySingleState(ChildPath(section), name, type,
                      GetSingleStateSampleTime,
                      [kind |-> IF section.poly THEN "poly" ELSE "elements", values |-> name,
                       base |-> at.base, zone |-> at.zone, section |-> at.item, type |-> type,
                       count |-> OffsetCount(section)])
  IN IF section.poly THEN <<attr("connectivity"), attr("offsets")>>
     ELSE <<attr("connectivity")>>

ReadSections(t) ==
  /\ Reading(t, "sections")
  /\ IF at.item > Len(Zone.sections)
     THEN NextPart("pointers") /\ UNCHANGED <<prims, attrs>>
     ELSE LET section == Zone.sections[at.item] IN
          /\ prims' = prims \cup {ChildPath(section)}
          /\ RegisterAll(SectionAttrs(section))
          /\ NextItem
  /\ UNCHANGED <<fileVars, libraryVars, phase, pc, baseTimes, zoneIterative, loadVars>>

\* Of two pointer arrays with the same first solution the later one counts.
StartingWith(arrays, name) ==
  {n \in DOMAIN arrays : arrays[n] # <<>> /\ arrays[n][1] = name}
PointersOf(arrays) ==
  [groups |-> [name \in {arrays[n][1] : n \in {n \in DOMAIN arrays : arrays[n] # <<>>}} |->
                arrays[Max(StartingWith(arrays, name))]],
   all |-> UNION {ToSet(arrays[n]) : n \in DOMAIN arrays}]

ReadZoneIterativeInfo(t) ==
  /\ Reading(t, "pointers")
  /\ zoneIterative' = IF baseTimes[at.base].numSteps = 0 THEN NoPointers ELSE PointersOf(Zone.pointers)
  /\ cursor' = IF baseTimes[at.base].numSteps = 0 THEN cursor
               ELSE [base |-> at.base, zone |-> at.zone, grid |-> 0]
  /\ NextPart("solutions")
  /\ UNCHANGED <<fileVars, holder, handles, phase, pc, baseTimes, prims, attrs, loadVars>>

BuildSolutionIndexMap ==
  [name \in {Zone.solutions[s].name : s \in DOMAIN Zone.solutions} |->
    CHOOSE s \in DOMAIN Zone.solutions : Zone.solutions[s].name = name]

\* Seeded fault: the steps that are in the file are numbered one after another.
StepTime_Dense(steps, i) ==
  ResolveSampleTime(Cardinality({j \in 1..i : steps[j] \in DOMAIN BuildSolutionIndexMap}))
StepTime(steps, i) == ResolveSampleTime(i)

\* The steps of a group whose solutions are in the file, in the order of their
\* times; those with the same time stay in some order.
StepsFound(steps) == {i \in DOMAIN steps : steps[i] \in DOMAIN BuildSolutionIndexMap}
IsBefore(steps, i, j) ==
  \/ StepTime(steps, i) < StepTime(steps, j)
  \/ StepTime(steps, i) = StepTime(steps, j) /\ i < j
Place(steps, i) == Cardinality({j \in StepsFound(steps) : IsBefore(steps, j, i)}) + 1
SortedByTime(steps) ==
  [n \in 1..Cardinality(StepsFound(steps)) |->
     CHOOSE i \in StepsFound(steps) : Place(steps, i) = n]

FieldSamples(solution, loader) ==
  IF solution.name \in DOMAIN zoneIterative.groups
  THEN LET steps == zoneIterative.groups[solution.name]
           order == SortedByTime(steps)
       IN [n \in DOMAIN order |->
            [time |-> StepTime(steps, order[n]),
             loader |-> [loader EXCEPT !.solution = BuildSolutionIndexMap[steps[order[n]]]]]]
  ELSE <<[time |-> ResolveSampleTime(1), loader |-> loader]>>

\* Nodes are counted for every location but the centres of the cells.
DataSize(zone, location) == IF location = "CellCenter" THEN zone.cells ELSE zone.nodes

RegisterFlowSolutionField(s, f) ==
  LET solution == Zone.solutions[s]
      type == ResolveDataType(solution.fields[f].type)
  IN Attr(ChildPath(solution), TfMakeValidIdentifier(solution.fields[f].name), type,
       FieldSamples(solution,
         [kind |-> "field", base |-> at.base, zone |-> at.zone, solution |-> s,
          name |-> solution.fields[f].name, type |-> type,
          count |-> DataSize(Zone, solution.location)]))

\* Seeded fault: a solution that some pointer names is no prim of its own.
IsSkipped_Member(name) ==
  name \in zoneIterative.all
IsSkipped(name) ==
  name \in zoneIterative.all /\ name \notin DOMAIN zoneIterative.groups

ReadFlowSolution(t) ==
  /\ Reading(t, "solutions") /\ at.item <= Len(Zone.solutions)
  /\ LET solution == Zone.solutions[at.item] IN
     IF IsSkipped(solution.name) THEN UNCHANGED <<prims, attrs>>
     ELSE /\ prims' = prims \cup {ChildPath(solution)}
          /\ RegisterAll([f \in DOMAIN solution.fields |-> RegisterFlowSolutionField(at.item, f)])
  /\ NextItem
  /\ UNCHANGED <<fileVars, libraryVars, phase, pc, baseTimes, zoneIterative, loadVars>>

EndZone(t) ==
  /\ Reading(t, "solutions") /\ at.item > Len(Zone.solutions)
  /\ at' = [at EXCEPT !.zone = @ + 1, !.part = "head"]
  /\ UNCHANGED <<fileVars, libraryVars, phase, pc, baseTimes, zoneIterative, prims, attrs, loadVars>>

\* _SetLayerData publishes the attributes.
EndRead(t) ==
  /\ Reading(t, "head") /\ at.base > Len(file.bases)
  /\ CloseAfterRead
  /\ holder' = None /\ phase' = "read"
  /\ Goto(t, "idle")
  /\ UNCHANGED <<fileVars, cursor, readVars, loadVars>>

-----------------------------------------------------------------------------
(* MakeCGNSLoader.                                                         *)

\* A loader that cannot open the file returns an empty value, and no more happens.
CallLoader(t) ==
  /\ pc[t] = "idle" /\ phase = "read" /\ MutexIsFree /\ present
  /\ leaks < MaxLeaks
  /\ \E key \in DOMAIN attrs : \E i \in DOMAIN attrs[key].samples :
       call' = [call EXCEPT ![t] = [key |-> key, sample |-> i, type |-> attrs[key].type,
                                    loader |-> attrs[key].samples[i].loader]]
  /\ holder' = t /\ handles' = handles + 1 /\ Goto(t, "open")
  /\ UNCHANGED <<fileVars, cursor, phase, readVars, value, polyCache, polySeen, leaks>>

\* Loaders have the indices and the counts of the file that was read; what they
\* do not find in the file as it is now makes a call of the library fail, which
\* leaves only LoadThrows.
HasZone(l) == l.base \in DOMAIN disk.bases /\ l.zone \in DOMAIN disk.bases[l.base].zones
ZoneNow(l) == disk.bases[l.base].zones[l.zone]

\* cg_goto to the grid of a coordinate array.
GotoGrid(t) ==
  LET loader == call[t].loader IN
  /\ pc[t] = "open" /\ loader.kind = "coordinate"
  /\ HasZone(loader) /\ loader.grid \in DOMAIN ZoneNow(loader).grids
  /\ cursor' = [base |-> loader.base, zone |-> loader.zone, grid |-> loader.grid]
  /\ Goto(t, "atGrid")
  /\ UNCHANGED <<fileVars, holder, handles, phase, readVars, loadVars>>

Value(data, type, count) ==
  [data |-> data, type |-> DataTypeToSdfTypeName(type), count |-> count]
\* A buffer of another length than the array's is written past its end, or not to
\* the end: what is in it then is nobody's.
Filled(data, length, type, count) ==
  Value(IF length = count THEN data ELSE None, type, count)
Give(t, v) ==
  /\ value' = [value EXCEPT ![t] = v]
  /\ Goto(t, "close")

\* All of the array at the cursor, wherever that is by now.
ReadCurrentCGNSArrayAsValue(t) ==
  LET loader == call[t].loader IN
  /\ pc[t] = "atGrid" /\ cursor.grid > 0
  /\ LET arrays == disk.bases[cursor.base].zones[cursor.zone].grids[cursor.grid].arrays IN
     /\ loader.array \in DOMAIN arrays
     /\ Give(t, Filled(arrays[loader.array].data, arrays[loader.array].count,
                       loader.type, loader.count))
  /\ UNCHANGED <<fileVars, libraryVars, phase, readVars, call, polyCache, polySeen, leaks>>

\* cg_ElementDataSize tells the length at every load.
ReadElementConnectivityAsValue(t) ==
  LET loader == call[t].loader IN
  /\ pc[t] = "open" /\ loader.kind = "elements"
  /\ HasZone(loader) /\ loader.section \in DOMAIN ZoneNow(loader).sections
  /\ LET section == ZoneNow(loader).sections[loader.section] IN
     /\ ~section.poly
     /\ Give(t, Value(section.connectivity, loader.type, section.count))
  /\ UNCHANGED <<fileVars, libraryVars, phase, readVars, call, polyCache, polySeen, leaks>>

\* call_once: the first of the two loaders reads both arrays.
PolyElements(key, section) ==
  IF key \in DOMAIN polyCache THEN polyCache[key] ELSE [version |-> version, section |-> section]

\* The offsets go to a buffer of the length that the section had when it was read.
ReadPolyElementsAsValues(t) ==
  LET loader == call[t].loader
      key == <<loader.base, loader.zone, loader.section>>
      elements == PolyElements(key, ZoneNow(loader).sections[loader.section])
      seen == IF key \in DOMAIN polySeen THEN polySeen[key] ELSE {}
  IN
  /\ pc[t] = "open" /\ loader.kind = "poly"
  /\ HasZone(loader) /\ loader.section \in DOMAIN ZoneNow(loader).sections
  /\ elements.section.poly
  /\ polyCache' = With(polyCache, key, elements)
  /\ polySeen' = With(polySeen, key, seen \cup {elements.version})
  /\ Give(t, IF loader.values = "offsets"
             THEN Filled(elements.section.offsets, OffsetCount(elements.section),
                         loader.type, loader.count)
             ELSE Value(elements.section.connectivity, loader.type, elements.section.count))
  /\ UNCHANGED <<fileVars, libraryVars, phase, readVars, call, leaks>>

\* cg_field_read fails without the field, and past the end of it; of a structured
\* zone it takes the range to have three dimensions.
ReadFlowSolutionField(t) ==
  LET loader == call[t].loader IN
  /\ pc[t] = "open" /\ loader.kind = "field"
  /\ HasZone(loader) /\ loader.solution \in DOMAIN ZoneNow(loader).solutions
  /\ LET zone == ZoneNow(loader)
         solution == zone.solutions[loader.solution]
     IN \E f \in DOMAIN solution.fields :
          /\ solution.fields[f].name = loader.name
          /\ loader.count <= DataSize(zone, solution.location)
          /\ Give(t, Value(IF zone.structured THEN None ELSE solution.fields[f].data,
                           loader.type, loader.count))
  /\ UNCHANGED <<fileVars, libraryVars, phase, readVars, call, polyCache, polySeen, leaks>>

\* Seeded fault: an exception skips the unlock, too.
UnlockOnThrow_Not == UNCHANGED holder
UnlockOnThrow == holder' = None
\* call_safe throws in the loader: the mutex is released, cg_close is not called.
LoadThrows(t) ==
  /\ pc[t] \in {"open", "atGrid"}
  /\ UnlockOnThrow /\ leaks' = leaks + 1
  /\ Goto(t, "idle")
  /\ call' = [call EXCEPT ![t] = None]
  /\ UNCHANGED <<fileVars, handles, cursor, phase, readVars, value, polyCache, polySeen>>

\* What is left of the call after the unlock, its value, is the caller's.
CloseFile(t) ==
  /\ pc[t] = "close"
  /\ CloseAfterRead
  /\ holder' = None
  /\ Goto(t, "idle")
  /\ call' = [call EXCEPT ![t] = None] /\ value' = [value EXCEPT ![t] = None]
  /\ UNCHANGED <<fileVars, cursor, phase, readVars, polyCache, polySeen, leaks>>

-----------------------------------------------------------------------------
(* Other programs.                                                         *)

\* A file that is replaced before it is read is another file to begin with, and a
\* call keeps the one that it opened.
Rewrite ==
  /\ version < MaxVersion /\ version' = version + 1
  /\ phase = "read" /\ \A t \in Threads : pc[t] = "idle"
  /\ present' = TRUE /\ disk' \in {Files[name] : name \in DOMAIN Files}
  /\ UNCHANGED <<file, options, libraryVars, phase, pc, readVars, loadVars>>

Delete ==
  /\ present /\ present' = FALSE
  /\ UNCHANGED <<file, disk, version, options, libraryVars, phase, pc, readVars, loadVars>>

ReadStep(t) ==
  \/ OpenFile(t) \/ ParseReadOptionsThrows(t) \/ ReadThrows(t) \/ ReadBase(t) \/ EndBase(t) \/ ReadZone(t)
  \/ ReadGridCoordinates(t) \/ ReadSections(t) \/ ReadZoneIterativeInfo(t)
  \/ ReadFlowSolution(t) \/ EndZone(t) \/ EndRead(t)
LoadStep(t) ==
  \/ GotoGrid(t) \/ ReadCurrentCGNSArrayAsValue(t) \/ ReadElementConnectivityAsValue(t)
  \/ ReadPolyElementsAsValues(t) \/ ReadFlowSolutionField(t) \/ LoadThrows(t)
  \/ CloseFile(t)

Next ==
  \/ \E t \in Threads : ReadStep(t) \/ CallLoader(t) \/ LoadStep(t)
  \/ Rewrite \/ Delete

\* A thread that is in a call goes on; nobody has to call.
Spec ==
  /\ Init /\ [][Next]_vars
  /\ \A t \in Threads : WF_vars(pc[t] # "idle" /\ (ReadStep(t) \/ LoadStep(t)))

-----------------------------------------------------------------------------
(* Properties.                                                             *)

\* What a zone says of a solution: the pointer array it is the first of, if
\* there are steps, and itself alone otherwise.
StepsOf(b, zone, leader) ==
  LET starting == StartingWith(zone.pointers, leader) IN
  IF baseTimes[b].numSteps = 0 \/ starting = {} THEN <<leader>>
  ELSE zone.pointers[Max(starting)]
RawTime(b, i) ==
  IF i \in DOMAIN baseTimes[b].sampleValues THEN baseTimes[b].sampleValues[i] ELSE i - 1
TimeOfStep(b, i) == TimeOffset + TimeScale * RawTime(b, i)

NamedNodes(nodes, name) == {nodes[n] : n \in {n \in DOMAIN nodes : nodes[n].name = name}}

Identified(nodes, id) ==
  {nodes[n] : n \in {n \in DOMAIN nodes : TfMakeValidIdentifier(nodes[n].name) = id}}

\* The arrays that an attribute may stand for, and how many values they have.  Those
\* of a coordinate without any values are undefined.
IsCoordinate(zone, key, v) ==
  \E grid \in Identified(zone.grids, key[1][3]) : \E i \in DOMAIN grid.arrays :
    LET array == grid.arrays[i] IN
    /\ GetGridCoordinateInstanceName(array.name, i) = key[2]
    /\ v.count = CoordValueCount(zone, array)
    /\ v.count = array.count => v.data = array.data
IsElements(zone, key, v) ==
  \E section \in Identified(zone.sections, key[1][3]) :
    IF key[2] = "offsets" THEN v.data = section.offsets /\ v.count = OffsetCount(section)
    ELSE v.data = section.connectivity /\ v.count = section.count

\* The solutions that a solution stands for at a time.
SolutionsAt(b, zone, leader, time) ==
  UNION {NamedNodes(zone.solutions, StepsOf(b, zone, leader)[i]) :
           i \in {i \in DOMAIN StepsOf(b, zone, leader) : TimeOfStep(b, i) = time}}
\* A field is complete if its solution is where the leader of the samples is.
IsField(b, zone, key, time, v) ==
  \E leader \in Identified(zone.solutions, key[1][3]) :
  \E solution \in SolutionsAt(b, zone, leader.name, time) :
  \E field \in Identified(solution.fields, key[2]) :
    /\ v.data = field.data
    /\ solution.location = leader.location => v.count = DataSize(zone, solution.location)

\* The part of the file that a loader reads is where and as it was when the layer
\* was read, whatever else has changed.
IsAsRead(l) ==
  LET before == file.bases[l.base].zones[l.zone] IN
  CASE l.kind = "coordinate" -> ZoneNow(l).grids[l.grid] = before.grids[l.grid]
    [] l.kind = "elements" -> ZoneNow(l).sections[l.section] = before.sections[l.section]
    [] l.kind = "poly" ->
         polyCache[<<l.base, l.zone, l.section>>].section = before.sections[l.section]
    [] OTHER -> /\ ZoneNow(l).solutions[l.solution] = before.solutions[l.solution]
                /\ ZoneNow(l).structured = before.structured
                /\ ZoneNow(l).nodes = before.nodes /\ ZoneNow(l).cells = before.cells

\* A value is that of an array which an attribute and a time name.
IsNamed(key, time, v) ==
  \E b \in DOMAIN file.bases : \E z \in DOMAIN file.bases[b].zones :
    LET zone == file.bases[b].zones[z] IN
    /\ key[1][1] = TfMakeValidIdentifier(file.bases[b].name)
    /\ key[1][2] = TfMakeValidIdentifier(zone.name)
    /\ IsCoordinate(zone, key, v) \/ IsElements(zone, key, v) \/ IsField(b, zone, key, time, v)

\* A loader gives the array that its prim, its attribute and its time name, with all
\* of its values, in the declared type, whatever other loaders do with the library
\* meanwhile and whatever other parts of the file are replaced.  How many values a
\* later solution has that is not located where its leader is, is left open: the
\* code takes the leader's size for it (FieldsHaveTheirSize does not hold).
RightArray ==
  \A t \in Threads : pc[t] = "close" =>
    LET key == call[t].key
        time == attrs[key].samples[call[t].sample].time
    IN /\ value[t].type = attrs[key].type
       /\ IsAsRead(call[t].loader) => IsNamed(key, time, value[t])

\* The pointer arrays that count: of those that start alike, the last.
LeadingArrays(b, zone) ==
  IF baseTimes[b].numSteps = 0 THEN {}
  ELSE {StepsOf(b, zone, zone.pointers[n][1]) :
          n \in {n \in DOMAIN zone.pointers : zone.pointers[n] # <<>>}}
InFile(zone, name) == NamedNodes(zone.solutions, name) # {}

AreSamplesOf(b, zone, steps, samples) ==
  LET found == {i \in DOMAIN steps : InFile(zone, steps[i])} IN
  /\ {<<samples[n].time, zone.solutions[samples[n].loader.solution].name>> :
        n \in DOMAIN samples} = {<<TimeOfStep(b, i), steps[i]>> : i \in found}
  /\ Len(samples) = Cardinality(found)
  /\ \A m, n \in DOMAIN samples : m < n => samples[m].time <= samples[n].time

PathOf(b, z) ==
  <<TfMakeValidIdentifier(file.bases[b].name),
    TfMakeValidIdentifier(file.bases[b].zones[z].name)>>
NodeOf(b, z, name) ==
  <<TfMakeValidIdentifier(file.bases[b].name),
    TfMakeValidIdentifier(file.bases[b].zones[z].name), TfMakeValidIdentifier(name)>>
\* No other node beside it has its identifier: of those that share one, what is
\* registered last replaces the others.
IsApart(nodes, n) ==
  \A m \in DOMAIN nodes :
    TfMakeValidIdentifier(nodes[m].name) = TfMakeValidIdentifier(nodes[n].name) => m = n
ZoneIsApart(b, z) == IsApart(file.bases, b) /\ IsApart(file.bases[b].zones, z)

\* A field of the first solution of a pointer array has a sample for each step
\* whose solution is in the file, at the time of that step, in order of time.
SamplesOfTheirStep ==
  phase = "read" =>
    \A b \in DOMAIN file.bases : \A z \in DOMAIN file.bases[b].zones :
      LET zone == file.bases[b].zones[z] IN
      ZoneIsApart(b, z) =>
        \A steps \in LeadingArrays(b, zone) : \A l \in DOMAIN zone.solutions :
          steps[1] = zone.solutions[l].name /\ IsApart(zone.solutions, l) =>
            \A f \in DOMAIN zone.solutions[l].fields :
              LET key == <<NodeOf(b, z, steps[1]),
                           TfMakeValidIdentifier(zone.solutions[l].fields[f].name)>> IN
              key \in DOMAIN attrs => AreSamplesOf(b, zone, steps, attrs[key].samples)

IsSample(b, z, s) ==
  \E key \in DOMAIN attrs : \E n \in DOMAIN attrs[key].samples :
    LET loader == attrs[key].samples[n].loader IN
    /\ loader.kind = "field"
    /\ loader.base = b /\ loader.zone = z /\ loader.solution = s
ArraysWith(zone, name) == {n \in DOMAIN zone.pointers : name \in ToSet(zone.pointers[n])}
\* Each array it is in starts with a solution that is not in the file, has no
\* fields, shares its identifier, or starts another.
HasNoLeader(b, zone, name) ==
  /\ baseTimes[b].numSteps # 0 /\ ArraysWith(zone, name) # {}
  /\ \A n \in ArraysWith(zone, name) :
       /\ zone.pointers[n][1] # name
       /\ \/ \A l \in DOMAIN zone.solutions :
               zone.solutions[l].name = zone.pointers[n][1] =>
                 zone.solutions[l].fields = <<>> \/ ~IsApart(zone.solutions, l)
          \/ zone.pointers[n] \notin LeadingArrays(b, zone)

\* No flow solution of a zone that is shown gets lost: it has a prim or is a
\* sample of one.  Only where there are steps, a solution of some pointer array
\* that is the first of none may be neither: when none of them has a leader.
EverySolutionShown ==
  phase = "read" =>
    \A b \in DOMAIN file.bases : \A z \in DOMAIN file.bases[b].zones :
      LET zone == file.bases[b].zones[z] IN
      ZoneIsApart(b, z) /\ PathOf(b, z) \in prims =>
        \A s \in DOMAIN zone.solutions :
          IsApart(zone.solutions, s) =>
            \/ NodeOf(b, z, zone.solutions[s].name) \in prims
            \/ IsSample(b, z, s)
            \/ HasNoLeader(b, zone, zone.solutions[s].name)

\* Whatever fails, the library has no file open but that of the call that holds
\* the mutex and those of exceptions that no handler in this reader closes after.
NoOtherHandles == handles = leaks + (IF holder = None THEN 0 ELSE 1)

\* The connectivity and the offsets of a polyhedral section, which only make
\* sense together, come from one read of the file.
PolyArraysMatch == \A key \in DOMAIN polySeen : Cardinality(polySeen[key]) <= 1

\* Whatever is read before, beside and after it, a loader gives the array it was
\* registered for as long as that is in its place, and of arrays that belong
\* together those of one moment.
LoadersGiveTheirArray == RightArray /\ PolyArraysMatch

\* Every call, also one that throws, gives the mutex back and leaves the library
\* as the next one needs it.
LibraryIsLeftFree == \A t \in Threads : holder = t ~> holder # t /\ NoOtherHandles

\* docs/file_formats/architecture.md:41: the backend holds "loader callbacks for
\* large values, without decoded buffers or permanently open handles".
NoPermanentHandles == holder = None => handles = 0

\* docs/conceptual_data_mapping/cgns.md:394: "Array length: `VertexSize` for
\* vertex-located fields, `CellSize` for cell-centred fields."
FieldsHaveTheirSize ==
  \A t \in Threads :
    pc[t] = "close" /\ call[t].loader.kind = "field" /\ disk = file =>
      LET zone == ZoneNow(call[t].loader) IN
      value[t].count = DataSize(zone, zone.solutions[call[t].loader.solution].location)

\* The array that a prim, an attribute and a time name, also when the file has been
\* replaced by one with another layout.
RightInAnyLayout ==
  \A t \in Threads : pc[t] = "close" =>
    LET key == call[t].key IN
    IsNamed(key, attrs[key].samples[call[t].sample].time, value[t])

=============================================================================
