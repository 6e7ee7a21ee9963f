# A verification development for cae-openusd-plugins

TLA+ models of the OpenUSD file-format plugins under `source/file_formats`, the
TLC configurations that check them on small instances, and TLAPS proofs of the
properties that matter most. Every definition translates C++ of this
repository; `PROJECT.json` names the lines of each. Paths below are relative to
`source/file_formats/` unless they start with `docs/`.

## 1. The system

A plugin reads one CAE file, authors its *structure* (prims, attributes, types)
into a USD layer and registers *loaders* that fetch the heavy arrays later. One
read runs in one thread. After it, any number of OpenUSD threads resolve values
of the layer, in any order, until the layer is reloaded or dropped.

```
 SdfLayer ── Read ──> plugin (VTK, EnSight, OpenFOAM, FLASH, ...)
    │                   │  CaeOpenResolverAsset ──> ResolverAsset (lease, temporary copy)
    │                   │  GetOrParse ───────────> DatasetSpecCache (VTK only)
    │                   │  scan the series ──────> sample times (FLASH, EDEM, VTKHDF, OpenFOAM, ...)
    │                   │  Register + KeepAlive ─> CaeFileFormatData
    │ <─ _SetLayerData ─┘
    │
    └─ QueryTimeSample ──> CaeFileFormatData ──> loader ──> GetGeoIndex / GetVariableIndex (EnSight)
        (many threads)        (sample cache)           └──> parallel array read (VTK, EnSight, OpenFOAM)
```

### Inventory

| Component | State it keeps | Operations | What is hard | What makes it correct |
|---|---|---|---|---|
| Parse cache, `vtk/src/DatasetSpecCache.cpp` | entries by path, each with a file signature; flights in progress, each with a condition variable | `GetOrParse`, `Clear`, eviction | parse runs unlocked; waiters; a leader that throws; files rewritten meanwhile | one parse per path at a time, no forgotten waiter, no answer older than the call, bounded size |
| EnSight index caches, `ensight/src/OmniSciEnSightFileFormat.cpp:292-337, 896-1140` | two process-wide maps of shared futures | `GetGeoIndex`, `GetVariableIndex` | racing misses, nested waits, failing builds that erase their key | one build per key, nobody waits on a promise nobody keeps, variable offsets fit the geometry |
| Layer data, `shared/CaeFileFormatData.cpp` | specs, sample lists by canonical path, retained values, leases | register, query, bracket, list, keep alive | loaders run unlocked, chunk aliases share a path, three retention modes | the value handed out belongs to the path and time asked for, retained values settle |
| Resolver assets, `shared/ResolverAsset.cpp`, `shared/MountPath.h` | leases; temporary directories | open, materialize, resolve child, destroy; root prim path | nine places to fail between the directory and its owner; loaders reopen paths much later | no orphaned directory, no loader without its file, stable root prim |
| `Read` and `CanRead` of each plugin | the layer's data and default prim | read, probe | late failures after the data was replaced; loaders outlive the call | a failed call leaves the data alone, and the specs unless a python callback has edited them by then; the default prim is the root of the structure |
| Parallel array reads, `vtk/src/FileHandle.cpp:102-163`, EnSight `1144-1320`, OpenFOAM `400-460` | a shared uninitialized array, an atomic flag | cut, read, fail, join | division with remainder, unlocked writes, failures and truncation midway | all elements stored, none by two tasks, nothing running after return |
| VTK parsers, `vtk/src/XmlParser.cpp`, `LegacyParser.cpp`, `ArrayEvaluator.cpp`, `ScalarPayloadReader.cpp` | none between calls | parse, evaluate, decode | block tables, base64 boundaries, payloads whose place only counting finds, names that collide, segments used long after the parse | the bytes of the array, in the announced type, or an error |
| Series of FLASH, VTKHDF, EDEM, OpenFOAM | none between calls | list files, order them, map steps to times, pick fields, register samples | directory order, gaps and duplicate numbers, stored times that run against the names, a solver still writing, files without a time step yet | every file once, each sample at its own file's time, sorted lists, fields that exist where promised |
| CGNS reader, `cgns/src` | a mutex around a library with one cursor; a cache of polygonal elements | walk the file, register, load | go-to and read of two threads, exceptions between open and close, solutions folded into series, loaders that keep the indices and sizes of a file that is replaced | each array its own and whole, each solution shown, the library free after every call |
| Eclipse readers, `eclipse/src` | none between calls | tokenize and index, parse, load | includes that form cycles, a simulator that is still writing, report headers that are late or missing | arrays of the records that were met, whole records, samples at their report step |
| FLASH, VTKHDF, EDEM, EnSight, OpenFOAM: contents of a file | FLASH: a mutex around its library | load an array | offsets of partitions, an HDF5 library they share | each array of its own step |
| Python reader base, `shared/PythonFileFormatBase.cpp`, with NumPy, NanoVDB, Trimesh and the proxy on top | the callback's results | read callback, rebase, lazy fields | the callback edits the live layer and nothing undoes it when the read fails later; the mount path moves what it authored | fields at the prims they were declared for, under the mount path; data and leases kept by a call that fails |
| Dynamic arguments, containers, schemas, packaging | none | | | not modelled: stateless or generated |

The hazards found while reading, each at its line and with the properties that
watch it, are in `PROJECT.json` under `hazards`.

## 2. Modules

| Module | Models | State ↔ code | Actions ↔ code |
|---|---|---|---|
| `DatasetSpecCache` | the VTK parse cache | `entries` ↔ `_cache`, `inFlight` ↔ `_inFlight`, `flight` ↔ the `InFlight` objects, `ref` ↔ the local `shared_ptr`, `sig` ↔ the local signature, `out` ↔ the spec or exception in hand, `file` ↔ version of each file on disk | one per critical section and one per read of the file: `ReadFileSize`, `ReadLastWriteTime`, `ComputeQuickContentHash`, `Hit`/`Join`/`Lead` (one lock), `Parse`, `PublishSpec`/`PublishException` (one lock, eviction included), `NotifyAll` (outside the lock), `TakeShared`/`Retry`, `Clear` |
| `FileReadService` | what the cache promises: each call reads the file itself, at one moment of the call | | |
| `EnSightIndexCache` | both future maps | `cache` ↔ the maps, `future` ↔ the shared states, `pc`, `key`, `ref` by frame: each thread has one frame per nested call | `Find` (shared lock), `Insert` (exclusive lock), `Build`, `AskGeometry`/`GeometryReturned` (the nested wait), `SetValue`/`SetException`, `Erase`, `Get` |
| `LazySamples` | the layer data: registration, queries and retention of samples; specs, fields, children, visiting and listing over SdfData and registered attributes; the overs above a mount path | `lazyTimeSamples`, `attrInfos`, `timeSampleCache`, `cacheMode`, `overPaths`, `childrenMap` as in the code; `stored` ↔ the specs of SdfData, `mount` ↔ the path of the dataset prim | `Register`, `Publish` (the structure is merged in), `Query`, `Lookup` (shared lock), `Load` and `LoadThrows` (no lock), `Store` (exclusive lock); the queries that change nothing (`HasSpec`, `GetField`, `ListFields`, `VisitSpecs`, `LayerBracketingTimes`, ...) are operators |
| `LayerRead` | `Read` and `CanRead`, leases, temporary copies, root prim | `directory`, `content`, `strategy` of a lease; `held` ↔ the reader's local pointers; `pending`, `data` ↔ the layer data and the leases it retains, `specs`, `defaultPrim` ↔ its structure; `before` is history | one per step that can fail: `MakeTmpSubdir`, `CreateOutput`, `CopyChunk`, `CloseOutput`, `Parse`, `OpenChild`, `RegisterLoaders`, `KeepAlive`, `SetLayerData`, `Place`, and the failures |
| `PythonRead` | `PythonFileFormatBase::Read` beside the native readers: extends `LayerRead` with a `reader` per layer | `python` ↔ what the callback authored and declared (`PythonReadResult`, the prims of the layer with their origin, its default prim, the mount path); `edited` is history: the callback has authored into the live layer | `CallRead`, `CallbackRaises`, `ResultIsRefused`, `ResultIsParsed`, `RebasePythonReadResult`, `RebaseNothing`, `RebaseFails`, `RegisterPythonLazyFields`, `SetPythonLayerData`; opening, retaining and returning are the steps of `LayerRead` |
| `ParallelRead` | the three parallel readers | `array` ↔ the destination, `failed`/`failure` ↔ the flag and the message, `bodies` ↔ the ranges `WorkParallelForN` hands out | `NextTask`, `ReadPiece`, `ReadFails`, `StopEarly`, `Report`, `EndTask`, `Join` |
| `SeriesScan` | the series scans of FLASH (pattern manifests), EDEM, VTKHDF and OpenFOAM | `samples` ↔ `CaseInfo::samples` with `sampleTimes`, `SeriesInfo::snapshots` or `timeDirs` with `timeValues`; `chosen` ↔ the discovery sample; `fields` ↔ the fields of the case; `registered` ↔ the lists the layer data is given; `disk` ↔ the files. `throughout`, `appeared` and `undisturbed` are history variables of the properties | one per file that is opened: `VisitVtkHdf`, `VisitFlash`, `VisitOpenFoam`, `VisitEdem`; the sort and time mapping that follow (`EndList...`), `ScanSnapshot`, `ResolveSeries`, `FindSampleWithData`, `FirstSample`, `ScanParticleFields`, `ScanParticleClouds`, `ListFields`, `CheckField`, `Register...`; `Write` is the solver |
| `XmlPayload` | one array of a serial VTK XML file, from its element to its values | `spec` ↔ `ArraySpec` with its segments, `layout` ↔ `XmlCompressedBlockLayout`, `target` ↔ the uninitialized array, `todo` and `failed` ↔ the batch tasks and their flag; `file`, `parsed` and `source` are the file now, when it was parsed and when the read began, `content` what is in it now | `Parse`, `Begin`, `ReadHeader`, `ReadPayload`, `ReadLayout`, `ReadBatch`, `JoinBatches`, `Return`; `Rewrite` and `Truncate` are another program. The arithmetic of sizes, segments, quartets and block tables is in pure operators named after the functions |
| `LegacyVtk` | legacy VTK files, from tokens to attributes | `pos` ↔ the stream, `dataset` ↔ `DatasetSpec`, `names` ↔ `ArrayNameRegistry`, `attrs` ↔ the lazy attributes; `left`, `cellArray` ↔ the locals of `ParseField` and `ParseCellArray` | header and one step per keyword; `RegisterFileData`, `Load`; `Truncate` is another program |
| `EclipseGrid` | what the Eclipse readers share: sizes of the arrays of a grid, the cell map, values in parts | `phase`, `grid`, `loaded` | |
| `GrdeclDeck` | GRDECL decks | `frames` ↔ the calls of `ParseDeckFile`, `visited`, `grid` and `arrays` ↔ `ParseState` and `GridInfo`; `met` is history | one per kind of record; `Load` searches the file anew; `Rewrite` is another program |
| `EclipseBinary` | EGRID, INIT and UNRST files | `pos`, `open`, `records` ↔ the stream and `CaeEclipseFileIndex`, `step` ↔ `CurrentStep`, `times` and `fields` ↔ `UnrstInfo` and `InitInfo`; `disk` and `torn` say how much of the file is written | one per header and chunk of the index, one per parsed record, `Load`; the simulator appends |
| `CgnsReader` | the CGNS reader and its library | `file`, `disk` ↔ the layout that was parsed and the layout now, `holder` ↔ `GetCGNSMutex()`, `cursor` and `handles` ↔ the library, `at` ↔ where `ReadCGNS` is, `attrs` ↔ lazy attributes with their samples, `polyCache` ↔ `PolyElementCache`; `polySeen` and `leaks` are history | one per node of the file that is read, `ReadThrows`; lock with open, go to, read, and close with unlock and return of a loader, `LoadThrows`; `Rewrite` and `Delete` are another program |
| `DatasetSpecCacheProofs`, `EnSightIndexCacheProofs`, `LazySamplesProofs`, `LayerReadProofs`, `ParallelReadProofs`, `SeriesScanProofs`, `CgnsReaderProofs`, `EclipseProofs` | the proofs about the module each is named after (`LayerReadProofs` is about `PythonRead`, too, and `EclipseProofs` about `GrdeclDeck` and `EclipseBinary`) | | |

What is abstract: a file is its version number, and the constants `Size`,
`Mtime`, `Prefix` and `Content` say which versions look alike; a parsed
dataset, an index and an array are the version (and the loader) they came from;
a path is a model value. In `XmlPayload` a byte says what it is a byte of (a
value, a header word, a packed block), and bytes are grouped in the units that
are read as a whole: a byte, a base64 quartet, a token of text. In `LegacyVtk` a file is a sequence of
words, blanks and bytes; in `GrdeclDeck` of tokens; in `EclipseBinary` of words
of four bytes in one byte order. All control is kept: locks, early returns, error paths, and the order of the steps.

`DatasetSpecCache` has an abstract specification, `FileReadService`. The
refinement maps everything between a call and its return to *busy* and shows a
result only once the call returns it.

Definitions named `X_Fault` with the comment "Seeded fault" are the plausible
mistakes used to test the properties: each property fails when `X` is replaced
by its faulty form. They are used by nothing else.

## 3. Runs

| Run | Question | Instance and why it is enough |
|---|---|---|
| `spec_cache` | is the parse cache safe under every interleaving, rewrite, failure, eviction and `Clear`, does it implement the service, and does every call return? | 2 threads (a leader and a waiter), 2 paths with a cache of 1 (every second publication evicts), 1 rewrite per file that only the time stamp shows, 2 flights (a thread holds at most one). No symmetry, which is not sound for liveness. 106 k states. Three threads and more are covered by the proofs |
| `ensight_index` | do the two index caches agree, share builds, forget failures and return? | 2 threads, one variable of one geometry (the smallest nesting), 4 futures (two per thread), 1 rewrite. 58 k states |
| `lazy_samples` | are samples the right ones, do retained ones settle, and does the layer tell one story of its specs, fields and times? | 2 threads, an array, its chunk alias and another array at a prim below; lists out of order and with a repeated time; queries before, on, between and after the samples; the dataset prim at the root or under a mount path; 1 rewrite. 1.0 M states |
| `layer_read` | do leases and directories live exactly as long as needed, do failures leave the layer its data and whatever no callback has edited, and do python callbacks' structure and fields end up together under the mount path? | one layer read again and again by a native, a python or a proxy reader; root and child, copies of up to 2 chunks, 5 leases (last read, the read that replaces it, one directory that could not be removed); callbacks that author one root or two, set a default prim or not, declare fields at, below and beside the root, or a field with nothing to load; mount paths of one and two names, new and taken, unset, empty and malformed. 115 k states |
| `parallel_read` | is every element read once, or the call an error? | arrays of 1 to 5 elements, chunks of 2, up to 3 tasks: uneven divisions, a short last chunk, fewer elements than tasks, every way to group the tasks; the file shrinks and reads fail. 69 k states |
| `series_scan` | do the samples of a series belong to their files and times, whatever the directory order and whatever the solver writes meanwhile? | 3 files: one first, two whose names have one number (the smallest tie, and a gap for EDEM); stored times against the numbers, equal or missing; one file that may be unreadable, one without fields, one without a time step (the first, so that it shifts all others); positive, zero and negative scale; every initial directory and 2 writes during the read (one file can go and come back). 478 k states |
| `xml_payload` | does a read give the bytes of the array or an error, in every storage? | text, inline base64, raw and base64 appended data, with and without a compressor; scalars of 2 bytes and blocks of 2 and 3 (a block cuts a scalar in two, the last block is full, short or the only one); words of 4 and 8 bytes (the data begins at different places of a triple); 0, 1 or 3 tuples; up to 3 blocks in 2 batches; one rewrite or truncation. 57 k states |
| `legacy_vtk` | is each array of a legacy file found where it was written, and can it be got from the layer? | every dataset kind, text and binary, versions before and from 5, up to two parts after the geometry (scalars, vectors, tensors, texture coordinates, bits, strings, fields), blocks of metadata, strange and malformed parts, names that collide; one truncation. 44 k states |
| `grdecl_deck` | does a deck load what it lists, or fail for a reason? | a grid of two cells in four files that include each other and the deck; the four pieces of the deck in every order, one of them any of twelve other records; files that list a keyword twice, repeat counts (of zero, too), records of a wrong length; a nesting bound of 3, which a cycle stays under and a chain of four files does not; one rewrite between read and load. 190 k states |
| `eclipse_binary` | is the index one of whole records, are samples at their report step, is a loaded array the stored one? | files of all three kinds for two cells, one active: whole, cut after any word or inside one, with several chunks, records before the first `SEQNUM`, repacked fields that change type and index space, local grids, records whose chunks do not make up their count. 345 k states |
| `cgns_reader` | do loaders get their own array, all of it, through the one cursor, is each solution shown at its times, is the library left free? | two threads that load while the file is replaced (once, by any of the others: the same layout, one whose zones or solutions have moved, one whose arrays have grown) or absent; single files and series whose pointers skip a step, name a missing solution, start alike or lead to another location, with fewer times than steps; two solutions with one identifier; two loads that throw. 64 k states |
| `xml_payload_full_block` | *(violation)* is the size the parser learns the size that is stored? | the same as `xml_payload` |

Eleven more configurations belong to no run. They reproduce disagreements
listed below: `MCSeriesScanSteps` (EDEM alone, nothing written meanwhile),
`MCLayerReadEmptyMount` (native readers, mount paths unset or empty),
`MCCgnsReaderSizes`, `MCDatasetSpecCacheRestored`, `MCEnSightIndexCacheStale`,
`MCLayerReadFlush`, `MCGrdeclDeckBlocks`, `MCEclipseBinarySpace`,
`MCCgnsReaderHandles`, `MCCgnsReaderLayout` and `MCLegacyVtkExtent`, each with
the property TLC finds violated.

Bounds: `MaxVersion` (rewrites), `MaxCachedSpecs` (the real constant, made
small), `MaxChildren`, `Chunks`, `MaxLeft` (removals the file system refuses),
`MaxCount`, `MaxThreads`, `Grain`, `Threshold`, `MaxWrites`, and in `XmlPayload`
`TupleCounts`, `BlockSizes`, `PackedTables`, `Leads`, `Cuts`, `BlocksPerBatch`
and `MaxChanges`; `MaxDepth` (64 in the code) and `MaxRewrites` in `GrdeclDeck`,
`MaxLeaks` (loads that throw) in `CgnsReader`. In `LazySamples` each attribute
registers once. No run
switches deadlock checking off except the ones whose system really ends, as
their configuration says.

### Fairness

`spec_cache` and `ensight_index` assume weak fairness of each thread's own
steps: a runnable thread runs, a mutex is handed out in the end, a parser or
index builder terminates. `std::mutex` does not promise fairness to one waiter,
but the critical sections are short and finite, and a thread waits for a lock
only while another is inside one. Spurious wake-ups are possible but never
assumed, rewrites and `Clear` happen or not, and `EveryCallReturns` therefore
depends on `notify_all` and on nothing that wakes a sleeper by luck. Rewrites
are bounded, so the property says: if the files stop changing, every call
returns. `cgns_reader` assumes that a thread inside a call goes on (`WF` of its
steps while it is not idle, in `CgnsReader!Spec`): calls of the library end.
Nobody is assumed to begin a call.

### Disagreements between code and documentation

Shown by a run:

1. **A last block that is full** (`xml_payload_full_block`, `ParsedSizeIsStoredSize`). VTK's writers give such a block the size zero.
   The reader knows (`ScalarPayloadReader.cpp:137-151`), the parser does not
   (`XmlParser.cpp:621-625`): when nothing but the header tells the number of
   tuples, it counts one block too few. An array of one block is then silently
   empty, and a longer one can not be read or parsed at all.
   `XmlParser.cpp:579-581` says the function learns the decoded payload size.

Reproduced by the configurations that belong to no run:

2. **EDEM files without a time step** (`MCSeriesScanSteps`,
   `EveryTimestepFileIsASample`; `OmniSciEdemFileFormat.cpp:777-783`). A file
   without a child of `/TimestepData` that can be opened, such as one the solver
   has only created, is passed over without an error, and the index of each later
   sample is one less; `docs/conceptual_data_mapping/edem.md:316-317` lets each
   file contribute a sample.
3. **An empty `mountPath`** (`MCLayerReadEmptyMount`, `RootIsFromIdentifier`) is
   passed to the parser as it is (`ResolverAsset.cpp:314`, `MountPath.h:54`), which
   then names the root after the temporary copy, while the default prim is named
   after the identifier, as `docs/file_formats/asset_resolution.md:80-82` says of
   both.
4. **CGNS fields of another location** (`MCCgnsReaderSizes`, `FieldsHaveTheirSize`).
   A solution of a pointer array that is not located where the leader is, is loaded
   with the leader's size (`OmniSciCgnsFileFormat.cpp:918-927`), so in part or not at
   all; `docs/conceptual_data_mapping/cgns.md:394-395` gives each location its own.
5. **A restored file** (`MCDatasetSpecCacheRestored`, `ResultWasCurrent`). The
   signature is taken before the parse and never again. A rewrite during the
   parse, undone afterwards with its time stamp, leaves an entry with the
   original's signature and the other contents; `DatasetSpecCache.h:43-44`
   promises that stale entries are rejected when the file changes.
6. **EnSight indexes are never invalidated** (`MCEnSightIndexCacheStale`,
   `IndexIsCurrent`). `docs/file_formats/architecture.md:79-80` describes caches
   keyed by path and file signature; these are keyed by path.
7. **The last flush of a copy** (`MCLayerReadFlush`, `CopyIsWhole`) is not
   checked, so a full disk may yield a truncated copy and no error
   (`ResolverAsset.h:100`).
8. **GRDECL loaders take the first token that is the keyword**
   (`MCGrdeclDeckBlocks`, `DirectArraysLoad`; `OmniSciGrdeclFileFormat.cpp:704-760`).
   An `EQUALS` or `COPY` block that names the array earlier in the file is read
   instead of the array or fails the load, although
   `docs/conceptual_data_mapping/grdecl_egrid.md` says edit operations are not
   evaluated. Of a keyword that a file lists twice the parser keeps the last and
   the loader reads the first.
9. **UNRST fields keep the index space of their first sample**
   (`MCEclipseBinarySpace`, `IndexSpaceFits`; `OmniSciUnrstFileFormat.cpp:400`):
   a field that is packed to active cells in a later step keeps its label, and
   its type.
10. **CGNS loaders that throw leave the file open** (`MCCgnsReaderHandles`,
   `NoPermanentHandles`; `OmniSciCgnsFileFormat.cpp:281-292`), while
   `docs/file_formats/architecture.md:41-42` excludes permanently open handles.
11. **EXTENT** (`MCLegacyVtkExtent`, `ExtentAsWritten`; `LegacyParser.cpp:604-609`)
   reads its six numbers as arguments of one call, whose order of evaluation C++
   does not specify.
12. **A CGNS file of another layout** (`MCCgnsReaderLayout`, `RightInAnyLayout`).
    Loaders keep the indices and the sizes of the parse
    (`OmniSciCgnsFileFormat.cpp:626-630`, `332-356`, `918-927`), and nothing
    compares the file they open with the one that was parsed: after a rewrite
    that moves or resizes nodes a value may be a neighbour's, a part of an array,
    or a buffer that the library wrote past. `LoadersGiveTheirArray` covers what is
    still in its place.

Met while reading, and shown by no configuration:

- `ConsumeBinaryPreamble` (`LegacyParser.cpp:97-102`) takes payload bytes that
  are line ends for the preamble; `LegacyVtk` checks payloads that begin with
  another byte (`FirstByte`). A field of a legacy file that is named like a
  structural array replaces it, and a file that is cut inside a binary payload is
  accepted when it is indexed.
- The poly-element cache of CGNS (`OmniSciCgnsFileFormat.cpp:478-481`) keeps its
  values whatever the `cacheMode`. A group of solutions whose leader is not in
  the file, and groups that begin with the same name, lose solutions:
  `EverySolutionShown` says which. Names that `TfMakeValidIdentifier`
  makes equal share a prim, and what is registered last replaces the rest.
- `LooksLikeUnrst` wants `SEQNUM` first, while `ParseUnrst` makes a first step
  for records that come before one.
- A python callback edits the live layer, so a read that fails after it has
  changed the specs of the layer (`PythonFileFormatBase.cpp:521-533, 782-793`), and
  no code undoes that. `ReadKeepsOrReplaces` claims the data of the layer for
  such a call, and its specs only for calls that fail before. With a mount path, no
  default prim and no lazy fields, nothing is moved, and the default prim that is
  set may name no prim (`ContentIsMounted` leaves that case out).

## 4. Proofs

Eight modules hold the proofs, each for every value of its component's constants:
any number of threads, files, layers, leases, elements, lists, prims, zones,
tokens, items or chunks, and any scheduling. Together they state every safety property of
`spec_cache`, `ensight_index`, `lazy_samples`, `layer_read`, `parallel_read`,
`series_scan`, `cgns_reader`, `grdecl_deck` and `eclipse_binary`.
What a theorem states of a property was found to hold by the component's run before
it was proved.

| Module | Theorem | Shows |
|---|---|---|
| `DatasetSpecCacheProofs` | `TypeCorrect` | `TypeOK` |
| | `SingleFlightCorrect` | `SingleFlight` |
| | `InFlightHasLeaderCorrect` | `InFlightHasLeader` |
| | `NoLostWakeupCorrect` | `NoLostWakeup` |
| | `CacheBoundedCorrect` | `CacheBounded` |
| | `EvictionProtectsNewestCorrect` | `EvictionProtectsNewest`, an action property |
| | `FreshResultCorrect` | `FreshResult`, if time stamps tell versions apart |
| | `ImplementsServiceCorrect` | `ImplementsService`, under the same hypothesis |
| `EnSightIndexCacheProofs` | `EveryBuildHasOneOwnerCorrect` | `EveryBuildHasOneOwner` |
| | `VariableMatchesGeometryCorrect` | `VariableMatchesGeometry` |
| | `BuiltIsForEverCorrect` | `BuiltIsForEver`, an action property |
| `LazySamplesProofs` | `RightSampleIsFoundCorrect` | `RightSampleIsFound` |
| | `CacheSettlesCorrect` | `CacheSettles`, an action property |
| | `QueriesAgreeCorrect` | `QueriesAgree` |
| `LayerReadProofs` (of `LayerRead` and `PythonRead`) | `NoOrphanDirectoryCorrect` | `NoOrphanDirectory` |
| | `LoadersFindTheirFileCorrect` | `LoadersFindTheirFile` |
| | `FailedCallKeepsDataCorrect` | the part of `ReadKeepsOrReplaces` about the data: loaders and leases |
| | `ReadKeepsOrReplacesCorrect` | `ReadKeepsOrReplaces`: also specs and default prim, which a python callback may have edited in a call that fails later |
| | `ManifestIsServedCorrect` | `ManifestIsServed` |
| `ParallelReadProofs` | `TasksStayApartCorrect` | `TasksStayApart` |
| | `NothingUninitializedCorrect` | `NothingUninitialized` |
| | `ReturnIsQuietCorrect` | `ReturnIsQuiet` |
| `SeriesScanProofs` | `EveryFileIsASampleCorrect` | `EveryFileIsASample` |
| | `TimesFollowStepsCorrect` | `TimesFollowSteps` |
| | `SamplesHaveTheirTimesCorrect` | `SamplesHaveTheirTimes` |
| | `PromisedFieldsExistCorrect` | `PromisedFieldsExist` |
| `CgnsReaderProofs` | `LoadersAreRight` | `LoadersGiveTheirArray` |
| | `SamplesAreOfTheirStep` | `SamplesOfTheirStep` |
| | `EverySolutionIsShown` | `EverySolutionShown` |
| | `NoHandleGetsLost` | `NoOtherHandles`: only exceptions leave a file open |
| `EclipseProofs` (of `GrdeclDeck` and `EclipseBinary`) | `ListedArraysAreLoaded` | `ListedArraysLoad` |
| | `DecksLoadOrFail` | `DeckLoadsOrFails` |
| | `IndexesAreWhole` | `IndexIsWhole` |
| | `LoadedArraysAreStored` | `LoadedIsStored` |
| | `SamplesAreAtTheirStep` | `SamplesAtTheirStep` |

### The parse cache

**Flights.** `SingleFlight` and `NoLostWakeup` are not inductive: they do not
say that the flight a leader holds is the one listed for its path, so another
thread could open a second. `FlightInv` adds that link (`inFlight[path[t]] =
ref[t]`), that a flight has one owner from `Lead` to `NotifyAll`, that it is
open exactly while its owner is a leader, and that a sleeper of a closed flight
still has an owner who will notify. The three properties follow.

**Freshness.** That a result is no older than its call rests on the signature:
it names a version that existed during the call (`ThreadFresh`), and whatever
is stored with a signature was read no earlier than *every* version that
carries its time stamp (`NoLaterThan`). With the hypothesis that no two versions
share a time stamp, a match transports the second fact to the first. Without
the hypothesis the property is false, as
`MCDatasetSpecCacheRestored` shows.

**Bound.** `EvictIfNeeded` runs in the critical section that inserts, so the
set of cached paths stays finite and within the limit; finiteness is part of
the invariant, since `Cardinality` says nothing of an infinite set. That the
entry which is published survives is a fact about that one step.

**Refinement.** Steps between call and return stutter; the step that ends a
call is `Finish` of the service, whose range of versions is `FreshResult`.

### The EnSight index caches

That a key has at most one owner does not say that the owner's future is the one
in the map, and the removal of a failed build would then hit another's.
`EntryInv` says who holds what: an owner holds the entry of its key and a promise
nobody has kept (`OwnersHoldTheirEntry`, `PromisesAreKeptOnce`), a waiter holds
the entry of its key or the future of a failed build that is gone from the map
(`WaitersHoldTheirEntry`), and a shared state that nobody refers to is fresh. It
needs that the nested call of a build asks for the geometry of that build
(`NestedCalls`). `IndexInv` then follows an index from the thread that built it
to the map: whatever a thread brings back from either function is what the map
holds, so a variable index is computed with the geometry index in the map.

### Samples and queries of a layer

`RightSampleIsFound` needs the values on their way: a call that is loading asks
for a sample that exists, and what it brings back was made by a loader at that
path and time, no earlier than the call unless the layer caches (`CallInv`). What
is retained was made by a loader of the *list* at its path (`RetainedInv`), and
lists are final once the layer is published. That `lower_bound` finds the sample
at a time if there is one (`LowerBoundIs`, `FoundIsSample`) is proved for every
sorted list.

`QueriesAgree` rests on another invariant, `SpecsInv`: the paths of overs, the
map of children and the specs of SdfData are those of the prims above the
attributes registered so far, and registered lists are sorted. Everything the
queries answer is then a matter of prefixes of paths; lemmas about prefixes,
fronts and last names carry it.

### Reads and leases

**Ownership.** `NoOrphanDirectory` alone would let a step end a lease that
somebody else counts on. `LeaseInv` says that a lease is alive exactly while a
call holds it or the data of a layer retains it, that the one `MaterializeAsset`
is filling belongs to nobody else, and that a directory is there because of one
of these or could not be removed. `CallInv` ties what a call holds to its step
(`held` before `KeepAlive`, `pending` after it), `DataInv` says that the data of a
layer retain what its loaders reopen and are what they were when a call began,
unless it succeeds. With any number of layers read side by side, the step of one
layer leaves the leases of the others alone (`PythonMoves`, `PlaceSucceeds` and
their like say what a step does to the state of `LayerRead`; the steps of
`PythonRead` are among them).

**Root.** `PlaceInv` says that default prim and root come from one mount path.
With an empty argument they need not (see the disagreements): `DefaultPrimIsRoot`
names that one exception, and neither the theorem nor the run has a hypothesis
about arguments.

**Specs.** A python callback edits the live layer, so a read that fails may leave
specs that are neither the old ones nor those of a result. `edited` remembers that
a callback has authored in the current call. `EditsInv` says that until then, and
in native reads until the data is set, specs and default prim are those the call
found; that a python read is past its callback knows it by its step. What a
failed call keeps in every case is the data (`DataInv`). That Sdf makes the edits of
a callback in the data the layer has, when it is read again, is external.

**Manifests.** `ReadsInv` says that the state of every python read comes from one
declared result of its callback: as it was authored, as it is mounted at a root,
or as its fields are registered. That fields follow their prims is then a
property of `RebasePythonReadResult` alone, proved from facts about prefixes and
about the stable sort of samples (`Sorted` is stated by the place of each sample,
since the provers do not know the sort of the standard modules). The proof
showed that the exception of `FieldsFollowTheirPrims` was too narrow. It spoke
only of prims the callback authored, but a field may be declared for a prim
nobody authored, outside the tree that is moved and at the place it is moved to,
and then meet one that was moved there; `Displaces` now covers it.

### Parallel reads

The proofs begin with division: the ranges of the bodies partition the tasks, and
the pieces of the tasks partition the elements, in each of the three styles, for
sizes that divide and sizes that do not. `TasksStayApart` follows from that and from the
place of each body. `NothingUninitialized` needs `StoredInv`: as long as nobody
has failed, what a body has behind it is stored; with `OutcomeInv` (success means
that all bodies are done and none has failed) and the partition, every element
is. `ReturnIsQuiet` is part of `OutcomeInv`.

### Series

The invariant has one conjunct for each thing a phase leaves for the next:
which files are accounted for (`CountInv`: listed samples are distinct, and a file
that was there throughout, for EDEM with a time step, is listed once its directory
entry has been visited),
raw times while the directory is listed (`ListInv`; EDEM comes by its files in
the order of their numbers, so a sample's place is known), FLASH snapshots as
they are scanned and resolved (`FlashInv`), times once they are given
(`TimesInv`) and OpenFOAM's fields (`FieldsInv`). The lemmas under it are about
lists: sorting rearranges, so it loses no file and keeps each sample's own
time, a linear map with a positive or negative factor keeps or turns
the order, and the number of files before one in a series is its place.

### The CGNS reader

**The library.** `MutexInv` says that whoever is between opening and closing the
file holds the mutex, and that the files the library has open are the holder's
and those exceptions passed by; `NoOtherHandles` is part of it. `CallInv` then
keeps the cursor at the grid a call went to, and says that what a call has in
hand is the array its sample stands for. What makes a *sample* right is
`AttrsInv`: it relates each attribute that is registered to a zone that `ReadCGNS`
has begun, and each of its samples to a coordinate, a section or a solution of
that zone with the key, the time and the number of values of the sample
(`SampleFits`; a field has the number of its leader). Together with `IsAsRead`,
that the part of the file a loader reads is where it was, this gives `RightArray`
whatever layout the rest of the file has by then. The library's names tell nodes
apart (`NamesDiffer`), their identifiers need not, since `TfMakeValidIdentifier` is
any operator: hence the conditions `IsApart` and `ZoneIsApart` of the two theorems
about solutions, which speak of nodes that share their identifier with no other.
`OthersKeepAttrs` shows that what shares an identifier leaves the others' attributes
alone.

**Steps.** A leading pointer array is registered by the place of each step:
those that are found, ordered by their times, with the file's order between equal
ones. `PlacesAre` shows that counting the steps before each one numbers them
1, 2, ..., and `SortedByTimeIs` that the samples are therefore exactly the steps
found, once each and in the order of the times, which is what
`SamplesOfTheirStep` claims of every attribute of the leader.

**Solutions.** `SolutionsInv` says of every solution that `ReadCGNS` has passed
that it has a prim or is left to a pointer array, and of a leader that its
fields have all the samples of its array. `HasNoLeader` is the only way out:
each array the solution is in begins with a solution that is not in the file,
has no fields or shares its identifier, or another array that begins with the same
name counts.

### GRDECL decks

`LoadedInv` says that what was loaded last is what the loaders would give now:
nothing they go by changes after the read but the files, and a rewrite forgets
it. `MetInv` says that an array was met at a token that is its keyword, in a
file of the deck. Where no earlier token of that file reads the same
(`NamedFirst`), the least place the loader's search finds is that token
(`SearchFindsMet`), so record, expansion and size check are those of the parser.
The sizes in `LoadedArraysFit` hold by `CheckExpectedCount` whatever the file
became; that the cell map numbers the active cells is `RanksAre`: counting the
numbers below each member of a finite set numbers them without a gap. For
`FailsForAReason` the invariant has `ChainInv`: the files on the stack are visited,
and each is there once. A cycle of includes can therefore never reach the nesting
bound; only `MaxDepth` different files can.

### Binary Eclipse files

**The walk.** The words of a file are made of its items, and everything the
reader does depends on where an item and its chunks begin. That an item begins
where the walk arrives looks like an induction over the items, and needs none:
`UpTo` counts the words of the first parts of a sequence as one cardinality, so
that the place of every part, and which word of `Concat` is which word of which
part, are facts about cardinalities (`UpToIs`, `ConcatIs`). `WordsOfIs`, `FileIs`
and `PlacesAre` apply them to the chunks of an item and the items of a file.
`WalkInv` then needs two numbers only: the records are those of the first items,
and between two records the stream is behind the last of them; inside a record
the stream and the chunks in hand are functions of the item and the number of its
chunks that were read (`IndexedRecord`, `PosOf`, `IsAt`). A header or chunk that
is whole in the file is then that of the item (`HeaderKeepsWalk`,
`ChunkKeepsWalk`, `EndKeepsWalk`), unless the item is one that `Misleads`. `TailInv`
adds where an EGRID ends, so that what follows is not looked at.

**Loaders.** The chunks of a record that is indexed are on disk and stay there
(`ChunksAreThere`, `WordsLoad`), and `ArraysLoad` says what the loaders make of
them. `LoadInv` relates the samples of the fields to indexed records and the
arrays of a grid to the first items with their keywords (`FirstIs`).

**Report steps.** `UnrstInv` describes the parser by the number of records it has
parsed: the current step is the one of the last of them, its number and its days are
those of the last `SEQNUM` and `DOUBHEAD` of that step so far, time `k` of the list
is that of step `k`, and a sample has the time that its step had when its record
was met. Each `SEQNUM` but a first item begins another step (`StepsAre`), so it is
the only one of its step (`LastDecides`), and records of one step leave the times
of the others alone (`StepsStay`). With the days in front of the arrays
(`HeadersFirst`) what was known at the record is all there is to know
(`HeadersSay`), also of steps whose end is not written yet.

### Assumptions

TLC evaluates all of them in the runs.

- Special values are none of the others (`NoFlight`, `NoPath`, `NoEntry`, `NoFuture`, `NoKey`,
  `NoLease`, `NoData`, `NoCall`, `NoLoader`, `NoValue`, `NoProperty`, `None`,
  `NoStamp`, `NoFile`, ...), and numbers are numbers.
- `CgnsReader`: files have the types of the CGNS standard (counts are natural
  numbers), no two children of a node have one name, and `None` is no thread or number.
- `GrdeclDeck`: files are sequences of tokens, before and after a rewrite, and a
  deck has the file it is named after.
- `EclipseBinary`: the files are sequences of items, each with a keyword, a type, a
  count and chunks of words, and times are scaled by a positive number.
- `EnSightIndexCache`: a variable has one geometry, and no file is both.
- `ParallelRead`: there is at least one thread, and `Grain` is not zero.
- `SeriesScan`: numbers in names are not negative, times and scales are integers.
- `LazySamples`: there is an attribute (the structure the model authors is the one
  above the arrays; a layer without arrays is left out), attributes live at prims
  and share a cache path as `CanonicalPath` says.
- `PythonAssumption`: what a callback authors is a set of prim paths that has
  the parents of its members, and its default prim is one of its roots if it
  names one. Sdf guarantees the first; the second leaves out a callback that
  names a default prim it did not author.

### What only TLC checks

- Liveness: `EveryCallReturns` and `LibraryIsLeftFree`; the provers have no
  fairness and no `ENABLED`.
- The properties of `XmlPayload` and `LegacyVtk`. They compare what a walk over
  the bytes of a file finds with what was written. The items of a legacy file, and
  the quartets, blocks and tables of an XML array, are put together with the folds
  of the community modules, and the walks over them are recursive functions: what
  they return for every input takes an induction that the provers can not do.

## 5. Plan

Done in this order: `DatasetSpecCache` with its service and proofs,
`EnSightIndexCache`, `LazySamples`, `LayerRead`, `ParallelRead`, `SeriesScan`,
`XmlPayload`, `GrdeclDeck`, `EclipseBinary`, `CgnsReader`, `LegacyVtk`, the specs
and fields of `LazySamples`, `PythonRead`, and the proofs of `EnSightIndexCache`,
`ParallelRead`, `LayerRead` with `PythonRead`, `SeriesScan`, `LazySamples`,
`CgnsReader`, `GrdeclDeck` and `EclipseBinary`.

Left for modelling: time sets of EnSight case files, EDEM files with several
steps, FLASH manifests that list files, VTKHDF partitions, XML files of several
pieces, and the mutexes of CGNS and FLASH around an HDF5 library that VTKHDF and
EDEM call without one.

## 6. Not modelled, and why

`SeriesScan` has EDEM files with one time step or none. It leaves out EDEM files
with more than one, positions and meshes (they come with the fields of the
same files), FLASH manifests that list their files, and VTKHDF names without a step, whose series is the file
itself. Times are integers, so rounding and values that are not finite are not
seen. Nothing there says that a field EDEM or VTKHDF registers exists in every
sample: the code takes the fields from one file and promises no more.

`XmlPayload` leaves out a file that is rewritten while one read of it runs,
since nothing in the code detects it, and headers that are wrong in themselves.
Text arrays carry no size, so a rewritten one may give a part of the new text;
`ReadIsRightOrFails` says so. The whole triples between head and tail of base64 text
are one step; tasks that share a flag are the subject of `ParallelRead`.

`LegacyVtk` leaves out identifiers that only `TfMakeValidIdentifier` makes equal,
`GrdeclDeck` the characters of tokens (white space, comments, quotes) and
`CanRead`, `EclipseBinary` `CanRead`, the detection of byte order and what the
grid's geometry is built of. Its simulator appends and never rewrites. The reader
finds out that the chunks of an item do not make up its count, with two
exceptions, which its properties leave out (`NoItemMisleads`): chunks behind the
last number, which are taken for a header if they look like one, and an item that
lacks at least the four words of the next header, which is taken for a chunk. No
simulator writes either, and no file of the run has one.

`CgnsReader` lets other programs replace the file between two calls only: a call
keeps the file it has opened, so a file that is overwritten in place under an open
handle is not modelled, nor is one that is replaced while `ReadCGNS` runs.
No property that holds says what a loader gives when the part it reads has moved or
changed its size (`IsAsRead`; see `MCCgnsReaderLayout`), how many values a field has
whose solution is not located where its leader is (`FieldsHaveTheirSize`), what the
values of an empty coordinate array are, or which of the nodes that share an
identifier is left. Closing the file, unlocking and
returning are one step, since nothing of the three can fail or be seen apart. A
loader that cannot open the file returns an empty value and is no step.

`PythonRead` has callbacks that replace the layer's content, as those of the
repository do. `SdfCopySpec` and `ScheduleRemoveIfInert` are external: the first
copies a tree over what is at its new place, the second may or may not remove
the old one. A mount path inside the tree the callback authored is left out,
since what Sdf makes of a copy into itself is not this repository's; when the
mount path replaces another tree of the callback, `FieldsFollowTheirPrims`
promises nothing. Python's lock is not modelled: it serialises callbacks, and
`LazySamples` runs loaders in any order anyway.

The parsers of EnSight, OpenFOAM, FLASH, EDEM and VTKHDF contents (their results
are the abstract versions), schemas and packaging (declarations), dynamic arguments (stateless), logging.
C++ exception *types* are not told apart: an action says that a call fails and
what it leaves behind. Crashes of the process are left out because nothing is
persisted but temporary directories, which no code looks for later. Data races
inside HDF5 or CGNS are outside the repository. Memory is sequentially
consistent: all shared state in the modelled code is guarded by a mutex or is
`std::atomic` with the default order, except the elements of the parallel
reads, for which `TasksStayApart`
shows that no two tasks touch one.
