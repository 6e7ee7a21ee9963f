---------------------------- MODULE EclipseBinary ----------------------------
(***************************************************************************)
(* The binary Eclipse files: EGRID, INIT and UNRST (eclipse/src).  A file  *)
(* is a sequence of records.  A record has a header of 16 bytes and data   *)
(* in chunks, each between two markers with its length.  Read indexes the  *)
(* records without their data, and turns the index into a grid (EGRID),    *)
(* into fields (INIT), or into fields with a sample per report step        *)
(* (UNRST).  The loaders open the file again and read the chunks.          *)
(*                                                                         *)
(* A simulator may still be writing the file while it is read: what it has *)
(* flushed ends anywhere.  A file is counted in words of four bytes, in    *)
(* the byte order that CaeDetectEclipseEndian found.                       *)
(***************************************************************************)
EXTENDS EclipseGrid

CONSTANTS
  Files,        \* by name: the kind of a file and the items it will have
  TimeScale, TimeOffset    \* format arguments of UNRST

\* The int32 that four letters make: more than any length or count.
Huge == 2147483647
Number(v) == [text |-> "number", int |-> v]
Text(t) == [text |-> t, int |-> Huge]
\* All texts: the provers do not know that these two are in STRING.
Texts == STRING \cup {"number", "rest"}
FileWord == [text : Texts, int : Int]
Item == [keyword : Texts, type : Texts, count : Int, chunks : Seq(Seq(FileWord))]

\* What a simulator writes for one item: its chunks are sequences of words.
Header(item) ==
  <<Number(16), Text(item.keyword), Text("rest"), Number(item.count), Text(item.type), Number(16)>>
Framed(chunk) == <<Number(4 * Len(chunk))>> \o chunk \o <<Number(4 * Len(chunk))>>
WordsOf(item) == Header(item) \o Concat([c \in DOMAIN item.chunks |-> Framed(item.chunks[c])])
FileOf(name) ==
  LET items == Files[name].items
      words == [i \in DOMAIN items |-> WordsOf(items[i])]
  IN [kind |-> Files[name].kind, items |-> items, words |-> Concat(words), ends |-> UpTo(words)]

Chunk == [offset : Int, words : Int]
\* CaeEclipseRecord, with the words that ReadEclipseRecordChunks has seen.
RecordType == [keyword : Texts, type : Texts, count : Int, chunks : Seq(Chunk), read : Int]
ASSUME ConstantsAssumption ==
  /\ TimeScale \in Nat \ {0} /\ TimeOffset \in Nat
  /\ \A name \in DOMAIN Files :
       Files[name] \in [kind : {"EGRID", "INIT", "UNRST"}, items : Seq(Item)]
  /\ None \notin RecordType /\ Error \notin Seq(FileWord) /\ Error \notin Seq(Int)

VARIABLES
  file,     \* its kind, its items, its words and where each item ends
  disk,     \* the words of it that are on disk
  torn,     \* a part of the next word is on disk, too
  pos,      \* the word that the stream is at
  open,     \* the record whose chunks are read, or None
  records,  \* CaeEclipseFileIndex
  options,  \* keywordMode and timeSource
  next,     \* the record that ParseInit or ParseUnrst is at
  cells,    \* the counts of logical and active cells of an INIT or UNRST
  step,     \* CurrentStep
  times,    \* UnrstInfo::times
  fields    \* UnrstInfo::fields, InitInfo::fields

fileVars == <<file, disk, torn>>
indexVars == <<pos, open, records>>
infoVars == <<next, grid, cells, step, times, fields>>
vars == <<fileVars, phase, indexVars, options, infoVars, loaded>>

Kind == file.kind
Words == file.words

NoStep == [valid |-> FALSE, sampleIndex |-> 0, reportStep |-> 0, simulationDays |-> 0]

Init ==
  /\ file \in {FileOf(name) : name \in DOMAIN Files}
  /\ disk = 0 /\ torn = FALSE
  /\ phase = "closed"
  /\ pos = 1 /\ open = None /\ records = <<>>
  /\ options \in [keywordMode : {"whitelist", "allCellSized"},
                  timeSource : IF Kind = "UNRST"
                               THEN {"TimeStep", "TimeValue", "IterationValue"} ELSE {"TimeValue"}]
  /\ next = 1 /\ grid = None
  /\ cells = [logical |-> 0, active |-> 0]
  /\ step = NoStep /\ times = <<>> /\ fields = <<>>
  /\ loaded = None

-----------------------------------------------------------------------------
(* The simulator.                                                          *)

Flush ==
  /\ disk < Len(Words)
  /\ \/ disk' = disk + 1 /\ torn' = FALSE
     \/ ~torn /\ torn' = TRUE /\ UNCHANGED disk
  /\ UNCHANGED <<file, phase, indexVars, options, infoVars, loaded>>

-----------------------------------------------------------------------------
(* CaeIndexEclipseBinaryFile.                                              *)

OnDisk(word) == word <= disk

\* Without the marker of a first header there is no byte order.
OpenFile ==
  /\ phase = "closed"
  /\ phase' = IF OnDisk(1) /\ Words[1].int = 16 THEN "indexing" ELSE "failed"
  /\ UNCHANGED <<fileVars, indexVars, options, infoVars, loaded>>

IsIntegerRecord(record) == record.type \in {"INTE", "LOGI"}
IsFloatingPointRecord(record) == record.type \in {"REAL", "DOUB"}
ItemWords(type) == IF type \in {"DOUB", "CHAR"} THEN 2 ELSE 1
IsSupportedType(type) == type \in {"INTE", "LOGI", "REAL", "DOUB", "CHAR"}

\* Records without data have any type.
ExpectedWords(record) == record.count * ItemWords(record.type)

\* The header at a position, with both markers.
HeaderIsWhole(p) ==
  /\ OnDisk(p + 5)
  /\ Words[p].int = 16 /\ Words[p + 5].int = 16
  /\ Words[p + 3].int >= 0
  /\ Words[p + 3].int = 0 \/ IsSupportedType(Words[p + 4].text)

ReadHeader ==
  /\ phase = "indexing" /\ open = None
  /\ OnDisk(pos) \/ torn
  /\ IF HeaderIsWhole(pos)
     THEN /\ open' = [keyword |-> Words[pos + 1].text, count |-> Words[pos + 3].int,
                      type |-> Words[pos + 4].text, chunks |-> <<>>, read |-> 0]
          /\ pos' = pos + 6
          /\ UNCHANGED phase
     ELSE phase' = "failed" /\ UNCHANGED <<pos, open>>
  /\ UNCHANGED <<fileVars, records, options, infoVars, loaded>>

\* Seeded fault: the marker behind the data is not looked at where the file ends.
ChunkIsWhole_Lax(p) ==
  /\ OnDisk(p)
  /\ LET length == Words[p].int IN
     /\ length >= 0 /\ length % 4 = 0
     /\ open.read + length \div 4 <= ExpectedWords(open)
     /\ OnDisk(p + length \div 4 + 1) => Words[p + length \div 4 + 1].int = length
\* Seeking past the end does not fail: only the marker behind the data shows
\* that all of it is there.
ChunkIsWhole(p) ==
  /\ OnDisk(p)
  /\ LET length == Words[p].int IN
     /\ length >= 0 /\ length % 4 = 0
     /\ open.read + length \div 4 <= ExpectedWords(open)
     /\ OnDisk(p + length \div 4 + 1)
     /\ Words[p + length \div 4 + 1].int = length

\* Seeded fault: the chunk begins at its marker.
ChunkAt_Marker(p) == [offset |-> p, words |-> Words[p].int \div 4]
ChunkAt(p) == [offset |-> p + 1, words |-> Words[p].int \div 4]

ReadChunk ==
  /\ phase = "indexing" /\ open # None /\ open.read < ExpectedWords(open)
  /\ IF ChunkIsWhole(pos)
     THEN /\ open' = [keyword |-> open.keyword, count |-> open.count, type |-> open.type,
                      chunks |-> Append(open.chunks, ChunkAt(pos)),
                      read |-> open.read + Words[pos].int \div 4]
          /\ pos' = pos + Words[pos].int \div 4 + 2
          /\ UNCHANGED phase
     ELSE phase' = "failed" /\ UNCHANGED <<pos, open>>
  /\ UNCHANGED <<fileVars, records, options, infoVars, loaded>>

\* The stopAfterKeyword of an EGRID.
StopsAfter(keyword) == Kind = "EGRID" /\ keyword = "ENDGRID"

EndRecord ==
  /\ phase = "indexing" /\ open # None /\ open.read = ExpectedWords(open)
  /\ records' = Append(records, open)
  /\ open' = None
  /\ phase' = IF StopsAfter(open.keyword) THEN "parsing" ELSE phase
  /\ UNCHANGED <<fileVars, pos, options, infoVars, loaded>>

EndOfFile ==
  /\ phase = "indexing" /\ open = None /\ ~OnDisk(pos) /\ ~torn
  /\ phase' = "parsing"
  /\ UNCHANGED <<fileVars, indexVars, options, infoVars, loaded>>

-----------------------------------------------------------------------------
(* CaeLoadEclipse*Values and *Array: the words of the chunks, decoded.     *)

ChunkIsLoadable(record, chunk) ==
  /\ chunk.words % ItemWords(record.type) = 0
  /\ OnDisk(chunk.offset + chunk.words - 1)

LoadWords(record) ==
  LET words == Concat([c \in DOMAIN record.chunks |->
                 LET chunk == record.chunks[c]
                 IN SubSeq(Words, chunk.offset, chunk.offset + chunk.words - 1)])
      size == ItemWords(record.type)
  IN IF \E c \in DOMAIN record.chunks : ~ChunkIsLoadable(record, record.chunks[c]) THEN Error
     ELSE [i \in 1..(Len(words) \div size) |-> words[(i - 1) * size + 1]]

Decoded(words) == IF words = Error THEN Error ELSE [i \in DOMAIN words |-> words[i].int]
LoadIntArray(record) == IF IsIntegerRecord(record) THEN Decoded(LoadWords(record)) ELSE Error
LoadDoubleArray(record) ==
  IF IsFloatingPointRecord(record) THEN Decoded(LoadWords(record)) ELSE Error
LoadCharValues(record) == IF record.type = "CHAR" THEN LoadWords(record) ELSE Error

-----------------------------------------------------------------------------
(* ReadEgrid.                                                              *)

\* The first record of a keyword, in front of the end of the global grid.
FindFirst(keyword) ==
  LET end == Min({i \in DOMAIN records : records[i].keyword = "ENDGRID"} \cup {Len(records) + 1})
      found == {i \in 1..(end - 1) : records[i].keyword = keyword}
  IN IF found = {} THEN None ELSE records[Min(found)]

ArePositive(values) == \A i \in DOMAIN values : values[i] > 0
\* The type of the grid in front of the dimensions may be left out.
ParseGridDims(record) ==
  LET values == LoadIntArray(record) IN
  CASE values = Error -> Error
    [] Len(values) >= 4 /\ ArePositive(SubSeq(values, 2, 4)) -> SubSeq(values, 2, 4)
    [] Len(values) >= 3 /\ ArePositive(SubSeq(values, 1, 3)) -> SubSeq(values, 1, 3)
    [] OTHER -> Error

UnitIn(keyword) ==
  LET record == FindFirst(keyword) IN
  IF record = None THEN None
  ELSE LET values == LoadCharValues(record) IN
       IF values = Error THEN Error ELSE IF values = <<>> THEN None ELSE values[1].text
ParseLengthUnit == IF UnitIn("GRIDUNIT") # None THEN UnitIn("GRIDUNIT") ELSE UnitIn("MAPUNITS")

ParseMapAxes ==
  LET record == FindFirst("MAPAXES") IN
  IF record = None THEN None
  ELSE LET values == LoadDoubleArray(record) IN
       IF values = Error THEN Error ELSE IF Len(values) < 6 THEN None ELSE SubSeq(values, 1, 6)

CountsFit(g) ==
  /\ g.coord.count = CoordValueCount(g.dims)
  /\ g.zcorn.count = ZcornValueCount(g.dims)
  /\ g.actnum # None => g.actnum.count = NumLogicalCells(g.dims)

ParseEgrid ==
  /\ phase = "parsing" /\ Kind = "EGRID"
  /\ IF \E keyword \in {"GRIDHEAD", "COORD", "ZCORN"} : FindFirst(keyword) = None
     THEN phase' = "failed" /\ UNCHANGED grid
     ELSE LET g == [dims |-> ParseGridDims(FindFirst("GRIDHEAD")),
                    coord |-> FindFirst("COORD"), zcorn |-> FindFirst("ZCORN"),
                    actnum |-> FindFirst("ACTNUM"),
                    lengthUnit |-> ParseLengthUnit, mapAxes |-> ParseMapAxes]
          IN IF \/ Error \in {g.dims, g.lengthUnit, g.mapAxes}
                \/ ~CountsFit(g)
             THEN phase' = "failed" /\ UNCHANGED grid
             ELSE phase' = "read" /\ grid' = g
  /\ UNCHANGED <<fileVars, indexVars, options, next, cells, step, times, fields, loaded>>

Loaded(array, sample, value) == loaded' = [array |-> array, sample |-> sample, value |-> value]

LoadGridArray(array) ==
  /\ phase = "read" /\ grid # None
  /\ \/ array = "COORD" /\ Loaded(array, 1, LoadDoubleArray(grid.coord))
     \/ array = "ZCORN" /\ Loaded(array, 1, LoadDoubleArray(grid.zcorn))
     \/ grid.actnum # None /\ array = "ACTNUM" /\ Loaded(array, 1, LoadIntArray(grid.actnum))
     \/ /\ grid.actnum # None /\ array = "logicalCellToActiveCell"
        /\ LET actnum == LoadIntArray(grid.actnum)
           IN Loaded(array, 1, IF actnum = Error THEN Error
                               ELSE BuildLogicalCellToActiveCellArray(actnum))
  /\ UNCHANGED <<fileVars, phase, indexVars, options, infoVars>>

-----------------------------------------------------------------------------
(* Fields of an INIT and a UNRST.                                          *)

IsWhitelistedDoubleKeyword(keyword) ==
  keyword \in IF Kind = "UNRST"
              THEN {"PRESSURE", "SWAT", "SGAS", "RS", "RV", "PBUB", "PDEW"}
              ELSE {"PORV", "DEPTH", "DX", "DY", "DZ", "PORO", "PERMX", "PERMY", "PERMZ", "NTG",
                    "TRANX", "TRANY", "TRANZ", "MULTX", "MULTX-", "MULTY", "MULTY-", "MULTZ",
                    "SWATINIT", "SWL", "SWCR", "SWU", "SGL", "SGCR", "SGU", "SOWCR", "SOGCR",
                    "KRWR", "KRGR"}
IsWhitelistedIntKeyword(keyword) ==
  /\ Kind = "INIT"
  /\ keyword \in {"ENDNUM", "EQLNUM", "FIPNUM", "FLUXNUM", "SATNUM", "IMBNUM", "PVTNUM",
                  "ROCKNUM"}
IsKnownNonCellKeyword(keyword) ==
  keyword \in {"INTEHEAD", "LOGIHEAD", "DOUBHEAD", "FILEHEAD"}
              \cup IF Kind = "INIT" THEN {"TABDIMS", "TAB", "GRIDHEAD"}
                   ELSE {"SEQNUM", "STARTSOL", "ENDSOL", "FIPFAMNA", "IGRP", "SGRP", "XGRP",
                         "ZGRP", "IWEL", "SWEL", "XWEL", "ZWEL", "ICON", "SCON", "XCON", "ZWLS",
                         "IWLS"}

IsSelectedRecord(record) ==
  IF options.keywordMode = "whitelist"
  THEN \/ IsWhitelistedDoubleKeyword(record.keyword) /\ IsFloatingPointRecord(record)
       \/ IsWhitelistedIntKeyword(record.keyword) /\ IsIntegerRecord(record)
  ELSE /\ ~IsKnownNonCellKeyword(record.keyword)
       /\ IsIntegerRecord(record) \/ IsFloatingPointRecord(record)

ClassifyIndexSpace(count) ==
  CASE count = cells.logical -> "logicalCells"
    [] count # cells.logical /\ count = cells.active -> "activeCells"
    [] OTHER -> None

\* The dimensions are at 8 to 10 of INTEHEAD, counted from 0, and the number
\* of active cells is at 11.
CellsFromIntehead(record) ==
  LET values == LoadIntArray(record)
      logical == values[9] * values[10] * values[11]
  IN IF values = Error THEN Error
     ELSE IF Len(values) < 11 THEN Error
     ELSE IF ~ArePositive(SubSeq(values, 9, 11)) THEN Error
     ELSE [logical |-> logical,
           active |-> IF Len(values) > 11 /\ values[12] > 0 THEN values[12] ELSE logical]

NewField(record, samples) ==
  [keyword |-> record.keyword, integer |-> IsIntegerRecord(record),
   indexSpace |-> ClassifyIndexSpace(record.count), samples |-> samples]
Sample(time) == [time |-> time, record |-> next]

Record == records[next]
HasField(keyword) == \E f \in DOMAIN fields : fields[f].keyword = keyword

ParseInit ==
  /\ phase = "parsing" /\ Kind = "INIT" /\ cells.logical = 0
  /\ LET inteheads == {i \in DOMAIN records : records[i].keyword = "INTEHEAD"}
         c == IF inteheads = {} THEN Error ELSE CellsFromIntehead(records[Min(inteheads)])
     IN IF c = Error THEN phase' = "failed" /\ UNCHANGED cells
        ELSE cells' = c /\ UNCHANGED phase
  /\ UNCHANGED <<fileVars, indexVars, options, next, grid, step, times, fields, loaded>>

\* A keyword's first record that fits is the field.
InitRecord ==
  /\ phase = "parsing" /\ Kind = "INIT" /\ cells.logical # 0 /\ next <= Len(records)
  /\ fields' = IF /\ IsSelectedRecord(Record) /\ ClassifyIndexSpace(Record.count) # None
                  /\ ~HasField(Record.keyword)
               THEN Append(fields, NewField(Record, <<Sample(0)>>)) ELSE fields
  /\ next' = next + 1
  /\ UNCHANGED <<fileVars, phase, indexVars, options, grid, cells, step, times, loaded>>

-----------------------------------------------------------------------------
(* ParseUnrst.                                                             *)

ResolveSampleTime(s) ==
  TimeOffset + TimeScale * CASE options.timeSource = "TimeStep" -> s.sampleIndex
                             [] options.timeSource = "TimeValue" -> s.simulationDays
                             [] options.timeSource = "IterationValue" -> s.reportStep

AtUnrstRecord(keyword) ==
  phase = "parsing" /\ Kind = "UNRST" /\ next <= Len(records) /\ Record.keyword = keyword

NewStep(reportStep) ==
  [valid |-> TRUE, sampleIndex |-> Len(times), reportStep |-> reportStep,
   simulationDays |-> Len(times)]

Seqnum ==
  /\ AtUnrstRecord("SEQNUM")
  /\ LET values == LoadIntArray(Record) IN
     IF values = Error THEN phase' = "failed" /\ UNCHANGED <<step, times, next>>
     ELSE /\ step' = NewStep(IF values = <<>> THEN 0 ELSE values[1])
          /\ times' = Append(times, ResolveSampleTime(step'))
          /\ next' = next + 1
          /\ UNCHANGED phase
  /\ UNCHANGED <<fileVars, indexVars, options, grid, cells, fields, loaded>>

\* A file that does not begin with SEQNUM has a sample 0 all the same.
StepNow == IF step.valid THEN step ELSE NewStep(Len(times))
TimesNow == IF step.valid THEN times ELSE Append(times, ResolveSampleTime(StepNow))

\* The first INTEHEAD decides.
Intehead ==
  /\ AtUnrstRecord("INTEHEAD")
  /\ LET c == IF cells.logical # 0 THEN cells ELSE CellsFromIntehead(Record) IN
     IF c = Error THEN phase' = "failed" /\ UNCHANGED <<cells, step, times, next>>
     ELSE /\ cells' = c
          /\ step' = StepNow /\ times' = TimesNow /\ next' = next + 1
          /\ UNCHANGED phase
  /\ UNCHANGED <<fileVars, indexVars, options, grid, fields, loaded>>

\* Seeded fault: the days change the time of the step and not of its samples.
DaysOf_Late(days) == StepNow
DaysOf(days) == [StepNow EXCEPT !.simulationDays = days]

Doubhead ==
  /\ AtUnrstRecord("DOUBHEAD")
  /\ LET values == LoadDoubleArray(Record)
         days == IF values = <<>> THEN 0 ELSE values[1]
     IN IF values = Error THEN phase' = "failed" /\ UNCHANGED <<step, times, next>>
        ELSE /\ step' = DaysOf(days)
             /\ times' = IF options.timeSource = "TimeValue"
                         THEN Append(Front(TimesNow),
                                     ResolveSampleTime([StepNow EXCEPT !.simulationDays = days]))
                         ELSE TimesNow
             /\ next' = next + 1
             /\ UNCHANGED phase
  /\ UNCHANGED <<fileVars, indexVars, options, grid, cells, fields, loaded>>

\* FindOrCreateField: the first sample of a field gives it its type and its
\* index space.
WithSample(record, sample) ==
  IF HasField(record.keyword)
  THEN [f \in DOMAIN fields |->
          IF fields[f].keyword = record.keyword
          THEN [fields[f] EXCEPT !.samples = Append(@, sample)] ELSE fields[f]]
  ELSE Append(fields, NewField(record, <<sample>>))

OtherRecord ==
  /\ phase = "parsing" /\ Kind = "UNRST" /\ next <= Len(records)
  /\ Record.keyword \notin {"SEQNUM", "INTEHEAD", "DOUBHEAD"}
  /\ step' = StepNow /\ times' = TimesNow
  /\ fields' = IF /\ cells.logical # 0 /\ IsSelectedRecord(Record)
                  /\ ClassifyIndexSpace(Record.count) # None
               THEN WithSample(Record, Sample(ResolveSampleTime(StepNow))) ELSE fields
  /\ next' = next + 1
  /\ UNCHANGED <<fileVars, phase, indexVars, options, grid, cells, loaded>>

\* All records are seen: the layer is authored, with a loader per sample.
Register ==
  /\ phase = "parsing" /\ Kind # "EGRID" /\ next > Len(records)
  /\ Kind = "INIT" => cells.logical # 0
  /\ phase' = IF cells.logical = 0 THEN "failed" ELSE "read"
  /\ UNCHANGED <<fileVars, indexVars, options, infoVars, loaded>>

LoadSample(f, s) ==
  /\ phase = "read"
  /\ LET record == records[fields[f].samples[s].record]
     IN Loaded(fields[f].keyword, s,
               IF fields[f].integer THEN LoadIntArray(record) ELSE LoadDoubleArray(record))
  /\ UNCHANGED <<fileVars, phase, indexVars, options, infoVars>>

Next ==
  \/ Flush
  \/ OpenFile \/ ReadHeader \/ ReadChunk \/ EndRecord \/ EndOfFile
  \/ ParseEgrid \/ ParseInit \/ InitRecord
  \/ Seqnum \/ Intehead \/ Doubhead \/ OtherRecord \/ Register
  \/ \E array \in {"COORD", "ZCORN", "ACTNUM", "logicalCellToActiveCell"} : LoadGridArray(array)
  \/ \E f \in DOMAIN fields : \E s \in DOMAIN fields[f].samples : LoadSample(f, s)

Spec == Init /\ [][Next]_vars

-----------------------------------------------------------------------------
(* What the simulator meant: the items, not the words.                     *)

Items == file.items
IsWholeOnDisk(i) == file.ends[i] <= disk

\* The numbers of an item that is in order.
ItemValues(item) ==
  LET words == Concat(item.chunks)
      size == ItemWords(item.type)
  IN [i \in 1..item.count |-> words[(i - 1) * size + 1].int]
WordsNeeded(item) == item.count * ItemWords(item.type)
IsInOrder(item) ==
  /\ item.count >= 0
  /\ item.count > 0 => IsSupportedType(item.type)
  /\ Len(Concat(item.chunks)) = WordsNeeded(item)

\* Two ways in which an item that is not in order looks like one that is: it has
\* chunks behind its last number, which may look like a header, or it lacks as
\* many words as the next header has, which looks like a chunk.  No simulator
\* writes such an item, and the reader would not know.
Misleads(i) ==
  LET item == Items[i]
      upTo == UpTo(item.chunks)
  IN \/ \E c \in DOMAIN item.chunks : upTo[c - 1] = WordsNeeded(item)
     \/ i < Len(Items) /\ upTo[Len(item.chunks)] + 4 <= WordsNeeded(item)
NoItemMisleads == \A i \in DOMAIN Items : ~Misleads(i)

\* A file that breaks off in the middle of a record, or has a record that is
\* not in order, is refused (an EGRID: up to ENDGRID); a layer that is read has
\* the records of the file, each with all of its data on disk.
WholeOrNothing ==
  phase \in {"parsing", "read"} =>
    /\ Len(records) <= Len(Items)
    /\ \A i \in DOMAIN records :
         /\ IsWholeOnDisk(i) /\ IsInOrder(Items[i])
         /\ records[i].keyword = Items[i].keyword /\ records[i].count = Items[i].count

\* What follows ENDGRID - refinements, connections, a file that is still being
\* written - does not keep a grid from being read.
TailNeverMatters ==
  phase = "failed" /\ Kind = "EGRID" =>
    \A i \in DOMAIN Items :
      Items[i].keyword = "ENDGRID" =>
        \/ pos <= file.ends[i]
        \/ ~IsInOrder(Items[i])
        \/ grid = None /\ records # <<>> /\ Last(records).keyword = "ENDGRID"

\* The index of a file is that of all it takes from the file, or there is none.
IndexIsWhole == NoItemMisleads => WholeOrNothing /\ TailNeverMatters

StepOf(i) ==
  Cardinality({j \in 1..i : Items[j].keyword = "SEQNUM"})
  + IF Items[1].keyword = "SEQNUM" THEN 0 ELSE 1
InStep(i, keyword) ==
  {j \in DOMAIN Items : Items[j].keyword = keyword /\ StepOf(j) = StepOf(i)}

\* The number of the last item of some, or another if there is none.
FirstValue(item) == IF item.count = 0 THEN 0 ELSE ItemValues(item)[1]
LastValue(items, else) == IF items = {} THEN else ELSE FirstValue(Items[Max(items)])

\* The time of a report step by its headers.
TimeOf(index, days, seqnum) ==
  TimeOffset + TimeScale *
    CASE options.timeSource = "TimeStep" -> index
      [] options.timeSource = "TimeValue" -> LastValue(days, index)
      [] options.timeSource = "IterationValue" -> LastValue(seqnum, index)

\* The time of the report step an item is in.
TimeOfStep(i) == TimeOf(StepOf(i) - 1, InStep(i, "DOUBHEAD"), InStep(i, "SEQNUM"))

\* The days of each step are known before its arrays.
HeadersFirst ==
  \A f \in DOMAIN fields : \A s \in DOMAIN fields[f].samples :
    LET i == fields[f].samples[s].record IN \A j \in InStep(i, "DOUBHEAD") : j < i

\* Every sample of a restart file is at the time of its own report step,
\* whatever the arguments take for time and also if the file begins without a
\* report step, steps have no days or the days go back; and the time codes of
\* the layer are these times.
SamplesAtTheirStep ==
  phase = "read" /\ Kind = "UNRST" /\ HeadersFirst /\ NoItemMisleads =>
    \A f \in DOMAIN fields : \A s \in DOMAIN fields[f].samples :
      LET sample == fields[f].samples[s] IN
      /\ sample.time = TimeOfStep(sample.record)
      /\ sample.time = times[StepOf(sample.record)]

\* An array does not load only if a chunk ends inside a number or its type is
\* not that of the loader.
IsCut(item) == \E c \in DOMAIN item.chunks : Len(item.chunks[c]) % ItemWords(item.type) # 0
DoesNotLoad(item, integer) ==
  IsCut(item) \/ ~(IF integer THEN IsIntegerRecord(item) ELSE IsFloatingPointRecord(item))
IsStored(value, item, integer) ==
  value = ItemValues(item) \/ (value = Error /\ DoesNotLoad(item, integer))

\* A loaded array has the numbers of its own record, in the order the simulator
\* wrote them, in how many chunks they ever are and however far the file has
\* grown since; a grid's is the first with its keyword.
LoadedIsStored ==
  loaded # None /\ NoItemMisleads =>
    IF Kind = "EGRID"
    THEN LET stored(keyword) == Items[CHOOSE i \in DOMAIN Items :
                                        /\ Items[i].keyword = keyword
                                        /\ \A j \in 1..(i - 1) : Items[j].keyword # keyword]
         IN IF loaded.array # "logicalCellToActiveCell"
            THEN IsStored(loaded.value, stored(loaded.array), loaded.array = "ACTNUM")
            ELSE IF loaded.value = Error THEN DoesNotLoad(stored("ACTNUM"), TRUE)
            ELSE NumbersActiveCells(loaded.value, ItemValues(stored("ACTNUM")))
    ELSE \E f \in DOMAIN fields :
           /\ fields[f].keyword = loaded.array
           /\ IsStored(loaded.value, Items[fields[f].samples[loaded.sample].record],
                       fields[f].integer)

\* "logicalCells: One value per logical cell ...  activeCells: One value per
\* active cell" (grdecl_egrid.md, Property Index Space), for every sample.
IndexSpaceFits ==
  phase = "read" =>
    \A f \in DOMAIN fields : \A s \in DOMAIN fields[f].samples :
      records[fields[f].samples[s].record].count =
        IF fields[f].indexSpace = "logicalCells" THEN cells.logical ELSE cells.active
=============================================================================
