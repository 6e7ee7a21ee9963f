----------------------------- MODULE GrdeclDeck -----------------------------
(***************************************************************************)
(* A GRDECL deck (eclipse/src/OmniSciGrdeclFileFormat.cpp): Read walks the *)
(* tokens of the deck and of the files it includes, remembers in which     *)
(* file each array was met, and registers a loader for it.  A loader runs  *)
(* much later.  It opens the file again, looks for the first token that is *)
(* the keyword, and expands the numbers up to the next slash.              *)
(*                                                                         *)
(* DeckTokenizer is not modelled: a file is the sequence of its tokens,    *)
(* without white space and comments, in upper case.  A token is a word, a  *)
(* slash, or a number with an optional repeat count.                       *)
(***************************************************************************)
EXTENDS EclipseGrid

CONSTANTS
  Decks,        \* functions from the names of files to their tokens
  Root,         \* the file that is read
  MaxDepth,     \* deepest nesting of INCLUDE (64)
  Contents,     \* what another program may write into a file of the deck
  MaxRewrites   \* bound on files rewritten after the deck was read

\* A number need not have a repeat count; a repeat count without a number ("3*")
\* has value 0.
Token == [text : STRING, repeat : Nat \cup {None}, value : Int]
Word(text) == [text |-> text, repeat |-> None, value |-> 0]
DeckNumber(repeat, value) == [text |-> "number", repeat |-> repeat, value |-> value]
Slash == Word("/")

ASSUME DecksAssumption ==
  /\ \A deck \in Decks :
       deck = [f \in DOMAIN deck |-> deck[f]] /\ Root \in DOMAIN deck
       /\ \A f \in DOMAIN deck : deck[f] \in Seq(Token)
  /\ Contents \subseteq Seq(Token)
  /\ MaxDepth \in Nat /\ MaxRewrites \in Nat /\ None \notin Nat

VARIABLES
  files,     \* the files of the deck, now
  frames,    \* the calls of ParseDeckFile: the file and the next token of each
  visited,   \* ParseState::visitedFiles
  arrays,    \* the ArrayRefs of GridInfo, by keyword
  met,       \* history: where the record of each array in arrays begins
  rewrites

parseVars == <<frames, visited, grid, arrays, phase, met>>
deckVars == <<files, parseVars, loaded, rewrites>>

-----------------------------------------------------------------------------
(* Keywords.                                                               *)

IsDeckStopKeyword(k) == k \in {"SOLUTION", "SUMMARY", "SCHEDULE", "END"}
UnitOf == [METRIC |-> "m", FIELD |-> "ft", FIELD_US |-> "ft", FIELD_USA |-> "ft"]
IsNoDataKeyword(k) ==
  k \in {"RUNSPEC", "GRID", "EDIT", "PROPS", "REGIONS", "OIL", "WATER", "GAS", "DISGAS",
         "VAPOIL", "LAB", "INIT", "NOECHO", "ECHO", "NEWTRAN", "OLDTRAN", "UNIFIN",
         "UNIFOUT", "NOSIM"}
IsBlockKeyword(k) ==
  k \in {"ADD", "COPY", "EQUALS", "MULTIPLY", "FAULTS", "MULTFLT", "MULTREGT"}
IsDoubleCellPropertyKeyword(k) ==
  k \in {"PORO", "PERMX", "PERMY", "PERMZ", "NTG", "SWATINIT", "SWCR", "SWL", "SWU", "SGL",
         "SGCR", "SGU", "SOGCR", "SOWCR", "ISGCR"}
IsIntCellPropertyKeyword(k) ==
  k \in {"EQLNUM", "FIPNUM", "FLUXNUM", "SATNUM", "IMBNUM", "PVTNUM", "ROCKNUM"}
IsSupportedCellPropertyKeyword(k) ==
  IsIntCellPropertyKeyword(k) \/ IsDoubleCellPropertyKeyword(k)
IsDimsKeyword(k) == k \in {"DIMENS", "SPECGRID"}
IsGridUnitKeyword(k) == k \in {"GRIDUNIT", "MAPUNITS"}
IsArrayKeyword(k) == k \in {"COORD", "ZCORN", "ACTNUM"} \/ IsSupportedCellPropertyKeyword(k)
IsOtherKeyword(k) ==
  ~(\/ k \in {"/", "INCLUDE", "MAPAXES"} \cup DOMAIN UnitOf
    \/ IsDeckStopKeyword(k) \/ IsNoDataKeyword(k) \/ IsBlockKeyword(k)
    \/ IsDimsKeyword(k) \/ IsGridUnitKeyword(k) \/ IsArrayKeyword(k))

-----------------------------------------------------------------------------
(* Records.                                                                *)

\* The first slash at a position or after it, or the end of the file.
SlashFrom(tokens, at) ==
  Min({i \in at..Len(tokens) : tokens[i] = Slash} \cup {Len(tokens) + 1})

\* The tokens of the record that begins at a position.
ReadRecordTokens(tokens, at) == SubSeq(tokens, at, SlashFrom(tokens, at) - 1)

\* A block is a list of records that an empty one ends.
EndOfBlock(tokens, at) ==
  Min({i \in at..Len(tokens) : tokens[i] = Slash /\ (i = at \/ tokens[i - 1] = Slash)}
      \cup {Len(tokens) + 1})

IsNumber(token) == token.text = "number"
Repeats(token) == IF token.repeat = None THEN 1 ELSE token.repeat
\* ExpandDoubleToken and ExpandIntToken on all of a record.
ExpandTokens(record) ==
  IF \E i \in DOMAIN record : ~IsNumber(record[i]) THEN Error
  ELSE Concat([i \in DOMAIN record |-> [n \in 1..Repeats(record[i]) |-> record[i].value]])

\* The count a loader was given when it was made.
ExpectedCount(keyword) ==
  CASE keyword = "COORD" -> CoordValueCount(grid.dims)
    [] keyword = "ZCORN" -> ZcornValueCount(grid.dims)
    [] OTHER -> NumLogicalCells(grid.dims)

-----------------------------------------------------------------------------
(* Read.                                                                   *)

NoGrid == [dims |-> None, mapAxes |-> None, lengthUnit |-> None]

DeckInit ==
  /\ files \in Decks
  /\ frames = <<[file |-> Root, at |-> 1]>>
  /\ visited = {Root}
  /\ grid = NoGrid
  /\ arrays = <<>>
  /\ phase = "parsing"
  /\ met = <<>>
  /\ loaded = None
  /\ rewrites = 0

Parsing == phase = "parsing" /\ frames # <<>>
Top == Last(frames)
Here == files[Top.file]
Keyword == IF Top.at > Len(Here) THEN "end of file" ELSE Here[Top.at].text
DeckRecord == ReadRecordTokens(Here, Top.at + 1)

Continue(at) == frames' = [frames EXCEPT ![Len(frames)].at = at]
AfterRecord == SlashFrom(Here, Top.at + 1) + 1
Throw == phase' = "failed" /\ UNCHANGED <<frames, visited, grid, arrays, met>>

\* Slashes between records, units and keywords without data.
SkipKeyword ==
  /\ Parsing
  /\ Keyword = "/" \/ Keyword \in DOMAIN UnitOf \/ IsNoDataKeyword(Keyword)
  /\ grid' = IF Keyword \in DOMAIN UnitOf
             THEN [grid EXCEPT !.lengthUnit = UnitOf[Keyword]] ELSE grid
  /\ Continue(Top.at + 1)
  /\ UNCHANGED <<files, visited, arrays, phase, met, loaded, rewrites>>

\* A file ends, or the part of it that describes the grid; its includer goes on.
EndOfDeckFile ==
  /\ Parsing
  /\ Keyword = "end of file" \/ IsDeckStopKeyword(Keyword)
  /\ frames' = Front(frames)
  /\ UNCHANGED <<files, visited, grid, arrays, phase, met, loaded, rewrites>>

\* Seeded fault: only the root is known to be visited.
IsVisited_Root(file) == file = Root
\* visitedFiles: a file is parsed once, wherever it is included.
IsVisited(file) == file \in visited

\* CaeResolveSiblingAsset fails for a file that is not there.
Include ==
  /\ Parsing /\ Keyword = "INCLUDE"
  /\ LET file == IF DeckRecord = <<>> THEN Root ELSE DeckRecord[1].text IN
     IF DeckRecord # <<>> /\ (file \notin DOMAIN files \/ Len(frames) > MaxDepth)
     THEN Throw
     ELSE LET includer == [frames EXCEPT ![Len(frames)].at = AfterRecord] IN
          /\ frames' = IF IsVisited(file) THEN includer
                       ELSE Append(includer, [file |-> file, at |-> 1])
          /\ visited' = visited \cup {file}
          /\ UNCHANGED <<grid, arrays, phase, met>>
  /\ UNCHANGED <<files, loaded, rewrites>>

\* A record of fewer than three tokens says nothing.
IsDimension(token) == IsNumber(token) /\ token.repeat = None /\ token.value > 0
ParseDimRecord ==
  /\ Parsing /\ IsDimsKeyword(Keyword)
  /\ IF Len(DeckRecord) >= 3 /\ \E i \in 1..3 : ~IsDimension(DeckRecord[i]) THEN Throw
     ELSE /\ grid' = IF Len(DeckRecord) < 3 THEN grid
                     ELSE [grid EXCEPT !.dims = [i \in 1..3 |-> DeckRecord[i].value]]
          /\ Continue(AfterRecord)
          /\ UNCHANGED <<visited, arrays, phase, met>>
  /\ UNCHANGED <<files, loaded, rewrites>>

ParseMapAxesRecord ==
  /\ Parsing /\ Keyword = "MAPAXES"
  /\ LET values == ExpandTokens(DeckRecord) IN
     IF values = Error THEN Throw
     ELSE /\ grid' = IF Len(values) < 6 THEN grid
                     ELSE [grid EXCEPT !.mapAxes = SubSeq(values, 1, 6)]
          /\ Continue(AfterRecord)
          /\ UNCHANGED <<visited, arrays, phase, met>>
  /\ UNCHANGED <<files, loaded, rewrites>>

\* Names of units are a model's own: they are not normalised here.
ParseGridUnitRecord ==
  /\ Parsing /\ IsGridUnitKeyword(Keyword)
  /\ grid' = IF DeckRecord = <<>> THEN grid ELSE [grid EXCEPT !.lengthUnit = DeckRecord[1].text]
  /\ Continue(AfterRecord)
  /\ UNCHANGED <<files, visited, arrays, phase, met, loaded, rewrites>>

\* Seeded fault: the first file that lists an array decides.
ListArray_First ==
  /\ Parsing /\ IsArrayKeyword(Keyword)
  /\ LET with(f, x) == [k \in DOMAIN f \cup {Keyword} |-> IF k = Keyword THEN x ELSE f[k]] IN
     /\ arrays' = IF Keyword \in DOMAIN arrays THEN arrays
                  ELSE with(arrays, [keyword |-> Keyword, file |-> Top.file])
     /\ met' = with(met, Top.at)
  /\ Continue(AfterRecord)
  /\ UNCHANGED <<files, visited, grid, phase, loaded, rewrites>>
\* The array is the one of this file, whatever was listed before.
ListArray ==
  /\ Parsing /\ IsArrayKeyword(Keyword)
  /\ LET with(f, x) == [k \in DOMAIN f \cup {Keyword} |-> IF k = Keyword THEN x ELSE f[k]] IN
     /\ arrays' = with(arrays, [keyword |-> Keyword, file |-> Top.file])
     /\ met' = with(met, Top.at)
  /\ Continue(AfterRecord)
  /\ UNCHANGED <<files, visited, grid, phase, loaded, rewrites>>

\* Edit operations and faults are not evaluated.
SkipSlashTerminatedBlock ==
  /\ Parsing /\ IsBlockKeyword(Keyword)
  /\ Continue(EndOfBlock(Here, Top.at + 1) + 1)
  /\ UNCHANGED <<files, visited, grid, arrays, phase, met, loaded, rewrites>>

\* Any other keyword is taken to have one record.
SkipSingleRecord ==
  /\ Parsing /\ IsOtherKeyword(Keyword) /\ Keyword # "end of file"
  /\ Continue(AfterRecord)
  /\ UNCHANGED <<files, visited, grid, arrays, phase, met, loaded, rewrites>>

\* ParseDeck returns, and ReadGrdecl registers the loaders.
EndDeck ==
  /\ phase = "parsing" /\ frames = <<>>
  /\ phase' = IF grid.dims # None /\ {"COORD", "ZCORN"} \subseteq DOMAIN arrays
              THEN "read" ELSE "failed"
  /\ UNCHANGED <<files, frames, visited, grid, arrays, met, loaded, rewrites>>

-----------------------------------------------------------------------------
(* Loaders.                                                                *)

\* The values of the record after the first token that is the keyword.
KeywordValues(ref) ==
  LET tokens == files[ref.file]
      at == Min({i \in DOMAIN tokens : tokens[i].text = ref.keyword} \cup {Len(tokens) + 1})
  IN IF at > Len(tokens) THEN Error ELSE ExpandTokens(ReadRecordTokens(tokens, at + 1))

LoadKeywordArray(ref) ==
  LET values == KeywordValues(ref) IN
  IF values = Error THEN Error
  ELSE IF Len(values) # ExpectedCount(ref.keyword) THEN Error ELSE values

LoadLogicalCellToActiveCellArray(ref) ==
  LET actnum == LoadKeywordArray(ref) IN
  IF actnum = Error THEN Error ELSE BuildLogicalCellToActiveCellArray(actnum)

Load(keyword) ==
  /\ phase = "read" /\ keyword \in DOMAIN arrays
  /\ loaded' = [array |-> keyword, value |-> LoadKeywordArray(arrays[keyword])]
  /\ UNCHANGED <<files, parseVars, rewrites>>

LoadCellMap ==
  /\ phase = "read" /\ "ACTNUM" \in DOMAIN arrays
  /\ loaded' = [array |-> "logicalCellToActiveCell",
                value |-> LoadLogicalCellToActiveCellArray(arrays["ACTNUM"])]
  /\ UNCHANGED <<files, parseVars, rewrites>>

\* Another program rewrites a file of the deck.
Rewrite ==
  /\ phase = "read" /\ rewrites < MaxRewrites
  /\ \E f \in DOMAIN files, tokens \in Contents : files' = [files EXCEPT ![f] = tokens]
  /\ loaded' = None
  /\ rewrites' = rewrites + 1
  /\ UNCHANGED parseVars

DeckNext ==
  \/ SkipKeyword \/ EndOfDeckFile \/ Include \/ ParseDimRecord \/ ParseMapAxesRecord
  \/ ParseGridUnitRecord \/ ListArray \/ SkipSlashTerminatedBlock \/ SkipSingleRecord
  \/ EndDeck
  \/ \E keyword \in DOMAIN arrays : Load(keyword)
  \/ LoadCellMap \/ Rewrite

DeckSpec == DeckInit /\ [][DeckNext]_deckVars

-----------------------------------------------------------------------------
\* The array that the parser met, if its record is in order.
MetValues(keyword) ==
  LET ref == arrays[keyword]
      values == ExpandTokens(ReadRecordTokens(files[ref.file], met[keyword] + 1))
  IN IF values = Error THEN Error
     ELSE IF Len(values) # ExpectedCount(keyword) THEN Error ELSE values

\* The record that the parser met is the first place of its file that names
\* the array.
NamedFirst(keyword) ==
  LET tokens == files[arrays[keyword].file] IN
  \A i \in DOMAIN tokens : tokens[i].text = keyword => i >= met[keyword]

WasLoaded == loaded # None /\ rewrites = 0

\* "The reader follows INCLUDE records and reads direct array keywords.  It
\* does not evaluate Eclipse edit operations" (grdecl_egrid.md): an array that
\* is loaded is the one of the record that Read met, also when an edit
\* operation of the same file names it.
DirectArraysLoad ==
  WasLoaded /\ loaded.array \in DOMAIN arrays => loaded.value = MetValues(loaded.array)

\* The same where the loader's search can find the record: the last file that
\* lists an array decides, files are included in any order and nesting, values
\* are repeated, and other keywords stand anywhere between.
ListedArraysLoad ==
  WasLoaded /\ loaded.array \in DOMAIN arrays /\ NamedFirst(loaded.array)
    => loaded.value = MetValues(loaded.array)

\* Whatever the files became since: an array that is loaded has the size that
\* the grid was given when it was read, and the cell map numbers the active
\* cells without a gap, in order, and no others.
LoadedArraysFit ==
  loaded # None /\ loaded.value # Error =>
    IF loaded.array # "logicalCellToActiveCell"
    THEN Len(loaded.value) = ExpectedCount(loaded.array)
    ELSE NumbersActiveCells(loaded.value, LoadKeywordArray(arrays["ACTNUM"]))

HasMalformedRecord ==
  \E f \in DOMAIN files : \E i \in DOMAIN files[f] :
    LET record == ReadRecordTokens(files[f], i + 1) IN
    \/ files[f][i].text = "INCLUDE" /\ record # <<>> /\ record[1].text \notin DOMAIN files
    \/ /\ IsDimsKeyword(files[f][i].text) /\ Len(record) >= 3
       /\ \E j \in 1..3 : ~IsDimension(record[j])
    \/ files[f][i].text = "MAPAXES" /\ ExpandTokens(record) = Error

\* More files than the depth allows, each included by the one before.
IsDeepChain ==
  /\ Len(frames) > MaxDepth
  /\ \A i, j \in DOMAIN frames : frames[i].file = frames[j].file => i = j

\* Read turns down a deck for what is wrong in it or missing, or because too many
\* files are nested, but not because its files include each other.
FailsForAReason ==
  phase = "failed" /\ rewrites = 0 =>
    \/ HasMalformedRecord \/ IsDeepChain
    \/ frames = <<>> /\ (grid.dims = None \/ ~({"COORD", "ZCORN"} \subseteq DOMAIN arrays))
\* What a deck promises when it has been read is there to be loaded, and a deck
\* that is turned down has given a reason.
DeckLoadsOrFails == LoadedArraysFit /\ FailsForAReason

=============================================================================
