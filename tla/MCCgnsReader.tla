----------------------------- MODULE MCCgnsReader -----------------------------
(* Small files: of one state and of several; pointers that skip a step, name *)
(* a solution that is missing, start alike, or mix nodes and cells; more     *)
(* steps than times; names with one identifier; zones that grow and move.    *)
EXTENDS CgnsReader

CONSTANTS t1, t2

Array(name, type, data) == [name |-> name, type |-> type, data |-> data, count |-> 2]
Field(name, data) == [name |-> name, type |-> "RealSingle", data |-> data]
Grid(name, arrays) == [name |-> name, arrays |-> arrays]
Solution(name, location, fields) == [name |-> name, location |-> location, fields |-> fields]
Section(name, poly) ==
  [name |-> name, poly |-> poly, start |-> 1, end |-> 2, count |-> 8,
   connectivity |-> "connectivity of " \o name, offsets |-> "offsets of " \o name]
Unstructured(name, grids, sections, pointers, solutions) ==
  [name |-> name, structured |-> FALSE, nodes |-> 8, cells |-> 1, grids |-> grids,
   sections |-> sections, pointers |-> pointers, solutions |-> solutions]
Structured(name) == [Unstructured(name, <<>>, <<>>, <<>>, <<>>) EXCEPT !.structured = TRUE]
Volume(name, iterative, zones) ==
  [name |-> name, cellDimension |-> 3, iterative |-> iterative, zones |-> zones]
Surface(name, zones) == [Volume(name, None, zones) EXCEPT !.cellDimension = 2]
Steps(n, values) == [steps |-> n, arrays |-> [TimeValues |-> values, IterationValues |-> <<>>]]

S(name) == Solution(name, "Vertex", <<Field("P", "P of " \o name)>>)
Centred(name) == [S(name) EXCEPT !.location = "CellCenter"]
XY == <<Array("CoordinateX", "RealDouble", "x"), Array("Height", "RealSingle", "y")>>
Zone1 == Unstructured("Zone1", <<Grid("GridCoordinates", XY)>>,
           <<Section("Cells", TRUE), Section("Walls", FALSE)>>, <<<<"S1", "S2">>>>,
           <<S("S1"), Solution("Other", "CellCenter", <<Field("Mach number", "M of Other")>>)>>)
Zone2 == Unstructured("Zone2",
           <<Grid("GridCoordinates", <<Array("CoordinateX", "RealDouble", "x of 2")>>)>>,
           <<>>, <<>>, <<S("S1")>>)
\* Zone 1 with more nodes and elements.
Grown == [Zone1 EXCEPT !.nodes = 9, !.grids[1].arrays[1].count = 3,
                       !.sections[1].end = 3, !.sections[2].count = 12]

MCFiles ==
  [ single |-> [bases |-> <<Surface("Hull", <<Zone1>>),
                 Volume("Base", None, <<Structured("Blocks"), Zone1, Zone2>>)>>],
    grown |-> [bases |-> <<Surface("Hull", <<>>),
                 Volume("Base", None, <<Structured("Blocks"), Grown, Zone2>>)>>],
    moved |-> [bases |-> <<Surface("Hull", <<>>), Volume("Base", None, <<Zone1, Zone2, [Grown EXCEPT !.name = "Zone3"]>>)>>],
    series |-> [bases |-> <<Volume("Base", Steps(4, <<5, 3, 4, 9>>),
                 <<Unstructured("Zone1", <<>>, <<>>, <<<<"S2", "S3", "S1", "S9">>, <<>>>>,
                     <<S("S1"), S("S2"), S("Mean value"), S("S9")>>)>>)>>],
    fewTimes |-> [bases |-> <<Volume("Base", Steps(3, <<5>>),
                 <<Unstructured("Zone1", <<>>, <<>>,
                     <<<<"Lost", "S4">>, <<"S1", "S2", "S3">>>>,
                     <<S("S1"), Centred("S2"), S("S3"), S("S4")>>)>>)>>],
    alike |-> [bases |-> <<Volume("Base", Steps(2, <<1, 2>>),
                 <<Unstructured("Zone1", <<>>, <<>>, <<<<"C1", "S2">>, <<"C1", "S3">>>>,
                     <<Centred("C1"), S("S2"),
                       Solution("S3", "Vertex", <<Field("P", "P of S3"), Field("Q", "Q of S3")>>),
                       S("Mean value"), Centred("Mean_value")>>)>>)>>] ]

\* Blanks are replaced.
MCMakeValidIdentifier(name) ==
  CASE name = "Mean value" -> "Mean_value"
    [] name = "Mach number" -> "Mach_number"
    [] OTHER -> name

Arguments == [intSize |-> 0, floatSize |-> 0, timeSource |-> "TimeValue", filterBase |-> "",
              filterZone |-> "", numbersParse |-> TRUE]
MCOptions ==
  {Arguments,
   [Arguments EXCEPT !.timeSource = "TimeStep", !.floatSize = 32, !.filterZone = "Zone1"],
   [Arguments EXCEPT !.timeSource = "IterationValue", !.floatSize = 64, !.intSize = 32],
   [Arguments EXCEPT !.filterBase = "Hull"],
   [Arguments EXCEPT !.numbersParse = FALSE]}
=============================================================================
