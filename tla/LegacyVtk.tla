------------------------------ MODULE LegacyVtk ------------------------------
(***************************************************************************)
(* Legacy VTK files (vtk/src/LegacyParser.cpp and what FileFormatCore.cpp  *)
(* makes of them).  The parser goes through the tokens of a file once, and *)
(* takes down where the values of each array are without reading them.     *)
(* Values are text or bytes, and only counting them finds the next token.  *)
(*                                                                         *)
(* A file is a sequence of units: a word, a space, a newline, a byte of a  *)
(* binary payload, or the header of a binary string.  Words are in lower   *)
(* case, as ToLower leaves them.                                           *)
(***************************************************************************)
EXTENDS Integers, Sequences, SequencesExt, FiniteSetsExt

CONSTANTS
  Decks,      \* what is written: [kind, major, binary, parts]
  FirstByte,  \* the first byte of a binary payload
  RightToLeft,   \* the order in which the compiler evaluates arguments
  None

\* The units that are no words.  Numbers are words of digits.
Space == " "
Newline == "\n"
Byte == "byte"
StringHeader(length) == "string of " \o ToString(length)

MaxNumber == 12
IntOf == [word \in {ToString(n) : n \in 0..MaxNumber} |->
           CHOOSE n \in 0..MaxNumber : ToString(n) = word]
IsNumber(word) == word \in DOMAIN IntOf

VARIABLES
  deck,     \* what was written
  file,     \* the units of it, and where the values of each part are
  phase,    \* "header", "tokens", "offsets", "connectivity", "field", "parsed",
            \* "read" or "failed"
  pos,      \* of the stream
  association, tupleCount,   \* of the fields that follow
  left,     \* arrays that are left in a FIELD
  cellArray,   \* the names of the cell array that is being read, and its sizes
  dataset,  \* DatasetSpec
  names,    \* ArrayNameRegistry
  attrs,    \* the lazy attributes by name: the array whose values they give
  loaded    \* the attribute that was loaded last, and its value

tokenVars == <<association, tupleCount, left, cellArray>>
resultVars == <<dataset, names, attrs, loaded>>
vars == <<deck, file, phase, pos, tokenVars, resultVars>>

-----------------------------------------------------------------------------
(* The writer of the file.                                                 *)

ScalarByteSize(type) ==
  CASE type \in {"Int8", "UInt8"} -> 1
    [] type \in {"Int16", "UInt16"} -> 2
    [] type \in {"Int32", "UInt32", "Float32"} -> 4
    [] OTHER -> 8

\* The scalar type of a token of the file.
NormalizeLegacyScalarTypeToken(token) ==
  CASE token \in {"char", "signed_char"} -> "Int8"
    [] token = "unsigned_char" -> "UInt8"
    [] token = "short" -> "Int16"
    [] token = "unsigned_short" -> "UInt16"
    [] token = "int" -> "Int32"
    [] token = "unsigned_int" -> "UInt32"
    [] token \in {"vtkidtype", "vtktypeint64", "long_long", "long"} -> "Int64"
    [] token \in {"vtktypeuint64", "unsigned_long_long", "unsigned_long"} -> "UInt64"
    [] token = "float" -> "Float32"
    [] token = "double" -> "Float64"
    [] OTHER -> None
RequiresStorageWidthResolution(token) == token \in {"long", "unsigned_long"}
StringTokens == {"string", "utf8_string"}

Repeat(n, units) == FlattenSeq([i \in 1..n |-> units])
BytesOf(n) == IF n = 0 THEN <<>> ELSE <<FirstByte>> \o Repeat(n - 1, <<Byte>>)

\* The values of a part: its last value ends the line.
ValuesOf(part, binary) ==
  CASE part.type \in StringTokens /\ binary -> Repeat(part.count, <<StringHeader(2), Byte, Byte>>)
    [] part.type \in StringTokens /\ ~binary -> Repeat(part.count, <<"a", Space, "b", Newline>>)
    [] part.type = "bit" /\ binary -> BytesOf((part.count + 7) \div 8)
    [] part.type \notin StringTokens /\ ~binary -> Repeat(part.count, <<"1", Newline>>)
    [] part.type \notin StringTokens \cup {"bit"} /\ binary ->
         BytesOf(part.count * ScalarByteSize(NormalizeLegacyScalarTypeToken(part.type)))
WordsOf(part) ==
  FlattenSeq([i \in DOMAIN part.words |->
    <<part.words[i], IF i = Len(part.words) THEN Newline ELSE Space>>])
MetadataOf(part) ==
  IF part.metadata
  THEN <<"metadata", Newline, "information", Space, "1", Newline, "data", Newline, Newline>>
  ELSE <<>>
WriteTo(written, part, binary) ==
  LET start == written.units \o WordsOf(part)
      units == start \o ValuesOf(part, binary)
  IN [units |-> units \o (IF binary /\ part.count > 0 THEN <<Newline>> ELSE <<>>)
                      \o MetadataOf(part),
      values |-> Append(written.values,
                   [offset |-> Len(start) + 1, length |-> Len(units) - Len(start)])]
FileOf(d) ==
  FoldLeft(LAMBDA written, part : WriteTo(written, part, d.binary),
           [units |-> <<>>, values |-> <<>>], d.parts)

-----------------------------------------------------------------------------
(* The stream.                                                             *)

IsSpace(u) == u \in {Space, Newline}
End == Len(file.units) + 1
Unit(p) == file.units[p]

\* The first token from p on; the space that follows it is read, too.
WordStart(p) == CHOOSE i \in p..End : /\ i = End \/ ~IsSpace(Unit(i))
                                      /\ \A j \in p..(i - 1) : IsSpace(Unit(j))
WordEnd(p) == CHOOSE i \in p..End : /\ i = End \/ IsSpace(Unit(i))
                                    /\ \A j \in p..(i - 1) : ~IsSpace(Unit(j))
ReadToken(p) ==
  IF p >= End \/ WordStart(p) = End THEN [text |-> "", next |-> End]
  ELSE LET start == WordStart(p)
           stop == WordEnd(start)
       IN [text |-> IF stop = start + 1 THEN Unit(start) ELSE Byte,
           next |-> IF stop = End THEN End ELSE stop + 1]

\* The n-th token from p on, and where n tokens end.
TokenAt(p, n) ==
  LET token[i \in 1..n] == ReadToken(IF i = 1 THEN p ELSE token[i - 1].next) IN token[n]
AfterTokens(p, n) == IF n = 0 THEN p ELSE TokenAt(p, n).next

\* std::getline.
AfterLine(p) ==
  IF p >= End THEN End
  ELSE LET stop == CHOOSE i \in p..End : /\ i = End \/ Unit(i) = Newline
                                         /\ \A j \in p..(i - 1) : Unit(j) # Newline
       IN IF stop = End THEN End ELSE stop + 1
AfterLines(p, n) ==
  LET after[i \in 0..n] == IF i = 0 THEN p ELSE AfterLine(after[i - 1]) IN after[n]

ConsumeBinaryPreamble(p) ==
  IF p >= End THEN End
  ELSE Min({i \in p..End : i = End \/ Unit(i) # Newline})

\* Seeded fault: the line behind METADATA is taken for the last one.
AfterMetadata_OneLine(p) == AfterLine(p)
\* The rest of the block goes up to an empty line.
AfterMetadata(p) ==
  LET first == AfterLine(p)
      blank == {i \in first..(End - 1) : /\ Unit(i) = Newline
                                         /\ i = first \/ Unit(i - 1) = Newline}
  IN IF blank = {} THEN End ELSE Min(blank) + 1
SkipOptionalMetadata(p) ==
  IF p < End /\ ReadToken(p).text = "metadata" THEN AfterMetadata(ReadToken(p).next) ELSE p

\* Where a binary string ends, or None if its header is not there.
LengthOf == [header \in {StringHeader(n) : n \in 0..MaxNumber} |->
              CHOOSE n \in 0..MaxNumber : StringHeader(n) = header]
SkipBinaryLegacyString(p) ==
  IF p < End /\ Unit(p) \in DOMAIN LengthOf THEN p + 1 + LengthOf[Unit(p)] ELSE None
AfterStrings(p, n) ==
  LET after[i \in 0..n] == IF i = 0 THEN p
                           ELSE IF after[i - 1] = None THEN None
                           ELSE SkipBinaryLegacyString(after[i - 1])
  IN after[n]

\* Where the values of an unsupported type end; None when it throws.
SkipUnsupportedLegacyPayload(p, token, count) ==
  LET after ==
        CASE token = "bit" /\ deck.binary -> ConsumeBinaryPreamble(p) + (count + 7) \div 8
          [] token = "bit" /\ ~deck.binary -> AfterTokens(p, count)
          [] token \in StringTokens /\ deck.binary -> AfterStrings(ConsumeBinaryPreamble(p), count)
          [] token \in StringTokens /\ ~deck.binary -> AfterLines(p, count)
          [] OTHER -> None
  IN IF after = None THEN None ELSE SkipOptionalMetadata(after)

\* The bytes of the values and where the parser goes on; next is None when it
\* throws.  Seeking does not fail behind the end of the file.
ParseLegacyScalarPayload(p, token, tuples, components) ==
  LET type == NormalizeLegacyScalarTypeToken(token)
      count == tuples * components
      offset == IF deck.binary THEN ConsumeBinaryPreamble(p) ELSE p
      stop == IF deck.binary THEN offset + count * ScalarByteSize(type)
              ELSE AfterTokens(p, count)
  IN CASE type = None ->
            [supported |-> FALSE, type |-> None, offset |-> 0, length |-> 0,
             next |-> SkipUnsupportedLegacyPayload(p, token, count)]
       [] type # None /\ deck.binary /\ RequiresStorageWidthResolution(token) ->
            [supported |-> TRUE, type |-> type, offset |-> 0, length |-> 0, next |-> None]
       [] OTHER ->
            [supported |-> TRUE, type |-> type, offset |-> offset, length |-> stop - offset,
             next |-> SkipOptionalMetadata(stop)]

-----------------------------------------------------------------------------
(* Arrays and their names.                                                 *)

SupportsArrayShape(type, components) ==
  \/ components = 1
  \/ components \in 2..4 /\ type \in {"Float32", "Float64"}

IsUsed(name) == name \in names.used
\* Seeded fault: the suffix that was given last is not remembered as used.
MakeUniqueName_NoCheck(base) ==
  IF base \notin DOMAIN names.nextSuffix
  THEN [name |-> base, next |-> 1]
  ELSE [name |-> base \o "_" \o ToString(names.nextSuffix[base]),
        next |-> names.nextSuffix[base] + 1]
\* The name, and the suffix that the next array of the same name starts at.  A
\* name that only a suffix made starts at 0.
MakeUniqueName(base) ==
  IF base \notin DOMAIN names.nextSuffix /\ ~IsUsed(base)
  THEN [name |-> base, next |-> 1]
  ELSE LET from == IF base \in DOMAIN names.nextSuffix THEN names.nextSuffix[base] ELSE 0
           free == {n \in from..(from + Cardinality(names.used)) :
                      ~IsUsed(base \o "_" \o ToString(n))}
       IN [name |-> base \o "_" \o ToString(Min(free)), next |-> Min(free) + 1]

Register(base, unique) ==
  names' = [used |-> names.used \cup {unique.name},
            nextSuffix |-> (base :> unique.next) @@ names.nextSuffix]

\* Only fields get names of their own; the others have those of their role.
AddArrayFromPayload(array, parsed) ==
  IF parsed.supported /\ SupportsArrayShape(parsed.type, array.components)
  THEN LET unique == MakeUniqueName(array.source)
           generic == array.role = "Generic"
       IN /\ dataset' = [dataset EXCEPT !.arrays = Append(@,
               [array EXCEPT !.name = IF generic THEN unique.name ELSE array.name]
               @@ [type |-> parsed.type, offset |-> parsed.offset, length |-> parsed.length])]
          /\ IF generic THEN Register(array.source, unique) ELSE UNCHANGED names
  ELSE /\ dataset' = [dataset EXCEPT !.skipped = Append(@, [name |-> array.name, role |-> array.role])]
       /\ UNCHANGED names

Fail ==
  /\ phase' = "failed"
  /\ UNCHANGED <<deck, file, pos, tokenVars, resultVars>>

\* The values of an array are at p: the parser goes on behind them.
AddPayload(array, token, p, then) ==
  LET parsed == ParseLegacyScalarPayload(p, token, array.tuples, array.components) IN
  IF parsed.next = None THEN Fail
  ELSE /\ AddArrayFromPayload(array, parsed)
       /\ pos' = parsed.next /\ phase' = then
       /\ left' = IF phase = "field" THEN left - 1 ELSE left
       /\ UNCHANGED <<deck, file, association, tupleCount, cellArray, attrs, loaded>>

Structural(name, role, tuples, components) ==
  [name |-> name, source |-> name, role |-> role, tuples |-> tuples,
   components |-> components, association |-> "None"]
Field(source, tuples, components) ==
  [name |-> "array", source |-> IF source = "" THEN "array" ELSE source, role |-> "Generic",
   tuples |-> tuples, components |-> components, association |-> association]

-----------------------------------------------------------------------------
(* LegacyParser::Parse and LegacyTokenParser.                              *)

Kinds == {"polydata", "structured_points", "structured_grid", "rectilinear_grid",
          "unstructured_grid"}

Init ==
  /\ deck \in Decks
  /\ file = FileOf(deck)
  /\ phase = "header" /\ pos = 1
  /\ association = "None" /\ tupleCount = 0 /\ left = 0 /\ cellArray = None
  /\ dataset = [arrays |-> <<>>, skipped |-> <<>>, minExtent |-> <<0, 0, 0>>,
                maxExtent |-> <<0, 0, 0>>, origin |-> None, spacing |-> None]
  /\ names = [used |-> {}, nextSuffix |-> <<>>]
  /\ attrs = <<>> /\ loaded = None

ParseLegacyDatasetKind ==
  /\ phase = "header"
  /\ phase' = IF deck.kind \in Kinds THEN "tokens" ELSE "failed"
  /\ UNCHANGED <<deck, file, pos, tokenVars, resultVars>>

Token == ReadToken(pos)
Arg(n) == TokenAt(pos, n + 1).text
IntArg(n) == IntOf[Arg(n)]
Rest(n) == AfterTokens(pos, n + 1)
IsAt(tokens) == phase = "tokens" /\ Token.text \in tokens
OfKind(kinds) == deck.kind \in kinds

Goto(p) == pos' = p /\ UNCHANGED <<deck, file, left, cellArray, names, attrs, loaded>>

\* std::stoi and std::stoll throw on a token that is no number.
NumericArguments(token) ==
  CASE token \in {"points", "cell_types", "point_data", "cell_data", "x_coordinates",
                  "y_coordinates", "z_coordinates"} -> {1}
    [] token \in {"cells", "vertices", "lines", "polygons", "triangle_strips"} -> {1, 2}
    [] token \in {"texture_coordinates", "color_scalars", "lookup_table", "field"} -> {2}
    [] token \in {"dimensions", "origin", "spacing", "aspect_ratio"} -> 1..3
    [] token = "extent" -> 1..6
    [] OTHER -> {}
NumbersParse(token) == \A n \in NumericArguments(token) : IsNumber(Arg(n))

ParseMetadata ==
  /\ IsAt({"metadata"})
  /\ Goto(SkipOptionalMetadata(pos))
  /\ UNCHANGED <<phase, association, tupleCount, dataset>>

ParseFieldData ==
  /\ IsAt({"field"}) /\ NumbersParse("field")
  /\ left' = IntArg(2)
  /\ phase' = IF IntArg(2) > 0 THEN "field" ELSE phase
  /\ pos' = Rest(2)
  /\ UNCHANGED <<deck, file, association, tupleCount, cellArray, resultVars>>

ParseFieldArray ==
  /\ phase = "field"
  /\ LET then == IF left = 1 THEN "tokens" ELSE "field" IN
     CASE Token.text = "null_array" ->
            /\ pos' = Token.next /\ phase' = then /\ left' = left - 1
            /\ UNCHANGED <<deck, file, association, tupleCount, cellArray, resultVars>>
       [] Token.text # "null_array" /\ IsNumber(Arg(1)) /\ IsNumber(Arg(2)) ->
            AddPayload(Field(Token.text, IntArg(2), IntArg(1)), Arg(3), Rest(3), then)
       [] OTHER -> Fail

ParseAssociation ==
  /\ IsAt({"point_data", "cell_data"}) /\ NumbersParse(Token.text)
  /\ association' = IF Token.text = "point_data" THEN "Point" ELSE "Cell"
  /\ tupleCount' = IntArg(1)
  /\ Goto(Rest(1))
  /\ UNCHANGED <<phase, dataset>>

ParsePoints ==
  /\ IsAt({"points"}) /\ OfKind({"polydata", "structured_grid", "unstructured_grid"})
  /\ NumbersParse("points")
  /\ AddPayload(Structural("points", "Points", IntArg(1), 3), Arg(2), Rest(2), "tokens")

ParseCoordinate ==
  /\ OfKind({"rectilinear_grid"})
  /\ \E axis \in {"x", "y", "z"} :
       /\ IsAt({axis \o "_coordinates"}) /\ NumbersParse(Token.text)
       /\ AddPayload(Structural(axis \o "Coordinates", "Coordinates", IntArg(1), 1),
                     Arg(2), Rest(2), "tokens")

ParseCellTypes ==
  /\ IsAt({"cell_types"}) /\ OfKind({"unstructured_grid"}) /\ NumbersParse("cell_types")
  /\ AddPayload(Structural("cellTypes", "CellTypes", IntArg(1), 1), "int", Rest(1), "tokens")

CellArrayOf == [vertices |-> "verts", lines |-> "lines", polygons |-> "polys",
                triangle_strips |-> "strips"]
CellArrayName(token, part) ==
  IF token = "cells" THEN [offsets |-> "connectivityOffsets", connectivity |-> "connectivityArray",
                           packed |-> "connectivityPackedArray"][part]
  ELSE CellArrayOf[token] \o [offsets |-> "ConnectivityOffsets",
                              connectivity |-> "ConnectivityArray",
                              packed |-> "PackedConnectivityArray"][part]

IsCellArray ==
  \/ IsAt({"cells"}) /\ OfKind({"unstructured_grid"})
  \/ IsAt(DOMAIN CellArrayOf) /\ OfKind({"polydata"})

\* Up to version 4 the sizes of the cells are among the points of them.
AddLegacyPackedCellArray ==
  /\ IsCellArray /\ NumbersParse(Token.text) /\ deck.major < 5
  /\ IF IntArg(2) < IntArg(1) THEN Fail
     ELSE AddPayload(Structural(CellArrayName(Token.text, "packed"), "Connectivity",
                                IntArg(2), 1), "int", Rest(2), "tokens")

ParseCellArray ==
  /\ IsCellArray /\ NumbersParse(Token.text) /\ deck.major >= 5
  /\ cellArray' = [token |-> Token.text, offsets |-> IntArg(1), connectivity |-> IntArg(2)]
  /\ phase' = "offsets" /\ pos' = Rest(2)
  /\ UNCHANGED <<deck, file, association, tupleCount, left, resultVars>>
ParseCellArrayPart(part, role, then) ==
  /\ phase = part
  /\ IF Token.text # part THEN Fail
     ELSE AddPayload(Structural(CellArrayName(cellArray.token, part), role,
                                cellArray[part], 1), Arg(1), Rest(1), then)
ParseOffsets == ParseCellArrayPart("offsets", "Offsets", "connectivity")
ParseConnectivity == ParseCellArrayPart("connectivity", "Connectivity", "tokens")

IsGrid == OfKind({"structured_points", "structured_grid", "rectilinear_grid"})

ParseExtentsFromDimensions ==
  /\ IsAt({"dimensions"}) /\ IsGrid /\ NumbersParse("dimensions")
  /\ dataset' = [dataset EXCEPT !.minExtent = <<0, 0, 0>>,
                                !.maxExtent = [i \in 1..3 |-> IntArg(i) - 1]]
  /\ Goto(Rest(3))
  /\ UNCHANGED <<phase, association, tupleCount>>

\* The six arguments of ParseExtents each read a token: in the order in which
\* the compiler evaluates arguments, which the language leaves open.
ParseExtents ==
  /\ IsAt({"extent"}) /\ IsGrid /\ NumbersParse("extent")
  /\ \E reversed \in RightToLeft :
       LET argument(i) == IntArg(IF reversed THEN 7 - i ELSE i) IN
       dataset' = [dataset EXCEPT
         !.minExtent = <<argument(1), argument(3), argument(5)>>,
         !.maxExtent = <<argument(2), argument(4), argument(6)>>]
  /\ Goto(Rest(6))
  /\ UNCHANGED <<phase, association, tupleCount>>

ParseOriginAndSpacing ==
  /\ IsAt({"origin", "spacing", "aspect_ratio"}) /\ OfKind({"structured_points"})
  /\ NumbersParse(Token.text)
  /\ LET triple == [i \in 1..3 |-> IntArg(i)] IN
     dataset' = IF Token.text = "origin" THEN [dataset EXCEPT !.origin = triple]
                ELSE [dataset EXCEPT !.spacing = triple]
  /\ Goto(Rest(3))
  /\ UNCHANGED <<phase, association, tupleCount>>

\* The number of components may be left out.
ParseScalarField ==
  /\ IsAt({"scalars"})
  /\ LET hasCount == Arg(3) # "lookup_table"
         n == IF hasCount THEN 4 ELSE 3
     IN IF (hasCount /\ ~IsNumber(Arg(3))) \/ Arg(n) # "lookup_table" THEN Fail
        ELSE AddPayload(Field(Arg(1), tupleCount, IF hasCount THEN IntArg(3) ELSE 1),
                        Arg(2), Rest(n + 1), "tokens")

FixedComponents ==
  [vectors |-> 3, normals |-> 3, tensors6 |-> 6, tensors |-> 9,
   global_ids |-> 1, pedigree_ids |-> 1, edge_flags |-> 1]
ParseFixedComponentField ==
  /\ IsAt(DOMAIN FixedComponents)
  /\ AddPayload(Field(Arg(1), tupleCount, FixedComponents[Token.text]),
                Arg(2), Rest(2), "tokens")

ParseTextureCoordinates ==
  /\ IsAt({"texture_coordinates"}) /\ NumbersParse(Token.text)
  /\ AddPayload(Field(Arg(1), tupleCount, IntArg(2)), Arg(3), Rest(3), "tokens")

ColorType == IF deck.binary THEN "unsigned_char" ELSE "float"
ParseColorScalars ==
  /\ IsAt({"color_scalars"}) /\ NumbersParse(Token.text)
  /\ AddPayload(Field(Arg(1), tupleCount, IntArg(2)), ColorType, Rest(2), "tokens")

TableComponents == 4
\* The colours of a table are of no use here, but they are in the way.
ParseLookupTable ==
  /\ IsAt({"lookup_table"}) /\ NumbersParse(Token.text)
  /\ Goto(ParseLegacyScalarPayload(Rest(2), ColorType, IntArg(2), TableComponents).next)
  /\ UNCHANGED <<phase, association, tupleCount, dataset>>

BadNumber ==
  /\ phase = "tokens" /\ ~NumbersParse(Token.text)
  /\ Fail

KnownTokens ==
  {"metadata", "field", "point_data", "cell_data", "scalars", "texture_coordinates",
   "color_scalars", "lookup_table"} \cup DOMAIN FixedComponents
  \cup CASE deck.kind = "polydata" -> {"points"} \cup DOMAIN CellArrayOf
         [] deck.kind = "structured_points" ->
              {"dimensions", "extent", "origin", "spacing", "aspect_ratio"}
         [] deck.kind = "structured_grid" -> {"dimensions", "extent", "points"}
         [] deck.kind = "rectilinear_grid" ->
              {"dimensions", "extent", "x_coordinates", "y_coordinates", "z_coordinates"}
         [] OTHER -> {"points", "cells", "cell_types"}

\* A token that is not known ends the parse like the end of the file does.
EndParse ==
  /\ phase = "tokens" /\ Token.text \notin KnownTokens
  /\ phase' = "parsed"
  /\ UNCHANGED <<deck, file, pos, tokenVars, resultVars>>

-----------------------------------------------------------------------------
(* FileFormatCore.cpp: the layer.                                          *)

ScalarValueTypeName(type) ==
  CASE type \in {"Int8", "Int16", "Int32"} -> "int"
    [] type = "UInt8" -> "uchar"
    [] type \in {"UInt16", "UInt32"} -> "uint"
    [] type = "Int64" -> "int64"
    [] type = "UInt64" -> "uint64"
    [] type = "Float32" -> "float"
    [] OTHER -> "double"
ValueTypeName(array) ==
  [base |-> ScalarValueTypeName(array.type), vector |-> array.components]

\* The array type of USD with the same values in memory, if there is one.
Native == [UInt8 |-> "uchar", Int32 |-> "int", UInt32 |-> "uint", Int64 |-> "int64",
           UInt64 |-> "uint64", Float32 |-> "float", Float64 |-> "double"]

IsStructuralRole(role) == role # "Generic"

\* Attributes are registered by name, so that of two arrays with one name the
\* later one is seen.
RegisterFileData ==
  [name \in {dataset.arrays[i].name : i \in DOMAIN dataset.arrays} |->
    LET i == Max({i \in DOMAIN dataset.arrays : dataset.arrays[i].name = name})
    IN [array |-> i, type |-> ValueTypeName(dataset.arrays[i])]]

\* AuthorStructure throws when a structural array had to be skipped.
AuthorStructure ==
  /\ phase = "parsed"
  /\ IF \E i \in DOMAIN dataset.skipped : IsStructuralRole(dataset.skipped[i].role)
     THEN phase' = "failed" /\ UNCHANGED attrs
     ELSE phase' = "read" /\ attrs' = RegisterFileData
  /\ UNCHANGED <<deck, file, pos, tokenVars, dataset, names, loaded>>

-----------------------------------------------------------------------------
(* ArrayEvaluator.cpp: an attribute is loaded.                             *)

\* The values of the bytes or words that were taken down, unless the file has
\* become too short for them.
WordsIn(p, length) ==
  Cardinality({i \in p..(p + length - 1) : ~IsSpace(Unit(i)) /\ (i = p \/ IsSpace(Unit(i - 1)))})
ReadDirectScalarPayload(array) ==
  LET count == array.tuples * array.components
      stored == IF deck.binary THEN array.length \div ScalarByteSize(array.type)
                ELSE WordsIn(array.offset, array.length)
  IN CASE count = 0 -> [type |-> array.type, count |-> 0]
       [] count > 0 /\ array.offset + array.length > End -> None
       [] OTHER -> IF stored < count THEN None ELSE [type |-> array.type, count |-> count]

\* USD has no arrays of these three types: the values are widened.
NormalizeScalarValueForUsd(value) ==
  [base |-> CASE value.type \in {"Int8", "Int16"} -> "int"
              [] value.type = "UInt16" -> "uint"
              [] OTHER -> Native[value.type],
   vector |-> 1, tuples |-> value.count]

ReinterpretFloatingVector(value, array) ==
  IF value.count % array.components # 0 \/ value.count \div array.components # array.tuples
  THEN None
  ELSE [base |-> Native[value.type], vector |-> array.components,
        tuples |-> value.count \div array.components]

Evaluate(array) ==
  LET value == ReadDirectScalarPayload(array) IN
  CASE value = None -> None
    [] value # None /\ array.components = 1 -> NormalizeScalarValueForUsd(value)
    [] OTHER -> ReinterpretFloatingVector(value, array)

Load ==
  /\ phase = "read" /\ loaded = None
  /\ \E name \in DOMAIN attrs :
       loaded' = [name |-> name, value |-> Evaluate(dataset.arrays[attrs[name].array])]
  /\ UNCHANGED <<deck, file, phase, pos, tokenVars, dataset, names, attrs>>

\* The last of the values of a part is cut off, and all that follows.
Truncate ==
  /\ phase = "read" /\ loaded = None
  /\ \E n \in DOMAIN file.values :
       LET last == file.values[n].offset + file.values[n].length - 1 IN
       /\ file.values[n].length > 0 /\ last < End
       /\ file' = [file EXCEPT !.units = SubSeq(@, 1, last - 1 - (IF deck.binary THEN 0 ELSE 1))]
  /\ UNCHANGED <<deck, phase, pos, tokenVars, resultVars>>

Next ==
  \/ ParseLegacyDatasetKind \/ ParseMetadata \/ ParseFieldData \/ ParseFieldArray
  \/ ParseAssociation \/ ParsePoints \/ ParseCoordinate \/ ParseCellTypes
  \/ AddLegacyPackedCellArray \/ ParseCellArray \/ ParseOffsets \/ ParseConnectivity
  \/ ParseExtentsFromDimensions \/ ParseExtents \/ ParseOriginAndSpacing
  \/ ParseScalarField \/ ParseFixedComponentField \/ ParseTextureCoordinates
  \/ ParseColorScalars \/ ParseLookupTable \/ BadNumber \/ EndParse \/ AuthorStructure
  \/ Load \/ Truncate

Spec == Init /\ [][Next]_vars

-----------------------------------------------------------------------------
(* Properties.                                                             *)

\* The parts up to the first one that is in no way part of the format.
Known == LET strange == {n \in DOMAIN deck.parts : deck.parts[n].strange} IN
         IF strange = {} THEN DOMAIN deck.parts ELSE 1..(Min(strange) - 1)
IsArray(n) ==
  /\ deck.parts[n].role # None
  /\ NormalizeLegacyScalarTypeToken(deck.parts[n].type) # None
  /\ SupportsArrayShape(NormalizeLegacyScalarTypeToken(deck.parts[n].type),
                        deck.parts[n].components)

\* Whatever comes between them - arrays that are skipped, tables, metadata, bits
\* and strings - the arrays are those that were written, each with the bytes
\* that were written for it, and of the points or cells it was written for.
ArraysAsWritten ==
  phase \in {"parsed", "read"} =>
    LET written == SelectSeq([n \in DOMAIN deck.parts |-> n],
                              LAMBDA n : n \in Known /\ IsArray(n)) IN
    /\ Len(dataset.arrays) = Len(written)
    /\ \A i \in DOMAIN written :
         LET part == deck.parts[written[i]]
             array == dataset.arrays[i]
         IN /\ array.source = part.name /\ array.role = part.role
            /\ array.type = NormalizeLegacyScalarTypeToken(part.type)
            /\ array.tuples * array.components = part.count
            /\ array.association = part.association
            /\ array.offset = file.values[written[i]].offset
            /\ array.length = file.values[written[i]].length

\* Every array is seen under a name of its own, also when fields have the same
\* name or one that another got by its suffix.  A field with the name of a
\* structural array is not among them.
EveryArrayIsSeen ==
  phase = "read" =>
    \A i \in DOMAIN dataset.arrays :
      \/ attrs[dataset.arrays[i].name].array = i
      \/ \E j \in DOMAIN dataset.arrays :
           /\ IsStructuralRole(dataset.arrays[i].role) # IsStructuralRole(dataset.arrays[j].role)
           /\ dataset.arrays[i].name = dataset.arrays[j].name

\* A file is refused for something that is wrong with a part that is reached, or
\* because a structural array is of a type that cannot be shown, and only then.
RefusedForAReason ==
  LET unshown(n) == deck.parts[n].role \notin {None, "Generic"} /\ ~IsArray(n)
      wrong == deck.kind \notin Kinds
               \/ \E n \in Known : deck.parts[n].malformed \/ unshown(n)
  IN /\ phase = "failed" => wrong
     /\ phase = "read" => ~wrong

\* An attribute that is loaded has the type that the layer announced for it and
\* a value for each of its points or cells, or the file has lost some of them.
LoadedAsAnnounced ==
  loaded # None =>
    LET array == dataset.arrays[attrs[loaded.name].array]
        type == attrs[loaded.name].type
    IN IF array.tuples = 0 \/ array.offset + array.length <= End
       THEN loaded.value = [base |-> type.base, vector |-> type.vector, tuples |-> array.tuples]
       ELSE loaded.value = None

\* What was in the file is in the layer, and can be got from it.
EveryArrayIsThere == EveryArrayIsSeen /\ LoadedAsAnnounced

\* A file is read as it was written or is refused for what is wrong in it.
ReadAsWritten == ArraysAsWritten /\ RefusedForAReason

\* docs/conceptual_data_mapping/vtk.md:195: omni:vtk:minExtent is the "Minimum
\* ijk extent.", and the next line says the same of the maximum.
ExtentAsWritten ==
  phase = "parsed" /\ deck.kind # "polydata" =>
    \A i \in 1..3 : dataset.minExtent[i] <= dataset.maxExtent[i]

=============================================================================
