------------------------------ MODULE MCLegacyVtk ------------------------------
(* Files of every kind with up to two parts after the geometry, as text and *)
(* as bytes, with blocks of metadata and without.                           *)
EXTENDS LegacyVtk

NoValues(words) ==
  [words |-> words, type |-> "int", count |-> 0, name |-> "", role |-> None, components |-> 1,
   association |-> "None", metadata |-> FALSE, strange |-> FALSE, malformed |-> FALSE]
Values(words, type, count, name, role, components, association_) ==
  [NoValues(words) EXCEPT !.type = type, !.count = count, !.name = name, !.role = role,
                          !.components = components, !.association = association_]
Strange(words) == [NoValues(words) EXCEPT !.strange = TRUE]
Malformed(part) == [part EXCEPT !.malformed = TRUE]
WithMetadata(part) == [part EXCEPT !.metadata = TRUE]

Points(type) == Values(<<"points", "2", type>>, type, 6, "points", "Points", 3, "None")
Coordinates(axis) ==
  Values(<<axis \o "_coordinates", "2", "float">>, "float", 2, axis \o "Coordinates",
         "Coordinates", 1, "None")
PackedCells(token, name) ==
  Values(<<token, "1", "3">>, "int", 3, name, "Connectivity", 1, "None")
Cells(token, name) ==
  <<NoValues(<<token, "2", "3">>),
    Values(<<"offsets", "vtktypeint64">>, "vtktypeint64", 2, name \o "ConnectivityOffsets",
           "Offsets", 1, "None"),
    Values(<<"connectivity", "int">>, "int", 3, name \o "ConnectivityArray",
           "Connectivity", 1, "None")>>
Vector3(token, a, b, c) == NoValues(<<token, ToString(a), ToString(b), ToString(c)>>)
Extent == NoValues(<<"extent", "0", "5", "1", "6", "2", "7">>)

At(where, n) == NoValues(<<IF where = "Point" THEN "point_data" ELSE "cell_data", ToString(n)>>)

\* Fields of two points or cells.
Scalars(name, type, where) ==
  Values(<<"scalars", name, type, "lookup_table", "default">>, type, 2, name,
         "Generic", 1, where)
ScalarsN(n, type, where) ==
  Values(<<"scalars", "s", type, ToString(n), "lookup_table", "default">>, type, 2 * n,
         "s", "Generic", n, where)
Fixed(token, n, type, where) ==
  Values(<<token, "a", type>>, type, 2 * n, "a", "Generic", n, where)
FieldArray(name, n, tuples, type, where) ==
  Values(<<name, ToString(n), ToString(tuples), type>>, type, n * tuples, name, "Generic", n, where)
FieldOf(arrays) == <<NoValues(<<"field", "f", ToString(Len(arrays))>>)>> \o arrays

Attributes(where) ==
  { <<Scalars("a", "float", where)>>, <<WithMetadata(Scalars("a_1", "double", where))>>,
    <<ScalarsN(4, "float", where)>>, <<Fixed("vectors", 3, "int", where)>>,
    <<Fixed("normals", 3, "float", where)>>, <<Fixed("tensors", 9, "float", where)>>,
    <<WithMetadata(Fixed("global_ids", 1, "bit", where))>>,
    <<Fixed("pedigree_ids", 1, "string", where)>>,
    <<Values(<<"texture_coordinates", "a_1", "2", "float">>, "float", 4, "a_1",
             "Generic", 2, where)>>,
    <<[NoValues(<<"lookup_table", "t", "2">>) EXCEPT !.type = "table", !.count = 8]>>,
    <<[NoValues(<<"color_scalars", "c", "1">>)
        EXCEPT !.type = "table", !.count = 2, !.name = "c", !.role = "Generic",
               !.association = where]>>,
    FieldOf(<<FieldArray("a", 1, 2, "unsigned_char", where), NoValues(<<"null_array">>),
              WithMetadata(FieldArray("points", 2, 1, "utf8_string", where))>>),
    [FieldOf(<<>>) EXCEPT ![1] = WithMetadata(@)],
    <<Malformed(Fixed("vectors", 3, "half", where))>>,
    <<Malformed(NoValues(<<"scalars", "s", "float", "1", "2">>))>>,
    <<Strange(<<"selection", "1">>)>> }

\* The type of a table depends on the mode.
InMode(part, binary) ==
  [part EXCEPT !.type = CASE part.type = "table" /\ binary -> "unsigned_char"
                          [] part.type = "table" /\ ~binary -> "float"
                          [] OTHER -> part.type,
               !.malformed = part.malformed \/ (binary /\ part.type = "long")]
Deck(kind, major, binary, parts) ==
  [kind |-> kind, major |-> major, binary |-> binary,
   parts |-> [n \in DOMAIN parts |-> InMode(parts[n], binary)]]

Geometries ==
  { [kind |-> "polydata", major |-> 4, parts |->
      <<WithMetadata(Points("float")), PackedCells("vertices", "vertsPackedConnectivityArray"),
        PackedCells("polygons", "polysPackedConnectivityArray")>>],
    [kind |-> "unstructured_grid", major |-> 5, parts |-> <<Points("double")>> \o
      <<NoValues(<<"cells", "2", "3">>),
        Values(<<"offsets", "vtktypeint64">>, "vtktypeint64", 2, "connectivityOffsets",
               "Offsets", 1, "None"),
        WithMetadata(Values(<<"connectivity", "long">>, "long", 3, "connectivityArray",
               "Connectivity", 1, "None"))>> \o
      <<Values(<<"cell_types", "1">>, "int", 1, "cellTypes", "CellTypes", 1, "None")>>] }
Others ==
  { [kind |-> "polydata", major |-> 5, parts |-> <<Points("float")>> \o Cells("lines", "lines")
      \o Cells("triangle_strips", "strips")],
    [kind |-> "unstructured_grid", major |-> 4, parts |->
      <<Points("float"), PackedCells("cells", "connectivityPackedArray")>>],
    [kind |-> "structured_points", major |-> 3, parts |->
      <<Vector3("dimensions", 2, 2, 1), Vector3("origin", 0, 0, 0), Vector3("spacing", 1, 1, 1),
        At("Point", 2), Scalars("a", "float", "Point")>>],
    [kind |-> "structured_points", major |-> 3, parts |->
      <<Vector3("aspect_ratio", 1, 1, 1), NoValues(<<"points", "1">>)>>],
    [kind |-> "rectilinear_grid", major |-> 3, parts |->
      <<Vector3("dimensions", 2, 2, 2), Coordinates("x"), Coordinates("y"), Coordinates("z")>>],
    [kind |-> "structured_grid", major |-> 3, parts |-> <<Extent, Points("bit")>>],
    [kind |-> "structured_grid", major |-> 3, parts |-> <<Extent, Points("float")>>],
    [kind |-> "unstructured_grid", major |-> 4, parts |->
      <<Malformed(NoValues(<<"cells", "3", "2">>))>>],
    [kind |-> "polydata", major |-> 5, parts |->
      <<NoValues(<<"polygons", "1", "1">>), Malformed(NoValues(<<"connectivity">>))>>],
    [kind |-> "polydata", major |-> 5, parts |->
      <<Malformed(NoValues(<<"points", "few", "float">>))>>],
    [kind |-> "polydata", major |-> 3, parts |-> FieldOf(
      <<FieldArray("i", 1, 2, "char", "None"), FieldArray("j", 1, 1, "short", "None"),
        FieldArray("k", 1, 2, "unsigned_short", "None"), FieldArray("l", 1, 0, "int", "None"),
        FieldArray("m", 1, 1, "vtktypeuint64", "None"), FieldArray("n", 1, 2, "unsigned_int", "None"),
        FieldArray("o", 2, 2, "double", "None"), FieldArray("p", 1, 1, "long_long", "None")>>)],
    [kind |-> "table", major |-> 5, parts |-> <<>>] }

MCDecks ==
  LET two == {a \o b : a \in Attributes("Point"), b \in Attributes("Point")}
      mixed == {<<At("Point", 2)>> \o a \o <<At("Cell", 2)>> \o b :
                  a \in Attributes("Point"), b \in Attributes("Cell")}
      field == FieldOf(<<FieldArray("a", 1, 1, "float", "None")>>)
  IN {Deck(g.kind, g.major, binary, g.parts \o field \o <<At("Point", 2)>> \o tail) :
        g \in Geometries, binary \in BOOLEAN, tail \in two}
     \cup {Deck("polydata", 3, binary, tail) : binary \in BOOLEAN, tail \in mixed}
     \cup {Deck(g.kind, g.major, binary, g.parts) : g \in Others, binary \in BOOLEAN}
=============================================================================
