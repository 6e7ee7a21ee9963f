--------------------------- MODULE MCEclipseBinary ---------------------------
(* Files of each kind for a grid of two cells, one of them active: whole,  *)
(* in unusual order, and with records that are not in order.               *)
EXTENDS EclipseBinary

Numbers(values) == [i \in DOMAIN values |-> Number(values[i])]
Doubles(values) ==
  FlattenSeq([i \in DOMAIN values |-> <<Number(values[i]), Number(0)>>])
Chunks(keyword, type, count, chunks) ==
  [keyword |-> keyword, type |-> type, count |-> count, chunks |-> chunks]
Empty(keyword) == Chunks(keyword, "MESS", 0, <<>>)
Inte(keyword, values) == Chunks(keyword, "INTE", Len(values), <<Numbers(values)>>)
Real(keyword, values) == Chunks(keyword, "REAL", Len(values), <<Numbers(values)>>)
Doub(keyword, values) == Chunks(keyword, "DOUB", Len(values), <<Doubles(values)>>)
Char(keyword, text) == Chunks(keyword, "CHAR", 1, <<<<Text(text), Text("rest")>>>>)
Repeated(n, v) == [i \in 1..n |-> v]

InteheadOf(active) == Inte("INTEHEAD", Repeated(8, 0) \o <<2, 1, 1>> \o active)
Report(n) == Inte("SEQNUM", <<n>>)
Days(n) == Doub("DOUBHEAD", <<n>>)
Pressure(v) == Real("PRESSURE", <<v>>)

Unrst(items) == [kind |-> "UNRST", items |-> items]
InitFile(items) == [kind |-> "INIT", items |-> items]
Egrid(items) == [kind |-> "EGRID", items |-> items]

Gridhead == Inte("GRIDHEAD", <<1, 2, 1, 1>>)
Coord == Chunks("COORD", "REAL", 36, <<Numbers(Repeated(30, 1)), Numbers(Repeated(6, 2))>>)
Zcorn == Real("ZCORN", Repeated(15, 3) \o <<4>>)
Lgr == <<Inte("GRIDHEAD", <<1, 1, 1, 1>>), Real("COORD", <<9>>)>>

MCFiles ==
  [ steps |-> Unrst(<<Report(0), InteheadOf(<<1>>), Days(4), Empty("STARTSOL"), Pressure(10),
              Real("SWAT", <<1, 2>>), Empty("ENDSOL"), Report(5), InteheadOf(<<1>>), Days(2),
              Doub("PRESSURE", <<11>>), Real("SWAT", <<5, 6>>), Inte("CUSTOM", <<7>>),
              Char("ZWEL", "P1")>>),
    repacked |-> Unrst(<<Report(0), InteheadOf(<<1>>), Real("SWAT", <<1, 2>>), Report(1),
              Real("SWAT", <<3>>)>>),
    noSeqnum |-> Unrst(<<InteheadOf(<<>>), Days(3),
              Chunks("SWAT", "DOUB", 2, <<Doubles(<<1>>), Doubles(<<2>>)>>), Report(7),
              Real("SWAT", <<3, 4>>), Report(9), Days(1),
              Chunks("SWAT", "DOUB", 2, <<<<Number(1)>>, Numbers(<<0, 2, 0>>)>>)>>),
    lateDays |-> Unrst(<<Pressure(9), Report(2), InteheadOf(<<1>>), Pressure(10), Days(6),
              Inte("CUSTOM", <<1>>), Report(3), Real("CUSTOM", <<2>>), Inte("CUSTOM", <<3, 4, 5>>)>>),
    noCells |-> Unrst(<<Report(0), Pressure(1)>>),
    shortHead |-> Unrst(<<Report(0), Inte("INTEHEAD", <<2, 1, 1>>)>>),
    realSeqnum |-> Unrst(<<Real("SEQNUM", <<1>>)>>),
    intDays |-> Unrst(<<Chunks("SEQNUM", "INTE", 0, <<>>), Inte("DOUBHEAD", <<1>>)>>),
    tooMuch |-> Unrst(<<Report(1), Chunks("PRESSURE", "REAL", 1, <<Numbers(<<1, 2>>)>>)>>),
    tooLittle |-> Unrst(<<Chunks("SEQNUM", "INTE", 2, <<Numbers(<<1>>)>>), Days(3)>>),
    negative |-> Unrst(<<Chunks("SEQNUM", "INTE", -1, <<>>)>>),
    noType |-> Unrst(<<Chunks("SEQNUM", "MESS", 1, <<Numbers(<<1>>)>>)>>),
    properties |-> InitFile(<<InteheadOf(<<1>>), Real("PORO", <<1>>), Real("PORO", <<1, 2>>),
              Inte("SATNUM", <<1, 2>>), Inte("TABDIMS", <<1, 2>>), Doub("CUSTOM", <<3, 4>>),
              Real("DX", <<1, 2, 3>>), Real("FIPNUM", <<1>>)>>),
    lateHead |-> InitFile(<<Real("PORO", <<1, 2>>), Inte("INTEHEAD", <<1>>), InteheadOf(<<1>>)>>),
    noHead |-> InitFile(<<Real("PORO", <<1>>)>>),
    grid |-> Egrid(<<Inte("FILEHEAD", <<3>>), Char("GRIDUNIT", "METRES"), Gridhead, Coord, Zcorn,
              Inte("ACTNUM", <<0, 1>>), Empty("ENDGRID")>> \o Lgr
              \o <<Chunks("NNC1", "INTE", -1, <<>>)>>),
    mapGrid |-> Egrid(<<Real("MAPAXES", <<1, 2, 3, 4, 5, 6>>), Char("MAPUNITS", "FEET"),
              Inte("GRIDHEAD", <<2, 1, 1>>), Coord, Zcorn>>),
    fewActnum |-> Egrid(<<Gridhead, Coord, Zcorn, Inte("ACTNUM", <<1>>), Empty("ENDGRID")>>),
    intAxes |-> Egrid(<<Inte("MAPAXES", <<1>>), Gridhead, Coord, Zcorn, Empty("ENDGRID")>>),
    intCoord |-> Egrid(<<Gridhead, Inte("COORD", Repeated(36, 1)), Zcorn, Doub("ACTNUM", <<1, 0>>),
              Empty("ENDGRID")>>),
    shortEnd |-> Egrid(<<Gridhead, Chunks("ENDGRID", "INTE", 1, <<>>)>>),
    noNumber |-> Unrst(<<Chunks("SEQNUM", "INTE", 0, <<>>), InteheadOf(<<1>>), Pressure(3)>>),
    noZcorn |-> Egrid(<<Gridhead, Coord, Empty("ENDGRID"), Zcorn>>) ]
=============================================================================
