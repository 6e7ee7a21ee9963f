------------------------------ MODULE SeriesScan ------------------------------
(***************************************************************************)
(* How four readers turn the files beside a case into time samples: FLASH  *)
(* (pattern manifests), EDEM, VTKHDF and OpenFOAM.  Each finds the files   *)
(* of the series, puts them in order, maps them to sample times, decides   *)
(* which fields the series has and registers one loader for each field and *)
(* sample.  The files are opened one after the other, several times, while *)
(* the solver that writes them may still be running.                       *)
(*                                                                         *)
(* A file is what these steps see of it: the number in its name, whether   *)
(* the name pads that number (two names may have one number), the time     *)
(* stored in it, the fields it holds and, for EDEM, whether there is a     *)
(* time step in it yet.  Broken is a file that cannot be opened or does    *)
(* not pass the checks of the reader.  For OpenFOAM a file is a directory, *)
(* and Broken one whose field files cannot be parsed.                      *)
(* Positions and meshes, which come with the fields, are left out; so are  *)
(* FLASH manifests that list their files, EDEM files with more than one    *)
(* time step and VTKHDF files without one in their name.  Times are        *)
(* integers; FLASH's other stored time, nstep, is treated like time.       *)
(***************************************************************************)
EXTENDS Integers, Sequences, FiniteSets

CONSTANTS
  Readers,            \* the readers to model
  Sources,            \* values of the timeSource argument
  Scales, TimeOffset, \* values of timeScale, and timeOffset
  Decks,              \* numbers of time steps an EDEM deck may announce
  Files,              \* names of files
  Number,             \* the number in a name
  Padded,             \* the names that pad their number with zeros
  Fields, Stamps,     \* fields, and times stored in files
  Contents,           \* what each file may hold
  MaxWrites,          \* bound on the writes of the solver
  Absent, Broken, NoStamp, NoFile

\* The time and the fields of an EDEM file are those of its step.
Snapshot ==
  {s \in [stamp : Stamps \cup {NoStamp}, fields : SUBSET Fields, hasStep : BOOLEAN] :
     s.hasStep \/ (s.stamp = NoStamp /\ s.fields = {})}
Sample == [file : Files, raw : Int \cup {NoStamp}, fields : SUBSET Fields, time : Int]

ASSUME ConstantsAssumption ==
  /\ Readers \subseteq {"FLASH", "EDEM", "VTKHDF", "OpenFOAM"}
  /\ Sources \subseteq {"TimeStep", "TimeValue"}
  /\ Scales \subseteq Int
  /\ TimeOffset \in Int
  /\ Decks \subseteq Nat
  /\ Number \in [Files -> Nat]
  /\ Padded \subseteq Files
  /\ Stamps \subseteq Int
  /\ NoStamp \notin Int
  /\ Contents \in [Files -> SUBSET (Snapshot \cup {Absent, Broken})]
  /\ MaxWrites \in Nat
  /\ {Absent, Broken} \cap Snapshot = {}
  /\ Absent # Broken
  /\ NoFile \notin Files

VARIABLES
  reader, timeSource, timeScale, \* which reader, and its arguments
  numTimesteps,     \* what the EDEM deck says
  disk,             \* what each file holds
  writes,           \* how often the solver has written
  pc,
  visited,          \* files the listing has come by
  samples,          \* the samples found, in order
  cursor,           \* FLASH: the snapshots scanned so far
  chosen,           \* EDEM, VTKHDF: the file whose fields stand for all
  pending,          \* OpenFOAM: field files of the first directory to check
  fields,           \* the fields of the series
  registered,       \* the list of samples of each registered field
  throughout,       \* history: files of the series since the read began
  appeared,         \* history: files of the series at some time since then
  undisturbed       \* history: nothing was written since it began

options == <<reader, timeSource, timeScale, numTimesteps>>
history == <<throughout, appeared, undisturbed>>
vars == <<options, disk, writes, pc, visited, samples, cursor, chosen, pending,
          fields, registered, history>>

-----------------------------------------------------------------------------
Present == {f \in Files : disk[f] # Absent}
Readable(f) == disk[f] \notin {Absent, Broken}

\* EDEM takes a file without a time step for no part of the series.
WithoutStep(f) == reader = "EDEM" /\ Readable(f) /\ ~disk[f].hasStep

\* The files that have something to add to the series.
Offered == {f \in Present : ~WithoutStep(f)}

\* A stored time, or what a reader takes when there is none.
StampOr(f, default) ==
  IF Readable(f) /\ disk[f].stamp # NoStamp THEN disk[f].stamp ELSE default

\* The names EDEM looks for: "<i>.h5" for the steps the deck announces.
EdemFiles == {f \in Files \ Padded : Number[f] < numTimesteps}

Entry(f, raw) == [file |-> f, raw |-> raw, fields |-> {}, time |-> 0]

FilesOf(list) == {list[i].file : i \in 1..Len(list)}

\* Every order std::sort by Before may leave a list of distinct entries in.
Orders(list, Before(_, _)) ==
  LET n == Len(list)
      entries == {list[i] : i \in 1..n}
  IN {s \in [1..n -> entries] :
        /\ {s[i] : i \in 1..n} = entries
        /\ \A i, j \in 1..n : i < j => ~Before(s[j], s[i])}

ByNumber(x, y) == Number[x.file] < Number[y.file]
ByTime(x, y) == x.time < y.time

\* Names compare by number, then the one with fewer digits comes first.
NaturalLess(x, y) ==
  \/ ByNumber(x, y)
  \/ /\ Number[x.file] = Number[y.file]
     /\ x.file \notin Padded
     /\ y.file \in Padded

SampleTime(raw) == raw * timeScale + TimeOffset

\* Gives every sample the time that its raw time maps to.
Timed(list, rawTimes) ==
  [i \in 1..Len(list) |-> [list[i] EXCEPT !.time = SampleTime(rawTimes[i])]]

\* A sample is an index, unless the stored time (EDEM, FLASH) or the name of
\* the directory (OpenFOAM) is asked for.
ResolveByIndex(list) ==
  Timed(list, [i \in 1..Len(list) |->
                 IF timeSource = "TimeValue" THEN list[i].raw ELSE i - 1])

\* VTKHDF: a sample is the number in its name.
ResolveByNumber(list) ==
  Timed(list, [i \in 1..Len(list) |->
                 IF timeSource = "TimeValue" THEN list[i].raw ELSE Number[list[i].file]])

-----------------------------------------------------------------------------
PCs == {"idle", "list", "scan", "resolve", "find", "fields", "check",
        "register", "done", "failed"}

\* Types; a read that goes on has samples, but for OpenFOAM.
TypeOK ==
  /\ reader \in Readers
  /\ timeSource \in Sources
  /\ timeScale \in Scales
  /\ numTimesteps \in Decks \cup {0}
  /\ \A f \in Files : disk[f] \in Contents[f]
  /\ writes \in 0..MaxWrites
  /\ pc \in PCs
  /\ visited \subseteq Files
  /\ samples \in Seq(Sample)
  /\ cursor \in 0..Len(samples)
  /\ chosen \in Files \cup {NoFile}
  /\ pending \subseteq Fields
  /\ fields \subseteq Fields
  /\ DOMAIN registered \subseteq Fields
  /\ \A x \in DOMAIN registered : registered[x] \in Seq(Sample)
  /\ throughout \subseteq appeared
  /\ undisturbed \in BOOLEAN
  /\ pc \in PCs \ {"idle", "list", "failed"} /\ reader # "OpenFOAM" => samples # <<>>

Init ==
  /\ reader \in Readers
  /\ timeSource \in Sources
  /\ timeScale \in Scales
  /\ numTimesteps \in IF reader = "EDEM" THEN Decks ELSE {0}
  /\ disk \in {d \in [Files -> UNION {Contents[f] : f \in Files}] :
                 \A f \in Files : d[f] \in Contents[f]}
  /\ writes = 0
  /\ pc = "idle"
  /\ visited = {}
  /\ samples = <<>>
  /\ cursor = 0
  /\ chosen = NoFile
  /\ pending = {}
  /\ fields = {}
  /\ registered = <<>>
  /\ throughout = {}
  /\ appeared = {}
  /\ undisturbed = TRUE

-----------------------------------------------------------------------------
Fail ==
  /\ pc' = "failed"
  /\ UNCHANGED <<samples, cursor, chosen, pending, fields, registered>>

\* ParseCase begins; EDEM reads its deck, which may announce no steps.
Begin ==
  /\ pc = "idle"
  /\ pc' = IF reader = "EDEM" /\ numTimesteps = 0 THEN "failed" ELSE "list"
  /\ throughout' = Offered
  /\ appeared' = Offered
  /\ undisturbed' = TRUE
  /\ UNCHANGED <<options, disk, writes, visited, samples, cursor, chosen,
                 pending, fields, registered>>

Visit(f) ==
  /\ pc = "list"
  /\ f \notin visited
  /\ visited' = visited \cup {f}
  /\ UNCHANGED <<options, disk, writes, history>>

Found(f, raw) ==
  /\ samples' = Append(samples, Entry(f, raw))
  /\ UNCHANGED <<pc, cursor, chosen, pending, fields, registered>>

\* Directory iterators come by the entries in any order; one that appears
\* meanwhile may be missed.  VTKHDF opens each file on the way, and one it
\* cannot open counts as having no time.
VisitVtkHdf(f) ==
  /\ reader = "VTKHDF"
  /\ f \in Present
  /\ Visit(f)
  /\ Found(f, StampOr(f, Number[f]))

VisitFlash(f) ==
  /\ reader = "FLASH"
  /\ f \in Present
  /\ Visit(f)
  /\ Found(f, NoStamp)

VisitOpenFoam(f) ==
  /\ reader = "OpenFOAM"
  /\ f \in Present
  /\ Visit(f)
  /\ Found(f, Number[f])

\* Seeded fault: the series ends at the first number without a file.
VisitEdem_Break(f) ==
  /\ reader = "EDEM"
  /\ f \in EdemFiles
  /\ \A g \in EdemFiles : Number[g] < Number[f] => g \in visited
  /\ Visit(f)
  /\ IF f \notin Offered \/ ~(\A n \in 0..(Number[f] - 1) : \E g \in visited : Number[g] = n)
     THEN UNCHANGED <<pc, samples, cursor, chosen, pending, fields, registered>>
     ELSE IF Readable(f) THEN Found(f, StampOr(f, Len(samples))) ELSE Fail

\* EDEM counts; a number without a file is skipped and so is a file without a
\* time step, a file it cannot open fails the read, a step without a time has
\* the index it will get.  The test that a file is there, its opening and the
\* listing of its steps are one step.
VisitEdem(f) ==
  /\ reader = "EDEM"
  /\ f \in EdemFiles
  /\ \A g \in EdemFiles : Number[g] < Number[f] => g \in visited
  /\ Visit(f)
  /\ IF f \notin Offered
     THEN UNCHANGED <<pc, samples, cursor, chosen, pending, fields, registered>>
     ELSE IF Readable(f) THEN Found(f, StampOr(f, Len(samples))) ELSE Fail

EndList(step) ==
  /\ pc = "list"
  /\ pc' = step
  /\ UNCHANGED <<options, disk, writes, visited, cursor, chosen, pending,
                 fields, registered, history>>

\* What was there all the time has been seen.
ListedAll == throughout \subseteq visited

\* Seeded fault: the times are resolved before the sort and do not move with
\* it.
EndListVtkHdf_TimesFirst ==
  /\ reader = "VTKHDF"
  /\ ListedAll
  /\ EndList(IF samples = <<>> THEN "failed" ELSE "find")
  /\ \E s \in Orders(samples, ByNumber) :
       samples' = [i \in 1..Len(s) |->
                     [s[i] EXCEPT !.time = ResolveByNumber(samples)[i].time]]

\* std::sort by number, then the times; a series without files fails.
EndListVtkHdf ==
  /\ reader = "VTKHDF"
  /\ ListedAll
  /\ EndList(IF samples = <<>> THEN "failed" ELSE "find")
  /\ \E s \in Orders(samples, ByNumber) : samples' = ResolveByNumber(s)

EndListFlash ==
  /\ reader = "FLASH"
  /\ ListedAll
  /\ EndList(IF samples = <<>> THEN "failed" ELSE "scan")
  /\ \E s \in Orders(samples, NaturalLess) : samples' = s

\* A case without time directories is read all the same, without fields.
EndListOpenFoam ==
  /\ reader = "OpenFOAM"
  /\ ListedAll
  /\ EndList(IF samples = <<>> THEN "register" ELSE "fields")
  /\ \E s \in Orders(samples, ByNumber) : samples' = ResolveByIndex(s)


EndListEdem ==
  /\ reader = "EDEM"
  /\ EdemFiles \subseteq visited
  /\ EndList(IF samples = <<>> THEN "failed" ELSE "find")
  /\ samples' = ResolveByIndex(samples)

-----------------------------------------------------------------------------
(* FLASH: snapshots are scanned in order and compared with the first.      *)

ScanSnapshot ==
  /\ pc = "scan"
  /\ LET f == samples[cursor + 1].file
     IN IF ~Readable(f) THEN Fail
        ELSE /\ samples' = [samples EXCEPT ![cursor + 1] =
                              [Entry(f, disk[f].stamp) EXCEPT !.fields = disk[f].fields]]
             /\ cursor' = cursor + 1
             /\ pc' = IF cursor' = Len(samples) THEN "resolve" ELSE "scan"
             /\ UNCHANGED <<chosen, pending, fields, registered>>
  /\ UNCHANGED <<options, disk, writes, visited, history>>

ValidateSnapshotCompatibility(a, b) == a.fields = b.fields

HasTimes == timeSource = "TimeValue" => \A i \in 1..Len(samples) : samples[i].raw # NoStamp

DistinctTimes(list) ==
  \A i, j \in 1..Len(list) : i # j => list[i].time # list[j].time

\* A single snapshot is at time 0 and needs no stored time; a series needs one
\* in every snapshot if that is the source, and no time twice.
SeriesIsValid ==
  /\ \A i \in 1..Len(samples) : ValidateSnapshotCompatibility(samples[1], samples[i])
  /\ Len(samples) > 1 => HasTimes /\ DistinctTimes(ResolveByIndex(samples))

\* The snapshots of a series are sorted with their times.
ResolveSeries ==
  /\ pc = "resolve"
  /\ IF SeriesIsValid
     THEN /\ \E s \in IF Len(samples) = 1 THEN {samples}
                      ELSE Orders(ResolveByIndex(samples), ByTime) : samples' = s
          /\ fields' = samples[1].fields
          /\ pc' = "register"
          /\ UNCHANGED <<cursor, chosen, pending, registered>>
     ELSE Fail
  /\ UNCHANGED <<options, disk, writes, visited, history>>

-----------------------------------------------------------------------------
(* EDEM and VTKHDF: the fields of one file stand for the series.           *)

Choose(f) ==
  /\ pc = "find"
  /\ chosen' = f
  /\ pc' = "fields"
  /\ UNCHANGED <<options, disk, writes, visited, samples, cursor, pending,
                 fields, registered, history>>

HasData(i) == Readable(samples[i].file) /\ disk[samples[i].file].fields # {}

\* The first sample with data, or else the last.  The samples are looked at
\* in one step.
FindSampleWithData ==
  /\ reader = "VTKHDF"
  /\ \E i \in 1..Len(samples) :
       /\ HasData(i) \/ i = Len(samples)
       /\ \A j \in 1..(i - 1) : ~HasData(j)
       /\ Choose(samples[i].file)

FirstSample ==
  /\ reader = "EDEM"
  /\ Choose(samples[1].file)

FieldsOfChosen ==
  /\ pc = "fields"
  /\ IF Readable(chosen) /\ Readable(samples[1].file)
     THEN /\ fields' = disk[chosen].fields
          /\ pc' = "register"
          /\ UNCHANGED <<samples, cursor, chosen, pending, registered>>
     ELSE Fail
  /\ UNCHANGED <<options, disk, writes, visited, history>>

\* EDEM opens the first file again for its particle types and their fields.
ScanParticleFields == reader = "EDEM" /\ FieldsOfChosen

\* VTKHDF opens the sample it found again, and the first file for its meshes.
ScanParticleClouds == reader = "VTKHDF" /\ FieldsOfChosen

-----------------------------------------------------------------------------
(* OpenFOAM: a field file of the first directory that every other has too. *)

HasFieldFile(f, x) == disk[f] = Broken \/ (Readable(f) /\ x \in disk[f].fields)

\* The iterator of a directory that is gone throws.
ListFields ==
  /\ pc = "fields"
  /\ reader = "OpenFOAM"
  /\ LET first == samples[1].file
     IN IF first \notin Present THEN Fail
        ELSE /\ pending' = {x \in Fields : HasFieldFile(first, x)}
             /\ pc' = IF pending' = {} THEN "register" ELSE "check"
             /\ UNCHANGED <<samples, cursor, chosen, fields, registered>>
  /\ UNCHANGED <<options, disk, writes, visited, history>>

\* Seeded fault: one directory with the file is enough.
PresentOnAllSamples_Any(x) == \E i \in 1..Len(samples) : HasFieldFile(samples[i].file, x)

PresentOnAllSamples(x) == \A i \in 1..Len(samples) : HasFieldFile(samples[i].file, x)

\* Only the file of the first directory is parsed.
CheckField(x) ==
  /\ pc = "check"
  /\ x \in pending
  /\ pending' = pending \ {x}
  /\ LET first == samples[1].file
         parses == Readable(first) /\ x \in disk[first].fields
     IN fields' = IF parses /\ PresentOnAllSamples(x) THEN fields \cup {x} ELSE fields
  /\ pc' = IF pending' = {} THEN "register" ELSE "check"
  /\ UNCHANGED <<options, disk, writes, visited, samples, cursor, chosen,
                 registered, history>>

-----------------------------------------------------------------------------
(* Registration.                                                           *)

TimesAreSorted == \A i \in 2..Len(samples) : samples[i - 1].time <= samples[i].time

\* Seeded fault: every series is registered as if it were sorted.
RegisteredLists_AsFound == {samples}

\* The lists RegisterTimeSamples may leave behind for one field.
RegisteredLists ==
  IF TimesAreSorted THEN {samples} ELSE Orders(samples, ByTime)

RegisterAll(lists) ==
  /\ pc = "register"
  /\ registered' \in [fields -> lists]
  /\ pc' = "done"
  /\ UNCHANGED <<options, disk, writes, visited, samples, cursor, chosen,
                 pending, fields, history>>

RegisterFlash == reader = "FLASH" /\ RegisterAll({samples})

RegisterVtkHdf == reader = "VTKHDF" /\ RegisterAll(RegisteredLists)

RegisterOpenFoam == reader = "OpenFOAM" /\ RegisterAll(RegisteredLists)

RegisterEdem == reader = "EDEM" /\ RegisterAll(RegisteredLists)

\* EDEM reads the meshes of the first file once more, if it has any.
MeshFails ==
  /\ reader = "EDEM"
  /\ pc = "register"
  /\ ~Readable(samples[1].file)
  /\ Fail
  /\ UNCHANGED <<options, disk, writes, visited, history>>

\* The layer is dropped; it may be read again.
Close ==
  /\ pc \in {"done", "failed"}
  /\ pc' = "idle"
  /\ visited' = {}
  /\ samples' = <<>>
  /\ cursor' = 0
  /\ chosen' = NoFile
  /\ pending' = {}
  /\ fields' = {}
  /\ registered' = <<>>
  /\ throughout' = {}
  /\ appeared' = {}
  /\ undisturbed' = TRUE
  /\ UNCHANGED <<options, disk, writes>>

\* The solver adds, rewrites or removes a file (MaxWrites is a bound).
Write(f) ==
  /\ writes < MaxWrites
  /\ writes' = writes + 1
  /\ \E c \in Contents[f] \ {disk[f]} : disk' = [disk EXCEPT ![f] = c]
  /\ UNCHANGED <<options, pc, visited, samples, cursor, chosen, pending, fields,
                 registered>>
  /\ throughout' = throughout \cap Offered'
  /\ appeared' = IF pc = "idle" THEN appeared ELSE appeared \cup Offered'
  /\ undisturbed' = (pc = "idle")

Next ==
  \/ Begin
  \/ \E f \in Files :
       VisitVtkHdf(f) \/ VisitFlash(f) \/ VisitOpenFoam(f) \/ VisitEdem(f) \/ Write(f)
  \/ EndListVtkHdf \/ EndListFlash \/ EndListOpenFoam \/ EndListEdem
  \/ ScanSnapshot
  \/ ResolveSeries
  \/ FindSampleWithData
  \/ FirstSample
  \/ ScanParticleFields \/ ScanParticleClouds
  \/ ListFields
  \/ \E x \in Fields : CheckField(x)
  \/ RegisterFlash \/ RegisterVtkHdf \/ RegisterOpenFoam \/ RegisterEdem
  \/ MeshFails
  \/ Close

Spec == Init /\ [][Next]_vars

-----------------------------------------------------------------------------
(* Properties.                                                             *)

\* The files a reader takes for members of the series.
Members == IF reader = "EDEM" THEN EdemFiles ELSE Files

\* Whatever the solver does meanwhile, every registered field has a sample
\* for each file that was there all the time (with a time step in it, for
\* EDEM, which passes over the others in silence), none for a file that never
\* was, and none twice.
NoSampleLost ==
  pc = "done" =>
    \A x \in DOMAIN registered :
      LET list == registered[x]
      IN /\ throughout \cap Members \subseteq FilesOf(list)
         /\ FilesOf(list) \subseteq appeared \cap Members
         /\ Cardinality(FilesOf(list)) = Len(list)

\* The files that offer a sample and the samples of the layer are the same.
EveryFileIsASample == TypeOK /\ NoSampleLost

\* What the EDEM mapping document says, "Each timestep file under
\* <deckName>_data/ contributes one sample": every file of the deck that is
\* there from beginning to end is a sample.  A file the solver has created but
\* not yet written a step to is none.
EveryTimestepFileIsASample ==
  pc = "done" /\ undisturbed /\ reader = "EDEM" =>
    \A x \in DOMAIN registered : Present \cap EdemFiles \subseteq FilesOf(registered[x])

\* Steps run with time when the scale is positive, against it when it is
\* negative; a scale of zero puts them all at one time.
FollowSteps(f, g) ==
  /\ timeScale > 0 => Number[f] <= Number[g]
  /\ timeScale < 0 => Number[g] <= Number[f]

\* Every list that is registered is sorted by time, as the lookup needs; and
\* with time steps as the source, time follows the numbers in the names, in
\* the direction of the scale.
TimesFollowSteps ==
  pc = "done" =>
    \A x \in DOMAIN registered : \A i, j \in 1..Len(registered[x]) :
      LET a == registered[x][i]
          b == registered[x][j]
      IN i < j =>
           /\ a.time <= b.time
           /\ timeSource = "TimeStep" => FollowSteps(a.file, b.file)

\* Reference definition of the source times a file may have: stored time,
\* number in the name, or place among the files that offer a sample (EDEM's
\* document has the zero-based index of the sample, not the number of the
\* file).  Two names with one number may come in either order.
ReferenceTimes(f) ==
  LET series == Offered \cap Members
      before == Cardinality({g \in series : Number[g] < Number[f]})
      upTo == Cardinality({g \in series : Number[g] <= Number[f]})
      place == before..(upTo - 1)
  IN IF reader = "OpenFOAM" /\ timeSource = "TimeValue" THEN {Number[f]}
     ELSE IF reader = "VTKHDF"
     THEN {IF timeSource = "TimeValue" THEN StampOr(f, Number[f]) ELSE Number[f]}
     ELSE IF timeSource = "TimeValue" THEN {StampOr(f, p) : p \in place}
     ELSE place

\* If nothing was written during the read, the time of every sample is the
\* one its own file has, in whatever order the directory listed the files. A
\* FLASH series of one snapshot is at time 0.
SamplesHaveTheirTimes ==
  pc = "done" /\ undisturbed =>
    \A x \in DOMAIN registered : \A i \in 1..Len(registered[x]) :
      LET s == registered[x][i]
      IN IF reader = "FLASH" /\ Len(samples) = 1 THEN s.time = 0
         ELSE \E raw \in ReferenceTimes(s.file) : s.time = SampleTime(raw)

\* FLASH and OpenFOAM check every member of a series: as long as nothing is
\* written, a field they registered is there at every one of its samples, and
\* FLASH registers no two samples at one time.
PromisedFieldsExist ==
  /\ pc = "done" /\ undisturbed /\ reader \in {"FLASH", "OpenFOAM"} =>
       \A x \in DOMAIN registered : \A f \in FilesOf(registered[x]) :
         /\ HasFieldFile(f, x)
         /\ reader = "FLASH" => Readable(f)
  /\ pc = "done" /\ reader = "FLASH" =>
       \A x \in DOMAIN registered : DistinctTimes(registered[x])
=============================================================================
