---------------------------- MODULE LayerReadProofs ----------------------------
(***************************************************************************)
(* Proofs about LayerRead and PythonRead for any number of layers read     *)
(* side by side, leases, children and chunks, and any python callbacks.    *)
(*                                                                         *)
(* Ownership is the heart of it: a lease is alive while some call or some  *)
(* layer's data owns it, the one MaterializeAsset is filling belongs to    *)
(* nobody else yet, and the data of a layer owns what its loaders reopen.  *)
(* What a python read makes of its layer follows from the result of its    *)
(* callback alone: the second invariant says how, step by step.            *)
(***************************************************************************)
EXTENDS PythonRead, Integers, FiniteSetTheorems, SequenceTheorems,
        WellFoundedInduction, TLAPS

\* A set of natural numbers that is not empty has a least element.
LEMMA LeastElement ==
  ASSUME NEW S, S \subseteq Nat, S # {}
  PROVE  \E x \in S : \A y \in S : x <= y
<1>1. PICK x \in S : \A y \in S : ~ (<<y, x>> \in OpToRel(<, Nat))
  BY NatLessThanWellFounded, WFMin
<1>2. ASSUME NEW y \in S
      PROVE  x <= y
  <2>1. ASSUME y < x
        PROVE  FALSE
    <3>1. <<y, x>> \in {ss \in Nat \X Nat : ss[1] < ss[2]}
      BY <2>1
    <3> QED
      BY <1>1, <3>1 DEF OpToRel
  <2> QED
    BY <2>1
<1> QED
  BY <1>2

\* How many numbers an interval has.
LEMMA IntervalCount ==
  ASSUME NEW n \in Nat
  PROVE  IsFiniteSet(1..n) /\ Cardinality(1..n) = n
  BY FS_Interval

\* Parts of an interval are finite, and a proper part is smaller.
LEMMA PartCount ==
  ASSUME NEW n \in Nat, NEW J \in SUBSET (1..n)
  PROVE  /\ IsFiniteSet(J) /\ Cardinality(J) \in Nat /\ Cardinality(J) <= n
         /\ \A K \in SUBSET J : /\ Cardinality(K) <= Cardinality(J)
                                /\ K # J => Cardinality(K) < Cardinality(J)
<1>1. IsFiniteSet(J) /\ Cardinality(J) \in Nat /\ Cardinality(J) <= n
  <2>1. IsFiniteSet(1..n) /\ Cardinality(1..n) = n
    BY IntervalCount
  <2>2. IsFiniteSet(J) /\ Cardinality(J) <= n
    BY <2>1, FS_Subset
  <2> QED
    BY <2>2, FS_CardinalityType
<1>2. ASSUME NEW K \in SUBSET J
      PROVE  /\ Cardinality(K) <= Cardinality(J)
             /\ K # J => Cardinality(K) < Cardinality(J)
  <2>1. IsFiniteSet(K) /\ Cardinality(K) <= Cardinality(J)
        /\ (Cardinality(J) = Cardinality(K) => J = K)
    BY <1>1, FS_Subset
  <2>2. Cardinality(K) \in Nat
    BY <2>1, FS_CardinalityType
  <2> QED
    BY <1>1, <2>1, <2>2
<1> QED
  BY <1>1, <1>2

-----------------------------------------------------------------------------
(* The inductive invariant.                                                *)

Types ==
  /\ directory \in [Leases -> {"none", "present", "left"}]
  /\ content \in [Leases -> 0..Chunks]
  /\ strategy \in [Leases -> {"none", "native", "backing", "copy"}]
  /\ pc \in [Layers -> PCs]
  /\ call \in [Layers -> {"read", "can_read"}]
  /\ mountPath \in [Layers -> AllMountArguments]
  /\ opening \in [Layers -> Leases \cup {NoLease}]
  /\ held \in [Layers -> SUBSET Leases]
  /\ root \in [Layers -> Leases \cup {NoLease}]
  /\ children \in [Layers -> 0..MaxChildren]
  /\ rootPrim \in [Layers -> Prims \ {"error"}]
  /\ pending \in [Layers -> Data \cup {NoData}]
  /\ data \in [Layers -> Data \cup {NoData}]
  /\ specs \in [Layers -> Specs]
  /\ defaultPrim \in [Layers -> Prims \ {"error"}]
  /\ before \in [Layers -> Layer]

\* The leases a call works with.
CallInv(y) ==
  /\ opening[y] # NoLease <=> pc[y] \in {"create", "copy"}
  /\ root[y] # NoLease => root[y] \in held[y]
  /\ pc[y] \in {"prepare", "children", "manifest", "rebase", "register",
                "keep_alive", "commit", "place", "succeeded"} => root[y] # NoLease
  /\ pc[y] \in {"idle", "failed"} => root[y] = NoLease

\* The data of a layer retains what its loaders reopen, from the moment it is
\* complete; until it is set the layer keeps the data it had.
DataInv(y) ==
  /\ data[y] # NoData => data[y].loaders \subseteq data[y].retained
  /\ pc[y] = "keep_alive" =>
       /\ pending[y] # NoData
       /\ pending[y].loaders \subseteq held[y] /\ pending[y].retained = {}
  /\ pc[y] = "commit" =>
       pending[y] # NoData /\ pending[y].loaders \subseteq pending[y].retained
  /\ pc[y] \notin {"keep_alive", "commit"} => pending[y] = NoData
  /\ pc[y] \notin {"idle", "place", "succeeded"} => data[y] = before[y].data

\* A native reader has parsed its root file.
Parsed(y) ==
  \/ pc[y] \in {"children", "keep_alive", "commit", "place"}
  \/ pc[y] \in {"open", "create", "copy"} /\ root[y] # NoLease

\* The argument a native reader resolves at the end has passed the same check
\* at the beginning; the default prim of a python read is its root from the
\* moment it is mounted.
PlaceInv(y) ==
  /\ mountPath[y] \in MountArguments \cup {"unset"}
  /\ pc[y] = "place" => reader[y] = "native"
  /\ reader[y] = "native" /\ Parsed(y) =>
       /\ mountPath[y] # "malformed"
       /\ mountPath[y] = "unset" => rootPrim[y] = "identifier"
       /\ mountPath[y] = "valid" => rootPrim[y] = "mount"
       /\ mountPath[y] = "empty" => rootPrim[y] \in {"identifier", "local"}
  /\ reader[y] # "native" /\ pc[y] \in {"register", "keep_alive", "commit"} =>
       defaultPrim[y] = rootPrim[y]
  /\ pc[y] = "succeeded" =>
       \/ defaultPrim[y] = rootPrim[y]
       \/ mountPath[y] = "empty" /\ rootPrim[y] = "local" /\ defaultPrim[y] = "identifier"

\* A lease gives a path to a file that is there.
Alive(l) == strategy[l] # "none" /\ (strategy[l] = "copy" => directory[l] = "present")

\* Leases live while they have an owner; one that is being filled has none yet.
LeaseInv ==
  /\ NoOrphanDirectory
  /\ \A l \in Owned : Alive(l)
  /\ \A y \in Layers : opening[y] # NoLease =>
       /\ strategy[opening[y]] = "copy" /\ directory[opening[y]] = "present"
       /\ opening[y] \notin Owned
  /\ \A y, z \in Layers : y # z /\ opening[y] # NoLease => opening[y] # opening[z]

IInv ==
  /\ Types
  /\ \A y \in Layers : CallInv(y) /\ DataInv(y) /\ PlaceInv(y)
  /\ LeaseInv

-----------------------------------------------------------------------------
(* The steps of a layer, by what they do to the state of LayerRead.        *)

\* A python read moves on; its callback, and the mounting of what that
\* authored, change the layer's specs and say where its root is.
PythonMoves(y) ==
  /\ \/ pc[y] = "prepare" /\ Goto(y, "manifest")
     \/ pc[y] = "manifest" /\ Goto(y, "rebase")
     \/ pc[y] = "rebase" /\ Goto(y, "register") /\ defaultPrim'[y] = rootPrim'[y]
  /\ \E prim \in Prims \ {"error"} :
       rootPrim' = [rootPrim EXCEPT ![y] = prim]
  /\ \E prim \in Prims \ {"error"} :
       defaultPrim' = [defaultPrim EXCEPT ![y] = prim]
  /\ \E some \in Specs : specs' = [specs EXCEPT ![y] = some]
  /\ UNCHANGED <<leaseVars, call, mountPath, opening, held, root, children,
                 pending, data, before>>

\* The structure is in place.
PlaceSucceeds(y) ==
  /\ pc[y] = "place"
  /\ CaeResolveRootPrimPath("identifier", mountPath[y]) # "error"
  /\ defaultPrim' = [defaultPrim EXCEPT
                       ![y] = CaeResolveRootPrimPath("identifier", mountPath[y])]
  /\ Goto(y, "succeeded")
  /\ UNCHANGED <<leaseVars, call, mountPath, opening, held, root, children,
                 rootPrim, pending, data, specs, before>>

\* The manifest is complete: the fields are registered.
PythonRegisters(y) ==
  /\ pc[y] = "register"
  /\ pending' = [pending EXCEPT ![y] = [loaders |-> {root[y]}, retained |-> {}]]
  /\ Goto(y, "keep_alive")
  /\ UNCHANGED <<leaseVars, call, mountPath, opening, held, root, children,
                 rootPrim, data, specs, defaultPrim, before>>

PythonCommits(y) ==
  /\ pc[y] = "commit"
  /\ data' = [data EXCEPT ![y] = pending[y]]
  /\ pending' = [pending EXCEPT ![y] = NoData]
  /\ ReleaseUnowned(held, pending', data')
  /\ specs' = [specs EXCEPT ![y] = "set"]
  /\ Goto(y, "succeeded")
  /\ UNCHANGED <<call, mountPath, opening, held, root, children, rootPrim,
                 defaultPrim, before>>

CallGivesUp(y) ==
  pc[y] \in {"open", "probe", "prepare", "children", "manifest", "rebase"} /\ UnwindOwned(y)

CopyGivesUp(y) == pc[y] \in {"create", "copy"} /\ UnwindCopy(y)

NativeMoves(y) ==
  \/ Parse(y)
  \/ OpenChild(y)
  \/ RegisterLoaders(y)
  \/ SetLayerData(y)
  \/ PlaceSucceeds(y)

Step(y) ==
  \/ CallGivesUp(y)
  \/ CopyGivesUp(y)
  \/ \E argument \in MountArguments : BeginRead(y, argument)
  \/ BeginCanRead(y)
  \/ OpenInPlace(y)
  \/ MakeTmpSubdir(y)
  \/ CreateOutput(y)
  \/ CopyChunk(y)
  \/ CloseOutput(y)
  \/ KeepAlive(y)
  \/ Return(y)
  \/ CloseLayer(y)
  \/ reader[y] = "native" /\ NativeMoves(y)
  \/ reader[y] # "native" /\ (PythonMoves(y) \/ PythonRegisters(y) \/ PythonCommits(y))

\* Where CaeResolveRootPrimPath puts a root; only a malformed argument fails.
LEMMA ResolvedPrim ==
  ASSUME NEW name \in {"identifier", "local"},
         NEW argument \in AllMountArguments \cup {"prepared"}
  PROVE  /\ CaeResolveRootPrimPath(name, argument) \in Prims \ {"none"}
         /\ CaeResolveRootPrimPath(name, argument) = "error" <=> argument = "malformed"
         /\ argument = "valid" => CaeResolveRootPrimPath(name, argument) = "mount"
         /\ argument = "prepared" => CaeResolveRootPrimPath(name, argument) = "identifier"
         /\ argument \in {"unset", "empty"} => CaeResolveRootPrimPath(name, argument) = name
  BY DEF CaeResolveRootPrimPath, AllMountArguments, Prims

\* A local path has the stem of the identifier or one of its own.
LEMMA LocalNames == \A l : LocalName(l) \in {"identifier", "local"}
  BY DEF LocalName

\* A step of the specification is a step of one layer.
LEMMA StepOf ==
  ASSUME IInv, PythonNext
  PROVE  reader' = reader /\ \E y \in Layers : Step(y)
<1>1. PICK y \in Layers :
        \/ SharedStep(y)
        \/ reader[y] = "native" /\ NativeStep(y) /\ UNCHANGED pythonVars
        \/ reader[y] # "native" /\ PythonStep(y)
  BY DEF PythonNext
<1>2. Types /\ PlaceInv(y) /\ mountPath[y] \in AllMountArguments
  BY DEF IInv, Types
<1>3. CASE SharedStep(y)
  <2>1. OpenFails(y) => CallGivesUp(y)
    BY DEF OpenFails, CallGivesUp
  <2>2. CreateFails(y) => CopyGivesUp(y)
    BY DEF CreateFails, CopyGivesUp
  <2>3. CopyFails(y) => CopyGivesUp(y)
    BY DEF CopyFails, CopyGivesUp
  <2>4. Probe(y) => CallGivesUp(y)
    BY DEF Probe, CallGivesUp
  <2> QED
    BY <1>3, <2>1, <2>2, <2>3, <2>4 DEF SharedStep, CallStep, Step
<1>4. CASE reader[y] = "native" /\ NativeStep(y) /\ UNCHANGED pythonVars
  <2>1. ParseFails(y) => CallGivesUp(y)
    BY DEF ParseFails, CallGivesUp
  <2>2. ASSUME Place(y)
        PROVE  PlaceSucceeds(y)
    <3>1. mountPath[y] # "malformed"
      BY <1>2, <1>4, <2>2 DEF Place, PlaceInv, Parsed
    <3>2. CaeResolveRootPrimPath("identifier", mountPath[y]) # "error"
      BY <1>2, <3>1, ResolvedPrim
    <3> QED
      BY <2>2, <3>2 DEF Place, PlaceSucceeds
  <2>3. Step(y)
    BY <1>4, <2>1, <2>2 DEF NativeStep, NativeMoves, Step
  <2> QED
    BY <1>4, <2>3 DEF pythonVars
<1>5. CASE reader[y] # "native" /\ PythonStep(y)
  <2>1. CallbackRaises(y) => CallGivesUp(y) /\ reader' = reader
    BY DEF CallbackRaises, CallGivesUp, pythonVars
  <2>2. ASSUME NEW result \in Results, CallRead(y, result)
        PROVE  PythonMoves(y) /\ reader' = reader
    <3>1. rootPrim' = [rootPrim EXCEPT ![y] = rootPrim[y]]
          /\ rootPrim[y] \in Prims \ {"error"}
      BY <1>2, <2>2 DEF Types, CallRead
    <3>2. \E prim \in Prims \ {"error"} : defaultPrim' = [defaultPrim EXCEPT ![y] = prim]
      <4>1. \A x : (IF x = None THEN "none" ELSE "callback") \in Prims \ {"error"}
        BY DEF Prims
      <4> QED
        BY <2>2, <4>1 DEF CallRead
    <3> QED
      BY <2>2, <3>1, <3>2 DEF CallRead, PythonMoves, Specs
  <2>3. ASSUME RebaseNothing(y)
        PROVE  PythonMoves(y) /\ reader' = reader
    <3>1. /\ defaultPrim[y] \in Prims \ {"error"} /\ specs[y] \in Specs
          /\ defaultPrim = [defaultPrim EXCEPT ![y] = defaultPrim[y]]
          /\ specs = [specs EXCEPT ![y] = specs[y]]
          /\ rootPrim' = [rootPrim EXCEPT ![y] = defaultPrim[y]]
          /\ UNCHANGED <<pending, data, specs, defaultPrim>>
      BY <1>2, <2>3 DEF Types, RebaseNothing, layerVars
    <3>2. defaultPrim'[y] = rootPrim'[y]
      BY <1>2, <3>1 DEF Types
    <3> QED
      BY <2>3, <3>1, <3>2 DEF RebaseNothing, PythonMoves, pythonVars
  <2>4. RebaseFails(y) => CallGivesUp(y) /\ reader' = reader
    BY DEF RebaseFails, CallGivesUp, pythonVars
  <2>8. ResultIsRefused(y) => CallGivesUp(y) /\ reader' = reader
    BY DEF ResultIsRefused, CallGivesUp, pythonVars
  <2>9. ASSUME ResultIsParsed(y)
        PROVE  PythonMoves(y) /\ reader' = reader
    <3>1. /\ rootPrim[y] \in Prims \ {"error"} /\ defaultPrim[y] \in Prims \ {"error"}
          /\ specs[y] \in Specs
          /\ rootPrim = [rootPrim EXCEPT ![y] = rootPrim[y]]
          /\ defaultPrim = [defaultPrim EXCEPT ![y] = defaultPrim[y]]
          /\ specs = [specs EXCEPT ![y] = specs[y]]
      BY <1>2 DEF Types
    <3> QED
      BY <2>9, <3>1 DEF ResultIsParsed, PythonMoves, layerVars, pythonVars
  <2>5. ASSUME RebasePythonReadResult(y)
        PROVE  PythonMoves(y) /\ reader' = reader
    <3>1. MountArgument(y) \in AllMountArguments \cup {"prepared"}
      BY <1>2 DEF MountArgument, CaePrepareResolverArguments
    <3>2. CaeResolveRootPrimPath("identifier", MountArgument(y)) \in Prims
      BY <3>1, ResolvedPrim
    <3>3. PICK prim \in Prims \ {"error"} :
            /\ rootPrim' = [rootPrim EXCEPT ![y] = prim]
            /\ defaultPrim' = [defaultPrim EXCEPT ![y] = prim]
      BY <2>5, <3>2 DEF RebasePythonReadResult
    <3>4. defaultPrim'[y] = rootPrim'[y]
      BY <1>2, <3>3 DEF Types
    <3>5. specs[y] \in Specs /\ specs = [specs EXCEPT ![y] = specs[y]]
      BY <1>2 DEF Types
    <3> QED
      BY <2>5, <3>3, <3>4, <3>5 DEF RebasePythonReadResult, PythonMoves
  <2>6. RegisterPythonLazyFields(y) => PythonRegisters(y) /\ reader' = reader
    BY DEF RegisterPythonLazyFields, PythonRegisters
  <2>7. SetPythonLayerData(y) => PythonCommits(y) /\ reader' = reader
    BY DEF SetPythonLayerData, PythonCommits, pythonVars
  <2> QED
    BY <1>5, <2>1, <2>2, <2>3, <2>4, <2>5, <2>6, <2>7, <2>8, <2>9 DEF PythonStep, Step
<1>6. reader' = reader
  <2>1. CASE SharedStep(y)
    BY <2>1 DEF SharedStep
  <2> QED
    BY <1>1, <1>4, <1>5, <2>1 DEF pythonVars
<1> QED
  BY <1>1, <1>3, <1>4, <1>5

-----------------------------------------------------------------------------
(* Types.                                                                  *)

\* What remove_all does to the leases it is called for, and to no others.
LEMMA RemoveDirectoriesOf ==
  ASSUME Types, NEW S, RemoveDirectories(S)
  PROVE  /\ directory' \in [Leases -> {"none", "present", "left"}]
         /\ content' \in [Leases -> 0..Chunks]
         /\ strategy' \in [Leases -> {"none", "native", "backing", "copy"}]
         /\ \A l \in Leases : l \notin S =>
              directory'[l] = directory[l] /\ strategy'[l] = strategy[l]
         /\ \A l \in Leases : l \in S => directory'[l] # "present"
<1> USE ConstantsAssumption
<1>1. PICK refused \in SUBSET {l \in S : directory[l] = "present"} :
        /\ directory' = [l \in Leases |->
                           IF l \notin S \/ directory[l] # "present" THEN directory[l]
                           ELSE IF l \in refused THEN "left" ELSE "none"]
        /\ content' = [l \in Leases |-> IF l \in S THEN 0 ELSE content[l]]
        /\ strategy' = [l \in Leases |-> IF l \in S THEN "none" ELSE strategy[l]]
  BY DEF RemoveDirectories
<1>2. /\ directory \in [Leases -> {"none", "present", "left"}]
      /\ content \in [Leases -> 0..Chunks]
      /\ strategy \in [Leases -> {"none", "native", "backing", "copy"}]
  BY DEF Types
<1>3. directory' \in [Leases -> {"none", "present", "left"}]
  BY <1>1, <1>2
<1>4. content' \in [Leases -> 0..Chunks]
  BY <1>1, <1>2
<1>5. strategy' \in [Leases -> {"none", "native", "backing", "copy"}]
  BY <1>1, <1>2
<1>6. \A l \in Leases : l \notin S =>
         directory'[l] = directory[l] /\ strategy'[l] = strategy[l]
  BY <1>1
<1>7. \A l \in Leases : l \in S => directory'[l] # "present"
  BY <1>1
<1> QED
  BY <1>3, <1>4, <1>5, <1>6, <1>7

\* Every step leaves the state well typed.
LEMMA NextTypes ==
  ASSUME IInv, NEW y \in Layers, Step(y)
  PROVE  Types'
<1> USE ConstantsAssumption
<1>1. Types /\ NoData \notin Data /\ "none" \in Prims \ {"error"}
  BY DEF IInv, Data, Prims
<1>2. ASSUME NEW S, RemoveDirectories(S)
      PROVE  /\ directory' \in [Leases -> {"none", "present", "left"}]
             /\ content' \in [Leases -> 0..Chunks]
             /\ strategy' \in [Leases -> {"none", "native", "backing", "copy"}]
  BY <1>1, <1>2, RemoveDirectoriesOf
<1>3. Unwind(y) => /\ pc' \in [Layers -> PCs] /\ held' \in [Layers -> SUBSET Leases]
                   /\ pending' \in [Layers -> Data \cup {NoData}]
                   /\ root' \in [Layers -> Leases \cup {NoLease}]
                   /\ opening' \in [Layers -> Leases \cup {NoLease}]
                   /\ UNCHANGED <<call, mountPath, children, rootPrim, data,
                                  specs, defaultPrim, before>>
  BY <1>1 DEF Unwind, Goto, PCs, Types
<1>4. CASE CallGivesUp(y)
  BY <1>1, <1>2, <1>3, <1>4 DEF CallGivesUp, UnwindOwned, ReleaseUnowned, Types
<1>5. CASE CopyGivesUp(y)
  BY <1>1, <1>2, <1>3, <1>5 DEF CopyGivesUp, UnwindCopy, Types
<1>6. ASSUME NEW argument \in MountArguments, BeginRead(y, argument)
      PROVE  Types'
  BY <1>1, <1>6 DEF BeginRead, Goto, PCs, leaseVars, layerVars, Types, Layer, LayerNow
<1>7. CASE BeginCanRead(y)
  BY <1>1, <1>7 DEF BeginCanRead, Goto, PCs, leaseVars, layerVars, Types, Layer, LayerNow
<1>8. CASE OpenInPlace(y)
  BY <1>1, <1>8 DEF OpenInPlace, FreeLeases, AfterOpen, Goto, PCs, layerVars, Types
<1>9. CASE MakeTmpSubdir(y)
  BY <1>1, <1>9 DEF MakeTmpSubdir, FreeLeases, Goto, PCs, layerVars, Types
<1>10. CASE CreateOutput(y)
  BY <1>1, <1>10 DEF CreateOutput, Goto, PCs, leaseVars, layerVars, Types
<1>11. CASE CopyChunk(y)
  <2>1. opening[y] \in Leases
    BY <1>1, <1>11 DEF CopyChunk, Types, IInv, CallInv
  <2>2. content' \in [Leases -> 0..Chunks]
    BY <1>1, <1>11, <2>1 DEF CopyChunk, Types
  <2> QED
    BY <1>1, <1>11, <2>2 DEF CopyChunk, layerVars, Types
<1>12. CASE CloseOutput(y)
  BY <1>1, <1>12 DEF CloseOutput, AfterOpen, Goto, PCs, layerVars, Types, IInv, CallInv
<1>13. CASE KeepAlive(y)
  <2>1. pending[y] \in Data /\ held[y] \in SUBSET Leases
    BY <1>1, <1>13 DEF KeepAlive, Types, IInv, DataInv
  <2>2. [pending[y] EXCEPT !.retained = held[y]] \in Data
    BY <2>1 DEF Data
  <2>3. pending' = [pending EXCEPT ![y] = [pending[y] EXCEPT !.retained = held[y]]]
    BY <1>13 DEF KeepAlive
  <2>4. pending' \in [Layers -> Data \cup {NoData}]
    BY <1>1, <2>2, <2>3 DEF Types
  <2> QED
    BY <1>1, <1>13, <2>4 DEF KeepAlive, Goto, PCs, leaseVars, Types
<1>14. CASE Return(y)
  BY <1>1, <1>2, <1>14
     DEF Return, Goto, PCs, layerVars, ReleaseUnowned, Types, AllMountArguments, Layer, Specs
<1>15. CASE CloseLayer(y)
  BY <1>1, <1>2, <1>15 DEF CloseLayer, ReleaseUnowned, Types, Specs
<1>16. CASE Parse(y)
  <2> DEFINE prim == CaeResolveRootPrimPath(LocalName(root[y]),
                       CaePrepareResolverArguments(mountPath[y]))
  <2>1. CaePrepareResolverArguments(mountPath[y]) \in AllMountArguments \cup {"prepared"}
    BY <1>1 DEF Types, CaePrepareResolverArguments
  <2>2. prim \in Prims
    BY <2>1, LocalNames, ResolvedPrim
  <2>3. rootPrim' = [rootPrim EXCEPT ![y] = prim] /\ prim # "error"
    BY <1>16 DEF Parse
  <2> HIDE DEF prim
  <2> QED
    BY <1>1, <1>16, <2>2, <2>3 DEF Parse, Goto, PCs, leaseVars, layerVars, Types
<1>17. CASE OpenChild(y)
  BY <1>1, <1>17 DEF OpenChild, Goto, PCs, leaseVars, layerVars, Types
<1>18. CASE RegisterLoaders(y)
  BY <1>1, <1>18 DEF RegisterLoaders, Goto, PCs, leaseVars, Types, Data
<1>19. CASE SetLayerData(y)
  BY <1>1, <1>2, <1>19 DEF SetLayerData, ReleaseUnowned, Goto, PCs, Types, Specs
<1>20. CASE PlaceSucceeds(y)
  <2> DEFINE prim == CaeResolveRootPrimPath("identifier", mountPath[y])
  <2>1. prim \in Prims
    BY <1>1, ResolvedPrim DEF Types
  <2>2. defaultPrim' = [defaultPrim EXCEPT ![y] = prim] /\ prim # "error"
    BY <1>20 DEF PlaceSucceeds
  <2> HIDE DEF prim
  <2> QED
    BY <1>1, <1>20, <2>1, <2>2 DEF PlaceSucceeds, Goto, PCs, leaseVars, Types
<1>21. CASE PythonMoves(y)
  BY <1>1, <1>21 DEF PythonMoves, Goto, PCs, leaseVars, layerVars, Types
<1>22. CASE PythonRegisters(y)
  <2>1. root[y] \in Leases
    BY <1>1, <1>22 DEF PythonRegisters, Types, IInv, CallInv
  <2>2. pending' \in [Layers -> Data \cup {NoData}]
    BY <1>1, <1>22, <2>1 DEF PythonRegisters, Types, Data
  <2> QED
    BY <1>1, <1>22, <2>2 DEF PythonRegisters, Goto, PCs, leaseVars, Types
<1>23. CASE PythonCommits(y)
  BY <1>1, <1>2, <1>23 DEF PythonCommits, ReleaseUnowned, Goto, PCs, Types, Specs
<1> QED
  BY <1>4, <1>5, <1>6, <1>7, <1>8, <1>9, <1>10, <1>11, <1>12, <1>13, <1>14, <1>15,
     <1>16, <1>17, <1>18, <1>19, <1>20, <1>21, <1>22, <1>23 DEF Step, NativeMoves

-----------------------------------------------------------------------------
(* What a layer's own steps do to it, and the others leave alone.          *)

\* A call holds its root from the moment it is opened until it returns.
LEMMA NextCallInv ==
  ASSUME IInv, NEW y \in Layers, Step(y), reader' = reader, NEW z \in Layers
  PROVE  CallInv(z)'
<1> USE ConstantsAssumption
<1>1. /\ Types /\ NoData \notin Data
      /\ CallInv(y) /\ DataInv(y) /\ PlaceInv(y) /\ CallInv(z) /\ DataInv(z) /\
         PlaceInv(z)
  BY DEF IInv, Data
<1>2. CASE CallGivesUp(y)
  BY <1>1, <1>2 DEF CallGivesUp, UnwindOwned, Unwind, Goto, Types, CallInv, RetainedBy
<1>3. CASE CopyGivesUp(y)
  BY <1>1, <1>3 DEF CopyGivesUp, UnwindCopy, Unwind, Goto, Types, CallInv, RetainedBy
<1>4. ASSUME NEW argument \in MountArguments, BeginRead(y, argument)
      PROVE  CallInv(z)'
  BY <1>1, <1>4 DEF BeginRead, Goto, layerVars, Types, CallInv, RetainedBy
<1>5. CASE BeginCanRead(y)
  BY <1>1, <1>5 DEF BeginCanRead, Goto, layerVars, Types, CallInv, RetainedBy
<1>6. CASE OpenInPlace(y)
  BY <1>1, <1>6 DEF OpenInPlace, FreeLeases, AfterOpen, Goto, layerVars, Types,
     CallInv, RetainedBy
<1>7. CASE MakeTmpSubdir(y)
  BY <1>1, <1>7 DEF MakeTmpSubdir, FreeLeases, Goto, layerVars, Types, CallInv,
     RetainedBy
<1>8. CASE CreateOutput(y)
  BY <1>1, <1>8 DEF CreateOutput, Goto, layerVars, Types, CallInv, RetainedBy
<1>9. CASE CopyChunk(y)
  BY <1>1, <1>9 DEF CopyChunk, layerVars, Types, CallInv, RetainedBy
<1>10. CASE CloseOutput(y)
  BY <1>1, <1>10 DEF CloseOutput, AfterOpen, Goto, layerVars, Types, CallInv, RetainedBy
<1>11. CASE KeepAlive(y)
  BY <1>1, <1>11 DEF KeepAlive, Goto, Types, CallInv, RetainedBy
<1>12. CASE Return(y)
  BY <1>1, <1>12 DEF Return, Goto, layerVars, Types, CallInv, RetainedBy
<1>13. CASE CloseLayer(y)
  BY <1>1, <1>13 DEF CloseLayer, Types, CallInv, RetainedBy
<1>14. CASE reader[y] = "native" /\ Parse(y)
  BY <1>1, <1>14 DEF Parse, Goto, layerVars, Types, CallInv, RetainedBy
<1>15. CASE reader[y] = "native" /\ OpenChild(y)
  BY <1>1, <1>15 DEF OpenChild, Goto, layerVars, Types, CallInv, RetainedBy
<1>16. CASE reader[y] = "native" /\ RegisterLoaders(y)
  BY <1>1, <1>16 DEF RegisterLoaders, Goto, Types, CallInv, RetainedBy
<1>17. CASE reader[y] = "native" /\ SetLayerData(y)
  BY <1>1, <1>17 DEF SetLayerData, Goto, Types, CallInv, RetainedBy
<1>18. CASE reader[y] = "native" /\ PlaceSucceeds(y)
  BY <1>1, <1>18 DEF PlaceSucceeds, Goto, Types, CallInv, RetainedBy
<1>19. CASE reader[y] # "native" /\ PythonMoves(y)
  BY <1>1, <1>19 DEF PythonMoves, Goto, layerVars, Types, CallInv, RetainedBy
<1>20. CASE reader[y] # "native" /\ PythonRegisters(y)
  BY <1>1, <1>20 DEF PythonRegisters, Goto, Types, CallInv, RetainedBy
<1>21. CASE reader[y] # "native" /\ PythonCommits(y)
  BY <1>1, <1>21 DEF PythonCommits, Goto, Types, CallInv, RetainedBy
<1> QED
  BY <1>2, <1>3, <1>4, <1>5, <1>6, <1>7, <1>8, <1>9, <1>10, <1>11, <1>12, <1>13,
     <1>14, <1>15, <1>16, <1>17, <1>18, <1>19, <1>20, <1>21 DEF Step, NativeMoves

\* Registered loaders are covered by what is retained before the data is set, and
\* only setting it changes the data of a layer under a call.
LEMMA NextDataInv ==
  ASSUME IInv, NEW y \in Layers, Step(y), reader' = reader, NEW z \in Layers
  PROVE  DataInv(z)'
<1> USE ConstantsAssumption
<1>1. /\ Types /\ NoData \notin Data
      /\ CallInv(y) /\ DataInv(y) /\ PlaceInv(y) /\ CallInv(z) /\ DataInv(z) /\
         PlaceInv(z)
  BY DEF IInv, Data
<1>2. CASE CallGivesUp(y)
  BY <1>1, <1>2 DEF CallGivesUp, UnwindOwned, Unwind, Goto, Types, DataInv, CallInv,
     Data
<1>3. CASE CopyGivesUp(y)
  BY <1>1, <1>3 DEF CopyGivesUp, UnwindCopy, Unwind, Goto, Types, DataInv, CallInv, Data
<1>4. ASSUME NEW argument \in MountArguments, BeginRead(y, argument)
      PROVE  DataInv(z)'
  BY <1>1, <1>4 DEF BeginRead, Goto, layerVars, Types, DataInv, CallInv, Data, LayerNow
<1>5. CASE BeginCanRead(y)
  BY <1>1, <1>5 DEF BeginCanRead, Goto, layerVars, Types, DataInv, CallInv, Data, LayerNow
<1>6. CASE OpenInPlace(y)
  BY <1>1, <1>6 DEF OpenInPlace, FreeLeases, AfterOpen, Goto, layerVars, Types,
     DataInv, CallInv, Data
<1>7. CASE MakeTmpSubdir(y)
  BY <1>1, <1>7 DEF MakeTmpSubdir, FreeLeases, Goto, layerVars, Types, DataInv,
     CallInv, Data
<1>8. CASE CreateOutput(y)
  BY <1>1, <1>8 DEF CreateOutput, Goto, layerVars, Types, DataInv, CallInv, Data
<1>9. CASE CopyChunk(y)
  BY <1>1, <1>9 DEF CopyChunk, layerVars, Types, DataInv, CallInv, Data
<1>10. CASE CloseOutput(y)
  BY <1>1, <1>10 DEF CloseOutput, AfterOpen, Goto, layerVars, Types, DataInv, CallInv,
     Data
<1>11. CASE KeepAlive(y)
  BY <1>1, <1>11 DEF KeepAlive, Goto, Types, DataInv, CallInv, Data
<1>12. CASE Return(y)
  BY <1>1, <1>12 DEF Return, Goto, layerVars, Types, DataInv, CallInv, Data
<1>13. CASE CloseLayer(y)
  BY <1>1, <1>13 DEF CloseLayer, Types, DataInv, CallInv, Data
<1>14. CASE reader[y] = "native" /\ Parse(y)
  BY <1>1, <1>14 DEF Parse, Goto, layerVars, Types, DataInv, CallInv, Data
<1>15. CASE reader[y] = "native" /\ OpenChild(y)
  BY <1>1, <1>15 DEF OpenChild, Goto, layerVars, Types, DataInv, CallInv, Data
<1>16. CASE reader[y] = "native" /\ RegisterLoaders(y)
  BY <1>1, <1>16 DEF RegisterLoaders, Goto, Types, DataInv, CallInv, Data
<1>17. CASE reader[y] = "native" /\ SetLayerData(y)
  BY <1>1, <1>17 DEF SetLayerData, Goto, Types, DataInv, CallInv, Data
<1>18. CASE reader[y] = "native" /\ PlaceSucceeds(y)
  BY <1>1, <1>18 DEF PlaceSucceeds, Goto, Types, DataInv, CallInv, Data
<1>19. CASE reader[y] # "native" /\ PythonMoves(y)
  BY <1>1, <1>19 DEF PythonMoves, Goto, layerVars, Types, DataInv, CallInv, Data
<1>20. CASE reader[y] # "native" /\ PythonRegisters(y)
  BY <1>1, <1>20 DEF PythonRegisters, Goto, Types, DataInv, CallInv, Data
<1>21. CASE reader[y] # "native" /\ PythonCommits(y)
  BY <1>1, <1>21 DEF PythonCommits, Goto, Types, DataInv, CallInv, Data
<1> QED
  BY <1>2, <1>3, <1>4, <1>5, <1>6, <1>7, <1>8, <1>9, <1>10, <1>11, <1>12, <1>13,
     <1>14, <1>15, <1>16, <1>17, <1>18, <1>19, <1>20, <1>21 DEF Step, NativeMoves

\* A native reader that has parsed its root file has an argument that resolves.
LEMMA NextPlaceInv ==
  ASSUME IInv, NEW y \in Layers, Step(y), reader' = reader, NEW z \in Layers
  PROVE  PlaceInv(z)'
<1> USE ConstantsAssumption
<1>1. /\ Types /\ NoData \notin Data
      /\ CallInv(y) /\ DataInv(y) /\ PlaceInv(y) /\ CallInv(z) /\ DataInv(z) /\
         PlaceInv(z)
  BY DEF IInv, Data
<1>2. CASE CallGivesUp(y)
  BY <1>1, <1>2 DEF CallGivesUp, UnwindOwned, Unwind, Goto, Types, PlaceInv, Parsed,
     CallInv
<1>3. CASE CopyGivesUp(y)
  BY <1>1, <1>3 DEF CopyGivesUp, UnwindCopy, Unwind, Goto, Types, PlaceInv, Parsed,
     CallInv
<1>4. ASSUME NEW argument \in MountArguments, BeginRead(y, argument)
      PROVE  PlaceInv(z)'
  BY <1>1, <1>4 DEF BeginRead, Goto, layerVars, Types, PlaceInv, Parsed, CallInv
<1>5. CASE BeginCanRead(y)
  BY <1>1, <1>5 DEF BeginCanRead, Goto, layerVars, Types, PlaceInv, Parsed, CallInv
<1>6. CASE OpenInPlace(y)
  BY <1>1, <1>6 DEF OpenInPlace, FreeLeases, AfterOpen, Goto, layerVars, Types,
     PlaceInv, Parsed, CallInv
<1>7. CASE MakeTmpSubdir(y)
  BY <1>1, <1>7 DEF MakeTmpSubdir, FreeLeases, Goto, layerVars, Types, PlaceInv,
     Parsed, CallInv
<1>8. CASE CreateOutput(y)
  BY <1>1, <1>8 DEF CreateOutput, Goto, layerVars, Types, PlaceInv, Parsed, CallInv
<1>9. CASE CopyChunk(y)
  BY <1>1, <1>9 DEF CopyChunk, layerVars, Types, PlaceInv, Parsed, CallInv
<1>10. CASE CloseOutput(y)
  BY <1>1, <1>10 DEF CloseOutput, AfterOpen, Goto, layerVars, Types, PlaceInv, Parsed,
     CallInv
<1>11. CASE KeepAlive(y)
  BY <1>1, <1>11 DEF KeepAlive, Goto, Types, PlaceInv, Parsed, CallInv
<1>12. CASE Return(y)
  BY <1>1, <1>12 DEF Return, Goto, layerVars, Types, PlaceInv, Parsed, CallInv
<1>13. CASE CloseLayer(y)
  BY <1>1, <1>13 DEF CloseLayer, Types, PlaceInv, Parsed, CallInv
<1>14. CASE reader[y] = "native" /\ Parse(y)
  <2> DEFINE argument == CaePrepareResolverArguments(mountPath[y])
             prim == CaeResolveRootPrimPath(LocalName(root[y]), argument)
  <2>1. /\ mountPath[y] \in AllMountArguments
        /\ argument \in AllMountArguments \cup {"prepared"}
        /\ mountPath[y] = "unset" => argument = "prepared"
        /\ mountPath[y] \in {"valid", "malformed", "empty"} => argument = mountPath[y]
    BY <1>1 DEF Types, CaePrepareResolverArguments
  <2> HIDE DEF argument
  <2>2. /\ prim = "error" <=> argument = "malformed"
        /\ argument = "prepared" => prim = "identifier"
        /\ argument = "valid" => prim = "mount"
        /\ argument = "empty" => prim \in {"identifier", "local"}
    BY <2>1, LocalNames, ResolvedPrim
  <2>3. prim # "error" /\ rootPrim' = [rootPrim EXCEPT ![y] = prim]
    BY <1>14 DEF Parse, argument
  <2> HIDE DEF prim
  <2> QED
    BY <1>1, <1>14, <2>1, <2>2, <2>3 DEF Parse, Goto, layerVars, Types, PlaceInv, Parsed
<1>15. CASE reader[y] = "native" /\ OpenChild(y)
  BY <1>1, <1>15 DEF OpenChild, Goto, layerVars, Types, PlaceInv, Parsed, CallInv
<1>16. CASE reader[y] = "native" /\ RegisterLoaders(y)
  BY <1>1, <1>16 DEF RegisterLoaders, Goto, Types, PlaceInv, Parsed, CallInv
<1>17. CASE reader[y] = "native" /\ SetLayerData(y)
  BY <1>1, <1>17 DEF SetLayerData, Goto, Types, PlaceInv, Parsed, CallInv
<1>18. CASE reader[y] = "native" /\ PlaceSucceeds(y)
  <2> DEFINE prim == CaeResolveRootPrimPath("identifier", mountPath[y])
  <2>1. /\ mountPath[y] \in AllMountArguments
        /\ prim = "error" <=> mountPath[y] = "malformed"
        /\ mountPath[y] = "valid" => prim = "mount"
        /\ mountPath[y] \in {"unset", "empty"} => prim = "identifier"
    BY <1>1, ResolvedPrim DEF Types
  <2>2. prim # "error" /\ defaultPrim' = [defaultPrim EXCEPT ![y] = prim]
    BY <1>18 DEF PlaceSucceeds
  <2> HIDE DEF prim
  <2>3. \/ prim = rootPrim[y]
        \/ mountPath[y] = "empty" /\ rootPrim[y] = "local" /\ prim = "identifier"
    BY <1>1, <1>18, <2>1, <2>2 DEF PlaceSucceeds, PlaceInv, Parsed, AllMountArguments
  <2> QED
    BY <1>1, <1>18, <2>2, <2>3 DEF PlaceSucceeds, Goto, Types, PlaceInv, Parsed
<1>19. CASE reader[y] # "native" /\ PythonMoves(y)
  BY <1>1, <1>19 DEF PythonMoves, Goto, layerVars, Types, PlaceInv, Parsed, CallInv
<1>20. CASE reader[y] # "native" /\ PythonRegisters(y)
  BY <1>1, <1>20 DEF PythonRegisters, Goto, Types, PlaceInv, Parsed, CallInv
<1>21. CASE reader[y] # "native" /\ PythonCommits(y)
  BY <1>1, <1>21 DEF PythonCommits, Goto, Types, PlaceInv, Parsed, CallInv
<1> QED
  BY <1>2, <1>3, <1>4, <1>5, <1>6, <1>7, <1>8, <1>9, <1>10, <1>11, <1>12, <1>13,
     <1>14, <1>15, <1>16, <1>17, <1>18, <1>19, <1>20, <1>21 DEF Step, NativeMoves

-----------------------------------------------------------------------------
(* Leases and their owners.                                                *)

OwnedBy(y) == held[y] \cup RetainedBy(pending[y]) \cup RetainedBy(data[y])

\* A lease is owned if some layer owns it, before and after a step.
LEMMA OwnedMembers ==
  /\ \A l : l \in Owned <=> \E y \in Layers : l \in OwnedBy(y)
  /\ \A l : (l \in Owned)' <=> \E y \in Layers : (l \in OwnedBy(y))'
  BY DEF Owned, OwnedAfter, OwnedBy

\* Only leases are owned.
LEMMA OwnedAreLeases == Types => Owned \subseteq Leases
<1> SUFFICES ASSUME Types, NEW y \in Layers, NEW l \in OwnedBy(y)
             PROVE  l \in Leases
  BY OwnedMembers
<1>1. held[y] \subseteq Leases
  BY DEF Types
<1>2. RetainedBy(pending[y]) \subseteq Leases
  BY DEF Types, RetainedBy, Data
<1>3. RetainedBy(data[y]) \subseteq Leases
  BY DEF Types, RetainedBy, Data
<1> QED
  BY <1>1, <1>2, <1>3 DEF OwnedBy

\* Owners elsewhere keep what they own.
LEMMA OwnedElsewhere ==
  ASSUME NEW y \in Layers, \A z \in Layers \ {y} : OwnedBy(z)' = OwnedBy(z)
  PROVE  /\ OwnedBy(y)' = OwnedBy(y) => Owned' = Owned
         /\ OwnedBy(y)' \subseteq OwnedBy(y) => Owned' \subseteq Owned
         /\ \A l : OwnedBy(y)' = OwnedBy(y) \cup {l} => Owned' = Owned \cup {l}
<1>1. ASSUME OwnedBy(y)' \subseteq OwnedBy(y)
      PROVE  Owned' \subseteq Owned
  BY <1>1, OwnedMembers
<1>2. ASSUME OwnedBy(y) \subseteq OwnedBy(y)'
      PROVE  Owned \subseteq Owned'
  BY <1>2, OwnedMembers
<1>3. ASSUME NEW l, OwnedBy(y)' = OwnedBy(y) \cup {l}
      PROVE  Owned' = Owned \cup {l}
  <2>1. Owned \subseteq Owned'
    BY <1>2, <1>3
  <2>2. l \in Owned'
    BY <1>3, OwnedMembers
  <2>3. Owned' \subseteq Owned \cup {l}
    BY <1>3, OwnedMembers
  <2> QED
    BY <2>1, <2>2, <2>3
<1> QED
  BY <1>1, <1>2, <1>3

\* A step that neither touches the leases nor who owns them.
LEMMA QuietStep ==
  ASSUME LeaseInv, UNCHANGED <<directory, strategy, opening>>, Owned' = Owned
  PROVE  LeaseInv'
<1>1. NoOrphanDirectory'
  BY DEF LeaseInv, NoOrphanDirectory
<1>2. \A l : Alive(l)' <=> Alive(l)
  BY DEF Alive
<1> QED
  BY <1>1, <1>2 DEF LeaseInv

\* A step that gives up leases and removes the directories of those that lose
\* their last owner, and of one that was being filled.
LEMMA ReleaseStep ==
  ASSUME LeaseInv, Types, Types', NEW S, RemoveDirectories(S),
         Owned' \subseteq Owned, Owned \ Owned' \subseteq S, S \cap Owned' = {},
         \A z \in Layers : \/ opening'[z] = opening[z] /\ opening[z] \notin S
                           \/ opening'[z] = NoLease /\ opening[z] \in S \cup {NoLease}
  PROVE  LeaseInv'
<1> USE ConstantsAssumption
<1>1. /\ \A l \in Leases : l \notin S =>
              directory'[l] = directory[l] /\ strategy'[l] = strategy[l]
      /\ \A l \in Leases : l \in S => directory'[l] # "present"
  BY RemoveDirectoriesOf
<1>2. Owned' \subseteq Leases /\ opening \in [Layers -> Leases \cup {NoLease}]
  BY OwnedAreLeases DEF Types
<1>3. NoOrphanDirectory'
  <2> SUFFICES ASSUME NEW l \in Leases, directory'[l] = "present", l \notin Owned'
               PROVE  \E z \in Layers : opening'[z] = l
    BY DEF NoOrphanDirectory
  <2>1. l \notin S /\ directory[l] = "present" /\ l \notin Owned
    BY <1>1
  <2>2. PICK z \in Layers : opening[z] = l
    BY <2>1 DEF LeaseInv, NoOrphanDirectory
  <2> QED
    BY <2>1, <2>2
<1>4. ASSUME NEW l \in Owned'
      PROVE  Alive(l)'
  BY <1>1, <1>2, <1>4 DEF LeaseInv, Alive
<1>5. ASSUME NEW z \in Layers, opening'[z] # NoLease
      PROVE  /\ strategy'[opening'[z]] = "copy" /\ directory'[opening'[z]] = "present"
             /\ opening'[z] \notin Owned'
  <2>1. opening'[z] = opening[z] /\ opening[z] \notin S /\ opening[z] \in Leases
    BY <1>2, <1>5
  <2> QED
    BY <1>1, <1>5, <2>1 DEF LeaseInv
<1>6. ASSUME NEW u \in Layers, NEW z \in Layers, u # z, opening'[u] # NoLease
      PROVE  opening'[u] # opening'[z]
  BY <1>6 DEF LeaseInv
<1> QED
  BY <1>3, <1>4, <1>5, <1>6 DEF LeaseInv

\* Every step keeps owned leases alive and leaves no directory without an owner.
LEMMA NextLeaseInv ==
  ASSUME IInv, NEW y \in Layers, Step(y)
  PROVE  LeaseInv'
<1> USE ConstantsAssumption
<1>1. /\ Types /\ Types' /\ LeaseInv /\ NoData \notin Data
      /\ CallInv(y) /\ DataInv(y)
  BY NextTypes DEF IInv, Data
<1>2. /\ pc \in [Layers -> PCs] /\ held \in [Layers -> SUBSET Leases]
      /\ opening \in [Layers -> Leases \cup {NoLease}]
      /\ pending \in [Layers -> Data \cup {NoData}]
      /\ data \in [Layers -> Data \cup {NoData}]
      /\ directory \in [Leases -> {"none", "present", "left"}]
      /\ strategy \in [Leases -> {"none", "native", "backing", "copy"}]
      /\ Owned \subseteq Leases
  BY <1>1, OwnedAreLeases DEF Types
<1>3. ASSUME NEW z, UNCHANGED <<held, pending, data>>
      PROVE  OwnedBy(z)' = OwnedBy(z)
  BY <1>3 DEF OwnedBy, RetainedBy
<1>4. ASSUME UNCHANGED <<held, pending, data>>
      PROVE  Owned' = Owned
  BY <1>4 DEF Owned, OwnedAfter, RetainedBy
<1>5. ASSUME NEW S, RemoveDirectories(S), S = Owned \ Owned', Owned' \subseteq Owned,
             UNCHANGED opening
      PROVE  LeaseInv'
  <2>1. ASSUME NEW z \in Layers
        PROVE  \/ opening'[z] = opening[z] /\ opening[z] \notin S
               \/ opening'[z] = NoLease /\ opening[z] \in S \cup {NoLease}
    BY <1>1, <1>5 DEF LeaseInv
  <2>2. Owned \ Owned' \subseteq S /\ S \cap Owned' = {}
    BY <1>5
  <2> QED
    BY <1>1, <1>5, <2>1, <2>2, ReleaseStep
<1>6. ASSUME Unwind(y)
      PROVE  Owned' \subseteq Owned /\ OwnedAfter(held', pending', data) = Owned'
  <2>1. data' = data
    BY <1>6 DEF Unwind
  <2>2. \A z \in Layers \ {y} : OwnedBy(z)' = OwnedBy(z)
    BY <1>2, <1>6 DEF Unwind, OwnedBy, RetainedBy
  <2>3. OwnedBy(y)' \subseteq OwnedBy(y)
    BY <1>2, <1>6 DEF Unwind, OwnedBy, RetainedBy
  <2> QED
    BY <2>1, <2>2, <2>3, OwnedElsewhere DEF Owned
<1>7. CASE CallGivesUp(y)
  <2>1. Unwind(y) /\ RemoveDirectories(Owned \ OwnedAfter(held', pending', data))
    BY <1>7 DEF CallGivesUp, UnwindOwned, ReleaseUnowned
  <2>2. UNCHANGED opening
    BY <1>1, <1>2, <1>7, <2>1 DEF CallGivesUp, CallInv, Unwind
  <2> QED
    BY <1>5, <1>6, <2>1, <2>2
<1>8. CASE CopyGivesUp(y)
  <2> DEFINE S == {opening[y]} \cup (Owned \ Owned')
  <2>1. Unwind(y) /\ opening[y] # NoLease
    BY <1>1, <1>8 DEF CopyGivesUp, UnwindCopy, CallInv
  <2>2. RemoveDirectories(S)
    BY <1>6, <1>8, <2>1 DEF CopyGivesUp, UnwindCopy
  <2>3. opening[y] \notin Owned /\ Owned' \subseteq Owned
    BY <1>1, <1>6, <2>1 DEF LeaseInv
  <2>4. ASSUME NEW z \in Layers
        PROVE  \/ opening'[z] = opening[z] /\ opening[z] \notin S
               \/ opening'[z] = NoLease /\ opening[z] \in S \cup {NoLease}
    <3>1. opening' = [opening EXCEPT ![y] = NoLease]
      BY <2>1 DEF Unwind
    <3>2. CASE z = y
      BY <1>2, <3>1, <3>2
    <3>3. CASE z # y /\ opening[z] = NoLease
      BY <1>2, <3>1, <3>3
    <3>4. CASE z # y /\ opening[z] # NoLease
      BY <1>1, <1>2, <3>1, <3>4 DEF LeaseInv
    <3> QED
      BY <3>2, <3>3, <3>4
  <2> HIDE DEF S
  <2>5. Owned \ Owned' \subseteq S /\ S \cap Owned' = {}
    BY <2>3 DEF S
  <2> QED
    BY <1>1, <2>2, <2>3, <2>4, <2>5, ReleaseStep
<1>9. ASSUME NEW argument \in MountArguments, BeginRead(y, argument)
      PROVE  LeaseInv'
  BY <1>1, <1>4, <1>9, QuietStep DEF BeginRead, leaseVars, layerVars
<1>10. CASE BeginCanRead(y)
  BY <1>1, <1>4, <1>10, QuietStep DEF BeginCanRead, leaseVars, layerVars
<1>11. CASE OpenInPlace(y)
  <2>1. PICK l \in FreeLeases, how \in {"native", "backing"} :
          /\ strategy' = [strategy EXCEPT ![l] = how]
          /\ held' = [held EXCEPT ![y] = @ \cup {l}]
    BY <1>11 DEF OpenInPlace
  <2>2. UNCHANGED <<directory, opening, pending, data>>
    BY <1>11 DEF OpenInPlace, layerVars
  <2>3. Owned' = Owned \cup {l}
    <3>1. \A z \in Layers \ {y} : OwnedBy(z)' = OwnedBy(z)
      BY <1>2, <2>1, <2>2 DEF OwnedBy, RetainedBy
    <3>2. OwnedBy(y)' = OwnedBy(y) \cup {l}
      BY <1>2, <2>1, <2>2 DEF OwnedBy, RetainedBy
    <3> QED
      BY <3>1, <3>2, OwnedElsewhere
  <2>4. /\ l \in Leases /\ directory[l] = "none" /\ l \notin Owned
        /\ \A z \in Layers : opening[z] # l
    BY <2>1 DEF FreeLeases
  <2>5. NoOrphanDirectory'
    BY <1>1, <2>2, <2>3 DEF LeaseInv, NoOrphanDirectory
  <2>6. \A m \in Owned' : Alive(m)'
    BY <1>1, <1>2, <2>1, <2>2, <2>3, <2>4 DEF LeaseInv, Alive
  <2>7. ASSUME NEW z \in Layers, opening'[z] # NoLease
        PROVE  /\ strategy'[opening'[z]] = "copy" /\ directory'[opening'[z]] = "present"
               /\ opening'[z] \notin Owned'
    BY <1>1, <1>2, <2>1, <2>2, <2>3, <2>4, <2>7 DEF LeaseInv
  <2>8. \A u, z \in Layers : u # z /\ opening'[u] # NoLease => opening'[u] # opening'[z]
    BY <1>1, <2>2 DEF LeaseInv
  <2> QED
    BY <2>5, <2>6, <2>7, <2>8 DEF LeaseInv
<1>12. CASE MakeTmpSubdir(y)
  <2>1. PICK l \in FreeLeases :
          /\ directory' = [directory EXCEPT ![l] = "present"]
          /\ strategy' = [strategy EXCEPT ![l] = "copy"]
          /\ opening' = [opening EXCEPT ![y] = l]
    BY <1>12 DEF MakeTmpSubdir
  <2>2. Owned' = Owned
    BY <1>4, <1>12 DEF MakeTmpSubdir, layerVars
  <2>3. l \in Leases /\ l \notin Owned /\ \A z \in Layers : opening[z] # l
    BY <2>1 DEF FreeLeases
  <2>4. opening[y] = NoLease
    BY <1>1, <1>2, <1>12 DEF MakeTmpSubdir, CallInv
  <2>5. ASSUME NEW m \in Leases, directory'[m] = "present", m \notin Owned'
        PROVE  \E z \in Layers : opening'[z] = m
    <3>1. CASE m = l
      BY <1>2, <2>1, <3>1
    <3>2. CASE m # l
      <4>1. PICK z \in Layers : opening[z] = m
        BY <1>1, <1>2, <2>1, <2>2, <2>5, <3>2 DEF LeaseInv, NoOrphanDirectory
      <4>2. z # y
        BY <2>4, <4>1
      <4> QED
        BY <1>2, <2>1, <4>1, <4>2
    <3> QED
      BY <3>1, <3>2
  <2>6. \A m \in Owned' : Alive(m)'
    BY <1>1, <1>2, <2>1, <2>2, <2>3 DEF LeaseInv, Alive
  <2>7. ASSUME NEW z \in Layers, opening'[z] # NoLease
        PROVE  /\ strategy'[opening'[z]] = "copy" /\ directory'[opening'[z]] = "present"
               /\ opening'[z] \notin Owned'
    <3>1. CASE z = y
      BY <1>2, <2>1, <2>2, <2>3, <3>1
    <3>2. CASE z # y
      <4>1. opening'[z] = opening[z] /\ opening[z] # l
        BY <1>2, <2>1, <2>3, <3>2
      <4> QED
        BY <1>1, <1>2, <2>1, <2>2, <2>7, <4>1 DEF LeaseInv
    <3> QED
      BY <3>1, <3>2
  <2>8. ASSUME NEW u \in Layers, NEW z \in Layers, u # z, opening'[u] # NoLease
        PROVE  opening'[u] # opening'[z]
    BY <1>1, <1>2, <2>1, <2>3, <2>8 DEF LeaseInv
  <2> QED
    BY <2>5, <2>6, <2>7, <2>8 DEF LeaseInv, NoOrphanDirectory
<1>13. CASE CreateOutput(y)
  BY <1>1, <1>4, <1>13, QuietStep DEF CreateOutput, leaseVars, layerVars
<1>14. CASE CopyChunk(y)
  BY <1>1, <1>4, <1>14, QuietStep DEF CopyChunk, layerVars
<1>15. CASE CloseOutput(y)
  <2> DEFINE l == opening[y]
  <2>1. /\ held' = [held EXCEPT ![y] = @ \cup {l}]
        /\ opening' = [opening EXCEPT ![y] = NoLease]
        /\ UNCHANGED <<directory, strategy, pending, data>>
    BY <1>15 DEF CloseOutput, layerVars
  <2>2. l # NoLease /\ strategy[l] = "copy" /\ directory[l] = "present"
    BY <1>1, <1>15 DEF CloseOutput, CallInv, LeaseInv
  <2> HIDE DEF l
  <2>3. Owned' = Owned \cup {l}
    <3>1. \A z \in Layers \ {y} : OwnedBy(z)' = OwnedBy(z)
      BY <1>2, <2>1 DEF OwnedBy, RetainedBy
    <3>2. OwnedBy(y)' = OwnedBy(y) \cup {l}
      BY <1>2, <2>1 DEF OwnedBy, RetainedBy
    <3> QED
      BY <3>1, <3>2, OwnedElsewhere
  <2>4. ASSUME NEW m \in Leases, directory'[m] = "present", m \notin Owned'
        PROVE  \E z \in Layers : opening'[z] = m
    <3>1. m # l /\ m \notin Owned /\ directory[m] = "present"
      BY <2>1, <2>3, <2>4
    <3>2. PICK z \in Layers : opening[z] = m
      BY <1>1, <3>1 DEF LeaseInv, NoOrphanDirectory
    <3>3. z # y
      BY <3>1, <3>2 DEF l
    <3> QED
      BY <1>2, <2>1, <3>2, <3>3
  <2>5. \A m \in Owned' : Alive(m)'
    BY <1>1, <2>1, <2>2, <2>3 DEF LeaseInv, Alive
  <2>6. ASSUME NEW z \in Layers, opening'[z] # NoLease
        PROVE  /\ strategy'[opening'[z]] = "copy" /\ directory'[opening'[z]] = "present"
               /\ opening'[z] \notin Owned'
    <3>1. z # y /\ opening'[z] = opening[z]
      BY <1>2, <2>1, <2>6
    <3>2. opening[z] # l
      BY <1>1, <2>6, <3>1 DEF LeaseInv, l
    <3> QED
      BY <1>1, <2>1, <2>3, <2>6, <3>1, <3>2 DEF LeaseInv
  <2>7. ASSUME NEW u \in Layers, NEW z \in Layers, u # z, opening'[u] # NoLease
        PROVE  opening'[u] # opening'[z]
    BY <1>1, <1>2, <2>1, <2>7 DEF LeaseInv
  <2> QED
    BY <2>4, <2>5, <2>6, <2>7 DEF LeaseInv, NoOrphanDirectory
<1>16. CASE KeepAlive(y)
  <2>1. pending[y] \in Data /\ pending[y].retained = {}
    BY <1>1, <1>2, <1>16 DEF KeepAlive, DataInv
  <2>2. pending' = [pending EXCEPT ![y] = [pending[y] EXCEPT !.retained = held[y]]]
        /\ UNCHANGED <<directory, strategy, opening, held, data>>
    BY <1>16 DEF KeepAlive, leaseVars
  <2>3. \A z \in Layers \ {y} : OwnedBy(z)' = OwnedBy(z)
    BY <1>2, <2>2 DEF OwnedBy, RetainedBy
  <2>4. RetainedBy(pending[y]) = {} /\ RetainedBy(pending'[y]) \subseteq held[y]
    <3>1. [pending[y] EXCEPT !.retained = held[y]].retained = held[y]
      BY <2>1 DEF Data
    <3> QED
      BY <1>2, <2>1, <2>2, <3>1 DEF RetainedBy
  <2>5. OwnedBy(y)' = OwnedBy(y)
    BY <2>2, <2>4 DEF OwnedBy
  <2>6. Owned' = Owned
    BY <2>3, <2>5, OwnedElsewhere
  <2> QED
    BY <1>1, <2>2, <2>6, QuietStep
<1>17. CASE Return(y)
  <2>1. /\ held' = [held EXCEPT ![y] = {}]
        /\ RemoveDirectories(Owned \ OwnedAfter(held', pending, data))
        /\ UNCHANGED <<opening, pending, data>>
    BY <1>17 DEF Return, ReleaseUnowned, layerVars
  <2>2. \A z \in Layers \ {y} : OwnedBy(z)' = OwnedBy(z)
    BY <1>2, <2>1 DEF OwnedBy, RetainedBy
  <2>3. OwnedBy(y)' \subseteq OwnedBy(y)
    BY <1>2, <2>1 DEF OwnedBy, RetainedBy
  <2>4. Owned' = OwnedAfter(held', pending, data)
    BY <2>1 DEF Owned
  <2> QED
    BY <1>5, <2>1, <2>2, <2>3, <2>4, OwnedElsewhere
<1>18. CASE CloseLayer(y)
  <2>1. /\ data' = [data EXCEPT ![y] = NoData]
        /\ RemoveDirectories(Owned \ OwnedAfter(held, pending, data'))
        /\ UNCHANGED <<opening, held, pending>>
    BY <1>18 DEF CloseLayer, ReleaseUnowned
  <2>2. \A z \in Layers \ {y} : OwnedBy(z)' = OwnedBy(z)
    BY <1>2, <2>1 DEF OwnedBy, RetainedBy
  <2>3. OwnedBy(y)' \subseteq OwnedBy(y)
    BY <1>2, <2>1 DEF OwnedBy, RetainedBy
  <2>4. Owned' = OwnedAfter(held, pending, data')
    BY <2>1 DEF Owned
  <2> QED
    BY <1>5, <2>1, <2>2, <2>3, <2>4, OwnedElsewhere
<1>19. CASE Parse(y)
  BY <1>1, <1>4, <1>19, QuietStep DEF Parse, leaseVars, layerVars
<1>20. CASE OpenChild(y)
  BY <1>1, <1>4, <1>20, QuietStep DEF OpenChild, leaseVars, layerVars
<1>21. CASE RegisterLoaders(y) \/ PythonRegisters(y)
  <2>1. PICK loaders :
          /\ pending' = [pending EXCEPT ![y] = [loaders |-> loaders, retained |-> {}]]
          /\ UNCHANGED <<directory, strategy, opening, held, data>>
    BY <1>21 DEF RegisterLoaders, PythonRegisters, leaseVars
  <2>2. pending[y] = NoData
    BY <1>1, <1>21 DEF RegisterLoaders, PythonRegisters, DataInv
  <2>3. \A z \in Layers \ {y} : OwnedBy(z)' = OwnedBy(z)
    BY <1>2, <2>1 DEF OwnedBy, RetainedBy
  <2>4. RetainedBy(pending[y]) = {} /\ RetainedBy(pending'[y]) = {}
    BY <1>2, <2>1, <2>2 DEF RetainedBy
  <2>5. OwnedBy(y)' = OwnedBy(y)
    BY <2>1, <2>4 DEF OwnedBy
  <2>6. Owned' = Owned
    BY <2>3, <2>5, OwnedElsewhere
  <2> QED
    BY <1>1, <2>1, <2>6, QuietStep
<1>22. CASE SetLayerData(y) \/ PythonCommits(y)
  <2>1. /\ data' = [data EXCEPT ![y] = pending[y]]
        /\ pending' = [pending EXCEPT ![y] = NoData]
        /\ RemoveDirectories(Owned \ OwnedAfter(held, pending', data'))
        /\ UNCHANGED <<opening, held>>
    BY <1>22 DEF SetLayerData, PythonCommits, ReleaseUnowned
  <2>2. \A z \in Layers \ {y} : OwnedBy(z)' = OwnedBy(z)
    BY <1>2, <2>1 DEF OwnedBy, RetainedBy
  <2>3. OwnedBy(y)' \subseteq OwnedBy(y)
    BY <1>2, <2>1 DEF OwnedBy, RetainedBy
  <2>4. Owned' = OwnedAfter(held, pending', data')
    BY <2>1 DEF Owned
  <2> QED
    BY <1>5, <2>1, <2>2, <2>3, <2>4, OwnedElsewhere
<1>23. CASE PlaceSucceeds(y)
  BY <1>1, <1>4, <1>23, QuietStep DEF PlaceSucceeds, leaseVars
<1>24. CASE PythonMoves(y)
  BY <1>1, <1>4, <1>24, QuietStep DEF PythonMoves, leaseVars, layerVars
<1> QED
  BY <1>7, <1>8, <1>9, <1>10, <1>11, <1>12, <1>13, <1>14, <1>15, <1>16, <1>17, <1>18,
     <1>19, <1>20, <1>21, <1>22, <1>23, <1>24 DEF Step, NativeMoves

-----------------------------------------------------------------------------
(* The theorems.                                                           *)

\* The invariant holds before the first call.
LEMMA InitInv == PythonInit => IInv
<1> SUFFICES ASSUME PythonInit
             PROVE  IInv
  OBVIOUS
<1> USE ConstantsAssumption DEF PythonInit, Init
<1>1. Types
  BY DEF Types, PCs, Prims, Specs, Layer, LayerNow, Data, AllMountArguments
<1>2. ASSUME NEW y \in Layers
      PROVE  CallInv(y) /\ DataInv(y) /\ PlaceInv(y)
  BY DEF CallInv, DataInv, PlaceInv, Parsed
<1>3. Owned = {}
  BY DEF Owned, OwnedAfter, RetainedBy
<1>4. LeaseInv
  BY <1>3 DEF LeaseInv, NoOrphanDirectory
<1> QED
  BY <1>1, <1>2, <1>4 DEF IInv

\* The invariant holds in every state, of native and python reads alike.
LEMMA Invariant == PythonSpec => []IInv
<1>1. IInv /\ [PythonNext]_allVars => IInv'
  <2> SUFFICES ASSUME IInv, [PythonNext]_allVars
               PROVE  IInv'
    OBVIOUS
  <2>1. CASE PythonNext
    <3>1. PICK y \in Layers : Step(y)
      BY <2>1, StepOf
    <3>2. reader' = reader
      BY <2>1, StepOf
    <3>3. Types' /\ LeaseInv'
      BY <3>1, NextTypes, NextLeaseInv
    <3>4. \A z \in Layers : CallInv(z)' /\ DataInv(z)' /\ PlaceInv(z)'
      BY <3>1, <3>2, NextCallInv, NextDataInv, NextPlaceInv
    <3> QED
      BY <3>3, <3>4 DEF IInv
  <2>2. CASE UNCHANGED allVars
    <3>1. UNCHANGED <<vars, reader>>
      BY <2>2 DEF allVars, pythonVars
    <3>2. Types' /\ \A z \in Layers : CallInv(z)' /\ DataInv(z)' /\ PlaceInv(z)'
      BY <3>1 DEF vars, IInv, Types, CallInv, DataInv, PlaceInv, Parsed
    <3>3. Owned' = Owned
      BY <3>1 DEF vars, Owned, OwnedAfter, RetainedBy
    <3>4. LeaseInv'
      BY <3>1, <3>3, QuietStep DEF vars, IInv
    <3> QED
      BY <3>2, <3>4 DEF IInv
  <2> QED
    BY <2>1, <2>2
<1> QED
  BY InitInv, <1>1, PTL DEF PythonSpec

\* A temporary directory is on disk only while somebody owns its lease or is
\* filling it, or because it could not be removed, whatever fails in whatever
\* order (CaeResolverAsset and MaterializeAsset, ResolverAsset.cpp).
THEOREM NoOrphanDirectoryCorrect == PythonSpec => []NoOrphanDirectory
<1>1. IInv => NoOrphanDirectory
  BY DEF IInv, LeaseInv
<1> QED
  BY Invariant, <1>1, PTL

\* The files that the loaders of a layer will reopen are there as long as the
\* layer data is: KeepAlive retains all of them.
THEOREM LoadersFindTheirFileCorrect == PythonSpec => []LoadersFindTheirFile
<1>1. ASSUME IInv, NEW y \in Layers, data[y] # NoData, NEW l \in data[y].loaders
      PROVE  Alive(l)
  <2>1. l \in RetainedBy(data[y])
    BY <1>1 DEF IInv, DataInv, RetainedBy
  <2>2. l \in Owned
    BY <2>1, OwnedMembers DEF OwnedBy
  <2> QED
    BY <1>1, <2>2 DEF IInv, LeaseInv
<1>2. IInv => LoadersFindTheirFile
  BY <1>1 DEF LoadersFindTheirFile, Alive
<1> QED
  BY Invariant, <1>2, PTL

\* A read that fails leaves the layer its data, whatever mount path it was asked
\* for: the loaders and all that the data retains (what else a callback may have
\* changed by then is ReadKeepsOrReplacesCorrect).
THEOREM FailedCallKeepsDataCorrect == PythonSpec => []FailedCallKeepsData
<1>1. IInv => FailedCallKeepsData
  BY DEF IInv, DataInv, FailedCallKeepsData
<1> QED
  BY Invariant, <1>1, PTL

-----------------------------------------------------------------------------
(* What a python read has made of its callback's result, step by step.     *)

AllNames == Names \cup {"identifier", "local"}
Paths == Seq(AllNames)

\* Results of callbacks once their roots have the name of the local file.
Declared ==
  {d \in [tree : SUBSET (Paths \ {<<>>}), default : AllNames \cup {None},
          lazy : Seq([prim : Paths \ {<<>>}, attr : Names, token : BOOLEAN, times : Seq(Nat)])] :
     /\ d.default # None => <<d.default>> \in d.tree
     /\ \A p \in d.tree : <<p[1]>> \in d.tree}

\* What the callback authored, where it authored it.
Authored(d) ==
  [declared |-> d, default |-> d.default, tree |-> [p \in d.tree |-> p],
   fields |-> d.lazy, root |-> <<>>]

\* The same at a mount path.
Mounted(d, path, tree) ==
  [declared |-> d, default |-> Head(path), tree |-> tree,
   fields |-> [i \in DOMAIN d.lazy |-> RebaseField(d.lazy[i], PythonLeaf(Authored(d)), path)],
   root |-> path]

Roots == MountPaths \cup {<<"identifier">>}

Placements(d) ==
  {Authored(d)} \cup
  UNION {{Mounted(d, path, tree) :
            tree \in RebasedTrees([p \in d.tree |-> p], PythonLeaf(Authored(d)), path)} :
           path \in Roots}

\* The same with the samples as they are registered.
Registered(read) ==
  [read EXCEPT !.fields =
     [i \in DOMAIN @ |-> [@[i] EXCEPT !.times = RegisteredTimes(read.fields[i])]]]

PythonPCs == {"manifest", "rebase", "register", "keep_alive", "commit", "succeeded"}

\* Every state of a python read comes from a result of its callback.
ReadInv(y) ==
  /\ reader[y] = "native" => python[y] = None
  /\ reader[y] # "native" /\ pc[y] \in PythonPCs =>
       \E d \in Declared :
         /\ pc[y] \in {"manifest", "rebase"} => python[y] = Authored(d)
         /\ pc[y] = "register" => python[y] \in Placements(d)
         /\ pc[y] \in {"keep_alive", "commit", "succeeded"} =>
              \E read \in Placements(d) : python[y] = Registered(read)

ReadsInv ==
  /\ python = [y \in Layers |-> python[y]]
  /\ \A y \in Layers : ReadInv(y)

-----------------------------------------------------------------------------
\* Under a root.
LEMMA UnderRoot ==
  ASSUME NEW N, NEW x \in N, NEW p \in Seq(N)
  PROVE  IsPrefix(<<x>>, p) <=> p # <<>> /\ p[1] = x
<1>1. Len(<<x>>) = 1 /\ SubSeq(<<x>>, 1, 1) = <<x>>
  <2>1. <<x>> \in Seq(N) /\ Len(<<x>>) = 1
    OBVIOUS
  <2> QED
    BY <2>1, SubSeqFull
<1>2. CASE p = <<>>
  BY <1>1, <1>2 DEF IsPrefix
<1>3. CASE p # <<>>
  <2>1. Len(p) \in Nat /\ Len(p) >= 1
    BY <1>3
  <2>2. SubSeq(p, 1, 1) = <<p[1]>>
    <3>1. /\ SubSeq(p, 1, 1) \in Seq(N) /\ Len(SubSeq(p, 1, 1)) = 1
          /\ SubSeq(p, 1, 1)[1] = p[1]
      BY <2>1
    <3>2. <<p[1]>> \in Seq(N) /\ Len(<<p[1]>>) = 1 /\ <<p[1]>>[1] = p[1]
      BY <2>1
    <3>3. \A i \in 1..Len(SubSeq(p, 1, 1)) : SubSeq(p, 1, 1)[i] = <<p[1]>>[i]
      BY <3>1, <3>2
    <3>4. Len(SubSeq(p, 1, 1)) = Len(<<p[1]>>)
      BY <3>1, <3>2
    <3> QED
      BY <3>1, <3>2, <3>3, <3>4, SeqEqual
  <2>3. IsPrefix(<<x>>, p) <=> <<x>> = <<p[1]>>
    BY <1>1, <2>1, <2>2 DEF IsPrefix
  <2> QED
    BY <1>3, <2>3
<1> QED
  BY <1>2, <1>3

\* The path below a root.
Below1(p) == SubSeq(p, 2, Len(p))

\* A path under the root x moves to the mount path.
LEMMA MovedPath ==
  ASSUME NEW x \in AllNames, NEW m \in Seq(AllNames), NEW p \in Seq(AllNames),
         p # <<>>, p[1] = x
  PROVE  /\ ReplacePrefix(p, <<x>>, m) = m \o Below1(p)
         /\ m \o Below1(p) \in Seq(AllNames)
         /\ IsPrefix(m, m \o Below1(p))
         /\ m # <<>> => (m \o Below1(p))[1] = m[1] /\ m \o Below1(p) # <<>>
<1>1. Below1(p) \in Seq(AllNames) /\ m \o Below1(p) \in Seq(AllNames)
  BY DEF Below1
<1>2. IsPrefix(<<x>>, p)
  BY UnderRoot
<1>3. ReplacePrefix(p, <<x>>, m) = m \o Below1(p)
  BY <1>2 DEF ReplacePrefix, Below1
<1>4. \A t \in Seq(AllNames) : IsPrefix(m, m \o t)
  <2> TAKE t \in Seq(AllNames)
  <2>1. Len(m \o t) = Len(m) + Len(t) /\ Len(m) \in Nat /\ Len(t) \in Nat
    OBVIOUS
  <2>2. SubSeq(m, 1, Len(m)) = SubSeq(m \o t, 1, Len(m))
    OBVIOUS
  <2> QED
    BY <2>1, <2>2 DEF IsPrefix
<1>5. m # <<>> => (m \o Below1(p))[1] = m[1] /\ m \o Below1(p) # <<>>
  BY <1>1
<1> QED
  BY <1>1, <1>3, <1>4, <1>5

\* What has moved is a path again.
LEMMA MovedIsPath ==
  \A x \in AllNames, m \in Seq(AllNames), p \in Seq(AllNames) :
    m # <<>> /\ p # <<>> /\ p[1] = x =>
      ReplacePrefix(p, <<x>>, m) \in Seq(AllNames) /\ ReplacePrefix(p, <<x>>, m) # <<>>
<1> TAKE x \in AllNames, m \in Seq(AllNames), p \in Seq(AllNames)
<1> HAVE m # <<>> /\ p # <<>> /\ p[1] = x
<1>1. /\ ReplacePrefix(p, <<x>>, m) = m \o Below1(p)
      /\ m \o Below1(p) \in Seq(AllNames)
      /\ m # <<>> => m \o Below1(p) # <<>>
  BY MovedPath
<1> QED
  BY <1>1

\* Two paths under one root do not meet when they move.
LEMMA MovedApart ==
  ASSUME NEW N, NEW m \in Seq(N), NEW p \in Seq(N), NEW q \in Seq(N),
         p # <<>>, q # <<>>, p[1] = q[1], m \o Below1(p) = m \o Below1(q)
  PROVE  p = q
<1>1. Below1(p) \in Seq(N) /\ Below1(q) \in Seq(N)
  BY DEF Below1
<1>2. Len(p) = Len(q)
  BY <1>1 DEF Below1
<1>3. ASSUME NEW i \in 1..Len(p), i # 1
      PROVE  p[i] = q[i]
  <2>1. (m \o Below1(p))[Len(m) + i - 1] = Below1(p)[i - 1]
    BY <1>1, <1>3 DEF Below1
  <2>2. (m \o Below1(q))[Len(m) + i - 1] = Below1(q)[i - 1]
    BY <1>1, <1>2, <1>3 DEF Below1
  <2>3. Below1(p)[i - 1] = p[i] /\ Below1(q)[i - 1] = q[i]
    BY <1>2, <1>3 DEF Below1
  <2> QED
    BY <2>1, <2>2, <2>3
<1>4. \A i \in 1..Len(p) : p[i] = q[i]
  BY <1>3
<1> QED
  BY <1>2, <1>4, SeqEqual
\* The sequence of names a callback's content is under.
LEMMA LeafOf ==
  ASSUME NEW d \in Declared
  PROVE  \/ /\ PythonLeaf(Authored(d)) = <<>>
            /\ d.default = None /\ d.lazy = <<>>
         \/ \E x \in AllNames :
              /\ PythonLeaf(Authored(d)) = <<x>>
              /\ d.default # None => <<x>> \in d.tree
              /\ d.default = None => d.lazy # <<>> /\ d.lazy[1].prim[1] = x
<1> DEFINE Fields == [prim : Paths \ {<<>>}, attr : Names, token : BOOLEAN, times : Seq(Nat)]
<1>1. /\ d.default \in AllNames \cup {None} /\ d.lazy \in Seq(Fields)
      /\ d.default # None => <<d.default>> \in d.tree
  BY DEF Declared
<1>2. Authored(d).default = d.default /\ Authored(d).fields = d.lazy
  BY DEF Authored
<1>3. CASE d.default # None
  BY <1>1, <1>2, <1>3 DEF PythonLeaf
<1>4. CASE d.default = None /\ d.lazy = <<>>
  BY <1>2, <1>4 DEF PythonLeaf
<1>5. CASE d.default = None /\ d.lazy # <<>>
  <2>1. d.lazy[1] \in Fields
    <3> HIDE DEF Fields
    <3>1. 1 \in 1..Len(d.lazy)
      BY <1>1, <1>5
    <3> QED
      BY <1>1, <3>1, ElementOfSeq
  <2>2. d.lazy[1].prim \in Paths /\ d.lazy[1].prim # <<>>
    BY <2>1
  <2>3. Head(d.lazy[1].prim) = d.lazy[1].prim[1] /\ d.lazy[1].prim[1] \in AllNames
    BY <2>2 DEF Paths
  <2>4. PythonLeaf(Authored(d)) = <<d.lazy[1].prim[1]>>
    BY <1>2, <1>5, <2>3 DEF PythonLeaf
  <2> QED
    BY <1>5, <2>3, <2>4
<1> QED
  BY <1>3, <1>4, <1>5

\* Every place a layer may be mounted at is a path.
LEMMA RootPath == Roots \subseteq Paths \ {<<>>}
<1>1. MountPaths \subseteq Paths \ {<<>>}
  <2>1. Seq(Names) \subseteq Paths
    BY DEF Paths, AllNames
  <2> QED
    BY <2>1, PythonAssumption
<1>2. <<"identifier">> \in Paths \ {<<>>}
  BY DEF Paths, AllNames
<1> QED
  BY <1>1, <1>2 DEF Roots

\* Creating the prims above a path changes no prim that is there.
LEMMA AncestorsKeep ==
  ASSUME NEW tree, NEW path, NEW p \in DOMAIN tree
  PROVE  p \in DOMAIN WithAncestors(tree, path) /\ WithAncestors(tree, path)[p] = tree[p]
  BY DEF WithAncestors

\* Where a prim the callback authored is found, unless the mount path takes its place.
LEMMA TreeFollows ==
  ASSUME NEW d \in Declared, NEW path \in Roots, NEW x \in AllNames,
         NEW tree \in RebasedTrees([p \in d.tree |-> p], <<x>>, path),
         NEW p \in d.tree,
         p[1] = x \/ ~IsPrefix(path, p)
  PROVE  /\ ReplacePrefix(p, <<x>>, path) \in DOMAIN tree
         /\ tree[ReplacePrefix(p, <<x>>, path)] = p
<1> DEFINE leaf == <<x>>
           first == [q \in d.tree |-> q]
           q == ReplacePrefix(p, leaf, path)
           copy == CopySpec(first, leaf, path)
<1>1. path \in Paths /\ path # <<>> /\ p \in Paths /\ p # <<>> /\ d.tree \subseteq Paths
      /\ <<p[1]>> \in d.tree /\ \A r \in d.tree : r # <<>>
  BY RootPath DEF Declared
<1>2. \A r \in d.tree : IsPrefix(leaf, r) <=> r[1] = x
  BY <1>1, UnderRoot DEF Paths
<1>3. p[1] # x => q = p
  BY <1>2 DEF ReplacePrefix
<1>4. ASSUME NEW r \in d.tree, r[1] = x
      PROVE  /\ ReplacePrefix(r, leaf, path) = path \o Below1(r)
             /\ ReplacePrefix(r, leaf, path) \in Paths
             /\ IsPrefix(path, ReplacePrefix(r, leaf, path))
             /\ ReplacePrefix(r, leaf, path)[1] = path[1]
             /\ ReplacePrefix(r, leaf, path) # <<>>
  <2>1. r \in Seq(AllNames) /\ r # <<>> /\ path \in Seq(AllNames)
    BY <1>1, <1>4 DEF Paths
  <2>2. x \in AllNames
    OBVIOUS
  <2>3. /\ ReplacePrefix(r, <<x>>, path) = path \o Below1(r)
        /\ path \o Below1(r) \in Seq(AllNames)
        /\ IsPrefix(path, path \o Below1(r))
        /\ path # <<>> => (path \o Below1(r))[1] = path[1] /\ path \o Below1(r) # <<>>
    <3> HIDE DEF leaf, first, q, copy
    <3>1. r # <<>> /\ r[1] = x /\ r \in Seq(AllNames) /\ path \in Seq(AllNames) /\ x \in AllNames
      BY <1>4, <2>1
    <3> QED
      BY ONLY <3>1, MovedPath
  <2> QED
    BY <1>1, <2>3 DEF Paths
<1>5. CASE leaf = path \/ leaf \notin d.tree
  <2>1. tree = WithAncestors(first, path)
    BY <1>5 DEF RebasedTrees
  <2>2. q = p
    <3>1. CASE p[1] = x
      <4>1. leaf = path
        BY <1>1, <1>5, <3>1
      <4>2. p \in Seq(AllNames) /\ Len(p) \in Nat /\ Len(p) >= 1
        BY <1>1 DEF Paths
      <4>3. SubSeq(p, 1, Len(p)) = <<p[1]>> \o SubSeq(p, 2, Len(p))
        <5>1. SubSeq(p, 1, Len(p)) = <<p[1]>> \o SubSeq(p, 1 + 1, Len(p))
          BY <4>2, SubSeqRecursiveFirst
        <5> QED
          BY <5>1
      <4>4. p = <<p[1]>> \o Below1(p)
        BY <4>2, <4>3, SubSeqFull DEF Below1
      <4> QED
        BY <1>4, <3>1, <4>1, <4>4
    <3> QED
      BY <1>3, <3>1
  <2>3. p \in DOMAIN first /\ first[p] = p
    OBVIOUS
  <2> QED
    BY <2>1, <2>2, <2>3, AncestorsKeep
<1>6. CASE leaf # path /\ leaf \in d.tree
  <2> DEFINE source == {r \in DOMAIN first : IsPrefix(leaf, r)}
             copies == {ReplacePrefix(r, leaf, path) : r \in source}
  <2>1. source = {r \in d.tree : r[1] = x}
    BY <1>2
  <2>2. DOMAIN copy = copies \cup {r \in d.tree : ~IsPrefix(path, r)}
    BY DEF CopySpec
  <2>3. \A r \in copies : IsPrefix(path, r)
    BY <1>4, <2>1
  <2>4. q \in DOMAIN copy /\ copy[q] = p
    <3>1. CASE p[1] = x
      <4>1. p \in source /\ q \in copies
        BY <2>1, <3>1
      <4>2. \A r \in source : ReplacePrefix(r, leaf, path) = q => r = p
        <5> SUFFICES ASSUME NEW r \in source, ReplacePrefix(r, leaf, path) = q
                     PROVE  r = p
          OBVIOUS
        <5>1. r \in d.tree /\ r[1] = x
          BY <2>1
        <5>2. path \o Below1(r) = path \o Below1(p)
          BY <1>4, <3>1, <5>1
        <5>3. r \in Seq(AllNames) /\ r # <<>> /\ p \in Seq(AllNames) /\ path \in Seq(AllNames)
          BY <1>1, <5>1 DEF Paths
        <5> QED
          BY <1>1, <3>1, <5>1, <5>2, <5>3, MovedApart
      <4>3. (CHOOSE r \in source : ReplacePrefix(r, leaf, path) = q) = p
        BY <4>1, <4>2
      <4>4. copy[q] = first[CHOOSE r \in source : ReplacePrefix(r, leaf, path) = q]
        BY <2>2, <4>1 DEF CopySpec
      <4> QED
        BY <2>2, <4>1, <4>3, <4>4
    <3>2. CASE p[1] # x
      <4>1. q = p /\ ~IsPrefix(path, p)
        BY <1>3, <3>2
      <4>2. q \notin copies /\ q \in DOMAIN copy
        BY <2>2, <2>3, <4>1
      <4>3. copy[q] = first[q]
        BY <2>2, <4>2 DEF CopySpec
      <4> QED
        BY <4>1, <4>2, <4>3
    <3> QED
      BY <3>1, <3>2
  <2> DEFINE copied == WithAncestors(copy, path)
  <2>5. q \in DOMAIN copied /\ copied[q] = p
    BY <2>4, AncestorsKeep
  <2>6. tree = copied \/ (~IsPrefix(leaf, path) /\ tree = Without(copied, leaf))
    BY <1>6 DEF RebasedTrees
  <2>7. ~IsPrefix(leaf, path) => ~IsPrefix(leaf, q)
    <3>1. CASE p[1] = x
      <4>1. IsPrefix(leaf, q) <=> q[1] = x
        BY <1>4, <3>1, UnderRoot DEF Paths
      <4>2. IsPrefix(leaf, path) <=> path[1] = x
        BY <1>1, UnderRoot DEF Paths
      <4> QED
        BY <1>4, <3>1, <4>1, <4>2
    <3> QED
      BY <1>2, <1>3, <3>1
  <2> HIDE DEF copied, q, leaf
  <2>8. ASSUME ~IsPrefix(leaf, path), tree = Without(copied, leaf)
        PROVE  q \in DOMAIN tree /\ tree[q] = p
    <3>1. DOMAIN tree = {r \in DOMAIN copied : ~IsPrefix(leaf, r)}
      BY <2>8 DEF Without
    <3>2. q \in DOMAIN tree
      BY <2>5, <2>7, <2>8, <3>1
    <3>3. tree[q] = copied[q]
      BY <2>8, <3>1, <3>2 DEF Without
    <3> QED
      BY <2>5, <3>2, <3>3
  <2>9. q \in DOMAIN tree /\ tree[q] = p
    BY <2>5, <2>6, <2>8
  <2> QED
    BY <2>9 DEF q, leaf
<1> QED
  BY <1>5, <1>6

\* What a registered read is made of.
LEMMA RegisteredOf ==
  ASSUME NEW d \in Declared, NEW read \in Placements(d)
  PROVE  /\ Registered(read).declared = d
         /\ DOMAIN Registered(read).fields = DOMAIN d.lazy
         /\ \A i \in DOMAIN d.lazy :
              /\ Registered(read).fields[i].attr = d.lazy[i].attr
              /\ Registered(read).fields[i].times = RegisteredTimes(d.lazy[i])
         /\ \/ /\ Registered(read).root = <<>> /\ Registered(read).default = d.default
               /\ Registered(read).tree = [p \in d.tree |-> p]
               /\ \A i \in DOMAIN d.lazy : Registered(read).fields[i].prim = d.lazy[i].prim
            \/ \E path \in Roots :
                 /\ Registered(read).root = path /\ Registered(read).default = Head(path)
                 /\ Registered(read).tree \in
                      RebasedTrees([p \in d.tree |-> p], PythonLeaf(Authored(d)), path)
                 /\ \A i \in DOMAIN d.lazy :
                      Registered(read).fields[i].prim =
                        ReplacePrefix(d.lazy[i].prim, PythonLeaf(Authored(d)), path)
<1> DEFINE Fields == [prim : Paths \ {<<>>}, attr : Names, token : BOOLEAN, times : Seq(Nat)]
           leaf == PythonLeaf(Authored(d))
           first == [p \in d.tree |-> p]
           reg == Registered(read)
<1>1. d.lazy \in Seq(Fields) /\ \A i \in DOMAIN d.lazy : d.lazy[i] \in Fields
  <2>1. d.lazy \in Seq(Fields)
    BY DEF Declared
  <2> HIDE DEF Fields
  <2> QED
    BY <2>1, ElementOfSeq
<1>2. ASSUME NEW i \in DOMAIN d.lazy, NEW f \in Fields, f.times = d.lazy[i].times
      PROVE  RegisteredTimes(f) = RegisteredTimes(d.lazy[i])
  BY <1>2 DEF RegisteredTimes
<1>3. ASSUME NEW f \in [DOMAIN d.lazy -> Fields], NEW a, NEW b, NEW c, NEW e,
             read = [declared |-> a, default |-> b, tree |-> c, fields |-> f, root |-> e]
      PROVE  /\ reg.declared = a /\ reg.default = b /\ reg.tree = c /\ reg.root = e
             /\ DOMAIN reg.fields = DOMAIN d.lazy
             /\ \A i \in DOMAIN d.lazy :
                  /\ reg.fields[i].prim = f[i].prim /\ reg.fields[i].attr = f[i].attr
                  /\ reg.fields[i].times = RegisteredTimes(f[i])
  <2>1. reg = [read EXCEPT !.fields =
                 [i \in DOMAIN f |-> [f[i] EXCEPT !.times = RegisteredTimes(f[i])]]]
    BY <1>3 DEF Registered
  <2>2. /\ reg.declared = a /\ reg.default = b /\ reg.tree = c /\ reg.root = e
        /\ reg.fields = [i \in DOMAIN f |-> [f[i] EXCEPT !.times = RegisteredTimes(f[i])]]
    BY <1>3, <2>1
  <2>3. \A i \in DOMAIN d.lazy : f[i] \in Fields
    OBVIOUS
  <2> QED
    BY <2>2, <2>3
<1>4. CASE read = Authored(d)
  <2>1. d.lazy \in [DOMAIN d.lazy -> Fields]
    <3> HIDE DEF Fields
    <3> QED
      BY <1>1
  <2>2. read = [declared |-> d, default |-> d.default, tree |-> first, fields |-> d.lazy,
                root |-> <<>>]
    BY <1>4 DEF Authored
  <2> HIDE DEF reg, Fields, first
  <2>3. /\ reg.declared = d /\ reg.default = d.default /\ reg.tree = first /\ reg.root = <<>>
        /\ DOMAIN reg.fields = DOMAIN d.lazy
        /\ \A i \in DOMAIN d.lazy :
             /\ reg.fields[i].prim = d.lazy[i].prim /\ reg.fields[i].attr = d.lazy[i].attr
             /\ reg.fields[i].times = RegisteredTimes(d.lazy[i])
    BY <1>3, <2>1, <2>2
  <2> QED
    BY <2>3 DEF reg, first
<1>5. ASSUME NEW path \in Roots, NEW tree \in RebasedTrees(first, leaf, path),
             read = Mounted(d, path, tree)
      PROVE  /\ reg.declared = d /\ reg.default = Head(path) /\ reg.tree = tree /\ reg.root = path
             /\ DOMAIN reg.fields = DOMAIN d.lazy
             /\ \A i \in DOMAIN d.lazy :
                  /\ reg.fields[i].prim = ReplacePrefix(d.lazy[i].prim, leaf, path)
                  /\ reg.fields[i].attr = d.lazy[i].attr
                  /\ reg.fields[i].times = RegisteredTimes(d.lazy[i])
  <2> DEFINE f == [i \in DOMAIN d.lazy |-> RebaseField(d.lazy[i], leaf, path)]
  <2>1. \A i \in DOMAIN d.lazy :
          /\ f[i].prim = ReplacePrefix(d.lazy[i].prim, leaf, path)
          /\ f[i].attr = d.lazy[i].attr /\ f[i].times = d.lazy[i].times
          /\ f[i] \in Fields
    <3> SUFFICES ASSUME NEW i \in DOMAIN d.lazy
                 PROVE  /\ f[i].prim = ReplacePrefix(d.lazy[i].prim, leaf, path)
                        /\ f[i].attr = d.lazy[i].attr /\ f[i].times = d.lazy[i].times
                        /\ f[i] \in Fields
      OBVIOUS
    <3>1. d.lazy # <<>>
      OBVIOUS
    <3>2. PICK x \in AllNames : leaf = <<x>>
      BY <3>1, LeafOf
    <3>3. leaf # <<>>
      BY <3>2
    <3>4. f[i] = [d.lazy[i] EXCEPT !.prim = ReplacePrefix(@, leaf, path)]
      BY <3>3 DEF RebaseField
    <3>5. d.lazy[i] \in Fields
      BY <1>1
    <3>6. ReplacePrefix(d.lazy[i].prim, leaf, path) \in Paths \ {<<>>}
      <4>1. /\ d.lazy[i].prim \in Seq(AllNames) /\ d.lazy[i].prim # <<>>
            /\ path \in Seq(AllNames) /\ path # <<>>
        BY <3>5, RootPath DEF Paths
      <4>2. CASE d.lazy[i].prim[1] = x
        <5> HIDE DEF leaf
        <5>1. /\ ReplacePrefix(d.lazy[i].prim, <<x>>, path) \in Seq(AllNames)
              /\ ReplacePrefix(d.lazy[i].prim, <<x>>, path) # <<>>
          BY <4>1, <4>2, MovedIsPath
        <5> QED
          BY <3>2, <5>1 DEF Paths
      <4>3. CASE d.lazy[i].prim[1] # x
        <5>1. ~IsPrefix(leaf, d.lazy[i].prim)
          BY <3>2, <4>1, <4>3, UnderRoot
        <5> QED
          BY <4>1, <5>1 DEF ReplacePrefix, Paths
      <4> QED
        BY <4>2, <4>3
    <3> HIDE DEF f
    <3> QED
      BY <3>4, <3>5, <3>6
  <2>2. f \in [DOMAIN d.lazy -> Fields]
    <3> HIDE DEF Fields
    <3> QED
      BY <2>1
  <2>3. read = [declared |-> d, default |-> Head(path), tree |-> tree, fields |-> f, root |-> path]
    BY <1>5 DEF Mounted
  <2> HIDE DEF f, reg, Fields, leaf, first
  <2>4. /\ reg.declared = d /\ reg.default = Head(path) /\ reg.tree = tree /\ reg.root = path
        /\ DOMAIN reg.fields = DOMAIN d.lazy
        /\ \A i \in DOMAIN d.lazy :
                  /\ reg.fields[i].prim = f[i].prim /\ reg.fields[i].attr = f[i].attr
                  /\ reg.fields[i].times = RegisteredTimes(f[i])
    BY <1>3, <2>2, <2>3
  <2> QED
    BY <1>2, <2>1, <2>4
<1>6. read = Authored(d) \/
      \E path \in Roots : \E tree \in RebasedTrees(first, leaf, path) : read = Mounted(d, path, tree)
  BY DEF Placements
<1> HIDE DEF reg, Fields, leaf, first
<1>7. CASE read # Authored(d)
  <2>1. PICK path \in Roots :
          \E tree \in RebasedTrees(first, leaf, path) : read = Mounted(d, path, tree)
    BY <1>6, <1>7
  <2>2. PICK tree \in RebasedTrees(first, leaf, path) : read = Mounted(d, path, tree)
    BY <2>1
  <2> QED
    BY <1>5, <2>2 DEF reg, leaf, first
<1> QED
  BY <1>4, <1>7

\* The fields of a read follow the prims they were declared for.
LEMMA FieldsFollow ==
  ASSUME NEW d \in Declared, NEW read \in Placements(d), ~Displaces(Registered(read))
  PROVE  LET reg == Registered(read) IN
         /\ \A i \in DOMAIN d.lazy :
              d.lazy[i].prim \in d.tree =>
                /\ reg.fields[i].prim \in DOMAIN reg.tree
                /\ reg.tree[reg.fields[i].prim] = d.lazy[i].prim
         /\ \A i, j \in DOMAIN d.lazy :
              <<reg.fields[i].prim, reg.fields[i].attr>> = <<reg.fields[j].prim, reg.fields[j].attr>>
              => <<d.lazy[i].prim, d.lazy[i].attr>> = <<d.lazy[j].prim, d.lazy[j].attr>>
<1> DEFINE Fields == [prim : Paths \ {<<>>}, attr : Names, token : BOOLEAN, times : Seq(Nat)]
           leaf == PythonLeaf(Authored(d))
           first == [p \in d.tree |-> p]
           reg == Registered(read)
<1>1. \A i \in DOMAIN d.lazy : d.lazy[i].prim \in Paths /\ d.lazy[i].prim # <<>>
  <2>1. d.lazy \in Seq(Fields)
    BY DEF Declared
  <2>2. \A i \in DOMAIN d.lazy : d.lazy[i] \in Fields
    <3> HIDE DEF Fields
    <3> QED
      BY <2>1, ElementOfSeq
  <2> QED
    BY <2>2
<1>2. reg.declared = d /\ \A i \in DOMAIN d.lazy : reg.fields[i].attr = d.lazy[i].attr
  BY RegisteredOf
<1>3. PythonLeaf([reg EXCEPT !.default = reg.declared.default, !.fields = reg.declared.lazy]) = leaf
  <2>1. read.declared = d /\ DOMAIN read = {"declared", "default", "tree", "fields", "root"}
    <3>1. CASE read = Authored(d)
      BY <3>1 DEF Authored
    <3>2. CASE read # Authored(d)
      <4>1. \E path \in Roots : \E tree \in RebasedTrees(first, leaf, path) : read = Mounted(d, path, tree)
        BY <3>2 DEF Placements
      <4> QED
        BY <4>1 DEF Mounted
    <3> QED
      BY <3>1, <3>2
  <2>2. DOMAIN reg = {"declared", "default", "tree", "fields", "root"}
    BY <2>1 DEF Registered
  <2> DEFINE back == [reg EXCEPT !.default = reg.declared.default, !.fields = reg.declared.lazy]
  <2>3. back.default = d.default /\ back.fields = d.lazy
    BY <1>2, <2>2
  <2>4. Authored(d).default = d.default /\ Authored(d).fields = d.lazy
    BY DEF Authored
  <2> HIDE DEF back, reg
  <2>5. PythonLeaf(back) = leaf
    BY <2>3, <2>4 DEF PythonLeaf
  <2> QED
    BY <2>5 DEF back
<1>4. CASE reg.root = <<>>
  <2>1. /\ \A i \in DOMAIN d.lazy : reg.fields[i].prim = d.lazy[i].prim
        /\ reg.tree = first
    BY <1>4, RegisteredOf, RootPath
  <2> HIDE DEF reg
  <2>2. \A i \in DOMAIN d.lazy : d.lazy[i].prim \in d.tree =>
          reg.fields[i].prim \in DOMAIN reg.tree /\ reg.tree[reg.fields[i].prim] = d.lazy[i].prim
    BY <2>1
  <2> QED
    BY <1>2, <2>1, <2>2 DEF reg
<1>5. CASE reg.root # <<>>
  <2>1. PICK path \in Roots :
          /\ reg.root = path
          /\ reg.tree \in RebasedTrees(first, leaf, path)
          /\ \A i \in DOMAIN d.lazy : reg.fields[i].prim = ReplacePrefix(d.lazy[i].prim, leaf, path)
    BY <1>5, RegisteredOf
  <2>2. path \in Paths /\ path # <<>>
    BY RootPath
  <2>3. \A p \in d.tree \cup {d.lazy[i].prim : i \in DOMAIN d.lazy} :
          IsPrefix(path, p) => IsPrefix(leaf, p)
    <3> HIDE DEF reg, leaf
    <3> QED
      BY <1>2, <1>3, <1>5, <2>1 DEF Displaces, reg
  <2> HIDE DEF reg, leaf, first
  <2>4. CASE d.lazy = <<>>
    BY <2>4 DEF reg
  <2>5. CASE d.lazy # <<>>
    <3>1. PICK x \in AllNames : leaf = <<x>>
      BY <2>5, LeafOf DEF leaf
    <3>2. \A i \in DOMAIN d.lazy : IsPrefix(leaf, d.lazy[i].prim) <=> d.lazy[i].prim[1] = x
      BY <1>1, <3>1, UnderRoot DEF Paths
    <3>3. ASSUME NEW i \in DOMAIN d.lazy, d.lazy[i].prim \in d.tree
          PROVE  /\ reg.fields[i].prim \in DOMAIN reg.tree
                 /\ reg.tree[reg.fields[i].prim] = d.lazy[i].prim
      <4>1. d.lazy[i].prim[1] = x \/ ~IsPrefix(path, d.lazy[i].prim)
        BY <2>3, <3>2, <3>3
      <4>2. reg.tree \in RebasedTrees(first, <<x>>, path)
        BY <2>1, <3>1
      <4>3. reg.fields[i].prim = ReplacePrefix(d.lazy[i].prim, <<x>>, path)
        BY <2>1, <3>1
      <4>4. /\ ReplacePrefix(d.lazy[i].prim, <<x>>, path) \in DOMAIN reg.tree
            /\ reg.tree[ReplacePrefix(d.lazy[i].prim, <<x>>, path)] = d.lazy[i].prim
        BY <3>3, <4>1, <4>2, TreeFollows DEF first
      <4> QED
        BY <4>3, <4>4
    <3>4. \A i \in DOMAIN d.lazy :
            \/ /\ d.lazy[i].prim[1] = x
               /\ reg.fields[i].prim = path \o Below1(d.lazy[i].prim)
               /\ IsPrefix(path, reg.fields[i].prim)
            \/ /\ d.lazy[i].prim[1] # x
               /\ reg.fields[i].prim = d.lazy[i].prim
               /\ ~IsPrefix(path, reg.fields[i].prim)
      <4> SUFFICES ASSUME NEW i \in DOMAIN d.lazy
                   PROVE  \/ /\ d.lazy[i].prim[1] = x
                             /\ reg.fields[i].prim = path \o Below1(d.lazy[i].prim)
                             /\ IsPrefix(path, reg.fields[i].prim)
                          \/ /\ d.lazy[i].prim[1] # x
                             /\ reg.fields[i].prim = d.lazy[i].prim
                             /\ ~IsPrefix(path, reg.fields[i].prim)
        OBVIOUS
      <4> DEFINE p == d.lazy[i].prim
      <4>1. p \in Seq(AllNames) /\ p # <<>> /\ path \in Seq(AllNames)
        BY <1>1, <2>2 DEF Paths
      <4>2. reg.fields[i].prim = ReplacePrefix(p, <<x>>, path)
        BY <2>1, <3>1
      <4> HIDE DEF p
      <4>3. CASE p[1] = x
        <5>1. /\ ReplacePrefix(p, <<x>>, path) = path \o Below1(p)
              /\ IsPrefix(path, path \o Below1(p))
          BY <4>1, <4>3, MovedPath
        <5> QED
          BY <4>2, <4>3, <5>1 DEF p
      <4>4. CASE p[1] # x
        <5>1. ~IsPrefix(<<x>>, p)
          BY <3>1, <3>2, <4>4 DEF p
        <5>2. ReplacePrefix(p, <<x>>, path) = p
          BY <5>1 DEF ReplacePrefix
        <5>3. ~IsPrefix(path, p)
          BY <2>3, <3>1, <5>1 DEF p
        <5> QED
          BY <4>2, <4>4, <5>2, <5>3 DEF p
      <4> QED
        BY <4>3, <4>4
    <3>5. ASSUME NEW i \in DOMAIN d.lazy, NEW j \in DOMAIN d.lazy,
                 reg.fields[i].prim = reg.fields[j].prim
          PROVE  d.lazy[i].prim = d.lazy[j].prim
      <4>1. CASE d.lazy[i].prim[1] = x /\ d.lazy[j].prim[1] = x
        <5> DEFINE p == d.lazy[i].prim
                   q == d.lazy[j].prim
        <5>1. /\ p \in Seq(AllNames) /\ q \in Seq(AllNames) /\ p # <<>> /\ q # <<>>
              /\ path \in Seq(AllNames) /\ p[1] = q[1] /\ path \o Below1(p) = path \o Below1(q)
          BY <1>1, <2>2, <3>4, <3>5, <4>1 DEF Paths
        <5> HIDE DEF p, q
        <5>2. p = q
          BY <5>1, MovedApart
        <5> QED
          BY <5>2 DEF p, q
      <4>2. CASE d.lazy[i].prim[1] # x /\ d.lazy[j].prim[1] # x
        BY <3>4, <3>5, <4>2
      <4> QED
        BY <3>4, <3>5, <4>1, <4>2
    <3> QED
      BY <1>2, <3>3, <3>5 DEF reg
  <2> QED
    BY <2>4, <2>5
<1> QED
  BY <1>4, <1>5

-----------------------------------------------------------------------------
(* The order of samples.                                                   *)

\* The numbers of a list are bounded.
LEMMA Bounded ==
  ASSUME NEW times \in Seq(Nat)
  PROVE  \E b \in Nat : \A i \in DOMAIN times : times[i] <= b
<1> DEFINE Bound(k, b) == \A i \in 1..k : times[i] <= b
           HasBound(k) == \E b \in Nat : Bound(k, b)
           S == {k \in Nat : k <= Len(times) /\ ~HasBound(k)}
<1>0. Len(times) \in Nat /\ DOMAIN times = 1..Len(times)
      /\ \A i \in 1..Len(times) : times[i] \in Nat
  OBVIOUS
<1>1. ASSUME S # {}
      PROVE  FALSE
  <2>1. S \subseteq Nat
    OBVIOUS
  <2> HIDE DEF S
  <2>2. PICK k \in S : \A m \in S : k <= m
    BY <1>1, <2>1, LeastElement
  <2>3. k \in Nat /\ k <= Len(times) /\ ~HasBound(k)
    BY DEF S
  <2>4. k # 0
    <3>1. Bound(0, 0)
      OBVIOUS
    <3> QED
      BY <2>3, <3>1
  <2>5. HasBound(k - 1)
    <3>1. k - 1 \in Nat /\ k - 1 <= Len(times) /\ ~(k <= k - 1)
      BY <1>0, <2>3, <2>4
    <3>2. k - 1 \notin S
      BY <2>2, <3>1
    <3> HIDE DEF HasBound
    <3> QED
      BY <3>1, <3>2 DEF S
  <2>6. PICK b \in Nat : Bound(k - 1, b)
    BY <2>5
  <2>7. times[k] \in Nat
    BY <1>0, <2>3, <2>4
  <2>8. PICK c \in Nat : b <= c /\ times[k] <= c
    BY <2>7
  <2>9. Bound(k, c)
    <3> SUFFICES ASSUME NEW i \in 1..k
                 PROVE  times[i] <= c
      OBVIOUS
    <3>1. CASE i = k
      BY <2>8, <3>1
    <3>2. CASE i # k
      <4>1. i \in 1..(k - 1)
        BY <2>3, <3>2
      <4>2. times[i] <= b /\ times[i] \in Nat
        BY <1>0, <2>3, <2>6, <4>1
      <4> QED
        BY <2>8, <4>2
    <3> QED
      BY <3>1, <3>2
  <2> QED
    BY <2>3, <2>8, <2>9
<1>2. HasBound(Len(times))
  <2> HIDE DEF HasBound
  <2>1. Len(times) \notin S
    BY <1>1
  <2> QED
    BY <1>0, <2>1
<1> QED
  BY <1>0, <1>2

\* The places of the times up to one, and of those before it.
LEMMA Places ==
  ASSUME NEW times \in Seq(Nat), NEW J \in SUBSET DOMAIN times
  PROVE  /\ Cardinality(J) \in Nat /\ Cardinality(J) <= Len(times)
         /\ \A K \in SUBSET J : /\ Cardinality(K) <= Cardinality(J)
                                /\ K # J => Cardinality(K) < Cardinality(J)
<1>1. DOMAIN times = 1..Len(times) /\ Len(times) \in Nat
  OBVIOUS
<1> QED
  BY <1>1, PartCount

\* Sorting: the same times, in order.
LEMMA SortedOf ==
  ASSUME NEW times \in Seq(Nat)
  PROVE  TimeSamplesAreSorted(Sorted(times)) /\ ToSet(Sorted(times)) = ToSet(times)
<1> DEFINE Upto(t) == {j \in DOMAIN times : times[j] <= t}
           Below(t) == {j \in DOMAIN times : times[j] < t}
           Fits(i, t) == Cardinality(Below(t)) < i /\ i <= Cardinality(Upto(t))
           C(X) == Cardinality(X)
<1>1. /\ \A i \in DOMAIN times : times[i] \in Nat
      /\ DOMAIN times = 1..Len(times) /\ Len(times) \in Nat
  OBVIOUS
<1>2. \A t \in Nat : Upto(t) \in SUBSET DOMAIN times /\ Below(t) \in SUBSET Upto(t)
                     /\ Below(t) \in SUBSET DOMAIN times
  BY <1>1
<1>3. \A t, u \in Nat : t < u => Upto(t) \in SUBSET Below(u)
  BY <1>1
<1>4. \A t \in Nat : C(Upto(t)) \in Nat /\ C(Below(t)) \in Nat /\ C(Upto(t)) <= Len(times)
  BY <1>2, Places
<1>5. \A t, u \in Nat : t < u => C(Upto(t)) <= C(Below(u))
  BY <1>2, <1>3, Places
<1>6. ASSUME NEW t \in ToSet(times)
      PROVE  t \in Nat /\ C(Below(t)) < C(Upto(t))
  <2>1. PICK j \in DOMAIN times : times[j] = t
    BY <1>6 DEF ToSet
  <2>2. j \in Upto(t) /\ j \notin Below(t) /\ t \in Nat
    BY <1>1, <2>1
  <2>3. Below(t) # Upto(t)
    BY <2>2
  <2> HIDE DEF Upto, Below
  <2> QED
    BY <1>2, <2>2, <2>3, Places
<1> HIDE DEF Upto, Below
<1>7. ASSUME NEW i \in DOMAIN times
      PROVE  \E t \in ToSet(times) : Fits(i, t)
  <2> DEFINE T == {t \in Nat : i <= C(Upto(t))}
  <2>0. i \in Nat /\ i >= 1 /\ i <= Len(times)
    BY <1>1
  <2>1. T # {}
    <3>1. PICK b \in Nat : \A j \in DOMAIN times : times[j] <= b
      BY Bounded
    <3>2. Upto(b) = 1..Len(times)
      BY <1>1, <3>1 DEF Upto
    <3>3. C(Upto(b)) = Len(times)
      <4>1. Len(times) \in Nat
        OBVIOUS
      <4> QED
        BY <3>2, <4>1, IntervalCount
    <3>4. i <= Len(times)
      OBVIOUS
    <3> QED
      BY <3>1, <3>3, <3>4
  <2>2. PICK t \in T : \A u \in T : t <= u
    BY <2>1, LeastElement
  <2>3. C(Below(t)) < i
    <3>1. CASE t = 0
      <4>1. Below(t) = {}
        BY <1>1, <3>1 DEF Below
      <4> QED
        BY <2>0, <4>1, FS_EmptySet
    <3>2. CASE t # 0
      <4>1. t - 1 \in Nat /\ t - 1 \notin T
        BY <2>2, <3>2
      <4>2. Below(t) = Upto(t - 1)
        BY <1>1, <4>1 DEF Below, Upto
      <4>3. ~(i <= C(Upto(t - 1))) /\ C(Upto(t - 1)) \in Nat
        BY <1>4, <4>1
      <4> QED
        BY <2>0, <4>2, <4>3
    <3> QED
      BY <3>1, <3>2
  <2>4. t \in ToSet(times)
    <3>1. Upto(t) # Below(t)
      BY <1>4, <2>0, <2>2, <2>3
    <3>2. PICK j \in DOMAIN times : times[j] = t
      BY <1>1, <2>2, <3>1 DEF Below, Upto
    <3> QED
      BY <3>2 DEF ToSet
  <2> QED
    BY <2>2, <2>3, <2>4
<1> DEFINE sorted == Sorted(times)
<1>8. DOMAIN sorted = DOMAIN times /\ \A i \in DOMAIN times :
        sorted[i] = CHOOSE t \in ToSet(times) : Fits(i, t)
  BY DEF Sorted, Upto, Below
<1>9. \A i \in DOMAIN times : sorted[i] \in ToSet(times) /\ Fits(i, sorted[i])
  BY <1>7, <1>8
<1> HIDE DEF sorted
<1>10. ASSUME NEW i \in DOMAIN times, NEW j \in DOMAIN times, i <= j
       PROVE  sorted[i] <= sorted[j]
  <2>1. sorted[i] \in Nat /\ sorted[j] \in Nat
    BY <1>6, <1>9
  <2>2. ~(sorted[j] < sorted[i])
    <3> SUFFICES ASSUME sorted[j] < sorted[i]
                 PROVE  FALSE
      OBVIOUS
    <3>1. C(Upto(sorted[j])) <= C(Below(sorted[i]))
      BY <1>5, <2>1
    <3>2. C(Below(sorted[i])) < i /\ j <= C(Upto(sorted[j]))
      BY <1>9
    <3>3. C(Upto(sorted[j])) \in Nat /\ C(Below(sorted[i])) \in Nat
      BY <1>4, <2>1
    <3>4. i \in Nat /\ j \in Nat
      BY <1>1
    <3> HIDE DEF C
    <3> QED
      BY <1>10, <3>1, <3>2, <3>3, <3>4
  <2> QED
    BY <2>1, <2>2
<1>11. ASSUME NEW t \in ToSet(times)
       PROVE  \E i \in DOMAIN times : sorted[i] = t
  <2> DEFINE i == C(Below(t)) + 1
  <2>1. i \in DOMAIN times
    BY <1>4, <1>6
  <2>2. sorted[i] \in Nat /\ t \in Nat
    BY <1>6, <1>9, <2>1
  <2>3. C(Below(sorted[i])) < i /\ i <= C(Upto(sorted[i])) /\ i <= C(Upto(t))
    BY <1>4, <1>6, <1>9, <2>1, <2>2
  <2>4. /\ C(Upto(sorted[i])) \in Nat /\ C(Below(sorted[i])) \in Nat
        /\ C(Upto(t)) \in Nat /\ C(Below(t)) \in Nat
        /\ sorted[i] < t => C(Upto(sorted[i])) <= C(Below(t))
        /\ t < sorted[i] => C(Upto(t)) <= C(Below(sorted[i]))
    BY <1>4, <1>5, <2>2
  <2>5. sorted[i] = t
    <3> HIDE DEF C
    <3>1. i = C(Below(t)) + 1
      OBVIOUS
    <3> HIDE DEF i
    <3> QED
      BY <2>2, <2>3, <2>4, <3>1
  <2> QED
    BY <2>1, <2>5
<1>12. TimeSamplesAreSorted(sorted)
  BY <1>8, <1>10 DEF TimeSamplesAreSorted
<1>13. ToSet(sorted) = ToSet(times)
  <2>1. \A t \in ToSet(sorted) : t \in ToSet(times)
    BY <1>8, <1>9 DEF ToSet
  <2>2. \A t \in ToSet(times) : t \in ToSet(sorted)
    BY <1>8, <1>11 DEF ToSet
  <2> QED
    BY <2>1, <2>2
<1> QED
  BY <1>12, <1>13 DEF sorted

\* The samples of a field as they are registered.
LEMMA RegisteredTimesOf ==
  ASSUME NEW field, field.times \in Seq(Nat)
  PROVE  /\ TimeSamplesAreSorted(RegisteredTimes(field))
         /\ ToSet(RegisteredTimes(field)) = IF field.times = <<>> THEN {0} ELSE ToSet(field.times)
<1>1. CASE field.times = <<>>
  <2>1. RegisteredTimes(field) = <<0>>
    BY <1>1 DEF RegisteredTimes
  <2> QED
    BY <1>1, <2>1 DEF TimeSamplesAreSorted, ToSet
<1>2. CASE field.times # <<>>
  BY <1>2, SortedOf DEF RegisteredTimes
<1> QED
  BY <1>1, <1>2

\* The content of a read is under its mount path.
LEMMA ContentOf ==
  ASSUME NEW d \in Declared, NEW read \in Placements(d)
  PROVE  LET reg == Registered(read) IN
         /\ reg.root # <<>> /\ (d.default # None \/ d.lazy # <<>>) =>
              /\ reg.default = Head(reg.root)
              /\ \/ reg.root \in DOMAIN reg.tree
                 \/ \E i \in DOMAIN reg.fields : IsPrefix(reg.root, reg.fields[i].prim)
         /\ reg.root = <<>> => reg.default = d.default
         /\ \A i \in DOMAIN reg.fields :
              /\ TimeSamplesAreSorted(reg.fields[i].times)
              /\ ToSet(reg.fields[i].times) =
                   IF d.lazy[i].times = <<>> THEN {0} ELSE ToSet(d.lazy[i].times)
<1> DEFINE Fields == [prim : Paths \ {<<>>}, attr : Names, token : BOOLEAN, times : Seq(Nat)]
           leaf == PythonLeaf(Authored(d))
           first == [p \in d.tree |-> p]
           reg == Registered(read)
<1>1. \A i \in DOMAIN d.lazy :
        /\ d.lazy[i].prim \in Paths /\ d.lazy[i].prim # <<>>
        /\ d.lazy[i].times \in Seq(Nat)
  <2>1. d.lazy \in Seq(Fields)
    BY DEF Declared
  <2>2. \A i \in DOMAIN d.lazy : d.lazy[i] \in Fields
    <3> HIDE DEF Fields
    <3> QED
      BY <2>1, ElementOfSeq
  <2> QED
    BY <2>2
<1>2. /\ DOMAIN reg.fields = DOMAIN d.lazy
      /\ \A i \in DOMAIN d.lazy : reg.fields[i].times = RegisteredTimes(d.lazy[i])
  BY RegisteredOf
<1>3. \A i \in DOMAIN reg.fields :
        /\ TimeSamplesAreSorted(reg.fields[i].times)
        /\ ToSet(reg.fields[i].times) =
             IF d.lazy[i].times = <<>> THEN {0} ELSE ToSet(d.lazy[i].times)
  BY <1>1, <1>2, RegisteredTimesOf
<1>4. reg.root = <<>> => reg.default = d.default
  <2>1. CASE reg.root = <<>>
    <3>1. reg.tree = first /\ reg.default = d.default
      BY <2>1, RegisteredOf, RootPath
    <3> QED
      BY <3>1
  <2> QED
    BY <2>1
<1>5. ASSUME reg.root # <<>>, d.default # None \/ d.lazy # <<>>
      PROVE  /\ reg.default = Head(reg.root)
             /\ \/ reg.root \in DOMAIN reg.tree
                \/ \E i \in DOMAIN reg.fields : IsPrefix(reg.root, reg.fields[i].prim)
  <2>1. PICK path \in Roots :
          /\ reg.root = path /\ reg.default = Head(path)
          /\ reg.tree \in RebasedTrees(first, leaf, path)
          /\ \A i \in DOMAIN d.lazy : reg.fields[i].prim = ReplacePrefix(d.lazy[i].prim, leaf, path)
    BY <1>5, RegisteredOf
  <2>2. path \in Seq(AllNames) /\ path # <<>>
    BY RootPath DEF Paths
  <2>3. PICK x \in AllNames : /\ leaf = <<x>>
                              /\ d.default # None => <<x>> \in d.tree
                              /\ d.default = None => d.lazy # <<>> /\ d.lazy[1].prim[1] = x
    BY <1>5, LeafOf
  <2> HIDE DEF reg, leaf, first
  <2>4. CASE d.default # None
    <3>1. <<x>> \in d.tree /\ <<x>>[1] = x /\ <<x>> \in Seq(AllNames) /\ <<x>> # <<>>
      BY <2>3, <2>4
    <3>2. ReplacePrefix(<<x>>, <<x>>, path) \in DOMAIN reg.tree
      BY <2>1, <2>3, <3>1, TreeFollows DEF first
    <3>3. ReplacePrefix(<<x>>, <<x>>, path) = path
      <4>1. ReplacePrefix(<<x>>, <<x>>, path) = path \o Below1(<<x>>)
        BY <2>2, <3>1, MovedPath
      <4>2. Below1(<<x>>) = <<>>
        BY SubSeqEmpty DEF Below1
      <4> QED
        BY <2>2, <4>1, <4>2
    <3> QED
      BY <2>1, <3>2, <3>3
  <2>5. CASE d.default = None
    <3>1. d.lazy # <<>> /\ d.lazy[1].prim[1] = x
      BY <2>3, <2>5
    <3>2. 1 \in DOMAIN d.lazy
      <4>1. d.lazy \in Seq(Fields)
        BY DEF Declared
      <4> HIDE DEF Fields
      <4> QED
        BY <3>1, <4>1
    <3> DEFINE p == d.lazy[1].prim
    <3>3. p \in Seq(AllNames) /\ p # <<>> /\ p[1] = x
      BY <1>1, <3>1, <3>2 DEF Paths
    <3>4. reg.fields[1].prim = ReplacePrefix(p, <<x>>, path)
      BY <2>1, <2>3, <3>2
    <3> HIDE DEF p
    <3>5. /\ ReplacePrefix(p, <<x>>, path) = path \o Below1(p)
          /\ IsPrefix(path, path \o Below1(p))
      BY <2>2, <3>3, MovedPath
    <3>6. IsPrefix(path, reg.fields[1].prim)
      BY <3>4, <3>5
    <3> QED
      BY <1>2, <2>1, <3>2, <3>6 DEF reg
  <2> QED
    BY <2>4, <2>5
<1> QED
  BY <1>3, <1>4, <1>5

-----------------------------------------------------------------------------
\* Results of callbacks, named after the local file, are declarations.
LEMMA NamedPath ==
  ASSUME NEW y, NEW p \in Seq(Names), p # <<>>
  PROVE  /\ Named(p, y) \in Paths /\ Named(p, y) # <<>>
         /\ <<Named(p, y)[1]>> = Named(<<p[1]>>, y)
<1> DEFINE name == IF p[1] = "stem" THEN LocalName(root[y]) ELSE p[1]
<1>1. p[1] \in Names /\ 1 \in 1..Len(p)
  BY ElementOfSeq
<1>2. p \in Seq(AllNames) /\ name \in AllNames
  BY <1>1, LocalNames DEF AllNames
<1>3. Named(p, y) = [p EXCEPT ![1] = name]
  BY <1>1 DEF Named
<1>4. Named(p, y) \in Seq(AllNames) /\ Len(Named(p, y)) = Len(p) /\ Named(p, y)[1] = name
  <2> HIDE DEF name
  <2>1. [p EXCEPT ![1] = name] \in Seq(AllNames) /\ Len([p EXCEPT ![1] = name]) = Len(p)
        /\ [p EXCEPT ![1] = name][1] = name
    BY <1>1, <1>2, ExceptSeq
  <2> QED
    BY <1>3, <2>1
<1>5. Named(<<p[1]>>, y) = <<name>>
  BY DEF Named
<1> QED
  BY <1>1, <1>4, <1>5 DEF Paths

\* A result keeps its shape when its root is named after the file.
LEMMA NamedDeclared ==
  ASSUME NEW y, NEW result \in Results
  PROVE  NamedResult(result, y) \in Declared
<1> DEFINE d == NamedResult(result, y)
           Fields == [prim : Paths \ {<<>>}, attr : Names, token : BOOLEAN, times : Seq(Nat)]
<1>1. /\ result \in [tree : SUBSET Seq(Names), default : Names \cup {None}, lazy : Seq(LazyField)]
      /\ result.default # None => <<result.default>> \in result.tree
      /\ \A p \in result.tree : p # <<>> /\ \A n \in 1..Len(p) : SubSeq(p, 1, n) \in result.tree
      /\ None \notin AllNames
  BY PythonAssumption DEF AllNames
<1>2. \A p \in result.tree : p \in Seq(Names) /\ p # <<>>
  BY <1>1
<1>3. ASSUME NEW p \in result.tree
      PROVE  <<p[1]>> \in result.tree
  <2>1. p \in Seq(Names) /\ Len(p) \in Nat /\ Len(p) >= 1
    BY <1>2
  <2>2. SubSeq(p, 1, 1) \in result.tree
    BY <1>1, <2>1
  <2>3. SubSeq(p, 1, 1) = <<p[1]>>
    <3>1. SubSeq(p, 1, 1) \in Seq(Names) /\ Len(SubSeq(p, 1, 1)) = 1
          /\ SubSeq(p, 1, 1)[1] = p[1]
      BY <2>1
    <3>2. <<p[1]>> \in Seq(Names) /\ Len(<<p[1]>>) = 1 /\ <<p[1]>>[1] = p[1]
      BY <2>1
    <3>3. \A i \in 1..Len(SubSeq(p, 1, 1)) : SubSeq(p, 1, 1)[i] = <<p[1]>>[i]
      BY <3>1, <3>2
    <3>4. Len(SubSeq(p, 1, 1)) = Len(<<p[1]>>)
      BY <3>1, <3>2
    <3> QED
      BY <3>1, <3>2, <3>3, <3>4, SeqEqual
  <2> QED
    BY <2>2, <2>3
<1>4. d.tree \in SUBSET (Paths \ {<<>>}) /\ \A p \in d.tree : <<p[1]>> \in d.tree
  <2>1. d.tree = {Named(p, y) : p \in result.tree}
    BY DEF NamedResult
  <2>2. ASSUME NEW p \in result.tree
        PROVE  /\ Named(p, y) \in Paths \ {<<>>}
               /\ <<Named(p, y)[1]>> \in {Named(q, y) : q \in result.tree}
    <3>1. p \in Seq(Names) /\ p # <<>> /\ <<p[1]>> \in result.tree
      BY <1>2, <1>3
    <3>2. /\ Named(p, y) \in Paths /\ Named(p, y) # <<>>
          /\ <<Named(p, y)[1]>> = Named(<<p[1]>>, y)
      BY <3>1, NamedPath
    <3> QED
      BY <3>1, <3>2
  <2> HIDE DEF d
  <2> QED
    BY <2>1, <2>2
<1>5. d.default \in AllNames \cup {None} /\ (d.default # None => <<d.default>> \in d.tree)
  <2>1. CASE result.default = None
    BY <2>1 DEF NamedResult
  <2>2. CASE result.default # None
    <3>1. <<result.default>> \in result.tree
      BY <1>1, <2>2
    <3>2. d.default = Named(<<result.default>>, y)[1]
      BY <2>2 DEF NamedResult
    <3>3. <<result.default>>[1] = result.default
      OBVIOUS
    <3>4. <<d.default>> = Named(<<result.default>>, y)
      BY <1>2, <3>1, <3>2, <3>3, NamedPath
    <3>5. Named(<<result.default>>, y) \in d.tree
      BY <3>1 DEF NamedResult
    <3>6. <<d.default>> \in Seq(AllNames)
      BY <1>2, <3>1, <3>4, NamedPath DEF Paths
    <3>7. d.default \in AllNames
      <4> DEFINE one == <<d.default>>
      <4>1. Len(one) = 1 /\ one[1] = d.default
        OBVIOUS
      <4>2. one \in Seq(AllNames)
        BY <3>6
      <4> HIDE DEF one
      <4>3. one[1] \in AllNames
        BY <4>1, <4>2, ElementOfSeq
      <4> QED
        BY <4>1, <4>3
    <3> QED
      BY <3>4, <3>5, <3>7
  <2> QED
    BY <2>1, <2>2
<1>6. d.lazy \in Seq(Fields)
  <2>1. result.lazy \in Seq(LazyField)
    BY <1>1
  <2>2. ASSUME NEW i \in 1..Len(result.lazy)
        PROVE  [result.lazy[i] EXCEPT !.prim = Named(@, y)] \in Fields
    <3>1. result.lazy[i] \in LazyField
      BY <2>1, ElementOfSeq
    <3>2. result.lazy[i].prim \in Seq(Names) /\ result.lazy[i].prim # <<>>
      BY <3>1 DEF LazyField
    <3>3. Named(result.lazy[i].prim, y) \in Paths \ {<<>>}
      BY <3>2, NamedPath
    <3> QED
      BY <3>1, <3>3 DEF LazyField
  <2>3. d.lazy = [i \in 1..Len(result.lazy) |-> [result.lazy[i] EXCEPT !.prim = Named(@, y)]]
    BY <2>1 DEF NamedResult
  <2>4. Len(result.lazy) \in Nat
    BY <2>1
  <2> HIDE DEF Fields, d
  <2> QED
    BY <2>2, <2>3, <2>4
<1>7. d \in [tree : SUBSET (Paths \ {<<>>}), default : AllNames \cup {None}, lazy : Seq(Fields)]
  <2>1. d = [tree |-> d.tree, default |-> d.default, lazy |-> d.lazy]
    BY DEF NamedResult
  <2> HIDE DEF d, Fields
  <2> QED
    BY <1>4, <1>5, <1>6, <2>1
<1> HIDE DEF d
<1> QED
  BY <1>4, <1>5, <1>7 DEF d, Declared

-----------------------------------------------------------------------------
(* The invariant of python reads.                                          *)

\* Steps that all readers have: where they lead.
LEMMA SharedMoves ==
  ASSUME NEW y \in Layers, pc \in [Layers -> PCs], CallStep(y)
  PROVE  /\ pc' = [pc EXCEPT ![y] = pc'[y]]
         /\ pc'[y] \in PythonPCs => pc[y] = "keep_alive" /\ pc'[y] = "commit"
<1> USE DEF Goto, PythonPCs
<1>1. CASE \E argument \in MountArguments : BeginRead(y, argument)
  BY <1>1 DEF BeginRead
<1>2. CASE BeginCanRead(y)
  BY <1>2 DEF BeginCanRead
<1>3. CASE OpenFails(y) \/ CreateFails(y) \/ CopyFails(y) \/ Probe(y)
  <2>1. Goto(y, "failed")
    BY <1>3 DEF OpenFails, CreateFails, CopyFails, Probe, UnwindOwned, UnwindCopy, Unwind
  <2> QED
    BY <2>1
<1>4. CASE OpenInPlace(y) \/ CloseOutput(y)
  <2>1. Goto(y, AfterOpen(y)) /\ AfterOpen(y) \notin PythonPCs
    BY <1>4 DEF OpenInPlace, CloseOutput, AfterOpen
  <2> QED
    BY <2>1
<1>5. CASE MakeTmpSubdir(y)
  BY <1>5 DEF MakeTmpSubdir
<1>6. CASE CreateOutput(y)
  BY <1>6 DEF CreateOutput
<1>7. CASE CopyChunk(y)
  BY <1>7 DEF CopyChunk
<1>8. CASE KeepAlive(y)
  BY <1>8 DEF KeepAlive
<1>9. CASE Return(y)
  BY <1>9 DEF Return
<1>10. CASE CloseLayer(y)
  BY <1>10 DEF CloseLayer
<1> QED
  BY <1>1, <1>2, <1>3, <1>4, <1>5, <1>6, <1>7, <1>8, <1>9, <1>10 DEF CallStep

\* A mount path that resolves is a root.
LEMMA RootPathsOf ==
  \A prim : RootPaths(prim) \subseteq Roots
  BY DEF RootPaths, Roots

\* What a step of a python read makes of it.
LEMMA PythonStepOf ==
  ASSUME NEW y \in Layers, pc \in [Layers -> PCs], python = [z \in Layers |-> python[z]],
         ReadInv(y), reader[y] # "native", PythonStep(y)
  PROVE  /\ pc' = [pc EXCEPT ![y] = pc'[y]]
         /\ python' = [python EXCEPT ![y] = python'[y]]
         /\ reader' = reader
         /\ pc'[y] \in PythonPCs =>
              \E d \in Declared :
                /\ pc'[y] \in {"manifest", "rebase"} => python'[y] = Authored(d)
                /\ pc'[y] = "register" => python'[y] \in Placements(d)
                /\ pc'[y] \in {"keep_alive", "commit", "succeeded"} =>
                     \E read \in Placements(d) : python'[y] = Registered(read)
<1>1. ASSUME UnwindOwned(y), UNCHANGED reader, python' = [python EXCEPT ![y] = python'[y]]
      PROVE  /\ pc' = [pc EXCEPT ![y] = pc'[y]] /\ pc'[y] \notin PythonPCs
             /\ reader' = reader
  BY <1>1 DEF UnwindOwned, Unwind, Goto, PythonPCs
<1>2. CASE CallbackRaises(y)
  <2>1. UnwindOwned(y) /\ UNCHANGED pythonVars
    BY <1>2 DEF CallbackRaises
  <2>2. python' = [python EXCEPT ![y] = python'[y]]
    BY <2>1 DEF pythonVars
  <2> QED
    BY <1>1, <2>1, <2>2 DEF pythonVars
<1>3. CASE \E result \in Results : CallRead(y, result)
  <2>1. PICK result \in Results : CallRead(y, result)
    BY <1>3
  <2> DEFINE d == NamedResult(result, y)
  <2>2. d \in Declared
    BY NamedDeclared
  <2>3. python' = [python EXCEPT ![y] = Authored(d)] /\ reader' = reader
    BY <2>1 DEF CallRead, Authored
  <2> HIDE DEF d
  <2>4. python'[y] = Authored(d) /\ python' = [python EXCEPT ![y] = python'[y]]
    BY <2>3
  <2>5. pc'[y] = "manifest" /\ pc' = [pc EXCEPT ![y] = pc'[y]]
    BY <2>1 DEF CallRead, Goto
  <2> QED
    BY <2>2, <2>3, <2>4, <2>5
<1>9. CASE ResultIsRefused(y)
  <2>1. UnwindOwned(y) /\ UNCHANGED pythonVars
    BY <1>9 DEF ResultIsRefused
  <2>2. python' = [python EXCEPT ![y] = python'[y]]
    BY <2>1 DEF pythonVars
  <2> QED
    BY <1>1, <2>1, <2>2 DEF pythonVars
<1>10. CASE ResultIsParsed(y)
  <2>1. pc[y] = "manifest" /\ Goto(y, "rebase") /\ python' = python /\ reader' = reader
    BY <1>10 DEF ResultIsParsed, pythonVars
  <2>2. PICK d \in Declared : python[y] = Authored(d)
    BY <2>1 DEF ReadInv, PythonPCs
  <2>3. pc'[y] = "rebase" /\ pc' = [pc EXCEPT ![y] = pc'[y]]
    BY <2>1 DEF Goto
  <2>4. python' = [python EXCEPT ![y] = python'[y]]
    BY <2>1
  <2> QED
    BY <2>1, <2>2, <2>3, <2>4
<1>4. CASE RebaseNothing(y)
  <2>1. pc[y] = "rebase" /\ Goto(y, "register") /\ python' = python /\ reader' = reader
    BY <1>4 DEF RebaseNothing, pythonVars
  <2>2. PICK d \in Declared : python[y] = Authored(d)
    BY <2>1 DEF ReadInv, PythonPCs
  <2>3. pc'[y] = "register" /\ pc' = [pc EXCEPT ![y] = pc'[y]]
    BY <2>1 DEF Goto
  <2>4. python'[y] \in Placements(d) /\ python' = [python EXCEPT ![y] = python'[y]]
    BY <2>1, <2>2 DEF Placements
  <2> QED
    BY <2>1, <2>3, <2>4
<1>5. CASE RebaseFails(y)
  <2>1. UnwindOwned(y) /\ UNCHANGED pythonVars
    BY <1>5 DEF RebaseFails
  <2>2. python' = [python EXCEPT ![y] = python'[y]]
    BY <2>1 DEF pythonVars
  <2> QED
    BY <1>1, <2>1, <2>2 DEF pythonVars
<1>6. CASE RebasePythonReadResult(y)
  <2>1. pc[y] = "rebase" /\ Goto(y, "register") /\ reader' = reader
    BY <1>6 DEF RebasePythonReadResult
  <2>2. PICK d \in Declared : python[y] = Authored(d)
    BY <2>1 DEF ReadInv, PythonPCs
  <2> DEFINE leaf == PythonLeaf(python[y])
             Rebased(path, tree) ==
               [python EXCEPT ![y] =
                  [declared |-> @.declared, default |-> Head(path), tree |-> tree,
                   fields |-> [i \in DOMAIN @.fields |-> RebaseField(@.fields[i], leaf, path)],
                   root |-> path]]
  <2>3. \E prim : \E path \in RootPaths(prim) :
          \E tree \in RebasedTrees(python[y].tree, leaf, path) : python' = Rebased(path, tree)
    BY <1>6 DEF RebasePythonReadResult
  <2>4. PICK path \in Roots :
          \E tree \in RebasedTrees(python[y].tree, leaf, path) : python' = Rebased(path, tree)
    BY <2>3, RootPathsOf
  <2>5. PICK tree \in RebasedTrees(python[y].tree, leaf, path) : python' = Rebased(path, tree)
    BY <2>4
  <2>6. /\ python[y].declared = d /\ python[y].tree = [p \in d.tree |-> p]
        /\ python[y].fields = d.lazy /\ leaf = PythonLeaf(Authored(d))
    BY <2>2 DEF Authored
  <2>7. python'[y] = Mounted(d, path, tree)
    <3>1. python'[y] = [declared |-> python[y].declared, default |-> Head(path), tree |-> tree,
                        fields |-> [i \in DOMAIN python[y].fields |->
                                      RebaseField(python[y].fields[i], leaf, path)],
                        root |-> path]
      BY <2>5
    <3> HIDE DEF leaf
    <3> QED
      BY <2>6, <3>1 DEF Mounted
  <2>8. python'[y] \in Placements(d)
    <3>1. tree \in RebasedTrees([p \in d.tree |-> p], PythonLeaf(Authored(d)), path)
      <4> HIDE DEF leaf
      <4> QED
        BY <2>6
    <3>2. Mounted(d, path, tree) \in Placements(d)
      BY <3>1 DEF Placements
    <3> QED
      BY <2>7, <3>2
  <2>9. python' = [python EXCEPT ![y] = python'[y]]
    BY <2>5
  <2>10. pc'[y] = "register" /\ pc' = [pc EXCEPT ![y] = pc'[y]]
    BY <2>1 DEF Goto
  <2> QED
    BY <2>1, <2>8, <2>9, <2>10
<1>7. CASE RegisterPythonLazyFields(y)
  <2>1. pc[y] = "register" /\ Goto(y, "keep_alive") /\ reader' = reader
    BY <1>7 DEF RegisterPythonLazyFields
  <2>2. PICK d \in Declared : python[y] \in Placements(d)
    BY <2>1 DEF ReadInv, PythonPCs
  <2>3. python' = [python EXCEPT ![y].fields =
                  [i \in DOMAIN @ |-> [@[i] EXCEPT !.times = RegisteredTimes(python[y].fields[i])]]]
    BY <1>7 DEF RegisterPythonLazyFields
  <2>4. python'[y] = Registered(python[y]) /\ python' = [python EXCEPT ![y] = python'[y]]
    BY <2>3 DEF Registered
  <2>5. pc'[y] = "keep_alive" /\ pc' = [pc EXCEPT ![y] = pc'[y]]
    BY <2>1 DEF Goto
  <2> QED
    BY <2>1, <2>2, <2>4, <2>5
<1>8. CASE SetPythonLayerData(y)
  <2>1. pc[y] = "commit" /\ Goto(y, "succeeded") /\ reader' = reader /\ python' = python
    BY <1>8 DEF SetPythonLayerData, pythonVars
  <2>2. PICK d \in Declared : \E read \in Placements(d) : python[y] = Registered(read)
    BY <2>1 DEF ReadInv, PythonPCs
  <2>3. pc'[y] = "succeeded" /\ pc' = [pc EXCEPT ![y] = pc'[y]]
    BY <2>1 DEF Goto
  <2>4. python' = [python EXCEPT ![y] = python'[y]]
    BY <2>1
  <2> QED
    BY <2>1, <2>2, <2>3, <2>4
<1> QED
  BY <1>2, <1>3, <1>4, <1>5, <1>6, <1>7, <1>8, <1>9, <1>10 DEF PythonStep

\* Every step keeps what is known of python reads.
LEMMA NextReadsInv ==
  ASSUME pc \in [Layers -> PCs], ReadsInv, [PythonNext]_allVars
  PROVE  ReadsInv'
<1>1. ASSUME NEW y \in Layers, pc' = [pc EXCEPT ![y] = pc'[y]],
             python' = [python EXCEPT ![y] = python'[y]], reader' = reader, ReadInv(y)'
      PROVE  ReadsInv'
  <2>1. ASSUME NEW z \in Layers, z # y
        PROVE  ReadInv(z)'
    <3>1. pc'[z] = pc[z] /\ python'[z] = python[z] /\ reader'[z] = reader[z]
      BY <1>1, <2>1 DEF ReadsInv
    <3> QED
      BY <3>1 DEF ReadsInv, ReadInv
  <2>2. python' = [z \in Layers |-> python'[z]]
    BY <1>1 DEF ReadsInv
  <2> QED
    BY <1>1, <2>1, <2>2 DEF ReadsInv
<1>2. CASE PythonNext
  <2>1. PICK y \in Layers :
          \/ SharedStep(y)
          \/ reader[y] = "native" /\ NativeStep(y) /\ UNCHANGED pythonVars
          \/ reader[y] # "native" /\ PythonStep(y)
    BY <1>2 DEF PythonNext
  <2>2. ReadInv(y) /\ python = [z \in Layers |-> python[z]]
    BY DEF ReadsInv
  <2>3. CASE SharedStep(y)
    <3>1. CallStep(y) /\ reader' = reader
          /\ python' = [python EXCEPT ![y] = IF pc'[y] = "idle" THEN None ELSE @]
      BY <2>3 DEF SharedStep
    <3>2. /\ pc' = [pc EXCEPT ![y] = pc'[y]]
          /\ pc'[y] \in PythonPCs => pc[y] = "keep_alive" /\ pc'[y] = "commit"
      BY <3>1, SharedMoves
    <3>3. /\ python' = [python EXCEPT ![y] = python'[y]]
          /\ python'[y] \in {None, python[y]}
          /\ pc'[y] = "commit" => python'[y] = python[y]
      BY <2>2, <3>1
    <3>4. ReadInv(y)'
      <4>1. reader'[y] = "native" => python'[y] = None
        BY <2>2, <3>1, <3>3 DEF ReadInv
      <4>2. CASE pc'[y] \in PythonPCs /\ reader[y] # "native"
        <5>1. PICK d \in Declared : \E read \in Placements(d) : python[y] = Registered(read)
          BY <2>2, <3>2, <4>2 DEF ReadInv, PythonPCs
        <5> QED
          BY <3>1, <3>2, <3>3, <4>1, <4>2, <5>1 DEF ReadInv
      <4> QED
        BY <3>1, <4>1, <4>2 DEF ReadInv
    <3> QED
      BY <1>1, <3>1, <3>2, <3>3, <3>4
  <2>4. CASE reader[y] = "native" /\ NativeStep(y) /\ UNCHANGED pythonVars
    <3>1. python' = python /\ reader' = reader
      BY <2>4 DEF pythonVars
    <3>2. pc' = [pc EXCEPT ![y] = pc'[y]]
      BY <2>4 DEF NativeStep, Parse, ParseFails, OpenChild, RegisterLoaders, SetLayerData, Place,
                  UnwindOwned, Unwind, Goto
    <3>3. python' = [python EXCEPT ![y] = python'[y]]
      BY <2>2, <3>1
    <3>4. ReadInv(y)'
      BY <2>2, <2>4, <3>1 DEF ReadInv
    <3> QED
      BY <1>1, <3>1, <3>2, <3>3, <3>4
  <2>5. CASE reader[y] # "native" /\ PythonStep(y)
    <3>1. /\ pc' = [pc EXCEPT ![y] = pc'[y]]
          /\ python' = [python EXCEPT ![y] = python'[y]]
          /\ reader' = reader
          /\ pc'[y] \in PythonPCs =>
               \E d \in Declared :
                 /\ pc'[y] \in {"manifest", "rebase"} => python'[y] = Authored(d)
                 /\ pc'[y] = "register" => python'[y] \in Placements(d)
                 /\ pc'[y] \in {"keep_alive", "commit", "succeeded"} =>
                      \E read \in Placements(d) : python'[y] = Registered(read)
      BY <2>2, <2>5, PythonStepOf
    <3>2. ReadInv(y)'
      BY <2>5, <3>1 DEF ReadInv
    <3> QED
      BY <1>1, <3>1, <3>2
  <2> QED
    BY <2>1, <2>3, <2>4, <2>5
<1>3. CASE UNCHANGED allVars
  <2>1. python' = python /\ reader' = reader /\ pc' = pc
    BY <1>3 DEF allVars, pythonVars, vars
  <2> QED
    BY <2>1 DEF ReadsInv, ReadInv
<1> QED
  BY <1>2, <1>3

\* What a python read serves is what its callback declared, at the place the
\* layer was asked to have it: its fields follow the prims they were declared
\* for, no two of them meet, and their samples are in order, whatever the
\* callback authored and declared and whatever the mount path
\* (RebasePythonReadResult and RegisterPythonLazyFields,
\* PythonFileFormatBase.cpp).
THEOREM ManifestIsServedCorrect == PythonSpec => []ManifestIsServed
<1>1. PythonInit => ReadsInv
  <2> SUFFICES ASSUME PythonInit
               PROVE  ReadsInv
    OBVIOUS
  <2>1. python = [y \in Layers |-> None] /\ pc = [y \in Layers |-> "idle"]
    BY DEF PythonInit, Init
  <2> QED
    BY <2>1 DEF ReadsInv, ReadInv, PythonPCs
<1>2. IInv /\ ReadsInv /\ [PythonNext]_allVars => ReadsInv'
  <2>1. IInv => pc \in [Layers -> PCs]
    BY DEF IInv, Types
  <2> QED
    BY <2>1, NextReadsInv
<1>3. ReadsInv => ManifestIsServed
  <2> SUFFICES ASSUME ReadsInv
               PROVE  ManifestIsServed
    OBVIOUS
  <2>1. ASSUME NEW y \in PythonReads
        PROVE  \E d \in Declared : \E read \in Placements(d) :
                 python[y] = Registered(read) /\ python[y].declared = d
    <3>1. y \in Layers /\ pc[y] = "succeeded" /\ python[y] # None
      BY <2>1 DEF PythonReads
    <3>2. PICK d \in Declared : \E read \in Placements(d) : python[y] = Registered(read)
      BY <3>1 DEF ReadsInv, ReadInv, PythonPCs
    <3>3. PICK read \in Placements(d) : python[y] = Registered(read)
      BY <3>2
    <3>4. Registered(read).declared = d
      BY RegisteredOf
    <3> QED
      BY <3>3, <3>4
  <2>2. FieldsFollowTheirPrims
    <3> SUFFICES ASSUME NEW y \in PythonReads, ~Displaces(python[y])
                 PROVE  LET read == python[y]
                            declared == read.declared.lazy
                        IN /\ \A i \in DOMAIN declared :
                                declared[i].prim \in read.declared.tree =>
                                  /\ read.fields[i].prim \in DOMAIN read.tree
                                  /\ read.tree[read.fields[i].prim] = declared[i].prim
                           /\ \A i, j \in DOMAIN declared :
                                <<read.fields[i].prim, read.fields[i].attr>> =
                                  <<read.fields[j].prim, read.fields[j].attr>>
                                => <<declared[i].prim, declared[i].attr>> =
                                     <<declared[j].prim, declared[j].attr>>
      BY DEF FieldsFollowTheirPrims
    <3>1. PICK d \in Declared : \E read \in Placements(d) :
            python[y] = Registered(read) /\ python[y].declared = d
      BY <2>1
    <3>2. PICK read \in Placements(d) : python[y] = Registered(read) /\ python[y].declared = d
      BY <3>1
    <3>3. ~Displaces(Registered(read))
      BY <3>2
    <3> QED
      BY <3>2, <3>3, FieldsFollow
  <2>3. ContentIsMounted
    <3> SUFFICES ASSUME NEW y \in PythonReads
                 PROVE  LET read == python[y]
                            declared == read.declared
                        IN /\ read.root # <<>> /\ (declared.default # None \/ declared.lazy # <<>>) =>
                                /\ read.default = Head(read.root)
                                /\ \/ read.root \in DOMAIN read.tree
                                   \/ \E i \in DOMAIN read.fields :
                                        IsPrefix(read.root, read.fields[i].prim)
                           /\ read.root = <<>> => read.default = declared.default
                           /\ \A i \in DOMAIN read.fields :
                                /\ TimeSamplesAreSorted(read.fields[i].times)
                                /\ ToSet(read.fields[i].times) =
                                     IF declared.lazy[i].times = <<>> THEN {0}
                                     ELSE ToSet(declared.lazy[i].times)
      BY DEF ContentIsMounted
    <3>1. PICK d \in Declared : \E read \in Placements(d) :
            python[y] = Registered(read) /\ python[y].declared = d
      BY <2>1
    <3>2. PICK read \in Placements(d) : python[y] = Registered(read) /\ python[y].declared = d
      BY <3>1
    <3> QED
      BY <3>2, ContentOf
  <2> QED
    BY <2>2, <2>3 DEF ManifestIsServed
<1> QED
  BY Invariant, <1>1, <1>2, <1>3, PTL DEF PythonSpec
-----------------------------------------------------------------------------
(* What a failed call leaves of the specs.                                 *)

\* A call that has not set its data has left the layer as it was, unless its
\* callback has authored; past its callback a python read knows it has.
KeepsInv(y) ==
  /\ reader[y] # "native" /\ pc[y] \in {"manifest", "rebase", "register", "keep_alive", "commit"}
       => edited[y]
  /\ pc[y] \notin {"idle", "place", "succeeded"} /\ ~edited[y] =>
       specs[y] = before[y].specs /\ defaultPrim[y] = before[y].defaultPrim

EditsInv ==
  /\ edited \in [Layers -> BOOLEAN]
  /\ \A y \in Layers : KeepsInv(y)

\* A call that gives up changes neither specs nor default prim.
LEMMA GivenUp ==
  ASSUME NEW y, UnwindOwned(y) \/ UnwindCopy(y)
  PROVE  Goto(y, "failed") /\ UNCHANGED <<specs, defaultPrim, before>>
  BY DEF UnwindOwned, UnwindCopy, Unwind

\* Steps that all readers have in common.
LEMMA SharedKeeps ==
  ASSUME Types, NEW y \in Layers, edited \in [Layers -> BOOLEAN], CallStep(y),
         edited' = [edited EXCEPT ![y] = @ /\ pc'[y] # "idle"], reader' = reader,
         NEW z \in Layers, KeepsInv(z)
  PROVE  KeepsInv(z)'
<1> USE DEF KeepsInv, Types, Goto, layerVars
<1>1. CASE \E argument \in MountArguments : BeginRead(y, argument)
  BY <1>1 DEF BeginRead, LayerNow
<1>2. CASE BeginCanRead(y)
  BY <1>2 DEF BeginCanRead, LayerNow
<1>3. CASE OpenFails(y) \/ CreateFails(y) \/ CopyFails(y) \/ Probe(y)
  <2>1. /\ pc[y] \in {"open", "create", "copy", "probe"} /\ Goto(y, "failed")
        /\ UNCHANGED <<specs, defaultPrim, before>>
    BY <1>3, GivenUp DEF OpenFails, CreateFails, CopyFails, Probe
  <2> QED
    BY <2>1
<1>4. CASE OpenInPlace(y) \/ CloseOutput(y)
  <2>1. /\ pc[y] \in {"open", "copy"} /\ Goto(y, AfterOpen(y))
        /\ UNCHANGED <<specs, defaultPrim, before>>
    BY <1>4 DEF OpenInPlace, CloseOutput
  <2>2. AfterOpen(y) \in {"probe", "prepare", "children"}
    BY DEF AfterOpen
  <2> QED
    BY <2>1, <2>2
<1>5. CASE MakeTmpSubdir(y)
  BY <1>5 DEF MakeTmpSubdir
<1>6. CASE CreateOutput(y)
  BY <1>6 DEF CreateOutput
<1>7. CASE CopyChunk(y)
  BY <1>7 DEF CopyChunk
<1>8. CASE KeepAlive(y)
  BY <1>8 DEF KeepAlive
<1>9. CASE Return(y)
  BY <1>9 DEF Return
<1>10. CASE CloseLayer(y)
  BY <1>10 DEF CloseLayer
<1> QED
  BY <1>1, <1>2, <1>3, <1>4, <1>5, <1>6, <1>7, <1>8, <1>9, <1>10 DEF CallStep

\* Steps of a native reader.
LEMMA NativeKeeps ==
  ASSUME IInv, NEW y \in Layers, reader[y] = "native", NativeStep(y),
         UNCHANGED pythonVars, NEW z \in Layers, KeepsInv(z)
  PROVE  KeepsInv(z)'
<1>1. Types /\ PlaceInv(y) /\ edited' = edited /\ reader' = reader
  BY DEF IInv, pythonVars
<1> USE DEF KeepsInv, Types, Goto, layerVars
<1>2. CASE Parse(y)
  BY <1>1, <1>2 DEF Parse
<1>3. CASE ParseFails(y)
  <2>1. /\ pc[y] \in {"prepare", "children"} /\ Goto(y, "failed")
        /\ UNCHANGED <<specs, defaultPrim, before>>
    BY <1>3, GivenUp DEF ParseFails
  <2> QED
    BY <1>1, <2>1
<1>4. CASE OpenChild(y)
  BY <1>1, <1>4 DEF OpenChild
<1>5. CASE RegisterLoaders(y)
  BY <1>1, <1>5 DEF RegisterLoaders
<1>6. CASE SetLayerData(y)
  BY <1>1, <1>6 DEF SetLayerData
<1>7. CASE Place(y)
  <2>1. mountPath[y] # "malformed" /\ mountPath[y] \in AllMountArguments
    BY <1>1, <1>7 DEF Place, PlaceInv, Parsed
  <2>2. CaeResolveRootPrimPath("identifier", mountPath[y]) # "error"
    BY <2>1, ResolvedPrim
  <2>3. pc' = [pc EXCEPT ![y] = "succeeded"] /\ specs' = specs /\ before' = before
        /\ \E prim : defaultPrim' = [defaultPrim EXCEPT ![y] = prim]
    BY <1>7, <2>2 DEF Place
  <2> QED
    BY <1>1, <2>3
<1> QED
  BY <1>2, <1>3, <1>4, <1>5, <1>6, <1>7 DEF NativeStep

\* Steps of a python reader.
LEMMA PythonKeeps ==
  ASSUME Types, NEW y \in Layers, reader[y] # "native", edited \in [Layers -> BOOLEAN],
         KeepsInv(y), PythonStep(y)
  PROVE  /\ edited' \in [Layers -> BOOLEAN]
         /\ \A z \in Layers : KeepsInv(z) => KeepsInv(z)'
<1> USE DEF KeepsInv, Types, Goto, layerVars, pythonVars
<1>1. CASE CallbackRaises(y) \/ ResultIsRefused(y) \/ RebaseFails(y)
  <2>1. /\ pc[y] \in {"prepare", "manifest", "rebase"} /\ Goto(y, "failed")
        /\ UNCHANGED <<specs, defaultPrim, before, reader, edited>>
    BY <1>1, GivenUp DEF CallbackRaises, ResultIsRefused, RebaseFails
  <2> QED
    BY <2>1
<1>2. CASE \E result \in Results : CallRead(y, result)
  <2>1. /\ edited' = [edited EXCEPT ![y] = TRUE] /\ Goto(y, "manifest")
        /\ UNCHANGED <<before, reader>>
        /\ \E prim : defaultPrim' = [defaultPrim EXCEPT ![y] = prim]
        /\ specs' = [specs EXCEPT ![y] = "callback"]
    BY <1>2 DEF CallRead
  <2> QED
    BY <2>1
<1>3. CASE ResultIsParsed(y)
  BY <1>3 DEF ResultIsParsed
<1>4. CASE RebaseNothing(y)
  BY <1>4 DEF RebaseNothing
<1>5. CASE RebasePythonReadResult(y)
  <2>1. /\ pc[y] = "rebase" /\ Goto(y, "register")
        /\ UNCHANGED <<specs, before, reader, edited>>
        /\ \E prim : defaultPrim' = [defaultPrim EXCEPT ![y] = prim]
    BY <1>5 DEF RebasePythonReadResult
  <2> QED
    BY <2>1
<1>6. CASE RegisterPythonLazyFields(y)
  BY <1>6 DEF RegisterPythonLazyFields
<1>7. CASE SetPythonLayerData(y)
  BY <1>7 DEF SetPythonLayerData
<1> QED
  BY <1>1, <1>2, <1>3, <1>4, <1>5, <1>6, <1>7 DEF PythonStep

\* Native and python readers alike: a call that fails keeps the data of its
\* layer, and its specs and default prim too if no callback has authored by then;
\* a call that succeeds has its structure under the default prim, but for native
\* reads with an empty mount path (SdfFileFormat::Read of the readers,
\* CaeResolveRootPrimPath in MountPath.h, PythonFileFormatBase.cpp).
THEOREM ReadKeepsOrReplacesCorrect == PythonSpec => []ReadKeepsOrReplaces
<1>1. PythonInit => EditsInv
  BY DEF PythonInit, Init, EditsInv, KeepsInv
<1>2. IInv /\ EditsInv /\ [PythonNext]_allVars => EditsInv'
  <2> SUFFICES ASSUME IInv, EditsInv, [PythonNext]_allVars
               PROVE  EditsInv'
    OBVIOUS
  <2>1. Types /\ edited \in [Layers -> BOOLEAN] /\ \A z \in Layers : KeepsInv(z)
    BY DEF IInv, EditsInv
  <2>2. CASE PythonNext
    <3>1. PICK y \in Layers :
            \/ SharedStep(y)
            \/ reader[y] = "native" /\ NativeStep(y) /\ UNCHANGED pythonVars
            \/ reader[y] # "native" /\ PythonStep(y)
      BY <2>2 DEF PythonNext
    <3>2. CASE SharedStep(y)
      <4>1. /\ CallStep(y) /\ reader' = reader
            /\ edited' = [edited EXCEPT ![y] = @ /\ pc'[y] # "idle"]
        BY <3>2 DEF SharedStep
      <4>2. edited' \in [Layers -> BOOLEAN]
        BY <2>1, <4>1
      <4>3. \A z \in Layers : KeepsInv(z)'
        BY <2>1, <4>1, SharedKeeps
      <4> QED
        BY <4>2, <4>3 DEF EditsInv
    <3>3. CASE reader[y] = "native" /\ NativeStep(y) /\ UNCHANGED pythonVars
      <4>1. edited' \in [Layers -> BOOLEAN]
        BY <2>1, <3>3 DEF pythonVars
      <4>2. \A z \in Layers : KeepsInv(z)'
        BY <2>1, <3>3, NativeKeeps
      <4> QED
        BY <4>1, <4>2 DEF EditsInv
    <3>4. CASE reader[y] # "native" /\ PythonStep(y)
      BY <2>1, <3>4, PythonKeeps DEF EditsInv
    <3> QED
      BY <3>1, <3>2, <3>3, <3>4
  <2>3. CASE UNCHANGED allVars
    BY <2>1, <2>3 DEF allVars, vars, pythonVars, EditsInv, KeepsInv
  <2> QED
    BY <2>2, <2>3
<1>3. IInv => TypeOK
  BY DEF IInv, Types, CallInv, TypeOK
<1>4. IInv => FailedCallKeepsData
  BY DEF IInv, DataInv, FailedCallKeepsData
<1>5. IInv /\ EditsInv => FailedCallKeepsSpecs
  <2> SUFFICES ASSUME IInv, EditsInv, NEW y \in Layers, pc[y] = "failed", ~edited[y]
               PROVE  LayerNow(y) = before[y]
    BY DEF FailedCallKeepsSpecs
  <2>1. /\ data[y] = before[y].data /\ specs[y] = before[y].specs
        /\ defaultPrim[y] = before[y].defaultPrim
    BY DEF IInv, DataInv, EditsInv, KeepsInv
  <2>2. before[y] \in Layer
    BY DEF IInv, Types
  <2> QED
    BY <2>1, <2>2 DEF Layer, LayerNow
<1>6. IInv => DefaultPrimIsRoot
  BY DEF IInv, PlaceInv, DefaultPrimIsRoot
<1>7. IInv /\ EditsInv => ReadKeepsOrReplaces
  BY <1>3, <1>4, <1>5, <1>6 DEF ReadKeepsOrReplaces
<1> QED
  BY Invariant, <1>1, <1>2, <1>7, PTL DEF PythonSpec
=============================================================================
