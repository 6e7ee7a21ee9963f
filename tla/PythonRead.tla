------------------------------ MODULE PythonRead ------------------------------
(***************************************************************************)
(* PythonFileFormatBase::Read beside the native readers of LayerRead       *)
(* (shared/PythonFileFormatBase.cpp).  A python callback authors the       *)
(* structure straight into the layer and returns a manifest of lazy        *)
(* fields.  The reader moves the tree the callback authored to the mount   *)
(* path, moves the prims of the manifest with it, registers the fields     *)
(* with the new layer data, which retains the asset, and sets that data.   *)
(* Nothing undoes what the callback authored when the read fails later.    *)
(*                                                                         *)
(* A path is the sequence of its names.  A callback's result is the prims  *)
(* it authors, the default prim it sets and its manifest; the name "stem"  *)
(* stands for the stem of the local path, after which the callbacks of     *)
(* this repository name their root.  Callbacks replace the content of the  *)
(* layer (TransferContent), as those of this repository do.                *)
(***************************************************************************)
EXTENDS LayerRead, Sequences, SequencesExt

CONSTANTS
  Readers,     \* kinds of readers: "native", "python", "proxy"
  Names,       \* of prims and attributes
  Results,     \* what callbacks author and declare
  MountPaths,  \* paths of well-formed mountPath arguments
  None

\* Only the proxy leaves deriveMountPathFromIdentifier off.
AllReaders == {"native", "python", "proxy"}

\* An entry of a manifest: the samples it lists, or a token for a single one.
LazyField == [prim : Seq(Names) \ {<<>>}, attr : Names, token : BOOLEAN, times : Seq(Nat)]

ASSUME PythonAssumption ==
  /\ Readers \subseteq AllReaders
  /\ Results \subseteq [tree : SUBSET Seq(Names), default : Names \cup {None}, lazy : Seq(LazyField)]
  /\ \A r \in Results :
       /\ r.default # None => <<r.default>> \in r.tree
       /\ \A p \in r.tree : p # <<>> /\ \A n \in 1..Len(p) : SubSeq(p, 1, n) \in r.tree
  /\ MountPaths \subseteq Seq(Names) \ {<<>>}
  /\ None \notin Names \cup {"identifier", "local"}

VARIABLES
  reader,  \* the format of each layer
  python,  \* what a python read has made of its layer so far
  edited   \* history: this call's callback has authored into the layer

pythonVars == <<reader, python, edited>>
allVars == <<vars, pythonVars>>

PythonInit ==
  /\ Init
  /\ reader \in [Layers -> Readers]
  /\ python = [y \in Layers |-> None]
  /\ edited = [y \in Layers |-> FALSE]

-----------------------------------------------------------------------------
(* The manifest.                                                           *)

\* ParseLazyField refuses a field that has neither a token nor a sample.
ParseLazyField(field) == field.token \/ field.times # <<>>
ParseReadResult(result) == \A i \in DOMAIN result.lazy : ParseLazyField(result.lazy[i])

TimeSamplesAreSorted(times) ==
  \A i, j \in DOMAIN times : i <= j => times[i] <= times[j]

\* At each place the time that less samples than that are before, and as many
\* not after.
Sorted(times) ==
  LET Upto(t) == {j \in DOMAIN times : times[j] <= t}
      Below(t) == {j \in DOMAIN times : times[j] < t}
  IN [i \in DOMAIN times |->
        CHOOSE t \in ToSet(times) : Cardinality(Below(t)) < i /\ i <= Cardinality(Upto(t))]

\* Samples win over a token; a token alone is one sample at time 0.  Samples
\* that are not in order are registered by the call that sorts them.
RegisteredTimes(field) ==
  IF field.times = <<>> THEN <<0>>
  ELSE IF TimeSamplesAreSorted(field.times) THEN field.times
  ELSE Sorted(field.times)

-----------------------------------------------------------------------------
(* Rebasing.                                                               *)

\* The root of what the callback authored: its default prim, or that of the
\* first lazy field.
PythonLeaf(read) ==
  IF read.default # None THEN <<read.default>>
  ELSE IF read.fields # <<>> THEN <<Head(read.fields[1].prim)>>
  ELSE <<>>

ReplacePrefix(path, leaf, mount) ==
  IF IsPrefix(leaf, path) THEN mount \o SubSeq(path, Len(leaf) + 1, Len(path)) ELSE path

\* Prims missing above a path are created as overs, which nobody authored.
WithAncestors(tree, path) ==
  [p \in DOMAIN tree \cup {SubSeq(path, 1, n) : n \in 1..(Len(path) - 1)} |->
     IF p \in DOMAIN tree THEN tree[p] ELSE <<>>]

\* SdfCopySpec: the tree of a prim replaces whatever is at its new place.
CopySpec(tree, leaf, mount) ==
  LET source == {p \in DOMAIN tree : IsPrefix(leaf, p)}
      copies == {ReplacePrefix(p, leaf, mount) : p \in source}
  IN [q \in copies \cup {p \in DOMAIN tree : ~IsPrefix(mount, p)} |->
        IF q \in copies THEN tree[CHOOSE p \in source : ReplacePrefix(p, leaf, mount) = q]
        ELSE tree[q]]

Without(tree, leaf) == [p \in {p \in DOMAIN tree : ~IsPrefix(leaf, p)} |-> tree[p]]

\* The trees a layer may have once the leaf is at the mount: Sdf drops the old
\* prim if it finds it inert, which a prim that holds the new root is not.
RebasedTrees(tree, leaf, mount) ==
  IF leaf \in {<<>>, mount} THEN {WithAncestors(tree, mount)}
  ELSE IF leaf \notin DOMAIN tree THEN {WithAncestors(tree, mount)}
  ELSE LET copied == WithAncestors(CopySpec(tree, leaf, mount), mount)
       IN {copied} \cup IF IsPrefix(leaf, mount) THEN {} ELSE {Without(copied, leaf)}

\* Seeded fault: only the structure is moved.
RebaseField_Not(field, leaf, mount) == field

\* The prim of a lazy field moves with the leaf.
RebaseField(field, leaf, mount) ==
  IF leaf = <<>> THEN field
  ELSE [field EXCEPT !.prim = ReplacePrefix(@, leaf, mount)]

-----------------------------------------------------------------------------
(* The steps of Read that are not those of LayerRead.                      *)

Named(path, y) == [path EXCEPT ![1] = IF @ = "stem" THEN LocalName(root[y]) ELSE @]
NamedResult(result, y) ==
  [tree |-> {Named(p, y) : p \in result.tree},
   default |-> IF result.default = None THEN None
               ELSE Named(<<result.default>>, y)[1],
   lazy |-> [i \in DOMAIN result.lazy |->
               [result.lazy[i] EXCEPT !.prim = Named(@, y)]]]

\* There is no module to call, or the callback raises before it has authored.
CallbackRaises(y) ==
  /\ pc[y] = "prepare"
  /\ UnwindOwned(y)
  /\ UNCHANGED pythonVars

\* The callback authors into the layer that is read.
CallRead(y, result) ==
  /\ pc[y] = "prepare"
  /\ LET declared == NamedResult(result, y)
     IN /\ python' = [python EXCEPT ![y] =
                        [declared |-> declared, default |-> declared.default,
                         tree |-> [p \in declared.tree |-> p],
                         fields |-> declared.lazy, root |-> <<>>]]
        /\ defaultPrim' = [defaultPrim EXCEPT ![y] =
                             IF declared.default = None THEN "none" ELSE "callback"]
  /\ specs' = [specs EXCEPT ![y] = "callback"]
  /\ edited' = [edited EXCEPT ![y] = TRUE]
  /\ Goto(y, "manifest")
  /\ UNCHANGED <<leaseVars, call, mountPath, opening, held, root, children,
                 rootPrim, pending, data, before, reader>>

\* It raises after all, or what it returns is no manifest.
ResultIsRefused(y) ==
  /\ pc[y] = "manifest"
  /\ UnwindOwned(y)
  /\ UNCHANGED pythonVars

ResultIsParsed(y) ==
  /\ pc[y] = "manifest"
  /\ ParseReadResult(python[y].declared)
  /\ Goto(y, "rebase")
  /\ UNCHANGED <<leaseVars, call, mountPath, opening, held, root, children,
                 rootPrim, layerVars, before, pythonVars>>

\* The argument Read goes by.
MountArgument(y) ==
  IF reader[y] = "proxy" THEN mountPath[y]
  ELSE CaePrepareResolverArguments(mountPath[y])

RootPaths(prim) == IF prim = "mount" THEN MountPaths ELSE {<<"identifier">>}

\* Without a mount path what the callback authored stays where it is, under
\* the prim it made the default.
RebaseNothing(y) ==
  /\ pc[y] = "rebase"
  /\ MountArgument(y) \in {"unset", "empty"}
  /\ rootPrim' = [rootPrim EXCEPT ![y] = defaultPrim[y]]
  /\ Goto(y, "register")
  /\ UNCHANGED <<leaseVars, call, mountPath, opening, held, root, children,
                 layerVars, before, pythonVars>>

\* RebasePythonReadResult reports a malformed mount path; the layer stays as the
\* callback left it.
RebaseFails(y) ==
  /\ pc[y] = "rebase"
  /\ CaeResolveRootPrimPath("identifier", MountArgument(y)) = "error"
  /\ UnwindOwned(y)
  /\ UNCHANGED pythonVars

RebasePythonReadResult(y) ==
  /\ pc[y] = "rebase"
  /\ MountArgument(y) \notin {"unset", "empty"}
  /\ LET prim == CaeResolveRootPrimPath("identifier", MountArgument(y))
         leaf == PythonLeaf(python[y])
     IN /\ prim # "error"
        /\ rootPrim' = [rootPrim EXCEPT ![y] = prim]
        /\ defaultPrim' = [defaultPrim EXCEPT ![y] = prim]
        /\ \E path \in RootPaths(prim) :
             \E tree \in RebasedTrees(python[y].tree, leaf, path) :
               python' = [python EXCEPT ![y] =
                            [declared |-> @.declared, default |-> Head(path), tree |-> tree,
                             fields |-> [i \in DOMAIN @.fields |->
                                           RebaseField(@.fields[i], leaf, path)],
                             root |-> path]]
  /\ Goto(y, "register")
  /\ UNCHANGED <<leaseVars, call, mountPath, opening, held, root, children,
                 pending, data, specs, before, reader, edited>>

\* The loaders capture the local path of the asset.
RegisterPythonLazyFields(y) ==
  /\ pc[y] = "register"
  /\ python' = [python EXCEPT ![y].fields =
                  [i \in DOMAIN @ |-> [@[i] EXCEPT !.times = RegisteredTimes(python[y].fields[i])]]]
  /\ pending' = [pending EXCEPT ![y] = [loaders |-> {root[y]}, retained |-> {}]]
  /\ Goto(y, "keep_alive")
  /\ UNCHANGED <<leaseVars, call, mountPath, opening, held, root, children,
                 rootPrim, data, specs, defaultPrim, before, reader, edited>>

\* The content of the layer is copied into the new data and that data is set;
\* the default prim is part of the content.
SetPythonLayerData(y) ==
  /\ pc[y] = "commit"
  /\ data' = [data EXCEPT ![y] = pending[y]]
  /\ pending' = [pending EXCEPT ![y] = NoData]
  /\ ReleaseUnowned(held, pending', data')
  /\ specs' = [specs EXCEPT ![y] = "set"]
  /\ Goto(y, "succeeded")
  /\ UNCHANGED <<call, mountPath, opening, held, root, children, rootPrim,
                 defaultPrim, before, pythonVars>>

PythonStep(y) ==
  \/ CallbackRaises(y)
  \/ \E result \in Results : CallRead(y, result)
  \/ ResultIsRefused(y)
  \/ ResultIsParsed(y)
  \/ RebaseNothing(y)
  \/ RebaseFails(y)
  \/ RebasePythonReadResult(y)
  \/ RegisterPythonLazyFields(y)
  \/ SetPythonLayerData(y)

\* Beginning, opening, retaining and returning are the same for all readers.
SharedStep(y) ==
  /\ CallStep(y)
  /\ python' = [python EXCEPT ![y] = IF pc'[y] = "idle" THEN None ELSE @]
  /\ edited' = [edited EXCEPT ![y] = @ /\ pc'[y] # "idle"]
  /\ UNCHANGED reader

PythonNext ==
  \E y \in Layers :
    \/ SharedStep(y)
    \/ reader[y] = "native" /\ NativeStep(y) /\ UNCHANGED pythonVars
    \/ reader[y] # "native" /\ PythonStep(y)

PythonSpec == PythonInit /\ [][PythonNext]_allVars

-----------------------------------------------------------------------------
(* Properties.                                                             *)

\* A call that fails leaves specs and default prim alone, unless the callback of
\* a python reader has authored by then: a native reader cannot change half a
\* layer, and a python reader cannot before it has called python.
FailedCallKeepsSpecs ==
  \A y \in Layers : pc[y] = "failed" /\ ~edited[y] => LayerNow(y) = before[y]

\* A call that fails keeps the data of the layer, with all it retains, and its
\* specs but for those of a callback; one that succeeds has put its structure
\* where the layer says it is.
ReadKeepsOrReplaces ==
  TypeOK /\ FailedCallKeepsData /\ FailedCallKeepsSpecs /\ DefaultPrimIsRoot

PythonReads == {y \in Layers : pc[y] = "succeeded" /\ python[y] # None}

\* The mount path replaces, or meets, prims the callback authored or declared
\* fields for outside its leaf.
Displaces(read) ==
  \E p \in read.declared.tree \cup
             {read.declared.lazy[i].prim : i \in DOMAIN read.declared.lazy} :
    /\ read.root # <<>> /\ IsPrefix(read.root, p)
    /\ ~IsPrefix(PythonLeaf([read EXCEPT !.default = read.declared.default,
                                         !.fields = read.declared.lazy]), p)

\* A lazy field is registered for the prim that carries the structure the
\* callback authored for it, wherever that was moved, and no two fields meet.
FieldsFollowTheirPrims ==
  \A y \in PythonReads :
    LET read == python[y]
        declared == read.declared.lazy
    IN ~Displaces(read) =>
         /\ \A i \in DOMAIN declared :
              declared[i].prim \in read.declared.tree =>
                /\ read.fields[i].prim \in DOMAIN read.tree
                /\ read.tree[read.fields[i].prim] = declared[i].prim
         /\ \A i, j \in DOMAIN declared :
              <<read.fields[i].prim, read.fields[i].attr>> =
                <<read.fields[j].prim, read.fields[j].attr>>
              => <<declared[i].prim, declared[i].attr>> =
                   <<declared[j].prim, declared[j].attr>>

\* A layer that was mounted has its content under the mount path, in the tree
\* its default prim names, when the callback said where that content is; and
\* fields have the samples of the manifest in the order lookups need.
ContentIsMounted ==
  \A y \in PythonReads :
    LET read == python[y]
        declared == read.declared
    IN /\ read.root # <<>> /\ (declared.default # None \/ declared.lazy # <<>>) =>
            /\ read.default = Head(read.root)
            /\ \/ read.root \in DOMAIN read.tree
               \/ \E i \in DOMAIN read.fields : IsPrefix(read.root, read.fields[i].prim)
       /\ read.root = <<>> => read.default = declared.default
       /\ \A i \in DOMAIN read.fields :
            /\ TimeSamplesAreSorted(read.fields[i].times)
            /\ ToSet(read.fields[i].times) =
                 IF declared.lazy[i].times = <<>> THEN {0} ELSE ToSet(declared.lazy[i].times)

\* What a python reader serves is the structure and the fields its callback
\* declared, at the place the layer was asked to have them.
ManifestIsServed == FieldsFollowTheirPrims /\ ContentIsMounted
=============================================================================
