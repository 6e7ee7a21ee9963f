------------------------------ MODULE LayerRead ------------------------------
(***************************************************************************)
(* SdfFileFormat::Read and CanRead as the readers of this repository       *)
(* implement them, with the resolver-asset leases they hold                *)
(* (shared/ResolverAsset.cpp, shared/MountPath.h, and Read of the VTK,     *)
(* EnSight, FLASH, CGNS and Eclipse formats).                              *)
(*                                                                         *)
(* A reader opens a lease on the root asset and one on every child the     *)
(* root names.  A lease gives a local path: the resolved file itself, a    *)
(* file backing the resolver's asset, or a copy in a temporary directory   *)
(* that the last owner of the lease removes.  The reader registers loaders *)
(* that will reopen the local paths, hands the leases to the new layer     *)
(* data (KeepAlive), sets the data on the layer and names the default      *)
(* prim.  An error unwinds the call and drops what it held.                *)
(*                                                                         *)
(* One lease stands for one CaeResolverAsset and its directory.  Copying   *)
(* goes chunk by chunk; a short last chunk may stay in the stream's buffer *)
(* until close().                                                          *)
(***************************************************************************)
EXTENDS Naturals, FiniteSets

CONSTANTS
  Layers,          \* layers; one thread at a time reads one
  Leases,          \* pool of CaeResolverAsset objects
  MountArguments,  \* values of the mountPath argument callers use
  MaxChildren,     \* bound on the assets a root names
  Chunks,          \* bound on the chunks of an asset
  MaxLeft,         \* bound on the removals the file system refuses
  NoLease, NoData

\* "unset" is no argument at all, "empty" the empty string.
AllMountArguments == {"unset", "empty", "valid", "malformed"}

ASSUME ConstantsAssumption ==
  /\ MountArguments \subseteq AllMountArguments
  /\ MaxChildren \in Nat /\ MaxLeft \in Nat
  /\ Chunks \in Nat \ {0}
  /\ NoLease \notin Leases
  /\ NoData \notin [loaders : SUBSET Leases, retained : SUBSET Leases]

VARIABLES
  directory,   \* of each lease: "none", "present", "left" (removal refused)
  content,     \* chunks of the copy that are in its file
  strategy,    \* how the lease got its local path
  pc,          \* where each layer's read is
  call,        \* "read" or "can_read"
  mountPath,   \* the argument of the read
  opening,     \* the lease MaterializeAsset is filling
  held,        \* the leases the reader's locals own
  root,        \* the lease of the root asset
  children,    \* children still to open
  rootPrim,    \* where the structure was authored
  pending,     \* the layer data under construction
  data,        \* the loaders of the layer's data and what it retains
  specs,       \* the specs in it: none, those it was set with, or a callback's
  defaultPrim,
  before       \* history: the layer when the call began

vars == <<directory, content, strategy, pc, call, mountPath, opening, held,
          root, children, rootPrim, pending, data, specs, defaultPrim, before>>

leaseVars == <<directory, content, strategy>>
layerVars == <<pending, data, specs, defaultPrim>>

\* Layer data: the leases whose paths its loaders reopen, those it retains.
Data == [loaders : SUBSET Leases, retained : SUBSET Leases]
Specs == {"none", "set", "callback"}
\* "callback" is a prim that a python callback chose.
Prims == {"identifier", "local", "mount", "callback", "none", "error"}
\* "manifest", "rebase" and "register" are steps of the readers of PythonRead.
PCs == {"idle", "open", "create", "copy", "probe", "prepare", "children",
        "manifest", "rebase", "register", "keep_alive", "commit", "place",
        "succeeded", "failed"}

Layer == [data : Data \cup {NoData}, specs : Specs, defaultPrim : Prims \ {"error"}]

\* Types; a lease is being filled exactly while its asset is being copied.
TypeOK ==
  /\ directory \in [Leases -> {"none", "present", "left"}]
  /\ content \in [Leases -> 0..Chunks]
  /\ strategy \in [Leases -> {"none", "native", "backing", "copy"}]
  /\ pc \in [Layers -> PCs]
  /\ call \in [Layers -> {"read", "can_read"}]
  /\ mountPath \in [Layers -> AllMountArguments]
  /\ opening \in [Layers -> Leases \cup {NoLease}]
  /\ held \in [Layers -> SUBSET Leases]
  /\ root \in [Layers -> Leases \cup {NoLease}]
  /\ children \in [Layers -> 0..MaxChildren]
  /\ rootPrim \in [Layers -> Prims \ {"error"}]
  /\ pending \in [Layers -> Data \cup {NoData}]
  /\ data \in [Layers -> Data \cup {NoData}]
  /\ specs \in [Layers -> Specs]
  /\ defaultPrim \in [Layers -> Prims \ {"error"}]
  /\ before \in [Layers -> Layer]
  /\ \A y \in Layers :
       /\ opening[y] # NoLease <=> pc[y] \in {"create", "copy"}
       /\ pc[y] \in {"prepare", "children", "manifest", "rebase", "register",
                     "keep_alive", "commit", "place", "succeeded"} => root[y] \in held[y]

\* What a call finds in its layer.
LayerNow(y) == [data |-> data[y], specs |-> specs[y], defaultPrim |-> defaultPrim[y]]

Init ==
  /\ directory = [l \in Leases |-> "none"]
  /\ content = [l \in Leases |-> 0]
  /\ strategy = [l \in Leases |-> "none"]
  /\ pc = [y \in Layers |-> "idle"]
  /\ call = [y \in Layers |-> "read"]
  /\ mountPath = [y \in Layers |-> "unset"]
  /\ opening = [y \in Layers |-> NoLease]
  /\ held = [y \in Layers |-> {}]
  /\ root = [y \in Layers |-> NoLease]
  /\ children = [y \in Layers |-> 0]
  /\ rootPrim = [y \in Layers |-> "none"]
  /\ pending = [y \in Layers |-> NoData]
  /\ data = [y \in Layers |-> NoData]
  /\ specs = [y \in Layers |-> "none"]
  /\ defaultPrim = [y \in Layers |-> "none"]
  /\ before = [y \in Layers |-> LayerNow(y)]

-----------------------------------------------------------------------------
(* Where a layer's root prim goes.                                         *)

\* CaeResolveRootPrimPath: named after the file unless mountPath says where;
\* an empty argument counts as none, a malformed one throws.
CaeResolveRootPrimPath(name, argument) ==
  CASE argument \in {"unset", "empty"} -> name
    [] argument = "valid" -> "mount"
    [] argument = "prepared" -> "identifier"
    [] OTHER -> "error"


\* CaePrepareResolverArguments: without the argument, mountPath becomes the
\* root the original identifier names.
CaePrepareResolverArguments(argument) ==
  IF argument = "unset" THEN "prepared" ELSE argument

\* The stem of a lease's local path is the identifier's only for a native file.
LocalName(l) == IF strategy[l] = "native" THEN "identifier" ELSE "local"

-----------------------------------------------------------------------------
(* Leases and their owners.                                                *)

RetainedBy(d) == IF d = NoData THEN {} ELSE d.retained

\* The leases owned by someone, were a reader's locals, the data it builds and
\* the data of the layers to become these.
OwnedAfter(locals, building, layerData) ==
  UNION {locals[y] \cup RetainedBy(building[y]) \cup RetainedBy(layerData[y]) :
           y \in Layers}

Owned == OwnedAfter(held, pending, data)
FreeLeases ==
  {l \in Leases : /\ directory[l] = "none"
                  /\ l \notin Owned
                  /\ \A y \in Layers : opening[y] # l}

\* remove_all of the directories of a set of leases; the error is ignored.
RemoveDirectories(S) ==
  \E refused \in SUBSET {l \in S : directory[l] = "present"} :
    /\ Cardinality(refused \cup {l \in Leases : directory[l] = "left"}) <= MaxLeft
    /\ directory' = [l \in Leases |->
                       IF l \notin S \/ directory[l] # "present" THEN directory[l]
                       ELSE IF l \in refused THEN "left" ELSE "none"]
    /\ content' = [l \in Leases |-> IF l \in S THEN 0 ELSE content[l]]
    /\ strategy' = [l \in Leases |-> IF l \in S THEN "none" ELSE strategy[l]]

\* The destructors of the leases that lose their last owner.
ReleaseUnowned(locals, building, layerData) ==
  RemoveDirectories(Owned \ OwnedAfter(locals, building, layerData))

Goto(y, step) == pc' = [pc EXCEPT ![y] = step]

\* An exception, or an early return, leaves the call with result false: the
\* locals and the data under construction go.
Unwind(y) ==
  /\ Goto(y, "failed")
  /\ held' = [held EXCEPT ![y] = {}]
  /\ pending' = [pending EXCEPT ![y] = NoData]
  /\ root' = [root EXCEPT ![y] = NoLease]
  /\ opening' = [opening EXCEPT ![y] = NoLease]
  /\ UNCHANGED <<call, mountPath, children, rootPrim, data, specs, defaultPrim,
                 before>>

UnwindOwned(y) ==
  /\ Unwind(y)
  /\ ReleaseUnowned(held', pending', data)

\* Unwinding from MaterializeAsset, whose error paths remove the directory they
\* were filling.
UnwindCopy(y) ==
  /\ Unwind(y)
  /\ RemoveDirectories({opening[y]} \cup (Owned \ OwnedAfter(held', pending', data)))

-----------------------------------------------------------------------------
(* Opening an asset: CaeOpenResolverAsset.                                 *)

\* Where a call goes on when a lease has been opened.
AfterOpen(y) ==
  IF call[y] = "can_read" THEN "probe"
  ELSE IF root[y] = NoLease THEN "prepare" ELSE "children"

\* The asset cannot be resolved or opened, or no directory can be made for it.
OpenFails(y) ==
  /\ pc[y] = "open"
  /\ UnwindOwned(y)

\* The resolved file, or a file that backs the resolver's asset, is used.
OpenInPlace(y) ==
  /\ pc[y] = "open"
  /\ \E l \in FreeLeases, how \in {"native", "backing"} :
       /\ strategy' = [strategy EXCEPT ![l] = how]
       /\ held' = [held EXCEPT ![y] = @ \cup {l}]
       /\ root' = [root EXCEPT ![y] = IF @ = NoLease THEN l ELSE @]
  /\ Goto(y, AfterOpen(y))
  /\ UNCHANGED <<directory, content, call, mountPath, opening, children,
                 rootPrim, layerVars, before>>

\* MaterializeAsset makes its directory.
MakeTmpSubdir(y) ==
  /\ pc[y] = "open"
  /\ \E l \in FreeLeases :
       /\ directory' = [directory EXCEPT ![l] = "present"]
       /\ strategy' = [strategy EXCEPT ![l] = "copy"]
       /\ opening' = [opening EXCEPT ![y] = l]
  /\ Goto(y, "create")
  /\ UNCHANGED <<content, call, mountPath, held, root, children, rootPrim,
                 layerVars, before>>

CreateOutput(y) ==
  /\ pc[y] = "create"
  /\ Goto(y, "copy")
  /\ UNCHANGED <<leaseVars, call, mountPath, opening, held, root, children,
                 rootPrim, layerVars, before>>

\* The file cannot be created.
CreateFails(y) ==
  /\ pc[y] = "create"
  /\ UnwindCopy(y)

\* One chunk is read from the asset and written.
CopyChunk(y) ==
  /\ pc[y] = "copy"
  /\ content[opening[y]] < Chunks
  /\ content' = [content EXCEPT ![opening[y]] = @ + 1]
  /\ UNCHANGED <<directory, strategy, pc, call, mountPath, opening, held, root,
                 children, rootPrim, layerVars, before>>

\* Seeded fault: the error path forgets the directory.
CopyFails_Leak(y) ==
  /\ pc[y] = "copy"
  /\ content[opening[y]] < Chunks
  /\ UnwindOwned(y)

\* The asset returns fewer bytes than asked for, or the write fails.
CopyFails(y) ==
  /\ pc[y] = "copy"
  /\ content[opening[y]] < Chunks
  /\ UnwindCopy(y)


\* close() flushes what the stream still buffers of the last chunk; nothing
\* looks at whether that worked.  The lease now owns the directory.
CloseOutput(y) ==
  /\ pc[y] = "copy"
  /\ content[opening[y]] = Chunks
  /\ \E flushed \in BOOLEAN :
       content' = [content EXCEPT ![opening[y]] = IF flushed THEN @ ELSE @ - 1]
  /\ held' = [held EXCEPT ![y] = @ \cup {opening[y]}]
  /\ root' = [root EXCEPT ![y] = IF @ = NoLease THEN opening[y] ELSE @]
  /\ opening' = [opening EXCEPT ![y] = NoLease]
  /\ Goto(y, AfterOpen(y))
  /\ UNCHANGED <<directory, strategy, call, mountPath, children, rootPrim,
                 layerVars, before>>

-----------------------------------------------------------------------------
(* The calls.                                                              *)

BeginRead(y, argument) ==
  /\ pc[y] = "idle"
  /\ Goto(y, "open")
  /\ call' = [call EXCEPT ![y] = "read"]
  /\ mountPath' = [mountPath EXCEPT ![y] = argument]
  /\ before' = [before EXCEPT ![y] = LayerNow(y)]
  /\ UNCHANGED <<leaseVars, opening, held, root, children, rootPrim, layerVars>>

BeginCanRead(y) ==
  /\ pc[y] = "idle"
  /\ Goto(y, "open")
  /\ call' = [call EXCEPT ![y] = "can_read"]
  /\ before' = [before EXCEPT ![y] = LayerNow(y)]
  /\ UNCHANGED <<leaseVars, mountPath, opening, held, root, children, rootPrim,
                 layerVars>>

\* CanRead looks at the file and answers either way.
Probe(y) ==
  /\ pc[y] = "probe"
  /\ UnwindOwned(y)

\* Seeded fault: the mount path is taken over unchecked while parsing.
Parse_Unchecked(y) ==
  /\ pc[y] = "prepare"
  /\ LET prim == CaeResolveRootPrimPath(LocalName(root[y]),
                   CaePrepareResolverArguments(mountPath[y]))
     IN rootPrim' = [rootPrim EXCEPT ![y] = IF prim = "error" THEN "mount" ELSE prim]
  /\ \E n \in 0..MaxChildren : children' = [children EXCEPT ![y] = n]
  /\ Goto(y, "children")
  /\ UNCHANGED <<leaseVars, call, mountPath, opening, held, root, layerVars,
                 before>>

\* The arguments are prepared; the reader parses them first, which throws when
\* the mount path is malformed, then the root file, which names the children.
Parse(y) ==
  /\ pc[y] = "prepare"
  /\ LET prim == CaeResolveRootPrimPath(LocalName(root[y]),
                   CaePrepareResolverArguments(mountPath[y]))
     IN /\ prim # "error"
        /\ rootPrim' = [rootPrim EXCEPT ![y] = prim]
  /\ \E n \in 0..MaxChildren : children' = [children EXCEPT ![y] = n]
  /\ Goto(y, "children")
  /\ UNCHANGED <<leaseVars, call, mountPath, opening, held, root, layerVars,
                 before>>

\* Malformed arguments or a malformed file, at any point of the parse.
ParseFails(y) ==
  /\ pc[y] \in {"prepare", "children"}
  /\ UnwindOwned(y)

OpenChild(y) ==
  /\ pc[y] = "children"
  /\ children[y] > 0
  /\ children' = [children EXCEPT ![y] = @ - 1]
  /\ Goto(y, "open")
  /\ UNCHANGED <<leaseVars, call, mountPath, opening, held, root, rootPrim,
                 layerVars, before>>

\* The structure is authored, and loaders are registered that capture the local
\* paths of the root and of the children.
RegisterLoaders(y) ==
  /\ pc[y] = "children"
  /\ children[y] = 0
  /\ pending' = [pending EXCEPT ![y] = [loaders |-> held[y], retained |-> {}]]
  /\ Goto(y, "keep_alive")
  /\ UNCHANGED <<leaseVars, call, mountPath, opening, held, root, children,
                 rootPrim, data, specs, defaultPrim, before>>

\* Seeded fault: only the root asset is retained.
KeepAlive_RootOnly(y) ==
  /\ pc[y] = "keep_alive"
  /\ pending' = [pending EXCEPT ![y].retained = {root[y]}]
  /\ Goto(y, "commit")
  /\ UNCHANGED <<leaseVars, call, mountPath, opening, held, root, children,
                 rootPrim, data, specs, defaultPrim, before>>

\* KeepAlive of the children's leases and of the root's.
KeepAlive(y) ==
  /\ pc[y] = "keep_alive"
  /\ pending' = [pending EXCEPT ![y].retained = held[y]]
  /\ Goto(y, "commit")
  /\ UNCHANGED <<leaseVars, call, mountPath, opening, held, root, children,
                 rootPrim, data, specs, defaultPrim, before>>

\* _SetLayerData: the data the layer had is destroyed with what it retained,
\* and its specs with it.
SetLayerData(y) ==
  /\ pc[y] = "commit"
  /\ data' = [data EXCEPT ![y] = pending[y]]
  /\ pending' = [pending EXCEPT ![y] = NoData]
  /\ specs' = [specs EXCEPT ![y] = "set"]
  /\ ReleaseUnowned(held, pending', data')
  /\ Goto(y, "place")
  /\ UNCHANGED <<call, mountPath, opening, held, root, children, rootPrim,
                 defaultPrim, before>>

\* CaeAuthorMountPathOvers at the root the identifier and the layer's own
\* arguments give; resolving that root throws on a malformed argument, after
\* the data was set.
Place(y) ==
  /\ pc[y] = "place"
  /\ LET prim == CaeResolveRootPrimPath("identifier", mountPath[y])
     IN IF prim = "error" THEN UnwindOwned(y)
        ELSE /\ defaultPrim' = [defaultPrim EXCEPT ![y] = prim]
             /\ Goto(y, "succeeded")
             /\ UNCHANGED <<leaseVars, call, mountPath, opening, held, root,
                            children, rootPrim, pending, data, specs, before>>

\* The call returns; its locals go.
Return(y) ==
  /\ pc[y] \in {"succeeded", "failed"}
  /\ Goto(y, "idle")
  /\ held' = [held EXCEPT ![y] = {}]
  /\ root' = [root EXCEPT ![y] = NoLease]
  /\ children' = [children EXCEPT ![y] = 0]
  /\ rootPrim' = [rootPrim EXCEPT ![y] = "none"]
  /\ mountPath' = [mountPath EXCEPT ![y] = "unset"]
  /\ before' = [before EXCEPT ![y] = [data |-> NoData, specs |-> "none",
                                     defaultPrim |-> "none"]]
  /\ ReleaseUnowned(held', pending, data)
  /\ UNCHANGED <<call, opening, layerVars>>

\* The layer is closed: its data goes, and what it retained with it.
CloseLayer(y) ==
  /\ pc[y] = "idle"
  /\ data[y] # NoData \/ specs[y] # "none"
  /\ data' = [data EXCEPT ![y] = NoData]
  /\ specs' = [specs EXCEPT ![y] = "none"]
  /\ defaultPrim' = [defaultPrim EXCEPT ![y] = "none"]
  /\ ReleaseUnowned(held, pending, data')
  /\ UNCHANGED <<pc, call, mountPath, opening, held, root, children, rootPrim,
                 pending, before>>

\* What calls of every reader have in common.
CallStep(y) ==
  \/ \E argument \in MountArguments : BeginRead(y, argument)
  \/ BeginCanRead(y)
  \/ OpenFails(y)
  \/ OpenInPlace(y)
  \/ MakeTmpSubdir(y)
  \/ CreateOutput(y)
  \/ CreateFails(y)
  \/ CopyChunk(y)
  \/ CopyFails(y)
  \/ CloseOutput(y)
  \/ Probe(y)
  \/ KeepAlive(y)
  \/ Return(y)
  \/ CloseLayer(y)

\* Read of the readers that parse the file themselves.
NativeStep(y) ==
  \/ Parse(y)
  \/ ParseFails(y)
  \/ OpenChild(y)
  \/ RegisterLoaders(y)
  \/ SetLayerData(y)
  \/ Place(y)

Next == \E y \in Layers : CallStep(y) \/ NativeStep(y)

Spec == Init /\ [][Next]_vars
-----------------------------------------------------------------------------
(* Properties.                                                             *)

\* A temporary directory is on disk only while somebody owns its lease or is
\* still filling it, or because the file system refused to remove it: no error
\* path, reload or closed layer leaves one behind.
NoOrphanDirectory ==
  \A l \in Leases :
    directory[l] = "present" => l \in Owned \/ \E y \in Layers : opening[y] = l

\* Deferred loaders find the file they captured: from registration to the end
\* of the layer data, every local path a loader reopens belongs to a lease
\* that is alive, and a copy is still in its directory.
LoadersFindTheirFile ==
  \A y \in Layers :
    \A l \in IF data[y] = NoData THEN {} ELSE data[y].loaders :
      /\ strategy[l] # "none"
      /\ strategy[l] = "copy" => directory[l] = "present"

\* A call that fails leaves the layer its data, loaders and leases alike:
\* nothing that can fail comes after the data is set, since the argument that
\* is resolved again then has been through the same check before.
FailedCallKeepsData ==
  \A y \in Layers : pc[y] = "failed" => data[y] = before[y].data

\* A layer that was read has as its default prim the root its structure was
\* authored under, whatever local path the resolver gave the file.  The one
\* exception is an empty mountPath, with which a native reader names its root
\* after the local path and the layer its default prim after the identifier.
DefaultPrimIsRoot ==
  \A y \in Layers : pc[y] = "succeeded" =>
    \/ defaultPrim[y] = rootPrim[y]
    \/ mountPath[y] = "empty" /\ rootPrim[y] = "local" /\ defaultPrim[y] = "identifier"

\* What asset_resolution.md says of the root: "A resolver-generated cache
\* filename would make that name unstable, so the shared reader runtime derives
\* the implicit mountPath from the original identifier".  An empty argument
\* counts as none where the root is resolved, and as one where it is derived.
RootIsFromIdentifier ==
  \A y \in Layers : pc[y] = "succeeded" => rootPrim[y] # "local"

\* A lease on a copy holds all the bytes of the asset.
CopyIsWhole ==
  \A y \in Layers : \A l \in held[y] :
    strategy[l] = "copy" => content[l] = Chunks
=============================================================================
