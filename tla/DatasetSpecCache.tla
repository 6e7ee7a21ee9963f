-------------------------- MODULE DatasetSpecCache --------------------------
(***************************************************************************)
(* The process-wide cache of parsed VTK dataset descriptions               *)
(* (vtk/src/DatasetSpecCache.{h,cpp}).                                     *)
(*                                                                         *)
(* Threads call GetOrParse(path).  A call computes the file's signature    *)
(* (size, modification time, hash of the first 64 KiB) with three separate *)
(* reads of the file and no lock held, then enters the critical section of *)
(* _mutex: a matching entry is a hit, a non-matching one is erased; if     *)
(* another thread is parsing the path the caller sleeps on that flight's   *)
(* condition variable, otherwise it becomes the leader, parses without the *)
(* lock and publishes.  Meanwhile other programs rewrite the files.        *)
(*                                                                         *)
(* A file's contents are abstracted to a version number that every rewrite *)
(* increases.  A DatasetSpec, or the exception that the parser raised, is  *)
(* abstracted to the version its parse read (the oldest one, when the      *)
(* parse itself straddles a rewrite).  Size, Mtime and Prefix say what a   *)
(* stat and a read of the prefix return for a version; they need not tell  *)
(* versions apart.  Every critical section is one action: the only wait    *)
(* inside one is the condition wait, which releases the mutex.             *)
(***************************************************************************)
EXTENDS Naturals, FiniteSets

CONSTANTS
  Threads,         \* callers of GetOrParse
  Paths,           \* resolved paths, the keys of the cache
  Flights,         \* pool of InFlight objects (their heap addresses)
  MaxCachedSpecs,  \* bound on the number of entries (16 in the code)
  MaxVersion,      \* bound on how often one file is rewritten
  Size, Mtime, Prefix,  \* what the file system reports for each version
  Content,         \* what a version of the file holds
  NoEntry, NoFlight, NoPath, NoOutcome

Version == 0..MaxVersion

\* The file system functions are total on the versions; the sentinels are not
\* members of the sets they extend.
ASSUME ConstantsAssumption ==
  /\ MaxCachedSpecs \in Nat \ {0}
  /\ MaxVersion \in Nat
  /\ Size \in [Version -> Nat]
  /\ Mtime \in [Version -> Nat]
  /\ Prefix \in [Version -> Nat]
  /\ NoFlight \notin Flights
  /\ NoPath \notin Paths

\* No two versions of a file have the same modification time.
MtimeNamesVersion ==
  \A v, w \in Version : Mtime[v] = Mtime[w] => v = w

VARIABLES
  file,      \* file[p]: current version of the file at p
  entries,   \* _entries
  inFlight,  \* _inFlight
  flight,    \* the InFlight objects, by address
  pc,        \* where each thread is in GetOrParse
  path,      \* its argument resolvedPath
  sig,       \* its local signature
  ref,       \* its local flight or waitFlight
  out,       \* what it parsed, and then what it returns or throws
  began      \* history: version of its file when the call began

vars == <<file, entries, inFlight, flight, pc, path, sig, ref, out, began>>

Signature == [resolvedPath : Paths \cup {NoPath}, fileSize : Nat,
              lastWriteTime : Nat, quickContentHash : Nat]

NoSignature == [resolvedPath |-> NoPath, fileSize |-> 0,
                lastWriteTime |-> 0, quickContentHash |-> 0]

Entry == [signature : Signature, spec : Version]

ASSUME EntryAssumption == NoEntry \notin Entry

Outcome == [kind : {"spec", "exception"}, version : Version]

\* A flight has an outcome once it is done.
InFlight ==
  [signature : Signature, done : {FALSE}, outcome : {NoOutcome}]
    \cup [signature : Signature, done : {TRUE}, outcome : Outcome]

NewFlight(s) == [signature |-> s, done |-> FALSE, outcome |-> NoOutcome]

SigSteps == {"file_size", "last_write_time", "quick_hash"}
LeaderSteps == {"parse", "publish"}
PCs == SigSteps \cup LeaderSteps
         \cup {"idle", "lookup", "asleep", "woken", "notify", "returned"}

\* Types of the variables; a thread holds a flight exactly while it waits for
\* one or leads one, and no call returns without a result.
TypeOK ==
  /\ file \in [Paths -> Version]
  /\ entries \in [Paths -> Entry \cup {NoEntry}]
  /\ inFlight \in [Paths -> Flights \cup {NoFlight}]
  /\ flight \in [Flights -> InFlight]
  /\ pc \in [Threads -> PCs]
  /\ path \in [Threads -> Paths \cup {NoPath}]
  /\ sig \in [Threads -> Signature]
  /\ ref \in [Threads -> Flights \cup {NoFlight}]
  /\ out \in [Threads -> Outcome \cup {NoOutcome}]
  /\ began \in [Threads -> Version]
  /\ \A t \in Threads :
       /\ pc[t] # "idle" => path[t] \in Paths
       /\ pc[t] \in {"publish", "notify", "returned"} => out[t] \in Outcome
       /\ pc[t] \in {"asleep", "woken", "parse", "publish", "notify"}
            <=> ref[t] \in Flights

Init ==
  /\ file = [p \in Paths |-> 0]
  /\ entries = [p \in Paths |-> NoEntry]
  /\ inFlight = [p \in Paths |-> NoFlight]
  /\ flight = [f \in Flights |-> NewFlight(NoSignature)]
  /\ pc = [t \in Threads |-> "idle"]
  /\ path = [t \in Threads |-> NoPath]
  /\ sig = [t \in Threads |-> NoSignature]
  /\ ref = [t \in Threads |-> NoFlight]
  /\ out = [t \in Threads |-> NoOutcome]
  /\ began = [t \in Threads |-> 0]

-----------------------------------------------------------------------------
(* Helpers of the source.                                                  *)

\* Seeded fault: the modification time is not compared.
SignaturesMatch_NoTime(lhs, rhs) ==
  /\ lhs.resolvedPath = rhs.resolvedPath
  /\ lhs.fileSize = rhs.fileSize
  /\ lhs.quickContentHash = rhs.quickContentHash

SignaturesMatch(lhs, rhs) ==
  /\ lhs.resolvedPath = rhs.resolvedPath
  /\ lhs.fileSize = rhs.fileSize
  /\ lhs.lastWriteTime = rhs.lastWriteTime
  /\ lhs.quickContentHash = rhs.quickContentHash

Cached(es) == {p \in Paths : es[p] # NoEntry}

\* Seeded fault: evicts one entry too late.
EvictIfNeeded_Late(es, protectedKey) ==
  IF Cardinality(Cached(es)) <= MaxCachedSpecs + 1 THEN {es}
  ELSE {[es EXCEPT ![p] = NoEntry] : p \in Cached(es) \ {protectedKey}}

\* Seeded fault: any entry may go, the new one included.
EvictIfNeeded_Any(es, protectedKey) ==
  IF Cardinality(Cached(es)) <= MaxCachedSpecs THEN {es}
  ELSE {[es EXCEPT ![p] = NoEntry] : p \in Cached(es)}

\* The maps eviction may leave: entries is an unordered_map, so which of the
\* unprotected entries goes first is not determined.
EvictIfNeeded(es, protectedKey) ==
  IF Cardinality(Cached(es)) <= MaxCachedSpecs
  THEN {es}
  ELSE {[p \in Paths |-> IF p \in keep THEN es[p] ELSE NoEntry] :
          keep \in {k \in SUBSET Cached(es) :
                      /\ Cardinality(k) = MaxCachedSpecs
                      /\ protectedKey \in k}}

\* An InFlight object lives while a shared_ptr refers to it.
FreeFlights ==
  {f \in Flights : /\ \A t \in Threads : ref[t] # f
                   /\ \A p \in Paths : inFlight[p] # f}

Goto(t, step) == pc' = [pc EXCEPT ![t] = step]

\* Thread t drops its shared_ptr; the last reference destroys the object.
DropFlight(t) ==
  /\ ref' = [ref EXCEPT ![t] = NoFlight]
  /\ flight' = [f \in Flights |->
                  IF f = ref[t] /\ \A u \in Threads \ {t} : ref[u] # f
                  THEN NewFlight(NoSignature) ELSE flight[f]]

\* Leave GetOrParse with outcome o; its locals die.
Finish(t, o) ==
  /\ Goto(t, "returned")
  /\ out' = [out EXCEPT ![t] = o]
  /\ sig' = [sig EXCEPT ![t] = NoSignature]
  /\ DropFlight(t)

-----------------------------------------------------------------------------
(* GetOrParse, step by step.                                               *)

Call(t, p) ==
  /\ pc[t] = "idle"
  /\ Goto(t, "file_size")
  /\ path' = [path EXCEPT ![t] = p]
  /\ began' = [began EXCEPT ![t] = file[p]]
  /\ UNCHANGED <<file, entries, inFlight, flight, sig, ref, out>>

\* ComputeFileSignature: status and size, then modification time, then hash.
ReadFileSize(t) ==
  /\ pc[t] = "file_size"
  /\ sig' = [sig EXCEPT ![t] = [resolvedPath |-> path[t],
                                fileSize |-> Size[file[path[t]]],
                                lastWriteTime |-> 0, quickContentHash |-> 0]]
  /\ Goto(t, "last_write_time")
  /\ UNCHANGED <<file, entries, inFlight, flight, path, ref, out, began>>

ReadLastWriteTime(t) ==
  /\ pc[t] = "last_write_time"
  /\ sig' = [sig EXCEPT ![t].lastWriteTime = Mtime[file[path[t]]]]
  /\ Goto(t, "quick_hash")
  /\ UNCHANGED <<file, entries, inFlight, flight, path, ref, out, began>>

ComputeQuickContentHash(t) ==
  /\ pc[t] = "quick_hash"
  /\ sig' = [sig EXCEPT ![t].quickContentHash = Prefix[file[path[t]]]]
  /\ Goto(t, "lookup")
  /\ UNCHANGED <<file, entries, inFlight, flight, path, ref, out, began>>

\* Any of the three may throw: no regular file, or it cannot be read.
SignatureFails(t) ==
  /\ pc[t] \in SigSteps
  /\ Finish(t, [kind |-> "exception", version |-> file[path[t]]])
  /\ UNCHANGED <<file, entries, inFlight, path, began>>

\* The critical section that starts with _entries.find.
IsHit(t) ==
  /\ entries[path[t]] # NoEntry
  /\ SignaturesMatch(entries[path[t]].signature, sig[t])

Hit(t) ==
  /\ pc[t] = "lookup"
  /\ IsHit(t)
  /\ Finish(t, [kind |-> "spec", version |-> entries[path[t]].spec])
  /\ UNCHANGED <<file, entries, inFlight, path, began>>

\* Miss, and another thread is parsing: erase the stale entry, sleep.
Join(t) ==
  /\ pc[t] = "lookup"
  /\ ~IsHit(t)
  /\ inFlight[path[t]] # NoFlight
  /\ entries' = [entries EXCEPT ![path[t]] = NoEntry]
  /\ ref' = [ref EXCEPT ![t] = inFlight[path[t]]]
  /\ Goto(t, IF flight[inFlight[path[t]]].done THEN "woken" ELSE "asleep")
  /\ UNCHANGED <<file, inFlight, flight, path, sig, out, began>>

\* Seeded fault: opens a flight although another one is under way.
Lead_Always(t) ==
  /\ pc[t] = "lookup"
  /\ ~IsHit(t)
  /\ entries' = [entries EXCEPT ![path[t]] = NoEntry]
  /\ \E f \in FreeFlights :
       /\ flight' = [flight EXCEPT ![f] = NewFlight(sig[t])]
       /\ inFlight' = [inFlight EXCEPT ![path[t]] = f]
       /\ ref' = [ref EXCEPT ![t] = f]
  /\ Goto(t, "parse")
  /\ UNCHANGED <<file, path, sig, out, began>>

\* Miss, and nobody is parsing: erase the stale entry, open a flight.
Lead(t) ==
  /\ pc[t] = "lookup"
  /\ ~IsHit(t)
  /\ inFlight[path[t]] = NoFlight
  /\ entries' = [entries EXCEPT ![path[t]] = NoEntry]
  /\ \E f \in FreeFlights :
       /\ flight' = [flight EXCEPT ![f] = NewFlight(sig[t])]
       /\ inFlight' = [inFlight EXCEPT ![path[t]] = f]
       /\ ref' = [ref EXCEPT ![t] = f]
  /\ Goto(t, "parse")
  /\ UNCHANGED <<file, path, sig, out, began>>

\* A condition variable may wake a waiter that nobody notified.
SpuriousWake(t) ==
  /\ pc[t] = "asleep"
  /\ Goto(t, "woken")
  /\ UNCHANGED <<file, entries, inFlight, flight, path, sig, ref, out, began>>

\* The waiter holds the mutex again: the predicate of wait is still false.
SleepAgain(t) ==
  /\ pc[t] = "woken"
  /\ ~flight[ref[t]].done
  /\ Goto(t, "asleep")
  /\ UNCHANGED <<file, entries, inFlight, flight, path, sig, ref, out, began>>

\* Seeded fault: trusts any wakeup.
TakeShared_AnyWakeup(t) ==
  /\ pc[t] = "woken"
  /\ SignaturesMatch(flight[ref[t]].signature, sig[t])
  /\ Finish(t, flight[ref[t]].outcome)
  /\ UNCHANGED <<file, entries, inFlight, path, began>>

\* Seeded fault: takes the flight's result whatever file state it is for.
TakeShared_AnySignature(t) ==
  /\ pc[t] = "woken"
  /\ flight[ref[t]].done
  /\ Finish(t, flight[ref[t]].outcome)
  /\ UNCHANGED <<file, entries, inFlight, path, began>>

\* The flight is done and was opened for the waiter's own signature.
TakeShared(t) ==
  /\ pc[t] = "woken"
  /\ flight[ref[t]].done
  /\ SignaturesMatch(flight[ref[t]].signature, sig[t])
  /\ Finish(t, flight[ref[t]].outcome)
  /\ UNCHANGED <<file, entries, inFlight, path, began>>

\* The flight parsed for another signature: continue the loop.
Retry(t) ==
  /\ pc[t] = "woken"
  /\ flight[ref[t]].done
  /\ ~SignaturesMatch(flight[ref[t]].signature, sig[t])
  /\ Goto(t, "file_size")
  /\ DropFlight(t)
  /\ UNCHANGED <<file, entries, inFlight, path, sig, out, began>>

\* parser.Parse, without the lock, succeeds or throws.
Parse(t) ==
  /\ pc[t] = "parse"
  /\ \E kind \in {"spec", "exception"} :
       out' = [out EXCEPT ![t] = [kind |-> kind, version |-> file[path[t]]]]
  /\ Goto(t, "publish")
  /\ UNCHANGED <<file, entries, inFlight, flight, path, sig, ref, began>>

\* Seeded fault: the path stays in _inFlight.
CloseFlight_KeepPath(t) ==
  /\ flight' = [flight EXCEPT ![ref[t]].outcome = out[t],
                              ![ref[t]].done = TRUE]
  /\ UNCHANGED inFlight
  /\ Goto(t, "notify")

CloseFlight(t) ==
  /\ flight' = [flight EXCEPT ![ref[t]].outcome = out[t],
                              ![ref[t]].done = TRUE]
  /\ inFlight' = [inFlight EXCEPT ![path[t]] = NoFlight]
  /\ Goto(t, "notify")

PublishSpec(t) ==
  /\ pc[t] = "publish"
  /\ out[t].kind = "spec"
  /\ entries' \in
       EvictIfNeeded([entries EXCEPT ![path[t]] =
                        [signature |-> sig[t], spec |-> out[t].version]],
                     path[t])
  /\ CloseFlight(t)
  /\ UNCHANGED <<file, path, sig, ref, out, began>>

\* Seeded fault: rethrows without notifying the waiters.
PublishException_Silent(t) ==
  /\ pc[t] = "publish"
  /\ out[t].kind = "exception"
  /\ flight' = [flight EXCEPT ![ref[t]].outcome = out[t],
                              ![ref[t]].done = TRUE]
  /\ inFlight' = [inFlight EXCEPT ![path[t]] = NoFlight]
  /\ Goto(t, "returned")
  /\ ref' = [ref EXCEPT ![t] = NoFlight]
  /\ UNCHANGED <<file, entries, path, sig, out, began>>

PublishException(t) ==
  /\ pc[t] = "publish"
  /\ out[t].kind = "exception"
  /\ CloseFlight(t)
  /\ UNCHANGED <<file, entries, path, sig, ref, out, began>>

\* Seeded fault: the flight is looked up again in inFlight after the unlock.
NotifyAll_ByPath(t) ==
  /\ pc[t] = "notify"
  /\ pc' = [u \in Threads |->
              IF u = t THEN "returned"
              ELSE IF pc[u] = "asleep" /\ ref[u] = inFlight[path[t]] THEN "woken"
              ELSE pc[u]]
  /\ sig' = [sig EXCEPT ![t] = NoSignature]
  /\ DropFlight(t)
  /\ UNCHANGED <<file, entries, inFlight, path, out, began>>

\* notify_all after the unlock, then return or rethrow.
NotifyAll(t) ==
  /\ pc[t] = "notify"
  /\ pc' = [u \in Threads |->
              IF u = t THEN "returned"
              ELSE IF pc[u] = "asleep" /\ ref[u] = ref[t] THEN "woken"
              ELSE pc[u]]
  /\ sig' = [sig EXCEPT ![t] = NoSignature]
  /\ DropFlight(t)
  /\ UNCHANGED <<file, entries, inFlight, path, out, began>>

\* The caller takes the result.
Return(t) ==
  /\ pc[t] = "returned"
  /\ Goto(t, "idle")
  /\ path' = [path EXCEPT ![t] = NoPath]
  /\ out' = [out EXCEPT ![t] = NoOutcome]
  /\ began' = [began EXCEPT ![t] = 0]
  /\ UNCHANGED <<file, entries, inFlight, flight, sig, ref>>

\* DatasetSpecCache::Clear leaves the flights alone.
Clear ==
  /\ entries' = [p \in Paths |-> NoEntry]
  /\ UNCHANGED <<file, inFlight, flight, pc, path, sig, ref, out, began>>

\* Another program rewrites the file at p.
Write(p) ==
  /\ file[p] < MaxVersion
  /\ file' = [file EXCEPT ![p] = file[p] + 1]
  /\ UNCHANGED <<entries, inFlight, flight, pc, path, sig, ref, out, began>>

-----------------------------------------------------------------------------
\* The steps a thread takes on its own once it is inside GetOrParse.
Step(t) ==
  \/ ReadFileSize(t) \/ ReadLastWriteTime(t) \/ ComputeQuickContentHash(t)
  \/ SignatureFails(t)
  \/ Hit(t) \/ Join(t) \/ Lead(t)
  \/ SleepAgain(t) \/ TakeShared(t) \/ Retry(t)
  \/ Parse(t) \/ PublishSpec(t) \/ PublishException(t)
  \/ NotifyAll(t) \/ Return(t)

Next ==
  \/ \E t \in Threads : Step(t) \/ SpuriousWake(t)
  \/ \E t \in Threads, p \in Paths : Call(t, p)
  \/ Clear
  \/ \E p \in Paths : Write(p)

Spec == Init /\ [][Next]_vars

\* The scheduler runs every thread that can move and hands it the mutex in
\* the end; it never has to wake a thread that nobody notified.
FairSpec == Spec /\ \A t \in Threads : WF_vars(Step(t))

-----------------------------------------------------------------------------
(* Properties.                                                             *)

\* At any moment at most one thread is between opening a flight for a path
\* and closing it, whatever the files do meanwhile ("single-flight behavior:
\* one thread parses while others wait", DatasetSpecCache.h:44).
SingleFlight ==
  \A t, u \in Threads :
    /\ pc[t] \in LeaderSteps
    /\ pc[u] \in LeaderSteps
    /\ path[t] = path[u]
    => t = u

\* A path listed in _inFlight has a live leader that will close it: the flight
\* is not done, and some thread is parsing that path with it.  A leftover
\* would make every later caller of the path sleep for ever.
InFlightHasLeader ==
  \A p \in Paths : inFlight[p] # NoFlight =>
    /\ ~flight[inFlight[p]].done
    /\ \E t \in Threads : /\ pc[t] \in LeaderSteps
                          /\ path[t] = p
                          /\ ref[t] = inFlight[p]

\* No lost wakeup: a sleeping thread waits for a flight that is still in
\* progress, or whose leader has closed it and is about to notify.
NoLostWakeup ==
  \A t \in Threads : pc[t] = "asleep" =>
    \E u \in Threads :
      /\ ref[u] = ref[t]
      /\ \/ pc[u] \in LeaderSteps /\ ~flight[ref[t]].done
         \/ pc[u] = "notify"

\* The inductive strengthening of the three: a leader's flight is the one
\* listed for its path and carries its signature, no two threads own one
\* flight, and a waiter's flight has an owner until the waiter is woken.
HasSignature == {"last_write_time", "quick_hash", "lookup", "asleep", "woken",
                 "parse", "publish"}
OwnerSteps == LeaderSteps \cup {"notify"}

FlightInv ==
  /\ \A t \in Threads : pc[t] \in LeaderSteps =>
       /\ inFlight[path[t]] = ref[t]
       /\ ~flight[ref[t]].done
       /\ flight[ref[t]].signature = sig[t]
  /\ \A t \in Threads : pc[t] = "notify" => flight[ref[t]].done
  /\ \A t, u \in Threads :
       (pc[t] \in OwnerSteps /\ pc[u] \in OwnerSteps /\ ref[t] = ref[u]) => t = u
  /\ InFlightHasLeader
  /\ \A t \in Threads :
       (pc[t] \in {"asleep", "woken"} /\ ~flight[ref[t]].done) =>
         \E u \in Threads : pc[u] \in LeaderSteps /\ ref[u] = ref[t]
  /\ \A t \in Threads :
       (pc[t] = "asleep" /\ flight[ref[t]].done) =>
         \E u \in Threads : pc[u] = "notify" /\ ref[u] = ref[t]
  /\ \A t \in Threads : ref[t] \in Flights =>
       flight[ref[t]].signature.resolvedPath = path[t]
  /\ \A t \in Threads : pc[t] \in HasSignature =>
       sig[t].resolvedPath = path[t]

\* What a call returns or throws was read from the file no earlier than the
\* call began: stale entries, and results shared by flights that other
\* threads opened, are rejected when the file changes (DatasetSpecCache.h:43).
FreshResult ==
  \A t \in Threads : pc[t] = "returned" =>
    began[t] <= out[t].version /\ out[t].version <= file[path[t]]

\* Its inductive strengthening: what an entry or a closed flight holds was
\* read no earlier than any version that carries the signature's time stamp,
\* and a caller's signature names a version of its own call.
NoLaterThan(s, v) ==
  \A w \in Version : Mtime[w] = s.lastWriteTime => w <= v

ThreadFresh(t) ==
  /\ pc[t] # "idle" => began[t] <= file[path[t]]
  /\ pc[t] \in HasSignature \ {"last_write_time"} =>
       \E w \in Version : /\ Mtime[w] = sig[t].lastWriteTime
                         /\ began[t] <= w
                         /\ w <= file[path[t]]
  /\ (ref[t] \in Flights /\ flight[ref[t]].done) =>
       /\ flight[ref[t]].outcome.version <= file[path[t]]
       /\ NoLaterThan(flight[ref[t]].signature, flight[ref[t]].outcome.version)
  /\ pc[t] = "publish" =>
       out[t].version <= file[path[t]] /\ NoLaterThan(sig[t], out[t].version)
  /\ pc[t] \in {"notify", "returned"} =>
       began[t] <= out[t].version /\ out[t].version <= file[path[t]]

EntryFresh(p) ==
  entries[p] # NoEntry =>
    /\ entries[p].spec <= file[p]
    /\ NoLaterThan(entries[p].signature, entries[p].spec)

FreshInv ==
  /\ \A t \in Threads : ThreadFresh(t)
  /\ \A p \in Paths : EntryFresh(p)

\* The same, on the contents instead of the versions: the result describes
\* what the file held at some moment of the call.
ResultWasCurrent ==
  \A t \in Threads : pc[t] = "returned" =>
    \E v \in began[t]..file[path[t]] : Content[v] = Content[out[t].version]

\* The cache never holds more than MaxCachedSpecs parsed files.
CacheBounded == Cardinality(Cached(entries)) <= MaxCachedSpecs

\* Publishing a spec never evicts that spec, and evicts another one only when
\* the cache was full without it (EvictIfNeeded's protected key).
EvictionProtectsNewest ==
  [][\A t \in Threads :
       (pc[t] = "publish" /\ pc'[t] = "notify" /\ out[t].kind = "spec") =>
          /\ entries'[path[t]] # NoEntry
          /\ (\E p \in Paths : entries[p] # NoEntry /\ entries'[p] = NoEntry)
               => Cardinality(Cached(entries')) = MaxCachedSpecs]_vars

\* What a caller sees of the cache: its status and, once it has one, its result.
Service == INSTANCE FileReadService WITH
  status <- [t \in Threads |-> IF pc[t] \in {"idle", "returned"}
                               THEN pc[t] ELSE "busy"],
  out <- [t \in Threads |-> IF pc[t] = "returned" THEN out[t] ELSE NoOutcome]

\* GetOrParse behaves like a service that reads the file itself during each
\* call: caching, sharing of flights, eviction and Clear are invisible.
ImplementsService == Service!Spec

\* Every call returns, if the files stop changing and the parser terminates:
\* no sleeper is forgotten and no caller retries for ever.
EveryCallReturns ==
  \A t \in Threads : (pc[t] # "idle") ~> (pc[t] = "idle")
=============================================================================
