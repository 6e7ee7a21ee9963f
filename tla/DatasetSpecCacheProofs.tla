----------------------- MODULE DatasetSpecCacheProofs -----------------------
(***************************************************************************)
(* Proofs about DatasetSpecCache for every number of threads, paths and    *)
(* file versions.                                                          *)
(***************************************************************************)
EXTENDS DatasetSpecCache, FiniteSetTheorems, TLAPS

\* The initial state of the cache is well typed.
LEMMA InitTypeOK == Init => TypeOK
  BY ConstantsAssumption
  DEF Init, TypeOK, Version, Signature, NoSignature, NewFlight, InFlight, PCs,
      SigSteps, LeaderSteps

\* A file that may be rewritten has a next version.
LEMMA NextVersion ==
  ASSUME NEW v \in Version, v < MaxVersion
  PROVE  v + 1 \in Version
<1>1. MaxVersion \in Nat
  BY ConstantsAssumption
<1> QED
  BY <1>1 DEF Version

\* A step of the signature keeps the types: it moves its thread on and changes
\* nothing but the signature, which keeps its type.
LEMMA SigStepTypeOK ==
  ASSUME TypeOK, NEW t \in Threads, pc[t] \in SigSteps,
         NEW s \in SigSteps \cup {"lookup"}, Goto(t, s),
         sig' \in [Threads -> Signature],
         UNCHANGED <<file, entries, inFlight, flight, path, ref, out, began>>
  PROVE  TypeOK'
<1>1. path[t] \in Paths /\ ref[t] \notin Flights
  BY DEF TypeOK, SigSteps
<1>2. s \in PCs /\ pc' = [pc EXCEPT ![t] = s]
  BY DEF Goto, PCs, SigSteps
<1>3. pc' \in [Threads -> PCs]
  BY <1>2 DEF TypeOK
<1>4. ASSUME NEW u \in Threads
      PROVE  /\ pc'[u] # "idle" => path'[u] \in Paths
             /\ pc'[u] \in {"publish", "notify", "returned"} => out'[u] \in Outcome
             /\ pc'[u] \in {"asleep", "woken", "parse", "publish", "notify"}
                  <=> ref'[u] \in Flights
  <2>1. CASE u = t
    BY <1>1, <1>2, <2>1 DEF TypeOK, SigSteps
  <2>2. CASE u # t
    BY <1>2, <2>2 DEF TypeOK
  <2> QED
    BY <2>1, <2>2
<1> QED
  BY <1>3, <1>4 DEF TypeOK

\* Every step of GetOrParse, Clear and every rewrite of a file keeps the types.
LEMMA NextTypeOK == TypeOK /\ [Next]_vars => TypeOK'
<1> SUFFICES ASSUME TypeOK, [Next]_vars
             PROVE  TypeOK'
  OBVIOUS
<1> USE ConstantsAssumption
<1>1. ASSUME NEW t \in Threads, NEW p \in Paths, Call(t, p)
      PROVE  TypeOK'
  BY <1>1 DEF Call, TypeOK, Goto, PCs, SigSteps
<1>2. ASSUME NEW t \in Threads, ReadFileSize(t)
      PROVE  TypeOK'
  <2>1. /\ path[t] \in Paths /\ Size[file[path[t]]] \in Nat
        /\ sig \in [Threads -> Signature]
    BY <1>2 DEF ReadFileSize, TypeOK
  <2>2. sig' \in [Threads -> Signature]
    BY <1>2, <2>1 DEF ReadFileSize, Signature
  <2> QED
    BY <1>2, <2>2, SigStepTypeOK DEF ReadFileSize, SigSteps
<1>3. ASSUME NEW t \in Threads, ReadLastWriteTime(t)
      PROVE  TypeOK'
  <2>1. /\ path[t] \in Paths /\ Mtime[file[path[t]]] \in Nat
        /\ sig \in [Threads -> Signature]
    BY <1>3 DEF ReadLastWriteTime, TypeOK
  <2>2. sig' \in [Threads -> Signature]
    BY <1>3, <2>1 DEF ReadLastWriteTime, Signature
  <2> QED
    BY <1>3, <2>2, SigStepTypeOK DEF ReadLastWriteTime, SigSteps
<1>4. ASSUME NEW t \in Threads, ComputeQuickContentHash(t)
      PROVE  TypeOK'
  <2>1. /\ path[t] \in Paths /\ Prefix[file[path[t]]] \in Nat
        /\ sig \in [Threads -> Signature]
    BY <1>4 DEF ComputeQuickContentHash, TypeOK
  <2>2. sig' \in [Threads -> Signature]
    BY <1>4, <2>1 DEF ComputeQuickContentHash, Signature
  <2> QED
    BY <1>4, <2>2, SigStepTypeOK DEF ComputeQuickContentHash, SigSteps
<1>5. ASSUME NEW t \in Threads, NEW o \in Outcome, Finish(t, o),
             path[t] \in Paths,
             UNCHANGED <<file, entries, inFlight, path, began>>
      PROVE  TypeOK'
  BY <1>5 DEF Finish, TypeOK, Goto, DropFlight, PCs, Signature, NoSignature,
     NewFlight, InFlight
<1>6. ASSUME NEW t \in Threads, SignatureFails(t)
      PROVE  TypeOK'
  BY <1>6, <1>5 DEF SignatureFails, TypeOK, Outcome, SigSteps
<1>7. ASSUME NEW t \in Threads, Hit(t)
      PROVE  TypeOK'
  BY <1>7, <1>5 DEF Hit, IsHit, TypeOK, Outcome, Entry
<1>8. ASSUME NEW t \in Threads, Join(t)
      PROVE  TypeOK'
  BY <1>8 DEF Join, TypeOK, Goto, PCs
<1>9. ASSUME NEW t \in Threads, Lead(t)
      PROVE  TypeOK'
  <2>1. PICK f \in FreeFlights :
          /\ flight' = [flight EXCEPT ![f] = NewFlight(sig[t])]
          /\ inFlight' = [inFlight EXCEPT ![path[t]] = f]
          /\ ref' = [ref EXCEPT ![t] = f]
    BY <1>9 DEF Lead
  <2>2. f \in Flights /\ NewFlight(sig[t]) \in InFlight
    BY DEF FreeFlights, NewFlight, InFlight, TypeOK
  <2>3. flight' \in [Flights -> InFlight]
    BY <2>1, <2>2 DEF TypeOK
  <2> QED
    BY <1>9, <2>1, <2>2, <2>3 DEF Lead, TypeOK, Goto, PCs, LeaderSteps
<1>10. ASSUME NEW t \in Threads, SpuriousWake(t)
       PROVE  TypeOK'
  BY <1>10 DEF SpuriousWake, TypeOK, Goto, PCs
<1>11. ASSUME NEW t \in Threads, SleepAgain(t)
       PROVE  TypeOK'
  BY <1>11 DEF SleepAgain, TypeOK, Goto, PCs
<1>12. ASSUME NEW t \in Threads, TakeShared(t)
       PROVE  TypeOK'
  <2>1. ref[t] \in Flights /\ path[t] \in Paths
    BY <1>12 DEF TakeShared, TypeOK
  <2>2. flight[ref[t]].outcome \in Outcome
    BY <1>12, <2>1 DEF TakeShared, TypeOK, InFlight
  <2> QED
    BY <1>12, <1>5, <2>1, <2>2 DEF TakeShared
<1>13. ASSUME NEW t \in Threads, Retry(t)
       PROVE  TypeOK'
  BY <1>13 DEF Retry, TypeOK, Goto, DropFlight, PCs, SigSteps, Signature,
     NoSignature, NewFlight, InFlight
<1>14. ASSUME NEW t \in Threads, Parse(t)
       PROVE  TypeOK'
  BY <1>14 DEF Parse, TypeOK, Goto, PCs, LeaderSteps, Outcome
<1>15. ASSUME NEW t \in Threads, pc[t] = "publish", CloseFlight(t),
              entries' \in [Paths -> Entry \cup {NoEntry}],
              UNCHANGED <<file, path, sig, ref, out, began>>
       PROVE  TypeOK'
  <2>1. ref[t] \in Flights /\ path[t] \in Paths /\ out[t] \in Outcome
    BY <1>15 DEF TypeOK
  <2>2. flight' \in [Flights -> InFlight]
    <3> DEFINE closed == [flight[ref[t]] EXCEPT !.outcome = out[t], !.done = TRUE]
    <3>1. flight[ref[t]] \in InFlight
      BY <2>1 DEF TypeOK
    <3>2. closed \in [signature : Signature, done : {TRUE}, outcome : Outcome]
      BY <2>1, <3>1 DEF InFlight
    <3>3. closed \in InFlight
      BY <3>2 DEF InFlight
    <3>4. flight' = [flight EXCEPT ![ref[t]] = closed]
      BY <1>15 DEF CloseFlight
    <3> QED
      BY <3>3, <3>4 DEF TypeOK
  <2> QED
    BY <1>15, <2>1, <2>2 DEF CloseFlight, TypeOK, Goto, PCs
<1>16. ASSUME NEW t \in Threads, PublishSpec(t)
       PROVE  TypeOK'
  <2> DEFINE new == [signature |-> sig[t], spec |-> out[t].version]
             es == [entries EXCEPT ![path[t]] = new]
  <2>1. path[t] \in Paths /\ new \in Entry
    BY <1>16 DEF PublishSpec, TypeOK, Outcome, Entry
  <2>2. es \in [Paths -> Entry \cup {NoEntry}]
    BY <2>1 DEF TypeOK
  <2>3. entries' \in EvictIfNeeded(es, path[t])
    BY <1>16 DEF PublishSpec
  <2> HIDE DEF es
  <2>4. entries' \in [Paths -> Entry \cup {NoEntry}]
    BY <2>2, <2>3 DEF EvictIfNeeded
  <2> QED
    BY <1>15, <1>16, <2>4 DEF PublishSpec
<1>17. ASSUME NEW t \in Threads, PublishException(t)
       PROVE  TypeOK'
  BY <1>15, <1>17 DEF PublishException, TypeOK
<1>175. ASSUME NEW t \in Threads, NotifyAll(t)
       PROVE  TypeOK'
  <2>1. sig' \in [Threads -> Signature]
    BY <1>175 DEF NotifyAll, TypeOK, Signature, NoSignature
  <2>2. flight' \in [Flights -> InFlight]
    BY <1>175 DEF NotifyAll, DropFlight, TypeOK, Signature, NoSignature,
       NewFlight, InFlight
  <2>3. ref' \in [Threads -> Flights \cup {NoFlight}]
    BY <1>175 DEF NotifyAll, DropFlight, TypeOK
  <2> QED
    BY <1>175, <2>1, <2>2, <2>3 DEF NotifyAll, DropFlight, TypeOK, PCs
<1>18. ASSUME NEW t \in Threads, Return(t)
       PROVE  TypeOK'
  <2>1. 0 \in Version
    BY DEF Version
  <2> QED
    BY <1>18, <2>1 DEF Return, TypeOK, Goto, PCs
<1>19. CASE Clear
  BY <1>19 DEF Clear, TypeOK
<1>20. ASSUME NEW p \in Paths, Write(p)
       PROVE  TypeOK'
  <2>1. file \in [Paths -> Version] /\ file[p] < MaxVersion
    BY <1>20 DEF Write, TypeOK
  <2>2. file[p] \in Version
    BY <2>1
  <2>3. file[p] + 1 \in Version
    BY <2>1, <2>2, NextVersion
  <2>4. file' \in [Paths -> Version]
    BY <1>20, <2>1, <2>3 DEF Write
  <2> QED
    BY <1>20, <2>4 DEF Write, TypeOK
<1>21. CASE UNCHANGED vars
  BY <1>21 DEF vars, TypeOK
<1> QED
  BY <1>1, <1>2, <1>3, <1>4, <1>6, <1>7, <1>8, <1>9, <1>10, <1>11, <1>12,
     <1>13, <1>14, <1>16, <1>17, <1>175, <1>18, <1>19, <1>20, <1>21
  DEF Next, Step

\* Types are right in every reachable state.
THEOREM TypeCorrect == Spec => []TypeOK
  BY InitTypeOK, NextTypeOK, PTL DEF Spec

-----------------------------------------------------------------------------
(* Flights: single flight, no orphan, no lost wakeup.                      *)

\* Dropping a reference leaves every flight that another thread holds alone.
LEMMA DropKeepsHeldFlights ==
  ASSUME TypeOK, NEW t \in Threads, DropFlight(t)
  PROVE  /\ ref'[t] = NoFlight
         /\ \A u \in Threads \ {t} :
              /\ ref'[u] = ref[u]
              /\ ref[u] \in Flights => flight'[ref[u]] = flight[ref[u]]
  BY DEF DropFlight, TypeOK

\* Before the first call no flight is held and none is listed.
LEMMA InitFlightInv == Init => FlightInv
  BY ConstantsAssumption
  DEF Init, FlightInv, InFlightHasLeader, LeaderSteps, OwnerSteps, HasSignature

\* Every step of GetOrParse keeps the bookkeeping of flights: who leads one, who
\* waits for one, and that a closed flight is about to notify.
LEMMA NextFlightInv == TypeOK /\ TypeOK' /\ FlightInv /\ [Next]_vars => FlightInv'
<1> SUFFICES ASSUME TypeOK, TypeOK', FlightInv, [Next]_vars
             PROVE  FlightInv'
  OBVIOUS
<1> USE ConstantsAssumption
<1> DEFINE Outside == {"idle", "lookup", "returned"} \cup SigSteps
<1>1. ASSUME NEW t \in Threads, pc[t] \in Outside, pc'[t] \in Outside,
             \A u \in Threads \ {t} :
               pc'[u] = pc[u] /\ path'[u] = path[u] /\ sig'[u] = sig[u],
             pc'[t] \in HasSignature => sig'[t].resolvedPath = path'[t],
             UNCHANGED <<inFlight, flight, ref>>
      PROVE  FlightInv'
  <2>1. ref[t] = NoFlight /\ ref[t] \notin Flights
    BY <1>1 DEF TypeOK, SigSteps
  <2>2. \A u \in Threads : pc'[u] \in LeaderSteps => u # t /\ pc[u] \in LeaderSteps
    BY <1>1 DEF SigSteps, LeaderSteps
  <2>3. \A u \in Threads : pc'[u] \in OwnerSteps => u # t /\ pc[u] \in OwnerSteps
    BY <1>1 DEF SigSteps, LeaderSteps, OwnerSteps
  <2>4. \A u \in Threads : pc[u] \in LeaderSteps => u # t /\ pc'[u] \in LeaderSteps
    BY <1>1 DEF SigSteps, LeaderSteps
  <2>5. InFlightHasLeader'
    BY <1>1, <2>4 DEF FlightInv, InFlightHasLeader
  <2> QED
    BY <1>1, <2>1, <2>2, <2>3, <2>4, <2>5 DEF FlightInv, SigSteps
<1>2. ASSUME NEW t \in Threads, DropFlight(t), pc[t] = "woken",
             flight[ref[t]].done,
             pc' = [pc EXCEPT ![t] = pc'[t]],
             pc'[t] \in {"returned", "file_size"},
             \A u \in Threads \ {t} : sig'[u] = sig[u],
             UNCHANGED <<path, inFlight>>
      PROVE  FlightInv'
  <2>1. /\ ref[t] \in Flights /\ ref'[t] = NoFlight
        /\ \A u \in Threads \ {t} :
             /\ ref'[u] = ref[u]
             /\ pc'[u] = pc[u]
             /\ ref[u] \in Flights => flight'[ref[u]] = flight[ref[u]]
    BY <1>2, DropKeepsHeldFlights DEF TypeOK
  <2>2. \A u \in Threads : pc'[u] \in OwnerSteps \cup {"asleep", "woken"} =>
          /\ u # t /\ pc[u] = pc'[u]
          /\ ref'[u] = ref[u] /\ flight'[ref[u]] = flight[ref[u]]
    BY <1>2, <2>1 DEF TypeOK, OwnerSteps, LeaderSteps
  <2>3. \A u \in Threads : pc[u] \in OwnerSteps =>
          /\ u # t /\ pc[u] = pc'[u]
          /\ ref'[u] = ref[u] /\ flight'[ref[u]] = flight[ref[u]]
    BY <1>2, <2>1 DEF TypeOK, OwnerSteps, LeaderSteps
  <2>4. InFlightHasLeader'
    BY <1>2, <2>3 DEF FlightInv, InFlightHasLeader, OwnerSteps
  <2>5. \A u \in Threads : pc'[u] \in HasSignature =>
           sig'[u].resolvedPath = path'[u]
    BY <1>2, <2>1 DEF FlightInv, HasSignature
  <2>6. \A u \in Threads : ref'[u] \in Flights =>
          flight'[ref'[u]].signature.resolvedPath = path'[u]
    BY <1>2, <2>1 DEF FlightInv
  <2> QED
    BY <1>2, <2>2, <2>3, <2>4, <2>5, <2>6 DEF FlightInv, OwnerSteps
<1>3. ASSUME NEW t \in Threads, NEW p \in Paths, Call(t, p)
      PROVE  FlightInv'
  BY <1>3, <1>1 DEF Call, Goto, TypeOK, HasSignature, SigSteps
<1>4. ASSUME NEW t \in Threads, ReadFileSize(t)
      PROVE  FlightInv'
  BY <1>4, <1>1 DEF ReadFileSize, Goto, TypeOK, SigSteps
<1>5. ASSUME NEW t \in Threads, ReadLastWriteTime(t)
      PROVE  FlightInv'
  <2>1. sig[t] \in Signature /\ sig[t].resolvedPath = path[t]
    BY <1>5 DEF ReadLastWriteTime, TypeOK, FlightInv, HasSignature
  <2>2. sig'[t].resolvedPath = path[t]
    BY <1>5, <2>1 DEF ReadLastWriteTime, TypeOK, Signature
  <2> QED
    BY <1>5, <1>1, <2>2 DEF ReadLastWriteTime, Goto, TypeOK, SigSteps
<1>6. ASSUME NEW t \in Threads, ComputeQuickContentHash(t)
      PROVE  FlightInv'
  <2>1. sig[t] \in Signature /\ sig[t].resolvedPath = path[t]
    BY <1>6 DEF ComputeQuickContentHash, TypeOK, FlightInv, HasSignature
  <2>2. sig'[t].resolvedPath = path[t]
    BY <1>6, <2>1 DEF ComputeQuickContentHash, TypeOK, Signature
  <2> QED
    BY <1>6, <1>1, <2>2 DEF ComputeQuickContentHash, Goto, TypeOK, SigSteps
<1>7. ASSUME NEW t \in Threads, NEW o, Finish(t, o), pc[t] \in Outside,
             UNCHANGED <<inFlight, path>>
      PROVE  FlightInv'
  <2>1. ref[t] = NoFlight
    BY <1>7 DEF TypeOK, SigSteps
  <2>2. flight' = flight /\ ref' = ref
    BY <1>7, <2>1 DEF Finish, DropFlight, TypeOK
  <2> QED
    BY <1>7, <2>2, <1>1 DEF Finish, Goto, TypeOK, HasSignature
<1>8. ASSUME NEW t \in Threads, SignatureFails(t)
      PROVE  FlightInv'
  BY <1>8, <1>7 DEF SignatureFails
<1>9. ASSUME NEW t \in Threads, Hit(t)
      PROVE  FlightInv'
  BY <1>9, <1>7 DEF Hit
<1>10. ASSUME NEW t \in Threads, Join(t)
       PROVE  FlightInv'
  <2> DEFINE f == inFlight[path[t]]
  <2>1. path[t] \in Paths /\ f \in Flights /\ f # NoFlight
    BY <1>10 DEF Join, TypeOK
  <2>2. PICK u \in Threads : pc[u] \in LeaderSteps /\ path[u] = path[t] /\ ref[u] = f
    BY <1>10, <2>1 DEF FlightInv, InFlightHasLeader
  <2>3. ~flight[f].done /\ u # t /\ flight[f].signature.resolvedPath = path[t]
    BY <1>10, <2>1, <2>2 DEF Join, FlightInv, LeaderSteps
  <2>4. /\ pc' = [pc EXCEPT ![t] = "asleep"]
        /\ ref' = [ref EXCEPT ![t] = f]
        /\ UNCHANGED <<inFlight, flight, path, sig>>
    BY <1>10, <2>3 DEF Join, Goto
  <2>5. pc[t] = "lookup" /\ ref[t] \notin Flights
    BY <1>10 DEF Join, TypeOK
  <2>6. \A v \in Threads : pc'[v] \in OwnerSteps <=> v # t /\ pc[v] \in OwnerSteps
    BY <2>4, <2>5 DEF TypeOK, OwnerSteps, LeaderSteps
  <2>7. \A v \in Threads : pc'[v] \in LeaderSteps <=> v # t /\ pc[v] \in LeaderSteps
    BY <2>4, <2>5 DEF TypeOK, LeaderSteps
  <2>8. InFlightHasLeader'
    BY <2>4, <2>5, <2>7 DEF FlightInv, InFlightHasLeader, TypeOK, LeaderSteps
  <2>9. \A v \in Threads : v # t => ref'[v] = ref[v] /\ pc'[v] = pc[v]
    BY <2>4 DEF TypeOK
  <2>10. ref'[t] = f /\ pc'[t] = "asleep"
    BY <2>4 DEF TypeOK
  <2> HIDE DEF f
  <2>11. \A v \in Threads :
           (pc'[v] \in {"asleep", "woken"} /\ ~flight'[ref'[v]].done) =>
             \E w \in Threads : pc'[w] \in LeaderSteps /\ ref'[w] = ref'[v]
    BY <2>2, <2>3, <2>4, <2>5, <2>7, <2>9, <2>10 DEF FlightInv, LeaderSteps
  <2>12. \A v \in Threads :
           (pc'[v] = "asleep" /\ flight'[ref'[v]].done) =>
             \E w \in Threads : pc'[w] = "notify" /\ ref'[w] = ref'[v]
    BY <2>3, <2>4, <2>5, <2>9, <2>10 DEF FlightInv
  <2> QED
    BY <2>3, <2>4, <2>5, <2>6, <2>7, <2>8, <2>9, <2>10, <2>11, <2>12
    DEF FlightInv, HasSignature
<1>11. ASSUME NEW t \in Threads, Lead(t)
       PROVE  FlightInv'
  <2>1. PICK f \in FreeFlights :
          /\ flight' = [flight EXCEPT ![f] = NewFlight(sig[t])]
          /\ inFlight' = [inFlight EXCEPT ![path[t]] = f]
          /\ ref' = [ref EXCEPT ![t] = f]
    BY <1>11 DEF Lead
  <2>2. /\ f \in Flights
        /\ \A u \in Threads : ref[u] # f
        /\ \A p \in Paths : inFlight[p] # f
    BY DEF FreeFlights
  <2>3. /\ pc[t] = "lookup" /\ path[t] \in Paths /\ inFlight[path[t]] = NoFlight
        /\ sig[t].resolvedPath = path[t]
        /\ UNCHANGED <<path, sig>>
    BY <1>11 DEF Lead, TypeOK, FlightInv, HasSignature
  <2>4. /\ pc'[t] = "parse" /\ ref'[t] = f
        /\ flight'[f].signature = sig[t] /\ ~flight'[f].done
        /\ inFlight'[path[t]] = f
    BY <1>11, <2>1, <2>2, <2>3 DEF Lead, Goto, TypeOK, NewFlight
  <2>5. \A u \in Threads : u # t =>
          /\ pc'[u] = pc[u] /\ ref'[u] = ref[u]
          /\ ref[u] \in Flights => flight'[ref[u]] = flight[ref[u]]
    BY <1>11, <2>1, <2>2 DEF Lead, Goto, TypeOK
  <2>6. \A u \in Threads : pc[u] \in LeaderSteps => u # t /\ path[u] # path[t]
    BY <2>2, <2>3 DEF FlightInv, TypeOK, LeaderSteps
  <2>7. \A p \in Paths : p # path[t] =>
          /\ inFlight'[p] = inFlight[p]
          /\ inFlight[p] \in Flights => flight'[inFlight[p]] = flight[inFlight[p]]
    BY <2>1, <2>2 DEF TypeOK
  <2>8. InFlightHasLeader'
    <3> SUFFICES ASSUME NEW p \in Paths, inFlight'[p] # NoFlight
                 PROVE  /\ ~flight'[inFlight'[p]].done
                        /\ \E u \in Threads : /\ pc'[u] \in LeaderSteps
                                              /\ path'[u] = p
                                              /\ ref'[u] = inFlight'[p]
      BY DEF InFlightHasLeader
    <3>1. CASE p = path[t]
      BY <2>3, <2>4, <3>1 DEF LeaderSteps
    <3>2. CASE p # path[t]
      BY <2>3, <2>5, <2>6, <2>7, <3>2 DEF FlightInv, InFlightHasLeader, TypeOK
    <3> QED
      BY <3>1, <3>2
  <2>9. \A u \in Threads : pc'[u] \in LeaderSteps =>
          /\ inFlight'[path'[u]] = ref'[u]
          /\ ~flight'[ref'[u]].done
          /\ flight'[ref'[u]].signature = sig'[u]
    <3> SUFFICES ASSUME NEW u \in Threads, pc'[u] \in LeaderSteps
                 PROVE  /\ inFlight'[path'[u]] = ref'[u]
                        /\ ~flight'[ref'[u]].done
                        /\ flight'[ref'[u]].signature = sig'[u]
      OBVIOUS
    <3>1. CASE u = t
      BY <2>3, <2>4, <3>1
    <3>2. CASE u # t
      <4>1. pc[u] \in LeaderSteps /\ path[u] # path[t] /\ path[u] \in Paths
            /\ ref[u] \in Flights
        BY <2>5, <2>6, <3>2 DEF TypeOK, LeaderSteps
      <4> QED
        BY <2>3, <2>5, <2>7, <3>2, <4>1 DEF FlightInv
    <3> QED
      BY <3>1, <3>2
  <2>10. \A u, v \in Threads :
           (pc'[u] \in OwnerSteps /\ pc'[v] \in OwnerSteps /\ ref'[u] = ref'[v])
             => u = v
    BY <2>2, <2>4, <2>5 DEF FlightInv
  <2>11. ASSUME NEW u \in Threads, pc'[u] \in {"asleep", "woken"},
                ~flight'[ref'[u]].done
         PROVE  \E v \in Threads : pc'[v] \in LeaderSteps /\ ref'[v] = ref'[u]
    <3>1. u # t /\ pc[u] \in {"asleep", "woken"} /\ ref[u] \in Flights
      BY <2>4, <2>5, <2>11 DEF TypeOK
    <3>2. PICK v \in Threads : pc[v] \in LeaderSteps /\ ref[v] = ref[u]
      BY <2>5, <2>11, <3>1 DEF FlightInv
    <3> QED
      BY <2>5, <2>6, <3>1, <3>2
  <2>12. \A u \in Threads :
           (pc'[u] = "asleep" /\ flight'[ref'[u]].done) =>
             \E v \in Threads : pc'[v] = "notify" /\ ref'[v] = ref'[u]
    <3> SUFFICES ASSUME NEW u \in Threads, pc'[u] = "asleep", flight'[ref'[u]].done
                 PROVE  \E v \in Threads : pc'[v] = "notify" /\ ref'[v] = ref'[u]
      OBVIOUS
    <3>1. /\ u # t /\ pc[u] = "asleep" /\ ref'[u] = ref[u]
          /\ ref[u] \in Flights /\ flight[ref[u]].done
      BY <2>4, <2>5 DEF TypeOK
    <3>2. PICK v \in Threads : pc[v] = "notify" /\ ref[v] = ref[u]
      BY <3>1 DEF FlightInv
    <3>3. v # t
      BY <2>3, <3>2
    <3> QED
      BY <2>5, <3>1, <3>2, <3>3
  <2>13. \A u \in Threads : pc'[u] = "notify" => flight'[ref'[u]].done
    BY <2>4, <2>5 DEF FlightInv, TypeOK
  <2>14. \A u \in Threads : ref'[u] \in Flights =>
           flight'[ref'[u]].signature.resolvedPath = path'[u]
    BY <2>3, <2>4, <2>5 DEF FlightInv
  <2>15. \A u \in Threads : pc'[u] \in HasSignature =>
           sig'[u].resolvedPath = path'[u]
    BY <2>3, <2>5 DEF FlightInv
  <2> QED
    BY <2>8, <2>9, <2>10, <2>11, <2>12, <2>13, <2>14, <2>15 DEF FlightInv
<1>12. ASSUME NEW t \in Threads, SpuriousWake(t)
       PROVE  FlightInv'
  BY <1>12 DEF SpuriousWake, Goto, TypeOK, FlightInv, InFlightHasLeader,
     LeaderSteps, OwnerSteps, HasSignature
<1>13. ASSUME NEW t \in Threads, SleepAgain(t)
       PROVE  FlightInv'
  BY <1>13 DEF SleepAgain, Goto, TypeOK, FlightInv, InFlightHasLeader,
     LeaderSteps, OwnerSteps, HasSignature
<1>14. ASSUME NEW t \in Threads, TakeShared(t)
       PROVE  FlightInv'
  BY <1>14, <1>2 DEF TakeShared, Finish, Goto, TypeOK
<1>15. ASSUME NEW t \in Threads, Retry(t)
       PROVE  FlightInv'
  BY <1>15, <1>2 DEF Retry, Goto, TypeOK
<1>16. ASSUME NEW t \in Threads, Parse(t)
       PROVE  FlightInv'
  BY <1>16 DEF Parse, Goto, TypeOK, FlightInv, InFlightHasLeader,
     LeaderSteps, OwnerSteps, HasSignature
<1>17. ASSUME NEW t \in Threads, pc[t] = "publish", CloseFlight(t),
              UNCHANGED <<path, sig, ref>>
       PROVE  FlightInv'
  <2> DEFINE f == ref[t]
  <2>1. path[t] \in Paths /\ f \in Flights /\ inFlight[path[t]] = f
    BY <1>17 DEF TypeOK, FlightInv, LeaderSteps
  <2>2. /\ pc'[t] = "notify" /\ inFlight'[path[t]] = NoFlight
        /\ flight'[f].done /\ flight'[f].signature = flight[f].signature
    BY <1>17, <2>1 DEF CloseFlight, Goto, TypeOK, InFlight
  <2>3. \A u \in Threads : u # t => pc'[u] = pc[u]
    BY <1>17 DEF CloseFlight, Goto, TypeOK
  <2>4. \A g \in Flights : g # f => flight'[g] = flight[g]
    BY <1>17 DEF CloseFlight, TypeOK
  <2>5. \A p \in Paths : p # path[t] => inFlight'[p] = inFlight[p]
    BY <1>17 DEF CloseFlight, TypeOK
  <2>6. \A u \in Threads : (u # t /\ pc[u] \in OwnerSteps) => ref[u] # f
    BY <1>17 DEF FlightInv, OwnerSteps, LeaderSteps
  <2>7. \A u \in Threads : (u # t /\ pc[u] \in LeaderSteps) =>
          path[u] \in Paths /\ path[u] # path[t] /\ ref[u] \in Flights
    BY <2>1, <2>6 DEF FlightInv, TypeOK, LeaderSteps, OwnerSteps
  <2> HIDE DEF f
  <2>8. InFlightHasLeader'
    <3> SUFFICES ASSUME NEW p \in Paths, inFlight'[p] # NoFlight
                 PROVE  /\ ~flight'[inFlight'[p]].done
                        /\ \E u \in Threads : /\ pc'[u] \in LeaderSteps
                                              /\ path'[u] = p
                                              /\ ref'[u] = inFlight'[p]
      BY DEF InFlightHasLeader
    <3>1. p # path[t] /\ inFlight'[p] = inFlight[p]
      BY <2>2, <2>5
    <3>2. PICK u \in Threads :
            ~flight[inFlight[p]].done /\ pc[u] \in LeaderSteps
              /\ path[u] = p /\ ref[u] = inFlight[p]
      BY <3>1 DEF FlightInv, InFlightHasLeader
    <3>3. u # t /\ ref[u] # f /\ ref[u] \in Flights
      BY <2>6, <2>7, <3>1, <3>2 DEF OwnerSteps
    <3> QED
      BY <1>17, <2>3, <2>4, <3>1, <3>2, <3>3
  <2>9. \A u \in Threads : pc'[u] \in LeaderSteps =>
          /\ inFlight'[path'[u]] = ref'[u]
          /\ ~flight'[ref'[u]].done
          /\ flight'[ref'[u]].signature = sig'[u]
    <3> SUFFICES ASSUME NEW u \in Threads, pc'[u] \in LeaderSteps
                 PROVE  /\ inFlight'[path'[u]] = ref'[u]
                        /\ ~flight'[ref'[u]].done
                        /\ flight'[ref'[u]].signature = sig'[u]
      OBVIOUS
    <3>1. u # t /\ pc[u] \in LeaderSteps
      BY <2>2, <2>3 DEF LeaderSteps
    <3>2. ref[u] # f /\ ref[u] \in Flights /\ path[u] \in Paths /\ path[u] # path[t]
      BY <2>6, <2>7, <3>1 DEF OwnerSteps
    <3> QED
      BY <1>17, <2>4, <2>5, <3>1, <3>2 DEF FlightInv
  <2>10. \A u \in Threads : pc'[u] = "notify" => flight'[ref'[u]].done
    BY <1>17, <2>1, <2>2, <2>3, <2>4 DEF FlightInv, f, TypeOK
  <2>11. \A u, v \in Threads :
           (pc'[u] \in OwnerSteps /\ pc'[v] \in OwnerSteps /\ ref'[u] = ref'[v])
             => u = v
    BY <1>17, <2>2, <2>3 DEF FlightInv, OwnerSteps, LeaderSteps
  <2>12. ASSUME NEW u \in Threads, pc'[u] \in {"asleep", "woken"}
         PROVE  /\ ~flight'[ref'[u]].done =>
                     \E v \in Threads : pc'[v] \in LeaderSteps /\ ref'[v] = ref'[u]
                /\ (pc'[u] = "asleep" /\ flight'[ref'[u]].done) =>
                     \E v \in Threads : pc'[v] = "notify" /\ ref'[v] = ref'[u]
    <3>1. u # t /\ pc[u] = pc'[u] /\ ref[u] \in Flights
      BY <2>2, <2>3, <2>12 DEF TypeOK
    <3>2. CASE ref[u] = f
      BY <1>17, <2>2, <3>2 DEF f
    <3>3. CASE ref[u] # f
      BY <1>17, <2>2, <2>3, <2>4, <2>12, <3>1, <3>3 DEF FlightInv, f
    <3> QED
      BY <3>2, <3>3
  <2>13. \A u \in Threads : ref'[u] \in Flights =>
           flight'[ref'[u]].signature.resolvedPath = path'[u]
    BY <1>17, <2>2, <2>4 DEF FlightInv
  <2>14. \A u \in Threads : pc'[u] \in HasSignature =>
           sig'[u].resolvedPath = path'[u]
    BY <1>17, <2>2, <2>3 DEF FlightInv, HasSignature
  <2> QED
    BY <2>8, <2>9, <2>10, <2>11, <2>12, <2>13, <2>14 DEF FlightInv
<1>18. ASSUME NEW t \in Threads, NotifyAll(t)
       PROVE  FlightInv'
  <2>1. /\ pc[t] = "notify" /\ ref[t] \in Flights /\ pc'[t] = "returned"
        /\ DropFlight(t) /\ UNCHANGED <<inFlight, path>>
        /\ ref'[t] = NoFlight
    BY <1>18, DropKeepsHeldFlights DEF NotifyAll, TypeOK
  <2>2. \A u \in Threads : u # t =>
          /\ ref'[u] = ref[u]
          /\ ref[u] \in Flights => flight'[ref[u]] = flight[ref[u]]
          /\ sig'[u] = sig[u]
          /\ pc'[u] = IF pc[u] = "asleep" /\ ref[u] = ref[t] THEN "woken" ELSE pc[u]
    BY <1>18, DropKeepsHeldFlights DEF NotifyAll, TypeOK
  <2>3. \A u \in Threads : pc'[u] \in OwnerSteps =>
          u # t /\ pc[u] = pc'[u] /\ ref[u] # ref[t] /\ ref[u] \in Flights
    BY <2>1, <2>2 DEF OwnerSteps, LeaderSteps, FlightInv, TypeOK
  <2>4. \A u \in Threads : pc[u] \in LeaderSteps => u # t /\ pc'[u] = pc[u]
    BY <2>1, <2>2 DEF LeaderSteps
  <2>5. InFlightHasLeader'
    <3> SUFFICES ASSUME NEW p \in Paths, inFlight'[p] # NoFlight
                 PROVE  /\ ~flight'[inFlight'[p]].done
                        /\ \E u \in Threads : /\ pc'[u] \in LeaderSteps
                                              /\ path'[u] = p
                                              /\ ref'[u] = inFlight'[p]
      BY DEF InFlightHasLeader
    <3>1. PICK u \in Threads :
            ~flight[inFlight[p]].done /\ pc[u] \in LeaderSteps
              /\ path[u] = p /\ ref[u] = inFlight[p]
      BY <2>1 DEF FlightInv, InFlightHasLeader
    <3>2. u # t /\ pc'[u] = pc[u] /\ ref[u] \in Flights
      BY <2>4, <3>1 DEF TypeOK, LeaderSteps
    <3> QED
      BY <2>1, <2>2, <3>1, <3>2
  <2>6. \A u \in Threads : pc'[u] \in LeaderSteps =>
          /\ inFlight'[path'[u]] = ref'[u]
          /\ ~flight'[ref'[u]].done
          /\ flight'[ref'[u]].signature = sig'[u]
    BY <2>1, <2>2, <2>3 DEF FlightInv, OwnerSteps
  <2>7. \A u \in Threads : pc'[u] = "notify" => flight'[ref'[u]].done
    BY <2>1, <2>2, <2>3 DEF FlightInv, OwnerSteps
  <2>8. \A u, v \in Threads :
          (pc'[u] \in OwnerSteps /\ pc'[v] \in OwnerSteps /\ ref'[u] = ref'[v])
            => u = v
    BY <2>2, <2>3 DEF FlightInv
  <2>9. ASSUME NEW u \in Threads, pc'[u] \in {"asleep", "woken"}
        PROVE  /\ ~flight'[ref'[u]].done =>
                    \E v \in Threads : pc'[v] \in LeaderSteps /\ ref'[v] = ref'[u]
               /\ (pc'[u] = "asleep" /\ flight'[ref'[u]].done) =>
                    \E v \in Threads : pc'[v] = "notify" /\ ref'[v] = ref'[u]
    <3>1. u # t /\ pc[u] \in {"asleep", "woken"} /\ ref[u] \in Flights
      BY <2>1, <2>2, <2>9 DEF TypeOK
    <3>2. flight'[ref'[u]] = flight[ref[u]] /\ ref'[u] = ref[u]
      BY <2>2, <3>1
    <3>3. ASSUME ~flight[ref[u]].done
          PROVE  \E v \in Threads : pc'[v] \in LeaderSteps /\ ref'[v] = ref[u]
      BY <2>2, <2>4, <3>1, <3>3 DEF FlightInv
    <3>4. ASSUME pc'[u] = "asleep", flight[ref[u]].done
          PROVE  \E v \in Threads : pc'[v] = "notify" /\ ref'[v] = ref[u]
      <4>1. pc[u] = "asleep" /\ ref[u] # ref[t]
        BY <2>2, <3>1, <3>4
      <4>2. PICK v \in Threads : pc[v] = "notify" /\ ref[v] = ref[u]
        BY <3>4, <4>1 DEF FlightInv
      <4> QED
        BY <2>2, <4>1, <4>2
    <3> QED
      BY <3>2, <3>3, <3>4
  <2>10. \A u \in Threads : ref'[u] \in Flights =>
           flight'[ref'[u]].signature.resolvedPath = path'[u]
    BY <2>1, <2>2 DEF FlightInv
  <2>11. \A u \in Threads : pc'[u] \in HasSignature =>
           sig'[u].resolvedPath = path'[u]
    BY <2>1, <2>2 DEF FlightInv, HasSignature
  <2> QED
    BY <2>5, <2>6, <2>7, <2>8, <2>9, <2>10, <2>11 DEF FlightInv
<1>19. ASSUME NEW t \in Threads, Return(t)
       PROVE  FlightInv'
  BY <1>19, <1>1 DEF Return, Goto, TypeOK, HasSignature
<1>20. CASE Clear
  BY <1>20 DEF Clear, FlightInv, InFlightHasLeader
<1>21. ASSUME NEW p \in Paths, Write(p)
       PROVE  FlightInv'
  BY <1>21 DEF Write, FlightInv, InFlightHasLeader
<1>22. CASE UNCHANGED vars
  BY <1>22 DEF vars, FlightInv, InFlightHasLeader
<1> QED
  BY <1>3, <1>4, <1>5, <1>6, <1>8, <1>9, <1>10, <1>11, <1>12, <1>13, <1>14,
     <1>15, <1>16, <1>17, <1>18, <1>19, <1>20, <1>21, <1>22
  DEF Next, Step, PublishSpec, PublishException

\* Single flight: no two threads parse one path at the same time.
THEOREM SingleFlightCorrect == Spec => []SingleFlight
<1>1. TypeOK /\ FlightInv => SingleFlight
  BY DEF FlightInv, SingleFlight, LeaderSteps, OwnerSteps
<1> QED
  BY <1>1, InitTypeOK, NextTypeOK, InitFlightInv, NextFlightInv, PTL DEF Spec

\* A path in _inFlight always has a live leader that will close it.
THEOREM InFlightHasLeaderCorrect == Spec => []InFlightHasLeader
<1>1. FlightInv => InFlightHasLeader
  BY DEF FlightInv
<1> QED
  BY <1>1, InitTypeOK, NextTypeOK, InitFlightInv, NextFlightInv, PTL DEF Spec

\* No lost wakeup: a sleeper's flight is in progress or about to notify.
THEOREM NoLostWakeupCorrect == Spec => []NoLostWakeup
<1>1. TypeOK /\ FlightInv => NoLostWakeup
  BY DEF FlightInv, NoLostWakeup
<1> QED
  BY <1>1, InitTypeOK, NextTypeOK, InitFlightInv, NextFlightInv, PTL DEF Spec

-----------------------------------------------------------------------------
(* Freshness, when no two versions of a file share a modification time.    *)

\* File versions are numbers, so they can be compared.
LEMMA VersionInNat == Version \subseteq Nat
  BY ConstantsAssumption DEF Version

\* Eviction drops entries and changes none.
LEMMA EvictionOnlyDrops ==
  ASSUME NEW es \in [Paths -> Entry \cup {NoEntry}], NEW key,
         NEW left \in EvictIfNeeded(es, key)
  PROVE  \A p \in Paths : left[p] = es[p] \/ left[p] = NoEntry
  BY DEF EvictIfNeeded

\* An empty cache holds nothing that is stale.
LEMMA InitFreshInv == Init => FreshInv
  BY ConstantsAssumption
  DEF Init, FreshInv, ThreadFresh, EntryFresh, HasSignature

\* Nothing changes for a thread whose locals and flight stay the same, however
\* often the files are rewritten.
LEMMA ThreadFreshFrame ==
  ASSUME TypeOK, TypeOK', NEW u \in Threads, ThreadFresh(u),
         \/ pc'[u] = pc[u]
         \/ pc[u] \in {"asleep", "woken"} /\ pc'[u] \in {"asleep", "woken"},
         path'[u] = path[u], sig'[u] = sig[u], out'[u] = out[u],
         began'[u] = began[u], ref'[u] = ref[u],
         ref[u] \in Flights => flight'[ref[u]] = flight[ref[u]],
         \A p \in Paths : file[p] <= file'[p]
  PROVE  ThreadFresh(u)'
<1> USE ConstantsAssumption, VersionInNat
<1>1. CASE pc[u] = "idle"
  BY <1>1 DEF ThreadFresh, TypeOK, HasSignature
<1>2. CASE pc[u] # "idle"
  <2>1. path[u] \in Paths /\ file[path[u]] \in Nat /\ file'[path[u]] \in Nat
        /\ file[path[u]] <= file'[path[u]] /\ began[u] \in Nat
    BY <1>2 DEF TypeOK
  <2>2. (ref[u] \in Flights /\ flight[ref[u]].done) =>
          flight[ref[u]].outcome.version \in Nat
    BY DEF TypeOK, InFlight, Outcome
  <2>3. pc[u] \in {"publish", "notify", "returned"} => out[u].version \in Nat
    BY DEF TypeOK, Outcome
  <2>4. pc'[u] # "idle" => began'[u] <= file'[path'[u]]
    BY <1>2, <2>1 DEF ThreadFresh
  <2>5. pc'[u] \in HasSignature \ {"last_write_time"} =>
          \E w \in Version : /\ Mtime[w] = sig'[u].lastWriteTime
                            /\ began'[u] <= w
                            /\ w <= file'[path'[u]]
    BY <2>1 DEF ThreadFresh, HasSignature
  <2>6. (ref'[u] \in Flights /\ flight'[ref'[u]].done) =>
          /\ flight'[ref'[u]].outcome.version <= file'[path'[u]]
          /\ NoLaterThan(flight'[ref'[u]].signature,
                         flight'[ref'[u]].outcome.version)
    BY <2>1, <2>2 DEF ThreadFresh
  <2>7. pc'[u] = "publish" =>
          out'[u].version <= file'[path'[u]] /\ NoLaterThan(sig'[u], out'[u].version)
    BY <2>1, <2>3 DEF ThreadFresh
  <2>8. pc'[u] \in {"notify", "returned"} =>
          began'[u] <= out'[u].version /\ out'[u].version <= file'[path'[u]]
    BY <2>1, <2>3 DEF ThreadFresh
  <2> QED
    BY <2>4, <2>5, <2>6, <2>7, <2>8 DEF ThreadFresh, NoLaterThan
<1> QED
  BY <1>1, <1>2

\* A cache entry that is kept or dropped stays fresh.
LEMMA EntryFreshFrame ==
  ASSUME TypeOK, TypeOK', NEW p \in Paths, EntryFresh(p),
         entries'[p] = entries[p] \/ entries'[p] = NoEntry,
         file[p] <= file'[p]
  PROVE  EntryFresh(p)'
<1>1. file[p] \in Nat /\ file'[p] \in Nat
  BY ConstantsAssumption, VersionInNat DEF TypeOK
<1>2. CASE entries'[p] = NoEntry
  BY <1>2 DEF EntryFresh
<1>3. CASE entries'[p] = entries[p] /\ entries[p] # NoEntry
  <2>1. entries[p].spec \in Nat
    BY <1>3, ConstantsAssumption, VersionInNat DEF TypeOK, Entry
  <2> QED
    BY <1>1, <1>3, <2>1 DEF EntryFresh, NoLaterThan
<1> QED
  BY <1>2, <1>3

\* Every step keeps signatures, entries and flights as fresh as they claim.
LEMMA NextFreshInv ==
  ASSUME MtimeNamesVersion, TypeOK, TypeOK', FlightInv, FlightInv', FreshInv,
         [Next]_vars
  PROVE  FreshInv'
<1> USE ConstantsAssumption, VersionInNat
<1> DEFINE Others(t) ==
      \A u \in Threads \ {t} :
        /\ pc'[u] = pc[u] /\ path'[u] = path[u] /\ sig'[u] = sig[u]
        /\ out'[u] = out[u] /\ began'[u] = began[u] /\ ref'[u] = ref[u]
        /\ ref[u] \in Flights => flight'[ref[u]] = flight[ref[u]]
<1>1. ASSUME NEW t \in Threads, Others(t), ThreadFresh(t)', file' = file,
             \A p \in Paths : entries'[p] = entries[p] \/ entries'[p] = NoEntry
      PROVE  FreshInv'
  <2>1. \A p \in Paths : file[p] <= file'[p]
    <3>1. \A p \in Paths : file[p] \in Nat
      BY DEF TypeOK
    <3> QED
      BY <1>1, <3>1
  <2>2. \A u \in Threads \ {t} : ThreadFresh(u)'
    BY <1>1, <2>1, ThreadFreshFrame DEF FreshInv
  <2>3. \A p \in Paths : EntryFresh(p)'
    BY <1>1, <2>1, EntryFreshFrame DEF FreshInv
  <2> QED
    BY <1>1, <2>2, <2>3 DEF FreshInv
<1>2. \A t \in Threads : pc[t] # "idle" =>
        path[t] \in Paths /\ file[path[t]] \in Version /\ began[t] <= file[path[t]]
  BY DEF TypeOK, FreshInv, ThreadFresh
\* A thread leaves with a result that lies in the window of its call.
<1>3. ASSUME NEW t \in Threads, NEW o, Finish(t, o), pc[t] # "idle",
             began[t] <= o.version, o.version <= file[path[t]],
             UNCHANGED <<file, entries, path, began>>
      PROVE  FreshInv'
  <2>1. /\ pc'[t] = "returned" /\ out'[t] = o /\ ref'[t] = NoFlight
        /\ \A u \in Threads \ {t} :
             pc'[u] = pc[u] /\ out'[u] = out[u] /\ sig'[u] = sig[u]
    BY <1>3, DropKeepsHeldFlights DEF Finish, Goto, TypeOK
  <2>2. Others(t)
    BY <1>3, <2>1, DropKeepsHeldFlights DEF Finish
  <2>3. ThreadFresh(t)'
    BY <1>2, <1>3, <2>1 DEF ThreadFresh, HasSignature
  <2> QED
    BY <1>1, <1>3, <2>2, <2>3
\* What was read no earlier than the matching signature says is no older than
\* the call.
<1>4. ASSUME NEW t \in Threads, NEW s, NEW v \in Version,
             pc[t] \in {"lookup", "woken", "publish"},
             s.lastWriteTime = sig[t].lastWriteTime, NoLaterThan(s, v)
      PROVE  began[t] <= v
  <2>1. PICK w \in Version : Mtime[w] = sig[t].lastWriteTime /\ began[t] <= w
    BY <1>4 DEF FreshInv, ThreadFresh, HasSignature
  <2>2. w <= v
    BY <1>4, <2>1 DEF NoLaterThan
  <2>3. began[t] \in Nat /\ w \in Nat /\ v \in Nat
    BY DEF TypeOK
  <2> QED
    BY <2>1, <2>2, <2>3
<1>5. ASSUME NEW t \in Threads, NEW p \in Paths, Call(t, p)
      PROVE  FreshInv'
  <2>1. Others(t)
    BY <1>5 DEF Call, Goto, TypeOK
  <2>2. /\ file[p] \in Nat /\ file'[p] = file[p] /\ began'[t] = file[p]
        /\ path'[t] = p /\ pc'[t] = "file_size"
    BY <1>5 DEF Call, Goto, TypeOK
  <2>3. ref'[t] = ref[t] /\ ref[t] \notin Flights
    BY <1>5 DEF Call, TypeOK
  <2>4. ThreadFresh(t)'
    BY <2>2, <2>3 DEF ThreadFresh, HasSignature
  <2> QED
    BY <1>1, <1>5, <2>1, <2>4 DEF Call
<1>6. ASSUME NEW t \in Threads, ReadFileSize(t)
      PROVE  FreshInv'
  <2>1. Others(t) /\ pc'[t] = "last_write_time" /\ ref[t] \notin Flights
    BY <1>6 DEF ReadFileSize, Goto, TypeOK
  <2>2. ThreadFresh(t)'
    BY <1>2, <1>6, <2>1 DEF ReadFileSize, ThreadFresh, HasSignature
  <2> QED
    BY <1>1, <1>6, <2>1, <2>2 DEF ReadFileSize
<1>7. ASSUME NEW t \in Threads, ReadLastWriteTime(t)
      PROVE  FreshInv'
  <2>1. Others(t) /\ pc'[t] = "quick_hash" /\ ref[t] \notin Flights
    BY <1>7 DEF ReadLastWriteTime, Goto, TypeOK
  <2>2. sig'[t].lastWriteTime = Mtime[file[path[t]]]
    BY <1>7 DEF ReadLastWriteTime, TypeOK, Signature
  <2>3. file[path[t]] <= file[path[t]]
    BY <1>2, <1>7 DEF ReadLastWriteTime
  <2>4. ThreadFresh(t)'
    BY <1>2, <1>7, <2>1, <2>2, <2>3 DEF ReadLastWriteTime, ThreadFresh, HasSignature
  <2> QED
    BY <1>1, <1>7, <2>1, <2>4 DEF ReadLastWriteTime
<1>8. ASSUME NEW t \in Threads, ComputeQuickContentHash(t)
      PROVE  FreshInv'
  <2>1. Others(t) /\ pc'[t] = "lookup" /\ ref[t] \notin Flights
    BY <1>8 DEF ComputeQuickContentHash, Goto, TypeOK
  <2>2. sig'[t].lastWriteTime = sig[t].lastWriteTime
    BY <1>8 DEF ComputeQuickContentHash, TypeOK, Signature
  <2>3. ThreadFresh(t)
    BY DEF FreshInv
  <2>4. ThreadFresh(t)'
    BY <1>2, <1>8, <2>1, <2>2, <2>3
    DEF ComputeQuickContentHash, ThreadFresh, HasSignature
  <2> QED
    BY <1>1, <1>8, <2>1, <2>4 DEF ComputeQuickContentHash
<1>9. ASSUME NEW t \in Threads, SignatureFails(t)
      PROVE  FreshInv'
  <2> DEFINE o == [kind |-> "exception", version |-> file[path[t]]]
  <2>1. began[t] <= o.version /\ o.version <= file[path[t]] /\ pc[t] # "idle"
    <3>1. pc[t] # "idle"
      BY <1>9 DEF SignatureFails, SigSteps
    <3>2. file[path[t]] \in Nat /\ began[t] <= file[path[t]]
      BY <1>2, <3>1
    <3> QED
      BY <3>1, <3>2
  <2>2. Finish(t, o) /\ UNCHANGED <<file, entries, path, began>>
    BY <1>9 DEF SignatureFails
  <2> HIDE DEF o
  <2> QED
    BY <1>3, <2>1, <2>2
<1>10. ASSUME NEW t \in Threads, Hit(t)
       PROVE  FreshInv'
  <2> DEFINE e == entries[path[t]]
             o == [kind |-> "spec", version |-> e.spec]
  <2>1. path[t] \in Paths /\ e # NoEntry /\ e \in Entry /\ e.spec \in Version
    BY <1>10 DEF Hit, IsHit, TypeOK, Entry
  <2>2. e.spec <= file[path[t]] /\ NoLaterThan(e.signature, e.spec)
    BY <2>1 DEF FreshInv, EntryFresh
  <2>3. began[t] <= e.spec
    BY <1>4, <1>10, <2>1, <2>2 DEF Hit, IsHit, SignaturesMatch
  <2>4. o.version = e.spec /\ Finish(t, o) /\ pc[t] # "idle"
    BY <1>10 DEF Hit
  <2> HIDE DEF o, e
  <2> QED
    BY <1>3, <1>10, <2>2, <2>3, <2>4 DEF Hit
<1>11. ASSUME NEW t \in Threads, TakeShared(t)
       PROVE  FreshInv'
  <2>1. ref[t] \in Flights /\ flight[ref[t]].outcome \in Outcome
    BY <1>11 DEF TakeShared, TypeOK, InFlight
  <2>2. flight[ref[t]].outcome.version \in Version
    BY <2>1 DEF Outcome
  <2>3. /\ flight[ref[t]].outcome.version <= file[path[t]]
        /\ NoLaterThan(flight[ref[t]].signature, flight[ref[t]].outcome.version)
    BY <1>11, <2>1 DEF TakeShared, FreshInv, ThreadFresh
  <2>4. began[t] <= flight[ref[t]].outcome.version
    BY <1>4, <1>11, <2>2, <2>3 DEF TakeShared, SignaturesMatch
  <2> QED
    BY <1>3, <1>11, <2>3, <2>4 DEF TakeShared
<1>12. ASSUME NEW t \in Threads, Join(t)
       PROVE  FreshInv'
  <2> DEFINE f == inFlight[path[t]]
  <2>1. path[t] \in Paths /\ f \in Flights /\ ~flight[f].done
    BY <1>12 DEF Join, TypeOK, FlightInv, InFlightHasLeader
  <2>2. Others(t) /\ ref'[t] = f /\ pc'[t] = "asleep"
    BY <1>12, <2>1 DEF Join, Goto, TypeOK
  <2>3. ThreadFresh(t)
    BY DEF FreshInv
  <2>4. ThreadFresh(t)'
    BY <1>2, <1>12, <2>1, <2>2, <2>3 DEF Join, ThreadFresh, HasSignature
  <2>5. \A p \in Paths : entries'[p] = entries[p] \/ entries'[p] = NoEntry
    BY <1>12 DEF Join, TypeOK
  <2> QED
    BY <1>1, <1>12, <2>2, <2>4, <2>5 DEF Join
<1>13. ASSUME NEW t \in Threads, Lead(t)
       PROVE  FreshInv'
  <2>1. PICK f \in FreeFlights :
          flight' = [flight EXCEPT ![f] = NewFlight(sig[t])]
            /\ ref' = [ref EXCEPT ![t] = f]
    BY <1>13 DEF Lead
  <2>2. f \in Flights /\ \A u \in Threads : ref[u] # f
    BY DEF FreeFlights
  <2>3. Others(t) /\ ref'[t] = f /\ pc'[t] = "parse" /\ ~flight'[f].done
    BY <1>13, <2>1, <2>2 DEF Lead, Goto, TypeOK, NewFlight
  <2>4. ThreadFresh(t)
    BY DEF FreshInv
  <2>5. ThreadFresh(t)'
    BY <1>2, <1>13, <2>3, <2>4 DEF Lead, ThreadFresh, HasSignature
  <2>6. \A p \in Paths : entries'[p] = entries[p] \/ entries'[p] = NoEntry
    BY <1>13 DEF Lead, TypeOK
  <2> QED
    BY <1>1, <1>13, <2>3, <2>5, <2>6 DEF Lead
<1>14. ASSUME NEW t \in Threads, SpuriousWake(t) \/ SleepAgain(t)
       PROVE  FreshInv'
  <2>1. /\ Others(t)
        /\ pc[t] \in {"asleep", "woken"} /\ pc'[t] \in {"asleep", "woken"}
        /\ UNCHANGED <<file, entries, flight, path, sig, ref, out, began>>
    BY <1>14 DEF SpuriousWake, SleepAgain, Goto, TypeOK
  <2>2. \A p \in Paths : file[p] <= file'[p]
    <3>1. \A p \in Paths : file[p] \in Nat
      BY DEF TypeOK
    <3> QED
      BY <2>1, <3>1
  <2>3. ThreadFresh(t)'
    BY <2>1, <2>2, ThreadFreshFrame DEF FreshInv
  <2> QED
    BY <1>1, <2>1, <2>3
<1>15. ASSUME NEW t \in Threads, Retry(t)
       PROVE  FreshInv'
  <2>1. Others(t) /\ pc'[t] = "file_size" /\ ref'[t] = NoFlight
    BY <1>15, DropKeepsHeldFlights DEF Retry, Goto, TypeOK
  <2>2. ThreadFresh(t)'
    BY <1>2, <1>15, <2>1 DEF Retry, ThreadFresh, HasSignature
  <2> QED
    BY <1>1, <1>15, <2>1, <2>2 DEF Retry
<1>16. ASSUME NEW t \in Threads, Parse(t)
       PROVE  FreshInv'
  <2>1. NoLaterThan(sig[t], file[path[t]])
    BY <1>16 DEF Parse, FreshInv, ThreadFresh, NoLaterThan, HasSignature,
       MtimeNamesVersion
  <2>2. Others(t) /\ pc'[t] = "publish" /\ out'[t].version = file[path[t]]
    BY <1>16 DEF Parse, Goto, TypeOK
  <2>3. ref'[t] = ref[t] /\ flight' = flight /\ ~flight[ref[t]].done
    BY <1>16 DEF Parse, FlightInv, LeaderSteps
  <2>4. ThreadFresh(t)
    BY DEF FreshInv
  <2>5. file[path[t]] \in Nat
    BY <1>2, <1>16 DEF Parse
  <2>6. ThreadFresh(t)'
    BY <1>2, <1>16, <2>1, <2>2, <2>3, <2>4, <2>5
    DEF Parse, ThreadFresh, HasSignature, NoLaterThan
  <2> QED
    BY <1>1, <1>16, <2>2, <2>6 DEF Parse
\* The leader closes its flight; every waiter of the flight asks for its path.
<1>17. ASSUME NEW t \in Threads, pc[t] = "publish", CloseFlight(t),
              \A p \in Paths : \/ entries'[p] = entries[p]
                               \/ entries'[p] = NoEntry
                               \/ p = path[t] /\ entries'[p] =
                                    [signature |-> sig[t], spec |-> out[t].version],
              UNCHANGED <<file, path, sig, ref, out, began>>
       PROVE  FreshInv'
  <2> DEFINE f == ref[t]
  <2>1. /\ f \in Flights /\ path[t] \in Paths /\ out[t] \in Outcome
        /\ flight[f].signature = sig[t]
    BY <1>17 DEF TypeOK, FlightInv, LeaderSteps
  <2>2. /\ out[t].version <= file[path[t]] /\ NoLaterThan(sig[t], out[t].version)
        /\ out[t].version \in Version
    BY <1>17, <2>1 DEF FreshInv, ThreadFresh, Outcome
  <2>3. began[t] <= out[t].version
    BY <1>4, <1>17, <2>2
  <2>4. /\ flight'[f].outcome = out[t] /\ flight'[f].signature = sig[t]
        /\ \A g \in Flights : g # f => flight'[g] = flight[g]
        /\ pc'[t] = "notify" /\ \A u \in Threads : u # t => pc'[u] = pc[u]
    BY <1>17, <2>1 DEF CloseFlight, Goto, TypeOK, InFlight
  <2>5. \A u \in Threads : ref[u] = f => path[u] = path[t]
    BY <2>1 DEF FlightInv
  <2>6. \A p \in Paths : file[p] <= file'[p]
    <3>1. \A p \in Paths : file[p] \in Nat
      BY DEF TypeOK
    <3> QED
      BY <1>17, <3>1
  <2> HIDE DEF f
  <2>7. ASSUME NEW u \in Threads
        PROVE  ThreadFresh(u)'
    <3>1. ThreadFresh(u)
      BY DEF FreshInv
    <3>2. CASE ref[u] # f
      <4>1. u # t /\ pc'[u] = pc[u]
                  /\ (ref[u] \in Flights => flight'[ref[u]] = flight[ref[u]])
        BY <2>4, <3>2 DEF f
      <4> QED
        BY <1>17, <2>6, <3>1, <4>1, ThreadFreshFrame
    <3>3. CASE u = t
      BY <1>2, <1>17, <2>1, <2>2, <2>3, <2>4, <3>1, <3>3
      DEF f, ThreadFresh, HasSignature, NoLaterThan
    <3>4. CASE u # t /\ ref[u] = f
      BY <1>17, <2>1, <2>2, <2>4, <2>5, <3>1, <3>4 DEF ThreadFresh, NoLaterThan
    <3> QED
      BY <3>2, <3>3, <3>4
  <2>8. ASSUME NEW p \in Paths
        PROVE  EntryFresh(p)'
    <3>1. CASE entries'[p] = entries[p] \/ entries'[p] = NoEntry
      BY <2>6, <3>1, EntryFreshFrame DEF FreshInv
    <3>2. CASE p = path[t] /\ entries'[p] =
                 [signature |-> sig[t], spec |-> out[t].version]
      BY <1>17, <2>2, <3>2 DEF EntryFresh, NoLaterThan
    <3> QED
      BY <1>17, <3>1, <3>2
  <2> QED
    BY <2>7, <2>8 DEF FreshInv
<1>18. ASSUME NEW t \in Threads, PublishSpec(t)
       PROVE  FreshInv'
  <2> DEFINE new == [signature |-> sig[t], spec |-> out[t].version]
             es == [entries EXCEPT ![path[t]] = new]
  <2>1. path[t] \in Paths /\ new \in Entry
    BY <1>18 DEF PublishSpec, TypeOK, Outcome, Entry
  <2>2. es \in [Paths -> Entry \cup {NoEntry}]
    BY <2>1 DEF TypeOK
  <2>3. \A p \in Paths : es[p] = IF p = path[t] THEN new ELSE entries[p]
    BY <2>1 DEF TypeOK
  <2>4. entries' \in EvictIfNeeded(es, path[t])
    BY <1>18 DEF PublishSpec
  <2> HIDE DEF es
  <2>5. \A p \in Paths : entries'[p] = es[p] \/ entries'[p] = NoEntry
    BY <2>2, <2>4, EvictionOnlyDrops
  <2> QED
    BY <1>17, <1>18, <2>3, <2>5 DEF PublishSpec
<1>19. ASSUME NEW t \in Threads, PublishException(t)
       PROVE  FreshInv'
  BY <1>17, <1>19 DEF PublishException
<1>20. ASSUME NEW t \in Threads, NotifyAll(t)
       PROVE  FreshInv'
  <2>1. /\ pc[t] = "notify" /\ pc'[t] = "returned" /\ ref'[t] = NoFlight
        /\ UNCHANGED <<file, entries, path, out, began>>
    BY <1>20, DropKeepsHeldFlights DEF NotifyAll, TypeOK
  <2>2. \A p \in Paths : file[p] <= file'[p]
    <3>1. \A p \in Paths : file[p] \in Nat
      BY DEF TypeOK
    <3> QED
      BY <2>1, <3>1
  <2>3. ASSUME NEW u \in Threads \ {t}
        PROVE  ThreadFresh(u)'
    <3>1. /\ ref'[u] = ref[u] /\ sig'[u] = sig[u]
          /\ ref[u] \in Flights => flight'[ref[u]] = flight[ref[u]]
          /\ \/ pc'[u] = pc[u]
             \/ pc[u] = "asleep" /\ pc'[u] = "woken"
      BY <1>20, DropKeepsHeldFlights DEF NotifyAll, TypeOK
    <3> QED
      BY <2>1, <2>2, <3>1, ThreadFreshFrame DEF FreshInv
  <2>4. ThreadFresh(t)'
    BY <1>2, <2>1 DEF FreshInv, ThreadFresh, HasSignature
  <2>5. \A p \in Paths : EntryFresh(p)'
    BY <2>1, <2>2, EntryFreshFrame DEF FreshInv
  <2> QED
    BY <2>3, <2>4, <2>5 DEF FreshInv
<1>21. ASSUME NEW t \in Threads, Return(t)
       PROVE  FreshInv'
  <2>1. Others(t) /\ pc'[t] = "idle" /\ ref'[t] \notin Flights
    BY <1>21 DEF Return, Goto, TypeOK
  <2>2. ThreadFresh(t)'
    BY <2>1 DEF ThreadFresh, HasSignature
  <2> QED
    BY <1>1, <1>21, <2>1, <2>2 DEF Return
<1>22. ASSUME \A p \in Paths : file[p] <= file'[p],
              \A p \in Paths : entries'[p] = entries[p] \/ entries'[p] = NoEntry,
              UNCHANGED <<flight, pc, path, sig, ref, out, began>>
       PROVE  FreshInv'
  BY <1>22, ThreadFreshFrame, EntryFreshFrame DEF FreshInv
<1>23. \A p \in Paths : file[p] \in Nat /\ file[p] <= file[p]
  <2>1. \A p \in Paths : file[p] \in Nat
    BY DEF TypeOK
  <2> QED
    BY <2>1
<1>24. CASE Clear
  BY <1>22, <1>23, <1>24 DEF Clear
<1>25. ASSUME NEW p \in Paths, Write(p)
       PROVE  FreshInv'
  <2>1. \A q \in Paths : file[q] <= file'[q]
    BY <1>23, <1>25 DEF Write, TypeOK
  <2> QED
    BY <1>22, <1>25, <2>1 DEF Write
<1>26. CASE UNCHANGED vars
  BY <1>22, <1>23, <1>26 DEF vars
<1> QED
  BY <1>5, <1>6, <1>7, <1>8, <1>9, <1>10, <1>11, <1>12, <1>13, <1>14, <1>15,
     <1>16, <1>18, <1>19, <1>20, <1>21, <1>24, <1>25, <1>26
  DEF Next, Step

\* The result of a call was read from the file during the call, provided no
\* two versions of a file share a modification time.
THEOREM FreshResultCorrect ==
  ASSUME MtimeNamesVersion
  PROVE  Spec => []FreshResult
<1>1. FreshInv => FreshResult
  BY DEF FreshInv, ThreadFresh, FreshResult
<1>2. TypeOK /\ TypeOK' /\ FlightInv /\ FlightInv' /\ FreshInv /\ [Next]_vars
        => FreshInv'
  BY NextFreshInv
<1> QED
  BY <1>1, <1>2, InitTypeOK, NextTypeOK, InitFlightInv, NextFlightInv,
     InitFreshInv, PTL
  DEF Spec

-----------------------------------------------------------------------------
(* The bound on the number of entries.                                     *)

BoundInv ==
  /\ IsFiniteSet(Cached(entries))
  /\ Cardinality(Cached(entries)) <= MaxCachedSpecs

\* A step that adds no entry keeps the bound.
LEMMA FewerEntries ==
  ASSUME BoundInv, Cached(entries') \subseteq Cached(entries)
  PROVE  BoundInv'
<1>1. /\ IsFiniteSet(Cached(entries'))
      /\ Cardinality(Cached(entries')) <= Cardinality(Cached(entries))
  BY FS_Subset DEF BoundInv
<1>2. Cardinality(Cached(entries')) \in Nat /\ Cardinality(Cached(entries)) \in Nat
  BY <1>1, FS_CardinalityType DEF BoundInv
<1> QED
  BY <1>1, <1>2, ConstantsAssumption DEF BoundInv, Cached

\* Eviction brings any finite map within the bound.
LEMMA EvictionBounds ==
  ASSUME NEW es \in [Paths -> Entry \cup {NoEntry}], NEW key,
         IsFiniteSet(Cached(es)),
         NEW left \in EvictIfNeeded(es, key)
  PROVE  IsFiniteSet(Cached(left)) /\ Cardinality(Cached(left)) <= MaxCachedSpecs
<1>1. CASE Cardinality(Cached(es)) <= MaxCachedSpecs
  BY <1>1 DEF EvictIfNeeded
<1>2. CASE ~(Cardinality(Cached(es)) <= MaxCachedSpecs)
  <2>1. PICK keep \in SUBSET Cached(es) :
          /\ Cardinality(keep) = MaxCachedSpecs
          /\ left = [p \in Paths |-> IF p \in keep THEN es[p] ELSE NoEntry]
    BY <1>2 DEF EvictIfNeeded
  <2>2. Cached(left) = keep
    BY <2>1 DEF Cached
  <2>3. IsFiniteSet(keep)
    BY <2>1, FS_Subset
  <2> QED
    BY <2>1, <2>2, <2>3, ConstantsAssumption
<1> QED
  BY <1>1, <1>2

\* Every step keeps the cache within MaxCachedSpecs: only PublishSpec adds an
\* entry, and it evicts in the same critical section.
LEMMA NextBoundInv == TypeOK /\ BoundInv /\ [Next]_vars => BoundInv'
<1> SUFFICES ASSUME TypeOK, BoundInv, [Next]_vars
             PROVE  BoundInv'
  OBVIOUS
<1>1. CASE UNCHANGED entries
  BY <1>1, FewerEntries DEF Cached
<1>2. ASSUME NEW t \in Threads, Join(t) \/ Lead(t)
      PROVE  BoundInv'
  <2>1. Cached(entries') \subseteq Cached(entries)
    BY <1>2 DEF Join, Lead, Cached, TypeOK
  <2> QED
    BY <2>1, FewerEntries
<1>3. CASE Clear
  <2>1. Cached(entries') \subseteq Cached(entries)
    BY <1>3 DEF Clear, Cached
  <2> QED
    BY <2>1, FewerEntries
<1>4. ASSUME NEW t \in Threads, PublishSpec(t)
      PROVE  BoundInv'
  <2> DEFINE new == [signature |-> sig[t], spec |-> out[t].version]
             es == [entries EXCEPT ![path[t]] = new]
  <2>1. path[t] \in Paths /\ new \in Entry
    BY <1>4 DEF PublishSpec, TypeOK, Outcome, Entry
  <2>2. es \in [Paths -> Entry \cup {NoEntry}]
    BY <2>1 DEF TypeOK
  <2>3. Cached(es) \subseteq Cached(entries) \cup {path[t]}
    BY <2>1 DEF TypeOK, Cached
  <2>4. entries' \in EvictIfNeeded(es, path[t])
    BY <1>4 DEF PublishSpec
  <2> HIDE DEF es
  <2>5. IsFiniteSet(Cached(es))
    BY <2>3, FS_AddElement, FS_Subset DEF BoundInv
  <2>6. IsFiniteSet(Cached(entries')) /\ Cardinality(Cached(entries')) <= MaxCachedSpecs
    BY <2>2, <2>4, <2>5, EvictionBounds
  <2> QED
    BY <2>6 DEF BoundInv, Cached
<1> QED
  BY <1>1, <1>2, <1>3, <1>4
  DEF Next, vars, Step, Call, ReadFileSize, ReadLastWriteTime,
      ComputeQuickContentHash, SignatureFails, Hit, SpuriousWake, SleepAgain,
      TakeShared, Retry, Parse, PublishException, NotifyAll, Return, Write

\* The cache never holds more than MaxCachedSpecs entries.
THEOREM CacheBoundedCorrect == Spec => []CacheBounded
<1>1. Init => BoundInv
  <2>1. Init => Cached(entries) = {}
    BY DEF Init, Cached
  <2> QED
    BY <2>1, FS_EmptySet, ConstantsAssumption DEF BoundInv
<1>2. BoundInv => CacheBounded
  BY DEF BoundInv, CacheBounded
<1> QED
  BY <1>1, <1>2, NextBoundInv, InitTypeOK, NextTypeOK, PTL DEF Spec

-----------------------------------------------------------------------------
(* What eviction may take.                                                 *)

\* Only a leader that has parsed a spec goes on from publishing with one.
LEMMA SpecIsPublished ==
  ASSUME TypeOK, [Next]_vars, NEW t \in Threads,
         pc[t] = "publish", pc'[t] = "notify", out[t].kind = "spec"
  PROVE  PublishSpec(t)
<1>1. ASSUME NEW u \in Threads, Step(u) \/ SpuriousWake(u)
      PROVE  Step(t) \/ SpuriousWake(t)
  <2>1. ASSUME u # t
        PROVE  pc'[t] = pc[t]
    BY <1>1, <2>1 DEF Step, ReadFileSize, ReadLastWriteTime, ComputeQuickContentHash,
       SignatureFails, Hit, Join, Lead, SpuriousWake, SleepAgain, TakeShared, Retry,
       Parse, PublishSpec, PublishException, CloseFlight, NotifyAll, Return, Finish,
       Goto, TypeOK
  <2> QED
    BY <1>1, <2>1
<1>2. ASSUME NEW u \in Threads, NEW p \in Paths, Call(u, p)
      PROVE  FALSE
  BY <1>2 DEF Call, Goto, TypeOK
<1>3. ASSUME Clear \/ UNCHANGED vars \/ \E p \in Paths : Write(p)
      PROVE  FALSE
  BY <1>3 DEF Clear, Write, vars
<1>4. Step(t) \/ SpuriousWake(t)
  BY <1>1, <1>2, <1>3 DEF Next
<1> QED
  BY <1>4 DEF Step, ReadFileSize, ReadLastWriteTime, ComputeQuickContentHash, SigSteps,
     SignatureFails, Hit, Join, Lead, SpuriousWake, SleepAgain, TakeShared, Retry,
     Parse, PublishException, NotifyAll, Return

\* Publishing keeps the new entry, and when it drops one the cache stays full.
LEMMA PublishEvicts ==
  ASSUME TypeOK, NEW t \in Threads, PublishSpec(t)
  PROVE  /\ entries'[path[t]] # NoEntry
         /\ (\E p \in Paths : entries[p] # NoEntry /\ entries'[p] = NoEntry)
              => Cardinality(Cached(entries')) = MaxCachedSpecs
<1> DEFINE new == [signature |-> sig[t], spec |-> out[t].version]
           es == [entries EXCEPT ![path[t]] = new]
<1>1. path[t] \in Paths /\ new \in Entry
  BY DEF PublishSpec, TypeOK, Outcome, Entry
<1>2. new # NoEntry
  BY <1>1, EntryAssumption
<1>3. entries' \in EvictIfNeeded(es, path[t])
  BY DEF PublishSpec
<1>4. /\ es[path[t]] # NoEntry
      /\ \A p \in Paths : entries[p] # NoEntry => es[p] # NoEntry
  BY <1>1, <1>2 DEF TypeOK
<1> HIDE DEF es
<1>5. CASE Cardinality(Cached(es)) <= MaxCachedSpecs
  <2>1. entries' = es
    BY <1>3, <1>5 DEF EvictIfNeeded
  <2> QED
    BY <1>4, <2>1
<1>6. CASE ~(Cardinality(Cached(es)) <= MaxCachedSpecs)
  <2>1. PICK keep \in SUBSET Cached(es) :
          /\ Cardinality(keep) = MaxCachedSpecs
          /\ path[t] \in keep
          /\ entries' = [p \in Paths |-> IF p \in keep THEN es[p] ELSE NoEntry]
    BY <1>3, <1>6 DEF EvictIfNeeded
  <2>2. Cached(entries') = keep
    BY <2>1 DEF Cached
  <2> QED
    BY <1>1, <1>4, <2>1, <2>2
<1> QED
  BY <1>5, <1>6

\* A publication leaves the spec it publishes in the cache (EvictIfNeeded's
\* protected key), and gives up another one only when the cache is full.
THEOREM EvictionProtectsNewestCorrect == Spec => EvictionProtectsNewest
<1>1. TypeOK /\ [Next]_vars =>
        [\A t \in Threads :
           (pc[t] = "publish" /\ pc'[t] = "notify" /\ out[t].kind = "spec") =>
              /\ entries'[path[t]] # NoEntry
              /\ (\E p \in Paths : entries[p] # NoEntry /\ entries'[p] = NoEntry)
                   => Cardinality(Cached(entries')) = MaxCachedSpecs]_vars
  BY SpecIsPublished, PublishEvicts
<1> QED
  BY <1>1, InitTypeOK, NextTypeOK, PTL DEF Spec, EvictionProtectsNewest

-----------------------------------------------------------------------------
(* The cache implements the service.                                       *)

\* The cache starts where the service starts.
LEMMA InitImplements == Init => Service!Init
  BY DEF Init, Service!Init

\* Every step of the cache is a step of the service or leaves it alone.
LEMMA NextImplements ==
  ASSUME TypeOK, TypeOK', FreshInv, FreshInv', [Next]_vars
  PROVE  [Service!Next]_(Service!vars)
<1> USE DEF Service!vars
<1> DEFINE Status(t) == IF pc[t] \in {"idle", "returned"} THEN pc[t] ELSE "busy"
           Result(t) == IF pc[t] = "returned" THEN out[t] ELSE NoOutcome
\* A step that leaves the callers' view alone is a stuttering step.
<1>1. ASSUME UNCHANGED <<file, path, began>>,
             \A t \in Threads : Status(t)' = Status(t) /\ Result(t)' = Result(t)
      PROVE  UNCHANGED Service!vars
  BY <1>1
\* A step to "returned" is the service's Finish.
<1>2. ASSUME NEW t \in Threads, pc[t] \notin {"idle", "returned"},
             pc'[t] = "returned",
             \A u \in Threads \ {t} :
               Status(u)' = Status(u) /\ Result(u)' = Result(u),
             UNCHANGED <<file, path, began>>
      PROVE  Service!Finish(t)
  <2>1. /\ out'[t] \in Outcome
        /\ began[t] <= out'[t].version /\ out'[t].version <= file[path[t]]
    BY <1>2 DEF TypeOK, FreshInv, ThreadFresh
  <2>2. /\ out'[t].version \in Nat /\ began[t] \in Nat
        /\ path[t] \in Paths /\ file[path[t]] \in Nat
    BY <1>2, <2>1, VersionInNat DEF TypeOK, Outcome
  <2>3. /\ out'[t].version \in began[t]..file[path[t]]
        /\ out'[t].kind \in {"spec", "exception"}
        /\ out'[t] = [kind |-> out'[t].kind, version |-> out'[t].version]
    BY <2>1, <2>2 DEF Outcome
  <2>4. [u \in Threads |-> Status(u)]' =
          [[u \in Threads |-> Status(u)] EXCEPT ![t] = "returned"]
    BY <1>2
  <2>5. [u \in Threads |-> Result(u)]' =
          [[u \in Threads |-> Result(u)] EXCEPT ![t] = out'[t]]
    BY <1>2
  <2>6. [u \in Threads |-> Status(u)][t] = "busy"
    BY <1>2
  <2>7. \E kind \in {"spec", "exception"}, v \in began[t]..file[path[t]] :
          [u \in Threads |-> Result(u)]' =
            [[u \in Threads |-> Result(u)] EXCEPT
               ![t] = [kind |-> kind, version |-> v]]
    BY <2>3, <2>5
  <2> QED
    BY <1>2, <2>4, <2>6, <2>7 DEF Service!Finish
<1>3. ASSUME NEW t \in Threads, NEW p \in Paths, Call(t, p)
      PROVE  Service!Call(t, p)
  BY <1>3 DEF Call, Goto, Service!Call, TypeOK
<1>4. ASSUME NEW t \in Threads, Return(t)
      PROVE  Service!Return(t)
  BY <1>4 DEF Return, Goto, Service!Return, TypeOK
<1>5. ASSUME NEW p \in Paths, Write(p)
      PROVE  Service!Write(p)
  BY <1>5 DEF Write, Service!Write
<1>6. ASSUME NEW t \in Threads,
             SignatureFails(t) \/ Hit(t) \/ TakeShared(t)
      PROVE  Service!Finish(t)
  <2>1. /\ pc[t] \notin {"idle", "returned"} /\ pc'[t] = "returned"
        /\ \A u \in Threads \ {t} : pc'[u] = pc[u] /\ out'[u] = out[u]
        /\ UNCHANGED <<file, path, began>>
    BY <1>6 DEF SignatureFails, SigSteps, Hit, TakeShared, Finish, Goto, TypeOK
  <2> QED
    BY <1>2, <2>1
<1>7. ASSUME NEW t \in Threads, NotifyAll(t)
      PROVE  Service!Finish(t)
  <2>1. pc[t] = "notify" /\ pc'[t] = "returned" /\ UNCHANGED <<file, path, out, began>>
    BY <1>7 DEF NotifyAll
  <2>2. \A u \in Threads \ {t} :
          \/ pc'[u] = pc[u]
          \/ pc[u] = "asleep" /\ pc'[u] = "woken"
    BY <1>7 DEF NotifyAll
  <2>3. \A u \in Threads \ {t} :
          Status(u)' = Status(u) /\ Result(u)' = Result(u)
    BY <2>1, <2>2
  <2> QED
    BY <1>2, <2>1, <2>3
<1>8. ASSUME NEW t \in Threads, pc[t] \notin {"idle", "returned"},
             pc'[t] \notin {"idle", "returned"},
             \A u \in Threads \ {t} : pc'[u] = pc[u] /\ out'[u] = out[u],
             UNCHANGED <<file, path, began>>
      PROVE  UNCHANGED Service!vars
  BY <1>1, <1>8
<1>9. ASSUME NEW t \in Threads,
             \/ ReadFileSize(t) \/ ReadLastWriteTime(t)
             \/ ComputeQuickContentHash(t) \/ Join(t) \/ Lead(t)
             \/ SpuriousWake(t) \/ SleepAgain(t) \/ Retry(t) \/ Parse(t)
             \/ PublishSpec(t) \/ PublishException(t)
      PROVE  UNCHANGED Service!vars
  <2>1. /\ pc[t] \notin {"idle", "returned"} /\ pc'[t] \notin {"idle", "returned"}
        /\ \A u \in Threads \ {t} : pc'[u] = pc[u] /\ out'[u] = out[u]
        /\ UNCHANGED <<file, path, began>>
    BY <1>9 DEF ReadFileSize, ReadLastWriteTime, ComputeQuickContentHash, Join,
       Lead, SpuriousWake, SleepAgain, Retry, Parse, PublishSpec,
       PublishException, CloseFlight, Goto, TypeOK
  <2> QED
    BY <1>8, <2>1
<1>10. CASE Clear \/ UNCHANGED vars
  BY <1>10 DEF Clear, vars
<1> QED
  BY <1>3, <1>4, <1>5, <1>6, <1>7, <1>9, <1>10 DEF Next, Step, Service!Next

\* Callers cannot tell the cache from a service that reads the file during
\* each call, provided no two versions of a file share a modification time.
THEOREM ImplementsServiceCorrect ==
  ASSUME MtimeNamesVersion
  PROVE  Spec => ImplementsService
<1>1. TypeOK /\ TypeOK' /\ FlightInv /\ FlightInv' /\ FreshInv /\ [Next]_vars
        => FreshInv'
  BY NextFreshInv
<1>2. TypeOK /\ TypeOK' /\ FreshInv /\ FreshInv' /\ [Next]_vars
        => [Service!Next]_(Service!vars)
  BY NextImplements
<1> QED
  BY <1>1, <1>2, InitTypeOK, NextTypeOK, InitFlightInv, NextFlightInv,
     InitFreshInv, InitImplements, PTL
  DEF Spec, ImplementsService, Service!Spec
=============================================================================
