--------------------------- MODULE FileReadService ---------------------------
(***************************************************************************)
(* What a metadata cache promises its callers: a call for a path ends with *)
(* a result, a parsed description or an exception, that was read from a    *)
(* version the file had at some moment of the call.  No cache, flight or   *)
(* signature is visible.                                                   *)
(***************************************************************************)
EXTENDS Naturals

CONSTANTS Threads, Paths, MaxVersion, NoPath, NoOutcome

VARIABLES
  file,    \* file[p]: current version of the file at p
  status,  \* status[t]: "idle", "busy" or "returned"
  path,    \* argument of the call
  began,   \* version of the file when the call began
  out      \* result of the call

vars == <<file, status, path, began, out>>

Init ==
  /\ file = [p \in Paths |-> 0]
  /\ status = [t \in Threads |-> "idle"]
  /\ path = [t \in Threads |-> NoPath]
  /\ began = [t \in Threads |-> 0]
  /\ out = [t \in Threads |-> NoOutcome]

Call(t, p) ==
  /\ status[t] = "idle"
  /\ status' = [status EXCEPT ![t] = "busy"]
  /\ path' = [path EXCEPT ![t] = p]
  /\ began' = [began EXCEPT ![t] = file[p]]
  /\ UNCHANGED <<file, out>>

Finish(t) ==
  /\ status[t] = "busy"
  /\ status' = [status EXCEPT ![t] = "returned"]
  /\ \E kind \in {"spec", "exception"}, v \in began[t]..file[path[t]] :
       out' = [out EXCEPT ![t] = [kind |-> kind, version |-> v]]
  /\ UNCHANGED <<file, path, began>>

Return(t) ==
  /\ status[t] = "returned"
  /\ status' = [status EXCEPT ![t] = "idle"]
  /\ path' = [path EXCEPT ![t] = NoPath]
  /\ began' = [began EXCEPT ![t] = 0]
  /\ out' = [out EXCEPT ![t] = NoOutcome]
  /\ UNCHANGED file

Write(p) ==
  /\ file[p] < MaxVersion
  /\ file' = [file EXCEPT ![p] = file[p] + 1]
  /\ UNCHANGED <<status, path, began, out>>

Next ==
  \/ \E t \in Threads, p \in Paths : Call(t, p)
  \/ \E t \in Threads : Finish(t) \/ Return(t)
  \/ \E p \in Paths : Write(p)

Spec == Init /\ [][Next]_vars
=============================================================================
