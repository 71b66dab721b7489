------------------------------ MODULE SyncLog ------------------------------
(***************************************************************************)
(* What a synchronisation promises, whatever it takes to keep it: the rows *)
(* of a unit are committed one unit at a time, the history catches up with *)
(* all of them in one step, and a call that returns leaves nothing behind  *)
(* of which the history does not tell.  A call that fails may leave rows   *)
(* without history, those since the history last caught up.                *)
(*                                                                         *)
(* SyncManager implements this with batches, a shared pool of threads and  *)
(* one of connections; see SyncManager!Promise.                            *)
(***************************************************************************)
CONSTANTS Run, Part

VARIABLES
    status,     \* Run -> "idle", "running", "returned" or "failed"
    saved,      \* Run -> units whose rows are committed
    recorded    \* Run -> units the history tells of

vars == <<status, saved, recorded>>

Init ==
    /\ status = [r \in Run |-> "idle"]
    /\ saved = [r \in Run |-> {}]
    /\ recorded = [r \in Run |-> {}]

(* A call may end at once: nothing to do, or an error in the first answer. *)
Begin(r) ==
    /\ status[r] = "idle"
    /\ \E s \in {"running", "returned", "failed"} : status' = [status EXCEPT ![r] = s]
    /\ UNCHANGED <<saved, recorded>>

Commit(r) ==
    /\ status[r] = "running"
    /\ \E u \in Part : saved' = [saved EXCEPT ![r] = @ \cup {u}]
    /\ UNCHANGED <<status, recorded>>

CatchUp(r) ==
    /\ status[r] = "running"
    /\ recorded' = [recorded EXCEPT ![r] = saved[r]]
    /\ status' = status \/ status' = [status EXCEPT ![r] = "returned"]
    /\ UNCHANGED saved

Return(r) ==
    /\ status[r] = "running"
    /\ recorded[r] = saved[r]
    /\ status' = [status EXCEPT ![r] = "returned"]
    /\ UNCHANGED <<saved, recorded>>

Fail(S) ==      \* a crash fails all of them
    /\ \A r \in S : status[r] = "running"
    /\ status' = [r \in Run |-> IF r \in S THEN "failed" ELSE status[r]]
    /\ UNCHANGED <<saved, recorded>>

Next ==
    \/ \E r \in Run : Begin(r) \/ Commit(r) \/ CatchUp(r) \/ Return(r)
    \/ \E S \in SUBSET Run : Fail(S)

Spec == Init /\ [][Next]_vars
=============================================================================
