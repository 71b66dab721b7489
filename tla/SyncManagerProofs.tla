------------------------- MODULE SyncManagerProofs -------------------------
(* IInv is inductive for every set of runs, every size, batch, pool and    *)
(* queue.  From it: the executor holds exactly what is waited for, what    *)
(* returns is whole, and SyncManager implements SyncLog.                   *)
EXTENDS SyncManager, FiniteSetTheorems, FunctionTheorems, WellFoundedInduction, TLAPS

LEMMA BatchSize == FetchBatchSize \in Nat /\ FetchBatchSize > 0
BY ConfigAssumption DEF FetchBatchSize, MaxFetchBatchSize

LEMMA UnitType ==
    ASSUME TypeOK, NEW r \in Run
    PROVE  /\ units[r] \in Nat /\ from[r] \in Nat
           /\ Unit(r) \subseteq AnyUnit /\ Unit(r) \subseteq Nat
           /\ \A u \in Unit(r) : <<r, u>> \in Task
<1>1. units[r] \in Sizes /\ from[r] \in Nat
  BY DEF TypeOK
<1>2. units[r] \in Nat
  BY <1>1, RunAssumption
<1>3. Unit(r) \subseteq 0..units[r]
  BY <1>2 DEF Unit, Page
<1>4. Unit(r) \subseteq AnyUnit
  BY <1>1, <1>3 DEF AnyUnit
<1>5. QED
  BY <1>1, <1>2, <1>3, <1>4 DEF Task

-----------------------------------------------------------------------------
(* Types.                                                                  *)

LEMMA InitTypes == Init => TypeOK
<1> SUFFICES ASSUME Init PROVE TypeOK
  OBVIOUS
<1>1. PICK d \in Deployments : capacity = d.queue /\ connections = d.connections
  BY DEF Init
<1>2. [queue |-> capacity, connections |-> connections] = d
  BY <1>1, ConfigAssumption
<1>3. QED
  BY <1>1, <1>2, ConfigAssumption DEF Init, TypeOK, Active, Ended, Decided

LEMMA OutcomeType ==
    ASSUME TypeOK, NEW r \in Run, NEW u \in Unit(r), NEW o \in {"none", "pending"} \cup Decided,
           SetOutcome(r, u, o), UNCHANGED units
    PROVE  /\ DOMAIN outcome' = Run
           /\ \A q \in Run : outcome'[q] \in [Unit(q) -> {"none", "pending"} \cup Decided]
           /\ \A q \in Run : \A v \in Unit(q) :
                 outcome'[q][v] = IF q = r /\ v = u THEN o ELSE outcome[q][v]
BY DEF TypeOK, SetOutcome

LEMMA SmallestIn ==
    ASSUME NEW S \in SUBSET Nat, S # {}
    PROVE  Smallest(S) \in S /\ \A v \in S : Smallest(S) <= v
<1>1. PICK u \in S : \A v \in S : ~(<<v, u>> \in OpToRel(<, Nat))
  BY NatLessThanWellFounded, WFMin
<1>2. \A v \in S : u <= v
  <2>1. SUFFICES ASSUME NEW v \in S, v < u PROVE FALSE
    OBVIOUS
  <2>2. <<v, u>> \in Nat \X Nat
    OBVIOUS
  <2>3. QED
    BY <1>1, <2>1, <2>2 DEF OpToRel
<1>3. QED
  BY <1>2 DEF Smallest

(* The unit Submit takes is one of the batch nobody has tried yet.         *)
LEMMA NextUnit ==
    ASSUME TypeOK, NEW r \in Run, Submit(r)
    PROVE  \E u \in Unit(r) :
              /\ u \in Batch(r) /\ outcome[r][u] = "none"
              /\ StartThread(r, u) \/ Enqueue(r, u) \/ Reject(r, u)
              /\ pc[r] = "fetching"
<1> DEFINE rest == {u \in Batch(r) : outcome[r][u] = "none"}
           u    == Smallest(rest)
<1>1. rest \subseteq Nat /\ rest # {}
  BY UnitType DEF Submit, Batch
<1>2. u \in rest
  BY <1>1, SmallestIn
<1>3. u \in Unit(r) /\ u \in Batch(r) /\ outcome[r][u] = "none"
  BY <1>2 DEF Batch
<1>4. (StartThread(r, u) \/ Enqueue(r, u) \/ Reject(r, u)) /\ pc[r] = "fetching"
  BY DEF Submit
<1>5. QED
  BY <1>3, <1>4

(* The queue, one task longer or shorter.                                  *)
LEMMA Appended ==
    ASSUME NEW S, NEW q \in Seq(S), NEW t \in S
    PROVE  /\ Append(q, t) \in Seq(S)
           /\ {Append(q, t)[i] : i \in DOMAIN Append(q, t)} = {q[i] : i \in DOMAIN q} \cup {t}
           /\ /\ \A i, j \in DOMAIN q : q[i] = q[j] => i = j
              /\ t \notin {q[i] : i \in DOMAIN q}
              => \A i, j \in DOMAIN Append(q, t) : Append(q, t)[i] = Append(q, t)[j] => i = j
<1>1. /\ DOMAIN Append(q, t) = 1..Len(q) + 1 /\ DOMAIN q = 1..Len(q) /\ Len(q) \in Nat
      /\ \A i \in 1..Len(q) : Append(q, t)[i] = q[i]
      /\ Append(q, t)[Len(q) + 1] = t
      /\ Append(q, t) \in Seq(S)
  OBVIOUS
<1>2. QED
  BY <1>1

LEMMA Taken ==
    ASSUME NEW S, NEW q \in Seq(S), q # << >>
    PROVE  /\ Tail(q) \in Seq(S) /\ Head(q) \in S
           /\ {q[i] : i \in DOMAIN q} = {Tail(q)[i] : i \in DOMAIN Tail(q)} \cup {Head(q)}
           /\ (\A i, j \in DOMAIN q : q[i] = q[j] => i = j)
              => /\ \A i, j \in DOMAIN Tail(q) : Tail(q)[i] = Tail(q)[j] => i = j
                 /\ Head(q) \notin {Tail(q)[i] : i \in DOMAIN Tail(q)}
<1>1. /\ DOMAIN Tail(q) = 1..Len(q) - 1 /\ DOMAIN q = 1..Len(q)
      /\ Len(q) \in Nat /\ Len(q) > 0
      /\ \A i \in 1..Len(q) - 1 : Tail(q)[i] = q[i + 1]
      /\ Head(q) = q[1] /\ Tail(q) \in Seq(S) /\ Head(q) \in S
  OBVIOUS
<1>2. {q[i] : i \in DOMAIN q} \subseteq {Tail(q)[i] : i \in DOMAIN Tail(q)} \cup {Head(q)}
  <2> SUFFICES ASSUME NEW i \in 1..Len(q), i # 1
               PROVE  q[i] \in {Tail(q)[j] : j \in DOMAIN Tail(q)}
    BY <1>1
  <2>1. i - 1 \in 1..Len(q) - 1 /\ (i - 1) + 1 = i
    BY <1>1
  <2>2. QED
    BY <1>1, <2>1
<1>3. ASSUME \A i, j \in DOMAIN q : q[i] = q[j] => i = j
      PROVE  /\ \A i, j \in DOMAIN Tail(q) : Tail(q)[i] = Tail(q)[j] => i = j
             /\ Head(q) \notin {Tail(q)[i] : i \in DOMAIN Tail(q)}
  <2>1. \A i \in 1..Len(q) - 1 : i + 1 \in 1..Len(q) /\ i + 1 # 1
    BY <1>1
  <2>2. \A i, j \in DOMAIN Tail(q) : Tail(q)[i] = Tail(q)[j] => i = j
    BY <1>1, <1>3, <2>1
  <2>3. \A i \in DOMAIN Tail(q) : Tail(q)[i] # Head(q)
    BY <1>1, <1>3, <2>1
  <2>4. QED
    BY <2>2, <2>3
<1>4. {Tail(q)[i] : i \in DOMAIN Tail(q)} \cup {Head(q)} \subseteq {q[i] : i \in DOMAIN q}
  BY <1>1
<1>5. QED
  BY <1>1, <1>2, <1>3, <1>4

-----------------------------------------------------------------------------
LEMMA SameUnits ==
    ASSUME UNCHANGED units
    PROVE  (\A r \in Run : Unit(r)' = Unit(r)) /\ Task' = Task
BY DEF Unit, Page, Task

LEMMA SubmitTypes ==
    ASSUME TypeOK, NEW r \in Run, Submit(r)
    PROVE  TypeOK'
<1>1. PICK u \in Unit(r) : /\ u \in Batch(r) /\ outcome[r][u] = "none"
                           /\ StartThread(r, u) \/ Enqueue(r, u) \/ Reject(r, u)
  BY NextUnit
<1>2. /\ UNCHANGED <<pc, from, saving, saved, recorded, open, crashes, capacity, connections, units>>
      /\ (\A q \in Run : Unit(q)' = Unit(q)) /\ Task' = Task
  BY SameUnits DEF Submit, given
<1>3. <<r, u>> \in Task
  BY UnitType
<1>4. PICK o \in {"pending", "rejected"} : SetOutcome(r, u, o)
  BY <1>1 DEF StartThread, Enqueue, Reject
<1>5. DOMAIN outcome' = Run
      /\ \A q \in Run : outcome'[q] \in [Unit(q)' -> {"none", "pending"} \cup Decided]
  BY <1>2, <1>4, OutcomeType DEF Decided
<1>6. /\ queue' \in Seq(Task) /\ busy' \subseteq Task
      /\ threads' \in 0..PoolSize
  <2>1. CASE StartThread(r, u)
    <3>1. threads \in 0..PoolSize /\ queue \in Seq(Task) /\ busy \subseteq Task /\ PoolSize \in Nat
      BY ConfigAssumption DEF TypeOK
    <3>2. threads' = threads + 1 /\ threads < PoolSize /\ busy' = busy \cup {<<r, u>>} /\ queue' = queue
      BY <2>1 DEF StartThread
    <3>3. QED
      BY <1>3, <3>1, <3>2
  <2>2. CASE Enqueue(r, u)
    BY <1>3, <2>2, Appended DEF Enqueue, TypeOK
  <2>3. CASE Reject(r, u)
    BY <2>3 DEF Reject, TypeOK, executor
  <2>4. QED
    BY <1>1, <2>1, <2>2, <2>3
<1>7. QED
  BY <1>2, <1>5, <1>6 DEF TypeOK

LEMMA TypesKept ==
    ASSUME TypeOK, [Next]_vars
    PROVE  TypeOK'
<1>1. ASSUME NEW r \in Run, StartData(r) PROVE TypeOK'
  <2>1. (\A q \in Run : Unit(q)' = Unit(q)) /\ Task' = Task
    BY <1>1, SameUnits DEF StartData, given
  <2>2. /\ pc' \in [Run -> {"idle"} \cup Active \cup Ended]
        /\ open \subseteq {q \in Run : pc'[q] = "saving"}
    BY <1>1 DEF StartData, TypeOK, Active, Ended
  <2>3. QED
    BY <1>1, <2>1, <2>2 DEF StartData, TypeOK, executor, given
<1>2. ASSUME NEW r \in Run, StartInfos(r) PROVE TypeOK'
  <2>1. (\A q \in Run : Unit(q)' = Unit(q)) /\ Task' = Task
    BY <1>2, SameUnits DEF StartInfos, given
  <2>2. 0 \in Unit(r)
    BY <1>2 DEF StartInfos, Unit, Page
  <2>3. PICK o \in {"items", "empty", "failed"} :
           /\ SetOutcome(r, 0, o)
           /\ CASE o = "failed" -> pc' = [pc EXCEPT ![r] = "failed"] /\ UNCHANGED saving
                [] o # "failed" /\ units[r] = 0 -> SaveAllPages(r, IF o = "items" THEN {0} ELSE {})
                [] o # "failed" /\ units[r] # 0 -> pc' = [pc EXCEPT ![r] = "fetching"] /\ UNCHANGED saving
    BY <1>2 DEF StartInfos
  <2>4. DOMAIN outcome' = Run
        /\ \A q \in Run : outcome'[q] \in [Unit(q)' -> {"none", "pending"} \cup Decided]
    BY <1>2, <2>1, <2>2, <2>3, OutcomeType DEF StartInfos, given, Decided
  <2>5. /\ pc' \in [Run -> {"idle"} \cup Active \cup Ended]
        /\ DOMAIN saving' = Run /\ \A q \in Run : saving'[q] \subseteq Unit(q)
        /\ \A q \in Run \ {r} : pc'[q] = pc[q]
    <3>1. pc[r] \in {"idle"} \cup Active \cup Ended /\ saving[r] \subseteq Unit(r)
      BY DEF TypeOK
    <3>2. PICK s \in {"failed", "returned", "saving", "fetching"}, S \in SUBSET Unit(r) :
             pc' = [pc EXCEPT ![r] = s] /\ (saving' = saving \/ saving' = [saving EXCEPT ![r] = S])
      <4>1. CASE o = "failed" \/ units[r] # 0
        BY <2>3, <3>1, <4>1
      <4>2. CASE o # "failed" /\ units[r] = 0
        BY <2>2, <2>3, <4>2 DEF SaveAllPages
      <4>3. QED
        BY <4>1, <4>2
    <3>3. QED
      BY <3>2 DEF TypeOK, Active, Ended
  <2>6. open \subseteq {q \in Run : pc'[q] = "saving"}
    BY <1>2, <2>5 DEF TypeOK, StartInfos
  <2>7. QED
    BY <1>2, <2>1, <2>4, <2>5, <2>6 DEF StartInfos, TypeOK, executor, given
<1>3. ASSUME NEW r \in Run, Join(r) PROVE TypeOK'
  <2>1. (\A q \in Run : Unit(q)' = Unit(q)) /\ Task' = Task
    BY <1>3, SameUnits DEF Join, given
  <2>2. Fetched(r, Batch(r)) \subseteq Unit(r) /\ Fetched(r, Unit(r)) \subseteq Unit(r)
    BY DEF Fetched, Batch
  <2>3. /\ pc' \in [Run -> {"idle"} \cup Active \cup Ended]
        /\ DOMAIN saving' = Run /\ \A q \in Run : saving'[q] \subseteq Unit(q)
        /\ from' \in [Run -> Nat]
        /\ \A q \in Run \ {r} : pc'[q] = pc[q]
    <3>1. PICK s \in {"fetching", "returned", "saving"}, S \in SUBSET Unit(r), n \in Nat :
             /\ pc' = pc \/ pc' = [pc EXCEPT ![r] = s]
             /\ saving' = saving \/ saving' = [saving EXCEPT ![r] = S]
             /\ from' = from \/ from' = [from EXCEPT ![r] = n]
      <4>1. from[r] + FetchBatchSize \in Nat
        BY UnitType, BatchSize
      <4>2. CASE Kind[r] = "data"
        BY <1>3, <2>2, <4>2 DEF Join
      <4>3. CASE Kind[r] # "data" /\ from'[r] < units[r]
        BY <1>3, <4>1, <4>3 DEF Join
      <4>4. CASE Kind[r] # "data" /\ ~(from'[r] < units[r])
        BY <1>3, <2>2, <4>1, <4>4 DEF Join, SaveAllPages
      <4>5. QED
        BY <4>2, <4>3, <4>4
    <3>2. QED
      BY <3>1 DEF TypeOK, Active, Ended
  <2>4. open \subseteq {q \in Run : pc'[q] = "saving"}
    BY <1>3, <2>3 DEF TypeOK, Join
  <2>5. QED
    BY <1>3, <2>1, <2>3, <2>4 DEF Join, TypeOK, executor, given
<1>4. ASSUME NEW r \in Run, BeginSave(r) PROVE TypeOK'
  <2>1. (\A q \in Run : Unit(q)' = Unit(q)) /\ Task' = Task
    BY <1>4, SameUnits DEF BeginSave, given
  <2>2. QED
    BY <1>4, <2>1 DEF BeginSave, TypeOK, executor, given
<1>5. ASSUME NEW r \in Run, SaveOne(r) PROVE TypeOK'
  <2>1. (\A q \in Run : Unit(q)' = Unit(q)) /\ Task' = Task
    BY <1>5, SameUnits DEF SaveOne, given
  <2>2. QED
    BY <1>5, <2>1 DEF SaveOne, TypeOK, executor, given
<1>6. ASSUME NEW r \in Run, NEW how \in {"failed", "starved"}, Leave(r, how) PROVE TypeOK'
  <2>1. (\A q \in Run : Unit(q)' = Unit(q)) /\ Task' = Task
    BY <1>6, SameUnits DEF Leave, given
  <2>2. QED
    BY <1>6, <2>1 DEF Leave, TypeOK, executor, given, Ended, Active
<1>7. ASSUME NEW r \in Run, Record(r) PROVE TypeOK'
  <2>1. (\A q \in Run : Unit(q)' = Unit(q)) /\ Task' = Task
    BY <1>7, SameUnits DEF Record, given
  <2>2. Fetched(r, Batch(r)) \subseteq Unit(r) /\ Fetched(r, Unit(r)) \subseteq Unit(r)
    BY DEF Fetched, Batch
  <2>3. /\ pc' \in [Run -> {"idle"} \cup Active \cup Ended]
        /\ DOMAIN recorded' = Run /\ \A q \in Run : recorded'[q] \subseteq Unit(q)
        /\ from' \in [Run -> Nat]
        /\ \A q \in Run \ {r} : pc'[q] = pc[q]
    <3>1. PICK s \in {"fetching", "returned"}, S \in SUBSET Unit(r), n \in Nat :
             /\ pc' = [pc EXCEPT ![r] = s]
             /\ recorded' = [recorded EXCEPT ![r] = S]
             /\ from' = from \/ from' = [from EXCEPT ![r] = n]
      <4>1. from[r] + FetchBatchSize \in Nat /\ recorded[r] \subseteq Unit(r)
        BY UnitType, BatchSize DEF TypeOK
      <4>2. CASE Kind[r] = "data"
        BY <1>7, <2>2, <4>1, <4>2 DEF Record
      <4>3. CASE Kind[r] # "data"
        BY <1>7, <2>2, <4>1, <4>3 DEF Record
      <4>4. QED
        BY <4>2, <4>3
    <3>2. QED
      BY <3>1 DEF TypeOK, Active, Ended
  <2>4. open' \subseteq {q \in Run : pc'[q] = "saving"}
    BY <1>7, <2>3 DEF TypeOK, Record
  <2>5. QED
    BY <1>7, <2>1, <2>3, <2>4 DEF Record, TypeOK, executor, given
<1>8. CASE Take
  <2>1. (\A q \in Run : Unit(q)' = Unit(q)) /\ Task' = Task
    BY <1>8, SameUnits DEF Take, given
  <2>2. queue' \in Seq(Task) /\ busy' \subseteq Task
    BY <1>8, Taken DEF Take, TypeOK
  <2>3. QED
    BY <1>8, <2>1, <2>2 DEF Take, TypeOK, given
<1>9. ASSUME NEW r \in Run, NEW u \in Unit(r), Finish(r, u) PROVE TypeOK'
  <2>1. (\A q \in Run : Unit(q)' = Unit(q)) /\ Task' = Task
    BY <1>9, SameUnits DEF Finish, given
  <2>2. PICK o \in Decided : SetOutcome(r, u, o)
    BY <1>9, ConfigAssumption DEF Finish, Decided
  <2>3. DOMAIN outcome' = Run
        /\ \A q \in Run : outcome'[q] \in [Unit(q)' -> {"none", "pending"} \cup Decided]
    BY <1>9, <2>1, <2>2, OutcomeType DEF Finish, given
  <2>4. QED
    BY <1>9, <2>1, <2>3 DEF Finish, TypeOK, given
<1>10. CASE Crash
  <2>1. (\A q \in Run : Unit(q)' = Unit(q)) /\ Task' = Task
    BY <1>10, SameUnits DEF Crash, given
  <2>2. queue' \in Seq(Task)
    BY <1>10 DEF Crash
  <2>3. pc' \in [Run -> {"idle"} \cup Active \cup Ended]
    BY <1>10 DEF Crash, TypeOK, Ended
  <2>4. crashes' \in 0..MaxCrashes /\ threads' \in 0..PoolSize
    BY <1>10, ConfigAssumption DEF Crash, TypeOK
  <2>5. QED
    BY <1>10, <2>1, <2>2, <2>3, <2>4 DEF Crash, TypeOK, given
<1>11. CASE UNCHANGED vars
  <2>1. (\A q \in Run : Unit(q)' = Unit(q)) /\ Task' = Task
    BY <1>11, SameUnits DEF vars, given
  <2>2. QED
    BY <1>11, <2>1 DEF vars, TypeOK, executor, given
<1>12. QED
  BY <1>1, <1>2, <1>3, <1>4, <1>5, <1>6, <1>7, <1>8, <1>9, <1>10, <1>11, SubmitTypes
     DEF Next, Start, Call, SaveFails, ConnectionTimeout, Over

THEOREM TypeCorrect == Spec => []TypeOK
<1>1. QED
  BY InitTypes, TypesKept, PTL DEF Spec

-----------------------------------------------------------------------------
(* The inductive invariant.                                                *)

Waits(r, u) == pc[r] = "fetching" /\ u \in Batch(r) /\ outcome[r][u] = "pending"

LEMMA KindOf == \A r \in Run : Kind[r] \in {"data", "infos"}
BY RunAssumption

(* A run whose own state stays as it is keeps what it has.                 *)
LEMMA UntouchedRun ==
    ASSUME NEW r \in Run, Kept(r), UNCHANGED units,
           pc'[r] = pc[r], from'[r] = from[r], saving'[r] = saving[r],
           saved'[r] = saved[r], recorded'[r] = recorded[r],
           \A u \in Unit(r) : outcome'[r][u] = outcome[r][u]
    PROVE  Kept(r)'
<1>1. Unit(r)' = Unit(r) /\ Batch(r)' = Batch(r) /\ Tried(r)' = Tried(r) /\ Current(r)' = Current(r)
  BY DEF Unit, Page, Batch, Tried, Current
<1>2. /\ Fetched(r, Tried(r))' = Fetched(r, Tried(r))
      /\ Fetched(r, Unit(r))' = Fetched(r, Unit(r))
      /\ Fetched(r, Current(r))' = Fetched(r, Current(r))
  BY <1>1 DEF Fetched, Tried, Current, Batch
<1>3. QED
  BY <1>1, <1>2 DEF Kept, HistoryBehind, SavedBeyond, DecidedSoFar, Tried, Current, Batch

(* An executor nobody has touched, while the runs wait for the same units. *)
LEMMA UntouchedExecutor ==
    ASSUME PendingInExecutor, UNCHANGED <<queue, busy, units>>,
           \A r \in Run : \A u \in Unit(r) : Waits(r, u)' <=> Waits(r, u)
    PROVE  PendingInExecutor'
<1>1. Queued' = Queued /\ \A r \in Run : Unit(r)' = Unit(r)
  BY DEF Queued, Unit, Page
<1>2. QED
  BY <1>1 DEF PendingInExecutor, Waits

LEMMA InitInv == Init => IInv
<1> SUFFICES ASSUME Init PROVE IInv
  OBVIOUS
<1>1. TypeOK
  BY InitTypes
<1>2. PendingInExecutor
  BY DEF Init, PendingInExecutor, Queued
<1>3. ASSUME NEW r \in Run PROVE Kept(r)
  <2>1. /\ pc[r] = "idle" /\ from[r] = 0 /\ saving[r] = {} /\ saved[r] = {} /\ recorded[r] = {}
        /\ \A u \in Unit(r) : outcome[r][u] = "none"
    BY DEF Init
  <2>2. Fetched(r, Tried(r)) = {}
    BY <2>1 DEF Fetched, Tried
  <2>3. QED
    BY <2>1, <2>2 DEF Kept, HistoryBehind, SavedBeyond, DecidedSoFar, Active
<1>4. QED
  BY <1>1, <1>2, <1>3 DEF IInv

LEMMA StartDataInv ==
    ASSUME IInv, TypeOK', NEW r \in Run, StartData(r)
    PROVE  IInv'
<1>1. /\ pc[r] = "idle" /\ Kind[r] = "data"
      /\ pc' = [pc EXCEPT ![r] = IF units[r] = 0 THEN "returned" ELSE "fetching"]
      /\ UNCHANGED <<from, outcome, saving, saved, recorded, queue, busy, units>>
  BY DEF StartData, executor, given
<1>2. pc \in [Run -> {"idle"} \cup Active \cup Ended]
  BY DEF IInv, TypeOK
<1>3. Kept(r) /\ from[r] = 0 /\ \A u \in Unit(r) : outcome[r][u] = "none"
  BY <1>1 DEF IInv, Kept, DecidedSoFar
<1>4. \A q \in Run : Unit(q)' = Unit(q)
  BY <1>1, SameUnits
<1>5. PendingInExecutor'
  <2>1. \A q \in Run : \A u \in Unit(q) : Waits(q, u)' <=> Waits(q, u)
    BY <1>1, <1>2, <1>3, <1>4 DEF Waits, Batch
  <2>2. QED
    BY <1>1, <2>1, UntouchedExecutor DEF IInv
<1>6. Kept(r)'
  <2>1. Tried(r) = {} /\ Tried(r)' = {}
    BY <1>1, <1>3, <1>4, UnitType DEF Tried, Unit, Page, IInv
  <2>2. recorded[r] = {} /\ saved[r] = {}
    BY <1>1, <1>3, <2>1 DEF Kept, HistoryBehind, SavedBeyond, Fetched
  <2>3. pc'[r] \in {"returned", "fetching"} /\ (pc'[r] = "returned" => units[r] = 0)
    BY <1>1, <1>2
  <2>4. HistoryBehind(r)'
    BY <1>1, <2>1, <2>2 DEF HistoryBehind, Fetched
  <2>5. SavedBeyond(r)'
    BY <1>1, <2>2, <2>3 DEF SavedBeyond
  <2>6. DecidedSoFar(r)'
    BY <1>1, <1>3, <1>4, <2>1, <2>3, UnitType DEF DecidedSoFar, IInv
  <2>7. QED
    BY <2>4, <2>5, <2>6 DEF Kept
<1>7. ASSUME NEW q \in Run \ {r} PROVE Kept(q)'
  BY <1>1, <1>2, UntouchedRun DEF IInv
<1>8. QED
  BY <1>5, <1>6, <1>7 DEF IInv

LEMMA StartInfosInv ==
    ASSUME IInv, TypeOK', NEW r \in Run, StartInfos(r)
    PROVE  IInv'
<1>1. /\ pc[r] = "idle" /\ Kind[r] = "infos"
      /\ UNCHANGED <<from, saved, recorded, queue, busy, units>>
  BY DEF StartInfos, executor, given
<1>2. PICK o \in {"items", "empty", "failed"} :
         /\ SetOutcome(r, 0, o)
         /\ CASE o = "failed" -> pc' = [pc EXCEPT ![r] = "failed"] /\ UNCHANGED saving
              [] o # "failed" /\ units[r] = 0 -> SaveAllPages(r, IF o = "items" THEN {0} ELSE {})
              [] o # "failed" /\ units[r] # 0 -> pc' = [pc EXCEPT ![r] = "fetching"] /\ UNCHANGED saving
  BY DEF StartInfos
<1>3. /\ Kept(r) /\ from[r] = 0 /\ recorded[r] = {} /\ saved[r] = {}
      /\ \A u \in Unit(r) : outcome[r][u] = "none"
  BY <1>1 DEF IInv, Kept, DecidedSoFar, HistoryBehind, SavedBeyond
<1>4. /\ \A q \in Run : Unit(q)' = Unit(q)
      /\ 0 \in Unit(r) /\ units[r] \in Nat /\ (units[r] = 0 => Unit(r) = {0})
      /\ Tried(r)' = {0}
  BY <1>1, <1>3, SameUnits, UnitType DEF Tried, Unit, Page, IInv
<1>5. \A q \in Run : \A u \in Unit(q) :
         outcome'[q][u] = IF q = r /\ u = 0 THEN o ELSE outcome[q][u]
  BY <1>1, <1>2, <1>4, OutcomeType DEF IInv, Decided
<1>6. \A q \in Run \ {r} : pc'[q] = pc[q] /\ saving'[q] = saving[q]
  BY <1>2 DEF IInv, TypeOK, SaveAllPages
<1>7. \/ o = "failed" /\ pc'[r] = "failed"
      \/ /\ o # "failed" /\ units[r] = 0 /\ saving'[r] = IF o = "items" THEN {0} ELSE {}
         /\ pc'[r] = IF o = "items" THEN "saving" ELSE "returned"
      \/ o # "failed" /\ units[r] # 0 /\ pc'[r] = "fetching"
  <2>1. pc \in [Run -> {"idle"} \cup Active \cup Ended] /\ DOMAIN saving = Run
    BY DEF IInv, TypeOK
  <2>2. CASE o = "failed"
    BY <1>2, <2>1, <2>2
  <2>3. CASE o # "failed" /\ units[r] = 0
    BY <1>2, <2>1, <2>3 DEF SaveAllPages
  <2>4. CASE o # "failed" /\ units[r] # 0
    BY <1>2, <2>1, <2>4
  <2>5. QED
    BY <2>2, <2>3, <2>4
<1>8. PendingInExecutor'
  <2>1. \A u \in Unit(r) : outcome'[r][u] # "pending"
    BY <1>3, <1>5
  <2>2. \A q \in Run : \A u \in Unit(q) : Waits(q, u)' <=> Waits(q, u)
    BY <1>1, <1>4, <1>5, <1>6, <2>1 DEF Waits, Batch
  <2>3. QED
    BY <1>1, <2>2, UntouchedExecutor DEF IInv
<1>9. Kept(r)'
  <2>1. units[r] = 0 => Fetched(r, Unit(r))' = IF o = "items" THEN {0} ELSE {}
    BY <1>4, <1>5 DEF Fetched
  <2>2. HistoryBehind(r)'
    BY <1>1, <1>3, <1>7, <2>1 DEF HistoryBehind
  <2>3. SavedBeyond(r)'
    <3>1. Fetched(r, Current(r))' = Fetched(r, Unit(r))'
      BY <1>1 DEF Current
    <3>2. QED
      BY <1>1, <1>3, <1>7, <2>1, <3>1 DEF SavedBeyond
  <2>4. DecidedSoFar(r)'
    <3>1. Current(r)' = Unit(r)
      BY <1>1, <1>4 DEF Current
    <3>2. \A u \in Unit(r) : outcome'[r][u] # "pending"
      BY <1>3, <1>5
    <3>3. pc'[r] \in {"fetching", "saving", "returned"} => outcome'[r][0] \in Decided
      BY <1>4, <1>5 DEF Decided
    <3>4. QED
      BY <1>1, <1>3, <1>4, <1>7, <3>1, <3>2, <3>3 DEF DecidedSoFar
  <2>5. QED
    BY <2>2, <2>3, <2>4 DEF Kept
<1>10. ASSUME NEW q \in Run \ {r} PROVE Kept(q)'
  BY <1>1, <1>5, <1>6, UntouchedRun DEF IInv
<1>11. QED
  BY <1>8, <1>9, <1>10 DEF IInv

LEMMA SubmitInv ==
    ASSUME IInv, TypeOK', NEW r \in Run, Submit(r)
    PROVE  IInv'
<1>1. PICK u \in Unit(r) : /\ u \in Batch(r) /\ outcome[r][u] = "none" /\ pc[r] = "fetching"
                           /\ StartThread(r, u) \/ Enqueue(r, u) \/ Reject(r, u)
  BY NextUnit DEF IInv
<1>2. /\ UNCHANGED <<pc, from, saving, saved, recorded, units>>
      /\ \A q \in Run : Unit(q)' = Unit(q) /\ Batch(q)' = Batch(q)
      /\ <<r, u>> \in Task /\ queue \in Seq(Task)
  BY SameUnits, UnitType DEF Submit, given, Batch, IInv, TypeOK
<1>3. PICK o \in {"pending", "rejected"} :
         /\ SetOutcome(r, u, o)
         /\ o = "pending" => StartThread(r, u) \/ Enqueue(r, u)
         /\ o = "rejected" => UNCHANGED <<queue, busy>>
  BY <1>1 DEF StartThread, Enqueue, Reject, executor
<1>4. \A q \in Run : \A v \in Unit(q) :
         outcome'[q][v] = IF q = r /\ v = u THEN o ELSE outcome[q][v]
  BY <1>2, <1>3, OutcomeType DEF IInv, Decided
<1>5. <<r, u>> \notin Queued \cup busy
  BY <1>1 DEF IInv, PendingInExecutor
<1>6. PendingInExecutor'
  <2>1. CASE o = "rejected"
    <3>1. \A q \in Run : \A v \in Unit(q) : Waits(q, v)' <=> Waits(q, v)
      BY <1>1, <1>2, <1>4, <2>1 DEF Waits
    <3>2. QED
      BY <1>2, <1>3, <2>1, <3>1, UntouchedExecutor DEF IInv
  <2>2. CASE o = "pending"
    <3>1. /\ Queued' \cup busy' = Queued \cup busy \cup {<<r, u>>}
          /\ \A i, j \in DOMAIN queue' : queue'[i] = queue'[j] => i = j
          /\ Queued' \cap busy' = {}
      <4>1. CASE StartThread(r, u)
        BY <1>5, <4>1 DEF StartThread, Queued, IInv, PendingInExecutor
      <4>2. CASE Enqueue(r, u)
        <5>1. queue' = Append(queue, <<r, u>>) /\ busy' = busy
          BY <4>2 DEF Enqueue
        <5>2. Queued' = Queued \cup {<<r, u>>}
          BY <1>2, <5>1, Appended DEF Queued
        <5>3. \A i, j \in DOMAIN queue' : queue'[i] = queue'[j] => i = j
          BY <1>2, <1>5, <5>1, Appended DEF Queued, IInv, PendingInExecutor
        <5>4. QED
          BY <1>5, <5>1, <5>2, <5>3 DEF IInv, PendingInExecutor
      <4>3. QED
        BY <1>3, <2>2, <4>1, <4>2
    <3>2. ASSUME NEW q \in Run, NEW v \in Unit(q)
          PROVE  <<q, v>> \in Queued' \cup busy'
                   <=> pc'[q] = "fetching" /\ v \in Batch(q)' /\ outcome'[q][v] = "pending"
      <4>1. CASE q = r /\ v = u
        BY <1>1, <1>2, <1>4, <2>2, <3>1, <4>1
      <4>2. CASE q # r \/ v # u
        BY <1>2, <1>4, <3>1, <4>2 DEF IInv, PendingInExecutor
      <4>3. QED
        BY <4>1, <4>2
    <3>3. QED
      BY <1>2, <3>1, <3>2 DEF PendingInExecutor
  <2>3. QED
    BY <2>1, <2>2
<1>7. Kept(r)'
  <2>1. u \notin Tried(r) /\ Tried(r)' = Tried(r) /\ \A v \in Tried(r) : outcome'[r][v] = outcome[r][v]
    BY <1>1, <1>2, <1>4, UnitType DEF Tried, Batch, IInv
  <2>2. Fetched(r, Tried(r))' = Fetched(r, Tried(r))
    BY <2>1 DEF Fetched
  <2>3. HistoryBehind(r)' /\ SavedBeyond(r)'
    BY <1>1, <1>2, <2>2 DEF IInv, Kept, HistoryBehind, SavedBeyond
  <2>4. DecidedSoFar(r)'
    BY <1>1, <1>2, <1>4, <2>1 DEF IInv, Kept, DecidedSoFar
  <2>5. QED
    BY <2>3, <2>4 DEF Kept
<1>8. ASSUME NEW q \in Run \ {r} PROVE Kept(q)'
  BY <1>2, <1>4, UntouchedRun DEF IInv
<1>9. QED
  BY <1>6, <1>7, <1>8 DEF IInv

LEMMA TakeInv ==
    ASSUME IInv, TypeOK', Take
    PROVE  IInv'
<1>1. /\ queue # << >> /\ queue' = Tail(queue) /\ busy' = busy \cup {Head(queue)}
      /\ UNCHANGED <<pc, from, outcome, saving, saved, recorded, units>>
      /\ queue \in Seq(Task)
  BY DEF Take, given, IInv, TypeOK
<1>2. /\ Queued = Queued' \cup {Head(queue)}
      /\ \A i, j \in DOMAIN queue' : queue'[i] = queue'[j] => i = j
      /\ Head(queue) \notin Queued'
  <2>1. \A i, j \in DOMAIN queue : queue[i] = queue[j] => i = j
    BY DEF IInv, PendingInExecutor
  <2>2. QED
    BY <1>1, <2>1, Taken DEF Queued
<1>3. Queued' \cup busy' = Queued \cup busy /\ Queued' \cap busy' = {}
  BY <1>1, <1>2 DEF IInv, PendingInExecutor
<1>4. PendingInExecutor'
  <2>1. \A q \in Run : Unit(q)' = Unit(q) /\ Batch(q)' = Batch(q)
    BY <1>1, SameUnits DEF Batch
  <2>2. ASSUME NEW q \in Run, NEW v \in Unit(q)
        PROVE  <<q, v>> \in Queued' \cup busy'
                 <=> pc'[q] = "fetching" /\ v \in Batch(q)' /\ outcome'[q][v] = "pending"
    BY <1>1, <1>3, <2>1 DEF IInv, PendingInExecutor
  <2>3. QED
    BY <1>2, <1>3, <2>1, <2>2 DEF PendingInExecutor
<1>5. ASSUME NEW q \in Run PROVE Kept(q)'
  BY <1>1, UntouchedRun DEF IInv
<1>6. QED
  BY <1>4, <1>5 DEF IInv

LEMMA FinishInv ==
    ASSUME IInv, TypeOK', NEW r \in Run, NEW u \in Unit(r), Finish(r, u)
    PROVE  IInv'
<1>1. /\ <<r, u>> \in busy /\ busy' = busy \ {<<r, u>>}
      /\ UNCHANGED <<pc, from, saving, saved, recorded, queue, units>>
  BY DEF Finish, given
<1>2. PICK o \in Decided : SetOutcome(r, u, o)
  BY ConfigAssumption DEF Finish, Decided
<1>3. \A q \in Run : Unit(q)' = Unit(q) /\ Batch(q)' = Batch(q)
  BY <1>1, SameUnits DEF Batch
<1>4. \A q \in Run : \A v \in Unit(q) :
         outcome'[q][v] = IF q = r /\ v = u THEN o ELSE outcome[q][v]
  <2>1. o \in {"none", "pending"} \cup Decided /\ TypeOK /\ units' = units
    BY <1>1, <1>2 DEF IInv
  <2>2. QED
    BY <1>2, <2>1, OutcomeType
<1>5. pc[r] = "fetching" /\ u \in Batch(r) /\ o # "pending"
  BY <1>1 DEF IInv, PendingInExecutor, Decided
<1>6. PendingInExecutor'
  <2>1. Queued' = Queued /\ Queued' \cap busy' = {} /\ <<r, u>> \notin Queued
    BY <1>1 DEF Queued, IInv, PendingInExecutor
  <2>2. ASSUME NEW q \in Run, NEW v \in Unit(q)
        PROVE  <<q, v>> \in Queued' \cup busy'
                 <=> pc'[q] = "fetching" /\ v \in Batch(q)' /\ outcome'[q][v] = "pending"
    <3>1. CASE q = r /\ v = u
      BY <1>1, <1>4, <1>5, <2>1, <3>1
    <3>2. CASE q # r \/ v # u
      BY <1>1, <1>3, <1>4, <2>1, <3>2 DEF IInv, PendingInExecutor
    <3>3. QED
      BY <3>1, <3>2
  <2>3. QED
    BY <1>1, <1>3, <2>1, <2>2 DEF PendingInExecutor, IInv
<1>7. Kept(r)'
  <2>1. u \notin Tried(r) /\ Tried(r)' = Tried(r) /\ \A v \in Tried(r) : outcome'[r][v] = outcome[r][v]
    BY <1>1, <1>3, <1>4, <1>5, UnitType DEF Tried, Batch, IInv
  <2>2. Fetched(r, Tried(r))' = Fetched(r, Tried(r))
    BY <2>1 DEF Fetched
  <2>3. HistoryBehind(r)' /\ SavedBeyond(r)'
    BY <1>1, <1>5, <2>2 DEF IInv, Kept, HistoryBehind, SavedBeyond
  <2>4. DecidedSoFar(r)'
    BY <1>1, <1>3, <1>4, <1>5, <2>1 DEF IInv, Kept, DecidedSoFar
  <2>5. QED
    BY <2>3, <2>4 DEF Kept
<1>8. ASSUME NEW q \in Run \ {r} PROVE Kept(q)'
  BY <1>1, <1>4, UntouchedRun DEF IInv
<1>9. QED
  BY <1>6, <1>7, <1>8 DEF IInv

(* Once a batch is decided, nobody waits for a unit of the run any more.   *)
LEMMA JoinInv ==
    ASSUME IInv, TypeOK', NEW r \in Run, Join(r)
    PROVE  IInv'
<1>1. /\ pc[r] = "fetching" /\ \A u \in Batch(r) : outcome[r][u] \in Decided
      /\ UNCHANGED <<outcome, saved, recorded, queue, busy, units>>
  BY DEF Join, executor, given
<1>2. \A q \in Run : Unit(q)' = Unit(q)
  BY <1>1, SameUnits
<1>3. \A u \in Unit(r) : outcome[r][u] # "pending"
  BY <1>1 DEF IInv, Kept, DecidedSoFar, Active, Decided
<1>4. \A q \in Run \ {r} : pc'[q] = pc[q] /\ from'[q] = from[q] /\ saving'[q] = saving[q]
  <2>1. CASE Kind[r] = "data"
    BY <2>1 DEF Join, IInv, TypeOK
  <2>2. CASE Kind[r] # "data" /\ from'[r] < units[r]
    BY <2>2 DEF Join, IInv, TypeOK
  <2>3. CASE Kind[r] # "data" /\ ~(from'[r] < units[r])
    BY <2>3 DEF Join, SaveAllPages, IInv, TypeOK
  <2>4. QED
    BY <2>1, <2>2, <2>3
<1>5. PendingInExecutor'
  <2>1. \A q \in Run : \A u \in Unit(q) : Waits(q, u)' <=> Waits(q, u)
    BY <1>1, <1>2, <1>3, <1>4 DEF Waits, Batch
  <2>2. QED
    BY <1>1, <2>1, UntouchedExecutor DEF IInv
<1>6. Kept(r) /\ units[r] \in Nat /\ from[r] \in Nat /\ Unit(r) \subseteq Nat
      /\ FetchBatchSize \in Nat /\ FetchBatchSize > 0
  BY UnitType, BatchSize DEF IInv
<1>7. \A S : Fetched(r, S)' = Fetched(r, S)
  BY <1>1 DEF Fetched
<1>8. \A u \in Unit(r) : outcome'[r][u] # "pending"
  BY <1>1, <1>3
<1>9. ASSUME Kind[r] = "data" PROVE Kept(r)'
  <2>1. /\ pc'[r] = "saving" /\ saving'[r] = Fetched(r, Batch(r)) /\ from' = from
    BY <1>9 DEF Join, IInv, TypeOK
  <2>2. Batch(r)' = Batch(r) /\ Tried(r)' = Tried(r) /\ Current(r)' = Batch(r)
    BY <1>2, <1>9, <2>1 DEF Batch, Tried, Current
  <2>3. HistoryBehind(r)'
    BY <1>1, <1>6, <1>7, <1>9, <2>2 DEF Kept, HistoryBehind, Fetched
  <2>4. SavedBeyond(r)'
    BY <1>1, <1>6, <1>7, <2>1, <2>2 DEF Kept, SavedBeyond, Fetched
  <2>5. DecidedSoFar(r)'
    <3>1. \A u \in Tried(r) \cup Batch(r) : outcome'[r][u] \in Decided
      BY <1>1, <1>6 DEF Kept, DecidedSoFar
    <3>2. QED
      BY <1>2, <1>9, <1>8, <2>1, <2>2, <3>1 DEF DecidedSoFar
  <2>6. QED
    BY <2>3, <2>4, <2>5 DEF Kept
<1>10. ASSUME Kind[r] = "infos" PROVE Kept(r)'
  <2>1. from'[r] = from[r] + FetchBatchSize
    BY <1>10 DEF Join, IInv, TypeOK
  <2>2. Tried(r)' = Tried(r) \cup Batch(r)
    BY <1>2, <1>6, <2>1 DEF Tried, Batch
  <2>3. \A u \in Tried(r)' : outcome'[r][u] \in Decided
    BY <1>1, <1>6, <2>2 DEF Kept, DecidedSoFar
  <2>4. /\ recorded[r] = {} /\ saved[r] = {}
    BY <1>1, <1>6, <1>10 DEF Kept, HistoryBehind, SavedBeyond
  <2>5. /\ Current(r)' = Unit(r) /\ Fetched(r, Unit(r))' = Fetched(r, Unit(r))
        /\ Fetched(r, Current(r))' = Fetched(r, Unit(r))
    BY <1>1, <1>2, <1>10 DEF Current, Fetched
  <2>6. CASE from'[r] < units[r]
    <3>1. pc' = pc /\ saving' = saving
      BY <1>10, <2>6 DEF Join
    <3>2. HistoryBehind(r)' /\ SavedBeyond(r)'
      BY <1>1, <1>10, <2>4, <3>1 DEF HistoryBehind, SavedBeyond
    <3>3. DecidedSoFar(r)'
      BY <1>1, <1>2, <1>8, <2>3, <3>1 DEF DecidedSoFar
    <3>4. QED
      BY <3>2, <3>3 DEF Kept
  <2>7. CASE ~(from'[r] < units[r])
    <3>1. /\ saving'[r] = Fetched(r, Unit(r))
          /\ pc'[r] = IF Fetched(r, Unit(r)) = {} THEN "returned" ELSE "saving"
      BY <1>10, <2>7 DEF Join, SaveAllPages, IInv, TypeOK
    <3>2. units'[r] <= from'[r]
      BY <1>1, <1>6, <2>1, <2>7
    <3>3. Tried(r)' = Unit(r)
      <4>1. \A u \in Unit(r) : u <= units[r]
        BY <1>6 DEF Unit, Page
      <4>2. \A u \in Unit(r) : u <= from'[r]
        BY <1>1, <1>6, <2>1, <3>2, <4>1
      <4>3. QED
        BY <1>2, <4>2 DEF Tried
    <3>4. HistoryBehind(r)' /\ SavedBeyond(r)'
      BY <1>1, <1>10, <2>4, <2>5, <3>1 DEF HistoryBehind, SavedBeyond
    <3>5. DecidedSoFar(r)'
      BY <1>2, <1>8, <2>3, <2>5, <3>1, <3>2, <3>3 DEF DecidedSoFar
    <3>6. QED
      BY <3>4, <3>5 DEF Kept
  <2>8. QED
    BY <2>6, <2>7
<1>11. ASSUME NEW q \in Run \ {r} PROVE Kept(q)'
  BY <1>1, <1>4, UntouchedRun DEF IInv
<1>12. QED
  BY <1>5, <1>9, <1>10, <1>11, KindOf DEF IInv

LEMMA BeginSaveInv ==
    ASSUME IInv, TypeOK', NEW r \in Run, BeginSave(r)
    PROVE  IInv'
<1>1. UNCHANGED <<pc, from, outcome, saving, saved, recorded, queue, busy, units>>
  BY DEF BeginSave, executor, given
<1>2. \A q \in Run : \A u \in Unit(q) : Waits(q, u)' <=> Waits(q, u)
  BY <1>1, SameUnits DEF Waits, Batch
<1>3. PendingInExecutor'
  BY <1>1, <1>2, UntouchedExecutor DEF IInv
<1>4. ASSUME NEW q \in Run PROVE Kept(q)'
  BY <1>1, UntouchedRun DEF IInv
<1>5. QED
  BY <1>3, <1>4 DEF IInv

LEMMA SaveOneInv ==
    ASSUME IInv, TypeOK', NEW r \in Run, SaveOne(r)
    PROVE  IInv'
<1>1. /\ UNCHANGED <<pc, from, outcome, recorded, queue, busy, units>>
      /\ pc[r] = "saving"
  BY DEF SaveOne, executor, given, IInv, TypeOK
<1>2. PICK u \in saving[r] : /\ saved' = [saved EXCEPT ![r] = @ \cup {u}]
                             /\ saving' = [saving EXCEPT ![r] = @ \ {u}]
  BY DEF SaveOne
<1>3. \A q \in Run : \A v \in Unit(q) : Waits(q, v)' <=> Waits(q, v)
  BY <1>1, SameUnits DEF Waits, Batch
<1>4. PendingInExecutor'
  BY <1>1, <1>3, UntouchedExecutor DEF IInv
<1>5. Kept(r)'
  <2>1. /\ Unit(r)' = Unit(r) /\ Tried(r)' = Tried(r) /\ Batch(r)' = Batch(r)
        /\ Current(r)' = Current(r) /\ Fetched(r, Current(r))' = Fetched(r, Current(r))
        /\ Fetched(r, Tried(r))' = Fetched(r, Tried(r)) /\ Fetched(r, Unit(r))' = Fetched(r, Unit(r))
    BY <1>1, SameUnits DEF Tried, Current, Batch, Fetched
  <2>2. saved'[r] = saved[r] \cup {u} /\ saving'[r] = saving[r] \ {u} /\ u \in saving[r]
    BY <1>2 DEF IInv, TypeOK
  <2>3. HistoryBehind(r)' /\ DecidedSoFar(r)'
    BY <1>1, <2>1 DEF IInv, Kept, HistoryBehind, DecidedSoFar
  <2>4. SavedBeyond(r)'
    BY <1>1, <2>1, <2>2 DEF IInv, Kept, SavedBeyond
  <2>5. QED
    BY <2>3, <2>4 DEF Kept
<1>6. ASSUME NEW q \in Run \ {r} PROVE Kept(q)'
  <2>1. saved'[q] = saved[q] /\ saving'[q] = saving[q]
    BY <1>2 DEF IInv, TypeOK
  <2>2. QED
    BY <1>1, <2>1, UntouchedRun DEF IInv
<1>7. QED
  BY <1>4, <1>5, <1>6 DEF IInv

(* A run that has ended without returning keeps what it has committed.     *)
LEMMA StoppedRun ==
    ASSUME NEW r \in Run, Kept(r), UNCHANGED units, pc[r] \in Active, pc'[r] \in {"failed", "starved"},
           from'[r] = from[r], outcome'[r] = outcome[r], saved'[r] = saved[r], recorded'[r] = recorded[r]
    PROVE  Kept(r)'
<1>1. Unit(r)' = Unit(r) /\ Tried(r)' = Tried(r) /\ Fetched(r, Tried(r))' = Fetched(r, Tried(r))
  BY DEF Unit, Page, Tried, Fetched
<1>2. HistoryBehind(r)'
  BY <1>1 DEF Kept, HistoryBehind, Active
<1>3. SavedBeyond(r)' /\ DecidedSoFar(r)'
  BY <1>1 DEF Kept, SavedBeyond, DecidedSoFar, Active
<1>4. QED
  BY <1>2, <1>3 DEF Kept

LEMMA LeaveInv ==
    ASSUME IInv, TypeOK', NEW r \in Run, pc[r] = "saving", NEW how \in {"failed", "starved"}, Leave(r, how)
    PROVE  IInv'
<1>1. /\ UNCHANGED <<from, outcome, saving, saved, recorded, queue, busy, units>>
      /\ pc' = [pc EXCEPT ![r] = how] /\ pc'[r] = how
      /\ \A q \in Run \ {r} : pc'[q] = pc[q]
  BY DEF Leave, executor, given, IInv, TypeOK
<1>2. \A q \in Run : \A v \in Unit(q) : Waits(q, v)' <=> Waits(q, v)
  BY <1>1, SameUnits DEF Waits, Batch
<1>3. PendingInExecutor'
  BY <1>1, <1>2, UntouchedExecutor DEF IInv
<1>4. Kept(r)'
  BY <1>1, StoppedRun DEF IInv, Active
<1>5. ASSUME NEW q \in Run \ {r} PROVE Kept(q)'
  BY <1>1, UntouchedRun DEF IInv
<1>6. QED
  BY <1>3, <1>4, <1>5 DEF IInv

LEMMA RecordInv ==
    ASSUME IInv, TypeOK', NEW r \in Run, Record(r)
    PROVE  IInv'
<1>1. /\ pc[r] = "saving" /\ saving[r] = {}
      /\ UNCHANGED <<outcome, saving, saved, queue, busy, units>>
  BY DEF Record, executor, given, IInv, TypeOK
<1>2. \A q \in Run : Unit(q)' = Unit(q)
  BY <1>1, SameUnits
<1>3. \A q \in Run \ {r} : pc'[q] = pc[q] /\ from'[q] = from[q] /\ recorded'[q] = recorded[q]
  <2>1. CASE Kind[r] = "data"
    BY <2>1 DEF Record, IInv, TypeOK
  <2>2. CASE Kind[r] # "data"
    BY <2>2 DEF Record, IInv, TypeOK
  <2>3. QED
    BY <2>1, <2>2
<1>4. Kept(r) /\ units[r] \in Nat /\ from[r] \in Nat /\ Unit(r) \subseteq Nat
      /\ FetchBatchSize \in Nat /\ FetchBatchSize > 0
  BY UnitType, BatchSize DEF IInv
<1>5. saved[r] = recorded[r] \cup Fetched(r, Current(r))
  BY <1>1, <1>4 DEF Kept, SavedBeyond
<1>6. \A u \in Tried(r) \cup Current(r) : outcome'[r][u] \in Decided
  BY <1>1, <1>4 DEF Kept, DecidedSoFar
<1>7. \A u \in Unit(r) : outcome'[r][u] # "pending"
  <2>1. CASE Kind[r] = "data"
    BY <1>1, <1>4, <1>6, <2>1 DEF Kept, DecidedSoFar, Active, Current, Decided
  <2>2. CASE Kind[r] = "infos"
    BY <1>6, <2>2 DEF Current, Decided
  <2>3. QED
    BY <2>1, <2>2, KindOf
<1>8. ASSUME Kind[r] = "data" PROVE Kept(r)' /\ pc'[r] # "saving"
  <2>1. /\ recorded'[r] = recorded[r] \cup Fetched(r, Batch(r))
        /\ from'[r] = from[r] + FetchBatchSize
        /\ pc'[r] = IF from'[r] <= units[r] THEN "fetching" ELSE "returned"
    BY <1>8 DEF Record, IInv, TypeOK
  <2>2. Current(r) = Batch(r) /\ Tried(r)' = Tried(r) \cup Batch(r)
    BY <1>2, <1>4, <1>8, <2>1 DEF Current, Tried, Batch
  <2>3. Fetched(r, Tried(r))' = Fetched(r, Tried(r)) \cup Fetched(r, Batch(r))
    BY <1>1, <2>2 DEF Fetched
  <2>4. HistoryBehind(r)'
    BY <1>4, <1>8, <2>1, <2>3 DEF Kept, HistoryBehind
  <2>5. SavedBeyond(r)'
    BY <1>1, <1>5, <2>1, <2>2 DEF SavedBeyond
  <2>6. DecidedSoFar(r)'
    <3>1. \A u \in Tried(r)' : outcome'[r][u] \in Decided
      BY <1>6, <2>2
    <3>2. pc'[r] = "returned" => units'[r] <= from'[r]
      BY <1>1, <1>4, <2>1
    <3>3. QED
      BY <1>2, <1>7, <1>8, <2>1, <3>1, <3>2 DEF DecidedSoFar
  <2>7. QED
    BY <2>1, <2>4, <2>5, <2>6 DEF Kept
<1>9. ASSUME Kind[r] = "infos" PROVE Kept(r)' /\ pc'[r] # "saving"
  <2>1. recorded'[r] = Fetched(r, Unit(r)) /\ from' = from /\ pc'[r] = "returned"
    BY <1>9 DEF Record, IInv, TypeOK
  <2>2. Current(r) = Unit(r) /\ recorded[r] = {} /\ units[r] <= from[r]
    BY <1>1, <1>4, <1>9 DEF Current, Kept, HistoryBehind, DecidedSoFar
  <2>3. Fetched(r, Unit(r))' = Fetched(r, Unit(r)) /\ Tried(r)' = Tried(r)
    BY <1>1, <1>2, <2>1 DEF Fetched, Tried
  <2>4. HistoryBehind(r)' /\ SavedBeyond(r)'
    BY <1>1, <1>5, <1>9, <2>1, <2>2, <2>3 DEF HistoryBehind, SavedBeyond
  <2>5. DecidedSoFar(r)'
    BY <1>1, <1>2, <1>6, <1>7, <2>1, <2>2, <2>3 DEF DecidedSoFar
  <2>6. QED
    BY <2>1, <2>4, <2>5 DEF Kept
<1>10. PendingInExecutor'
  <2>1. \A q \in Run : \A u \in Unit(q) : Waits(q, u)' <=> Waits(q, u)
    BY <1>1, <1>2, <1>3, <1>7 DEF Waits, Batch
  <2>2. QED
    BY <1>1, <2>1, UntouchedExecutor DEF IInv
<1>11. ASSUME NEW q \in Run \ {r} PROVE Kept(q)'
  BY <1>1, <1>3, UntouchedRun DEF IInv
<1>12. QED
  BY <1>8, <1>9, <1>10, <1>11, KindOf DEF IInv

LEMMA CrashInv ==
    ASSUME IInv, TypeOK', Crash
    PROVE  IInv'
<1>1. /\ UNCHANGED <<from, outcome, saving, saved, recorded, units>>
      /\ queue' = << >> /\ busy' = {}
      /\ \A q \in Run : pc'[q] = IF pc[q] \in Active THEN "failed" ELSE pc[q]
  BY DEF Crash, given
<1>2. PendingInExecutor'
  BY <1>1 DEF PendingInExecutor, Queued, Active
<1>3. ASSUME NEW q \in Run PROVE Kept(q)'
  <2>1. CASE pc[q] \in Active
    BY <1>1, <2>1, StoppedRun DEF IInv
  <2>2. CASE pc[q] \notin Active
    BY <1>1, <2>2, UntouchedRun DEF IInv
  <2>3. QED
    BY <2>1, <2>2
<1>4. QED
  BY <1>2, <1>3 DEF IInv

LEMMA StepInv ==
    ASSUME IInv, [Next]_vars
    PROVE  IInv'
<1>1. TypeOK'
  BY TypesKept DEF IInv
<1>2. CASE \E r \in Run : Start(r) \/ Call(r)
  <2>1. ASSUME NEW r \in Run, SaveFails(r) \/ ConnectionTimeout(r) PROVE IInv'
    <3>1. pc[r] = "saving" /\ \E how \in {"failed", "starved"} : Leave(r, how)
      BY <2>1 DEF SaveFails, ConnectionTimeout, IInv, TypeOK
    <3>2. QED
      BY <1>1, <3>1, LeaveInv
  <2>2. QED
    BY <1>1, <1>2, <2>1, StartDataInv, StartInfosInv, SubmitInv, JoinInv, BeginSaveInv, SaveOneInv, RecordInv
       DEF Start, Call
<1>3. CASE Take \/ Crash \/ \E r \in Run : \E u \in Unit(r) : Finish(r, u)
  BY <1>1, <1>3, TakeInv, CrashInv, FinishInv
<1>4. CASE UNCHANGED vars
  <2>1. UNCHANGED <<pc, from, outcome, saving, saved, recorded, queue, busy, units>>
    BY <1>4 DEF vars, executor, given
  <2>2. \A q \in Run : \A u \in Unit(q) : Waits(q, u)' <=> Waits(q, u)
    BY <2>1, SameUnits DEF Waits, Batch
  <2>3. PendingInExecutor'
    BY <2>1, <2>2, UntouchedExecutor DEF IInv
  <2>4. ASSUME NEW q \in Run PROVE Kept(q)'
    BY <2>1, UntouchedRun DEF IInv
  <2>5. QED
    BY <1>1, <2>3, <2>4 DEF IInv
<1>5. QED
  BY <1>2, <1>3, <1>4 DEF Next, Over

(* IInv holds throughout: what a run has saved and recorded is known from  *)
(* where it stands.                                                        *)
THEOREM Invariant == Spec => []IInv
<1>1. QED
  BY InitInv, StepInv, PTL DEF Spec

-----------------------------------------------------------------------------
(* What IInv says of the properties that are checked.                      *)

(* Every task of the executor is waited for by its run and the other way   *)
(* round, so no thread of the pool works for nobody.                       *)
THEOREM WaitedFor == Spec => []PendingInExecutor
<1>1. IInv => PendingInExecutor
  BY DEF IInv
<1>2. QED
  BY <1>1, Invariant, PTL

(* A run that returns has tried every unit, and what brought items is      *)
(* saved and recorded.                                                     *)
THEOREM Complete == Spec => []ReturnedIsComplete
<1>1. ASSUME IInv PROVE ReturnedIsComplete
  <2> SUFFICES ASSUME NEW r \in Run, pc[r] = "returned", NEW u \in Unit(r)
               PROVE  /\ outcome[r][u] \in Decided
                      /\ outcome[r][u] = "items" => u \in saved[r] \cap recorded[r]
    BY DEF ReturnedIsComplete
  <2>1. TypeOK /\ Kept(r)
    BY <1>1 DEF IInv
  <2>2. units[r] <= from[r]
    BY <2>1 DEF Kept, DecidedSoFar
  <2>3. units[r] \in Nat /\ from[r] \in Nat
    BY <2>1, UnitType
  <2>4. u \in Tried(r)
    BY <2>2, <2>3 DEF Tried, Unit, Page
  <2>5. outcome[r][u] \in Decided
    BY <2>1, <2>4 DEF Kept, DecidedSoFar
  <2>6. saved[r] = recorded[r]
    BY <2>1 DEF Kept, SavedBeyond
  <2>7. Kind[r] \in {"data", "infos"}
    BY KindOf
  <2>8. outcome[r][u] = "items" => u \in recorded[r]
    BY <2>1, <2>4, <2>7 DEF Kept, HistoryBehind, Fetched
  <2>9. QED
    BY <2>5, <2>6, <2>8
<1>2. QED
  BY <1>1, Invariant, PTL

-----------------------------------------------------------------------------
(* The outer transactions are at most as many as the runs, so with one     *)
(* connection more the pool never refuses.                                 *)
THEOREM NeverStarved == Spec => []NoStarvation
<1>1. Init => NoStarvation
  BY DEF Init, NoStarvation
<1>2. ASSUME TypeOK, NoStarvation, [Next]_vars
      PROVE  NoStarvation'
  <2>1. UNCHANGED connections
    BY <1>2 DEF Next, Start, StartData, StartInfos, Call, Submit, Join, BeginSave, SaveOne, SaveFails,
                ConnectionTimeout, Leave, Record, Take, Finish, Crash, Over, vars, given
  <2>2. ASSUME Cardinality(Run) < connections
        PROVE  OneIsFree
    <3>1. open \subseteq Run
      BY <1>2 DEF TypeOK
    <3>2. Cardinality(open) <= Cardinality(Run) /\ Cardinality(open) \in Nat /\ Cardinality(Run) \in Nat
      BY <3>1, RunAssumption, FS_Subset, FS_CardinalityType
    <3>3. [queue |-> capacity, connections |-> connections] \in Deployments
      BY <1>2 DEF TypeOK
    <3>4. connections \in Nat
      BY <3>3, ConfigAssumption
    <3>5. QED
      BY <2>2, <3>2, <3>4 DEF OneIsFree
  <2>3. ASSUME Cardinality(Run) < connections, NEW q \in Run, pc'[q] = "starved"
        PROVE  pc[q] = "starved"
    <3>1. \A r \in Run : ~ConnectionTimeout(r)
      BY <2>2, <2>3 DEF ConnectionTimeout
    <3>2. pc \in [Run -> {"idle"} \cup Active \cup Ended]
      BY <1>2 DEF TypeOK
    <3>3. CASE \E r \in Run : Start(r) \/ Submit(r) \/ Join(r) \/ BeginSave(r) \/ SaveOne(r) \/ SaveFails(r) \/ Record(r)
      BY <3>2, <3>3, <2>3 DEF Start, StartData, StartInfos, SaveAllPages, Submit, Join, BeginSave, SaveOne,
                              SaveFails, Leave, Record
    <3>4. CASE Take \/ Crash \/ UNCHANGED vars \/ \E r \in Run : \E u \in Unit(r) : Finish(r, u)
      BY <3>2, <3>4, <2>3 DEF Take, Crash, Finish, vars
    <3>5. QED
      BY <1>2, <3>1, <3>3, <3>4 DEF Next, Call, Over
  <2>4. QED
    BY <1>2, <2>1, <2>3 DEF NoStarvation
<1>3. QED
  BY <1>1, <1>2, TypeCorrect, PTL DEF Spec

-----------------------------------------------------------------------------
(* The history has no hole: batches end at multiples of the batch size, so *)
(* that the units behind from are whole batches.                           *)
Aligned == \A r \in Run : \E k \in Nat : from[r] = k * FetchBatchSize

LEMMA SameBatch ==
    ASSUME NEW F \in Nat, F > 0, NEW k \in Nat, NEW a \in Int, NEW b \in Int,
           a \div F = b \div F, a < k * F
    PROVE  b < k * F
<1> DEFINE q == a \div F
<1>1. q \in Int /\ F * q <= a /\ b < F * q + F
  OBVIOUS
<1> HIDE DEF q
<1>2. F * q < F * k
  BY <1>1
<1>3. q < k
  BY <1>1, <1>2
<1>4. F * (q + 1) <= F * k
  BY <1>1, <1>3
<1>5. F * (q + 1) = F * q + F
  BY <1>1
<1>6. QED
  BY <1>1, <1>4, <1>5

LEMMA AlignedKept ==
    ASSUME TypeOK, Aligned, [Next]_vars
    PROVE  Aligned'
<1>1. from \in [Run -> Nat] /\ FetchBatchSize' = FetchBatchSize /\ FetchBatchSize \in Nat
  BY BatchSize DEF TypeOK, FetchBatchSize
<1>2. CASE UNCHANGED from
  BY <1>1, <1>2 DEF Aligned
<1>3. CASE \E r \in Run : from' = [from EXCEPT ![r] = @ + FetchBatchSize]
  <2>1. PICK r \in Run : from' = [from EXCEPT ![r] = @ + FetchBatchSize]
    BY <1>3
  <2>2. ASSUME NEW q \in Run PROVE \E k \in Nat : from'[q] = k * FetchBatchSize
    <3>1. PICK k \in Nat : from[q] = k * FetchBatchSize
      BY DEF Aligned
    <3>2. (k + 1) * FetchBatchSize = k * FetchBatchSize + FetchBatchSize
      BY <1>1
    <3>3. from'[q] = k * FetchBatchSize \/ from'[q] = (k + 1) * FetchBatchSize
      BY <1>1, <2>1, <3>1, <3>2
    <3>4. QED
      BY <3>3
  <2>3. QED
    BY <1>1, <2>2 DEF Aligned
<1>4. UNCHANGED from \/ \E r \in Run : from' = [from EXCEPT ![r] = @ + FetchBatchSize]
  BY DEF Next, Start, StartData, StartInfos, Call, Submit, Join, BeginSave, SaveOne, SaveFails,
         ConnectionTimeout, Leave, Record, Take, Finish, Crash, Over, vars
<1>5. QED
  BY <1>2, <1>3, <1>4

THEOREM NoHole == Spec => []HistoryHasNoHole
<1>1. Init => Aligned
  <2>1. 0 * FetchBatchSize = 0
    BY BatchSize
  <2>2. QED
    BY <2>1 DEF Init, Aligned
<1>2. ASSUME IInv, Aligned PROVE HistoryHasNoHole
  <2> SUFFICES ASSUME NEW r \in Run, NEW u \in recorded[r]
               PROVE  /\ u \in saved[r]
                      /\ \A v \in Unit(r) : (v < u \/ v \in BatchAt(r, u)) /\ outcome[r][v] = "items"
                            => v \in recorded[r]
    BY DEF HistoryHasNoHole
  <2>1. TypeOK /\ Kept(r) /\ Kind[r] \in {"data", "infos"}
    BY <1>2, KindOf DEF IInv
  <2>2. u \in saved[r]
    BY <2>1 DEF Kept, SavedBeyond
  <2>3. Unit(r) \subseteq Nat /\ from[r] \in Nat /\ FetchBatchSize \in Nat /\ FetchBatchSize > 0
    BY <2>1, UnitType, BatchSize
  <2>4. ASSUME NEW v \in Unit(r), v < u \/ v \in BatchAt(r, u), outcome[r][v] = "items"
        PROVE  v \in recorded[r]
    <3>1. CASE Kind[r] = "infos"
      BY <2>1, <2>4, <3>1 DEF Kept, HistoryBehind, Fetched
    <3>2. CASE Kind[r] = "data"
      <4>1. recorded[r] = Fetched(r, Tried(r))
        BY <2>1, <3>2 DEF Kept, HistoryBehind
      <4>2. u \in Unit(r) /\ u <= from[r]
        BY <4>1 DEF Fetched, Tried
      <4>3. v <= from[r]
        <5>1. PICK k \in Nat : from[r] = k * FetchBatchSize
          BY <1>2 DEF Aligned
        <5>2. u \in Nat /\ v \in Nat
          BY <2>3, <4>2
        <5>3. CASE v < u
          BY <2>3, <4>2, <5>2, <5>3
        <5>4. CASE v \in BatchAt(r, u)
          <6>1. (v - 1) \div FetchBatchSize = (u - 1) \div FetchBatchSize
            BY <5>4 DEF BatchAt
          <6> DEFINE a == u - 1
                     b == v - 1
          <6>2. a \in Int /\ b \in Int /\ a \div FetchBatchSize = b \div FetchBatchSize
            BY <5>2, <6>1
          <6>3. a < k * FetchBatchSize
            BY <4>2, <5>1, <5>2, <2>3
          <6> HIDE DEF a, b
          <6>4. b < k * FetchBatchSize
            BY <2>3, <6>2, <6>3, SameBatch
          <6>5. QED
            BY <2>3, <5>1, <5>2, <6>4 DEF b
        <5>5. QED
          BY <2>4, <5>3, <5>4
      <4>4. QED
        BY <2>4, <4>1, <4>3 DEF Fetched, Tried
    <3>3. QED
      BY <2>1, <3>1, <3>2
  <2>5. QED
    BY <2>2, <2>4
<1>3. IInv => TypeOK
  BY DEF IInv
<1>4. QED
  BY <1>1, <1>2, <1>3, AlignedKept, Invariant, PTL DEF Spec

-----------------------------------------------------------------------------
(* The executor stays within its bounds.                                   *)

(* A run numbers the units of its batch from one to the batch size.        *)
LEMMA InBatch ==
    ASSUME TypeOK, NEW r \in Run, NEW u \in Batch(r)
    PROVE  u \in Unit(r) /\ u - from[r] \in 1..FetchBatchSize
BY UnitType, BatchSize DEF Batch

ExecutorFits ==
    /\ IsFiniteSet(busy) /\ Cardinality(busy) <= threads
    /\ Len(queue) <= capacity
    /\ queue # << >> => threads = PoolSize

LEMMA ExecutorFitsKept ==
    ASSUME TypeOK, ExecutorFits, [Next]_vars
    PROVE  ExecutorFits'
<1>0. threads \in Nat /\ queue \in Seq(Task) /\ capacity \in Nat /\ UNCHANGED capacity
  <2>1. [queue |-> capacity, connections |-> connections] \in Deployments
    BY DEF TypeOK
  <2>2. capacity \in Nat
    BY <2>1, ConfigAssumption
  <2>3. UNCHANGED capacity
    BY DEF Next, Start, StartData, StartInfos, Call, Submit, Join, BeginSave, SaveOne, SaveFails,
           ConnectionTimeout, Leave, Record, Take, Finish, Crash, Over, vars, given
  <2>4. QED
    BY <2>2, <2>3, ConfigAssumption DEF TypeOK
<1>1. ASSUME NEW t, busy' = busy \cup {t}, Cardinality(busy) + 1 <= threads'
      PROVE  IsFiniteSet(busy') /\ Cardinality(busy') <= threads'
  <2>1. Cardinality(busy) \in Nat
    BY FS_CardinalityType DEF ExecutorFits
  <2>2. IsFiniteSet(busy') /\ (Cardinality(busy') = Cardinality(busy) \/ Cardinality(busy') = Cardinality(busy) + 1)
    BY <1>1, FS_AddElement DEF ExecutorFits
  <2>3. threads' \in Int
    BY TypesKept DEF TypeOK
  <2>4. QED
    BY <1>1, <2>1, <2>2, <2>3
<1>2. ASSUME NEW r \in Run, Submit(r) PROVE ExecutorFits'
  <2>1. PICK u \in Unit(r) : StartThread(r, u) \/ Enqueue(r, u) \/ Reject(r, u)
    BY <1>2, NextUnit
  <2>2. CASE StartThread(r, u)
    <3>1. busy' = busy \cup {<<r, u>>} /\ threads' = threads + 1 /\ UNCHANGED queue
      BY <2>2 DEF StartThread
    <3>2. Cardinality(busy) \in Nat
      BY FS_CardinalityType DEF ExecutorFits
    <3>3. Cardinality(busy) + 1 <= threads'
      BY <1>0, <3>1, <3>2 DEF ExecutorFits
    <3>4. queue = << >>
      BY <1>0, <2>2, ConfigAssumption DEF StartThread, ExecutorFits
    <3>5. QED
      BY <1>0, <1>1, <3>1, <3>3, <3>4 DEF ExecutorFits
  <2>3. CASE Enqueue(r, u)
    <3>1. <<r, u>> \in Task
      BY UnitType
    <3>2. Len(Append(queue, <<r, u>>)) = Len(queue) + 1 /\ Len(queue) \in Nat
      BY <1>0, <3>1
    <3>3. QED
      BY <1>0, <2>3, <3>2 DEF Enqueue, ExecutorFits
  <2>4. CASE Reject(r, u)
    BY <1>0, <2>4 DEF Reject, executor, ExecutorFits
  <2>5. QED
    BY <2>1, <2>2, <2>3, <2>4
<1>3. ASSUME Take PROVE ExecutorFits'
  <2>1. /\ Cardinality(busy) < threads /\ queue # << >> /\ UNCHANGED threads
        /\ busy' = busy \cup {Head(queue)} /\ queue' = Tail(queue)
    BY <1>3 DEF Take
  <2>2. Len(Tail(queue)) = Len(queue) - 1 /\ Len(queue) \in Nat
    BY <1>0, <2>1
  <2>3. Cardinality(busy) \in Nat
    BY FS_CardinalityType DEF ExecutorFits
  <2>4. Cardinality(busy) + 1 <= threads'
    BY <1>0, <2>1, <2>3
  <2>5. IsFiniteSet(busy') /\ Cardinality(busy') <= threads'
    BY <1>1, <2>1, <2>4
  <2>6. Len(queue') <= capacity' /\ threads' = PoolSize
    BY <1>0, <2>1, <2>2 DEF ExecutorFits
  <2>7. QED
    BY <2>5, <2>6 DEF ExecutorFits
<1>4. ASSUME NEW r \in Run, NEW u \in Unit(r), Finish(r, u) PROVE ExecutorFits'
  <2>1. busy' \subseteq busy /\ UNCHANGED <<queue, threads>>
    BY <1>4 DEF Finish
  <2>2. IsFiniteSet(busy') /\ Cardinality(busy') <= Cardinality(busy)
        /\ Cardinality(busy') \in Nat /\ Cardinality(busy) \in Nat
    BY <2>1, FS_Subset, FS_CardinalityType DEF ExecutorFits
  <2>3. QED
    BY <1>0, <2>1, <2>2 DEF ExecutorFits
<1>5. ASSUME Crash PROVE ExecutorFits'
  <2>1. busy' = {} /\ queue' = << >> /\ threads' = 0
    BY <1>5 DEF Crash
  <2>2. QED
    BY <1>0, <2>1, FS_EmptySet DEF ExecutorFits
<1>6. CASE UNCHANGED executor
  BY <1>0, <1>6 DEF executor, ExecutorFits
<1>7. QED
  BY <1>2, <1>3, <1>4, <1>5, <1>6
     DEF Next, Start, StartData, StartInfos, Call, Join, BeginSave, SaveOne, SaveFails,
         ConnectionTimeout, Leave, Record, Over, vars

(* What waits in the executor for one run are units of its batch.          *)
LEMMA AtMostABatch ==
    ASSUME IInv, NEW r \in Run
    PROVE  Cardinality(SubmittedAtOnce(r)) <= FetchBatchSize
<1>1. TypeOK /\ PendingInExecutor
  BY DEF IInv
<1> DEFINE f == [t \in SubmittedAtOnce(r) |-> t[2] - from[r]]
<1>2. ASSUME NEW t \in SubmittedAtOnce(r)
      PROVE  t = <<r, t[2]>> /\ t[2] \in Batch(r)
  <2>1. t \in Task /\ t[1] = r
    BY <1>1 DEF SubmittedAtOnce, TypeOK, Queued
  <2>2. t = <<r, t[2]>> /\ t[2] \in Unit(r)
    BY <2>1 DEF Task
  <2>3. QED
    BY <1>1, <2>2 DEF PendingInExecutor, SubmittedAtOnce
<1>3. f \in [SubmittedAtOnce(r) -> 1..FetchBatchSize]
  BY <1>1, <1>2, InBatch
<1>4. \A s, t \in SubmittedAtOnce(r) : f[s] = f[t] => s = t
  <2> SUFFICES ASSUME NEW s \in SubmittedAtOnce(r), NEW t \in SubmittedAtOnce(r), f[s] = f[t]
               PROVE  s = t
    OBVIOUS
  <2>1. s[2] \in Nat /\ t[2] \in Nat /\ from[r] \in Nat
    BY <1>1, <1>2, UnitType DEF Batch
  <2>2. s[2] = t[2]
    BY <2>1
  <2>3. QED
    BY <1>2, <2>2
<1>5. f \in Injection(SubmittedAtOnce(r), 1..FetchBatchSize)
  BY <1>3, <1>4 DEF Injection, IsInjective
<1>6. IsFiniteSet(1..FetchBatchSize) /\ Cardinality(1..FetchBatchSize) = FetchBatchSize
  BY BatchSize, FS_Interval
<1>7. QED
  BY <1>5, <1>6, FS_Injection

(* The executor never holds more than a batch of a run, nor more than its  *)
(* threads and its queue.                                                  *)
THEOREM Bounded == Spec => []ExecutorBounded
<1>1. Init => ExecutorFits
  <2>1. ASSUME Init PROVE Len(queue) <= capacity
    <3>1. PICK d \in Deployments : capacity = d.queue
      BY <2>1 DEF Init
    <3>2. capacity \in Nat
      BY <3>1, ConfigAssumption
    <3>3. QED
      BY <2>1, <3>2 DEF Init
  <2>2. QED
    BY <2>1, FS_EmptySet DEF Init, ExecutorFits
<1>2. IInv /\ ExecutorFits => ExecutorBounded
  BY AtMostABatch DEF ExecutorFits, ExecutorBounded
<1>3. IInv => TypeOK
  BY DEF IInv
<1>4. QED
  BY <1>1, <1>2, <1>3, ExecutorFitsKept, Invariant, PTL DEF Spec

(* A run that waits in join() waits for a worker that is at work or free.   *)
THEOREM WorkersWork == Spec => []NoneWaitsInVain
<1>1. IInv /\ ExecutorBounded => NoneWaitsInVain
  <2>1. SUFFICES ASSUME IInv, ExecutorBounded, busy = {},
                        NEW r \in Run, NEW u \in Batch(r), Waits(r, u)
                 PROVE  queue # << >> /\ Cardinality(busy) < threads
    BY DEF NoneWaitsInVain, Waiting, Waits
  <2>2. <<r, u>> \in Queued
    BY <2>1 DEF IInv, PendingInExecutor, Waits, Batch
  <2>3. queue # << >>
    BY <2>2 DEF Queued
  <2>4. threads = PoolSize /\ PoolSize > 0 /\ Cardinality(busy) = 0
    BY <2>1, <2>3, ConfigAssumption, FS_EmptySet DEF ExecutorBounded
  <2>5. QED
    BY <2>3, <2>4
<1>2. QED
  BY <1>1, Invariant, Bounded, PTL

-----------------------------------------------------------------------------
(* Room for a batch of every run is room for all that is ever submitted.   *)

LEMMA Distinct ==
    ASSUME NEW S, NEW q \in Seq(S), \A i, j \in DOMAIN q : q[i] = q[j] => i = j
    PROVE  LET T == {q[i] : i \in DOMAIN q} IN IsFiniteSet(T) /\ Cardinality(T) = Len(q)
<1> DEFINE T == {q[i] : i \in DOMAIN q}
<1>1. Len(q) \in Nat /\ DOMAIN q = 1..Len(q)
  OBVIOUS
<1>2. IsFiniteSet(1..Len(q)) /\ Cardinality(1..Len(q)) = Len(q)
  BY <1>1, FS_Interval
<1> DEFINE f == [i \in 1..Len(q) |-> q[i]]
<1>3. f \in [1..Len(q) -> T] /\ \A t \in T : \E i \in 1..Len(q) : f[i] = t
  BY <1>1
<1>4. \A i, j \in 1..Len(q) : f[i] = f[j] => i = j
  BY <1>1
<1> HIDE DEF f
<1>5. f \in Bijection(1..Len(q), T)
  BY <1>3, <1>4, Fun_IsBij
<1>6. ExistsBijection(1..Len(q), T)
  BY <1>5 DEF ExistsBijection
<1> HIDE DEF T
<1>7. IsFiniteSet(T) /\ Cardinality(T) = Len(q)
  BY <1>2, <1>6, FS_Bijection
<1>8. QED
  BY <1>7 DEF T

LEMMA RoomForOneMore ==
    ASSUME IInv, NEW r \in Run, NEW u \in Batch(r), outcome[r][u] = "none"
    PROVE  Len(queue) < Cardinality(Run) * FetchBatchSize
<1>1. TypeOK /\ PendingInExecutor /\ queue \in Seq(Task)
  BY DEF IInv, TypeOK
<1>2. IsFiniteSet(Queued) /\ Cardinality(Queued) = Len(queue)
  <2>1. \A i, j \in DOMAIN queue : queue[i] = queue[j] => i = j
    BY <1>1 DEF PendingInExecutor
  <2>2. QED
    BY <1>1, <2>1, Distinct DEF Queued
<1>3. <<r, u>> \notin Queued
  BY <1>1, InBatch DEF PendingInExecutor
<1> DEFINE all   == Queued \cup {<<r, u>>}
           slots == Run \X (1..FetchBatchSize)
           f     == [t \in all |-> <<t[1], t[2] - from[t[1]]>>]
<1>4. IsFiniteSet(all) /\ Cardinality(all) = Len(queue) + 1
  BY <1>2, <1>3, FS_AddElement
<1>5. ASSUME NEW t \in all
      PROVE  t[1] \in Run /\ t[2] \in Batch(t[1]) /\ t = <<t[1], t[2]>>
  <2>1. CASE t = <<r, u>>
    BY <2>1
  <2>2. CASE t \in Queued
    <3>1. t \in Task
      BY <1>1, <2>2 DEF TypeOK, Queued
    <3>2. t[1] \in Run /\ t[2] \in Unit(t[1]) /\ t = <<t[1], t[2]>>
      BY <3>1 DEF Task
    <3>3. QED
      BY <1>1, <2>2, <3>2 DEF PendingInExecutor
  <2>3. QED
    BY <2>1, <2>2
<1>6. f \in [all -> slots]
  <2>1. ASSUME NEW t \in all PROVE <<t[1], t[2] - from[t[1]]>> \in slots
    BY <1>1, <1>5, InBatch
  <2>2. QED
    BY <2>1
<1>7. \A s, t \in all : f[s] = f[t] => s = t
  <2> SUFFICES ASSUME NEW s \in all, NEW t \in all, f[s] = f[t] PROVE s = t
    OBVIOUS
  <2>1. s[1] = t[1] /\ s[2] - from[s[1]] = t[2] - from[t[1]]
    OBVIOUS
  <2>2. s[2] \in Nat /\ t[2] \in Nat /\ from[s[1]] \in Nat
    BY <1>1, <1>5, InBatch, UnitType
  <2>3. s[2] = t[2]
    BY <2>1, <2>2
  <2>4. QED
    BY <1>5, <2>1, <2>3
<1> HIDE DEF f
<1>8. f \in Injection(all, slots)
  BY <1>6, <1>7, Fun_IsInj
<1>9. IsFiniteSet(1..FetchBatchSize) /\ Cardinality(1..FetchBatchSize) = FetchBatchSize
  BY BatchSize, FS_Interval
<1>10. IsFiniteSet(slots) /\ Cardinality(slots) = Cardinality(Run) * FetchBatchSize
  BY <1>9, RunAssumption, FS_Product
<1> HIDE DEF all, slots
<1>11. Cardinality(all) <= Cardinality(slots)
  BY <1>8, <1>10, FS_Injection
<1>12. Len(queue) \in Nat /\ Cardinality(slots) \in Nat
  BY <1>1, <1>10, FS_CardinalityType
<1>13. QED
  BY <1>4, <1>10, <1>11, <1>12

(* A queue with room for a batch of every run never makes the executor     *)
(* reject one of their units.                                              *)
THEOREM NeverRejected == Spec => []NoRejection
<1>1. Init => NoRejection
  BY DEF Init, NoRejection
<1>2. ASSUME IInv, NoRejection, [Next]_vars
      PROVE  NoRejection'
  <2>1. TypeOK /\ TypeOK'
    BY <1>2, TypesKept DEF IInv
  <2>2. UNCHANGED <<capacity, units>> /\ FetchBatchSize' = FetchBatchSize
    BY <1>2 DEF Next, Start, StartData, StartInfos, Call, Submit, Join, BeginSave, SaveOne, SaveFails,
                ConnectionTimeout, Leave, Record, Take, Finish, Crash, Over, vars, given, FetchBatchSize
  <2> SUFFICES ASSUME Cardinality(Run) * FetchBatchSize <= capacity,
                      NEW q \in Run, NEW v \in Unit(q), outcome[q][v] # "rejected"
               PROVE  outcome'[q][v] # "rejected"
    BY <1>2, <2>2, SameUnits DEF NoRejection
  <2>3. ASSUME NEW r \in Run, NEW u \in Unit(r), NEW o \in {"none", "pending", "items", "empty", "failed"},
               SetOutcome(r, u, o)
        PROVE  outcome'[q][v] # "rejected"
    BY <2>1, <2>2, <2>3, OutcomeType DEF Decided
  <2>4. ASSUME NEW r \in Run, Submit(r) PROVE outcome'[q][v] # "rejected"
    <3>1. PICK u \in Unit(r) : /\ u \in Batch(r) /\ outcome[r][u] = "none"
                               /\ StartThread(r, u) \/ Enqueue(r, u) \/ Reject(r, u)
      BY <2>1, <2>4, NextUnit
    <3>2. ~Reject(r, u)
      <4>1. Len(queue) < Cardinality(Run) * FetchBatchSize
        BY <1>2, <3>1, RoomForOneMore
      <4>2. Len(queue) \in Nat
        BY <2>1 DEF TypeOK
      <4>3. [queue |-> capacity, connections |-> connections] \in Deployments
        BY <2>1 DEF TypeOK
      <4>4. capacity \in Nat /\ Cardinality(Run) \in Nat /\ FetchBatchSize \in Nat
        BY <4>3, ConfigAssumption, RunAssumption, FS_CardinalityType, BatchSize
      <4> DEFINE room == Cardinality(Run) * FetchBatchSize
      <4>5. room \in Nat /\ room <= capacity /\ Len(queue) < room
        BY <4>1, <4>4
      <4> HIDE DEF room
      <4>6. QED
        BY <4>2, <4>4, <4>5 DEF Reject
    <3>3. SetOutcome(r, u, "pending")
      BY <3>1, <3>2 DEF StartThread, Enqueue
    <3>4. QED
      BY <2>3, <3>3
  <2>5. ASSUME NEW r \in Run, StartInfos(r) PROVE outcome'[q][v] # "rejected"
    <3>1. 0 \in Unit(r)
      BY <2>5 DEF StartInfos, Unit, Page
    <3>2. PICK o \in {"items", "empty", "failed"} : SetOutcome(r, 0, o)
      BY <2>5 DEF StartInfos
    <3>3. QED
      BY <2>3, <3>1, <3>2
  <2>6. ASSUME NEW r \in Run, NEW u \in Unit(r), Finish(r, u) PROVE outcome'[q][v] # "rejected"
    <3>1. PICK o \in FetchEnds : SetOutcome(r, u, o)
      BY <2>6 DEF Finish
    <3>2. o \in {"none", "pending", "items", "empty", "failed"}
      BY ConfigAssumption
    <3>3. QED
      BY <2>3, <3>1, <3>2
  <2>7. CASE UNCHANGED outcome
    BY <2>7
  <2>8. QED
    BY <1>2, <2>4, <2>5, <2>6, <2>7
       DEF Next, Start, StartData, Call, Join, BeginSave, SaveOne, SaveFails, ConnectionTimeout, Leave,
           Record, Take, Crash, Over, vars
<1>3. QED
  BY <1>1, <1>2, Invariant, PTL DEF Spec

-----------------------------------------------------------------------------
(* SyncManager implements SyncLog.                                         *)
StatusOf(p) == IF p \in Active THEN "running" ELSE IF p = "starved" THEN "failed" ELSE p

LEMMA StatusIs ==
    /\ Status = [r \in Run |-> StatusOf(pc[r])]
    /\ Status' = [r \in Run |-> StatusOf(pc'[r])]
BY DEF Status, StatusOf

LEMMA StatusChange ==
    ASSUME TypeOK, NEW r \in Run, NEW p, pc' = [pc EXCEPT ![r] = p]
    PROVE  Status' = [Status EXCEPT ![r] = StatusOf(p)]
<1>1. pc \in [Run -> {"idle"} \cup Active \cup Ended]
  BY DEF TypeOK
<1>2. \A q \in Run : pc'[q] = IF q = r THEN p ELSE pc[q]
  BY <1>1
<1>3. QED
  BY <1>2, StatusIs

LEMMA StatusKept ==
    ASSUME TypeOK, NEW r \in Run, NEW p, pc' = [pc EXCEPT ![r] = p], StatusOf(p) = StatusOf(pc[r])
    PROVE  UNCHANGED Status
<1>1. pc \in [Run -> {"idle"} \cup Active \cup Ended]
  BY DEF TypeOK
<1>2. \A q \in Run : StatusOf(pc'[q]) = StatusOf(pc[q])
  BY <1>1
<1>3. QED
  BY <1>2, StatusIs

LEMMA BeginStep ==
    ASSUME TypeOK, NEW r \in Run, Start(r)
    PROVE  Log!Begin(r)
<1>1. PICK p \in {"fetching", "saving", "returned", "failed"} : pc' = [pc EXCEPT ![r] = p]
  BY DEF Start, StartData, StartInfos, SaveAllPages
<1>2. pc[r] = "idle" /\ UNCHANGED <<saved, recorded>>
  BY DEF Start, StartData, StartInfos
<1>3. StatusOf("idle") = "idle" /\ StatusOf(p) \in {"running", "returned", "failed"}
  BY DEF StatusOf, Active
<1>4. Status[r] = "idle"
  BY <1>2, <1>3, StatusIs
<1>5. Status' = [Status EXCEPT ![r] = StatusOf(p)]
  BY <1>1, StatusChange
<1>6. QED
  BY <1>2, <1>3, <1>4, <1>5 DEF Log!Begin

LEMMA JoinStep ==
    ASSUME IInv, NEW r \in Run, Join(r)
    PROVE  Log!Return(r) \/ UNCHANGED <<Status, saved, recorded>>
<1>1. TypeOK /\ Kept(r) /\ pc[r] = "fetching" /\ UNCHANGED <<saved, recorded>>
  BY DEF IInv, Join
<1>2. CASE UNCHANGED pc
  BY <1>1, <1>2 DEF Status
<1>3. CASE pc' = [pc EXCEPT ![r] = "saving"]
  <2>1. StatusOf("saving") = StatusOf(pc[r])
    BY <1>1 DEF StatusOf, Active
  <2>2. QED
    BY <1>1, <1>3, <2>1, StatusKept
<1>4. CASE pc' = [pc EXCEPT ![r] = "returned"]
  <2>1. StatusOf("fetching") = "running" /\ StatusOf("returned") = "returned"
    BY DEF StatusOf, Active
  <2>2. Status' = [Status EXCEPT ![r] = "returned"]
    BY <1>1, <1>4, <2>1, StatusChange
  <2>3. Status[r] = "running"
    BY <1>1, <2>1, StatusIs
  <2>4. recorded[r] = saved[r]
    BY <1>1 DEF Kept, SavedBeyond
  <2>5. QED
    BY <1>1, <2>2, <2>3, <2>4 DEF Log!Return
<1>5. QED
  BY <1>2, <1>3, <1>4 DEF Join, SaveAllPages

LEMMA CommitStep ==
    ASSUME IInv, NEW r \in Run, SaveOne(r)
    PROVE  Log!Commit(r)
<1>1. TypeOK /\ r \in open /\ UNCHANGED <<pc, recorded>>
  BY DEF IInv, SaveOne
<1>2. PICK u \in saving[r] : saved' = [saved EXCEPT ![r] = @ \cup {u}]
  BY DEF SaveOne
<1>3. u \in AnyUnit
  BY <1>1, UnitType DEF TypeOK
<1>4. UNCHANGED Status
  BY <1>1 DEF Status
<1>5. Status[r] = "running"
  BY <1>1, StatusIs DEF TypeOK, StatusOf, Active
<1>6. QED
  BY <1>1, <1>2, <1>3, <1>4, <1>5 DEF Log!Commit

LEMMA CatchUpStep ==
    ASSUME IInv, NEW r \in Run, Record(r)
    PROVE  Log!CatchUp(r)
<1>1. /\ TypeOK /\ Kept(r) /\ Kind[r] \in {"data", "infos"}
      /\ r \in open /\ pc[r] = "saving" /\ saving[r] = {} /\ UNCHANGED saved
  BY KindOf DEF IInv, Record, TypeOK
<1>2. saved[r] = recorded[r] \cup Fetched(r, Current(r))
  BY <1>1 DEF Kept, SavedBeyond
<1>3. recorded' = [recorded EXCEPT ![r] = saved[r]]
  <2>1. CASE Kind[r] = "data"
    BY <1>1, <1>2, <2>1 DEF Record, Current
  <2>2. CASE Kind[r] = "infos"
    <3>1. recorded[r] = {}
      BY <1>1, <2>2 DEF Kept, HistoryBehind
    <3>2. QED
      BY <1>1, <1>2, <2>2, <3>1 DEF Record, Current
  <2>3. QED
    BY <1>1, <2>1, <2>2
<1>4. StatusOf("saving") = "running" /\ StatusOf("fetching") = "running" /\ StatusOf("returned") = "returned"
  BY DEF StatusOf, Active
<1>5. Status[r] = "running"
  BY <1>1, <1>4, StatusIs
<1>6. PICK p \in {"fetching", "returned"} : pc' = [pc EXCEPT ![r] = p]
  BY DEF Record
<1>7. Status' = Status \/ Status' = [Status EXCEPT ![r] = "returned"]
  <2>1. CASE p = "fetching"
    <3>1. StatusOf(p) = StatusOf(pc[r])
      BY <1>1, <1>4, <2>1
    <3>2. QED
      BY <1>1, <1>6, <3>1, StatusKept
  <2>2. CASE p = "returned"
    <3>1. Status' = [Status EXCEPT ![r] = StatusOf(p)]
      BY <1>1, <1>6, StatusChange
    <3>2. QED
      BY <1>4, <2>2, <3>1
  <2>3. QED
    BY <2>1, <2>2
<1>8. QED
  BY <1>1, <1>3, <1>5, <1>7 DEF Log!CatchUp

LEMMA FailStep ==
    ASSUME IInv, Crash \/ \E r \in Run : SaveFails(r) \/ ConnectionTimeout(r)
    PROVE  \E S \in SUBSET Run : Log!Fail(S)
<1>0. UNCHANGED <<saved, recorded>>
  BY DEF Crash, SaveFails, ConnectionTimeout, Leave
<1>1. ASSUME NEW S \in SUBSET Run,
             \A r \in S : pc[r] \in Active,
             \A r \in S : pc'[r] \in {"failed", "starved"},
             \A r \in Run \ S : pc'[r] = pc[r]
      PROVE  Log!Fail(S)
  <2>1. \A r \in S : Status[r] = "running"
    BY <1>1, StatusIs DEF StatusOf
  <2>2. \A r \in Run : StatusOf(pc'[r]) = IF r \in S THEN "failed" ELSE StatusOf(pc[r])
    BY <1>1 DEF StatusOf, Active
  <2>3. Status' = [r \in Run |-> IF r \in S THEN "failed" ELSE Status[r]]
    BY <2>2, StatusIs
  <2>4. QED
    BY <1>0, <2>1, <2>3 DEF Log!Fail
<1>2. pc \in [Run -> {"idle"} \cup Active \cup Ended]
  BY DEF IInv, TypeOK
<1>3. CASE Crash
  <2>1. \A r \in Run : pc'[r] = IF pc[r] \in Active THEN "failed" ELSE pc[r]
    BY <1>3 DEF Crash
  <2>2. Log!Fail({r \in Run : pc[r] \in Active})
    BY <1>1, <2>1
  <2>3. QED
    BY <2>2
<1>4. CASE \E r \in Run : SaveFails(r) \/ ConnectionTimeout(r)
  <2>1. PICK r \in Run : SaveFails(r) \/ ConnectionTimeout(r)
    BY <1>4
  <2>2. pc[r] = "saving" /\ \E how \in {"failed", "starved"} : pc' = [pc EXCEPT ![r] = how]
    BY <2>1 DEF SaveFails, ConnectionTimeout, Leave, IInv, TypeOK
  <2>3. pc[r] \in Active /\ pc'[r] \in {"failed", "starved"} /\ \A q \in Run \ {r} : pc'[q] = pc[q]
    BY <1>2, <2>2 DEF Active
  <2>4. Log!Fail({r})
    BY <1>1, <2>3
  <2>5. QED
    BY <2>4
<1>5. QED
  BY <1>3, <1>4

(* Every call keeps the promise of SyncLog, whatever the batches, the      *)
(* executor, the connections and a crash do.                               *)
THEOREM Implements == Spec => Promise
<1>1. Init => Log!Init
  <2>1. StatusOf("idle") = "idle"
    BY DEF StatusOf, Active
  <2>2. QED
    BY <2>1, StatusIs DEF Init, Log!Init
<1>2. ASSUME IInv, [Next]_vars PROVE [Log!Next]_(Log!vars)
  <2>1. TypeOK
    BY <1>2 DEF IInv
  <2>2. ASSUME NEW r \in Run, Start(r) \/ Join(r) \/ SaveOne(r) \/ Record(r)
        PROVE  [Log!Next]_(Log!vars)
    BY <1>2, <2>1, <2>2, BeginStep, JoinStep, CommitStep, CatchUpStep DEF Log!Next, Log!vars
  <2>3. CASE Crash \/ \E r \in Run : SaveFails(r) \/ ConnectionTimeout(r)
    BY <1>2, <2>3, FailStep DEF Log!Next
  <2>4. CASE UNCHANGED <<pc, saved, recorded>>
    BY <2>4 DEF Status, Log!vars
  <2>5. QED
    BY <1>2, <2>2, <2>3, <2>4 DEF Next, Call, Submit, BeginSave, Take, Finish, Over, vars
<1>3. QED
  BY <1>1, <1>2, Invariant, PTL DEF Spec, Promise, Log!Spec

=============================================================================
