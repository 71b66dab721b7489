----------------------------- MODULE AtomicStore -----------------------------
(***************************************************************************)
(* What the tables of Findex look like to whoever reads them: each change  *)
(* is one operation on whole rows, done at once.  No thread, transaction,  *)
(* lock or stale copy is left in it; IndexStore, which has them all,       *)
(* implements it (IndexStore!EachCommitIsWhole).                           *)
(***************************************************************************)
EXTENDS Naturals

CONSTANTS InfoId, DataId, Name, Date, NoDate, NoRow, NoInfo

VARIABLES
    info, config, data, job,    \* the tables, as in IndexStore
    spentInfo, spentData,       \* ids handed out, never to be handed out again
    open,                       \* executions whose run is under way
    noted                       \* history entries their runs have yet to record

tables == <<info, config, data, job, spentInfo, spentData, open, noted>>

Source == {"USER", "OPEN_API"}
Live(table) == {i \in DOMAIN table : table[i] # NoRow}
RowsAt(i, d) == {r \in Live(data) : data[r].info = i /\ data[r].date = d}

Init ==
    /\ info = [i \in InfoId |-> NoRow] /\ config = [i \in InfoId |-> NoRow]
    /\ data = [r \in DataId |-> NoRow]
    /\ job = {} /\ spentInfo = {} /\ spentData = {}
    /\ open = {} /\ noted = {}

(* A new info has a name of its own, and a config that is off.             *)
Register(n, source) ==
    /\ \A i \in Live(info) : info[i].name # n
    /\ \E i \in InfoId \ spentInfo :
          /\ info' = [info EXCEPT ![i] = [name |-> n, source |-> source, figures |-> source]]
          /\ config' = [config EXCEPT ![i] = "OFF"]
          /\ spentInfo' = spentInfo \cup {i}
    /\ UNCHANGED <<data, job, spentData, open, noted>>

(* Of an info only the figures change, those of a user by users only.      *)
Revise(i, figures) ==
    /\ i \in Live(info)
    /\ info[i].source = "USER" => figures = "USER"
    /\ info' = [info EXCEPT ![i].figures = figures]
    /\ UNCHANGED <<config, data, job, spentInfo, spentData, open, noted>>

Switch(i, enabled) ==
    /\ i \in Live(config)
    /\ config' = [config EXCEPT ![i] = enabled]
    /\ UNCHANGED <<info, data, job, spentInfo, spentData, open, noted>>

(* An info goes with its config and all of its data; its history stays,    *)
(* and what a run has noted of it is recorded first.                       *)
Deregister(i) ==
    /\ i \in Live(info)
    /\ \A j \in noted : j.info # i
    /\ info' = [info EXCEPT ![i] = NoRow]
    /\ config' = [config EXCEPT ![i] = NoRow]
    /\ data' = [r \in DataId |-> IF r \in Live(data) /\ data[r].info = i THEN NoRow ELSE data[r]]
    /\ job' = {IF j.info = i THEN [j EXCEPT !.info = NoInfo] ELSE j : j \in job}
    /\ UNCHANGED <<spentInfo, spentData, open, noted>>

Store(i, d, type) ==
    /\ i \in Live(info) /\ RowsAt(i, d) = {}
    /\ \E r \in DataId \ spentData :
          /\ data' = [data EXCEPT ![r] = [info |-> i, date |-> d, type |-> type]]
          /\ spentData' = spentData \cup {r}
    /\ UNCHANGED <<info, config, job, spentInfo, open, noted>>

Overwrite(r, type) ==
    /\ r \in Live(data)
    /\ data' = [data EXCEPT ![r].type = type]
    /\ UNCHANGED <<info, config, job, spentInfo, spentData, open, noted>>

Drop(r) ==
    /\ r \in Live(data)
    /\ data' = [data EXCEPT ![r] = NoRow]
    /\ UNCHANGED <<info, config, job, spentInfo, spentData, open, noted>>

(* The history of an execution is written while its run is under way.  An  *)
(* entry tells what the tables hold when it is noted, not when it is       *)
(* recorded: the row of a SUCCESS may be gone by then.                     *)
Tells(j) ==
    IF j.date = NoDate
      THEN IF j.result = "SUCCESS" THEN j.info \in Live(info) /\ info[j.info].name = j.name
                                   ELSE j.info = NoInfo
      ELSE /\ j.info \in Live(info)
           /\ j.result = "SUCCESS" <=> RowsAt(j.info, j.date) # {}

Start(e) ==
    /\ e \notin open /\ \A j \in job : j.exec # e
    /\ open' = open \cup {e}
    /\ UNCHANGED <<info, config, data, job, spentInfo, spentData, noted>>

Note(j) ==
    /\ j.exec \in open
    /\ Tells(j)
    /\ noted' = noted \cup {j}
    /\ UNCHANGED <<info, config, data, job, spentInfo, spentData, open>>

(* All that was noted for an execution is recorded together, or dropped.   *)
Record(e) ==
    LET new == {j \in noted : j.exec = e} IN
    /\ e \in open
    /\ \A j \in new : j.info \in Live(info) \cup {NoInfo}
    /\ job' = job \cup new
    /\ noted' = noted \ new
    /\ open' = open \/ open' = open \ {e}
    /\ UNCHANGED <<info, config, data, spentInfo, spentData>>

Finish(e) ==
    /\ e \in open
    /\ open' = open \ {e}
    /\ noted' = {j \in noted : j.exec # e}
    /\ UNCHANGED <<info, config, data, job, spentInfo, spentData>>

Next ==
    \/ \E n \in Name, s \in Source : Register(n, s)
    \/ \E i \in InfoId, s \in Source : Revise(i, s)
    \/ \E i \in InfoId, e \in {"ON", "OFF"} : Switch(i, e)
    \/ \E i \in InfoId : Deregister(i)
    \/ \E i \in InfoId, d \in Date, s \in Source : Store(i, d, s)
    \/ \E r \in DataId, s \in Source : Overwrite(r, s)
    \/ \E r \in DataId : Drop(r)
    \/ \E e \in open : Record(e) \/ Finish(e)
    \/ \E e \in open' : Start(e)
    \/ \E j \in noted' : Note(j)

Spec == Init /\ [][Next]_tables
=============================================================================
