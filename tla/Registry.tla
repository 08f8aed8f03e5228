------------------------------ MODULE Registry ------------------------------
(***************************************************************************)
(* The SQLite sandbox registry.  The pool holds one connection, so every   *)
(* statement is one atomic step.  Of a row only what decides the life of a *)
(* sandbox is kept: its status, and its age, the minutes since last_active.*)
(***************************************************************************)
EXTENDS ServerProcess, Integers

CONSTANT AgeCap         \* ages saturate here; older rows all look alike

ASSUME RegistryAssumption == AgeCap \in Nat

VARIABLE registry       \* registry[id]: the row of id, or NoRow

NoRow == [status |-> "absent", age |-> 0]

RowType == [status : {"absent", "running", "sleeping"}, age : 0..AgeCap]

RegistryType == registry \in [Ids -> RowType]

HasRow(id) == registry[id].status # "absent"

-----------------------------------------------------------------------------
\* The primary key makes a second Insert of the same id fail.
Insert(id) ==
    /\ ~HasRow(id)
    /\ registry' = [registry EXCEPT ![id] = [status |-> "running", age |-> 0]]

\* UPDATE ... WHERE id = ?: without a row, nothing happens.
SetStatus(id, status) ==
    registry' = IF HasRow(id) THEN [registry EXCEPT ![id].status = status]
                              ELSE registry

\* Wrong on purpose: an upsert.
TouchOrInsert(id) ==
    registry' = IF HasRow(id) THEN [registry EXCEPT ![id].age = 0]
                ELSE [registry EXCEPT ![id] = [status |-> "running", age |-> 0]]

\* Only last_active moves: a sleeping row stays "sleeping".
TouchLastActive(id) ==
    registry' = IF HasRow(id) THEN [registry EXCEPT ![id].age = 0]
                              ELSE registry

Delete(id) == registry' = [registry EXCEPT ![id] = NoRow]

\* Wrong on purpose: last_active <= cutoff.
ListAtLeastAsOld(idle, elapsed, status) ==
    {id \in Ids : registry[id].status = status /\ registry[id].age >= idle + elapsed}

\* last_active < now - idle minutes, where "now" was read `elapsed` ago.
ListOlderThan(idle, elapsed, status) ==
    {id \in Ids : registry[id].status = status /\ registry[id].age > idle + elapsed}

\* A minute passes: every row grows older.
Ages ==
    registry' = [id \in Ids |->
        IF HasRow(id) /\ registry[id].age < AgeCap
        THEN [registry[id] EXCEPT !.age = @ + 1]
        ELSE registry[id]]

=============================================================================
