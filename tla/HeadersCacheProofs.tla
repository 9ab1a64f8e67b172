------------------------- MODULE HeadersCacheProofs -------------------------
(***************************************************************************)
(* Theorems about HeadersCache, for every set of callers, chains and       *)
(* hashes and every bound: the types, and that a Get which nobody has      *)
(* failed is refused only for a header that another Get has cached.        *)
(***************************************************************************)
EXTENDS HeadersCache, TLAPS

\* The driver is chosen when the database is opened, and the columns of the
\* table and the locals of every Get keep their types (storjscandb/headers.go).
THEOREM TypeCorrect == Spec => []TypeOK
<1>1. Init => TypeOK
  BY HeadersAssumption DEF Init, TypeOK, Blocks
<1>2. TypeOK /\ [Next]_vars => TypeOK'
  <2> SUFFICES ASSUME TypeOK, [Next]_vars PROVE TypeOK'
    OBVIOUS
  <2> USE HeadersAssumption DEF TypeOK, table, GoTo
  <2>1. ASSUME NEW r \in Requests, Begin(r) PROVE TypeOK'
    BY <2>1 DEF Begin
  <2>2. ASSUME NEW r \in Requests, Lookup(r) PROVE TypeOK'
    BY <2>2 DEF Lookup
  <2>3. ASSUME NEW r \in Requests, HeaderByHash(r) PROVE TypeOK'
    BY <2>3 DEF HeaderByHash
  <2>4. ASSUME NEW r \in Requests, Insert(r) PROVE TypeOK'
    <3>1. block[r] \in Blocks
      OBVIOUS
    <3> QED
      BY <2>4, <3>1 DEF Insert
  <2>5. ASSUME NEW r \in Requests, Fail(r) PROVE TypeOK'
    <3>1. block[r] \in Blocks
      OBVIOUS
    <3>2. rows' \subseteq Blocks /\ faults' \in 0 .. MaxFaults
      BY <2>5, <3>1 DEF Fail, Fault
    <3> QED
      BY <2>5, <3>2 DEF Fail
  <2>6. ASSUME NEW r \in Requests, Scan(r) PROVE TypeOK'
    <3>1. faults' \in 0 .. MaxFaults
      BY <2>6 DEF Scan, Fault
    <3>2. faulted' \in [Requests -> BOOLEAN]
      BY <2>6 DEF Scan
    <3> QED
      BY <2>6, <3>1, <3>2 DEF Scan
  <2>7. ASSUME NEW b \in Blocks, Delete(b) PROVE TypeOK'
    BY <2>7 DEF Delete
  <2>8. ASSUME NEW time \in 0 .. MaxTime, DeleteBefore(time) PROVE TypeOK'
    BY <2>8 DEF DeleteBefore
  <2>9. CASE UNCHANGED vars
    BY <2>9 DEF vars
  <2> QED
    BY <2>1, <2>2, <2>3, <2>4, <2>5, <2>6, <2>7, <2>8, <2>9 DEF Next, Step, Terminated
<1> QED
  BY <1>1, <1>2, PTL DEF Spec

-----------------------------------------------------------------------------
\* A Get that fails though neither the node nor the database has failed it was
\* refused by the row of another Get, whatever the driver runs again and
\* whatever is deleted and removed since (blockchain/headers.go, Get).
THEOREM RefusedHadLostARace == Spec => []RefusedWasCached
<1>1. Init => RefusedWasCached
  BY DEF Init, RefusedWasCached
<1>2. TypeOK /\ RefusedWasCached /\ [Next]_vars => RefusedWasCached'
  <2> SUFFICES ASSUME TypeOK, RefusedWasCached, [Next]_vars,
                      NEW q \in Requests, pc'[q] = "failed", ~faulted'[q]
               PROVE  \/ block'[q] \in rows' \cup deleted'
                      \/ timestampOf[block'[q]] < before'
    BY DEF RefusedWasCached
  <2> USE DEF table, GoTo
  <2>0. /\ block[q] \in Blocks
        /\ timestampOf[block[q]] \in Nat
        /\ before \in Nat
    BY HeadersAssumption DEF TypeOK
  \* What was so before the step, if the step does not disturb q.
  <2>1. ASSUME pc[q] = "failed", ~faulted[q]
        PROVE  block[q] \in rows \cup deleted \/ timestampOf[block[q]] < before
    BY <2>1 DEF RefusedWasCached
  <2>2. ASSUME NEW r \in Requests, Begin(r) \/ Lookup(r) \/ HeaderByHash(r)
        PROVE  block'[q] \in rows' \cup deleted' \/ timestampOf[block'[q]] < before'
    BY <2>1, <2>2 DEF TypeOK, Begin, Lookup, HeaderByHash
  <2>3. ASSUME NEW r \in Requests, Insert(r)
        PROVE  block'[q] \in rows' \cup deleted' \/ timestampOf[block'[q]] < before'
    BY <2>1, <2>3 DEF TypeOK, Insert
  \* A fault of the Get itself excuses it; those of others add a row at most.
  <2>4. ASSUME NEW r \in Requests, Fail(r)
        PROVE  block'[q] \in rows' \cup deleted' \/ timestampOf[block'[q]] < before'
    BY <2>1, <2>4 DEF TypeOK, Fail
  \* Only PostgreSQL's rollback ends a Get, and it counts as a fault.
  <2>5. ASSUME NEW r \in Requests, Scan(r)
        PROVE  block'[q] \in rows' \cup deleted' \/ timestampOf[block'[q]] < before'
    <3>1. ~ShouldRetry => dialect = "pgx"
      BY DEF ShouldRetry, TypeOK, Dialects
    <3> QED
      BY <2>1, <2>5, <3>1 DEF TypeOK, Scan
  <2>6. ASSUME NEW b \in Blocks, Delete(b)
        PROVE  block'[q] \in rows' \cup deleted' \/ timestampOf[block'[q]] < before'
    BY <2>1, <2>6 DEF Delete
  <2>7. ASSUME NEW time \in 0 .. MaxTime, DeleteBefore(time)
        PROVE  block'[q] \in rows' \cup deleted' \/ timestampOf[block'[q]] < before'
    BY <2>0, <2>1, <2>7, HeadersAssumption DEF DeleteBefore
  <2>8. CASE UNCHANGED vars
    BY <2>1, <2>8 DEF vars
  <2> QED
    BY <2>2, <2>3, <2>4, <2>5, <2>6, <2>7, <2>8 DEF Next, Step, Terminated
<1> QED
  BY <1>1, <1>2, TypeCorrect, PTL DEF Spec

=============================================================================
