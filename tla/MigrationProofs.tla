-------------------------- MODULE MigrationProofs --------------------------
(***************************************************************************)
(* Theorems about Migration, for every set of processes, every initial     *)
(* version and every number of attempts and starts.                        *)
(***************************************************************************)
EXTENDS Migration, TLAPS

-----------------------------------------------------------------------------
(* The schema after a number of steps.                                     *)

\* The recursive definition of schemaOf is one: a function of eleven values.
LEMMA SchemaOfDefined ==
    /\ schemaOf[-1] = {}
    /\ \A v \in Versions : schemaOf[v] = After(StepOf(v), schemaOf[v - 1])
<1> DEFINE body(g, v) == IF v = -1 THEN {} ELSE After(StepOf(v), g[v - 1])
<1>1. \E g : g = [v \in -1 .. Latest |-> body(g, v)]
  <2>0. PICK s0 : s0 = After(StepOf(0), {}) OBVIOUS
  <2>1. PICK s1 : s1 = After(StepOf(1), s0) OBVIOUS
  <2>2. PICK s2 : s2 = After(StepOf(2), s1) OBVIOUS
  <2>3. PICK s3 : s3 = After(StepOf(3), s2) OBVIOUS
  <2>4. PICK s4 : s4 = After(StepOf(4), s3) OBVIOUS
  <2>5. PICK s5 : s5 = After(StepOf(5), s4) OBVIOUS
  <2>6. PICK s6 : s6 = After(StepOf(6), s5) OBVIOUS
  <2>7. PICK s7 : s7 = After(StepOf(7), s6) OBVIOUS
  <2>8. PICK s8 : s8 = After(StepOf(8), s7) OBVIOUS
  <2>9. PICK s9 : s9 = After(StepOf(9), s8) OBVIOUS
  <2> DEFINE value(v) == CASE v = -1 -> {} [] v = 0 -> s0 [] v = 1 -> s1 [] v = 2 -> s2
                            [] v = 3 -> s3 [] v = 4 -> s4 [] v = 5 -> s5 [] v = 6 -> s6
                            [] v = 7 -> s7 [] v = 8 -> s8 [] v = 9 -> s9
             g == [v \in -1 .. Latest |-> value(v)]
  <2> HIDE DEF value
  <2>b. g = [v \in -1 .. Latest |-> g[v]]
    OBVIOUS
  <2>a. \A v \in -1 .. Latest : g[v] = body(g, v)
    <3>1. g[-1] = {} /\ g[0] = s0 /\ g[1] = s1 /\ g[2] = s2 /\ g[3] = s3 /\ g[4] = s4
      BY DEF Latest, value
    <3>2. g[5] = s5 /\ g[6] = s6 /\ g[7] = s7 /\ g[8] = s8 /\ g[9] = s9
      BY DEF Latest, value
    <3> HIDE DEF g
    <3>3. \A v \in -1 .. Latest :
            v = -1 \/ v = 0 \/ v = 1 \/ v = 2 \/ v = 3 \/ v = 4 \/ v = 5 \/ v = 6 \/ v = 7
            \/ v = 8 \/ v = 9
      BY DEF Latest
    <3>4. TAKE v \in -1 .. Latest
    <3> QED
      BY <2>0, <2>1, <2>2, <2>3, <2>4, <2>5, <2>6, <2>7, <2>8, <2>9, <3>1, <3>2, <3>3
  <2> HIDE DEF g
  <2>c. g = [v \in -1 .. Latest |-> body(g, v)]
    BY <2>a, <2>b
  <2> QED
    BY <2>c
<1>2. schemaOf = [v \in -1 .. Latest |-> body(schemaOf, v)]
  BY <1>1 DEF schemaOf
<1>3. \A v \in -1 .. Latest : schemaOf[v] = body(schemaOf, v)
  BY <1>2
<1> QED
  BY <1>3 DEF Versions, Latest


\* What is created by the steps of versions 0 to v.
CreatedUpTo(v) == UNION {StepOf(w).creates : w \in 0 .. v}

\* A property of schemas that the empty one has, and that every step keeps, is
\* one of every schema that steps have made: here, twice, by counting to nine.
LEMMA SchemaOfCreated ==
    \A v \in -1 .. Latest :
        /\ schemaOf[v] \subseteq CreatedUpTo(v)
        /\ CreatedUpTo(v) \ Undoable \subseteq schemaOf[v]
<1> DEFINE P(v) == /\ schemaOf[v] \subseteq CreatedUpTo(v)
                   /\ CreatedUpTo(v) \ Undoable \subseteq schemaOf[v]
<1>1. P(-1)
  BY SchemaOfDefined DEF CreatedUpTo
<1>2. ASSUME NEW v \in Versions, P(v - 1) PROVE P(v)
  <2>1. schemaOf[v] = (schemaOf[v - 1] \ StepOf(v).drops) \cup StepOf(v).creates
    BY SchemaOfDefined DEF After
  <2>2. CreatedUpTo(v) = CreatedUpTo(v - 1) \cup StepOf(v).creates
    <3>1. 0 .. v = (0 .. v - 1) \cup {v}
      BY DEF Versions, Latest
    <3> QED
      BY <3>1 DEF CreatedUpTo
  <2>3. ASSUME NEW o \in CreatedUpTo(v - 1) \ Undoable, o \in StepOf(v).drops
        PROVE  o \in StepOf(v).creates
    <3>1. PICK w \in 0 .. v - 1 : o \in StepOf(w).creates
      BY DEF CreatedUpTo
    <3>2. w \in Versions
      BY DEF Versions, Latest
    <3> QED
      BY <2>3, <3>1, <3>2 DEF Undoable
  <2> QED
    BY <1>2, <2>1, <2>2, <2>3
<1> HIDE DEF P
<1>3. P(0) BY <1>1, <1>2 DEF Versions, Latest
<1>4. P(1) BY <1>2, <1>3 DEF Versions, Latest
<1>5. P(2) BY <1>2, <1>4 DEF Versions, Latest
<1>6. P(3) BY <1>2, <1>5 DEF Versions, Latest
<1>7. P(4) BY <1>2, <1>6 DEF Versions, Latest
<1>8. P(5) BY <1>2, <1>7 DEF Versions, Latest
<1>9. P(6) BY <1>2, <1>8 DEF Versions, Latest
<1>10. P(7) BY <1>2, <1>9 DEF Versions, Latest
<1>11. P(8) BY <1>2, <1>10 DEF Versions, Latest
<1>12. P(9) BY <1>2, <1>11 DEF Versions, Latest
<1>13. \A v \in -1 .. Latest : P(v)
  BY <1>1, <1>3, <1>4, <1>5, <1>6, <1>7, <1>8, <1>9, <1>10, <1>11, <1>12 DEF Latest
<1> QED
  BY <1>13 DEF P

\* The two descriptions of the schema agree: the ten steps, run in order on an
\* empty database, make the tables of the generated queries.
LEMMA StepsMakeDBXSchema == schemaOf[Latest] = DBXSchema
<1>1. /\ StepOf(0) = InitialSetup
      /\ StepOf(1) = AddWalletId
      /\ StepOf(2) = MakeWalletIdTheKey
      /\ StepOf(3) = IndexAddress
      /\ StepOf(4) = DropPrice
  BY DEF StepOf, PostgresMigration
<1>2. /\ StepOf(5) = AddPrice
      /\ StepOf(6) = AddChainId
      /\ StepOf(7) = MakeChainIdPartOfTheKey
      /\ StepOf(8) = AddTransferEvents
      /\ StepOf(9) = DropTransferEvents
  BY DEF StepOf, PostgresMigration
<1>3. \A v \in Versions :
         schemaOf[v] = (schemaOf[v - 1] \ StepOf(v).drops) \cup StepOf(v).creates
  BY SchemaOfDefined DEF After
<1>4. /\ schemaOf[0] = ({} \ InitialSetup.drops) \cup InitialSetup.creates
      /\ schemaOf[1] = (schemaOf[0] \ AddWalletId.drops) \cup AddWalletId.creates
      /\ schemaOf[2] = (schemaOf[1] \ MakeWalletIdTheKey.drops) \cup MakeWalletIdTheKey.creates
      /\ schemaOf[3] = (schemaOf[2] \ IndexAddress.drops) \cup IndexAddress.creates
      /\ schemaOf[4] = (schemaOf[3] \ DropPrice.drops) \cup DropPrice.creates
  <2>1. schemaOf[0] = ({} \ InitialSetup.drops) \cup InitialSetup.creates
    <3>1. 0 \in Versions /\ 0 - 1 = -1
      BY DEF Versions, Latest
    <3>2. schemaOf[0 - 1] = {}
      BY <3>1, SchemaOfDefined
    <3> QED
      BY <1>1, <1>3, <3>1, <3>2
  <2> QED
    BY <1>1, <1>3, <2>1 DEF Versions, Latest
<1>5. /\ schemaOf[5] = (schemaOf[4] \ AddPrice.drops) \cup AddPrice.creates
      /\ schemaOf[6] = (schemaOf[5] \ AddChainId.drops) \cup AddChainId.creates
      /\ schemaOf[7] = (schemaOf[6] \ MakeChainIdPartOfTheKey.drops)
                         \cup MakeChainIdPartOfTheKey.creates
      /\ schemaOf[8] = (schemaOf[7] \ AddTransferEvents.drops) \cup AddTransferEvents.creates
      /\ schemaOf[9] = (schemaOf[8] \ DropTransferEvents.drops) \cup DropTransferEvents.creates
  BY <1>2, <1>3 DEF Versions, Latest
<1>6. schemaOf[1] = {"block_headers", "block_headers_pkey(hash)", "token_prices",
                     "token_prices.price double", "wallets", "wallets_pkey(address)",
                     "wallets.id"}
  BY <1>4 DEF InitialSetup, AddWalletId
<1>7. schemaOf[3] = {"block_headers", "block_headers_pkey(hash)", "token_prices",
                     "token_prices.price double", "wallets", "wallets_pkey(id)",
                     "wallets.id", "wallets unique(address)"}
  BY <1>4, <1>6 DEF MakeWalletIdTheKey, IndexAddress
<1>8. schemaOf[5] = {"block_headers", "block_headers_pkey(hash)", "token_prices",
                     "token_prices.price bigint", "wallets", "wallets_pkey(id)",
                     "wallets.id", "wallets unique(address)"}
  BY <1>4, <1>5, <1>7 DEF DropPrice, PriceColumns, AddPrice
<1>9. schemaOf[7] = DBXSchema
  BY <1>5, <1>8 DEF AddChainId, MakeChainIdPartOfTheKey, DBXSchema
<1>10. schemaOf[9] = DBXSchema
  BY <1>5, <1>9 DEF AddTransferEvents, DropTransferEvents, DBXSchema
<1> QED
  BY <1>10 DEF Latest

-----------------------------------------------------------------------------
(* The inductive invariant.                                                *)

\* The steps that have run are those up to the version, without a gap.
NoGap == Version \in -1 .. Latest /\ versions = 0 .. Version

\* A process has passed only steps that the database is beyond, whoever ran
\* them, and succeeds after it has passed them all.
NotAhead ==
    \A p \in Processes :
        /\ next[p] <= Version + 1
        /\ pc[p] = "run" => next[p] <= Latest
        /\ pc[p] = "migrated" => Version = Latest

\* What the steps have left: without late steps it is what the steps make in
\* order, and with them it differs in what one step undoes of another at most.
SchemaMatches ==
    /\ late = {} => schema = schemaOf[Version]
    /\ schema \subseteq CreatedUpTo(Version)
    /\ CreatedUpTo(Version) \ Undoable \subseteq schema

ProcessesTyped ==
    /\ pc \in [Processes -> {"idle", "open", "read", "run", "migrated", "failed"}]
    /\ next \in [Processes -> 0 .. Latest + 1]

HistoryInv == NoGap /\ NotAhead /\ SchemaMatches /\ ProcessesTyped

\* The largest of the versions 0 to v is v, also when there is none.
LEMMA VersionIs ==
    ASSUME NEW v \in -1 .. Latest, versions = 0 .. v
    PROVE  Version = v
<1>1. v \in versions \cup {-1} /\ \A w \in versions : w <= v
  BY DEF Latest
<1>2. Version \in versions \cup {-1} /\ \A w \in versions : w <= Version
  BY <1>1 DEF Version
<1> QED
  BY <1>1, <1>2 DEF Latest

LEMMA InitHistory == Init => HistoryInv
<1> SUFFICES ASSUME Init PROVE HistoryInv
  OBVIOUS
<1>1. PICK v \in InitialVersions : schema = schemaOf[v] /\ versions = 0 .. v
  BY DEF Init
<1>2. v \in -1 .. Latest
  BY MigrationAssumption DEF Latest
<1>3. Version = v
  BY <1>1, <1>2, VersionIs
<1>4. NoGap
  BY <1>1, <1>2, <1>3 DEF NoGap
<1>5. SchemaMatches
  BY <1>1, <1>2, <1>3, SchemaOfCreated DEF SchemaMatches
<1>6. ProcessesTyped /\ NotAhead
  BY <1>2, <1>3 DEF Init, ProcessesTyped, NotAhead, Latest
<1> QED
  BY <1>4, <1>5, <1>6 DEF HistoryInv

\* What a step may do to the database: it adds the next version, or a version
\* that is there, and runs the step's SQL.
LEMMA RunStepVersion ==
    ASSUME HistoryInv, NEW p \in Processes, RunStep(p)
    PROVE  /\ next[p] \in Versions
           /\ next[p] <= Version + 1
           /\ Version' = IF next[p] = Version + 1 THEN Version + 1 ELSE Version
           /\ Version' \in -1 .. Latest
           /\ versions' = 0 .. Version'
<1>1. next[p] \in Versions /\ next[p] <= Version + 1 /\ Version \in -1 .. Latest
  BY DEF HistoryInv, NotAhead, NoGap, ProcessesTyped, RunStep, Versions, Latest
<1>2. versions = 0 .. Version /\ versions' = versions \cup {next[p]}
  BY DEF HistoryInv, NoGap, RunStep
<1>3. CASE next[p] = Version + 1
  <2>1. Version + 1 \in -1 .. Latest
    BY <1>1, <1>3 DEF Versions, Latest
  <2>2. versions' = 0 .. Version + 1
    BY <1>1, <1>2, <1>3 DEF Latest
  <2>3. PICK v : v = Version + 1
    OBVIOUS
  <2>4. v \in -1 .. Latest /\ versions' = 0 .. v
    BY <2>1, <2>2, <2>3
  <2>5. Version' = v
    <3>1. v \in versions' \cup {-1} /\ \A w \in versions' : w <= v
      BY <2>4 DEF Latest
    <3>2. Version' \in versions' \cup {-1} /\ \A w \in versions' : w <= Version'
      BY <3>1 DEF Version
    <3> QED
      BY <2>4, <3>1, <3>2 DEF Latest
  <2> QED
    BY <1>1, <1>3, <2>3, <2>4, <2>5
<1>4. CASE next[p] # Version + 1
  <2>1. versions' = versions
    BY <1>1, <1>2, <1>4 DEF Versions, Latest
  <2>2. Version' = Version
    BY <2>1 DEF Version
  <2> QED
    BY <1>1, <1>2, <1>4, <2>1, <2>2
<1> QED
  BY <1>3, <1>4

\* The SQL of a step keeps SchemaMatches: it creates what it creates for good,
\* and drops for good only what may be undone.
LEMMA RunStepSchema ==
    ASSUME HistoryInv, NEW p \in Processes, RunStep(p)
    PROVE  SchemaMatches'
<1> DEFINE n == next[p]
<1>1. /\ n \in Versions
      /\ n <= Version + 1
      /\ Version' = IF n = Version + 1 THEN Version + 1 ELSE Version
      /\ Version' \in -1 .. Latest
      /\ Version \in -1 .. Latest
  BY RunStepVersion DEF HistoryInv, NoGap
<1>2. schema' = (schema \ StepOf(n).drops) \cup StepOf(n).creates
  BY DEF RunStep, After
<1>3. late' = {} => late = {} /\ ~(n <= Version)
  BY DEF RunStep
<1>4. CreatedUpTo(Version') = CreatedUpTo(Version) \cup StepOf(n).creates
  <2>1. CASE n = Version + 1
    <3>1. 0 .. Version' = (0 .. Version) \cup {n}
      BY <1>1, <2>1 DEF Versions, Latest
    <3> QED
      BY <3>1 DEF CreatedUpTo
  <2>2. CASE n # Version + 1
    <3>1. Version' = Version /\ n \in 0 .. Version
      BY <1>1, <2>2 DEF Versions, Latest
    <3> QED
      BY <3>1 DEF CreatedUpTo
  <2> QED
    BY <2>1, <2>2
<1>5. late' = {} => schema' = schemaOf[Version']
  <2>1. SUFFICES ASSUME late' = {} PROVE schema' = schemaOf[Version']
    OBVIOUS
  <2>2. n = Version + 1 /\ n - 1 = Version /\ Version' = n
    BY <1>1, <1>3, <2>1 DEF Versions, Latest
  <2>3. schema = schemaOf[n - 1]
    BY <1>3, <2>1, <2>2 DEF HistoryInv, SchemaMatches
  <2>4. schema' = After(StepOf(n), schemaOf[n - 1])
    BY <2>3 DEF RunStep
  <2> QED
    BY <1>1, <2>2, <2>4, SchemaOfDefined
<1>6. ASSUME NEW o \in CreatedUpTo(Version) \ Undoable, o \in StepOf(n).drops
      PROVE  o \in StepOf(n).creates
  <2>1. PICK w \in 0 .. Version : o \in StepOf(w).creates
    BY DEF CreatedUpTo
  <2>2. w \in Versions
    BY <1>1, <2>1 DEF Versions, Latest
  <2> QED
    BY <1>1, <1>6, <2>1, <2>2 DEF Undoable
<1>7. /\ schema' \subseteq CreatedUpTo(Version')
      /\ CreatedUpTo(Version') \ Undoable \subseteq schema'
  <2>1. schema \subseteq CreatedUpTo(Version) /\ CreatedUpTo(Version) \ Undoable \subseteq schema
    BY DEF HistoryInv, SchemaMatches
  <2> QED
    BY <1>2, <1>4, <1>6, <2>1
<1> QED
  BY <1>5, <1>7 DEF SchemaMatches, CreatedUpTo, Undoable

\* The invariant is kept when the database is, and no process moves on.
LEMMA DatabaseKept ==
    ASSUME HistoryInv, UNCHANGED <<schema, versions, late>>,
           ProcessesTyped',
           \A p \in Processes :
               /\ next'[p] <= Version + 1
               /\ pc'[p] = "run" => next'[p] <= Latest
               /\ pc'[p] = "migrated" => Version = Latest
    PROVE  HistoryInv'
<1>1. Version' = Version
  BY DEF Version
<1> QED
  BY <1>1 DEF HistoryInv, NoGap, NotAhead, SchemaMatches, CreatedUpTo, Undoable

MoveOf(p) ==
    \/ Begin(p) \/ OpenDatabase(p) \/ OpenFails(p)
    \/ ReadVersion(p) \/ RunStep(p) \/ StepFails(p) \/ Succeed(p) \/ Crash(p)

LEMMA MoveKeepsHistory ==
    ASSUME HistoryInv, NEW p \in Processes, MoveOf(p)
    PROVE  HistoryInv'
<1>0. /\ Version \in -1 .. Latest
      /\ next \in [Processes -> 0 .. Latest + 1]
      /\ \A q \in Processes : /\ next[q] <= Version + 1
                              /\ pc[q] = "run" => next[q] <= Latest
                              /\ pc[q] = "migrated" => Version = Latest
  BY DEF HistoryInv, NoGap, NotAhead, ProcessesTyped
<1> USE DEF GoTo, database
<1>1. CASE Begin(p) \/ OpenFails(p) \/ StepFails(p) \/ Crash(p)
  <2>1. UNCHANGED <<schema, versions, late, next>>
    BY <1>1 DEF Begin, OpenFails, StepFails, Crash
  <2>2. \A q \in Processes : pc'[q] = pc[q] \/ pc'[q] \in {"open", "failed", "idle"}
    BY <1>1 DEF Begin, OpenFails, StepFails, Crash, HistoryInv, ProcessesTyped
  <2>3. ProcessesTyped'
    BY <1>1, <2>1 DEF Begin, OpenFails, StepFails, Crash, HistoryInv, ProcessesTyped
  <2> QED
    BY <1>0, <2>1, <2>2, <2>3, DatabaseKept
<1>2. CASE OpenDatabase(p)
  <2>1. ProcessesTyped'
    BY <1>2 DEF OpenDatabase, HistoryInv, ProcessesTyped, Latest
  <2>2. \A q \in Processes :
          /\ next'[q] <= Version + 1
          /\ pc'[q] \in {"run", "migrated"} => pc'[q] = pc[q] /\ next'[q] = next[q]
    BY <1>0, <1>2 DEF OpenDatabase, HistoryInv, ProcessesTyped, Latest
  <2> QED
    BY <1>0, <1>2, <2>1, <2>2, DatabaseKept DEF OpenDatabase
<1>3. CASE ReadVersion(p)
  <2>1. next[p] \in 0 .. Latest
    BY <1>0, <1>3 DEF ReadVersion, Done, Latest
  <2>2. CASE next[p] <= Version /\ next' = [next EXCEPT ![p] = @ + 1] /\ UNCHANGED pc
    <3>1. ProcessesTyped'
      BY <2>1, <2>2 DEF HistoryInv, ProcessesTyped, Latest
    <3>2. \A q \in Processes :
            /\ next'[q] <= Version + 1
            /\ pc'[q] = "run" => next'[q] = next[q]
      BY <1>0, <1>3, <2>1, <2>2 DEF ReadVersion, Latest
    <3> QED
      BY <1>0, <1>3, <2>2, <3>1, <3>2, DatabaseKept DEF ReadVersion
  <2>3. CASE next[p] > Version /\ GoTo(p, "run") /\ UNCHANGED next
    <3>1. ProcessesTyped'
      BY <2>3 DEF HistoryInv, ProcessesTyped
    <3>2. \A q \in Processes :
            /\ pc'[q] = "run" => pc[q] = "run" \/ q = p
            /\ pc'[q] = "migrated" => pc[q] = "migrated"
      BY <2>3 DEF HistoryInv, ProcessesTyped
    <3>3. next[p] <= Latest
      BY <2>1 DEF Latest
    <3> QED
      BY <1>0, <1>3, <2>3, <3>1, <3>2, <3>3, DatabaseKept DEF ReadVersion
  <2> QED
    BY <1>3, <2>2, <2>3 DEF ReadVersion
<1>4. CASE RunStep(p)
  <2>1. /\ next[p] \in Versions
        /\ next[p] <= Version + 1
        /\ Version' = IF next[p] = Version + 1 THEN Version + 1 ELSE Version
        /\ Version' \in -1 .. Latest
        /\ versions' = 0 .. Version'
    BY <1>4, RunStepVersion
  <2>2. ProcessesTyped'
    <3>1. next[p] + 1 \in 0 .. Latest + 1
      BY <2>1 DEF Versions, Latest
    <3> QED
      BY <1>4, <3>1 DEF RunStep, HistoryInv, ProcessesTyped
  <2>3. NotAhead'
    <3> SUFFICES ASSUME NEW q \in Processes
                 PROVE  /\ next'[q] <= Version' + 1
                        /\ pc'[q] = "run" => next'[q] <= Latest
                        /\ pc'[q] = "migrated" => Version' = Latest
      BY DEF NotAhead, Latest
    <3>1. Version <= Version' /\ next[p] <= Version'
      BY <1>0, <2>1 DEF Versions, Latest
    <3>2. CASE q = p
      <4>1. next'[q] = next[p] + 1 /\ pc'[q] = "read"
        BY <1>4, <3>2 DEF RunStep, HistoryInv, ProcessesTyped
      <4> QED
        BY <2>1, <3>1, <4>1 DEF Versions, Latest
    <3>3. CASE q # p
      <4>1. next'[q] = next[q] /\ pc'[q] = pc[q] /\ next[q] \in 0 .. Latest + 1
        BY <1>0, <1>4, <3>3 DEF RunStep, HistoryInv, ProcessesTyped
      <4> QED
        BY <1>0, <2>1, <3>1, <4>1 DEF Latest
    <3> QED
      BY <3>2, <3>3
  <2> QED
    BY <1>4, <2>1, <2>2, <2>3, RunStepSchema DEF HistoryInv, NoGap
<1>5. CASE Succeed(p)
  <2>1. ProcessesTyped'
    BY <1>5 DEF Succeed, HistoryInv, ProcessesTyped
  <2>2. Version = Latest
    BY <1>0, <1>5 DEF Succeed, Done, Latest
  <2>3. \A q \in Processes : pc'[q] = "run" => pc[q] = "run"
    BY <1>5 DEF Succeed, HistoryInv, ProcessesTyped
  <2> QED
    BY <1>0, <1>5, <2>1, <2>2, <2>3, DatabaseKept DEF Succeed
<1> QED
  BY <1>1, <1>2, <1>3, <1>4, <1>5 DEF MoveOf

LEMMA NextKeepsHistory == HistoryInv /\ [Next]_vars => HistoryInv'
<1> SUFFICES ASSUME HistoryInv, [Next]_vars PROVE HistoryInv'
  OBVIOUS
<1>1. ASSUME NEW p \in Processes, MoveOf(p) PROVE HistoryInv'
  BY <1>1, MoveKeepsHistory
<1>2. CASE UNCHANGED vars
  BY <1>2, DatabaseKept
  DEF vars, HistoryInv, NotAhead, ProcessesTyped
<1> QED
  BY <1>1, <1>2 DEF Next, Step, Start, Terminated, MoveOf

-----------------------------------------------------------------------------
(* The theorems.                                                           *)

\* Every step adds the next version, or none, and every process has passed only
\* steps that have run (MigrateToLatest, under any interleaving and any crash).
THEOREM Invariant == Spec => []HistoryInv
  BY InitHistory, NextKeepsHistory, PTL DEF Spec

\* A process that is opening the database has an attempt left.
AttemptsLeft == \A p \in Processes : pc[p] = "open" => opens[p] < MaxOpens

\* The rest of the type, with what makes it inductive.
ProgressTyped ==
    /\ opens \in [Processes -> 0 .. MaxOpens]
    /\ AttemptsLeft
    /\ late \subseteq Versions

\* The attempts are counted from zero and end the process before they exceed
\* their number (openDatabaseWithRetry).
LEMMA MoveKeepsProgress ==
    ASSUME HistoryInv, ProgressTyped, NEW p \in Processes, MoveOf(p)
    PROVE  ProgressTyped'
<1> USE MigrationAssumption DEF ProgressTyped, AttemptsLeft, GoTo, HistoryInv, ProcessesTyped
<1>1. CASE Begin(p)
  BY <1>1 DEF Begin, database
<1>2. CASE OpenFails(p)
  <2>1. opens[p] \in 0 .. MaxOpens - 1
    BY <1>2 DEF OpenFails
  <2>2. opens' = [opens EXCEPT ![p] = opens[p] + 1] /\ opens' \in [Processes -> 0 .. MaxOpens]
    BY <1>2, <2>1 DEF OpenFails
  <2>3. \A q \in Processes : pc'[q] = "open" => pc[q] = "open" /\ (q = p => opens'[p] # MaxOpens)
    BY <1>2 DEF OpenFails
  <2> QED
    BY <1>2, <2>1, <2>2, <2>3 DEF OpenFails, database
<1>3. CASE OpenDatabase(p) \/ ReadVersion(p) \/ StepFails(p) \/ Succeed(p) \/ Crash(p)
  BY <1>3 DEF OpenDatabase, ReadVersion, StepFails, Succeed, Crash, database
<1>4. CASE RunStep(p)
  BY <1>4, RunStepVersion DEF RunStep
<1> QED
  BY <1>1, <1>2, <1>3, <1>4 DEF MoveOf

\* The rest of the type follows from the invariant.
LEMMA HistoryTyped ==
    ASSUME HistoryInv
    PROVE  /\ schema \subseteq UNION {StepOf(v).creates : v \in Versions}
           /\ versions \subseteq Versions
           /\ pc \in [Processes -> {"idle", "open", "read", "run", "migrated", "failed"}]
           /\ next \in [Processes -> 0 .. Latest + 1]
<1>1. 0 .. Version \subseteq Versions
  BY DEF HistoryInv, NoGap, Versions, Latest
<1> QED
  BY <1>1 DEF HistoryInv, NoGap, SchemaMatches, ProcessesTyped, CreatedUpTo

LEMMA InitProgress == Init => ProgressTyped
  BY MigrationAssumption DEF Init, ProgressTyped, AttemptsLeft

\* The database, the table of versions and the processes keep their types
\* (MigrateToLatest and openDatabaseWithRetry).
THEOREM TypeCorrect == Spec => []TypeOK
<1>1. Init => starts \in 0 .. MaxStarts
  BY MigrationAssumption DEF Init
<1>2. starts \in 0 .. MaxStarts /\ [Next]_vars => (starts \in 0 .. MaxStarts)'
  <2> SUFFICES ASSUME starts \in 0 .. MaxStarts, [Next]_vars PROVE starts' \in 0 .. MaxStarts
    OBVIOUS
  <2>1. ASSUME NEW p \in Processes, Start(p) PROVE starts' \in 0 .. MaxStarts
    BY <2>1, MigrationAssumption DEF Start
  <2>2. ASSUME NEW p \in Processes, Step(p) \/ Crash(p) PROVE starts' = starts
    BY <2>2 DEF Step, OpenDatabase, OpenFails, ReadVersion, RunStep, StepFails, Succeed, Crash
  <2> QED
    BY <2>1, <2>2 DEF Next, Terminated, vars
<1>3. HistoryInv /\ ProgressTyped /\ [Next]_vars => ProgressTyped'
  <2> SUFFICES ASSUME HistoryInv, ProgressTyped, [Next]_vars PROVE ProgressTyped'
    OBVIOUS
  <2>1. CASE UNCHANGED vars
    BY <2>1 DEF vars, ProgressTyped, AttemptsLeft
  <2> QED
    BY <2>1, MoveKeepsProgress DEF Next, Step, Start, Terminated, MoveOf
<1>4. HistoryInv /\ ProgressTyped /\ starts \in 0 .. MaxStarts => TypeOK
  BY HistoryTyped DEF ProgressTyped, TypeOK
<1> QED
  BY <1>1, <1>2, <1>3, <1>4, InitProgress, Invariant, PTL DEF Spec

\* An object that a step creates is one of the generated queries' tables, or
\* another step drops it for good.
LEMMA CreatedIsDBXSchema == CreatedUpTo(Latest) \ Undoable = DBXSchema \ Undoable
<1>1. CreatedUpTo(Latest) \ Undoable \subseteq DBXSchema
  BY SchemaOfCreated, StepsMakeDBXSchema DEF Latest
<1>2. DBXSchema \subseteq CreatedUpTo(Latest)
  BY SchemaOfCreated, StepsMakeDBXSchema DEF Latest
<1> QED
  BY <1>1, <1>2

\* Any number of processes that migrate, crash and start again end with the
\* tables of the generated queries; those that run a step late disturb at most
\* what one step creates and another drops (PostgresMigration).
THEOREM SchemasAgree == Spec => []SchemaAgrees
<1>1. HistoryInv => SchemaAgrees
  BY StepsMakeDBXSchema, CreatedIsDBXSchema DEF HistoryInv, SchemaMatches, SchemaAgrees
<1> QED
  BY <1>1, Invariant, PTL

\* What the history sees of a process: nothing, or a step of it.
LEMMA MoveIsHistory ==
    ASSUME HistoryInv, NEW p \in Processes, MoveOf(p)
    PROVE  [History!Next]_(History!historyVars)
<1> DEFINE done == {q \in Processes : pc[q] = "migrated"}
<1> USE DEF HistoryInv, ProcessesTyped
<1>1. versions' = versions => Version' = Version
  BY DEF Version
<1>2. CASE Begin(p)
  <2>1. History!Leave(p)
    BY <1>1, <1>2 DEF Begin, GoTo, database, History!Leave
  <2> QED
    BY <2>1 DEF History!Next
<1>3. CASE RunStep(p)
  <2>1. done' = done
    BY <1>3 DEF RunStep, GoTo
  <2>2. /\ next[p] \in Versions
        /\ Version' = IF next[p] = Version + 1 THEN Version + 1 ELSE Version
    BY <1>3, RunStepVersion
  <2>3. CASE next[p] = Version + 1
    <3>1. Version < Latest
      BY <2>2, <2>3 DEF NoGap, Versions, Latest
    <3>2. History!Upgrade
      BY <2>1, <2>2, <2>3, <3>1 DEF History!Upgrade
    <3> QED
      BY <3>2 DEF History!Next
  <2> QED
    BY <2>1, <2>2, <2>3 DEF History!historyVars
<1>4. CASE Succeed(p)
  <2>1. Version = Latest
    BY <1>4 DEF Succeed, Done, NotAhead, NoGap, Latest
  <2>2. done' = done \cup {p}
    BY <1>4 DEF Succeed, GoTo
  <2>3. History!Succeed(p)
    BY <1>1, <1>4, <2>1, <2>2 DEF Succeed, database, History!Succeed
  <2> QED
    BY <2>3 DEF History!Next
<1>5. CASE OpenDatabase(p) \/ OpenFails(p) \/ ReadVersion(p) \/ StepFails(p) \/ Crash(p)
  <2>1. versions' = versions
    BY <1>5 DEF OpenDatabase, OpenFails, ReadVersion, StepFails, Crash, database
  <2>2. done' = done
    BY <1>5 DEF OpenDatabase, OpenFails, ReadVersion, StepFails, Crash, GoTo
  <2> QED
    BY <1>1, <2>1, <2>2 DEF History!historyVars
<1> QED
  BY <1>2, <1>3, <1>4, <1>5 DEF MoveOf

\* A step of another component is none of the history.
LEMMA NoMoveIsHistory ==
    ASSUME UNCHANGED <<versions, pc>>
    PROVE  UNCHANGED History!historyVars
<1>1. Version' = Version
  BY DEF Version
<1> QED
  BY <1>1 DEF History!historyVars

LEMMA InitIsHistory == Init => History!Init
<1> SUFFICES ASSUME Init PROVE History!Init
  OBVIOUS
<1>1. PICK v \in InitialVersions : versions = 0 .. v
  BY DEF Init
<1>2. Version = v
  BY <1>1, VersionIs, MigrationAssumption DEF Latest
<1> QED
  BY <1>2 DEF Init, History!Init

\* However many processes migrate at once, the version rises by one step at a
\* time and never falls, and nobody succeeds before it is the latest.
THEOREM Refinement == Spec => ImplementsHistory
<1>1. HistoryInv /\ [Next]_vars => [History!Next]_(History!historyVars)
  <2> SUFFICES ASSUME HistoryInv, [Next]_vars PROVE [History!Next]_(History!historyVars)
    OBVIOUS
  <2>1. CASE UNCHANGED vars
    BY <2>1, NoMoveIsHistory DEF vars
  <2> QED
    BY <2>1, MoveIsHistory DEF Next, Step, Start, Terminated, MoveOf
<1> QED
  BY <1>1, InitIsHistory, Invariant, PTL DEF Spec, History!Spec, ImplementsHistory

=============================================================================
