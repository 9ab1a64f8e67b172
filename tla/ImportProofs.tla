---------------------------- MODULE ImportProofs ----------------------------
(***************************************************************************)
(* Theorems about Import, for every mnemonic, every range that an operator *)
(* generates and every number of imports: what a command that reports      *)
(* success has done, and whose wallets end in the table.                   *)
(***************************************************************************)
EXTENDS Import, WalletsProofs, SequenceTheorems

-----------------------------------------------------------------------------
(* The files.                                                              *)

\* The addresses that the operator of satellite s may have generated.
Generated(s) == UNION {Generate(range) : range \in ranges[s]}

\* A range has finitely many addresses, however many indexes there are.
LEMMA GenerateFinite ==
    ASSUME NEW s \in Satellites, NEW range \in ranges[s]
    PROVE  Generate(range) \subseteq Addresses /\ IsFiniteSet(Generate(range))
<1> USE ImportAssumption
<1> DEFINE chosen == {j \in Indexes : range[1] <= j /\ j <= range[2]}
           address == [j \in chosen |-> derived[j]]
<1>0. Indexes \subseteq Nat /\ derived \in [Indexes -> Addresses]
  BY DEF ImportAssumption
<1>1. range[1] \in Nat /\ range[2] \in Nat
  <2>1. range \in Indexes \X Indexes
    BY DEF ImportAssumption
  <2>2. range[1] \in Indexes /\ range[2] \in Indexes
    BY <2>1
  <2> QED
    BY <1>0, <2>2
<1>2. chosen \subseteq range[1] .. range[2]
  <2> SUFFICES ASSUME NEW j \in chosen PROVE j \in range[1] .. range[2]
    OBVIOUS
  <2>1. j \in Nat /\ range[1] <= j /\ j <= range[2]
    BY <1>0
  <2> QED
    BY <1>1, <2>1
<1>3. IsFiniteSet(range[1] .. range[2])
  BY <1>1, FS_Interval
<1>4. IsFiniteSet(chosen)
  BY <1>2, <1>3, FS_Subset
<1>5. address \in Surjection(chosen, Generate(range))
  BY DEF Surjection, Generate
<1>6. IsFiniteSet(Generate(range))
  <2> HIDE DEF chosen, address
  <2> QED BY <1>4, <1>5, FS_Surjection
<1>7. Generate(range) \subseteq Addresses
  BY DEF Generate
<1> QED
  BY <1>6, <1>7

\* Every file is a sequence of addresses that its operator has generated,
\* whether it was written to its end or not.
LEMMA FilesTyped ==
    ASSUME NEW s \in Satellites, NEW rows \in FilesOf(s)
    PROVE  rows \in Seq(Addresses) /\ Elements(rows) \subseteq Generated(s)
<1>1. PICK range \in ranges[s] : rows \in WholeFiles(range) \cup ShortFiles(range)
  BY DEF FilesOf
<1>2. ASSUME NEW whole \in WholeFiles(range)
      PROVE  whole \in Seq(Generate(range))
  <2>1. Cardinality(Generate(range)) \in Nat
    BY GenerateFinite, FS_CardinalityType
  <2>2. whole \in [1 .. Cardinality(Generate(range)) -> Generate(range)]
    BY DEF WholeFiles, Orders, Injection
  <2> QED
    BY <2>1, <2>2
<1>3. rows \in Seq(Generate(range))
  <2>1. CASE rows \in WholeFiles(range)
    BY <1>2, <2>1
  <2>2. CASE rows \in ShortFiles(range)
    <3>1. PICK whole \in WholeFiles(range), n \in Int :
              n \in 0 .. Len(whole) - 1 /\ rows = SubSeq(whole, 1, n)
      BY <2>2 DEF ShortFiles
    <3>2. whole \in Seq(Generate(range)) /\ Len(whole) \in Nat
      BY <1>2
    <3>3. \A i \in 1 .. n : whole[i] \in Generate(range)
      BY <3>1, <3>2
    <3> QED
      BY <3>1, <3>3, SubSeqProperties
  <2> QED
    BY <1>1, <2>1, <2>2
<1>4. \A i \in 1 .. Len(rows) : rows[i] \in Generate(range)
  BY <1>3
<1>5. Elements(rows) \subseteq Generated(s)
  BY <1>4 DEF Elements, Generated
<1>6. rows \in Seq(Addresses)
  BY <1>3, GenerateFinite
<1> QED
  BY <1>5, <1>6

\* An import is one of the registrations that the proofs about Wallets allow.
LEMMA ImportIsWider ==
    ASSUME [ImportNext]_<<vars, client>>
    PROVE  [WiderNext]_vars
<1>1. ASSUME NEW r \in Requests, NEW s \in Satellites, StartImport(s, r) PROVE Registers(r)
  BY <1>1, FilesTyped DEF StartImport, Registers
<1> QED
  BY <1>1 DEF ImportNext, WiderNext, Arrives, ImportReturns, ImportsEnded

-----------------------------------------------------------------------------
(* What a command has sent and reported.                                   *)

ClientTyped ==
    /\ client \in [Requests -> {"none", "pending", "ok", "error"}]
    /\ \A r \in Requests :
        /\ client[r] # "none" => op[r] = "register" /\ pc[r] # "idle"
        /\ client[r] = "ok" => pc[r] = "ok"

\* A Register that has committed has registered its whole batch.
RegisteredWhole ==
    \A r \in Requests : op[r] = "register" /\ pc[r] \in {"committed", "ok"} =>
        \A a \in Elements(batch[r]) : owner[a] # NoSatellite

ImportInv == ClientTyped /\ RegisteredWhole

\* A satellite registers what its operator has generated, and inserts and owns
\* nothing else.
OfGenerated ==
    /\ \A r \in Requests : op[r] = "register" => Elements(batch[r]) \subseteq Generated(sat[r])
    /\ \A r \in Requests : pc[r] = "insert" => Elements(todo[r]) \subseteq Elements(batch[r])
    /\ \A r \in Requests, a \in Addresses :
           pc[r] = "insert" /\ lock[a] = r => a \in Generated(sat[r])
    /\ \A a \in Addresses : owner[a] # NoSatellite => a \in Generated(owner[a])

LEMMA StepKeepsClient ==
    ASSUME TypeOK, TypeOK', ClientTyped, [ImportNext]_<<vars, client>>
    PROVE  ClientTyped'
<1> USE DEF ClientTyped
<1>1. ASSUME NEW r \in Requests, StepsOf(r), UNCHANGED client PROVE ClientTyped'
  <2>1. \A q \in Requests \ {r} : pc'[q] = pc[q] /\ op'[q] = op[q]
    BY <1>1, OthersStay
  <2>2. pc[r] # "ok" /\ pc'[r] # "idle"
    BY <1>1, RequestsFixed DEF Outcomes
  <2>3. client[r] # "none" => op'[r] = op[r]
    <3>1. CASE Arrives(r)
      BY <1>1, <3>1, ArrivesBegin DEF Begin
    <3>2. CASE Step(r) \/ Fault(r)
      BY <1>1, <3>2, RequestsFixed
    <3> QED
      BY <1>1, <3>1, <3>2 DEF StepsOf
  <2> QED
    BY <1>1, <2>1, <2>2, <2>3
<1>2. ASSUME NEW r \in Requests, NEW s \in Satellites, StartImport(s, r) PROVE ClientTyped'
  <2>1. PICK rows \in FilesOf(s) : BeginRegister(r, s, rows)
    BY <1>2 DEF StartImport
  <2>2. /\ op' = [op EXCEPT ![r] = "register"] /\ pc' = [pc EXCEPT ![r] = "insert"]
        /\ client' = [client EXCEPT ![r] = "pending"]
    BY <1>2, <2>1 DEF StartImport, BeginRegister, Begin, GoTo
  <2> QED
    BY <2>2 DEF TypeOK
<1>3. ASSUME NEW r \in Requests, ImportReturns(r) PROVE ClientTyped'
  BY <1>3 DEF ImportReturns, vars
<1>4. CASE UNCHANGED <<vars, client>>
  BY <1>4 DEF vars
<1> QED
  BY <1>1, <1>2, <1>3, <1>4 DEF ImportNext, ImportsEnded, StepsOf, Arrives

\* A Register that commits has inserted, or found, a row for each address.
LEMMA CommitsWhole ==
    ASSUME TypeOK, WalletInv, RequestInv, NEW r \in Requests, InsertCommit(r),
           NEW a \in Elements(batch[r])
    PROVE  owner'[a] # NoSatellite
<1>1. pc[r] = "insert" /\ todo[r] = <<>> /\ sat[r] # NoSatellite
  BY SentinelAssumption DEF SentinelAssumption, InsertCommit, WalletInv, StatementsMatch
<1>2. a \in Addresses
  BY ElementsAreAddresses DEF TypeOK
<1>3. lock[a] = r \/ owner[a] # NoSatellite
  BY <1>1 DEF RequestInv, EachDueOrInserted, Elements
<1> QED
  BY <1>1, <1>2, <1>3 DEF InsertCommit

LEMMA StepKeepsWhole ==
    ASSUME TypeOK, WalletInv, RequestInv, RegisteredWhole, [WiderNext]_vars
    PROVE  RegisteredWhole'
<1>1. Stable
  BY StepsAreStable
<1>2. CASE UNCHANGED vars
  BY <1>2 DEF vars, RegisteredWhole
<1>3. ASSUME NEW r \in Requests, StepsOf(r) PROVE RegisteredWhole'
  <2> SUFFICES ASSUME NEW q \in Requests, op'[q] = "register", pc'[q] \in {"committed", "ok"},
                      NEW a \in Elements(batch'[q])
               PROVE  owner'[a] # NoSatellite
    BY DEF RegisteredWhole, Elements
  <2>1. CASE q # r
    <3>1. op[q] = "register" /\ pc[q] = pc'[q] /\ batch'[q] = batch[q]
      BY <1>3, <2>1, OthersStay
    <3>2. owner[a] # NoSatellite /\ a \in Addresses
      BY <3>1, ElementsAreAddresses DEF RegisteredWhole, TypeOK
    <3> QED
      BY <1>1, <3>2 DEF Stable
  <2>2. CASE q = r
    <3>1. ~Arrives(r)
      BY <2>2, ArrivesBegin DEF Begin, GoTo, TypeOK
    <3>2. op[r] = "register" /\ batch'[r] = batch[r]
      BY <1>3, <2>2, <3>1, RequestsFixed DEF StepsOf
    <3>3. InsertCommit(r) \/ (Reply(r) /\ pc[r] = "committed")
      <4> USE <2>2, <3>1, <3>2
          DEF TypeOK, GoTo, table, request, progress, WalletInv, StatementsMatch
      <4>1. CASE ClaimSelect(r) \/ ClaimUpdate(r) \/ ClaimCommit(r) \/ InsertRow(r)
        BY <4>1 DEF ClaimSelect, ClaimUpdate, ClaimCommit, InsertRow
      <4>2. CASE CountTotal(r) \/ CountClaimed(r) \/ ListBySatellite(r) \/ Get(r)
        BY <4>2 DEF CountTotal, CountClaimed, ListBySatellite, Get
      <4>3. CASE Abort(r) \/ ReplyLost(r) \/ QueryFails(r) \/ (DeadlockAbort(r) /\ ~Retry(r))
        BY <4>3 DEF Abort, ReplyLost, QueryFails, DeadlockAbort
      <4>4. CASE Retry(r)
        BY <4>4 DEF Retry, FirstStatement
      <4>5. CASE Reply(r)
        BY <4>5 DEF Reply
      <4> QED
        BY <1>3, <4>1, <4>2, <4>3, <4>4, <4>5 DEF StepsOf, Step, Fault, ClaimConflict, Conflict
    <3>4. CASE InsertCommit(r)
      BY <2>2, <3>2, <3>4, CommitsWhole
    <3>5. CASE Reply(r) /\ pc[r] = "committed"
      <4>1. owner' = owner
        BY <3>5 DEF Reply, table
      <4> QED
        BY <2>2, <3>2, <3>5, <4>1 DEF RegisteredWhole
    <3> QED
      BY <3>3, <3>4, <3>5
  <2> QED
    BY <2>1, <2>2
<1> QED
  BY <1>2, <1>3 DEF WiderNext, StepsOf, Terminated

TypeAndInv == TypeOK /\ WalletInv /\ RequestInv /\ ImportInv

LEMMA ImportKeeps == TypeAndInv /\ [ImportNext]_<<vars, client>> => TypeAndInv'
<1> SUFFICES ASSUME TypeAndInv, [ImportNext]_<<vars, client>> PROVE TypeAndInv'
  OBVIOUS
<1>1. [WiderNext]_vars
  BY ImportIsWider
<1>2. TypeOK' /\ WalletInv' /\ RequestInv'
  BY <1>1, NextType, NextInv, NextKeepsRequests DEF TypeAndInv
<1> QED
  BY <1>1, <1>2, StepKeepsClient, StepKeepsWhole DEF TypeAndInv, ImportInv

LEMMA ImportInvariant == ImportSpec => []TypeAndInv
<1>1. ImportInit => TypeAndInv
  BY InitType, InitInv, InitRequests
  DEF ImportInit, Init, TypeAndInv, ImportInv, ClientTyped, RegisteredWhole
<1> QED
  BY <1>1, ImportKeeps, PTL DEF ImportSpec

-----------------------------------------------------------------------------
(* The theorems.                                                           *)

\* The table and every request keep their types with imports among them, and
\* only a Register is ever the request of a command.
THEOREM ImportTypeCorrect == ImportSpec => []ImportTypeOK
<1>1. TypeAndInv => ImportTypeOK
  BY DEF TypeAndInv, ImportInv, ClientTyped, ImportTypeOK
<1> QED
  BY <1>1, ImportInvariant, PTL

\* An import that reports success has a row for every address that it has sent,
\* whatever was retried, aborted or claimed in between (importCSV).
THEOREM SuccessMeansRegistered == ImportSpec => []ReportedAreRegistered
<1>1. TypeAndInv => ReportedAreRegistered
  BY DEF TypeAndInv, ImportInv, ClientTyped, RegisteredWhole, ReportedAreRegistered, Elements
<1> QED
  BY <1>1, ImportInvariant, PTL

\* Imports, too, neither take over a wallet nor forget a claim.
THEOREM ImportsKeepWallets == ImportSpec => WalletsAreStable
<1>1. TypeAndInv /\ [ImportNext]_<<vars, client>> => [Stable]_vars
  BY ImportIsWider, StepsAreStable DEF TypeAndInv
<1> QED
  BY <1>1, ImportInvariant, PTL DEF ImportSpec, WalletsAreStable, Stable

\* A file is registered as a whole, however many imports wait for each other.
THEOREM ImportsAreAtomic == ImportSpec => BatchIsAtomic
<1>1. TypeAndInv /\ [ImportNext]_<<vars, client>>
          => [owner' # owner => \E r \in Requests : RegistersBatch(r)]_vars
  BY ImportIsWider, BatchesCommitWhole DEF TypeAndInv
<1> QED
  BY <1>1, ImportInvariant, PTL DEF ImportSpec, BatchIsAtomic, RegistersBatch

-----------------------------------------------------------------------------
(* Whose wallets they are.                                                 *)

\* What satellites register without the command, if anything, they have
\* generated, too.
OnlyGenerated ==
    \A s \in Satellites, addresses \in Batches : Elements(addresses) \subseteq Generated(s)

\* The batch of an arriving Register is one that its satellite has generated.
LEMMA ArrivesGenerated ==
    ASSUME OnlyGenerated, TypeOK, NEW r \in Requests,
           Arrive(r) \/ (\E s \in Satellites : StartImport(s, r)), op'[r] = "register"
    PROVE  Elements(batch'[r]) \subseteq Generated(sat'[r]) /\ todo'[r] = batch'[r]
<1>1. PICK s \in Satellites :
        \E addresses : /\ Elements(addresses) \subseteq Generated(s)
                       /\ BeginRegister(r, s, addresses)
  <2>1. CASE Arrive(r)
    BY <2>1 DEF Arrive, BeginClaim, BeginStats, BeginList, BeginGet, Begin, TypeOK, OnlyGenerated
  <2>2. CASE \E s \in Satellites : StartImport(s, r)
    BY <2>2, FilesTyped DEF StartImport
  <2> QED
    BY <2>1, <2>2
<1>2. PICK addresses : /\ Elements(addresses) \subseteq Generated(s)
                       /\ BeginRegister(r, s, addresses)
  BY <1>1
<1>3. batch'[r] = addresses /\ todo'[r] = addresses /\ sat'[r] = s
  BY <1>2 DEF BeginRegister, Begin, TypeOK
<1> QED
  BY <1>2, <1>3

LEMMA StepKeepsGenerated ==
    ASSUME OnlyGenerated, TypeOK, TypeOK', WalletInv, OfGenerated, NEW r \in Requests, StepsOf(r),
           \/ Arrive(r) \/ \E s \in Satellites : StartImport(s, r)
           \/ Step(r) \/ Fault(r)
    PROVE  OfGenerated'
<1>1. ASSUME NEW q \in Requests \ {r}
      PROVE  /\ pc'[q] = pc[q] /\ op'[q] = op[q] /\ sat'[q] = sat[q]
             /\ batch'[q] = batch[q] /\ todo'[q] = todo[q]
             /\ \A a \in Addresses : lock'[a] = q <=> lock[a] = q
  BY OthersStay
<1>2. op'[r] = "register" => Elements(batch'[r]) \subseteq Generated(sat'[r])
  <2>1. CASE Arrive(r) \/ \E s \in Satellites : StartImport(s, r)
    BY <2>1, ArrivesGenerated
  <2>2. CASE Step(r) \/ Fault(r)
    BY <2>2, RequestsFixed DEF OfGenerated
  <2> QED
    BY <2>1, <2>2
<1>3. pc'[r] = "insert" =>
        /\ Elements(todo'[r]) \subseteq Elements(batch'[r])
        /\ \A a \in Addresses : lock'[a] = r => a \in Generated(sat'[r])
  <2> SUFFICES ASSUME pc'[r] = "insert", InsertRow(r)
               PROVE  /\ Elements(todo'[r]) \subseteq Elements(batch'[r])
                      /\ \A a \in Addresses : lock'[a] = r => a \in Generated(sat'[r])
    BY InsertsBegin
  <2>1. /\ pc[r] = "insert" /\ op[r] = "register" /\ batch' = batch /\ sat' = sat
        /\ todo[r] \in Seq(Addresses) /\ todo[r] # <<>> /\ todo'[r] = Tail(todo[r])
    BY DEF InsertRow, TypeOK, request, WalletInv, StatementsMatch
  <2>2. Elements(todo[r]) = {Head(todo[r])} \cup Elements(todo'[r])
    BY <2>1, ElementsOfRest
  <2>3. /\ Elements(todo[r]) \subseteq Elements(batch[r])
        /\ Elements(batch[r]) \subseteq Generated(sat[r])
        /\ \A a \in Addresses : lock[a] = r => a \in Generated(sat[r])
    BY <2>1 DEF OfGenerated
  <2>4. \A a \in Addresses : lock'[a] = lock[a] \/ a = Head(todo[r])
    BY DEF InsertRow, TypeOK
  <2> QED
    BY <2>1, <2>2, <2>3, <2>4
<1>4. ASSUME NEW a \in Addresses, owner'[a] # NoSatellite PROVE a \in Generated(owner'[a])
  <2>1. CASE owner'[a] = owner[a]
    BY <1>4, <2>1 DEF OfGenerated
  <2>2. CASE owner'[a] # owner[a]
    <3>1. PICK q \in Requests : InsertCommit(q)
      <4>1. [WiderNext]_vars
        BY DEF WiderNext, StepsOf
      <4> QED
        BY <2>2, <4>1, TableChanges DEF table, ClaimCommit
    <3>2. pc[q] = "insert" /\ lock[a] = q /\ owner'[a] = sat[q]
      BY <2>2, <3>1 DEF InsertCommit
    <3> QED
      BY <3>2 DEF OfGenerated
  <2> QED
    BY <2>1, <2>2
<1>5. \A q \in Requests : op'[q] = "register" => Elements(batch'[q]) \subseteq Generated(sat'[q])
  BY <1>1, <1>2 DEF OfGenerated
<1>6. \A q \in Requests : pc'[q] = "insert" => Elements(todo'[q]) \subseteq Elements(batch'[q])
  BY <1>1, <1>3 DEF OfGenerated
<1>7. \A q \in Requests, a \in Addresses :
        pc'[q] = "insert" /\ lock'[a] = q => a \in Generated(sat'[q])
  BY <1>1, <1>3 DEF OfGenerated
<1> QED
  BY <1>4, <1>5, <1>6, <1>7 DEF OfGenerated, Elements, Generated, Generate, Indexes

LEMMA GeneratedInvariant ==
    ASSUME OnlyGenerated
    PROVE  ImportSpec => []OfGenerated
<1>1. ImportInit => OfGenerated
  BY DEF ImportInit, Init, OfGenerated
<1>2. TypeAndInv /\ TypeAndInv' /\ OfGenerated /\ [ImportNext]_<<vars, client>> => OfGenerated'
  <2> SUFFICES ASSUME TypeAndInv, TypeAndInv', OfGenerated, [ImportNext]_<<vars, client>>
               PROVE  OfGenerated'
    OBVIOUS
  <2>1. CASE UNCHANGED vars
    BY <2>1 DEF vars, OfGenerated
  <2>2. ASSUME NEW r \in Requests, Arrive(r) \/ Step(r) \/ Fault(r) PROVE OfGenerated'
    BY <2>2, StepKeepsGenerated DEF StepsOf, Arrives, TypeAndInv
  <2>3. ASSUME NEW r \in Requests, NEW s \in Satellites, StartImport(s, r) PROVE OfGenerated'
    <3>1. Registers(r)
      BY <2>3, FilesTyped DEF StartImport, Registers
    <3> QED
      BY <2>3, <3>1, StepKeepsGenerated DEF StepsOf, Arrives, TypeAndInv
  <2> QED
    BY <2>1, <2>2, <2>3 DEF ImportNext, ImportReturns, ImportsEnded
<1> QED
  BY <1>1, <1>2, ImportInvariant, PTL DEF ImportSpec

\* A wallet belongs to a satellite whose operator has generated it: another
\* satellite's import, whole or short, neither adds nor takes it.
THEOREM WalletsAreGenerated ==
    ASSUME OnlyGenerated
    PROVE  ImportSpec => []OwnersGenerated
<1>1. TypeAndInv /\ OfGenerated => OwnersGenerated
  <2> SUFFICES ASSUME TypeAndInv, OfGenerated, NEW a \in Addresses, owner[a] # NoSatellite
               PROVE  \E range \in ranges[owner[a]], i \in Indexes :
                          a = derived[i] /\ i \in range[1] .. range[2]
    BY DEF OwnersGenerated
  <2>1. owner[a] \in Satellites
    BY DEF TypeAndInv, TypeOK
  <2>2. PICK range \in ranges[owner[a]] : a \in Generate(range)
    BY DEF OfGenerated, Generated
  <2>3. PICK i \in Indexes : range[1] <= i /\ i <= range[2] /\ a = derived[i]
    BY <2>2 DEF Generate
  <2>4. range[1] \in Nat /\ range[2] \in Nat /\ i \in Nat
    <3>1. range \in Indexes \X Indexes
      BY <2>1, ImportAssumption
    <3>2. range[1] \in Indexes /\ range[2] \in Indexes
      BY <3>1
    <3> QED
      BY <3>2, ImportAssumption
  <2> QED
    BY <2>3, <2>4
<1> QED
  BY <1>1, ImportInvariant, GeneratedInvariant, PTL

=============================================================================
