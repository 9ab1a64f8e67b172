------------------------------- MODULE Import -------------------------------
(***************************************************************************)
(* How wallets come into the table: the command "generate" derives         *)
(* addresses and writes them to a file, and the command "import" reads     *)
(* the file and sends it to the service as one Register request            *)
(* (cmd/storjscan/main.go, wallets/generate.go, wallets/client.go).  The   *)
(* operator of a satellite repeats a command that has failed, and may      *)
(* repeat one that has not.                                                *)
(*                                                                         *)
(* Composed with module Wallets: the request of an import runs with those  *)
(* of satellites that claim, and with other imports.                       *)
(***************************************************************************)
EXTENDS Wallets, Functions

CONSTANTS
    derived,   \* the address of each index of the mnemonic
    ranges     \* the ranges <<min, max>> that each satellite's operator generates

Indexes == DOMAIN derived

ASSUME ImportAssumption ==
    /\ Indexes \subseteq Nat
    /\ derived \in [Indexes -> Addresses]
    /\ ranges \in [Satellites -> SUBSET (Indexes \X Indexes)]

VARIABLE
    client   \* the command that has sent each request: what it has reported

\* One type invariant: only Register requests are sent by a command.
ImportTypeOK ==
    /\ TypeOK
    /\ client \in [Requests -> {"none", "pending", "ok", "error"}]
    /\ \A r \in Requests : client[r] # "none" => op[r] = "register"

ImportInit ==
    /\ Init
    /\ client = [r \in Requests |-> "none"]

-----------------------------------------------------------------------------
(* generate.                                                               *)

\* Mistake: the indexes before min are not skipped.
GenerateFromZero(range) == {derived[i] : i \in {j \in Indexes : j <= range[2]}}

\* The addresses from min to max, both included.
Generate(range) ==
    {derived[i] : i \in {j \in Indexes : range[1] <= j /\ j <= range[2]}}

\* The rows are written in the order of a Go map: in any order.
Orders(addresses) == Injection(1 .. Cardinality(addresses), addresses)

\* The files that a command can leave when it succeeds,
WholeFiles(range) == Orders(Generate(range))

\* and when writing fails after a row: they look like shorter files.  A file
\* that ends within a row cannot be read.
ShortFiles(range) ==
    UNION {{SubSeq(rows, 1, n) : n \in 0 .. Len(rows) - 1} : rows \in WholeFiles(range)}

\* The files that an operator may have at hand.
FilesOf(s) == UNION {WholeFiles(range) \cup ShortFiles(range) : range \in ranges[s]}

-----------------------------------------------------------------------------
(* import.                                                                 *)

\* The file is read, and sent with the key of the satellite.  A command whose
\* file is missing or malformed ends without a request.
StartImport(s, r) ==
    /\ \E rows \in FilesOf(s) : BeginRegister(r, s, rows)
    /\ client' = [client EXCEPT ![r] = "pending"]

\* Mistake: only a call that is not answered is an error of the client.
ImportReturnsOk(r) ==
    /\ client[r] = "pending"
    /\ pc[r] \in {"ok", "failed"}
    /\ client' = [client EXCEPT ![r] = "ok"]
    /\ UNCHANGED vars

\* Any status but OK, or a lost answer, is the error of the command.
ImportReturns(r) ==
    /\ client[r] = "pending"
    /\ \/ pc[r] = "ok" /\ client' = [client EXCEPT ![r] = "ok"]
       \/ pc[r] = "failed" /\ client' = [client EXCEPT ![r] = "error"]
    /\ UNCHANGED vars

\* Every request has been answered, and every command has ended.
ImportsEnded ==
    /\ \A r \in Requests : pc[r] \in Outcomes /\ client[r] # "pending"
    /\ UNCHANGED <<vars, client>>

-----------------------------------------------------------------------------
ImportNext ==
    \/ \E r \in Requests :
         \/ (Arrive(r) \/ Step(r) \/ Fault(r)) /\ UNCHANGED client
         \/ \E s \in Satellites : StartImport(s, r)
         \/ ImportReturns(r)
    \/ ImportsEnded

ImportSpec == ImportInit /\ [][ImportNext]_<<vars, client>>

ImportFairSpec ==
    /\ ImportSpec
    /\ \A r \in Requests :
           WF_<<vars, client>>((Step(r) /\ UNCHANGED client) \/ ImportReturns(r))

-----------------------------------------------------------------------------
(* Properties.                                                             *)

\* An import that reports success has registered every row that it has sent,
\* for its own satellite or because it was a wallet already (main.go,
\* importCSV; the answer comes after the commit).
ReportedAreRegistered ==
    \A r \in Requests : client[r] = "ok" =>
        \A i \in 1 .. Len(batch[r]) : owner[batch[r][i]] # NoSatellite

\* A wallet belongs to a satellite that has generated it: its address is one
\* of the indexes from min to max that its operator has asked for.
OwnersGenerated ==
    \A a \in Addresses : owner[a] # NoSatellite =>
        \E range \in ranges[owner[a]], i \in Indexes :
            a = derived[i] /\ i \in range[1] .. range[2]

=============================================================================
