-------------------------- MODULE TokenPriceProofs --------------------------
(***************************************************************************)
(* Proofs about module TokenPrice, for every length of a minute, window,   *)
(* retention and number of concurrent requests.                            *)
(***************************************************************************)
EXTENDS TokenPrice, TLAPS

\* The remainder of a division is smaller than the divisor.
LEMMA RemainderFacts ==
    ASSUME NEW t \in Nat, NEW m \in Nat, m > 0
    PROVE  /\ t % m \in 0 .. m - 1
           /\ t = m * (t \div m) + (t % m)
<1>1. t % m \in 0 .. m - 1
  OBVIOUS
<1>2. t = m * (t \div m) + (t % m)
  OBVIOUS
<1> QED
  BY <1>1, <1>2

\* Truncation gives the begin of the minute that a time falls in.
LEMMA TruncateFacts ==
    ASSUME NEW t \in Times
    PROVE  /\ Truncate(t) \in Minutes
           /\ Truncate(t) <= t
           /\ t < Truncate(t) + Minute
<1>1. /\ t \in Nat /\ t <= MaxTime
      /\ Minute \in Nat /\ Minute > 0
  BY TimeAssumption DEF TimeAssumption, Times
<1>2. t % Minute \in 0 .. Minute - 1 /\ t = Minute * (t \div Minute) + (t % Minute)
  BY <1>1, RemainderFacts
<1>3. Truncate(t) = Minute * (t \div Minute)
  BY <1>1, <1>2 DEF Truncate
<1>4. t \div Minute \in Nat
  BY <1>1
<1>5. (Minute * (t \div Minute)) % Minute = 0
  BY <1>1, <1>4
<1> QED
  BY <1>1, <1>2, <1>3, <1>4, <1>5, TimeAssumption DEF TimeAssumption, Truncate, Minutes, Times

-----------------------------------------------------------------------------
\* Every variable always has its type.
THEOREM TypeCorrect == Spec => []TypeOK
<1> USE DEF TypeOK
<1>1. Init => TypeOK
  BY TimeAssumption DEF TimeAssumption, Init, Times
<1>2. TypeOK /\ [Next]_vars => TypeOK'
  <2> SUFFICES ASSUME TypeOK, [Next]_vars PROVE TypeOK'
    OBVIOUS
  <2> USE DEF GoTo
  <2>1. CASE Tick
    BY <2>1, TimeAssumption DEF TimeAssumption, Tick, Times
  <2>2. ASSUME NEW r \in Requests, NEW t \in Times, PriceAt(r, t) PROVE TypeOK'
    BY <2>2 DEF PriceAt
  <2>3. ASSUME NEW r \in Requests, Before(r) PROVE TypeOK'
    BY <2>3 DEF Before
  <2>4. ASSUME NEW r \in Requests, NEW quoted \in Times, GetPriceAt(r, quoted) PROVE TypeOK'
    BY <2>4 DEF GetPriceAt
  <2>5. ASSUME NEW r \in Requests, Update(r) PROVE TypeOK'
    BY <2>5 DEF Update
  <2>6. ASSUME NEW r \in Requests, Fail(r) PROVE TypeOK'
    BY <2>6 DEF Fail
  <2>7. ASSUME NEW quoted \in Times, LatestPrice(quoted) PROVE TypeOK'
    BY <2>7 DEF LatestPrice
  <2>8. CASE SavePrice
    BY <2>8 DEF SavePrice
  <2>9. CASE SaveFails
    BY <2>9 DEF SaveFails
  <2>10. CASE DeleteBefore
    BY <2>10 DEF DeleteBefore
  <2>11. CASE UNCHANGED vars
    BY <2>11 DEF vars
  <2> QED
    BY <2>1, <2>2, <2>3, <2>4, <2>5, <2>6, <2>7, <2>8, <2>9, <2>10, <2>11 DEF Next
<1> QED
  BY <1>1, <1>2, PTL DEF Spec

-----------------------------------------------------------------------------
(* The inductive invariant: a step at a time.                              *)

\* An upsert of a quote into the row of its own minute keeps the rows right.
LEMMA UpsertInv ==
    ASSUME TypeOK, QuotesInTheirMinute, NEW quoted \in Times,
           quotes' = [quotes EXCEPT ![Truncate(quoted)] = quoted]
    PROVE  QuotesInTheirMinute'
BY TruncateFacts DEF TypeOK, QuotesInTheirMinute, Minutes, Times

\* A stored price is used for timestamps after the begin of its minute only,
\* and within the window of it.
LEMMA BeforeInv ==
    ASSUME TypeOK, PriceInv, NEW r \in Requests, Before(r)
    PROVE  PriceInv'
<1>1. CASE \E m \in Minutes : /\ IsBefore(m, timestamp[r])
                             /\ timestamp[r] - m <= PriceWindow
                             /\ price' = [price EXCEPT ![r] = quotes[m]]
                             /\ GoTo(r, "ok")
  <2>1. PICK m \in Minutes : /\ IsBefore(m, timestamp[r])
                             /\ timestamp[r] - m <= PriceWindow
                             /\ price' = [price EXCEPT ![r] = quotes[m]]
                             /\ GoTo(r, "ok")
    BY <1>1
  <2>2. /\ quotes[m] # NoQuote
        /\ timestamp[r] - quotes[m] <= PriceWindow
        /\ quotes[m] - timestamp[r] < Minute
    BY <2>1, TimeAssumption
    DEF TimeAssumption, IsBefore, PriceInv, QuotesInTheirMinute, TypeOK, Minutes, Times, NoQuote
  <2>3. pc' = [pc EXCEPT ![r] = "ok"] /\ UNCHANGED <<quotes, timestamp, chore, latestPrice>>
    BY <2>1 DEF Before, GoTo
  <2> QED
    BY <2>1, <2>2, <2>3
    DEF PriceInv, QuotesInTheirMinute, PendingUpdates, PriceIsNear, TypeOK
<1>2. CASE GoTo(r, "fetch") /\ UNCHANGED price
  <2>1. UNCHANGED <<quotes, timestamp, chore, latestPrice>>
    BY DEF Before
  <2> QED
    BY <1>2, <2>1 DEF GoTo, PriceInv, QuotesInTheirMinute, PendingUpdates, PriceIsNear, TypeOK
<1> QED
  BY <1>1, <1>2 DEF Before

\* A fetched price is not newer than the timestamp, nor too old for the window.
LEMMA FetchInv ==
    ASSUME TypeOK, PriceInv, NEW r \in Requests, NEW quoted \in Times, GetPriceAt(r, quoted)
    PROVE  PriceInv'
<1>1. quoted <= timestamp[r] /\ quoted # NoQuote
  BY TruncateFacts DEF GetPriceAt, QuotesUpTo, TypeOK, Times, Minutes, NoQuote
<1>2. QuotesInTheirMinute'
  BY DEF GetPriceAt, PriceInv, QuotesInTheirMinute
<1>3. PendingUpdates'
  BY <1>1, TimeAssumption
  DEF TimeAssumption, GetPriceAt, QuotesUpTo, GoTo, PriceInv, PendingUpdates, TypeOK, Times
<1>4. PriceIsNear'
  BY DEF GetPriceAt, GoTo, PriceInv, PriceIsNear, TypeOK
<1> QED
  BY <1>2, <1>3, <1>4 DEF PriceInv

\* The fetched price is stored and returned.
LEMMA UpdateInv ==
    ASSUME TypeOK, PriceInv, NEW r \in Requests, Update(r)
    PROVE  PriceInv'
<1>1. price[r] \in Times /\ timestamp[r] \in Times
  BY DEF Update, PriceInv, PendingUpdates, TypeOK
<1>2. QuotesInTheirMinute'
  BY <1>1, UpsertInv DEF Update, PriceInv
<1>3. PendingUpdates'
  BY DEF Update, GoTo, PriceInv, PendingUpdates, TypeOK
<1>4. PriceIsNear'
  <2>1. /\ price[r] # NoQuote
        /\ timestamp[r] - price[r] <= PriceWindow
        /\ price[r] - timestamp[r] < Minute
    BY <1>1, TimeAssumption DEF TimeAssumption, Update, PriceInv, PendingUpdates, Times
  <2> QED
    BY <2>1 DEF Update, GoTo, PriceInv, PriceIsNear, TypeOK
<1> QED
  BY <1>2, <1>3, <1>4 DEF PriceInv

\* The invariant holds whatever requests, the price chore and the cleanup do.
THEOREM Invariant == Spec => [](TypeOK /\ PriceInv)
<1>1. Init => PriceInv
  BY DEF Init, PriceInv, QuotesInTheirMinute, PendingUpdates, PriceIsNear
<1>2. TypeOK /\ PriceInv /\ [Next]_vars => PriceInv'
  <2> SUFFICES ASSUME TypeOK, PriceInv, [Next]_vars PROVE PriceInv'
    OBVIOUS
  <2> USE DEF PriceInv, GoTo
  <2>1. CASE Tick \/ SaveFails \/ UNCHANGED vars
    BY <2>1 DEF Tick, SaveFails, vars, QuotesInTheirMinute, PendingUpdates, PriceIsNear
  <2>2. ASSUME NEW r \in Requests, NEW t \in Times, PriceAt(r, t) PROVE PriceInv'
    BY <2>2 DEF PriceAt, QuotesInTheirMinute, PendingUpdates, PriceIsNear, TypeOK
  <2>3. ASSUME NEW r \in Requests, Fail(r) PROVE PriceInv'
    BY <2>3 DEF Fail, QuotesInTheirMinute, PendingUpdates, PriceIsNear, TypeOK
  <2>4. ASSUME NEW quoted \in Times, LatestPrice(quoted) PROVE PriceInv'
    BY <2>4 DEF LatestPrice, QuotesInTheirMinute, PendingUpdates, PriceIsNear, Times, NoQuote
  <2>5. CASE SavePrice
    <3>1. latestPrice \in Times
      BY <2>5 DEF SavePrice, PendingUpdates, TypeOK
    <3>2. QuotesInTheirMinute'
      BY <2>5, <3>1, UpsertInv DEF SavePrice
    <3> QED
      BY <2>5, <3>2 DEF SavePrice, PendingUpdates, PriceIsNear
  <2>6. CASE DeleteBefore
    BY <2>6 DEF DeleteBefore, QuotesInTheirMinute, PendingUpdates, PriceIsNear
  <2> QED
    BY <2>1, <2>2, <2>3, <2>4, <2>5, <2>6, BeforeInv, FetchInv, UpdateInv DEF Next
<1> QED
  BY <1>1, <1>2, TypeCorrect, PTL DEF Spec

\* With a window of a minute or more every price is in the window of its block:
\* the configuration's default keeps what its help text says.
THEOREM WindowIsHonoured ==
    ASSUME PriceWindow >= Minute
    PROVE  Spec => []WindowHonoured
<1>1. TypeOK /\ PriceInv => WindowHonoured
  BY TimeAssumption
  DEF TimeAssumption, PriceInv, PriceIsNear, WindowHonoured, TypeOK, Times, NoQuote
<1> QED
  BY <1>1, Invariant, PTL

=============================================================================
