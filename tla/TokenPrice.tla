----------------------------- MODULE TokenPrice -----------------------------
(***************************************************************************)
(* The token price at a block's timestamp: tokenprice/service.go (PriceAt),*)
(* tokenprice/chore.go (the chore that stores the latest price),           *)
(* tokenprice/cleanup/chore.go and storjscandb/tokenprice.go.              *)
(*                                                                         *)
(* Time is counted in ticks, Minute of them in a minute.  A price is named *)
(* by the time at which it was quoted, so a property can tell how old the  *)
(* price of a payment is.  The table token_prices has one row for each     *)
(* minute; the row does not say when in the minute its price was quoted.   *)
(*                                                                         *)
(* A definition whose comment begins with "Mistake" is the definition      *)
(* after it as a plausible error in the code would make it; no             *)
(* specification uses it.                                                  *)
(***************************************************************************)
EXTENDS Integers

CONSTANTS
    Requests,     \* concurrent conversions of payments
    Minute,       \* ticks of a minute
    PriceWindow,  \* the configured window, in ticks
    Retain,       \* how long the cleanup chore keeps a row
    MaxTime       \* bound: the last tick

ASSUME TimeAssumption ==
    /\ Minute \in Nat \ {0}
    /\ PriceWindow \in Nat
    /\ Retain \in Nat
    /\ MaxTime \in Nat

Times   == 0 .. MaxTime
Minutes == {t \in Times : t % Minute = 0}
NoQuote == -1

\* time.Truncate(time.Minute)
Truncate(t) == t - (t % Minute)

VARIABLES
    now,         \* the clock
    quotes,      \* token_prices: the price stored for each minute
    pc,          \* the next step of each PriceAt
    timestamp,   \* the timestamp that it was asked for
    price,       \* the price that it has
    chore,       \* the next step of the price chore
    latestPrice  \* the price that the chore has fetched

vars == <<now, quotes, pc, timestamp, price, chore, latestPrice>>

\* One type invariant: a row or a local holds the time of a quote, or none.
TypeOK ==
    /\ now \in Times
    /\ quotes \in [Minutes -> Times \cup {NoQuote}]
    /\ pc \in [Requests -> {"idle", "before", "fetch", "update", "ok", "failed"}]
    /\ timestamp \in [Requests -> Times]
    /\ price \in [Requests -> Times \cup {NoQuote}]
    /\ chore \in {"wait", "save"}
    /\ latestPrice \in Times \cup {NoQuote}

Init ==
    /\ now = 0
    /\ quotes = [m \in Minutes |-> NoQuote]
    /\ pc = [r \in Requests |-> "idle"]
    /\ timestamp = [r \in Requests |-> 0]
    /\ price = [r \in Requests |-> NoQuote]
    /\ chore = "wait"
    /\ latestPrice = NoQuote

-----------------------------------------------------------------------------
\* The price source has quotes of all times; none that it returns was quoted
\* after the time it is asked about.
QuotesUpTo(time) == {quoted \in Times : quoted <= time}

GoTo(r, step) == pc' = [pc EXCEPT ![r] = step]

\* The time passes.
Tick ==
    /\ now < MaxTime
    /\ now' = now + 1
    /\ UNCHANGED <<quotes, pc, timestamp, price, chore, latestPrice>>

\* The price of a block that has been mined.
PriceAt(r, t) ==
    /\ pc[r] \in {"idle", "ok", "failed"}
    /\ t <= now
    /\ timestamp' = [timestamp EXCEPT ![r] = t]
    /\ price' = [price EXCEPT ![r] = NoQuote]
    /\ GoTo(r, "before")
    /\ UNCHANGED <<now, quotes, chore, latestPrice>>

\* The row of the last minute that begins before t.
IsBefore(m, t) ==
    /\ quotes[m] # NoQuote
    /\ m < t
    /\ \A n \in Minutes : quotes[n] # NoQuote /\ n < t => n <= m

\* The stored price is used if its minute began within the window; with no
\* quote at all its age is that of the zero time, beyond any window.
Before(r) ==
    /\ pc[r] = "before"
    /\ \/ \E m \in Minutes :
            /\ IsBefore(m, timestamp[r])
            /\ timestamp[r] - m <= PriceWindow
            /\ price' = [price EXCEPT ![r] = quotes[m]]
            /\ GoTo(r, "ok")
       \/ /\ \A m \in Minutes : IsBefore(m, timestamp[r]) => timestamp[r] - m > PriceWindow
          /\ GoTo(r, "fetch")
          /\ UNCHANGED price
    /\ UNCHANGED <<now, quotes, timestamp, chore, latestPrice>>

\* Mistake: a quote of any age is taken.
GetPriceAtAnyAge(r, quoted) ==
    /\ pc[r] = "fetch"
    /\ quoted \in QuotesUpTo(Truncate(timestamp[r]))
    /\ GoTo(r, "update")
    /\ price' = [price EXCEPT ![r] = quoted]
    /\ UNCHANGED <<now, quotes, timestamp, chore, latestPrice>>

\* The price source answers with its last quote up to the time it is given; the
\* quote has to be in the window of the timestamp itself.
GetPriceAt(r, quoted) ==
    /\ pc[r] = "fetch"
    /\ quoted \in QuotesUpTo(Truncate(timestamp[r]))
    /\ IF timestamp[r] - quoted > PriceWindow
       THEN GoTo(r, "failed") /\ UNCHANGED price
       ELSE GoTo(r, "update") /\ price' = [price EXCEPT ![r] = quoted]
    /\ UNCHANGED <<now, quotes, timestamp, chore, latestPrice>>

\* Mistake: the row is written for the time of the quote, not for its minute.
UpdateUnrounded(r) ==
    /\ pc[r] = "update"
    /\ quotes' = [m \in Minutes \cup {price[r]} |-> IF m = price[r] THEN price[r] ELSE quotes[m]]
    /\ GoTo(r, "ok")
    /\ UNCHANGED <<now, timestamp, price, chore, latestPrice>>

\* The upsert replaces what another request or the chore has stored.
Update(r) ==
    /\ pc[r] = "update"
    /\ quotes' = [quotes EXCEPT ![Truncate(price[r])] = price[r]]
    /\ GoTo(r, "ok")
    /\ UNCHANGED <<now, timestamp, price, chore, latestPrice>>

\* The database or the price source fails a call.
Fail(r) ==
    /\ pc[r] \in {"before", "fetch", "update"}
    /\ GoTo(r, "failed")
    /\ price' = [price EXCEPT ![r] = NoQuote]
    /\ UNCHANGED <<now, quotes, timestamp, chore, latestPrice>>

-----------------------------------------------------------------------------
\* RunOnce of the price chore: the source's latest quote, which may be old.
LatestPrice(quoted) ==
    /\ chore = "wait"
    /\ quoted \in QuotesUpTo(now)
    /\ latestPrice' = quoted
    /\ chore' = "save"
    /\ UNCHANGED <<now, quotes, pc, timestamp, price>>

\* Mistake: the row is written for the minute of the clock, not of the quote.
SavePriceNow ==
    /\ chore = "save"
    /\ quotes' = [quotes EXCEPT ![Truncate(now)] = latestPrice]
    /\ chore' = "wait"
    /\ UNCHANGED <<now, pc, timestamp, price, latestPrice>>

SavePrice ==
    /\ chore = "save"
    /\ quotes' = [quotes EXCEPT ![Truncate(latestPrice)] = latestPrice]
    /\ chore' = "wait"
    /\ UNCHANGED <<now, pc, timestamp, price, latestPrice>>

\* An error is logged and the chore waits for its next cycle.
SaveFails ==
    /\ chore = "save"
    /\ chore' = "wait"
    /\ UNCHANGED <<now, quotes, pc, timestamp, price, latestPrice>>

\* RunOnce of the cleanup chore.
DeleteBefore ==
    /\ \E m \in Minutes : quotes[m] # NoQuote /\ m < now - Retain
    /\ quotes' = [m \in Minutes |-> IF m < now - Retain THEN NoQuote ELSE quotes[m]]
    /\ UNCHANGED <<now, pc, timestamp, price, chore, latestPrice>>

-----------------------------------------------------------------------------
Next ==
    \/ Tick
    \/ \E r \in Requests :
         \/ \E t \in Times : PriceAt(r, t)
         \/ Before(r)
         \/ \E quoted \in Times : GetPriceAt(r, quoted)
         \/ Update(r)
         \/ Fail(r)
    \/ \E quoted \in Times : LatestPrice(quoted)
    \/ SavePrice
    \/ SaveFails
    \/ DeleteBefore

Spec == Init /\ [][Next]_vars

-----------------------------------------------------------------------------
(* Properties.                                                             *)

\* A payment is valued with a price quoted within PriceWindow of its block,
\* before or after it, whoever stored the price and whatever replaced it
\* between (tokenprice/config.go, PriceWindow).
WindowHonoured ==
    \A r \in Requests : pc[r] = "ok" =>
        /\ price[r] # NoQuote
        /\ timestamp[r] - price[r] <= PriceWindow
        /\ price[r] - timestamp[r] <= PriceWindow

\* The row of a minute holds a price that was quoted in that minute.
QuotesInTheirMinute ==
    \A m \in Minutes : quotes[m] # NoQuote => m <= quotes[m] /\ quotes[m] < m + Minute

\* What a PriceAt or the chore is about to store is a quote, in the window.
PendingUpdates ==
    /\ \A r \in Requests : pc[r] = "update" =>
           /\ price[r] # NoQuote
           /\ price[r] <= timestamp[r]
           /\ timestamp[r] - price[r] <= PriceWindow
    /\ chore = "save" => latestPrice # NoQuote

\* The price is never older than the window, and newer by less than a minute.
PriceIsNear ==
    \A r \in Requests : pc[r] = "ok" =>
        /\ price[r] # NoQuote
        /\ timestamp[r] - price[r] <= PriceWindow
        /\ price[r] - timestamp[r] < Minute

\* The inductive invariant.
PriceInv == QuotesInTheirMinute /\ PendingUpdates /\ PriceIsNear

=============================================================================
