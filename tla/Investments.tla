---------------------------- MODULE Investments ----------------------------
(***************************************************************************)
(* Members' stock and ETF positions (routers/investments.py) and the price *)
(* cache they are valued by (services/dspp.py).                            *)
(*                                                                         *)
(* The handlers are coroutines of one event loop and suspend only while a  *)
(* price is fetched; loop names the one that runs without a suspension.    *)
(* An order and the position it changes are committed one after the other, *)
(* and the process may be restarted in between.  A sale keeps the position *)
(* it has loaded before the fetch, and writes the columns that differ from *)
(* what it loaded; a purchase reads the position after it.                 *)
(*                                                                         *)
(* The order is never sent anywhere: the providers are stubs that answer   *)
(* "pending_manual_execution", and the router of investments_full.py is    *)
(* not mounted.  Shares are counted in the smallest unit of their column.  *)
(***************************************************************************)
EXTENDS Integers, FiniteSets

CONSTANTS
  Positions,    \* one member's positions
  Tickers, TickerOf, \* the security of each position
  Calls,        \* requests to buy, to sell, to see the portfolio or a quote
  Amounts,      \* cents a purchase may spend; below a cent it is truncated to 0
  Quantities,   \* shares a sale may ask for
  PriceAt,      \* the market's price at each time
  Holdings0,    \* the positions there are at the start
  _PRICE_CACHE_TTL_SECONDS,
  Null,
  MaxTime, MaxCrashes \* bounds on the clock and on restarts

Times == 0 .. MaxTime

ASSUME TickersAssumption == TickerOf \in [Positions -> Tickers]
ASSUME InputsAssumption  == Amounts \subseteq Nat /\ Quantities \subseteq Nat \ {0}
ASSUME PricesAssumption  == PriceAt \in [Times -> Nat \ {0}]
ASSUME BoundsAssumption  == {MaxTime, MaxCrashes, _PRICE_CACHE_TTL_SECONDS} \subseteq Nat
ASSUME CallsAssumption   == Null \notin Calls

(* The rows of InvestmentHolding and the entries of the cache *)
Rows    == [id : Nat, quantity : Nat, basis : Nat, price : Nat]
Entries == [quoted : Times, stamp : Times]

ASSUME HoldingsAssumption ==
  /\ IsFiniteSet(Positions) /\ Holdings0 \in [Positions -> Rows \cup {Null}]
  /\ Null \notin Rows /\ Null \notin Entries /\ Null \notin Times

VARIABLES
  now,        \* time.time()
  cache,      \* _PRICE_CACHE: when a price was quoted and its stamp, or Null
  holding,    \* InvestmentHolding of each position, or Null
  made,       \* rows of InvestmentHolding so far: the next one's id
  loop,       \* the call the event loop runs, or Null
  pc, call,   \* what each call does next, and its local variables
  bought, sold, spent, \* history: the committed InvestmentOrder rows, summed
  disturbed,  \* history: positions where a sale was overtaken or cut off
  crashes

books == <<holding, made>>
tasks == <<loop, pc, call>>
orders == <<bought, sold, spent>>
investmentsVars == <<now, cache, books, tasks, orders, disturbed, crashes>>

NoCall == [kind |-> "none", position |-> Null, asked |-> 0, began |-> 0,
           cached |-> Null, row |-> Null, quoted |-> Null]

Row(i, q, b, p) == [id |-> i, quantity |-> q, basis |-> b, price |-> p]

Ticker(h) == TickerOf[call[h].position]
Price(h)  == IF call[h].quoted = Null THEN 0 ELSE PriceAt[call[h].quoted]

Shares(p) == IF holding[p] = Null THEN 0 ELSE holding[p].quantity
Basis(p)  == IF holding[p] = Null THEN 0 ELSE holding[p].basis

InvestmentsInit ==
  /\ now = 0
  /\ cache = [t \in Tickers |-> Null]
  /\ holding = Holdings0
  /\ made = Cardinality(Positions)
  /\ loop = Null
  /\ pc = [h \in Calls |-> "idle"]
  /\ call = [h \in Calls |-> NoCall]
  /\ bought = [p \in Positions |-> Shares(p)]
  /\ sold = [p \in Positions |-> 0]
  /\ spent = [p \in Positions |-> Basis(p)]
  /\ disturbed = {} /\ crashes = 0

----------------------------------------------------------------------------
(* get_price_cached *)

Fresh(entry) == entry # Null /\ now - entry.stamp < _PRICE_CACHE_TTL_SECONDS

(* The first part of a handler and the look into the cache: a fresh price  *)
(* is served at once, and the handler goes on; otherwise it suspends.      *)
Begin(h, k) ==
  LET entry == cache[TickerOf[k.position]]
  IN  /\ loop = Null /\ pc[h] = "idle"
      /\ IF Fresh(entry)
         THEN /\ loop' = h
              /\ pc' = [pc EXCEPT ![h] = "priced"]
              /\ call' = [call EXCEPT ![h] = [k EXCEPT !.quoted = entry.quoted]]
         ELSE /\ pc' = [pc EXCEPT ![h] = "fetching"]
              /\ call' = [call EXCEPT ![h] = [k EXCEPT !.began = now, !.cached = entry]]
              /\ UNCHANGED loop
      /\ UNCHANGED <<now, cache, books, orders, disturbed, crashes>>

(* Mutant: the entry is stamped when the answer arrives. *)
StampLate(h) == now

(* The time get_price_cached read before it asked *)
Stamp(h) == call[h].began

(* The provider's answer: a price quoted while the call waited. *)
AnswerPrice(h, q) ==
  /\ loop = Null /\ pc[h] = "fetching"
  /\ call[h].began <= q /\ q <= now
  /\ cache' = [cache EXCEPT ![Ticker(h)] = [quoted |-> q, stamp |-> Stamp(h)]]
  /\ call' = [call EXCEPT ![h].quoted = q]
  /\ pc' = [pc EXCEPT ![h] = "priced"]
  /\ loop' = h
  /\ UNCHANGED <<now, books, orders, disturbed, crashes>>

(* No answer, or none with a price: the entry there was, however old. *)
NoAnswer(h) ==
  /\ loop = Null /\ pc[h] = "fetching"
  /\ call' = [call EXCEPT ![h].quoted = IF call[h].cached = Null THEN Null ELSE call[h].cached.quoted]
  /\ pc' = [pc EXCEPT ![h] = "priced"]
  /\ loop' = h
  /\ UNCHANGED <<now, cache, books, orders, disturbed, crashes>>

Return(h) ==
  /\ loop' = Null
  /\ pc' = [pc EXCEPT ![h] = "done"]
  /\ call' = [call EXCEPT ![h] = NoCall]

(* A sale is under way with a row it loaded before: a write now makes that *)
(* row out of date.                                                        *)
Overtakes(h, p) ==
  \E g \in Calls \ {h} : call[g].kind = "sell" /\ call[g].position = p

Write(h, p, row) ==
  /\ holding' = [holding EXCEPT ![p] = row]
  /\ disturbed' = IF Overtakes(h, p) THEN disturbed \cup {p} ELSE disturbed

----------------------------------------------------------------------------
(* place_buy_order *)

BeginBuy(h, p, cents) ==
  Begin(h, [NoCall EXCEPT !.kind = "buy", !.position = p, !.asked = cents])

Bought(h) == call[h].asked \div Price(h)

(* Without a price the purchase is refused. *)
RefuseBuy(h) ==
  /\ loop = h /\ pc[h] = "priced" /\ call[h].kind = "buy" /\ Price(h) = 0
  /\ Return(h)
  /\ UNCHANGED <<now, cache, books, orders, disturbed, crashes>>

(* The order is committed. *)
OrderBuy(h) ==
  LET p == call[h].position
  IN  /\ loop = h /\ pc[h] = "priced" /\ call[h].kind = "buy" /\ Price(h) > 0
      /\ bought' = [bought EXCEPT ![p] = @ + Bought(h)]
      /\ spent' = [spent EXCEPT ![p] = @ + call[h].asked]
      /\ pc' = [pc EXCEPT ![h] = "ordered"]
      /\ UNCHANGED <<now, cache, books, loop, call, sold, disturbed, crashes>>

(* Then the position, read now, is made or grows. *)
BookBuy(h) ==
  LET p == call[h].position
      old == holding[p]
  IN  /\ loop = h /\ pc[h] = "ordered" /\ call[h].kind = "buy"
      /\ IF old = Null
         THEN Write(h, p, Row(made + 1, Bought(h), call[h].asked, Price(h))) /\ made' = made + 1
         ELSE /\ Write(h, p, Row(old.id, old.quantity + Bought(h), old.basis + call[h].asked, Price(h)))
              /\ UNCHANGED made
      /\ Return(h)
      /\ UNCHANGED <<now, cache, orders, crashes>>

----------------------------------------------------------------------------
(* place_sell_order *)

(* The position is loaded, and has to cover the sale. *)
BeginSell(h, p, q) ==
  /\ holding[p] # Null /\ q <= holding[p].quantity
  /\ Begin(h, [NoCall EXCEPT !.kind = "sell", !.position = p, !.asked = q, !.row = holding[p]])

StillThere(h) ==
  LET p == call[h].position
  IN  holding[p] # Null /\ holding[p].id = call[h].row.id

(* The order is committed, unless the position it names is gone. *)
OrderSell(h) ==
  /\ loop = h /\ pc[h] = "priced" /\ call[h].kind = "sell"
  /\ IF StillThere(h)
     THEN /\ sold' = [sold EXCEPT ![call[h].position] = @ + call[h].asked]
          /\ pc' = [pc EXCEPT ![h] = "ordered"]
          /\ UNCHANGED <<loop, call>>
     ELSE Return(h) /\ UNCHANGED sold
  /\ UNCHANGED <<now, cache, books, bought, spent, disturbed, crashes>>

(* round, which rounds a half to the even neighbour *)
Rounded(n, d) ==
  LET whole == n \div d
      rest  == 2 * (n % d)
  IN  IF rest > d \/ (rest = d /\ whole % 2 = 1) THEN whole + 1 ELSE whole

(* A column is written when its value differs from the one loaded. *)
Column(new, loaded, current) == IF new = loaded THEN current ELSE new

(* What the sale makes of the position: less of it, or nothing *)
Remaining(h) ==
  LET row  == call[h].row
      old  == holding[call[h].position]
      left == row.quantity - call[h].asked
      cost == Rounded(row.basis * left, row.quantity)
      last == IF Price(h) > 0 THEN Price(h) ELSE row.price
  IN  IF left <= 0 THEN Null
      ELSE Row(old.id, left, Column(cost, row.basis, old.basis), Column(last, row.price, old.price))

BookSell(h) ==
  /\ loop = h /\ pc[h] = "ordered" /\ call[h].kind = "sell"
  /\ Write(h, call[h].position, Remaining(h))
  /\ Return(h)
  /\ UNCHANGED <<now, cache, made, orders, crashes>>

----------------------------------------------------------------------------
(* get_portfolio, for one of the positions it goes through *)

BeginView(h, p) ==
  /\ holding[p] # Null
  /\ Begin(h, [NoCall EXCEPT !.kind = "view", !.position = p, !.row = holding[p]])

(* Mutant: the whole row is written back as it was loaded. *)
SaveRow(h) == [call[h].row EXCEPT !.price = Price(h)]

(* The price, when there is one that the loaded row does not have yet *)
SavePrice(h) ==
  LET old == holding[call[h].position]
  IN  [old EXCEPT !.price = Column(Price(h), call[h].row.price, old.price)]

(* The commit; it fails when the row is gone. *)
View(h) ==
  LET p == call[h].position
  IN  /\ loop = h /\ pc[h] = "priced" /\ call[h].kind = "view"
      /\ holding' = IF StillThere(h) /\ Price(h) > 0 THEN [holding EXCEPT ![p] = SavePrice(h)] ELSE holding
      /\ Return(h)
      /\ UNCHANGED <<now, cache, made, orders, disturbed, crashes>>

----------------------------------------------------------------------------
(* get_security_detail and get_quote: plain functions, which fetch in an   *)
(* event loop of their own while the other one goes on                     *)

BeginQuote(h, p) ==
  /\ pc[h] = "idle" /\ ~ Fresh(cache[TickerOf[p]])
  /\ pc' = [pc EXCEPT ![h] = "quoting"]
  /\ call' = [call EXCEPT ![h] = [NoCall EXCEPT !.kind = "quote", !.position = p, !.began = now]]
  /\ UNCHANGED <<now, cache, books, loop, orders, disturbed, crashes>>

AnswerQuote(h, q) ==
  /\ pc[h] = "quoting"
  /\ call[h].began <= q /\ q <= now
  /\ cache' = [cache EXCEPT ![Ticker(h)] = [quoted |-> q, stamp |-> Stamp(h)]]
  /\ pc' = [pc EXCEPT ![h] = "done"]
  /\ call' = [call EXCEPT ![h] = NoCall]
  /\ UNCHANGED <<now, books, loop, orders, disturbed, crashes>>

----------------------------------------------------------------------------

Tick ==
  /\ now < MaxTime /\ now' = now + 1
  /\ UNCHANGED <<cache, books, tasks, orders, disturbed, crashes>>

(* The process restarts: the cache is in memory, and requests under way    *)
(* end where they are.                                                     *)
Crash ==
  /\ crashes < MaxCrashes /\ crashes' = crashes + 1
  /\ cache' = [t \in Tickers |-> Null]
  /\ disturbed' = disturbed \cup {call[h].position : h \in {g \in Calls : pc[g] = "ordered"}}
  /\ loop' = Null
  /\ pc' = [h \in Calls |-> IF pc[h] = "idle" THEN "idle" ELSE "done"]
  /\ call' = [h \in Calls |-> NoCall]
  /\ UNCHANGED <<now, books, orders>>

Arrive(h) ==
  \E p \in Positions : \/ \E cents \in Amounts : BeginBuy(h, p, cents)
                       \/ \E q \in Quantities : BeginSell(h, p, q)
                       \/ BeginView(h, p) \/ BeginQuote(h, p)

Step(h) ==
  \/ \E q \in Times : AnswerPrice(h, q) \/ AnswerQuote(h, q)
  \/ NoAnswer(h) \/ RefuseBuy(h) \/ OrderBuy(h) \/ BookBuy(h)
  \/ OrderSell(h) \/ BookSell(h) \/ View(h)

InvestmentsNext ==
  \/ \E h \in Calls : Arrive(h) \/ Step(h)
  \/ Tick \/ Crash

InvestmentsSpec == InvestmentsInit /\ [][InvestmentsNext]_investmentsVars

----------------------------------------------------------------------------
(* Properties that hold *)

(* Every variable holds what its column or local variable may hold; a call *)
(* that has its price runs, and nothing else does.                         *)
InvestmentsTypeOK ==
  /\ now \in Times /\ made \in Nat /\ crashes \in 0 .. MaxCrashes
  /\ \A t \in Tickers : cache[t] # Null => {cache[t].quoted, cache[t].stamp} \subseteq Times
  /\ \A p \in Positions : {Shares(p), Basis(p)} \subseteq Nat
  /\ loop \in Calls \cup {Null}
  /\ pc \in [Calls -> {"idle", "fetching", "quoting", "priced", "ordered", "done"}]
  /\ \A h \in Calls : pc[h] \in {"priced", "ordered"} <=> loop = h
  /\ {bought, sold, spent} \subseteq [Positions -> Nat]
  /\ disturbed \subseteq Positions

(* A position is exactly what its orders add up to, between calls, as long *)
(* as no sale of it was overtaken by another write or cut off by a         *)
(* restart: purchases may overlap each other and any number of portfolio   *)
(* views.                                                                  *)
PositionsMatchOrders ==
  /\ InvestmentsTypeOK
  /\ \A p \in Positions \ disturbed :
       (\A h \in Calls : call[h].position = p => pc[h] # "ordered") => Shares(p) = bought[p] - sold[p]

(* A price that is served from the cache without asking was quoted less    *)
(* than the cache's time to live ago, however long the answer took.        *)
FreshPricesAreRecent ==
  \A t \in Tickers : Fresh(cache[t]) => now - cache[t].quoted < _PRICE_CACHE_TTL_SECONDS

----------------------------------------------------------------------------
(* A property the orders suggest and the code refutes: two sales that      *)
(* both loaded the position before either was booked sell the same shares. *)
NothingIsSoldTwice == \A p \in Positions : sold[p] + Shares(p) <= bought[p]
=============================================================================
