SPECIFICATION InvestmentsSpec
CONSTANTS
  p1 = p1 aapl = aapl
  Positions = {p1}
  Tickers = {aapl}
  TickerOf <- OneTicker
  Calls = {h1, h2, h3}
  Amounts = {0, 2}
  Quantities = {1, 2}
  PriceAt <- Market
  Holdings0 <- TwoShares
  _PRICE_CACHE_TTL_SECONDS = 2
  Null = Null
  MaxTime = 3
  MaxCrashes = 1
INVARIANTS PositionsMatchOrders FreshPricesAreRecent
SYMMETRY CallSymmetry
CHECK_DEADLOCK FALSE
