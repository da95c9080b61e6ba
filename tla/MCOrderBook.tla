---------------------------- MODULE MCOrderBook ----------------------------
(* Small instances of OrderBook: the orders that requests carry.           *)
EXTENDS OrderBookRefinement

CONSTANTS s1, s2, console, o1, o2, o3, o4, free, none

OneSession  == {s1}
TwoSessions == {s1, s2}
NoConsole   == {}
Console     == {console}
TwoIds      == {o1, o2}
ThreeIds    == {o1, o2, o3}
FourIds     == {o1, o2, o3, o4}

New(side, type, tif, price, stop, qty) == MakeOrder(side, type, tif, price, stop, qty, qty)

LimitBuy(price, qty)  == New("BUY", "LIMIT", "DAY", price, 0, qty)
LimitSell(price, qty) == New("SELL", "LIMIT", "DAY", price, 0, qty)

(* Two prices, two quantities, an iceberg and a short sale.                *)
LimitOrders ==
  {LimitBuy(1, 2), LimitBuy(2, 1), LimitSell(1, 1), LimitSell(2, 2),
   MakeOrder("SELL_SHORT", "LIMIT", "DAY", 1, 0, 2, 1)}

MarketAndIoc ==
  {New("BUY", "MARKET", "DAY", 0, 0, 2), New("SELL", "MARKET", "DAY", 0, 0, 1),
   New("BUY", "LIMIT", "IOC", 2, 0, 2)}

PlainOrders == LimitOrders \cup MarketAndIoc

(* A smaller quantity, another price, a market order, an IOC order.        *)
Replacements ==
  {LimitBuy(1, 1), LimitSell(1, 2), New("SELL", "MARKET", "DAY", 0, 0, 3),
   New("BUY", "LIMIT", "IOC", 1, 0, 2)}

Cancels == {LimitBuy(1, 1), LimitSell(1, 1)}

(* Stop sells at 1 rest only after a trade at 2.                           *)
StopSells ==
  {New("SELL", "STOP", "DAY", 0, 1, 1), New("SELL", "STOP_LIMIT", "DAY", 1, 1, 2)}
StopBuys  ==
  {New("BUY", "STOP", "DAY", 0, 1, 2), New("BUY", "STOP_LIMIT", "DAY", 2, 2, 1)}

StopOrders ==
  {LimitBuy(2, 3), LimitBuy(1, 1), LimitSell(1, 1), LimitSell(2, 2),
   New("BUY", "MARKET", "DAY", 0, 0, 2), New("SELL", "LIMIT", "IOC", 2, 0, 3)}
  \cup StopSells \cup StopBuys
StopChanges == {New("SELL", "STOP_LIMIT", "DAY", 2, 1, 2), LimitBuy(1, 3)}
StopCancels == {New("SELL", "STOP", "DAY", 0, 1, 1), LimitSell(1, 1)}

(* Two sessions: the smallest set that trades, overtakes and moves orders; *)
(* two replaces of one order can meet.                                     *)
RaceOrders  == {LimitBuy(1, 2), LimitSell(1, 1)}
RaceChanges == {LimitBuy(1, 2), LimitBuy(2, 1)}
RaceCancels == {LimitBuy(1, 1)}

Symmetry3 == Permutations(ThreeIds)
Symmetry4 == Permutations(FourIds)
Nothing == {}

(* The orders that break a promise.                                        *)
StopBuyOrders == {LimitBuy(1, 2), LimitSell(1, 1), New("BUY", "STOP", "DAY", 0, 1, 1)}
OneLevel      == {LimitBuy(1, 1), LimitSell(1, 1)}
IocStopLimit  == {New("BUY", "STOP_LIMIT", "IOC", 2, 2, 1)}
StopLimitBuy  == {New("BUY", "STOP_LIMIT", "DAY", 2, 2, 2)}
=============================================================================
