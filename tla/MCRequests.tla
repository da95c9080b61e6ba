----------------------------- MODULE MCRequests -----------------------------
(* Messages of every kind, with prices and quantities in halves: complete  *)
(* ones, icebergs, ones that lack a field and ones with a side, type or    *)
(* time in force that is not handled.                                      *)
EXTENDS Requests

CONSTANT absent

Message(side, type, tif, price, stopPx, qty, maxFloor) ==
  [side |-> side, type |-> type, tif |-> tif, price |-> price, stopPx |-> stopPx,
   qty |-> qty, maxFloor |-> maxFloor]

News ==
  {Message("BUY", "LIMIT", absent, 3, absent, 6, absent),
   Message("SELL", "MARKET", "IOC", absent, absent, 4, absent),
   Message("SELL_SHORT", "LIMIT", "FILL_OR_KILL", 3, absent, 7, 2),
   Message("BUY", "STOP_LIMIT", "DAY", 4, 2, 4, absent),
   Message("BUY", "STOP", absent, absent, absent, 2, absent),
   Message("BUY", "LIMIT", absent, absent, absent, 2, absent),
   Message("BUY_MINUS", "LIMIT", absent, 2, absent, 2, absent),
   Message("BUY", "ON_CLOSE", absent, 2, absent, 2, absent)}

Replaces ==
  {Message("BUY", "LIMIT", absent, 3, absent, 1, absent),
   Message("BUY", "LIMIT", absent, 4, absent, 7, absent),
   Message("SELL", "LIMIT", "DAY", 3, absent, 5, 4),
   Message("BUY", "STOP", "DAY", absent, absent, 6, absent)}

Cancels ==
  {Message("BUY", "LIMIT", absent, absent, absent, 2, absent),
   Message("BUY_MINUS", "LIMIT", absent, absent, absent, 2, absent)}

TradePrices == {1, 2, 4}
=============================================================================
