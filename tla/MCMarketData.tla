---------------------------- MODULE MCMarketData ----------------------------
(* Two levels instead of five; the long lists have equal prices and more   *)
(* prices than levels.                                                     *)
EXTENDS MarketData

CONSTANTS w1, c1, nothing

OneWriter == {w1}
OneClient == {c1}

Entry(price, qty) == [price |-> price, qty |-> qty]

Bids   == {<<>>, <<Entry(3, 1), Entry(3, 2), Entry(2, 1), Entry(1, 1), Entry(1, 2)>>}
Offers == {<<>>, <<Entry(4, 1), Entry(5, 2), Entry(5, 1)>>}

ShortBids == {<<>>, <<Entry(3, 1)>>, <<Entry(3, 1), Entry(2, 1)>>}
NoOffers  == {<<>>}
AnyLevel  == {NoLevel, Entry(9, 9)}
=============================================================================
