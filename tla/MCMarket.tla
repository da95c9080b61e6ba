------------------------------ MODULE MCMarket ------------------------------
(* Two sessions, two securities that are numbers and one that is not, and  *)
(* a spare book for a creation too many.                                   *)
EXTENDS Market

CONSTANTS s1, s2, ibm, dell, abc, b1, b2, b3, o1, o2, o3, free, none

TwoSessions   == {s1, s2}
Numbers       == {ibm, dell}
AllSecurities == {ibm, dell, abc}
ThreeBooks    == {b1, b2, b3}
TwoIds        == {o1, o2}
ThreeIds      == {o1, o2, o3}
=============================================================================
