------------------------ MODULE MCSupermarketBrowse ------------------------
(***************************************************************************)
(* Instances of SupermarketBrowse for TLC: catalogues of two and three     *)
(* cookbooks under two sorts and one or two search texts.                  *)
(***************************************************************************)
EXTENDS SupermarketBrowse

TwoOrder == [most |-> <<1, 2>>, alpha |-> <<2, 1>>]
TwoHits == [a |-> <<2>>, b |-> <<>>]

ThreeOrder == [most |-> <<1, 2, 3>>, alpha |-> <<3, 2, 1>>]
ThreeHits == [a |-> <<1, 2, 3>>]
=============================================================================
