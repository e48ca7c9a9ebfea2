---------------------------- MODULE MCTradeFlow -----------------------------
EXTENDS TradeFlow, TLC

CONSTANTS o1, o2, acct, b1

\* Nothing tells two orders of one account apart.
Symmetry == Permutations(Orders)

MCScopeOf == [o \in Orders |-> acct]
MCOnboarded == [n \in Names |-> IF n[1] = "broker" THEN {b1} ELSE Keys]
MCTwoKeys == [n \in Names |-> IF n[1] = "broker" THEN {b1} ELSE {1, 2}]

MCTerms == {[qty |-> 2, price |-> 100, instrument |-> "BTC buy"]}
MCFill == [qty |-> 2, price |-> 102, instrument |-> "BTC buy"]
MCFills == {MCFill}
MCTwoFills == {MCFill, [MCFill EXCEPT !.qty = 3]}
MCNaNFills == {[MCFill EXCEPT !.qty = NaN]}
=============================================================================
