---------------------------- MODULE MCBacktestRun ----------------------------
(* Small instances of BacktestRun for TLC. *)
EXTENDS BacktestRun

\* Two tokens; the market of "no" resolves at time 2 with a payout of 3 ticks.
MCTokens == {"yes", "no"}
MCResolution == [t \in {"no"} |-> [time |-> 2, price |-> 6]]

\* A book from its asks and bids at the prices 1, 2, 3.
Book(asks, bids) == [s \in Sides |-> IF s = "BUY" THEN asks ELSE bids]
MCSnapshots == {Book(<<0, 0, 2>>, <<1, 1, 0>>), Book(<<0, 1, 0>>, <<2, 0, 0>>)}

Buy(t, raw, size, tif) ==
    [token |-> t, side |-> "BUY", raw |-> raw, size |-> size, tif |-> tif, postOnly |-> FALSE]
MCRequests == {Buy("yes", 5, 2, "IOC"), Buy("no", 6, 1, "GTC"), Buy("yes", 2, 2, "GTC")}

Emit(r, time) == [request |-> r, emitted |-> time]
MCIntentLists ==
    {<<Emit(a, 0), Emit(b, t)>> : a \in MCRequests, b \in MCRequests, t \in {1, 2}}

MCExitPrices == {1}
MCLatencies == {0, 2}
MCGaps == {1}
=============================================================================
