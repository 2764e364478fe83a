-------------------------- MODULE MCMatchingEngine --------------------------
(* Small instances of MatchingEngine for TLC. *)
EXTENDS MatchingEngine

\* A book from its asks and bids at the prices 1, 2, 3.
Book(asks, bids) == [s \in Sides |-> IF s = "BUY" THEN asks ELSE bids]

\* A wide book, one with two ask levels, one that has moved up, one that has
\* fallen through the bids.
MCSnapshots ==
    {Book(<<0, 0, 2>>, <<1, 0, 0>>), Book(<<0, 1, 1>>, <<1, 0, 0>>),
     Book(<<0, 0, 1>>, <<1, 1, 0>>), Book(<<1, 1, 0>>, <<0, 0, 0>>)}

Asked(side, raw, size, tif, postOnly) ==
    [token |-> "yes", side |-> side, raw |-> raw, size |-> size, tif |-> tif,
     postOnly |-> postOnly]

MCRequests ==
    {Asked("BUY", 4, 2, "GTC", FALSE), Asked("BUY", 5, 2, "IOC", FALSE),
     Asked("BUY", 6, 1, "FOK", FALSE), Asked("SELL", 4, 2, "GTC", TRUE),
     Asked("SELL", 1, 2, "GTC", FALSE), Asked("BUY", 1, 1, "GTC", FALSE)}

MCTokens == {"yes"}
MCLatencies == {0, 2}
MCGaps == {1}
=============================================================================
