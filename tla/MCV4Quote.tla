----------------------------- MODULE MCV4Quote -----------------------------
(* Ticks -6 to 6, words of two compressed ticks; histories of up to two    *)
(* liquidity changes that overlap, adjoin, nest, cancel or overdraw, one   *)
(* of them reaching the last ticks; prices on, above and at the end of the *)
(* current tick.                                                           *)
EXTENDS V4Quote

Edges == {-6, -2, 0, 2, 6}

Changes == {r \in [lower : Edges, upper : Edges, delta : {-1, 1, 2}] : r.lower < r.upper}

Added == {r \in Changes : r.delta > 0}

Histories == {<<r>> : r \in Changes} \cup {<<r, s>> : r \in Added, s \in Changes}

Prices == PriceAt(MinTick) + 1..PriceAt(MaxTick) - 1

MCPools ==
    {p \in {[ranges |-> h, tick |-> t, price |-> PriceAt(t) + d, spacing |-> s] :
               h \in Histories, t \in {-5, -1, 0, 5}, d \in {0, 1, 3}, s \in {1, 2}} :
        p.price \in Prices}
=============================================================================
