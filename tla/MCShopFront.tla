---------------------------- MODULE MCShopFront ----------------------------
(* From the cart to the message, one part at a time: the cart of a browser *)
(* with two tabs; the price of a basket of two titles and a bundle; two    *)
(* checkout submissions; a message in the outbox of two replicas.          *)
EXTENDS PlacementRequests, Cart, Outbox, Quote, TLC

CONSTANTS k1, k2, b1, b2, t1, t2, p1, m1, w1, w2, s1, s2, u1, u2, g1

MCKeys        == {k1, k2}
MCBodies      == {b1, b2}
MCSubmissions == 1..2
MCTabs        == {t1, t2}
MCCarts       == 1..3
MCGoods       == {p1}
OneMessage    == {m1}
MCWorkers     == {w1, w2}
TwoStaff      == {s1, s2}

\* Amounts chosen so that thirds, halves and ties occur; g1 is u1 twice and u2.
MCTitles    == {u1, u2}
MCBundles   == {g1}
MCPrice     == (u1 :> 3333) @@ (u2 :> 999) @@ (g1 :> 5001)
MCListPrice == (u1 :> 3333) @@ (u2 :> 1001)
MCTaxRate   == (u1 :> 15) @@ (u2 :> 0)
MCParts     == (g1 :> << [title |-> u1, copies |-> 2], [title |-> u2, copies |-> 1] >>)
MCSectionOf == (u1 :> "novel") @@ (u2 :> "school") @@ (g1 :> "novel")
MCFreeItems == {u2}

Baskets == {<<[item |-> x, qty |-> n]>> : x \in {u1, u2, g1}, n \in 1..3}
    \cup UNION {{<<[item |-> x[1], qty |-> n], [item |-> x[2], qty |-> m]>> : n, m \in 1..3}
                  : x \in {<<u1, u2>>, <<u2, u1>>, <<u1, g1>>, <<g1, u1>>}}
    \cup {<<[item |-> u2, qty |-> n], [item |-> u1, qty |-> 1], [item |-> g1, qty |-> m]>> : n, m \in 1..3}
Kinds == {[type |-> "PERCENT", value |-> 7, cap |-> {}, min |-> 0],
          [type |-> "PERCENT", value |-> 33, cap |-> {501}, min |-> 0],
          [type |-> "FIXED", value |-> 100, cap |-> {}, min |-> 4000],
          [type |-> "FIXED", value |-> 10000, cap |-> {}, min |-> 0],
          [type |-> "FREE_SHIPPING", value |-> 0, cap |-> {}, min |-> 0]}
Coupons == {[covers |-> c] @@ k : c \in {{}, {u1}, {u1, u2}, {u1, u2, g1}}, k \in Kinds}
Deliveries == {[freeBundles |-> FALSE, freeSections |-> {}, campaign |-> FALSE, freeAbove |-> {5000}, zoneFee |-> {600}],
               [freeBundles |-> TRUE, freeSections |-> {"novel"}, campaign |-> FALSE, freeAbove |-> {}, zoneFee |-> {1200}],
               [freeBundles |-> FALSE, freeSections |-> {}, campaign |-> TRUE, freeAbove |-> {}, zoneFee |-> {}]}
MCQuoteInputs == {[lines |-> l, coupon |-> c] @@ d : l \in Baskets, c \in Coupons, d \in Deliveries}

VARIABLE part

FrontInit ==
    /\ part \in {"placement", "cart", "outbox", "quote"}
    /\ PlacementInit /\ CartInit /\ OutboxInit
    /\ IF part = "quote" THEN \E q \in QuoteInputs : quoted = {q} ELSE quoted = {}
FrontNext ==
    \/ part = "placement" /\ PlacementNext /\ UNCHANGED <<part, cartVars, outboxVars, quoted>>
    \/ part = "cart" /\ CartNext /\ UNCHANGED <<part, placementVars, outboxVars, quoted>>
    \/ part = "outbox" /\ OutboxNext /\ UNCHANGED <<part, placementVars, cartVars, quoted>>
FrontSpec ==
    /\ FrontInit /\ [][FrontNext]_<<part, placementVars, cartVars, outboxVars, quoted>>
    /\ PlacementFairness /\ OutboxFairness

\* Every part keeps to its types: attempts within withRetry's, lines within MAX_LINE_QTY,
\* messages within the enum and the attempts they may have.
TypesOK == PlacementTypeOK /\ CartTypeOK /\ OutboxTypeOK
=============================================================================
