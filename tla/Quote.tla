------------------------------- MODULE Quote -------------------------------
(***************************************************************************)
(* The one price calculation of cart, checkout and placement: gross per    *)
(* line, a coupon spread over the lines it covers, a bundle's price spread *)
(* over its books, tax per line, delivery.  Amounts are whole paisa, so    *)
(* rounding to two places is rounding to an integer.                       *)
(* A coupon is here what is left of its rule once it is available, and     *)
(* what it covers what is left of its scope; a delivery rule is one that   *)
(* is live.  No line is priced without a basket, so baskets are not empty. *)
(***************************************************************************)
EXTENDS Sequences, Sums

CONSTANTS
    Titles,        \* single products
    Bundles,
    Price,         \* of a title, its deal applied, or of a bundle
    ListPrice,     \* of a title
    TaxRate,       \* of a title, in percent
    Parts,         \* of a bundle: its titles with their copies, in order
    SectionOf,     \* of a title or a bundle
    FreeItems,     \* flagged for free delivery
    QuoteInputs    \* what is asked: lines, coupon, delivery rules, the district's fee

ASSUME QuoteAssumption ==
    /\ Price \in [Titles \cup Bundles -> Nat]
    /\ {ListPrice, TaxRate} \subseteq [Titles -> Nat]
    /\ \A b \in Bundles : Parts[b] \in Seq([title : Titles, copies : Nat \ {0}]) \ {<<>>}
    /\ \A q \in QuoteInputs :
          /\ q.lines \in Seq([item : Titles \cup Bundles, qty : Nat \ {0}])
          /\ {q.coupon.value, q.coupon.min} \cup q.coupon.cap \cup q.zoneFee \subseteq Nat

VARIABLE quoted     \* the quotes that are asked for

-----------------------------------------------------------------------------
HalfUp(n, d) == (2 * n + d) \div (2 * d)
Total(f) == SumOf(f, DOMAIN f)

\* Variant: every share is rounded by itself.
AllocateRounded(total, weight) ==
    IF Total(weight) = 0 THEN [i \in DOMAIN weight |-> IF i = 1 THEN total ELSE 0]
    ELSE [i \in DOMAIN weight |-> HalfUp(total * weight[i], Total(weight))]

\* Shares are rounded down; what is left goes, a paisa each, to the largest remainders.
Allocate(total, weight) ==
    LET sum      == Total(weight)
        down     == [i \in DOMAIN weight |-> (total * weight[i]) \div sum]
        frac     == [i \in DOMAIN weight |-> (total * weight[i]) % sum]
        Ahead(i) == {j \in DOMAIN weight : frac[j] > frac[i] \/ (frac[j] = frac[i] /\ j < i)}
        rest     == total - Total(down)
    IN  IF sum = 0 THEN [i \in DOMAIN weight |-> IF i = 1 THEN total ELSE 0]
        ELSE [i \in DOMAIN weight |-> down[i] + IF Cardinality(Ahead(i)) < rest THEN 1 ELSE 0]

-----------------------------------------------------------------------------
(* The coupon.                                                             *)

Gross(q) == [i \in DOMAIN q.lines |-> Price[q.lines[i].item] * q.lines[i].qty]

\* What the coupon applies to, line by line; nothing below its minimum.
Eligible(q) ==
    [i \in DOMAIN q.lines |->
        IF Total(Gross(q)) >= q.coupon.min /\ q.lines[i].item \in q.coupon.covers
        THEN Gross(q)[i] ELSE 0]

\* A percentage is rounded to whole taka and capped.
CouponDiscount(q) ==
    LET base == Total(Eligible(q)) IN
      CASE q.coupon.type = "PERCENT" ->
             Min(q.coupon.cap \cup {base, 100 * HalfUp(base * q.coupon.value, 10000)})
        [] q.coupon.type = "FIXED" -> Min({q.coupon.value, base})
        [] OTHER -> 0

LineDiscounts(q) ==
    IF CouponDiscount(q) = 0 THEN [i \in DOMAIN q.lines |-> 0]
    ELSE Allocate(CouponDiscount(q), Eligible(q))

CouponDelivers(q) == q.coupon.type = "FREE_SHIPPING" /\ Total(Eligible(q)) > 0

-----------------------------------------------------------------------------
(* Lines, delivery and total.                                              *)

Net(q) == [i \in DOMAIN q.lines |-> Gross(q)[i] - LineDiscounts(q)[i]]

\* A bundle's revenue, spread over its books by their list price.
Revenues(b, net) ==
    Allocate(net, [k \in DOMAIN Parts[b] |-> ListPrice[Parts[b][k].title] * Parts[b][k].copies])

LineTax(item, net) ==
    IF item \in Titles THEN HalfUp(net * TaxRate[item], 100)
    ELSE Total([k \in DOMAIN Parts[item] |->
                  HalfUp(Revenues(item, net)[k] * TaxRate[Parts[item][k].title], 100)])

LineTotals(q) == [i \in DOMAIN q.lines |-> Net(q)[i] + LineTax(q.lines[i].item, Net(q)[i])]

FreeDelivery(q) ==
    LET items == {q.lines[i].item : i \in DOMAIN q.lines} IN
      \/ items \subseteq FreeItems
      \/ q.freeBundles /\ items \cap Bundles # {}
      \/ \E s \in q.freeSections : \A x \in items : SectionOf[x] = s
      \/ CouponDelivers(q)
      \/ q.campaign
      \/ q.freeAbove # {} /\ Total(Net(q)) >= Min(q.freeAbove)

\* Before a district is chosen the fee is not known, and not in the total.
ShippingFee(q) == IF FreeDelivery(q) \/ q.zoneFee = {} THEN 0 ELSE Min(q.zoneFee)

GrandTotal(q) ==
    Total(Gross(q)) - Total(LineDiscounts(q)) + ShippingFee(q)
      + Total([i \in DOMAIN q.lines |-> LineTax(q.lines[i].item, Net(q)[i])])

-----------------------------------------------------------------------------
\* As near to its proportion of the total as whole paisa can be, and nothing lost.
FairSplit(share, total, weight) ==
    /\ Total(share) = total
    /\ Total(weight) > 0 => \A i \in DOMAIN weight :
         LET off == share[i] * Total(weight) - total * weight[i] IN
           off < Total(weight) /\ -off < Total(weight)

\* "Totals are sums of line amounts" (quote-calculator.ts:116-118) and "the parts add
\* up exactly" (money.ts:44): the lines of an order bear all of its discount and its
\* total, the books of a bundle all of its revenue, each its fair share; no line is
\* discounted below nothing and none that the coupon does not cover.
QuoteAddsUp ==
    \A q \in quoted :
      /\ CouponDiscount(q) > 0 => FairSplit(LineDiscounts(q), CouponDiscount(q), Eligible(q))
      /\ \A i \in DOMAIN q.lines : LineDiscounts(q)[i] \in 0..Eligible(q)[i]
      /\ \A i \in DOMAIN q.lines :
           LET b == q.lines[i].item IN
             b \in Bundles =>
               FairSplit(Revenues(b, Net(q)[i]), Net(q)[i],
                         [k \in DOMAIN Parts[b] |-> ListPrice[Parts[b][k].title] * Parts[b][k].copies])
      /\ GrandTotal(q) = Total(LineTotals(q)) + ShippingFee(q)
=============================================================================
