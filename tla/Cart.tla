-------------------------------- MODULE Cart --------------------------------
(***************************************************************************)
(* The server-side cart of one shopper whose browser has several tabs: the *)
(* guest cart behind the token in local storage, the customer's carts, and *)
(* adding, setting, merging at login, clearing and checking out.           *)
(*                                                                         *)
(* Local storage is the browser's, the access token a tab's: one tab may   *)
(* have signed in while another is still a guest.  A request is the        *)
(* customer's or that of the token it was sent with, whatever the tabs do  *)
(* until it is answered.  Only the merge and the order are transactions:   *)
(* the others read a cart and write it later, by the ids they have read.   *)
(* An order is of the lines the page showed; of the carts it only clears   *)
(* what it finds.  It is serializable, so it is one step here.             *)
(* Abstracted: coupons kept on a cart, bundles (lines like products), the  *)
(* limit of 50 lines, prices (every view is quoted afresh).                *)
(***************************************************************************)
EXTENDS Sums

CONSTANTS
    Carts,       \* cart rows that may ever exist, numbered
    Goods,       \* products and bundles
    Tabs,
    MaxLineQty,  \* CHECK cart_items_qty_pos: 99
    MaxAsked     \* bound: copies of a product asked for

ASSUME CartAssumption ==
    /\ Carts \subseteq Nat \ {0} /\ {MaxLineQty, MaxAsked} \subseteq Nat \ {0}
    /\ IsFiniteSet(Carts) /\ IsFiniteSet(Tabs)

VARIABLES
    cart,       \* carts: "free" (no row yet), "guest", "customer" or "gone"
    line,       \* cart_items: the quantity and which row it is, one per cart and product
    latest,     \* the customer's cart that was updated last
    token,      \* x-cart-token in local storage
    signedIn,   \* tabs that hold an access token
    call,       \* per tab: what its open request was sent with and has read
    asked,      \* copies ever asked for, per product (history)
    cleared,    \* copies that orders cleared from carts (history)
    behind      \* of these, those that an open merge had read (history)

cartVars == <<cart, line, latest, token, signedIn, call, asked, cleared, behind>>

-----------------------------------------------------------------------------
NoCart == 0
NoLine == [qty |-> 0, row |-> 0]
Resting == [at |-> "none"]

Capped(n) == IF n <= MaxLineQty THEN n ELSE MaxLineQty
Copies(p, carts) == SumOf([c \in Carts |-> line[c][p].qty], carts)
Idle(t) == call[t] = Resting
Answer(t) == call' = [call EXCEPT ![t] = Resting]

\* find: a customer's latest cart, or the one behind the token if it is there.
Found(t) ==
    IF t \in signedIn THEN latest
    ELSE IF token # NoCart /\ cart[token] = "guest" THEN token ELSE NoCart
Free == {c \in Carts : cart[c] = "free"}

SignIn(t) ==
    /\ Idle(t) /\ t \notin signedIn
    /\ signedIn' = signedIn \cup {t}
    /\ UNCHANGED <<cart, line, latest, token, call, asked, cleared, behind>>

\* The shopper logs out, or the session could not be refreshed.
SignOut(t) ==
    /\ Idle(t) /\ t \in signedIn
    /\ signedIn' = signedIn \ {t}
    /\ UNCHANGED <<cart, line, latest, token, call, asked, cleared, behind>>

\* A tab asks for one more copy and reads its cart, or that there is none.
StartAdd(t, p) ==
    /\ Idle(t) /\ asked[p] < MaxAsked
    /\ asked' = [asked EXCEPT ![p] = @ + 1]
    /\ call' = [call EXCEPT ![t] =
                      IF Found(t) = NoCart THEN [at |-> "create", customer |-> t \in signedIn, goods |-> p]
                      ELSE [at |-> "write", cart |-> Found(t), goods |-> p, seen |-> line[Found(t)][p]]]
    /\ UNCHANGED <<cart, line, latest, token, signedIn, cleared, behind>>

\* ensure: whoever found none creates one; customer_id is not unique.
CreateCart(t) ==
    /\ call[t].at = "create" /\ Free # {}
    /\ LET c == Min(Free)  r == call[t] IN
         /\ cart' = [cart EXCEPT ![c] = IF r.customer THEN "customer" ELSE "guest"]
         /\ latest' = IF r.customer THEN c ELSE latest
         /\ call' = [call EXCEPT ![t] = [at |-> "write", cart |-> c, goods |-> r.goods, seen |-> NoLine]]
    /\ UNCHANGED <<line, token, signedIn, asked, cleared, behind>>

Exists(c, p, row) == cart[c] # "gone" /\ line[c][p].qty > 0 /\ line[c][p].row = row
Vacant(c, p) == cart[c] # "gone" /\ line[c][p].qty = 0

\* UPDATE of the line that was read, or INSERT; a line that is no longer there, or
\* that another tab inserted first, fails the request.
WriteLine(c, p, seen, more) ==
    [line EXCEPT ![c][p] = IF seen.qty > 0 THEN [qty |-> Capped(seen.qty + more), row |-> seen.row]
                           ELSE [qty |-> Capped(more), row |-> line[c][p].row + 1]]
CanWrite(c, p, seen) == IF seen.qty > 0 THEN Exists(c, p, seen.row) ELSE Vacant(c, p)

\* touchAndView: the cart is updated, and its token kept by the page.
Touch(c) == latest' = IF cart[c] = "customer" THEN c ELSE latest
Keep(c) == token' = IF cart[c] = "guest" THEN c ELSE token

WriteAdd(t) ==
    /\ call[t].at = "write"
    /\ LET r == call[t] IN
         IF CanWrite(r.cart, r.goods, r.seen)
         THEN line' = WriteLine(r.cart, r.goods, r.seen, 1) /\ Touch(r.cart) /\ Keep(r.cart)
         ELSE UNCHANGED <<line, latest, token>>
    /\ Answer(t)
    /\ UNCHANGED <<cart, signedIn, asked, cleared, behind>>

\* setQuantity: the item is looked up in the cart ...
StartSet(t, p, n) ==
    /\ Idle(t) /\ Found(t) # NoCart
    /\ line[Found(t)][p].qty > 0
    /\ call' = [call EXCEPT ![t] = [at |-> "set", cart |-> Found(t), goods |-> p, row |-> line[Found(t)][p].row, to |-> n]]
    /\ UNCHANGED <<cart, line, latest, token, signedIn, asked, cleared, behind>>

\* ... and its quantity written by its id, whatever it is by now; 0 removes it.
WriteSet(t) ==
    /\ call[t].at = "set"
    /\ LET r == call[t]  now == line[r.cart][r.goods].qty IN
         IF Exists(r.cart, r.goods, r.row)
         THEN /\ line' = [line EXCEPT ![r.cart][r.goods].qty = r.to]
              /\ asked' = [asked EXCEPT ![r.goods] = IF r.to > now THEN @ + (r.to - now) ELSE @]
              /\ asked'[r.goods] <= MaxAsked
              /\ Touch(r.cart)
              /\ IF r.to = 0 THEN UNCHANGED token ELSE Keep(r.cart)
         ELSE UNCHANGED <<line, asked, latest, token>>
    /\ Answer(t)
    /\ UNCHANGED <<cart, signedIn, cleared, behind>>

Emptied(carts) ==
    [c \in Carts |-> IF c \in carts THEN [p \in Goods |-> [line[c][p] EXCEPT !.qty = 0]] ELSE line[c]]

\* clear: the cart is found, then its lines are deleted; one that is gone fails it.
StartClear(t) ==
    /\ Idle(t) /\ Found(t) # NoCart
    /\ call' = [call EXCEPT ![t] = [at |-> "clear", cart |-> Found(t)]]
    /\ UNCHANGED <<cart, line, latest, token, signedIn, asked, cleared, behind>>

WriteClear(t) ==
    /\ call[t].at = "clear"
    /\ LET c == call[t].cart IN
         IF cart[c] = "gone" THEN UNCHANGED <<line, latest>> ELSE line' = Emptied({c}) /\ Touch(c)
    /\ Answer(t)
    /\ UNCHANGED <<cart, token, signedIn, asked, cleared, behind>>

\* place: whose cart the order clears is settled when it is sent, and what it orders
\* is what the page shows, which may long be out of the cart.
StartOrder(t) ==
    /\ Idle(t) /\ \E p \in Goods : asked[p] > 0
    /\ call' = [call EXCEPT ![t] = [at |-> "order", customer |-> t \in signedIn, token |-> token]]
    /\ UNCHANGED <<cart, line, latest, token, signedIn, asked, cleared, behind>>

\* A merge has copies of a line in hand.
Moving(c, p) == \E t \in Tabs : call[t].at = "merge" /\ call[t].guest = c /\ call[t].theirs[p].qty > 0

\* clearForOrder, in the transaction that places the order.
PlaceOrder(t) ==
    /\ call[t].at = "order"
    /\ LET r == call[t]
           theirs == {c \in Carts : IF r.customer THEN cart[c] = "customer" ELSE c = r.token /\ cart[c] = "guest"} IN
         /\ line' = Emptied(theirs)
         /\ cleared' = [p \in Goods |-> cleared[p] + Copies(p, theirs)]
         /\ behind' = [p \in Goods |-> behind[p] + Copies(p, {c \in theirs : Moving(c, p)})]
    /\ Answer(t)
    /\ UNCHANGED <<cart, latest, token, signedIn, asked>>

\* No stock, no such coupon: the transaction is rolled back.
RefuseOrder(t) ==
    /\ call[t].at = "order"
    /\ Answer(t)
    /\ UNCHANGED <<cart, line, latest, token, signedIn, asked, cleared, behind>>

\* After login a tab that still sees the token reads both carts; one that is gone
\* leaves nothing to merge.
StartMerge(t) ==
    /\ Idle(t) /\ t \in signedIn /\ token # NoCart
    /\ IF cart[token] = "guest"
       THEN /\ call' = [call EXCEPT ![t] =
                              [at |-> "merge", guest |-> token, mine |-> latest, theirs |-> line[token],
                               ours |-> IF latest = NoCart THEN [p \in Goods |-> NoLine] ELSE line[latest]]]
            /\ UNCHANGED token
       ELSE token' = NoCart /\ UNCHANGED call
    /\ UNCHANGED <<cart, line, latest, signedIn, asked, cleared, behind>>

\* Lines of the guest cart that was read, into the customer's cart.
Merged(m, into) ==
    [line EXCEPT ![into] =
       [p \in Goods |-> IF m.theirs[p].qty = 0 THEN line[into][p]
                        ELSE WriteLine(into, p, m.ours[p], m.theirs[p].qty)[into][p]],
                 ![m.guest] = [p \in Goods |-> [line[m.guest][p] EXCEPT !.qty = 0]]]

\* Variant: deleteMany does not mind a guest cart that is gone.
MergeTolerant(t) ==
    /\ call[t].at = "merge"
    /\ LET m == call[t]  into == IF m.mine = NoCart THEN Min(Free \cup {m.guest}) ELSE m.mine IN
         /\ line' = Merged(m, into)
         /\ cart' = [cart EXCEPT ![into] = "customer", ![m.guest] = "gone"]
         /\ latest' = into
    /\ token' = NoCart
    /\ Answer(t)
    /\ UNCHANGED <<signedIn, asked, cleared, behind>>

\* One transaction: a guest cart that is gone, or a line that changed places,
\* rolls it back.  The page drops its token either way.
FinishMerge(t) ==
    /\ call[t].at = "merge"
    /\ LET m == call[t] IN
         IF /\ cart[m.guest] = "guest"
            /\ \A p \in Goods : m.theirs[p].qty > 0 /\ m.mine # NoCart => CanWrite(m.mine, p, m.ours[p])
         THEN /\ m.mine = NoCart => Free # {}
              /\ LET into == IF m.mine = NoCart THEN Min(Free) ELSE m.mine IN
                   /\ line' = Merged(m, into)
                   /\ cart' = [cart EXCEPT ![into] = "customer", ![m.guest] = "gone"]
                   /\ latest' = into
         ELSE UNCHANGED <<line, cart, latest>>
    /\ token' = NoCart
    /\ Answer(t)
    /\ UNCHANGED <<signedIn, asked, cleared, behind>>

\* Thirty days without a request: long after whatever a tab has read.
Purge(c) ==
    /\ cart[c] = "guest" /\ \A t \in Tabs : Idle(t)
    /\ cart' = [cart EXCEPT ![c] = "gone"]
    /\ line' = Emptied({c})
    /\ UNCHANGED <<latest, token, signedIn, call, asked, cleared, behind>>

-----------------------------------------------------------------------------
CartInit ==
    /\ cart = [c \in Carts |-> "free"]
    /\ line = [c \in Carts |-> [p \in Goods |-> NoLine]]
    /\ latest = NoCart
    /\ token = NoCart
    /\ signedIn = {}
    /\ call = [t \in Tabs |-> Resting]
    /\ asked = [p \in Goods |-> 0]
    /\ cleared = [p \in Goods |-> 0]
    /\ behind = [p \in Goods |-> 0]

CartNext ==
    \/ \E t \in Tabs :
         \/ SignIn(t) \/ SignOut(t)
         \/ CreateCart(t) \/ WriteAdd(t) \/ WriteSet(t) \/ StartClear(t) \/ WriteClear(t)
         \/ StartOrder(t) \/ PlaceOrder(t) \/ RefuseOrder(t)
         \/ StartMerge(t) \/ FinishMerge(t)
         \/ \E p \in Goods : StartAdd(t, p) \/ \E n \in 0..MaxLineQty : StartSet(t, p, n)
    \/ \E c \in Carts : Purge(c)

CartSpec == CartInit /\ [][CartNext]_cartVars

-----------------------------------------------------------------------------
CartTypeOK ==
    /\ cart \in [Carts -> {"free", "guest", "customer", "gone"}]
    /\ line \in [Carts -> [Goods -> [qty : 0..MaxLineQty, row : Nat]]]
    /\ {latest, token} \subseteq Carts \cup {NoCart}
    /\ signedIn \subseteq Tabs
    /\ asked \in [Goods -> 0..MaxAsked]

\* However adds, merges, clears and orders of guest and customer tabs interleave, copies
\* are never made up: what carts hold and orders cleared was asked for, and counts once.
\* The one exception is an order that clears a guest cart (cart.service.ts:140) from under
\* a merge that has read it (:123): as many copies as it clears come back, and no more.
NothingMadeUp == \A p \in Goods : Copies(p, Carts) + cleared[p] <= asked[p] + behind[p]

\* "Empty the caller's cart after an order is placed" (cart.service.ts:139): what an order
\* has cleared is in no cart again, unless it is asked for again.
ClearedForGood == \A p \in Goods : Copies(p, Carts) + cleared[p] <= asked[p]

\* "Logged-in customers own one cart" (cart.service.ts:27).
OneCartEach == Cardinality({c \in Carts : cart[c] = "customer"}) <= 1

\* "Move the guest cart's lines into the customer's cart" (cart.service.ts:119): what
\* a merge deletes with the guest cart has been moved.
MergeLosesNothing ==
    [][\A p \in Goods : (\E t \in Tabs : call[t].at = "merge" /\ call'[t] = Resting)
           => Copies(p, Carts)' >= Capped(Copies(p, Carts))]_cartVars
=============================================================================
