----------------------------- MODULE PriceBook -----------------------------
(***************************************************************************)
(* The price of a product: edits from the product page, bulk actions and   *)
(* restocks, and the history that is to tell it.                           *)
(*                                                                         *)
(* A page holds the product as it was when it was opened, with the version *)
(* its edit is checked against. An edit and a bulk action read the row,    *)
(* and write it in a second step of a READ COMMITTED transaction.          *)
(* Abstracted: prices are small numbers, a percentage is one step up or    *)
(* down, a discount strikes the next price above; the cost is StockLots',  *)
(* every other column one edit that changes the version only.              *)
(***************************************************************************)
EXTENDS Naturals, FiniteSets

CONSTANTS
    Articles,     \* products
    Editors,      \* managers
    MaxPrice,     \* bound: highest price
    MaxVersion    \* bound: versions of a product

ASSUME PriceBookAssumption == MaxPrice \in Nat /\ MaxVersion \in Nat

VARIABLES
    article,   \* price, struck (compare_at_price), version, and deleted_at IS NULL
    told,      \* the newest row of product_price_history
    restocked, \* history: a restock has set the price since the version
    page,      \* per manager: the product as the page shows it
    edit       \* per manager: the transaction under way

priceVars == <<article, told, restocked, page, edit>>

-----------------------------------------------------------------------------
Prices == 1..MaxPrice
NoPage == [of |-> "none"]
NoEdit == [at |-> "none"]
Listed == {p \in Articles : article[p].live}
Tag(row) == [price |-> row.price, struck |-> row.struck]
Bumped(row) == [row EXCEPT !.version = @ + 1]

\* normaliseCompareAt: a struck price the price has passed is dropped.
Above(price, struck) == {old \in struck : old > price}

\* products_compare_gte_price
PassesCheck(row) == \A old \in row.struck : old >= row.price

\* guards.priceHistory: a row when the price moved from what was read.
Note(ps, before, after) ==
    told' = [p \in Articles |-> IF p \in ps /\ before[p] # after[p] THEN after[p] ELSE told[p]]

OpenPage(m, p) ==
    /\ edit[m] = NoEdit /\ p \in Listed
    /\ page' = [page EXCEPT ![m] = [of |-> p, row |-> article[p]]]
    /\ UNCHANGED <<article, told, restocked, edit>>

-----------------------------------------------------------------------------
\* The edits a page may ask for: a struck price that is given must be above the price,
\* one that is not given is dropped by a price that reaches it.
Changed(row) ==
    {[row EXCEPT !.price = n, !.struck = Above(n, @)] : n \in Prices}
    \cup UNION {{[row EXCEPT !.price = n, !.struck = given] : given \in {{}} \cup {{x} : x \in (n + 1)..MaxPrice}} : n \in Prices}

\* update reads the row and compares its version with the page's. The price columns
\* are written back from what was read, also by an edit of another column.
ReadEdit(m, next) ==
    /\ edit[m] = NoEdit
    /\ LET p == page[m].of IN
         /\ p \in Listed
         /\ article[p].version = page[m].row.version /\ article[p].version < MaxVersion
         /\ edit' = [edit EXCEPT ![m] = [at |-> "edit", of |-> p, read |-> article[p], next |-> next]]
    /\ UNCHANGED <<article, told, restocked, page>>

\* Variant: the UPDATE does not ask for the version again.
StillThere(m) == article[edit[m].of].live

\* The WHERE of the UPDATE; a removed product has moved its version.
StillAsRead(m) == article[edit[m].of].version = edit[m].read.version

Save(m) ==
    /\ edit[m].at = "edit"
    /\ LET p == edit[m].of
           e == edit[m]
       IN IF StillAsRead(m)
          THEN /\ article' = [article EXCEPT ![p] = Bumped([e.next EXCEPT !.version = article[p].version])]
               /\ Note({p}, [x \in {p} |-> Tag(e.read)], [x \in {p} |-> Tag(e.next)])
               /\ restocked' = [restocked EXCEPT ![p] = FALSE]
          ELSE UNCHANGED <<article, told, restocked>>
    /\ page' = [page EXCEPT ![m] = NoPage]
    /\ edit' = [edit EXCEPT ![m] = NoEdit]

-----------------------------------------------------------------------------
\* Bulk actions read their rows and update them by id, whatever their version is then.
ReadBulk(m, ps, action) ==
    /\ edit[m] = NoEdit /\ ps # {} /\ ps \subseteq Listed
    /\ \A p \in ps : article[p].version < MaxVersion
    /\ edit' = [edit EXCEPT ![m] = [at |-> "bulk", of |-> ps, action |-> action, read |-> [p \in ps |-> article[p]]]]
    /\ UNCHANGED <<article, told, restocked, page>>

\* bulkAdjustedPrice: rounded, and never below the smallest price.
Up(price) == IF price < MaxPrice THEN price + 1 ELSE price
Down(price) == IF price > 1 THEN price - 1 ELSE price

\* What the action makes of the row it has read.
Repriced(row, action) ==
    CASE action = "up"       -> [row EXCEPT !.price = Up(@), !.struck = Above(Up(row.price), @)]
      [] action = "down"     -> [row EXCEPT !.price = Down(@), !.struck = Above(Down(row.price), @)]
      [] action = "discount" -> [row EXCEPT !.struck = {row.price + 1}]
      [] action = "no discount" -> [row EXCEPT !.struck = {}]
      [] OTHER               -> row

\* The columns it writes: both prices, the struck one, or none of them.
WithColumns(row, new, action) ==
    CASE action \in {"up", "down"} -> [row EXCEPT !.price = new.price, !.struck = new.struck]
      [] action \in {"discount", "no discount"} -> [row EXCEPT !.struck = new.struck]
      [] action = "remove" -> [row EXCEPT !.live = FALSE]
      [] OTHER -> row

\* All rows or none: one the CHECK refuses rolls the action back.
WriteBulk(m) ==
    /\ edit[m].at = "bulk"
    /\ LET e == edit[m]
           new == [p \in e.of |-> Repriced(e.read[p], e.action)]
           row == [p \in e.of |-> Bumped(WithColumns(article[p], new[p], e.action))]
       IN IF \A p \in e.of : PassesCheck(row[p]) /\ row[p].version <= MaxVersion
          THEN /\ article' = [p \in Articles |-> IF p \in e.of THEN row[p] ELSE article[p]]
               /\ Note(e.of, [p \in e.of |-> Tag(e.read[p])], [p \in e.of |-> Tag(new[p])])
               /\ restocked' = [p \in Articles |-> p \notin e.of /\ restocked[p]]
          ELSE UNCHANGED <<article, told, restocked>>
    /\ edit' = [edit EXCEPT ![m] = NoEdit]
    /\ UNCHANGED page

-----------------------------------------------------------------------------
\* restockLot: a new selling price beside the version; the CHECK may refuse it.
RestockLot(p, price) ==
    /\ p \in Listed /\ price # article[p].price
    /\ PassesCheck([article[p] EXCEPT !.price = price])
    /\ article' = [article EXCEPT ![p].price = price]
    /\ told' = [told EXCEPT ![p] = [price |-> price, struck |-> {}]]
    /\ restocked' = [restocked EXCEPT ![p] = TRUE]
    /\ UNCHANGED <<page, edit>>

Relist(p) ==
    /\ p \notin Listed /\ article[p].version < MaxVersion
    /\ article' = [article EXCEPT ![p] = Bumped([@ EXCEPT !.live = TRUE])]
    /\ restocked' = [restocked EXCEPT ![p] = FALSE]
    /\ UNCHANGED <<told, page, edit>>

-----------------------------------------------------------------------------
\* Products as create leaves them.
PriceBookInit ==
    /\ article \in [Articles -> [live : {TRUE}, price : Prices, struck : {{}}, version : {1}]]
    /\ told = [p \in Articles |-> Tag(article[p])]
    /\ restocked = [p \in Articles |-> FALSE]
    /\ page = [m \in Editors |-> NoPage]
    /\ edit = [m \in Editors |-> NoEdit]

BulkActions == {"up", "down", "discount", "no discount", "other", "remove"}

PriceBookNext ==
    \/ \E p \in Articles : Relist(p) \/ \E n \in Prices : RestockLot(p, n)
    \/ \E m \in Editors :
         \/ Save(m) \/ WriteBulk(m)
         \/ \E p \in Articles : OpenPage(m, p)
         \/ page[m] # NoPage /\ \E next \in Changed(article[page[m].of]) : ReadEdit(m, next)
         \/ \E ps \in SUBSET Articles, action \in BulkActions : ReadBulk(m, ps, action)

PriceBookSpec == PriceBookInit /\ [][PriceBookNext]_priceVars

-----------------------------------------------------------------------------
\* Columns within what the DTOs and the CHECK constraints allow.
PriceBookTypeOK ==
    \A p \in Articles : article[p].price \in Prices /\ article[p].version \in 1..MaxVersion /\ PassesCheck(article[p])

\* The step saves the edit of m.
Saves(m) == edit[m].at = "edit" /\ edit'[m] = NoEdit /\ article' # article

\* The optimistic lock of the product page (product-admin.service.ts:193 and :220): an
\* edit that is saved replaces the prices its page showed, not those of an edit or a
\* bulk action since. A restock is no edit in this sense, see RestockSeen.
EditsSeen ==
    [][\A m \in Editors : Saves(m) =>
         restocked[edit[m].of] \/ Tag(article[edit[m].of]) = Tag(page[m].row)]_priceVars

\* The same of a restock's price, which restockLot writes without a new version
\* (product-stock.service.ts:154): a page of before puts the old price back.
RestockSeen ==
    [][\A m \in Editors : Saves(m) => article[edit[m].of].price = page[m].row.price]_priceVars

\* "Append a price-history row when any of price / compare-at / cost changed"
\* (product-guards.ts:49): the newest row tells the price that is asked.
HistoryTellsPrice == \A p \in Articles : told[p].price = article[p].price
=============================================================================
