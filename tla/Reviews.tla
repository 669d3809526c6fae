------------------------------ MODULE Reviews ------------------------------
(***************************************************************************)
(* Reviews of one product: what a customer may write, what staff approve   *)
(* or reject, and the rating kept on the product row.                      *)
(*                                                                         *)
(* A request reads what it decides on, then writes in a READ COMMITTED     *)
(* transaction: the review first, then the product from the reviews that   *)
(* are committed by then and its own, whatever others still hold back.     *)
(* Abstracted: texts, names, replies; a rating is a sum and a count.       *)
(***************************************************************************)
EXTENDS FiniteSets, FiniteSetsExt, Sums

CONSTANTS
    Buyers,
    Lines,        \* order lines of the product
    LineOf,       \* whose line it is
    Stars,
    Requests,     \* requests that may be underway at once
    MaxReviews    \* bound: product_reviews rows

ASSUME ReviewsAssumption ==
    /\ LineOf \in [Lines -> Buyers] /\ Stars \subseteq 1..5
    /\ MaxReviews \in Nat

VARIABLES
    delivered,  \* lines of delivered orders
    reviews,    \* product_reviews, by row number
    rating,     \* products.rating_avg and rating_count
    job         \* per request: what it has read and holds back

reviewVars == <<delivered, reviews, rating, job>>

-----------------------------------------------------------------------------
NoLine == "none"
Resting == [at |-> "none"]
Rows == 1..MaxReviews
NoReview == [by |-> "none", line |-> NoLine, stars |-> 0, status |-> "none"]

Written == {i \in Rows : reviews[i] # NoReview}
Uncommitted == {r \in Requests : job[r].at = "commit"}
Of(b) == {i \in Written : reviews[i].by = b}

\* decideReview: a line not yet reviewed (the newest), or one unverified review if
\* there is no line.
Decisions(b) ==
    LET mine == {l \in delivered : LineOf[l] = b}
        used == {reviews[i].line : i \in Of(b)}
    IN IF mine # {} THEN mine \ used
       ELSE IF \E i \in Of(b) : reviews[i].line = NoLine THEN {} ELSE {NoLine}

Deliver(l) ==
    /\ l \notin delivered
    /\ delivered' = delivered \cup {l}
    /\ UNCHANGED <<reviews, rating, job>>

\* create reads the customer's lines and reviews.
StartCreate(r, b, s) ==
    /\ job[r] = Resting
    /\ \E l \in Decisions(b) :
         job' = [job EXCEPT ![r] = [at |-> "create", review |-> [by |-> b, line |-> l, stars |-> s, status |-> "APPROVED"]]]
    /\ UNCHANGED <<delivered, reviews, rating>>

\* moderate reads the review.
StartModerate(r, i, status) ==
    /\ job[r] = Resting /\ i \in Written /\ reviews[i].status # status
    /\ job' = [job EXCEPT ![r] = [at |-> "moderate", row |-> i, to |-> status]]
    /\ UNCHANGED <<delivered, reviews, rating>>

\* recomputeRating: every approved review this transaction sees.
Recomputed(rs) ==
    LET approved == {i \in Rows : rs[i].status = "APPROVED"}
    IN [n |-> Cardinality(approved), sum |-> SumOf([i \in Rows |-> rs[i].stars], approved)]

\* Variant: the rating is moved by the difference.
Adjusted(rs) ==
    [n |-> rating.n + Recomputed(rs).n - Recomputed(reviews).n,
     sum |-> rating.sum + Recomputed(rs).sum - Recomputed(reviews).sum]

\* `alone' is history: no other transaction has been open since this one wrote.
HeldBack(row, review, figures) ==
    [at |-> "commit", row |-> row, review |-> review, rating |-> figures, alone |-> Uncommitted = {}]
Interrupted == [q \in Requests |-> IF q \in Uncommitted THEN [job[q] EXCEPT !.alone = FALSE] ELSE job[q]]

\* Variant: see Adjusted.
HoldingAdjusted(r, row, review) ==
    job' = [Interrupted EXCEPT ![r] = HeldBack(row, review, Adjusted([reviews EXCEPT ![row] = review]))]

Holding(r, row, review) ==
    job' = [Interrupted EXCEPT ![r] = HeldBack(row, review, Recomputed([reviews EXCEPT ![row] = review]))]

\* Rows another transaction has inserted or updated and not yet committed.
Held == {job[r].row : r \in Uncommitted}

\* The insert waits for another one of the line, and fails if it is there.
WriteCreate(r) ==
    /\ job[r].at = "create"
    /\ LET l == job[r].review.line IN
         IF l # NoLine /\ \E i \in Written : reviews[i].line = l
         THEN job' = [job EXCEPT ![r] = Resting]
         ELSE /\ l = NoLine \/ \A q \in Uncommitted : job[q].review.line # l
              /\ Rows \ (Written \cup Held) # {}
              /\ Holding(r, Min(Rows \ (Written \cup Held)), job[r].review)
    /\ UNCHANGED <<delivered, reviews, rating>>

WriteModeration(r) ==
    /\ job[r].at = "moderate" /\ job[r].row \notin Held
    /\ Holding(r, job[r].row, [reviews[job[r].row] EXCEPT !.status = job[r].to])
    /\ UNCHANGED <<delivered, reviews, rating>>

Commit(r) ==
    /\ r \in Uncommitted
    /\ reviews' = [reviews EXCEPT ![job[r].row] = job[r].review]
    /\ rating' = job[r].rating
    /\ job' = [job EXCEPT ![r] = Resting]
    /\ UNCHANGED delivered

-----------------------------------------------------------------------------
ReviewsInit ==
    /\ delivered = {}
    /\ reviews = [i \in Rows |-> NoReview]
    /\ rating = [n |-> 0, sum |-> 0]
    /\ job = [r \in Requests |-> Resting]

ReviewsNext ==
    \/ \E l \in Lines : Deliver(l)
    \/ \E r \in Requests :
         \/ WriteCreate(r) \/ WriteModeration(r) \/ Commit(r)
         \/ \E b \in Buyers, s \in Stars : StartCreate(r, b, s)
         \/ \E i \in Rows, status \in {"APPROVED", "REJECTED"} : StartModerate(r, i, status)

ReviewsSpec == ReviewsInit /\ [][ReviewsNext]_reviewVars

-----------------------------------------------------------------------------
ReviewsTypeOK ==
    /\ delivered \subseteq Lines
    /\ reviews \in [Rows -> [by : Buyers \cup {"none"}, line : Lines \cup {NoLine}, stars : Stars \cup {0},
                             status : {"APPROVED", "REJECTED", "none"}]]
    /\ rating.n \in 0..MaxReviews /\ rating.sum \in 0..(5 * MaxReviews)

Exact == rating = Recomputed(reviews)

\* "Full recompute (not +-)" (reviews.service.ts:152): whatever drift two overlapping
\* requests have left, the next one that has the reviews to itself repairs it.
RecomputeRepairs ==
    [][\A r \in Uncommitted : job[r].alone /\ job'[r] = Resting => Exact']_reviewVars

\* "So moderation flips can never drift the cached rating" (reviews.service.ts:152).
RatingNeverDrifts == Uncommitted = {} => Exact

\* "ONE unverified review per product" (review-rules.ts:6).
OneUnverified ==
    \A i, j \in Written :
        reviews[i].by = reviews[j].by /\ reviews[i].line = NoLine /\ reviews[j].line = NoLine => i = j
=============================================================================
