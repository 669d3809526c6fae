----------------------------- MODULE MCAccounts -----------------------------
(* People and what they edit, one part at a time: two browsers of one      *)
(* account, one with two tabs; three members of staff; two tabs of a       *)
(* customer and an agent; two buyers of a product, one with two            *)
(* deliveries; two managers on the shelves and on the price of a product;  *)
(* two of them on the shipments of an order.                               *)
EXTENDS Sessions, StaffAccounts, SupportChat, Reviews, Shelves, PriceBook, Shipments, TLC

CONSTANTS b1, b2, ta, tb, tc, q1, q2, s1, s2, s3, v1, v2, g1, g2, y1, y2, l1, l2, j1, j2, e1, e2, r1, r2, r3, x1, m1, m2, z1, z2

MCBrowsers  == {b1, b2}
MCTabs      == {ta, tb, tc}
MCBrowserOf == (ta :> b1) @@ (tb :> b1) @@ (tc :> b2)
MCCalls     == {q1, q2}
MCStaff     == {s1, s2, s3}
MCThreads   == {1, 2}
MCChatTabs  == {v1, v2}
OneAgent    == {g1}
TwoAgents   == {g1, g2}
MCBuyers    == {y1, y2}
MCLines     == {l1, l2}
MCLineOf    == (l1 :> y1) @@ (l2 :> y1)
MCStars     == {1, 5}
MCRequests  == {j1, j2}
MCSections   == {e1, e2}
MCCategories == {r1, r2, r3}
MCSectionFor == (r1 :> e1) @@ (r2 :> e2) @@ (r3 :> e1)
MCParentOf   == (r1 :> {}) @@ (r2 :> {}) @@ (r3 :> {r1})
MCProducts   == {x1}
MCManagers   == {m1, m2}
MCCouriers   == {z1, z2}
MCCharges    == {1}
Alike == Permutations(MCCalls)

VARIABLE part

deskVars == <<shelfVars, priceVars, shipmentVars>>
peopleVars == <<sessionVars, staffVars, chatVars, reviewVars>>

Parts == {"sessions", "staff", "chat", "reviews", "shelves", "prices", "shipments"}
AccountsInit ==
    /\ part \in Parts /\ SessionsInit /\ StaffInit /\ ChatInit /\ ReviewsInit
    /\ ShelvesInit /\ PriceBookInit /\ ShipmentsInit
    /\ part # "staff" => role = [u \in Staff |-> "OWNER"]
    /\ part # "prices" => \A p \in Articles : article[p].price = 1
AccountsNext ==
    /\ UNCHANGED part
    /\ \/ /\ UNCHANGED deskVars
          /\ \/ part = "sessions" /\ SessionsNext /\ UNCHANGED <<staffVars, chatVars, reviewVars>>
             \/ part = "staff" /\ StaffNext /\ UNCHANGED <<sessionVars, chatVars, reviewVars>>
             \/ part = "chat" /\ ChatNext /\ UNCHANGED <<sessionVars, staffVars, reviewVars>>
             \/ part = "reviews" /\ ReviewsNext /\ UNCHANGED <<sessionVars, staffVars, chatVars>>
       \/ /\ UNCHANGED peopleVars
          /\ \/ part = "shelves" /\ ShelvesNext /\ UNCHANGED <<priceVars, shipmentVars>>
             \/ part = "prices" /\ PriceBookNext /\ UNCHANGED <<shelfVars, shipmentVars>>
             \/ part = "shipments" /\ ShipmentsNext /\ UNCHANGED <<shelfVars, priceVars>>
AccountsSpec == AccountsInit /\ [][AccountsNext]_<<part, peopleVars, deskVars>>

\* Every part keeps to its types, the enums of the schema; a rating and a badge never
\* go below zero.
TypesOK ==
    /\ SessionsTypeOK /\ StaffTypeOK /\ ChatTypeOK /\ ReviewsTypeOK
    /\ ShelvesTypeOK /\ PriceBookTypeOK /\ ShipmentsTypeOK
=============================================================================
