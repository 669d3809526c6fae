------------------------------ MODULE Shelves ------------------------------
(***************************************************************************)
(* What stands where: the sections of the shop, their two levels of        *)
(* categories and the products in them, under several managers.            *)
(*                                                                         *)
(* Transactions are READ COMMITTED: each is a step that reads and decides  *)
(* and a step that writes. Abstracted: names, slugs, images, sort order    *)
(* and the visibility of a category; prices are PriceBook's.               *)
(***************************************************************************)
EXTENDS Naturals, FiniteSets

CONSTANTS
    Sections,
    Categories,
    SectionFor,   \* the section of a category, which never changes
    ParentOf,     \* {} for a root, else the root above it
    Products,
    Managers

ASSUME ShelvesAssumption ==
    /\ Sections # {}
    /\ SectionFor \in [Categories -> Sections]
    /\ ParentOf \in [Categories -> SUBSET Categories]
    /\ \A c \in Categories : \A r \in ParentOf[c] :
         ParentOf[c] = {r} /\ ParentOf[r] = {} /\ SectionFor[r] = SectionFor[c]

VARIABLES
    section,    \* sections: none, hidden or visible
    category,   \* categories: none, live or deleted
    place,      \* products: none, live or deleted, and where they stand
    task        \* per manager: the transaction under way

shelfVars == <<section, category, place, task>>

-----------------------------------------------------------------------------
NoTask == [at |-> "idle"]
NoPlace == [state |-> "none", cat |-> "none", sub |-> {}]

Roots == {c \in Categories : ParentOf[c] = {}}
Under(c) == {x \in Categories : ParentOf[x] = {c}}
Known == {p \in Products : place[p] # NoPlace}
OnSale == {p \in Known : place[p].state = "live"}
OthersVisible(s) == {x \in Sections \ {s} : section[x] = "visible"} # {}
Ends(m) == task' = [task EXCEPT ![m] = NoTask]

\* Every change of a product moves its version: an edit that has read it is refused.
MovesVersion(ms, ps) ==
    task' = [m \in Managers |-> IF m \in ms \/ (task[m].at = "edit" /\ task[m].of \cap ps # {}) THEN NoTask ELSE task[m]]

\* Variant: the sections are not locked.
SectionsOpen == TRUE

\* update and remove hold every section FOR UPDATE; a row that refers to a section
\* takes it FOR KEY SHARE and waits as well.
SectionsFree == \A m \in Managers : task[m].at \notin {"showSection", "dropSection"}

\* placement: a live root, and nothing or a live child of it.
Placements ==
    UNION {{[state |-> "live", cat |-> r, sub |-> x] : x \in {{}} \cup {{c} : c \in {y \in Under(r) : category[y] = "live"}}}
             : r \in {c \in Roots : category[c] = "live"}}

\* The foreign keys of a product's row.
RowsExist(at) ==
    section[SectionFor[at.cat]] # "none" /\ \A c \in {at.cat} \cup at.sub : category[c] # "none"

-----------------------------------------------------------------------------
\* Sections
CreateSection(s, state) ==
    /\ section[s] = "none"
    /\ section' = [section EXCEPT ![s] = state]
    /\ UNCHANGED <<category, place, task>>

ReadShowSection(m, s, state) ==
    /\ task[m] = NoTask /\ SectionsFree
    /\ section[s] # "none"
    /\ state = "hidden" /\ section[s] = "visible" => OthersVisible(s)
    /\ task' = [task EXCEPT ![m] = [at |-> "showSection", of |-> s, to |-> state]]
    /\ UNCHANGED <<section, category, place>>

ShowSection(m) ==
    /\ task[m].at = "showSection"
    /\ section' = [section EXCEPT ![task[m].of] = task[m].to]
    /\ Ends(m) /\ UNCHANGED <<category, place>>

\* Only an empty section; products count even when they are deleted.
ReadDropSection(m, s) ==
    /\ task[m] = NoTask /\ SectionsFree
    /\ section[s] # "none"
    /\ \A c \in Categories : SectionFor[c] = s => category[c] # "live"
    /\ \A p \in Known : SectionFor[place[p].cat] # s
    /\ section[s] = "visible" => OthersVisible(s)
    /\ task' = [task EXCEPT ![m] = [at |-> "dropSection", of |-> s]]
    /\ UNCHANGED <<section, category, place>>

DropSection(m) ==
    /\ task[m].at = "dropSection"
    /\ section' = [section EXCEPT ![task[m].of] = "none"]
    /\ category' = [c \in Categories |-> IF SectionFor[c] = task[m].of THEN "none" ELSE category[c]]
    /\ Ends(m) /\ UNCHANGED <<place>>

\* Categories
ReadAddCategory(m, c) ==
    /\ task[m] = NoTask /\ category[c] = "none"
    /\ section[SectionFor[c]] # "none"
    /\ \A r \in ParentOf[c] : category[r] = "live"
    /\ task' = [task EXCEPT ![m] = [at |-> "addCategory", of |-> c]]
    /\ UNCHANGED <<section, category, place>>

\* The insert: rolled back by its foreign keys, or by another one of the name.
AddCategory(m) ==
    /\ task[m].at = "addCategory" /\ SectionsFree
    /\ LET c == task[m].of IN
         IF category[c] = "none" /\ section[SectionFor[c]] # "none" /\ \A r \in ParentOf[c] : category[r] # "none"
         THEN category' = [category EXCEPT ![c] = "live"] ELSE UNCHANGED category
    /\ Ends(m) /\ UNCHANGED <<section, place>>

ReadRemoveCategory(m, c) ==
    /\ task[m] = NoTask /\ category[c] = "live"
    /\ LET gone == {c} \cup {x \in Under(c) : category[x] = "live"} IN
         /\ \A p \in OnSale : ({place[p].cat} \cup place[p].sub) \cap gone = {}
         /\ task' = [task EXCEPT ![m] = [at |-> "removeCategory", of |-> gone]]
    /\ UNCHANGED <<section, category, place>>

RemoveCategory(m) ==
    /\ task[m].at = "removeCategory"
    /\ IF \A c \in task[m].of : category[c] # "none"
       THEN category' = [c \in Categories |-> IF c \in task[m].of THEN "deleted" ELSE category[c]]
       ELSE UNCHANGED category
    /\ Ends(m) /\ UNCHANGED <<section, place>>

-----------------------------------------------------------------------------
\* Products. A create, an edit or a bulk move looks for the placement, and writes it.
ReadPlace(m, kind, ps, at) ==
    /\ task[m] = NoTask /\ ps # {}
    /\ \A p \in ps : place[p] = NoPlace <=> kind = "create"
    /\ kind # "create" => ps \subseteq OnSale
    /\ kind # "move" => \E p \in ps : ps = {p}
    /\ task' = [task EXCEPT ![m] = [at |-> kind, of |-> ps, place |-> at]]
    /\ UNCHANGED <<section, category, place>>

\* The products of a move are looked for by id only: they may be deleted by then.
WritePlace(m) ==
    /\ task[m].at \in {"create", "edit", "move"} /\ SectionsFree
    /\ LET t == task[m] IN
         IF RowsExist(t.place) /\ (t.at = "create" => t.of \cap Known = {})
         THEN /\ place' = [p \in Products |-> IF p \in t.of THEN [t.place EXCEPT !.state = IF t.at = "create" THEN "live" ELSE place[p].state]
                                              ELSE place[p]]
              /\ MovesVersion({m}, t.of)
         ELSE Ends(m) /\ UNCHANGED place
    /\ UNCHANGED <<section, category>>

\* An edit whose version was moved by a change of another column.
RefuseEdit(m) ==
    /\ task[m].at = "edit"
    /\ Ends(m) /\ UNCHANGED <<section, category, place>>

RemoveProducts(ps) ==
    /\ ps # {} /\ ps \subseteq OnSale
    /\ place' = [p \in Products |-> IF p \in ps THEN [place[p] EXCEPT !.state = "deleted"] ELSE place[p]]
    /\ MovesVersion({}, ps)
    /\ UNCHANGED <<section, category>>

\* restore looks at the category, not at the sub-category.
ReadRestore(m, p) ==
    /\ task[m] = NoTask /\ p \in Known \ OnSale
    /\ category[place[p].cat] = "live"
    /\ task' = [task EXCEPT ![m] = [at |-> "restore", of |-> p]]
    /\ UNCHANGED <<section, category, place>>

Restore(m) ==
    /\ task[m].at = "restore"
    /\ place' = [place EXCEPT ![task[m].of].state = "live"]
    /\ MovesVersion({m}, {task[m].of}) /\ UNCHANGED <<section, category>>

-----------------------------------------------------------------------------
\* A shop that is open: every section shown, with its root categories.
ShelvesInit ==
    /\ section = [s \in Sections |-> "visible"]
    /\ category = [c \in Categories |-> IF c \in Roots THEN "live" ELSE "none"]
    /\ place = [p \in Products |-> NoPlace]
    /\ task = [m \in Managers |-> NoTask]

ShelvesNext ==
    \/ \E s \in Sections, state \in {"hidden", "visible"} : CreateSection(s, state)
    \/ \E ps \in SUBSET Products : RemoveProducts(ps)
    \/ \E m \in Managers :
         \/ ShowSection(m) \/ DropSection(m) \/ AddCategory(m) \/ RemoveCategory(m)
         \/ WritePlace(m) \/ RefuseEdit(m) \/ Restore(m)
         \/ \E s \in Sections : ReadDropSection(m, s) \/ \E state \in {"hidden", "visible"} : ReadShowSection(m, s, state)
         \/ \E c \in Categories : ReadAddCategory(m, c) \/ ReadRemoveCategory(m, c)
         \/ \E p \in Products : ReadRestore(m, p)
         \/ \E kind \in {"create", "edit", "move"}, ps \in SUBSET Products, at \in Placements : ReadPlace(m, kind, ps, at)

ShelvesSpec == ShelvesInit /\ [][ShelvesNext]_shelfVars

-----------------------------------------------------------------------------
\* The states of the schema's rows.
ShelvesTypeOK ==
    /\ section \in [Sections -> {"none", "hidden", "visible"}]
    /\ category \in [Categories -> {"none", "live", "deleted"}]
    /\ \A p \in Known : place[p].state \in {"live", "deleted"} /\ place[p].cat \in Roots /\ place[p].sub \subseteq Under(place[p].cat)

\* "Lock every section so two managers cannot hide the last two visible ones at once"
\* (section-admin.service.ts:32), nor hide one and delete the other.
SomeSectionVisible == \E s \in Sections : section[s] = "visible"

\* Rows whose section is deleted go with it (section-admin.service.ts:101 and the foreign
\* keys): nothing stands in a section that is not there.
NothingOutside ==
    /\ \A c \in Categories : category[c] # "none" => section[SectionFor[c]] # "none"
    /\ \A p \in Known : section[SectionFor[place[p].cat]] # "none" /\ category[place[p].cat] # "none"

\* What the lock on the sections is for.
SectionsKept == SomeSectionVisible /\ NothingOutside

\* "Main category must be a live root; sub-category must be a live child of it"
\* (product-guards.ts:12), while a product is on sale.
ListingsPlaced ==
    \A p \in OnSale : \A c \in {place[p].cat} \cup place[p].sub : category[c] = "live"

\* A live sub-category has a live category above it: "only when no live product uses it
\* (or its sub-categories)" (category-admin.service.ts:130) deletes them together.
SubsUnderLive == \A c \in Categories : category[c] = "live" => \A r \in ParentOf[c] : category[r] = "live"
=============================================================================
