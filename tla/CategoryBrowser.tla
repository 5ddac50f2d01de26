-------------------------- MODULE CategoryBrowser --------------------------
(***************************************************************************)
(* The landing page and the two GET handlers it calls.  The page shows the   *)
(* list of categories or the products of the selected one, each from a query *)
(* cache (react-query, external) with one entry, and at most one request in  *)
(* flight, per key.  An answer may arrive after the selection has changed.   *)
(* The cache shows what it has while it fetches again, may send a failed     *)
(* request once more, and may drop the request of a key nothing shows.  With *)
(* the browser offline a request is paused instead of sent, and one that is  *)
(* to be sent again is paused while the page is hidden, too.                 *)
(***************************************************************************)
EXTENDS LegacyTables

CONSTANT List           \* the key of GET /api/categories

ASSUME BrowserAssumption == List \notin Name \cup {NoCategory}

VARIABLES selected,     \* selectedCategoryId
          cache,        \* the queries
          away          \* why a request may not be sent: hidden page, no network

browserVars == <<selected, cache, away>>

Key == Name \cup {NoCategory, List}

Query == [request : {"none", "paused", "sent", "found"}, known : BOOLEAN,
          failed : BOOLEAN, rows : SUBSET (Name \cup Product)]
NoQuery == [request |-> "none", known |-> FALSE, failed |-> FALSE,
            rows |-> {}]

Requested(q) == q.request # "none"

(* fetchStatus = "fetching"                                                 *)
Fetching(q) == q.request \in {"sent", "found"}

(* A request starts, unless one is open; an error is forgotten unless there *)
(* is data to show with it.                                                 *)
Fetched(q) ==
    IF Requested(q) THEN q
    ELSE [q EXCEPT !.request = IF "offline" \in away THEN "paused" ELSE "sent",
                   !.failed = q.failed /\ q.known]

(* Until told otherwise the cache takes the browser to be online.           *)
InitBrowser ==
    /\ selected = NoCategory
    /\ away = {}
    /\ cache = [k \in Key |-> IF k = List THEN Fetched(NoQuery) ELSE NoQuery]

(* The enabled queries of the page: useQuery for the list, and for the      *)
(* selected category when there is one.                                     *)
Enabled == {List} \cup ({selected} \ {NoCategory})
-----------------------------------------------------------------------------
(* handleCategoryClick, on a card of the categories view.                   *)
Select(n) ==
    /\ selected = NoCategory /\ "hidden" \notin away
    /\ cache[List].known /\ n \in cache[List].rows
    /\ selected' = n
    /\ cache' = [cache EXCEPT ![n] = Fetched(@)]
    /\ UNCHANGED <<legacyTables, away>>

(* handleBackToCategories                                                   *)
Back ==
    /\ selected # NoCategory /\ "hidden" \notin away
    /\ selected' = NoCategory
    /\ UNCHANGED <<legacyTables, cache, away>>

(* The window gets the focus back, or the browser the network.              *)
Refocus(k) ==
    /\ k \in Enabled /\ ~ Requested(cache[k])
    /\ cache' = [cache EXCEPT ![k] = Fetched(@)]
    /\ UNCHANGED <<legacyTables, selected, away>>

Cancel(k) ==
    /\ k \notin Enabled /\ Requested(cache[k])
    /\ cache' = [cache EXCEPT ![k].request = "none"]
    /\ UNCHANGED <<legacyTables, selected, away>>

GoAway(why) ==
    /\ why \notin away
    /\ away' = away \cup {why}
    /\ UNCHANGED <<legacyTables, selected, cache>>

Resumed(q) == IF q.request = "paused" THEN [q EXCEPT !.request = "sent"] ELSE q

(* Once the page is seen and online again, every paused request is sent.    *)
ComeBack(why) ==
    /\ why \in away
    /\ away' = away \ {why}
    /\ cache' = IF away' = {} THEN [k \in Key |-> Resumed(cache[k])] ELSE cache
    /\ UNCHANGED <<legacyTables, selected>>
-----------------------------------------------------------------------------
Answered(q, rows) ==
    [q EXCEPT !.request = "none", !.known = TRUE, !.failed = FALSE, !.rows = rows]

(* The answer is a status other than 200, or there is none: the cache sends *)
(* the request again, pausing first, or has done so often enough.           *)
Failed(q) == {[q EXCEPT !.request = IF away = {} THEN "sent" ELSE "paused"],
              [q EXCEPT !.request = "none", !.failed = TRUE]}

(* CategoriesService.getAllCategories                                       *)
GetAllCategories ==
    /\ cache[List].request = "sent"
    /\ cache' = [cache EXCEPT ![List] = Answered(@, Categories)]
    /\ UNCHANGED <<legacyTables, selected, away>>

(* CategoriesService.getCategoryProducts: a category that is not there is a *)
(* 404; the products are read by a second statement.                        *)
GetCategory(k) ==
    /\ k # List /\ cache[k].request = "sent"
    /\ \E q \in IF k \in Categories
              THEN {[cache[k] EXCEPT !.request = "found"]} ELSE Failed(cache[k]) :
          cache' = [cache EXCEPT ![k] = q]
    /\ UNCHANGED <<legacyTables, selected, away>>

(* Mutant: the answer goes to the category that is selected by now.         *)
ProductsToSelected(k) ==
    /\ cache[k].request = "found"
    /\ cache' = [cache EXCEPT ![k].request = "none",
                              ![selected] = Answered(@, Members(k))]
    /\ UNCHANGED <<legacyTables, selected, away>>

GetProducts(k) ==
    /\ cache[k].request = "found"
    /\ cache' = [cache EXCEPT ![k] = Answered(@, Members(k))]
    /\ UNCHANGED <<legacyTables, selected, away>>

(* A SELECT fails, which is a 500, or the server is out of reach.           *)
RequestFails(k) ==
    /\ Fetching(cache[k])
    /\ \E q \in Failed(cache[k]) : cache' = [cache EXCEPT ![k] = q]
    /\ UNCHANGED <<legacyTables, selected, away>>

Browse ==
    \/ \E n \in Name : Select(n)
    \/ \E why \in {"hidden", "offline"} : GoAway(why) \/ ComeBack(why)
    \/ Back \/ GetAllCategories
    \/ \E k \in Key : Refocus(k) \/ Cancel(k) \/ GetCategory(k) \/ GetProducts(k)
                      \/ RequestFails(k)

BrowserTyped ==
    /\ selected \in Name \cup {NoCategory}
    /\ cache \in [Key -> Query]
    /\ away \subseteq {"hidden", "offline"}
-----------------------------------------------------------------------------
IsLoading(q) == Fetching(q) /\ ~ q.known /\ ~ q.failed

(* Mutant: nothing is said of an empty list.                                *)
PartsWithoutEmpty(q) ==
    {part \in {"spinner", "alert", "cards"} :
        \/ part = "spinner" /\ IsLoading(q)
        \/ part = "alert" /\ q.failed
        \/ part = "cards" /\ q.known /\ q.rows # {}}

(* What a view shows of its query.                                          *)
Parts(q) ==
    {part \in {"spinner", "alert", "empty", "cards"} :
        \/ part = "spinner" /\ IsLoading(q)
        \/ part = "alert" /\ q.failed
        \/ part = "empty" /\ q.known /\ q.rows = {}
        \/ part = "cards" /\ q.known /\ q.rows # {}}

ProductsView == Parts(cache[selected])
CategoriesView == Parts(cache[List])
View == IF selected # NoCategory THEN ProductsView ELSE CategoriesView

(* The page never asks for a category that is not there: it knows only      *)
(* categories the server listed, and none is ever deleted.                  *)
NoNotFound == \A k \in Key \ {List} : Requested(cache[k]) => k \in Categories

(* Seen and online, the page never shows a bare title: whatever was         *)
(* clicked, answered, failed, dropped or paused, one of spinner, alert,     *)
(* notice and cards is there; and a spinner is never next to cards.         *)
NeverBlank ==
    /\ away = {} => View # {}
    /\ ~ {"spinner", "cards"} \subseteq View
=============================================================================
