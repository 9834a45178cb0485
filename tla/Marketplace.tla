---------------------------- MODULE Marketplace -----------------------------
(***************************************************************************)
(* The marketplace page of the web client                                  *)
(* (web/src/app/marketplace/marketplace.component.ts), with the category   *)
(* chips and the geolocation service it uses.                              *)
(*                                                                         *)
(* The page loads tasks by pages, for a text, a category and, near the     *)
(* user, a place.  Requests are never cancelled, and each answer is        *)
(* applied when it arrives (a first page not before a minimal time).  What *)
(* is on the page is recorded as the pages of the results it consists of.  *)
(***************************************************************************)
EXTENDS Integers, Sequences

CONSTANTS
    Texts,          \* what is typed into the search field
    Categories,     \* and "0", all of them, is one
    Queries,        \* bound: requests in flight at a time
    MaxPages        \* bound: pages of the results of a search

ASSUME MaxPagesAssumption == MaxPages \in Nat \ {0}

VARIABLES
    search, category,   \* the filter on screen
    searchTimer,        \* typing has stopped less than 300 ms ago
    tasks,              \* pages of results that are shown
    page,
    loading, loadingMore, hasMore, error,
    viewMode,           \* "list" or "map"
    nearMe,             \* nearMeActive
    place,              \* the position of the device: "unknown", "known", "denied"
    locating,           \* the device has been asked for its position
    asked,              \* requests in flight
    overlapped          \* a request was sent while another was in flight

filterVars == <<search, category, searchTimer>>
taskVars == <<tasks, page, loading, loadingMore, hasMore, error>>
viewVars == <<viewMode, nearMe, place, locating>>
marketVars == <<filterVars, taskVars, viewVars, asked, overlapped>>

Filter == [text: Texts, category: Categories, at: {"anywhere", "near", "area"}]
Piece == [filter: Filter, page: 1..MaxPages + 1, full: BOOLEAN]
NoTasks == [op |-> "none"]
Query == {NoTasks} \cup [op: {"first", "more", "area"}, filter: Filter,
                               page: 1..MaxPages + 1]

(* The parameters of list: buildGeoParams adds the position.               *)
CurrentFilter ==
    [text |-> search, category |-> category,
     at |-> IF nearMe /\ place = "known" THEN "near" ELSE "anywhere"]

(* What is drawn below the chips: the map goes before an error, and an     *)
(* error before what has been loaded.                                      *)
Screen ==
    IF viewMode = "map" THEN "map"
    ELSE IF error THEN "error"
    ELSE IF loading /\ tasks = <<>> THEN "skeleton"
    ELSE "list"

InFlight == {r \in Queries : asked[r] # NoTasks}

Send(r, op, filter, p) ==
    /\ asked[r] = NoTasks
    /\ asked' = [asked EXCEPT ![r] = [op |-> op, filter |-> filter, page |-> p]]

(* Mutant of ResetAndLoad: the page stays where it was.                    *)
ReloadSamePage(r) ==
    /\ tasks' = <<>> /\ hasMore' = TRUE /\ error' = FALSE
    /\ loading' = TRUE
    /\ Send(r, "first", CurrentFilter', page)
    /\ overlapped' = (InFlight # {})
    /\ UNCHANGED <<page, loadingMore>>

(* resetAndLoad, for the filter as it is after the step                    *)
ResetAndLoad(r) ==
    /\ page' = 1 /\ tasks' = <<>> /\ hasMore' = TRUE /\ error' = FALSE
    /\ loading' = TRUE
    /\ Send(r, "first", CurrentFilter', 1)
    /\ overlapped' = (InFlight # {})
    /\ UNCHANGED loadingMore

(* ngOnInit                                                                *)
MarketInit ==
    /\ search \in Texts /\ category = "0" /\ "0" \in Categories
    /\ searchTimer = FALSE
    /\ tasks = <<>> /\ page = 1
    /\ loading = TRUE /\ loadingMore = FALSE /\ hasMore = TRUE /\ error = FALSE
    /\ viewMode = "list" /\ nearMe = FALSE
    /\ place = "unknown" /\ locating = FALSE
    /\ LET r == CHOOSE q \in Queries : TRUE
       IN  asked = [q \in Queries |->
                     IF q = r THEN [op |-> "first", filter |-> CurrentFilter, page |-> 1]
                     ELSE NoTasks]
    /\ overlapped = FALSE

-----------------------------------------------------------------------------
(* The user                                                                *)

(* onSearchInput                                                           *)
TypeSearch(text) ==
    /\ text # search
    /\ search' = text
    /\ searchTimer' = TRUE
    /\ UNCHANGED <<category, taskVars, viewVars, asked, overlapped>>

SearchTimerFires(r) ==
    /\ searchTimer
    /\ searchTimer' = FALSE
    /\ UNCHANGED <<search, category, viewVars>>
    /\ ResetAndLoad(r)

(* onSelect of a chip, onCategoryChange                                    *)
ChooseCategory(c, r) ==
    /\ category' = c
    /\ UNCHANGED <<search, searchTimer, viewVars>>
    /\ ResetAndLoad(r)

(* toggleNearMe, from the map                                              *)
ShowList(r) ==
    /\ viewMode = "map"
    /\ viewMode' = "list" /\ nearMe' = FALSE
    /\ UNCHANGED <<filterVars, place, locating>>
    /\ ResetAndLoad(r)

(* toggleNearMe, from the list; the position is asked for once             *)
ShowMap(r) ==
    /\ viewMode = "list"
    /\ viewMode' = "map"
    /\ UNCHANGED <<filterVars, place>>
    /\ IF place = "known"
       THEN /\ nearMe' = TRUE
            /\ UNCHANGED locating
            /\ ResetAndLoad(r)
       ELSE /\ locating' = TRUE
            /\ UNCHANGED <<nearMe, taskVars, asked, overlapped>>

(* The device answers, on whatever view the page is by then.               *)
Located(r) ==
    /\ locating
    /\ place' = "known" /\ locating' = FALSE /\ nearMe' = TRUE
    /\ UNCHANGED <<filterVars, viewMode>>
    /\ ResetAndLoad(r)

LocationRefused ==
    /\ locating
    /\ locating' = FALSE
    /\ place' \in {place, "denied"}
    /\ UNCHANGED <<filterVars, taskVars, viewMode, nearMe, asked, overlapped>>

(* onAreaSearch, asked for by the map                                      *)
AreaSearch(r) ==
    /\ Screen = "map"
    /\ loading' = TRUE
    /\ Send(r, "area", [text |-> search, category |-> category, at |-> "area"], 1)
    /\ overlapped' = (overlapped \/ InFlight # {})
    /\ UNCHANGED <<filterVars, viewVars, tasks, page, loadingMore, hasMore, error>>

(* onScroll, loadMore                                                      *)
ScrollDown(r) ==
    /\ ~loadingMore /\ hasMore
    /\ page <= MaxPages
    /\ loadingMore' = TRUE
    /\ Send(r, "more", CurrentFilter, page + 1)
    /\ overlapped' = (overlapped \/ InFlight # {})
    /\ UNCHANGED <<filterVars, viewVars, tasks, page, loading, hasMore, error>>

(* retryLoad, offered by the error page                                    *)
Retry(r) ==
    /\ Screen = "error"
    /\ UNCHANGED <<filterVars, viewVars>>
    /\ ResetAndLoad(r)

-----------------------------------------------------------------------------
(* Answers; a page that is not full is the last one.                       *)

QueryAnswered(r) == asked' = [asked EXCEPT ![r] = NoTasks]

PieceOf(r, full) ==
    [filter |-> asked[r].filter, page |-> asked[r].page, full |-> full]

FirstPageArrives(r, full) ==
    /\ asked[r].op = "first"
    /\ tasks' = <<PieceOf(r, full)>>
    /\ hasMore' = full
    /\ loading' = FALSE
    /\ QueryAnswered(r)
    /\ UNCHANGED <<filterVars, viewVars, page, loadingMore, error, overlapped>>

FirstPageFails(r) ==
    /\ asked[r].op = "first"
    /\ loading' = FALSE /\ error' = TRUE
    /\ QueryAnswered(r)
    /\ UNCHANGED <<filterVars, viewVars, tasks, page, loadingMore, hasMore, overlapped>>

NextPageArrives(r, full) ==
    /\ asked[r].op = "more"
    /\ Len(tasks) <= MaxPages
    /\ tasks' = Append(tasks, PieceOf(r, full))
    /\ page' = asked[r].page
    /\ hasMore' = full
    /\ loadingMore' = FALSE
    /\ QueryAnswered(r)
    /\ UNCHANGED <<filterVars, viewVars, loading, error, overlapped>>

NextPageFails(r) ==
    /\ asked[r].op = "more"
    /\ loadingMore' = FALSE
    /\ QueryAnswered(r)
    /\ UNCHANGED <<filterVars, viewVars, tasks, page, loading, hasMore, error, overlapped>>

AreaAnswers(r) ==
    /\ asked[r].op = "area"
    /\ tasks' \in {tasks, <<PieceOf(r, TRUE)>>}     \* unless the search fails
    /\ loading' = FALSE
    /\ QueryAnswered(r)
    /\ UNCHANGED <<filterVars, viewVars, page, loadingMore, hasMore, error, overlapped>>

MarketNext ==
    \/ \E text \in Texts : TypeSearch(text)
    \/ LocationRefused
    \/ \E r \in Queries :
          \/ SearchTimerFires(r)
          \/ \E c \in Categories : ChooseCategory(c, r)
          \/ ShowList(r)
          \/ ShowMap(r)
          \/ Located(r)
          \/ AreaSearch(r)
          \/ ScrollDown(r)
          \/ Retry(r)
          \/ \E full \in BOOLEAN : FirstPageArrives(r, full) \/ NextPageArrives(r, full)
          \/ FirstPageFails(r)
          \/ NextPageFails(r)
          \/ AreaAnswers(r)

MarketSpec == MarketInit /\ [][MarketNext]_marketVars

-----------------------------------------------------------------------------
MarketTypeOK ==
    /\ search \in Texts /\ category \in Categories
    /\ {searchTimer, loading, loadingMore, hasMore, error, nearMe, locating,
        overlapped} \subseteq BOOLEAN
    /\ tasks \in Seq(Piece)
    /\ page \in 1..MaxPages + 1
    /\ viewMode \in {"list", "map"}
    /\ place \in {"unknown", "known", "denied"}
    /\ asked \in [Queries -> Query]

(* As long as requests do not overlap, the list, unless an error is shown  *)
(* instead, is what the filter on screen finds: its pages from the first   *)
(* on, each once and in order, with nothing after the last, across every   *)
(* change of text, category, view and place, and every failure.            *)
ListIsOfFilter ==
    Screen \in {"skeleton", "list"} /\ ~searchTimer /\ ~overlapped =>
        /\ tasks # <<>> => page = Len(tasks)
        /\ \A i \in DOMAIN tasks :
              /\ tasks[i].filter = CurrentFilter
              /\ tasks[i].page = i
              /\ i < Len(tasks) => tasks[i].full
=============================================================================
