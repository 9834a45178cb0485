----------------------------- MODULE MarketMap ------------------------------
(***************************************************************************)
(* The map of the marketplace page                                         *)
(* (web/src/app/marketplace/marketplace-map.component.ts).                 *)
(*                                                                         *)
(* The map is loaded when the page asks for it.  It is moved by the user   *)
(* and by flights of the camera, and asks the page for the tasks of an     *)
(* area: around its centre, a suggestion, or the device, within the radius *)
(* of the slider.  A circle shows the area.  A place of the model is a     *)
(* neighbourhood of 200 m.                                                 *)
(***************************************************************************)
EXTENDS Integers, FiniteSets

CONSTANTS
    Places,
    Home,           \* where the map opens: the user's position or the default
    Radii,          \* radiusStops
    All,            \* the stop without a radius
    Rings,          \* RIPPLE_COUNT rings
    MaxGeocoding,   \* bound: searches for suggestions in flight
    NoPlace

ASSUME MapAssumption ==
    Home \in Places /\ All \in Radii /\ NoPlace \notin Places /\ MaxGeocoding \in Nat

VARIABLES
    mapState,       \* "importing", "created", "loaded", "failed" or "removed"
    mapLeft,        \* the map is not on the page any more
    camera,
    flight,         \* where the camera flies, and what follows
    suppress,       \* suppressCameraCallback
    areaButton,     \* showSearchAreaButton
    lastCenter,     \* lastSearchCenter
    radius,         \* the stop that sliderIndex selects
    animation,      \* the radius animation runs
    rings,          \* what each ring of the ripple does
    searched,       \* the last area that was asked for
    early,          \* an area was asked for before the map was loaded
    picked,         \* ghost: the place picked last, see PickIsSearched
    positionAsked,  \* the device has been asked for its position
    searchBar, mapSuggestions,     \* showSearchBar, suggestions
    typeTimer, geocoding,       \* the debounce timer; searches in flight
    selectedTask, drawer        \* selectedMapTaskId # null, drawerExpanded

cameraVars == <<camera, flight, suppress, areaButton>>
circleVars == <<animation, rings>>
areaVars == <<lastCenter, radius, searched, early, picked>>
searchVars == <<searchBar, mapSuggestions, typeTimer, geocoding>>
panelVars == <<selectedTask, drawer>>
mapVars == <<mapState, mapLeft, cameraVars, circleVars, areaVars, positionAsked,
             searchVars, panelVars>>

NoSearch == [at |-> NoPlace, radius |-> All]
NoFlight == [to |-> NoPlace, then |-> "none"]
HasMap == mapState \in {"created", "loaded"} /\ ~mapLeft

(* What is drawn: the map with its slider and buttons, the search bar over  *)
(* it, and the panel, or the drawer, with the tasks beside it.             *)
MapShown == mapState # "failed" /\ ~mapLeft
SearchBarShown == MapShown /\ searchBar
AreaButtonShown == HasMap /\ areaButton
TaskPanelShown == MapShown

Still == [ring \in Rings |-> "still"]

MapInit ==
    /\ mapState = "importing" /\ mapLeft = FALSE
    /\ camera = Home /\ flight = NoFlight /\ suppress = FALSE /\ areaButton = FALSE
    /\ lastCenter = NoPlace /\ radius \in Radii
    /\ animation = FALSE /\ rings = Still
    /\ searched = NoSearch /\ early = FALSE /\ picked = NoPlace /\ positionAsked = FALSE
    /\ searchBar = FALSE /\ mapSuggestions = FALSE /\ typeTimer = FALSE /\ geocoding = 0
    /\ selectedTask = FALSE /\ drawer = FALSE

(* The effect that follows the slider and the centre, once the layers of   *)
(* the map are there: what is animated is given up, and the circle grows   *)
(* anew with its rings unless all tasks are asked for.                     *)
DrawCircle ==
    IF mapState' # "loaded" \/ <<lastCenter, radius>>' = <<lastCenter, radius>>
    THEN UNCHANGED circleVars
    ELSE IF radius' = All THEN animation' = FALSE /\ rings' = Still
    ELSE animation' = TRUE /\ rings' = [ring \in Rings |-> "waiting"]

(* Mutant of AskArea: the centre is not remembered.                        *)
AskAreaOnly(place) ==
    /\ searched' = [at |-> place, radius |-> radius']
    /\ early' = (early \/ mapState = "created")
    /\ UNCHANGED lastCenter

(* areaSearchRequested, with the centre that the circle is drawn around    *)
AskArea(place) ==
    /\ searched' = [at |-> place, radius |-> radius']
    /\ lastCenter' = place
    /\ early' = (early \/ mapState = "created")

-----------------------------------------------------------------------------
(* initMap: the library arrives, whether the map is still wanted or not.   *)
CreateMap ==
    /\ mapState = "importing"
    /\ mapState' \in {"created", "failed"}
    /\ UNCHANGED <<mapLeft, cameraVars, circleVars, areaVars, positionAsked, searchVars, panelVars>>

(* load: setupGeoJsonLayers, the markers and the circle                    *)
MapLoads ==
    /\ mapState = "created" /\ ~mapLeft
    /\ mapState' = "loaded"
    /\ lastCenter' = Home
    /\ UNCHANGED <<mapLeft, cameraVars, radius, searched, early, picked, positionAsked, searchVars, panelVars>>
    /\ DrawCircle

(* The moveend listener: unless the move is suppressed, a camera away from *)
(* the centre offers the search.                                           *)
OfferSearch(at) ==
    areaButton \/ (~suppress /\ lastCenter # NoPlace /\ lastCenter # at)

MoveMap(at) ==
    /\ HasMap /\ flight = NoFlight
    /\ camera' = at /\ suppress' = FALSE /\ areaButton' = OfferSearch(at)
    /\ UNCHANGED <<mapState, mapLeft, flight, circleVars, areaVars, positionAsked, searchVars, panelVars>>

(* What waits for the end of a flight: onSearchThisArea after a            *)
(* suggestion, the search around the device.                               *)
AfterFlight(at) ==
    /\ UNCHANGED radius
    /\ CASE flight.then = "none" -> UNCHANGED <<lastCenter, searched, early>>
         [] flight.then = "search" -> AskArea(at)
         [] flight.then = "locate" -> AskArea(flight.to)

(* A suggestion is searched where its flight ends, wherever that is.       *)
PickAfter(at) == IF flight.then = "search" /\ at # flight.to THEN NoPlace ELSE picked

(* The end of a flight, at its target or where the user stops it           *)
FlightEnds(at) ==
    /\ HasMap /\ flight # NoFlight
    /\ flight' = NoFlight
    /\ camera' = at /\ suppress' = FALSE
    /\ areaButton' = (flight.then = "none" /\ OfferSearch(at))
    /\ picked' = PickAfter(at)
    /\ UNCHANGED <<mapState, mapLeft, positionAsked, searchVars, panelVars>>
    /\ AfterFlight(at)
    /\ DrawCircle

(* suppressCameraCallback and flyTo, fitBounds: a flight that is under way *)
(* ends first, and its moveend uses up the suppression.                    *)
FlyTo(place, next) ==
    /\ flight' = [to |-> place, then |-> next]
    /\ suppress' = (flight = NoFlight)
    /\ IF flight = NoFlight
       THEN /\ picked' = IF next = "none" THEN picked ELSE place
            /\ UNCHANGED <<camera, areaButton, lastCenter, radius, searched, early>>
       ELSE \E at \in Places : /\ camera' = at
                               /\ areaButton' = (flight.then = "none" /\ areaButton)
                               /\ picked' = IF next = "none" THEN PickAfter(at) ELSE place
                               /\ AfterFlight(at)

StayPut == UNCHANGED <<camera, flight, suppress, areaButton, areaVars>>

(* onSearchThisArea                                                        *)
SearchThisArea ==
    /\ AreaButtonShown
    /\ areaButton' = FALSE
    /\ picked' = IF flight.then = "none" THEN camera ELSE picked
    /\ UNCHANGED <<radius, mapState, mapLeft, camera, flight, suppress, positionAsked, searchVars, panelVars>>
    /\ AskArea(camera)
    /\ DrawCircle

(* onRadiusSliderChange                                                    *)
SlideRadius(r) ==
    /\ MapShown
    /\ radius' = r
    /\ UNCHANGED <<picked, mapState, mapLeft, cameraVars, positionAsked, searchVars, panelVars>>
    /\ IF lastCenter # NoPlace THEN AskArea(lastCenter)
       ELSE IF HasMap THEN AskArea(camera)
       ELSE UNCHANGED <<lastCenter, searched, early>>
    /\ DrawCircle

-----------------------------------------------------------------------------
(* animateValue: the frames of the circle and its rings; each ring starts  *)
(* a little later than the one before.                                     *)
CircleGrown ==
    /\ animation
    /\ animation' = FALSE
    /\ UNCHANGED <<mapState, mapLeft, cameraVars, rings, areaVars, positionAsked, searchVars, panelVars>>

RingRuns(ring) ==
    /\ rings[ring] # "still"
    /\ rings' = [rings EXCEPT ![ring] = IF @ = "waiting" THEN "running" ELSE "still"]
    /\ UNCHANGED <<mapState, mapLeft, cameraVars, animation, areaVars, positionAsked, searchVars, panelVars>>

-----------------------------------------------------------------------------
(* onMyLocationClick                                                       *)
AskPosition ==
    /\ MapShown
    /\ positionAsked' = TRUE
    /\ UNCHANGED <<mapState, mapLeft, cameraVars, circleVars, areaVars, searchVars, panelVars>>

PositionArrives(place) ==
    /\ positionAsked
    /\ positionAsked' = FALSE
    /\ UNCHANGED <<mapState, mapLeft, searchVars, panelVars>>
    /\ IF HasMap THEN FlyTo(place, "locate") ELSE StayPut
    /\ DrawCircle

(* The search bar: opened, and closed by the button or the Escape key      *)
OpenSearchBar ==
    /\ MapShown /\ ~searchBar
    /\ searchBar' = TRUE
    /\ UNCHANGED <<mapSuggestions, typeTimer, geocoding>>
    /\ UNCHANGED <<mapState, mapLeft, cameraVars, circleVars, areaVars, positionAsked, panelVars>>

CloseSearchBar ==
    /\ SearchBarShown
    /\ searchBar' = FALSE
    /\ mapSuggestions' \in {FALSE, mapSuggestions}
    /\ UNCHANGED <<typeTimer, geocoding>>
    /\ UNCHANGED <<mapState, mapLeft, cameraVars, circleVars, areaVars, positionAsked, panelVars>>

(* onSearchQueryInput: less than two characters clear the suggestions.     *)
TypePlace(enough) ==
    /\ SearchBarShown
    /\ typeTimer' = enough
    /\ IF enough THEN UNCHANGED mapSuggestions ELSE mapSuggestions' = FALSE
    /\ UNCHANGED <<searchBar, geocoding>>
    /\ UNCHANGED <<mapState, mapLeft, cameraVars, circleVars, areaVars, positionAsked, panelVars>>

TypeTimerFires ==
    /\ typeTimer /\ geocoding < MaxGeocoding
    /\ typeTimer' = FALSE
    /\ geocoding' = geocoding + 1
    /\ UNCHANGED <<searchBar, mapSuggestions>>
    /\ UNCHANGED <<mapState, mapLeft, cameraVars, circleVars, areaVars, positionAsked, panelVars>>

(* Searches are not cancelled: whichever answers last is shown.            *)
MapSuggestionsArrive(found) ==
    /\ geocoding > 0
    /\ geocoding' = geocoding - 1
    /\ mapSuggestions' = found
    /\ UNCHANGED <<searchBar, typeTimer>>
    /\ UNCHANGED <<mapState, mapLeft, cameraVars, circleVars, areaVars, positionAsked, panelVars>>

(* onSuggestionSelect                                                      *)
SelectSuggestion(place) ==
    /\ SearchBarShown /\ mapSuggestions
    /\ mapSuggestions' = FALSE /\ searchBar' = FALSE
    /\ UNCHANGED <<typeTimer, geocoding, mapState, mapLeft, positionAsked, panelVars>>
    /\ IF HasMap THEN FlyTo(place, "search") ELSE StayPut
    /\ DrawCircle

(* A click on a marker selects its task and opens the drawer, one beside   *)
(* the markers deselects; a click on the panel selects and flies there.    *)
ClickMarker(onMarker) ==
    /\ HasMap /\ mapState = "loaded"
    /\ selectedTask' = onMarker
    /\ drawer' = (drawer \/ onMarker)
    /\ UNCHANGED <<mapState, mapLeft, cameraVars, circleVars, areaVars, positionAsked, searchVars>>

ClickPanelTask(place) ==
    /\ TaskPanelShown
    /\ selectedTask' = TRUE
    /\ UNCHANGED <<mapState, mapLeft, positionAsked, searchVars, drawer>>
    /\ IF HasMap /\ place # NoPlace THEN FlyTo(place, "none") ELSE StayPut
    /\ DrawCircle

(* The tasks have changed, and with no radius the map is fitted to them.   *)
TasksChange(place) ==
    /\ mapState = "loaded" /\ ~mapLeft /\ radius = All
    /\ UNCHANGED <<mapState, mapLeft, positionAsked, searchVars, panelVars>>
    /\ FlyTo(place, "none")
    /\ DrawCircle

ToggleDrawer ==
    /\ TaskPanelShown
    /\ drawer' = ~drawer
    /\ UNCHANGED <<mapState, mapLeft, cameraVars, circleVars, areaVars, positionAsked, searchVars, selectedTask>>

(* ngOnDestroy: the timers and animations end, and the map is removed; one *)
(* that is still imported is created for nobody.                           *)
LeaveMap ==
    /\ ~mapLeft
    /\ mapLeft' = TRUE
    /\ typeTimer' = FALSE
    /\ animation' = FALSE /\ rings' = Still
    /\ mapState' = IF mapState = "importing" THEN mapState ELSE "removed"
    /\ flight' = NoFlight
    /\ UNCHANGED <<camera, suppress, areaButton, areaVars, positionAsked>>
    /\ UNCHANGED <<searchBar, mapSuggestions, geocoding, panelVars>>

(* The area and its tasks, and the search bar                              *)
AreaNext ==
    \/ CreateMap
    \/ MapLoads
    \/ \E at \in Places :
          \/ MoveMap(at)
          \/ FlightEnds(at)
          \/ PositionArrives(at)
          \/ TasksChange(at)
    \/ \E at \in Places \cup {NoPlace} : ClickPanelTask(at)
    \/ SearchThisArea
    \/ \E r \in Radii : SlideRadius(r)
    \/ CircleGrown
    \/ \E ring \in Rings : RingRuns(ring)
    \/ AskPosition
    \/ \E onMarker \in BOOLEAN : ClickMarker(onMarker)
    \/ ToggleDrawer
    \/ LeaveMap

SearchBarNext ==
    \/ OpenSearchBar
    \/ CloseSearchBar
    \/ \E enough \in BOOLEAN : TypePlace(enough)
    \/ TypeTimerFires
    \/ \E found \in BOOLEAN : MapSuggestionsArrive(found)
    \/ \E place \in Places : SelectSuggestion(place)

MapNext == AreaNext \/ SearchBarNext

MapSpec == MapInit /\ [][MapNext]_mapVars

-----------------------------------------------------------------------------
MapTypeOK ==
    /\ mapState \in {"importing", "created", "loaded", "failed", "removed"}
    /\ {mapLeft, suppress, areaButton, animation, early, positionAsked, searchBar,
        typeTimer, selectedTask, drawer} \subseteq BOOLEAN
    /\ {camera} \subseteq Places /\ lastCenter \in Places \cup {NoPlace}
    /\ flight \in [to: Places \cup {NoPlace}, then: {"none", "search", "locate"}]
    /\ radius \in Radii /\ picked \in Places \cup {NoPlace}
    /\ searched \in [at: Places \cup {NoPlace}, radius: Radii]
    /\ rings \in [Rings -> {"still", "waiting", "running"}]
    /\ mapSuggestions \in BOOLEAN /\ geocoding \in 0..MaxGeocoding

(* The circle on the map is the area whose tasks were asked for last,      *)
(* whichever of the slider, the button, a suggestion and the device asked, *)
(* unless an area was asked for before the map was loaded.                 *)
CircleIsAreaSearched ==
    ~early /\ searched # NoSearch => searched = [at |-> lastCenter, radius |-> radius]

(* Once no flight to a pick is under way, the tasks asked for last are     *)
(* those around the place that was picked last, by its suggestion, by the  *)
(* device or with the button: later flights, moves, fits to the tasks and  *)
(* other radii do not replace it. The exceptions: a suggestion whose       *)
(* flight was stopped elsewhere, by the user or by another flight, is      *)
(* searched for where it was stopped; a press of the button during a       *)
(* flight is replaced by what that flight searches for; and an area asked  *)
(* for before the map was loaded is forgotten when it loads.               *)
PickIsSearched ==
    ~early /\ ~mapLeft /\ picked # NoPlace /\ flight.then = "none" => searched.at = picked
=============================================================================
