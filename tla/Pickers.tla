------------------------------ MODULE Pickers -------------------------------
(***************************************************************************)
(* The two fields of the task form that compute what they give the form:   *)
(* the place (viecz-location-picker.component.ts) and the deadline         *)
(* (viecz-smart-deadline.component.ts).                                    *)
(*                                                                         *)
(* A place is found by its name, by a click on the map or by dragging its  *)
(* marker; the name of a point comes from the server later. A deadline is  *)
(* a chip with a time computed once, or a day and a time of day.           *)
(***************************************************************************)
EXTENDS Integers, FiniteSets

CONSTANTS
    Points,         \* places, each with its name and its point on the map
    Nowhere,
    Searches,       \* texts long enough to be searched for
    Asks,           \* bound: reverse geocoding requests in flight at a time
    FirstDays,      \* days the form may be opened on; day 0 is a Sunday
    LastDay,        \* bound: the clock stops that many days later
    ClockHours,     \* hours the clock shows
    ChosenHours     \* hours of the list and of the free field

ASSUME NowhereAssumption == Nowhere \notin Points \cup Searches
ASSUME ClockAssumption ==
    /\ FirstDays \subseteq Nat /\ LastDay \in Nat
    /\ ClockHours \subseteq 0..23 /\ ChosenHours \subseteq 0..23

VARIABLES
    map,            \* "none", "made" or "loaded"
    typed,          \* searchText as a search, or Nowhere
    searching,      \* the search whose answer is awaited, or Nowhere
    suggestions,    \* the search the list is of, or Nowhere
    listOpen,       \* showSuggestions
    marker, position,
    value,          \* what the form is given: a point, and whether it has a name
    asks,           \* the point each reverse request is about, or Nowhere
    hasty           \* ghost: the last choice did not wait for a name, or for the map

placeVars == <<map, typed, searching, suggestions, listOpen, marker, position, value, asks,
               hasty>>

VARIABLES
    now, opened,    \* hours since day 0: the clock, and when the chips were computed
    today,          \* todayDate, computed when first used
    dmode, preset, customDay, customHour, deadline, chosenAt

deadlineVars == <<now, opened, today, dmode, preset, customDay, customHour, deadline, chosenAt>>
pickerVars == <<placeVars, deadlineVars>>

-----------------------------------------------------------------------------
(* The place                                                               *)

Choice(p, named) == [at |-> p, named |-> named]
NoChoice == Choice(Nowhere, FALSE)
Asking == \E a \in Asks : asks[a] # Nowhere

PlaceInit ==
    /\ map = "none" /\ typed = Nowhere /\ searching = Nowhere
    /\ suggestions = Nowhere /\ listOpen = FALSE
    /\ marker = Nowhere /\ position = Nowhere
    /\ value = NoChoice
    /\ asks = [a \in Asks |-> Nowhere]
    /\ hasty = FALSE

(* initMap                                                                 *)
MapMade ==
    /\ map = "none"
    /\ map' = "made"
    /\ UNCHANGED <<typed, searching, suggestions, listOpen, marker, position, value, asks, hasty,
                   deadlineVars>>

MapLoaded ==
    /\ map = "made"
    /\ map' = "loaded"
    /\ marker' = IF position = Nowhere THEN marker ELSE position
    /\ UNCHANGED <<typed, searching, suggestions, listOpen, position, value, asks, hasty,
                   deadlineVars>>

(* onSearchChange: less than two letters empty the list and search nothing *)
Type(text) ==
    /\ typed' = text /\ listOpen' = TRUE
    /\ suggestions' = IF text = Nowhere THEN Nowhere ELSE suggestions
    /\ UNCHANGED <<map, searching, marker, position, value, asks, hasty, deadlineVars>>

(* initSearchPipeline, 300 ms later: a new search takes the place of the   *)
(* one in flight, the same text as before is not searched again.           *)
StartSearch ==
    /\ typed # Nowhere /\ typed # searching
    /\ searching' = typed
    /\ UNCHANGED <<map, typed, suggestions, listOpen, marker, position, value, asks, hasty,
                   deadlineVars>>

SuggestionsArrive ==
    /\ searching # Nowhere
    /\ suggestions' = searching
    /\ UNCHANGED <<map, typed, searching, listOpen, marker, position, value, asks, hasty,
                   deadlineVars>>

(* onBlur, 200 ms later                                                    *)
Blur ==
    /\ listOpen
    /\ listOpen' = FALSE
    /\ UNCHANGED <<map, typed, searching, suggestions, marker, position, value, asks, hasty,
                   deadlineVars>>

(* selectPlace: the marker needs a map.                                    *)
SelectPlace(p) ==
    /\ listOpen /\ suggestions # Nowhere
    /\ suggestions' = Nowhere /\ listOpen' = FALSE
    /\ value' = Choice(p, TRUE)
    /\ IF map = "none" THEN UNCHANGED <<marker, position>>
                       ELSE marker' = p /\ position' = p
    /\ hasty' = (map = "none" \/ Asking)
    /\ UNCHANGED <<map, typed, searching, asks, deadlineVars>>

AskName(p, a) ==
    /\ asks[a] = Nowhere
    /\ asks' = [asks EXCEPT ![a] = p]

(* A click on the map                                                      *)
ClickMap(p, a) ==
    /\ map # "none"
    /\ marker' = p /\ position' = p
    /\ AskName(p, a)
    /\ hasty' = Asking
    /\ UNCHANGED <<map, typed, searching, suggestions, listOpen, value, deadlineVars>>

DragMarker(p, a) ==
    /\ marker # Nowhere
    /\ marker' = p /\ position' = p
    /\ AskName(p, a)
    /\ hasty' = Asking
    /\ UNCHANGED <<map, typed, searching, suggestions, listOpen, value, deadlineVars>>

(* reverseGeocode, without a name when none was found or it failed. The    *)
(* answer is taken whatever was chosen since.                              *)
NameArrives(a) ==
    /\ asks[a] # Nowhere
    /\ \E named \in BOOLEAN : value' = Choice(asks[a], named)
    /\ asks' = [asks EXCEPT ![a] = Nowhere]
    /\ UNCHANGED <<map, typed, searching, suggestions, listOpen, marker, position, hasty, deadlineVars>>

(* writeValue with the place of the task being edited                      *)
FormGivesPlace(p) ==
    /\ value = NoChoice /\ ~Asking
    /\ value' = Choice(p, TRUE) /\ position' = p
    /\ marker' = IF map = "none" THEN marker ELSE p
    /\ hasty' = FALSE
    /\ UNCHANGED <<map, typed, searching, suggestions, listOpen, asks, deadlineVars>>

PlaceNext ==
    \/ MapMade \/ MapLoaded \/ StartSearch \/ SuggestionsArrive \/ Blur
    \/ \E text \in Searches \cup {Nowhere} : Type(text)
    \/ \E p \in Points : SelectPlace(p) \/ FormGivesPlace(p)
    \/ \E p \in Points, a \in Asks : ClickMap(p, a) \/ DragMarker(p, a)
    \/ \E a \in Asks : NameArrives(a)

-----------------------------------------------------------------------------
(* The deadline                                                            *)

Unset == -1
NoPreset == "none"

Day(t) == t \div 24
At(day, hour) == day * 24 + hour
Weekday(day) == day % 7
Weekend(day) == Weekday(day) \in {0, 6}
DaysToMonday(day) == LET ahead == (8 - Weekday(day)) % 7 IN IF ahead = 0 THEN 7 ELSE ahead

(* The chips, computed the first time they are drawn and never again. On a *)
(* Saturday the next weekend is the day itself.                            *)
Presets(t) ==
    LET d == Day(t)
    IN  (IF t % 24 < 22 THEN {[key |-> "tonightTenPm", at |-> At(d, 22)]} ELSE {})
        \cup {[key |-> "tomorrowMorning", at |-> At(d + 1, 9)],
              [key |-> "tomorrowEvening", at |-> At(d + 1, 18)],
              [key |-> IF Weekend(d) THEN "nextWeekend" ELSE "thisWeekend",
               at |-> At(d + 6 - Weekday(d), 18)],
              [key |-> "nextWeek", at |-> At(d + DaysToMonday(d), 18)]}

DeadlineInit ==
    /\ now \in {At(d, h) : d \in FirstDays, h \in ClockHours} /\ opened = now
    /\ today = Unset
    /\ dmode = "chips" /\ preset = NoPreset
    /\ customDay = Unset /\ customHour = 9
    /\ deadline = Unset /\ chosenAt = now

Tick ==
    /\ \E t \in {At(d, h) : d \in Day(now)..Day(opened) + LastDay, h \in ClockHours} :
          t > now /\ now' = t
    /\ UNCHANGED <<opened, today, dmode, preset, customDay, customHour, deadline, chosenAt, placeVars>>

(* onPresetClick                                                           *)
ClickPreset(p) ==
    /\ preset' = p.key /\ dmode' = "chips"
    /\ deadline' = p.at /\ chosenAt' = now
    /\ UNCHANGED <<now, opened, today, customDay, customHour, placeVars>>

(* emitCustomValue: without a time of day it fails before it gives the     *)
(* form anything, and the deadline stays what it was.                      *)
EmitCustom(day, hour) ==
    /\ customDay' = day /\ customHour' = hour
    /\ deadline' = CASE day = Unset -> Unset
                     [] day # Unset /\ hour = Unset -> deadline
                     [] OTHER -> At(day, hour)
    /\ chosenAt' = now

TodayDate == IF today = Unset THEN Day(now) ELSE today

ClickCustom ==
    /\ dmode' = "custom" /\ preset' = NoPreset
    /\ today' = TodayDate
    /\ EmitCustom(IF customDay = Unset THEN TodayDate ELSE customDay, customHour)
    /\ UNCHANGED <<now, opened, placeVars>>

ChangeDay(day) ==
    /\ dmode = "custom"
    /\ EmitCustom(day, customHour)
    /\ UNCHANGED <<now, opened, today, dmode, preset, placeVars>>

ChangeHour(hour) ==
    /\ dmode = "custom"
    /\ EmitCustom(customDay, hour)
    /\ UNCHANGED <<now, opened, today, dmode, preset, placeVars>>

Clear ==
    /\ deadline # Unset
    /\ dmode' = "chips" /\ preset' = NoPreset
    /\ customDay' = Unset /\ customHour' = 9
    /\ deadline' = Unset /\ chosenAt' = now
    /\ UNCHANGED <<now, opened, today, placeVars>>

(* writeValue with the deadline of the task being edited                   *)
FormGivesDeadline(t) ==
    /\ deadline = Unset
    /\ deadline' = t /\ chosenAt' = now
    /\ dmode' = "custom" /\ customDay' = Day(t) /\ customHour' = t % 24
    /\ today' = TodayDate
    /\ UNCHANGED <<now, opened, preset, placeVars>>

DeadlineNext ==
    \/ Tick \/ ClickCustom \/ Clear
    \/ \E p \in Presets(opened) : ClickPreset(p)
    \/ \E day \in FirstDays \cup {Unset} : ChangeDay(day)
    \/ \E hour \in ChosenHours \cup {Unset} : ChangeHour(hour)
    \/ \E d \in FirstDays : FormGivesDeadline(At(d, 10))

-----------------------------------------------------------------------------
PickersTypeOK ==
    /\ map \in {"none", "made", "loaded"}
    /\ {typed, searching, suggestions} \subseteq Searches \cup {Nowhere}
    /\ {listOpen, hasty} \subseteq BOOLEAN
    /\ {marker, position} \subseteq Points \cup {Nowhere}
    /\ value \in [at : Points \cup {Nowhere}, named : BOOLEAN]
    /\ asks \in [Asks -> Points \cup {Nowhere}]
    /\ {now, opened, chosenAt} \subseteq Nat
    /\ today \in {Unset} \cup Nat
    /\ dmode \in {"chips", "custom"}
    /\ preset \in {NoPreset, "tonightTenPm", "tomorrowMorning", "tomorrowEvening",
                   "thisWeekend", "nextWeekend", "nextWeek"}
    /\ customDay \in {Unset} \cup Nat /\ customHour \in {Unset} \cup 0..23
    /\ deadline \in {Unset} \cup Nat

(* A place that is chosen when no name is being asked for, and when there  *)
(* is a map, is what the form is given once its name is known or failed,   *)
(* and is where the marker is, whatever was chosen and searched before. A  *)
(* choice made while a name is still asked for may be replaced by the      *)
(* earlier one when that name comes.                                       *)
PlaceIsMarked == ~Asking /\ ~hasty => value.at = position

(* A chip pressed on the day it was computed, before tonight's hour, is a  *)
(* deadline still ahead. The exception is the next weekend on a Saturday,  *)
(* which is six in the evening of the same day.                            *)
PresetIsAhead ==
    dmode = "chips" /\ preset # NoPreset /\ Day(chosenAt) = Day(opened)
        /\ (preset = "tonightTenPm" => chosenAt % 24 < 22)
        /\ ~(preset = "nextWeekend" /\ Weekday(Day(opened)) = 6)
      => deadline > chosenAt
=============================================================================
