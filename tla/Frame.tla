------------------------------- MODULE Frame --------------------------------
(***************************************************************************)
(* What surrounds every page of the web client besides the bell: the links *)
(* of the bars with the pill behind the active one (shell.component.ts),   *)
(* the snackbar every page shows its messages in, and the theme and the    *)
(* language, which the browser keeps across visits. The landing page and   *)
(* the report stand outside the frame and set a theme of their own.        *)
(***************************************************************************)
EXTENDS Integers

CONSTANTS
    Notices,    \* messages of the snackbar
    Nothing     \* no message, nothing stored

Routes == {"/marketplace", "/wallet", "/messages", "/messages/1", "/profile/1",
           "/tasks/new", "/tasks/1", "/login"}
Themes == {"light", "sang-frostglass", "dracula"}
ASSUME NothingAssumption == Nothing \notin Themes
Languages == {"vi", "en"}

VARIABLES
    member,         \* auth.isAuthenticated() of this visit
    route,          \* activeRoute
    navVisible,     \* the bars are drawn
    pill,           \* the link the pill is behind, or Nothing
    pillDue,        \* updatePill is scheduled
    scrolled,
    snack, snackShown, snackTimer,
    outside,        \* "no", or the page outside the frame
    previousTheme,  \* of the report page
    theme, themeClass, themeStored,
    language, languageStored

barVars == <<route, navVisible, pill, pillDue, scrolled>>
snackVars == <<snack, snackShown, snackTimer>>
styleVars == <<outside, previousTheme, theme, themeClass, themeStored, language, languageStored>>
frameVars == <<member, barVars, snackVars, styleVars>>

(* activeTab                                                               *)
Tab(r) == CASE r = "/marketplace" -> "marketplace"
            [] r = "/wallet" -> "wallet"
            [] r \in {"/messages", "/messages/1"} -> "chat"
            [] r = "/profile/1" -> "profile"
            [] r = "/tasks/new" -> "create"
            [] OTHER -> "other"

TopBar == {"/marketplace"} \cup (IF member THEN {} ELSE {"/login"})
DesktopNav == IF member THEN {"/marketplace", "/wallet", "/messages", "/profile/1"}
                        ELSE {"/marketplace", "/login"}
BottomBar == IF member THEN {"/marketplace", "/wallet", "/tasks/new", "/messages", "/profile/1"}
                       ELSE {}

(* loadTheme: the stored theme, else the default                           *)
LoadTheme(stored) == IF stored = Nothing THEN "sang-frostglass" ELSE stored

FrameInit ==
    /\ member \in BOOLEAN
    /\ route = "/marketplace"
    /\ navVisible = FALSE /\ pill = Nothing /\ pillDue = TRUE /\ scrolled = FALSE
    /\ snack = Nothing /\ snackShown = FALSE /\ snackTimer = FALSE
    /\ outside = "no" /\ previousTheme = Nothing
    /\ themeStored \in Themes \cup {Nothing} /\ languageStored = Nothing
    /\ theme = LoadTheme(themeStored) /\ themeClass = Nothing
    /\ language \in Languages

-----------------------------------------------------------------------------
(* The first render: the bars slide in, and the class of the theme is set. *)
ApplyClass(t) == themeClass' = IF t = "light" THEN Nothing ELSE t

FirstRender ==
    /\ outside = "no" /\ ~navVisible
    /\ navVisible' = TRUE /\ pillDue' = TRUE
    /\ ApplyClass(theme)
    /\ UNCHANGED <<member, route, pill, scrolled, snackVars, outside, previousTheme,
                   theme, themeStored, language, languageStored>>

(* updatePill: only the links of the desktop bar carry rla-active          *)
PlacePill ==
    /\ navVisible /\ pillDue
    /\ pillDue' = FALSE
    /\ IF ~member THEN UNCHANGED pill
       ELSE pill' = IF Tab(route) \in {"create", "profile", "other"} THEN Nothing ELSE Tab(route)
    /\ UNCHANGED <<member, route, navVisible, scrolled, snackVars, styleVars>>

(* The effect on activeTab runs only when the tab changes.                 *)
Navigate(r) ==
    /\ outside = "no" /\ r # route
    /\ route' = r
    /\ pillDue' = (pillDue \/ Tab(r) # Tab(route))
    /\ UNCHANGED <<member, navVisible, pill, scrolled, snackVars, styleVars>>

FollowBar(r) == r \in TopBar \cup DesktopNav \cup BottomBar /\ Navigate(r)
FollowPage(r) == (member \/ Tab(r) \in {"marketplace", "other"}) /\ Navigate(r)

Scroll ==
    /\ scrolled' = ~scrolled
    /\ UNCHANGED <<member, route, navVisible, pill, pillDue, snackVars, styleVars>>

-----------------------------------------------------------------------------
(* The snackbar has one timer: a message that replaces another starts it   *)
(* anew.                                                                   *)
ShowNotice(m) ==
    /\ snack' = m /\ snackShown' = TRUE /\ snackTimer' = TRUE
    /\ UNCHANGED <<member, barVars, styleVars>>

NoticeExpires ==
    /\ snackTimer
    /\ snackTimer' = FALSE /\ snackShown' = FALSE
    /\ UNCHANGED <<snack, member, barVars, styleVars>>

-----------------------------------------------------------------------------
SetTheme(t) == theme' = t /\ themeStored' = t /\ ApplyClass(t)
BarsGone == navVisible' = FALSE /\ pill' = Nothing /\ pillDue' = TRUE /\ scrolled' = FALSE

(* A page outside the frame destroys it.                                   *)
OpenOutside(page) ==
    /\ navVisible
    /\ outside' = page
    /\ previousTheme' = IF page = "report" THEN theme ELSE previousTheme
    /\ SetTheme("sang-frostglass")
    /\ BarsGone
    /\ UNCHANGED <<member, route, snackVars, language, languageStored>>

(* Going back creates it anew; the report restores the theme it found.     *)
LeaveOutside ==
    /\ outside # "no"
    /\ outside' = "no"
    /\ IF outside = "report" THEN SetTheme(previousTheme)
                             ELSE UNCHANGED <<theme, themeStored, themeClass>>
    /\ UNCHANGED <<member, barVars, snackVars, previousTheme, language, languageStored>>

ToggleLanguage ==
    /\ navVisible \/ outside = "landing"
    /\ language' = (IF language = "vi" THEN "en" ELSE "vi") /\ languageStored' = language'
    /\ UNCHANGED <<member, barVars, snackVars, outside, previousTheme,
                   theme, themeClass, themeStored>>

(* The page is loaded anew: the language is the stored one, else the       *)
(* browser's. The report page finds the theme it stored itself.            *)
Reload ==
    /\ navVisible \/ outside # "no"
    /\ BarsGone
    /\ snack' = Nothing /\ snackShown' = FALSE /\ snackTimer' = FALSE
    /\ previousTheme' = IF outside = "report" THEN LoadTheme(themeStored) ELSE Nothing
    /\ IF outside = "no" THEN theme' = LoadTheme(themeStored) /\ themeClass' = Nothing
                              /\ UNCHANGED themeStored
                         ELSE SetTheme("sang-frostglass")
    /\ IF languageStored = Nothing THEN language' \in Languages ELSE language' = languageStored
    /\ UNCHANGED <<member, route, outside, languageStored>>

FrameNext ==
    \/ FirstRender \/ PlacePill \/ Scroll
    \/ \E r \in Routes : FollowBar(r) \/ FollowPage(r)
    \/ \E m \in Notices : ShowNotice(m)
    \/ NoticeExpires
    \/ OpenOutside("landing") \/ OpenOutside("report") \/ LeaveOutside
    \/ ToggleLanguage
    \/ Reload

FrameSpec == FrameInit /\ [][FrameNext]_frameVars

-----------------------------------------------------------------------------
FrameTypeOK ==
    /\ {member, navVisible, pillDue, scrolled, snackShown, snackTimer} \subseteq BOOLEAN
    /\ route \in Routes
    /\ pill \in {"marketplace", "wallet", "chat", Nothing}
    /\ snack \in Notices \cup {Nothing}
    /\ outside \in {"no", "landing", "report"} /\ previousTheme \in Themes \cup {Nothing}
    /\ theme \in Themes /\ themeStored \in Themes \cup {Nothing}
    /\ themeClass \in (Themes \cup {Nothing}) \ {"light"}
    /\ language \in Languages /\ languageStored \in Languages \cup {Nothing}

(* Once nothing is scheduled, the pill is behind the link of the page on   *)
(* screen, the page wears the class of its theme, and a message on screen  *)
(* has a timer that will take it away.                                     *)
FrameFollowsPage ==
    /\ navVisible /\ member /\ ~pillDue =>
          pill = IF Tab(route) \in {"marketplace", "wallet", "chat"} THEN Tab(route) ELSE Nothing
    /\ navVisible => themeClass = IF theme = "light" THEN Nothing ELSE theme
    /\ snackShown => snackTimer
=============================================================================
