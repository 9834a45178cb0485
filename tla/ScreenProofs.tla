---------------------------- MODULE ScreenProofs ----------------------------
(***************************************************************************)
(* What the web client shows by itself: its frame, its landing page, and   *)
(* the rows, badges and fields that come from the server. For any pages,   *)
(* rows, notifications and number of requests in flight.                   *)
(***************************************************************************)
EXTENDS PagesProofs, SequenceTheorems
-----------------------------------------------------------------------------
(* The frame: its bars are drawn only around its own pages.                *)
FrameInv == FrameFollowsPage /\ (navVisible => outside = "no")

LEMMA InitFrame == FrameInit => FrameInv
  BY DEF FrameInit, FrameInv, FrameFollowsPage

LEMMA StepFrame == FrameInv /\ [FrameNext]_frameVars => FrameInv'
<1> SUFFICES ASSUME FrameInv, [FrameNext]_frameVars PROVE FrameInv'
  OBVIOUS
<1> USE DEF FrameInv, FrameFollowsPage, snackVars, styleVars, barVars
<1>1. CASE FirstRender
  BY <1>1 DEF FirstRender, ApplyClass
<1>2. CASE PlacePill
  <2>1. Tab(route) \in {"marketplace", "wallet", "chat", "profile", "create", "other"}
    BY DEF Tab
  <2> QED
    BY <1>2, <2>1 DEF PlacePill
<1>3. CASE Scroll
  BY <1>3 DEF Scroll
<1>4. ASSUME NEW r \in Routes, Navigate(r) PROVE FrameInv'
  <2>1. ~pillDue' => ~pillDue /\ Tab(route') = Tab(route)
    BY <1>4 DEF Navigate
  <2> QED
    BY <1>4, <2>1 DEF Navigate
<1>5. ASSUME NEW m \in Notices, ShowNotice(m) PROVE FrameInv'
  BY <1>5 DEF ShowNotice
<1>6. CASE NoticeExpires
  BY <1>6 DEF NoticeExpires
<1>7. ASSUME NEW site, OpenOutside(site) PROVE FrameInv'
  BY <1>7 DEF OpenOutside, BarsGone
<1>8. CASE LeaveOutside
  BY <1>8 DEF LeaveOutside
<1>9. CASE ToggleLanguage
  BY <1>9 DEF ToggleLanguage
<1>10. CASE Reload
  BY <1>10 DEF Reload, BarsGone
<1>11. CASE UNCHANGED frameVars
  BY <1>11 DEF frameVars
<1> QED
  BY <1>1, <1>2, <1>3, <1>4, <1>5, <1>6, <1>7, <1>8, <1>9, <1>10, <1>11
     DEF FrameNext, FollowBar, FollowPage

-----------------------------------------------------------------------------
(* The types of the frame: the report keeps the theme it found, which it   *)
(* gives back when it is left.                                             *)
BarTypes ==
    /\ member \in BOOLEAN /\ navVisible \in BOOLEAN /\ pillDue \in BOOLEAN /\ scrolled \in BOOLEAN
    /\ route \in Routes
    /\ pill \in {"marketplace", "wallet", "chat", Nothing}

SnackTypes ==
    snack \in Notices \cup {Nothing} /\ snackShown \in BOOLEAN /\ snackTimer \in BOOLEAN

StyleTypes ==
    /\ outside \in {"no", "landing", "report"} /\ previousTheme \in Themes \cup {Nothing}
    /\ outside = "report" => previousTheme \in Themes
    /\ theme \in Themes /\ themeStored \in Themes \cup {Nothing}
    /\ themeClass \in (Themes \cup {Nothing}) \ {"light"}
    /\ language \in Languages /\ languageStored \in Languages \cup {Nothing}

FrameTyped == BarTypes /\ SnackTypes /\ StyleTypes

LEMMA FrameTypedIsTyped == FrameTyped => FrameTypeOK
  BY DEF FrameTyped, BarTypes, SnackTypes, StyleTypes, FrameTypeOK

LEMMA ThemesFacts ==
    /\ \A t \in Themes \cup {Nothing} : LoadTheme(t) \in Themes
    /\ \A t \in Themes : (IF t = "light" THEN Nothing ELSE t) \in (Themes \cup {Nothing}) \ {"light"}
    /\ "sang-frostglass" \in Themes /\ Nothing \in (Themes \cup {Nothing}) \ {"light"}
  BY NothingAssumption DEF LoadTheme, Themes

LEMMA SetThemeTypes ==
    ASSUME NEW t \in Themes, SetTheme(t)
    PROVE  /\ theme' \in Themes /\ themeStored' \in Themes \cup {Nothing}
           /\ themeClass' \in (Themes \cup {Nothing}) \ {"light"}
  BY ThemesFacts DEF SetTheme, ApplyClass

LEMMA InitFrameTyped == FrameInit => FrameTyped
<1> SUFFICES ASSUME FrameInit PROVE FrameTyped
  OBVIOUS
<1>1. BarTypes
  BY DEF FrameInit, BarTypes, Routes
<1>2. SnackTypes
  BY DEF FrameInit, SnackTypes
<1>3. StyleTypes
  BY ThemesFacts DEF FrameInit, StyleTypes
<1> QED
  BY <1>1, <1>2, <1>3 DEF FrameTyped

LEMMA StepFrameTyped == FrameTyped /\ [FrameNext]_frameVars => FrameTyped'
<1> SUFFICES ASSUME FrameTyped, [FrameNext]_frameVars PROVE FrameTyped'
  OBVIOUS
<1> USE DEF FrameTyped, snackVars, styleVars, barVars
<1>1. ASSUME UNCHANGED barVars, UNCHANGED member PROVE BarTypes'
  BY <1>1 DEF BarTypes
<1>2. ASSUME UNCHANGED snackVars PROVE SnackTypes'
  BY <1>2 DEF SnackTypes
<1>3. ASSUME UNCHANGED styleVars PROVE StyleTypes'
  BY <1>3 DEF StyleTypes
<1>4. CASE FirstRender
  <2>1. BarTypes' /\ SnackTypes'
    BY <1>2, <1>4 DEF FirstRender, BarTypes
  <2>2. themeClass' \in (Themes \cup {Nothing}) \ {"light"}
    BY <1>4, ThemesFacts DEF FirstRender, ApplyClass, StyleTypes
  <2> QED
    BY <1>4, <2>1, <2>2 DEF FirstRender, StyleTypes
<1>5. CASE PlacePill
  <2>1. Tab(route) \in {"marketplace", "wallet", "chat", "profile", "create", "other"}
    BY DEF Tab
  <2>2. pill' \in {"marketplace", "wallet", "chat", Nothing}
    BY <1>5, <2>1 DEF PlacePill, BarTypes
  <2>3. BarTypes'
    BY <1>5, <2>2 DEF PlacePill, BarTypes
  <2> QED
    BY <1>2, <1>3, <1>5, <2>3 DEF PlacePill
<1>6. CASE Scroll
  BY <1>2, <1>3, <1>6 DEF Scroll, BarTypes
<1>7. ASSUME NEW r \in Routes, Navigate(r) PROVE FrameTyped'
  <2>1. pillDue' = TRUE \/ pillDue' = FALSE
    BY <1>7, Zenon DEF Navigate
  <2> QED
    BY <1>2, <1>3, <1>7, <2>1 DEF Navigate, BarTypes
<1>8. ASSUME NEW m \in Notices, ShowNotice(m) PROVE FrameTyped'
  BY <1>1, <1>3, <1>8 DEF ShowNotice, SnackTypes
<1>9. CASE NoticeExpires
  BY <1>1, <1>3, <1>9 DEF NoticeExpires, SnackTypes
<1>10. ASSUME NEW site \in {"landing", "report"}, OpenOutside(site) PROVE FrameTyped'
  <2>1. BarTypes' /\ SnackTypes'
    BY <1>2, <1>10 DEF OpenOutside, BarsGone, BarTypes
  <2>2. /\ theme' \in Themes /\ themeStored' \in Themes \cup {Nothing}
        /\ themeClass' \in (Themes \cup {Nothing}) \ {"light"}
    BY <1>10, SetThemeTypes, ThemesFacts DEF OpenOutside
  <2>3. /\ outside' = site /\ UNCHANGED <<language, languageStored>>
        /\ previousTheme' = IF site = "report" THEN theme ELSE previousTheme
    BY <1>10 DEF OpenOutside
  <2>4. StyleTypes'
    BY <2>2, <2>3 DEF StyleTypes
  <2> QED
    BY <2>1, <2>4
<1>11. CASE LeaveOutside
  <2>1. BarTypes' /\ SnackTypes'
    BY <1>1, <1>2, <1>11 DEF LeaveOutside
  <2>2. /\ theme' \in Themes /\ themeStored' \in Themes \cup {Nothing}
        /\ themeClass' \in (Themes \cup {Nothing}) \ {"light"}
    BY <1>11, SetThemeTypes DEF LeaveOutside, StyleTypes
  <2> QED
    BY <1>11, <2>1, <2>2 DEF LeaveOutside, StyleTypes
<1>12. CASE ToggleLanguage
  <2>1. language' \in Languages /\ languageStored' \in Languages \cup {Nothing}
    BY <1>12 DEF ToggleLanguage, Languages
  <2> QED
    BY <1>1, <1>2, <1>12, <2>1 DEF ToggleLanguage, StyleTypes
<1>13. CASE Reload
  <2>1. BarTypes' /\ SnackTypes'
    BY <1>13 DEF Reload, BarsGone, BarTypes, SnackTypes
  <2>2. /\ previousTheme' \in Themes \cup {Nothing} /\ outside' = outside
        /\ outside = "report" => previousTheme' \in Themes
    BY <1>13, ThemesFacts DEF Reload, StyleTypes
  <2>3. /\ theme' \in Themes /\ themeStored' \in Themes \cup {Nothing}
        /\ themeClass' \in (Themes \cup {Nothing}) \ {"light"}
    BY <1>13, SetThemeTypes, ThemesFacts DEF Reload, StyleTypes
  <2>4. language' \in Languages /\ languageStored' \in Languages \cup {Nothing}
    BY <1>13 DEF Reload, StyleTypes
  <2>5. StyleTypes'
    BY <2>2, <2>3, <2>4 DEF StyleTypes
  <2> QED
    BY <2>1, <2>5
<1>14. CASE UNCHANGED frameVars
  BY <1>1, <1>2, <1>3, <1>14 DEF frameVars
<1> QED
  BY <1>4, <1>5, <1>6, <1>7, <1>8, <1>9, <1>10, <1>11, <1>12, <1>13, <1>14
     DEF FrameNext, FollowBar, FollowPage

-----------------------------------------------------------------------------
(* The landing page: the slides and the dots.                              *)
Sections == {"hiw", "features"}

LEMMA StartsFacts ==
    ASSUME NEW s \in Sections
    PROVE  /\ Len(Starts(s)) \in {3, 4} /\ Parts(s) \subseteq 1..4 /\ 1 \in Parts(s)
           /\ Starts(s)[1] = 0
           /\ \A i \in Parts(s) : Starts(s)[i] \in 0..75
           /\ \A i \in Parts(s) : i # Len(Starts(s)) => i + 1 \in Parts(s)
           /\ \A i, j \in Parts(s) : i < j => Starts(s)[i] < Starts(s)[j]
<1>1. CASE s = "hiw"
  <2>1. Starts(s) = <<0, 30, 60>>
    BY <1>1 DEF Starts
  <2>2. Parts(s) = {1, 2, 3}
    BY <2>1 DEF Parts
  <2> QED
    BY <2>1, <2>2
<1>2. CASE s = "features"
  <2>1. Starts(s) = <<0, 25, 50, 75>>
    BY <1>2 DEF Starts
  <2>2. Parts(s) = {1, 2, 3, 4}
    BY <2>1 DEF Parts
  <2> QED
    BY <2>1, <2>2
<1> QED
  BY <1>1, <1>2 DEF Sections

LEMMA TenthsFacts ==
    ASSUME NEW n \in Int
    PROVE  Tenths(n) \in 0..10 /\ (Tenths(n) > 5 => n > 5)
  BY DEF Tenths

(* How much of a slide shows that another one follows.                     *)
LEMMA VisibilityBeforeNext ==
    ASSUME NEW s \in Sections, NEW i \in Parts(s), NEW p \in 0..100, i # Len(Starts(s))
    PROVE  \E u \in 0..10, v \in 0..10 :
              /\ u = (IF i = 1 THEN 10 ELSE Tenths(p - (Starts(s)[i] - 5)))
              /\ v = Tenths(10 - (p - (Starts(s)[i + 1] - 5)))
              /\ Visibility(s, i, p) = (IF u < v THEN u ELSE v)
<1>0. PICK a, b : a = Starts(s)[i] /\ b = Starts(s)[i + 1]
  OBVIOUS
<1>1. PICK u : u = IF i = 1 THEN 10 ELSE Tenths(p - (a - 5))
  OBVIOUS
<1>2. PICK v : v = Tenths(10 - (p - (b - 5)))
  OBVIOUS
<1>3. a \in 0..75 /\ b \in 0..75
  BY <1>0, StartsFacts
<1>4. u \in 0..10
  <2>1. p - (a - 5) \in Int
    BY <1>3
  <2> QED
    BY <1>1, <2>1, TenthsFacts
<1>5. v \in 0..10
  <2>1. 10 - (p - (b - 5)) \in Int
    BY <1>3
  <2> QED
    BY <1>2, <2>1, TenthsFacts
<1>6. Visibility(s, i, p) = IF u < v THEN u ELSE v
  BY <1>0, <1>1, <1>2, Zenon DEF Visibility
<1> QED
  BY <1>0, <1>1, <1>2, <1>4, <1>5, <1>6

(* A slide that shows more than half is the one that began last.           *)
LEMMA HalfShown ==
    ASSUME NEW s \in Sections, NEW i \in Parts(s), NEW p \in 0..100, Visibility(s, i, p) > 5
    PROVE  /\ Starts(s)[i] <= p
           /\ i # Len(Starts(s)) => p < Starts(s)[i + 1]
<1>1. PICK a, n : a = Starts(s)[i] /\ n = Len(Starts(s)) /\ a \in 0..75 /\ (i = 1 => a = 0)
  BY StartsFacts
<1>2. CASE i = n
  BY <1>1, <1>2 DEF Visibility, Tenths
<1>3. CASE i # n
  <2>1. PICK b : b = Starts(s)[i + 1] /\ b \in 0..75
    BY <1>1, <1>3, StartsFacts
  <2>2. PICK u \in 0..10, v \in 0..10 :
           /\ u = (IF i = 1 THEN 10 ELSE Tenths(p - (a - 5)))
           /\ v = Tenths(10 - (p - (b - 5)))
           /\ Visibility(s, i, p) = (IF u < v THEN u ELSE v)
    <3>1. i # Len(Starts(s))
      BY <1>1, <1>3
    <3>2. \E u \in 0..10, v \in 0..10 :
              /\ u = (IF i = 1 THEN 10 ELSE Tenths(p - (Starts(s)[i] - 5)))
              /\ v = Tenths(10 - (p - (Starts(s)[i + 1] - 5)))
              /\ Visibility(s, i, p) = (IF u < v THEN u ELSE v)
      BY <3>1, VisibilityBeforeNext
    <3> QED
      BY ONLY <1>1, <2>1, <3>2, Zenon
  <2>3. u > 5 /\ v > 5
    BY <2>2
  <2>4. a <= p
    <3>1. p - (a - 5) \in Int /\ a \in Int /\ p \in Int
      BY <1>1
    <3>2. i # 1 => p - (a - 5) > 5
      BY <2>2, <2>3, <3>1, TenthsFacts
    <3> QED
      BY <1>1, <3>1, <3>2
  <2>5. p < b
    <3>1. 10 - (p - (b - 5)) \in Int /\ b \in Int /\ p \in Int
      BY <2>1
    <3>2. 10 - (p - (b - 5)) > 5
      BY <2>2, <2>3, <3>1, TenthsFacts
    <3> QED
      BY <3>1, <3>2
  <2> QED
    BY <1>1, <2>1, <2>4, <2>5
<1> QED
  BY <1>2, <1>3

LEMMA DotIsOfHalfShown ==
    ASSUME NEW s \in Sections, NEW i \in Parts(s), NEW p \in 0..100, Visibility(s, i, p) > 5
    PROVE  DotAt(s, p) = i
<1>0. i \in 1..4 /\ Parts(s) \subseteq 1..4
  BY StartsFacts
<1>1. Starts(s)[i] <= p
  BY HalfShown
<1>2. ASSUME NEW j \in Parts(s), Starts(s)[j] <= p PROVE j <= i
  <2>1. CASE i = Len(Starts(s))
    BY <2>1, <1>0 DEF Parts
  <2>2. CASE i # Len(Starts(s))
    <3>1. i + 1 \in Parts(s) /\ p < Starts(s)[i + 1] /\ Starts(s)[i + 1] \in 0..75
      BY <2>2, HalfShown, StartsFacts
    <3>2. i + 1 < j => Starts(s)[i + 1] < Starts(s)[j]
      BY <3>1, StartsFacts
    <3>3. Starts(s)[j] \in 0..75
      BY StartsFacts
    <3>4. j # i + 1 /\ ~(i + 1 < j)
      BY <1>2, <3>1, <3>2, <3>3
    <3> QED
      BY <1>0, <3>4
  <2> QED
    BY <2>1, <2>2
<1>3. ASSUME NEW k \in Parts(s), Starts(s)[k] <= p,
             \A j \in Parts(s) : Starts(s)[j] <= p => j <= k
      PROVE  k = i
  BY <1>0, <1>1, <1>2, <1>3
<1>4. DotAt(s, p) \in Parts(s) /\ Starts(s)[DotAt(s, p)] <= p
      /\ \A j \in Parts(s) : Starts(s)[j] <= p => j <= DotAt(s, p)
  BY <1>1, <1>2 DEF DotAt
<1> QED
  BY <1>3, <1>4

-----------------------------------------------------------------------------
(* The stories of the steps. A script tells a set of elements when its     *)
(* stretches show these and no others, and never says that it is over.     *)
IsSequence(s) == \E S : s \in Seq(S)

Tells(script, elements) ==
    /\ IsSequence(script)
    /\ \A j \in 1..Len(script) : script[j].shows \subseteq elements /\ script[j].wait # "end"
    /\ \A e \in elements : \E j \in 1..Len(script) : e \in script[j].shows

(* So does a whole script, which may say it in its last stretch.           *)
ToldBy(script, elements) ==
    /\ IsSequence(script) /\ Len(script) \in Nat \ {0}
    /\ \A j \in 1..Len(script) :
          script[j].shows \subseteq elements /\ (script[j].wait = "end" => j = Len(script))
    /\ \A e \in elements : \E j \in 1..Len(script) : e \in script[j].shows

LEMMA StretchTells ==
    ASSUME NEW E, NEW w \in {"finish", "pause"}
    PROVE  Tells(<<Stretch(E, w)>>, E)
<1>1. PICK x : x = Stretch(E, w)
  OBVIOUS
<1>2. x.shows = E /\ x.wait = w
  BY <1>1 DEF Stretch
<1>3. PICK c : c = <<x>>
  OBVIOUS
<1>4. /\ c \in Seq({x})
      /\ \A j \in 1..Len(c) : c[j] = x
      /\ 1 \in 1..Len(c) /\ c[1] = x
  BY <1>2, <1>3
<1>5. x.wait # "end"
  BY <1>2
<1> QED
  BY <1>1, <1>2, <1>3, <1>4, <1>5 DEF Tells, IsSequence

(* One part of a story after another.                                      *)
LEMMA PartsTell ==
    ASSUME NEW a, NEW E, Tells(a, E), NEW b, NEW F, Tells(b, F)
    PROVE  Tells(a \o b, E \cup F)
<1>1. PICK c : c = a \o b
  OBVIOUS
<1>2. PICK S, T : a \in Seq(S) /\ b \in Seq(T)
  BY DEF Tells, IsSequence
<1>3. /\ c \in Seq(S \cup T)
      /\ Len(c) = Len(a) + Len(b) /\ Len(a) \in Nat /\ Len(b) \in Nat
      /\ \A j \in 1..Len(a) : j \in 1..Len(c) /\ c[j] = a[j]
      /\ \A j \in 1..Len(b) : Len(a) + j \in 1..Len(c) /\ c[Len(a) + j] = b[j]
      /\ \A j \in 1..Len(c) : j \in 1..Len(a) \/ j - Len(a) \in 1..Len(b)
      /\ \A j \in 1..Len(c) : j = Len(a) + (j - Len(a))
  BY <1>1, <1>2
<1>4. ASSUME NEW j \in 1..Len(c)
      PROVE  c[j].shows \subseteq E \cup F /\ c[j].wait # "end"
  <2>1. CASE j \in 1..Len(a)
    BY <1>3, <2>1 DEF Tells
  <2>2. CASE j - Len(a) \in 1..Len(b)
    <3>1. PICK i \in 1..Len(b) : i = j - Len(a)
      BY <2>2
    <3>2. c[j] = b[i]
      BY <1>3, <3>1
    <3> QED
      BY <3>2 DEF Tells
  <2> QED
    BY <1>3, <2>1, <2>2
<1>5. ASSUME NEW e \in E \cup F PROVE \E j \in 1..Len(c) : e \in c[j].shows
  <2>1. CASE e \in E
    <3>1. PICK j \in 1..Len(a) : e \in a[j].shows
      BY <2>1 DEF Tells
    <3> QED
      BY <1>3, <3>1
  <2>2. CASE e \in F
    <3>1. PICK j \in 1..Len(b) : e \in b[j].shows
      BY <2>2 DEF Tells
    <3> QED
      BY <1>3, <3>1
  <2> QED
    BY <2>1, <2>2
<1> QED
  BY <1>1, <1>3, <1>4, <1>5 DEF Tells, IsSequence

LEMMA TellsIsTold ==
    ASSUME NEW a, NEW E, Tells(a, E), a # <<>>
    PROVE  ToldBy(a, E)
<1>1. PICK S : a \in Seq(S)
  BY DEF Tells, IsSequence
<1>2. Len(a) \in Nat \ {0}
  BY <1>1
<1> QED
  BY <1>1, <1>2 DEF Tells, ToldBy

(* A story that says at its end that it is over.                           *)
LEMMA EndIsTold ==
    ASSUME NEW a, NEW E, Tells(a, E), NEW F
    PROVE  ToldBy(a \o <<Stretch(F, "end")>>, E \cup F)
<1>1. PICK x : x = Stretch(F, "end")
  OBVIOUS
<1>2. x.shows = F /\ x.wait = "end"
  BY <1>1 DEF Stretch
<1>3. PICK c : c = a \o <<x>>
  OBVIOUS
<1>4. PICK S : a \in Seq(S)
  BY DEF Tells, IsSequence
<1>5. /\ c \in Seq(S \cup {x})
      /\ Len(c) = Len(a) + 1 /\ Len(a) \in Nat /\ Len(c) \in Nat \ {0}
      /\ \A j \in 1..Len(a) : j \in 1..Len(c) /\ c[j] = a[j]
      /\ c[Len(c)] = x /\ Len(c) \in 1..Len(c)
      /\ \A j \in 1..Len(c) : j \in 1..Len(a) \/ j = Len(c)
  BY <1>2, <1>3, <1>4
<1>6. ASSUME NEW j \in 1..Len(c)
      PROVE  c[j].shows \subseteq E \cup F /\ (c[j].wait = "end" => j = Len(c))
  BY <1>2, <1>5 DEF Tells
<1>7. ASSUME NEW e \in E \cup F PROVE \E j \in 1..Len(c) : e \in c[j].shows
  <2>1. CASE e \in E
    <3>1. PICK j \in 1..Len(a) : e \in a[j].shows
      BY <2>1 DEF Tells
    <3> QED
      BY <1>5, <3>1
  <2>2. CASE e \in F
    BY <1>2, <1>5, <2>2
  <2> QED
    BY <2>1, <2>2
<1> QED
  BY <1>1, <1>3, <1>5, <1>6, <1>7 DEF ToldBy, IsSequence

(* The scripts tell what is on the slides.                                 *)
LEMMA TellsMore ==
    ASSUME NEW a, NEW E, Tells(a, E), NEW F, NEW w \in {"finish", "pause"}
    PROVE  Tells(a \o <<Stretch(F, w)>>, E \cup F)
  BY StretchTells, PartsTell

LEMMA TellsNothing ==
    ASSUME NEW a, NEW E, Tells(a, E), NEW w \in {"finish", "pause"}
    PROVE  Tells(a \o <<Stretch({}, w)>>, E)
<1>1. E \cup {} = E
  OBVIOUS
<1>2. Tells(a \o <<Stretch({}, w)>>, E \cup {})
  BY TellsMore
<1> QED
  BY <1>1, <1>2

LEMMA PostIsTold == ToldBy(HiwPost, HiwElements[1])
<1>1. Tells(<<Stretch(Panels \cup {"field0"}, "finish")>>, Panels \cup {"field0"})
  BY StretchTells
<1>2. PICK a : a = <<Stretch(Panels \cup {"field0"}, "finish")>> \o <<Stretch({"typed"}, "finish")>>
                   \o <<Stretch({"field1"}, "pause")>> \o <<Stretch({"field2"}, "pause")>>
                   \o <<Stretch({"button"}, "finish")>>
  OBVIOUS
<1>3. Tells(a, Panels \cup {"field0"} \cup {"typed"} \cup {"field1"} \cup {"field2"} \cup {"button"})
  BY <1>1, <1>2, TellsMore
<1>4. HiwPost = a \o <<Stretch({"card"}, "end")>>
  BY <1>2 DEF HiwPost
<1> QED
  BY <1>3, <1>4, EndIsTold DEF HiwElements

LEMMA MatchIsTold == ToldBy(HiwMatch, HiwElements[2])
<1>1. Tells(<<Stretch(Panels, "finish")>>, Panels)
  BY StretchTells
<1>2. PICK a : a = <<Stretch(Panels, "finish")>> \o <<Stretch({"app0"}, "finish")>>
                   \o <<Stretch({"count1"}, "pause")>> \o <<Stretch({"app1"}, "finish")>>
                   \o <<Stretch({"count2"}, "pause")>> \o <<Stretch({"app2"}, "finish")>>
  OBVIOUS
<1>3. Tells(a, Panels \cup {"app0"} \cup {"count1"} \cup {"app1"} \cup {"count2"} \cup {"app2"})
  BY <1>1, <1>2, TellsMore
<1>4. HiwMatch = a \o <<Stretch({"count3"}, "end")>>
  BY <1>2 DEF HiwMatch
<1> QED
  BY <1>3, <1>4, EndIsTold DEF HiwElements, Counts

LEMMA DoneIsTold == ToldBy(HiwDone, HiwElements[3])
<1>1. Tells(<<Stretch(Panels, "pause")>>, Panels)
  BY StretchTells
<1>2. PICK a : a = <<Stretch(Panels, "pause")>>
  OBVIOUS
<1>3. Tells(a, Panels)
  BY <1>1, <1>2, TellsMore
<1>4. HiwDone = a \o <<Stretch({"card"}, "end")>>
  BY <1>2 DEF HiwDone
<1> QED
  BY <1>3, <1>4, EndIsTold DEF HiwElements

LEMMA BrowseIsTold == ToldBy(FeatBrowse, FeatElements[1])
<1>1. Tells(<<Stretch(Panels, "pause")>>, Panels)
  BY StretchTells
<1>2. PICK a : a = <<Stretch(Panels, "pause")>> \o <<Stretch({"card0"}, "pause")>>
                   \o <<Stretch({"card1"}, "pause")>>
  OBVIOUS
<1>3. Tells(a, Panels \cup {"card0"} \cup {"card1"})
  BY <1>1, <1>2, TellsMore
<1>4. FeatBrowse = a \o <<Stretch({"card2"}, "end")>>
  BY <1>2 DEF FeatBrowse
<1> QED
  BY <1>3, <1>4, EndIsTold DEF FeatElements

LEMMA FeesAreTold == ToldBy(FeatFees, FeatElements[2])
<1>1. Tells(<<Stretch(Panels, "finish")>>, Panels)
  BY StretchTells
<1>2. PICK a : a = <<Stretch(Panels, "finish")>> \o <<Stretch({"row0"}, "pause")>>
                   \o <<Stretch({"row1"}, "pause")>> \o <<Stretch({"row2"}, "pause")>>
  OBVIOUS
<1>3. Tells(a, Panels \cup {"row0"} \cup {"row1"} \cup {"row2"})
  BY <1>1, <1>2, TellsMore
<1>4. FeatFees = a \o <<Stretch({"badge"}, "end")>>
  BY <1>2 DEF FeatFees
<1> QED
  BY <1>3, <1>4, EndIsTold DEF FeatElements

LEMMA NearbyIsTold == ToldBy(FeatNearby, FeatElements[3])
<1>1. Tells(FeatNearby, Panels) /\ FeatNearby # <<>>
  BY StretchTells DEF FeatNearby
<1> QED
  BY <1>1, TellsIsTold DEF FeatElements

LEMMA BubbleTells == ASSUME NEW b PROVE Tells(Bubble(b), {b})
<1>1. PICK a : a = <<Stretch({}, "finish")>> \o <<Stretch({}, "pause")>> \o <<Stretch({}, "pause")>>
  OBVIOUS
<1>2. Tells(a, {})
  BY <1>1, StretchTells, TellsNothing
<1>3. Tells(a \o <<Stretch({b}, "finish")>>, {} \cup {b})
  BY <1>2, TellsMore
<1>4. Bubble(b) = a \o <<Stretch({b}, "finish")>> /\ {} \cup {b} = {b}
  BY <1>1 DEF Bubble
<1> QED
  BY <1>3, <1>4

LEMMA ChatIsTold == ToldBy(FeatChat, FeatElements[4])
<1>1. PICK a : a = <<Stretch(Panels, "finish")>> \o Bubble("bubble0")
  OBVIOUS
<1>2. Tells(a, Panels \cup {"bubble0"})
  BY <1>1, StretchTells, BubbleTells, PartsTell
<1>3. PICK b : b = a \o <<Stretch({}, "pause")>> \o Bubble("bubble1")
  OBVIOUS
<1>4. Tells(b, Panels \cup {"bubble0"} \cup {"bubble1"})
  BY <1>2, <1>3, TellsNothing, BubbleTells, PartsTell
<1>5. PICK c : c = b \o <<Stretch({}, "pause")>> \o Bubble("bubble2")
  OBVIOUS
<1>6. Tells(c, Panels \cup {"bubble0"} \cup {"bubble1"} \cup {"bubble2"})
  BY <1>4, <1>5, TellsNothing, BubbleTells, PartsTell
<1>7. FeatChat = c
  BY <1>1, <1>3, <1>5 DEF FeatChat
<1>8. FeatElements[4] = Panels \cup {"bubble0"} \cup {"bubble1"} \cup {"bubble2"}
  BY DEF FeatElements
<1>9. FeatChat # <<>>
  BY <1>6, <1>7, <1>8 DEF Tells, Panels
<1> QED
  BY <1>6, <1>7, <1>8, <1>9, TellsIsTold

(* No script is longer than the places kept for its runs.                  *)
HasLength(a, n) == IsSequence(a) /\ n \in Nat /\ Len(a) = n
Joins(c, a, b) == c = a \o b

LEMMA StretchIsOne ==
    ASSUME NEW E, NEW w
    PROVE  HasLength(<<Stretch(E, w)>>, 1)
<1>1. PICK x : x = Stretch(E, w)
  OBVIOUS
<1>2. PICK c : c = <<x>>
  OBVIOUS
<1>3. c \in Seq({x}) /\ Len(c) = 1
  BY <1>2
<1> QED
  BY <1>1, <1>2, <1>3 DEF HasLength, IsSequence

LEMMA PartsAdd ==
    ASSUME NEW a, NEW m, HasLength(a, m), NEW b, NEW n, HasLength(b, n), NEW c, Joins(c, a, b),
           NEW k, k = m + n
    PROVE  HasLength(c, k)
<1>1. PICK S, T : a \in Seq(S) /\ b \in Seq(T)
  BY DEF IsSequence, HasLength
<1>2. c \in Seq(S \cup T) /\ Len(c) = Len(a) + Len(b)
  BY <1>1 DEF Joins
<1> QED
  BY <1>2 DEF IsSequence, HasLength

LEMMA BubbleIsFour ==
    ASSUME NEW b
    PROVE  HasLength(Bubble(b), 4)
<1>1. PICK w, x, y, z, wx, wxy, all :
        /\ w = <<Stretch({}, "finish")>> /\ x = <<Stretch({}, "pause")>>
        /\ y = <<Stretch({}, "pause")>> /\ z = <<Stretch({b}, "finish")>>
        /\ Joins(wx, w, x) /\ Joins(wxy, wx, y) /\ Joins(all, wxy, z)
  BY DEF Joins
<1>2. HasLength(w, 1) /\ HasLength(x, 1) /\ HasLength(y, 1) /\ HasLength(z, 1)
  BY <1>1, StretchIsOne
<1>3. 2 = 1 + 1 /\ 3 = 2 + 1 /\ 4 = 3 + 1
  OBVIOUS
<1>4. HasLength(wx, 2)
  BY ONLY <1>1, <1>2, <1>3, PartsAdd, Zenon
<1>5. HasLength(wxy, 3)
  BY ONLY <1>1, <1>2, <1>3, <1>4, PartsAdd, Zenon
<1>6. HasLength(all, 4)
  BY ONLY <1>1, <1>2, <1>3, <1>5, PartsAdd, Zenon
<1>7. Bubble(b) = all
  BY <1>1 DEF Bubble, Joins
<1> QED
  BY <1>6, <1>7

LEMMA ScriptsFit ==
    ASSUME NEW s \in Sections, NEW i \in Parts(s)
    PROVE  Len(Script(s, i)) \in 1..15
<1>1. /\ Len(HiwPost) = 6 /\ Len(HiwMatch) = 7 /\ Len(HiwDone) = 2
      /\ Len(FeatBrowse) = 4 /\ Len(FeatFees) = 5 /\ Len(FeatNearby) = 1
  BY DEF HiwPost, HiwMatch, HiwDone, FeatBrowse, FeatFees, FeatNearby
<1>2. Len(FeatChat) = 15
  <2>1. PICK p, w, a, b, c, s1, s2, s3, s4, s5 :
          /\ p = <<Stretch(Panels, "finish")>> /\ w = <<Stretch({}, "pause")>>
          /\ a = Bubble("bubble0") /\ b = Bubble("bubble1") /\ c = Bubble("bubble2")
          /\ Joins(s1, p, a) /\ Joins(s2, s1, w) /\ Joins(s3, s2, b)
          /\ Joins(s4, s3, w) /\ Joins(s5, s4, c)
    BY DEF Joins
  <2>2. HasLength(p, 1) /\ HasLength(w, 1)
    BY <2>1, StretchIsOne
  <2>3. HasLength(a, 4) /\ HasLength(b, 4) /\ HasLength(c, 4)
    BY <2>1, BubbleIsFour
  <2>4. 5 = 1 + 4 /\ 6 = 5 + 1 /\ 10 = 6 + 4 /\ 11 = 10 + 1 /\ 15 = 11 + 4
    OBVIOUS
  <2>5. HasLength(s1, 5)
    BY ONLY <2>1, <2>2, <2>3, <2>4, PartsAdd, Zenon
  <2>6. HasLength(s2, 6)
    BY ONLY <2>1, <2>2, <2>4, <2>5, PartsAdd, Zenon
  <2>7. HasLength(s3, 10)
    BY ONLY <2>1, <2>3, <2>4, <2>6, PartsAdd, Zenon
  <2>8. HasLength(s4, 11)
    BY ONLY <2>1, <2>2, <2>4, <2>7, PartsAdd, Zenon
  <2>9. HasLength(s5, 15)
    BY ONLY <2>1, <2>3, <2>4, <2>8, PartsAdd, Zenon
  <2>10. FeatChat = s5
    BY <2>1 DEF FeatChat, Joins
  <2> QED
    BY <2>9, <2>10 DEF HasLength
<1>3. CASE s = "hiw"
  <2>1. Parts(s) = {1, 2, 3}
    BY <1>3 DEF Parts, Starts
  <2>2. Script(s, 1) = HiwPost /\ Script(s, 2) = HiwMatch /\ Script(s, 3) = HiwDone
    BY <1>3 DEF Script
  <2>3. i = 1 \/ i = 2 \/ i = 3
    BY <2>1
  <2> QED
    BY <1>1, <2>2, <2>3
<1>4. CASE s = "features"
  <2>1. Parts(s) = {1, 2, 3, 4}
    BY <1>4 DEF Parts, Starts
  <2>2. /\ Script(s, 1) = FeatBrowse /\ Script(s, 2) = FeatFees
        /\ Script(s, 3) = FeatNearby /\ Script(s, 4) = FeatChat
    BY <1>4 DEF Script
  <2>3. i = 1 \/ i = 2 \/ i = 3 \/ i = 4
    BY <2>1
  <2> QED
    BY <1>1, <1>2, <2>2, <2>3
<1> QED
  BY <1>3, <1>4 DEF Sections

LEMMA ScriptsAreTold ==
    ASSUME NEW s \in Sections, NEW i \in Parts(s)
    PROVE  ToldBy(Script(s, i), Elements(s, i))
<1>1. CASE s = "hiw"
  <2>1. Parts(s) = {1, 2, 3}
    BY <1>1 DEF Parts, Starts
  <2>2. /\ Script(s, 1) = HiwPost /\ Script(s, 2) = HiwMatch /\ Script(s, 3) = HiwDone
        /\ Elements(s, i) = HiwElements[i]
    BY <1>1 DEF Script, Elements
  <2> QED
    BY <2>1, <2>2, PostIsTold, MatchIsTold, DoneIsTold
<1>2. CASE s = "features"
  <2>1. Parts(s) = {1, 2, 3, 4}
    BY <1>2 DEF Parts, Starts
  <2>2. /\ Script(s, 1) = FeatBrowse /\ Script(s, 2) = FeatFees
        /\ Script(s, 3) = FeatNearby /\ Script(s, 4) = FeatChat
        /\ Elements(s, i) = FeatElements[i]
    BY <1>2 DEF Script, Elements
  <2> QED
    BY <2>1, <2>2, BrowseIsTold, FeesAreTold, NearbyIsTold, ChatIsTold
<1> QED
  BY <1>1, <1>2 DEF Sections

-----------------------------------------------------------------------------
(* What a step needs: every element is there, or some run has yet to come  *)
(* to it. Runs that outlived a reset may be under way besides, and only    *)
(* show more.                                                              *)
Rest(s, i, k, seen) ==
    \A e \in Elements(s, i) :
        e \in seen \/ \E j \in 1..Len(Script(s, i)) : k < j /\ e \in Script(s, i)[j].shows

Promised(s, i, ks, seen) ==
    seen = Elements(s, i) \/ \E k \in Positions : ks[k] > 0 /\ Rest(s, i, k, seen)

AllElements == UNION {Elements(section, i) : i \in Parts(section)}

LandingInv ==
    /\ section \in Sections
    /\ slides \in [Parts(section) -> 0..10] /\ DotIsOfSlide
    /\ played \subseteq Parts(section)
    /\ runs \in [Parts(section) -> [Positions -> Nat]]
    /\ shown \in [Parts(section) -> SUBSET AllElements]
    /\ \A i \in Parts(section) : shown[i] \subseteq Elements(section, i)
    /\ landed => \A i \in played : Promised(section, i, runs[i], shown[i])

(* A run that is on shows what it has yet to show, or leaves it to its     *)
(* next stretch.                                                           *)
LEMMA RestMoves ==
    ASSUME NEW s \in Sections, NEW i \in Parts(s), NEW k \in Positions, NEW seen,
           Rest(s, i, k, seen), seen \subseteq Elements(s, i)
    PROVE  /\ ~(k < Len(Script(s, i))) => seen = Elements(s, i)
           /\ k < Len(Script(s, i)) =>
                 /\ k + 1 \in 1..Len(Script(s, i))
                 /\ Rest(s, i, k + 1, seen \cup Script(s, i)[k + 1].shows)
                 /\ Script(s, i)[k + 1].shows \subseteq Elements(s, i)
                 /\ Script(s, i)[k + 1].wait = "end" =>
                       seen \cup Script(s, i)[k + 1].shows = Elements(s, i)
<1>1. PICK a, E, n : a = Script(s, i) /\ E = Elements(s, i) /\ n = Len(a)
  OBVIOUS
<1>2. ToldBy(a, E)
  BY <1>1, ScriptsAreTold
<1>3. n \in Nat /\ k \in Nat /\ k >= 1
  BY <1>1, <1>2 DEF ToldBy, Positions
<1>4. \A e \in E : e \in seen \/ \E j \in 1..n : k < j /\ e \in a[j].shows
  BY <1>1 DEF Rest
<1>5. ASSUME ~(k < n) PROVE seen = E
  <2>1. \A j \in 1..n : ~(k < j)
    BY <1>3, <1>5
  <2>2. \A e \in E : e \in seen
    BY <1>4, <2>1
  <2> QED
    BY <1>1, <2>2
<1>6. ASSUME k < n
      PROVE  /\ k + 1 \in 1..n
             /\ a[k + 1].shows \subseteq E
             /\ \A e \in E : \/ e \in seen \cup a[k + 1].shows
                             \/ \E j \in 1..n : k + 1 < j /\ e \in a[j].shows
             /\ a[k + 1].wait = "end" => k + 1 = n
  <2>1. k + 1 \in 1..n
    BY <1>3, <1>6
  <2>2. \A j \in 1..n : k < j => j = k + 1 \/ k + 1 < j
    BY <1>3
  <2> QED
    BY <1>1, <1>2, <1>4, <2>1, <2>2 DEF ToldBy
<1>7. ASSUME k < n, a[k + 1].wait = "end" PROVE seen \cup a[k + 1].shows = E
  <2>1. \A j \in 1..n : ~(n < j)
    BY <1>3
  <2> QED
    BY <1>1, <1>6, <1>7, <2>1
<1>8. k < n => Rest(s, i, k + 1, seen \cup a[k + 1].shows)
  BY <1>1, <1>6 DEF Rest
<1> QED
  BY <1>1, <1>5, <1>6, <1>7, <1>8

LEMMA RestGrows ==
    ASSUME NEW s, NEW i, NEW k, NEW seen, Rest(s, i, k, seen), NEW more, seen \subseteq more
    PROVE  Rest(s, i, k, more)
  BY DEF Rest

(* A run that begins has shown its first stretch.                          *)
LEMMA RestBegins ==
    ASSUME NEW s \in Sections, NEW i \in Parts(s), NEW seen,
           Script(s, i)[1].shows \subseteq seen
    PROVE  Rest(s, i, 1, seen)
<1>1. PICK a, E, n : a = Script(s, i) /\ E = Elements(s, i) /\ n = Len(a)
  OBVIOUS
<1>2. ToldBy(a, E) /\ n \in Nat
  BY <1>1, ScriptsAreTold DEF ToldBy
<1>3. \A j \in 1..n : j = 1 \/ 1 < j
  BY <1>2
<1>4. ASSUME NEW e \in E, e \notin seen PROVE \E j \in 1..n : 1 < j /\ e \in a[j].shows
  <2>1. PICK j \in 1..n : e \in a[j].shows
    BY <1>1, <1>2 DEF ToldBy
  <2> QED
    BY <1>1, <1>3, <1>4, <2>1
<1> QED
  BY <1>1, <1>4 DEF Rest

LEMMA InitLanding == LandingInit => LandingInv
<1> SUFFICES ASSUME LandingInit PROVE LandingInv
  OBVIOUS
<1>1. /\ section \in Sections /\ played = {}
      /\ runs = [i \in Parts(section) |-> NoRuns] /\ shown = [i \in Parts(section) |-> {}]
      /\ slides = [i \in Parts(section) |-> 0]
  BY DEF LandingInit, Sections
<1>2. slides \in [Parts(section) -> 0..10]
  BY <1>1
<1>3. DotIsOfSlide
  BY <1>1 DEF DotIsOfSlide
<1>4. NoRuns \in [Positions -> Nat]
  BY DEF NoRuns
<1>5. runs \in [Parts(section) -> [Positions -> Nat]]
  BY <1>1, <1>4
<1>6. shown \in [Parts(section) -> SUBSET AllElements]
  BY <1>1
<1> QED
  BY <1>1, <1>2, <1>3, <1>5, <1>6 DEF LandingInv

(* The steps of the stories that are played and reset.                     *)
LEMMA PlayAndResetKeeps ==
    ASSUME LandingInv, NEW plays \in SUBSET (Parts(section) \ played),
           NEW resets \in SUBSET played, PlayAndReset(plays, resets),
           UNCHANGED <<section, landed>>,
           slides' \in [Parts(section) -> 0..10], DotIsOfSlide'
    PROVE  LandingInv'
<1>1. ASSUME NEW i \in Parts(section)
      PROVE  /\ i \in resets => runs'[i] = Outlive(i) /\ shown'[i] = {}
             /\ i \in plays => /\ shown'[i] = shown[i] \cup
                                    (IF reduced THEN Elements(section, i)
                                     ELSE Script(section, i)[1].shows)
                               /\ runs'[i] = IF reduced THEN runs[i]
                                             ELSE [runs[i] EXCEPT ![1] = @ + 1]
             /\ i \notin plays \cup resets => UNCHANGED <<runs[i], shown[i]>>
  BY DEF PlayAndReset
<1>2. ASSUME NEW i \in Parts(section)
      PROVE  /\ Outlive(i) \in [Positions -> Nat] /\ 1 \in Positions
             /\ runs[i] \in [Positions -> Nat]
             /\ [runs[i] EXCEPT ![1] = @ + 1] \in [Positions -> Nat]
             /\ [runs[i] EXCEPT ![1] = @ + 1][1] > 0
  <2>1. runs[i] \in [Positions -> Nat] /\ 1 \in Positions
    BY DEF LandingInv, Positions
  <2> QED
    BY <2>1 DEF Outlive
<1>3. ASSUME NEW i \in Parts(section)
      PROVE  /\ runs'[i] \in [Positions -> Nat]
             /\ shown'[i] \subseteq Elements(section, i)
             /\ Elements(section, i) \subseteq AllElements
  <2>1. /\ Script(section, i)[1].shows \subseteq Elements(section, i)
        /\ shown[i] \subseteq Elements(section, i)
    <3>1. ToldBy(Script(section, i), Elements(section, i))
      BY ScriptsAreTold DEF LandingInv
    <3>2. 1 \in 1..Len(Script(section, i))
      BY <3>1 DEF ToldBy
    <3> QED
      BY <3>1, <3>2 DEF ToldBy, LandingInv
  <2>2. Elements(section, i) \subseteq AllElements
    BY DEF AllElements
  <2>3. shown'[i] \subseteq Elements(section, i)
    BY <1>1, <2>1
  <2>4. runs'[i] \in [Positions -> Nat]
    BY <1>1, <1>2
  <2> QED
    BY <2>2, <2>3, <2>4
<1>4. /\ runs' \in [Parts(section) -> [Positions -> Nat]]
      /\ shown' \in [Parts(section) -> SUBSET AllElements]
  <2>1. /\ runs' = [i \in Parts(section) |-> runs'[i]]
        /\ shown' = [i \in Parts(section) |-> shown'[i]]
    BY DEF PlayAndReset
  <2> QED
    BY <1>3, <2>1
<1>5. ASSUME landed, NEW i \in played'
      PROVE  Promised(section, i, runs'[i], shown'[i])
  <2>1. i \in Parts(section) /\ i \notin resets /\ (i \in played \/ i \in plays)
    BY <1>5 DEF PlayAndReset, LandingInv
  <2>2. CASE i \notin plays
    BY <1>1, <1>5, <2>1, <2>2 DEF LandingInv
  <2>3. CASE i \in plays /\ reduced
    BY <1>1, <2>1, <2>3 DEF Promised, LandingInv
  <2>4. CASE i \in plays /\ ~reduced
    <3>1. /\ shown'[i] = shown[i] \cup Script(section, i)[1].shows
          /\ runs'[i][1] > 0 /\ 1 \in Positions
      BY <1>1, <1>2, <2>1, <2>4
    <3>2. Rest(section, i, 1, shown'[i])
      BY <2>1, <3>1, RestBegins DEF LandingInv
    <3> QED
      BY <3>1, <3>2 DEF Promised
  <2> QED
    BY <2>1, <2>2, <2>3, <2>4
<1>6. played' \subseteq Parts(section)
  BY DEF PlayAndReset, LandingInv
<1>7. AllElements' = AllElements
  BY DEF AllElements
<1> QED
  BY <1>3, <1>4, <1>5, <1>6, <1>7 DEF LandingInv

LEMMA StepUpdateProgress ==
    ASSUME LandingInv, NEW p \in Progress, UpdateProgress(p)
    PROVE  LandingInv'
<1>1. p \in 0..100 /\ section \in Sections
  BY ProgressAssumption DEF LandingInv
<1>2. ToPlay(p) \in SUBSET (Parts(section) \ played) /\ ToReset(p) \in SUBSET played
  BY DEF ToPlay, ToReset
<1>3. /\ PlayAndReset(ToPlay(p), ToReset(p)) /\ UNCHANGED <<section, landed, mobile, reduced>>
      /\ slides' = [i \in Parts(section) |-> Visibility(section, i, p)]
      /\ dot' = DotAt(section, p)
  BY DEF UpdateProgress
<1>4. ASSUME NEW i \in Parts(section)
      PROVE  Visibility(section, i, p) \in 0..10
  <2>1. PICK a, n : a = Starts(section)[i] /\ n = Len(Starts(section)) /\ a \in 0..75
    BY <1>1, StartsFacts
  <2>2. CASE i = n
    <3>1. PICK u : u = IF i = 1 THEN 10 ELSE Tenths(p - (a - 5))
      OBVIOUS
    <3>2. u \in 0..10
      BY <1>1, <2>1, <3>1, TenthsFacts
    <3>3. Visibility(section, i, p) = IF u < 10 THEN u ELSE 10
      BY <2>1, <2>2, <3>1 DEF Visibility
    <3> QED
      BY <3>2, <3>3
  <2>3. CASE i # n
    <3>1. i # Len(Starts(section)) /\ section \in Sections /\ p \in 0..100
      BY <1>1, <2>1, <2>3
    <3>2. PICK u \in 0..10, v \in 0..10 : Visibility(section, i, p) = (IF u < v THEN u ELSE v)
      BY <3>1, VisibilityBeforeNext
    <3> QED
      BY <3>2
  <2> QED
    BY <2>2, <2>3
<1>5. slides' \in [Parts(section) -> 0..10]
  BY <1>3, <1>4
<1>6. DotIsOfSlide'
  BY <1>1, <1>3, DotIsOfHalfShown DEF DotIsOfSlide
<1> QED
  BY <1>2, <1>3, <1>5, <1>6, PlayAndResetKeeps

LEMMA StepContinue ==
    ASSUME LandingInv, NEW i \in Parts(section), NEW k \in Positions, Continue(i, k)
    PROVE  LandingInv'
<1>1. PICK a, n, more, goesOn :
        /\ a = Script(section, i) /\ n = Len(a)
        /\ more = IF k < n THEN a[k + 1].shows ELSE {}
        /\ goesOn = (k < n /\ a[k + 1].wait # "end")
  OBVIOUS
<1>2. /\ runs' = [runs EXCEPT ![i] = [j \in Positions |->
             IF j = k THEN runs[i][j] - 1
             ELSE IF j = k + 1 /\ goesOn THEN runs[i][j] + 1 ELSE runs[i][j]]]
      /\ runs[i][k] > 0
      /\ UNCHANGED <<section, mobile, reduced, landed, dot, slides, played>>
  BY <1>1 DEF Continue
<1>3. /\ runs[i] \in [Positions -> Nat] /\ section \in Sections
      /\ shown \in [Parts(section) -> SUBSET AllElements]
      /\ shown[i] \subseteq Elements(section, i)
      /\ Elements(section, i) \subseteq AllElements
  BY DEF LandingInv, AllElements
<1>4. /\ n \in 1..15
      /\ \A j \in 1..n : a[j].shows \subseteq Elements(section, i)
      /\ k < n => k + 1 \in 1..n /\ k + 1 \in Positions
  <2>1. n \in 1..15
    BY <1>1, <1>3, ScriptsFit
  <2>2. k \in 1..15
    BY DEF Positions
  <2>3. k < n => k + 1 \in 1..n /\ k + 1 \in 1..15
    BY <2>1, <2>2
  <2>4. ToldBy(a, Elements(section, i))
    BY <1>1, <1>3, ScriptsAreTold
  <2> QED
    BY <1>1, <2>1, <2>3, <2>4 DEF ToldBy, Positions
<1>5. more \subseteq Elements(section, i)
  BY <1>1, <1>4
<1>6. shown' = [shown EXCEPT ![i] = @ \cup more]
  <2>1. CASE k < n
    BY <1>1, <2>1 DEF Continue
  <2>2. CASE ~(k < n)
    <3>1. shown' = shown /\ more = {}
      BY <1>1, <2>2 DEF Continue
    <3> QED
      BY <1>3, <3>1
  <2> QED
    BY <2>1, <2>2
<1>7. /\ shown' \in [Parts(section) -> SUBSET AllElements]
      /\ shown'[i] = shown[i] \cup more
      /\ \A h \in Parts(section) : h # i => shown'[h] = shown[h]
  BY <1>3, <1>5, <1>6
<1>8. PICK at : at = [j \in Positions |->
             IF j = k THEN runs[i][j] - 1
             ELSE IF j = k + 1 /\ goesOn THEN runs[i][j] + 1 ELSE runs[i][j]]
  OBVIOUS
<1>9. /\ at \in [Positions -> Nat]
      /\ goesOn => at[k + 1] > 0
      /\ \A j \in Positions : j # k => at[j] >= runs[i][j]
  <2>1. ASSUME NEW j \in Positions
        PROVE  at[j] \in Nat /\ (j # k => at[j] >= runs[i][j])
               /\ (j = k + 1 /\ goesOn => at[j] > 0)
    <3>1. PICK r : r = runs[i][j] /\ r \in Nat
      BY <1>3
    <3>2. j = k => r > 0
      BY <1>2, <3>1
    <3>3. at[j] = IF j = k THEN r - 1 ELSE IF j = k + 1 /\ goesOn THEN r + 1 ELSE r
      BY <1>8, <3>1
    <3>4. j = k + 1 => j # k
      BY DEF Positions
    <3>5. CASE j = k
      BY <3>1, <3>2, <3>3, <3>4, <3>5
    <3>6. CASE j # k /\ j = k + 1 /\ goesOn
      BY <3>1, <3>3, <3>6
    <3>7. CASE j # k /\ ~(j = k + 1 /\ goesOn)
      BY <3>1, <3>3, <3>7
    <3> QED
      BY <3>5, <3>6, <3>7
  <2>2. at \in [Positions -> Nat]
    BY <1>8, <2>1
  <2> QED
    BY <1>1, <1>4, <2>1, <2>2
<1>10. /\ runs' \in [Parts(section) -> [Positions -> Nat]]
       /\ runs'[i] = at
       /\ \A h \in Parts(section) : h # i => runs'[h] = runs[h]
  BY <1>2, <1>8, <1>9 DEF LandingInv
<1>11. ASSUME NEW h \in played, landed
       PROVE  Promised(section, h, runs'[h], shown'[h])
  <2>1. h \in Parts(section) /\ Promised(section, h, runs[h], shown[h])
    BY <1>11 DEF LandingInv
  <2>2. CASE h # i
    BY <1>7, <1>10, <2>1, <2>2
  <2>3. CASE h = i
    <3>1. CASE shown[i] = Elements(section, i)
      BY <1>5, <1>7, <2>3, <3>1 DEF Promised
    <3>2. CASE shown[i] # Elements(section, i)
      <4>1. PICK l \in Positions : runs[i][l] > 0 /\ Rest(section, i, l, shown[i])
        BY <2>1, <2>3, <3>2 DEF Promised
      <4>2. CASE l # k
        <5>1. at[l] > 0
          BY <1>3, <1>9, <4>1, <4>2
        <5>2. Rest(section, i, l, shown'[i])
          BY <1>7, <4>1, RestGrows
        <5> QED
          BY <1>10, <2>3, <5>1, <5>2 DEF Promised
      <4>3. CASE l = k
        <5>1. k < n /\ k + 1 \in Positions
          BY <1>1, <1>3, <1>4, <3>2, <4>1, <4>3, RestMoves
        <5>2. more = a[k + 1].shows
          BY <1>1, <5>1
        <5>3. CASE goesOn
          <6>1. Rest(section, i, k + 1, shown'[i])
            BY <1>1, <1>3, <1>7, <4>1, <4>3, <5>1, <5>2, RestMoves
          <6> QED
            BY <1>9, <1>10, <2>3, <5>1, <5>3, <6>1 DEF Promised
        <5>4. CASE ~goesOn
          <6>1. a[k + 1].wait = "end"
            BY <1>1, <5>1, <5>4
          <6>2. shown'[i] = Elements(section, i)
            BY <1>1, <1>3, <1>7, <4>1, <4>3, <5>1, <5>2, <6>1, RestMoves
          <6> QED
            BY <2>3, <6>2 DEF Promised
        <5> QED
          BY <5>3, <5>4
      <4> QED
        BY <4>2, <4>3
    <3> QED
      BY <3>1, <3>2
  <2> QED
    BY <2>2, <2>3
<1>12. \A h \in Parts(section) : shown'[h] \subseteq Elements(section, h)
  BY <1>3, <1>5, <1>7 DEF LandingInv
<1>13. DotIsOfSlide' /\ AllElements' = AllElements
       /\ slides' \in [Parts(section) -> 0..10]
  BY <1>2 DEF DotIsOfSlide, AllElements, LandingInv, Continue
<1> QED
  BY <1>2, <1>7, <1>10, <1>11, <1>12, <1>13 DEF LandingInv

LEMMA StepBind == LandingInv /\ Bind => LandingInv'
<1> SUFFICES ASSUME LandingInv, Bind PROVE LandingInv'
  OBVIOUS
<1>1. /\ UNCHANGED <<section, mobile, landed, dot, played, runs, shown>>
      /\ slides' = IF mobile THEN [i \in Parts(section) |-> 10] ELSE slides
      /\ reduced' = reduced
  BY DEF Bind
<1>2. slides' \in [Parts(section) -> 0..10] /\ DotIsOfSlide'
  <2>1. CASE mobile
    <3>1. slides' = [i \in Parts(section) |-> 10]
      BY <1>1, <2>1
    <3>2. slides' \in [Parts(section) -> 0..10]
      BY <3>1
    <3> QED
      BY <1>1, <2>1, <3>2 DEF DotIsOfSlide
  <2>2. CASE ~mobile
    BY <1>1, <2>2 DEF DotIsOfSlide, LandingInv
  <2> QED
    BY <2>1, <2>2
<1>3. AllElements' = AllElements
  BY <1>1 DEF AllElements
<1> QED
  BY <1>1, <1>2, <1>3 DEF LandingInv

LEMMA StepShowAll ==
    ASSUME LandingInv, NEW p, ShowAll(p)
    PROVE  LandingInv'
<1>1. /\ UNCHANGED <<section, mobile, reduced, landed, dot, played, runs>> /\ reduced
      /\ slides' = [i \in Parts(section) |-> 10]
      /\ shown' = [i \in Parts(section) |-> Elements(section, i)]
  BY DEF ShowAll
<1>2. slides' \in [Parts(section) -> 0..10] /\ DotIsOfSlide'
  <2>1. slides' \in [Parts(section) -> 0..10]
    BY <1>1
  <2> QED
    BY <1>1, <2>1 DEF DotIsOfSlide
<1>3. AllElements' = AllElements
  BY <1>1 DEF AllElements
<1>4. \A i \in Parts(section) : shown'[i] = Elements(section, i)
  BY <1>1
<1>5. shown' \in [Parts(section) -> SUBSET AllElements]
  BY <1>1 DEF AllElements
<1>6. \A i \in played : Promised(section, i, runs'[i], shown'[i])
  BY <1>4 DEF Promised, LandingInv
<1> QED
  BY <1>1, <1>2, <1>3, <1>4, <1>5, <1>6 DEF LandingInv

LEMMA StepCrossSlide ==
    ASSUME LandingInv, NEW i \in Parts(section), CrossSlide(i)
    PROVE  LandingInv'
<1>1. /\ UNCHANGED <<section, mobile, reduced, landed, dot, slides>> /\ mobile
      /\ \/ i \in played /\ PlayAndReset({}, {i})
         \/ i \notin played /\ PlayAndReset({i}, {})
  BY DEF CrossSlide
<1>2. slides' \in [Parts(section) -> 0..10] /\ DotIsOfSlide'
  BY <1>1 DEF DotIsOfSlide, LandingInv
<1>3. CASE i \in played /\ PlayAndReset({}, {i})
  BY <1>1, <1>2, <1>3, PlayAndResetKeeps
<1>4. CASE i \notin played /\ PlayAndReset({i}, {})
  BY <1>1, <1>2, <1>4, PlayAndResetKeeps
<1> QED
  BY <1>1, <1>3, <1>4

LEMMA StepLeaveLanding == LandingInv /\ LeaveLanding => LandingInv'
<1> SUFFICES ASSUME LandingInv, LeaveLanding PROVE LandingInv'
  OBVIOUS
<1>1. /\ UNCHANGED <<section, mobile, reduced, dot, slides, played, shown>> /\ ~landed'
      /\ runs' = [i \in Parts(section) |-> Outlive(i)]
  BY DEF LeaveLanding
<1>2. \A i \in Parts(section) : Outlive(i) \in [Positions -> Nat]
  <2>1. \A i \in Parts(section) : runs[i] \in [Positions -> Nat]
    BY DEF LandingInv
  <2> QED
    BY <2>1 DEF Outlive
<1>3. runs' \in [Parts(section) -> [Positions -> Nat]]
  BY <1>1, <1>2
<1>4. DotIsOfSlide' /\ AllElements' = AllElements
  BY <1>1 DEF DotIsOfSlide, AllElements, LandingInv
<1> QED
  BY <1>1, <1>3, <1>4 DEF LandingInv

LEMMA StepLanding == LandingInv /\ [LandingNext]_landingVars => LandingInv'
<1> SUFFICES ASSUME LandingInv, [LandingNext]_landingVars PROVE LandingInv'
  OBVIOUS
<1>1. CASE Bind
  BY <1>1, StepBind
<1>2. CASE \E p \in Progress : HiwProgress(p) \/ FeaturesProgress(p)
  BY <1>2, StepUpdateProgress DEF HiwProgress, FeaturesProgress
<1>3. CASE \E p \in Progress : HiwShowAll(p) \/ FeaturesShowAll(p)
  BY <1>3, StepShowAll DEF HiwShowAll, FeaturesShowAll
<1>4. CASE \E i \in Parts(section) : HiwSlide(i) \/ FeaturesSlide(i)
  BY <1>4, StepCrossSlide DEF HiwSlide, FeaturesSlide
<1>5. CASE \E i \in Parts(section) : \E k \in Positions : Continue(i, k)
  BY <1>5, StepContinue
<1>6. CASE LeaveLanding
  BY <1>6, StepLeaveLanding
<1>7. CASE UNCHANGED landingVars
  <2>1. UNCHANGED <<section, mobile, reduced, landed, dot, slides, played, runs, shown>>
    BY <1>7 DEF landingVars
  <2>2. DotIsOfSlide' /\ AllElements' = AllElements
    BY <2>1 DEF DotIsOfSlide, AllElements, LandingInv
  <2> QED
    BY <2>1, <2>2 DEF LandingInv
<1> QED
  BY <1>1, <1>2, <1>3, <1>4, <1>5, <1>6, <1>7 DEF LandingNext

LEMMA LandingFinishes == LandingInv => StepsFinish
<1> SUFFICES ASSUME LandingInv, landed, NEW i \in played, runs[i] = NoRuns
             PROVE  shown[i] = Elements(section, i)
  BY DEF StepsFinish
<1>1. \A k \in Positions : ~(runs[i][k] > 0)
  BY DEF NoRuns
<1>2. Promised(section, i, runs[i], shown[i])
  BY DEF LandingInv
<1> QED
  BY <1>1, <1>2 DEF Promised

(* The types of the landing page, most of which LandingInv says: wherever  *)
(* the page is scrolled to, a slide is the last one that began.            *)
LEMMA DotIsPart ==
    ASSUME NEW s \in Sections, NEW p \in 0..100
    PROVE  DotAt(s, p) \in Parts(s)
<1>1. \E i \in Parts(s) : /\ Starts(s)[i] <= p
                          /\ \A j \in Parts(s) : Starts(s)[j] <= p => j <= i
  <2>1. CASE s = "hiw"
    <3>1. Parts(s) = {1, 2, 3}
      BY <2>1 DEF Parts, Starts
    <3>2. Starts(s)[1] = 0 /\ Starts(s)[2] = 30 /\ Starts(s)[3] = 60
      BY <2>1 DEF Starts
    <3>3. CASE p < 30
      BY <3>1, <3>2, <3>3
    <3>4. CASE 30 <= p /\ p < 60
      BY <3>1, <3>2, <3>4
    <3>5. CASE 60 <= p
      BY <3>1, <3>2, <3>5
    <3> QED
      BY <3>3, <3>4, <3>5
  <2>2. CASE s = "features"
    <3>1. Parts(s) = {1, 2, 3, 4}
      BY <2>2 DEF Parts, Starts
    <3>2. /\ Starts(s)[1] = 0 /\ Starts(s)[2] = 25
          /\ Starts(s)[3] = 50 /\ Starts(s)[4] = 75
      BY <2>2 DEF Starts
    <3>3. CASE p < 25
      BY <3>1, <3>2, <3>3
    <3>4. CASE 25 <= p /\ p < 50
      BY <3>1, <3>2, <3>4
    <3>5. CASE 50 <= p /\ p < 75
      BY <3>1, <3>2, <3>5
    <3>6. CASE 75 <= p
      BY <3>1, <3>2, <3>6
    <3> QED
      BY <3>3, <3>4, <3>5, <3>6
  <2> QED
    BY <2>1, <2>2 DEF Sections
<1> QED
  BY <1>1 DEF DotAt

LandedTypes ==
    /\ mobile \in BOOLEAN /\ reduced \in BOOLEAN /\ landed \in BOOLEAN
    /\ bound \in {"no", "yes", "killed"}
    /\ progress \in {0} \cup Progress /\ dot \in 0..4

LEMMA LandingIsTyped == LandingInv /\ LandedTypes => LandingTypeOK
  BY DEF LandingInv, LandedTypes, LandingTypeOK, Sections

LEMMA InitLandedTypes == LandingInit => LandedTypes
  BY DEF LandingInit, LandedTypes

LEMMA StepLandedTypes == LandingInv /\ LandedTypes /\ [LandingNext]_landingVars => LandedTypes'
<1> SUFFICES ASSUME LandingInv, LandedTypes, [LandingNext]_landingVars PROVE LandedTypes'
  OBVIOUS
<1> USE DEF LandedTypes
<1>1. CASE Bind
  BY <1>1 DEF Bind
<1>2. ASSUME NEW p \in Progress, UpdateProgress(p) PROVE LandedTypes'
  <2>1. p \in 0..100 /\ section \in Sections
    BY ProgressAssumption DEF LandingInv
  <2>2. dot' \in Parts(section) /\ Parts(section) \subseteq 1..4
    BY <1>2, <2>1, DotIsPart, StartsFacts DEF UpdateProgress
  <2>3. dot' \in 0..4
    BY <2>2
  <2> QED
    BY <1>2, <2>3 DEF UpdateProgress
<1>3. ASSUME NEW p \in Progress, ShowAll(p) PROVE LandedTypes'
  BY <1>3 DEF ShowAll
<1>4. ASSUME NEW i \in Parts(section), CrossSlide(i) PROVE LandedTypes'
  BY <1>4 DEF CrossSlide
<1>5. ASSUME NEW i \in Parts(section), NEW k \in Positions, Continue(i, k) PROVE LandedTypes'
  BY <1>5 DEF Continue
<1>6. CASE LeaveLanding
  BY <1>6 DEF LeaveLanding
<1>7. CASE UNCHANGED landingVars
  BY <1>7 DEF landingVars
<1> QED
  BY <1>1, <1>2, <1>3, <1>4, <1>5, <1>6, <1>7
     DEF LandingNext, HiwProgress, FeaturesProgress, HiwShowAll, FeaturesShowAll, HiwSlide,
         FeaturesSlide

LEMMA PagesPlayFrame ==
    /\ PagesInit => FrameInit
    /\ [PagesNext]_pagesVars => [FrameNext]_frameVars
<1>1. ASSUME NEW s \in Scenes, Play(s) PROVE [FrameNext]_frameVars
  BY <1>1 DEF Play
<1> QED
  BY <1>1 DEF PagesInit, PagesNext, pagesVars

LEMMA PagesPlayLanding ==
    /\ PagesInit => LandingInit
    /\ [PagesNext]_pagesVars => [LandingNext]_landingVars
<1>1. ASSUME NEW s \in Scenes, Play(s) PROVE [LandingNext]_landingVars
  BY <1>1 DEF Play
<1> QED
  BY <1>1 DEF PagesInit, PagesNext, pagesVars

(* The bars of the application are drawn around its own pages only and     *)
(* mark the page that is on; while the landing page is on, no step of its  *)
(* stories stays half told however plays, resets and timers met, for any   *)
(* scroll positions; and the slide that takes the clicks is the dots' one. *)
THEOREM SceneryFollowsHolds == PagesSpec => []SceneryFollows
<1>1. FrameInv /\ LandingInv => SceneryFollows
  BY LandingFinishes DEF SceneryFollows, FrameInv, LandingInv
<1> QED
  BY <1>1, PagesPlayFrame, PagesPlayLanding, InitFrame, StepFrame, InitLanding, StepLanding,
     PTL DEF PagesSpec

-----------------------------------------------------------------------------
(* The history of the wallet. The rows on screen leave no gap, and no gap  *)
(* opens before the next rows asked for: the ledger only grows, and rows   *)
(* that grow in front of the offset repeat rows instead of skipping them.  *)
Exact(h, grown) == \A i \in 1..Len(h) : h[i] = grown + 1 - i

Orderly(h, grown, more) ==
    /\ \A i \in 1..Len(h) - 1 : h[i + 1] >= h[i] - 1
    /\ Len(h) > 0 => grown - Len(h) >= h[Len(h)] - 1
    /\ Len(h) > 0 /\ ~more => \E i \in 1..Len(h) : h[i] = 1

OneLoad ==
    \A k, l \in Loads : loads[l] # NoLoad => loads[l] = txOffset /\ (loads[k] # NoLoad => k = l)

HistInv ==
    /\ ledger \in Nat /\ history \in Seq(Nat \ {0}) /\ txOffset = Len(history)
    /\ loads \in [Loads -> {NoLoad} \cup Nat]
    /\ ~overlappedLoads => /\ OneLoad /\ Orderly(history, ledger, moreRows)
                           /\ ~booked => Exact(history, ledger)

LEMMA InitHist == WalletInit => HistInv
<1> SUFFICES ASSUME WalletInit PROVE HistInv
  OBVIOUS
<1>1. /\ ledger \in Nat /\ history = <<>> /\ txOffset = 0
      /\ loads = [k \in Loads |-> IF k = CHOOSE l \in Loads : TRUE THEN 0 ELSE NoLoad]
  BY WalletPageAssumption DEF WalletInit
<1>2. history \in Seq(Nat \ {0}) /\ Len(history) = 0
  BY <1>1
<1>3. Orderly(history, ledger, moreRows) /\ Exact(history, ledger)
  BY <1>1, <1>2 DEF Orderly, Exact
<1>4. \A l \in Loads : loads[l] = IF l = CHOOSE k \in Loads : TRUE THEN 0 ELSE NoLoad
  BY <1>1
<1>5. loads \in [Loads -> {NoLoad} \cup Nat] /\ OneLoad
  BY <1>1, <1>4 DEF OneLoad, NoLoad
<1> QED
  BY <1>1, <1>2, <1>3, <1>5 DEF HistInv

LEMMA RowsFacts ==
    ASSUME ledger \in Nat, NEW skip \in Nat
    PROVE  /\ RowsAt(skip) \in Seq(Nat \ {0})
           /\ Len(RowsAt(skip)) \in 0..PageRows
           /\ ledger <= skip => Len(RowsAt(skip)) = 0
           /\ skip < ledger => /\ Len(RowsAt(skip)) > 0
                               /\ Len(RowsAt(skip)) <= ledger - skip
                               /\ Len(RowsAt(skip)) # PageRows =>
                                     Len(RowsAt(skip)) = ledger - skip
           /\ \A i \in 1..Len(RowsAt(skip)) : RowsAt(skip)[i] = ledger - skip + 1 - i
<1>1. PICK left : left = ledger - skip /\ left \in Int
  OBVIOUS
<1>2. PICK size : size = (IF left < PageRows THEN left ELSE PageRows) /\ size \in Int
  BY <1>1, WalletPageAssumption
<1>3. CASE left <= 0
  <2>1. RowsAt(skip) = <<>>
    BY <1>1, <1>3 DEF RowsAt
  <2>2. RowsAt(skip) \in Seq(Nat \ {0}) /\ Len(RowsAt(skip)) = 0
    BY <2>1
  <2> QED
    BY <1>1, <1>3, <2>2, WalletPageAssumption
<1>4. CASE ~(left <= 0)
  <2>1. size \in Nat \ {0} /\ size <= left /\ size <= PageRows
        /\ (size # PageRows => size = left)
    BY <1>1, <1>2, <1>4, WalletPageAssumption
  <2>2. RowsAt(skip) = [i \in 1..size |-> left + 1 - i]
    BY <1>1, <1>2, <1>4 DEF RowsAt
  <2>3. \A i \in 1..size : left + 1 - i \in Nat \ {0}
    BY <1>1, <2>1
  <2>4. RowsAt(skip) \in [1..size -> Nat \ {0}]
    BY <2>2, <2>3
  <2>5. RowsAt(skip) \in Seq(Nat \ {0}) /\ Len(RowsAt(skip)) = size
    BY <2>1, <2>4
  <2> QED
    BY <1>1, <1>4, <2>1, <2>2, <2>5
<1> QED
  BY <1>1, <1>3, <1>4

LEMMA RowsJoin ==
    ASSUME ledger \in Nat, NEW h \in Seq(Nat \ {0}), NEW more, NEW came, came = RowsAt(Len(h)),
           NEW both, both = h \o came
    PROVE  /\ both \in Seq(Nat \ {0}) /\ Len(both) = Len(h) + Len(came)
           /\ Len(h) \in Nat /\ Len(came) \in Nat
           /\ Exact(h, ledger) => Exact(both, ledger)
           /\ Orderly(h, ledger, more) => Orderly(both, ledger, (Len(came) = PageRows))
<1>1. PICK n : n = Len(h) /\ n \in Nat
  OBVIOUS
<1>2. PICK m : m = Len(came) /\ m \in Nat
  BY RowsFacts
<1>3. /\ came \in Seq(Nat \ {0}) /\ m \in 0..PageRows
      /\ ledger <= n => m = 0
      /\ n < ledger => m > 0 /\ m <= ledger - n /\ (m # PageRows => m = ledger - n)
      /\ \A i \in 1..m : came[i] = ledger - n + 1 - i
  <2>1. came = RowsAt(n) /\ ledger \in Nat /\ n \in Nat
    BY <1>1
  <2> QED
    BY <1>2, <2>1, RowsFacts
<1>4. /\ both \in Seq(Nat \ {0}) /\ Len(both) = n + m
      /\ \A i \in 1..n : both[i] = h[i] /\ both[i] \in Nat \ {0}
      /\ \A i \in n + 1..n + m : both[i] = came[i - n] /\ i - n \in 1..m
      /\ \A i \in 1..n + m : i \in 1..n \/ i \in n + 1..n + m
  <2>1. /\ both \in Seq(Nat \ {0}) /\ Len(both) = Len(h) + Len(came)
        /\ \A i \in 1..Len(h) + Len(came) :
              both[i] = IF i <= Len(h) THEN h[i] ELSE came[i - Len(h)]
    BY <1>3, ConcatProperties
  <2>2. /\ Len(both) = n + m
        /\ \A i \in 1..n + m : both[i] = IF i <= n THEN h[i] ELSE came[i - n]
    BY <1>1, <1>2, <2>1
  <2>3. \A i \in 1..n : both[i] = h[i] /\ both[i] \in Nat \ {0}
    BY <1>1, <1>2, <2>2
  <2>4. ASSUME NEW i \in n + 1..n + m PROVE both[i] = came[i - n] /\ i - n \in 1..m
    BY <1>1, <1>2, <2>2
  <2>5. \A i \in 1..n + m : i \in 1..n \/ i \in n + 1..n + m
    BY <1>1, <1>2
  <2> QED
    BY <2>1, <2>2, <2>3, <2>4, <2>5
<1>5. ASSUME NEW i \in n + 1..n + m PROVE both[i] = ledger + 1 - i
  <2>1. PICK j : j = i - n /\ j \in 1..m /\ both[i] = came[j]
    BY <1>4
  <2>2. came[j] = ledger - n + 1 - j
    BY <1>3, <2>1
  <2>3. i \in Int
    OBVIOUS
  <2> QED
    BY <1>1, <2>1, <2>2, <2>3
<1>6. ASSUME Exact(h, ledger) PROVE Exact(both, ledger)
  BY <1>1, <1>4, <1>5, <1>6 DEF Exact
<1>7. ASSUME Orderly(h, ledger, more) PROVE Orderly(both, ledger, (Len(came) = PageRows))
  <2>1. ASSUME NEW i \in 1..n + m - 1 PROVE both[i + 1] >= both[i] - 1
    <3>1. CASE i + 1 <= n
      <4>1. i \in 1..n - 1 /\ i \in 1..n /\ i + 1 \in 1..n
        BY <1>1, <3>1
      <4>2. h[i + 1] >= h[i] - 1
        BY <1>1, <1>7, <4>1 DEF Orderly
      <4> QED
        BY <1>4, <4>1, <4>2
    <3>2. CASE i = n
      <4>1. n \in 1..n /\ n > 0 /\ n + 1 \in n + 1..n + m
        BY <1>1, <1>2, <3>2
      <4>2. ledger - n >= h[n] - 1 /\ both[n] = h[n] /\ both[n + 1] = ledger + 1 - (n + 1)
        BY <1>1, <1>4, <1>5, <1>7, <4>1 DEF Orderly
      <4>3. h[n] \in Nat
        BY <1>4, <4>1
      <4> QED
        BY <1>1, <3>2, <4>2, <4>3
    <3>3. CASE i > n
      <4>1. i \in n + 1..n + m /\ i + 1 \in n + 1..n + m
        BY <1>1, <1>2, <3>3
      <4>2. both[i] = ledger + 1 - i /\ both[i + 1] = ledger + 1 - (i + 1)
        BY <1>5, <4>1
      <4>3. i \in Int
        OBVIOUS
      <4> QED
        BY <4>2, <4>3
    <3> QED
      BY <1>1, <1>2, <3>1, <3>2, <3>3
  <2>2. ASSUME n + m > 0 PROVE ledger - (n + m) >= both[n + m] - 1
    <3>1. CASE m = 0
      BY <1>1, <1>2, <1>4, <1>7, <2>2, <3>1 DEF Orderly
    <3>2. CASE m # 0
      <4>1. n + m \in n + 1..n + m
        BY <1>1, <1>2, <3>2
      <4>2. both[n + m] = ledger + 1 - (n + m)
        BY <1>5, <4>1
      <4> QED
        BY <1>1, <1>2, <4>2
    <3> QED
      BY <3>1, <3>2
  <2>3. ASSUME n + m > 0, m # PageRows PROVE \E i \in 1..n + m : both[i] = 1
    <3>1. CASE n < ledger
      <4>1. m = ledger - n /\ m > 0
        BY <1>3, <2>3, <3>1
      <4>2. n + m \in n + 1..n + m /\ n + m \in 1..n + m
        BY <1>1, <1>2, <4>1
      <4>3. both[n + m] = ledger + 1 - (n + m)
        BY <1>5, <4>2
      <4>4. both[n + m] = 1
        BY <1>1, <1>2, <4>1, <4>3
      <4> QED
        BY <4>2, <4>4
    <3>2. CASE ~(n < ledger)
      <4>1. m = 0 /\ n > 0 /\ ledger - n <= 0
        BY <1>1, <1>2, <1>3, <2>3, <3>2
      <4>2. n \in 1..n /\ n \in 1..n + m /\ both[n] = h[n] /\ h[n] \in Nat \ {0}
        BY <1>1, <1>4, <4>1
      <4>3. ledger - n >= h[n] - 1
        BY <1>1, <1>7, <4>1 DEF Orderly
      <4>4. h[n] = 1
        BY <1>1, <4>1, <4>2, <4>3
      <4> QED
        BY <4>2, <4>4
    <3> QED
      BY <3>1, <3>2
  <2>4. Len(both) = n + m /\ n + m \in Nat
    BY <1>1, <1>2, <1>4
  <2>5. PICK k \in Nat : k = n + m
    BY <1>1, <1>2
  <2>6. PICK full : full = (Len(came) = PageRows)
    OBVIOUS
  <2>7. /\ \A i \in 1..k - 1 : both[i + 1] >= both[i] - 1
        /\ k > 0 => ledger - k >= both[k] - 1
    <3>1. ASSUME NEW i \in 1..k - 1 PROVE both[i + 1] >= both[i] - 1
      <4>1. i \in 1..n + m - 1
        BY <1>1, <1>2, <2>5
      <4> QED
        BY <2>1, <4>1
    <3>2. k > 0 => ledger - k >= both[k] - 1
      BY <2>2, <2>5
    <3> QED
      BY <3>1, <3>2
  <2>8. Len(both) = k /\ (k > 0 /\ ~full => \E i \in 1..k : both[i] = 1)
    <3>1. ~full => m # PageRows
      BY <1>2, <2>6
    <3>2. k > 0 /\ m # PageRows => \E i \in 1..k : both[i] = 1
      BY ONLY <2>3, <2>5
    <3> QED
      BY <2>4, <2>5, <3>1, <3>2
  <2>9. Orderly(both, ledger, full)
    BY <2>7, <2>8 DEF Orderly
  <2> QED
    BY <2>6, <2>9
<1> QED
  BY <1>1, <1>2, <1>4, <1>6, <1>7

LEMMA StepRowsArrive ==
    ASSUME HistInv, NEW l \in Loads, RowsArrive(l)
    PROVE  HistInv'
<1>1. /\ loads[l] # NoLoad /\ loads' = [loads EXCEPT ![l] = NoLoad]
      /\ history' = history \o RowsAt(loads[l])
      /\ moreRows' = (Len(RowsAt(loads[l])) = PageRows)
      /\ txOffset' = txOffset + Len(RowsAt(loads[l]))
      /\ UNCHANGED <<booked, overlappedLoads, ledger>>
  BY DEF RowsArrive, serverRows
<1>2. PICK came : came = RowsAt(loads[l])
  OBVIOUS
<1>3. /\ loads[l] \in Nat /\ history \in Seq(Nat \ {0}) /\ ledger \in Nat
      /\ txOffset = Len(history) /\ loads \in [Loads -> {NoLoad} \cup Nat]
  BY <1>1 DEF HistInv
<1>4. /\ came \in Seq(Nat \ {0}) /\ Len(came) \in Nat
      /\ history' = history \o came /\ txOffset' = txOffset + Len(came)
      /\ moreRows' = (Len(came) = PageRows)
  BY <1>1, <1>2, <1>3, RowsFacts
<1>5. history' \in Seq(Nat \ {0}) /\ txOffset' = Len(history')
  BY <1>3, <1>4
<1>6. /\ loads' \in [Loads -> {NoLoad} \cup Nat]
      /\ loads'[l] = NoLoad /\ \A k \in Loads : k # l => loads'[k] = loads[k]
  BY <1>1, <1>3
<1>7. ASSUME ~overlappedLoads
      PROVE  /\ OneLoad' /\ Orderly(history', ledger', moreRows')
             /\ ~booked => Exact(history', ledger')
  <2>1. OneLoad /\ Orderly(history, ledger, moreRows) /\ (~booked => Exact(history, ledger))
    BY <1>7 DEF HistInv
  <2>2. loads[l] = Len(history) /\ \A k \in Loads : loads[k] # NoLoad => k = l
    BY <1>1, <1>3, <2>1 DEF OneLoad
  <2>3. OneLoad'
    BY <1>6, <2>2 DEF OneLoad
  <2>4. came = RowsAt(Len(history))
    BY <1>2, <2>2
  <2>5. PICK full, both : full = (Len(came) = PageRows) /\ both = history \o came
    OBVIOUS
  <2>6. /\ Exact(history, ledger) => Exact(both, ledger)
        /\ Orderly(both, ledger, full)
    BY <1>3, <2>1, <2>4, <2>5, RowsJoin
  <2>7. history' = both /\ moreRows' = full /\ ledger' = ledger
    BY <1>1, <1>4, <2>5
  <2> QED
    BY <2>1, <2>3, <2>6, <2>7
<1> QED
  BY <1>1, <1>3, <1>5, <1>6, <1>7 DEF HistInv

(* A load is asked for where the history ends; the ledger may grow by it.  *)
LEMMA AskRowsKeeps ==
    ASSUME HistInv, NEW l \in Loads, AskRows(l), ledger' \in Nat, ledger' >= ledger,
           UNCHANGED <<history, txOffset, moreRows>>
    PROVE  HistInv'
<1>1. /\ loads[l] = NoLoad /\ loads' = [loads EXCEPT ![l] = txOffset]
      /\ booked' = (booked \/ ledger' # ledger)
      /\ overlappedLoads' = (overlappedLoads \/ \E k \in Loads : loads[k] # NoLoad)
  BY DEF AskRows
<1>2. /\ history \in Seq(Nat \ {0}) /\ ledger \in Nat /\ txOffset = Len(history)
      /\ loads \in [Loads -> {NoLoad} \cup Nat] /\ txOffset \in Nat
  BY DEF HistInv
<1>3. /\ loads' \in [Loads -> {NoLoad} \cup Nat]
      /\ loads'[l] = txOffset /\ \A k \in Loads : k # l => loads'[k] = loads[k]
  BY <1>1, <1>2
<1>4. ASSUME ~overlappedLoads'
      PROVE  /\ OneLoad' /\ Orderly(history', ledger', moreRows')
             /\ ~booked' => Exact(history', ledger')
  <2>1. ~overlappedLoads /\ \A k \in Loads : loads[k] = NoLoad
    BY <1>1, <1>4
  <2>2. Orderly(history, ledger, moreRows) /\ (~booked => Exact(history, ledger))
    BY <2>1 DEF HistInv
  <2>3. OneLoad'
    BY <1>3, <2>1 DEF OneLoad
  <2>4. Orderly(history', ledger', moreRows')
    <3>1. PICK n : n = Len(history) /\ n \in Nat
      BY <1>2
    <3>2. n > 0 => history[n] \in Nat /\ ledger - n >= history[n] - 1
      BY <1>2, <2>2, <3>1 DEF Orderly
    <3>3. n > 0 => ledger' - n >= history[n] - 1
      BY <1>2, <3>1, <3>2
    <3> QED
      BY <2>2, <3>1, <3>3 DEF Orderly
  <2>5. ~booked' => Exact(history', ledger')
    BY <1>1, <2>2 DEF Exact
  <2> QED
    BY <2>3, <2>4, <2>5
<1> QED
  BY <1>2, <1>3, <1>4 DEF HistInv

LEMMA StepHist == HistInv /\ [WalletNext]_walletVars => HistInv'
<1> SUFFICES ASSUME HistInv, [WalletNext]_walletVars PROVE HistInv'
  OBVIOUS
<1> USE DEF serverRows, balanceVars, historyVars, moneyVars, bankVars
<1>0. ledger \in Nat
  BY DEF HistInv
<1>1. ASSUME UNCHANGED <<ledger, historyVars>> PROVE HistInv'
  BY <1>1 DEF HistInv, OneLoad
<1>2. ASSUME NEW l \in Loads, RowsFail(l) PROVE HistInv'
  <2>1. /\ UNCHANGED <<history, txOffset, moreRows, booked, overlappedLoads, ledger>>
        /\ loads' = [loads EXCEPT ![l] = NoLoad]
    BY <1>2 DEF RowsFail
  <2>2. loads \in [Loads -> {NoLoad} \cup Nat]
    BY DEF HistInv
  <2>3. loads' \in [Loads -> {NoLoad} \cup Nat]
        /\ \A k \in Loads : loads'[k] # NoLoad => loads'[k] = loads[k]
    BY <2>1, <2>2
  <2>4. OneLoad => OneLoad'
    BY <2>1, <2>3 DEF OneLoad
  <2> QED
    BY <2>1, <2>3, <2>4 DEF HistInv
<1>3. ASSUME NEW l \in Loads, LoadMore(l) PROVE HistInv'
  BY <1>0, <1>3, AskRowsKeeps DEF LoadMore
<1>4. ASSUME NEW l \in Loads, RetryWallet(l) PROVE HistInv'
  BY <1>0, <1>4, AskRowsKeeps DEF RetryWallet, LoadAll
<1>5. ASSUME NEW l \in Loads, WithdrawSucceeds(l) PROVE HistInv'
  <2>1. ledger' = ledger + 1 /\ AskRows(l) /\ UNCHANGED <<history, txOffset, moreRows>>
    BY <1>5 DEF WithdrawSucceeds, LoadAll
  <2> QED
    BY <1>0, <2>1, AskRowsKeeps
<1>6. CASE LedgerGrows
  <2>1. /\ ledger' = ledger + 1 /\ booked' = TRUE
        /\ UNCHANGED <<history, txOffset, moreRows, loads, overlappedLoads>>
    BY <1>6 DEF LedgerGrows
  <2>2. Orderly(history, ledger, moreRows) => Orderly(history', ledger', moreRows')
    <3>1. PICK n : n = Len(history) /\ n \in Nat
      BY DEF HistInv
    <3>2. n > 0 => history[n] \in Nat
      BY <3>1 DEF HistInv
    <3>3. n > 0 /\ ledger - n >= history[n] - 1 => ledger' - n >= history[n] - 1
      BY <1>0, <2>1, <3>1, <3>2
    <3> QED
      BY <2>1, <3>1, <3>3 DEF Orderly
  <2>3. OneLoad' = OneLoad
    BY <2>1 DEF OneLoad
  <2> QED
    BY <1>0, <2>1, <2>2, <2>3 DEF HistInv
<1>7. ASSUME NEW l \in Loads, RowsArrive(l) PROVE HistInv'
  BY <1>7, StepRowsArrive
<1>8. WalletArrives \/ AccountsArrive \/ DepositAnswers \/ WithdrawFails
         => UNCHANGED <<ledger, historyVars>>
  BY DEF WalletArrives, AccountsArrive, DepositAnswers, WithdrawFails
<1>9. ASSUME NEW a, SelectAccount(a) \/ DeleteAccount(a) \/ DeleteAnswers(a)
      PROVE  UNCHANGED <<ledger, historyVars>>
  BY <1>9 DEF SelectAccount, DeleteAccount, DeleteAnswers
<1>10. ASSUME NEW sum, Deposit(sum) \/ Withdraw(sum)
       PROVE  UNCHANGED <<ledger, historyVars>>
  BY <1>10 DEF Deposit, Withdraw
<1>11. BanksArrive \/ ToggleForm \/ ToggleBanks \/ ChooseBank \/ AddAccount \/ AddAnswers
         => UNCHANGED <<ledger, historyVars>>
  BY DEF BanksArrive, ToggleForm, ToggleBanks, ChooseBank, AddAccount, AddAnswers
<1>12. CASE UNCHANGED walletVars
  BY <1>1, <1>12 DEF walletVars
<1>13. CASE MoneyNext
  BY <1>1, <1>2, <1>3, <1>4, <1>5, <1>6, <1>7, <1>8, <1>9, <1>10, <1>13 DEF MoneyNext
<1>14. CASE BanksNext
  BY <1>1, <1>9, <1>11, <1>14 DEF BanksNext
<1> QED
  BY <1>12, <1>13, <1>14 DEF WalletNext

LEMMA HistIsPrefix == HistInv => HistoryIsPrefix
<1> SUFFICES ASSUME HistInv, ~overlappedLoads
             PROVE  /\ \A i \in 1..Len(history) - 1 : history[i + 1] >= history[i] - 1
                    /\ history # <<>> /\ ~moreRows => \E i \in DOMAIN history : history[i] = 1
                    /\ ~booked => /\ history = [i \in 1..Len(history) |-> ledger + 1 - i]
                                  /\ txOffset = Len(history)
  BY DEF HistoryIsPrefix
<1>1. /\ Orderly(history, ledger, moreRows) /\ (~booked => Exact(history, ledger))
      /\ history \in Seq(Nat \ {0}) /\ txOffset = Len(history)
  BY DEF HistInv
<1>2. Len(history) \in Nat /\ DOMAIN history = 1..Len(history) /\ (history # <<>> => Len(history) > 0)
      /\ history = [i \in 1..Len(history) |-> history[i]]
  BY <1>1
<1> QED
  BY <1>1, <1>2 DEF Orderly, Exact

-----------------------------------------------------------------------------
(* The types of the wallet page: what the server holds, the history, and   *)
(* the forms. A withdrawal that succeeds took no more than there was.      *)
FundsTypes ==
    /\ ledger \in 0..MaxRows /\ funds \in Nat /\ available \in Nat
    /\ withdrawing \in [amount: Typed \cup {0}, account: Accounts \cup {NoAccount}]

RowsTypes ==
    /\ history \in Seq(1..MaxRows) /\ txOffset \in Nat
    /\ loads \in [Loads -> {NoLoad} \cup Nat]

BankTypes ==
    /\ accounts \subseteq Accounts /\ bankAccounts \subseteq Accounts
    /\ selected \in Accounts \cup {NoAccount}
    /\ calls \subseteq Calls /\ deleting \subseteq Accounts

SwitchTypes ==
    /\ walletLoading \in BOOLEAN /\ walletError \in BOOLEAN /\ moreRows \in BOOLEAN
    /\ verified \in BOOLEAN /\ formOpen \in BOOLEAN /\ banks \in BOOLEAN
    /\ bankOpen \in BOOLEAN /\ newBank \in BOOLEAN /\ walletLeft \in BOOLEAN
    /\ booked \in BOOLEAN /\ overlappedLoads \in BOOLEAN

WalletTyped == FundsTypes /\ RowsTypes /\ BankTypes /\ SwitchTypes

LEMMA WalletTypedIsTyped == WalletTyped => WalletPageTypeOK
  BY DEF WalletTyped, FundsTypes, RowsTypes, BankTypes, SwitchTypes, WalletPageTypeOK

LEMMA InitWalletTyped == WalletInit => WalletTyped
<1> SUFFICES ASSUME WalletInit PROVE WalletTyped
  OBVIOUS
<1>1. FundsTypes
  BY WalletPageAssumption DEF WalletInit, FundsTypes, NoWithdrawal
<1>2. loads \in [Loads -> {NoLoad} \cup Nat]
  BY DEF WalletInit, NoLoad
<1>3. history \in Seq(1..MaxRows) /\ txOffset \in Nat
  BY DEF WalletInit
<1>4. BankTypes
  BY DEF WalletInit, BankTypes, Calls
<1>5. SwitchTypes
  BY DEF WalletInit, SwitchTypes
<1> QED
  BY <1>1, <1>2, <1>3, <1>4, <1>5 DEF WalletTyped, RowsTypes

(* The rows of a page are rows of the ledger.                              *)
LEMMA RowsAreOfLedger ==
    ASSUME ledger \in 0..MaxRows, NEW skip \in Nat
    PROVE  RowsAt(skip) \in Seq(1..MaxRows) /\ Len(RowsAt(skip)) \in Nat
<1>1. PICK left : left = ledger - skip /\ left \in Int /\ left <= MaxRows
  BY WalletPageAssumption
<1>2. PICK size : size = (IF left < PageRows THEN left ELSE PageRows) /\ size \in Int
  BY <1>1, WalletPageAssumption
<1>3. CASE left <= 0
  <2>1. RowsAt(skip) = <<>>
    BY <1>1, <1>3 DEF RowsAt
  <2> QED
    BY <2>1
<1>4. CASE ~(left <= 0)
  <2>1. size \in Nat /\ size <= left
    BY <1>1, <1>2, <1>4, WalletPageAssumption
  <2>2. RowsAt(skip) = [i \in 1..size |-> left + 1 - i]
    BY <1>1, <1>2, <1>4 DEF RowsAt
  <2>3. \A i \in 1..size : left + 1 - i \in 1..MaxRows
    BY <1>1, <2>1, WalletPageAssumption
  <2>4. PICK S : S = 1..MaxRows
    OBVIOUS
  <2>5. RowsAt(skip) \in [1..size -> S]
    BY <2>2, <2>3, <2>4
  <2>6. RowsAt(skip) \in Seq(S) /\ Len(RowsAt(skip)) = size
    BY <2>1, <2>5
  <2> QED
    BY <2>1, <2>4, <2>6
<1> QED
  BY <1>1, <1>3, <1>4

LEMMA StepFundsTypes == FundsTypes /\ BankTypes /\ [WalletNext]_walletVars => FundsTypes'
<1> SUFFICES ASSUME FundsTypes, BankTypes, [WalletNext]_walletVars PROVE FundsTypes'
  OBVIOUS
<1> USE DEF serverRows, balanceVars, historyVars, moneyVars, bankVars
<1>1. ASSUME UNCHANGED <<ledger, funds, available, withdrawing>> PROVE FundsTypes'
  BY <1>1 DEF FundsTypes
<1>2. NoWithdrawal \in [amount: Typed \cup {0}, account: Accounts \cup {NoAccount}]
  BY DEF NoWithdrawal
<1>3. ASSUME NEW l \in Loads, RowsArrive(l) \/ RowsFail(l) \/ LoadMore(l) \/ RetryWallet(l)
      PROVE  UNCHANGED <<ledger, funds, available, withdrawing>>
  BY <1>3 DEF RowsArrive, RowsFail, LoadMore, RetryWallet, LoadAll
<1>4. ASSUME NEW l \in Loads, WithdrawSucceeds(l) PROVE FundsTypes'
  <2>1. /\ ledger' = ledger + 1 /\ ledger < MaxRows /\ withdrawing' = NoWithdrawal
        /\ withdrawing.amount \in 1..funds /\ funds' = funds - withdrawing.amount
        /\ available' = available
    BY <1>4 DEF WithdrawSucceeds, LoadAll
  <2>2. PICK sum \in 1..funds : sum = withdrawing.amount
    BY <2>1
  <2>3. funds' \in Nat
    BY <2>1, <2>2 DEF FundsTypes
  <2>4. ledger' \in 0..MaxRows
    BY <2>1, WalletPageAssumption DEF FundsTypes
  <2> QED
    BY <1>2, <2>1, <2>3, <2>4 DEF FundsTypes
<1>5. CASE WalletArrives
  BY <1>5 DEF WalletArrives, FundsTypes
<1>6. CASE LedgerGrows
  <2>1. ledger' \in 0..MaxRows
    BY <1>6, WalletPageAssumption DEF LedgerGrows, FundsTypes
  <2> QED
    BY <1>6, <2>1 DEF LedgerGrows, FundsTypes
<1>7. ASSUME NEW sum \in Typed, Withdraw(sum) PROVE FundsTypes'
  <2>1. withdrawing' \in [amount: Typed \cup {0}, account: Accounts \cup {NoAccount}]
    BY <1>7 DEF Withdraw, BankTypes
  <2> QED
    BY <1>7, <2>1 DEF Withdraw, FundsTypes
<1>8. CASE WithdrawFails
  BY <1>2, <1>8 DEF WithdrawFails, FundsTypes
<1>9. ASSUME NEW sum, Deposit(sum) PROVE UNCHANGED <<ledger, funds, available, withdrawing>>
  BY <1>9 DEF Deposit
<1>10. AccountsArrive \/ DepositAnswers \/ BanksArrive \/ ToggleForm \/ ToggleBanks \/ ChooseBank
          \/ AddAccount \/ AddAnswers => UNCHANGED <<ledger, funds, available, withdrawing>>
  BY DEF AccountsArrive, DepositAnswers, BanksArrive, ToggleForm, ToggleBanks, ChooseBank,
         AddAccount, AddAnswers
<1>11. ASSUME NEW a, SelectAccount(a) \/ DeleteAccount(a) \/ DeleteAnswers(a)
       PROVE  UNCHANGED <<ledger, funds, available, withdrawing>>
  BY <1>11 DEF SelectAccount, DeleteAccount, DeleteAnswers
<1>12. CASE UNCHANGED walletVars
  BY <1>1, <1>12 DEF walletVars
<1>13. CASE MoneyNext
  BY <1>1, <1>3, <1>4, <1>5, <1>6, <1>7, <1>8, <1>9, <1>10, <1>11, <1>13 DEF MoneyNext
<1>14. CASE BanksNext
  BY <1>1, <1>10, <1>11, <1>14 DEF BanksNext
<1> QED
  BY <1>12, <1>13, <1>14 DEF WalletNext

LEMMA StepRowsTypes == FundsTypes /\ RowsTypes /\ [WalletNext]_walletVars => RowsTypes'
<1> SUFFICES ASSUME FundsTypes, RowsTypes, [WalletNext]_walletVars PROVE RowsTypes'
  OBVIOUS
<1> USE DEF serverRows, balanceVars, historyVars, moneyVars, bankVars
<1>1. ASSUME UNCHANGED <<history, txOffset, loads>> PROVE RowsTypes'
  BY <1>1 DEF RowsTypes
<1>2. ASSUME NEW l \in Loads, AskRows(l), UNCHANGED <<history, txOffset>> PROVE RowsTypes'
  BY <1>2 DEF AskRows, RowsTypes
<1>3. ASSUME NEW l \in Loads, RowsArrive(l) PROVE RowsTypes'
  <2>1. PICK skip, came : skip = loads[l] /\ came = RowsAt(skip) /\ skip \in Nat
    BY <1>3 DEF RowsArrive, RowsTypes
  <2>2. /\ history' = history \o came /\ txOffset' = txOffset + Len(came)
        /\ loads' = [loads EXCEPT ![l] = NoLoad]
    BY <1>3, <2>1 DEF RowsArrive
  <2>3. came \in Seq(1..MaxRows) /\ Len(came) \in Nat
    BY <2>1, RowsAreOfLedger DEF FundsTypes
  <2>4. history' \in Seq(1..MaxRows)
    BY <2>2, <2>3 DEF RowsTypes
  <2>5. loads' \in [Loads -> {NoLoad} \cup Nat]
    BY <2>2 DEF RowsTypes
  <2> QED
    BY <2>2, <2>3, <2>4, <2>5 DEF RowsTypes
<1>4. ASSUME NEW l \in Loads, RowsFail(l) PROVE RowsTypes'
  BY <1>4 DEF RowsFail, RowsTypes
<1>5. ASSUME NEW l \in Loads, LoadMore(l) \/ RetryWallet(l) \/ WithdrawSucceeds(l)
      PROVE  RowsTypes'
  BY <1>2, <1>5 DEF LoadMore, RetryWallet, WithdrawSucceeds, LoadAll
<1>6. WalletArrives \/ AccountsArrive \/ LedgerGrows \/ DepositAnswers \/ WithdrawFails
         => UNCHANGED <<history, txOffset, loads>>
  BY DEF WalletArrives, AccountsArrive, LedgerGrows, DepositAnswers, WithdrawFails
<1>7. ASSUME NEW a, SelectAccount(a) \/ DeleteAccount(a) \/ DeleteAnswers(a)
      PROVE  UNCHANGED <<history, txOffset, loads>>
  BY <1>7 DEF SelectAccount, DeleteAccount, DeleteAnswers
<1>8. ASSUME NEW sum, Deposit(sum) \/ Withdraw(sum) PROVE UNCHANGED <<history, txOffset, loads>>
  BY <1>8 DEF Deposit, Withdraw
<1>9. BanksArrive \/ ToggleForm \/ ToggleBanks \/ ChooseBank \/ AddAccount \/ AddAnswers
         => UNCHANGED <<history, txOffset, loads>>
  BY DEF BanksArrive, ToggleForm, ToggleBanks, ChooseBank, AddAccount, AddAnswers
<1>10. CASE UNCHANGED walletVars
  BY <1>1, <1>10 DEF walletVars
<1>11. CASE MoneyNext
  BY <1>1, <1>3, <1>4, <1>5, <1>6, <1>7, <1>8, <1>11 DEF MoneyNext
<1>12. CASE BanksNext
  BY <1>1, <1>7, <1>9, <1>12 DEF BanksNext
<1> QED
  BY <1>10, <1>11, <1>12 DEF WalletNext

LEMMA StepBankTypes == BankTypes /\ [WalletNext]_walletVars => BankTypes'
<1> SUFFICES ASSUME BankTypes, [WalletNext]_walletVars PROVE BankTypes'
  OBVIOUS
<1> USE DEF serverRows, balanceVars, historyVars, moneyVars, bankVars, BankTypes
<1>1. {"wallet", "accounts"} \subseteq Calls /\ {"deposit", "add"} \subseteq Calls
  BY DEF Calls
<1>2. ASSUME NEW l \in Loads, RowsArrive(l) \/ RowsFail(l) \/ LoadMore(l) PROVE BankTypes'
  BY <1>2 DEF RowsArrive, RowsFail, LoadMore
<1>3. ASSUME NEW l \in Loads, RetryWallet(l) \/ WithdrawSucceeds(l) PROVE BankTypes'
  BY <1>1, <1>3 DEF RetryWallet, WithdrawSucceeds, LoadAll
<1>4. CASE WalletArrives \/ AccountsArrive \/ LedgerGrows \/ DepositAnswers \/ WithdrawFails
  BY <1>4 DEF WalletArrives, AccountsArrive, LedgerGrows, DepositAnswers, WithdrawFails
<1>5. ASSUME NEW a \in Accounts, SelectAccount(a) \/ DeleteAccount(a) PROVE BankTypes'
  BY <1>5 DEF SelectAccount, DeleteAccount
<1>6. ASSUME NEW a \in Accounts, DeleteAnswers(a) PROVE BankTypes'
  BY <1>1, <1>6 DEF DeleteAnswers
<1>7. ASSUME NEW sum \in Typed, Deposit(sum) \/ Withdraw(sum) PROVE BankTypes'
  BY <1>1, <1>7 DEF Deposit, Withdraw
<1>8. CASE BanksArrive \/ ToggleForm \/ ToggleBanks \/ ChooseBank
  BY <1>8 DEF BanksArrive, ToggleForm, ToggleBanks, ChooseBank
<1>9. CASE AddAccount \/ AddAnswers
  BY <1>1, <1>9 DEF AddAccount, AddAnswers
<1>10. CASE UNCHANGED walletVars
  BY <1>10 DEF walletVars
<1> QED
  BY <1>2, <1>3, <1>4, <1>5, <1>6, <1>7, <1>8, <1>9, <1>10 DEF WalletNext, MoneyNext, BanksNext

LEMMA StepSwitchTypes == SwitchTypes /\ [WalletNext]_walletVars => SwitchTypes'
<1> SUFFICES ASSUME SwitchTypes, [WalletNext]_walletVars PROVE SwitchTypes'
  OBVIOUS
<1> USE DEF serverRows, balanceVars, historyVars, moneyVars, bankVars, SwitchTypes
<1>1. ASSUME NEW l \in Loads, AskRows(l)
      PROVE  booked' \in BOOLEAN /\ overlappedLoads' \in BOOLEAN
  <2>1. (booked' = TRUE \/ booked' = FALSE) /\ (overlappedLoads' = TRUE \/ overlappedLoads' = FALSE)
    BY <1>1, Zenon DEF AskRows
  <2> QED
    BY <2>1
<1>2. ASSUME NEW l \in Loads, RowsArrive(l) PROVE SwitchTypes'
  <2>1. moreRows' = TRUE \/ moreRows' = FALSE
    BY <1>2, Zenon DEF RowsArrive
  <2> QED
    BY <1>2, <2>1 DEF RowsArrive
<1>3. ASSUME NEW l \in Loads, RowsFail(l) PROVE SwitchTypes'
  BY <1>3 DEF RowsFail
<1>4. ASSUME NEW l \in Loads, LoadMore(l) PROVE SwitchTypes'
  BY <1>1, <1>4 DEF LoadMore
<1>5. ASSUME NEW l \in Loads, RetryWallet(l) \/ WithdrawSucceeds(l) PROVE SwitchTypes'
  BY <1>1, <1>5 DEF RetryWallet, WithdrawSucceeds, LoadAll
<1>6. CASE AccountsArrive \/ LedgerGrows \/ DepositAnswers \/ WithdrawFails
  BY <1>6 DEF AccountsArrive, LedgerGrows, DepositAnswers, WithdrawFails
<1>7. ASSUME NEW a, SelectAccount(a) \/ DeleteAccount(a) \/ DeleteAnswers(a) PROVE SwitchTypes'
  BY <1>7 DEF SelectAccount, DeleteAccount, DeleteAnswers
<1>8. ASSUME NEW sum, Deposit(sum) \/ Withdraw(sum) PROVE SwitchTypes'
  BY <1>8 DEF Deposit, Withdraw
<1>9. CASE BanksArrive \/ ChooseBank \/ AddAccount \/ AddAnswers
  BY <1>9 DEF BanksArrive, ChooseBank, AddAccount, AddAnswers
<1>10. CASE ToggleForm \/ ToggleBanks
  <2>1. (formOpen' = TRUE \/ formOpen' = FALSE) /\ (bankOpen' = TRUE \/ bankOpen' = FALSE)
    BY <1>10 DEF ToggleForm, ToggleBanks
  <2> QED
    BY <1>10, <2>1 DEF ToggleForm, ToggleBanks
<1>11. CASE WalletArrives
  <2>1. walletError' \in BOOLEAN /\ walletLoading' \in BOOLEAN
    BY <1>11 DEF WalletArrives
  <2> QED
    BY <1>11, <2>1 DEF WalletArrives
<1>12. CASE UNCHANGED walletVars
  BY <1>12 DEF walletVars
<1> QED
  BY <1>2, <1>3, <1>4, <1>5, <1>6, <1>7, <1>8, <1>9, <1>10, <1>11, <1>12
     DEF WalletNext, MoneyNext, BanksNext

LEMMA StepWalletTyped == WalletTyped /\ [WalletNext]_walletVars => WalletTyped'
  BY StepFundsTypes, StepRowsTypes, StepBankTypes, StepSwitchTypes DEF WalletTyped

-----------------------------------------------------------------------------
(* The notifications. While none is made or deleted, the rows on screen    *)
(* are the first ones the offset and the pages asked for reach to.         *)
NoticesInv ==
    /\ IsFiniteSet(kept) /\ offset \in Nat
    /\ rowsLoading \in BOOLEAN /\ (noticePage = "asked" <=> rowsLoading)
    /\ leaving # {} => moved
    /\ ~moved /\ rowsLoading /\ offset > 0 => rows = Rows(0, offset) /\ Len(rows) = offset
    /\ ~moved /\ ~rowsLoading /\ ~rowsError =>
          rows = Rows(0, offset + Limit) /\ total = Cardinality(kept)

LEMMA NewestFirstFacts ==
    ASSUME IsFiniteSet(kept)
    PROVE  \E S : NewestFirst(kept) \in Seq(S) /\ Len(NewestFirst(kept)) = Cardinality(kept)
                  /\ Cardinality(kept) \in Nat
<1>1. PICK n : n = Cardinality(kept) /\ n \in Nat
  BY FS_CardinalityType
<1>2. PICK up : up = [i \in 1..n |->
                         CHOOSE k \in kept : Cardinality({m \in kept : m < k}) = i - 1]
  OBVIOUS
<1>3. Ascending(kept) = up
  BY <1>1, <1>2 DEF Ascending
<1>4. PICK S : S = {up[i] : i \in 1..n}
  OBVIOUS
<1>5. up \in [1..n -> S]
  BY <1>2, <1>4
<1>6. up \in Seq(S) /\ Len(up) = n
  BY <1>1, <1>5
<1>7. Reverse(up) = [i \in 1..n |-> up[(n - i) + 1]]
  BY <1>6 DEF Reverse
<1>8. \A i \in 1..n : (n - i) + 1 \in 1..n
  BY <1>1
<1>9. Reverse(up) \in [1..n -> S]
  BY <1>5, <1>7, <1>8
<1>10. NewestFirst(kept) \in Seq(S) /\ Len(NewestFirst(kept)) = n
  BY <1>1, <1>3, <1>9 DEF NewestFirst
<1> QED
  BY <1>1, <1>10

(* Pages lie next to each other.                                           *)
LEMMA RowsFollow ==
    ASSUME IsFiniteSet(kept), NEW k \in Nat
    PROVE  /\ Len(Rows(0, k)) = (IF k < Cardinality(kept) THEN k ELSE Cardinality(kept))
           /\ Cardinality(kept) \in Nat
           /\ Rows(0, Len(Rows(0, k))) = Rows(0, k)
           /\ Len(Rows(0, k)) = k => Rows(0, k) \o PageOf(k) = Rows(0, k + Limit)
<1>1. PICK all, S : all = NewestFirst(kept) /\ all \in Seq(S) /\ Len(all) = Cardinality(kept)
  BY NewestFirstFacts
<1>2. PICK n : n = Len(all) /\ n \in Nat /\ n = Cardinality(kept)
  BY <1>1
<1>3. PICK m \in 0..n : m = IF k < n THEN k ELSE n
  BY <1>2
<1>4. PICK part : part = SubSeq(all, 1, m)
  OBVIOUS
<1>5. Rows(0, k) = part
  BY <1>1, <1>2, <1>3, <1>4 DEF Rows
<1>6. \A i \in 1..m : all[i] \in S
  BY <1>1, <1>2
<1>7. Len(part) = IF 1 <= m THEN m - 1 + 1 ELSE 0
  BY <1>4, <1>6, SubSeqProperties
<1>8. Len(part) = m
  BY <1>7
<1>9. Rows(0, m) = part
  BY <1>1, <1>2, <1>3, <1>4 DEF Rows
<1>10. ASSUME m = k
       PROVE  part \o PageOf(k) = Rows(0, k + Limit)
  <2>1. PICK l \in 0..n : l = IF k + Limit < n THEN k + Limit ELSE n
    BY <1>2, ListsAssumption
  <2>2. PageOf(k) = SubSeq(all, k + 1, l)
    BY <1>1, <1>2, <2>1 DEF PageOf, Rows
  <2>3. Rows(0, k + Limit) = SubSeq(all, 1, l)
    BY <1>1, <1>2, <2>1 DEF Rows
  <2>4. 1 \in 1..n + 1 /\ k \in 1 - 1..n /\ l \in k..n
    BY <1>2, <1>3, <1>10, <2>1, ListsAssumption
  <2>5. SubSeq(all, 1, k) \o SubSeq(all, k + 1, l) = SubSeq(all, 1, l)
    BY <1>1, <1>2, <2>4, ConcatAdjacentSubSeq
  <2> QED
    BY <1>4, <1>10, <2>2, <2>3, <2>5
<1> QED
  BY <1>2, <1>3, <1>5, <1>8, <1>9, <1>10

LEMMA InitNotices == NoticesInit => NoticesInv
<1> SUFFICES ASSUME NoticesInit PROVE NoticesInv
  OBVIOUS
<1>1. PICK n \in 0..MaxNotices : kept = 1..n
  BY DEF NoticesInit
<1>2. IsFiniteSet(kept)
  BY <1>1, FS_Interval
<1> QED
  BY <1>2 DEF NoticesInit, NoticesInv

LEMMA StepPageArrives ==
    ASSUME NoticesInv, PageArrives
    PROVE  NoticesInv'
<1>1. /\ rowsLoading /\ rowsLoading' = FALSE /\ noticePage' = "no"
      /\ total' = Cardinality(kept) /\ UNCHANGED <<kept, offset, rowsError, leaving>>
      /\ IsFiniteSet(kept) /\ offset \in Nat
  BY DEF PageArrives, NoticesInv
<1>2. CASE offset = 0
  <2>1. rows' = Rows(0, offset + Limit) /\ moved' = (leaving # {})
    BY <1>2, ListsAssumption DEF PageArrives, PageOf
  <2>2. \A j : Rows(0, j)' = Rows(0, j)
    BY <1>1 DEF Rows
  <2> QED
    BY <1>1, <2>1, <2>2 DEF NoticesInv
<1>3. CASE offset # 0
  <2>1. rows' = rows \o PageOf(offset) /\ moved' = moved /\ offset > 0
    BY <1>1, <1>3 DEF PageArrives
  <2>2. ~moved => rows' = Rows(0, offset + Limit)
    <3> SUFFICES ASSUME ~moved PROVE rows' = Rows(0, offset + Limit)
      OBVIOUS
    <3>1. rows = Rows(0, offset) /\ Len(rows) = offset
      BY <1>1, <2>1 DEF NoticesInv
    <3> QED
      BY <1>1, <2>1, <3>1, RowsFollow
  <2>3. \A j : Rows(0, j)' = Rows(0, j)
    BY <1>1 DEF Rows
  <2> QED
    BY <1>1, <2>1, <2>2, <2>3 DEF NoticesInv
<1> QED
  BY <1>2, <1>3

LEMMA StepMorePages ==
    ASSUME NoticesInv, MorePages
    PROVE  NoticesInv'
<1>1. /\ ~rowsLoading /\ ~rowsError /\ Len(rows) < total
      /\ offset' = offset + Limit /\ rowsLoading' = TRUE /\ noticePage' = "asked"
      /\ UNCHANGED <<kept, rows, total, leaving, moved>>
  BY DEF MorePages, MoreShown, NoticesScreen, Load, NoticesInv
<1>2. PICK k, n : k = offset + Limit /\ n = Cardinality(kept) /\ k \in Nat /\ n \in Nat /\ k > 0
                  /\ IsFiniteSet(kept)
  BY FS_CardinalityType, ListsAssumption DEF NoticesInv
<1>3. ASSUME ~moved PROVE rows = Rows(0, k) /\ Len(rows) = k
  <2>1. rows = Rows(0, k) /\ total = n
    BY <1>1, <1>2, <1>3 DEF NoticesInv
  <2>2. Len(rows) = IF k < n THEN k ELSE n
    BY <1>2, <2>1, RowsFollow
  <2> QED
    BY <1>1, <1>2, <2>1, <2>2
<1>4. \A j : Rows(0, j)' = Rows(0, j)
  BY <1>1 DEF Rows
<1> QED
  BY <1>1, <1>2, <1>3, <1>4 DEF NoticesInv

(* The steps that mark notifications as read or show them so.              *)
MarkSteps ==
    \/ MarkAll
    \/ \E n \in 1..MaxNotices : ClickRow(n)
    \/ \E m \in Marks : Marked(m) \/ MarkLost(m)

LEMMA StepNotices == NoticesInv /\ [NoticesNext]_noticeVars => NoticesInv'
<1> SUFFICES ASSUME NoticesInv, [NoticesNext]_noticeVars PROVE NoticesInv'
  OBVIOUS
<1>1. CASE NoticeMade
  <2>1. PICK n : kept' = kept \cup {n}
    BY <1>1 DEF NoticeMade
  <2>2. IsFiniteSet(kept')
    BY <2>1, FS_AddElement DEF NoticesInv
  <2> QED
    BY <1>1, <2>2 DEF NoticeMade, NoticesInv
<1>2. CASE PageFails
  BY <1>2 DEF PageFails, NoticesInv
<1>3. CASE RetryPage
  BY <1>3 DEF RetryPage, Load, NoticesInv
<1>4. ASSUME NEW n, DeleteRow(n) PROVE NoticesInv'
  <2>1. IsFiniteSet(kept')
    BY <1>4, FS_RemoveElement DEF DeleteRow, NoticesInv
  <2> QED
    BY <1>4, <2>1 DEF DeleteRow, NoticesInv
<1>5. ASSUME NEW n, RowDeleted(n) \/ DeletionLost(n) PROVE NoticesInv'
  <2>1. moved' /\ UNCHANGED <<kept, offset, rowsLoading, noticePage>>
    BY <1>5 DEF RowDeleted, DeletionLost, NoticesInv
  <2> QED
    BY <2>1 DEF NoticesInv
<1>6. CASE UNCHANGED noticeVars
  <2>1. \A j : Rows(0, j)' = Rows(0, j)
    BY <1>6 DEF Rows, noticeVars
  <2> QED
    BY <1>6, <2>1 DEF noticeVars, NoticesInv
<1>7. CASE PageArrives \/ MorePages
  BY <1>7, StepPageArrives, StepMorePages
<1>8. CASE MarkSteps
  <2>1. UNCHANGED <<kept, rows, total, offset, rowsLoading, rowsError, noticePage, leaving, moved>>
    BY <1>8 DEF MarkSteps, MarkAll, ClickRow, Marked, MarkLost
  <2>2. \A j : Rows(0, j)' = Rows(0, j)
    BY <2>1 DEF Rows
  <2> QED
    BY <2>1, <2>2 DEF NoticesInv
<1> QED
  BY <1>1, <1>2, <1>3, <1>4, <1>5, <1>6, <1>7, <1>8 DEF NoticesNext, MarkSteps

LEMMA NoticesAreLatest == NoticesInv => NoticesArePrefix
<1> SUFFICES ASSUME NoticesInv, ~moved, NoticesScreen \in {"empty", "rows"}
             PROVE  rows = Rows(0, Len(rows)) /\ total = Cardinality(kept)
  BY DEF NoticesArePrefix
<1>1. ~rowsLoading /\ ~rowsError
  BY DEF NoticesScreen, NoticesInv
<1>2. rows = Rows(0, offset + Limit) /\ total = Cardinality(kept) /\ IsFiniteSet(kept)
  BY <1>1 DEF NoticesInv
<1>3. offset + Limit \in Nat
  BY ListsAssumption DEF NoticesInv
<1> QED
  BY <1>2, <1>3, RowsFollow

-----------------------------------------------------------------------------
(* The types of the lists. Ascending puts every number of a finite set in  *)
(* a place of its own: how many are below it is its place.                 *)
LEMMA RanksAreTaken ==
    ASSUME NEW S, S \subseteq Nat, IsFiniteSet(S), NEW i \in 1..Cardinality(S)
    PROVE  \E n \in S : Cardinality({m \in S : m < n}) = i - 1
<1>1. PICK N : N = Cardinality(S) /\ N \in Nat
  BY FS_CardinalityType
<1>2. PICK below : below = [n \in S |-> {m \in S : m < n}]
  OBVIOUS
<1>3. ASSUME NEW n \in S
      PROVE  IsFiniteSet(below[n]) /\ Cardinality(below[n]) \in 0..N - 1
  <2>1. below[n] \in SUBSET (S \ {n})
    BY <1>2, <1>3
  <2>2. IsFiniteSet(S \ {n}) /\ Cardinality(S \ {n}) = N - 1
    BY <1>1, <1>3, FS_RemoveElement
  <2>3. IsFiniteSet(below[n]) /\ Cardinality(below[n]) <= N - 1
    BY <2>1, <2>2, FS_Subset
  <2> QED
    BY <1>1, <2>3, FS_CardinalityType
<1>4. PICK rank : rank = [n \in S |-> Cardinality(below[n]) + 1]
  OBVIOUS
<1>5. rank \in [S -> 1..N]
  BY <1>1, <1>3, <1>4
<1>6. ASSUME NEW n \in S, NEW k \in S, n < k
      PROVE  rank[n] < rank[k]
  <2>1. n \in Nat /\ k \in Nat /\ \A m \in S : m \in Nat
    OBVIOUS
  <2>2. below[n] = {m \in S : m < n} /\ below[k] = {m \in S : m < k}
    BY <1>2
  <2>5. ASSUME NEW m \in below[n] PROVE m \in S /\ m < k
    <3>1. m \in S /\ m < n
      BY <2>2
    <3>2. m \in Nat
      BY <2>1, <3>1
    <3> QED
      BY <1>6, <2>1, <3>1, <3>2
  <2>6. n \in below[k] /\ n \notin below[n]
    BY <1>6, <2>1, <2>2
  <2>7. below[n] \cup {n} \in SUBSET below[k]
    BY <2>2, <2>5, <2>6
  <2>3. /\ IsFiniteSet(below[n] \cup {n})
        /\ Cardinality(below[n] \cup {n}) = Cardinality(below[n]) + 1
    BY <1>3, <2>6, FS_AddElement
  <2>4. Cardinality(below[n] \cup {n}) <= Cardinality(below[k])
    BY <1>3, <2>7, FS_Subset
  <2>8. /\ Cardinality(below[n]) \in Int /\ Cardinality(below[k]) \in Int
        /\ Cardinality(below[n]) + 1 <= Cardinality(below[k])
    BY <1>1, <1>3, <2>3, <2>4
  <2>9. rank[n] = Cardinality(below[n]) + 1 /\ rank[k] = Cardinality(below[k]) + 1
    BY <1>4
  <2> QED
    BY <2>8, <2>9
<1>7. ASSUME NEW n \in S, NEW k \in S, rank[n] = rank[k]
      PROVE  n = k
  <2>1. n \in Nat /\ k \in Nat /\ rank[n] \in Nat /\ rank[k] \in Nat
    BY <1>5
  <2>2. n < k \/ k < n \/ n = k
    BY <2>1
  <2> QED
    BY <1>6, <1>7, <2>1, <2>2
<1>8. rank \in Injection(S, 1..N)
  BY <1>5, <1>7 DEF Injection, IsInjective
<1>9. IsFiniteSet(1..N) /\ Cardinality(1..N) = N
  BY <1>1, FS_Interval
<1>10. rank \in Surjection(S, 1..N)
  BY <1>1, <1>8, <1>9, FS_Injection
<1>11. PICK n \in S : rank[n] = i
  BY <1>1, <1>10 DEF Surjection
<1>12. Cardinality(below[n]) = i - 1
  <2>1. PICK c : c = Cardinality(below[n]) /\ c \in 0..N - 1
    BY <1>3
  <2>2. c + 1 = i
    BY <1>4, <1>11, <2>1
  <2>3. c = i - 1
    BY <1>1, <2>1, <2>2
  <2> QED
    BY <2>1, <2>3
<1> QED
  BY <1>2, <1>12

LEMMA AscendingFacts ==
    ASSUME NEW S, S \subseteq Nat, IsFiniteSet(S)
    PROVE  Ascending(S) \in Seq(S) /\ Len(Ascending(S)) = Cardinality(S)
<1>1. PICK N : N = Cardinality(S) /\ N \in Nat
  BY FS_CardinalityType
<1>2. \A i \in 1..N : (CHOOSE n \in S : Cardinality({m \in S : m < n}) = i - 1) \in S
  BY <1>1, RanksAreTaken
<1>3. PICK up : up = [i \in 1..N |-> CHOOSE n \in S : Cardinality({m \in S : m < n}) = i - 1]
  OBVIOUS
<1>4. up \in [1..N -> S]
  BY <1>2, <1>3
<1>5. Ascending(S) = up
  BY <1>1, <1>3 DEF Ascending
<1> QED
  BY <1>1, <1>4, <1>5

(* What is taken out of a sequence leaves no other element than it had.    *)
LEMMA WithoutFacts ==
    ASSUME NEW S, NEW s \in Seq(S), NEW n
    PROVE  Without(s, n) \in Seq(S) /\ ToSet(Without(s, n)) \subseteq ToSet(s) \ {n}
<1>1. PICK D, left : D = {i \in DOMAIN s : s[i] # n} /\ left = Ascending(D)
  OBVIOUS
<1>2. D \in SUBSET (1..Len(s)) /\ Len(s) \in Nat
  BY <1>1
<1>3. D \subseteq Nat /\ IsFiniteSet(D)
  <2>1. PICK I : I = 1..Len(s) /\ I \subseteq Nat /\ D \in SUBSET I
    BY <1>2
  <2>2. IsFiniteSet(I)
    BY <1>2, <2>1, FS_Interval
  <2> QED
    BY <2>1, <2>2, FS_Subset
<1>4. PICK N : N = Len(left) /\ N \in Nat /\ left \in [1..N -> D]
  <2>1. Ascending(D) \in Seq(D)
    BY <1>3, AscendingFacts
  <2>2. left \in Seq(D)
    BY <1>1, <2>1
  <2> QED
    BY <2>2
<1>5. Without(s, n) = [k \in 1..N |-> s[left[k]]]
  BY <1>1, <1>4 DEF Without
<1>6. \A k \in 1..N : left[k] \in DOMAIN s /\ s[left[k]] # n /\ s[left[k]] \in S
  BY <1>1, <1>2, <1>4
<1>7. PICK t : t = [k \in 1..N |-> s[left[k]]]
  OBVIOUS
<1>8. t \in [1..N -> S]
  BY <1>6, <1>7
<1>9. t \in Seq(S) /\ DOMAIN t = 1..N
  BY <1>4, <1>7, <1>8
<1>10. ToSet(t) \subseteq ToSet(s) \ {n}
  BY <1>6, <1>7, <1>9 DEF ToSet
<1> QED
  BY <1>5, <1>7, <1>9, <1>10

LEMMA RowsAreKept ==
    ASSUME kept \subseteq Nat, IsFiniteSet(kept), NEW skip \in Nat, NEW upto \in Nat
    PROVE  Rows(skip, upto) \in Seq(kept)
<1>1. PICK N : N = Cardinality(kept) /\ N \in Nat
  BY FS_CardinalityType
<1>2. PICK up : up = Ascending(kept) /\ up \in Seq(kept) /\ Len(up) = N
  BY <1>1, AscendingFacts
<1>3. Reverse(up) = [i \in 1..N |-> up[(N - i) + 1]]
  BY <1>2 DEF Reverse
<1>4. \A i \in 1..N : (N - i) + 1 \in 1..N
  BY <1>1
<1>5. \A i \in 1..N : Reverse(up)[i] \in kept
  BY <1>2, <1>3, <1>4
<1>6. PICK all : all = Reverse(up) /\ Len(all) = N /\ \A i \in 1..N : all[i] \in kept
  BY <1>1, <1>3, <1>5
<1>7. PICK last : last = (IF upto < N THEN upto ELSE N) /\ last \in 0..N
  BY <1>1
<1>8. Rows(skip, upto) = SubSeq(all, skip + 1, last)
  BY <1>2, <1>6, <1>7 DEF Rows, NewestFirst
<1>9. \A i \in skip + 1..last : all[i] \in kept
  BY <1>1, <1>6, <1>7
<1>10. skip + 1 \in Int /\ last \in Int
  BY <1>7
<1> QED
  BY <1>8, <1>9, <1>10, SubSeqProperties

(* The notifications: as many deletions are still to be answered as the    *)
(* total may still go down.                                                *)
NoticesTyped ==
    /\ kept \subseteq 1..MaxNotices /\ leaving \subseteq 1..MaxNotices
    /\ rows \in Seq(1..MaxNotices)
    /\ total \in Int /\ total <= MaxNotices
    /\ Cardinality(ToSet(rows) \cup leaving) <= total + MaxNotices
    /\ offset \in 0..MaxNotices + Limit
    /\ noticePage \in {"no", "asked"}
    /\ rowsLoading \in BOOLEAN /\ rowsError \in BOOLEAN /\ moved \in BOOLEAN

LEMMA SetsOfNotices ==
    ASSUME NEW S, S \subseteq 1..MaxNotices
    PROVE  S \subseteq Nat /\ IsFiniteSet(S) /\ Cardinality(S) \in 0..MaxNotices
<1>1. IsFiniteSet(1..MaxNotices) /\ Cardinality(1..MaxNotices) = MaxNotices /\ MaxNotices \in Nat
  BY ListsAssumption, FS_Interval
<1>2. IsFiniteSet(S) /\ Cardinality(S) <= MaxNotices
  BY <1>1, FS_Subset
<1>3. Cardinality(S) \in Nat
  BY <1>2, FS_CardinalityType
<1> QED
  BY <1>1, <1>2, <1>3

LEMMA WiderSeq ==
    ASSUME NEW S, NEW T, S \subseteq T, NEW s \in Seq(S)
    PROVE  s \in Seq(T)
<1>1. Len(s) \in Nat /\ s \in [1..Len(s) -> S]
  OBVIOUS
<1>2. s \in [1..Len(s) -> T]
  BY <1>1
<1> QED
  BY <1>1, <1>2

LEMMA RowsSet == ASSUME NEW S, NEW s \in Seq(S) PROVE ToSet(s) \subseteq S
  BY DEF ToSet

LEMMA InitNoticesTyped == NoticesInit => NoticesTyped
<1> SUFFICES ASSUME NoticesInit PROVE NoticesTyped
  OBVIOUS
<1>1. PICK n \in 0..MaxNotices : kept = 1..n
  BY DEF NoticesInit
<1>2. kept \subseteq 1..MaxNotices /\ 0 \in 0..MaxNotices + Limit /\ MaxNotices \in Nat
  BY <1>1, ListsAssumption
<1>3. rows = <<>> /\ leaving = {} /\ ToSet(<<>>) = {}
  BY DEF NoticesInit, ToSet
<1>4. ToSet(rows) \cup leaving = {} /\ rows \in Seq(1..MaxNotices)
  BY <1>3
<1>5. Cardinality(ToSet(rows) \cup leaving) = 0
  BY <1>4, FS_EmptySet
<1>6. total = 0 /\ offset = 0
  BY DEF NoticesInit
<1>7. /\ total \in Int /\ total <= MaxNotices /\ offset \in 0..MaxNotices + Limit
      /\ Cardinality(ToSet(rows) \cup leaving) <= total + MaxNotices
  BY <1>2, <1>5, <1>6
<1>8. leaving \subseteq 1..MaxNotices
  BY <1>3
<1> QED
  BY <1>2, <1>4, <1>7, <1>8 DEF NoticesTyped, NoticesInit

(* The answers that change the rows or the total                           *)
LEMMA StepPageTyped == NoticesTyped /\ PageArrives => NoticesTyped'
<1> SUFFICES ASSUME NoticesTyped, PageArrives PROVE NoticesTyped'
  OBVIOUS
<1>1. /\ rows' = (IF offset = 0 THEN PageOf(0) ELSE rows \o PageOf(offset))
      /\ total' = Cardinality(kept) /\ rowsLoading' = FALSE /\ noticePage' = "no"
      /\ UNCHANGED <<kept, offset, rowsError, leaving>>
  BY DEF PageArrives
<1>2. MaxNotices \in Nat /\ Limit \in Nat /\ offset \in Nat
  BY ListsAssumption DEF NoticesTyped
<1>11. kept \subseteq 1..MaxNotices /\ kept \subseteq Nat /\ IsFiniteSet(kept)
  BY SetsOfNotices DEF NoticesTyped
<1>12. offset + Limit \in Nat /\ 0 + Limit \in Nat /\ 0 \in Nat
  BY <1>2
<1>3. Rows(offset, offset + Limit) \in Seq(kept) /\ Rows(0, 0 + Limit) \in Seq(kept)
  BY <1>2, <1>11, <1>12, RowsAreKept
<1>4. PICK all : all = 1..MaxNotices
  OBVIOUS
<1>13. PageOf(0) \in Seq(all) /\ PageOf(offset) \in Seq(all)
  BY <1>3, <1>4, <1>11, WiderSeq DEF PageOf
<1>14. rows \in Seq(all)
  BY <1>4 DEF NoticesTyped
<1>15. rows' \in Seq(all)
  BY <1>1, <1>13, <1>14, ConcatProperties
<1>5. rows' \in Seq(1..MaxNotices)
  BY <1>4, <1>15
<1>6. ToSet(rows') \cup leaving \subseteq 1..MaxNotices
  BY <1>5, RowsSet DEF NoticesTyped
<1>7. Cardinality(ToSet(rows') \cup leaving) \in 0..MaxNotices
  BY <1>6, SetsOfNotices
<1>8. Cardinality(kept) \in 0..MaxNotices
  BY SetsOfNotices DEF NoticesTyped
<1>9. Cardinality(ToSet(rows') \cup leaving') <= total' + MaxNotices
  BY <1>1, <1>2, <1>7, <1>8
<1>10. moved' = TRUE \/ moved' = FALSE
  <2>1. moved = TRUE \/ moved = FALSE
    BY DEF NoticesTyped
  <2> QED
    BY <2>1, Zenon DEF PageArrives
<1>16. total' \in Int /\ total' <= MaxNotices
  BY <1>1, <1>2, <1>8
<1> QED
  BY <1>1, <1>5, <1>9, <1>10, <1>16 DEF NoticesTyped

LEMMA StepDeletedTyped ==
    ASSUME NoticesTyped, NEW n \in 1..MaxNotices, RowDeleted(n)
    PROVE  NoticesTyped'
<1>1. /\ n \in leaving /\ leaving' = leaving \ {n} /\ rows' = Without(rows, n)
      /\ total' = total - 1
      /\ UNCHANGED <<kept, offset, rowsLoading, rowsError, noticePage, moved>>
  BY DEF RowDeleted
<1>2. rows' \in Seq(1..MaxNotices) /\ ToSet(rows') \subseteq ToSet(rows) \ {n}
  BY <1>1, WithoutFacts DEF NoticesTyped
<1>3. PICK S : S = ToSet(rows) \cup leaving /\ S \subseteq 1..MaxNotices /\ n \in S
  BY <1>1, RowsSet DEF NoticesTyped
<1>4. IsFiniteSet(S) /\ Cardinality(S) \in Nat /\ MaxNotices \in Nat
  BY <1>3, SetsOfNotices, ListsAssumption
<1>5. IsFiniteSet(S \ {n}) /\ Cardinality(S \ {n}) = Cardinality(S) - 1
  BY <1>3, <1>4, FS_RemoveElement
<1>6. ToSet(rows') \cup leaving' \in SUBSET (S \ {n})
  BY <1>1, <1>2, <1>3
<1>7. PICK T : T = ToSet(rows') \cup leaving'
  OBVIOUS
<1>8. Cardinality(T) <= Cardinality(S) - 1 /\ Cardinality(T) \in Nat
  BY <1>5, <1>6, <1>7, FS_Subset, FS_CardinalityType
<1>9. total \in Int /\ total <= MaxNotices /\ Cardinality(S) <= total + MaxNotices
  BY <1>3 DEF NoticesTyped
<1>10. total' \in Int /\ total' <= MaxNotices /\ Cardinality(T) <= total' + MaxNotices
  BY <1>1, <1>4, <1>8, <1>9
<1> QED
  BY <1>1, <1>2, <1>7, <1>10 DEF NoticesTyped

LEMMA StepNoticesTyped == NoticesTyped /\ [NoticesNext]_noticeVars => NoticesTyped'
<1> SUFFICES ASSUME NoticesTyped, [NoticesNext]_noticeVars PROVE NoticesTyped'
  OBVIOUS
<1>0. Limit \in Nat /\ MaxNotices \in Nat
  BY ListsAssumption
<1>1. CASE NoticeMade
  <2>1. PICK n \in 1..MaxNotices : kept' = kept \cup {n}
    BY <1>1 DEF NoticeMade
  <2> QED
    BY <1>1, <2>1 DEF NoticeMade, NoticesTyped
<1>2. CASE PageArrives
  BY <1>2, StepPageTyped
<1>3. CASE PageFails
  BY <1>3 DEF PageFails, NoticesTyped
<1>4. CASE RetryPage
  <2>1. 0 \in 0..MaxNotices + Limit
    BY <1>0
  <2> QED
    BY <1>4, <2>1 DEF RetryPage, Load, NoticesTyped
<1>5. CASE MorePages
  <2>1. offset' \in 0..MaxNotices + Limit
    BY <1>0, <1>5 DEF MorePages, NoticesTyped
  <2> QED
    BY <1>5, <2>1 DEF MorePages, Load, NoticesTyped
<1>6. ASSUME NEW n \in 1..MaxNotices, DeleteRow(n) PROVE NoticesTyped'
  <2>1. /\ n \in ToSet(rows) /\ leaving' = leaving \cup {n} /\ kept' = kept \ {n} /\ moved' = TRUE
        /\ UNCHANGED <<rows, total, offset, rowsLoading, rowsError, noticePage>>
    BY <1>6 DEF DeleteRow
  <2>2. ToSet(rows) \cup leaving' = ToSet(rows) \cup leaving
    BY <2>1
  <2> QED
    BY <2>1, <2>2 DEF NoticesTyped
<1>7. ASSUME NEW n \in 1..MaxNotices, RowDeleted(n) PROVE NoticesTyped'
  BY <1>7, StepDeletedTyped
<1>8. ASSUME NEW n \in 1..MaxNotices, DeletionLost(n) PROVE NoticesTyped'
  <2>1. /\ leaving' = leaving \ {n}
        /\ UNCHANGED <<kept, rows, total, offset, rowsLoading, rowsError, noticePage, moved>>
    BY <1>8 DEF DeletionLost
  <2>5. ToSet(rows) \subseteq 1..MaxNotices /\ leaving \subseteq 1..MaxNotices
    BY RowsSet DEF NoticesTyped
  <2>6. PICK S : S = ToSet(rows) \cup leaving /\ S \subseteq 1..MaxNotices
    BY <2>5
  <2>7. PICK T : T = ToSet(rows) \cup leaving'
    OBVIOUS
  <2>2. S = ToSet(rows) \cup leaving /\ S \subseteq 1..MaxNotices /\ T \subseteq S
    BY <2>1, <2>6, <2>7
  <2>9. IsFiniteSet(S) /\ Cardinality(S) \in Nat /\ Cardinality(T) \in Nat
    <3>1. T \subseteq 1..MaxNotices
      BY <2>2
    <3>2. Cardinality(T) \in 0..MaxNotices /\ MaxNotices \in Nat
      BY <3>1, SetsOfNotices, ListsAssumption
    <3>3. IsFiniteSet(S) /\ Cardinality(S) \in 0..MaxNotices
      BY <2>2, SetsOfNotices
    <3> QED
      BY <3>2, <3>3
  <2>3. Cardinality(T) <= Cardinality(S) /\ Cardinality(S) \in Nat /\ Cardinality(T) \in Nat
    BY <2>2, <2>9, FS_Subset
  <2>4. Cardinality(T) <= total + MaxNotices
    BY <1>0, <2>2, <2>3 DEF NoticesTyped
  <2>8. Cardinality(ToSet(rows') \cup leaving') <= total' + MaxNotices
    BY <2>1, <2>4, <2>7
  <2> QED
    BY <2>1, <2>5, <2>8 DEF NoticesTyped
<1>9. CASE UNCHANGED noticeVars
  BY <1>9 DEF noticeVars, NoticesTyped
<1>10. CASE MarkSteps
  <2>1. UNCHANGED <<kept, rows, total, offset, rowsLoading, rowsError, noticePage, leaving, moved>>
    BY <1>10 DEF MarkSteps, MarkAll, ClickRow, Marked, MarkLost
  <2> QED
    BY <2>1 DEF NoticesTyped
<1> QED
  BY <1>1, <1>2, <1>3, <1>4, <1>5, <1>6, <1>7, <1>8, <1>9, <1>10 DEF NoticesNext, MarkSteps

(* What is unread on the server and on screen, and the marks under way     *)
MarksTyped ==
    /\ noticeAt \in {"list", "task"}
    /\ fresh \subseteq kept /\ bold \subseteq 1..MaxNotices /\ marking \subseteq Marks

LEMMA InitMarksTyped == NoticesInit => MarksTyped
  BY DEF NoticesInit, MarksTyped

LEMMA StepMarksTyped == NoticesTyped /\ MarksTyped /\ [NoticesNext]_noticeVars => MarksTyped'
<1> SUFFICES ASSUME NoticesTyped, MarksTyped, [NoticesNext]_noticeVars PROVE MarksTyped'
  OBVIOUS
<1> USE DEF MarksTyped
<1>1. CASE NoticeMade
  BY <1>1 DEF NoticeMade
<1>2. CASE PageArrives
  <2>1. bold' \subseteq bold \cup fresh /\ UNCHANGED <<kept, fresh, noticeAt, marking>>
    BY <1>2 DEF PageArrives
  <2> QED
    BY <2>1 DEF NoticesTyped
<1>3. CASE PageFails \/ RetryPage \/ MorePages
  BY <1>3 DEF PageFails, RetryPage, MorePages, markVars
<1>4. ASSUME NEW n \in 1..MaxNotices, DeleteRow(n) \/ RowDeleted(n) \/ DeletionLost(n)
      PROVE  MarksTyped'
  BY <1>4 DEF DeleteRow, RowDeleted, DeletionLost, markVars
<1>5. CASE MarkAll
  BY <1>5 DEF MarkAll, Marks
<1>6. ASSUME NEW n \in 1..MaxNotices, ClickRow(n) PROVE MarksTyped'
  <2>1. n \in Marks
    BY DEF Marks
  <2> QED
    BY <1>6, <2>1 DEF ClickRow
<1>7. ASSUME NEW m \in Marks, Marked(m) \/ MarkLost(m) PROVE MarksTyped'
  BY <1>7 DEF Marked, MarkLost
<1>8. CASE UNCHANGED noticeVars
  BY <1>8 DEF noticeVars, markVars
<1> QED
  BY <1>1, <1>2, <1>3, <1>4, <1>5, <1>6, <1>7, <1>8 DEF NoticesNext

(* The types of my jobs: what it shows is of some tab.                     *)
JobsTyped ==
    /\ known \in BOOLEAN /\ jobsLoading \in BOOLEAN /\ jobsError \in BOOLEAN
    /\ rushed \in BOOLEAN
    /\ jobs \in Tabs \cup {Empty}

LEMMA InitJobsTyped == JobsInit => JobsTyped
  BY DEF JobsInit, JobsTyped

LEMMA LoadIsTyped ==
    ASSUME JobsTyped, NEW tab \in Tabs, NEW c \in JobCalls, LoadJobs(tab, c), UNCHANGED known
    PROVE  JobsTyped'
<1>1. rushed' = TRUE \/ rushed' = FALSE
  BY Zenon DEF LoadJobs
<1> QED
  BY <1>1 DEF LoadJobs, JobsTyped

LEMMA StepJobsTyped == JobsInv /\ JobsTyped /\ [JobsNext]_jobVars => JobsTyped'
<1> SUFFICES ASSUME JobsInv, JobsTyped, [JobsNext]_jobVars PROVE JobsTyped'
  OBVIOUS
<1>1. CASE ModeArrives
  BY <1>1 DEF ModeArrives, JobsTyped
<1>2. ASSUME NEW tab \in Tabs, GoBack(tab) PROVE JobsTyped'
  BY <1>2 DEF GoBack, JobsTyped
<1>3. ASSUME NEW c \in JobCalls, NEW tab \in Tabs, PressTab(tab, c) PROVE JobsTyped'
  BY <1>3, LoadIsTyped DEF PressTab
<1>4. ASSUME NEW c \in JobCalls, RetryJobs(c) PROVE JobsTyped'
  BY <1>4, LoadIsTyped DEF RetryJobs, JobsInv
<1>5. ASSUME NEW c \in JobCalls, JobsArrive(c) PROVE JobsTyped'
  <2>1. jobs' \in Tabs \cup {Empty}
    BY <1>5 DEF JobsArrive, JobsInv
  <2> QED
    BY <1>5, <2>1 DEF JobsArrive, JobsTyped
<1>6. ASSUME NEW c \in JobCalls, JobsFail(c) PROVE JobsTyped'
  BY <1>6 DEF JobsFail, JobsTyped
<1>7. CASE UNCHANGED jobVars
  BY <1>7 DEF jobVars, JobsTyped
<1> QED
  BY <1>1, <1>2, <1>3, <1>4, <1>5, <1>6, <1>7 DEF JobsNext

(* The types of the conversations                                          *)
TalksTyped ==
    /\ talksLoading \in BOOLEAN /\ talksError \in BOOLEAN
    /\ talks \in {Empty, "nobody", "some"}
    /\ talkAt \in {"list", "conversation", "marketplace"}

LEMMA InitTalksTyped == TalksInit => TalksTyped
  BY DEF TalksInit, TalksTyped

LEMMA StepTalksTyped == TalksTyped /\ [TalksNext]_talkVars => TalksTyped'
  BY DEF TalksNext, TalksArrive, TalksFail, RetryTalks, LeaveTalks, talkVars, TalksTyped

LEMMA PagesPlayTalks ==
    /\ PagesInit => TalksInit
    /\ [PagesNext]_pagesVars => [TalksNext]_talkVars
<1>1. JobsNext => UNCHANGED talkVars
  BY DEF JobsNext, ModeArrives, GoBack, JobsArrive, JobsFail, RetryJobs, PressTab
<1>2. NoticesNext => UNCHANGED talkVars
  BY DEF NoticesNext, NoticeMade, PageArrives, PageFails, RetryPage, MorePages, MarkAll, DeleteRow, ClickRow, Marked,
         MarkLost,
         RowDeleted, DeletionLost
<1>3. ASSUME NEW s \in Scenes, Play(s) PROVE [TalksNext]_talkVars
  <2>1. JobsNext \/ NoticesNext \/ TalksNext \/ UNCHANGED listVars
    BY <1>3 DEF Play
  <2> QED
    BY <1>1, <1>2, <2>1 DEF listVars
<1> QED
  BY <1>3 DEF PagesInit, PagesNext, pagesVars, listVars

LEMMA ListsTypedIsTyped == JobsInv /\ JobsTyped /\ NoticesTyped /\ MarksTyped /\ TalksTyped => ListsTypeOK
<1> SUFFICES ASSUME JobsInv, JobsTyped, NoticesTyped, MarksTyped, TalksTyped
             PROVE  ListsTypeOK
  OBVIOUS
<1>1. ToSet(rows) \subseteq 1..MaxNotices /\ leaving \subseteq 1..MaxNotices
  BY RowsSet DEF NoticesTyped
<1>2. PICK T : T = ToSet(rows) \cup leaving /\ T \subseteq 1..MaxNotices
  BY <1>1
<1>3. Cardinality(T) \in Nat /\ MaxNotices \in Nat
  BY <1>2, SetsOfNotices, ListsAssumption
<1>4. total \in -MaxNotices..MaxNotices
  BY <1>2, <1>3 DEF NoticesTyped
<1>5. {known, jobsLoading, jobsError, rushed, rowsLoading, rowsError, moved,
       talksLoading, talksError} \subseteq BOOLEAN
  BY DEF JobsTyped, NoticesTyped, TalksTyped
<1>6. /\ {mode, modeNext, currentTab} \subseteq Tabs
      /\ jobs \in Tabs \cup {Empty}
      /\ jobCalls \in [JobCalls -> Tabs \cup {Empty}]
  BY DEF JobsInv, JobsTyped
<1>7. /\ kept \subseteq 1..MaxNotices /\ offset \in 0..MaxNotices + Limit
      /\ noticePage \in {"no", "asked"}
  BY DEF NoticesTyped
<1>8. talks \in {Empty, "nobody", "some"} /\ talkAt \in {"list", "conversation", "marketplace"}
  BY DEF TalksTyped
<1> QED
  BY <1>1, <1>4, <1>5, <1>6, <1>7, <1>8 DEF ListsTypeOK, MarksTyped

-----------------------------------------------------------------------------
(* The bell: first the types of its rows.                                  *)
BellTypes ==
    /\ notes \in [Notes -> {"none", "unread", "read", "deleted"}]
    /\ listed \in [Notes -> {"none", "unread", "read"}]
    /\ pushes \subseteq Notes

LEMMA CardinalityFacts ==
    ASSUME BellTypes
    PROVE  /\ IsFiniteSet(pushes) /\ Cardinality(pushes) \in Nat
           /\ IsFiniteSet(Unread) /\ Cardinality(Unread) \in Nat
  BY FS_Subset, FS_CardinalityType, ShellAssumption DEF BellTypes, Unread

LEMMA StepBellTypes == BellTypes /\ [ShellNext]_shellVars => BellTypes'
<1> SUFFICES ASSUME BellTypes, [ShellNext]_shellVars PROVE BellTypes'
  OBVIOUS
<1> USE DEF BellTypes, bellVars
<1>1. ASSUME NEW n \in Notes, Notify(n) \/ PageReads(n) \/ PageDeletes(n) \/ PushArrives(n)
      PROVE  BellTypes'
  BY <1>1 DEF Notify, PageReads, PageDeletes, PushArrives
<1>2. CASE PageReadsAll
  BY <1>2 DEF PageReadsAll, AllMarked
<1>3. ASSUME NEW c \in ShellCalls, ServeReadAll(c) PROVE BellTypes'
  BY <1>3 DEF ServeReadAll, Serve, AllMarked
<1>4. ASSUME NEW c \in ShellCalls, ServeRead(c) PROVE BellTypes'
  <2>1. PICK n : notes' = [notes EXCEPT ![n] = "read"]
    BY <1>4 DEF ServeRead
  <2> QED
    BY <1>4, <2>1 DEF ServeRead, Serve
<1>5. ASSUME NEW c \in ShellCalls, ListArrives(c) PROVE BellTypes'
  BY <1>5 DEF ListArrives
<1>6. ASSUME NEW c \in ShellCalls, ReadArrives(c) PROVE BellTypes'
  <2>1. PICK n : listed' = [listed EXCEPT ![n] = IF @ = "none" THEN "none" ELSE "read"]
    BY <1>6 DEF ReadArrives
  <2> QED
    BY <1>6, <2>1 DEF ReadArrives
<1>7. ASSUME NEW c \in ShellCalls,
             \/ ServeCount(c) \/ LoseCall(c) \/ CallFailed(c) \/ CountArrives(c)
             \/ OpenPanel(c) \/ ReadAllArrives(c) \/ \E n \in Notes : ClickNote(n, c)
      PROVE  BellTypes'
  BY <1>7 DEF ServeCount, Serve, LoseCall, CallFailed, CountArrives, OpenPanel,
              ReadAllArrives, ClickNote
<1>8. CASE ClosePanel \/ ToggleUserMenu \/ UNCHANGED shellVars
  BY <1>8 DEF ClosePanel, ToggleUserMenu, shellVars
<1> QED
  BY <1>1, <1>2, <1>3, <1>4, <1>5, <1>6, <1>7, <1>8 DEF ShellNext

(* The badge counts a notification twice at most:   *)
(* once in the server's count, and once more when it is pushed, which is   *)
(* only for one that was made since the page opened.                       *)
Unmade == {n \in Notes : notes[n] = "none"}

BadgeBound ==
    /\ badge \in Nat /\ pushes \cap Unmade = {}
    /\ badge + Cardinality(pushes) + Cardinality(Unmade) <= 2 * Cardinality(Notes)

CallsTyped == shellCalls \in [ShellCalls -> ShellCall]

BellSwitches ==
    panel \in BOOLEAN /\ listLoading \in BOOLEAN /\ userMenu \in BOOLEAN /\ missed \in BOOLEAN

ShellTyped == BellTypes /\ BadgeBound /\ CallsTyped /\ BellSwitches

LEMMA NotesFacts ==
    /\ Cardinality(Notes) \in Nat
    /\ IsFiniteSet(Unmade) /\ Cardinality(Unmade) \in 0..Cardinality(Notes)
    /\ Cardinality(Unread) \in 0..Cardinality(Notes)
<1>1. IsFiniteSet(Notes) /\ Cardinality(Notes) \in Nat
  BY ShellAssumption, FS_CardinalityType
<1>2. Unmade \in SUBSET Notes /\ Unread \in SUBSET Notes
  BY DEF Unmade, Unread
<1>3. /\ IsFiniteSet(Unmade) /\ Cardinality(Unmade) <= Cardinality(Notes)
      /\ IsFiniteSet(Unread) /\ Cardinality(Unread) <= Cardinality(Notes)
  BY <1>1, <1>2, FS_Subset
<1>4. Cardinality(Unmade) \in Nat /\ Cardinality(Unread) \in Nat
  BY <1>3, FS_CardinalityType
<1> QED
  BY <1>1, <1>3, <1>4

LEMMA ShellTypedIsTyped == ShellTyped => ShellTypeOK
<1> SUFFICES ASSUME ShellTyped PROVE ShellTypeOK
  OBVIOUS
<1>1. PICK b, k, m, n : /\ b = badge /\ k = Cardinality(pushes) /\ m = Cardinality(Unmade)
                        /\ n = Cardinality(Notes) /\ b \in Nat /\ k \in Nat /\ m \in Nat
                        /\ n \in Nat /\ b + k + m <= 2 * n
  BY NotesFacts, CardinalityFacts DEF ShellTyped, BadgeBound
<1>2. badge \in 0..2 * Cardinality(Notes)
  BY <1>1
<1> QED
  BY <1>2 DEF ShellTyped, BellTypes, CallsTyped, BellSwitches, ShellTypeOK

LEMMA SentTyped ==
    ASSUME NEW op \in {"count", "list", "readall", "read"}, NEW n \in Notes \cup {"none"}
    PROVE  Sent(op, n) \in ShellCall
<1>1. 0 \in 0..Cardinality(Notes)
  BY NotesFacts
<1> QED
  BY <1>1 DEF Sent, ShellCall

LEMMA InitShellTyped == ShellInit => ShellTyped
<1> SUFFICES ASSUME ShellInit PROVE ShellTyped
  OBVIOUS
<1>1. BellTypes
  BY DEF ShellInit, BellTypes
<1>2. pushes = {} /\ badge = 0
  BY DEF ShellInit
<1>3. BadgeBound
  <2>1. PICK m, n : m = Cardinality(Unmade) /\ n = Cardinality(Notes) /\ n \in Nat /\ m \in 0..n
    BY NotesFacts
  <2>2. 0 + 0 + m <= 2 * n
    BY <2>1
  <2> QED
    BY <1>2, <2>1, <2>2, FS_EmptySet DEF BadgeBound
<1>4. CallsTyped
  <2>1. PICK s, q : s = Sent("count", "none") /\ q = Quiet
    OBVIOUS
  <2>2. s \in ShellCall /\ q \in ShellCall
    BY <2>1, SentTyped DEF ShellCall
  <2>3. shellCalls = [d \in ShellCalls |-> IF d = CHOOSE c \in ShellCalls : TRUE THEN s ELSE q]
    BY <2>1 DEF ShellInit
  <2> QED
    BY <2>2, <2>3 DEF CallsTyped
<1>5. BellSwitches
  BY DEF ShellInit, BellSwitches
<1> QED
  BY <1>1, <1>3, <1>4, <1>5 DEF ShellTyped

(* The server answers a call that was sent, or it is lost.                 *)
LEMMA CallAnswered ==
    ASSUME CallsTyped, NEW c \in ShellCalls, shellCalls[c] # Quiet,
           NEW got \in {"ok", "failed"}, NEW count \in 0..Cardinality(Notes),
           \/ shellCalls' = [shellCalls EXCEPT ![c].got = got, ![c].count = count]
           \/ shellCalls' = [shellCalls EXCEPT ![c].got = got]
    PROVE  /\ CallsTyped'
           /\ shellCalls'[c].op = shellCalls[c].op /\ shellCalls'[c].got = got
           /\ \A d \in ShellCalls : d # c => shellCalls'[d] = shellCalls[d]
<1>1. PICK r : r = shellCalls[c]
  OBVIOUS
<1>2. r \in [op: {"count", "list", "readall", "read"}, note: Notes \cup {"none"},
             got: {"none", "ok", "failed"}, count: 0..Cardinality(Notes)]
  BY <1>1 DEF CallsTyped, ShellCall
<1>3. PICK x : x = [r EXCEPT !.got = got]
  OBVIOUS
<1>4. /\ x \in [op: {"count", "list", "readall", "read"}, note: Notes \cup {"none"},
             got: {"none", "ok", "failed"}, count: 0..Cardinality(Notes)]
      /\ x.op = r.op /\ x.got = got
  BY <1>2, <1>3
<1>5. PICK y : y = [x EXCEPT !.count = count]
  OBVIOUS
<1>6. /\ y \in [op: {"count", "list", "readall", "read"}, note: Notes \cup {"none"},
             got: {"none", "ok", "failed"}, count: 0..Cardinality(Notes)]
      /\ y.op = r.op /\ y.got = got
  BY <1>4, <1>5
<1>7. x \in ShellCall /\ y \in ShellCall
  BY <1>4, <1>6 DEF ShellCall
<1>8. \/ shellCalls' = [shellCalls EXCEPT ![c] = x]
      \/ shellCalls' = [shellCalls EXCEPT ![c] = y]
  BY <1>1, <1>3, <1>5 DEF CallsTyped
<1>9. ShellCall' = ShellCall
  BY DEF ShellCall, Quiet
<1> QED
  BY <1>1, <1>4, <1>6, <1>7, <1>8, <1>9 DEF CallsTyped

LEMMA StepCallsTyped == CallsTyped /\ [ShellNext]_shellVars => CallsTyped'
<1> SUFFICES ASSUME CallsTyped, [ShellNext]_shellVars PROVE CallsTyped'
  OBVIOUS
<1>1. ASSUME NEW c \in ShellCalls, NEW r \in ShellCall, shellCalls' = [shellCalls EXCEPT ![c] = r]
      PROVE  CallsTyped'
  BY <1>1 DEF CallsTyped
<1>2. ASSUME UNCHANGED shellCalls PROVE CallsTyped'
  BY <1>2 DEF CallsTyped
<1>3. Quiet \in ShellCall /\ Quiet.op = "none"
  BY DEF ShellCall, Quiet
<1>4. ASSUME NEW c \in ShellCalls, NEW op \in {"count", "readall", "read"}, Serve(c, op)
      PROVE  CallsTyped'
  <2>1. PICK k : k = IF op = "count" THEN Cardinality(Unread) ELSE 0
    OBVIOUS
  <2>2. k \in 0..Cardinality(Notes)
    BY <2>1, NotesFacts
  <2>3. shellCalls' = [shellCalls EXCEPT ![c].got = "ok", ![c].count = k]
    BY <1>4, <2>1 DEF Serve
  <2>4. shellCalls[c] # Quiet
    BY <1>3, <1>4 DEF Serve, Has
  <2> QED
    BY <2>2, <2>3, <2>4, CallAnswered
<1>5. ASSUME NEW c \in ShellCalls, LoseCall(c) PROVE CallsTyped'
  <2>1. shellCalls[c] # Quiet /\ shellCalls' = [shellCalls EXCEPT ![c].got = "failed"]
    BY <1>5 DEF LoseCall
  <2>2. 0 \in 0..Cardinality(Notes)
    BY NotesFacts
  <2> QED
    BY <2>1, <2>2, CallAnswered
<1>6. ASSUME NEW c \in ShellCalls,
             CallFailed(c) \/ CountArrives(c) \/ ReadAllArrives(c) \/ ReadArrives(c)
      PROVE  CallsTyped'
  BY <1>1, <1>3, <1>6 DEF CallFailed, CountArrives, ReadAllArrives, ReadArrives, CallOver
<1>7. ASSUME NEW c \in ShellCalls, OpenPanel(c) PROVE CallsTyped'
  BY <1>1, <1>7, SentTyped DEF OpenPanel, SendCall
<1>8. ASSUME NEW c \in ShellCalls, ListArrives(c) PROVE CallsTyped'
  BY <1>1, <1>8, SentTyped DEF ListArrives
<1>9. ASSUME NEW c \in ShellCalls, NEW n \in Notes, ClickNote(n, c) PROVE CallsTyped'
  BY <1>1, <1>2, <1>9, SentTyped DEF ClickNote, SendCall
<1>10. ASSUME NEW n \in Notes, Notify(n) \/ PageReads(n) \/ PageDeletes(n) \/ PushArrives(n)
       PROVE  CallsTyped'
  BY <1>2, <1>10 DEF Notify, PageReads, PageDeletes, PushArrives
<1>11. CASE PageReadsAll \/ ClosePanel \/ ToggleUserMenu \/ UNCHANGED shellVars
  BY <1>2, <1>11 DEF PageReadsAll, ClosePanel, ToggleUserMenu, shellVars
<1> QED
  BY <1>4, <1>5, <1>6, <1>7, <1>8, <1>9, <1>10, <1>11
     DEF ShellNext, ServeCount, ServeReadAll, ServeRead

(* Nothing is pushed anew, and nothing made is unmade.                     *)
LEMMA BadgeBoundKept ==
    ASSUME BellTypes, BellTypes', BadgeBound, pushes' \subseteq pushes,
           \A n \in Notes : notes'[n] = "none" => notes[n] = "none",
           \/ badge' = badge \/ badge' \in 0..Cardinality(Notes)
    PROVE  BadgeBound'
<1>1. /\ IsFiniteSet(pushes) /\ IsFiniteSet(Unmade) /\ Unmade' \in SUBSET Unmade
      /\ pushes' \in SUBSET pushes
  BY NotesFacts, CardinalityFacts DEF Unmade
<1>2. PICK k, l : k = Cardinality(pushes) /\ l = Cardinality(pushes') /\ k \in Nat /\ l \in 0..k
  BY <1>1, FS_Subset, FS_CardinalityType
<1>3. PICK m, o : m = Cardinality(Unmade) /\ o = Cardinality(Unmade') /\ m \in Nat /\ o \in 0..m
  BY <1>1, FS_Subset, FS_CardinalityType
<1>4. PICK n : n = Cardinality(Notes) /\ n \in Nat
  BY NotesFacts
<1>5. k + m <= n
  <2>1. Cardinality(pushes \cup Unmade) = k + m
    <3>1. Cardinality(pushes \cap Unmade) = 0
      BY FS_EmptySet DEF BadgeBound
    <3>2. Cardinality(pushes \cup Unmade)
             = Cardinality(pushes) + Cardinality(Unmade) - Cardinality(pushes \cap Unmade)
      BY <1>1, FS_Union
    <3> QED
      BY <1>2, <1>3, <3>1, <3>2
  <2>2. pushes \cup Unmade \in SUBSET Notes
    BY DEF BellTypes, Unmade
  <2> QED
    BY <1>4, <2>1, <2>2, FS_Subset, ShellAssumption
<1>6. PICK b : b = badge /\ b \in Nat /\ b + k + m <= 2 * n
  BY <1>2, <1>3, <1>4 DEF BadgeBound
<1>7. badge' \in Nat /\ badge' + l + o <= 2 * n
  BY <1>2, <1>3, <1>4, <1>5, <1>6
<1>8. pushes' \cap Unmade' = {}
  BY <1>1 DEF BadgeBound
<1> QED
  BY <1>2, <1>3, <1>4, <1>7, <1>8 DEF BadgeBound

LEMMA StepBadgeBound ==
    BellTypes /\ CallsTyped /\ BadgeBound /\ [ShellNext]_shellVars => BadgeBound'
<1> SUFFICES ASSUME BellTypes, CallsTyped, BadgeBound, [ShellNext]_shellVars PROVE BadgeBound'
  OBVIOUS
<1>0. BellTypes'
  BY StepBellTypes
<1>1. ASSUME UNCHANGED <<notes, pushes, badge>> PROVE BadgeBound'
  BY <1>1 DEF BadgeBound, Unmade
<1>2. ASSUME NEW n \in Notes, Notify(n) PROVE BadgeBound'
  <2>1. /\ notes[n] = "none" /\ notes' = [notes EXCEPT ![n] = "unread"] /\ badge' = badge
        /\ pushes' = pushes \cup {n} \/ pushes' = pushes
    BY <1>2 DEF Notify, bellVars
  <2>2. Unmade' = Unmade \ {n} /\ n \in Unmade /\ n \notin pushes
    BY <2>1 DEF Unmade, BellTypes, BadgeBound
  <2>3. PICK k, m, b, l : /\ k = Cardinality(pushes) /\ m = Cardinality(Unmade) /\ b = badge
                          /\ l = Cardinality(Notes)
                          /\ k \in Nat /\ m \in Nat /\ b \in Nat /\ l \in Nat
                          /\ b + k + m <= 2 * l
    BY CardinalityFacts, NotesFacts DEF BadgeBound
  <2>4. Cardinality(Unmade') = m - 1
    BY <2>2, <2>3, NotesFacts, FS_RemoveElement
  <2>5. Cardinality(pushes') = k + 1 \/ Cardinality(pushes') = k
    BY <2>1, <2>2, <2>3, CardinalityFacts, FS_AddElement
  <2>6. badge' + Cardinality(pushes') + Cardinality(Unmade') <= 2 * Cardinality(Notes)
    BY <2>1, <2>3, <2>4, <2>5
  <2>7. pushes' \cap Unmade' = {}
    BY <2>1, <2>2 DEF BadgeBound
  <2> QED
    BY <2>1, <2>3, <2>6, <2>7 DEF BadgeBound
<1>3. ASSUME NEW n \in Notes, PushArrives(n) PROVE BadgeBound'
  <2>1. n \in pushes /\ pushes' = pushes \ {n} /\ badge' = badge + 1 /\ Unmade' = Unmade
    BY <1>3 DEF PushArrives, Unmade
  <2>2. PICK k, m, b, l : /\ k = Cardinality(pushes) /\ m = Cardinality(Unmade) /\ b = badge
                          /\ l = Cardinality(Notes)
                          /\ k \in Nat /\ m \in Nat /\ b \in Nat /\ l \in Nat
                          /\ b + k + m <= 2 * l
    BY CardinalityFacts, NotesFacts DEF BadgeBound
  <2>3. Cardinality(pushes') = k - 1
    BY <2>1, <2>2, CardinalityFacts, FS_RemoveElement
  <2>4. badge' + Cardinality(pushes') + Cardinality(Unmade') <= 2 * Cardinality(Notes)
    BY <2>1, <2>2, <2>3
  <2>5. badge' \in Nat /\ pushes' \cap Unmade' = {}
    BY <2>1, <2>2 DEF BadgeBound
  <2> QED
    BY <2>4, <2>5 DEF BadgeBound
<1>4. CASE \/ PageReadsAll \/ \E n \in Notes : PageReads(n) \/ PageDeletes(n)
           \/ \E c \in ShellCalls : ServeReadAll(c) \/ ServeRead(c)
  <2>1. UNCHANGED <<pushes, badge>>
    BY <1>4 DEF PageReadsAll, PageReads, PageDeletes, ServeReadAll, ServeRead, Serve, bellVars
  <2>2. \A n \in Notes : notes'[n] = "none" => notes[n] = "none"
    BY <1>4 DEF PageReadsAll, PageReads, PageDeletes, ServeReadAll, ServeRead, AllMarked,
                BellTypes
  <2> QED
    BY <1>0, <2>1, <2>2, BadgeBoundKept
<1>5. ASSUME NEW c \in ShellCalls, CountArrives(c) PROVE BadgeBound'
  <2>1. UNCHANGED <<notes, pushes>> /\ badge' = shellCalls[c].count
    BY <1>5 DEF CountArrives
  <2>2. shellCalls[c] \in ShellCall /\ shellCalls[c] # Quiet
    BY <1>5 DEF CountArrives, Has, CallsTyped, Quiet
  <2>3. shellCalls[c].count \in 0..Cardinality(Notes)
    BY <2>2 DEF ShellCall
  <2> QED
    BY <1>0, <2>1, <2>3, BadgeBoundKept
<1>6. ASSUME NEW c \in ShellCalls, ReadAllArrives(c) PROVE BadgeBound'
  <2>1. UNCHANGED <<notes, pushes>> /\ badge' = 0
    BY <1>6 DEF ReadAllArrives
  <2>2. badge' \in 0..Cardinality(Notes)
    BY <2>1, NotesFacts
  <2> QED
    BY <1>0, <2>1, <2>2, BadgeBoundKept
<1>7. ASSUME NEW c \in ShellCalls,
             \/ ServeCount(c) \/ LoseCall(c) \/ CallFailed(c) \/ OpenPanel(c) \/ ListArrives(c)
             \/ ReadArrives(c) \/ \E n \in Notes : ClickNote(n, c)
      PROVE  UNCHANGED <<notes, pushes, badge>>
  BY <1>7 DEF ServeCount, Serve, LoseCall, CallFailed, OpenPanel, ListArrives, ReadArrives,
              ClickNote, bellVars
<1>8. ClosePanel \/ ToggleUserMenu \/ UNCHANGED shellVars => UNCHANGED <<notes, pushes, badge>>
  BY DEF ClosePanel, ToggleUserMenu, shellVars, bellVars
<1> QED
  BY <1>1, <1>2, <1>3, <1>4, <1>5, <1>6, <1>7, <1>8 DEF ShellNext

LEMMA StepBellSwitches == BellSwitches /\ [ShellNext]_shellVars => BellSwitches'
<1> SUFFICES ASSUME BellSwitches, [ShellNext]_shellVars PROVE BellSwitches'
  OBVIOUS
<1> USE DEF BellSwitches, bellVars
<1>1. ASSUME NEW n \in Notes, Notify(n) \/ PageReads(n) \/ PageDeletes(n) \/ PageReadsAll
      PROVE  BellSwitches'
  BY <1>1 DEF Notify, PageReads, PageDeletes, PageReadsAll
<1>0. ASSUME NEW n \in Notes, PushArrives(n) PROVE BellSwitches'
  <2>1. missed' = TRUE \/ missed' = FALSE
    BY <1>0, Zenon DEF PushArrives
  <2> QED
    BY <1>0, <2>1 DEF PushArrives
<1>2. CASE PageReadsAll \/ ClosePanel \/ ToggleUserMenu
  <2>1. userMenu' = TRUE \/ userMenu' = FALSE
    BY <1>2 DEF PageReadsAll, ClosePanel, ToggleUserMenu
  <2> QED
    BY <1>2, <2>1 DEF PageReadsAll, ClosePanel, ToggleUserMenu
<1>3. ASSUME NEW c \in ShellCalls, ServeCount(c) \/ ServeReadAll(c) \/ ServeRead(c)
      PROVE  BellSwitches'
  BY <1>3 DEF ServeCount, ServeReadAll, ServeRead, Serve
<1>4. ASSUME NEW c \in ShellCalls, LoseCall(c) PROVE BellSwitches'
  <2>1. missed' = TRUE \/ missed' = FALSE
    BY <1>4, Zenon DEF LoseCall
  <2> QED
    BY <1>4, <2>1 DEF LoseCall
<1>5. ASSUME NEW c \in ShellCalls, CallFailed(c) PROVE BellSwitches'
  <2>1. listLoading' = TRUE \/ listLoading' = FALSE
    BY <1>5, Zenon DEF CallFailed
  <2> QED
    BY <1>5, <2>1 DEF CallFailed
<1>6. ASSUME NEW c \in ShellCalls,
             \/ CountArrives(c) \/ OpenPanel(c) \/ ListArrives(c) \/ ReadAllArrives(c)
             \/ ReadArrives(c) \/ \E n \in Notes : ClickNote(n, c)
      PROVE  BellSwitches'
  BY <1>6 DEF CountArrives, OpenPanel, ListArrives, ReadAllArrives, ReadArrives, ClickNote
<1>7. CASE UNCHANGED shellVars
  BY <1>7 DEF shellVars
<1> QED
  BY <1>0, <1>1, <1>2, <1>3, <1>4, <1>5, <1>6, <1>7 DEF ShellNext

LEMMA StepShellTyped == ShellTyped /\ [ShellNext]_shellVars => ShellTyped'
  BY StepBellTypes, StepBadgeBound, StepCallsTyped, StepBellSwitches DEF ShellTyped

-----------------------------------------------------------------------------
(* One's own profile. The last answer taken, or the one about to be taken, *)
(* is what the server holds, since every change is answered with it.       *)
Answered(c) == ownCalls[c].got # NothingSeen

CallRecords == \E A, B : ownCalls \in [OwnCalls -> [op : A, got : B]]

ProfileInv ==
    /\ me \in People /\ CallRecords
    /\ ~crossedOver =>
          /\ \A c, d \in OwnCalls : Answered(c) /\ Answered(d) => c = d
          /\ \A c \in OwnCalls :
                Answered(c) /\ ownCalls[c].got.who = me => ownCalls[c].got.is = stored
          /\ Own /\ (\A c \in OwnCalls : ~Answered(c)) => person.is = stored

LEMMA SeenFacts ==
    ASSUME NEW p, NEW v
    PROVE  Seen(p, v).who = p /\ Seen(p, v).is = v /\ (p \in People => Seen(p, v) # NothingSeen)
<1>1. Seen(p, v).who = p /\ Seen(p, v).is = v /\ NothingSeen.who = Stranger
  BY DEF Seen, NothingSeen
<1> QED
  BY <1>1, PeopleAssumption

LEMMA InitProfile == ProfileInit => ProfileInv
<1> SUFFICES ASSUME ProfileInit PROVE ProfileInv
  OBVIOUS
<1>1. /\ me \in People /\ person = NothingSeen
      /\ ownCalls = [d \in OwnCalls |->
            IF d = CHOOSE c \in OwnCalls : TRUE THEN [op |-> "load", got |-> NothingSeen]
            ELSE IdleCall]
  BY DEF ProfileInit
<1>2. PICK N : N = NothingSeen
  OBVIOUS
<1>3. IdleCall = [op |-> "none", got |-> N]
  BY <1>2 DEF IdleCall
<1>4. ownCalls \in [OwnCalls -> [op : {"none", "load"}, got : {N}]]
  BY <1>1, <1>2, <1>3
<1>5. \A c \in OwnCalls : ~Answered(c)
  BY <1>2, <1>4 DEF Answered
<1>6. ~Own
  BY <1>1, SeenFacts, PeopleAssumption DEF Own, NothingSeen
<1> QED
  BY <1>1, <1>4, <1>5, <1>6 DEF ProfileInv, CallRecords

(* A request that ends, or is asked, without an answer under way.          *)
LEMMA ProfileCallMoves ==
    ASSUME ProfileInv, NEW c \in OwnCalls, NEW op,
           ownCalls' = [ownCalls EXCEPT ![c] = [op |-> op, got |-> NothingSeen]]
    PROVE  /\ CallRecords' /\ ~Answered(c)'
           /\ \A d \in OwnCalls : d # c => ownCalls'[d] = ownCalls[d] /\ (Answered(d)' = Answered(d))
<1>1. PICK A, B : ownCalls \in [OwnCalls -> [op : A, got : B]]
  BY DEF ProfileInv, CallRecords
<1>2. PICK N : N = NothingSeen
  OBVIOUS
<1>3. PICK r : r = [op |-> op, got |-> N]
  OBVIOUS
<1>4. r \in [op : A \cup {op}, got : B \cup {N}] /\ r.got = N
  BY <1>3
<1>5. ownCalls' = [ownCalls EXCEPT ![c] = r]
  BY <1>2, <1>3
<1>6. \A x \in [op : A, got : B] : x \in [op : A \cup {op}, got : B \cup {N}]
  OBVIOUS
<1>7. ownCalls' \in [OwnCalls -> [op : A \cup {op}, got : B \cup {N}]]
  BY <1>1, <1>4, <1>5, <1>6
<1>8. ownCalls'[c] = r /\ \A d \in OwnCalls : d # c => ownCalls'[d] = ownCalls[d]
  BY <1>1, <1>5
<1>9. CallRecords'
  BY <1>7 DEF CallRecords
<1>10. ownCalls'[c].got = N /\ NothingSeen' = N
  BY <1>2, <1>4, <1>8 DEF NothingSeen, Seen, First
<1>11. /\ ~Answered(c)'
       /\ \A d \in OwnCalls : d # c => ownCalls'[d] = ownCalls[d] /\ (Answered(d)' = Answered(d))
  BY <1>2, <1>8, <1>10 DEF Answered
<1> QED
  BY <1>9, <1>11

LEMMA ProfileAnswerTaken ==
    ASSUME ProfileInv, NEW c \in OwnCalls, Answered(c), OwnCallOver(c), person' = ownCalls[c].got,
           UNCHANGED <<me, stored, crossedOver>>
    PROVE  ProfileInv'
<1>1. /\ CallRecords' /\ ~Answered(c)'
      /\ \A d \in OwnCalls : d # c => ownCalls'[d] = ownCalls[d] /\ (Answered(d)' = Answered(d))
  BY ProfileCallMoves DEF OwnCallOver, IdleCall
<1>2. ASSUME ~crossedOver
      PROVE  /\ \A d \in OwnCalls : ~Answered(d)'
             /\ Own' => person'.is = stored
  BY <1>1, <1>2 DEF ProfileInv, Own
<1> QED
  BY <1>1, <1>2 DEF ProfileInv

LEMMA StepServeOwn ==
    ASSUME ProfileInv, NEW c \in OwnCalls, ServeOwn(c)
    PROVE  ProfileInv'
<1>1. PICK op : op = ownCalls[c].op
  OBVIOUS
<1>2. PICK got : got = IF op = "load" THEN Seen(address, IF address = me THEN stored ELSE First)
                       ELSE Seen(me, stored')
  OBVIOUS
<1>3. /\ op # "none" /\ ~Answered(c)
      /\ ownCalls' = [ownCalls EXCEPT ![c].got = got]
      /\ crossedOver' = (crossedOver \/ \E d \in OwnCalls \ {c} : Answered(d))
      /\ op = "load" => stored' = stored
      /\ UNCHANGED <<address, me, person>>
  <2>1. "load" # "save" /\ "load" # "avatar"
    OBVIOUS
  <2> QED
    BY <1>1, <1>2, <2>1 DEF ServeOwn, Answered
<1>4. got.who = me => got.is = stored'
  BY <1>2, <1>3, SeenFacts
<1>5. PICK A, B : ownCalls \in [OwnCalls -> [op : A, got : B]]
  BY DEF ProfileInv, CallRecords
<1>6. /\ ownCalls'[c].got = got
      /\ \A d \in OwnCalls : d # c => ownCalls'[d] = ownCalls[d]
      /\ ownCalls' \in [OwnCalls -> [op : A, got : B \cup {got}]]
  <2>1. PICK r : r = [ownCalls[c] EXCEPT !.got = got]
    OBVIOUS
  <2>2. r.got = got /\ r \in [op : A, got : B \cup {got}]
    BY <1>5, <2>1
  <2>3. ownCalls' = [ownCalls EXCEPT ![c] = r]
    BY <1>3, <2>1
  <2>4. \A x \in [op : A, got : B] : x \in [op : A, got : B \cup {got}]
    OBVIOUS
  <2> QED
    BY <1>5, <2>2, <2>3, <2>4
<1>7. ASSUME ~crossedOver', got # NothingSeen
      PROVE  /\ \A d \in OwnCalls : Answered(d)' <=> d = c
             /\ ownCalls'[c].got.who = me => ownCalls'[c].got.is = stored'
  BY <1>3, <1>4, <1>6, <1>7 DEF Answered
<1>8. CallRecords'
  BY <1>6 DEF CallRecords
<1>9. CASE got # NothingSeen
  BY <1>3, <1>7, <1>8, <1>9 DEF ProfileInv
<1>10. CASE got = NothingSeen
  <2>1. op = "load" /\ stored' = stored
    BY <1>2, <1>3, <1>10, SeenFacts DEF ProfileInv
  <2>2. \A d \in OwnCalls : (Answered(d)' <=> Answered(d)) /\ (d # c => ownCalls'[d] = ownCalls[d])
    BY <1>3, <1>6, <1>10 DEF Answered
  <2>3. ~crossedOver' => ~crossedOver /\ \A d \in OwnCalls : ~Answered(d)
    BY <1>3
  <2>4. Own' <=> Own
    BY <1>3 DEF Own
  <2>5. ~crossedOver' => (Own => person.is = stored)
    BY <2>3 DEF ProfileInv
  <2>6. ~crossedOver' => \A d \in OwnCalls : ~Answered(d)'
    BY <2>2, <2>3
  <2> QED
    BY <1>3, <1>8, <2>1, <2>4, <2>5, <2>6 DEF ProfileInv
<1> QED
  BY <1>9, <1>10

LEMMA StepProfile == ProfileInv /\ [ProfileNext]_ownVars => ProfileInv'
<1> SUFFICES ASSUME ProfileInv, [ProfileNext]_ownVars PROVE ProfileInv'
  OBVIOUS
<1>1. ASSUME UNCHANGED <<me, stored, person, ownCalls, crossedOver>> PROVE ProfileInv'
  BY <1>1 DEF ProfileInv, CallRecords, Answered, Own
<1>2. ASSUME NEW c \in OwnCalls, ServeOwn(c) PROVE ProfileInv'
  BY <1>2, StepServeOwn
<1>3. ASSUME NEW c \in OwnCalls, ProfileLoaded(c) \/ ProfileSaved(c) \/ AvatarChanged(c)
      PROVE  ProfileInv'
  BY <1>3, ProfileAnswerTaken
     DEF ProfileLoaded, ProfileSaved, AvatarChanged, OwnAnswered, Answered
<1>4. ASSUME NEW c \in OwnCalls, NEW op, UNCHANGED <<me, stored, person>>,
             ownCalls' = [ownCalls EXCEPT ![c] = [op |-> op, got |-> NothingSeen]],
             ~crossedOver' => ~crossedOver /\ ~Answered(c)
      PROVE  ProfileInv'
  <2>1. /\ CallRecords' /\ ~Answered(c)'
        /\ \A d \in OwnCalls : d # c => ownCalls'[d] = ownCalls[d] /\ (Answered(d)' = Answered(d))
    BY <1>4, ProfileCallMoves
  <2>2. Own' <=> Own
    BY <1>4 DEF Own
  <2>3. ASSUME ~crossedOver'
        PROVE  \A d \in OwnCalls : (Answered(d)' <=> Answered(d))
                                   /\ (Answered(d) => ownCalls'[d] = ownCalls[d])
    BY <1>4, <2>1, <2>3
  <2> QED
    BY <1>4, <2>1, <2>2, <2>3 DEF ProfileInv
<1>5. \A c \in OwnCalls : FreeOwn(c) => ~Answered(c)
  BY DEF FreeOwn, IdleCall, Answered
<1>6. ASSUME NEW c \in OwnCalls, SaveProfile(c) \/ ChangeAvatar(c) PROVE ProfileInv'
  <2>1. PICK op : ownCalls' = [ownCalls EXCEPT ![c] = [op |-> op, got |-> NothingSeen]]
    BY <1>6 DEF SaveProfile, ChangeAvatar, OwnAsk
  <2>2. UNCHANGED <<me, stored, person, crossedOver>> /\ ~Answered(c)
    BY <1>5, <1>6 DEF SaveProfile, ChangeAvatar
  <2> QED
    BY <1>4, <2>1, <2>2
<1>7. ASSUME NEW c \in OwnCalls, OwnCallFails(c) PROVE ProfileInv'
  <2>1. /\ ownCalls' = [ownCalls EXCEPT ![c] = [op |-> "none", got |-> NothingSeen]]
        /\ UNCHANGED <<me, stored, person>>
        /\ crossedOver' = (crossedOver \/ Answered(c))
    BY <1>7 DEF OwnCallFails, OwnCallOver, IdleCall, Answered
  <2> QED
    BY <1>4, <2>1
<1>8. ToggleEditing \/ TypeName => UNCHANGED <<me, stored, person, ownCalls, crossedOver>>
  BY DEF ToggleEditing, TypeName
<1>9. ASSUME NEW p, OpenOtherProfile(p)
      PROVE  UNCHANGED <<me, stored, person, ownCalls, crossedOver>>
  BY <1>9 DEF OpenOtherProfile
<1>10. CASE UNCHANGED ownVars
  BY <1>1, <1>10 DEF ownVars
<1>11. CASE ProfileNext
  BY <1>1, <1>2, <1>3, <1>6, <1>7, <1>8, <1>9, <1>11 DEF ProfileNext
<1> QED
  BY <1>10, <1>11

LEMMA ProfileIsStored == ProfileInv => ProfileIsCurrent
  BY DEF ProfileInv, ProfileIsCurrent, FreeOwn, IdleCall, Answered

(* The types of the profile page. The server takes the name from the form, *)
(* the form a name from the server, so neither passes the last version.    *)
OwnTypes ==
    /\ address \in People /\ me \in People
    /\ stored \in Versions
    /\ person \in [who : People \cup {Stranger}, is : Versions] /\ draft \in 0..MaxVersion
    /\ ownCalls \in [OwnCalls -> [op : {"none", "load", "save", "avatar"},
                                  got : [who : People \cup {Stranger}, is : Versions]]]

OwnSwitches ==
    /\ editing \in BOOLEAN /\ profileLoading \in BOOLEAN /\ profileSaving \in BOOLEAN
    /\ crossedOver \in BOOLEAN

ProfileTyped == OwnTypes /\ OwnSwitches

LEMMA ProfileTypedIsTyped == ProfileTyped => ProfileTypeOK
  BY DEF ProfileTyped, OwnTypes, OwnSwitches, ProfileTypeOK

LEMMA VersionFacts ==
    /\ First \in Versions /\ NothingSeen \in [who : People \cup {Stranger}, is : Versions]
    /\ \A p \in People, v \in Versions : Seen(p, v) \in [who : People \cup {Stranger}, is : Versions]
    /\ \A op \in {"none", "load", "save", "avatar"} :
          [op |-> op, got |-> NothingSeen]
             \in [op : {"none", "load", "save", "avatar"},
                  got : [who : People \cup {Stranger}, is : Versions]]
<1>1. First \in Versions
  BY PeopleAssumption DEF First, Versions
<1>2. \A p \in People \cup {Stranger}, v \in Versions :
         Seen(p, v) \in [who : People \cup {Stranger}, is : Versions]
  BY DEF Seen
<1>3. NothingSeen \in [who : People \cup {Stranger}, is : Versions]
  BY <1>1, <1>2 DEF NothingSeen
<1> QED
  BY <1>1, <1>2, <1>3

LEMMA InitProfileTyped == ProfileInit => ProfileTyped
<1> SUFFICES ASSUME ProfileInit PROVE ProfileTyped
  OBVIOUS
<1>1. PICK i, l : i = [op |-> "none", got |-> NothingSeen] /\ l = [op |-> "load", got |-> NothingSeen]
  OBVIOUS
<1>2. ownCalls = [d \in OwnCalls |-> IF d = CHOOSE c \in OwnCalls : TRUE THEN l ELSE i]
  BY <1>1 DEF ProfileInit, IdleCall
<1>3. ownCalls \in [OwnCalls -> [op : {"none", "load", "save", "avatar"},
                                 got : [who : People \cup {Stranger}, is : Versions]]]
  BY <1>1, <1>2, VersionFacts
<1>4. /\ stored \in Versions /\ person \in [who : People \cup {Stranger}, is : Versions]
      /\ draft \in 0..MaxVersion /\ address \in People /\ me \in People
  BY VersionFacts, PeopleAssumption DEF ProfileInit
<1>5. OwnSwitches
  BY DEF ProfileInit, OwnSwitches
<1> QED
  BY <1>3, <1>4, <1>5 DEF ProfileTyped, OwnTypes

LEMMA StepOwnTypes == OwnTypes /\ [ProfileNext]_ownVars => OwnTypes'
<1> SUFFICES ASSUME OwnTypes, [ProfileNext]_ownVars PROVE OwnTypes'
  OBVIOUS
<1>0. Versions' = Versions
  BY DEF Versions
<1>1. ASSUME NEW c \in OwnCalls, NEW op \in {"none", "load", "save", "avatar"},
             ownCalls' = [ownCalls EXCEPT ![c] = [op |-> op, got |-> NothingSeen]]
      PROVE  ownCalls' \in [OwnCalls -> [op : {"none", "load", "save", "avatar"},
                                         got : [who : People \cup {Stranger}, is : Versions]]]
  <2>1. PICK r : r = [op |-> op, got |-> NothingSeen]
    OBVIOUS
  <2>2. r \in [op : {"none", "load", "save", "avatar"},
               got : [who : People \cup {Stranger}, is : Versions]]
    BY <2>1, VersionFacts
  <2> QED
    BY <1>1, <2>1, <2>2 DEF OwnTypes
<1>2. ASSUME NEW c \in OwnCalls
      PROVE  /\ ownCalls[c].got \in [who : People \cup {Stranger}, is : Versions]
             /\ ownCalls[c].got.is.name \in 0..MaxVersion
  <2>1. ownCalls[c].got \in [who : People \cup {Stranger}, is : Versions]
    BY DEF OwnTypes
  <2>2. ownCalls[c].got.is \in Versions
    BY <2>1
  <2> QED
    BY <2>1, <2>2 DEF Versions
<1>3. ASSUME NEW c \in OwnCalls, ServeOwn(c) PROVE OwnTypes'
  <2>1. PICK r : r = ownCalls[c] /\ r \in [op : {"none", "load", "save", "avatar"},
                                           got : [who : People \cup {Stranger}, is : Versions]]
    BY DEF OwnTypes
  <2>2. stored' \in Versions
    <3>1. PICK v : v = stored /\ v \in [name : 0..MaxVersion, picture : 0..MaxVersion]
      BY DEF OwnTypes, Versions
    <3>2. [v EXCEPT !.name = draft] \in [name : 0..MaxVersion, picture : 0..MaxVersion]
      BY <3>1 DEF OwnTypes
    <3>3. v.picture < MaxVersion => v.picture + 1 \in 0..MaxVersion
      BY <3>1, PeopleAssumption
    <3>4. v.picture < MaxVersion =>
             [v EXCEPT !.picture = @ + 1] \in [name : 0..MaxVersion, picture : 0..MaxVersion]
      BY <3>1, <3>3
    <3>5. \/ stored' = [v EXCEPT !.name = draft]
          \/ v.picture < MaxVersion /\ stored' = [v EXCEPT !.picture = @ + 1]
          \/ stored' = v
      BY <1>3, <3>1 DEF ServeOwn
    <3> QED
      BY <3>1, <3>2, <3>4, <3>5 DEF Versions
  <2>3. PICK got : got = IF r.op = "load" THEN Seen(address, IF address = me THEN stored ELSE First)
                         ELSE Seen(me, stored')
    OBVIOUS
  <2>4. got \in [who : People \cup {Stranger}, is : Versions]
    BY <2>2, <2>3, VersionFacts DEF OwnTypes
  <2>5. ownCalls' = [ownCalls EXCEPT ![c].got = got]
    BY <1>3, <2>1, <2>3 DEF ServeOwn
  <2>6. PICK x : x = [r EXCEPT !.got = got]
    OBVIOUS
  <2>7. x \in [op : {"none", "load", "save", "avatar"},
               got : [who : People \cup {Stranger}, is : Versions]]
    BY <2>1, <2>4, <2>6
  <2>8. ownCalls' = [ownCalls EXCEPT ![c] = x]
    BY <2>1, <2>5, <2>6 DEF OwnTypes
  <2>9. ownCalls' \in [OwnCalls -> [op : {"none", "load", "save", "avatar"},
                                    got : [who : People \cup {Stranger}, is : Versions]]]
    BY <2>7, <2>8 DEF OwnTypes
  <2>10. UNCHANGED <<address, me, person, draft>>
    BY <1>3 DEF ServeOwn
  <2> QED
    BY <1>0, <2>2, <2>9, <2>10 DEF OwnTypes
<1>4. ASSUME NEW c \in OwnCalls, ProfileLoaded(c) \/ ProfileSaved(c) \/ AvatarChanged(c)
      PROVE  OwnTypes'
  <2>1. /\ ownCalls' = [ownCalls EXCEPT ![c] = [op |-> "none", got |-> NothingSeen]]
        /\ UNCHANGED <<address, me, stored>> /\ person' = ownCalls[c].got
        /\ draft' = draft \/ draft' = ownCalls[c].got.is.name
    BY <1>4 DEF ProfileLoaded, ProfileSaved, AvatarChanged, OwnCallOver, IdleCall
  <2> QED
    BY <1>0, <1>1, <1>2, <2>1 DEF OwnTypes
<1>5. ASSUME NEW c \in OwnCalls, SaveProfile(c) \/ ChangeAvatar(c) \/ OwnCallFails(c)
      PROVE  OwnTypes'
  <2>1. PICK op \in {"none", "save", "avatar"} :
           ownCalls' = [ownCalls EXCEPT ![c] = [op |-> op, got |-> NothingSeen]]
    BY <1>5 DEF SaveProfile, ChangeAvatar, OwnCallFails, OwnCallOver, OwnAsk, IdleCall
  <2>2. UNCHANGED <<address, me, stored, person, draft>>
    BY <1>5 DEF SaveProfile, ChangeAvatar, OwnCallFails
  <2> QED
    BY <1>0, <1>1, <2>1, <2>2 DEF OwnTypes
<1>6. CASE TypeName
  <2>1. draft' \in 0..MaxVersion
    BY <1>6, PeopleAssumption DEF TypeName, OwnTypes
  <2> QED
    BY <1>0, <1>6, <2>1 DEF TypeName, OwnTypes
<1>7. ASSUME NEW p \in People, OpenOtherProfile(p) PROVE OwnTypes'
  BY <1>0, <1>7 DEF OpenOtherProfile, OwnTypes
<1>8. CASE ToggleEditing \/ UNCHANGED ownVars
  BY <1>0, <1>8 DEF ToggleEditing, ownVars, OwnTypes
<1> QED
  BY <1>3, <1>4, <1>5, <1>6, <1>7, <1>8 DEF ProfileNext

LEMMA StepOwnSwitches == OwnSwitches /\ [ProfileNext]_ownVars => OwnSwitches'
<1> SUFFICES ASSUME OwnSwitches, [ProfileNext]_ownVars PROVE OwnSwitches'
  OBVIOUS
<1> USE DEF OwnSwitches
<1>1. ASSUME NEW c \in OwnCalls, ServeOwn(c) PROVE OwnSwitches'
  <2>1. crossedOver' = TRUE \/ crossedOver' = FALSE
    BY <1>1, Zenon DEF ServeOwn
  <2> QED
    BY <1>1, <2>1 DEF ServeOwn
<1>2. ASSUME NEW c \in OwnCalls, ProfileLoaded(c) \/ ProfileSaved(c) \/ AvatarChanged(c)
      PROVE  OwnSwitches'
  BY <1>2 DEF ProfileLoaded, ProfileSaved, AvatarChanged
<1>3. ASSUME NEW c \in OwnCalls, SaveProfile(c) \/ ChangeAvatar(c) PROVE OwnSwitches'
  BY <1>3 DEF SaveProfile, ChangeAvatar
<1>4. ASSUME NEW c \in OwnCalls, OwnCallFails(c) PROVE OwnSwitches'
  <2>1. /\ profileLoading' = TRUE \/ profileLoading' = FALSE
        /\ profileSaving' = TRUE \/ profileSaving' = FALSE
        /\ crossedOver' = TRUE \/ crossedOver' = FALSE
    BY <1>4, Zenon DEF OwnCallFails
  <2> QED
    BY <1>4, <2>1 DEF OwnCallFails
<1>5. CASE ToggleEditing
  <2>1. editing' = TRUE \/ editing' = FALSE
    BY <1>5 DEF ToggleEditing
  <2> QED
    BY <1>5, <2>1 DEF ToggleEditing
<1>6. ASSUME NEW p, OpenOtherProfile(p) PROVE OwnSwitches'
  BY <1>6 DEF OpenOtherProfile
<1>7. CASE TypeName \/ UNCHANGED ownVars
  BY <1>7 DEF TypeName, ownVars
<1> QED
  BY <1>1, <1>2, <1>3, <1>4, <1>5, <1>6, <1>7 DEF ProfileNext

LEMMA StepProfileTyped == ProfileTyped /\ [ProfileNext]_ownVars => ProfileTyped'
  BY StepOwnTypes, StepOwnSwitches DEF ProfileTyped

(* The bell hides nothing. As long as no push was overwritten and no count *)
(* failed, every answer that will overwrite the badge makes up, with the   *)
(* pushes under way, for all that is unread; and once the first count has  *)
(* come, so does the badge.                                                *)
Overwrites(c) == Has(c, "count", "ok") \/ Has(c, "readall", "ok")

AnswersCover ==
    \A c \in ShellCalls :
        /\ Overwrites(c) => shellCalls[c].count + Cardinality(pushes) >= Cardinality(Unread)
        /\ Has(c, "readall", "ok") => shellCalls[c].count = 0
        /\ ~Has(c, "count", "failed")

Counting == \E c \in ShellCalls : shellCalls[c].op = "count"

Covered == AnswersCover /\ (~Counting => badge + Cardinality(pushes) >= Cardinality(Unread))

BellInv == ShellTyped /\ (~missed => Covered)

LEMMA CountFacts ==
    ASSUME CallsTyped
    PROVE  \A c \in ShellCalls : shellCalls[c].count \in Nat
<1> SUFFICES ASSUME NEW c \in ShellCalls PROVE shellCalls[c].count \in Nat
  OBVIOUS
<1>1. shellCalls[c] \in ShellCall
  BY DEF CallsTyped
<1>2. 0..Cardinality(Notes) \subseteq Nat
  BY NotesFacts
<1> QED
  BY <1>1, <1>2 DEF ShellCall, Quiet

(* A step that pushes nothing and makes nothing unread, and in which at    *)
(* most one call goes on.                                                  *)
LEMMA CoverKept ==
    ASSUME ShellTyped, Covered, NEW c \in ShellCalls,
           \A d \in ShellCalls : d # c => shellCalls'[d] = shellCalls[d],
           Unread' \in SUBSET Unread, UNCHANGED <<pushes, badge>>,
           shellCalls[c].op = "count" => shellCalls'[c].op = "count",
           \/ shellCalls'[c] = shellCalls[c]
           \/ shellCalls'[c].op \notin {"count", "readall"}
           \/ shellCalls'[c].got = "none"
           \/ /\ Has(c, "readall", "ok")' /\ shellCalls'[c].count = 0 /\ Unread' = {}
           \/ /\ Has(c, "count", "ok")' /\ shellCalls'[c].count = Cardinality(Unread)
           \/ /\ shellCalls'[c].got = "failed" /\ shellCalls'[c].op # "count"
    PROVE  Covered'
<1>1. PICK k, u, v, b :
         /\ k = Cardinality(pushes) /\ u = Cardinality(Unread) /\ v = Cardinality(Unread')
         /\ b = badge /\ k \in Nat /\ u \in Nat /\ v \in 0..u /\ b \in Nat
         /\ (Unread' = {} => v = 0)
  <2>1. IsFiniteSet(Unread) /\ Cardinality(Unread) \in Nat /\ Cardinality(pushes) \in Nat
        /\ badge \in Nat
    BY CardinalityFacts DEF ShellTyped, BadgeBound
  <2>2. Cardinality(Unread') \in Nat /\ Cardinality(Unread') <= Cardinality(Unread)
        /\ (Unread' = {} => Cardinality(Unread') = 0)
    BY <2>1, FS_Subset, FS_CardinalityType, FS_EmptySet
  <2> QED
    BY <2>1, <2>2
<1>2. \A d \in ShellCalls : shellCalls[d].count \in Nat
  BY CountFacts DEF ShellTyped
<1>3. Counting => Counting'
  BY DEF Counting
<1>4. ~Counting' => b + k >= v
  BY <1>1, <1>3 DEF Covered
<1>5. ASSUME NEW d \in ShellCalls, Overwrites(d)' PROVE shellCalls'[d].count + k >= v
  <2>1. CASE shellCalls'[d] = shellCalls[d]
    <3>1. PICK m : m = shellCalls[d].count /\ m \in Nat
      BY <1>2
    <3>2. m + k >= u
      BY <1>1, <1>5, <2>1, <3>1 DEF Covered, AnswersCover, Overwrites, Has
    <3> QED
      BY <1>1, <2>1, <3>1, <3>2
  <2>2. CASE shellCalls'[d] # shellCalls[d]
    BY <1>1, <1>5, <2>2 DEF Overwrites, Has
  <2> QED
    BY <2>1, <2>2
<1>6. ASSUME NEW d \in ShellCalls
      PROVE  (Has(d, "readall", "ok")' => shellCalls'[d].count = 0) /\ ~Has(d, "count", "failed")'
  BY DEF Covered, AnswersCover, Has
<1>7. Cardinality(pushes)' = k /\ Cardinality(Unread)' = v /\ badge' = b
  BY <1>1
<1> QED
  BY <1>4, <1>5, <1>6, <1>7 DEF Covered, AnswersCover

LEMMA InitBell == ShellInit => BellInv
<1> SUFFICES ASSUME ShellInit PROVE BellInv
  OBVIOUS
<1>1. ShellTyped
  BY InitShellTyped
<1>2. PICK s, q : s = Sent("count", "none") /\ q = Quiet
  OBVIOUS
<1>3. s.op = "count" /\ s.got = "none" /\ q.op = "none" /\ q.got = "none"
  BY <1>2 DEF Sent, Quiet
<1>4. shellCalls = [d \in ShellCalls |-> IF d = CHOOSE c \in ShellCalls : TRUE THEN s ELSE q]
  BY <1>2 DEF ShellInit
<1>5. AnswersCover
  BY <1>3, <1>4 DEF AnswersCover, Overwrites, Has
<1>6. Counting
  <2>1. (CHOOSE c \in ShellCalls : TRUE) \in ShellCalls
    BY ShellAssumption
  <2> QED
    BY <1>3, <1>4, <2>1 DEF Counting
<1> QED
  BY <1>1, <1>5, <1>6 DEF BellInv, Covered

(* One more is unread, and one more is pushed.                             *)
LEMMA CoverNotify ==
    ASSUME ShellTyped, Covered, ~missed', ~missed, NEW n \in Notes, Notify(n)
    PROVE  Covered'
<1>1. /\ notes[n] = "none" /\ notes' = [notes EXCEPT ![n] = "unread"]
      /\ pushes' = pushes \cup {n} /\ UNCHANGED <<badge, shellCalls>>
  BY DEF Notify, bellVars
<1>2. Unread' = Unread \cup {n} /\ n \notin Unread /\ n \notin pushes
  BY <1>1 DEF Unread, ShellTyped, BellTypes, BadgeBound, Unmade
<1>3. PICK k, u, b : /\ k = Cardinality(pushes) /\ u = Cardinality(Unread) /\ b = badge
                     /\ k \in Nat /\ u \in Nat /\ b \in Nat
  BY CardinalityFacts DEF ShellTyped, BadgeBound
<1>4. Cardinality(pushes)' = k + 1 /\ Cardinality(Unread)' = u + 1
  <2>1. IsFiniteSet(pushes) /\ IsFiniteSet(Unread)
    BY CardinalityFacts DEF ShellTyped
  <2> QED
    BY <1>1, <1>2, <1>3, <2>1, FS_AddElement
<1>5. \A d \in ShellCalls : shellCalls[d].count \in Nat
  BY CountFacts DEF ShellTyped
<1>6. AnswersCover'
  <2>1. ASSUME NEW d \in ShellCalls, Overwrites(d)
        PROVE  shellCalls[d].count + (k + 1) >= u + 1
    <3>1. PICK m : m = shellCalls[d].count /\ m \in Nat
      BY <1>5
    <3>2. m + k >= u
      BY <1>3, <2>1, <3>1 DEF Covered, AnswersCover
    <3> QED
      BY <1>3, <3>1, <3>2
  <2>2. \A d \in ShellCalls : Overwrites(d)' => Overwrites(d)
    BY <1>1 DEF Overwrites, Has
  <2> QED
    BY <1>1, <1>4, <2>1, <2>2 DEF Covered, AnswersCover, Has
<1>7. ~Counting' => badge' + Cardinality(pushes)' >= Cardinality(Unread)'
  <2>1. ~Counting' => b + k >= u
    BY <1>1, <1>3 DEF Covered, Counting
  <2> QED
    BY <1>1, <1>3, <1>4, <2>1
<1> QED
  BY <1>6, <1>7 DEF Covered

(* A push becomes part of the badge, and no answer will overwrite it.      *)
LEMMA CoverPush ==
    ASSUME ShellTyped, Covered, ~missed', NEW n \in Notes, PushArrives(n)
    PROVE  Covered'
<1>1. /\ n \in pushes /\ pushes' = pushes \ {n} /\ badge' = badge + 1
      /\ UNCHANGED <<notes, shellCalls>> /\ ~Overwriting
  BY DEF PushArrives
<1>2. PICK k, u, b : /\ k = Cardinality(pushes) /\ u = Cardinality(Unread) /\ b = badge
                     /\ k \in Nat /\ u \in Nat /\ b \in Nat
  BY CardinalityFacts DEF ShellTyped, BadgeBound
<1>3. Cardinality(pushes)' = k - 1 /\ Cardinality(Unread)' = u
  <2>1. IsFiniteSet(pushes) /\ Unread' = Unread
    BY <1>1, CardinalityFacts DEF ShellTyped, Unread
  <2> QED
    BY <1>1, <1>2, <2>1, FS_RemoveElement
<1>4. AnswersCover'
  BY <1>1 DEF Covered, AnswersCover, Overwrites, Overwriting, Has
<1>5. ~Counting' => b + k >= u
  BY <1>1, <1>2 DEF Covered, Counting
<1> QED
  BY <1>1, <1>2, <1>3, <1>4, <1>5 DEF Covered

(* What an answer says becomes the badge.                                  *)
LEMMA CoverAnswer ==
    ASSUME ShellTyped, Covered, NEW c \in ShellCalls, CountArrives(c) \/ ReadAllArrives(c)
    PROVE  Covered'
<1>1. /\ Overwrites(c) /\ badge' = shellCalls[c].count /\ UNCHANGED <<notes, pushes>>
      /\ shellCalls' = [shellCalls EXCEPT ![c] = Quiet]
  BY DEF CountArrives, ReadAllArrives, CallOver, Overwrites, Covered, AnswersCover
<1>2. shellCalls'[c] = Quiet /\ \A d \in ShellCalls : d # c => shellCalls'[d] = shellCalls[d]
  BY <1>1 DEF ShellTyped, CallsTyped
<1>3. Unread' = Unread
  BY <1>1 DEF Unread
<1>4. AnswersCover'
  <2>1. ~Overwrites(c)' /\ ~Has(c, "readall", "ok")' /\ ~Has(c, "count", "failed")'
    BY <1>2 DEF Overwrites, Has, Quiet
  <2>2. ASSUME NEW d \in ShellCalls, d # c
        PROVE  /\ Overwrites(d)' <=> Overwrites(d)
               /\ \A op, got : Has(d, op, got)' <=> Has(d, op, got)
    BY <1>2, <2>2 DEF Overwrites, Has
  <2> QED
    BY <1>1, <1>2, <1>3, <2>1, <2>2 DEF Covered, AnswersCover
<1>5. badge' + Cardinality(pushes)' >= Cardinality(Unread)'
  BY <1>1, <1>3 DEF Covered, AnswersCover
<1> QED
  BY <1>4, <1>5 DEF Covered

LEMMA StepBell == BellInv /\ [ShellNext]_shellVars => BellInv'
<1> SUFFICES ASSUME ShellTyped, Covered, ~missed, ~missed', [ShellNext]_shellVars
             PROVE  Covered'
  <2>1. missed => missed' \/ ~[ShellNext]_shellVars
    BY DEF ShellNext, shellVars, Notify, PageReadsAll, PageReads, PageDeletes, PushArrives,
           ClosePanel, ToggleUserMenu, ServeCount, ServeReadAll, ServeRead, Serve, LoseCall,
           CallFailed, CountArrives, OpenPanel, ListArrives, ReadAllArrives, ReadArrives,
           ClickNote
  <2> QED
    BY <2>1, StepShellTyped DEF BellInv
<1>0. PICK q \in ShellCalls : TRUE
  BY ShellAssumption
<1>1. ASSUME NEW n \in Notes, Notify(n) \/ PushArrives(n) PROVE Covered'
  BY <1>1, CoverNotify, CoverPush
<1>2. ASSUME UNCHANGED <<pushes, badge, shellCalls>>, Unread' \in SUBSET Unread PROVE Covered'
  BY <1>0, <1>2, CoverKept
<1>3. CASE PageReadsAll \/ \E n \in Notes : PageReads(n) \/ PageDeletes(n)
  <2>1. Unread' \in SUBSET Unread
    BY <1>3 DEF PageReadsAll, PageReads, PageDeletes, AllMarked, Unread, ShellTyped, BellTypes
  <2> QED
    BY <1>2, <1>3, <2>1 DEF PageReadsAll, PageReads, PageDeletes, bellVars
<1>4. CASE ClosePanel \/ ToggleUserMenu \/ UNCHANGED shellVars
  <2>1. UNCHANGED <<notes, pushes, badge, shellCalls>>
    BY <1>4 DEF ClosePanel, ToggleUserMenu, shellVars, bellVars
  <2> QED
    BY <1>2, <2>1 DEF Unread
<1>5. ASSUME NEW c \in ShellCalls, NEW op \in {"count", "readall", "read"}, Serve(c, op),
             NEW k \in 0..Cardinality(Notes),
             k = IF op = "count" THEN Cardinality(Unread) ELSE 0,
             Unread' \in SUBSET Unread, op = "readall" => Unread' = {}
      PROVE  Covered'
  <2>1. shellCalls[c].op = op /\ shellCalls[c] # Quiet /\ UNCHANGED <<pushes, badge>>
    BY <1>5 DEF Serve, Has, Quiet, bellVars
  <2>2. shellCalls' = [shellCalls EXCEPT ![c].got = "ok", ![c].count = k]
    BY <1>5 DEF Serve
  <2>4. CallsTyped
    BY DEF ShellTyped
  <2>5. /\ shellCalls'[c].op = shellCalls[c].op /\ shellCalls'[c].got = "ok"
        /\ \A d \in ShellCalls : d # c => shellCalls'[d] = shellCalls[d]
    BY <1>5, <2>1, <2>2, <2>4, CallAnswered
  <2>6. shellCalls'[c].count = k
    <3>1. shellCalls[c] \in ShellCall \ {Quiet}
      BY <2>1, <2>4 DEF CallsTyped
    <3>2. PICK r : r = [shellCalls[c] EXCEPT !.got = "ok"]
      OBVIOUS
    <3>3. [r EXCEPT !.count = k].count = k
      BY <3>1, <3>2 DEF ShellCall
    <3>4. shellCalls'[c] = [r EXCEPT !.count = k]
      BY <2>2, <2>4, <3>2 DEF CallsTyped
    <3> QED
      BY <3>3, <3>4
  <2>3. /\ shellCalls'[c].op = op /\ shellCalls'[c].got = "ok" /\ shellCalls'[c].count = k
        /\ \A d \in ShellCalls : d # c => shellCalls'[d] = shellCalls[d]
    BY <2>1, <2>5, <2>6
  <2> QED
    BY <1>5, <2>1, <2>3, CoverKept DEF Has
<1>6. ASSUME NEW c \in ShellCalls, ServeCount(c) \/ ServeReadAll(c) \/ ServeRead(c)
      PROVE  Covered'
  <2>1. Cardinality(Unread) \in 0..Cardinality(Notes) /\ 0 \in 0..Cardinality(Notes)
    BY NotesFacts
  <2>2. CASE ServeCount(c)
    <3>1. Unread' = Unread
      BY <2>2 DEF ServeCount, Unread
    <3> QED
      BY <1>5, <2>1, <2>2, <3>1 DEF ServeCount
  <2>3. CASE ServeReadAll(c)
    <3>1. Unread' = {}
      BY <2>3 DEF ServeReadAll, AllMarked, Unread
    <3> QED
      BY <1>5, <2>1, <2>3, <3>1 DEF ServeReadAll
  <2>4. CASE ServeRead(c)
    <3>1. Unread' \in SUBSET Unread
      <4>1. PICK n : notes' = [notes EXCEPT ![n] = "read"]
        BY <2>4 DEF ServeRead
      <4> QED
        BY <4>1 DEF Unread, ShellTyped, BellTypes
    <3> QED
      BY <1>5, <2>1, <2>4, <3>1 DEF ServeRead
  <2> QED
    BY <1>6, <2>2, <2>3, <2>4
<1>7. ASSUME NEW c \in ShellCalls, LoseCall(c) PROVE Covered'
  <2>1. /\ shellCalls[c] # Quiet /\ shellCalls[c].op # "count"
        /\ shellCalls' = [shellCalls EXCEPT ![c].got = "failed"]
        /\ UNCHANGED <<notes, pushes, badge>>
    BY <1>7 DEF LoseCall, bellVars
  <2>2. /\ shellCalls'[c].op = shellCalls[c].op /\ shellCalls'[c].got = "failed"
        /\ \A d \in ShellCalls : d # c => shellCalls'[d] = shellCalls[d]
    <3>1. 0 \in 0..Cardinality(Notes)
      BY NotesFacts
    <3> QED
      BY <2>1, <3>1, CallAnswered DEF ShellTyped
  <2>3. Unread' = Unread
    BY <2>1 DEF Unread
  <2> QED
    BY <2>1, <2>2, <2>3, CoverKept
<1>8. ASSUME NEW c \in ShellCalls, NEW r, r.op # "count", r.op # "readall" \/ r.got = "none",
             shellCalls' = [shellCalls EXCEPT ![c] = r], shellCalls[c].op # "count",
             UNCHANGED <<notes, pushes, badge>>
      PROVE  Covered'
  <2>1. shellCalls'[c] = r /\ \A d \in ShellCalls : d # c => shellCalls'[d] = shellCalls[d]
    BY <1>8 DEF ShellTyped, CallsTyped
  <2>2. Unread' = Unread
    BY <1>8 DEF Unread
  <2> QED
    BY <1>8, <2>1, <2>2, CoverKept
<1>9. Quiet.op = "none"
  BY DEF Quiet
<1>10. ASSUME NEW c \in ShellCalls, CallFailed(c) \/ ReadArrives(c) PROVE Covered'
  <2>1. /\ shellCalls[c].op # "count" /\ UNCHANGED <<notes, pushes, badge>>
        /\ shellCalls' = [shellCalls EXCEPT ![c] = Quiet]
    BY <1>10 DEF CallFailed, ReadArrives, CallOver, Has, Covered, AnswersCover
  <2> QED
    BY <1>8, <1>9, <2>1
<1>11. ASSUME NEW c \in ShellCalls, OpenPanel(c) \/ ListArrives(c) PROVE Covered'
  <2>1. PICK s, r : s = Sent("list", "none") /\ r = Sent("readall", "none")
    OBVIOUS
  <2>2. s.op = "list" /\ r.op = "readall" /\ r.got = "none"
    BY <2>1 DEF Sent
  <2>3. CASE OpenPanel(c)
    BY <1>8, <1>9, <2>1, <2>2, <2>3 DEF OpenPanel, SendCall
  <2>4. CASE ListArrives(c)
    BY <1>8, <2>1, <2>2, <2>4 DEF ListArrives, Has
  <2> QED
    BY <1>11, <2>3, <2>4
<1>12. ASSUME NEW c \in ShellCalls, NEW n \in Notes, ClickNote(n, c) PROVE Covered'
  <2>1. PICK r : r = Sent("read", n)
    OBVIOUS
  <2>2. r.op = "read"
    BY <2>1 DEF Sent
  <2>3. CASE listed[n] = "unread"
    BY <1>8, <1>9, <1>12, <2>1, <2>2, <2>3 DEF ClickNote, SendCall
  <2>4. CASE listed[n] # "unread"
    <3>1. UNCHANGED <<notes, pushes, badge, shellCalls>>
      BY <1>12, <2>4 DEF ClickNote
    <3> QED
      BY <1>2, <3>1 DEF Unread
  <2> QED
    BY <2>3, <2>4
<1> QED
  BY <1>1, <1>3, <1>4, <1>6, <1>7, <1>10, <1>11, <1>12, CoverAnswer DEF ShellNext

LEMMA BellCovers == BellInv => BadgeCoversUnread
  BY DEF BellInv, Covered, Counting, BadgeCoversUnread

-----------------------------------------------------------------------------
LEMMA PagesPlayWallet ==
    /\ PagesInit => WalletInit
    /\ [PagesNext]_pagesVars => [WalletNext]_walletVars
<1>1. ASSUME NEW s \in Scenes, Play(s) PROVE [WalletNext]_walletVars
  BY <1>1 DEF Play, WalletNext
<1> QED
  BY <1>1 DEF PagesInit, PagesNext, pagesVars

LEMMA PagesPlayNotices ==
    /\ PagesInit => NoticesInit
    /\ [PagesNext]_pagesVars => [NoticesNext]_noticeVars
<1>1. JobsNext => UNCHANGED noticeVars
  BY DEF JobsNext, ModeArrives, GoBack, JobsArrive, JobsFail, RetryJobs, PressTab
<1>2. TalksNext => UNCHANGED noticeVars
  BY DEF TalksNext, TalksArrive, TalksFail, RetryTalks, LeaveTalks
<1>3. ASSUME NEW s \in Scenes, Play(s) PROVE [NoticesNext]_noticeVars
  <2>1. JobsNext \/ NoticesNext \/ TalksNext \/ UNCHANGED listVars
    BY <1>3 DEF Play
  <2> QED
    BY <1>1, <1>2, <2>1 DEF listVars
<1> QED
  BY <1>3 DEF PagesInit, PagesNext, pagesVars, listVars

LEMMA PagesPlayShell ==
    /\ PagesInit => ShellInit
    /\ [PagesNext]_pagesVars => [ShellNext]_shellVars
<1>1. ASSUME NEW s \in Scenes, Play(s) PROVE [ShellNext]_shellVars
  BY <1>1 DEF Play
<1> QED
  BY <1>1 DEF PagesInit, PagesNext, pagesVars

LEMMA PagesPlayProfile ==
    /\ PagesInit => ProfileInit
    /\ [PagesNext]_pagesVars => [ProfileNext]_ownVars
<1>1. ASSUME NEW s \in Scenes, Play(s) PROVE [ProfileNext]_ownVars
  BY <1>1 DEF Play
<1> QED
  BY <1>1 DEF PagesInit, PagesNext, pagesVars

(* For any size of a page, number of rows, of notifications and of calls   *)
(* in flight: the history of the wallet and the notifications on screen    *)
(* are the server's, the badge of the bell and the pushes on their way     *)
(* cover what is unread, and one's own profile is the stored one.  Each    *)
(* holds until the first of the events its property names, after which     *)
(* the code does go wrong.                                                 *)
THEOREM ShownIsStoredHolds == PagesSpec => []ShownIsStored
<1>1. HistInv /\ NoticesInv /\ BellInv /\ ProfileInv => ShownIsStored
  BY HistIsPrefix, NoticesAreLatest, BellCovers, ProfileIsStored DEF ShownIsStored
<1> QED
  BY <1>1, PagesPlayWallet, PagesPlayNotices, PagesPlayShell, PagesPlayProfile, InitHist,
     StepHist, InitNotices, StepNotices, InitBell, StepBell, InitProfile, StepProfile,
     PTL DEF PagesSpec

-----------------------------------------------------------------------------
(* The types of all pages together: those of the marketplace and of the    *)
(* forms are part of their invariants, the wallet's, the bell's and the    *)
(* landing page's rest on theirs.                                          *)
ShownTyped ==
    /\ MarketInv /\ FormInv /\ HireTyped /\ CheckoutTyped /\ MapTypeOK /\ PickersTyped
    /\ FrameTyped /\ LandingInv /\ LandedTypes
    /\ WalletTyped /\ ShellTyped /\ ProfileTyped
    /\ JobsInv /\ JobsTyped /\ NoticesTyped /\ MarksTyped /\ TalksTyped

LEMMA ShownTypedIsTyped == ShownTyped => PagesTypeOK
  BY HireTypedIsTyped, CheckoutTypedIsTyped, PickersTypedIsTyped, FrameTypedIsTyped,
     LandingIsTyped, WalletTypedIsTyped, ShellTypedIsTyped, ProfileTypedIsTyped,
     ListsTypedIsTyped
     DEF ShownTyped, PagesTypeOK, MarketInv, FormInv

LEMMA InitShownTyped == PagesInit => ShownTyped
  BY PagesPlayMarket, PagesPlayForms, PagesPlayHire, PagesPlayCheckout, PagesPlayMap,
     PagesPlayPickers, PagesPlayFrame, PagesPlayLanding, PagesPlayWallet, PagesPlayShell,
     PagesPlayProfile, PagesPlayJobs, PagesPlayNotices, PagesPlayTalks,
     InitMarket, InitForms, InitHireTyped, InitCheckoutTyped, InitMapTypes, InitPickersTyped,
     InitFrameTyped, InitLanding, InitLandedTypes, InitWalletTyped, InitShellTyped,
     InitProfileTyped, InitJobs, InitJobsTyped, InitNoticesTyped, InitMarksTyped,
     InitTalksTyped
     DEF ShownTyped

LEMMA StepShownTyped == ShownTyped /\ [PagesNext]_pagesVars => ShownTyped'
<1> SUFFICES ASSUME ShownTyped, [PagesNext]_pagesVars PROVE ShownTyped'
  OBVIOUS
<1>1. MarketInv' /\ FormInv' /\ HireTyped' /\ CheckoutTyped'
  BY PagesPlayMarket, PagesPlayForms, PagesPlayHire, PagesPlayCheckout, StepMarket, StepForms,
     StepHireTyped, StepCheckoutTyped DEF ShownTyped
<1>2. MapTypeOK' /\ PickersTyped'
  BY PagesPlayMap, PagesPlayPickers, StepMapTypes, StepPickersTyped DEF ShownTyped
<1>3. FrameTyped' /\ LandingInv' /\ LandedTypes'
  BY PagesPlayFrame, PagesPlayLanding, StepFrameTyped, StepLanding, StepLandedTypes
     DEF ShownTyped
<1>4. WalletTyped' /\ ShellTyped' /\ ProfileTyped'
  BY PagesPlayWallet, PagesPlayShell, PagesPlayProfile, StepWalletTyped, StepShellTyped,
     StepProfileTyped DEF ShownTyped
<1>5. JobsInv' /\ JobsTyped' /\ NoticesTyped' /\ MarksTyped' /\ TalksTyped'
  BY PagesPlayJobs, PagesPlayNotices, PagesPlayTalks, StepJobs, StepJobsTyped,
     StepNoticesTyped, StepMarksTyped, StepTalksTyped DEF ShownTyped
<1> QED
  BY <1>1, <1>2, <1>3, <1>4, <1>5 DEF ShownTyped

(* Every field of the pages has its type, for any number of rows, calls,   *)
(* notifications, versions of a profile, places, tasks and people. It is   *)
(* more than the assignments say: no notification is counted down below    *)
(* nothing, the badge counts none a third time, a withdrawal leaves no     *)
(* negative balance, and a dot of the landing page is one of its slides.   *)
THEOREM PagesTypesHold == PagesSpec => []PagesTypeOK
<1> QED
  BY ShownTypedIsTyped, InitShownTyped, StepShownTyped, PTL DEF PagesSpec
=============================================================================
