---- MODULE Landing ----
(* The two sections of the landing page that tell a story as the page is scrolled:
   landing-howitworks.section.ts (three steps) and landing-features.section.ts
   (four), with the part of landing.component.ts that binds them to the scroll.

   A step is "played" once the progress passes its threshold and "reset" when the
   progress falls back under it.  Playing is an async function nobody awaits: it
   shows its elements one after the other and waits in between, either for an
   animation, which a reset cancels, or for a timer, which nothing cancels.  So a
   run may outlive the reset and meet the run of the next play.

   Progress is in per cent.  The blur, the easing, the background's colour and the
   figures counting up are left out. *)
EXTENDS Integers, Sequences, SequencesExt

CONSTANTS Progress,   \* the scroll positions the page reports, 0..100
          MaxRuns     \* bound: the runs under way at once

ASSUME ProgressAssumption == Progress \subseteq 0..100 /\ MaxRuns \in Nat

VARIABLES section,    \* the section scrolled: "hiw" or "features"
          mobile,     \* window.innerWidth < 768 when the page was bound
          reduced,    \* prefers-reduced-motion
          bound,      \* the scroll triggers: "no", "yes" or "killed"
          landed,     \* the page is on screen
          progress,   \* the progress of the last onUpdate
          dot,        \* lastActiveStep
          slides,     \* the visibility of each slide, in tenths
          played,     \* the steps marked as played
          runs,       \* for each step, how many runs are at each of its positions
          shown       \* for each step, the elements shown
landingVars == <<section, mobile, reduced, bound, landed, progress, dot, slides,
                 played, runs, shown>>

\* Where a section's steps begin (ANIM_THRESHOLDS, and the dots').
Starts(s) == IF s = "hiw" THEN <<0, 30, 60>> ELSE <<0, 25, 50, 75>>
Parts(s) == 1..Len(Starts(s))
Threshold(s, i) == IF i = 1 THEN 2 ELSE Starts(s)[i]
Hysteresis == 3

\* stepVisibility over HIW_RANGES and FEAT_RANGES: a slide dissolves into the next
\* over the ten per cent around the start of the next.
Tenths(n) == IF n < 0 THEN 0 ELSE IF n > 10 THEN 10 ELSE n
Visibility(s, i, p) ==
  LET in == IF i = 1 THEN 10 ELSE Tenths(p - (Starts(s)[i] - 5))
      out == IF i = Len(Starts(s)) THEN 10 ELSE Tenths(10 - (p - (Starts(s)[i + 1] - 5)))
  IN IF in < out THEN in ELSE out

\* Mutant of DotAt: the dot moves when the next slide begins to show.
DotAtEntry(s, p) == CHOOSE i \in Parts(s) :
  /\ Starts(s)[i] <= p + 5
  /\ \A j \in Parts(s) : Starts(s)[j] <= p + 5 => j <= i

\* updateDots
DotAt(s, p) == CHOOSE i \in Parts(s) :
  /\ Starts(s)[i] <= p
  /\ \A j \in Parts(s) : Starts(s)[j] <= p => j <= i

\* A run's script: what each stretch shows and what it then waits for.
Stretch(elements, wait) == [shows |-> elements, wait |-> wait]
Panels == {"text", "mock"}
HiwPost == <<Stretch(Panels \cup {"field0"}, "finish"), Stretch({"typed"}, "finish"),
             Stretch({"field1"}, "pause"), Stretch({"field2"}, "pause"),
             Stretch({"button"}, "finish"), Stretch({"card"}, "end")>>
HiwMatch == <<Stretch(Panels, "finish"), Stretch({"app0"}, "finish"),
              Stretch({"count1"}, "pause"), Stretch({"app1"}, "finish"),
              Stretch({"count2"}, "pause"), Stretch({"app2"}, "finish"),
              Stretch({"count3"}, "end")>>
HiwDone == <<Stretch(Panels, "pause"), Stretch({"card"}, "end")>>
FeatBrowse == <<Stretch(Panels, "pause"), Stretch({"card0"}, "pause"),
                Stretch({"card1"}, "pause"), Stretch({"card2"}, "end")>>
FeatFees == <<Stretch(Panels, "finish"), Stretch({"row0"}, "pause"),
              Stretch({"row1"}, "pause"), Stretch({"row2"}, "pause"),
              Stretch({"badge"}, "end")>>
\* Its map label is not in the template: nothing follows the panels.
FeatNearby == <<Stretch(Panels, "finish")>>
\* The dots of somebody typing come and go before each bubble.
Bubble(b) == <<Stretch({}, "finish"), Stretch({}, "pause"), Stretch({}, "pause"),
               Stretch({b}, "finish")>>
FeatChat == <<Stretch(Panels, "finish")>> \o Bubble("bubble0") \o <<Stretch({}, "pause")>>
            \o Bubble("bubble1") \o <<Stretch({}, "pause")>> \o Bubble("bubble2")
Script(s, i) == IF s = "hiw" THEN <<HiwPost, HiwMatch, HiwDone>>[i]
                ELSE <<FeatBrowse, FeatFees, FeatNearby, FeatChat>>[i]

\* What the slides hold, by the templates: what showFinalState shows at once.
Counts == {"count1", "count2", "count3"}
HiwElements == <<Panels \cup {"field0", "typed", "field1", "field2", "button", "card"},
                 Panels \cup {"app0", "app1", "app2"} \cup Counts,
                 Panels \cup {"card"}>>
FeatElements == <<Panels \cup {"card0", "card1", "card2"},
                  Panels \cup {"row0", "row1", "row2", "badge"},
                  Panels,
                  Panels \cup {"bubble0", "bubble1", "bubble2"}>>
Elements(s, i) == IF s = "hiw" THEN HiwElements[i] ELSE FeatElements[i]

\* The longest script is that of the chat.
Positions == 1..15
NoRuns == [k \in Positions |-> 0]

LandingInit ==
  /\ section \in {"hiw", "features"} /\ mobile \in BOOLEAN /\ reduced \in BOOLEAN
  /\ bound = "no" /\ landed = TRUE
  /\ progress = 0 /\ dot = 0
  /\ slides = [i \in Parts(section) |-> 0]
  /\ played = {}
  /\ runs = [i \in Parts(section) |-> NoRuns]
  /\ shown = [i \in Parts(section) |-> {}]

\* initGsapAnimations after its imports: it binds the scroll even if the page has
\* been left meanwhile, and then nothing kills the triggers.  On a small screen every slide is laid out at once.
Bind ==
  /\ bound = "no" /\ bound' = "yes"
  /\ slides' = IF mobile THEN [i \in Parts(section) |-> 10] ELSE slides
  /\ UNCHANGED <<section, mobile, reduced, landed, progress, dot, played, runs, shown>>

\* resetStep cancels the animations of the step: the runs waiting for one end, the
\* runs waiting for a timer do not.
AwaitsFinish(i, k) ==
  k \in DOMAIN Script(section, i) /\ Script(section, i)[k].wait = "finish"
Outlive(i) == [k \in Positions |-> IF AwaitsFinish(i, k) THEN 0 ELSE runs[i][k]]

\* What playStep and resetStep do to the steps of two sets.
PlayAndReset(plays, resets) ==
  /\ played' = (played \cup plays) \ resets
  /\ runs' = [i \in Parts(section) |->
       IF i \in resets THEN Outlive(i)
       ELSE IF i \in plays /\ ~reduced THEN [runs[i] EXCEPT ![1] = @ + 1] ELSE runs[i]]
  /\ shown' = [i \in Parts(section) |->
       IF i \in resets THEN {}
       ELSE IF i \in plays
            THEN shown[i] \cup (IF reduced THEN Elements(section, i)
                                ELSE Script(section, i)[1].shows)
            ELSE shown[i]]
  /\ MapThenSumSet(LAMBDA at : runs'[at[1]][at[2]], Parts(section) \X Positions) <= MaxRuns

\* updateProgress on a large screen, with checkAndFireInternalAnims.
ToPlay(p) == {i \in Parts(section) \ played : p >= Threshold(section, i)}
ToReset(p) == {i \in played : p < Threshold(section, i) - Hysteresis}
UpdateProgress(p) ==
  /\ bound = "yes" /\ ~mobile /\ ~reduced
  /\ progress' = p /\ dot' = DotAt(section, p)
  /\ slides' = [i \in Parts(section) |-> Visibility(section, i, p)]
  /\ PlayAndReset(ToPlay(p), ToReset(p))
  /\ UNCHANGED <<section, mobile, reduced, bound, landed>>
HiwProgress(p) == section = "hiw" /\ UpdateProgress(p)
FeaturesProgress(p) == section = "features" /\ UpdateProgress(p)

\* updateProgress for a reader who asked for reduced motion (showAllFinalStates).
ShowAll(p) ==
  /\ bound = "yes" /\ ~mobile /\ reduced
  /\ progress' = p
  /\ slides' = [i \in Parts(section) |-> 10]
  /\ shown' = [i \in Parts(section) |-> Elements(section, i)]
  /\ UNCHANGED <<section, mobile, reduced, bound, landed, dot, played, runs>>
HiwShowAll(p) == section = "hiw" /\ ShowAll(p)
FeaturesShowAll(p) == section = "features" /\ ShowAll(p)

\* The triggers of a small screen: onEnter plays a slide, onLeaveBack resets it.
CrossSlide(i) ==
  /\ bound = "yes" /\ mobile
  /\ IF i \in played THEN PlayAndReset({}, {i}) ELSE PlayAndReset({i}, {})
  /\ UNCHANGED <<section, mobile, reduced, bound, landed, progress, dot, slides>>
HiwSlide(i) == section = "hiw" /\ CrossSlide(i)
FeaturesSlide(i) == section = "features" /\ CrossSlide(i)

\* A run's wait is over: it shows its next stretch, or ends.
Continue(i, k) ==
  /\ runs[i][k] > 0
  /\ LET s == Script(section, i)
         goesOn == k < Len(s) /\ s[k + 1].wait # "end"
     IN /\ runs' = [runs EXCEPT ![i] = [j \in Positions |->
             IF j = k THEN @[j] - 1 ELSE IF j = k + 1 /\ goesOn THEN @[j] + 1 ELSE @[j]]]
        /\ shown' = IF k < Len(s) THEN [shown EXCEPT ![i] = @ \cup s[k + 1].shows] ELSE shown
  /\ UNCHANGED <<section, mobile, reduced, bound, landed, progress, dot, slides, played>>

\* ngOnDestroy of the page kills the triggers bound so far, ngOnDestroy of the
\* section cancels its animations.
LeaveLanding ==
  /\ landed /\ landed' = FALSE
  /\ bound' = IF bound = "yes" THEN "killed" ELSE bound
  /\ runs' = [i \in Parts(section) |-> Outlive(i)]
  /\ UNCHANGED <<section, mobile, reduced, progress, dot, slides, played, shown>>

LandingNext ==
  \/ Bind
  \/ \E p \in Progress : HiwProgress(p)
  \/ \E p \in Progress : FeaturesProgress(p)
  \/ \E p \in Progress : HiwShowAll(p)
  \/ \E p \in Progress : FeaturesShowAll(p)
  \/ \E i \in Parts(section) : HiwSlide(i)
  \/ \E i \in Parts(section) : FeaturesSlide(i)
  \/ \E i \in Parts(section) : \E k \in Positions : Continue(i, k)
  \/ LeaveLanding

LandingSpec == LandingInit /\ [][LandingNext]_landingVars

LandingTypeOK ==
  /\ section \in {"hiw", "features"} /\ mobile \in BOOLEAN /\ reduced \in BOOLEAN
  /\ bound \in {"no", "yes", "killed"} /\ landed \in BOOLEAN
  /\ progress \in {0} \cup Progress /\ dot \in 0..4
  /\ slides \in [Parts(section) -> 0..10]
  /\ played \subseteq Parts(section)
  /\ runs \in [Parts(section) -> [Positions -> Nat]]
  /\ \A i \in Parts(section) : shown[i] \subseteq Elements(section, i)

\* A step that is played and has no run left shows every element of its slide:
\* however the resets, the timers nothing cancels and the next plays met, none is
\* left half told. A page that was left is not in it: its animations are
\* cancelled halfway, and its timers go on for nobody.
StepsFinish ==
  landed => \A i \in played : runs[i] = NoRuns => shown[i] = Elements(section, i)

\* The slide that takes the clicks is the one the dots name.
DotIsOfSlide ==
  (~mobile /\ ~reduced) => \A i \in Parts(section) : slides[i] > 5 => dot = i
====
