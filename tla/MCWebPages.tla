---------------------------- MODULE MCWebPages -----------------------------
(***************************************************************************)
(* Small instances of the pages of the web client. Pages share no state    *)
(* but the server's: a behaviour plays one scene, the one that `scene`     *)
(* names, from every state in which its page opens, and the others do not  *)
(* begin.                                                                  *)
(***************************************************************************)
EXTENDS Marketplace, WalletPage, MarketMap, Hire, TaskForms, Checkout, Shell, Frame,
        Lists, Pickers, Landing, Profile

VARIABLE scene

pagesVars == <<scene, marketVars, walletVars, mapVars, hireVars, formsVars, checkoutVars,
               shellVars, frameVars, listVars, pickerVars, landingVars, ownVars>>

Scenes == {"marketplace", "wallet", "history", "map", "suggestions", "hire", "forms",
           "checkout", "shell", "frame", "jobs", "notices", "talks", "place", "deadline",
           "landing", "profile"}

(* Bounds of a task's page: its price is edited once, its map is drawn as  *)
(* soon as it comes, and its requester leaves it for the form or the       *)
(* checkout only.                                                          *)
HireBound ==
    /\ repriced => price' = price
    /\ detailMap = "coming" => DetailMapShown
    /\ mine => detailAt' # "elsewhere"

(* The scenes that are not on do not move.                                 *)
Play(s) ==
    /\ scene = s /\ UNCHANGED scene
    /\ IF s = "marketplace" THEN MarketNext ELSE UNCHANGED marketVars
    /\ CASE s = "wallet" -> WalletNext /\ ledger' <= 1    \* bound
         [] s = "history" -> MoneyNext
         [] OTHER -> UNCHANGED walletVars
    /\ CASE s = "map" -> AreaNext
         [] s = "suggestions" -> MapNext /\ UNCHANGED panelVars     \* bound
         [] OTHER -> UNCHANGED mapVars
    /\ IF s = "hire" THEN HireNext /\ HireBound ELSE UNCHANGED hireVars
    /\ IF s = "forms" THEN FormNext ELSE UNCHANGED formsVars
    /\ IF s = "checkout" THEN CheckoutNext ELSE UNCHANGED checkoutVars
    /\ IF s = "shell" THEN ShellNext ELSE UNCHANGED shellVars
    /\ IF s = "frame" THEN FrameNext ELSE UNCHANGED frameVars
    /\ CASE s = "jobs" -> JobsNext
         [] s = "notices" -> NoticesNext /\ Cardinality(marking') <= 1     \* bound
         [] s = "talks" -> TalksNext [] OTHER -> UNCHANGED listVars
    /\ CASE s = "place" -> PlaceNext [] s = "deadline" -> DeadlineNext
         [] OTHER -> UNCHANGED pickerVars
    /\ IF s = "landing" THEN LandingNext ELSE UNCHANGED landingVars
    /\ IF s = "profile" THEN ProfileNext ELSE UNCHANGED ownVars

(* A scene that is not on waits in one of its initial states, whichever.   *)
PagesInit ==
    /\ scene \in Scenes
    /\ MarketInit /\ (scene # "marketplace" => search = CHOOSE t \in Texts : TRUE)
    /\ WalletInit /\ (scene # "wallet" /\ scene # "history" => ledger = 0 /\ verified)
    /\ scene = "wallet" => ledger <= 1
    /\ MapInit /\ (scene # "map" /\ scene # "suggestions" => radius = All)
    /\ HireInit /\ price = (CHOOSE p \in Prices : TRUE)
    /\ offer[CHOOSE a \in Applicants : TRUE] = 0                   \* bound
    /\ scene # "hire" => /\ status = "open" /\ ~mine /\ ~mayHire /\ ~applied
                         /\ \A a \in Applicants : offer[a] = 0 /\ verdict[a] = "none"
    /\ FormInit /\ (scene # "forms" => kind = "create" /\ complete)
    /\ CheckoutInit /\ (scene # "checkout" => order = "pending" /\ checkoutAt = "checkout")
    /\ ShellInit /\ (scene # "shell" => \A n \in Notes : notes[n] = "none")
    /\ FrameInit /\ (scene # "frame" => ~member /\ themeStored = Nothing /\ language = "en")
    /\ JobsInit /\ (scene # "jobs" => known /\ mode = "posted")
    /\ NoticesInit /\ (scene # "notices" => kept = {})
    /\ TalksInit /\ PlaceInit
    /\ DeadlineInit
    /\ scene # "deadline" =>
          now = CHOOSE t \in {At(d, h) : d \in FirstDays, h \in ClockHours} : TRUE
    /\ LandingInit /\ (scene # "landing" => section = "hiw" /\ ~mobile /\ ~reduced)
    /\ ProfileInit
    /\ scene # "profile" => address = (CHOOSE p \in People : TRUE) /\ me = address

PagesNext == \E s \in Scenes : Play(s)

PagesSpec == PagesInit /\ [][PagesNext]_pagesVars

-----------------------------------------------------------------------------
(* Every field of the pages has its type.                                  *)
PagesTypeOK ==
    /\ MarketTypeOK /\ WalletPageTypeOK /\ MapTypeOK /\ HireTypeOK /\ FormsTypeOK
    /\ CheckoutTypeOK /\ ShellTypeOK /\ FrameTypeOK /\ ListsTypeOK /\ PickersTypeOK
    /\ LandingTypeOK /\ ProfileTypeOK

(* A list holds what the filter or the tab on screen asks for, while each  *)
(* request is answered before the next one is sent: see                    *)
(* Marketplace.ListIsOfFilter and Lists.JobsAreOfTab.                      *)
ListsFollowTheirFilter == ListIsOfFilter /\ JobsAreOfTab

(* What a page shows of the server's rows is what the server has, while    *)
(* calls fail, are repeated and answered late: the wallet's history and    *)
(* the notifications have no gap and no repetition, the badge of the bell  *)
(* hides no unread notification, one's own profile is the one stored. Each *)
(* conjunct names the events after which the page does go wrong, and holds *)
(* until the first of them only (WalletPage.HistoryIsPrefix,               *)
(* Lists.NoticesArePrefix, Shell.BadgeCoversUnread, Profile.ProfileIsCurrent). *)
ShownIsStored ==
    HistoryIsPrefix /\ NoticesArePrefix /\ BadgeCoversUnread /\ ProfileIsCurrent

(* What the user picked is what is searched and sent, with the exceptions  *)
(* the conjuncts name: the area of the map, the place and the deadline of  *)
(* a task (MarketMap.CircleIsAreaSearched and PickIsSearched,              *)
(* Pickers.PlaceIsMarked and PresetIsAhead).                               *)
PickedIsUsed == CircleIsAreaSearched /\ PickIsSearched /\ PlaceIsMarked /\ PresetIsAhead

(* The frame of the application and the animations of its first page, for  *)
(* as long as that page is not left, end in step with the page and the     *)
(* scroll position (Frame.FrameFollowsPage, Landing.StepsFinish,           *)
(* Landing.DotIsOfSlide).                                                  *)
SceneryFollows == FrameFollowsPage /\ StepsFinish /\ DotIsOfSlide
=============================================================================
