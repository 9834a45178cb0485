---------------------------- MODULE PagesProofs ----------------------------
(***************************************************************************)
(* What the pages of the web client promise to whoever hires, pays, fills  *)
(* in, looks for or picks something on them, for any users, rows, prices,  *)
(* countdowns and number of requests in flight.                            *)
(***************************************************************************)
EXTENDS MCWebPages, FiniteSetTheorems, TLAPS

-----------------------------------------------------------------------------
(* The page of a task: hiring an applicant.                                *)

(* What an applicant costs, as the dialog says it.                         *)
Due(a) == IF offer[a] # 0 THEN offer[a] ELSE price

(* Accepted, and agreed to on this page                                    *)
Agreed(a) == verdict[a] = "accepted" /\ agreed[a] # 0

(* The server has accepted the applicant of this call.                     *)
Past(c) == hireCalls[c].op = "accept" /\ hireCalls[c].got \in {"taken", "ok"}

PageTypes ==
    /\ detail.price \in Nat /\ amount \in Nat
    /\ cards \in [Applicants -> Verdicts]
    /\ chosen \in Applicants \cup {"none"}
    /\ dialog = "escrow" => chosen \in Applicants

HireTypes ==
    /\ PageTypes
    /\ verdict \in [Applicants -> Verdicts]
    /\ agreed \in [Applicants -> Nat]
    /\ offer \in [Applicants -> Nat] /\ price \in Nat \ {0}
    /\ hireCalls \in [HireCalls -> Call]
    /\ \A c \in HireCalls : hireCalls[c].op = "accept" => hireCalls[c].app \in Applicants

(* While nobody changes the price, the page and the requester know it, and *)
(* whoever was accepted before is not offered for acceptance any more.     *)
PageKnows ==
    /\ detail # NotLoaded => detail.price = price
    /\ dialog = "escrow" => amount = Due(chosen) /\ ~Earlier(chosen)
    /\ \A a \in Applicants : Earlier(a) => cards[a] # "pending"

(* What is agreed to is what is due; the page asks for the escrow only     *)
(* when someone it agreed to hire is accepted.                             *)
Agreements ==
    /\ \A a \in Applicants : agreed[a] \in {0, Due(a)}
    /\ \A c \in HireCalls : hireCalls[c].op = "accept" => agreed[hireCalls[c].app] # 0
    /\ \A c \in HireCalls : Past(c) \/ hireCalls[c].op = "escrow" =>
          \E a \in Applicants : Agreed(a)

HireInv == HireTypes /\ (~repriced => PageKnows /\ Agreements) /\ ChargedIsAgreed

LEMMA InitHireInv == HireInit => HireInv
<1> SUFFICES ASSUME HireInit PROVE HireInv
  OBVIOUS
<1>1. /\ hireCalls \in [HireCalls -> Call]
      /\ \A c \in HireCalls : hireCalls[c].op \in {"get", "none"}
  BY DEF HireInit, NoCall, Call
<1>2. verdict \in [Applicants -> Verdicts]
  BY DEF HireInit, Verdicts
<1>3. HireTypes
  <2>1. offer \in [Applicants -> Offers] /\ Offers \subseteq Nat /\ price \in Nat \ {0}
    BY PricesAssumption DEF HireInit
  <2>2. offer \in [Applicants -> Nat]
    BY <2>1
  <2>3. agreed \in [Applicants -> Nat] /\ cards \in [Applicants -> Verdicts]
    BY DEF HireInit, NoCards, Verdicts
  <2> QED
    BY <1>1, <1>2, <2>1, <2>2, <2>3 DEF HireInit, HireTypes, PageTypes, NotLoaded
<1>4. PageKnows
  BY DEF HireInit, PageKnows, NoCards
<1>5. Agreements
  BY <1>1 DEF HireInit, Agreements, Past
<1>6. ChargedIsAgreed
  BY DEF HireInit, ChargedIsAgreed
<1> QED
  BY <1>3, <1>4, <1>5, <1>6 DEF HireInv

-----------------------------------------------------------------------------
(* Steps of the page: calls move on, none of them to an accepted           *)
(* application or to the escrow, and the server is as it was.              *)
LEMMA CallsMove ==
    ASSUME HireInv, UNCHANGED <<status, price, offer, verdict, held, agreed, repriced>>,
           hireCalls' \in [HireCalls -> Call],
           \A c \in HireCalls :
              /\ hireCalls'[c].op = "accept" =>
                    hireCalls[c].op = "accept" /\ hireCalls'[c].app = hireCalls[c].app
              /\ Past(c)' => Past(c)
              /\ hireCalls'[c].op = "escrow" => hireCalls[c].op = "escrow" \/ Past(c),
           PageTypes', ~repriced => PageKnows'
    PROVE  HireInv'
<1>1. HireTypes'
  BY DEF HireInv, HireTypes
<1>2. ~repriced' => Agreements'
  <2>1. \A a \in Applicants : Agreed(a)' = Agreed(a) /\ Due(a)' = Due(a)
    BY DEF Agreed, Due
  <2> QED
    BY <2>1 DEF HireInv, Agreements
<1>3. ChargedIsAgreed'
  BY DEF HireInv, ChargedIsAgreed, Earlier
<1> QED
  BY <1>1, <1>2, <1>3 DEF HireInv

(* Steps of the server: calls are answered, and more is accepted than was. *)
LEMMA ServerMoves ==
    ASSUME HireInv,
           UNCHANGED <<price, offer, agreed, repriced, detail, cards, dialog, chosen, amount>>,
           hireCalls' \in [HireCalls -> Call],
           \A c \in HireCalls : /\ hireCalls'[c].op = hireCalls[c].op
                                /\ hireCalls'[c].app = hireCalls[c].app
                                /\ ~repriced /\ Past(c)' => \E a \in Applicants : Agreed(a)',
           verdict' \in [Applicants -> Verdicts],
           \A a \in Applicants : verdict[a] = "accepted" => verdict'[a] = "accepted",
           \A a \in Applicants : ~repriced /\ Earlier(a)' => Earlier(a),
           held' = held \/ ChargedIsAgreed'
    PROVE  HireInv'
<1>1. HireTypes'
  BY DEF HireInv, HireTypes, PageTypes
<1>2. \A a \in Applicants : (Agreed(a) => Agreed(a)') /\ (Earlier(a) => Earlier(a)')
  BY DEF Agreed, Earlier
<1>3. ASSUME ~repriced' PROVE PageKnows'
  BY <1>3 DEF HireInv, HireTypes, PageTypes, PageKnows, Due
<1>4. ASSUME ~repriced' PROVE Agreements'
  BY <1>2, <1>4 DEF HireInv, HireTypes, Agreements, Due
<1>5. ChargedIsAgreed'
  <2> SUFFICES ASSUME held' = held PROVE ChargedIsAgreed'
    OBVIOUS
  <2> QED
    BY DEF HireInv, ChargedIsAgreed, Earlier
<1> QED
  BY <1>1, <1>3, <1>4, <1>5 DEF HireInv

(* A call is answered, and is what it was otherwise.                       *)
LEMMA AnswerTypes ==
    ASSUME HireTypes, NEW c \in HireCalls,
           NEW g \in {"none", "checked", "taken", "waits", "ok", "short", "refused"},
           hireCalls[c].op # "none", Replied(c, g)
    PROVE  /\ hireCalls' \in [HireCalls -> Call]
           /\ \A d \in HireCalls : /\ hireCalls'[d].op = hireCalls[d].op
                                   /\ hireCalls'[d].app = hireCalls[d].app
                                   /\ hireCalls'[d].got = IF c = d THEN g ELSE hireCalls[d].got
<1>1. hireCalls[c] \in [op: {"get", "apps", "accept", "escrow", "topup", "delete", "complete"},
                        app: Applicants \cup {"none"},
                        got: {"none", "checked", "taken", "waits", "ok", "short", "refused"}]
  BY DEF HireTypes, Call, NoCall
<1>2. [hireCalls[c] EXCEPT !.got = g] \in Call
  BY <1>1 DEF Call
<1>3. hireCalls' = [hireCalls EXCEPT ![c] = [hireCalls[c] EXCEPT !.got = g]]
  BY DEF Replied, HireTypes
<1> QED
  BY <1>1, <1>2, <1>3 DEF HireTypes

(* A call begins, or another one follows it, or it is over.                *)
LEMMA CallTypes ==
    ASSUME HireTypes, NEW c \in HireCalls, NEW r \in Call,
           hireCalls' = [hireCalls EXCEPT ![c] = r]
    PROVE  /\ hireCalls' \in [HireCalls -> Call]
           /\ hireCalls'[c] = r
           /\ \A d \in HireCalls : d # c => hireCalls'[d] = hireCalls[d]
  BY DEF HireTypes

LEMMA IsCall ==
    /\ NoCall \in Call
    /\ \A op \in {"get", "apps", "accept", "escrow", "topup", "delete", "complete"},
          a \in Applicants \cup {"none"} : [op |-> op, app |-> a, got |-> "none"] \in Call
  BY DEF Call, NoCall

-----------------------------------------------------------------------------
(* Steps of the page alone.                                                *)
LEMMA StepDialogs ==
    ASSUME HireInv, UNCHANGED <<serverVars, hireCalls, agreed, repriced, detail, cards>>,
           \/ UNCHANGED <<dialog, chosen, amount>>
           \/ dialog' # "escrow" /\ UNCHANGED <<chosen, amount>>
           \/ \E a \in Applicants : AcceptApp(a)
    PROVE  HireInv'
<1>0. PageTypes'
  <2>1. ASSUME NEW a \in Applicants, AcceptApp(a)
        PROVE  chosen' = a /\ amount' \in Nat
    BY <2>1 DEF AcceptApp, AmountOf, HireInv, HireTypes, PageTypes
  <2> QED
    BY <2>1 DEF HireInv, HireTypes, PageTypes
<1>1. ~repriced => PageKnows'
  <2>1. ASSUME NEW a \in Applicants, AcceptApp(a), ~repriced
        PROVE  chosen' = a /\ amount' = Due(a) /\ ~Earlier(a)
    BY <2>1 DEF AcceptApp, AcceptButton, OwnerButtons, Open, OnPage, AmountOf, Due, HireInv,
                PageKnows
  <2> QED
    BY <2>1 DEF HireInv, PageKnows, Due, Earlier, serverVars
<1> QED
  BY <1>0, <1>1, CallsMove DEF serverVars, HireInv, HireTypes, Past

LEMMA StepEditTask == ASSUME HireInv, NEW p \in Prices, EditTask(p) PROVE HireInv'
<1> USE DEF EditTask, userVars, detailVars
<1>1. HireTypes'
  BY PricesAssumption DEF HireInv, HireTypes, PageTypes
<1> QED
  BY <1>1 DEF HireInv, ChargedIsAgreed

-----------------------------------------------------------------------------
(* Calls that begin, follow one another or end on the page, the task and   *)
(* its applications staying as they are on the server.                     *)
LEMMA StepCallBegins ==
    ASSUME HireInv, NEW c \in HireCalls, DeleteTask(c) \/ CompleteTask(c)
    PROVE  HireInv'
<1> USE DEF DeleteTask, CompleteTask, serverVars, userVars, detailVars, ghostVars
<1>1. PICK op \in {"delete", "complete"} :
        hireCalls' = [hireCalls EXCEPT ![c] = [op |-> op, app |-> "none", got |-> "none"]]
  BY DEF AskFor
<1>2. /\ hireCalls' \in [HireCalls -> Call]
      /\ hireCalls'[c] = [op |-> op, app |-> "none", got |-> "none"]
      /\ \A d \in HireCalls : d # c => hireCalls'[d] = hireCalls[d]
  BY <1>1, IsCall, CallTypes DEF HireInv
<1>3. ~repriced => PageKnows'
  BY DEF HireInv, PageKnows, Due, Earlier
<1> QED
  BY <1>2, <1>3, CallsMove DEF Past, HireInv, HireTypes, PageTypes

LEMMA StepCallFollows ==
    ASSUME HireInv, NEW c \in HireCalls,
           TaskArrives(c) \/ Accepted(c) \/ EscrowedOrCompleted(c) \/ TopUp(c)
    PROVE  HireInv'
<1> USE DEF TaskArrives, Accepted, EscrowedOrCompleted, TopUp, serverVars, userVars,
            detailVars, ghostVars
<1>1. PICK r \in Call :
        /\ hireCalls' = [hireCalls EXCEPT ![c] = r]
        /\ r.op # "accept"
        /\ r.op = "escrow" => Past(c)
  BY IsCall DEF Then, Over, NoCall, Answer, Past
<1>2. /\ hireCalls' \in [HireCalls -> Call]
      /\ hireCalls'[c] = r
      /\ \A d \in HireCalls : d # c => hireCalls'[d] = hireCalls[d]
  BY <1>1, CallTypes DEF HireInv
<1>3. ~repriced => PageKnows'
  BY DEF HireInv, PageKnows, Due, Earlier
<1>4. PageTypes'
  BY DEF HireInv, HireTypes, PageTypes
<1> QED
  BY <1>1, <1>2, <1>3, <1>4, CallsMove DEF Past

LEMMA StepCallEnds ==
    ASSUME HireInv, NEW c \in HireCalls,
           CardsArrive(c) \/ TaskNotFound(c) \/ GoCheckout(c) \/ FailureShown(c)
    PROVE  HireInv'
<1> USE DEF CardsArrive, TaskNotFound, GoCheckout, FailureShown, serverVars, userVars,
            detailVars, ghostVars
<1>1. hireCalls' = [hireCalls EXCEPT ![c] = NoCall]
  BY DEF Over
<1>2. /\ hireCalls' \in [HireCalls -> Call]
      /\ hireCalls'[c] = NoCall
      /\ \A d \in HireCalls : d # c => hireCalls'[d] = hireCalls[d]
  BY <1>1, IsCall, CallTypes DEF HireInv
<1>3. ~repriced => PageKnows'
  BY DEF HireInv, PageKnows, Due, Earlier
<1> QED
  BY <1>2, <1>3, CallsMove DEF Past, NoCall, HireInv, HireTypes, PageTypes

-----------------------------------------------------------------------------
(* The requester agrees.                                                   *)
LEMMA StepExecuteAcceptApp ==
    ASSUME HireInv, NEW c \in HireCalls, ExecuteAcceptApp(c)
    PROVE  HireInv'
<1> USE DEF ExecuteAcceptApp, serverVars, userVars
<1>0. /\ chosen \in Applicants /\ amount \in Nat /\ dialog = "escrow"
      /\ agreed \in [Applicants -> Nat]
  BY DEF HireInv, HireTypes, PageTypes
<1>1. /\ hireCalls' \in [HireCalls -> Call]
      /\ hireCalls'[c] = [op |-> "accept", app |-> chosen, got |-> "none"]
      /\ \A d \in HireCalls : d # c => hireCalls'[d] = hireCalls[d]
  BY <1>0, IsCall, CallTypes DEF AskFor, HireInv
<1>2. /\ agreed' \in [Applicants -> Nat] /\ agreed'[chosen] = amount
      /\ \A a \in Applicants : a # chosen => agreed'[a] = agreed[a]
  BY <1>0
<1>3. HireTypes'
  BY <1>0, <1>1, <1>2 DEF HireInv, HireTypes, PageTypes
<1> SUFFICES ASSUME ~repriced PROVE HireInv'
  BY <1>3 DEF HireInv, ChargedIsAgreed
<1>4. /\ amount = Due(chosen) /\ amount # 0 /\ ~Earlier(chosen)
      /\ PageKnows /\ Agreements
  BY <1>0 DEF HireInv, HireTypes, PageKnows, Due
<1>5. \A a \in Applicants :
        /\ agreed[a] # 0 => agreed'[a] = agreed[a]
        /\ Earlier(a)' = Earlier(a)
        /\ Agreed(a) => Agreed(a)'
        /\ Due(a)' = Due(a)
  BY <1>2, <1>4 DEF Agreements, Earlier, Agreed, Due
<1>6. PageKnows'
  BY <1>0, <1>4, <1>5 DEF PageKnows
<1>7. Agreements'
  <2>1. \A a \in Applicants : agreed'[a] \in {0, Due(a)}
    BY <1>2, <1>4 DEF Agreements
  <2>2. ASSUME NEW d \in HireCalls, hireCalls'[d].op = "accept"
        PROVE  agreed'[hireCalls'[d].app] # 0
    <3>1. CASE d = c
      BY <1>1, <1>2, <1>4, <3>1
    <3>2. CASE d # c
      BY <1>1, <1>4, <1>5, <2>2, <3>2 DEF HireInv, HireTypes, Agreements
    <3> QED
      BY <3>1, <3>2
  <2>3. ASSUME NEW d \in HireCalls, Past(d)' \/ hireCalls'[d].op = "escrow"
        PROVE  \E a \in Applicants : Agreed(a)'
    BY <1>1, <1>4, <1>5, <2>3 DEF Past, Agreements
  <2> QED
    BY <1>5, <2>1, <2>2, <2>3 DEF Agreements
<1>8. ChargedIsAgreed'
  BY <1>5 DEF HireInv, ChargedIsAgreed
<1> QED
  BY <1>3, <1>6, <1>7, <1>8 DEF HireInv

-----------------------------------------------------------------------------
(* The server                                                              *)
LEMMA StepApply == ASSUME HireInv, NEW a \in Applicants, Apply(a) PROVE HireInv'
<1> USE DEF Apply, userVars, detailVars, ghostVars
<1>1. /\ verdict' \in [Applicants -> Verdicts]
      /\ \A b \in Applicants : (verdict'[b] = "accepted") = (verdict[b] = "accepted")
  BY DEF HireInv, HireTypes, Verdicts
<1>2. \A c \in HireCalls : ~repriced /\ Past(c)' => \E b \in Applicants : Agreed(b)'
  BY <1>1 DEF HireInv, Agreements, Past, Agreed
<1>3. \A b \in Applicants : Earlier(b)' => Earlier(b)
  BY <1>1 DEF Earlier
<1> QED
  BY <1>1, <1>2, <1>3, ServerMoves DEF HireInv, HireTypes

(* A call is answered without the server accepting anyone.                 *)
LEMMA StepAnswered ==
    ASSUME HireInv, NEW c \in HireCalls,
           \/ ServePage(c) \/ WalletIsShort(c) \/ CallFails(c)
           \/ CheckAccept(c) \/ RejectOthers(c) \/ ServeDelete(c) \/ ServeComplete(c)
    PROVE  HireInv'
<1> USE DEF ServePage, WalletIsShort, CallFails, CheckAccept, RejectOthers, ServeDelete,
            ServeComplete, serverVars, userVars, detailVars, ghostVars
<1>1. hireCalls[c].op # "none"
  BY DEF Answer
<1>2. PICK g \in {"checked", "waits", "ok", "short", "refused"} :
        /\ Replied(c, g)
        /\ hireCalls[c].op = "accept" /\ g = "ok" => Past(c)
  BY DEF Answer, Past
<1>3. /\ hireCalls' \in [HireCalls -> Call]
      /\ \A d \in HireCalls : /\ hireCalls'[d].op = hireCalls[d].op
                              /\ hireCalls'[d].app = hireCalls[d].app
                              /\ hireCalls'[d].got = IF c = d THEN g ELSE hireCalls[d].got
  BY <1>1, <1>2, AnswerTypes DEF HireInv
<1>4. /\ verdict' \in [Applicants -> Verdicts]
      /\ \A b \in Applicants : (verdict'[b] = "accepted") = (verdict[b] = "accepted")
  BY DEF HireInv, HireTypes, Verdicts
<1>5. /\ UNCHANGED <<price, offer, agreed, repriced, held, detail, cards, dialog, chosen, amount>>
  OBVIOUS
<1>6. \A d \in HireCalls : Past(d)' => Past(d)
  BY <1>2, <1>3 DEF Past
<1>7. \A d \in HireCalls : ~repriced /\ Past(d)' => \E b \in Applicants : Agreed(b)'
  BY <1>4, <1>5, <1>6 DEF HireInv, Agreements, Agreed
<1>8. \A b \in Applicants : Earlier(b)' => Earlier(b)
  BY <1>4, <1>5 DEF Earlier
<1> QED
  BY <1>3, <1>4, <1>5, <1>7, <1>8, ServerMoves

LEMMA StepTakeApplication ==
    ASSUME HireInv, NEW c \in HireCalls, TakeApplication(c)
    PROVE  HireInv'
<1> USE DEF TakeApplication, userVars, detailVars, ghostVars, Answer
<1>1. PICK a \in Applicants : a = hireCalls[c].app
  BY DEF HireInv, HireTypes
<1>2. /\ hireCalls' \in [HireCalls -> Call]
      /\ \A d \in HireCalls : /\ hireCalls'[d].op = hireCalls[d].op
                              /\ hireCalls'[d].app = hireCalls[d].app
                              /\ d # c => hireCalls'[d].got = hireCalls[d].got
  BY AnswerTypes DEF HireInv
<1>3. /\ verdict' \in [Applicants -> Verdicts]
      /\ verdict'[a] = "accepted"
      /\ \A b \in Applicants : b # a => verdict'[b] = verdict[b]
      /\ UNCHANGED <<price, offer, held, agreed, repriced, detail, cards, dialog, chosen, amount>>
  BY <1>1 DEF HireInv, HireTypes, Verdicts
<1>4. ~repriced => agreed[a] # 0
  BY <1>1 DEF HireInv, Agreements
<1>5. \A d \in HireCalls : ~repriced /\ Past(d)' => \E b \in Applicants : Agreed(b)'
  BY <1>3, <1>4 DEF Agreed
<1>6. \A b \in Applicants : ~repriced /\ Earlier(b)' => Earlier(b)
  BY <1>3, <1>4 DEF Earlier
<1> QED
  BY <1>2, <1>3, <1>5, <1>6, ServerMoves

(* The payment is that of someone accepted: of whom this page agreed to    *)
(* hire, or of someone accepted before.                                    *)
LEMMA StepServeEscrow ==
    ASSUME HireInv, NEW c \in HireCalls, ServeEscrow(c)
    PROVE  HireInv'
<1> USE DEF ServeEscrow, userVars, detailVars, ghostVars, Answer
<1>1. /\ hireCalls' \in [HireCalls -> Call]
      /\ \A d \in HireCalls : /\ hireCalls'[d].op = hireCalls[d].op
                              /\ hireCalls'[d].app = hireCalls[d].app
                              /\ hireCalls'[d].got = IF c = d THEN "ok" ELSE hireCalls[d].got
  BY AnswerTypes DEF HireInv
<1>2. ASSUME ~repriced PROVE ChargedIsAgreed'
  <2>1. PICK a \in Applicants : Agreed(a)
    BY <1>2 DEF HireInv, Agreements
  <2>2. CASE Proposed = {}
    <3>1. offer[a] = 0 /\ held' = price
      BY <2>1, <2>2 DEF Proposed, Charges, Agreed
    <3>2. agreed[a] = price
      BY <1>2, <2>1, <3>1 DEF HireInv, Agreements, Agreed, Due
    <3> QED
      BY <2>1, <3>1, <3>2 DEF ChargedIsAgreed, Agreed
  <2>3. CASE Proposed # {}
    <3>1. PICK b \in Applicants : verdict[b] = "accepted" /\ offer[b] # 0 /\ held' = offer[b]
      BY <2>3 DEF Proposed, Charges
    <3>2. CASE agreed[b] = 0
      BY <2>1, <3>1, <3>2 DEF ChargedIsAgreed, Agreed, Earlier
    <3>3. CASE agreed[b] # 0
      BY <1>2, <3>1, <3>3 DEF HireInv, Agreements, Due, ChargedIsAgreed
    <3> QED
      BY <3>2, <3>3
  <2> QED
    BY <2>2, <2>3
<1>3. ChargedIsAgreed'
  BY <1>2 DEF ChargedIsAgreed
<1>4. \A d \in HireCalls : ~repriced /\ Past(d)' => \E a \in Applicants : Agreed(a)'
  BY <1>1 DEF HireInv, Agreements, Past, Agreed
<1>5. \A a \in Applicants : Earlier(a)' => Earlier(a)
  BY DEF Earlier
<1> QED
  BY <1>1, <1>3, <1>4, <1>5, ServerMoves DEF HireInv, HireTypes

LEMMA StepHireInv == HireInv /\ [HireNext]_hireVars => HireInv'
<1> SUFFICES ASSUME HireInv, [HireNext]_hireVars PROVE HireInv'
  OBVIOUS
<1> USE DEF serverVars, userVars, detailVars, ghostVars
<1>1. CASE ConfirmDelete \/ CloseDialog \/ NavigateToApply \/ GoEdit \/ GoAway
           \/ DetailMapShown \/ DetailMapRemoved
  BY <1>1, StepDialogs
     DEF ConfirmDelete, CloseDialog, NavigateToApply, GoEdit, GoAway, GoTo, DetailMapShown,
         DetailMapRemoved
<1>2. ASSUME NEW a \in Applicants, Apply(a) \/ AcceptApp(a) PROVE HireInv'
  BY <1>2, StepApply, StepDialogs DEF AcceptApp
<1>3. ASSUME NEW p \in Prices, EditTask(p) PROVE HireInv'
  BY <1>3, StepEditTask
<1>4. ASSUME NEW c \in HireCalls,
             \/ DeleteTask(c) \/ CompleteTask(c)
             \/ TaskArrives(c) \/ Accepted(c) \/ EscrowedOrCompleted(c) \/ TopUp(c)
             \/ CardsArrive(c) \/ TaskNotFound(c) \/ GoCheckout(c) \/ FailureShown(c)
      PROVE  HireInv'
  BY <1>4, StepCallBegins, StepCallFollows, StepCallEnds
<1>5. ASSUME NEW c \in HireCalls,
             \/ ServePage(c) \/ WalletIsShort(c) \/ CallFails(c)
             \/ CheckAccept(c) \/ TakeApplication(c) \/ RejectOthers(c)
             \/ ExecuteAcceptApp(c) \/ ServeEscrow(c) \/ ServeDelete(c) \/ ServeComplete(c)
      PROVE  HireInv'
  BY <1>5, StepAnswered, StepTakeApplication, StepExecuteAcceptApp, StepServeEscrow
<1>6. CASE UNCHANGED hireVars
  BY <1>6, StepDialogs DEF hireVars
<1> QED
  BY <1>1, <1>2, <1>3, <1>4, <1>5, <1>6 DEF HireNext

(* Whatever applications, dialogs, failures and late answers come between  *)
(* the dialog and the payment, the escrow holds what the requester agreed  *)
(* to for an applicant who is accepted; or the proposal of one accepted    *)
(* and not paid before this page was opened, whom the server charges       *)
(* instead; unless the task was given another price meanwhile.             *)
THEOREM ChargedIsAgreedHolds == HireSpec => []ChargedIsAgreed
<1>1. HireInv => ChargedIsAgreed
  BY DEF HireInv
<1> QED
  BY <1>1, InitHireInv, StepHireInv, PTL DEF HireSpec

-----------------------------------------------------------------------------
(* The types of the page of a task: what the server holds, what the page   *)
(* shows, and amounts, which are prices; the rest are in HireInv.          *)
TaskTypes ==
    /\ status \in TaskStatus /\ price \in Prices /\ held \in Prices \cup {0}
    /\ offer \in [Applicants -> Offers]
    /\ mine \in BOOLEAN /\ mayHire \in BOOLEAN /\ applied \in BOOLEAN /\ repriced \in BOOLEAN

ShownTypes ==
    /\ detail \in [status: TaskStatus, price: Prices] \cup {NotLoaded}
    /\ cards \in [Applicants -> Verdicts]
    /\ dialog \in {"none", "delete", "escrow"}
    /\ detailMap \in {"none", "coming", "shown"}
    /\ detailAt \in {"page", "apply", "edit", "marketplace", "checkout", "elsewhere"}

AmountTypes == amount \in Prices \cup {0} /\ agreed \in [Applicants -> Prices \cup {0}]

HireTyped == HireInv /\ TaskTypes /\ ShownTypes /\ AmountTypes

LEMMA HireTypedIsTyped == HireTyped => HireTypeOK
  BY DEF HireTyped, HireInv, HireTypes, PageTypes, TaskTypes, ShownTypes, AmountTypes, HireTypeOK

LEMMA InitHireTyped == HireInit => HireTyped
<1> SUFFICES ASSUME HireInit PROVE HireTyped
  OBVIOUS
<1>1. TaskTypes
  BY DEF HireInit, TaskTypes, TaskStatus
<1>2. ShownTypes
  BY DEF HireInit, ShownTypes, NoCards, Verdicts
<1>3. AmountTypes
  BY DEF HireInit, AmountTypes
<1> QED
  BY <1>1, <1>2, <1>3, InitHireInv DEF HireTyped

(* What the escrow is charged, and what the dialog asks for, is a price.   *)
LEMMA ChargeIsPrice == ASSUME HireTyped PROVE Charges \subseteq Prices
  BY PricesAssumption DEF HireTyped, TaskTypes, Charges, Proposed

LEMMA AmountIsPrice ==
    ASSUME HireTyped, NEW a \in Applicants, detail # NotLoaded
    PROVE  AmountOf(a) \in Prices
<1>1. offer[a] \in Prices \cup {0}
  BY PricesAssumption DEF HireTyped, TaskTypes
<1>2. detail.price \in Prices
  BY DEF HireTyped, ShownTypes
<1> QED
  BY <1>1, <1>2 DEF AmountOf

LEMMA StepTaskTypes == ASSUME HireTyped, [HireNext]_hireVars PROVE TaskTypes'
<1> USE DEF HireTyped, TaskTypes, serverVars, userVars, detailVars, ghostVars
<1>1. ASSUME NEW a \in Applicants, Apply(a) \/ AcceptApp(a) PROVE TaskTypes'
  BY <1>1 DEF Apply, AcceptApp
<1>2. ASSUME NEW p \in Prices, EditTask(p) PROVE TaskTypes'
  BY <1>2 DEF EditTask
<1>3. ASSUME NEW c \in HireCalls, ServeEscrow(c) PROVE TaskTypes'
  BY <1>3, ChargeIsPrice DEF ServeEscrow, TaskStatus
<1>4. ASSUME NEW c \in HireCalls, ServeDelete(c) \/ ServeComplete(c) PROVE TaskTypes'
  BY <1>4 DEF ServeDelete, ServeComplete, TaskStatus
<1>5. ASSUME NEW c \in HireCalls,
             \/ ServePage(c) \/ CheckAccept(c) \/ TakeApplication(c) \/ RejectOthers(c) \/ WalletIsShort(c) \/ CallFails(c)
             \/ DeleteTask(c) \/ ExecuteAcceptApp(c) \/ CompleteTask(c)
      PROVE  TaskTypes'
  BY <1>5 DEF ServePage, CheckAccept, TakeApplication, RejectOthers, WalletIsShort, CallFails, DeleteTask, ExecuteAcceptApp, CompleteTask
<1>6. ASSUME NEW c \in HireCalls,
             \/ TaskArrives(c) \/ CardsArrive(c) \/ TaskNotFound(c) \/ Accepted(c)
             \/ EscrowedOrCompleted(c) \/ TopUp(c) \/ GoCheckout(c) \/ FailureShown(c)
      PROVE  TaskTypes'
  BY <1>6 DEF TaskArrives, CardsArrive, TaskNotFound, Accepted, EscrowedOrCompleted, TopUp, GoCheckout,
              FailureShown
<1>7. CASE \/ ConfirmDelete \/ CloseDialog \/ NavigateToApply \/ GoEdit \/ GoAway
           \/ DetailMapShown \/ DetailMapRemoved \/ UNCHANGED hireVars
  BY <1>7 DEF ConfirmDelete, CloseDialog, NavigateToApply, GoEdit, GoAway, GoTo, DetailMapShown,
              DetailMapRemoved, hireVars
<1> QED
  BY <1>1, <1>2, <1>3, <1>4, <1>5, <1>6, <1>7 DEF HireNext

LEMMA StepShownTypes == ASSUME HireTyped, [HireNext]_hireVars PROVE ShownTypes'
<1> USE DEF HireTyped, ShownTypes, userVars, detailVars
<1>1. ASSUME NEW a \in Applicants, Apply(a) \/ AcceptApp(a) PROVE ShownTypes'
  BY <1>1 DEF Apply, AcceptApp
<1>2. ASSUME NEW p \in Prices, EditTask(p) PROVE ShownTypes'
  BY <1>2 DEF EditTask
<1>3. ASSUME NEW c \in HireCalls,
             \/ ServePage(c) \/ CheckAccept(c) \/ TakeApplication(c) \/ RejectOthers(c) \/ ServeEscrow(c) \/ WalletIsShort(c)
             \/ ServeDelete(c) \/ ServeComplete(c) \/ CallFails(c) \/ CompleteTask(c)
             \/ Accepted(c) \/ EscrowedOrCompleted(c) \/ TopUp(c) \/ FailureShown(c)
      PROVE  ShownTypes'
  <2>1. UNCHANGED detailVars
    BY <1>3 DEF ServePage, CheckAccept, TakeApplication, RejectOthers, ServeEscrow, WalletIsShort, ServeDelete, ServeComplete,
                CallFails, CompleteTask, Accepted, EscrowedOrCompleted, TopUp, FailureShown
  <2> QED
    BY <2>1
<1>4. ASSUME NEW c \in HireCalls, DeleteTask(c) \/ ExecuteAcceptApp(c) PROVE ShownTypes'
  BY <1>4 DEF DeleteTask, ExecuteAcceptApp
<1>5. ASSUME NEW c \in HireCalls, TaskArrives(c) PROVE ShownTypes'
  BY <1>5 DEF TaskArrives, TaskTypes
<1>6. ASSUME NEW c \in HireCalls, CardsArrive(c) PROVE ShownTypes'
  BY <1>6 DEF CardsArrive, HireInv, HireTypes
<1>7. ASSUME NEW c \in HireCalls, TaskNotFound(c) \/ GoCheckout(c) PROVE ShownTypes'
  BY <1>7 DEF TaskNotFound, GoCheckout
<1>8. CASE \/ ConfirmDelete \/ CloseDialog \/ NavigateToApply \/ GoEdit \/ GoAway
           \/ DetailMapShown \/ DetailMapRemoved \/ UNCHANGED hireVars
  BY <1>8 DEF ConfirmDelete, CloseDialog, NavigateToApply, GoEdit, GoAway, GoTo, DetailMapShown,
              DetailMapRemoved, hireVars
<1> QED
  BY <1>1, <1>2, <1>3, <1>4, <1>5, <1>6, <1>7, <1>8 DEF HireNext

LEMMA StepAmountTypes == ASSUME HireTyped, [HireNext]_hireVars PROVE AmountTypes'
<1> USE DEF HireTyped, AmountTypes, userVars, detailVars, ghostVars
<1>1. ASSUME NEW a \in Applicants, AcceptApp(a) PROVE AmountTypes'
  <2>1. detail # NotLoaded
    BY <1>1 DEF AcceptApp, AcceptButton, OwnerButtons, Open, OnPage
  <2> QED
    BY <1>1, <2>1, AmountIsPrice DEF AcceptApp
<1>2. ASSUME NEW c \in HireCalls, ExecuteAcceptApp(c) PROVE AmountTypes'
  BY <1>2 DEF ExecuteAcceptApp
<1>7. ASSUME NEW a \in Applicants, Apply(a) PROVE AmountTypes'
  BY <1>7 DEF Apply
<1>3. ASSUME NEW p \in Prices, EditTask(p) PROVE AmountTypes'
  BY <1>3 DEF EditTask
<1>4. ASSUME NEW c \in HireCalls,
             \/ ServePage(c) \/ CheckAccept(c) \/ TakeApplication(c) \/ RejectOthers(c) \/ ServeEscrow(c) \/ WalletIsShort(c)
             \/ ServeDelete(c) \/ ServeComplete(c) \/ CallFails(c) \/ DeleteTask(c) \/ CompleteTask(c)
      PROVE  AmountTypes'
  <2>1. UNCHANGED <<amount, agreed>>
    BY <1>4 DEF ServePage, CheckAccept, TakeApplication, RejectOthers, ServeEscrow, WalletIsShort, ServeDelete, ServeComplete,
                CallFails, CompleteTask, DeleteTask
  <2> QED
    BY <2>1
<1>5. ASSUME NEW c \in HireCalls,
             \/ TaskArrives(c) \/ CardsArrive(c) \/ TaskNotFound(c) \/ Accepted(c)
             \/ EscrowedOrCompleted(c) \/ TopUp(c) \/ GoCheckout(c) \/ FailureShown(c)
      PROVE  AmountTypes'
  <2>1. UNCHANGED <<amount, agreed>>
    BY <1>5 DEF TaskArrives, CardsArrive, TaskNotFound, Accepted, EscrowedOrCompleted, TopUp, GoCheckout,
                FailureShown
  <2> QED
    BY <2>1
<1>6. CASE \/ ConfirmDelete \/ CloseDialog \/ NavigateToApply \/ GoEdit \/ GoAway
           \/ DetailMapShown \/ DetailMapRemoved \/ UNCHANGED hireVars
  BY <1>6 DEF ConfirmDelete, CloseDialog, NavigateToApply, GoEdit, GoAway, GoTo, DetailMapShown,
              DetailMapRemoved, hireVars
<1> QED
  BY <1>1, <1>2, <1>3, <1>4, <1>5, <1>6, <1>7 DEF HireNext

LEMMA StepHireTyped == HireTyped /\ [HireNext]_hireVars => HireTyped'
<1> SUFFICES ASSUME HireTyped, [HireNext]_hireVars PROVE HireTyped'
  OBVIOUS
<1>1. HireInv'
  BY StepHireInv DEF HireTyped
<1> QED
  BY <1>1, StepTaskTypes, StepShownTypes, StepAmountTypes DEF HireTyped

-----------------------------------------------------------------------------
(* The checkout page.                                                      *)

(* The page has said that the payment arrived, or is about to.             *)
SaysPaid == phase \in {"explosion", "confirmed"} \/ bursts > 0

(* The countdown does not run then; and as long as the order stays as it   *)
(* was settled, what requests were answered is what the order still is.    *)
PaidInv ==
    /\ SaysPaid => ~counting
    /\ ~rewritten =>
          /\ SaysPaid => order = "success"
          /\ \A p \in Polls : polls[p] = "success" => order = "success"
          /\ \A p \in Polls : polls[p] = "cancelled" => order = "cancelled"
    /\ polls \in [Polls -> {"none", "asked"} \cup OrderStatus] /\ order \in OrderStatus

LEMMA InitPaidInv == CheckoutInit => PaidInv
  BY DEF CheckoutInit, PaidInv, SaysPaid

(* What a settled order needs: nothing relies on its being pending.        *)
LEMMA StepSettle == ASSUME PaidInv, NEW s \in OrderStatus, SettleOrder(s) PROVE PaidInv'
<1>1. ~rewritten' => ~rewritten /\ order = "pending"
  BY DEF SettleOrder
<1> QED
  BY <1>1 DEF PaidInv, SaysPaid, SettleOrder, shownVars, timerVars

LEMMA StepPolls ==
    ASSUME PaidInv, NEW p \in Polls,
           Poll(p) \/ AnswerPoll(p) \/ LosePoll(p) \/ StillPending(p)
    PROVE  PaidInv'
<1>1. PICK a \in {"none", "asked", order} : polls' = [polls EXCEPT ![p] = a]
  BY DEF Poll, AnswerPoll, LosePoll, StillPending
<1>2. UNCHANGED <<order, phase, counting, bursts, rewritten>>
  BY DEF Poll, AnswerPoll, LosePoll, StillPending, shownVars, timerVars
<1>3. polls' \in [Polls -> {"none", "asked"} \cup OrderStatus]
  BY <1>1 DEF PaidInv
<1>4. ASSUME NEW q \in Polls
      PROVE  polls'[q] = polls[q] \/ polls'[q] \in {"none", "asked", order}
  BY <1>1 DEF PaidInv
<1> QED
  BY <1>2, <1>3, <1>4 DEF PaidInv, SaysPaid

LEMMA StepPaidInv == PaidInv /\ [CheckoutNext]_checkoutVars => PaidInv'
<1> SUFFICES ASSUME PaidInv, [CheckoutNext]_checkoutVars PROVE PaidInv'
  OBVIOUS
<1> USE DEF PaidInv, SaysPaid, shownVars, timerVars
<1>1. ASSUME NEW s \in OrderStatus, SettleOrder(s) PROVE PaidInv'
  BY <1>1, StepSettle
<1>2. ASSUME NEW p \in Polls, Poll(p) \/ AnswerPoll(p) \/ LosePoll(p) \/ StillPending(p)
      PROVE  PaidInv'
  BY <1>2, StepPolls
<1>3. ASSUME NEW p \in Polls, PaymentSucceeded(p) PROVE PaidInv'
  BY <1>3 DEF PaymentSucceeded, StopWaiting
<1>4. ASSUME NEW p \in Polls, PaymentCancelled(p) PROVE PaidInv'
  BY <1>4 DEF PaymentCancelled
<1>5. CASE CountDown
  BY <1>5 DEF CountDown
<1>6. CASE BurstOver
  BY <1>6 DEF BurstOver
<1>7. CASE CountRedirect
  BY <1>7 DEF CountRedirect
<1>8. CASE Redirect
  BY <1>8 DEF Redirect
<1>9. ASSUME NEW to \in {"returned", "wallet", "elsewhere"}, Leave(to) PROVE PaidInv'
  BY <1>9 DEF Leave
<1>10. CASE UNCHANGED checkoutVars
  BY <1>10 DEF checkoutVars
<1> QED
  BY <1>1, <1>2, <1>3, <1>4, <1>5, <1>6, <1>7, <1>8, <1>9, <1>10 DEF CheckoutNext

(* Only the countdown and a cancelled answer make the page expire.         *)
LEMMA PaidDoesNotExpire ==
    PaidInv /\ [CheckoutNext]_checkoutVars =>
        [(phase \in {"explosion", "confirmed"} /\ ~rewritten) =>
              phase' # "expired"]_checkoutVars
<1> SUFFICES ASSUME PaidInv, CheckoutNext, phase \in {"explosion", "confirmed"}, ~rewritten
             PROVE  phase' # "expired"
  BY DEF checkoutVars, shownVars
<1>1. ~CountDown
  BY DEF PaidInv, SaysPaid, CountDown
<1>2. ASSUME NEW p \in Polls, PaymentCancelled(p) PROVE FALSE
  BY <1>2 DEF PaidInv, SaysPaid, PaymentCancelled
<1>3. ASSUME NEW s \in OrderStatus, SettleOrder(s) PROVE phase' # "expired"
  BY <1>3 DEF SettleOrder, shownVars
<1>4. ASSUME NEW p \in Polls, Poll(p) \/ AnswerPoll(p) \/ LosePoll(p) \/ StillPending(p)
      PROVE  phase' # "expired"
  BY <1>4 DEF Poll, AnswerPoll, LosePoll, StillPending, shownVars
<1>5. ASSUME NEW p \in Polls, PaymentSucceeded(p) PROVE phase' # "expired"
  BY <1>5 DEF PaymentSucceeded
<1>6. CASE BurstOver \/ CountRedirect \/ Redirect
  BY <1>6 DEF BurstOver, CountRedirect, Redirect, shownVars
<1>7. ASSUME NEW to \in {"returned", "wallet", "elsewhere"}, Leave(to)
      PROVE  phase' # "expired"
  BY <1>7 DEF Leave, shownVars
<1> QED
  BY <1>1, <1>2, <1>3, <1>4, <1>5, <1>6, <1>7 DEF CheckoutNext

(* A page that said that the payment arrived never says that it expired,   *)
(* whatever order the countdown and the answers come in, as long as the    *)
(* order itself is not settled a second time.                              *)
THEOREM PaidStaysPaidHolds == CheckoutSpec => PaidStaysPaid
  BY InitPaidInv, StepPaidInv, PaidDoesNotExpire, PTL DEF CheckoutSpec, PaidStaysPaid
-----------------------------------------------------------------------------
(* The types of the checkout page. A countdown that has a handle runs, so  *)
(* clearing it leaves no fewer than none.                                  *)
CountTypes ==
    /\ secondsLeft \in 1..MaxSeconds /\ redirectSeconds \in 1..MaxRedirect
    /\ bursts \in Nat /\ redirects \in Nat
    /\ handle \in BOOLEAN /\ (handle => redirects > 0)

OrderTypes ==
    /\ order \in OrderStatus /\ polls \in [Polls -> {"none", "asked"} \cup OrderStatus]
    /\ phase \in {"pending", "explosion", "confirmed", "expired"}
    /\ counting \in BOOLEAN /\ polling \in BOOLEAN /\ rewritten \in BOOLEAN
    /\ checkoutAt \in {"checkout", "returned", "wallet", "elsewhere"}

CheckoutTyped == CountTypes /\ OrderTypes

LEMMA CheckoutTypedIsTyped == CheckoutTyped => CheckoutTypeOK
  BY DEF CheckoutTyped, CountTypes, OrderTypes, CheckoutTypeOK

LEMMA InitCheckoutTyped == CheckoutInit => CheckoutTyped
<1> SUFFICES ASSUME CheckoutInit PROVE CheckoutTyped
  OBVIOUS
<1>1. CountTypes
  <2>1. secondsLeft \in 1..MaxSeconds /\ redirectSeconds \in 1..MaxRedirect
    BY CountdownAssumption DEF CheckoutInit
  <2> QED
    BY <2>1 DEF CheckoutInit, CountTypes
<1>2. counting \in BOOLEAN /\ polling \in BOOLEAN
  BY Zenon DEF CheckoutInit
<1>3. OrderTypes
  BY <1>2 DEF CheckoutInit, OrderTypes
<1> QED
  BY <1>1, <1>3 DEF CheckoutTyped

LEMMA StepCountTypes == ASSUME CountTypes, [CheckoutNext]_checkoutVars PROVE CountTypes'
<1> USE DEF CountTypes, shownVars, timerVars
<1>1. ASSUME NEW p \in Polls, PaymentSucceeded(p) PROVE CountTypes'
  <2>1. UNCHANGED <<secondsLeft, redirectSeconds>>
    BY <1>1 DEF PaymentSucceeded
  <2>2. CASE StartRedirect /\ UNCHANGED bursts
    BY <2>1, <2>2 DEF StartRedirect
  <2>3. CASE bursts' = bursts + 1 /\ UNCHANGED <<redirects, handle>>
    BY <2>1, <2>3
  <2> QED
    BY <1>1, <2>2, <2>3 DEF PaymentSucceeded
<1>2. CASE CountDown
  BY <1>2, CountdownAssumption DEF CountDown, TimeLeft
<1>3. CASE BurstOver
  BY <1>3 DEF BurstOver, StartRedirect
<1>4. CASE CountRedirect
  BY <1>4, CountdownAssumption DEF CountRedirect
<1>5. ASSUME ClearRedirect, UNCHANGED shownVars, UNCHANGED bursts PROVE CountTypes'
  <2>1. redirects' \in Nat
    BY <1>5 DEF ClearRedirect
  <2> QED
    BY <1>5, <2>1 DEF ClearRedirect
<1>6. CASE Redirect \/ \E to \in {"returned", "wallet", "elsewhere"} : Leave(to)
  BY <1>5, <1>6 DEF Redirect, Leave
<1>7. ASSUME NEW p \in Polls,
             Poll(p) \/ AnswerPoll(p) \/ LosePoll(p) \/ StillPending(p) \/ PaymentCancelled(p)
      PROVE  CountTypes'
  BY <1>7 DEF Poll, AnswerPoll, LosePoll, StillPending, PaymentCancelled
<1>8. CASE UNCHANGED checkoutVars
  BY <1>8 DEF checkoutVars
<1>9. ASSUME NEW s \in OrderStatus, SettleOrder(s) PROVE CountTypes'
  BY <1>9 DEF SettleOrder
<1> QED
  BY <1>1, <1>2, <1>3, <1>4, <1>6, <1>7, <1>8, <1>9 DEF CheckoutNext

LEMMA StepOrderTypes == ASSUME OrderTypes, [CheckoutNext]_checkoutVars PROVE OrderTypes'
<1> USE DEF OrderTypes, shownVars, timerVars
<1>1. ASSUME NEW s \in OrderStatus, SettleOrder(s) PROVE OrderTypes'
  <2>1. rewritten' = TRUE \/ rewritten' = FALSE
    BY <1>1, Zenon DEF SettleOrder
  <2> QED
    BY <1>1, <2>1 DEF SettleOrder
<1>2. ASSUME NEW p \in Polls, NEW a \in {"none", "asked", order}, polls' = [polls EXCEPT ![p] = a]
      PROVE  polls' \in [Polls -> {"none", "asked"} \cup OrderStatus]
  BY <1>2
<1>3. ASSUME NEW p \in Polls, Poll(p) \/ AnswerPoll(p) \/ LosePoll(p) \/ StillPending(p)
      PROVE  OrderTypes'
  <2>1. PICK a \in {"none", "asked", order} : polls' = [polls EXCEPT ![p] = a]
    BY <1>3 DEF Poll, AnswerPoll, LosePoll, StillPending
  <2> QED
    BY <1>2, <1>3, <2>1 DEF Poll, AnswerPoll, LosePoll, StillPending
<1>4. ASSUME NEW p \in Polls, PaymentSucceeded(p) \/ PaymentCancelled(p) PROVE OrderTypes'
  <2>1. polls' = [polls EXCEPT ![p] = "none"]
    BY <1>4 DEF PaymentSucceeded, PaymentCancelled
  <2> QED
    BY <1>2, <1>4, <2>1 DEF PaymentSucceeded, PaymentCancelled, StopWaiting
<1>5. CASE CountDown \/ BurstOver \/ CountRedirect \/ Redirect
           \/ \E to \in {"returned", "wallet", "elsewhere"} : Leave(to)
  BY <1>5 DEF CountDown, BurstOver, CountRedirect, Redirect, Leave
<1>6. CASE UNCHANGED checkoutVars
  BY <1>6 DEF checkoutVars
<1> QED
  BY <1>1, <1>3, <1>4, <1>5, <1>6 DEF CheckoutNext

LEMMA StepCheckoutTyped == CheckoutTyped /\ [CheckoutNext]_checkoutVars => CheckoutTyped'
  BY StepCountTypes, StepOrderTypes DEF CheckoutTyped

-----------------------------------------------------------------------------
(* The forms: what a press of the submit button may still lead to.         *)

IsPending(call) ==
    call.op = "profile" \/ (call.op = "submit" /\ call.got \in {"none", "gated"})

Pending(sent) == {c \in FormCalls : IsPending(sent[c])}

(* A press is spent once: it is a submission that is not posted yet, a     *)
(* profile that is being saved for it, or an open drawer that is not       *)
(* saving.                                                                 *)
DrawerWaits == IF gate /\ ~gateSaving THEN 1 ELSE 0

PressesCover ==
    /\ IsFiniteSet(Pending(formCalls))
    /\ savedTwice \/ posted + Cardinality(Pending(formCalls)) + DrawerWaits <= presses

FormInv == FormsTypeOK /\ PressesCover

(* One call changes, to x.                                                 *)
Changes(c, x) == formCalls' = [formCalls EXCEPT ![c] = x]

Share(call) == IF IsPending(call) THEN 1 ELSE 0

LEMMA PendingCount ==
    ASSUME FormsTypeOK, IsFiniteSet(Pending(formCalls)), NEW c \in FormCalls, NEW x,
           Changes(c, x)
    PROVE  /\ IsFiniteSet(Pending(formCalls)') /\ Cardinality(Pending(formCalls)) \in Nat
           /\ Cardinality(Pending(formCalls)')
                = Cardinality(Pending(formCalls)) + Share(x) - Share(formCalls[c])
<1>1. formCalls'[c] = x /\ \A d \in FormCalls : d # c => formCalls'[d] = formCalls[d]
  BY DEF Changes, FormsTypeOK
<1>2. PICK P, Q : P = Pending(formCalls) /\ Q = Pending(formCalls)'
  OBVIOUS
<1>3. IsFiniteSet(P)
  BY <1>2
<1>4. /\ c \in P <=> IsPending(formCalls[c])
      /\ c \in Q <=> IsPending(x)
      /\ \A d : d # c => (d \in Q <=> d \in P)
  BY <1>1, <1>2 DEF Pending
<1>5. Cardinality(P) \in Nat
  BY <1>3, FS_CardinalityType
<1>6. CASE IsPending(x)
  <2>1. Q = P \cup {c}
    BY <1>4, <1>6
  <2>2. /\ IsFiniteSet(Q)
        /\ Cardinality(Q) = IF c \in P THEN Cardinality(P) ELSE Cardinality(P) + 1
    BY <1>3, <2>1, FS_AddElement
  <2> QED
    BY <1>2, <1>4, <1>5, <1>6, <2>2 DEF Share
<1>7. CASE ~IsPending(x)
  <2>1. Q = P \ {c}
    BY <1>4, <1>7
  <2>2. /\ IsFiniteSet(Q)
        /\ Cardinality(Q) = IF c \in P THEN Cardinality(P) - 1 ELSE Cardinality(P)
    BY <1>3, <2>1, FS_RemoveElement
  <2> QED
    BY <1>2, <1>4, <1>5, <1>7, <2>2 DEF Share
<1> QED
  BY <1>6, <1>7

(* What the change of one call costs.                                      *)
LEMMA CallChanges ==
    ASSUME FormInv, NEW c \in FormCalls, NEW x, Changes(c, x), FormsTypeOK',
           savedTwice => savedTwice',
           savedTwice' \/ posted' + Share(x) + DrawerWaits' + presses
                             <= posted + Share(formCalls[c]) + DrawerWaits + presses'
    PROVE  FormInv'
<1>1. PICK n, m : n = Cardinality(Pending(formCalls)) /\ m = Cardinality(Pending(formCalls)')
  OBVIOUS
<1>2. n \in Nat /\ m = n + Share(x) - Share(formCalls[c]) /\ IsFiniteSet(Pending(formCalls)')
  BY <1>1, PendingCount DEF FormInv, PressesCover
<1>3. savedTwice \/ posted + n + DrawerWaits <= presses
  BY <1>1 DEF FormInv, PressesCover
<1>4. /\ {posted, presses, posted', presses'} \subseteq Nat
      /\ {Share(x), Share(formCalls[c]), DrawerWaits, DrawerWaits'} \subseteq {0, 1}
  BY MaxPressesAssumption DEF FormInv, FormsTypeOK, Share, DrawerWaits
<1>5. savedTwice' \/ posted' + m + DrawerWaits' <= presses'
  BY <1>2, <1>3, <1>4
<1> QED
  BY <1>1, <1>2, <1>5 DEF FormInv, PressesCover

LEMMA NoCallChanges ==
    ASSUME FormInv, UNCHANGED <<formCalls, posted, savedTwice>>, FormsTypeOK',
           DrawerWaits' + presses <= DrawerWaits + presses'
    PROVE  FormInv'
<1>1. PICK n : n = Cardinality(Pending(formCalls)) /\ n = Cardinality(Pending(formCalls)')
  BY DEF Pending
<1>2. n \in Nat /\ IsFiniteSet(Pending(formCalls)')
  BY <1>1, FS_CardinalityType DEF FormInv, PressesCover, Pending
<1>3. savedTwice \/ posted + n + DrawerWaits <= presses
  BY <1>1 DEF FormInv, PressesCover
<1>4. {posted, presses, presses'} \subseteq Nat /\ {DrawerWaits, DrawerWaits'} \subseteq {0, 1}
  BY MaxPressesAssumption DEF FormInv, FormsTypeOK, DrawerWaits
<1>5. savedTwice' \/ posted' + n + DrawerWaits' <= presses'
  BY <1>2, <1>3, <1>4
<1> QED
  BY <1>1, <1>2, <1>5 DEF FormInv, PressesCover

LEMMA InitForms == FormInit => FormInv
<1> SUFFICES ASSUME FormInit PROVE FormInv
  OBVIOUS
<1>1. /\ formCalls \in [FormCalls -> FormCall]
      /\ \A c \in FormCalls : formCalls[c].op \in {"none", "balance", "load"}
  <2> DEFINE c == CHOOSE e \in FormCalls : TRUE
             d == CHOOSE e \in FormCalls : e # c
  <2>1. formCalls = [e \in FormCalls |->
                       IF e = c /\ kind # "apply" THEN [op |-> "balance", got |-> "none"]
                       ELSE IF e = d /\ kind # "create" THEN [op |-> "load", got |-> "none"]
                       ELSE Idle]
    BY DEF FormInit
  <2> HIDE DEF c, d
  <2>2. ASSUME NEW e \in FormCalls
        PROVE  formCalls[e] \in {[op |-> "balance", got |-> "none"],
                                 [op |-> "load", got |-> "none"], Idle}
    BY <2>1
  <2>3. ASSUME NEW e \in FormCalls
        PROVE  formCalls[e] \in FormCall /\ formCalls[e].op \in {"none", "balance", "load"}
    BY <2>2 DEF FormCall, Idle
  <2>4. formCalls = [e \in FormCalls |-> formCalls[e]]
    BY <2>1
  <2> QED
    BY ONLY <2>3, <2>4
<1>2. FormsTypeOK
  <2>1. complete \in BOOLEAN /\ formLoading \in BOOLEAN
    <3>1. complete \in BOOLEAN /\ formLoading = (kind # "create")
      BY DEF FormInit
    <3>2. formLoading = TRUE \/ formLoading = FALSE
      BY <3>1, Zenon
    <3>3. formLoading \in BOOLEAN
      BY <3>2
    <3> QED
      BY <3>1, <3>3
  <2>2. balance \in {"loading", "known", "unknown"}
    BY DEF FormInit
  <2>3. presses \in 0..MaxPresses /\ posted \in Nat
    <3>1. presses = 0 /\ posted = 0
      BY DEF FormInit
    <3> QED
      BY <3>1, MaxPressesAssumption
  <2>4. /\ ready = FALSE /\ touched = FALSE /\ saving = FALSE /\ gate = FALSE
        /\ gateSaving = FALSE /\ filled = FALSE /\ savedTwice = FALSE
        /\ formAt = "form" /\ going = "none" /\ kind \in {"create", "edit", "apply"}
    BY DEF FormInit
  <2> QED
    BY <1>1, <2>1, <2>2, <2>3, <2>4 DEF FormsTypeOK
<1>3. Pending(formCalls) = {}
  BY <1>1 DEF Pending, IsPending
<1>4. IsFiniteSet(Pending(formCalls)) /\ Cardinality(Pending(formCalls)) = 0
  BY <1>3, FS_EmptySet
<1>5. posted = 0 /\ presses = 0 /\ DrawerWaits = 0
  BY DEF FormInit, DrawerWaits
<1> QED
  BY <1>2, <1>4, <1>5 DEF FormInv, PressesCover

FormServes(c) == ServeSubmit(c) \/ ServeGate(c) \/ ServeProfile(c) \/ ServeFormRead(c)
FormAnswers(c) ==
    \/ TaskLoaded(c) \/ TargetLoaded(c) \/ NoSuchTask(c) \/ BalanceArrives(c)
    \/ Posted(c) \/ Applied(c) \/ Gated(c) \/ NotPosted(c)
    \/ GateProfileSaved(c) \/ GateProfileNotSaved(c)

LEMMA ReplyIsChange ==
    ASSUME FormsTypeOK, NEW c \in FormCalls, formCalls[c].op # "none",
           NEW got \in {"none", "ok", "gated", "failed"}, Reply(c, got)
    PROVE  \E x \in FormCall :
              /\ Changes(c, x) /\ formCalls' \in [FormCalls -> FormCall]
              /\ x = [op |-> formCalls[c].op, got |-> got]
<1>1. PICK y : y = formCalls[c] /\ y \in FormCall
  BY DEF FormsTypeOK
<1>2. y.op \in {"load", "balance", "submit", "profile"}
  BY <1>1 DEF FormCall, Idle
<1>3. PICK x : x = [op |-> y.op, got |-> got]
  OBVIOUS
<1>4. x \in FormCall
  BY <1>2, <1>3 DEF FormCall
<1>5. [y EXCEPT !.got = got] = x
  BY <1>1, <1>2, <1>3 DEF FormCall, Idle
<1>6. Changes(c, x)
  BY <1>1, <1>5 DEF Changes, Reply
<1>7. formCalls' \in [FormCalls -> FormCall]
  BY <1>4, <1>6 DEF Changes, FormsTypeOK
<1> QED
  BY <1>1, <1>3, <1>4, <1>6, <1>7

LEMMA DoneIsChange ==
    ASSUME FormsTypeOK, NEW c \in FormCalls, Done(c)
    PROVE  Changes(c, Idle) /\ formCalls' \in [FormCalls -> FormCall] /\ Share(Idle) = 0
  BY DEF FormsTypeOK, Done, Changes, FormCall, Idle, Share, IsPending

LEMMA StepFormServes ==
    ASSUME FormInv, NEW c \in FormCalls, FormServes(c) \/ FormCallFails(c)
    PROVE  FormInv'
<1>1. FormsTypeOK
  BY DEF FormInv
<1>2. posted \in Nat /\ presses \in Nat /\ {complete, savedTwice} \subseteq BOOLEAN
  BY <1>1, MaxPressesAssumption DEF FormsTypeOK
<1>3. CASE ServeSubmit(c)
  <2>1. PICK x : /\ Changes(c, x) /\ formCalls' \in [FormCalls -> FormCall]
                 /\ x = [op |-> formCalls[c].op, got |-> "ok"]
    BY <1>1, <1>3, ReplyIsChange DEF ServeSubmit, Came
  <2>2. Share(x) = 0 /\ Share(formCalls[c]) = 1
    BY <1>3, <2>1 DEF ServeSubmit, Came, Share, IsPending
  <2>3. posted' \in {posted, posted + 1}
    BY <1>3 DEF ServeSubmit
  <2>4. UNCHANGED <<complete, formVars, gateVars, countVars>>
    BY <1>3 DEF ServeSubmit
  <2>5. FormsTypeOK'
    BY <1>1, <1>2, <2>1, <2>3, <2>4 DEF FormsTypeOK, formVars, gateVars, countVars
  <2>6. DrawerWaits' = DrawerWaits /\ DrawerWaits \in {0, 1} /\ savedTwice' = savedTwice
    BY <2>4 DEF DrawerWaits, gateVars, countVars
  <2>7. posted' + Share(x) + DrawerWaits' + presses
            <= posted + Share(formCalls[c]) + DrawerWaits + presses'
    <3>1. presses' = presses /\ posted' \in Nat /\ posted' <= posted + 1
      BY <1>2, <2>3, <2>4 DEF countVars
    <3>2. PICK a, b, e, d : a = posted /\ b = posted' /\ e = presses /\ d = DrawerWaits
      OBVIOUS
    <3>3. {a, b, e, d} \subseteq Int /\ b <= a + 1
      BY <1>2, <2>6, <3>1, <3>2
    <3>4. b + 0 + d + e <= a + 1 + d + e
      BY <3>3
    <3> QED
      BY <2>2, <2>6, <3>1, <3>2, <3>4
  <2> QED
    BY <2>1, <2>5, <2>6, <2>7, CallChanges
<1>4. ASSUME NEW got \in {"ok", "gated", "failed"}, Reply(c, got), formCalls[c].op # "none",
             UNCHANGED <<posted, formVars, gateVars, countVars>>, complete' \in BOOLEAN,
             got = "gated" => Came(c, "submit", "none"),
             got = "ok" => formCalls[c].op # "submit"
      PROVE  FormInv'
  <2>1. PICK x : /\ Changes(c, x) /\ formCalls' \in [FormCalls -> FormCall]
                 /\ x = [op |-> formCalls[c].op, got |-> got]
    BY <1>1, <1>4, ReplyIsChange
  <2>2. Share(x) <= Share(formCalls[c]) /\ {Share(x), Share(formCalls[c])} \subseteq {0, 1}
    BY <1>4, <2>1 DEF Came, Share, IsPending
  <2>3. FormsTypeOK'
    BY <1>1, <1>2, <1>4, <2>1 DEF FormsTypeOK, formVars, gateVars, countVars
  <2>4. DrawerWaits' = DrawerWaits /\ DrawerWaits \in {0, 1} /\ savedTwice' = savedTwice
    BY <1>4 DEF DrawerWaits, gateVars, countVars
  <2>5. posted' + Share(x) + DrawerWaits' + presses
            <= posted + Share(formCalls[c]) + DrawerWaits + presses'
    BY <1>2, <1>4, <2>2, <2>4 DEF countVars
  <2> QED
    BY <2>1, <2>3, <2>4, <2>5, CallChanges
<1>5. CASE ServeGate(c)
  BY <1>2, <1>4, <1>5 DEF ServeGate, Came
<1>6. CASE ServeProfile(c)
  BY <1>2, <1>4, <1>6 DEF ServeProfile, Came
<1>7. CASE ServeFormRead(c)
  BY <1>2, <1>4, <1>7 DEF ServeFormRead
<1>8. CASE FormCallFails(c)
  <2>1. formCalls[c].op # "none"
    BY <1>1, <1>8 DEF FormCallFails, FormsTypeOK, FormCall, Idle
  <2> QED
    BY <1>2, <1>4, <1>8, <2>1 DEF FormCallFails
<1> QED
  BY <1>3, <1>5, <1>6, <1>7, <1>8 DEF FormServes

(* The user: a press counts before its call is made.                       *)
LEMMA StepSubmit ==
    ASSUME FormInv, NEW c \in FormCalls, SubmitTask(c) \/ SubmitApplication(c)
    PROVE  FormInv'
<1>1. FormsTypeOK /\ Submit(c) /\ touched' \in BOOLEAN
  BY DEF FormInv, SubmitTask, SubmitApplication, FormsTypeOK
<1>2. /\ UNCHANGED <<complete, posted, kind, formLoading, balance, ready, formAt, going>>
      /\ UNCHANGED <<gateVars, savedTwice>>
  BY <1>1 DEF Submit
<1>3. posted \in Nat /\ presses \in Nat /\ DrawerWaits' = DrawerWaits /\ DrawerWaits \in {0, 1}
  BY <1>1, <1>2, MaxPressesAssumption DEF FormsTypeOK, DrawerWaits, gateVars
<1>4. CASE ~ready
  <2>1. UNCHANGED <<presses, saving, formCalls>>
    BY <1>1, <1>4 DEF Submit
  <2>2. FormsTypeOK'
    BY <1>1, <1>2, <2>1 DEF FormsTypeOK, gateVars
  <2> QED
    BY <1>2, <1>3, <2>1, <2>2, NoCallChanges
<1>5. CASE ready
  <2>1. PICK x : x = [op |-> "submit", got |-> "none"]
    OBVIOUS
  <2>2. /\ presses < MaxPresses /\ presses' = presses + 1 /\ saving' = TRUE
        /\ Changes(c, x) /\ formCalls[c] = Idle
    BY <1>1, <1>5, <2>1 DEF Submit, Ask, Changes
  <2>3. Share(x) = 1 /\ Share(formCalls[c]) = 0 /\ x \in FormCall
    BY <2>1, <2>2 DEF Share, IsPending, Idle, FormCall
  <2>4. formCalls' \in [FormCalls -> FormCall] /\ presses' \in 0..MaxPresses
    BY <1>1, <2>2, <2>3, MaxPressesAssumption DEF FormsTypeOK, Changes
  <2>5. FormsTypeOK'
    BY <1>1, <1>2, <2>2, <2>4 DEF FormsTypeOK, gateVars
  <2>6. posted' + Share(x) + DrawerWaits' + presses
            <= posted + Share(formCalls[c]) + DrawerWaits + presses'
    BY <1>2, <1>3, <2>2, <2>3
  <2> QED
    BY <1>2, <2>2, <2>5, <2>6, CallChanges
<1> QED
  BY <1>1, <1>4, <1>5 DEF FormsTypeOK

LEMMA StepSubmitProfile ==
    ASSUME FormInv, NEW c \in FormCalls, SubmitProfile(c)
    PROVE  FormInv'
<1>1. FormsTypeOK /\ UNCHANGED <<complete, posted, formVars, gate, filled, presses>>
  BY DEF FormInv, SubmitProfile
<1>2. PICK x : x = [op |-> "profile", got |-> "none"]
  OBVIOUS
<1>3. /\ gate /\ gateSaving' = TRUE /\ savedTwice' = (savedTwice \/ gateSaving)
      /\ Changes(c, x) /\ formCalls[c] = Idle
  BY <1>2 DEF SubmitProfile, Drawer, Ask, Changes
<1>4. Share(x) = 1 /\ Share(formCalls[c]) = 0 /\ x \in FormCall
  BY <1>2, <1>3 DEF Share, IsPending, Idle, FormCall
<1>5. formCalls' \in [FormCalls -> FormCall] /\ savedTwice' \in BOOLEAN
  BY <1>1, <1>3, <1>4 DEF FormsTypeOK, Changes
<1>6. FormsTypeOK'
  BY <1>1, <1>3, <1>5 DEF FormsTypeOK, formVars
<1>7. posted \in Nat /\ presses \in Nat
  BY <1>1, MaxPressesAssumption DEF FormsTypeOK
<1>8. DrawerWaits' = 0 /\ DrawerWaits = IF gateSaving THEN 0 ELSE 1
  BY <1>1, <1>3 DEF DrawerWaits
<1>9. \/ savedTwice'
      \/ posted' + Share(x) + DrawerWaits' + presses
            <= posted + Share(formCalls[c]) + DrawerWaits + presses'
  <2>1. CASE gateSaving
    BY <1>3, <2>1
  <2>2. CASE ~gateSaving
    BY <1>1, <1>4, <1>7, <1>8, <2>2
  <2> QED
    BY <2>1, <2>2
<1> QED
  BY <1>3, <1>6, <1>9, CallChanges

(* The user, and the drawer that is left.                                  *)
LEMMA StepFormUser ==
    ASSUME FormInv,
           FillForm \/ Cancel \/ Arrive \/ FillDrawer \/ Dismiss \/ GoToProfile
    PROVE  FormInv'
<1>1. FormsTypeOK
  BY DEF FormInv
<1>2. UNCHANGED <<formCalls, posted, savedTwice, presses>>
  BY DEF FillForm, Cancel, Arrive, FillDrawer, Dismiss, GoToProfile, countVars
<1>3. FormsTypeOK'
  <2>1. CASE FillForm
    BY <1>1, <1>2, <2>1 DEF FillForm, FormsTypeOK, gateVars
  <2>2. CASE Cancel
    BY <1>1, <1>2, <2>2 DEF Cancel, FormsTypeOK, gateVars
  <2>3. CASE Arrive
    BY <1>1, <1>2, <2>3 DEF Arrive, FormsTypeOK, gateVars
  <2>4. CASE FillDrawer
    BY <1>1, <1>2, <2>4 DEF FillDrawer, FormsTypeOK, formVars
  <2>5. CASE Dismiss
    BY <1>1, <1>2, <2>5 DEF Dismiss, FormsTypeOK, formVars
  <2>6. CASE GoToProfile
    BY <1>1, <1>2, <2>6 DEF GoToProfile, FormsTypeOK
  <2> QED
    BY <2>1, <2>2, <2>3, <2>4, <2>5, <2>6
<1>4. DrawerWaits' <= DrawerWaits /\ {DrawerWaits, DrawerWaits'} \subseteq {0, 1}
  BY DEF FillForm, Cancel, Arrive, FillDrawer, Dismiss, GoToProfile, DrawerWaits, gateVars
<1>5. presses \in Nat
  BY <1>1, MaxPressesAssumption DEF FormsTypeOK
<1>6. DrawerWaits' + presses <= DrawerWaits + presses'
  BY <1>2, <1>4, <1>5
<1> QED
  BY <1>2, <1>3, <1>6, NoCallChanges

(* Answers: what is still to be posted for a press goes from the           *)
(* submission to the drawer, and from there to the next submission.        *)
LEMMA StepFormAnswers ==
    ASSUME FormInv, NEW c \in FormCalls, FormAnswers(c)
    PROVE  FormInv'
<1>1. FormsTypeOK
  BY DEF FormInv
<1>2. posted \in Nat /\ presses \in Nat /\ DrawerWaits \in {0, 1}
  BY <1>1, MaxPressesAssumption DEF FormsTypeOK, DrawerWaits
<1>3. UNCHANGED <<posted, presses, savedTwice>>
  BY DEF FormAnswers, TaskLoaded, TargetLoaded, NoSuchTask, BalanceArrives, Posted,
         Applied, Gated, NotPosted, GateProfileSaved, GateProfileNotSaved, countVars
<1>4. Share(formCalls[c]) \in {0, 1}
  BY DEF Share
<1>5. ASSUME Done(c), FormsTypeOK', DrawerWaits' \in Nat,
             DrawerWaits' <= DrawerWaits + Share(formCalls[c])
      PROVE  FormInv'
  <2>1. Changes(c, Idle) /\ Share(Idle) = 0
    BY <1>1, <1>5, DoneIsChange
  <2>2. posted' + Share(Idle) + DrawerWaits' + presses
            <= posted + Share(formCalls[c]) + DrawerWaits + presses'
    BY <1>2, <1>3, <1>4, <1>5, <2>1
  <2> QED
    BY <1>3, <1>5, <2>1, <2>2, CallChanges
<1>6. ASSUME Done(c) PROVE formCalls' \in [FormCalls -> FormCall]
  BY <1>1, <1>6, DoneIsChange
<1>7. ASSUME UNCHANGED gateVars
      PROVE  DrawerWaits' \in Nat /\ DrawerWaits' <= DrawerWaits + Share(formCalls[c])
  BY <1>2, <1>4, <1>7 DEF DrawerWaits, gateVars
<1>8. CASE TaskLoaded(c) \/ TargetLoaded(c)
  <2>1. Done(c) /\ UNCHANGED gateVars
    BY <1>8 DEF TaskLoaded, TargetLoaded
  <2>2. FormsTypeOK'
    BY <1>1, <1>6, <1>8, <2>1 DEF TaskLoaded, TargetLoaded, FormsTypeOK, gateVars, countVars
  <2> QED
    BY <1>5, <1>7, <2>1, <2>2
<1>9. CASE NoSuchTask(c)
  <2>1. Done(c) /\ UNCHANGED gateVars
    BY <1>9 DEF NoSuchTask
  <2>2. FormsTypeOK'
    BY <1>1, <1>6, <1>9, <2>1 DEF NoSuchTask, FormsTypeOK, gateVars, countVars
  <2> QED
    BY <1>5, <1>7, <2>1, <2>2
<1>10. CASE BalanceArrives(c)
  <2>1. Done(c) /\ UNCHANGED gateVars
    BY <1>10 DEF BalanceArrives
  <2>2. FormsTypeOK'
    BY <1>1, <1>6, <1>10, <2>1 DEF BalanceArrives, FormsTypeOK, gateVars, countVars
  <2> QED
    BY <1>5, <1>7, <2>1, <2>2
<1>11. CASE Posted(c)
  <2>1. Done(c) /\ UNCHANGED gateVars
    BY <1>11 DEF Posted
  <2>2. FormsTypeOK'
    BY <1>1, <1>6, <1>11, <2>1 DEF Posted, FormsTypeOK, gateVars, countVars
  <2> QED
    BY <1>5, <1>7, <2>1, <2>2
<1>12. CASE Applied(c)
  <2>1. Done(c) /\ UNCHANGED gateVars
    BY <1>12 DEF Applied
  <2>2. FormsTypeOK'
    BY <1>1, <1>6, <1>12, <2>1 DEF Applied, FormsTypeOK, gateVars, countVars
  <2> QED
    BY <1>5, <1>7, <2>1, <2>2
<1>13. CASE NotPosted(c)
  <2>1. Done(c) /\ UNCHANGED gateVars
    BY <1>13 DEF NotPosted
  <2>2. FormsTypeOK'
    BY <1>1, <1>6, <1>13, <2>1 DEF NotPosted, FormsTypeOK, gateVars, countVars
  <2> QED
    BY <1>5, <1>7, <2>1, <2>2
<1>14. CASE Gated(c)
  <2>1. Done(c) /\ Share(formCalls[c]) = 1
    BY <1>14 DEF Gated, Came, Share, IsPending
  <2>2. FormsTypeOK'
    BY <1>1, <1>6, <1>14, <2>1 DEF Gated, FormsTypeOK, countVars
  <2>3. DrawerWaits' \in {0, 1}
    BY DEF DrawerWaits
  <2>4. DrawerWaits' \in Nat /\ DrawerWaits' <= DrawerWaits + Share(formCalls[c])
    BY <1>2, <2>1, <2>3
  <2> QED
    BY <1>5, <2>1, <2>2, <2>4
<1>15. CASE GateProfileNotSaved(c)
  <2>1. Done(c) /\ Share(formCalls[c]) = 1
    BY <1>15 DEF GateProfileNotSaved, Came, Share, IsPending
  <2>2. FormsTypeOK'
    BY <1>1, <1>6, <1>15, <2>1 DEF GateProfileNotSaved, FormsTypeOK, formVars, countVars
  <2>3. DrawerWaits' \in {0, 1}
    BY DEF DrawerWaits
  <2>4. DrawerWaits' \in Nat /\ DrawerWaits' <= DrawerWaits + Share(formCalls[c])
    BY <1>2, <2>1, <2>3
  <2> QED
    BY <1>5, <2>1, <2>2, <2>4
<1>16. CASE GateProfileSaved(c)
  <2>1. PICK x : /\ x = IF ready THEN [op |-> "submit", got |-> "none"] ELSE Idle
                 /\ Changes(c, x)
    BY <1>16 DEF GateProfileSaved, Changes
  <2>2. Share(x) \in {0, 1} /\ Share(formCalls[c]) = 1
    BY <1>16 DEF GateProfileSaved, Came, Share, IsPending
  <2>3. x \in FormCall
    BY <2>1 DEF FormCall
  <2>4. DrawerWaits' = 0
    BY <1>16 DEF GateProfileSaved, CloseGate, DrawerWaits
  <2>5. formCalls' \in [FormCalls -> FormCall]
    BY <1>1, <2>1, <2>3 DEF FormsTypeOK, Changes
  <2>6. touched' \in BOOLEAN /\ saving' \in BOOLEAN
    BY <1>16 DEF GateProfileSaved
  <2>7. FormsTypeOK'
    BY <1>1, <1>16, <2>5, <2>6 DEF GateProfileSaved, CloseGate, FormsTypeOK, countVars
  <2>8. posted' + Share(x) + DrawerWaits' + presses
            <= posted + Share(formCalls[c]) + DrawerWaits + presses'
    BY <1>2, <1>3, <2>2, <2>4
  <2> QED
    BY <1>3, <2>1, <2>7, <2>8, CallChanges
<1> QED
  BY <1>8, <1>9, <1>10, <1>11, <1>12, <1>13, <1>14, <1>15, <1>16 DEF FormAnswers

LEMMA StepForms == FormInv /\ [FormNext]_formsVars => FormInv'
<1> SUFFICES ASSUME FormInv, [FormNext]_formsVars PROVE FormInv'
  OBVIOUS
<1>1. CASE UNCHANGED formsVars
  BY <1>1 DEF formsVars, formVars, gateVars, countVars, FormInv, FormsTypeOK, PressesCover,
              Pending, DrawerWaits
<1>2. CASE FormNext
  BY <1>2, StepFormServes, StepSubmit, StepSubmitProfile, StepFormUser, StepFormAnswers
  DEF FormNext, FormServes, FormAnswers
<1> QED
  BY <1>1, <1>2

(* Each press of the submit button posts one task or application at most,  *)
(* whatever is refused, fails or is saved in the drawer in between, unless *)
(* the drawer is submitted again while it saves.                           *)
THEOREM OnePerPressHolds == FormSpec => []OnePerPress
<1>1. FormInv => OnePerPress
  <2> SUFFICES ASSUME FormInv, ~savedTwice PROVE posted <= presses
    BY DEF OnePerPress
  <2>1. PICK n : n = Cardinality(Pending(formCalls))
    OBVIOUS
  <2>2. n \in Nat /\ posted + n + DrawerWaits <= presses
    BY <2>1, FS_CardinalityType DEF FormInv, PressesCover
  <2>3. posted \in Nat /\ presses \in Nat /\ DrawerWaits \in {0, 1}
    BY MaxPressesAssumption DEF FormInv, FormsTypeOK, DrawerWaits
  <2> QED
    BY <2>2, <2>3
<1> QED
  BY <1>1, InitForms, StepForms, PTL DEF FormSpec

-----------------------------------------------------------------------------
(* The marketplace: what the list consists of, and what may still be added *)
(* to it.                                                                  *)

Alone(requests) ==
    \A r, s \in Queries : requests[r] # NoTasks /\ requests[s] # NoTasks => r = s

(* The list is on screen, and nothing was typed or asked for in between.   *)
Settled == viewMode = "list" /\ ~error /\ ~searchTimer /\ ~overlapped

ListSoFar ==
    /\ tasks # <<>> => page = Len(tasks) /\ hasMore = tasks[Len(tasks)].full
    /\ \A i \in DOMAIN tasks :
          /\ tasks[i].filter = CurrentFilter
          /\ tasks[i].page = i
          /\ i < Len(tasks) => tasks[i].full

(* What the request in flight adds to the list.                            *)
Continues(request) ==
    /\ request.op \in {"none", "first", "more"}
    /\ request.op = "first" => request.filter = CurrentFilter /\ request.page = 1 /\ page = 1
    /\ request.op = "more" =>
          /\ request.filter = CurrentFilter /\ request.page = page + 1
          /\ tasks # <<>> /\ tasks[Len(tasks)].full

ListGrows ==
    /\ ListSoFar
    /\ \A r \in Queries : Continues(asked[r])
    /\ tasks = <<>> /\ Queries # {} => \E r \in Queries : asked[r].op = "first"

MarketInv ==
    /\ MarketTypeOK
    /\ ~overlapped => Alone(asked)
    /\ locating => place # "known"
    /\ Settled => ListGrows

LEMMA CurrentFilterType ==
    ASSUME search \in Texts, category \in Categories
    PROVE  CurrentFilter \in Filter
  BY DEF CurrentFilter, Filter

(* What a request may be.                                                  *)
LEMMA QueryParts ==
    ASSUME NEW x \in Query
    PROVE  /\ x = NoTasks <=> x.op = "none"
           /\ x.op \in {"none", "first", "more", "area"}
           /\ x.op # "none" => x.filter \in Filter /\ x.page \in 1..MaxPages + 1
  BY DEF Query, NoTasks

LEMMA SendFacts ==
    ASSUME MarketTypeOK, NEW r \in Queries, NEW op \in {"first", "more", "area"},
           NEW f \in Filter, NEW p \in 1..MaxPages + 1, Send(r, op, f, p)
    PROVE  /\ asked' \in [Queries -> Query] /\ asked[r] = NoTasks
           /\ asked'[r].op = op /\ asked'[r].filter = f /\ asked'[r].page = p
           /\ \A s \in Queries : s # r => asked'[s] = asked[s]
<1>1. PICK x : x = [op |-> op, filter |-> f, page |-> p]
  OBVIOUS
<1>2. x \in Query /\ x.op = op /\ x.filter = f /\ x.page = p
  BY <1>1 DEF Query
<1>3. asked \in [Queries -> Query] /\ asked' = [asked EXCEPT ![r] = x] /\ asked[r] = NoTasks
  BY <1>1 DEF MarketTypeOK, Send
<1> QED
  BY <1>2, <1>3

LEMMA QueryAnsweredFacts ==
    ASSUME MarketTypeOK, NEW r \in Queries, QueryAnswered(r)
    PROVE  /\ asked' \in [Queries -> Query] /\ asked'[r] = NoTasks
           /\ \A s \in Queries : s # r => asked'[s] = asked[s]
  BY DEF MarketTypeOK, QueryAnswered, Query

(* With one request in flight at most, none is once it is answered.        *)
LEMMA AnsweredAlone ==
    ASSUME MarketInv, NEW r \in Queries, asked[r] # NoTasks, QueryAnswered(r),
           UNCHANGED overlapped
    PROVE  /\ ~overlapped' => Alone(asked')
           /\ ~overlapped => \A s \in Queries : asked'[s] = NoTasks
  BY QueryAnsweredFacts DEF MarketInv, Alone

LEMMA NothingInFlight ==
    ASSUME MarketTypeOK, InFlight = {}
    PROVE  \A s \in Queries : asked[s] = NoTasks /\ asked[s].op = "none"
  BY DEF InFlight, NoTasks

(* The first load, and every one that starts anew.                         *)
LEMMA ResetKeepsMarket ==
    ASSUME MarketInv, NEW r \in Queries, ResetAndLoad(r),
           search' \in Texts, category' \in Categories,
           searchTimer' \in BOOLEAN, nearMe' \in BOOLEAN, locating' \in BOOLEAN,
           viewMode' \in {"list", "map"}, place' \in {"unknown", "known", "denied"},
           locating' => place' # "known"
    PROVE  MarketInv'
<1>1. PICK f : f = CurrentFilter'
  OBVIOUS
<1>2. f \in Filter /\ MarketTypeOK /\ 1 \in 1..MaxPages + 1
  BY <1>1, MaxPagesAssumption DEF CurrentFilter, Filter, MarketInv
<1>3. Send(r, "first", f, 1)
  BY <1>1 DEF ResetAndLoad
<1>4. /\ asked' \in [Queries -> Query]
      /\ asked'[r].op = "first" /\ asked'[r].filter = f /\ asked'[r].page = 1
      /\ \A s \in Queries : s # r => asked'[s] = asked[s]
  BY <1>2, <1>3, SendFacts
<1>5. /\ page' = 1 /\ tasks' = <<>> /\ hasMore' = TRUE /\ error' = FALSE /\ loading' = TRUE
      /\ overlapped' = (InFlight # {}) /\ loadingMore' = loadingMore
  BY DEF ResetAndLoad
<1>6. MarketTypeOK'
  <2>1. overlapped' \in BOOLEAN /\ loadingMore' \in BOOLEAN
    BY <1>2, <1>5 DEF MarketTypeOK
  <2>2. tasks' \in Seq(Piece)
    BY <1>5
  <2> QED
    BY <1>2, <1>4, <1>5, <2>1, <2>2 DEF MarketTypeOK
<1>7. ~overlapped' => \A s \in Queries : s # r => asked'[s] = NoTasks /\ asked'[s].op = "none"
  BY <1>2, <1>4, <1>5, NothingInFlight
<1>8. ~overlapped' => Alone(asked')
  BY <1>7 DEF Alone
<1>9. ~overlapped' => ListGrows'
  <2> SUFFICES ASSUME ~overlapped' PROVE ListGrows'
    OBVIOUS
  <2>1. ListSoFar'
    <3>1. DOMAIN tasks' = {}
      BY <1>5
    <3> QED
      BY <1>5, <3>1 DEF ListSoFar
  <2>2. ASSUME NEW s \in Queries PROVE Continues(asked[s])'
    <3>1. CASE s = r
      BY <1>1, <1>4, <1>5, <3>1 DEF Continues
    <3>2. CASE s # r
      BY <1>7, <3>2 DEF Continues
    <3> QED
      BY <3>1, <3>2
  <2> QED
    BY <1>4, <2>1, <2>2 DEF ListGrows
<1> QED
  BY <1>6, <1>8, <1>9 DEF MarketInv, Settled

LEMMA InitMarket == MarketInit => MarketInv
<1> SUFFICES ASSUME MarketInit PROVE MarketInv
  OBVIOUS
<1>1. PICK r, f : /\ Queries # {} => r \in Queries
                  /\ f = CurrentFilter
                  /\ asked = [q \in Queries |->
                        IF q = r THEN [op |-> "first", filter |-> f, page |-> 1] ELSE NoTasks]
  BY DEF MarketInit
<1>2. /\ search \in Texts /\ category \in Categories /\ tasks = <<>> /\ page = 1
      /\ searchTimer = FALSE /\ loading = TRUE /\ loadingMore = FALSE /\ hasMore = TRUE
      /\ error = FALSE /\ nearMe = FALSE /\ locating = FALSE /\ overlapped = FALSE
      /\ viewMode = "list" /\ place = "unknown"
  BY DEF MarketInit
<1>3. f \in Filter /\ 1 \in 1..MaxPages + 1
  BY <1>1, <1>2, CurrentFilterType, MaxPagesAssumption
<1>4. PICK x : x = [op |-> "first", filter |-> f, page |-> 1]
  OBVIOUS
<1>5. x \in Query /\ x.op = "first" /\ x.filter = f /\ x.page = 1
  BY <1>3, <1>4 DEF Query
<1>6. asked = [q \in Queries |-> IF q = r THEN x ELSE NoTasks] /\ NoTasks \in Query
  BY <1>1, <1>4 DEF Query
<1>7. /\ asked \in [Queries -> Query]
      /\ r \in Queries => asked[r] = x
      /\ \A s \in Queries : s # r => asked[s] = NoTasks
  BY <1>5, <1>6
<1>8. MarketTypeOK
  <2>1. tasks \in Seq(Piece)
    BY <1>2
  <2> QED
    BY <1>2, <1>3, <1>7, <2>1 DEF MarketTypeOK
<1>9. Alone(asked)
  BY <1>7 DEF Alone
<1>10. ListGrows
  <2>1. ListSoFar
    <3>1. DOMAIN tasks = {}
      BY <1>2
    <3> QED
      BY <1>2, <3>1 DEF ListSoFar
  <2>2. ASSUME NEW s \in Queries PROVE Continues(asked[s])
    <3>1. CASE s = r
      BY <1>1, <1>2, <1>5, <1>7, <3>1 DEF Continues
    <3>2. CASE s # r
      BY <1>7, <3>2 DEF Continues, NoTasks
    <3> QED
      BY <3>1, <3>2
  <2> QED
    BY <1>1, <1>5, <1>7, <2>1, <2>2 DEF ListGrows
<1> QED
  BY <1>2, <1>8, <1>9, <1>10 DEF MarketInv

(* Nothing is asked or answered, and the filter does not change.           *)
LEMMA SameListKept ==
    ASSUME ListGrows, UNCHANGED <<tasks, page, hasMore, asked>>, CurrentFilter' = CurrentFilter
    PROVE  ListGrows'
<1>1. \A x : Continues(x) => Continues(x)'
  BY DEF Continues
<1> QED
  BY <1>1 DEF ListGrows, ListSoFar

LEMMA StepTypeSearch ==
    ASSUME MarketInv, NEW text \in Texts, TypeSearch(text) PROVE MarketInv'
  BY DEF TypeSearch, taskVars, viewVars, MarketInv, MarketTypeOK, Alone, Settled

LEMMA StepLocationRefused == ASSUME MarketInv, LocationRefused PROVE MarketInv'
<1> USE DEF LocationRefused, filterVars, taskVars
<1>1. CurrentFilter' = CurrentFilter
  BY DEF MarketInv, CurrentFilter
<1>2. Settled' => ListGrows'
  BY <1>1, SameListKept DEF MarketInv, Settled
<1> QED
  BY <1>2 DEF MarketInv, MarketTypeOK, Alone

LEMMA StepShowMap == ASSUME MarketInv, NEW r \in Queries, ShowMap(r) PROVE MarketInv'
<1>1. CASE place = "known"
  BY <1>1, ResetKeepsMarket DEF ShowMap, filterVars, MarketInv, MarketTypeOK
<1>2. CASE place # "known"
  BY <1>2 DEF ShowMap, filterVars, taskVars, MarketInv, MarketTypeOK, Alone, Settled
<1> QED
  BY <1>1, <1>2

(* Whatever starts anew.                                                   *)
LEMMA StepReset ==
    ASSUME MarketInv, NEW r \in Queries, NEW c \in Categories,
           SearchTimerFires(r) \/ ChooseCategory(c, r) \/ ShowList(r) \/ Located(r) \/ Retry(r)
    PROVE  MarketInv'
<1>1. CASE SearchTimerFires(r)
  BY <1>1, ResetKeepsMarket DEF SearchTimerFires, viewVars, MarketInv, MarketTypeOK
<1>2. CASE ChooseCategory(c, r)
  BY <1>2, ResetKeepsMarket DEF ChooseCategory, viewVars, MarketInv, MarketTypeOK
<1>3. CASE ShowList(r)
  BY <1>3, ResetKeepsMarket DEF ShowList, filterVars, MarketInv, MarketTypeOK
<1>4. CASE Located(r)
  BY <1>4, ResetKeepsMarket DEF Located, filterVars, MarketInv, MarketTypeOK
<1>5. CASE Retry(r)
  BY <1>5, ResetKeepsMarket DEF Retry, filterVars, viewVars, MarketInv, MarketTypeOK
<1> QED
  BY <1>1, <1>2, <1>3, <1>4, <1>5

(* A request is sent; it is the only one unless another was in flight.     *)
LEMMA SentAlone ==
    ASSUME MarketInv, NEW r \in Queries, NEW op \in {"first", "more", "area"},
           NEW f \in Filter, NEW p \in 1..MaxPages + 1, Send(r, op, f, p),
           overlapped' = (overlapped \/ InFlight # {})
    PROVE  /\ asked' \in [Queries -> Query] /\ overlapped' \in BOOLEAN
           /\ asked'[r].op = op /\ asked'[r].filter = f /\ asked'[r].page = p
           /\ ~overlapped' =>
                 /\ ~overlapped /\ Alone(asked')
                 /\ \A s \in Queries : asked[s].op = "none"
                 /\ \A s \in Queries : s # r => asked'[s].op = "none"
<1>1. MarketTypeOK /\ overlapped \in BOOLEAN
  BY DEF MarketInv, MarketTypeOK
<1>2. /\ asked' \in [Queries -> Query]
      /\ asked'[r].op = op /\ asked'[r].filter = f /\ asked'[r].page = p
      /\ \A s \in Queries : s # r => asked'[s] = asked[s]
  BY <1>1, SendFacts
<1>3. ~overlapped' => ~overlapped /\ InFlight = {}
  OBVIOUS
<1>4. ~overlapped' => \A s \in Queries : asked[s] = NoTasks /\ asked[s].op = "none"
  BY <1>1, <1>3, NothingInFlight
<1>5. ~overlapped' => Alone(asked')
  BY <1>2, <1>4 DEF Alone
<1>6. overlapped' = TRUE \/ overlapped' = FALSE
  OBVIOUS
<1> QED
  BY <1>2, <1>3, <1>4, <1>5, <1>6

LEMMA StepAreaSearch == ASSUME MarketInv, NEW r \in Queries, AreaSearch(r) PROVE MarketInv'
<1> USE DEF AreaSearch, filterVars, viewVars
<1>1. PICK f : f = [text |-> search, category |-> category, at |-> "area"]
  OBVIOUS
<1>2. f \in Filter /\ 1 \in 1..MaxPages + 1
  BY <1>1, MaxPagesAssumption DEF MarketInv, MarketTypeOK, Filter
<1>3. Send(r, "area", f, 1) /\ overlapped' = (overlapped \/ InFlight # {})
  BY <1>1
<1>4. asked' \in [Queries -> Query] /\ overlapped' \in BOOLEAN /\ (~overlapped' => Alone(asked'))
  BY <1>2, <1>3, SentAlone
<1>5. viewMode = "map"
  BY DEF Screen
<1> QED
  BY <1>4, <1>5 DEF MarketInv, MarketTypeOK, Settled

LEMMA StepScrollDown == ASSUME MarketInv, NEW r \in Queries, ScrollDown(r) PROVE MarketInv'
<1> USE DEF ScrollDown, filterVars, viewVars
<1>1. PICK f, p : f = CurrentFilter /\ p = page + 1
  OBVIOUS
<1>2. f \in Filter /\ p \in 1..MaxPages + 1
  BY <1>1, CurrentFilterType, MaxPagesAssumption DEF MarketInv, MarketTypeOK
<1>3. Send(r, "more", f, p) /\ overlapped' = (overlapped \/ InFlight # {})
  BY <1>1
<1>4. /\ asked' \in [Queries -> Query] /\ overlapped' \in BOOLEAN
      /\ asked'[r].op = "more" /\ asked'[r].filter = f /\ asked'[r].page = p
      /\ ~overlapped' =>
            /\ ~overlapped /\ Alone(asked')
            /\ \A s \in Queries : asked[s].op = "none"
            /\ \A s \in Queries : s # r => asked'[s].op = "none"
  BY <1>2, <1>3, SentAlone
<1>5. MarketTypeOK'
  BY <1>4 DEF MarketInv, MarketTypeOK
<1>6. ASSUME Settled' PROVE ListGrows'
  <2>1. Settled /\ ListGrows /\ ~overlapped'
    BY <1>4, <1>6 DEF MarketInv, Settled
  <2>2. tasks # <<>> /\ tasks[Len(tasks)].full
    BY <1>4, <2>1 DEF ListGrows, ListSoFar
  <2>3. CurrentFilter' = CurrentFilter /\ UNCHANGED <<tasks, page, hasMore>>
    BY DEF CurrentFilter
  <2>4. ListSoFar'
    BY <2>1, <2>3 DEF ListGrows, ListSoFar
  <2>5. ASSUME NEW s \in Queries PROVE Continues(asked[s])'
    <3>1. CASE s = r
      BY <1>1, <1>4, <2>2, <2>3, <3>1 DEF Continues
    <3>2. CASE s # r
      BY <1>4, <2>1, <3>2 DEF Continues
    <3> QED
      BY <3>1, <3>2
  <2> QED
    BY <2>2, <2>3, <2>4, <2>5 DEF ListGrows
<1> QED
  BY <1>4, <1>5, <1>6 DEF MarketInv

(* The answer of a page that was asked for.                                *)
LEMMA PieceFacts ==
    ASSUME MarketTypeOK, NEW r \in Queries, NEW full \in BOOLEAN, asked[r].op # "none"
    PROVE  /\ PieceOf(r, full) \in Piece
           /\ PieceOf(r, full).filter = asked[r].filter
           /\ PieceOf(r, full).page = asked[r].page
           /\ PieceOf(r, full).full = full
<1>1. asked[r] \in Query
  BY DEF MarketTypeOK
<1>2. asked[r].filter \in Filter /\ asked[r].page \in 1..MaxPages + 1
  BY <1>1, QueryParts
<1> QED
  BY <1>2 DEF PieceOf, Piece

LEMMA AnsweredMarket ==
    ASSUME MarketInv, NEW r \in Queries, asked[r].op \in {"first", "more", "area"},
           QueryAnswered(r), UNCHANGED overlapped
    PROVE  /\ asked' \in [Queries -> Query] /\ (~overlapped' => Alone(asked'))
           /\ ~overlapped => \A s \in Queries : asked'[s].op = "none"
<1>1. asked[r] # NoTasks
  BY DEF NoTasks
<1>2. asked' \in [Queries -> Query]
  BY QueryAnsweredFacts DEF MarketInv
<1>3. /\ ~overlapped' => Alone(asked')
      /\ ~overlapped => \A s \in Queries : asked'[s] = NoTasks
  BY <1>1, AnsweredAlone
<1> QED
  BY <1>2, <1>3 DEF NoTasks

LEMMA StepFirstPageArrives ==
    ASSUME MarketInv, NEW r \in Queries, NEW full \in BOOLEAN, FirstPageArrives(r, full)
    PROVE  MarketInv'
<1> USE DEF FirstPageArrives, filterVars, viewVars
<1>1. PICK x : x = PieceOf(r, full)
  OBVIOUS
<1>2. x \in Piece /\ x.filter = asked[r].filter /\ x.page = asked[r].page /\ x.full = full
  BY <1>1, PieceFacts DEF MarketInv
<1>3. /\ asked' \in [Queries -> Query] /\ (~overlapped' => Alone(asked'))
      /\ ~overlapped => \A s \in Queries : asked'[s].op = "none"
  BY AnsweredMarket
<1>4. tasks' = <<x>> /\ tasks' \in Seq(Piece)
  BY <1>1, <1>2
<1>5. MarketTypeOK'
  BY <1>3, <1>4 DEF MarketInv, MarketTypeOK
<1>6. ASSUME Settled' PROVE ListGrows'
  <2>1. Settled /\ ListGrows /\ ~overlapped
    BY <1>6 DEF MarketInv, Settled
  <2>2. x.filter = CurrentFilter /\ x.page = 1 /\ page = 1
    BY <1>2, <2>1 DEF ListGrows, Continues
  <2>3. CurrentFilter' = CurrentFilter /\ page' = page /\ hasMore' = full
    BY DEF CurrentFilter
  <2>4. DOMAIN tasks' = {1} /\ Len(tasks') = 1 /\ tasks'[1] = x
    BY <1>4
  <2>5. ListSoFar'
    BY <1>2, <2>2, <2>3, <2>4 DEF ListSoFar
  <2>6. tasks' # <<>>
    BY <1>4
  <2> QED
    BY <1>3, <2>1, <2>5, <2>6 DEF ListGrows, Continues
<1> QED
  BY <1>3, <1>5, <1>6 DEF MarketInv

LEMMA StepFailsOrArea ==
    ASSUME MarketInv, NEW r \in Queries,
           FirstPageFails(r) \/ NextPageFails(r) \/ AreaAnswers(r)
    PROVE  MarketInv'
<1> USE DEF filterVars, viewVars
<1>1. /\ asked[r].op \in {"first", "more", "area"} /\ QueryAnswered(r) /\ UNCHANGED overlapped
      /\ UNCHANGED <<search, category, searchTimer, viewMode, nearMe, place, locating, page,
                     hasMore>>
  BY DEF FirstPageFails, NextPageFails, AreaAnswers
<1>2. /\ asked' \in [Queries -> Query] /\ (~overlapped' => Alone(asked'))
      /\ ~overlapped => \A s \in Queries : asked'[s].op = "none"
  BY <1>1, AnsweredMarket
<1>3. tasks' \in Seq(Piece) /\ {loading', loadingMore', error'} \subseteq BOOLEAN
  <2>1. CASE FirstPageFails(r) \/ NextPageFails(r)
    BY <2>1 DEF FirstPageFails, NextPageFails, MarketInv, MarketTypeOK
  <2>2. CASE AreaAnswers(r)
    <3>1. PICK x \in Piece : x = PieceOf(r, TRUE)
      BY <2>2, PieceFacts DEF AreaAnswers, MarketInv
    <3>2. <<x>> \in Seq(Piece)
      OBVIOUS
    <3> QED
      BY <2>2, <3>1, <3>2 DEF AreaAnswers, MarketInv, MarketTypeOK
  <2> QED
    BY <2>1, <2>2
<1>4. MarketTypeOK'
  BY <1>1, <1>2, <1>3 DEF MarketInv, MarketTypeOK
<1>5. ASSUME Settled' PROVE ListGrows'
  <2>1. ~error'
    BY <1>5 DEF Settled
  <2>2. ~FirstPageFails(r)
    BY <2>1 DEF FirstPageFails
  <2>3. error' = error
    BY <2>2 DEF NextPageFails, AreaAnswers
  <2>4. Settled /\ ListGrows /\ ~overlapped
    BY <1>1, <1>5, <2>3 DEF MarketInv, Settled
  <2>5. ~AreaAnswers(r)
    BY <2>4 DEF AreaAnswers, ListGrows, Continues
  <2>6. asked[r].op = "more" /\ tasks' = tasks
    BY <2>2, <2>5 DEF NextPageFails
  <2>7. tasks # <<>>
    BY <2>4, <2>6 DEF ListGrows, Continues
  <2>8. CurrentFilter' = CurrentFilter
    BY <1>1 DEF CurrentFilter
  <2>9. ListSoFar'
    BY <1>1, <2>4, <2>6, <2>8 DEF ListGrows, ListSoFar
  <2> QED
    BY <1>2, <2>4, <2>6, <2>7, <2>9 DEF ListGrows, Continues
<1> QED
  BY <1>1, <1>2, <1>4, <1>5 DEF MarketInv

LEMMA StepNextPageArrives ==
    ASSUME MarketInv, NEW r \in Queries, NEW full \in BOOLEAN, NextPageArrives(r, full)
    PROVE  MarketInv'
<1> USE DEF NextPageArrives, filterVars, viewVars
<1>1. PICK x : x = PieceOf(r, full)
  OBVIOUS
<1>2. x \in Piece /\ x.filter = asked[r].filter /\ x.page = asked[r].page /\ x.full = full
  BY <1>1, PieceFacts DEF MarketInv
<1>3. /\ asked' \in [Queries -> Query] /\ (~overlapped' => Alone(asked'))
      /\ ~overlapped => \A s \in Queries : asked'[s].op = "none"
  BY AnsweredMarket
<1>4. tasks \in Seq(Piece) /\ tasks' = Append(tasks, x) /\ page' = x.page
  BY <1>1, <1>2 DEF MarketInv, MarketTypeOK
<1>5. /\ tasks' \in Seq(Piece) /\ Len(tasks') = Len(tasks) + 1 /\ tasks' # <<>>
      /\ DOMAIN tasks' = 1..Len(tasks) + 1 /\ DOMAIN tasks = 1..Len(tasks) /\ Len(tasks) \in Nat
      /\ tasks'[Len(tasks) + 1] = x
      /\ \A i \in DOMAIN tasks : tasks'[i] = tasks[i]
  BY <1>2, <1>4
<1>6. MarketTypeOK'
  <2>1. page' \in 1..MaxPages + 1
    BY <1>2, <1>4 DEF Piece
  <2> QED
    BY <1>3, <1>5, <2>1 DEF MarketInv, MarketTypeOK
<1>7. ASSUME Settled' PROVE ListGrows'
  <2>1. Settled /\ ListGrows /\ ~overlapped
    BY <1>7 DEF MarketInv, Settled
  <2>2. /\ x.filter = CurrentFilter /\ x.page = page + 1
        /\ tasks # <<>> /\ tasks[Len(tasks)].full
    BY <1>2, <2>1 DEF ListGrows, Continues
  <2>3. page = Len(tasks)
    BY <2>1, <2>2 DEF ListGrows, ListSoFar
  <2>4. CurrentFilter' = CurrentFilter /\ hasMore' = full
    BY DEF CurrentFilter
  <2>5. ASSUME NEW i \in DOMAIN tasks'
        PROVE  /\ tasks'[i].filter = CurrentFilter
               /\ tasks'[i].page = i
               /\ i < Len(tasks') => tasks'[i].full
    <3>1. CASE i = Len(tasks) + 1
      BY <1>2, <1>5, <2>2, <2>3, <3>1
    <3>2. CASE i \in DOMAIN tasks
      <4>1. tasks[i].filter = CurrentFilter /\ tasks[i].page = i
        BY <2>1, <3>2 DEF ListGrows, ListSoFar
      <4>2. tasks[i].full
        <5>1. i < Len(tasks) \/ i = Len(tasks)
          BY <1>5, <3>2
        <5> QED
          BY <2>1, <2>2, <3>2, <5>1 DEF ListGrows, ListSoFar
      <4> QED
        BY <1>5, <3>2, <4>1, <4>2
    <3> QED
      BY <1>5, <3>1, <3>2
  <2>6. page' = Len(tasks') /\ tasks'[Len(tasks')].full = full
    BY <1>2, <1>4, <1>5, <2>2, <2>3
  <2>7. ListSoFar'
    BY <2>4, <2>5, <2>6 DEF ListSoFar
  <2> QED
    BY <1>3, <1>5, <2>1, <2>7 DEF ListGrows, Continues
<1> QED
  BY <1>3, <1>6, <1>7 DEF MarketInv

LEMMA StepMarket == MarketInv /\ [MarketNext]_marketVars => MarketInv'
<1> SUFFICES ASSUME MarketInv, [MarketNext]_marketVars PROVE MarketInv'
  OBVIOUS
<1>1. ASSUME NEW text \in Texts, TypeSearch(text) PROVE MarketInv'
  BY <1>1, StepTypeSearch
<1>2. CASE LocationRefused
  BY <1>2, StepLocationRefused
<1>3. ASSUME NEW r \in Queries,
             \/ SearchTimerFires(r) \/ ShowList(r) \/ Located(r) \/ Retry(r)
             \/ \E c \in Categories : ChooseCategory(c, r)
      PROVE  MarketInv'
  BY <1>3, StepReset DEF MarketInv, MarketTypeOK
<1>4. ASSUME NEW r \in Queries, ShowMap(r) \/ AreaSearch(r) \/ ScrollDown(r) PROVE MarketInv'
  BY <1>4, StepShowMap, StepAreaSearch, StepScrollDown
<1>5. ASSUME NEW r \in Queries,
             \/ \E full \in BOOLEAN : FirstPageArrives(r, full) \/ NextPageArrives(r, full)
             \/ FirstPageFails(r) \/ NextPageFails(r) \/ AreaAnswers(r)
      PROVE  MarketInv'
  BY <1>5, StepFirstPageArrives, StepNextPageArrives, StepFailsOrArea
<1>6. CASE UNCHANGED marketVars
  <2>1. UNCHANGED <<search, category, searchTimer, tasks, page, loading, loadingMore, hasMore,
                    error, viewMode, nearMe, place, locating, asked, overlapped>>
    BY <1>6 DEF marketVars, filterVars, taskVars, viewVars
  <2>2. CurrentFilter' = CurrentFilter
    BY <2>1 DEF CurrentFilter
  <2>3. Settled' => ListGrows'
    BY <2>1, <2>2, SameListKept DEF MarketInv, Settled
  <2> QED
    BY <2>1, <2>3 DEF MarketInv, MarketTypeOK, Alone
<1> QED
  BY <1>1, <1>2, <1>3, <1>4, <1>5, <1>6 DEF MarketNext

LEMMA MarketShowsItsFilter == MarketInv => ListIsOfFilter
<1> SUFFICES ASSUME MarketInv, Screen \in {"skeleton", "list"}, ~searchTimer, ~overlapped
             PROVE  ListSoFar
  BY DEF ListIsOfFilter, ListSoFar
<1>1. viewMode = "list" /\ ~error
  BY DEF Screen, MarketInv, MarketTypeOK
<1> QED
  BY <1>1 DEF MarketInv, Settled, ListGrows

-----------------------------------------------------------------------------
(* My jobs: what came, and what any request will bring, is of the tab that *)
(* is on, which is the one in the address.                                 *)
JobsInv ==
    /\ {mode, modeNext, currentTab} \subseteq Tabs
    /\ jobCalls \in [JobCalls -> Tabs \cup {Empty}]
    /\ rushed \in BOOLEAN
    /\ ~rushed =>
          /\ jobs \in {Empty, currentTab} /\ modeNext = currentTab
          /\ \A c \in JobCalls : jobCalls[c] \in {Empty, currentTab}

LEMMA InitJobs == JobsInit => JobsInv
  BY DEF JobsInit, JobsInv

LEMMA LoadKeepsJobs ==
    ASSUME JobsInv, NEW tab \in Tabs, NEW c \in JobCalls, LoadJobs(tab, c),
           currentTab' = tab, {mode', modeNext'} \subseteq Tabs
    PROVE  JobsInv'
<1>3. rushed' = TRUE \/ rushed' = FALSE
  BY Zenon DEF LoadJobs
<1>4. ~rushed' => modeNext' = tab /\ \A d \in JobCalls : jobCalls[d] = Empty
  BY DEF LoadJobs, JobsAsked
<1>1. PICK x \in Tabs \cup {Empty} :
        x \in {Empty, tab} /\ jobCalls' = [jobCalls EXCEPT ![c] = x]
  BY DEF LoadJobs
<1>2. jobCalls' \in [JobCalls -> Tabs \cup {Empty}] /\ jobCalls'[c] = x
  BY <1>1 DEF JobsInv
<1>5. \A d \in JobCalls : d # c => jobCalls'[d] = jobCalls[d]
  BY <1>1 DEF JobsInv
<1>6. jobs' = Empty
  BY DEF LoadJobs
<1> QED
  BY <1>1, <1>2, <1>3, <1>4, <1>5, <1>6 DEF JobsInv

LEMMA StepJobs == JobsInv /\ [JobsNext]_jobVars => JobsInv'
<1> SUFFICES ASSUME JobsInv, [JobsNext]_jobVars PROVE JobsInv'
  OBVIOUS
<1>1. CASE ModeArrives
  BY <1>1 DEF ModeArrives, JobsInv
<1>2. ASSUME NEW tab \in Tabs, GoBack(tab) PROVE JobsInv'
  BY <1>2 DEF GoBack, JobsInv
<1>3. ASSUME NEW c \in JobCalls, NEW tab \in Tabs, PressTab(tab, c) PROVE JobsInv'
  BY <1>3, LoadKeepsJobs DEF PressTab, JobsInv
<1>4. ASSUME NEW c \in JobCalls, RetryJobs(c) PROVE JobsInv'
  BY <1>4, LoadKeepsJobs DEF RetryJobs, JobsInv
<1>5. ASSUME NEW c \in JobCalls, JobsArrive(c) \/ JobsFail(c) PROVE JobsInv'
  <2>1. /\ jobCalls' = [jobCalls EXCEPT ![c] = Empty]
        /\ UNCHANGED <<currentTab, mode, modeNext, rushed>>
    BY <1>5 DEF JobsArrive, JobsFail
  <2>2. /\ jobCalls' \in [JobCalls -> Tabs \cup {Empty}] /\ jobCalls'[c] = Empty
        /\ \A d \in JobCalls : d # c => jobCalls'[d] = jobCalls[d]
    BY <2>1 DEF JobsInv
  <2>3. ~rushed => jobs' \in {Empty, currentTab}
    BY <1>5 DEF JobsArrive, JobsFail, JobsInv
  <2> QED
    BY <2>1, <2>2, <2>3 DEF JobsInv
<1>6. CASE UNCHANGED jobVars
  BY <1>6 DEF jobVars, JobsInv
<1> QED
  BY <1>1, <1>2, <1>3, <1>4, <1>5, <1>6 DEF JobsNext

LEMMA JobsShowTheirTab == JobsInv => JobsAreOfTab
  BY DEF JobsInv, JobsAreOfTab

-----------------------------------------------------------------------------
(* A behaviour of all pages is one of each page.                           *)
LEMMA PagesPlayMarket ==
    /\ PagesInit => MarketInit
    /\ [PagesNext]_pagesVars => [MarketNext]_marketVars
<1>1. ASSUME NEW s \in Scenes, Play(s) PROVE [MarketNext]_marketVars
  BY <1>1 DEF Play
<1> QED
  BY <1>1 DEF PagesInit, PagesNext, pagesVars

LEMMA PagesPlayJobs ==
    /\ PagesInit => JobsInit
    /\ [PagesNext]_pagesVars => [JobsNext]_jobVars
<1>1. NoticesNext => UNCHANGED jobVars
  BY DEF NoticesNext, MarkAll, ClickRow, Marked, MarkLost, NoticeMade, PageArrives, PageFails, RetryPage, MorePages, DeleteRow,
         RowDeleted, DeletionLost
<1>2. TalksNext => UNCHANGED jobVars
  BY DEF TalksNext, TalksArrive, TalksFail, RetryTalks, LeaveTalks
<1>3. ASSUME NEW s \in Scenes, Play(s) PROVE [JobsNext]_jobVars
  <2>1. JobsNext \/ NoticesNext \/ TalksNext \/ UNCHANGED listVars
    BY <1>3 DEF Play
  <2> QED
    BY <1>1, <1>2, <2>1 DEF listVars
<1> QED
  BY <1>3 DEF PagesInit, PagesNext, pagesVars, listVars

(* The list of the marketplace and that of my jobs hold what the filter or *)
(* the tab on screen asks for, however many searches, categories, views    *)
(* and pages there are, while no request is sent before the last one was   *)
(* answered: what overlapping requests leave is not promised, since the    *)
(* pages show whichever answers last.                                      *)
THEOREM ListsFollowTheirFilterHolds == PagesSpec => []ListsFollowTheirFilter
<1>1. MarketInv /\ JobsInv => ListsFollowTheirFilter
  BY MarketShowsItsFilter, JobsShowTheirTab DEF ListsFollowTheirFilter
<1> QED
  BY <1>1, PagesPlayMarket, PagesPlayJobs, InitMarket, StepMarket, InitJobs, StepJobs, PTL
     DEF PagesSpec

-----------------------------------------------------------------------------
(* The map: no area is asked for before there is a centre, and none but an *)
(* early one before the map is loaded.                                     *)
CircleInv ==
    /\ camera \in Places /\ early \in BOOLEAN
    /\ flight.then \in {"none", "search", "locate"}
    /\ flight.then = "locate" => flight.to \in Places
    /\ mapState = "importing" => lastCenter = NoPlace
    /\ lastCenter = NoPlace => searched = NoSearch
    /\ ~early =>
          /\ mapState \in {"importing", "created"} => searched = NoSearch
          /\ searched # NoSearch => searched = [at |-> lastCenter, radius |-> radius]

(* The flight that follows, and where the camera is.                       *)
Aims ==
    /\ camera \in Places
    /\ flight.then \in {"none", "search", "locate"}
    /\ flight.then = "locate" => flight.to \in Places

LEMMA InitCircle == MapInit => CircleInv
<1> SUFFICES ASSUME MapInit PROVE CircleInv
  OBVIOUS
<1>1. /\ camera \in Places /\ early = FALSE /\ flight = NoFlight
      /\ lastCenter = NoPlace /\ searched = NoSearch
  BY MapAssumption DEF MapInit
<1>2. flight.then = "none"
  BY <1>1 DEF NoFlight
<1> QED
  BY <1>1, <1>2 DEF CircleInv

LEMMA CircleStays ==
    ASSUME CircleInv, UNCHANGED <<lastCenter, radius, searched, early, mapState>>, Aims'
    PROVE  CircleInv'
  BY DEF CircleInv, Aims

LEMMA AskAreaKeepsCircle ==
    ASSUME CircleInv, NEW spot \in Places, AskArea(spot), UNCHANGED mapState, Aims',
           mapState # "importing"
    PROVE  CircleInv'
<1>1. spot # NoPlace
  BY MapAssumption
<1>2. ~early' => ~early /\ mapState # "created"
  BY DEF AskArea
<1>3. early' \in BOOLEAN
  BY DEF AskArea
<1> QED
  BY <1>1, <1>2, <1>3 DEF CircleInv, AskArea, Aims

LEMMA AfterFlightKeepsCircle ==
    ASSUME CircleInv, NEW at \in Places, AfterFlight(at), UNCHANGED mapState, Aims',
           mapState # "importing"
    PROVE  CircleInv'
<1>1. CASE flight.then = "none"
  BY <1>1, CircleStays DEF AfterFlight
<1>2. CASE flight.then = "search"
  BY <1>2, AskAreaKeepsCircle DEF AfterFlight
<1>3. CASE flight.then = "locate"
  BY <1>3, AskAreaKeepsCircle DEF AfterFlight, CircleInv
<1> QED
  BY <1>1, <1>2, <1>3 DEF CircleInv

LEMMA FlyToKeepsCircle ==
    ASSUME CircleInv, NEW spot \in Places, NEW next \in {"none", "search", "locate"},
           FlyTo(spot, next), UNCHANGED mapState, mapState # "importing"
    PROVE  CircleInv'
<1>1. Aims'
  BY DEF FlyTo, CircleInv, Aims
<1>2. CASE flight = NoFlight
  BY <1>1, <1>2, CircleStays DEF FlyTo
<1>3. CASE flight # NoFlight
  BY <1>1, <1>3, AfterFlightKeepsCircle DEF FlyTo
<1> QED
  BY <1>2, <1>3

LEMMA StepCircle == CircleInv /\ [MapNext]_mapVars => CircleInv'
<1> SUFFICES ASSUME CircleInv, [MapNext]_mapVars PROVE CircleInv'
  OBVIOUS
<1>0. Aims
  BY DEF CircleInv, Aims
<1>1. CASE CreateMap
  BY <1>1 DEF CreateMap, CircleInv, areaVars, cameraVars
<1>2. CASE MapLoads
  BY <1>2, MapAssumption DEF MapLoads, CircleInv, cameraVars
<1>3. ASSUME NEW at \in Places, MoveMap(at) PROVE CircleInv'
  BY <1>3, CircleStays DEF MoveMap, Aims, CircleInv, areaVars
<1>4. ASSUME NEW at \in Places, FlightEnds(at) PROVE CircleInv'
  <2>1. Aims'
    BY <1>4 DEF FlightEnds, Aims, NoFlight
  <2> QED
    BY <1>4, <2>1, AfterFlightKeepsCircle DEF FlightEnds, HasMap
<1>5. ASSUME NEW at \in Places, PositionArrives(at) PROVE CircleInv'
  BY <1>0, <1>5, FlyToKeepsCircle, CircleStays DEF PositionArrives, StayPut, HasMap, Aims, areaVars
<1>6. ASSUME NEW at \in Places, TasksChange(at) PROVE CircleInv'
  BY <1>6, FlyToKeepsCircle DEF TasksChange
<1>7. ASSUME NEW at \in Places \cup {NoPlace}, ClickPanelTask(at) PROVE CircleInv'
  BY <1>0, <1>7, FlyToKeepsCircle, CircleStays DEF ClickPanelTask, StayPut, HasMap, Aims, areaVars
<1>8. ASSUME NEW spot \in Places, SelectSuggestion(spot) PROVE CircleInv'
  BY <1>0, <1>8, FlyToKeepsCircle, CircleStays DEF SelectSuggestion, StayPut, HasMap, Aims, areaVars
<1>9. CASE SearchThisArea
  <2>1. Aims' /\ camera \in Places
    BY <1>0, <1>9 DEF SearchThisArea, Aims
  <2> QED
    BY <1>9, <2>1, AskAreaKeepsCircle DEF SearchThisArea, AreaButtonShown, HasMap
<1>10. ASSUME NEW r \in Radii, SlideRadius(r) PROVE CircleInv'
  <2>1. UNCHANGED <<mapState, camera, flight>> /\ Aims'
    BY <1>0, <1>10 DEF SlideRadius, cameraVars, Aims
  <2>2. CASE lastCenter # NoPlace
    <3>1. AskArea(lastCenter) /\ mapState # "importing"
      BY <1>10, <2>2 DEF SlideRadius, CircleInv
    <3>2. early' \in BOOLEAN /\ (~early' => ~early /\ mapState # "created")
      BY <3>1 DEF AskArea
    <3> QED
      BY <2>1, <2>2, <3>1, <3>2 DEF CircleInv, AskArea, Aims
  <2>3. CASE lastCenter = NoPlace /\ HasMap
    BY <1>0, <1>10, <2>1, <2>3, AskAreaKeepsCircle DEF SlideRadius, HasMap, Aims
  <2>4. CASE lastCenter = NoPlace /\ ~HasMap
    BY <1>10, <2>1, <2>4 DEF SlideRadius, CircleInv, Aims
  <2> QED
    BY <2>2, <2>3, <2>4
<1>11. CASE \/ CircleGrown \/ AskPosition \/ ToggleDrawer \/ OpenSearchBar \/ CloseSearchBar
            \/ TypeTimerFires \/ UNCHANGED mapVars
            \/ \E ring \in Rings : RingRuns(ring)
            \/ \E b \in BOOLEAN : ClickMarker(b) \/ TypePlace(b) \/ MapSuggestionsArrive(b)
  <2>1. UNCHANGED <<areaVars, mapState, camera, flight>>
    BY <1>11 DEF CircleGrown, AskPosition, ToggleDrawer, OpenSearchBar, CloseSearchBar,
       TypeTimerFires, mapVars, RingRuns, ClickMarker, TypePlace, MapSuggestionsArrive, cameraVars
  <2> QED
    BY <1>0, <2>1, CircleStays DEF Aims, areaVars
<1>12. CASE LeaveMap
  BY <1>12 DEF LeaveMap, CircleInv, areaVars, NoFlight
<1> QED
  BY <1>1, <1>2, <1>3, <1>4, <1>5, <1>6, <1>7, <1>8, <1>9, <1>10, <1>11, <1>12
     DEF MapNext, AreaNext, SearchBarNext

-----------------------------------------------------------------------------
(* What was picked last is on its way, or is what the tasks were asked for *)
(* around; the circle says the centre a new radius is asked around.        *)
PickInv ==
    ~early /\ ~mapLeft /\ picked # NoPlace =>
        IF flight.then \in {"search", "locate"} THEN flight.to = picked
                                                ELSE searched.at = picked

LEMMA InitPick == MapInit => PickInv
  BY DEF MapInit, PickInv

LEMMA PickStays ==
    ASSUME PickInv, UNCHANGED <<picked, searched, early, flight>>, ~mapLeft' => ~mapLeft
    PROVE  PickInv'
  BY DEF PickInv

(* The end of a flight: a suggestion is searched where the camera is, and  *)
(* was the pick if that is its target; the device's place wherever it is.  *)
LEMMA LandingKeepsPick ==
    ASSUME PickInv, flight.then \in {"none", "search", "locate"}, NEW at \in Places,
           AfterFlight(at), ~early', ~mapLeft, PickAfter(at) # NoPlace
    PROVE  searched'.at = PickAfter(at)
<1>1. CASE flight.then = "none"
  BY <1>1 DEF AfterFlight, PickInv, PickAfter
<1>2. CASE flight.then = "search"
  <2>1. AskArea(at)
    BY <1>2 DEF AfterFlight
  <2>2. searched'.at = at /\ ~early
    BY <2>1 DEF AskArea
  <2> QED
    BY <1>2, <2>2 DEF PickInv, PickAfter
<1>3. CASE flight.then = "locate"
  <2>1. AskArea(flight.to)
    BY <1>3 DEF AfterFlight
  <2>2. searched'.at = flight.to /\ ~early
    BY <2>1 DEF AskArea
  <2> QED
    BY <1>3, <2>2 DEF PickInv, PickAfter
<1> QED
  BY <1>1, <1>2, <1>3

LEMMA FlyToKeepsPick ==
    ASSUME PickInv, flight.then \in {"none", "search", "locate"}, UNCHANGED mapLeft,
           NEW spot \in Places, NEW next \in {"none", "search", "locate"}, FlyTo(spot, next)
    PROVE  PickInv'
<1>1. flight'.to = spot /\ flight'.then = next
  BY DEF FlyTo
<1>2. CASE next # "none"
  BY <1>1, <1>2 DEF FlyTo, PickInv
<1>3. CASE next = "none" /\ flight = NoFlight
  BY <1>1, <1>3 DEF FlyTo, PickInv, NoFlight
<1>4. CASE next = "none" /\ flight # NoFlight
  <2>1. PICK at \in Places : AfterFlight(at) /\ picked' = PickAfter(at)
    BY <1>4 DEF FlyTo
  <2>2. ~early' /\ ~mapLeft /\ picked' # NoPlace => searched'.at = picked'
    BY <2>1, LandingKeepsPick
  <2> QED
    BY <1>1, <1>4, <2>2 DEF PickInv
<1> QED
  BY <1>2, <1>3, <1>4

LEMMA StepPick == CircleInv /\ PickInv /\ [MapNext]_mapVars => PickInv'
<1> SUFFICES ASSUME CircleInv, PickInv, [MapNext]_mapVars PROVE PickInv'
  OBVIOUS
<1>0. flight.then \in {"none", "search", "locate"}
  BY DEF CircleInv
<1>1. CASE \/ CreateMap \/ MapLoads \/ CircleGrown \/ AskPosition \/ ToggleDrawer
           \/ OpenSearchBar \/ CloseSearchBar \/ TypeTimerFires \/ UNCHANGED mapVars
           \/ \E ring \in Rings : RingRuns(ring)
           \/ \E b \in BOOLEAN : ClickMarker(b) \/ TypePlace(b) \/ MapSuggestionsArrive(b)
  <2>1. UNCHANGED <<picked, searched, early, flight>> /\ mapLeft' = mapLeft
    BY <1>1 DEF CreateMap, MapLoads, CircleGrown, AskPosition, ToggleDrawer, OpenSearchBar,
       CloseSearchBar, TypeTimerFires, mapVars, RingRuns, ClickMarker, TypePlace,
       MapSuggestionsArrive, cameraVars, areaVars
  <2> QED
    BY <2>1, PickStays
<1>2. ASSUME NEW at \in Places, MoveMap(at) PROVE PickInv'
  BY <1>2, PickStays DEF MoveMap, areaVars
<1>3. ASSUME NEW at \in Places, FlightEnds(at) PROVE PickInv'
  <2>1. AfterFlight(at) /\ picked' = PickAfter(at) /\ mapLeft' = mapLeft /\ flight'.then = "none"
    BY <1>3 DEF FlightEnds, NoFlight
  <2>2. ~early' /\ ~mapLeft /\ picked' # NoPlace => searched'.at = picked'
    BY <1>0, <2>1, LandingKeepsPick
  <2> QED
    BY <2>1, <2>2 DEF PickInv
<1>4. ASSUME NEW to \in Places, NEW next \in {"none", "search", "locate"},
             FlyTo(to, next) \/ StayPut, UNCHANGED mapLeft
      PROVE  PickInv'
  BY <1>0, <1>4, FlyToKeepsPick, PickStays DEF StayPut, areaVars
<1>5. CASE \E to \in Places : PositionArrives(to) \/ SelectSuggestion(to) \/ TasksChange(to)
  <2>1. PICK to \in Places, next \in {"none", "search", "locate"} : FlyTo(to, next) \/ StayPut
    BY <1>5 DEF PositionArrives, SelectSuggestion, TasksChange
  <2>2. UNCHANGED mapLeft
    BY <1>5 DEF PositionArrives, SelectSuggestion, TasksChange
  <2> QED
    BY <1>4, <2>1, <2>2
<1>6. CASE \E to \in Places \cup {NoPlace} : ClickPanelTask(to)
  <2>1. PICK to \in Places, next \in {"none", "search", "locate"} : FlyTo(to, next) \/ StayPut
    BY <1>6, MapAssumption DEF ClickPanelTask
  <2>2. UNCHANGED mapLeft
    BY <1>6 DEF ClickPanelTask
  <2> QED
    BY <1>4, <2>1, <2>2
<1>7. CASE SearchThisArea
  <2>1. /\ searched'.at = camera /\ (~early' => ~early) /\ UNCHANGED <<flight, mapLeft>>
        /\ picked' = IF flight.then = "none" THEN camera ELSE picked
    BY <1>7 DEF SearchThisArea, AskArea
  <2> QED
    BY <1>0, <2>1 DEF PickInv
<1>8. ASSUME NEW r \in Radii, SlideRadius(r) PROVE PickInv'
  <2>1. UNCHANGED <<picked, flight, mapLeft, mapState>> /\ ~mapLeft
    BY <1>8 DEF SlideRadius, cameraVars, MapShown
  <2>2. CASE lastCenter # NoPlace
    <3>0. AskArea(lastCenter)
      BY <1>8, <2>2 DEF SlideRadius
    <3>1. searched'.at = lastCenter /\ (~early' => ~early)
      BY <3>0 DEF AskArea
    <3>2. ~early /\ searched.at = picked /\ picked # NoPlace => searched.at = lastCenter
      BY DEF CircleInv, NoSearch
    <3> QED
      BY <1>0, <2>1, <3>1, <3>2 DEF PickInv
  <2>3. CASE lastCenter = NoPlace /\ HasMap
    <3>1. searched = NoSearch
      BY <2>3 DEF CircleInv
    <3>2. ~early' => ~early
      BY <1>8, <2>3 DEF SlideRadius, AskArea
    <3> QED
      BY <1>0, <2>1, <3>1, <3>2 DEF PickInv, NoSearch
  <2>4. CASE lastCenter = NoPlace /\ ~HasMap
    BY <1>8, <2>1, <2>4, PickStays DEF SlideRadius
  <2> QED
    BY <2>2, <2>3, <2>4
<1>9. CASE LeaveMap
  BY <1>9 DEF LeaveMap, PickInv
<1> QED
  BY <1>1, <1>2, <1>3, <1>5, <1>6, <1>7, <1>8, <1>9 DEF MapNext, AreaNext, SearchBarNext

-----------------------------------------------------------------------------
(* The types of the map: an area asked for, the camera's flight, the       *)
(* circle that is drawn, the search for a place and what geocoding costs.  *)
AreaTypes ==
    /\ lastCenter \in Places \cup {NoPlace} /\ radius \in Radii /\ early \in BOOLEAN
    /\ searched \in [at: Places \cup {NoPlace}, radius: Radii]

CameraTypes ==
    /\ camera \in Places /\ suppress \in BOOLEAN /\ areaButton \in BOOLEAN
    /\ flight \in [to: Places \cup {NoPlace}, then: {"none", "search", "locate"}]

CircleTypes == animation \in BOOLEAN /\ rings \in [Rings -> {"still", "waiting", "running"}]

SearchTypes ==
    /\ searchBar \in BOOLEAN /\ mapSuggestions \in BOOLEAN /\ typeTimer \in BOOLEAN
    /\ geocoding \in 0..MaxGeocoding

OtherMapTypes ==
    /\ mapState \in {"importing", "created", "loaded", "failed", "removed"}
    /\ mapLeft \in BOOLEAN /\ positionAsked \in BOOLEAN
    /\ selectedTask \in BOOLEAN /\ drawer \in BOOLEAN

PickTypes == picked \in Places \cup {NoPlace}

LEMMA MapTypeParts ==
    /\ MapTypeOK <=> /\ AreaTypes /\ CameraTypes /\ CircleTypes /\ SearchTypes
                     /\ OtherMapTypes /\ PickTypes
    /\ AreaTypes' /\ CameraTypes' /\ CircleTypes' /\ SearchTypes' /\ OtherMapTypes' /\ PickTypes'
          => MapTypeOK'
BY DEF MapTypeOK, AreaTypes, CameraTypes, CircleTypes, SearchTypes, OtherMapTypes, PickTypes

(* A place that is picked is one of the map's.                             *)
LEMMA StepPickTypes ==
    ASSUME PickTypes, CameraTypes, [MapNext]_mapVars
    PROVE  PickTypes'
<1> USE DEF PickTypes
<1>1. CASE \/ CreateMap \/ MapLoads \/ CircleGrown \/ AskPosition \/ ToggleDrawer \/ LeaveMap
           \/ SearchBarNext /\ ~\E spot \in Places : SelectSuggestion(spot)
           \/ \E at \in Places : MoveMap(at)
           \/ \E r \in Radii : SlideRadius(r)
           \/ \E ring \in Rings : RingRuns(ring)
           \/ \E b \in BOOLEAN : ClickMarker(b)
           \/ UNCHANGED mapVars
  <2>1. picked' = picked
    BY <1>1 DEF CreateMap, MapLoads, CircleGrown, AskPosition, ToggleDrawer, LeaveMap,
       SearchBarNext, OpenSearchBar, CloseSearchBar, TypePlace, TypeTimerFires,
       MapSuggestionsArrive, MoveMap, SlideRadius, RingRuns, ClickMarker, mapVars, areaVars
  <2> QED
    BY <2>1
<1>2. ASSUME NEW at \in Places, FlightEnds(at) PROVE PickTypes'
  BY <1>2 DEF FlightEnds, PickAfter
<1>3. ASSUME NEW to \in Places, NEW next \in {"none", "search", "locate"},
             FlyTo(to, next) \/ StayPut
      PROVE  PickTypes'
  BY <1>3 DEF FlyTo, PickAfter, StayPut, areaVars
<1>4. CASE \E to \in Places : PositionArrives(to) \/ SelectSuggestion(to) \/ TasksChange(to)
  <2>1. PICK to \in Places, next \in {"none", "search", "locate"} : FlyTo(to, next) \/ StayPut
    BY <1>4 DEF PositionArrives, SelectSuggestion, TasksChange
  <2> QED
    BY <1>3, <2>1
<1>5. CASE \E to \in Places \cup {NoPlace} : ClickPanelTask(to)
  <2>1. PICK to \in Places, next \in {"none", "search", "locate"} : FlyTo(to, next) \/ StayPut
    BY <1>5, MapAssumption DEF ClickPanelTask
  <2> QED
    BY <1>3, <2>1
<1>6. CASE SearchThisArea
  BY <1>6 DEF SearchThisArea, CameraTypes
<1> QED
  BY <1>1, <1>2, <1>4, <1>5, <1>6 DEF MapNext, AreaNext, SearchBarNext

LEMMA InitMapTypes == MapInit => MapTypeOK
<1> SUFFICES ASSUME MapInit PROVE MapTypeOK
  OBVIOUS
<1>1. AreaTypes /\ CameraTypes
  BY MapAssumption DEF MapInit, AreaTypes, CameraTypes, NoSearch, NoFlight
<1>2. SearchTypes
  <2>1. geocoding = 0 /\ MaxGeocoding \in Nat
    BY MapAssumption DEF MapInit
  <2>2. geocoding \in 0..MaxGeocoding
    BY <2>1
  <2> QED
    BY <2>2 DEF MapInit, SearchTypes
<1>4. OtherMapTypes /\ PickTypes
  BY DEF MapInit, OtherMapTypes, PickTypes
<1>3. CircleTypes
  BY DEF MapInit, CircleTypes, Still
<1> QED
  BY <1>1, <1>2, <1>3, <1>4, MapTypeParts

LEMMA DrawKeepsTypes ==
    ASSUME CircleTypes, DrawCircle
    PROVE  CircleTypes'
BY DEF CircleTypes, DrawCircle, circleVars, Still

LEMMA AskKeepsTypes ==
    ASSUME AreaTypes, radius' \in Radii, NEW to \in Places \cup {NoPlace}, AskArea(to)
    PROVE  AreaTypes'
<1>1. early' = TRUE \/ early' = FALSE
  BY Zenon DEF AskArea
<1> QED
  BY <1>1 DEF AreaTypes, AskArea

LEMMA LandingKeepsTypes ==
    ASSUME AreaTypes, CameraTypes, NEW at \in Places, AfterFlight(at)
    PROVE  AreaTypes'
<1>1. radius' = radius /\ radius \in Radii /\ flight.to \in Places \cup {NoPlace}
      /\ flight.then \in {"none", "search", "locate"}
  BY DEF AfterFlight, AreaTypes, CameraTypes
<1>2. CASE UNCHANGED <<lastCenter, searched, early>>
  BY <1>1, <1>2 DEF AreaTypes
<1>3. CASE AskArea(at)
  BY <1>1, <1>3, AskKeepsTypes
<1>4. CASE AskArea(flight.to)
  <2>1. PICK p \in Places \cup {NoPlace} : p = flight.to
    BY <1>1
  <2>2. AskArea(p)
    BY <1>4, <2>1
  <2> QED
    BY <1>1, <2>2, AskKeepsTypes
<1>5. UNCHANGED <<lastCenter, searched, early>> \/ AskArea(at) \/ AskArea(flight.to)
  BY <1>1 DEF AfterFlight
<1> QED
  BY <1>2, <1>3, <1>4, <1>5

LEMMA FlyToKeepsTypes ==
    ASSUME AreaTypes, CameraTypes, NEW to \in Places, NEW next \in {"none", "search", "locate"},
           FlyTo(to, next)
    PROVE  AreaTypes' /\ CameraTypes'
<1>1. flight' \in [to: Places \cup {NoPlace}, then: {"none", "search", "locate"}]
  BY DEF FlyTo
<1>2. suppress' = TRUE \/ suppress' = FALSE
  BY Zenon DEF FlyTo
<1>3. CASE UNCHANGED <<camera, areaButton, lastCenter, radius, searched, early>>
  BY <1>1, <1>2, <1>3 DEF AreaTypes, CameraTypes
<1>4. ASSUME NEW at \in Places, camera' = at, AfterFlight(at),
             areaButton' = (flight.then = "none" /\ areaButton)
      PROVE  AreaTypes' /\ CameraTypes'
  <2>1. areaButton' = TRUE \/ areaButton' = FALSE
    BY <1>4, Zenon
  <2>2. AreaTypes'
    BY <1>4, LandingKeepsTypes
  <2> QED
    BY <1>1, <1>2, <1>4, <2>1, <2>2 DEF CameraTypes
<1> QED
  BY <1>3, <1>4, Zenon DEF FlyTo

LEMMA FliesOrStays ==
    ASSUME MapTypeOK, NEW to \in Places, NEW next \in {"none", "search", "locate"},
           FlyTo(to, next) \/ StayPut, DrawCircle
    PROVE  AreaTypes' /\ CameraTypes' /\ CircleTypes'
<1>1. AreaTypes /\ CameraTypes /\ CircleTypes
  BY MapTypeParts
<1>2. CircleTypes'
  BY <1>1, DrawKeepsTypes
<1>3. CASE StayPut
  BY <1>1, <1>2, <1>3 DEF StayPut, AreaTypes, CameraTypes, areaVars
<1> QED
  BY <1>1, <1>2, <1>3, FlyToKeepsTypes

LEMMA StepMapTypes == MapTypeOK /\ [MapNext]_mapVars => MapTypeOK'
<1> SUFFICES ASSUME MapTypeOK, [MapNext]_mapVars PROVE MapTypeOK'
  OBVIOUS
<1> USE DEF cameraVars, circleVars, areaVars, searchVars, panelVars
<1>0. AreaTypes /\ CameraTypes /\ CircleTypes /\ SearchTypes /\ OtherMapTypes
  BY MapTypeParts
<1>a. PickTypes'
  BY <1>0, StepPickTypes, MapTypeParts
<1>1. CASE CreateMap \/ CircleGrown \/ AskPosition \/ ToggleDrawer \/ OpenSearchBar \/ CloseSearchBar
           \/ UNCHANGED mapVars
  BY <1>0, <1>1, <1>a, MapTypeParts
     DEF CreateMap, CircleGrown, AskPosition, ToggleDrawer, OpenSearchBar, CloseSearchBar, mapVars,
         AreaTypes, CameraTypes, CircleTypes, SearchTypes, OtherMapTypes
<1>2. ASSUME NEW b \in BOOLEAN, TypeTimerFires \/ TypePlace(b) \/ MapSuggestionsArrive(b)
      PROVE  MapTypeOK'
  <2>1. SearchTypes'
    <3>1. geocoding \in 0..MaxGeocoding /\ MaxGeocoding \in Nat
      BY <1>0, MapAssumption DEF SearchTypes
    <3>2. \/ geocoding' = geocoding
          \/ geocoding < MaxGeocoding /\ geocoding' = geocoding + 1
          \/ geocoding > 0 /\ geocoding' = geocoding - 1
      BY <1>2 DEF TypePlace, TypeTimerFires, MapSuggestionsArrive
    <3>3. geocoding' \in 0..MaxGeocoding
      BY <3>1, <3>2
    <3> QED
      BY <1>0, <1>2, <3>3 DEF TypePlace, TypeTimerFires, MapSuggestionsArrive, SearchTypes
  <2> QED
    BY <1>0, <1>2, <2>1, <1>a, MapTypeParts
       DEF TypePlace, TypeTimerFires, MapSuggestionsArrive,
           AreaTypes, CameraTypes, CircleTypes, OtherMapTypes
<1>3. ASSUME NEW b \in BOOLEAN, ClickMarker(b) PROVE MapTypeOK'
  <2>1. drawer' = TRUE \/ drawer' = FALSE
    BY <1>3, Zenon DEF ClickMarker
  <2> QED
    BY <1>0, <1>3, <2>1, <1>a, MapTypeParts DEF ClickMarker, AreaTypes, CameraTypes, CircleTypes, SearchTypes, OtherMapTypes
<1>4. ASSUME NEW ring \in Rings, RingRuns(ring) PROVE MapTypeOK'
  BY <1>0, <1>4, <1>a, MapTypeParts DEF RingRuns, AreaTypes, CameraTypes, CircleTypes, SearchTypes, OtherMapTypes
<1>5. CASE LeaveMap
  BY <1>0, <1>5, <1>a, MapTypeParts
     DEF LeaveMap, NoFlight, Still, AreaTypes, CameraTypes, CircleTypes, SearchTypes, OtherMapTypes
<1>6. CASE MapLoads
  <2>1. CircleTypes'
    BY <1>0, <1>6, DrawKeepsTypes DEF MapLoads
  <2> QED
    BY <1>0, <1>6, <2>1, <1>a, MapTypeParts, MapAssumption DEF MapLoads, AreaTypes, CameraTypes, SearchTypes, OtherMapTypes
<1>7. ASSUME NEW at \in Places, MoveMap(at) PROVE MapTypeOK'
  <2>1. areaButton' = TRUE \/ areaButton' = FALSE
    BY <1>7, Zenon DEF MoveMap, OfferSearch
  <2> QED
    BY <1>0, <1>7, <2>1, <1>a, MapTypeParts DEF MoveMap, AreaTypes, CameraTypes, CircleTypes, SearchTypes, OtherMapTypes
<1>8. ASSUME NEW at \in Places, FlightEnds(at) PROVE MapTypeOK'
  <2>1. areaButton' = TRUE \/ areaButton' = FALSE
    BY <1>8, Zenon DEF FlightEnds
  <2>2. CircleTypes' /\ AreaTypes'
    BY <1>0, <1>8, DrawKeepsTypes, LandingKeepsTypes DEF FlightEnds
  <2>3. CameraTypes'
    BY <1>0, <1>8, <2>1 DEF FlightEnds, CameraTypes, NoFlight
  <2> QED
    BY <1>0, <1>8, <2>2, <2>3, <1>a, MapTypeParts DEF FlightEnds, SearchTypes, OtherMapTypes
<1>9. ASSUME NEW to \in Places,
             PositionArrives(to) \/ SelectSuggestion(to) \/ TasksChange(to)
      PROVE  MapTypeOK'
  <2>1. AreaTypes' /\ CameraTypes' /\ CircleTypes'
    BY <1>9, FliesOrStays DEF PositionArrives, SelectSuggestion, TasksChange
  <2> QED
    BY <1>0, <1>9, <2>1, <1>a, MapTypeParts DEF PositionArrives, SelectSuggestion, TasksChange, SearchTypes, OtherMapTypes
<1>10. ASSUME NEW to \in Places \cup {NoPlace}, ClickPanelTask(to) PROVE MapTypeOK'
  <2>1. AreaTypes' /\ CameraTypes' /\ CircleTypes'
    <3>1. PICK at \in Places : FlyTo(at, "none") \/ StayPut
      BY <1>10, MapAssumption DEF ClickPanelTask
    <3> QED
      BY <1>10, <3>1, FliesOrStays DEF ClickPanelTask
  <2> QED
    BY <1>0, <1>10, <2>1, <1>a, MapTypeParts DEF ClickPanelTask, SearchTypes, OtherMapTypes
<1>11. CASE SearchThisArea
  <2>1. AskArea(camera) /\ radius' \in Radii /\ camera \in Places \cup {NoPlace} /\ DrawCircle
    BY <1>0, <1>11 DEF SearchThisArea, CameraTypes, AreaTypes
  <2>2. AreaTypes' /\ CircleTypes'
    BY <1>0, <2>1, DrawKeepsTypes, AskKeepsTypes
  <2> QED
    BY <1>0, <1>11, <2>2, <1>a, MapTypeParts DEF SearchThisArea, CameraTypes, SearchTypes, OtherMapTypes
<1>12. ASSUME NEW r \in Radii, SlideRadius(r) PROVE MapTypeOK'
  <2>1. /\ radius' \in Radii /\ DrawCircle
        /\ AskArea(lastCenter) \/ AskArea(camera) \/ UNCHANGED <<lastCenter, searched, early>>
        /\ camera \in Places \cup {NoPlace} /\ lastCenter \in Places \cup {NoPlace}
    BY <1>0, <1>12 DEF SlideRadius, CameraTypes, AreaTypes
  <2>2. AreaTypes'
    <3>1. CASE UNCHANGED <<lastCenter, searched, early>>
      BY <1>0, <2>1, <3>1 DEF AreaTypes
    <3> QED
      BY <1>0, <2>1, <3>1, AskKeepsTypes
  <2>3. CircleTypes'
    BY <1>0, <2>1, DrawKeepsTypes
  <2> QED
    BY <1>0, <1>12, <2>2, <2>3, <1>a, MapTypeParts DEF SlideRadius, CameraTypes, SearchTypes, OtherMapTypes
<1> QED
  BY <1>1, <1>2, <1>3, <1>4, <1>5, <1>6, <1>7, <1>8, <1>9, <1>10, <1>11, <1>12
     DEF MapNext, AreaNext, SearchBarNext

-----------------------------------------------------------------------------
(* The place of a task: after a choice that was not hasty, a name that is  *)
(* still asked for is that of the marked point.                            *)
PlaceInv ==
    /\ asks \in [Asks -> Points \cup {Nowhere}]
    /\ hasty \in BOOLEAN
    /\ ~hasty => /\ \A a \in Asks : asks[a] # Nowhere => asks[a] = position
                 /\ ~Asking => value.at = position

LEMMA InitPlace == PlaceInit => PlaceInv
<1> SUFFICES ASSUME PlaceInit PROVE PlaceInv
  OBVIOUS
<1>1. asks = [a \in Asks |-> Nowhere] /\ hasty = FALSE
  BY DEF PlaceInit
<1>2. value.at = position
  BY DEF PlaceInit, NoChoice, Choice
<1> QED
  BY <1>1, <1>2 DEF PlaceInv

LEMMA StepPlace == PlaceInv /\ [PlaceNext]_placeVars => PlaceInv'
<1> SUFFICES ASSUME PlaceInv, [PlaceNext]_placeVars PROVE PlaceInv'
  OBVIOUS
<1>1. CASE \/ MapMade \/ MapLoaded \/ StartSearch \/ SuggestionsArrive \/ Blur
           \/ UNCHANGED placeVars
           \/ \E text \in Searches \cup {Nowhere} : Type(text)
  <2>1. UNCHANGED <<position, value, asks, hasty>>
    BY <1>1 DEF MapMade, MapLoaded, StartSearch, SuggestionsArrive, Blur, placeVars, Type
  <2> QED
    BY <2>1 DEF PlaceInv, Asking
<1>2. ASSUME NEW p \in Points, SelectPlace(p) \/ FormGivesPlace(p) PROVE PlaceInv'
  <2>1. asks' = asks /\ value' = Choice(p, TRUE)
    BY <1>2 DEF SelectPlace, FormGivesPlace
  <2>2. hasty' = TRUE \/ hasty' = FALSE
    BY <1>2, Zenon DEF SelectPlace, FormGivesPlace
  <2>3. ~hasty' => ~Asking /\ position' = p
    BY <1>2, Zenon DEF SelectPlace, FormGivesPlace
  <2>4. value'.at = p
    BY <2>1 DEF Choice
  <2> QED
    BY <2>1, <2>2, <2>3, <2>4 DEF PlaceInv, Asking
<1>3. ASSUME NEW p \in Points, NEW a \in Asks, ClickMap(p, a) \/ DragMarker(p, a)
      PROVE  PlaceInv'
  <2>1. asks' = [asks EXCEPT ![a] = p] /\ position' = p
    BY <1>3 DEF ClickMap, DragMarker, AskName
  <2>7. hasty' = Asking
    BY <1>3, Zenon DEF ClickMap, DragMarker
  <2>8. Asking = TRUE \/ Asking = FALSE
    BY DEF Asking
  <2>2. hasty' = TRUE \/ hasty' = FALSE
    BY <2>7, <2>8, Zenon
  <2>3. ~hasty' => ~Asking
    BY <2>7, Zenon
  <2>4. asks' \in [Asks -> Points \cup {Nowhere}] /\ asks'[a] = p
    BY <2>1 DEF PlaceInv
  <2>5. \A b \in Asks : b # a => asks'[b] = asks[b]
    BY <2>1 DEF PlaceInv
  <2>6. Asking'
    BY <2>4, NowhereAssumption DEF Asking
  <2> QED
    BY <2>1, <2>2, <2>3, <2>4, <2>5, <2>6 DEF PlaceInv, Asking
<1>4. ASSUME NEW a \in Asks, NameArrives(a) PROVE PlaceInv'
  <2>1. asks' = [asks EXCEPT ![a] = Nowhere] /\ UNCHANGED <<position, hasty>> /\ asks[a] # Nowhere
    BY <1>4 DEF NameArrives
  <2>2. PICK named \in BOOLEAN : value' = Choice(asks[a], named)
    BY <1>4 DEF NameArrives
  <2>3. value'.at = asks[a]
    BY <2>2 DEF Choice
  <2>4. /\ asks' \in [Asks -> Points \cup {Nowhere}]
        /\ \A b \in Asks : asks'[b] # Nowhere => asks'[b] = asks[b]
    BY <2>1 DEF PlaceInv
  <2> QED
    BY <2>1, <2>3, <2>4 DEF PlaceInv
<1> QED
  BY <1>1, <1>2, <1>3, <1>4 DEF PlaceNext

-----------------------------------------------------------------------------
(* The deadline: a chip that is marked is one of those computed when the   *)
(* form was opened, and gave its time.                                     *)
PresetInv ==
    /\ opened \in Nat /\ now \in Nat /\ chosenAt \in Nat
    /\ dmode = "chips" /\ preset # NoPreset =>
          \E p \in Presets(opened) : preset = p.key /\ deadline = p.at

LEMMA HoursAreNat ==
    ASSUME NEW d \in Nat, NEW h \in ClockHours
    PROVE  At(d, h) \in Nat
  BY ClockAssumption DEF At

LEMMA InitPreset == DeadlineInit => PresetInv
<1> SUFFICES ASSUME DeadlineInit PROVE PresetInv
  OBVIOUS
<1>1. PICK d \in FirstDays, h \in ClockHours : now = At(d, h)
  BY DEF DeadlineInit
<1>2. d \in Nat
  BY ClockAssumption
<1>3. now \in Nat
  BY <1>1, <1>2, HoursAreNat
<1> QED
  BY <1>3 DEF DeadlineInit, PresetInv

LEMMA StepPreset == PresetInv /\ [DeadlineNext]_deadlineVars => PresetInv'
<1> SUFFICES ASSUME PresetInv, [DeadlineNext]_deadlineVars PROVE PresetInv'
  OBVIOUS
<1>1. CASE Tick
  <2>1. PICK d \in Day(now)..Day(opened) + LastDay, h \in ClockHours : now' = At(d, h)
    BY <1>1 DEF Tick
  <2>2. Day(now) \in Nat
    BY DEF Day, PresetInv
  <2>3. d \in Nat
    BY <2>2
  <2>4. now' \in Nat
    BY <2>1, <2>3, HoursAreNat
  <2> QED
    BY <1>1, <2>4 DEF Tick, PresetInv
<1>2. ASSUME NEW p \in Presets(opened), ClickPreset(p) PROVE PresetInv'
  BY <1>2 DEF ClickPreset, PresetInv
<1>3. CASE ClickCustom
  BY <1>3 DEF ClickCustom, EmitCustom, PresetInv
<1>4. ASSUME NEW day, ChangeDay(day) PROVE PresetInv'
  BY <1>4 DEF ChangeDay, EmitCustom, PresetInv
<1>5. ASSUME NEW hour, ChangeHour(hour) PROVE PresetInv'
  BY <1>5 DEF ChangeHour, EmitCustom, PresetInv
<1>6. CASE Clear
  BY <1>6 DEF Clear, PresetInv
<1>7. ASSUME NEW t, FormGivesDeadline(t) PROVE PresetInv'
  BY <1>7 DEF FormGivesDeadline, PresetInv
<1>8. CASE UNCHANGED deadlineVars
  BY <1>8 DEF deadlineVars, PresetInv
<1> QED
  BY <1>1, <1>2, <1>3, <1>4, <1>5, <1>6, <1>7, <1>8 DEF DeadlineNext

(* Days and hours: what is at a later day is later.                        *)
LEMMA DayParts ==
    ASSUME NEW t \in Nat
    PROVE  Day(t) \in Nat /\ t % 24 \in 0..23 /\ t = 24 * Day(t) + (t % 24)
<1>1. t = 24 * (t \div 24) + (t % 24)
  OBVIOUS
<1>2. t \div 24 \in Nat
  OBVIOUS
<1>3. t % 24 \in 0..23
  OBVIOUS
<1> QED
  BY <1>1, <1>2, <1>3 DEF Day

LEMMA LaterDay ==
    ASSUME NEW t \in Nat, NEW d \in Nat, NEW h \in Nat, d > Day(t)
    PROVE  At(d, h) > t
<1>1. PICK e, m : e = Day(t) /\ m = t % 24 /\ e \in Nat /\ m \in 0..23 /\ t = 24 * e + m
  BY DayParts
<1> QED
  BY <1>1 DEF At

LEMMA PresetIsLater ==
    ASSUME NEW t \in Nat, NEW u \in Nat, NEW p \in Presets(t), Day(u) = Day(t),
           p.key = "tonightTenPm" => u % 24 < 22,
           ~(p.key = "nextWeekend" /\ Weekday(Day(t)) = 6)
    PROVE  p.at > u
<1>1. PICK d : d = Day(t) /\ d \in Nat /\ d = Day(u)
  BY DayParts
<1>2. PICK w : w = Weekday(d) /\ w \in 0..6 /\ (Weekend(d) <=> w \in {0, 6})
  BY <1>1 DEF Weekday, Weekend
<1>3. DaysToMonday(d) \in 1..7
  BY <1>1 DEF DaysToMonday, Weekday
<1>4. CASE p = [key |-> "tonightTenPm", at |-> At(d, 22)]
  <2>1. PICK m : m = u % 24 /\ m \in 0..23 /\ u = 24 * d + m
    BY <1>1, DayParts
  <2> QED
    BY <1>1, <1>4, <2>1 DEF At
<1>5. CASE \/ p = [key |-> "tomorrowMorning", at |-> At(d + 1, 9)]
           \/ p = [key |-> "tomorrowEvening", at |-> At(d + 1, 18)]
  BY <1>1, <1>5, LaterDay
<1>6. CASE p = [key |-> IF Weekend(d) THEN "nextWeekend" ELSE "thisWeekend",
                at |-> At(d + 6 - Weekday(d), 18)]
  <2>1. w \in 0..5
    BY <1>1, <1>2, <1>6
  <2>2. d + 6 - w \in Nat /\ d + 6 - w > d
    BY <1>1, <2>1
  <2> QED
    BY <1>1, <1>2, <1>6, <2>2, LaterDay
<1>7. CASE p = [key |-> "nextWeek", at |-> At(d + DaysToMonday(d), 18)]
  <2>1. PICK n \in 1..7 : n = DaysToMonday(d)
    BY <1>3
  <2>2. d + n \in Nat /\ d + n > d
    BY <1>1
  <2> QED
    BY <1>1, <1>7, <2>1, <2>2, LaterDay
<1> QED
  BY <1>1, <1>4, <1>5, <1>6, <1>7 DEF Presets

LEMMA PresetsAreAhead == PresetInv => PresetIsAhead
<1> SUFFICES ASSUME PresetInv, dmode = "chips", preset # NoPreset,
                    Day(chosenAt) = Day(opened),
                    preset = "tonightTenPm" => chosenAt % 24 < 22,
                    ~(preset = "nextWeekend" /\ Weekday(Day(opened)) = 6)
             PROVE  deadline > chosenAt
  BY DEF PresetIsAhead
<1>1. PICK p \in Presets(opened) : preset = p.key /\ deadline = p.at
  BY DEF PresetInv
<1> QED
  BY <1>1, PresetIsLater DEF PresetInv

-----------------------------------------------------------------------------
(* The types of the two fields of the form about a place and a deadline.   *)
PointTypes ==
    /\ map \in {"none", "made", "loaded"}
    /\ typed \in Searches \cup {Nowhere} /\ searching \in Searches \cup {Nowhere}
    /\ suggestions \in Searches \cup {Nowhere}
    /\ listOpen \in BOOLEAN /\ hasty \in BOOLEAN
    /\ marker \in Points \cup {Nowhere} /\ position \in Points \cup {Nowhere}
    /\ value \in [at : Points \cup {Nowhere}, named : BOOLEAN]
    /\ asks \in [Asks -> Points \cup {Nowhere}]

HourTypes ==
    /\ now \in Nat /\ opened \in Nat /\ chosenAt \in Nat
    /\ today \in {Unset} \cup Nat /\ customDay \in {Unset} \cup Nat
    /\ customHour \in {Unset} \cup 0..23 /\ deadline \in {Unset} \cup Nat

ModeTypes ==
    /\ dmode \in {"chips", "custom"}
    /\ preset \in {NoPreset, "tonightTenPm", "tomorrowMorning", "tomorrowEvening",
                   "thisWeekend", "nextWeekend", "nextWeek"}

PickersTyped == PointTypes /\ HourTypes /\ ModeTypes

LEMMA PickersTypedIsTyped == PickersTyped => PickersTypeOK
  BY DEF PickersTyped, PointTypes, HourTypes, ModeTypes, PickersTypeOK

LEMMA InitPointTypes == PlaceInit => PointTypes
<1> SUFFICES ASSUME PlaceInit PROVE PointTypes
  OBVIOUS
<1>1. value \in [at : Points \cup {Nowhere}, named : BOOLEAN]
  BY DEF PlaceInit, NoChoice, Choice
<1>2. asks \in [Asks -> Points \cup {Nowhere}]
  BY DEF PlaceInit
<1>3. listOpen \in BOOLEAN /\ hasty \in BOOLEAN
  BY DEF PlaceInit
<1> QED
  BY <1>1, <1>2, <1>3 DEF PlaceInit, PointTypes

LEMMA StepPointTypes == PointTypes /\ [PlaceNext]_placeVars => PointTypes'
<1> SUFFICES ASSUME PointTypes, [PlaceNext]_placeVars PROVE PointTypes'
  OBVIOUS
<1> USE DEF PointTypes
<1>1. CASE MapMade \/ MapLoaded \/ StartSearch \/ SuggestionsArrive \/ Blur \/ UNCHANGED placeVars
  BY <1>1 DEF MapMade, MapLoaded, StartSearch, SuggestionsArrive, Blur, placeVars
<1>2. ASSUME NEW text \in Searches \cup {Nowhere}, Type(text) PROVE PointTypes'
  BY <1>2 DEF Type
<1>3. ASSUME NEW p \in Points, SelectPlace(p) \/ FormGivesPlace(p) PROVE PointTypes'
  <2>1. hasty' = TRUE \/ hasty' = FALSE
    BY <1>3, Zenon DEF SelectPlace, FormGivesPlace
  <2>2. value' = Choice(p, TRUE)
    BY <1>3, Zenon DEF SelectPlace, FormGivesPlace
  <2>3. value' \in [at : Points \cup {Nowhere}, named : BOOLEAN]
    BY <2>2 DEF Choice
  <2>4. marker' \in Points \cup {Nowhere} /\ position' \in Points \cup {Nowhere}
    BY <1>3 DEF SelectPlace, FormGivesPlace
  <2>5. /\ UNCHANGED <<map, typed, searching, asks>>
        /\ suggestions' \in Searches \cup {Nowhere} /\ listOpen' \in BOOLEAN
    BY <1>3 DEF SelectPlace, FormGivesPlace
  <2> QED
    BY <2>1, <2>3, <2>4, <2>5
<1>4. ASSUME NEW p \in Points, NEW a \in Asks, ClickMap(p, a) \/ DragMarker(p, a) PROVE PointTypes'
  <2>1. hasty' = Asking
    BY <1>4, Zenon DEF ClickMap, DragMarker
  <2>2. Asking = TRUE \/ Asking = FALSE
    BY DEF Asking
  <2>3. hasty' \in BOOLEAN
    BY <2>1, <2>2, Zenon
  <2> QED
    BY <1>4, <2>3 DEF ClickMap, DragMarker, AskName
<1>5. ASSUME NEW a \in Asks, NameArrives(a) PROVE PointTypes'
  <2>1. hasty' = TRUE \/ hasty' = FALSE
    BY <1>5, Zenon DEF NameArrives
  <2>2. asks[a] \in Points \cup {Nowhere}
    OBVIOUS
  <2>3. value' \in [at : Points \cup {Nowhere}, named : BOOLEAN]
    BY <1>5, <2>2 DEF NameArrives, Choice
  <2> QED
    BY <1>5, <2>1, <2>3 DEF NameArrives
<1> QED
  BY <1>1, <1>2, <1>3, <1>4, <1>5 DEF PlaceNext

LEMMA InitHourTypes == DeadlineInit => HourTypes
<1> SUFFICES ASSUME DeadlineInit PROVE HourTypes
  OBVIOUS
<1>1. opened \in Nat /\ now \in Nat /\ chosenAt \in Nat
  BY InitPreset DEF PresetInv
<1> QED
  BY <1>1 DEF DeadlineInit, HourTypes

LEMMA PresetParts ==
    ASSUME NEW t \in Nat, NEW p \in Presets(t)
    PROVE  /\ p.at \in Nat
           /\ p.key \in {"tonightTenPm", "tomorrowMorning", "tomorrowEvening", "thisWeekend",
                         "nextWeekend", "nextWeek"}
<1>1. PICK d : d = Day(t) /\ d \in Nat
  BY DayParts
<1>2. PICK w : w = Weekday(d) /\ w \in 0..6
  BY <1>1 DEF Weekday
<1>3. PICK n \in 1..7 : n = DaysToMonday(d)
  BY <1>1 DEF DaysToMonday, Weekday
<1>4. d + 6 - w \in Nat /\ d + n \in Nat
  BY <1>1, <1>2
<1>5. /\ At(d, 22) \in Nat /\ At(d + 1, 9) \in Nat /\ At(d + 1, 18) \in Nat
      /\ At(d + 6 - w, 18) \in Nat /\ At(d + n, 18) \in Nat
  BY <1>1, <1>4 DEF At
<1> QED
  BY <1>1, <1>2, <1>3, <1>5 DEF Presets

LEMMA CustomKeepsHours ==
    ASSUME HourTypes, NEW day \in {Unset} \cup Nat, NEW hour \in {Unset} \cup 0..23,
           EmitCustom(day, hour), now' = now, opened' = opened, today' \in {Unset} \cup Nat
    PROVE  HourTypes'
<1>1. day # Unset /\ hour # Unset => At(day, hour) \in Nat
  BY DEF At, Unset
<1>2. deadline' \in {Unset} \cup Nat
  BY <1>1 DEF EmitCustom, HourTypes
<1> QED
  BY <1>2 DEF EmitCustom, HourTypes

LEMMA StepHourTypes == HourTypes /\ [DeadlineNext]_deadlineVars => HourTypes'
<1> SUFFICES ASSUME HourTypes, [DeadlineNext]_deadlineVars PROVE HourTypes'
  OBVIOUS
<1>0. TodayDate \in Nat /\ Day(now) \in Nat
  BY DayParts DEF TodayDate, HourTypes, Unset
<1>1. CASE Tick
  <2>1. PICK d \in Day(now)..Day(opened) + LastDay, h \in ClockHours : now' = At(d, h)
    BY <1>1 DEF Tick
  <2>2. d \in Nat
    BY <1>0
  <2>3. now' \in Nat
    BY <2>1, <2>2, HoursAreNat
  <2> QED
    BY <1>1, <2>3 DEF Tick, HourTypes
<1>2. ASSUME NEW p \in Presets(opened), ClickPreset(p) PROVE HourTypes'
  <2>1. p.at \in Nat
    BY PresetParts DEF HourTypes
  <2> QED
    BY <1>2, <2>1 DEF ClickPreset, HourTypes
<1>3. CASE ClickCustom
  <2>1. PICK day \in {Unset} \cup Nat : day = IF customDay = Unset THEN TodayDate ELSE customDay
    BY <1>0 DEF HourTypes
  <2>2. EmitCustom(day, customHour) /\ today' \in {Unset} \cup Nat /\ now' = now /\ opened' = opened
    BY <1>0, <1>3, <2>1 DEF ClickCustom
  <2>3. customHour \in {Unset} \cup 0..23
    BY DEF HourTypes
  <2> QED
    BY <2>2, <2>3, CustomKeepsHours
<1>4. ASSUME NEW day \in FirstDays \cup {Unset}, ChangeDay(day) PROVE HourTypes'
  <2>1. day \in {Unset} \cup Nat /\ customHour \in {Unset} \cup 0..23
    BY ClockAssumption DEF HourTypes
  <2>2. EmitCustom(day, customHour) /\ today' \in {Unset} \cup Nat /\ now' = now /\ opened' = opened
    BY <1>4 DEF ChangeDay, HourTypes
  <2> QED
    BY <2>1, <2>2, CustomKeepsHours
<1>5. ASSUME NEW hour \in ChosenHours \cup {Unset}, ChangeHour(hour) PROVE HourTypes'
  <2>1. hour \in {Unset} \cup 0..23 /\ customDay \in {Unset} \cup Nat
    BY ClockAssumption DEF HourTypes
  <2>2. EmitCustom(customDay, hour) /\ today' \in {Unset} \cup Nat /\ now' = now /\ opened' = opened
    BY <1>5 DEF ChangeHour, HourTypes
  <2> QED
    BY <2>1, <2>2, CustomKeepsHours
<1>6. CASE Clear
  BY <1>6 DEF Clear, HourTypes
<1>7. ASSUME NEW d \in FirstDays, FormGivesDeadline(At(d, 10)) PROVE HourTypes'
  <2>1. PICK t : t = At(d, 10) /\ t \in Nat
    BY ClockAssumption DEF At
  <2>2. Day(t) \in Nat /\ t % 24 \in 0..23
    BY <2>1, DayParts
  <2>3. FormGivesDeadline(t)
    BY <1>7, <2>1
  <2> QED
    BY <1>0, <2>1, <2>2, <2>3 DEF FormGivesDeadline, HourTypes
<1>8. CASE UNCHANGED deadlineVars
  BY <1>8 DEF deadlineVars, HourTypes
<1> QED
  BY <1>1, <1>2, <1>3, <1>4, <1>5, <1>6, <1>7, <1>8 DEF DeadlineNext

LEMMA StepModeTypes ==
    ASSUME HourTypes, ModeTypes, [DeadlineNext]_deadlineVars
    PROVE  ModeTypes'
<1> USE DEF ModeTypes
<1>1. ASSUME NEW p \in Presets(opened), ClickPreset(p) PROVE ModeTypes'
  <2>1. p.key \in {"tonightTenPm", "tomorrowMorning", "tomorrowEvening", "thisWeekend",
                   "nextWeekend", "nextWeek"}
    BY PresetParts DEF HourTypes
  <2> QED
    BY <1>1, <2>1 DEF ClickPreset
<1>2. CASE Tick \/ ClickCustom \/ Clear \/ UNCHANGED deadlineVars
  BY <1>2 DEF Tick, ClickCustom, Clear, deadlineVars
<1>3. ASSUME NEW day, ChangeDay(day) \/ ChangeHour(day) \/ FormGivesDeadline(day) PROVE ModeTypes'
  BY <1>3 DEF ChangeDay, ChangeHour, FormGivesDeadline
<1> QED
  BY <1>1, <1>2, <1>3 DEF DeadlineNext

LEMMA InitPickersTyped == PlaceInit /\ DeadlineInit => PickersTyped
<1>1. DeadlineInit => ModeTypes
  BY DEF DeadlineInit, ModeTypes
<1> QED
  BY <1>1, InitPointTypes, InitHourTypes DEF PickersTyped

LEMMA StepPickersTyped ==
    PickersTyped /\ [PlaceNext]_placeVars /\ [DeadlineNext]_deadlineVars => PickersTyped'
  BY StepPointTypes, StepHourTypes, StepModeTypes DEF PickersTyped

-----------------------------------------------------------------------------
LEMMA PagesPlayMap ==
    /\ PagesInit => MapInit
    /\ [PagesNext]_pagesVars => [MapNext]_mapVars
<1>1. ASSUME NEW s \in Scenes, Play(s) PROVE [MapNext]_mapVars
  BY <1>1 DEF Play, MapNext
<1> QED
  BY <1>1 DEF PagesInit, PagesNext, pagesVars

LEMMA PagesPlayPickers ==
    /\ PagesInit => PlaceInit /\ DeadlineInit
    /\ [PagesNext]_pagesVars => [PlaceNext]_placeVars /\ [DeadlineNext]_deadlineVars
<1>1. PlaceNext => UNCHANGED deadlineVars
  BY DEF PlaceNext, MapMade, MapLoaded, Type, StartSearch, SuggestionsArrive, Blur, SelectPlace,
         FormGivesPlace, ClickMap, DragMarker, NameArrives
<1>2. DeadlineNext => UNCHANGED placeVars
  BY DEF DeadlineNext, Tick, ClickCustom, Clear, ClickPreset, ChangeDay, ChangeHour,
         FormGivesDeadline
<1>3. ASSUME NEW s \in Scenes, Play(s)
      PROVE  [PlaceNext]_placeVars /\ [DeadlineNext]_deadlineVars
  <2>1. PlaceNext \/ DeadlineNext \/ UNCHANGED pickerVars
    BY <1>3 DEF Play
  <2> QED
    BY <1>1, <1>2, <2>1 DEF pickerVars
<1> QED
  BY <1>3 DEF PagesInit, PagesNext, pagesVars, pickerVars

LEMMA PagesPlayHire ==
    /\ PagesInit => HireInit
    /\ [PagesNext]_pagesVars => [HireNext]_hireVars
<1>1. ASSUME NEW s \in Scenes, Play(s) PROVE [HireNext]_hireVars
  BY <1>1 DEF Play
<1> QED
  BY <1>1 DEF PagesInit, PagesNext, pagesVars

LEMMA PagesPlayForms ==
    /\ PagesInit => FormInit
    /\ [PagesNext]_pagesVars => [FormNext]_formsVars
<1>1. ASSUME NEW s \in Scenes, Play(s) PROVE [FormNext]_formsVars
  BY <1>1 DEF Play
<1> QED
  BY <1>1 DEF PagesInit, PagesNext, pagesVars

LEMMA PagesPlayCheckout ==
    /\ PagesInit => CheckoutInit
    /\ [PagesNext]_pagesVars => [CheckoutNext]_checkoutVars
<1>1. ASSUME NEW s \in Scenes, Play(s) PROVE [CheckoutNext]_checkoutVars
  BY <1>1 DEF Play
<1> QED
  BY <1>1 DEF PagesInit, PagesNext, pagesVars

(* For any places, radii, requests for names and days: the circle on the   *)
(* map is the area that was asked for; the tasks asked for are those       *)
(* around the place picked last; the form's place is the marked one; a     *)
(* chip's deadline is ahead. The theorem says no more than the four        *)
(* properties, which name their exceptions: an area asked for before the   *)
(* map was loaded, a suggestion whose flight is stopped elsewhere and a    *)
(* press of the button during a flight, a choice made while a name is      *)
(* asked for or without a map, a Saturday's chip of the next weekend.      *)
THEOREM PickedIsUsedHolds == PagesSpec => []PickedIsUsed
<1>1. PickInv => PickIsSearched
  BY DEF PickInv, PickIsSearched
<1>2. CircleInv /\ PickInv /\ PlaceInv /\ PresetInv => PickedIsUsed
  BY <1>1, PresetsAreAhead
     DEF PickedIsUsed, CircleInv, CircleIsAreaSearched, PlaceInv, PlaceIsMarked
<1> QED
  BY <1>2, PagesPlayMap, PagesPlayPickers, InitCircle, StepCircle, InitPick, StepPick,
     InitPlace, StepPlace, InitPreset, StepPreset, PTL DEF PagesSpec
=============================================================================
