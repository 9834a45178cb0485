-------------------------------- MODULE Hire --------------------------------
(***************************************************************************)
(* The page of one task (web/src/app/task-detail/task-detail.component.ts) *)
(* with the application cards and the dialogs it shows.                    *)
(*                                                                         *)
(* To hire someone the requester presses accept on an application, is      *)
(* asked to agree to an amount, and the page then makes two calls: accept  *)
(* the application, then hold the payment in escrow, topping the wallet up *)
(* when it is short.  Everything else may happen in between: other calls,  *)
(* new applications, an edit of the task from elsewhere, leaving the page. *)
(* An application may also be accepted and unpaid from before: its payment *)
(* was refused, or the calls that followed its acceptance were lost.       *)
(***************************************************************************)
EXTENDS Integers

CONSTANTS
    Applicants,     \* applications for the task
    Prices,
    Offers,         \* prices that applications propose, 0 for none
    HireCalls       \* bound: calls of the page in flight at a time

ASSUME PricesAssumption == Prices \subseteq Nat \ {0} /\ Offers \subseteq Prices \cup {0}

VARIABLES
    \* on the server
    status, price,  \* of the task
    offer,          \* what an application proposes
    verdict,        \* status of an application
    held,           \* amount put in escrow by this page
    \* the page
    mine, mayHire,  \* whether the user posted the task, and verified a phone
    applied,        \* whether the user has applied for it
    detail,         \* the task as loaded
    cards,          \* the applications as loaded
    dialog,         \* "none", "delete" or "escrow"
    chosen,         \* pendingAppId
    amount,         \* escrowAmount
    detailMap,      \* "none", "coming" or "shown"
    detailAt,       \* where the user is
    hireCalls,
    \* ghosts
    agreed,         \* amount agreed to for an application
    repriced        \* the task was edited while this page was open

serverVars == <<status, price, offer, verdict, held>>
userVars == <<mine, mayHire, applied>>
detailVars == <<detail, cards, dialog, chosen, amount, detailMap, detailAt>>
ghostVars == <<agreed, repriced>>
hireVars == <<serverVars, userVars, detailVars, hireCalls, ghostVars>>

NotLoaded == [status |-> "none", price |-> 0]
NoCards == [a \in Applicants |-> "none"]
NoCall == [op |-> "none", app |-> "none", got |-> "none"]

TaskStatus == {"open", "in_progress", "completed", "cancelled"}
Verdicts == {"none", "pending", "accepted", "rejected"}
Call == {NoCall} \cup
        [op: {"get", "apps", "accept", "escrow", "topup", "delete", "complete"},
         app: Applicants \cup {"none"},
         got: {"none", "checked", "taken", "waits", "ok", "short", "refused"}]

AskFor(c, op, a) ==
    /\ hireCalls[c] = NoCall
    /\ hireCalls' = [hireCalls EXCEPT ![c] = [op |-> op, app |-> a, got |-> "none"]]

(* Continue with another call once one has been answered.                  *)
Then(c, op) == hireCalls' = [hireCalls EXCEPT ![c] = [op |-> op, app |-> "none",
                                                      got |-> "none"]]
Over(c) == hireCalls' = [hireCalls EXCEPT ![c] = NoCall]

Answer(c, op, got) == hireCalls[c].op = op /\ hireCalls[c].got = got

(* ngOnInit                                                                *)
HireInit ==
    /\ price \in Prices /\ offer \in [Applicants -> Offers]
    /\ \/ status = "open" /\ verdict \in [Applicants -> Verdicts]
       \/ /\ status \in {"in_progress", "completed", "cancelled"}
          /\ \E a \in Applicants : verdict = [b \in Applicants |->
                IF a = b /\ status # "cancelled" THEN "accepted" ELSE "rejected"]
    /\ held = 0
    /\ mine \in BOOLEAN /\ mayHire \in BOOLEAN /\ applied \in BOOLEAN
    /\ mine => ~applied
    /\ detail = NotLoaded /\ cards = NoCards
    /\ dialog = "none" /\ chosen = "none" /\ amount = 0
    /\ detailMap = "none" /\ detailAt = "page"
    /\ hireCalls = [d \in HireCalls |->
            IF d = CHOOSE c \in HireCalls : TRUE THEN [op |-> "get", app |-> "none", got |-> "none"] ELSE NoCall]
    /\ agreed = [a \in Applicants |-> 0] /\ repriced = FALSE

-----------------------------------------------------------------------------
(* The server                                                              *)

(* What CreateEscrowPayment charges: what the oldest of the applications   *)
(* proposed that are accepted and propose something, or the task's price.  *)
Proposed == {offer[a] : a \in {b \in Applicants : verdict[b] = "accepted" /\ offer[b] # 0}}
Charges == IF Proposed = {} THEN {price} ELSE Proposed

(* A DeleteTask keeps the row of the task locked while it waits for itself *)
(* (see Escrow); the call ends only by being given up.                     *)
Locked == \E c \in HireCalls : hireCalls[c].got = "waits"

Replied(c, got) == hireCalls' = [hireCalls EXCEPT ![c].got = got]

ServePage(c) ==
    /\ hireCalls[c].op \in {"get", "apps", "topup"} /\ hireCalls[c].got = "none"
    /\ Replied(c, "ok")
    /\ UNCHANGED <<serverVars, userVars, detailVars, ghostVars>>

(* ApplyForTask, by another user                                           *)
Apply(a) ==
    /\ status = "open" /\ verdict[a] = "none"
    /\ verdict' = [verdict EXCEPT ![a] = "pending"]
    /\ UNCHANGED <<status, price, offer, held, userVars, detailVars, hireCalls, ghostVars>>

(* AcceptApplication checks, marks the application, and once it has given  *)
(* the task its tasker rejects the others; it may fail in between.         *)
CheckAccept(c) ==
    /\ Answer(c, "accept", "none")
    /\ status = "open" /\ verdict[hireCalls[c].app] = "pending"
    /\ Replied(c, "checked")
    /\ UNCHANGED <<serverVars, userVars, detailVars, ghostVars>>

TakeApplication(c) ==
    /\ Answer(c, "accept", "checked")
    /\ verdict' = [verdict EXCEPT ![hireCalls[c].app] = "accepted"]
    /\ Replied(c, "taken")
    /\ UNCHANGED <<status, price, offer, held, userVars, detailVars, ghostVars>>

RejectOthers(c) ==
    /\ Answer(c, "accept", "taken") /\ ~Locked
    /\ verdict' = [a \in Applicants |->
                     IF verdict[a] = "pending" THEN "rejected" ELSE verdict[a]]
    /\ Replied(c, "ok")
    /\ UNCHANGED <<status, price, offer, held, userVars, detailVars, ghostVars>>

ServeEscrow(c) ==
    /\ Answer(c, "escrow", "none") /\ ~Locked
    /\ status = "open"
    /\ status' = "in_progress" /\ held' \in Charges
    /\ Replied(c, "ok")
    /\ UNCHANGED <<price, offer, verdict, userVars, detailVars, ghostVars>>

WalletIsShort(c) ==
    /\ Answer(c, "escrow", "none") /\ ~Locked
    /\ status = "open"
    /\ Replied(c, "short")
    /\ UNCHANGED <<serverVars, userVars, detailVars, ghostVars>>

ServeDelete(c) ==
    /\ Answer(c, "delete", "none") /\ ~Locked
    /\ status = "open" /\ \A a \in Applicants : verdict[a] # "accepted"
    /\ Replied(c, "waits")
    /\ UNCHANGED <<serverVars, userVars, detailVars, ghostVars>>

ServeComplete(c) ==
    /\ Answer(c, "complete", "none")
    /\ status = "in_progress" /\ status' = "completed"
    /\ Replied(c, "ok")
    /\ UNCHANGED <<price, offer, verdict, held, userVars, detailVars, ghostVars>>

(* The call is refused, fails, or its answer is lost.                      *)
CallFails(c) ==
    /\ hireCalls[c].op # "none" /\ hireCalls[c].got # "refused"
    /\ Replied(c, "refused")
    /\ UNCHANGED <<serverVars, userVars, detailVars, ghostVars>>

(* UpdateTask, from the form in another window                             *)
EditTask(p) ==
    /\ mine /\ status = "open" /\ p # price /\ ~Locked
    /\ price' = p /\ repriced' = TRUE
    /\ UNCHANGED <<status, offer, verdict, held, userVars, detailVars, hireCalls, agreed>>

-----------------------------------------------------------------------------
(* The user; what the page shows decides what can be pressed.              *)

OnPage == detailAt = "page" /\ detail # NotLoaded
Open == dialog = "none" /\ OnPage
OwnerButtons == Open /\ mine /\ detail.status = "open"
CompleteButton == Open /\ mine /\ detail.status = "in_progress"
ApplyButton == Open /\ ~mine /\ detail.status = "open" /\ ~applied
AcceptButton(a) == OwnerButtons /\ cards[a] = "pending"

ConfirmDelete ==
    /\ OwnerButtons
    /\ dialog' = "delete"
    /\ UNCHANGED <<serverVars, userVars, detail, cards, chosen, amount, detailMap,
                   detailAt, hireCalls, ghostVars>>

DeleteTask(c) ==
    /\ OnPage /\ dialog = "delete"
    /\ dialog' = "none"
    /\ AskFor(c, "delete", "none")
    /\ UNCHANGED <<serverVars, userVars, detail, cards, chosen, amount, detailMap,
                   detailAt, ghostVars>>

(* The cancel button of a dialog; a click on what is behind it finds the   *)
(* shade as its target and does nothing.                                   *)
CloseDialog ==
    /\ OnPage /\ dialog # "none"
    /\ dialog' = "none"
    /\ UNCHANGED <<serverVars, userVars, detail, cards, chosen, amount, detailMap,
                   detailAt, hireCalls, ghostVars>>

(* Mutant of AmountOf: the price of the task is asked, whatever the offer. *)
AmountOfTask(a) == detail.price

AmountOf(a) == IF offer[a] # 0 THEN offer[a] ELSE detail.price

(* acceptApp                                                               *)
AcceptApp(a) ==
    /\ AcceptButton(a) /\ mayHire
    /\ chosen' = a /\ amount' = AmountOf(a)
    /\ dialog' = "escrow"
    /\ UNCHANGED <<serverVars, userVars, detail, cards, detailMap, detailAt, hireCalls,
                   ghostVars>>

(* executeAcceptApp                                                        *)
ExecuteAcceptApp(c) ==
    /\ OnPage /\ dialog = "escrow"
    /\ dialog' = "none"
    /\ AskFor(c, "accept", chosen)
    /\ agreed' = [agreed EXCEPT ![chosen] = amount]
    /\ UNCHANGED <<serverVars, userVars, detail, cards, chosen, amount, detailMap,
                   detailAt, repriced>>

CompleteTask(c) ==
    /\ CompleteButton
    /\ AskFor(c, "complete", "none")
    /\ UNCHANGED <<serverVars, userVars, detailVars, ghostVars>>

GoTo(place) ==
    /\ detailAt' = place
    /\ UNCHANGED <<serverVars, userVars, detail, cards, dialog, chosen, amount, detailMap,
                   hireCalls, ghostVars>>

NavigateToApply ==
    /\ ApplyButton
    /\ GoTo("apply")
GoEdit == OwnerButtons /\ GoTo("edit")
GoAway == detailAt = "page" /\ dialog = "none" /\ GoTo("elsewhere")

-----------------------------------------------------------------------------
(* Answers, which are applied wherever the user has gone meanwhile         *)

(* The task has a place, and gets a map.                                   *)
TaskArrives(c) ==
    /\ Answer(c, "get", "ok")
    /\ detail' = [status |-> status, price |-> price]
    /\ detailMap' = "coming"
    /\ IF mine THEN Then(c, "apps") ELSE Over(c)
    /\ UNCHANGED <<serverVars, userVars, cards, dialog, chosen, amount, detailAt, ghostVars>>

CardsArrive(c) ==
    /\ Answer(c, "apps", "ok")
    /\ cards' = verdict
    /\ Over(c)
    /\ UNCHANGED <<serverVars, userVars, detail, dialog, chosen, amount, detailMap,
                   detailAt, ghostVars>>

TaskNotFound(c) ==
    /\ Answer(c, "get", "refused")
    /\ detailAt' = "marketplace"
    /\ Over(c)
    /\ UNCHANGED <<serverVars, userVars, detail, cards, dialog, chosen, amount, detailMap,
                   ghostVars>>

Accepted(c) ==
    /\ Answer(c, "accept", "ok")
    /\ Then(c, "escrow")
    /\ UNCHANGED <<serverVars, userVars, detailVars, ghostVars>>

(* Both reload the page.                                                   *)
EscrowedOrCompleted(c) ==
    /\ Answer(c, "escrow", "ok") \/ Answer(c, "complete", "ok")
    /\ Then(c, "get")
    /\ UNCHANGED <<serverVars, userVars, detailVars, ghostVars>>

TopUp(c) ==
    /\ Answer(c, "escrow", "short")
    /\ Then(c, "topup")
    /\ UNCHANGED <<serverVars, userVars, detailVars, ghostVars>>

GoCheckout(c) ==
    /\ Answer(c, "topup", "ok")
    /\ detailAt' = "checkout"
    /\ Over(c)
    /\ UNCHANGED <<serverVars, userVars, detail, cards, dialog, chosen, amount, detailMap,
                   ghostVars>>

(* Any other failure is shown, or not even that, and nothing is retried.   *)
FailureShown(c) ==
    /\ hireCalls[c].got = "refused" /\ hireCalls[c].op # "get"
    /\ Over(c)
    /\ UNCHANGED <<serverVars, userVars, detailVars, ghostVars>>

(* initDetailMap                                                           *)
DetailMapShown ==
    /\ detailMap = "coming"
    /\ detailMap' = "shown"
    /\ UNCHANGED <<serverVars, userVars, detail, cards, dialog, chosen, amount, detailAt,
                   hireCalls, ghostVars>>

(* ngOnDestroy                                                             *)
DetailMapRemoved ==
    /\ detailAt # "page" /\ detailMap = "shown"
    /\ detailMap' = "none"
    /\ UNCHANGED <<serverVars, userVars, detail, cards, dialog, chosen, amount, detailAt,
                   hireCalls, ghostVars>>

HireNext ==
    \/ ConfirmDelete \/ CloseDialog
    \/ NavigateToApply \/ GoEdit \/ GoAway
    \/ DetailMapShown \/ DetailMapRemoved
    \/ \E a \in Applicants : Apply(a) \/ AcceptApp(a)
    \/ \E p \in Prices : EditTask(p)
    \/ \E c \in HireCalls :
          \/ ServePage(c) \/ ServeEscrow(c) \/ WalletIsShort(c)
          \/ CheckAccept(c) \/ TakeApplication(c) \/ RejectOthers(c)
          \/ ServeDelete(c) \/ ServeComplete(c) \/ CallFails(c)
          \/ DeleteTask(c) \/ ExecuteAcceptApp(c) \/ CompleteTask(c)
          \/ TaskArrives(c) \/ CardsArrive(c) \/ TaskNotFound(c) \/ Accepted(c)
          \/ EscrowedOrCompleted(c) \/ TopUp(c) \/ GoCheckout(c)
          \/ FailureShown(c)

HireSpec == HireInit /\ [][HireNext]_hireVars

-----------------------------------------------------------------------------
HireTypeOK ==
    /\ status \in TaskStatus /\ price \in Prices
    /\ offer \in [Applicants -> Offers]
    /\ verdict \in [Applicants -> Verdicts]
    /\ held \in Prices \cup {0} /\ amount \in Prices \cup {0}
    /\ {mine, mayHire, applied, repriced} \subseteq BOOLEAN
    /\ detail \in [status: TaskStatus, price: Prices] \cup {NotLoaded}
    /\ cards \in [Applicants -> Verdicts]
    /\ dialog \in {"none", "delete", "escrow"}
    /\ chosen \in Applicants \cup {"none"}
    /\ detailMap \in {"none", "coming", "shown"}
    /\ detailAt \in {"page", "apply", "edit", "marketplace", "checkout", "elsewhere"}
    /\ hireCalls \in [HireCalls -> Call]
    /\ agreed \in [Applicants -> Prices \cup {0}]

(* Accepted and unpaid, and not agreed to on this page                     *)
Earlier(a) == verdict[a] = "accepted" /\ agreed[a] = 0

(* Nothing is put in escrow by this page unless an applicant is accepted   *)
(* whom the requester agreed to hire in its dialog; and the amount is one  *)
(* the dialog showed for an applicant who is accepted, whatever dialogs    *)
(* were opened and confirmed and whatever calls failed meanwhile. With two *)
(* accepted it may be the amount of either. The exceptions: the task was   *)
(* given another price from elsewhere, or an application accepted and      *)
(* never paid before the page was opened is charged instead, at what it    *)
(* had proposed (CreateEscrowPayment takes the first accepted application  *)
(* with a price of its own, not the one just accepted).                    *)
ChargedIsAgreed ==
    held # 0 /\ ~repriced =>
        \E a \in Applicants :
            /\ verdict[a] = "accepted" /\ agreed[a] # 0
            /\ held = agreed[a] \/ \E b \in Applicants : Earlier(b) /\ held = offer[b]
=============================================================================
