------------------------------ MODULE Deposits ------------------------------
(***************************************************************************)
(* Wallet top-ups: the deposit endpoint                                    *)
(* (server/internal/handlers/wallet.go, Deposit), PayOS, and the webhook   *)
(* (server/internal/handlers/webhook.go).                                  *)
(*                                                                         *)
(* A deposit is an order with a payment link.  Every bank transfer to the  *)
(* link has a reference of its own and makes PayOS call the webhook, any   *)
(* number of times and in any order.  The webhook uses no transaction      *)
(* around its steps: it inserts the reference, reads the order, saves it   *)
(* and credits the wallet, each committed before the next.                 *)
(***************************************************************************)
EXTENDS Integers, Wallet

CONSTANTS
    Users,
    Orders,         \* order codes
    Transfers,      \* bank transfers
    Amounts,        \* amounts of deposits
    Handlers,       \* webhook calls in flight at a time
    MayStop,        \* TRUE: a call may stop between two of its steps
    NoUser, NoOrder

ASSUME DepositAmountAssumption == Amounts \subseteq Nat \ {0}
ASSUME MayStopAssumption == MayStop \in BOOLEAN
ASSUME FiniteAssumption == IsFiniteSet(Transfers)
ASSUME NoneAssumption == NoUser \notin Users /\ NoOrder \notin Orders

VARIABLES
    wallet,         \* wallet rows
    order,          \* deposit rows of the transactions table
    link,           \* payment links at PayOS
    transfer,       \* the order that each bank transfer paid
    refs,           \* payment_references rows
    credited,       \* transfers credited to a wallet
    lost,           \* ghost: transfers whose last call failed, stopped or was
                    \* refused the credit
    slot            \* what each webhook call holds between its steps

vars == <<wallet, order, link, transfer, refs, credited, lost, slot>>

OrderRow == [status: {"none", "pending", "success", "cancelled"},
             payer: Users \cup {NoUser}, amount: Amounts \cup {0}]

NoOrderRow == [status |-> "none", payer |-> NoUser, amount |-> 0]

Idle == [op |-> "idle"]

Slot ==
    {Idle}
    \cup [op: {"read", "mark", "close"}, transfer: Transfers]
    \cup [op: {"credit"}, transfer: Transfers, first: BOOLEAN]
    \cup [op: {"cancel"}, order: Orders]

Goto(h, s) == slot' = [slot EXCEPT ![h] = s]

-----------------------------------------------------------------------------
(* The deposit endpoint: check the maximum balance, insert the order, and  *)
(* have PayOS create the link, which may fail.                             *)

RequestDeposit(u, o, amount) ==
    /\ order[o] = NoOrderRow
    /\ CanDeposit(wallet[u], amount)
    /\ order' = [order EXCEPT ![o] =
                   [status |-> "pending", payer |-> u, amount |-> amount]]
    /\ UNCHANGED <<wallet, link, transfer, refs, credited, lost, slot>>

CreatePaymentLink(o) ==
    /\ order[o] # NoOrderRow
    /\ link[o] = "none"
    /\ link' = [link EXCEPT ![o] = "open"]
    /\ UNCHANGED <<wallet, order, transfer, refs, credited, lost, slot>>

(* PayOS and the bank: an open link can be paid any number of times, and   *)
(* be cancelled by its user.                                               *)
Pay(r, o) ==
    /\ link[o] = "open"
    /\ transfer[r] = NoOrder
    /\ transfer' = [transfer EXCEPT ![r] = o]
    /\ UNCHANGED <<wallet, order, link, refs, credited, lost, slot>>

CancelLink(o) ==
    /\ link[o] = "open"
    /\ link' = [link EXCEPT ![o] = "cancelled"]
    /\ UNCHANGED <<wallet, order, transfer, refs, credited, lost, slot>>

-----------------------------------------------------------------------------
(* handlePaymentSuccess.                                                   *)

(* Mutant of ClaimReference: known references are processed again.         *)
ClaimAgain(h, r) ==
    /\ slot[h] = Idle
    /\ transfer[r] # NoOrder
    /\ refs' = refs \cup {r}
    /\ lost' = lost \ {r}
    /\ Goto(h, [op |-> "read", transfer |-> r])
    /\ UNCHANGED <<wallet, order, link, transfer, credited>>

(* CreateIfNotExists: only the call that inserts the reference goes on; a  *)
(* call with a reference that is there changes nothing.  (PayOS sends a    *)
(* reference with every transfer; without one the code would not           *)
(* deduplicate.)                                                           *)
ClaimReference(h, r) ==
    /\ slot[h] = Idle
    /\ transfer[r] # NoOrder
    /\ r \notin refs
    /\ refs' = refs \cup {r}
    /\ lost' = lost \ {r}
    /\ Goto(h, [op |-> "read", transfer |-> r])
    /\ UNCHANGED <<wallet, order, link, transfer, credited>>

(* The insert fails: the error is logged and PayOS is answered with        *)
(* success all the same, so that it need not call again, though a repeated *)
(* call may still be on its way.                                           *)
ClaimFails(r) ==
    /\ transfer[r] # NoOrder
    /\ r \notin refs
    /\ lost' = lost \cup {r}
    /\ UNCHANGED <<wallet, order, link, transfer, refs, credited, slot>>

ReadOrder(h) ==
    /\ slot[h].op = "read"
    /\ LET r == slot[h].transfer
       IN  IF order[transfer[r]].status # "success"
           THEN Goto(h, [op |-> "mark", transfer |-> r])
           ELSE Goto(h, [op |-> "credit", transfer |-> r, first |-> FALSE])
    /\ UNCHANGED <<wallet, order, link, transfer, refs, credited, lost>>

(* The whole row is saved; only its status ever changes.                   *)
MarkSuccess(h) ==
    /\ slot[h].op = "mark"
    /\ LET r == slot[h].transfer
       IN  /\ order' = [order EXCEPT ![transfer[r]].status = "success"]
           /\ Goto(h, [op |-> "credit", transfer |-> r, first |-> TRUE])
    /\ UNCHANGED <<wallet, link, transfer, refs, credited, lost>>

(* Mutant of CreditWallet: a payment after the first is only logged.       *)
CreditFirstOnly(h) ==
    /\ slot[h].op = "credit"
    /\ slot[h].first
    /\ LET r == slot[h].transfer
           row == order[transfer[r]]
       IN  /\ CanDeposit(wallet[row.payer], row.amount)
           /\ wallet' = [wallet EXCEPT ![row.payer] = AfterDeposit(@, row.amount)]
           /\ credited' = credited \cup {r}
           /\ Goto(h, [op |-> "close", transfer |-> r])
    /\ UNCHANGED <<order, link, transfer, refs, lost>>

(* The first payment credits the amount of the order, a later one what was *)
(* transferred: the same, because the amount of a link is fixed.           *)
CreditWallet(h) ==
    /\ slot[h].op = "credit"
    /\ LET r == slot[h].transfer
           row == order[transfer[r]]
       IN  /\ CanDeposit(wallet[row.payer], row.amount)
           /\ wallet' = [wallet EXCEPT ![row.payer] = AfterDeposit(@, row.amount)]
           /\ credited' = credited \cup {r}
           /\ Goto(h, IF slot[h].first THEN [op |-> "close", transfer |-> r]
                                       ELSE Idle)
    /\ UNCHANGED <<order, link, transfer, refs, lost>>

(* The wallet would exceed its maximum: the error is logged and PayOS is   *)
(* answered with success.                                                  *)
CreditRefused(h) ==
    /\ slot[h].op = "credit"
    /\ LET row == order[transfer[slot[h].transfer]]
       IN  ~CanDeposit(wallet[row.payer], row.amount)
    /\ lost' = lost \cup {slot[h].transfer}
    /\ Goto(h, Idle)
    /\ UNCHANGED <<wallet, order, link, transfer, refs, credited>>

(* Best effort: the cancellation of the link may fail.                     *)
CloseLink(h) ==
    /\ slot[h].op = "close"
    /\ \/ link' = [link EXCEPT ![transfer[slot[h].transfer]] = "cancelled"]
       \/ UNCHANGED link
    /\ Goto(h, Idle)
    /\ UNCHANGED <<wallet, order, transfer, refs, credited, lost>>

(* handlePaymentCancelled: read the order; save it as cancelled.           *)

ReceiveCancelled(h, o) ==
    /\ slot[h] = Idle
    /\ link[o] = "cancelled"
    /\ Goto(h, [op |-> "cancel", order |-> o])
    /\ UNCHANGED <<wallet, order, link, transfer, refs, credited, lost>>

MarkCancelled(h) ==
    /\ slot[h].op = "cancel"
    /\ order' = [order EXCEPT ![slot[h].order].status = "cancelled"]
    /\ Goto(h, Idle)
    /\ UNCHANGED <<wallet, link, transfer, refs, credited, lost>>

(* A step fails, the caller hangs up, or the server stops.                 *)
Abandon(h) ==
    /\ MayStop
    /\ slot[h] # Idle
    /\ lost' = IF slot[h].op \in {"read", "mark", "credit"}
               THEN lost \cup {slot[h].transfer} ELSE lost
    /\ Goto(h, Idle)
    /\ UNCHANGED <<wallet, order, link, transfer, refs, credited>>

-----------------------------------------------------------------------------
Init ==
    /\ wallet = [u \in Users |-> EmptyWallet]
    /\ order = [o \in Orders |-> NoOrderRow]
    /\ link = [o \in Orders |-> "none"]
    /\ transfer = [r \in Transfers |-> NoOrder]
    /\ refs = {}
    /\ credited = {}
    /\ lost = {}
    /\ slot = [h \in Handlers |-> Idle]

(* A call for a transfer reaches the webhook.                              *)
ReceivePaid(r) == ClaimFails(r) \/ \E h \in Handlers : ClaimReference(h, r)

WebhookStep(h) ==
    \/ ReadOrder(h)
    \/ MarkSuccess(h)
    \/ CreditWallet(h)
    \/ CreditRefused(h)
    \/ CloseLink(h)
    \/ MarkCancelled(h)

Next ==
    \/ \E u \in Users, o \in Orders, amount \in Amounts : RequestDeposit(u, o, amount)
    \/ \E o \in Orders : CreatePaymentLink(o) \/ CancelLink(o)
    \/ \E r \in Transfers, o \in Orders : Pay(r, o)
    \/ \E r \in Transfers : ReceivePaid(r)
    \/ \E h \in Handlers :
          \/ \E o \in Orders : ReceiveCancelled(h, o)
          \/ WebhookStep(h)
          \/ Abandon(h)

Spec == Init /\ [][Next]_vars

(* A call that has begun runs on, and PayOS calls for a transfer until it  *)
(* is answered: one call at least reaches the webhook.  That it gets as    *)
(* far as recording the transfer is not assumed.                           *)
FairSpec ==
    /\ Spec
    /\ \A h \in Handlers : WF_vars(WebhookStep(h))
    /\ \A r \in Transfers : WF_vars(ReceivePaid(r))

-----------------------------------------------------------------------------
DepositsTypeOK ==
    /\ wallet \in [Users -> WalletRow]
    /\ order \in [Orders -> OrderRow]
    /\ link \in [Orders -> {"none", "open", "cancelled"}]
    /\ transfer \in [Transfers -> Orders \cup {NoOrder}]
    /\ refs \subseteq Transfers
    /\ credited \subseteq Transfers
    /\ lost \subseteq Transfers
    /\ slot \in [Handlers -> Slot]

(* What the bank received for a user.                                      *)
Received(u) ==
    LET paid == {r \in Transfers : /\ transfer[r] # NoOrder
                                   /\ order[transfer[r]].payer = u}
    IN  Total([r \in paid |-> order[transfer[r]].amount], paid)

(* Repeated, reordered and concurrent webhook calls, cancellations and     *)
(* crashes never credit a user with more than the bank received: two calls *)
(* may both take theirs for the first payment of an order.                 *)
NeverOverCredited == \A u \in Users : wallet[u].deposited <= Received(u)

(* Every transfer is credited in the end, whatever the order of the calls, *)
(* unless a call for it could not record it, or the one that recorded it   *)
(* stopped halfway or met the maximum balance: repeated calls, those of    *)
(* other transfers and cancellations do it no harm.                        *)
EveryTransferCredited ==
    \A r \in Transfers : transfer[r] # NoOrder ~> r \in credited \cup lost

(* A reference that is recorded as processed was credited, or a call is    *)
(* about to: a repeated call may be skipped.                               *)
ProcessedIsCredited ==
    \A r \in refs :
        \/ r \in credited
        \/ \E h \in Handlers : slot[h].op \in {"read", "mark", "credit"}
                               /\ slot[h].transfer = r

(* What the code does keep of it: only the maximum balance, or a stop of   *)
(* the very call that recorded the reference, leaves it without a credit.  *)
ProcessedIsAccountedFor ==
    \A r \in refs :
        \/ r \in credited \cup lost
        \/ \E h \in Handlers : slot[h].op \in {"read", "mark", "credit"}
                               /\ slot[h].transfer = r

-----------------------------------------------------------------------------
(* What deposits promise: DepositPromise, with the balances as purses and  *)
(* the payer and the amount of an order's row as its deal.                 *)

Deal(o) == [payer |-> order[o].payer, amount |-> order[o].amount]

Promise == INSTANCE DepositPromise
    WITH purse <- [u \in Users |-> wallet[u].balance],
         deal <- [o \in Orders |-> Deal(o)],
         paid <- transfer,
         given <- credited

(* Every step of endpoint, webhook and PayOS keeps the promise, however    *)
(* calls are repeated, overlap, stop and race with cancellations.          *)
DepositKept == Promise!Spec
=============================================================================
