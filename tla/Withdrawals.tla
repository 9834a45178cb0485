---------------------------- MODULE Withdrawals -----------------------------
(***************************************************************************)
(* Withdrawals to a bank account: the withdrawal endpoint                  *)
(* (server/internal/handlers/wallet.go, HandleWithdrawal), PayOS payouts,  *)
(* and the payout poller (server/internal/services/payout_poller.go).      *)
(*                                                                         *)
(* The endpoint checks the balance, inserts a transaction row, creates the *)
(* payout at PayOS, stores its id in the row and only then debits the      *)
(* wallet; each step is committed before the next.  The poller, a single   *)
(* goroutine, looks at the pending rows that have a payout id, saves what  *)
(* became of the payout and refunds the wallet if it failed.  Both save    *)
(* whole rows as they read or created them.                                *)
(***************************************************************************)
EXTENDS Integers, Wallet

CONSTANTS
    Users,
    MaxRequests,    \* bound: withdrawal rows that can be created
    Amounts,        \* amounts that pass the minimum, maximum and step checks
    Opening,        \* balance that every user begins with
    OpenTotal,      \* prices of the open tasks of each user
    Handlers,       \* withdrawal requests in flight at a time
    MayStop,        \* TRUE: a request, or the server, may stop between steps
    Timeouts,       \* TRUE: PayOS may take a payout whose answer is lost
    DbMayFail,      \* TRUE: writes whose failure is only logged may fail
    NoUser

ASSUME WithdrawalBoundAssumption ==
    /\ MaxRequests \in Nat /\ Opening \in Nat
    /\ Amounts \subseteq Nat \ {0}
    /\ OpenTotal \in [Users -> Nat]
ASSUME WithdrawalSwitchAssumption ==
    {MayStop, Timeouts, DbMayFail} \subseteq BOOLEAN
ASSUME NoUserAssumption == NoUser \notin Users

VARIABLES
    wallet,     \* wallet rows
    row,        \* withdrawal rows of the transactions table, by creation
    payout,     \* what PayOS did with the payout of each row
    debited,    \* rows with a withdrawal in the wallet's ledger
    refunds,    \* number of refunds of each row in the wallet's ledger
    spoiled,    \* ghost: rows that met a stop, a lost answer, or a save, a
                \* debit or a refund that failed or was refused
    slot,       \* what each withdrawal request holds between its steps
    poller      \* what the poller holds between its steps

vars == <<wallet, row, payout, debited, refunds, spoiled, slot, poller>>

Requests == 1..MaxRequests

RowType == [status: {"none", "pending", "success", "failed"},
            user: Users \cup {NoUser}, amount: Nat, payoutId: BOOLEAN]

NoRow == [status |-> "none", user |-> NoUser, amount |-> 0, payoutId |-> FALSE]

Idle == [op |-> "idle"]

Slot ==
    {Idle}
    \cup [op: {"insert"}, user: Users, amount: Amounts]
    \cup [op: {"payout", "payout_failed", "store", "debit", "debit_failed"},
          request: Requests]

Poller ==
    {Idle}
    \cup [op: {"check"}, left: SUBSET Requests]
    \cup [op: {"save"}, left: SUBSET Requests, request: Requests,
          status: {"success", "failed"}]
    \cup [op: {"refund"}, left: SUBSET Requests, request: Requests]

Goto(h, s) == slot' = [slot EXCEPT ![h] = s]

(* GetAvailableBalance                                                     *)
AvailableBalance(u) == wallet[u].balance - wallet[u].escrow - OpenTotal[u]

Spoil(requests) == spoiled' = spoiled \cup requests

(* The row that a request in flight has inserted                           *)
RowsOf(s) == IF s.op \in {"idle", "insert"} THEN {} ELSE {s.request}

-----------------------------------------------------------------------------
(* HandleWithdrawal.                                                       *)

RequestWithdrawal(h, u, amount) ==
    /\ slot[h] = Idle
    /\ amount <= AvailableBalance(u)
    /\ Goto(h, [op |-> "insert", user |-> u, amount |-> amount])
    /\ UNCHANGED <<wallet, row, payout, debited, refunds, spoiled, poller>>

InsertRow(h, i) ==
    /\ slot[h].op = "insert"
    /\ row[i] = NoRow
    /\ \A j \in Requests : j < i => row[j] # NoRow
    /\ row' = [row EXCEPT ![i] =
                 [status |-> "pending", user |-> slot[h].user,
                  amount |-> slot[h].amount, payoutId |-> FALSE]]
    /\ Goto(h, [op |-> "payout", request |-> i])
    /\ UNCHANGED <<wallet, payout, debited, refunds, spoiled, poller>>

CreatePayout(h) ==
    /\ slot[h].op = "payout"
    /\ payout' = [payout EXCEPT ![slot[h].request] = "processing"]
    /\ Goto(h, [slot[h] EXCEPT !.op = "store"])
    /\ UNCHANGED <<wallet, row, debited, refunds, spoiled, poller>>

(* PayOS refuses, or its answer does not arrive.                           *)
CreatePayoutFails(h) ==
    /\ slot[h].op = "payout"
    /\ \/ UNCHANGED <<payout, spoiled>>
       \/ /\ Timeouts
          /\ payout' = [payout EXCEPT ![slot[h].request] = "processing"]
          /\ Spoil({slot[h].request})
    /\ Goto(h, [slot[h] EXCEPT !.op = "payout_failed"])
    /\ UNCHANGED <<wallet, row, debited, refunds, poller>>

MarkPayoutFailed(h) ==
    /\ slot[h].op = "payout_failed"
    /\ \/ /\ row' = [row EXCEPT ![slot[h].request].status = "failed"]
          /\ UNCHANGED spoiled
       \/ DbMayFail /\ UNCHANGED row /\ Spoil({slot[h].request})
    /\ Goto(h, Idle)
    /\ UNCHANGED <<wallet, payout, debited, refunds, poller>>

StorePayoutId(h) ==
    /\ slot[h].op = "store"
    /\ \/ /\ row' = [row EXCEPT ![slot[h].request] =
                       [@ EXCEPT !.status = "pending", !.payoutId = TRUE]]
          /\ UNCHANGED spoiled
       \/ DbMayFail /\ UNCHANGED row /\ Spoil({slot[h].request})
    /\ Goto(h, [slot[h] EXCEPT !.op = "debit"])
    /\ UNCHANGED <<wallet, payout, debited, refunds, poller>>

DebitWallet(h) ==
    /\ slot[h].op = "debit"
    /\ LET i == slot[h].request
           u == row[i].user
       IN  /\ CanWithdraw(wallet[u], row[i].amount)
           /\ wallet' = [wallet EXCEPT ![u] = AfterWithdraw(@, row[i].amount)]
           /\ debited' = debited \cup {i}
    /\ Goto(h, Idle)
    /\ UNCHANGED <<row, payout, refunds, spoiled, poller>>

(* The balance is gone meanwhile, or the transaction fails.                *)
DebitRefused(h) ==
    /\ slot[h].op = "debit"
    /\ LET i == slot[h].request
       IN  DbMayFail \/ ~CanWithdraw(wallet[row[i].user], row[i].amount)
    /\ Spoil({slot[h].request})
    /\ Goto(h, [slot[h] EXCEPT !.op = "debit_failed"])
    /\ UNCHANGED <<wallet, row, payout, debited, refunds, poller>>

(* Mutant of MarkDebitFailed: the row is left to the poller.               *)
MarkDebitPending(h) ==
    /\ slot[h].op = "debit_failed"
    /\ row' = [row EXCEPT ![slot[h].request].status = "pending"]
    /\ Goto(h, Idle)
    /\ UNCHANGED <<wallet, payout, debited, refunds, spoiled, poller>>

(* Overwrites what the poller may have saved in the meantime.              *)
MarkDebitFailed(h) ==
    /\ slot[h].op = "debit_failed"
    /\ \/ row' = [row EXCEPT ![slot[h].request] =
                    [@ EXCEPT !.status = "failed", !.payoutId = TRUE]]
       \/ DbMayFail /\ UNCHANGED row
    /\ Goto(h, Idle)
    /\ UNCHANGED <<wallet, payout, debited, refunds, spoiled, poller>>

-----------------------------------------------------------------------------
(* PayOS: a payout succeeds, or fails, is cancelled or reversed.           *)
SettlePayout(i) ==
    /\ payout[i] = "processing"
    /\ \E outcome \in {"succeeded", "failed"} :
          payout' = [payout EXCEPT ![i] = outcome]
    /\ UNCHANGED <<wallet, row, debited, refunds, spoiled, slot, poller>>

-----------------------------------------------------------------------------
(* PayoutPoller.                                                           *)

(* GetPendingPayouts                                                       *)
PendingPayouts ==
    {i \in Requests : row[i].status = "pending" /\ row[i].payoutId}

PollPendingPayouts ==
    /\ poller = Idle
    /\ PendingPayouts # {}
    /\ poller' = [op |-> "check", left |-> PendingPayouts]
    /\ UNCHANGED <<wallet, row, payout, debited, refunds, spoiled, slot>>

(* The payouts are checked in the order of creation.                       *)
NextToCheck(i) ==
    /\ poller.op = "check"
    /\ i \in poller.left
    /\ \A j \in poller.left : i <= j

(* Mutant of IsFinal: any state but success counts as a failure.           *)
HasAnyState(i) == payout[i] # "none"

(* Mutant of IsFinal: only success is recognised.                          *)
HasSucceeded(i) == payout[i] = "succeeded"

IsFinal(i) == payout[i] \in {"succeeded", "failed"}

CheckPayout(i) ==
    /\ NextToCheck(i)
    /\ IsFinal(i)
    /\ poller' = [op |-> "save", left |-> poller.left \ {i}, request |-> i,
                  status |-> IF payout[i] = "succeeded"
                             THEN "success" ELSE "failed"]
    /\ UNCHANGED <<wallet, row, payout, debited, refunds, spoiled, slot>>

(* Still processed, or GetPayout fails: left to the next poll.             *)
SkipPayout(i) ==
    /\ NextToCheck(i)
    /\ poller' = [op |-> "check", left |-> poller.left \ {i}]
    /\ UNCHANGED <<wallet, row, payout, debited, refunds, spoiled, slot>>

PollDone ==
    /\ poller.op = "check"
    /\ poller.left = {}
    /\ poller' = Idle
    /\ UNCHANGED <<wallet, row, payout, debited, refunds, spoiled, slot>>

SavePayoutStatus ==
    /\ poller.op = "save"
    /\ LET i == poller.request
       IN  /\ row' = [row EXCEPT ![i] =
                        [@ EXCEPT !.status = poller.status, !.payoutId = TRUE]]
           /\ poller' = IF poller.status = "failed"
                        THEN [op |-> "refund", left |-> poller.left, request |-> i]
                        ELSE [op |-> "check", left |-> poller.left]
    /\ UNCHANGED <<wallet, payout, debited, refunds, spoiled, slot>>

(* There is no refund, and the row is polled again.                        *)
SavePayoutFails ==
    /\ DbMayFail
    /\ poller.op = "save"
    /\ poller' = [op |-> "check", left |-> poller.left]
    /\ UNCHANGED <<wallet, row, payout, debited, refunds, spoiled, slot>>

(* A refund that the maximum balance refuses, or that fails, is only       *)
(* logged.                                                                 *)
RefundWallet ==
    /\ poller.op = "refund"
    /\ LET i == poller.request
           u == row[i].user
       IN  \/ /\ CanDeposit(wallet[u], row[i].amount)
              /\ wallet' = [wallet EXCEPT ![u] = AfterDeposit(@, row[i].amount)]
              /\ refunds' = [refunds EXCEPT ![i] = @ + 1]
              /\ UNCHANGED spoiled
           \/ /\ DbMayFail \/ ~CanDeposit(wallet[u], row[i].amount)
              /\ Spoil({i})
              /\ UNCHANGED <<wallet, refunds>>
    /\ poller' = [op |-> "check", left |-> poller.left]
    /\ UNCHANGED <<row, payout, debited, slot>>

-----------------------------------------------------------------------------
(* The client hangs up: the context of its request is cancelled.           *)
Abandon(h) ==
    /\ MayStop
    /\ slot[h] # Idle
    /\ Spoil(RowsOf(slot[h]))
    /\ Goto(h, Idle)
    /\ UNCHANGED <<wallet, row, payout, debited, refunds, poller>>

(* The server restarts: the poller begins anew.                            *)
Restart ==
    /\ MayStop
    /\ poller # Idle
    /\ Spoil((UNION {RowsOf(slot[h]) : h \in Handlers})
             \cup (IF poller.op = "refund" THEN {poller.request} ELSE {}))
    /\ poller' = Idle
    /\ slot' = [h \in Handlers |-> Idle]
    /\ UNCHANGED <<wallet, row, payout, debited, refunds>>

Init ==
    /\ wallet = [u \in Users |-> AfterDeposit(EmptyWallet, Opening)]
    /\ row = [i \in Requests |-> NoRow]
    /\ payout = [i \in Requests |-> "none"]
    /\ debited = {}
    /\ refunds = [i \in Requests |-> 0]
    /\ spoiled = {}
    /\ slot = [h \in Handlers |-> Idle]
    /\ poller = Idle

RequestStep(h) ==
    \/ \E i \in Requests : InsertRow(h, i)
    \/ CreatePayout(h)
    \/ CreatePayoutFails(h)
    \/ MarkPayoutFailed(h)
    \/ StorePayoutId(h)
    \/ DebitWallet(h)
    \/ DebitRefused(h)
    \/ MarkDebitFailed(h)

PollerStep ==
    \/ PollPendingPayouts
    \/ \E i \in Requests : CheckPayout(i) \/ SkipPayout(i)
    \/ PollDone
    \/ SavePayoutStatus
    \/ SavePayoutFails
    \/ RefundWallet

Next ==
    \/ \E h \in Handlers :
          \/ \E u \in Users, amount \in Amounts : RequestWithdrawal(h, u, amount)
          \/ RequestStep(h)
          \/ Abandon(h)
    \/ \E i \in Requests : SettlePayout(i)
    \/ PollerStep
    \/ Restart

Spec == Init /\ [][Next]_vars

(* A request that has begun runs on, PayOS settles every payout, and the   *)
(* poller goes on polling: sooner or later it can read a settled payout,   *)
(* and save its row.                                                       *)
FairSpec ==
    /\ Spec
    /\ \A h \in Handlers : WF_vars(RequestStep(h))
    /\ \A i \in Requests : WF_vars(SettlePayout(i)) /\ SF_vars(CheckPayout(i))
    /\ WF_vars(PollerStep) /\ SF_vars(SavePayoutStatus)

-----------------------------------------------------------------------------
WithdrawalsTypeOK ==
    /\ wallet \in [Users -> WalletRow]
    /\ row \in [Requests -> RowType]
    /\ payout \in [Requests -> {"none", "processing", "succeeded", "failed"}]
    /\ debited \subseteq Requests
    /\ refunds \in [Requests -> Nat]
    /\ spoiled \subseteq Requests
    /\ slot \in [Handlers -> Slot]
    /\ poller \in Poller

AtRest == poller = Idle /\ \A h \in Handlers : slot[h] = Idle

(* What PayOS has sent, or is about to send, to the bank of a user.        *)
SentToBank(u) ==
    LET sent == {i \in Requests : /\ row[i].user = u
                                  /\ payout[i] \in {"processing", "succeeded"}}
    IN  Total([i \in sent |-> row[i].amount], sent)

(* A user's wallet and bank account together never hold more than the user *)
(* owned, unless one of the user's requests was stopped, lost an answer or *)
(* a save, or had its debit or its refund fail, as when it overlapped      *)
(* another: payouts are debited, and refunds follow only failed payouts,   *)
(* although the payout is created before the debit and the poller may      *)
(* refund it before.                                                       *)
Solvent ==
    AtRest => \A u \in Users :
        (\E i \in spoiled : row[i].user = u)
        \/ wallet[u].balance + SentToBank(u) <= Opening

(* Whatever stops, overlaps or fails, a withdrawal is refunded once at the *)
(* most: the poller never finds a failed one again, whoever saves the row. *)
RefundedOnce == \A i \in Requests : refunds[i] <= 1

(* No save of a stale row makes a settled withdrawal pending again.        *)
SettledStaysSettled ==
    [][\A i \in Requests : row[i].status \in {"success", "failed"} =>
                               row'[i].status \in {"success", "failed"}]_row

(* How a withdrawal can end.                                               *)
PaidOut(i) ==
    row[i].status = "success" /\ payout[i] = "succeeded" /\ i \in debited

Refused(i) ==
    row[i].status = "failed" /\ payout[i] = "none" /\ i \notin debited

PaidBack(i) ==
    /\ row[i].status = "failed" /\ payout[i] = "failed"
    /\ i \in debited /\ refunds[i] = 1

(* Once all is at rest, a withdrawal that was not spoiled and is a success *)
(* was paid and debited, and one that is a failure never left the wallet,  *)
(* or came back to it: no order of handler, poller and PayOS loses a debit *)
(* or a refund, although the poller may refund before the handler debits.  *)
SettledAreSquare ==
    AtRest => \A i \in Requests \ spoiled :
        /\ row[i].status = "success" => PaidOut(i)
        /\ row[i].status = "failed" => Refused(i) \/ PaidBack(i)

(* However requests, poller and PayOS interleave and other requests fail,  *)
(* every withdrawal that was not itself spoiled ends paid and debited,     *)
(* refused, or refunded.                                                   *)
WithdrawalSettles ==
    \A i \in Requests : row[i].status = "pending" ~>
        PaidOut(i) \/ Refused(i) \/ PaidBack(i) \/ i \in spoiled

(* The wallet is debited before money is sent to the bank: a payout never  *)
(* stays undebited.                                                        *)
PaidOutIsDebited ==
    AtRest => \A i \in Requests : payout[i] = "succeeded" => i \in debited

-----------------------------------------------------------------------------
(* What withdrawals promise: WithdrawalPromise, with the balances as       *)
(* purses. A row that is saved as a success and then as a failure, or the  *)
(* other way round, is closed all the time.                                *)

Claim(i) ==
    [state |-> CASE row[i].status = "none" -> "none"
                 [] row[i].status = "pending" -> "open"
                 [] OTHER -> "closed",
     user |-> row[i].user, amount |-> row[i].amount]

Promise == INSTANCE WithdrawalPromise
    WITH purse <- [u \in Users |-> wallet[u].balance],
         claim <- [i \in Requests |-> Claim(i)],
         bank <- payout,
         taken <- debited,
         returned <- {i \in Requests : refunds[i] # 0}

(* Every step of handlers, poller and PayOS keeps the promise, whatever    *)
(* stops, overlaps, is lost or is not saved: the stale rows that handler   *)
(* and poller save never reopen a withdrawal or change whose it is, and no *)
(* second payout, debit or refund is made.                                 *)
WithdrawalKept == Promise!Spec
=============================================================================
