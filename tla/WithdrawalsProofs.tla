------------------------- MODULE WithdrawalsProofs --------------------------
(***************************************************************************)
(* What Withdrawals promises, for any users, requests in flight, amounts   *)
(* and failures.                                                           *)
(***************************************************************************)
EXTENDS Withdrawals, WalletProofs

-----------------------------------------------------------------------------
(* The inductive invariant.                                                *)

HasRow(h) == slot[h].op \notin {"idle", "insert"}

(* A request in flight has a row of its own, of one of the users; until    *)
(* the payout's id is stored nobody else touches it.                       *)
RequestsApart ==
    /\ \A i \in Requests : row[i].status # "none" => row[i].user \in Users
    /\ \A i \in Requests : row[i].payoutId => row[i].status # "none"
    /\ \A h \in Handlers : HasRow(h) => row[slot[h].request].status # "none"
    /\ \A g, h \in Handlers :
          HasRow(g) /\ HasRow(h) /\ slot[g].request = slot[h].request => g = h
    /\ \A h \in Handlers : slot[h].op \in {"payout", "payout_failed", "store"} =>
          row[slot[h].request].status = "pending" /\ ~row[slot[h].request].payoutId

(* The rows of the poll that is under way.                                 *)
Polled(i) ==
    \/ poller.op # "idle" /\ i \in poller.left
    \/ poller.op \in {"save", "refund"} /\ i = poller.request

(* They have a payout and no refund, and none of them is looked at twice.  *)
PolledOnce ==
    /\ \A i \in Requests : Polled(i) => row[i].payoutId /\ refunds[i] = 0
    /\ poller.op \in {"save", "refund"} => poller.request \notin poller.left
    /\ poller.op = "refund" => row[poller.request].status = "failed"
    /\ \A i \in Requests : refunds[i] \in {0, 1}
    /\ \A i \in Requests : refunds[i] = 1 => row[i].status = "failed"

PayoutInv == WithdrawalsTypeOK /\ RequestsApart /\ PolledOnce

-----------------------------------------------------------------------------
(* Records                                                                 *)

LEMMA RowUpdate ==
    ASSUME NEW r \in RowType, NEW s \in {"none", "pending", "success", "failed"}
    PROVE  /\ [r EXCEPT !.status = s] \in RowType
           /\ [r EXCEPT !.status = s].status = s
           /\ [r EXCEPT !.status = s].user = r.user
           /\ [r EXCEPT !.status = s].payoutId = r.payoutId
           /\ [r EXCEPT !.status = s, !.payoutId = TRUE] \in RowType
           /\ [r EXCEPT !.status = s, !.payoutId = TRUE].status = s
           /\ [r EXCEPT !.status = s, !.payoutId = TRUE].user = r.user
           /\ [r EXCEPT !.status = s, !.payoutId = TRUE].payoutId = TRUE
  BY DEF RowType

LEMMA SlotFacts ==
    ASSUME WithdrawalsTypeOK, NEW h \in Handlers
    PROVE  /\ slot[h] \in Slot
           /\ slot[h].op \in {"idle", "insert", "payout", "payout_failed", "store", "debit",
                              "debit_failed"}
           /\ slot[h].op = "idle" <=> slot[h] = Idle
           /\ slot[h].op = "insert" => slot[h].user \in Users /\ slot[h].amount \in Amounts
           /\ HasRow(h) => slot[h].request \in Requests
           /\ HasRow(h) => \A op \in {"store", "payout_failed", "debit", "debit_failed"} :
                 /\ [slot[h] EXCEPT !.op = op] \in Slot
                 /\ [slot[h] EXCEPT !.op = op].op = op
                 /\ [slot[h] EXCEPT !.op = op].request = slot[h].request
  BY DEF WithdrawalsTypeOK, Slot, Idle, HasRow

LEMMA PollerFacts ==
    ASSUME WithdrawalsTypeOK
    PROVE  /\ poller.op \in {"idle", "check", "save", "refund"}
           /\ poller.op = "idle" <=> poller = Idle
           /\ poller.op # "idle" => poller.left \subseteq Requests
           /\ poller.op \in {"save", "refund"} => poller.request \in Requests
           /\ poller.op = "save" => poller.status \in {"success", "failed"}
  BY DEF WithdrawalsTypeOK, Poller, Idle

(* Where the slot of one request changes.                                  *)
LEMMA GotoFacts ==
    ASSUME WithdrawalsTypeOK, NEW h \in Handlers, NEW s \in Slot, Goto(h, s)
    PROVE  /\ slot' \in [Handlers -> Slot] /\ slot'[h] = s
           /\ \A g \in Handlers : g # h => slot'[g] = slot[g]
  BY DEF WithdrawalsTypeOK, Goto

LEMMA InitPayoutInv == Init => PayoutInv
<1> SUFFICES ASSUME Init PROVE PayoutInv
  OBVIOUS
<1>1. AfterDeposit(EmptyWallet, Opening) \in WalletRow
  <2>1. EmptyWallet \in WalletRow /\ EmptyWallet.balance + Opening \in Nat
        /\ EmptyWallet.deposited + Opening \in Nat
    BY WithdrawalBoundAssumption, EmptyWalletFacts DEF EmptyWallet
  <2>2. PICK w \in WalletRow :
          w = [EmptyWallet EXCEPT !.balance = EmptyWallet.balance + Opening]
    BY <2>1, FieldUpdate
  <2>3. [w EXCEPT !.deposited = EmptyWallet.deposited + Opening] \in WalletRow
    BY <2>1, FieldUpdate
  <2> QED
    BY <2>2, <2>3 DEF AfterDeposit
<1>2. WithdrawalsTypeOK
  <2>1. NoRow \in RowType /\ Idle \in Slot /\ Idle \in Poller
    BY DEF RowType, NoRow, Slot, Poller
  <2> QED
    BY <1>1, <2>1 DEF Init, WithdrawalsTypeOK
<1>3. RequestsApart
  BY DEF Init, RequestsApart, NoRow, HasRow, Idle
<1>4. PolledOnce
  BY DEF Init, PolledOnce, Polled, Idle
<1> QED
  BY <1>2, <1>3, <1>4 DEF PayoutInv

-----------------------------------------------------------------------------
(* Steps that leave the rows and the refunds alone.                        *)

(* A request moves on with the row it has.                                 *)
LEMMA SlotMoves ==
    ASSUME PayoutInv, NEW h \in Handlers, NEW s \in Slot, Goto(h, s),
           UNCHANGED <<row, refunds, poller>>,
           \/ s.op \in {"idle", "insert"}
           \/ HasRow(h) /\ s.request = slot[h].request
              /\ (s.op \in {"payout", "payout_failed", "store"} =>
                     slot[h].op \in {"payout", "payout_failed", "store"})
    PROVE  RequestsApart' /\ PolledOnce' /\ slot' \in [Handlers -> Slot]
<1>1. /\ slot' \in [Handlers -> Slot] /\ slot'[h] = s
      /\ \A g \in Handlers : g # h => slot'[g] = slot[g]
  BY GotoFacts DEF PayoutInv
<1>2. \A g \in Handlers : HasRow(g)' => HasRow(g) /\ slot'[g].request = slot[g].request
  BY <1>1 DEF HasRow
<1>3. \A g \in Handlers : slot'[g].op \in {"payout", "payout_failed", "store"} =>
          slot[g].op \in {"payout", "payout_failed", "store"}
          /\ slot'[g].request = slot[g].request
  BY <1>1 DEF HasRow
<1>4. RequestsApart'
  BY <1>2, <1>3 DEF PayoutInv, RequestsApart
<1>5. PolledOnce'
  BY DEF PayoutInv, PolledOnce, Polled
<1> QED
  BY <1>1, <1>4, <1>5

LEMMA StepRequest ==
    ASSUME PayoutInv, NEW h \in Handlers, NEW u \in Users, NEW amount \in Amounts,
           RequestWithdrawal(h, u, amount)
    PROVE  PayoutInv'
<1> USE DEF RequestWithdrawal
<1>1. PICK s \in Slot : s = [op |-> "insert", user |-> u, amount |-> amount]
  BY DEF Slot
<1>2. RequestsApart' /\ PolledOnce' /\ slot' \in [Handlers -> Slot]
  BY <1>1, SlotMoves
<1> QED
  BY <1>2 DEF PayoutInv, WithdrawalsTypeOK

LEMMA StepPayout ==
    ASSUME PayoutInv, NEW h \in Handlers, CreatePayout(h) \/ CreatePayoutFails(h)
    PROVE  PayoutInv'
<1> USE DEF CreatePayout, CreatePayoutFails
<1>1. HasRow(h) /\ slot[h].request \in Requests /\ slot[h].op = "payout"
  BY SlotFacts DEF HasRow, PayoutInv
<1>2. PICK s \in Slot : /\ Goto(h, s) /\ s.op \in {"store", "payout_failed"}
                        /\ s.request = slot[h].request
  BY <1>1, SlotFacts DEF PayoutInv
<1>3. RequestsApart' /\ PolledOnce' /\ slot' \in [Handlers -> Slot]
  BY <1>1, <1>2, SlotMoves
<1> QED
  BY <1>1, <1>3 DEF PayoutInv, WithdrawalsTypeOK, Spoil

LEMMA StepDebit ==
    ASSUME PayoutInv, NEW h \in Handlers, DebitWallet(h) \/ DebitRefused(h)
    PROVE  PayoutInv'
<1> USE DEF DebitWallet, DebitRefused
<1>1. HasRow(h) /\ slot[h].request \in Requests /\ slot[h].op = "debit"
  BY SlotFacts DEF HasRow, PayoutInv
<1>2. PICK s \in Slot : 
        /\ Goto(h, s)
        /\ \/ s.op = "idle"
           \/ s.op = "debit_failed" /\ s.request = slot[h].request
  <2>1. /\ [slot[h] EXCEPT !.op = "debit_failed"] \in Slot
        /\ [slot[h] EXCEPT !.op = "debit_failed"].op = "debit_failed"
        /\ [slot[h] EXCEPT !.op = "debit_failed"].request = slot[h].request
    BY <1>1, SlotFacts DEF PayoutInv
  <2>2. Idle \in Slot /\ Idle.op = "idle"
    BY DEF Slot, Idle
  <2>3. Goto(h, Idle) \/ Goto(h, [slot[h] EXCEPT !.op = "debit_failed"])
    OBVIOUS
  <2> QED
    BY <2>1, <2>2, <2>3
<1>3. RequestsApart' /\ PolledOnce' /\ slot' \in [Handlers -> Slot]
  BY <1>1, <1>2, SlotMoves
<1>4. wallet' \in [Users -> WalletRow]
  <2>1. PICK i \in Requests : i = slot[h].request
    BY <1>1
  <2>2. PICK u \in Users : u = row[i].user
    BY <1>1, <2>1 DEF PayoutInv, RequestsApart
  <2>3. row[i].amount \in Nat /\ wallet[u] \in WalletRow
    BY DEF PayoutInv, WithdrawalsTypeOK, RowType
  <2>4. CASE DebitWallet(h)
    <3>1. AfterWithdraw(wallet[u], row[i].amount) \in WalletRow
      BY <2>1, <2>2, <2>3, <2>4, WithdrawFacts
    <3> QED
      BY <2>1, <2>2, <2>4, <3>1 DEF PayoutInv, WithdrawalsTypeOK
  <2>5. CASE DebitRefused(h)
    BY <2>5 DEF PayoutInv, WithdrawalsTypeOK
  <2> QED
    BY <2>4, <2>5
<1> QED
  BY <1>1, <1>3, <1>4 DEF PayoutInv, WithdrawalsTypeOK, Spoil

LEMMA RowsOfRequests ==
    ASSUME WithdrawalsTypeOK, NEW h \in Handlers
    PROVE  RowsOf(slot[h]) \subseteq Requests
  BY SlotFacts DEF RowsOf, HasRow

LEMMA StepAbandon ==
    ASSUME PayoutInv, NEW h \in Handlers, Abandon(h)
    PROVE  PayoutInv'
<1>1. PICK s \in Slot : s = Idle
  BY DEF Slot
<1>2. RequestsApart' /\ PolledOnce' /\ slot' \in [Handlers -> Slot]
  BY <1>1, SlotMoves DEF Abandon, Idle
<1> QED
  BY <1>2, RowsOfRequests DEF PayoutInv, WithdrawalsTypeOK, Abandon, Spoil

LEMMA StepRestart == PayoutInv /\ Restart => PayoutInv'
<1> SUFFICES ASSUME PayoutInv, Restart PROVE PayoutInv'
  OBVIOUS
<1> USE DEF Restart
<1>1. RequestsApart' /\ PolledOnce'
  BY DEF PayoutInv, RequestsApart, PolledOnce, Polled, HasRow, Idle
<1>2. UNION {RowsOf(slot[h]) : h \in Handlers} \subseteq Requests
  BY RowsOfRequests DEF PayoutInv
<1>3. spoiled' \subseteq Requests
  <2>1. PICK halted : halted = IF poller.op = "refund" THEN {poller.request} ELSE {}
    OBVIOUS
  <2>2. halted \subseteq Requests
    BY <2>1, PollerFacts DEF PayoutInv
  <2>3. PICK requests : requests = UNION {RowsOf(slot[h]) : h \in Handlers}
    OBVIOUS
  <2>4. requests \subseteq Requests
    BY <1>2, <2>3
  <2>5. spoiled' = spoiled \cup (requests \cup halted)
    BY <2>1, <2>3 DEF Spoil
  <2>6. spoiled \subseteq Requests
    BY DEF PayoutInv, WithdrawalsTypeOK
  <2> QED
    BY <2>2, <2>4, <2>5, <2>6
<1>4. slot' \in [Handlers -> Slot] /\ poller' \in Poller
  BY DEF Slot, Poller
<1> QED
  BY <1>1, <1>3, <1>4 DEF PayoutInv, WithdrawalsTypeOK

LEMMA StepSettle == ASSUME PayoutInv, NEW i \in Requests, SettlePayout(i) PROVE PayoutInv'
<1> USE DEF SettlePayout
<1>1. RequestsApart' /\ PolledOnce'
  BY DEF PayoutInv, RequestsApart, PolledOnce, Polled, HasRow
<1> QED
  BY <1>1 DEF PayoutInv, WithdrawalsTypeOK

-----------------------------------------------------------------------------
(* Requests that write a row.                                              *)

(* A request writes the status of its own row and moves on: to failed, or  *)
(* to pending while its payout is not known yet.                           *)
LEMMA RequestWrites ==
    ASSUME PayoutInv, NEW h \in Handlers, HasRow(h), NEW s \in Slot, Goto(h, s),
           s.op = "idle" \/ (s.op = "debit" /\ s.request = slot[h].request),
           NEW i \in Requests, i = slot[h].request, NEW r \in RowType,
           row' = [row EXCEPT ![i] = r], r.user = row[i].user,
           row[i].payoutId => r.payoutId,
           r.status = "failed" \/ (r.status = "pending" /\ slot[h].op = "store"),
           UNCHANGED <<wallet, payout, debited, refunds, spoiled, poller>>
    PROVE  PayoutInv'
<1>1. /\ slot' \in [Handlers -> Slot] /\ slot'[h] = s
      /\ \A g \in Handlers : g # h => slot'[g] = slot[g]
  BY GotoFacts DEF PayoutInv
<1>2. /\ row' \in [Requests -> RowType] /\ row'[i] = r
      /\ \A j \in Requests : j # i => row'[j] = row[j]
  BY DEF PayoutInv, WithdrawalsTypeOK
<1>3. \A g \in Handlers : HasRow(g)' => HasRow(g) /\ slot'[g].request = slot[g].request
  BY <1>1 DEF HasRow
<1>4. \A g \in Handlers : slot'[g].op \in {"payout", "payout_failed", "store"} =>
          /\ slot[g].op \in {"payout", "payout_failed", "store"} /\ HasRow(g)
          /\ slot[g].request # i /\ slot[g].request \in Requests
          /\ slot'[g].request = slot[g].request
  BY <1>1, SlotFacts DEF HasRow, PayoutInv, RequestsApart
<1>5. RequestsApart'
  <2>1. row[i].user \in Users
    BY DEF PayoutInv, RequestsApart
  <2>2. \A g \in Handlers : HasRow(g)' => slot'[g].request \in Requests
    BY <1>3, SlotFacts DEF PayoutInv
  <2> QED
    BY <1>2, <1>3, <1>4, <2>1, <2>2 DEF PayoutInv, RequestsApart
<1>6. PolledOnce'
  <2>1. slot[h].op = "store" => ~Polled(i) /\ refunds[i] # 1
    BY DEF PayoutInv, PolledOnce, RequestsApart
  <2>2. \A j \in Requests : Polled(j)' <=> Polled(j)
    BY DEF Polled
  <2>3. poller.op = "refund" => poller.request \in Requests /\ Polled(poller.request)
    BY PollerFacts DEF PayoutInv, Polled
  <2> QED
    BY <1>2, <2>1, <2>2, <2>3 DEF PayoutInv, PolledOnce
<1> QED
  BY <1>1, <1>2, <1>5, <1>6 DEF PayoutInv, WithdrawalsTypeOK

(* A failed write only spoils the row.                                     *)
LEMMA RequestSpoils ==
    ASSUME PayoutInv, NEW h \in Handlers, HasRow(h), NEW s \in Slot, Goto(h, s),
           s.op = "idle" \/ (s.op = "debit" /\ s.request = slot[h].request),
           spoiled' = spoiled \/ Spoil({slot[h].request}),
           UNCHANGED <<wallet, row, payout, debited, refunds, poller>>
    PROVE  PayoutInv'
<1>1. RequestsApart' /\ PolledOnce' /\ slot' \in [Handlers -> Slot]
  BY SlotMoves
<1>2. slot[h].request \in Requests
  BY SlotFacts DEF PayoutInv
<1> QED
  BY <1>1, <1>2 DEF PayoutInv, WithdrawalsTypeOK, Spoil

LEMMA StepMark ==
    ASSUME PayoutInv, NEW h \in Handlers, MarkPayoutFailed(h) \/ MarkDebitFailed(h)
    PROVE  PayoutInv'
<1>1. HasRow(h) /\ slot[h].op \in {"payout_failed", "debit_failed"}
  BY DEF HasRow, MarkPayoutFailed, MarkDebitFailed
<1>2. PICK i \in Requests : i = slot[h].request
  BY <1>1, SlotFacts DEF PayoutInv
<1>3. PICK s \in Slot : Goto(h, s) /\ s.op = "idle"
  BY DEF Slot, Idle, MarkPayoutFailed, MarkDebitFailed
<1>4. row \in [Requests -> RowType] /\ row[i] \in RowType
  BY DEF PayoutInv, WithdrawalsTypeOK
<1>5. CASE UNCHANGED row
  <2>1. /\ spoiled' = spoiled \/ Spoil({slot[h].request})
        /\ UNCHANGED <<wallet, row, payout, debited, refunds, poller>>
    BY <1>5 DEF MarkPayoutFailed, MarkDebitFailed
  <2> QED
    BY <1>1, <1>3, <2>1, RequestSpoils
<1>6. CASE row' = [row EXCEPT ![i].status = "failed"] /\ UNCHANGED spoiled
  <2>1. PICK r \in RowType : r = [row[i] EXCEPT !.status = "failed"]
    BY <1>4, RowUpdate
  <2>2. r.status = "failed" /\ r.user = row[i].user /\ r.payoutId = row[i].payoutId
    BY <1>4, <2>1, RowUpdate
  <2>3. row' = [row EXCEPT ![i] = r]
    BY <1>4, <1>6, <2>1
  <2>4. UNCHANGED <<wallet, payout, debited, refunds, spoiled, poller>>
    BY <1>6 DEF MarkPayoutFailed, MarkDebitFailed
  <2> QED
    BY <1>1, <1>2, <1>3, <2>2, <2>3, <2>4, RequestWrites
<1>7. CASE /\ row' = [row EXCEPT ![i] = [row[i] EXCEPT !.status = "failed", !.payoutId = TRUE]]
           /\ UNCHANGED spoiled
  <2>1. PICK r \in RowType : r = [row[i] EXCEPT !.status = "failed", !.payoutId = TRUE]
    BY <1>4, RowUpdate
  <2>2. r.status = "failed" /\ r.user = row[i].user /\ r.payoutId
    BY <1>4, <2>1, RowUpdate
  <2>3. row' = [row EXCEPT ![i] = r]
    BY <1>7, <2>1
  <2>4. UNCHANGED <<wallet, payout, debited, refunds, spoiled, poller>>
    BY <1>7 DEF MarkPayoutFailed, MarkDebitFailed
  <2> QED
    BY <1>1, <1>2, <1>3, <2>2, <2>3, <2>4, RequestWrites
<1> QED
  BY <1>2, <1>5, <1>6, <1>7 DEF MarkPayoutFailed, MarkDebitFailed

LEMMA StepStore == ASSUME PayoutInv, NEW h \in Handlers, StorePayoutId(h) PROVE PayoutInv'
<1>1. HasRow(h) /\ slot[h].op = "store"
  BY DEF HasRow, StorePayoutId
<1>2. PICK i \in Requests : i = slot[h].request
  BY <1>1, SlotFacts DEF PayoutInv
<1>3. PICK s \in Slot : Goto(h, s) /\ s.op = "debit" /\ s.request = slot[h].request
  BY <1>1, SlotFacts DEF PayoutInv, StorePayoutId
<1>4. row \in [Requests -> RowType] /\ row[i] \in RowType
  BY DEF PayoutInv, WithdrawalsTypeOK
<1>5. CASE UNCHANGED row
  <2>1. /\ spoiled' = spoiled \/ Spoil({slot[h].request})
        /\ UNCHANGED <<wallet, row, payout, debited, refunds, poller>>
    BY <1>5 DEF StorePayoutId
  <2> QED
    BY <1>1, <1>3, <2>1, RequestSpoils
<1>6. CASE /\ row' = [row EXCEPT ![i] = [row[i] EXCEPT !.status = "pending", !.payoutId = TRUE]]
           /\ UNCHANGED spoiled
  <2>1. PICK r \in RowType : r = [row[i] EXCEPT !.status = "pending", !.payoutId = TRUE]
    BY <1>4, RowUpdate
  <2>2. r.status = "pending" /\ r.user = row[i].user /\ r.payoutId
    BY <1>4, <2>1, RowUpdate
  <2>3. row' = [row EXCEPT ![i] = r]
    BY <1>6, <2>1
  <2>4. UNCHANGED <<wallet, payout, debited, refunds, spoiled, poller>>
    BY <1>6 DEF StorePayoutId
  <2> QED
    BY <1>1, <1>2, <1>3, <2>2, <2>3, <2>4, RequestWrites
<1> QED
  BY <1>2, <1>5, <1>6 DEF StorePayoutId

LEMMA StepInsert ==
    ASSUME PayoutInv, NEW h \in Handlers, NEW i \in Requests, InsertRow(h, i)
    PROVE  PayoutInv'
<1> USE DEF InsertRow
<1>0. row[i].status = "none" /\ ~row[i].payoutId
  BY DEF NoRow
<1>1. PICK s \in Slot : Goto(h, s) /\ s = [op |-> "payout", request |-> i]
  BY DEF Slot
<1>2. /\ slot' \in [Handlers -> Slot] /\ slot'[h] = s
      /\ \A g \in Handlers : g # h => slot'[g] = slot[g]
  BY <1>1, GotoFacts DEF PayoutInv
<1>3. PICK r \in RowType : /\ r.status = "pending" /\ r.user \in Users /\ ~r.payoutId
                           /\ row' = [row EXCEPT ![i] = r]
  <2>1. slot[h].user \in Users /\ slot[h].amount \in Nat
    BY SlotFacts, WithdrawalBoundAssumption DEF PayoutInv
  <2>2. [status |-> "pending", user |-> slot[h].user, amount |-> slot[h].amount,
         payoutId |-> FALSE] \in RowType
    BY <2>1 DEF RowType
  <2> QED
    BY <2>1, <2>2
<1>4. /\ row' \in [Requests -> RowType] /\ row'[i] = r
      /\ \A j \in Requests : j # i => row'[j] = row[j]
  BY <1>3 DEF PayoutInv, WithdrawalsTypeOK
<1>5. \A g \in Handlers : g # h /\ HasRow(g) =>
          slot[g].request # i /\ slot[g].request \in Requests
  BY <1>0, SlotFacts DEF PayoutInv, RequestsApart
<1>6. \A g \in Handlers : g # h => (HasRow(g)' <=> HasRow(g))
  BY <1>2 DEF HasRow
<1>7. RequestsApart'
  <2>1. \A g \in Handlers : slot'[g].op \in {"payout", "payout_failed", "store"} => HasRow(g)'
    BY DEF HasRow
  <2> QED
    BY <1>1, <1>2, <1>3, <1>4, <1>5, <1>6, <2>1 DEF PayoutInv, RequestsApart
<1>8. PolledOnce'
  <2>1. ~Polled(i) /\ refunds[i] # 1
    BY <1>0 DEF PayoutInv, PolledOnce
  <2>2. \A j \in Requests : Polled(j)' <=> Polled(j)
    BY DEF Polled
  <2>3. poller.op = "refund" => poller.request \in Requests /\ Polled(poller.request)
    BY PollerFacts DEF PayoutInv, Polled
  <2> QED
    BY <1>4, <2>1, <2>2, <2>3 DEF PayoutInv, PolledOnce
<1> QED
  BY <1>2, <1>4, <1>7, <1>8 DEF PayoutInv, WithdrawalsTypeOK

-----------------------------------------------------------------------------
(* The poller.                                                             *)

(* It moves on among the rows it polls.                                    *)
LEMMA PollerMoves ==
    ASSUME PayoutInv, poller' \in Poller,
           UNCHANGED <<wallet, row, payout, debited, refunds, spoiled, slot>>,
           \A i \in Requests : Polled(i)' => row[i].payoutId /\ refunds[i] = 0,
           poller'.op \in {"save", "refund"} => poller'.request \notin poller'.left,
           poller'.op # "refund"
    PROVE  PayoutInv'
<1>1. RequestsApart'
  BY DEF PayoutInv, RequestsApart, HasRow
<1>2. PolledOnce'
  BY DEF PayoutInv, PolledOnce
<1> QED
  BY <1>1, <1>2 DEF PayoutInv, WithdrawalsTypeOK

LEMMA StepPoll == PayoutInv /\ PollPendingPayouts => PayoutInv'
<1> SUFFICES ASSUME PayoutInv, PollPendingPayouts PROVE PayoutInv'
  OBVIOUS
<1> USE DEF PollPendingPayouts, PendingPayouts
<1>1. poller' \in Poller /\ poller'.op = "check"
  BY DEF Poller
<1>2. \A i \in Requests : Polled(i)' => row[i].payoutId /\ refunds[i] = 0
  BY DEF Polled, PayoutInv, PolledOnce
<1> QED
  BY <1>1, <1>2, PollerMoves

LEMMA StepCheck ==
    ASSUME PayoutInv, NEW i \in Requests, CheckPayout(i) \/ SkipPayout(i)
    PROVE  PayoutInv'
<1> USE DEF CheckPayout, SkipPayout, NextToCheck
<1>1. poller.left \subseteq Requests
  BY PollerFacts DEF PayoutInv
<1>2. poller' \in Poller /\ poller'.op \in {"check", "save"}
  BY <1>1 DEF Poller
<1>3. \A j \in Requests : Polled(j)' => Polled(j)
  BY DEF Polled
<1>4. \A j \in Requests : Polled(j)' => row[j].payoutId /\ refunds[j] = 0
  BY <1>3 DEF PayoutInv, PolledOnce
<1>5. poller'.op \in {"save", "refund"} => poller'.request \notin poller'.left
  BY DEF Poller
<1> QED
  BY <1>2, <1>4, <1>5, PollerMoves

LEMMA StepPollDone == PayoutInv /\ (PollDone \/ SavePayoutFails) => PayoutInv'
<1> SUFFICES ASSUME PayoutInv, PollDone \/ SavePayoutFails PROVE PayoutInv'
  OBVIOUS
<1> USE DEF PollDone, SavePayoutFails, Idle
<1>1. poller.op # "idle" => poller.left \subseteq Requests
  BY PollerFacts DEF PayoutInv
<1>2. poller' \in Poller /\ poller'.op \in {"idle", "check"}
  BY <1>1 DEF Poller
<1>3. \A j \in Requests : Polled(j)' => Polled(j)
  BY DEF Polled
<1>4. \A j \in Requests : Polled(j)' => row[j].payoutId /\ refunds[j] = 0
  BY <1>3 DEF PayoutInv, PolledOnce
<1> QED
  BY <1>2, <1>4, PollerMoves

LEMMA StepSave == PayoutInv /\ SavePayoutStatus => PayoutInv'
<1> SUFFICES ASSUME PayoutInv, SavePayoutStatus PROVE PayoutInv'
  OBVIOUS
<1> USE DEF SavePayoutStatus
<1>0. /\ poller.left \subseteq Requests /\ poller.status \in {"success", "failed"}
      /\ poller.op = "save" /\ poller.request \notin poller.left
  BY PollerFacts DEF PayoutInv, PolledOnce
<1>1. PICK i \in Requests : i = poller.request
  BY PollerFacts DEF PayoutInv
<1>2. Polled(i) /\ row[i].payoutId /\ refunds[i] = 0 /\ row[i] \in RowType
  BY <1>0, <1>1 DEF Polled, PayoutInv, PolledOnce, WithdrawalsTypeOK
<1>s. PICK s \in {"none", "pending", "success", "failed"} : s = poller.status
  BY <1>0
<1>3. PICK r \in RowType : r = [row[i] EXCEPT !.status = s, !.payoutId = TRUE]
  BY <1>2, RowUpdate
<1>4. r.status = s /\ r.user = row[i].user /\ r.payoutId
  BY <1>2, <1>3 DEF RowType
<1>5. /\ row' \in [Requests -> RowType] /\ row'[i] = r
      /\ \A j \in Requests : j # i => row'[j] = row[j]
  BY <1>1, <1>s, <1>3 DEF PayoutInv, WithdrawalsTypeOK
<1>6. /\ poller' \in Poller /\ poller'.op \in {"check", "refund"}
      /\ poller'.left = poller.left
      /\ poller'.op = "refund" => poller'.request = i /\ poller.status = "failed"
  BY <1>0, <1>1 DEF Poller
<1>7. RequestsApart'
  <2>1. row[i].user \in Users
    BY <1>2 DEF PayoutInv, RequestsApart
  <2>2. \A h \in Handlers : HasRow(h)' => HasRow(h) /\ slot[h].request \in Requests
    BY SlotFacts DEF PayoutInv, HasRow
  <2>3. \A h \in Handlers : slot[h].op \in {"payout", "payout_failed", "store"} =>
            slot[h].request # i /\ slot[h].request \in Requests
    BY <1>2, SlotFacts DEF HasRow, PayoutInv, RequestsApart
  <2>4. \A j \in Requests : /\ row'[j].status # "none" => row'[j].user \in Users
                            /\ row'[j].payoutId => row'[j].status # "none"
                            /\ row[j].status # "none" => row'[j].status # "none"
    BY <1>0, <1>s, <1>4, <1>5, <2>1 DEF PayoutInv, RequestsApart
  <2>5. \A h \in Handlers : slot'[h] = slot[h]
    OBVIOUS
  <2> QED
    BY <1>5, <2>2, <2>3, <2>4, <2>5 DEF PayoutInv, RequestsApart
<1>8. PolledOnce'
  <2>1. \A j \in Requests : Polled(j)' => Polled(j)
    BY <1>0, <1>1, <1>6 DEF Polled
  <2>2. \A j \in Requests : refunds[j] = 1 => j # i
    BY <1>2
  <2> QED
    BY <1>0, <1>s, <1>1, <1>4, <1>5, <1>6, <2>1, <2>2 DEF PayoutInv, PolledOnce
<1> QED
  BY <1>5, <1>6, <1>7, <1>8 DEF PayoutInv, WithdrawalsTypeOK

LEMMA StepRefund == PayoutInv /\ RefundWallet => PayoutInv'
<1> SUFFICES ASSUME PayoutInv, RefundWallet PROVE PayoutInv'
  OBVIOUS
<1>0. /\ poller.op = "refund" /\ poller.left \subseteq Requests
      /\ poller.request \notin poller.left
      /\ UNCHANGED <<row, payout, debited, slot>>
      /\ poller' = [op |-> "check", left |-> poller.left]
  BY PollerFacts DEF PayoutInv, PolledOnce, RefundWallet
<1>1. PICK i \in Requests : i = poller.request
  BY <1>0, PollerFacts DEF PayoutInv
<1>2. /\ Polled(i) /\ refunds[i] = 0 /\ row[i].status = "failed" /\ row[i].amount \in Nat
      /\ refunds \in [Requests -> Nat]
  BY <1>0, <1>1 DEF Polled, PayoutInv, PolledOnce, WithdrawalsTypeOK, RowType
<1>3. PICK u \in Users : u = row[i].user
  BY <1>2 DEF PayoutInv, RequestsApart
<1>4. poller' \in Poller /\ poller'.op = "check" /\ poller'.left = poller.left
  BY <1>0 DEF Poller
<1>5. RequestsApart'
  BY <1>0 DEF PayoutInv, RequestsApart, HasRow
<1>6. /\ refunds' \in [Requests -> Nat] /\ refunds'[i] \in {0, 1}
      /\ \A j \in Requests : j # i => refunds'[j] = refunds[j]
      /\ spoiled' = spoiled \/ spoiled' = spoiled \cup {i}
      /\ wallet' = wallet \/ (/\ CanDeposit(wallet[u], row[i].amount)
                              /\ wallet' = [wallet EXCEPT ![u] =
                                              AfterDeposit(wallet[u], row[i].amount)])
  BY <1>1, <1>2, <1>3 DEF RefundWallet, Spoil
<1>7. wallet' \in [Users -> WalletRow]
  <2>1. wallet \in [Users -> WalletRow]
    BY DEF PayoutInv, WithdrawalsTypeOK
  <2>2. CanDeposit(wallet[u], row[i].amount) =>
            AfterDeposit(wallet[u], row[i].amount) \in WalletRow
    BY <1>2, <2>1, DepositFacts
  <2> QED
    BY <1>6, <2>1, <2>2
<1>8. PolledOnce'
  <2>1. \A j \in Requests : Polled(j)' => Polled(j) /\ j # i
    BY <1>0, <1>1, <1>4 DEF Polled
  <2> QED
    BY <1>0, <1>2, <1>4, <1>6, <2>1 DEF PayoutInv, PolledOnce
<1> QED
  BY <1>0, <1>4, <1>5, <1>6, <1>7, <1>8 DEF PayoutInv, WithdrawalsTypeOK

-----------------------------------------------------------------------------
LEMMA StepPayoutInv == PayoutInv /\ [Next]_vars => PayoutInv'
<1> SUFFICES ASSUME PayoutInv, [Next]_vars PROVE PayoutInv'
  OBVIOUS
<1>1. ASSUME NEW h \in Handlers, NEW u \in Users, NEW amount \in Amounts,
             RequestWithdrawal(h, u, amount)
      PROVE  PayoutInv'
  BY <1>1, StepRequest
<1>2. ASSUME NEW h \in Handlers, RequestStep(h) PROVE PayoutInv'
  BY <1>2, StepInsert, StepPayout, StepMark, StepStore, StepDebit DEF RequestStep
<1>3. ASSUME NEW h \in Handlers, Abandon(h) PROVE PayoutInv'
  BY <1>3, StepAbandon
<1>4. ASSUME NEW i \in Requests, SettlePayout(i) PROVE PayoutInv'
  BY <1>4, StepSettle
<1>5. CASE PollerStep
  BY <1>5, StepPoll, StepCheck, StepPollDone, StepSave, StepRefund DEF PollerStep
<1>6. CASE Restart
  BY <1>6, StepRestart
<1>7. CASE UNCHANGED vars
  BY <1>7 DEF vars, PayoutInv, WithdrawalsTypeOK, RequestsApart, HasRow, PolledOnce, Polled
<1> QED
  BY <1>1, <1>2, <1>3, <1>4, <1>5, <1>6, <1>7 DEF Next

LEMMA PayoutInvariance == Spec => []PayoutInv
  BY InitPayoutInv, StepPayoutInv, PTL DEF Spec

(* Rows, slots and the poller always hold what the code can have put       *)
(* there, and no operation of the ledger leaves a negative wallet.         *)
THEOREM WithdrawalsTypeCorrect == Spec => []WithdrawalsTypeOK
<1>1. PayoutInv => WithdrawalsTypeOK
  BY DEF PayoutInv
<1> QED
  BY <1>1, PayoutInvariance, PTL

(* However many requests and users there are, and whatever stops, overlaps *)
(* or is not saved, no withdrawal is refunded twice.                       *)
THEOREM RefundedOnceHolds == Spec => []RefundedOnce
<1>1. PayoutInv => RefundedOnce
  BY DEF PayoutInv, PolledOnce, RefundedOnce
<1> QED
  BY <1>1, PayoutInvariance, PTL

(* The only write of "pending" finds a row that was never settled.         *)
LEMMA SettledRows ==
    PayoutInv /\ [Next]_vars =>
        [\A i \in Requests : row[i].status \in {"success", "failed"} =>
                                 row'[i].status \in {"success", "failed"}]_row
<1> SUFFICES ASSUME PayoutInv, Next, row' # row, NEW i \in Requests,
                    row[i].status \in {"success", "failed"}
             PROVE  row'[i].status \in {"success", "failed"}
  BY DEF vars
<1>1. row \in [Requests -> RowType]
  BY DEF PayoutInv, WithdrawalsTypeOK
<1>2. ASSUME NEW h \in Handlers, NEW j \in Requests, InsertRow(h, j)
      PROVE  row'[i].status \in {"success", "failed"}
  BY <1>1, <1>2 DEF InsertRow, NoRow
<1>3. ASSUME NEW h \in Handlers, MarkPayoutFailed(h) \/ MarkDebitFailed(h)
      PROVE  row'[i].status \in {"success", "failed"}
  <2>1. PICK j \in Requests : j = slot[h].request
    BY <1>3, SlotFacts DEF PayoutInv, HasRow, MarkPayoutFailed, MarkDebitFailed
  <2>2. PICK r \in RowType : r = row[j]
    BY <1>1
  <2>3. /\ [r EXCEPT !.status = "failed"].status = "failed"
        /\ [r EXCEPT !.status = "failed", !.payoutId = TRUE].status = "failed"
    BY RowUpdate
  <2>4. \/ row' = row
        \/ row' = [row EXCEPT ![j] = [r EXCEPT !.status = "failed"]]
        \/ row' = [row EXCEPT ![j] = [r EXCEPT !.status = "failed", !.payoutId = TRUE]]
    BY <1>1, <1>3, <2>1, <2>2 DEF MarkPayoutFailed, MarkDebitFailed
  <2> QED
    BY <1>1, <2>3, <2>4
<1>4. ASSUME NEW h \in Handlers, StorePayoutId(h)
      PROVE  row'[i].status \in {"success", "failed"}
  <2>1. row[slot[h].request].status = "pending"
    BY <1>4 DEF StorePayoutId, PayoutInv, RequestsApart
  <2> QED
    BY <1>1, <1>4, <2>1 DEF StorePayoutId
<1>5. CASE SavePayoutStatus
  <2>1. PICK s \in {"success", "failed"} : s = poller.status
    BY <1>5, PollerFacts DEF SavePayoutStatus, PayoutInv
  <2>2. PICK j \in Requests : j = poller.request
    BY <1>5, PollerFacts DEF SavePayoutStatus, PayoutInv
  <2>3. PICK r \in RowType : r = row[j]
    BY <1>1
  <2>4. [r EXCEPT !.status = s, !.payoutId = TRUE].status = s
    BY DEF RowType
  <2>5. row' = [row EXCEPT ![j] = [r EXCEPT !.status = s, !.payoutId = TRUE]]
    BY <1>5, <2>1, <2>2, <2>3 DEF SavePayoutStatus
  <2> QED
    BY <1>1, <2>4, <2>5
<1> QED
  BY <1>2, <1>3, <1>4, <1>5
     DEF Next, RequestWithdrawal, RequestStep, CreatePayout, CreatePayoutFails, DebitWallet,
         DebitRefused, Abandon, SettlePayout, PollerStep, PollPendingPayouts, CheckPayout,
         SkipPayout, PollDone, SavePayoutFails, RefundWallet, Restart

(* No save of a stale row brings a settled withdrawal back to the poller.  *)
THEOREM SettledStaysSettledHolds == Spec => SettledStaysSettled
  BY PayoutInvariance, SettledRows, PTL DEF Spec, SettledStaysSettled
-----------------------------------------------------------------------------
(* Where the money is.                                                     *)

(* What each withdrawal has taken from the wallet of a user, in given rows *)
(* R, debits D and refunds F.                                              *)
Taken(u, R, D, F) ==
    [i \in Requests |->
        IF R[i].user = u
        THEN (IF i \in D THEN R[i].amount ELSE 0) - (IF F[i] = 1 THEN R[i].amount ELSE 0)
        ELSE 0]

(* A wallet holds what it began with, less what the withdrawals took.      *)
Books ==
    \A u \in Users :
        wallet[u].balance + Total(Taken(u, row, debited, refunds), Requests) = Opening

(* A row without a payout is not debited, and a request creates no second  *)
(* payout and makes no second debit; a payout that is not debited belongs  *)
(* to a request about to debit it, or to a spoiled one; refunds follow     *)
(* failed payouts only.                                                    *)
SentOnce ==
    /\ \A i \in Requests : row[i].status = "none" => payout[i] = "none" /\ i \notin debited
    /\ \A h \in Handlers : HasRow(h) => slot[h].request \notin debited
    /\ \A h \in Handlers : slot[h].op = "payout" => payout[slot[h].request] = "none"
    /\ \A h \in Handlers : slot[h].op = "payout_failed" =>
          slot[h].request \in spoiled \/ payout[slot[h].request] = "none"
    /\ \A i \in Requests : payout[i] # "none" =>
          \/ i \in spoiled \cup debited
          \/ \E h \in Handlers : slot[h].op \in {"store", "debit"} /\ slot[h].request = i
    /\ poller.op = "save" /\ poller.status = "failed" => payout[poller.request] = "failed"
    /\ poller.op = "refund" => payout[poller.request] = "failed"
    /\ \A i \in Requests : refunds[i] = 1 => payout[i] = "failed"

MoneyInv == PayoutInv /\ SentOnce /\ Books

-----------------------------------------------------------------------------
(* The books.                                                              *)

LEMMA RequestsAreFinite == IsFiniteSet(Requests)
  BY WithdrawalBoundAssumption, FS_Interval DEF Requests

LEMMA TakenIsInt ==
    ASSUME NEW u, NEW R \in [Requests -> RowType], NEW D, NEW F, NEW i \in Requests
    PROVE  Taken(u, R, D, F)[i] \in Int
<1>1. PICK a \in Nat : a = R[i].amount
  BY DEF RowType
<1> QED
  BY <1>1 DEF Taken

(* Entries that stay as they were, in wallets that did not change.         *)
LEMMA BooksStay ==
    ASSUME Books, \A v \in Users : wallet'[v].balance = wallet[v].balance,
           \A v \in Users : \A j \in Requests :
               Taken(v, row', debited', refunds')[j] = Taken(v, row, debited, refunds)[j]
    PROVE  Books'
<1>1. ASSUME NEW v \in Users
      PROVE  wallet'[v].balance + Total(Taken(v, row', debited', refunds'), Requests) = Opening
  <2>1. PICK k : k = Taken(v, row', debited', refunds')
    OBVIOUS
  <2>2. PICK f : f = Taken(v, row, debited, refunds)
    OBVIOUS
  <2>3. \A j \in Requests : k[j] = f[j]
    BY <2>1, <2>2
  <2>4. Total(k, Requests) = Total(f, Requests)
    BY <2>3, RequestsAreFinite, TotalSame
  <2> QED
    BY <2>1, <2>2, <2>4 DEF Books
<1> QED
  BY <1>1 DEF Books

(* A write that keeps user and amount, or finds no debit and no refund.    *)
LEMMA BooksRows ==
    ASSUME Books, UNCHANGED <<wallet, debited, refunds>>,
           \A j \in Requests : \/ row'[j].user = row[j].user /\ row'[j].amount = row[j].amount
                               \/ j \notin debited /\ refunds[j] # 1
    PROVE  Books'
<1>1. ASSUME NEW v \in Users, NEW j \in Requests
      PROVE  Taken(v, row', debited', refunds')[j] = Taken(v, row, debited, refunds)[j]
  BY DEF Taken
<1> QED
  BY <1>1, BooksStay

(* One withdrawal takes an amount, and its user's balance falls by it.     *)
LEMMA BooksMove ==
    ASSUME MoneyInv, NEW i \in Requests, NEW u \in Users, u = row[i].user, NEW d \in Int,
           UNCHANGED row, NEW w, wallet' = [wallet EXCEPT ![u] = w],
           w.balance = wallet[u].balance - d,
           \A j \in Requests : j # i =>
               (j \in debited' <=> j \in debited) /\ refunds'[j] = refunds[j],
           Taken(u, row, debited', refunds')[i] = Taken(u, row, debited, refunds)[i] + d
    PROVE  Books'
<1>1. wallet \in [Users -> WalletRow] /\ row \in [Requests -> RowType]
  BY DEF MoneyInv, PayoutInv, WithdrawalsTypeOK
<1>2. ASSUME NEW v \in Users
      PROVE  wallet'[v].balance + Total(Taken(v, row', debited', refunds'), Requests) = Opening
  <2>1. PICK k : k = Taken(v, row, debited', refunds')
    OBVIOUS
  <2>2. PICK f : f = Taken(v, row, debited, refunds)
    OBVIOUS
  <2>3. \A j \in Requests : f[j] \in Int
    BY <1>1, <2>2, TakenIsInt
  <2>4. k[i] \in Int
    BY <1>1, <2>1, TakenIsInt
  <2>5. \A j \in Requests : j # i => k[j] = f[j]
    BY <2>1, <2>2 DEF Taken
  <2>6. Total(k, Requests) = Total(f, Requests) + k[i] - f[i]
    BY <2>3, <2>4, <2>5, RequestsAreFinite, TotalChange
  <2>7. Total(f, Requests) \in Int
    BY <2>3, RequestsAreFinite, TotalIsInt
  <2>8. wallet[v].balance + Total(f, Requests) = Opening
    BY <2>2 DEF MoneyInv, Books
  <2>9. PICK b \in Int : b = wallet[v].balance
    BY <1>1, RowIsNumbers
  <2>10. CASE v = u
    <3>1. wallet'[v].balance = b - d
      BY <1>1, <2>9, <2>10
    <3>2. k[i] = f[i] + d
      BY <2>1, <2>2, <2>10
    <3>3. PICK x \in Int, y \in Int : x = f[i] /\ y = Total(f, Requests)
      BY <2>3, <2>7
    <3>4. Total(k, Requests) = y + (x + d) - x
      BY <2>6, <3>2, <3>3
    <3>5. (b - d) + (y + (x + d) - x) = b + y
      OBVIOUS
    <3> QED
      BY <2>1, <2>8, <2>9, <3>1, <3>3, <3>4, <3>5
  <2>11. CASE v # u
    <3>1. wallet'[v] = wallet[v] /\ k[i] = f[i]
      BY <1>1, <2>1, <2>2, <2>11 DEF Taken
    <3>2. Total(k, Requests) = Total(f, Requests)
      BY <2>3, <2>6, <2>7, <3>1
    <3> QED
      BY <2>1, <2>8, <3>1, <3>2
  <2> QED
    BY <2>10, <2>11
<1> QED
  BY <1>2 DEF Books

-----------------------------------------------------------------------------
(* The steps.                                                              *)

(* A request that has a row moves on, or ends.                             *)
LEMMA RequestMoves ==
    ASSUME MoneyInv, NEW h \in Handlers, HasRow(h), NEW s \in Slot, Goto(h, s),
           NEW i \in Requests, i = slot[h].request,
           \/ s.op = "idle"
           \/ s.request = i /\ s.op \in {"store", "payout_failed", "debit", "debit_failed"},
           s.op = "payout_failed" => i \in spoiled' \/ payout'[i] = "none",
           debited' = debited \/ (debited' = debited \cup {i} /\ s.op = "idle"),
           \A j \in Requests : j # i => payout'[j] = payout[j],
           payout'[i] = payout[i] \/ payout[i] = "none",
           spoiled \subseteq spoiled',
           payout'[i] # "none" => i \in spoiled' \cup debited' \/ s.op \in {"store", "debit"},
           \A j \in Requests : row'[j].status = "none" => row[j].status = "none",
           UNCHANGED <<refunds, poller>>
    PROVE  SentOnce'
<1>1. /\ slot' \in [Handlers -> Slot] /\ slot'[h] = s
      /\ \A g \in Handlers : g # h => slot'[g] = slot[g]
  BY GotoFacts DEF MoneyInv, PayoutInv
<1>2. \A g \in Handlers : g # h /\ HasRow(g) => slot[g].request # i /\ slot[g].request \in Requests
  BY SlotFacts DEF MoneyInv, PayoutInv, RequestsApart
<1>3. row[i].status # "none" /\ i \notin debited
  BY DEF MoneyInv, PayoutInv, RequestsApart, SentOnce
<1>4. \A j \in Requests : row'[j].status = "none" => payout'[j] = "none" /\ j \notin debited'
  BY <1>3 DEF MoneyInv, SentOnce
<1>5. \A g \in Handlers : HasRow(g)' => slot'[g].request \notin debited'
  BY <1>1, <1>2, <1>3 DEF HasRow, MoneyInv, SentOnce
<1>6. \A g \in Handlers : slot'[g].op = "payout" => payout'[slot'[g].request] = "none"
  BY <1>1, <1>2 DEF HasRow, MoneyInv, SentOnce
<1>7. \A g \in Handlers : slot'[g].op = "payout_failed" =>
          slot'[g].request \in spoiled' \/ payout'[slot'[g].request] = "none"
  BY <1>1, <1>2 DEF HasRow, MoneyInv, SentOnce
<1>8. ASSUME NEW j \in Requests, payout'[j] # "none"
      PROVE  \/ j \in spoiled' \cup debited'
             \/ \E g \in Handlers : slot'[g].op \in {"store", "debit"} /\ slot'[g].request = j
  <2>1. CASE j = i
    BY <1>1, <1>8, <2>1
  <2>2. CASE j # i
    <3>1. \/ j \in spoiled \cup debited
          \/ \E g \in Handlers : slot[g].op \in {"store", "debit"} /\ slot[g].request = j
      BY <1>8, <2>2 DEF MoneyInv, SentOnce
    <3> QED
      BY <1>1, <2>2, <3>1
  <2> QED
    BY <2>1, <2>2
<1>9. /\ poller'.op = "save" /\ poller'.status = "failed" => payout'[poller'.request] = "failed"
      /\ poller'.op = "refund" => payout'[poller'.request] = "failed"
  <2>1. poller.op \in {"save", "refund"} => poller.request \in Requests
    BY PollerFacts DEF MoneyInv, PayoutInv
  <2> QED
    BY <2>1 DEF MoneyInv, SentOnce
<1>10. \A j \in Requests : refunds'[j] = 1 => payout'[j] = "failed"
  BY DEF MoneyInv, SentOnce
<1> QED
  BY <1>4, <1>5, <1>6, <1>7, <1>8, <1>9, <1>10 DEF SentOnce

(* A request that has no row yet begins or ends.                           *)
LEMMA RowlessMoves ==
    ASSUME MoneyInv, NEW h \in Handlers, ~HasRow(h), NEW s \in Slot, Goto(h, s),
           s.op \in {"idle", "insert"}, spoiled \subseteq spoiled',
           UNCHANGED <<row, payout, debited, refunds, poller>>
    PROVE  SentOnce'
<1>1. /\ slot' \in [Handlers -> Slot] /\ slot'[h] = s
      /\ \A g \in Handlers : g # h => slot'[g] = slot[g]
  BY GotoFacts DEF MoneyInv, PayoutInv
<1>2. \A g \in Handlers : slot'[g].op \notin {"idle", "insert"} => slot'[g] = slot[g]
  BY <1>1
<1>3. \A g \in Handlers : slot[g].op \notin {"idle", "insert"} => slot'[g] = slot[g]
  BY <1>1 DEF HasRow
<1>4. \A j \in Requests : payout'[j] # "none" =>
          \/ j \in spoiled' \cup debited'
          \/ \E g \in Handlers : slot'[g].op \in {"store", "debit"} /\ slot'[g].request = j
  BY <1>3 DEF MoneyInv, SentOnce
<1> QED
  BY <1>2, <1>4 DEF MoneyInv, SentOnce, HasRow

LEMMA RequestMoney ==
    ASSUME MoneyInv, NEW h \in Handlers, NEW u \in Users, NEW amount \in Amounts,
           RequestWithdrawal(h, u, amount)
    PROVE  MoneyInv'
<1>1. PICK s \in Slot : s = [op |-> "insert", user |-> u, amount |-> amount]
  BY DEF Slot
<1>2. /\ Goto(h, s) /\ ~HasRow(h)
      /\ UNCHANGED <<wallet, row, payout, debited, refunds, spoiled, poller>>
  BY <1>1 DEF RequestWithdrawal, HasRow, Idle
<1>3. SentOnce'
  BY <1>1, <1>2, RowlessMoves
<1>4. Books'
  BY <1>2, BooksRows DEF MoneyInv
<1>5. PayoutInv'
  BY StepRequest DEF MoneyInv
<1> QED
  BY <1>3, <1>4, <1>5 DEF MoneyInv

LEMMA InsertMoney ==
    ASSUME MoneyInv, NEW h \in Handlers, NEW i \in Requests, InsertRow(h, i)
    PROVE  MoneyInv'
<1>1. row[i].status = "none" /\ ~HasRow(h)
  BY DEF InsertRow, NoRow, HasRow
<1>2. PICK s \in Slot : Goto(h, s) /\ s = [op |-> "payout", request |-> i]
  BY DEF InsertRow, Slot
<1>3. /\ slot' \in [Handlers -> Slot] /\ slot'[h] = s
      /\ \A g \in Handlers : g # h => slot'[g] = slot[g]
  BY <1>2, GotoFacts DEF MoneyInv, PayoutInv
<1>4. UNCHANGED <<wallet, payout, debited, refunds, spoiled, poller>>
  BY DEF InsertRow
<1>5. payout[i] = "none" /\ i \notin debited /\ refunds[i] # 1
  BY <1>1 DEF MoneyInv, SentOnce, PayoutInv, PolledOnce
<1>6. \A j \in Requests : j # i => row'[j] = row[j]
  BY DEF InsertRow, MoneyInv, PayoutInv, WithdrawalsTypeOK
<1>7. SentOnce'
  <2>1. \A j \in Requests :
            row'[j].status = "none" => payout'[j] = "none" /\ j \notin debited'
    BY <1>4, <1>5, <1>6 DEF MoneyInv, SentOnce
  <2>2. \A g \in Handlers : g # h => (HasRow(g)' <=> HasRow(g))
    BY <1>3 DEF HasRow
  <2>3. \A g \in Handlers : HasRow(g)' => slot'[g].request \notin debited'
    BY <1>2, <1>3, <1>4, <1>5, <2>2 DEF MoneyInv, SentOnce
  <2>4. \A j \in Requests : payout'[j] # "none" =>
            \/ j \in spoiled' \cup debited'
            \/ \E g \in Handlers : slot'[g].op \in {"store", "debit"} /\ slot'[g].request = j
    <3>1. slot[h].op \notin {"store", "debit"}
      BY <1>1 DEF HasRow
    <3> QED
      BY <1>3, <1>4, <3>1 DEF MoneyInv, SentOnce
  <2>5. \A g \in Handlers : slot'[g].op = "payout" => payout'[slot'[g].request] = "none"
    BY <1>2, <1>3, <1>4, <1>5 DEF MoneyInv, SentOnce
  <2>6. \A g \in Handlers : slot'[g].op = "payout_failed" =>
            slot'[g].request \in spoiled' \/ payout'[slot'[g].request] = "none"
    BY <1>2, <1>3, <1>4 DEF MoneyInv, SentOnce
  <2> QED
    BY <1>4, <2>1, <2>3, <2>4, <2>5, <2>6 DEF MoneyInv, SentOnce
<1>8. Books'
  BY <1>4, <1>5, <1>6, BooksRows DEF MoneyInv
<1>9. PayoutInv'
  BY StepInsert DEF MoneyInv
<1> QED
  BY <1>7, <1>8, <1>9 DEF MoneyInv

(* The payout is created once, before any debit.                           *)
LEMMA PayoutMoney ==
    ASSUME MoneyInv, NEW h \in Handlers, CreatePayout(h) \/ CreatePayoutFails(h)
    PROVE  MoneyInv'
<1>1. HasRow(h) /\ slot[h].op = "payout"
  BY DEF HasRow, CreatePayout, CreatePayoutFails
<1>2. PICK i \in Requests : i = slot[h].request
  BY <1>1, SlotFacts DEF MoneyInv, PayoutInv
<1>3. payout \in [Requests -> {"none", "processing", "succeeded", "failed"}] /\ payout[i] = "none"
  BY <1>1, <1>2 DEF MoneyInv, PayoutInv, WithdrawalsTypeOK, SentOnce
<1>4. PICK s \in Slot : /\ Goto(h, s) /\ s.request = i
                        /\ s.op = IF CreatePayout(h) THEN "store" ELSE "payout_failed"
  <2>1. /\ [slot[h] EXCEPT !.op = "store"] \in Slot
        /\ [slot[h] EXCEPT !.op = "store"].op = "store"
        /\ [slot[h] EXCEPT !.op = "store"].request = i
        /\ [slot[h] EXCEPT !.op = "payout_failed"] \in Slot
        /\ [slot[h] EXCEPT !.op = "payout_failed"].op = "payout_failed"
        /\ [slot[h] EXCEPT !.op = "payout_failed"].request = i
    BY <1>1, <1>2, SlotFacts DEF MoneyInv, PayoutInv
  <2>2. CASE CreatePayout(h)
    BY <2>1, <2>2 DEF CreatePayout
  <2>3. CASE ~CreatePayout(h)
    BY <2>1, <2>3 DEF CreatePayoutFails
  <2> QED
    BY <2>2, <2>3
<1>5. /\ UNCHANGED <<wallet, row, debited, refunds, poller>>
      /\ spoiled \subseteq spoiled'
      /\ \A j \in Requests : j # i => payout'[j] = payout[j]
  BY <1>2, <1>3 DEF CreatePayout, CreatePayoutFails, Spoil
<1>6. s.op = "payout_failed" => i \in spoiled' \/ payout'[i] = "none"
  BY <1>2, <1>3, <1>4 DEF CreatePayoutFails, Spoil
<1>7. payout'[i] # "none" => i \in spoiled' \cup debited' \/ s.op \in {"store", "debit"}
  BY <1>4, <1>6
<1>8. SentOnce'
  BY <1>1, <1>2, <1>3, <1>4, <1>5, <1>6, <1>7, RequestMoves
<1>9. Books'
  BY <1>5, BooksRows DEF MoneyInv
<1>10. PayoutInv'
  BY StepPayout DEF MoneyInv
<1> QED
  BY <1>8, <1>9, <1>10 DEF MoneyInv

(* What a request saves in its own row.                                    *)
LEMMA SaveMoney ==
    ASSUME MoneyInv, NEW h \in Handlers,
           MarkPayoutFailed(h) \/ StorePayoutId(h) \/ MarkDebitFailed(h)
    PROVE  MoneyInv'
<1>1. HasRow(h) /\ slot[h].op \in {"payout_failed", "store", "debit_failed"}
  BY DEF HasRow, MarkPayoutFailed, StorePayoutId, MarkDebitFailed
<1>2. PICK i \in Requests : i = slot[h].request
  BY <1>1, SlotFacts DEF MoneyInv, PayoutInv
<1>3. row \in [Requests -> RowType] /\ row[i] \in RowType
  BY DEF MoneyInv, PayoutInv, WithdrawalsTypeOK
<1>4. PICK s \in Slot : /\ Goto(h, s)
                        /\ IF slot[h].op = "store" THEN s.op = "debit" /\ s.request = i
                                                   ELSE s.op = "idle"
  <2>1. Idle \in Slot /\ Idle.op = "idle"
    BY DEF Idle, Slot
  <2>2. /\ [slot[h] EXCEPT !.op = "debit"] \in Slot
        /\ [slot[h] EXCEPT !.op = "debit"].op = "debit"
        /\ [slot[h] EXCEPT !.op = "debit"].request = i
    BY <1>1, <1>2, SlotFacts DEF MoneyInv, PayoutInv
  <2> QED
    BY <2>1, <2>2 DEF MarkPayoutFailed, StorePayoutId, MarkDebitFailed
<1>5. /\ UNCHANGED <<wallet, payout, debited, refunds, poller>>
      /\ spoiled \subseteq spoiled'
  BY DEF MarkPayoutFailed, StorePayoutId, MarkDebitFailed, Spoil
<1>6. \A j \in Requests : /\ row'[j].user = row[j].user /\ row'[j].amount = row[j].amount
                          /\ row'[j].status = "none" => row[j].status = "none"
  <2>1. \/ row' = row
        \/ row' = [row EXCEPT ![i] = [row[i] EXCEPT !.status = "failed"]]
        \/ row' = [row EXCEPT ![i] = [row[i] EXCEPT !.status = "failed", !.payoutId = TRUE]]
        \/ row' = [row EXCEPT ![i] = [row[i] EXCEPT !.status = "pending", !.payoutId = TRUE]]
    BY <1>2, <1>3 DEF MarkPayoutFailed, StorePayoutId, MarkDebitFailed
  <2>2. ASSUME NEW r \in RowType, row' = [row EXCEPT ![i] = r], r.status # "none",
               r.user = row[i].user, r.amount = row[i].amount
        PROVE  \A j \in Requests : /\ row'[j].user = row[j].user /\ row'[j].amount = row[j].amount
                                   /\ row'[j].status = "none" => row[j].status = "none"
    BY <1>3, <2>2
  <2>3. ASSUME NEW r, r \in {[row[i] EXCEPT !.status = "failed"],
                             [row[i] EXCEPT !.status = "failed", !.payoutId = TRUE],
                             [row[i] EXCEPT !.status = "pending", !.payoutId = TRUE]}
        PROVE  /\ r \in RowType /\ r.status # "none"
               /\ r.user = row[i].user /\ r.amount = row[i].amount
    BY <1>3, <2>3 DEF RowType
  <2> QED
    BY <2>1, <2>2, <2>3
<1>7. payout'[i] # "none" => i \in spoiled' \cup debited' \/ s.op \in {"store", "debit"}
  <2>1. CASE slot[h].op = "store"
    BY <1>4, <2>1
  <2>2. CASE slot[h].op = "payout_failed"
    BY <1>2, <1>5, <2>2 DEF MoneyInv, SentOnce
  <2>3. CASE slot[h].op = "debit_failed"
    <3>1. ASSUME NEW g \in Handlers, slot[g].op \in {"store", "debit"}, slot[g].request = i
          PROVE  FALSE
      BY <1>1, <1>2, <2>3, <3>1 DEF HasRow, MoneyInv, PayoutInv, RequestsApart
    <3> QED
      BY <1>5, <3>1 DEF MoneyInv, SentOnce
  <2> QED
    BY <1>1, <2>1, <2>2, <2>3
<1>8. SentOnce'
  BY <1>1, <1>2, <1>4, <1>5, <1>6, <1>7, RequestMoves
<1>9. Books'
  BY <1>5, <1>6, BooksRows DEF MoneyInv
<1>10. PayoutInv'
  BY StepMark, StepStore DEF MoneyInv
<1> QED
  BY <1>8, <1>9, <1>10 DEF MoneyInv

LEMMA DebitMoney == ASSUME MoneyInv, NEW h \in Handlers, DebitWallet(h) PROVE MoneyInv'
<1>1. HasRow(h) /\ slot[h].op = "debit"
  BY DEF HasRow, DebitWallet
<1>2. PICK i \in Requests : i = slot[h].request
  BY <1>1, SlotFacts DEF MoneyInv, PayoutInv
<1>3. PICK u \in Users : u = row[i].user
  BY <1>1, <1>2 DEF MoneyInv, PayoutInv, RequestsApart
<1>4. PICK a \in Nat : a = row[i].amount
  BY DEF MoneyInv, PayoutInv, WithdrawalsTypeOK, RowType
<1>5. wallet \in [Users -> WalletRow] /\ wallet[u] \in WalletRow
  BY DEF MoneyInv, PayoutInv, WithdrawalsTypeOK
<1>6. PICK w : w = AfterWithdraw(wallet[u], a)
  OBVIOUS
<1>7. /\ CanWithdraw(wallet[u], a) /\ wallet' = [wallet EXCEPT ![u] = w]
      /\ debited' = debited \cup {i} /\ UNCHANGED <<row, payout, refunds, spoiled, poller>>
  BY <1>2, <1>3, <1>4, <1>5, <1>6 DEF DebitWallet
<1>8. PICK s \in Slot : Goto(h, s) /\ s.op = "idle"
  BY DEF DebitWallet, Slot, Idle
<1>9. SentOnce'
  BY <1>1, <1>2, <1>7, <1>8, RequestMoves
<1>10. Books'
  <2>1. w.balance = wallet[u].balance - a
    BY <1>5, <1>6, <1>7, WithdrawFacts
  <2>2. i \notin debited
    BY <1>1, <1>2 DEF MoneyInv, SentOnce
  <2>3. Taken(u, row, debited', refunds')[i] = Taken(u, row, debited, refunds)[i] + a
    <3>1. Taken(u, row, debited, refunds)[i] = 0 - (IF refunds[i] = 1 THEN a ELSE 0)
      BY <1>3, <1>4, <2>2 DEF Taken
    <3>2. Taken(u, row, debited', refunds')[i] = a - (IF refunds[i] = 1 THEN a ELSE 0)
      BY <1>3, <1>4, <1>7 DEF Taken
    <3> QED
      BY <3>1, <3>2
  <2>4. \A j \in Requests : j # i =>
            (j \in debited' <=> j \in debited) /\ refunds'[j] = refunds[j]
    BY <1>7
  <2>5. UNCHANGED row /\ a \in Int
    BY <1>7
  <2>6. wallet' = [wallet EXCEPT ![u] = w]
    BY <1>7
  <2> QED
    BY <1>3, <2>1, <2>3, <2>4, <2>5, <2>6, BooksMove
<1>11. PayoutInv'
  BY StepDebit DEF MoneyInv
<1> QED
  BY <1>9, <1>10, <1>11 DEF MoneyInv

LEMMA RefusedMoney == ASSUME MoneyInv, NEW h \in Handlers, DebitRefused(h) PROVE MoneyInv'
<1>1. HasRow(h) /\ slot[h].op = "debit"
  BY DEF HasRow, DebitRefused
<1>2. PICK i \in Requests : i = slot[h].request
  BY <1>1, SlotFacts DEF MoneyInv, PayoutInv
<1>3. PICK s \in Slot : Goto(h, s) /\ s.op = "debit_failed" /\ s.request = i
  BY <1>1, <1>2, SlotFacts DEF MoneyInv, PayoutInv, DebitRefused
<1>4. /\ spoiled' = spoiled \cup {i}
      /\ UNCHANGED <<wallet, row, payout, debited, refunds, poller>>
  BY <1>2 DEF DebitRefused, Spoil
<1>5. SentOnce'
  BY <1>1, <1>2, <1>3, <1>4, RequestMoves
<1>6. Books'
  BY <1>4, BooksRows DEF MoneyInv
<1>7. PayoutInv'
  BY StepDebit DEF MoneyInv
<1> QED
  BY <1>5, <1>6, <1>7 DEF MoneyInv

LEMMA AbandonMoney == ASSUME MoneyInv, NEW h \in Handlers, Abandon(h) PROVE MoneyInv'
<1>1. PICK s \in Slot : Goto(h, s) /\ s.op = "idle"
  BY DEF Abandon, Slot, Idle
<1>2. /\ spoiled' = spoiled \cup RowsOf(slot[h])
      /\ UNCHANGED <<wallet, row, payout, debited, refunds, poller>>
  BY DEF Abandon, Spoil
<1>3. SentOnce'
  <2>1. CASE HasRow(h)
    <3>1. PICK i \in Requests : i = slot[h].request
      BY <2>1, SlotFacts DEF MoneyInv, PayoutInv
    <3>2. i \in spoiled'
      BY <1>2, <2>1, <3>1 DEF RowsOf, HasRow
    <3> QED
      BY <1>1, <1>2, <2>1, <3>1, <3>2, RequestMoves
  <2>2. CASE ~HasRow(h)
    BY <1>1, <1>2, <2>2, RowlessMoves
  <2> QED
    BY <2>1, <2>2
<1>4. Books'
  BY <1>2, BooksRows DEF MoneyInv
<1>5. PayoutInv'
  BY StepAbandon DEF MoneyInv
<1> QED
  BY <1>3, <1>4, <1>5 DEF MoneyInv

LEMMA RestartMoney == ASSUME MoneyInv, Restart PROVE MoneyInv'
<1>1. /\ spoiled \subseteq spoiled'
      /\ \A h \in Handlers : RowsOf(slot[h]) \subseteq spoiled'
  <2>1. PICK halted : halted = IF poller.op = "refund" THEN {poller.request} ELSE {}
    OBVIOUS
  <2>2. spoiled' = spoiled \cup ((UNION {RowsOf(slot[h]) : h \in Handlers}) \cup halted)
    BY <2>1 DEF Restart, Spoil
  <2> QED
    BY <2>2
<1>2. /\ UNCHANGED <<wallet, row, payout, debited, refunds>> /\ poller'.op = "idle"
      /\ \A h \in Handlers : slot'[h].op = "idle"
  BY DEF Restart, Idle
<1>3. SentOnce'
  <2>1. \A i \in Requests : payout[i] # "none" => i \in spoiled' \cup debited'
    BY <1>1, <1>2 DEF MoneyInv, SentOnce, RowsOf
  <2> QED
    BY <1>2, <2>1 DEF MoneyInv, SentOnce, HasRow
<1>4. Books'
  BY <1>2, BooksRows DEF MoneyInv
<1>5. PayoutInv'
  BY StepRestart DEF MoneyInv
<1> QED
  BY <1>3, <1>4, <1>5 DEF MoneyInv

LEMMA SettleMoney == ASSUME MoneyInv, NEW i \in Requests, SettlePayout(i) PROVE MoneyInv'
<1>1. /\ payout[i] = "processing" /\ payout'[i] # "none"
      /\ \A j \in Requests : j # i => payout'[j] = payout[j]
      /\ UNCHANGED <<wallet, row, debited, refunds, spoiled, slot, poller>>
  BY DEF SettlePayout, MoneyInv, PayoutInv, WithdrawalsTypeOK
<1>2. row[i].status # "none"
  BY <1>1 DEF MoneyInv, SentOnce
<1>3. SentOnce'
  <2>1. \A h \in Handlers : slot[h].op = "payout" => slot[h].request # i
                                                     /\ slot[h].request \in Requests
    BY <1>1, SlotFacts DEF MoneyInv, SentOnce, PayoutInv, HasRow
  <2>2. \A h \in Handlers : slot[h].op = "payout_failed" => slot[h].request \in Requests
    BY SlotFacts DEF MoneyInv, PayoutInv, HasRow
  <2>3. poller.op \in {"save", "refund"} => poller.request \in Requests
    BY PollerFacts DEF MoneyInv, PayoutInv
  <2>4. /\ \A j \in Requests : row'[j].status = "none" => payout'[j] = "none" /\ j \notin debited'
        /\ \A h \in Handlers : HasRow(h)' => slot'[h].request \notin debited'
    BY <1>1, <1>2 DEF MoneyInv, SentOnce, HasRow
  <2>5. /\ \A h \in Handlers : slot'[h].op = "payout" => payout'[slot'[h].request] = "none"
        /\ \A h \in Handlers : slot'[h].op = "payout_failed" =>
              slot'[h].request \in spoiled' \/ payout'[slot'[h].request] = "none"
    BY <1>1, <2>1, <2>2 DEF MoneyInv, SentOnce
  <2>6. \A j \in Requests : payout'[j] # "none" =>
            \/ j \in spoiled' \cup debited'
            \/ \E h \in Handlers : slot'[h].op \in {"store", "debit"} /\ slot'[h].request = j
    BY <1>1 DEF MoneyInv, SentOnce
  <2>7. /\ poller'.op = "save" /\ poller'.status = "failed" => payout'[poller'.request] = "failed"
        /\ poller'.op = "refund" => payout'[poller'.request] = "failed"
        /\ \A j \in Requests : refunds'[j] = 1 => payout'[j] = "failed"
    BY <1>1, <2>3 DEF MoneyInv, SentOnce
  <2> QED
    BY <2>4, <2>5, <2>6, <2>7 DEF SentOnce
<1>4. Books'
  BY <1>1, BooksRows DEF MoneyInv
<1>5. PayoutInv'
  BY StepSettle DEF MoneyInv
<1> QED
  BY <1>3, <1>4, <1>5 DEF MoneyInv

(* The poller moves on, with what PayOS said of the payout it looked at.   *)
LEMMA PollerSent ==
    ASSUME MoneyInv, UNCHANGED <<payout, debited, refunds, slot, spoiled>>,
           \A j \in Requests : row'[j].status = "none" => row[j].status = "none",
           poller'.op = "save" /\ poller'.status = "failed" => payout[poller'.request] = "failed",
           poller'.op = "refund" => payout[poller'.request] = "failed"
    PROVE  SentOnce'
  BY DEF MoneyInv, SentOnce, HasRow

LEMMA PollMoney ==
    ASSUME MoneyInv, NEW i \in Requests,
           PollPendingPayouts \/ CheckPayout(i) \/ SkipPayout(i) \/ PollDone \/ SavePayoutFails
    PROVE  MoneyInv'
<1>1. UNCHANGED <<wallet, row, payout, debited, refunds, spoiled, slot>>
  BY DEF PollPendingPayouts, CheckPayout, SkipPayout, PollDone, SavePayoutFails
<1>2. poller'.op = "save" /\ poller'.status = "failed" => payout[poller'.request] = "failed"
  <2>1. CASE CheckPayout(i)
    BY <2>1 DEF CheckPayout, IsFinal
  <2>2. CASE ~CheckPayout(i)
    BY <2>2 DEF PollPendingPayouts, SkipPayout, PollDone, SavePayoutFails, Idle
  <2> QED
    BY <2>1, <2>2
<1>3. poller'.op # "refund"
  BY DEF PollPendingPayouts, CheckPayout, SkipPayout, PollDone, SavePayoutFails, Idle
<1>4. SentOnce'
  BY <1>1, <1>2, <1>3, PollerSent
<1>5. Books'
  BY <1>1, BooksRows DEF MoneyInv
<1>6. PayoutInv'
  BY StepPoll, StepCheck, StepPollDone DEF MoneyInv
<1> QED
  BY <1>4, <1>5, <1>6 DEF MoneyInv

LEMMA SaveStatusMoney == ASSUME MoneyInv, SavePayoutStatus PROVE MoneyInv'
<1>1. poller.op = "save" /\ UNCHANGED <<wallet, payout, debited, refunds, spoiled, slot>>
  BY DEF SavePayoutStatus
<1>2. PICK i \in Requests : i = poller.request
  BY <1>1, PollerFacts DEF MoneyInv, PayoutInv
<1>3. PICK status \in {"success", "failed"} : status = poller.status
  BY <1>1, PollerFacts DEF MoneyInv, PayoutInv
<1>4. PICK old \in RowType : old = row[i]
  BY DEF MoneyInv, PayoutInv, WithdrawalsTypeOK
<1>5. PICK r : r = [old EXCEPT !.status = status, !.payoutId = TRUE]
  OBVIOUS
<1>6. row' = [row EXCEPT ![i] = r]
  BY <1>2, <1>3, <1>4, <1>5 DEF SavePayoutStatus
<1>7. r.user = old.user /\ r.amount = old.amount /\ r.status # "none"
  BY <1>3, <1>5 DEF RowType
<1>8. \A j \in Requests : /\ row'[j].user = row[j].user /\ row'[j].amount = row[j].amount
                          /\ row'[j].status = "none" => row[j].status = "none"
  BY <1>4, <1>6, <1>7 DEF MoneyInv, PayoutInv, WithdrawalsTypeOK
<1>9. /\ poller'.op # "save"
      /\ poller'.op = "refund" => payout[poller'.request] = "failed"
  <2>1. status = "failed" => payout[i] = "failed"
    BY <1>1, <1>2, <1>3 DEF MoneyInv, SentOnce
  <2> QED
    BY <1>2, <1>3, <2>1 DEF SavePayoutStatus
<1>10. SentOnce'
  BY <1>1, <1>8, <1>9, PollerSent
<1>11. Books'
  BY <1>1, <1>8, BooksRows DEF MoneyInv
<1>12. PayoutInv'
  BY StepSave DEF MoneyInv
<1> QED
  BY <1>10, <1>11, <1>12 DEF MoneyInv

LEMMA RefundMoney == ASSUME MoneyInv, RefundWallet PROVE MoneyInv'
<1>1. /\ poller.op = "refund" /\ poller'.op = "check"
      /\ UNCHANGED <<row, payout, debited, slot>>
  BY DEF RefundWallet
<1>2. PICK i \in Requests : i = poller.request
  BY <1>1, PollerFacts DEF MoneyInv, PayoutInv
<1>3. row[i].status = "failed" /\ refunds[i] = 0 /\ payout[i] = "failed"
  BY <1>1, <1>2 DEF MoneyInv, PayoutInv, PolledOnce, Polled, SentOnce
<1>4. PICK u \in Users : u = row[i].user
  BY <1>3 DEF MoneyInv, PayoutInv, RequestsApart
<1>5. PICK a \in Nat : a = row[i].amount
  BY DEF MoneyInv, PayoutInv, WithdrawalsTypeOK, RowType
<1>6. wallet \in [Users -> WalletRow] /\ wallet[u] \in WalletRow /\ refunds \in [Requests -> Nat]
  BY DEF MoneyInv, PayoutInv, WithdrawalsTypeOK
<1>7. PICK w : w = AfterDeposit(wallet[u], a)
  OBVIOUS
<1>8. \/ /\ CanDeposit(wallet[u], a) /\ wallet' = [wallet EXCEPT ![u] = w]
         /\ refunds' = [refunds EXCEPT ![i] = 1] /\ UNCHANGED spoiled
      \/ spoiled' = spoiled \cup {i} /\ UNCHANGED <<wallet, refunds>>
  BY <1>2, <1>3, <1>4, <1>5, <1>6, <1>7 DEF RefundWallet, Spoil
<1>9. PayoutInv'
  BY StepRefund DEF MoneyInv
<1>10. SentOnce'
  <2>1. spoiled \subseteq spoiled' /\ \A j \in Requests : refunds'[j] = 1 => payout[j] = "failed"
    BY <1>3, <1>6, <1>8 DEF MoneyInv, SentOnce
  <2>2. \A j \in Requests : payout'[j] # "none" =>
            \/ j \in spoiled' \cup debited'
            \/ \E h \in Handlers : slot'[h].op \in {"store", "debit"} /\ slot'[h].request = j
    BY <1>1, <2>1 DEF MoneyInv, SentOnce
  <2>3. \A h \in Handlers : HasRow(h)' <=> HasRow(h)
    BY <1>1 DEF HasRow
  <2> QED
    BY <1>1, <2>1, <2>2, <2>3 DEF MoneyInv, SentOnce
<1>11. Books'
  <2>1. CASE UNCHANGED <<wallet, refunds>>
    BY <1>1, <2>1, BooksRows DEF MoneyInv
  <2>2. CASE /\ CanDeposit(wallet[u], a) /\ wallet' = [wallet EXCEPT ![u] = w]
             /\ refunds' = [refunds EXCEPT ![i] = 1]
    <3>1. w.balance = wallet[u].balance + a
      BY <1>6, <1>7, <2>2, DepositFacts
    <3>2. PICK b \in Int : b = wallet[u].balance
      BY <1>6, RowIsNumbers
    <3>3. PICK d \in Int : d = 0 - a
      OBVIOUS
    <3>4. w.balance = wallet[u].balance - d
      BY <3>1, <3>2, <3>3
    <3>5. Taken(u, row, debited', refunds')[i] = Taken(u, row, debited, refunds)[i] + d
      <4>1. Taken(u, row, debited, refunds)[i] = (IF i \in debited THEN a ELSE 0) - 0
        BY <1>3, <1>4, <1>5 DEF Taken
      <4>2. Taken(u, row, debited', refunds')[i] = (IF i \in debited THEN a ELSE 0) - a
        BY <1>1, <1>4, <1>5, <1>6, <2>2 DEF Taken
      <4> QED
        BY <3>3, <4>1, <4>2
    <3>6. \A j \in Requests : j # i =>
              (j \in debited' <=> j \in debited) /\ refunds'[j] = refunds[j]
      BY <1>1, <1>6, <2>2
    <3> QED
      BY <1>1, <1>4, <2>2, <3>4, <3>5, <3>6, BooksMove
  <2> QED
    BY <1>8, <2>1, <2>2
<1> QED
  BY <1>9, <1>10, <1>11 DEF MoneyInv

-----------------------------------------------------------------------------
LEMMA InitMoney == Init => MoneyInv
<1> SUFFICES ASSUME Init PROVE MoneyInv
  OBVIOUS
<1>1. SentOnce
  BY DEF Init, SentOnce, HasRow, Idle
<1>2. ASSUME NEW u \in Users
      PROVE  wallet[u].balance + Total(Taken(u, row, debited, refunds), Requests) = Opening
  <2>1. PICK f : f = Taken(u, row, debited, refunds)
    OBVIOUS
  <2>2. PICK P : P = {}
    OBVIOUS
  <2>3. \A i \in Requests : f[i] = 0
    BY <2>1 DEF Taken, Init
  <2>4. /\ P \in SUBSET Requests
        /\ \A i \in Requests : f[i] \in Int
        /\ \A i \in Requests \ P : f[i] = 0
    BY <2>2, <2>3
  <2>5. Total(f, Requests) = Total(f, P)
    BY <2>4, RequestsAreFinite, TotalSelect
  <2>6. Total(f, Requests) = 0
    BY <2>2, <2>5, TotalOfNone
  <2>7. wallet[u].balance = Opening
    <3>1. PICK e \in WalletRow : e = EmptyWallet
      BY EmptyWalletFacts
    <3>2. wallet[u] = [e EXCEPT !.balance = e.balance + Opening,
                               !.deposited = e.deposited + Opening]
      BY <3>1 DEF Init, AfterDeposit
    <3>3. wallet[u].balance = e.balance + Opening
      BY <3>2 DEF WalletRow
    <3>4. e.balance = 0
      BY <3>1 DEF EmptyWallet
    <3> QED
      BY <3>3, <3>4, WithdrawalBoundAssumption
  <2>8. wallet[u].balance + Total(f, Requests) = Opening
    BY <2>6, <2>7, WithdrawalBoundAssumption
  <2> QED
    BY <2>1, <2>8
<1> QED
  BY <1>1, <1>2, InitPayoutInv DEF MoneyInv, Books

LEMMA StepMoney == MoneyInv /\ [Next]_vars => MoneyInv'
<1> SUFFICES ASSUME MoneyInv, [Next]_vars PROVE MoneyInv'
  OBVIOUS
<1>1. ASSUME NEW h \in Handlers, NEW u \in Users, NEW amount \in Amounts,
             RequestWithdrawal(h, u, amount)
      PROVE  MoneyInv'
  BY <1>1, RequestMoney
<1>2. ASSUME NEW h \in Handlers, RequestStep(h) PROVE MoneyInv'
  BY <1>2, InsertMoney, PayoutMoney, SaveMoney, DebitMoney, RefusedMoney DEF RequestStep
<1>3. ASSUME NEW h \in Handlers, Abandon(h) PROVE MoneyInv'
  BY <1>3, AbandonMoney
<1>4. ASSUME NEW i \in Requests, SettlePayout(i) PROVE MoneyInv'
  BY <1>4, SettleMoney
<1>5. CASE PollerStep
  <2>1. ASSUME NEW i \in Requests, CheckPayout(i) \/ SkipPayout(i) PROVE MoneyInv'
    BY <2>1, PollMoney
  <2>2. CASE PollPendingPayouts \/ PollDone \/ SavePayoutFails
    <3>1. CASE Requests = {}
      <4>1. PollDone \/ SavePayoutFails
        BY <2>2, <3>1 DEF PollPendingPayouts, PendingPayouts
      <4>2. /\ UNCHANGED <<wallet, row, payout, debited, refunds, spoiled, slot>>
            /\ poller'.op \notin {"save", "refund"}
        BY <4>1 DEF PollDone, SavePayoutFails, Idle
      <4>3. SentOnce' /\ Books'
        BY <4>2, PollerSent, BooksRows DEF MoneyInv
      <4> QED
        BY <4>1, <4>3, StepPollDone DEF MoneyInv
    <3>2. CASE Requests # {}
      BY <2>2, <3>2, PollMoney
    <3> QED
      BY <3>1, <3>2
  <2> QED
    BY <1>5, <2>1, <2>2, SaveStatusMoney, RefundMoney DEF PollerStep
<1>6. CASE Restart
  BY <1>6, RestartMoney
<1>7. CASE UNCHANGED vars
  <2>1. UNCHANGED <<wallet, row, payout, debited, refunds, spoiled, slot, poller>>
    BY <1>7 DEF vars
  <2>2. SentOnce'
    BY <2>1, PollerSent DEF MoneyInv, SentOnce
  <2>3. Books'
    BY <2>1, BooksRows DEF MoneyInv
  <2> QED
    BY <1>7, <2>2, <2>3, StepPayoutInv DEF MoneyInv
<1> QED
  BY <1>1, <1>2, <1>3, <1>4, <1>5, <1>6, <1>7 DEF Next

(* At rest a payout that was not spoiled is debited, so what the bank got  *)
(* was taken from the wallet.                                              *)
LEMMA MoneySolvent == MoneyInv => Solvent
<1> SUFFICES ASSUME MoneyInv, AtRest, NEW u \in Users,
                    \A i \in spoiled : row[i].user # u
             PROVE  wallet[u].balance + SentToBank(u) <= Opening
  BY DEF Solvent
<1>1. PICK f : f = Taken(u, row, debited, refunds)
  OBVIOUS
<1>2. PICK sent : sent = {i \in Requests : /\ row[i].user = u
                                           /\ payout[i] \in {"processing", "succeeded"}}
  OBVIOUS
<1>3. PICK g : g = [i \in sent |-> row[i].amount]
  OBVIOUS
<1>4. PICK k : k = [i \in Requests |-> IF i \in sent THEN row[i].amount ELSE 0]
  OBVIOUS
<1>5. row \in [Requests -> RowType] /\ wallet[u] \in WalletRow
  BY DEF MoneyInv, PayoutInv, WithdrawalsTypeOK
<1>6. ASSUME NEW i \in Requests PROVE k[i] \in Int /\ f[i] \in Int /\ k[i] <= f[i]
  <2>1. PICK a \in Nat : a = row[i].amount
    BY <1>5 DEF RowType
  <2>2. k[i] = IF i \in sent THEN a ELSE 0
    BY <1>4, <2>1
  <2>3. CASE row[i].user # u
    <3>1. i \notin sent /\ f[i] = 0
      BY <1>1, <1>2, <2>3 DEF Taken
    <3> QED
      BY <2>2, <3>1
  <2>4. CASE row[i].user = u
    <3>1. f[i] = (IF i \in debited THEN a ELSE 0) - (IF refunds[i] = 1 THEN a ELSE 0)
      BY <1>1, <2>1, <2>4 DEF Taken
    <3>2. i \notin spoiled /\ \A h \in Handlers : slot[h].op \notin {"store", "debit"}
      BY <2>4 DEF AtRest, Idle
    <3>3. payout[i] # "none" => i \in debited
      BY <3>2 DEF MoneyInv, SentOnce
    <3>4. refunds[i] = 1 => payout[i] = "failed"
      BY DEF MoneyInv, SentOnce
    <3>5. CASE i \in sent
      BY <1>2, <2>2, <3>1, <3>3, <3>4, <3>5
    <3>6. CASE i \notin sent
      BY <2>2, <3>1, <3>3, <3>4, <3>6
    <3> QED
      BY <3>5, <3>6
  <2> QED
    BY <2>3, <2>4
<1>7. Total(k, Requests) <= Total(f, Requests)
  BY <1>6, RequestsAreFinite, TotalOrder
<1>8. Total(k, Requests) = Total(k, sent)
  <2>1. /\ sent \in SUBSET Requests
        /\ \A i \in Requests : k[i] \in Int
        /\ \A i \in Requests \ sent : k[i] = 0
    BY <1>2, <1>4, <1>6
  <2> QED
    BY <2>1, RequestsAreFinite, TotalSelect
<1>9. Total(k, sent) = Total(g, sent)
  <2>1. sent \subseteq Requests /\ \A i \in sent : k[i] = g[i]
    BY <1>2, <1>3, <1>4
  <2>2. IsFiniteSet(sent)
    BY <2>1, RequestsAreFinite, FS_Subset
  <2> QED
    BY <2>1, <2>2, TotalSame
<1>10. SentToBank(u) = Total(g, sent)
  BY <1>2, <1>3 DEF SentToBank
<1>11. wallet[u].balance + Total(f, Requests) = Opening
  BY <1>1 DEF MoneyInv, Books
<1>12. Total(k, Requests) \in Int /\ Total(f, Requests) \in Int
  <2>1. \A i \in Requests : k[i] \in Int
    BY <1>6
  <2>2. \A i \in Requests : f[i] \in Int
    BY <1>6
  <2> QED
    BY <2>1, <2>2, RequestsAreFinite, TotalIsInt
<1>13. PICK b \in Int : b = wallet[u].balance
  BY <1>5, RowIsNumbers
<1>14. PICK x \in Int, y \in Int : x = Total(k, Requests) /\ y = Total(f, Requests)
  BY <1>12
<1>15. x <= y /\ b + y = Opening /\ SentToBank(u) = x
  BY <1>7, <1>8, <1>9, <1>10, <1>11, <1>13, <1>14
<1> QED
  BY <1>13, <1>15

(* For any number of users, requests and amounts, in whatever order        *)
(* requests, poller and PayOS move, wallet and bank together never hold    *)
(* more than the user owned, unless a request of that user was spoiled.    *)
THEOREM SolventHolds == Spec => []Solvent
  BY InitMoney, StepMoney, MoneySolvent, PTL DEF Spec

-----------------------------------------------------------------------------
(* The refinement of WithdrawalPromise.                                    *)

Purses == [u \in Users |-> wallet[u].balance]

Claims == [i \in Requests |-> Claim(i)]

Returned == {i \in Requests : refunds[i] # 0}

PromiseVars == <<Purses, Claims, payout, debited, Returned>>

(* A request that is about to debit has sent the money.                    *)
SentBeforeDebit ==
    \A h \in Handlers : slot[h].op \in {"store", "debit"} => payout[slot[h].request] # "none"

KeptInv == MoneyInv /\ SentBeforeDebit

(* A request moves on, and no payout is undone.                            *)
LEMMA SentStays ==
    ASSUME KeptInv, NEW h \in Handlers, NEW s \in Slot, Goto(h, s),
           s.op \in {"store", "debit"} => payout'[s.request] # "none",
           \A i \in Requests : payout[i] # "none" => payout'[i] # "none"
    PROVE  SentBeforeDebit'
<1>1. slot'[h] = s /\ \A g \in Handlers : g # h => slot'[g] = slot[g]
  BY GotoFacts DEF KeptInv, MoneyInv, PayoutInv
<1>2. ASSUME NEW g \in Handlers, slot'[g].op \in {"store", "debit"}
      PROVE  payout'[slot'[g].request] # "none"
  <2>1. CASE g = h
    BY <1>1, <1>2, <2>1
  <2>2. CASE g # h
    <3>1. slot'[g] = slot[g] /\ HasRow(g)
      BY <1>1, <1>2, <2>2 DEF HasRow
    <3>2. slot[g].request \in Requests
      BY <3>1, SlotFacts DEF KeptInv, MoneyInv, PayoutInv
    <3> QED
      BY <1>2, <3>1, <3>2 DEF KeptInv, SentBeforeDebit
  <2> QED
    BY <2>1, <2>2
<1> QED
  BY <1>2 DEF SentBeforeDebit

LEMMA StepSent == KeptInv /\ [Next]_vars => SentBeforeDebit'
<1> SUFFICES ASSUME KeptInv, [Next]_vars PROVE SentBeforeDebit'
  OBVIOUS
<1>0. WithdrawalsTypeOK /\ Idle \in Slot /\ Idle.op = "idle"
  BY DEF KeptInv, MoneyInv, PayoutInv, Slot, Idle
<1>1. ASSUME NEW h \in Handlers, NEW u \in Users, NEW amount \in Amounts,
             RequestWithdrawal(h, u, amount)
      PROVE  SentBeforeDebit'
  <2>1. PICK s \in Slot : s = [op |-> "insert", user |-> u, amount |-> amount]
    BY DEF Slot
  <2> QED
    BY <1>1, <2>1, SentStays DEF RequestWithdrawal
<1>2. ASSUME NEW h \in Handlers, NEW i \in Requests, InsertRow(h, i) PROVE SentBeforeDebit'
  <2>1. PICK s \in Slot : s = [op |-> "payout", request |-> i]
    BY DEF Slot
  <2> QED
    BY <1>2, <2>1, SentStays DEF InsertRow
<1>3. ASSUME NEW h \in Handlers, CreatePayout(h) \/ CreatePayoutFails(h) PROVE SentBeforeDebit'
  <2>1. HasRow(h)
    BY <1>3 DEF HasRow, CreatePayout, CreatePayoutFails
  <2>2. PICK i \in Requests : i = slot[h].request
    BY <1>0, <2>1, SlotFacts
  <2>3. /\ [slot[h] EXCEPT !.op = "store"] \in Slot
        /\ [slot[h] EXCEPT !.op = "store"].request = i
        /\ [slot[h] EXCEPT !.op = "payout_failed"] \in Slot
        /\ [slot[h] EXCEPT !.op = "payout_failed"].op = "payout_failed"
    BY <1>0, <2>1, <2>2, SlotFacts
  <2>4. payout' = [payout EXCEPT ![i] = "processing"] \/ payout' = payout
    BY <1>3, <2>2 DEF CreatePayout, CreatePayoutFails
  <2>5. /\ \A j \in Requests : payout[j] # "none" => payout'[j] # "none"
        /\ payout' = [payout EXCEPT ![i] = "processing"] => payout'[i] # "none"
    BY <1>0, <2>4 DEF WithdrawalsTypeOK
  <2>6. CASE CreatePayout(h)
    BY <2>2, <2>3, <2>5, <2>6, SentStays DEF CreatePayout
  <2>7. CASE CreatePayoutFails(h)
    BY <2>3, <2>5, <2>7, SentStays DEF CreatePayoutFails
  <2> QED
    BY <1>3, <2>6, <2>7
<1>4. ASSUME NEW h \in Handlers, StorePayoutId(h) PROVE SentBeforeDebit'
  <2>1. HasRow(h) /\ slot[h].op = "store"
    BY <1>4 DEF HasRow, StorePayoutId
  <2>2. /\ [slot[h] EXCEPT !.op = "debit"] \in Slot
        /\ [slot[h] EXCEPT !.op = "debit"].request = slot[h].request
    BY <1>0, <2>1, SlotFacts
  <2>3. payout[slot[h].request] # "none"
    BY <2>1 DEF KeptInv, SentBeforeDebit
  <2> QED
    BY <1>4, <2>2, <2>3, SentStays DEF StorePayoutId
<1>5. ASSUME NEW h \in Handlers, DebitRefused(h) PROVE SentBeforeDebit'
  <2>1. HasRow(h)
    BY <1>5 DEF HasRow, DebitRefused
  <2>2. /\ [slot[h] EXCEPT !.op = "debit_failed"] \in Slot
        /\ [slot[h] EXCEPT !.op = "debit_failed"].op = "debit_failed"
    BY <1>0, <2>1, SlotFacts
  <2> QED
    BY <1>5, <2>2, SentStays DEF DebitRefused
<1>6. ASSUME NEW h \in Handlers,
             MarkPayoutFailed(h) \/ DebitWallet(h) \/ MarkDebitFailed(h) \/ Abandon(h)
      PROVE  SentBeforeDebit'
  BY <1>0, <1>6, SentStays DEF MarkPayoutFailed, DebitWallet, MarkDebitFailed, Abandon
<1>7. ASSUME NEW i \in Requests, SettlePayout(i) PROVE SentBeforeDebit'
  <2>1. UNCHANGED slot /\ \A j : payout[j] # "none" => payout'[j] # "none"
    BY <1>0, <1>7 DEF SettlePayout, WithdrawalsTypeOK
  <2> QED
    BY <2>1 DEF KeptInv, SentBeforeDebit
<1>8. CASE PollerStep \/ UNCHANGED vars
  <2>1. UNCHANGED <<slot, payout>>
    BY <1>8 DEF PollerStep, PollPendingPayouts, CheckPayout, SkipPayout, PollDone,
                SavePayoutStatus, SavePayoutFails, RefundWallet, vars
  <2> QED
    BY <2>1 DEF KeptInv, SentBeforeDebit
<1>9. CASE Restart
  BY <1>9 DEF Restart, SentBeforeDebit, Idle
<1> QED
  BY <1>1, <1>2, <1>3, <1>4, <1>5, <1>6, <1>7, <1>8, <1>9 DEF Next, RequestStep

LEMMA KeptInvariance == Spec => []KeptInv
<1>1. Init => KeptInv
  BY InitMoney DEF Init, KeptInv, SentBeforeDebit, Idle
<1>2. KeptInv /\ [Next]_vars => KeptInv'
  BY StepMoney, StepSent DEF KeptInv
<1> QED
  BY <1>1, <1>2, PTL DEF Spec

LEMMA InitPromise == Init => Promise!Init
<1> SUFFICES ASSUME Init PROVE Promise!Init
  OBVIOUS
<1>1. Purses = [u \in Users |-> Opening]
  <2>1. PICK e \in WalletRow : e = EmptyWallet
    BY EmptyWalletFacts
  <2>2. AfterDeposit(e, Opening).balance = e.balance + Opening
    BY DEF AfterDeposit, WalletRow
  <2>3. e.balance = 0
    BY <2>1 DEF EmptyWallet
  <2>4. AfterDeposit(e, Opening).balance = Opening
    BY <2>2, <2>3, WithdrawalBoundAssumption
  <2> QED
    BY <2>1, <2>4 DEF Init, Purses
<1>2. Claims = [i \in Requests |-> Promise!NoClaim]
  BY DEF Init, Claims, Claim, NoRow, Promise!NoClaim
<1>3. Returned = {}
  BY DEF Init, Returned
<1> QED
  BY <1>1, <1>2, <1>3 DEF Init, Promise!Init, Purses, Claims, Returned

-----------------------------------------------------------------------------
(* Saves of rows.                                                          *)

(* A row that is saved with its user and amount, in its state or closed.   *)
LEMMA SavePromise ==
    ASSUME MoneyInv, NEW i \in Requests, row[i].status # "none",
           NEW r \in RowType, row' = [row EXCEPT ![i] = r],
           r.user = row[i].user, r.amount = row[i].amount,
           r.status = row[i].status \/ r.status \in {"success", "failed"},
           UNCHANGED <<wallet, payout, debited, refunds>>
    PROVE  Promise!Close(i) \/ UNCHANGED PromiseVars
<1>1. row \in [Requests -> RowType] /\ row[i] \in RowType
  BY DEF MoneyInv, PayoutInv, WithdrawalsTypeOK
<1>2. /\ row'[i] = r /\ \A j \in Requests : j # i => row'[j] = row[j]
  BY <1>1
<1>3. Claims \in [Requests -> {Claim(j) : j \in Requests}] /\ \A j \in Requests : Claims[j] = Claim(j)
  BY DEF Claims
<1>4. CASE row[i].status = "pending" /\ r.status \in {"success", "failed"}
  <2>1. Claims[i].state = "open"
    BY <1>4 DEF Claims, Claim
  <2>2. [Claims[i] EXCEPT !.state = "closed"] =
           [state |-> "closed", user |-> r.user, amount |-> r.amount]
    BY DEF Claims, Claim
  <2>3. Claims'[i] = [Claims[i] EXCEPT !.state = "closed"]
    BY <1>2, <1>4, <2>2 DEF Claims, Claim
  <2>4. ASSUME NEW j \in Requests, j # i PROVE Claims'[j] = Claims[j]
    BY <1>2, <2>4 DEF Claims, Claim
  <2>5. Claims' = [Claims EXCEPT ![i].state = "closed"]
    BY <2>3, <2>4 DEF Claims
  <2> QED
    BY <2>1, <2>5 DEF Promise!Close, Claims, Purses, Returned
<1>5. CASE r.status = row[i].status \/ row[i].status \in {"success", "failed"}
  <2>1. ASSUME NEW j \in Requests PROVE Claim(j)' = Claim(j)
    <3>1. CASE j = i
      BY <1>2, <1>5, <3>1 DEF Claim
    <3>2. CASE j # i
      BY <1>2, <3>2 DEF Claim
    <3> QED
      BY <3>1, <3>2
  <2>2. Claims' = Claims
    BY <2>1 DEF Claims
  <2> QED
    BY <2>2 DEF PromiseVars, Purses, Returned
<1> QED
  BY <1>1, <1>4, <1>5 DEF RowType

(* Requests save their own rows, and close them or leave them open.        *)
LEMMA RequestSaves ==
    ASSUME MoneyInv, NEW h \in Handlers,
           MarkPayoutFailed(h) \/ StorePayoutId(h) \/ MarkDebitFailed(h)
    PROVE  (\E i \in Requests : Promise!Close(i)) \/ UNCHANGED PromiseVars
<1>1. HasRow(h) /\ slot[h].op \in {"payout_failed", "store", "debit_failed"}
  BY DEF HasRow, MarkPayoutFailed, StorePayoutId, MarkDebitFailed
<1>2. PICK i \in Requests : i = slot[h].request
  BY <1>1, SlotFacts DEF MoneyInv, PayoutInv
<1>3. row \in [Requests -> RowType] /\ row[i] \in RowType
  BY DEF MoneyInv, PayoutInv, WithdrawalsTypeOK
<1>4. /\ row[i].status # "none"
      /\ slot[h].op = "store" => row[i].status = "pending"
  BY <1>1, <1>2 DEF MoneyInv, PayoutInv, RequestsApart
<1>5. UNCHANGED <<wallet, payout, debited, refunds>>
  BY DEF MarkPayoutFailed, StorePayoutId, MarkDebitFailed
<1>6. CASE UNCHANGED row
  BY <1>5, <1>6 DEF PromiseVars, Purses, Claims, Claim, Returned
<1>7. ASSUME NEW r, row' = [row EXCEPT ![i] = r],
             \/ r = [row[i] EXCEPT !.status = "failed"]
             \/ r = [row[i] EXCEPT !.status = "failed", !.payoutId = TRUE]
             \/ r = [row[i] EXCEPT !.status = "pending", !.payoutId = TRUE]
                /\ row[i].status = "pending"
      PROVE  Promise!Close(i) \/ UNCHANGED PromiseVars
  <2>1. /\ r \in RowType /\ r.user = row[i].user /\ r.amount = row[i].amount
        /\ r.status = row[i].status \/ r.status \in {"success", "failed"}
    BY <1>3, <1>7 DEF RowType
  <2> QED
    BY <1>4, <1>5, <1>7, <2>1, SavePromise
<1>8. \/ UNCHANGED row
      \/ row' = [row EXCEPT ![i] = [row[i] EXCEPT !.status = "failed"]]
      \/ row' = [row EXCEPT ![i] = [row[i] EXCEPT !.status = "failed", !.payoutId = TRUE]]
      \/ /\ row' = [row EXCEPT ![i] = [row[i] EXCEPT !.status = "pending", !.payoutId = TRUE]]
         /\ row[i].status = "pending"
  BY <1>2, <1>3, <1>4 DEF MarkPayoutFailed, StorePayoutId, MarkDebitFailed
<1> QED
  BY <1>6, <1>7, <1>8

(* The poller saves what became of a payout, over whatever is there.       *)
LEMMA PollerSaves ==
    ASSUME MoneyInv, SavePayoutStatus
    PROVE  (\E i \in Requests : Promise!Close(i)) \/ UNCHANGED PromiseVars
<1>1. poller.op = "save" /\ UNCHANGED <<wallet, payout, debited, refunds>>
  BY DEF SavePayoutStatus
<1>2. PICK i \in Requests : i = poller.request
  BY <1>1, PollerFacts DEF MoneyInv, PayoutInv
<1>3. PICK status \in {"success", "failed"} : status = poller.status
  BY <1>1, PollerFacts DEF MoneyInv, PayoutInv
<1>4. PICK old \in RowType : old = row[i]
  BY DEF MoneyInv, PayoutInv, WithdrawalsTypeOK
<1>5. old.status # "none"
  BY <1>1, <1>2, <1>4 DEF MoneyInv, PayoutInv, PolledOnce, Polled, RequestsApart
<1>6. PICK r : r = [old EXCEPT !.status = status, !.payoutId = TRUE]
  OBVIOUS
<1>7. row' = [row EXCEPT ![i] = r]
  BY <1>2, <1>3, <1>4, <1>6 DEF SavePayoutStatus
<1>8. r \in RowType /\ r.user = old.user /\ r.amount = old.amount /\ r.status = status
  BY <1>3, <1>6 DEF RowType
<1> QED
  BY <1>1, <1>4, <1>5, <1>7, <1>8, SavePromise

-----------------------------------------------------------------------------
(* Steps of the promise.                                                   *)

LEMMA AskPromise ==
    ASSUME MoneyInv, NEW h \in Handlers, NEW i \in Requests, InsertRow(h, i)
    PROVE  \E u \in Users, amount \in Amounts : Promise!Ask(i, u, amount)
<1>1. slot[h].op = "insert" /\ row[i] = NoRow
      /\ UNCHANGED <<wallet, payout, debited, refunds>>
  BY DEF InsertRow
<1>2. PICK u \in Users : u = slot[h].user
  BY <1>1, SlotFacts DEF MoneyInv, PayoutInv
<1>3. PICK amount \in Amounts : amount = slot[h].amount
  BY <1>1, SlotFacts DEF MoneyInv, PayoutInv
<1>4. PICK r : r = [status |-> "pending", user |-> u, amount |-> amount, payoutId |-> FALSE]
  OBVIOUS
<1>5. row' = [row EXCEPT ![i] = r] /\ row \in [Requests -> RowType]
  BY <1>2, <1>3, <1>4 DEF InsertRow, MoneyInv, PayoutInv, WithdrawalsTypeOK
<1>6. Claims[i] = Promise!NoClaim
  BY <1>1 DEF Claims, Claim, NoRow, Promise!NoClaim
<1>7. Claims' = [Claims EXCEPT ![i] = [state |-> "open", user |-> u, amount |-> amount]]
  BY <1>4, <1>5 DEF Claims, Claim
<1>8. Promise!Ask(i, u, amount)
  BY <1>1, <1>6, <1>7 DEF Promise!Ask, Claims, Purses, Returned
<1> QED
  BY <1>8

(* The row is open, and nothing was sent for it before.                    *)
LEMMA SendPromise ==
    ASSUME MoneyInv, NEW h \in Handlers, CreatePayout(h) \/ CreatePayoutFails(h)
    PROVE  (\E i \in Requests : Promise!Send(i)) \/ UNCHANGED PromiseVars
<1>1. HasRow(h) /\ slot[h].op = "payout" /\ UNCHANGED <<wallet, row, debited, refunds>>
  BY DEF HasRow, CreatePayout, CreatePayoutFails
<1>2. PICK i \in Requests : i = slot[h].request
  BY <1>1, SlotFacts DEF MoneyInv, PayoutInv
<1>3. payout[i] = "none" /\ row[i].status = "pending"
  BY <1>1, <1>2 DEF MoneyInv, PayoutInv, RequestsApart, SentOnce
<1>4. UNCHANGED <<Purses, Claims, debited, Returned>>
  BY <1>1 DEF Purses, Claims, Claim, Returned
<1>5. CASE payout' = [payout EXCEPT ![i] = "processing"]
  <2>1. Claims[i].state = "open"
    BY <1>3 DEF Claims, Claim
  <2> QED
    BY <1>3, <1>4, <1>5, <2>1 DEF Promise!Send, Purses, Claims, Returned
<1>6. CASE UNCHANGED payout
  BY <1>4, <1>6 DEF PromiseVars
<1> QED
  BY <1>2, <1>5, <1>6 DEF CreatePayout, CreatePayoutFails

LEMMA SettlePromise ==
    ASSUME NEW i \in Requests, SettlePayout(i)
    PROVE  \E outcome \in {"succeeded", "failed"} : Promise!Settle(i, outcome)
<1>1. UNCHANGED <<Purses, Claims, debited, Returned>>
  BY DEF SettlePayout, Purses, Claims, Claim, Returned
<1> QED
  BY <1>1 DEF SettlePayout, Promise!Settle, Purses, Claims, Returned

LEMMA TakePromise ==
    ASSUME KeptInv, NEW h \in Handlers, DebitWallet(h)
    PROVE  \E i \in Requests, u \in Users : Promise!Take(i, u)
<1>1. HasRow(h) /\ slot[h].op = "debit"
  BY DEF HasRow, DebitWallet
<1>2. PICK i \in Requests : i = slot[h].request
  BY <1>1, SlotFacts DEF KeptInv, MoneyInv, PayoutInv
<1>3. row[i].status # "none" /\ i \notin debited /\ payout[i] # "none"
  BY <1>1, <1>2 DEF KeptInv, SentBeforeDebit, MoneyInv, SentOnce, PayoutInv, RequestsApart
<1>4. PICK u \in Users : u = row[i].user
  BY <1>3 DEF KeptInv, MoneyInv, PayoutInv, RequestsApart
<1>5. PICK a \in Nat : a = row[i].amount
  BY DEF KeptInv, MoneyInv, PayoutInv, WithdrawalsTypeOK, RowType
<1>6. wallet \in [Users -> WalletRow] /\ wallet[u] \in WalletRow
  BY DEF KeptInv, MoneyInv, PayoutInv, WithdrawalsTypeOK
<1>7. PICK w : w = AfterWithdraw(wallet[u], a)
  OBVIOUS
<1>8. /\ CanWithdraw(wallet[u], a) /\ wallet' = [wallet EXCEPT ![u] = w]
      /\ debited' = debited \cup {i} /\ UNCHANGED <<row, payout, refunds>>
  BY <1>2, <1>4, <1>5, <1>6, <1>7 DEF DebitWallet
<1>9. w.balance = wallet[u].balance - a
  BY <1>6, <1>7, <1>8, WithdrawFacts
<1>10. Purses' = [Purses EXCEPT ![u] = @ - a]
  BY <1>6, <1>8, <1>9 DEF Purses
<1>11. Claims[i].state # "none" /\ Claims[i].user = u /\ Claims[i].amount = a
  BY <1>3, <1>4, <1>5 DEF Claims, Claim
<1>12. Purses[u] >= a
  BY <1>8 DEF CanWithdraw, HasSufficientBalance, Purses
<1>13. UNCHANGED <<Claims, Returned>>
  BY <1>8 DEF Claims, Claim, Returned
<1>14. Promise!Take(i, u)
  BY <1>3, <1>8, <1>10, <1>11, <1>12, <1>13 DEF Promise!Take, Purses, Claims, Returned
<1> QED
  BY <1>14

(* The refund is of a closed withdrawal that the bank has returned, and is *)
(* the first one.                                                          *)
LEMMA ReturnPromise ==
    ASSUME MoneyInv, RefundWallet
    PROVE  (\E i \in Requests, u \in Users : Promise!Return(i, u)) \/ UNCHANGED PromiseVars
<1>1. poller.op = "refund" /\ UNCHANGED <<row, payout, debited>>
  BY DEF RefundWallet
<1>2. PICK i \in Requests : i = poller.request
  BY <1>1, PollerFacts DEF MoneyInv, PayoutInv
<1>3. row[i].status = "failed" /\ refunds[i] = 0 /\ payout[i] = "failed"
  BY <1>1, <1>2 DEF MoneyInv, PayoutInv, PolledOnce, Polled, SentOnce
<1>4. PICK u \in Users : u = row[i].user
  BY <1>3 DEF MoneyInv, PayoutInv, RequestsApart
<1>5. PICK a \in Nat : a = row[i].amount
  BY DEF MoneyInv, PayoutInv, WithdrawalsTypeOK, RowType
<1>6. wallet \in [Users -> WalletRow] /\ wallet[u] \in WalletRow /\ refunds \in [Requests -> Nat]
  BY DEF MoneyInv, PayoutInv, WithdrawalsTypeOK
<1>7. PICK w : w = AfterDeposit(wallet[u], a)
  OBVIOUS
<1>8. \/ /\ CanDeposit(wallet[u], a) /\ wallet' = [wallet EXCEPT ![u] = w]
         /\ refunds' = [refunds EXCEPT ![i] = 1]
      \/ UNCHANGED <<wallet, refunds>>
  BY <1>2, <1>3, <1>4, <1>5, <1>6, <1>7 DEF RefundWallet
<1>9. UNCHANGED Claims
  BY <1>1 DEF Claims, Claim
<1>10. CASE /\ CanDeposit(wallet[u], a) /\ wallet' = [wallet EXCEPT ![u] = w]
            /\ refunds' = [refunds EXCEPT ![i] = 1]
  <2>1. w.balance = wallet[u].balance + a
    BY <1>6, <1>7, <1>10, DepositFacts
  <2>2. Purses' = [Purses EXCEPT ![u] = @ + a]
    BY <1>6, <1>10, <2>1 DEF Purses
  <2>3. i \notin Returned /\ Returned' = Returned \cup {i}
    BY <1>3, <1>6, <1>10 DEF Returned
  <2>4. Claims[i].state = "closed" /\ Claims[i].user = u /\ Claims[i].amount = a
    BY <1>3, <1>4, <1>5 DEF Claims, Claim
  <2>5. MaxWalletBalance > 0 => Purses[u] + a <= MaxWalletBalance
    BY <1>10 DEF CanDeposit, Purses
  <2>6. Promise!Return(i, u)
    BY <1>1, <1>3, <1>9, <2>2, <2>3, <2>4, <2>5 DEF Promise!Return, Purses, Claims, Returned
  <2> QED
    BY <2>6
<1>11. CASE UNCHANGED <<wallet, refunds>>
  BY <1>1, <1>9, <1>11 DEF PromiseVars, Purses, Returned
<1> QED
  BY <1>8, <1>10, <1>11

(* Withdrawals implement WithdrawalPromise: whatever stops, overlaps, is   *)
(* lost or is not saved, a withdrawal is sent, debited and refunded once   *)
(* at most, with the amount and the user it was asked with, debited only   *)
(* after it was sent and refunded only when the bank returned it, and no   *)
(* stale row that is saved opens it again.  The refund need not wait for   *)
(* the debit.                                                              *)
THEOREM WithdrawalKeptHolds == Spec => WithdrawalKept
<1>1. ASSUME KeptInv, [Next]_vars PROVE [Promise!Next]_PromiseVars
  <2>0. MoneyInv
    BY <1>1 DEF KeptInv
  <2>1. ASSUME UNCHANGED <<wallet, row, payout, debited, refunds>> PROVE UNCHANGED PromiseVars
    BY <2>1 DEF PromiseVars, Purses, Claims, Claim, Returned
  <2>2. ASSUME NEW h \in Handlers, NEW i \in Requests, InsertRow(h, i) PROVE Promise!Next
    BY <2>0, <2>2, AskPromise DEF Promise!Next
  <2>3. ASSUME NEW h \in Handlers, CreatePayout(h) \/ CreatePayoutFails(h)
        PROVE  Promise!Next \/ UNCHANGED PromiseVars
    BY <2>0, <2>3, SendPromise DEF Promise!Next
  <2>4. ASSUME NEW h \in Handlers,
               MarkPayoutFailed(h) \/ StorePayoutId(h) \/ MarkDebitFailed(h)
        PROVE  Promise!Next \/ UNCHANGED PromiseVars
    BY <2>0, <2>4, RequestSaves DEF Promise!Next
  <2>5. ASSUME NEW h \in Handlers, DebitWallet(h) PROVE Promise!Next
    BY <1>1, <2>5, TakePromise DEF Promise!Next
  <2>6. ASSUME NEW i \in Requests, SettlePayout(i) PROVE Promise!Next
    BY <2>6, SettlePromise DEF Promise!Next
  <2>7. CASE SavePayoutStatus
    BY <2>0, <2>7, PollerSaves DEF Promise!Next
  <2>8. CASE RefundWallet
    BY <2>0, <2>8, ReturnPromise DEF Promise!Next
  <2>9. ASSUME NEW h \in Handlers, RequestStep(h)
        PROVE  Promise!Next \/ UNCHANGED PromiseVars
    <3>1. DebitRefused(h) => UNCHANGED <<wallet, row, payout, debited, refunds>>
      BY DEF DebitRefused
    <3> QED
      BY <2>1, <2>2, <2>3, <2>4, <2>5, <2>9, <3>1 DEF RequestStep
  <2>10. CASE PollerStep
    <3>1. \/ SavePayoutStatus \/ RefundWallet
          \/ UNCHANGED <<wallet, row, payout, debited, refunds>>
      BY <2>10 DEF PollerStep, PollPendingPayouts, CheckPayout, SkipPayout, PollDone,
                   SavePayoutFails
    <3> QED
      BY <2>1, <2>7, <2>8, <3>1
  <2>11. \/ \E h \in Handlers : RequestStep(h)
         \/ \E i \in Requests : SettlePayout(i)
         \/ PollerStep
         \/ UNCHANGED <<wallet, row, payout, debited, refunds>>
    BY <1>1 DEF Next, vars, RequestWithdrawal, Abandon, Restart
  <2> QED
    BY <2>1, <2>6, <2>9, <2>10, <2>11
<1> USE DEF PromiseVars, Purses, Claims, Returned
<1> QED
  BY <1>1, InitPromise, KeptInvariance, PTL DEF Spec, WithdrawalKept, Promise!Spec

-----------------------------------------------------------------------------
(* How withdrawals end.                                                    *)

(* A row that was not spoiled says what became of its payout, and a failed *)
(* payout was refunded unless the poller is about to.                      *)
SquareRow(i) ==
    /\ row[i].status = "success" => payout[i] = "succeeded"
    /\ row[i].status = "failed" => payout[i] \in {"none", "failed"}
    /\ row[i].status = "failed" /\ payout[i] = "failed" =>
          refunds[i] = 1 \/ (poller.op = "refund" /\ poller.request = i)

SquareInv ==
    /\ \A i \in Requests : i \in debited => payout[i] # "none"
    /\ \A h \in Handlers : slot[h].op = "debit_failed" => slot[h].request \in spoiled
    /\ poller.op = "save" /\ poller.status = "success" => payout[poller.request] = "succeeded"
    /\ \A i \in Requests \ spoiled : SquareRow(i)

EndInv == KeptInv /\ SquareInv

LEMMA InitSquare == Init => SquareInv
  BY DEF Init, SquareInv, SquareRow, NoRow, Idle

(* A request moves on: what it sends is of an open row, what it debits is  *)
(* sent, and a row that it closes is spoiled or has no payout.             *)
LEMMA RequestSquare ==
    ASSUME EndInv, NEW h \in Handlers, NEW s \in Slot, Goto(h, s),
           s.op = "debit_failed" => s.request \in spoiled',
           spoiled \subseteq spoiled', UNCHANGED <<refunds, poller>>,
           \A i \in Requests : \/ payout'[i] = payout[i]
                               \/ payout[i] = "none" /\ row'[i].status = "pending"
                                  /\ payout'[i] # "none",
           \A i \in debited' : i \in debited \/ payout'[i] # "none",
           \A i \in Requests \ spoiled' :
               \/ row'[i].status = row[i].status
               \/ row'[i].status = "pending"
               \/ row'[i].status = "failed" /\ payout'[i] = "none"
    PROVE  SquareInv'
<1>1. slot'[h] = s /\ \A g \in Handlers : g # h => slot'[g] = slot[g]
  BY GotoFacts DEF EndInv, KeptInv, MoneyInv, PayoutInv
<1>2. \A i \in Requests : i \in debited' => payout'[i] # "none"
  BY DEF EndInv, SquareInv
<1>3. \A g \in Handlers : slot'[g].op = "debit_failed" => slot'[g].request \in spoiled'
  BY <1>1 DEF EndInv, SquareInv
<1>4. poller'.op = "save" /\ poller'.status = "success" => payout'[poller'.request] = "succeeded"
  BY PollerFacts DEF EndInv, SquareInv, KeptInv, MoneyInv, PayoutInv
<1>5. ASSUME NEW i \in Requests \ spoiled' PROVE SquareRow(i)'
  <2>1. SquareRow(i)
    BY DEF EndInv, SquareInv
  <2>2. payout'[i] = payout[i] \/ row'[i].status = "pending"
    OBVIOUS
  <2>3. refunds'[i] = refunds[i]
    OBVIOUS
  <2> QED
    BY <2>1, <2>2, <2>3 DEF SquareRow
<1> QED
  BY <1>2, <1>3, <1>4, <1>5 DEF SquareInv

LEMMA StepsSquare ==
    ASSUME EndInv, NEW h \in Handlers, RequestStep(h) \/ Abandon(h)
    PROVE  SquareInv'
<1>0. WithdrawalsTypeOK /\ Idle \in Slot /\ Idle.op = "idle"
  BY DEF EndInv, KeptInv, MoneyInv, PayoutInv, Slot, Idle
<1>1. ASSUME NEW i \in Requests, InsertRow(h, i) PROVE SquareInv'
  <2>1. PICK s \in Slot : s = [op |-> "payout", request |-> i]
    BY DEF Slot
  <2>2. \A j \in Requests : row'[j] = row[j] \/ row'[j].status = "pending"
    BY <1>0, <1>1 DEF InsertRow, WithdrawalsTypeOK
  <2> QED
    BY <1>1, <2>1, <2>2, RequestSquare DEF InsertRow
<1>2. ASSUME CreatePayout(h) \/ CreatePayoutFails(h) PROVE SquareInv'
  <2>1. HasRow(h) /\ slot[h].op = "payout" /\ UNCHANGED <<row, debited, refunds, poller>>
    BY <1>2 DEF HasRow, CreatePayout, CreatePayoutFails
  <2>2. PICK i \in Requests : i = slot[h].request
    BY <1>0, <2>1, SlotFacts
  <2>3. payout[i] = "none" /\ row[i].status = "pending"
    BY <2>1, <2>2 DEF EndInv, KeptInv, MoneyInv, PayoutInv, RequestsApart, SentOnce
  <2>4. PICK s \in Slot : Goto(h, s) /\ s.op # "debit_failed"
    <3>1. /\ [slot[h] EXCEPT !.op = "store"] \in Slot
          /\ [slot[h] EXCEPT !.op = "store"].op = "store"
          /\ [slot[h] EXCEPT !.op = "payout_failed"] \in Slot
          /\ [slot[h] EXCEPT !.op = "payout_failed"].op = "payout_failed"
      BY <1>0, <2>1, SlotFacts
    <3> QED
      BY <1>2, <3>1 DEF CreatePayout, CreatePayoutFails
  <2>5. payout' = [payout EXCEPT ![i] = "processing"] \/ payout' = payout
    BY <1>2, <2>2 DEF CreatePayout, CreatePayoutFails
  <2>6. \A j \in Requests : \/ payout'[j] = payout[j]
                            \/ payout[j] = "none" /\ row'[j].status = "pending"
                               /\ payout'[j] # "none"
    BY <1>0, <2>1, <2>3, <2>5 DEF WithdrawalsTypeOK
  <2>7. spoiled \subseteq spoiled'
    BY <1>2 DEF CreatePayout, CreatePayoutFails, Spoil
  <2> QED
    BY <2>1, <2>4, <2>6, <2>7, RequestSquare
<1>3. ASSUME MarkPayoutFailed(h) \/ StorePayoutId(h) \/ MarkDebitFailed(h) PROVE SquareInv'
  <2>1. HasRow(h) /\ slot[h].op \in {"payout_failed", "store", "debit_failed"}
    BY <1>3 DEF HasRow, MarkPayoutFailed, StorePayoutId, MarkDebitFailed
  <2>2. PICK i \in Requests : i = slot[h].request
    BY <1>0, <2>1, SlotFacts
  <2>3. row \in [Requests -> RowType] /\ row[i] \in RowType
    BY <1>0 DEF WithdrawalsTypeOK
  <2>4. PICK s \in Slot : Goto(h, s) /\ s.op # "debit_failed"
    <3>1. /\ [slot[h] EXCEPT !.op = "debit"] \in Slot
          /\ [slot[h] EXCEPT !.op = "debit"].op = "debit"
      BY <1>0, <2>1, SlotFacts
    <3> QED
      BY <1>0, <1>3, <3>1 DEF MarkPayoutFailed, StorePayoutId, MarkDebitFailed
  <2>5. UNCHANGED <<payout, debited, refunds, poller>> /\ spoiled \subseteq spoiled'
    BY <1>3 DEF MarkPayoutFailed, StorePayoutId, MarkDebitFailed, Spoil
  <2>6. \A j \in Requests : j # i => row'[j] = row[j]
    BY <1>3, <2>2, <2>3 DEF MarkPayoutFailed, StorePayoutId, MarkDebitFailed
  <2>7. \/ row'[i].status = row[i].status
        \/ row'[i].status = "pending"
        \/ row'[i].status = "failed" /\ slot[h].op \in {"payout_failed", "debit_failed"}
    <3>1. [row[i] EXCEPT !.status = "pending", !.payoutId = TRUE].status = "pending"
          /\ [row[i] EXCEPT !.status = "failed", !.payoutId = TRUE].status = "failed"
          /\ [row[i] EXCEPT !.status = "failed"].status = "failed"
      BY <2>3, RowUpdate
    <3> QED
      BY <1>3, <2>2, <2>3, <3>1 DEF MarkPayoutFailed, StorePayoutId, MarkDebitFailed
  <2>8. slot[h].op \in {"payout_failed", "debit_failed"} => i \in spoiled \/ payout[i] = "none"
    BY <2>2 DEF EndInv, SquareInv, KeptInv, MoneyInv, SentOnce
  <2> QED
    BY <2>4, <2>5, <2>6, <2>7, <2>8, RequestSquare
<1>4. ASSUME DebitWallet(h) PROVE SquareInv'
  <2>1. payout[slot[h].request] # "none"
    BY <1>4 DEF DebitWallet, EndInv, KeptInv, SentBeforeDebit
  <2>2. \A i \in debited' : i \in debited \/ i = slot[h].request
    BY <1>4 DEF DebitWallet
  <2>3. Goto(h, Idle) /\ UNCHANGED <<row, payout, refunds, spoiled, poller>>
    BY <1>4 DEF DebitWallet
  <2> QED
    BY <1>0, <2>1, <2>2, <2>3, RequestSquare
<1>5. ASSUME DebitRefused(h) PROVE SquareInv'
  <2>1. HasRow(h)
    BY <1>5 DEF HasRow, DebitRefused
  <2>2. /\ [slot[h] EXCEPT !.op = "debit_failed"] \in Slot
        /\ [slot[h] EXCEPT !.op = "debit_failed"].request = slot[h].request
    BY <1>0, <2>1, SlotFacts
  <2>3. /\ slot[h].request \in spoiled' /\ spoiled \subseteq spoiled'
        /\ Goto(h, [slot[h] EXCEPT !.op = "debit_failed"])
        /\ UNCHANGED <<row, payout, debited, refunds, poller>>
    BY <1>5 DEF DebitRefused, Spoil
  <2> QED
    BY <2>2, <2>3, RequestSquare
<1>6. ASSUME Abandon(h) PROVE SquareInv'
  <2>1. /\ spoiled \subseteq spoiled' /\ Goto(h, Idle)
        /\ UNCHANGED <<row, payout, debited, refunds, poller>>
    BY <1>6 DEF Abandon, Spoil
  <2> QED
    BY <1>0, <2>1, RequestSquare
<1> QED
  BY <1>1, <1>2, <1>3, <1>4, <1>5, <1>6 DEF RequestStep

(* The poller saves what PayOS said, and a failure takes it to the refund. *)
LEMMA SaveSquare == ASSUME EndInv, SavePayoutStatus PROVE SquareInv'
<1>1. /\ poller.op = "save" /\ UNCHANGED <<payout, debited, refunds, spoiled, slot>>
      /\ poller'.op # "save"
  BY DEF SavePayoutStatus
<1>2. PICK i \in Requests : i = poller.request
  BY <1>1, PollerFacts DEF EndInv, KeptInv, MoneyInv, PayoutInv
<1>3. PICK status \in {"success", "failed"} : status = poller.status
  BY <1>1, PollerFacts DEF EndInv, KeptInv, MoneyInv, PayoutInv
<1>4. row \in [Requests -> RowType] /\ row[i] \in RowType
  BY DEF EndInv, KeptInv, MoneyInv, PayoutInv, WithdrawalsTypeOK
<1>5. row'[i].status = status /\ \A j \in Requests : j # i => row'[j] = row[j]
  <2>1. [row[i] EXCEPT !.status = status, !.payoutId = TRUE].status = status
    BY <1>4 DEF RowType
  <2> QED
    BY <1>2, <1>3, <1>4, <2>1 DEF SavePayoutStatus
<1>6. status = "success" => payout[i] = "succeeded"
  BY <1>1, <1>2, <1>3 DEF EndInv, SquareInv
<1>7. status = "failed" => payout[i] = "failed" /\ poller'.op = "refund" /\ poller'.request = i
  BY <1>1, <1>2, <1>3 DEF EndInv, KeptInv, MoneyInv, SentOnce, SavePayoutStatus
<1>8. ASSUME NEW j \in Requests \ spoiled PROVE SquareRow(j)'
  <2>1. CASE j = i
    BY <1>1, <1>5, <1>6, <1>7, <2>1 DEF SquareRow
  <2>2. CASE j # i
    <3>1. SquareRow(j) /\ row'[j] = row[j]
      BY <1>5, <2>2 DEF EndInv, SquareInv
    <3> QED
      BY <1>1, <3>1 DEF SquareRow
  <2> QED
    BY <2>1, <2>2
<1> QED
  BY <1>1, <1>8 DEF EndInv, SquareInv

LEMMA RefundSquare == ASSUME EndInv, RefundWallet PROVE SquareInv'
<1>1. poller.op = "refund" /\ poller'.op = "check" /\ UNCHANGED <<row, payout, debited, slot>>
  BY DEF RefundWallet
<1>2. PICK i \in Requests : i = poller.request
  BY <1>1, PollerFacts DEF EndInv, KeptInv, MoneyInv, PayoutInv
<1>3. refunds \in [Requests -> Nat] /\ refunds[i] = 0
  BY <1>1, <1>2 DEF EndInv, KeptInv, MoneyInv, PayoutInv, WithdrawalsTypeOK, PolledOnce, Polled
<1>4. \/ refunds' = [refunds EXCEPT ![i] = 1] /\ spoiled' = spoiled
      \/ refunds' = refunds /\ spoiled' = spoiled \cup {i}
  <2>1. \/ refunds' = [refunds EXCEPT ![i] = refunds[i] + 1] /\ spoiled' = spoiled
        \/ refunds' = refunds /\ spoiled' = spoiled \cup {i}
    BY <1>2 DEF RefundWallet, Spoil
  <2>2. refunds[i] + 1 = 1
    BY <1>3
  <2> QED
    BY <2>1, <2>2
<1>5. ASSUME NEW j \in Requests \ spoiled' PROVE SquareRow(j)'
  <2>1. SquareRow(j) /\ row'[j] = row[j] /\ payout'[j] = payout[j]
    BY <1>1, <1>4 DEF EndInv, SquareInv
  <2>2. CASE j = i
    <3>1. refunds'[j] = 1
      BY <1>3, <1>4, <2>2
    <3> QED
      BY <2>1, <3>1 DEF SquareRow
  <2>3. CASE j # i
    <3>1. refunds'[j] = refunds[j]
      BY <1>3, <1>4, <2>3
    <3> QED
      BY <1>2, <2>1, <2>3, <3>1 DEF SquareRow
  <2> QED
    BY <2>2, <2>3
<1>6. \A h \in Handlers : slot'[h].op = "debit_failed" => slot'[h].request \in spoiled'
  BY <1>1, <1>4 DEF EndInv, SquareInv
<1> QED
  BY <1>1, <1>5, <1>6 DEF EndInv, SquareInv

(* The poller looks at the next payout.                                    *)
LEMMA PollSquare ==
    ASSUME EndInv,
           PollPendingPayouts \/ PollDone \/ SavePayoutFails
           \/ \E i \in Requests : CheckPayout(i) \/ SkipPayout(i)
    PROVE  SquareInv'
<1>1. UNCHANGED <<row, payout, debited, refunds, spoiled, slot>> /\ poller.op # "refund"
  BY DEF PollPendingPayouts, PollDone, SavePayoutFails, CheckPayout, SkipPayout, NextToCheck,
         Idle
<1>2. poller'.op = "save" /\ poller'.status = "success" => payout[poller'.request] = "succeeded"
  <2>1. ASSUME NEW i \in Requests, CheckPayout(i)
        PROVE  poller'.status = "success" => payout[poller'.request] = "succeeded"
    BY <2>1 DEF CheckPayout
  <2>2. ASSUME PollPendingPayouts \/ PollDone \/ SavePayoutFails
               \/ \E i \in Requests : SkipPayout(i)
        PROVE  poller'.op # "save"
    BY <2>2 DEF PollPendingPayouts, PollDone, SavePayoutFails, SkipPayout, Idle
  <2> QED
    BY <2>1, <2>2
<1>3. ASSUME NEW i \in Requests \ spoiled PROVE SquareRow(i)'
  <2>1. SquareRow(i)
    BY DEF EndInv, SquareInv
  <2> QED
    BY <1>1, <2>1 DEF SquareRow
<1> QED
  BY <1>1, <1>2, <1>3 DEF EndInv, SquareInv

LEMMA SettleSquare == ASSUME EndInv, NEW i \in Requests, SettlePayout(i) PROVE SquareInv'
<1>1. /\ payout[i] = "processing" /\ payout'[i] # "none"
      /\ \A j \in Requests : j # i => payout'[j] = payout[j]
      /\ UNCHANGED <<row, debited, refunds, spoiled, slot, poller>>
  BY DEF SettlePayout, EndInv, KeptInv, MoneyInv, PayoutInv, WithdrawalsTypeOK
<1>2. ASSUME NEW j \in Requests \ spoiled PROVE SquareRow(j)'
  <2>1. SquareRow(j)
    BY DEF EndInv, SquareInv
  <2>2. CASE j = i
    BY <1>1, <2>1, <2>2 DEF SquareRow
  <2>3. CASE j # i
    BY <1>1, <2>1, <2>3 DEF SquareRow
  <2> QED
    BY <2>2, <2>3
<1>3. poller.op = "save" /\ poller.status = "success" => payout'[poller.request] = "succeeded"
  BY <1>1, PollerFacts DEF EndInv, SquareInv, KeptInv, MoneyInv, PayoutInv
<1> QED
  BY <1>1, <1>2, <1>3 DEF EndInv, SquareInv

(* A restart spoils what handlers and poller had in hand.                  *)
LEMMA RestartSquare == ASSUME EndInv, Restart PROVE SquareInv'
<1>1. PICK halted : halted = IF poller.op = "refund" THEN {poller.request} ELSE {}
  OBVIOUS
<1>2. spoiled \cup halted \subseteq spoiled'
  BY <1>1 DEF Restart, Spoil
<1>3. /\ UNCHANGED <<row, payout, debited, refunds>> /\ poller'.op = "idle"
      /\ \A h \in Handlers : slot'[h].op = "idle"
  BY DEF Restart, Idle
<1>4. ASSUME NEW i \in Requests \ spoiled' PROVE SquareRow(i)'
  <2>1. SquareRow(i) /\ i \notin halted
    BY <1>2 DEF EndInv, SquareInv
  <2> QED
    BY <1>1, <1>3, <2>1 DEF SquareRow
<1> QED
  BY <1>3, <1>4 DEF EndInv, SquareInv

LEMMA StepSquare == EndInv /\ [Next]_vars => SquareInv'
<1> SUFFICES ASSUME EndInv, [Next]_vars PROVE SquareInv'
  OBVIOUS
<1>1. ASSUME NEW h \in Handlers, NEW u \in Users, NEW amount \in Amounts,
             RequestWithdrawal(h, u, amount)
      PROVE  SquareInv'
  <2>1. PICK s \in Slot : s = [op |-> "insert", user |-> u, amount |-> amount]
    BY DEF Slot
  <2> QED
    BY <1>1, <2>1, RequestSquare DEF RequestWithdrawal
<1>2. ASSUME PollerStep PROVE SquareInv'
  BY <1>2, SaveSquare, RefundSquare, PollSquare DEF PollerStep
<1>3. CASE UNCHANGED vars
  BY <1>3 DEF vars, EndInv, SquareInv, SquareRow
<1> QED
  BY <1>1, <1>2, <1>3, StepsSquare, SettleSquare, RestartSquare DEF Next

(* At rest the books of every row that was not spoiled are square: what    *)
(* was sent was debited, and a failed payout came back.                    *)
LEMMA RestIsSquare == EndInv => SettledAreSquare
<1> SUFFICES ASSUME EndInv, AtRest, NEW i \in Requests \ spoiled
             PROVE  /\ row[i].status = "success" => PaidOut(i)
                    /\ row[i].status = "failed" => Refused(i) \/ PaidBack(i)
  BY DEF SettledAreSquare
<1>1. poller.op # "refund" /\ \A h \in Handlers : slot[h].op \notin {"store", "debit"}
  BY DEF AtRest, Idle
<1>2. SquareRow(i)
  BY DEF EndInv, SquareInv
<1>3. payout[i] # "none" <=> i \in debited
  BY <1>1 DEF EndInv, SquareInv, KeptInv, MoneyInv, SentOnce
<1> QED
  BY <1>1, <1>2, <1>3 DEF SquareRow, PaidOut, Refused, PaidBack

(* However requests, poller and PayOS interleave, a withdrawal that is     *)
(* settled and was not itself spoiled was paid and debited, refused, or    *)
(* paid back: what is left to liveness is that it gets settled.            *)
THEOREM SettledAreSquareHolds == Spec => []SettledAreSquare
<1>1. Init => EndInv
  BY InitMoney, InitSquare DEF Init, EndInv, KeptInv, SentBeforeDebit, Idle
<1>2. EndInv /\ [Next]_vars => EndInv'
  BY StepMoney, StepSent, StepSquare DEF EndInv, KeptInv
<1> QED
  BY <1>1, <1>2, RestIsSquare, PTL DEF Spec
=============================================================================
