------------------------------- MODULE Escrow -------------------------------
(***************************************************************************)
(* The task marketplace and its escrow: TaskService                        *)
(* (server/internal/services/task.go), PaymentService (.../payment.go) and *)
(* the wallet operations they and the payment channels call                *)
(* (.../wallet.go).                                                        *)
(*                                                                         *)
(* PaymentService runs each operation in one database transaction that     *)
(* holds the row lock of the task from its first read to its commit, and   *)
(* then the row locks of the wallets: each is one action.  TaskService     *)
(* uses no transaction for creating, updating, applying and accepting: its *)
(* handlers read rows, decide, and write whole rows later.  Those are      *)
(* split into the steps between which other requests run, and what a       *)
(* handler has read is kept in slot[h], the local variables of request     *)
(* handler h.  DeleteTask alone holds the row lock of a task over several  *)
(* steps.                                                                  *)
(***************************************************************************)
EXTENDS Integers, Sequences, SequencesExt, Wallet

CONSTANTS
    Users,          \* user ids
    Tasks,          \* ids available for task rows
    MaxApps,        \* bound: application rows
    MaxRows,        \* bound: task and application rows together
    Handlers,       \* request handlers of TaskService in flight at a time
    Prices,         \* prices a client may ask for or propose
    Offers,         \* bound: what applicants do propose
    Amounts,        \* amounts deposited or withdrawn
    Depositors,     \* bound: users who deposit
    DepositCap,     \* bound: lifetime deposits of a user
    PlatformFee,    \* fee of a price: int64(float64(price) * platformFeeRate)
    DbMayFail,      \* TRUE: calls whose failure the code ignores may fail
    NoUser, NoTask  \* nil

ASSUME PriceAssumption == Prices \subseteq Nat \ {0}
ASSUME AmountAssumption == Amounts \subseteq Nat
ASSUME BoundAssumption == MaxApps \in Nat /\ MaxRows \in Nat /\ DepositCap \in Nat
ASSUME FeeAssumption ==
    PlatformFee \in [Prices -> Nat] /\ \A p \in Prices : PlatformFee[p] <= p
ASSUME NilAssumption == NoUser \notin Users /\ NoTask \notin Tasks
ASSUME FiniteAssumption == IsFiniteSet(Users) /\ IsFiniteSet(Tasks)
ASSUME SwitchAssumption == DbMayFail \in BOOLEAN

VARIABLES
    wallet,     \* wallet rows, by user
    task,       \* task rows
    app,        \* application rows, numbered in the order of creation
    txs,        \* successful transactions of a task, in creation order
    slot,       \* what each request handler holds between its steps
    stale       \* ghost: tasks over whose status another one was saved that
                \* the handler had read before

vars == <<wallet, task, app, txs, slot, stale>>

Apps == 1..MaxApps
NoPrice == 0        \* a nil ProposedPrice

ASSUME OfferAssumption == Offers \subseteq Prices \cup {NoPrice}

TaskStatus == {"none", "open", "in_progress", "completed", "cancelled"}
AppStatus == {"none", "pending", "accepted", "rejected"}
TxType == {"escrow", "release", "platform_fee", "refund"}

TaskRow == [status: TaskStatus, requester: Users \cup {NoUser},
            tasker: Users \cup {NoUser}, price: Prices \cup {NoPrice}]
AppRow == [status: AppStatus, task: Tasks \cup {NoTask},
           tasker: Users \cup {NoUser}, price: Prices \cup {NoPrice}]
TxRow == [type: TxType, amount: Nat, fee: Nat, net: Nat,
          payee: Users \cup {NoUser}]

NoTaskRow == [status |-> "none", requester |-> NoUser,
              tasker |-> NoUser, price |-> NoPrice]
NoAppRow == [status |-> "none", task |-> NoTask,
             tasker |-> NoUser, price |-> NoPrice]

-----------------------------------------------------------------------------
(* Request handlers.                                                       *)

Idle == [op |-> "idle"]

(* What a handler holds after each of its steps; "op" is also its program  *)
(* counter.                                                                *)
Slot ==
    {Idle}
    \cup [op: {"create"}, task: {NoTask}, user: Users, price: Prices]
    \cup [op: {"reprice"}, task: Tasks, row: TaskRow, price: Prices]
    \cup [op: {"update"}, task: Tasks, row: TaskRow]
    \cup [op: {"apply"}, task: Tasks, user: Users, price: Prices \cup {NoPrice}]
    \cup [op: {"accept", "assign", "list"}, task: Tasks, app: Apps]
    \cup [op: {"save"}, task: Tasks, app: Apps, row: TaskRow]
    \cup [op: {"delete"}, task: Tasks, row: TaskRow, others: SUBSET Apps]
    \cup [op: {"reject"}, task: Tasks, others: SUBSET Apps]

(* No DeleteTask holds the row lock of the task: what locks or writes the  *)
(* row, or inserts a row that refers to it, does not wait.                 *)
Free(t) == \A h \in Handlers : ~(slot[h].op = "delete" /\ slot[h].task = t)

Rows == Cardinality({t \in Tasks : task[t] # NoTaskRow})
        + Cardinality({a \in Apps : app[a] # NoAppRow})

Goto(h, s) == slot' = [slot EXCEPT ![h] = s]

-----------------------------------------------------------------------------
(* Reads.                                                                  *)

(* SumOpenTaskPricesByRequester                                            *)
OpenTotal(u) ==
    LET open == {t \in Tasks : task[t].status = "open" /\ task[t].requester = u}
    IN  Total([t \in open |-> task[t].price], open)

(* GetAvailableBalance                                                     *)
AvailableBalance(u) ==
    LET available == wallet[u].balance - wallet[u].escrow - OpenTotal(u)
    IN  IF available < 0 THEN 0 ELSE available

HasTx(t, type) == \E i \in DOMAIN txs[t] : txs[t][i].type = type

(* Mutant of HasRelease: only the latest transaction is looked at.         *)
LatestIsRelease(t) == txs[t] # <<>> /\ Last(txs[t]).type = "release"

HasRelease(t) == HasTx(t, "release")

(* The successful escrow transaction of a task.                            *)
EscrowTx(t) == txs[t][CHOOSE i \in DOMAIN txs[t] : txs[t][i].type = "escrow"]

(* The price that is escrowed: of the first accepted application, in the   *)
(* order of creation, that proposed one; else the price of the task.       *)
Proposals(t) == {a \in Apps : /\ app[a].task = t
                              /\ app[a].status = "accepted"
                              /\ app[a].price # NoPrice}

EffectivePrice(t) ==
    IF Proposals(t) = {} THEN task[t].price
    ELSE app[CHOOSE a \in Proposals(t) : \A b \in Proposals(t) : a <= b].price

(* When the applications cannot be read, the price of the task is charged. *)
ChargedPrices(t) ==
    {EffectivePrice(t)} \cup IF DbMayFail THEN {task[t].price} ELSE {}

Tx(type, amount, fee, payee) ==
    [type |-> type, amount |-> amount, fee |-> fee, net |-> amount - fee,
     payee |-> payee]

-----------------------------------------------------------------------------
(* WalletService, called by the deposit webhook, the withdrawal handler    *)
(* and the payout poller: one transaction each.                            *)

Deposit(u, amount) ==
    /\ u \in Depositors
    /\ wallet[u].deposited + amount <= DepositCap
    /\ CanDeposit(wallet[u], amount)
    /\ wallet' = [wallet EXCEPT ![u] = AfterDeposit(@, amount)]
    /\ UNCHANGED <<task, app, txs, slot, stale>>

Withdraw(u, amount) ==
    /\ CanWithdraw(wallet[u], amount)
    /\ wallet' = [wallet EXCEPT ![u] = AfterWithdraw(@, amount)]
    /\ UNCHANGED <<task, app, txs, slot, stale>>

-----------------------------------------------------------------------------
(* PaymentService.  A transaction that fails rolls everything back, the    *)
(* failed transaction row included, so only the successful paths are       *)
(* actions.  The read of the applications goes through another connection; *)
(* nothing that the transaction has read under its locks can change before *)
(* it commits, so it is ordered at that read.                              *)

(* A successful escrow is refused twice: by the check and by a partial     *)
(* unique index on the transactions table.                                 *)
CreateEscrowPayment(t, u) ==
    /\ Free(t)
    /\ task[t].status = "open"
    /\ task[t].requester = u
    /\ ~HasTx(t, "escrow")
    /\ \E price \in ChargedPrices(t) :
          /\ CanHold(wallet[u], price)
          /\ wallet' = [wallet EXCEPT ![u] = AfterHold(@, price)]
          /\ txs' = [txs EXCEPT ![t] = Append(@,
                       Tx("escrow", price, PlatformFee[price], task[t].tasker))]
    /\ task' = [task EXCEPT ![t].status = "in_progress"]
    /\ UNCHANGED <<app, slot, stale>>

(* ReleasePayment, reached from POST /payments/release and, with a check   *)
(* that it repeats, from CompleteTask.                                     *)
ReleasePayment(t, u) ==
    /\ Free(t)
    /\ task[t].status \in {"in_progress", "completed"}
    /\ task[t].requester = u
    /\ task[t].tasker # NoUser
    /\ ~HasRelease(t)
    /\ HasTx(t, "escrow")
    /\ LET held == EscrowTx(t)
           payee == task[t].tasker
           release == Tx("release", held.net, 0, payee)
           fee == Tx("platform_fee", held.fee, 0, NoUser)
           debited == [wallet EXCEPT ![u] = AfterRelease(@, held.net)]
       IN  /\ CanRelease(wallet[u], held.net)
           /\ wallet' = [debited EXCEPT ![payee] = AfterEarning(@, held.net)]
           /\ txs' = [txs EXCEPT ![t] =
                        @ \o IF held.fee > 0 THEN <<release, fee>>
                                             ELSE <<release>>]
    /\ task' = [task EXCEPT ![t].status = "completed"]
    /\ UNCHANGED <<app, slot, stale>>

(* Mutant of ReleaseAgain: completes a task that was not paid.             *)
CompleteUnpaid(t, u) ==
    /\ Free(t)
    /\ task[t].status = "in_progress"
    /\ task[t].requester = u
    /\ task[t].tasker # NoUser
    /\ task' = [task EXCEPT ![t].status = "completed"]
    /\ UNCHANGED <<wallet, app, txs, slot, stale>>

(* The idempotent branch: the payment was released before, the task is     *)
(* only marked completed.                                                  *)
ReleaseAgain(t, u) ==
    /\ Free(t)
    /\ task[t].status = "in_progress"
    /\ task[t].requester = u
    /\ task[t].tasker # NoUser
    /\ HasRelease(t)
    /\ task' = [task EXCEPT ![t].status = "completed"]
    /\ UNCHANGED <<wallet, app, txs, slot, stale>>

(* Mutant of RefundPayment: the status is not checked.                     *)
RefundAnyTask(t, u) ==
    /\ Free(t)
    /\ task[t].requester = u
    /\ HasTx(t, "escrow")
    /\ LET held == EscrowTx(t)
       IN  /\ CanRefund(wallet[u], held.amount)
           /\ wallet' = [wallet EXCEPT ![u] = AfterRefund(@, held.amount)]
           /\ txs' = [txs EXCEPT ![t] =
                        Append(@, Tx("refund", held.amount, 0, NoUser))]
    /\ task' = [task EXCEPT ![t].status = "cancelled"]
    /\ UNCHANGED <<app, slot, stale>>

RefundPayment(t, u) ==
    /\ Free(t)
    /\ task[t].status = "in_progress"
    /\ task[t].requester = u
    /\ HasTx(t, "escrow")
    /\ LET held == EscrowTx(t)
       IN  /\ CanRefund(wallet[u], held.amount)
           /\ wallet' = [wallet EXCEPT ![u] = AfterRefund(@, held.amount)]
           /\ txs' = [txs EXCEPT ![t] =
                        Append(@, Tx("refund", held.amount, 0, NoUser))]
    /\ task' = [task EXCEPT ![t].status = "cancelled"]
    /\ UNCHANGED <<app, slot, stale>>

-----------------------------------------------------------------------------
(* TaskService.CreateTask: check the available balance; insert the row.    *)

CreateTask(h, u, price) ==
    /\ slot[h] = Idle
    /\ AvailableBalance(u) >= price
    /\ Goto(h, [op |-> "create", task |-> NoTask, user |-> u, price |-> price])
    /\ UNCHANGED <<wallet, task, app, txs, stale>>

CreateTaskInsert(h, t) ==
    /\ slot[h].op = "create"
    /\ task[t] = NoTaskRow
    /\ Rows < MaxRows
    /\ task' = [task EXCEPT ![t] = [status |-> "open", requester |-> slot[h].user,
                                    tasker |-> NoUser, price |-> slot[h].price]]
    /\ Goto(h, Idle)
    /\ UNCHANGED <<wallet, app, txs, stale>>

(* TaskService.UpdateTask: read and check the row; check the available     *)
(* balance if the price rises; save all the columns of the row, status and *)
(* tasker as they were read (SaveTask).                                    *)

UpdateTask(h, u, t, price) ==
    /\ slot[h] = Idle
    /\ task[t].status = "open"
    /\ task[t].requester = u
    /\ Goto(h, [op |-> "reprice", task |-> t, row |-> task[t], price |-> price])
    /\ UNCHANGED <<wallet, task, app, txs, stale>>

UpdateTaskCheck(h) ==
    /\ slot[h].op = "reprice"
    /\ LET row == slot[h].row
           price == slot[h].price
       IN  /\ price > row.price =>
                 AvailableBalance(row.requester) >= price - row.price
           /\ Goto(h, [op |-> "update", task |-> slot[h].task,
                       row |-> [row EXCEPT !.price = price]])
    /\ UNCHANGED <<wallet, task, app, txs, stale>>

(* TaskService.ApplyForTask: check the task and that no application of the *)
(* user to it exists; insert the row.                                      *)

ApplyForTask(h, u, t, price) ==
    /\ slot[h] = Idle
    /\ task[t].status = "open"
    /\ task[t].requester # u
    /\ \A a \in Apps : ~(app[a].task = t /\ app[a].tasker = u)
    /\ Goto(h, [op |-> "apply", task |-> t, user |-> u, price |-> price])
    /\ UNCHANGED <<wallet, task, app, txs, stale>>

ApplyInsert(h, a) ==
    /\ slot[h].op = "apply"
    /\ Free(slot[h].task)
    /\ app[a] = NoAppRow
    /\ Rows < MaxRows
    /\ \A b \in Apps : b < a => app[b] # NoAppRow
    /\ app' = [app EXCEPT ![a] = [status |-> "pending", task |-> slot[h].task,
                                  tasker |-> slot[h].user, price |-> slot[h].price]]
    /\ Goto(h, Idle)
    /\ UNCHANGED <<wallet, task, txs, stale>>

(* TaskService.AcceptApplication: read and check the application and its   *)
(* task; mark the application; read the task again; save the whole row     *)
(* with the tasker (SaveTask); list the other pending applications; reject *)
(* each, in the order of the list, whether or not the update succeeds.     *)

AcceptApplication(h, u, a) ==
    LET t == app[a].task IN
    /\ slot[h] = Idle
    /\ app[a] # NoAppRow /\ t \in Tasks
    /\ app[a].status = "pending"
    /\ task[t].requester = u
    /\ task[t].status = "open"
    /\ Goto(h, [op |-> "accept", task |-> t, app |-> a])
    /\ UNCHANGED <<wallet, task, app, txs, stale>>

AcceptMark(h) ==
    /\ slot[h].op = "accept"
    /\ app' = [app EXCEPT ![slot[h].app].status = "accepted"]
    /\ Goto(h, [slot[h] EXCEPT !.op = "assign"])
    /\ UNCHANGED <<wallet, task, txs, stale>>

AssignTasker(h) ==
    /\ slot[h].op = "assign"
    /\ LET t == slot[h].task
           a == slot[h].app
       IN  Goto(h, [op |-> "save", task |-> t, app |-> a,
                    row |-> [task[t] EXCEPT !.tasker = app[a].tasker]])
    /\ UNCHANGED <<wallet, task, app, txs, stale>>

(* Mutant of ListOthers: the status of the other applications is ignored.  *)
ListEveryOther(h) ==
    /\ slot[h].op = "list"
    /\ LET t == slot[h].task
       IN  Goto(h, [op |-> "reject", task |-> t,
                    others |-> {a \in Apps \ {slot[h].app} : app[a].task = t}])
    /\ UNCHANGED <<wallet, task, app, txs, stale>>

ListOthers(h) ==
    /\ slot[h].op = "list"
    /\ LET t == slot[h].task
       IN  Goto(h, [op |-> "reject", task |-> t,
                    others |-> {a \in Apps \ {slot[h].app} :
                                  app[a].task = t /\ app[a].status = "pending"}])
    /\ UNCHANGED <<wallet, task, app, txs, stale>>

RejectOther(h, a) ==
    /\ slot[h].op = "reject"
    /\ a \in slot[h].others
    /\ \A b \in slot[h].others : a <= b
    /\ \/ app' = [app EXCEPT ![a].status = "rejected"]
       \/ DbMayFail /\ UNCHANGED app
    /\ Goto(h, [slot[h] EXCEPT !.others = @ \ {a}])
    /\ UNCHANGED <<wallet, task, txs, stale>>

AcceptDone(h) ==
    /\ slot[h].op = "reject"
    /\ slot[h].others = {}
    /\ Goto(h, Idle)
    /\ UNCHANGED <<wallet, task, app, txs, stale>>

(* TaskService.DeleteTask: in a transaction, lock and check the row; check *)
(* that no application is accepted; make the task cancelled (SaveTask);    *)
(* reject the pending applications.                                        *)
DeleteTask(h, u, t) ==
    LET of == {a \in Apps : app[a].task = t} IN
    /\ slot[h] = Idle
    /\ Free(t)
    /\ task[t].status = "open"
    /\ task[t].requester = u
    /\ \A a \in of : app[a].status # "accepted"
    /\ Goto(h, [op |-> "delete", task |-> t,
                row |-> [task[t] EXCEPT !.status = "cancelled"],
                others |-> {a \in of : app[a].status = "pending"}])
    /\ UNCHANGED <<wallet, task, app, txs, stale>>

(* What a handler goes on to after writing a task row.                     *)
AfterSave(s) ==
    CASE s.op = "update" -> Idle
      [] s.op = "save" -> [op |-> "list", task |-> s.task, app |-> s.app]
      [] s.op = "delete" -> [op |-> "reject", task |-> s.task, others |-> s.others]

(* A handler writes the row of its task.  All three writes go through the  *)
(* repository's own connection, the one of DeleteTask included: it waits   *)
(* for the lock that its transaction holds.                                *)
SaveTask(h) ==
    LET t == slot[h].task
        row == slot[h].row
    IN  /\ slot[h].op \in {"update", "save", "delete"}
        /\ Free(t)
        /\ task' = [task EXCEPT ![t] = row]
        /\ Goto(h, AfterSave(slot[h]))
        /\ stale' = IF row.status # task[t].status THEN stale \cup {t} ELSE stale
        /\ UNCHANGED <<wallet, app, txs>>

(* The client leaves or the server stops between two steps: the request's  *)
(* context is cancelled, its transaction rolled back, and the rest of the  *)
(* handler never runs.                                                     *)
Abandon(h) ==
    /\ slot[h] # Idle
    /\ Goto(h, Idle)
    /\ UNCHANGED <<wallet, task, app, txs, stale>>

-----------------------------------------------------------------------------
Init ==
    /\ wallet = [u \in Users |-> EmptyWallet]
    /\ task = [t \in Tasks |-> NoTaskRow]
    /\ app = [a \in Apps |-> NoAppRow]
    /\ txs = [t \in Tasks |-> <<>>]
    /\ slot = [h \in Handlers |-> Idle]
    /\ stale = {}

WalletStep ==
    \E u \in Users, amount \in Amounts : Deposit(u, amount) \/ Withdraw(u, amount)

PaymentStep ==
    \E t \in Tasks, u \in Users :
        \/ CreateEscrowPayment(t, u)
        \/ ReleasePayment(t, u)
        \/ ReleaseAgain(t, u)
        \/ RefundPayment(t, u)

(* A request of TaskService arrives at an idle handler.                    *)
Arrive(h) ==
    \/ \E u \in Users, price \in Prices : CreateTask(h, u, price)
    \/ \E u \in Users, t \in Tasks, price \in Prices : UpdateTask(h, u, t, price)
    \/ \E u \in Users, t \in Tasks, price \in Offers :
          ApplyForTask(h, u, t, price)
    \/ \E u \in Users, a \in Apps : AcceptApplication(h, u, a)
    \/ \E u \in Users, t \in Tasks : DeleteTask(h, u, t)

(* The handler takes its next step.                                        *)
Continue(h) ==
    \/ \E t \in Tasks : CreateTaskInsert(h, t)
    \/ UpdateTaskCheck(h)
    \/ \E a \in Apps : ApplyInsert(h, a)
    \/ AcceptMark(h)
    \/ AssignTasker(h)
    \/ SaveTask(h)
    \/ ListOthers(h)
    \/ \E a \in Apps : RejectOther(h, a)
    \/ AcceptDone(h)

TaskStep(h) == Arrive(h) \/ Continue(h) \/ Abandon(h)

Next == WalletStep \/ PaymentStep \/ \E h \in Handlers : TaskStep(h)

Spec == Init /\ [][Next]_vars

(* A handler that can go on does.  No request has to come, and no client   *)
(* has to give up.                                                         *)
FairSpec == Spec /\ \A h \in Handlers : WF_vars(Continue(h))

-----------------------------------------------------------------------------
(* Properties.                                                             *)

(* Every row, and every handler's local variables, have their types.       *)
TypeOK ==
    /\ wallet \in [Users -> WalletRow]
    /\ task \in [Tasks -> TaskRow]
    /\ app \in [Apps -> AppRow]
    /\ txs \in [Tasks -> Seq(TxRow)]
    /\ slot \in [Handlers -> Slot]
    /\ stale \subseteq Tasks

(* No step of any interleaving creates or destroys money: what the wallets *)
(* hold, in balance and in escrow, is what was deposited less what was     *)
(* withdrawn (ALGORITHM.md, "Money Conservation Invariant").               *)
Conservation ==
    Total([u \in Users |-> wallet[u].balance + wallet[u].escrow], Users)
    = Total([u \in Users |-> wallet[u].deposited - wallet[u].withdrawn], Users)

(* The lifetime totals explain the balance of every wallet: in particular  *)
(* a refund undoes exactly the spending of its hold.                       *)
LifetimeTotals ==
    \A u \in Users :
        wallet[u].balance + wallet[u].spent + wallet[u].withdrawn
        = wallet[u].deposited + wallet[u].earned

(* What a transaction adds to its requester's escrow, and what those of a  *)
(* task still keep there: the platform fee of a released task stays.       *)
Kept(x) ==
    CASE x.type = "escrow" -> x.amount
      [] x.type \in {"release", "refund"} -> -x.amount
      [] OTHER -> 0

HeldBy(s) == Total([i \in DOMAIN s |-> Kept(s[i])], DOMAIN s)

Held(t) == HeldBy(txs[t])

(* The two books agree in every interleaving: the escrow balance in a      *)
(* user's wallet is what the transactions table says is held for the       *)
(* user's tasks, although ReleasePayment and RefundPayment compute what to *)
(* move from the table and take it from the wallet.                        *)
EscrowBacked ==
    \A u \in Users :
        wallet[u].escrow =
            Total([t \in Tasks |-> Held(t)], {t \in Tasks : task[t].requester = u})

(* Earnings are exactly the releases to the user.                          *)
EarnedBy(u, s) ==
    LET releases == {i \in DOMAIN s : s[i].type = "release" /\ s[i].payee = u}
    IN  Total([i \in releases |-> s[i].amount], releases)

EarningsBacked ==
    \A u \in Users :
        wallet[u].earned = Total([t \in Tasks |-> EarnedBy(u, txs[t])], Tasks)

(* Whatever stale rows the task handlers save, a task has at most one      *)
(* escrow and at most one release, and is released only after its escrow:  *)
(* reopened tasks are not charged twice and retries do not pay twice.      *)
Once(t, type) ==
    \A i, j \in DOMAIN txs[t] :
        txs[t][i].type = type /\ txs[t][j].type = type => i = j

ChargedAndPaidOnce ==
    \A t \in Tasks :
        /\ Once(t, "escrow") /\ Once(t, "release")
        /\ \A i \in DOMAIN txs[t] : txs[t][i].type = "escrow" <=> i = 1

(* The status of a task tells what happened to its money.  Whatever rows   *)
(* the handlers save, a task in progress was charged, a completed one      *)
(* paid, and a cancelled one refunded or, as a deleted one, never charged. *)
(* Where no handler has saved a status over another than it had read, the  *)
(* converse holds too: an open task was not charged, one in progress       *)
(* neither paid nor refunded, and none is both.                            *)
Settled == {"completed", "cancelled"}

StatusMatchesMoney ==
    \A t \in Tasks :
        LET status == task[t].status IN
        /\ status = "none" => txs[t] = <<>>
        /\ status = "in_progress" => HasTx(t, "escrow")
        /\ status = "completed" => HasTx(t, "release")
        /\ status = "cancelled" => HasTx(t, "refund") \/ txs[t] = <<>>
        /\ t \notin stale =>
              /\ status = "open" => txs[t] = <<>>
              /\ HasTx(t, "release") => status = "completed"
              /\ HasTx(t, "refund") => status = "cancelled"

(* However acceptances overlap, the tasker of a task is one of its         *)
(* applicants and not its requester, with an application that is accepted  *)
(* or was until an overlapping acceptance rejected it, never one that is   *)
(* still pending; and some application of the task is accepted: the        *)
(* acceptances in flight never reject each other's until none is left.     *)
TaskerWasAccepted ==
    \A t \in Tasks : task[t].tasker # NoUser =>
        /\ task[t].tasker # task[t].requester
        /\ \E a \in Apps : /\ app[a].task = t
                           /\ app[a].tasker = task[t].tasker
                           /\ app[a].status \in {"accepted", "rejected"}
        /\ \E a \in Apps : app[a].task = t /\ app[a].status = "accepted"

(* A completed or cancelled task stays so and its money does not move, as  *)
(* long as no handler saves a status over another than it had read.        *)
SettledIsFinal ==
    [][\A t \in Tasks : task[t].status \in Settled /\ t \notin stale' =>
          task'[t].status = task[t].status /\ txs'[t] = txs[t]]_vars

(* A DeleteTask that has passed its checks makes the task cancelled (the   *)
(* comment of services/task.go:233), unless its client gives up.           *)
DeletedIsCancelled ==
    \A h \in Handlers, t \in Tasks :
        slot[h].op = "delete" /\ slot[h].task = t
        ~> task[t].status = "cancelled" \/ slot[h] = Idle

(* Money taken for a task is paid out at most once: to the tasker or back. *)
NeverPaidTwice ==
    \A t \in Tasks : Held(t) >= 0

-----------------------------------------------------------------------------
(* What the escrow promises: EscrowPromise, with the balances as purses.   *)

Deal(t) ==
    IF ~HasTx(t, "escrow")
    THEN [state |-> "none", payer |-> NoUser, amount |-> 0,
          paid |-> FALSE, returned |-> FALSE, overwritten |-> FALSE]
    ELSE [state |-> IF task[t].status \in Settled THEN "settled" ELSE "held",
          payer |-> task[t].requester, amount |-> EscrowTx(t).amount,
          paid |-> HasTx(t, "release"), returned |-> HasTx(t, "refund"),
          overwritten |-> t \in stale]

Promise == INSTANCE EscrowPromise
    WITH purse <- [u \in Users |-> wallet[u].balance],
         deal <- [t \in Tasks |-> Deal(t)]

(* Every step of every interleaving keeps the promise.                     *)
PromiseKept == Promise!Spec
=============================================================================
