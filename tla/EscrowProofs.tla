---------------------------- MODULE EscrowProofs ----------------------------
(***************************************************************************)
(* Theorems about Escrow, for any sets of users, tasks, handlers and       *)
(* prices, any fee that is at most its price, and every interleaving of    *)
(* requests.                                                               *)
(***************************************************************************)
EXTENDS Escrow, WalletProofs, SequenceTheorems, WellFoundedInduction

(* A nonempty set of natural numbers has a least element.                  *)
LEMMA LeastElement ==
    ASSUME NEW S \in SUBSET Nat, S # {}
    PROVE  \E m \in S : \A n \in S : m <= n
<1>. DEFINE less == {p \in Nat \X Nat : p[1] < p[2]}
<1>1. IsWellFoundedOn(less, Nat)
  BY NatLessThanWellFounded DEF OpToRel
<1>2. PICK m \in S : \A n \in S : <<n, m>> \notin less
  <2>. HIDE DEF less
  <2>. QED
    BY <1>1, WFMin
<1>3. ASSUME NEW n \in S PROVE m <= n
  <2>1. m \in Nat /\ n \in Nat /\ <<n, m>> \in Nat \X Nat
    OBVIOUS
  <2>2. ~(n < m)
    BY <1>2, <2>1
  <2>. QED
    BY <2>1, <2>2
<1>. QED
  BY <1>3

-----------------------------------------------------------------------------
(* Transaction histories.                                                  *)

(* A history in which the escrow, and nothing else, comes first, and there *)
(* is at most one release.                                                 *)
Lawful(s) ==
    /\ \A i \in DOMAIN s : s[i].type = "escrow" <=> i = 1
    /\ \A i, j \in DOMAIN s : s[i].type = "release" /\ s[j].type = "release" => i = j

(* ChargedAndPaidOnce says that every history is lawful.                   *)
LEMMA ChargedAndPaidOnceIsLawful ==
    ASSUME \A t \in Tasks : txs[t] \in Seq(TxRow)
    PROVE  ChargedAndPaidOnce <=> \A t \in Tasks : Lawful(txs[t])
<1>1. ASSUME NEW t \in Tasks, Lawful(txs[t])
      PROVE  Once(t, "escrow") /\ Once(t, "release")
  <2>1. \A i, j \in DOMAIN txs[t] :
            txs[t][i].type = "escrow" /\ txs[t][j].type = "escrow" => i = 1 /\ j = 1
    BY <1>1 DEF Lawful
  <2>. QED
    BY <1>1, <2>1 DEF Once, Lawful
<1>2. ASSUME NEW t \in Tasks, Once(t, "release"),
             \A i \in DOMAIN txs[t] : txs[t][i].type = "escrow" <=> i = 1
      PROVE  Lawful(txs[t])
  BY <1>2 DEF Once, Lawful
<1>3. ASSUME \A t \in Tasks : Lawful(txs[t]) PROVE ChargedAndPaidOnce
  BY <1>1, <1>3 DEF ChargedAndPaidOnce, Lawful
<1>4. ASSUME ChargedAndPaidOnce PROVE \A t \in Tasks : Lawful(txs[t])
  BY <1>2, <1>4 DEF ChargedAndPaidOnce
<1>. QED
  BY <1>3, <1>4

(* What a history is after one more transaction.                           *)
LEMMA AppendFacts ==
    ASSUME NEW s \in Seq(TxRow), NEW x \in TxRow
    PROVE  /\ Append(s, x) \in Seq(TxRow)
           /\ DOMAIN s = 1..Len(s) /\ Len(s) \in Nat
           /\ DOMAIN Append(s, x) = 1..(Len(s) + 1)
           /\ \A i \in 1..Len(s) : Append(s, x)[i] = s[i]
           /\ Append(s, x)[Len(s) + 1] = x
  BY LenProperties

(* The first escrow makes an empty history lawful: a history without an    *)
(* escrow has nothing.                                                     *)
LEMMA LawfulEscrow ==
    ASSUME NEW s \in Seq(TxRow), Lawful(s), NEW x \in TxRow,
           x.type = "escrow", \A i \in DOMAIN s : s[i].type # "escrow"
    PROVE  Lawful(Append(s, x))
<1>1. /\ DOMAIN s = 1..Len(s) /\ Len(s) \in Nat
      /\ DOMAIN Append(s, x) = 1..(Len(s) + 1)
      /\ Append(s, x)[Len(s) + 1] = x
  BY AppendFacts
<1>2. Len(s) = 0
  <2>1. 1 \notin DOMAIN s
    BY DEF Lawful
  <2>. QED
    BY <1>1, <2>1
<1>. QED
  BY <1>1, <1>2 DEF Lawful

(* Anything but an escrow, and a release only the first time, may follow.  *)
LEMMA LawfulAppend ==
    ASSUME NEW s \in Seq(TxRow), Lawful(s), NEW x \in TxRow,
           x.type # "escrow",
           \E i \in DOMAIN s : s[i].type = "escrow",
           x.type = "release" => \A i \in DOMAIN s : s[i].type # "release"
    PROVE  Lawful(Append(s, x))
<1>1. /\ DOMAIN s = 1..Len(s) /\ Len(s) \in Nat
      /\ DOMAIN Append(s, x) = 1..(Len(s) + 1)
      /\ \A i \in 1..Len(s) : Append(s, x)[i] = s[i]
      /\ Append(s, x)[Len(s) + 1] = x
  BY AppendFacts
<1>2. Len(s) >= 1
  BY <1>1
<1>3. \A i \in DOMAIN Append(s, x) : Append(s, x)[i].type = "escrow" <=> i = 1
  BY <1>1, <1>2 DEF Lawful
<1>4. ASSUME NEW i \in DOMAIN Append(s, x), NEW j \in DOMAIN Append(s, x),
             Append(s, x)[i].type = "release", Append(s, x)[j].type = "release"
      PROVE  i = j
  <2>1. CASE i \in 1..Len(s) /\ j \in 1..Len(s)
    BY <1>1, <1>4, <2>1 DEF Lawful
  <2>2. CASE i = Len(s) + 1 \/ j = Len(s) + 1
    BY <1>1, <1>4, <2>2
  <2>. QED
    BY <1>1, <2>1, <2>2
<1>. QED
  BY <1>3, <1>4 DEF Lawful

-----------------------------------------------------------------------------
(* Types of what the actions compute.                                      *)

(* What a request handler holds, by the step it is at.                     *)
LEMMA SlotFacts ==
    ASSUME NEW s \in Slot
    PROVE  /\ s.op = "create" => s.user \in Users /\ s.price \in Prices
           /\ s.op = "reprice" =>
                 s.task \in Tasks /\ s.row \in TaskRow /\ s.price \in Prices
           /\ s.op = "update" => s.task \in Tasks /\ s.row \in TaskRow
           /\ s.op = "apply" => /\ s.task \in Tasks /\ s.user \in Users
                                /\ s.price \in Prices \cup {NoPrice}
           /\ s.op \in {"accept", "assign", "list"} =>
                 s.task \in Tasks /\ s.app \in Apps
           /\ s.op = "save" =>
                 s.task \in Tasks /\ s.app \in Apps /\ s.row \in TaskRow
           /\ s.op = "delete" => s.task \in Tasks /\ s.row \in TaskRow
           /\ s.op \in {"delete", "reject"} =>
                 s.task \in Tasks /\ s.others \in SUBSET Apps
  BY DEF Slot, Idle

(* The records that the handlers go to.                                    *)
LEMMA SlotTypes ==
    /\ Idle \in Slot
    /\ \A u \in Users, p \in Prices :
          [op |-> "create", task |-> NoTask, user |-> u, price |-> p] \in Slot
    /\ \A t \in Tasks, r \in TaskRow, p \in Prices :
          [op |-> "reprice", task |-> t, row |-> r, price |-> p] \in Slot
    /\ \A t \in Tasks, r \in TaskRow :
          [op |-> "update", task |-> t, row |-> r] \in Slot
    /\ \A t \in Tasks, u \in Users, p \in Prices \cup {NoPrice} :
          [op |-> "apply", task |-> t, user |-> u, price |-> p] \in Slot
    /\ \A o \in {"accept", "assign", "list"}, t \in Tasks, a \in Apps :
          [op |-> o, task |-> t, app |-> a] \in Slot
    /\ \A t \in Tasks, a \in Apps, r \in TaskRow :
          [op |-> "save", task |-> t, app |-> a, row |-> r] \in Slot
    /\ \A t \in Tasks, o \in SUBSET Apps :
          [op |-> "reject", task |-> t, others |-> o] \in Slot
    /\ \A t \in Tasks, r \in TaskRow, o \in SUBSET Apps :
          [op |-> "delete", task |-> t, row |-> r, others |-> o] \in Slot
<1>. USE DEF Slot
<1>1. Idle \in Slot
  OBVIOUS
<1>2. \A u \in Users, p \in Prices :
        [op |-> "create", task |-> NoTask, user |-> u, price |-> p] \in Slot
  OBVIOUS
<1>3. \A t \in Tasks, r \in TaskRow, p \in Prices :
        [op |-> "reprice", task |-> t, row |-> r, price |-> p] \in Slot
  OBVIOUS
<1>4. \A t \in Tasks, r \in TaskRow :
        [op |-> "update", task |-> t, row |-> r] \in Slot
  OBVIOUS
<1>5. \A t \in Tasks, u \in Users, p \in Prices \cup {NoPrice} :
        [op |-> "apply", task |-> t, user |-> u, price |-> p] \in Slot
  OBVIOUS
<1>6. \A o \in {"accept", "assign", "list"}, t \in Tasks, a \in Apps :
        [op |-> o, task |-> t, app |-> a] \in Slot
  OBVIOUS
<1>7. \A t \in Tasks, a \in Apps, r \in TaskRow :
        [op |-> "save", task |-> t, app |-> a, row |-> r] \in Slot
  OBVIOUS
<1>8. \A t \in Tasks, o \in SUBSET Apps :
        [op |-> "reject", task |-> t, others |-> o] \in Slot
  OBVIOUS
<1>9. \A t \in Tasks, r \in TaskRow, o \in SUBSET Apps :
        [op |-> "delete", task |-> t, row |-> r, others |-> o] \in Slot
  OBVIOUS
<1>. QED
  BY <1>1, <1>2, <1>3, <1>4, <1>5, <1>6, <1>7, <1>8, <1>9

(* The price that is escrowed is a price, or nil for a row without one.    *)
LEMMA EffectivePriceType ==
    ASSUME TypeOK, NEW t \in Tasks
    PROVE  EffectivePrice(t) \in Prices \cup {NoPrice}
<1>1. task[t].price \in Prices \cup {NoPrice}
  BY DEF TypeOK, TaskRow
<1>2. CASE Proposals(t) # {}
  <2>1. Proposals(t) \in SUBSET Nat /\ Proposals(t) \subseteq Apps
    BY BoundAssumption DEF Proposals, Apps
  <2>2. PICK m \in Proposals(t) : \A n \in Proposals(t) : m <= n
    BY <1>2, <2>1, LeastElement
  <2>. DEFINE first == CHOOSE a \in Proposals(t) : \A b \in Proposals(t) : a <= b
  <2>3. first \in Proposals(t)
    BY <2>2
  <2>4. app[first].price \in Prices \cup {NoPrice}
    BY <2>1, <2>3 DEF TypeOK, AppRow
  <2>. QED
    BY <1>2, <2>4 DEF EffectivePrice
<1>. QED
  BY <1>1, <1>2 DEF EffectivePrice

(* The escrow transaction that is found is one of the history.             *)
LEMMA EscrowTxFacts ==
    ASSUME TypeOK, NEW t \in Tasks, HasTx(t, "escrow")
    PROVE  /\ EscrowTx(t) \in TxRow
           /\ EscrowTx(t).type = "escrow"
<1>. DEFINE i == CHOOSE n \in DOMAIN txs[t] : txs[t][n].type = "escrow"
<1>1. i \in DOMAIN txs[t] /\ txs[t][i].type = "escrow"
  BY DEF HasTx
<1>2. txs[t] \in Seq(TxRow)
  BY DEF TypeOK
<1>3. txs[t][i] \in TxRow
  BY <1>1, <1>2, LenProperties, ElementOfSeq
<1>. QED
  BY <1>1, <1>3 DEF EscrowTx

(* The rows that the actions append.                                       *)
LEMMA TxFacts ==
    ASSUME NEW type \in TxType, NEW amount \in Nat, NEW fee \in Nat,
           fee <= amount, NEW payee \in Users \cup {NoUser}
    PROVE  /\ Tx(type, amount, fee, payee) \in TxRow
           /\ Tx(type, amount, fee, payee).type = type
<1>1. amount - fee \in Nat
  OBVIOUS
<1>. QED
  BY <1>1 DEF Tx, TxRow

-----------------------------------------------------------------------------
(* The inductive invariant: types, balances explained by lifetime totals,  *)
(* and lawful histories.                                                   *)
IInv ==
    /\ TypeOK
    /\ \A u \in Users : Explained(wallet[u])
    /\ \A t \in Tasks : Lawful(txs[t])

LEMMA InitIInv == Init => IInv
<1>. SUFFICES ASSUME Init PROVE IInv
  OBVIOUS
<1>1. wallet \in [Users -> WalletRow] /\ \A u \in Users : Explained(wallet[u])
  BY EmptyWalletFacts DEF Init
<1>2. NoTaskRow \in TaskRow
  BY DEF NoTaskRow, TaskRow, TaskStatus
<1>3. NoAppRow \in AppRow
  BY DEF NoAppRow, AppRow, AppStatus
<1>4. txs \in [Tasks -> Seq(TxRow)] /\ \A t \in Tasks : Lawful(txs[t])
  BY DEF Init, Lawful
<1>5. slot \in [Handlers -> Slot]
  BY SlotTypes DEF Init
<1>. QED
  BY <1>1, <1>2, <1>3, <1>4, <1>5 DEF Init, IInv, TypeOK

(* One wallet row changes, to an explained one; the histories stay.        *)
LEMMA OneWalletInv ==
    ASSUME IInv, NEW u \in Users, NEW w \in WalletRow,
           Explained(wallet[u]) => Explained(w),
           wallet' = [wallet EXCEPT ![u] = w]
    PROVE  /\ wallet' \in [Users -> WalletRow]
           /\ \A v \in Users : Explained(wallet'[v])
  BY DEF IInv, TypeOK

LEMMA DepositInv ==
    ASSUME IInv, NEW u \in Users, NEW amount \in Amounts, Deposit(u, amount)
    PROVE  IInv'
<1>1. wallet[u] \in WalletRow /\ amount \in Nat
  BY AmountAssumption DEF IInv, TypeOK
<1>2. /\ wallet' \in [Users -> WalletRow]
      /\ \A v \in Users : Explained(wallet'[v])
  <2>1. /\ AfterDeposit(wallet[u], amount) \in WalletRow
        /\ Explained(wallet[u]) => Explained(AfterDeposit(wallet[u], amount))
    BY <1>1, DepositFacts DEF Deposit
  <2>. QED
    BY <2>1, OneWalletInv DEF Deposit
<1>. QED
  BY <1>2 DEF Deposit, IInv, TypeOK

LEMMA WithdrawInv ==
    ASSUME IInv, NEW u \in Users, NEW amount \in Amounts, Withdraw(u, amount)
    PROVE  IInv'
<1>1. wallet[u] \in WalletRow /\ amount \in Nat
  BY AmountAssumption DEF IInv, TypeOK
<1>2. /\ wallet' \in [Users -> WalletRow]
      /\ \A v \in Users : Explained(wallet'[v])
  <2>1. /\ AfterWithdraw(wallet[u], amount) \in WalletRow
        /\ Explained(wallet[u]) => Explained(AfterWithdraw(wallet[u], amount))
    BY <1>1, WithdrawFacts DEF Withdraw
  <2>. QED
    BY <2>1, OneWalletInv DEF Withdraw
<1>. QED
  BY <1>2 DEF Withdraw, IInv, TypeOK

(* A status is written into one task row.                                  *)
LEMMA StatusType ==
    ASSUME TypeOK, NEW t \in Tasks, NEW status \in TaskStatus,
           task' = [task EXCEPT ![t].status = status]
    PROVE  task' \in [Tasks -> TaskRow]
<1>1. [task[t] EXCEPT !.status = status] \in TaskRow
  BY DEF TypeOK, TaskRow
<1>. QED
  BY <1>1 DEF TypeOK

(* One history grows to a lawful one.                                      *)
LEMMA OneHistoryInv ==
    ASSUME IInv, NEW t \in Tasks, NEW s \in Seq(TxRow), Lawful(s),
           txs' = [txs EXCEPT ![t] = s]
    PROVE  /\ txs' \in [Tasks -> Seq(TxRow)]
           /\ \A v \in Tasks : Lawful(txs'[v])
  BY DEF IInv, TypeOK

(* What is held is a price: nothing can be held for a row without one.     *)
LEMMA ChargedPriceType ==
    ASSUME IInv, NEW t \in Tasks, NEW price \in ChargedPrices(t), price > 0
    PROVE  price \in Prices
<1>1. task[t].price \in Prices \cup {NoPrice}
  BY DEF IInv, TypeOK, TaskRow
<1>2. price \in Prices \cup {NoPrice}
  BY <1>1, EffectivePriceType DEF ChargedPrices, IInv
<1>. QED
  BY <1>2 DEF NoPrice

LEMMA CreateEscrowPaymentInv ==
    ASSUME IInv, NEW t \in Tasks, NEW u \in Users, CreateEscrowPayment(t, u)
    PROVE  IInv'
<1>0. PICK price \in ChargedPrices(t) :
        /\ CanHold(wallet[u], price)
        /\ wallet' = [wallet EXCEPT ![u] = AfterHold(@, price)]
        /\ txs' = [txs EXCEPT ![t] = Append(@,
                     Tx("escrow", price, PlatformFee[price], task[t].tasker))]
  BY DEF CreateEscrowPayment
<1>. DEFINE row == Tx("escrow", price, PlatformFee[price], task[t].tasker)
<1>1. /\ CanHold(wallet[u], price)
      /\ wallet' = [wallet EXCEPT ![u] = AfterHold(wallet[u], price)]
      /\ txs' = [txs EXCEPT ![t] = Append(txs[t], row)]
  BY <1>0 DEF IInv, TypeOK
<1>2. price \in Prices /\ price \in Nat
  BY <1>0, ChargedPriceType, PriceAssumption DEF CanHold
<1>3. wallet[u] \in WalletRow
  BY DEF IInv, TypeOK
<1>4. /\ wallet' \in [Users -> WalletRow]
      /\ \A v \in Users : Explained(wallet'[v])
  <2>1. /\ AfterHold(wallet[u], price) \in WalletRow
        /\ Explained(wallet[u]) => Explained(AfterHold(wallet[u], price))
    BY <1>1, <1>2, <1>3, HoldFacts
  <2>. QED
    BY <1>1, <2>1, OneWalletInv
<1>5. row \in TxRow /\ row.type = "escrow"
  <2>1. PlatformFee[price] \in Nat /\ PlatformFee[price] <= price
    BY <1>2, FeeAssumption
  <2>2. task[t].tasker \in Users \cup {NoUser}
    BY DEF IInv, TypeOK, TaskRow
  <2>3. "escrow" \in TxType
    BY DEF TxType
  <2>. QED
    BY <1>2, <2>1, <2>2, <2>3, TxFacts
<1>. HIDE DEF row
<1>6. /\ txs' \in [Tasks -> Seq(TxRow)]
      /\ \A v \in Tasks : Lawful(txs'[v])
  <2>1. /\ txs[t] \in Seq(TxRow) /\ Lawful(txs[t])
        /\ \A i \in DOMAIN txs[t] : txs[t][i].type # "escrow"
    BY DEF CreateEscrowPayment, HasTx, IInv, TypeOK
  <2>2. Append(txs[t], row) \in Seq(TxRow) /\ Lawful(Append(txs[t], row))
    BY <1>5, <2>1, AppendFacts, LawfulEscrow
  <2>. QED
    BY <1>1, <2>2, OneHistoryInv
<1>7. task' \in [Tasks -> TaskRow]
  BY StatusType DEF CreateEscrowPayment, IInv, TaskStatus
<1>. QED
  BY <1>4, <1>6, <1>7 DEF CreateEscrowPayment, IInv, TypeOK

LEMMA RefundPaymentInv ==
    ASSUME IInv, NEW t \in Tasks, NEW u \in Users, RefundPayment(t, u)
    PROVE  IInv'
<1>. DEFINE amount == EscrowTx(t).amount
            row == Tx("refund", amount, 0, NoUser)
<1>1. /\ CanRefund(wallet[u], amount)
      /\ wallet' = [wallet EXCEPT ![u] = AfterRefund(wallet[u], amount)]
      /\ txs' = [txs EXCEPT ![t] = Append(txs[t], row)]
      /\ HasTx(t, "escrow")
  BY DEF RefundPayment, IInv, TypeOK
<1>2. wallet[u] \in WalletRow /\ amount \in Nat
  BY <1>1, EscrowTxFacts DEF IInv, TypeOK, TxRow
<1>. HIDE DEF amount
<1>3. /\ wallet' \in [Users -> WalletRow]
      /\ \A v \in Users : Explained(wallet'[v])
  <2>1. /\ AfterRefund(wallet[u], amount) \in WalletRow
        /\ Explained(wallet[u]) => Explained(AfterRefund(wallet[u], amount))
    BY <1>1, <1>2, RefundFacts
  <2>. QED
    BY <1>1, <2>1, OneWalletInv
<1>4. row \in TxRow /\ row.type = "refund"
  <2>1. "refund" \in TxType
    BY DEF TxType
  <2>. QED
    BY <1>2, <2>1, TxFacts
<1>. HIDE DEF row
<1>5. /\ txs' \in [Tasks -> Seq(TxRow)]
      /\ \A v \in Tasks : Lawful(txs'[v])
  <2>1. /\ txs[t] \in Seq(TxRow) /\ Lawful(txs[t])
        /\ \E i \in DOMAIN txs[t] : txs[t][i].type = "escrow"
    BY <1>1 DEF HasTx, IInv, TypeOK
  <2>2. Append(txs[t], row) \in Seq(TxRow) /\ Lawful(Append(txs[t], row))
    BY <1>4, <2>1, AppendFacts, LawfulAppend
  <2>. QED
    BY <1>1, <2>2, OneHistoryInv
<1>6. task' \in [Tasks -> TaskRow]
  BY StatusType DEF RefundPayment, IInv, TaskStatus
<1>. QED
  BY <1>3, <1>5, <1>6 DEF RefundPayment, IInv, TypeOK

(* A release touches two wallets and appends one or two transactions.      *)
LEMMA ReleasePaymentInv ==
    ASSUME IInv, NEW t \in Tasks, NEW u \in Users, ReleasePayment(t, u)
    PROVE  IInv'
<1>. DEFINE held == EscrowTx(t)
            net == held.net
            payee == task[t].tasker
            release == Tx("release", net, 0, payee)
            fee == Tx("platform_fee", held.fee, 0, NoUser)
            debited == [wallet EXCEPT ![u] = AfterRelease(wallet[u], net)]
<1>1. /\ CanRelease(wallet[u], net)
      /\ HasTx(t, "escrow") /\ ~HasTx(t, "release")
      /\ wallet' = [debited EXCEPT ![payee] = AfterEarning(debited[payee], net)]
      /\ txs' = [txs EXCEPT ![t] =
                   txs[t] \o IF held.fee > 0 THEN <<release, fee>> ELSE <<release>>]
  <2>1. wallet \in [Users -> WalletRow] /\ txs \in [Tasks -> Seq(TxRow)]
    BY DEF IInv, TypeOK
  <2>2. /\ CanRelease(wallet[u], net)
        /\ HasTx(t, "escrow") /\ ~HasTx(t, "release")
    BY DEF ReleasePayment, HasRelease
  <2>3. wallet' = [debited EXCEPT ![payee] = AfterEarning(@, net)]
    BY DEF ReleasePayment
  <2>4. txs' = [txs EXCEPT ![t] =
                  @ \o IF held.fee > 0 THEN <<release, fee>> ELSE <<release>>]
    BY DEF ReleasePayment
  <2>. HIDE DEF held, net, payee, release, fee, debited
  <2>. QED
    BY <2>1, <2>2, <2>3, <2>4
<1>2. /\ wallet[u] \in WalletRow
      /\ payee \in Users
      /\ held \in TxRow
      /\ net \in Nat
      /\ held.fee \in Nat
  <2>1. payee \in Users
    BY DEF ReleasePayment, IInv, TypeOK, TaskRow
  <2>2. held \in TxRow
    BY <1>1, EscrowTxFacts DEF IInv
  <2>. QED
    BY <2>1, <2>2 DEF IInv, TypeOK, TxRow
<1>. HIDE DEF held, net, payee
<1>3. /\ wallet' \in [Users -> WalletRow]
      /\ \A v \in Users : Explained(wallet'[v])
  <2>1. /\ AfterRelease(wallet[u], net) \in WalletRow
        /\ Explained(AfterRelease(wallet[u], net))
    BY <1>1, <1>2, ReleaseFacts DEF IInv
  <2>2. /\ debited \in [Users -> WalletRow]
        /\ \A v \in Users : Explained(debited[v])
    BY <2>1 DEF IInv, TypeOK
  <2>3. /\ AfterEarning(debited[payee], net) \in WalletRow
        /\ Explained(AfterEarning(debited[payee], net))
    <3>. HIDE DEF debited
    <3>. QED
      BY <1>2, <2>2, EarningFacts
  <2>. HIDE DEF debited
  <2>. QED
    BY <1>1, <1>2, <2>2, <2>3
<1>4. /\ release \in TxRow /\ release.type = "release"
      /\ fee \in TxRow /\ fee.type = "platform_fee"
  <2>1. "release" \in TxType /\ "platform_fee" \in TxType
    BY DEF TxType
  <2>. QED
    BY <1>2, <2>1, TxFacts
<1>. HIDE DEF release, fee
<1>5. /\ txs' \in [Tasks -> Seq(TxRow)]
      /\ \A v \in Tasks : Lawful(txs'[v])
  <2>. DEFINE paid == Append(txs[t], release)
  <2>1. /\ txs[t] \in Seq(TxRow) /\ Lawful(txs[t])
        /\ \E i \in DOMAIN txs[t] : txs[t][i].type = "escrow"
        /\ \A i \in DOMAIN txs[t] : txs[t][i].type # "release"
    BY <1>1 DEF HasTx, IInv, TypeOK
  <2>2. paid \in Seq(TxRow) /\ Lawful(paid)
    BY <1>4, <2>1, AppendFacts, LawfulAppend
  <2>3. \E i \in DOMAIN paid : paid[i].type = "escrow"
    BY <1>4, <2>1, AppendFacts
  <2>4. Append(paid, fee) \in Seq(TxRow) /\ Lawful(Append(paid, fee))
    <3>. HIDE DEF paid
    <3>. QED
      BY <1>4, <2>2, <2>3, AppendFacts, LawfulAppend
  <2>5. txs[t] \o <<release>> = paid
    BY <1>4, <2>1
  <2>6. txs[t] \o <<release, fee>> = Append(paid, fee)
    BY <1>4, <2>1
  <2>. HIDE DEF paid
  <2>. QED
    BY <1>1, <2>2, <2>4, <2>5, <2>6, OneHistoryInv
<1>6. task' \in [Tasks -> TaskRow]
  BY StatusType DEF ReleasePayment, IInv, TaskStatus
<1>. QED
  BY <1>3, <1>5, <1>6 DEF ReleasePayment, IInv, TypeOK

LEMMA ReleaseAgainInv ==
    ASSUME IInv, NEW t \in Tasks, NEW u \in Users, ReleaseAgain(t, u)
    PROVE  IInv'
<1>1. task' \in [Tasks -> TaskRow]
  BY StatusType DEF ReleaseAgain, IInv, TaskStatus
<1>. QED
  BY <1>1 DEF ReleaseAgain, IInv, TypeOK

(* The handlers of TaskService keep the types; they touch no money.        *)
LEMMA TaskStepInv ==
    ASSUME IInv, NEW h \in Handlers, TaskStep(h)
    PROVE  IInv'
<1>. SUFFICES /\ TypeOK'
              /\ UNCHANGED <<wallet, txs>>
  BY DEF IInv
<1>. USE DEF IInv, TypeOK, Goto
<1>0. slot[h] \in Slot
  OBVIOUS
<1>1. ASSUME NEW u \in Users, NEW price \in Prices, CreateTask(h, u, price)
      PROVE  TypeOK' /\ UNCHANGED <<wallet, txs>>
  BY <1>1, SlotTypes DEF CreateTask
<1>2. ASSUME NEW t \in Tasks, CreateTaskInsert(h, t)
      PROVE  TypeOK' /\ UNCHANGED <<wallet, txs>>
  <2>1. slot[h].user \in Users /\ slot[h].price \in Prices
    BY <1>0, <1>2, SlotFacts DEF CreateTaskInsert
  <2>2. [status |-> "open", requester |-> slot[h].user,
         tasker |-> NoUser, price |-> slot[h].price] \in TaskRow
    BY <2>1 DEF TaskRow, TaskStatus
  <2>. QED
    BY <1>2, <2>2, SlotTypes DEF CreateTaskInsert
<1>3. ASSUME NEW u \in Users, NEW t \in Tasks, NEW price \in Prices,
             UpdateTask(h, u, t, price)
      PROVE  TypeOK' /\ UNCHANGED <<wallet, txs>>
  BY <1>3, SlotTypes DEF UpdateTask
<1>4. ASSUME UpdateTaskCheck(h) PROVE TypeOK' /\ UNCHANGED <<wallet, txs>>
  <2>1. /\ slot[h].task \in Tasks
        /\ slot[h].row \in TaskRow /\ slot[h].price \in Prices
    BY <1>0, <1>4, SlotFacts DEF UpdateTaskCheck
  <2>2. [slot[h].row EXCEPT !.price = slot[h].price] \in TaskRow
    BY <2>1 DEF TaskRow
  <2>. QED
    BY <1>4, <2>1, <2>2, SlotTypes DEF UpdateTaskCheck
<1>5. ASSUME SaveTask(h) PROVE TypeOK' /\ UNCHANGED <<wallet, txs>>
  <2>1. slot[h].task \in Tasks /\ slot[h].row \in TaskRow
    BY <1>0, <1>5, SlotFacts DEF SaveTask
  <2>2. AfterSave(slot[h]) \in Slot
    <3>1. CASE slot[h].op = "update"
      BY <3>1, SlotTypes DEF AfterSave
    <3>2. CASE slot[h].op = "save"
      BY <1>0, <3>2, SlotFacts, SlotTypes DEF AfterSave
    <3>3. CASE slot[h].op = "delete"
      BY <1>0, <3>3, SlotFacts, SlotTypes DEF AfterSave
    <3>. QED
      BY <1>5, <3>1, <3>2, <3>3 DEF SaveTask
  <2>3. stale' \subseteq Tasks
    BY <1>5, <2>1 DEF SaveTask
  <2>. QED
    BY <1>5, <2>1, <2>2, <2>3 DEF SaveTask
<1>6. ASSUME NEW u \in Users, NEW t \in Tasks, NEW price \in Offers,
             ApplyForTask(h, u, t, price)
      PROVE  TypeOK' /\ UNCHANGED <<wallet, txs>>
  BY <1>6, SlotTypes, OfferAssumption DEF ApplyForTask
<1>7. ASSUME NEW a \in Apps, ApplyInsert(h, a)
      PROVE  TypeOK' /\ UNCHANGED <<wallet, txs>>
  <2>1. /\ slot[h].task \in Tasks /\ slot[h].user \in Users
        /\ slot[h].price \in Prices \cup {NoPrice}
    BY <1>0, <1>7, SlotFacts DEF ApplyInsert
  <2>2. [status |-> "pending", task |-> slot[h].task,
         tasker |-> slot[h].user, price |-> slot[h].price] \in AppRow
    BY <2>1 DEF AppRow, AppStatus
  <2>. QED
    BY <1>7, <2>2, SlotTypes DEF ApplyInsert
<1>8. ASSUME NEW u \in Users, NEW a \in Apps, AcceptApplication(h, u, a)
      PROVE  TypeOK' /\ UNCHANGED <<wallet, txs>>
  BY <1>8, SlotTypes DEF AcceptApplication
<1>9. ASSUME AcceptMark(h) PROVE TypeOK' /\ UNCHANGED <<wallet, txs>>
  <2>1. slot[h].task \in Tasks /\ slot[h].app \in Apps
    BY <1>0, <1>9, SlotFacts DEF AcceptMark
  <2>2. [app[slot[h].app] EXCEPT !.status = "accepted"] \in AppRow
    BY <2>1 DEF AppRow, AppStatus
  <2>3. [slot[h] EXCEPT !.op = "assign"] \in Slot
    <3>1. slot[h] \in [op: {"accept", "assign", "list"}, task: Tasks, app: Apps]
      BY <1>0, <1>9 DEF AcceptMark, Slot, Idle
    <3>. QED
      BY <3>1 DEF Slot
  <2>. QED
    BY <1>9, <2>1, <2>2, <2>3 DEF AcceptMark
<1>10. ASSUME AssignTasker(h) PROVE TypeOK' /\ UNCHANGED <<wallet, txs>>
  <2>1. slot[h].task \in Tasks /\ slot[h].app \in Apps
    BY <1>0, <1>10, SlotFacts DEF AssignTasker
  <2>2. [task[slot[h].task] EXCEPT !.tasker = app[slot[h].app].tasker] \in TaskRow
    BY <2>1 DEF TaskRow, AppRow
  <2>. QED
    BY <1>10, <2>1, <2>2, SlotTypes DEF AssignTasker
<1>11. ASSUME NEW u \in Users, NEW t \in Tasks, DeleteTask(h, u, t)
       PROVE  TypeOK' /\ UNCHANGED <<wallet, txs>>
  <2>1. [task[t] EXCEPT !.status = "cancelled"] \in TaskRow
    BY DEF TaskRow, TaskStatus
  <2>. QED
    BY <1>11, <2>1, SlotTypes DEF DeleteTask
<1>12. ASSUME ListOthers(h) PROVE TypeOK' /\ UNCHANGED <<wallet, txs>>
  <2>1. slot[h].task \in Tasks
    BY <1>0, <1>12, SlotFacts DEF ListOthers
  <2>. QED
    BY <1>12, <2>1, SlotTypes DEF ListOthers
<1>13. ASSUME NEW a \in Apps, RejectOther(h, a)
       PROVE  TypeOK' /\ UNCHANGED <<wallet, txs>>
  <2>1. [app[a] EXCEPT !.status = "rejected"] \in AppRow
    BY DEF AppRow, AppStatus
  <2>2. [slot[h] EXCEPT !.others = slot[h].others \ {a}] \in Slot
    BY <1>0, <1>13 DEF RejectOther, Slot, Idle
  <2>. QED
    BY <1>13, <2>1, <2>2 DEF RejectOther
<1>14. ASSUME AcceptDone(h) PROVE TypeOK' /\ UNCHANGED <<wallet, txs>>
  BY <1>14, SlotTypes DEF AcceptDone
<1>15. ASSUME Abandon(h) PROVE TypeOK' /\ UNCHANGED <<wallet, txs>>
  BY <1>15, SlotTypes DEF Abandon
<1>. QED
  BY <1>1, <1>2, <1>3, <1>4, <1>5, <1>6, <1>7, <1>8, <1>9, <1>10, <1>11,
     <1>12, <1>13, <1>14, <1>15 DEF TaskStep, Arrive, Continue

LEMMA NextIInv == IInv /\ [Next]_vars => IInv'
<1>. SUFFICES ASSUME IInv, [Next]_vars PROVE IInv'
  OBVIOUS
<1>1. CASE WalletStep
  BY <1>1, DepositInv, WithdrawInv DEF WalletStep
<1>2. CASE PaymentStep
  BY <1>2, CreateEscrowPaymentInv, ReleasePaymentInv, ReleaseAgainInv,
     RefundPaymentInv DEF PaymentStep
<1>3. CASE \E h \in Handlers : TaskStep(h)
  BY <1>3, TaskStepInv
<1>4. CASE UNCHANGED vars
  BY <1>4 DEF vars, IInv, TypeOK
<1>. QED
  BY <1>1, <1>2, <1>3, <1>4 DEF Next

-----------------------------------------------------------------------------
(* In every reachable state of every interleaving the inductive invariant  *)
(* of the rows and the handlers holds.                                     *)
THEOREM Invariance == Spec => []IInv
  BY InitIInv, NextIInv, PTL DEF Spec

(* Every row that the code ever stores has its type: in particular no      *)
(* column of a wallet becomes negative, whatever requests overlap.         *)
THEOREM TypeCorrect == Spec => []TypeOK
<1>1. IInv => TypeOK
  BY DEF IInv
<1>. QED
  BY <1>1, Invariance, PTL

(* The lifetime totals explain every balance, whatever requests overlap.   *)
THEOREM LifetimeTotalsHold == Spec => []LifetimeTotals
<1>1. IInv => LifetimeTotals
  BY DEF IInv, LifetimeTotals, Explained
<1>. QED
  BY <1>1, Invariance, PTL

(* No task is charged twice and no tasker is paid twice, although stale    *)
(* saves may reopen a task whose money is settled.                         *)
THEOREM ChargedAndPaidOnceHolds == Spec => []ChargedAndPaidOnce
<1>1. IInv => ChargedAndPaidOnce
  BY ChargedAndPaidOnceIsLawful DEF IInv, TypeOK
<1>. QED
  BY <1>1, Invariance, PTL

-----------------------------------------------------------------------------
(* The two books: the wallets and the table of transactions.               *)

(* The money in a set of wallets, and what was paid in less what was paid  *)
(* out.                                                                    *)
Cash(W) == Total([u \in Users |-> W[u].balance + W[u].escrow], Users)
PaidIn(W) == Total([u \in Users |-> W[u].deposited - W[u].withdrawn], Users)

(* What the table holds for a user's tasks, and has released to the user.  *)
HeldFor(u, T, X) ==
    Total([t \in Tasks |-> HeldBy(X[t])], {t \in Tasks : T[t].requester = u})
EarnedFrom(u, X) == Total([t \in Tasks |-> EarnedBy(u, X[t])], Tasks)

BooksAgree(W, T, X) ==
    /\ Cash(W) = PaidIn(W)
    /\ \A u \in Users : W[u].escrow = HeldFor(u, T, X) /\ W[u].earned = EarnedFrom(u, X)

LEMMA BooksAgreeIsProperties ==
    BooksAgree(wallet, task, txs) <=> Conservation /\ EscrowBacked /\ EarningsBacked
  BY DEF BooksAgree, Cash, PaidIn, HeldFor, EarnedFrom, Conservation, EscrowBacked,
         EarningsBacked, Held

(* One wallet row changes.                                                 *)
LEMMA CashChange ==
    ASSUME NEW W \in [Users -> WalletRow], NEW u \in Users, NEW w \in WalletRow,
           NEW Z, Z = [W EXCEPT ![u] = w]
    PROVE  /\ Cash(W) \in Int /\ PaidIn(W) \in Int
           /\ Cash(Z) = Cash(W) + (w.balance + w.escrow) - (W[u].balance + W[u].escrow)
           /\ PaidIn(Z) = PaidIn(W) + (w.deposited - w.withdrawn)
                                    - (W[u].deposited - W[u].withdrawn)
<1>1. IsFiniteSet(Users)
  BY FiniteAssumption
<1>2. PICK f : f = [v \in Users |-> W[v].balance + W[v].escrow]
  OBVIOUS
<1>3. PICK k : k = [v \in Users |-> Z[v].balance + Z[v].escrow]
  OBVIOUS
<1>4. PICK g : g = [v \in Users |-> W[v].deposited - W[v].withdrawn]
  OBVIOUS
<1>5. PICK m : m = [v \in Users |-> Z[v].deposited - Z[v].withdrawn]
  OBVIOUS
<1>6. /\ \A v \in Users : f[v] \in Int
      /\ \A v \in Users : g[v] \in Int
      /\ k[u] = w.balance + w.escrow /\ k[u] \in Int
      /\ m[u] = w.deposited - w.withdrawn /\ m[u] \in Int
      /\ f[u] = W[u].balance + W[u].escrow
      /\ g[u] = W[u].deposited - W[u].withdrawn
      /\ \A v \in Users : v # u => k[v] = f[v]
      /\ \A v \in Users : v # u => m[v] = g[v]
  BY <1>2, <1>3, <1>4, <1>5 DEF WalletRow
<1>7. Total(f, Users) \in Int /\ Total(g, Users) \in Int
  BY <1>1, <1>6, TotalIsInt
<1>8. Total(k, Users) = Total(f, Users) + k[u] - f[u]
  <2>1. /\ \A v \in Users : f[v] \in Int
        /\ k[u] \in Int
        /\ \A v \in Users : v # u => k[v] = f[v]
    BY <1>6
  <2> QED
    BY <1>1, <2>1, TotalChange
<1>9. Total(m, Users) = Total(g, Users) + m[u] - g[u]
  <2>1. /\ \A v \in Users : g[v] \in Int
        /\ m[u] \in Int
        /\ \A v \in Users : v # u => m[v] = g[v]
    BY <1>6
  <2> QED
    BY <1>1, <2>1, TotalChange
<1> QED
  BY <1>2, <1>3, <1>4, <1>5, <1>6, <1>7, <1>8, <1>9 DEF Cash, PaidIn

(* What one more transaction adds to what a history holds.                 *)
LEMMA HeldByFacts ==
    ASSUME NEW s \in Seq(TxRow)
    PROVE  /\ HeldBy(s) \in Int
           /\ \A x \in TxRow : HeldBy(Append(s, x)) = HeldBy(s) + Kept(x)
<1>1. \A x \in TxRow : Kept(x) \in Int
  BY DEF Kept, TxRow, TxType
<1>2. PICK n \in Nat : n = Len(s) /\ DOMAIN s = 1..n /\ \A i \in 1..n : s[i] \in TxRow
  BY LenProperties, ElementOfSeq
<1>3. IsFiniteSet(1..n) /\ IsFiniteSet(1..(n + 1))
  BY FS_Interval
<1>4. PICK f : f = [i \in 1..n |-> Kept(s[i])]
  OBVIOUS
<1>5. HeldBy(s) = Total(f, 1..n)
  BY <1>2, <1>4 DEF HeldBy
<1>6. \A i \in 1..n : f[i] \in Int
  BY <1>1, <1>2, <1>4
<1>7. HeldBy(s) \in Int
  BY <1>3, <1>5, <1>6, TotalIsInt
<1>8. ASSUME NEW x \in TxRow PROVE HeldBy(Append(s, x)) = HeldBy(s) + Kept(x)
  <2>1. PICK z : z = Append(s, x)
    OBVIOUS
  <2>2. /\ DOMAIN z = 1..(n + 1) /\ z[n + 1] = x
        /\ \A i \in 1..n : z[i] = s[i]
    BY <1>2, <2>1, AppendFacts
  <2>3. PICK k : k = [i \in 1..(n + 1) |-> Kept(z[i])]
    OBVIOUS
  <2>4. HeldBy(z) = Total(k, 1..(n + 1))
    BY <2>2, <2>3 DEF HeldBy
  <2>5. /\ n + 1 \in 1..(n + 1) /\ (1..(n + 1)) \ {n + 1} = 1..n
        /\ \A i \in 1..(n + 1) : i = n + 1 \/ i \in 1..n
    OBVIOUS
  <2>6. \A i \in 1..n : k[i] = f[i]
    BY <1>4, <2>2, <2>3
  <2>7. k[n + 1] = Kept(x)
    BY <2>2, <2>3, <2>5
  <2>8. \A i \in 1..(n + 1) : k[i] \in Int
    BY <1>1, <1>6, <2>5, <2>6, <2>7
  <2>9. Total(k, 1..(n + 1)) = k[n + 1] + Total(k, 1..n)
    BY <1>3, <2>5, <2>8, TotalRemove
  <2>10. Total(k, 1..n) = Total(f, 1..n)
    BY <1>3, <2>6, TotalSame
  <2>11. Kept(x) \in Int
    BY <1>1
  <2> QED
    BY <1>5, <1>7, <2>1, <2>4, <2>7, <2>9, <2>10, <2>11
<1> QED
  BY <1>7, <1>8

(* What one more transaction adds to what a user has earned.               *)
LEMMA EarnedByFacts ==
    ASSUME NEW s \in Seq(TxRow), NEW u
    PROVE  /\ EarnedBy(u, s) \in Int
           /\ \A x \in TxRow : EarnedBy(u, Append(s, x)) =
                 EarnedBy(u, s) + (IF x.type = "release" /\ x.payee = u THEN x.amount ELSE 0)
<1>1. PICK n \in Nat : n = Len(s) /\ DOMAIN s = 1..n /\ \A i \in 1..n : s[i] \in TxRow
  BY LenProperties, ElementOfSeq
<1>2. PICK R : R = {i \in 1..n : s[i].type = "release" /\ s[i].payee = u}
  OBVIOUS
<1>3. IsFiniteSet(1..n) /\ IsFiniteSet(R)
  <2>1. IsFiniteSet(1..n) /\ R \subseteq 1..n
    BY <1>2, FS_Interval
  <2> QED
    BY <2>1, FS_Subset
<1>4. PICK f : f = [i \in R |-> s[i].amount]
  OBVIOUS
<1>5. EarnedBy(u, s) = Total(f, R)
  BY <1>1, <1>2, <1>4 DEF EarnedBy
<1>6. \A i \in R : f[i] \in Int
  BY <1>1, <1>2, <1>4 DEF TxRow
<1>7. EarnedBy(u, s) \in Int
  BY <1>3, <1>5, <1>6, TotalIsInt
<1>8. ASSUME NEW x \in TxRow
      PROVE  EarnedBy(u, Append(s, x)) =
                EarnedBy(u, s) + (IF x.type = "release" /\ x.payee = u THEN x.amount ELSE 0)
  <2>1. PICK z : z = Append(s, x)
    OBVIOUS
  <2>2. /\ DOMAIN z = 1..(n + 1) /\ z[n + 1] = x
        /\ \A i \in 1..n : z[i] = s[i]
    BY <1>1, <2>1, AppendFacts
  <2>3. PICK Q : Q = {i \in 1..(n + 1) : z[i].type = "release" /\ z[i].payee = u}
    OBVIOUS
  <2>4. PICK k : k = [i \in Q |-> z[i].amount]
    OBVIOUS
  <2>5. EarnedBy(u, z) = Total(k, Q)
    BY <2>2, <2>3, <2>4 DEF EarnedBy
  <2>6. n + 1 \notin 1..n /\ \A i \in 1..(n + 1) : i = n + 1 \/ i \in 1..n
    OBVIOUS
  <2>7. Q \ {n + 1} = R
    BY <1>2, <2>2, <2>3, <2>6
  <2>8. \A i \in R : k[i] = f[i]
    BY <1>2, <1>4, <2>2, <2>3, <2>4, <2>7
  <2>9. Total(k, R) = Total(f, R)
    BY <1>3, <2>8, TotalSame
  <2>10. CASE x.type = "release" /\ x.payee = u
    <3>1. n + 1 \in Q /\ k[n + 1] = x.amount /\ x.amount \in Int
      BY <2>2, <2>3, <2>4, <2>10 DEF TxRow
    <3>2. Q = R \cup {n + 1}
      BY <2>7, <3>1
    <3>3. IsFiniteSet(Q)
      BY <1>3, <3>2, FS_AddElement
    <3>4. \A i \in Q : k[i] \in Int
      BY <1>6, <2>8, <3>1, <3>2
    <3>5. Total(k, Q) = k[n + 1] + Total(k, R)
      BY <2>7, <3>1, <3>3, <3>4, TotalRemove
    <3> QED
      BY <1>5, <1>7, <2>1, <2>5, <2>9, <2>10, <3>1, <3>5
  <2>11. CASE ~(x.type = "release" /\ x.payee = u)
    <3>1. n + 1 \notin Q
      BY <2>2, <2>3, <2>11
    <3>2. Q = R
      BY <2>7, <3>1
    <3> QED
      BY <1>5, <1>7, <2>1, <2>5, <2>9, <2>11, <3>2
  <2> QED
    BY <2>10, <2>11
<1> QED
  BY <1>7, <1>8

(* One history changes.                                                    *)
Entered(X, Y, t) ==
    /\ \A v \in Tasks : HeldBy(X[v]) \in Int
    /\ HeldBy(Y[t]) \in Int
    /\ \A u \in Users : /\ \A v \in Tasks : EarnedBy(u, X[v]) \in Int
                        /\ EarnedBy(u, Y[t]) \in Int
    /\ \A v \in Tasks : v # t => Y[v] = X[v]

SameRequesters(T, V) == \A v \in Tasks : V[v].requester = T[v].requester

LEMMA HeldForChange ==
    ASSUME NEW X, NEW Y, NEW t \in Tasks, Entered(X, Y, t),
           NEW T, NEW V, SameRequesters(T, V), NEW u
    PROVE  /\ HeldFor(u, T, X) \in Int
           /\ HeldFor(u, V, Y) = HeldFor(u, T, X) +
                 (IF T[t].requester = u THEN HeldBy(Y[t]) - HeldBy(X[t]) ELSE 0)
<1>1. PICK P \in SUBSET Tasks : P = {v \in Tasks : T[v].requester = u}
  OBVIOUS
<1>2. P = {v \in Tasks : V[v].requester = u}
  BY <1>1 DEF SameRequesters
<1>3. IsFiniteSet(P)
  BY FiniteAssumption, FS_Subset
<1>4. PICK f : f = [v \in Tasks |-> HeldBy(X[v])]
  OBVIOUS
<1>5. PICK k : k = [v \in Tasks |-> HeldBy(Y[v])]
  OBVIOUS
<1>6. /\ \A v \in Tasks : f[v] \in Int
      /\ k[t] = HeldBy(Y[t]) /\ k[t] \in Int /\ f[t] = HeldBy(X[t])
      /\ \A v \in Tasks : v # t => k[v] = f[v]
  BY <1>4, <1>5 DEF Entered
<1>7. Total(f, P) \in Int
  BY <1>3, <1>6, TotalIsInt
<1>8. HeldFor(u, T, X) = Total(f, P) /\ HeldFor(u, V, Y) = Total(k, P)
  BY <1>1, <1>2, <1>4, <1>5 DEF HeldFor
<1>9. Total(k, P) = Total(f, P) + (IF t \in P THEN k[t] - f[t] ELSE 0)
  <2>1. /\ \A v \in P : f[v] \in Int
        /\ k[t] \in Int
        /\ \A v \in P : v # t => k[v] = f[v]
    BY <1>6
  <2> QED
    BY <1>3, <2>1, TotalChangeWithin
<1> QED
  BY <1>1, <1>6, <1>7, <1>8, <1>9

LEMMA EarnedFromChange ==
    ASSUME NEW X, NEW Y, NEW t \in Tasks, Entered(X, Y, t), NEW u \in Users
    PROVE  EarnedFrom(u, Y) = EarnedFrom(u, X) + EarnedBy(u, Y[t]) - EarnedBy(u, X[t])
<1>1. IsFiniteSet(Tasks)
  BY FiniteAssumption
<1>2. PICK f : f = [v \in Tasks |-> EarnedBy(u, X[v])]
  OBVIOUS
<1>3. PICK k : k = [v \in Tasks |-> EarnedBy(u, Y[v])]
  OBVIOUS
<1>4. /\ \A v \in Tasks : f[v] \in Int
      /\ k[t] = EarnedBy(u, Y[t]) /\ k[t] \in Int /\ f[t] = EarnedBy(u, X[t])
      /\ \A v \in Tasks : v # t => k[v] = f[v]
  BY <1>2, <1>3 DEF Entered
<1>5. Total(f, Tasks) \in Int
  BY <1>1, <1>4, TotalIsInt
<1>6. Total(k, Tasks) = Total(f, Tasks) + k[t] - f[t]
  <2>1. /\ \A v \in Tasks : f[v] \in Int
        /\ k[t] \in Int
        /\ \A v \in Tasks : v # t => k[v] = f[v]
    BY <1>4
  <2> QED
    BY <1>1, <2>1, TotalChange
<1> QED
  BY <1>2, <1>3, <1>4, <1>5, <1>6 DEF EarnedFrom

(* A task that exists keeps its requester: the rows that the handlers      *)
(* save are of existing tasks and name the same requester; a task that     *)
(* does not exist yet has no transaction.                                  *)
Exists(T, t) == t \in Tasks /\ T[t].status # "none"

Keeps(s, T) ==
    /\ s.op \in {"reprice", "update", "save", "delete"} =>
          s.row.status # "none" /\ s.row.requester = T[s.task].requester
    /\ s.op \in {"reprice", "update", "apply", "accept", "assign",
                "save", "delete"} => Exists(T, s.task)

Owned ==
    /\ \A t \in Tasks : ~Exists(task, t) => txs[t] = <<>>
    /\ \A h \in Handlers : Keeps(slot[h], task)

BInv == IInv /\ Owned /\ BooksAgree(wallet, task, txs)

LEMMA TotalOfZeros ==
    ASSUME NEW S, IsFiniteSet(S), NEW f, \A x \in S : f[x] = 0
    PROVE  Total(f, S) = 0
<1>1. {} \in SUBSET S /\ \A x \in S : f[x] \in Int
  OBVIOUS
<1>2. Total(f, S) = Total(f, {})
  BY <1>1, TotalSelect
<1> QED
  BY <1>2, TotalOfNone

LEMMA NothingHeld == HeldBy(<<>>) = 0 /\ \A u : EarnedBy(u, <<>>) = 0
<1>1. DOMAIN <<>> = {}
  OBVIOUS
<1>2. HeldBy(<<>>) = 0
  BY <1>1, TotalOfNone DEF HeldBy
<1>3. ASSUME NEW u PROVE EarnedBy(u, <<>>) = 0
  <2>1. PICK R : R = {i \in DOMAIN <<>> : <<>>[i].type = "release" /\ <<>>[i].payee = u}
    OBVIOUS
  <2>2. R = {}
    BY <1>1, <2>1
  <2> QED
    BY <2>1, <2>2, TotalOfNone DEF EarnedBy
<1> QED
  BY <1>2, <1>3

LEMMA InitBooks == Init => Owned /\ BooksAgree(wallet, task, txs)
<1> SUFFICES ASSUME Init PROVE Owned /\ BooksAgree(wallet, task, txs)
  OBVIOUS
<1>1. Owned
  BY DEF Init, Owned, Exists, Keeps, Idle
<1>2. /\ \A u \in Users : /\ wallet[u].balance = 0 /\ wallet[u].escrow = 0
                          /\ wallet[u].deposited = 0 /\ wallet[u].withdrawn = 0
                          /\ wallet[u].earned = 0
      /\ \A t \in Tasks : txs[t] = <<>>
  BY DEF Init, EmptyWallet
<1>3. Cash(wallet) = 0 /\ PaidIn(wallet) = 0
  <2>1. PICK f : f = [u \in Users |-> wallet[u].balance + wallet[u].escrow]
    OBVIOUS
  <2>2. PICK k : k = [u \in Users |-> wallet[u].deposited - wallet[u].withdrawn]
    OBVIOUS
  <2>3. (\A u \in Users : f[u] = 0) /\ (\A u \in Users : k[u] = 0)
    BY <1>2, <2>1, <2>2
  <2> QED
    BY <2>1, <2>2, <2>3, FiniteAssumption, TotalOfZeros DEF Cash, PaidIn
<1>4. ASSUME NEW u \in Users PROVE HeldFor(u, task, txs) = 0 /\ EarnedFrom(u, txs) = 0
  <2>1. PICK f : f = [t \in Tasks |-> HeldBy(txs[t])]
    OBVIOUS
  <2>2. PICK k : k = [t \in Tasks |-> EarnedBy(u, txs[t])]
    OBVIOUS
  <2>3. PICK P \in SUBSET Tasks : P = {t \in Tasks : task[t].requester = u}
    OBVIOUS
  <2>4. (\A t \in P : f[t] = 0) /\ (\A t \in Tasks : k[t] = 0)
    BY <1>2, <2>1, <2>2, NothingHeld
  <2>5. IsFiniteSet(P) /\ IsFiniteSet(Tasks)
    BY FiniteAssumption, FS_Subset
  <2> QED
    BY <2>1, <2>2, <2>3, <2>4, <2>5, TotalOfZeros DEF HeldFor, EarnedFrom
<1> QED
  BY <1>1, <1>2, <1>3, <1>4 DEF BooksAgree

(* Tasks without transactions may get a requester.                         *)
LEMMA HeldForOwner ==
    ASSUME NEW X \in [Tasks -> Seq(TxRow)], NEW T, NEW V, NEW u,
           \A v \in Tasks : V[v].requester = T[v].requester \/ X[v] = <<>>
    PROVE  HeldFor(u, V, X) = HeldFor(u, T, X)
<1>1. PICK f : f = [v \in Tasks |-> HeldBy(X[v])]
  OBVIOUS
<1>2. PICK P \in SUBSET Tasks : P = {v \in Tasks : T[v].requester = u}
  OBVIOUS
<1>3. PICK Q \in SUBSET Tasks : Q = {v \in Tasks : V[v].requester = u}
  OBVIOUS
<1>4. PICK R : R = P \cap Q
  OBVIOUS
<1>5. \A v \in Tasks : f[v] \in Int
  <2>1. \A v \in Tasks : HeldBy(X[v]) \in Int
    BY HeldByFacts
  <2> QED
    BY <1>1, <2>1
<1>6. R \in SUBSET P /\ R \in SUBSET Q
  BY <1>4
<1>7. (\A v \in P \ R : f[v] = 0) /\ (\A v \in Q \ R : f[v] = 0)
  BY <1>1, <1>2, <1>3, <1>4, NothingHeld
<1>8. /\ IsFiniteSet(P) /\ IsFiniteSet(Q)
      /\ \A v \in P : f[v] \in Int
      /\ \A v \in Q : f[v] \in Int
  BY <1>5, FiniteAssumption, FS_Subset
<1>9. Total(f, P) = Total(f, R) /\ Total(f, Q) = Total(f, R)
  BY <1>6, <1>7, <1>8, TotalSelect
<1> QED
  BY <1>1, <1>2, <1>3, <1>9 DEF HeldFor

(* A step on the money of one task that moves in the wallets what it       *)
(* enters in the table keeps the books.                                    *)
Moved(W, Z, T, X, Y, t) ==
    /\ \A u \in Users : Z[u].escrow = W[u].escrow +
          (IF T[t].requester = u THEN HeldBy(Y[t]) - HeldBy(X[t]) ELSE 0)
    /\ \A u \in Users : Z[u].earned = W[u].earned + EarnedBy(u, Y[t]) - EarnedBy(u, X[t])

LEMMA BooksChange ==
    ASSUME NEW W, NEW Z, NEW T, NEW V, NEW X, NEW Y, NEW t \in Tasks,
           BooksAgree(W, T, X), Cash(Z) = PaidIn(Z),
           Entered(X, Y, t), Moved(W, Z, T, X, Y, t), SameRequesters(T, V)
    PROVE  BooksAgree(Z, V, Y)
<1>1. \A u \in Users :
         HeldFor(u, V, Y) = HeldFor(u, T, X) +
            (IF T[t].requester = u THEN HeldBy(Y[t]) - HeldBy(X[t]) ELSE 0)
  BY HeldForChange
<1>2. \A u \in Users :
         EarnedFrom(u, Y) = EarnedFrom(u, X) + EarnedBy(u, Y[t]) - EarnedBy(u, X[t])
  BY EarnedFromChange
<1> QED
  BY <1>1, <1>2 DEF BooksAgree, Moved

LEMMA PaymentBooks ==
    ASSUME BInv, NEW t \in Tasks, NEW s \in Seq(TxRow), txs' = [txs EXCEPT ![t] = s],
           \A v \in Tasks : task'[v].requester = task[v].requester,
           Cash(wallet') = PaidIn(wallet'),
           \A u \in Users : wallet'[u].escrow = wallet[u].escrow +
               (IF task[t].requester = u THEN HeldBy(s) - HeldBy(txs[t]) ELSE 0),
           \A u \in Users : wallet'[u].earned =
               wallet[u].earned + EarnedBy(u, s) - EarnedBy(u, txs[t])
    PROVE  BooksAgree(wallet, task, txs)'
<1>1. txs \in [Tasks -> Seq(TxRow)]
  BY DEF BInv, IInv, TypeOK
<1>2. PICK X : X = txs
  OBVIOUS
<1>3. PICK Y : Y = txs'
  OBVIOUS
<1>4. /\ Y[t] = s
      /\ \A v \in Tasks : v # t => Y[v] = X[v]
  BY <1>1, <1>2, <1>3
<1>5. /\ \A v \in Tasks : HeldBy(X[v]) \in Int
      /\ HeldBy(Y[t]) \in Int
  BY <1>1, <1>2, <1>4, HeldByFacts
<1>6. \A u \in Users : /\ \A v \in Tasks : EarnedBy(u, X[v]) \in Int
                       /\ EarnedBy(u, Y[t]) \in Int
  BY <1>1, <1>2, <1>4, EarnedByFacts
<1>7. BooksAgree(wallet, task, X)
  BY <1>2 DEF BInv
<1>8. /\ \A u \in Users : wallet'[u].escrow = wallet[u].escrow +
             (IF task[t].requester = u THEN HeldBy(Y[t]) - HeldBy(X[t]) ELSE 0)
      /\ \A u \in Users : wallet'[u].earned =
             wallet[u].earned + EarnedBy(u, Y[t]) - EarnedBy(u, X[t])
  BY <1>2, <1>4
<1>9. BooksAgree(wallet', task', Y)
  <2>1. Entered(X, Y, t)
    BY <1>4, <1>5, <1>6 DEF Entered
  <2>2. Moved(wallet, wallet', task, X, Y, t)
    BY <1>8 DEF Moved
  <2>3. SameRequesters(task, task')
    BY DEF SameRequesters
  <2> QED
    BY <1>7, <2>1, <2>2, <2>3, BooksChange
<1> QED
  BY <1>3, <1>9

(* What is moved in one wallet and is not paid in or out stays money.      *)
LEMMA WalletCash ==
    ASSUME NEW W \in [Users -> WalletRow], NEW u \in Users, NEW w \in WalletRow,
           NEW Z, Z = [W EXCEPT ![u] = w], Cash(W) = PaidIn(W),
           (w.balance + w.escrow) - (W[u].balance + W[u].escrow)
           = (w.deposited - w.withdrawn) - (W[u].deposited - W[u].withdrawn)
    PROVE  Cash(Z) = PaidIn(Z)
<1>1. /\ Cash(W) \in Int /\ PaidIn(W) \in Int
      /\ Cash(Z) = Cash(W) + (w.balance + w.escrow) - (W[u].balance + W[u].escrow)
      /\ PaidIn(Z) = PaidIn(W) + (w.deposited - w.withdrawn)
                               - (W[u].deposited - W[u].withdrawn)
  BY CashChange
<1>2. /\ w.balance \in Int /\ w.escrow \in Int /\ w.deposited \in Int /\ w.withdrawn \in Int
      /\ W[u].balance \in Int /\ W[u].escrow \in Int
      /\ W[u].deposited \in Int /\ W[u].withdrawn \in Int
  BY DEF WalletRow
<1> QED
  BY <1>1, <1>2

LEMMA WalletStepBooks ==
    ASSUME BInv, NEW u \in Users, NEW amount \in Amounts,
           Deposit(u, amount) \/ Withdraw(u, amount)
    PROVE  Owned' /\ BooksAgree(wallet, task, txs)'
<1>1. wallet \in [Users -> WalletRow] /\ wallet[u] \in WalletRow /\ amount \in Nat
  BY AmountAssumption DEF BInv, IInv, TypeOK
<1>2. PICK w \in WalletRow :
        /\ wallet' = [wallet EXCEPT ![u] = w]
        /\ w.escrow = wallet[u].escrow /\ w.earned = wallet[u].earned
        /\ (w.balance + w.escrow) - (wallet[u].balance + wallet[u].escrow)
           = (w.deposited - w.withdrawn) - (wallet[u].deposited - wallet[u].withdrawn)
  <2>1. CASE Deposit(u, amount)
    <3>1. PICK w : w = AfterDeposit(wallet[u], amount)
      OBVIOUS
    <3>2. /\ w \in WalletRow
          /\ w.balance = wallet[u].balance + amount /\ w.escrow = wallet[u].escrow
          /\ w.deposited = wallet[u].deposited + amount
          /\ w.withdrawn = wallet[u].withdrawn /\ w.earned = wallet[u].earned
      BY <1>1, <2>1, <3>1, DepositFacts DEF Deposit
    <3>3. wallet' = [wallet EXCEPT ![u] = w]
      BY <1>1, <2>1, <3>1 DEF Deposit
    <3>4. (w.balance + w.escrow) - (wallet[u].balance + wallet[u].escrow)
          = (w.deposited - w.withdrawn) - (wallet[u].deposited - wallet[u].withdrawn)
      BY <1>1, <3>2 DEF WalletRow
    <3> QED
      BY <3>2, <3>3, <3>4
  <2>2. CASE Withdraw(u, amount)
    <3>1. PICK w : w = AfterWithdraw(wallet[u], amount)
      OBVIOUS
    <3>2. /\ w \in WalletRow
          /\ w.balance = wallet[u].balance - amount /\ w.escrow = wallet[u].escrow
          /\ w.deposited = wallet[u].deposited
          /\ w.withdrawn = wallet[u].withdrawn + amount /\ w.earned = wallet[u].earned
      BY <1>1, <2>2, <3>1, WithdrawFacts DEF Withdraw
    <3>3. wallet' = [wallet EXCEPT ![u] = w]
      BY <1>1, <2>2, <3>1 DEF Withdraw
    <3>4. (w.balance + w.escrow) - (wallet[u].balance + wallet[u].escrow)
          = (w.deposited - w.withdrawn) - (wallet[u].deposited - wallet[u].withdrawn)
      BY <1>1, <3>2 DEF WalletRow
    <3> QED
      BY <3>2, <3>3, <3>4
  <2> QED
    BY <2>1, <2>2
<1>3. Cash(wallet') = PaidIn(wallet')
  BY <1>1, <1>2, WalletCash DEF BInv, BooksAgree
<1>4. UNCHANGED <<task, txs, slot>>
  BY DEF Deposit, Withdraw
<1>5. \A v \in Users : wallet'[v].escrow = wallet[v].escrow /\ wallet'[v].earned = wallet[v].earned
  BY <1>1, <1>2
<1> QED
  BY <1>3, <1>4, <1>5 DEF BInv, BooksAgree, Owned

(* The tasks that exist go on existing, with their requesters.             *)
LEMMA StatusOwned ==
    ASSUME BInv, NEW t \in Tasks, Exists(task, t), NEW status \in TaskStatus, status # "none",
           task' = [task EXCEPT ![t].status = status],
           \A v \in Tasks : v # t => txs'[v] = txs[v], UNCHANGED slot
    PROVE  Owned' /\ \A v \in Tasks : task'[v].requester = task[v].requester
<1>1. task \in [Tasks -> TaskRow]
  BY DEF BInv, IInv, TypeOK
<1>2. /\ \A v \in Tasks : task'[v].requester = task[v].requester
      /\ \A v \in Tasks : Exists(task, v) => Exists(task', v)
      /\ Exists(task', t)
      /\ \A v \in Tasks : v # t => task'[v] = task[v]
  BY <1>1 DEF Exists, TaskRow
<1>3. \A v \in Tasks : ~Exists(task', v) => txs'[v] = <<>>
  BY <1>2 DEF BInv, Owned, Exists
<1>4. ASSUME NEW h \in Handlers PROVE Keeps(slot[h], task')
  BY <1>2 DEF BInv, Owned, Keeps, Exists
<1> QED
  BY <1>2, <1>3, <1>4 DEF Owned

LEMMA CreateEscrowPaymentBooks ==
    ASSUME BInv, NEW t \in Tasks, NEW u \in Users, CreateEscrowPayment(t, u)
    PROVE  Owned' /\ BooksAgree(wallet, task, txs)'
<1>1. /\ wallet \in [Users -> WalletRow] /\ txs \in [Tasks -> Seq(TxRow)]
      /\ wallet[u] \in WalletRow /\ txs[t] \in Seq(TxRow)
      /\ task[t].tasker \in Users \cup {NoUser}
  BY DEF BInv, IInv, TypeOK, TaskRow
<1>2. PICK price \in ChargedPrices(t) :
        /\ CanHold(wallet[u], price)
        /\ wallet' = [wallet EXCEPT ![u] = AfterHold(@, price)]
        /\ txs' = [txs EXCEPT ![t] = Append(@,
                     Tx("escrow", price, PlatformFee[price], task[t].tasker))]
  BY DEF CreateEscrowPayment
<1>3. price \in Prices /\ price \in Nat
  BY <1>2, ChargedPriceType, PriceAssumption DEF CanHold, BInv
<1>4. PICK fee \in Nat : fee = PlatformFee[price] /\ fee <= price
  BY <1>3, FeeAssumption
<1>5. PICK row : row = Tx("escrow", price, fee, task[t].tasker)
  OBVIOUS
<1>6. row \in TxRow /\ row.type = "escrow" /\ row.amount = price
  <2>1. row \in TxRow /\ row.type = "escrow"
    BY <1>1, <1>3, <1>4, <1>5, TxFacts DEF TxType
  <2> QED
    BY <1>5, <2>1 DEF Tx
<1>7. PICK s \in Seq(TxRow) : s = Append(txs[t], row)
  BY <1>1, <1>6, AppendFacts
<1>8. txs' = [txs EXCEPT ![t] = s]
  BY <1>1, <1>2, <1>4, <1>5, <1>7
<1>9. PICK w : w = AfterHold(wallet[u], price)
  OBVIOUS
<1>10. /\ w \in WalletRow
       /\ w.balance = wallet[u].balance - price /\ w.escrow = wallet[u].escrow + price
       /\ w.deposited = wallet[u].deposited
       /\ w.withdrawn = wallet[u].withdrawn /\ w.earned = wallet[u].earned
  BY <1>1, <1>2, <1>3, <1>9, HoldFacts
<1>11. wallet' = [wallet EXCEPT ![u] = w]
  BY <1>1, <1>2, <1>9
<1>12. Cash(wallet') = PaidIn(wallet')
  <2>1. (w.balance + w.escrow) - (wallet[u].balance + wallet[u].escrow)
        = (w.deposited - w.withdrawn) - (wallet[u].deposited - wallet[u].withdrawn)
    BY <1>1, <1>3, <1>10 DEF WalletRow
  <2> QED
    BY <1>1, <1>10, <1>11, <2>1, WalletCash DEF BInv, BooksAgree
<1>13. HeldBy(s) - HeldBy(txs[t]) = price
  <2>1. Kept(row) = price
    BY <1>6 DEF Kept
  <2> QED
    BY <1>1, <1>3, <1>6, <1>7, <2>1, HeldByFacts
<1>14. \A v \in Users : EarnedBy(v, s) = EarnedBy(v, txs[t]) /\ EarnedBy(v, txs[t]) \in Int
  BY <1>1, <1>6, <1>7, EarnedByFacts
<1>15. Owned' /\ \A v \in Tasks : task'[v].requester = task[v].requester
  BY <1>1, <1>8, StatusOwned DEF CreateEscrowPayment, Exists, TaskStatus
<1>16. \A v \in Users : wallet'[v].escrow = wallet[v].escrow +
               (IF task[t].requester = v THEN HeldBy(s) - HeldBy(txs[t]) ELSE 0)
  <2>1. task[t].requester = u
    BY DEF CreateEscrowPayment
  <2>2. \A v \in Users : wallet[v].escrow \in Int /\ (v # u => wallet'[v] = wallet[v])
    BY <1>1, <1>11, RowIsNumbers
  <2>3. wallet'[u] = w
    BY <1>1, <1>11
  <2> QED
    BY <1>10, <1>13, <2>1, <2>2, <2>3
<1>17. \A v \in Users : wallet'[v].earned =
               wallet[v].earned + EarnedBy(v, s) - EarnedBy(v, txs[t])
  <2>1. \A v \in Users : wallet'[v].earned = wallet[v].earned /\ wallet[v].earned \in Int
    BY <1>1, <1>10, <1>11 DEF WalletRow
  <2> QED
    BY <1>14, <2>1
<1> QED
  BY <1>8, <1>12, <1>15, <1>16, <1>17, PaymentBooks

LEMMA RefundPaymentBooks ==
    ASSUME BInv, NEW t \in Tasks, NEW u \in Users, RefundPayment(t, u)
    PROVE  Owned' /\ BooksAgree(wallet, task, txs)'
<1>1. /\ wallet \in [Users -> WalletRow] /\ txs \in [Tasks -> Seq(TxRow)]
      /\ wallet[u] \in WalletRow /\ txs[t] \in Seq(TxRow)
  BY DEF BInv, IInv, TypeOK
<1>2. PICK amount \in Nat : amount = EscrowTx(t).amount
  BY EscrowTxFacts DEF RefundPayment, BInv, IInv, TxRow
<1>3. PICK row : row = Tx("refund", amount, 0, NoUser)
  OBVIOUS
<1>4. row \in TxRow /\ row.type = "refund" /\ row.amount = amount
  <2>1. row \in TxRow /\ row.type = "refund"
    BY <1>2, <1>3, TxFacts DEF TxType
  <2> QED
    BY <1>3, <2>1 DEF Tx
<1>5. PICK s \in Seq(TxRow) : s = Append(txs[t], row)
  BY <1>1, <1>4, AppendFacts
<1>6. txs' = [txs EXCEPT ![t] = s]
  BY <1>1, <1>2, <1>3, <1>5 DEF RefundPayment
<1>7. PICK w : w = AfterRefund(wallet[u], amount)
  OBVIOUS
<1>8. CanRefund(wallet[u], amount) /\ wallet' = [wallet EXCEPT ![u] = w]
  BY <1>1, <1>2, <1>7 DEF RefundPayment
<1>9. /\ w \in WalletRow
      /\ w.balance = wallet[u].balance + amount /\ w.escrow = wallet[u].escrow - amount
      /\ w.deposited = wallet[u].deposited
      /\ w.withdrawn = wallet[u].withdrawn /\ w.earned = wallet[u].earned
  BY <1>1, <1>7, <1>8, RefundFacts
<1>10. Cash(wallet') = PaidIn(wallet')
  <2>1. (w.balance + w.escrow) - (wallet[u].balance + wallet[u].escrow)
        = (w.deposited - w.withdrawn) - (wallet[u].deposited - wallet[u].withdrawn)
    <3>1. /\ wallet[u].balance \in Int /\ wallet[u].escrow \in Int
          /\ wallet[u].deposited \in Int /\ wallet[u].withdrawn \in Int /\ amount \in Int
      BY <1>1, RowIsNumbers
    <3> QED
      BY <1>9, <3>1
  <2> QED
    BY <1>1, <1>8, <1>9, <2>1, WalletCash DEF BInv, BooksAgree
<1>11. HeldBy(s) - HeldBy(txs[t]) = -amount
  <2>1. Kept(row) = -amount
    BY <1>4 DEF Kept
  <2> QED
    BY <1>1, <1>4, <1>5, <2>1, HeldByFacts
<1>12. \A v \in Users : EarnedBy(v, s) = EarnedBy(v, txs[t]) /\ EarnedBy(v, txs[t]) \in Int
  BY <1>1, <1>4, <1>5, EarnedByFacts
<1>13. Owned' /\ \A v \in Tasks : task'[v].requester = task[v].requester
  BY <1>1, <1>6, StatusOwned DEF RefundPayment, Exists, TaskStatus
<1>14. \A v \in Users : wallet'[v].escrow = wallet[v].escrow +
               (IF task[t].requester = v THEN HeldBy(s) - HeldBy(txs[t]) ELSE 0)
  <2>1. task[t].requester = u
    BY DEF RefundPayment
  <2>2. \A v \in Users : wallet[v].escrow \in Int
    BY <1>1 DEF WalletRow
  <2>3. wallet'[u].escrow = wallet[u].escrow - amount
    BY <1>1, <1>8, <1>9
  <2>4. \A v \in Users : v # u => wallet'[v].escrow = wallet[v].escrow
    BY <1>1, <1>8
  <2> QED
    BY <1>1, <1>11, <2>1, <2>2, <2>3, <2>4
<1>15. \A v \in Users : wallet'[v].earned =
               wallet[v].earned + EarnedBy(v, s) - EarnedBy(v, txs[t])
  <2>1. \A v \in Users : wallet'[v].earned = wallet[v].earned /\ wallet[v].earned \in Int
    <3>1. \A v \in Users : wallet[v].earned \in Int
      BY <1>1, RowIsNumbers
    <3>2. \A v \in Users : v # u => wallet'[v] = wallet[v]
      BY <1>1, <1>8
    <3>3. wallet'[u].earned = wallet[u].earned
      BY <1>1, <1>8, <1>9
    <3> QED
      BY <3>1, <3>2, <3>3
  <2> QED
    BY <1>12, <2>1
<1> QED
  BY <1>6, <1>10, <1>13, <1>14, <1>15, PaymentBooks

(* A release moves the net from the payer's escrow to the payee: the fee   *)
(* is entered too, and moves nothing.                                      *)
LEMMA ReleasePaymentBooks ==
    ASSUME BInv, NEW t \in Tasks, NEW u \in Users, ReleasePayment(t, u)
    PROVE  Owned' /\ BooksAgree(wallet, task, txs)'
<1>1. /\ wallet \in [Users -> WalletRow] /\ txs \in [Tasks -> Seq(TxRow)]
      /\ wallet[u] \in WalletRow /\ txs[t] \in Seq(TxRow)
  BY DEF BInv, IInv, TypeOK
<1>2. PICK payee \in Users : payee = task[t].tasker
  BY DEF ReleasePayment, BInv, IInv, TypeOK, TaskRow
<1>3. PICK held \in TxRow : held = EscrowTx(t)
  BY EscrowTxFacts DEF ReleasePayment, BInv, IInv
<1>4. PICK net \in Nat : net = held.net
  BY DEF TxRow
<1>5. PICK release : release = Tx("release", net, 0, payee)
  OBVIOUS
<1>6. PICK fee : fee = Tx("platform_fee", held.fee, 0, NoUser)
  OBVIOUS
<1>7. /\ release \in TxRow /\ release.type = "release"
      /\ release.amount = net /\ release.payee = payee
      /\ fee \in TxRow /\ fee.type = "platform_fee"
  <2>1. held.fee \in Nat
    BY DEF TxRow
  <2>2. /\ release \in TxRow /\ release.type = "release"
        /\ fee \in TxRow /\ fee.type = "platform_fee"
    BY <1>5, <1>6, <2>1, TxFacts DEF TxType
  <2> QED
    BY <1>5, <2>2 DEF Tx
<1>8. PICK paid \in Seq(TxRow) : paid = Append(txs[t], release)
  BY <1>1, <1>7, AppendFacts
<1>9. PICK s \in Seq(TxRow) : s = IF held.fee > 0 THEN Append(paid, fee) ELSE paid
  BY <1>7, <1>8, AppendFacts
<1>10. txs' = [txs EXCEPT ![t] = s]
  <2>1. txs[t] \o <<release>> = paid /\ txs[t] \o <<release, fee>> = Append(paid, fee)
    BY <1>1, <1>7, <1>8
  <2>2. txs' = [txs EXCEPT ![t] =
                  @ \o IF held.fee > 0 THEN <<release, fee>> ELSE <<release>>]
    BY <1>2, <1>3, <1>4, <1>5, <1>6 DEF ReleasePayment
  <2> QED
    BY <1>1, <1>9, <2>1, <2>2
<1>11. HeldBy(s) - HeldBy(txs[t]) = -net
  <2>1. Kept(release) = -net /\ Kept(fee) = 0
    BY <1>7 DEF Kept
  <2>2. HeldBy(paid) = HeldBy(txs[t]) + (-net) /\ HeldBy(txs[t]) \in Int
    BY <1>1, <1>7, <1>8, <2>1, HeldByFacts
  <2>3. HeldBy(Append(paid, fee)) = HeldBy(paid) + 0 /\ HeldBy(paid) \in Int
    BY <1>7, <2>1, HeldByFacts
  <2>4. HeldBy(s) = HeldBy(paid)
    BY <1>9, <2>3
  <2> QED
    BY <2>2, <2>4
<1>12. \A v \in Users :
          /\ EarnedBy(v, txs[t]) \in Int
          /\ EarnedBy(v, s) = EarnedBy(v, txs[t]) + (IF payee = v THEN net ELSE 0)
  <2>1. \A v \in Users :
          /\ EarnedBy(v, txs[t]) \in Int
          /\ EarnedBy(v, paid) = EarnedBy(v, txs[t]) + (IF payee = v THEN net ELSE 0)
    BY <1>1, <1>7, <1>8, EarnedByFacts
  <2>2. ASSUME NEW v \in Users PROVE EarnedBy(v, s) = EarnedBy(v, paid)
    <3>1. EarnedBy(v, Append(paid, fee)) = EarnedBy(v, paid) + 0 /\ EarnedBy(v, paid) \in Int
      BY <1>7, EarnedByFacts
    <3> QED
      BY <1>9, <3>1
  <2> QED
    BY <2>1, <2>2
<1>13. PICK w : w = AfterRelease(wallet[u], net)
  OBVIOUS
<1>14. PICK debited : debited = [wallet EXCEPT ![u] = w]
  OBVIOUS
<1>15. PICK x : x = AfterEarning(debited[payee], net)
  OBVIOUS
<1>16. CanRelease(wallet[u], net) /\ wallet' = [debited EXCEPT ![payee] = x]
  <2>1. debited = [wallet EXCEPT ![u] = AfterRelease(@, held.net)]
    BY <1>1, <1>4, <1>13, <1>14
  <2>2. /\ CanRelease(wallet[u], net)
        /\ wallet' = [debited EXCEPT ![payee] = AfterEarning(@, held.net)]
    BY <1>2, <1>3, <1>4, <2>1 DEF ReleasePayment
  <2> QED
    BY <1>1, <1>4, <1>14, <1>15, <2>2
<1>17. /\ w \in WalletRow
       /\ w.balance = wallet[u].balance /\ w.escrow = wallet[u].escrow - net
       /\ w.deposited = wallet[u].deposited
       /\ w.withdrawn = wallet[u].withdrawn /\ w.earned = wallet[u].earned
  BY <1>1, <1>13, <1>16, ReleaseFacts
<1>18. debited \in [Users -> WalletRow] /\ debited[payee] \in WalletRow
  BY <1>1, <1>14, <1>17
<1>19. /\ x \in WalletRow
       /\ x.balance = debited[payee].balance + net /\ x.escrow = debited[payee].escrow
       /\ x.deposited = debited[payee].deposited
       /\ x.withdrawn = debited[payee].withdrawn /\ x.earned = debited[payee].earned + net
  BY <1>15, <1>18, EarningFacts
<1>20. Cash(wallet') = PaidIn(wallet')
  <2>1. /\ Cash(wallet) \in Int /\ PaidIn(wallet) \in Int
        /\ Cash(debited) = Cash(wallet) + (w.balance + w.escrow)
                                        - (wallet[u].balance + wallet[u].escrow)
        /\ PaidIn(debited) = PaidIn(wallet) + (w.deposited - w.withdrawn)
                                            - (wallet[u].deposited - wallet[u].withdrawn)
    BY <1>1, <1>14, <1>17, CashChange
  <2>2. /\ Cash(wallet') = Cash(debited) + (x.balance + x.escrow)
                             - (debited[payee].balance + debited[payee].escrow)
        /\ PaidIn(wallet') = PaidIn(debited) + (x.deposited - x.withdrawn)
                             - (debited[payee].deposited - debited[payee].withdrawn)
    BY <1>16, <1>18, <1>19, CashChange
  <2>3. Cash(debited) = Cash(wallet) - net /\ PaidIn(debited) = PaidIn(wallet)
    <3>1. /\ wallet[u].balance \in Int /\ wallet[u].escrow \in Int
          /\ wallet[u].deposited \in Int /\ wallet[u].withdrawn \in Int
      BY <1>1, RowIsNumbers
    <3>2. PICK b, e, d, r : /\ b = wallet[u].balance /\ e = wallet[u].escrow
                            /\ d = wallet[u].deposited /\ r = wallet[u].withdrawn
      OBVIOUS
    <3>3. /\ w.deposited = d /\ w.withdrawn = r
          /\ (w.balance + w.escrow) - (b + e) = -net
      BY <1>17, <3>1, <3>2
    <3> QED
      BY <1>17, <2>1, <3>1, <3>2, <3>3
  <2>4. Cash(wallet') = Cash(debited) + net /\ PaidIn(wallet') = PaidIn(debited)
    <3>1. /\ debited[payee].balance \in Int /\ debited[payee].escrow \in Int
          /\ debited[payee].deposited \in Int /\ debited[payee].withdrawn \in Int
      BY <1>18, RowIsNumbers
    <3>2. Cash(debited) \in Int /\ PaidIn(debited) \in Int
      BY <2>1, <2>3
    <3>3. PICK c \in Int : c = debited[payee].balance + debited[payee].escrow
      BY <3>1
    <3>4. PICK p \in Int : p = debited[payee].deposited - debited[payee].withdrawn
      BY <3>1
    <3>5. x.balance + x.escrow = c + net /\ x.deposited - x.withdrawn = p
      BY <1>19, <3>1, <3>3, <3>4
    <3>6. Cash(wallet') = Cash(debited) + (c + net) - c /\ PaidIn(wallet') = PaidIn(debited) + p - p
      BY <2>2, <3>3, <3>4, <3>5
    <3> QED
      BY <3>2, <3>6
  <2>5. Cash(wallet) = PaidIn(wallet)
    BY DEF BInv, BooksAgree
  <2> QED
    BY <2>1, <2>3, <2>4, <2>5
<1>21. Owned' /\ \A v \in Tasks : task'[v].requester = task[v].requester
  BY <1>1, <1>10, StatusOwned DEF ReleasePayment, Exists, TaskStatus
<1>22. /\ \A v \in Users : debited[v].escrow =
              wallet[v].escrow + (IF u = v THEN -net ELSE 0)
       /\ \A v \in Users : debited[v].earned = wallet[v].earned
  <2>1. \A v \in Users : wallet[v].escrow \in Int /\ (v # u => debited[v] = wallet[v])
    BY <1>1, <1>14, RowIsNumbers
  <2>2. debited[u] = w
    BY <1>1, <1>14
  <2> QED
    BY <1>17, <2>1, <2>2
<1>23. /\ \A v \in Users : wallet'[v].escrow = debited[v].escrow
       /\ \A v \in Users : wallet'[v].earned =
              debited[v].earned + (IF payee = v THEN net ELSE 0)
  <2>1. \A v \in Users : debited[v].earned \in Int /\ (v # payee => wallet'[v] = debited[v])
    BY <1>16, <1>18, RowIsNumbers
  <2>2. wallet'[payee] = x
    BY <1>16, <1>18
  <2> QED
    BY <1>19, <2>1, <2>2
<1>24. \A v \in Users : wallet'[v].escrow = wallet[v].escrow +
               (IF task[t].requester = v THEN HeldBy(s) - HeldBy(txs[t]) ELSE 0)
  <2>1. task[t].requester = u
    BY DEF ReleasePayment
  <2> QED
    BY <1>11, <1>22, <1>23, <2>1
<1>25. \A v \in Users : wallet'[v].earned =
               wallet[v].earned + EarnedBy(v, s) - EarnedBy(v, txs[t])
  <2>1. \A v \in Users : wallet[v].earned \in Int
    BY <1>1 DEF WalletRow
  <2> QED
    BY <1>12, <1>22, <1>23, <2>1
<1> QED
  BY <1>10, <1>20, <1>21, <1>24, <1>25, PaymentBooks

LEMMA ReleaseAgainBooks ==
    ASSUME BInv, NEW t \in Tasks, NEW u \in Users, ReleaseAgain(t, u)
    PROVE  Owned' /\ BooksAgree(wallet, task, txs)'
<1>1. UNCHANGED <<wallet, txs, slot>>
  BY DEF ReleaseAgain
<1>2. Owned' /\ \A v \in Tasks : task'[v].requester = task[v].requester
  BY <1>1, StatusOwned DEF ReleaseAgain, Exists, TaskStatus
<1>3. txs \in [Tasks -> Seq(TxRow)]
  BY DEF BInv, IInv, TypeOK
<1>4. \A u1 \in Users : HeldFor(u1, task', txs) = HeldFor(u1, task, txs)
  BY <1>2, <1>3, HeldForOwner
<1> QED
  BY <1>1, <1>2, <1>4 DEF BInv, BooksAgree

(* A step of a handler: the books do not see it.                           *)
LEMMA HandlerBooks ==
    ASSUME BInv, NEW h \in Handlers, NEW s, slot' = [slot EXCEPT ![h] = s],
           UNCHANGED <<wallet, txs>>, Keeps(s, task'),
           \A v \in Tasks : Exists(task, v) =>
               Exists(task', v) /\ task'[v].requester = task[v].requester
    PROVE  Owned' /\ BooksAgree(wallet, task, txs)'
<1>1. \A v \in Tasks : ~Exists(task', v) => txs'[v] = <<>>
  BY DEF BInv, Owned
<1>2. ASSUME NEW g \in Handlers PROVE Keeps(slot'[g], task')
  <2>1. CASE g = h
    BY <2>1 DEF BInv, IInv, TypeOK
  <2>2. CASE g # h
    <3>1. slot'[g] = slot[g] /\ Keeps(slot[g], task)
      BY <2>2 DEF BInv, IInv, TypeOK, Owned
    <3> QED
      BY <3>1 DEF Keeps, Exists
  <2> QED
    BY <2>1, <2>2
<1>3. \A v \in Tasks : task'[v].requester = task[v].requester \/ txs[v] = <<>>
  BY DEF BInv, Owned
<1>4. txs \in [Tasks -> Seq(TxRow)]
  BY DEF BInv, IInv, TypeOK
<1>5. \A u \in Users : HeldFor(u, task', txs) = HeldFor(u, task, txs)
  BY <1>3, <1>4, HeldForOwner
<1> QED
  BY <1>1, <1>2, <1>5 DEF BInv, BooksAgree, Owned

LEMMA TaskStepBooks ==
    ASSUME BInv, NEW h \in Handlers, TaskStep(h)
    PROVE  Owned' /\ BooksAgree(wallet, task, txs)'
<1>1. /\ Keeps(slot[h], task) /\ slot[h] \in Slot
      /\ task \in [Tasks -> TaskRow]
  BY DEF BInv, Owned, IInv, TypeOK
<1>2. ASSUME NEW s, slot' = [slot EXCEPT ![h] = s],
             Keeps(s, task), UNCHANGED <<wallet, task, txs>>
      PROVE  Owned' /\ BooksAgree(wallet, task, txs)'
  BY <1>2, HandlerBooks
<1>3. Keeps(Idle, task) /\ Keeps(Idle, task')
  BY DEF Keeps, Idle
<1>4. ASSUME NEW u \in Users, NEW price \in Prices, CreateTask(h, u, price)
      PROVE  Owned' /\ BooksAgree(wallet, task, txs)'
  <2>1. Keeps([op |-> "create", task |-> NoTask, user |-> u, price |-> price], task)
    BY DEF Keeps
  <2> QED
    BY <1>2, <1>4, <2>1 DEF CreateTask, Goto
<1>5. ASSUME NEW t \in Tasks, CreateTaskInsert(h, t)
      PROVE  Owned' /\ BooksAgree(wallet, task, txs)'
  <2>1. \A v \in Tasks : Exists(task, v) => task'[v] = task[v]
    BY <1>1, <1>5 DEF CreateTaskInsert, Exists, NoTaskRow
  <2>2. \A v \in Tasks : Exists(task, v) =>
            Exists(task', v) /\ task'[v].requester = task[v].requester
    BY <2>1 DEF Exists
  <2> QED
    BY <1>3, <1>5, <2>2, HandlerBooks DEF CreateTaskInsert, Goto
<1>6. ASSUME NEW u \in Users, NEW t \in Tasks, NEW price \in Prices,
             UpdateTask(h, u, t, price)
      PROVE  Owned' /\ BooksAgree(wallet, task, txs)'
  <2>1. Keeps([op |-> "reprice", task |-> t, row |-> task[t], price |-> price], task)
    BY <1>6 DEF UpdateTask, Keeps, Exists
  <2> QED
    BY <1>2, <1>6, <2>1 DEF UpdateTask, Goto
<1>7. ASSUME UpdateTaskCheck(h) PROVE Owned' /\ BooksAgree(wallet, task, txs)'
  <2>1. PICK row \in TaskRow : row = slot[h].row
    BY <1>1, <1>7, SlotFacts DEF UpdateTaskCheck
  <2>2. PICK saved : saved = [row EXCEPT !.price = slot[h].price]
    OBVIOUS
  <2>3. saved.status = row.status /\ saved.requester = row.requester
    BY <2>2 DEF TaskRow
  <2>4. Keeps([op |-> "update", task |-> slot[h].task, row |-> saved], task)
    BY <1>1, <1>7, <2>1, <2>3 DEF UpdateTaskCheck, Keeps
  <2> QED
    BY <1>2, <1>7, <2>1, <2>2, <2>4 DEF UpdateTaskCheck, Goto
<1>8. ASSUME SaveTask(h) PROVE Owned' /\ BooksAgree(wallet, task, txs)'
  <2>1. \A v \in Tasks : Exists(task, v) =>
            Exists(task', v) /\ task'[v].requester = task[v].requester
    BY <1>1, <1>8 DEF SaveTask, Keeps, Exists
  <2>2. Keeps(AfterSave(slot[h]), task')
    BY <1>3, <1>8 DEF SaveTask, AfterSave, Keeps
  <2> QED
    BY <1>8, <2>1, <2>2, HandlerBooks DEF SaveTask, Goto
<1>9. ASSUME NEW u \in Users, NEW t \in Tasks, NEW price \in Offers,
             ApplyForTask(h, u, t, price)
      PROVE  Owned' /\ BooksAgree(wallet, task, txs)'
  <2>1. Keeps([op |-> "apply", task |-> t, user |-> u, price |-> price], task)
    BY <1>9 DEF ApplyForTask, Keeps, Exists
  <2> QED
    BY <1>2, <1>9, <2>1 DEF ApplyForTask, Goto
<1>10. ASSUME NEW a \in Apps, ApplyInsert(h, a)
       PROVE  Owned' /\ BooksAgree(wallet, task, txs)'
  BY <1>2, <1>3, <1>10 DEF ApplyInsert, Goto
<1>11. ASSUME NEW u \in Users, NEW a \in Apps, AcceptApplication(h, u, a)
       PROVE  Owned' /\ BooksAgree(wallet, task, txs)'
  <2>1. Keeps([op |-> "accept", task |-> app[a].task, app |-> a], task)
    BY <1>11 DEF AcceptApplication, Keeps, Exists
  <2> QED
    BY <1>2, <1>11, <2>1 DEF AcceptApplication, Goto
<1>12. ASSUME AcceptMark(h) PROVE Owned' /\ BooksAgree(wallet, task, txs)'
  <2>1. PICK s : s = [slot[h] EXCEPT !.op = "assign"]
    OBVIOUS
  <2>2. s.op = "assign" /\ s.task = slot[h].task
    BY <1>1, <1>12, <2>1 DEF AcceptMark, Slot, Idle
  <2>3. Keeps(s, task)
    BY <1>1, <1>12, <2>2 DEF AcceptMark, Keeps
  <2> QED
    BY <1>2, <1>12, <2>1, <2>3 DEF AcceptMark, Goto
<1>13. ASSUME AssignTasker(h) PROVE Owned' /\ BooksAgree(wallet, task, txs)'
  <2>1. PICK t \in Tasks : t = slot[h].task /\ Exists(task, t)
    BY <1>1, <1>13 DEF AssignTasker, Keeps, Exists
  <2>2. PICK row : row = [task[t] EXCEPT !.tasker = app[slot[h].app].tasker]
    OBVIOUS
  <2>3. row.status = task[t].status /\ row.requester = task[t].requester
    BY <1>1, <2>2 DEF TaskRow
  <2>4. Keeps([op |-> "save", task |-> t, app |-> slot[h].app, row |-> row], task)
    BY <2>1, <2>3 DEF Keeps, Exists
  <2> QED
    BY <1>2, <1>13, <2>1, <2>2, <2>4 DEF AssignTasker, Goto
<1>14. ASSUME NEW u \in Users, NEW t \in Tasks, DeleteTask(h, u, t)
       PROVE  Owned' /\ BooksAgree(wallet, task, txs)'
  <2>1. PICK row : row = [task[t] EXCEPT !.status = "cancelled"]
    OBVIOUS
  <2>2. row.status = "cancelled" /\ row.requester = task[t].requester
    BY <1>1, <2>1 DEF TaskRow
  <2>3. \A o : Keeps([op |-> "delete", task |-> t, row |-> row, others |-> o], task)
    BY <1>14, <2>2 DEF DeleteTask, Keeps, Exists
  <2> QED
    BY <1>2, <1>14, <2>1, <2>3 DEF DeleteTask, Goto
<1>15. ASSUME ListOthers(h) PROVE Owned' /\ BooksAgree(wallet, task, txs)'
  <2>1. \A t, o : Keeps([op |-> "reject", task |-> t, others |-> o], task)
    BY DEF Keeps
  <2> QED
    BY <1>2, <1>15, <2>1 DEF ListOthers, Goto
<1>16. ASSUME NEW a \in Apps, RejectOther(h, a)
       PROVE  Owned' /\ BooksAgree(wallet, task, txs)'
  <2>1. PICK s : s = [slot[h] EXCEPT !.others = @ \ {a}]
    OBVIOUS
  <2>2. s.op = "reject"
    BY <1>1, <1>16, <2>1 DEF RejectOther, Slot, Idle
  <2>3. Keeps(s, task)
    BY <2>2 DEF Keeps
  <2> QED
    BY <1>2, <1>16, <2>1, <2>3 DEF RejectOther, Goto
<1>17. ASSUME AcceptDone(h) \/ Abandon(h)
       PROVE  Owned' /\ BooksAgree(wallet, task, txs)'
  BY <1>2, <1>3, <1>17 DEF AcceptDone, Abandon, Goto
<1> QED
  BY <1>4, <1>5, <1>6, <1>7, <1>8, <1>9, <1>10, <1>11, <1>12, <1>13, <1>14,
     <1>15, <1>16, <1>17 DEF TaskStep, Arrive, Continue

LEMMA BooksInvariance == Spec => []BInv
<1>1. Init => BInv
  BY InitIInv, InitBooks DEF BInv
<1>2. ASSUME BInv, [Next]_vars PROVE BInv'
  <2>1. IInv'
    BY <1>2, NextIInv DEF BInv
  <2>2. Owned' /\ BooksAgree(wallet, task, txs)'
    <3>1. CASE WalletStep
      BY <1>2, <3>1, WalletStepBooks DEF WalletStep
    <3>2. CASE PaymentStep
      BY <1>2, <3>2, CreateEscrowPaymentBooks, ReleasePaymentBooks, ReleaseAgainBooks,
         RefundPaymentBooks DEF PaymentStep
    <3>3. CASE \E h \in Handlers : TaskStep(h)
      BY <1>2, <3>3, TaskStepBooks
    <3>4. CASE UNCHANGED vars
      BY <1>2, <3>4 DEF vars, BInv, Owned
    <3> QED
      BY <1>2, <3>1, <3>2, <3>3, <3>4 DEF Next
  <2> QED
    BY <2>1, <2>2 DEF BInv
<1> QED
  BY <1>1, <1>2, PTL DEF Spec

(* No interleaving of payments, deposits, withdrawals and stale saves      *)
(* creates or destroys money.                                              *)
THEOREM ConservationHolds == Spec => []Conservation
<1>1. BInv => Conservation
  BY BooksAgreeIsProperties DEF BInv
<1> QED
  BY <1>1, BooksInvariance, PTL

(* What a user's wallet holds in escrow is what the transactions of the    *)
(* user's tasks say is held.                                               *)
THEOREM EscrowBackedHolds == Spec => []EscrowBacked
<1>1. BInv => EscrowBacked
  BY BooksAgreeIsProperties DEF BInv
<1> QED
  BY <1>1, BooksInvariance, PTL

(* What a user has earned is what the transactions released to the user.   *)
THEOREM EarningsBackedHolds == Spec => []EarningsBacked
<1>1. BInv => EarningsBacked
  BY BooksAgreeIsProperties DEF BInv
<1> QED
  BY <1>1, BooksInvariance, PTL

-----------------------------------------------------------------------------
(* Hiring.                                                                 *)

Decided == {"accepted", "rejected"}

(* A user has applied for a task, and some request has decided about it.   *)
Applied(u, t, A) ==
    \E a \in Apps : A[a].task = t /\ A[a].tasker = u /\ A[a].status \in Decided

(* Applicants apply for tasks of others, and whoever is the tasker has     *)
(* applied.                                                                *)
RowsHire(T, A) ==
    /\ \A a \in Apps : A[a].task \in Tasks =>
          /\ Exists(T, A[a].task)
          /\ A[a].tasker \in Users /\ A[a].tasker # T[A[a].task].requester
    /\ \A t \in Tasks : T[t].tasker # NoUser => Applied(T[t].tasker, t, A)

(* What a handler holds is about applicants of its task.                   *)
Hires(s, T, A) ==
    /\ s.op = "apply" => s.user # T[s.task].requester
    /\ s.op \in {"accept", "assign", "save", "list"} => A[s.app].task = s.task
    /\ s.op \in {"assign", "save", "list"} => A[s.app].status \in Decided
    /\ s.op \in {"reprice", "update", "save"} =>
          s.row.tasker = NoUser \/ Applied(s.row.tasker, s.task, A)
    /\ s.op = "reject" => \A b \in s.others : A[b].task = s.task

(* A tasker was chosen for a task: a handler has marked an application, or *)
(* a row with a tasker is stored or about to be.                           *)
HiredBy(s, t) ==
    \/ s.op \in {"assign", "save", "list", "reject"} /\ s.task = t
    \/ s.op \in {"reprice", "update"} /\ s.task = t /\ s.row.tasker # NoUser

Hired(t, T, S) == T[t].tasker # NoUser \/ \E h \in Handlers : HiredBy(S[h], t)

(* An accepted application that no request in flight goes on to reject: it *)
(* stays accepted, because only pending applications are listed.           *)
Certain(t, A, S) ==
    \E a \in Apps : /\ A[a].task = t /\ A[a].status = "accepted"
                    /\ \A h \in Handlers : S[h].op = "reject" => a \notin S[h].others

HInv ==
    /\ RowsHire(task, app)
    /\ \A h \in Handlers : Hires(slot[h], task, app)
    /\ \A t \in Tasks : Hired(t, task, slot) => Certain(t, app, slot)

LEMMA InitHInv == Init => HInv
  BY NilAssumption
     DEF Init, HInv, RowsHire, Hires, Hired, HiredBy, Idle, NoTaskRow, NoAppRow

LEMMA HInvIsTaskerWasAccepted ==
    ASSUME HInv
    PROVE  TaskerWasAccepted
<1> SUFFICES ASSUME NEW t \in Tasks, task[t].tasker # NoUser
             PROVE  /\ task[t].tasker # task[t].requester
                    /\ \E a \in Apps : /\ app[a].task = t
                                       /\ app[a].tasker = task[t].tasker
                                       /\ app[a].status \in {"accepted", "rejected"}
                    /\ \E a \in Apps : app[a].task = t /\ app[a].status = "accepted"
  BY DEF TaskerWasAccepted
<1>1. PICK a \in Apps : /\ app[a].task = t /\ app[a].tasker = task[t].tasker
                       /\ app[a].status \in Decided
  BY DEF HInv, RowsHire, Applied
<1>2. app[a].tasker # task[t].requester
  BY <1>1 DEF HInv, RowsHire
<1>3. \E b \in Apps : app[b].task = t /\ app[b].status = "accepted"
  BY DEF HInv, Hired, Certain
<1> QED
  BY <1>1, <1>2, <1>3 DEF Decided

(* Task rows keep their requester, and application rows their task and     *)
(* applicant; a decision is never undone.                                  *)
TasksGrow(T, V) ==
    \A t \in Tasks : Exists(T, t) =>
        Exists(V, t) /\ V[t].requester = T[t].requester

AppsGrow(A, B) ==
    \A a \in Apps :
        /\ A[a].task \in Tasks => B[a].task = A[a].task /\ B[a].tasker = A[a].tasker
        /\ A[a].status \in Decided => B[a].status \in Decided

LEMMA AppliedStays ==
    ASSUME NEW A, NEW B, AppsGrow(A, B), NEW t \in Tasks, NEW u, Applied(u, t, A)
    PROVE  Applied(u, t, B)
  BY DEF AppsGrow, Applied

LEMMA HiresStays ==
    ASSUME NEW T, NEW V, TasksGrow(T, V), NEW A, NEW B, AppsGrow(A, B),
           NEW s \in Slot, Keeps(s, T), Hires(s, T, A)
    PROVE  Hires(s, V, B)
<1>1. s.op = "apply" => s.user # V[s.task].requester
  BY DEF Hires, Keeps, Exists, TasksGrow
<1>2. s.op \in {"accept", "assign", "save", "list"} => B[s.app].task = s.task
  BY SlotFacts DEF Hires, AppsGrow
<1>3. s.op \in {"assign", "save", "list"} => B[s.app].status \in Decided
  BY SlotFacts DEF Hires, AppsGrow
<1>4. s.op \in {"reprice", "update", "save"} =>
          s.row.tasker = NoUser \/ Applied(s.row.tasker, s.task, B)
  BY SlotFacts, AppliedStays DEF Hires
<1>5. s.op = "reject" => \A b \in s.others : B[b].task = s.task
  BY SlotFacts DEF Hires, AppsGrow
<1> QED
  BY <1>1, <1>2, <1>3, <1>4, <1>5 DEF Hires

(* Only creating and saving write a task row.                              *)
LEMMA TaskStepGrows ==
    ASSUME BInv, NEW h \in Handlers, TaskStep(h)
    PROVE  TasksGrow(task, task')
<1>1. Keeps(slot[h], task) /\ task \in [Tasks -> TaskRow]
  BY DEF BInv, Owned, IInv, TypeOK
<1>2. CASE \E t \in Tasks : CreateTaskInsert(h, t)
  BY <1>1, <1>2 DEF CreateTaskInsert, TasksGrow, Exists, NoTaskRow
<1>3. CASE SaveTask(h)
  BY <1>1, <1>3 DEF SaveTask, Keeps, TasksGrow, Exists
<1>4. CASE UNCHANGED task
  BY <1>4 DEF TasksGrow, Exists
<1>5. \/ \E t \in Tasks : CreateTaskInsert(h, t)
      \/ SaveTask(h)
      \/ UNCHANGED task
  BY DEF TaskStep, Arrive, Continue, CreateTask, UpdateTask, UpdateTaskCheck, ApplyForTask,
     ApplyInsert, AcceptApplication, AcceptMark, AssignTasker, DeleteTask, ListOthers,
     RejectOther, AcceptDone, Abandon
<1> QED
  BY <1>2, <1>3, <1>4, <1>5

(* A handler h goes from slot[h] to s.  An accepted application stays so   *)
(* unless h is rejecting it, and h lists only pending ones to reject.      *)
LEMMA CertainStays ==
    ASSUME slot \in [Handlers -> Slot], NEW h \in Handlers, NEW s,
           slot' = [slot EXCEPT ![h] = s],
           s.op = "reject" => \A b \in s.others :
               app[b].status = "pending" \/ (slot[h].op = "reject" /\ b \in slot[h].others),
           \A a \in Apps : app[a].task \in Tasks /\ app[a].status = "accepted" =>
               \/ app'[a].task = app[a].task /\ app'[a].status = "accepted"
               \/ slot[h].op = "reject" /\ a \in slot[h].others,
           NEW t \in Tasks, Certain(t, app, slot)
    PROVE  Certain(t, app', slot')
<1>1. PICK a \in Apps :
         /\ app[a].task = t /\ app[a].status = "accepted"
         /\ \A g \in Handlers : slot[g].op = "reject" => a \notin slot[g].others
  BY DEF Certain
<1>2. app'[a].task = t /\ app'[a].status = "accepted"
  BY <1>1
<1>3. ASSUME NEW g \in Handlers, slot'[g].op = "reject" PROVE a \notin slot'[g].others
  <2>1. CASE g = h
    BY <1>1, <1>3, <2>1
  <2>2. CASE g # h
    BY <1>1, <1>3, <2>2
  <2> QED
    BY <2>1, <2>2
<1> QED
  BY <1>2, <1>3 DEF Certain

(* A step of a handler keeps the hiring invariant if what it writes and    *)
(* holds agrees, and a tasker is chosen only where one was or where there  *)
(* is a certain application.                                               *)
LEMMA HandlerHires ==
    ASSUME BInv, HInv, NEW h \in Handlers, NEW s, slot' = [slot EXCEPT ![h] = s],
           TasksGrow(task, task'), AppsGrow(app, app'),
           RowsHire(task', app'), Hires(s, task', app'),
           s.op = "reject" => \A b \in s.others :
               app[b].status = "pending" \/ (slot[h].op = "reject" /\ b \in slot[h].others),
           \A a \in Apps : app[a].task \in Tasks /\ app[a].status = "accepted" =>
               \/ app'[a].task = app[a].task /\ app'[a].status = "accepted"
               \/ slot[h].op = "reject" /\ a \in slot[h].others,
           \A t \in Tasks : HiredBy(s, t) \/ task'[t].tasker # NoUser =>
               \/ task[t].tasker # NoUser \/ HiredBy(slot[h], t)
               \/ Certain(t, app', slot')
    PROVE  HInv'
<1>1. slot \in [Handlers -> Slot]
  BY DEF BInv, IInv, TypeOK
<1>2. ASSUME NEW g \in Handlers PROVE Hires(slot'[g], task', app')
  <2>1. CASE g = h
    BY <1>1, <2>1
  <2>2. CASE g # h
    <3>1. slot'[g] = slot[g] /\ slot[g] \in Slot
      BY <1>1, <2>2
    <3>2. Keeps(slot[g], task) /\ Hires(slot[g], task, app)
      BY DEF BInv, Owned, HInv
    <3>3. PICK z \in Slot : z = slot[g]
      BY <3>1
    <3>4. Hires(z, task', app')
      BY <3>2, <3>3, HiresStays
    <3> QED
      BY <3>1, <3>3, <3>4
  <2> QED
    BY <2>1, <2>2
<1>3. ASSUME NEW t \in Tasks, Hired(t, task', slot') PROVE Certain(t, app', slot')
  <2>1. Hired(t, task, slot) \/ Certain(t, app', slot')
    <3>1. CASE task'[t].tasker # NoUser
      BY <3>1 DEF Hired
    <3>2. ASSUME NEW g \in Handlers, HiredBy(slot'[g], t)
          PROVE  Hired(t, task, slot) \/ Certain(t, app', slot')
      <4>1. CASE g = h
        BY <1>1, <3>2, <4>1 DEF Hired
      <4>2. CASE g # h
        <5>1. slot'[g] = slot[g]
          BY <1>1, <4>2
        <5> QED
          BY <3>2, <5>1 DEF Hired
      <4> QED
        BY <4>1, <4>2
    <3> QED
      BY <1>3, <3>1, <3>2 DEF Hired
  <2>2. ASSUME Certain(t, app, slot) PROVE Certain(t, app', slot')
    BY <1>1, <2>2, CertainStays
  <2> QED
    BY <2>1, <2>2 DEF HInv
<1> QED
  BY <1>2, <1>3 DEF HInv

(* A handler that writes nothing.                                          *)
LEMMA ReadHires ==
    ASSUME BInv, HInv, NEW h \in Handlers, NEW s, slot' = [slot EXCEPT ![h] = s],
           UNCHANGED <<task, app>>, Hires(s, task, app),
           s.op = "reject" => \A b \in s.others :
               app[b].status = "pending" \/ (slot[h].op = "reject" /\ b \in slot[h].others),
           \A t \in Tasks : HiredBy(s, t) =>
               task[t].tasker # NoUser \/ HiredBy(slot[h], t)
    PROVE  HInv'
<1>1. TasksGrow(task, task') /\ AppsGrow(app, app')
  BY DEF TasksGrow, AppsGrow, Exists
<1>2. RowsHire(task', app') /\ Hires(s, task', app')
  BY DEF HInv
<1> QED
  BY <1>1, <1>2, HandlerHires

(* The steps that only read.                                               *)
LEMMA RequestsHire ==
    ASSUME BInv, HInv, NEW h \in Handlers, Arrive(h)
    PROVE  HInv'
<1>1. task \in [Tasks -> TaskRow]
  BY DEF BInv, IInv, TypeOK
<1>2. ASSUME NEW u \in Users, NEW price \in Prices, CreateTask(h, u, price)
      PROVE  HInv'
  <2>1. PICK s : s = [op |-> "create", task |-> NoTask, user |-> u, price |-> price]
    OBVIOUS
  <2>2. Hires(s, task, app) /\ \A t \in Tasks : ~HiredBy(s, t)
    BY <2>1 DEF Hires, HiredBy
  <2>3. s.op # "reject"
    BY <2>1
  <2> QED
    BY <1>2, <2>1, <2>2, <2>3, ReadHires DEF CreateTask, Goto
<1>3. ASSUME NEW u \in Users, NEW t \in Tasks, NEW price \in Prices,
             UpdateTask(h, u, t, price)
      PROVE  HInv'
  <2>1. PICK s : s = [op |-> "reprice", task |-> t, row |-> task[t], price |-> price]
    OBVIOUS
  <2>2. task[t].tasker = NoUser \/ Applied(task[t].tasker, t, app)
    BY DEF HInv, RowsHire
  <2>3. Hires(s, task, app) /\ \A v \in Tasks : HiredBy(s, v) => task[v].tasker # NoUser
    BY <2>1, <2>2 DEF Hires, HiredBy
  <2>4. s.op # "reject"
    BY <2>1
  <2> QED
    BY <1>3, <2>1, <2>3, <2>4, ReadHires DEF UpdateTask, Goto
<1>4. ASSUME NEW u \in Users, NEW t \in Tasks, NEW price \in Offers,
             ApplyForTask(h, u, t, price)
      PROVE  HInv'
  <2>1. PICK s : s = [op |-> "apply", task |-> t, user |-> u, price |-> price]
    OBVIOUS
  <2>2. Hires(s, task, app) /\ \A v \in Tasks : ~HiredBy(s, v)
    BY <1>4, <2>1 DEF ApplyForTask, Hires, HiredBy
  <2>3. s.op # "reject"
    BY <2>1
  <2> QED
    BY <1>4, <2>1, <2>2, <2>3, ReadHires DEF ApplyForTask, Goto
<1>5. ASSUME NEW u \in Users, NEW a \in Apps, AcceptApplication(h, u, a)
      PROVE  HInv'
  <2>1. PICK s : s = [op |-> "accept", task |-> app[a].task, app |-> a]
    OBVIOUS
  <2>2. Hires(s, task, app) /\ \A v \in Tasks : ~HiredBy(s, v)
    BY <2>1 DEF Hires, HiredBy
  <2>3. s.op # "reject"
    BY <2>1
  <2> QED
    BY <1>5, <2>1, <2>2, <2>3, ReadHires DEF AcceptApplication, Goto
<1>6. ASSUME NEW u \in Users, NEW t \in Tasks, DeleteTask(h, u, t)
      PROVE  HInv'
  <2>1. PICK s : s = [op |-> "delete", task |-> t,
                      row |-> [task[t] EXCEPT !.status = "cancelled"],
                      others |-> {a \in {b \in Apps : app[b].task = t} :
                                    app[a].status = "pending"}]
    OBVIOUS
  <2>2. s.op = "delete"
    BY <2>1
  <2>3. Hires(s, task, app) /\ \A v \in Tasks : ~HiredBy(s, v)
    BY <2>2 DEF Hires, HiredBy
  <2>4. slot' = [slot EXCEPT ![h] = s] /\ UNCHANGED <<task, app>>
    BY <1>6, <2>1 DEF DeleteTask, Goto
  <2> QED
    BY <2>2, <2>3, <2>4, ReadHires
<1> QED
  BY <1>2, <1>3, <1>4, <1>5, <1>6 DEF Arrive

LEMMA IdleHires ==
    /\ \A T, A : Hires(Idle, T, A)
    /\ Idle.op = "idle"
    /\ \A t : ~HiredBy(Idle, t)
  BY DEF Hires, HiredBy, Idle

LEMMA ReadsHire ==
    ASSUME BInv, HInv, NEW h \in Handlers,
           \/ UpdateTaskCheck(h) \/ AssignTasker(h) \/ ListOthers(h)
           \/ AcceptDone(h) \/ Abandon(h)
    PROVE  HInv'
<1>1. /\ task \in [Tasks -> TaskRow] /\ slot[h] \in Slot
      /\ Hires(slot[h], task, app)
  BY DEF BInv, IInv, TypeOK, HInv
<1>2. ASSUME UpdateTaskCheck(h) PROVE HInv'
  <2>1. PICK row \in TaskRow : row = slot[h].row
    BY <1>1, <1>2, SlotFacts DEF UpdateTaskCheck
  <2>2. PICK saved : saved = [row EXCEPT !.price = slot[h].price]
    OBVIOUS
  <2>3. saved.tasker = row.tasker
    BY <2>2 DEF TaskRow
  <2>4. PICK s : s = [op |-> "update", task |-> slot[h].task, row |-> saved]
    OBVIOUS
  <2>5. slot[h].op = "reprice" /\ slot' = [slot EXCEPT ![h] = s] /\ UNCHANGED <<task, app>>
    BY <1>2, <2>1, <2>2, <2>4 DEF UpdateTaskCheck, Goto
  <2>6. s.op = "update" /\ s.task = slot[h].task /\ s.row = saved
    BY <2>4
  <2>7. Hires(s, task, app) /\ \A t \in Tasks : HiredBy(s, t) => HiredBy(slot[h], t)
    BY <1>1, <2>1, <2>3, <2>5, <2>6 DEF Hires, HiredBy
  <2> QED
    BY <2>5, <2>6, <2>7, ReadHires
<1>3. ASSUME AssignTasker(h) PROVE HInv'
  <2>1. PICK t \in Tasks, a \in Apps : t = slot[h].task /\ a = slot[h].app
    BY <1>1, <1>3, SlotFacts DEF AssignTasker
  <2>2. PICK row : row = [task[t] EXCEPT !.tasker = app[a].tasker]
    OBVIOUS
  <2>3. row.tasker = app[a].tasker
    BY <1>1, <2>2 DEF TaskRow
  <2>4. PICK s : s = [op |-> "save", task |-> t, app |-> a, row |-> row]
    OBVIOUS
  <2>5. slot[h].op = "assign" /\ slot' = [slot EXCEPT ![h] = s] /\ UNCHANGED <<task, app>>
    BY <1>3, <2>1, <2>2, <2>4 DEF AssignTasker, Goto
  <2>6. s.op = "save" /\ s.task = t /\ s.row = row /\ s.app = a
    BY <2>4
  <2>7. app[a].task = t /\ app[a].status \in Decided
    BY <1>1, <2>1, <2>5 DEF Hires
  <2>8. Hires(s, task, app) /\ \A v \in Tasks : HiredBy(s, v) => HiredBy(slot[h], v)
    BY <2>1, <2>3, <2>5, <2>6, <2>7 DEF Hires, HiredBy, Applied
  <2> QED
    BY <2>5, <2>6, <2>8, ReadHires
<1>4. ASSUME ListOthers(h) PROVE HInv'
  <2>1. PICK s : s = [op |-> "reject", task |-> slot[h].task,
                      others |-> {a \in Apps \ {slot[h].app} :
                         app[a].task = slot[h].task /\ app[a].status = "pending"}]
    OBVIOUS
  <2>2. slot[h].op = "list" /\ slot' = [slot EXCEPT ![h] = s] /\ UNCHANGED <<task, app>>
    BY <1>4, <2>1 DEF ListOthers, Goto
  <2>3. /\ s.op = "reject" /\ s.task = slot[h].task
        /\ \A b \in s.others : app[b].task = s.task /\ app[b].status = "pending"
    BY <2>1
  <2>4. Hires(s, task, app) /\ \A v \in Tasks : HiredBy(s, v) => HiredBy(slot[h], v)
    BY <2>2, <2>3 DEF Hires, HiredBy
  <2> QED
    BY <2>2, <2>3, <2>4, ReadHires
<1>5. ASSUME AcceptDone(h) \/ Abandon(h) PROVE HInv'
  <2>1. slot' = [slot EXCEPT ![h] = Idle] /\ UNCHANGED <<task, app>>
    BY <1>5 DEF AcceptDone, Abandon, Goto
  <2> QED
    BY <2>1, IdleHires, ReadHires
<1> QED
  BY <1>2, <1>3, <1>4, <1>5

(* A handler does not write a row while DeleteTask holds the lock; so      *)
(* DeleteTask itself never does.                                           *)
LEMMA DeleteWaits ==
    ASSUME NEW h \in Handlers, SaveTask(h)
    PROVE  slot[h].op \in {"update", "save"}
  BY DEF SaveTask, Free

(* The steps that write.                                                   *)
LEMMA WritesHire ==
    ASSUME BInv, HInv, NEW h \in Handlers,
           \/ \E t \in Tasks : CreateTaskInsert(h, t)
           \/ SaveTask(h)
           \/ \E a \in Apps : ApplyInsert(h, a) \/ RejectOther(h, a)
           \/ AcceptMark(h)
    PROVE  HInv'
<1>1. /\ task \in [Tasks -> TaskRow] /\ app \in [Apps -> AppRow]
      /\ slot \in [Handlers -> Slot] /\ slot[h] \in Slot
      /\ Hires(slot[h], task, app) /\ Keeps(slot[h], task)
  BY DEF BInv, IInv, TypeOK, HInv, Owned
<1>2. ASSUME NEW t \in Tasks, CreateTaskInsert(h, t) PROVE HInv'
  <2>1. /\ slot' = [slot EXCEPT ![h] = Idle] /\ UNCHANGED app
        /\ ~Exists(task, t) /\ task'[t].tasker = NoUser
        /\ \A v \in Tasks : v # t => task'[v] = task[v]
    BY <1>1, <1>2 DEF CreateTaskInsert, Goto, Exists, NoTaskRow
  <2>2. TasksGrow(task, task') /\ AppsGrow(app, app')
    BY <2>1 DEF TasksGrow, AppsGrow, Exists
  <2>3. RowsHire(task', app')
    BY <2>1 DEF HInv, RowsHire, Exists
  <2>4. \A v \in Tasks : task'[v].tasker # NoUser => task[v].tasker # NoUser
    BY <2>1
  <2> QED
    BY <2>1, <2>2, <2>3, <2>4, IdleHires, HandlerHires
<1>3. ASSUME SaveTask(h) PROVE HInv'
  <2>1. PICK t \in Tasks, row \in TaskRow : t = slot[h].task /\ row = slot[h].row
    BY <1>1, <1>3, DeleteWaits, SlotFacts
  <2>2. slot[h].op \in {"update", "save"}
    BY <1>3, DeleteWaits
  <2>3. PICK s : s = AfterSave(slot[h])
    OBVIOUS
  <2>4. /\ slot' = [slot EXCEPT ![h] = s] /\ UNCHANGED app
        /\ task' = [task EXCEPT ![t] = row]
    BY <1>3, <2>1, <2>3 DEF SaveTask, Goto
  <2>5. /\ task'[t] = row /\ \A v \in Tasks : v # t => task'[v] = task[v]
        /\ row.status # "none" /\ row.requester = task[t].requester
        /\ row.tasker = NoUser \/ Applied(row.tasker, t, app)
    BY <1>1, <2>1, <2>2, <2>4 DEF Keeps, Hires
  <2>6. TasksGrow(task, task') /\ AppsGrow(app, app')
    BY <2>4, <2>5 DEF TasksGrow, AppsGrow, Exists
  <2>7. RowsHire(task', app')
    BY <2>4, <2>5 DEF HInv, RowsHire, Exists
  <2>8. \A v \in Tasks : task'[v].tasker # NoUser =>
            task[v].tasker # NoUser \/ HiredBy(slot[h], v)
    <3>1. slot[h].op = "save" => HiredBy(slot[h], t)
      BY <2>1 DEF HiredBy
    <3>2. slot[h].op = "update" /\ row.tasker # NoUser => HiredBy(slot[h], t)
      BY <2>1 DEF HiredBy
    <3> QED
      BY <2>2, <2>5, <3>1, <3>2
  <2>9. /\ Hires(s, task', app') /\ s.op # "reject"
        /\ \A v \in Tasks : HiredBy(s, v) => HiredBy(slot[h], v)
    <3>1. CASE slot[h].op = "update"
      BY <2>3, <3>1, IdleHires DEF AfterSave
    <3>2. CASE slot[h].op = "save"
      <4>1. s = [op |-> "list", task |-> slot[h].task, app |-> slot[h].app]
        BY <2>3, <3>2 DEF AfterSave
      <4> QED
        BY <1>1, <2>4, <3>2, <4>1 DEF Hires, HiredBy
    <3> QED
      BY <2>2, <3>1, <3>2
  <2> QED
    BY <2>4, <2>6, <2>7, <2>8, <2>9, HandlerHires
<1>4. ASSUME NEW a \in Apps, ApplyInsert(h, a) PROVE HInv'
  <2>1. PICK t \in Tasks, u \in Users : t = slot[h].task /\ u = slot[h].user
    BY <1>1, <1>4, SlotFacts DEF ApplyInsert
  <2>2. /\ slot' = [slot EXCEPT ![h] = Idle] /\ UNCHANGED task
        /\ \A b \in Apps : b # a => app'[b] = app[b]
        /\ app'[a].task = t /\ app'[a].tasker = u
        /\ app[a].task \notin Tasks /\ app[a].status = "none"
    BY <1>1, <1>4, <2>1, NilAssumption DEF ApplyInsert, Goto, NoAppRow
  <2>3. Exists(task, t) /\ u # task[t].requester
    BY <1>1, <1>4, <2>1 DEF ApplyInsert, Keeps, Hires
  <2>4. TasksGrow(task, task') /\ AppsGrow(app, app')
    BY <2>2 DEF TasksGrow, AppsGrow, Exists, Decided
  <2>5. RowsHire(task', app')
    <3>1. \A b \in Apps : app'[b].task \in Tasks =>
            /\ Exists(task', app'[b].task)
            /\ app'[b].tasker \in Users /\ app'[b].tasker # task'[app'[b].task].requester
      BY <2>2, <2>3 DEF HInv, RowsHire, Exists
    <3>2. \A v \in Tasks : task'[v].tasker # NoUser => Applied(task'[v].tasker, v, app')
      BY <2>2, <2>4, AppliedStays DEF HInv, RowsHire
    <3> QED
      BY <3>1, <3>2 DEF RowsHire
  <2>6. \A b \in Apps : app[b].task \in Tasks /\ app[b].status = "accepted" =>
            app'[b].task = app[b].task /\ app'[b].status = "accepted"
    BY <2>2
  <2>7. \A v \in Tasks : task'[v].tasker # NoUser => task[v].tasker # NoUser
    BY <2>2
  <2> QED
    BY <2>2, <2>4, <2>5, <2>6, <2>7, IdleHires, HandlerHires
<1>5. ASSUME NEW a \in Apps, RejectOther(h, a) PROVE HInv'
  <2>1. PICK s : s = [slot[h] EXCEPT !.others = slot[h].others \ {a}]
    OBVIOUS
  <2>2. /\ slot[h].op = "reject" /\ a \in slot[h].others
        /\ slot' = [slot EXCEPT ![h] = s] /\ UNCHANGED task
    BY <1>5, <2>1 DEF RejectOther, Goto
  <2>3. s.op = "reject" /\ s.task = slot[h].task /\ s.others = slot[h].others \ {a}
    BY <1>1, <2>1, <2>2 DEF Slot, Idle
  <2>4. /\ \A b \in Apps : b # a => app'[b] = app[b]
        /\ app'[a].task = app[a].task /\ app'[a].tasker = app[a].tasker
        /\ app'[a].status = "rejected" \/ app'[a].status = app[a].status
    BY <1>1, <1>5 DEF RejectOther, AppRow
  <2>5. TasksGrow(task, task') /\ AppsGrow(app, app')
    BY <2>2, <2>4 DEF TasksGrow, AppsGrow, Exists, Decided
  <2>6. RowsHire(task', app')
    <3>1. \A b \in Apps : app'[b].task = app[b].task /\ app'[b].tasker = app[b].tasker
      BY <2>4
    <3>2. \A v \in Tasks : task'[v].tasker # NoUser => Applied(task'[v].tasker, v, app')
      BY <2>2, <2>5, AppliedStays DEF HInv, RowsHire
    <3> QED
      BY <2>2, <3>1, <3>2 DEF HInv, RowsHire
  <2>7. Hires(s, task', app')
    <3>1. \A b \in s.others : b \in Apps /\ app'[b].task = s.task
      BY <1>1, <2>2, <2>3, <2>4, SlotFacts DEF Hires
    <3> QED
      BY <2>3, <3>1 DEF Hires
  <2>8. \A b \in Apps : app[b].task \in Tasks /\ app[b].status = "accepted" =>
            \/ app'[b].task = app[b].task /\ app'[b].status = "accepted"
            \/ slot[h].op = "reject" /\ b \in slot[h].others
    BY <2>2, <2>4
  <2>9. \A v \in Tasks : HiredBy(s, v) \/ task'[v].tasker # NoUser =>
            task[v].tasker # NoUser \/ HiredBy(slot[h], v)
    BY <2>2, <2>3 DEF HiredBy
  <2>10. \A b \in s.others : slot[h].op = "reject" /\ b \in slot[h].others
    BY <2>2, <2>3
  <2> QED
    BY <2>2, <2>5, <2>6, <2>7, <2>8, <2>9, <2>10, HandlerHires
<1>6. ASSUME AcceptMark(h) PROVE HInv'
  <2>1. PICK s : s = [slot[h] EXCEPT !.op = "assign"]
    OBVIOUS
  <2>2. PICK t \in Tasks, a \in Apps : t = slot[h].task /\ a = slot[h].app
    BY <1>1, <1>6, SlotFacts DEF AcceptMark
  <2>3. /\ slot[h].op = "accept"
        /\ slot' = [slot EXCEPT ![h] = s] /\ UNCHANGED task
        /\ app' = [app EXCEPT ![a].status = "accepted"]
    BY <1>6, <2>1, <2>2 DEF AcceptMark, Goto
  <2>4. s.op = "assign" /\ s.task = t /\ s.app = a
    BY <1>1, <2>1, <2>2, <2>3 DEF Slot, Idle
  <2>5. /\ \A b \in Apps : b # a => app'[b] = app[b]
        /\ app'[a].task = app[a].task /\ app'[a].tasker = app[a].tasker
        /\ app'[a].status = "accepted" /\ app[a].task = t
    BY <1>1, <2>2, <2>3 DEF AppRow, Hires
  <2>6. TasksGrow(task, task') /\ AppsGrow(app, app')
    BY <2>3, <2>5 DEF TasksGrow, AppsGrow, Exists, Decided
  <2>7. RowsHire(task', app')
    <3>1. \A b \in Apps : app'[b].task = app[b].task /\ app'[b].tasker = app[b].tasker
      BY <2>5
    <3>2. \A v \in Tasks : task'[v].tasker # NoUser => Applied(task'[v].tasker, v, app')
      BY <2>3, <2>6, AppliedStays DEF HInv, RowsHire
    <3> QED
      BY <2>3, <3>1, <3>2 DEF HInv, RowsHire
  <2>8. Hires(s, task', app')
    BY <2>4, <2>5 DEF Hires, Decided
  <2>9. \A b \in Apps : app[b].task \in Tasks /\ app[b].status = "accepted" =>
            app'[b].task = app[b].task /\ app'[b].status = "accepted"
    BY <2>5
  <2>10. Certain(t, app', slot')
    <3>1. CASE \E g \in Handlers : slot[g].op = "reject" /\ a \in slot[g].others
      <4>1. PICK g \in Handlers : slot[g].op = "reject" /\ a \in slot[g].others
        BY <3>1
      <4>2. slot[g].task = t
        BY <2>5, <4>1 DEF HInv, Hires
      <4>3. Certain(t, app, slot)
        BY <4>1, <4>2 DEF HInv, Hired, HiredBy
      <4> QED
        BY <1>1, <2>3, <2>4, <2>9, <4>3, CertainStays
    <3>2. CASE \A g \in Handlers : slot[g].op = "reject" => a \notin slot[g].others
      <4>1. \A g \in Handlers : slot'[g].op = "reject" => a \notin slot'[g].others
        BY <1>1, <2>3, <2>4, <3>2
      <4> QED
        BY <2>5, <4>1 DEF Certain
    <3> QED
      BY <3>1, <3>2
  <2>11. \A v \in Tasks : HiredBy(s, v) => v = t
    BY <2>4 DEF HiredBy
  <2>12. \A v \in Tasks : HiredBy(s, v) \/ task'[v].tasker # NoUser =>
            task[v].tasker # NoUser \/ Certain(v, app', slot')
    BY <2>3, <2>10, <2>11
  <2>13. s.op # "reject"
    BY <2>4
  <2> QED
    BY <2>3, <2>6, <2>7, <2>8, <2>9, <2>12, <2>13, HandlerHires
<1> QED
  BY <1>2, <1>3, <1>4, <1>5, <1>6

(* A payment changes the status of a task that exists, and nothing else of *)
(* what the handlers see.                                                  *)
LEMMA PaymentHires ==
    ASSUME BInv, HInv, NEW t \in Tasks, NEW status, status # "none",
           task' = [task EXCEPT ![t].status = status], UNCHANGED <<app, slot>>
    PROVE  HInv'
<1>1. task \in [Tasks -> TaskRow] /\ slot \in [Handlers -> Slot]
  BY DEF BInv, IInv, TypeOK
<1>2. \A v \in Tasks : /\ task'[v].requester = task[v].requester
                       /\ task'[v].tasker = task[v].tasker
                       /\ Exists(task, v) => Exists(task', v)
  BY <1>1 DEF TaskRow, Exists
<1>3. TasksGrow(task, task') /\ AppsGrow(app, app')
  BY <1>2 DEF TasksGrow, AppsGrow
<1>4. RowsHire(task', app')
  <2>1. \A a \in Apps : app'[a].task \in Tasks =>
          /\ Exists(task', app'[a].task)
          /\ app'[a].tasker \in Users /\ app'[a].tasker # task'[app'[a].task].requester
    <3> SUFFICES ASSUME NEW a \in Apps, app[a].task \in Tasks
                 PROVE  /\ Exists(task', app[a].task) /\ app[a].tasker \in Users
                        /\ app[a].tasker # task'[app[a].task].requester
      OBVIOUS
    <3>1. PICK v \in Tasks : v = app[a].task
      OBVIOUS
    <3>2. Exists(task, v) /\ app[a].tasker \in Users /\ app[a].tasker # task[v].requester
      BY <3>1 DEF HInv, RowsHire
    <3> QED
      BY <1>2, <3>1, <3>2
  <2>2. \A v \in Tasks : task'[v].tasker # NoUser => Applied(task'[v].tasker, v, app')
    <3> TAKE v \in Tasks
    <3>1. PICK u : u = task[v].tasker /\ u = task'[v].tasker
      BY <1>2
    <3>2. u # NoUser => Applied(u, v, app)
      BY <3>1 DEF HInv, RowsHire
    <3>3. app' = app
      OBVIOUS
    <3> QED
      BY <3>1, <3>2, <3>3
  <2> QED
    BY <2>1, <2>2 DEF RowsHire
<1>5. ASSUME NEW h \in Handlers PROVE Hires(slot'[h], task', app')
  <2>1. PICK s \in Slot : s = slot[h]
    BY <1>1
  <2>2. Keeps(s, task) /\ Hires(s, task, app)
    BY <2>1 DEF BInv, Owned, HInv
  <2>3. Hires(s, task', app')
    BY <1>3, <2>2, HiresStays
  <2> QED
    BY <2>1, <2>3
<1>6. \A v \in Tasks : Hired(v, task', slot') => Certain(v, app', slot')
  BY <1>2 DEF HInv, Hired
<1> QED
  BY <1>4, <1>5, <1>6 DEF HInv

LEMMA HiringInvariance == Spec => []HInv
<1>1. ASSUME BInv, HInv, [Next]_vars PROVE HInv'
  <2>1. CASE WalletStep \/ UNCHANGED vars
    BY <1>1, <2>1 DEF WalletStep, Deposit, Withdraw, vars, HInv
  <2>2. CASE PaymentStep
    <3>1. \E t \in Tasks, status \in {"in_progress", "completed", "cancelled"} :
             task' = [task EXCEPT ![t].status = status] /\ UNCHANGED <<app, slot>>
      BY <2>2 DEF PaymentStep, CreateEscrowPayment, ReleasePayment, ReleaseAgain,
                  RefundPayment
    <3> QED
      BY <1>1, <3>1, PaymentHires
  <2>3. ASSUME NEW h \in Handlers, TaskStep(h) PROVE HInv'
    BY <1>1, <2>3, RequestsHire, ReadsHire, WritesHire DEF TaskStep, Continue
  <2> QED
    BY <1>1, <2>1, <2>2, <2>3 DEF Next
<1> QED
  BY <1>1, InitHInv, BooksInvariance, PTL DEF Spec

(* However acceptances overlap with each other, with updates and with      *)
(* payments, the tasker of a task has applied for it and is not its        *)
(* requester, some request has decided on that application, and at least   *)
(* one application of the task is accepted.                                *)
THEOREM TaskerWasAcceptedHolds == Spec => []TaskerWasAccepted
  BY HiringInvariance, HInvIsTaskerWasAccepted, PTL

-----------------------------------------------------------------------------
(* What the status of a task tells of its money.                           *)

Has(s, type) == \E i \in DOMAIN s : s[i].type = type

(* What a status tells, even one that was read before: a history only      *)
(* grows.                                                                  *)
Tells(status, s) ==
    /\ status = "in_progress" => Has(s, "escrow")
    /\ status = "completed" => Has(s, "release")
    /\ status = "cancelled" => Has(s, "refund")

(* What the history tells of a status that was not overwritten.            *)
Told(status, s) ==
    /\ status = "open" => s = <<>>
    /\ Has(s, "release") => status = "completed"
    /\ Has(s, "refund") => status = "cancelled"

(* An escrow is of a price, and divides it in fee and net.                 *)
Priced(s) ==
    \A i \in DOMAIN s : s[i].type = "escrow" =>
        /\ s[i].amount \in Prices
        /\ s[i].fee = PlatformFee[s[i].amount]
        /\ s[i].net = s[i].amount - s[i].fee

MoneyAgrees ==
    /\ \A t \in Tasks :
          /\ Tells(task[t].status, txs[t]) /\ Priced(txs[t])
          /\ IF t \in stale THEN Has(txs[t], "escrow")
                            ELSE Told(task[t].status, txs[t])
    /\ \A h \in Handlers : slot[h].op \in {"reprice", "update", "save"} =>
          Tells(slot[h].row.status, txs[slot[h].task])

MInv == BInv /\ HInv /\ MoneyAgrees

LEMMA MInvIsStatusMatchesMoney == MInv => StatusMatchesMoney
<1> SUFFICES ASSUME MInv, NEW t \in Tasks
             PROVE  LET status == task[t].status IN
                    /\ status = "none" => txs[t] = <<>>
                    /\ status = "in_progress" => HasTx(t, "escrow")
                    /\ status = "completed" => HasTx(t, "release")
                    /\ status = "cancelled" => HasTx(t, "refund") \/ txs[t] = <<>>
                    /\ t \notin stale =>
                          /\ status = "open" => txs[t] = <<>>
                          /\ HasTx(t, "release") => status = "completed"
                          /\ HasTx(t, "refund") => status = "cancelled"
  BY DEF StatusMatchesMoney
<1>1. \A type : HasTx(t, type) <=> Has(txs[t], type)
  BY DEF HasTx, Has
<1>2. /\ Tells(task[t].status, txs[t])
      /\ t \notin stale => Told(task[t].status, txs[t])
  BY DEF MInv, MoneyAgrees
<1>3. task[t].status = "none" => txs[t] = <<>>
  BY DEF MInv, BInv, Owned, Exists
<1> QED
  BY <1>1, <1>2, <1>3 DEF Tells, Told

(* A lawful history without an escrow is empty.                            *)
LEMMA NoEscrowNothing ==
    ASSUME NEW s \in Seq(TxRow), Lawful(s), ~Has(s, "escrow")
    PROVE  s = <<>>
<1>1. DOMAIN s = 1..Len(s) /\ Len(s) \in Nat
  BY LenProperties
<1>2. 1 \notin DOMAIN s
  BY DEF Lawful, Has
<1>3. Len(s) = 0
  BY <1>1, <1>2
<1> QED
  BY <1>3, EmptySeq

(* What a history has after one more transaction.                          *)
LEMMA HasAppend ==
    ASSUME NEW s \in Seq(TxRow), NEW x \in TxRow, NEW type
    PROVE  Has(Append(s, x), type) <=> Has(s, type) \/ x.type = type
<1>1. /\ DOMAIN s = 1..Len(s) /\ Len(s) \in Nat
      /\ DOMAIN Append(s, x) = 1..(Len(s) + 1)
      /\ \A i \in 1..Len(s) : Append(s, x)[i] = s[i]
      /\ Append(s, x)[Len(s) + 1] = x
  BY AppendFacts
<1> QED
  BY <1>1 DEF Has

LEMMA PricedAppend ==
    ASSUME NEW s \in Seq(TxRow), NEW x \in TxRow, Priced(s), x.type # "escrow"
    PROVE  Priced(Append(s, x))
<1>1. /\ DOMAIN s = 1..Len(s) /\ Len(s) \in Nat
      /\ DOMAIN Append(s, x) = 1..(Len(s) + 1)
      /\ \A i \in 1..Len(s) : Append(s, x)[i] = s[i]
      /\ Append(s, x)[Len(s) + 1] = x
  BY AppendFacts
<1> QED
  BY <1>1 DEF Priced

(* A lawful history with an escrow begins with it.                         *)
LEMMA EscrowIsFirst ==
    ASSUME IInv, NEW t \in Tasks, Has(txs[t], "escrow")
    PROVE  /\ HasTx(t, "escrow") /\ 1 \in DOMAIN txs[t]
           /\ EscrowTx(t) = txs[t][1] /\ EscrowTx(t).type = "escrow"
<1>1. HasTx(t, "escrow")
  BY DEF Has, HasTx
<1>2. PICK i : i = CHOOSE n \in DOMAIN txs[t] : txs[t][n].type = "escrow"
  OBVIOUS
<1>3. i \in DOMAIN txs[t] /\ txs[t][i].type = "escrow"
  BY <1>1, <1>2 DEF HasTx
<1>4. i = 1
  BY <1>3 DEF IInv, Lawful
<1> QED
  BY <1>1, <1>2, <1>3, <1>4 DEF EscrowTx

(* The money of one task is moved and its status says so.                  *)
LEMMA OneTaskMoney ==
    ASSUME MInv, NEW t \in Tasks, NEW s, NEW status,
           txs' = [txs EXCEPT ![t] = s], task' = [task EXCEPT ![t].status = status],
           UNCHANGED <<slot, stale>>,
           \A type : Has(txs[t], type) => Has(s, type),
           Tells(status, s), Priced(s), t \notin stale => Told(status, s)
    PROVE  MoneyAgrees'
<1>1. /\ task \in [Tasks -> TaskRow] /\ txs \in [Tasks -> Seq(TxRow)]
      /\ slot \in [Handlers -> Slot]
  BY DEF MInv, BInv, IInv, TypeOK
<1>2. /\ task'[t].status = status /\ txs'[t] = s
      /\ \A v \in Tasks \ {t} : task'[v] = task[v] /\ txs'[v] = txs[v]
  BY <1>1 DEF TaskRow
<1>3. \A v \in Tasks : \A type : Has(txs[v], type) => Has(txs'[v], type)
  BY <1>2
<1>4. ASSUME NEW v \in Tasks
      PROVE  /\ Tells(task'[v].status, txs'[v]) /\ Priced(txs'[v])
             /\ IF v \in stale' THEN Has(txs'[v], "escrow")
                                ELSE Told(task'[v].status, txs'[v])
  <2>1. CASE v = t
    BY <1>2, <1>3, <2>1 DEF MInv, MoneyAgrees
  <2>2. CASE v # t
    BY <1>2, <2>2 DEF MInv, MoneyAgrees
  <2> QED
    BY <2>1, <2>2
<1>5. ASSUME NEW h \in Handlers, slot'[h].op \in {"reprice", "update", "save"}
      PROVE  Tells(slot'[h].row.status, txs'[slot'[h].task])
  <2>1. slot[h].task \in Tasks /\ Tells(slot[h].row.status, txs[slot[h].task])
    BY <1>1, <1>5, SlotFacts DEF MInv, MoneyAgrees
  <2> QED
    BY <1>3, <2>1 DEF Tells
<1> QED
  BY <1>4, <1>5 DEF MoneyAgrees

Purse(w) == [u \in Users |-> w[u].balance]

(* A task that is charged had no transaction and was not overwritten.      *)
LEMMA CreateEscrowPaymentFacts ==
    ASSUME MInv, NEW t \in Tasks, NEW u \in Users, CreateEscrowPayment(t, u)
    PROVE  /\ txs[t] = <<>> /\ task[t].requester = u /\ t \notin stale
           /\ \E price \in Prices, row \in TxRow :
                 /\ row.type = "escrow" /\ row.amount = price
                 /\ txs' = [txs EXCEPT ![t] = <<row>>]
                 /\ Has(<<row>>, "escrow") /\ Priced(<<row>>)
                 /\ ~Has(<<row>>, "release") /\ ~Has(<<row>>, "refund")
                 /\ wallet[u].balance >= price
                 /\ Purse(wallet') = [Purse(wallet) EXCEPT ![u] = @ - price]
<1>0. ~Has(txs[t], "escrow") /\ txs[t] \in Seq(TxRow) /\ Lawful(txs[t])
  BY DEF CreateEscrowPayment, HasTx, Has, MInv, BInv, IInv, TypeOK
<1>1. /\ txs[t] = <<>> /\ task[t].requester = u /\ t \notin stale
      /\ wallet \in [Users -> WalletRow] /\ txs \in [Tasks -> Seq(TxRow)]
      /\ task[t].tasker \in Users \cup {NoUser}
  BY <1>0, NoEscrowNothing
     DEF CreateEscrowPayment, MInv, MoneyAgrees, BInv, IInv, TypeOK, TaskRow
<1>2. PICK price \in ChargedPrices(t) :
        /\ CanHold(wallet[u], price)
        /\ wallet' = [wallet EXCEPT ![u] = AfterHold(@, price)]
        /\ txs' = [txs EXCEPT ![t] = Append(@,
                     Tx("escrow", price, PlatformFee[price], task[t].tasker))]
  BY DEF CreateEscrowPayment
<1>3. price \in Prices /\ price \in Nat
  BY <1>2, ChargedPriceType, PriceAssumption DEF CanHold, MInv, BInv
<1>4. PICK fee \in Nat : fee = PlatformFee[price] /\ fee <= price
  BY <1>3, FeeAssumption
<1>5. PICK row : row = Tx("escrow", price, fee, task[t].tasker)
  OBVIOUS
<1>6. row \in TxRow /\ row.type = "escrow"
  BY <1>1, <1>3, <1>4, <1>5, TxFacts DEF TxType
<1>7. row.amount = price /\ row.fee = fee /\ row.net = price - fee
  BY <1>5 DEF Tx
<1>8. txs' = [txs EXCEPT ![t] = <<row>>]
  BY <1>1, <1>2, <1>4, <1>5
<1>9. /\ Has(<<row>>, "escrow") /\ Priced(<<row>>)
      /\ ~Has(<<row>>, "release") /\ ~Has(<<row>>, "refund")
  BY <1>3, <1>4, <1>6, <1>7 DEF Has, Priced
<1>10. /\ wallet[u].balance >= price
       /\ Purse(wallet') = [Purse(wallet) EXCEPT ![u] = @ - price]
  BY <1>1, <1>2, <1>3 DEF CanHold, HasSufficientBalance, AfterHold, Purse, WalletRow
<1> QED
  BY <1>1, <1>3, <1>6, <1>7, <1>8, <1>9, <1>10

(* One that is refunded was in progress.                                  *)
LEMMA RefundPaymentFacts ==
    ASSUME MInv, NEW t \in Tasks, NEW u \in Users, RefundPayment(t, u)
    PROVE  /\ task[t].status = "in_progress" /\ task[t].requester = u
           /\ Has(txs[t], "escrow")
           /\ \E s \in Seq(TxRow) :
                 /\ txs' = [txs EXCEPT ![t] = s]
                 /\ Has(s, "escrow") /\ s[1] = txs[t][1]
                 /\ Has(s, "refund") /\ Priced(s)
                 /\ \A type : type # "refund" => (Has(s, type) <=> Has(txs[t], type))
           /\ Purse(wallet') = [Purse(wallet) EXCEPT ![u] = @ + txs[t][1].amount]
<1>1. /\ task[t].status = "in_progress" /\ Priced(txs[t]) /\ task[t].requester = u
      /\ wallet \in [Users -> WalletRow] /\ txs \in [Tasks -> Seq(TxRow)]
  BY DEF RefundPayment, MInv, MoneyAgrees, BInv, IInv, TypeOK
<1>2. Has(txs[t], "escrow")
  BY DEF RefundPayment, HasTx, Has
<1>3. PICK held \in TxRow : held = EscrowTx(t)
  BY <1>2, EscrowIsFirst, EscrowTxFacts DEF MInv, BInv, IInv
<1>4. held = txs[t][1] /\ 1 \in DOMAIN txs[t] /\ held.amount \in Nat
  BY <1>2, <1>3, EscrowIsFirst DEF MInv, BInv, TxRow
<1>5. PICK row : row = Tx("refund", held.amount, 0, NoUser)
  OBVIOUS
<1>6. row \in TxRow /\ row.type = "refund"
  BY <1>4, <1>5, TxFacts DEF TxType
<1>7. PICK s : s = Append(txs[t], row)
  OBVIOUS
<1>8. s \in Seq(TxRow) /\ s[1] = txs[t][1]
  BY <1>1, <1>4, <1>6, <1>7, AppendFacts
<1>9. /\ Has(s, "escrow") /\ Has(s, "refund")
      /\ \A type : type # "refund" => (Has(s, type) <=> Has(txs[t], type))
  BY <1>1, <1>2, <1>6, <1>7, HasAppend
<1>10. Priced(s)
  BY <1>1, <1>6, <1>7, PricedAppend
<1>11. txs' = [txs EXCEPT ![t] = s]
  BY <1>1, <1>3, <1>5, <1>7 DEF RefundPayment
<1>12. Purse(wallet') = [Purse(wallet) EXCEPT ![u] = @ + held.amount]
  BY <1>1, <1>3, <1>4 DEF RefundPayment, AfterRefund, Purse, WalletRow
<1> QED
  BY <1>1, <1>2, <1>4, <1>8, <1>9, <1>10, <1>11, <1>12

(* One that is paid was in progress, not yet paid, and has a tasker.      *)
LEMMA ReleasePaymentFacts ==
    ASSUME MInv, NEW t \in Tasks, NEW u \in Users, ReleasePayment(t, u)
    PROVE  /\ task[t].status = "in_progress"
           /\ Has(txs[t], "escrow") /\ ~Has(txs[t], "release")
           /\ task[t].requester = u /\ task[t].tasker \in Users
           /\ \E s \in Seq(TxRow) :
                 /\ txs' = [txs EXCEPT ![t] = s]
                 /\ Has(s, "escrow") /\ s[1] = txs[t][1]
                 /\ Has(s, "release") /\ Priced(s)
                 /\ Has(s, "refund") <=> Has(txs[t], "refund")
                 /\ \A type : Has(txs[t], type) => Has(s, type)
           /\ Purse(wallet') =
                 [Purse(wallet) EXCEPT ![task[t].tasker] =
                     @ + txs[t][1].amount - PlatformFee[txs[t][1].amount]]
<1>1. /\ task[t].status = "in_progress" \/ task[t].status = "completed"
      /\ Tells(task[t].status, txs[t]) /\ Priced(txs[t]) /\ task[t].requester = u
      /\ wallet \in [Users -> WalletRow] /\ txs \in [Tasks -> Seq(TxRow)]
      /\ ~Has(txs[t], "release")
  BY DEF ReleasePayment, HasRelease, HasTx, Has, MInv, MoneyAgrees, BInv, IInv, TypeOK
<1>2. task[t].status = "in_progress"
  BY <1>1 DEF Tells
<1>3. Has(txs[t], "escrow") /\ ~Has(txs[t], "release")
  BY <1>1 DEF ReleasePayment, HasTx, Has
<1>4. PICK payee \in Users : payee = task[t].tasker
  BY DEF ReleasePayment, MInv, BInv, IInv, TypeOK, TaskRow
<1>5. PICK held \in TxRow : held = EscrowTx(t)
  BY <1>3, EscrowIsFirst, EscrowTxFacts DEF MInv, BInv, IInv
<1>6. /\ held = txs[t][1] /\ 1 \in DOMAIN txs[t] /\ held.type = "escrow"
      /\ held.amount \in Nat /\ held.fee \in Nat /\ held.net \in Nat
  BY <1>3, <1>5, EscrowIsFirst DEF MInv, BInv, TxRow
<1>7. held.net = held.amount - PlatformFee[held.amount]
  BY <1>1, <1>6 DEF Priced
<1>8. PICK release : release = Tx("release", held.net, 0, payee)
  OBVIOUS
<1>9. PICK fee : fee = Tx("platform_fee", held.fee, 0, NoUser)
  OBVIOUS
<1>10. /\ release \in TxRow /\ release.type = "release"
       /\ fee \in TxRow /\ fee.type = "platform_fee"
  BY <1>6, <1>8, <1>9, TxFacts DEF TxType
<1>11. PICK paid : paid = Append(txs[t], release)
  OBVIOUS
<1>12. /\ paid \in Seq(TxRow) /\ paid[1] = txs[t][1] /\ 1 \in DOMAIN paid
  BY <1>1, <1>6, <1>10, <1>11, AppendFacts
<1>13. /\ \A type : Has(paid, type) <=> Has(txs[t], type) \/ type = "release"
       /\ Priced(paid)
  BY <1>1, <1>10, <1>11, HasAppend, PricedAppend
<1>14. PICK s : s = IF held.fee > 0 THEN Append(paid, fee) ELSE paid
  OBVIOUS
<1>15. s \in Seq(TxRow) /\ s[1] = txs[t][1]
  BY <1>10, <1>12, <1>14, AppendFacts
<1>16. /\ Has(s, "escrow") /\ Has(s, "release") /\ Priced(s)
       /\ Has(s, "refund") <=> Has(txs[t], "refund")
       /\ \A type : Has(txs[t], type) => Has(s, type)
  <2>1. /\ \A type : Has(paid, type) => Has(s, type)
        /\ Has(s, "refund") => Has(paid, "refund")
    BY <1>10, <1>12, <1>14, HasAppend
  <2>2. Priced(s)
    BY <1>10, <1>12, <1>13, <1>14, PricedAppend
  <2> QED
    BY <1>3, <1>13, <2>1, <2>2
<1>17. txs' = [txs EXCEPT ![t] = s]
  <2>1. txs[t] \o <<release>> = paid /\ txs[t] \o <<release, fee>> = Append(paid, fee)
    BY <1>1, <1>10, <1>11
  <2>2. txs' = [txs EXCEPT ![t] =
                  @ \o IF held.fee > 0 THEN <<release, fee>> ELSE <<release>>]
    BY <1>4, <1>5, <1>8, <1>9 DEF ReleasePayment
  <2> QED
    BY <1>1, <1>14, <2>1, <2>2
<1>18. Purse(wallet') = [Purse(wallet) EXCEPT ![payee] = @ + held.amount - PlatformFee[held.amount]]
  <2>1. PICK debited : debited = [wallet EXCEPT ![u] = AfterRelease(@, held.net)]
    OBVIOUS
  <2>2. wallet' = [debited EXCEPT ![payee] = AfterEarning(@, held.net)]
    BY <1>4, <1>5, <2>1 DEF ReleasePayment
  <2>3. /\ \A v \in Users : debited[v].balance = wallet[v].balance
        /\ DOMAIN debited = Users
        /\ \A v \in Users : /\ DOMAIN debited[v] = DOMAIN wallet[v]
                            /\ DOMAIN wallet[v] = DOMAIN EmptyWallet
    BY <1>1, <2>1 DEF AfterRelease, WalletRow, EmptyWallet
  <2>4. \A v \in Users : wallet'[v].balance =
            IF v = payee THEN wallet[v].balance + held.net ELSE wallet[v].balance
    BY <2>2, <2>3 DEF AfterEarning, EmptyWallet
  <2>5. \A v \in Users : wallet[v].balance \in Nat
    BY <1>1 DEF WalletRow
  <2>6. PICK f : f = PlatformFee[held.amount]
    OBVIOUS
  <2>7. f \in Nat
    BY <1>1, <1>6, <2>6, FeeAssumption DEF Priced
  <2> QED
    BY <1>6, <1>7, <2>4, <2>5, <2>6, <2>7 DEF Purse
<1> QED
  BY <1>1, <1>2, <1>3, <1>4, <1>6, <1>15, <1>16, <1>17, <1>18

(* Only a task whose status was overwritten is completed without a release. *)
LEMMA ReleaseAgainFacts ==
    ASSUME MInv, NEW t \in Tasks, NEW u \in Users, ReleaseAgain(t, u)
    PROVE  t \in stale /\ Has(txs[t], "release") /\ task[t].status = "in_progress"
  BY DEF ReleaseAgain, HasRelease, HasTx, Has, MInv, MoneyAgrees, Told

LEMMA PaymentMoney ==
    ASSUME MInv, PaymentStep
    PROVE  MoneyAgrees'
<1>1. ASSUME NEW t \in Tasks, NEW u \in Users, CreateEscrowPayment(t, u)
      PROVE  MoneyAgrees'
  <2>1. txs[t] = <<>>
    BY <1>1, CreateEscrowPaymentFacts
  <2>2. PICK row \in TxRow :
           /\ txs' = [txs EXCEPT ![t] = <<row>>]
           /\ Has(<<row>>, "escrow") /\ Priced(<<row>>)
           /\ ~Has(<<row>>, "release") /\ ~Has(<<row>>, "refund")
    BY <1>1, CreateEscrowPaymentFacts
  <2>3. Tells("in_progress", <<row>>) /\ Told("in_progress", <<row>>)
    BY <2>2 DEF Tells, Told
  <2>4. \A type : Has(txs[t], type) => Has(<<row>>, type)
    BY <2>1 DEF Has
  <2> QED
    BY <1>1, <2>2, <2>3, <2>4, OneTaskMoney DEF CreateEscrowPayment
<1>2. ASSUME NEW t \in Tasks, NEW u \in Users, ReleasePayment(t, u)
      PROVE  MoneyAgrees'
  <2>1. task[t].status = "in_progress"
    BY <1>2, ReleasePaymentFacts
  <2>2. PICK s \in Seq(TxRow) :
           /\ txs' = [txs EXCEPT ![t] = s]
           /\ Has(s, "release") /\ Priced(s)
           /\ Has(s, "refund") <=> Has(txs[t], "refund")
           /\ \A type : Has(txs[t], type) => Has(s, type)
    BY <1>2, ReleasePaymentFacts
  <2>3. t \notin stale => ~Has(txs[t], "refund")
    BY <2>1 DEF MInv, MoneyAgrees, Told
  <2>4. Tells("completed", s) /\ (t \notin stale => Told("completed", s))
    BY <2>2, <2>3 DEF Tells, Told
  <2> QED
    BY <1>2, <2>2, <2>4, OneTaskMoney DEF ReleasePayment
<1>3. ASSUME NEW t \in Tasks, NEW u \in Users, RefundPayment(t, u)
      PROVE  MoneyAgrees'
  <2>1. task[t].status = "in_progress"
    BY <1>3, RefundPaymentFacts
  <2>2. PICK s \in Seq(TxRow) :
           /\ txs' = [txs EXCEPT ![t] = s]
           /\ Has(s, "refund") /\ Priced(s)
           /\ \A type : type # "refund" => (Has(s, type) <=> Has(txs[t], type))
    BY <1>3, RefundPaymentFacts
  <2>3. t \notin stale => ~Has(txs[t], "release")
    BY <2>1 DEF MInv, MoneyAgrees, Told
  <2>4. Tells("cancelled", s) /\ (t \notin stale => Told("cancelled", s))
    BY <2>2, <2>3 DEF Tells, Told
  <2>5. \A type : Has(txs[t], type) => Has(s, type)
    BY <2>2
  <2> QED
    BY <1>3, <2>2, <2>4, <2>5, OneTaskMoney DEF RefundPayment
<1>4. ASSUME NEW t \in Tasks, NEW u \in Users, ReleaseAgain(t, u)
      PROVE  MoneyAgrees'
  <2>1. t \in stale /\ Has(txs[t], "release") /\ Priced(txs[t])
    BY <1>4, ReleaseAgainFacts DEF MInv, MoneyAgrees
  <2>2. Tells("completed", txs[t])
    BY <2>1 DEF Tells
  <2>3. txs' = [txs EXCEPT ![t] = txs[t]]
    BY <1>4 DEF ReleaseAgain, MInv, BInv, IInv, TypeOK
  <2> QED
    BY <1>4, <2>1, <2>2, <2>3, OneTaskMoney DEF ReleaseAgain
<1> QED
  BY <1>1, <1>2, <1>3, <1>4 DEF PaymentStep

(* A save puts the status that was read over another only where money was  *)
(* taken: the one or the other status tells so.                            *)
LEMMA SaveTaskFacts ==
    ASSUME MInv, NEW h \in Handlers, SaveTask(h)
    PROVE  \E t \in Tasks, row \in TaskRow :
              /\ t = slot[h].task /\ row = slot[h].row
              /\ task' = [task EXCEPT ![t] = row]
              /\ row.requester = task[t].requester
              /\ Tells(row.status, txs[t])
              /\ IF row.status = task[t].status THEN stale' = stale
                 ELSE stale' = stale \cup {t} /\ Has(txs[t], "escrow")
<1>1. slot[h].op \in {"update", "save"} /\ slot[h] \in Slot
  BY DeleteWaits DEF MInv, BInv, IInv, TypeOK
<1>2. PICK t \in Tasks, row \in TaskRow : t = slot[h].task /\ row = slot[h].row
  BY <1>1, SlotFacts
<1>3. /\ task' = [task EXCEPT ![t] = row]
      /\ stale' = IF row.status # task[t].status THEN stale \cup {t} ELSE stale
  BY <1>2 DEF SaveTask
<1>4. /\ Exists(task, t) /\ row.status # "none" /\ row.requester = task[t].requester
      /\ Tells(row.status, txs[t]) /\ Tells(task[t].status, txs[t])
  BY <1>1, <1>2 DEF MInv, BInv, Owned, Keeps, MoneyAgrees
<1>5. ASSUME row.status # task[t].status PROVE Has(txs[t], "escrow")
  <2>1. txs[t] \in Seq(TxRow) /\ Lawful(txs[t]) /\ task[t].status \in TaskStatus
    BY DEF MInv, BInv, IInv, TypeOK, TaskRow
  <2>2. txs[t] # <<>>
    <3>1. ~(row.status = "open" /\ task[t].status = "open")
      BY <1>5
    <3>2. row.status \in TaskStatus /\ task[t].status # "none"
      BY <1>4 DEF TaskRow, Exists
    <3>3. \A type : ~Has(<<>>, type)
      BY DEF Has
    <3> QED
      BY <1>4, <2>1, <3>1, <3>2, <3>3 DEF Tells, TaskStatus
  <2> QED
    BY <2>1, <2>2, NoEscrowNothing
<1> QED
  BY <1>2, <1>3, <1>4, <1>5

LEMMA TaskStepMoney ==
    ASSUME MInv, NEW h \in Handlers, TaskStep(h)
    PROVE  MoneyAgrees'
<1>1. /\ task \in [Tasks -> TaskRow] /\ slot \in [Handlers -> Slot]
      /\ slot[h] \in Slot
  BY DEF MInv, BInv, IInv, TypeOK
<1>2. ASSUME NEW s, slot' = [slot EXCEPT ![h] = s], UNCHANGED txs,
             \A t \in Tasks :
                 /\ Tells(task'[t].status, txs[t])
                 /\ IF t \in stale' THEN Has(txs[t], "escrow")
                                    ELSE Told(task'[t].status, txs[t]),
             s.op \in {"reprice", "update", "save"} =>
                 Tells(s.row.status, txs[s.task])
      PROVE  MoneyAgrees'
  <2>1. ASSUME NEW g \in Handlers, slot'[g].op \in {"reprice", "update", "save"}
        PROVE  Tells(slot'[g].row.status, txs[slot'[g].task])
    <3>1. CASE g = h
      BY <1>1, <1>2, <2>1, <3>1
    <3>2. CASE g # h
      BY <1>1, <1>2, <2>1, <3>2 DEF MInv, MoneyAgrees
    <3> QED
      BY <3>1, <3>2
  <2> QED
    BY <1>2, <2>1 DEF MInv, MoneyAgrees
<1>3. ASSUME NEW s, slot' = [slot EXCEPT ![h] = s], UNCHANGED <<task, txs, stale>>,
             s.op \in {"reprice", "update", "save"} =>
                 Tells(s.row.status, txs[s.task])
      PROVE  MoneyAgrees'
  BY <1>2, <1>3 DEF MInv, MoneyAgrees
<1>4. ASSUME NEW t \in Tasks, CreateTaskInsert(h, t) PROVE MoneyAgrees'
  <2>1. /\ slot' = [slot EXCEPT ![h] = Idle] /\ UNCHANGED <<txs, stale>>
        /\ task'[t].status = "open" /\ txs[t] = <<>>
        /\ \A v \in Tasks : v # t => task'[v] = task[v]
    BY <1>1, <1>4 DEF CreateTaskInsert, Goto, NoTaskRow, MInv, BInv, Owned, Exists
  <2>2. t \notin stale
    BY <2>1 DEF MInv, MoneyAgrees, Has
  <2>3. Tells("open", txs[t]) /\ Told("open", txs[t])
    BY <2>1 DEF Tells, Told, Has
  <2>4. ASSUME NEW v \in Tasks
        PROVE  /\ Tells(task'[v].status, txs[v])
               /\ IF v \in stale' THEN Has(txs[v], "escrow")
                                  ELSE Told(task'[v].status, txs[v])
    BY <2>1, <2>2, <2>3 DEF MInv, MoneyAgrees
  <2> QED
    BY <1>2, <2>1, <2>4, IdleHires
<1>5. ASSUME SaveTask(h) PROVE MoneyAgrees'
  <2>1. PICK t \in Tasks, row \in TaskRow :
              /\ task' = [task EXCEPT ![t] = row]
              /\ Tells(row.status, txs[t])
              /\ IF row.status = task[t].status THEN stale' = stale
                 ELSE stale' = stale \cup {t} /\ Has(txs[t], "escrow")
    BY <1>5, SaveTaskFacts
  <2>2. slot' = [slot EXCEPT ![h] = AfterSave(slot[h])] /\ UNCHANGED txs
    BY <1>5 DEF SaveTask, Goto
  <2>3. AfterSave(slot[h]).op \notin {"reprice", "update", "save"}
    BY <1>5, IdleHires DEF SaveTask, AfterSave
  <2>4. task'[t] = row /\ \A v \in Tasks : v # t => task'[v] = task[v]
    BY <1>1, <2>1
  <2>5. ASSUME NEW v \in Tasks
        PROVE  /\ Tells(task'[v].status, txs[v])
               /\ IF v \in stale' THEN Has(txs[v], "escrow")
                                  ELSE Told(task'[v].status, txs[v])
    <3>1. CASE v = t
      BY <2>1, <2>4, <3>1 DEF MInv, MoneyAgrees
    <3>2. CASE v # t
      BY <2>1, <2>4, <3>2 DEF MInv, MoneyAgrees
    <3> QED
      BY <3>1, <3>2
  <2> QED
    BY <1>2, <2>2, <2>3, <2>5
<1>6. ASSUME NEW u \in Users, NEW t \in Tasks, NEW price \in Prices,
             UpdateTask(h, u, t, price)
      PROVE  MoneyAgrees'
  <2>1. PICK s : s = [op |-> "reprice", task |-> t, row |-> task[t], price |-> price]
    OBVIOUS
  <2>2. Tells(s.row.status, txs[s.task])
    BY <2>1 DEF MInv, MoneyAgrees
  <2> QED
    BY <1>3, <1>6, <2>1, <2>2 DEF UpdateTask, Goto
<1>7. ASSUME UpdateTaskCheck(h) PROVE MoneyAgrees'
  <2>1. PICK row \in TaskRow : row = slot[h].row /\ Tells(row.status, txs[slot[h].task])
    BY <1>1, <1>7, SlotFacts DEF UpdateTaskCheck, MInv, MoneyAgrees
  <2>2. PICK saved : saved = [row EXCEPT !.price = slot[h].price]
    OBVIOUS
  <2>3. saved.status = row.status
    BY <2>2 DEF TaskRow
  <2>4. PICK s : s = [op |-> "update", task |-> slot[h].task, row |-> saved]
    OBVIOUS
  <2>5. Tells(s.row.status, txs[s.task])
    BY <2>1, <2>3, <2>4
  <2> QED
    BY <1>3, <1>7, <2>1, <2>2, <2>4, <2>5 DEF UpdateTaskCheck, Goto
<1>8. ASSUME AssignTasker(h) PROVE MoneyAgrees'
  <2>1. PICK t \in Tasks : t = slot[h].task
    BY <1>1, <1>8, SlotFacts DEF AssignTasker
  <2>2. PICK row : row = [task[t] EXCEPT !.tasker = app[slot[h].app].tasker]
    OBVIOUS
  <2>3. row.status = task[t].status
    BY <1>1, <2>2 DEF TaskRow
  <2>4. PICK s : s = [op |-> "save", task |-> t, app |-> slot[h].app, row |-> row]
    OBVIOUS
  <2>5. Tells(s.row.status, txs[s.task])
    BY <2>3, <2>4 DEF MInv, MoneyAgrees
  <2> QED
    BY <1>3, <1>8, <2>1, <2>2, <2>4, <2>5 DEF AssignTasker, Goto
<1>9. ASSUME ~(\E t \in Tasks : CreateTaskInsert(h, t)), ~SaveTask(h),
             ~(\E u \in Users, t \in Tasks, price \in Prices : UpdateTask(h, u, t, price)),
             ~UpdateTaskCheck(h), ~AssignTasker(h)
      PROVE  MoneyAgrees'
  <2>1. UNCHANGED <<task, txs, stale>>
    BY <1>9 DEF TaskStep, Arrive, Continue, CreateTask, ApplyForTask, ApplyInsert,
       AcceptApplication, AcceptMark, DeleteTask, ListOthers, RejectOther, AcceptDone, Abandon
  <2>2. \E s : /\ slot' = [slot EXCEPT ![h] = s]
               /\ s.op \notin {"reprice", "update", "save"}
    <3>1. slot[h].op = "accept" => [slot[h] EXCEPT !.op = "assign"].op = "assign"
      BY <1>1 DEF Slot, Idle
    <3>2. \A a : slot[h].op = "reject" =>
             [slot[h] EXCEPT !.others = slot[h].others \ {a}].op = "reject"
      BY <1>1 DEF Slot, Idle
    <3>3. ASSUME AcceptMark(h)
          PROVE  \E s : /\ slot' = [slot EXCEPT ![h] = s]
                        /\ s.op \notin {"reprice", "update", "save"}
      BY <3>1, <3>3 DEF AcceptMark, Goto
    <3>4. ASSUME NEW a \in Apps, RejectOther(h, a)
          PROVE  \E s : /\ slot' = [slot EXCEPT ![h] = s]
                        /\ s.op \notin {"reprice", "update", "save"}
      BY <3>2, <3>4 DEF RejectOther, Goto
    <3>5. ASSUME AcceptDone(h) \/ Abandon(h) \/ \E a \in Apps : ApplyInsert(h, a)
          PROVE  \E s : /\ slot' = [slot EXCEPT ![h] = s]
                        /\ s.op \notin {"reprice", "update", "save"}
      BY <3>5, IdleHires DEF AcceptDone, Abandon, ApplyInsert, Goto
    <3>6. ASSUME NEW u \in Users, NEW price \in Prices, CreateTask(h, u, price)
          PROVE  \E s : /\ slot' = [slot EXCEPT ![h] = s]
                        /\ s.op \notin {"reprice", "update", "save"}
      <4>1. PICK s : s = [op |-> "create", task |-> NoTask, user |-> u, price |-> price]
        OBVIOUS
      <4>2. s.op = "create" /\ slot' = [slot EXCEPT ![h] = s]
        BY <3>6, <4>1 DEF CreateTask, Goto
      <4> QED
        BY <4>2
    <3>7. ASSUME NEW u \in Users, NEW t \in Tasks, NEW price \in Offers,
                 ApplyForTask(h, u, t, price)
          PROVE  \E s : /\ slot' = [slot EXCEPT ![h] = s]
                        /\ s.op \notin {"reprice", "update", "save"}
      <4>1. PICK s : s = [op |-> "apply", task |-> t, user |-> u, price |-> price]
        OBVIOUS
      <4>2. s.op = "apply" /\ slot' = [slot EXCEPT ![h] = s]
        BY <3>7, <4>1 DEF ApplyForTask, Goto
      <4> QED
        BY <4>2
    <3>8. ASSUME NEW u \in Users, NEW a \in Apps, AcceptApplication(h, u, a)
          PROVE  \E s : /\ slot' = [slot EXCEPT ![h] = s]
                        /\ s.op \notin {"reprice", "update", "save"}
      <4>1. PICK s : s = [op |-> "accept", task |-> app[a].task, app |-> a]
        OBVIOUS
      <4>2. s.op = "accept" /\ slot' = [slot EXCEPT ![h] = s]
        BY <3>8, <4>1 DEF AcceptApplication, Goto
      <4> QED
        BY <4>2
    <3>9. ASSUME NEW u \in Users, NEW t \in Tasks, DeleteTask(h, u, t)
          PROVE  \E s : /\ slot' = [slot EXCEPT ![h] = s]
                        /\ s.op \notin {"reprice", "update", "save"}
      <4>1. PICK s : s = [op |-> "delete", task |-> t,
                          row |-> [task[t] EXCEPT !.status = "cancelled"],
                          others |-> {a \in {b \in Apps : app[b].task = t} :
                                        app[a].status = "pending"}]
        OBVIOUS
      <4>2. s.op = "delete" /\ slot' = [slot EXCEPT ![h] = s]
        BY <3>9, <4>1 DEF DeleteTask, Goto
      <4> QED
        BY <4>2
    <3>10. ASSUME ListOthers(h)
          PROVE  \E s : /\ slot' = [slot EXCEPT ![h] = s]
                        /\ s.op \notin {"reprice", "update", "save"}
      <4>1. PICK s : s = [op |-> "reject", task |-> slot[h].task,
                          others |-> {a \in Apps \ {slot[h].app} :
                             app[a].task = slot[h].task /\ app[a].status = "pending"}]
        OBVIOUS
      <4>2. s.op = "reject" /\ slot' = [slot EXCEPT ![h] = s]
        BY <3>10, <4>1 DEF ListOthers, Goto
      <4> QED
        BY <4>2
    <3> QED
      BY <1>9, <3>3, <3>4, <3>5, <3>6, <3>7, <3>8, <3>9, <3>10 DEF TaskStep, Arrive, Continue
  <2> QED
    BY <1>3, <2>1, <2>2
<1> QED
  BY <1>4, <1>5, <1>6, <1>7, <1>8, <1>9

LEMMA MoneyInvariance == Spec => []MInv
<1>1. Init => MoneyAgrees
  BY DEF Init, MoneyAgrees, Tells, Told, Priced, Has, NoTaskRow, Idle
<1>2. ASSUME MInv, [Next]_vars PROVE MoneyAgrees'
  <2>1. CASE WalletStep \/ UNCHANGED vars
    BY <1>2, <2>1 DEF WalletStep, Deposit, Withdraw, vars, MInv, MoneyAgrees
  <2> QED
    BY <1>2, <2>1, PaymentMoney, TaskStepMoney DEF Next
<1> QED
  BY <1>1, <1>2, BooksInvariance, HiringInvariance, PTL DEF Spec, MInv

(* Whatever rows the handlers save over newer ones, a task in progress was *)
(* charged, a completed one paid, and a cancelled one refunded if it was   *)
(* charged; and where no status was overwritten, an open task was not      *)
(* charged and the money of a task was paid out only as its status says.   *)
THEOREM StatusMatchesMoneyHolds == Spec => []StatusMatchesMoney
  BY MoneyInvariance, MInvIsStatusMatchesMoney, PTL

(* No payment and no other step of a handler than a save over a status     *)
(* that changed since it was read reopens a completed or cancelled task or *)
(* moves its money.                                                        *)
THEOREM SettledIsFinalHolds == Spec => SettledIsFinal
<1> DEFINE Final == \A t \in Tasks : task[t].status \in Settled /\ t \notin stale' =>
                        task'[t].status = task[t].status /\ txs'[t] = txs[t]
<1>1. ASSUME MInv, [Next]_vars PROVE [Final]_vars
  <2>0. task \in [Tasks -> TaskRow]
    BY <1>1 DEF MInv, BInv, IInv, TypeOK
  <2>1. CASE WalletStep \/ UNCHANGED vars
    BY <2>1 DEF WalletStep, Deposit, Withdraw, vars
  <2>2. ASSUME NEW v \in Tasks, NEW u \in Users,
               \/ CreateEscrowPayment(v, u) \/ ReleasePayment(v, u)
               \/ ReleaseAgain(v, u) \/ RefundPayment(v, u)
        PROVE  Final
    <3>1. /\ task[v].status \in {"open", "in_progress"}
          /\ \E status : task' = [task EXCEPT ![v].status = status]
          /\ \E s : txs' = [txs EXCEPT ![v] = s]
      <4>1. txs \in [Tasks -> Seq(TxRow)] 
        BY <1>1 DEF MInv, BInv, IInv, TypeOK
      <4>2. txs = [txs EXCEPT ![v] = txs[v]]
        BY <4>1
      <4> QED
        BY <1>1, <2>2, <4>2, ReleasePaymentFacts
           DEF CreateEscrowPayment, ReleasePayment, ReleaseAgain, RefundPayment
    <3>2. \A t \in Tasks : t # v => task'[t] = task[t] /\ txs'[t] = txs[t]
      BY <2>0, <3>1
    <3> QED
      BY <3>1, <3>2 DEF Settled
  <2>3. ASSUME NEW h \in Handlers, TaskStep(h) PROVE Final
    <3>1. CASE SaveTask(h)
      <4>1. PICK t \in Tasks, row \in TaskRow :
              /\ task' = [task EXCEPT ![t] = row]
              /\ IF row.status = task[t].status THEN stale' = stale
                 ELSE stale' = stale \cup {t} /\ Has(txs[t], "escrow")
        BY <1>1, <3>1, SaveTaskFacts
      <4>2. task'[t] = row /\ \A v \in Tasks : v # t => task'[v] = task[v]
        BY <2>0, <4>1
      <4>3. txs' = txs /\ (t \notin stale' => task'[t].status = task[t].status)
        BY <3>1, <4>1, <4>2 DEF SaveTask
      <4> QED
        BY <4>2, <4>3
    <3>2. CASE \E t \in Tasks : CreateTaskInsert(h, t)
      BY <2>0, <3>2 DEF CreateTaskInsert, NoTaskRow, Settled
    <3>3. CASE ~SaveTask(h) /\ ~(\E t \in Tasks : CreateTaskInsert(h, t))
      <4>1. UNCHANGED <<task, txs>>
        BY <2>3, <3>3 DEF TaskStep, Arrive, Continue, CreateTask, UpdateTask,
           UpdateTaskCheck, ApplyForTask, ApplyInsert, AcceptApplication, AcceptMark,
           AssignTasker, DeleteTask, ListOthers, RejectOther, AcceptDone, Abandon
      <4> QED
        BY <4>1
    <3> QED
      BY <3>1, <3>2, <3>3
  <2> QED
    BY <1>1, <2>1, <2>2, <2>3 DEF Next, PaymentStep
<1> QED
  BY <1>1, MoneyInvariance, PTL DEF Spec, SettledIsFinal

-----------------------------------------------------------------------------
(* The escrow keeps its promise.                                           *)

Deals == [t \in Tasks |-> Deal(t)]

(* The deal of a task, from its history, its row and whether its status    *)
(* was overwritten.                                                        *)
DealOf(s, row, over) ==
    IF ~Has(s, "escrow")
    THEN [state |-> "none", payer |-> NoUser, amount |-> 0,
          paid |-> FALSE, returned |-> FALSE, overwritten |-> FALSE]
    ELSE [state |-> IF row.status \in Settled THEN "settled" ELSE "held",
          payer |-> row.requester, amount |-> s[1].amount,
          paid |-> Has(s, "release"), returned |-> Has(s, "refund"),
          overwritten |-> over]

LEMMA DealOfFacts ==
    ASSUME NEW s, NEW row, NEW over, Has(s, "escrow"),
           NEW paid, paid = Has(s, "release"), NEW returned, returned = Has(s, "refund")
    PROVE  DealOf(s, row, over) =
             [state |-> IF row.status \in Settled THEN "settled" ELSE "held",
              payer |-> row.requester, amount |-> s[1].amount,
              paid |-> paid, returned |-> returned, overwritten |-> over]
  BY DEF DealOf

DealsAreOfHistories ==
    Deals = [t \in Tasks |-> DealOf(txs[t], task[t], t \in stale)]

LEMMA DealFacts == IInv => DealsAreOfHistories
<1> SUFFICES ASSUME IInv, NEW t \in Tasks
             PROVE  Deal(t) = DealOf(txs[t], task[t], t \in stale)
  BY DEF DealsAreOfHistories, Deals
<1>1. \A type : HasTx(t, type) = Has(txs[t], type)
  BY DEF HasTx, Has
<1>2. Has(txs[t], "escrow") => EscrowTx(t) = txs[t][1]
  BY EscrowIsFirst
<1>3. CASE Has(txs[t], "escrow")
  BY <1>1, <1>2, <1>3 DEF Deal, DealOf
<1>4. CASE ~Has(txs[t], "escrow")
  BY <1>1, <1>4 DEF Deal, DealOf
<1> QED
  BY <1>3, <1>4

LEMMA DealFactsNext == IInv' => DealsAreOfHistories'
  BY DealFacts, PTL

(* What the deals are after a step that is about one task.                 *)
LEMMA OneDeal ==
    ASSUME MInv, IInv', NEW t \in Tasks,
           \A v \in Tasks : v # t =>
               txs'[v] = txs[v] /\ task'[v] = task[v] /\ (v \in stale' <=> v \in stale)
    PROVE  /\ Deals' = [Deals EXCEPT ![t] = DealOf(txs'[t], task'[t], t \in stale')]
           /\ Deals[t] = DealOf(txs[t], task[t], t \in stale)
<1>1. /\ Deals = [v \in Tasks |-> DealOf(txs[v], task[v], v \in stale)]
      /\ Deals' = [v \in Tasks |-> DealOf(txs'[v], task'[v], v \in stale')]
  BY DealFacts, DealFactsNext DEF MInv, BInv, DealsAreOfHistories
<1>2. Deals[t] = DealOf(txs[t], task[t], t \in stale)
  BY <1>1
<1>3. PICK deal : deal = DealOf(txs'[t], task'[t], t \in stale')
  OBVIOUS
<1>4. ASSUME NEW v \in Tasks, v # t
      PROVE  DealOf(txs'[v], task'[v], v \in stale') = Deals[v]
  <2>1. txs'[v] = txs[v] /\ task'[v] = task[v] /\ (v \in stale') = (v \in stale)
    BY <1>4
  <2> QED
    BY <1>1, <2>1
<1>5. Deals' = [v \in Tasks |-> IF v = t THEN deal ELSE Deals[v]]
  BY <1>1, <1>3, <1>4
<1>6. Deals' = [Deals EXCEPT ![t] = deal]
  BY <1>1, <1>5
<1> QED
  BY <1>2, <1>3, <1>6

(* The deals do not see the rest of the rows.                              *)
LEMMA SameDeals ==
    ASSUME MInv, IInv', UNCHANGED <<txs, stale>>,
           \A t \in Tasks :
               \/ txs[t] = <<>>
               \/ /\ task'[t].status = task[t].status
                  /\ task'[t].requester = task[t].requester
    PROVE  Deals' = Deals
<1>1. /\ Deals = [v \in Tasks |-> DealOf(txs[v], task[v], v \in stale)]
      /\ Deals' = [v \in Tasks |-> DealOf(txs'[v], task'[v], v \in stale')]
  BY DealFacts, DealFactsNext DEF MInv, BInv, DealsAreOfHistories
<1>2. ASSUME NEW t \in Tasks
      PROVE  DealOf(txs'[t], task'[t], t \in stale') = DealOf(txs[t], task[t], t \in stale)
  <2>1. CASE txs[t] = <<>>
    BY <2>1 DEF DealOf, Has
  <2>2. CASE /\ task'[t].status = task[t].status
             /\ task'[t].requester = task[t].requester
    BY <2>2 DEF DealOf
  <2> QED
    BY <2>1, <2>2
<1> QED
  BY <1>1, <1>2

LEMMA InitPromise == Init => Promise!Init
<1> SUFFICES ASSUME Init PROVE Promise!Init
  OBVIOUS
<1>1. \A u \in Users : wallet[u].balance = 0
  BY DEF Init, EmptyWallet
<1>2. \A t \in Tasks : Deal(t) = Promise!NoDeal
  BY DEF Init, Deal, HasTx, Promise!NoDeal
<1> QED
  BY <1>1, <1>2 DEF Promise!Init

(* Each way to move money is a step of the promise.                        *)
LEMMA WalletStepPromise ==
    ASSUME MInv, IInv', WalletStep
    PROVE  \E u \in Users : Promise!Transfer(u)
<1>1. /\ wallet \in [Users -> WalletRow] /\ wallet' \in [Users -> WalletRow]
      /\ UNCHANGED <<task, txs, stale>>
  BY DEF MInv, BInv, IInv, TypeOK, WalletStep, Deposit, Withdraw
<1>2. PICK u \in Users : \E w : wallet' = [wallet EXCEPT ![u] = w]
  BY <1>1 DEF WalletStep, Deposit, Withdraw
<1>3. Deals' = Deals
  BY <1>1, SameDeals
<1>4. [t \in Tasks |-> Deal(t)]' = [t \in Tasks |-> Deal(t)]
  BY <1>3 DEF Deals
<1>5. wallet'[u].balance \in Nat /\ \A v \in Users \ {u} : wallet'[v] = wallet[v]
  BY <1>1, <1>2 DEF WalletRow
<1> QED
  BY <1>4, <1>5 DEF Promise!Transfer

LEMMA ChargePromise ==
    ASSUME MInv, IInv', NEW t \in Tasks, NEW u \in Users, CreateEscrowPayment(t, u)
    PROVE  \E price \in Prices : Promise!Charge(t, u, price)
<1>0. task \in [Tasks -> TaskRow] /\ txs \in [Tasks -> Seq(TxRow)]
  BY DEF MInv, BInv, IInv, TypeOK
<1>1. txs[t] = <<>> /\ task[t].requester = u /\ t \notin stale
  BY CreateEscrowPaymentFacts
<1>2. PICK price \in Prices, row \in TxRow :
           /\ row.type = "escrow" /\ row.amount = price
           /\ txs' = [txs EXCEPT ![t] = <<row>>]
           /\ Has(<<row>>, "escrow")
           /\ ~Has(<<row>>, "release") /\ ~Has(<<row>>, "refund")
           /\ wallet[u].balance >= price
           /\ Purse(wallet') = [Purse(wallet) EXCEPT ![u] = @ - price]
  BY CreateEscrowPaymentFacts
<1>3. /\ task' = [task EXCEPT ![t].status = "in_progress"] /\ stale' = stale
      /\ txs'[t] = <<row>>
      /\ \A v \in Tasks : v # t => txs'[v] = txs[v] /\ task'[v] = task[v]
  BY <1>0, <1>2 DEF CreateEscrowPayment
<1>4. task'[t].status = "in_progress" /\ task'[t].requester = u
  BY <1>0, <1>1, <1>3 DEF TaskRow
<1>5. /\ Deals' = [Deals EXCEPT ![t] = DealOf(<<row>>, task'[t], t \in stale')]
      /\ Deals[t] = DealOf(<<>>, task[t], t \in stale)
  BY <1>1, <1>3, OneDeal
<1>6. PICK no : no = FALSE
  OBVIOUS
<1>7. DealOf(<<row>>, task'[t], t \in stale') =
        [state |-> "held", payer |-> u, amount |-> price,
         paid |-> no, returned |-> no, overwritten |-> no]
  <2>1. (t \in stale') = no
    <3>1. (t \in stale') = FALSE
      BY <1>1, <1>3
    <3> QED
      BY <1>6, <3>1
  <2>2. no = Has(<<row>>, "release") /\ no = Has(<<row>>, "refund")
    BY <1>2, <1>6 DEF Has
  <2>3. DealOf(<<row>>, task'[t], no) =
          [state |-> IF task'[t].status \in Settled THEN "settled" ELSE "held",
           payer |-> task'[t].requester, amount |-> <<row>>[1].amount,
           paid |-> no, returned |-> no, overwritten |-> no]
    BY <1>2, <2>2, DealOfFacts
  <2>4. <<row>>[1].amount = price /\ task'[t].status \notin Settled
    BY <1>2, <1>4 DEF Settled
  <2> QED
    BY <1>4, <2>1, <2>3, <2>4
<1>8. /\ Deals[t] = Promise!NoDeal
      /\ Deals[t] = [state |-> "none", payer |-> NoUser, amount |-> 0,
                     paid |-> no, returned |-> no, overwritten |-> no]
  <2>1. ~Has(<<>>, "escrow")
    BY DEF Has
  <2>2. Deals[t] = Promise!NoDeal
    BY <1>5, <2>1 DEF DealOf, Promise!NoDeal
  <2> QED
    BY <1>6, <2>2 DEF Promise!NoDeal
<1>9. Deals' = [Deals EXCEPT ![t].state = "held", ![t].payer = u, ![t].amount = price]
  <2>1. [Deals[t] EXCEPT !.state = "held", !.payer = u, !.amount = price] =
        [state |-> "held", payer |-> u, amount |-> price,
         paid |-> no, returned |-> no, overwritten |-> no]
    <3> DEFINE one == [Deals[t] EXCEPT !.state = "held"]
               two == [one EXCEPT !.payer = u]
    <3>1. one = [state |-> "held", payer |-> NoUser, amount |-> 0,
                 paid |-> no, returned |-> no, overwritten |-> no]
      BY <1>8
    <3> HIDE DEF one
    <3>2. two = [state |-> "held", payer |-> u, amount |-> 0,
                 paid |-> no, returned |-> no, overwritten |-> no]
      BY <3>1
    <3> HIDE DEF two
    <3>3. [two EXCEPT !.amount = price] =
            [state |-> "held", payer |-> u, amount |-> price,
             paid |-> no, returned |-> no, overwritten |-> no]
      BY <3>2
    <3> QED
      BY <3>3 DEF one, two
  <2> QED
    BY <1>5, <1>7, <2>1 DEF Deals
<1> QED
  BY <1>2, <1>8, <1>9 DEF Promise!Charge, Deals, Purse

LEMMA PayPromise ==
    ASSUME MInv, IInv', NEW t \in Tasks, NEW u \in Users, ReleasePayment(t, u)
    PROVE  \E payee \in Users : Promise!Pay(t, payee)
<1>0. task \in [Tasks -> TaskRow] /\ txs \in [Tasks -> Seq(TxRow)]
  BY DEF MInv, BInv, IInv, TypeOK
<1>1. /\ task[t].status = "in_progress"
      /\ Has(txs[t], "escrow") /\ ~Has(txs[t], "release")
      /\ task[t].requester = u /\ task[t].tasker \in Users
      /\ Purse(wallet') =
            [Purse(wallet) EXCEPT ![task[t].tasker] =
                @ + txs[t][1].amount - PlatformFee[txs[t][1].amount]]
  BY ReleasePaymentFacts
<1>2. PICK s \in Seq(TxRow) :
           /\ txs' = [txs EXCEPT ![t] = s]
           /\ Has(s, "escrow") /\ s[1] = txs[t][1]
           /\ Has(s, "release") /\ (Has(s, "refund") <=> Has(txs[t], "refund"))
  BY ReleasePaymentFacts
<1>3. /\ task' = [task EXCEPT ![t].status = "completed"] /\ stale' = stale
      /\ txs'[t] = s
      /\ \A v \in Tasks : v # t => txs'[v] = txs[v] /\ task'[v] = task[v]
  BY <1>0, <1>2 DEF ReleasePayment
<1>4. task'[t].status = "completed" /\ task'[t].requester = u
  BY <1>0, <1>1, <1>3 DEF TaskRow
<1>5. /\ Deals' = [Deals EXCEPT ![t] = DealOf(s, task'[t], t \in stale')]
      /\ Deals[t] = DealOf(txs[t], task[t], t \in stale)
  BY <1>3, OneDeal
<1>6. PICK no, yes, refunded, over :
           /\ no = Has(txs[t], "release") /\ no = FALSE
           /\ yes = Has(s, "release") /\ yes = TRUE
           /\ refunded = Has(txs[t], "refund") /\ refunded = Has(s, "refund")
           /\ over = (t \in stale) /\ over = (t \in stale')
  <2>1. /\ Has(txs[t], "release") = FALSE /\ Has(s, "release") = TRUE
        /\ Has(txs[t], "refund") = Has(s, "refund")
        /\ (t \in stale) = (t \in stale')
    BY <1>1, <1>2, <1>3 DEF Has
  <2> QED
    BY <2>1
<1>7. /\ Deals[t] = [state |-> "held", payer |-> u, amount |-> txs[t][1].amount,
                     paid |-> no, returned |-> refunded, overwritten |-> over]
      /\ DealOf(s, task'[t], t \in stale') =
           [Deals[t] EXCEPT !.state = "settled", !.paid = TRUE]
  <2>1. DealOf(txs[t], task[t], over) =
          [state |-> IF task[t].status \in Settled THEN "settled" ELSE "held",
           payer |-> task[t].requester, amount |-> txs[t][1].amount,
           paid |-> no, returned |-> refunded, overwritten |-> over]
    BY <1>1, <1>6, DealOfFacts
  <2>2. DealOf(s, task'[t], over) =
          [state |-> IF task'[t].status \in Settled THEN "settled" ELSE "held",
           payer |-> task'[t].requester, amount |-> s[1].amount,
           paid |-> yes, returned |-> refunded, overwritten |-> over]
    BY <1>2, <1>6, DealOfFacts
  <2>3. /\ task[t].status \notin Settled /\ task'[t].status \in Settled
        /\ s[1].amount = txs[t][1].amount
    BY <1>1, <1>2, <1>4 DEF Settled
  <2>4. Deals[t] = [state |-> "held", payer |-> u, amount |-> txs[t][1].amount,
                    paid |-> no, returned |-> refunded, overwritten |-> over]
    BY <1>1, <1>5, <1>6, <2>1, <2>3
  <2>5. DealOf(s, task'[t], t \in stale') =
          [state |-> "settled", payer |-> u, amount |-> txs[t][1].amount,
           paid |-> yes, returned |-> refunded, overwritten |-> over]
    BY <1>4, <1>6, <2>2, <2>3
  <2>6. [Deals[t] EXCEPT !.state = "settled", !.paid = yes] =
          [state |-> "settled", payer |-> u, amount |-> txs[t][1].amount,
           paid |-> yes, returned |-> refunded, overwritten |-> over]
    <3> DEFINE one == [Deals[t] EXCEPT !.state = "settled"]
    <3>1. one = [state |-> "settled", payer |-> u, amount |-> txs[t][1].amount,
             paid |-> no, returned |-> refunded, overwritten |-> over]
      BY <2>4
    <3> HIDE DEF one
    <3>2. [one EXCEPT !.paid = yes] =
            [state |-> "settled", payer |-> u, amount |-> txs[t][1].amount,
             paid |-> yes, returned |-> refunded, overwritten |-> over]
      BY <3>1
    <3> QED
      BY <3>2 DEF one
  <2> QED
    BY <1>6, <2>4, <2>5, <2>6
<1>8. PICK payee \in Users : payee = task[t].tasker
  BY <1>1
<1>9. payee # u
  BY <1>1, <1>8, NilAssumption, HInvIsTaskerWasAccepted DEF MInv, TaskerWasAccepted
<1>10. /\ Deals[t].state = "held" /\ ~Deals[t].paid /\ payee # Deals[t].payer
       /\ Deals[t].amount = txs[t][1].amount
  BY <1>6, <1>7, <1>9
<1>11. Purse(wallet') = [Purse(wallet) EXCEPT ![payee] =
                          @ + Deals[t].amount - PlatformFee[Deals[t].amount]]
  BY <1>1, <1>8, <1>10
<1>12. Deals' = [Deals EXCEPT ![t].state = "settled", ![t].paid = TRUE]
  BY <1>5, <1>7 DEF Deals
<1> QED
  BY <1>10, <1>11, <1>12 DEF Promise!Pay, Deals, Purse

LEMMA ReturnPromise ==
    ASSUME MInv, IInv', NEW t \in Tasks, NEW u \in Users, RefundPayment(t, u)
    PROVE  Promise!Return(t)
<1>0. task \in [Tasks -> TaskRow] /\ txs \in [Tasks -> Seq(TxRow)]
  BY DEF MInv, BInv, IInv, TypeOK
<1>1. /\ task[t].status = "in_progress" /\ task[t].requester = u
      /\ Has(txs[t], "escrow")
      /\ Purse(wallet') = [Purse(wallet) EXCEPT ![u] = @ + txs[t][1].amount]
  BY RefundPaymentFacts
<1>2. PICK s \in Seq(TxRow) :
           /\ txs' = [txs EXCEPT ![t] = s]
           /\ Has(s, "escrow") /\ s[1] = txs[t][1] /\ Has(s, "refund")
           /\ Has(s, "release") <=> Has(txs[t], "release")
  BY RefundPaymentFacts
<1>3. /\ task' = [task EXCEPT ![t].status = "cancelled"] /\ stale' = stale
      /\ txs'[t] = s
      /\ \A v \in Tasks : v # t => txs'[v] = txs[v] /\ task'[v] = task[v]
  BY <1>0, <1>2 DEF RefundPayment
<1>4. task'[t].status = "cancelled" /\ task'[t].requester = u
  BY <1>0, <1>1, <1>3 DEF TaskRow
<1>5. /\ Deals' = [Deals EXCEPT ![t] = DealOf(s, task'[t], t \in stale')]
      /\ Deals[t] = DealOf(txs[t], task[t], t \in stale)
  BY <1>3, OneDeal
<1>6. PICK released, before, yes, over :
           /\ released = Has(txs[t], "release") /\ released = Has(s, "release")
           /\ before = Has(txs[t], "refund")
           /\ yes = Has(s, "refund") /\ yes = TRUE
           /\ over = (t \in stale) /\ over = (t \in stale')
  <2>1. /\ Has(txs[t], "release") = Has(s, "release") /\ Has(s, "refund") = TRUE
        /\ (t \in stale) = (t \in stale')
    BY <1>1, <1>2, <1>3 DEF Has
  <2> QED
    BY <2>1
<1>7. /\ Deals[t] = [state |-> "held", payer |-> u, amount |-> txs[t][1].amount,
                     paid |-> released, returned |-> before, overwritten |-> over]
      /\ DealOf(s, task'[t], t \in stale') =
           [Deals[t] EXCEPT !.state = "settled", !.returned = TRUE]
  <2>1. DealOf(txs[t], task[t], over) =
          [state |-> IF task[t].status \in Settled THEN "settled" ELSE "held",
           payer |-> task[t].requester, amount |-> txs[t][1].amount,
           paid |-> released, returned |-> before, overwritten |-> over]
    BY <1>1, <1>6, DealOfFacts
  <2>2. DealOf(s, task'[t], over) =
          [state |-> IF task'[t].status \in Settled THEN "settled" ELSE "held",
           payer |-> task'[t].requester, amount |-> s[1].amount,
           paid |-> released, returned |-> yes, overwritten |-> over]
    BY <1>2, <1>6, DealOfFacts
  <2>3. /\ task[t].status \notin Settled /\ task'[t].status \in Settled
        /\ s[1].amount = txs[t][1].amount
    BY <1>1, <1>2, <1>4 DEF Settled
  <2>4. Deals[t] = [state |-> "held", payer |-> u, amount |-> txs[t][1].amount,
                    paid |-> released, returned |-> before, overwritten |-> over]
    BY <1>1, <1>5, <1>6, <2>1, <2>3
  <2>5. DealOf(s, task'[t], t \in stale') =
          [state |-> "settled", payer |-> u, amount |-> txs[t][1].amount,
           paid |-> released, returned |-> yes, overwritten |-> over]
    BY <1>4, <1>6, <2>2, <2>3
  <2>6. [Deals[t] EXCEPT !.state = "settled", !.returned = yes] =
          [state |-> "settled", payer |-> u, amount |-> txs[t][1].amount,
           paid |-> released, returned |-> yes, overwritten |-> over]
    <3> DEFINE one == [Deals[t] EXCEPT !.state = "settled"]
    <3>1. one = [state |-> "settled", payer |-> u, amount |-> txs[t][1].amount,
             paid |-> released, returned |-> before, overwritten |-> over]
      BY <2>4
    <3> HIDE DEF one
    <3>2. [one EXCEPT !.returned = yes] =
            [state |-> "settled", payer |-> u, amount |-> txs[t][1].amount,
             paid |-> released, returned |-> yes, overwritten |-> over]
      BY <3>1
    <3> QED
      BY <3>2 DEF one
  <2> QED
    BY <1>6, <2>4, <2>5, <2>6
<1>8. /\ Deals[t].state = "held" /\ Deals[t].payer = u
      /\ Deals[t].amount = txs[t][1].amount
  BY <1>7
<1>9. Purse(wallet') = [Purse(wallet) EXCEPT ![Deals[t].payer] = @ + Deals[t].amount]
  BY <1>1, <1>8
<1>10. Deals' = [Deals EXCEPT ![t].state = "settled", ![t].returned = TRUE]
  BY <1>5, <1>7 DEF Deals
<1> QED
  BY <1>8, <1>9, <1>10 DEF Promise!Return, Deals, Purse

(* A save over another status, and the completion that may follow it, are  *)
(* what the promise calls overwriting.                                     *)
LEMMA OverwritePromise ==
    ASSUME MInv, IInv', NEW t \in Tasks, NEW row \in TaskRow,
           UNCHANGED <<wallet, txs>>,
           task' = [task EXCEPT ![t] = row], row.requester = task[t].requester,
           stale' = stale \cup {t},
           Has(txs[t], "escrow"), Tells(row.status, txs[t])
    PROVE  Promise!Overwrite(t)
<1>1. task \in [Tasks -> TaskRow] /\ txs \in [Tasks -> Seq(TxRow)]
  BY DEF MInv, BInv, IInv, TypeOK
<1>2. /\ task'[t] = row /\ txs'[t] = txs[t] /\ (t \in stale') = TRUE
      /\ \A v \in Tasks : v # t =>
            txs'[v] = txs[v] /\ task'[v] = task[v] /\ (v \in stale' <=> v \in stale)
  BY <1>1
<1>3. /\ Deals' = [Deals EXCEPT ![t] = DealOf(txs[t], row, TRUE)]
      /\ Deals[t] = DealOf(txs[t], task[t], t \in stale)
  <2>1. /\ Deals' = [Deals EXCEPT ![t] = DealOf(txs'[t], task'[t], t \in stale')]
        /\ Deals[t] = DealOf(txs[t], task[t], t \in stale)
    BY <1>2, OneDeal
  <2> QED
    BY <1>2, <2>1
<1>4. PICK state : state = IF row.status \in Settled THEN "settled" ELSE "held"
  OBVIOUS
<1>5. PICK before : before = IF task[t].status \in Settled THEN "settled" ELSE "held"
  OBVIOUS
<1>0. PICK yes : yes = TRUE
  OBVIOUS
<1>6. PICK released, refunded, over :
           /\ released = Has(txs[t], "release") /\ refunded = Has(txs[t], "refund")
           /\ over = (t \in stale)
  OBVIOUS
<1>7. /\ Deals[t] = [state |-> before, payer |-> task[t].requester,
                     amount |-> txs[t][1].amount,
                     paid |-> released, returned |-> refunded, overwritten |-> over]
      /\ DealOf(txs[t], row, TRUE) =
           [Deals[t] EXCEPT !.state = state, !.overwritten = TRUE]
  <2>0. Has(txs[t], "escrow")
    OBVIOUS
  <2>1. DealOf(txs[t], task[t], over) =
          [state |-> IF task[t].status \in Settled THEN "settled" ELSE "held",
           payer |-> task[t].requester, amount |-> txs[t][1].amount,
           paid |-> released, returned |-> refunded, overwritten |-> over]
    BY <1>6, <2>0, DealOfFacts
  <2>2. DealOf(txs[t], row, yes) =
          [state |-> IF row.status \in Settled THEN "settled" ELSE "held",
           payer |-> row.requester, amount |-> txs[t][1].amount,
           paid |-> released, returned |-> refunded, overwritten |-> yes]
    BY <1>6, <2>0, DealOfFacts
  <2>3. Deals[t] = [state |-> before, payer |-> task[t].requester,
                    amount |-> txs[t][1].amount,
                    paid |-> released, returned |-> refunded, overwritten |-> over]
    BY <1>3, <1>5, <1>6, <2>1
  <2>4. DealOf(txs[t], row, yes) =
          [state |-> state, payer |-> task[t].requester, amount |-> txs[t][1].amount,
           paid |-> released, returned |-> refunded, overwritten |-> yes]
    BY <1>4, <2>2
  <2>5. [Deals[t] EXCEPT !.state = state, !.overwritten = yes] =
          [state |-> state, payer |-> task[t].requester, amount |-> txs[t][1].amount,
           paid |-> released, returned |-> refunded, overwritten |-> yes]
    <3> DEFINE one == [Deals[t] EXCEPT !.state = state]
    <3>1. one = [state |-> state, payer |-> task[t].requester, amount |-> txs[t][1].amount,
             paid |-> released, returned |-> refunded, overwritten |-> over]
      BY <2>3
    <3> HIDE DEF one
    <3>2. [one EXCEPT !.overwritten = yes] =
            [state |-> state, payer |-> task[t].requester, amount |-> txs[t][1].amount,
             paid |-> released, returned |-> refunded, overwritten |-> yes]
      BY <3>1
    <3> QED
      BY <3>2 DEF one
  <2> QED
    BY <1>0, <1>6, <2>3, <2>4, <2>5
<1>8. /\ state \in {"held", "settled"}
      /\ state = "settled" => Deals[t].paid \/ Deals[t].returned
  BY <1>4, <1>6, <1>7 DEF Tells, Settled
<1>9. Deals[t] # Promise!NoDeal
  <2>1. before # "none" /\ Deals[t].state = before /\ Promise!NoDeal.state = "none"
    BY <1>5, <1>7 DEF Promise!NoDeal
  <2> QED
    BY <2>1
<1>10. Deals' = [Deals EXCEPT ![t].state = state, ![t].overwritten = TRUE]
  BY <1>3, <1>7 DEF Deals
<1>11. [u \in Users |-> wallet[u].balance]' = [u \in Users |-> wallet[u].balance]
  OBVIOUS
<1> QED
  BY <1>8, <1>9, <1>10, <1>11 DEF Promise!Overwrite, Deals

LEMMA ReleaseAgainPromise ==
    ASSUME MInv, IInv', NEW t \in Tasks, NEW u \in Users, ReleaseAgain(t, u)
    PROVE  Promise!Overwrite(t)
<1>1. t \in stale /\ Has(txs[t], "release") /\ Has(txs[t], "escrow")
  BY ReleaseAgainFacts DEF MInv, MoneyAgrees
<1>2. task \in [Tasks -> TaskRow]
  BY DEF MInv, BInv, IInv, TypeOK
<1>3. PICK row : row = [task[t] EXCEPT !.status = "completed"]
  OBVIOUS
<1>4. /\ row \in TaskRow /\ row.requester = task[t].requester
      /\ row.status = "completed" 
  BY <1>2, <1>3 DEF TaskRow, TaskStatus
<1>5. /\ task' = [task EXCEPT ![t] = row] /\ UNCHANGED <<wallet, txs>>
      /\ stale' = stale \cup {t}
  BY <1>1, <1>3 DEF ReleaseAgain
<1>6. Tells(row.status, txs[t])
  BY <1>1, <1>4 DEF Tells
<1> QED
  BY <1>1, <1>4, <1>5, <1>6, OverwritePromise

LEMMA TaskStepPromise ==
    ASSUME MInv, IInv', NEW h \in Handlers, TaskStep(h)
    PROVE  \/ UNCHANGED wallet /\ Deals' = Deals
           \/ \E t \in Tasks : Promise!Overwrite(t)
<1>1. task \in [Tasks -> TaskRow]
  BY DEF MInv, BInv, IInv, TypeOK
<1>2. CASE SaveTask(h)
  <2>1. PICK t \in Tasks, row \in TaskRow :
              /\ task' = [task EXCEPT ![t] = row]
              /\ row.requester = task[t].requester
              /\ Tells(row.status, txs[t])
              /\ IF row.status = task[t].status THEN stale' = stale
                 ELSE stale' = stale \cup {t} /\ Has(txs[t], "escrow")
    BY <1>2, SaveTaskFacts
  <2>2. UNCHANGED <<wallet, txs>>
    BY <1>2 DEF SaveTask
  <2>3. CASE row.status = task[t].status
    <3>1. stale' = stale
      BY <2>1, <2>3
    <3>2. \A v \in Tasks : /\ task'[v].status = task[v].status
                           /\ task'[v].requester = task[v].requester
      BY <1>1, <2>1, <2>3
    <3> QED
      BY <2>2, <3>1, <3>2, SameDeals
  <2>4. CASE row.status # task[t].status
    BY <2>1, <2>2, <2>4, OverwritePromise
  <2> QED
    BY <2>3, <2>4
<1>3. CASE \E t \in Tasks : CreateTaskInsert(h, t)
  <2>1. PICK t \in Tasks : CreateTaskInsert(h, t)
    BY <1>3
  <2>2. /\ UNCHANGED <<wallet, txs, stale>> /\ txs[t] = <<>>
        /\ \A v \in Tasks : v # t => task'[v] = task[v]
    BY <1>1, <2>1 DEF CreateTaskInsert, NoTaskRow, MInv, BInv, Owned, Exists
  <2> QED
    BY <2>2, SameDeals
<1>4. CASE ~SaveTask(h) /\ ~(\E t \in Tasks : CreateTaskInsert(h, t))
  <2>1. UNCHANGED <<wallet, task, txs, stale>>
    BY <1>4 DEF TaskStep, Arrive, Continue, CreateTask, UpdateTask, UpdateTaskCheck,
       ApplyForTask, ApplyInsert, AcceptApplication, AcceptMark, AssignTasker, DeleteTask,
       ListOthers, RejectOther, AcceptDone, Abandon
  <2> QED
    BY <2>1, SameDeals
<1> QED
  BY <1>2, <1>3, <1>4

(* Whatever requests overlap, the detailed escrow implements the abstract  *)
(* one: a requester is charged once, the money is paid to somebody else    *)
(* less the fee at most once, and it is returned in full, or paid after it *)
(* was returned, only while it is held; what was settled is held again     *)
(* only by a save over a status that the handler had not read.             *)
THEOREM PromiseKeptHolds == Spec => PromiseKept
<1> DEFINE purses == [u \in Users |-> wallet[u].balance]
           deals == [t \in Tasks |-> Deal(t)]
<1>1. ASSUME MInv, MInv', [Next]_vars PROVE [Promise!Next]_<<purses, deals>>
  <2>0. IInv'
    BY <1>1 DEF MInv, BInv
  <2>1. CASE WalletStep
    BY <1>1, <2>0, <2>1, WalletStepPromise DEF Promise!Next
  <2>2. CASE PaymentStep
    BY <1>1, <2>0, <2>2, ChargePromise, PayPromise, ReturnPromise, ReleaseAgainPromise
       DEF PaymentStep, Promise!Next
  <2>3. ASSUME NEW h \in Handlers, TaskStep(h)
        PROVE  [Promise!Next]_<<purses, deals>>
    <3>1. CASE UNCHANGED wallet /\ Deals' = Deals
      BY <3>1 DEF Deals
    <3>2. CASE \E t \in Tasks : Promise!Overwrite(t)
      BY <3>2 DEF Promise!Next
    <3> QED
      BY <1>1, <2>0, <2>3, <3>1, <3>2, TaskStepPromise
  <2>4. CASE UNCHANGED vars
    <3>1. Deals' = Deals
      BY <1>1, <2>0, <2>4, SameDeals DEF vars
    <3> QED
      BY <2>4, <3>1 DEF vars, Deals
  <2> QED
    BY <1>1, <2>1, <2>2, <2>3, <2>4 DEF Next
<1> QED
  BY <1>1, InitPromise, MoneyInvariance, PTL DEF Spec, PromiseKept, Promise!Spec
=============================================================================
