-------------------------- MODULE DepositsProofs ---------------------------
(***************************************************************************)
(* Theorems about Deposits, for any users, orders, transfers, amounts and  *)
(* number of webhook calls, any of which may stop between two steps.       *)
(***************************************************************************)
EXTENDS Deposits, WalletProofs

(* An order that was stored, with whom it credits and how much.            *)
Known(O, o) == o \in Orders /\ O[o].payer \in Users /\ O[o].amount \in Amounts

(* A call on its way to a credit.                                          *)
Holds(s) == s.op \in {"read", "mark", "credit"}

(* Links, transfers and references are of stored orders; what is credited  *)
(* was recorded.                                                           *)
Rows(O, L, T, R, C) ==
    /\ \A o \in Orders : O[o] # NoOrderRow \/ L[o] # "none" => Known(O, o)
    /\ \A r \in Transfers : T[r] # NoOrder => Known(O, T[r])
    /\ \A r \in R : T[r] # NoOrder
    /\ C \subseteq R

(* The transfer that a call holds is recorded and not yet credited.        *)
Call(s, O, R, C) ==
    /\ Holds(s) => s.transfer \in R /\ s.transfer \notin C
    /\ s.op = "close" => s.transfer \in R
    /\ s.op = "cancel" => Known(O, s.order)

(* No two calls hold the same transfer.                                    *)
Calls ==
    /\ \A h \in Handlers : Call(slot[h], order, refs, credited)
    /\ \A g, h \in Handlers :
          Holds(slot[g]) /\ Holds(slot[h]) /\ slot[g].transfer = slot[h].transfer => g = h

(* What the credited transfers are worth to a user.                        *)
CreditedTo(u, O, T, C) ==
    Total([r \in C |-> O[T[r]].amount], {r \in C : O[T[r]].payer = u})

Ledger(W, O, T, C) == \A u \in Users : W[u].deposited = CreditedTo(u, O, T, C)

DInv ==
    /\ DepositsTypeOK
    /\ Rows(order, link, transfer, refs, credited)
    /\ Calls
    /\ Ledger(wallet, order, transfer, credited)

LEMMA SlotFacts ==
    ASSUME NEW s \in Slot
    PROVE  /\ s.op \in {"read", "mark", "close", "credit"} => s.transfer \in Transfers
           /\ s.op = "cancel" => s.order \in Orders
           /\ s.op = "credit" => s.first \in BOOLEAN
  BY DEF Slot, Idle

LEMMA SlotTypes ==
    /\ Idle \in Slot
    /\ \A op \in {"read", "mark", "close"}, r \in Transfers :
          [op |-> op, transfer |-> r] \in Slot
    /\ \A r \in Transfers, b \in BOOLEAN :
          [op |-> "credit", transfer |-> r, first |-> b] \in Slot
    /\ \A o \in Orders : [op |-> "cancel", order |-> o] \in Slot
<1>1. Idle \in Slot
  BY DEF Slot
<1>2. \A op \in {"read", "mark", "close"}, r \in Transfers :
         [op |-> op, transfer |-> r] \in Slot
  BY DEF Slot
<1>3. \A r \in Transfers, b \in BOOLEAN :
         [op |-> "credit", transfer |-> r, first |-> b] \in Slot
  BY DEF Slot
<1>4. \A o \in Orders : [op |-> "cancel", order |-> o] \in Slot
  BY DEF Slot
<1> QED
  BY <1>1, <1>2, <1>3, <1>4

LEMMA IdleIsNoCall == \A O, R, C : Call(Idle, O, R, C) /\ ~Holds(Idle)
  BY DEF Call, Holds, Idle

-----------------------------------------------------------------------------
(* How the parts of the invariant are kept.                                *)

(* Stored orders keep payer and amount.                                    *)
Stay(O, P) ==
    \A o : Known(O, o) => Known(P, o) /\ P[o].payer = O[o].payer /\ P[o].amount = O[o].amount

LEMMA StaySame == \A O : Stay(O, O)
  BY DEF Stay

LEMMA LedgerStays ==
    ASSUME DInv, NEW P, Stay(order, P), NEW U,
           \A r \in Transfers : transfer[r] # NoOrder => U[r] = transfer[r]
    PROVE  Ledger(wallet, P, U, credited)
<1>1. ASSUME NEW r \in credited
      PROVE  P[U[r]].payer = order[transfer[r]].payer /\ P[U[r]].amount = order[transfer[r]].amount
  <2>1. r \in Transfers /\ transfer[r] # NoOrder
    BY <1>1 DEF DInv, DepositsTypeOK, Rows
  <2>2. Known(order, transfer[r]) /\ U[r] = transfer[r]
    BY <2>1 DEF DInv, Rows
  <2> QED
    BY <2>2 DEF Stay
<1>2. ASSUME NEW u \in Users
      PROVE  CreditedTo(u, P, U, credited) = CreditedTo(u, order, transfer, credited)
  <2>1. [r \in credited |-> P[U[r]].amount] = [r \in credited |-> order[transfer[r]].amount]
    BY <1>1
  <2>2. {r \in credited : P[U[r]].payer = u} = {r \in credited : order[transfer[r]].payer = u}
    BY <1>1
  <2> QED
    BY <2>1, <2>2 DEF CreditedTo
<1> QED
  BY <1>2 DEF DInv, Ledger

(* An order's status is written.                                           *)
LEMMA StatusWritten ==
    ASSUME DInv, NEW o, Known(order, o), NEW status \in {"success", "cancelled"},
           order' = [order EXCEPT ![o].status = status]
    PROVE  /\ order' \in [Orders -> OrderRow]
           /\ Stay(order, order')
           /\ Rows(order', link, transfer, refs, credited)
<1>1. order \in [Orders -> OrderRow] /\ o \in Orders
  BY DEF DInv, DepositsTypeOK, Known
<1>2. PICK row \in OrderRow : row = [order[o] EXCEPT !.status = status]
  BY <1>1 DEF OrderRow
<1>3. order' = [order EXCEPT ![o] = row]
  BY <1>1, <1>2
<1>4. row.payer = order[o].payer /\ row.amount = order[o].amount
  BY <1>1, <1>2 DEF OrderRow
<1>5. order' \in [Orders -> OrderRow]
  BY <1>1, <1>3
<1>6. Stay(order, order')
  BY <1>1, <1>3, <1>4 DEF Stay, Known
<1>7. \A p \in Orders : p = o \/ order'[p] = order[p]
  BY <1>1, <1>3
<1>8. Rows(order', link, transfer, refs, credited)
  BY <1>6, <1>7 DEF DInv, Rows, Stay
<1> QED
  BY <1>5, <1>6, <1>8

(* A call moves on, and credits no transfer but its own.                   *)
LEMMA CallMoves ==
    ASSUME DInv, NEW h \in Handlers, NEW s, slot' = [slot EXCEPT ![h] = s],
           Call(s, order', refs', credited'), Stay(order, order'), refs \subseteq refs',
           \A r \in credited' : r \in credited \/ (Holds(slot[h]) /\ slot[h].transfer = r),
           Holds(s) => \/ Holds(slot[h]) /\ s.transfer = slot[h].transfer
                       \/ s.transfer \notin refs
    PROVE  Calls'
<1>1. slot'[h] = s /\ \A g \in Handlers : g # h => slot'[g] = slot[g]
  BY DEF DInv, DepositsTypeOK
<1>2. ASSUME NEW g \in Handlers PROVE Call(slot'[g], order', refs', credited')
  <2>1. CASE g = h
    BY <1>1, <2>1
  <2>2. CASE g # h
    <3>1. Call(slot[g], order, refs, credited)
      BY DEF DInv, Calls
    <3>2. Holds(slot[g]) /\ Holds(slot[h]) => slot[g].transfer # slot[h].transfer
      BY <2>2 DEF DInv, Calls
    <3> QED
      BY <1>1, <2>2, <3>1, <3>2 DEF Call, Stay, Holds
  <2> QED
    BY <2>1, <2>2
<1>3. ASSUME NEW g \in Handlers, NEW k \in Handlers,
             Holds(slot'[g]), Holds(slot'[k]), slot'[g].transfer = slot'[k].transfer
      PROVE  g = k
  <2>1. ASSUME NEW j \in Handlers, j # h, Holds(slot[j]), Holds(s), slot[j].transfer = s.transfer
        PROVE  FALSE
    <3>1. slot[j].transfer \in refs
      BY <2>1 DEF DInv, Calls, Call
    <3>2. Holds(slot[h]) /\ s.transfer = slot[h].transfer
      BY <2>1, <3>1
    <3> QED
      BY <2>1, <3>2 DEF DInv, Calls
  <2>2. CASE g = h /\ k # h
    BY <1>1, <1>3, <2>1, <2>2
  <2>3. CASE g # h /\ k = h
    BY <1>1, <1>3, <2>1, <2>3
  <2>4. CASE g # h /\ k # h
    BY <1>1, <1>3, <2>4 DEF DInv, Calls
  <2> QED
    BY <2>2, <2>3, <2>4
<1> QED
  BY <1>2, <1>3 DEF Calls

(* The orders change, and no call moves.                                   *)
LEMMA CallsStay ==
    ASSUME DInv, Stay(order, order'), UNCHANGED <<refs, credited, slot>>
    PROVE  Calls'
<1>1. ASSUME NEW g \in Handlers PROVE Call(slot[g], order', refs, credited)
  <2>1. Call(slot[g], order, refs, credited)
    BY DEF DInv, Calls
  <2> QED
    BY <2>1 DEF Call, Stay
<1> QED
  BY <1>1 DEF DInv, Calls

-----------------------------------------------------------------------------
(* One lemma per step.                                                     *)

LEMMA InitDInv == Init => DInv
<1> SUFFICES ASSUME Init PROVE DInv
  OBVIOUS
<1>1. DepositsTypeOK
  <2>1. NoOrderRow \in OrderRow
    BY DEF NoOrderRow, OrderRow
  <2>2. wallet \in [Users -> WalletRow]
    BY EmptyWalletFacts DEF Init
  <2> QED
    BY <2>1, <2>2, SlotTypes DEF Init, DepositsTypeOK
<1>2. Rows(order, link, transfer, refs, credited)
  BY DEF Init, Rows
<1>3. Calls
  BY IdleIsNoCall DEF Init, Calls
<1>4. Ledger(wallet, order, transfer, credited)
  <2>1. ASSUME NEW u \in Users PROVE CreditedTo(u, order, transfer, credited) = 0
    <3>1. PICK f : f = [r \in {} |-> order[transfer[r]].amount]
      OBVIOUS
    <3>2. {r \in {} : order[transfer[r]].payer = u} = {}
      OBVIOUS
    <3> QED
      BY <3>1, <3>2, TotalOfNone DEF Init, CreditedTo
  <2> QED
    BY <2>1 DEF Init, Ledger, EmptyWallet
<1> QED
  BY <1>1, <1>2, <1>3, <1>4 DEF DInv

LEMMA RequestDepositInv ==
    ASSUME DInv, NEW u \in Users, NEW o \in Orders, NEW amount \in Amounts,
           RequestDeposit(u, o, amount)
    PROVE  DInv'
<1>1. PICK row : row = [status |-> "pending", payer |-> u, amount |-> amount]
  OBVIOUS
<1>2. row \in OrderRow /\ row.payer = u /\ row.amount = amount
  BY <1>1 DEF OrderRow
<1>3. order \in [Orders -> OrderRow] /\ order' = [order EXCEPT ![o] = row]
  BY <1>1 DEF RequestDeposit, DInv, DepositsTypeOK
<1>4. order' \in [Orders -> OrderRow] /\ DepositsTypeOK'
  BY <1>2, <1>3 DEF RequestDeposit, DInv, DepositsTypeOK
<1>5. ~Known(order, o)
  BY NoneAssumption DEF RequestDeposit, Known, NoOrderRow
<1>6. /\ \A p \in Orders : p # o => order'[p] = order[p]
      /\ Known(order', o)
  BY <1>2, <1>3 DEF Known
<1>7. Stay(order, order')
  BY <1>5, <1>6 DEF Stay, Known
<1>8. Rows(order', link, transfer, refs, credited)
  BY <1>6, <1>7 DEF DInv, Rows, Stay
<1>9. Calls'
  BY <1>7, CallsStay DEF RequestDeposit
<1>10. Ledger(wallet, order', transfer, credited)
  BY <1>7, LedgerStays
<1> QED
  BY <1>4, <1>8, <1>9, <1>10 DEF DInv, RequestDeposit

LEMMA LinkInv ==
    ASSUME DInv, NEW o \in Orders, CreatePaymentLink(o) \/ CancelLink(o)
    PROVE  DInv'
<1>1. Known(order, o)
  BY DEF DInv, Rows, CreatePaymentLink, CancelLink
<1>2. /\ UNCHANGED <<wallet, order, transfer, refs, credited, lost, slot>>
      /\ link' \in [Orders -> {"none", "open", "cancelled"}]
      /\ \A p \in Orders : p # o => link'[p] = link[p]
  BY DEF CreatePaymentLink, CancelLink, DInv, DepositsTypeOK
<1>3. Rows(order', link', transfer', refs', credited')
  BY <1>1, <1>2 DEF DInv, Rows
<1>4. Calls'
  BY <1>2, CallsStay, StaySame
<1> QED
  BY <1>2, <1>3, <1>4 DEF DInv, DepositsTypeOK

LEMMA PayInv ==
    ASSUME DInv, NEW r \in Transfers, NEW o \in Orders, Pay(r, o)
    PROVE  DInv'
<1>1. Known(order, o)
  BY DEF DInv, Rows, Pay
<1>2. /\ UNCHANGED <<wallet, order, link, refs, credited, lost, slot>>
      /\ transfer' \in [Transfers -> Orders \cup {NoOrder}]
      /\ transfer'[r] = o
      /\ \A p \in Transfers : p # r => transfer'[p] = transfer[p]
      /\ transfer[r] = NoOrder
  BY DEF Pay, DInv, DepositsTypeOK
<1>3. Rows(order, link, transfer', refs, credited)
  <2>1. r \notin refs
    BY <1>2 DEF DInv, Rows
  <2>2. \A p \in refs : p \in Transfers
    BY DEF DInv, DepositsTypeOK
  <2> QED
    BY <1>1, <1>2, <2>1, <2>2 DEF DInv, Rows
<1>4. Calls'
  BY <1>2, CallsStay, StaySame
<1>5. Ledger(wallet, order, transfer', credited)
  <2>1. \A p \in Transfers : transfer[p] # NoOrder => transfer'[p] = transfer[p]
    BY <1>2
  <2> QED
    BY <2>1, StaySame, LedgerStays
<1> QED
  BY <1>2, <1>3, <1>4, <1>5 DEF DInv, DepositsTypeOK

LEMMA ClaimReferenceInv ==
    ASSUME DInv, NEW h \in Handlers, NEW r \in Transfers, ClaimReference(h, r)
    PROVE  DInv'
<1>1. PICK s \in Slot : s = [op |-> "read", transfer |-> r]
  BY SlotTypes
<1>2. /\ UNCHANGED <<wallet, order, link, transfer, credited>>
      /\ lost' = lost \ {r}
      /\ slot' = [slot EXCEPT ![h] = s]
      /\ refs' = refs \cup {r} /\ r \notin refs /\ transfer[r] # NoOrder
  BY <1>1 DEF ClaimReference, Goto
<1>3. r \notin credited
  BY <1>2 DEF DInv, Rows
<1>4. Rows(order, link, transfer, refs', credited)
  BY <1>2 DEF DInv, Rows
<1>5. Calls'
  <2>1. Call(s, order', refs', credited') /\ s.transfer = r
    BY <1>1, <1>2, <1>3 DEF Call, Holds
  <2>2. Stay(order, order')
    BY <1>2, StaySame
  <2> QED
    BY <1>2, <2>1, <2>2, CallMoves
<1> QED
  BY <1>2, <1>4, <1>5 DEF DInv, DepositsTypeOK

(* A call moves on without writing a row.                                  *)
LEMMA GoOnInv ==
    ASSUME DInv, NEW h \in Handlers, NEW s \in Slot, slot' = [slot EXCEPT ![h] = s],
           Call(s, order, refs, credited),
           Holds(s) => Holds(slot[h]) /\ s.transfer = slot[h].transfer,
           UNCHANGED <<wallet, order, transfer, refs, credited>>,
           lost' \subseteq Transfers, link' \in [Orders -> {"none", "open", "cancelled"}],
           \A o \in Orders : link[o] = "none" => link'[o] = "none" \/ Known(order, o)
    PROVE  DInv'
<1>1. Stay(order, order')
  BY StaySame
<1>2. Calls'
  BY <1>1, CallMoves
<1>3. Rows(order, link', transfer, refs, credited)
  BY DEF DInv, Rows
<1> QED
  BY <1>2, <1>3 DEF DInv, DepositsTypeOK

LEMMA ReadOrderInv == ASSUME DInv, NEW h \in Handlers, ReadOrder(h) PROVE DInv'
<1>1. slot[h] \in Slot /\ Call(slot[h], order, refs, credited)
  BY DEF DInv, DepositsTypeOK, Calls
<1>2. PICK r \in Transfers : r = slot[h].transfer /\ r \in refs /\ r \notin credited
  BY <1>1, SlotFacts DEF ReadOrder, Call, Holds
<1>3. PICK s \in Slot : /\ s.op \in {"mark", "credit"} /\ s.transfer = r
                        /\ slot' = [slot EXCEPT ![h] = s]
  <2>1. /\ [op |-> "mark", transfer |-> r] \in Slot
        /\ [op |-> "credit", transfer |-> r, first |-> FALSE] \in Slot
    BY SlotTypes
  <2> QED
    BY <1>2, <2>1 DEF ReadOrder, Goto
<1>4. Call(s, order, refs, credited) /\ Holds(slot[h])
  BY <1>2, <1>3 DEF Call, Holds, ReadOrder
<1> QED
  BY <1>2, <1>3, <1>4, GoOnInv DEF ReadOrder, DInv, DepositsTypeOK

LEMMA CreditRefusedInv == ASSUME DInv, NEW h \in Handlers, CreditRefused(h) PROVE DInv'
<1>1. slot[h] \in Slot
  BY DEF DInv, DepositsTypeOK
<1>2. slot[h].transfer \in Transfers
  BY <1>1, SlotFacts DEF CreditRefused
<1> QED
  BY <1>2, IdleIsNoCall, SlotTypes, GoOnInv DEF CreditRefused, Goto, DInv, DepositsTypeOK

LEMMA AbandonInv == ASSUME DInv, NEW h \in Handlers, Abandon(h) PROVE DInv'
<1>1. slot[h] \in Slot
  BY DEF DInv, DepositsTypeOK
<1>2. lost' \subseteq Transfers
  BY <1>1, SlotFacts DEF Abandon, DInv, DepositsTypeOK
<1> QED
  BY <1>2, IdleIsNoCall, SlotTypes, GoOnInv DEF Abandon, Goto, DInv, DepositsTypeOK

LEMMA CloseLinkInv == ASSUME DInv, NEW h \in Handlers, CloseLink(h) PROVE DInv'
<1>1. slot[h] \in Slot /\ Call(slot[h], order, refs, credited)
  BY DEF DInv, DepositsTypeOK, Calls
<1>2. PICK o : o = transfer[slot[h].transfer] /\ Known(order, o)
  BY <1>1, SlotFacts DEF CloseLink, Call, DInv, Rows
<1>3. /\ link' \in [Orders -> {"none", "open", "cancelled"}]
      /\ \A p \in Orders : link[p] = "none" => link'[p] = "none" \/ Known(order, p)
  BY <1>2 DEF CloseLink, DInv, DepositsTypeOK, Known
<1> QED
  BY <1>3, IdleIsNoCall, SlotTypes, GoOnInv DEF CloseLink, Goto, DInv, DepositsTypeOK

LEMMA ReceiveCancelledInv ==
    ASSUME DInv, NEW h \in Handlers, NEW o \in Orders, ReceiveCancelled(h, o)
    PROVE  DInv'
<1>1. Known(order, o)
  BY DEF DInv, Rows, ReceiveCancelled
<1>2. PICK s \in Slot : s = [op |-> "cancel", order |-> o]
  BY SlotTypes
<1>3. Call(s, order, refs, credited) /\ ~Holds(s)
  BY <1>1, <1>2 DEF Call, Holds
<1> QED
  BY <1>2, <1>3, GoOnInv DEF ReceiveCancelled, Goto, DInv, DepositsTypeOK

(* The steps that save an order.                                           *)
LEMMA SaveInv ==
    ASSUME DInv, NEW h \in Handlers, NEW s \in Slot, slot' = [slot EXCEPT ![h] = s],
           NEW o, Known(order, o), NEW status \in {"success", "cancelled"},
           order' = [order EXCEPT ![o].status = status],
           Call(s, order, refs, credited),
           Holds(s) => Holds(slot[h]) /\ s.transfer = slot[h].transfer,
           UNCHANGED <<wallet, link, transfer, refs, credited, lost>>
    PROVE  DInv'
<1>1. /\ order' \in [Orders -> OrderRow]
      /\ Stay(order, order')
      /\ Rows(order', link, transfer, refs, credited)
  BY StatusWritten
<1>2. Call(s, order', refs', credited')
  BY <1>1 DEF Call, Stay
<1>3. Calls'
  BY <1>1, <1>2, CallMoves
<1>4. Ledger(wallet, order', transfer, credited)
  BY <1>1, LedgerStays
<1> QED
  BY <1>1, <1>3, <1>4 DEF DInv, DepositsTypeOK

LEMMA MarkSuccessInv == ASSUME DInv, NEW h \in Handlers, MarkSuccess(h) PROVE DInv'
<1>1. slot[h] \in Slot /\ Call(slot[h], order, refs, credited)
  BY DEF DInv, DepositsTypeOK, Calls
<1>2. PICK r \in Transfers : r = slot[h].transfer /\ r \in refs /\ r \notin credited
  BY <1>1, SlotFacts DEF MarkSuccess, Call, Holds
<1>3. Known(order, transfer[r])
  BY <1>2 DEF DInv, Rows
<1>4. PICK s \in Slot : s = [op |-> "credit", transfer |-> r, first |-> TRUE]
  BY SlotTypes
<1>5. Call(s, order, refs, credited) /\ Holds(slot[h]) /\ s.transfer = slot[h].transfer
  BY <1>2, <1>4 DEF Call, Holds, MarkSuccess
<1>6. order' = [order EXCEPT ![transfer[r]].status = "success"]
  BY <1>2 DEF MarkSuccess
<1> QED
  BY <1>2, <1>3, <1>4, <1>5, <1>6, SaveInv DEF MarkSuccess, Goto

LEMMA MarkCancelledInv == ASSUME DInv, NEW h \in Handlers, MarkCancelled(h) PROVE DInv'
<1>1. Call(slot[h], order, refs, credited)
  BY DEF DInv, Calls
<1>2. Known(order, slot[h].order)
  BY <1>1 DEF MarkCancelled, Call
<1> QED
  BY <1>2, IdleIsNoCall, SlotTypes, SaveInv DEF MarkCancelled, Goto

(* The credit: one more transfer, one more deposit of its amount.          *)
LEMMA CreditWalletInv == ASSUME DInv, NEW h \in Handlers, CreditWallet(h) PROVE DInv'
<1>1. slot[h] \in Slot /\ Call(slot[h], order, refs, credited)
  BY DEF DInv, DepositsTypeOK, Calls
<1>2. PICK r \in Transfers : r = slot[h].transfer /\ r \in refs /\ r \notin credited
  BY <1>1, SlotFacts DEF CreditWallet, Call, Holds
<1>3. Known(order, transfer[r])
  BY <1>2 DEF DInv, Rows
<1>4. PICK row : row = order[transfer[r]]
  OBVIOUS
<1>5. PICK u \in Users : u = row.payer
  BY <1>3, <1>4 DEF Known
<1>6. PICK amount \in Nat : amount = row.amount
  BY <1>3, <1>4, DepositAmountAssumption DEF Known
<1>7. PICK w : w = AfterDeposit(wallet[u], amount)
  OBVIOUS
<1>8. wallet \in [Users -> WalletRow] /\ wallet[u] \in WalletRow
  BY DEF DInv, DepositsTypeOK
<1>9. /\ CanDeposit(wallet[u], amount)
      /\ wallet' = [wallet EXCEPT ![u] = w]
      /\ credited' = credited \cup {r}
  BY <1>2, <1>4, <1>5, <1>6, <1>7, <1>8 DEF CreditWallet
<1>10. w \in WalletRow /\ w.deposited = wallet[u].deposited + amount
  BY <1>6, <1>7, <1>8, <1>9, DepositFacts
<1>11. PICK s \in Slot : /\ slot' = [slot EXCEPT ![h] = s] /\ ~Holds(s)
                         /\ s.op = "close" => s.transfer = r
                         /\ s.op # "cancel"
  <2>1. /\ [op |-> "close", transfer |-> r] \in Slot /\ Idle \in Slot
        /\ ~Holds([op |-> "close", transfer |-> r]) /\ ~Holds(Idle)
        /\ Idle.op # "close" /\ Idle.op # "cancel"
    BY SlotTypes DEF Holds, Idle
  <2> QED
    BY <1>2, <2>1 DEF CreditWallet, Goto
<1>12. UNCHANGED <<order, link, transfer, refs, lost>>
  BY DEF CreditWallet
<1>13. DepositsTypeOK'
  BY <1>8, <1>9, <1>10, <1>11, <1>12 DEF DInv, DepositsTypeOK
<1>14. Rows(order, link, transfer, refs, credited')
  BY <1>2, <1>9 DEF DInv, Rows
<1>15. Calls'
  <2>1. Call(s, order', refs', credited')
    BY <1>2, <1>11, <1>12 DEF Call
  <2>2. Stay(order, order')
    BY <1>12, StaySame
  <2>3. Holds(slot[h])
    BY DEF CreditWallet, Holds
  <2> QED
    BY <1>2, <1>9, <1>11, <1>12, <2>1, <2>2, <2>3, CallMoves
<1>16. ASSUME NEW v \in Users
       PROVE  wallet'[v].deposited = CreditedTo(v, order, transfer, credited')
  <2>1. PICK C : C = credited
    OBVIOUS
  <2>2. PICK D : D = credited'
    OBVIOUS
  <2>3. PICK f : f = [x \in C |-> order[transfer[x]].amount]
    OBVIOUS
  <2>4. PICK k : k = [x \in D |-> order[transfer[x]].amount]
    OBVIOUS
  <2>5. PICK S : S = {x \in C : order[transfer[x]].payer = v}
    OBVIOUS
  <2>6. PICK Q : Q = {x \in D : order[transfer[x]].payer = v}
    OBVIOUS
  <2>7. D = C \cup {r} /\ r \notin C
    BY <1>2, <1>9, <2>1, <2>2
  <2>8. wallet[v].deposited = Total(f, S) /\ CreditedTo(v, order, transfer, credited') = Total(k, Q)
    BY <2>1, <2>2, <2>3, <2>4, <2>5, <2>6 DEF DInv, Ledger, CreditedTo
  <2>9. IsFiniteSet(S) /\ IsFiniteSet(Transfers) /\ S \subseteq Transfers
    <3>1. S \subseteq Transfers
      BY <2>1, <2>5 DEF DInv, DepositsTypeOK
    <3> QED
      BY <3>1, FiniteAssumption, FS_Subset
  <2>10. \A x \in S : f[x] \in Int /\ k[x] \in Int /\ f[x] = k[x]
    <3>1. ASSUME NEW x \in S PROVE order[transfer[x]].amount \in Int
      <4>1. Known(order, transfer[x])
        BY <2>1, <2>5, <2>9 DEF DInv, Rows
      <4>2. PICK n : n = order[transfer[x]].amount
        OBVIOUS
      <4>3. n \in Amounts
        BY <4>1, <4>2 DEF Known
      <4> QED
        BY <4>2, <4>3, DepositAmountAssumption
    <3> QED
      BY <2>3, <2>4, <2>5, <2>7, <3>1
  <2>11. Total(f, S) = Total(k, S) /\ Total(k, S) \in Int
    <3>1. /\ \A x \in S : f[x] = k[x]
          /\ \A x \in S : k[x] \in Int
      BY <2>10
    <3> QED
      BY <2>9, <3>1, TotalSame, TotalIsInt
  <2>12. k[r] = amount
    BY <1>4, <1>6, <2>4, <2>7
  <2>13. CASE v = u
    <3>1. Q = S \cup {r} /\ r \notin S
      BY <1>4, <1>5, <2>5, <2>6, <2>7, <2>13
    <3>2. Total(k, Q) = Total(k, S) + k[r]
      <4>1. IsFiniteSet(S) /\ r \notin S
        BY <2>9, <3>1
      <4>2. \A x \in S : k[x] \in Int
        BY <2>10
      <4>3. k[r] \in Int
        BY <2>12
      <4>4. Total(k, S \cup {r}) = Total(k, S) + k[r]
        BY ONLY <4>1, <4>2, <4>3, TotalAdd
      <4> QED
        BY <3>1, <4>4
    <3>3. wallet'[v].deposited = wallet[v].deposited + amount
      BY <1>8, <1>9, <1>10, <2>13
    <3> QED
      BY <2>8, <2>11, <2>12, <3>2, <3>3
  <2>14. CASE v # u
    <3>1. Q = S
      BY <1>4, <1>5, <2>5, <2>6, <2>7, <2>14
    <3>2. wallet'[v] = wallet[v]
      BY <1>8, <1>9, <2>14
    <3> QED
      BY <2>8, <2>11, <3>1, <3>2
  <2> QED
    BY <2>13, <2>14
<1>17. Ledger(wallet', order, transfer, credited')
  BY <1>16 DEF Ledger
<1> QED
  BY <1>12, <1>13, <1>14, <1>15, <1>17 DEF DInv

LEMMA NextDInv == DInv /\ [Next]_vars => DInv'
<1> SUFFICES ASSUME DInv, [Next]_vars PROVE DInv'
  OBVIOUS
<1>1. ASSUME NEW h \in Handlers, WebhookStep(h) PROVE DInv'
  BY <1>1, ReadOrderInv, MarkSuccessInv, CreditWalletInv, CreditRefusedInv, CloseLinkInv,
     MarkCancelledInv DEF WebhookStep
<1>2. CASE UNCHANGED vars
  BY <1>2 DEF vars, DInv, DepositsTypeOK, Calls
<1>3. ASSUME NEW r \in Transfers, ReceivePaid(r) PROVE DInv'
  <2>1. CASE ClaimFails(r)
    BY <2>1 DEF ClaimFails, DInv, DepositsTypeOK, Calls
  <2> QED
    BY <1>3, <2>1, ClaimReferenceInv DEF ReceivePaid
<1> QED
  BY <1>1, <1>2, <1>3, RequestDepositInv, LinkInv, PayInv, ReceiveCancelledInv, AbandonInv
     DEF Next

-----------------------------------------------------------------------------
LEMMA DepositsInvariance == Spec => []DInv
  BY InitDInv, NextDInv, PTL DEF Spec

(* Every row that the webhook and the deposit endpoint store has its type. *)
THEOREM DepositsTypeCorrect == Spec => []DepositsTypeOK
<1>1. DInv => DepositsTypeOK
  BY DEF DInv
<1> QED
  BY <1>1, DepositsInvariance, PTL

(* What is credited is part of what the bank received.                     *)
LEMMA CreditedIsReceived == DInv => NeverOverCredited
<1> SUFFICES ASSUME DInv, NEW u \in Users PROVE wallet[u].deposited <= Received(u)
  BY DEF NeverOverCredited
<1>1. PICK S \in SUBSET Transfers :
         S = {r \in Transfers : transfer[r] # NoOrder /\ order[transfer[r]].payer = u}
  OBVIOUS
<1>2. PICK P : P = {r \in credited : order[transfer[r]].payer = u}
  OBVIOUS
<1>3. PICK f : f = [r \in S |-> order[transfer[r]].amount]
  OBVIOUS
<1>4. PICK k : k = [r \in credited |-> order[transfer[r]].amount]
  OBVIOUS
<1>5. Received(u) = Total(f, S) /\ wallet[u].deposited = Total(k, P)
  BY <1>1, <1>2, <1>3, <1>4 DEF Received, DInv, Ledger, CreditedTo
<1>6. P \in SUBSET S
  BY <1>1, <1>2 DEF DInv, Rows, DepositsTypeOK
<1>7. \A r \in S : f[r] \in Nat
  <2>1. ASSUME NEW r \in S PROVE order[transfer[r]].amount \in Nat
    <3>1. Known(order, transfer[r])
      BY <1>1 DEF DInv, Rows
    <3> QED
      BY <3>1, DepositAmountAssumption DEF Known
  <2> QED
    BY <1>3, <2>1
<1>8. IsFiniteSet(S) /\ IsFiniteSet(P)
  BY <1>6, FiniteAssumption, FS_Subset
<1>9. Total(k, P) = Total(f, P)
  <2>1. \A r \in P : k[r] = f[r]
    BY <1>2, <1>3, <1>4, <1>6
  <2> QED
    BY <1>8, <2>1, TotalSame
<1>10. Total(f, P) <= Total(f, S)
  BY <1>6, <1>7, <1>8, TotalOfPart
<1> QED
  BY <1>5, <1>9, <1>10

(* Repeated, reordered and overlapping calls, cancellations and crashes    *)
(* never credit a user with more than the bank received.                   *)
THEOREM NeverOverCreditedHolds == Spec => []NeverOverCredited
  BY CreditedIsReceived, DepositsInvariance, PTL

-----------------------------------------------------------------------------
(* The refinement of DepositPromise.                                       *)

Purses == [u \in Users |-> wallet[u].balance]

Deals == [o \in Orders |-> Deal(o)]

LEMMA InitPromise == Init => Promise!Init
<1> SUFFICES ASSUME Init PROVE Promise!Init
  OBVIOUS
<1>1. Purses = [u \in Users |-> 0]
  BY DEF Init, Purses, EmptyWallet
<1>2. Deals = [o \in Orders |-> Promise!NoDeal]
  BY DEF Init, Deals, Deal, NoOrderRow, Promise!NoDeal
<1> QED
  BY <1>1, <1>2 DEF Init, Promise!Init, Purses, Deals

(* An endpoint that stores an order makes its deal.                        *)
LEMMA AgreePromise ==
    ASSUME DInv, NEW u \in Users, NEW o \in Orders, NEW amount \in Amounts,
           RequestDeposit(u, o, amount)
    PROVE  Promise!Agree(u, o, amount)
<1>1. PICK row : row = [status |-> "pending", payer |-> u, amount |-> amount]
  OBVIOUS
<1>2. /\ order \in [Orders -> OrderRow] /\ order[o] = NoOrderRow
      /\ order' = [order EXCEPT ![o] = row]
      /\ UNCHANGED <<wallet, transfer, credited>>
  BY <1>1 DEF RequestDeposit, DInv, DepositsTypeOK
<1>3. Deals[o] = Promise!NoDeal
  BY <1>2 DEF Deals, Deal, NoOrderRow, Promise!NoDeal
<1>4. Deals' = [Deals EXCEPT ![o] = [payer |-> u, amount |-> amount]]
  BY <1>1, <1>2 DEF Deals, Deal
<1> QED
  BY <1>2, <1>3, <1>4 DEF Promise!Agree, Deals, Purses

LEMMA ReceivePromise ==
    ASSUME DInv, NEW r \in Transfers, NEW o \in Orders, Pay(r, o)
    PROVE  Promise!Receive(r, o)
<1>1. Known(order, o)
  BY DEF DInv, Rows, Pay
<1>2. Deal(o) # Promise!NoDeal
  BY <1>1, NoneAssumption DEF Known, Deal, Promise!NoDeal
<1> QED
  BY <1>2 DEF Pay, Promise!Receive, Deal

(* The webhook credits the payer of the order that was paid, its amount,   *)
(* for a transfer that was not credited before.                            *)
LEMMA CreditPromise ==
    ASSUME DInv, NEW h \in Handlers, CreditWallet(h)
    PROVE  \E r \in Transfers, u \in Users, amount \in Amounts : Promise!Credit(r, u, amount)
<1>1. slot[h] \in Slot /\ Call(slot[h], order, refs, credited)
  BY DEF DInv, DepositsTypeOK, Calls
<1>2. PICK r \in Transfers : r = slot[h].transfer /\ r \in refs /\ r \notin credited
  BY <1>1, SlotFacts DEF CreditWallet, Call, Holds
<1>3. Known(order, transfer[r]) /\ transfer[r] # NoOrder
  BY <1>2 DEF DInv, Rows
<1>4. PICK row : row = order[transfer[r]]
  OBVIOUS
<1>5. PICK u \in Users : u = row.payer
  BY <1>3, <1>4 DEF Known
<1>6. PICK amount \in Amounts : amount = row.amount
  BY <1>3, <1>4 DEF Known
<1>7. amount \in Nat /\ wallet \in [Users -> WalletRow] /\ wallet[u] \in WalletRow
  BY DepositAmountAssumption DEF DInv, DepositsTypeOK
<1>8. /\ CanDeposit(wallet[u], amount)
      /\ wallet' = [wallet EXCEPT ![u] = AfterDeposit(wallet[u], amount)]
      /\ credited' = credited \cup {r}
      /\ UNCHANGED <<order, transfer>>
  BY <1>2, <1>4, <1>5, <1>6, <1>7 DEF CreditWallet
<1>9. AfterDeposit(wallet[u], amount).balance = wallet[u].balance + amount
  BY <1>7, <1>8, DepositFacts
<1>10. Purses' = [Purses EXCEPT ![u] = @ + amount]
  BY <1>7, <1>8, <1>9 DEF Purses
<1>11. Deals[transfer[r]] = [payer |-> u, amount |-> amount]
  BY <1>3, <1>4, <1>5, <1>6 DEF Deals, Deal, Known
<1>12. MaxWalletBalance > 0 => Purses[u] + amount <= MaxWalletBalance
  BY <1>8 DEF CanDeposit, Purses
<1>13. Deals' = Deals
  BY <1>8 DEF Deals, Deal
<1>14. Promise!Credit(r, u, amount)
  BY <1>2, <1>3, <1>8, <1>10, <1>11, <1>12, <1>13 DEF Promise!Credit, Purses, Deals
<1> QED
  BY <1>14

(* The webhook saves whole orders, and only their status changes.          *)
LEMMA SaveKeepsDeals ==
    ASSUME DInv, NEW h \in Handlers, MarkSuccess(h) \/ MarkCancelled(h)
    PROVE  Deals' = Deals /\ UNCHANGED <<wallet, transfer, credited>>
<1>1. order \in [Orders -> OrderRow]
  BY DEF DInv, DepositsTypeOK
<1>2. PICK o, status : order' = [order EXCEPT ![o].status = status]
  BY DEF MarkSuccess, MarkCancelled
<1>3. ASSUME NEW p \in Orders
      PROVE  order'[p].payer = order[p].payer /\ order'[p].amount = order[p].amount
  <2>1. order[p] \in OrderRow
    BY <1>1
  <2>2. order'[p] = order[p] \/ order'[p] = [order[p] EXCEPT !.status = status]
    BY <1>1, <1>2
  <2> QED
    BY <2>1, <2>2 DEF OrderRow
<1>4. Deals' = Deals
  BY <1>3 DEF Deals, Deal
<1> QED
  BY <1>4 DEF MarkSuccess, MarkCancelled

(* Deposits implement DepositPromise: whatever is repeated, overlaps, is   *)
(* reordered, stops or is cancelled, the webhook credits a transfer once   *)
(* at most, and then the amount of the order to the payer of the order.    *)
THEOREM DepositKeptHolds == Spec => DepositKept
<1>1. ASSUME DInv, [Next]_vars PROVE [Promise!Next]_<<Purses, Deals, transfer, credited>>
  <2>1. ASSUME NEW u \in Users, NEW o \in Orders, NEW amount \in Amounts,
               RequestDeposit(u, o, amount)
        PROVE  Promise!Next
    BY <1>1, <2>1, AgreePromise DEF Promise!Next
  <2>2. ASSUME NEW r \in Transfers, NEW o \in Orders, Pay(r, o) PROVE Promise!Next
    BY <1>1, <2>2, ReceivePromise DEF Promise!Next
  <2>3. ASSUME NEW h \in Handlers, CreditWallet(h) PROVE Promise!Next
    BY <1>1, <2>3, CreditPromise DEF Promise!Next
  <2>4. ASSUME NEW h \in Handlers, MarkSuccess(h) \/ MarkCancelled(h)
        PROVE  UNCHANGED <<Purses, Deals, transfer, credited>>
    BY <1>1, <2>4, SaveKeepsDeals DEF Purses
  <2>5. ASSUME UNCHANGED <<wallet, order, transfer, credited>>
        PROVE  UNCHANGED <<Purses, Deals, transfer, credited>>
    BY <2>5 DEF Purses, Deals, Deal
  <2>6. ASSUME NEW h \in Handlers, WebhookStep(h)
        PROVE  \/ Promise!Next
               \/ UNCHANGED <<Purses, Deals, transfer, credited>>
    <3>1. \/ CreditWallet(h) \/ MarkSuccess(h) \/ MarkCancelled(h)
          \/ UNCHANGED <<wallet, order, transfer, credited>>
      BY <2>6 DEF WebhookStep, ReadOrder, CreditRefused, CloseLink
    <3> QED
      BY <2>3, <2>4, <2>5, <3>1
  <2>7. \/ \E u \in Users, o \in Orders, amount \in Amounts : RequestDeposit(u, o, amount)
        \/ \E r \in Transfers, o \in Orders : Pay(r, o)
        \/ \E h \in Handlers : WebhookStep(h)
        \/ UNCHANGED <<wallet, order, transfer, credited>>
    BY <1>1 DEF Next, vars, CreatePaymentLink, CancelLink, ReceivePaid, ClaimFails,
                ClaimReference, ReceiveCancelled, Abandon
  <2> QED
    BY <2>1, <2>2, <2>5, <2>6, <2>7
<1> USE DEF Purses, Deals
<1> QED
  BY <1>1, InitPromise, DepositsInvariance, PTL DEF Spec, DepositKept, Promise!Spec

-----------------------------------------------------------------------------
(* What was recorded is not forgotten.                                     *)

(* A call that holds a transfer goes on holding it, or has credited or     *)
(* lost it; only a call that goes on to hold it records a reference.       *)
LEMMA HeldOrCounted ==
    ASSUME DInv, ProcessedIsAccountedFor, NEW h \in Handlers, NEW s,
           slot' = [slot EXCEPT ![h] = s],
           Holds(slot[h]) => \/ slot[h].transfer \in credited' \cup lost'
                             \/ Holds(s) /\ s.transfer = slot[h].transfer,
           \A r \in refs' : r \in refs \/ (Holds(s) /\ s.transfer = r),
           credited \subseteq credited',
           \A r \in lost : r \in lost' \/ (Holds(s) /\ s.transfer = r)
    PROVE  ProcessedIsAccountedFor'
<1>1. slot'[h] = s /\ \A g \in Handlers : g # h => slot'[g] = slot[g]
  BY DEF DInv, DepositsTypeOK
<1>2. ASSUME NEW r \in refs'
      PROVE  \/ r \in credited' \cup lost'
             \/ \E g \in Handlers : Holds(slot'[g]) /\ slot'[g].transfer = r
  <2>1. CASE r \in refs
    <3>1. \/ r \in credited \cup lost
          \/ \E g \in Handlers : Holds(slot[g]) /\ slot[g].transfer = r
      BY <2>1 DEF ProcessedIsAccountedFor, Holds
    <3> QED
      BY <1>1, <3>1
  <2>2. CASE r \notin refs
    BY <1>1, <2>2
  <2> QED
    BY <2>1, <2>2
<1> QED
  BY <1>2 DEF ProcessedIsAccountedFor, Holds

LEMMA StepAccounted ==
    DInv /\ ProcessedIsAccountedFor /\ [Next]_vars => ProcessedIsAccountedFor'
<1> SUFFICES ASSUME DInv, ProcessedIsAccountedFor, [Next]_vars PROVE ProcessedIsAccountedFor'
  OBVIOUS
<1>0. ~Holds(Idle)
  BY IdleIsNoCall
<1>1. ASSUME NEW h \in Handlers, NEW r \in Transfers, ClaimReference(h, r)
      PROVE  ProcessedIsAccountedFor'
  <2>1. PICK s : s = [op |-> "read", transfer |-> r]
    OBVIOUS
  <2>2. /\ slot' = [slot EXCEPT ![h] = s] /\ Holds(s) /\ s.transfer = r
        /\ ~Holds(slot[h]) /\ refs' = refs \cup {r} /\ UNCHANGED credited
        /\ lost' = lost \ {r}
    BY <1>0, <1>1, <2>1 DEF ClaimReference, Goto, Holds
  <2> QED
    BY <2>2, HeldOrCounted
<1>2. ASSUME NEW h \in Handlers, ReadOrder(h) \/ MarkSuccess(h) PROVE ProcessedIsAccountedFor'
  <2>1. PICK s : /\ slot' = [slot EXCEPT ![h] = s] /\ Holds(s)
                 /\ s.transfer = slot[h].transfer
    <3>1. \/ slot' = [slot EXCEPT ![h] = [op |-> "mark", transfer |-> slot[h].transfer]]
          \/ \E b \in BOOLEAN :
                slot' = [slot EXCEPT ![h] = [op |-> "credit", transfer |-> slot[h].transfer,
                                             first |-> b]]
      BY <1>2 DEF ReadOrder, MarkSuccess, Goto
    <3> QED
      BY <3>1 DEF Holds
  <2>2. UNCHANGED <<refs, credited, lost>>
    BY <1>2 DEF ReadOrder, MarkSuccess
  <2> QED
    BY <2>1, <2>2, HeldOrCounted
<1>3. ASSUME NEW h \in Handlers,
             CreditWallet(h) \/ CreditRefused(h) \/ Abandon(h) \/ CloseLink(h)
             \/ MarkCancelled(h)
      PROVE  ProcessedIsAccountedFor'
  <2>1. PICK s : slot' = [slot EXCEPT ![h] = s]
    BY <1>3 DEF CreditWallet, CreditRefused, Abandon, CloseLink, MarkCancelled, Goto
  <2>2. /\ refs' = refs /\ credited \subseteq credited' /\ lost \subseteq lost'
        /\ Holds(slot[h]) => slot[h].transfer \in credited' \cup lost'
    BY <1>3 DEF CreditWallet, CreditRefused, Abandon, CloseLink, MarkCancelled, Holds
  <2> QED
    BY <2>1, <2>2, HeldOrCounted
<1>4. ASSUME NEW h \in Handlers, NEW o \in Orders, ReceiveCancelled(h, o)
      PROVE  ProcessedIsAccountedFor'
  <2>1. PICK s : slot' = [slot EXCEPT ![h] = s]
    BY <1>4 DEF ReceiveCancelled, Goto
  <2>2. UNCHANGED <<refs, credited, lost>> /\ ~Holds(slot[h])
    BY <1>0, <1>4 DEF ReceiveCancelled
  <2> QED
    BY <2>1, <2>2, HeldOrCounted
<1>5. ASSUME UNCHANGED <<refs, credited, slot>>, lost \subseteq lost'
      PROVE  ProcessedIsAccountedFor'
  BY <1>5 DEF ProcessedIsAccountedFor
<1>6. \/ \E h \in Handlers :
            \/ \E r \in Transfers : ClaimReference(h, r)
            \/ \E o \in Orders : ReceiveCancelled(h, o)
            \/ WebhookStep(h)
            \/ Abandon(h)
      \/ UNCHANGED <<refs, credited, slot>> /\ lost \subseteq lost'
  BY DEF Next, vars, RequestDeposit, CreatePaymentLink, CancelLink, Pay, ReceivePaid, ClaimFails
<1> QED
  BY <1>1, <1>2, <1>3, <1>4, <1>5, <1>6 DEF WebhookStep

(* A recorded reference was credited, is about to be, met the maximum, or  *)
(* belongs to a call that stopped: what is left to liveness is that calls  *)
(* go on.                                                                  *)
THEOREM ProcessedIsAccountedForHolds == Spec => []ProcessedIsAccountedFor
<1>1. Init => DInv /\ ProcessedIsAccountedFor
  BY InitDInv DEF Init, ProcessedIsAccountedFor
<1>2. DInv /\ ProcessedIsAccountedFor /\ [Next]_vars => (DInv /\ ProcessedIsAccountedFor)'
  BY NextDInv, StepAccounted
<1> QED
  BY <1>1, <1>2, PTL DEF Spec
=============================================================================
