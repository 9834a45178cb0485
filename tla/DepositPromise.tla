--------------------------- MODULE DepositPromise ---------------------------
(***************************************************************************)
(* What a deposit promises, without webhook calls, references, links or    *)
(* statuses: an order has one payer and one amount for good, a transfer is *)
(* for one order for good, and it is credited once at most, the amount of  *)
(* its order to the payer of its order. Purses change in no other way, and *)
(* a credit fills none beyond the maximum.                                 *)
(***************************************************************************)
EXTENDS Integers

CONSTANTS Users, Orders, Transfers, Amounts, MaxWalletBalance, NoUser, NoOrder

VARIABLES
    purse,      \* money that each user can spend
    deal,       \* who pays how much with each order
    paid,       \* the order that each transfer paid
    given       \* transfers that reached a purse

NoDeal == [payer |-> NoUser, amount |-> 0]

Init ==
    /\ purse = [u \in Users |-> 0]
    /\ deal = [o \in Orders |-> NoDeal]
    /\ paid = [r \in Transfers |-> NoOrder]
    /\ given = {}

Agree(u, o, amount) ==
    /\ deal[o] = NoDeal
    /\ deal' = [deal EXCEPT ![o] = [payer |-> u, amount |-> amount]]
    /\ UNCHANGED <<purse, paid, given>>

Receive(r, o) ==
    /\ paid[r] = NoOrder /\ deal[o] # NoDeal
    /\ paid' = [paid EXCEPT ![r] = o]
    /\ UNCHANGED <<purse, deal, given>>

Credit(r, u, amount) ==
    /\ r \notin given /\ paid[r] # NoOrder
    /\ deal[paid[r]] = [payer |-> u, amount |-> amount]
    /\ MaxWalletBalance > 0 => purse[u] + amount <= MaxWalletBalance
    /\ purse' = [purse EXCEPT ![u] = @ + amount]
    /\ given' = given \cup {r}
    /\ UNCHANGED <<deal, paid>>

Next ==
    \/ \E u \in Users, o \in Orders, amount \in Amounts : Agree(u, o, amount)
    \/ \E r \in Transfers, o \in Orders : Receive(r, o)
    \/ \E r \in Transfers, u \in Users, amount \in Amounts : Credit(r, u, amount)

Spec == Init /\ [][Next]_<<purse, deal, paid, given>>
=============================================================================
