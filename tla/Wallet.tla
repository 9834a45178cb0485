------------------------------- MODULE Wallet -------------------------------
(***************************************************************************)
(* The wallet row and the operations of WalletService on it                *)
(* (server/internal/models/wallet.go, server/internal/services/wallet.go). *)
(* Every operation runs in one database transaction that holds the row     *)
(* lock of the wallet it reads, so it is a function from the row before to *)
(* the row after, with a condition under which the transaction commits.    *)
(* A wallet that was never created is the row of zeros: the code creates   *)
(* it on demand, and where it does not, the missing row is refused exactly *)
(* where the zero row has insufficient funds.                              *)
(***************************************************************************)
EXTENDS Integers, FiniteSetsExt

CONSTANT MaxWalletBalance   \* 0 means no limit, as in the configuration

ASSUME MaxWalletBalanceAssumption == MaxWalletBalance \in Nat

(* Wallet.Validate: no field of a stored row is negative.                  *)
WalletRow == [balance: Nat, escrow: Nat, deposited: Nat,
              withdrawn: Nat, earned: Nat, spent: Nat]

EmptyWallet == [balance |-> 0, escrow |-> 0, deposited |-> 0,
                withdrawn |-> 0, earned |-> 0, spent |-> 0]

(* The sum of the amounts of a set of rows.                                *)
Total(amount, rows) == MapThenSumSet(LAMBDA x : amount[x], rows)

HasSufficientBalance(w, amount) == w.balance >= amount

-----------------------------------------------------------------------------
(* Deposit: credit, counted in the lifetime deposits.                      *)
CanDeposit(w, amount) ==
    /\ amount > 0
    /\ MaxWalletBalance > 0 => w.balance + amount <= MaxWalletBalance

(* Mutant of AfterDeposit: the deposit is debited.                         *)
AfterDepositDebited(w, amount) ==
    [w EXCEPT !.balance = @ - amount, !.deposited = @ + amount]

AfterDeposit(w, amount) ==
    [w EXCEPT !.balance = @ + amount, !.deposited = @ + amount]

(* Mutant of CanWithdraw: the balance is not checked.                      *)
CanOverdraw(w, amount) == amount > 0

(* Withdraw: debit, counted in the lifetime withdrawals.                   *)
CanWithdraw(w, amount) == amount > 0 /\ HasSufficientBalance(w, amount)

AfterWithdraw(w, amount) ==
    [w EXCEPT !.balance = @ - amount, !.withdrawn = @ + amount]

(* Mutant of CanHold: the balance is not checked.                          *)
CanHoldUnfunded(w, amount) == amount > 0

(* HoldInEscrow: balance to escrow, counted as spent.                      *)
CanHold(w, amount) == amount > 0 /\ HasSufficientBalance(w, amount)

AfterHold(w, amount) ==
    [w EXCEPT !.balance = @ - amount, !.escrow = @ + amount,
              !.spent = @ + amount]

(* Mutant of AfterRelease: the payer's escrow is not debited.              *)
AfterReleaseKept(w, amount) == w

(* Mutant of AfterEarning: the lifetime earnings are not counted.          *)
AfterEarningUncounted(w, amount) == [w EXCEPT !.balance = @ + amount]

(* ReleaseFromEscrow: the payer's escrow goes to the payee's balance; the  *)
(* payee's wallet has no maximum here.                                     *)
CanRelease(w, amount) == amount > 0 /\ w.escrow >= amount

AfterRelease(w, amount) == [w EXCEPT !.escrow = @ - amount]

AfterEarning(w, amount) ==
    [w EXCEPT !.balance = @ + amount, !.earned = @ + amount]

(* Mutants of AfterRefund: the escrow keeps the amount; the amount stays   *)
(* counted as spent.                                                       *)
AfterRefundDoubled(w, amount) ==
    [w EXCEPT !.balance = @ + amount, !.spent = @ - amount]

AfterRefundSpent(w, amount) ==
    [w EXCEPT !.balance = @ + amount, !.escrow = @ - amount]

(* RefundFromEscrow: escrow back to balance, the spending reversed; the    *)
(* hook on the update refuses a negative total.                            *)
CanRefund(w, amount) ==
    amount > 0 /\ w.escrow >= amount /\ w.spent >= amount

AfterRefund(w, amount) ==
    [w EXCEPT !.balance = @ + amount, !.escrow = @ - amount,
              !.spent = @ - amount]
=============================================================================
