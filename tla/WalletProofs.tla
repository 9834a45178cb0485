---------------------------- MODULE WalletProofs ----------------------------
(***************************************************************************)
(* What the operations on a wallet row do, stated once for the proofs      *)
(* about the modules that use them: each yields a row without negative     *)
(* fields and keeps the identity that explains a balance by the lifetime   *)
(* totals; and how a total over a set of rows changes with its rows.       *)
(***************************************************************************)
EXTENDS Wallet, FiniteSetTheorems, WellFoundedInduction, TLAPS

(* The balance of a wallet is explained by its lifetime totals.            *)
Explained(w) == w.balance + w.spent + w.withdrawn = w.deposited + w.earned

(* Writing a natural number into one column of a row gives a row.          *)
LEMMA FieldUpdate ==
    ASSUME NEW w \in WalletRow, NEW n \in Nat
    PROVE  /\ [w EXCEPT !.balance = n] \in WalletRow
           /\ [w EXCEPT !.escrow = n] \in WalletRow
           /\ [w EXCEPT !.deposited = n] \in WalletRow
           /\ [w EXCEPT !.withdrawn = n] \in WalletRow
           /\ [w EXCEPT !.earned = n] \in WalletRow
           /\ [w EXCEPT !.spent = n] \in WalletRow
  BY DEF WalletRow

(* The columns are numbers.                                                *)
LEMMA RowIsNumbers ==
    ASSUME NEW w \in WalletRow
    PROVE  /\ w.balance \in Int /\ w.escrow \in Int /\ w.deposited \in Int
           /\ w.withdrawn \in Int /\ w.earned \in Int /\ w.spent \in Int
  BY DEF WalletRow

(* The row of a wallet that was never used.                                *)
LEMMA EmptyWalletFacts == EmptyWallet \in WalletRow /\ Explained(EmptyWallet)
  BY DEF EmptyWallet, WalletRow, Explained

(* A deposit credits the balance and the lifetime deposits, nothing else.  *)
LEMMA DepositFacts ==
    ASSUME NEW w \in WalletRow, NEW amount \in Nat, CanDeposit(w, amount)
    PROVE  /\ AfterDeposit(w, amount) \in WalletRow
           /\ Explained(w) => Explained(AfterDeposit(w, amount))
           /\ AfterDeposit(w, amount).balance = w.balance + amount
           /\ AfterDeposit(w, amount).escrow = w.escrow
           /\ AfterDeposit(w, amount).deposited = w.deposited + amount
           /\ AfterDeposit(w, amount).withdrawn = w.withdrawn
           /\ AfterDeposit(w, amount).earned = w.earned
<1>1. /\ w.balance + amount \in Nat
      /\ w.deposited + amount \in Nat
  BY DEF WalletRow, CanDeposit
<1>2. PICK w1 \in WalletRow : w1 = [w EXCEPT !.balance = w.balance + amount]
  BY <1>1, FieldUpdate
<1>3. [w1 EXCEPT !.deposited = w.deposited + amount] \in WalletRow
  BY <1>1, FieldUpdate
<1>4. AfterDeposit(w, amount) \in WalletRow
  BY <1>2, <1>3 DEF AfterDeposit
<1>5. /\ AfterDeposit(w, amount).balance = w.balance + amount
      /\ AfterDeposit(w, amount).escrow = w.escrow
      /\ AfterDeposit(w, amount).deposited = w.deposited + amount
      /\ AfterDeposit(w, amount).withdrawn = w.withdrawn
      /\ AfterDeposit(w, amount).earned = w.earned
      /\ AfterDeposit(w, amount).spent = w.spent
  BY DEF WalletRow, AfterDeposit
<1>. QED
  BY <1>4, <1>5 DEF Explained, WalletRow

(* A withdrawal debits the balance and counts in the lifetime withdrawals. *)
LEMMA WithdrawFacts ==
    ASSUME NEW w \in WalletRow, NEW amount \in Nat, CanWithdraw(w, amount)
    PROVE  /\ AfterWithdraw(w, amount) \in WalletRow
           /\ Explained(w) => Explained(AfterWithdraw(w, amount))
           /\ AfterWithdraw(w, amount).balance = w.balance - amount
           /\ AfterWithdraw(w, amount).escrow = w.escrow
           /\ AfterWithdraw(w, amount).deposited = w.deposited
           /\ AfterWithdraw(w, amount).withdrawn = w.withdrawn + amount
           /\ AfterWithdraw(w, amount).earned = w.earned
<1>1. /\ w.balance - amount \in Nat
      /\ w.withdrawn + amount \in Nat
  BY DEF WalletRow, CanWithdraw, HasSufficientBalance
<1>2. PICK w1 \in WalletRow : w1 = [w EXCEPT !.balance = w.balance - amount]
  BY <1>1, FieldUpdate
<1>3. [w1 EXCEPT !.withdrawn = w.withdrawn + amount] \in WalletRow
  BY <1>1, FieldUpdate
<1>4. AfterWithdraw(w, amount) \in WalletRow
  BY <1>2, <1>3 DEF AfterWithdraw
<1>5. /\ AfterWithdraw(w, amount).balance = w.balance - amount
      /\ AfterWithdraw(w, amount).escrow = w.escrow
      /\ AfterWithdraw(w, amount).deposited = w.deposited
      /\ AfterWithdraw(w, amount).withdrawn = w.withdrawn + amount
      /\ AfterWithdraw(w, amount).earned = w.earned
      /\ AfterWithdraw(w, amount).spent = w.spent
  BY DEF WalletRow, AfterWithdraw
<1>. QED
  BY <1>4, <1>5 DEF Explained, WalletRow

(* A hold moves money from balance to escrow and counts it as spent.       *)
LEMMA HoldFacts ==
    ASSUME NEW w \in WalletRow, NEW amount \in Nat, CanHold(w, amount)
    PROVE  /\ AfterHold(w, amount) \in WalletRow
           /\ Explained(w) => Explained(AfterHold(w, amount))
           /\ AfterHold(w, amount).balance = w.balance - amount
           /\ AfterHold(w, amount).escrow = w.escrow + amount
           /\ AfterHold(w, amount).deposited = w.deposited
           /\ AfterHold(w, amount).withdrawn = w.withdrawn
           /\ AfterHold(w, amount).earned = w.earned
<1>1. /\ w.balance - amount \in Nat
      /\ w.escrow + amount \in Nat
      /\ w.spent + amount \in Nat
  BY DEF WalletRow, CanHold, HasSufficientBalance
<1>2. PICK w1 \in WalletRow : w1 = [w EXCEPT !.balance = w.balance - amount]
  BY <1>1, FieldUpdate
<1>3. PICK w2 \in WalletRow : w2 = [w1 EXCEPT !.escrow = w.escrow + amount]
  BY <1>1, FieldUpdate
<1>4. [w2 EXCEPT !.spent = w.spent + amount] \in WalletRow
  BY <1>1, FieldUpdate
<1>5. AfterHold(w, amount) \in WalletRow
  BY <1>2, <1>3, <1>4 DEF AfterHold
<1>6. /\ AfterHold(w, amount).balance = w.balance - amount
      /\ AfterHold(w, amount).escrow = w.escrow + amount
      /\ AfterHold(w, amount).deposited = w.deposited
      /\ AfterHold(w, amount).withdrawn = w.withdrawn
      /\ AfterHold(w, amount).earned = w.earned
      /\ AfterHold(w, amount).spent = w.spent + amount
  BY DEF WalletRow, AfterHold
<1>. QED
  BY <1>5, <1>6 DEF Explained, WalletRow

(* A release takes money out of the payer's escrow.                        *)
LEMMA ReleaseFacts ==
    ASSUME NEW w \in WalletRow, NEW amount \in Nat, CanRelease(w, amount)
    PROVE  /\ AfterRelease(w, amount) \in WalletRow
           /\ Explained(w) => Explained(AfterRelease(w, amount))
           /\ AfterRelease(w, amount).balance = w.balance
           /\ AfterRelease(w, amount).escrow = w.escrow - amount
           /\ AfterRelease(w, amount).deposited = w.deposited
           /\ AfterRelease(w, amount).withdrawn = w.withdrawn
           /\ AfterRelease(w, amount).earned = w.earned
<1>1. w.escrow - amount \in Nat
  BY DEF WalletRow, CanRelease
<1>2. [w EXCEPT !.escrow = w.escrow - amount] \in WalletRow
  BY <1>1, FieldUpdate
<1>3. AfterRelease(w, amount) \in WalletRow
  BY <1>2 DEF AfterRelease
<1>4. /\ AfterRelease(w, amount).balance = w.balance
      /\ AfterRelease(w, amount).escrow = w.escrow - amount
      /\ AfterRelease(w, amount).deposited = w.deposited
      /\ AfterRelease(w, amount).withdrawn = w.withdrawn
      /\ AfterRelease(w, amount).earned = w.earned
      /\ AfterRelease(w, amount).spent = w.spent
  BY DEF WalletRow, AfterRelease
<1>. QED
  BY <1>3, <1>4 DEF Explained, WalletRow

(* An earning credits the payee's balance and lifetime earnings.           *)
LEMMA EarningFacts ==
    ASSUME NEW w \in WalletRow, NEW amount \in Nat
    PROVE  /\ AfterEarning(w, amount) \in WalletRow
           /\ Explained(w) => Explained(AfterEarning(w, amount))
           /\ AfterEarning(w, amount).balance = w.balance + amount
           /\ AfterEarning(w, amount).escrow = w.escrow
           /\ AfterEarning(w, amount).deposited = w.deposited
           /\ AfterEarning(w, amount).withdrawn = w.withdrawn
           /\ AfterEarning(w, amount).earned = w.earned + amount
<1>1. /\ w.balance + amount \in Nat
      /\ w.earned + amount \in Nat
  BY DEF WalletRow
<1>2. PICK w1 \in WalletRow : w1 = [w EXCEPT !.balance = w.balance + amount]
  BY <1>1, FieldUpdate
<1>3. [w1 EXCEPT !.earned = w.earned + amount] \in WalletRow
  BY <1>1, FieldUpdate
<1>4. AfterEarning(w, amount) \in WalletRow
  BY <1>2, <1>3 DEF AfterEarning
<1>5. /\ AfterEarning(w, amount).balance = w.balance + amount
      /\ AfterEarning(w, amount).escrow = w.escrow
      /\ AfterEarning(w, amount).deposited = w.deposited
      /\ AfterEarning(w, amount).withdrawn = w.withdrawn
      /\ AfterEarning(w, amount).earned = w.earned + amount
      /\ AfterEarning(w, amount).spent = w.spent
  BY DEF WalletRow, AfterEarning
<1>. QED
  BY <1>4, <1>5 DEF Explained, WalletRow

(* A refund moves money from escrow back to balance and unspends it.       *)
LEMMA RefundFacts ==
    ASSUME NEW w \in WalletRow, NEW amount \in Nat, CanRefund(w, amount)
    PROVE  /\ AfterRefund(w, amount) \in WalletRow
           /\ Explained(w) => Explained(AfterRefund(w, amount))
           /\ AfterRefund(w, amount).balance = w.balance + amount
           /\ AfterRefund(w, amount).escrow = w.escrow - amount
           /\ AfterRefund(w, amount).deposited = w.deposited
           /\ AfterRefund(w, amount).withdrawn = w.withdrawn
           /\ AfterRefund(w, amount).earned = w.earned
<1>1. /\ w.balance + amount \in Nat
      /\ w.escrow - amount \in Nat
      /\ w.spent - amount \in Nat
  BY DEF WalletRow, CanRefund
<1>2. PICK w1 \in WalletRow : w1 = [w EXCEPT !.balance = w.balance + amount]
  BY <1>1, FieldUpdate
<1>3. PICK w2 \in WalletRow : w2 = [w1 EXCEPT !.escrow = w.escrow - amount]
  BY <1>1, FieldUpdate
<1>4. [w2 EXCEPT !.spent = w.spent - amount] \in WalletRow
  BY <1>1, FieldUpdate
<1>5. AfterRefund(w, amount) \in WalletRow
  BY <1>2, <1>3, <1>4 DEF AfterRefund
<1>6. /\ AfterRefund(w, amount).balance = w.balance + amount
      /\ AfterRefund(w, amount).escrow = w.escrow - amount
      /\ AfterRefund(w, amount).deposited = w.deposited
      /\ AfterRefund(w, amount).withdrawn = w.withdrawn
      /\ AfterRefund(w, amount).earned = w.earned
      /\ AfterRefund(w, amount).spent = w.spent - amount
  BY DEF WalletRow, AfterRefund
<1>. QED
  BY <1>5, <1>6 DEF Explained, WalletRow

-----------------------------------------------------------------------------
(* Totals.                                                                 *)

(* Induction over the subsets of a finite set: among those that have a     *)
(* property there is one of which no smaller one has it.                   *)
LEMMA SmallestSubset ==
    ASSUME NEW S, IsFiniteSet(S), NEW B \in SUBSET SUBSET S, B # {}
    PROVE  \E T \in B : \A U \in SUBSET T : U # T => U \notin B
<1>1. IsWellFoundedOn(StrictSubsetOrdering(S), FiniteSubsetsOf(S))
  BY FS_StrictSubsetOrderingWellFounded
<1>2. B \subseteq FiniteSubsetsOf(S)
  BY FS_FiniteSubsetsOfFinite
<1>3. PICK T \in B : \A U \in B : <<U, T>> \notin StrictSubsetOrdering(S)
  BY <1>1, <1>2, WFMin
<1>4. ASSUME NEW U \in SUBSET T, U # T, U \in B PROVE FALSE
  <2>1. <<U, T>> \in (SUBSET S) \X (SUBSET S)
    BY <1>4
  <2>2. <<U, T>> \in StrictSubsetOrdering(S)
    BY <1>4, <2>1 DEF StrictSubsetOrdering
  <2> QED
    BY <1>3, <1>4, <2>2
<1> QED
  BY <1>3, <1>4

(* How MapThenSumSet takes a set apart, and the function it defines.       *)
OneOf(s) == CHOOSE x \in s : TRUE

AddsUp(g, f, S) ==
    g = [s \in SUBSET S |-> IF s = {} THEN 0 ELSE f[OneOf(s)] + g[s \ {OneOf(s)}]]

LEMMA OneOfFacts == ASSUME NEW s, s # {} PROVE OneOf(s) \in s
  BY DEF OneOf

LEMMA AddsUpAgree ==
    ASSUME NEW S, IsFiniteSet(S), NEW T \in SUBSET S, NEW f, NEW g, NEW h,
           AddsUp(g, f, S), AddsUp(h, f, T), NEW s \in SUBSET T
    PROVE  g[s] = h[s]
<1> DEFINE B == {u \in SUBSET T : g[u] # h[u]}
<1>1. SUFFICES ASSUME B # {} PROVE FALSE
  OBVIOUS
<1>2. IsFiniteSet(T)
  BY FS_Subset
<1>3. PICK u \in B : \A v \in SUBSET u : v # u => v \notin B
  <2> HIDE DEF B
  <2>1. B \in SUBSET SUBSET T
    BY DEF B
  <2> QED
    BY <1>1, <1>2, <2>1, SmallestSubset
<1>4. /\ u \in SUBSET T /\ u \in SUBSET S /\ g[u] # h[u]
  OBVIOUS
<1>5. /\ g[u] = IF u = {} THEN 0 ELSE f[OneOf(u)] + g[u \ {OneOf(u)}]
      /\ h[u] = IF u = {} THEN 0 ELSE f[OneOf(u)] + h[u \ {OneOf(u)}]
  BY <1>4 DEF AddsUp
<1>6. CASE u # {}
  <2>1. PICK v : v = u \ {OneOf(u)}
    OBVIOUS
  <2>2. v \in SUBSET u /\ v # u /\ v \in SUBSET T
    BY <1>4, <1>6, <2>1, OneOfFacts
  <2>3. g[v] = h[v]
    BY <1>3, <2>2
  <2> QED
    BY <1>4, <1>5, <1>6, <2>1, <2>3
<1> QED
  BY <1>4, <1>5, <1>6

LEMMA AddsUpExists ==
    ASSUME NEW S, IsFiniteSet(S), NEW f
    PROVE  \E g : AddsUp(g, f, S)
<1> DEFINE B == {T \in SUBSET S : ~ \E g : AddsUp(g, f, T)}
<1>1. SUFFICES ASSUME B # {} PROVE FALSE
  OBVIOUS
<1>2. PICK T \in B : \A U \in SUBSET T : U # T => U \notin B
  <2> HIDE DEF B
  <2>1. B \in SUBSET SUBSET S
    BY DEF B
  <2> QED
    BY <1>1, <2>1, SmallestSubset
<1>3. T \in SUBSET S /\ ~ \E g : AddsUp(g, f, T)
  OBVIOUS
<1>4. \A U \in SUBSET T : U # T => \E g : AddsUp(g, f, U)
  BY <1>2, <1>3
<1> DEFINE of(U) == CHOOSE g : AddsUp(g, f, U)
           rest(s) == s \ {OneOf(s)}
           G == [s \in SUBSET T |-> IF s = {} THEN 0 ELSE f[OneOf(s)] + of(rest(s))[rest(s)]]
<1>5. \A U \in SUBSET T : U # T => AddsUp(of(U), f, U)
  BY <1>4
<1>6. ASSUME NEW s \in SUBSET T, s # {}
      PROVE  rest(s) \in SUBSET T /\ rest(s) \in SUBSET s /\ rest(s) # T
  BY <1>6, OneOfFacts
<1> HIDE DEF B, of, rest
<1>7. ASSUME NEW s \in SUBSET T, s # {}
      PROVE  G[rest(s)] = of(rest(s))[rest(s)]
  <2>1. PICK U : U = rest(s)
    OBVIOUS
  <2>2. U \in SUBSET T /\ U # T
    BY <1>6, <1>7, <2>1
  <2>3. AddsUp(of(U), f, U)
    BY <1>5, <2>2
  <2>4. U \in SUBSET U
    OBVIOUS
  <2>5. of(U)[U] = IF U = {} THEN 0 ELSE f[OneOf(U)] + of(U)[rest(U)]
    BY <2>3, <2>4 DEF AddsUp, rest
  <2>6. G[U] = IF U = {} THEN 0 ELSE f[OneOf(U)] + of(rest(U))[rest(U)]
    BY <2>2
  <2>7. CASE U # {}
    <3>1. rest(U) \in SUBSET U /\ rest(U) \in SUBSET T /\ rest(U) # T
      BY <1>6, <2>2, <2>7
    <3>2. AddsUp(of(rest(U)), f, rest(U))
      BY <1>5, <3>1
    <3>3. IsFiniteSet(U)
      BY <1>3, <2>2, FS_Subset
    <3>4. rest(U) \in SUBSET rest(U)
      OBVIOUS
    <3>5. of(U)[rest(U)] = of(rest(U))[rest(U)]
      BY <2>3, <3>1, <3>2, <3>3, <3>4, AddsUpAgree
    <3> QED
      BY <2>1, <2>5, <2>6, <2>7, <3>5
  <2> QED
    BY <2>1, <2>5, <2>6, <2>7
<1>8. \A s \in SUBSET T :
         G[s] = IF s = {} THEN 0 ELSE f[OneOf(s)] + G[rest(s)]
  BY <1>7
<1>9. G = [s \in SUBSET T |-> IF s = {} THEN 0 ELSE f[OneOf(s)] + G[rest(s)]]
  <2>1. PICK H : H = G
    OBVIOUS
  <2>2. H = [s \in SUBSET T |-> H[s]]
    BY <2>1
  <2>3. \A s \in SUBSET T : H[s] = IF s = {} THEN 0 ELSE f[OneOf(s)] + H[rest(s)]
    BY <1>8, <2>1
  <2> HIDE DEF G
  <2> QED
    BY <2>1, <2>2, <2>3
<1>10. AddsUp(G, f, T)
  <2> HIDE DEF G
  <2> QED
    BY <1>9 DEF AddsUp, rest
<1> QED
  BY <1>3, <1>10

LEMMA TotalIsValue ==
    ASSUME NEW S, IsFiniteSet(S), NEW f
    PROVE  \E g : AddsUp(g, f, S) /\ Total(f, S) = g[S]
<1> DEFINE g == CHOOSE h : AddsUp(h, f, S)
<1>1. AddsUp(g, f, S)
  BY AddsUpExists
<1>2. Total(f, S) = g[S]
  BY DEF Total, MapThenSumSet, MapThenFoldSet, AddsUp, OneOf
<1> QED
  BY <1>1, <1>2

LEMMA TotalOfNone == ASSUME NEW f PROVE Total(f, {}) = 0
<1>1. PICK g : AddsUp(g, f, {}) /\ Total(f, {}) = g[{}]
  BY FS_EmptySet, TotalIsValue
<1> QED
  BY <1>1 DEF AddsUp

LEMMA TotalStep ==
    ASSUME NEW S, IsFiniteSet(S), S # {}, NEW f
    PROVE  Total(f, S) = f[OneOf(S)] + Total(f, S \ {OneOf(S)})
<1>1. PICK g : AddsUp(g, f, S) /\ Total(f, S) = g[S]
  BY TotalIsValue
<1>2. PICK R \in SUBSET S : R = S \ {OneOf(S)}
  OBVIOUS
<1>3. IsFiniteSet(R)
  BY FS_Subset
<1>4. PICK h : AddsUp(h, f, R) /\ Total(f, R) = h[R]
  BY <1>3, TotalIsValue
<1>5. g[R] = h[R]
  BY <1>1, <1>4, AddsUpAgree
<1>6. S \in SUBSET S
  OBVIOUS
<1>7. g[S] = f[OneOf(S)] + g[R]
  BY <1>1, <1>2, <1>6 DEF AddsUp
<1> QED
  BY <1>1, <1>2, <1>4, <1>5, <1>7

(* A property of all totals over subsets: the smallest one without it.     *)
LEMMA TotalIsInt ==
    ASSUME NEW S, IsFiniteSet(S), NEW f, \A x \in S : f[x] \in Int
    PROVE  Total(f, S) \in Int
<1> DEFINE B == {T \in SUBSET S : Total(f, T) \notin Int}
<1>1. SUFFICES ASSUME B # {} PROVE FALSE
  BY DEF B
<1>2. PICK T \in B : \A U \in SUBSET T : U # T => U \notin B
  <2> HIDE DEF B
  <2>1. B \in SUBSET SUBSET S
    BY DEF B
  <2> QED
    BY <1>1, <2>1, SmallestSubset
<1>3. T \in SUBSET S /\ Total(f, T) \notin Int
  OBVIOUS
<1>4. IsFiniteSet(T)
  BY <1>3, FS_Subset
<1>5. CASE T = {}
  BY <1>3, <1>5, TotalOfNone
<1>6. CASE T # {}
  <2>1. PICK U : U = T \ {OneOf(T)}
    OBVIOUS
  <2>2. Total(f, U) \in Int /\ f[OneOf(T)] \in Int
    BY <1>2, <1>3, <1>6, <2>1, OneOfFacts
  <2> QED
    BY <1>3, <1>4, <1>6, <2>1, <2>2, TotalStep
<1> QED
  BY <1>5, <1>6

LEMMA TotalSame ==
    ASSUME NEW S, IsFiniteSet(S), NEW f, NEW k, \A x \in S : f[x] = k[x]
    PROVE  Total(f, S) = Total(k, S)
<1> DEFINE B == {T \in SUBSET S : Total(f, T) # Total(k, T)}
<1>1. SUFFICES ASSUME B # {} PROVE FALSE
  BY DEF B
<1>2. PICK T \in B : \A U \in SUBSET T : U # T => U \notin B
  <2> HIDE DEF B
  <2>1. B \in SUBSET SUBSET S
    BY DEF B
  <2> QED
    BY <1>1, <2>1, SmallestSubset
<1>3. T \in SUBSET S /\ Total(f, T) # Total(k, T)
  OBVIOUS
<1>4. IsFiniteSet(T)
  BY <1>3, FS_Subset
<1>5. CASE T = {}
  BY <1>3, <1>5, TotalOfNone
<1>6. CASE T # {}
  <2>1. PICK U : U = T \ {OneOf(T)}
    OBVIOUS
  <2>2. Total(f, U) = Total(k, U) /\ f[OneOf(T)] = k[OneOf(T)]
    BY <1>2, <1>3, <1>6, <2>1, OneOfFacts
  <2> QED
    BY <1>3, <1>4, <1>6, <2>1, <2>2, TotalStep
<1> QED
  BY <1>5, <1>6

(* The order of the elements does not matter.                              *)
LEMMA TotalRemove ==
    ASSUME NEW S, IsFiniteSet(S), NEW f, \A x \in S : f[x] \in Int, NEW u \in S
    PROVE  Total(f, S) = f[u] + Total(f, S \ {u})
<1> DEFINE B == {T \in SUBSET S : \E x \in T : Total(f, T) # f[x] + Total(f, T \ {x})}
<1>1. SUFFICES ASSUME B # {} PROVE FALSE
  <2>1. S \in SUBSET S
    OBVIOUS
  <2> QED
    BY <2>1
<1>2. PICK T \in B : \A U \in SUBSET T : U # T => U \notin B
  <2> HIDE DEF B
  <2>1. B \in SUBSET SUBSET S
    BY DEF B
  <2> QED
    BY <1>1, <2>1, SmallestSubset
<1>3. PICK x \in T : Total(f, T) # f[x] + Total(f, T \ {x})
  OBVIOUS
<1>4. T \in SUBSET S /\ IsFiniteSet(T)
  BY FS_Subset
<1>5. PICK c \in T : c = OneOf(T)
  BY <1>3, OneOfFacts
<1>6. Total(f, T) = f[c] + Total(f, T \ {c})
  BY <1>3, <1>4, <1>5, TotalStep
<1>7. c # x
  BY <1>3, <1>6
<1>8. PICK R : R = (T \ {c}) \ {x}
  OBVIOUS
<1>9. R = (T \ {x}) \ {c}
  BY <1>8
<1>10. \A U \in SUBSET T : U # T => \A y \in U : Total(f, U) = f[y] + Total(f, U \ {y})
  BY <1>2, <1>4
<1> HIDE DEF B
<1>11. Total(f, T \ {c}) = f[x] + Total(f, R)
  BY <1>7, <1>8, <1>10
<1>12. Total(f, T \ {x}) = f[c] + Total(f, R)
  BY <1>7, <1>9, <1>10
<1>13. f[c] \in Int /\ f[x] \in Int /\ Total(f, R) \in Int
  <2>1. R \in SUBSET S /\ IsFiniteSet(R)
    BY <1>4, <1>8, FS_Subset
  <2> QED
    BY <1>4, <2>1, TotalIsInt
<1> QED
  BY <1>3, <1>6, <1>11, <1>12, <1>13

(* One amount changes.                                                     *)
LEMMA TotalChange ==
    ASSUME NEW S, IsFiniteSet(S), NEW f, NEW k, NEW u \in S,
           \A x \in S : f[x] \in Int, k[u] \in Int,
           \A x \in S : x # u => k[x] = f[x]
    PROVE  Total(k, S) = Total(f, S) + k[u] - f[u]
<1>1. PICK R : R = S \ {u}
  OBVIOUS
<1>2. IsFiniteSet(R)
  BY <1>1, FS_Subset
<1>3. Total(f, R) = Total(k, R)
  BY <1>1, <1>2, TotalSame
<1>4. Total(f, R) \in Int
  BY <1>1, <1>2, TotalIsInt
<1>5. Total(f, S) = f[u] + Total(f, R)
  BY <1>1, TotalRemove
<1>6. \A x \in S : k[x] \in Int
  OBVIOUS
<1>7. Total(k, S) = k[u] + Total(k, R)
  BY <1>1, <1>6, TotalRemove
<1> QED
  BY <1>3, <1>4, <1>5, <1>7

(* One amount changes, counted or not.                                     *)
LEMMA TotalChangeWithin ==
    ASSUME NEW S, IsFiniteSet(S), NEW f, NEW k, NEW u,
           \A x \in S : f[x] \in Int, k[u] \in Int,
           \A x \in S : x # u => k[x] = f[x]
    PROVE  Total(k, S) = Total(f, S) + (IF u \in S THEN k[u] - f[u] ELSE 0)
<1>1. Total(f, S) \in Int
  BY TotalIsInt
<1>2. CASE u \in S
  <2>1. Total(k, S) = Total(f, S) + k[u] - f[u]
    BY <1>2, TotalChange
  <2> QED
    BY <1>1, <1>2, <2>1
<1>3. CASE u \notin S
  <2>1. Total(k, S) = Total(f, S)
    BY <1>3, TotalSame
  <2> QED
    BY <1>1, <1>3, <2>1
<1> QED
  BY <1>2, <1>3

(* What is zero need not be counted.                                       *)
LEMMA TotalSelect ==
    ASSUME NEW S, IsFiniteSet(S), NEW f, NEW P \in SUBSET S,
           \A x \in S : f[x] \in Int, \A x \in S \ P : f[x] = 0
    PROVE  Total(f, S) = Total(f, P)
<1> DEFINE B == {T \in SUBSET S : Total(f, T) # Total(f, T \cap P)}
<1>1. SUFFICES ASSUME B # {} PROVE FALSE
  <2>1. S \cap P = P
    OBVIOUS
  <2> QED
    BY <2>1
<1>2. PICK T \in B : \A U \in SUBSET T : U # T => U \notin B
  <2> HIDE DEF B
  <2>1. B \in SUBSET SUBSET S
    BY DEF B
  <2> QED
    BY <1>1, <2>1, SmallestSubset
<1>3. /\ T \in SUBSET S /\ Total(f, T) # Total(f, T \cap P)
      /\ \A U \in SUBSET T : U # T => Total(f, U) = Total(f, U \cap P)
  BY <1>2
<1> HIDE DEF B
<1>4. IsFiniteSet(T)
  BY <1>3, FS_Subset
<1>5. T # {}
  <2>1. {} \cap P = {}
    OBVIOUS
  <2> QED
    BY <1>3, <2>1
<1>6. PICK c \in T : TRUE
  BY <1>5
<1>7. PICK R : R = T \ {c}
  OBVIOUS
<1>8. Total(f, T) = f[c] + Total(f, R) /\ Total(f, R) = Total(f, R \cap P)
  BY <1>3, <1>4, <1>7, TotalRemove
<1>9. IsFiniteSet(T \cap P) /\ IsFiniteSet(R \cap P) /\ Total(f, R \cap P) \in Int
  <2>1. IsFiniteSet(T \cap P) /\ IsFiniteSet(R \cap P)
    BY <1>4, <1>7, FS_Subset
  <2>2. \A x \in R \cap P : f[x] \in Int
    BY <1>3, <1>7
  <2> QED
    BY <2>1, <2>2, TotalIsInt
<1>10. CASE c \in P
  <2>1. c \in T \cap P /\ R \cap P = (T \cap P) \ {c} /\ \A x \in T \cap P : f[x] \in Int
    BY <1>3, <1>7, <1>10
  <2>2. Total(f, T \cap P) = f[c] + Total(f, R \cap P)
    BY <1>9, <2>1, TotalRemove
  <2> QED
    BY <1>3, <1>8, <2>2
<1>11. CASE c \notin P
  <2>1. R \cap P = T \cap P /\ f[c] = 0
    BY <1>3, <1>7, <1>11
  <2> QED
    BY <1>3, <1>8, <1>9, <2>1
<1> QED
  BY <1>10, <1>11

(* Larger amounts, larger total.                                           *)
LEMMA TotalOrder ==
    ASSUME NEW S, IsFiniteSet(S), NEW f, NEW k,
           \A x \in S : f[x] \in Int /\ k[x] \in Int /\ f[x] <= k[x]
    PROVE  Total(f, S) <= Total(k, S)
<1> DEFINE B == {T \in SUBSET S : ~(Total(f, T) <= Total(k, T))}
<1>1. SUFFICES ASSUME B # {} PROVE FALSE
  BY DEF B
<1>2. PICK T \in B : \A U \in SUBSET T : U # T => U \notin B
  <2> HIDE DEF B
  <2>1. B \in SUBSET SUBSET S
    BY DEF B
  <2> QED
    BY <1>1, <2>1, SmallestSubset
<1>3. /\ T \in SUBSET S /\ ~(Total(f, T) <= Total(k, T))
      /\ \A U \in SUBSET T : U # T => Total(f, U) <= Total(k, U)
  BY <1>2
<1> HIDE DEF B
<1>4. IsFiniteSet(T)
  BY <1>3, FS_Subset
<1>5. T # {}
  <2>1. Total(f, {}) = 0 /\ Total(k, {}) = 0
    BY TotalOfNone
  <2>2. Total(f, {}) <= Total(k, {})
    BY <2>1
  <2> QED
    BY <1>3, <2>2
<1>6. PICK c \in T : TRUE
  BY <1>5
<1>7. PICK R : R = T \ {c}
  OBVIOUS
<1>8. Total(f, T) = f[c] + Total(f, R) /\ Total(k, T) = k[c] + Total(k, R)
  BY <1>3, <1>4, <1>7, TotalRemove
<1>9. Total(f, R) \in Int /\ Total(k, R) \in Int
  <2>1. IsFiniteSet(R) /\ \A x \in R : f[x] \in Int /\ k[x] \in Int
    BY <1>3, <1>4, <1>7, FS_Subset
  <2> QED
    BY <2>1, TotalIsInt
<1>10. Total(f, R) <= Total(k, R)
  BY <1>3, <1>7
<1>11. f[c] \in Int /\ k[c] \in Int /\ f[c] <= k[c]
  BY <1>3
<1> QED
  BY <1>3, <1>8, <1>9, <1>10, <1>11

(* One more row.                                                           *)
LEMMA TotalAdd ==
    ASSUME NEW S, IsFiniteSet(S), NEW f, \A x \in S : f[x] \in Int,
           NEW u, u \notin S, f[u] \in Int
    PROVE  Total(f, S \cup {u}) = Total(f, S) + f[u]
<1>1. PICK R : R = S \cup {u}
  OBVIOUS
<1>2. IsFiniteSet(R)
  BY <1>1, FS_AddElement
<1>3. u \in R /\ R \ {u} = S /\ \A x \in R : f[x] \in Int
  BY <1>1
<1>4. Total(f, R) = f[u] + Total(f, S)
  BY <1>2, <1>3, TotalRemove
<1>5. Total(f, S) \in Int
  BY TotalIsInt
<1> QED
  BY <1>1, <1>4, <1>5

(* More rows, larger total.                                                *)
LEMMA TotalOfPart ==
    ASSUME NEW S, IsFiniteSet(S), NEW P \in SUBSET S, NEW f, \A x \in S : f[x] \in Nat
    PROVE  Total(f, P) <= Total(f, S)
<1>1. PICK k : k = [x \in S |-> IF x \in P THEN f[x] ELSE 0]
  OBVIOUS
<1>2. /\ \A x \in S : k[x] \in Int
      /\ \A x \in S \ P : k[x] = 0
      /\ \A x \in P : k[x] = f[x]
      /\ \A x \in S : k[x] \in Int /\ f[x] \in Int /\ k[x] <= f[x]
  BY <1>1
<1>3. Total(k, S) = Total(k, P)
  <2>1. /\ \A x \in S : k[x] \in Int
        /\ \A x \in S \ P : k[x] = 0
    BY <1>2
  <2> QED
    BY <2>1, TotalSelect
<1>4. IsFiniteSet(P)
  BY FS_Subset
<1>5. Total(k, P) = Total(f, P)
  <2>1. \A x \in P : k[x] = f[x]
    BY <1>2
  <2> QED
    BY <1>4, <2>1, TotalSame
<1>6. Total(k, S) <= Total(f, S)
  <2>1. \A x \in S : k[x] \in Int /\ f[x] \in Int /\ k[x] <= f[x]
    BY <1>2
  <2> QED
    BY <2>1, TotalOrder
<1> QED
  BY <1>3, <1>5, <1>6
=============================================================================
