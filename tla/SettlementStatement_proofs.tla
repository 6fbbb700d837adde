--------------------- MODULE SettlementStatement_proofs ---------------------
(***************************************************************************)
(* Theorems about SettlementStatement, for any finite set of movements,    *)
(* any amounts, and any moments at which the participant is stored again.  *)
(***************************************************************************)
EXTENDS SettlementStatement, FiniteSums

(* Any movements can be added up, and what opens a statement is what counts
   in it. *)
LEMMA AmountsAreInts ==
  /\ \A S \in SUBSET Movements : IsFiniteSet(S)
  /\ \A m \in Movements : /\ Signed[m] \in Int /\ OpeningPart[m] = Signed[m]
                          /\ FundsInAmount(m) \in Int /\ FundsOutAmount(m) \in Int
                          /\ FundsInAmount(m) - FundsOutAmount(m) = Signed[m]
                          /\ CurrencyOf[m] \in Nat
<1>1. ASSUME NEW S \in SUBSET Movements
      PROVE  IsFiniteSet(S)
  BY FS_Subset, MovementAssumption
<1>2. FundsInTypes \intersect FundsOutTypes = {}
  BY DEF FundsInTypes, FundsOutTypes, Deposit, Withdrawal, SettledCredit, SettledDebit,
         LiquidityCredit, LiquidityDebit
<1>3. ASSUME NEW m \in Movements
      PROVE  /\ Signed[m] \in Int /\ OpeningPart[m] = Signed[m]
             /\ FundsInAmount(m) \in Int /\ FundsOutAmount(m) \in Int
             /\ FundsInAmount(m) - FundsOutAmount(m) = Signed[m]
             /\ CurrencyOf[m] \in Nat
  <2>1. /\ AmountOf[m] \in Nat /\ CurrencyOf[m] \in Nat
        /\ TypeOf[m] \in FundsInTypes \/ TypeOf[m] \in FundsOutTypes
    BY MovementAssumption
  <2> QED
    BY <1>2, <2>1 DEF Signed, OpeningPart, FundsInAmount, FundsOutAmount
<1> QED
  BY <1>1, <1>3

(* An order of a set of movements has each of them once. *)
LEMMA OrderOfSet ==
  ASSUME NEW S \in SUBSET Movements, NEW order \in InOrder(S)
  PROVE  /\ Cardinality(S) \in Nat /\ order \in [1 .. Cardinality(S) -> S]
         /\ order \in Seq(Movements) /\ Len(order) = Cardinality(S)
         /\ \A i, j \in DOMAIN order : order[i] = order[j] => i = j
         /\ \A m \in S : \E i \in DOMAIN order : order[i] = m
         /\ \A i, j \in DOMAIN order : i < j => CurrencyOf[order[i]] <= CurrencyOf[order[j]]
<1> DEFINE n == Cardinality(S)
<1>1. IsFiniteSet(S) /\ n \in Nat
  BY AmountsAreInts, FS_CardinalityType
<1>2. /\ order \in [1 .. n -> S]
      /\ \A i, j \in 1 .. n : i # j => order[i] # order[j]
      /\ \A i, j \in DOMAIN order : i < j => CurrencyOf[order[i]] <= CurrencyOf[order[j]]
  BY DEF InOrder, SetToSeqs
<1>3. order \in Seq(Movements) /\ Len(order) = n /\ DOMAIN order = 1 .. n
  <2>1. order \in [1 .. n -> Movements]
    BY <1>2
  <2> QED
    BY <1>1, <2>1
<1>4. order \in Surjection(1 .. n, S)
  <2>1. order \in Injection(1 .. n, S)
    BY <1>2 DEF Injection, IsInjective
  <2>2. Cardinality(1 .. n) = n
    BY <1>1, FS_Interval
  <2> QED
    BY <1>1, <2>1, <2>2, FS_Injection
<1>5. \A m \in S : \E i \in 1 .. n : order[i] = m
  BY <1>4 DEF Surjection
<1> QED
  BY <1>1, <1>2, <1>3, <1>5

-----------------------------------------------------------------------------
(* The balance column. *)

(* The movements that row i and the rows above it have in its currency. *)
Passed(order, i) ==
  {m \in Movements : \E j \in DOMAIN order : /\ j <= i /\ order[j] = m
                                             /\ CurrencyOf[m] = CurrencyOf[order[i]]}

Continues(order, i) == i > 1 /\ CurrencyOf[order[i - 1]] = CurrencyOf[order[i]]

(* What row i adds to the balance it goes on from. *)
LEMMA PassedByRow ==
  ASSUME NEW S \in SUBSET Movements, NEW order \in InOrder(S), NEW i \in DOMAIN order
  PROVE  /\ i \in Nat /\ order[i] \in Movements /\ Passed(order, i) \in SUBSET Movements
         /\ Continues(order, i) =>
              /\ i - 1 \in DOMAIN order /\ order[i] \notin Passed(order, i - 1)
              /\ Passed(order, i) = Passed(order, i - 1) \union {order[i]}
         /\ ~Continues(order, i) => Passed(order, i) = {order[i]}
<1>1. /\ DOMAIN order = 1 .. Cardinality(S) /\ Cardinality(S) \in Nat
      /\ \A j \in DOMAIN order : order[j] \in Movements /\ CurrencyOf[order[j]] \in Nat
      /\ \A j, k \in DOMAIN order : order[j] = order[k] => j = k
      /\ \A j, k \in DOMAIN order : j < k => CurrencyOf[order[j]] <= CurrencyOf[order[k]]
  <2>1. order \in [1 .. Cardinality(S) -> S]
    BY OrderOfSet
  <2>2. \A j \in DOMAIN order : order[j] \in Movements /\ CurrencyOf[order[j]] \in Nat
    BY <2>1, AmountsAreInts
  <2> QED
    BY <2>1, <2>2, OrderOfSet
<1>2. ASSUME Continues(order, i)
      PROVE  /\ i - 1 \in DOMAIN order /\ order[i] \notin Passed(order, i - 1)
             /\ Passed(order, i) = Passed(order, i - 1) \union {order[i]}
  <2>1. i \in Nat /\ i > 1 /\ i - 1 \in DOMAIN order
        /\ CurrencyOf[order[i - 1]] = CurrencyOf[order[i]]
    BY <1>1, <1>2 DEF Continues
  <2>2. order[i] \notin Passed(order, i - 1)
    BY <1>1, <2>1 DEF Passed
  <2>3. \A j \in DOMAIN order : j <= i <=> j <= i - 1 \/ j = i
    BY <1>1, <2>1
  <2>4. \A m : m \in Passed(order, i) <=> m \in Passed(order, i - 1) \/ m = order[i]
    BY <1>1, <2>1, <2>3 DEF Passed
  <2> QED
    BY <2>1, <2>2, <2>4
<1>3. ASSUME ~Continues(order, i)
      PROVE  Passed(order, i) = {order[i]}
  <2>1. ASSUME NEW j \in DOMAIN order, j < i, CurrencyOf[order[j]] = CurrencyOf[order[i]]
        PROVE  FALSE
    <3>1. i > 1 /\ i - 1 \in DOMAIN order /\ j <= i - 1
      BY <1>1, <2>1
    <3>2. CurrencyOf[order[j]] <= CurrencyOf[order[i - 1]]
      BY <1>1, <3>1
    <3>3. CurrencyOf[order[i - 1]] <= CurrencyOf[order[i]]
      BY <1>1, <3>1
    <3>4. CurrencyOf[order[i - 1]] = CurrencyOf[order[i]]
      BY <1>1, <2>1, <3>1, <3>2, <3>3
    <3> QED
      BY <1>3, <3>1, <3>4 DEF Continues
  <2>2. \A j \in DOMAIN order : j <= i <=> j < i \/ j = i
    BY <1>1
  <2>3. \A m : m \in Passed(order, i) <=> m = order[i]
    BY <1>1, <2>1, <2>2 DEF Passed
  <2> QED
    BY <2>3
<1> QED
  BY <1>1, <1>2, <1>3 DEF Passed

(* The balance that a row goes on from, and the one that it shows with the
   opposite sign. *)
Row(order, funds, running, i) ==
  (IF Continues(order, i) THEN running[i - 1] ELSE OpeningAmount(CurrencyOf[order[i]], funds))
    + FundsInAmount(order[i]) - FundsOutAmount(order[i])

RunningBalance(order, funds) ==
  CHOOSE running : running = [i \in DOMAIN order |-> Row(order, funds, running, i)]

LEMMA BalancesAreRunning ==
  ASSUME NEW order, NEW funds
  PROVE  StatementBalances(order, funds)
           = [i \in DOMAIN order |-> -RunningBalance(order, funds)[i]]
BY DEF StatementBalances, RunningBalance, Row, Continues

(* The running balance of a row, without the recursion: what the currency
   started with, and every row of it so far once. *)
BalanceAt(order, funds, i) ==
  OpeningAmount(CurrencyOf[order[i]], funds) + SumFunctionOnSet(Signed, Passed(order, i))

LEMMA BalanceAtRow ==
  ASSUME NEW S \in SUBSET Movements, NEW order \in InOrder(S), NEW funds \in SUBSET Movements,
         NEW i \in DOMAIN order
  PROVE  /\ BalanceAt(order, funds, i) \in Int
         /\ OpeningAmount(CurrencyOf[order[i]], funds) \in Int
         /\ Continues(order, i) =>
              BalanceAt(order, funds, i)
                = BalanceAt(order, funds, i - 1) + FundsInAmount(order[i]) - FundsOutAmount(order[i])
         /\ ~Continues(order, i) =>
              BalanceAt(order, funds, i)
                = OpeningAmount(CurrencyOf[order[i]], funds)
                    + FundsInAmount(order[i]) - FundsOutAmount(order[i])
<1> DEFINE opening == OpeningAmount(CurrencyOf[order[i]], funds)
           of == {m \in funds : CurrencyOf[m] = CurrencyOf[order[i]]}
<1>1. opening \in Int
  <2>1. IsFiniteSet(of) /\ \A m \in of : OpeningPart[m] \in Int
    BY AmountsAreInts
  <2>2. SumFunctionOnSet(OpeningPart, of) \in Int
    BY <2>1, SumIsInt
  <2> QED
    BY <2>2 DEF OpeningAmount
<1>2. /\ order[i] \in Movements /\ i \in Nat
      /\ FundsInAmount(order[i]) \in Int /\ FundsOutAmount(order[i]) \in Int
      /\ Signed[order[i]] = FundsInAmount(order[i]) - FundsOutAmount(order[i])
  BY PassedByRow, AmountsAreInts
<1>3. \A j \in DOMAIN order : /\ IsFiniteSet(Passed(order, j))
                              /\ \A m \in Passed(order, j) : Signed[m] \in Int
                              /\ SumFunctionOnSet(Signed, Passed(order, j)) \in Int
  <2>1. \A j \in DOMAIN order : Passed(order, j) \in SUBSET Movements
    BY PassedByRow
  <2>2. \A j \in DOMAIN order : /\ IsFiniteSet(Passed(order, j))
                                /\ \A m \in Passed(order, j) : Signed[m] \in Int
    BY <2>1, AmountsAreInts
  <2> QED
    BY <2>2, SumIsInt
<1>4. ASSUME Continues(order, i)
      PROVE  BalanceAt(order, funds, i)
               = BalanceAt(order, funds, i - 1) + FundsInAmount(order[i]) - FundsOutAmount(order[i])
  <2>1. /\ i - 1 \in DOMAIN order /\ order[i] \notin Passed(order, i - 1)
        /\ Passed(order, i) = Passed(order, i - 1) \union {order[i]}
        /\ OpeningAmount(CurrencyOf[order[i - 1]], funds) = opening
    BY <1>4, PassedByRow DEF Continues
  <2>2. SumFunctionOnSet(Signed, Passed(order, i))
          = Signed[order[i]] + SumFunctionOnSet(Signed, Passed(order, i - 1))
    BY <1>2, <1>3, <2>1, AmountsAreInts, SumOfMore
  <2>3. SumFunctionOnSet(Signed, Passed(order, i - 1)) \in Int
    BY <1>3, <2>1
  <2> HIDE DEF opening
  <2> QED
    BY <1>1, <1>2, <2>1, <2>2, <2>3 DEF BalanceAt, opening
<1>5. ASSUME ~Continues(order, i)
      PROVE  BalanceAt(order, funds, i)
               = opening + FundsInAmount(order[i]) - FundsOutAmount(order[i])
  <2>1. Passed(order, i) = {order[i]}
    BY <1>5, PassedByRow
  <2>2. SumFunctionOnSet(Signed, {order[i]}) = Signed[order[i]]
    <3>1. SumFunctionOnSet(Signed, {} \union {order[i]})
            = Signed[order[i]] + SumFunctionOnSet(Signed, {})
      BY <1>2, FS_EmptySet, SumOfMore
    <3>2. {} \union {order[i]} = {order[i]}
      OBVIOUS
    <3> QED
      BY <1>2, <3>1, <3>2, SumOfNone
  <2> QED
    BY <1>1, <1>2, <2>1, <2>2 DEF BalanceAt
<1>6. BalanceAt(order, funds, i) \in Int
  BY <1>1, <1>3 DEF BalanceAt
<1> QED
  BY <1>1, <1>4, <1>5, <1>6

(* The recursion has a solution. *)
LEMMA RunningExists ==
  ASSUME NEW S \in SUBSET Movements, NEW order \in InOrder(S), NEW funds \in SUBSET Movements
  PROVE  RunningBalance(order, funds)
           = [i \in DOMAIN order |-> Row(order, funds, RunningBalance(order, funds), i)]
<1> DEFINE balances == [i \in DOMAIN order |-> BalanceAt(order, funds, i)]
<1>1. ASSUME NEW i \in DOMAIN order
      PROVE  BalanceAt(order, funds, i) = Row(order, funds, balances, i)
  <2>1. CASE Continues(order, i)
    <3>1. i - 1 \in DOMAIN order
      BY <2>1, PassedByRow
    <3>2. balances[i - 1] = BalanceAt(order, funds, i - 1)
      BY <3>1
    <3> HIDE DEF balances
    <3> QED
      BY <2>1, <3>2, BalanceAtRow DEF Row
  <2>2. CASE ~Continues(order, i)
    BY <2>2, BalanceAtRow DEF Row
  <2> QED
    BY <2>1, <2>2
<1>2. balances = [i \in DOMAIN order |-> Row(order, funds, balances, i)]
  BY <1>1
<1> HIDE DEF balances
<1>3. \E running : running = [i \in DOMAIN order |-> Row(order, funds, running, i)]
  BY <1>2
<1> QED
  BY <1>3 DEF RunningBalance

(* There is only one. *)
LEMMA RunningIsBalance ==
  ASSUME NEW S \in SUBSET Movements, NEW order \in InOrder(S), NEW funds \in SUBSET Movements,
         NEW i \in DOMAIN order
  PROVE  RunningBalance(order, funds)[i] = BalanceAt(order, funds, i)
<1> DEFINE running == RunningBalance(order, funds)
           D == DOMAIN order
           B == {j \in D : running[j] # BalanceAt(order, funds, j)}
           Below == {1 .. j : j \in B}
<1>1. D = 1 .. Cardinality(S) /\ Cardinality(S) \in Nat /\ IsFiniteSet(D)
  BY OrderOfSet, FS_Interval
<1>2. \A j \in D : running[j] = Row(order, funds, running, j)
  BY RunningExists
<1>3. \A j \in D : Continues(order, j) => j - 1 \in D
  BY PassedByRow
<1>4. ASSUME NEW j \in D, j \in B
      PROVE  j - 1 \in B
  <2>1. CASE Continues(order, j)
    <3>1. j - 1 \in D /\ running[j] = running[j - 1] + FundsInAmount(order[j]) - FundsOutAmount(order[j])
      BY <1>2, <1>3, <2>1 DEF Row
    <3>2. BalanceAt(order, funds, j)
            = BalanceAt(order, funds, j - 1) + FundsInAmount(order[j]) - FundsOutAmount(order[j])
      BY <2>1, BalanceAtRow
    <3> HIDE DEF running
    <3> QED
      BY <1>4, <3>1, <3>2
  <2>2. CASE ~Continues(order, j)
    <3>1. running[j] = OpeningAmount(CurrencyOf[order[j]], funds)
                         + FundsInAmount(order[j]) - FundsOutAmount(order[j])
      BY <1>2, <2>2 DEF Row
    <3>2. BalanceAt(order, funds, j) = OpeningAmount(CurrencyOf[order[j]], funds)
                         + FundsInAmount(order[j]) - FundsOutAmount(order[j])
      BY <2>2, BalanceAtRow
    <3> HIDE DEF running
    <3> QED
      BY <1>4, <3>1, <3>2
  <2> QED
    BY <2>1, <2>2
<1> HIDE DEF running, D
<1>5. ASSUME B # {}
      PROVE  FALSE
  <2>1. IsFiniteSet(D) /\ Below \in SUBSET (SUBSET D) /\ Below # {}
    BY <1>1, <1>5
  <2>2. PICK T \in Below : \A U \in Below : U \subseteq T => U = T
    <3> HIDE DEF B, Below
    <3> QED
      BY <2>1, MinimalSet
  <2>3. PICK j \in B : T = 1 .. j
    BY <2>2
  <2>4. j \in Nat /\ j - 1 \in B /\ 1 .. j - 1 \in Below
    BY <1>1, <1>4
  <2>5. 1 .. j - 1 \subseteq T /\ j \in T /\ j \notin 1 .. j - 1
    BY <1>1, <2>3, <2>4
  <2> HIDE DEF Below, B
  <2> QED
    BY <2>2, <2>4, <2>5
<1> QED
  BY <1>5 DEF D, running

(* The balance column has a number for each row. *)
LEMMA BalancesOfRows ==
  ASSUME NEW S \in SUBSET Movements, NEW order \in InOrder(S), NEW funds \in SUBSET Movements
  PROVE  /\ StatementBalances(order, funds) \in Seq(Int)
         /\ Len(StatementBalances(order, funds)) = Len(order)
         /\ \A i \in DOMAIN order :
              StatementBalances(order, funds)[i] = -BalanceAt(order, funds, i)
<1> DEFINE balances == StatementBalances(order, funds)
<1>1. balances = [i \in DOMAIN order |-> -RunningBalance(order, funds)[i]]
  BY BalancesAreRunning
<1>2. \A i \in DOMAIN order : -RunningBalance(order, funds)[i] = -BalanceAt(order, funds, i)
                             /\ -BalanceAt(order, funds, i) \in Int
  BY RunningIsBalance, BalanceAtRow
<1>3. /\ Len(order) \in Nat /\ DOMAIN order = 1 .. Len(order)
  BY OrderOfSet
<1> HIDE DEF balances
<1>4. balances \in [1 .. Len(order) -> Int]
  BY <1>1, <1>2, <1>3
<1>5. balances \in Seq(Int) /\ Len(balances) = Len(order)
  BY <1>3, <1>4
<1> QED
  BY <1>1, <1>2, <1>5 DEF balances

-----------------------------------------------------------------------------
(* The inductive invariant. *)

LEMMA InitIInv == Init => IInv
<1> SUFFICES ASSUME Init PROVE IInv
  OBVIOUS
<1>1. MaxTime \in Nat \ {0} /\ Currencies \subseteq Nat
  BY MovementAssumption
<1>2. NoQuery \in Queries
  BY <1>1 DEF NoQuery, Queries, Dates
<1>3. TypeOK
  BY <1>1, <1>2 DEF Init, TypeOK, Dates, Approvals
<1>4. DocumentsInOrder
  BY DEF Init, DocumentsInOrder, IsSnapshot, NotApproved
<1> QED
  BY <1>3, <1>4 DEF Init, IInv, RowsInOrder

(* What is approved now is later than all that any document has. *)
LEMMA ApproveKeepsDocuments ==
  ASSUME IInv, NEW m \in Movements, Approve(m)
  PROVE  DocumentsInOrder'
<1>1. /\ now \in Nat \ {0} /\ approved \in Approvals /\ stored \in Approvals
      /\ seen \in Approvals /\ approved[m] = NotApproved
      /\ approved' = [approved EXCEPT ![m] = now]
      /\ UNCHANGED <<now, stored, seen>>
  BY MovementAssumption DEF IInv, TypeOK, Dates, Approve
<1>2. \A n \in Movements : approved'[n] \in Nat /\ approved'[n] <= now /\ approved[n] <= now
                          /\ approved[n] \in Nat
                          /\ approved'[n] = IF n = m THEN now ELSE approved[n]
  BY <1>1 DEF IInv, DocumentsInOrder, Approvals, NotApproved, Dates
<1>3. ASSUME NEW doc \in Approvals, IsSnapshot(doc)
      PROVE  /\ \A n \in Movements : doc[n] \in {NotApproved, approved'[n]}
             /\ \A n, o \in Movements :
                  doc[o] # NotApproved /\ approved'[n] # NotApproved /\ approved'[n] < doc[o]
                  => doc[n] = approved'[n]
  <2>1. \A n \in Movements : doc[n] \in {NotApproved, approved[n]} /\ doc[n] \in Nat
                            /\ doc[n] <= now /\ (n = m => doc[n] = NotApproved)
    BY <1>1, <1>2, <1>3 DEF IsSnapshot, NotApproved
  <2>2. ASSUME NEW n \in Movements, NEW o \in Movements, doc[o] # NotApproved,
               approved'[n] # NotApproved, approved'[n] < doc[o]
        PROVE  doc[n] = approved'[n]
    <3>1. n # m
      BY <1>1, <1>2, <2>1, <2>2
    <3> QED
      BY <1>2, <1>3, <2>2, <3>1 DEF IsSnapshot
  <2> QED
    BY <1>2, <2>1, <2>2
<1>4. IsSnapshot(stored)' /\ IsSnapshot(seen)'
  BY <1>1, <1>3 DEF IInv, DocumentsInOrder, IsSnapshot
<1> QED
  BY <1>1, <1>2, <1>4 DEF IInv, DocumentsInOrder

LEMMA StepKeepsIInv == IInv /\ [Next]_vars => IInv'
<1> SUFFICES ASSUME IInv, [Next]_vars PROVE IInv'
  OBVIOUS
<1>1. MaxTime \in Nat \ {0}
  BY MovementAssumption
<1>2. CASE Tick
  <2>1. now' \in Dates /\ now < now' /\ now \in Nat /\ now' \in Nat
    BY <1>1, <1>2 DEF Tick, IInv, TypeOK, Dates
  <2>2. \A m \in Movements : approved[m] \in Nat /\ approved[m] <= now
    BY <1>1 DEF IInv, TypeOK, DocumentsInOrder, Approvals, NotApproved, Dates
  <2>3. \A m \in Movements : approved[m] <= now'
    BY <2>1, <2>2
  <2> QED
    BY <1>2, <2>1, <2>3 DEF Tick, IInv, TypeOK, DocumentsInOrder, IsSnapshot, RowsInOrder
<1>3. CASE Store
  <2>1. approved \in Approvals /\ IsSnapshot(approved)
    BY DEF IInv, TypeOK, IsSnapshot
  <2>2. \A m \in Movements : seen[m] # NotApproved => approved[m] = seen[m]
    BY DEF IInv, DocumentsInOrder, IsSnapshot
  <2>3. DocumentsInOrder'
    BY <1>3, <2>1, <2>2 DEF Store, IInv, DocumentsInOrder, IsSnapshot
  <2> QED
    BY <1>3, <2>1, <2>3 DEF Store, IInv, TypeOK, RowsInOrder
<1>4. ASSUME NEW m \in Movements, Approve(m)
      PROVE  IInv'
  <2>1. approved' \in Approvals
    BY <1>4 DEF Approve, IInv, TypeOK, Approvals
  <2> QED
    BY <1>4, <2>1, ApproveKeepsDocuments DEF Approve, IInv, TypeOK, RowsInOrder
<1>5. ASSUME NEW q \in Queries, GetSettlementStatement(q)
      PROVE  IInv'
  <2>1. InPeriod(stored, q) \in SUBSET Movements /\ rows' \in InOrder(InPeriod(stored, q))
    BY <1>5 DEF InPeriod, GetSettlementStatement
  <2>2. rows' \in Seq(Movements)
    BY <2>1, OrderOfSet
  <2>3. TypeOK'
    BY <1>5, <2>2 DEF GetSettlementStatement, IInv, TypeOK
  <2>4. DocumentsInOrder'
    BY <1>5 DEF GetSettlementStatement, IInv, DocumentsInOrder, IsSnapshot
  <2>5. RowsInOrder'
    BY <1>5, <2>1 DEF GetSettlementStatement, RowsInOrder
  <2> QED
    BY <2>3, <2>4, <2>5 DEF IInv
<1>6. CASE GetFundsMovements
  <2>1. /\ InPeriod(seen, query) \in SUBSET Movements /\ rows \in InOrder(InPeriod(seen, query))
        /\ FundsBefore(stored, query) \in SUBSET Movements
    BY <1>6 DEF InPeriod, FundsBefore, GetFundsMovements, IInv, RowsInOrder
  <2>2. balance' \in Seq(Int) /\ Len(balance') = Len(rows)
    BY <1>6, <2>1, BalancesOfRows DEF GetFundsMovements
  <2>3. TypeOK'
    BY <1>6, <2>2 DEF GetFundsMovements, IInv, TypeOK
  <2> QED
    BY <1>6, <2>1, <2>3 DEF GetFundsMovements, IInv, DocumentsInOrder, IsSnapshot, RowsInOrder
<1>7. CASE UNCHANGED vars
  BY <1>7 DEF vars, IInv, TypeOK, DocumentsInOrder, IsSnapshot, RowsInOrder
<1> QED
  BY <1>2, <1>3, <1>4, <1>5, <1>6, <1>7 DEF Next

(* The statement is made of rows of one state of the participant's document,
   and of an opening balance of a state that is not older (the two queries of
   getDFSPSettlementStatement). *)
THEOREM IInvHolds == Spec => []IInv
BY InitIInv, StepKeepsIInv, PTL DEF Spec

-----------------------------------------------------------------------------
(* The closing balances. *)

(* All that the last row of a currency has passed is the statement's rows of
   the currency. *)
LEMMA PassedByLast ==
  ASSUME NEW S \in SUBSET Movements, rows \in InOrder(S), NEW i \in DOMAIN rows,
         IsLastOfCurrency(i)
  PROVE  Passed(rows, i) = {m \in S : CurrencyOf[m] = CurrencyOf[rows[i]]}
<1>1. /\ \A j \in DOMAIN rows : rows[j] \in S
      /\ \A m \in S : \E j \in DOMAIN rows : rows[j] = m
  BY OrderOfSet
<1>2. \A j \in DOMAIN rows : CurrencyOf[rows[j]] = CurrencyOf[rows[i]] => j <= i
  BY DEF IsLastOfCurrency
<1>3. \A m : m \in Passed(rows, i) <=> m \in S /\ CurrencyOf[m] = CurrencyOf[rows[i]]
  BY <1>1, <1>2 DEF Passed
<1> QED
  BY <1>3

(* What opens the statement of a currency and its rows are what it had at
   endDate, apart from what was approved at startDate, which is in both. *)
LEMMA OpeningAndRows ==
  ASSUME TypeOK, DocumentsInOrder, NEW r \in InPeriod(seen, query),
         \A m \in Movements : CurrencyOf[m] = CurrencyOf[r] /\ approved[m] = query.startDate
                             => seen[m] # NotApproved,
         NEW m \in Movements, CurrencyOf[m] = CurrencyOf[r]
  PROVE  /\ m \in FundsBefore(stored, query) \/ m \in InPeriod(seen, query)
              <=> seen[m] # NotApproved /\ seen[m] <= query.endDate
         /\ m \in FundsBefore(stored, query) /\ m \in InPeriod(seen, query)
              <=> approved[m] = query.startDate
<1> DEFINE start == query.startDate
           end == query.endDate
<1>1. start \in Nat \ {0} /\ end \in Nat
  BY MovementAssumption DEF TypeOK, Queries, Dates
<1>2. /\ seen[m] \in Nat /\ stored[m] \in Nat /\ approved[m] \in Nat
      /\ seen[m] # 0 => seen[m] = approved[m] /\ stored[m] = seen[m]
      /\ stored[m] # 0 => stored[m] = approved[m]
      /\ approved[m] = start => seen[m] # 0
  BY MovementAssumption DEF TypeOK, Approvals, Dates, DocumentsInOrder, IsSnapshot, NotApproved
<1>3. /\ r \in Movements /\ seen[r] # 0 /\ start <= seen[r] /\ seen[r] <= end
      /\ CurrencyOf[m] \in query.currencies /\ seen[r] \in Nat
  BY MovementAssumption DEF InPeriod, InCurrency, NotApproved, TypeOK, Approvals, Dates
<1>4. approved[m] # 0 /\ approved[m] < start => seen[m] = approved[m]
  <2>1. approved[m] # 0 /\ approved[m] < seen[r] => seen[m] = approved[m]
    BY <1>3 DEF DocumentsInOrder, IsSnapshot, NotApproved
  <2> QED
    BY <1>1, <1>2, <1>3, <2>1
<1>5. /\ m \in FundsBefore(stored, query) <=> stored[m] # 0 /\ stored[m] <= start
      /\ m \in InPeriod(seen, query) <=> seen[m] # 0 /\ start <= seen[m] /\ seen[m] <= end
  BY <1>3 DEF FundsBefore, InPeriod, InCurrency, NotApproved
<1> HIDE DEF start, end
<1>6. m \in FundsBefore(stored, query) \/ m \in InPeriod(seen, query)
        <=> seen[m] # 0 /\ seen[m] <= end
  BY <1>1, <1>2, <1>3, <1>4, <1>5
<1>7. m \in FundsBefore(stored, query) /\ m \in InPeriod(seen, query) <=> approved[m] = start
  BY <1>1, <1>2, <1>3, <1>5
<1> QED
  BY <1>6, <1>7 DEF NotApproved, start, end

(* A closing balance when it is calculated. *)
LEMMA ClosingBalance ==
  ASSUME IInv, stage = "funds", NEW i \in DOMAIN rows, IsLastOfCurrency(i),
         NEW c, c = CurrencyOf[rows[i]],
         NEW atStart, atStart = {m \in Movements : CurrencyOf[m] = c
                                                  /\ approved[m] = query.startDate},
         \A m \in atStart : seen[m] # NotApproved
  PROVE  StatementBalances(rows, FundsBefore(stored, query))[i]
           = -(NetAt(c, query.endDate) + SumFunctionOnSet(Signed, atStart))
<1> DEFINE before == FundsBefore(stored, query)
           S == InPeriod(seen, query)
           funds == {m \in before : CurrencyOf[m] = c}
           period == {m \in S : CurrencyOf[m] = c}
           all == {m \in Movements : /\ CurrencyOf[m] = c /\ seen[m] # NotApproved
                                     /\ seen[m] <= query.endDate}
           others == period \ atStart
<1>1. /\ rows \in InOrder(S) /\ S \in SUBSET Movements /\ before \in SUBSET Movements
      /\ rows[i] \in S
  <2>1. rows \in InOrder(S) /\ S \in SUBSET Movements /\ before \in SUBSET Movements
    BY DEF IInv, RowsInOrder, InPeriod, FundsBefore
  <2> QED
    BY <2>1, OrderOfSet
<1>2. /\ funds \in SUBSET Movements /\ period \in SUBSET Movements /\ all \in SUBSET Movements
      /\ atStart \in SUBSET Movements
  BY <1>1
<1>3. /\ \A m : m \in funds \/ m \in period <=> m \in all
      /\ \A m : m \in funds /\ m \in period <=> m \in atStart
  <2>1. \A m \in Movements : CurrencyOf[m] = CurrencyOf[rows[i]] /\ approved[m] = query.startDate
                            => seen[m] # NotApproved
    OBVIOUS
  <2>2. TypeOK /\ DocumentsInOrder /\ rows[i] \in InPeriod(seen, query)
    BY <1>1 DEF IInv
  <2>3. ASSUME NEW m \in Movements, CurrencyOf[m] = CurrencyOf[rows[i]]
        PROVE  /\ m \in before \/ m \in S <=> seen[m] # NotApproved /\ seen[m] <= query.endDate
               /\ m \in before /\ m \in S <=> approved[m] = query.startDate
    BY <2>1, <2>2, <2>3, OpeningAndRows
  <2> HIDE DEF before, S
  <2> QED
    BY <1>1, <2>3
<1>4. StatementBalances(rows, before)[i]
        = -(SumFunctionOnSet(OpeningPart, funds) + SumFunctionOnSet(Signed, period))
  <2>1. StatementBalances(rows, before)[i] = -BalanceAt(rows, before, i)
    BY <1>1, BalancesOfRows
  <2>2. Passed(rows, i) = period
    BY <1>1, PassedByLast
  <2>3. OpeningAmount(c, before) = SumFunctionOnSet(OpeningPart, funds)
    BY DEF OpeningAmount
  <2> HIDE DEF before, S, funds, period, all
  <2> QED
    BY <2>1, <2>2, <2>3 DEF BalanceAt
<1>5. NetAt(c, query.endDate) = SumFunctionOnSet(Signed, all)
  BY DEF NetAt
<1> HIDE DEF before, S, funds, period, all
<1>6. /\ IsFiniteSet(funds) /\ IsFiniteSet(atStart) /\ IsFiniteSet(others)
      /\ \A m \in Movements : Signed[m] \in Int /\ OpeningPart[m] = Signed[m]
  BY <1>2, AmountsAreInts DEF others
<1>7. /\ all = funds \union others /\ funds \intersect others = {}
      /\ period = atStart \union others /\ atStart \intersect others = {}
      /\ others \in SUBSET Movements
  BY <1>2, <1>3
<1> HIDE DEF others
<1>8. SumFunctionOnSet(OpeningPart, funds) = SumFunctionOnSet(Signed, funds)
  BY <1>2, <1>6, SumOfSame
<1>9. SumFunctionOnSet(Signed, all) = SumFunctionOnSet(Signed, funds) + SumFunctionOnSet(Signed, others)
  <2>1. \A m \in funds \union others : Signed[m] \in Int
    BY <1>2, <1>6, <1>7
  <2> QED
    BY <1>6, <1>7, <2>1, SumOfUnion
<1>10. SumFunctionOnSet(Signed, period)
         = SumFunctionOnSet(Signed, atStart) + SumFunctionOnSet(Signed, others)
  <2>1. \A m \in atStart \union others : Signed[m] \in Int
    BY <1>2, <1>6, <1>7
  <2> QED
    BY <1>6, <1>7, <2>1, SumOfUnion
<1>11. /\ SumFunctionOnSet(Signed, funds) \in Int /\ SumFunctionOnSet(Signed, others) \in Int
       /\ SumFunctionOnSet(Signed, atStart) \in Int
  BY <1>2, <1>6, <1>7, SumIsInt
<1>12. \A x, y, z \in Int : -(x + (z + y)) = -((x + y) + z)
  OBVIOUS
<1> QED
  BY <1>4, <1>5, <1>8, <1>9, <1>10, <1>11, <1>12 DEF before

(* No later approval makes a closing balance wrong: it is later than what the
   statement has, or it ends the case that the property is about. *)
LEMMA StepKeepsClosing ==
  ASSUME IInv, StartDateCountsTwice, [Next]_vars
  PROVE  StartDateCountsTwice'
<1> SUFFICES ASSUME stage' = "shown", NEW i \in DOMAIN rows', IsLastOfCurrency(i)',
                    NEW c, c = CurrencyOf[rows'[i]],
                    NEW atStart, atStart = {m \in Movements : CurrencyOf[m] = c
                                                             /\ approved'[m] = query'.startDate},
                    \A m \in atStart : seen'[m] # NotApproved
             PROVE  balance'[i] = -(NetAt(c, query.endDate)' + SumFunctionOnSet(Signed, atStart))
  BY DEF StartDateCountsTwice
<1>1. CASE GetFundsMovements
  <2>1. /\ stage = "funds" /\ UNCHANGED <<approved, stored, query, rows, seen>>
        /\ balance' = StatementBalances(rows, FundsBefore(stored, query))
    BY <1>1 DEF GetFundsMovements
  <2>2. /\ i \in DOMAIN rows /\ IsLastOfCurrency(i) /\ c = CurrencyOf[rows[i]]
        /\ atStart = {m \in Movements : CurrencyOf[m] = c /\ approved[m] = query.startDate}
        /\ \A m \in atStart : seen[m] # NotApproved
        /\ NetAt(c, query.endDate)' = NetAt(c, query.endDate)
    BY <2>1 DEF IsLastOfCurrency, NetAt
  <2> QED
    BY <2>1, <2>2, ClosingBalance
<1>2. ASSUME stage = "shown", UNCHANGED <<query, rows, balance, seen>>,
             atStart = {m \in Movements : CurrencyOf[m] = c /\ approved[m] = query.startDate}
      PROVE  balance'[i] = -(NetAt(c, query.endDate)' + SumFunctionOnSet(Signed, atStart))
  <2>1. /\ i \in DOMAIN rows /\ IsLastOfCurrency(i) /\ c = CurrencyOf[rows[i]]
        /\ \A m \in atStart : seen[m] # NotApproved
        /\ NetAt(c, query.endDate)' = NetAt(c, query.endDate)
    BY <1>2 DEF IsLastOfCurrency, NetAt
  <2>2. balance[i] = -(NetAt(c, query.endDate) + SumFunctionOnSet(Signed, atStart))
    BY <1>2, <2>1 DEF StartDateCountsTwice
  <2> QED
    BY <1>2, <2>1, <2>2
<1>3. CASE Tick \/ Store \/ UNCHANGED vars
  <2>1. stage = "shown" /\ UNCHANGED <<approved, query, rows, balance, seen>>
    BY <1>3 DEF Tick, Store, vars
  <2> QED
    BY <1>2, <2>1
<1>4. ASSUME NEW n \in Movements, Approve(n)
      PROVE  balance'[i] = -(NetAt(c, query.endDate)' + SumFunctionOnSet(Signed, atStart))
  <2>1. /\ stage = "shown" /\ UNCHANGED <<query, rows, balance, seen>> /\ approved[n] = NotApproved
        /\ \A m \in Movements : m # n => approved'[m] = approved[m]
        /\ query.startDate # NotApproved
    BY <1>4, MovementAssumption
       DEF Approve, IInv, TypeOK, Approvals, Queries, Dates, NotApproved
  <2>2. seen[n] = NotApproved
    BY <2>1 DEF IInv, DocumentsInOrder, IsSnapshot
  <2>3. n \notin atStart
    BY <2>1, <2>2
  <2>4. \A m : m \in atStart <=> /\ m \in Movements /\ CurrencyOf[m] = c
                                /\ approved[m] = query.startDate
    BY <2>1, <2>3
  <2>5. atStart = {m \in Movements : CurrencyOf[m] = c /\ approved[m] = query.startDate}
    BY <2>4
  <2> QED
    BY <1>2, <2>1, <2>5
<1>5. ASSUME NEW q \in Queries, GetSettlementStatement(q)
      PROVE  FALSE
  BY <1>5 DEF GetSettlementStatement
<1> QED
  BY <1>1, <1>3, <1>4, <1>5 DEF Next

(* What was approved at startDate is in the opening balance and in the rows
   (getFundsMovements and getDFSPSettlementStatement both include that
   moment), and nothing else is counted twice or left out. *)
THEOREM StartDateHolds == Spec => []StartDateCountsTwice
<1>1. Init => StartDateCountsTwice
  BY DEF Init, StartDateCountsTwice
<1>2. IInv /\ StartDateCountsTwice /\ [Next]_vars => StartDateCountsTwice'
  BY StepKeepsClosing
<1> QED
  BY <1>1, <1>2, IInvHolds, PTL DEF Spec

(* So the closing balance of a currency is what the participant had of it at
   endDate when nothing was approved at startDate. *)
THEOREM ClosingBalanceHolds == Spec => []ClosingBalanceIsNet
<1>1. IInv /\ StartDateCountsTwice => ClosingBalanceIsNet
  <2> SUFFICES ASSUME IInv, StartDateCountsTwice, stage = "shown", NEW i \in DOMAIN rows,
                      IsLastOfCurrency(i), NEW c, c = CurrencyOf[rows[i]],
                      \A m \in Movements : CurrencyOf[m] = c => approved[m] # query.startDate
               PROVE  balance[i] = -NetAt(c, query.endDate)
    BY DEF ClosingBalanceIsNet
  <2> DEFINE atStart == {m \in Movements : CurrencyOf[m] = c /\ approved[m] = query.startDate}
             all == {m \in Movements : /\ CurrencyOf[m] = c /\ seen[m] # NotApproved
                                       /\ seen[m] <= query.endDate}
  <2>1. atStart = {}
    OBVIOUS
  <2>2. balance[i] = -(NetAt(c, query.endDate) + SumFunctionOnSet(Signed, atStart))
    BY <2>1 DEF StartDateCountsTwice
  <2>3. NetAt(c, query.endDate) \in Int
    <3>1. IsFiniteSet(all) /\ \A m \in all : Signed[m] \in Int
      BY AmountsAreInts
    <3>2. SumFunctionOnSet(Signed, all) \in Int
      BY <3>1, SumIsInt
    <3> QED
      BY <3>2 DEF NetAt
  <2> HIDE DEF atStart
  <2> QED
    BY <2>1, <2>2, <2>3, SumOfNone
<1> QED
  BY <1>1, IInvHolds, StartDateHolds, PTL
=============================================================================
