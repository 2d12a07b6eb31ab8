---------------------------- MODULE WTJoinProofs ----------------------------
(***************************************************************************)
(* Proofs about the amounts of GetWTJoinTX, for any WTs and deposits.      *)
(***************************************************************************)
EXTENDS WTJoin, SequenceTheorems, TLAPS

\* What GetWTJoinTX spends it accounts for at every step: the inputs, plus what
\* is left to pay, are the outputs less the sidechain's half of the fees, plus
\* the fees every change output was charged.  The mainchain fee of a finished
\* WT^ follows from it.
Conserved ==
    pc \in {"deposits", "outputs", "joined", "empty"} =>
        mtx.in + joinAmount = mtx.out - joinFee \div 2 + mtx.changes * joinFee

\* Once there is change, nothing is left to pay.
ChangeIsLast == mtx.changes > 0 => (joinAmount = 0 /\ pc # "wts")

\* While the WTs are added up, what is left to pay is what the outputs total.
AddingUp == pc = "wts" => /\ mtx.in = 0
                          /\ mtx.changes = 0
                          /\ mtx.out = joinAmount

Inv == TypeOK /\ Conserved /\ ChangeIsLast /\ AddingUp

\* Every WT adds an even number to joinFee, so halving it is exact.
LEMMA Even == ASSUME NEW a \in Nat, NEW b \in Nat, a % 2 = 0 PROVE (a + 2 * b) % 2 = 0
OBVIOUS

\* The products with joinFee that one more change output makes.
LEMMA Products ==
    ASSUME NEW m \in Nat, NEW f \in Nat
    PROVE  /\ m * f \in Int
           /\ (m + 1) * f = m * f + f
           /\ 0 * f = 0
           /\ 1 * f = f
OBVIOUS

\* The numbers the loops work on have their types.
LEMMA Scalars ==
    ASSUME TypeOK
    PROVE  /\ mtx \in Mtx /\ mtx.in \in Int /\ mtx.out \in Int /\ mtx.changes \in Nat
           /\ joinAmount \in Int /\ joinFee \in Nat /\ joinFee % 2 = 0
           /\ joinFee \div 2 \in Int
<1>1. mtx \in Mtx /\ joinAmount \in Int /\ joinFee \in Nat /\ joinFee % 2 = 0
  BY DEF TypeOK
<1>2. mtx.in \in Int /\ mtx.out \in Int /\ mtx.changes \in Nat BY <1>1 DEF Mtx
<1>3. QED BY <1>1, <1>2

\* An input of value v with a change output.
LEMMA AddInputType ==
    ASSUME NEW tx \in Mtx, NEW v \in Nat, NEW r,
           r = [tx EXCEPT !.in = @ + v, !.changes = @ + 1]
    PROVE  r \in Mtx /\ r.in = tx.in + v /\ r.changes = tx.changes + 1 /\ r.out = tx.out
<1> DEFINE in == tx.in + v
           ch == tx.changes + 1
<1>1. in \in Int /\ ch \in Nat BY DEF Mtx
<1>2. r = [tx EXCEPT !.in = in, !.changes = ch]
  OBVIOUS
<1>3. in = tx.in + v /\ ch = tx.changes + 1 OBVIOUS
<1> HIDE DEF in, ch
<1>4. QED BY <1>1, <1>2, <1>3 DEF Mtx

\* One more output changes the total and nothing else.
LEMMA AddOutputType ==
    ASSUME NEW tx \in Mtx, NEW v \in Int
    PROVE  /\ AddOutput(tx, v) \in Mtx
           /\ AddOutput(tx, v).in = tx.in
           /\ AddOutput(tx, v).changes = tx.changes
           /\ AddOutput(tx, v).out = tx.out + v
<1> DEFINE neg == tx.negative \/ v < 0
           out == tx.out + v
<1>1. neg \in BOOLEAN /\ out \in Int /\ out = tx.out + v
  BY DEF Mtx
<1>2. AddOutput(tx, v) = [tx EXCEPT !.out = out, !.negative = neg]
  BY DEF AddOutput
<1> HIDE DEF neg, out
<1>3. QED BY <1>1, <1>2 DEF Mtx

\* The invariant holds when the loops start.
LEMMA InitInv == Init => Inv
<1> SUFFICES ASSUME NEW wts \in Seq(Withdrawal) \ {<<>>}, NEW deposits \in Seq(Outputs),
                    Start(wts, deposits)
             PROVE  Inv
  BY DEF Init
<1>1. TypeOK BY DEF Start, TypeOK, Mtx
<1>2. QED BY <1>1 DEF Start, Inv, Conserved, ChangeIsLast, AddingUp

\* Every step of the loops keeps the books balanced.
LEMMA StepInv == Inv /\ [Next]_vars => Inv'
<1> SUFFICES ASSUME Inv, [Next]_vars PROVE Inv'
  OBVIOUS
<1> USE DEF Inv
<1>1. CASE AddWithdraw
  <2> DEFINE w == toJoin[x]
  <2>1. w \in Withdrawal
    BY <1>1, ElementOfSeq DEF AddWithdraw, TypeOK
  <2>2. w.value \in Nat /\ w.fee \in Nat
    BY <2>1, AmountAssumption DEF Withdrawal
  <2> HIDE DEF w
  <2>3. /\ joinAmount' = joinAmount + (w.value - 2 * w.fee)
        /\ joinFee' = joinFee + 2 * w.fee
        /\ mtx' = AddOutput(mtx, w.value - 2 * w.fee)
        /\ x' = x + 1 /\ pc = "wts" /\ pc' = "wts" /\ UNCHANGED <<inputs, y>>
    BY <1>1 DEF AddWithdraw, WTFee, w
  <2>4. /\ mtx' \in Mtx /\ mtx'.in = mtx.in /\ mtx'.changes = mtx.changes
        /\ mtx'.out = mtx.out + (w.value - 2 * w.fee)
    <3>1. w.value - 2 * w.fee \in Int BY <2>2
    <3>2. QED BY <2>3, <3>1, Scalars, AddOutputType
  <2>5. joinFee' \in Nat /\ joinFee' % 2 = 0
    <3>1. joinFee + 2 * w.fee \in Nat BY <2>2, Scalars
    <3>2. (joinFee + 2 * w.fee) % 2 = 0 BY <2>2, Scalars, Even
    <3>3. QED BY <2>3, <3>1, <3>2
  <2>6. TypeOK' BY <2>2, <2>3, <2>4, <2>5 DEF TypeOK, inputs
  <2>7. QED BY <2>2, <2>3, <2>4, <2>6 DEF Conserved, ChangeIsLast, AddingUp, TypeOK, Mtx
<1>2. CASE AddJoinFee
  <2>1. /\ mtx' = JoinFeeOutput(mtx, joinFee) /\ pc = "wts" /\ pc' = "deposits" /\ x' = 1
        /\ UNCHANGED <<inputs, y, joinAmount, joinFee>>
    BY <1>2 DEF AddJoinFee
  <2>2. /\ mtx' \in Mtx /\ mtx'.in = mtx.in /\ mtx'.changes = mtx.changes
        /\ mtx'.out = mtx.out + joinFee \div 2
    <3>1. joinFee \div 2 \in Int /\ (~(joinFee > 0) => joinFee \div 2 = 0)
      BY DEF TypeOK
    <3>2. mtx \in Mtx BY DEF TypeOK
    <3>3. CASE joinFee > 0
      BY <2>1, <3>1, <3>2, <3>3, AddOutputType DEF JoinFeeOutput
    <3>4. CASE ~(joinFee > 0)
      BY <2>1, <3>1, <3>2, <3>4 DEF JoinFeeOutput, Mtx
    <3>5. QED BY <3>3, <3>4
  <2>3. TypeOK' BY <2>1, <2>2 DEF TypeOK, inputs
  <2>4. Conserved'
    <3>1. mtx.in = 0 /\ mtx.changes = 0 /\ mtx.out = joinAmount BY <2>1 DEF AddingUp
    <3>2. 0 * joinFee = 0 BY Scalars, Products
    <3>3. 0 + joinAmount = (joinAmount + joinFee \div 2) - joinFee \div 2 + 0 BY Scalars
    <3>4. QED BY <2>1, <2>2, <3>1, <3>2, <3>3 DEF Conserved
  <2>5. QED BY <2>1, <2>2, <2>3, <2>4 DEF ChangeIsLast, AddingUp, TypeOK, Mtx
<1>3. CASE NextDeposit
  BY <1>3 DEF NextDeposit, inputs, TypeOK, Conserved, ChangeIsLast, AddingUp
<1>4. CASE NextOutput
  <2> DEFINE v == vDeposit[x][y]
  <2>1. v \in Amount \cup {Other}
    <3>1. vDeposit[x] \in Outputs
      BY <1>4, ElementOfSeq DEF NextOutput, TypeOK
    <3>2. QED BY <1>4, <3>1, ElementOfSeq DEF NextOutput, TypeOK, Outputs
  <2>2. /\ IF v = Other THEN UNCHANGED <<mtx, joinAmount>> ELSE Spend(v)
        /\ y' = y + 1 /\ pc = "outputs" /\ UNCHANGED <<inputs, pc, x, joinFee>>
    BY <1>4 DEF NextOutput
  <2> HIDE DEF v
  <2>3. CASE v = Other
    BY <2>2, <2>3 DEF inputs, TypeOK, Conserved, ChangeIsLast, AddingUp
  <2>4. CASE v # Other /\ joinAmount - v < 0
    <3>1. v \in Nat BY <2>1, <2>4, AmountAssumption
    <3>2. /\ joinAmount' = 0
          /\ mtx' = [AddOutput(mtx, (v - joinAmount) - joinFee) EXCEPT !.in = @ + v, !.changes = @ + 1]
      BY <2>2, <2>4, <3>1 DEF Spend, TypeOK
    <3>3. /\ mtx' \in Mtx /\ mtx'.in = mtx.in + v /\ mtx'.changes = mtx.changes + 1
          /\ mtx'.out = mtx.out + ((v - joinAmount) - joinFee)
      <4> DEFINE tx == AddOutput(mtx, (v - joinAmount) - joinFee)
      <4>1. mtx \in Mtx /\ (v - joinAmount) - joinFee \in Int BY <3>1 DEF TypeOK
      <4>2. /\ tx \in Mtx /\ tx.in = mtx.in /\ tx.changes = mtx.changes
            /\ tx.out = mtx.out + ((v - joinAmount) - joinFee)
        BY <4>1, AddOutputType
      <4>3. mtx' = [tx EXCEPT !.in = @ + v, !.changes = @ + 1] BY <3>2
      <4> HIDE DEF tx
      <4>4. /\ mtx' \in Mtx /\ mtx'.in = tx.in + v /\ mtx'.changes = tx.changes + 1
            /\ mtx'.out = tx.out
        BY <3>1, <4>2, <4>3, AddInputType
      <4>5. QED BY <4>2, <4>4
    <3>4. TypeOK' BY <2>2, <3>2, <3>3 DEF TypeOK, inputs
    <3>5. (mtx.changes + 1) * joinFee = mtx.changes * joinFee + joinFee
      BY Scalars, Products
    <3>6. mtx.changes * joinFee \in Int BY Scalars, Products
    <3>7. Conserved'
      <4>1. mtx.in + joinAmount = mtx.out - joinFee \div 2 + mtx.changes * joinFee
        BY <2>2 DEF Conserved
      <4>2. (mtx.in + v) + 0 = (mtx.out + ((v - joinAmount) - joinFee)) - joinFee \div 2
                                 + (mtx.changes * joinFee + joinFee)
        <5> DEFINE half == joinFee \div 2
                   p == mtx.changes * joinFee
        <5>1. /\ half \in Int /\ p \in Int /\ mtx.in \in Int /\ mtx.out \in Int
              /\ joinAmount \in Int /\ joinFee \in Int
          BY <3>6, Scalars
        <5>2. mtx.in + joinAmount = mtx.out - half + p BY <4>1
        <5> HIDE DEF half, p
        <5>3. (mtx.in + v) + 0 = (mtx.out + ((v - joinAmount) - joinFee)) - half + (p + joinFee)
          BY <3>1, <5>1, <5>2
        <5>4. QED BY <5>3 DEF half, p
      <4>3. QED BY <2>2, <3>2, <3>3, <3>5, <4>2 DEF Conserved
    <3>8. QED BY <2>2, <3>2, <3>4, <3>7 DEF ChangeIsLast, AddingUp
  <2>5. CASE v # Other /\ ~(joinAmount - v < 0)
    <3>1. v \in Nat BY <2>1, <2>5, AmountAssumption
    <3>2. joinAmount' = joinAmount - v /\ mtx' = [mtx EXCEPT !.in = @ + v]
      BY <2>2, <2>5 DEF Spend
    <3>3. /\ mtx' \in Mtx /\ mtx'.in = mtx.in + v /\ mtx'.changes = mtx.changes
          /\ mtx'.out = mtx.out
      <4> DEFINE in == mtx.in + v
      <4>1. in \in Int /\ in = mtx.in + v /\ mtx' = [mtx EXCEPT !.in = in]
        BY <3>1, <3>2, Scalars
      <4> HIDE DEF in
      <4>2. QED BY <4>1, Scalars DEF Mtx
    <3>4. TypeOK' BY <2>2, <3>1, <3>2, <3>3 DEF TypeOK, inputs
    <3>5. mtx.changes * joinFee \in Int BY Scalars, Products
    <3>6. Conserved'
      <4>1. mtx.in + joinAmount = mtx.out - joinFee \div 2 + mtx.changes * joinFee
        BY <2>2 DEF Conserved
      <4>2. (mtx.in + v) + (joinAmount - v) = mtx.in + joinAmount
        BY <3>1, Scalars
      <4>3. QED BY <2>2, <3>2, <3>3, <4>1, <4>2 DEF Conserved
    <3>7. QED BY <2>2, <2>5, <3>1, <3>2, <3>3, <3>4, <3>6 DEF ChangeIsLast, AddingUp, TypeOK
  <2>6. QED BY <2>3, <2>4, <2>5
<1>5. CASE EndDeposit
  BY <1>5 DEF EndDeposit, inputs, TypeOK, Conserved, ChangeIsLast, AddingUp
<1>6. CASE Finish
  BY <1>6 DEF Finish, inputs, TypeOK, Conserved, ChangeIsLast, AddingUp
<1>7. CASE UNCHANGED vars
  BY <1>7 DEF vars, TypeOK, Conserved, ChangeIsLast, AddingUp
<1>8. QED BY <1>1, <1>2, <1>3, <1>4, <1>5, <1>6, <1>7 DEF Next

\* For any WTs and deposits, a WT^ with one change output leaves the mainchain
\* miners exactly half of the fees; and at every step of the loops inputs,
\* outputs and fees balance, and the types and loop bounds hold.
THEOREM FeesBalance == Spec => [](TypeOK /\ FeeSplit /\ Conserved)
<1>1. Inv => TypeOK /\ FeeSplit /\ Conserved
  <2> SUFFICES ASSUME Inv, pc = "joined", mtx.changes = 1
               PROVE  mtx.in - mtx.out = joinFee \div 2
    BY DEF Inv, FeeSplit
  <2>1. joinAmount = 0 BY DEF Inv, ChangeIsLast
  <2>2. TypeOK BY DEF Inv
  <2>3. 1 * joinFee = joinFee BY <2>2, Scalars, Products
  <2>4. mtx.in + 0 = mtx.out - joinFee \div 2 + joinFee
    BY <2>1, <2>3 DEF Inv, Conserved
  <2>5. joinFee \div 2 + joinFee \div 2 = joinFee
    BY <2>2, Scalars
  <2>6. QED BY <2>2, <2>4, <2>5, Scalars
<1>2. QED BY <1>1, InitInv, StepInv, PTL DEF Spec
=============================================================================
