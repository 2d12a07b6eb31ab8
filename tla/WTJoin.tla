------------------------------- MODULE WTJoin -------------------------------
(***************************************************************************)
(* The amounts of GetWTJoinTX: given the WTs of a cycle and the deposits   *)
(* of the index, the loops that add up what is paid, charge the fees and   *)
(* take deposit outputs until the WTs are paid.  Module Drivechain has     *)
(* which WTs and deposits these are.                                       *)
(*                                                                         *)
(* The transaction under construction is kept as totals: nothing else in   *)
(* it depends on the amounts.                                              *)
(***************************************************************************)
EXTENDS Integers, Sequences

CONSTANTS Amount,   \* values of transaction outputs
          Fee,      \* values of GetMinimumFee
          Other     \* an output that does not pay SIDECHAIN_DEPOSITSCRIPT

ASSUME AmountAssumption == Amount \subseteq Nat /\ Fee \subseteq Nat /\ Other \notin Nat

\* A WT: its value out to the drivechain and its minimum fee.
Withdrawal == [value : Amount, fee : Fee]

\* A deposit transaction: its outputs.
Outputs == Seq(Amount \cup {Other})

VARIABLES
    toJoin,      \* the WTs to pay
    vDeposit,    \* the deposits of the index
    pc,          \* the loop: "wts", "deposits", "outputs"; or "joined", "empty"
    x, y,        \* loop counters
    joinAmount,  \* what is left to pay
    joinFee,     \* total fees
    mtx          \* the WT^: value in, value out, change outputs, a negative output

vars == <<toJoin, vDeposit, pc, x, y, joinAmount, joinFee, mtx>>
inputs == <<toJoin, vDeposit>>

\* One more output of value v.
AddOutput(tx, v) == [tx EXCEPT !.out = @ + v, !.negative = @ \/ v < 0]

\* The state in which the loops start, for given WTs and deposits.
Start(wts, deposits) ==
    /\ toJoin = wts
    /\ vDeposit = deposits
    /\ pc = "wts"
    /\ x = 1
    /\ y = 1
    /\ joinAmount = 0
    /\ joinFee = 0
    /\ mtx = [in |-> 0, out |-> 0, changes |-> 0, negative |-> FALSE]

Init == \E wts \in Seq(Withdrawal) \ {<<>>}, deposits \in Seq(Outputs) : Start(wts, deposits)

\* The fee of a WT, which gets split in two.
WTFee(wt) == 2 * wt.fee

\* A WT is paid its value less its fee.
AddWithdraw ==
    /\ pc = "wts"
    /\ x <= Len(toJoin)
    /\ LET nFee == WTFee(toJoin[x])
           amount == toJoin[x].value - nFee
       IN /\ joinAmount' = joinAmount + amount
          /\ joinFee' = joinFee + nFee
          /\ mtx' = AddOutput(mtx, amount)
    /\ x' = x + 1
    /\ UNCHANGED <<inputs, pc, y>>

\* Variant of JoinFeeOutput: the sidechain takes all the fees.
WholeFeeOutput(tx, fee) == IF fee > 0 THEN AddOutput(tx, fee) ELSE tx

\* The output for the sidechain's half of the fees.
JoinFeeOutput(tx, fee) == IF fee > 0 THEN AddOutput(tx, fee \div 2) ELSE tx

\* The sidechain's half of the fees is an output, the rest is left to the
\* mainchain miners.
AddJoinFee ==
    /\ pc = "wts"
    /\ x > Len(toJoin)
    /\ mtx' = JoinFeeOutput(mtx, joinFee)
    /\ pc' = "deposits"
    /\ x' = 1
    /\ UNCHANGED <<inputs, y, joinAmount, joinFee>>

\* The next deposit, as long as something is left to pay.
NextDeposit ==
    /\ pc = "deposits"
    /\ joinAmount > 0 /\ x <= Len(vDeposit)
    /\ pc' = "outputs"
    /\ y' = 1
    /\ UNCHANGED <<inputs, x, joinAmount, joinFee, mtx>>

\* A deposit output of value v becomes an input.  What it has too much goes to
\* a change output, less all the fees.
Spend(v) ==
    IF joinAmount - v < 0
    THEN LET change == v - joinAmount IN
         /\ mtx' = [AddOutput(mtx, change - joinFee) EXCEPT !.in = @ + v, !.changes = @ + 1]
         /\ joinAmount' = (joinAmount - v) + change
    ELSE /\ mtx' = [mtx EXCEPT !.in = @ + v]
         /\ joinAmount' = joinAmount - v

\* Each output of the deposit; joinAmount is not looked at between them.
NextOutput ==
    /\ pc = "outputs"
    /\ y <= Len(vDeposit[x])
    /\ IF vDeposit[x][y] = Other THEN UNCHANGED <<mtx, joinAmount>> ELSE Spend(vDeposit[x][y])
    /\ y' = y + 1
    /\ UNCHANGED <<inputs, pc, x, joinFee>>

EndDeposit ==
    /\ pc = "outputs"
    /\ y > Len(vDeposit[x])
    /\ pc' = "deposits"
    /\ x' = x + 1
    /\ UNCHANGED <<inputs, y, joinAmount, joinFee, mtx>>

\* Variant of Enough: a WT^ one unit short passes.
AlmostEnough == joinAmount <= 1

\* The deposits cover the WTs; otherwise the empty transaction is returned.
Enough == ~(joinAmount > 0)

Finish ==
    /\ pc = "deposits"
    /\ ~(joinAmount > 0 /\ x <= Len(vDeposit))
    /\ pc' = IF Enough THEN "joined" ELSE "empty"
    /\ UNCHANGED <<inputs, x, y, joinAmount, joinFee, mtx>>

Next == AddWithdraw \/ AddJoinFee \/ NextDeposit \/ NextOutput \/ EndDeposit \/ Finish

Spec == Init /\ [][Next]_vars

-----------------------------------------------------------------------------
Mtx == [in : Int, out : Int, changes : Nat, negative : BOOLEAN]

\* Types and loop bounds.
TypeOK == /\ toJoin \in Seq(Withdrawal)
          /\ vDeposit \in Seq(Outputs)
          /\ pc \in {"wts", "deposits", "outputs", "joined", "empty"}
          /\ x \in Nat \ {0}
          /\ y \in Nat \ {0}
          /\ joinAmount \in Int
          /\ joinFee \in Nat
          /\ joinFee % 2 = 0
          /\ mtx \in Mtx
          /\ pc = "outputs" => x <= Len(vDeposit)

\* With one change output, the WT^ pays the mainchain miners exactly the half
\* of the fees that the comment in GetWTJoinTX leaves them ("Add joined fee (the
\* sidechain half) leave the rest for mainchain miners", src/src/miner.cpp:662).
FeeSplit ==
    (pc = "joined" /\ mtx.changes = 1) => mtx.in - mtx.out = joinFee \div 2

\* A WT^ that is returned can be a mainchain transaction: no negative output,
\* and the inputs cover the outputs.
ValidWT == pc = "joined" => (~mtx.negative /\ mtx.in >= mtx.out)
=============================================================================
