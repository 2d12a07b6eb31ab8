------------------------------ MODULE MCWTJoin ------------------------------
(* WTJoin on all short inputs, and a closed definition of what it returns. *)
EXTENDS WTJoin, SequencesExt

CONSTANTS MaxWts,       \* bound: WTs of a cycle
          MaxDeposits,  \* bound: deposits in the index
          MaxOutputs    \* bound: outputs of a deposit

UpTo(S, k) == UNION {[1..j -> S] : j \in 0..k}

MCInit == \E wts \in UpTo(Withdrawal, MaxWts) \ {<<>>},
             deposits \in UpTo(UpTo(Amount \cup {Other}, MaxOutputs) \ {<<>>}, MaxDeposits) :
                 Start(wts, deposits)

MCSpec == MCInit /\ [][Next]_vars

\* What the WTs are paid, and what the deposits 1..k hold for the sidechain.
Due == FoldSeq(LAMBDA w, sum : sum + w.value - 2 * w.fee, 0, toJoin)
Held(k) == FoldSeq(LAMBDA d, sum : sum +
                FoldSeq(LAMBDA v, s : s + (IF v = Other THEN 0 ELSE v), 0, d),
                0, SubSeq(vDeposit, 1, k))

\* GetWTJoinTX returns a WT^ exactly when the deposits hold what is due, and
\* it spends the shortest run of deposits that does, each of them entirely.
SpendsShortestRun ==
    /\ pc = "joined" => \E k \in 0..Len(vDeposit) : /\ mtx.in = Held(k)
                                                      /\ Held(k) >= Due
                                                      /\ \A j \in 0..(k - 1) : Held(j) < Due
    /\ pc = "empty" => \A j \in 0..Len(vDeposit) : Held(j) < Due
=============================================================================
