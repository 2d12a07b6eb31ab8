------------------------------ MODULE MCMempool ------------------------------
(* A small instance of Mempool for TLC.  t1 pays t2 and t3, t2 pays t3 and   *)
(* t3 pays t4; r replaces t1; d stands alone; c1 spends the coinbase k1 of   *)
(* height 1.                                                                 *)
EXTENDS Mempool

CONSTANTS t1, t2, t3, t4, r, d, c1, k1, k2, k3, g

Ins == [t \in Tx |-> CASE t \in {t1, r} -> {<<g, 0>>}
                       [] t = t2 -> {<<t1, 0>>}
                       [] t = t3 -> {<<t1, 1>>, <<t2, 0>>}
                       [] t = t4 -> {<<t3, 0>>}
                       [] t = d -> {<<g, 1>>}
                       [] t = c1 -> {<<k1, 0>>}
                       [] OTHER -> {}]
Outs == [t \in Tx |-> IF t = t1 THEN 2 ELSE 1]
Rates == [t \in Tx |-> CASE t = r -> 5 [] t = t2 -> 0 [] t = t3 -> 3 [] OTHER -> 1]
Locks == [t \in Tx |-> IF t = t2 THEN 1 ELSE 0]
Coins == {<<g, 0>>, <<g, 1>>}
Coinbases == <<k1, k2, k3>>
==============================================================================
