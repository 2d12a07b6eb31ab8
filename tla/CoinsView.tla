------------------------------ MODULE CoinsView ------------------------------
(***************************************************************************)
(* What a stack of CCoinsView objects promises (the interface CCoinsView,  *)
(* src/src/coins.h): three plain maps from transaction ids to the unspent  *)
(* outputs of the transaction, without any cache.                          *)
(*                                                                         *)
(*   durable    what a node restarted now would read from the database     *)
(*   committed  the UTXO set of the active tip (what pcoinsTip answers)    *)
(*   scratch    the view of the block being connected or disconnected; it  *)
(*              equals committed when no block is being processed          *)
(*                                                                         *)
(* Each UTXO set is tied to the block it is the state of: durableBest and  *)
(* committedBest.  CoinsCache implements this specification with two       *)
(* layers of cache and their DIRTY and FRESH flags.                        *)
(***************************************************************************)
CONSTANTS Txid,      \* transaction ids
          Outs,      \* output positions of a transaction
          Heights,   \* heights at which a transaction can be included
          Block,     \* block hashes
          Genesis    \* the best block of an empty database

VARIABLES durable, durableBest, committed, committedBest, scratch, mode

vars == <<durable, durableBest, committed, committedBest, scratch, mode>>

\* A fully spent transaction: all pruned CCoins are equal (operator==).
Spent == [outs |-> {}, height |-> 0]

\* The unspent outputs of a transaction and the height it was included at.
Unspent(outs, h) == IF outs = {} THEN Spent ELSE [outs |-> outs, height |-> h]

Init == /\ durable = [t \in Txid |-> Spent]
        /\ committed = durable
        /\ scratch = durable
        /\ durableBest = Genesis
        /\ committedBest = Genesis
        /\ mode = "idle"

\* A block starts to be connected to, or disconnected from, the tip.
Begin(m) == /\ mode = "idle"
            /\ mode' = m
            /\ UNCHANGED <<durable, durableBest, committed, committedBest, scratch>>

Change(m, t, c) == /\ mode = m
                   /\ scratch' = [scratch EXCEPT ![t] = c]
                   /\ UNCHANGED <<durable, durableBest, committed, committedBest, mode>>

\* A transaction of the block spends an unspent output.
Spend(t, o) == /\ o \in scratch[t].outs
               /\ Change("connect", t, Unspent(scratch[t].outs \ {o}, scratch[t].height))

\* The outputs of a transaction of the block become unspent.
Add(t, outs, h) == Change("connect", t, Unspent(outs, h))

\* A transaction of a disconnected block disappears.
Remove(t) == Change("disconnect", t, Spent)

\* An output spent by a disconnected block is unspent again.
Restore(t, o, h) ==
    Change("disconnect", t, [outs |-> scratch[t].outs \cup {o}, height |-> h])

\* The block's changes and the new best block take effect together.
Commit(b) == /\ mode # "idle"
             /\ mode' = "idle"
             /\ committed' = scratch
             /\ committedBest' = b
             /\ UNCHANGED <<durable, durableBest, scratch>>

\* The block is rejected: nothing it did is seen by anyone.
Abort == /\ mode # "idle"
         /\ mode' = "idle"
         /\ scratch' = committed
         /\ UNCHANGED <<durable, durableBest, committed, committedBest>>

\* The state of the tip reaches the disk, the coins with their best block.
Flush == /\ mode = "idle"
         /\ durable' = committed
         /\ durableBest' = committedBest
         /\ UNCHANGED <<committed, committedBest, scratch, mode>>

\* The process dies and starts again from the disk.
Crash == /\ committed' = durable
         /\ committedBest' = durableBest
         /\ scratch' = durable
         /\ mode' = "idle"
         /\ UNCHANGED <<durable, durableBest>>

Next == \/ \E m \in {"connect", "disconnect"} : Begin(m)
        \/ \E t \in Txid, o \in Outs : Spend(t, o)
        \/ \E t \in Txid, outs \in SUBSET Outs, h \in Heights : Add(t, outs, h)
        \/ \E t \in Txid : Remove(t)
        \/ \E t \in Txid, o \in Outs, h \in Heights : Restore(t, o, h)
        \/ \E b \in Block : Commit(b)
        \/ Abort
        \/ Flush
        \/ Crash

Spec == Init /\ [][Next]_vars
=============================================================================
