----------------------------- MODULE MCDownload -----------------------------
(* A small instance of Download for TLC: a chain a1, a2, a3.               *)
EXTENDS Download

CONSTANTS a1, a2, a3

Tree == [b \in Block |-> CASE b = Genesis -> <<Genesis>>
                           [] b = a1 -> <<Genesis, a1>>
                           [] b = a2 -> <<Genesis, a1, a2>>
                           [] b = a3 -> <<Genesis, a1, a2, a3>>]
=============================================================================
