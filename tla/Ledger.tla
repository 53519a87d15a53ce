------------------------------- MODULE Ledger -------------------------------
(***************************************************************************)
(* What the indexed storage promises: the stored chain is a path of the    *)
(* block tree from the genesis block, which grows by a child of its head   *)
(* or loses its head, and the stored coins are exactly those unspent after *)
(* the head.  How many threads fetch, which blocks are seen early and what *)
(* crashes does not show.                                                  *)
(***************************************************************************)
EXTENDS Chain, Sequences

VARIABLES chain, coins
ledger == <<chain, coins>>

Last == chain[Len(chain)]

Init == chain = << >> /\ coins = GenesisCoins

Extend(b) ==
    /\ IF chain = << >> THEN b = Genesis ELSE b # Genesis /\ Parent[b] = Last
    /\ chain' = Append(chain, b)
    /\ coins' = Unspent[b]

\* Only a block with a predecessor can be dropped: the genesis block stays
Drop ==
    /\ Len(chain) > 1
    /\ chain' = SubSeq(chain, 1, Len(chain) - 1)
    /\ coins' = Unspent[chain[Len(chain) - 1]]

Next == Drop \/ \E b \in Block : Extend(b)

Spec == Init /\ [][Next]_ledger
=============================================================================
