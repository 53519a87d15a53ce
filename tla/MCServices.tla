----------------------------- MODULE MCServices -----------------------------
(***************************************************************************)
(* An instance of Services: two blocks compete for the second height.      *)
(* Both confirm tm, and x2 also tn, which spends what tm creates.  Users   *)
(* submit tm and tn; x2 has more transactions than are answered inline.    *)
(***************************************************************************)
EXTENDS Services

MCBlock == {"b1", "x2", "y2"}
MCTx == {"t1", "tx2", "ty2", "tm", "tn"}
MCCoin == {"g", "c1", "d1", "x2", "y2", "m", "n"}
MCAccount == {"miner", "alice"}
MCSubmitted == {"tm", "tn"}
MCGenesisCoins == {"g"}
MCHeight == [b1 |-> 1, x2 |-> 2, y2 |-> 2]
MCParent == [b1 |-> None, x2 |-> "b1", y2 |-> "b1"]
MCTransactions == [b1 |-> <<"t1">>, x2 |-> <<"tx2", "tm", "tn">>, y2 |-> <<"ty2", "tm">>]
MCTxInputs == [t1 |-> {"g"}, tx2 |-> {"c1"}, ty2 |-> {"c1"}, tm |-> {"d1"}, tn |-> {"m"}]
MCTxOutputs == [t1 |-> {"c1", "d1"}, tx2 |-> {"x2"}, ty2 |-> {"y2"}, tm |-> {"m"}, tn |-> {"n"}]
MCOwner == [g |-> "miner", c1 |-> "miner", d1 |-> "alice", x2 |-> "miner", y2 |-> "miner",
            m |-> "alice", n |-> "miner"]
MCValue == [g |-> 9, c1 |-> 7, d1 |-> 2, x2 |-> 7, y2 |-> 7, m |-> 2, n |-> 2]
MCBootstrapBalances == [miner |-> 9, alice |-> 0]

\* The boxes of a block, by the transactions that have them
BoxesOf(boxes) ==
    [b \in MCBlock |-> UNION {{[tx |-> t, coin |-> c] : c \in boxes[t]}
                                  : t \in ToSet(MCTransactions[b])}]
MCInputs == BoxesOf(MCTxInputs)
MCOutputs == BoxesOf(MCTxOutputs)
MCUnspent == [b1 |-> {"c1", "d1"}, x2 |-> {"x2", "n"}, y2 |-> {"y2", "m"}]
=============================================================================
