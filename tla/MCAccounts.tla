----------------------------- MODULE MCAccounts -----------------------------
(***************************************************************************)
(* An instance of Accounts: a fork of two branches after the genesis       *)
(* block.  Both confirm tm, which spends a box of the genesis block for    *)
(* bob; in x2 a third transaction spends what the second created.          *)
(***************************************************************************)
EXTENDS Accounts

MCBlock == {"b1", "x2", "y2", "y3"}
MCTx == {"t1", "tx2", "tm", "tz", "ty2", "ty3"}
MCCoin == {"g", "c1", "d1", "i", "x2", "m", "z", "y2", "y3"}
MCAccount == {"miner", "alice", "bob"}
MCGenesisCoins == {"g"}
MCHeight == [b1 |-> 1, x2 |-> 2, y2 |-> 2, y3 |-> 3]
MCParent == [b1 |-> None, x2 |-> "b1", y2 |-> "b1", y3 |-> "y2"]
MCTransactions == [b1 |-> <<"t1">>, x2 |-> <<"tx2", "tm", "tz">>,
                   y2 |-> <<"ty2">>, y3 |-> <<"ty3", "tm">>]
MCTxInputs == [t1 |-> {"g"}, tx2 |-> {"c1"}, tm |-> {"d1"}, tz |-> {"i"},
               ty2 |-> {"c1"}, ty3 |-> {"y2"}]
MCTxOutputs == [t1 |-> {"c1", "d1"}, tx2 |-> {"x2", "i"}, tm |-> {"m"}, tz |-> {"z"},
                ty2 |-> {"y2"}, ty3 |-> {"y3"}]
MCOwner == [g |-> "miner", c1 |-> "miner", d1 |-> "alice", i |-> "alice",
            x2 |-> "miner", m |-> "bob", z |-> "alice", y2 |-> "miner", y3 |-> "miner"]
MCValue == [g |-> 9, c1 |-> 7, d1 |-> 2, i |-> 1, x2 |-> 6, m |-> 2, z |-> 1, y2 |-> 7, y3 |-> 7]
MCBootstrapBalances == [miner |-> 9, alice |-> 0, bob |-> 0]

\* The boxes of a block, by the transactions that have them
BoxesOf(boxes) ==
    [b \in MCBlock |-> UNION {{[tx |-> t, coin |-> c] : c \in boxes[t]}
                                  : t \in ToSet(MCTransactions[b])}]
MCInputs == BoxesOf(MCTxInputs)
MCOutputs == BoxesOf(MCTxOutputs)
MCUnspent ==
    LET U[b \in MCBlock] ==
          ((IF b = "b1" THEN MCGenesisCoins ELSE U[MCParent[b]])
            \cup {o.coin : o \in MCOutputs[b]}) \ {i.coin : i \in MCInputs[b]}
    IN  U

\* Theorem RequiredInputs on this instance: the pass over the transactions finds
\* what Indexer takes GetInputsForTxs to be.
ASSUME \A b \in Block : InputsForTxs(Transactions[b]) = GetInputsForTxs(b)
=============================================================================
