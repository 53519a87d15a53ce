------------------------------ MODULE MCIndexer ------------------------------
(***************************************************************************)
(* Instances of Indexer: four blocks in a row, and a fork of two branches  *)
(* after the genesis block that confirm the same transaction tm.           *)
(***************************************************************************)
EXTENDS Indexer, TLC

WorkerSymmetry == Permutations(Worker)

\* Unspent boxes by block, computed along the branch
UnspentAfter(genesisCoins, parent, inputs, outputs) ==
    LET U[b \in DOMAIN parent] ==
          ((IF parent[b] = None THEN genesisCoins ELSE U[parent[b]])
            \cup {o.coin : o \in outputs[b]}) \ {i.coin : i \in inputs[b]}
    IN  U

In(t, c) == [tx |-> t, coin |-> c]

\* The unforked chain: every block spends the emission box of the one before,
\* and block 3 a box of its own as well.
LineBlock == {"b1", "b2", "b3", "b4"}
LineTx == {"t1", "t2", "t3", "t4"}
LineCoin == {"g", "c1", "c2", "c3", "c4", "d1", "d2", "d3"}
LineGenesisCoins == {"g"}
LineHeight == [b1 |-> 1, b2 |-> 2, b3 |-> 3, b4 |-> 4]
LineParent == [b1 |-> None, b2 |-> "b1", b3 |-> "b2", b4 |-> "b3"]
LineInputs == [b1 |-> {In("t1", "g")},
               b2 |-> {In("t2", "c1"), In("t2", "d2")},
               b3 |-> {In("t3", "c2"), In("t3", "d3")},
               b4 |-> {In("t4", "c3"), In("t4", "d1")}]
LineOutputs == [b1 |-> {In("t1", "c1"), In("t1", "d1")},
                b2 |-> {In("t2", "c2"), In("t2", "d2")},
                b3 |-> {In("t3", "c3"), In("t3", "d3")},
                b4 |-> {In("t4", "c4")}]
LineUnspent == UnspentAfter(LineGenesisCoins, LineParent, LineInputs, LineOutputs)

\* The fork: x and y branches of the genesis block.  Both confirm tm, in blocks
\* of different heights; each emission transaction exists on one branch only.
ForkBlock == {"b1", "x2", "x3", "y2", "y3", "y4"}
ForkTx == {"t1", "tx2", "tx3", "ty2", "ty3", "ty4", "tm", "tz"}
ForkCoin == {"g", "c1", "d1", "x2", "x3", "y2", "y3", "y4", "m", "i"}
ForkGenesisCoins == {"g"}
ForkHeight == [b1 |-> 1, x2 |-> 2, x3 |-> 3, y2 |-> 2, y3 |-> 3, y4 |-> 4]
ForkParent == [b1 |-> None, x2 |-> "b1", x3 |-> "x2",
               y2 |-> "b1", y3 |-> "y2", y4 |-> "y3"]
ForkInputs == [b1 |-> {In("t1", "g")},
               x2 |-> {In("tx2", "c1"), In("tm", "d1"), In("tz", "i")},
               x3 |-> {In("tx3", "x2"), In("tx3", "m")},
               y2 |-> {In("ty2", "c1")},
               y3 |-> {In("ty3", "y2"), In("tm", "d1")},
               y4 |-> {In("ty4", "y3")}]
ForkOutputs == [b1 |-> {In("t1", "c1"), In("t1", "d1")},
                x2 |-> {In("tx2", "x2"), In("tx2", "i"), In("tm", "m")},
                x3 |-> {In("tx3", "x3")},
                y2 |-> {In("ty2", "y2")},
                y3 |-> {In("ty3", "y3"), In("tm", "m")},
                y4 |-> {In("ty4", "y4")}]
ForkUnspent == UnspentAfter(ForkGenesisCoins, ForkParent, ForkInputs, ForkOutputs)
\* The instances satisfy the hypotheses of the theorems of BranchProofs.
Made[b \in Block] ==
    (IF b = Genesis THEN GenesisCoins ELSE Made[Parent[b]]) \cup Creates(b)
ASSUME InstancesAreLinked == LinkedBlocks /\ MakesEachOnce(Made)
ASSUME LineHasNoFork == Block = LineBlock => SingleBranch
=============================================================================
