-------------------------- MODULE MCInvoiceBatches --------------------------
EXTENDS InvoiceBatches, TLC
MCRepOf == [i1 |-> "r1", i2 |-> "r2", i3 |-> "r1"]
MCAmount == [i1 |-> 2, i2 |-> 1, i3 |-> 2]
MCPayable == {<<"i1", "r1">>, <<"i1", "r2">>}
Symm == Permutations(Jobs) \cup Permutations(Batches)
=============================================================================
