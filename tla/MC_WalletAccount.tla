------------------------- MODULE MC_WalletAccount -------------------------
(* One account owning u1, u2 and the outputs of its transactions: t1 and  *)
(* t2 both spend u1 (a conflict), t3 spends t1's change c1 (a dependent   *)
(* transaction), so blocks may prepare, conflict, revert and commit them. *)
EXTENDS WalletAccount

MC_Txs == {"t1", "t2", "t3"}
MC_TxInputs == [t \in MC_Txs |-> CASE t = "t1" -> {"u1"} [] t = "t2" -> {"u1"} [] t = "t3" -> {"c1"}]
MC_TxOutputs == [t \in MC_Txs |-> CASE t = "t1" -> {"c1"} [] t = "t2" -> {"c2"} [] t = "t3" -> {"c3"}]
MC_TxFee == [t \in MC_Txs |-> 1]
MC_Owned == {"u1", "c1", "c2", "c3"}
MC_InitUtxo == {"u1"}
MC_TxOrder == <<"t1", "t2", "t3">>
====
