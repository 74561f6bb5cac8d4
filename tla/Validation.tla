----------------------------- MODULE Validation -----------------------------
(***************************************************************************)
(* Transaction admission of the node: validate_transaction of             *)
(* src/node/src/validation.rs, over the mempool and the chain's UTXO set. *)
(* A transaction is a model value with fixed inputs, outputs and fee; its *)
(* hash is the value itself.  The mempool (mempool.rs is not in the       *)
(* repository) is the set of admitted transactions, its three indices     *)
(* (spec 4.F) derived from it.  Signatures, range proofs and the stake    *)
(* balance (tx.validate, validate_staking_balance) are taken to hold: the *)
(* model's transactions are well-formed.                                   *)
(***************************************************************************)
EXTENDS Naturals, FiniteSets

CONSTANTS
    Txs,          \* transaction hashes
    TxInputs,     \* Txs -> set of input output-hashes
    TxOutputs,    \* Txs -> set of output hashes
    TxFee,        \* Txs -> fee
    PaymentFee    \* payment_fee of the node configuration (all outputs are payments)

\* Mempool::contains_tx, contains_input, contains_output.
ContainsTx(mempool, t) == t \in mempool
ContainsInput(mempool, o) == \E m \in mempool : o \in TxInputs[m]
ContainsOutput(mempool, o) == \E m \in mempool : o \in TxOutputs[m]

\* Mempool::prune(inputs, outputs): drop every transaction claiming a given
\* input or producing a given output.
MempoolPrune(mempool, inputs, outputs) ==
    {m \in mempool : TxInputs[m] \cap inputs = {} /\ TxOutputs[m] \cap outputs = {}}

\* The minimal fee: payment_fee per output.
MinFee(t) == Cardinality(TxOutputs[t]) * PaymentFee

\* validate_transaction: the first failing check of the checklist, or "ok".
ValidateTransaction(t, mempool, utxo) ==
    IF ContainsTx(mempool, t) THEN "AlreadyExists"
    ELSE IF TxFee[t] < MinFee(t) THEN "TooLowFee"
    ELSE IF \E i \in TxInputs[t] : i \notin utxo \/ ContainsInput(mempool, i) THEN "MissingInput"
    ELSE IF \E o \in TxOutputs[t] : ContainsOutput(mempool, o) \/ o \in utxo THEN "OutputHashCollision"
    ELSE "ok"

=============================================================================
