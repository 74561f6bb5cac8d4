---------------------------- MODULE WalletAccount ----------------------------
(***************************************************************************)
(* One unsealed wallet account (UnsealedAccountService of                 *)
(* src/wallet/src/lib.rs) against the node it talks to.                   *)
(*                                                                         *)
(* Account side, from the code: the unspent mirror, the locked inputs      *)
(* (pending_payments), the outgoing transactions and their statuses, the   *)
(* single in-flight send (transaction_response), and the handlers polled   *)
(* by UnsealedAccountService::poll: the node's response, the resend and    *)
(* pending-UTXO timers, payment requests and the three chain               *)
(* notifications.  Each handler runs to completion (one action); the       *)
(* event sources are independent channels, so any of them may be ready     *)
(* first.  The account store (AccountDatabase) is not in the repository:   *)
(* prune_txs, rollback_txs and pending_txs follow spec 4.G.                *)
(*                                                                         *)
(* Node side, the environment: admission by validate_transaction           *)
(* (Validation), a mempool, micro blocks of one transaction, reverts, and  *)
(* macro blocks which first revert the epoch's micro blocks and then       *)
(* commit all of their inputs and outputs.  Notifications reach the        *)
(* account in order and carry, as ghost fields, the chain after the step.  *)
(***************************************************************************)
EXTENDS Integers, SequencesExt

CONSTANTS
    Txs, TxInputs, TxOutputs, TxFee, PaymentFee,
    Owned,              \* outputs this account's key owns
    InitUtxo,           \* the chain's unspent outputs at the start
    TxOrder,            \* the order in which pending_txs() iterates (a sequence of Txs)
    PENDING_UTXO_TIME,  \* lock lifetime of an input, in clock ticks
    MaxTime,            \* bound: clock ticks
    MaxEpoch,           \* bound: macro blocks
    MaxMicro,           \* bound: micro blocks per epoch
    MaxQueue            \* bound: undelivered chain notifications

VARIABLES
    \* node
    base,          \* chain UTXO set at the last macro block
    micro,         \* transactions of the epoch's micro blocks, in order
    committed,     \* transactions in macro blocks
    mempool,       \* admitted transactions
    nepoch,        \* node epoch
    notifs,        \* chain notifications not yet processed by the account
    \* account
    unspent,       \* database unspent outputs
    locked,        \* database.pending_payments: locked input -> lock time
    status,        \* pending outgoing table: tx -> TransactionStatus
    slot,          \* transaction_response: <<>> or <<[tx, ready, st]>>
    wepoch,        \* database.epoch()
    told,          \* ghost: tx -> what the payment request answered
    seen,          \* ghost: chain UTXO set as of the last processed notification
    seenTxs,       \* ghost: transactions in the chain as of the last processed notification
    snowball,      \* the value-shuffle session: <<>> or <<[tx, published]>>
    now            \* clock

node == <<base, micro, committed, mempool, nepoch, notifs>>
account == <<unspent, locked, status, slot, wepoch, told, seen, seenTxs, snowball>>
vars == <<node, account, now>>

LOCAL V == INSTANCE Validation

-----------------------------------------------------------------------------
(* TransactionStatus (src/node/src/api.rs 283-308); NoOffset is None.     *)

NoOffset == -1
Status(s, e, o) == [s |-> s, epoch |-> e, offset |-> o]
Created == Status("Created", 0, NoOffset)
Accepted == Status("Accepted", 0, NoOffset)
Rejected == Status("Rejected", 0, NoOffset)

-----------------------------------------------------------------------------
(* Node.                                                                   *)

ApplyTx(u, t) == (u \ TxInputs[t]) \cup TxOutputs[t]
UtxoAfter(u, seq) == FoldLeft(ApplyTx, u, seq)
Utxo == UtxoAfter(base, micro)
Included(seq) == committed \cup ToSet(seq)

Notif(kind, e, o, ins, outs, seq) ==
    [kind |-> kind, epoch |-> e, offset |-> o, inputs |-> ins, outputs |-> outs,
     utxo |-> UtxoAfter(base, seq), txs |-> Included(seq)]

\* The node answers a send_transaction request: admission, then the reply.
NodeHandleTransaction ==
    /\ slot # <<>> /\ ~slot[1].ready
    /\ LET t == slot[1].tx
           ok == V!ValidateTransaction(t, mempool, Utxo) = "ok"
       IN /\ mempool' = IF ok THEN mempool \cup {t} ELSE mempool
          /\ slot' = <<[slot[1] EXCEPT !.ready = TRUE, !.st = IF ok THEN Accepted ELSE Rejected]>>
    /\ UNCHANGED <<base, micro, committed, nepoch, notifs, unspent, locked, status, wepoch, told, seen, seenTxs, snowball, now>>

\* A micro block with one mempool transaction whose inputs are unspent;
\* the mempool drops it and its conflicts.
NodeMicroBlock ==
    /\ Len(micro) < MaxMicro /\ Len(notifs) < MaxQueue /\ nepoch < MaxEpoch
    /\ \E t \in mempool :
        /\ TxInputs[t] \subseteq Utxo
        /\ micro' = Append(micro, t)
        /\ mempool' = V!MempoolPrune(mempool, TxInputs[t], TxOutputs[t])
        /\ notifs' = Append(notifs, Notif("prepared", nepoch, Len(micro), TxInputs[t],
                                          TxOutputs[t], Append(micro, t)))
    /\ UNCHANGED <<base, committed, nepoch, account, now>>

\* The last micro block is reverted; its transaction returns to the mempool.
NodeRevertMicroBlock ==
    /\ micro # <<>> /\ Len(notifs) < MaxQueue
    /\ LET t == Last(micro)
       IN /\ micro' = Front(micro)
          /\ mempool' = mempool \cup {t}
          /\ notifs' = Append(notifs, Notif("reverted", nepoch, Len(micro) - 1, TxInputs[t],
                                            TxOutputs[t], Front(micro)))
    /\ UNCHANGED <<base, committed, nepoch, account, now>>

\* A macro block: every micro block of the epoch is reverted, newest first,
\* then the macro block commits all of their inputs and outputs.
NodeMacroBlock ==
    /\ nepoch < MaxEpoch
    /\ Len(notifs) + Len(micro) < MaxQueue
    /\ LET n == Len(micro)
           reverts == [i \in 1..n |-> Notif("reverted", nepoch, n - i, TxInputs[micro[n + 1 - i]],
                                            TxOutputs[micro[n + 1 - i]], SubSeq(micro, 1, n - i))]
           ins == UNION {TxInputs[micro[i]] : i \in 1..n}
           outs == UNION {TxOutputs[micro[i]] : i \in 1..n}
       IN /\ notifs' = (notifs \o reverts) \o <<Notif("committed", nepoch + 1, 0, ins, outs, micro)>>
          /\ base' = Utxo
          /\ committed' = committed \cup ToSet(micro)
          /\ micro' = <<>>
          /\ nepoch' = nepoch + 1
    /\ UNCHANGED <<mempool, account, now>>

-----------------------------------------------------------------------------
(* Account store operations (spec 4.G).                                    *)

\* Statuses that prune_txs no longer touches.
Settled(st) == st.s = "Committed" \/ (st.s = "Conflicted" /\ st.offset = NoOffset)

\* prune_txs(inputs, outputs): the outgoing transactions the block touches,
\* each with whether all of its outputs are in the block.
PruneTxs(ins, outs) ==
    {t \in DOMAIN status : ~Settled(status[t])
                           /\ (TxInputs[t] \cap ins # {} \/ TxOutputs[t] \cap outs # {})}
Survived_Always(t, outs) == TRUE

Survived(t, outs) == TxOutputs[t] \subseteq outs

\* rollback_txs(offset): the transactions prepared at this offset.
RollbackTxs(offset) ==
    {t \in DOMAIN status : status[t].s = "Prepared" /\ status[t].offset = offset}

\* pending_txs(): the transactions still to be (re)sent.
PendingTxs_WithRejected == {t \in DOMAIN status : status[t].s \in {"Created", "Accepted", "Rejected"}}

PendingTxs == {t \in DOMAIN status : status[t].s \in {"Created", "Accepted"}}

\* lock_input for every input.
LockInputs(l, ins) == [o \in DOMAIN l \cup ins |-> IF o \in ins THEN now ELSE l[o]]

-----------------------------------------------------------------------------
(* Account handlers.                                                       *)

\* Transaction hashes not used yet: neither answered nor in a running session.
SessionTx == {s.tx : s \in ToSet(snowball)}
Fresh == Txs \ (DOMAIN told \cup SessionTx)

\* on_tx_status: overwrite the status of a logged transaction.
OnTxStatuses(st, changes) == [t \in DOMAIN st |-> IF t \in DOMAIN changes THEN changes[t] ELSE st[t]]

\* on_output_created keeps the outputs this account owns (payload decrypts,
\* or recipient is the account key); on_output_pruned ignores the others.
Mine(outs) == outs \cap Owned

\* on_outputs_changed: first create the owned outputs, then prune the inputs.
OnOutputsChanged_PruneFirst(u, ins, outs) == (u \ ins) \cup Mine(outs)

OnOutputsChanged(u, ins, outs) == (u \cup Mine(outs)) \ ins

\* send_transaction: fails while an earlier send awaits its response.
SendTransaction_Queued(t) == Append(slot, [tx |-> t, ready |-> FALSE, st |-> Created])

SendTransaction(t) == IF slot = <<>> THEN <<[tx |-> t, ready |-> FALSE, st |-> Created]>> ELSE slot

\* payment / public_payment / stake ... -> send_and_log_transaction: lock the
\* inputs, log the transaction as Created, then send; a busy slot answers
\* the request with an error, the transaction staying logged and locked.
Payment ==
    /\ \E t \in Fresh :
        /\ TxInputs[t] \subseteq unspent \ DOMAIN locked
        /\ locked' = LockInputs(locked, TxInputs[t])
        /\ status' = (t :> Created) @@ status
        /\ slot' = SendTransaction(t)
        /\ told' = (t :> IF slot = <<>> THEN "created" ELSE "error") @@ told
    /\ UNCHANGED <<node, unspent, wepoch, seen, seenTxs, snowball, now>>

\* secure_payment: refused while a session runs (SnowballBusy); otherwise
\* the inputs are taken from the available outputs and locked, and the
\* session keeps the request's answer until it ends.  The other
\* participants' inputs of the super-transaction are not modelled.
SecurePayment ==
    /\ snowball = <<>>
    /\ \E t \in Fresh :
        /\ TxInputs[t] \subseteq unspent \ DOMAIN locked
        /\ locked' = LockInputs(locked, TxInputs[t])
        /\ snowball' = <<[tx |-> t, published |-> FALSE]>>
    /\ UNCHANGED <<node, unspent, status, slot, wepoch, told, seen, seenTxs, now>>

\* Another participant, the session's leader, ends the protocol first and
\* sends the super-transaction (handle_snowball_transaction on its side).
SnowballPeerPublish ==
    /\ snowball # <<>> /\ ~snowball[1].published
    /\ LET t == snowball[1].tx
       IN mempool' = IF V!ValidateTransaction(t, mempool, Utxo) = "ok" THEN mempool \cup {t} ELSE mempool
    /\ snowball' = <<[snowball[1] EXCEPT !.published = TRUE]>>
    /\ UNCHANGED <<base, micro, committed, nepoch, notifs, unspent, locked, status, slot,
                   wepoch, told, seen, seenTxs, now>>

\* poll: the session yields the super-transaction; handle_snowball_transaction
\* logs it as Created and, at the leader, sends it, which fails on a busy
\* slot; the request is answered with the result.  The inputs stay locked.
SnowballSucceeded(isLeader) ==
    /\ snowball # <<>> /\ (isLeader => ~snowball[1].published)
    /\ LET t == snowball[1].tx
       IN /\ status' = (t :> Created) @@ status
          /\ slot' = IF isLeader THEN SendTransaction(t) ELSE slot
          /\ told' = (t :> IF isLeader /\ slot # <<>> THEN "error" ELSE "created") @@ told
    /\ snowball' = <<>>
    /\ UNCHANGED <<node, unspent, locked, wepoch, seen, seenTxs, now>>

\* poll: the session fails before the super-transaction exists; its inputs
\* are unlocked and the request is answered with the error.
SnowballFailed ==
    /\ snowball # <<>> /\ ~snowball[1].published
    /\ LET t == snowball[1].tx
       IN /\ locked' = Restrict(locked, DOMAIN locked \ TxInputs[t])
          /\ told' = (t :> "error") @@ told
    /\ snowball' = <<>>
    /\ UNCHANGED <<node, unspent, status, slot, wepoch, seen, seenTxs, now>>

\* poll: the node's BroadcastTransaction response is applied by on_tx_status.
TransactionResponse ==
    /\ slot # <<>> /\ slot[1].ready
    /\ status' = OnTxStatuses(status, slot[1].tx :> slot[1].st)
    /\ slot' = <<>>
    /\ UNCHANGED <<node, unspent, locked, wepoch, told, seen, seenTxs, snowball, now>>

\* handle_resend_pending_txs, on every tick of the resend timer: every
\* pending tx is sent, errors ignored; only the first one in iteration
\* order can find the slot free.
ResendPendingTxs ==
    /\ slot' = IF slot = <<>> /\ PendingTxs # {}
               THEN SendTransaction(TxOrder[SelectInSeq(TxOrder, LAMBDA t : t \in PendingTxs)])
               ELSE slot
    /\ UNCHANGED <<node, unspent, locked, status, wepoch, told, seen, seenTxs, snowball, now>>

\* handle_check_pending_utxos: unlock every input locked PENDING_UTXO_TIME ago.
Expired == {o \in DOMAIN locked : locked[o] + PENDING_UTXO_TIME <= now}

\* An expired input of the running session terminates it, answering the
\* request with "Snowball timed out"; the session's other inputs keep
\* their locks.
TimedOut == snowball # <<>> /\ TxInputs[snowball[1].tx] \cap Expired # {}

CheckPendingUtxos_KeepSession ==
    /\ Expired # {}
    /\ locked' = Restrict(locked, DOMAIN locked \ Expired)
    /\ UNCHANGED <<node, unspent, status, slot, wepoch, told, seen, seenTxs, snowball, now>>

CheckPendingUtxos ==
    /\ Expired # {}
    /\ locked' = Restrict(locked, DOMAIN locked \ Expired)
    /\ IF TimedOut
       THEN /\ snowball' = <<>>
            /\ told' = (snowball[1].tx :> "error") @@ told
       ELSE UNCHANGED <<snowball, told>>
    /\ UNCHANGED <<node, unspent, status, slot, wepoch, seen, seenTxs, now>>

\* poll takes a ready response before the chain notifications.
ResponseReady == slot # <<>> /\ slot[1].ready

\* Common part of the three notification handlers.
Consume(n, st, u) ==
    /\ notifs' = Tail(notifs)
    /\ status' = st
    /\ unspent' = u
    /\ seen' = n.utxo
    /\ seenTxs' = n.txs

\* MicroBlockPrepared: Prepared or Conflicted{Some(offset)}, then outputs.
MicroBlockPrepared ==
    /\ notifs # <<>> /\ Head(notifs).kind = "prepared" /\ ~ResponseReady
    /\ LET n == Head(notifs)
           changes == [t \in PruneTxs(n.inputs, n.outputs) |->
                         Status(IF Survived(t, n.outputs) THEN "Prepared" ELSE "Conflicted",
                                n.epoch, n.offset)]
       IN Consume(n, OnTxStatuses(status, changes), OnOutputsChanged(unspent, n.inputs, n.outputs))
    /\ UNCHANGED <<base, micro, committed, mempool, nepoch, locked, slot, wepoch, told, snowball, now>>

\* MicroBlockReverted: rollback_txs(offset) -> Created, then the block's
\* outputs are pruned and its inputs recovered.
MicroBlockReverted ==
    /\ notifs # <<>> /\ Head(notifs).kind = "reverted" /\ ~ResponseReady
    /\ LET n == Head(notifs)
           changes == [t \in RollbackTxs(n.offset) |-> Created]
       IN Consume(n, OnTxStatuses(status, changes), OnOutputsChanged(unspent, n.outputs, n.inputs))
    /\ UNCHANGED <<base, micro, committed, mempool, nepoch, locked, slot, wepoch, told, snowball, now>>

\* MacroBlockCommitted: Committed or Conflicted{None}, outputs, then on_epoch_changed.
MacroBlockCommitted ==
    /\ notifs # <<>> /\ Head(notifs).kind = "committed" /\ ~ResponseReady
    /\ LET n == Head(notifs)
           changes == [t \in PruneTxs(n.inputs, n.outputs) |->
                         Status(IF Survived(t, n.outputs) THEN "Committed" ELSE "Conflicted",
                                n.epoch, NoOffset)]
       IN Consume(n, OnTxStatuses(status, changes), OnOutputsChanged(unspent, n.inputs, n.outputs))
    /\ wepoch' = Head(notifs).epoch
    /\ UNCHANGED <<base, micro, committed, mempool, nepoch, locked, slot, told, snowball, now>>

Tick ==
    /\ now < MaxTime
    /\ now' = now + 1
    /\ UNCHANGED <<node, account>>

-----------------------------------------------------------------------------

Init ==
    /\ base = InitUtxo /\ micro = <<>> /\ committed = {} /\ mempool = {}
    /\ nepoch = 0 /\ notifs = <<>>
    /\ unspent = InitUtxo \cap Owned
    /\ locked = [o \in {} |-> 0]
    /\ status = [t \in {} |-> Created]
    /\ slot = <<>>
    /\ wepoch = 0
    /\ told = [t \in {} |-> "created"]
    /\ seen = InitUtxo /\ seenTxs = {}
    /\ snowball = <<>>
    /\ now = 0

Next ==
    \/ NodeHandleTransaction \/ NodeMicroBlock \/ NodeRevertMicroBlock \/ NodeMacroBlock
    \/ Payment \/ SecurePayment \/ SnowballPeerPublish \/ SnowballFailed
    \/ \E isLeader \in BOOLEAN : SnowballSucceeded(isLeader)
    \/ TransactionResponse \/ ResendPendingTxs \/ CheckPendingUtxos
    \/ MicroBlockPrepared \/ MicroBlockReverted \/ MacroBlockCommitted
    \/ Tick

Spec == Init /\ [][Next]_vars

\* The resend timer fires forever, the node answers every request it
\* receives, and poll applies a ready answer.  Payments, blocks, reverts,
\* snowball sessions and the clock are the environment: no fairness.
LiveSpec ==
    /\ Spec
    /\ WF_vars(ResendPendingTxs)
    /\ WF_vars(NodeHandleTransaction)
    /\ WF_vars(TransactionResponse)

-----------------------------------------------------------------------------
(* Properties.                                                             *)

StatusKinds == {"Created", "Accepted", "Rejected", "Prepared", "Committed", "Conflicted"}

\* The account's variables keep their shapes.
TypeOK ==
    /\ unspent \subseteq Owned
    /\ locked \in [DOMAIN locked -> 0..MaxTime] /\ DOMAIN locked \subseteq Owned
    /\ status \in [DOMAIN status -> [s : StatusKinds, epoch : 0..MaxEpoch, offset : NoOffset..MaxMicro]]
    /\ DOMAIN status \subseteq Txs
    /\ Len(slot) <= 1
    /\ told \in [DOMAIN told -> {"created", "error"}] /\ DOMAIN status \subseteq DOMAIN told
    /\ DOMAIN told \subseteq Txs
    /\ snowball \in Seq([tx : Txs, published : BOOLEAN]) /\ Len(snowball) <= 1

\* The unspent mirror built by on_outputs_changed (create, then prune) from
\* the prepared, reverted and committed notifications equals this
\* account's outputs in the chain as of the last notification processed,
\* through reverts and macro blocks that both create and spend an output.
MirrorMatchesChain == unspent = seen \cap Owned

\* A transaction the account marks Committed is in the chain, and one it
\* marks Conflicted is not, as the account last saw it.
SettledStatusIsTrue ==
    \A t \in DOMAIN status :
        /\ status[t].s = "Committed" => t \in seenTxs
        /\ status[t].s = "Conflicted" => t \notin seenTxs

\* While a value-shuffle session runs, each of its inputs is locked, so no
\* payment can pick them: the pending-UTXO timer that unlocks expired
\* inputs (handle_check_pending_utxos) must end the session whenever it
\* unlocks one of the session's inputs, whatever the node and the other
\* handlers did in between.
SnowballInputsLocked == \A s \in ToSet(snowball) : TxInputs[s.tx] \subseteq DOMAIN locked

\* Spec 3 lifecycle: a transaction in a block the account has processed is
\* Prepared or Committed. Neither a late node response (on_tx_status) nor a
\* snowball session logging its super-transaction (push_outgoing in
\* handle_snowball_transaction) after that block must move it back.
StatusMatchesChain ==
    \A t \in DOMAIN status : t \in seenTxs => status[t].s \in {"Prepared", "Committed"}

\* A payment request answered with an error never makes the payment: neither
\* send_and_log_transaction failing in send_transaction, nor a value-shuffle
\* session ended with 'Snowball timed out' by the pending-UTXO timer.
NoSilentPayment ==
    \A t \in DOMAIN told : told[t] = "error" => t \notin seenTxs

\* A logged transaction left Created (its send failed on the busy slot, or
\* this account was not the snowball leader) is eventually handed to the
\* node, or leaves Created, once micro blocks stop being reverted.
\* handle_resend_pending_txs sends only the first pending transaction in
\* pending_txs() order each tick, so this needs every transaction ahead of
\* it to stop being pending; a revert makes an earlier one Created again,
\* which is why reverts without end can starve a later one.
CreatedTx(t) == t \in DOMAIN status /\ status[t].s = "Created"
Sending(t) == \E s \in ToSet(slot) : s.tx = t
ResendReachesEveryTx ==
    <>[][~NodeRevertMicroBlock]_vars =>
        \A t \in Txs : CreatedTx(t) ~> (Sending(t) \/ ~CreatedTx(t))

=============================================================================
