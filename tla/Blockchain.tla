----------------------------- MODULE Blockchain -----------------------------
(***************************************************************************)
(* The chain state engine of src/blockchain/src/blockchain.rs: the         *)
(* in-memory Blockchain struct, the ListDb block store it writes to, and   *)
(* its two mutating operations register_key_block and                      *)
(* register_monetary_block, plus the replay of the store at start-up       *)
(* (load_blockchain).  The node process may crash at any point between     *)
(* operations; a panic inside an operation aborts the process too.         *)
(*                                                                         *)
(* Abstractions.  A hash is the hashed value itself (collision free).  A   *)
(* block's hash covers its header, which commits to its inputs and         *)
(* outputs.  A Pedersen commitment v*H + g*G is the pair [v, g]: the       *)
(* commitment is binding and homomorphic, so the balance equations of the  *)
(* code become equations on both components.  Outputs are model values     *)
(* with a fixed kind, amount, blinding factor and validator.               *)
(***************************************************************************)
EXTENDS Integers, SequencesExt

CONSTANTS
    Outputs,          \* output hashes (each names one fixed output)
    Validators,       \* validator network keys
    OutputKind,       \* Outputs -> {"payment", "stake"}
    OutputAmount,     \* Outputs -> amount (clear for stakes, committed for payments)
    OutputGamma,      \* Outputs -> blinding factor of a payment output
    OutputValidator,  \* Outputs -> validator of a stake output
    BONDING_TIME,     \* crate::escrow::BONDING_TIME
    MaxIO,            \* bound: inputs and outputs per block
    MaxHeight,        \* bound: blocks in the chain
    MaxTime,          \* bound: wall clock
    DevHash,          \* the hash every block may claim as previous (genesis parent)
    FakeKey           \* the "some fake key" leader/facilitator before the first key block

VARIABLES
    chain,     \* the Blockchain struct in memory (meaningless while the process is down)
    database,  \* ListDb: height -> block, survives crashes
    up,        \* the node process is running
    now,       \* wall clock (Utc::now / clock::now)
    applied    \* ghost: the blocks successfully registered, in order

vars == <<chain, database, up, now, applied>>

LOCAL E == INSTANCE Escrow

-----------------------------------------------------------------------------
(* Commitments.                                                            *)

Point(v, g) == [v |-> v, g |-> g]
Inf == Point(0, 0)
PAdd(a, b) == Point(a.v + b.v, a.g + b.g)
PSub(a, b) == Point(a.v - b.v, a.g - b.g)
fee_a(n) == Point(n, 0)
TimesG(x) == Point(0, x)

\* The value commitment of an output: vcmt for payments, fee_a(amount) for stakes.
Commitment(o) ==
    IF OutputKind[o] = "payment"
    THEN Point(OutputAmount[o], OutputGamma[o])
    ELSE fee_a(OutputAmount[o])

SumCommitments(seq) == FoldLeft(LAMBDA acc, o : PAdd(acc, Commitment(o)), Inf, seq)

\* fee_a(adjustment) + burned - created = gamma * G
IsBalanced(adjustment, burned, created, gamma) ==
    PSub(PAdd(fee_a(adjustment), burned), created) = TimesG(gamma)

-----------------------------------------------------------------------------
(* Blocks.  One record shape for both variants; a key block has no inputs  *)
(* or outputs, a monetary block no epoch, leader or validators.            *)

Header(kind, prev, epoch, ts, leader, facilitator, validators, txins, txouts, gamma, adj) ==
    [kind |-> kind, prev |-> prev, epoch |-> epoch, ts |-> ts, leader |-> leader,
     facilitator |-> facilitator, validators |-> validators, txins |-> txins,
     txouts |-> txouts, gamma |-> gamma, adj |-> adj]

\* body.inputs is cleared in memory once applied; leaves is the Merkle tree
\* of outputs, from which spent leaves are pruned in place.
MakeKeyBlock(prev, epoch, leader, facilitator, validators) ==
    [header |-> Header("key", prev, epoch, 0, leader, facilitator, validators, <<>>, <<>>, 0, 0),
     inputs |-> <<>>, leaves |-> {}]

MakeMonetaryBlock(prev, ts, txins, txouts, gamma, adj) ==
    [header |-> Header("monetary", prev, 0, ts, FakeKey, FakeKey, {}, txins, txouts, gamma, adj),
     inputs |-> txins, leaves |-> ToSet(txouts)]

Hash(b) == b.header

HasDuplicates(s) == \E i, j \in DOMAIN s : i # j /\ s[i] = s[j]

-----------------------------------------------------------------------------
(* The Blockchain struct.                                                  *)

\* Blockchain::with_db before load_blockchain.
EmptyChain(ts) ==
    [blocks |-> <<>>, block_by_hash |-> [h \in {} |-> 0], output_by_hash |-> [o \in {} |-> 0],
     escrow |-> E!EmptyEscrow, leader |-> FakeKey, facilitator |-> FakeKey,
     validators |-> [v \in {} |-> 0], last_block_timestamp |-> ts, epoch |-> 0,
     last_epoch_change |-> 0, created |-> Inf, burned |-> Inf, gamma |-> 0,
     monetary_adjustment |-> 0]

\* The outcome of a register_* call: Ok, Err (returned to the caller) or a
\* panic (assert!, unreachable!, panic!), which aborts the process.
Ok(S) == [res |-> "ok", chain |-> S]
Err(S) == [res |-> "err", chain |-> S]
Panic(S) == [res |-> "panic", chain |-> S]

\* The previous-hash check shared by both operations.
PreviousMismatch(S, b) ==
    Len(S.blocks) > 0 /\ Hash(Last(S.blocks)) # b.header.prev

\* The commit of a key block: its hash is recorded before the epoch assert.
CommitKeyBlock_EpochOffByOne(S, b, id, ts) ==
    [S EXCEPT !.epoch = @ + 1, !.last_epoch_change = id - 1, !.leader = b.header.leader,
              !.facilitator = b.header.facilitator,
              !.validators = E!Multiget(S.escrow, b.header.validators),
              !.last_block_timestamp = ts, !.blocks = Append(@, b)]

CommitKeyBlock(S, b, id, ts) ==
    [S EXCEPT !.epoch = @ + 1,
              !.last_epoch_change = id,
              !.leader = b.header.leader,
              !.facilitator = b.header.facilitator,
              !.validators = E!Multiget(S.escrow, b.header.validators),
              !.last_block_timestamp = ts,
              !.blocks = Append(@, b)]

\* register_key_block, after the database insert.
RegisterKeyBlock(S, b, ts) ==
    LET id == Len(S.blocks)
        h == Hash(b)
        S1 == [S EXCEPT !.block_by_hash = (h :> id) @@ @]
    IN IF PreviousMismatch(S, b) THEN Err(S)
       ELSE IF h \in DOMAIN S.block_by_hash THEN Err(S)
       ELSE IF S.epoch + 1 # b.header.epoch THEN Panic(S1)
       ELSE Ok(CommitKeyBlock(S1, b, id, ts))

\* The escrow update of a monetary block: unstake every pruned stake input
\* (its result ignored), then stake every new stake output, bonded until
\* the block's timestamp + BONDING_TIME.
EscrowAfter(escrow, b, ts) ==
    LET unstaked == FoldLeft(LAMBDA Es, o :
                        IF OutputKind[o] = "stake"
                        THEN E!Unstake(Es, OutputValidator[o], o, ts) ELSE Es,
                        escrow, b.header.txins)
    IN FoldLeft(LAMBDA Es, o :
            IF OutputKind[o] = "stake"
            THEN E!Stake(Es, OutputValidator[o], o, b.header.ts + BONDING_TIME, OutputAmount[o])
            ELSE Es,
            unstaked, b.header.txouts)

\* The input loop: an input with no entry in output_by_hash is MissingUTXO.
MissingUTXO(S, ins) == \E i \in DOMAIN ins : ins[i] \notin DOMAIN S.output_by_hash

\* The output loop: an output already in output_by_hash is OutputHashCollision.
OutputHashCollision_Unchecked(S, outs) == FALSE

OutputHashCollision(S, outs) == \E i \in DOMAIN outs : outs[i] \in DOMAIN S.output_by_hash

\* Remove spent outputs: prune each spent leaf from the block its OutputKey
\* names (block ids are 0-based, the sequence 1-based).
PruneSpentLeaves(blocks, index, spent) ==
    [i \in DOMAIN blocks |-> [blocks[i] EXCEPT !.leaves = @ \ {o \in spent : index[o] = i - 1}]]

\* Remove the spent outputs from output_by_hash, register the created ones at block_id.
IndexOutputs_KeepSpent(index, spent, outs, id) ==
    [o \in DOMAIN index \cup ToSet(outs) |-> IF o \in ToSet(outs) THEN id ELSE index[o]]

IndexOutputs_IdAfterPush(index, spent, outs, id) ==
    [o \in (DOMAIN index \ spent) \cup ToSet(outs) |-> IF o \in ToSet(outs) THEN id + 1 ELSE index[o]]

IndexOutputs(index, spent, outs, id) ==
    [o \in (DOMAIN index \ spent) \cup ToSet(outs) |-> IF o \in ToSet(outs) THEN id ELSE index[o]]

\* Save the global balance.
SaveGlobalBalance_NoGamma(S, created, burned, gamma, adjustment) ==
    [S EXCEPT !.created = created, !.burned = burned, !.monetary_adjustment = adjustment]

SaveGlobalBalance(S, created, burned, gamma, adjustment) ==
    [S EXCEPT !.created = created, !.burned = burned, !.gamma = gamma,
              !.monetary_adjustment = adjustment]

\* register_monetary_block, after the database insert.  current_timestamp
\* and clock::now() are both the wall clock ts.
RegisterMonetaryBlock(S, b, ts) ==
    LET id == Len(S.blocks)
        h == Hash(b)
        ins == b.header.txins
        outs == b.header.txouts
        burned == SumCommitments(ins)
        created == SumCommitments(outs)
        totalCreated == PAdd(S.created, created)
        totalBurned == PAdd(S.burned, burned)
        totalGamma == S.gamma + b.header.gamma
        totalAdjustment == S.monetary_adjustment + b.header.adj
        spent == ToSet(ins)
        committed == [S EXCEPT
                        !.blocks = Append(PruneSpentLeaves(@, S.output_by_hash, spent),
                                          [b EXCEPT !.inputs = <<>>]),
                        !.output_by_hash = IndexOutputs(@, spent, outs, id),
                        !.block_by_hash = (h :> id) @@ @,
                        !.escrow = EscrowAfter(@, b, ts),
                        !.last_block_timestamp = ts]
    IN IF PreviousMismatch(S, b) THEN Err(S)
       ELSE IF h \in DOMAIN S.block_by_hash THEN Err(S)
       ELSE IF MissingUTXO(S, ins) THEN Err(S)
       ELSE IF OutputHashCollision(S, outs) THEN Err(S)
       ELSE IF ~IsBalanced(b.header.adj, burned, created, b.header.gamma) THEN Err(S)
       ELSE IF ~IsBalanced(totalAdjustment, totalBurned, totalCreated, totalGamma) THEN Panic(S)
       \* a repeated input is missing from output_by_hash on its second
       \* removal, a repeated output already present on its second insert
       ELSE IF HasDuplicates(ins) \/ HasDuplicates(outs) THEN Panic(S)
       ELSE Ok(SaveGlobalBalance(committed, totalCreated, totalBurned, totalGamma, totalAdjustment))

\* handle_block: dispatch on the block variant.
Register(S, b, ts) ==
    IF b.header.kind = "key" THEN RegisterKeyBlock(S, b, ts) ELSE RegisterMonetaryBlock(S, b, ts)

\* load_blockchain: replay the store from height k on; an error of a saved
\* block is turned into a panic by expect().
RECURSIVE ReplayFrom(_, _, _, _)
ReplayFrom(S, db, k, ts) ==
    IF k \notin DOMAIN db THEN Ok(S)
    ELSE LET r == Register(S, db[k], ts)
         IN IF r.res = "ok" THEN ReplayFrom(r.chain, db, k + 1, ts) ELSE Panic(S)

-----------------------------------------------------------------------------
(* Blocks the network may deliver: built on the last block or on the       *)
(* genesis parent, with up to MaxIO inputs and outputs.                    *)

PrevChoices == IF chain.blocks = <<>> THEN {DevHash} ELSE {Hash(Last(chain.blocks)), DevHash}

IOChoices == BoundedSeq(Outputs, MaxIO)

\* The balancing adjustment and gamma of a block, or gamma off by one.
KeyBlocks ==
    {MakeKeyBlock(prev, epoch, l, f, vs) :
        prev \in PrevChoices, epoch \in {chain.epoch, chain.epoch + 1},
        l \in Validators, f \in Validators, vs \in SUBSET Validators \ {{}}}

MonetaryBlocks ==
    UNION {{MakeMonetaryBlock(prev, now, ins, outs,
                SumCommitments(ins).g - SumCommitments(outs).g + dg,
                SumCommitments(outs).v - SumCommitments(ins).v) :
                dg \in {0, 1}} :
            prev \in PrevChoices, ins \in IOChoices, outs \in IOChoices}

-----------------------------------------------------------------------------
(* Actions.                                                                *)

Init ==
    /\ now = 0
    /\ chain = EmptyChain(0)
    /\ database = [k \in {} |-> 0]
    /\ up = TRUE
    /\ applied = <<>>

\* The store write comes first and is kept whatever the outcome; a panic
\* aborts the process.
Receive(b) ==
    LET id == Len(chain.blocks)
        r == Register(chain, b, now)
    IN /\ database' = (id :> b) @@ database
       /\ up' = (r.res # "panic")
       /\ chain' = IF r.res = "ok" THEN r.chain ELSE chain
       /\ applied' = IF r.res = "ok" THEN Append(applied, b) ELSE applied
       /\ UNCHANGED now

ReceiveKeyBlock ==
    /\ up
    /\ Len(chain.blocks) < MaxHeight
    /\ \E b \in KeyBlocks : Receive(b)

ReceiveMonetaryBlock ==
    /\ up
    /\ Len(chain.blocks) < MaxHeight
    /\ \E b \in MonetaryBlocks : Receive(b)

\* The process is killed; only the database survives.
Crash ==
    /\ up
    /\ up' = FALSE
    /\ UNCHANGED <<chain, database, now, applied>>

\* Blockchain::new: an empty struct, then load_blockchain.  A panic during
\* the replay leaves the process down.
Restart ==
    /\ ~up
    /\ LET r == ReplayFrom(EmptyChain(now), database, 0, now)
       IN IF r.res = "ok"
          THEN /\ up' = TRUE
               /\ chain' = r.chain
               /\ applied' = [i \in 1..Cardinality(DOMAIN database) |-> database[i - 1]]
          ELSE UNCHANGED <<up, chain, applied>>
    /\ UNCHANGED <<database, now>>

Tick ==
    /\ now < MaxTime
    /\ now' = now + 1
    /\ UNCHANGED <<chain, database, up, applied>>

Next ==
    \/ ReceiveKeyBlock
    \/ ReceiveMonetaryBlock
    \/ Crash
    \/ Restart
    \/ Tick

Spec == Init /\ [][Next]_vars

\* The process supervisor restarts a stopped node; that is all the fairness
\* assumed: blocks arrive, and the node crashes, only if the environment says so.
LiveSpec == Spec /\ WF_vars(Restart)

\* output_by_hash(): the output an index entry names, "none" when the entry
\* is missing or its leaf was pruned, and "unreachable" for a key block.
OutputByHash(o) ==
    IF o \notin DOMAIN chain.output_by_hash THEN "none"
    ELSE LET b == chain.blocks[chain.output_by_hash[o] + 1]
         IN CASE b.header.kind # "monetary" -> "unreachable"
              [] o \in b.leaves             -> o
              [] OTHER                      -> "none"

-----------------------------------------------------------------------------
(* Properties.                                                             *)

Points == [v : Int, g : Int]
Blocks == [header : [kind : {"key", "monetary"}, prev : Any, epoch : Nat, ts : Nat,
                     leader : Validators \cup {FakeKey}, facilitator : Validators \cup {FakeKey},
                     validators : SUBSET Validators, txins : Seq(Outputs), txouts : Seq(Outputs),
                     gamma : Int, adj : Int],
           inputs : Seq(Outputs), leaves : SUBSET Outputs]

\* The Blockchain struct keeps its field types; in particular
\* last_epoch_change and the height-derived ids stay natural numbers.
TypeOK ==
    /\ up \in BOOLEAN
    /\ now \in 0..MaxTime
    /\ chain.epoch \in Nat
    /\ chain.last_epoch_change \in 0..Len(chain.blocks)
    /\ chain.output_by_hash \in [DOMAIN chain.output_by_hash -> 0..(Len(chain.blocks) - 1)]
    /\ DOMAIN chain.output_by_hash \subseteq Outputs
    /\ chain.created \in Points /\ chain.burned \in Points
    /\ chain.gamma \in Int /\ chain.monetary_adjustment \in Int
    /\ DOMAIN database \subseteq 0..MaxHeight
    /\ applied \in Seq(Blocks)

\* P1: the accumulators kept by register_monetary_block (the saved
\* created, burned, gamma and monetary_adjustment) always satisfy the global
\* balance equation, so the "Invalid global monetary balance" panic cannot
\* fire on a running node.
Conservation ==
    up => IsBalanced(chain.monetary_adjustment, chain.burned, chain.created, chain.gamma)

\* The blocks (of the registered history) that produce output o.
ProducersOf(o) == {i \in DOMAIN applied : o \in ToSet(applied[i].header.txouts)}

\* Block i's output o has not been spent by a later registered block.
LiveAt(o, i) == \A j \in DOMAIN applied : j > i => o \notin ToSet(applied[j].header.txins)

\* The UTXO index kept incrementally by the input-removal and output-insert
\* loops of register_monetary_block equals the unspent outputs of the
\* registered history, each keyed by the block that last produced it (also
\* after a crash and the replay of the block store).
UtxoIndexMatchesHistory ==
    up => \A o \in Outputs :
            LET live == {i \in ProducersOf(o) : LiveAt(o, i)}
            IN /\ (o \in DOMAIN chain.output_by_hash) <=> live # {}
               /\ live # {} => chain.output_by_hash[o] = Max(live) - 1

\* P2: every OutputKey in output_by_hash names a block in memory, and
\* output_by_hash() finds the output there: the block is monetary (no
\* unreachable!()) and its Merkle tree still holds the leaf (no None for an
\* indexed output).
UtxoIndexResolves ==
    up => \A o \in DOMAIN chain.output_by_hash :
            /\ chain.output_by_hash[o] + 1 \in DOMAIN chain.blocks
            /\ OutputByHash(o) = o

\* P4: for every validator, the escrow holds exactly the stake of the
\* unspent stake outputs in the chain; unstake is called for every spent
\* stake output of a block (its LockedStake result is ignored).
StakeInUtxo(v) ==
    MapThenSumSet(LAMBDA o : OutputAmount[o],
                  {o \in DOMAIN chain.output_by_hash : OutputKind[o] = "stake" /\ OutputValidator[o] = v})

EscrowConservation ==
    up => \A v \in Validators : E!StakeOf(chain.escrow, v) = StakeInUtxo(v)

\* A crashed node eventually runs again: the replay of the block store in
\* load_blockchain succeeds.
RestartRecovers == ~up ~> up

\* Spec 4.D step 7: register_monetary_block aborts the process only when the
\* global balance check fails (programmer error); every other bad block is
\* an error returned to the caller.  A receive that panics the node on a
\* monetary block must therefore fail the global balance equation.
MonetaryPanicOnlyOnGlobalImbalance ==
    [][LET b == database'[Len(chain.blocks)]
           burned == PAdd(chain.burned, SumCommitments(b.header.txins))
           created == PAdd(chain.created, SumCommitments(b.header.txouts))
       IN (up /\ ~up' /\ database' # database /\ b.header.kind = "monetary")
            => ~IsBalanced(chain.monetary_adjustment + b.header.adj, burned, created,
                           chain.gamma + b.header.gamma)]_vars

\* The refinement mapping: the blocks in memory, in order, as the entries of
\* the abstract ledger (a key block is an entry with no inputs or outputs).
ChainLedger ==
    [i \in DOMAIN chain.blocks |-> [ins |-> chain.blocks[i].header.txins,
                                    outs |-> chain.blocks[i].header.txouts]]

Ledger == INSTANCE UtxoLedger WITH ledger <- ChainLedger

\* register_key_block and register_monetary_block implement the UTXO
\* ledger: every block they append spends outputs unspent at that point, at
\* most once, and creates outputs that are not unspent; a crash leaves the
\* chain in memory alone and the replay of load_blockchain rebuilds the
\* same sequence of blocks, so no step of the node reorders, drops or
\* rewrites a registered block.
ImplementsLedger == Ledger!Spec

=============================================================================
