------------------------------- MODULE Escrow -------------------------------
(***************************************************************************)
(* The escrow owned by the chain state engine (spec section 4.C).  Its     *)
(* source (escrow.rs) is not part of the repository snapshot, so the       *)
(* operators below are modelled from the specification, with the call      *)
(* signature used by src/blockchain/src/blockchain.rs (bonding time only,  *)
(* no epochs).  The escrow is a value owned by the Blockchain record: a    *)
(* function from stake output hash to its stake record.                    *)
(***************************************************************************)
EXTENDS Integers, FiniteSetsExt, TLC

\* An empty escrow.
EmptyEscrow == [h \in {} |-> 0]

\* stake(validator, output_hash, bonding_until, amount): insert a record,
\* idempotent when the output hash is already staked.
Stake(E, validator, h, bonding, amount) ==
    IF h \in DOMAIN E
    THEN E
    ELSE (h :> [validator |-> validator, bonding |-> bonding, amount |-> amount]) @@ E

\* unstake(validator, output_hash, now): remove the record; fails with
\* LockedStake, leaving the escrow as it was, while bonding_until > now.
UnstakeFails(E, h, now) == h \in DOMAIN E /\ E[h].bonding > now

Unstake(E, validator, h, now) ==
    IF UnstakeFails(E, h, now)
    THEN E
    ELSE Restrict(E, DOMAIN E \ {h})

\* Sum of all stakes of one validator.
StakeOf(E, v) == MapThenSumSet(LAMBDA h : E[h].amount, {h \in DOMAIN E : E[h].validator = v})

\* multiget(validators): the stake of every listed validator.
Multiget(E, validators) == [v \in validators |-> StakeOf(E, v)]

=============================================================================
