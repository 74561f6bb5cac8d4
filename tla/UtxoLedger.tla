----------------------------- MODULE UtxoLedger -----------------------------
(***************************************************************************)
(* What the chain promises its users, without blocks, indexes, Merkle      *)
(* trees, commitments or crashes: an append-only ledger of entries, each   *)
(* spending outputs that are unspent at that point and creating outputs    *)
(* that are not.  An entry with no inputs and no outputs stands for a key   *)
(* block.  Blockchain.tla is shown to implement this specification.        *)
(***************************************************************************)
EXTENDS Naturals, SequencesExt

CONSTANTS
    Outputs,   \* output hashes
    MaxIO      \* bound: inputs and outputs per entry

VARIABLE ledger   \* the sequence of entries [ins, outs]

\* The outputs left unspent by a ledger: fold its entries in order.
Unspent(l) == FoldLeft(LAMBDA u, e : (u \ ToSet(e.ins)) \cup ToSet(e.outs), {}, l)

NoRepeats(s) == \A i, j \in DOMAIN s : i # j => s[i] # s[j]

\* An entry may be appended when it spends only unspent outputs, once
\* each, and creates only outputs that are not unspent, once each.
Apply(ins, outs) ==
    /\ ledger' = Append(ledger, [ins |-> ins, outs |-> outs])
    /\ ToSet(ins) \subseteq Unspent(ledger)
    /\ ToSet(outs) \cap Unspent(ledger) = {}
    /\ NoRepeats(ins) /\ NoRepeats(outs)

Init == ledger = <<>>

Next == \E ins, outs \in BoundedSeq(Outputs, MaxIO) : Apply(ins, outs)

Spec == Init /\ [][Next]_ledger

=============================================================================
