--------------------------- MODULE MC_Blockchain ---------------------------
(* Model-checking instance of Blockchain: two payment outputs and one      *)
(* stake output of a single validator, blocks of at most one input and one *)
(* output, a chain of at most three blocks and a clock of two ticks, so    *)
(* that a stake can be spent both inside and after its bonding period.     *)
EXTENDS Blockchain

MC_Outputs == {"p1", "p2", "s1"}
MC_OutputKind == [o \in MC_Outputs |-> IF o = "s1" THEN "stake" ELSE "payment"]
MC_OutputAmount == [o \in MC_Outputs |-> IF o = "p2" THEN 2 ELSE 1]
MC_OutputGamma == [o \in MC_Outputs |-> IF o = "p1" THEN 1 ELSE IF o = "p2" THEN 2 ELSE 0]
MC_OutputValidator == [o \in MC_Outputs |-> "v1"]
MC_Validators == {"v1"}
====
