------------------------------- MODULE Labels -------------------------------
(***************************************************************************)
(* What lower_operators (tools/src/lib.rs) works on, and what can be said  *)
(* of it without its state: the instructions it emits, the functions it    *)
(* finishes, and the entries of its control stack (Ctrl), called labels.   *)
(***************************************************************************)
EXTENDS CuModule, Sequences

\* Every instruction the lowering emits has an opcode the interpreter knows.
KnownOp == [op : KnownOps, a : Nat, b : Nat]
Branchy(x) == x.op \in {"BR", "BR_IF_NOT"}

FuncType == [p : Seq(Nat), r : Seq(Nat)]
MetaType == [code_off : Nat, code_len : Int, n_params : Nat, n_results : Nat, n_locals : Nat]

Label == [kind : {"func", "block", "loop", "if"}, start : Nat, br_if_not : Int, else_br : Int,
          patches : SUBSET Nat, has_else : BOOLEAN, base : Nat, np : Nat, nr : Nat,
          dead_on_entry : BOOLEAN]

\* label_arity: the operands a branch to c carries.
LabelArity(c) == IF c.kind = "loop" THEN c.np ELSE c.nr

\* The branches that the end of block c patches.
Joins(c) == c.patches \cup (IF c.kind # "if" THEN {}
                            ELSE IF c.has_else THEN {c.else_br} ELSE {c.br_if_not})

\* Label l, the i-th of a function at off, with n instructions emitted in all.
LabelOk(l, i, off, n) ==
    /\ l.kind = "func" <=> i = 1
    /\ l.start \in off .. n /\ \A p \in Joins(l) : p >= off

LabelsOk(ct, off, n) == \A i \in 1 .. Len(ct) : LabelOk(ct[i], i, off, n)

Waits(p, ct) == \E i \in 1 .. Len(ct) : p \in Joins(ct[i])

=============================================================================
