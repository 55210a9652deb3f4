----------------------------- MODULE Invariants -----------------------------
(***************************************************************************)
(* What holds between two steps of translate_wasm: the types of its state, *)
(* where branches go, that the lowering agrees with the validator, and     *)
(* what the C interface has handed over.                                   *)
(***************************************************************************)
EXTENDS Translate

\* The values of constants and of depths.
Word == Nat

CurType ==
    /\ cur.off \in Nat /\ cur.np \in Nat /\ cur.nr \in Nat /\ cur.nl \in Nat /\ cur.locals \in Nat
    /\ cur.scratch \in Int
    /\ \A o \in cur.ops : OperatorOk(o)

ModTypes ==
    /\ inp \in Modules /\ pos \in Nat \ {0}
    /\ func_types \in Seq(FuncType) /\ func_typeidx \in Seq(Nat) /\ host_fn_ids \in Seq(Nat)
    /\ funcs \in Seq(MetaType)

LowTypes ==
    /\ low \in {"idle", "ops", "err"}
    /\ code \in Seq(KnownOp) /\ consts \in Seq(Word)
    /\ ctrl \in Seq(Label) /\ h \in Nat

DeadType == dead \in BOOLEAN

TableTypes ==
    /\ brt.i \in Nat /\ brt.ds \in Seq(Nat)
    /\ brt.ds # <<>> => cur.scratch >= 0 /\ low # "idle" /\ ctrl # <<>>

Types == ModTypes /\ CurType /\ LowTypes /\ DeadType /\ TableTypes

\* Instruction x at pc p: a branch goes to one of off .. n, or waits.
BranchOk(x, p, ct, off, n) == Branchy(x) => x.b \in off .. n \/ Waits(p, ct)

BranchesOk(c, ct, off) ==
    \A p \in off .. Len(c) - 1 :
        BranchOk(c[p + 1], p, ct, off, IF ct = <<>> THEN Len(c) - 1 ELSE Len(c))

FuncOk(f, c, n) ==
    /\ f.code_len >= 0 /\ EndOf(f) <= n
    /\ \A p \in f.code_off .. EndOf(f) - 1 :
          Branchy(c[p + 1]) => c[p + 1].b \in f.code_off .. EndOf(f) - 1

FuncsOk(fs, c, n) == \A i \in 1 .. Len(fs) : FuncOk(fs[i], c, n)

Apart(fs) ==
    \A i, j \in 1 .. Len(fs) :
        i < j /\ HasCode(fs[i]) /\ HasCode(fs[j]) => EndOf(fs[i]) <= fs[j].code_off

\* Where the code of finished functions ends.
Done == IF low = "idle" THEN Len(code) ELSE cur.off

BranchInv ==
    /\ Apart(funcs) /\ FuncsOk(funcs, code, Done)
    /\ low # "idle" => cur.off <= Len(code)
    /\ low = "ops" => LabelsOk(ctrl, cur.off, Len(code)) /\ BranchesOk(code, ctrl, cur.off)

Frame == [base : Nat, poly : BOOLEAN, reach : BOOLEAN]

\* One of the first n labels is in the else arm of an if that is not reached.
Doomed(ct, n) == \E j \in 1 .. n : ct[j].has_else /\ ct[j].dead_on_entry

LiveIn(fr) == fr.reach /\ ~ fr.poly

\* Labels ct with height hh and dead d, frames fr with height vh, in a function with
\* nr results.
Agree(ct, fr, hh, d, vh, nr) ==
    /\ Len(fr) = Len(ct)
    /\ \A i, j \in 1 .. Len(ct) : i < j => (fr[j].reach => fr[i].reach) /\ fr[i].base <= fr[j].base
    /\ \A i \in 1 .. Len(ct) - 1 : fr[i + 1].reach <=> LiveIn(fr[i])
    /\ \A i \in 1 .. Len(ct) :
          /\ fr[i].reach => ~ ct[i].dead_on_entry /\ ct[i].base = fr[i].base
          /\ ~ fr[i].reach => ct[i].dead_on_entry \/ Doomed(ct, i - 1)
    /\ ct # <<>> =>
          /\ LiveIn(fr[Len(ct)]) => ~ d /\ hh = vh
          /\ ~ LiveIn(fr[Len(ct)]) => d \/ Doomed(ct, Len(ct))
          /\ ct[1].base = 0 /\ ct[1].nr = nr

-----------------------------------------------------------------------------
\* The function in work, in a valid module; labels a br_table still has to lower exist.
Agreed ==
    /\ val.h \in Nat /\ val.frames \in Seq(Frame) /\ (ctrl # <<>> => val.h >= VTop.base)
    /\ Agree(ctrl, val.frames, h, dead, val.h, cur.nr)
    /\ \A j \in 1 .. Len(brt.ds) : CanBranch(brt.ds[j], 0)

\* The operators read are ones of the body, and the validator agrees so far.
ValidInv ==
    /\ body \in Seq(cur.ops)
    /\ inp.valid /\ low = "ops" => Agreed
    /\ StubJustified

-----------------------------------------------------------------------------
(***************************************************************************)
(* The vectors of a translation, by what has become of it.                 *)
(***************************************************************************)
HeapInv ==
    /\ res \in {"parse", "ok", "err", "freed"}
    /\ res # "parse" => low = "idle"
    /\ res = "parse" => heap = {}
    /\ inp.valid /\ res = "ok" => Len(funcs) = Len(func_typeidx) /\ heap \in {{}, Handed}
    /\ res = "err" => heap \subseteq {<<"err", 1>>}
    /\ inp.valid /\ res = "freed" => heap = {}

=============================================================================
