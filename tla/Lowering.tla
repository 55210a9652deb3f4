------------------------------ MODULE Lowering ------------------------------
(***************************************************************************)
(* lower_operators (tools/src/lib.rs): one pass over the operators of a    *)
(* Wasm function that emits CuOps, follows the operand height h, keeps a   *)
(* control stack, and patches forward branches at the matching end.        *)
(*                                                                         *)
(* Each step reads one more operator, so every body over cur.ops is        *)
(* lowered.  A body ends at the function's end, and an if has at most one  *)
(* else.  In a valid module each operator read is one that Wasm validation *)
(* accepts: val is a reference validator, by arities.  The code has none.  *)
(* Operators that emit alike are one, as in CuModule.  val, hv and body    *)
(* are history variables.  pcs count from 0, so pc p is code[p + 1].       *)
(***************************************************************************)
EXTENDS Labels

VARIABLES
    inp,                  \* the module read: see Translate
    func_types,           \* [p, r]: the parameter and result types of each type
    func_typeidx,         \* type of each function, imports first
    host_fn_ids,          \* id of each import
    low,                  \* "idle"; "ops", reading operators; "err", returned Err
    cur,                  \* the function in work: see FuncStart
    code, consts,         \* emitted so far, for the whole module
    ctrl, h, dead,        \* control stack, height, in unreachable code
    brt,                  \* br_table in work: [i, ds], depths ds to lower from the i-th on
    body,                 \* history: the operators read
    val,                  \* history: the validator's height and frames
    hv                    \* history: the height at each pc, -1 where it is unreachable

ctx   == <<inp, func_types, func_typeidx, host_fn_ids, cur>>
lvars == <<low, code, consts, ctrl, h, dead, brt, body, val, hv>>

Cu(op, a, b) == [op |-> op, a |-> a, b |-> b]

-----------------------------------------------------------------------------
(***************************************************************************)
(* Operators that only emit and consume: what they emit, pop and push.     *)
(***************************************************************************)
Emits(cs, pops, pushes) == [k |-> "plain", code |-> cs, pops |-> pops, pushes |-> pushes]
Simple(op, pops, pushes) == Emits(<<Cu(op, 0, 0)>>, pops, pushes)

Nop      == Emits(<<>>, 0, 0)
StackOps == {Simple("DROP", 1, 0), Simple("SELECT", 3, 1)}
I32Ops   == {Simple("UNOP", 1, 1), Simple("BINOP", 2, 1), Simple("DIV", 2, 1)}
I64Ops   == {Simple("BINOP", 2, 1), Simple("DIV", 2, 1), Simple("UNOP", 1, 1)}
WideOps  == {Simple("MUL_WIDE", 2, 2), Simple("ARITH128", 4, 2)}
GlobalOps(b) == {Emits(<<Cu("GLOBAL_GET", 0, b)>>, 0, 1),
                 Emits(<<Cu("GLOBAL_SET", 0, b)>>, 1, 0)}
LocalOps(i) == {Emits(<<Cu("LOCAL_GET", i, 0)>>, 0, 1),
                Emits(<<Cu("LOCAL_SET", i, 0)>>, 1, 0)}
I64Tests == {Simple("BINOP", 2, 1), Simple("UNOP", 1, 1)}
Load(flags, off)   == Emits(<<Cu("LOAD", flags, off)>>, 1, 1)
\* Mutant: a store pops one operand.
StorePopsOne(nbytes, off) == Emits(<<Cu("STORE", nbytes, off)>>, 1, 0)

Store(nbytes, off) == Emits(<<Cu("STORE", nbytes, off)>>, 2, 0)
MemoryOps(seg) ==
    {Simple("MEMORY_SIZE", 0, 1), Simple("MEMORY_GROW", 1, 1),
     Simple("MEMORY_COPY", 3, 0), Simple("MEMORY_FILL", 3, 0),
     Emits(<<Cu("MEMORY_INIT", seg, 0)>>, 3, 0), Emits(<<Cu("DATA_DROP", seg, 0)>>, 0, 0)}
Clz(bits) == Emits(<<Cu("CLZ", bits, 0)>>, 1, 1)
FloatBits(nbytes, off) == {Load(nbytes, off), Store(nbytes, off), Emits(<<>>, 1, 1)}

-----------------------------------------------------------------------------
(***************************************************************************)
(* The reference validator: heights and frames of Wasm validation, by      *)
(* arity.  A frame has the height it starts at, whether its rest is        *)
(* unreachable (poly), and whether it was entered by reachable code.       *)
(***************************************************************************)
VTop == val.frames[Len(val.frames)]

\* Reachable according to validation.
Live == VTop.reach /\ ~ VTop.poly

CanPop(n) == val.h >= VTop.base + n \/ VTop.poly
Popped(n) == IF val.h >= VTop.base + n THEN val.h - n ELSE VTop.base

\* The operands at the end of a block are exactly n.
Exactly(n) == val.h = VTop.base + n \/ (VTop.poly /\ val.h <= VTop.base + n)

Typed(pops, pushes) == [h |-> Popped(pops) + pushes, frames |-> val.frames]
Enter(pops, np) ==
    [h |-> Popped(pops + np) + np,
     frames |-> Append(val.frames, [base |-> Popped(pops + np), poly |-> FALSE, reach |-> Live])]
Swap(np) ==
    [h |-> VTop.base + np,
     frames |-> [i \in 1 .. Len(val.frames) |->
        IF i < Len(val.frames) THEN val.frames[i]
        ELSE [base |-> VTop.base, poly |-> FALSE, reach |-> VTop.reach]]]
Leave(nr) ==
    [h |-> VTop.base + nr, frames |-> [i \in 1 .. Len(val.frames) - 1 |-> val.frames[i]]]
Cut ==
    [h |-> VTop.base,
     frames |-> [i \in 1 .. Len(val.frames) |->
        IF i < Len(val.frames) THEN val.frames[i]
        ELSE [base |-> VTop.base, poly |-> TRUE, reach |-> VTop.reach]]]

-----------------------------------------------------------------------------
Top == ctrl[Len(ctrl)]

\* resolve_br: the index of the label, 0 if there is none.
ResolveBr(d) == IF d < Len(ctrl) THEN Len(ctrl) - d ELSE 0

\* func_arity's condition, and its result (functions count from 0).
HasArity(f)  == f < Len(func_typeidx) /\ func_typeidx[f + 1] < Len(func_types)
Arity(t) == [np |-> Len(func_types[t + 1].p), nr |-> Len(func_types[t + 1].r)]
FuncArity(f) == Arity(func_typeidx[f + 1])

\* block_arity: an empty, an integer, a float or an indexed block type.
HasBlockArity(bt) == bt.k \in {"empty", "int"} \/ (bt.k = "type" /\ bt.t < Len(func_types))
BlockArity(bt) == IF bt.k = "type" THEN Arity(bt.t)
                  ELSE [np |-> 0, nr |-> IF bt.k = "int" THEN 1 ELSE 0]

Intern(v) == IF \E i \in 1 .. Len(consts) : consts[i] = v THEN consts ELSE Append(consts, v)
\* Mutant: the index of the last constant.
InternLast(v) == Len(Intern(v)) - 1

InternAt(v) == (CHOOSE i \in 1 .. Len(Intern(v)) : Intern(v)[i] = v) - 1

\* patch_b at every pc of ps.
Patch(ps, b) == [p \in 1 .. Len(code) |->
    IF p - 1 \in ps THEN Cu(code[p].op, code[p].a, b) ELSE code[p]]

Heights(hs) == IF Live THEN hs ELSE [i \in 1 .. Len(hs) |-> -1]
Emit(cs, hs) == code' = code \o cs /\ hv' = hv \o Heights(hs)

\* Err: what was emitted stays, everything else is dropped.
Fail(cs, ks) ==
    /\ low' = "err"
    /\ code' = code \o cs /\ hv' = hv \o [i \in 1 .. Len(cs) |-> -1]
    /\ consts' = ks
    /\ UNCHANGED <<ctrl, h, dead, brt, val>>

\* Mutant: no underflow check.
ShortNever(pops) == FALSE

\* consume's underflow, and the height it leaves.
Short(pops) == ~ dead /\ h < pops
Consumed(pops, pushes) == IF dead THEN h ELSE h - pops + pushes

\* Mutant: the parameters of a block stay outside it.
NewCtrlAbove(kind, start, br_if_not, np, nr, hh) ==
    [kind |-> kind, start |-> start, br_if_not |-> br_if_not, else_br |-> -1, patches |-> {},
     has_else |-> FALSE, base |-> IF dead THEN 0 ELSE hh, np |-> np, nr |-> nr,
     dead_on_entry |-> dead]

NewCtrl(kind, start, br_if_not, np, nr, hh) ==
    [kind |-> kind, start |-> start, br_if_not |-> br_if_not, else_br |-> -1, patches |-> {},
     has_else |-> FALSE, base |-> IF dead THEN 0 ELSE hh - np, np |-> np, nr |-> nr,
     dead_on_entry |-> dead]

(***************************************************************************)
(* emit_unwind and emit_jump to label i at height hh.                      *)
(***************************************************************************)
DestH(i) == ctrl[i].base + LabelArity(ctrl[i])
Underflows(i, hh) == ~ dead /\ hh < DestH(i)
Unwinds(i, hh) == ~ dead /\ hh > DestH(i)
JumpCode(i, hh) ==
    LET br == Cu("BR", 0, IF ctrl[i].kind = "loop" THEN ctrl[i].start ELSE 0)
    IN  IF Unwinds(i, hh)
        THEN <<Cu("UNWIND", LabelArity(ctrl[i]), cur.np + cur.nl + DestH(i)), br>>
        ELSE <<br>>
JumpHeights(i, hh) == IF Unwinds(i, hh) THEN <<hh, DestH(i)>> ELSE <<hh>>

\* ctrl with the jump that ends before pc p among the patches of label i.
Pending(i, p) ==
    IF ctrl[i].kind = "loop" THEN ctrl
    ELSE [j \in 1 .. Len(ctrl) |->
            IF j # i THEN ctrl[j]
            ELSE [kind |-> ctrl[j].kind, start |-> ctrl[j].start,
                  br_if_not |-> ctrl[j].br_if_not, else_br |-> ctrl[j].else_br,
                  patches |-> ctrl[j].patches \cup {p - 1}, has_else |-> ctrl[j].has_else,
                  base |-> ctrl[j].base, np |-> ctrl[j].np, nr |-> ctrl[j].nr,
                  dead_on_entry |-> ctrl[j].dead_on_entry]]

-----------------------------------------------------------------------------
(***************************************************************************)
(* One turn of the loop.  The next operator is o; if the module is valid,  *)
(* the validator agrees (ok).  Bound: cur.room operators, and o leaves     *)
(* room to close the blocks that are open after it.                        *)
(***************************************************************************)
Read(o, opens, ok) ==
    /\ low = "ops" /\ ctrl # <<>> /\ brt.ds = <<>>
    /\ Len(body) + Len(ctrl) + opens <= cur.room
    /\ Len(body) < Len(cur.pre) => o = cur.pre[Len(body) + 1]
    /\ inp.valid => ok
    /\ body' = Append(body, o)

LocalsOk(o) == \A j \in 1 .. Len(o.code) :
    o.code[j].op \in {"LOCAL_GET", "LOCAL_SET"} => o.code[j].a < cur.np + cur.locals

Plain(o) ==
    /\ o.k = "plain" /\ Read(o, 1, CanPop(o.pops) /\ LocalsOk(o))
    /\ IF Short(o.pops) THEN Fail(o.code, consts)
       ELSE /\ Emit(o.code, [j \in 1 .. Len(o.code) |-> h])
            /\ h' = Consumed(o.pops, o.pushes)
            /\ val' = Typed(o.pops, o.pushes)
            /\ UNCHANGED <<low, consts, ctrl, dead, brt>>

LocalTee(o) ==
    /\ o.k = "tee" /\ Read(o, 1, CanPop(1) /\ o.i < cur.np + cur.locals)
    /\ Emit(<<Cu("LOCAL_SET", o.i, 0), Cu("LOCAL_GET", o.i, 0)>>, <<h, h - 1>>)
    /\ val' = Typed(1, 1)
    /\ UNCHANGED <<low, consts, ctrl, h, dead, brt>>

Const(o) ==
    /\ o.k = "const" /\ Read(o, 1, TRUE)
    /\ consts' = Intern(o.v)
    /\ Emit(<<Cu("I64_CONST", 0, InternAt(o.v))>>, <<h>>)
    /\ h' = Consumed(0, 1)
    /\ val' = Typed(0, 1)
    /\ UNCHANGED <<low, ctrl, dead, brt>>

\* unreachable, and return of the function's results.
Stop(o) ==
    /\ o.k \in {"unreachable", "return"}
    /\ Read(o, 1, o.k = "return" => CanPop(cur.nr))
    /\ Emit(<<IF o.k = "return" THEN Cu("RETURN", cur.nr, 0) ELSE Cu("UNREACHABLE", 0, 0)>>, <<h>>)
    /\ dead' = TRUE
    /\ val' = Cut
    /\ UNCHANGED <<low, consts, ctrl, h, brt>>

\* An operator without a case, or one of a second memory or table.
Unsupported(o) ==
    /\ o.k = "unsupported" /\ Read(o, 1, TRUE)
    /\ Fail(<<>>, consts)

\* A block type the code refuses is valid, a type index out of range is not.
BlockTypeOk(bt) == bt.k = "type" => bt.t < Len(func_types)

Block(o) ==
    LET t == BlockArity(o.bt)
    IN  /\ o.k \in {"block", "loop"} /\ Read(o, 2, BlockTypeOk(o.bt) /\ CanPop(t.np))
        /\ IF ~ HasBlockArity(o.bt) THEN Fail(<<>>, consts)
           ELSE IF Short(t.np) THEN Fail(<<>>, consts)
           ELSE /\ ctrl' = Append(ctrl, NewCtrl(o.k, Len(code), -1, t.np, t.nr, h))
                /\ val' = Enter(0, t.np)
                /\ UNCHANGED <<low, code, consts, h, dead, brt, hv>>

If(o) ==
    LET t  == BlockArity(o.bt)
        br == Cu("BR_IF_NOT", 0, 0)
        h1 == Consumed(1, 0)
    IN  /\ o.k = "if" /\ Read(o, 2, BlockTypeOk(o.bt) /\ CanPop(1 + t.np))
        /\ IF ~ HasBlockArity(o.bt) THEN Fail(<<>>, consts)
           ELSE IF Short(1) THEN Fail(<<>>, consts)
           ELSE IF ~ dead /\ h1 < t.np THEN Fail(<<br>>, consts)
           ELSE /\ Emit(<<br>>, <<h>>)
                /\ h' = h1
                /\ ctrl' = Append(ctrl, NewCtrl("if", Len(code) + 1, Len(code), t.np, t.nr, h1))
                /\ val' = Enter(1, t.np)
                /\ UNCHANGED <<low, consts, dead, brt>>

\* else: the then arm jumps to the end, br_if_not comes here.
Else(o) ==
    /\ o.k = "else" /\ Read(o, 1, Top.kind = "if" /\ Exactly(Top.nr))
    /\ ~ Top.has_else
    /\ IF Top.kind # "if" THEN Fail(<<>>, consts)
       ELSE /\ code' = Append(Patch({Top.br_if_not}, Len(code) + 1), Cu("BR", 0, 0))
            /\ hv' = hv \o Heights(<<h>>)
            /\ ctrl' = [j \in 1 .. Len(ctrl) |->
                          IF j < Len(ctrl) THEN ctrl[j]
                          ELSE [kind |-> "if", start |-> Top.start, br_if_not |-> Top.br_if_not,
                                else_br |-> Len(code), patches |-> Top.patches,
                                has_else |-> TRUE, base |-> Top.base, np |-> Top.np,
                                nr |-> Top.nr, dead_on_entry |-> Top.dead_on_entry]]
            /\ h' = Top.base + Top.np
            /\ dead' = FALSE
            /\ val' = Swap(Top.np)
            /\ UNCHANGED <<low, consts, brt>>

\* end: forward branches come here; the function's end is an instruction.
End(o) ==
    /\ o.k = "end"
    /\ Read(o, 0, Exactly(Top.nr) /\ (Top.kind = "if" /\ ~ Top.has_else => Top.np = Top.nr))
    /\ Len(ctrl) = 1 /\ cur.scratch >= 0 => \E j \in 1 .. Len(body) : body[j].k = "br_table"
    /\ IF Top.kind = "func"
       THEN /\ code' = Append(Patch(Joins(Top), Len(code)), Cu("END_FUNC", cur.nr, 0))
            /\ hv' = Append(hv, cur.nr)
       ELSE code' = Patch(Joins(Top), Len(code)) /\ hv' = hv
    /\ ctrl' = [j \in 1 .. Len(ctrl) - 1 |-> ctrl[j]]
    /\ h' = Top.base + Top.nr
    /\ dead' = Top.dead_on_entry
    /\ val' = Leave(Top.nr)
    /\ UNCHANGED <<low, consts, brt>>

\* The body ends with blocks open.
Unclosed ==
    /\ low = "ops" /\ ~ inp.valid /\ ctrl # <<>> /\ brt.ds = <<>>
    /\ Fail(<<>>, consts)
    /\ UNCHANGED body

-----------------------------------------------------------------------------
\* Label d exists and, besides n more, its operands are there.
CanBranch(d, n) == d < Len(ctrl) /\ CanPop(n + LabelArity(ctrl[ResolveBr(d)]))

Br(o) ==
    LET i == ResolveBr(o.d)
    IN  /\ o.k = "br" /\ Read(o, 1, CanBranch(o.d, 0))
        /\ IF i = 0 THEN Fail(<<>>, consts)
           ELSE IF Underflows(i, h) THEN Fail(<<>>, consts)
           ELSE /\ Emit(JumpCode(i, h), JumpHeights(i, h))
                /\ ctrl' = Pending(i, Len(code) + Len(JumpCode(i, h)))
                /\ dead' = TRUE
                /\ val' = Cut
                /\ UNCHANGED <<low, consts, h, brt>>

\* A conditional jump to label i after the code cs at heights hs: br_if_not skips it.
JumpUnless(cs, hs, i, hh) ==
    LET past == Len(code) + Len(cs) + 1 + Len(JumpCode(i, hh))
    IN  /\ Emit(cs \o <<Cu("BR_IF_NOT", 0, past)>> \o JumpCode(i, hh),
                hs \o <<hh + 1>> \o JumpHeights(i, hh))
        /\ ctrl' = Pending(i, past)

BrIf(o) ==
    LET i  == ResolveBr(o.d)
        hh == Consumed(1, 0)
        br == Cu("BR_IF_NOT", 0, 0)
    IN  /\ o.k = "br_if" /\ Read(o, 1, CanBranch(o.d, 1))
        /\ IF Short(1) THEN Fail(<<>>, consts)
           ELSE IF i = 0 THEN Fail(<<br>>, consts)
           ELSE IF Underflows(i, hh) THEN Fail(<<br>>, consts)
           ELSE /\ JumpUnless(<<>>, <<>>, i, hh)
                /\ h' = hh
                /\ val' = Typed(1 + LabelArity(ctrl[i]), LabelArity(ctrl[i]))
                /\ UNCHANGED <<low, consts, dead, brt>>

(***************************************************************************)
(* br_table: the index is kept in a scratch local and compared with each   *)
(* position in turn; the last of o.ds is the default.                      *)
(***************************************************************************)
BrTable(o) ==
    LET set == Cu("LOCAL_SET", cur.scratch, 0)
    IN  /\ o.k = "br_table" /\ cur.scratch >= 0
        /\ Read(o, 1, \A j \in 1 .. Len(o.ds) :
                /\ CanBranch(o.ds[j], 1)
                /\ LabelArity(ctrl[ResolveBr(o.ds[j])]) = LabelArity(ctrl[ResolveBr(o.ds[1])]))
        /\ IF Short(1) THEN Fail(<<set>>, consts)
           ELSE /\ Emit(<<set>>, <<h>>)
                /\ h' = Consumed(1, 0)
                /\ brt' = [i |-> 0, ds |-> o.ds]
                /\ val' = Typed(1, 0)
                /\ UNCHANGED <<low, consts, ctrl, dead>>

BrTableTarget ==
    LET i  == ResolveBr(brt.ds[1])
        cs == <<Cu("LOCAL_GET", cur.scratch, 0), Cu("I64_CONST", 0, InternAt(brt.i)),
                Cu("BINOP", 0, 0)>>
        br == Cu("BR_IF_NOT", 0, 0)
    IN  /\ low = "ops" /\ Len(brt.ds) > 1
        /\ IF i = 0 THEN Fail(Append(cs, br), Intern(brt.i))
           ELSE IF Underflows(i, h) THEN Fail(Append(cs, br), Intern(brt.i))
           ELSE /\ JumpUnless(cs, <<h, h + 1, h + 2>>, i, h)
                /\ consts' = Intern(brt.i)
                /\ brt' = [i |-> brt.i + 1, ds |-> Tail(brt.ds)]
                /\ UNCHANGED <<low, h, dead, val>>
        /\ UNCHANGED body

BrTableDefault ==
    LET i == ResolveBr(brt.ds[1])
    IN  /\ low = "ops" /\ Len(brt.ds) = 1
        /\ IF i = 0 THEN Fail(<<>>, consts)
           ELSE IF Underflows(i, h) THEN Fail(<<>>, consts)
           ELSE /\ Emit(JumpCode(i, h), JumpHeights(i, h))
                /\ ctrl' = Pending(i, Len(code) + Len(JumpCode(i, h)))
                /\ dead' = TRUE
                /\ brt' = [i |-> 0, ds |-> <<>>]
                /\ val' = Cut
                /\ UNCHANGED <<low, consts, h>>
        /\ UNCHANGED body

-----------------------------------------------------------------------------
\* call: an import is a CALL_HOST that packs its arity.
Call(o) ==
    LET t  == FuncArity(o.f)
        op == IF o.f < Len(host_fn_ids)
              THEN Cu("CALL_HOST", t.np + 256 * t.nr, host_fn_ids[o.f + 1])
              ELSE Cu("CALL", 0, o.f)
    IN  /\ o.k = "call" /\ Read(o, 1, HasArity(o.f) /\ CanPop(t.np))
        /\ IF ~ HasArity(o.f) THEN Fail(<<>>, consts)
           ELSE IF Short(t.np) THEN Fail(<<op>>, consts)
           ELSE /\ Emit(<<op>>, <<h>>)
                /\ h' = Consumed(t.np, t.nr)
                /\ val' = Typed(t.np, t.nr)
                /\ UNCHANGED <<low, consts, ctrl, dead, brt>>

ReturnCall(o) ==
    LET t == FuncArity(o.f)
    IN  /\ o.k = "return_call"
        /\ Read(o, 1, HasArity(o.f) /\ CanPop(t.np) /\ t.nr = cur.nr)
        /\ IF o.f < Len(host_fn_ids) THEN Fail(<<>>, consts)
           ELSE /\ Emit(<<Cu("RETURN_CALL", 0, o.f)>>, <<h>>)
                /\ dead' = TRUE
                /\ val' = Cut
                /\ UNCHANGED <<low, consts, ctrl, h, brt>>

CallIndirect(o) ==
    LET t  == Arity(o.t)
        op == Cu("CALL_INDIRECT", 0, o.t)
    IN  /\ o.k = "call_indirect" /\ Read(o, 1, o.t < Len(func_types) /\ CanPop(1 + t.np))
        /\ IF o.t >= Len(func_types) THEN Fail(<<>>, consts)
           ELSE IF Short(1 + t.np) THEN Fail(<<op>>, consts)
           ELSE /\ Emit(<<op>>, <<h>>)
                /\ h' = Consumed(1 + t.np, t.nr)
                /\ val' = Typed(1 + t.np, t.nr)
                /\ UNCHANGED <<low, consts, ctrl, dead, brt>>

ReadOperator(o) ==
    \/ Plain(o) \/ LocalTee(o) \/ Const(o) \/ Stop(o) \/ Unsupported(o)
    \/ Block(o) \/ If(o) \/ Else(o) \/ End(o)
    \/ Br(o) \/ BrIf(o) \/ BrTable(o) \/ Call(o) \/ ReturnCall(o) \/ CallIndirect(o)

Lower ==
    \/ \E o \in cur.ops : ReadOperator(o)
    \/ BrTableTarget \/ BrTableDefault \/ Unclosed
=============================================================================
