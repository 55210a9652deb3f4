---------------------------- MODULE MCTranslate -----------------------------
(***************************************************************************)
(* Valid modules with every body over small alphabets of operators, one of *)
(* all sections; bodies that are not valid; modules with a refused entry.  *)
(***************************************************************************)
EXTENDS Semantics

O(k) == [k |-> k]
K(v) == [k |-> "const", v |-> v]
Get(i) == Emits(<<Cu("LOCAL_GET", i, 0)>>, 0, 1)
Drop == Simple("DROP", 1, 0)
Empty == [k |-> "empty"]
Value == [k |-> "int"]
Float == [k |-> "float"]
Ty(t) == [k |-> "type", t |-> t]
Open(k, bt) == [k |-> k, bt |-> bt]
Jump(k, d) == [k |-> k, d |-> d]
Jumps(ds) == [k |-> "br_table", ds |-> ds]
Calls(k, f) == [k |-> k, f |-> f]

Type(np, nr) == [sec |-> "type", p |-> [i \in 1 .. np |-> 1], r |-> [i \in 1 .. nr |-> 1]]
Fn(t) == [sec |-> "function", t |-> t]
Code(locals, ops, room, pre) ==
    [sec |-> "code", ok |-> TRUE, locals |-> locals, room |-> room, pre |-> pre,
     ops |-> ops \cup {O("end")} \cup {pre[i] : i \in 1 .. Len(pre)}]

Small == Code(0, {}, 2, <<K(1), O("end")>>)

\* A function of one parameter, one local and one result, behind a small one; type 1
\* is (1, 1), type 2 is (2, 1).
One(ops, room, pre) ==
    [valid |-> TRUE, items |-> <<Type(0, 1), Type(1, 1), Type(2, 1), Fn(0), Fn(1), Small,
                                 Code(1, ops, room, pre)>>]

\* Every body of seven operators.
Flow == {K(0), Get(0), Drop, O("else"), O("return")}
        \cup {Open("block", bt) : bt \in {Empty, Ty(1)}} \cup {Open("if", bt) : bt \in {Empty, Value}}
        \cup {Open("loop", Empty)} \cup {Jump(k, d) : k \in {"br", "br_if"}, d \in 0 .. 1}
        \cup {Jumps(<<0, 1>>)}

\* A loop with two parameters, over an operand; a br_table out of three blocks that
\* keeps one of the operands above them.
InLoop == <<K(1), K(0), Get(0), Open("loop", Ty(2))>>
LoopOps == {K(0), Get(0), Drop, Simple("BINOP", 2, 1), [k |-> "tee", i |-> 1], O("else"),
            Emits(<<Cu("LOCAL_SET", 0, 0)>>, 1, 0), Open("if", Ty(1)), Open("if", Empty)}
           \cup {Jump(k, d) : k \in {"br", "br_if"}, d \in 0 .. 2}
InBlocks == <<K(0), Open("block", Value), K(1), Open("block", Value), K(0), K(1), Get(0)>>
TableOps == {K(0), Drop, O("return"), Simple("UNOP", 1, 1), Jump("br_if", 1)}
            \cup {Jumps(ds) : ds \in {<<0, 1, 2>>, <<1, 1>>, <<2>>}} \cup {Jump("br", d) : d \in 0 .. 2}

\* Every operator, on four operands, in a module with all sections.
OnFour == <<K(0), K(1), K(0), K(1)>>
AllOps == StackOps \cup I32Ops \cup I64Ops \cup I64Tests \cup WideOps \cup GlobalOps(0)
          \cup LocalOps(1) \cup MemoryOps(0) \cup FloatBits(4, 1)
          \cup {Nop, Load(1, 0), Store(8, 1), Clz(32), K(2), O("unsupported"), O("unreachable"),
                O("return"), [k |-> "tee", i |-> 0], [k |-> "call_indirect", t |-> 1],
                Open("block", Float)}
          \cup {Calls(k, f) : k \in {"call", "return_call"}, f \in 0 .. 2}
C(v) == [k |-> "const", v |-> v]
Expr(a, b) == <<C(a), C(b), O("mul"), C(1), O("sub"), C(1), O("add"), O("end")>>
Data(active, off, len) == [sec |-> "data", ok |-> TRUE, active |-> active, off |-> off, len |-> len]
Elem(off, idxs) == [sec |-> "elem", ok |-> TRUE, off |-> off, idxs |-> idxs]
Linked ==
    <<Type(2, 1), Type(1, 1), [sec |-> "import", ok |-> TRUE, t |-> 0, id |-> 7], Fn(1), Fn(0),
      [sec |-> "table", ok |-> TRUE, len |-> 3], [sec |-> "memory", ok |-> TRUE, min |-> 1, max |-> 5],
      [sec |-> "global", ok |-> TRUE], [sec |-> "export", func |-> TRUE, f |-> 1],
      [sec |-> "export", func |-> FALSE, f |-> 0],
      Elem(Expr(4, 4), <<1, 2>>), Elem(<<C(1)>>, <<TABLE_NULL, 1>>)>>
Segments == <<Data(TRUE, Expr(1, 1), 1), Data(FALSE, <<>>, 2)>>

\* Bodies that are nested but not valid.
Loose == {K(0), Drop, O("else"), Open("block", Ty(1)), Open("block", Ty(3)), Open("if", Ty(1)),
          Jump("br", 0), Jump("br_if", 2), Jumps(<<1, 2>>), Calls("call", 0), Calls("call", 2),
          Calls("return_call", 2), [k |-> "call_indirect", t |-> 1], [k |-> "call_indirect", t |-> 2]}

\* Entries translate_wasm refuses.
Refused ==
    {[sec |-> "type", p |-> <<4>>, r |-> <<>>], Type(9, 0), [sec |-> "start"],
     [sec |-> "import", ok |-> FALSE, t |-> 0, id |-> 0], [sec |-> "import", ok |-> TRUE, t |-> 3, id |-> 0],
     [sec |-> "memory", ok |-> FALSE, min |-> 0, max |-> 0], [sec |-> "memory", ok |-> TRUE, min |-> 3, max |-> -1],
     [sec |-> "table", ok |-> TRUE, len |-> 4], [sec |-> "global", ok |-> FALSE],
     Elem(<<C(0), O("add")>>, <<>>), Elem(<<>>, <<0>>), Elem(<<C(-1)>>, <<0>>),
     Data(TRUE, <<C(15)>>, 2), [Code(0, {}, 1, <<>>) EXCEPT !.locals = 65536], Small}

AllModules ==
    {One(Flow, 7, <<>>), One(LoopOps, 9, InLoop), One(TableOps, 13, InBlocks),
     [valid |-> TRUE, items |-> Linked \o <<Code(1, AllOps, 7, OnFour), Small>> \o Segments],
     [valid |-> FALSE, items |-> <<Type(1, 1), Type(0, 0), Fn(0), Fn(1), Code(0, Loose, 5, <<>>), Small>>],
     [valid |-> FALSE, items |-> <<>>]}
    \cup {[valid |-> FALSE, items |-> <<Type(0, 1), Fn(0), x, Small>>] : x \in Refused}

MCModules == AllModules

\* A branch in the else arm of an unreachable if, out of a block over an operand.
DeadElse == {One({Drop}, 10, <<K(1), Open("block", Empty), Jump("br", 0), Open("if", Empty), O("else"),
                               Jump("br", 1), O("end"), O("end")>>)}
=============================================================================
