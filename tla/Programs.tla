------------------------------ MODULE Programs ------------------------------
(***************************************************************************)
(* A small assembler for the modules the model-checking runs execute, and  *)
(* the heights verify_cuop gives them.                                     *)
(***************************************************************************)
EXTENDS CuModule, Sequences, SequencesExt

Op(o, a, b) == [op |-> o, a |-> a, b |-> b]
O(o) == Op(o, 0, 0)
Const(v) == Op("I64_CONST", 0, v)
Get(n) == Op("LOCAL_GET", n, 0)
Set(n) == Op("LOCAL_SET", n, 0)
Host(np, nr) == Op("CALL_HOST", np + 256 * nr, 0)
End == O("END_FUNC")

Arr(s) == [i \in 0 .. Len(s) - 1 |-> s[i + 1]]

\* A function: branch targets in its code are relative to its start.
Func(np, nr, nl, code) == [np |-> np, nr |-> nr, nl |-> nl, code |-> code]

Reloc(x, off) ==
    IF x.op \in {"BR", "BR_IF_NOT"} THEN [x EXCEPT !.b = @ + off] ELSE x

\* The offset of the k-th function: the lengths of the codes before it.
Offset(fs, k) == FoldLeft(LAMBDA n, x : n + Len(x.code), 0, SubSeq(fs, 1, k - 1))

\* The fingerprint of np parameters and nr results of type i64 (tag 1).
I64s(np, nr) == <<(4^np - 1) \div 3, (4^nr - 1) \div 3>>

\* A module of functions fs, one type per arity (type of function i is i - 1),
\* consts 0 .. 3, one global and one data segment of one byte.
Assemble(imports, fs, table) ==
    LET code == FlattenSeq([k \in 1 .. Len(fs) |->
                    [j \in 1 .. Len(fs[k].code) |-> Reloc(fs[k].code[j], Offset(fs, k))]])
        sigs == [k \in 1 .. Len(fs) |-> [np |-> fs[k].np, nr |-> fs[k].nr, sig |-> I64s(fs[k].np, fs[k].nr)]]
    IN  [code |-> Arr(code), code_len |-> Len(code),
         funcs |-> Arr([k \in 1 .. Len(fs) |->
                     [code_off |-> IF fs[k].code = <<>> THEN 0 ELSE Offset(fs, k),
                      code_len |-> Len(fs[k].code),
                      n_params |-> fs[k].np, n_results |-> fs[k].nr,
                      n_locals |-> fs[k].nl]]),
         n_funcs |-> Len(fs), n_host_imports |-> imports,
         type_fp |-> Arr(sigs), n_types |-> Len(fs),
         func_typeidx |-> Arr([k \in 1 .. Len(fs) |-> k - 1]),
         table |-> Arr(table), table_len |-> Len(table),
         consts |-> Arr(<<0, 1, 2, 3>>), n_consts |-> 4, n_globals |-> 1,
         data_len |-> Arr(<<1>>), n_data |-> 1]

\* verify_cuop's heights, from the nearest predecessor before each pc.
HeightsOf(m, f) ==
    LET at(rel) == m.code[f.code_off + rel]
        before(rel) == {p \in 0 .. rel - 1 : rel \in Successors(f, at(p), p)}
        hv[rel \in 0 .. f.code_len - 1] ==
            IF rel = 0 THEN 0
            ELSE IF before(rel) = {} THEN -1
            ELSE NextHeight(m, f, at(Max(before(rel))), hv[Max(before(rel))])
    IN  hv

Verified(m) == [i \in 0 .. m.n_funcs - 1 |-> HeightsOf(m, m.funcs[i])]

Setup(m, exports, kind, cap, fcap, pages, max, budget, steps) ==
    [mod |-> m, ht |-> Verified(m), exports |-> exports, kind |-> kind,
     stack_cap |-> cap, frame_cap |-> fcap, mem_pages |-> pages, mem_max |-> max,
     fuel |-> budget, max_steps |-> steps]

-----------------------------------------------------------------------------
\* Arithmetic, locals and select; the division may trap.
Arith == Assemble(0, <<Func(2, 1, 1, <<Get(0), Get(1), O("DIV"), Set(2), Get(2),
             Get(0), Get(1), O("SELECT"), O("UNOP"), Const(1), O("BINOP"), End>>)>>, <<>>)

\* 128-bit arithmetic leaves two words.
WideArith == Assemble(0, <<Func(1, 1, 0, <<Get(0), Const(3), O("MUL_WIDE"),
                 Const(1), Const(0), O("ARITH128"), O("DROP"), End>>)>>, <<>>)

\* A loop with a conditional exit that keeps one of three operands.
Loop == Assemble(0, <<Func(1, 1, 0, <<Const(2), Get(0), Op("BR_IF_NOT", 0, 7),
            Const(1), Op("UNWIND", 1, 2), Set(0), Op("BR", 0, 0), Const(1), Const(3),
            Op("UNWIND", 1, 2), O("RETURN"), End>>)>>, <<>>)

\* Recursion with two locals: runs into FRAME_CAP or the stack's end.
Recursive == Assemble(0, <<Func(1, 1, 0, <<Const(2), Get(0), Op("CALL", 0, 1), O("BINOP"), End>>),
                 Func(1, 1, 1, <<Get(0), Op("BR_IF_NOT", 0, 5), Get(0), Op("CALL", 0, 1),
                       Set(1), Get(0), End>>)>>, <<>>)

\* Tail calls to functions with more and with fewer slots.
TailCalls == Assemble(0, <<Func(1, 1, 0, <<Const(3), Get(0), Op("CALL", 0, 1), O("BINOP"), End>>),
                 Func(1, 1, 0, <<Const(0), Const(1), Get(0), Op("RETURN_CALL", 0, 2)>>
                               \o <<End>>),
                 Func(2, 1, 1, <<Get(0), Op("BR_IF_NOT", 0, 4), Const(2),
                       Op("RETURN_CALL", 0, 1), Get(1), End>>)>>, <<>>)

\* A call and a tail call of a function whose locals do not fit the stack.
BigFrames == Assemble(0, <<Func(1, 1, 0, <<Get(0), Op("BR_IF_NOT", 0, 5), Const(1),
                 Op("CALL", 0, 1), O("RETURN"), Const(1), Op("RETURN_CALL", 0, 1), End>>),
                 Func(1, 1, 8, <<Get(0), End>>)>>, <<>>)

\* Host calls: one result, none, a result on a full stack, too many arguments.
HostCalls == Assemble(1, <<Func(1, 1, 0, <<>>),
                 Func(1, 1, 0, <<Const(1), Get(0), Host(2, 1), Host(1, 0), Host(0, 1),
                       Op("CALL", 0, 2), End>>),
                 Func(1, 1, 0, <<Get(0), Op("BR_IF_NOT", 0, 10), Const(0), Const(0), Const(0),
                       Const(0), Const(0), Const(0), Host(0, 1), O("UNREACHABLE"),
                       Const(0), Const(1), Const(2), Host(3, 0), Const(0), End>>)>>, <<>>)

\* Host calls as gpu_host_dispatch answers them, each with one result.
EnvCalls == Assemble(1, <<Func(1, 1, 0, <<>>),
                Func(1, 1, 0, <<Const(1), Get(0), Host(2, 1), Host(1, 1), Host(0, 1),
                      O("BINOP"), End>>)>>, <<>>)

\* An indirect call: a table entry of the type, one of another, an empty one.
Indirect == Assemble(0, <<Func(1, 1, 0, <<Const(1), Get(0), Op("CALL_INDIRECT", 0, 1), End>>),
                Func(1, 1, 2, <<Get(0), Set(2), Get(2), End>>),
                Func(0, 1, 0, <<Const(1), End>>)>>, <<1, 2, TABLE_NULL>>)

\* Memory: grow, size, accesses and bulk operations at the edge.
Memory == Assemble(0, <<Func(2, 1, 0, <<Get(0), O("MEMORY_GROW"), O("DROP"),
              Get(1), Op("LOAD", 1, 1), O("DROP"), Get(1), Get(0), Op("STORE", 2, 0),
              Get(1), Get(0), Const(1), O("MEMORY_COPY"), Get(1), Const(0), Get(0),
              O("MEMORY_FILL"), O("MEMORY_SIZE"), End>>)>>, <<>>)

\* Memory grown before a host call; its size is the result.
GrowHost == Assemble(1, <<Func(0, 1, 0, <<>>),
                Func(1, 1, 0, <<Get(0), O("MEMORY_GROW"), O("DROP"), Host(0, 1), O("DROP"),
                      O("MEMORY_SIZE"), End>>)>>, <<>>)

\* A table whose entry is an import of the type the call names.
ImportTable == Assemble(1, <<Func(1, 1, 0, <<>>),
                   Func(1, 1, 0, <<Get(0), Const(0), Op("CALL_INDIRECT", 0, 0), End>>)>>, <<0>>)

\* A host call whose result needs the eighth slot.
FullStack == Assemble(1, <<Func(0, 1, 0, <<>>),
                 Func(0, 1, 0, <<Const(1), Const(1), Const(1), Const(1), Const(1), Const(1),
                       Const(1), Host(0, 1), End>>)>>, <<>>)

\* memory.init before and after data.drop.
Segments == Assemble(0, <<Func(2, 0, 0, <<Const(0), Get(0), Get(1), Op("MEMORY_INIT", 0, 0),
                Op("DATA_DROP", 0, 0), Const(0), Const(0), Get(0), Op("MEMORY_INIT", 0, 0),
                Op("DATA_DROP", 1, 0), End>>)>>, <<>>)

\* Globals, one of them missing, and unreachable.
Globals == Assemble(0, <<Func(1, 0, 0, <<Get(0), Op("GLOBAL_SET", 0, 0),
               Op("GLOBAL_GET", 0, 0), Op("BR_IF_NOT", 0, 5), O("UNREACHABLE"),
               Op("GLOBAL_GET", 0, 1), O("DROP"), End>>)>>, <<>>)
=============================================================================
