------------------------------ MODULE CuModule ------------------------------
(***************************************************************************)
(* The lowered module every component shares: CuOp instructions, FuncMeta  *)
(* entries, the table and the type fingerprints (HostModule / DevModule),  *)
(* and the transfer rules by which verify_cuop moves the operand-stack     *)
(* height over one instruction.                                            *)
(*                                                                         *)
(* Opcodes that verify_cuop and run_instance treat alike are one name:     *)
(* "BINOP" is every two-operand ALU op that cannot trap, "DIV" the         *)
(* division and remainder ops, "UNOP" the tests, wraps and extensions,     *)
(* "MUL_WIDE" and "ARITH128" the 128-bit ops.  Array indices start at 0.   *)
(***************************************************************************)
EXTENDS Integers

Returns  == {"RETURN", "END_FUNC"}
Bulk     == {"MEMORY_COPY", "MEMORY_FILL", "MEMORY_INIT"}
PushOne  == {"I64_CONST", "LOCAL_GET", "GLOBAL_GET", "MEMORY_SIZE"}
Alu      == {"BINOP", "DIV", "UNOP", "MUL_WIDE", "ARITH128", "CLZ",
             "DROP", "SELECT"}
Control  == {"UNWIND", "BR", "BR_IF_NOT", "CALL", "RETURN_CALL",
             "UNREACHABLE", "CALL_HOST", "CALL_INDIRECT"} \cup Returns
KnownOps == PushOne \cup Alu \cup Control \cup Bulk
            \cup {"LOCAL_SET", "GLOBAL_SET", "LOAD", "STORE",
                  "MEMORY_GROW", "DATA_DROP"}

\* Table slots that hold no function; any index past the functions will do.
TABLE_NULL == 255

\* CALL_HOST packs its arity into the 16-bit field a: np | nr << 8.
HostParams(in)  == in.a % 256
HostResults(in) == (in.a \div 256) % 256

\* Slots of a function's frame below its operand stack.
NumLocals(f) == f.n_params + f.n_locals

\* The first and the one-past-last pc of a function, and whether it has code.
EndOf(f)   == f.code_off + f.code_len
HasCode(f) == f.code_len > 0

CuOp == [op : STRING, a : Nat, b : Nat]

FuncMeta == [code_off : Nat, code_len : Nat,
             n_params : Nat, n_results : Nat, n_locals : Nat]

\* A type fingerprint: the arities in the low two bytes, then two bits for each
\* parameter type and two for each result type.
Fingerprint == [np : Nat, nr : Nat, sig : Nat \X Nat]

\* The shape of a HostModule (sizes explicit, arrays as functions).
ModuleShape(m) ==
    /\ m.code_len \in Nat
    /\ m.code \in [0 .. m.code_len - 1 -> CuOp]
    /\ m.n_funcs \in Nat
    /\ m.funcs \in [0 .. m.n_funcs - 1 -> FuncMeta]
    /\ m.n_host_imports \in Nat
    /\ m.n_types \in Nat
    /\ m.type_fp \in [0 .. m.n_types - 1 -> Fingerprint]
    /\ m.func_typeidx \in [0 .. m.n_funcs - 1 -> Nat]
    /\ m.table_len \in Nat
    /\ m.table \in [0 .. m.table_len - 1 -> Nat]
    /\ m.n_consts \in Nat
    /\ m.consts \in [0 .. m.n_consts - 1 -> Nat]
    /\ m.n_globals \in Nat
    /\ m.n_data \in Nat
    /\ m.data_len \in [0 .. m.n_data - 1 -> Nat]

-----------------------------------------------------------------------------
(***************************************************************************)
(* verify_cuop's switch, one operator per question it answers about the    *)
(* instruction in at relative pc rel of function f with height h.          *)
(***************************************************************************)

PopOne  == {"LOCAL_SET", "GLOBAL_SET", "DROP", "UNOP", "CLZ", "LOAD",
            "MEMORY_GROW", "BR_IF_NOT"}
LoseOne == {"LOCAL_SET", "GLOBAL_SET", "DROP", "BINOP", "DIV", "BR_IF_NOT"}
NoFall  == {"BR", "RETURN_CALL", "UNREACHABLE"} \cup Returns

\* Operands that must be in range whatever the height is.
OperandsOk(m, f, in) ==
    /\ in.op \in KnownOps
    /\ in.op \in {"LOCAL_GET", "LOCAL_SET"} => in.a < NumLocals(f) % 65536
    /\ in.op = "I64_CONST" => in.b < m.n_consts
    /\ in.op \in {"BR", "BR_IF_NOT"} => in.b >= f.code_off /\ in.b < EndOf(f)
    /\ in.op \in {"CALL", "RETURN_CALL"} => in.b < m.n_funcs
    /\ in.op = "CALL_INDIRECT" => in.b < m.n_types
    /\ in.op = "UNWIND" => in.b >= NumLocals(f)

\* The height the instruction needs, below which verify_cuop reports underflow.
Need(m, f, in) ==
    IF in.op \in PopOne THEN 1
    ELSE IF in.op \in {"BINOP", "DIV", "MUL_WIDE", "STORE"} THEN 2
    ELSE IF in.op \in {"SELECT", "MEMORY_COPY", "MEMORY_FILL", "MEMORY_INIT"} THEN 3
    ELSE IF in.op = "ARITH128" THEN 4
    ELSE IF in.op = "UNWIND" THEN in.b - NumLocals(f)
    ELSE IF in.op \in {"CALL", "RETURN_CALL"} THEN m.funcs[in.b].n_params
    ELSE IF in.op \in Returns THEN f.n_results
    ELSE IF in.op = "CALL_HOST" THEN HostParams(in)
    ELSE IF in.op = "CALL_INDIRECT" THEN 1 + m.type_fp[in.b].np
    ELSE 0

\* next_h: the height after the instruction.
NextHeight(m, f, in, h) ==
    IF in.op \in PushOne THEN h + 1
    ELSE IF in.op \in LoseOne THEN h - 1
    ELSE IF in.op \in {"ARITH128", "SELECT", "STORE"} THEN h - 2
    ELSE IF in.op \in Bulk THEN h - 3
    ELSE IF in.op = "UNWIND" THEN in.b - NumLocals(f)
    ELSE IF in.op = "CALL"
         THEN h - m.funcs[in.b].n_params + m.funcs[in.b].n_results
    ELSE IF in.op = "CALL_HOST" THEN h - HostParams(in) + HostResults(in)
    ELSE IF in.op = "CALL_INDIRECT"
         THEN h - 1 - m.type_fp[in.b].np + m.type_fp[in.b].nr
    ELSE h

\* Relative pcs the verifier joins with next_h: branch target, fall-through.
Successors(f, in, rel) ==
    (IF in.op \in {"BR", "BR_IF_NOT"} THEN {in.b - f.code_off} ELSE {})
    \cup (IF in.op \in NoFall THEN {} ELSE {rel + 1})

\* The instruction may execute at height h.
Executable(m, f, in, h) == OperandsOk(m, f, in) /\ h >= Need(m, f, in)

-----------------------------------------------------------------------------
(***************************************************************************)
(* What acceptance means, stated without the worklist: an assignment of    *)
(* heights (-1: not reached) that starts at 0, executes every reached      *)
(* instruction and agrees along every edge.                                *)
(***************************************************************************)

Flows(m, f, hv, rel) ==
    LET in == m.code[f.code_off + rel]
    IN  /\ Executable(m, f, in, hv[rel])
        /\ \A s \in Successors(f, in, rel) :
              /\ s \in 0 .. f.code_len - 1
              /\ hv[s] = NextHeight(m, f, in, hv[rel])

ConsistentIn(m, f, hv) ==
    /\ hv[0] = 0
    /\ \A rel \in 0 .. f.code_len - 1 : hv[rel] >= 0 => Flows(m, f, hv, rel)

EndsInReturn(m, f) == m.code[EndOf(f) - 1].op \in Returns

\* The code of function i lies in the module, and only an import has none.
WellPlaced(m, i) ==
    /\ EndOf(m.funcs[i]) <= m.code_len
    /\ HasCode(m.funcs[i]) => EndsInReturn(m, m.funcs[i])
    /\ HasCode(m.funcs[i]) \/ i < m.n_host_imports

\* ht[i] gives function i consistent heights, for every function with code.
HeightsConsistent(m, ht) ==
    \A i \in 0 .. m.n_funcs - 1 :
        /\ WellPlaced(m, i)
        /\ HasCode(m.funcs[i]) =>
              /\ ht[i] \in [0 .. m.funcs[i].code_len - 1 -> Int]
              /\ ConsistentIn(m, m.funcs[i], ht[i])

-----------------------------------------------------------------------------
(***************************************************************************)
(* What translate_wasm and a valid Wasm module guarantee, and verify_cuop  *)
(* does not look at.                                                       *)
(***************************************************************************)

\* Instruction x of a function f: calls name functions with code, a branch keeps
\* only operands, a tail call returns what its caller returns.
WellLowered(m, f, x) ==
    /\ x.op \in {"CALL", "RETURN_CALL"} => HasCode(m.funcs[x.b])
    /\ x.op = "UNWIND" => x.a <= x.b - NumLocals(f)
    /\ x.op = "RETURN_CALL" => m.funcs[x.b].n_results = f.n_results

Lowered(m) ==
    /\ \A i \in 0 .. m.n_funcs - 1 :
          /\ \A rel \in 0 .. m.funcs[i].code_len - 1 :
                WellLowered(m, m.funcs[i], m.code[m.funcs[i].code_off + rel])
          /\ m.func_typeidx[i] < m.n_types =>
                /\ m.type_fp[m.func_typeidx[i]].np = m.funcs[i].n_params
                /\ m.type_fp[m.func_typeidx[i]].nr = m.funcs[i].n_results

\* No table entry is an import.
TableHasCode(m) ==
    \A k \in 0 .. m.table_len - 1 :
        m.table[k] < m.n_funcs => HasCode(m.funcs[m.table[k]])
=============================================================================
