----------------------------- MODULE Translate ------------------------------
(***************************************************************************)
(* translate_wasm (tools/src/lib.rs): the sections of a Wasm module in     *)
(* order, each function body lowered as its code entry is read, then the   *)
(* segments placed and the HostModule built; and the C interface that      *)
(* hands its vectors to the C++ side and frees them.                       *)
(*                                                                         *)
(* A module is [valid, items]: what the parser yields, entry by entry.     *)
(* ok is FALSE for an entry of a kind the code refuses (or cannot read).   *)
(* If valid, every entry is one that Wasm validation accepts where it is   *)
(* read: see the second argument of Entry.                                 *)
(* heap is the allocator's view of the vectors handed out.                 *)
(***************************************************************************)
EXTENDS Lowering

CONSTANTS
    Modules,              \* the modules to translate
    WASM_PAGE,            \* bytes in a page
    CUWASM_MEM_MAX_PAGES, \* most pages of a memory
    TABLE_MAX,            \* most entries of a table (1024)
    WORD32                \* number of i32 values

(***************************************************************************)
(* What the parser can yield: operators of the shapes lower_operators      *)
(* matches on, entries with fields of the right kind.                      *)
(***************************************************************************)
PlainOperator(o) ==
    \/ o \in {Nop, Emits(<<>>, 1, 1)} \cup StackOps \cup I32Ops \cup I64Ops \cup WideOps \cup I64Tests
    \/ /\ o.k = "plain" /\ o.code # <<>>
       /\ LET x == o.code[1]
          IN  /\ x.a \in Nat /\ x.b \in Nat
              /\ o \in GlobalOps(x.b) \cup LocalOps(x.a) \cup MemoryOps(x.a)
                       \cup {Load(x.a, x.b), Store(x.a, x.b), Clz(x.a)}

OperatorOk(o) ==
    \/ PlainOperator(o)
    \/ o.k = "tee" /\ o.i \in Nat
    \/ o.k = "const" /\ o.v \in Nat
    \/ o.k \in {"unreachable", "return", "unsupported", "else", "end"}
    \/ /\ o.k \in {"block", "loop", "if"}
       /\ o.bt.k \in {"empty", "int", "float"} \/ (o.bt.k = "type" /\ o.bt.t \in Nat)
    \/ o.k \in {"br", "br_if"} /\ o.d \in Nat
    \/ o.k = "br_table" /\ o.ds \in Seq(Nat) /\ o.ds # <<>>
    \/ o.k \in {"call", "return_call"} /\ o.f \in Nat
    \/ o.k = "call_indirect" /\ o.t \in Nat

ItemOk(it) ==
    /\ it.sec = "type" => it.p \in Seq(Nat) /\ it.r \in Seq(Nat)
    /\ it.sec \in {"function", "import"} => it.t \in Nat
    /\ it.sec = "import" => it.id \in Nat
    /\ it.sec = "code" => it.locals \in Nat /\ \A o \in it.ops : OperatorOk(o)

ASSUME ModulesAssumption ==
    \A m \in Modules :
        /\ m.valid \in BOOLEAN /\ Len(m.items) \in Nat
        /\ \A i \in 1 .. Len(m.items) : ItemOk(m.items[i])

VARIABLES
    pos,                  \* next item of the module
    funcs, exports, n_globals, table,
    mem,                  \* memory section: [has, min, max], max -1 if not given
    pending_data, pending_elem,
    res,                  \* "parse", "ok", "err"; "out", handed over; "freed"
    heap                  \* vectors allocated for the caller: <<field, length>>

tvars == <<pos, funcs, exports, n_globals, table, mem, pending_data, pending_elem, res, heap>>
vars  == <<ctx, lvars, tvars>>

NoFunc == [off |-> 0, np |-> 0, nr |-> 0, nl |-> 0, locals |-> 0, scratch |-> -1,
           ops |-> {}, room |-> 0, pre |-> <<>>]

Init ==
    /\ inp \in Modules
    /\ pos = 1
    /\ func_types = <<>> /\ func_typeidx = <<>> /\ host_fn_ids = <<>>
    /\ funcs = <<>> /\ exports = <<>> /\ n_globals = 0 /\ table = <<>>
    /\ mem = [has |-> FALSE, min |-> 0, max |-> -1]
    /\ pending_data = <<>> /\ pending_elem = <<>>
    /\ low = "idle" /\ cur = NoFunc /\ code = <<>> /\ consts = <<>>
    /\ ctrl = <<>> /\ h = 0 /\ dead = FALSE /\ brt = [i |-> 0, ds |-> <<>>]
    /\ body = <<>> /\ val = [h |-> 0, frames |-> <<>>] /\ hv = <<>>
    /\ res = "parse" /\ heap = {}

-----------------------------------------------------------------------------
Item == inp.items[pos]

\* The next entry belongs to section sec; if the module is valid, ok holds.
Entry(sec, ok) ==
    /\ res = "parse" /\ low = "idle" /\ pos <= Len(inp.items)
    /\ Item.sec = sec
    /\ inp.valid => ok
    /\ pos' = pos + 1

\* Imports come first, then functions, then code.
NoFunctions == Len(func_typeidx) = Len(host_fn_ids)
NoCode == Len(funcs) = Len(host_fn_ids)

\* The entry is taken if ok holds, else translate_wasm returns Err.
Accept(ok) == res' = IF ok THEN "parse" ELSE "err"

\* only_int: tags 0 .. 3 are i32, i64, f32, f64.
OnlyInt(ts) == \A i \in 1 .. Len(ts) : ts[i] \in 0 .. 3

TypeEntry ==
    /\ Entry("type", TRUE)
    /\ Accept(OnlyInt(Item.p) /\ OnlyInt(Item.r))
    /\ func_types' = Append(func_types, [p |-> Item.p, r |-> Item.r])
    /\ UNCHANGED <<inp, func_typeidx, host_fn_ids, cur, lvars, funcs, exports, n_globals, table,
                   mem, pending_data, pending_elem, heap>>

FunctionEntry ==
    /\ Entry("function", NoCode /\ Item.t < Len(func_types))
    /\ func_typeidx' = Append(func_typeidx, Item.t)
    /\ UNCHANGED <<inp, func_types, host_fn_ids, cur, lvars, funcs, exports, n_globals, table,
                   mem, pending_data, pending_elem, res, heap>>

\* An import: a function whose name has an id (ok), of a type that exists.
ImportEntry ==
    /\ Entry("import", NoFunctions)
    /\ Accept(Item.ok /\ Item.t < Len(func_types))
    /\ IF res' = "err" THEN UNCHANGED <<func_typeidx, host_fn_ids, funcs>>
       ELSE /\ func_typeidx' = Append(func_typeidx, Item.t)
            /\ host_fn_ids' = Append(host_fn_ids, Item.id)
            /\ funcs' = Append(funcs, [code_off |-> 0, code_len |-> 0, n_params |-> Arity(Item.t).np,
                                       n_results |-> Arity(Item.t).nr, n_locals |-> 0])
    /\ UNCHANGED <<inp, func_types, cur, lvars, exports, n_globals, table, mem, pending_data,
                   pending_elem, heap>>

MemoryEntry ==
    /\ Entry("memory", TRUE)
    /\ Accept(Item.ok /\ ~ mem.has)
    /\ mem' = [has |-> TRUE, min |-> Item.min, max |-> Item.max]
    /\ UNCHANGED <<ctx, lvars, funcs, exports, n_globals, table, pending_data, pending_elem, heap>>

TableEntry ==
    /\ Entry("table", TRUE)
    /\ Accept(table = <<>> /\ Item.ok /\ Item.len <= TABLE_MAX)
    /\ table' = [i \in 1 .. Item.len |-> TABLE_NULL]
    /\ UNCHANGED <<ctx, lvars, funcs, exports, n_globals, mem, pending_data, pending_elem, heap>>

(***************************************************************************)
(* eval_i32_expr: a stack of i32 with wrapping arithmetic; the value as a  *)
(* u32, or -1 for Err.                                                     *)
(***************************************************************************)
Wrap(op, a, b) == (IF op = "add" THEN a + b ELSE IF op = "sub" THEN a - b ELSE a * b) % WORD32

EvalI32(e) ==
    LET Err == <<-1>>
        st[n \in 0 .. Len(e)] ==
            IF n = 0 THEN <<>>
            ELSE LET s == st[n - 1]
                     op == e[n]
                 IN  IF s = Err THEN Err
                     ELSE IF op.k = "const" THEN <<op.v % WORD32>> \o s
                     ELSE IF op.k = "end" THEN s
                     ELSE IF op.k \in {"add", "sub", "mul"} /\ Len(s) >= 2
                     THEN <<Wrap(op.k, s[2], s[1])>> \o Tail(Tail(s))
                     ELSE Err
    IN  IF st[Len(e)] = <<>> THEN -1 ELSE st[Len(e)][1]

\* An active segment of function indices (RefNull is TABLE_NULL).
ElemEntry ==
    /\ Entry("elem", TRUE)
    /\ Accept(Item.ok /\ EvalI32(Item.off) >= 0)
    /\ pending_elem' = Append(pending_elem, [off |-> EvalI32(Item.off), idxs |-> Item.idxs])
    /\ UNCHANGED <<ctx, lvars, funcs, exports, n_globals, table, mem, pending_data, heap>>

DataEntry ==
    /\ Entry("data", TRUE)
    /\ Accept(Item.active => Item.ok /\ EvalI32(Item.off) >= 0)
    /\ pending_data' = Append(pending_data,
          [active |-> Item.active, off |-> IF Item.active THEN EvalI32(Item.off) ELSE 0,
           len |-> Item.len])
    /\ UNCHANGED <<ctx, lvars, funcs, exports, n_globals, table, mem, pending_elem, heap>>

GlobalEntry ==
    /\ Entry("global", TRUE)
    /\ Accept(Item.ok)
    /\ n_globals' = n_globals + 1
    /\ UNCHANGED <<ctx, lvars, funcs, exports, table, mem, pending_data, pending_elem, heap>>

\* Only functions are exported.
ExportEntry ==
    /\ Entry("export", TRUE)
    /\ exports' = IF Item.func THEN Append(exports, Item.f) ELSE exports
    /\ UNCHANGED <<ctx, lvars, funcs, n_globals, table, mem, pending_data, pending_elem, res, heap>>

StartEntry ==
    /\ Entry("start", TRUE)
    /\ Accept(FALSE)
    /\ UNCHANGED <<ctx, lvars, funcs, exports, n_globals, table, mem, pending_data, pending_elem,
                   heap>>

-----------------------------------------------------------------------------
\* The next body can be lowered: it has a type, its locals fit a u16.
CodeOk == Item.ok /\ HasArity(Len(funcs)) /\ Item.locals <= 65535

CodeRefused ==
    /\ Entry("code", TRUE) /\ ~ CodeOk
    /\ Accept(FALSE)
    /\ UNCHANGED <<ctx, lvars, funcs, exports, n_globals, table, mem, pending_data, pending_elem,
                   heap>>

\* lower_operators starts; a body with a br_table (has) gets a scratch local.
FuncStart(has) ==
    LET t  == FuncArity(Len(funcs))
        nl == IF has /\ Item.locals < 65535 THEN Item.locals + 1 ELSE Item.locals
    IN  /\ Entry("code", t.np + Item.locals < 65535) /\ CodeOk
        /\ has => \E o \in Item.ops : o.k = "br_table"
        /\ low' = "ops"
        /\ cur' = [off |-> Len(code), np |-> t.np, nr |-> t.nr, nl |-> nl, locals |-> Item.locals,
                   scratch |-> IF has THEN t.np + nl - 1 ELSE -1,
                   ops |-> Item.ops, room |-> Item.room, pre |-> Item.pre]
        /\ ctrl' = <<[kind |-> "func", start |-> Len(code), br_if_not |-> -1, else_br |-> -1,
                      patches |-> {}, has_else |-> FALSE, base |-> 0, np |-> 0, nr |-> t.nr,
                      dead_on_entry |-> FALSE]>>
        /\ h' = 0 /\ dead' = FALSE
        /\ body' = <<>>
        /\ val' = [h |-> 0, frames |-> <<[base |-> 0, poly |-> FALSE, reach |-> TRUE]>>]
        /\ UNCHANGED <<inp, func_types, func_typeidx, host_fn_ids, code, consts, brt, hv>>
        /\ UNCHANGED <<funcs, exports, n_globals, table, mem, pending_data, pending_elem, res, heap>>

\* Mutant: the end of the code for its length.
MetaEnd(off, len, nl) == [code_off |-> off, code_len |-> off + len, n_params |-> cur.np,
                          n_results |-> cur.nr, n_locals |-> nl]

Meta(off, len, nl) == [code_off |-> off, code_len |-> len, n_params |-> cur.np,
                       n_results |-> cur.nr, n_locals |-> nl]

FuncDone ==
    /\ low = "ops" /\ ctrl = <<>>
    /\ low' = "idle"
    /\ funcs' = Append(funcs, Meta(cur.off, Len(code) - cur.off, cur.nl))
    /\ UNCHANGED <<ctx, code, consts, ctrl, h, dead, brt, body, val, hv>>
    /\ UNCHANGED <<pos, exports, n_globals, table, mem, pending_data, pending_elem, res, heap>>

\* lower_operators returned Err: the function becomes a trap behind what it emitted.
FuncStub ==
    /\ low = "err"
    /\ low' = "idle"
    /\ code' = code \o <<Cu("UNREACHABLE", 0, 0), Cu("END_FUNC", cur.nr, 0)>>
    /\ hv' = hv \o <<0, -1>>
    /\ funcs' = Append(funcs, Meta(Len(code), 2, 0))
    /\ brt' = [i |-> 0, ds |-> <<>>]
    /\ UNCHANGED <<ctx, consts, ctrl, h, dead, body, val>>
    /\ UNCHANGED <<pos, exports, n_globals, table, mem, pending_data, pending_elem, res, heap>>

-----------------------------------------------------------------------------
CapPages == IF mem.max \in 0 .. CUWASM_MEM_MAX_PAGES THEN mem.max ELSE CUWASM_MEM_MAX_PAGES
MemMax  == IF mem.has THEN CapPages * WASM_PAGE ELSE 0
MemSize == IF mem.has THEN mem.min * WASM_PAGE ELSE 0

\* type_fingerprint: the arities, and two bits for each parameter and each result.
Lane(ts) == LET bits[i \in 0 .. Len(ts)] == IF i = 0 THEN 0 ELSE bits[i - 1] + ts[i] * 4^(i - 1)
            IN  bits[Len(ts)]
TypeFingerprint(t) == [np |-> Len(t.p), nr |-> Len(t.r), sig |-> <<Lane(t.p), Lane(t.r)>>]

DataFits(d) == d.active => d.off + d.len <= MemSize
ElemFits(e) == \A i \in 1 .. Len(e.idxs) : e.off + i <= Len(table)

\* The table after the first n element segments, in order.
Filled(n) ==
    LET tab[k \in 0 .. n] ==
            IF k = 0 THEN table
            ELSE [s \in 1 .. Len(table) |->
                    IF s - pending_elem[k].off \in 1 .. Len(pending_elem[k].idxs)
                    THEN pending_elem[k].idxs[s - pending_elem[k].off] ELSE tab[k - 1][s]]
    IN  tab[n]

\* After the last entry (a valid module has a body for each function): fingerprints,
\* memory, data and element segments.
Finish ==
    /\ res = "parse" /\ low = "idle" /\ pos > Len(inp.items)
    /\ inp.valid => Len(funcs) = Len(func_typeidx)
    /\ IF /\ \A i \in 1 .. Len(func_types) : Len(func_types[i].p) <= 8 /\ Len(func_types[i].r) <= 8
          /\ mem.has => mem.min <= CapPages
          /\ \A i \in 1 .. Len(pending_data) : DataFits(pending_data[i])
          /\ \A i \in 1 .. Len(pending_elem) : ElemFits(pending_elem[i])
          /\ funcs # <<>>
       THEN res' = "ok" /\ table' = Filled(Len(pending_elem))
       ELSE res' = "err" /\ UNCHANGED table
    /\ UNCHANGED <<ctx, lvars, pos, funcs, exports, n_globals, mem, pending_data, pending_elem, heap>>

(***************************************************************************)
(* The C interface.  TranslateOut has one count for vectors of one length. *)
(***************************************************************************)
BlobLen == LET sum[k \in 0 .. Len(pending_data)] ==
                   IF k = 0 THEN 0 ELSE sum[k - 1] + pending_data[k].len
           IN  sum[Len(pending_data)]

\* vec_to_raw of every vector of the HostModule, by the field it goes to.
Handed ==
    {<<"code", Len(code)>>, <<"consts", Len(consts)>>, <<"funcs", Len(funcs)>>,
     <<"globals", n_globals>>, <<"memory", MemMax>>, <<"data_blob", BlobLen>>,
     <<"table", Len(table)>>, <<"func_typeidx", Len(func_typeidx)>>,
     <<"type_fp", Len(func_types)>>, <<"host_fn_id", Len(host_fn_ids)>>}
    \cup {<<f, Len(exports)>> : f \in {"export_names", "export_idxs"}}
    \cup {<<f, Len(pending_data)>> : f \in {"data_off", "data_len", "data_live"}}
    \cup {<<f, Len(host_fn_ids)>> : f \in {"host_import_mod", "host_import_name", "host_import_env"}}

\* Mutant: the memory is freed by its size.
GivenBackMemSize == (Handed \ {<<"memory", MemMax>>}) \cup {<<"memory", MemSize>>, <<"err", 1>>}

\* What cuwasm_translate_free gives back, by the counts of TranslateOut.
GivenBack ==
    {<<"code", Len(code)>>, <<"consts", Len(consts)>>, <<"funcs", Len(funcs)>>,
     <<"globals", n_globals>>, <<"memory", MemMax>>, <<"data_blob", BlobLen>>,
     <<"table", Len(table)>>, <<"func_typeidx", Len(funcs)>>,
     <<"type_fp", Len(func_types)>>, <<"host_fn_id", Len(host_fn_ids)>>, <<"err", 1>>}
    \cup {<<f, Len(exports)>> : f \in {"export_names", "export_idxs"}}
    \cup {<<f, Len(pending_data)>> : f \in {"data_off", "data_len", "data_live"}}
    \cup {<<f, Len(host_fn_ids)>> : f \in {"host_import_mod", "host_import_name", "host_import_env"}}

HandOver ==
    /\ res \in {"ok", "err"} /\ heap = {}
    /\ heap' = IF res = "ok" THEN Handed ELSE {<<"err", 1>>}
    /\ UNCHANGED <<ctx, lvars, pos, funcs, exports, n_globals, table, mem, pending_data,
                   pending_elem, res>>

Free ==
    /\ res \in {"ok", "err"} /\ heap # {}
    /\ heap' = heap \ GivenBack
    /\ res' = "freed"
    /\ UNCHANGED <<ctx, lvars, pos, funcs, exports, n_globals, table, mem, pending_data,
                   pending_elem>>

-----------------------------------------------------------------------------
Sections ==
    \/ TypeEntry \/ FunctionEntry \/ ImportEntry \/ MemoryEntry \/ TableEntry \/ ElemEntry
    \/ DataEntry \/ GlobalEntry \/ ExportEntry \/ StartEntry \/ CodeRefused
    \/ \E has \in BOOLEAN : FuncStart(has)

Operators == Lower /\ UNCHANGED <<ctx, tvars>>

Next == Sections \/ Operators \/ FuncDone \/ FuncStub \/ Finish \/ HandOver \/ Free

Spec == Init /\ [][Next]_vars

-----------------------------------------------------------------------------
\* The module translate_wasm returns, and the heights of its functions.
Mod ==
    [code |-> [p \in 0 .. Len(code) - 1 |-> code[p + 1]], code_len |-> Len(code),
     funcs |-> [i \in 0 .. Len(funcs) - 1 |-> funcs[i + 1]], n_funcs |-> Len(funcs),
     n_host_imports |-> Len(host_fn_ids),
     type_fp |-> [t \in 0 .. Len(func_types) - 1 |-> TypeFingerprint(func_types[t + 1])],
     n_types |-> Len(func_types),
     func_typeidx |-> [i \in 0 .. Len(func_typeidx) - 1 |-> func_typeidx[i + 1]],
     table |-> [k \in 0 .. Len(table) - 1 |-> table[k + 1]], table_len |-> Len(table),
     consts |-> [k \in 0 .. Len(consts) - 1 |-> consts[k + 1]], n_consts |-> Len(consts),
     n_globals |-> n_globals,
     data_len |-> [d \in 0 .. Len(pending_data) - 1 |-> pending_data[d + 1].len],
     n_data |-> Len(pending_data)]

HeightsOfFunc(f) == [rel \in 0 .. f.code_len - 1 |-> hv[f.code_off + rel + 1]]
Ht == [i \in 0 .. Len(funcs) - 1 |-> HeightsOfFunc(funcs[i + 1])]

Functions == {funcs[i] : i \in 1 .. Len(funcs)}

\* The types of the variables; heights and pcs are never negative where they matter.
TypeOK ==
    /\ low \in {"idle", "ops", "err"} /\ res \in {"parse", "ok", "err", "freed"}
    /\ code \in Seq(CuOp) /\ Len(hv) = Len(code)
    /\ funcs \in Seq(FuncMeta) /\ Len(funcs) <= Len(func_typeidx)
    /\ res = "ok" /\ inp.valid => ModuleShape(Mod)
    /\ h \in Nat /\ dead \in BOOLEAN
    /\ low = "ops" => Len(ctrl) = Len(val.frames)
    /\ \A i \in 1 .. Len(ctrl) :
          ctrl[i].base \in Nat /\ ctrl[i].start <= Len(code) /\ ctrl[i].patches \subseteq 0 .. Len(code) - 1

(***************************************************************************)
(* The functions of a module do not overlap and branches stay inside: of   *)
(* every function lowered or replaced by a trap, also when bodies are not  *)
(* valid and lower_operators gave up in the middle, every branch was       *)
(* patched to a pc of its own function.                                    *)
(***************************************************************************)
BranchesInside ==
    /\ \A i, j \in 1 .. Len(funcs) :
          i < j /\ HasCode(funcs[i]) /\ HasCode(funcs[j]) => EndOf(funcs[i]) <= funcs[j].code_off
    /\ \A f \in Functions : \A p \in f.code_off .. EndOf(f) - 1 :
          /\ EndOf(f) <= Len(code)
          /\ code[p + 1].op \in {"BR", "BR_IF_NOT"} => code[p + 1].b \in f.code_off .. EndOf(f) - 1

(***************************************************************************)
(* A valid module that is translated is one verify_cuop accepts: the       *)
(* heights the lowering followed are consistent in every function, so      *)
(* joins agree, no instruction underflows and no branch leaves its         *)
(* function.  It is also lowered as Drivers assumes: calls name functions  *)
(* with code, unwinds keep operands only, fingerprints fit the functions.  *)
(***************************************************************************)
TranslatedVerifies ==
    res = "ok" /\ inp.valid => HeightsConsistent(Mod, Ht) /\ Lowered(Mod)

\* lower_operators has no case for o.
NotImplemented(o) ==
    \/ o.k = "unsupported"
    \/ o.k \in {"block", "loop", "if"} /\ o.bt.k = "float"
    \/ o.k = "return_call" /\ o.f < Len(host_fn_ids)

\* The operator read last is in the else arm of an if that no code reaches.
InDeadElse == \E i \in 1 .. Len(ctrl) : ctrl[i].has_else /\ ctrl[i].dead_on_entry

(***************************************************************************)
(* In a valid module a function becomes a trap only for an operator that   *)
(* is not implemented, or in the else arm of an unreachable if: there the  *)
(* heights are counted from 0, and a branch out of it looks like an        *)
(* underflow.                                                              *)
(***************************************************************************)
StubJustified ==
    inp.valid /\ low = "err" => NotImplemented(body[Len(body)]) \/ InDeadElse

\* Structured control flow is implemented: in a valid module a function becomes a
\* trap only for an operator that is not.
StubOnlyUnsupported ==
    inp.valid /\ low = "err" => NotImplemented(body[Len(body)])

\* What cuwasm_translate_wasm hands out, cuwasm_translate_free gives back, each
\* vector with the length it was allocated with; in a valid module every function
\* has a body, and the types of functions are freed by the number of functions.
NothingLeaks == inp.valid /\ res = "freed" => heap = {}
=============================================================================
