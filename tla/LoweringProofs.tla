--------------------------- MODULE LoweringProofs ---------------------------
(***************************************************************************)
(* What the state of translate_wasm consists of, for every module it may   *)
(* be given: TypesInvariant.  The types say more than TypeOK's: every      *)
(* emitted instruction has an opcode the interpreter knows, every label    *)
(* has natural heights and arities, and br_table runs only with a scratch  *)
(* local.  The proofs about branches, the heap and the validator rest on   *)
(* them; there is one step for each section entry and each operator.       *)
(***************************************************************************)
EXTENDS Invariants, TLAPS

\* A plain operator emits nothing, or one instruction that does not branch.
PlainShape(o) ==
    /\ o.pops \in Nat /\ o.pushes \in Nat
    /\ \/ o.code = <<>> /\ o.pops = o.pushes
       \/ o.code = <<o.code[1]>> /\ o.code[1] \in KnownOp /\ ~ Branchy(o.code[1])

\* An operator that only emits has the shape the opcode tables give it.
LEMMA PlainType ==
    ASSUME NEW o, OperatorOk(o), o.k = "plain"
    PROVE  PlainShape(o)
<1>1. PlainOperator(o)
  BY Zenon DEF OperatorOk
<1> USE DEF Simple, Emits, Cu, KnownOp, PlainShape, Branchy, KnownOps, PushOne, Alu, Bulk
<1>2. CASE o \in {Nop, Emits(<<>>, 1, 1)}
  BY <1>2 DEF Nop
<1>3. CASE o \in StackOps \cup I32Ops \cup I64Ops \cup WideOps \cup I64Tests
  BY <1>3 DEF StackOps, I32Ops, I64Ops, WideOps, I64Tests
<1>4. CASE /\ o.code[1].a \in Nat /\ o.code[1].b \in Nat
           /\ o \in GlobalOps(o.code[1].b) \cup LocalOps(o.code[1].a) \cup MemoryOps(o.code[1].a)
                    \cup {Load(o.code[1].a, o.code[1].b), Store(o.code[1].a, o.code[1].b),
                          Clz(o.code[1].a)}
  BY <1>4 DEF GlobalOps, LocalOps, MemoryOps, Load, Store, Clz
<1> QED
  BY Zenon, <1>1, <1>2, <1>3, <1>4 DEF PlainOperator

\* Appending what the lowering emits at once.
LEMMA AppendTypes ==
    ASSUME NEW c \in Seq(KnownOp), NEW cs \in Seq(KnownOp)
    PROVE  /\ c \o cs \in Seq(KnownOp)
           /\ Len(c \o cs) = Len(c) + Len(cs)
           /\ \A p \in 1 .. Len(c) : (c \o cs)[p] = c[p]
           /\ \A p \in 1 .. Len(cs) : (c \o cs)[Len(c) + p] = cs[p]
OBVIOUS

\* The arity of a declared type is two naturals.
LEMMA ArityType ==
    ASSUME func_types \in Seq(FuncType), NEW t \in Nat, t < Len(func_types)
    PROVE  Arity(t) \in [np : Nat, nr : Nat]
<1>1. func_types[t + 1] \in FuncType
  OBVIOUS
<1> QED
  BY <1>1 DEF FuncType, Arity

\* The operands of the other operators.
LEMMA OperandTypes ==
    ASSUME NEW o, OperatorOk(o)
    PROVE  /\ o.k = "tee" => o.i \in Nat
           /\ o.k = "const" => o.v \in Nat
           /\ o.k \in {"block", "loop", "if"} =>
                 o.bt.k \in {"empty", "int", "float"} \/ (o.bt.k = "type" /\ o.bt.t \in Nat)
           /\ o.k \in {"br", "br_if"} => o.d \in Nat
           /\ o.k = "br_table" => o.ds \in Seq(Nat) /\ o.ds # <<>>
           /\ o.k \in {"call", "return_call"} => o.f \in Nat
           /\ o.k = "call_indirect" => o.t \in Nat
<1>1. PlainOperator(o) => o.k = "plain"
  BY DEF PlainOperator, Nop, Emits, StackOps, I32Ops, I64Ops, WideOps, I64Tests, Simple
<1> QED
  BY Zenon, <1>1 DEF OperatorOk

\* So is the arity of a block, whatever its block type.
LEMMA BlockArityType ==
    ASSUME func_types \in Seq(FuncType), NEW o, OperatorOk(o), o.k \in {"block", "loop", "if"},
           HasBlockArity(o.bt)
    PROVE  BlockArity(o.bt) \in [np : Nat, nr : Nat]
<1>1. o.bt.k \in {"empty", "int", "float"} \/ (o.bt.k = "type" /\ o.bt.t \in Nat)
  BY Zenon, OperandTypes
<1>2. CASE o.bt.k = "type"
  BY Zenon, <1>1, <1>2, ArityType DEF HasBlockArity, BlockArity
<1>3. CASE o.bt.k # "type"
  BY Zenon, <1>3 DEF BlockArity
<1> QED
  BY Zenon, <1>2, <1>3

\* The instruction of a call.
LEMMA CallType ==
    ASSUME func_types \in Seq(FuncType), func_typeidx \in Seq(Nat), host_fn_ids \in Seq(Nat),
           NEW f \in Word, HasArity(f)
    PROVE  /\ FuncArity(f) \in [np : Nat, nr : Nat]
           /\ (IF f < Len(host_fn_ids)
               THEN Cu("CALL_HOST", FuncArity(f).np + 256 * FuncArity(f).nr, host_fn_ids[f + 1])
               ELSE Cu("CALL", 0, f)) \in KnownOp
<1>0. f \in Nat
  BY Zenon DEF Word
<1>1. FuncArity(f) \in [np : Nat, nr : Nat]
  BY <1>0, ArityType DEF HasArity, FuncArity
<1>2. FuncArity(f).np + 256 * FuncArity(f).nr \in Nat
  <2> DEFINE t == FuncArity(f)
  <2>1. t.np \in Nat /\ t.nr \in Nat
    BY Zenon, <1>1
  <2> HIDE DEF t
  <2>2. t.np + 256 * t.nr \in Nat
    BY <2>1
  <2> QED
    BY Zenon, <2>2 DEF t
<1>3. f < Len(host_fn_ids) => host_fn_ids[f + 1] \in Nat
  BY <1>0
<1> QED
  BY Zenon, <1>0, <1>1, <1>2, <1>3 DEF Cu, KnownOp, KnownOps, Control

\* intern_const gives an index into the constants it leaves behind.
LEMMA InternType ==
    ASSUME consts \in Seq(Word), NEW v \in Word
    PROVE  /\ Intern(v) \in Seq(Word) /\ Len(consts) <= Len(Intern(v))
           /\ InternAt(v) \in Nat /\ InternAt(v) < Len(Intern(v))
<1>1. Intern(v) \in Seq(Word) /\ Len(consts) <= Len(Intern(v))
  BY DEF Intern
<1>2. \E i \in 1 .. Len(Intern(v)) : Intern(v)[i] = v
  <2>1. CASE \E i \in 1 .. Len(consts) : consts[i] = v
    BY Zenon, <2>1 DEF Intern
  <2>2. CASE ~ \E i \in 1 .. Len(consts) : consts[i] = v
    <3>1. Intern(v) = Append(consts, v)
      BY Zenon, <2>2 DEF Intern
    <3>2. Len(consts) + 1 \in 1 .. Len(Intern(v)) /\ Intern(v)[Len(consts) + 1] = v
      BY <3>1
    <3> QED
      BY Zenon, <3>2
  <2> QED
    BY Zenon, <2>1, <2>2
<1> QED
  BY <1>1, <1>2 DEF InternAt

-----------------------------------------------------------------------------
\* A parse starts well typed.
LEMMA TypesInit == Init => Types
<1> SUFFICES ASSUME Init PROVE Types
  BY Zenon
<1>1. CurType
  BY DEF Init, NoFunc, CurType
<1>2. ModTypes
  BY DEF Init, ModTypes
<1>3. LowTypes
  BY DEF Init, LowTypes
<1>4. TableTypes
  BY DEF Init, TableTypes
<1>5. DeadType
  BY Zenon DEF Init, DeadType
<1> QED
  BY Zenon, <1>1, <1>2, <1>3, <1>4, <1>5 DEF Types

\* The item the parser is at is a section entry.
LEMMA ItemType ==
    ASSUME Types, pos <= Len(inp.items)
    PROVE  ItemOk(Item)
<1>1. inp \in Modules /\ pos \in Nat \ {0}
  BY Zenon DEF Types, ModTypes
<1>2. Len(inp.items) \in Nat /\ \A i \in 1 .. Len(inp.items) : ItemOk(inp.items[i])
  BY Zenon, <1>1, ModulesAssumption
<1> QED
  BY <1>1, <1>2 DEF Item

\* What a step leaves alone keeps its type.
LEMMA TypesFrame ==
    ASSUME Types
    PROVE  /\ UNCHANGED cur => CurType'
           /\ UNCHANGED lvars => LowTypes'
           /\ UNCHANGED dead => DeadType'
           /\ UNCHANGED <<cur, lvars>> => TableTypes'
           /\ UNCHANGED <<ctx, pos, funcs>> => ModTypes'
<1>1. UNCHANGED cur => CurType'
  BY Zenon DEF Types, CurType
<1>2. UNCHANGED lvars => LowTypes'
  BY Zenon DEF Types, LowTypes, lvars
<1>3. UNCHANGED <<cur, lvars>> => TableTypes'
  BY Zenon DEF Types, TableTypes, lvars
<1>4. UNCHANGED <<ctx, pos, funcs>> => ModTypes'
  BY Zenon DEF Types, ModTypes, ctx
<1>5. UNCHANGED dead => DeadType'
  BY Zenon DEF Types, DeadType
<1> QED
  BY Zenon, <1>1, <1>2, <1>3, <1>4, <1>5

-----------------------------------------------------------------------------
Entries ==
    \/ TypeEntry \/ FunctionEntry \/ ImportEntry \/ MemoryEntry \/ TableEntry \/ ElemEntry
    \/ DataEntry \/ GlobalEntry \/ ExportEntry \/ StartEntry \/ CodeRefused

\* What a section entry leaves alone: the lowering and the heap.
Quiet ==
    /\ res = "parse" /\ low = "idle" /\ res' \in {"parse", "err"} /\ pos' = pos + 1
    /\ lvars' = lvars /\ inp' = inp /\ cur' = cur /\ heap' = heap

\* Every section entry does.
LEMMA EntryQuiet ==
    ASSUME Entries
    PROVE  Quiet
<1> USE DEF Entry, Accept, Quiet
<1>1. ASSUME TypeEntry PROVE Quiet
  BY Zenon, <1>1 DEF TypeEntry
<1>2. ASSUME FunctionEntry PROVE Quiet
  BY Zenon, <1>2 DEF FunctionEntry
<1>3. ASSUME ImportEntry PROVE Quiet
  BY Zenon, <1>3 DEF ImportEntry
<1>4. ASSUME MemoryEntry PROVE Quiet
  BY Zenon, <1>4 DEF MemoryEntry, ctx
<1>5. ASSUME TableEntry PROVE Quiet
  BY Zenon, <1>5 DEF TableEntry, ctx
<1>6. ASSUME ElemEntry PROVE Quiet
  BY Zenon, <1>6 DEF ElemEntry, ctx
<1>7. ASSUME DataEntry PROVE Quiet
  BY Zenon, <1>7 DEF DataEntry, ctx
<1>8. ASSUME GlobalEntry PROVE Quiet
  BY Zenon, <1>8 DEF GlobalEntry, ctx
<1>9. ASSUME ExportEntry PROVE Quiet
  BY Zenon, <1>9 DEF ExportEntry, ctx
<1>10. ASSUME StartEntry PROVE Quiet
  BY Zenon, <1>10 DEF StartEntry, ctx
<1>11. ASSUME CodeRefused PROVE Quiet
  BY Zenon, <1>11 DEF CodeRefused, ctx
<1> HIDE DEF Quiet
<1> QED
  BY Zenon, <1>1, <1>2, <1>3, <1>4, <1>5, <1>6, <1>7, <1>8, <1>9, <1>10, <1>11 DEF Entries

\* Only three of them touch what the lowering reads of the module.
LEMMA EntryFrame ==
    ASSUME MemoryEntry \/ TableEntry \/ ElemEntry \/ DataEntry \/ GlobalEntry \/ ExportEntry
           \/ StartEntry \/ CodeRefused
    PROVE  ctx' = ctx /\ funcs' = funcs
<1>1. ASSUME MemoryEntry PROVE ctx' = ctx /\ funcs' = funcs
  BY Zenon, <1>1 DEF MemoryEntry
<1>2. ASSUME TableEntry PROVE ctx' = ctx /\ funcs' = funcs
  BY Zenon, <1>2 DEF TableEntry
<1>3. ASSUME ElemEntry PROVE ctx' = ctx /\ funcs' = funcs
  BY Zenon, <1>3 DEF ElemEntry
<1>4. ASSUME DataEntry PROVE ctx' = ctx /\ funcs' = funcs
  BY Zenon, <1>4 DEF DataEntry
<1>5. ASSUME GlobalEntry PROVE ctx' = ctx /\ funcs' = funcs
  BY Zenon, <1>5 DEF GlobalEntry
<1>6. ASSUME ExportEntry PROVE ctx' = ctx /\ funcs' = funcs
  BY Zenon, <1>6 DEF ExportEntry
<1>7. ASSUME StartEntry PROVE ctx' = ctx /\ funcs' = funcs
  BY Zenon, <1>7 DEF StartEntry
<1>8. ASSUME CodeRefused PROVE ctx' = ctx /\ funcs' = funcs
  BY Zenon, <1>8 DEF CodeRefused
<1> QED
  BY Zenon, <1>1, <1>2, <1>3, <1>4, <1>5, <1>6, <1>7, <1>8

\* The label and the record lower_operators starts with.
FirstLabel(nr) ==
    [kind |-> "func", start |-> Len(code), br_if_not |-> -1, else_br |-> -1, patches |-> {},
     has_else |-> FALSE, base |-> 0, np |-> 0, nr |-> nr, dead_on_entry |-> FALSE]

\* The start of a body, assignment by assignment.
LEMMA StartFrame ==
    ASSUME NEW has, FuncStart(has)
    PROVE  /\ res = "parse" /\ low = "idle" /\ low' = "ops" /\ pos' = pos + 1
           /\ res' = res /\ heap' = heap /\ inp' = inp /\ funcs' = funcs
           /\ func_types' = func_types /\ func_typeidx' = func_typeidx
           /\ host_fn_ids' = host_fn_ids
           /\ code' = code /\ consts' = consts /\ brt' = brt /\ hv' = hv
           /\ ctrl' = <<FirstLabel(FuncArity(Len(funcs)).nr)>>
           /\ h' = 0 /\ dead' = FALSE /\ body' = <<>>
           /\ val' = [h |-> 0, frames |-> <<[base |-> 0, poly |-> FALSE, reach |-> TRUE]>>]
BY DEF FuncStart, Entry, FirstLabel

\* The function in work, and its scratch local.
LEMMA StartLocals ==
    ASSUME NEW has \in BOOLEAN, FuncStart(has)
    PROVE  /\ cur'.off = Len(code) /\ cur'.nr = FuncArity(Len(funcs)).nr
           /\ cur'.np = FuncArity(Len(funcs)).np /\ cur'.locals = Item.locals
           /\ cur'.nl = IF has /\ Item.locals < 65535 THEN Item.locals + 1 ELSE Item.locals
           /\ cur'.scratch = IF has THEN cur'.np + cur'.nl - 1 ELSE -1
<1> DEFINE t == FuncArity(Len(funcs))
           nl == IF has /\ Item.locals < 65535 THEN Item.locals + 1 ELSE Item.locals
           scratch == IF has THEN t.np + nl - 1 ELSE -1
<1>1. cur' = [off |-> Len(code), np |-> t.np, nr |-> t.nr, nl |-> nl, locals |-> Item.locals,
              scratch |-> scratch, ops |-> Item.ops, room |-> Item.room, pre |-> Item.pre]
  BY SMTT(30) DEF FuncStart
<1> HIDE DEF t, nl, scratch
<1>2. /\ cur'.off = Len(code) /\ cur'.np = t.np /\ cur'.nr = t.nr /\ cur'.nl = nl
      /\ cur'.locals = Item.locals /\ cur'.scratch = scratch
  BY ONLY Zenon, <1>1
<1> QED
  BY ONLY <1>2 DEF t, nl, scratch

\* The fields of the function being read when its body starts.
LEMMA StartCur ==
    ASSUME NEW has \in BOOLEAN, FuncStart(has)
    PROVE  cur'.off = Len(code) /\ cur'.nr = FuncArity(Len(funcs)).nr
  BY StartLocals

\* The entry of a valid body.
LEMMA StartValid ==
    ASSUME inp.valid, NEW has \in BOOLEAN, FuncStart(has)
    PROVE  /\ FuncArity(Len(funcs)).np + Item.locals < 65535
           /\ HasArity(Len(funcs)) /\ Item.sec = "code" /\ pos <= Len(inp.items)
<1>1. FuncArity(Len(funcs)).np + Item.locals < 65535
  BY SMTT(30) DEF FuncStart, Entry
<1>2. HasArity(Len(funcs)) /\ pos <= Len(inp.items) /\ Item.sec = "code"
  BY ONLY SMTT(30), inp.valid, FuncStart(has) DEF FuncStart, Entry, CodeOk
<1> QED
  BY ONLY <1>1, <1>2

\* Reading a section entry, or the start of a body, keeps the types.
LEMMA TypesSections == Types /\ Sections => Types'
<1> SUFFICES ASSUME Types, Sections PROVE Types'
  BY Zenon
<1>1. pos <= Len(inp.items) => ItemOk(Item)
  BY Zenon, ItemType
<1>m. ModTypes
  BY Zenon DEF Types
<1>f. UNCHANGED <<cur, lvars>> /\ ModTypes' => Types'
  BY Zenon, TypesFrame DEF Types, lvars
<1>3. CASE TypeEntry
  <2>1. [p |-> Item.p, r |-> Item.r] \in FuncType
    BY Zenon, <1>1, <1>3 DEF TypeEntry, Entry, ItemOk, FuncType
  <2>2. ModTypes'
    BY <1>3, <1>m, <2>1 DEF TypeEntry, Entry, ModTypes
  <2> QED
    BY Zenon, <1>3, <1>f, <2>2 DEF TypeEntry
<1>4. CASE FunctionEntry
  <2>1. Item.t \in Nat
    BY Zenon, <1>1, <1>4 DEF FunctionEntry, Entry, ItemOk
  <2>2. ModTypes'
    BY <1>4, <1>m, <2>1 DEF FunctionEntry, Entry, ModTypes
  <2> QED
    BY Zenon, <1>4, <1>f, <2>2 DEF FunctionEntry
<1>5. CASE ImportEntry
  <2>1. CASE res' = "err"
    <3>1. ModTypes'
      BY <1>5, <1>m, <2>1 DEF ImportEntry, Entry, ModTypes
    <3> QED
      BY Zenon, <1>5, <1>f, <3>1 DEF ImportEntry
  <2>2. CASE res' # "err"
    <3>1. Item.t \in Nat /\ Item.t < Len(func_types) /\ Item.id \in Nat
      BY Zenon, <1>1, <1>5, <2>2 DEF ImportEntry, Entry, ItemOk, Accept
    <3>2. Arity(Item.t) \in [np : Nat, nr : Nat]
      BY Zenon, <1>m, <3>1, ArityType DEF ModTypes
    <3>3. [code_off |-> 0, code_len |-> 0, n_params |-> Arity(Item.t).np,
           n_results |-> Arity(Item.t).nr, n_locals |-> 0] \in MetaType
      BY <3>2 DEF MetaType
    <3>4. ModTypes'
      <4> DEFINE g == [code_off |-> 0, code_len |-> 0, n_params |-> Arity(Item.t).np,
                       n_results |-> Arity(Item.t).nr, n_locals |-> 0]
      <4>1. /\ funcs' = Append(funcs, g)
            /\ func_typeidx' = Append(func_typeidx, Item.t)
            /\ host_fn_ids' = Append(host_fn_ids, Item.id)
            /\ inp' = inp /\ pos' = pos + 1 /\ func_types' = func_types
        BY Zenon, <1>5, <2>2 DEF ImportEntry, Entry
      <4>2. g \in MetaType
        BY Zenon, <3>3
      <4> HIDE DEF g
      <4> QED
        BY <1>m, <3>1, <4>1, <4>2 DEF ModTypes
    <3> QED
      BY Zenon, <1>5, <1>f, <3>4 DEF ImportEntry
  <2> QED
    BY Zenon, <2>1, <2>2
<1>6. CASE MemoryEntry \/ TableEntry \/ ElemEntry \/ DataEntry \/ GlobalEntry \/ ExportEntry
           \/ StartEntry \/ CodeRefused
  <2>1. ctx' = ctx /\ funcs' = funcs
    BY Zenon, <1>6, EntryFrame
  <2>2. lvars' = lvars /\ pos' = pos + 1
    BY Zenon, <1>6, EntryQuiet DEF Entries, Quiet
  <2>3. ModTypes'
    BY <1>m, <2>1, <2>2 DEF ModTypes, ctx
  <2> QED
    BY Zenon, <1>f, <2>1, <2>2, <2>3 DEF ctx
<1>7. ASSUME NEW has \in BOOLEAN, FuncStart(has) PROVE Types'
  <2>1. Item.locals \in Nat /\ \A o \in Item.ops : OperatorOk(o)
    BY ONLY SMTT(60), <1>1, <1>7 DEF FuncStart, Entry, ItemOk
  <2>2. FuncArity(Len(funcs)) \in [np : Nat, nr : Nat]
    BY ONLY <1>m, <1>7, ArityType DEF ModTypes, FuncStart, CodeOk, HasArity, FuncArity
  <2> DEFINE t == FuncArity(Len(funcs))
             nl == IF has /\ Item.locals < 65535 THEN Item.locals + 1 ELSE Item.locals
  <2>3. t.np \in Nat /\ t.nr \in Nat /\ nl \in Nat
    BY <2>1, <2>2
  <2>c. code \in Seq(KnownOp) /\ consts \in Seq(Word) /\ Len(code) \in Nat
    BY SMTT(30) DEF Types, LowTypes
  <2>4. CurType'
    <3> HIDE DEF t, nl
    <3> QED
      BY ONLY SMTT(30), <1>7, <2>1, <2>3, <2>c DEF FuncStart, CurType, t, nl
  <2>5. ctrl' \in Seq(Label)
    <3>1. FirstLabel(t.nr) \in Label
      BY <2>3, <2>c DEF FirstLabel, Label
    <3>2. ctrl' = <<FirstLabel(t.nr)>>
      BY Zenon, <1>7, StartFrame
    <3> HIDE DEF t
    <3> QED
      BY <3>1, <3>2
  <2>s. /\ low' = "ops" /\ code' = code /\ consts' = consts /\ h' = 0 /\ dead' = FALSE
        /\ brt' = brt /\ low = "idle"
    BY Zenon, <1>7, StartFrame
  <2>6. LowTypes'
    BY Zenon, <2>5, <2>c, <2>s DEF LowTypes
  <2>d. DeadType'
    BY <2>s, Zenon DEF DeadType
  <2>7. TableTypes'
    BY Zenon, <2>s DEF Types, TableTypes
  <2>8. ModTypes'
    <3>1. /\ inp' = inp /\ pos' = pos + 1 /\ func_types' = func_types
          /\ func_typeidx' = func_typeidx /\ host_fn_ids' = host_fn_ids /\ funcs' = funcs
      BY Zenon, <1>7, StartFrame
    <3> QED
      BY <1>m, <3>1 DEF ModTypes
  <2> QED
    BY SMTT(30), <2>4, <2>6, <2>d, <2>7, <2>8 DEF Types
<1> QED
  BY Zenon, <1>3, <1>4, <1>5, <1>6, <1>7 DEF Sections

\* A failing and a successful turn of lower_operators.
LEMMA TypesFail ==
    ASSUME Types, UNCHANGED <<ctx, tvars>>,
           NEW cs \in Seq(KnownOp), NEW ks \in Seq(Word), Fail(cs, ks)
    PROVE  Types'
<1>1. ModTypes' /\ CurType' /\ DeadType'
  BY Zenon, TypesFrame DEF tvars, ctx, Fail
<1>2. LowTypes'
  BY DEF Types, LowTypes, Fail
<1>3. TableTypes'
  <2>1. brt' = brt /\ low' = "err" /\ cur' = cur /\ ctrl' = ctrl
    BY Zenon DEF Fail, ctx
  <2> QED
    BY Zenon, <2>1 DEF Types, TableTypes
<1> QED
  BY Zenon, <1>1, <1>2, <1>3 DEF Types

\* A step of lowering that goes on keeps them if the variables it writes do.
LEMMA TypesStep ==
    ASSUME Types, UNCHANGED <<ctx, tvars>>, low = "ops", low' = low,
           code' \in Seq(KnownOp), consts' \in Seq(Word), ctrl' \in Seq(Label), h' \in Nat,
           dead' \in BOOLEAN, TableTypes'
    PROVE  Types'
<1>1. ModTypes' /\ CurType'
  BY Zenon, TypesFrame DEF tvars, ctx
<1>2. LowTypes'
  BY Zenon DEF LowTypes
<1> QED
  BY Zenon, <1>1, <1>2 DEF Types, DeadType

\* Outside br_table the targets still to come stay none.
LEMMA TableFrame ==
    ASSUME Types, brt.ds = <<>>, UNCHANGED brt
    PROVE  TableTypes'
BY Zenon DEF Types, TableTypes

\* Patching changes no length and no opcode.
LEMMA PatchType ==
    ASSUME code \in Seq(KnownOp), NEW ps, NEW b \in Nat
    PROVE  Patch(ps, b) \in Seq(KnownOp) /\ Len(Patch(ps, b)) = Len(code)
<1>1. \A p \in 1 .. Len(code) : code[p] \in KnownOp
  OBVIOUS
<1>2. \A p \in 1 .. Len(code) :
         (IF p - 1 \in ps THEN Cu(code[p].op, code[p].a, b) ELSE code[p]) \in KnownOp
  BY Zenon, <1>1 DEF KnownOp, Cu
<1> QED
  BY <1>2 DEF Patch

\* The innermost label and its fields.
LEMMA TopType ==
    ASSUME ctrl \in Seq(Label), ctrl # <<>>
    PROVE  /\ Len(ctrl) \in Nat \ {0} /\ Top \in Label
           /\ Top.start \in Nat /\ Top.br_if_not \in Int /\ Top.else_br \in Int
           /\ Top.patches \in SUBSET Nat /\ Top.base \in Nat /\ Top.np \in Nat /\ Top.nr \in Nat
           /\ Top.kind \in {"func", "block", "loop", "if"}
           /\ Top.has_else \in BOOLEAN /\ Top.dead_on_entry \in BOOLEAN
<1>1. Len(ctrl) \in Nat \ {0} /\ Top \in Label
  BY DEF Top
<1> QED
  BY Zenon, <1>1 DEF Label

\* A depth that resolves names a label of the control stack.
LEMMA ResolveType ==
    ASSUME ctrl \in Seq(Label), NEW d \in Word, ResolveBr(d) # 0
    PROVE  \E i \in 1 .. Len(ctrl) : i = ResolveBr(d)
BY DEF ResolveBr, Word

\* Any label, its arity and the height a branch to it leaves.
LEMMA LabelType ==
    ASSUME ctrl \in Seq(Label), NEW i \in 1 .. Len(ctrl)
    PROVE  /\ ctrl[i] \in Label /\ ctrl[i].kind \in {"func", "block", "loop", "if"}
           /\ ctrl[i].start \in Nat /\ ctrl[i].base \in Nat /\ ctrl[i].np \in Nat /\ ctrl[i].nr \in Nat
           /\ LabelArity(ctrl[i]) \in Nat /\ DestH(i) \in Nat
<1>1. ctrl[i] \in Label
  OBVIOUS
<1>2. /\ ctrl[i].kind \in {"func", "block", "loop", "if"}
      /\ ctrl[i].start \in Nat /\ ctrl[i].base \in Nat /\ ctrl[i].np \in Nat /\ ctrl[i].nr \in Nat
  BY Zenon, <1>1 DEF Label
<1>3. LabelArity(ctrl[i]) \in Nat
  BY Zenon, <1>2 DEF LabelArity
<1> QED
  BY <1>1, <1>2, <1>3 DEF DestH

\* Recording a branch in a label adds none.
LEMMA PendingType ==
    ASSUME ctrl \in Seq(Label), NEW i \in 1 .. Len(ctrl), NEW p \in Nat \ {0}
    PROVE  Pending(i, p) \in Seq(Label) /\ Len(Pending(i, p)) = Len(ctrl)
<1> DEFINE new(j) == [kind |-> ctrl[j].kind, start |-> ctrl[j].start,
                  br_if_not |-> ctrl[j].br_if_not, else_br |-> ctrl[j].else_br,
                  patches |-> ctrl[j].patches \cup {p - 1}, has_else |-> ctrl[j].has_else,
                  base |-> ctrl[j].base, np |-> ctrl[j].np, nr |-> ctrl[j].nr,
                  dead_on_entry |-> ctrl[j].dead_on_entry]
<1>1. \A j \in 1 .. Len(ctrl) : ctrl[j] \in Label
  OBVIOUS
<1>2. ASSUME NEW j \in 1 .. Len(ctrl) PROVE new(j) \in Label
  <2>1. ctrl[j] \in Label
    BY Zenon, <1>1
  <2>2. ctrl[j].patches \cup {p - 1} \in SUBSET Nat
    <3>1. ctrl[j].patches \in SUBSET Nat
      BY Zenon, <2>1 DEF Label
    <3>2. p - 1 \in Nat
      OBVIOUS
    <3> QED
      BY ONLY Zenon, <3>1, <3>2
  <2>3. /\ ctrl[j].kind \in {"func", "block", "loop", "if"} /\ ctrl[j].start \in Nat
        /\ ctrl[j].br_if_not \in Int /\ ctrl[j].else_br \in Int /\ ctrl[j].has_else \in BOOLEAN
        /\ ctrl[j].base \in Nat /\ ctrl[j].np \in Nat /\ ctrl[j].nr \in Nat
        /\ ctrl[j].dead_on_entry \in BOOLEAN
    BY Zenon, <2>1 DEF Label
  <2> QED
    BY Zenon, <2>2, <2>3 DEF Label
<1> HIDE DEF new
<1>3. [j \in 1 .. Len(ctrl) |-> IF j # i THEN ctrl[j] ELSE new(j)] \in Seq(Label)
  BY <1>1, <1>2
<1>4. Len([j \in 1 .. Len(ctrl) |-> IF j # i THEN ctrl[j] ELSE new(j)]) = Len(ctrl)
  OBVIOUS
<1> QED
  BY Zenon, <1>3, <1>4 DEF Pending, new

\* A branch is one instruction, or an UNWIND and one.
LEMMA JumpType ==
    ASSUME Types, NEW i \in 1 .. Len(ctrl), NEW hh
    PROVE  JumpCode(i, hh) \in Seq(KnownOp) /\ Len(JumpCode(i, hh)) \in 1 .. 2
<1>1. ctrl \in Seq(Label) /\ cur.np \in Nat /\ cur.nl \in Nat
  BY Zenon DEF Types, LowTypes, CurType
<1>2. LabelArity(ctrl[i]) \in Nat /\ DestH(i) \in Nat /\ ctrl[i].start \in Nat
  BY Zenon, <1>1, LabelType
<1>3. /\ Cu("BR", 0, IF ctrl[i].kind = "loop" THEN ctrl[i].start ELSE 0) \in KnownOp
      /\ Cu("UNWIND", LabelArity(ctrl[i]), cur.np + cur.nl + DestH(i)) \in KnownOp
  BY SMTT(30), <1>1, <1>2 DEF Cu, KnownOp, KnownOps, Control
<1> QED
  BY <1>3 DEF JumpCode

\* Every operator keeps the types.
LEMMA TypesLower == Types /\ Operators => Types'
<1> SUFFICES ASSUME Types, Operators PROVE Types'
  BY Zenon
<1>u. UNCHANGED <<ctx, tvars>>
  BY Zenon DEF Operators
<1>t. /\ func_types \in Seq(FuncType) /\ func_typeidx \in Seq(Nat) /\ host_fn_ids \in Seq(Nat)
      /\ code \in Seq(KnownOp) /\ consts \in Seq(Word) /\ ctrl \in Seq(Label) /\ h \in Nat
      /\ dead \in BOOLEAN /\ Len(code) \in Nat /\ cur.nr \in Nat /\ cur.scratch \in Int
  BY DEF Types, ModTypes, LowTypes, DeadType, CurType
<1>f. ASSUME NEW cs \in Seq(KnownOp), NEW ks \in Seq(Word), Fail(cs, ks) PROVE Types'
  BY Zenon, <1>u, <1>f, TypesFail
<1>e. ASSUME NEW x \in KnownOp PROVE <<x>> \in Seq(KnownOp)
  OBVIOUS
<1>0. <<>> \in Seq(KnownOp)
  OBVIOUS
<1>1. ASSUME NEW o \in cur.ops, Plain(o) PROVE Types'
  <2>1. PlainShape(o)
    BY Zenon, <1>1, PlainType DEF Types, CurType, Plain
  <2>2. o.code \in Seq(KnownOp) /\ o.pops \in Nat /\ o.pushes \in Nat
    BY ZenonT(60), <2>1, <1>e, <1>0 DEF PlainShape
  <2>3. CASE Short(o.pops)
    BY Zenon, <1>1, <1>f, <1>t, <2>2, <2>3 DEF Plain
  <2>4. CASE ~ Short(o.pops)
    <3>1. /\ code' = code \o o.code /\ h' = Consumed(o.pops, o.pushes)
          /\ low = "ops" /\ brt.ds = <<>> /\ low' = low /\ UNCHANGED <<consts, ctrl, dead, brt>>
      BY Zenon, <1>1, <2>4 DEF Plain, Emit, Read
    <3>2. h' \in Nat
      BY SMTT(30), <1>t, <2>2, <2>4, <3>1 DEF Consumed, Short
    <3>3. TableTypes'
      BY Zenon, <1>u, <3>1, TableFrame
    <3> QED
      BY Zenon, <1>u, <1>t, <2>2, <3>1, <3>2, <3>3, TypesStep, AppendTypes
  <2> QED
    BY ZenonT(60), <2>3, <2>4
<1>s. ASSUME low = "ops", brt.ds = <<>>, low' = low, UNCHANGED brt, code' \in Seq(KnownOp), consts' \in Seq(Word),
             ctrl' \in Seq(Label), h' \in Nat, dead' \in BOOLEAN
      PROVE  Types'
  BY Zenon, <1>u, <1>s, TypesStep, TableFrame
<1>2. ASSUME NEW o \in cur.ops, LocalTee(o) PROVE Types'
  <2>1. o.i \in Nat
    BY Zenon, <1>2, OperandTypes DEF LocalTee, Types, CurType
  <2>2. /\ code' = code \o <<Cu("LOCAL_SET", o.i, 0), Cu("LOCAL_GET", o.i, 0)>>
        /\ low = "ops" /\ brt.ds = <<>> /\ low' = low /\ UNCHANGED <<consts, ctrl, h, dead, brt>>
    BY Zenon, <1>2 DEF LocalTee, Emit, Read
  <2>3. Cu("LOCAL_SET", o.i, 0) \in KnownOp /\ Cu("LOCAL_GET", o.i, 0) \in KnownOp
    BY Zenon, <2>1 DEF Cu, KnownOp, KnownOps, PushOne
  <2>4. code' \in Seq(KnownOp)
    BY <1>t, <2>2, <2>3
  <2> QED
    BY Zenon, <1>s, <1>t, <2>2, <2>4
<1>3. ASSUME NEW o \in cur.ops, Const(o) PROVE Types'
  <2>1. o.v \in Word
    BY Zenon, <1>3, OperandTypes DEF Const, Types, CurType, Word
  <2>2. /\ code' = code \o <<Cu("I64_CONST", 0, InternAt(o.v))>> /\ consts' = Intern(o.v)
        /\ h' = Consumed(0, 1) /\ low = "ops" /\ brt.ds = <<>> /\ low' = low /\ UNCHANGED <<ctrl, dead, brt>>
    BY Zenon, <1>3 DEF Const, Emit, Read
  <2>3. InternAt(o.v) \in Nat /\ Intern(o.v) \in Seq(Word)
    BY Zenon, <1>t, <2>1, InternType
  <2>4. code' \in Seq(KnownOp)
    <3>1. Cu("I64_CONST", 0, InternAt(o.v)) \in KnownOp
      BY Zenon, <2>3 DEF Cu, KnownOp, KnownOps, PushOne
    <3> QED
      BY <1>t, <2>2, <3>1
  <2>5. h' \in Nat
    BY <1>t, <2>2 DEF Consumed
  <2> QED
    BY Zenon, <1>s, <1>t, <2>2, <2>3, <2>4, <2>5
<1>4. ASSUME NEW o \in cur.ops, Stop(o) PROVE Types'
  <2> DEFINE x == IF o.k = "return" THEN Cu("RETURN", cur.nr, 0) ELSE Cu("UNREACHABLE", 0, 0)
  <2>1. /\ code' = code \o <<x>>
        /\ low = "ops" /\ brt.ds = <<>> /\ low' = low /\ UNCHANGED <<consts, ctrl, h, brt>>
    BY Zenon, <1>4 DEF Stop, Emit, Read
  <2>2. dead' = TRUE
    BY Zenon, <1>4 DEF Stop
  <2>3. x \in KnownOp
    BY Zenon, <1>t DEF Cu, KnownOp, KnownOps, Control, Returns
  <2> HIDE DEF x
  <2> QED
    BY <1>s, <1>t, <2>1, <2>2, <2>3
<1>5. ASSUME NEW o \in cur.ops, Unsupported(o) PROVE Types'
  BY Zenon, <1>5, <1>f, <1>t, <1>0 DEF Unsupported
<1>6. ASSUME NEW o \in cur.ops, Block(o) PROVE Types'
  <2> DEFINE t == BlockArity(o.bt)
  <2>0. o.k \in {"block", "loop"} /\ low = "ops" /\ brt.ds = <<>> /\ OperatorOk(o)
    BY Zenon, <1>6 DEF Block, Read, Types, CurType
  <2>1. CASE ~ HasBlockArity(o.bt) \/ Short(t.np)
    BY Zenon, <1>6, <1>f, <1>t, <1>0, <2>1 DEF Block
  <2>2. CASE HasBlockArity(o.bt) /\ ~ Short(t.np)
    <3>1. t.np \in Nat /\ t.nr \in Nat
      BY Zenon, <1>t, <2>0, <2>2, BlockArityType
    <3>2. /\ ctrl' = Append(ctrl, NewCtrl(o.k, Len(code), -1, t.np, t.nr, h))
          /\ low' = low /\ UNCHANGED <<code, consts, h, dead, brt>>
      BY Zenon, <1>6, <2>2 DEF Block
    <3>3. NewCtrl(o.k, Len(code), -1, t.np, t.nr, h) \in Label
      BY SMTT(30), <1>t, <2>0, <2>2, <3>1 DEF Short, NewCtrl, Label
    <3> QED
      BY <1>s, <1>t, <2>0, <3>2, <3>3
  <2> QED
    BY Zenon, <2>1, <2>2
<1>7. ASSUME NEW o \in cur.ops, If(o) PROVE Types'
  <2> DEFINE t == BlockArity(o.bt)
             br == Cu("BR_IF_NOT", 0, 0)
             h1 == Consumed(1, 0)
  <2>0. o.k = "if" /\ low = "ops" /\ brt.ds = <<>> /\ OperatorOk(o) /\ br \in KnownOp
    BY Zenon, <1>7 DEF If, Read, Types, CurType, Cu, KnownOp, KnownOps, Control
  <2>1. CASE ~ HasBlockArity(o.bt) \/ Short(1)
    BY Zenon, <1>7, <1>f, <1>t, <1>0, <2>1 DEF If
  <2>2. CASE HasBlockArity(o.bt) /\ ~ Short(1) /\ ~ dead /\ h1 < t.np
    BY ZenonT(60), <1>7, <1>f, <1>t, <1>e, <2>0, <2>2 DEF If
  <2>3. CASE HasBlockArity(o.bt) /\ ~ Short(1) /\ ~ (~ dead /\ h1 < t.np)
    <3>1. t.np \in Nat /\ t.nr \in Nat
      BY Zenon, <1>t, <2>0, <2>3, BlockArityType
    <3>2. /\ code' = code \o <<br>> /\ h' = h1
          /\ ctrl' = Append(ctrl, NewCtrl("if", Len(code) + 1, Len(code), t.np, t.nr, h1))
          /\ low' = low /\ UNCHANGED <<consts, dead, brt>>
      BY Zenon, <1>7, <2>3 DEF If, Emit
    <3>3. h1 \in Nat
      BY SMTT(30), <1>t, <2>3 DEF Consumed, Short
    <3>4. NewCtrl("if", Len(code) + 1, Len(code), t.np, t.nr, h1) \in Label
      BY SMTT(30), <1>t, <2>3, <3>1, <3>3 DEF NewCtrl, Label
    <3> HIDE DEF br, h1, t
    <3> QED
      BY <1>s, <1>t, <2>0, <3>2, <3>3, <3>4
  <2> QED
    BY Zenon, <2>1, <2>2, <2>3
<1>8. ASSUME NEW o \in cur.ops, Else(o) PROVE Types'
  <2>0. low = "ops" /\ brt.ds = <<>> /\ ctrl # <<>>
    BY Zenon, <1>8 DEF Else, Read
  <2>1. CASE Top.kind # "if"
    BY Zenon, <1>8, <1>f, <1>t, <1>0, <2>1 DEF Else
  <2>2. CASE Top.kind = "if"
    <3> DEFINE new == [kind |-> "if", start |-> Top.start, br_if_not |-> Top.br_if_not,
                       else_br |-> Len(code), patches |-> Top.patches,
                       has_else |-> TRUE, base |-> Top.base, np |-> Top.np,
                       nr |-> Top.nr, dead_on_entry |-> Top.dead_on_entry]
    <3>1. /\ code' = Append(Patch({Top.br_if_not}, Len(code) + 1), Cu("BR", 0, 0))
          /\ ctrl' = [j \in 1 .. Len(ctrl) |-> IF j < Len(ctrl) THEN ctrl[j] ELSE new]
          /\ h' = Top.base + Top.np /\ low' = low /\ UNCHANGED <<consts, brt>>
      BY Zenon, <1>8, <2>2 DEF Else
    <3>2. dead' = FALSE
      BY Zenon, <1>8, <2>2 DEF Else
    <3>t. /\ Top.start \in Nat /\ Top.br_if_not \in Int /\ Top.patches \in SUBSET Nat
          /\ Top.base \in Nat /\ Top.np \in Nat /\ Top.nr \in Nat /\ Top.dead_on_entry \in BOOLEAN
      BY Zenon, <1>t, <2>0, TopType
    <3>h. h' \in Nat
      BY SMTT(30), <3>1, <3>t
    <3>3. new \in Label
      BY <1>t, <3>t DEF Label
    <3>4. ctrl' \in Seq(Label)
      <4> HIDE DEF new
      <4> QED
        BY SMTT(30), <1>t, <2>0, <3>1, <3>3
    <3>5. code' \in Seq(KnownOp)
      <4>1. Patch({Top.br_if_not}, Len(code) + 1) \in Seq(KnownOp)
        BY <1>t, PatchType
      <4>2. Cu("BR", 0, 0) \in KnownOp
        BY Zenon DEF Cu, KnownOp, KnownOps, Control
      <4> QED
        BY <3>1, <4>1, <4>2
    <3> QED
      BY Zenon, <1>s, <1>t, <2>0, <3>1, <3>2, <3>h, <3>4, <3>5
  <2> QED
    BY Zenon, <2>1, <2>2
<1>9. ASSUME NEW o \in cur.ops, End(o) PROVE Types'
  <2>1. /\ code' = IF Top.kind = "func"
                   THEN Append(Patch(Joins(Top), Len(code)), Cu("END_FUNC", cur.nr, 0))
                   ELSE Patch(Joins(Top), Len(code))
        /\ ctrl' = [j \in 1 .. Len(ctrl) - 1 |-> ctrl[j]]
        /\ h' = Top.base + Top.nr /\ low' = low /\ UNCHANGED <<consts, brt>>
        /\ low = "ops" /\ brt.ds = <<>> /\ ctrl # <<>>
    BY Zenon, <1>9 DEF End, Read
  <2>2. dead' = Top.dead_on_entry
    BY Zenon, <1>9 DEF End
  <2>t. Top.base \in Nat /\ Top.nr \in Nat /\ Top.dead_on_entry \in BOOLEAN
    BY Zenon, <1>t, <2>1, TopType
  <2>3. h' \in Nat /\ dead' \in BOOLEAN
    BY <2>1, <2>2, <2>t
  <2>4. ctrl' \in Seq(Label)
    BY SMTT(30), <1>t, <2>1
  <2>5. code' \in Seq(KnownOp)
    <3>1. Patch(Joins(Top), Len(code)) \in Seq(KnownOp)
      BY Zenon, <1>t, PatchType
    <3>2. Cu("END_FUNC", cur.nr, 0) \in KnownOp
      BY Zenon, <1>t DEF Cu, KnownOp, KnownOps, Control, Returns
    <3> QED
      BY <2>1, <3>1, <3>2
  <2> QED
    BY Zenon, <1>s, <1>t, <2>1, <2>3, <2>4, <2>5
<1>10. ASSUME Unclosed PROVE Types'
  BY Zenon, <1>10, <1>f, <1>t, <1>0 DEF Unclosed
<1>k. ASSUME NEW i \in 1 .. Len(ctrl), NEW hh, code' = code \o JumpCode(i, hh),
             ctrl' = Pending(i, Len(code) + Len(JumpCode(i, hh)))
      PROVE  code' \in Seq(KnownOp) /\ ctrl' \in Seq(Label)
  <2> DEFINE n == Len(code)
             m == Len(JumpCode(i, hh))
             p == n + m
  <2>1. JumpCode(i, hh) \in Seq(KnownOp) /\ Len(JumpCode(i, hh)) \in 1 .. 2
    BY Zenon, JumpType
  <2>2. p \in Nat \ {0}
    <3>1. n \in Nat /\ m \in 1 .. 2
      BY Zenon, <1>t, <2>1
    <3> HIDE DEF n, m
    <3> QED
      BY ONLY <3>1
  <2>3. ctrl' = Pending(i, p)
    BY Zenon, <1>k
  <2> HIDE DEF p
  <2> QED
    BY ZenonT(60), <1>k, <1>t, <2>1, <2>2, <2>3, PendingType, AppendTypes
<1>11. ASSUME NEW o \in cur.ops, Br(o) PROVE Types'
  <2>0. low = "ops" /\ brt.ds = <<>> /\ o.d \in Word
    BY Zenon, <1>11, OperandTypes DEF Br, Read, Types, CurType, Word
  <2>1. CASE ResolveBr(o.d) = 0 \/ Underflows(ResolveBr(o.d), h)
    BY ZenonT(60), <1>11, <1>f, <1>t, <1>0, <2>1 DEF Br
  <2>2. CASE ~ (ResolveBr(o.d) = 0 \/ Underflows(ResolveBr(o.d), h))
    <3>i. PICK i \in 1 .. Len(ctrl) : i = ResolveBr(o.d)
      BY Zenon, <1>t, <2>0, <2>2, ResolveType
    <3>1. /\ code' = code \o JumpCode(i, h) /\ ctrl' = Pending(i, Len(code) + Len(JumpCode(i, h)))
          /\ low' = low /\ UNCHANGED <<consts, h, brt>>
      BY Zenon, <1>11, <2>2, <3>i DEF Br, Emit
    <3>2. dead' = TRUE
      BY Zenon, <1>11, <2>2 DEF Br
    <3>3. code' \in Seq(KnownOp) /\ ctrl' \in Seq(Label)
      BY Zenon, <1>k, <3>1
    <3> QED
      BY Zenon, <1>s, <1>t, <2>0, <3>1, <3>2, <3>3
  <2> QED
    BY Zenon, <2>1, <2>2
<1>b. Cu("BR_IF_NOT", 0, 0) \in KnownOp
  BY Zenon DEF Cu, KnownOp, KnownOps, Control
<1>j. ASSUME NEW cs \in Seq(KnownOp), NEW hs, NEW i \in 1 .. Len(ctrl), NEW hh,
             JumpUnless(cs, hs, i, hh)
      PROVE  code' \in Seq(KnownOp) /\ ctrl' \in Seq(Label) /\ Len(ctrl') = Len(ctrl)
  <2> DEFINE past == Len(code) + Len(cs) + 1 + Len(JumpCode(i, hh))
  <2>1. JumpCode(i, hh) \in Seq(KnownOp) /\ Len(JumpCode(i, hh)) \in 1 .. 2
    BY Zenon, JumpType
  <2>2. past \in Nat \ {0}
    BY <1>t, <2>1
  <2>3. /\ code' = code \o (cs \o <<Cu("BR_IF_NOT", 0, past)>> \o JumpCode(i, hh))
        /\ ctrl' = Pending(i, past)
    BY Zenon, <1>j DEF JumpUnless, Emit
  <2> HIDE DEF past
  <2>4. Cu("BR_IF_NOT", 0, past) \in KnownOp
    BY Zenon, <2>2 DEF Cu, KnownOp, KnownOps, Control
  <2>5. cs \o <<Cu("BR_IF_NOT", 0, past)>> \o JumpCode(i, hh) \in Seq(KnownOp)
    BY Zenon, <1>e, <2>1, <2>4, AppendTypes
  <2> QED
    BY Zenon, <1>t, <2>2, <2>3, <2>5, PendingType, AppendTypes
<1>12. ASSUME NEW o \in cur.ops, BrIf(o) PROVE Types'
  <2> DEFINE hh == Consumed(1, 0)
  <2>0. low = "ops" /\ brt.ds = <<>> /\ o.d \in Word
    BY Zenon, <1>12, OperandTypes DEF BrIf, Read, Types, CurType, Word
  <2>1. CASE Short(1)
    BY ZenonT(60), <1>12, <1>f, <1>t, <1>0, <2>1 DEF BrIf
  <2>2. CASE ~ Short(1) /\ (ResolveBr(o.d) = 0 \/ Underflows(ResolveBr(o.d), hh))
    BY ZenonT(60), <1>12, <1>f, <1>t, <1>e, <1>b, <2>2 DEF BrIf
  <2>3. CASE ~ Short(1) /\ ~ (ResolveBr(o.d) = 0 \/ Underflows(ResolveBr(o.d), hh))
    <3>i. PICK i \in 1 .. Len(ctrl) : i = ResolveBr(o.d)
      BY Zenon, <1>t, <2>0, <2>3, ResolveType
    <3>1. JumpUnless(<<>>, <<>>, i, hh) /\ h' = hh /\ low' = low /\ UNCHANGED <<consts, dead, brt>>
      BY Zenon, <1>12, <2>3, <3>i DEF BrIf
    <3>2. h' \in Nat
      BY SMTT(30), <1>t, <2>3, <3>1 DEF Consumed, Short
    <3>3. code' \in Seq(KnownOp) /\ ctrl' \in Seq(Label)
      BY Zenon, <1>0, <1>j, <3>1
    <3> QED
      BY Zenon, <1>s, <1>t, <2>0, <3>1, <3>2, <3>3
  <2> QED
    BY Zenon, <2>1, <2>2, <2>3
<1>13. ASSUME NEW o \in cur.ops, BrTable(o) PROVE Types'
  <2> DEFINE set == Cu("LOCAL_SET", cur.scratch, 0)
  <2>0. low = "ops" /\ ctrl # <<>> /\ o.ds \in Seq(Nat) /\ cur.scratch >= 0
    BY Zenon, <1>13, OperandTypes DEF BrTable, Read, Types, CurType
  <2>s. set \in KnownOp
    BY SMTT(30), <1>t, <2>0 DEF Cu, KnownOp, KnownOps
  <2>1. CASE Short(1)
    BY ZenonT(60), <1>13, <1>f, <1>t, <1>e, <2>s, <2>1 DEF BrTable
  <2>2. CASE ~ Short(1)
    <3>1. /\ code' = code \o <<set>> /\ h' = Consumed(1, 0) /\ brt' = [i |-> 0, ds |-> o.ds]
          /\ low' = low /\ UNCHANGED <<consts, ctrl, dead>>
      BY Zenon, <1>13, <2>2 DEF BrTable, Emit
    <3>2. h' \in Nat
      BY <1>t, <2>2, <3>1 DEF Consumed, Short
    <3>3. TableTypes'
      BY Zenon, <1>u, <2>0, <3>1 DEF TableTypes, ctx
    <3>4. code' \in Seq(KnownOp)
      <4> HIDE DEF set
      <4> QED
        BY <1>t, <2>s, <3>1
    <3> QED
      BY Zenon, <1>u, <1>t, <2>0, <3>1, <3>2, <3>3, <3>4, TypesStep
  <2> QED
    BY Zenon, <2>1, <2>2
<1>14. ASSUME BrTableTarget PROVE Types'
  <2> DEFINE cs == <<Cu("LOCAL_GET", cur.scratch, 0), Cu("I64_CONST", 0, InternAt(brt.i)),
                     Cu("BINOP", 0, 0)>>
             br == Cu("BR_IF_NOT", 0, 0)
  <2>0. low = "ops" /\ brt.ds \in Seq(Nat) /\ Len(brt.ds) > 1 /\ cur.scratch >= 0
    BY <1>14 DEF BrTableTarget, Types, TableTypes
  <2>d. brt.ds[1] \in Word /\ brt.i \in Word /\ brt.i \in Nat
    BY <2>0 DEF Word, Types, TableTypes
  <2>n. InternAt(brt.i) \in Nat /\ Intern(brt.i) \in Seq(Word)
    BY Zenon, <1>t, <2>d, InternType
  <2>s. cs \in Seq(KnownOp) /\ Append(cs, br) \in Seq(KnownOp)
    <3>1. /\ Cu("LOCAL_GET", cur.scratch, 0) \in KnownOp
          /\ Cu("I64_CONST", 0, InternAt(brt.i)) \in KnownOp /\ Cu("BINOP", 0, 0) \in KnownOp
      BY <1>t, <2>0, <2>n DEF Cu, KnownOp, KnownOps, PushOne, Alu
    <3> QED
      BY <1>b, <3>1
  <2>1. CASE ResolveBr(brt.ds[1]) = 0 \/ Underflows(ResolveBr(brt.ds[1]), h)
    <3>1. Fail(Append(cs, br), Intern(brt.i))
      BY Zenon, <1>14, <2>1 DEF BrTableTarget
    <3> HIDE DEF cs, br
    <3> QED
      BY Zenon, <1>f, <2>n, <2>s, <3>1
  <2>2. CASE ~ (ResolveBr(brt.ds[1]) = 0 \/ Underflows(ResolveBr(brt.ds[1]), h))
    <3>i. PICK i \in 1 .. Len(ctrl) : i = ResolveBr(brt.ds[1])
      BY ZenonT(60), <1>t, <2>d, <2>2, ResolveType
    <3>1. /\ JumpUnless(cs, <<h, h + 1, h + 2>>, i, h) /\ consts' = Intern(brt.i)
          /\ brt' = [i |-> brt.i + 1, ds |-> Tail(brt.ds)] /\ low' = low /\ UNCHANGED <<h, dead>>
      BY Zenon, <1>14, <2>2, <3>i DEF BrTableTarget
    <3>3. code' \in Seq(KnownOp) /\ ctrl' \in Seq(Label) /\ Len(ctrl') = Len(ctrl)
      <4> HIDE DEF cs
      <4> QED
        BY Zenon, <1>j, <2>s, <3>1
    <3>4. ctrl' # <<>>
      BY SMTT(30), <3>3
    <3>5. brt'.i = brt.i + 1 /\ brt'.ds = Tail(brt.ds) /\ low' = low
      BY ONLY Zenon, <3>1
    <3>6. brt'.i \in Nat /\ brt'.ds \in Seq(Nat)
      BY ONLY <2>0, <2>d, <3>5 DEF Word
    <3>7. cur' = cur
      BY ONLY Zenon, <1>u DEF ctx
    <3>2. TableTypes'
      BY ONLY Zenon, <2>0, <3>4, <3>5, <3>6, <3>7 DEF TableTypes
    <3> QED
      BY Zenon, <1>u, <1>t, <2>0, <2>n, <3>1, <3>2, <3>3, TypesStep
  <2> QED
    BY Zenon, <2>1, <2>2
<1>15. ASSUME BrTableDefault PROVE Types'
  <2>0. low = "ops" /\ brt.ds \in Seq(Nat) /\ Len(brt.ds) = 1
    BY Zenon, <1>15 DEF BrTableDefault, Types, TableTypes
  <2>d. brt.ds[1] \in Word
    BY SMTT(30), <2>0 DEF Word
  <2>1. CASE ResolveBr(brt.ds[1]) = 0 \/ Underflows(ResolveBr(brt.ds[1]), h)
    BY ZenonT(60), <1>15, <1>f, <1>t, <1>0, <2>1 DEF BrTableDefault
  <2>2. CASE ~ (ResolveBr(brt.ds[1]) = 0 \/ Underflows(ResolveBr(brt.ds[1]), h))
    <3>i. PICK i \in 1 .. Len(ctrl) : i = ResolveBr(brt.ds[1])
      BY Zenon, <1>t, <2>d, <2>2, ResolveType
    <3>1. /\ code' = code \o JumpCode(i, h) /\ ctrl' = Pending(i, Len(code) + Len(JumpCode(i, h)))
          /\ low' = low /\ UNCHANGED <<consts, h>> /\ brt' = [i |-> 0, ds |-> <<>>]
      BY Zenon, <1>15, <2>2, <3>i DEF BrTableDefault, Emit
    <3>2. dead' = TRUE
      BY Zenon, <1>15, <2>2 DEF BrTableDefault
    <3>3. code' \in Seq(KnownOp) /\ ctrl' \in Seq(Label)
      BY ZenonT(60), <1>k, <3>1
    <3>4. TableTypes'
      BY <3>1 DEF TableTypes
    <3> QED
      BY Zenon, <1>u, <1>t, <2>0, <3>1, <3>2, <3>3, <3>4, TypesStep
  <2> QED
    BY Zenon, <2>1, <2>2
<1>16. ASSUME NEW o \in cur.ops, Call(o) PROVE Types'
  <2> DEFINE t == FuncArity(o.f)
             op == IF o.f < Len(host_fn_ids)
                   THEN Cu("CALL_HOST", t.np + 256 * t.nr, host_fn_ids[o.f + 1])
                   ELSE Cu("CALL", 0, o.f)
  <2>0. low = "ops" /\ brt.ds = <<>> /\ o.f \in Word
    BY Zenon, <1>16, OperandTypes DEF Call, Read, Types, CurType, Word
  <2>1. CASE ~ HasArity(o.f)
    BY ZenonT(60), <1>16, <1>f, <1>t, <1>0, <2>1 DEF Call
  <2>2. CASE HasArity(o.f)
    <3>1. t \in [np : Nat, nr : Nat]
      BY Zenon, <1>t, <2>0, <2>2, CallType
    <3>2. op \in KnownOp
      BY Zenon, <1>t, <2>0, <2>2, CallType
    <3>3. CASE Short(t.np)
      <4>1. Fail(<<op>>, consts)
        BY Zenon, <1>16, <2>2, <3>3 DEF Call
      <4> HIDE DEF op
      <4> QED
        BY ZenonT(60), <1>f, <1>t, <1>e, <3>2, <4>1
    <3>4. CASE ~ Short(t.np)
      <4>1. /\ code' = code \o <<op>> /\ h' = Consumed(t.np, t.nr)
            /\ low' = low /\ UNCHANGED <<consts, ctrl, dead, brt>>
        BY Zenon, <1>16, <2>2, <3>4 DEF Call, Emit
      <4>2. h' \in Nat
        BY <1>t, <3>1, <3>4, <4>1 DEF Consumed, Short
      <4> HIDE DEF op
      <4>3. code' \in Seq(KnownOp)
        BY Zenon, <1>t, <1>e, <3>2, <4>1, AppendTypes
      <4> QED
        BY Zenon, <1>s, <1>t, <2>0, <4>1, <4>2, <4>3
    <3> QED
      BY Zenon, <3>3, <3>4
  <2> QED
    BY Zenon, <2>1, <2>2
<1>17. ASSUME NEW o \in cur.ops, ReturnCall(o) PROVE Types'
  <2>0. low = "ops" /\ brt.ds = <<>> /\ o.f \in Nat
    BY Zenon, <1>17, OperandTypes DEF ReturnCall, Read, Types, CurType
  <2>1. CASE o.f < Len(host_fn_ids)
    BY ZenonT(60), <1>17, <1>f, <1>t, <1>0, <2>1 DEF ReturnCall
  <2>2. CASE ~ o.f < Len(host_fn_ids)
    <3>1. /\ code' = code \o <<Cu("RETURN_CALL", 0, o.f)>>
          /\ low' = low /\ UNCHANGED <<consts, ctrl, h, brt>>
      BY Zenon, <1>17, <2>2 DEF ReturnCall, Emit
    <3>2. dead' = TRUE
      BY Zenon, <1>17, <2>2 DEF ReturnCall
    <3>3. Cu("RETURN_CALL", 0, o.f) \in KnownOp
      BY Zenon, <2>0 DEF Cu, KnownOp, KnownOps, Control
    <3>4. code' \in Seq(KnownOp)
      BY Zenon, <1>t, <1>e, <3>1, <3>3, AppendTypes
    <3> QED
      BY Zenon, <1>s, <1>t, <2>0, <3>1, <3>2, <3>4
  <2> QED
    BY Zenon, <2>1, <2>2
<1>18. ASSUME NEW o \in cur.ops, CallIndirect(o) PROVE Types'
  <2> DEFINE t == Arity(o.t)
             op == Cu("CALL_INDIRECT", 0, o.t)
  <2>0. low = "ops" /\ brt.ds = <<>> /\ o.t \in Nat
    BY ZenonT(60), <1>18, OperandTypes DEF CallIndirect, Read, Types, CurType
  <2>1. CASE o.t >= Len(func_types)
    BY Zenon, <1>18, <1>f, <1>t, <1>0, <2>1 DEF CallIndirect
  <2>2. CASE ~ o.t >= Len(func_types)
    <3>1. t \in [np : Nat, nr : Nat]
      BY <1>t, <2>0, <2>2, ArityType
    <3>2. op \in KnownOp
      BY Zenon, <2>0 DEF Cu, KnownOp, KnownOps, Control
    <3>3. CASE Short(1 + t.np)
      <4>1. Fail(<<op>>, consts)
        BY Zenon, <1>18, <2>2, <3>3 DEF CallIndirect
      <4> HIDE DEF op
      <4> QED
        BY ZenonT(60), <1>f, <1>t, <1>e, <3>2, <4>1
    <3>4. CASE ~ Short(1 + t.np)
      <4>1. /\ code' = code \o <<op>> /\ h' = Consumed(1 + t.np, t.nr)
            /\ low' = low /\ UNCHANGED <<consts, ctrl, dead, brt>>
        BY Zenon, <1>18, <2>2, <3>4 DEF CallIndirect, Emit
      <4>2. h' \in Nat
        BY SMTT(30), <1>t, <3>1, <3>4, <4>1 DEF Consumed, Short
      <4> HIDE DEF op
      <4>3. code' \in Seq(KnownOp)
        BY Zenon, <1>t, <1>e, <3>2, <4>1, AppendTypes
      <4> QED
        BY Zenon, <1>s, <1>t, <2>0, <4>1, <4>2, <4>3
    <3> QED
      BY Zenon, <3>3, <3>4
  <2> QED
    BY Zenon, <2>1, <2>2
<1> QED
  BY Zenon, <1>1, <1>2, <1>3, <1>4, <1>5, <1>6, <1>7, <1>8, <1>9, <1>10, <1>11, <1>12, <1>13, <1>14, <1>15,
     <1>16, <1>17, <1>18
  DEF Operators, Lower, ReadOperator

\* So does ending a body, lowered or replaced by a trap.
LEMMA TypesFunc == Types /\ (FuncDone \/ FuncStub) => Types'
<1> SUFFICES ASSUME Types, FuncDone \/ FuncStub PROVE Types'
  BY Zenon
<1>t. /\ code \in Seq(KnownOp) /\ consts \in Seq(Word) /\ ctrl \in Seq(Label) /\ h \in Nat
      /\ Len(code) \in Nat /\ cur.off \in Nat /\ cur.nr \in Nat /\ cur.np \in Nat /\ cur.nl \in Nat
  BY DEF Types, LowTypes, CurType
<1>m. ASSUME NEW g \in MetaType, funcs' = Append(funcs, g), UNCHANGED <<ctx, pos>> PROVE ModTypes'
  BY <1>m DEF Types, ModTypes, ctx
<1>1. CASE FuncDone
  <2>1. Meta(cur.off, Len(code) - cur.off, cur.nl) \in MetaType
    BY <1>t DEF Meta, MetaType
  <2>2. ModTypes'
    BY Zenon, <1>1, <1>m, <2>1 DEF FuncDone
  <2>3. /\ low = "ops" /\ ctrl = <<>> /\ low' = "idle"
        /\ UNCHANGED <<ctx, code, consts, ctrl, h, dead, brt>>
    BY Zenon, <1>1 DEF FuncDone
  <2>4. TableTypes'
    BY Zenon, <2>3 DEF Types, TableTypes
  <2>5. LowTypes'
    BY Zenon, <1>t, <2>3 DEF LowTypes
  <2>6. CurType' /\ DeadType'
    BY Zenon, <2>3, TypesFrame DEF ctx
  <2> QED
    BY Zenon, <2>2, <2>4, <2>5, <2>6 DEF Types
<1>2. CASE FuncStub
  <2>1. Meta(Len(code), 2, 0) \in MetaType
    BY <1>t DEF Meta, MetaType
  <2>2. ModTypes'
    BY Zenon, <1>2, <1>m, <2>1 DEF FuncStub
  <2>3. /\ low' = "idle" /\ code' = code \o <<Cu("UNREACHABLE", 0, 0), Cu("END_FUNC", cur.nr, 0)>>
        /\ UNCHANGED <<ctx, consts, ctrl, h, dead>> /\ brt' = [i |-> 0, ds |-> <<>>]
    BY Zenon, <1>2 DEF FuncStub
  <2>4. Cu("UNREACHABLE", 0, 0) \in KnownOp /\ Cu("END_FUNC", cur.nr, 0) \in KnownOp
    BY Zenon, <1>t DEF Cu, KnownOp, KnownOps, Control, Returns
  <2>5. code' \in Seq(KnownOp)
    BY <1>t, <2>3, <2>4
  <2>6. LowTypes'
    BY Zenon, <1>t, <2>3, <2>5 DEF LowTypes
  <2>7. CurType' /\ DeadType'
    BY Zenon, <2>3, TypesFrame DEF ctx
  <2>8. TableTypes'
    BY <2>3 DEF TableTypes
  <2> QED
    BY Zenon, <2>2, <2>6, <2>7, <2>8 DEF Types
<1> QED
  BY Zenon, <1>1, <1>2

\* The frame of the innermost block and its label.
LEMMA TopFrame ==
    ASSUME Types, Agreed, ctrl # <<>>
    PROVE  /\ Len(ctrl) \in Nat \ {0} /\ Len(val.frames) = Len(ctrl)
           /\ VTop = val.frames[Len(ctrl)] /\ VTop \in Frame /\ VTop.base \in Nat
           /\ Live <=> LiveIn(val.frames[Len(ctrl)])
           /\ Doomed(ctrl, Len(ctrl)) <=> InDeadElse
<1>1. /\ ctrl \in Seq(Label) /\ Len(val.frames) = Len(ctrl) /\ val.frames \in Seq(Frame)
  BY Zenon DEF Types, LowTypes, Agreed, Agree
<1>2. Len(ctrl) \in Nat \ {0}
  BY <1>1
<1>3. VTop = val.frames[Len(ctrl)] /\ VTop \in Frame
  BY <1>1, <1>2 DEF VTop
<1>4. VTop.base \in Nat
  BY Zenon, <1>3 DEF Frame
<1>5. Doomed(ctrl, Len(ctrl)) <=> InDeadElse
  BY Zenon DEF Doomed, InDeadElse
<1> QED
  BY Zenon, <1>1, <1>2, <1>3, <1>4, <1>5 DEF Live, LiveIn

\* Where the code is reachable, operands the validator finds are there.
LEMMA PopsOk ==
    ASSUME Types, Agreed, ctrl # <<>>, NEW n \in Nat
    PROVE  /\ Popped(n) \in Nat /\ Popped(n) >= VTop.base
           /\ Live => ~ dead /\ h = val.h
           /\ Live /\ CanPop(n) => val.h >= VTop.base + n /\ Popped(n) = val.h - n
           /\ ~ Live => dead \/ InDeadElse
           /\ CanPop(n) /\ Short(n) => InDeadElse
           /\ CanPop(0)
<1>1. VTop.base \in Nat /\ val.h \in Nat /\ h \in Nat
  BY Zenon, TopFrame DEF Agreed, Types, LowTypes
<1>2. Popped(n) \in Nat /\ Popped(n) >= VTop.base
  BY <1>1 DEF Popped
<1>3. (Live => ~ dead /\ h = val.h) /\ (~ Live => dead \/ InDeadElse)
  BY Zenon, TopFrame DEF Agreed, Agree
<1>4. Live /\ CanPop(n) => val.h >= VTop.base + n
  BY Zenon DEF Live, CanPop
<1>5. Live /\ CanPop(n) => Popped(n) = val.h - n
  BY Zenon, <1>4 DEF Popped
<1>6. Live /\ CanPop(n) => ~ h < n
  BY <1>1, <1>3, <1>4
<1>7. CanPop(n) /\ Short(n) => InDeadElse
  BY Zenon, <1>3, <1>6 DEF Short
<1>8. CanPop(0)
  <2>1. val.h >= VTop.base
    BY Zenon DEF Agreed
  <2>2. val.h >= VTop.base + 0
    BY <1>1, <2>1
  <2> QED
    BY Zenon, <2>2 DEF CanPop
<1> QED
  BY Zenon, <1>2, <1>3, <1>4, <1>5, <1>7, <1>8

\* What a branch to label i needs is there, where the code is reachable.
LEMMA BranchFits ==
    ASSUME Types, Agreed, ctrl # <<>>, NEW d \in Word, NEW n \in Nat, NEW hh,
           CanBranch(d, n), ~ dead => hh = h - n
    PROVE  /\ ResolveBr(d) \in 1 .. Len(ctrl)
           /\ Live => /\ val.frames[ResolveBr(d)].reach
                      /\ ctrl[ResolveBr(d)].base = val.frames[ResolveBr(d)].base
                      /\ hh >= DestH(ResolveBr(d))
           /\ Underflows(ResolveBr(d), hh) => InDeadElse
<1>0. d \in Nat
  BY Zenon DEF Word
<1>n. Len(ctrl) \in Nat /\ d < Len(ctrl)
  BY Zenon, TopFrame DEF CanBranch
<1>1. PICK i \in 1 .. Len(ctrl) : i = ResolveBr(d)
  <2>1. Len(ctrl) - d \in 1 .. Len(ctrl)
    BY ONLY <1>0, <1>n
  <2> QED
    BY Zenon, <1>n, <2>1 DEF ResolveBr
<1>2. /\ ctrl \in Seq(Label) /\ val.frames \in Seq(Frame) /\ h \in Nat /\ val.h \in Nat
      /\ Agree(ctrl, val.frames, h, dead, val.h, cur.nr)
  BY Zenon DEF Types, LowTypes, Agreed
<1> DEFINE a == LabelArity(ctrl[i])
           k == Len(ctrl)
           fr == val.frames
<1>3. a \in Nat /\ ctrl[i].base \in Nat /\ DestH(i) = ctrl[i].base + a
  BY Zenon, <1>2, LabelType DEF DestH
<1>4. CanPop(n + a)
  BY Zenon, <1>1 DEF CanBranch
<1> HIDE DEF a
<1>5. n + a \in Nat
  BY <1>3
<1>6. k \in Nat \ {0} /\ k \in 1 .. k /\ VTop = fr[k] /\ VTop.base \in Nat /\ (Live <=> LiveIn(fr[k]))
  BY TopFrame
<1>7. ASSUME Live
      PROVE  fr[i].reach /\ ctrl[i].base = fr[i].base /\ hh >= DestH(i)
  <2>1. ~ dead /\ h = val.h /\ val.h >= VTop.base + (n + a)
    BY Zenon, <1>4, <1>5, <1>7, PopsOk
  <2>2. fr[k].reach
    BY Zenon, <1>6, <1>7 DEF LiveIn
  <2>3. i = k \/ i < k
    BY <1>6
  <2>4. fr[i].reach
    BY Zenon, <1>2, <1>6, <2>2, <2>3 DEF Agree
  <2>5. i < k => fr[i].base <= fr[k].base
    BY Zenon, <1>2, <1>6 DEF Agree
  <2>6. ctrl[i].base = fr[i].base
    BY Zenon, <1>2, <2>4 DEF Agree
  <2>7. ctrl[i].base <= VTop.base
    BY <1>3, <1>6, <2>3, <2>5, <2>6
  <2>8. hh = h - n
    BY Zenon, <2>1
  <2>9. hh >= DestH(i)
    <3>1. val.h \in Nat /\ VTop.base \in Nat /\ ctrl[i].base \in Nat /\ a \in Nat
      BY Zenon, <1>2, <1>3, <1>6
    <3>2. val.h - n >= ctrl[i].base + a
      BY ONLY SMTT(30), <2>1, <2>7, <3>1, n \in Nat
    <3>3. h - n >= ctrl[i].base + a
      BY Zenon, <2>1, <3>2
    <3> QED
      BY Zenon, <1>3, <2>8, <3>3
  <2> QED
    BY Zenon, <2>4, <2>6, <2>9
<1>8. Underflows(i, hh) => InDeadElse
  <2> SUFFICES ASSUME Underflows(i, hh) PROVE InDeadElse
    BY Zenon
  <2>1. ~ dead /\ hh = h - n /\ hh < DestH(i)
    BY Zenon DEF Underflows
  <2>2. ~ hh >= DestH(i)
    BY <1>2, <1>3, <2>1
  <2> QED
    BY Zenon, <1>7, <2>1, <2>2, PopsOk
<1> QED
  BY Zenon, <1>1, <1>7, <1>8

\* Cut leaves the frames below alone.
LEMMA CutShape ==
    ASSUME val.frames \in Seq(Frame), val.frames # <<>>
    PROVE  /\ Cut.h = VTop.base /\ Cut.frames \in Seq(Frame) /\ Len(Cut.frames) = Len(val.frames)
           /\ \A i \in 1 .. Len(val.frames) - 1 : Cut.frames[i] = val.frames[i]
           /\ Cut.frames[Len(val.frames)].base = VTop.base
           /\ Cut.frames[Len(val.frames)].reach = VTop.reach
           /\ Cut.frames[Len(val.frames)].poly
<1> DEFINE k == Len(val.frames)
           g == [base |-> VTop.base, poly |-> TRUE, reach |-> VTop.reach]
<1>1. k \in Nat \ {0} /\ k \in 1 .. k /\ VTop \in Frame
  BY DEF VTop
<1>2. g \in Frame /\ g.base = VTop.base /\ g.reach = VTop.reach /\ g.poly
  BY Zenon, <1>1 DEF Frame
<1>3. Cut.h = VTop.base /\ Cut.frames = [i \in 1 .. k |-> IF i < k THEN val.frames[i] ELSE g]
  BY Zenon DEF Cut
<1> HIDE DEF g
<1>4. /\ Cut.frames \in Seq(Frame) /\ Len(Cut.frames) = k
      /\ \A i \in 1 .. k - 1 : Cut.frames[i] = val.frames[i]
      /\ Cut.frames[k] = g
  <2>1. \A i \in 1 .. k : (IF i < k THEN val.frames[i] ELSE g) \in Frame
    BY SMTT(30), <1>2
  <2> QED
    BY <1>1, <1>3, <2>1
<1> QED
  BY Zenon, <1>2, <1>3, <1>4

\* The types of the variables, in every run and for every module.
THEOREM TypesInvariant == Spec => []Types
<1>1. Types /\ [Next]_vars => Types'
  <2> SUFFICES ASSUME Types, [Next]_vars PROVE Types'
    BY Zenon
  <2>1. CASE Finish \/ HandOver \/ Free \/ UNCHANGED vars
    <3>1. UNCHANGED <<ctx, lvars, pos, funcs>>
      BY Zenon, <2>1 DEF Finish, HandOver, Free, vars, tvars
    <3> QED
      BY Zenon, <3>1, TypesFrame DEF Types, ctx, lvars
  <2> QED
    BY Zenon, <2>1, TypesSections, TypesLower, TypesFunc DEF Next
<1> QED
  BY <1>1, TypesInit, PTL DEF Spec

=============================================================================
