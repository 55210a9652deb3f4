---------------------------- MODULE HeightProofs ----------------------------
(***************************************************************************)
(* Heights while the module is translated.  The invariant (HeightInv):     *)
(* finished functions have consistent heights, and so has the function in  *)
(* work as far as it is emitted (Flowing).  There is one step per          *)
(* operator; the height at an instruction is the validator's, by           *)
(* ValidatorAgrees, and what the instruction makes of it is the transfer   *)
(* rule of verify_cuop.  Here are the operators that run on to the next    *)
(* instruction or stop, the ones that open a block, and the end of a body. *)
(***************************************************************************)
EXTENDS LoweringProofs, FlowProofs

\* What is known of the module, with nc constants, and of the function in work.
KM(nc) == Known(func_types, func_typeidx, Len(host_fn_ids), nc)
FM == Meta(cur.off, 0, cur.nl)

\* The next pc is reached.
Here == ctrl # <<>> /\ Live
SmallTypes == \A t \in 1 .. Len(func_types) : Len(func_types[t].p) <= 8 /\ Len(func_types[t].r) <= 8

\* Functions have the arities of their types, and only imports have no code.
ModOk ==
    /\ \A i \in 1 .. Len(func_typeidx) : func_typeidx[i] < Len(func_types)
    /\ Len(host_fn_ids) <= Len(funcs) /\ Len(funcs) <= Len(func_typeidx)
    /\ \A i \in 1 .. Len(funcs) :
          /\ funcs[i].n_params = FuncArity(i - 1).np /\ funcs[i].n_results = FuncArity(i - 1).nr
          /\ i > Len(host_fn_ids) <=> HasCode(funcs[i])

\* The function in work: its scratch local is the last one.
CurOk ==
    /\ cur.locals <= cur.nl /\ (cur.scratch >= 0 => cur.scratch = (cur.np + cur.nl) - 1)
    /\ cur.np + cur.nl <= 65535 /\ Len(funcs) < Len(func_typeidx)
    /\ cur.np = FuncArity(Len(funcs)).np /\ cur.nr = FuncArity(Len(funcs)).nr
GoodFuncs(m, fs, c, v, small) == \A i \in 1 .. Len(fs) : GoodFunc(m, fs[i], c, v, small)

\* What the translator knows of the heights in every state.
HeightsOk ==
    /\ hv \in Seq(Int) /\ Len(hv) = Len(code)
    /\ res = "ok" => SmallTypes
    /\ ModOk /\ GoodFuncs(KM(Len(consts)), funcs, code, hv, SmallTypes)
    /\ low # "idle" => CurOk
    /\ low = "ops" =>
          /\ Flowing(KM(Len(consts)), FM, cur.off, code, hv, ctrl, val.frames, h, Here, SmallTypes)
          /\ Ended(ctrl, code, cur.off)
HeightInv == inp.valid => HeightsOk

-----------------------------------------------------------------------------
\* What KM knows.
LEMMA KnownFields ==
    ASSUME Types, NEW nc \in Nat
    PROVE  /\ Sizes(KM(nc)) /\ KM(nc).n_consts = nc /\ KM(nc).n_types = Len(func_types)
           /\ KM(nc).n_funcs = Len(func_typeidx) /\ KM(nc).n_host_imports = Len(host_fn_ids)
           /\ \A b \in 0 .. Len(func_typeidx) - 1 :
                 /\ KM(nc).funcs[b].n_params = FuncArity(b).np
                 /\ KM(nc).funcs[b].n_results = FuncArity(b).nr
           /\ \A t \in 0 .. Len(func_types) - 1 :
                 KM(nc).type_fp[t].np = Arity(t).np /\ KM(nc).type_fp[t].nr = Arity(t).nr
<1>1. func_types \in Seq(FuncType) /\ func_typeidx \in Seq(Nat) /\ host_fn_ids \in Seq(Nat)
  BY Zenon DEF Types, ModTypes
<1>2. Len(func_types) \in Nat /\ Len(func_typeidx) \in Nat /\ Len(host_fn_ids) \in Nat
  BY <1>1
<1> QED
  BY ONLY Zenon, <1>2, nc \in Nat DEF KM, Known, Sizes, FuncArity, Arity

\* More constants, and nothing else.
LEMMA KnownConsts ==
    ASSUME Types, NEW nc \in Nat, NEW nc2 \in Nat, nc <= nc2
    PROVE  Grows(KM(nc), KM(nc2))
<1>1. func_types \in Seq(FuncType) /\ func_typeidx \in Seq(Nat) /\ host_fn_ids \in Seq(Nat)
  BY Zenon DEF Types, ModTypes
<1>2. Len(func_types) \in Nat /\ Len(func_typeidx) \in Nat /\ Len(host_fn_ids) \in Nat
  BY <1>1
<1> QED
  BY ONLY <1>2, nc \in Nat, nc2 \in Nat, nc <= nc2 DEF KM, Known, Grows

\* The functions fs end by n, where c2 and v2 are still c and v.
Keeps(fs, c, v, c2, v2, n) ==
    /\ fs \in Seq(MetaType) /\ c \in Seq(KnownOp) /\ n \in Nat
    /\ n <= Len(c) /\ FuncsOk(fs, c, n) /\ \A q \in 1 .. n : c2[q] = c[q] /\ v2[q] = v[q]

\* Finished functions stay good.
LEMMA GoodsKept ==
    ASSUME NEW fs, NEW c, NEW c2, NEW v, NEW v2, NEW n, Keeps(fs, c, v, c2, v2, n),
           NEW m, NEW m2, MoreKnown(m, m2), NEW small, NEW small2, small2 => small,
           GoodFuncs(m, fs, c, v, small)
    PROVE  GoodFuncs(m2, fs, c2, v2, small2)
<1>0. /\ fs \in Seq(MetaType) /\ c \in Seq(KnownOp) /\ n \in Nat
      /\ n <= Len(c) /\ FuncsOk(fs, c, n) /\ (\A q \in 1 .. n : c2[q] = c[q] /\ v2[q] = v[q])
      /\ Sizes(m) /\ Sizes(m2) /\ Grows(m, m2)
  BY Zenon DEF Keeps, MoreKnown
<1> SUFFICES ASSUME NEW i \in 1 .. Len(fs) PROVE GoodFunc(m2, fs[i], c2, v2, small2)
  BY Zenon DEF GoodFuncs
<1> DEFINE f == fs[i]
<1>1. f \in MetaType /\ EndOf(f) <= n /\ GoodFunc(m, f, c, v, small)
  BY <1>0 DEF FuncsOk, FuncOk, GoodFuncs
<1> HIDE DEF f
<1>2. GoodFunc(m2, f, c2, v2, small2)
  BY ONLY Zenon, <1>0, <1>1, small2 => small, GoodKept
<1> QED
  BY Zenon, <1>2 DEF f

\* A turn of lower_operators in a valid module.
Turn ==
    /\ inp.valid /\ Types /\ Types' /\ BranchInv /\ HeightsOk /\ Agreed
    /\ low = "ops" /\ ctx' = ctx /\ tvars' = tvars /\ Len(consts) <= Len(consts')

\* The types of what a turn starts from.
LEMMA TurnTypes ==
    ASSUME Turn
    PROVE  /\ code \in Seq(KnownOp) /\ code' \in Seq(KnownOp) /\ Len(consts) \in Nat
           /\ Len(consts') \in Nat /\ ctrl \in Seq(Label) /\ ctrl' \in Seq(Label)
           /\ cur.off \in Nat /\ cur.off <= Len(code) /\ h \in Nat /\ dead \in BOOLEAN
           /\ funcs \in Seq(MetaType) /\ FuncsOk(funcs, code, cur.off)
           /\ LabelsOk(ctrl, cur.off, Len(code)) /\ hv \in Seq(Int) /\ Len(hv) = Len(code)
<1>1. Types /\ Types' /\ BranchInv /\ HeightsOk /\ low = "ops"
  BY Zenon DEF Turn
<1>2. LowTypes /\ LowTypes' /\ ModTypes /\ CurType /\ DeadType
  BY Zenon, <1>1 DEF Types
<1>3. /\ code \in Seq(KnownOp) /\ code' \in Seq(KnownOp) /\ consts \in Seq(Word)
      /\ consts' \in Seq(Word) /\ ctrl \in Seq(Label) /\ ctrl' \in Seq(Label) /\ h \in Nat
  BY Zenon, <1>2 DEF LowTypes
<1>4. Len(consts) \in Nat /\ Len(consts') \in Nat
  BY <1>3
<1>5. cur.off \in Nat /\ dead \in BOOLEAN /\ funcs \in Seq(MetaType)
  BY Zenon, <1>2 DEF CurType, DeadType, ModTypes
<1>6. /\ cur.off <= Len(code) /\ FuncsOk(funcs, code, cur.off)
      /\ LabelsOk(ctrl, cur.off, Len(code))
  BY Zenon, <1>1 DEF BranchInv, Done
<1>7. hv \in Seq(Int) /\ Len(hv) = Len(code)
  BY Zenon, <1>1 DEF HeightsOk
<1> QED
  BY <1>3, <1>4, <1>5, <1>6, <1>7

\* The flow when the constants are known that a turn adds.
LEMMA TurnFacts ==
    ASSUME Turn
    PROVE  /\ MoreKnown(KM(Len(consts)), KM(Len(consts')))
           /\ MoreKnown(KM(Len(consts')), KM(Len(consts')))
           /\ Flowing(KM(Len(consts')), FM, cur.off, code, hv, ctrl, val.frames, h, Here, SmallTypes)
<1> DEFINE m == KM(Len(consts))
           m2 == KM(Len(consts'))
<1>t. Types /\ HeightsOk /\ low = "ops" /\ Len(consts) <= Len(consts')
  BY Zenon DEF Turn
<1>1. code \in Seq(KnownOp) /\ Len(consts) \in Nat /\ Len(consts') \in Nat /\ cur.off \in Nat
  BY Zenon, TurnTypes
<1>2. Sizes(m) /\ Sizes(m2)
  BY Zenon, <1>t, <1>1, KnownFields
<1>g. Grows(m, m2) /\ Grows(m2, m2)
  <2>1. Len(consts') <= Len(consts')
    BY <1>1
  <2> QED
    BY <1>t, <1>1, <2>1, KnownConsts
<1>3. Flowing(m, FM, cur.off, code, hv, ctrl, val.frames, h, Here, SmallTypes)
  BY Zenon, <1>t DEF HeightsOk
<1> HIDE DEF m, m2
<1>5. Flowing(m2, FM, cur.off, code, hv, ctrl, val.frames, h, Here, SmallTypes)
  <2>1. InstrsOk(m, FM, cur.off, code)
    BY Zenon, <1>3 DEF Flowing
  <2>2. /\ InstrsOk(m2, FM, cur.off, code)
        /\ \A ct, fr, hh, live : FlowOk(m, FM, cur.off, code, hv, ct, fr, hh, live) =>
                                   FlowOk(m2, FM, cur.off, code, hv, ct, fr, hh, live)
    BY ONLY <1>1, <1>2, <1>g, <2>1, FlowGrows
  <2>3. SmallTypes => FlowOk(m, FM, cur.off, code, hv, ctrl, val.frames, h, Here)
    BY Zenon, <1>3 DEF Flowing
  <2>4. SmallTypes => FlowOk(m2, FM, cur.off, code, hv, ctrl, val.frames, h, Here)
    BY Zenon, <2>2, <2>3
  <2> QED
    BY Zenon, <1>3, <2>2, <2>4 DEF Flowing
<1>6. MoreKnown(m, m2) /\ MoreKnown(m2, m2)
  BY Zenon, <1>2, <1>g DEF MoreKnown
<1> QED
  BY Zenon, <1>5, <1>6 DEF m, m2

\* Finished functions stay good in a turn that changes only the code of the one in work.
LEMMA TurnGoods ==
    ASSUME Turn, NEW c2, NEW v2, \A q \in 1 .. cur.off : c2[q] = code[q] /\ v2[q] = hv[q]
    PROVE  GoodFuncs(KM(Len(consts')), funcs, c2, v2, SmallTypes)
<1> DEFINE m == KM(Len(consts))
           m2 == KM(Len(consts'))
<1>1. GoodFuncs(m, funcs, code, hv, SmallTypes)
  BY Zenon DEF Turn, HeightsOk
<1>2. MoreKnown(m, m2)
  BY Zenon, TurnFacts
<1> HIDE DEF m, m2
<1>3. Keeps(funcs, code, hv, c2, v2, cur.off)
  BY Zenon, TurnTypes DEF Keeps
<1>4. SmallTypes => SmallTypes
  BY Zenon
<1>5. GoodFuncs(m2, funcs, c2, v2, SmallTypes)
  BY ONLY <1>1, <1>2, <1>3, <1>4, GoodsKept
<1> QED
  BY Zenon, <1>5 DEF m2

\* A turn changes nothing outside the function in work.
LEMMA TurnFrame ==
    ASSUME Turn
    PROVE  /\ KM(Len(consts))' = KM(Len(consts')) /\ FM' = FM /\ SmallTypes' = SmallTypes
           /\ cur' = cur /\ funcs' = funcs /\ ModOk' /\ CurOk' /\ (res' = "ok" => SmallTypes')
<1>u. /\ func_types' = func_types /\ func_typeidx' = func_typeidx /\ host_fn_ids' = host_fn_ids
      /\ cur' = cur /\ funcs' = funcs /\ res' = res
  BY Zenon DEF Turn, ctx, tvars
<1>m. KM(Len(consts))' = KM(Len(consts')) /\ FM' = FM
  BY Zenon, <1>u DEF KM, FM, Meta
<1>s. SmallTypes' = SmallTypes
  BY Zenon, <1>u DEF SmallTypes
<1>h. HeightsOk /\ low = "ops"
  BY Zenon DEF Turn
<1>1. ModOk /\ CurOk
  BY Zenon, <1>h DEF HeightsOk
<1>2. ModOk'
  BY <1>u, <1>1 DEF ModOk, FuncArity, Arity
<1>3. CurOk'
  BY <1>u, <1>1 DEF CurOk, FuncArity, Arity
<1>4. res' = "ok" => SmallTypes'
  BY Zenon, <1>u, <1>s, <1>h DEF HeightsOk
<1> QED
  BY <1>u, <1>m, <1>s, <1>2, <1>3, <1>4

\* A turn that goes on, if the flow does.
LEMMA HeightStep ==
    ASSUME Turn, low' = "ops", hv' \in Seq(Int), Len(hv') = Len(code'),
           \A q \in 1 .. cur.off : code'[q] = code[q] /\ hv'[q] = hv[q],
           Flowing(KM(Len(consts')), FM, cur.off, code', hv', ctrl', val'.frames, h', Here', SmallTypes),
           Ended(ctrl', code', cur.off)
    PROVE  HeightsOk'
<1>1. GoodFuncs(KM(Len(consts')), funcs, code', hv', SmallTypes)
  BY Zenon, TurnGoods
<1>2. /\ KM(Len(consts))' = KM(Len(consts')) /\ FM' = FM /\ SmallTypes' = SmallTypes
      /\ cur' = cur /\ funcs' = funcs /\ ModOk' /\ CurOk' /\ (res' = "ok" => SmallTypes')
  BY Zenon, TurnFrame
<1>3. GoodFuncs(KM(Len(consts))', funcs', code', hv', SmallTypes')
  BY Zenon, <1>1, <1>2
<1>4. Flowing(KM(Len(consts))', FM', cur'.off, code', hv', ctrl', val'.frames, h', Here', SmallTypes')
  BY Zenon, <1>2
<1>5. Ended(ctrl', code', cur'.off)
  BY Zenon, <1>2
<1> QED
  BY Zenon, <1>2, <1>3, <1>4, <1>5 DEF HeightsOk

\* A turn that gives up: what it emitted belongs to no function.
LEMMA HeightFail ==
    ASSUME Turn, NEW cs \in Seq(KnownOp), NEW ks, Fail(cs, ks)
    PROVE  HeightsOk'
<1>1. low' = "err" /\ code' = code \o cs /\ hv' = hv \o [i \in 1 .. Len(cs) |-> -1]
  BY Zenon DEF Fail
<1> DEFINE vs == [i \in 1 .. Len(cs) |-> -1]
<1>5. vs \in Seq(Int) /\ Len(vs) = Len(cs) /\ Len(cs) \in Nat
  OBVIOUS
<1>v. hv' = hv \o vs
  BY Zenon, <1>1
<1> HIDE DEF vs
<1>t. /\ code \in Seq(KnownOp) /\ hv \in Seq(Int) /\ Len(hv) = Len(code) /\ cur.off \in Nat
      /\ cur.off <= Len(code)
  BY Zenon, TurnTypes
<1>f. Fits(code, hv, cs, vs, cur.off)
  BY Zenon, cs \in Seq(KnownOp), <1>5, <1>t DEF Fits
<1>g. Extended(code, hv, code \o cs, hv \o vs, cur.off)
  BY Zenon, <1>f, Longer
<1>w. /\ hv \o vs \in Seq(Int) /\ Len(hv \o vs) = Len(code \o cs)
      /\ \A q \in 1 .. cur.off : (code \o cs)[q] = code[q] /\ (hv \o vs)[q] = hv[q]
  BY Zenon, <1>g DEF Extended
<1>2. hv' \in Seq(Int) /\ Len(hv') = Len(code')
  BY Zenon, <1>1, <1>v, <1>w
<1>3. \A q \in 1 .. cur.off : code'[q] = code[q] /\ hv'[q] = hv[q]
  BY Zenon, <1>1, <1>v, <1>w
<1>4. GoodFuncs(KM(Len(consts')), funcs, code', hv', SmallTypes)
  BY Zenon, <1>3, TurnGoods
<1>6. /\ KM(Len(consts))' = KM(Len(consts')) /\ SmallTypes' = SmallTypes
      /\ funcs' = funcs /\ ModOk' /\ CurOk' /\ (res' = "ok" => SmallTypes')
  BY Zenon, TurnFrame
<1>7. GoodFuncs(KM(Len(consts))', funcs', code', hv', SmallTypes')
  BY Zenon, <1>4, <1>6
<1>8. low' # "ops"
  BY Zenon, <1>1
<1> QED
  BY Zenon, <1>2, <1>6, <1>7, <1>8 DEF HeightsOk

\* The height recorded for one instruction.
LEMMA MarkOne ==
    ASSUME NEW hh \in Int
    PROVE  \E y \in Int : Heights(<<hh>>) = <<y>> /\ (Live => y = hh) /\ (~ Live => y = -1)
<1>1. CASE Live
  BY Zenon, <1>1 DEF Heights
<1>2. CASE ~ Live
  <2>1. Heights(<<hh>>) = [i \in 1 .. 1 |-> -1]
    BY Zenon, <1>2 DEF Heights
  <2>2. [i \in 1 .. 1 |-> -1] = <<-1>>
    OBVIOUS
  <2> QED
    BY <1>2, <2>1, <2>2
<1> QED
  BY Zenon, <1>1, <1>2

\* A turn that emits one instruction, which does not branch.
LEMMA HeightOne ==
    ASSUME Turn, low' = "ops", ctrl # <<>>, ctrl' = ctrl, NEW x \in KnownOp, ~ Branchy(x),
           code' = code \o <<x>>, hv' = hv \o Heights(<<h>>),
           \A i \in 1 .. Len(ctrl) : val'.frames[i].reach = val.frames[i].reach,
           NEW m, m = KM(Len(consts')), InstrOk(m, FM, x),
           SmallTypes /\ Live => /\ h >= Need(m, FM, x)
                                 /\ x.op \notin NoFall => Here' /\ h' = NextHeight(m, FM, x, h)
    PROVE  HeightsOk'
<1>t. /\ code \in Seq(KnownOp) /\ hv \in Seq(Int) /\ Len(hv) = Len(code) /\ cur.off \in Nat
      /\ cur.off <= Len(code) /\ ctrl \in Seq(Label) /\ LabelsOk(ctrl, cur.off, Len(code)) /\ h \in Nat
  BY Zenon, TurnTypes
<1>1. PICK y \in Int : Heights(<<h>>) = <<y>> /\ (Live => y = h) /\ (~ Live => y = -1)
  <2>1. h \in Int
    BY <1>t
  <2> QED
    BY Zenon, <2>1, MarkOne
<1>2. Flowing(m, FM, cur.off, code, hv, ctrl, val.frames, h, Here, SmallTypes)
  BY Zenon, TurnFacts
<1>3. SmallTypes /\ Here => y = h
  BY Zenon, <1>1 DEF Here
<1>4. SmallTypes /\ y >= 0 => /\ y >= Need(m, FM, x)
                              /\ x.op \notin NoFall => Here' /\ h' = NextHeight(m, FM, x, y)
  <2> SUFFICES ASSUME SmallTypes, y >= 0
               PROVE  y >= Need(m, FM, x) /\ (x.op \notin NoFall => Here' /\ h' = NextHeight(m, FM, x, y))
    BY Zenon
  <2>1. Live
    BY <1>1
  <2> QED
    BY Zenon, <1>1, <2>1
<1> DEFINE fr == val.frames
           fr2 == val'.frames
           off == cur.off
           n == Len(code)
<1>5. /\ \A i \in 1 .. Len(ctrl) : fr2[i].reach = fr[i].reach
      /\ Flowing(m, FM, off, code, hv, ctrl, fr, h, Here, SmallTypes)
      /\ off \in Nat /\ LabelsOk(ctrl, off, n)
  BY Zenon, <1>t, <1>2
<1> HIDE DEF fr, fr2, off, n
<1>6. Flowing(m, FM, off, code \o <<x>>, hv \o <<y>>, ctrl, fr2, h', Here', SmallTypes)
  BY ONLY Zenon, <1>t, <1>1, <1>3, <1>4, <1>5, x \in KnownOp, ~ Branchy(x), InstrOk(m, FM, x), FlowOne
<1>7. /\ <<x>> \in Seq(KnownOp) /\ <<y>> \in Seq(Int) /\ Len(<<y>>) = Len(<<x>>)
  OBVIOUS
<1>8. /\ hv \o <<y>> \in Seq(Int) /\ Len(hv \o <<y>>) = Len(code \o <<x>>)
      /\ \A q \in 1 .. cur.off : (code \o <<x>>)[q] = code[q] /\ (hv \o <<y>>)[q] = hv[q]
  <2> DEFINE cs == <<x>>
             vs == <<y>>
  <2>1. cs \in Seq(KnownOp) /\ vs \in Seq(Int) /\ Len(vs) = Len(cs)
    BY Zenon, <1>7
  <2> HIDE DEF cs, vs
  <2>f. Fits(code, hv, cs, vs, cur.off)
    BY Zenon, <1>t, <2>1 DEF Fits
  <2>g. Extended(code, hv, code \o cs, hv \o vs, cur.off)
    BY Zenon, <2>f, Longer
  <2>2. /\ hv \o vs \in Seq(Int) /\ Len(hv \o vs) = Len(code \o cs)
        /\ \A q \in 1 .. cur.off : (code \o cs)[q] = code[q] /\ (hv \o vs)[q] = hv[q]
    BY Zenon, <2>g DEF Extended
  <2> QED
    BY Zenon, <2>2 DEF cs, vs
<1>9. Flowing(KM(Len(consts')), FM, cur.off, code', hv', ctrl', val'.frames, h', Here', SmallTypes)
  BY Zenon, <1>1, <1>6 DEF fr2, off
<1>10. Ended(ctrl', code', cur.off)
  BY Zenon DEF Ended
<1>11. /\ hv' \in Seq(Int) /\ Len(hv') = Len(code')
       /\ \A q \in 1 .. cur.off : code'[q] = code[q] /\ hv'[q] = hv[q]
  BY Zenon, <1>1, <1>8
<1> QED
  BY Zenon, <1>9, <1>10, <1>11, HeightStep

\* What a plain operator pops and pushes.
LEMMA PlainRow ==
    ASSUME NEW o, OperatorOk(o), o.k = "plain"
    PROVE  o.code = <<>> \/ Row(o.code[1].op, o.pops, o.pushes)
<1>1. PlainOperator(o)
  BY Zenon DEF OperatorOk
<1> USE DEF Simple, Emits, Cu, Row
<1>2. CASE o \in {Nop, Emits(<<>>, 1, 1)}
  BY <1>2 DEF Nop
<1>3. CASE o \in StackOps \cup I32Ops \cup I64Ops \cup WideOps \cup I64Tests
  BY <1>3 DEF StackOps, I32Ops, I64Ops, WideOps, I64Tests
<1>4. CASE /\ o.code[1].a \in Nat /\ o.code[1].b \in Nat
           /\ o \in GlobalOps(o.code[1].b) \cup LocalOps(o.code[1].a) \cup MemoryOps(o.code[1].a)
                    \cup {Load(o.code[1].a, o.code[1].b), Store(o.code[1].a, o.code[1].b),
                          Clz(o.code[1].a)}
  <2>1. CASE o \in GlobalOps(o.code[1].b) \cup LocalOps(o.code[1].a)
    BY <2>1 DEF GlobalOps, LocalOps
  <2>2. CASE o \in MemoryOps(o.code[1].a)
    BY <2>2 DEF MemoryOps
  <2>3. CASE o \in {Load(o.code[1].a, o.code[1].b), Store(o.code[1].a, o.code[1].b), Clz(o.code[1].a)}
    BY <2>3 DEF Load, Store, Clz
  <2> QED
    BY <1>4, <2>1, <2>2, <2>3
<1> QED
  BY <1>1, <1>2, <1>3, <1>4 DEF PlainOperator

\* The frames stay, and so does whether the code is reached.
LEMMA HereSame ==
    ASSUME ctrl # <<>>, ctrl' # <<>>, val'.frames = val.frames
    PROVE  /\ Here' = Here /\ Here = Live
           /\ \A i \in 1 .. Len(ctrl) : val'.frames[i].reach = val.frames[i].reach
  BY Zenon DEF Here, Live, VTop

\* Operands that the validator pops are there, where the code is reached.
LEMMA TurnPops ==
    ASSUME Turn, ctrl # <<>>, NEW n \in Nat, CanPop(n)
    PROVE  Live => ~ dead /\ h >= n /\ h = val.h
<1>1. Types /\ Agreed
  BY Zenon DEF Turn
<1>2. /\ Live => ~ dead /\ h = val.h
      /\ Live => val.h >= VTop.base + n
  BY Zenon, <1>1, PopsOk
<1>3. VTop.base \in Nat /\ val.h \in Nat
  BY Zenon, <1>1, TopFrame DEF Agreed
<1> QED
  BY <1>2, <1>3

\* A turn that emits nothing and moves no operands.
LEMMA HeightNone ==
    ASSUME Turn, low' = "ops", ctrl # <<>>, ctrl' = ctrl, code' = code, hv' = hv,
           val'.frames = val.frames, Live => h' = h
    PROVE  HeightsOk'
<1>t. /\ code \in Seq(KnownOp) /\ hv \in Seq(Int) /\ Len(hv) = Len(code) /\ cur.off \in Nat
      /\ ctrl \in Seq(Label)
  BY Zenon, TurnTypes
<1> DEFINE m == KM(Len(consts'))
<1>1. Flowing(m, FM, cur.off, code, hv, ctrl, val.frames, h, Here, SmallTypes)
  BY Zenon, TurnFacts
<1> HIDE DEF m
<1>2. Here' = Here /\ Here = Live
  BY Zenon, HereSame
<1>3. Flowing(m, FM, cur.off, code, hv, ctrl, val'.frames, h', Here', SmallTypes)
  <2>1. CASE Live
    BY Zenon, <1>1, <1>2, <2>1
  <2>2. CASE ~ Live
    <3>1. ~ Here /\ ~ Here'
      BY Zenon, <1>2, <2>2
    <3> QED
      BY ONLY <1>1, <3>1, <1>t, FlowIdle, val'.frames = val.frames
  <2> QED
    BY Zenon, <2>1, <2>2
<1>4. Ended(ctrl', code', cur.off)
  BY Zenon DEF Ended
<1>5. /\ hv' \in Seq(Int) /\ Len(hv') = Len(code')
      /\ \A q \in 1 .. cur.off : code'[q] = code[q] /\ hv'[q] = hv[q]
  BY Zenon, <1>t
<1>6. Flowing(KM(Len(consts')), FM, cur.off, code', hv', ctrl', val'.frames, h', Here', SmallTypes)
  BY Zenon, <1>3 DEF m
<1> QED
  BY <1>4, <1>5, <1>6, HeightStep

-----------------------------------------------------------------------------
\* The operators, one by one: those that only pop and push.
LEMMA HeightPlain ==
    ASSUME Turn, NEW o, OperatorOk(o), Plain(o)
    PROVE  HeightsOk'
<1> DEFINE hs == [j \in 1 .. Len(o.code) |-> h]
<1>1. /\ o.k = "plain" /\ ctrl # <<>> /\ CanPop(o.pops) /\ LocalsOk(o)
      /\ \/ Short(o.pops) /\ Fail(o.code, consts)
         \/ /\ ~ Short(o.pops) /\ Emit(o.code, hs) /\ h' = Consumed(o.pops, o.pushes)
            /\ val' = Typed(o.pops, o.pushes) /\ low' = low /\ ctrl' = ctrl
  BY Zenon DEF Plain, Read, Turn
<1>2. PlainShape(o) /\ (o.code = <<>> \/ Row(o.code[1].op, o.pops, o.pushes))
  BY <1>1, PlainType, PlainRow
<1>3. o.pops \in Nat /\ o.pushes \in Nat /\ o.code \in Seq(KnownOp)
  <2>1. ASSUME NEW x \in KnownOp PROVE <<x>> \in Seq(KnownOp)
    OBVIOUS
  <2>2. <<>> \in Seq(KnownOp)
    OBVIOUS
  <2> QED
    BY Zenon, <1>2, <2>1, <2>2 DEF PlainShape
<1>h. h \in Nat /\ code \in Seq(KnownOp) /\ hv \in Seq(Int)
  BY Zenon, TurnTypes
<1>4. CASE Fail(o.code, consts)
  BY <1>3, <1>4, HeightFail
<1>5. CASE /\ Emit(o.code, hs) /\ h' = Consumed(o.pops, o.pushes)
           /\ val' = Typed(o.pops, o.pushes) /\ low' = low /\ ctrl' = ctrl
  <2>1. low' = "ops" /\ val'.frames = val.frames /\ ctrl' # <<>>
    BY Zenon, <1>1, <1>5 DEF Typed, Turn
  <2>2. Live => h >= o.pops /\ h' = (h - o.pops) + o.pushes
    BY <1>1, <1>3, <1>5, TurnPops DEF Consumed
  <2>3. CASE o.code = <<>>
    <3>1. o.pops = o.pushes
      BY <1>2, <2>3 DEF PlainShape
    <3>2. code' = code
      BY <1>5, <1>h, <2>3 DEF Emit
    <3>3. Heights(hs) = <<>>
      <4>1. hs = <<>>
        <5>1. Len(o.code) = 0
          BY <2>3
        <5> QED
          BY <5>1
      <4> HIDE DEF hs
      <4>2. Len(hs) = 0 /\ [i \in 1 .. Len(hs) |-> -1] = <<>>
        BY <4>1
      <4> QED
        BY Zenon, <4>1, <4>2 DEF Heights
    <3>4. hv' = hv
      <4>1. hv' = hv \o Heights(hs)
        BY Zenon, <1>5 DEF Emit
      <4>2. hv \o <<>> = hv
        BY ONLY <1>h
      <4> QED
        BY ONLY Zenon, <3>3, <4>1, <4>2
    <3>5. Live => h' = h
      BY <1>3, <1>h, <2>2, <3>1
    <3> QED
      BY <1>1, <1>5, <2>1, <3>2, <3>4, <3>5, HeightNone
  <2>4. CASE o.code # <<>>
    <3> DEFINE x == o.code[1]
               m == KM(Len(consts'))
    <3>1. o.code = <<x>> /\ x \in KnownOp /\ ~ Branchy(x) /\ Row(x.op, o.pops, o.pushes)
      BY Zenon, <1>2, <2>4 DEF PlainShape
    <3>2. hs = <<h>>
      <4>1. Len(o.code) = 1
        BY <3>1
      <4> QED
        BY <4>1
    <3>3. code' = code \o <<x>> /\ hv' = hv \o Heights(<<h>>)
      BY Zenon, <1>5, <3>1, <3>2 DEF Emit
    <3>4. x.op \in {"LOCAL_GET", "LOCAL_SET"} => x.a < NumLocals(FM)
      <4>1. x.op \in {"LOCAL_GET", "LOCAL_SET"} => x.a < cur.np + cur.locals
        <5>1. 1 \in 1 .. Len(o.code)
          BY <3>1
        <5> QED
          BY Zenon, <1>1, <5>1 DEF LocalsOk
      <4>2. cur.locals <= cur.nl
        BY DEF Turn, HeightsOk, CurOk
      <4>3. cur.np \in Nat /\ cur.locals \in Nat /\ cur.nl \in Nat /\ x.a \in Nat
        <5>1. CurType
          BY Zenon DEF Turn, Types
        <5> QED
          BY Zenon, <3>1, <5>1 DEF CurType, KnownOp
      <4>4. NumLocals(FM) = cur.np + cur.nl
        BY Zenon DEF NumLocals, FM, Meta
      <4> QED
        BY <4>1, <4>2, <4>3, <4>4
    <3>5. h \in Int
      BY <1>h
    <3> HIDE DEF m, x
    <3>6. /\ Need(m, FM, x) = o.pops /\ NextHeight(m, FM, x, h) = (h - o.pops) + o.pushes
          /\ InstrOk(m, FM, x)
      BY <3>1, <3>4, <3>5, RowHeights
    <3>7. Here' = Here /\ Here = Live
          /\ \A i \in 1 .. Len(ctrl) : val'.frames[i].reach = val.frames[i].reach
      BY Zenon, <1>1, <2>1, HereSame
    <3>8. SmallTypes /\ Live => /\ h >= Need(m, FM, x)
                                /\ x.op \notin NoFall => Here' /\ h' = NextHeight(m, FM, x, h)
      BY Zenon, <2>2, <3>6, <3>7
    <3>9. m = KM(Len(consts'))
      BY Zenon DEF m
    <3> QED
      BY ONLY Turn, <1>1, <1>5, <2>1, <3>1, <3>3, <3>6, <3>7, <3>8, <3>9, HeightOne
  <2> QED
    BY Zenon, <2>3, <2>4
<1> QED
  BY Zenon, <1>1, <1>4, <1>5

\* The function in work, as the instructions see it.
LEMMA TurnFunc ==
    ASSUME Turn
    PROVE  /\ NumLocals(FM) = cur.np + cur.nl /\ FM.n_results = cur.nr
           /\ cur.np \in Nat /\ cur.nl \in Nat /\ cur.nr \in Nat /\ cur.locals \in Nat
           /\ cur.scratch \in Int /\ cur.locals <= cur.nl
           /\ cur.scratch >= 0 => cur.scratch = (cur.np + cur.nl) - 1
<1>1. CurType /\ CurOk
  BY Zenon DEF Turn, Types, HeightsOk
<1>2. NumLocals(FM) = cur.np + cur.nl /\ FM.n_results = cur.nr
  BY Zenon DEF NumLocals, FM, Meta
<1> QED
  BY <1>1, <1>2 DEF CurType, CurOk

\* A constant keeps the heights consistent.
LEMMA HeightConst ==
    ASSUME Turn, NEW o, OperatorOk(o), Const(o)
    PROVE  HeightsOk'
<1> DEFINE x == Cu("I64_CONST", 0, InternAt(o.v))
           m == KM(Len(consts'))
<1>1. /\ o.k = "const" /\ ctrl # <<>> /\ consts' = Intern(o.v) /\ Emit(<<x>>, <<h>>)
      /\ h' = Consumed(0, 1) /\ val' = Typed(0, 1) /\ low' = low /\ ctrl' = ctrl
  BY Zenon DEF Const, Read
<1>2. o.v \in Word
  BY Zenon, <1>1, OperandTypes DEF Word
<1>3. consts \in Seq(Word) /\ Types
  BY Zenon DEF Turn, Types, LowTypes
<1>4. InternAt(o.v) \in Nat /\ InternAt(o.v) < Len(consts') /\ Len(consts') \in Nat
  BY <1>1, <1>2, <1>3, InternType, TurnTypes
<1>5. x \in KnownOp /\ x.op = "I64_CONST" /\ x.b = InternAt(o.v)
  BY Zenon, <1>4 DEF Cu, KnownOp, KnownOps, PushOne
<1>6. code' = code \o <<x>> /\ hv' = hv \o Heights(<<h>>)
  BY Zenon, <1>1 DEF Emit
<1>7. low' = "ops" /\ val'.frames = val.frames /\ ctrl' # <<>> /\ ctrl' = ctrl
  BY Zenon, <1>1 DEF Typed, Turn
<1>8. m.n_consts = Len(consts')
  BY Zenon, <1>3, <1>4, KnownFields
<1>m. m = KM(Len(consts'))
  BY Zenon
<1> HIDE DEF x, m
<1>9. InstrOk(m, FM, x) /\ ~ Branchy(x)
  BY Zenon, <1>4, <1>5, <1>8 DEF InstrOk, Branchy
<1>10. /\ Here' = Here /\ Here = Live
       /\ \A i \in 1 .. Len(ctrl) : val'.frames[i].reach = val.frames[i].reach
  BY Zenon, <1>1, <1>7, HereSame
<1>11. Live => ~ dead /\ h \in Nat
  <2>1. CanPop(0)
    BY Zenon, <1>1, PopsOk DEF Turn
  <2> QED
    BY Zenon, <1>1, <2>1, TurnPops, TurnTypes
<1>12. SmallTypes /\ Live => /\ h >= Need(m, FM, x)
                             /\ x.op \notin NoFall => Here' /\ h' = NextHeight(m, FM, x, h)
  <2> SUFFICES ASSUME Live PROVE h >= Need(m, FM, x) /\ Here' /\ h' = NextHeight(m, FM, x, h)
    BY Zenon
  <2>1. Need(m, FM, x) = 0
    BY Zenon, <1>5 DEF Need, PopOne, Returns
  <2>2. NextHeight(m, FM, x, h) = h + 1
    BY Zenon, <1>5 DEF NextHeight, PushOne
  <2>3. h' = h + 1
    BY <1>1, <1>11 DEF Consumed
  <2> QED
    BY <1>10, <1>11, <2>1, <2>2, <2>3
<1> QED
  BY ONLY Turn, <1>1, <1>m, <1>5, <1>6, <1>7, <1>9, <1>10, <1>12, HeightOne

\* Cut leaves alone which blocks are reached; what follows in this one is not.
LEMMA CutReach ==
    ASSUME Turn, ctrl # <<>>, val' = Cut
    PROVE  /\ \A i \in 1 .. Len(ctrl) : val'.frames[i].reach = val.frames[i].reach
           /\ Len(ctrl') = Len(ctrl) => ~ Here'
<1>1. Types /\ Agreed
  BY Zenon DEF Turn
<1>2. /\ Len(ctrl) \in Nat \ {0} /\ Len(val.frames) = Len(ctrl) /\ VTop = val.frames[Len(ctrl)]
  BY Zenon, <1>1, TopFrame
<1>3. val.frames \in Seq(Frame) /\ val.frames # <<>>
  BY Zenon, <1>1, <1>2 DEF Agreed
<1>4. /\ Len(val'.frames) = Len(ctrl)
      /\ \A i \in 1 .. Len(ctrl) - 1 : val'.frames[i] = val.frames[i]
      /\ val'.frames[Len(ctrl)].reach = VTop.reach /\ val'.frames[Len(ctrl)].poly
  BY Zenon, <1>2, <1>3, CutShape
<1>5. ~ Live'
  BY Zenon, <1>4 DEF Live, VTop
<1> QED
  BY <1>2, <1>4, <1>5 DEF Here

\* Operators after which code is dead.
LEMMA HeightStop ==
    ASSUME Turn, NEW o, OperatorOk(o), Stop(o)
    PROVE  HeightsOk'
<1> DEFINE x == IF o.k = "return" THEN Cu("RETURN", cur.nr, 0) ELSE Cu("UNREACHABLE", 0, 0)
           m == KM(Len(consts'))
<1>1. /\ ctrl # <<>> /\ (o.k = "return" => CanPop(cur.nr)) /\ Emit(<<x>>, <<h>>)
      /\ val' = Cut /\ low' = low /\ ctrl' = ctrl
  BY Zenon DEF Stop, Read, Turn
<1>2. cur.nr \in Nat /\ h \in Nat /\ FM.n_results = cur.nr
  BY Zenon, TurnFunc, TurnTypes
<1>3. x \in KnownOp /\ x.op = IF o.k = "return" THEN "RETURN" ELSE "UNREACHABLE"
  BY Zenon, <1>2 DEF Cu, KnownOp, KnownOps, Control, Returns
<1>4. code' = code \o <<x>> /\ hv' = hv \o Heights(<<h>>) /\ low' = "ops" /\ ctrl' = ctrl
  BY Zenon, <1>1 DEF Emit, Turn
<1>m. m = KM(Len(consts'))
  BY Zenon
<1> HIDE DEF x, m
<1>5. InstrOk(m, FM, x) /\ ~ Branchy(x) /\ x.op \in NoFall
  BY Zenon, <1>3 DEF InstrOk, Branchy, NoFall, Returns
<1>6. \A i \in 1 .. Len(ctrl) : val'.frames[i].reach = val.frames[i].reach
  BY Zenon, <1>1, CutReach
<1>7. Live => h >= Need(m, FM, x)
  <2>1. CASE o.k = "return"
    <3>1. Need(m, FM, x) = cur.nr
      BY <1>2, <1>3, <2>1 DEF Need, PopOne, Returns
    <3> QED
      BY <1>1, <1>2, <2>1, <3>1, TurnPops
  <2>2. CASE o.k # "return"
    BY <1>2, <1>3, <2>2 DEF Need, PopOne, Returns
  <2> QED
    BY Zenon, <2>1, <2>2
<1>8. SmallTypes /\ Live => /\ h >= Need(m, FM, x)
                            /\ x.op \notin NoFall => Here' /\ h' = NextHeight(m, FM, x, h)
  BY Zenon, <1>5, <1>7
<1> QED
  BY ONLY Turn, <1>1, <1>m, <1>3, <1>4, <1>5, <1>6, <1>8, HeightOne

\* The arity of a type that exists, and that it is small where types are.
LEMMA TurnArity ==
    ASSUME Turn, NEW t \in Nat, t < Len(func_types)
    PROVE  /\ Arity(t).np \in Nat /\ Arity(t).nr \in Nat
           /\ SmallTypes => Arity(t).np <= 8 /\ Arity(t).nr <= 8
<1>1. func_types \in Seq(FuncType)
  BY Zenon DEF Turn, Types, ModTypes
<1>2. Arity(t) \in [np : Nat, nr : Nat]
  BY Zenon, <1>1, ArityType
<1>3. t + 1 \in 1 .. Len(func_types)
  BY <1>1
<1> QED
  BY Zenon, <1>2, <1>3 DEF SmallTypes, Arity

\* call keeps the heights consistent.
LEMMA HeightCall ==
    ASSUME Turn, NEW o, OperatorOk(o), Call(o)
    PROVE  HeightsOk'
<1> DEFINE t == FuncArity(o.f)
           x == IF o.f < Len(host_fn_ids)
                THEN Cu("CALL_HOST", t.np + 256 * t.nr, host_fn_ids[o.f + 1])
                ELSE Cu("CALL", 0, o.f)
           m == KM(Len(consts'))
<1>1. /\ o.k = "call" /\ ctrl # <<>> /\ HasArity(o.f) /\ CanPop(t.np)
      /\ \/ Fail(<<x>>, consts)
         \/ /\ Emit(<<x>>, <<h>>) /\ h' = Consumed(t.np, t.nr) /\ val' = Typed(t.np, t.nr)
            /\ low' = low /\ ctrl' = ctrl
  BY Zenon DEF Call, Read, Turn
<1>2. o.f \in Word /\ o.f \in Nat
  BY Zenon, <1>1, OperandTypes DEF Word
<1>3. func_types \in Seq(FuncType) /\ func_typeidx \in Seq(Nat) /\ host_fn_ids \in Seq(Nat) /\ Types
  BY Zenon DEF Turn, Types, ModTypes
<1>4. x \in KnownOp /\ t.np \in Nat /\ t.nr \in Nat
  BY Zenon, <1>1, <1>2, <1>3, CallType
<1>5. CASE Fail(<<x>>, consts)
  <2> HIDE DEF x
  <2>1. <<x>> \in Seq(KnownOp)
    BY <1>4
  <2> QED
    BY Zenon, <1>5, <2>1, HeightFail
<1>6. CASE /\ Emit(<<x>>, <<h>>) /\ h' = Consumed(t.np, t.nr) /\ val' = Typed(t.np, t.nr)
           /\ low' = low /\ ctrl' = ctrl
  <2>1. /\ code' = code \o <<x>> /\ hv' = hv \o Heights(<<h>>) /\ low' = "ops"
        /\ val'.frames = val.frames /\ ctrl' # <<>> /\ ctrl' = ctrl
    BY Zenon, <1>1, <1>6 DEF Emit, Typed, Turn
  <2>2. /\ Here' = Here /\ Here = Live
        /\ \A i \in 1 .. Len(ctrl) : val'.frames[i].reach = val.frames[i].reach
    BY Zenon, <1>1, <2>1, HereSame
  <2>3. Live => h \in Nat /\ h >= t.np /\ h' = (h - t.np) + t.nr
    BY <1>1, <1>4, <1>6, TurnPops, TurnTypes DEF Consumed
  <2>4. /\ m.n_funcs = Len(func_typeidx) /\ m.n_host_imports = Len(host_fn_ids)
        /\ m.funcs[o.f].n_params = t.np /\ m.funcs[o.f].n_results = t.nr
    <3>1. o.f \in 0 .. Len(func_typeidx) - 1 /\ Len(consts') \in Nat
      BY <1>1, <1>2, <1>3, TurnTypes DEF HasArity
    <3> QED
      BY Zenon, <1>3, <3>1, KnownFields
  <2>5. SmallTypes => t.np <= 8 /\ t.nr <= 8
    <3>1. func_typeidx[o.f + 1] \in Nat /\ func_typeidx[o.f + 1] < Len(func_types)
      BY <1>1, <1>2, <1>3 DEF HasArity
    <3> QED
      BY Zenon, <3>1, TurnArity DEF FuncArity
  <2>6. IF o.f < Len(host_fn_ids) THEN x.op = "CALL_HOST" /\ x.a = t.np + 256 * t.nr
        ELSE x.op = "CALL" /\ x.b = o.f
    BY Zenon DEF Cu
  <2>m. m = KM(Len(consts'))
    BY Zenon
  <2>7. Len(host_fn_ids) \in Nat /\ o.f < Len(func_typeidx)
    BY <1>1, <1>3 DEF HasArity
  <2> HIDE DEF x, m, t
  <2>8. InstrOk(m, FM, x) /\ ~ Branchy(x)
    BY <1>2, <2>4, <2>6, <2>7 DEF InstrOk, Branchy
  <2>9. SmallTypes => Need(m, FM, x) = t.np /\ NextHeight(m, FM, x, h) = (h - t.np) + t.nr
    <3>1. CASE o.f < Len(host_fn_ids)
      <4>1. x.op = "CALL_HOST" /\ x.a = t.np + 256 * t.nr
        BY Zenon, <2>6, <3>1
      <4>2. SmallTypes => HostParams(x) = t.np /\ HostResults(x) = t.nr
        BY <1>4, <2>5, <4>1, HostPacked
      <4>3. Need(m, FM, x) = HostParams(x)
        BY Zenon, <4>1 DEF Need, PopOne, Returns
      <4>4. NextHeight(m, FM, x, h) = (h - HostParams(x)) + HostResults(x)
        BY Zenon, <4>1 DEF NextHeight, PushOne, LoseOne, Bulk
      <4> QED
        BY Zenon, <4>2, <4>3, <4>4
    <3>2. CASE ~ (o.f < Len(host_fn_ids))
      <4>1. x.op = "CALL" /\ x.b = o.f
        BY Zenon, <2>6, <3>2
      <4>2. Need(m, FM, x) = m.funcs[x.b].n_params
        BY Zenon, <4>1 DEF Need, PopOne, Returns
      <4>3. NextHeight(m, FM, x, h) = (h - m.funcs[x.b].n_params) + m.funcs[x.b].n_results
        BY Zenon, <4>1 DEF NextHeight, PushOne, LoseOne, Bulk
      <4> QED
        BY Zenon, <2>4, <4>1, <4>2, <4>3
    <3> QED
      BY Zenon, <3>1, <3>2
  <2>10. SmallTypes /\ Live => /\ h >= Need(m, FM, x)
                               /\ x.op \notin NoFall => Here' /\ h' = NextHeight(m, FM, x, h)
    BY Zenon, <2>2, <2>3, <2>9
  <2> QED
    BY ONLY Turn, <1>1, <1>4, <2>m, <2>1, <2>2, <2>8, <2>10, HeightOne
<1> QED
  BY Zenon, <1>1, <1>5, <1>6

\* return_call keeps the heights consistent.
LEMMA HeightReturnCall ==
    ASSUME Turn, NEW o, OperatorOk(o), ReturnCall(o)
    PROVE  HeightsOk'
<1> DEFINE t == FuncArity(o.f)
           x == Cu("RETURN_CALL", 0, o.f)
           m == KM(Len(consts'))
<1>1. /\ o.k = "return_call" /\ ctrl # <<>> /\ HasArity(o.f) /\ CanPop(t.np) /\ t.nr = cur.nr
      /\ \/ Fail(<<>>, consts)
         \/ /\ ~ (o.f < Len(host_fn_ids)) /\ Emit(<<x>>, <<h>>) /\ val' = Cut
            /\ low' = low /\ ctrl' = ctrl
  BY Zenon DEF ReturnCall, Read, Turn
<1>2. o.f \in Nat
  BY Zenon, <1>1, OperandTypes
<1>3. func_types \in Seq(FuncType) /\ func_typeidx \in Seq(Nat) /\ host_fn_ids \in Seq(Nat) /\ Types
  BY Zenon DEF Turn, Types, ModTypes
<1>4. x \in KnownOp /\ x.op = "RETURN_CALL" /\ x.b = o.f
  BY Zenon, <1>2 DEF Cu, KnownOp, KnownOps, Control
<1>5. CASE Fail(<<>>, consts)
  <2>1. <<>> \in Seq(KnownOp)
    OBVIOUS
  <2> QED
    BY Zenon, <1>5, <2>1, HeightFail
<1>6. CASE /\ ~ (o.f < Len(host_fn_ids)) /\ Emit(<<x>>, <<h>>) /\ val' = Cut
           /\ low' = low /\ ctrl' = ctrl
  <2>1. /\ code' = code \o <<x>> /\ hv' = hv \o Heights(<<h>>) /\ low' = "ops" /\ ctrl' = ctrl
    BY Zenon, <1>6 DEF Emit, Turn
  <2>2. \A i \in 1 .. Len(ctrl) : val'.frames[i].reach = val.frames[i].reach
    BY Zenon, <1>1, <1>6, CutReach
  <2>3. func_typeidx[o.f + 1] \in Nat /\ func_typeidx[o.f + 1] < Len(func_types)
    BY <1>1, <1>2, <1>3 DEF HasArity
  <2>4. t.np \in Nat
    BY Zenon, <2>3, TurnArity DEF FuncArity
  <2>5. Live => h >= t.np
    BY <1>1, <2>4, TurnPops
  <2>6. /\ m.n_funcs = Len(func_typeidx) /\ m.n_host_imports = Len(host_fn_ids)
        /\ m.funcs[o.f].n_params = t.np /\ m.funcs[o.f].n_results = t.nr
    <3>1. o.f \in 0 .. Len(func_typeidx) - 1 /\ Len(consts') \in Nat
      BY <1>1, <1>2, <1>3, TurnTypes DEF HasArity
    <3> QED
      BY Zenon, <1>3, <3>1, KnownFields
  <2>7. /\ Len(host_fn_ids) \in Nat /\ o.f < Len(func_typeidx) /\ ~ (o.f < Len(host_fn_ids))
        /\ FM.n_results = t.nr
    BY <1>1, <1>3, <1>6, TurnFunc DEF HasArity
  <2>m. m = KM(Len(consts'))
    BY Zenon
  <2> HIDE DEF x, m, t
  <2>8. InstrOk(m, FM, x) /\ ~ Branchy(x) /\ x.op \in NoFall
    BY <1>2, <1>4, <2>6, <2>7 DEF InstrOk, Branchy, NoFall
  <2>9. Need(m, FM, x) = m.funcs[x.b].n_params
    BY Zenon, <1>4 DEF Need, PopOne, Returns
  <2>10. SmallTypes /\ Live => /\ h >= Need(m, FM, x)
                               /\ x.op \notin NoFall => Here' /\ h' = NextHeight(m, FM, x, h)
    BY <1>4, <2>5, <2>6, <2>8, <2>9
  <2> QED
    BY ONLY Turn, <1>1, <1>4, <2>m, <2>1, <2>2, <2>8, <2>10, HeightOne
<1> QED
  BY Zenon, <1>1, <1>5, <1>6

\* call_indirect keeps the heights consistent.
LEMMA HeightCallIndirect ==
    ASSUME Turn, NEW o, OperatorOk(o), CallIndirect(o)
    PROVE  HeightsOk'
<1> DEFINE t == Arity(o.t)
           x == Cu("CALL_INDIRECT", 0, o.t)
           m == KM(Len(consts'))
<1>1. /\ o.k = "call_indirect" /\ ctrl # <<>> /\ o.t < Len(func_types) /\ CanPop(1 + t.np)
      /\ \/ Fail(<<>>, consts) \/ Fail(<<x>>, consts)
         \/ /\ Emit(<<x>>, <<h>>) /\ h' = Consumed(1 + t.np, t.nr) /\ val' = Typed(1 + t.np, t.nr)
            /\ low' = low /\ ctrl' = ctrl
  BY Zenon DEF CallIndirect, Read, Turn
<1>2. o.t \in Nat
  BY Zenon, <1>1, OperandTypes
<1>3. func_types \in Seq(FuncType) /\ Types
  BY Zenon DEF Turn, Types, ModTypes
<1>4. x \in KnownOp /\ x.op = "CALL_INDIRECT" /\ x.b = o.t
  BY Zenon, <1>2 DEF Cu, KnownOp, KnownOps, Control
<1>t. t.np \in Nat /\ t.nr \in Nat
  BY Zenon, <1>1, <1>2, TurnArity
<1>5. CASE Fail(<<>>, consts) \/ Fail(<<x>>, consts)
  <2> HIDE DEF x
  <2>1. <<x>> \in Seq(KnownOp) /\ <<>> \in Seq(KnownOp)
    BY <1>4
  <2> QED
    BY Zenon, <1>5, <2>1, HeightFail
<1>6. CASE /\ Emit(<<x>>, <<h>>) /\ h' = Consumed(1 + t.np, t.nr) /\ val' = Typed(1 + t.np, t.nr)
           /\ low' = low /\ ctrl' = ctrl
  <2>1. /\ code' = code \o <<x>> /\ hv' = hv \o Heights(<<h>>) /\ low' = "ops"
        /\ val'.frames = val.frames /\ ctrl' # <<>> /\ ctrl' = ctrl
    BY Zenon, <1>1, <1>6 DEF Emit, Typed, Turn
  <2>2. /\ Here' = Here /\ Here = Live
        /\ \A i \in 1 .. Len(ctrl) : val'.frames[i].reach = val.frames[i].reach
    BY Zenon, <1>1, <2>1, HereSame
  <2>3. Live => h \in Nat /\ h >= 1 + t.np /\ h' = (h - (1 + t.np)) + t.nr
    <3>1. 1 + t.np \in Nat
      BY <1>t
    <3> QED
      BY <1>1, <1>6, <3>1, TurnPops, TurnTypes DEF Consumed
  <2>4. m.n_types = Len(func_types) /\ m.type_fp[o.t].np = t.np /\ m.type_fp[o.t].nr = t.nr
    <3>1. o.t \in 0 .. Len(func_types) - 1 /\ Len(consts') \in Nat
      BY <1>1, <1>2, <1>3, TurnTypes
    <3> QED
      BY Zenon, <1>3, <3>1, KnownFields
  <2>m. m = KM(Len(consts'))
    BY Zenon
  <2> HIDE DEF x, m, t
  <2>5. InstrOk(m, FM, x) /\ ~ Branchy(x)
    BY Zenon, <1>1, <1>4, <2>4 DEF InstrOk, Branchy
  <2>6. Need(m, FM, x) = 1 + m.type_fp[x.b].np
    BY Zenon, <1>4 DEF Need, PopOne, Returns
  <2>7. NextHeight(m, FM, x, h) = ((h - 1) - m.type_fp[x.b].np) + m.type_fp[x.b].nr
    BY Zenon, <1>4 DEF NextHeight, PushOne, LoseOne, Bulk
  <2>8. Live => h >= Need(m, FM, x) /\ h' = NextHeight(m, FM, x, h)
    BY <1>t, <1>4, <2>3, <2>4, <2>6, <2>7
  <2>9. SmallTypes /\ Live => /\ h >= Need(m, FM, x)
                              /\ x.op \notin NoFall => Here' /\ h' = NextHeight(m, FM, x, h)
    BY Zenon, <2>2, <2>8
  <2> QED
    BY ONLY Turn, <1>1, <1>4, <2>m, <2>1, <2>2, <2>5, <2>9, HeightOne
<1> QED
  BY Zenon, <1>1, <1>5, <1>6

\* The index of a br_table goes to the scratch local.
LEMMA HeightBrTable ==
    ASSUME Turn, NEW o, OperatorOk(o), BrTable(o)
    PROVE  HeightsOk'
<1> DEFINE x == Cu("LOCAL_SET", cur.scratch, 0)
           m == KM(Len(consts'))
<1>1. /\ o.k = "br_table" /\ ctrl # <<>> /\ cur.scratch >= 0
      /\ \A j \in 1 .. Len(o.ds) : CanBranch(o.ds[j], 1)
      /\ \/ Fail(<<x>>, consts)
         \/ /\ Emit(<<x>>, <<h>>) /\ h' = Consumed(1, 0) /\ val' = Typed(1, 0)
            /\ low' = low /\ ctrl' = ctrl
  BY Zenon DEF BrTable, Read, Turn
<1>2. /\ NumLocals(FM) = cur.np + cur.nl /\ cur.np \in Nat /\ cur.nl \in Nat
      /\ cur.scratch \in Int /\ (cur.scratch >= 0 => cur.scratch = (cur.np + cur.nl) - 1)
  BY Zenon, TurnFunc
<1>3. x \in KnownOp /\ x.op = "LOCAL_SET" /\ x.a = cur.scratch
  BY <1>1, <1>2 DEF Cu, KnownOp, KnownOps
<1>4. CASE Fail(<<x>>, consts)
  <2> HIDE DEF x
  <2>1. <<x>> \in Seq(KnownOp)
    BY <1>3
  <2> QED
    BY Zenon, <1>4, <2>1, HeightFail
<1>5. CASE /\ Emit(<<x>>, <<h>>) /\ h' = Consumed(1, 0) /\ val' = Typed(1, 0)
           /\ low' = low /\ ctrl' = ctrl
  <2>1. /\ code' = code \o <<x>> /\ hv' = hv \o Heights(<<h>>) /\ low' = "ops"
        /\ val'.frames = val.frames /\ ctrl' # <<>> /\ ctrl' = ctrl
    BY Zenon, <1>1, <1>5 DEF Emit, Typed, Turn
  <2>2. /\ Here' = Here /\ Here = Live
        /\ \A i \in 1 .. Len(ctrl) : val'.frames[i].reach = val.frames[i].reach
    BY <1>1, <2>1, HereSame
  <2>3. CanPop(1)
    <3>1. o.ds \in Seq(Nat) /\ o.ds # <<>>
      BY Zenon, <1>1, OperandTypes
    <3>2. CanBranch(o.ds[1], 1) /\ o.ds[1] \in Nat
      BY <1>1, <3>1
    <3> DEFINE i == ResolveBr(o.ds[1])
               a == LabelArity(ctrl[i])
    <3>3. ctrl \in Seq(Label) /\ Types /\ Agreed
      BY Zenon, TurnTypes DEF Turn
    <3>4. i \in 1 .. Len(ctrl)
      BY <3>2, <3>3 DEF CanBranch, ResolveBr
    <3>5. a \in Nat
      BY <3>3, <3>4, LabelType
    <3>6. CanPop(1 + a)
      BY Zenon, <3>2 DEF CanBranch
    <3> HIDE DEF a
    <3>7. VTop.base \in Nat /\ val.h \in Nat
      BY Zenon, <1>1, <3>3, TopFrame DEF Agreed
    <3> QED
      BY ONLY <3>5, <3>6, <3>7 DEF CanPop
  <2>4. Live => h \in Nat /\ h >= 1 /\ h' = h - 1
    BY ONLY Turn, <1>1, <1>5, <2>3, TurnPops, TurnTypes DEF Consumed
  <2>m. m = KM(Len(consts'))
    BY Zenon
  <2> HIDE DEF x, m
  <2>5. InstrOk(m, FM, x) /\ ~ Branchy(x)
    BY <1>1, <1>2, <1>3 DEF InstrOk, Branchy
  <2>6. Need(m, FM, x) = 1 /\ NextHeight(m, FM, x, h) = h - 1
    BY Zenon, <1>3 DEF Need, PopOne, NextHeight, PushOne, LoseOne
  <2>7. SmallTypes /\ Live => /\ h >= Need(m, FM, x)
                              /\ x.op \notin NoFall => Here' /\ h' = NextHeight(m, FM, x, h)
    BY Zenon, <2>2, <2>4, <2>6
  <2> QED
    BY ONLY Turn, <1>1, <1>3, <2>m, <2>1, <2>2, <2>5, <2>7, HeightOne
<1> QED
  BY <1>1, <1>4, <1>5

\* An operator without a translation.
LEMMA HeightUnsupported ==
    ASSUME Turn, NEW o, Unsupported(o)
    PROVE  HeightsOk'
<1>1. Fail(<<>>, consts) /\ <<>> \in Seq(KnownOp)
  BY DEF Unsupported
<1> QED
  BY Zenon, <1>1, HeightFail

\* The heights recorded for two instructions.
LEMMA MarkTwo ==
    ASSUME NEW a \in Int, NEW b \in Int
    PROVE  \E y \in Int, z \in Int : /\ Heights(<<a, b>>) = <<y, z>>
                                     /\ (Live => y = a /\ z = b) /\ (~ Live => y = -1 /\ z = -1)
<1>1. CASE Live
  BY Zenon, <1>1 DEF Heights
<1>2. CASE ~ Live
  <2>1. Heights(<<a, b>>) = [i \in 1 .. 2 |-> -1]
    BY Zenon, <1>2 DEF Heights
  <2>2. [i \in 1 .. 2 |-> -1] = <<-1, -1>>
    OBVIOUS
  <2> QED
    BY <1>2, <2>1, <2>2
<1> QED
  BY Zenon, <1>1, <1>2

\* local.tee keeps the heights consistent.
LEMMA HeightTee ==
    ASSUME Turn, NEW o, OperatorOk(o), LocalTee(o)
    PROVE  HeightsOk'
<1> DEFINE x1 == Cu("LOCAL_SET", o.i, 0)
           x2 == Cu("LOCAL_GET", o.i, 0)
           m == KM(Len(consts'))
           h1 == h - 1
           fr == val.frames
           fr2 == val'.frames
           off == cur.off
           n == Len(code)
<1>1. /\ o.k = "tee" /\ ctrl # <<>> /\ CanPop(1) /\ o.i < cur.np + cur.locals
      /\ Emit(<<x1, x2>>, <<h, h1>>) /\ val' = Typed(1, 1) /\ low' = "ops" /\ ctrl' = ctrl /\ h' = h
  BY Zenon DEF LocalTee, Read, Turn
<1>2. o.i \in Nat
  BY Zenon, <1>1, OperandTypes
<1>t. /\ code \in Seq(KnownOp) /\ hv \in Seq(Int) /\ Len(hv) = Len(code) /\ cur.off \in Nat
      /\ cur.off <= Len(code) /\ ctrl \in Seq(Label) /\ LabelsOk(ctrl, cur.off, Len(code)) /\ h \in Nat
  BY Zenon, TurnTypes
<1>3. /\ x1 \in KnownOp /\ x1.op = "LOCAL_SET" /\ x1.a = o.i
      /\ x2 \in KnownOp /\ x2.op = "LOCAL_GET" /\ x2.a = o.i
  <2>1. x1 \in KnownOp /\ x1.op = "LOCAL_SET" /\ x1.a = o.i
    BY Zenon, <1>2 DEF Cu, KnownOp, KnownOps
  <2>2. x2 \in KnownOp /\ x2.op = "LOCAL_GET" /\ x2.a = o.i
    BY Zenon, <1>2 DEF Cu, KnownOp, KnownOps, PushOne
  <2> HIDE DEF x1, x2
  <2> QED
    BY Zenon, <2>1, <2>2
<1>4. o.i < NumLocals(FM)
  BY <1>1, <1>2, TurnFunc
<1>5. val'.frames = val.frames
  BY Zenon, <1>1 DEF Typed
<1>6. /\ Here' = Here /\ Here = Live
      /\ \A i \in 1 .. Len(ctrl) : val'.frames[i].reach = val.frames[i].reach
  BY Zenon, <1>1, <1>5, HereSame
<1>7. Live => h >= 1
  BY Zenon, <1>1, TurnPops
<1>8. h1 \in Int /\ h \in Int
  BY <1>t
<1>9. h1 + 1 = h
  BY <1>t
<1>y. PICK y \in Int, z \in Int : /\ Heights(<<h, h1>>) = <<y, z>>
                                  /\ (Live => y = h /\ z = h1) /\ (~ Live => y = -1 /\ z = -1)
  BY Zenon, <1>8, MarkTwo
<1>c. code' = code \o <<x1, x2>> /\ hv' = hv \o <<y, z>>
  BY Zenon, <1>1, <1>y DEF Emit
<1> HIDE DEF x1, x2, m
<1>10. /\ InstrOk(m, FM, x1) /\ ~ Branchy(x1) /\ InstrOk(m, FM, x2) /\ ~ Branchy(x2)
  BY Zenon, <1>3, <1>4 DEF InstrOk, Branchy
<1>11. /\ Need(m, FM, x1) = 1 /\ NextHeight(m, FM, x1, y) = y - 1
       /\ Need(m, FM, x2) = 0 /\ NextHeight(m, FM, x2, z) = z + 1
  BY Zenon, <1>3 DEF Need, PopOne, NextHeight, PushOne, LoseOne, Returns
<1>12. Flowing(m, FM, off, code, hv, ctrl, fr, h, Here, SmallTypes)
  BY Zenon, TurnFacts DEF m
<1>13. /\ \A i \in 1 .. Len(ctrl) : fr[i].reach = fr[i].reach
       /\ \A i \in 1 .. Len(ctrl) : fr2[i].reach = fr[i].reach
       /\ off \in Nat /\ LabelsOk(ctrl, off, n)
  BY Zenon, <1>t, <1>6
<1>14. SmallTypes /\ Here => y = h
  BY Zenon, <1>6, <1>y
<1>15. SmallTypes /\ y >= 0 => y >= Need(m, FM, x1) /\ (x1.op \notin NoFall => Here /\ h1 = NextHeight(m, FM, x1, y))
  BY <1>6, <1>7, <1>y, <1>11
<1>16. SmallTypes /\ Here => z = h1
  BY Zenon, <1>6, <1>y
<1>17. SmallTypes /\ z >= 0 => z >= Need(m, FM, x2) /\ (x2.op \notin NoFall => Here' /\ h' = NextHeight(m, FM, x2, z))
  BY <1>1, <1>6, <1>9, <1>y, <1>11
<1> HIDE DEF fr, fr2, off, n, h1
<1>18. Flowing(m, FM, off, code \o <<x1>>, hv \o <<y>>, ctrl, fr, h1, Here, SmallTypes)
  BY ONLY Zenon, <1>t, <1>y, <1>3, <1>10, <1>12, <1>13, <1>14, <1>15, FlowOne
<1>19. /\ code \o <<x1>> \in Seq(KnownOp) /\ hv \o <<y>> \in Seq(Int)
       /\ Len(hv \o <<y>>) = Len(code \o <<x1>>)
  BY ONLY <1>t, <1>y, <1>3
<1> DEFINE c1 == code \o <<x1>>
           v1 == hv \o <<y>>
<1>20. Flowing(m, FM, off, c1 \o <<x2>>, v1 \o <<z>>, ctrl, fr2, h', Here', SmallTypes)
  <2>1. c1 \in Seq(KnownOp) /\ v1 \in Seq(Int) /\ Len(v1) = Len(c1)
    BY Zenon, <1>19
  <2>2. Flowing(m, FM, off, c1, v1, ctrl, fr, h1, Here, SmallTypes)
    BY Zenon, <1>18
  <2> HIDE DEF c1, v1
  <2> QED
    BY ONLY <1>t, <1>y, <1>3, <1>10, <1>13, <1>16, <1>17, <2>1, <2>2, FlowOne
<1>21. c1 \o <<x2>> = code \o <<x1, x2>> /\ v1 \o <<z>> = hv \o <<y, z>>
  <2>1. c1 \o <<x2>> = code \o <<x1, x2>>
    BY Zenon, <1>t, <1>3, TwoMore
  <2>2. v1 \o <<z>> = hv \o <<y, z>>
    <3> DEFINE S == Int
    <3>1. hv \in Seq(S) /\ y \in S /\ z \in S
      BY Zenon, <1>t
    <3> HIDE DEF S
    <3> QED
      BY Zenon, <3>1, TwoMore
  <2> QED
    BY Zenon, <2>1, <2>2
<1>22. Flowing(KM(Len(consts')), FM, cur.off, code', hv', ctrl', val'.frames, h', Here', SmallTypes)
  BY Zenon, <1>1, <1>c, <1>20, <1>21 DEF m, fr2, off
<1>23. /\ hv' \in Seq(Int) /\ Len(hv') = Len(code')
       /\ \A q \in 1 .. cur.off : code'[q] = code[q] /\ hv'[q] = hv[q]
  <2> DEFINE cs == <<x1, x2>>
             vs == <<y, z>>
  <2>1. cs \in Seq(KnownOp) /\ vs \in Seq(Int) /\ Len(vs) = Len(cs)
    BY <1>3
  <2>2. code' = code \o cs /\ hv' = hv \o vs
    BY Zenon, <1>c
  <2> HIDE DEF cs, vs
  <2>f. Fits(code, hv, cs, vs, cur.off)
    BY Zenon, <1>t, <2>1 DEF Fits
  <2>g. Extended(code, hv, code \o cs, hv \o vs, cur.off)
    BY Zenon, <2>f, Longer
  <2>3. /\ hv \o vs \in Seq(Int) /\ Len(hv \o vs) = Len(code \o cs)
        /\ \A q \in 1 .. cur.off : (code \o cs)[q] = code[q] /\ (hv \o vs)[q] = hv[q]
    BY Zenon, <2>g DEF Extended
  <2> QED
    BY Zenon, <2>2, <2>3
<1>24. Ended(ctrl', code', cur.off)
  BY Zenon, <1>1 DEF Ended
<1> QED
  BY <1>1, <1>22, <1>23, <1>24, HeightStep

\* An operator adds at most a constant.
LEMMA ConstsGrow ==
    ASSUME Types, Operators
    PROVE  Len(consts) <= Len(consts') /\ low = "ops"
<1>1. consts \in Seq(Word) /\ Len(consts) \in Nat
  BY DEF Types, LowTypes
<1>2. \A v \in Word : Len(consts) <= Len(Intern(v))
  BY Zenon, <1>1, InternType
<1>3. \A cs : Fail(cs, consts) => consts' = consts
  BY Zenon DEF Fail
<1>4. ASSUME NEW o, OperatorOk(o), ReadOperator(o)
      PROVE  Len(consts) <= Len(consts') /\ low = "ops"
  <2>1. ASSUME Const(o) PROVE Len(consts) <= Len(consts') /\ low = "ops"
    <3>1. o.k = "const" /\ consts' = Intern(o.v) /\ low = "ops"
      BY Zenon, <2>1 DEF Const, Read
    <3>2. o.v \in Word
      BY <1>4, <3>1, OperandTypes DEF Word
    <3> QED
      BY <1>2, <3>1, <3>2
  <2>2. ASSUME Plain(o) PROVE consts' = consts /\ low = "ops"
    BY Zenon, <1>3, <2>2 DEF Plain, Read
  <2>3. ASSUME LocalTee(o) PROVE consts' = consts /\ low = "ops"
    BY Zenon, <2>3 DEF LocalTee, Read
  <2>4. ASSUME Stop(o) PROVE consts' = consts /\ low = "ops"
    BY Zenon, <2>4 DEF Stop, Read
  <2>5. ASSUME Unsupported(o) PROVE consts' = consts /\ low = "ops"
    BY Zenon, <1>3, <2>5 DEF Unsupported, Read
  <2>6. ASSUME Block(o) PROVE consts' = consts /\ low = "ops"
    BY <1>3, <2>6 DEF Block, Read
  <2>7. ASSUME If(o) PROVE consts' = consts /\ low = "ops"
    BY <1>3, <2>7 DEF If, Read
  <2>8. ASSUME Else(o) PROVE consts' = consts /\ low = "ops"
    BY <1>3, <2>8 DEF Else, Read
  <2>9. ASSUME End(o) PROVE consts' = consts /\ low = "ops"
    BY Zenon, <2>9 DEF End, Read
  <2>10. ASSUME Br(o) PROVE consts' = consts /\ low = "ops"
    BY <1>3, <2>10 DEF Br, Read
  <2>11. ASSUME BrIf(o) PROVE consts' = consts /\ low = "ops"
    BY <1>3, <2>11 DEF BrIf, Read
  <2>12. ASSUME BrTable(o) PROVE consts' = consts /\ low = "ops"
    BY <1>3, <2>12 DEF BrTable, Read
  <2>13. ASSUME Call(o) PROVE consts' = consts /\ low = "ops"
    BY <1>3, <2>13 DEF Call, Read
  <2>14. ASSUME ReturnCall(o) PROVE consts' = consts /\ low = "ops"
    BY <1>3, <2>14 DEF ReturnCall, Read
  <2>15. ASSUME CallIndirect(o) PROVE consts' = consts /\ low = "ops"
    BY <1>3, <2>15 DEF CallIndirect, Read
  <2>16. consts' = consts => Len(consts) <= Len(consts')
    BY <1>1
  <2> QED
    BY Zenon, <1>4, <2>1, <2>2, <2>3, <2>4, <2>5, <2>6, <2>7, <2>8, <2>9, <2>10, <2>11, <2>12, <2>13,
       <2>14, <2>15, <2>16 DEF ReadOperator
<1>5. ASSUME BrTableTarget PROVE Len(consts) <= Len(consts') /\ low = "ops"
  <2>1. consts' = Intern(brt.i) /\ low = "ops"
    BY Zenon, <1>5 DEF BrTableTarget, Fail
  <2>2. brt.i \in Word
    BY Zenon DEF Types, TableTypes, Word
  <2> QED
    BY <1>2, <2>1, <2>2
<1>6. ASSUME BrTableDefault PROVE Len(consts) <= Len(consts') /\ low = "ops"
  BY <1>1, <1>3, <1>6 DEF BrTableDefault
<1>7. ASSUME Unclosed PROVE Len(consts) <= Len(consts') /\ low = "ops"
  BY <1>1, <1>3, <1>7 DEF Unclosed
<1>8. \A o \in cur.ops : OperatorOk(o)
  BY Zenon DEF Types, CurType
<1> QED
  BY Zenon, <1>4, <1>5, <1>6, <1>7, <1>8 DEF Operators, Lower

-----------------------------------------------------------------------------

\* Entering a block: the frame on top is reached if the code before it is.
LEMMA EnterReach ==
    ASSUME Turn, ctrl # <<>>, NEW pops, NEW np, val' = Enter(pops, np), NEW l, ctrl' = Append(ctrl, l)
    PROVE  /\ \A i \in 1 .. Len(ctrl) : val'.frames[i].reach = val.frames[i].reach
           /\ val'.frames[Len(ctrl) + 1].reach <=> Live
           /\ Here' <=> Live
<1> DEFINE g == [base |-> Popped(pops + np), poly |-> FALSE, reach |-> Live]
           fr == val.frames
           k == Len(ctrl)
<1>1. fr \in Seq(Frame) /\ Len(fr) = k /\ k \in Nat \ {0} /\ ctrl \in Seq(Label)
  <2>1. Types /\ Agreed /\ ctrl \in Seq(Label)
    BY Zenon, TurnTypes DEF Turn
  <2> QED
    BY Zenon, <2>1, TopFrame DEF Agreed
<1>2. val'.frames = Append(fr, g)
  BY Zenon DEF Enter
<1>3. g.poly = FALSE /\ (g.reach <=> Live)
  BY Zenon
<1> HIDE DEF g
<1>4. /\ Len(val'.frames) = k + 1 /\ val'.frames[k + 1] = g
      /\ \A i \in 1 .. k : val'.frames[i] = fr[i]
  BY <1>1, <1>2
<1>5. val'.frames[k + 1].reach <=> Live
  BY Zenon, <1>3, <1>4
<1>6. ctrl' # <<>>
  BY <1>1
<1>7. VTop' = g
  BY Zenon, <1>4 DEF VTop
<1>8. Live' <=> Live
  BY Zenon, <1>3, <1>7 DEF Live
<1>9. Here' <=> Live
  BY Zenon, <1>6, <1>8 DEF Here
<1>10. \A i \in 1 .. k : val'.frames[i].reach = fr[i].reach
  BY Zenon, <1>4
<1> QED
  BY Zenon, <1>5, <1>9, <1>10

\* block and loop.
LEMMA HeightBlock ==
    ASSUME Turn, NEW o, OperatorOk(o), Block(o)
    PROVE  HeightsOk'
<1> DEFINE t == BlockArity(o.bt)
           l == NewCtrl(o.k, Len(code), -1, t.np, t.nr, h)
           m == KM(Len(consts'))
           fr == val.frames
           fr2 == val'.frames
           off == cur.off
<1>1. /\ o.k \in {"block", "loop"} /\ ctrl # <<>> /\ CanPop(t.np)
      /\ \/ Fail(<<>>, consts)
         \/ /\ HasBlockArity(o.bt) /\ ctrl' = Append(ctrl, l) /\ val' = Enter(0, t.np)
            /\ low' = "ops" /\ code' = code /\ h' = h /\ hv' = hv
  BY Zenon DEF Block, Read, Turn
<1>2. CASE Fail(<<>>, consts)
  <2>1. <<>> \in Seq(KnownOp)
    OBVIOUS
  <2> QED
    BY Zenon, <1>2, <2>1, HeightFail
<1>3. CASE /\ HasBlockArity(o.bt) /\ ctrl' = Append(ctrl, l) /\ val' = Enter(0, t.np)
           /\ low' = "ops" /\ code' = code /\ h' = h /\ hv' = hv
  <2>t. /\ code \in Seq(KnownOp) /\ hv \in Seq(Int) /\ Len(hv) = Len(code) /\ cur.off \in Nat
        /\ cur.off <= Len(code) /\ ctrl \in Seq(Label) /\ h \in Nat /\ ctrl' \in Seq(Label)
    BY Zenon, TurnTypes
  <2>1. t.np \in Nat /\ t.nr \in Nat
    <3>1. func_types \in Seq(FuncType)
      BY Zenon DEF Turn, Types, ModTypes
    <3> QED
      BY <1>1, <1>3, <3>1, BlockArityType
  <2>2. /\ l.kind = o.k /\ l.start = Len(code) /\ l.patches = {} /\ l.np = t.np
        /\ (~ dead => l.base = h - t.np)
    BY Zenon DEF NewCtrl
  <2>3. Joins(l) = {} /\ l.kind # "if"
    <3>1. l.kind # "if"
      BY Zenon, <1>1, <2>2
    <3> HIDE DEF l
    <3> QED
      BY Zenon, <2>2, <3>1 DEF Joins
  <2>4. l \in Label
    <3> HIDE DEF l
    <3>1. Append(ctrl, l) \in Seq(Label) /\ ctrl \in Seq(Label)
      BY Zenon, <1>3, <2>t
    <3>2. Append(ctrl, l)[Len(ctrl) + 1] = l /\ Len(ctrl) + 1 \in 1 .. Len(Append(ctrl, l))
      BY <2>t
    <3> QED
      BY ONLY <3>1, <3>2
  <2>5. /\ \A i \in 1 .. Len(ctrl) : fr2[i].reach = fr[i].reach
        /\ fr2[Len(ctrl) + 1].reach <=> Live
        /\ Here' <=> Live
    <3> HIDE DEF l
    <3> QED
      BY <1>1, <1>3, EnterReach
  <2>6. Live => ~ dead /\ h >= t.np
    BY <1>1, <2>1, TurnPops
  <2>7. SmallTypes /\ Here => Here' /\ h' = h
    BY Zenon, <1>3, <2>5 DEF Here
  <2>8. SmallTypes /\ l.kind = "loop" /\ fr2[Len(ctrl) + 1].reach =>
            Here' /\ l.start = Len(code) /\ h' = l.base + l.np
    <3> SUFFICES ASSUME fr2[Len(ctrl) + 1].reach
                 PROVE  Here' /\ l.start = Len(code) /\ h' = l.base + l.np
      BY Zenon
    <3>1. Here' /\ ~ dead
      BY Zenon, <2>5, <2>6
    <3> HIDE DEF l
    <3> QED
      BY ONLY <1>3, <2>t, <2>1, <2>2, <3>1
  <2>9. Flowing(m, FM, off, code, hv, ctrl, fr, h, Here, SmallTypes) /\ off \in Nat
    BY Zenon, <2>t, TurnFacts
  <2> HIDE DEF m, fr, fr2, off, l
  <2>10. Flowing(m, FM, off, code, hv, Append(ctrl, l), fr2, h', Here', SmallTypes)
    BY ONLY <2>t, <2>3, <2>4, <2>5, <2>7, <2>8, <2>9, FlowBlock
  <2>11. Flowing(KM(Len(consts')), FM, cur.off, code', hv', ctrl', val'.frames, h', Here', SmallTypes)
    BY <1>3, <2>10 DEF m, fr2, off
  <2>12. Ended(ctrl', code', cur.off)
    <3>1. Len(ctrl') = Len(ctrl) + 1 /\ Len(ctrl) \in Nat
      BY <1>3, <2>t
    <3> QED
      BY ONLY <3>1 DEF Ended
  <2>13. /\ hv' \in Seq(Int) /\ Len(hv') = Len(code')
         /\ \A q \in 1 .. cur.off : code'[q] = code[q] /\ hv'[q] = hv[q]
    BY Zenon, <1>3, <2>t
  <2> QED
    BY <1>3, <2>11, <2>12, <2>13, HeightStep
<1> QED
  BY Zenon, <1>1, <1>2, <1>3

\* if keeps the heights consistent.
LEMMA HeightIf ==
    ASSUME Turn, NEW o, OperatorOk(o), If(o)
    PROVE  HeightsOk'
<1> DEFINE t == BlockArity(o.bt)
           x == Cu("BR_IF_NOT", 0, 0)
           h1 == Consumed(1, 0)
           l == NewCtrl("if", Len(code) + 1, Len(code), t.np, t.nr, h1)
           m == KM(Len(consts'))
           fr == val.frames
           fr2 == val'.frames
           off == cur.off
           n == Len(code)
<1>1. /\ o.k = "if" /\ ctrl # <<>> /\ CanPop(1 + t.np)
      /\ \/ Fail(<<>>, consts) \/ Fail(<<x>>, consts)
         \/ /\ HasBlockArity(o.bt) /\ ctrl' = Append(ctrl, l) /\ val' = Enter(1, t.np)
            /\ low' = "ops" /\ Emit(<<x>>, <<h>>) /\ h' = h1
  BY Zenon DEF If, Read, Turn
<1>x. x \in KnownOp /\ x.op = "BR_IF_NOT"
  BY Zenon DEF Cu, KnownOp, KnownOps, Control
<1>2. CASE Fail(<<>>, consts) \/ Fail(<<x>>, consts)
  <2> HIDE DEF x
  <2>1. <<>> \in Seq(KnownOp) /\ <<x>> \in Seq(KnownOp)
    BY <1>x
  <2> QED
    BY Zenon, <1>2, <2>1, HeightFail
<1>3. CASE /\ HasBlockArity(o.bt) /\ ctrl' = Append(ctrl, l) /\ val' = Enter(1, t.np)
           /\ low' = "ops" /\ Emit(<<x>>, <<h>>) /\ h' = h1
  <2>t. /\ code \in Seq(KnownOp) /\ hv \in Seq(Int) /\ Len(hv) = Len(code) /\ cur.off \in Nat
        /\ cur.off <= Len(code) /\ ctrl \in Seq(Label) /\ h \in Nat /\ ctrl' \in Seq(Label)
        /\ LabelsOk(ctrl, cur.off, Len(code))
    BY Zenon, TurnTypes
  <2>1. t.np \in Nat /\ t.nr \in Nat
    <3>1. func_types \in Seq(FuncType)
      BY Zenon DEF Turn, Types, ModTypes
    <3> QED
      BY <1>1, <1>3, <3>1, BlockArityType
  <2>2. /\ l.kind = "if" /\ l.has_else = FALSE /\ l.patches = {} /\ l.np = t.np /\ l.br_if_not = Len(code)
        /\ (~ dead => l.base = h1 - t.np)
    BY Zenon DEF NewCtrl
  <2>3. PICK y \in Int : Heights(<<h>>) = <<y>> /\ (Live => y = h) /\ (~ Live => y = -1)
    <3>1. h \in Int
      BY <2>t
    <3> QED
      BY <3>1, MarkOne
  <2>c. code' = code \o <<x>> /\ hv' = hv \o <<y>>
    BY Zenon, <1>3, <2>3 DEF Emit
  <2>4. l \in Label
    <3> HIDE DEF l
    <3>1. Append(ctrl, l) \in Seq(Label) /\ ctrl \in Seq(Label)
      BY <1>3, <2>t
    <3>2. Append(ctrl, l)[Len(ctrl) + 1] = l /\ Len(ctrl) + 1 \in 1 .. Len(Append(ctrl, l))
      BY <2>t
    <3> QED
      BY ONLY <3>1, <3>2
  <2>5. /\ \A i \in 1 .. Len(ctrl) : fr2[i].reach = fr[i].reach
        /\ fr2[Len(ctrl) + 1].reach <=> Live
        /\ Here' <=> Live
    <3> HIDE DEF l
    <3> QED
      BY <1>1, <1>3, EnterReach
  <2>6. Live => ~ dead /\ h >= 1 + t.np
    <3>1. 1 + t.np \in Nat
      BY <2>1
    <3> QED
      BY <1>1, <3>1, TurnPops
  <2>7. SmallTypes /\ Here => /\ y = h /\ h >= 1 /\ Here' /\ h' = h - 1 /\ h' = l.base + l.np
                              /\ fr2[Len(ctrl) + 1].reach
    <3> SUFFICES ASSUME Here
                 PROVE  /\ y = h /\ h >= 1 /\ Here' /\ h' = h - 1 /\ h' = l.base + l.np
                        /\ fr2[Len(ctrl) + 1].reach
      BY Zenon
    <3>1. Live
      BY Zenon DEF Here
    <3>2. Here' /\ ~ dead /\ y = h /\ h >= 1 + t.np /\ fr2[Len(ctrl) + 1].reach
      BY Zenon, <2>3, <2>5, <2>6, <3>1
    <3>3. h1 = h - 1
      BY <2>t, <3>2 DEF Consumed
    <3> HIDE DEF l, h1, fr2
    <3>4. h >= 1 /\ h' = h - 1 /\ h' = l.base + l.np
      BY ONLY <1>3, <2>t, <2>1, <2>2, <3>2, <3>3
    <3> QED
      BY <3>2, <3>4
  <2>8. ~ Here => y = -1
    BY Zenon, <1>1, <2>3 DEF Here
  <2>9. Flowing(m, FM, off, code, hv, ctrl, fr, h, Here, SmallTypes) /\ off \in Nat /\ LabelsOk(ctrl, off, n)
    BY Zenon, <2>t, TurnFacts
  <2> HIDE DEF m, fr, fr2, off, l, x, n
  <2>10. Flowing(m, FM, off, code \o <<x>>, hv \o <<y>>, Append(ctrl, l), fr2, h', Here', SmallTypes)
    BY ONLY Zenon, <1>x, <2>t, <2>2, <2>3, <2>4, <2>5, <2>7, <2>8, <2>9, FlowIf
  <2>11. Flowing(KM(Len(consts')), FM, cur.off, code', hv', ctrl', val'.frames, h', Here', SmallTypes)
    BY <1>3, <2>c, <2>10 DEF m, fr2, off
  <2>12. Ended(ctrl', code', cur.off)
    <3>1. Len(ctrl') = Len(ctrl) + 1 /\ Len(ctrl) \in Nat
      BY <1>3, <2>t
    <3> QED
      BY ONLY <3>1 DEF Ended
  <2>13. /\ hv' \in Seq(Int) /\ Len(hv') = Len(code')
         /\ \A q \in 1 .. cur.off : code'[q] = code[q] /\ hv'[q] = hv[q]
    <3> DEFINE cs == <<x>>
               vs == <<y>>
    <3>1. cs \in Seq(KnownOp) /\ vs \in Seq(Int) /\ Len(vs) = Len(cs)
      BY <1>x
    <3>2. code' = code \o cs /\ hv' = hv \o vs
      BY Zenon, <2>c
    <3> HIDE DEF cs, vs
    <3>f. Fits(code, hv, cs, vs, cur.off)
      BY Zenon, <2>t, <3>1 DEF Fits
    <3>g. Extended(code, hv, code \o cs, hv \o vs, cur.off)
      BY Zenon, <3>f, Longer
    <3>3. /\ hv \o vs \in Seq(Int) /\ Len(hv \o vs) = Len(code \o cs)
          /\ \A q \in 1 .. cur.off : (code \o cs)[q] = code[q] /\ (hv \o vs)[q] = hv[q]
      BY Zenon, <3>g DEF Extended
    <3> QED
      BY Zenon, <3>2, <3>3
  <2> QED
    BY <1>3, <2>11, <2>12, <2>13, HeightStep
<1> QED
  BY <1>1, <1>2, <1>3

\* A function more, which is good.
LEMMA HeightFunc ==
    ASSUME Types, HeightsOk, low # "idle", low' = "idle",
           UNCHANGED <<func_types, func_typeidx, host_fn_ids, consts, res>>,
           NEW f \in MetaType, funcs' = Append(funcs, f), HasCode(f),
           f.n_params = cur.np, f.n_results = cur.nr,
           hv' \in Seq(Int), Len(hv') = Len(code'),
           GoodFuncs(KM(Len(consts)), funcs, code', hv', SmallTypes),
           GoodFunc(KM(Len(consts)), f, code', hv', SmallTypes)
    PROVE  HeightsOk'
<1>1. /\ funcs \in Seq(MetaType) /\ func_typeidx \in Seq(Nat) /\ host_fn_ids \in Seq(Nat)
  BY Zenon DEF Types, ModTypes
<1>2. KM(Len(consts))' = KM(Len(consts)) /\ SmallTypes' = SmallTypes
  BY Zenon DEF KM, Known, SmallTypes
<1>3. CurOk /\ ModOk
  BY Zenon DEF HeightsOk
<1>4. /\ Len(funcs') = Len(funcs) + 1 /\ funcs'[Len(funcs) + 1] = f
      /\ \A i \in 1 .. Len(funcs) : funcs'[i] = funcs[i]
      /\ Len(funcs) \in Nat
  <2>1. funcs \in Seq(MetaType) /\ f \in MetaType /\ funcs' = Append(funcs, f)
    BY Zenon, <1>1
  <2> QED
    BY ONLY <2>1
<1>5. \A i \in 1 .. Len(funcs') : i \in 1 .. Len(funcs) \/ i = Len(funcs) + 1
  BY ONLY <1>4
<1>6. ModOk'
  <2>1. /\ Len(host_fn_ids') <= Len(funcs') /\ Len(funcs') <= Len(func_typeidx')
        /\ \A i \in 1 .. Len(func_typeidx') : func_typeidx'[i] < Len(func_types')
    <3>1. Len(funcs) < Len(func_typeidx) /\ Len(host_fn_ids) <= Len(funcs)
      <4>1. CurOk
        BY Zenon, <1>3
      <4>2. Len(funcs) < Len(func_typeidx)
        BY ONLY <4>1 DEF CurOk
      <4> QED
        BY Zenon, <1>3, <4>2 DEF ModOk
    <3>2. \A i \in 1 .. Len(func_typeidx) : func_typeidx[i] < Len(func_types)
      BY Zenon, <1>3 DEF ModOk
    <3>3. Len(func_typeidx) \in Nat /\ Len(host_fn_ids) \in Nat
      BY ONLY <1>1
    <3>4. Len(host_fn_ids) <= Len(funcs') /\ Len(funcs') <= Len(func_typeidx)
      BY ONLY <1>4, <3>1, <3>3
    <3> QED
      BY Zenon, <3>2, <3>4
  <2>2. ASSUME NEW i \in 1 .. Len(funcs')
        PROVE  /\ funcs'[i].n_params = FuncArity(i - 1)'.np
               /\ funcs'[i].n_results = FuncArity(i - 1)'.nr
               /\ i > Len(host_fn_ids') <=> HasCode(funcs'[i])
    <3>1. FuncArity(i - 1)' = FuncArity(i - 1)
      BY Zenon DEF FuncArity, Arity
    <3>2. CASE i \in 1 .. Len(funcs)
      <4>1. funcs'[i] = funcs[i]
        BY Zenon, <1>4, <3>2
      <4>2. /\ funcs[i].n_params = FuncArity(i - 1).np /\ funcs[i].n_results = FuncArity(i - 1).nr
            /\ i > Len(host_fn_ids) <=> HasCode(funcs[i])
        BY Zenon, <1>3, <3>2 DEF ModOk
      <4> QED
        BY Zenon, <3>1, <4>1, <4>2
    <3>3. CASE i = Len(funcs) + 1
      <4>1. i - 1 = Len(funcs) /\ i > Len(host_fn_ids)
        BY ONLY <1>1, <1>3, <1>4, <3>3 DEF ModOk
      <4>2. cur.np = FuncArity(Len(funcs)).np /\ cur.nr = FuncArity(Len(funcs)).nr
        BY ONLY <1>3 DEF CurOk
      <4>3. funcs'[i] = f
        BY Zenon, <1>4, <3>3
      <4> QED
        BY Zenon, <3>1, <4>1, <4>2, <4>3
    <3> QED
      BY Zenon, <1>5, <3>2, <3>3
  <2> QED
    BY Zenon, <2>1, <2>2 DEF ModOk
<1>7. GoodFuncs(KM(Len(consts)), funcs', code', hv', SmallTypes)
  <2>1. \A i \in 1 .. Len(funcs) : GoodFunc(KM(Len(consts)), funcs[i], code', hv', SmallTypes)
    BY Zenon DEF GoodFuncs
  <2>2. ASSUME NEW i \in 1 .. Len(funcs')
        PROVE  GoodFunc(KM(Len(consts)), funcs'[i], code', hv', SmallTypes)
    <3>1. CASE i \in 1 .. Len(funcs)
      BY Zenon, <1>4, <2>1, <3>1
    <3>2. CASE i = Len(funcs) + 1
      BY Zenon, <1>4, <3>2
    <3> QED
      BY Zenon, <1>5, <3>1, <3>2
  <2> QED
    BY Zenon, <2>2 DEF GoodFuncs
<1>8. res' = "ok" => SmallTypes'
  BY Zenon, <1>2 DEF HeightsOk
<1>9. GoodFuncs(KM(Len(consts)), funcs, code, hv, SmallTypes)'
  BY Zenon, <1>2, <1>7
<1> QED
  BY Zenon, <1>6, <1>8, <1>9 DEF HeightsOk

\* A lowered body.
LEMMA HeightDone ==
    ASSUME Types, BranchInv, HeightsOk, FuncDone
    PROVE  HeightsOk'
<1> DEFINE f == Meta(cur.off, Len(code) - cur.off, cur.nl)
           g == FM
           m == KM(Len(consts))
<1>1. /\ low = "ops" /\ ctrl = <<>> /\ low' = "idle" /\ funcs' = Append(funcs, f)
      /\ UNCHANGED <<func_types, func_typeidx, host_fn_ids, consts, res, code, hv>>
  BY Zenon DEF FuncDone, ctx
<1>2. /\ code \in Seq(KnownOp) /\ cur.off \in Nat /\ cur.np \in Nat /\ cur.nr \in Nat /\ cur.nl \in Nat
      /\ Len(code) \in Nat
  BY DEF Types, LowTypes, CurType
<1>3. CurOk /\ Ended(ctrl, code, cur.off) /\ hv \in Seq(Int) /\ Len(hv) = Len(code)
  BY Zenon, <1>1 DEF HeightsOk
<1>4. Len(code) > cur.off /\ code[Len(code)].op \in Returns
  BY Zenon, <1>1, <1>3 DEF Ended
<1>5. /\ f \in MetaType /\ f.code_off = cur.off /\ EndOf(f) = Len(code) /\ HasCode(f)
      /\ f.n_params = cur.np /\ f.n_results = cur.nr /\ f.n_locals = cur.nl
      /\ NumLocals(f) = cur.np + cur.nl
  BY ONLY <1>2, <1>4 DEF Meta, MetaType, EndOf, HasCode, NumLocals
<1>6. g.n_params = cur.np /\ g.n_results = cur.nr /\ g.n_locals = cur.nl
  BY DEF FM, Meta
<1>7. NumLocals(f) <= 65535
  BY ONLY <1>3, <1>5 DEF CurOk
<1>8. Flowing(m, g, cur.off, code, hv, ctrl, val.frames, h, Here, SmallTypes) /\ ~ Here
  BY Zenon, <1>1 DEF HeightsOk, Here
<1> HIDE DEF f, g, m
<1>9. /\ InstrsOk(m, g, f.code_off, code)
      /\ SmallTypes => FlowOk(m, g, f.code_off, code, hv, ctrl, val.frames, h, Here)
  BY Zenon, <1>5, <1>8 DEF Flowing
<1>10. GoodFunc(m, f, code, hv, SmallTypes)
  <2>1. Len(code) > f.code_off
    BY Zenon, <1>4, <1>5
  <2>2. f.n_params = g.n_params /\ f.n_locals = g.n_locals /\ f.n_results = g.n_results
    BY Zenon, <1>5, <1>6
  <2> QED
    <3>1. Finishes(f, g, code)
      BY <1>4, <1>5, <1>7, <2>1, <2>2 DEF Finishes
    <3> QED
      BY ONLY Zenon, <1>1, <1>2, <1>5, <1>8, <1>9, <3>1, GoodDone
<1>11. GoodFunc(m, f, code', hv', SmallTypes) /\ GoodFuncs(m, funcs, code', hv', SmallTypes)
  BY Zenon, <1>1, <1>10 DEF HeightsOk, m
<1>12. hv' \in Seq(Int) /\ Len(hv') = Len(code') /\ low # "idle"
  BY Zenon, <1>1, <1>3
<1> QED
  BY <1>1, <1>5, <1>11, <1>12, HeightFunc DEF m

\* A body that is replaced by a stub.
LEMMA HeightStub ==
    ASSUME Types, BranchInv, HeightsOk, FuncStub
    PROVE  HeightsOk'
<1> DEFINE f == Meta(Len(code), 2, 0)
           x == Cu("UNREACHABLE", 0, 0)
           y == Cu("END_FUNC", cur.nr, 0)
           cs == <<x, y>>
           vs == <<0, -1>>
           m == KM(Len(consts))
           n == Len(code)
<1>1. /\ low = "err" /\ low' = "idle" /\ funcs' = Append(funcs, f)
      /\ UNCHANGED <<func_types, func_typeidx, host_fn_ids, consts, res>>
      /\ code' = code \o cs /\ hv' = hv \o vs
  BY Zenon DEF FuncStub, ctx
<1>2. /\ code \in Seq(KnownOp) /\ cur.off \in Nat /\ cur.np \in Nat /\ cur.nr \in Nat /\ cur.nl \in Nat
      /\ Len(code) \in Nat /\ funcs \in Seq(MetaType) /\ Len(consts) \in Nat
  BY DEF Types, ModTypes, LowTypes, CurType
<1>3. CurOk /\ hv \in Seq(Int) /\ Len(hv) = Len(code) /\ GoodFuncs(m, funcs, code, hv, SmallTypes)
  BY Zenon, <1>1 DEF HeightsOk
<1>4. cur.off <= Len(code) /\ FuncsOk(funcs, code, cur.off)
  BY Zenon, <1>1 DEF BranchInv, Done
<1>5. /\ f \in MetaType /\ f.code_off = n /\ EndOf(f) = n + 2 /\ HasCode(f)
      /\ f.n_params = cur.np /\ f.n_results = cur.nr /\ NumLocals(f) = cur.np
  BY <1>2 DEF Meta, MetaType, EndOf, HasCode, NumLocals
<1>6. NumLocals(f) <= 65535
  <2>1. cur.np + cur.nl <= 65535
    BY ONLY <1>3 DEF CurOk
  <2>2. NumLocals(f) = cur.np /\ cur.np \in Nat /\ cur.nl \in Nat
    BY Zenon, <1>2, <1>5
  <2> HIDE DEF f
  <2> QED
    BY ONLY <2>1, <2>2
<1>7. x \in KnownOp /\ x.op = "UNREACHABLE" /\ y \in KnownOp /\ y.op = "END_FUNC"
  BY Zenon, <1>2 DEF Cu, KnownOp, KnownOps, Control, Returns
<1> HIDE DEF f, x, y, m
<1>8. /\ code' \in Seq(KnownOp) /\ Len(code') = n + 2
      /\ \A q \in 1 .. n : code'[q] = code[q]
      /\ code'[n + 1] = x /\ code'[n + 2] = y
  <2>1. /\ code \o <<x, y>> \in Seq(KnownOp) /\ Len(code \o <<x, y>>) = Len(code) + 2
        /\ \A q \in 1 .. Len(code) : (code \o <<x, y>>)[q] = code[q]
        /\ (code \o <<x, y>>)[Len(code) + 1] = x /\ (code \o <<x, y>>)[Len(code) + 2] = y
    BY ONLY <1>2, <1>7, MoreByTwo
  <2> QED
    BY ONLY <1>1, <2>1, Zenon
<1>9. /\ hv' \in Seq(Int) /\ Len(hv') = n + 2
      /\ \A q \in 1 .. n : hv'[q] = hv[q]
      /\ hv'[n + 1] = 0 /\ hv'[n + 2] = -1
  <2> DEFINE S == Int
             a == 0
             b == -1
  <2>1. hv \in Seq(S) /\ a \in S /\ b \in S /\ hv' = hv \o <<a, b>> /\ Len(hv) = n
    BY <1>1, <1>3
  <2> HIDE DEF S, a, b, n
  <2>2. /\ hv' \in Seq(S) /\ Len(hv') = n + 2
        /\ \A q \in 1 .. n : hv'[q] = hv[q]
        /\ hv'[n + 1] = a /\ hv'[n + 2] = b
    <3>1. /\ hv \o <<a, b>> \in Seq(S) /\ Len(hv \o <<a, b>>) = Len(hv) + 2
          /\ \A q \in 1 .. Len(hv) : (hv \o <<a, b>>)[q] = hv[q]
          /\ (hv \o <<a, b>>)[Len(hv) + 1] = a /\ (hv \o <<a, b>>)[Len(hv) + 2] = b
      BY ONLY <2>1, MoreByTwo
    <3> QED
      BY ONLY <2>1, <3>1, Zenon
  <2> QED
    BY ONLY <2>2, Zenon DEF S, a, b
<1>10. /\ hv' \in Seq(Int) /\ Len(hv') = Len(code')
       /\ \A q \in 1 .. cur.off : code'[q] = code[q] /\ hv'[q] = hv[q]
  <2>1. \A q \in 1 .. cur.off : q \in 1 .. n
    BY <1>2, <1>4
  <2> QED
    BY Zenon, <1>8, <1>9, <2>1
<1>12. hv'[n + 1] = 0 /\ hv'[n + 2] = -1
  <2> HIDE DEF n
  <2> QED
    BY ONLY <1>9, Zenon
<1>13. GoodFunc(m, f, code', hv', SmallTypes)
  <2>1. code'[n + 1].op = "UNREACHABLE" /\ code'[n + 2].op = "END_FUNC"
    BY <1>7, <1>8
  <2>2. Trap(f, n, code', hv')
    BY ONLY <1>2, <1>5, <1>6, <1>12, <2>1 DEF Trap
  <2> QED
    BY Zenon, <2>2, TrapGood
<1>14. GoodFuncs(m, funcs, code', hv', SmallTypes)
  <2>1. Keeps(funcs, code, hv, code', hv', cur.off)
    BY Zenon, <1>2, <1>4, <1>10 DEF Keeps
  <2>2. MoreKnown(m, m)
    <3>1. Sizes(m) /\ Len(consts) <= Len(consts)
      BY <1>2, KnownFields DEF m
    <3>2. Grows(m, m)
      BY Zenon, <1>2, <3>1, KnownConsts DEF m
    <3> QED
      BY Zenon, <3>1, <3>2 DEF MoreKnown
  <2> QED
    BY <1>3, <2>1, <2>2, GoodsKept
<1> QED
  BY Zenon, <1>1, <1>5, <1>10, <1>13, <1>14, HeightFunc DEF m
=============================================================================
