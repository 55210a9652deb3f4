-------------------------- MODULE TranslatedProofs --------------------------
(***************************************************************************)
(* A valid module that is translated is one verify_cuop accepts:           *)
(* TranslatedVerifies for every value of the constants.                    *)
(*                                                                         *)
(* HeightInv is kept by every step (HeightLower, HeightSections,           *)
(* HeightDone and HeightStub); once translate_wasm has returned, what it   *)
(* says of each finished function is what verify_cuop asks of it.          *)
(***************************************************************************)
EXTENDS TranslateProofs, JumpProofs

-----------------------------------------------------------------------------
\* Between bodies: more of the module is read.
LEMMA HeightKnown ==
    ASSUME Types, BranchInv, HeightsOk, low = "idle", low' = "idle",
           UNCHANGED <<code, hv, funcs>>, ModOk',
           MoreKnown(KM(Len(consts)), KM(Len(consts))'), SmallTypes' => SmallTypes,
           res' = "ok" => SmallTypes'
    PROVE  HeightsOk'
<1>1. funcs \in Seq(MetaType) /\ code \in Seq(KnownOp) /\ Len(code) \in Nat /\ Len(code) <= Len(code)
  BY DEF Types, ModTypes, LowTypes
<1>2. FuncsOk(funcs, code, Len(code))
  BY Zenon DEF BranchInv, Done
<1>3. Keeps(funcs, code, hv, code, hv, Len(code))
  BY Zenon, <1>1, <1>2 DEF Keeps
<1>4. GoodFuncs(KM(Len(consts)), funcs, code, hv, SmallTypes) /\ hv \in Seq(Int) /\ Len(hv) = Len(code)
  BY Zenon DEF HeightsOk
<1>5. GoodFuncs(KM(Len(consts))', funcs, code, hv, SmallTypes')
  <2> DEFINE m == KM(Len(consts))
             m2 == KM(Len(consts))'
             small == SmallTypes
             small2 == SmallTypes'
  <2>1. MoreKnown(m, m2) /\ (small2 => small) /\ GoodFuncs(m, funcs, code, hv, small)
    BY Zenon, <1>4
  <2> HIDE DEF m, m2, small, small2
  <2>2. GoodFuncs(m2, funcs, code, hv, small2)
    BY ONLY <1>3, <2>1, GoodsKept
  <2> QED
    BY Zenon, <2>2 DEF m2, small2
<1>6. GoodFuncs(KM(Len(consts)), funcs, code, hv, SmallTypes)'
  BY Zenon, <1>5
<1> QED
  BY Zenon, <1>4, <1>6 DEF HeightsOk

\* Between bodies: nothing the heights are about changes.
LEMMA HeightStill ==
    ASSUME HeightsOk, low' = "idle", UNCHANGED <<code, hv, consts, funcs>>,
           UNCHANGED <<func_types, func_typeidx, host_fn_ids>>, res' = "ok" => SmallTypes
    PROVE  HeightsOk'
<1>1. SmallTypes' = SmallTypes
  BY Zenon DEF SmallTypes
<1>2. ModOk' = ModOk
  BY Zenon DEF ModOk, FuncArity, Arity
<1>3. KM(Len(consts))' = KM(Len(consts))
  BY Zenon DEF KM
<1>4. GoodFuncs(KM(Len(consts)), funcs, code, hv, SmallTypes)'
      = GoodFuncs(KM(Len(consts)), funcs, code, hv, SmallTypes)
  BY Zenon, <1>1, <1>3
<1>5. /\ hv' \in Seq(Int) /\ Len(hv') = Len(code') /\ ModOk'
      /\ GoodFuncs(KM(Len(consts)), funcs, code, hv, SmallTypes)'
      /\ res' = "ok" => SmallTypes'
  BY Zenon, <1>1, <1>2, <1>4 DEF HeightsOk
<1> QED
  BY Zenon, <1>5 DEF HeightsOk

\* What the arity of a function in range is made of.
LEMMA ModFunc ==
    ASSUME Types, ModOk, NEW i \in 1 .. Len(func_typeidx)
    PROVE  /\ func_typeidx[i] \in Nat /\ func_typeidx[i] + 1 \in 1 .. Len(func_types)
           /\ FuncArity(i - 1) = [np |-> Len(func_types[func_typeidx[i] + 1].p),
                                  nr |-> Len(func_types[func_typeidx[i] + 1].r)]
<1>1. func_types \in Seq(FuncType) /\ func_typeidx \in Seq(Nat)
  BY Zenon DEF Types, ModTypes
<1>2. func_typeidx[i] \in Nat /\ func_typeidx[i] < Len(func_types) /\ Len(func_types) \in Nat
  BY <1>1 DEF ModOk
<1>3. (i - 1) + 1 = i
  BY <1>1
<1> QED
  BY <1>2, <1>3 DEF FuncArity, Arity

\* A type more.
LEMMA HeightType ==
    ASSUME Types, Types', BranchInv, HeightsOk, TypeEntry
    PROVE  HeightsOk'
<1> DEFINE t == [p |-> Item.p, r |-> Item.r]
<1>1. Quiet
  BY Zenon, EntryQuiet DEF Entries
<1>2. /\ func_types' = Append(func_types, t) /\ func_typeidx' = func_typeidx
      /\ host_fn_ids' = host_fn_ids /\ funcs' = funcs
  BY Zenon DEF TypeEntry
<1> HIDE DEF t
<1>3. low = "idle" /\ low' = "idle" /\ code' = code /\ hv' = hv /\ consts' = consts /\ res' # "ok"
  BY Zenon, <1>1 DEF Quiet, lvars
<1>4. /\ func_types \in Seq(FuncType) /\ func_types' \in Seq(FuncType) /\ func_typeidx \in Seq(Nat)
      /\ host_fn_ids \in Seq(Nat) /\ consts \in Seq(Word) /\ funcs \in Seq(MetaType)
  BY Zenon DEF Types, ModTypes, LowTypes
<1>5. Len(func_types') = Len(func_types) + 1 /\ \A i \in 1 .. Len(func_types) : func_types'[i] = func_types[i]
  <2>1. t \in FuncType
    <3>1. Len(func_types) + 1 \in 1 .. Len(func_types') /\ func_types'[Len(func_types) + 1] = t
      BY <1>2, <1>4
    <3> QED
      BY <1>4, <3>1
  <2> QED
    BY <1>2, <1>4, <2>1
<1>6. Prefix(func_types, func_types') /\ Prefix(func_typeidx, func_typeidx)
  BY <1>4, <1>5 DEF Prefix
<1>7. ModOk
  BY Zenon DEF HeightsOk
<1>8. MoreKnown(KM(Len(consts)), KM(Len(consts))')
  <2>1. Len(host_fn_ids) \in Nat /\ Len(consts) \in Nat
    BY <1>4
  <2>2. \A i \in 1 .. Len(func_typeidx) : func_typeidx[i] < Len(func_types)
    BY Zenon, <1>7 DEF ModOk
  <2>3. MoreKnown(Known(func_types, func_typeidx, Len(host_fn_ids), Len(consts)),
                  Known(func_types', func_typeidx, Len(host_fn_ids), Len(consts)))
    BY Zenon, <1>4, <1>6, <2>1, <2>2, KnownMore
  <2> QED
    BY Zenon, <1>2, <1>3, <2>3 DEF KM
<1>9. SmallTypes' => SmallTypes
  BY <1>4, <1>5 DEF SmallTypes
<1>10. ModOk'
  <2>1. ASSUME NEW i \in 1 .. Len(func_typeidx)
        PROVE  func_typeidx[i] < Len(func_types') /\ FuncArity(i - 1)' = FuncArity(i - 1)
    <3>1. /\ func_typeidx[i] \in Nat /\ func_typeidx[i] + 1 \in 1 .. Len(func_types)
          /\ FuncArity(i - 1) = [np |-> Len(func_types[func_typeidx[i] + 1].p),
                                 nr |-> Len(func_types[func_typeidx[i] + 1].r)]
      BY Zenon, <1>7, ModFunc
    <3>2. func_types'[func_typeidx[i] + 1] = func_types[func_typeidx[i] + 1]
      BY Zenon, <1>5, <3>1
    <3>3. (i - 1) + 1 = i
      BY <1>4
    <3>4. func_typeidx[i] < Len(func_types')
      BY <1>4, <1>5, <3>1
    <3> QED
      BY <1>2, <3>1, <3>2, <3>3, <3>4 DEF FuncArity, Arity
  <2>2. ASSUME NEW i \in 1 .. Len(funcs)
        PROVE  FuncArity(i - 1)' = FuncArity(i - 1)
    <3>1. i \in 1 .. Len(func_typeidx)
      BY <1>4, <1>7 DEF ModOk
    <3> QED
      BY Zenon, <2>1, <3>1
  <2> HIDE DEF FuncArity
  <2>3. /\ Len(host_fn_ids) <= Len(funcs) /\ Len(funcs) <= Len(func_typeidx)
        /\ \A i \in 1 .. Len(funcs) :
              /\ funcs[i].n_params = FuncArity(i - 1).np /\ funcs[i].n_results = FuncArity(i - 1).nr
              /\ i > Len(host_fn_ids) <=> HasCode(funcs[i])
    BY Zenon, <1>7 DEF ModOk
  <2>4. \A i \in 1 .. Len(funcs) :
              /\ funcs[i].n_params = FuncArity(i - 1)'.np /\ funcs[i].n_results = FuncArity(i - 1)'.nr
              /\ i > Len(host_fn_ids) <=> HasCode(funcs[i])
    BY Zenon, <2>2, <2>3
  <2> QED
    BY Zenon, <1>2, <2>1, <2>3, <2>4 DEF ModOk
<1> QED
  BY <1>2, <1>3, <1>8, <1>9, <1>10, HeightKnown

\* A function more.
LEMMA HeightFunction ==
    ASSUME Types, Types', BranchInv, HeightsOk, inp.valid, FunctionEntry
    PROVE  HeightsOk'
<1> DEFINE t == Item.t
<1>1. Quiet
  BY Zenon, EntryQuiet DEF Entries
<1>2. /\ func_typeidx' = Append(func_typeidx, t) /\ func_types' = func_types
      /\ host_fn_ids' = host_fn_ids /\ funcs' = funcs /\ t < Len(func_types)
  BY Zenon DEF FunctionEntry, Entry
<1> HIDE DEF t
<1>3. low = "idle" /\ low' = "idle" /\ code' = code /\ hv' = hv /\ consts' = consts /\ res' # "ok"
  BY Zenon, <1>1 DEF Quiet, lvars
<1>4. /\ func_types \in Seq(FuncType) /\ func_typeidx \in Seq(Nat) /\ func_typeidx' \in Seq(Nat)
      /\ host_fn_ids \in Seq(Nat) /\ consts \in Seq(Word) /\ funcs \in Seq(MetaType)
  BY Zenon DEF Types, ModTypes, LowTypes
<1>5. /\ Len(func_typeidx') = Len(func_typeidx) + 1 /\ func_typeidx'[Len(func_typeidx) + 1] = t
      /\ \A i \in 1 .. Len(func_typeidx) : func_typeidx'[i] = func_typeidx[i]
  <2>1. t \in Nat
    <3>1. Len(func_typeidx) + 1 \in 1 .. Len(func_typeidx') /\ func_typeidx'[Len(func_typeidx) + 1] = t
      BY <1>2, <1>4
    <3> QED
      BY <1>4, <3>1
  <2> QED
    BY <1>2, <1>4, <2>1
<1>6. Prefix(func_types, func_types) /\ Prefix(func_typeidx, func_typeidx')
  BY <1>4, <1>5 DEF Prefix
<1>7. ModOk
  BY Zenon DEF HeightsOk
<1>8. MoreKnown(KM(Len(consts)), KM(Len(consts))')
  <2>1. Len(host_fn_ids) \in Nat /\ Len(consts) \in Nat
    BY <1>4
  <2>2. \A i \in 1 .. Len(func_typeidx) : func_typeidx[i] < Len(func_types)
    BY Zenon, <1>7 DEF ModOk
  <2>3. MoreKnown(Known(func_types, func_typeidx, Len(host_fn_ids), Len(consts)),
                  Known(func_types, func_typeidx', Len(host_fn_ids), Len(consts)))
    BY Zenon, <1>4, <1>6, <2>1, <2>2, KnownMore
  <2> QED
    BY Zenon, <1>2, <1>3, <2>3 DEF KM
<1>9. SmallTypes' => SmallTypes
  BY Zenon, <1>2 DEF SmallTypes
<1>10. ModOk'
  <2>1. ASSUME NEW i \in 1 .. Len(func_typeidx')
        PROVE  func_typeidx'[i] < Len(func_types)
    <3>1. i \in 1 .. Len(func_typeidx) \/ i = Len(func_typeidx) + 1
      BY <1>4, <1>5
    <3> QED
      BY <1>2, <1>5, <1>7, <3>1 DEF ModOk
  <2>2. ASSUME NEW i \in 1 .. Len(funcs)
        PROVE  FuncArity(i - 1)' = FuncArity(i - 1)
    <3>1. i \in 1 .. Len(func_typeidx) /\ (i - 1) + 1 = i
      BY <1>4, <1>7 DEF ModOk
    <3>2. func_typeidx'[(i - 1) + 1] = func_typeidx[(i - 1) + 1]
      BY Zenon, <1>5, <3>1
    <3> QED
      BY Zenon, <1>2, <3>2 DEF FuncArity, Arity
  <2>3. /\ Len(host_fn_ids) <= Len(funcs) /\ Len(funcs) <= Len(func_typeidx)
        /\ \A i \in 1 .. Len(funcs) :
              /\ funcs[i].n_params = FuncArity(i - 1).np /\ funcs[i].n_results = FuncArity(i - 1).nr
              /\ i > Len(host_fn_ids) <=> HasCode(funcs[i])
    BY Zenon, <1>7 DEF ModOk
  <2>4. \A i \in 1 .. Len(funcs) :
              /\ funcs[i].n_params = FuncArity(i - 1)'.np /\ funcs[i].n_results = FuncArity(i - 1)'.nr
              /\ i > Len(host_fn_ids) <=> HasCode(funcs[i])
    BY Zenon, <2>2, <2>3
  <2>5. Len(funcs) <= Len(func_typeidx')
    BY <1>4, <1>5, <2>3
  <2> QED
    BY Zenon, <1>2, <2>1, <2>3, <2>4, <2>5 DEF ModOk
<1> QED
  BY <1>2, <1>3, <1>8, <1>9, <1>10, HeightKnown

\* An import more: before the first body no function has code.
LEMMA HeightImport ==
    ASSUME Types, Types', BranchInv, HeightsOk, inp.valid, ImportEntry
    PROVE  HeightsOk'
<1> DEFINE t == Item.t
           g == [code_off |-> 0, code_len |-> 0, n_params |-> Arity(t).np,
                 n_results |-> Arity(t).nr, n_locals |-> 0]
<1>1. Quiet
  BY Zenon, EntryQuiet DEF Entries
<1>2. low = "idle" /\ low' = "idle" /\ code' = code /\ hv' = hv /\ consts' = consts /\ res' # "ok"
  BY Zenon, <1>1 DEF Quiet, lvars
<1>3. CASE res' = "err"
  <2>1. UNCHANGED <<func_types, func_typeidx, host_fn_ids, funcs>>
    BY Zenon, <1>3 DEF ImportEntry
  <2> QED
    BY <1>2, <2>1, HeightStill
<1>4. CASE res' # "err"
  <2>1. /\ func_typeidx' = Append(func_typeidx, t) /\ host_fn_ids' = Append(host_fn_ids, Item.id)
        /\ funcs' = Append(funcs, g) /\ func_types' = func_types
        /\ Len(func_typeidx) = Len(host_fn_ids) /\ t < Len(func_types)
    BY Zenon, <1>4 DEF ImportEntry, Entry, Accept, NoFunctions
  <2>2. g.n_params = Arity(t).np /\ g.n_results = Arity(t).nr /\ g.code_len = 0
    BY Zenon
  <2> HIDE DEF t, g
  <2>3. ~ HasCode(g)
    BY <2>2 DEF HasCode
  <2>4. /\ func_typeidx \in Seq(Nat) /\ func_typeidx' \in Seq(Nat)
        /\ host_fn_ids \in Seq(Nat) /\ host_fn_ids' \in Seq(Nat)
        /\ funcs \in Seq(MetaType) /\ funcs' \in Seq(MetaType) /\ func_types \in Seq(FuncType)
    BY Zenon DEF Types, ModTypes
  <2>5. ModOk
    BY Zenon DEF HeightsOk
  <2> DEFINE n == Len(funcs)
  <2>6. n \in Nat /\ Len(func_typeidx) = n /\ Len(host_fn_ids) = n
    BY <2>1, <2>4, <2>5 DEF ModOk
  <2>7. /\ Len(func_typeidx') = n + 1 /\ Len(host_fn_ids') = n + 1 /\ Len(funcs') = n + 1
        /\ func_typeidx'[n + 1] = t /\ funcs'[n + 1] = g
        /\ \A i \in 1 .. n : func_typeidx'[i] = func_typeidx[i] /\ funcs'[i] = funcs[i]
    BY <2>1, <2>4, <2>6
  <2>8. \A i \in 1 .. n : ~ HasCode(funcs[i])
    BY <2>5, <2>6 DEF ModOk
  <2> HIDE DEF n
  <2>9. \A i \in 1 .. n + 1 : i \in 1 .. n \/ i = n + 1
    BY <2>6
  <2>10. \A i \in 1 .. n + 1 : ~ HasCode(funcs'[i])
    BY Zenon, <2>3, <2>7, <2>8, <2>9
  <2>11. GoodFuncs(KM(Len(consts)), funcs, code, hv, SmallTypes)'
    <3> DEFINE m2 == KM(Len(consts))'
               small2 == SmallTypes'
    <3> HIDE DEF m2, small2
    <3>1. \A i \in 1 .. Len(funcs') : GoodFunc(m2, funcs'[i], code', hv', small2)
      BY Zenon, <2>7, <2>10, NoCodeGood
    <3>2. GoodFuncs(m2, funcs', code', hv', small2)
      BY Zenon, <3>1 DEF GoodFuncs
    <3> QED
      BY Zenon, <3>2 DEF m2, small2
  <2>12. \A i \in 1 .. n + 1 : func_typeidx'[i] < Len(func_types)
    <3>1. \A i \in 1 .. n : func_typeidx[i] < Len(func_types)
      BY Zenon, <2>5, <2>6 DEF ModOk
    <3> QED
      BY Zenon, <2>1, <2>7, <2>9, <3>1
  <2>13. ASSUME NEW i \in 1 .. n + 1
         PROVE  funcs'[i].n_params = FuncArity(i - 1)'.np /\ funcs'[i].n_results = FuncArity(i - 1)'.nr
    <3>1. (i - 1) + 1 = i
      BY <2>6
    <3>2. CASE i \in 1 .. n
      <4>1. funcs[i].n_params = FuncArity(i - 1).np /\ funcs[i].n_results = FuncArity(i - 1).nr
        BY Zenon, <2>5, <3>2 DEF ModOk, n
      <4> QED
        BY Zenon, <2>1, <2>7, <3>1, <3>2, <4>1 DEF FuncArity, Arity
    <3>3. CASE i = n + 1
      <4>1. func_typeidx'[(i - 1) + 1] = t /\ funcs'[i] = g
        BY Zenon, <2>7, <3>1, <3>3
      <4>2. FuncArity(i - 1)' = Arity(t)
        BY Zenon, <2>1, <4>1 DEF FuncArity, Arity
      <4> QED
        BY Zenon, <2>2, <4>1, <4>2
    <3> QED
      BY <2>9, <3>2, <3>3
  <2>14. ModOk'
    <3>1. \A i \in 1 .. n + 1 : ~ (i > n + 1)
      BY <2>6
    <3>2. n + 1 <= n + 1
      BY <2>6
    <3> QED
      BY Zenon, <2>1, <2>7, <2>10, <2>12, <2>13, <3>1, <3>2 DEF ModOk
  <2>15. hv' \in Seq(Int) /\ Len(hv') = Len(code')
    BY Zenon, <1>2 DEF HeightsOk
  <2> QED
    BY Zenon, <1>2, <2>11, <2>14, <2>15 DEF HeightsOk
<1> QED
  BY Zenon, <1>3, <1>4

\* The function in work, when its body starts.
LEMMA StartWork ==
    ASSUME Types, HeightsOk, inp.valid, NEW has \in BOOLEAN, FuncStart(has)
    PROVE  CurOk'
<1> DEFINE t == FuncArity(Len(funcs))
           n == Item.locals
<1>1. /\ cur'.np = t.np /\ cur'.nr = t.nr /\ cur'.locals = n
      /\ cur'.nl = IF has /\ n < 65535 THEN n + 1 ELSE n
      /\ cur'.scratch = IF has THEN cur'.np + cur'.nl - 1 ELSE -1
  BY StartLocals
<1>2. t.np + n < 65535 /\ HasArity(Len(funcs)) /\ pos <= Len(inp.items) /\ Item.sec = "code"
  BY StartValid
<1> HIDE DEF t, n
<1>4. n \in Nat
  <2>1. pos <= Len(inp.items) /\ Item.sec = "code"
    BY ONLY <1>2
  <2> QED
    BY Zenon, <2>1, ItemType DEF ItemOk, n
<1>h. HasArity(Len(funcs))
  BY ONLY <1>2
<1>5. t.np \in Nat /\ t.nr \in Nat
  <2>1. funcs \in Seq(MetaType) /\ func_types \in Seq(FuncType) /\ func_typeidx \in Seq(Nat)
    BY Zenon DEF Types, ModTypes
  <2>2. Len(funcs) + 1 \in 1 .. Len(func_typeidx)
    BY ONLY <1>h, <2>1 DEF HasArity
  <2>3. func_typeidx[Len(funcs) + 1] \in Nat /\ func_typeidx[Len(funcs) + 1] < Len(func_types)
    BY ONLY <1>h, <2>1, <2>2 DEF HasArity
  <2> QED
    BY ONLY <2>1, <2>3, ArityType DEF FuncArity, t
<1>6. funcs' = funcs /\ func_types' = func_types /\ func_typeidx' = func_typeidx
  BY Zenon, StartFrame
<1>7. FuncArity(Len(funcs))' = t
  BY Zenon, <1>6 DEF FuncArity, Arity, t
<1>8. /\ cur'.locals <= cur'.nl /\ cur'.np + cur'.nl <= 65535
      /\ cur'.scratch >= 0 => cur'.scratch = (cur'.np + cur'.nl) - 1
  BY ONLY <1>1, <1>2, <1>4, <1>5
<1>9. Len(funcs') < Len(func_typeidx')
  BY Zenon, <1>h, <1>6 DEF HasArity
<1> QED
  BY ONLY <1>1, <1>7, <1>8, <1>9 DEF CurOk

\* A body starts.
LEMMA HeightStart ==
    ASSUME Types, HeightsOk, inp.valid, NEW has \in BOOLEAN, FuncStart(has)
    PROVE  HeightsOk'
<1>1. /\ res = "parse" /\ low' = "ops" /\ res' = res /\ funcs' = funcs
      /\ func_types' = func_types /\ func_typeidx' = func_typeidx /\ host_fn_ids' = host_fn_ids
      /\ code' = code /\ consts' = consts /\ hv' = hv /\ h' = 0
      /\ ctrl' = <<FirstLabel(FuncArity(Len(funcs)).nr)>>
      /\ val' = [h |-> 0, frames |-> <<[base |-> 0, poly |-> FALSE, reach |-> TRUE]>>]
  BY Zenon, StartFrame
<1>2. cur'.off = Len(code)
  BY Zenon, StartCur
<1>3. CurOk'
  BY Zenon, StartWork
<1>4. code \in Seq(KnownOp)
  BY Zenon DEF Types, LowTypes
<1>5. Here'
  <2>1. ctrl' # <<>>
    BY Zenon, <1>1
  <2>2. val'.frames[Len(val'.frames)] = [base |-> 0, poly |-> FALSE, reach |-> TRUE]
    BY Zenon, <1>1
  <2> QED
    BY <2>1, <2>2 DEF Here, Live, VTop
<1>6. Flowing(KM(Len(consts)), FM, cur.off, code, hv, ctrl, val.frames, h, Here, SmallTypes)'
      /\ Ended(ctrl, code, cur.off)'
  <2> DEFINE m2 == KM(Len(consts))'
             f2 == FM'
             fr2 == val'.frames
             small2 == SmallTypes'
             live2 == Here'
             l == FirstLabel(FuncArity(Len(funcs)).nr)
             ct2 == ctrl'
  <2>1. l.kind = "func" /\ l.patches = {} /\ ct2 = <<l>> /\ live2
    BY <1>1, <1>5 DEF FirstLabel
  <2> HIDE DEF m2, f2, fr2, small2, live2, l, ct2
  <2>2. Flowing(m2, f2, Len(code), code, hv, ct2, fr2, 0, live2, small2)
        /\ Ended(ct2, code, Len(code))
    BY ONLY Zenon, <1>4, <2>1, FreshFlow
  <2> QED
    BY Zenon, <1>1, <1>2, <2>2 DEF m2, f2, fr2, small2, live2, ct2
<1>7. SmallTypes' = SmallTypes /\ ModOk' = ModOk /\ KM(Len(consts))' = KM(Len(consts))
  BY Zenon, <1>1 DEF SmallTypes, ModOk, FuncArity, Arity, KM
<1>8. GoodFuncs(KM(Len(consts)), funcs, code, hv, SmallTypes)'
      = GoodFuncs(KM(Len(consts)), funcs, code, hv, SmallTypes)
  BY Zenon, <1>1, <1>7
<1>9. /\ hv' \in Seq(Int) /\ Len(hv') = Len(code') /\ ModOk' /\ res' # "ok"
      /\ GoodFuncs(KM(Len(consts)), funcs, code, hv, SmallTypes)'
  BY Zenon, <1>1, <1>7, <1>8 DEF HeightsOk
<1> QED
  BY Zenon, <1>3, <1>6, <1>9 DEF HeightsOk

\* The sections of a valid module.
LEMMA HeightSections ==
    ASSUME Types, Types', BranchInv, HeightsOk, inp.valid, Sections
    PROVE  HeightsOk'
<1>1. CASE TypeEntry
  BY <1>1, HeightType
<1>2. CASE FunctionEntry
  BY <1>2, HeightFunction
<1>3. CASE ImportEntry
  BY Zenon, <1>3, HeightImport
<1>4. ASSUME MemoryEntry \/ TableEntry \/ ElemEntry \/ DataEntry \/ GlobalEntry \/ ExportEntry
             \/ StartEntry \/ CodeRefused
      PROVE  HeightsOk'
  <2>1. ctx' = ctx /\ funcs' = funcs
    BY Zenon, <1>4, EntryFrame
  <2>2. Quiet
    BY Zenon, <1>4, EntryQuiet DEF Entries
  <2>3. /\ UNCHANGED <<func_types, func_typeidx, host_fn_ids>> /\ UNCHANGED <<code, hv, consts, funcs>>
        /\ low' = "idle" /\ res' # "ok"
    BY <2>1, <2>2 DEF Quiet, ctx, lvars
  <2> QED
    BY Zenon, <2>3, HeightStill
<1>5. ASSUME NEW has \in BOOLEAN, FuncStart(has) PROVE HeightsOk'
  BY Zenon, <1>5, HeightStart
<1> QED
  BY Zenon, <1>1, <1>2, <1>3, <1>4, <1>5 DEF Sections

-----------------------------------------------------------------------------
\* The code of m is c.
Holds(m, c) == m.code_len = Len(c) /\ \A p \in 0 .. Len(c) - 1 : m.code[p] = c[p + 1]

\* A finished function of a module with code c and heights v.
Finished(m, f, c, v) ==
    /\ f \in MetaType /\ c \in Seq(KnownOp) /\ v \in Seq(Int) /\ Len(v) = Len(c)
    /\ FuncOk(f, c, Len(c)) /\ GoodFunc(m, f, c, v, TRUE) /\ Holds(m, c) /\ Sizes(m)

\* The instruction at rel of a finished function, and what is known of it.
LEMMA FinishedAt ==
    ASSUME NEW m, NEW f, NEW c, NEW v, Finished(m, f, c, v),
           NEW rel \in 0 .. f.code_len - 1
    PROVE  /\ HasCode(f) /\ f.code_off \in Nat /\ f.code_len \in Int
           /\ EndOf(f) = f.code_off + f.code_len /\ EndOf(f) <= Len(c) /\ EndOf(f) \in Int
           /\ rel \in Nat /\ f.code_off + rel \in f.code_off .. EndOf(f) - 1
           /\ m.code[f.code_off + rel] = c[(f.code_off + rel) + 1]
           /\ c[(f.code_off + rel) + 1] \in KnownOp
           /\ InstrOk(m, f, c[(f.code_off + rel) + 1])
           /\ RunsOk(m, f, c, v, f.code_off + rel)
<1>1. /\ f \in MetaType /\ c \in Seq(KnownOp) /\ FuncOk(f, c, Len(c))
      /\ GoodFunc(m, f, c, v, TRUE) /\ Holds(m, c)
  BY DEF Finished
<1>2. f.code_off \in Nat /\ f.code_len \in Int /\ Len(c) \in Nat
  BY <1>1 DEF MetaType
<1>3. EndOf(f) = f.code_off + f.code_len /\ EndOf(f) <= Len(c) /\ HasCode(f)
  BY <1>1, <1>2 DEF FuncOk, EndOf, HasCode
<1> DEFINE p == f.code_off + rel
<1>4. /\ rel \in Nat /\ p \in f.code_off .. EndOf(f) - 1 /\ p \in 0 .. Len(c) - 1
      /\ p + 1 \in 1 .. Len(c)
  BY <1>2, <1>3
<1> HIDE DEF p
<1>5. m.code[p] = c[p + 1] /\ c[p + 1] \in KnownOp
  BY <1>1, <1>4 DEF Holds
<1>6. InstrOk(m, f, c[p + 1]) /\ RunsOk(m, f, c, v, p)
  BY ONLY <1>1, <1>3, <1>4 DEF GoodFunc
<1> QED
  BY ONLY <1>2, <1>3, <1>4, <1>5, <1>6 DEF p

\* The module's opcode at p of f is one of the table, with operands in range.
KnownAt(m, f, p) == m.code[p] \in KnownOp /\ InstrOk(m, f, m.code[p])

\* Every instruction of a finished function is known.
LEMMA FinishedKnown ==
    ASSUME NEW m, NEW f, NEW c, NEW v, Finished(m, f, c, v),
           NEW rel \in 0 .. f.code_len - 1
    PROVE  KnownAt(m, f, f.code_off + rel)
<1>1. /\ m.code[f.code_off + rel] = c[(f.code_off + rel) + 1]
      /\ c[(f.code_off + rel) + 1] \in KnownOp
      /\ InstrOk(m, f, c[(f.code_off + rel) + 1])
  BY FinishedAt
<1> QED
  BY ONLY <1>1 DEF KnownAt

\* An instruction of a finished function passes the checks of verify_cuop.
LEMMA FinishedFlows ==
    ASSUME NEW m, NEW f, NEW c, NEW v, Finished(m, f, c, v),
           NEW hs, hs = [rel \in 0 .. f.code_len - 1 |-> v[(f.code_off + rel) + 1]],
           NEW rel \in 0 .. f.code_len - 1, hs[rel] >= 0
    PROVE  Flows(m, f, hs, rel)
<1> DEFINE p == f.code_off + rel
           x == c[p + 1]
<1>1. /\ HasCode(f) /\ f.code_off \in Nat /\ f.code_len \in Int
      /\ EndOf(f) = f.code_off + f.code_len /\ EndOf(f) <= Len(c) /\ EndOf(f) \in Int
      /\ rel \in Nat /\ p \in f.code_off .. EndOf(f) - 1 /\ m.code[p] = x /\ x \in KnownOp
      /\ InstrOk(m, f, x) /\ RunsOk(m, f, c, v, p)
  BY FinishedAt
<1>2. FuncOk(f, c, Len(c)) /\ f \in MetaType /\ GoodFunc(m, f, c, v, TRUE)
  BY DEF Finished
<1>3. /\ NumLocals(f) \in Nat /\ NumLocals(f) <= 65535 /\ NumLocals(f) % 65536 = NumLocals(f)
  <2>1. NumLocals(f) <= 65535
    BY ONLY <1>1, <1>2 DEF GoodFunc
  <2>2. f.n_params \in Nat /\ f.n_locals \in Nat
    BY ONLY <1>2 DEF MetaType
  <2>3. NumLocals(f) \in Nat
    BY ONLY <2>2 DEF NumLocals
  <2> QED
    BY ONLY <2>1, <2>3
<1>4. Branchy(x) => x.b \in f.code_off .. EndOf(f) - 1
  BY ONLY <1>1, <1>2 DEF FuncOk
<1>5. x.op \in KnownOps /\ x.a \in Nat /\ x.b \in Nat
  BY ONLY <1>1 DEF KnownOp
<1>6. hs[rel] = v[p + 1]
  OBVIOUS
<1> HIDE DEF x
<1>7. OperandsOk(m, f, x)
  <2>1. Branchy(x) => x.b >= f.code_off /\ x.b < EndOf(f)
    BY ONLY <1>1, <1>4, <1>5
  <2>2. InstrOk(m, f, x) /\ x.op \in KnownOps
    BY Zenon, <1>1, <1>5
  <2>3. x.op \in {"BR", "BR_IF_NOT"} => x.b >= f.code_off /\ x.b < EndOf(f)
    BY ONLY <2>1 DEF Branchy
  <2>4. x.op \in {"LOCAL_GET", "LOCAL_SET"} => x.a < NumLocals(f) % 65536
    BY ONLY <1>3, <2>2 DEF InstrOk
  <2>5. /\ x.op = "I64_CONST" => x.b < m.n_consts
        /\ x.op \in {"CALL", "RETURN_CALL"} => x.b < m.n_funcs
        /\ x.op = "CALL_INDIRECT" => x.b < m.n_types
        /\ x.op = "UNWIND" => x.b >= NumLocals(f)
    BY Zenon, <2>2 DEF InstrOk
  <2> QED
    BY ONLY <2>2, <2>3, <2>4, <2>5 DEF OperandsOk
<1>8. hs[rel] >= Need(m, f, x)
  BY ONLY <1>1, <1>6, hs[rel] >= 0 DEF RunsOk, x
<1>9. ASSUME NEW s \in Successors(f, x, rel)
      PROVE  s \in 0 .. f.code_len - 1 /\ hs[s] = NextHeight(m, f, x, hs[rel])
  <2>1. (Branchy(x) /\ s = x.b - f.code_off) \/ (x.op \notin NoFall /\ s = rel + 1)
    BY <1>9 DEF Successors, Branchy
  <2>2. CASE Branchy(x) /\ s = x.b - f.code_off
    <3>1. s \in 0 .. f.code_len - 1 /\ f.code_off + s = x.b
      <4>1. /\ f.code_off \in Nat /\ f.code_len \in Int /\ EndOf(f) = f.code_off + f.code_len
            /\ x.b \in f.code_off .. EndOf(f) - 1 /\ s = x.b - f.code_off
        BY Zenon, <1>1, <1>4, <2>2
      <4> QED
        BY ONLY <4>1
    <3>2. v[x.b + 1] = NextHeight(m, f, x, v[p + 1])
      BY ONLY <1>1, <1>6, <2>2, hs[rel] >= 0 DEF RunsOk, x
    <3>3. hs[s] = v[x.b + 1]
      BY <3>1
    <3> QED
      BY ONLY <1>6, <3>1, <3>2, <3>3
  <2>3. CASE x.op \notin NoFall /\ s = rel + 1
    <3>1. p + 1 < EndOf(f) /\ v[(p + 1) + 1] = NextHeight(m, f, x, v[p + 1])
      BY ONLY <1>1, <1>6, <2>3, hs[rel] >= 0 DEF RunsOk, x
    <3>2. s \in 0 .. f.code_len - 1 /\ f.code_off + s = p + 1
      <4>1. /\ f.code_off \in Nat /\ f.code_len \in Int /\ EndOf(f) = f.code_off + f.code_len
            /\ p + 1 < EndOf(f) /\ s = rel + 1 /\ rel \in Nat
        BY Zenon, <1>1, <2>3, <3>1
      <4> QED
        BY ONLY <4>1
    <3>3. hs[s] = v[(p + 1) + 1]
      BY <3>2
    <3> QED
      BY ONLY <1>6, <3>1, <3>2, <3>3
  <2> QED
    BY ONLY <2>1, <2>2, <2>3
<1> QED
  BY ONLY <1>1, <1>7, <1>8, <1>9 DEF Flows, Executable

\* A finished function has consistent heights, and ends in a return.
LEMMA FinishedConsistent ==
    ASSUME NEW m, NEW f, NEW c, NEW v, Finished(m, f, c, v), HasCode(f),
           NEW hs, hs = [rel \in 0 .. f.code_len - 1 |-> v[(f.code_off + rel) + 1]]
    PROVE  /\ EndsInReturn(m, f) /\ hs \in [0 .. f.code_len - 1 -> Int]
           /\ ConsistentIn(m, f, hs)
<1>1. /\ f \in MetaType /\ c \in Seq(KnownOp) /\ v \in Seq(Int) /\ Len(v) = Len(c)
      /\ FuncOk(f, c, Len(c)) /\ GoodFunc(m, f, c, v, TRUE) /\ Holds(m, c)
  BY DEF Finished
<1>2. f.code_off \in Nat /\ f.code_len \in Int /\ Len(c) \in Nat
  BY <1>1 DEF MetaType
<1>3. EndOf(f) = f.code_off + f.code_len /\ EndOf(f) <= Len(c) /\ f.code_len > 0
  BY <1>1, <1>2 DEF FuncOk, EndOf, HasCode
<1>4. EndsInReturn(m, f)
  <2>1. c[EndOf(f)].op \in Returns
    BY ONLY <1>1, HasCode(f) DEF GoodFunc
  <2>2. EndOf(f) - 1 \in 0 .. Len(c) - 1 /\ (EndOf(f) - 1) + 1 = EndOf(f)
    BY ONLY <1>2, <1>3
  <2>3. m.code[EndOf(f) - 1] = c[EndOf(f)]
    BY ONLY <1>1, <2>2 DEF Holds
  <2> QED
    BY <2>1, <2>3 DEF EndsInReturn
<1>5. hs \in [0 .. f.code_len - 1 -> Int]
  <2>1. ASSUME NEW rel \in 0 .. f.code_len - 1 PROVE v[(f.code_off + rel) + 1] \in Int
    <3>1. (f.code_off + rel) + 1 \in 1 .. Len(v)
      BY <1>1, <1>2, <1>3
    <3> QED
      BY <1>1, <3>1
  <2> QED
    BY <2>1
<1>6. hs[0] = 0
  <2>1. v[f.code_off + 1] = 0
    BY ONLY <1>1, HasCode(f) DEF GoodFunc
  <2>2. 0 \in 0 .. f.code_len - 1 /\ (f.code_off + 0) + 1 = f.code_off + 1
    BY <1>2, <1>3
  <2> QED
    BY <2>1, <2>2
<1>7. ASSUME NEW rel \in 0 .. f.code_len - 1, hs[rel] >= 0 PROVE Flows(m, f, hs, rel)
  BY <1>7, FinishedFlows
<1> QED
  BY <1>4, <1>5, <1>6, <1>7 DEF ConsistentIn

\* The module returned, field by field.
LEMMA ModFields ==
    ASSUME Types
    PROVE  /\ Mod.n_funcs = Len(funcs) /\ Mod.n_types = Len(func_types) /\ Mod.n_consts = Len(consts)
           /\ Mod.n_host_imports = Len(host_fn_ids) /\ Sizes(Mod) /\ Holds(Mod, code)
           /\ \A b \in 0 .. Len(funcs) - 1 : Mod.funcs[b] = funcs[b + 1]
           /\ \A b \in 0 .. Len(func_typeidx) - 1 : Mod.func_typeidx[b] = func_typeidx[b + 1]
           /\ \A t \in 0 .. Len(func_types) - 1 :
                 Mod.type_fp[t].np = Arity(t).np /\ Mod.type_fp[t].nr = Arity(t).nr
<1>1. /\ Mod.n_funcs = Len(funcs) /\ Mod.n_types = Len(func_types) /\ Mod.n_consts = Len(consts)
      /\ Mod.n_host_imports = Len(host_fn_ids) /\ Mod.code_len = Len(code)
  BY DEF Mod
<1>2. Sizes(Mod)
  <2>1. /\ Len(funcs) \in Nat /\ Len(func_types) \in Nat /\ Len(consts) \in Nat
        /\ Len(host_fn_ids) \in Nat
    BY DEF Types, ModTypes, LowTypes
  <2> QED
    BY Zenon, <1>1, <2>1 DEF Sizes
<1>3. \A b \in 0 .. Len(funcs) - 1 : Mod.funcs[b] = funcs[b + 1]
  BY DEF Mod
<1>4. \A b \in 0 .. Len(func_typeidx) - 1 : Mod.func_typeidx[b] = func_typeidx[b + 1]
  BY DEF Mod
<1>5. \A p \in 0 .. Len(code) - 1 : Mod.code[p] = code[p + 1]
  BY DEF Mod
<1>6. ASSUME NEW t \in 0 .. Len(func_types) - 1
      PROVE  Mod.type_fp[t].np = Arity(t).np /\ Mod.type_fp[t].nr = Arity(t).nr
  <2>1. Mod.type_fp[t] = TypeFingerprint(func_types[t + 1])
    BY DEF Mod
  <2> QED
    BY ONLY <2>1 DEF TypeFingerprint, Arity
<1>7. Holds(Mod, code)
  BY Zenon, <1>1, <1>5 DEF Holds
<1> QED
  BY Zenon, <1>1, <1>2, <1>3, <1>4, <1>6, <1>7

\* The module returned is what was known of it, once every function has a body.
LEMMA ModKnown ==
    ASSUME Types, ModOk, Len(funcs) = Len(func_typeidx)
    PROVE  MoreKnown(KM(Len(consts)), Mod)
<1> DEFINE m == KM(Len(consts))
           n == Mod
<1>0. Len(consts) \in Nat /\ Len(func_types) \in Nat /\ Len(func_typeidx) \in Nat
  BY DEF Types, LowTypes, ModTypes
<1>1. /\ Sizes(m) /\ m.n_consts = Len(consts) /\ m.n_types = Len(func_types)
      /\ m.n_funcs = Len(func_typeidx) /\ m.n_host_imports = Len(host_fn_ids)
      /\ \A b \in 0 .. Len(func_typeidx) - 1 :
            m.funcs[b].n_params = FuncArity(b).np /\ m.funcs[b].n_results = FuncArity(b).nr
      /\ \A t \in 0 .. Len(func_types) - 1 :
            m.type_fp[t].np = Arity(t).np /\ m.type_fp[t].nr = Arity(t).nr
  BY <1>0, KnownFields
<1>2. /\ n.n_funcs = Len(funcs) /\ n.n_types = Len(func_types) /\ n.n_consts = Len(consts)
      /\ n.n_host_imports = Len(host_fn_ids) /\ Sizes(n)
      /\ \A b \in 0 .. Len(funcs) - 1 : n.funcs[b] = funcs[b + 1]
      /\ \A t \in 0 .. Len(func_types) - 1 :
            n.type_fp[t].np = Arity(t).np /\ n.type_fp[t].nr = Arity(t).nr
  BY ModFields
<1> HIDE DEF m, n
<1>3. ASSUME NEW b \in 0 .. Len(func_typeidx) - 1
      PROVE  n.funcs[b].n_params = m.funcs[b].n_params /\ n.funcs[b].n_results = m.funcs[b].n_results
  <2>1. b + 1 \in 1 .. Len(funcs) /\ (b + 1) - 1 = b
    BY <1>0
  <2>2. funcs[b + 1].n_params = FuncArity(b).np /\ funcs[b + 1].n_results = FuncArity(b).nr
    BY <2>1 DEF ModOk
  <2> QED
    BY Zenon, <1>1, <1>2, <2>2
<1>4. Grows(m, n)
  <2>1. m.n_consts <= n.n_consts /\ m.n_types <= n.n_types /\ m.n_funcs <= n.n_funcs
    BY ONLY <1>0, <1>1, <1>2, Len(funcs) = Len(func_typeidx)
  <2> QED
    BY Zenon, <1>1, <1>2, <1>3, <2>1 DEF Grows
<1> QED
  BY <1>1, <1>2, <1>4 DEF MoreKnown, m, n

\* Every function of a translated valid module is a finished one.
LEMMA AllFinished ==
    ASSUME Types, BranchInv, HeapInv, HeightsOk, res = "ok", inp.valid
    PROVE  /\ ModOk /\ Len(funcs) = Len(func_typeidx)
           /\ \A i \in 1 .. Len(funcs) : Finished(Mod, funcs[i], code, hv)
<1>1. /\ low = "idle" /\ Len(funcs) = Len(func_typeidx)
  BY DEF HeapInv
<1>2. /\ hv \in Seq(Int) /\ Len(hv) = Len(code) /\ SmallTypes /\ ModOk
      /\ GoodFuncs(KM(Len(consts)), funcs, code, hv, SmallTypes)
  BY DEF HeightsOk
<1>3. funcs \in Seq(MetaType) /\ code \in Seq(KnownOp)
  BY DEF Types, ModTypes, LowTypes
<1>4. FuncsOk(funcs, code, Len(code))
  BY <1>1 DEF BranchInv, Done
<1>5. MoreKnown(KM(Len(consts)), Mod) /\ Sizes(Mod) /\ Holds(Mod, code)
  BY <1>1, <1>2, ModKnown, ModFields
<1> DEFINE m == Mod
           k == KM(Len(consts))
           n == Len(code)
<1>6. MoreKnown(k, m) /\ GoodFuncs(k, funcs, code, hv, SmallTypes)
  BY <1>2, <1>5
<1>7. n \in Nat /\ n <= Len(code)
  BY <1>3
<1> HIDE DEF m, k, n
<1>8. Keeps(funcs, code, hv, code, hv, n)
  BY Zenon, <1>3, <1>4, <1>7 DEF Keeps, n
<1>9. GoodFuncs(m, funcs, code, hv, TRUE)
  <2> DEFINE yes == TRUE
  <2>1. yes => SmallTypes
    BY <1>2
  <2> HIDE DEF yes
  <2>2. GoodFuncs(m, funcs, code, hv, yes)
    BY ONLY Zenon, <1>6, <1>8, <2>1, GoodsKept
  <2> QED
    BY <2>2 DEF yes
<1>10. ASSUME NEW i \in 1 .. Len(funcs) PROVE Finished(Mod, funcs[i], code, hv)
  <2>1. funcs[i] \in MetaType
    BY <1>3
  <2>2. FuncOk(funcs[i], code, Len(code)) /\ GoodFunc(m, funcs[i], code, hv, TRUE)
    BY Zenon, <1>4, <1>9 DEF FuncsOk, GoodFuncs
  <2> QED
    BY Zenon, <1>2, <1>3, <1>5, <2>1, <2>2 DEF Finished, m
<1> QED
  BY Zenon, <1>1, <1>2, <1>10

\* What a finished instruction calls has code, and what it unwinds are operands.
LEMMA FinishedLowered ==
    ASSUME Types, ModOk, NEW f, Finished(Mod, f, code, hv), NEW rel \in 0 .. f.code_len - 1
    PROVE  WellLowered(Mod, f, Mod.code[f.code_off + rel])
<1> DEFINE x == Mod.code[f.code_off + rel]
<1>1. x \in KnownOp /\ InstrOk(Mod, f, x)
  <2>1. KnownAt(Mod, f, f.code_off + rel)
    BY ONLY Zenon, Finished(Mod, f, code, hv), rel \in 0 .. f.code_len - 1, FinishedKnown
  <2> QED
    BY Zenon, <2>1 DEF KnownAt
<1> HIDE DEF x
<1>2. x.b \in Nat
  BY <1>1 DEF KnownOp
<1>3. ASSUME x.op \in {"CALL", "RETURN_CALL"} PROVE HasCode(Mod.funcs[x.b])
  <2>1. x.b < Mod.n_funcs /\ x.b >= Mod.n_host_imports
    BY Zenon, <1>1, <1>3 DEF InstrOk
  <2>2. /\ Mod.n_funcs = Len(funcs) /\ Mod.n_host_imports = Len(host_fn_ids)
        /\ \A b \in 0 .. Len(funcs) - 1 : Mod.funcs[b] = funcs[b + 1]
    BY Zenon, ModFields
  <2>3. Len(funcs) \in Nat /\ Len(host_fn_ids) \in Nat
    BY DEF Types, ModTypes
  <2>4. /\ x.b \in 0 .. Len(funcs) - 1 /\ x.b + 1 \in 1 .. Len(funcs)
        /\ x.b + 1 > Len(host_fn_ids)
    BY ONLY <1>2, <2>1, <2>2, <2>3
  <2>5. HasCode(funcs[x.b + 1])
    BY Zenon, <2>4 DEF ModOk
  <2> QED
    BY Zenon, <2>2, <2>4, <2>5
<1> QED
  BY Zenon, <1>1, <1>3 DEF WellLowered, InstrOk, x

(***************************************************************************)
(* The heights of a translated valid module are consistent, and its        *)
(* instructions are lowered as the drivers assume.                         *)
(***************************************************************************)
LEMMA TranslatedGood ==
    ASSUME Types, BranchInv, HeapInv, HeightsOk, res = "ok", inp.valid
    PROVE  HeightsConsistent(Mod, Ht) /\ Lowered(Mod)
<1>1. /\ ModOk /\ Len(funcs) = Len(func_typeidx)
      /\ \A i \in 1 .. Len(funcs) : Finished(Mod, funcs[i], code, hv)
  BY AllFinished
<1>2. /\ Mod.n_funcs = Len(funcs) /\ Mod.n_types = Len(func_types)
      /\ Mod.n_host_imports = Len(host_fn_ids) /\ Holds(Mod, code)
      /\ \A b \in 0 .. Len(funcs) - 1 : Mod.funcs[b] = funcs[b + 1]
      /\ \A b \in 0 .. Len(func_typeidx) - 1 : Mod.func_typeidx[b] = func_typeidx[b + 1]
      /\ \A t \in 0 .. Len(func_types) - 1 :
            Mod.type_fp[t].np = Arity(t).np /\ Mod.type_fp[t].nr = Arity(t).nr
  BY Zenon, ModFields
<1>3. /\ Len(funcs) \in Nat /\ Len(func_types) \in Nat /\ Len(host_fn_ids) \in Nat
      /\ func_typeidx \in Seq(Nat)
  BY DEF Types, ModTypes
<1>4. ASSUME NEW i \in 0 .. Mod.n_funcs - 1
      PROVE  /\ i \in 0 .. Len(funcs) - 1 /\ i + 1 \in 1 .. Len(funcs) /\ (i + 1) - 1 = i
             /\ Mod.funcs[i] = funcs[i + 1] /\ Finished(Mod, Mod.funcs[i], code, hv)
             /\ (i + 1 > Len(host_fn_ids) <=> HasCode(Mod.funcs[i]))
             /\ Mod.funcs[i].n_params = FuncArity(i).np /\ Mod.funcs[i].n_results = FuncArity(i).nr
  <2>1. i \in 0 .. Len(funcs) - 1 /\ i + 1 \in 1 .. Len(funcs) /\ (i + 1) - 1 = i
    BY ONLY <1>2, <1>3, i \in 0 .. Mod.n_funcs - 1
  <2>2. Mod.funcs[i] = funcs[i + 1]
    BY Zenon, <1>2, <2>1
  <2>3. /\ (i + 1 > Len(host_fn_ids) <=> HasCode(funcs[i + 1]))
        /\ funcs[i + 1].n_params = FuncArity((i + 1) - 1).np
        /\ funcs[i + 1].n_results = FuncArity((i + 1) - 1).nr
    BY Zenon, <1>1, <2>1 DEF ModOk
  <2>4. Finished(Mod, funcs[i + 1], code, hv)
    BY Zenon, <1>1, <2>1
  <2> QED
    BY Zenon, <2>1, <2>2, <2>3, <2>4
<1>5. ASSUME NEW i \in 0 .. Mod.n_funcs - 1
      PROVE  /\ WellPlaced(Mod, i)
             /\ HasCode(Mod.funcs[i]) =>
                   /\ Ht[i] \in [0 .. Mod.funcs[i].code_len - 1 -> Int]
                   /\ ConsistentIn(Mod, Mod.funcs[i], Ht[i])
  <2> DEFINE m == Mod
             f == m.funcs[i]
  <2>1. Finished(m, f, code, hv) /\ (i + 1 > Len(host_fn_ids) <=> HasCode(f)) /\ i \in 0 .. Len(funcs) - 1
    BY Zenon, <1>4
  <2>2. Ht[i] = [rel \in 0 .. f.code_len - 1 |-> hv[(f.code_off + rel) + 1]]
    <3>1. Ht[i] = HeightsOfFunc(funcs[i + 1]) /\ f = funcs[i + 1]
      BY <1>4, <2>1 DEF Ht
    <3> QED
      BY Zenon, <3>1 DEF HeightsOfFunc
  <2>3. EndOf(f) <= m.code_len
    <3>1. FuncOk(f, code, Len(code)) /\ m.code_len = Len(code)
      BY Zenon, <1>2, <2>1 DEF Finished, Holds
    <3> QED
      BY Zenon, <3>1 DEF FuncOk
  <2> HIDE DEF f, m
  <2>4. ASSUME HasCode(f)
        PROVE  /\ EndsInReturn(m, f) /\ Ht[i] \in [0 .. f.code_len - 1 -> Int]
               /\ ConsistentIn(m, f, Ht[i])
    BY ONLY ZenonT(30), <2>1, <2>2, <2>4, FinishedConsistent
  <2>5. HasCode(f) \/ i < m.n_host_imports
    BY <1>2, <1>3, <2>1 DEF m
  <2>6. WellPlaced(m, i)
    BY Zenon, <2>3, <2>4, <2>5 DEF WellPlaced, f
  <2> QED
    BY Zenon, <2>4, <2>6 DEF m, f
<1>6. HeightsConsistent(Mod, Ht)
  BY Zenon, <1>5 DEF HeightsConsistent
<1>7. ASSUME NEW i \in 0 .. Mod.n_funcs - 1, NEW rel \in 0 .. Mod.funcs[i].code_len - 1
      PROVE  WellLowered(Mod, Mod.funcs[i], Mod.code[Mod.funcs[i].code_off + rel])
  BY Zenon, <1>1, <1>4, FinishedLowered
<1>8. ASSUME NEW i \in 0 .. Mod.n_funcs - 1, Mod.func_typeidx[i] < Mod.n_types
      PROVE  /\ Mod.type_fp[Mod.func_typeidx[i]].np = Mod.funcs[i].n_params
             /\ Mod.type_fp[Mod.func_typeidx[i]].nr = Mod.funcs[i].n_results
  <2> DEFINE t == func_typeidx[i + 1]
  <2>1. i \in 0 .. Len(func_typeidx) - 1 /\ i + 1 \in 1 .. Len(func_typeidx)
    BY Zenon, <1>1, <1>4
  <2>2. Mod.func_typeidx[i] = t
    BY Zenon, <1>2, <2>1
  <2>3. t \in Nat
    BY <1>3, <2>1
  <2>4. t \in 0 .. Len(func_types) - 1
    BY <1>2, <1>3, <1>8, <2>2, <2>3
  <2>5. Mod.type_fp[t].np = FuncArity(i).np /\ Mod.type_fp[t].nr = FuncArity(i).nr
    BY Zenon, <1>2, <2>4 DEF FuncArity
  <2> QED
    BY Zenon, <1>4, <2>2, <2>5
<1>9. Lowered(Mod)
  BY Zenon, <1>7, <1>8 DEF Lowered
<1> QED
  BY <1>6, <1>9

\* The invariant holds before anything is read.
LEMMA HeightInit ==
    ASSUME Init
    PROVE  HeightInv
<1>1. /\ hv = <<>> /\ code = <<>> /\ res = "parse" /\ low = "idle" /\ funcs = <<>>
      /\ func_typeidx = <<>> /\ host_fn_ids = <<>>
  BY DEF Init
<1>2. hv \in Seq(Int) /\ Len(hv) = Len(code) /\ Len(funcs) = 0 /\ Len(func_typeidx) = 0
      /\ Len(host_fn_ids) = 0
  BY <1>1
<1>3. ModOk
  BY <1>2 DEF ModOk
<1>4. GoodFuncs(KM(Len(consts)), funcs, code, hv, SmallTypes)
  BY <1>2 DEF GoodFuncs
<1> QED
  BY Zenon, <1>1, <1>2, <1>3, <1>4 DEF HeightInv, HeightsOk

\* No step takes another module.
LEMMA SameModule ==
    ASSUME [Next]_vars
    PROVE  inp' = inp
<1>1. ASSUME Sections PROVE inp' = inp
  <2>1. ASSUME Entries PROVE inp' = inp
    BY <2>1, EntryQuiet DEF Quiet
  <2>2. ASSUME NEW has \in BOOLEAN, FuncStart(has) PROVE inp' = inp
    BY <2>2, StartFrame
  <2> QED
    BY Zenon, <1>1, <2>1, <2>2 DEF Sections, Entries
<1>2. ASSUME Operators \/ FuncDone \/ FuncStub \/ Finish \/ HandOver \/ Free \/ UNCHANGED vars
      PROVE  inp' = inp
  <2>1. ctx' = ctx
    BY Zenon, <1>2 DEF Operators, FuncDone, FuncStub, Finish, HandOver, Free, vars
  <2> QED
    BY <2>1 DEF ctx
<1> QED
  BY Zenon, <1>1, <1>2 DEF Next

\* Every step keeps the heights of a valid module good.
LEMMA HeightNext ==
    ASSUME Types, Types', BranchInv, ValidInv, HeapInv, HeightInv, [Next]_vars
    PROVE  HeightInv'
<1> SUFFICES ASSUME inp.valid PROVE HeightsOk'
  BY Zenon, SameModule DEF HeightInv
<1>1. HeightsOk
  BY DEF HeightInv
<1>2. CASE Sections
  BY Zenon, <1>1, <1>2, HeightSections
<1>3. CASE Operators
  <2>1. Agreed
    BY Zenon, <1>3, ConstsGrow DEF ValidInv
  <2> QED
    BY Zenon, <1>1, <1>3, <2>1, HeightLower
<1>4. CASE FuncDone
  BY Zenon, <1>1, <1>4, HeightDone
<1>5. CASE FuncStub
  BY Zenon, <1>1, <1>5, HeightStub
<1>6. CASE Finish \/ HandOver \/ Free
  <2>1. /\ low' = low /\ UNCHANGED <<code, hv, consts, funcs>>
        /\ UNCHANGED <<func_types, func_typeidx, host_fn_ids>>
    BY <1>6 DEF Finish, HandOver, Free, ctx, lvars
  <2>2. low = "idle"
    BY Zenon, <1>6 DEF Finish, HandOver, Free, HeapInv
  <2>3. res' = "ok" => SmallTypes
    <3>1. CASE Finish
      BY <3>1 DEF Finish, SmallTypes
    <3>2. CASE HandOver \/ Free
      BY Zenon, <1>1, <3>2 DEF HandOver, Free, HeightsOk
    <3> QED
      BY <1>6, <3>1, <3>2
  <2> QED
    BY Zenon, <1>1, <2>1, <2>2, <2>3, HeightStill
<1>7. CASE UNCHANGED vars
  <2>1. /\ UNCHANGED <<code, hv, consts, funcs, low, res, cur, ctrl, val, h>>
        /\ UNCHANGED <<func_types, func_typeidx, host_fn_ids>>
    BY <1>7 DEF vars, ctx, lvars, tvars
  <2>2. SmallTypes' = SmallTypes
    BY <2>1 DEF SmallTypes
  <2>3. ModOk' = ModOk /\ CurOk' = CurOk
    BY <2>1 DEF ModOk, CurOk, FuncArity, Arity
  <2>4. KM(Len(consts))' = KM(Len(consts)) /\ FM' = FM /\ Here' = Here
    BY <2>1 DEF KM, FM, Meta, Here, Live, VTop
  <2> QED
    BY Zenon, <1>1, <2>1, <2>2, <2>3, <2>4 DEF HeightsOk
<1> QED
  BY Zenon, <1>2, <1>3, <1>4, <1>5, <1>6, <1>7 DEF Next

\* HeightInv holds in every state translate_wasm goes through.
THEOREM HeightInvariant == Spec => []HeightInv
<1>1. Init => HeightInv
  BY HeightInit
<1>2. Types /\ Types' /\ BranchInv /\ ValidInv /\ HeapInv /\ HeightInv /\ [Next]_vars => HeightInv'
  BY HeightNext
<1> QED
  BY <1>1, <1>2, TypesInvariant, BranchInvariant, ValidatorAgrees, HeapInvariant, PTL DEF Spec

(***************************************************************************)
(* Whatever valid module translate_wasm is given, if it returns one then   *)
(* verify_cuop has nothing to object to: the heights lower_operators       *)
(* followed are consistent along every edge of every function, and calls,  *)
(* unwinds and fingerprints are what the drivers rely on.                  *)
(***************************************************************************)
THEOREM TranslatedVerifiesAlways == Spec => []TranslatedVerifies
<1>1. Types /\ BranchInv /\ HeapInv /\ HeightInv => TranslatedVerifies
  BY Zenon, TranslatedGood DEF HeightInv, TranslatedVerifies
<1> QED
  BY <1>1, TypesInvariant, BranchInvariant, HeapInvariant, HeightInvariant, PTL

=============================================================================
