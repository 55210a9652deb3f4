-------------------------- MODULE TranslateProofs ---------------------------
(***************************************************************************)
(* What every step of translate_wasm keeps.  For every module, valid or    *)
(* not: branches stay inside their functions (BranchesInside, from         *)
(* BranchInv), and the vectors cuwasm_translate_wasm hands out come back   *)
(* to the allocator (NothingLeaks, from HeapInv).  For every valid module: *)
(* lower_operators agrees with Wasm validation at every operator, so it    *)
(* gives up only in the else arm of an if that is not reached, or for what *)
(* it does not implement (StubJustified, from ValidInv).                   *)
(***************************************************************************)
EXTENDS LoweringProofs

-----------------------------------------------------------------------------
\* Code before n decides about the functions that end there.
LEMMA FuncsAgree ==
    ASSUME NEW fs \in Seq(MetaType), NEW c, NEW d, NEW n \in Nat, NEW m \in Nat, n <= m,
           FuncsOk(fs, c, n), \A p \in 1 .. n : d[p] = c[p]
    PROVE  FuncsOk(fs, d, m)
<1> SUFFICES ASSUME NEW i \in 1 .. Len(fs) PROVE FuncOk(fs[i], d, m)
  BY Zenon DEF FuncsOk
<1>0. fs[i] \in MetaType
  OBVIOUS
<1>1. fs[i].code_off \in Nat /\ fs[i].code_len \in Int
  BY Zenon, <1>0 DEF MetaType
<1>2. FuncOk(fs[i], c, n)
  BY Zenon DEF FuncsOk
<1>3. EndOf(fs[i]) \in Int /\ EndOf(fs[i]) <= n
  BY <1>1, <1>2 DEF FuncOk, EndOf
<1>4. ASSUME NEW p \in fs[i].code_off .. EndOf(fs[i]) - 1, Branchy(d[p + 1])
      PROVE  d[p + 1].b \in fs[i].code_off .. EndOf(fs[i]) - 1
  <2>1. p + 1 \in 1 .. n
    BY <1>1, <1>3
  <2>2. d[p + 1] = c[p + 1]
    BY Zenon, <2>1
  <2> QED
    BY Zenon, <1>2, <1>4, <2>2 DEF FuncOk
<1> QED
  BY <1>2, <1>3, <1>4 DEF FuncOk

\* A turn of lower_operators that goes on.
LEMMA BranchStep ==
    ASSUME Types, BranchInv, low = "ops", low' = "ops", UNCHANGED <<ctx, tvars>>,
           code' \in Seq(KnownOp), Len(code) <= Len(code'),
           \A p \in 1 .. cur.off : code'[p] = code[p],
           LabelsOk(ctrl', cur.off, Len(code')), BranchesOk(code', ctrl', cur.off)
    PROVE  BranchInv'
<1>1. funcs \in Seq(MetaType) /\ cur.off \in Nat /\ Len(code) \in Nat /\ Len(code') \in Nat
  BY DEF Types, ModTypes, CurType, LowTypes
<1>2. FuncsOk(funcs, code, cur.off) /\ Apart(funcs) /\ cur.off <= Len(code)
  BY Zenon DEF BranchInv, Done
<1>3. FuncsOk(funcs, code', cur.off)
  BY <1>1, <1>2, FuncsAgree
<1>4. funcs' = funcs /\ cur' = cur
  BY Zenon DEF tvars, ctx
<1> QED
  BY <1>1, <1>2, <1>3, <1>4 DEF BranchInv, Done

\* A turn that fails: what it emitted belongs to no function.
LEMMA BranchFail ==
    ASSUME Types, BranchInv, low = "ops", UNCHANGED <<ctx, tvars>>,
           NEW cs \in Seq(KnownOp), NEW ks, Fail(cs, ks)
    PROVE  BranchInv'
<1>1. /\ funcs \in Seq(MetaType) /\ cur.off \in Nat /\ code \in Seq(KnownOp)
      /\ low' = "err" /\ code' = code \o cs
  BY Zenon DEF Types, ModTypes, CurType, LowTypes, Fail
<1>2. FuncsOk(funcs, code, cur.off) /\ Apart(funcs) /\ cur.off <= Len(code)
  BY Zenon DEF BranchInv, Done
<1>a. /\ Len(code') = Len(code) + Len(cs) /\ Len(cs) \in Nat /\ Len(code) \in Nat
      /\ \A p \in 1 .. Len(code) : code'[p] = code[p]
  BY <1>1, AppendTypes
<1>3. \A p \in 1 .. cur.off : code'[p] = code[p]
  BY <1>1, <1>2, <1>a
<1>4. FuncsOk(funcs, code', cur.off)
  <2>1. funcs \in Seq(MetaType) /\ cur.off \in Nat /\ cur.off <= cur.off
    BY <1>1
  <2> QED
    BY ONLY Zenon, <2>1, <1>2, <1>3, FuncsAgree
<1>5. funcs' = funcs /\ cur' = cur
  BY Zenon DEF tvars, ctx
<1> QED
  BY <1>1, <1>2, <1>a, <1>4, <1>5 DEF BranchInv, Done

\* Emitting cs, with branches that go to the function or wait, keeps what waited.
LEMMA BranchExtend ==
    ASSUME NEW c \in Seq(KnownOp), NEW cs \in Seq(KnownOp), NEW ct \in Seq(Label),
           NEW ct2 \in Seq(Label), NEW off \in Nat,
           ct # <<>>, Len(ct) <= Len(ct2), BranchesOk(c, ct, off),
           \A i \in 1 .. Len(ct) : Joins(ct[i]) \subseteq Joins(ct2[i]),
           \A p \in 1 .. Len(cs) : BranchOk(cs[p], Len(c) + p - 1, ct2, off, Len(c) + Len(cs))
    PROVE  BranchesOk(c \o cs, ct2, off)
<1>0. ct2 # <<>> /\ Len(c) \in Nat /\ Len(cs) \in Nat /\ Len(c \o cs) = Len(c) + Len(cs)
  BY AppendTypes
<1>1. ASSUME NEW p \in off .. Len(c) + Len(cs) - 1
      PROVE  BranchOk((c \o cs)[p + 1], p, ct2, off, Len(c) + Len(cs))
  <2>1. CASE p < Len(c)
    <3>1. p \in off .. Len(c) - 1 /\ p + 1 \in 1 .. Len(c)
      BY <1>0, <2>1
    <3>2. BranchOk(c[p + 1], p, ct, off, Len(c))
      <4>1. BranchOk(c[p + 1], p, ct, off, IF ct = <<>> THEN Len(c) - 1 ELSE Len(c))
        BY ONLY Zenon, <3>1, BranchesOk(c, ct, off) DEF BranchesOk
      <4> QED
        BY Zenon, <4>1
    <3>3. (c \o cs)[p + 1] = c[p + 1]
      BY Zenon, <3>1, AppendTypes
    <3>4. Waits(p, ct) => Waits(p, ct2)
      <4>1. Len(ct) \in Nat /\ Len(ct2) \in Nat
        OBVIOUS
      <4>2. \A i \in 1 .. Len(ct) : i \in 1 .. Len(ct2)
        BY <4>1
      <4> QED
        BY Zenon, <4>2 DEF Waits
    <3>5. c[p + 1].b \in off .. Len(c) => c[p + 1].b \in off .. Len(c) + Len(cs)
      BY <1>0
    <3> QED
      BY Zenon, <3>2, <3>3, <3>4, <3>5 DEF BranchOk
  <2>2. CASE ~ p < Len(c)
    <3> DEFINE k == p - Len(c) + 1
    <3>1. k \in 1 .. Len(cs) /\ Len(c) + k - 1 = p /\ Len(c) + k = p + 1
      BY <1>0, <2>2
    <3> HIDE DEF k
    <3>2. (c \o cs)[p + 1] = cs[k]
      BY <3>1, AppendTypes
    <3> QED
      BY Zenon, <3>1, <3>2
  <2> QED
    BY Zenon, <2>1, <2>2
<1> QED
  BY <1>0, <1>1 DEF BranchesOk

\* Labels stay good as code grows.
LEMMA LabelsGrow ==
    ASSUME NEW ct \in Seq(Label), NEW off \in Nat, NEW n \in Nat, NEW m \in Nat, n <= m,
           LabelsOk(ct, off, n)
    PROVE  LabelsOk(ct, off, m)
<1>1. \A i \in 1 .. Len(ct) : ct[i].start \in off .. n => ct[i].start \in off .. m
  OBVIOUS
<1> QED
  BY Zenon, <1>1 DEF LabelsOk, LabelOk

\* Emitting code that does not branch.
LEMMA BranchEmit ==
    ASSUME Types, BranchInv, low = "ops", low' = "ops", ctrl # <<>>, UNCHANGED <<ctx, tvars, ctrl>>,
           NEW cs \in Seq(KnownOp), \A p \in 1 .. Len(cs) : ~ Branchy(cs[p]), code' = code \o cs
    PROVE  BranchInv'
<1>1. /\ cur.off \in Nat /\ code \in Seq(KnownOp) /\ ctrl \in Seq(Label) /\ cur.off <= Len(code)
      /\ LabelsOk(ctrl, cur.off, Len(code)) /\ BranchesOk(code, ctrl, cur.off)
  BY Zenon DEF Types, CurType, LowTypes, BranchInv
<1>2. /\ code' \in Seq(KnownOp) /\ Len(code') = Len(code) + Len(cs)
      /\ Len(code) \in Nat /\ Len(cs) \in Nat /\ Len(code') \in Nat /\ Len(code) <= Len(code')
      /\ \A p \in 1 .. Len(code) : code'[p] = code[p]
  BY <1>1, AppendTypes
<1>3. \A p \in 1 .. cur.off : code'[p] = code[p]
  BY <1>1, <1>2
<1>4. LabelsOk(ctrl', cur.off, Len(code'))
  BY Zenon, <1>1, <1>2, LabelsGrow
<1>5. BranchesOk(code', ctrl', cur.off)
  <2>1. \A p \in 1 .. Len(cs) : BranchOk(cs[p], Len(code) + p - 1, ctrl, cur.off, Len(code) + Len(cs))
    BY Zenon DEF BranchOk
  <2>2. \A i \in 1 .. Len(ctrl) : Joins(ctrl[i]) \subseteq Joins(ctrl[i])
    BY Zenon
  <2>3. Len(ctrl) <= Len(ctrl)
    BY <1>1
  <2>4. BranchesOk(code \o cs, ctrl, cur.off)
    BY ONLY Zenon, <1>1, <2>1, <2>2, <2>3, ctrl # <<>>, cs \in Seq(KnownOp), BranchExtend
  <2> QED
    BY Zenon, <2>4
<1> QED
  BY Zenon, <1>2, <1>3, <1>4, <1>5, BranchStep

\* The jump that ends before pc p waits in its label, if that is not a loop.
LEMMA PendingOk ==
    ASSUME NEW i \in 1 .. Len(ctrl), NEW p \in Nat, NEW off \in Nat, p > off,
           ctrl \in Seq(Label), NEW n \in Nat, LabelsOk(ctrl, off, n)
    PROVE  /\ Pending(i, p) \in Seq(Label) /\ Len(Pending(i, p)) = Len(ctrl)
           /\ LabelsOk(Pending(i, p), off, n)
           /\ \A j \in 1 .. Len(ctrl) : Joins(ctrl[j]) \subseteq Joins(Pending(i, p)[j])
           /\ ctrl[i].kind # "loop" => Waits(p - 1, Pending(i, p))
<1>0. p \in Nat \ {0}
  OBVIOUS
<1>1. Pending(i, p) \in Seq(Label) /\ Len(Pending(i, p)) = Len(ctrl)
  BY Zenon, <1>0, PendingType
<1>2. CASE ctrl[i].kind = "loop"
  <2>1. Pending(i, p) = ctrl
    BY Zenon, <1>2 DEF Pending
  <2> QED
    BY Zenon, <1>1, <1>2, <2>1
<1>3. CASE ctrl[i].kind # "loop"
  <2>1. \A j \in 1 .. Len(ctrl) : j # i => Pending(i, p)[j] = ctrl[j]
    BY Zenon, <1>3 DEF Pending
  <2>2. /\ Pending(i, p)[i].kind = ctrl[i].kind /\ Pending(i, p)[i].start = ctrl[i].start
        /\ Pending(i, p)[i].has_else = ctrl[i].has_else /\ Pending(i, p)[i].else_br = ctrl[i].else_br
        /\ Pending(i, p)[i].br_if_not = ctrl[i].br_if_not
        /\ Pending(i, p)[i].patches = ctrl[i].patches \cup {p - 1}
    BY Zenon, <1>3 DEF Pending
  <2>3. Joins(Pending(i, p)[i]) = Joins(ctrl[i]) \cup {p - 1}
    BY Zenon, <2>2 DEF Joins
  <2>4. \A j \in 1 .. Len(ctrl) : Joins(ctrl[j]) \subseteq Joins(Pending(i, p)[j])
    BY Zenon, <2>1, <2>3
  <2>5. Waits(p - 1, Pending(i, p))
    BY Zenon, <1>1, <2>3 DEF Waits
  <2>6. p - 1 >= off
    OBVIOUS
  <2>7. ASSUME NEW j \in 1 .. Len(ctrl) PROVE LabelOk(Pending(i, p)[j], j, off, n)
    <3>1. LabelOk(ctrl[j], j, off, n)
      BY Zenon DEF LabelsOk
    <3>2. CASE j # i
      BY Zenon, <2>1, <3>1, <3>2
    <3>3. CASE j = i
      <4>1. \A q \in Joins(Pending(i, p)[i]) : q >= off
        BY Zenon, <2>3, <2>6, <3>1, <3>3 DEF LabelOk
      <4> QED
        BY Zenon, <2>2, <3>1, <3>3, <4>1 DEF LabelOk
    <3> QED
      BY Zenon, <3>2, <3>3
  <2>8. LabelsOk(Pending(i, p), off, n)
    BY Zenon, <1>1, <2>7 DEF LabelsOk
  <2> QED
    BY Zenon, <1>1, <2>4, <2>5, <2>8
<1> QED
  BY Zenon, <1>2, <1>3

\* The instructions of a jump: only the last one branches, to the label or where it waits.
LEMMA JumpShape ==
    ASSUME Types, NEW i \in 1 .. Len(ctrl), NEW hh
    PROVE  /\ JumpCode(i, hh) \in Seq(KnownOp) /\ Len(JumpCode(i, hh)) \in 1 .. 2
           /\ JumpCode(i, hh)[Len(JumpCode(i, hh))].b =
                 IF ctrl[i].kind = "loop" THEN ctrl[i].start ELSE 0
           /\ \A p \in 1 .. Len(JumpCode(i, hh)) :
                 p < Len(JumpCode(i, hh)) => ~ Branchy(JumpCode(i, hh)[p])
<1>1. JumpCode(i, hh) \in Seq(KnownOp) /\ Len(JumpCode(i, hh)) \in 1 .. 2
  BY Zenon, JumpType
<1>2. CASE Unwinds(i, hh)
  BY <1>1, <1>2 DEF JumpCode, Cu, Branchy
<1>3. CASE ~ Unwinds(i, hh)
  BY <1>1, <1>3 DEF JumpCode, Cu, Branchy
<1> QED
  BY Zenon, <1>1, <1>2, <1>3

\* Emitting cs, whose branches are good, and a jump to label i.
LEMMA BranchJump ==
    ASSUME Types, BranchInv, low = "ops", low' = "ops", ctrl # <<>>, UNCHANGED <<ctx, tvars>>,
           NEW i \in 1 .. Len(ctrl), NEW hh, NEW cs \in Seq(KnownOp), NEW js \in Seq(KnownOp),
           js = JumpCode(i, hh),
           \A p \in 1 .. Len(cs) : Branchy(cs[p]) => cs[p].b = Len(code) + Len(cs) + Len(js),
           code' = code \o (cs \o js), ctrl' = Pending(i, Len(code) + Len(cs) + Len(js))
    PROVE  BranchInv'
<1>1. /\ cur.off \in Nat /\ code \in Seq(KnownOp) /\ ctrl \in Seq(Label) /\ cur.off <= Len(code)
      /\ LabelsOk(ctrl, cur.off, Len(code)) /\ BranchesOk(code, ctrl, cur.off)
  BY Zenon DEF Types, CurType, LowTypes, BranchInv
<1>2. /\ Len(js) \in 1 .. 2
      /\ js[Len(js)].b = IF ctrl[i].kind = "loop" THEN ctrl[i].start ELSE 0
      /\ \A p \in 1 .. Len(js) : p < Len(js) => ~ Branchy(js[p])
  BY Zenon, JumpShape
<1> DEFINE n == Len(code) + Len(cs) + Len(js)
           all == cs \o js
           off == cur.off
<1>3. /\ Len(code) \in Nat /\ Len(cs) \in Nat /\ n \in Nat /\ Len(code) <= n /\ n > off
      /\ off \in Nat /\ off <= n
  BY <1>1, <1>2
<1>4. all \in Seq(KnownOp) /\ Len(all) = Len(cs) + Len(js) /\ Len(code) + Len(all) = n
  BY <1>2, <1>3, AppendTypes
<1>5. /\ code' \in Seq(KnownOp) /\ Len(code') = n
      /\ \A p \in 1 .. Len(code) : code'[p] = code[p]
  <2> HIDE DEF all
  <2>1. code' = code \o all
    BY Zenon DEF all
  <2>2. /\ code \o all \in Seq(KnownOp) /\ Len(code \o all) = Len(code) + Len(all)
        /\ \A p \in 1 .. Len(code) : (code \o all)[p] = code[p]
    BY ONLY Zenon, <1>1, <1>4, AppendTypes
  <2> QED
    BY ONLY Zenon, <1>4, <2>1, <2>2
<1>6. /\ ctrl' \in Seq(Label) /\ Len(ctrl') = Len(ctrl) /\ LabelsOk(ctrl', off, n)
      /\ \A j \in 1 .. Len(ctrl) : Joins(ctrl[j]) \subseteq Joins(ctrl'[j])
      /\ ctrl[i].kind # "loop" => Waits(n - 1, ctrl')
  <2>1. LabelsOk(ctrl, off, n)
    BY Zenon, <1>1, <1>3, LabelsGrow
  <2>2. ctrl' = Pending(i, n)
    BY Zenon
  <2> HIDE DEF n, off
  <2>3. /\ Pending(i, n) \in Seq(Label) /\ Len(Pending(i, n)) = Len(ctrl)
        /\ LabelsOk(Pending(i, n), off, n)
        /\ \A j \in 1 .. Len(ctrl) : Joins(ctrl[j]) \subseteq Joins(Pending(i, n)[j])
        /\ ctrl[i].kind # "loop" => Waits(n - 1, Pending(i, n))
    BY ONLY Zenon, <1>1, <1>3, <2>1, i \in 1 .. Len(ctrl), PendingOk
  <2> QED
    BY Zenon, <2>2, <2>3
<1>7. ASSUME NEW p \in 1 .. Len(all) PROVE BranchOk(all[p], Len(code) + p - 1, ctrl', off, n)
  <2>1. CASE p <= Len(cs)
    <3>1. p \in 1 .. Len(cs) /\ all[p] = cs[p]
      BY <1>4, <2>1, AppendTypes
    <3>2. Branchy(all[p]) => all[p].b = n
      BY Zenon, <3>1
    <3> QED
      BY SMTT(30), <1>3, <3>2 DEF BranchOk
  <2>2. CASE p > Len(cs)
    <3> DEFINE k == p - Len(cs)
    <3>1. k \in 1 .. Len(js) /\ p = Len(cs) + k
      BY SMTT(30), <1>2, <1>3, <1>4, <2>2
    <3> HIDE DEF k
    <3>2. all[p] = js[k]
      BY <3>1, AppendTypes
    <3>3. CASE k < Len(js)
      BY Zenon, <1>2, <3>1, <3>2, <3>3 DEF BranchOk
    <3>4. CASE k = Len(js)
      <4>1. Len(code) + p - 1 = n - 1
        BY <1>2, <1>3, <3>1, <3>4
      <4>2. CASE ctrl[i].kind = "loop"
        <5>1. ctrl[i].start \in off .. Len(code)
          BY Zenon, <1>1 DEF LabelsOk, LabelOk
        <5>2. all[p].b = ctrl[i].start
          BY Zenon, <1>2, <3>2, <3>4, <4>2
        <5>3. all[p].b \in off .. n
          BY ONLY <1>3, <5>1, <5>2
        <5> QED
          BY Zenon, <5>3 DEF BranchOk
      <4>3. CASE ctrl[i].kind # "loop"
        BY Zenon, <1>6, <4>1, <4>3 DEF BranchOk
      <4> QED
        BY Zenon, <4>2, <4>3
    <3> QED
      BY <1>2, <3>1, <3>3, <3>4
  <2> QED
    BY <1>3, <1>4, <2>1, <2>2
<1>8. BranchesOk(code', ctrl', off)
  <2>1. code' = code \o all
    BY Zenon
  <2>2. \A p \in 1 .. Len(all) : BranchOk(all[p], Len(code) + p - 1, ctrl', off, Len(code) + Len(all))
    BY Zenon, <1>4, <1>7
  <2>3. Len(ctrl) <= Len(ctrl')
    BY <1>1, <1>6
  <2> HIDE DEF all
  <2>4. BranchesOk(code \o all, ctrl', cur.off)
    BY ONLY ZenonT(60), <1>1, <1>4, <1>6, <2>2, <2>3, ctrl # <<>>, BranchExtend
  <2> QED
    BY Zenon, <2>1, <2>4
<1>9. \A p \in 1 .. off : code'[p] = code[p]
  BY <1>1, <1>3, <1>5
<1> QED
  BY Zenon, <1>3, <1>5, <1>6, <1>8, <1>9, BranchStep

\* What patching leaves at a pc: the old instruction, or its branch sent to b.
LEMMA PatchAt ==
    ASSUME NEW ps, NEW b, NEW p \in 1 .. Len(code)
    PROVE  /\ p - 1 \notin ps => Patch(ps, b)[p] = code[p]
           /\ p - 1 \in ps => Patch(ps, b)[p].b = b
BY Zenon DEF Patch, Cu

\* else: br_if_not comes to the pc after the jump of the then arm, which waits instead.
LEMMA BranchElse ==
    ASSUME Types, BranchInv, Types', UNCHANGED <<ctx, tvars>>, NEW o, Else(o), Top.kind = "if"
    PROVE  BranchInv'
<1>1. /\ cur.off \in Nat /\ code \in Seq(KnownOp) /\ ctrl \in Seq(Label) /\ cur.off <= Len(code)
      /\ LabelsOk(ctrl, cur.off, Len(code)) /\ BranchesOk(code, ctrl, cur.off)
      /\ low = "ops" /\ low' = "ops" /\ ctrl # <<>>
  BY Zenon DEF Types, CurType, LowTypes, BranchInv, Else, Read
<1>e. ~ Top.has_else
  BY Zenon DEF Else
<1>t. code' \in Seq(KnownOp) /\ ctrl' \in Seq(Label)
  BY Zenon DEF Types, LowTypes
<1> DEFINE k == Len(ctrl)
           n == Len(code)
           off == cur.off
           pc == Patch({Top.br_if_not}, n + 1)
           nt == [kind |-> "if", start |-> Top.start, br_if_not |-> Top.br_if_not,
                  else_br |-> n, patches |-> Top.patches,
                  has_else |-> TRUE, base |-> Top.base, np |-> Top.np,
                  nr |-> Top.nr, dead_on_entry |-> Top.dead_on_entry]
<1>2. /\ code' = Append(pc, Cu("BR", 0, 0))
      /\ ctrl' = [j \in 1 .. k |-> IF j < k THEN ctrl[j] ELSE nt]
  BY Zenon DEF Else
<1>3. k \in Nat \ {0} /\ n \in Nat /\ off \in Nat /\ off <= n /\ n + 1 \in Nat
  BY <1>1
<1>4. Len(ctrl') = k /\ ctrl'[k] = nt /\ \A j \in 1 .. k - 1 : ctrl'[j] = ctrl[j]
  <2> HIDE DEF nt
  <2> QED
    BY <1>2, <1>3
<1>5. Joins(nt) = Top.patches \cup {n}
  BY Zenon DEF Joins
<1>6. Joins(Top) = Top.patches \cup {Top.br_if_not}
  BY Zenon, <1>e DEF Joins
<1>7. LabelOk(Top, k, off, n)
  BY <1>1, <1>3 DEF LabelsOk, Top
<1>8. k # 1 /\ Top.start \in off .. n + 1 /\ Top.br_if_not >= off /\ \A p \in Top.patches : p >= off
  BY <1>3, <1>6, <1>7 DEF LabelOk
<1>9. LabelsOk(ctrl', off, n + 1)
  <2>1. LabelOk(nt, k, off, n + 1)
    BY Zenon, <1>3, <1>5, <1>8 DEF LabelOk
  <2>2. LabelsOk(ctrl, off, n + 1)
    BY <1>1, <1>3, LabelsGrow
  <2> HIDE DEF nt
  <2>3. ASSUME NEW j \in 1 .. k PROVE LabelOk(ctrl'[j], j, off, n + 1)
    <3>1. CASE j = k
      BY Zenon, <1>4, <2>1, <3>1
    <3>2. CASE j # k
      <4>1. j \in 1 .. k - 1
        BY <1>3, <3>2
      <4> QED
        BY Zenon, <1>4, <2>2, <4>1 DEF LabelsOk
    <3> QED
      BY Zenon, <3>1, <3>2
  <2> QED
    BY Zenon, <1>4, <2>3 DEF LabelsOk
<1>p. pc \in Seq(KnownOp) /\ Len(pc) = n
  BY Zenon, <1>1, <1>3, PatchType
<1>10. /\ Len(code') = n + 1 /\ code'[n + 1] = Cu("BR", 0, 0)
       /\ \A p \in 1 .. n : code'[p] = pc[p]
  <2> HIDE DEF pc
  <2> QED
    BY <1>2, <1>3, <1>p
<1>11. \A p \in 1 .. off : code'[p] = code[p]
  <2> SUFFICES ASSUME NEW p \in 1 .. off PROVE code'[p] = code[p]
    BY Zenon
  <2>1. p \in 1 .. n /\ p - 1 < off
    BY <1>3
  <2>2. p - 1 # Top.br_if_not
    BY <1>1, <1>3, <1>8, <2>1, TopType
  <2> QED
    BY <1>10, <2>1, <2>2, PatchAt
<1>12. ASSUME NEW p \in off .. n PROVE BranchOk(code'[p + 1], p, ctrl', off, n + 1)
  <2>w. ASSUME NEW q \in Joins(nt) PROVE Waits(q, ctrl')
    <3> HIDE DEF nt
    <3> QED
      BY <1>3, <1>4 DEF Waits
  <2>1. CASE p = n
    BY Zenon, <1>5, <2>1, <2>w DEF BranchOk
  <2>2. CASE p # n
    <3>1. p \in off .. n - 1 /\ p + 1 \in 1 .. n /\ (p + 1) - 1 = p
      BY <1>3, <2>2
    <3>2. CASE p = Top.br_if_not
      <4>1. code'[p + 1].b = n + 1
        BY <1>10, <3>1, <3>2, PatchAt
      <4> QED
        BY <1>3, <4>1 DEF BranchOk
    <3>3. CASE p # Top.br_if_not
      <4>1. code'[p + 1] = code[p + 1]
        BY <1>10, <3>1, <3>3, PatchAt
      <4>2. BranchOk(code[p + 1], p, ctrl, off, n)
        BY ONLY Zenon, <1>1, <3>1 DEF BranchesOk
      <4>3. code[p + 1].b \in off .. n => code[p + 1].b \in off .. n + 1
        BY <1>3
      <4>4. Waits(p, ctrl) => Waits(p, ctrl')
        <5> SUFFICES ASSUME NEW i \in 1 .. k, p \in Joins(ctrl[i]) PROVE Waits(p, ctrl')
          BY Zenon DEF Waits
        <5>1. CASE i = k
          <6>1. p \in Top.patches
            BY Zenon, <1>6, <3>3, <5>1 DEF Top
          <6> QED
            BY Zenon, <1>5, <2>w, <6>1
        <5>2. CASE i # k
          <6>1. i \in 1 .. k - 1
            BY <1>3, <5>2
          <6> QED
            BY Zenon, <1>4, <6>1 DEF Waits
        <5> QED
          BY Zenon, <5>1, <5>2
      <4> QED
        BY Zenon, <4>1, <4>2, <4>3, <4>4 DEF BranchOk
    <3> QED
      BY Zenon, <3>2, <3>3
  <2> QED
    BY Zenon, <2>1, <2>2
<1>13. BranchesOk(code', ctrl', off)
  <2>1. ctrl' # <<>> /\ Len(code') - 1 = n
    BY <1>3, <1>4, <1>10
  <2> QED
    BY Zenon, <1>10, <1>12, <2>1 DEF BranchesOk
<1> QED
  BY <1>1, <1>t, <1>3, <1>9, <1>10, <1>11, <1>13, BranchStep

\* end: what waits in the block is patched to the next pc; at the end of the function
\* that is the pc of END_FUNC, and nothing waits any more.
LEMMA BranchEnd ==
    ASSUME Types, BranchInv, Types', UNCHANGED <<ctx, tvars>>, NEW o, End(o)
    PROVE  BranchInv'
<1>1. /\ cur.off \in Nat /\ code \in Seq(KnownOp) /\ ctrl \in Seq(Label) /\ cur.off <= Len(code)
      /\ LabelsOk(ctrl, cur.off, Len(code)) /\ BranchesOk(code, ctrl, cur.off)
      /\ low = "ops" /\ low' = "ops" /\ ctrl # <<>>
  BY Zenon DEF Types, CurType, LowTypes, BranchInv, End, Read
<1>t. code' \in Seq(KnownOp) /\ ctrl' \in Seq(Label)
  BY Zenon DEF Types, LowTypes
<1> DEFINE k == Len(ctrl)
           n == Len(code)
           off == cur.off
           pc == Patch(Joins(Top), n)
<1>2. ctrl' = [j \in 1 .. k - 1 |-> ctrl[j]]
  BY Zenon DEF End
<1>3. k \in Nat \ {0} /\ n \in Nat /\ off \in Nat /\ off <= n
  BY <1>1
<1>4. Len(ctrl') = k - 1 /\ \A j \in 1 .. k - 1 : ctrl'[j] = ctrl[j]
  BY <1>2, <1>3
<1>p. pc \in Seq(KnownOp) /\ Len(pc) = n
  BY Zenon, <1>1, <1>3, PatchType
<1>5. LabelOk(Top, k, off, n)
  BY <1>1, <1>3 DEF LabelsOk, Top
<1>6. \A p \in 1 .. off : pc[p] = code[p]
  <2> SUFFICES ASSUME NEW p \in 1 .. off PROVE pc[p] = code[p]
    BY Zenon
  <2>1. p \in 1 .. n /\ ~ p - 1 >= off
    BY <1>3
  <2>2. p - 1 \notin Joins(Top)
    BY Zenon, <1>5, <2>1 DEF LabelOk
  <2> QED
    BY <2>1, <2>2, PatchAt
<1>7. ASSUME NEW p \in off .. n - 1 PROVE BranchOk(pc[p + 1], p, ctrl', off, n)
  <2>1. p + 1 \in 1 .. n /\ (p + 1) - 1 = p
    BY <1>3
  <2>2. CASE p \in Joins(Top)
    <3>1. pc[p + 1].b = n
      BY <2>1, <2>2, PatchAt
    <3> QED
      BY <1>3, <3>1 DEF BranchOk
  <2>3. CASE p \notin Joins(Top)
    <3>1. pc[p + 1] = code[p + 1]
      BY <2>1, <2>3, PatchAt
    <3>2. BranchOk(code[p + 1], p, ctrl, off, n)
      BY ONLY Zenon, <1>1, p \in off .. n - 1 DEF BranchesOk
    <3>3. Waits(p, ctrl) => Waits(p, ctrl')
      <4> SUFFICES ASSUME NEW i \in 1 .. k, p \in Joins(ctrl[i]) PROVE Waits(p, ctrl')
        BY Zenon DEF Waits
      <4>1. i # k
        BY Zenon, <2>3 DEF Top
      <4>2. i \in 1 .. k - 1
        BY <1>3, <4>1
      <4> QED
        BY Zenon, <1>4, <4>2 DEF Waits
    <3> QED
      BY Zenon, <3>1, <3>2, <3>3 DEF BranchOk
  <2> QED
    BY Zenon, <2>2, <2>3
<1>8. LabelsOk(ctrl', off, n)
  <2>1. \A j \in 1 .. k - 1 : j \in 1 .. k
    BY SMTT(30), <1>3
  <2> QED
    BY Zenon, <1>1, <1>4, <2>1 DEF LabelsOk
<1>9. CASE Top.kind = "func"
  <2>1. code' = Append(pc, Cu("END_FUNC", cur.nr, 0))
    BY Zenon, <1>9 DEF End
  <2>2. /\ Len(code') = n + 1 /\ code'[n + 1] = Cu("END_FUNC", cur.nr, 0)
        /\ \A p \in 1 .. n : code'[p] = pc[p]
    <3> HIDE DEF pc
    <3> QED
      BY <1>3, <1>p, <2>1
  <2>3. \A p \in 1 .. off : code'[p] = code[p]
    BY <1>3, <1>6, <2>2
  <2>4. ctrl' = <<>>
    <3>1. k = 1
      BY Zenon, <1>5, <1>9 DEF LabelOk
    <3> QED
      BY <1>t, <1>4, <3>1
  <2>5. ASSUME NEW p \in off .. n PROVE BranchOk(code'[p + 1], p, ctrl', off, n)
    <3>1. CASE p = n
      BY SMTT(30), <2>2, <3>1 DEF BranchOk, Branchy, Cu
    <3>2. CASE p # n
      <4>1. p \in off .. n - 1 /\ p + 1 \in 1 .. n
        BY <1>3, <3>2
      <4> QED
        BY Zenon, <1>7, <2>2, <4>1
    <3> QED
      BY Zenon, <3>1, <3>2
  <2>6. BranchesOk(code', ctrl', off)
    <3>1. Len(code') - 1 = n
      BY SMTT(30), <1>3, <2>2
    <3> QED
      BY Zenon, <2>4, <2>5, <3>1 DEF BranchesOk
  <2>7. LabelsOk(ctrl', off, Len(code'))
    BY <1>t, <1>3, <1>8, <2>2, LabelsGrow
  <2>8. Len(code) <= Len(code')
    BY ONLY <1>3, <2>2
  <2> QED
    BY Zenon, <1>1, <1>t, <2>3, <2>6, <2>7, <2>8, BranchStep
<1>10. CASE Top.kind # "func"
  <2>1. code' = pc
    BY Zenon, <1>10 DEF End
  <2>2. ctrl' # <<>>
    <3>1. k # 1
      BY Zenon, <1>5, <1>10 DEF LabelOk
    <3> QED
      BY <1>3, <1>4, <3>1
  <2>3. BranchesOk(code', ctrl', off)
    BY Zenon, <1>7, <1>p, <2>1, <2>2 DEF BranchesOk
  <2>4. Len(code') = n /\ Len(code) <= Len(code')
    <3>1. Len(code') = n
      BY Zenon, <1>p, <2>1
    <3> QED
      BY ONLY <1>3, <3>1
  <2>5. LabelsOk(ctrl', off, Len(code')) /\ \A p \in 1 .. off : code'[p] = code[p]
    BY Zenon, <1>6, <1>8, <2>1, <2>4
  <2> QED
    BY Zenon, <1>1, <1>t, <2>3, <2>4, <2>5, BranchStep
<1> QED
  BY Zenon, <1>9, <1>10

\* Entering a block after emitting cs, whose instructions wait in the new label.
LEMMA BranchPush ==
    ASSUME Types, BranchInv, Types', low = "ops", low' = "ops", ctrl # <<>>,
           UNCHANGED <<ctx, tvars>>,
           NEW l, ctrl' = Append(ctrl, l), NEW cs \in Seq(KnownOp), code' = code \o cs,
           l.kind # "func", l.start = Len(code) + Len(cs),
           \A p \in Joins(l) : p = Len(code),
           \A p \in 1 .. Len(cs) : Len(code) + p - 1 \in Joins(l)
    PROVE  BranchInv'
<1>1. /\ cur.off \in Nat /\ code \in Seq(KnownOp) /\ ctrl \in Seq(Label) /\ cur.off <= Len(code)
      /\ LabelsOk(ctrl, cur.off, Len(code)) /\ BranchesOk(code, ctrl, cur.off)
  BY Zenon DEF Types, CurType, LowTypes, BranchInv
<1>t. code' \in Seq(KnownOp) /\ ctrl' \in Seq(Label)
  BY Zenon DEF Types, LowTypes
<1> DEFINE k == Len(ctrl)
           n == Len(code) + Len(cs)
           off == cur.off
<1>2. /\ Len(code) \in Nat /\ Len(cs) \in Nat /\ n \in Nat /\ Len(code) <= n /\ k \in Nat \ {0}
      /\ off \in Nat /\ off <= Len(code)
  BY <1>1
<1>3. Len(code') = n /\ \A p \in 1 .. Len(code) : code'[p] = code[p]
  BY Zenon, <1>1, AppendTypes
<1>4. Len(ctrl') = k + 1 /\ ctrl'[k + 1] = l /\ \A j \in 1 .. k : ctrl'[j] = ctrl[j]
  BY <1>1
<1>5. LabelsOk(ctrl', off, n)
  <2>1. LabelsOk(ctrl, off, n)
    BY Zenon, <1>1, <1>2, LabelsGrow
  <2>2. LabelOk(l, k + 1, off, n)
    BY <1>2 DEF LabelOk
  <2>3. ASSUME NEW j \in 1 .. k + 1 PROVE LabelOk(ctrl'[j], j, off, n)
    <3>1. CASE j = k + 1
      BY Zenon, <1>4, <2>2, <3>1
    <3>2. CASE j # k + 1
      <4>1. j \in 1 .. k
        BY <1>2, <3>2
      <4> QED
        BY Zenon, <1>4, <2>1, <4>1 DEF LabelsOk
    <3> QED
      BY Zenon, <3>1, <3>2
  <2> QED
    BY Zenon, <1>4, <2>3 DEF LabelsOk
<1>6. BranchesOk(code', ctrl', off)
  <2>1. \A p \in 1 .. Len(cs) : BranchOk(cs[p], Len(code) + p - 1, ctrl', off, n)
    <3>1. k + 1 \in 1 .. Len(ctrl')
      BY <1>2, <1>4
    <3>2. \A p \in 1 .. Len(cs) : Waits(Len(code) + p - 1, ctrl')
      BY Zenon, <1>4, <3>1 DEF Waits
    <3> QED
      BY Zenon, <3>2 DEF BranchOk
  <2>2. Len(ctrl) <= Len(ctrl') /\ \A i \in 1 .. Len(ctrl) : Joins(ctrl[i]) \subseteq Joins(ctrl'[i])
    BY <1>2, <1>4
  <2>3. BranchesOk(code \o cs, ctrl', cur.off)
    BY ONLY Zenon, <1>1, <1>t, <2>1, <2>2, ctrl # <<>>, cs \in Seq(KnownOp), BranchExtend
  <2> QED
    BY Zenon, <2>3
<1>7. \A p \in 1 .. cur.off : code'[p] = code[p]
  BY <1>2, <1>3
<1> QED
  BY Zenon, <1>t, <1>2, <1>3, <1>5, <1>6, <1>7, BranchStep

-----------------------------------------------------------------------------
\* A function more, behind the finished ones.
LEMMA FuncsAppend ==
    ASSUME NEW fs \in Seq(MetaType), NEW g \in MetaType, NEW c, NEW n \in Nat, NEW m \in Nat,
           n <= m, Apart(fs), FuncsOk(fs, c, n), FuncOk(g, c, m), HasCode(g) => n <= g.code_off
    PROVE  Apart(Append(fs, g)) /\ FuncsOk(Append(fs, g), c, m)
<1> DEFINE k == Len(fs)
           gs == Append(fs, g)
<1>1. /\ k \in Nat /\ Len(gs) = k + 1 /\ gs[k + 1] = g /\ \A i \in 1 .. k : gs[i] = fs[i]
  OBVIOUS
<1> HIDE DEF gs
<1>2. FuncsOk(fs, c, m)
  BY Zenon, FuncsAgree
<1>3. FuncsOk(gs, c, m)
  <2>1. \A i \in 1 .. k + 1 : i = k + 1 \/ i \in 1 .. k
    BY <1>1
  <2> QED
    BY Zenon, <1>1, <1>2, <2>1 DEF FuncsOk
<1>4. ASSUME NEW i \in 1 .. k + 1, NEW j \in 1 .. k + 1, i < j, HasCode(gs[i]), HasCode(gs[j])
      PROVE  EndOf(gs[i]) <= gs[j].code_off
  <2>1. i \in 1 .. k /\ gs[i] = fs[i]
    BY SMTT(30), <1>1, <1>4
  <2>2. CASE j = k + 1
    <3>1. fs[i] \in MetaType /\ FuncOk(fs[i], c, n)
      BY <2>1 DEF FuncsOk
    <3>6. fs[i].code_off \in Nat /\ fs[i].code_len \in Int
      BY Zenon, <3>1 DEF MetaType
    <3>2. EndOf(fs[i]) \in Int
      BY <3>6 DEF EndOf
    <3>4. EndOf(fs[i]) <= n
      BY Zenon, <3>1 DEF FuncOk
    <3>5. g.code_off \in Nat
      BY Zenon DEF MetaType
    <3>3. n <= g.code_off
      BY Zenon, <1>1, <1>4, <2>2
    <3> QED
      BY SMTT(30), <1>1, <2>1, <2>2, <3>2, <3>3, <3>4, <3>5
  <2>3. CASE j # k + 1
    <3>1. j \in 1 .. k /\ gs[j] = fs[j]
      BY <1>1, <2>3
    <3> QED
      BY Zenon, <1>4, <2>1, <3>1 DEF Apart
  <2> QED
    BY Zenon, <2>2, <2>3
<1>5. Apart(gs)
  BY Zenon, <1>1, <1>4 DEF Apart
<1> QED
  BY Zenon, <1>3, <1>5 DEF gs

\* Ending a body turns the invariant of the body into that of its function.
LEMMA BranchFuncs ==
    ASSUME Types, BranchInv, FuncDone \/ FuncStub
    PROVE  BranchInv'
<1>1. /\ funcs \in Seq(MetaType) /\ code \in Seq(KnownOp) /\ Len(code) \in Nat /\ cur.off \in Nat
      /\ cur.np \in Nat /\ cur.nr \in Nat /\ cur.nl \in Nat
  BY DEF Types, ModTypes, LowTypes, CurType
<1>2. low # "idle" /\ low' = "idle"
  BY Zenon DEF FuncDone, FuncStub
<1>3. Apart(funcs) /\ FuncsOk(funcs, code, cur.off) /\ cur.off <= Len(code)
  BY Zenon, <1>2 DEF BranchInv, Done
<1>4. CASE FuncDone
  <2> DEFINE g == Meta(cur.off, Len(code) - cur.off, cur.nl)
  <2>1. g \in MetaType /\ g.code_off = cur.off /\ EndOf(g) = Len(code) /\ g.code_len >= 0
    BY <1>1, <1>3 DEF Meta, MetaType, EndOf
  <2>2. funcs' = Append(funcs, g) /\ code' = code
    BY Zenon, <1>4 DEF FuncDone
  <2>3. BranchesOk(code, <<>>, cur.off)
    BY Zenon, <1>4 DEF FuncDone, BranchInv
  <2> HIDE DEF g
  <2>4. FuncOk(g, code, Len(code))
    <3>1. ASSUME NEW p \in cur.off .. Len(code) - 1, Branchy(code[p + 1])
          PROVE  code[p + 1].b \in cur.off .. Len(code) - 1
      <4>1. BranchOk(code[p + 1], p, <<>>, cur.off, Len(code) - 1)
        BY ONLY Zenon, <2>3, p \in cur.off .. Len(code) - 1 DEF BranchesOk
      <4>2. ~ Waits(p, <<>>)
        BY DEF Waits
      <4> QED
        BY Zenon, <3>1, <4>1, <4>2 DEF BranchOk
    <3> QED
      BY <1>1, <2>1, <3>1 DEF FuncOk
  <2>5. Apart(funcs') /\ FuncsOk(funcs', code, Len(code))
    <3>1. cur.off <= g.code_off
      BY SMTT(30), <1>1, <2>1
    <3> QED
      BY Zenon, <1>1, <1>3, <2>1, <2>2, <2>4, <3>1, FuncsAppend
  <2> QED
    BY Zenon, <1>2, <2>2, <2>5 DEF BranchInv, Done
<1>5. CASE FuncStub
  <2> DEFINE g == Meta(Len(code), 2, 0)
             cs == <<Cu("UNREACHABLE", 0, 0), Cu("END_FUNC", cur.nr, 0)>>
             n == Len(code)
  <2>1. g \in MetaType /\ g.code_off = n /\ EndOf(g) = n + 2 /\ g.code_len >= 0
    BY <1>1 DEF Meta, MetaType, EndOf
  <2>2. funcs' = Append(funcs, g) /\ code' = code \o cs
    BY Zenon, <1>5 DEF FuncStub
  <2>3. cs \in Seq(KnownOp) /\ Len(cs) = 2 /\ ~ Branchy(cs[1]) /\ ~ Branchy(cs[2])
    BY <1>1 DEF Cu, KnownOp, KnownOps, Control, Returns, Branchy
  <2> HIDE DEF g, cs
  <2>4. /\ Len(code') = n + 2 /\ \A p \in 1 .. n : code'[p] = code[p]
        /\ code'[n + 1] = cs[1] /\ code'[n + 2] = cs[2]
    <3>1. /\ Len(code \o cs) = n + Len(cs) /\ \A p \in 1 .. n : (code \o cs)[p] = code[p]
          /\ \A p \in 1 .. Len(cs) : (code \o cs)[n + p] = cs[p]
      BY ONLY Zenon, <1>1, <2>3, AppendTypes
    <3>2. 1 \in 1 .. Len(cs) /\ 2 \in 1 .. Len(cs)
      BY <2>3
    <3> QED
      BY Zenon, <2>2, <2>3, <3>1, <3>2
  <2>5. FuncOk(g, code', n + 2)
    <3>1. ASSUME NEW p \in n .. n + 1 PROVE ~ Branchy(code'[p + 1])
      <4>1. p + 1 = n + 1 \/ p + 1 = n + 2
        BY <1>1
      <4> QED
        BY Zenon, <2>3, <2>4, <4>1
    <3> QED
      BY <1>1, <2>1, <3>1 DEF FuncOk
  <2>6. FuncsOk(funcs, code', cur.off)
    <3>1. \A p \in 1 .. cur.off : code'[p] = code[p]
      BY <1>1, <1>3, <2>4
    <3>2. cur.off <= cur.off
      BY <1>1
    <3> QED
      BY ONLY Zenon, <1>1, <1>3, <3>1, <3>2, FuncsAgree
  <2>7. Apart(funcs') /\ FuncsOk(funcs', code', n + 2)
    <3>1. cur.off <= n + 2 /\ n + 2 \in Nat /\ cur.off <= g.code_off
      BY <1>1, <1>3, <2>1
    <3>2. Apart(Append(funcs, g)) /\ FuncsOk(Append(funcs, g), code', n + 2)
      BY ONLY Zenon, <1>1, <1>3, <2>1, <2>5, <2>6, <3>1, FuncsAppend
    <3> QED
      BY Zenon, <2>2, <3>2
  <2> QED
    BY Zenon, <1>2, <2>4, <2>7 DEF BranchInv, Done
<1> QED
  BY Zenon, <1>4, <1>5

\* A section entry emits nothing; the start of a body opens its first label.
LEMMA BranchSections ==
    ASSUME Types, BranchInv, Types', Sections
    PROVE  BranchInv'
<1>1. /\ funcs \in Seq(MetaType) /\ code \in Seq(KnownOp) /\ Len(code) \in Nat
      /\ funcs' \in Seq(MetaType)
  BY DEF Types, ModTypes, LowTypes
<1>2. low = "idle" /\ code' = code
  <2>1. Entries \/ \E has \in BOOLEAN : FuncStart(has)
    BY Zenon DEF Sections, Entries
  <2>2. ASSUME Entries PROVE low = "idle" /\ code' = code
    BY Zenon, <2>2, EntryQuiet DEF Quiet, lvars
  <2> QED
    BY Zenon, <2>1, <2>2, StartFrame
<1>3. Apart(funcs) /\ FuncsOk(funcs, code, Len(code))
  BY Zenon, <1>2 DEF BranchInv, Done
<1>4. CASE low' = "idle" /\ funcs' = funcs
  BY Zenon, <1>2, <1>3, <1>4 DEF BranchInv, Done
<1>5. CASE ImportEntry /\ funcs' # funcs
  <2> DEFINE g == [code_off |-> 0, code_len |-> 0, n_params |-> Arity(Item.t).np,
                   n_results |-> Arity(Item.t).nr, n_locals |-> 0]
  <2>1. funcs' = Append(funcs, g) /\ low' = low
    BY Zenon, <1>5 DEF ImportEntry, lvars
  <2>2. g.code_off = 0 /\ EndOf(g) = 0 /\ g.code_len = 0 /\ ~ HasCode(g)
    BY DEF EndOf, HasCode
  <2> HIDE DEF g
  <2>3. g \in MetaType
    <3>1. Len(funcs) + 1 \in 1 .. Len(funcs') /\ funcs'[Len(funcs) + 1] = g
      BY <1>1, <2>1
    <3> QED
      BY <1>1, <3>1
  <2>4. FuncOk(g, code, Len(code)) /\ Len(code) <= Len(code)
    BY <1>1, <2>2 DEF FuncOk
  <2>5. Apart(Append(funcs, g)) /\ FuncsOk(Append(funcs, g), code, Len(code))
    BY ONLY Zenon, <1>1, <1>3, <2>2, <2>3, <2>4, FuncsAppend
  <2> QED
    BY Zenon, <1>2, <2>1, <2>5 DEF BranchInv, Done
<1>6. ASSUME NEW has \in BOOLEAN, FuncStart(has) PROVE BranchInv'
  <2>0. low' = "ops" /\ funcs' = funcs /\ ctrl' = <<FirstLabel(FuncArity(Len(funcs)).nr)>>
    BY Zenon, <1>6, StartFrame
  <2>1. cur'.off = Len(code)
    BY Zenon, <1>6, StartCur
  <2>2. PICK l : ctrl' = <<l>> /\ l.kind = "func" /\ l.start = Len(code) /\ l.patches = {}
    BY <2>0 DEF FirstLabel
  <2>3. Joins(l) = {}
    BY Zenon, <2>2 DEF Joins
  <2>4. LabelsOk(ctrl', Len(code), Len(code))
    BY <1>1, <2>2, <2>3 DEF LabelsOk, LabelOk
  <2>5. BranchesOk(code', ctrl', Len(code))
    BY <1>1, <1>2 DEF BranchesOk
  <2> QED
    BY <1>1, <1>2, <1>3, <2>0, <2>1, <2>4, <2>5 DEF BranchInv, Done
<1>7. CASE TypeEntry \/ FunctionEntry
  <2>1. low' = low
    BY Zenon, <1>7, EntryQuiet DEF Entries, Quiet, lvars
  <2>2. ASSUME TypeEntry PROVE funcs' = funcs
    BY Zenon, <2>2 DEF TypeEntry
  <2>3. ASSUME FunctionEntry PROVE funcs' = funcs
    BY Zenon, <2>3 DEF FunctionEntry
  <2> QED
    BY Zenon, <1>2, <1>4, <1>7, <2>1, <2>2, <2>3
<1>8. CASE ImportEntry
  <2>1. low' = low
    BY Zenon, <1>8, EntryQuiet DEF Entries, Quiet, lvars
  <2> QED
    BY Zenon, <1>2, <1>4, <1>5, <1>8, <2>1
<1>9. CASE MemoryEntry \/ TableEntry \/ ElemEntry \/ DataEntry \/ GlobalEntry \/ ExportEntry
           \/ StartEntry \/ CodeRefused
  <2>1. low' = low
    BY Zenon, <1>9, EntryQuiet DEF Entries, Quiet, lvars
  <2>2. funcs' = funcs
    BY Zenon, <1>9, EntryFrame
  <2> QED
    BY Zenon, <1>2, <1>4, <2>1, <2>2
<1> QED
  BY Zenon, <1>6, <1>7, <1>8, <1>9 DEF Sections

\* Every step of lowering keeps BranchInv, operator by operator.
LEMMA BranchLower == Types /\ BranchInv /\ Operators /\ Types' => BranchInv'
<1> SUFFICES ASSUME Types, BranchInv, Operators, Types' PROVE BranchInv'
  BY Zenon
<1>u. UNCHANGED <<ctx, tvars>>
  BY Zenon DEF Operators
<1>t. /\ func_types \in Seq(FuncType) /\ func_typeidx \in Seq(Nat) /\ host_fn_ids \in Seq(Nat)
      /\ code \in Seq(KnownOp) /\ consts \in Seq(Word) /\ ctrl \in Seq(Label) /\ h \in Nat
      /\ dead \in BOOLEAN /\ Len(code) \in Nat /\ cur.nr \in Nat /\ cur.scratch \in Int
  BY DEF Types, ModTypes, LowTypes, DeadType, CurType
<1>f. ASSUME low = "ops", NEW cs \in Seq(KnownOp), NEW ks, Fail(cs, ks) PROVE BranchInv'
  BY Zenon, <1>u, <1>f, BranchFail
<1>0. <<>> \in Seq(KnownOp) /\ \A x \in KnownOp : <<x>> \in Seq(KnownOp)
  OBVIOUS
<1>e. ASSUME low = "ops", low' = low, ctrl # <<>>, ctrl' = ctrl,
             NEW x \in KnownOp, ~ Branchy(x), code' = code \o <<x>>
      PROVE  BranchInv'
  <2>1. <<x>> \in Seq(KnownOp) /\ \A p \in 1 .. Len(<<x>>) : ~ Branchy(<<x>>[p])
    BY <1>e
  <2> QED
    BY Zenon, <1>e, <1>u, <2>1, BranchEmit
<1>b. ASSUME NEW b \in Nat PROVE Cu("BR_IF_NOT", 0, b) \in KnownOp
  BY Zenon DEF Cu, KnownOp, KnownOps, Control
<1>1. ASSUME NEW o \in cur.ops, Plain(o) PROVE BranchInv'
  <2>1. PlainShape(o) /\ low = "ops" /\ ctrl # <<>>
    BY Zenon, <1>1, PlainType DEF Types, CurType, Plain, Read
  <2>2. o.code \in Seq(KnownOp) /\ \A p \in 1 .. Len(o.code) : ~ Branchy(o.code[p])
    <3>1. CASE o.code = <<>>
      BY <3>1
    <3>2. CASE o.code # <<>>
      <4> DEFINE x == o.code[1]
      <4>1. o.code = <<x>> /\ x \in KnownOp /\ ~ Branchy(x)
        BY Zenon, <2>1, <3>2 DEF PlainShape
      <4> HIDE DEF x
      <4>2. <<x>> \in Seq(KnownOp) /\ \A p \in 1 .. Len(<<x>>) : ~ Branchy(<<x>>[p])
        BY <4>1
      <4> QED
        BY Zenon, <4>1, <4>2
    <3> QED
      BY Zenon, <3>1, <3>2
  <2>3. CASE Short(o.pops)
    BY Zenon, <1>1, <1>f, <2>1, <2>2, <2>3 DEF Plain
  <2>4. CASE ~ Short(o.pops)
    <3>1. code' = code \o o.code /\ low' = "ops" /\ UNCHANGED ctrl
      BY Zenon, <1>1, <2>1, <2>4 DEF Plain, Emit
    <3> QED
      BY Zenon, <1>u, <2>1, <2>2, <3>1, BranchEmit
  <2> QED
    BY Zenon, <2>3, <2>4
<1>2. ASSUME NEW o \in cur.ops, LocalTee(o) PROVE BranchInv'
  <2> DEFINE x == Cu("LOCAL_SET", o.i, 0)
             y == Cu("LOCAL_GET", o.i, 0)
  <2>1. o.i \in Nat
    BY Zenon, <1>2, OperandTypes DEF LocalTee, Types, CurType
  <2>2. /\ code' = code \o <<x, y>> /\ low = "ops" /\ ctrl # <<>> /\ low' = "ops" /\ UNCHANGED ctrl
    BY Zenon, <1>2 DEF LocalTee, Emit, Read
  <2>3. x \in KnownOp /\ y \in KnownOp /\ ~ Branchy(x) /\ ~ Branchy(y)
    BY Zenon, <2>1 DEF Cu, KnownOp, KnownOps, PushOne, Branchy
  <2> HIDE DEF x, y
  <2>4. <<x, y>> \in Seq(KnownOp) /\ \A p \in 1 .. Len(<<x, y>>) : ~ Branchy(<<x, y>>[p])
    BY <2>3
  <2> QED
    BY Zenon, <1>u, <2>2, <2>4, BranchEmit
<1>3. ASSUME NEW o \in cur.ops, Const(o) PROVE BranchInv'
  <2> DEFINE x == Cu("I64_CONST", 0, InternAt(o.v))
  <2>1. o.v \in Word
    BY Zenon, <1>3, OperandTypes DEF Const, Types, CurType, Word
  <2>2. code' = code \o <<x>> /\ low = "ops" /\ ctrl # <<>> /\ low' = low /\ ctrl' = ctrl
    BY Zenon, <1>3 DEF Const, Emit, Read
  <2>3. InternAt(o.v) \in Nat
    BY Zenon, <1>t, <2>1, InternType
  <2>4. x \in KnownOp /\ ~ Branchy(x)
    BY Zenon, <2>3 DEF Cu, KnownOp, KnownOps, PushOne, Branchy
  <2> HIDE DEF x
  <2> QED
    BY Zenon, <1>e, <2>2, <2>4
<1>4. ASSUME NEW o \in cur.ops, Stop(o) PROVE BranchInv'
  <2> DEFINE x == IF o.k = "return" THEN Cu("RETURN", cur.nr, 0) ELSE Cu("UNREACHABLE", 0, 0)
  <2>1. code' = code \o <<x>> /\ low = "ops" /\ ctrl # <<>> /\ low' = low /\ ctrl' = ctrl
    BY Zenon, <1>4 DEF Stop, Emit, Read
  <2>2. x \in KnownOp /\ ~ Branchy(x)
    BY Zenon, <1>t DEF Cu, KnownOp, KnownOps, Control, Returns, Branchy
  <2> HIDE DEF x
  <2> QED
    BY Zenon, <1>e, <2>1, <2>2
<1>5. ASSUME NEW o \in cur.ops, Unsupported(o) \/ Unclosed PROVE BranchInv'
  BY Zenon, <1>5, <1>f, <1>0 DEF Unsupported, Unclosed, Read
<1>6. ASSUME NEW o \in cur.ops, Call(o) PROVE BranchInv'
  <2> DEFINE t == FuncArity(o.f)
             x == IF o.f < Len(host_fn_ids)
                  THEN Cu("CALL_HOST", t.np + 256 * t.nr, host_fn_ids[o.f + 1])
                  ELSE Cu("CALL", 0, o.f)
  <2>0. low = "ops" /\ ctrl # <<>> /\ o.f \in Word
    BY Zenon, <1>6, OperandTypes DEF Call, Read, Types, CurType, Word
  <2>1. CASE ~ HasArity(o.f)
    BY Zenon, <1>6, <1>f, <1>0, <2>0, <2>1 DEF Call
  <2>2. CASE HasArity(o.f)
    <3>1. x \in KnownOp /\ ~ Branchy(x)
      BY Zenon, <1>t, <2>0, <2>2, CallType DEF Branchy, Cu
    <3>2. CASE Short(t.np)
      <4>1. Fail(<<x>>, consts)
        BY Zenon, <1>6, <2>2, <3>2 DEF Call
      <4> HIDE DEF x
      <4> QED
        BY Zenon, <1>f, <1>0, <2>0, <3>1, <4>1
    <3>3. CASE ~ Short(t.np)
      <4>1. code' = code \o <<x>> /\ low' = low /\ ctrl' = ctrl
        BY Zenon, <1>6, <2>2, <3>3 DEF Call, Emit
      <4> HIDE DEF x
      <4> QED
        BY Zenon, <1>e, <2>0, <3>1, <4>1
    <3> QED
      BY Zenon, <3>2, <3>3
  <2> QED
    BY Zenon, <2>1, <2>2
<1>7. ASSUME NEW o \in cur.ops, ReturnCall(o) PROVE BranchInv'
  <2> DEFINE x == Cu("RETURN_CALL", 0, o.f)
  <2>0. low = "ops" /\ ctrl # <<>> /\ o.f \in Nat
    BY Zenon, <1>7, OperandTypes DEF ReturnCall, Read, Types, CurType
  <2>1. CASE o.f < Len(host_fn_ids)
    BY Zenon, <1>7, <1>f, <1>0, <2>0, <2>1 DEF ReturnCall
  <2>2. CASE ~ o.f < Len(host_fn_ids)
    <3>1. code' = code \o <<x>> /\ low' = low /\ ctrl' = ctrl
      BY Zenon, <1>7, <2>2 DEF ReturnCall, Emit
    <3>2. x \in KnownOp /\ ~ Branchy(x)
      BY Zenon, <2>0 DEF Cu, KnownOp, KnownOps, Control, Branchy
    <3> HIDE DEF x
    <3> QED
      BY Zenon, <1>e, <2>0, <3>1, <3>2
  <2> QED
    BY Zenon, <2>1, <2>2
<1>8. ASSUME NEW o \in cur.ops, CallIndirect(o) PROVE BranchInv'
  <2> DEFINE x == Cu("CALL_INDIRECT", 0, o.t)
  <2>0. low = "ops" /\ ctrl # <<>> /\ o.t \in Nat
    BY Zenon, <1>8, OperandTypes DEF CallIndirect, Read, Types, CurType
  <2>1. x \in KnownOp /\ ~ Branchy(x)
    BY Zenon, <2>0 DEF Cu, KnownOp, KnownOps, Control, Branchy
  <2>2. \/ Fail(<<>>, consts) \/ Fail(<<x>>, consts)
        \/ code' = code \o <<x>> /\ low' = low /\ ctrl' = ctrl
    BY Zenon, <1>8 DEF CallIndirect, Emit
  <2> HIDE DEF x
  <2> QED
    BY Zenon, <1>e, <1>f, <1>0, <2>0, <2>1, <2>2
<1>9. ASSUME NEW o \in cur.ops, Block(o) PROVE BranchInv'
  <2> DEFINE t == BlockArity(o.bt)
             l == NewCtrl(o.k, Len(code), -1, t.np, t.nr, h)
  <2>0. low = "ops" /\ ctrl # <<>>
    BY Zenon, <1>9 DEF Block, Read
  <2>1. \/ Fail(<<>>, consts)
        \/ ctrl' = Append(ctrl, l) /\ low' = low /\ code' = code
    BY Zenon, <1>9 DEF Block
  <2>2. l.kind # "func" /\ l.start = Len(code) /\ Joins(l) = {}
    BY Zenon, <1>9 DEF NewCtrl, Joins, Block
  <2>3. code = code \o <<>> /\ Len(<<>>) = 0 /\ Len(code) = Len(code) + 0
    BY <1>t
  <2> HIDE DEF l
  <2>4. CASE ctrl' = Append(ctrl, l) /\ low' = low /\ code' = code
    <3>1. code' = code \o <<>> /\ l.start = Len(code) + Len(<<>>) /\ low' = "ops"
      BY Zenon, <2>0, <2>2, <2>3, <2>4
    <3>2. \A p \in 1 .. Len(<<>>) : Len(code) + p - 1 \in Joins(l)
      BY <2>3
    <3> QED
      BY Zenon, <1>0, <1>u, <2>0, <2>2, <2>4, <3>1, <3>2, BranchPush
  <2> QED
    BY Zenon, <1>f, <1>0, <2>0, <2>1, <2>4
<1>10. ASSUME NEW o \in cur.ops, If(o) PROVE BranchInv'
  <2> DEFINE t == BlockArity(o.bt)
             br == Cu("BR_IF_NOT", 0, 0)
             l == NewCtrl("if", Len(code) + 1, Len(code), t.np, t.nr, Consumed(1, 0))
  <2>0. low = "ops" /\ ctrl # <<>> /\ br \in KnownOp
    BY Zenon, <1>10, <1>b DEF If, Read
  <2>1. \/ Fail(<<>>, consts) \/ Fail(<<br>>, consts)
        \/ ctrl' = Append(ctrl, l) /\ low' = low /\ code' = code \o <<br>>
    BY Zenon, <1>10 DEF If, Emit
  <2>2. l.kind # "func" /\ l.start = Len(code) + 1 /\ Joins(l) = {Len(code)}
    BY Zenon DEF NewCtrl, Joins
  <2> HIDE DEF l, br
  <2>3. <<br>> \in Seq(KnownOp) /\ Len(<<br>>) = 1
    BY <2>0
  <2>4. \A p \in 1 .. Len(<<br>>) : Len(code) + p - 1 \in Joins(l)
    BY <1>t, <2>2, <2>3
  <2>5. CASE ctrl' = Append(ctrl, l) /\ low' = low /\ code' = code \o <<br>>
    <3>1. l.start = Len(code) + Len(<<br>>) /\ low' = "ops" /\ \A p \in Joins(l) : p = Len(code)
      BY Zenon, <2>0, <2>2, <2>3, <2>5
    <3> QED
      BY Zenon, <1>u, <2>0, <2>2, <2>3, <2>4, <2>5, <3>1, BranchPush
  <2> QED
    BY Zenon, <1>f, <1>0, <2>0, <2>1, <2>5
<1>11. ASSUME NEW o \in cur.ops, Else(o) PROVE BranchInv'
  <2>1. low = "ops"
    BY Zenon, <1>11 DEF Else, Read
  <2>2. CASE Top.kind # "if"
    BY Zenon, <1>11, <1>f, <1>0, <2>1, <2>2 DEF Else
  <2> QED
    BY Zenon, <1>11, <1>u, <2>2, BranchElse
<1>12. ASSUME NEW o \in cur.ops, End(o) PROVE BranchInv'
  BY Zenon, <1>12, <1>u, BranchEnd
<1>j. ASSUME low = "ops", low' = low, ctrl # <<>>, NEW i \in 1 .. Len(ctrl), NEW hh,
             code' = code \o JumpCode(i, hh),
             ctrl' = Pending(i, Len(code) + Len(JumpCode(i, hh)))
      PROVE  BranchInv'
  <2> DEFINE js == JumpCode(i, hh)
  <2>1. js \in Seq(KnownOp) /\ Len(js) \in 1 .. 2
    BY Zenon, JumpType
  <2>2. js = JumpCode(i, hh) /\ code' = code \o js /\ ctrl' = Pending(i, Len(code) + Len(js))
    BY Zenon, <1>j
  <2> HIDE DEF js
  <2>3. <<>> \o js = js /\ Len(<<>>) = 0 /\ Len(code) + 0 + Len(js) = Len(code) + Len(js)
    BY <1>t, <2>1
  <2>4. code' = code \o (<<>> \o js) /\ ctrl' = Pending(i, Len(code) + Len(<<>>) + Len(js))
    BY Zenon, <2>2, <2>3
  <2>5. \A p \in 1 .. Len(<<>>) : Branchy(<<>>[p]) => <<>>[p].b = Len(code) + Len(<<>>) + Len(js)
    BY <2>3
  <2>6. low' = "ops"
    BY Zenon, <1>j
  <2> QED
    BY ONLY Zenon, Types, BranchInv, <1>j, <1>0, <1>u, <2>1, <2>2, <2>4, <2>5, <2>6, BranchJump
<1>k. ASSUME low = "ops", low' = low, ctrl # <<>>, NEW cs \in Seq(KnownOp), NEW hs,
             \A p \in 1 .. Len(cs) : ~ Branchy(cs[p]),
             NEW i \in 1 .. Len(ctrl), NEW hh, JumpUnless(cs, hs, i, hh)
      PROVE  BranchInv'
  <2> DEFINE js == JumpCode(i, hh)
             past == Len(code) + Len(cs) + 1 + Len(js)
             br == Cu("BR_IF_NOT", 0, past)
             all == cs \o <<br>>
  <2>1. js \in Seq(KnownOp) /\ Len(js) \in 1 .. 2
    BY Zenon, JumpType
  <2>2. js = JumpCode(i, hh) /\ code' = code \o (all \o js) /\ ctrl' = Pending(i, past)
    BY Zenon, <1>k DEF JumpUnless, Emit
  <2> HIDE DEF js
  <2>3. past \in Nat
    BY <1>t, <2>1
  <2>4. br \in KnownOp /\ br.b = past
    BY Zenon, <1>b, <2>3 DEF Cu
  <2> HIDE DEF br
  <2>5. <<br>> \in Seq(KnownOp) /\ Len(<<br>>) = 1 /\ <<br>>[1] = br
    BY <2>4
  <2>6. /\ all \in Seq(KnownOp) /\ Len(all) = Len(cs) + 1
        /\ all[Len(cs) + 1] = br /\ \A p \in 1 .. Len(cs) : all[p] = cs[p]
    BY <2>4
  <2> HIDE DEF all
  <2>7. past = Len(code) + Len(all) + Len(js)
    BY <1>t, <2>1, <2>6
  <2>8. ASSUME NEW p \in 1 .. Len(all), Branchy(all[p])
        PROVE  all[p].b = Len(code) + Len(all) + Len(js)
    <3>1. p = Len(cs) + 1
      BY <1>k, <2>6, <2>8
    <3> QED
      BY Zenon, <2>4, <2>6, <2>7, <3>1
  <2>9. low' = "ops" /\ ctrl' = Pending(i, Len(code) + Len(all) + Len(js))
    BY Zenon, <1>k, <2>2, <2>7
  <2> QED
    BY ONLY Zenon, Types, BranchInv, <1>k, <1>u, <2>1, <2>2, <2>6, <2>8, <2>9, BranchJump
<1>13. ASSUME NEW o \in cur.ops, Br(o) PROVE BranchInv'
  <2>0. low = "ops" /\ ctrl # <<>> /\ o.d \in Word
    BY Zenon, <1>13, OperandTypes DEF Br, Read, Types, CurType, Word
  <2>1. CASE ResolveBr(o.d) = 0 \/ Underflows(ResolveBr(o.d), h)
    BY Zenon, <1>13, <1>f, <1>0, <2>0, <2>1 DEF Br
  <2>2. CASE ~ (ResolveBr(o.d) = 0 \/ Underflows(ResolveBr(o.d), h))
    <3>i. PICK i \in 1 .. Len(ctrl) : i = ResolveBr(o.d)
      BY Zenon, <1>t, <2>0, <2>2, ResolveType
    <3>1. /\ code' = code \o JumpCode(i, h) /\ ctrl' = Pending(i, Len(code) + Len(JumpCode(i, h)))
          /\ low' = low
      BY Zenon, <1>13, <2>2, <3>i DEF Br, Emit
    <3> QED
      BY Zenon, <1>j, <2>0, <3>1
  <2> QED
    BY Zenon, <2>1, <2>2
<1>14. ASSUME NEW o \in cur.ops, BrIf(o) PROVE BranchInv'
  <2> DEFINE hh == Consumed(1, 0)
             br == Cu("BR_IF_NOT", 0, 0)
  <2>0. low = "ops" /\ ctrl # <<>> /\ o.d \in Word /\ <<br>> \in Seq(KnownOp)
    BY Zenon, <1>14, <1>b, <1>0, OperandTypes DEF BrIf, Read, Types, CurType, Word
  <2>1. \/ Fail(<<>>, consts) \/ Fail(<<br>>, consts)
        \/ ResolveBr(o.d) # 0 /\ JumpUnless(<<>>, <<>>, ResolveBr(o.d), hh) /\ low' = low
    BY Zenon, <1>14 DEF BrIf
  <2>2. CASE ResolveBr(o.d) # 0 /\ JumpUnless(<<>>, <<>>, ResolveBr(o.d), hh) /\ low' = low
    <3>i. PICK i \in 1 .. Len(ctrl) : i = ResolveBr(o.d)
      BY Zenon, <1>t, <2>0, <2>2, ResolveType
    <3>1. JumpUnless(<<>>, <<>>, i, hh)
      BY Zenon, <2>2, <3>i
    <3>2. \A p \in 1 .. Len(<<>>) : ~ Branchy(<<>>[p])
      OBVIOUS
    <3> QED
      BY Zenon, <1>k, <1>0, <2>0, <2>2, <3>1, <3>2
  <2> QED
    BY Zenon, <1>f, <1>0, <2>0, <2>1, <2>2
<1>15. ASSUME NEW o \in cur.ops, BrTable(o) PROVE BranchInv'
  <2> DEFINE x == Cu("LOCAL_SET", cur.scratch, 0)
  <2>0. low = "ops" /\ ctrl # <<>> /\ cur.scratch >= 0
    BY Zenon, <1>15 DEF BrTable, Read
  <2>1. x \in KnownOp /\ ~ Branchy(x)
    BY <1>t, <2>0 DEF Cu, KnownOp, KnownOps, Branchy
  <2>2. Fail(<<x>>, consts) \/ (code' = code \o <<x>> /\ low' = low /\ ctrl' = ctrl)
    BY Zenon, <1>15 DEF BrTable, Emit
  <2> HIDE DEF x
  <2> QED
    BY Zenon, <1>e, <1>f, <1>0, <2>0, <2>1, <2>2
<1>16. ASSUME BrTableTarget PROVE BranchInv'
  <2> DEFINE x == Cu("LOCAL_GET", cur.scratch, 0)
             y == Cu("I64_CONST", 0, InternAt(brt.i))
             z == Cu("BINOP", 0, 0)
             br == Cu("BR_IF_NOT", 0, 0)
             cs == <<x, y, z>>
  <2>0. low = "ops" /\ brt.ds \in Seq(Nat) /\ Len(brt.ds) > 1 /\ cur.scratch >= 0 /\ ctrl # <<>>
    BY ONLY <1>16, Types DEF BrTableTarget, Types, TableTypes
  <2>d. brt.ds[1] \in Word /\ brt.i \in Word
    BY <2>0 DEF Word, Types, TableTypes
  <2>n. InternAt(brt.i) \in Nat
    BY Zenon, <1>t, <2>d, InternType
  <2>x. x \in KnownOp /\ ~ Branchy(x)
    BY <1>t, <2>0 DEF Cu, KnownOp, KnownOps, PushOne, Branchy
  <2>y. y \in KnownOp /\ ~ Branchy(y)
    BY Zenon, <2>n DEF Cu, KnownOp, KnownOps, PushOne, Branchy
  <2>z. z \in KnownOp /\ ~ Branchy(z) /\ br \in KnownOp
    BY Zenon, <1>b DEF Cu, KnownOp, KnownOps, Alu, Branchy
  <2>2. \/ Fail(Append(cs, br), Intern(brt.i))
        \/ /\ ResolveBr(brt.ds[1]) # 0 /\ low' = low
           /\ JumpUnless(cs, <<h, h + 1, h + 2>>, ResolveBr(brt.ds[1]), h)
    BY Zenon, <1>16 DEF BrTableTarget
  <2> HIDE DEF x, y, z, br
  <2>3. /\ cs \in Seq(KnownOp) /\ Append(cs, br) \in Seq(KnownOp)
        /\ \A p \in 1 .. Len(cs) : ~ Branchy(cs[p])
    BY <2>x, <2>y, <2>z
  <2> HIDE DEF cs
  <2>4. CASE Fail(Append(cs, br), Intern(brt.i))
    BY Zenon, <1>f, <2>0, <2>3, <2>4
  <2>5. CASE /\ ResolveBr(brt.ds[1]) # 0 /\ low' = low
             /\ JumpUnless(cs, <<h, h + 1, h + 2>>, ResolveBr(brt.ds[1]), h)
    <3>i. PICK i \in 1 .. Len(ctrl) : i = ResolveBr(brt.ds[1])
      BY Zenon, <1>t, <2>d, <2>5, ResolveType
    <3>1. JumpUnless(cs, <<h, h + 1, h + 2>>, i, h)
      BY Zenon, <2>5, <3>i
    <3> QED
      BY Zenon, <1>k, <2>0, <2>3, <2>5, <3>1
  <2> QED
    BY Zenon, <2>2, <2>4, <2>5
<1>17. ASSUME BrTableDefault PROVE BranchInv'
  <2>0. low = "ops" /\ brt.ds \in Seq(Nat) /\ Len(brt.ds) = 1 /\ ctrl # <<>>
    BY <1>17 DEF BrTableDefault, Types, TableTypes
  <2>d. brt.ds[1] \in Word
    BY <2>0 DEF Word
  <2>1. CASE ResolveBr(brt.ds[1]) = 0 \/ Underflows(ResolveBr(brt.ds[1]), h)
    BY Zenon, <1>17, <1>f, <1>0, <2>0, <2>1 DEF BrTableDefault
  <2>2. CASE ~ (ResolveBr(brt.ds[1]) = 0 \/ Underflows(ResolveBr(brt.ds[1]), h))
    <3>i. PICK i \in 1 .. Len(ctrl) : i = ResolveBr(brt.ds[1])
      BY Zenon, <1>t, <2>d, <2>2, ResolveType
    <3>1. /\ code' = code \o JumpCode(i, h) /\ ctrl' = Pending(i, Len(code) + Len(JumpCode(i, h)))
          /\ low' = low
      BY Zenon, <1>17, <2>2, <3>i DEF BrTableDefault, Emit
    <3> QED
      BY Zenon, <1>j, <2>0, <3>1
  <2> QED
    BY Zenon, <2>1, <2>2
<1>18. ASSUME Unclosed PROVE BranchInv'
  BY ZenonT(60), <1>18, <1>f, <1>0 DEF Unclosed
<1> QED
  BY Zenon, <1>1, <1>2, <1>3, <1>4, <1>5, <1>6, <1>7, <1>8, <1>9, <1>10, <1>11, <1>12, <1>13, <1>14, <1>15,
     <1>16, <1>17, <1>18
  DEF Operators, Lower, ReadOperator

-----------------------------------------------------------------------------

\* The strengthening for BranchesInside: while a function is in work, its branches are
\* patched or wait in a label of lower_operators.
THEOREM BranchInvariant == Spec => []BranchInv
<1>1. Init => BranchInv
  <2> SUFFICES ASSUME Init PROVE BranchInv
    BY Zenon
  <2>1. funcs = <<>> /\ low = "idle"
    BY Zenon DEF Init
  <2> QED
    BY <2>1 DEF BranchInv, Apart, FuncsOk
<1>2. Types /\ Types' /\ BranchInv /\ [Next]_vars => BranchInv'
  <2> SUFFICES ASSUME Types, Types', BranchInv, [Next]_vars PROVE BranchInv'
    BY Zenon
  <2>1. CASE Finish \/ HandOver \/ Free \/ UNCHANGED vars
    <3>1. UNCHANGED <<funcs, code, low, cur, ctrl>>
      BY Zenon, <2>1 DEF Finish, HandOver, Free, vars, tvars, ctx, lvars
    <3> QED
      BY Zenon, <3>1 DEF BranchInv, Done
  <2> QED
    BY Zenon, <2>1, BranchSections, BranchLower, BranchFuncs DEF Next
<1> QED
  BY <1>1, <1>2, TypesInvariant, PTL DEF Spec

(***************************************************************************)
(* Branches stay inside the function that holds them and functions do not  *)
(* overlap (lower_operators' patching, the trap translate_wasm puts in the *)
(* place of a body it cannot lower), for every module, valid or not.       *)
(***************************************************************************)
THEOREM BranchesInsideAlways == Spec => []BranchesInside
<1>1. Types /\ BranchInv => BranchesInside
  <2> SUFFICES ASSUME Types, BranchInv PROVE BranchesInside
    BY Zenon
  <2>1. /\ funcs \in Seq(MetaType) /\ Len(code) \in Nat /\ cur.off \in Nat
    BY DEF Types, ModTypes, LowTypes, CurType
  <2>2. Apart(funcs) /\ FuncsOk(funcs, code, Done) /\ Done \in Nat /\ Done <= Len(code)
    BY <2>1 DEF BranchInv, Done
  <2>3. ASSUME NEW i \in 1 .. Len(funcs), NEW p \in funcs[i].code_off .. EndOf(funcs[i]) - 1
        PROVE  /\ EndOf(funcs[i]) <= Len(code)
               /\ code[p + 1].op \in {"BR", "BR_IF_NOT"} =>
                     code[p + 1].b \in funcs[i].code_off .. EndOf(funcs[i]) - 1
    <3>1. FuncOk(funcs[i], code, Done)
      BY Zenon, <2>2 DEF FuncsOk
    <3>2. funcs[i] \in MetaType
      BY <2>1
    <3>3. EndOf(funcs[i]) \in Int
      BY <3>2 DEF MetaType, EndOf
    <3> QED
      BY <2>1, <2>2, <3>1, <3>3 DEF FuncOk, Branchy
  <2> QED
    BY Zenon, <2>2, <2>3 DEF BranchesInside, Functions, Apart
<1> QED
  BY <1>1, TypesInvariant, BranchInvariant, PTL

\* Every vector handed out is given back if the functions are as many as their types.
LEMMA HandedBack ==
    ASSUME Len(funcs) = Len(func_typeidx)
    PROVE  Handed \subseteq GivenBack
BY Zenon DEF Handed, GivenBack

\* A step before the end of the parse keeps the heap empty.
LEMMA HeapParsing ==
    ASSUME HeapInv, res = "parse", res' \in {"parse", "err"}, low' = "idle" \/ res' = "parse",
           heap' = heap
    PROVE  HeapInv'
BY Zenon DEF HeapInv

\* Section entries and starts of bodies are steps before the end of the parse.
LEMMA HeapSections ==
    ASSUME HeapInv, Sections
    PROVE  HeapInv'
<1>1. Entries \/ \E has \in BOOLEAN : FuncStart(has)
  BY Zenon DEF Sections, Entries
<1>2. CASE Entries
  BY Zenon, <1>2, EntryQuiet, HeapParsing DEF Quiet, lvars
<1>3. CASE \E has \in BOOLEAN : FuncStart(has)
  BY ZenonT(60), <1>3, StartFrame, HeapParsing
<1> QED
  BY Zenon, <1>1, <1>2, <1>3

\* HeapInv is inductive: only the C API calls at the end touch the heap.
LEMMA HeapStep ==
    ASSUME HeapInv, [Next]_vars
    PROVE  HeapInv'
<1>1. CASE Sections
  BY Zenon, <1>1, HeapSections
<1>2. CASE Operators
  <2>1. res' = res /\ heap' = heap
    BY Zenon, <1>2 DEF Operators, tvars
  <2>2. low = "ops"
    <3> USE DEF Read
    <3>1. ASSUME NEW o, Plain(o) \/ LocalTee(o) \/ Const(o) \/ Stop(o) \/ Unsupported(o)
          PROVE  low = "ops"
      BY ZenonT(60), <3>1 DEF Plain, LocalTee, Const, Stop, Unsupported
    <3>2. ASSUME NEW o, Block(o) \/ If(o) \/ Else(o) \/ End(o) PROVE low = "ops"
      BY ZenonT(60), <3>2 DEF Block, If, Else, End
    <3>3. ASSUME NEW o, Br(o) \/ BrIf(o) \/ BrTable(o) PROVE low = "ops"
      BY Zenon, <3>3 DEF Br, BrIf, BrTable
    <3>4. ASSUME NEW o, Call(o) \/ ReturnCall(o) \/ CallIndirect(o) PROVE low = "ops"
      BY ZenonT(60), <3>4 DEF Call, ReturnCall, CallIndirect
    <3>5. ASSUME BrTableTarget \/ BrTableDefault \/ Unclosed PROVE low = "ops"
      BY Zenon, <3>5 DEF BrTableTarget, BrTableDefault, Unclosed
    <3> QED
      BY Zenon, <1>2, <3>1, <3>2, <3>3, <3>4, <3>5 DEF Operators, Lower, ReadOperator
  <2> QED
    BY Zenon, <2>1, <2>2, HeapParsing DEF HeapInv
<1>3. CASE FuncDone \/ FuncStub
  BY Zenon, <1>3, HeapParsing DEF FuncDone, FuncStub, HeapInv
<1>4. CASE Finish
  <2>1. /\ res = "parse" /\ low = "idle" /\ low' = low /\ heap' = heap
        /\ inp' = inp /\ funcs' = funcs /\ func_typeidx' = func_typeidx
        /\ inp.valid => Len(funcs) = Len(func_typeidx)
        /\ res' \in {"ok", "err"}
    BY Zenon, <1>4 DEF Finish, lvars, ctx
  <2> QED
    BY Zenon, <2>1 DEF HeapInv
<1>5. CASE HandOver
  <2>1. Handed' = Handed
    BY ONLY <1>5 DEF HandOver, Handed, MemMax, CapPages, BlobLen, ctx, lvars
  <2>2. /\ res' = res /\ low' = low /\ inp' = inp /\ funcs' = funcs /\ func_typeidx' = func_typeidx
        /\ res \in {"ok", "err"}
        /\ heap' = IF res = "ok" THEN Handed ELSE {<<"err", 1>>}
    BY Zenon, <1>5 DEF HandOver, ctx, lvars
  <2> QED
    BY Zenon, <2>1, <2>2 DEF HeapInv
<1>6. CASE Free
  <2>1. /\ res' = "freed" /\ low' = low /\ inp' = inp /\ res \in {"ok", "err"}
        /\ heap' = heap \ GivenBack
    BY Zenon, <1>6 DEF Free, ctx, lvars
  <2>2. <<"err", 1>> \in GivenBack
    BY Zenon DEF GivenBack
  <2>3. CASE res = "ok"
    BY Zenon, <2>1, <2>3, HandedBack DEF HeapInv
  <2>4. CASE res = "err"
    BY Zenon, <2>1, <2>2, <2>4 DEF HeapInv
  <2> QED
    BY Zenon, <2>1, <2>3, <2>4
<1>7. CASE UNCHANGED vars
  <2>1. Handed' = Handed
    BY ONLY <1>7 DEF vars, tvars, Handed, MemMax, CapPages, BlobLen, ctx, lvars
  <2> QED
    BY Zenon, <1>7, <2>1 DEF vars, tvars, ctx, lvars, HeapInv
<1> QED
  BY Zenon, <1>1, <1>2, <1>3, <1>4, <1>5, <1>6, <1>7 DEF Next

\* The strengthening for NothingLeaks: what is handed out, by the result.
THEOREM HeapInvariant == Spec => []HeapInv
<1>1. Init => HeapInv
  BY Zenon DEF Init, HeapInv
<1> QED
  BY <1>1, HeapStep, PTL DEF Spec

\* cuwasm_translate_free gives back what cuwasm_translate_wasm handed out, each vector
\* by its length, for every valid module: every function has a body then.
THEOREM NothingLeaksAlways == Spec => []NothingLeaks
<1>1. HeapInv => NothingLeaks
  BY Zenon DEF HeapInv, NothingLeaks
<1> QED
  BY <1>1, HeapInvariant, PTL

-----------------------------------------------------------------------------
\* The labels differ at most in what waits in them.
SameLabels(ct, ct2) ==
    /\ Len(ct2) = Len(ct)
    /\ \A i \in 1 .. Len(ct) :
          /\ ct2[i].kind = ct[i].kind /\ ct2[i].start = ct[i].start /\ ct2[i].base = ct[i].base
          /\ ct2[i].np = ct[i].np /\ ct2[i].nr = ct[i].nr
          /\ ct2[i].br_if_not = ct[i].br_if_not
          /\ ct2[i].has_else = ct[i].has_else /\ ct2[i].dead_on_entry = ct[i].dead_on_entry

-----------------------------------------------------------------------------
\* What waits in labels does not matter for what they doom.
LEMMA SameDoomed ==
    ASSUME NEW ct \in Seq(Label), NEW ct2 \in Seq(Label), SameLabels(ct, ct2)
    PROVE  \A n \in 0 .. Len(ct) : Doomed(ct2, n) <=> Doomed(ct, n)
<1> TAKE n \in 0 .. Len(ct)
<1>1. \A j \in 1 .. n : j \in 1 .. Len(ct)
  OBVIOUS
<1>2. \A j \in 1 .. n : ct2[j].has_else = ct[j].has_else /\ ct2[j].dead_on_entry = ct[j].dead_on_entry
  BY Zenon, <1>1 DEF SameLabels
<1> QED
  BY Zenon, <1>2 DEF Doomed

\* An operator that pops and pushes.
LEMMA AgreeStep ==
    ASSUME NEW ct \in Seq(Label), NEW ct2 \in Seq(Label), SameLabels(ct, ct2),
           NEW fr \in Seq(Frame), NEW hh, NEW hh2, NEW d, NEW vh, NEW vh2, NEW nr,
           Agree(ct, fr, hh, d, vh, nr), ct # <<>> /\ LiveIn(fr[Len(ct)]) => hh2 = vh2
    PROVE  Agree(ct2, fr, hh2, d, vh2, nr)
<1>1. Len(ct) \in Nat /\ Len(ct2) = Len(ct) /\ (ct2 # <<>> <=> ct # <<>>)
  BY DEF SameLabels
<1>2. \A n \in 0 .. Len(ct) : Doomed(ct2, n) <=> Doomed(ct, n)
  BY Zenon, SameDoomed
<1>3. ASSUME NEW i \in 1 .. Len(ct)
      PROVE  /\ fr[i].reach => ~ ct2[i].dead_on_entry /\ ct2[i].base = fr[i].base
             /\ ~ fr[i].reach => ct2[i].dead_on_entry \/ Doomed(ct2, i - 1)
  <2>1. ct2[i].dead_on_entry = ct[i].dead_on_entry /\ ct2[i].base = ct[i].base
    BY Zenon DEF SameLabels
  <2>2. i - 1 \in 0 .. Len(ct)
    BY <1>1
  <2> QED
    BY Zenon, <1>2, <2>1, <2>2 DEF Agree
<1>4. ASSUME ct # <<>>
      PROVE  /\ LiveIn(fr[Len(ct)]) => ~ d /\ hh2 = vh2
             /\ ~ LiveIn(fr[Len(ct)]) => d \/ Doomed(ct2, Len(ct))
             /\ ct2[1].base = 0 /\ ct2[1].nr = nr
  <2>1. 1 \in 1 .. Len(ct) /\ Len(ct) \in 0 .. Len(ct)
    BY <1>1, <1>4
  <2>2. ct2[1].base = ct[1].base /\ ct2[1].nr = ct[1].nr
    BY Zenon, <2>1 DEF SameLabels
  <2> QED
    BY Zenon, <1>2, <1>4, <2>1, <2>2 DEF Agree
<1> QED
  BY Zenon, <1>1, <1>3, <1>4 DEF Agree

\* An operator after which the rest of the block is unreachable.
LEMMA AgreeCut ==
    ASSUME NEW ct \in Seq(Label), NEW ct2 \in Seq(Label), SameLabels(ct, ct2), ct # <<>>,
           NEW fr \in Seq(Frame), NEW fr2 \in Seq(Frame), NEW hh, NEW d, NEW vh, NEW vh2, NEW nr,
           Agree(ct, fr, hh, d, vh, nr),
           Len(fr2) = Len(fr), \A i \in 1 .. Len(fr) - 1 : fr2[i] = fr[i],
           fr2[Len(fr)].base = fr[Len(fr)].base, fr2[Len(fr)].reach = fr[Len(fr)].reach,
           fr2[Len(fr)].poly
    PROVE  Agree(ct2, fr2, hh, TRUE, vh2, nr)
<1>1. Len(ct) \in Nat \ {0} /\ Len(fr) = Len(ct) /\ Len(ct2) = Len(ct) /\ ct2 # <<>>
  BY ONLY SameLabels(ct, ct2), Agree(ct, fr, hh, d, vh, nr), ct \in Seq(Label), ct2 \in Seq(Label),
          ct # <<>> DEF SameLabels, Agree
<1>2. \A n \in 0 .. Len(ct) : Doomed(ct2, n) <=> Doomed(ct, n)
  BY Zenon, SameDoomed
<1>3. \A i \in 1 .. Len(ct) : fr2[i].base = fr[i].base /\ fr2[i].reach = fr[i].reach
  <2>1. \A i \in 1 .. Len(ct) : i = Len(fr) \/ i \in 1 .. Len(fr) - 1
    BY <1>1
  <2> QED
    BY Zenon, <2>1
<1>4. \A i \in 1 .. Len(ct) - 1 : fr2[i + 1].reach <=> LiveIn(fr2[i])
  <2> TAKE i \in 1 .. Len(ct) - 1
  <2>1. i \in 1 .. Len(fr) - 1 /\ i + 1 \in 1 .. Len(ct)
    BY ONLY <1>1
  <2>2. fr[i + 1].reach <=> LiveIn(fr[i])
    BY Zenon DEF Agree
  <2> QED
    BY Zenon, <1>3, <2>1, <2>2
<1>5. ASSUME NEW i \in 1 .. Len(ct)
      PROVE  /\ fr2[i].reach => ~ ct2[i].dead_on_entry /\ ct2[i].base = fr2[i].base
             /\ ~ fr2[i].reach => ct2[i].dead_on_entry \/ Doomed(ct2, i - 1)
  <2>1. ct2[i].dead_on_entry = ct[i].dead_on_entry /\ ct2[i].base = ct[i].base
    BY Zenon DEF SameLabels
  <2>2. i - 1 \in 0 .. Len(ct)
    BY <1>1
  <2> QED
    BY Zenon, <1>2, <1>3, <2>1, <2>2 DEF Agree
<1>6. \A i, j \in 1 .. Len(ct) : i < j => (fr2[j].reach => fr2[i].reach) /\ fr2[i].base <= fr2[j].base
  BY Zenon, <1>3 DEF Agree
<1>7. ~ LiveIn(fr2[Len(ct)])
  BY Zenon, <1>1 DEF LiveIn
<1>8. ct2[1].base = 0 /\ ct2[1].nr = nr
  <2>1. 1 \in 1 .. Len(ct)
    BY <1>1
  <2>2. ct2[1].base = ct[1].base /\ ct2[1].nr = ct[1].nr
    BY Zenon, <2>1 DEF SameLabels
  <2> QED
    BY Zenon, <2>2 DEF Agree
<1> QED
  BY Zenon, <1>1, <1>4, <1>5, <1>6, <1>7, <1>8 DEF Agree

\* Entering a block, whose label is dead on entry if the code before it is.
LEMMA AgreeEnter ==
    ASSUME NEW ct \in Seq(Label), NEW l \in Label, ct # <<>>,
           NEW fr \in Seq(Frame), NEW g \in Frame,
           NEW hh, NEW hh2, NEW d \in BOOLEAN, NEW vh, NEW vh2, NEW nr,
           Agree(ct, fr, hh, d, vh, nr),
           ~ l.has_else, l.dead_on_entry = d, ~ g.poly, g.reach <=> LiveIn(fr[Len(ct)]),
           g.base >= fr[Len(ct)].base,
           LiveIn(fr[Len(ct)]) => l.base = g.base /\ hh2 = vh2
    PROVE  Agree(Append(ct, l), Append(fr, g), hh2, d, vh2, nr)
<1> DEFINE k == Len(ct)
           ct2 == Append(ct, l)
           fr2 == Append(fr, g)
<1>1. /\ k \in Nat \ {0} /\ Len(fr) = k /\ Len(ct2) = k + 1 /\ Len(fr2) = k + 1 /\ ct2 # <<>>
      /\ ct2[k + 1] = l /\ \A i \in 1 .. k : ct2[i] = ct[i]
      /\ fr2[k + 1] = g /\ \A i \in 1 .. k : fr2[i] = fr[i]
  BY ONLY Agree(ct, fr, hh, d, vh, nr), ct \in Seq(Label), l \in Label, ct # <<>>,
          fr \in Seq(Frame), g \in Frame DEF Agree
<1> HIDE DEF ct2, fr2
<1>2. \A n \in 0 .. k : Doomed(ct2, n) <=> Doomed(ct, n)
  <2> TAKE n \in 0 .. k
  <2>1. \A j \in 1 .. n : j \in 1 .. k
    BY <1>1
  <2> QED
    BY Zenon, <1>1, <2>1 DEF Doomed
<1>3. Doomed(ct, k) => Doomed(ct2, k + 1)
  <2>1. \A j \in 1 .. k : j \in 1 .. k + 1
    BY <1>1
  <2> QED
    BY Zenon, <1>1, <2>1 DEF Doomed
<1>t. \A i \in 1 .. k : fr[i].base \in Nat
  <2>1. \A i \in 1 .. k : fr[i] \in Frame
    BY <1>1
  <2> QED
    BY Zenon, <2>1 DEF Frame
<1>g. g.base \in Nat
  BY Zenon DEF Frame
<1>s. \A i \in 1 .. k + 1 : i = k + 1 \/ i \in 1 .. k
  BY ONLY <1>1
<1>4. ASSUME NEW i \in 1 .. k + 1, NEW j \in 1 .. k + 1, i < j
      PROVE  (fr2[j].reach => fr2[i].reach) /\ fr2[i].base <= fr2[j].base
  <2>1. i \in 1 .. k
    BY <1>1, <1>4
  <2>2. CASE j \in 1 .. k
    BY Zenon, <1>1, <1>4, <2>1, <2>2 DEF Agree
  <2>3. CASE j = k + 1
    <3>1. k \in 1 .. k /\ (i = k \/ i < k)
      BY <1>1, <2>1
    <3>2. (fr[k].reach => fr[i].reach) /\ fr[i].base <= fr[k].base
      BY ONLY <1>t, <2>1, <3>1, Agree(ct, fr, hh, d, vh, nr) DEF Agree
    <3>3. fr2[i].base <= fr2[j].base
      BY ONLY <1>1, <1>t, <1>g, <2>1, <2>3, <3>1, <3>2, g.base >= fr[k].base
    <3>4. fr2[j].reach => fr2[i].reach
      BY Zenon, <1>1, <2>1, <2>3, <3>2 DEF LiveIn
    <3> QED
      BY Zenon, <3>3, <3>4
  <2> QED
    BY Zenon, <1>s, <2>2, <2>3
<1>5. ASSUME NEW i \in 1 .. k PROVE fr2[i + 1].reach <=> LiveIn(fr2[i])
  <2>1. CASE i = k
    BY Zenon, <1>1, <2>1
  <2>2. CASE i # k
    <3>1. i \in 1 .. k - 1 /\ i + 1 \in 1 .. k
      BY <1>1, <2>2
    <3>2. fr[i + 1].reach <=> LiveIn(fr[i])
      BY Zenon, <3>1 DEF Agree
    <3> QED
      BY Zenon, <1>1, <3>1, <3>2
  <2> QED
    BY Zenon, <2>1, <2>2
<1>6. ASSUME NEW i \in 1 .. k + 1
      PROVE  /\ fr2[i].reach => ~ ct2[i].dead_on_entry /\ ct2[i].base = fr2[i].base
             /\ ~ fr2[i].reach => ct2[i].dead_on_entry \/ Doomed(ct2, i - 1)
  <2>0. i - 1 \in 0 .. k
    BY <1>1
  <2>1. CASE i = k + 1
    <3>1. i - 1 = k
      BY <1>1, <2>1
    <3> QED
      BY Zenon, <1>1, <1>2, <2>0, <2>1, <3>1 DEF Agree
  <2>2. CASE i \in 1 .. k
    BY Zenon, <1>1, <1>2, <2>0, <2>2 DEF Agree
  <2> QED
    BY Zenon, <1>s, <2>1, <2>2
<1>7. /\ LiveIn(fr2[k + 1]) => ~ d /\ hh2 = vh2
      /\ ~ LiveIn(fr2[k + 1]) => d \/ Doomed(ct2, k + 1)
  <2>1. LiveIn(fr2[k + 1]) <=> LiveIn(fr[k])
    BY Zenon, <1>1 DEF LiveIn
  <2> QED
    BY Zenon, <1>3, <2>1 DEF Agree
<1>8. ct2[1].base = 0 /\ ct2[1].nr = nr
  <2>1. 1 \in 1 .. k
    BY <1>1
  <2> QED
    BY Zenon, <1>1, <2>1 DEF Agree
<1>9. Agree(ct2, fr2, hh2, d, vh2, nr)
  <2>1. (k + 1) - 1 = k
    BY <1>1
  <2> QED
    BY Zenon, <1>1, <1>4, <1>5, <1>6, <1>7, <1>8, <2>1 DEF Agree
<1> QED
  BY Zenon, <1>9 DEF ct2, fr2

\* else: the heights start over, and the code counts as reachable.
LEMMA AgreeElse ==
    ASSUME NEW ct \in Seq(Label), NEW ct2 \in Seq(Label), ct # <<>>,
           NEW fr \in Seq(Frame), NEW fr2 \in Seq(Frame),
           NEW hh, NEW hh2, NEW d, NEW vh, NEW vh2, NEW nr, NEW k, k = Len(ct),
           Agree(ct, fr, hh, d, vh, nr),
           Len(ct2) = k, \A i \in 1 .. k - 1 : ct2[i] = ct[i],
           ct2[k].base = ct[k].base, ct2[k].nr = ct[k].nr, ct2[k].has_else,
           ct2[k].dead_on_entry = ct[k].dead_on_entry,
           Len(fr2) = k, \A i \in 1 .. k - 1 : fr2[i] = fr[i],
           fr2[k].base = fr[k].base, fr2[k].reach = fr[k].reach, ~ fr2[k].poly,
           fr[k].reach => hh2 = vh2
    PROVE  Agree(ct2, fr2, hh2, FALSE, vh2, nr)
<1>1. k \in Nat \ {0} /\ Len(fr) = k /\ ct2 # <<>> /\ k \in 1 .. k /\ 1 \in 1 .. k
  BY ONLY Agree(ct, fr, hh, d, vh, nr), ct \in Seq(Label), ct2 \in Seq(Label), k = Len(ct),
          Len(ct2) = k, ct # <<>> DEF Agree
<1>2. \A n \in 0 .. k - 1 : Doomed(ct2, n) <=> Doomed(ct, n)
  <2> TAKE n \in 0 .. k - 1
  <2>1. \A j \in 1 .. n : j \in 1 .. k - 1
    BY ONLY <1>1
  <2> QED
    BY Zenon, <1>1, <2>1 DEF Doomed
<1>s. \A i \in 1 .. k : i = k \/ i \in 1 .. k - 1
  BY <1>1
<1>3. \A i \in 1 .. k : fr2[i].base = fr[i].base /\ fr2[i].reach = fr[i].reach
  BY Zenon, <1>1, <1>s
<1>4. \A i \in 1 .. k - 1 : fr2[i + 1].reach <=> LiveIn(fr2[i])
  <2> TAKE i \in 1 .. k - 1
  <2>1. i + 1 \in 1 .. k
    BY <1>1
  <2>2. fr[i + 1].reach <=> LiveIn(fr[i])
    BY Zenon DEF Agree
  <2> QED
    BY Zenon, <1>3, <2>1, <2>2
<1>5. ASSUME NEW i \in 1 .. k
      PROVE  /\ fr2[i].reach => ~ ct2[i].dead_on_entry /\ ct2[i].base = fr2[i].base
             /\ ~ fr2[i].reach => ct2[i].dead_on_entry \/ Doomed(ct2, i - 1)
  <2>1. ct2[i].dead_on_entry = ct[i].dead_on_entry /\ ct2[i].base = ct[i].base
    BY Zenon, <1>s
  <2>2. i - 1 \in 0 .. k - 1
    BY <1>1
  <2> QED
    BY ONLY Zenon, <1>2, <1>3, <2>1, <2>2, Agree(ct, fr, hh, d, vh, nr), i \in 1 .. k, k = Len(ct)
       DEF Agree
<1>6. \A i, j \in 1 .. k : i < j => (fr2[j].reach => fr2[i].reach) /\ fr2[i].base <= fr2[j].base
  BY Zenon, <1>3 DEF Agree
<1>7. LiveIn(fr2[k]) => hh2 = vh2
  BY Zenon DEF LiveIn
<1>8. ~ LiveIn(fr2[k]) => Doomed(ct2, k)
  <2> SUFFICES ASSUME ~ LiveIn(fr2[k]) PROVE Doomed(ct2, k)
    BY Zenon
  <2>1. ~ fr[k].reach
    BY Zenon DEF LiveIn
  <2>2. ct[k].dead_on_entry \/ Doomed(ct, k - 1)
    BY Zenon, <1>1, <2>1 DEF Agree
  <2>3. CASE ct[k].dead_on_entry
    BY Zenon, <1>1, <2>3 DEF Doomed
  <2>4. CASE Doomed(ct, k - 1)
    <3>1. Doomed(ct2, k - 1)
      BY ONLY <1>1, <1>2, <2>4
    <3>2. \A j \in 1 .. k - 1 : j \in 1 .. k
      BY <1>1
    <3> QED
      BY Zenon, <3>1, <3>2 DEF Doomed
  <2> QED
    BY Zenon, <2>2, <2>3, <2>4
<1>9. ct2[1].base = 0 /\ ct2[1].nr = nr
  BY ONLY <1>1, <1>s, Agree(ct, fr, hh, d, vh, nr), \A i \in 1 .. k - 1 : ct2[i] = ct[i],
          ct2[k].base = ct[k].base, ct2[k].nr = ct[k].nr, k = Len(ct), ct # <<>> DEF Agree
<1> QED
  BY Zenon, <1>1, <1>4, <1>5, <1>6, <1>7, <1>8, <1>9 DEF Agree

\* end: the code after a block is reachable if the block was entered by such code.
LEMMA AgreeEnd ==
    ASSUME NEW ct \in Seq(Label), NEW ct2 \in Seq(Label), ct # <<>>,
           NEW fr \in Seq(Frame), NEW fr2 \in Seq(Frame),
           NEW hh, NEW hh2, NEW d, NEW vh, NEW vh2, NEW nr, NEW k, k = Len(ct),
           Agree(ct, fr, hh, d, vh, nr),
           Len(ct2) = k - 1, \A i \in 1 .. k - 1 : ct2[i] = ct[i],
           Len(fr2) = k - 1, \A i \in 1 .. k - 1 : fr2[i] = fr[i],
           fr[k].reach => hh2 = vh2
    PROVE  Agree(ct2, fr2, hh2, ct[k].dead_on_entry, vh2, nr)
<1>1. /\ k \in Nat \ {0} /\ Len(fr) = k /\ k \in 1 .. k
      /\ \A i \in 1 .. k - 1 : i \in 1 .. k
  BY ONLY Agree(ct, fr, hh, d, vh, nr), ct \in Seq(Label), k = Len(ct), ct # <<>> DEF Agree
<1>2. \A n \in 0 .. k - 1 : Doomed(ct2, n) <=> Doomed(ct, n)
  <2> TAKE n \in 0 .. k - 1
  <2>1. \A j \in 1 .. n : j \in 1 .. k - 1
    BY <1>1
  <2> QED
    BY Zenon, <1>1, <2>1 DEF Doomed
<1>3. \A i, j \in 1 .. k - 1 : i < j => (fr2[j].reach => fr2[i].reach) /\ fr2[i].base <= fr2[j].base
  BY Zenon, <1>1 DEF Agree
<1>4. \A i \in 1 .. (k - 1) - 1 : fr2[i + 1].reach <=> LiveIn(fr2[i])
  <2> TAKE i \in 1 .. (k - 1) - 1
  <2>1. i + 1 \in 1 .. k - 1 /\ i \in 1 .. k - 1
    BY <1>1
  <2>2. fr[i + 1].reach <=> LiveIn(fr[i])
    BY Zenon, <2>1 DEF Agree
  <2> QED
    BY Zenon, <2>1, <2>2
<1>5. ASSUME NEW i \in 1 .. k - 1
      PROVE  /\ fr2[i].reach => ~ ct2[i].dead_on_entry /\ ct2[i].base = fr2[i].base
             /\ ~ fr2[i].reach => ct2[i].dead_on_entry \/ Doomed(ct2, i - 1)
  <2>1. i - 1 \in 0 .. k - 1 /\ i \in 1 .. k
    BY <1>1
  <2> QED
    BY Zenon, <1>2, <2>1 DEF Agree
<1>6. ASSUME ct2 # <<>>
      PROVE  /\ LiveIn(fr2[k - 1]) => ~ ct[k].dead_on_entry /\ hh2 = vh2
             /\ ~ LiveIn(fr2[k - 1]) => ct[k].dead_on_entry \/ Doomed(ct2, k - 1)
             /\ ct2[1].base = 0 /\ ct2[1].nr = nr
  <2>1. k - 1 \in 1 .. k - 1 /\ 1 \in 1 .. k - 1 /\ (k - 1) + 1 = k /\ k - 1 \in 0 .. k - 1
    BY <1>1, <1>6
  <2>2. fr[k].reach <=> LiveIn(fr[k - 1])
    <3>1. fr[(k - 1) + 1].reach <=> LiveIn(fr[k - 1])
      BY Zenon, <2>1 DEF Agree
    <3> QED
      BY Zenon, <2>1, <3>1
  <2>3. fr2[k - 1] = fr[k - 1] /\ (Doomed(ct2, k - 1) <=> Doomed(ct, k - 1))
    BY Zenon, <1>2, <2>1
  <2>4. /\ fr[k].reach => ~ ct[k].dead_on_entry
        /\ ~ fr[k].reach => ct[k].dead_on_entry \/ Doomed(ct, k - 1)
    BY Zenon, <1>1 DEF Agree
  <2>5. ct2[1].base = 0 /\ ct2[1].nr = nr
    BY Zenon, <2>1 DEF Agree
  <2> QED
    BY Zenon, <2>2, <2>3, <2>4, <2>5
<1> QED
  BY Zenon, <1>1, <1>3, <1>4, <1>5, <1>6 DEF Agree

\* The labels of Pending are the same, but for what waits.
LEMMA PendingSame ==
    ASSUME ctrl \in Seq(Label), NEW i \in 1 .. Len(ctrl), NEW p \in Nat \ {0}
    PROVE  SameLabels(ctrl, Pending(i, p))
<1>1. Len(Pending(i, p)) = Len(ctrl)
  BY Zenon, PendingType
<1>2. CASE ctrl[i].kind = "loop"
  <2>1. Pending(i, p) = ctrl
    BY Zenon, <1>2 DEF Pending
  <2> QED
    BY Zenon, <2>1 DEF SameLabels
<1>3. CASE ctrl[i].kind # "loop"
  <2>1. \A j \in 1 .. Len(ctrl) : j # i => Pending(i, p)[j] = ctrl[j]
    BY Zenon, <1>3 DEF Pending
  <2>2. /\ Pending(i, p)[i].kind = ctrl[i].kind /\ Pending(i, p)[i].start = ctrl[i].start
        /\ Pending(i, p)[i].base = ctrl[i].base /\ Pending(i, p)[i].np = ctrl[i].np
        /\ Pending(i, p)[i].nr = ctrl[i].nr /\ Pending(i, p)[i].br_if_not = ctrl[i].br_if_not
        /\ Pending(i, p)[i].has_else = ctrl[i].has_else
        /\ Pending(i, p)[i].dead_on_entry = ctrl[i].dead_on_entry
    BY ZenonT(60), <1>3 DEF Pending
  <2> QED
    BY Zenon, <1>1, <2>1, <2>2 DEF SameLabels
<1> QED
  BY Zenon, <1>2, <1>3

\* An operator that goes on: it pops and pushes what the validator does.
LEMMA StepTyped ==
    ASSUME Types, Types', Agreed, ctrl # <<>>, SameLabels(ctrl, ctrl'), cur' = cur, dead' = dead,
           \A j \in 1 .. Len(brt'.ds) : CanBranch(brt.ds[j], 0)', NEW pops \in Nat, NEW pushes \in Nat, CanPop(pops),
           ~ dead => h' = (h - pops) + pushes, val' = Typed(pops, pushes)
    PROVE  Agreed'
<1>1. ctrl \in Seq(Label) /\ ctrl' \in Seq(Label) /\ h \in Nat
  BY Zenon DEF Types, LowTypes
<1>2. /\ val.h \in Nat /\ val.frames \in Seq(Frame)
      /\ Agree(ctrl, val.frames, h, dead, val.h, cur.nr)
  BY Zenon DEF Agreed
<1>3. val'.frames = val.frames /\ val'.h = Popped(pops) + pushes
  BY Zenon DEF Typed
<1>4. Popped(pops) \in Nat
  BY Zenon, PopsOk
<1>5. val'.h \in Nat
  BY <1>3, <1>4
<1>6. ASSUME LiveIn(val.frames[Len(ctrl)]) PROVE h' = val'.h
  <2>1. ~ dead /\ h = val.h /\ Popped(pops) = val.h - pops
    BY Zenon, <1>6, PopsOk, TopFrame
  <2> QED
    BY Zenon, <1>1, <1>2, <1>3, <2>1
<1>7. Agree(ctrl', val.frames, h', dead, val'.h, cur.nr)
  BY ONLY Zenon, <1>1, <1>2, <1>6, SameLabels(ctrl, ctrl'), AgreeStep
<1>8. Agree(ctrl', val'.frames, h', dead', val'.h, cur'.nr)
  BY Zenon, <1>3, <1>7
<1>9. val'.h >= VTop'.base
  <2>1. VTop' = VTop /\ VTop.base \in Nat /\ Popped(pops) >= VTop.base
    BY ZenonT(60), <1>3, PopsOk, TopFrame DEF VTop
  <2> QED
    BY SMTT(30), <1>3, <1>4, <2>1
<1> QED
  BY Zenon, <1>2, <1>3, <1>5, <1>8, <1>9 DEF Agreed

\* An operator after which nothing is reached.
LEMMA StepCut ==
    ASSUME Types, Types', Agreed, ctrl # <<>>, SameLabels(ctrl, ctrl'), cur' = cur, h' = h,
           dead' = TRUE, brt'.ds = <<>>, val' = Cut
    PROVE  Agreed'
<1>1. ctrl \in Seq(Label) /\ ctrl' \in Seq(Label)
  BY Zenon DEF Types, LowTypes
<1>2. /\ val.h \in Nat /\ val.frames \in Seq(Frame)
      /\ Agree(ctrl, val.frames, h, dead, val.h, cur.nr)
  BY Zenon DEF Agreed
<1>3. /\ Len(val.frames) = Len(ctrl) /\ val.frames # <<>> /\ VTop = val.frames[Len(val.frames)]
      /\ VTop.base \in Nat
  BY Zenon, TopFrame DEF VTop
<1>4. /\ val'.h = VTop.base /\ val'.frames \in Seq(Frame) /\ Len(val'.frames) = Len(val.frames)
      /\ \A i \in 1 .. Len(val.frames) - 1 : val'.frames[i] = val.frames[i]
      /\ val'.frames[Len(val.frames)].base = val.frames[Len(val.frames)].base
      /\ val'.frames[Len(val.frames)].reach = val.frames[Len(val.frames)].reach
      /\ val'.frames[Len(val.frames)].poly
  BY Zenon, <1>2, <1>3, CutShape
<1>5. Agree(ctrl', val'.frames, h, TRUE, val'.h, cur.nr)
  BY ONLY Zenon, <1>1, <1>2, <1>4, SameLabels(ctrl, ctrl'), ctrl # <<>>, AgreeCut
<1>6. Agree(ctrl', val'.frames, h', dead', val'.h, cur'.nr)
  BY Zenon, <1>5
<1>7. \A j \in 1 .. Len(brt'.ds) : CanBranch(brt.ds[j], 0)'
  <2>1. Len(brt'.ds) = 0
    OBVIOUS
  <2> QED
    BY <2>1
<1>8. val'.h >= VTop'.base
  <2>1. VTop' = val'.frames[Len(val'.frames)]
    BY Zenon DEF VTop
  <2>2. VTop'.base = VTop.base
    BY Zenon, <1>3, <1>4, <2>1
  <2> QED
    BY <1>3, <1>4, <2>2
<1> QED
  BY ZenonT(60), <1>3, <1>4, <1>6, <1>7, <1>8 DEF Agreed

\* Entering a block of np parameters, after pops operands.
LEMMA StepEnter ==
    ASSUME Types, Types', Agreed, ctrl # <<>>, cur' = cur, dead' = dead, brt'.ds = <<>>,
           NEW pops \in Nat, NEW np \in Nat, CanPop(pops + np), val' = Enter(pops, np),
           NEW l \in Label, ctrl' = Append(ctrl, l), ~ l.has_else, l.dead_on_entry = dead,
           ~ dead => h' = h - pops /\ l.base = h' - np
    PROVE  Agreed'
<1>1. ctrl \in Seq(Label) /\ h \in Nat /\ h' \in Nat /\ dead \in BOOLEAN
  BY Zenon DEF Types, LowTypes, DeadType
<1>2. /\ val.h \in Nat /\ val.frames \in Seq(Frame)
      /\ Agree(ctrl, val.frames, h, dead, val.h, cur.nr)
  BY Zenon DEF Agreed
<1> DEFINE g == [base |-> Popped(pops + np), poly |-> FALSE, reach |-> Live]
           fr == val.frames
           k == Len(ctrl)
<1>3. val'.h = Popped(pops + np) + np /\ val'.frames = Append(fr, g)
  BY Zenon DEF Enter
<1>4. /\ Popped(pops + np) \in Nat /\ Popped(pops + np) >= VTop.base
      /\ Live => ~ dead /\ h = val.h /\ Popped(pops + np) = val.h - (pops + np)
  <2> DEFINE n == pops + np
  <2>1. n \in Nat
    OBVIOUS
  <2>2. CanPop(n)
    BY Zenon
  <2> HIDE DEF n
  <2>3. /\ Popped(n) \in Nat /\ Popped(n) >= VTop.base
        /\ Live => ~ dead /\ h = val.h /\ Popped(n) = val.h - n
    BY Zenon, <2>1, <2>2, PopsOk
  <2> QED
    BY Zenon, <2>3 DEF n
<1>5. VTop = fr[k] /\ (Live <=> LiveIn(fr[k]))
  BY Zenon, TopFrame
<1>6. /\ g \in Frame /\ ~ g.poly /\ g.base = Popped(pops + np) /\ (g.reach <=> LiveIn(fr[k]))
      /\ g.base >= fr[k].base
  <2>1. Live \in BOOLEAN
    BY Zenon DEF Live
  <2>2. g.base = Popped(pops + np) /\ ~ g.poly /\ (g.reach <=> Live)
    BY Zenon, <2>1
  <2>3. g \in Frame
    BY Zenon, <1>4, <2>1 DEF Frame
  <2> QED
    BY Zenon, <1>4, <1>5, <2>2, <2>3
<1> HIDE DEF g
<1>7. ASSUME LiveIn(fr[k]) PROVE l.base = g.base /\ h' = val'.h
  <2>1. ~ dead /\ h = val.h /\ Popped(pops + np) = val.h - (pops + np)
    BY Zenon, <1>4, <1>5, <1>7
  <2>2. h' = h - pops /\ l.base = h' - np
    BY Zenon, <2>1
  <2>3. l.base = h - (pops + np)
    BY <1>1, <2>2
  <2>4. h' = (val.h - (pops + np)) + np
    BY SMTT(30), <1>1, <1>2, <2>1, <2>2
  <2> QED
    BY Zenon, <1>3, <1>6, <2>1, <2>3, <2>4
<1>8. Agree(Append(ctrl, l), Append(fr, g), h', dead, val'.h, cur.nr)
  BY ONLY Zenon, <1>1, <1>2, <1>6, <1>7, l \in Label, ctrl # <<>>, ~ l.has_else, l.dead_on_entry = dead,
          AgreeEnter
<1>9. Agree(ctrl', val'.frames, h', dead', val'.h, cur'.nr)
  BY Zenon, <1>3, <1>8
<1>10. val'.h \in Nat /\ val'.frames \in Seq(Frame)
  BY ONLY <1>2, <1>3, <1>4, <1>6
<1>11. \A j \in 1 .. Len(brt'.ds) : CanBranch(brt.ds[j], 0)'
  <2>1. Len(brt'.ds) = 0
    OBVIOUS
  <2> QED
    BY <2>1
<1>12. val'.h >= VTop'.base
  <2>1. VTop' = val'.frames[Len(val'.frames)]
    BY Zenon DEF VTop
  <2>2. VTop' = g
    BY ONLY <1>2, <1>3, <1>6, <2>1
  <2> QED
    BY <1>3, <1>4, <1>6, <2>2
<1> QED
  BY Zenon, <1>9, <1>10, <1>11, <1>12 DEF Agreed

\* else, for the if that validation has matched.
LEMMA StepElse ==
    ASSUME Types, Types', Agreed, ctrl # <<>>, cur' = cur, brt'.ds = <<>>, NEW o, Else(o),
           Top.kind = "if"
    PROVE  Agreed'
<1>1. ctrl \in Seq(Label) /\ ctrl' \in Seq(Label)
  BY Zenon DEF Types, LowTypes
<1>2. /\ val.h \in Nat /\ val.frames \in Seq(Frame)
      /\ Agree(ctrl, val.frames, h, dead, val.h, cur.nr)
  BY Zenon DEF Agreed
<1> DEFINE k == Len(ctrl)
           fr == val.frames
           nt == [kind |-> "if", start |-> Top.start, br_if_not |-> Top.br_if_not,
                  else_br |-> Len(code), patches |-> Top.patches,
                  has_else |-> TRUE, base |-> Top.base, np |-> Top.np,
                  nr |-> Top.nr, dead_on_entry |-> Top.dead_on_entry]
           g == [base |-> VTop.base, poly |-> FALSE, reach |-> VTop.reach]
<1>3. /\ ctrl' = [j \in 1 .. k |-> IF j < k THEN ctrl[j] ELSE nt]
      /\ h' = Top.base + Top.np /\ dead' = FALSE /\ val' = Swap(Top.np)
  BY ZenonT(60) DEF Else
<1>4. k \in Nat \ {0} /\ Len(fr) = k /\ VTop = fr[k] /\ VTop \in Frame /\ VTop.base \in Nat
  BY Zenon, TopFrame
<1>5. Top = ctrl[k] /\ Top.base \in Nat /\ Top.np \in Nat
  BY Zenon, <1>1, TopType DEF Top
<1>6. /\ nt.base = Top.base /\ nt.nr = Top.nr /\ nt.has_else
      /\ nt.dead_on_entry = Top.dead_on_entry
  BY Zenon
<1>7. g \in Frame /\ g.base = VTop.base /\ g.reach = VTop.reach /\ ~ g.poly
  BY ZenonT(60), <1>4 DEF Frame
<1>8. /\ val'.h = VTop.base + Top.np
      /\ val'.frames = [i \in 1 .. k |-> IF i < k THEN fr[i] ELSE g]
  BY Zenon, <1>3, <1>4 DEF Swap
<1> HIDE DEF nt, g
<1>9. Len(ctrl') = k /\ ctrl'[k] = nt /\ \A j \in 1 .. k - 1 : ctrl'[j] = ctrl[j]
  BY <1>3, <1>4
<1>10. /\ val'.frames \in Seq(Frame) /\ Len(val'.frames) = k /\ val'.frames[k] = g
       /\ \A i \in 1 .. k - 1 : val'.frames[i] = fr[i]
  <2>1. \A i \in 1 .. k : (IF i < k THEN fr[i] ELSE g) \in Frame
    BY SMTT(30), <1>2, <1>4, <1>7
  <2> QED
    BY SMTT(30), <1>4, <1>8, <2>1
<1>11. fr[k].reach => h' = val'.h
  <2>1. k \in 1 .. k
    BY SMTT(30), <1>4
  <2>2. fr[k].reach => Top.base = fr[k].base
    BY Zenon, <1>2, <1>5, <2>1 DEF Agree
  <2> QED
    BY Zenon, <1>3, <1>4, <1>8, <2>2
<1>12. /\ ctrl'[k].base = ctrl[k].base /\ ctrl'[k].nr = ctrl[k].nr /\ ctrl'[k].has_else
       /\ ctrl'[k].dead_on_entry = ctrl[k].dead_on_entry
       /\ val'.frames[k].base = fr[k].base /\ val'.frames[k].reach = fr[k].reach
       /\ ~ val'.frames[k].poly
  BY Zenon, <1>4, <1>5, <1>6, <1>7, <1>9, <1>10
<1>13. Agree(ctrl', val'.frames, h', FALSE, val'.h, cur.nr)
  BY ONLY ZenonT(60), <1>1, <1>2, <1>9, <1>10, <1>11, <1>12, ctrl # <<>>, k = Len(ctrl), AgreeElse
<1>14. Agree(ctrl', val'.frames, h', dead', val'.h, cur'.nr)
  BY Zenon, <1>3, <1>13
<1>15. val'.h \in Nat
  BY <1>4, <1>5, <1>8
<1>16. \A j \in 1 .. Len(brt'.ds) : CanBranch(brt.ds[j], 0)'
  <2>1. Len(brt'.ds) = 0
    OBVIOUS
  <2> QED
    BY <2>1
<1>17. val'.h >= VTop'.base
  <2>1. VTop' = val'.frames[Len(val'.frames)]
    BY Zenon DEF VTop
  <2>2. VTop' = g
    BY Zenon, <1>10, <2>1
  <2> QED
    BY <1>4, <1>5, <1>7, <1>8, <2>2
<1> QED
  BY Zenon, <1>10, <1>14, <1>15, <1>16, <1>17 DEF Agreed

\* end, with exactly the results of the block on the stack.
LEMMA StepEnd ==
    ASSUME Types, Types', Agreed, ctrl # <<>>, cur' = cur, brt'.ds = <<>>, NEW o, End(o)
    PROVE  Agreed'
<1>1. ctrl \in Seq(Label) /\ ctrl' \in Seq(Label)
  BY Zenon DEF Types, LowTypes
<1>2. /\ val.h \in Nat /\ val.frames \in Seq(Frame)
      /\ Agree(ctrl, val.frames, h, dead, val.h, cur.nr)
  BY Zenon DEF Agreed
<1> DEFINE k == Len(ctrl)
           fr == val.frames
<1>3. /\ ctrl' = [j \in 1 .. k - 1 |-> ctrl[j]]
      /\ h' = Top.base + Top.nr /\ dead' = Top.dead_on_entry /\ val' = Leave(Top.nr)
  BY Zenon DEF End
<1>4. k \in Nat \ {0} /\ Len(fr) = k /\ VTop = fr[k] /\ VTop \in Frame /\ VTop.base \in Nat
  BY Zenon, TopFrame
<1>5. Top = ctrl[k] /\ Top.base \in Nat /\ Top.nr \in Nat
  BY Zenon, <1>1, TopType DEF Top
<1>8. /\ val'.h = VTop.base + Top.nr
      /\ val'.frames = [i \in 1 .. k - 1 |-> fr[i]]
  BY Zenon, <1>3, <1>4 DEF Leave
<1>9. Len(ctrl') = k - 1 /\ \A j \in 1 .. k - 1 : ctrl'[j] = ctrl[j]
  BY <1>3, <1>4
<1>10. /\ val'.frames \in Seq(Frame) /\ Len(val'.frames) = k - 1
       /\ \A i \in 1 .. k - 1 : val'.frames[i] = fr[i]
  <2>1. \A i \in 1 .. k - 1 : fr[i] \in Frame
    BY <1>2, <1>4
  <2> QED
    BY <1>4, <1>8, <2>1
<1>11. fr[k].reach => h' = val'.h
  <2>1. k \in 1 .. k
    BY SMTT(30), <1>4
  <2>2. fr[k].reach => Top.base = fr[k].base
    BY Zenon, <1>2, <1>5, <2>1 DEF Agree
  <2> QED
    BY Zenon, <1>3, <1>4, <1>8, <2>2
<1>13. Agree(ctrl', val'.frames, h', ctrl[k].dead_on_entry, val'.h, cur.nr)
  BY ONLY Zenon, <1>1, <1>2, <1>9, <1>10, <1>11, ctrl # <<>>, k = Len(ctrl), AgreeEnd
<1>14. Agree(ctrl', val'.frames, h', dead', val'.h, cur'.nr)
  BY Zenon, <1>3, <1>5, <1>13
<1>15. val'.h \in Nat
  BY <1>4, <1>5, <1>8
<1>16. \A j \in 1 .. Len(brt'.ds) : CanBranch(brt.ds[j], 0)'
  <2>1. Len(brt'.ds) = 0
    OBVIOUS
  <2> QED
    BY <2>1
<1>17. ctrl' # <<>> => val'.h >= VTop'.base
  <2> SUFFICES ASSUME ctrl' # <<>> PROVE val'.h >= VTop'.base
    BY Zenon
  <2>1. k - 1 \in 1 .. k - 1 /\ k \in 1 .. k /\ k - 1 \in 1 .. k /\ k - 1 < k
    BY <1>1, <1>4, <1>9
  <2>2. VTop' = val'.frames[Len(val'.frames)]
    BY Zenon DEF VTop
  <2>3. VTop' = fr[k - 1]
    BY Zenon, <1>10, <2>1, <2>2
  <2>4. fr[k - 1].base <= fr[k].base
    BY Zenon, <1>2, <2>1 DEF Agree
  <2>5. fr[k - 1] \in Frame
    BY <1>2, <1>4, <2>1
  <2>6. fr[k - 1].base \in Nat
    BY Zenon, <2>5 DEF Frame
  <2> QED
    BY <1>4, <1>5, <1>8, <2>3, <2>4, <2>6
<1> QED
  BY Zenon, <1>10, <1>14, <1>15, <1>16, <1>17 DEF Agreed

\* The labels of a br_table exist at each of its branches, and their operands are there.
LEMMA StepTable ==
    ASSUME Types, Types', Agreed, ctrl # <<>>, ctrl' = ctrl, cur' = cur, dead' = dead,
           NEW ds \in Seq(Nat), ds # <<>>, brt'.ds = ds, \A j \in 1 .. Len(ds) : CanBranch(ds[j], 1),
           ~ dead => h' = h - 1, val' = Typed(1, 0)
    PROVE  Agreed'
<1>1. ctrl \in Seq(Label) /\ h \in Nat
  BY Zenon DEF Types, LowTypes
<1>2. /\ VTop.base \in Nat /\ val.h \in Nat /\ Len(val.frames) = Len(ctrl) /\ Len(ctrl) \in Nat
  BY Zenon, TopFrame DEF Agreed
<1>3. val'.frames = val.frames /\ val'.h = Popped(1) + 0
  BY Zenon DEF Typed
<1>4. VTop' = VTop
  BY Zenon, <1>3 DEF VTop
<1>5. ASSUME NEW j \in 1 .. Len(ds) PROVE CanPop(1) /\ CanBranch(brt.ds[j], 0)'
  <2>1. ds[j] \in Nat /\ ds[j] < Len(ctrl)
    BY <1>5 DEF CanBranch
  <2>2. PICK i \in 1 .. Len(ctrl) : i = ResolveBr(ds[j])
    BY <1>2, <2>1 DEF ResolveBr
  <2> DEFINE a == LabelArity(ctrl[i])
  <2>3. a \in Nat /\ CanPop(1 + a)
    BY Zenon, <1>1, <2>2, LabelType DEF CanBranch
  <2>4. ResolveBr(ds[j])' = i
    BY Zenon, <2>2 DEF ResolveBr
  <2> HIDE DEF a
  <2>6. CanPop(1)
    BY SMTT(30), <1>2, <2>3 DEF CanPop
  <2>7. VTop.poly \/ Popped(1) >= VTop.base + a
    <3>1. VTop.poly \/ val.h >= VTop.base + (1 + a)
      BY Zenon, <2>3 DEF CanPop
    <3>2. val.h >= VTop.base + (1 + a) => val.h >= VTop.base + 1 /\ val.h - 1 >= VTop.base + a
      BY SMTT(30), <1>2, <2>3
    <3> QED
      BY Zenon, <3>1, <3>2 DEF Popped
  <2>8. val'.h >= VTop'.base + (0 + a) \/ VTop'.poly
    <3>1. Popped(1) \in Nat
      BY Zenon, PopsOk
    <3> QED
      BY <1>2, <1>3, <1>4, <2>3, <2>7, <3>1
  <2>9. (LabelArity(ctrl[i]))' = a
    BY Zenon DEF a
  <2> QED
    BY Zenon, <2>1, <2>4, <2>6, <2>8, <2>9 DEF CanBranch, CanPop
<1>6. CanPop(1)
  <2>1. 1 \in 1 .. Len(ds)
    OBVIOUS
  <2> QED
    BY Zenon, <1>5, <2>1
<1>7. SameLabels(ctrl, ctrl')
  BY Zenon DEF SameLabels
<1>8. ~ dead => h' = (h - 1) + 0
  BY SMTT(30), <1>1
<1>9. \A j \in 1 .. Len(brt'.ds) : CanBranch(brt.ds[j], 0)'
  BY Zenon, <1>5
<1> QED
  BY Zenon, <1>6, <1>7, <1>8, <1>9, StepTyped

\* A conditional jump of a br_table.
LEMMA StepTarget ==
    ASSUME Types, Types', Agreed, ctrl # <<>>, SameLabels(ctrl, ctrl'),
           UNCHANGED <<cur, dead, h, val>>, brt.ds # <<>>, brt'.ds = Tail(brt.ds)
    PROVE  Agreed'
<1>1. ctrl \in Seq(Label) /\ ctrl' \in Seq(Label) /\ brt.ds \in Seq(Nat) /\ h \in Nat
  BY Zenon DEF Types, LowTypes, TableTypes
<1>2. /\ val.h \in Nat /\ val.frames \in Seq(Frame)
      /\ Agree(ctrl, val.frames, h, dead, val.h, cur.nr)
      /\ \A j \in 1 .. Len(brt.ds) : CanBranch(brt.ds[j], 0)
  BY Zenon DEF Agreed
<1>3. LiveIn(val.frames[Len(ctrl)]) => h = val.h
  BY Zenon, <1>2 DEF Agree
<1>4. Agree(ctrl', val.frames, h, dead, val.h, cur.nr)
  BY ONLY Zenon, <1>1, <1>2, <1>3, SameLabels(ctrl, ctrl'), AgreeStep
<1>5. ASSUME NEW j \in 1 .. Len(brt'.ds) PROVE CanBranch(brt.ds[j], 0)'
  <2>1. j + 1 \in 1 .. Len(brt.ds) /\ brt'.ds[j] = brt.ds[j + 1] /\ brt.ds[j + 1] \in Nat
    BY SMTT(30), <1>1, <1>5
  <2> DEFINE d == brt.ds[j + 1]
  <2>2. CanBranch(d, 0) /\ d \in Nat
    BY Zenon, <1>2, <2>1
  <2>3. brt'.ds[j] = d
    BY Zenon, <2>1
  <2> HIDE DEF d
  <2>4. Len(ctrl) \in Nat /\ Len(ctrl') = Len(ctrl)
    BY <1>1 DEF SameLabels
  <2>5. d < Len(ctrl)
    BY Zenon, <2>2 DEF CanBranch
  <2>6. PICK i \in 1 .. Len(ctrl) : i = ResolveBr(d)
    <3>1. d \in Nat /\ Len(ctrl) - d \in 1 .. Len(ctrl)
      BY ONLY <2>2, <2>4, <2>5
    <3> QED
      BY Zenon, <2>5, <3>1 DEF ResolveBr
  <2>7. LabelArity(ctrl'[i]) = LabelArity(ctrl[i])
    BY Zenon DEF SameLabels, LabelArity
  <2>8. ResolveBr(brt.ds[j])' = i
    BY Zenon, <2>3, <2>4, <2>6 DEF ResolveBr
  <2>9. val.h >= VTop.base + (0 + LabelArity(ctrl[i])) \/ VTop.poly
    BY Zenon, <2>2, <2>6 DEF CanBranch, CanPop
  <2>10. VTop' = VTop /\ val'.h = val.h
    BY Zenon DEF VTop
  <2> QED
    BY Zenon, <2>3, <2>4, <2>5, <2>7, <2>8, <2>9, <2>10 DEF CanBranch, CanPop
<1>6. Agree(ctrl', val'.frames, h', dead', val'.h, cur'.nr)
  BY Zenon, <1>4
<1>7. VTop' = VTop /\ val.h >= VTop.base
  BY Zenon DEF VTop, Agreed
<1> QED
  BY Zenon, <1>2, <1>5, <1>6, <1>7 DEF Agreed

-----------------------------------------------------------------------------
\* One turn of lower_operators, by the operator it reads.
LEMMA ValidLower ==
    ASSUME Types, Types', ValidInv, Operators
    PROVE  ValidInv'
<1>u. /\ UNCHANGED <<ctx, tvars>> /\ cur' = cur /\ inp' = inp /\ host_fn_ids' = host_fn_ids
  BY Zenon DEF Operators, ctx
<1>t. /\ func_types \in Seq(FuncType) /\ func_typeidx \in Seq(Nat) /\ host_fn_ids \in Seq(Nat)
      /\ code \in Seq(KnownOp) /\ ctrl \in Seq(Label) /\ ctrl' \in Seq(Label) /\ h \in Nat
      /\ dead \in BOOLEAN /\ Len(code) \in Nat /\ cur.nr \in Nat
      /\ \A o \in cur.ops : OperatorOk(o)
  BY DEF Types, ModTypes, LowTypes, DeadType, CurType
<1>a. inp.valid /\ low = "ops" => Agreed
  BY Zenon DEF ValidInv
<1>f. ASSUME NEW cs, NEW ks, Fail(cs, ks), body' \in Seq(cur.ops),
             inp.valid => NotImplemented(body'[Len(body')]) \/ InDeadElse
      PROVE  ValidInv'
  <2>1. low' = "err" /\ ctrl' = ctrl
    BY Zenon, <1>f DEF Fail
  <2>2. StubJustified'
    BY Zenon, <1>f, <1>u, <2>1 DEF StubJustified, NotImplemented, InDeadElse
  <2> QED
    BY Zenon, <1>f, <1>u, <2>1, <2>2 DEF ValidInv
<1>s. ASSUME low' = "ops", body' \in Seq(cur.ops), inp.valid => Agreed'
      PROVE  ValidInv'
  BY Zenon, <1>s, <1>u DEF ValidInv, StubJustified
<1>b. ASSUME NEW o \in cur.ops, body' = Append(body, o)
      PROVE  body' \in Seq(cur.ops) /\ body'[Len(body')] = o
  BY <1>b DEF ValidInv
<1>n. ASSUME brt'.ds = <<>> PROVE \A j \in 1 .. Len(brt'.ds) : CanBranch(brt.ds[j], 0)'
  <2>1. Len(brt'.ds) = 0
    BY <1>n
  <2> QED
    BY <2>1
<1>l. ctrl' = ctrl => SameLabels(ctrl, ctrl')
  BY Zenon DEF SameLabels
<1>0. 0 \in Nat /\ 1 \in Nat
  BY Zenon
<1>1. ASSUME NEW o \in cur.ops, Plain(o) PROVE ValidInv'
  <2>0. /\ low = "ops" /\ ctrl # <<>> /\ brt.ds = <<>> /\ body' = Append(body, o)
        /\ inp.valid => CanPop(o.pops)
    BY Zenon, <1>1 DEF Plain, Read
  <2>1. o.pops \in Nat /\ o.pushes \in Nat
    BY Zenon, <1>1, <1>t, PlainType DEF Plain, PlainShape
  <2>b. body' \in Seq(cur.ops)
    BY Zenon, <1>b, <2>0
  <2>2. CASE Short(o.pops)
    <3>1. inp.valid => InDeadElse
      BY Zenon, <1>a, <2>0, <2>1, <2>2, PopsOk
    <3> QED
      BY Zenon, <1>1, <1>f, <2>b, <2>2, <3>1 DEF Plain
  <2>3. CASE ~ Short(o.pops)
    <3>1. /\ low' = "ops" /\ ctrl' = ctrl /\ dead' = dead /\ brt' = brt
          /\ val' = Typed(o.pops, o.pushes) /\ h' = Consumed(o.pops, o.pushes)
      BY Zenon, <1>1, <2>0, <2>3 DEF Plain
    <3>2. ~ dead => h' = (h - o.pops) + o.pushes
      BY Zenon, <3>1 DEF Consumed
    <3>3. inp.valid => Agreed'
      BY Zenon, <1>a, <1>l, <1>n, <1>u, <2>0, <2>1, <3>1, <3>2, StepTyped
    <3> QED
      BY Zenon, <1>s, <2>b, <3>1, <3>3
  <2> QED
    BY Zenon, <2>2, <2>3
<1>2. ASSUME NEW o \in cur.ops, LocalTee(o) PROVE ValidInv'
  <2>0. /\ low = "ops" /\ ctrl # <<>> /\ brt.ds = <<>> /\ body' = Append(body, o)
        /\ inp.valid => CanPop(1)
        /\ low' = "ops" /\ ctrl' = ctrl /\ dead' = dead /\ brt' = brt /\ h' = h /\ val' = Typed(1, 1)
    BY Zenon, <1>2 DEF LocalTee, Read
  <2>1. body' \in Seq(cur.ops)
    BY Zenon, <1>b, <2>0
  <2>2. ~ dead => h' = (h - 1) + 1
    BY <1>t, <2>0
  <2>3. inp.valid => Agreed'
    BY Zenon, <1>a, <1>l, <1>n, <1>u, <1>0, <2>0, <2>2, StepTyped
  <2> QED
    BY Zenon, <1>s, <2>0, <2>1, <2>3
<1>3. ASSUME NEW o \in cur.ops, Const(o) PROVE ValidInv'
  <2>0. /\ low = "ops" /\ ctrl # <<>> /\ brt.ds = <<>> /\ body' = Append(body, o)
        /\ low' = "ops" /\ ctrl' = ctrl /\ dead' = dead /\ brt' = brt /\ val' = Typed(0, 1)
        /\ h' = Consumed(0, 1)
    BY Zenon, <1>3 DEF Const, Read
  <2>1. body' \in Seq(cur.ops)
    BY Zenon, <1>b, <2>0
  <2>2. ~ dead => h' = (h - 0) + 1
    BY Zenon, <2>0 DEF Consumed
  <2>3. inp.valid => Agreed'
    <3> SUFFICES ASSUME inp.valid PROVE Agreed'
      BY Zenon
    <3>1. Agreed
      BY Zenon, <1>a, <2>0
    <3>2. CanPop(0)
      BY Zenon, <1>0, <2>0, <3>1, PopsOk
    <3> QED
      BY Zenon, <1>l, <1>n, <1>0, <1>u, <2>0, <2>2, <3>1, <3>2, StepTyped
  <2> QED
    BY Zenon, <1>s, <2>0, <2>1, <2>3
<1>4. ASSUME NEW o \in cur.ops, Stop(o) PROVE ValidInv'
  <2>0. /\ low = "ops" /\ ctrl # <<>> /\ brt.ds = <<>> /\ body' = Append(body, o)
        /\ low' = "ops" /\ ctrl' = ctrl /\ dead' = TRUE /\ brt' = brt /\ val' = Cut /\ h' = h
    BY Zenon, <1>4 DEF Stop, Read
  <2>1. body' \in Seq(cur.ops)
    BY Zenon, <1>b, <2>0
  <2>2. inp.valid => Agreed'
    BY Zenon, <1>a, <1>l, <1>u, <2>0, StepCut
  <2> QED
    BY Zenon, <1>s, <2>0, <2>1, <2>2
<1>5. ASSUME NEW o \in cur.ops, Unsupported(o) PROVE ValidInv'
  <2>0. o.k = "unsupported" /\ body' = Append(body, o) /\ Fail(<<>>, consts)
    BY Zenon, <1>5 DEF Unsupported, Read
  <2>1. body' \in Seq(cur.ops) /\ NotImplemented(body'[Len(body')])
    BY Zenon, <1>b, <2>0 DEF NotImplemented
  <2> QED
    BY Zenon, <1>f, <2>0, <2>1
<1>6. ASSUME NEW o \in cur.ops, Call(o) PROVE ValidInv'
  <2> DEFINE t == FuncArity(o.f)
             x == IF o.f < Len(host_fn_ids)
                  THEN Cu("CALL_HOST", t.np + 256 * t.nr, host_fn_ids[o.f + 1])
                  ELSE Cu("CALL", 0, o.f)
  <2>0. /\ low = "ops" /\ ctrl # <<>> /\ brt.ds = <<>> /\ body' = Append(body, o)
        /\ inp.valid => HasArity(o.f) /\ CanPop(t.np)
    BY Zenon, <1>6 DEF Call, Read
  <2>b. body' \in Seq(cur.ops)
    BY Zenon, <1>b, <2>0
  <2>1. CASE ~ HasArity(o.f)
    <3>1. Fail(<<>>, consts) /\ ~ inp.valid
      BY Zenon, <1>6, <2>0, <2>1 DEF Call
    <3> QED
      BY Zenon, <1>f, <2>b, <3>1
  <2>2. CASE HasArity(o.f)
    <3>0. o.f \in Word
      BY Zenon, <1>6, <1>t, OperandTypes DEF Call, Word
    <3>1. t \in [np : Nat, nr : Nat]
      BY Zenon, <1>t, <2>2, <3>0, CallType
    <3>2. t.np \in Nat /\ t.nr \in Nat
      BY Zenon, <3>1
    <3>3. \/ Short(t.np) /\ Fail(<<x>>, consts)
          \/ /\ low' = "ops" /\ ctrl' = ctrl /\ dead' = dead /\ brt' = brt
             /\ val' = Typed(t.np, t.nr) /\ h' = Consumed(t.np, t.nr)
      BY Zenon, <1>6, <2>0, <2>2 DEF Call
    <3> HIDE DEF t, x
    <3>4. CASE Short(t.np) /\ Fail(<<x>>, consts)
      <4>1. inp.valid => InDeadElse
        BY Zenon, <1>a, <2>0, <3>2, <3>4, PopsOk
      <4> QED
        BY Zenon, <1>f, <2>b, <3>4, <4>1
    <3>5. CASE /\ low' = "ops" /\ ctrl' = ctrl /\ dead' = dead /\ brt' = brt
               /\ val' = Typed(t.np, t.nr) /\ h' = Consumed(t.np, t.nr)
      <4>1. ~ dead => h' = (h - t.np) + t.nr
        BY Zenon, <3>5 DEF Consumed
      <4>2. inp.valid => Agreed'
        BY Zenon, <1>a, <1>l, <1>n, <1>u, <2>0, <3>2, <3>5, <4>1, StepTyped
      <4> QED
        BY Zenon, <1>s, <2>b, <3>5, <4>2
    <3> QED
      BY Zenon, <3>3, <3>4, <3>5
  <2> QED
    BY Zenon, <2>1, <2>2
<1>7. ASSUME NEW o \in cur.ops, ReturnCall(o) PROVE ValidInv'
  <2>0. /\ low = "ops" /\ ctrl # <<>> /\ brt.ds = <<>> /\ body' = Append(body, o)
        /\ o.k = "return_call"
    BY Zenon, <1>7 DEF ReturnCall, Read
  <2>b. body' \in Seq(cur.ops) /\ body'[Len(body')] = o
    BY Zenon, <1>b, <2>0
  <2>1. CASE o.f < Len(host_fn_ids)
    <3>1. Fail(<<>>, consts) /\ NotImplemented(body'[Len(body')])
      BY Zenon, <1>7, <2>0, <2>b, <2>1 DEF ReturnCall, NotImplemented
    <3> QED
      BY Zenon, <1>f, <2>b, <3>1
  <2>2. CASE ~ o.f < Len(host_fn_ids)
    <3>1. /\ low' = "ops" /\ ctrl' = ctrl /\ dead' = TRUE /\ brt' = brt /\ val' = Cut /\ h' = h
      BY Zenon, <1>7, <2>0, <2>2 DEF ReturnCall
    <3>2. inp.valid => Agreed'
      BY Zenon, <1>a, <1>l, <1>u, <2>0, <3>1, StepCut
    <3> QED
      BY Zenon, <1>s, <2>b, <3>1, <3>2
  <2> QED
    BY Zenon, <2>1, <2>2
<1>8. ASSUME NEW o \in cur.ops, CallIndirect(o) PROVE ValidInv'
  <2> DEFINE t == Arity(o.t)
             x == Cu("CALL_INDIRECT", 0, o.t)
             n == 1 + t.np
  <2>0. /\ low = "ops" /\ ctrl # <<>> /\ brt.ds = <<>> /\ body' = Append(body, o)
        /\ inp.valid => o.t < Len(func_types) /\ CanPop(n)
    BY Zenon, <1>8 DEF CallIndirect, Read
  <2>b. body' \in Seq(cur.ops)
    BY Zenon, <1>b, <2>0
  <2>f. o.t \in Nat
    BY Zenon, <1>8, <1>t, OperandTypes DEF CallIndirect
  <2>1. CASE o.t >= Len(func_types)
    <3>0. ~ o.t < Len(func_types)
      <4>1. func_types \in Seq(FuncType)
        BY Zenon, <1>t
      <4> QED
        BY ONLY <2>f, <2>1, <4>1
    <3>1. Fail(<<>>, consts) /\ ~ inp.valid
      BY Zenon, <1>8, <2>0, <2>1, <3>0 DEF CallIndirect
    <3> QED
      BY Zenon, <1>f, <2>b, <3>1
  <2>2. CASE ~ o.t >= Len(func_types)
    <3>1. t \in [np : Nat, nr : Nat]
      BY <1>t, <2>f, <2>2, ArityType
    <3>2. n \in Nat /\ t.nr \in Nat
      BY SMTT(30), <3>1
    <3>3. \/ Short(n) /\ Fail(<<x>>, consts)
          \/ /\ low' = "ops" /\ ctrl' = ctrl /\ dead' = dead /\ brt' = brt
             /\ val' = Typed(n, t.nr) /\ h' = Consumed(n, t.nr)
      BY Zenon, <1>8, <2>0, <2>2 DEF CallIndirect
    <3> HIDE DEF t, x, n
    <3>4. CASE Short(n) /\ Fail(<<x>>, consts)
      <4>1. inp.valid => InDeadElse
        BY Zenon, <1>a, <2>0, <3>2, <3>4, PopsOk
      <4> QED
        BY Zenon, <1>f, <2>b, <3>4, <4>1
    <3>5. CASE /\ low' = "ops" /\ ctrl' = ctrl /\ dead' = dead /\ brt' = brt
               /\ val' = Typed(n, t.nr) /\ h' = Consumed(n, t.nr)
      <4>1. ~ dead => h' = (h - n) + t.nr
        BY Zenon, <3>5 DEF Consumed
      <4>2. inp.valid => Agreed'
        BY Zenon, <1>a, <1>l, <1>n, <1>u, <2>0, <3>2, <3>5, <4>1, StepTyped
      <4> QED
        BY Zenon, <1>s, <2>b, <3>5, <4>2
    <3> QED
      BY Zenon, <3>3, <3>4, <3>5
  <2> QED
    BY Zenon, <2>1, <2>2
<1>9. ASSUME NEW o \in cur.ops, Block(o) PROVE ValidInv'
  <2> DEFINE t == BlockArity(o.bt)
             l == NewCtrl(o.k, Len(code), -1, t.np, t.nr, h)
  <2>0. /\ low = "ops" /\ ctrl # <<>> /\ brt.ds = <<>> /\ body' = Append(body, o)
        /\ o.k \in {"block", "loop"} /\ (inp.valid => BlockTypeOk(o.bt) /\ CanPop(t.np))
    BY Zenon, <1>9 DEF Block, Read
  <2>b. body' \in Seq(cur.ops) /\ body'[Len(body')] = o
    BY Zenon, <1>b, <2>0
  <2>k. o.bt.k \in {"empty", "int", "float", "type"}
    BY Zenon, <1>t, <2>0, OperandTypes
  <2>1. CASE ~ HasBlockArity(o.bt)
    <3>1. inp.valid => NotImplemented(body'[Len(body')])
      BY Zenon, <2>0, <2>b, <2>k, <2>1 DEF HasBlockArity, BlockTypeOk, NotImplemented
    <3>2. Fail(<<>>, consts)
      BY Zenon, <1>9, <2>1 DEF Block
    <3> QED
      BY Zenon, <1>f, <2>b, <3>1, <3>2
  <2>2. CASE HasBlockArity(o.bt)
    <3>1. t \in [np : Nat, nr : Nat]
      BY Zenon, <1>t, <2>0, <2>2, BlockArityType
    <3>2. t.np \in Nat /\ t.nr \in Nat /\ t.np = 0 + t.np
      BY <3>1
    <3>3. \/ Short(t.np) /\ Fail(<<>>, consts)
          \/ /\ low' = "ops" /\ ctrl' = Append(ctrl, l) /\ dead' = dead /\ brt' = brt
             /\ val' = Enter(0, t.np) /\ h' = h
      BY Zenon, <1>9, <2>0, <2>2 DEF Block
    <3>4. CASE Short(t.np) /\ Fail(<<>>, consts)
      <4> HIDE DEF t
      <4>1. inp.valid => InDeadElse
        BY Zenon, <1>a, <2>0, <3>2, <3>4, PopsOk
      <4> QED
        BY Zenon, <1>f, <2>b, <3>4, <4>1
    <3>5. CASE /\ low' = "ops" /\ ctrl' = Append(ctrl, l) /\ dead' = dead /\ brt' = brt
               /\ val' = Enter(0, t.np) /\ h' = h
      <4>1. l \in Label
        <5> HIDE DEF l
        <5>1. Len(ctrl) + 1 \in 1 .. Len(ctrl') /\ ctrl'[Len(ctrl) + 1] = l
          BY <1>t, <3>5
        <5> QED
          BY <1>t, <5>1
      <4>2. ~ l.has_else /\ l.dead_on_entry = dead /\ (~ dead => l.base = h - t.np)
        BY Zenon DEF NewCtrl
      <4> HIDE DEF l, t
      <4>3. ~ dead => h' = h - 0 /\ l.base = h' - t.np
        BY <1>t, <3>5, <4>2
      <4>4. inp.valid => CanPop(0 + t.np)
        BY Zenon, <2>0, <3>2
      <4>5. inp.valid => Agreed'
        BY ZenonT(60), <1>a, <1>u, <1>0, <2>0, <3>2, <3>5, <4>1, <4>2, <4>3, <4>4, StepEnter
      <4> QED
        BY Zenon, <1>s, <2>b, <3>5, <4>5
    <3> QED
      BY Zenon, <3>3, <3>4, <3>5
  <2> QED
    BY Zenon, <2>1, <2>2
<1>10. ASSUME NEW o \in cur.ops, If(o) PROVE ValidInv'
  <2> DEFINE t == BlockArity(o.bt)
             h1 == Consumed(1, 0)
             br == Cu("BR_IF_NOT", 0, 0)
             l == NewCtrl("if", Len(code) + 1, Len(code), t.np, t.nr, h1)
  <2>0. /\ low = "ops" /\ ctrl # <<>> /\ brt.ds = <<>> /\ body' = Append(body, o)
        /\ o.k = "if" /\ (inp.valid => BlockTypeOk(o.bt) /\ CanPop(1 + t.np))
    BY Zenon, <1>10 DEF If, Read
  <2>b. body' \in Seq(cur.ops) /\ body'[Len(body')] = o
    BY Zenon, <1>b, <2>0
  <2>k. o.bt.k \in {"empty", "int", "float", "type"}
    BY Zenon, <1>t, <2>0, OperandTypes
  <2>1. CASE ~ HasBlockArity(o.bt)
    <3>1. inp.valid => NotImplemented(body'[Len(body')])
      BY Zenon, <2>0, <2>b, <2>k, <2>1 DEF HasBlockArity, BlockTypeOk, NotImplemented
    <3>2. Fail(<<>>, consts)
      BY Zenon, <1>10, <2>1 DEF If
    <3> QED
      BY Zenon, <1>f, <2>b, <3>1, <3>2
  <2>2. CASE HasBlockArity(o.bt)
    <3>1. t \in [np : Nat, nr : Nat]
      BY Zenon, <1>t, <2>0, <2>2, BlockArityType
    <3>2. t.np \in Nat /\ t.nr \in Nat /\ 1 + t.np \in Nat
      BY <3>1
    <3>3. ~ dead => h1 = h - 1
      BY <1>t DEF Consumed
    <3>4. \/ Short(1) /\ Fail(<<>>, consts)
          \/ ~ dead /\ h1 < t.np /\ Fail(<<br>>, consts)
          \/ /\ low' = "ops" /\ ctrl' = Append(ctrl, l) /\ dead' = dead /\ brt' = brt
             /\ val' = Enter(1, t.np) /\ h' = h1
      BY Zenon, <1>10, <2>0, <2>2 DEF If
    <3>5. CASE \/ Short(1) /\ Fail(<<>>, consts)
               \/ ~ dead /\ h1 < t.np /\ Fail(<<br>>, consts)
      <4> HIDE DEF t, br, h1
      <4>1. ~ dead /\ h < 1 + t.np
        BY SMTT(30), <1>t, <3>2, <3>3, <3>5 DEF Short
      <4>2. Short(1 + t.np)
        BY Zenon, <4>1 DEF Short
      <4>3. inp.valid => InDeadElse
        BY Zenon, <1>a, <2>0, <3>2, <4>2, PopsOk
      <4> QED
        BY Zenon, <1>f, <2>b, <3>5, <4>3
    <3>6. CASE /\ low' = "ops" /\ ctrl' = Append(ctrl, l) /\ dead' = dead /\ brt' = brt
               /\ val' = Enter(1, t.np) /\ h' = h1
      <4>1. l \in Label
        <5> HIDE DEF l
        <5>1. Len(ctrl) + 1 \in 1 .. Len(ctrl') /\ ctrl'[Len(ctrl) + 1] = l
          BY <1>t, <3>6
        <5> QED
          BY <1>t, <5>1
      <4>2. ~ l.has_else /\ l.dead_on_entry = dead /\ (~ dead => l.base = h1 - t.np)
        BY Zenon DEF NewCtrl
      <4> HIDE DEF l, t, h1
      <4>3. ~ dead => h' = h - 1 /\ l.base = h' - t.np
        BY ZenonT(60), <3>3, <3>6, <4>2
      <4>4. inp.valid => Agreed'
        BY Zenon, <1>a, <1>u, <1>0, <2>0, <3>2, <3>6, <4>1, <4>2, <4>3, StepEnter
      <4> QED
        BY Zenon, <1>s, <2>b, <3>6, <4>4
    <3> HIDE DEF l, t, br, h1
    <3> QED
      BY Zenon, <3>4, <3>5, <3>6
  <2> QED
    BY Zenon, <2>1, <2>2
<1>11. ASSUME NEW o \in cur.ops, Else(o) PROVE ValidInv'
  <2>0. /\ low = "ops" /\ ctrl # <<>> /\ brt.ds = <<>> /\ body' = Append(body, o)
        /\ inp.valid => Top.kind = "if"
    BY Zenon, <1>11 DEF Else, Read
  <2>b. body' \in Seq(cur.ops)
    BY Zenon, <1>b, <2>0
  <2>1. CASE Top.kind # "if"
    <3>1. Fail(<<>>, consts)
      BY Zenon, <1>11, <2>1 DEF Else
    <3>2. ~ inp.valid
      BY Zenon, <2>0, <2>1
    <3> QED
      BY ZenonT(60), <1>f, <2>b, <3>1, <3>2
  <2>2. CASE Top.kind = "if"
    <3>1. low' = "ops" /\ brt' = brt
      BY Zenon, <1>11, <2>0, <2>2 DEF Else
    <3>2. inp.valid => Agreed'
      BY Zenon, <1>11, <1>a, <1>u, <2>0, <2>2, <3>1, StepElse
    <3> QED
      BY ZenonT(60), <1>s, <2>b, <3>1, <3>2
  <2> QED
    BY Zenon, <2>1, <2>2
<1>12. ASSUME NEW o \in cur.ops, End(o) PROVE ValidInv'
  <2>0. /\ low = "ops" /\ ctrl # <<>> /\ brt.ds = <<>> /\ body' = Append(body, o)
        /\ low' = "ops" /\ brt' = brt
    BY Zenon, <1>12 DEF End, Read
  <2>1. inp.valid => Agreed'
    BY Zenon, <1>12, <1>a, <1>u, <2>0, StepEnd
  <2> QED
    BY Zenon, <1>b, <1>s, <2>0, <2>1
<1>p. ASSUME NEW d \in Word, NEW p \in Nat \ {0}, ResolveBr(d) # 0, ctrl' = Pending(ResolveBr(d), p)
      PROVE  SameLabels(ctrl, ctrl')
  <2>1. PICK i \in 1 .. Len(ctrl) : i = ResolveBr(d)
    BY Zenon, <1>p, <1>t, ResolveType
  <2> QED
    BY Zenon, <1>p, <1>t, <2>1, PendingSame
<1>j. ASSUME NEW d \in Word, NEW hh, ResolveBr(d) # 0
      PROVE  Len(JumpCode(ResolveBr(d), hh)) \in 1 .. 2
  <2>1. PICK i \in 1 .. Len(ctrl) : i = ResolveBr(d)
    BY Zenon, <1>j, <1>t, ResolveType
  <2> QED
    BY Zenon, <2>1, JumpType
<1>13. ASSUME NEW o \in cur.ops, Br(o) PROVE ValidInv'
  <2> DEFINE i == ResolveBr(o.d)
             p == Len(code) + Len(JumpCode(i, h))
  <2>0. /\ low = "ops" /\ ctrl # <<>> /\ brt.ds = <<>> /\ body' = Append(body, o)
        /\ inp.valid => CanBranch(o.d, 0)
    BY Zenon, <1>13 DEF Br, Read
  <2>d. o.d \in Word
    BY Zenon, <1>13, <1>t, OperandTypes DEF Br, Word
  <2>b. body' \in Seq(cur.ops)
    BY Zenon, <1>b, <2>0
  <2>h. ~ dead => h = h - 0
    BY <1>t
  <2>1. CASE i = 0 \/ Underflows(i, h)
    <3>1. Fail(<<>>, consts)
      BY Zenon, <1>13, <2>1 DEF Br
    <3>2. ASSUME inp.valid PROVE InDeadElse
      <4>1. i \in 1 .. Len(ctrl) /\ (Underflows(i, h) => InDeadElse)
        BY Zenon, <1>a, <1>0, <2>0, <2>d, <2>h, <3>2, BranchFits
      <4> QED
        BY <2>1, <4>1
    <3> QED
      BY Zenon, <1>f, <2>b, <3>1, <3>2
  <2>2. CASE ~ (i = 0 \/ Underflows(i, h))
    <3>1. /\ low' = "ops" /\ ctrl' = Pending(i, p) /\ dead' = TRUE /\ brt' = brt /\ val' = Cut
          /\ h' = h
      BY Zenon, <1>13, <2>0, <2>2 DEF Br
    <3>j. Len(JumpCode(i, h)) \in 1 .. 2
      BY Zenon, <1>j, <2>d, <2>2
    <3>2. p \in Nat \ {0}
      <4> DEFINE n == Len(JumpCode(i, h))
      <4>1. n \in 1 .. 2 /\ p = Len(code) + n /\ Len(code) \in Nat
        BY Zenon, <1>t, <3>j
      <4> HIDE DEF n, p
      <4> QED
        BY ONLY <4>1
    <3> HIDE DEF p
    <3>3. SameLabels(ctrl, ctrl')
      BY Zenon, <1>p, <2>d, <2>2, <3>1, <3>2
    <3>4. inp.valid => Agreed'
      BY Zenon, <1>a, <1>u, <2>0, <3>1, <3>3, StepCut
    <3> QED
      BY ZenonT(60), <1>s, <2>b, <3>1, <3>4
  <2> QED
    BY Zenon, <2>1, <2>2
<1>14. ASSUME NEW o \in cur.ops, BrIf(o) PROVE ValidInv'
  <2> DEFINE i == ResolveBr(o.d)
             hh == Consumed(1, 0)
             br == Cu("BR_IF_NOT", 0, 0)
             p == Len(code) + Len(<<>>) + 1 + Len(JumpCode(i, hh))
             a == LabelArity(ctrl[i])
  <2>0. /\ low = "ops" /\ ctrl # <<>> /\ brt.ds = <<>> /\ body' = Append(body, o)
        /\ inp.valid => CanBranch(o.d, 1)
    BY ZenonT(60), <1>14 DEF BrIf, Read
  <2>d. o.d \in Word
    BY Zenon, <1>14, <1>t, OperandTypes DEF BrIf, Word
  <2>b. body' \in Seq(cur.ops)
    BY ZenonT(60), <1>b, <2>0
  <2>h. ~ dead => hh = h - 1
    BY <1>t DEF Consumed
  <2>1. \/ (Short(1) \/ i = 0 \/ Underflows(i, hh)) /\ (Fail(<<>>, consts) \/ Fail(<<br>>, consts))
        \/ /\ i # 0 /\ low' = "ops" /\ ctrl' = Pending(i, p) /\ h' = hh /\ dead' = dead
           /\ brt' = brt /\ val' = Typed(1 + a, a)
    BY Zenon, <1>14, <2>0 DEF BrIf, JumpUnless
  <2>2. ASSUME inp.valid
        PROVE  /\ i \in 1 .. Len(ctrl) /\ (Underflows(i, hh) => InDeadElse)
               /\ a \in Nat /\ 1 + a \in Nat /\ CanPop(1 + a) /\ CanPop(1)
    <3>1. i \in 1 .. Len(ctrl) /\ (Underflows(i, hh) => InDeadElse)
      <4> HIDE DEF hh
      <4> QED
        BY Zenon, <1>a, <1>0, <2>0, <2>d, <2>h, <2>2, BranchFits
    <3>2. PICK ii \in 1 .. Len(ctrl) : ii = i
      BY Zenon, <3>1
    <3>3. LabelArity(ctrl[ii]) \in Nat
      BY Zenon, <1>t, LabelType
    <3>4. a \in Nat /\ 1 + a \in Nat
      BY SMTT(30), <3>2, <3>3
    <3>5. CanPop(1 + a)
      BY Zenon, <2>0, <2>2 DEF CanBranch
    <3>6. VTop.base \in Nat /\ val.h \in Nat
      BY Zenon, <1>a, <2>0, <2>2, TopFrame DEF Agreed
    <3> HIDE DEF a
    <3>7. CanPop(1)
      BY SMTT(30), <3>4, <3>5, <3>6 DEF CanPop
    <3> QED
      BY Zenon, <3>1, <3>4, <3>5, <3>7
  <2>3. CASE /\ Short(1) \/ i = 0 \/ Underflows(i, hh)
             /\ Fail(<<>>, consts) \/ Fail(<<br>>, consts)
    <3>1. ASSUME inp.valid PROVE InDeadElse
      <4>1. CASE Short(1)
        BY Zenon, <1>a, <1>0, <2>0, <2>2, <3>1, <4>1, PopsOk
      <4> QED
        BY SMTT(30), <2>2, <2>3, <3>1, <4>1
    <3> HIDE DEF br
    <3> QED
      BY Zenon, <1>f, <2>b, <2>3, <3>1
  <2>4. CASE /\ i # 0 /\ low' = "ops" /\ ctrl' = Pending(i, p) /\ h' = hh /\ dead' = dead
             /\ brt' = brt /\ val' = Typed(1 + a, a)
    <3>1. Len(JumpCode(i, hh)) \in 1 .. 2
      BY Zenon, <1>j, <2>d, <2>4
    <3>2. p \in Nat \ {0}
      <4>1. Len(<<>>) = 0
        BY Zenon
      <4> QED
        BY <1>t, <3>1, <4>1
    <3> HIDE DEF p
    <3>3. SameLabels(ctrl, ctrl')
      BY Zenon, <1>p, <2>d, <2>4, <3>2
    <3>4. ASSUME inp.valid PROVE Agreed'
      <4>1. a \in Nat /\ 1 + a \in Nat /\ CanPop(1 + a)
        BY Zenon, <2>2, <3>4
      <4>2. ~ dead => h' = h - 1
        BY Zenon, <2>h, <2>4
      <4> HIDE DEF a, i, hh
      <4>3. ~ dead => h' = (h - (1 + a)) + a
        BY SMTT(30), <1>t, <4>1, <4>2
      <4> QED
        BY Zenon, <1>a, <1>n, <1>u, <2>0, <2>4, <3>3, <3>4, <4>1, <4>3, StepTyped
    <3> QED
      BY Zenon, <1>s, <2>b, <2>4, <3>4
  <2> QED
    BY Zenon, <2>1, <2>3, <2>4
<1>15. ASSUME NEW o \in cur.ops, BrTable(o) PROVE ValidInv'
  <2> DEFINE x == Cu("LOCAL_SET", cur.scratch, 0)
  <2>0. /\ low = "ops" /\ ctrl # <<>> /\ brt.ds = <<>> /\ body' = Append(body, o)
        /\ inp.valid => \A j \in 1 .. Len(o.ds) : CanBranch(o.ds[j], 1)
    BY ZenonT(60), <1>15 DEF BrTable, Read
  <2>d. o.ds \in Seq(Nat) /\ o.ds # <<>>
    BY Zenon, <1>15, <1>t, OperandTypes DEF BrTable
  <2>b. body' \in Seq(cur.ops)
    BY ZenonT(60), <1>b, <2>0
  <2>1. \/ Short(1) /\ Fail(<<x>>, consts)
        \/ /\ low' = "ops" /\ h' = Consumed(1, 0) /\ brt' = [i |-> 0, ds |-> o.ds]
           /\ val' = Typed(1, 0) /\ ctrl' = ctrl /\ dead' = dead
    BY Zenon, <1>15, <2>0 DEF BrTable
  <2> HIDE DEF x
  <2>2. CASE Short(1) /\ Fail(<<x>>, consts)
    <3>1. ASSUME inp.valid PROVE InDeadElse
      <4>1. Agreed
        BY Zenon, <1>a, <2>0, <3>1
      <4>2. 1 \in 1 .. Len(o.ds) /\ o.ds[1] \in Word
        BY <2>d DEF Word
      <4> DEFINE d == o.ds[1]
      <4>3. d \in Word /\ CanBranch(d, 1)
        BY Zenon, <2>0, <3>1, <4>2
      <4> HIDE DEF d
      <4>4. ~ dead => h - 1 = h - 1
        BY Zenon
      <4>5. PICK i \in 1 .. Len(ctrl) : i = ResolveBr(d)
        BY ZenonT(60), <1>0, <2>0, <4>1, <4>3, <4>4, BranchFits
      <4> DEFINE a == LabelArity(ctrl[i])
      <4>6. a \in Nat
        BY Zenon, <1>t, LabelType
      <4>7. CanPop(1 + a)
        BY Zenon, <4>3, <4>5 DEF CanBranch
      <4> HIDE DEF a
      <4>8. VTop.base \in Nat /\ val.h \in Nat
        BY Zenon, <2>0, <4>1, TopFrame DEF Agreed
      <4>9. CanPop(1)
        BY SMTT(30), <4>6, <4>7, <4>8 DEF CanPop
      <4> QED
        BY Zenon, <1>0, <2>0, <2>2, <4>1, <4>9, PopsOk
    <3> QED
      BY Zenon, <1>f, <2>b, <2>2, <3>1
  <2>3. CASE /\ low' = "ops" /\ h' = Consumed(1, 0) /\ brt' = [i |-> 0, ds |-> o.ds]
             /\ val' = Typed(1, 0) /\ ctrl' = ctrl /\ dead' = dead
    <3>1. brt'.ds = o.ds
      BY Zenon, <2>3
    <3>2. ~ dead => h' = h - 1
      BY SMTT(30), <1>t, <2>3 DEF Consumed
    <3>3. inp.valid => Agreed'
      BY Zenon, <1>a, <1>u, <2>0, <2>d, <2>3, <3>1, <3>2, StepTable
    <3> QED
      BY Zenon, <1>s, <2>b, <2>3, <3>3
  <2> QED
    BY Zenon, <2>1, <2>2, <2>3
<1>16. ASSUME BrTableTarget PROVE ValidInv'
  <2> DEFINE d == brt.ds[1]
             i == ResolveBr(d)
             cs == <<Cu("LOCAL_GET", cur.scratch, 0), Cu("I64_CONST", 0, InternAt(brt.i)),
                     Cu("BINOP", 0, 0)>>
             br == Cu("BR_IF_NOT", 0, 0)
             p == Len(code) + Len(cs) + 1 + Len(JumpCode(i, h))
  <2>t. TableTypes
    BY Zenon DEF Types
  <2>e. low = "ops" /\ Len(brt.ds) > 1 /\ body' = body
    BY Zenon, <1>16 DEF BrTableTarget
  <2>0. /\ low = "ops" /\ brt.ds \in Seq(Nat) /\ Len(brt.ds) > 1 /\ ctrl # <<>> /\ body' = body
    BY ONLY <2>t, <2>e DEF TableTypes
  <2>d. d \in Word /\ 1 \in 1 .. Len(brt.ds)
    BY <2>0 DEF Word
  <2>b. body' \in Seq(cur.ops)
    BY ZenonT(60), <2>0 DEF ValidInv
  <2>1. \/ (i = 0 \/ Underflows(i, h)) /\ Fail(Append(cs, br), Intern(brt.i))
        \/ /\ i # 0 /\ ctrl' = Pending(i, p) /\ brt' = [i |-> brt.i + 1, ds |-> Tail(brt.ds)]
           /\ low' = "ops" /\ h' = h /\ dead' = dead /\ val' = val
    BY Zenon, <1>16, <2>0 DEF BrTableTarget, JumpUnless
  <2>c. Len(cs) = 3
    BY Zenon
  <2> HIDE DEF cs, br
  <2>2. CASE (i = 0 \/ Underflows(i, h)) /\ Fail(Append(cs, br), Intern(brt.i))
    <3>1. ASSUME inp.valid PROVE InDeadElse
      <4>1. CanBranch(d, 0) /\ Agreed
        BY Zenon, <1>a, <2>0, <2>d, <3>1 DEF Agreed
      <4>2. ~ dead => h = h - 0
        BY <1>t
      <4> HIDE DEF d
      <4>3. i \in 1 .. Len(ctrl) /\ (Underflows(i, h) => InDeadElse)
        BY Zenon, <1>0, <2>0, <2>d, <4>1, <4>2, BranchFits
      <4> QED
        BY SMTT(30), <2>2, <4>3
    <3> QED
      BY Zenon, <1>f, <2>b, <2>2, <3>1
  <2>3. CASE /\ i # 0 /\ ctrl' = Pending(i, p) /\ brt' = [i |-> brt.i + 1, ds |-> Tail(brt.ds)]
             /\ low' = "ops" /\ h' = h /\ dead' = dead /\ val' = val
    <3>1. Len(JumpCode(i, h)) \in 1 .. 2
      BY Zenon, <1>j, <2>d, <2>3
    <3>2. p \in Nat \ {0}
      <4> DEFINE n == Len(JumpCode(i, h))
      <4>1. n \in 1 .. 2 /\ p = Len(code) + Len(cs) + 1 + n /\ Len(code) \in Nat
        BY Zenon, <1>t, <3>1
      <4> HIDE DEF n, p
      <4> QED
        BY ONLY <2>c, <4>1
    <3> HIDE DEF p
    <3>3. SameLabels(ctrl, ctrl')
      <4> HIDE DEF d
      <4> QED
        BY Zenon, <1>p, <2>d, <2>3, <3>2
    <3>4. brt'.ds = Tail(brt.ds) /\ brt.ds # <<>>
      BY ONLY <2>0, <2>3
    <3>5. inp.valid => Agreed'
      BY Zenon, <1>a, <1>u, <2>0, <2>3, <3>3, <3>4, StepTarget
    <3> QED
      BY Zenon, <1>s, <2>b, <2>3, <3>5
  <2> QED
    BY ZenonT(60), <2>1, <2>2, <2>3
<1>17. ASSUME BrTableDefault PROVE ValidInv'
  <2> DEFINE d == brt.ds[1]
             i == ResolveBr(d)
             p == Len(code) + Len(JumpCode(i, h))
  <2>t. TableTypes
    BY Zenon DEF Types
  <2>e. low = "ops" /\ Len(brt.ds) = 1 /\ body' = body
    BY Zenon, <1>17 DEF BrTableDefault
  <2>0. /\ low = "ops" /\ brt.ds \in Seq(Nat) /\ Len(brt.ds) = 1 /\ ctrl # <<>> /\ body' = body
    BY ONLY <2>t, <2>e DEF TableTypes
  <2>d. d \in Word /\ 1 \in 1 .. Len(brt.ds)
    BY <2>0 DEF Word
  <2>b. body' \in Seq(cur.ops)
    BY Zenon, <2>0 DEF ValidInv
  <2>1. \/ (i = 0 \/ Underflows(i, h)) /\ Fail(<<>>, consts)
        \/ /\ i # 0 /\ ctrl' = Pending(i, p) /\ brt' = [i |-> 0, ds |-> <<>>]
           /\ low' = "ops" /\ h' = h /\ dead' = TRUE /\ val' = Cut
    BY Zenon, <1>17, <2>0 DEF BrTableDefault
  <2>2. CASE (i = 0 \/ Underflows(i, h)) /\ Fail(<<>>, consts)
    <3>1. ASSUME inp.valid PROVE InDeadElse
      <4>1. CanBranch(d, 0) /\ Agreed
        BY Zenon, <1>a, <2>0, <2>d, <3>1 DEF Agreed
      <4>2. ~ dead => h = h - 0
        BY <1>t
      <4> HIDE DEF d
      <4>3. i \in 1 .. Len(ctrl) /\ (Underflows(i, h) => InDeadElse)
        BY Zenon, <1>0, <2>0, <2>d, <4>1, <4>2, BranchFits
      <4> QED
        BY <2>2, <4>3
    <3> QED
      BY Zenon, <1>f, <2>b, <2>2, <3>1
  <2>3. CASE /\ i # 0 /\ ctrl' = Pending(i, p) /\ brt' = [i |-> 0, ds |-> <<>>]
             /\ low' = "ops" /\ h' = h /\ dead' = TRUE /\ val' = Cut
    <3>1. Len(JumpCode(i, h)) \in 1 .. 2
      BY Zenon, <1>j, <2>d, <2>3
    <3>2. p \in Nat \ {0}
      <4> DEFINE n == Len(JumpCode(i, h))
      <4>1. n \in 1 .. 2 /\ p = Len(code) + n /\ Len(code) \in Nat
        BY Zenon, <1>t, <3>1
      <4> HIDE DEF n, p
      <4> QED
        BY ONLY <4>1
    <3> HIDE DEF p
    <3>3. SameLabels(ctrl, ctrl')
      <4> HIDE DEF d
      <4> QED
        BY Zenon, <1>p, <2>d, <2>3, <3>2
    <3>4. brt'.ds = <<>>
      BY Zenon, <2>3
    <3>5. inp.valid => Agreed'
      BY Zenon, <1>a, <1>u, <2>0, <2>3, <3>3, <3>4, StepCut
    <3> QED
      BY Zenon, <1>s, <2>b, <2>3, <3>5
  <2> QED
    BY Zenon, <2>1, <2>2, <2>3
<1>18. ASSUME Unclosed PROVE ValidInv'
  <2>1. Fail(<<>>, consts) /\ ~ inp.valid /\ body' = body
    BY Zenon, <1>18 DEF Unclosed
  <2>2. body' \in Seq(cur.ops)
    BY Zenon, <2>1 DEF ValidInv
  <2> QED
    BY Zenon, <1>f, <2>1, <2>2
<1> QED
  BY Zenon, <1>1, <1>2, <1>3, <1>4, <1>5, <1>6, <1>7, <1>8, <1>9, <1>10, <1>11, <1>12, <1>13, <1>14, <1>15,
     <1>16, <1>17, <1>18
  DEF Operators, Lower, ReadOperator

\* Before the next body, and when none is in work, there is nothing to agree on.
LEMMA ValidIdle ==
    ASSUME ValidInv, low' = "idle", UNCHANGED <<cur, body>>
    PROVE  ValidInv'
BY Zenon DEF ValidInv, StubJustified

\* lower_operators starts like the validator: one frame, nothing on the stack.
LEMMA ValidStart ==
    ASSUME Types, Types', NEW has \in BOOLEAN, FuncStart(has)
    PROVE  ValidInv'
<1> DEFINE g == [base |-> 0, poly |-> FALSE, reach |-> TRUE]
           t == FuncArity(Len(funcs))
<1>0. /\ low = "idle" /\ low' = "ops" /\ body' = <<>> /\ h' = 0 /\ dead' = FALSE /\ brt' = brt
      /\ val' = [h |-> 0, frames |-> <<g>>] /\ ctrl' = <<FirstLabel(t.nr)>>
  BY ZenonT(60), StartFrame
<1>c. cur'.nr = t.nr
  BY StartCur
<1>1. /\ Len(ctrl') = 1 /\ ctrl'[1].base = 0 /\ ctrl'[1].nr = t.nr
      /\ ctrl'[1].dead_on_entry = FALSE /\ ctrl' # <<>>
  BY Zenon, <1>0 DEF FirstLabel
<1> HIDE DEF t
<1>2. brt'.ds = <<>>
  BY Zenon, <1>0 DEF Types, TableTypes
<1>3. g \in Frame
  BY Zenon DEF Frame
<1>g. g.base = 0 /\ g.reach /\ ~ g.poly
  BY Zenon
<1> HIDE DEF g
<1>4. /\ val'.h = 0 /\ val'.frames = <<g>> /\ val'.frames \in Seq(Frame) /\ Len(val'.frames) = 1
      /\ val'.frames[1] = g /\ VTop' = g
  BY SMTT(30), <1>0, <1>3 DEF VTop
<1>5. Agree(ctrl', val'.frames, h', dead', val'.h, cur'.nr)
  BY ONLY SMTT(30), <1>0, <1>1, <1>c, <1>4, <1>g DEF Agree, LiveIn
<1>6. Agreed'
  BY ONLY <1>1, <1>2, <1>4, <1>5, <1>g DEF Agreed
<1> QED
  BY <1>0, <1>6 DEF ValidInv, StubJustified

\* The sections of a module, up to the next body.
LEMMA ValidSections ==
    ASSUME Types, Types', ValidInv, Sections
    PROVE  ValidInv'
<1>1. Entries \/ \E has \in BOOLEAN : FuncStart(has)
  BY Zenon DEF Sections, Entries
<1>2. CASE Entries
  <2>1. low' = "idle" /\ UNCHANGED <<cur, body>>
    BY Zenon, <1>2, EntryQuiet DEF Quiet, lvars
  <2> QED
    BY Zenon, <2>1, ValidIdle
<1> QED
  BY Zenon, <1>1, <1>2, ValidStart

\* The validator and the lowering agree in every run.
THEOREM ValidatorAgrees == Spec => []ValidInv
<1>1. Init => ValidInv
  <2> SUFFICES ASSUME Init PROVE ValidInv
    BY Zenon
  <2>1. body = <<>> /\ low = "idle"
    BY Zenon DEF Init
  <2> QED
    BY <2>1 DEF ValidInv, StubJustified
<1>2. Types /\ Types' /\ ValidInv /\ [Next]_vars => ValidInv'
  <2> SUFFICES ASSUME Types, Types', ValidInv, [Next]_vars PROVE ValidInv'
    BY Zenon
  <2>1. CASE Finish \/ HandOver \/ Free \/ UNCHANGED vars
    <3>1. UNCHANGED <<inp, host_fn_ids, cur, body, low, ctrl, h, dead, brt, val>>
      BY Zenon, <2>1 DEF Finish, HandOver, Free, vars, tvars, ctx, lvars
    <3>2. StubJustified'
      BY ZenonT(60), <3>1 DEF ValidInv, StubJustified, InDeadElse, NotImplemented
    <3>3. Agreed => Agreed'
      BY Zenon, <3>1 DEF Agreed, VTop, CanBranch, CanPop, ResolveBr
    <3> QED
      BY Zenon, <3>1, <3>2, <3>3 DEF ValidInv
  <2>2. CASE FuncDone \/ FuncStub
    <3>1. low' = "idle" /\ UNCHANGED <<cur, body>>
      BY Zenon, <2>2 DEF FuncDone, FuncStub, ctx
    <3> QED
      BY Zenon, <3>1, ValidIdle
  <2> QED
    BY Zenon, <2>1, <2>2, ValidSections, ValidLower DEF Next
<1> QED
  BY <1>1, <1>2, TypesInvariant, PTL DEF Spec

(***************************************************************************)
(* In a valid module lower_operators gives up, and the function becomes a  *)
(* trap, only at an operator it does not implement or in the else arm of   *)
(* an if that is not reached: no underflow check fails anywhere else.      *)
(***************************************************************************)
THEOREM StubJustifiedAlways == Spec => []StubJustified
<1>1. ValidInv => StubJustified
  BY Zenon DEF ValidInv
<1> QED
  BY <1>1, ValidatorAgrees, PTL
=============================================================================
