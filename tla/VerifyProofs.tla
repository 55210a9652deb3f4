---------------------------- MODULE VerifyProofs ----------------------------
(***************************************************************************)
(* verify_cuop accepts exactly the modules whose functions have consistent *)
(* heights, for every module and every worklist order.                     *)
(***************************************************************************)
EXTENDS Verify, TLAPS

\* Type facts about one instruction of a well-shaped module.
LEMMA InstrType ==
    ASSUME NEW mod, ModuleShape(mod),
           NEW i \in 0 .. mod.n_funcs - 1,
           EndOf(mod.funcs[i]) <= mod.code_len,
           NEW rel \in 0 .. mod.funcs[i].code_len - 1
    PROVE  /\ mod.funcs[i] \in FuncMeta
           /\ mod.code[mod.funcs[i].code_off + rel] \in CuOp
  <1>1. mod.funcs[i] \in FuncMeta
    BY DEF ModuleShape
  <1>2. /\ mod.funcs[i].code_off \in Nat
        /\ mod.funcs[i].code_len \in Nat
        /\ mod.code_len \in Nat
    BY <1>1 DEF FuncMeta, ModuleShape
  <1>3. mod.funcs[i].code_off + rel \in 0 .. mod.code_len - 1
    BY <1>2 DEF EndOf
  <1> QED
    BY <1>1, <1>3 DEF ModuleShape

\* An executable instruction leaves a height that is not negative.
LEMMA NextHeightNat ==
    ASSUME NEW mod, ModuleShape(mod),
           NEW g \in FuncMeta, NEW in \in CuOp, NEW h \in Nat,
           Executable(mod, g, in, h)
    PROVE  NextHeight(mod, g, in, h) \in Nat
  <1> USE DEF Executable, PushOne, PopOne, LoseOne, Bulk, Returns
  <1>1. /\ in.op \in STRING /\ in.a \in Nat /\ in.b \in Nat
        /\ NumLocals(g) \in Nat /\ g.n_results \in Nat
        /\ HostParams(in) \in Nat /\ HostResults(in) \in Nat
    BY DEF CuOp, FuncMeta, NumLocals, HostParams, HostResults
  <1>2. h >= Need(mod, g, in)
    OBVIOUS
  <1>3. CASE in.op \in {"CALL", "RETURN_CALL"}
    <2>a. in.b < mod.n_funcs
      BY <1>3 DEF OperandsOk
    <2>b. mod.n_funcs \in Nat /\ mod.funcs \in [0 .. mod.n_funcs - 1 -> FuncMeta]
      BY DEF ModuleShape
    <2>c. in.b \in 0 .. mod.n_funcs - 1
      BY ONLY <1>1, <2>a, <2>b
    <2>1. mod.funcs[in.b] \in FuncMeta
      BY ONLY <2>b, <2>c
    <2>2. mod.funcs[in.b].n_params \in Nat /\ mod.funcs[in.b].n_results \in Nat
      BY <2>1 DEF FuncMeta
    <2> QED
      BY <1>1, <1>2, <1>3, <2>2 DEF NextHeight, Need
  <1>4. CASE in.op = "CALL_INDIRECT"
    <2>a. in.b < mod.n_types
      BY <1>4 DEF OperandsOk
    <2>b. mod.n_types \in Nat /\ mod.type_fp \in [0 .. mod.n_types - 1 -> Fingerprint]
      BY DEF ModuleShape
    <2>c. in.b \in 0 .. mod.n_types - 1
      BY ONLY <1>1, <2>a, <2>b
    <2>1. mod.type_fp[in.b] \in Fingerprint
      BY ONLY <2>b, <2>c
    <2>2. mod.type_fp[in.b].np \in Nat /\ mod.type_fp[in.b].nr \in Nat
      BY <2>1 DEF Fingerprint
    <2> QED
      BY <1>1, <1>2, <1>4, <2>2 DEF NextHeight, Need
  <1>5. CASE in.op = "UNWIND"
    BY <1>1, <1>5 DEF NextHeight, OperandsOk
  <1>6. CASE in.op \notin {"CALL", "RETURN_CALL", "CALL_INDIRECT", "UNWIND"}
    BY <1>1, <1>2, <1>6 DEF NextHeight, Need
  <1> QED
    BY <1>3, <1>4, <1>5, <1>6

\* Successors are integers, and an instruction without one keeps the height.
LEMMA SuccessorFacts ==
    ASSUME NEW mod, NEW g \in FuncMeta, NEW in \in CuOp, NEW rel \in Nat, NEW h \in Nat
    PROVE  /\ Successors(g, in, rel) \subseteq Int
           /\ Successors(g, in, rel) = {} => NextHeight(mod, g, in, h) = h
  <1>1. g.code_off \in Nat /\ in.b \in Nat
    BY DEF FuncMeta, CuOp
  <1>2. Successors(g, in, rel) \subseteq Int
    BY <1>1 DEF Successors
  <1>3. ASSUME Successors(g, in, rel) = {}
        PROVE  NextHeight(mod, g, in, h) = h
    <2>1. in.op \in NoFall
      BY <1>3 DEF Successors
    <2> QED
      BY <2>1 DEF NextHeight, NoFall, PushOne, LoseOne, Bulk, Returns
  <1> QED
    BY <1>2, <1>3

-----------------------------------------------------------------------------
(***************************************************************************)
(* The inductive invariant.                                                *)
(***************************************************************************)
Pcs == 0 .. f.code_len - 1

\* A function behind fi was accepted with the heights recorded for it.
DoneInv ==
    \A i \in 0 .. m.n_funcs - 1 : i < fi =>
        /\ WellPlaced(m, i)
        /\ HasCode(m.funcs[i]) =>
              /\ heights[i] \in [0 .. m.funcs[i].code_len - 1 -> Int]
              /\ ConsistentIn(m, m.funcs[i], heights[i])

\* Inside the while: a pc that has a height is either still on the worklist or
\* flows into its successors, and max_h is the largest height given out.
WorkInv ==
    phase = "work" =>
        /\ WellPlaced(m, fi) /\ HasCode(f)
        /\ height[0] = 0
        /\ \A rel \in Pcs : height[rel] >= -1 /\ height[rel] <= max_h
        /\ \A rel \in work : height[rel] >= 0
        /\ \A rel \in Pcs : height[rel] >= 0 /\ rel \notin work =>
              Flows(m, f, height, rel)
        /\ \E rel \in Pcs : height[rel] = max_h

\* The pass never guesses: any consistent assignment agrees with its heights.
Forced ==
    phase = "work" =>
        \A hv \in [Pcs -> Heights] : ConsistentIn(m, f, hv) =>
            \A rel \in Pcs : height[rel] >= 0 => hv[rel] = height[rel]

IInv ==
    /\ TypeOK
    /\ heights = [i \in 0 .. m.n_funcs - 1 |-> heights[i]]
    /\ DoneInv
    /\ WorkInv
    /\ Forced
    /\ MaxStackBounds
    /\ phase = "ok" => fi = m.n_funcs
    /\ RejectJustified

\* The invariant holds before verify_cuop looks at a function.
LEMMA InitIInv == Init => IInv
  <1> SUFFICES ASSUME Init PROVE IInv
    OBVIOUS
  <1>1. ModuleShape(m) /\ m.n_funcs \in Nat
    BY VerifyAssumption DEF Init, ModuleShape
  <1>2. TypeOK
    BY <1>1 DEF Init, TypeOK
  <1>3. heights = [i \in 0 .. m.n_funcs - 1 |-> heights[i]]
    BY DEF Init
  <1>4. DoneInv /\ MaxStackBounds
    BY <1>1 DEF Init, DoneInv, MaxStackBounds
  <1>5. phase # "work" /\ phase # "ok" /\ RejectJustified
    BY DEF Init, RejectJustified
  <1> QED
    BY <1>2, <1>3, <1>4, <1>5 DEF IInv, WorkInv, Forced

\* Types of the function being verified.
LEMMA CurrentFunction ==
    ASSUME TypeOK, fi < m.n_funcs
    PROVE  /\ fi \in 0 .. m.n_funcs - 1
           /\ m.n_funcs \in Nat
           /\ f \in FuncMeta
           /\ f.code_len \in Nat /\ f.n_params \in Nat /\ NumLocals(f) \in Nat
  <1>1. fi \in 0 .. m.n_funcs - 1 /\ m.n_funcs \in Nat
    BY DEF TypeOK, ModuleShape
  <1>2. f \in FuncMeta
    BY <1>1 DEF TypeOK, ModuleShape, f
  <1> QED
    BY <1>1, <1>2 DEF FuncMeta, NumLocals

\* The steps that reject keep everything but the phase, so they preserve the
\* invariant as soon as some function is shown to be unverifiable.
LEMMA FailPreserves ==
    ASSUME IInv, Fail, fi \in 0 .. m.n_funcs - 1, ~ Verifiable(fi)
    PROVE  IInv'
  <1>1. phase' = "fail" /\ UNCHANGED <<m, fi, height, work, max_h, max_stack, heights>>
    BY DEF Fail
  <1>2. TypeOK'
    BY <1>1 DEF IInv, TypeOK
  <1>3. DoneInv' /\ MaxStackBounds'
    BY <1>1 DEF IInv, DoneInv, MaxStackBounds
  <1>4. RejectJustified'
    BY <1>1 DEF RejectJustified, Verifiable
  <1> QED
    BY <1>1, <1>2, <1>3, <1>4 DEF IInv, WorkInv, Forced

\* The head of the for loop.
LEMMA HeadPreserves ==
    ASSUME IInv, Accept \/ RejectFunction \/ SkipImport \/ BeginFunction
    PROVE  IInv'
  <1>1. CASE Accept
    <2>1. phase' = "ok" /\ fi = m.n_funcs
          /\ UNCHANGED <<m, fi, height, work, max_h, max_stack, heights>>
      BY <1>1 DEF Accept
    <2>2. TypeOK'
      BY <2>1 DEF IInv, TypeOK
    <2>3. DoneInv' /\ MaxStackBounds'
      BY <2>1 DEF IInv, DoneInv, MaxStackBounds
    <2> QED
      BY <2>1, <2>2, <2>3 DEF IInv, WorkInv, Forced, RejectJustified
  <1>2. CASE RejectFunction
    <2>1. fi \in 0 .. m.n_funcs - 1
      BY <1>2, CurrentFunction DEF RejectFunction, IInv
    <2>2. ~ Verifiable(fi)
      BY <1>2 DEF RejectFunction, Verifiable
    <2> QED
      BY <1>2, <2>1, <2>2, FailPreserves DEF RejectFunction
  <1>3. CASE SkipImport
    <2>1. /\ phase = "func" /\ fi < m.n_funcs /\ WellPlaced(m, fi) /\ ~ HasCode(f)
          /\ max_stack' = [max_stack EXCEPT ![fi] = f.n_params]
          /\ fi' = fi + 1
          /\ UNCHANGED <<m, phase, height, work, max_h, heights>>
      BY <1>3 DEF SkipImport
    <2>2. /\ fi \in 0 .. m.n_funcs - 1 /\ m.n_funcs \in Nat /\ f.n_params \in Nat
      BY <2>1, CurrentFunction DEF IInv
    <2>3. TypeOK'
      BY <2>1, <2>2 DEF IInv, TypeOK
    <2>4. ~ HasCode(m.funcs[fi])
      BY <2>1 DEF f
    <2>5. ASSUME NEW i \in 0 .. m.n_funcs - 1, i < fi + 1
          PROVE  i < fi \/ (i = fi /\ ~ HasCode(m.funcs[i]) /\ WellPlaced(m, i))
      <3>1. i < fi \/ i = fi
        BY ONLY <2>2, <2>5
      <3> QED
        BY <3>1, <2>1, <2>4
    <2>6. DoneInv'
      BY <2>1, <2>5 DEF IInv, DoneInv
    <2>7. \A i \in 0 .. m.n_funcs - 1 : i # fi => max_stack'[i] = max_stack[i]
      BY <2>1, <2>2 DEF IInv, TypeOK
    <2>8. MaxStackBounds'
      <3> SUFFICES ASSUME NEW i \in 0 .. m.n_funcs - 1,
                          i < fi + 1, HasCode(m.funcs[i]),
                          NEW rel \in 0 .. m.funcs[i].code_len - 1,
                          heights[i][rel] >= 0
                   PROVE  NumLocals(m.funcs[i]) + heights[i][rel] <= max_stack'[i]
        BY <2>1 DEF MaxStackBounds
      <3>1. i < fi /\ i # fi
        BY <2>2, <2>5
      <3> QED
        BY <3>1, <2>7 DEF IInv, MaxStackBounds
    <2> QED
      BY <2>1, <2>3, <2>6, <2>8 DEF IInv, WorkInv, Forced, RejectJustified
  <1>4. CASE BeginFunction
    <2>1. /\ phase = "func" /\ fi < m.n_funcs /\ WellPlaced(m, fi) /\ HasCode(f)
          /\ height' = [rel \in 0 .. f.code_len - 1 |-> IF rel = 0 THEN 0 ELSE -1]
          /\ work' = {0} /\ max_h' = 0 /\ phase' = "work"
          /\ UNCHANGED <<m, fi, max_stack, heights>>
      BY <1>4 DEF BeginFunction
    <2>2. f.code_len \in Nat /\ f' = f /\ Pcs' = Pcs /\ f.code_len > 0
      BY <2>1, CurrentFunction DEF IInv, f, Pcs, HasCode
    <2>3. 0 \in Pcs /\ height' \in [Pcs -> Int]
          /\ \A rel \in Pcs : height'[rel] = IF rel = 0 THEN 0 ELSE -1
      BY <2>1, <2>2 DEF Pcs
    <2>4. TypeOK'
      BY <2>1, <2>2, <2>3 DEF IInv, TypeOK, Pcs
    <2>5. DoneInv' /\ MaxStackBounds'
      BY <2>1 DEF IInv, DoneInv, MaxStackBounds
    <2>6. WorkInv'
      BY <2>1, <2>2, <2>3 DEF WorkInv
    <2>7. Forced'
      BY <2>1, <2>2, <2>3 DEF Forced, ConsistentIn
    <2> QED
      BY <2>1, <2>4, <2>5, <2>6, <2>7 DEF IInv, RejectJustified
  <1> QED
    BY <1>1, <1>2, <1>3, <1>4

\* Types of the instruction that the while loop takes.
LEMMA WorkItem ==
    ASSUME IInv, phase = "work", NEW rel \in work
    PROVE  /\ fi \in 0 .. m.n_funcs - 1
           /\ f \in FuncMeta /\ f.code_len \in Nat
           /\ rel \in Pcs /\ Pcs \subseteq Nat
           /\ m.code[f.code_off + rel] \in CuOp
           /\ height \in [Pcs -> Int] /\ height[rel] \in Nat
           /\ max_h \in Nat
  <1>1. /\ fi \in 0 .. m.n_funcs - 1
        /\ f \in FuncMeta /\ f.code_len \in Nat
    BY CurrentFunction DEF IInv, TypeOK
  <1>2. rel \in Pcs /\ height \in [Pcs -> Int] /\ max_h \in Nat
    BY DEF IInv, TypeOK, Pcs
  <1>3. Pcs \subseteq Nat
    BY <1>1 DEF Pcs
  <1>4. height[rel] \in Nat
    BY <1>2 DEF IInv, WorkInv
  <1>5. m.code[f.code_off + rel] \in CuOp
    <2>1. EndOf(f) <= m.code_len
      BY DEF IInv, WorkInv, WellPlaced, f
    <2> QED
      BY <1>1, <1>2, <2>1, InstrType DEF IInv, TypeOK, f, Pcs
  <1> QED
    BY <1>1, <1>2, <1>3, <1>4, <1>5

\* A rejected instruction leaves no consistent assignment for the function.
LEMMA RejectPreserves ==
    ASSUME IInv, NEW rel \in work, Reject(rel)
    PROVE  IInv'
  <1> DEFINE in == m.code[f.code_off + rel]
             h == height[rel]
  <1>1. phase = "work" /\ Fail
    BY DEF Reject
  <1>2. /\ fi \in 0 .. m.n_funcs - 1 /\ rel \in Pcs
        /\ height \in [Pcs -> Int] /\ h \in Nat
    BY <1>1, WorkItem
  <1>3. ASSUME NEW hv \in [Pcs -> Heights], ConsistentIn(m, f, hv)
        PROVE  FALSE
    <2>1. \A r \in Pcs : height[r] >= 0 => hv[r] = height[r]
      BY <1>1, <1>3 DEF IInv, Forced
    <2>2. hv[rel] = h /\ h >= 0
      BY <1>2, <2>1
    <2>3. Flows(m, f, hv, rel)
      BY <1>2, <1>3, <2>2 DEF ConsistentIn, Pcs
    <2>4. /\ Executable(m, f, in, h)
          /\ \A s \in Successors(f, in, rel) :
                s \in Pcs /\ hv[s] = NextHeight(m, f, in, h)
      BY <2>2, <2>3 DEF Flows, Pcs
    <2>5. PICK s \in Successors(f, in, rel) : ~ Joins(s, NextHeight(m, f, in, h))
      BY <2>4 DEF Reject
    <2>6. s \in Pcs /\ hv[s] = NextHeight(m, f, in, h)
      BY <2>4
    <2>7. height[s] # -1 /\ height[s] # NextHeight(m, f, in, h)
      BY <2>5, <2>6 DEF Joins, Pcs
    <2>8. height[s] >= -1 /\ height[s] \in Int
      BY <1>1, <1>2, <2>6 DEF IInv, WorkInv
    <2>9. height[s] >= 0
      BY ONLY <2>7, <2>8
    <2> QED
      BY <2>1, <2>6, <2>7, <2>9
  <1>4. ~ Verifiable(fi)
    <2>1. HasCode(m.funcs[fi])
      BY <1>1 DEF IInv, WorkInv, f
    <2> QED
      BY <1>3, <2>1 DEF Verifiable, f, Pcs
  <1> QED
    BY <1>1, <1>2, <1>4, FailPreserves

\* max_h is the height of some pc, so a frame that is too deep cannot be avoided.
LEMMA RejectDeepPreserves ==
    ASSUME IInv, RejectDeep
    PROVE  IInv'
  <1>1. phase = "work" /\ NumLocals(f) + max_h > MAX_STACK /\ Fail
    BY DEF RejectDeep
  <1>2. /\ fi \in 0 .. m.n_funcs - 1 /\ NumLocals(f) \in Nat
        /\ max_h \in Nat /\ MAX_STACK \in Nat
    BY <1>1, CurrentFunction, VerifyAssumption DEF IInv, TypeOK
  <1>3. PICK w \in Pcs : height[w] = max_h
    BY <1>1 DEF IInv, WorkInv
  <1>4. ASSUME NEW hv \in [Pcs -> Heights], ConsistentIn(m, f, hv), Fits(f, hv)
        PROVE  FALSE
    <2>1. hv[w] = max_h
      BY <1>1, <1>2, <1>3, <1>4 DEF IInv, Forced
    <2>2. NumLocals(f) + max_h <= MAX_STACK
      BY <1>4, <2>1 DEF Fits, Pcs
    <2> QED
      BY ONLY <1>1, <1>2, <2>2
  <1>5. ~ Verifiable(fi)
    <2>1. HasCode(m.funcs[fi])
      BY <1>1 DEF IInv, WorkInv, f
    <2> QED
      BY <1>4, <2>1 DEF Verifiable, f, Pcs
  <1> QED
    BY <1>1, <1>2, <1>5, FailPreserves

\* One accepted instruction: a height already given out never changes, so what
\* flowed before still flows, and the new heights are the only possible ones.
LEMMA VisitPreserves ==
    ASSUME IInv, NEW rel \in work, Visit(rel)
    PROVE  IInv'
  <1> DEFINE in == m.code[f.code_off + rel]
             h == height[rel]
             next == NextHeight(m, f, in, h)
             succ == Successors(f, in, rel)
  <1>1. /\ phase = "work"
        /\ Executable(m, f, in, h)
        /\ \A s \in succ : Joins(s, next)
        /\ height' = [s \in Pcs |-> IF s \in succ THEN next ELSE height[s]]
        /\ work' = (work \ {rel}) \cup {s \in succ : height[s] = -1}
        /\ max_h' = Larger(max_h, Larger(h, next))
        /\ UNCHANGED <<m, phase, fi, max_stack, heights>>
    BY DEF Visit, Pcs
  <1>2. f' = f /\ Pcs' = Pcs
    BY <1>1 DEF f, Pcs
  <1>3. /\ f \in FuncMeta /\ rel \in Pcs /\ Pcs \subseteq Nat /\ in \in CuOp
        /\ height \in [Pcs -> Int] /\ h \in Nat /\ max_h \in Nat
    BY <1>1, WorkItem
  <1>4. next \in Nat
    BY <1>1, <1>3, NextHeightNat DEF IInv, TypeOK
  <1>5. \A s \in succ : s \in Pcs /\ height[s] \in {-1, next}
    BY <1>1 DEF Joins, Pcs
  <1>6. /\ height' \in [Pcs -> Int]
        /\ \A s \in succ : height'[s] = next
        /\ \A s \in Pcs : s \notin succ => height'[s] = height[s]
    BY <1>1, <1>3, <1>4, <1>5
  <1>7. \A s \in Pcs : height[s] >= 0 => height'[s] = height[s]
    BY <1>3, <1>4, <1>5, <1>6
  <1>a. height'[rel] = h
    <2>1. height[rel] >= 0
      BY <1>3
    <2> QED
      BY <1>3, <1>7, <2>1
  <1>8. /\ max_h' \in Nat /\ max_h' >= max_h /\ max_h' >= next
        /\ max_h' = max_h \/ max_h' = h \/ max_h' = next
    BY ONLY <1>1, <1>3, <1>4 DEF Larger, Visit
  <1>9. TypeOK'
    <2>1. work' \subseteq Pcs
      BY <1>1, <1>5 DEF IInv, TypeOK, Pcs
    <2> QED
      BY <1>1, <1>2, <1>6, <1>8, <2>1 DEF IInv, TypeOK, Pcs
  <1>10. DoneInv' /\ MaxStackBounds'
    BY <1>1 DEF IInv, DoneInv, MaxStackBounds
  <1>11. WorkInv'
    <2>1. (WellPlaced(m, fi) /\ HasCode(f) /\ height[0] = 0)'
      <3>1. WellPlaced(m, fi) /\ HasCode(f) /\ height[0] = 0
        BY <1>1 DEF IInv, WorkInv
      <3>2. 0 \in Pcs
        BY <1>1, WorkItem DEF Pcs
      <3> QED
        BY <1>1, <1>2, <1>7, <3>1, <3>2
    <2>2. \A r \in Pcs : height'[r] >= -1 /\ height'[r] <= max_h'
      <3> TAKE r \in Pcs
      <3>1. height[r] >= -1 /\ height[r] <= max_h /\ height[r] \in Int
        BY <1>1, <1>3 DEF IInv, WorkInv
      <3> QED
        BY <1>3, <1>4, <1>6, <1>8, <3>1
    <2>3. \A r \in work' : height'[r] >= 0
      <3> TAKE r \in work'
      <3>1. CASE r \in work
        <4>1. height[r] >= 0 /\ r \in Pcs
          BY <1>1, <3>1 DEF IInv, WorkInv, TypeOK, Pcs
        <4> QED
          BY <1>7, <4>1
      <3>2. CASE r \in succ
        BY <1>4, <1>6, <3>2
      <3> QED
        BY <1>1, <3>1, <3>2
    <2>4. ASSUME NEW r \in Pcs, height'[r] >= 0, r \notin work'
          PROVE  Flows(m, f, height', r)
      <3>1. r = rel \/ (height[r] >= 0 /\ r \notin work)
        BY <1>1, <1>3, <1>4, <1>5, <1>6, <2>4
      <3>2. CASE r = rel
        BY <1>1, <1>5, <1>6, <1>a, <3>2 DEF Flows, Pcs
      <3>3. CASE height[r] >= 0 /\ r \notin work
        <4> DEFINE ir == m.code[f.code_off + r]
        <4>1. Flows(m, f, height, r) /\ height[r] \in Nat /\ height'[r] = height[r]
          BY <1>1, <1>3, <1>7, <3>3 DEF IInv, WorkInv
        <4>2. /\ Executable(m, f, ir, height[r])
              /\ \A s \in Successors(f, ir, r) :
                    s \in Pcs /\ height[s] = NextHeight(m, f, ir, height[r])
          BY <4>1 DEF Flows, Pcs
        <4>3. ir \in CuOp
          <5>1. EndOf(f) <= m.code_len /\ fi \in 0 .. m.n_funcs - 1
            BY <1>1, WorkItem DEF IInv, WorkInv, WellPlaced, f
          <5> QED
            BY <5>1, InstrType DEF IInv, TypeOK, f, Pcs
        <4>4. NextHeight(m, f, ir, height[r]) \in Nat
          BY <1>3, <4>1, <4>2, <4>3, NextHeightNat DEF IInv, TypeOK
        <4>5. \A s \in Successors(f, ir, r) : height'[s] = height[s]
          BY <1>7, <4>2, <4>4
        <4> QED
          BY <4>1, <4>2, <4>5 DEF Flows, Pcs
      <3> QED
        BY <3>1, <3>2, <3>3
    <2>5. \E r \in Pcs : height'[r] = max_h'
      <3>1. CASE max_h' = max_h
        <4>1. PICK w \in Pcs : height[w] = max_h
          BY <1>1 DEF IInv, WorkInv
        <4> QED
          BY <1>3, <1>7, <3>1, <4>1
      <3>2. CASE max_h' = h
        BY <1>3, <1>a, <3>2
      <3>3. CASE max_h' = next
        <4>1. CASE succ = {}
          <5>1. rel \in Nat
            BY <1>3
          <5>2. next = h
            BY <1>3, <4>1, <5>1, SuccessorFacts
          <5> QED
            BY <1>3, <1>a, <3>3, <5>2
        <4>2. CASE succ # {}
          BY <1>5, <1>6, <3>3, <4>2
        <4> QED
          BY <4>1, <4>2
      <3> QED
        BY <1>8, <3>1, <3>2, <3>3
    <2> QED
      BY <1>1, <1>2, <2>1, <2>2, <2>3, <2>4, <2>5 DEF WorkInv
  <1>12. Forced'
    <2> SUFFICES ASSUME NEW hv \in [Pcs -> Heights], ConsistentIn(m, f, hv),
                        NEW r \in Pcs, height'[r] >= 0
                 PROVE  hv[r] = height'[r]
      BY <1>1, <1>2 DEF Forced
    <2>1. \A s \in Pcs : height[s] >= 0 => hv[s] = height[s]
      BY <1>1 DEF IInv, Forced
    <2>2. hv[rel] = h /\ Flows(m, f, hv, rel)
      BY <1>3, <2>1 DEF ConsistentIn, Pcs
    <2>3. \A s \in succ : hv[s] = next
      BY <2>2 DEF Flows
    <2>4. CASE r \in succ
      BY <1>6, <2>3, <2>4
    <2>5. CASE r \notin succ
      BY <1>6, <2>1, <2>5
    <2> QED
      BY <2>4, <2>5
  <1> QED
    BY <1>1, <1>9, <1>10, <1>11, <1>12 DEF IInv, RejectJustified

\* The end of a function: an empty worklist means every height flows.
LEMMA EndPreserves ==
    ASSUME IInv, EndFunction
    PROVE  IInv'
  <1> DEFINE max_sp == NumLocals(f) + max_h
  <1>1. /\ phase = "work" /\ work = {}
        /\ max_stack' = [max_stack EXCEPT ![fi] = max_sp]
        /\ heights' = [heights EXCEPT ![fi] = height]
        /\ fi' = fi + 1
        /\ phase' = "func"
        /\ UNCHANGED <<m, height, work, max_h>>
    BY DEF EndFunction
  <1>2. /\ fi \in 0 .. m.n_funcs - 1 /\ m.n_funcs \in Nat
        /\ f \in FuncMeta /\ NumLocals(f) \in Nat /\ max_h \in Nat
        /\ height \in [Pcs -> Int]
    BY <1>1, CurrentFunction DEF IInv, TypeOK, Pcs
  <1>3. /\ max_stack' \in [0 .. m.n_funcs - 1 -> Nat]
        /\ max_stack'[fi] = max_sp
        /\ \A i \in 0 .. m.n_funcs - 1 : i # fi => max_stack'[i] = max_stack[i]
    BY <1>1, <1>2 DEF IInv, TypeOK
  <1>4. /\ heights' = [i \in 0 .. m.n_funcs - 1 |-> heights'[i]]
        /\ heights'[fi] = height
        /\ \A i \in 0 .. m.n_funcs - 1 : i # fi => heights'[i] = heights[i]
    <2>1. heights = [i \in 0 .. m.n_funcs - 1 |-> heights[i]]
      BY DEF IInv
    <2> QED
      BY <1>1, <1>2, <2>1
  <1>5. \A i \in 0 .. m.n_funcs - 1 : i < fi + 1 => i = fi \/ (i < fi /\ i # fi)
    BY ONLY <1>2
  <1>6. TypeOK'
    BY <1>1, <1>2, <1>3 DEF IInv, TypeOK
  <1>7. /\ WellPlaced(m, fi) /\ ConsistentIn(m, f, height)
        /\ \A rel \in Pcs : height[rel] <= max_h
    <2>1. WorkInv /\ phase = "work" /\ work = {}
      BY <1>1 DEF IInv
    <2> QED
      BY <2>1 DEF WorkInv, ConsistentIn, Pcs
  <1>8. DoneInv'
    <2> SUFFICES ASSUME NEW i \in 0 .. m.n_funcs - 1, i < fi + 1
                 PROVE  /\ WellPlaced(m, i)
                        /\ HasCode(m.funcs[i]) =>
                              /\ heights'[i] \in [0 .. m.funcs[i].code_len - 1 -> Int]
                              /\ ConsistentIn(m, m.funcs[i], heights'[i])
      BY <1>1 DEF DoneInv
    <2>1. CASE i = fi
      BY <1>2, <1>4, <1>7, <2>1 DEF f, Pcs
    <2>2. CASE i < fi /\ i # fi
      BY <1>4, <2>2 DEF IInv, DoneInv
    <2> QED
      BY <1>5, <2>1, <2>2
  <1>9. MaxStackBounds'
    <2> SUFFICES ASSUME NEW i \in 0 .. m.n_funcs - 1,
                        i < fi + 1, HasCode(m.funcs[i]),
                        NEW rel \in 0 .. m.funcs[i].code_len - 1,
                        heights'[i][rel] >= 0
                 PROVE  NumLocals(m.funcs[i]) + heights'[i][rel] <= max_stack'[i]
      BY <1>1 DEF MaxStackBounds
    <2>1. CASE i = fi
      <3>1. rel \in Pcs /\ m.funcs[i] = f
        BY <2>1 DEF f, Pcs
      <3>2. height[rel] \in Int /\ height[rel] <= max_h
        BY <1>2, <1>7, <3>1
      <3> QED
        BY <1>2, <1>3, <1>4, <2>1, <3>1, <3>2
    <2>2. CASE i < fi /\ i # fi
      BY <1>3, <1>4, <2>2 DEF IInv, MaxStackBounds
    <2> QED
      BY <1>5, <2>1, <2>2
  <1> QED
    BY <1>1, <1>4, <1>6, <1>8, <1>9 DEF IInv, WorkInv, Forced, RejectJustified

\* Every turn of the loops of verify_cuop keeps the invariant.
LEMMA NextIInv == IInv /\ [Next]_vars => IInv'
  <1> SUFFICES ASSUME IInv, [Next]_vars PROVE IInv'
    OBVIOUS
  <1>1. CASE Accept \/ RejectFunction \/ SkipImport \/ BeginFunction
    BY <1>1, HeadPreserves
  <1>2. CASE \E rel \in work : Visit(rel)
    BY <1>2, VisitPreserves
  <1>3. CASE \E rel \in work : Reject(rel)
    BY <1>3, RejectPreserves
  <1>4. CASE EndFunction
    BY <1>4, EndPreserves
  <1>5. CASE RejectDeep
    BY <1>5, RejectDeepPreserves
  <1>6. CASE UNCHANGED vars
    <2>1. UNCHANGED <<m, phase, fi, height, work, max_h, max_stack, heights>>
      BY <1>6 DEF vars
    <2>2. TypeOK' /\ DoneInv' /\ MaxStackBounds' /\ RejectJustified'
      BY <2>1 DEF IInv, TypeOK, f, DoneInv, MaxStackBounds, RejectJustified, Verifiable
    <2>3. WorkInv' /\ Forced'
      BY <2>1 DEF IInv, WorkInv, Forced, Pcs, f
    <2> QED
      BY <2>1, <2>2, <2>3 DEF IInv
  <1> QED
    BY <1>1, <1>2, <1>3, <1>4, <1>5, <1>6 DEF Next

\* The invariant holds in every state of a verification.
LEMMA SpecIInv == Spec => []IInv
  BY InitIInv, NextIInv, PTL DEF Spec

-----------------------------------------------------------------------------
\* The state of verify_cuop is well typed for every set of modules.
THEOREM VerifyTypeOK == Spec => []TypeOK
  <1>1. IInv => TypeOK
    BY DEF IInv
  <1> QED
    BY <1>1, SpecIInv, PTL

\* A module verify_cuop accepts has consistent heights (src/verify.cpp's
\* contract, README "unique stack height at every PC"), for every module and
\* every order of the worklist.
THEOREM VerifySound == Spec => []AcceptSound
  <1>1. IInv => AcceptSound
    <2> SUFFICES ASSUME IInv, phase = "ok" PROVE HeightsConsistent(m, heights)
      BY DEF AcceptSound
    <2>1. fi = m.n_funcs /\ m.n_funcs \in Nat
      BY DEF IInv, TypeOK, ModuleShape
    <2>2. \A i \in 0 .. m.n_funcs - 1 : i < fi
      BY ONLY <2>1
    <2> QED
      BY <2>2 DEF IInv, DoneInv, HeightsConsistent
  <1> QED
    BY <1>1, SpecIInv, PTL

\* verify_cuop rejects no module that has consistent heights.
THEOREM VerifyComplete == Spec => []RejectJustified
  <1>1. IInv => RejectJustified
    BY DEF IInv
  <1> QED
    BY <1>1, SpecIInv, PTL

\* The max_stack verify_cuop writes bounds the frame at every reached pc.
THEOREM VerifyMaxStack == Spec => []MaxStackBounds
  <1>1. IInv => MaxStackBounds
    BY DEF IInv
  <1> QED
    BY <1>1, SpecIInv, PTL
=============================================================================
