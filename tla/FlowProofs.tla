----------------------------- MODULE FlowProofs -----------------------------
(***************************************************************************)
(* Heights of the code of a function, while it is being emitted.           *)
(*                                                                         *)
(* FlowOk says of a prefix of the code what ConsistentIn says of a whole   *)
(* function: each instruction has the operands it needs, and the height    *)
(* after it is the one of its successors.  A branch that waits in a label  *)
(* has the height its label will have at the end (JoinHeight), and the     *)
(* next pc has the height the lowering follows.                            *)
(*                                                                         *)
(* The lemmas: code is emitted (FlowEmit), branches are patched            *)
(* (FlowPatch), and more of the module is read (FlowGrows).                *)
(***************************************************************************)
EXTENDS Labels, TLAPS

(***************************************************************************)
(* What the lowering knows of a module while it reads bodies, as far as    *)
(* Need and NextHeight look at it: types, functions by their types, and    *)
(* the number of constants.                                                *)
(***************************************************************************)
Known(ft, ti, nh, nc) ==
    [funcs |-> [b \in 0 .. Len(ti) - 1 |-> [n_params |-> Len(ft[ti[b + 1] + 1].p),
                                            n_results |-> Len(ft[ti[b + 1] + 1].r)]],
     type_fp |-> [t \in 0 .. Len(ft) - 1 |-> [np |-> Len(ft[t + 1].p), nr |-> Len(ft[t + 1].r)]],
     n_consts |-> nc, n_types |-> Len(ft), n_funcs |-> Len(ti), n_host_imports |-> nh]

Sizes(m) == m.n_consts \in Nat /\ m.n_types \in Nat /\ m.n_funcs \in Nat /\ m.n_host_imports \in Nat

\* m2 says what m says, and perhaps more.
Grows(m, m2) ==
    /\ m.n_consts <= m2.n_consts /\ m.n_types <= m2.n_types /\ m.n_funcs <= m2.n_funcs
    /\ m.n_host_imports = m2.n_host_imports
    /\ \A b \in 0 .. m.n_funcs - 1 :
          /\ m2.funcs[b].n_params = m.funcs[b].n_params
          /\ m2.funcs[b].n_results = m.funcs[b].n_results
    /\ \A t \in 0 .. m.n_types - 1 :
          m2.type_fp[t].np = m.type_fp[t].np /\ m2.type_fp[t].nr = m.type_fp[t].nr

\* The operands of x in a function f, reached or not.
InstrOk(m, f, x) ==
    /\ x.op \in {"LOCAL_GET", "LOCAL_SET"} => x.a < NumLocals(f)
    /\ x.op = "I64_CONST" => x.b < m.n_consts
    /\ x.op \in {"CALL", "RETURN_CALL"} => x.b < m.n_funcs /\ x.b >= m.n_host_imports
    /\ x.op = "RETURN_CALL" => m.funcs[x.b].n_results = f.n_results
    /\ x.op = "CALL_INDIRECT" => x.b < m.n_types
    /\ x.op = "UNWIND" => x.b >= NumLocals(f) /\ x.a <= x.b - NumLocals(f)

\* After c, with heights v, the height at pc q is y; the pc after the last one is
\* reached if live holds, and its height is hh.
At(c, v, hh, live, q, y) ==
    IF q < Len(c) THEN v[q + 1] = y ELSE q = Len(c) /\ live /\ hh = y

\* The height with which the branch at p arrives where label l sends it.
JoinHeight(l, p) ==
    l.base + (IF l.kind = "if" /\ ~ l.has_else /\ p = l.br_if_not THEN l.np ELSE l.nr)

StepOk(m, f, c, v, hh, live, p) ==
    v[p + 1] >= 0 =>
        /\ v[p + 1] >= Need(m, f, c[p + 1])
        /\ c[p + 1].op \notin NoFall =>
              At(c, v, hh, live, p + 1, NextHeight(m, f, c[p + 1], v[p + 1]))

JumpsTo(c, v, hh, live, ct, fr, p, y) ==
    /\ \A i \in 1 .. Len(ct) : p \in Joins(ct[i]) => fr[i].reach /\ y = JoinHeight(ct[i], p)
    /\ ~ Waits(p, ct) => At(c, v, hh, live, c[p + 1].b, y)

JumpOk(m, f, c, v, hh, live, ct, fr, p) ==
    v[p + 1] >= 0 /\ Branchy(c[p + 1]) =>
        JumpsTo(c, v, hh, live, ct, fr, p, NextHeight(m, f, c[p + 1], v[p + 1]))

LoopOk(c, v, hh, live, l, fr) ==
    l.kind = "loop" /\ fr.reach => At(c, v, hh, live, l.start, l.base + l.np)

\* The heights of the function at off fit its instructions so far.
FlowOk(m, f, off, c, v, ct, fr, hh, live) ==
    /\ At(c, v, hh, live, off, 0)
    /\ \A p \in off .. Len(c) - 1 :
          /\ StepOk(m, f, c, v, hh, live, p)
          /\ JumpOk(m, f, c, v, hh, live, ct, fr, p)
    /\ \A i \in 1 .. Len(ct) : LoopOk(c, v, hh, live, ct[i], fr[i])

\* Only branches of c wait in label l.
LabelFresh(l, c) ==
    /\ \A p \in Joins(l) : p < Len(c) /\ Branchy(c[p + 1])
    /\ l.kind = "if" /\ ~ l.has_else => l.br_if_not \notin l.patches

InstrsOk(m, f, off, c) == \A p \in off .. Len(c) - 1 : InstrOk(m, f, c[p + 1])

\* Labels ct2 and frames fr2 say of the branches before pc n what ct and fr say.
Carries(ct, fr, ct2, fr2, n) ==
    /\ Len(ct) <= Len(ct2)
    /\ \A i \in 1 .. Len(ct) :
          /\ Joins(ct[i]) \subseteq Joins(ct2[i])
          /\ ct2[i].kind = ct[i].kind /\ ct2[i].start = ct[i].start
          /\ ct2[i].base = ct[i].base /\ ct2[i].np = ct[i].np
          /\ fr2[i].reach = fr[i].reach
    /\ \A i \in 1 .. Len(ct2) : \A p \in Joins(ct2[i]) :
          p < n => /\ i <= Len(ct) /\ p \in Joins(ct[i])
                   /\ JoinHeight(ct2[i], p) = JoinHeight(ct[i], p)

\* The j-th of the instructions cs, emitted after c at heights vs.
FreshOk(m, f, c, v, cs, vs, hh, live, ct, fr, j) ==
    vs[j] >= 0 =>
        /\ vs[j] >= Need(m, f, cs[j])
        /\ cs[j].op \notin NoFall =>
              IF j < Len(cs) THEN vs[j + 1] = NextHeight(m, f, cs[j], vs[j])
              ELSE live /\ hh = NextHeight(m, f, cs[j], vs[j])
        /\ Branchy(cs[j]) =>
              JumpsTo(c \o cs, v \o vs, hh, live, ct, fr, (Len(c) + j) - 1,
                      NextHeight(m, f, cs[j], vs[j]))

-----------------------------------------------------------------------------
\* Code behind code.
LEMMA JoinTypes ==
    ASSUME NEW c \in Seq(KnownOp), NEW cs \in Seq(KnownOp)
    PROVE  /\ c \o cs \in Seq(KnownOp)
           /\ Len(c \o cs) = Len(c) + Len(cs)
           /\ \A p \in 1 .. Len(c) : (c \o cs)[p] = c[p]
           /\ \A p \in 1 .. Len(cs) : (c \o cs)[Len(c) + p] = cs[p]
OBVIOUS

\* What is known of an instruction stays, as more is known.
LEMMA GrowsInstr ==
    ASSUME NEW m, NEW m2, Sizes(m), Sizes(m2), Grows(m, m2), NEW f, NEW x \in KnownOp,
           InstrOk(m, f, x)
    PROVE  /\ InstrOk(m2, f, x) /\ Need(m2, f, x) = Need(m, f, x)
           /\ \A y : NextHeight(m2, f, x, y) = NextHeight(m, f, x, y)
<1>1. x.b \in Nat
  BY Zenon DEF KnownOp
<1>2. CASE x.op \in {"CALL", "RETURN_CALL"}
  <2>1. x.b \in 0 .. m.n_funcs - 1
    BY <1>1, <1>2 DEF InstrOk, Sizes
  <2>2. /\ m2.funcs[x.b].n_params = m.funcs[x.b].n_params
        /\ m2.funcs[x.b].n_results = m.funcs[x.b].n_results
    BY Zenon, <2>1 DEF Grows
  <2>3. InstrOk(m2, f, x)
    BY <1>1, <1>2, <2>2 DEF InstrOk, Sizes, Grows
  <2>4. Need(m2, f, x) = Need(m, f, x)
    BY Zenon, <1>2, <2>2 DEF Need, PopOne
  <2>5. \A y : NextHeight(m2, f, x, y) = NextHeight(m, f, x, y)
    BY Zenon, <1>2, <2>2 DEF NextHeight, PushOne, LoseOne, Bulk
  <2> QED
    BY Zenon, <2>3, <2>4, <2>5
<1>3. CASE x.op = "CALL_INDIRECT"
  <2>1. x.b \in 0 .. m.n_types - 1
    BY <1>1, <1>3 DEF InstrOk, Sizes
  <2>2. m2.type_fp[x.b].np = m.type_fp[x.b].np /\ m2.type_fp[x.b].nr = m.type_fp[x.b].nr
    BY Zenon, <2>1 DEF Grows
  <2>3. InstrOk(m2, f, x)
    BY <1>1, <1>3 DEF InstrOk, Sizes, Grows
  <2>4. Need(m2, f, x) = Need(m, f, x)
    BY Zenon, <1>3, <2>2 DEF Need, PopOne, Returns
  <2>5. \A y : NextHeight(m2, f, x, y) = NextHeight(m, f, x, y)
    BY Zenon, <1>3, <2>2 DEF NextHeight, PushOne, LoseOne, Bulk
  <2> QED
    BY Zenon, <2>3, <2>4, <2>5
<1>4. CASE x.op \notin {"CALL", "RETURN_CALL", "CALL_INDIRECT"}
  <2>1. InstrOk(m2, f, x)
    BY <1>1, <1>4 DEF InstrOk, Sizes, Grows
  <2>2. Need(m2, f, x) = Need(m, f, x)
    BY Zenon, <1>4 DEF Need
  <2>3. \A y : NextHeight(m2, f, x, y) = NextHeight(m, f, x, y)
    BY Zenon, <1>4 DEF NextHeight
  <2> QED
    BY Zenon, <2>1, <2>2, <2>3
<1> QED
  BY Zenon, <1>2, <1>3, <1>4

\* A height once known at a pc is kept when code is emitted at the height of the pc.
LEMMA AtKept ==
    ASSUME NEW c \in Seq(KnownOp), NEW cs \in Seq(KnownOp), NEW v \in Seq(Int), NEW vs \in Seq(Int),
           Len(v) = Len(c), Len(vs) = Len(cs),
           NEW hh, NEW live, NEW hh2, NEW live2,
           live => IF cs # <<>> THEN vs[1] = hh ELSE live2 /\ hh2 = hh,
           NEW q \in Nat, NEW y, At(c, v, hh, live, q, y)
    PROVE  At(c \o cs, v \o vs, hh2, live2, q, y)
<1>1. /\ Len(c \o cs) = Len(c) + Len(cs) /\ Len(c) \in Nat /\ Len(cs) \in Nat
      /\ \A p \in 1 .. Len(v) : (v \o vs)[p] = v[p]
      /\ \A p \in 1 .. Len(vs) : (v \o vs)[Len(v) + p] = vs[p]
  OBVIOUS
<1>2. CASE q < Len(c)
  <2>1. q + 1 \in 1 .. Len(v) /\ q < Len(c) + Len(cs)
    BY <1>1, <1>2
  <2>2. (v \o vs)[q + 1] = y
    BY Zenon, <1>1, <1>2, <2>1 DEF At
  <2> QED
    BY Zenon, <1>1, <2>1, <2>2 DEF At
<1>3. CASE ~ q < Len(c)
  <2>1. q = Len(c) /\ live /\ hh = y
    BY Zenon, <1>3 DEF At
  <2>2. CASE cs # <<>>
    <3>1. 1 \in 1 .. Len(vs) /\ q < Len(c) + Len(cs)
      BY <1>1, <2>1, <2>2
    <3>2. (v \o vs)[q + 1] = vs[1]
      BY Zenon, <1>1, <2>1, <3>1
    <3>3. vs[1] = y
      BY Zenon, <2>1, <2>2
    <3> QED
      BY Zenon, <1>1, <3>1, <3>2, <3>3 DEF At
  <2>3. CASE cs = <<>>
    <3>1. Len(cs) = 0
      BY Zenon, <2>3
    <3>2. live2 /\ hh2 = y
      BY Zenon, <2>1, <2>3
    <3> QED
      BY <1>1, <2>1, <3>1, <3>2 DEF At
  <2> QED
    BY Zenon, <2>2, <2>3
<1> QED
  BY Zenon, <1>2, <1>3

\* Code is emitted: what was consistent stays so if the new instructions are.
LEMMA FlowEmit ==
    ASSUME NEW c \in Seq(KnownOp), NEW cs \in Seq(KnownOp), NEW v \in Seq(Int), NEW vs \in Seq(Int),
           Len(v) = Len(c), Len(vs) = Len(cs), NEW off \in Nat, NEW m, NEW f,
           NEW ct \in Seq(Label), NEW ct2 \in Seq(Label), NEW fr, NEW fr2,
           NEW hh, NEW live, NEW hh2, NEW live2,
           FlowOk(m, f, off, c, v, ct, fr, hh, live), Carries(ct, fr, ct2, fr2, Len(c)),
           live => IF cs # <<>> THEN vs[1] = hh ELSE live2 /\ hh2 = hh,
           \A j \in 1 .. Len(cs) : FreshOk(m, f, c, v, cs, vs, hh2, live2, ct2, fr2, j),
           \A i \in 1 .. Len(ct2) :
               i > Len(ct) => LoopOk(c \o cs, v \o vs, hh2, live2, ct2[i], fr2[i])
    PROVE  FlowOk(m, f, off, c \o cs, v \o vs, ct2, fr2, hh2, live2)
<1> DEFINE d == c \o cs
           w == v \o vs
<1>1. /\ d \in Seq(KnownOp) /\ Len(d) = Len(c) + Len(cs) /\ Len(c) \in Nat /\ Len(cs) \in Nat
      /\ \A p \in 1 .. Len(c) : d[p] = c[p]
      /\ \A p \in 1 .. Len(cs) : d[Len(c) + p] = cs[p]
  BY JoinTypes
<1>2. /\ \A p \in 1 .. Len(c) : w[p] = v[p]
      /\ \A p \in 1 .. Len(cs) : w[Len(c) + p] = vs[p]
  BY ONLY v \in Seq(Int), vs \in Seq(Int), Len(v) = Len(c), Len(vs) = Len(cs)
<1>k. ASSUME NEW q \in Nat, NEW y, At(c, v, hh, live, q, y) PROVE At(d, w, hh2, live2, q, y)
  BY Zenon, <1>k, AtKept
<1> HIDE DEF d, w
<1>3. At(d, w, hh2, live2, off, 0)
  BY Zenon, <1>k DEF FlowOk
<1>4. ASSUME NEW p \in off .. Len(d) - 1, p < Len(c)
      PROVE  StepOk(m, f, d, w, hh2, live2, p) /\ JumpOk(m, f, d, w, hh2, live2, ct2, fr2, p)
  <2>1. p \in off .. Len(c) - 1 /\ p + 1 \in 1 .. Len(c) /\ p + 1 \in Nat
    BY <1>1, <1>4
  <2>2. d[p + 1] = c[p + 1] /\ w[p + 1] = v[p + 1]
    BY Zenon, <1>1, <1>2, <2>1
  <2>3. StepOk(m, f, c, v, hh, live, p) /\ JumpOk(m, f, c, v, hh, live, ct, fr, p)
    BY Zenon, <2>1 DEF FlowOk
  <2>4. StepOk(m, f, d, w, hh2, live2, p)
    BY Zenon, <1>k, <2>1, <2>2, <2>3 DEF StepOk
  <2>5. c[p + 1] \in KnownOp /\ c[p + 1].b \in Nat
    <3>1. c[p + 1] \in KnownOp
      BY <2>1
    <3> QED
      BY Zenon, <3>1 DEF KnownOp
  <2>6. ASSUME NEW y, JumpsTo(c, v, hh, live, ct, fr, p, y)
        PROVE  JumpsTo(d, w, hh2, live2, ct2, fr2, p, y)
    <3>1. ASSUME NEW i \in 1 .. Len(ct2), p \in Joins(ct2[i])
          PROVE  fr2[i].reach /\ y = JoinHeight(ct2[i], p)
      <4>1. i <= Len(ct) /\ p \in Joins(ct[i]) /\ JoinHeight(ct2[i], p) = JoinHeight(ct[i], p)
        BY Zenon, <1>4, <3>1 DEF Carries
      <4>2. i \in 1 .. Len(ct)
        BY <4>1
      <4>3. fr[i].reach /\ y = JoinHeight(ct[i], p)
        BY Zenon, <2>6, <4>1, <4>2 DEF JumpsTo
      <4>4. fr2[i].reach = fr[i].reach
        BY Zenon, <4>2 DEF Carries
      <4> QED
        BY Zenon, <4>1, <4>3, <4>4
    <3>2. ASSUME ~ Waits(p, ct2) PROVE At(d, w, hh2, live2, d[p + 1].b, y)
      <4>1. ~ Waits(p, ct)
        <5>0. Len(ct) \in Nat /\ Len(ct2) \in Nat /\ Len(ct) <= Len(ct2)
          BY DEF Carries
        <5>1. \A i \in 1 .. Len(ct) : i \in 1 .. Len(ct2)
          BY <5>0
        <5>2. \A i \in 1 .. Len(ct) : Joins(ct[i]) \subseteq Joins(ct2[i])
          BY Zenon DEF Carries
        <5> QED
          BY Zenon, <3>2, <5>1, <5>2 DEF Waits
      <4>2. At(c, v, hh, live, c[p + 1].b, y)
        BY Zenon, <2>6, <4>1 DEF JumpsTo
      <4> QED
        BY Zenon, <1>k, <2>2, <2>5, <4>2
    <3> QED
      BY Zenon, <3>1, <3>2 DEF JumpsTo
  <2>7. JumpOk(m, f, d, w, hh2, live2, ct2, fr2, p)
    BY Zenon, <2>2, <2>3, <2>6 DEF JumpOk
  <2> QED
    BY Zenon, <2>4, <2>7
<1>5. ASSUME NEW p \in off .. Len(d) - 1, ~ p < Len(c)
      PROVE  StepOk(m, f, d, w, hh2, live2, p) /\ JumpOk(m, f, d, w, hh2, live2, ct2, fr2, p)
  <2> DEFINE j == (p - Len(c)) + 1
  <2>1. j \in 1 .. Len(cs) /\ p + 1 = Len(c) + j /\ p = (Len(c) + j) - 1 /\ p \in Nat
    BY <1>1, <1>5
  <2> HIDE DEF j
  <2>2. d[p + 1] = cs[j] /\ w[p + 1] = vs[j]
    BY Zenon, <1>1, <1>2, <2>1
  <2>3. FreshOk(m, f, c, v, cs, vs, hh2, live2, ct2, fr2, j)
    BY Zenon, <2>1
  <2>4. ASSUME NEW y, IF j < Len(cs) THEN vs[j + 1] = y ELSE live2 /\ hh2 = y
        PROVE  At(d, w, hh2, live2, p + 1, y)
    <3>1. CASE j < Len(cs)
      <4>1. j + 1 \in 1 .. Len(cs) /\ p + 1 < Len(d) /\ (p + 1) + 1 = Len(c) + (j + 1)
        BY <1>1, <2>1, <3>1
      <4>2. w[(p + 1) + 1] = vs[j + 1]
        BY ONLY <1>2, <4>1
      <4> QED
        BY Zenon, <2>4, <3>1, <4>1, <4>2 DEF At
    <3>2. CASE ~ j < Len(cs)
      <4>0. j = Len(cs)
        BY <1>1, <2>1, <3>2
      <4>1. p + 1 = Len(d)
        BY Zenon, <1>1, <2>1, <4>0
      <4> QED
        BY <1>1, <2>4, <3>2, <4>1 DEF At
    <3> QED
      BY Zenon, <3>1, <3>2
  <2>5. StepOk(m, f, d, w, hh2, live2, p)
    BY Zenon, <2>2, <2>3, <2>4 DEF FreshOk, StepOk
  <2>6. JumpOk(m, f, d, w, hh2, live2, ct2, fr2, p)
    BY Zenon, <2>1, <2>2, <2>3 DEF FreshOk, JumpOk, d, w
  <2> QED
    BY Zenon, <2>5, <2>6
<1>6. ASSUME NEW i \in 1 .. Len(ct2) PROVE LoopOk(d, w, hh2, live2, ct2[i], fr2[i])
  <2>1. CASE i > Len(ct)
    BY Zenon, <2>1 DEF d, w
  <2>2. CASE ~ i > Len(ct)
    <3>1. i \in 1 .. Len(ct)
      BY <2>2
    <3>2. /\ ct2[i].kind = ct[i].kind /\ ct2[i].start = ct[i].start
          /\ ct2[i].base = ct[i].base /\ ct2[i].np = ct[i].np /\ fr2[i].reach = fr[i].reach
      BY Zenon, <3>1 DEF Carries
    <3>3. LoopOk(c, v, hh, live, ct[i], fr[i])
      BY Zenon, <3>1 DEF FlowOk
    <3>4. ct[i].start \in Nat
      <4>1. ct[i] \in Label
        BY <3>1
      <4> QED
        BY Zenon, <4>1 DEF Label
    <3> QED
      BY Zenon, <1>k, <3>2, <3>3, <3>4 DEF LoopOk
  <2> QED
    BY Zenon, <2>1, <2>2
<1>7. FlowOk(m, f, off, d, w, ct2, fr2, hh2, live2)
  BY Zenon, <1>3, <1>4, <1>5, <1>6 DEF FlowOk
<1> QED
  BY Zenon, <1>7 DEF d, w

\* More is known of the module.
LEMMA FlowGrows ==
    ASSUME NEW c \in Seq(KnownOp), NEW v, NEW off \in Nat, NEW m, NEW m2, NEW f,
           Sizes(m), Sizes(m2), Grows(m, m2), InstrsOk(m, f, off, c)
    PROVE  /\ InstrsOk(m2, f, off, c)
           /\ \A ct, fr, hh, live : FlowOk(m, f, off, c, v, ct, fr, hh, live) =>
                                       FlowOk(m2, f, off, c, v, ct, fr, hh, live)
<1>1. ASSUME NEW p \in off .. Len(c) - 1
      PROVE  /\ InstrOk(m2, f, c[p + 1]) /\ Need(m2, f, c[p + 1]) = Need(m, f, c[p + 1])
             /\ \A y : NextHeight(m2, f, c[p + 1], y) = NextHeight(m, f, c[p + 1], y)
  <2>1. c[p + 1] \in KnownOp
    OBVIOUS
  <2>2. InstrOk(m, f, c[p + 1])
    BY Zenon DEF InstrsOk
  <2> QED
    BY <2>1, <2>2, GrowsInstr
<1>2. ASSUME NEW ct, NEW fr, NEW hh, NEW live, FlowOk(m, f, off, c, v, ct, fr, hh, live)
      PROVE  FlowOk(m2, f, off, c, v, ct, fr, hh, live)
  <2>1. ASSUME NEW p \in off .. Len(c) - 1
        PROVE  StepOk(m2, f, c, v, hh, live, p) /\ JumpOk(m2, f, c, v, hh, live, ct, fr, p)
    <3>1. StepOk(m, f, c, v, hh, live, p) /\ JumpOk(m, f, c, v, hh, live, ct, fr, p)
      BY Zenon, <1>2 DEF FlowOk
    <3> QED
      BY Zenon, <1>1, <3>1 DEF StepOk, JumpOk
  <2> QED
    BY Zenon, <1>2, <2>1 DEF FlowOk
<1> QED
  BY Zenon, <1>1, <1>2 DEF InstrsOk

\* Where a branch goes does not matter for heights.
LEMMA BranchHeights ==
    ASSUME NEW x, NEW x2, Branchy(x), x2.op = x.op, NEW m, NEW f
    PROVE  /\ InstrOk(m, f, x) /\ Need(m, f, x2) = Need(m, f, x)
           /\ \A y : NextHeight(m, f, x2, y) = NextHeight(m, f, x, y)
<1>1. x.op \in {"BR", "BR_IF_NOT"} /\ x2.op \in {"BR", "BR_IF_NOT"}
  BY Zenon DEF Branchy
<1>2. InstrOk(m, f, x)
  BY Zenon, <1>1 DEF InstrOk
<1>3. Need(m, f, x2) = Need(m, f, x)
  BY Zenon, <1>1 DEF Need, PopOne, Returns
<1>4. \A y : NextHeight(m, f, x2, y) = NextHeight(m, f, x, y)
  BY Zenon, <1>1 DEF NextHeight, PushOne, LoseOne, Bulk
<1> QED
  BY Zenon, <1>2, <1>3, <1>4

\* c2 is c with the branches at ps going to the next pc.
Patched(c, c2, ps) ==
    /\ Len(c2) = Len(c)
    /\ \A p \in 0 .. Len(c) - 1 :
          /\ p \notin ps => c2[p + 1] = c[p + 1]
          /\ p \in ps => c2[p + 1].op = c[p + 1].op /\ c2[p + 1].b = Len(c) /\ Branchy(c[p + 1])

\* Labels ct2 and frames fr2 are left when the branches at ps no longer wait.
Releases(ct, fr, ct2, fr2, ps) ==
    /\ Len(ct2) <= Len(ct)
    /\ \A p \in Nat : p \notin ps /\ Waits(p, ct) => Waits(p, ct2)
    /\ \A i \in 1 .. Len(ct2) :
          /\ ct2[i].kind = ct[i].kind /\ ct2[i].start = ct[i].start
          /\ ct2[i].base = ct[i].base /\ ct2[i].np = ct[i].np
          /\ fr2[i].reach = fr[i].reach
          /\ \A p \in Joins(ct2[i]) :
                p \in Joins(ct[i]) /\ JoinHeight(ct2[i], p) = JoinHeight(ct[i], p)

\* Whatever waits at a branch of ps at height y finds the flow at that height.
Settles(ct, fr, ps, hh2, live2) ==
    \A p \in ps : \A y :
       (\A i \in 1 .. Len(ct) : p \in Joins(ct[i]) => fr[i].reach /\ y = JoinHeight(ct[i], p))
       => live2 /\ hh2 = y

\* Branches that waited are patched to come here, with the height that is assumed here.
LEMMA FlowPatch ==
    ASSUME NEW c \in Seq(KnownOp), NEW c2 \in Seq(KnownOp), NEW v, NEW ps, Patched(c, c2, ps),
           NEW off \in Nat, NEW m, NEW f,
           NEW ct \in Seq(Label), NEW ct2 \in Seq(Label), NEW fr, NEW fr2,
           NEW hh, NEW live, NEW hh2, NEW live2,
           FlowOk(m, f, off, c, v, ct, fr, hh, live), Releases(ct, fr, ct2, fr2, ps),
           live => live2 /\ hh2 = hh, Settles(ct, fr, ps, hh2, live2)
    PROVE  FlowOk(m, f, off, c2, v, ct2, fr2, hh2, live2)
<1>1. Len(c2) = Len(c) /\ Len(c) \in Nat /\ Len(ct) \in Nat /\ Len(ct2) \in Nat
  BY DEF Patched
<1>k. ASSUME NEW q, NEW y, At(c, v, hh, live, q, y) PROVE At(c2, v, hh2, live2, q, y)
  BY Zenon, <1>1, <1>k DEF At
<1>2. ASSUME NEW p \in off .. Len(c2) - 1
      PROVE  StepOk(m, f, c2, v, hh2, live2, p) /\ JumpOk(m, f, c2, v, hh2, live2, ct2, fr2, p)
  <2>1. p \in off .. Len(c) - 1 /\ p \in 0 .. Len(c) - 1 /\ p \in Nat
    BY <1>1
  <2>2. StepOk(m, f, c, v, hh, live, p) /\ JumpOk(m, f, c, v, hh, live, ct, fr, p)
    BY Zenon, <2>1 DEF FlowOk
  <2>3. /\ c2[p + 1].op = c[p + 1].op /\ (Branchy(c2[p + 1]) <=> Branchy(c[p + 1]))
        /\ Need(m, f, c2[p + 1]) = Need(m, f, c[p + 1])
        /\ \A y : NextHeight(m, f, c2[p + 1], y) = NextHeight(m, f, c[p + 1], y)
    <3>1. CASE p \in ps
      <4>1. c2[p + 1].op = c[p + 1].op /\ Branchy(c[p + 1])
        BY Zenon, <2>1, <3>1 DEF Patched
      <4>2. Branchy(c2[p + 1])
        BY Zenon, <4>1 DEF Branchy
      <4> DEFINE x == c[p + 1]
                 x2 == c2[p + 1]
      <4> HIDE DEF x, x2
      <4>3. x2.op = x.op /\ Branchy(x)
        BY Zenon, <4>1 DEF x, x2
      <4>4. /\ Need(m, f, x2) = Need(m, f, x)
            /\ \A y : NextHeight(m, f, x2, y) = NextHeight(m, f, x, y)
        BY ONLY <4>3, BranchHeights
      <4> QED
        BY Zenon, <4>1, <4>2, <4>4 DEF x, x2
    <3>2. CASE p \notin ps
      <4>1. c2[p + 1] = c[p + 1]
        BY Zenon, <2>1, <3>2 DEF Patched
      <4> QED
        BY Zenon, <4>1
    <3> QED
      BY Zenon, <3>1, <3>2
  <2>4. StepOk(m, f, c2, v, hh2, live2, p)
    BY Zenon, <1>k, <2>2, <2>3 DEF StepOk
  <2>5. ASSUME NEW y, JumpsTo(c, v, hh, live, ct, fr, p, y)
        PROVE  JumpsTo(c2, v, hh2, live2, ct2, fr2, p, y)
    <3>0. \A i \in 1 .. Len(ct) : p \in Joins(ct[i]) => fr[i].reach /\ y = JoinHeight(ct[i], p)
      BY Zenon, <2>5 DEF JumpsTo
    <3>1. ASSUME NEW i \in 1 .. Len(ct2), p \in Joins(ct2[i])
          PROVE  fr2[i].reach /\ y = JoinHeight(ct2[i], p)
      <4>1. /\ p \in Joins(ct[i]) /\ JoinHeight(ct2[i], p) = JoinHeight(ct[i], p)
            /\ fr2[i].reach = fr[i].reach
        BY Zenon, <3>1 DEF Releases
      <4>2. Len(ct2) <= Len(ct)
        BY Zenon DEF Releases
      <4>3. i \in 1 .. Len(ct)
        BY <1>1, <4>2
      <4> QED
        BY Zenon, <3>0, <4>1, <4>3
    <3>2. ASSUME ~ Waits(p, ct2) PROVE At(c2, v, hh2, live2, c2[p + 1].b, y)
      <4>1. CASE p \in ps
        <5>1. c2[p + 1].b = Len(c)
          BY Zenon, <2>1, <4>1 DEF Patched
        <5>2. live2 /\ hh2 = y
          BY ONLY Zenon, <3>0, <4>1, Settles(ct, fr, ps, hh2, live2) DEF Settles
        <5> QED
          BY <1>1, <5>1, <5>2 DEF At
      <4>2. CASE p \notin ps
        <5>1. c2[p + 1] = c[p + 1]
          BY Zenon, <2>1, <4>2 DEF Patched
        <5>2. ~ Waits(p, ct)
          BY Zenon, <2>1, <3>2, <4>2 DEF Releases
        <5>3. At(c, v, hh, live, c[p + 1].b, y)
          BY Zenon, <2>5, <5>2 DEF JumpsTo
        <5> QED
          BY Zenon, <1>k, <5>1, <5>3
      <4> QED
        BY Zenon, <4>1, <4>2
    <3> QED
      BY Zenon, <3>1, <3>2 DEF JumpsTo
  <2>6. JumpOk(m, f, c2, v, hh2, live2, ct2, fr2, p)
    BY Zenon, <2>2, <2>3, <2>5 DEF JumpOk
  <2> QED
    BY Zenon, <2>4, <2>6
<1>3. ASSUME NEW i \in 1 .. Len(ct2) PROVE LoopOk(c2, v, hh2, live2, ct2[i], fr2[i])
  <2>1. /\ ct2[i].kind = ct[i].kind /\ ct2[i].start = ct[i].start
        /\ ct2[i].base = ct[i].base /\ ct2[i].np = ct[i].np /\ fr2[i].reach = fr[i].reach
    BY Zenon DEF Releases
  <2>0. Len(ct2) <= Len(ct)
    BY Zenon DEF Releases
  <2>2. i \in 1 .. Len(ct)
    BY <1>1, <2>0
  <2>3. LoopOk(c, v, hh, live, ct[i], fr[i])
    BY Zenon, <2>2 DEF FlowOk
  <2> QED
    BY Zenon, <1>k, <2>1, <2>3 DEF LoopOk
<1>4. At(c2, v, hh2, live2, off, 0)
  BY Zenon, <1>k DEF FlowOk
<1> QED
  BY Zenon, <1>2, <1>3, <1>4 DEF FlowOk

\* The same for what is said of instructions reached or not.
LEMMA InstrsPatch ==
    ASSUME NEW c \in Seq(KnownOp), NEW c2, NEW ps, Patched(c, c2, ps), NEW off \in Nat,
           NEW m, NEW f, InstrsOk(m, f, off, c)
    PROVE  InstrsOk(m, f, off, c2)
<1> SUFFICES ASSUME NEW p \in off .. Len(c2) - 1 PROVE InstrOk(m, f, c2[p + 1])
  BY Zenon DEF InstrsOk
<1>1. p \in 0 .. Len(c) - 1 /\ p \in off .. Len(c) - 1
  BY DEF Patched
<1>2. CASE p \in ps
  <2>1. Branchy(c2[p + 1])
    BY Zenon, <1>1, <1>2 DEF Patched, Branchy
  <2> QED
    BY Zenon, <2>1, BranchHeights
<1>3. CASE p \notin ps
  BY Zenon, <1>1, <1>3 DEF Patched, InstrsOk
<1> QED
  BY Zenon, <1>2, <1>3

\* Emitted instructions have operands in range.
LEMMA InstrsEmit ==
    ASSUME NEW c \in Seq(KnownOp), NEW cs \in Seq(KnownOp), NEW off \in Nat, NEW m, NEW f,
           InstrsOk(m, f, off, c), \A j \in 1 .. Len(cs) : InstrOk(m, f, cs[j])
    PROVE  InstrsOk(m, f, off, c \o cs)
<1> SUFFICES ASSUME NEW p \in off .. Len(c \o cs) - 1 PROVE InstrOk(m, f, (c \o cs)[p + 1])
  BY Zenon DEF InstrsOk
<1>1. /\ Len(c \o cs) = Len(c) + Len(cs) /\ Len(c) \in Nat /\ Len(cs) \in Nat
      /\ \A q \in 1 .. Len(c) : (c \o cs)[q] = c[q]
      /\ \A q \in 1 .. Len(cs) : (c \o cs)[Len(c) + q] = cs[q]
  BY JoinTypes
<1>2. CASE p < Len(c)
  <2>1. p \in off .. Len(c) - 1 /\ p + 1 \in 1 .. Len(c)
    BY <1>1, <1>2
  <2> QED
    BY Zenon, <1>1, <2>1 DEF InstrsOk
<1>3. CASE ~ p < Len(c)
  <2> DEFINE j == (p - Len(c)) + 1
  <2>1. j \in 1 .. Len(cs) /\ p + 1 = Len(c) + j
    BY <1>1, <1>3
  <2> HIDE DEF j
  <2> QED
    BY Zenon, <1>1, <2>1
<1> QED
  BY Zenon, <1>2, <1>3

\* Labels keep waiting for branches when code is emitted.
LEMMA FreshEmit ==
    ASSUME NEW c \in Seq(KnownOp), NEW cs \in Seq(KnownOp), NEW l, LabelFresh(l, c),
           \A p \in Joins(l) : p \in Nat
    PROVE  LabelFresh(l, c \o cs)
<1>1. /\ Len(c \o cs) = Len(c) + Len(cs) /\ Len(c) \in Nat /\ Len(cs) \in Nat
      /\ \A q \in 1 .. Len(c) : (c \o cs)[q] = c[q]
  BY JoinTypes
<1>2. ASSUME NEW p \in Joins(l) PROVE p < Len(c \o cs) /\ Branchy((c \o cs)[p + 1])
  <2>1. p \in Nat /\ p < Len(c) /\ Branchy(c[p + 1])
    BY Zenon DEF LabelFresh
  <2>2. p + 1 \in 1 .. Len(c) /\ p < Len(c \o cs)
    BY <1>1, <2>1
  <2> QED
    BY Zenon, <1>1, <2>1, <2>2
<1> QED
  BY Zenon, <1>2 DEF LabelFresh

-----------------------------------------------------------------------------
\* The instruction at p of a finished function, if it is reached.
RunsOk(m, f, c, v, p) ==
    v[p + 1] >= 0 =>
        /\ v[p + 1] >= Need(m, f, c[p + 1])
        /\ c[p + 1].op \notin NoFall =>
              p + 1 < EndOf(f) /\ v[(p + 1) + 1] = NextHeight(m, f, c[p + 1], v[p + 1])
        /\ Branchy(c[p + 1]) =>
              /\ c[p + 1].b < EndOf(f)
              /\ v[c[p + 1].b + 1] = NextHeight(m, f, c[p + 1], v[p + 1])

\* A finished function; its heights are good if types are small, as CALL_HOST packs
\* arities into bytes.
GoodFunc(m, f, c, v, small) ==
    HasCode(f) =>
        /\ c[EndOf(f)].op \in Returns
        /\ NumLocals(f) <= 65535
        /\ small => v[f.code_off + 1] = 0
        /\ \A p \in f.code_off .. EndOf(f) - 1 :
              InstrOk(m, f, c[p + 1]) /\ (small => RunsOk(m, f, c, v, p))

\* A finished function stays good: later code comes after it.
LEMMA GoodKept ==
    ASSUME NEW f \in MetaType, NEW c \in Seq(KnownOp), NEW c2, NEW v, NEW v2, NEW n \in Nat,
           n <= Len(c), EndOf(f) <= n, \A q \in 1 .. n : c2[q] = c[q] /\ v2[q] = v[q],
           NEW m, NEW m2, Sizes(m), Sizes(m2), Grows(m, m2), NEW small, NEW small2, small2 => small,
           GoodFunc(m, f, c, v, small)
    PROVE  GoodFunc(m2, f, c2, v2, small2)
<1>1. f.code_off \in Nat /\ f.code_len \in Int /\ EndOf(f) \in Int /\ Len(c) \in Nat
  BY DEF MetaType, EndOf
<1> SUFFICES ASSUME HasCode(f) PROVE GoodFunc(m2, f, c2, v2, small2)
  BY DEF GoodFunc
<1>2. f.code_off + 1 \in 1 .. n /\ EndOf(f) \in 1 .. n
  BY <1>1 DEF HasCode, EndOf
<1>3. ASSUME NEW p \in f.code_off .. EndOf(f) - 1
      PROVE  InstrOk(m2, f, c2[p + 1]) /\ (small2 => RunsOk(m2, f, c2, v2, p))
  <2>1. p \in Nat /\ p + 1 \in 1 .. n /\ p + 1 \in 1 .. Len(c)
    BY <1>1
  <2>2. c2[p + 1] = c[p + 1] /\ v2[p + 1] = v[p + 1]
    BY Zenon, <2>1
  <2>3. c[p + 1] \in KnownOp /\ c[p + 1].b \in Nat
    <3>1. c[p + 1] \in KnownOp
      BY <2>1
    <3> QED
      BY Zenon, <3>1 DEF KnownOp
  <2>4. InstrOk(m, f, c[p + 1]) /\ (small => RunsOk(m, f, c, v, p))
    BY DEF GoodFunc
  <2>5. /\ InstrOk(m2, f, c[p + 1]) /\ Need(m2, f, c[p + 1]) = Need(m, f, c[p + 1])
        /\ \A y : NextHeight(m2, f, c[p + 1], y) = NextHeight(m, f, c[p + 1], y)
    BY <2>3, <2>4, GrowsInstr
  <2>6. ASSUME small2, v2[p + 1] >= 0
        PROVE  /\ v2[p + 1] >= Need(m2, f, c2[p + 1])
               /\ c2[p + 1].op \notin NoFall =>
                     /\ p + 1 < EndOf(f)
                     /\ v2[(p + 1) + 1] = NextHeight(m2, f, c2[p + 1], v2[p + 1])
               /\ Branchy(c2[p + 1]) =>
                     /\ c2[p + 1].b < EndOf(f)
                     /\ v2[c2[p + 1].b + 1] = NextHeight(m2, f, c2[p + 1], v2[p + 1])
    <3>1. /\ v[p + 1] >= Need(m, f, c[p + 1])
          /\ c[p + 1].op \notin NoFall =>
                p + 1 < EndOf(f) /\ v[(p + 1) + 1] = NextHeight(m, f, c[p + 1], v[p + 1])
          /\ Branchy(c[p + 1]) =>
                /\ c[p + 1].b < EndOf(f)
                /\ v[c[p + 1].b + 1] = NextHeight(m, f, c[p + 1], v[p + 1])
      BY Zenon, <2>2, <2>4, <2>6 DEF RunsOk
    <3>2. ASSUME NEW q \in Nat, q < EndOf(f) PROVE v2[q + 1] = v[q + 1]
      <4>1. q + 1 \in 1 .. n
        BY <1>1, <3>2
      <4> QED
        BY Zenon, <4>1
    <3>3. p + 1 \in Nat
      BY <2>1
    <3> QED
      BY Zenon, <2>2, <2>3, <2>5, <3>1, <3>2, <3>3
  <2> QED
    BY Zenon, <2>2, <2>5, <2>6 DEF RunsOk
<1> QED
  BY <1>2, <1>3 DEF GoodFunc

\* f is the function g, once its code is all of c that comes last.
Finishes(f, g, c) ==
    /\ EndOf(f) = Len(c) /\ Len(c) > f.code_off /\ c[Len(c)].op \in Returns
    /\ NumLocals(f) <= 65535
    /\ f.n_params = g.n_params /\ f.n_locals = g.n_locals /\ f.n_results = g.n_results

\* When its last block is closed, the function in work is a good function.
LEMMA GoodDone ==
    ASSUME NEW f \in MetaType, NEW g, NEW c \in Seq(KnownOp), NEW v, NEW m, NEW fr, NEW hh, NEW small,
           NEW live, ~ live, NEW ct, ct = <<>>, Finishes(f, g, c),
           InstrsOk(m, g, f.code_off, c),
           small => FlowOk(m, g, f.code_off, c, v, ct, fr, hh, live)
    PROVE  GoodFunc(m, f, c, v, small)
<1>f. /\ EndOf(f) = Len(c) /\ Len(c) > f.code_off /\ c[Len(c)].op \in Returns
      /\ NumLocals(f) <= 65535
      /\ f.n_params = g.n_params /\ f.n_locals = g.n_locals /\ f.n_results = g.n_results
  BY DEF Finishes
<1> USE <1>f
<1>1. f.code_off \in Nat /\ Len(c) \in Nat
  BY DEF MetaType
<1>k. ASSUME NEW q, NEW y, At(c, v, hh, live, q, y) PROVE q < Len(c) /\ v[q + 1] = y
  BY <1>k DEF At
<1>2. ASSUME NEW p \in f.code_off .. EndOf(f) - 1
      PROVE  InstrOk(m, f, c[p + 1]) /\ (small => RunsOk(m, f, c, v, p))
  <2>1. p \in f.code_off .. Len(c) - 1
    OBVIOUS
  <2> DEFINE x == c[p + 1]
             y == v[p + 1]
  <2> HIDE DEF x
  <2>a. NumLocals(f) = NumLocals(g)
    BY DEF NumLocals
  <2>b. InstrOk(m, g, x) => InstrOk(m, f, x)
    BY <2>a DEF InstrOk
  <2>c. Need(m, f, x) = Need(m, g, x)
    BY <2>a DEF Need
  <2>d. \A z : NextHeight(m, f, x, z) = NextHeight(m, g, x, z)
    BY <2>a DEF NextHeight
  <2>2. /\ InstrOk(m, g, x) => InstrOk(m, f, x)
        /\ Need(m, f, x) = Need(m, g, x)
        /\ \A z : NextHeight(m, f, x, z) = NextHeight(m, g, x, z)
    BY <2>b, <2>c, <2>d
  <2>3. InstrOk(m, f, x)
    BY <2>1, <2>2 DEF InstrsOk, x
  <2>4. ASSUME small PROVE RunsOk(m, f, c, v, p)
    <3>1. StepOk(m, g, c, v, hh, live, p) /\ JumpOk(m, g, c, v, hh, live, ct, fr, p)
      BY <2>1, <2>4 DEF FlowOk
    <3>2. ~ Waits(p, ct)
      BY DEF Waits
    <3>3. y >= 0 /\ Branchy(x) => At(c, v, hh, live, x.b, NextHeight(m, g, x, y))
      BY <3>1, <3>2 DEF JumpOk, JumpsTo, x
    <3>4. y >= 0 => y >= Need(m, g, x)
      BY <3>1 DEF StepOk, x
    <3>5. y >= 0 /\ x.op \notin NoFall => At(c, v, hh, live, p + 1, NextHeight(m, g, x, y))
      BY <3>1 DEF StepOk, x
    <3>6. y >= 0 /\ Branchy(x) => x.b < Len(c) /\ v[x.b + 1] = NextHeight(m, f, x, y)
      BY <1>k, <2>2, <3>3
    <3>7. y >= 0 /\ x.op \notin NoFall => p + 1 < Len(c) /\ v[(p + 1) + 1] = NextHeight(m, f, x, y)
      BY <1>k, <2>2, <3>5
    <3> QED
      BY <2>2, <3>4, <3>6, <3>7 DEF RunsOk, x
  <2> QED
    BY <2>3, <2>4 DEF x
<1>3. small => v[f.code_off + 1] = 0
  BY <1>k DEF FlowOk
<1> QED
  BY <1>2, <1>3 DEF GoodFunc

-----------------------------------------------------------------------------
(***************************************************************************)
(* The function in work: its instructions have operands in range, only its *)
(* branches wait in its labels, and if types are small its heights fit.    *)
(***************************************************************************)
Flowing(m, f, off, c, v, ct, fr, hh, live, small) ==
    /\ InstrsOk(m, f, off, c)
    /\ \A i \in 1 .. Len(ct) : LabelFresh(ct[i], c)
    /\ small => FlowOk(m, f, off, c, v, ct, fr, hh, live)

\* The same labels, and frames that are reached alike.
LEMMA CarriesSame ==
    ASSUME NEW ct \in Seq(Label), NEW fr, NEW fr2, NEW n,
           \A i \in 1 .. Len(ct) : fr2[i].reach = fr[i].reach
    PROVE  Carries(ct, fr, ct, fr2, n)
BY DEF Carries

\* The branches that wait in a label are pcs.
LEMMA JoinsNat ==
    ASSUME NEW l \in Label, NEW off \in Nat, \A p \in Joins(l) : p >= off
    PROVE  \A p \in Joins(l) : p \in Nat
<1>1. l.patches \subseteq Nat /\ l.else_br \in Int /\ l.br_if_not \in Int
  BY Zenon DEF Label
<1> QED
  BY <1>1 DEF Joins

\* Labels keep waiting for the branches of code that is emitted.
LEMMA LabelsKept ==
    ASSUME NEW c \in Seq(KnownOp), NEW cs \in Seq(KnownOp), NEW ct \in Seq(Label), NEW off \in Nat,
           NEW n, LabelsOk(ct, off, n), \A i \in 1 .. Len(ct) : LabelFresh(ct[i], c)
    PROVE  \A i \in 1 .. Len(ct) : LabelFresh(ct[i], c \o cs)
<1> SUFFICES ASSUME NEW i \in 1 .. Len(ct) PROVE LabelFresh(ct[i], c \o cs)
  BY Zenon
<1>1. ct[i] \in Label /\ \A p \in Joins(ct[i]) : p >= off
  BY DEF LabelsOk, LabelOk
<1>2. \A p \in Joins(ct[i]) : p \in Nat
  BY Zenon, <1>1, JoinsNat
<1> QED
  BY Zenon, <1>2, FreshEmit

\* One instruction that does not branch.
LEMMA FlowOne ==
    ASSUME NEW c \in Seq(KnownOp), NEW v \in Seq(Int), Len(v) = Len(c), NEW off \in Nat, NEW m, NEW f,
           NEW ct \in Seq(Label), NEW n, LabelsOk(ct, off, n), NEW fr, NEW fr2,
           NEW hh, NEW live, NEW hh2, NEW live2, NEW small,
           Flowing(m, f, off, c, v, ct, fr, hh, live, small),
           \A i \in 1 .. Len(ct) : fr2[i].reach = fr[i].reach,
           NEW x \in KnownOp, NEW y \in Int, ~ Branchy(x), InstrOk(m, f, x),
           small /\ live => y = hh,
           small /\ y >= 0 => /\ y >= Need(m, f, x)
                              /\ x.op \notin NoFall => live2 /\ hh2 = NextHeight(m, f, x, y)
    PROVE  Flowing(m, f, off, c \o <<x>>, v \o <<y>>, ct, fr2, hh2, live2, small)
<1> DEFINE cs == <<x>>
           vs == <<y>>
<1>1. cs \in Seq(KnownOp) /\ vs \in Seq(Int) /\ Len(cs) = 1 /\ Len(vs) = 1 /\ cs[1] = x /\ vs[1] = y
      /\ cs # <<>>
  OBVIOUS
<1> HIDE DEF cs, vs
<1>2. InstrsOk(m, f, off, c \o cs)
  <2>1. InstrsOk(m, f, off, c)
    BY Zenon DEF Flowing
  <2>2. \A j \in 1 .. Len(cs) : InstrOk(m, f, cs[j])
    BY <1>1
  <2> QED
    BY Zenon, <1>1, <2>1, <2>2, InstrsEmit
<1>3. \A i \in 1 .. Len(ct) : LabelFresh(ct[i], c \o cs)
  <2>1. \A i \in 1 .. Len(ct) : LabelFresh(ct[i], c)
    BY Zenon DEF Flowing
  <2> QED
    BY Zenon, <1>1, <2>1, LabelsKept
<1>4. ASSUME small PROVE FlowOk(m, f, off, c \o cs, v \o vs, ct, fr2, hh2, live2)
  <2>1. Carries(ct, fr, ct, fr2, Len(c))
    BY Zenon, CarriesSame
  <2>2. FlowOk(m, f, off, c, v, ct, fr, hh, live)
    BY Zenon, <1>4 DEF Flowing
  <2>3. FreshOk(m, f, c, v, cs, vs, hh2, live2, ct, fr2, 1)
    BY <1>1, <1>4 DEF FreshOk
  <2>4. \A j \in 1 .. Len(cs) : FreshOk(m, f, c, v, cs, vs, hh2, live2, ct, fr2, j)
    BY <1>1, <2>3
  <2>5. live => IF cs # <<>> THEN vs[1] = hh ELSE live2 /\ hh2 = hh
    BY Zenon, <1>1, <1>4
  <2>6. \A i \in 1 .. Len(ct) :
            i > Len(ct) => LoopOk(c \o cs, v \o vs, hh2, live2, ct[i], fr2[i])
    OBVIOUS
  <2> QED
    BY Zenon, <1>1, <2>1, <2>2, <2>4, <2>5, <2>6, FlowEmit
<1> QED
  BY Zenon, <1>2, <1>3, <1>4 DEF Flowing, cs, vs

\* Code is emitted and labels change.
LEMMA FlowCode ==
    ASSUME NEW c \in Seq(KnownOp), NEW cs \in Seq(KnownOp), NEW v \in Seq(Int), NEW vs \in Seq(Int),
           Len(v) = Len(c), Len(vs) = Len(cs), NEW off \in Nat, NEW m, NEW f,
           NEW ct \in Seq(Label), NEW ct2 \in Seq(Label), NEW fr, NEW fr2,
           NEW hh, NEW live, NEW hh2, NEW live2, NEW small,
           Flowing(m, f, off, c, v, ct, fr, hh, live, small), Carries(ct, fr, ct2, fr2, Len(c)),
           \A j \in 1 .. Len(cs) : InstrOk(m, f, cs[j]),
           \A i \in 1 .. Len(ct2) : LabelFresh(ct2[i], c \o cs),
           small /\ live => IF cs # <<>> THEN vs[1] = hh ELSE live2 /\ hh2 = hh,
           small => \A j \in 1 .. Len(cs) : FreshOk(m, f, c, v, cs, vs, hh2, live2, ct2, fr2, j),
           small => \A i \in 1 .. Len(ct2) :
               i > Len(ct) => LoopOk(c \o cs, v \o vs, hh2, live2, ct2[i], fr2[i])
    PROVE  Flowing(m, f, off, c \o cs, v \o vs, ct2, fr2, hh2, live2, small)
<1>1. InstrsOk(m, f, off, c \o cs)
  <2>1. InstrsOk(m, f, off, c)
    BY Zenon DEF Flowing
  <2> QED
    BY Zenon, <2>1, InstrsEmit
<1>2. ASSUME small PROVE FlowOk(m, f, off, c \o cs, v \o vs, ct2, fr2, hh2, live2)
  <2>1. FlowOk(m, f, off, c, v, ct, fr, hh, live)
    BY Zenon, <1>2 DEF Flowing
  <2>2. live => IF cs # <<>> THEN vs[1] = hh ELSE live2 /\ hh2 = hh
    BY Zenon, <1>2
  <2>3. \A j \in 1 .. Len(cs) : FreshOk(m, f, c, v, cs, vs, hh2, live2, ct2, fr2, j)
    BY Zenon, <1>2
  <2>4. \A i \in 1 .. Len(ct2) :
            i > Len(ct) => LoopOk(c \o cs, v \o vs, hh2, live2, ct2[i], fr2[i])
    BY Zenon, <1>2
  <2> QED
    BY Zenon, <2>1, <2>2, <2>3, <2>4, FlowEmit
<1> QED
  BY Zenon, <1>1, <1>2 DEF Flowing

\* ct2 is ct with the branch at p waiting in label i, unless that is a loop.
Adds(ct, ct2, i, p) ==
    /\ Len(ct2) = Len(ct)
    /\ \A k \in 1 .. Len(ct) :
          /\ ct2[k].kind = ct[k].kind /\ ct2[k].start = ct[k].start
          /\ ct2[k].base = ct[k].base /\ ct2[k].np = ct[k].np /\ ct2[k].nr = ct[k].nr
          /\ ct2[k].br_if_not = ct[k].br_if_not /\ ct2[k].has_else = ct[k].has_else
          /\ ct2[k].else_br = ct[k].else_br
          /\ ct2[k].patches =
                IF k = i /\ ct[k].kind # "loop" THEN ct[k].patches \cup {p} ELSE ct[k].patches

\* Which branches wait after that.
LEMMA AddsJoins ==
    ASSUME NEW ct, NEW ct2, NEW i, NEW p, Adds(ct, ct2, i, p), NEW k \in 1 .. Len(ct)
    PROVE  /\ Joins(ct2[k]) = IF k = i /\ ct[k].kind # "loop" THEN Joins(ct[k]) \cup {p}
                              ELSE Joins(ct[k])
           /\ \A q : JoinHeight(ct2[k], q) = JoinHeight(ct[k], q)
<1>1. /\ ct2[k].kind = ct[k].kind /\ ct2[k].base = ct[k].base /\ ct2[k].np = ct[k].np
      /\ ct2[k].nr = ct[k].nr /\ ct2[k].br_if_not = ct[k].br_if_not
      /\ ct2[k].has_else = ct[k].has_else /\ ct2[k].else_br = ct[k].else_br
      /\ ct2[k].patches =
                IF k = i /\ ct[k].kind # "loop" THEN ct[k].patches \cup {p} ELSE ct[k].patches
  BY Zenon DEF Adds
<1>2. \A q : JoinHeight(ct2[k], q) = JoinHeight(ct[k], q)
  BY Zenon, <1>1 DEF JoinHeight
<1>3. CASE k = i /\ ct[k].kind # "loop"
  BY Zenon, <1>1, <1>2, <1>3 DEF Joins
<1>4. CASE ~ (k = i /\ ct[k].kind # "loop")
  BY Zenon, <1>1, <1>2, <1>4 DEF Joins
<1> QED
  BY Zenon, <1>3, <1>4

\* The label waits for a branch of the code that is emitted.
LEMMA AddsKeeps ==
    ASSUME NEW c \in Seq(KnownOp), NEW cs \in Seq(KnownOp), NEW ct \in Seq(Label), NEW off \in Nat,
           NEW n, LabelsOk(ct, off, n), \A k \in 1 .. Len(ct) : LabelFresh(ct[k], c),
           NEW ct2 \in Seq(Label), NEW i, NEW p, cs # <<>>, p = (Len(c) + Len(cs)) - 1,
           Adds(ct, ct2, i, p), cs[Len(cs)].op = "BR",
           NEW fr, NEW fr2, \A k \in 1 .. Len(ct) : fr2[k].reach = fr[k].reach
    PROVE  /\ Carries(ct, fr, ct2, fr2, Len(c))
           /\ \A k \in 1 .. Len(ct2) : LabelFresh(ct2[k], c \o cs)
<1>1. /\ Len(c) \in Nat /\ Len(cs) \in Nat \ {0} /\ Len(c \o cs) = Len(c) + Len(cs)
      /\ (c \o cs)[Len(c) + Len(cs)] = cs[Len(cs)]
      /\ p \in Nat /\ p >= Len(c) /\ p < Len(c \o cs) /\ p + 1 = Len(c) + Len(cs)
  OBVIOUS
<1>2. Len(ct2) = Len(ct) /\ Len(ct) \in Nat
  BY DEF Adds
<1>3. \A k \in 1 .. Len(ct) : \A q \in Joins(ct[k]) : q \in Nat /\ q < Len(c)
  <2> TAKE k \in 1 .. Len(ct)
  <2>1. ct[k] \in Label /\ (\A q \in Joins(ct[k]) : q >= off)
    BY DEF LabelsOk, LabelOk
  <2>2. \A q \in Joins(ct[k]) : q \in Nat
    BY Zenon, <2>1, JoinsNat
  <2>3. LabelFresh(ct[k], c)
    BY Zenon
  <2> QED
    BY Zenon, <2>2, <2>3 DEF LabelFresh
<1>j. ASSUME NEW k \in 1 .. Len(ct)
      PROVE  /\ Joins(ct2[k]) = IF k = i /\ ct[k].kind # "loop" THEN Joins(ct[k]) \cup {p}
                                ELSE Joins(ct[k])
             /\ \A q : JoinHeight(ct2[k], q) = JoinHeight(ct[k], q)
  BY ONLY Zenon, Adds(ct, ct2, i, p), k \in 1 .. Len(ct), AddsJoins
<1>l. \A k \in 1 .. Len(ct) : LabelFresh(ct[k], c \o cs)
  BY ONLY Zenon, c \in Seq(KnownOp), cs \in Seq(KnownOp), ct \in Seq(Label), off \in Nat,
          LabelsOk(ct, off, n),
          \A k \in 1 .. Len(ct) : LabelFresh(ct[k], c), LabelsKept
<1>4. Carries(ct, fr, ct2, fr2, Len(c))
  <2>1. ASSUME NEW k \in 1 .. Len(ct)
        PROVE  /\ Joins(ct[k]) \subseteq Joins(ct2[k])
               /\ ct2[k].kind = ct[k].kind /\ ct2[k].start = ct[k].start
               /\ ct2[k].base = ct[k].base /\ ct2[k].np = ct[k].np
               /\ fr2[k].reach = fr[k].reach
    <3>1. Joins(ct[k]) \subseteq Joins(ct2[k])
      BY Zenon, <1>j
    <3> QED
      BY Zenon, <3>1 DEF Adds
  <2>2. ASSUME NEW k \in 1 .. Len(ct2), NEW q \in Joins(ct2[k]), q < Len(c)
        PROVE  k <= Len(ct) /\ q \in Joins(ct[k]) /\ JoinHeight(ct2[k], q) = JoinHeight(ct[k], q)
    <3>1. k \in 1 .. Len(ct) /\ k <= Len(ct)
      BY <1>2
    <3>2. q # p
      BY <1>1, <2>2
    <3>3. /\ Joins(ct2[k]) = IF k = i /\ ct[k].kind # "loop" THEN Joins(ct[k]) \cup {p}
                              ELSE Joins(ct[k])
          /\ JoinHeight(ct2[k], q) = JoinHeight(ct[k], q)
      BY Zenon, <1>j, <3>1
    <3> QED
      BY Zenon, <3>1, <3>2, <3>3
  <2>3. \A k \in 1 .. Len(ct) :
          /\ Joins(ct[k]) \subseteq Joins(ct2[k])
          /\ ct2[k].kind = ct[k].kind /\ ct2[k].start = ct[k].start
          /\ ct2[k].base = ct[k].base /\ ct2[k].np = ct[k].np
          /\ fr2[k].reach = fr[k].reach
    BY Zenon, <2>1
  <2>4. \A k \in 1 .. Len(ct2) : \A q \in Joins(ct2[k]) :
           q < Len(c) => k <= Len(ct) /\ q \in Joins(ct[k]) /\ JoinHeight(ct2[k], q) = JoinHeight(ct[k], q)
    BY Zenon, <2>2
  <2>5. Len(ct) <= Len(ct2)
    BY <1>2
  <2> QED
    BY Zenon, <2>3, <2>4, <2>5 DEF Carries
<1>5. ASSUME NEW k \in 1 .. Len(ct2) PROVE LabelFresh(ct2[k], c \o cs)
  <2>1. k \in 1 .. Len(ct)
    BY Zenon, <1>2
  <2>2. LabelFresh(ct[k], c \o cs)
    BY Zenon, <1>l, <2>1
  <2>3. Joins(ct2[k]) \subseteq Joins(ct[k]) \cup {p}
    BY Zenon, <1>j, <2>1
  <2>4. ASSUME NEW q \in Joins(ct2[k]) PROVE q < Len(c \o cs) /\ Branchy((c \o cs)[q + 1])
    <3>1. CASE q \in Joins(ct[k])
      BY Zenon, <2>2, <3>1 DEF LabelFresh
    <3>2. CASE q = p
      BY Zenon, <1>1, <3>2 DEF Branchy
    <3> QED
      BY Zenon, <2>3, <3>1, <3>2
  <2>5. ASSUME ct2[k].kind = "if", ~ ct2[k].has_else PROVE ct2[k].br_if_not \notin ct2[k].patches
    <3>1. /\ ct[k].kind = "if" /\ ~ ct[k].has_else /\ ct2[k].br_if_not = ct[k].br_if_not
          /\ ct2[k].patches \subseteq ct[k].patches \cup {p}
      BY Zenon, <2>1, <2>5 DEF Adds
    <3>2. ct[k].br_if_not \in Joins(ct[k])
      BY Zenon, <3>1 DEF Joins
    <3>a. ct[k].br_if_not \in Nat /\ ct[k].br_if_not < Len(c)
      BY Zenon, <1>3, <2>1, <3>2
    <3>3. ct[k].br_if_not # p
      BY <1>1, <3>a
    <3>4. ct[k].br_if_not \notin ct[k].patches
      BY Zenon, <2>2, <3>1 DEF LabelFresh
    <3> QED
      BY Zenon, <3>1, <3>3, <3>4
  <2> QED
    BY Zenon, <2>4, <2>5 DEF LabelFresh
<1> QED
  BY Zenon, <1>4, <1>5


\* The j-th of cs runs into the next one; if it branches, it goes past cs.
Passes(m, f, cs, vs, past, hh, live, j) ==
    /\ vs[j] >= Need(m, f, cs[j]) /\ cs[j].op \notin NoFall
    /\ vs[j + 1] = NextHeight(m, f, cs[j], vs[j])
    /\ Branchy(cs[j]) => cs[j].b = past /\ live /\ hh = vs[j + 1]

\* cs is what a branch to the i-th label appends: a prefix that falls through, and the BR.
Jumps(m, f, c, cs, vs, ct, fr, i, hh, live, hh2, live2, small) ==
    /\ Len(vs) = Len(cs) /\ cs # <<>> /\ cs[Len(cs)].op = "BR"
    /\ ct[i].kind = "loop" => cs[Len(cs)].b = ct[i].start
    /\ \A j \in 1 .. Len(cs) : InstrOk(m, f, cs[j])
    /\ small /\ live =>
          /\ fr[i].reach /\ vs[1] = hh /\ vs[Len(cs)] = ct[i].base + LabelArity(ct[i])
          /\ \A j \in 1 .. Len(cs) - 1 : Passes(m, f, cs, vs, Len(c) + Len(cs), hh2, live2, j)
    /\ ~ live => \A j \in 1 .. Len(vs) : vs[j] = -1

\* A branch, maybe conditional, to label i, at the height the label expects.
LEMMA FlowJump ==
    ASSUME NEW c \in Seq(KnownOp), NEW cs \in Seq(KnownOp), NEW v \in Seq(Int), NEW vs \in Seq(Int),
           Len(v) = Len(c), NEW off \in Nat, NEW m, NEW f,
           NEW ct \in Seq(Label), NEW ct2 \in Seq(Label), NEW n, LabelsOk(ct, off, n),
           NEW fr, NEW fr2, \A k \in 1 .. Len(ct) : fr2[k].reach = fr[k].reach,
           NEW hh, NEW live, NEW hh2, NEW live2, NEW small,
           Flowing(m, f, off, c, v, ct, fr, hh, live, small),
           NEW i \in 1 .. Len(ct), NEW p, p = (Len(c) + Len(cs)) - 1, Adds(ct, ct2, i, p),
           Jumps(m, f, c, cs, vs, ct, fr, i, hh, live, hh2, live2, small)
    PROVE  Flowing(m, f, off, c \o cs, v \o vs, ct2, fr2, hh2, live2, small)
<1>0. /\ Len(vs) = Len(cs) /\ cs # <<>> /\ cs[Len(cs)].op = "BR"
      /\ ct[i].kind = "loop" => cs[Len(cs)].b = ct[i].start
      /\ \A j \in 1 .. Len(cs) : InstrOk(m, f, cs[j])
      /\ small /\ live =>
            /\ fr[i].reach /\ vs[1] = hh /\ vs[Len(cs)] = ct[i].base + LabelArity(ct[i])
            /\ \A j \in 1 .. Len(cs) - 1 : Passes(m, f, cs, vs, Len(c) + Len(cs), hh2, live2, j)
      /\ ~ live => \A j \in 1 .. Len(vs) : vs[j] = -1
  BY ONLY Zenon, Jumps(m, f, c, cs, vs, ct, fr, i, hh, live, hh2, live2, small) DEF Jumps
<1> USE <1>0
<1>f. \A k \in 1 .. Len(ct) : LabelFresh(ct[k], c)
  BY Zenon DEF Flowing
<1>1. /\ Carries(ct, fr, ct2, fr2, Len(c))
      /\ \A k \in 1 .. Len(ct2) : LabelFresh(ct2[k], c \o cs)
  BY Zenon, <1>f, AddsKeeps
<1>2. /\ Len(c) \in Nat /\ Len(cs) \in Nat \ {0} /\ Len(c \o cs) = Len(c) + Len(cs)
      /\ \A j \in 1 .. Len(cs) : (c \o cs)[Len(c) + j] = cs[j]
      /\ p \in Nat /\ p >= Len(c) /\ p + 1 = Len(c) + Len(cs)
  OBVIOUS
<1>3. Len(ct2) = Len(ct) /\ Len(ct) \in Nat
  BY DEF Adds
<1>4. \A k \in 1 .. Len(ct) : \A q \in Joins(ct[k]) : q \in Nat /\ q < Len(c)
  <2> TAKE k \in 1 .. Len(ct)
  <2>1. ct[k] \in Label /\ (\A q \in Joins(ct[k]) : q >= off)
    BY DEF LabelsOk, LabelOk
  <2>2. \A q \in Joins(ct[k]) : q \in Nat
    BY Zenon, <2>1, JoinsNat
  <2> QED
    BY Zenon, <1>f, <2>2 DEF LabelFresh
<1>5. ASSUME NEW k \in 1 .. Len(ct)
      PROVE  /\ Joins(ct2[k]) = IF k = i /\ ct[k].kind # "loop" THEN Joins(ct[k]) \cup {p}
                                ELSE Joins(ct[k])
             /\ \A q : JoinHeight(ct2[k], q) = JoinHeight(ct[k], q)
  BY ONLY Zenon, Adds(ct, ct2, i, p), k \in 1 .. Len(ct), AddsJoins
<1>6. small /\ live => IF cs # <<>> THEN vs[1] = hh ELSE live2 /\ hh2 = hh
  BY Zenon
<1>7. ASSUME small, live, NEW j \in 1 .. Len(cs)
      PROVE  FreshOk(m, f, c, v, cs, vs, hh2, live2, ct2, fr2, j)
  <2>1. CASE j < Len(cs)
    <3> DEFINE q == (Len(c) + j) - 1
    <3>1. Passes(m, f, cs, vs, Len(c) + Len(cs), hh2, live2, j)
      BY <1>2, <1>7, <2>1
    <3>2. q \in Nat /\ q >= Len(c) /\ q < p /\ q + 1 = Len(c) + j
      BY <1>2, <2>1
    <3> HIDE DEF q
    <3>3. \A k \in 1 .. Len(ct2) : q \notin Joins(ct2[k])
      <4> TAKE k \in 1 .. Len(ct2)
      <4>1. k \in 1 .. Len(ct)
        BY Zenon, <1>3
      <4>2. q \notin Joins(ct[k])
        <5>1. \A r \in Joins(ct[k]) : r \in Nat /\ r < Len(c)
          BY Zenon, <1>4, <4>1
        <5> QED
          BY ONLY <1>2, <3>2, <5>1
      <4>3. q # p
        BY <1>2, <3>2
      <4> QED
        BY Zenon, <1>5, <4>1, <4>2, <4>3
    <3>4. ASSUME Branchy(cs[j])
          PROVE  At(c \o cs, v \o vs, hh2, live2, (c \o cs)[q + 1].b, vs[j + 1])
      <4>1. cs[j].b = Len(c) + Len(cs) /\ live2 /\ hh2 = vs[j + 1]
        BY Zenon, <3>1, <3>4 DEF Passes
      <4>2. (c \o cs)[q + 1].b = Len(c \o cs)
        BY Zenon, <1>2, <3>2, <4>1
      <4>3. ~ (Len(c \o cs) < Len(c \o cs))
        BY <1>2
      <4> QED
        BY Zenon, <4>1, <4>2, <4>3 DEF At
    <3>5. Branchy(cs[j]) => JumpsTo(c \o cs, v \o vs, hh2, live2, ct2, fr2, q, vs[j + 1])
      BY Zenon, <3>3, <3>4 DEF JumpsTo
    <3>6. Branchy(cs[j]) => JumpsTo(c \o cs, v \o vs, hh2, live2, ct2, fr2, (Len(c) + j) - 1, vs[j + 1])
      BY Zenon, <3>5 DEF q
    <3> QED
      BY Zenon, <2>1, <3>1, <3>6 DEF FreshOk, Passes
  <2>2. CASE j = Len(cs)
    <3> DEFINE y == ct[i].base + LabelArity(ct[i])
    <3>1. fr2[i].reach /\ vs[j] = y /\ cs[j].op = "BR"
      BY Zenon, <1>7, <2>2
    <3>2. Need(m, f, cs[j]) = 0 /\ NextHeight(m, f, cs[j], vs[j]) = vs[j] /\ cs[j].op \in NoFall
      BY Zenon, <3>1 DEF Need, NextHeight, NoFall, PopOne, PushOne, LoseOne, Bulk, Returns
    <3>3. ct[i] \in Label /\ ct[i].start \in Nat
      <4>1. ct[i] \in Label
        OBVIOUS
      <4> QED
        BY Zenon, <4>1 DEF Label
    <3>4. ASSUME NEW k \in 1 .. Len(ct2), p \in Joins(ct2[k])
          PROVE  fr2[k].reach /\ vs[j] = JoinHeight(ct2[k], p)
      <4>1. k \in 1 .. Len(ct)
        BY Zenon, <1>3
      <4>2. p \notin Joins(ct[k])
        <5>1. \A r \in Joins(ct[k]) : r \in Nat /\ r < Len(c)
          BY Zenon, <1>4, <4>1
        <5> QED
          BY ONLY <1>2, <5>1
      <4>3. k = i /\ ct[k].kind # "loop"
        BY Zenon, <1>5, <3>4, <4>1, <4>2
      <4>4. ~ (ct[k].kind = "if" /\ ~ ct[k].has_else /\ p = ct[k].br_if_not)
        BY Zenon, <4>2 DEF Joins
      <4>5. JoinHeight(ct[k], p) = ct[k].base + ct[k].nr
        BY Zenon, <4>4 DEF JoinHeight
      <4>6. JoinHeight(ct2[k], p) = JoinHeight(ct[k], p)
        BY Zenon, <1>5, <4>1
      <4> QED
        BY Zenon, <3>1, <4>3, <4>5, <4>6 DEF LabelArity
    <3>5. ASSUME ~ Waits(p, ct2) PROVE At(c \o cs, v \o vs, hh2, live2, (c \o cs)[p + 1].b, vs[j])
      <4>1. ct[i].kind = "loop"
        BY Zenon, <1>3, <1>5, <3>5 DEF Waits
      <4>2. LoopOk(c, v, hh, live, ct[i], fr[i])
        BY Zenon, <1>7 DEF Flowing, FlowOk
      <4>3. At(c, v, hh, live, ct[i].start, vs[j])
        BY Zenon, <1>7, <3>1, <4>1, <4>2 DEF LoopOk, LabelArity
      <4>4. live => IF cs # <<>> THEN vs[1] = hh ELSE live2 /\ hh2 = hh
        BY Zenon, <1>7
      <4>5. At(c \o cs, v \o vs, hh2, live2, ct[i].start, vs[j])
        BY Zenon, <3>3, <4>3, <4>4, AtKept
      <4>6. (c \o cs)[p + 1].b = ct[i].start
        BY Zenon, <1>2, <2>2, <4>1
      <4> QED
        BY Zenon, <4>5, <4>6
    <3>6. JumpsTo(c \o cs, v \o vs, hh2, live2, ct2, fr2, p, vs[j])
      BY Zenon, <3>4, <3>5 DEF JumpsTo
    <3>7. JumpsTo(c \o cs, v \o vs, hh2, live2, ct2, fr2, (Len(c) + j) - 1, vs[j])
      BY Zenon, <2>2, <3>6
    <3> QED
      BY Zenon, <3>2, <3>7 DEF FreshOk
  <2> QED
    BY <1>2, <2>1, <2>2
<1>8. ASSUME ~ live, NEW j \in 1 .. Len(cs)
      PROVE  FreshOk(m, f, c, v, cs, vs, hh2, live2, ct2, fr2, j)
  <2>1. vs[j] = -1
    BY Zenon, <1>8
  <2> QED
    BY ONLY <2>1 DEF FreshOk
<1>9. small => \A j \in 1 .. Len(cs) : FreshOk(m, f, c, v, cs, vs, hh2, live2, ct2, fr2, j)
  BY Zenon, <1>7, <1>8
<1>10. small => \A k \in 1 .. Len(ct2) :
          k > Len(ct) => LoopOk(c \o cs, v \o vs, hh2, live2, ct2[k], fr2[k])
  BY <1>3
<1> QED
  BY Zenon, <1>1, <1>6, <1>9, <1>10, FlowCode


\* A label is pushed; only branches after pc n wait in it.
LEMMA CarriesPush ==
    ASSUME NEW ct \in Seq(Label), NEW l \in Label, NEW fr, NEW fr2, NEW n \in Nat,
           \A i \in 1 .. Len(ct) : fr2[i].reach = fr[i].reach, \A p \in Joins(l) : p = n
    PROVE  Carries(ct, fr, Append(ct, l), fr2, n)
<1> DEFINE ct2 == Append(ct, l)
<1>1. /\ Len(ct2) = Len(ct) + 1 /\ Len(ct) \in Nat /\ ct2[Len(ct) + 1] = l
      /\ \A i \in 1 .. Len(ct) : ct2[i] = ct[i]
  OBVIOUS
<1> HIDE DEF ct2
<1>2. ASSUME NEW i \in 1 .. Len(ct2), NEW p \in Joins(ct2[i]), p < n
      PROVE  i <= Len(ct) /\ p \in Joins(ct[i]) /\ JoinHeight(ct2[i], p) = JoinHeight(ct[i], p)
  <2>1. CASE i = Len(ct) + 1
    BY <1>1, <1>2, <2>1
  <2>2. CASE i \in 1 .. Len(ct)
    BY <1>1, <2>2
  <2> QED
    BY <1>1, <2>1, <2>2
<1>3. Len(ct) <= Len(ct2)
  BY <1>1
<1>4. \A i \in 1 .. Len(ct) :
          /\ Joins(ct[i]) \subseteq Joins(ct2[i])
          /\ ct2[i].kind = ct[i].kind /\ ct2[i].start = ct[i].start
          /\ ct2[i].base = ct[i].base /\ ct2[i].np = ct[i].np
          /\ fr2[i].reach = fr[i].reach
  BY Zenon, <1>1
<1>5. \A i \in 1 .. Len(ct2) : \A p \in Joins(ct2[i]) :
          p < n => i <= Len(ct) /\ p \in Joins(ct[i]) /\ JoinHeight(ct2[i], p) = JoinHeight(ct[i], p)
  BY Zenon, <1>2
<1>6. Carries(ct, fr, ct2, fr2, n)
  BY Zenon, <1>3, <1>4, <1>5 DEF Carries
<1> QED
  BY Zenon, <1>6 DEF ct2

\* block and loop: nothing is emitted.
LEMMA FlowBlock ==
    ASSUME NEW c \in Seq(KnownOp), NEW v \in Seq(Int), Len(v) = Len(c), NEW off \in Nat, NEW m, NEW f,
           NEW ct \in Seq(Label), NEW l \in Label, Joins(l) = {}, l.kind # "if",
           NEW fr, NEW fr2, \A i \in 1 .. Len(ct) : fr2[i].reach = fr[i].reach,
           NEW hh, NEW live, NEW hh2, NEW live2, NEW small,
           Flowing(m, f, off, c, v, ct, fr, hh, live, small),
           small /\ live => live2 /\ hh2 = hh,
           small /\ l.kind = "loop" /\ fr2[Len(ct) + 1].reach =>
               live2 /\ l.start = Len(c) /\ hh2 = l.base + l.np
    PROVE  Flowing(m, f, off, c, v, Append(ct, l), fr2, hh2, live2, small)
<1> DEFINE ct2 == Append(ct, l)
           cs == <<>>
<1>1. /\ ct2 \in Seq(Label) /\ Len(ct2) = Len(ct) + 1 /\ Len(ct) \in Nat /\ ct2[Len(ct) + 1] = l
      /\ \A i \in 1 .. Len(ct) : ct2[i] = ct[i]
  OBVIOUS
<1>2. /\ cs \in Seq(KnownOp) /\ cs \in Seq(Int) /\ Len(cs) = 0 /\ c \o cs = c /\ v \o cs = v
      /\ cs = <<>> /\ Len(c) \in Nat
  OBVIOUS
<1>3. Carries(ct, fr, ct2, fr2, Len(c))
  BY Zenon, <1>2, CarriesPush
<1> HIDE DEF ct2, cs
<1>4. \A i \in 1 .. Len(ct2) : LabelFresh(ct2[i], c)
  <2>1. \A i \in 1 .. Len(ct) : LabelFresh(ct[i], c)
    BY Zenon DEF Flowing
  <2>2. LabelFresh(l, c)
    BY Zenon DEF LabelFresh
  <2> QED
    BY <1>1, <2>1, <2>2
<1>5. ASSUME small, NEW i \in 1 .. Len(ct2), i > Len(ct)
      PROVE  LoopOk(c, v, hh2, live2, ct2[i], fr2[i])
  <2>1. i = Len(ct) + 1 /\ ct2[i] = l
    BY <1>1, <1>5
  <2>2. ASSUME l.kind = "loop", fr2[i].reach PROVE At(c, v, hh2, live2, l.start, l.base + l.np)
    <3>1. live2 /\ l.start = Len(c) /\ hh2 = l.base + l.np
      BY Zenon, <1>5, <2>1, <2>2
    <3>2. ~ (Len(c) < Len(c))
      BY <1>2
    <3> QED
      BY Zenon, <3>1, <3>2 DEF At
  <2> QED
    BY Zenon, <2>1, <2>2 DEF LoopOk
<1>6. /\ \A j \in 1 .. Len(cs) : InstrOk(m, f, cs[j])
      /\ small => \A j \in 1 .. Len(cs) : FreshOk(m, f, c, v, cs, cs, hh2, live2, ct2, fr2, j)
  BY <1>2
<1>7. small /\ live => IF cs # <<>> THEN cs[1] = hh ELSE live2 /\ hh2 = hh
  BY Zenon, <1>2
<1>8. \A i \in 1 .. Len(ct2) : LabelFresh(ct2[i], c \o cs)
  BY Zenon, <1>2, <1>4
<1>9. small => \A i \in 1 .. Len(ct2) :
               i > Len(ct) => LoopOk(c \o cs, v \o cs, hh2, live2, ct2[i], fr2[i])
  BY Zenon, <1>2, <1>5
<1>10. Flowing(m, f, off, c \o cs, v \o cs, ct2, fr2, hh2, live2, small)
  BY Zenon, <1>1, <1>2, <1>3, <1>6, <1>7, <1>8, <1>9, FlowCode
<1> QED
  BY Zenon, <1>2, <1>10 DEF ct2

\* if: a branch that waits in its own label.
LEMMA FlowIf ==
    ASSUME NEW c \in Seq(KnownOp), NEW v \in Seq(Int), Len(v) = Len(c), NEW off \in Nat, NEW m, NEW f,
           NEW ct \in Seq(Label), NEW n, LabelsOk(ct, off, n),
           NEW l \in Label, l.kind = "if", ~ l.has_else, l.patches = {}, l.br_if_not = Len(c),
           NEW fr, NEW fr2, \A i \in 1 .. Len(ct) : fr2[i].reach = fr[i].reach,
           NEW hh, NEW live, NEW hh2, NEW live2, NEW small,
           Flowing(m, f, off, c, v, ct, fr, hh, live, small),
           NEW x \in KnownOp, x.op = "BR_IF_NOT", NEW y \in Int,
           small /\ live => /\ y = hh /\ hh >= 1 /\ live2 /\ hh2 = hh - 1 /\ hh2 = l.base + l.np
                            /\ fr2[Len(ct) + 1].reach,
           ~ live => y = -1
    PROVE  Flowing(m, f, off, c \o <<x>>, v \o <<y>>, Append(ct, l), fr2, hh2, live2, small)
<1> DEFINE ct2 == Append(ct, l)
           cs == <<x>>
           vs == <<y>>
<1>1. /\ ct2 \in Seq(Label) /\ Len(ct2) = Len(ct) + 1 /\ Len(ct) \in Nat /\ ct2[Len(ct) + 1] = l
      /\ \A i \in 1 .. Len(ct) : ct2[i] = ct[i]
  OBVIOUS
<1>2. /\ cs \in Seq(KnownOp) /\ vs \in Seq(Int) /\ Len(cs) = 1 /\ Len(vs) = 1 /\ cs[1] = x /\ vs[1] = y
      /\ cs # <<>> /\ Len(c) \in Nat /\ Len(c \o cs) = Len(c) + 1 /\ (c \o cs)[Len(c) + 1] = x
  OBVIOUS
<1>j. Joins(l) = {Len(c)}
  BY Zenon DEF Joins
<1>3. Carries(ct, fr, ct2, fr2, Len(c))
  BY Zenon, <1>2, <1>j, CarriesPush
<1> HIDE DEF ct2, cs, vs
<1>4. \A i \in 1 .. Len(ct2) : LabelFresh(ct2[i], c \o cs)
  <2>1. \A i \in 1 .. Len(ct) : LabelFresh(ct[i], c)
    BY Zenon DEF Flowing
  <2>2. \A i \in 1 .. Len(ct) : LabelFresh(ct[i], c \o cs)
    BY Zenon, <1>2, <2>1, LabelsKept
  <2>3. LabelFresh(l, c \o cs)
    BY <1>2, <1>j DEF LabelFresh, Branchy
  <2>4. ASSUME NEW i \in 1 .. Len(ct2) PROVE i \in 1 .. Len(ct) \/ i = Len(ct) + 1
    BY ONLY <1>1, <2>4
  <2>5. ASSUME NEW i \in 1 .. Len(ct2) PROVE LabelFresh(ct2[i], c \o cs)
    <3>1. CASE i \in 1 .. Len(ct)
      BY ONLY Zenon, <1>1, <2>2, <3>1
    <3>2. CASE i = Len(ct) + 1
      BY ONLY Zenon, <1>1, <2>3, <3>2
    <3> QED
      BY Zenon, <2>4, <3>1, <3>2
  <2> QED
    BY Zenon, <2>5
<1>5. ASSUME small PROVE FreshOk(m, f, c, v, cs, vs, hh2, live2, ct2, fr2, 1)
  <2> SUFFICES ASSUME y >= 0 PROVE FreshOk(m, f, c, v, cs, vs, hh2, live2, ct2, fr2, 1)
    BY Zenon, <1>2 DEF FreshOk
  <2>1. live
    OBVIOUS
  <2>2. /\ y = hh /\ hh >= 1 /\ live2 /\ hh2 = hh - 1 /\ hh2 = l.base + l.np
        /\ fr2[Len(ct) + 1].reach
    BY Zenon, <1>5, <2>1
  <2>3. Need(m, f, x) = 1 /\ NextHeight(m, f, x, y) = y - 1 /\ Branchy(x)
    BY Zenon DEF Need, NextHeight, PopOne, PushOne, LoseOne, Branchy
  <2>4. JoinHeight(l, Len(c)) = l.base + l.np
    BY Zenon DEF JoinHeight
  <2>5. ASSUME NEW i \in 1 .. Len(ct2), Len(c) \in Joins(ct2[i])
        PROVE  fr2[i].reach /\ y - 1 = JoinHeight(ct2[i], Len(c))
    <3>1. CASE i = Len(ct) + 1
      BY Zenon, <1>1, <2>2, <2>4, <3>1
    <3>2. CASE i \in 1 .. Len(ct)
      <4>1. LabelFresh(ct[i], c) /\ ct2[i] = ct[i]
        BY Zenon, <1>1, <3>2 DEF Flowing
      <4> QED
        BY <1>2, <2>5, <4>1 DEF LabelFresh
    <3> QED
      BY <1>1, <3>1, <3>2
  <2>6. Waits(Len(c), ct2)
    <3>1. Len(ct) + 1 \in 1 .. Len(ct2) /\ Len(c) \in Joins(ct2[Len(ct) + 1])
      BY <1>1, <1>j
    <3> QED
      BY Zenon, <3>1 DEF Waits
  <2>7. JumpsTo(c \o cs, v \o vs, hh2, live2, ct2, fr2, Len(c), y - 1)
    BY Zenon, <2>5, <2>6 DEF JumpsTo
  <2>8. (Len(c) + 1) - 1 = Len(c)
    BY <1>2
  <2>9. JumpsTo(c \o cs, v \o vs, hh2, live2, ct2, fr2, (Len(c) + 1) - 1, y - 1)
    BY Zenon, <2>7, <2>8
  <2>10. /\ vs[1] >= Need(m, f, cs[1]) /\ NextHeight(m, f, cs[1], vs[1]) = y - 1
         /\ ~ (1 < Len(cs)) /\ live2 /\ hh2 = y - 1
    BY <1>2, <2>2, <2>3
  <2> QED
    BY ONLY Zenon, <2>9, <2>10 DEF FreshOk
<1>6. \A j \in 1 .. Len(cs) : InstrOk(m, f, cs[j])
  BY <1>2, BranchHeights DEF Branchy
<1>7. small => \A j \in 1 .. Len(cs) : FreshOk(m, f, c, v, cs, vs, hh2, live2, ct2, fr2, j)
  BY <1>2, <1>5
<1>8. small /\ live => IF cs # <<>> THEN vs[1] = hh ELSE live2 /\ hh2 = hh
  BY Zenon, <1>2
<1>9. small => \A i \in 1 .. Len(ct2) :
               i > Len(ct) => LoopOk(c \o cs, v \o vs, hh2, live2, ct2[i], fr2[i])
  <2>1. ASSUME NEW i \in 1 .. Len(ct2), i > Len(ct) PROVE ct2[i] = l
    BY <1>1, <2>1
  <2> QED
    BY Zenon, <2>1 DEF LoopOk
<1>10. Flowing(m, f, off, c \o cs, v \o vs, ct2, fr2, hh2, live2, small)
  BY Zenon, <1>1, <1>2, <1>3, <1>4, <1>6, <1>7, <1>8, <1>9, FlowCode
<1> QED
  BY Zenon, <1>10 DEF ct2, cs, vs


\* Branches that are patched stay branches.
LEMMA FreshPatch ==
    ASSUME NEW c \in Seq(KnownOp), NEW c2, NEW ps, Patched(c, c2, ps), NEW l, LabelFresh(l, c),
           \A p \in Joins(l) : p \in Nat
    PROVE  LabelFresh(l, c2)
<1>1. Len(c2) = Len(c) /\ Len(c) \in Nat
  BY DEF Patched
<1>2. ASSUME NEW p \in Joins(l) PROVE p < Len(c2) /\ Branchy(c2[p + 1])
  <2>1. p \in 0 .. Len(c) - 1 /\ Branchy(c[p + 1])
    BY <1>1 DEF LabelFresh
  <2>2. c2[p + 1].op = c[p + 1].op
    BY Zenon, <2>1 DEF Patched
  <2> QED
    BY <1>1, <2>1, <2>2 DEF Branchy
<1> QED
  BY Zenon, <1>2 DEF LabelFresh

\* ct2 and fr2 are ct and fr without the k-th, which is the last.
Closes(ct, fr, ct2, fr2, k) ==
    /\ k \in Nat \ {0} /\ k = Len(ct) /\ Len(ct2) = k - 1
    /\ \A i \in 1 .. k - 1 : ct2[i] = ct[i] /\ fr2[i].reach = fr[i].reach

\* After block l, of frame g, come its results.
EndHeights(l, g, hh, live, hh2, live2, small) ==
    /\ l.kind = "if" /\ ~ l.has_else => l.np = l.nr
    /\ hh2 = l.base + l.nr /\ (g.reach => live2) /\ (small /\ live => live2 /\ hh2 = hh)

\* end: the branches that wait in the innermost label come here.
LEMMA FlowEnd ==
    ASSUME NEW c \in Seq(KnownOp), NEW v, NEW off \in Nat, NEW m, NEW f,
           NEW ct \in Seq(Label), NEW n, LabelsOk(ct, off, n), NEW ct2 \in Seq(Label),
           NEW k, NEW fr, NEW fr2, Closes(ct, fr, ct2, fr2, k),
           NEW hh, NEW live, NEW hh2, NEW live2, NEW small,
           Flowing(m, f, off, c, v, ct, fr, hh, live, small),
           NEW c2 \in Seq(KnownOp), Patched(c, c2, Joins(ct[k])),
           EndHeights(ct[k], fr[k], hh, live, hh2, live2, small)
    PROVE  Flowing(m, f, off, c2, v, ct2, fr2, hh2, live2, small)
<1> DEFINE l == ct[k]
<1>a. k \in Nat \ {0} /\ k = Len(ct) /\ Len(ct2) = k - 1 /\ l = ct[k]
  BY Zenon DEF Closes
<1>b. \A i \in 1 .. k - 1 : ct2[i] = ct[i] /\ fr2[i].reach = fr[i].reach
  BY Zenon DEF Closes
<1>c. l.kind = "if" /\ ~ l.has_else => l.np = l.nr
  BY Zenon DEF EndHeights
<1>d. hh2 = l.base + l.nr /\ (fr[k].reach => live2)
  BY Zenon DEF EndHeights
<1>e. small /\ live => live2 /\ hh2 = hh
  BY Zenon DEF EndHeights
<1>g. Patched(c, c2, Joins(l))
  BY Zenon
<1> HIDE DEF l
<1> USE <1>a, <1>b, <1>c, <1>d, <1>e, <1>g
<1>f. \A i \in 1 .. Len(ct) : LabelFresh(ct[i], c)
  BY Zenon DEF Flowing
<1>1. \A i \in 1 .. k - 1 : i \in 1 .. Len(ct) /\ i \in 1 .. Len(ct2)
  BY ONLY <1>a
<1>2. InstrsOk(m, f, off, c2)
  BY Zenon, InstrsPatch DEF Flowing
<1>3. ASSUME NEW i \in 1 .. Len(ct2) PROVE LabelFresh(ct2[i], c2)
  <2>1. i \in 1 .. k - 1 /\ i \in 1 .. Len(ct) /\ ct2[i] = ct[i]
    BY Zenon, <1>1
  <2>2. ct[i] \in Label /\ LabelFresh(ct[i], c) /\ \A p \in Joins(ct[i]) : p >= off
    <3>1. LabelOk(ct[i], i, off, n)
      BY Zenon, <2>1 DEF LabelsOk
    <3>2. ct[i] \in Label /\ LabelFresh(ct[i], c)
      BY ONLY <1>f, <2>1, ct \in Seq(Label)
    <3> QED
      BY ONLY Zenon, <3>1, <3>2 DEF LabelOk
  <2>3. \A p \in Joins(ct[i]) : p \in Nat
    BY Zenon, <2>2, JoinsNat
  <2>4. LabelFresh(ct[i], c2)
    BY Zenon, <2>2, <2>3, FreshPatch
  <2> QED
    BY Zenon, <2>1, <2>4
<1>4. Releases(ct, fr, ct2, fr2, Joins(l))
  <2>1. ASSUME NEW p \in Nat, p \notin Joins(l), Waits(p, ct) PROVE Waits(p, ct2)
    <3>1. PICK i \in 1 .. Len(ct) : p \in Joins(ct[i])
      BY Zenon, <2>1 DEF Waits
    <3>2. i # k
      BY Zenon, <2>1, <3>1
    <3>3. i \in 1 .. k - 1
      BY ONLY <3>1, <3>2, <1>a
    <3> QED
      BY Zenon, <1>1, <3>1, <3>3 DEF Waits
  <2>2. Len(ct2) <= Len(ct)
    OBVIOUS
  <2>3. ASSUME NEW i \in 1 .. Len(ct2)
        PROVE  ct2[i] = ct[i] /\ fr2[i].reach = fr[i].reach
    BY Zenon
  <2>4. \A p \in Nat : p \notin Joins(l) /\ Waits(p, ct) => Waits(p, ct2)
    BY Zenon, <2>1
  <2>5. \A i \in 1 .. Len(ct2) :
          /\ ct2[i].kind = ct[i].kind /\ ct2[i].start = ct[i].start
          /\ ct2[i].base = ct[i].base /\ ct2[i].np = ct[i].np
          /\ fr2[i].reach = fr[i].reach
          /\ \A p \in Joins(ct2[i]) :
                p \in Joins(ct[i]) /\ JoinHeight(ct2[i], p) = JoinHeight(ct[i], p)
    BY Zenon, <2>3
  <2> QED
    BY Zenon, <2>2, <2>4, <2>5 DEF Releases
<1>5. ASSUME NEW p \in Joins(l), NEW y,
             \A i \in 1 .. Len(ct) : p \in Joins(ct[i]) => fr[i].reach /\ y = JoinHeight(ct[i], p)
      PROVE  live2 /\ hh2 = y
  <2>1. fr[k].reach /\ y = JoinHeight(l, p)
    BY ONLY <1>5, <1>a
  <2>2. JoinHeight(l, p) = l.base + l.nr
    BY Zenon DEF JoinHeight
  <2> QED
    BY Zenon, <2>1, <2>2
<1>6. ASSUME small PROVE FlowOk(m, f, off, c2, v, ct2, fr2, hh2, live2)
  <2>1. FlowOk(m, f, off, c, v, ct, fr, hh, live)
    BY Zenon, <1>6 DEF Flowing
  <2>2. live => live2 /\ hh2 = hh
    BY Zenon, <1>6
  <2> DEFINE ps == Joins(l)
  <2>3. Settles(ct, fr, ps, hh2, live2)
    BY Zenon, <1>5 DEF Settles
  <2> HIDE DEF ps
  <2>4. Releases(ct, fr, ct2, fr2, ps) /\ Patched(c, c2, ps)
    BY Zenon, <1>4 DEF ps
  <2> QED
    BY ONLY Zenon, c \in Seq(KnownOp), c2 \in Seq(KnownOp), off \in Nat, ct \in Seq(Label),
            ct2 \in Seq(Label), <2>1, <2>2, <2>3, <2>4, FlowPatch
<1> QED
  BY Zenon, <1>2, <1>3, <1>6 DEF Flowing

\* In ct2 the if of ct has its else arm; in ct1 the branch that ends the then arm waits.
ElseLabels(ct, ct1, ct2, k, n) ==
    /\ k \in Nat \ {0} /\ k = Len(ct) /\ ct[k].kind = "if" /\ ~ ct[k].has_else
    /\ Adds(ct, ct1, k, n)
    /\ Len(ct2) = k /\ \A i \in 1 .. k - 1 : ct2[i] = ct[i]
    /\ ct2[k].kind = "if" /\ ct2[k].has_else /\ ct2[k].else_br = n /\ ct2[k].patches = ct[k].patches
    /\ ct2[k].start = ct[k].start /\ ct2[k].base = ct[k].base
    /\ ct2[k].np = ct[k].np /\ ct2[k].nr = ct[k].nr

\* The then arm ends at the height of the results, the else arm starts at that of the parameters.
ElseHeights(l, fr, fr2, k, y, hh, live, hh2, live2, small) ==
    /\ \A i \in 1 .. k : fr2[i].reach = fr[i].reach
    /\ small /\ live => y = hh /\ hh = l.base + l.nr /\ fr[k].reach
    /\ ~ live => y = -1
    /\ hh2 = l.base + l.np /\ (fr[k].reach => live2)

\* What entering the else arm does to the branches that wait.
ElseJoins(ct, ct1, ct2, fr, fr2, k, n) ==
    /\ Releases(ct1, fr, ct2, fr2, {ct[k].br_if_not}) /\ Len(ct1) = k
    /\ ct[k].br_if_not \in Joins(ct1[k])
    /\ JoinHeight(ct1[k], ct[k].br_if_not) = ct[k].base + ct[k].np
    /\ \A i \in 1 .. k : Joins(ct1[i]) \subseteq Joins(ct[i]) \cup {n}

\* The reachability of the frames up to depth k is that of before.
SameReach(fr, fr2, k) == \A i \in 1 .. k : fr2[i].reach = fr[i].reach

\* The branches that wait when the else arm is entered: br_if_not is released.
LEMMA ElseReleases ==
    ASSUME NEW c \in Seq(KnownOp), NEW ct, NEW ct1, NEW ct2, NEW k,
           ElseLabels(ct, ct1, ct2, k, Len(c)), LabelFresh(ct[k], c),
           NEW fr, NEW fr2, SameReach(fr, fr2, k)
    PROVE  ElseJoins(ct, ct1, ct2, fr, fr2, k, Len(c))
<1> DEFINE l == ct[k]
           g == ct2[k]
           bin == l.br_if_not
<1>a1. /\ k \in Nat \ {0} /\ k = Len(ct) /\ l = ct[k] /\ l.kind = "if" /\ ~ l.has_else
       /\ Adds(ct, ct1, k, Len(c)) /\ Len(ct2) = k /\ \A i \in 1 .. k - 1 : ct2[i] = ct[i]
  BY Zenon DEF ElseLabels
<1>a2. /\ g = ct2[k] /\ g.kind = "if" /\ g.has_else /\ g.else_br = Len(c) /\ g.patches = l.patches
       /\ g.start = l.start /\ g.base = l.base /\ g.np = l.np /\ g.nr = l.nr
  BY Zenon DEF ElseLabels
<1> HIDE DEF l, g, bin
<1>4. /\ Joins(l) = l.patches \cup {bin} /\ Joins(g) = l.patches \cup {Len(c)}
      /\ bin \notin l.patches /\ bin # Len(c)
  <2>1. Joins(l) = l.patches \cup {bin} /\ Joins(g) = l.patches \cup {Len(c)}
    BY Zenon, <1>a1, <1>a2 DEF Joins, bin
  <2>3. bin \notin l.patches /\ bin < Len(c)
    BY Zenon, <1>a1, <2>1 DEF LabelFresh, bin
  <2>4. Len(c) \in Nat
    OBVIOUS
  <2> QED
    BY ONLY <2>1, <2>3, <2>4
<1>5. ASSUME NEW i \in 1 .. k
      PROVE  /\ Joins(ct1[i]) = IF i = k THEN Joins(l) \cup {Len(c)} ELSE Joins(ct[i])
             /\ \A q : JoinHeight(ct1[i], q) = JoinHeight(ct[i], q)
             /\ ct1[i].kind = ct[i].kind /\ ct1[i].start = ct[i].start
             /\ ct1[i].base = ct[i].base /\ ct1[i].np = ct[i].np
  <2>1. i \in 1 .. Len(ct)
    BY Zenon, <1>a1
  <2>2. /\ Joins(ct1[i]) = IF i = k /\ ct[i].kind # "loop" THEN Joins(ct[i]) \cup {Len(c)}
                           ELSE Joins(ct[i])
        /\ \A q : JoinHeight(ct1[i], q) = JoinHeight(ct[i], q)
    <3> DEFINE p == Len(c)
    <3>1. Adds(ct, ct1, k, p)
      BY Zenon, <1>a1
    <3> HIDE DEF p
    <3>2. /\ Joins(ct1[i]) = IF i = k /\ ct[i].kind # "loop" THEN Joins(ct[i]) \cup {p}
                             ELSE Joins(ct[i])
          /\ \A q : JoinHeight(ct1[i], q) = JoinHeight(ct[i], q)
      BY ONLY Zenon, <2>1, <3>1, AddsJoins
    <3> QED
      BY Zenon, <3>2 DEF p
  <2>3. /\ ct1[i].kind = ct[i].kind /\ ct1[i].start = ct[i].start
        /\ ct1[i].base = ct[i].base /\ ct1[i].np = ct[i].np
    BY Zenon, <1>a1, <2>1 DEF Adds
  <2>4. Joins(ct1[i]) = IF i = k THEN Joins(l) \cup {Len(c)} ELSE Joins(ct[i])
    BY ONLY Zenon, <1>a1, <2>2
  <2> QED
    BY Zenon, <2>2, <2>3, <2>4
<1>l. Len(ct1) = k /\ k \in 1 .. k
  BY <1>a1 DEF Adds
<1>6. Releases(ct1, fr, ct2, fr2, {bin})
  <2>1. ASSUME NEW p \in Nat, p \notin {bin}, Waits(p, ct1) PROVE Waits(p, ct2)
    <3>1. PICK i \in 1 .. k : p \in Joins(ct1[i])
      BY Zenon, <1>l, <2>1 DEF Waits
    <3>2. CASE i = k
      <4>1. p \in Joins(g)
        BY ONLY Zenon, <1>4, <1>5, <2>1, <3>1, <3>2
      <4>2. k \in 1 .. Len(ct2) /\ p \in Joins(ct2[k])
        BY ONLY Zenon, <1>a1, <1>a2, <1>l, <4>1
      <4> QED
        BY Zenon, <4>2 DEF Waits
    <3>3. CASE i # k
      <4>1. i \in 1 .. k - 1 /\ i \in 1 .. Len(ct2)
        BY ONLY <1>a1, <3>3, <3>1
      <4>2. p \in Joins(ct2[i])
        BY Zenon, <1>a1, <1>5, <3>1, <3>3, <4>1
      <4> QED
        BY Zenon, <4>1, <4>2 DEF Waits
    <3> QED
      BY Zenon, <3>2, <3>3
  <2>2. ASSUME NEW i \in 1 .. Len(ct2)
        PROVE  /\ ct2[i].kind = ct1[i].kind /\ ct2[i].start = ct1[i].start
               /\ ct2[i].base = ct1[i].base /\ ct2[i].np = ct1[i].np
               /\ fr2[i].reach = fr[i].reach
               /\ \A p \in Joins(ct2[i]) :
                     p \in Joins(ct1[i]) /\ JoinHeight(ct2[i], p) = JoinHeight(ct1[i], p)
    <3>1. i \in 1 .. k /\ (i = k \/ (i # k /\ i \in 1 .. k - 1))
      BY ONLY <1>a1, <2>2
    <3>0. /\ ct1[i].kind = ct[i].kind /\ ct1[i].start = ct[i].start
          /\ ct1[i].base = ct[i].base /\ ct1[i].np = ct[i].np
          /\ fr2[i].reach = fr[i].reach
      BY Zenon, <1>5, <3>1 DEF SameReach
    <3>2. CASE i = k
      <4>1. ASSUME NEW p \in Joins(g)
            PROVE  p \in Joins(ct1[i]) /\ JoinHeight(g, p) = JoinHeight(ct1[i], p)
        <5>1. p # bin /\ p \in Joins(ct1[i])
          BY ONLY Zenon, <1>4, <1>5, <3>1, <3>2, <4>1
        <5>2. JoinHeight(g, p) = l.base + l.nr /\ JoinHeight(l, p) = l.base + l.nr
          BY Zenon, <1>a1, <1>a2, <5>1 DEF JoinHeight, bin
        <5> QED
          BY ONLY Zenon, <1>a1, <1>5, <3>1, <3>2, <5>1, <5>2
      <4> QED
        BY ONLY Zenon, <1>a1, <1>a2, <3>0, <3>2, <4>1
    <3>3. CASE i # k /\ i \in 1 .. k - 1
      <4>1. ct2[i] = ct[i]
        BY Zenon, <1>a1, <3>3
      <4>2. Joins(ct1[i]) = Joins(ct[i]) /\ \A q : JoinHeight(ct1[i], q) = JoinHeight(ct[i], q)
        BY Zenon, <1>5, <3>1, <3>3
      <4> QED
        BY ONLY Zenon, <3>0, <4>1, <4>2
    <3> QED
      BY Zenon, <3>1, <3>2, <3>3
  <2>6. Len(ct2) <= Len(ct1)
    BY ONLY <1>a1, <1>l
  <2> QED
    BY Zenon, <2>1, <2>2, <2>6 DEF Releases
<1>7. bin \in Joins(ct1[k]) /\ JoinHeight(ct1[k], bin) = l.base + l.np
  <2>1. JoinHeight(l, bin) = l.base + l.np
    BY Zenon, <1>a1 DEF JoinHeight, bin
  <2> QED
    BY ONLY Zenon, <1>a1, <1>l, <1>4, <1>5, <2>1
<1>8. \A i \in 1 .. k : Joins(ct1[i]) \subseteq Joins(ct[i]) \cup {Len(c)}
  BY ONLY Zenon, <1>a1, <1>5
<1> QED
  BY Zenon, <1>6, <1>l, <1>7, <1>8 DEF ElseJoins, l, bin

\* else: the then arm branches to the end, and br_if_not comes here.
LEMMA FlowElse ==
    ASSUME NEW c \in Seq(KnownOp), NEW v \in Seq(Int), Len(v) = Len(c), NEW off \in Nat, NEW m, NEW f,
           NEW ct \in Seq(Label), NEW n, LabelsOk(ct, off, n),
           NEW ct1 \in Seq(Label), NEW ct2 \in Seq(Label), NEW k, ElseLabels(ct, ct1, ct2, k, Len(c)),
           NEW fr, NEW fr2, NEW hh, NEW live, NEW hh2, NEW live2, NEW small,
           Flowing(m, f, off, c, v, ct, fr, hh, live, small),
           NEW x \in KnownOp, x.op = "BR", NEW y \in Int,
           ElseHeights(ct[k], fr, fr2, k, y, hh, live, hh2, live2, small),
           NEW c2 \in Seq(KnownOp), Patched(c \o <<x>>, c2, {ct[k].br_if_not})
    PROVE  Flowing(m, f, off, c2, v \o <<y>>, ct2, fr2, hh2, live2, small)
<1> DEFINE l == ct[k]
           g == ct2[k]
<1>a1. /\ k \in Nat \ {0} /\ k = Len(ct) /\ l = ct[k] /\ l.kind = "if" /\ ~ l.has_else
       /\ Adds(ct, ct1, k, Len(c)) /\ Len(ct2) = k /\ \A i \in 1 .. k - 1 : ct2[i] = ct[i]
  BY Zenon DEF ElseLabels
<1>a2. /\ g = ct2[k] /\ g.kind = "if" /\ g.has_else /\ g.else_br = Len(c) /\ g.patches = l.patches
       /\ g.start = l.start /\ g.base = l.base /\ g.np = l.np /\ g.nr = l.nr
  BY Zenon DEF ElseLabels
<1>a3. /\ \A i \in 1 .. k : fr2[i].reach = fr[i].reach
       /\ small /\ live => y = hh /\ hh = l.base + l.nr /\ fr[k].reach
       /\ ~ live => y = -1
       /\ hh2 = l.base + l.np /\ (fr[k].reach => live2)
  BY Zenon DEF ElseHeights
<1>a4. l \in Label
  BY ONLY <1>a1, ct \in Seq(Label)
<1>a5. Patched(c \o <<x>>, c2, {l.br_if_not})
  BY Zenon
<1> HIDE DEF l, g
<1> DEFINE cs == <<x>>
           vs == <<y>>
           d == c \o cs
           w == v \o vs
<1>1. /\ cs \in Seq(KnownOp) /\ vs \in Seq(Int) /\ Len(cs) = 1 /\ Len(vs) = 1 /\ cs[1] = x /\ vs[1] = y
      /\ cs # <<>> /\ Len(c) \in Nat /\ d \in Seq(KnownOp) /\ Len(d) = Len(c) + 1
  OBVIOUS
<1> HIDE DEF cs, vs, d, w
<1>f. \A i \in 1 .. Len(ct) : LabelFresh(ct[i], c)
  BY Zenon DEF Flowing
<1>2. InstrOk(m, f, x)
  BY BranchHeights DEF Branchy
<1>3. Flowing(m, f, off, d, w, ct1, fr, hh2, live2, small)
  <2>1. \A j \in 1 .. Len(cs) : InstrOk(m, f, cs[j])
    BY ONLY <1>1, <1>2
  <2>2. ASSUME small, live
        PROVE  /\ fr[k].reach /\ vs[1] = hh /\ vs[Len(cs)] = ct[k].base + LabelArity(ct[k])
               /\ \A j \in 1 .. Len(cs) - 1 : Passes(m, f, cs, vs, Len(c) + Len(cs), hh2, live2, j)
    <3>1. y = hh /\ hh = l.base + l.nr /\ fr[k].reach
      BY ONLY Zenon, <1>a3, <2>2
    <3>2. ct[k].base = l.base /\ LabelArity(ct[k]) = l.nr
      BY ONLY Zenon, <1>a1 DEF LabelArity
    <3> QED
      BY ONLY <1>1, <3>1, <3>2
  <2>3. /\ cs[Len(cs)].op = "BR" /\ (ct[k].kind = "loop" => cs[Len(cs)].b = ct[k].start)
        /\ k \in 1 .. Len(ct) /\ Len(c) = (Len(c) + Len(cs)) - 1 /\ Len(vs) = Len(cs)
    BY ONLY <1>1, <1>a1, x.op = "BR"
  <2>4. ~ live => \A j \in 1 .. Len(vs) : vs[j] = -1
    BY ONLY <1>1, <1>a3
  <2>5. \A i \in 1 .. Len(ct) : fr[i].reach = fr[i].reach
    BY Zenon
  <2>6. Jumps(m, f, c, cs, vs, ct, fr, k, hh, live, hh2, live2, small)
    BY ONLY Zenon, <1>1, <2>1, <2>2, <2>3, <2>4 DEF Jumps
  <2> DEFINE p == Len(c)
  <2>7. p = (Len(c) + Len(cs)) - 1 /\ Adds(ct, ct1, k, p)
    BY Zenon, <1>a1, <2>3
  <2> HIDE DEF p
  <2>8. Flowing(m, f, off, c \o cs, v \o vs, ct1, fr, hh2, live2, small)
    BY ONLY Zenon, c \in Seq(KnownOp), v \in Seq(Int), Len(v) = Len(c), off \in Nat, ct \in Seq(Label),
            ct1 \in Seq(Label), LabelsOk(ct, off, n),
            Flowing(m, f, off, c, v, ct, fr, hh, live, small),
            <1>1, <2>3, <2>5, <2>6, <2>7, FlowJump
  <2> QED
    BY Zenon, <2>8 DEF d, w
<1> DEFINE bin == l.br_if_not
<1>4. /\ Releases(ct1, fr, ct2, fr2, {bin}) /\ Len(ct1) = k
      /\ bin \in Joins(ct1[k]) /\ JoinHeight(ct1[k], bin) = l.base + l.np
      /\ \A i \in 1 .. k : Joins(ct1[i]) \subseteq Joins(ct[i]) \cup {Len(c)}
  <2>1. LabelFresh(ct[k], c)
    BY ONLY <1>a1, <1>f
  <2>2. SameReach(fr, fr2, k)
    BY Zenon, <1>a3 DEF SameReach
  <2>3. ElseJoins(ct, ct1, ct2, fr, fr2, k, Len(c))
    BY ONLY Zenon, c \in Seq(KnownOp), ElseLabels(ct, ct1, ct2, k, Len(c)), <2>1, <2>2, ElseReleases
  <2> QED
    BY Zenon, <2>3 DEF ElseJoins, l
<1> HIDE DEF bin
<1>7. ASSUME NEW p \in {bin}, NEW z,
             \A i \in 1 .. Len(ct1) : p \in Joins(ct1[i]) => fr[i].reach /\ z = JoinHeight(ct1[i], p)
      PROVE  live2 /\ hh2 = z
  <2>1. k \in 1 .. Len(ct1)
    BY ONLY <1>a1, <1>4
  <2> QED
    BY ONLY Zenon, <1>a3, <1>4, <1>7, <2>1
<1>p. Patched(d, c2, {bin})
  BY Zenon, <1>a5 DEF d, cs, bin
<1>8. ASSUME small PROVE FlowOk(m, f, off, c2, w, ct2, fr2, hh2, live2)
  <2>1. FlowOk(m, f, off, d, w, ct1, fr, hh2, live2)
    BY Zenon, <1>3, <1>8 DEF Flowing
  <2>2. Settles(ct1, fr, {bin}, hh2, live2)
    BY Zenon, <1>7 DEF Settles
  <2>3. live2 => live2 /\ hh2 = hh2
    BY Zenon
  <2> DEFINE ps == {bin}
  <2>4. /\ Settles(ct1, fr, ps, hh2, live2)
        /\ Releases(ct1, fr, ct2, fr2, ps) /\ Patched(d, c2, ps)
    BY Zenon, <1>p, <1>4, <2>2
  <2> HIDE DEF ps
  <2> QED
    BY ONLY Zenon, <1>1, c2 \in Seq(KnownOp), off \in Nat, ct1 \in Seq(Label), ct2 \in Seq(Label),
            <2>1, <2>3, <2>4, FlowPatch
<1>9. InstrsOk(m, f, off, c2)
  <2>1. InstrsOk(m, f, off, d)
    BY Zenon, <1>3 DEF Flowing
  <2> QED
    BY Zenon, <1>1, <1>p, <2>1, InstrsPatch
<1>10. ASSUME NEW i \in 1 .. Len(ct2) PROVE LabelFresh(ct2[i], c2)
  <2>1. i \in 1 .. Len(ct1) /\ i \in 1 .. k /\ i \in 1 .. Len(ct)
    BY ONLY Zenon, <1>a1, <1>4, <1>10
  <2>2. LabelFresh(ct1[i], d)
    BY Zenon, <1>3, <2>1 DEF Flowing
  <2>3. \A q \in Joins(ct1[i]) : q \in Nat
    <3>0. LabelOk(ct[i], i, off, n)
      BY Zenon, <2>1 DEF LabelsOk
    <3>a. ct[i] \in Label
      BY <2>1
    <3>1. ct[i] \in Label /\ \A q \in Joins(ct[i]) : q >= off
      BY ONLY Zenon, <3>0, <3>a DEF LabelOk
    <3>2. \A q \in Joins(ct[i]) : q \in Nat
      BY Zenon, <3>1, JoinsNat
    <3>3. Joins(ct1[i]) \subseteq Joins(ct[i]) \cup {Len(c)}
      BY Zenon, <1>4, <2>1
    <3> QED
      BY ONLY Zenon, <1>1, <3>2, <3>3
  <2>4. LabelFresh(ct1[i], c2)
    BY Zenon, <1>1, <1>p, <2>2, <2>3, FreshPatch
  <2>5. \A q \in Joins(ct2[i]) : q \in Joins(ct1[i])
    BY Zenon, <1>4 DEF Releases
  <2>6. \A q \in Joins(ct2[i]) : q < Len(c2) /\ Branchy(c2[q + 1])
    BY Zenon, <2>4, <2>5 DEF LabelFresh
  <2>7. ct2[i].kind = "if" /\ ~ ct2[i].has_else => ct2[i].br_if_not \notin ct2[i].patches
    <3>1. CASE i = k
      BY Zenon, <1>a2, <3>1
    <3>2. CASE i \in 1 .. k - 1
      <4>1. LabelFresh(ct[i], c) /\ ct2[i] = ct[i]
        BY Zenon, <1>a1, <1>f, <2>1, <3>2
      <4> QED
        BY Zenon, <4>1 DEF LabelFresh
    <3>3. i = k \/ i \in 1 .. k - 1
      BY ONLY <1>a1, <2>1
    <3> QED
      BY ONLY Zenon, <3>1, <3>2, <3>3
  <2> QED
    BY Zenon, <2>6, <2>7 DEF LabelFresh
<1>11. Flowing(m, f, off, c2, w, ct2, fr2, hh2, live2, small)
  BY Zenon, <1>8, <1>9, <1>10 DEF Flowing
<1> QED
  BY Zenon, <1>11 DEF w, vs

\* Where the next pc is not reached, the height there does not matter.
LEMMA FlowIdle ==
    ASSUME NEW c, NEW v, NEW off, NEW m, NEW f, NEW ct, NEW fr, NEW hh, NEW hh2, NEW live, NEW live2,
           NEW small, ~ live, ~ live2, Flowing(m, f, off, c, v, ct, fr, hh, live, small)
    PROVE  Flowing(m, f, off, c, v, ct, fr, hh2, live2, small)
<1>1. \A q, y : At(c, v, hh, live, q, y) => At(c, v, hh2, live2, q, y)
  BY Zenon DEF At
<1>2. ASSUME FlowOk(m, f, off, c, v, ct, fr, hh, live)
      PROVE  FlowOk(m, f, off, c, v, ct, fr, hh2, live2)
  <2>1. ASSUME NEW p \in off .. Len(c) - 1
        PROVE  StepOk(m, f, c, v, hh2, live2, p) /\ JumpOk(m, f, c, v, hh2, live2, ct, fr, p)
    <3>1. StepOk(m, f, c, v, hh, live, p) /\ JumpOk(m, f, c, v, hh, live, ct, fr, p)
      BY Zenon, <1>2, <2>1 DEF FlowOk
    <3>2. StepOk(m, f, c, v, hh2, live2, p)
      BY Zenon, <1>1, <3>1 DEF StepOk
    <3>3. ASSUME NEW y, JumpsTo(c, v, hh, live, ct, fr, p, y) PROVE JumpsTo(c, v, hh2, live2, ct, fr, p, y)
      BY Zenon, <1>1, <3>3 DEF JumpsTo
    <3>4. JumpOk(m, f, c, v, hh2, live2, ct, fr, p)
      BY Zenon, <3>1, <3>3 DEF JumpOk
    <3> QED
      BY Zenon, <3>2, <3>4
  <2>2. \A i \in 1 .. Len(ct) : LoopOk(c, v, hh2, live2, ct[i], fr[i])
    BY Zenon, <1>1, <1>2 DEF FlowOk, LoopOk
  <2>3. At(c, v, hh2, live2, off, 0)
    BY Zenon, <1>1, <1>2 DEF FlowOk
  <2> QED
    BY Zenon, <2>1, <2>2, <2>3 DEF FlowOk
<1> QED
  BY Zenon, <1>2 DEF Flowing

\* After its last block a function ends in END_FUNC.
Ended(ct, c, off) == ct = <<>> => Len(c) > off /\ c[Len(c)].op \in Returns

\* cs at the heights vs are to follow c at v; what is appended leaves the first n as they are.
Fits(c, v, cs, vs, n) ==
    /\ c \in Seq(KnownOp) /\ cs \in Seq(KnownOp) /\ v \in Seq(Int) /\ vs \in Seq(Int)
    /\ Len(v) = Len(c) /\ Len(vs) = Len(cs) /\ n \in Nat /\ n <= Len(c)
Extended(c, v, c2, v2, n) ==
    v2 \in Seq(Int) /\ Len(v2) = Len(c2) /\ \A q \in 1 .. n : c2[q] = c[q] /\ v2[q] = v[q]

\* Code and heights that grow alike keep what was there.
LEMMA Longer ==
    ASSUME NEW c, NEW v, NEW cs, NEW vs, NEW n, Fits(c, v, cs, vs, n)
    PROVE  Extended(c, v, c \o cs, v \o vs, n)
<1> USE DEF Fits
<1>1. /\ c \o cs \in Seq(KnownOp) /\ v \o vs \in Seq(Int) /\ Len(c) \in Nat /\ Len(cs) \in Nat
      /\ Len(v \o vs) = Len(v) + Len(vs) /\ Len(c \o cs) = Len(c) + Len(cs)
  <2>1. c \o cs \in Seq(KnownOp) /\ Len(c \o cs) = Len(c) + Len(cs)
    OBVIOUS
  <2>2. v \o vs \in Seq(Int) /\ Len(v \o vs) = Len(v) + Len(vs)
    OBVIOUS
  <2>3. Len(c) \in Nat /\ Len(cs) \in Nat
    OBVIOUS
  <2> QED
    BY Zenon, <2>1, <2>2, <2>3
<1>2. ASSUME NEW q \in 1 .. n PROVE (c \o cs)[q] = c[q] /\ (v \o vs)[q] = v[q]
  <2>1. q \in 1 .. Len(c) /\ q \in 1 .. Len(v)
    BY <1>1
  <2> QED
    BY <2>1
<1> QED
  BY Zenon, <1>1, <1>2 DEF Extended

\* One element more, and two.
LEMMA MoreByOne ==
    ASSUME NEW S, NEW c \in Seq(S), NEW x \in S, NEW n, n = Len(c)
    PROVE  /\ c \o <<x>> \in Seq(S) /\ Len(c \o <<x>>) = n + 1
           /\ \A q \in 1 .. n : (c \o <<x>>)[q] = c[q]
           /\ (c \o <<x>>)[n + 1] = x
  OBVIOUS

\* One instruction after another.
LEMMA TwoMore ==
    ASSUME NEW S, NEW c \in Seq(S), NEW x \in S, NEW y \in S
    PROVE  (c \o <<x>>) \o <<y>> = c \o <<x, y>>
<1> DEFINE a == (c \o <<x>>) \o <<y>>
           b == c \o <<x, y>>
           n == Len(c)
<1>1. c \o <<x>> \in Seq(S) /\ Len(c \o <<x>>) = n + 1 /\ n \in Nat
  OBVIOUS
<1>2. a \in Seq(S) /\ Len(a) = n + 2
  BY <1>1
<1>3. b \in Seq(S) /\ Len(b) = n + 2
  OBVIOUS
<1>4. ASSUME NEW i \in 1 .. n + 2 PROVE a[i] = b[i]
  <2>1. CASE i <= n
    BY <1>1, <2>1
  <2>2. CASE i = n + 1
    BY <1>1, <2>2
  <2>3. CASE i = n + 2
    BY <1>1, <2>3
  <2> QED
    BY <1>1, <2>1, <2>2, <2>3
<1> HIDE DEF a, b, n
<1>5. a = [i \in 1 .. n + 2 |-> a[i]] /\ b = [i \in 1 .. n + 2 |-> b[i]]
  BY <1>2, <1>3
<1>6. a = b
  BY ONLY Zenon, <1>4, <1>5
<1> QED
  BY Zenon, <1>6 DEF a, b

\* Two more instructions appended to a function keep what was known of it.
LEMMA MoreByTwo ==
    ASSUME NEW S, NEW c \in Seq(S), NEW x \in S, NEW y \in S
    PROVE  /\ c \o <<x, y>> \in Seq(S) /\ Len(c \o <<x, y>>) = Len(c) + 2
           /\ \A q \in 1 .. Len(c) : (c \o <<x, y>>)[q] = c[q]
           /\ (c \o <<x, y>>)[Len(c) + 1] = x /\ (c \o <<x, y>>)[Len(c) + 2] = y
<1> DEFINE c1 == c \o <<x>>
           c2 == c1 \o <<y>>
           n == Len(c)
           k == n + 1
<1>1. c \o <<x, y>> = c2
  BY Zenon, TwoMore
<1>2. /\ c1 \in Seq(S) /\ Len(c1) = k /\ \A q \in 1 .. n : c1[q] = c[q]
      /\ c1[k] = x
  BY MoreByOne
<1> HIDE DEF c1
<1>3. /\ c2 \in Seq(S) /\ Len(c2) = k + 1 /\ \A q \in 1 .. k : c2[q] = c1[q]
      /\ c2[k + 1] = y
  BY <1>2, MoreByOne
<1>4. /\ n \in Nat /\ k + 1 = n + 2 /\ k \in 1 .. k /\ \A q \in 1 .. n : q \in 1 .. k
  OBVIOUS
<1> HIDE DEF c2, k
<1>5. /\ c2 \in Seq(S) /\ Len(c2) = n + 2 /\ (\A q \in 1 .. n : c2[q] = c[q])
      /\ c2[k] = x /\ c2[n + 2] = y
  BY ONLY <1>2, <1>3, <1>4, Zenon
<1> QED
  BY Zenon, <1>1, <1>5 DEF k

\* Joining two sequences: the length, and the last element of a non-empty second part.
LEMMA JoinEnds ==
  ASSUME NEW S, NEW a \in Seq(S), NEW b \in Seq(S), Len(b) \in 1 .. Len(b)
  PROVE  /\ a \o b \in Seq(S) /\ Len(a \o b) = Len(a) + Len(b)
         /\ (a \o b)[Len(a) + Len(b)] = b[Len(b)]
  OBVIOUS

\* The parts of a sequence of four.
LEMMA FourParts ==
    ASSUME NEW S, NEW a \in S, NEW b \in S, NEW c \in S, NEW d \in S
    PROVE  /\ <<a, b, c>> \in Seq(S) /\ Len(<<a, b, c>>) = 3
           /\ <<a, b, c>> \o <<d>> = <<a, b, c, d>>
           /\ <<a, b, c, d>> \in Seq(S) /\ Len(<<a, b, c, d>>) = 4 /\ <<a, b, c, d>> # <<>>
<1>1. <<a, b, c>> \in Seq(S) /\ Len(<<a, b, c>>) = 3
  OBVIOUS
<1>2. <<a, b, c, d>> \in Seq(S) /\ Len(<<a, b, c, d>>) = 4
  OBVIOUS
<1>3. <<a, b, c, d>> # <<>>
  BY Zenon
<1>4. <<a, b, c>> \o <<d>> = <<a, b, c, d>>
  <2> DEFINE u == <<a, b, c>> \o <<d>>
             w == <<a, b, c, d>>
  <2>1. u \in Seq(S) /\ Len(u) = 4
    BY <1>1
  <2>2. u[1] = a /\ u[2] = b /\ u[3] = c
    BY <1>1
  <2>3. u[4] = d
    BY <1>1
  <2>4. w[1] = a /\ w[2] = b /\ w[3] = c /\ w[4] = d /\ w \in Seq(S) /\ Len(w) = 4
    OBVIOUS
  <2> HIDE DEF u, w
  <2>5. \A k \in 1 .. 4 : u[k] = w[k]
    <3>1. \A k \in 1 .. 4 : k = 1 \/ k = 2 \/ k = 3 \/ k = 4
      OBVIOUS
    <3> QED
      BY ONLY <2>2, <2>3, <2>4, <3>1, Zenon
  <2>6. u = w
    BY ONLY <2>1, <2>4, <2>5
  <2> QED
    BY Zenon, <2>6 DEF u, w
<1> QED
  BY Zenon, <1>1, <1>2, <1>3, <1>4

\* One instruction more, which is good.
LEMMA GoodMore ==
    ASSUME NEW m, NEW f, NEW cs \in Seq(KnownOp), NEW x \in KnownOp, InstrOk(m, f, x),
           \A j \in 1 .. Len(cs) : InstrOk(m, f, cs[j])
    PROVE  /\ cs \o <<x>> \in Seq(KnownOp) /\ Len(cs \o <<x>>) = Len(cs) + 1
           /\ \A j \in 1 .. Len(cs \o <<x>>) : InstrOk(m, f, (cs \o <<x>>)[j])
<1>1. cs \o <<x>> \in Seq(KnownOp) /\ Len(cs \o <<x>>) = Len(cs) + 1 /\ Len(cs) \in Nat
  OBVIOUS
<1>2. /\ (cs \o <<x>>)[Len(cs) + 1] = x
      /\ \A j \in 1 .. Len(cs) : (cs \o <<x>>)[j] = cs[j]
  OBVIOUS
<1>3. ASSUME NEW j \in 1 .. Len(cs \o <<x>>)
      PROVE  InstrOk(m, f, (cs \o <<x>>)[j])
  <2>1. j \in 1 .. Len(cs) \/ j = Len(cs) + 1
    BY <1>1
  <2> QED
    BY Zenon, <1>2, <2>1
<1> QED
  BY Zenon, <1>1, <1>3

\* The arity CALL_HOST packs, if it fits.
LEMMA HostPacked ==
    ASSUME NEW np \in Nat, NEW nr \in Nat, np <= 8, nr <= 8, NEW x, x.a = np + 256 * nr
    PROVE  HostParams(x) = np /\ HostResults(x) = nr
  BY DEF HostParams, HostResults

\* Opcode op, as the opcode tables have it.
Row(op, pops, pushes) ==
    \/ op \in {"DROP", "GLOBAL_SET", "LOCAL_SET"} /\ pops = 1 /\ pushes = 0
    \/ op \in {"UNOP", "CLZ", "LOAD", "MEMORY_GROW"} /\ pops = 1 /\ pushes = 1
    \/ op \in {"BINOP", "DIV"} /\ pops = 2 /\ pushes = 1
    \/ op \in {"GLOBAL_GET", "LOCAL_GET", "MEMORY_SIZE"} /\ pops = 0 /\ pushes = 1
    \/ op \in {"MEMORY_COPY", "MEMORY_FILL", "MEMORY_INIT"} /\ pops = 3 /\ pushes = 0
    \/ op = "SELECT" /\ pops = 3 /\ pushes = 1
    \/ op = "MUL_WIDE" /\ pops = 2 /\ pushes = 2
    \/ op = "ARITH128" /\ pops = 4 /\ pushes = 2
    \/ op = "STORE" /\ pops = 2 /\ pushes = 0
    \/ op = "DATA_DROP" /\ pops = 0 /\ pushes = 0

\* The lowering counts operands as verify_cuop does.
LEMMA RowHeights ==
    ASSUME NEW x, NEW pops, NEW pushes, Row(x.op, pops, pushes), NEW m, NEW f, NEW y \in Int
    PROVE  /\ Need(m, f, x) = pops /\ NextHeight(m, f, x, y) = (y - pops) + pushes
           /\ x.op \notin {"LOCAL_GET", "LOCAL_SET"} => InstrOk(m, f, x)
           /\ x.op \in {"LOCAL_GET", "LOCAL_SET"} => (InstrOk(m, f, x) <=> x.a < NumLocals(f))
<1>1. Need(m, f, x) = pops
  BY Zenon DEF Row, Need, PopOne, Bulk, Returns
<1>2. NextHeight(m, f, x, y) = (y - pops) + pushes
  BY DEF Row, NextHeight, PushOne, LoseOne, Bulk
<1>3. x.op \notin {"I64_CONST", "CALL", "RETURN_CALL", "CALL_INDIRECT", "UNWIND"}
  BY Zenon DEF Row
<1> QED
  BY Zenon, <1>1, <1>2, <1>3 DEF InstrOk

\* The trap of a function that was given up.
Trap(f, n, c, v) ==
    /\ n \in Nat /\ f.code_off = n /\ EndOf(f) = n + 2 /\ NumLocals(f) <= 65535
    /\ c[n + 1].op = "UNREACHABLE" /\ c[n + 2].op = "END_FUNC" /\ v[n + 1] = 0 /\ v[n + 2] = -1

\* The body of a stub, a single UNREACHABLE, is good.
LEMMA TrapGood ==
    ASSUME NEW f, NEW n, NEW c, NEW v, Trap(f, n, c, v), NEW m, NEW small
    PROVE  GoodFunc(m, f, c, v, small)
<1> USE DEF Trap
<1>1. \A x : x.op \in {"UNREACHABLE", "END_FUNC"} => InstrOk(m, f, x)
  BY DEF InstrOk
<1>2. RunsOk(m, f, c, v, n)
  <2>1. Need(m, f, c[n + 1]) = 0
    BY DEF Need, PopOne, Returns
  <2>2. c[n + 1].op \in NoFall /\ ~ Branchy(c[n + 1])
    BY DEF NoFall, Branchy
  <2> QED
    BY <2>1, <2>2 DEF RunsOk
<1>3. RunsOk(m, f, c, v, n + 1)
  <2>1. v[(n + 1) + 1] = -1
    OBVIOUS
  <2> QED
    BY <2>1 DEF RunsOk
<1>4. ASSUME NEW p \in f.code_off .. EndOf(f) - 1
      PROVE  InstrOk(m, f, c[p + 1]) /\ RunsOk(m, f, c, v, p)
  <2>1. p = n \/ (p = n + 1 /\ p + 1 = n + 2)
    OBVIOUS
  <2> QED
    BY <1>1, <1>2, <1>3, <2>1
<1>5. c[EndOf(f)].op \in Returns
  BY DEF Returns
<1>6. v[f.code_off + 1] = 0
  OBVIOUS
<1> QED
  BY <1>4, <1>5, <1>6 DEF GoodFunc

\* A function without code is good.
LEMMA NoCodeGood ==
    ASSUME NEW m, NEW f, NEW c, NEW v, NEW small, ~ HasCode(f)
    PROVE  GoodFunc(m, f, c, v, small)
BY DEF GoodFunc

\* What is known of a module only grows.
MoreKnown(m, m2) == Sizes(m) /\ Sizes(m2) /\ Grows(m, m2)

\* s2 is s, and perhaps more.
Prefix(s, s2) == Len(s) <= Len(s2) /\ \A i \in 1 .. Len(s) : s2[i] = s[i]

\* More types or functions, and nothing else.
LEMMA KnownMore ==
    ASSUME NEW ft \in Seq(FuncType), NEW ft2 \in Seq(FuncType), Prefix(ft, ft2),
           NEW ti \in Seq(Nat), NEW ti2 \in Seq(Nat), Prefix(ti, ti2),
           \A i \in 1 .. Len(ti) : ti[i] < Len(ft), NEW nh \in Nat, NEW nc \in Nat
    PROVE  MoreKnown(Known(ft, ti, nh, nc), Known(ft2, ti2, nh, nc))
<1> DEFINE m == Known(ft, ti, nh, nc)
           m2 == Known(ft2, ti2, nh, nc)
<1>1. Len(ft) \in Nat /\ Len(ft2) \in Nat /\ Len(ti) \in Nat /\ Len(ti2) \in Nat
  OBVIOUS
<1>2. /\ Len(ft) <= Len(ft2) /\ Len(ti) <= Len(ti2)
      /\ \A i \in 1 .. Len(ft) : ft2[i] = ft[i]
      /\ \A i \in 1 .. Len(ti) : ti2[i] = ti[i]
  BY Zenon DEF Prefix
<1>3. /\ m.n_consts = nc /\ m.n_types = Len(ft) /\ m.n_funcs = Len(ti) /\ m.n_host_imports = nh
      /\ m2.n_consts = nc /\ m2.n_types = Len(ft2) /\ m2.n_funcs = Len(ti2) /\ m2.n_host_imports = nh
  BY Zenon DEF Known
<1>4. ASSUME NEW b \in 0 .. Len(ti) - 1
      PROVE  /\ m2.funcs[b].n_params = m.funcs[b].n_params
             /\ m2.funcs[b].n_results = m.funcs[b].n_results
  <2>1. b + 1 \in 1 .. Len(ti) /\ b \in 0 .. Len(ti2) - 1
    BY <1>1, <1>2
  <2>n. ti[b + 1] \in Nat
    BY ONLY ti \in Seq(Nat), <2>1
  <2>2. ti2[b + 1] = ti[b + 1] /\ ti[b + 1] \in Nat /\ ti[b + 1] < Len(ft)
    BY Zenon, <1>2, <2>1, <2>n
  <2>3. ti[b + 1] + 1 \in 1 .. Len(ft)
    BY <1>1, <2>2
  <2>4. ft2[ti2[b + 1] + 1] = ft[ti[b + 1] + 1]
    <3>1. ft2[ti[b + 1] + 1] = ft[ti[b + 1] + 1]
      BY Zenon, <1>2, <2>3
    <3> QED
      BY Zenon, <2>2, <3>1
  <2>5. /\ m.funcs[b] = [n_params |-> Len(ft[ti[b + 1] + 1].p), n_results |-> Len(ft[ti[b + 1] + 1].r)]
        /\ m2.funcs[b] = [n_params |-> Len(ft2[ti2[b + 1] + 1].p), n_results |-> Len(ft2[ti2[b + 1] + 1].r)]
    BY Zenon, <2>1 DEF Known
  <2> QED
    BY Zenon, <2>4, <2>5
<1>5. ASSUME NEW t \in 0 .. Len(ft) - 1
      PROVE  m2.type_fp[t].np = m.type_fp[t].np /\ m2.type_fp[t].nr = m.type_fp[t].nr
  <2>1. t + 1 \in 1 .. Len(ft) /\ t \in 0 .. Len(ft2) - 1
    BY <1>1, <1>2
  <2>2. ft2[t + 1] = ft[t + 1]
    BY Zenon, <1>2, <2>1
  <2>3. /\ m.type_fp[t] = [np |-> Len(ft[t + 1].p), nr |-> Len(ft[t + 1].r)]
        /\ m2.type_fp[t] = [np |-> Len(ft2[t + 1].p), nr |-> Len(ft2[t + 1].r)]
    BY Zenon, <2>1 DEF Known
  <2> QED
    BY Zenon, <2>2, <2>3
<1> HIDE DEF m, m2
<1>6. Sizes(m) /\ Sizes(m2)
  BY Zenon, <1>1, <1>3 DEF Sizes
<1>7. Grows(m, m2)
  <2>1. nc <= nc
    OBVIOUS
  <2> QED
    BY Zenon, <1>2, <1>3, <1>4, <1>5, <2>1 DEF Grows
<1> QED
  BY Zenon, <1>6, <1>7 DEF MoreKnown, m, m2

\* A body starts with no code, at height 0.
LEMMA FreshFlow ==
    ASSUME NEW c \in Seq(KnownOp), NEW v, NEW m, NEW f, NEW fr, NEW small, NEW live, live,
           NEW l, l.kind = "func", l.patches = {}, NEW ct, ct = <<l>>
    PROVE  Flowing(m, f, Len(c), c, v, ct, fr, 0, live, small) /\ Ended(ct, c, Len(c))
<1>1. Len(c) \in Nat /\ Len(ct) = 1 /\ ct[1] = l /\ ct # <<>>
  OBVIOUS
<1>2. \A p \in Len(c) .. Len(c) - 1 : FALSE
  BY <1>1
<1>3. InstrsOk(m, f, Len(c), c)
  BY Zenon, <1>2 DEF InstrsOk
<1>4. Joins(l) = {}
  BY Zenon DEF Joins
<1>5. LabelFresh(l, c) /\ LoopOk(c, v, 0, live, l, fr[1])
  BY Zenon, <1>4 DEF LabelFresh, LoopOk
<1>6. \A i \in 1 .. Len(ct) : i = 1
  BY <1>1
<1>7. At(c, v, 0, live, Len(c), 0)
  BY <1>1 DEF At
<1>8. FlowOk(m, f, Len(c), c, v, ct, fr, 0, live)
  BY Zenon, <1>1, <1>2, <1>5, <1>6, <1>7 DEF FlowOk
<1> QED
  BY Zenon, <1>1, <1>3, <1>5, <1>6, <1>8 DEF Flowing, Ended

\* The instructions pre at the heights ps, and after them js at hs; and what they make, cs at us.
Parts(m, f, pre, ps, js, hs) ==
    /\ pre \in Seq(KnownOp) /\ js \in Seq(KnownOp) /\ ps \in Seq(Int) /\ hs \in Seq(Int)
    /\ Len(ps) = Len(pre) /\ Len(hs) = Len(js) /\ Len(js) \in 1 .. 2
    /\ \A j \in 1 .. Len(pre) : InstrOk(m, f, pre[j])
    /\ \A j \in 1 .. Len(js) : InstrOk(m, f, js[j])
Whole(m, f, pre, ps, js, hs, cs, us) ==
    /\ cs \in Seq(KnownOp) /\ us \in Seq(Int) /\ Len(cs) = Len(pre) + Len(js) /\ Len(us) = Len(cs)
    /\ cs # <<>> /\ cs[Len(cs)] = js[Len(js)] /\ us[Len(cs)] = hs[Len(js)]
    /\ us[1] = IF pre = <<>> THEN hs[1] ELSE ps[1]
    /\ \A j \in 1 .. Len(cs) : InstrOk(m, f, cs[j])

\* The instructions put before and after others make up good code.
LEMMA EntryParts ==
    ASSUME NEW m, NEW f, NEW pre, NEW ps, NEW js, NEW hs, Parts(m, f, pre, ps, js, hs)
    PROVE  Whole(m, f, pre, ps, js, hs, pre \o js, ps \o hs)
<1> USE DEF Parts
<1> DEFINE cs == pre \o js
           us == ps \o hs
<1>1. Len(pre) \in Nat /\ Len(js) \in Nat /\ Len(js) \in 1 .. Len(js)
  OBVIOUS
<1>2. cs \in Seq(KnownOp) /\ Len(cs) = Len(pre) + Len(js) /\ cs[Len(pre) + Len(js)] = js[Len(js)]
  BY Zenon, <1>1, JoinEnds
<1>3. us \in Seq(Int) /\ Len(us) = Len(ps) + Len(hs) /\ us[Len(ps) + Len(hs)] = hs[Len(hs)]
  BY Zenon, <1>1, JoinEnds
<1>4. cs # <<>>
  BY <1>1, <1>2
<1>5. us[1] = IF pre = <<>> THEN hs[1] ELSE ps[1]
  <2>1. CASE pre = <<>>
    <3>1. Len(ps) = 0 /\ 1 \in 1 .. Len(hs)
      BY <2>1
    <3> QED
      BY <2>1, <3>1
  <2>2. CASE pre # <<>>
    <3>1. 1 \in 1 .. Len(ps)
      BY <2>2
    <3> QED
      BY <2>2, <3>1
  <2> QED
    BY Zenon, <2>1, <2>2
<1>6. ASSUME NEW j \in 1 .. Len(cs) PROVE InstrOk(m, f, cs[j])
  <2>1. CASE j \in 1 .. Len(pre)
    <3>1. cs[j] = pre[j]
      BY <2>1
    <3> QED
      BY Zenon, <2>1, <3>1
  <2>2. CASE j \notin 1 .. Len(pre)
    <3>1. j - Len(pre) \in 1 .. Len(js) /\ j = Len(pre) + (j - Len(pre))
      BY <1>1, <1>2, <2>2
    <3>2. cs[j] = js[j - Len(pre)]
      BY <3>1
    <3> QED
      BY Zenon, <3>1, <3>2
  <2> QED
    BY Zenon, <2>1, <2>2
<1> QED
  BY Zenon, <1>2, <1>3, <1>4, <1>5, <1>6 DEF Whole

\* The instructions pre run from the heights ps into height hh; a branch goes past.
RunsInto(m, f, pre, ps, past, hh, hh2, live2) ==
    \A j \in 1 .. Len(pre) :
       /\ ps[j] >= Need(m, f, pre[j]) /\ pre[j].op \notin NoFall
       /\ (IF j < Len(pre) THEN ps[j + 1] ELSE hh) = NextHeight(m, f, pre[j], ps[j])
       /\ Branchy(pre[j]) =>
             pre[j].b = past /\ live2 /\ hh2 = (IF j < Len(pre) THEN ps[j + 1] ELSE hh)

\* The elements of a concatenation.
IsConcat(s, t, u) ==
    /\ Len(s) \in Nat /\ Len(u) = Len(s) + Len(t)
    /\ \A j \in 1 .. Len(s) : u[j] = s[j]
    /\ \A j \in 1 .. Len(t) : u[Len(s) + j] = t[j]

\* A concatenation has the elements of both.
LEMMA Joined ==
    ASSUME NEW S, NEW s \in Seq(S), NEW t \in Seq(S)
    PROVE  IsConcat(s, t, s \o t)
  BY DEF IsConcat

\* They run into the instructions js, the first of which may be an UNWIND.
LEMMA EntryPasses ==
    ASSUME NEW pre \in Seq(KnownOp), NEW js \in Seq(KnownOp), NEW ps \in Seq(Int), NEW hs \in Seq(Int),
           Len(ps) = Len(pre), Len(hs) = Len(js), Len(js) \in 1 .. 2,
           NEW m, NEW f, NEW past, NEW hh2, NEW live2, NEW hh, hh = hs[1],
           RunsInto(m, f, pre, ps, past, hh, hh2, live2),
           Len(js) = 2 => /\ hs[1] >= Need(m, f, js[1]) /\ js[1].op \notin NoFall
                          /\ hs[2] = NextHeight(m, f, js[1], hs[1]) /\ ~ Branchy(js[1])
    PROVE  \A j \in 1 .. Len(pre \o js) - 1 : Passes(m, f, pre \o js, ps \o hs, past, hh2, live2, j)
<1> DEFINE cs == pre \o js
           vs == ps \o hs
           a == Len(pre)
           n == Len(js)
<1>1. /\ a \in Nat /\ n \in 1 .. 2 /\ Len(cs) = a + n
      /\ \A j \in 1 .. a : cs[j] = pre[j] /\ vs[j] = ps[j]
      /\ \A j \in 1 .. n : cs[a + j] = js[j] /\ vs[a + j] = hs[j]
  <2>1. IsConcat(pre, js, cs)
    BY Zenon, Joined
  <2>2. IsConcat(ps, hs, vs)
    BY Zenon, Joined
  <2> HIDE DEF cs, vs
  <2> QED
    BY Zenon, <2>1, <2>2 DEF IsConcat
<1> SUFFICES ASSUME NEW j \in 1 .. Len(cs) - 1
             PROVE  Passes(m, f, cs, vs, past, hh2, live2, j)
  BY Zenon
<1> HIDE DEF cs, vs, a, n
<1>2. CASE j <= a
  <2>1. j \in 1 .. a
    BY <1>1, <1>2
  <2>2. cs[j] = pre[j] /\ vs[j] = ps[j]
    BY Zenon, <1>1, <2>1
  <2>3. vs[j + 1] = IF j < a THEN ps[j + 1] ELSE hh
    <3>1. CASE j < a
      <4>1. j + 1 \in 1 .. a
        BY <1>1, <2>1, <3>1
      <4> QED
        BY Zenon, <1>1, <3>1, <4>1
    <3>2. CASE ~ j < a
      <4>1. j = a /\ 1 \in 1 .. n
        BY <1>1, <2>1, <3>2
      <4> QED
        BY Zenon, <1>1, <3>2, <4>1
    <3> QED
      BY Zenon, <3>1, <3>2
  <2>4. /\ ps[j] >= Need(m, f, pre[j]) /\ pre[j].op \notin NoFall
        /\ (IF j < a THEN ps[j + 1] ELSE hh) = NextHeight(m, f, pre[j], ps[j])
        /\ Branchy(pre[j]) => pre[j].b = past /\ live2 /\ hh2 = (IF j < a THEN ps[j + 1] ELSE hh)
    BY Zenon, <2>1 DEF RunsInto, a
  <2> QED
    BY ONLY Zenon, <2>2, <2>3, <2>4 DEF Passes
<1>3. CASE ~ j <= a
  <2>1. j = a + 1 /\ n = 2 /\ j + 1 = a + 2 /\ 1 \in 1 .. n /\ 2 \in 1 .. n
    BY <1>1, <1>3
  <2>2. cs[j] = js[1] /\ vs[j] = hs[1] /\ vs[j + 1] = hs[2]
    BY Zenon, <1>1, <2>1
  <2>3. /\ hs[1] >= Need(m, f, js[1]) /\ js[1].op \notin NoFall
        /\ hs[2] = NextHeight(m, f, js[1], hs[1]) /\ ~ Branchy(js[1])
    BY Zenon, <2>1 DEF n
  <2> QED
    BY ONLY Zenon, <2>2, <2>3 DEF Passes
<1> QED
  BY Zenon, <1>2, <1>3
=============================================================================
