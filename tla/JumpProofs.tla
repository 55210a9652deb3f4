----------------------------- MODULE JumpProofs -----------------------------
(***************************************************************************)
(* Heights across the operators that close a block or branch, and so       *)
(* across every operator (HeightLower).                                    *)
(***************************************************************************)
EXTENDS HeightProofs

\* Patching sends the branches of ps, and nothing else, to the next pc.
LEMMA PatchedHere ==
    ASSUME code \in Seq(KnownOp), NEW ps, \A p \in ps : p < Len(code) /\ Branchy(code[p + 1]),
           NEW c2, c2 = Patch(ps, Len(code))
    PROVE  Patched(code, c2, ps)
<1>1. /\ Len(c2) = Len(code)
      /\ \A q \in 1 .. Len(code) :
            c2[q] = IF q - 1 \in ps THEN Cu(code[q].op, code[q].a, Len(code)) ELSE code[q]
  BY DEF Patch
<1>2. ASSUME NEW p \in 0 .. Len(code) - 1
      PROVE  /\ p \notin ps => c2[p + 1] = code[p + 1]
             /\ p \in ps => /\ c2[p + 1].op = code[p + 1].op /\ c2[p + 1].b = Len(code)
                            /\ Branchy(code[p + 1])
  <2>1. p + 1 \in 1 .. Len(code) /\ (p + 1) - 1 = p
    OBVIOUS
  <2>2. c2[p + 1] = IF p \in ps THEN Cu(code[p + 1].op, code[p + 1].a, Len(code)) ELSE code[p + 1]
    BY Zenon, <1>1, <2>1
  <2> QED
    BY ONLY <2>2, \A q \in ps : q < Len(code) /\ Branchy(code[q + 1]) DEF Cu
<1> QED
  BY <1>1, <1>2 DEF Patched

\* The same, if another instruction is emitted first.
LEMMA PatchedNext ==
    ASSUME code \in Seq(KnownOp), NEW p \in Nat, p < Len(code), Branchy(code[p + 1]),
           NEW x \in KnownOp, NEW c2, c2 = Append(Patch({p}, Len(code) + 1), x)
    PROVE  Patched(code \o <<x>>, c2, {p})
<1> DEFINE c == code \o <<x>>
           d == Patch({p}, Len(code) + 1)
           n == Len(code)
<1>0. n \in Nat
  OBVIOUS
<1>1. /\ d \in Seq(KnownOp) /\ Len(d) = n
      /\ \A q \in 1 .. n : d[q] = IF q - 1 \in {p} THEN Cu(code[q].op, code[q].a, n + 1) ELSE code[q]
  <2>1. n + 1 \in Nat
    BY <1>0
  <2>2. d \in Seq(KnownOp) /\ Len(d) = n
    BY <2>1, PatchType
  <2> QED
    BY Zenon, <2>2 DEF Patch
<1>a. c2 = Append(d, x)
  BY Zenon
<1> HIDE DEF d
<1>2. Len(c2) = n + 1 /\ c2[n + 1] = x /\ \A q \in 1 .. n : c2[q] = d[q]
  <2>1. d \in Seq(KnownOp) /\ Len(d) = n
    BY Zenon, <1>1
  <2> HIDE DEF n
  <2> QED
    BY ONLY <1>0, <1>a, <2>1, x \in KnownOp
<1>3. Len(c) = n + 1 /\ c[n + 1] = x /\ \A q \in 1 .. n : c[q] = code[q]
  OBVIOUS
<1> HIDE DEF c
<1>4. ASSUME NEW q \in 0 .. Len(c) - 1
      PROVE  /\ q \notin {p} => c2[q + 1] = c[q + 1]
             /\ q \in {p} => c2[q + 1].op = c[q + 1].op /\ c2[q + 1].b = Len(c) /\ Branchy(c[q + 1])
  <2>1. CASE q = n
    <3>1. q \notin {p}
      BY <1>0, <2>1
    <3> QED
      BY <1>2, <1>3, <2>1, <3>1
  <2>2. CASE q # n
    <3>1. q + 1 \in 1 .. n /\ (q + 1) - 1 = q
      BY <1>0, <1>3, <2>2
    <3>2. c2[q + 1] = IF q \in {p} THEN Cu(code[q + 1].op, code[q + 1].a, n + 1) ELSE code[q + 1]
      BY Zenon, <1>1, <1>2, <3>1
    <3>3. c[q + 1] = code[q + 1] /\ Len(c) = n + 1
      BY Zenon, <1>3, <3>1
    <3> QED
      BY ONLY <3>2, <3>3, Branchy(code[p + 1]) DEF Cu
  <2> QED
    BY Zenon, <2>1, <2>2
<1> QED
  BY Zenon, <1>2, <1>3, <1>4 DEF Patched, c

\* At the end of a block, its results are on the stack where the code is reached.
LEMMA ExactHeight ==
    ASSUME Turn, ctrl # <<>>, NEW n \in Nat, Exactly(n)
    PROVE  /\ Live => h = Top.base + n
           /\ VTop = val.frames[Len(ctrl)] /\ Len(val.frames) = Len(ctrl) /\ Len(ctrl) \in Nat \ {0}
           /\ Live => VTop.reach
<1>1. Types /\ Agreed /\ ctrl \in Seq(Label)
  BY Zenon, TurnTypes DEF Turn
<1>2. /\ Len(ctrl) \in Nat \ {0} /\ Len(val.frames) = Len(ctrl) /\ VTop = val.frames[Len(ctrl)]
      /\ VTop.base \in Nat
  BY <1>1, TopFrame
<1>3. Agree(ctrl, val.frames, h, dead, val.h, cur.nr)
  BY Zenon, <1>1 DEF Agreed
<1>4. Len(ctrl) \in 1 .. Len(ctrl)
  BY <1>2
<1>5. VTop.reach => Top.base = VTop.base
  BY Zenon, <1>2, <1>3, <1>4 DEF Agree, Top
<1>6. Live => h = val.h
  BY Zenon, <1>1, PopsOk, 0 \in Nat
<1>7. Live => VTop.reach /\ ~ VTop.poly
  BY Zenon DEF Live
<1>8. Live => val.h = VTop.base + n
  BY Zenon, <1>7 DEF Exactly
<1> QED
  BY <1>2, <1>5, <1>6, <1>7, <1>8

\* else starts an arm that is reached if the if is.
LEMMA SwapReach ==
    ASSUME Turn, ctrl # <<>>, NEW n, val' = Swap(n), ctrl' # <<>>
    PROVE  /\ \A i \in 1 .. Len(ctrl) : val'.frames[i].reach = val.frames[i].reach
           /\ Here' <=> VTop.reach
<1> DEFINE k == Len(ctrl)
           fr == val.frames
           g == [base |-> VTop.base, poly |-> FALSE, reach |-> VTop.reach]
<1>1. k \in Nat \ {0} /\ Len(fr) = k /\ VTop = fr[k]
  BY Zenon, TopFrame DEF Turn
<1>2. val'.frames = [i \in 1 .. k |-> IF i < k THEN fr[i] ELSE g]
  BY Zenon, <1>1 DEF Swap
<1>3. g.reach = VTop.reach /\ g.poly = FALSE
  BY Zenon
<1> HIDE DEF g
<1>4. Len(val'.frames) = k /\ val'.frames[k] = g /\ \A i \in 1 .. k - 1 : val'.frames[i] = fr[i]
  BY <1>1, <1>2
<1>5. \A i \in 1 .. k : val'.frames[i].reach = fr[i].reach
  <2> TAKE i \in 1 .. k
  <2>1. CASE i = k
    BY Zenon, <1>1, <1>3, <1>4, <2>1
  <2>2. CASE i # k
    BY <1>1, <1>4, <2>2
  <2> QED
    BY Zenon, <2>1, <2>2
<1>6. VTop' = g
  BY Zenon, <1>4 DEF VTop
<1>7. Live' <=> VTop.reach
  BY Zenon, <1>3, <1>6 DEF Live
<1>8. Here' <=> VTop.reach
  BY Zenon, <1>7 DEF Here
<1> QED
  BY Zenon, <1>5, <1>8

\* What Pending adds to a label.
LEMMA PendingAdds ==
    ASSUME ctrl \in Seq(Label), NEW i \in 1 .. Len(ctrl), NEW p \in Nat \ {0}
    PROVE  Pending(i, p) \in Seq(Label) /\ Adds(ctrl, Pending(i, p), i, p - 1)
<1>1. Pending(i, p) \in Seq(Label) /\ Len(Pending(i, p)) = Len(ctrl)
  BY Zenon, PendingType
<1>2. CASE ctrl[i].kind = "loop"
  <2>1. Pending(i, p) = ctrl
    BY Zenon, <1>2 DEF Pending
  <2> QED
    BY <1>1, <1>2, <2>1 DEF Adds
<1>3. CASE ctrl[i].kind # "loop"
  <2> DEFINE l == [kind |-> ctrl[i].kind, start |-> ctrl[i].start,
                   br_if_not |-> ctrl[i].br_if_not, else_br |-> ctrl[i].else_br,
                   patches |-> ctrl[i].patches \cup {p - 1}, has_else |-> ctrl[i].has_else,
                   base |-> ctrl[i].base, np |-> ctrl[i].np, nr |-> ctrl[i].nr,
                   dead_on_entry |-> ctrl[i].dead_on_entry]
             ct2 == Pending(i, p)
  <2>1. \A j \in 1 .. Len(ctrl) : ct2[j] = IF j # i THEN ctrl[j] ELSE l
    BY Zenon, <1>3 DEF Pending
  <2>2. /\ l.kind = ctrl[i].kind /\ l.start = ctrl[i].start /\ l.br_if_not = ctrl[i].br_if_not
        /\ l.else_br = ctrl[i].else_br /\ l.patches = ctrl[i].patches \cup {p - 1}
        /\ l.has_else = ctrl[i].has_else /\ l.base = ctrl[i].base /\ l.np = ctrl[i].np
        /\ l.nr = ctrl[i].nr
    BY Zenon
  <2>3. Len(ct2) = Len(ctrl)
    BY Zenon, <1>1
  <2> HIDE DEF l, ct2
  <2>4. Adds(ctrl, ct2, i, p - 1)
    BY Zenon, <1>3, <2>1, <2>2, <2>3 DEF Adds
  <2> QED
    BY Zenon, <1>1, <2>4 DEF ct2
<1> QED
  BY Zenon, <1>2, <1>3

\* else: the label at its end.
LEMMA HeightElse ==
    ASSUME Turn, NEW o, OperatorOk(o), Else(o)
    PROVE  HeightsOk'
<1> DEFINE k == Len(ctrl)
           n == Len(code)
           x == Cu("BR", 0, 0)
           g == [kind |-> "if", start |-> Top.start, br_if_not |-> Top.br_if_not,
                 else_br |-> Len(code), patches |-> Top.patches,
                 has_else |-> TRUE, base |-> Top.base, np |-> Top.np,
                 nr |-> Top.nr, dead_on_entry |-> Top.dead_on_entry]
           m == KM(Len(consts'))
           fr == val.frames
           fr2 == val'.frames
           off == cur.off
           p == Top.br_if_not
<1>1. /\ ctrl # <<>> /\ Top.kind = "if" /\ ~ Top.has_else /\ Exactly(Top.nr)
      /\ code' = Append(Patch({p}, Len(code) + 1), x) /\ hv' = hv \o Heights(<<h>>)
      /\ ctrl' = [j \in 1 .. k |-> IF j < k THEN ctrl[j] ELSE g]
      /\ h' = Top.base + Top.np /\ val' = Swap(Top.np) /\ low' = "ops"
  <2>1. /\ Read(o, 1, Top.kind = "if" /\ Exactly(Top.nr)) /\ inp.valid /\ ~ Top.has_else
    BY Zenon DEF Else, Turn
  <2>2. ctrl # <<>> /\ Top.kind = "if" /\ Exactly(Top.nr) /\ low = "ops"
    BY Zenon, <2>1 DEF Read
  <2> QED
    BY ZenonT(60), <2>1, <2>2 DEF Else
<1>t. /\ code \in Seq(KnownOp) /\ hv \in Seq(Int) /\ Len(hv) = Len(code) /\ cur.off \in Nat
      /\ cur.off <= Len(code) /\ ctrl \in Seq(Label) /\ h \in Nat /\ ctrl' \in Seq(Label)
      /\ LabelsOk(ctrl, cur.off, Len(code)) /\ code' \in Seq(KnownOp)
  BY Zenon, TurnTypes
<1>x. x \in KnownOp /\ x.op = "BR"
  BY Zenon DEF Cu, KnownOp, KnownOps, Control
<1>2. /\ k \in Nat \ {0} /\ Top \in Label /\ Top = ctrl[k] /\ Top.nr \in Nat /\ Top.np \in Nat
      /\ Top.base \in Nat /\ p \in Int
  BY <1>1, <1>t, TopType DEF Top
<1>3. PICK y \in Int : Heights(<<h>>) = <<y>> /\ (Live => y = h) /\ (~ Live => y = -1)
  <2>1. h \in Int
    BY <1>t
  <2> QED
    BY <2>1, MarkOne
<1>4. /\ g.kind = "if" /\ g.has_else /\ g.else_br = n /\ g.patches = Top.patches
      /\ g.start = Top.start /\ g.base = Top.base /\ g.np = Top.np /\ g.nr = Top.nr
  BY Zenon
<1> HIDE DEF g
<1>5. Len(ctrl') = k /\ ctrl'[k] = g /\ \A i \in 1 .. k - 1 : ctrl'[i] = ctrl[i]
  BY <1>1, <1>2
<1>6. ctrl' # <<>>
  BY ONLY <1>2, <1>5
<1>7. /\ \A i \in 1 .. k : fr2[i].reach = fr[i].reach
      /\ Here' <=> VTop.reach
  BY <1>1, <1>6, SwapReach
<1>8. /\ Live => h = Top.base + Top.nr
      /\ VTop = fr[k] /\ (Live => VTop.reach)
  BY <1>1, <1>2, ExactHeight
<1>9. Flowing(m, FM, off, code, hv, ctrl, fr, h, Here, SmallTypes) /\ off \in Nat /\ LabelsOk(ctrl, off, n)
  BY <1>t, TurnFacts
<1>10. p \in Joins(Top)
  BY Zenon, <1>1 DEF Joins
<1>11. /\ p < Len(code) /\ Branchy(code[p + 1]) /\ p >= cur.off
  <2>1. k \in 1 .. Len(ctrl)
    BY <1>2
  <2>2. LabelFresh(ctrl[k], code)
    BY Zenon, <1>9, <2>1 DEF Flowing
  <2>3. LabelOk(ctrl[k], k, cur.off, Len(code))
    BY Zenon, <1>t, <2>1 DEF LabelsOk
  <2> QED
    BY Zenon, <1>2, <1>10, <2>2, <2>3 DEF LabelFresh, LabelOk
<1>12. p \in Nat
  BY <1>t, <1>2, <1>11
<1> DEFINE ct1 == Pending(k, n + 1)
<1>13. ct1 \in Seq(Label) /\ Adds(ctrl, ct1, k, n)
  <2>1. k \in 1 .. Len(ctrl) /\ n + 1 \in Nat \ {0} /\ (n + 1) - 1 = n
    BY <1>t, <1>2
  <2> QED
    BY Zenon, <1>t, <2>1, PendingAdds
<1>14. Patched(code \o <<x>>, code', {p})
  <2> HIDE DEF x, p
  <2> QED
    BY Zenon, <1>t, <1>x, <1>1, <1>11, <1>12, PatchedNext
<1>15. SmallTypes /\ Here => y = h /\ h = Top.base + Top.nr /\ fr[k].reach
  BY Zenon, <1>3, <1>8 DEF Here
<1>16. ~ Here => y = -1
  BY <1>1, <1>3 DEF Here
<1>17. fr[k].reach => Here'
  BY Zenon, <1>7, <1>8
<1>18. ElseLabels(ctrl, ct1, ctrl', k, Len(code))
  <2>1. k = Len(ctrl) /\ ctrl[k].kind = "if" /\ ~ ctrl[k].has_else
    BY Zenon, <1>1, <1>2
  <2> HIDE DEF ct1
  <2> QED
    BY ONLY <1>2, <1>4, <1>5, <1>13, <2>1 DEF ElseLabels
<1>19. ElseHeights(ctrl[k], fr, fr2, k, y, h, Here, h', Here', SmallTypes)
  <2>1. h' = ctrl[k].base + ctrl[k].np
    BY Zenon, <1>1, <1>2
  <2>2. SmallTypes /\ Here => y = h /\ h = ctrl[k].base + ctrl[k].nr /\ fr[k].reach
    BY Zenon, <1>2, <1>15
  <2> QED
    BY ONLY <1>7, <1>16, <1>17, <2>1, <2>2 DEF ElseHeights
<1>20. Patched(code \o <<x>>, code', {ctrl[k].br_if_not})
  BY Zenon, <1>2, <1>14
<1> HIDE DEF m, fr, fr2, off, x, n, k, p, ct1
<1>21. Flowing(m, FM, off, code', hv \o <<y>>, ctrl', fr2, h', Here', SmallTypes)
  BY ONLY Zenon, <1>x, <1>t, <1>3, <1>9, <1>13, <1>18, <1>19, <1>20, FlowElse
<1>22. Flowing(KM(Len(consts')), FM, cur.off, code', hv', ctrl', val'.frames, h', Here', SmallTypes)
  BY Zenon, <1>1, <1>3, <1>21 DEF m, fr2, off
<1>23. Ended(ctrl', code', cur.off)
  BY Zenon, <1>6 DEF Ended
<1>24. hv' \in Seq(Int) /\ Len(hv') = Len(code')
  <2>1. Len(code') = Len(code) + 1
    <3>1. Len(code \o <<x>>) = Len(code) + 1
      BY ONLY <1>t, <1>x
    <3> QED
      BY <1>14, <3>1 DEF Patched
  <2>2. hv' = hv \o <<y>>
    BY Zenon, <1>1, <1>3
  <2> QED
    BY ONLY <1>t, <1>3, <2>1, <2>2
<1>25. \A q \in 1 .. cur.off : code'[q] = code[q] /\ hv'[q] = hv[q]
  <2> TAKE q \in 1 .. cur.off
  <2>1. q \in 1 .. Len(code) /\ q - 1 \in 0 .. Len(code) - 1 /\ (q - 1) + 1 = q /\ q - 1 # p
    BY <1>t, <1>11, <1>12
  <2>2. (code \o <<x>>)[q] = code[q] /\ Len(code \o <<x>>) = Len(code) + 1
    BY ONLY <1>t, <1>x, <2>1
  <2>3. q - 1 \in 0 .. Len(code \o <<x>>) - 1 /\ q - 1 \notin {p}
    BY <1>t, <2>1, <2>2
  <2>4. code'[q] = code[q]
    BY ONLY <1>14, <2>1, <2>2, <2>3 DEF Patched
  <2>5. hv' = hv \o <<y>>
    BY Zenon, <1>1, <1>3
  <2>6. hv'[q] = hv[q]
    BY ONLY <1>t, <1>3, <2>1, <2>5
  <2> QED
    BY <2>4, <2>6
<1> QED
  BY Zenon, <1>1, <1>22, <1>23, <1>24, <1>25, HeightStep

\* After the end of a block the code is reached if the block was.
LEMMA LeaveReach ==
    ASSUME Turn, ctrl # <<>>, NEW n, val' = Leave(n), NEW k, k = Len(ctrl),
           ctrl' = [j \in 1 .. k - 1 |-> ctrl[j]]
    PROVE  /\ \A i \in 1 .. k - 1 : val'.frames[i].reach = val.frames[i].reach
           /\ Len(ctrl') = k - 1 /\ \A i \in 1 .. k - 1 : ctrl'[i] = ctrl[i]
           /\ k > 1 => (Here' <=> val.frames[k].reach)
           /\ k = 1 => ctrl' = <<>> /\ ~ Here'
<1> DEFINE fr == val.frames
<1>t. ctrl' \in Seq(Label) /\ Types /\ Agreed
  BY Zenon, TurnTypes DEF Turn
<1>1. k \in Nat \ {0} /\ Len(fr) = k
  BY Zenon, <1>t, TopFrame
<1>2. val'.frames = [i \in 1 .. k - 1 |-> fr[i]]
  BY Zenon, <1>1 DEF Leave
<1>3. Len(ctrl') = k - 1 /\ \A i \in 1 .. k - 1 : ctrl'[i] = ctrl[i]
  BY <1>1
<1>4. Len(val'.frames) = k - 1 /\ \A i \in 1 .. k - 1 : val'.frames[i] = fr[i]
  BY <1>1, <1>2
<1>5. k = 1 => ctrl' = <<>> /\ ~ Here'
  <2> SUFFICES ASSUME k = 1 PROVE ctrl' = <<>> /\ ~ Here'
    BY Zenon
  <2>1. Len(ctrl') = 0
    BY <1>3
  <2>2. ctrl' = <<>>
    BY ONLY <1>t, <2>1
  <2> QED
    BY Zenon, <2>2 DEF Here
<1>6. k > 1 => (Here' <=> fr[k].reach)
  <2> SUFFICES ASSUME k > 1 PROVE Here' <=> fr[k].reach
    BY Zenon
  <2>1. ctrl' # <<>>
    BY ONLY <1>1, <1>3, k > 1
  <2>2. k - 1 \in 1 .. k - 1 /\ (k - 1) + 1 = k /\ k - 1 \in 1 .. Len(ctrl) - 1
    BY ONLY <1>1, k > 1, k = Len(ctrl)
  <2>3. VTop' = fr[k - 1]
    BY ONLY Zenon, <1>4, <2>2 DEF VTop
  <2>4. Live' <=> LiveIn(fr[k - 1])
    BY Zenon, <2>3 DEF Live, LiveIn
  <2>5. fr[k].reach <=> LiveIn(fr[k - 1])
    <3>1. Agree(ctrl, fr, h, dead, val.h, cur.nr)
      BY Zenon, <1>t DEF Agreed
    <3>2. \A i \in 1 .. Len(ctrl) - 1 : fr[i + 1].reach <=> LiveIn(fr[i])
      BY Zenon, <3>1 DEF Agree
    <3> QED
      BY ONLY Zenon, <2>2, <3>2
  <2> QED
    BY Zenon, <2>1, <2>4, <2>5 DEF Here
<1>7. \A i \in 1 .. k - 1 : val'.frames[i].reach = fr[i].reach
  BY Zenon, <1>4
<1> QED
  BY Zenon, <1>3, <1>5, <1>6, <1>7

\* The flow at the end of a block, before the instruction that ends a function.
LEMMA EndFlow ==
    ASSUME Turn, NEW o, End(o), NEW c2, c2 = Patch(Joins(Top), Len(code)),
           NEW live2, val.frames[Len(ctrl)].reach => live2
    PROVE  /\ Flowing(KM(Len(consts')), FM, cur.off, c2, hv, ctrl', val'.frames, h', live2, SmallTypes)
           /\ c2 \in Seq(KnownOp) /\ Len(c2) = Len(code)
           /\ \A q \in 1 .. cur.off : c2[q] = code[q]
<1> DEFINE k == Len(ctrl)
           l == ctrl[k]
           n == Len(code)
           m == KM(Len(consts'))
           fr == val.frames
           fr2 == val'.frames
           off == cur.off
           ps == Joins(l)
<1>1. /\ ctrl # <<>> /\ Exactly(Top.nr) /\ (Top.kind = "if" /\ ~ Top.has_else => Top.np = Top.nr)
      /\ ctrl' = [j \in 1 .. k - 1 |-> ctrl[j]] /\ h' = Top.base + Top.nr /\ val' = Leave(Top.nr)
  BY Zenon DEF End, Read, Turn
<1>t. /\ code \in Seq(KnownOp) /\ Len(code) \in Nat /\ cur.off \in Nat
      /\ cur.off <= Len(code) /\ ctrl \in Seq(Label) /\ ctrl' \in Seq(Label)
      /\ LabelsOk(ctrl, cur.off, Len(code))
  BY TurnTypes
<1>2. k \in Nat \ {0} /\ Top \in Label /\ Top = l /\ Top.nr \in Nat
  BY <1>1, <1>t, TopType DEF Top
<1>3. /\ \A i \in 1 .. k - 1 : fr2[i].reach = fr[i].reach
      /\ Len(ctrl') = k - 1 /\ \A i \in 1 .. k - 1 : ctrl'[i] = ctrl[i]
  BY Zenon, <1>1, LeaveReach
<1>4. /\ Live => h = Top.base + Top.nr
      /\ VTop = fr[k] /\ (Live => VTop.reach)
  BY <1>1, <1>2, ExactHeight
<1>5. Flowing(m, FM, off, code, hv, ctrl, fr, h, Here, SmallTypes) /\ off \in Nat /\ LabelsOk(ctrl, off, n)
  BY Zenon, <1>t, TurnFacts
<1>6. /\ LabelFresh(l, code) /\ LabelOk(l, k, off, n)
  <2>1. k \in 1 .. Len(ctrl)
    BY <1>2
  <2>2. LabelFresh(ctrl[k], code)
    BY Zenon, <1>5, <2>1 DEF Flowing
  <2>3. LabelOk(ctrl[k], k, off, n)
    BY Zenon, <1>5, <2>1 DEF LabelsOk
  <2> QED
    BY Zenon, <2>2, <2>3
<1>7. \A p \in ps : p < Len(code) /\ Branchy(code[p + 1])
  BY Zenon, <1>6 DEF LabelFresh
<1>8. c2 = Patch(ps, Len(code))
  BY Zenon, <1>2
<1>9. c2 \in Seq(KnownOp) /\ Len(c2) = Len(code)
  BY <1>t, <1>8, PatchType
<1>10. Patched(code, c2, ps)
  <2> HIDE DEF ps
  <2> QED
    BY ONLY Zenon, <1>t, <1>7, <1>8, PatchedHere
<1>11. EndHeights(l, fr[k], h, Here, h', live2, SmallTypes)
  <2>1. h' = l.base + l.nr /\ (l.kind = "if" /\ ~ l.has_else => l.np = l.nr)
    BY Zenon, <1>1, <1>2
  <2>2. SmallTypes /\ Here => live2 /\ h' = h
    BY Zenon, <1>1, <1>4 DEF Here
  <2> QED
    BY Zenon, <2>1, <2>2 DEF EndHeights
<1>12. Closes(ctrl, fr, ctrl', fr2, k)
  <2>1. k = Len(ctrl)
    BY Zenon
  <2> HIDE DEF k, fr, fr2
  <2> QED
    BY ONLY Zenon, <1>2, <1>3, <2>1 DEF Closes
<1>15. \A q \in 1 .. cur.off : c2[q] = code[q]
  <2> TAKE q \in 1 .. cur.off
  <2>1. q - 1 \in 0 .. Len(code) - 1 /\ (q - 1) + 1 = q /\ q - 1 < cur.off
    BY <1>t
  <2>2. q - 1 \notin ps
    <3>1. \A p \in ps : p >= cur.off
      BY Zenon, <1>6 DEF LabelOk
    <3> HIDE DEF ps
    <3> QED
      BY ONLY <1>t, <2>1, <3>1
  <2> QED
    BY ONLY <1>10, <2>1, <2>2 DEF Patched
<1> HIDE DEF m, fr, fr2, off, n, k
<1>16. Flowing(m, FM, off, c2, hv, ctrl', fr2, h', live2, SmallTypes)
  BY ONLY Zenon, <1>t, <1>5, <1>9, <1>10, <1>11, <1>12, FlowEnd
<1> QED
  BY <1>9, <1>15, <1>16 DEF m, fr2, off

\* end keeps the heights consistent.
LEMMA HeightEnd ==
    ASSUME Turn, NEW o, End(o)
    PROVE  HeightsOk'
<1> DEFINE k == Len(ctrl)
           c2 == Patch(Joins(Top), Len(code))
           x == Cu("END_FUNC", cur.nr, 0)
           fr == val.frames
           fr2 == val'.frames
           m == KM(Len(consts'))
           off == cur.off
<1>1. /\ ctrl # <<>> /\ ctrl' = [j \in 1 .. k - 1 |-> ctrl[j]] /\ h' = Top.base + Top.nr
      /\ val' = Leave(Top.nr) /\ low' = "ops"
      /\ \/ Top.kind = "func" /\ code' = Append(c2, x) /\ hv' = Append(hv, cur.nr)
         \/ Top.kind # "func" /\ code' = c2 /\ hv' = hv
  BY Zenon DEF End, Read, Turn
<1>t. /\ code \in Seq(KnownOp) /\ Len(code) \in Nat /\ cur.off \in Nat /\ hv \in Seq(Int)
      /\ cur.off <= Len(code) /\ ctrl \in Seq(Label) /\ ctrl' \in Seq(Label) /\ Len(hv) = Len(code)
      /\ LabelsOk(ctrl, cur.off, Len(code))
  BY TurnTypes
<1>2. k \in Nat \ {0} /\ Top = ctrl[k]
  BY <1>1, <1>t, TopType DEF Top
<1>3. /\ Len(ctrl') = k - 1 /\ (k > 1 => (Here' <=> fr[k].reach))
      /\ k = 1 => ctrl' = <<>> /\ ~ Here'
  BY Zenon, <1>1, LeaveReach
<1>4. Top.kind = "func" <=> k = 1
  <2>1. k \in 1 .. Len(ctrl)
    BY <1>2
  <2> QED
    BY Zenon, <1>t, <1>2, <2>1 DEF LabelsOk, LabelOk
<1>5. c2 = Patch(Joins(Top), Len(code))
  BY Zenon
<1> HIDE DEF c2
<1>6. CASE Top.kind # "func"
  <2>1. k > 1
    <3>1. k # 1
      BY Zenon, <1>4, <1>6
    <3> HIDE DEF k
    <3> QED
      BY ONLY <1>2, <3>1
  <2>2. val.frames[Len(ctrl)].reach => Here'
    BY Zenon, <1>3, <2>1
  <2>3. /\ Flowing(KM(Len(consts')), FM, cur.off, c2, hv, ctrl', val'.frames, h', Here', SmallTypes)
        /\ Len(c2) = Len(code) /\ \A q \in 1 .. cur.off : c2[q] = code[q]
    BY <1>5, <2>2, EndFlow
  <2>4. code' = c2 /\ hv' = hv
    BY Zenon, <1>1, <1>6
  <2>5. Ended(ctrl', code', cur.off)
    <3>1. ctrl' # <<>>
      BY ONLY <1>2, <1>3, <2>1
    <3> QED
      BY Zenon, <3>1 DEF Ended
  <2> QED
    BY <1>t, <1>1, <2>3, <2>4, <2>5, HeightStep
<1>7. CASE Top.kind = "func"
  <2>1. k = 1 /\ ctrl' = <<>> /\ ~ Here'
    BY <1>2, <1>3, <1>4, <1>7
  <2>2. code' = Append(c2, x) /\ hv' = Append(hv, cur.nr)
    BY Zenon, <1>1, <1>7
  <2> DEFINE live == fr[k].reach
  <2>3. val.frames[Len(ctrl)].reach => live
    BY Zenon
  <2> HIDE DEF live
  <2>4. /\ Flowing(KM(Len(consts')), FM, cur.off, c2, hv, ctrl', val'.frames, h', live, SmallTypes)
        /\ c2 \in Seq(KnownOp) /\ Len(c2) = Len(code) /\ \A q \in 1 .. cur.off : c2[q] = code[q]
    BY <1>5, <2>3, EndFlow
  <2>5. h' = cur.nr
    <3>1. Agree(ctrl, fr, h, dead, val.h, cur.nr)
      BY Zenon DEF Turn, Agreed
    <3>2. ctrl[1].base = 0 /\ ctrl[1].nr = cur.nr
      BY Zenon, <1>1, <3>1 DEF Agree
    <3>3. cur.nr \in Nat
      BY Zenon, TurnFunc
    <3> QED
      BY <1>1, <1>2, <2>1, <3>2, <3>3
  <2>6. cur.nr \in Nat /\ FM.n_results = cur.nr
    BY Zenon, TurnFunc
  <2>7. x \in KnownOp /\ x.op = "END_FUNC"
    BY Zenon, <2>6 DEF Cu, KnownOp, KnownOps, Control, Returns
  <2> HIDE DEF x, m
  <2>8. ~ Branchy(x) /\ InstrOk(m, FM, x) /\ Need(m, FM, x) = cur.nr /\ x.op \in NoFall /\ x.op \in Returns
    BY Zenon, <2>6, <2>7 DEF Branchy, InstrOk, Need, PopOne, Returns, NoFall
  <2> DEFINE y == cur.nr
             n == Len(code)
             ct == ctrl'
  <2>9. /\ y \in Int /\ (SmallTypes /\ live => y = h')
        /\ (SmallTypes /\ y >= 0 => y >= Need(m, FM, x)
               /\ (x.op \notin NoFall => Here' /\ h' = NextHeight(m, FM, x, y)))
    BY <2>5, <2>6, <2>8
  <2>10. ct \in Seq(Label) /\ LabelsOk(ct, off, n) /\ \A i \in 1 .. Len(ct) : fr2[i].reach = fr2[i].reach
    <3>1. Len(ctrl') = 0 /\ ctrl' \in Seq(Label)
      BY <1>t, <1>2, <1>3, <2>1
    <3> QED
      BY <3>1 DEF LabelsOk
  <2>11. Flowing(m, FM, off, c2, hv, ct, fr2, h', live, SmallTypes) /\ off \in Nat
         /\ Len(hv) = Len(c2)
    BY Zenon, <1>t, <2>4 DEF m
  <2> HIDE DEF y, n, ct, fr2, off
  <2>12. Flowing(m, FM, off, c2 \o <<x>>, hv \o <<y>>, ct, fr2, h', Here', SmallTypes)
    BY ONLY Zenon, <1>t, <2>4, <2>7, <2>8, <2>9, <2>10, <2>11, FlowOne
  <2>13. code' = c2 \o <<x>> /\ hv' = hv \o <<y>>
    <3>1. Append(c2, x) = c2 \o <<x>>
      BY ONLY <2>4, <2>7
    <3>2. Append(hv, y) = hv \o <<y>>
      BY ONLY <1>t, <2>9
    <3> QED
      BY <2>2, <3>1, <3>2 DEF y
  <2>14. Flowing(KM(Len(consts')), FM, cur.off, code', hv', ctrl', val'.frames, h', Here', SmallTypes)
    BY <2>12, <2>13 DEF m, fr2, off, ct
  <2>15. /\ hv' \in Seq(Int) /\ Len(hv') = Len(code') /\ Len(code') = Len(code) + 1
         /\ code'[Len(code')] = x /\ \A q \in 1 .. cur.off : code'[q] = code[q] /\ hv'[q] = hv[q]
    <3>1. /\ Len(code') = Len(code) + 1 /\ code'[Len(code) + 1] = x
          /\ \A q \in 1 .. Len(code) : code'[q] = c2[q]
      BY ONLY <1>t, <2>4, <2>7, <2>13
    <3>2. /\ hv' \in Seq(Int) /\ Len(hv') = Len(code) + 1 /\ \A q \in 1 .. Len(code) : hv'[q] = hv[q]
      BY ONLY <1>t, <2>9, <2>13
    <3>3. \A q \in 1 .. cur.off : code'[q] = code[q] /\ hv'[q] = hv[q]
      <4> TAKE q \in 1 .. cur.off
      <4>1. q \in 1 .. Len(code)
        BY <1>t
      <4> QED
        BY <2>4, <3>1, <3>2, <4>1
    <3> QED
      BY <3>1, <3>2, <3>3
  <2>16. Ended(ctrl', code', cur.off)
    BY ONLY <1>t, <2>8, <2>15 DEF Ended
  <2> QED
    BY <1>1, <2>14, <2>15, <2>16, HeightStep
<1> QED
  BY <1>6, <1>7

-----------------------------------------------------------------------------
\* The instructions js of a jump to label i at height hh, with heights hs.
Lands(m, js, hs, i, hh) ==
    /\ js \in Seq(KnownOp) /\ hs \in Seq(Int) /\ Len(hs) = Len(js) /\ Len(js) \in 1 .. 2
    /\ js[Len(js)].op = "BR" /\ (ctrl[i].kind = "loop" => js[Len(js)].b = ctrl[i].start)
    /\ \A j \in 1 .. Len(js) : InstrOk(m, FM, js[j])
    /\ hs[1] = hh
    /\ ~ dead /\ hh >= DestH(i) =>
          /\ hs[Len(js)] = DestH(i)
          /\ Len(js) = 2 => /\ hs[1] >= Need(m, FM, js[1]) /\ js[1].op \notin NoFall
                            /\ hs[2] = NextHeight(m, FM, js[1], hs[1]) /\ ~ Branchy(js[1])

\* A jump arrives at the height of its label.
LEMMA JumpLands ==
    ASSUME Turn, NEW i \in 1 .. Len(ctrl), NEW hh \in Int, NEW m
    PROVE  Lands(m, JumpCode(i, hh), JumpHeights(i, hh), i, hh)
<1> DEFINE a == LabelArity(ctrl[i])
           d == DestH(i)
           br == Cu("BR", 0, IF ctrl[i].kind = "loop" THEN ctrl[i].start ELSE 0)
           un == Cu("UNWIND", a, cur.np + cur.nl + d)
           js == JumpCode(i, hh)
           hs == JumpHeights(i, hh)
<1>1. Types /\ ctrl \in Seq(Label)
  BY TurnTypes DEF Turn
<1>2. a \in Nat /\ d \in Nat /\ ctrl[i].base \in Nat /\ d = ctrl[i].base + a
  BY <1>1, LabelType DEF DestH
<1>3. NumLocals(FM) = cur.np + cur.nl /\ cur.np \in Nat /\ cur.nl \in Nat
  BY TurnFunc
<1>4. js \in Seq(KnownOp)
  BY <1>1, JumpType
<1>5. br.op = "BR" /\ (ctrl[i].kind = "loop" => br.b = ctrl[i].start)
  BY Zenon DEF Cu
<1>6. un.op = "UNWIND" /\ un.a = a /\ un.b = cur.np + cur.nl + d
  BY Zenon DEF Cu
<1>7. IF Unwinds(i, hh) THEN js = <<un, br>> /\ hs = <<hh, d>> ELSE js = <<br>> /\ hs = <<hh>>
  BY Zenon DEF JumpCode, JumpHeights
<1>8. InstrOk(m, FM, br)
  <2> HIDE DEF br
  <2> QED
    BY <1>5 DEF InstrOk
<1>9. /\ InstrOk(m, FM, un) /\ Need(m, FM, un) = d /\ un.op \notin NoFall /\ ~ Branchy(un)
      /\ NextHeight(m, FM, un, hh) = d
  <2> HIDE DEF un, d, a
  <2>1. un.b - NumLocals(FM) = d /\ un.b >= NumLocals(FM) /\ un.a <= d
    <3>1. un.a = a /\ un.b = NumLocals(FM) + d
      BY Zenon, <1>3, <1>6
    <3>2. NumLocals(FM) \in Nat /\ a <= d
      BY ONLY <1>2, <1>3
    <3>3. a \in Nat /\ d \in Nat
      BY Zenon, <1>2
    <3> QED
      BY ONLY <3>1, <3>2, <3>3
  <2> QED
    BY <1>6, <2>1 DEF InstrOk, Need, NextHeight, NoFall, Branchy, PopOne, Returns, PushOne, LoseOne, Bulk
<1> HIDE DEF br, un, d, a, js, hs
<1>10. CASE Unwinds(i, hh)
  <2>1. /\ Len(js) = 2 /\ Len(hs) = 2 /\ js[1] = un /\ js[2] = br /\ hs[1] = hh /\ hs[2] = d
        /\ hs \in Seq(Int)
    <3>1. js = <<un, br>> /\ hs = <<hh, d>>
      BY Zenon, <1>7, <1>10
    <3>2. Len(js) = 2 /\ js[1] = un /\ js[2] = br
      BY ONLY Zenon, <3>1
    <3>3. Len(hs) = 2 /\ hs[1] = hh /\ hs[2] = d /\ hs \in Seq(Int)
      BY ONLY <1>2, <3>1, hh \in Int
    <3> QED
      BY <3>2, <3>3
  <2>2. hh > d
    BY Zenon, <1>10 DEF Unwinds, d
  <2>3. d = DestH(i)
    BY Zenon DEF d
  <2>4. \A j \in 1 .. Len(js) : InstrOk(m, FM, js[j])
    BY <1>8, <1>9, <2>1
  <2>5. hh >= d
    BY <1>2, <2>2
  <2>6. Len(js) \in 1 .. 2
    BY <2>1
  <2>7. /\ Len(hs) = Len(js) /\ js[Len(js)] = br /\ hs[Len(js)] = d
    BY ONLY Zenon, <2>1
  <2>8. Lands(m, js, hs, i, hh)
    BY Zenon, <1>4, <1>5, <1>9, <2>1, <2>3, <2>4, <2>5, <2>6, <2>7 DEF Lands
  <2> QED
    BY <2>8 DEF js, hs
<1>11. CASE ~ Unwinds(i, hh)
  <2>1. Len(js) = 1 /\ Len(hs) = 1 /\ js[1] = br /\ hs[1] = hh /\ hs \in Seq(Int)
    <3>1. js = <<br>> /\ hs = <<hh>>
      BY Zenon, <1>7, <1>11
    <3>2. Len(js) = 1 /\ js[1] = br
      BY ONLY <3>1
    <3>3. Len(hs) = 1 /\ hs[1] = hh /\ hs \in Seq(Int)
      BY ONLY <3>1, hh \in Int
    <3> QED
      BY <3>2, <3>3
  <2>2. ~ dead /\ hh >= d => hh = d
    BY <1>2, <1>11 DEF Unwinds, d
  <2>3. d = DestH(i)
    BY Zenon DEF d
  <2>4. \A j \in 1 .. Len(js) : InstrOk(m, FM, js[j])
    BY <1>8, <2>1
  <2>5. Len(js) \in 1 .. 2 /\ Len(js) # 2
    BY <2>1
  <2>7. Len(hs) = Len(js) /\ js[Len(js)] = br /\ hs[Len(js)] = hh
    BY ONLY <2>1
  <2>6. Lands(m, js, hs, i, hh)
    BY Zenon, <1>4, <1>5, <2>1, <2>2, <2>3, <2>4, <2>5, <2>7 DEF Lands
  <2> QED
    BY Zenon, <2>6 DEF js, hs
<1> QED
  BY <1>10, <1>11

\* A jump to label i after the instructions pre: what holds where it is reached.
Leads(m, i, pre, ps, past, hh) ==
    /\ val.frames[i].reach /\ ~ dead /\ hh >= DestH(i)
    /\ h = (IF pre = <<>> THEN hh ELSE ps[1])
    /\ RunsInto(m, FM, pre, ps, past, hh, h', Here')

\* What the heights are recorded as.
LEMMA MarkAll ==
    ASSUME NEW hs \in Seq(Int)
    PROVE  /\ Heights(hs) \in Seq(Int) /\ Len(Heights(hs)) = Len(hs)
           /\ Live => Heights(hs) = hs
           /\ ~ Live => \A j \in 1 .. Len(hs) : Heights(hs)[j] = -1
<1>1. CASE Live
  BY Zenon, <1>1 DEF Heights
<1>2. CASE ~ Live
  <2>1. Heights(hs) = [i \in 1 .. Len(hs) |-> -1]
    BY Zenon, <1>2 DEF Heights
  <2>2. Len(hs) \in Nat /\ -1 \in Int
    OBVIOUS
  <2> QED
    BY <1>2, <2>1, <2>2
<1> QED
  BY <1>1, <1>2

\* The jump to label i at height hh, after the instructions pre at the heights ps.
Jumping(m, i, pre, ps, past, hh) ==
    /\ pre \in Seq(KnownOp) /\ ps \in Seq(Int) /\ Len(ps) = Len(pre)
    /\ \A j \in 1 .. Len(pre) : InstrOk(m, FM, pre[j])
    /\ past = Len(code) + Len(pre) + Len(JumpCode(i, hh))
    /\ code' = code \o (pre \o JumpCode(i, hh))
    /\ hv' = hv \o Heights(ps \o JumpHeights(i, hh))
    /\ ctrl' = Pending(i, past)

\* A turn that emits such a jump.
LEMMA HeightJump ==
    ASSUME Turn, low' = "ops", ctrl # <<>>, NEW i \in 1 .. Len(ctrl), NEW hh \in Int,
           NEW m, m = KM(Len(consts')), NEW pre, NEW ps, NEW past,
           Jumping(m, i, pre, ps, past, hh),
           \A k \in 1 .. Len(ctrl) : val'.frames[k].reach = val.frames[k].reach,
           Live => Leads(m, i, pre, ps, past, hh)
    PROVE  HeightsOk'
<1> DEFINE js == JumpCode(i, hh)
           hs == JumpHeights(i, hh)
           cs == pre \o js
           us == ps \o hs
           vs == Heights(us)
<1>j. /\ pre \in Seq(KnownOp) /\ ps \in Seq(Int) /\ Len(ps) = Len(pre)
      /\ \A j \in 1 .. Len(pre) : InstrOk(m, FM, pre[j])
      /\ past = Len(code) + Len(pre) + Len(js)
      /\ code' = code \o cs /\ hv' = hv \o vs
      /\ ctrl' = Pending(i, past)
  BY Zenon DEF Jumping
<1>l. Lands(m, js, hs, i, hh)
  BY JumpLands
<1> HIDE DEF js, hs, cs, us, vs
<1>t. /\ code \in Seq(KnownOp) /\ Len(code) \in Nat /\ cur.off \in Nat /\ hv \in Seq(Int)
      /\ cur.off <= Len(code) /\ ctrl \in Seq(Label) /\ ctrl' \in Seq(Label) /\ Len(hv) = Len(code)
      /\ LabelsOk(ctrl, cur.off, Len(code))
  BY ONLY Turn, TurnTypes
<1>d. DestH(i) = ctrl[i].base + LabelArity(ctrl[i])
  BY Zenon DEF DestH
<1>1. /\ js \in Seq(KnownOp) /\ hs \in Seq(Int) /\ Len(hs) = Len(js) /\ Len(js) \in 1 .. 2
      /\ js[Len(js)].op = "BR" /\ (ctrl[i].kind = "loop" => js[Len(js)].b = ctrl[i].start)
      /\ \A j \in 1 .. Len(js) : InstrOk(m, FM, js[j])
      /\ hs[1] = hh
  BY Zenon, <1>l DEF Lands
<1>2. /\ cs \in Seq(KnownOp) /\ us \in Seq(Int) /\ Len(cs) = Len(pre) + Len(js) /\ Len(us) = Len(cs)
      /\ cs # <<>> /\ cs[Len(cs)] = js[Len(js)] /\ us[Len(cs)] = hs[Len(js)]
      /\ us[1] = IF pre = <<>> THEN hh ELSE ps[1]
      /\ \A j \in 1 .. Len(cs) : InstrOk(m, FM, cs[j])
  <2>1. Parts(m, FM, pre, ps, js, hs)
    BY Zenon, <1>j, <1>1 DEF Parts
  <2>2. Whole(m, FM, pre, ps, js, hs, cs, us)
    BY Zenon, <2>1, EntryParts DEF cs, us
  <2> QED
    BY Zenon, <1>1, <2>2 DEF Whole
<1>5. /\ vs \in Seq(Int) /\ Len(vs) = Len(cs) /\ (Live => vs = us)
      /\ ~ Live => \A j \in 1 .. Len(vs) : vs[j] = -1
  BY Zenon, <1>2, MarkAll DEF vs
<1>6. ASSUME Live
      PROVE  /\ val.frames[i].reach /\ vs[1] = h /\ vs[Len(cs)] = ctrl[i].base + LabelArity(ctrl[i])
             /\ \A j \in 1 .. Len(cs) - 1 : Passes(m, FM, cs, vs, past, h', Here', j)
  <2>1. /\ val.frames[i].reach /\ ~ dead /\ hh >= DestH(i) /\ h = (IF pre = <<>> THEN hh ELSE ps[1])
        /\ RunsInto(m, FM, pre, ps, past, hh, h', Here')
    BY Zenon, <1>6 DEF Leads
  <2>2. /\ hs[Len(js)] = DestH(i)
        /\ Len(js) = 2 => /\ hs[1] >= Need(m, FM, js[1]) /\ js[1].op \notin NoFall
                          /\ hs[2] = NextHeight(m, FM, js[1], hs[1]) /\ ~ Branchy(js[1])
    BY Zenon, <1>l, <2>1 DEF Lands
  <2>3. \A j \in 1 .. Len(cs) - 1 : Passes(m, FM, cs, us, past, h', Here', j)
    BY ONLY Zenon, <1>j, <1>1, <2>1, <2>2, EntryPasses DEF cs, us
  <2>4. vs = us
    BY Zenon, <1>5, <1>6
  <2> QED
    BY ONLY Zenon, <1>2, <1>d, <2>1, <2>2, <2>3, <2>4
<1>7. past = Len(code) + Len(cs) /\ past - 1 = (Len(code) + Len(cs)) - 1 /\ past \in Nat \ {0}
  <2>1. Len(js) \in 1 .. 2 /\ Len(cs) = Len(pre) + Len(js)
    BY Zenon, <1>1, <1>2
  <2>2. Len(pre) \in Nat /\ Len(code) \in Nat
    BY ONLY <1>j, <1>t
  <2>3. past = Len(code) + Len(pre) + Len(js)
    BY Zenon, <1>j
  <2> QED
    <3> DEFINE a == Len(code)
               b == Len(pre)
               c == Len(js)
               d == Len(cs)
    <3>1. a \in Nat /\ b \in Nat /\ c \in 1 .. 2 /\ d = b + c /\ past = a + b + c
      BY ONLY <2>1, <2>2, <2>3, Zenon
    <3> HIDE DEF a, b, c, d
    <3>2. past = a + d /\ past - 1 = (a + d) - 1 /\ past \in Nat \ {0}
      BY ONLY <3>1
    <3> QED
      BY ONLY <3>2, Zenon DEF a, d
<1> DEFINE fr == val.frames
           fr2 == val'.frames
           off == cur.off
           n == Len(code)
           p == past - 1
<1>8. Here <=> Live
  BY Zenon DEF Here
<1>9. Jumps(m, FM, code, cs, vs, ctrl, fr, i, h, Here, h', Here', SmallTypes)
  <2>1. SmallTypes /\ Here =>
          /\ fr[i].reach /\ vs[1] = h /\ vs[Len(cs)] = ctrl[i].base + LabelArity(ctrl[i])
          /\ \A j \in 1 .. Len(cs) - 1 : Passes(m, FM, cs, vs, Len(code) + Len(cs), h', Here', j)
    BY Zenon, <1>6, <1>7, <1>8
  <2>2. ~ Here => \A j \in 1 .. Len(vs) : vs[j] = -1
    BY Zenon, <1>5, <1>8
  <2> QED
    BY Zenon, <1>1, <1>2, <1>5, <2>1, <2>2 DEF Jumps
<1>10. Adds(ctrl, ctrl', i, p)
  BY Zenon, <1>j, <1>t, <1>7, PendingAdds
<1>11. /\ \A k \in 1 .. Len(ctrl) : fr2[k].reach = fr[k].reach
       /\ Flowing(m, FM, off, code, hv, ctrl, fr, h, Here, SmallTypes)
       /\ off \in Nat /\ LabelsOk(ctrl, off, n)
  BY Zenon, <1>t, TurnFacts
<1>p. p = (Len(code) + Len(cs)) - 1
  BY Zenon, <1>7
<1> HIDE DEF fr, fr2, off, n, p
<1>12. Flowing(m, FM, off, code \o cs, hv \o vs, ctrl', fr2, h', Here', SmallTypes)
  BY ONLY Zenon, <1>t, <1>2, <1>5, <1>9, <1>10, <1>11, <1>p, i \in 1 .. Len(ctrl), FlowJump
<1>13. /\ hv' \in Seq(Int) /\ Len(hv') = Len(code')
       /\ \A q \in 1 .. cur.off : code'[q] = code[q] /\ hv'[q] = hv[q]
  <2>1. /\ hv \o vs \in Seq(Int) /\ Len(hv \o vs) = Len(code \o cs)
        /\ \A q \in 1 .. cur.off : (code \o cs)[q] = code[q] /\ (hv \o vs)[q] = hv[q]
    <3>1. cs \in Seq(KnownOp) /\ vs \in Seq(Int) /\ Len(vs) = Len(cs)
      BY Zenon, <1>2, <1>5
    <3>2. Fits(code, hv, cs, vs, cur.off)
      BY Zenon, <1>t, <3>1 DEF Fits
    <3>3. Extended(code, hv, code \o cs, hv \o vs, cur.off)
      BY Zenon, <3>2, Longer
    <3> QED
      BY Zenon, <3>3 DEF Extended
  <2> QED
    BY ONLY Zenon, <1>j, <2>1
<1>14. Flowing(KM(Len(consts')), FM, cur.off, code', hv', ctrl', val'.frames, h', Here', SmallTypes)
  BY Zenon, <1>j, <1>12 DEF fr2, off
<1>15. Ended(ctrl', code', cur.off)
  <2>1. Len(ctrl') = Len(ctrl)
    BY Zenon, <1>10 DEF Adds
  <2>2. ctrl' # <<>>
    BY ONLY <1>t, <2>1, i \in 1 .. Len(ctrl)
  <2> QED
    BY Zenon, <2>2 DEF Ended
<1> QED
  BY ONLY Turn, low' = "ops", <1>13, <1>14, <1>15, HeightStep

\* A jump by itself, after which nothing is reached.
LEMMA HeightGoto ==
    ASSUME Turn, low' = "ops", ctrl # <<>>, NEW d \in Nat, CanBranch(d, 0), NEW i, i = ResolveBr(d),
           Emit(JumpCode(i, h), JumpHeights(i, h)),
           ctrl' = Pending(i, Len(code) + Len(JumpCode(i, h))), val' = Cut
    PROVE  HeightsOk'
<1> DEFINE m == KM(Len(consts'))
           past == Len(code) + 0 + Len(JumpCode(i, h))
<1>1. h \in Nat /\ Types /\ Agreed /\ Len(code) \in Nat /\ ctrl \in Seq(Label)
  BY TurnTypes DEF Turn
<1>2. /\ i \in 1 .. Len(ctrl)
      /\ Live => val.frames[i].reach /\ h >= DestH(i)
  <2>1. d \in Word /\ h = h - 0 /\ 0 \in Nat
    BY <1>1 DEF Word
  <2> QED
    BY Zenon, <1>1, <2>1, BranchFits
<1>3. Lands(m, JumpCode(i, h), JumpHeights(i, h), i, h)
  <2>1. h \in Int
    BY <1>1
  <2> QED
    BY <1>2, <2>1, JumpLands
<1>4. JumpCode(i, h) \in Seq(KnownOp) /\ JumpHeights(i, h) \in Seq(Int)
  BY Zenon, <1>3 DEF Lands
<1>5. /\ <<>> \o JumpCode(i, h) = JumpCode(i, h)
      /\ <<>> \o JumpHeights(i, h) = JumpHeights(i, h)
  <2> DEFINE js == JumpCode(i, h)
             hs == JumpHeights(i, h)
  <2>1. js \in Seq(KnownOp) /\ hs \in Seq(Int)
    BY <1>4
  <2> HIDE DEF js, hs
  <2>2. <<>> \o js = js
    BY ONLY <2>1
  <2>3. <<>> \o hs = hs
    BY ONLY <2>1
  <2> QED
    BY ONLY <2>2, <2>3, Zenon DEF js, hs
<1>6. Jumping(m, i, <<>>, <<>>, past, h)
  <2>1. /\ <<>> \in Seq(KnownOp) /\ <<>> \in Seq(Int) /\ Len(<<>>) = 0
        /\ \A j \in 1 .. 0 : InstrOk(m, FM, <<>>[j])
    OBVIOUS
  <2>2. Len(code) + Len(JumpCode(i, h)) = past
    <3>1. Len(JumpCode(i, h)) \in Nat
      BY <1>4
    <3> QED
      BY ONLY <1>1, <3>1
  <2>3. code' = code \o JumpCode(i, h) /\ hv' = hv \o Heights(JumpHeights(i, h))
    BY Zenon DEF Emit
  <2> QED
    BY Zenon, <1>5, <2>1, <2>2, <2>3 DEF Jumping
<1>7. \A k \in 1 .. Len(ctrl) : val'.frames[k].reach = val.frames[k].reach
  BY CutReach
<1>8. Live => Leads(m, i, <<>>, <<>>, past, h)
  <2>1. Live => ~ dead
    BY <1>1, PopsOk
  <2>2. RunsInto(m, FM, <<>>, <<>>, past, h, h', Here')
    <3>1. 1 .. Len(<<>>) = {}
      OBVIOUS
    <3> QED
      BY Zenon, <3>1 DEF RunsInto
  <2> QED
    BY Zenon, <1>2, <2>1, <2>2 DEF Leads
<1> HIDE DEF m, past
<1>9. h \in Int /\ m = KM(Len(consts'))
  BY <1>1 DEF m
<1> QED
  BY ONLY Turn, low' = "ops", ctrl # <<>>, <1>2, <1>6, <1>7, <1>8, <1>9, HeightJump

\* br keeps the heights consistent.
LEMMA HeightBr ==
    ASSUME Turn, NEW o, OperatorOk(o), Br(o)
    PROVE  HeightsOk'
<1> DEFINE i == ResolveBr(o.d)
<1>1. /\ o.k = "br" /\ ctrl # <<>> /\ CanBranch(o.d, 0)
      /\ \/ Fail(<<>>, consts)
         \/ /\ Emit(JumpCode(i, h), JumpHeights(i, h)) /\ low' = "ops"
            /\ ctrl' = Pending(i, Len(code) + Len(JumpCode(i, h))) /\ val' = Cut
  BY Zenon DEF Br, Read, Turn
<1>2. o.d \in Nat /\ <<>> \in Seq(KnownOp)
  BY <1>1, OperandTypes
<1> QED
  BY Zenon, <1>1, <1>2, HeightFail, HeightGoto

\* The default of a br_table.
LEMMA HeightBrTableDefault ==
    ASSUME Turn, BrTableDefault
    PROVE  HeightsOk'
<1> DEFINE i == ResolveBr(brt.ds[1])
<1>1. /\ Len(brt.ds) = 1
      /\ \/ Fail(<<>>, consts)
         \/ /\ Emit(JumpCode(i, h), JumpHeights(i, h)) /\ low' = "ops"
            /\ ctrl' = Pending(i, Len(code) + Len(JumpCode(i, h))) /\ val' = Cut
  BY Zenon DEF BrTableDefault, Turn
<1>2. /\ brt.ds \in Seq(Nat) /\ (brt.ds # <<>> => ctrl # <<>>)
      /\ \A j \in 1 .. Len(brt.ds) : CanBranch(brt.ds[j], 0)
  BY Zenon DEF Turn, Types, TableTypes, Agreed
<1>3. brt.ds[1] \in Nat /\ ctrl # <<>> /\ CanBranch(brt.ds[1], 0) /\ <<>> \in Seq(KnownOp)
  BY ONLY <1>1, <1>2
<1> QED
  BY Zenon, <1>1, <1>3, HeightFail, HeightGoto

\* Instruction x goes to b or runs on, at height y.
Skips(m, f, x, b, y) ==
    /\ x \in KnownOp /\ x.op = "BR_IF_NOT" /\ x.b = b /\ InstrOk(m, f, x)
    /\ Need(m, f, x) = 1 /\ NextHeight(m, f, x, y) = y - 1 /\ x.op \notin NoFall

\* The instruction that skips a jump.
LEMMA SkipOp ==
    ASSUME NEW b \in Nat, NEW x, x = Cu("BR_IF_NOT", 0, b), NEW m, NEW f, NEW y \in Int
    PROVE  Skips(m, f, x, b, y)
<1>1. x \in KnownOp /\ x.op = "BR_IF_NOT" /\ x.b = b
  BY Zenon DEF Cu, KnownOp, KnownOps, Control
<1>2. InstrOk(m, f, x)
  BY Zenon, <1>1 DEF InstrOk
<1>3. Need(m, f, x) = 1
  BY <1>1 DEF Need, PopOne, Returns
<1>4. NextHeight(m, f, x, y) = y - 1
  BY <1>1 DEF NextHeight, PushOne, LoseOne, Bulk
<1>5. x.op \notin NoFall
  BY Zenon, <1>1 DEF NoFall, Returns
<1> QED
  BY Zenon, <1>1, <1>2, <1>3, <1>4, <1>5 DEF Skips

\* What JumpUnless emits.
LEMMA UnlessJumping ==
    ASSUME Turn, NEW i \in 1 .. Len(ctrl), NEW hh \in Int, NEW m,
           NEW cs \in Seq(KnownOp), NEW hs \in Seq(Int), Len(hs) = Len(cs),
           \A j \in 1 .. Len(cs) : InstrOk(m, FM, cs[j]), JumpUnless(cs, hs, i, hh),
           NEW past, past = Len(code) + Len(cs) + 1 + Len(JumpCode(i, hh)),
           NEW x, x = Cu("BR_IF_NOT", 0, past)
    PROVE  Jumping(m, i, cs \o <<x>>, hs \o <<hh + 1>>, past, hh) /\ past \in Nat
<1> DEFINE js == JumpCode(i, hh)
           us == JumpHeights(i, hh)
           z == hh + 1
<1>1. /\ code' = code \o ((cs \o <<x>>) \o js) /\ hv' = hv \o Heights((hs \o <<z>>) \o us)
      /\ ctrl' = Pending(i, past)
  BY Zenon DEF JumpUnless, Emit
<1>2. Len(js) \in 1 .. 2 /\ Len(code) \in Nat
  <2>1. Lands(m, JumpCode(i, hh), JumpHeights(i, hh), i, hh)
    BY JumpLands
  <2>2. Len(js) \in 1 .. 2
    BY Zenon, <2>1 DEF Lands
  <2>3. code \in Seq(KnownOp)
    BY TurnTypes
  <2> QED
    BY <2>2, <2>3
<1>p. past = Len(code) + Len(cs) + 1 + Len(js)
  BY Zenon
<1> HIDE DEF js, us, z
<1>3. past \in Nat
  BY ONLY <1>2, <1>p, cs \in Seq(KnownOp)
<1>4. x \in KnownOp /\ InstrOk(m, FM, x)
  <2>1. 0 \in Int
    OBVIOUS
  <2> QED
    BY Zenon, <1>3, <2>1, SkipOp DEF Skips
<1>5. /\ cs \o <<x>> \in Seq(KnownOp) /\ Len(cs \o <<x>>) = Len(cs) + 1
      /\ \A j \in 1 .. Len(cs \o <<x>>) : InstrOk(m, FM, (cs \o <<x>>)[j])
  BY ONLY Zenon, cs \in Seq(KnownOp), \A j \in 1 .. Len(cs) : InstrOk(m, FM, cs[j]), <1>4, GoodMore
<1>6. hs \o <<z>> \in Seq(Int) /\ Len(hs \o <<z>>) = Len(hs) + 1
  <2>1. z \in Int
    BY DEF z
  <2> QED
    BY ONLY <2>1, hs \in Seq(Int)
<1>7. past = Len(code) + Len(cs \o <<x>>) + Len(js)
  <2> DEFINE a == Len(code)
             b == Len(cs)
             c == Len(js)
             d == Len(cs \o <<x>>)
  <2>1. a \in Nat /\ b \in Nat /\ c \in 1 .. 2 /\ d = b + 1 /\ past = a + b + 1 + c
    BY <1>2, <1>5, <1>p
  <2> HIDE DEF a, b, c, d
  <2>2. past = a + d + c
    BY ONLY <2>1
  <2> QED
    BY ONLY <2>2, Zenon DEF a, c, d
<1>8. Len(hs \o <<z>>) = Len(cs \o <<x>>)
  BY Zenon, <1>5, <1>6
<1> QED
  BY Zenon, <1>1, <1>3, <1>5, <1>6, <1>7, <1>8 DEF Jumping, js, us, z

\* br_if keeps the heights consistent.
LEMMA HeightBrIf ==
    ASSUME Turn, NEW o, OperatorOk(o), BrIf(o)
    PROVE  HeightsOk'
<1> DEFINE i == ResolveBr(o.d)
           hh == Consumed(1, 0)
           a == LabelArity(ctrl[i])
           br == Cu("BR_IF_NOT", 0, 0)
<1>1. /\ o.k = "br_if" /\ ctrl # <<>> /\ CanBranch(o.d, 1)
      /\ \/ Fail(<<>>, consts) \/ Fail(<<br>>, consts)
         \/ /\ JumpUnless(<<>>, <<>>, i, hh) /\ h' = hh /\ low' = "ops"
            /\ val' = Typed(1 + a, a)
  BY Zenon DEF BrIf, Read, Turn
<1>2. CASE Fail(<<>>, consts) \/ Fail(<<br>>, consts)
  <2>1. br \in KnownOp
    BY Zenon DEF Cu, KnownOp, KnownOps, Control
  <2> HIDE DEF br
  <2>2. <<>> \in Seq(KnownOp) /\ <<br>> \in Seq(KnownOp)
    BY <2>1
  <2> QED
    BY Zenon, <1>2, <2>2, HeightFail
<1>3. CASE JumpUnless(<<>>, <<>>, i, hh) /\ h' = hh /\ low' = "ops" /\ val' = Typed(1 + a, a)
  <2> DEFINE m == KM(Len(consts'))
             past == Len(code) + 0 + 1 + Len(JumpCode(i, hh))
             x == Cu("BR_IF_NOT", 0, past)
             z == hh + 1
  <2>1. h \in Nat /\ Types /\ Agreed /\ ctrl \in Seq(Label) /\ ctrl' \in Seq(Label)
    BY Zenon, TurnTypes DEF Turn
  <2>2. hh \in Int /\ (~ dead => hh = h - 1)
    BY <2>1 DEF Consumed
  <2>3. o.d \in Word
    BY <1>1, OperandTypes DEF Word
  <2>4. /\ i \in 1 .. Len(ctrl)
        /\ Live => val.frames[i].reach /\ hh >= DestH(i)
    BY Zenon, <1>1, <2>1, <2>2, <2>3, BranchFits
  <2>5. Live => ~ dead /\ h >= 1
    <3>1. a \in Nat
      BY <2>1, <2>4, LabelType
    <3>2. CanPop(1 + a) /\ 1 + a \in Nat
      BY <1>1, <3>1 DEF CanBranch
    <3>3. Live => ~ dead /\ h >= 1 + a
      BY <1>1, <3>2, TurnPops
    <3> HIDE DEF a
    <3> QED
      BY <2>1, <3>1, <3>3
  <2> HIDE DEF hh
  <2>6. /\ <<>> \in Seq(KnownOp) /\ <<>> \in Seq(Int) /\ Len(<<>>) = 0
        /\ \A j \in 1 .. 0 : InstrOk(m, FM, <<>>[j])
    OBVIOUS
  <2>7. Jumping(m, i, <<>> \o <<x>>, <<>> \o <<z>>, past, hh) /\ past \in Nat
    <3> HIDE DEF m, i
    <3>1. past = Len(code) + Len(<<>>) + 1 + Len(JumpCode(i, hh))
      BY <2>6
    <3>2. \A j \in 1 .. Len(<<>>) : InstrOk(m, FM, <<>>[j])
      BY <2>6
    <3> QED
      BY Zenon, <1>3, <2>2, <2>4, <2>6, <3>1, <3>2, UnlessJumping
  <2> HIDE DEF past
  <2>z. z \in Int
    BY <2>2
  <2>8. /\ x \in KnownOp /\ x.op = "BR_IF_NOT" /\ x.b = past
        /\ Need(m, FM, x) = 1 /\ NextHeight(m, FM, x, z) = z - 1 /\ x.op \notin NoFall
    <3>1. x = Cu("BR_IF_NOT", 0, past) /\ past \in Nat
      BY Zenon, <2>7
    <3> HIDE DEF x, z, m
    <3>2. Skips(m, FM, x, past, z)
      BY ONLY Zenon, <2>z, <3>1, SkipOp
    <3> QED
      BY Zenon, <3>2 DEF Skips
  <2> HIDE DEF x
  <2>9. <<>> \o <<x>> = <<x>> /\ <<>> \o <<z>> = <<z>>
    BY <2>8, <2>z
  <2>10. /\ Here' = Here /\ Here = Live
         /\ \A k \in 1 .. Len(ctrl) : val'.frames[k].reach = val.frames[k].reach
    <3>1. val'.frames = val.frames
      BY Zenon, <1>3 DEF Typed
    <3>2. ctrl' = Pending(i, past)
      BY Zenon, <2>7 DEF Jumping
    <3>3. Len(ctrl') = Len(ctrl)
      BY <3>2 DEF Pending
    <3>4. ctrl' # <<>>
      BY <1>1, <2>1, <3>3
    <3> QED
      BY Zenon, <1>1, <3>1, <3>4, HereSame
  <2>11. Live => Leads(m, i, <<x>>, <<z>>, past, hh)
    <3> SUFFICES ASSUME Live PROVE Leads(m, i, <<x>>, <<z>>, past, hh)
      BY Zenon
    <3>1. z = h /\ z >= 1 /\ hh = z - 1 /\ h' = hh /\ Here'
      BY <1>3, <2>1, <2>2, <2>5, <2>10
    <3> HIDE DEF z
    <3>2. /\ Len(<<x>>) = 1 /\ <<x>>[1] = x /\ <<z>>[1] = z /\ <<x>> # <<>>
          /\ \A j \in 1 .. 1 : j = 1 /\ ~ (j < 1)
      OBVIOUS
    <3>3. RunsInto(m, FM, <<x>>, <<z>>, past, hh, h', Here')
      <4> SUFFICES ASSUME NEW j \in 1 .. 1
                   PROVE  /\ z >= Need(m, FM, x) /\ x.op \notin NoFall
                          /\ hh = NextHeight(m, FM, x, z)
                          /\ Branchy(x) => x.b = past /\ Here' /\ h' = hh
        BY Zenon, <3>2 DEF RunsInto
      <4> QED
        BY <2>8, <3>1
    <3> QED
      BY Zenon, <2>4, <2>5, <3>1, <3>2, <3>3 DEF Leads
  <2>12. m = KM(Len(consts')) /\ Jumping(m, i, <<x>>, <<z>>, past, hh)
    BY Zenon, <2>7, <2>9
  <2> HIDE DEF m, i, z
  <2> QED
    BY ONLY Turn, <1>3, <1>1, <2>2, <2>4, <2>10, <2>11, <2>12, HeightJump
<1> QED
  BY <1>1, <1>2, <1>3

\* The comparison of a br_table: the scratch local, a constant and a test.
Compares(m, c, x1, x2, x3) ==
    /\ m = KM(Len(consts')) /\ cur.scratch >= 0 /\ c \in Nat /\ c < Len(consts')
    /\ x1 = Cu("LOCAL_GET", cur.scratch, 0) /\ x2 = Cu("I64_CONST", 0, c) /\ x3 = Cu("BINOP", 0, 0)

\* x1, x2 and x3 can be emitted at height y.
ComparesAt(m, x1, x2, x3, y) ==
    /\ x1 \in KnownOp /\ InstrOk(m, FM, x1) /\ ~ Branchy(x1) /\ x1.op \notin NoFall
    /\ Need(m, FM, x1) = 0 /\ NextHeight(m, FM, x1, y) = y + 1
    /\ x2 \in KnownOp /\ InstrOk(m, FM, x2) /\ ~ Branchy(x2) /\ x2.op \notin NoFall
    /\ Need(m, FM, x2) = 0 /\ NextHeight(m, FM, x2, y + 1) = y + 2
    /\ x3 \in KnownOp /\ InstrOk(m, FM, x3) /\ ~ Branchy(x3) /\ x3.op \notin NoFall
    /\ Need(m, FM, x3) = 2 /\ NextHeight(m, FM, x3, y + 2) = y + 1

\* The instructions a br_table compares its index with.
LEMMA CompareOps ==
    ASSUME Turn, NEW m, NEW c, NEW x1, NEW x2, NEW x3, Compares(m, c, x1, x2, x3), NEW y \in Int
    PROVE  ComparesAt(m, x1, x2, x3, y)
<1> USE DEF Compares
<1>1. /\ NumLocals(FM) = cur.np + cur.nl /\ cur.np \in Nat /\ cur.nl \in Nat
      /\ cur.scratch \in Int /\ cur.scratch = (cur.np + cur.nl) - 1
  BY TurnFunc
<1>2. m.n_consts = Len(consts')
  BY KnownFields, TurnTypes DEF Turn
<1>3. x1 \in KnownOp /\ x1.op = "LOCAL_GET" /\ x1.a = cur.scratch
  <2>1. cur.scratch \in Nat /\ 0 \in Nat
    BY ONLY <1>1, cur.scratch >= 0
  <2> QED
    BY Zenon, <2>1 DEF Cu, KnownOp, KnownOps, PushOne
<1>4. x2 \in KnownOp /\ x2.op = "I64_CONST" /\ x2.b = c
  BY Zenon DEF Cu, KnownOp, KnownOps, PushOne
<1>5. x3 \in KnownOp /\ x3.op = "BINOP"
  BY Zenon DEF Cu, KnownOp, KnownOps, Alu
<1>6. /\ InstrOk(m, FM, x1) /\ ~ Branchy(x1) /\ x1.op \notin NoFall
      /\ Need(m, FM, x1) = 0 /\ NextHeight(m, FM, x1, y) = y + 1
  <2>1. InstrOk(m, FM, x1)
    BY <1>1, <1>3 DEF InstrOk
  <2>2. ~ Branchy(x1) /\ x1.op \notin NoFall
    BY <1>3 DEF Branchy, NoFall, Returns
  <2>3. Need(m, FM, x1) = 0
    BY <1>3 DEF Need, PopOne, Returns
  <2>4. NextHeight(m, FM, x1, y) = y + 1
    BY <1>3 DEF NextHeight, PushOne
  <2> QED
    BY <2>1, <2>2, <2>3, <2>4
<1>7. /\ InstrOk(m, FM, x2) /\ ~ Branchy(x2) /\ x2.op \notin NoFall
      /\ Need(m, FM, x2) = 0 /\ NextHeight(m, FM, x2, y + 1) = y + 2
  <2>1. InstrOk(m, FM, x2)
    BY <1>2, <1>4 DEF InstrOk
  <2>2. ~ Branchy(x2) /\ x2.op \notin NoFall
    BY <1>4 DEF Branchy, NoFall, Returns
  <2>3. Need(m, FM, x2) = 0
    BY <1>4 DEF Need, PopOne, Returns
  <2>4. NextHeight(m, FM, x2, y + 1) = (y + 1) + 1
    BY <1>4 DEF NextHeight, PushOne
  <2> QED
    BY <2>1, <2>2, <2>3, <2>4
<1>8. /\ InstrOk(m, FM, x3) /\ ~ Branchy(x3) /\ x3.op \notin NoFall
      /\ Need(m, FM, x3) = 2 /\ NextHeight(m, FM, x3, y + 2) = y + 1
  <2>1. InstrOk(m, FM, x3)
    BY <1>5 DEF InstrOk
  <2>2. ~ Branchy(x3) /\ x3.op \notin NoFall
    BY <1>5 DEF Branchy, NoFall, Returns
  <2>3. Need(m, FM, x3) = 2
    BY <1>5 DEF Need, PopOne, Returns
  <2>4. NextHeight(m, FM, x3, y + 2) = (y + 2) - 1
    BY Zenon, <1>5 DEF NextHeight, PushOne, LoseOne
  <2> QED
    BY <2>1, <2>2, <2>3, <2>4
<1> QED
  BY ONLY Zenon, <1>3, <1>4, <1>5, <1>6, <1>7, <1>8 DEF ComparesAt

\* One comparison of a br_table, and its jump.
LEMMA HeightBrTableTarget ==
    ASSUME Turn, BrTableTarget
    PROVE  HeightsOk'
<1> DEFINE i == ResolveBr(brt.ds[1])
           k == InternAt(brt.i)
           x1 == Cu("LOCAL_GET", cur.scratch, 0)
           x2 == Cu("I64_CONST", 0, k)
           x3 == Cu("BINOP", 0, 0)
           cs == <<x1, x2, x3>>
           hs == <<h, h + 1, h + 2>>
           br == Cu("BR_IF_NOT", 0, 0)
           m == KM(Len(consts'))
<1>1. /\ Len(brt.ds) > 1
      /\ \/ Fail(Append(cs, br), Intern(brt.i))
         \/ JumpUnless(cs, hs, i, h) /\ consts' = Intern(brt.i) /\ UNCHANGED <<low, h, dead, val>>
  BY Zenon DEF BrTableTarget
<1>2. /\ brt.i \in Nat /\ brt.ds \in Seq(Nat) /\ (brt.ds # <<>> => cur.scratch >= 0 /\ ctrl # <<>>)
      /\ \A j \in 1 .. Len(brt.ds) : CanBranch(brt.ds[j], 0)
  BY Zenon DEF Turn, Types, TableTypes, Agreed
<1>3. /\ brt.ds[1] \in Nat /\ ctrl # <<>> /\ CanBranch(brt.ds[1], 0) /\ cur.scratch >= 0
  BY ONLY <1>1, <1>2
<1>t. h \in Nat /\ Types /\ Agreed /\ ctrl \in Seq(Label) /\ ctrl' \in Seq(Label) /\ consts \in Seq(Word)
  BY TurnTypes DEF Turn, Types, LowTypes
<1>4. consts' = Intern(brt.i)
  BY Zenon, <1>1 DEF Fail
<1>5. k \in Nat /\ k < Len(consts')
  BY Zenon, <1>2, <1>4, <1>t, InternType DEF Word
<1>6. /\ x1 \in KnownOp /\ InstrOk(m, FM, x1) /\ ~ Branchy(x1) /\ x1.op \notin NoFall
      /\ Need(m, FM, x1) = 0 /\ NextHeight(m, FM, x1, h) = h + 1
      /\ x2 \in KnownOp /\ InstrOk(m, FM, x2) /\ ~ Branchy(x2) /\ x2.op \notin NoFall
      /\ Need(m, FM, x2) = 0 /\ NextHeight(m, FM, x2, h + 1) = h + 2
      /\ x3 \in KnownOp /\ InstrOk(m, FM, x3) /\ ~ Branchy(x3) /\ x3.op \notin NoFall
      /\ Need(m, FM, x3) = 2 /\ NextHeight(m, FM, x3, h + 2) = h + 1
  <2>1. h \in Int
    BY <1>t
  <2>2. Compares(m, k, x1, x2, x3)
    BY Zenon, <1>3, <1>5 DEF Compares
  <2> HIDE DEF k, m, x1, x2, x3
  <2>3. ComparesAt(m, x1, x2, x3, h)
    BY ONLY Zenon, Turn, <2>1, <2>2, CompareOps
  <2> QED
    BY Zenon, <2>3 DEF ComparesAt
<1>7. CASE Fail(Append(cs, br), Intern(brt.i))
  <2>1. br \in KnownOp
    BY Zenon DEF Cu, KnownOp, KnownOps, Control
  <2> HIDE DEF br, x1, x2, x3
  <2>2. Append(cs, br) \in Seq(KnownOp)
    <3>1. cs \in Seq(KnownOp)
      BY <1>6, <2>1, FourParts
    <3> HIDE DEF cs
    <3> QED
      BY <2>1, <3>1
  <2> HIDE DEF cs
  <2> QED
    BY Zenon, <1>7, <2>2, HeightFail
<1>8. CASE JumpUnless(cs, hs, i, h) /\ consts' = Intern(brt.i) /\ UNCHANGED <<low, h, dead, val>>
  <2> DEFINE past == Len(code) + 3 + 1 + Len(JumpCode(i, h))
             x == Cu("BR_IF_NOT", 0, past)
             z == h + 1
             pre == <<x1, x2, x3, x>>
             ps == <<h, h + 1, h + 2, z>>
  <2>1. /\ i \in 1 .. Len(ctrl)
        /\ Live => val.frames[i].reach /\ h >= DestH(i)
    <3>1. brt.ds[1] \in Word /\ h = h - 0 /\ 0 \in Nat
      BY <1>3, <1>t DEF Word
    <3> QED
      BY <1>3, <1>t, <3>1, BranchFits
  <2> HIDE DEF x1, x2, x3, m, i
  <2>2. cs \in Seq(KnownOp) /\ Len(cs) = 3 /\ cs \o <<x>> = pre /\ x \in KnownOp
    <3>1. x \in KnownOp
      <4>1. past \in Nat
        <5>1. Lands(m, JumpCode(i, h), JumpHeights(i, h), i, h)
          <6>1. h \in Int
            BY <1>t
          <6> QED
            BY Zenon, <2>1, <6>1, JumpLands
        <5>2. JumpCode(i, h) \in Seq(KnownOp) /\ code \in Seq(KnownOp)
          BY Zenon, <5>1, TurnTypes DEF Lands
        <5> QED
          BY <5>2
      <4> HIDE DEF past
      <4> QED
        BY Zenon, <4>1 DEF Cu, KnownOp, KnownOps, Control
    <3> HIDE DEF x
    <3> QED
      BY <1>6, <3>1, FourParts
  <2>3. hs \in Seq(Int) /\ Len(hs) = 3 /\ hs \o <<z>> = ps /\ z \in Int
    <3> DEFINE S == Int
               a == h
               b == h + 1
               c == h + 2
    <3>1. a \in S /\ b \in S /\ c \in S
      BY <1>t
    <3> HIDE DEF S, a, b, c
    <3>2. <<a, b, c>> \in Seq(S) /\ Len(<<a, b, c>>) = 3 /\ <<a, b, c>> \o <<b>> = <<a, b, c, b>>
      BY ONLY <3>1, FourParts
    <3> QED
      BY Zenon, <3>1, <3>2 DEF S, a, b, c
  <2>4. \A j \in 1 .. Len(cs) : InstrOk(m, FM, cs[j])
    <3>1. cs[1] = x1 /\ cs[2] = x2 /\ cs[3] = x3
      BY Zenon
    <3>2. \A j \in 1 .. 3 : j = 1 \/ j = 2 \/ j = 3
      OBVIOUS
    <3> QED
      BY Zenon, <1>6, <2>2, <3>1, <3>2
  <2>5. Jumping(m, i, pre, ps, past, h) /\ past \in Nat
    <3>1. past = Len(code) + Len(cs) + 1 + Len(JumpCode(i, h))
      BY <2>2
    <3>2. h \in Int /\ Len(hs) = Len(cs) /\ x = Cu("BR_IF_NOT", 0, past)
      BY <1>t, <2>2, <2>3
    <3> HIDE DEF cs, hs, x, past, pre, ps
    <3>3. Jumping(m, i, cs \o <<x>>, hs \o <<h + 1>>, past, h) /\ past \in Nat
      BY Zenon, <1>8, <2>1, <2>2, <2>3, <2>4, <3>1, <3>2, UnlessJumping
    <3> QED
      BY Zenon, <2>2, <2>3, <3>3 DEF z
  <2> HIDE DEF past
  <2>6. /\ x \in KnownOp /\ x.op = "BR_IF_NOT" /\ x.b = past
        /\ Need(m, FM, x) = 1 /\ NextHeight(m, FM, x, z) = z - 1 /\ x.op \notin NoFall
    <3>1. x = Cu("BR_IF_NOT", 0, past) /\ past \in Nat /\ z \in Int
      BY Zenon, <2>3, <2>5
    <3> HIDE DEF x
    <3>2. Skips(m, FM, x, past, z)
      BY ONLY Zenon, <3>1, SkipOp
    <3> QED
      BY Zenon, <3>2 DEF Skips
  <2> HIDE DEF x
  <2>7. /\ Here' = Here /\ Here = Live
        /\ \A j \in 1 .. Len(ctrl) : val'.frames[j].reach = val.frames[j].reach
    <3>1. val'.frames = val.frames
      BY Zenon, <1>8
    <3>2. ctrl' = Pending(i, past)
      BY Zenon, <2>5 DEF Jumping
    <3>3. Len(ctrl') = Len(ctrl)
      BY <3>2 DEF Pending
    <3>4. ctrl' # <<>>
      BY <1>3, <1>t, <3>3
    <3> QED
      BY Zenon, <1>3, <3>1, <3>4, HereSame
  <2>8. Live => Leads(m, i, pre, ps, past, h)
    <3> SUFFICES ASSUME Live PROVE Leads(m, i, pre, ps, past, h)
      BY Zenon
    <3>1. ~ dead
      BY <1>3, <1>t, PopsOk
    <3>2. h' = h /\ Here'
      BY <1>8, <2>7
    <3>3. /\ pre[1] = x1 /\ pre[2] = x2 /\ pre[3] = x3 /\ pre[4] = x /\ Len(pre) = 4 /\ pre # <<>>
      BY Zenon
    <3>4. ps[1] = h /\ ps[2] = h + 1 /\ ps[3] = h + 2 /\ ps[4] = h + 1
      BY Zenon
    <3>5. \A j \in 1 .. 4 : \/ j = 1 /\ j < 4 /\ j + 1 = 2
                            \/ j = 2 /\ j < 4 /\ j + 1 = 3
                            \/ j = 3 /\ j < 4 /\ j + 1 = 4
                            \/ j = 4 /\ ~ (j < 4)
      OBVIOUS
    <3>6. h >= 0 /\ h + 1 >= 0 /\ h + 2 >= 2 /\ h + 1 >= 1 /\ z - 1 = h
      BY <1>t
    <3> HIDE DEF pre, ps
    <3>7. Branchy(x) => x.b = past
      BY <2>6
    <3>8. RunsInto(m, FM, pre, ps, past, h, h', Here')
      <4> SUFFICES ASSUME NEW j \in 1 .. 4
                   PROVE  /\ ps[j] >= Need(m, FM, pre[j]) /\ pre[j].op \notin NoFall
                          /\ (IF j < 4 THEN ps[j + 1] ELSE h) = NextHeight(m, FM, pre[j], ps[j])
                          /\ Branchy(pre[j]) =>
                               pre[j].b = past /\ Here' /\ h' = (IF j < 4 THEN ps[j + 1] ELSE h)
        BY Zenon, <3>3 DEF RunsInto
      <4>1. CASE j = 1 /\ j < 4 /\ j + 1 = 2
        BY Zenon, <1>6, <3>3, <3>4, <3>6, <4>1
      <4>2. CASE j = 2 /\ j < 4 /\ j + 1 = 3
        BY Zenon, <1>6, <3>3, <3>4, <3>6, <4>2
      <4>3. CASE j = 3 /\ j < 4 /\ j + 1 = 4
        BY Zenon, <1>6, <3>3, <3>4, <3>6, <4>3
      <4>4. CASE j = 4 /\ ~ (j < 4)
        BY Zenon, <2>6, <3>2, <3>3, <3>4, <3>6, <3>7, <4>4
      <4> QED
        BY <3>5, <4>1, <4>2, <4>3, <4>4
    <3> QED
      BY Zenon, <2>1, <3>1, <3>3, <3>4, <3>8 DEF Leads
  <2>9. m = KM(Len(consts')) /\ h \in Int /\ low' = "ops"
    BY <1>8, <1>t DEF m, Turn
  <2> HIDE DEF pre, ps
  <2> QED
    BY ONLY Turn, <1>3, <2>1, <2>5, <2>7, <2>8, <2>9, HeightJump
<1> QED
  BY <1>1, <1>7, <1>8

\* A turn of lower_operators, by the operator it reads.
LEMMA HeightLower ==
    ASSUME Types, Types', BranchInv, HeightsOk, Agreed, inp.valid, Operators
    PROVE  HeightsOk'
<1>1. Turn
  BY ConstsGrow DEF Turn, Operators
<1>2. ASSUME NEW o, OperatorOk(o), ReadOperator(o) PROVE HeightsOk'
  BY Zenon, <1>1, <1>2, HeightPlain, HeightTee, HeightConst, HeightStop, HeightUnsupported, HeightBlock,
     HeightIf, HeightElse, HeightEnd, HeightBr, HeightBrIf, HeightBrTable, HeightCall, HeightReturnCall,
     HeightCallIndirect DEF ReadOperator
<1>3. ~ Unclosed
  BY Zenon DEF Unclosed
<1>4. \A o \in cur.ops : OperatorOk(o)
  BY Zenon DEF Types, CurType
<1> QED
  BY Zenon, <1>1, <1>2, <1>3, <1>4, HeightBrTableTarget, HeightBrTableDefault DEF Operators, Lower

=============================================================================
