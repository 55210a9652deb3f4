----------------------------- MODULE Semantics ------------------------------
(***************************************************************************)
(* What a body means and what its lowering does: a reference executor of   *)
(* structured Wasm with labels, and one of flat CuOps on a shared stack.   *)
(* BINOP is i32.eq and UNOP i32.eqz, the operators br_table and conditions *)
(* need; bodies with calls, memory or globals are not executed.            *)
(***************************************************************************)
EXTENDS Translate, FiniteSets

CONSTANTS
    WORDS,                \* values of arguments
    ROUNDS                \* bound: rounds of eight steps of an execution

Truth(b) == IF b THEN 1 ELSE 0
First(s, n) == SubSeq(s, 1, n)
Last(s, n) == SubSeq(s, Len(s) - n + 1, Len(s))

\* c after n rounds of eight steps, or where it stopped: done is "run", "trap", "ret".
Iterate(Step(_), c0, rounds) ==
    LET eight(c) == LET f[n \in 0 .. 8] ==
                            IF n = 0 THEN c
                            ELSE LET d == f[n - 1] IN IF d.done = "run" THEN Step(d) ELSE d
                    IN  f[8]
        g[n \in 0 .. rounds] ==
            IF n = 0 THEN c0
            ELSE LET c == g[n - 1] IN IF c.done = "run" THEN eight(c) ELSE c
    IN  [done |-> g[rounds].done, vals |-> g[rounds].st]

Halted(c, how, vals) == [c EXCEPT !.done = how, !.st = vals]

\* The operators both executors share, on the operands st; c otherwise as it is.
Alu1(op, st) ==
    CASE op = "DROP"   -> First(st, Len(st) - 1)
      [] op = "UNOP"   -> Append(First(st, Len(st) - 1), Truth(st[Len(st)] = 0))
      [] op = "BINOP"  -> Append(First(st, Len(st) - 2), Truth(st[Len(st) - 1] = st[Len(st)]))
      [] op = "SELECT" -> Append(First(st, Len(st) - 3),
                                 IF st[Len(st)] # 0 THEN st[Len(st) - 2] ELSE st[Len(st) - 1])

-----------------------------------------------------------------------------
\* Structured Wasm.  The end and the else (0 if none) of the block opened at ip.
Openers == {"block", "loop", "if"}
Count(ks, i, j) == Cardinality({x \in i .. j : body[x].k \in ks})
Level(i, j) == Count(Openers, i, j) - Count({"end"}, i, j)
EndAt(ip) == CHOOSE j \in ip .. Len(body) :
                 Level(ip, j) = 0 /\ \A x \in ip .. j - 1 : Level(ip, x) > 0
ElseAt(ip) == LET E == {j \in ip .. EndAt(ip) : body[j].k = "else" /\ Level(ip, j) = 1}
              IN  IF E = {} THEN 0 ELSE CHOOSE j \in E : TRUE

\* c = [ip, st, loc, labels, done]; a label is [to, arity, ht].
Labelled(c, o, ip, st) ==
    LET t == BlockArity(o.bt)
    IN  [c EXCEPT !.ip = ip, !.st = st,
                  !.labels = Append(@, [to |-> IF o.k = "loop" THEN c.ip ELSE EndAt(c.ip) + 1,
                                        arity |-> IF o.k = "loop" THEN t.np ELSE t.nr,
                                        ht |-> Len(st) - t.np])]

Branch(c, d, st) ==
    IF d = Len(c.labels) THEN Halted(c, "ret", Last(st, cur.nr))
    ELSE LET l == c.labels[Len(c.labels) - d]
         IN  [c EXCEPT !.ip = l.to, !.st = First(st, l.ht) \o Last(st, l.arity),
                       !.labels = First(@, Len(@) - d - 1)]

WasmStep(c) ==
    LET o == body[c.ip]
        n == Len(c.st)
        x == c.st[n]
        below == First(c.st, n - 1)
        next == [c EXCEPT !.ip = @ + 1]
    IN  CASE o.k = "plain" /\ o.code = <<>> -> next
          [] o.k = "plain" /\ o.code # <<>> ->
                IF o.code[1].op = "LOCAL_GET"
                THEN [next EXCEPT !.st = Append(@, c.loc[o.code[1].a])]
                ELSE IF o.code[1].op = "LOCAL_SET"
                THEN [next EXCEPT !.st = below, !.loc[o.code[1].a] = x]
                ELSE [next EXCEPT !.st = Alu1(o.code[1].op, @)]
          [] o.k = "tee" -> [next EXCEPT !.loc[o.i] = x]
          [] o.k = "const" -> [next EXCEPT !.st = Append(@, o.v)]
          [] o.k = "unreachable" -> Halted(c, "trap", <<>>)
          [] o.k = "return" -> Halted(c, "ret", Last(c.st, cur.nr))
          [] o.k \in {"block", "loop"} -> Labelled(c, o, c.ip + 1, c.st)
          [] o.k = "if" ->
                IF x # 0 THEN Labelled(c, o, c.ip + 1, below)
                ELSE IF ElseAt(c.ip) # 0 THEN Labelled(c, o, ElseAt(c.ip) + 1, below)
                ELSE [c EXCEPT !.ip = EndAt(c.ip) + 1, !.st = below]
          [] o.k = "else" -> [c EXCEPT !.ip = c.labels[Len(c.labels)].to,
                                       !.labels = First(@, Len(@) - 1)]
          [] o.k = "end" -> IF c.labels = <<>> THEN Halted(c, "ret", Last(c.st, cur.nr))
                            ELSE [next EXCEPT !.labels = First(@, Len(@) - 1)]
          [] o.k = "br" -> Branch(c, o.d, c.st)
          [] o.k = "br_if" -> IF x # 0 THEN Branch(c, o.d, below) ELSE [next EXCEPT !.st = below]
          [] o.k = "br_table" ->
                Branch(c, o.ds[IF x + 1 < Len(o.ds) THEN x + 1 ELSE Len(o.ds)], below)

WasmRun(args) ==
    Iterate(WasmStep, [ip |-> 1, st |-> <<>>, labels |-> <<>>, done |-> "run",
                       loc |-> [i \in 0 .. cur.np + cur.locals - 1 |->
                                  IF i < cur.np THEN args[i + 1] ELSE 0]], ROUNDS)

-----------------------------------------------------------------------------
\* CuOps on one stack, the locals at its bottom.  c = [pc, st, done].
CuStep(c) ==
    LET x == code[c.pc + 1]
        n == Len(c.st)
        below == First(c.st, n - 1)
        next == [c EXCEPT !.pc = @ + 1]
    IN  CASE x.op = "I64_CONST" -> [next EXCEPT !.st = Append(@, consts[x.b + 1])]
          [] x.op = "LOCAL_GET" -> [next EXCEPT !.st = Append(@, c.st[x.a + 1])]
          [] x.op = "LOCAL_SET" -> [next EXCEPT !.st = [below EXCEPT ![x.a + 1] = c.st[n]]]
          [] x.op = "UNREACHABLE" -> Halted(c, "trap", <<>>)
          [] x.op \in Returns -> Halted(c, "ret", Last(c.st, x.a))
          [] x.op = "BR" -> [c EXCEPT !.pc = x.b]
          [] x.op = "BR_IF_NOT" ->
                [c EXCEPT !.pc = IF c.st[n] = 0 THEN x.b ELSE @ + 1, !.st = below]
          [] x.op = "UNWIND" -> [next EXCEPT !.st = First(@, x.b - x.a) \o Last(@, x.a)]
          [] OTHER -> [next EXCEPT !.st = Alu1(x.op, @)]

CuRun(args) ==
    Iterate(CuStep, [pc |-> cur.off, done |-> "run",
                     st |-> [i \in 1 .. cur.np + cur.nl |-> IF i <= cur.np THEN args[i] ELSE 0]],
            4 * ROUNDS)

\* The body has only operators the executors know.
Covered ==
    \A j \in 1 .. Len(body) :
        /\ body[j].k \notin {"call", "return_call", "call_indirect"}
        /\ body[j].k = "plain" /\ body[j].code # <<>> =>
              body[j].code[1].op \in {"DROP", "UNOP", "BINOP", "SELECT", "LOCAL_GET", "LOCAL_SET"}

(***************************************************************************)
(* Lowering preserves meaning: for all arguments the emitted code returns  *)
(* what the body returns, traps where it traps and loops where it loops.   *)
(***************************************************************************)
LoweringCorrect ==
    low = "ops" /\ ctrl = <<>> /\ inp.valid /\ Covered =>
        \A args \in [1 .. cur.np -> WORDS] :
            LET w == WasmRun(args)
                c == CuRun(args)
            IN  c.done = w.done /\ (w.done # "run" => c.vals = w.vals)
=============================================================================
