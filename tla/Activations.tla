---------------------------- MODULE Activations -----------------------------
(***************************************************************************)
(* What an instance promises: the execution of a module as the Wasm        *)
(* specification has it, with a sequence of activations that each own      *)
(* their locals and their operands.  There is no shared stack, no frame    *)
(* array, no slice and no driver; Refinement shows that run_instance and   *)
(* its drivers, which keep everything in one flat stack, implement it.     *)
(***************************************************************************)
EXTENDS CuModule, Sequences

CONSTANTS Setups,  \* the modules, with the functions they export
          Values   \* the words

VARIABLES
    env,     \* which of them is executed (never changes)
    mode,    \* "idle", "run", "host" (a host call is pending), "over"
    acts,    \* activations, the current one last: [fn, pc, locals, ops]
    mail,    \* the pending host call: [fn_id, args, n_results]
    outcome, \* status of a run that is over
    results  \* result values of a run that ended with OK

avars == <<env, mode, acts, mail, outcome, results>>

mod     == env.mod
Exports == env.exports

NoMail == [fn_id |-> 0, args |-> <<>>, n_results |-> 0]

Init == /\ env \in Setups
        /\ mode = "idle" /\ acts = <<>> /\ mail = NoMail
        /\ outcome = "NONE" /\ results = <<>>

Cur  == acts[Len(acts)]
Rest == SubSeq(acts, 1, Len(acts) - 1)
Code == mod.code[Cur.pc]
Ops  == Cur.ops

\* Operand i from the top, and the operands without the top n.
Opd(i)  == Ops[Len(Ops) + 1 - i]
Less(n) == SubSeq(Ops, 1, Len(Ops) - n)
Top(n)  == SubSeq(Ops, Len(Ops) - n + 1, Len(Ops))

Words(n) == [1 .. n -> Values]
Zeros(n) == [i \in 1 .. n |-> 0]

\* An activation of function i with arguments args.
NewAct(i, args) ==
    [fn |-> i, pc |-> mod.funcs[i].code_off,
     locals |-> args \o Zeros(mod.funcs[i].n_locals), ops |-> <<>>]

\* An activation that goes on at p with operands o.
At(a, p, o) == [a EXCEPT !.pc = p, !.ops = o]

\* The current activation does.
GoOn(p, o) ==
    /\ acts' = Append(Rest, At(Cur, p, o))
    /\ UNCHANGED <<mode, mail, outcome, results>>

-----------------------------------------------------------------------------
Start(e) ==
    /\ mode \in {"idle", "over"} /\ e \in Exports
    /\ \E args \in Words(mod.funcs[e].n_params) : acts' = <<NewAct(e, args)>>
    /\ mode' = "run" /\ mail' = NoMail /\ outcome' = "NONE" /\ results' = <<>>

\* A call that names no function or has the wrong number of arguments.
Refuse ==
    /\ mode \in {"idle", "over"}
    /\ mode' = "over" /\ outcome' = "UNSUPPORTED_OP"
    /\ acts' = <<>> /\ mail' = NoMail /\ results' = <<>>

\* What an instruction that only works on the operands may leave there.
Outcomes ==
    LET x == Code
    IN  IF x.op = "I64_CONST" THEN {Append(Ops, mod.consts[x.b])}
        ELSE IF x.op = "LOCAL_GET" THEN {Append(Ops, Cur.locals[x.a + 1])}
        ELSE IF x.op \in {"GLOBAL_GET", "MEMORY_SIZE"} THEN {Append(Ops, v) : v \in Values}
        ELSE IF x.op \in {"UNOP", "CLZ", "LOAD", "MEMORY_GROW"}
             THEN {Less(1) \o w : w \in Words(1)}
        ELSE IF x.op = "BINOP" THEN {Less(2) \o w : w \in Words(1)}
        ELSE IF x.op = "DIV" /\ Opd(1) # 0 THEN {Less(2) \o w : w \in Words(1)}
        ELSE IF x.op = "MUL_WIDE" THEN {Less(2) \o w : w \in Words(2)}
        ELSE IF x.op = "ARITH128" THEN {Less(4) \o w : w \in Words(2)}
        ELSE IF x.op = "SELECT" THEN {Append(Less(3), IF Opd(1) # 0 THEN Opd(3) ELSE Opd(2))}
        ELSE IF x.op \in {"DROP", "GLOBAL_SET"} THEN {Less(1)}
        ELSE IF x.op = "STORE" THEN {Less(2)}
        ELSE IF x.op \in Bulk THEN {Less(3)}
        ELSE IF x.op = "DATA_DROP" THEN {Ops}
        ELSE {}

Compute ==
    /\ mode = "run"
    /\ \E o \in Outcomes : GoOn(Cur.pc + 1, o)

LocalSet ==
    /\ mode = "run" /\ Code.op = "LOCAL_SET"
    /\ acts' = Append(Rest, [At(Cur, Cur.pc + 1, Less(1))
                               EXCEPT !.locals = [@ EXCEPT ![Code.a + 1] = Opd(1)]])
    /\ UNCHANGED <<mode, mail, outcome, results>>

\* A branch out of blocks keeps the label's operands on top of the height
\* the label had.
Unwind ==
    LET h == Code.b - Len(Cur.locals)
    IN  /\ mode = "run" /\ Code.op = "UNWIND"
        /\ GoOn(Cur.pc + 1, SubSeq(Ops, 1, h - Code.a) \o Top(Code.a))

Branch ==
    /\ mode = "run"
    /\ \/ Code.op = "BR" /\ GoOn(Code.b, Ops)
       \/ /\ Code.op = "BR_IF_NOT"
          /\ GoOn(IF Opd(1) = 0 THEN Code.b ELSE Cur.pc + 1, Less(1))

\* The callee gets the top operands as its arguments; the caller keeps the rest
\* and its return address.
Invoke(i, o) ==
    LET n == mod.funcs[i].n_params
    IN  /\ acts' = Rest \o <<At(Cur, Cur.pc + 1, SubSeq(o, 1, Len(o) - n)),
                             NewAct(i, SubSeq(o, Len(o) - n + 1, Len(o)))>>
        /\ UNCHANGED <<mode, mail, outcome, results>>

\* The table entry at index i has the type the instruction names.
HasType(i) ==
    /\ i < mod.table_len /\ mod.table[i] < mod.n_funcs
    /\ mod.func_typeidx[mod.table[i]] < mod.n_types
    /\ mod.type_fp[mod.func_typeidx[mod.table[i]]] = mod.type_fp[Code.b]

Call ==
    /\ mode = "run"
    /\ \/ Code.op = "CALL" /\ Invoke(Code.b, Ops)
       \/ /\ Code.op = "CALL_INDIRECT" /\ HasType(Opd(1))
          /\ Invoke(mod.table[Opd(1)], Less(1))

\* A tail call replaces the activation.
ReturnCall ==
    /\ mode = "run" /\ Code.op = "RETURN_CALL"
    /\ acts' = Append(Rest, NewAct(Code.b, Top(mod.funcs[Code.b].n_params)))
    /\ UNCHANGED <<mode, mail, outcome, results>>

\* The results go to the caller's operands, or out of the run.
Return ==
    LET res == Top(mod.funcs[Cur.fn].n_results)
        n   == Len(acts) - 1
    IN  /\ mode = "run" /\ Code.op \in Returns
        /\ UNCHANGED mail
        /\ \/ /\ n > 0
              /\ acts' = Append(SubSeq(acts, 1, n - 1),
                               At(acts[n], acts[n].pc, acts[n].ops \o res))
              /\ UNCHANGED <<mode, outcome, results>>
           \/ /\ n = 0
              /\ acts' = <<>> /\ results' = res /\ mode' = "over" /\ outcome' = "OK"

\* An import is a request to the host, which answers with its results.
CallHost ==
    LET n == HostParams(Code)
    IN  /\ mode = "run" /\ Code.op = "CALL_HOST"
        /\ acts' = Append(Rest, At(Cur, Cur.pc + 1, Less(n)))
        /\ mail' = [fn_id |-> Code.b, args |-> Top(n), n_results |-> HostResults(Code)]
        /\ mode' = "host"
        /\ UNCHANGED <<outcome, results>>

HostAnswer ==
    /\ mode = "host"
    /\ \E w \in Words(mail.n_results) :
          acts' = Append(Rest, At(Cur, Cur.pc, Ops \o w))
    /\ mode' = "run" /\ mail' = NoMail
    /\ UNCHANGED <<outcome, results>>

\* The reasons to end a run without results.  The implementation may run out of
\* stack, frames, fuel or steps anywhere; the other traps need their cause.
Traps ==
    {"STACK_OVERFLOW", "CALL_DEPTH", "OUT_OF_FUEL", "UNSUPPORTED_OP", "RUNNING"}
    \cup (IF mode # "run" THEN {}
          ELSE IF Code.op = "UNREACHABLE" THEN {"UNREACHABLE"}
          ELSE IF Code.op = "DIV" /\ Opd(1) = 0 THEN {"DIV_BY_ZERO"}
          ELSE IF Code.op = "DIV" THEN {"INT_OVERFLOW"}
          ELSE IF Code.op = "CALL_INDIRECT" /\ ~ HasType(Opd(1)) THEN {"INDIRECT_CALL"}
          ELSE IF Code.op \in {"LOAD", "STORE", "DATA_DROP"} \cup Bulk THEN {"MEM_OOB"}
          ELSE {})

Trap ==
    /\ mode \in {"run", "host"}
    /\ outcome' \in Traps
    /\ acts' = <<>> /\ mode' = "over" /\ mail' = NoMail /\ results' = <<>>

Next ==
    /\ \/ \E e \in Exports : Start(e)
       \/ Refuse
       \/ Compute \/ LocalSet \/ Unwind \/ Branch \/ Call \/ ReturnCall \/ Return
       \/ CallHost \/ HostAnswer \/ Trap
    /\ UNCHANGED env

Spec == Init /\ [][Next]_avars
=============================================================================
