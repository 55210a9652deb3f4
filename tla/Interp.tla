------------------------------- MODULE Interp -------------------------------
(***************************************************************************)
(* run_instance (include/cuwasm/interp.h): the interpreter CPU and GPU     *)
(* share.  One action per opcode group; an action is one turn of the loop. *)
(*                                                                         *)
(* The value stack, the registers and the frames are concrete.  A value is *)
(* a word of WORD values; what an ALU op, a load or a global.get yields is *)
(* any word, and the bytes of linear memory are not kept, only its size in *)
(* pages.  AoSView and AoSFrameView do not check an index, so an access    *)
(* outside the instance's own arrays is recorded in oob and ends the       *)
(* behaviour: what happens then is undefined.  Registers after a trap are  *)
(* not modelled further than drivers read them.                            *)
(***************************************************************************)
EXTENDS CuModule

CONSTANTS
    WORD,         \* number of values of a stack slot (2^64)
    PAGE,         \* bytes of a page (WASM_PAGE)
    STACK_CAP,    \* slots of the full-size stack, the limit run_instance knows
    FRAME_CAP,    \* call depth run_instance allows
    MAILBOX_ARGS  \* size of HostMailbox.args

VARIABLES
    env,          \* what runs, and under which limits (never changes): [mod, ht,
                  \* exports, kind, mem_pages, mem_max, stack_cap, frame_cap, fuel,
                  \* max_steps]
    ctl,          \* "vm": in run_instance, "driver": back in its caller,
                  \* "idle": no run in progress
    pc, sp, fp, csp, fuel, status, peak_csp,    \* VmState
    step,         \* loop counter of this call of run_instance
    stack,        \* slots of StackV, 0 .. stack_cap-1
    frames,       \* FrameV, 0 .. frame_cap-1
    mem,          \* size of run_instance's own MemView, in pages
    st_mem,       \* VmState.mem_size, in pages
    live,         \* DataView.live
    mb,           \* HostMailbox
    fn,           \* ghost: fn[k] is the function frames[k] was pushed for
    oob           \* ghost: an access missed the instance's arrays

regs  == <<pc, sp, fp, csp, fuel, peak_csp>>
arrs  == <<stack, frames, fn>>
ivars == <<env, ctl, pc, sp, fp, csp, fuel, status, peak_csp, step,
           stack, frames, mem, st_mem, live, mb, fn, oob>>

mod == env.mod
ht  == env.ht

Values == 0 .. WORD - 1
Slots  == 0 .. env.stack_cap - 1
FrameSlots == 0 .. env.frame_cap - 1

\* The instruction at pc.
in == mod.code[pc]

Statuses == {"RUNNING", "OK", "UNREACHABLE", "STACK_OVERFLOW", "CALL_DEPTH",
             "OUT_OF_FUEL", "UNSUPPORTED_OP", "DIV_BY_ZERO", "INT_OVERFLOW",
             "MEM_OOB", "INDIRECT_CALL", "HOSTCALL_PENDING"}

-----------------------------------------------------------------------------
\* stack.at(i), with any value standing for a slot that is not there.
Cell(i) == IF i \in Slots THEN stack[i] ELSE 0

\* n values written from slot base up.
Put(base, n, V(_)) ==
    stack' = [i \in Slots |-> IF base <= i /\ i < base + n
                              THEN V(i - base) ELSE stack[i]]

\* n values moved from slot src up to slot dst up (overlap allowed: the code
\* picks the direction that copies correctly).
Move(dst, src, n) == Put(dst, n, LAMBDA i : Cell(src + i))

\* The slots from lo to hi - 1 are accessed.
Touch(lo, hi) == oob' = (lo < hi /\ (lo < 0 \/ hi > env.stack_cap))

\* run_instance returns with status s.
Leave(s) == status' = s /\ ctl' = "driver" /\ st_mem' = mem /\ step' = step

\* TRAP(s), nothing else having changed.
Trap(s) == Leave(s) /\ oob' = FALSE /\ UNCHANGED <<regs, arrs, mem, live, mb>>

\* break: the check after the switch, then the next turn.
Continue(newpc, newsp) ==
    /\ pc' = newpc /\ sp' = newsp
    /\ IF newsp > STACK_CAP
       THEN Leave("STACK_OVERFLOW")
       ELSE step' = step + 1 /\ UNCHANGED <<status, ctl, st_mem>>

\* Fetch at pc: the instruction is one of ops.
Fetch(ops) ==
    /\ ctl = "vm" /\ ~ oob /\ UNCHANGED env
    /\ step < env.max_steps
    /\ pc < mod.code_len
    /\ in.op \in ops

\* The loop ends because the slice is used up.
SliceEnd ==
    /\ ctl = "vm" /\ ~ oob /\ UNCHANGED env
    /\ step >= env.max_steps
    /\ Leave("RUNNING")
    /\ UNCHANGED <<regs, arrs, mem, live, mb, oob>>

\* pc ran out of the code, unreachable, or an opcode the switch does not know.
Halt ==
    /\ ctl = "vm" /\ ~ oob /\ UNCHANGED env
    /\ step < env.max_steps
    /\ ~ (pc < mod.code_len /\ in.op \in KnownOps \ {"UNREACHABLE"})
    /\ Trap(IF pc < mod.code_len /\ in.op # "UNREACHABLE"
            THEN "UNSUPPORTED_OP" ELSE "UNREACHABLE")

-----------------------------------------------------------------------------
(***************************************************************************)
(* Values: constants, locals, globals, arithmetic.                         *)
(***************************************************************************)

NoGlobal == in.op \in {"GLOBAL_GET", "GLOBAL_SET"} /\ in.b >= mod.n_globals

\* What a push op may push.
Pushed ==
    IF in.op = "I64_CONST" THEN {mod.consts[in.b]}
    ELSE IF in.op = "LOCAL_GET" THEN {Cell(fp + in.a)}
    ELSE IF in.op = "MEMORY_SIZE" THEN {mem}
    ELSE Values

\* Mutant: CU_PUSH does not look at the capacity.
PushUnchecked ==
    /\ Fetch(PushOne) /\ ~ NoGlobal
    /\ \E v \in Pushed : Put(sp, 1, LAMBDA i : v)
    /\ oob' = (sp >= env.stack_cap)
    /\ Continue(pc + 1, sp + 1)
    /\ UNCHANGED <<fp, csp, fuel, peak_csp, frames, fn, mem, live, mb>>

Push ==
    /\ Fetch(PushOne) /\ ~ NoGlobal
    /\ sp < env.stack_cap
    /\ \E v \in Pushed : Put(sp, 1, LAMBDA i : v)
    /\ IF in.op = "LOCAL_GET" THEN Touch(fp + in.a, fp + in.a + 1)
                             ELSE oob' = FALSE
    /\ Continue(pc + 1, sp + 1)
    /\ UNCHANGED <<fp, csp, fuel, peak_csp, frames, fn, mem, live, mb>>

\* CU_PUSH on a full stack.
PushFull ==
    /\ Fetch(PushOne) /\ ~ NoGlobal
    /\ sp >= env.stack_cap
    /\ Trap("STACK_OVERFLOW")

LocalSet ==
    /\ Fetch({"LOCAL_SET"})
    /\ Put(fp + in.a, 1, LAMBDA i : Cell(sp - 1))
    /\ oob' = ~ {sp - 1, fp + in.a} \subseteq Slots
    /\ Continue(pc + 1, sp - 1)
    /\ UNCHANGED <<fp, csp, fuel, peak_csp, frames, fn, mem, live, mb>>

\* The value stored is not kept: global.get yields any word.
GlobalSet ==
    /\ Fetch({"GLOBAL_SET"}) /\ ~ NoGlobal
    /\ Touch(sp - 1, sp)
    /\ Continue(pc + 1, sp - 1)
    /\ UNCHANGED <<fp, csp, fuel, peak_csp, arrs, mem, live, mb>>

BadGlobal ==
    /\ Fetch({"GLOBAL_GET", "GLOBAL_SET"}) /\ NoGlobal
    /\ Trap("UNSUPPORTED_OP")

\* k words popped, r of any value pushed, by an op that cannot trap.
Replace(k, r) ==
    /\ \E v \in [0 .. r - 1 -> Values] : Put(sp - k, r, LAMBDA i : v[i])
    /\ Touch(sp - k, sp)
    /\ Continue(pc + 1, sp - k + r)
    /\ UNCHANGED <<fp, csp, fuel, peak_csp, frames, fn, mem, live, mb>>

Unary  == Fetch({"UNOP", "CLZ"}) /\ Replace(1, 1)
Binary == Fetch({"BINOP"}) /\ Replace(2, 1)
Wide   == Fetch({"MUL_WIDE"}) /\ Replace(2, 2)
Add128 == Fetch({"ARITH128"}) /\ Replace(4, 2)
Drop   == Fetch({"DROP"}) /\ Replace(1, 0)

\* A zero divisor traps; -1 under the smallest integer traps in div_s only.
Div ==
    /\ Fetch({"DIV"}) /\ Cell(sp - 1) # 0
    /\ Replace(2, 1)

DivTrap ==
    /\ Fetch({"DIV"})
    /\ \/ Cell(sp - 1) = 0 /\ Trap("DIV_BY_ZERO")
       \/ /\ Cell(sp - 1) = WORD - 1 /\ Cell(sp - 2) = WORD \div 2
          /\ Trap("INT_OVERFLOW")

Select ==
    /\ Fetch({"SELECT"})
    /\ Put(sp - 3, 1, LAMBDA i : IF Cell(sp - 1) # 0 THEN Cell(sp - 3)
                                                    ELSE Cell(sp - 2))
    /\ Touch(sp - 3, sp)
    /\ Continue(pc + 1, sp - 2)
    /\ UNCHANGED <<fp, csp, fuel, peak_csp, frames, fn, mem, live, mb>>

-----------------------------------------------------------------------------
(***************************************************************************)
(* Linear memory.  Only bounds and sizes are modelled.                     *)
(***************************************************************************)

\* mem_in_bounds and the bulk-memory checks: n bytes from ea are in memory.
InMemory(ea, n) == ea + n <= mem * PAGE

\* Bytes a load or store moves, from its operand a.
AccessBytes == IF in.op = "LOAD" THEN in.a % 16 ELSE in.a

\* The address a load or store pops.
Address == Cell(IF in.op = "LOAD" THEN sp - 1 ELSE sp - 2)

AccessOk == AccessBytes \in 1 .. 8 /\ InMemory(Address + in.b, AccessBytes)

Load  == Fetch({"LOAD"}) /\ AccessOk /\ Replace(1, 1)
Store == Fetch({"STORE"}) /\ AccessOk /\ Replace(2, 0)

\* Mutant: memory.grow ignores the maximum.
GrowUnchecked ==
    /\ Fetch({"MEMORY_GROW"})
    /\ mem' = mem + Cell(sp - 1)
    /\ Put(sp - 1, 1, LAMBDA i : mem)
    /\ Touch(sp - 1, sp)
    /\ Continue(pc + 1, sp)
    /\ UNCHANGED <<fp, csp, fuel, peak_csp, frames, fn, live, mb>>

MemoryGrow ==
    LET np == mem + Cell(sp - 1)
        ok == np <= env.mem_max
    IN  /\ Fetch({"MEMORY_GROW"})
        /\ mem' = IF ok THEN np ELSE mem
        /\ Put(sp - 1, 1, LAMBDA i : IF ok THEN mem ELSE WORD - 1)
        /\ Touch(sp - 1, sp)
        /\ Continue(pc + 1, sp)
        /\ UNCHANGED <<fp, csp, fuel, peak_csp, frames, fn, live, mb>>

\* The bytes memory.init may read: none once the segment was dropped.
SegmentLen == IF live[in.a] THEN mod.data_len[in.a] ELSE 0

\* n, src (or the fill byte) and dst are popped in this order.
BulkOk ==
    LET n == Cell(sp - 1)  src == Cell(sp - 2)  dst == Cell(sp - 3)
    IN  /\ InMemory(dst, n)
        /\ in.op = "MEMORY_COPY" => InMemory(src, n)
        /\ in.op = "MEMORY_INIT" => in.a < mod.n_data /\ src + n <= SegmentLen

BulkMemory == Fetch(Bulk) /\ BulkOk /\ Replace(3, 0)

DataDrop ==
    /\ Fetch({"DATA_DROP"}) /\ in.a < mod.n_data
    /\ live' = [live EXCEPT ![in.a] = FALSE]
    /\ oob' = FALSE
    /\ Continue(pc + 1, sp)
    /\ UNCHANGED <<fp, csp, fuel, peak_csp, arrs, mem, mb>>

MemoryTrap ==
    /\ Fetch({"LOAD", "STORE", "DATA_DROP"} \cup Bulk)
    /\ in.op \in {"LOAD", "STORE"} => ~ AccessOk
    /\ in.op \in Bulk => ~ BulkOk
    /\ in.op = "DATA_DROP" => in.a >= mod.n_data
    /\ Trap("MEM_OOB")

-----------------------------------------------------------------------------
(***************************************************************************)
(* Branches and calls.                                                     *)
(***************************************************************************)

\* The top in.a values move down so that they end at dest.
Unwind ==
    LET dest == fp + in.b
    IN  /\ Fetch({"UNWIND"})
        /\ IF in.a > sp \/ dest < in.a \/ dest > STACK_CAP
           THEN Trap("STACK_OVERFLOW")
           ELSE /\ Move(dest - in.a, sp - in.a, in.a)
                /\ oob' = (in.a > 0 /\ (sp > env.stack_cap \/ dest > env.stack_cap))
                /\ Continue(pc + 1, dest)
                /\ UNCHANGED <<fp, csp, fuel, peak_csp, frames, fn, mem, live, mb>>

\* A backward branch costs fuel; pc is already past the instruction.
Backedge == in.b <= pc + 1

\* Mutant: no branch costs fuel.
BrFree ==
    /\ Fetch({"BR"})
    /\ oob' = FALSE
    /\ Continue(in.b, sp)
    /\ UNCHANGED <<fp, csp, fuel, peak_csp, arrs, mem, live, mb>>

Br ==
    /\ Fetch({"BR"}) /\ ~ (Backedge /\ fuel <= 1)
    /\ fuel' = IF Backedge THEN fuel - 1 ELSE fuel
    /\ oob' = FALSE
    /\ Continue(in.b, sp)
    /\ UNCHANGED <<fp, csp, peak_csp, arrs, mem, live, mb>>

OutOfFuel ==
    /\ Fetch({"BR"}) /\ Backedge /\ fuel <= 1
    /\ fuel' = fuel - 1
    /\ Leave("OUT_OF_FUEL") /\ oob' = FALSE
    /\ UNCHANGED <<pc, sp, fp, csp, peak_csp, arrs, mem, live, mb>>

BrIfNot ==
    /\ Fetch({"BR_IF_NOT"})
    /\ Touch(sp - 1, sp)
    /\ Continue(IF Cell(sp - 1) = 0 THEN in.b ELSE pc + 1, sp - 1)
    /\ UNCHANGED <<fp, csp, fuel, peak_csp, arrs, mem, live, mb>>

\* The body of OP_CALL, and of OP_CALL_INDIRECT once the index is popped: push
\* a frame for function i, whose arguments end at top, and clear its locals.
Enter(i, top) ==
    LET g    == mod.funcs[i]
        base == top - g.n_params
    IN  IF csp >= FRAME_CAP THEN Trap("CALL_DEPTH")
        ELSE IF top < g.n_params THEN Trap("STACK_OVERFLOW")
        ELSE /\ frames' = [k \in FrameSlots |->
                              IF k = csp
                              THEN [ret_pc |-> pc + 1, fp |-> fp, sp_base |-> base,
                                    n_results |-> g.n_results]
                              ELSE frames[k]]
             /\ fn' = [fn EXCEPT ![csp] = i]
             /\ oob' = (csp \notin FrameSlots)
             /\ csp' = csp + 1
             /\ peak_csp' = IF csp + 1 > peak_csp THEN csp + 1 ELSE peak_csp
             /\ fp' = base
             /\ Put(top, g.n_locals, LAMBDA j : 0)
             /\ IF top + g.n_locals > env.stack_cap
                THEN pc' = pc + 1 /\ sp' = env.stack_cap /\ Leave("STACK_OVERFLOW")
                ELSE Continue(g.code_off, top + g.n_locals)
             /\ UNCHANGED <<fuel, mem, live, mb>>

Call ==
    /\ Fetch({"CALL"})
    /\ IF in.b >= mod.n_funcs THEN Trap("UNSUPPORTED_OP") ELSE Enter(in.b, sp)

\* The function an indirect call selects, if the table entry has the type.
TableIndex == Cell(sp - 1)
Target     == mod.table[TableIndex]

TargetOk ==
    /\ TableIndex < mod.table_len
    /\ Target < mod.n_funcs /\ in.b < mod.n_types
    /\ mod.func_typeidx[Target] < mod.n_types
    /\ mod.type_fp[mod.func_typeidx[Target]] = mod.type_fp[in.b]

CallIndirect == Fetch({"CALL_INDIRECT"}) /\ TargetOk /\ Enter(Target, sp - 1)

IndirectTrap ==
    /\ Fetch({"CALL_INDIRECT"}) /\ ~ TargetOk
    /\ Trap("INDIRECT_CALL")

\* Mutant: a tail call leaves its arguments where they are.
ReturnCallInPlace ==
    LET g   == mod.funcs[in.b]
    IN  /\ Fetch({"RETURN_CALL"})
        /\ Put(sp, g.n_locals, LAMBDA i : 0)
        /\ oob' = FALSE
        /\ fp' = sp - g.n_params
        /\ fn' = [fn EXCEPT ![csp - 1] = in.b]
        /\ IF sp + g.n_locals > env.stack_cap
           THEN pc' = pc + 1 /\ sp' = env.stack_cap /\ Leave("STACK_OVERFLOW")
           ELSE Continue(g.code_off, sp + g.n_locals)
        /\ UNCHANGED <<csp, fuel, peak_csp, frames, mem, live, mb>>

\* The callee takes over the frame: its arguments move down to fp.
ReturnCall ==
    LET g   == mod.funcs[in.b]
        src == sp - g.n_params
        top == fp + g.n_params
    IN  /\ Fetch({"RETURN_CALL"})
        /\ IF in.b >= mod.n_funcs THEN Trap("UNSUPPORTED_OP")
           ELSE IF sp < g.n_params THEN Trap("STACK_OVERFLOW")
           ELSE /\ Put(fp, g.n_params + g.n_locals,
                       LAMBDA i : IF i < g.n_params THEN Cell(src + i) ELSE 0)
                /\ oob' = (g.n_params > 0 /\ (sp > env.stack_cap \/ top > env.stack_cap))
                /\ IF top + g.n_locals > env.stack_cap
                   THEN /\ pc' = pc + 1 /\ sp' = env.stack_cap
                        /\ Leave("STACK_OVERFLOW")
                        /\ UNCHANGED <<frames, fn>>
                   ELSE /\ frames' = [k \in FrameSlots |->
                                         IF k = csp - 1
                                         THEN [frames[k] EXCEPT !.n_results = g.n_results]
                                         ELSE frames[k]]
                        /\ fn' = [fn EXCEPT ![csp - 1] = in.b]
                        /\ Continue(g.code_off, top + g.n_locals)
                /\ UNCHANGED <<fp, csp, fuel, peak_csp, mem, live, mb>>

\* Mutant: the results go to the caller's fp instead of the callee's sp_base.
ReturnToFp ==
    LET fr  == frames[csp - 1]
    IN  /\ Fetch(Returns)
        /\ Move(fr.fp, sp - fr.n_results, fr.n_results)
        /\ oob' = FALSE
        /\ csp' = csp - 1
        /\ fp' = fr.fp
        /\ IF csp = 1
           THEN sp' = fr.sp_base + fr.n_results /\ Leave("OK") /\ UNCHANGED pc
           ELSE Continue(fr.ret_pc, fr.sp_base + fr.n_results)
        /\ UNCHANGED <<fuel, peak_csp, frames, fn, mem, live, mb>>

\* Mutant: the results stay on top of the callee's locals.
ReturnInPlace ==
    LET fr  == frames[csp - 1]
    IN  /\ Fetch(Returns)
        /\ oob' = FALSE
        /\ csp' = csp - 1
        /\ fp' = fr.fp
        /\ IF csp = 1 THEN Leave("OK") /\ UNCHANGED <<pc, sp>>
                      ELSE Continue(fr.ret_pc, sp)
        /\ UNCHANGED <<fuel, peak_csp, arrs, mem, live, mb>>

\* The results move down to where the arguments began; the outermost return
\* ends the run.
Return ==
    LET fr  == frames[csp - 1]
        src == sp - fr.n_results
    IN  /\ Fetch(Returns)
        /\ IF csp = 0 THEN Trap("UNREACHABLE")
           ELSE IF sp < fr.n_results THEN Trap("STACK_OVERFLOW")
           ELSE /\ Move(fr.sp_base, src, fr.n_results)
                /\ Touch(src, sp)
                /\ csp' = csp - 1
                /\ fp' = fr.fp
                /\ IF csp = 1
                   THEN /\ sp' = fr.sp_base + fr.n_results
                        /\ Leave("OK") /\ UNCHANGED pc
                   ELSE Continue(fr.ret_pc, fr.sp_base + fr.n_results)
                /\ UNCHANGED <<fuel, peak_csp, frames, fn, mem, live, mb>>

\* Mutant: the arguments are popped into the mailbox, last one first.
CallHostPops ==
    LET np == HostParams(in)
    IN  /\ Fetch({"CALL_HOST"}) /\ np <= MAILBOX_ARGS
        /\ mb' = [fn_id |-> in.b, n_results |-> HostResults(in),
                  args |-> [i \in 1 .. np |-> Cell(sp - i)]]
        /\ oob' = FALSE
        /\ pc' = pc + 1 /\ sp' = sp - np
        /\ Leave("HOSTCALL_PENDING")
        /\ UNCHANGED <<fp, csp, fuel, peak_csp, arrs, mem, live>>

\* The arguments go to the mailbox and the instance suspends.
CallHost ==
    LET np == HostParams(in)
    IN  /\ Fetch({"CALL_HOST"})
        /\ IF np > MAILBOX_ARGS THEN Trap("UNSUPPORTED_OP")
           ELSE IF sp < np THEN Trap("STACK_OVERFLOW")
           ELSE /\ mb' = [fn_id |-> in.b, n_results |-> HostResults(in),
                          args |-> [i \in 1 .. np |-> Cell(sp - np + i - 1)]]
                /\ Touch(sp - np, sp)
                /\ pc' = pc + 1 /\ sp' = sp - np
                /\ Leave("HOSTCALL_PENDING")
                /\ UNCHANGED <<fp, csp, fuel, peak_csp, arrs, mem, live>>

\* One turn of the loop of run_instance, or its end.
Step ==
    \/ SliceEnd \/ Halt
    \/ Push \/ PushFull \/ LocalSet \/ GlobalSet \/ BadGlobal
    \/ Unary \/ Binary \/ Wide \/ Add128 \/ Drop \/ Div \/ DivTrap \/ Select
    \/ Load \/ Store \/ MemoryGrow \/ BulkMemory \/ DataDrop \/ MemoryTrap
    \/ Unwind \/ Br \/ OutOfFuel \/ BrIfNot
    \/ Call \/ CallIndirect \/ IndirectTrap \/ ReturnCall \/ Return \/ CallHost
=============================================================================
