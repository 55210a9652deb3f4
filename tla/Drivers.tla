------------------------------ MODULE Drivers -------------------------------
(***************************************************************************)
(* The four callers of run_instance, each a loop that starts an exported   *)
(* function, resumes the instance after host calls and slices, and reads   *)
(* the outcome:                                                            *)
(*   "cpu"      run_cpu       (src/run.cpp)                                *)
(*   "gpu"      run_gpu       (src/runner.cu), one kernel per slice        *)
(*   "gpu_host" run_gpu_host  (include/cuwasm/gpu_host_run.h)              *)
(*   "batch"    k_batch       (src/bench.cu), one thread of the batch      *)
(* The module outlives a run: mem_size and the live flags carry over.      *)
(***************************************************************************)
EXTENDS Interp

CONSTANTS
    Setups,           \* the setups, see SetupOk
    MAILBOX_RESULTS,  \* size of HostMailbox.results
    MaxCalls          \* bound: runs of one module

VARIABLES
    view,         \* size in the MemView the driver built, in pages
    m_mem,        \* HostModule.mem_size, in pages
    entry,        \* the function this run was asked for
    calls,        \* runs so far
    result        \* status of the last run ("NONE" before the first)

dvars == <<view, m_mem, entry, calls, result>>
vars  == <<ivars, dvars>>

\* A setup: a verified module, one driver, and the driver's limits.
SetupOk(s) ==
    /\ ModuleShape(s.mod) /\ HeightsConsistent(s.mod, s.ht)
    /\ \A k \in 0 .. s.mod.n_consts - 1 : s.mod.consts[k] < WORD
    /\ s.exports \subseteq 0 .. s.mod.n_funcs - 1
    /\ s.kind \in {"cpu", "gpu", "gpu_host", "batch"}
    /\ s.stack_cap \in 1 .. STACK_CAP
    /\ s.frame_cap \in 1 .. FRAME_CAP
    /\ s.fuel \in Nat /\ s.max_steps \in Nat
    /\ s.mem_pages \in Nat /\ s.mem_max \in Nat
    /\ s.mem_pages <= s.mem_max /\ s.mem_max < WORD - 1
    /\ s.kind # "batch" => s.stack_cap = STACK_CAP /\ s.frame_cap = FRAME_CAP
    /\ s.kind = "batch" => s.mem_max = s.mem_pages
    /\ s.kind \in {"gpu_host", "batch"} => s.fuel = s.max_steps

ASSUME DriverAssumption ==
    /\ WORD \in Nat /\ PAGE \in Nat /\ STACK_CAP \in Nat /\ FRAME_CAP \in Nat
    /\ MAILBOX_ARGS \in Nat /\ MAILBOX_RESULTS \in Nat /\ MaxCalls \in Nat
    /\ \A s \in Setups : SetupOk(s)

Frame0 == [ret_pc |-> 0, fp |-> 0, sp_base |-> 0, n_results |-> 0]
NoMail == [fn_id |-> 0, n_results |-> 0, args |-> <<>>]

Init ==
    /\ env \in Setups
    /\ ctl = "idle"
    /\ pc = 0 /\ sp = 0 /\ fp = 0 /\ csp = 0 /\ fuel = 0 /\ peak_csp = 0
    /\ status = "RUNNING" /\ step = 0
    /\ stack = [i \in Slots |-> 0]
    /\ frames = [k \in FrameSlots |-> Frame0]
    /\ fn = [k \in 0 .. FRAME_CAP - 1 |-> 0]
    /\ mem = env.mem_pages /\ st_mem = env.mem_pages
    /\ live = [d \in 0 .. mod.n_data - 1 |-> TRUE]
    /\ mb = NoMail /\ oob = FALSE
    /\ view = env.mem_pages /\ m_mem = env.mem_pages
    /\ entry = 0 /\ calls = 0 /\ result = "NONE"

-----------------------------------------------------------------------------
\* A call with a bad function index or argument count returns at once.
RefuseCall ==
    /\ ctl = "idle" /\ ~ oob /\ calls < MaxCalls
    /\ env.kind # "batch"
    /\ calls' = calls + 1
    /\ result' = "UNSUPPORTED_OP"
    /\ UNCHANGED <<ivars, view, m_mem, entry>>

\* The driver's prologue: fresh VmState, arguments and zeroed locals on the
\* stack, frame 0 for the entry function, a MemView of the module's size.  The
\* slots are written without a check; the batch uploads zeroed data and only
\* sets sp.  The batch marks every data segment live again.
Start(e) ==
    LET f == mod.funcs[e]
    IN  /\ ctl = "idle" /\ ~ oob /\ calls < MaxCalls
        /\ e \in env.exports
        /\ entry' = e /\ calls' = calls + 1
        /\ pc' = f.code_off /\ sp' = NumLocals(f) /\ fp' = 0
        /\ csp' = 1 /\ peak_csp' = 1 /\ fuel' = env.fuel
        /\ \E args \in [0 .. f.n_params - 1 -> Values] :
              stack' = [i \in Slots |-> IF i < f.n_params THEN args[i] ELSE 0]
        /\ frames' = [k \in FrameSlots |->
                         IF k = 0 THEN [Frame0 EXCEPT !.n_results = f.n_results]
                                  ELSE Frame0]
        /\ fn' = [fn EXCEPT ![0] = e]
        /\ oob' = (env.kind # "batch" /\ NumLocals(f) > env.stack_cap)
        /\ mem' = m_mem /\ st_mem' = m_mem /\ view' = m_mem
        /\ live' = IF env.kind = "batch" THEN [d \in 0 .. mod.n_data - 1 |-> TRUE]
                                         ELSE live
        /\ mb' = NoMail
        /\ status' = "RUNNING" /\ ctl' = "vm" /\ step' = 0
        /\ UNCHANGED <<env, m_mem, result>>

\* Mutant: every driver keeps the MemView of its prologue.
CallAgainStale ==
    /\ status' = "RUNNING" /\ ctl' = "vm" /\ step' = 0
    /\ mem' = view

\* run_instance is called again.  k_run builds its MemView from st->mem_size;
\* the other drivers pass the MemView of their prologue.
CallAgain ==
    /\ status' = "RUNNING" /\ ctl' = "vm" /\ step' = 0
    /\ mem' = IF env.kind = "gpu" THEN st_mem ELSE view

\* run_cpu and run_gpu loop while the status is ST_RUNNING.
ResumeSlice ==
    /\ ctl = "driver" /\ ~ oob
    /\ status = "RUNNING" /\ env.kind \in {"cpu", "gpu"}
    /\ CallAgain
    /\ UNCHANGED <<env, regs, arrs, st_mem, live, mb, oob, dvars>>

\* The driver returns without writing m.mem_size.
GiveUp(s) ==
    /\ result' = s /\ ctl' = "idle"
    /\ UNCHANGED <<env, regs, arrs, status, step, mem, st_mem, live, mb, oob,
                   view, m_mem, entry, calls>>

\* host_fn fails, or a CUDA call of run_gpu does.
Abort ==
    /\ ctl = "driver" /\ ~ oob
    /\ status = "HOSTCALL_PENDING" \/ env.kind = "gpu"
    /\ GiveUp("UNSUPPORTED_OP")

Pending == ctl = "driver" /\ ~ oob /\ status = "HOSTCALL_PENDING"

\* The results the host answers with.  gpu_host_dispatch answers every call with
\* one; a host_fn is taken to leave mb.n_results as CALL_HOST set it.
Answered == IF env.kind \in {"gpu_host", "batch"} THEN 1 ELSE mb.n_results

\* The host answers: its results are pushed and the instance resumes.  A full
\* stack stops the batch's loop early; the other drivers trap.
HostReturn ==
    LET fit  == env.stack_cap - sp
        n    == IF Answered <= fit THEN Answered ELSE fit
    IN  /\ Pending
        /\ Answered <= fit \/ env.kind = "batch"
        /\ \E v \in [0 .. n - 1 -> Values] : Put(sp, n, LAMBDA i : v[i])
        /\ oob' = (n > MAILBOX_RESULTS)
        /\ sp' = sp + n
        /\ CallAgain
        /\ UNCHANGED <<env, pc, fp, csp, fuel, peak_csp, frames, fn, st_mem, live,
                       mb, dvars>>

HostOverflow ==
    /\ Pending
    /\ Answered > env.stack_cap - sp /\ env.kind # "batch"
    /\ GiveUp("STACK_OVERFLOW")

\* The loop ends: m.mem_size is updated (the batch keeps nothing) and the
\* status reported.
Finish ==
    /\ ctl = "driver" /\ ~ oob
    /\ status # "HOSTCALL_PENDING"
    /\ status = "RUNNING" => env.kind \in {"gpu_host", "batch"}
    /\ result' = status
    /\ m_mem' = IF env.kind = "batch" THEN m_mem ELSE st_mem
    /\ ctl' = "idle"
    /\ UNCHANGED <<env, regs, arrs, status, step, mem, st_mem, live, mb, oob,
                   view, entry, calls>>

\* What the driver's thread does until its run is over.
Run ==
    \/ Step /\ UNCHANGED dvars
    \/ ResumeSlice
    \/ Abort
    \/ HostReturn
    \/ HostOverflow
    \/ Finish

Next == Run \/ RefuseCall \/ \E e \in env.exports : Start(e)

Spec == Init /\ [][Next]_vars /\ WF_vars(Run)

-----------------------------------------------------------------------------
TypeOK ==
    /\ env \in Setups
    /\ ctl \in {"vm", "driver", "idle"}
    /\ pc \in Nat /\ sp \in Nat /\ fp \in Nat /\ csp \in 0 .. FRAME_CAP
    /\ peak_csp \in 0 .. FRAME_CAP /\ fuel \in Int /\ step \in Nat
    /\ status \in Statuses /\ result \in Statuses \cup {"NONE"}
    /\ ctl = "vm" => status = "RUNNING"
    /\ stack \in [Slots -> Values]
    /\ frames \in [FrameSlots -> [ret_pc : Nat, fp : Nat, sp_base : Nat, n_results : Nat]]
    /\ fn \in [0 .. FRAME_CAP - 1 -> Nat]
    /\ {mem, st_mem, view, m_mem} \subseteq 0 .. env.mem_max
    /\ live \in [0 .. mod.n_data - 1 -> BOOLEAN]
    /\ mb.n_results \in Nat
    /\ oob \in BOOLEAN /\ calls \in 0 .. MaxCalls /\ entry \in Nat

(***************************************************************************)
(* The properties assume what SetupLinked says of the module: translate_wasm *)
(* and Wasm validation give all of it except that tables and exports name   *)
(* no import, that a host function has one result at most (and exactly one  *)
(* for gpu_host_dispatch, which answers every call with one), and that the  *)
(* entry function's frame fits the stack.                                   *)
(***************************************************************************)
SetupLinked(s) ==
    /\ Lowered(s.mod) /\ TableHasCode(s.mod)
    /\ \A e \in s.exports :
          HasCode(s.mod.funcs[e]) /\ NumLocals(s.mod.funcs[e]) <= s.stack_cap
    /\ \A p \in 0 .. s.mod.code_len - 1 : s.mod.code[p].op = "CALL_HOST" =>
          /\ HostResults(s.mod.code[p]) <= MAILBOX_RESULTS
          /\ s.kind \in {"gpu_host", "batch"} => HostResults(s.mod.code[p]) = 1

\* Function i is at pc p, its frame starts at base and its operands end at top,
\* exactly as high as verify_cuop computed.
AtHeight(i, p, base, top) ==
    LET g == mod.funcs[i]
    IN  /\ i \in 0 .. mod.n_funcs - 1
        /\ p - g.code_off \in 0 .. g.code_len - 1
        /\ ht[i][p - g.code_off] >= 0
        /\ top = base + NumLocals(g) + ht[i][p - g.code_off]

\* The instance runs or will be resumed.
Active == ctl = "vm" \/ (ctl = "driver" /\ status \in {"RUNNING", "HOSTCALL_PENDING"})

(***************************************************************************)
(* At every step of a run the stack is laid out as verify_cuop predicted:  *)
(* the current activation has the height of its pc (with the results a     *)
(* pending host call still owes), and each suspended caller will have the  *)
(* height of its return address once its callee's results are in place,    *)
(* through calls, tail calls, unwinds, slices and host calls.              *)
(***************************************************************************)
StackDiscipline ==
    Active =>
        /\ csp \in 1 .. FRAME_CAP
        /\ fp = frames[csp - 1].sp_base
        /\ AtHeight(fn[csp - 1], pc, fp,
                    IF status = "HOSTCALL_PENDING" THEN sp + mb.n_results ELSE sp)
        /\ \A k \in 0 .. csp - 1 : frames[k].n_results = mod.funcs[fn[k]].n_results
        /\ \A k \in 1 .. csp - 1 :
              /\ frames[k].fp = frames[k - 1].sp_base
              /\ frames[k].sp_base >= frames[k].fp + NumLocals(mod.funcs[fn[k - 1]])
              /\ AtHeight(fn[k - 1], frames[k].ret_pc, frames[k].fp,
                          frames[k].sp_base + frames[k].n_results)

(***************************************************************************)
(* AoSView and AoSFrameView index without a check, the pops of             *)
(* run_instance are unchecked, and drivers read mailbox results unchecked: *)
(* still no access leaves the instance's own stack, frames and mailbox.    *)
(***************************************************************************)
NoOverrun == ~ oob

(***************************************************************************)
(* No step of a run, a host's answer included, changes a slot below the    *)
(* frame pointer: an activation never touches the locals and operands of   *)
(* its callers, whatever moves calls, tail calls, unwinds and returns do.  *)
(***************************************************************************)
FrameIsolation ==
    [][ctl # "idle" => \A i \in Slots : i < fp => stack'[i] = stack[i]]_vars

(***************************************************************************)
(* When a run ends with ST_OK all frames are popped and the stack holds    *)
(* exactly the results of the exported function, so the slots drivers read *)
(* (stack[0] .. stack[n_results-1]) are those results; also when the       *)
(* function that finally returned was reached by tail calls.               *)
(***************************************************************************)
ResultsInPlace ==
    ctl = "driver" /\ status = "OK" =>
        csp = 0 /\ sp = mod.funcs[entry].n_results

(***************************************************************************)
(* Linear memory never shrinks: memory.size after a host call, a new slice *)
(* or a new call of the module is at least what it was before.  Only a run *)
(* its driver gave up on (host_fn failed, no room for its results, a CUDA  *)
(* error) may leave the module with the size it had when that run began.   *)
(***************************************************************************)
MemoryNeverShrinks ==
    [][\/ mem' >= mem
       \/ ctl = "idle" /\ result \in {"UNSUPPORTED_OP", "STACK_OVERFLOW"}]_vars

(***************************************************************************)
(* Every import suspends with ST_HOSTCALL_PENDING: run_instance never has  *)
(* a frame for an import, whether called directly, through the table or as *)
(* the entry function.                                                     *)
(***************************************************************************)
ImportsSuspend ==
    Active => \A k \in 0 .. csp - 1 : fn[k] >= mod.n_host_imports

(***************************************************************************)
(* Traps are never silent: an instance goes on after a host call only with *)
(* all of the call's results on its stack.                                 *)
(***************************************************************************)
NeverSilent == [][Pending /\ ctl' = "vm" => sp' = sp + Answered]_vars

\* Every cycle of the code costs fuel: no tail calls, conditional branches
\* forward only (translate_wasm emits BR_IF_NOT forward).
Metered ==
    /\ env.max_steps > 0
    /\ \A p \in 0 .. mod.code_len - 1 :
          /\ mod.code[p].op # "RETURN_CALL"
          /\ mod.code[p].op = "BR_IF_NOT" => mod.code[p].b > p

(***************************************************************************)
(* Every run of a metered module ends: loops burn fuel, recursion runs     *)
(* into FRAME_CAP or the stack, and slices and host calls are resumed.     *)
(***************************************************************************)
RunEnds == (ctl = "vm" /\ Metered) ~> (ctl = "idle")
=============================================================================
