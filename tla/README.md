# CuWASM in TLA+

A verification project for CuWASM: WebAssembly is lowered on the host to `CuOp`,
checked by `verify_cuop`, and executed by one interpreter, `run_instance`, under
four drivers on CPU and GPU. The modules here model the lowering, the verifier, the
interpreter and its drivers, the host functions of the GPU, and the host side of the
contract tests. TLC checks them on small instances. TLAPS proves, for every value of
the constants, what the verifier decides, that every valid module is lowered to code
with the heights the verifier looks for, and that the GPU host functions answer what
was put.

## The system

| Part | Source | State | Operations | Module |
| --- | --- | --- | --- | --- |
| module format | `cuop.h`, `host.h` | `HostModule`: code, funcs, table, types, consts, data | none (built by the lowering) | `CuModule` |
| lowering | `tools/src/lib.rs` | control stack, height, dead flag, code, sections read so far | `lower_operators`, `translate_wasm`, `cuwasm_translate_wasm`, `cuwasm_translate_free` | `Lowering`, `Translate` |
| verifier | `src/verify.cpp` | height vector, worklist, `max_h`, `max_stack` | `verify_cuop` | `Verify` |
| interpreter | `interp.h`, `vmstate.h`, `mem.h`, `layout.h` | `VmState`, stack, frames, `MemView`, data flags, `HostMailbox` | `run_instance`, one case per opcode | `Interp` |
| CPU driver | `src/run.cpp` | one `MemView` per run, `m.mem_size` | `run_cpu` | `Drivers` |
| GPU driver | `src/runner.cu` | device copies, `st->mem_size` | `run_gpu`, `k_run` | `Drivers` |
| GPU host run | `gpu_host_run.h` | as CPU, plus `GpuHostState` | `run_gpu_host` | `Drivers` |
| GPU batch | `src/bench.cu` | per-thread arrays, smaller caps | `k_batch` | `Drivers` |
| GPU host functions | `gpu_host.h` | object heap (32), K/V store (16) | `gpu_host_dispatch`, seeds | `GpuHost` |
| C API | `src/capi.cpp` | module memory, host callback | load, run, `capi_host_bridge` | `Dispatch` |
| contract tests | `tools/contract-tests` | `DispatchCtx`: relative object table, call list, traces | `dispatch`, `run_cuwasm_profile` | `Dispatch` |

The lowering produces a module; `verify_cuop` accepts or rejects it; a driver
prepares a `VmState` and calls `run_instance`, which returns when the run ends,
traps, has used its `max_steps`, or reaches an import (`ST_HOSTCALL_PENDING`, the
arguments in the mailbox). The driver lets the host answer, pushes the results and
calls `run_instance` again. In the contract tests the host that answers is a Soroban
host behind `DispatchCtx`, which translates between the guest's relative object
handles and the host's absolute ones.

What is hard in this code: the lowering emits forward branches before it knows where
they go, and follows operand heights through code that is never reached; the
interpreter's pops and frame accesses are unchecked and rely on the verifier;
locals, operands and arguments of all activations share one flat stack that tail
calls, unwinds and returns copy within; a run can be cut between any two
instructions; each driver keeps its own copy of the memory size; the batch has
smaller arrays than the limits compiled into `run_instance`; two kinds of object
handles have the same type and differ by one bit.

## Modules

- `CuModule`: the lowered module and the verifier's transfer rules (`Need`,
  `NextHeight`, `Successors`, `OperandsOk`), and what consistent heights are,
  without the worklist (`HeightsConsistent`). Opcodes the verifier and interpreter
  treat alike share a name.
- `Labels`: the entries of the lowering's control stack, and the branches that wait
  in one until its block ends.
- `Lowering`: `lower_operators`, an action per group of operators. Each step reads
  any operator of an alphabet, so every body is lowered. `val` is a reference
  validator, by arities: in a valid module only operators it accepts are read. The
  code has no validator of its own. `hv` records the height at each pc, `body` the
  operators read.
- `Translate`: `translate_wasm`, an action per kind of section entry, the start and
  end of a body, the trap that replaces a body that cannot be lowered, the end of
  the parse; and the vectors the C interface hands out and takes back (`heap`).
- `Semantics`: a reference executor of structured Wasm, and one of flat `CuOp`s.
- `Verify`: `verify_cuop`, one action per turn of its loops. The worklist is a set:
  results hold for every order, the code's LIFO order included. `heights` is a
  history variable.
- `Interp`: `run_instance`, an action per opcode group; one step is one turn of the
  loop. `env` holds the module and the limits and never changes. `fn` and `oob` are
  ghosts: the function of each frame, and whether an unchecked access missed the
  instance's arrays. Results of arithmetic, loads and `global.get` are any word, and
  memory is its size. After a trap the registers are not tracked, as no driver reads
  them.
- `Drivers`: the prologue, resumption, host answers, failure and end of each driver
  (`env.kind`), and the properties of runs.
- `Activations`: the abstract specification. Activations with their own locals and
  operands; no shared stack, frames, slices or drivers.
- `Refinement`: the flat stack cut at the frames, as `Activations`.
- `Programs`: an assembler and small programs for TLC.
- `GpuHost`: `gpu_host_dispatch` case by case, for a guest that makes any calls.
  `NewCall` is the host resetting the heap and seeding the arguments of the next
  call; the store survives. `ledger` is a history variable: what was put, by
  contents. The store starts empty; `gpu_seed_admin` and `gpu_seed_balance` write
  what a put of the same key writes. To `Drivers` it is a host that answers with
  one word.
- `Dispatch`: `run_cuwasm_profile` and every case of `dispatch`, for a guest that
  makes any calls of its imports, stores and grows memory. The Soroban host is
  external: objects, contract data and events, as far as `dispatch` uses them.
  `meant`, `want`, `said` and `asked` are history variables: what the guest meant,
  by contents.
- `Invariants`: the inductive invariants of `Translate` (`Types`, `BranchInv`,
  `ValidInv`, `HeapInv`).
- `VerifyProofs`: theorems about `Verify`. `GpuHostProofs`: theorems about `GpuHost`.
- Theorems about `Translate`: `LoweringProofs` (types), `TranslateProofs` (branches,
  allocation, agreement with the validator), `TranslatedProofs` (heights of the whole
  translation). The last rests on `FlowProofs` (heights of a piece of code),
  `HeightProofs` (operators that run on, open a block or end the body) and
  `JumpProofs` (operators that branch or close a block).

`MC` modules hold the instances for TLC. `MCGpuToken` also states, as an `ASSUME` that
TLC evaluates, that its instance is one the theorems of `GpuHostProofs` speak of.

## Runs

| Run | Instance | Shows |
| --- | --- | --- |
| `verify` | 6,859 bodies of four instructions plus misplaced functions, 30,064 states | acceptance sound, rejection justified, `max_stack` a bound, termination |
| `translate` | every valid body over three alphabets, a module with all sections, invalid bodies, refused entries, 220,311 states | translated modules verify, branches stay inside, a function becomes a trap only for a reason, nothing leaks, code does what the body does |
| `drivers` | 13 programs in 37 setups, 38,655 states | type, stack layout, no unchecked access misses, frames isolated, results in place, memory never shrinks, refinement of `Activations`, runs end |
| `gpu_host` | 3 heap slots, 2 store entries, calls for 2 accounts, 329,144 states | answers by contents, keys unique, contents stable |
| `dispatch` | two runs of a contract, three host calls, one store or grow, 2,146,181 states | handles keep their meaning, storage, events, results and traces are what the guest meant, a failed call changes nothing |
| `memory_resumed` | `run_cpu` with a host call | violated: the run continues with the old memory size |
| `import_in_table` | `call_indirect` of an import | violated: no suspension, code at pc 0 runs |
| `batch_frames` | recursion in a batch thread | violated: the frame array is left |
| `batch_host_result` | host call on a full batch stack | violated: the result is dropped silently |
| `dead_else` | one valid body | violated: a valid function becomes a trap |
| `gpu_host_key_handles` | symbol objects as keys | violated: compared by handle |
| `gpu_host_heap_full` | a call without arguments fills the heap | violated: `vec_new` overwrites object 0 |

The violated runs are disagreements between documentation and code, described under
`findings` in `PROJECT.json`. What they show is kept out of the passing runs:
`drivers` has no recursion in the batch, no import in a table, no host result on a
full batch stack and no resumption of `run_cpu` after memory has grown. In
`translate` the invariant itself names the exception (`InDeadElse`).

**Drivers.** Words of 4 values, pages of 2 bytes, 8 stack slots (7 in the batch), 4
frames (3), mailbox of 2 arguments and 1 result, 40 steps a run or slices of 2. They
are chosen so that every limit is reached by some program: stack full on a push, on
a host result and on a callee's locals, frame limit, fuel, too many host arguments,
memory's end.

**Translate.** Bodies of seven operators over all control operators; bodies behind
four operators that open a loop with two parameters over an operand; bodies behind
seven that open two blocks over operands, with `br_table`. A block can then be left
from one, two and three levels, with and without operands to drop, from reached and
unreached code. Every other operator occurs on four operands. `LoweringCorrect`
executes each finished body and its code for arguments 0 and 1; `ROUNDS` bounds the
executions, and a body that is still running then must be running on both sides.
Bodies with calls, memory or globals are not executed.

**GPU host.** Handle 0 is a different account in different calls, and a stored
address comes back at another handle, so a key that kept a handle would be caught.
Keys are vectors of one address and values are amounts and addresses. Symbol-object
keys, stored objects other than addresses, keys over 128 bytes and vectors over four
elements are outside the instance. Object 0 is always a seeded address there, and
nothing reads the part of it that `vec_new` overwrites when the heap is full: that is
why `ContentsStable` holds in this run and not without seeds. A new key refused by a
full store, and an address that comes back as Void from a full heap, are allowed.

**Dispatch.** The second run's argument list gives the address another handle than
the first's, so a handle kept from one run to the next would resolve to something
else. The host may refuse any call. A contract imports two groups of calls at a time
(containers with data, numbers with data, text with the rest), which keeps the
instance small and still crosses every group with one that stores or shows values.

**Fairness.** `WF_vars(Next)` for the verifier, a sequential pass, and `WF_vars(Run)`
for a driver, whose thread keeps running once a call has started; nothing obliges a
caller to start one. `RunEnds` is claimed for modules whose every cycle burns fuel
(`Metered`): `RETURN_CALL` burns none, and `max_steps = 0` never makes progress.

What the run properties assume of a module is `SetupLinked`, plus `SetupOk` with the
verified heights. Most of `SetupLinked` is what validated Wasm and the lowering give:
`Lowered`, which `TranslatedVerifies` shows of every translated module. Not given:
tables and exports name no import, host functions have at most one result (exactly
one for the GPU host), the entry frame fits the stack.

## Proofs

**The verifier.** `VerifyProofs` proves, for every set of modules, every `MAX_STACK`
and every set of rival heights:

- `VerifyTypeOK`: `Spec => []TypeOK`;
- `VerifySound`: an accepted module has consistent heights (`AcceptSound`);
- `VerifyComplete`: a rejected module has none (`RejectJustified`);
- `VerifyMaxStack`: `max_stack` bounds every frame (`MaxStackBounds`).

`AcceptSound` is not inductive: it speaks of the final state. The invariant says, of
the function in work, that every reached pc outside the worklist already flows into
its successors, and keeps this for finished functions. For completeness the
invariant is that any rival consistent assignment agrees with every height set so
far, so a failing join contradicts it. The only assumption is `VerifyAssumption`:
modules have the shape of a `HostModule`.

**The lowering.** The proofs about `Translate` hold for every set of modules, every
alphabet, every body length and every limit. The only assumption is
`ModulesAssumption`: entries and operators have fields of the kinds the parser
yields.

- `TypesInvariant` (`LoweringProofs`): every emitted instruction has an opcode the
  interpreter knows, labels have natural heights, `br_table` runs only with a scratch
  local.
- `BranchesInsideAlways` (`TranslateProofs`): `Spec => []BranchesInside`, also for
  modules that are not valid. While a body is read, a branch is patched to a pc
  between the start of the function and the end of what is emitted, or its pc is in
  the patch list of a label that is still open (`BranchInv`). Every label but the
  first belongs to an inner block, so the control stack is empty exactly after
  `END_FUNC`, and then nothing waits. Patch lists hold pcs of the function in work
  only, so that patching leaves finished functions alone.
- `NothingLeaksAlways` (`TranslateProofs`): `Spec => []NothingLeaks`. `HeapInv` says
  what is allocated at each stage; in a valid module there are as many functions as
  function types, which is what the free relies on.
- `ValidatorAgrees` and `StubJustifiedAlways` (`TranslateProofs`):
  `Spec => []StubJustified`. The lowering has no validator; it follows its own
  heights. The invariant (`Agree` in `Invariants`) relates label by label its control stack to the validator's frames: where validation says the code is
  reachable the heights are equal, and where they are not the label is dead or in the
  `else` arm of an `if` that was entered dead. So a check of the lowering fails only
  there or at an operator it does not know.

- `HeightInvariant` and `TranslatedVerifiesAlways` (`TranslatedProofs`):
  `Spec => []TranslatedVerifies`. Every valid module that is translated is well
  lowered and has consistent heights at every reached pc: by `VerifyComplete`,
  `verify_cuop` then rejects it only for a frame over `MAX_STACK` or if it has no
  functions or no code. `TranslatedVerifies` speaks of finished
  modules only, so the invariant (`HeightInv`) speaks of the function in work as well.
  Its core is `FlowOk`, which says of a prefix of the code what `ConsistentIn` says of
  a function: at each reached pc there are the operands the instruction needs, and the
  height after it is the height at its successors. Two kinds of successors do not
  exist yet. The pc after the last instruction has the height the lowering follows;
  that this is the true height comes from `ValidatorAgrees`. The target of a branch
  that waits in a label has the height the label will have when its block ends
  (`JoinHeight`); patching replaces the one by the other. Reading more of the module
  adds types, functions and constants and changes none that the code refers to.

**The GPU host functions.** `GpuHostProofs` proves for every size of heap, store, key
and vector, every set of seeds and every order of calls:

- `KeysUniqueAlways`: `Spec => []KeysUnique`, for every guest. `StoreInvariant` adds
  that the store stays within its capacity.
- `HonestAnswersAlways`: `Spec => []HonestAnswers`, if the guest is a `TokenGuest`:
  keys are vectors of addresses and small Vals that fit a canonical key, stored values
  are addresses and small Vals, and the host passes no vectors. These are the workloads
  `gpu_host.h` is written for; `gpu_host_key_handles` is a run of a guest outside.
- `ContentsStableAlways`: `Spec => ContentsStable`, if moreover every call has an
  argument (`gpu_host_heap_full` is a run without).

`HonestAnswers` speaks of the answer in the mailbox, `TokenInv` of why it is right:
the objects on the heap are well formed, and the entries of the store are, one by one,
what the ledger has at the place their key names. That needs canonical keys to be
equal exactly when the contents of the vectors are (`PlaceInjective`), so no handle
may be left in one. For a full heap, `vec_new` gets Void, whose handle is 0, and writes
its elements to object 0; that object is an argument, no vector, and nothing reads its
elements. Constants are as `GpuHostAssumption` says.

**Only model-checked.**

- Termination and `RunEnds`: liveness.
- `LoweringCorrect`: it rests on executors that iterate, which the provers cannot
  unfold.
- `TypeOK` of `Translate` and `GpuHost`: they contain sets of strings that the provers
  do not decide. `Types`, and `StoreInv` and `HeapOk`, are what the proofs need of
  them.
- The refinement of `Activations` and all properties of `Drivers`: their invariants
  range over all opcodes and all four drivers and have not been proved.
- All properties of `Dispatch`, whose host is external.

## Not modelled

- `src/translate.cpp`, `src/main_cpu.cpp`, `src/disasm.cpp`, the JSON and export
  helpers of `run.cpp`: reading, printing and formatting, without state.
- `tools/src/bin` (`oracle`, `wastprep`, `wat2wasm`, `wast-catalog`,
  `wasm-profile`), `emit-profiles` and `host-spike`: command line tools that parse
  test files, run another engine as an oracle or write reports; nothing outlives one
  call.
- The comparison of profiles and the raw bindings in the contract tests, the handles
  of the C API: no protocol, allocation and reporting only.
- `bench.cu` around `k_batch`: upload, timing, the workload table, result checks.
- `snapshot_module` and `restore_module` of `gpu_host_run.h`: a copy of all arrays.
- Inside what is modelled: values of arithmetic, bytes of memory, strings, names of
  imports and exports, and the `env_fn_id` table are data and abstract.

## Plan

1. Proofs of `StackDiscipline`, `NoOverrun` and `FrameIsolation` for every linked
   module and every driver but the batch; `MemoryNeverShrinks` for `run_gpu`.
2. `GpuHost` composed with `run_gpu_host`, and the seeded store.
3. Proofs of `HandlesKeepMeaning` and `LedgerAsMeant` of `Dispatch`.
