----------------------------- MODULE MCDrivers ------------------------------
(***************************************************************************)
(* Every program under every driver, whole runs and slices of two steps.   *)
(***************************************************************************)
EXTENDS Refinement, Programs

\* Stack of 8 slots and 4 frames; the batch has 7 slots and 3 frames.
Whole(m, e, kind) == Setup(m, {e}, kind, 8, 4, 1, 2, 3, 40)
Sliced(m, e, kind) == [Whole(m, e, kind) EXCEPT !.max_steps = 2]
HostGpu(m, e) == [Whole(m, e, "gpu_host") EXCEPT !.fuel = 40]
Batch(m, e) == Setup(m, {e}, "batch", 7, 3, 1, 1, 40, 40)

Mods == {Arith, WideArith, Loop, Recursive, TailCalls, BigFrames, Indirect, Memory, Segments,
         Globals}

\* Memory that grows and is still there after a slice, a host call and a call:
\* run_gpu builds a MemView per kernel, in the batch memory cannot grow.
Growing == {Sliced(GrowHost, 1, "gpu"), Whole(GrowHost, 1, "gpu"), Batch(GrowHost, 1)}

AllSetups == Growing \cup {Whole(m, 0, "cpu") : m \in Mods} \cup {Sliced(m, 0, "gpu") : m \in Mods}
             \cup {Batch(m, 0) : m \in Mods \ {Recursive}}
             \cup {Whole(HostCalls, 1, "cpu"), Sliced(HostCalls, 1, "gpu"),
                   [Whole(Loop, 0, "gpu_host") EXCEPT !.fuel = 9, !.max_steps = 9],
                   HostGpu(EnvCalls, 1), Batch(EnvCalls, 1)}

\* The setups meet what the properties assume of a module.
ASSUME LinkedSetups == \A s \in AllSetups : SetupLinked(s)

\* TLC evaluates AllSetups once, and what a constant is replaced by each time.
MCSetups == AllSetups
=============================================================================
