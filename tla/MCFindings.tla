----------------------------- MODULE MCFindings -----------------------------
(***************************************************************************)
(* Instances in which the drivers do not do what the documentation says.   *)
(***************************************************************************)
EXTENDS Drivers, Programs

\* Memory that grows, in a run that run_cpu resumes after a host call.
MCResumed == {Setup(GrowHost, {1}, "cpu", 8, 4, 0, 2, 3, 40)}

\* call_indirect of an import, on the CPU.
MCImport == {Setup(ImportTable, {1}, "cpu", 8, 4, 1, 2, 3, 40)}

\* Recursion in a batch thread: 3 frames where run_instance allows 4.
MCDeep == {Setup(Recursive, {0}, "batch", 8, 3, 1, 1, 40, 40)}

\* A host call on a full stack in a batch thread.
MCFull == {Setup(FullStack, {1}, "batch", 7, 4, 1, 1, 40, 40)}
=============================================================================
