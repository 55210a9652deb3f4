----------------------------- MODULE Refinement -----------------------------
(***************************************************************************)
(* run_instance and its drivers implement Activations: the flat stack, cut *)
(* at the frames' sp_base, is the locals and operands of the activations.  *)
(***************************************************************************)
EXTENDS Drivers, Sequences

\* The slots from lo to hi - 1, as a sequence.
Cut(lo, hi) == [i \in 1 .. hi - lo |-> Cell(lo + i - 1)]

\* The activation frame k stands for: its operands begin above its locals and
\* end where its callee's arguments begin; the callee's frame holds its return
\* address.
Bottom(k) == frames[k].sp_base + NumLocals(mod.funcs[fn[k]])
Top(k)    == IF k = csp - 1 THEN sp ELSE frames[k + 1].sp_base

Act(k) == [fn     |-> fn[k],
           pc     |-> IF k = csp - 1 THEN pc ELSE frames[k + 1].ret_pc,
           locals |-> Cut(frames[k].sp_base, Bottom(k)),
           ops    |-> Cut(Bottom(k), Top(k))]

aActs == IF Active THEN [k \in 1 .. csp |-> Act(k - 1)] ELSE <<>>

aMode == IF Active THEN (IF status = "HOSTCALL_PENDING" THEN "host" ELSE "run")
         ELSE IF ctl = "idle" /\ result = "NONE" THEN "idle" ELSE "over"

aOutcome == IF aMode # "over" THEN "NONE" ELSE IF ctl = "driver" THEN status ELSE result

aResults == IF aOutcome = "OK" THEN Cut(0, sp) ELSE <<>>

aMail == [fn_id     |-> IF aMode = "host" THEN mb.fn_id ELSE 0,
          n_results |-> IF aMode = "host" THEN mb.n_results ELSE 0,
          args      |-> IF aMode = "host"
                        THEN [i \in 1 .. Len(mb.args) |-> mb.args[i]] ELSE <<>>]

A == INSTANCE Activations WITH acts <- aActs, mode <- aMode, mail <- aMail,
                               outcome <- aOutcome, results <- aResults

(***************************************************************************)
(* Every step of the interpreter and its drivers is a step of Activations  *)
(* or changes nothing there.  In particular arguments, results and kept    *)
(* operands arrive where the Wasm semantics puts them, callers find their  *)
(* locals and operands as they left them, the host sees the arguments it   *)
(* was given, and slices and resumptions are invisible.                    *)
(***************************************************************************)
ImplementsActivations == A!Spec
=============================================================================
