------------------------------- MODULE Verify -------------------------------
(***************************************************************************)
(* verify_cuop (src/verify.cpp): a worklist pass that gives every reached  *)
(* pc of every function one operand-stack height, or rejects the module.   *)
(*                                                                         *)
(* The vector work is used as a LIFO stack and holds a pc at most once (a  *)
(* pc is pushed when its height is first set), so it is a set here and the *)
(* pass may take any of its members: what is shown holds for every order.  *)
(***************************************************************************)
EXTENDS CuModule

CONSTANTS
    Modules,      \* the lowered modules the pass may be given
    MAX_STACK,    \* largest max_stack a FuncMeta can record (65535)
    Heights       \* the heights RejectJustified lets a rival assignment use

ASSUME VerifyAssumption ==
    /\ \A mod \in Modules : ModuleShape(mod)
    /\ MAX_STACK \in Nat
    /\ Heights \subseteq Int

VARIABLES
    m,            \* HostModule& m
    phase,        \* "func": at the head of the for, "work": in the while,
                  \* "ok" / "fail": returned
    fi,           \* index of the function being verified
    height,       \* vector<int> height of that function
    work,         \* the worklist
    max_h,        \* largest height met in that function
    max_stack,    \* FuncMeta.max_stack of the functions done so far
    heights       \* history: the height vectors of the functions done so far

vars == <<m, phase, fi, height, work, max_h, max_stack, heights>>

f == m.funcs[fi]

\* Mutant of Larger: the comparison the wrong way round.
Smaller(a, b) == IF a < b THEN a ELSE b

\* The larger of two integers.
Larger(a, b) == IF a > b THEN a ELSE b

Init ==
    /\ m \in Modules
    /\ phase = IF m.n_funcs = 0 \/ m.code_len = 0 THEN "fail" ELSE "func"
    /\ fi = 0
    /\ height = <<>>
    /\ work = {}
    /\ max_h = 0
    /\ max_stack = [i \in 0 .. m.n_funcs - 1 |-> 0]
    /\ heights = [i \in 0 .. m.n_funcs - 1 |-> <<>>]

-----------------------------------------------------------------------------
\* return fail(...): the caller drops the module.
Fail ==
    /\ phase' = "fail"
    /\ UNCHANGED <<m, fi, height, work, max_h, max_stack, heights>>

\* The for loop ends: every function was accepted.
Accept ==
    /\ phase = "func" /\ fi = m.n_funcs
    /\ phase' = "ok"
    /\ UNCHANGED <<m, fi, height, work, max_h, max_stack, heights>>

\* Head of the for: bounds, empty bodies and the last instruction.
RejectFunction ==
    /\ phase = "func" /\ fi < m.n_funcs
    /\ ~ WellPlaced(m, fi)
    /\ Fail

\* continue: an import has no code to verify.
SkipImport ==
    /\ phase = "func" /\ fi < m.n_funcs
    /\ WellPlaced(m, fi) /\ ~ HasCode(f)
    /\ max_stack' = [max_stack EXCEPT ![fi] = f.n_params]
    /\ fi' = fi + 1
    /\ UNCHANGED <<m, phase, height, work, max_h, heights>>

\* The entry has height 0 and is the first work item.
BeginFunction ==
    /\ phase = "func" /\ fi < m.n_funcs
    /\ WellPlaced(m, fi) /\ HasCode(f)
    /\ height' = [rel \in 0 .. f.code_len - 1 |-> IF rel = 0 THEN 0 ELSE -1]
    /\ work' = {0}
    /\ max_h' = 0
    /\ phase' = "work"
    /\ UNCHANGED <<m, fi, max_stack, heights>>

\* Mutants of Joins: heights are not compared; a second edge is refused.
JoinsAny(s, h) == s \in 0 .. f.code_len - 1
JoinsOnce(s, h) == s \in 0 .. f.code_len - 1 /\ height[s] = -1

\* join(s, h) succeeds: s is in the function and has no other height.
Joins(s, h) == s \in 0 .. f.code_len - 1 /\ height[s] \in {-1, h}

\* Mutant of Visit: join pushes the pc again even when its height was known.
VisitAgain(rel) ==
    LET in   == m.code[f.code_off + rel]
        next == NextHeight(m, f, in, height[rel])
        succ == Successors(f, in, rel)
    IN  /\ phase = "work" /\ rel \in work
        /\ Executable(m, f, in, height[rel])
        /\ \A s \in succ : Joins(s, next)
        /\ height' = [s \in 0 .. f.code_len - 1 |->
                         IF s \in succ THEN next ELSE height[s]]
        /\ work' = (work \ {rel}) \cup succ
        /\ max_h' = Larger(max_h, Larger(height[rel], next))
        /\ UNCHANGED <<m, phase, fi, max_stack, heights>>

\* One turn of the while that accepts the instruction at rel.
Visit(rel) ==
    LET in   == m.code[f.code_off + rel]
        h    == height[rel]
        next == NextHeight(m, f, in, h)
        succ == Successors(f, in, rel)
    IN  /\ phase = "work" /\ rel \in work
        /\ Executable(m, f, in, h)
        /\ \A s \in succ : Joins(s, next)
        /\ height' = [s \in 0 .. f.code_len - 1 |->
                         IF s \in succ THEN next ELSE height[s]]
        /\ work' = (work \ {rel}) \cup {s \in succ : height[s] = -1}
        /\ max_h' = Larger(max_h, Larger(h, next))
        /\ UNCHANGED <<m, phase, fi, max_stack, heights>>

\* One turn of the while that rejects it: underflow, operand or join.
Reject(rel) ==
    LET in == m.code[f.code_off + rel]
        h  == height[rel]
    IN  /\ phase = "work" /\ rel \in work
        /\ \/ ~ Executable(m, f, in, h)
           \/ /\ Executable(m, f, in, h)
              /\ \E s \in Successors(f, in, rel) :
                    ~ Joins(s, NextHeight(m, f, in, h))
        /\ Fail

\* Mutant of EndFunction: the loop over the functions is not re-entered.
EndStays ==
    /\ phase = "work" /\ work = {}
    /\ NumLocals(f) + max_h <= MAX_STACK
    /\ max_stack' = [max_stack EXCEPT ![fi] = NumLocals(f) + max_h]
    /\ heights' = [heights EXCEPT ![fi] = height]
    /\ fi' = fi + 1
    /\ UNCHANGED <<m, phase, height, work, max_h>>

\* The while ends: the frame must fit the 16-bit max_stack.
EndFunction ==
    LET max_sp == NumLocals(f) + max_h
    IN  /\ phase = "work" /\ work = {}
        /\ max_sp <= MAX_STACK
        /\ max_stack' = [max_stack EXCEPT ![fi] = max_sp]
        /\ heights' = [heights EXCEPT ![fi] = height]
        /\ fi' = fi + 1
        /\ phase' = "func"
        /\ UNCHANGED <<m, height, work, max_h>>

RejectDeep ==
    /\ phase = "work" /\ work = {}
    /\ NumLocals(f) + max_h > MAX_STACK
    /\ Fail

Next ==
    \/ Accept
    \/ RejectFunction
    \/ SkipImport
    \/ BeginFunction
    \/ \E rel \in work : Visit(rel)
    \/ \E rel \in work : Reject(rel)
    \/ EndFunction
    \/ RejectDeep

Spec == Init /\ [][Next]_vars /\ WF_vars(Next)

-----------------------------------------------------------------------------
TypeOK ==
    /\ ModuleShape(m)
    /\ phase \in {"func", "work", "ok", "fail"}
    /\ fi \in 0 .. m.n_funcs
    /\ phase = "work" =>
          /\ fi < m.n_funcs
          /\ height \in [0 .. f.code_len - 1 -> Int]
          /\ work \subseteq 0 .. f.code_len - 1
    /\ max_h \in Nat
    /\ max_stack \in [0 .. m.n_funcs - 1 -> Nat]

(***************************************************************************)
(* Accepting is sound.  Whatever order the worklist was taken in, when     *)
(* verify_cuop returns true every reached pc of every function has exactly *)
(* one height, executes at it, and hands it on along every edge: the       *)
(* README's "unique stack height at every PC".                             *)
(***************************************************************************)
AcceptSound == phase = "ok" => HeightsConsistent(m, heights)

\* Every frame that heights hv of function g can build fits max_stack.
Fits(g, hv) ==
    \A rel \in 0 .. g.code_len - 1 : NumLocals(g) + hv[rel] <= MAX_STACK

Verifiable(i) ==
    LET g == m.funcs[i]
    IN  /\ WellPlaced(m, i)
        /\ HasCode(g) => \E hv \in [0 .. g.code_len - 1 -> Heights] :
                            ConsistentIn(m, g, hv) /\ Fits(g, hv)

(***************************************************************************)
(* Rejecting is justified.  verify_cuop returns false only for a module    *)
(* that has no functions or no code, or one of whose functions admits no   *)
(* consistent heights at all: the order in which the worklist meets the    *)
(* two arms of a branch never turns a good module away.                    *)
(***************************************************************************)
RejectJustified ==
    phase = "fail" =>
        \/ m.n_funcs = 0
        \/ m.code_len = 0
        \/ \E i \in 0 .. m.n_funcs - 1 : ~ Verifiable(i)

(***************************************************************************)
(* FuncMeta.max_stack of an accepted function is an upper bound of the     *)
(* slots (parameters, locals, operands) its frame occupies at any reached  *)
(* pc, although it is accumulated while heights are still being set.       *)
(***************************************************************************)
MaxStackBounds ==
    \A i \in 0 .. m.n_funcs - 1 :
        i < fi /\ HasCode(m.funcs[i]) =>
            \A rel \in 0 .. m.funcs[i].code_len - 1 :
                heights[i][rel] >= 0 =>
                    NumLocals(m.funcs[i]) + heights[i][rel] <= max_stack[i]

(***************************************************************************)
(* The pass ends for every module, backward branches included: a pc is     *)
(* put on the worklist only when its height is first set.                  *)
(***************************************************************************)
Terminates == <>(phase \in {"ok", "fail"})
=============================================================================
