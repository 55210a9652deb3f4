----------------------------- MODULE MCDispatch -----------------------------
(***************************************************************************)
(* Two runs of a contract, three host calls and one store between them.     *)
(* The second argument list gives its address another handle than the first. *)
(***************************************************************************)
EXTENDS Dispatch, TLC

Alice == <<"address", 1>>
Args  == {<<Alice>>, <<<<"vec", 0>>, Alice>>}

\* Two texts, a descriptor of each, two values; the last cell is past the size at
\* load time.
Memory == 0 :> Word("text", 7) @@ 1 :> Word("text", 8)
          @@ 2 :> Word("slice", 0) @@ 3 :> Word("slice", 1)
          @@ 4 :> U32(5) @@ 5 :> U32(6) @@ 6 :> U32(0)

\* Text; two values; two values the second of which is outside; no position.
Area(p, l) == [keys |-> U32(2), pos |-> p, len |-> U32(l)]
Areas == {Area(U32(0), 1), Area(U32(4), 2), Area(U32(5), 2), Area(Void, 1)}
MCSlots == {4}
MCScalars == {U32(5)}
MCImports == {{"container", "data"}, {"number", "data"}, {"text", "other"}}
=============================================================================
