----------------------------- MODULE MCGpuHost ------------------------------
(***************************************************************************)
(* A token contract on the GPU host: keys are vectors of an address, values *)
(* amounts and addresses.                                                  *)
(***************************************************************************)
EXTENDS GpuHost

Amount(n) == [tag |-> "I128_SMALL", hi |-> 0, lo |-> n]
Address(n) == Entry("ADDRESS_OBJECT", 32, <<n, n>>)

\* seed_balance_args of two accounts: handle 0 is another address in another
\* call.  A stored address comes back at another handle.
TokenSeeds == {<<Address(1)>>, <<Address(2)>>}
NoSeeds == {<<>>}

MCSmalls == {Amount(1)}
TokenShapes == {<<"ADDRESS_OBJECT">>}
AmountShapes == {<<"I128_SMALL">>}
NoShapes == {}
MCTexts == {[len |-> 12, data |-> ZERO]}
=============================================================================
