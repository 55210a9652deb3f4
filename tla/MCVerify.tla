------------------------------ MODULE MCVerify ------------------------------
(***************************************************************************)
(* Small modules for Verify: every body of four instructions over an       *)
(* alphabet that has each kind of transfer rule, in a module with one      *)
(* import, and modules whose FuncMeta entries are out of place.            *)
(***************************************************************************)
EXTENDS Verify, Sequences

Op(o, a, b) == [op |-> o, a |-> a, b |-> b]
Arr(s) == [i \in 0 .. Len(s) - 1 |-> s[i + 1]]
Meta(off, len, np, nr, nl) ==
    [code_off |-> off, code_len |-> len,
     n_params |-> np, n_results |-> nr, n_locals |-> nl]
Mod(code, funcs) ==
    [code |-> Arr(code), code_len |-> Len(code),
     funcs |-> Arr(funcs), n_funcs |-> Len(funcs), n_host_imports |-> 1,
     type_fp |-> Arr(<<[np |-> 1, nr |-> 0, sig |-> <<1, 0>>]>>), n_types |-> 1,
     func_typeidx |-> [i \in 0 .. Len(funcs) - 1 |-> 0],
     table |-> Arr(<<1>>), table_len |-> 1,
     consts |-> Arr(<<1>>), n_consts |-> 1, n_globals |-> 1,
     n_data |-> 0, data_len |-> Arr(<<>>)]

MCHeights == -1 .. 4

Import == Meta(0, 0, 1, 1, 0)

\* Function 1 has one parameter, one result and its code at 0 .. 3.
Alphabet ==
    {Op("I64_CONST", 0, 0), Op("I64_CONST", 0, 1), Op("LOCAL_SET", 0, 0),
     Op("LOCAL_GET", 1, 0), Op("BINOP", 0, 0), Op("UNWIND", 1, 2),
     Op("BR", 0, 0), Op("BR", 0, 3), Op("BR", 0, 4),
     Op("BR_IF_NOT", 0, 0), Op("BR_IF_NOT", 0, 3),
     Op("CALL", 0, 1), Op("CALL", 0, 2), Op("RETURN_CALL", 0, 1),
     Op("RETURN", 1, 0), Op("UNREACHABLE", 0, 0),
     Op("CALL_HOST", 257, 0), Op("CALL_INDIRECT", 0, 0), Op("BAD", 0, 0)}
Bodies == {<<p, q, r, Op("END_FUNC", 1, 0)>> : p, q, r \in Alphabet}

Deep == <<Op("I64_CONST", 0, 0), Op("I64_CONST", 0, 0),
          Op("I64_CONST", 0, 0), Op("END_FUNC", 1, 0)>>

MCModules ==
    {Mod(c, <<Import, Meta(0, 4, 1, 1, 0)>>) : c \in Bodies}
    \cup {Mod(<<>>, <<Import>>),
          Mod(Deep, <<>>),
          Mod(Deep, <<Import, Meta(0, 0, 1, 1, 0)>>),
          Mod(Deep, <<Import, Meta(1, 4, 1, 1, 0)>>),
          Mod(Deep, <<Import, Meta(0, 3, 1, 1, 0)>>),
          Mod(Deep, <<Import, Meta(0, 4, 1, 1, 2)>>),
          Mod(Deep, <<Import, Meta(0, 4, 1, 1, 1), Meta(2, 2, 0, 0, 0),
                      Meta(3, 1, 0, 1, 0)>>)}
=============================================================================
