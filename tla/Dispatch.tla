------------------------------ MODULE Dispatch ------------------------------
(***************************************************************************)
(* The contract tests' host side: run_cuwasm_profile loads a module through *)
(* the C API, runs one export, and DispatchCtx answers each host call from  *)
(* a Soroban host.  Guest and host name objects differently.  The guest's   *)
(* handles are relative: even, an index into relative_objects, which lives  *)
(* as long as one run.  The host's are absolute: odd, and last.             *)
(*                                                                          *)
(* A word is a 64-bit payload, as a tag and a number: a Val, a raw integer  *)
(* ("raw"), or eight bytes of text or of a key descriptor in memory.  One   *)
(* memory cell holds one word, and positions count cells.                   *)
(*                                                                          *)
(* The guest is compiled contract code: it passes words it computed or was  *)
(* given, and never an absolute handle.  meant, want, said and asked are    *)
(* history variables: what each word given to the guest stands for, what    *)
(* the guest has stored and published, and the keys of its traced calls,    *)
(* all by contents.                                                         *)
(***************************************************************************)
EXTENDS Integers, Sequences

CONSTANTS
    ArgLists,     \* argument lists of a run: sequences of contents
    InitMem,      \* linear memory as loaded, up to its capacity
    MEM_SIZE,     \* cells in use when the module is loaded
    Scalars,      \* words that are no objects, used as values
    Slots,        \* cells the guest stores to
    Regions,      \* [pos, len] pairs the guest passes
    Pieces,       \* integers it makes i128 values of
    SMALL_SYMBOL, \* cells of text that fit a symbol that is no object
    ImportSets,   \* what the contract may import: sets of names of call groups
    MAX_RUNS, MAX_CALLS, MAX_STEPS

VARIABLES
    objects,      \* Soroban host: its objects
    ledger,       \* Soroban host: contract data, a set of [key, type, val]
    events,       \* Soroban host: published events
    mem, size,    \* the module's linear memory and the guest's view of its size
    ctx,          \* DispatchCtx
    vm,           \* "idle", "guest" or "panic"
    result,       \* what the last finished run returned, and should have
    meant, want, said, asked,
    imports,      \* what the contract imports
    done          \* counters for the bounds

hvars == <<objects, ledger, events>>
gvars == <<meant, want, said, asked>>
vars  == <<hvars, gvars, mem, size, ctx, vm, result, imports, done>>

-----------------------------------------------------------------------------
(***************************************************************************)
(* The Soroban host, as far as dispatch uses it.  Contents are an encoding  *)
(* like XDR: the tag, a number, and for a container its elements.           *)
(***************************************************************************)

ObjectTags == {"string", "symbol", "vec", "map", "i128", "address", "bytes"}
IsObject(w) == w.tag \in ObjectTags

Word(t, n) == [tag |-> t, n |-> n]
Void       == Word("void", 0)
U32(n)     == Word("u32", n)
Raw(n)     == Word("raw", n)
Bool(b)    == Word("bool", IF b THEN 1 ELSE 0)

Joined(ss) ==
    LET J[i \in 0 .. Len(ss)] == IF i = 0 THEN <<>> ELSE J[i - 1] \o ss[i]
    IN  J[Len(ss)]

\* The contents of an absolute value.
Contents(objs, w) ==
    IF IsObject(w) THEN objs[(w.n \div 2) + 1].sc ELSE <<w.tag, w.n>>

Container(t, scs) == <<t, Len(scs)>> \o Joined(scs)
NumbersOf(ws) == [i \in DOMAIN ws |-> ws[i].n]
TextSc(t, ws) == <<t, Len(ws)>> \o NumbersOf(ws)
MapSc(keys, scs) == Container("map", [i \in DOMAIN keys |-> <<"symbol">> \o keys[i] \o scs[i]])

Object(t, sc, keys, elems) == [tag |-> t, sc |-> sc, keys |-> keys, elems |-> elems]
Leaf(t, sc) == Object(t, sc, <<>>, <<>>)
LastOf(objs) == Word(objs[Len(objs)].tag, 2 * (Len(objs) - 1) + 1)

\* An entry of the ledger comes back as a new object, or as the scalar it is.
Scalar(sc) == Word(sc[1], sc[2])
Found(k, t) == {e \in ledger : e.key = k /\ e.type = t}
Unstored(e) == IF e.tag \in ObjectTags THEN Append(objects, Object(e.tag, e.val, e.keys, e.elems))
               ELSE objects

-----------------------------------------------------------------------------
(***************************************************************************)
(* Guest memory and handles.                                               *)
(***************************************************************************)

is_relative_handle(h) == h % 2 = 0
handle_to_index(h) == h \div 2
index_to_relative_handle(i) == 2 * i

\* to_relative: the table after it, and the word the guest is given.
RelativeOfLast(table, w) == Word(w.tag, index_to_relative_handle(Len(table) - 1))
Relative(table, w) == Word(w.tag, index_to_relative_handle(Len(table)))
to_relative_again(table, w) ==
    IF IsObject(w) THEN [table |-> Append(table, Relative(table, w)), w |-> Relative(table, w)]
    ELSE [table |-> table, w |-> w]
to_relative(table, w) ==
    IF IsObject(w) THEN [table |-> Append(table, w), w |-> Relative(table, w)]
    ELSE [table |-> table, w |-> w]

to_absolute(w) ==
    IF IsObject(w) /\ is_relative_handle(w.n)
    THEN LET i == handle_to_index(w.n) + 1
         IN  IF i <= Len(ctx.relative_objects)
             THEN [ok |-> ctx.relative_objects[i].tag = w.tag, w |-> ctx.relative_objects[i]]
             ELSE [ok |-> FALSE, w |-> w]
    ELSE [ok |-> TRUE, w |-> w]

Absolute(w) == to_absolute(w).w
Decodes(ws) == \A i \in DOMAIN ws : to_absolute(ws[i]).ok

decode_u32_ok(w) == w.tag = "u32"
decode_storage_type_ok(w) == w.tag = "raw" /\ w.n \in 0 .. 2

InMemory(pos, len) == pos + len <= ctx.mem_size
Cells(pos, len) == [i \in 1 .. len |-> mem[pos + i - 1]]

read_bytes_ok(pos, len) == InMemory(pos, len)

\* A key descriptor names one cell, which must hold text.
read_symbol_keys_ok(pos, len) ==
    /\ InMemory(pos, len)
    /\ \A i \in 1 .. len :
          /\ mem[pos + i - 1].tag = "slice"
          /\ InMemory(mem[pos + i - 1].n, 1)
          /\ mem[mem[pos + i - 1].n].tag = "text"
read_symbol_keys(pos, len) == [i \in 1 .. len |-> TextSc("text", <<mem[mem[pos + i - 1].n]>>)]

read_vals_ok(pos, len) == InMemory(pos, len) /\ Decodes(Cells(pos, len))
read_vals(pos, len) == [i \in 1 .. len |-> Absolute(mem[pos + i - 1])]

\* Each value in turn gets a handle and is stored.
Written(table, m, pos, vals) ==
    LET W[i \in 0 .. Len(vals)] ==
            IF i = 0 THEN [table |-> table, mem |-> m]
            ELSE LET r == to_relative(W[i - 1].table, vals[i])
                 IN  [table |-> r.table, mem |-> [W[i - 1].mem EXCEPT ![pos + i - 1] = r.w]]
    IN  W[Len(vals)]

\* write_vals looks at the bounds before it stores anything.
write_vals_each(pos, vals) ==
    LET fits == IF pos >= ctx.mem_size THEN 0
                ELSE IF InMemory(pos, Len(vals)) THEN Len(vals) ELSE ctx.mem_size - pos
        w == Written(ctx.relative_objects, mem, pos, SubSeq(vals, 1, fits))
    IN  [ok |-> fits = Len(vals), table |-> w.table, mem |-> w.mem]
write_vals(pos, vals) ==
    IF InMemory(pos, Len(vals))
    THEN LET w == Written(ctx.relative_objects, mem, pos, vals)
         IN  [ok |-> TRUE, table |-> w.table, mem |-> w.mem]
    ELSE [ok |-> FALSE, table |-> ctx.relative_objects, mem |-> mem]

-----------------------------------------------------------------------------
(***************************************************************************)
(* What the guest means by its words.                                      *)
(***************************************************************************)

Given == {p.w : p \in {q \in meant : IsObject(q.w)}}
MeaningOf(w) == IF IsObject(w) THEN (CHOOSE p \in meant : p.w = w).sc ELSE <<w.tag, w.n>>
Meanings(ws) == [i \in DOMAIN ws |-> MeaningOf(ws[i])]
Means(w, sc) == {[w |-> w, sc |-> sc]}

-----------------------------------------------------------------------------
(***************************************************************************)
(* dispatch.  Every case first pushes the call to host_calls.  ok is       *)
(* whether the host itself accepts the call.                               *)
(***************************************************************************)

Called(fn) == Append(ctx.host_calls, fn)

\* An error ends the run: run_cpu fails and run_cuwasm_profile panics.
Refuse(fn) ==
    /\ vm' = "panic"
    /\ ctx' = [ctx EXCEPT !.host_calls = Called(fn)]
    /\ UNCHANGED <<hvars, gvars, mem>>

\* describe_val with its hash leaves two byte strings in the host.
Hashed(objs, n) == objs \o [i \in 1 .. 2 * n |-> Leaf("bytes", <<"bytes", 0>>)]

TraceOfCall(fn, arg0) == [seq |-> Len(ctx.host_calls), fn |-> fn, arg0 |-> arg0]
Trace(fn, arg0) == [seq |-> Len(ctx.traces), fn |-> fn, arg0 |-> arg0]

\* The tail of dispatch: the result gets a handle, the call a trace.  objs are
\* the host's objects after the call, v its answer, due what the guest asked
\* for, k the key that is traced, n the number of values described.
Finish(fn, objs, v, due, k, n) ==
    LET r == to_relative(ctx.relative_objects, v)
    IN  /\ objects' = Hashed(objs, n)
        /\ ctx' = [ctx EXCEPT !.relative_objects = r.table,
                              !.host_calls = Called(fn),
                              !.traces = Append(ctx.traces,
                                                Trace(fn, Contents(objects, Absolute(k))))]
        /\ meant' = meant \cup Means(r.w, due)
        /\ asked' = Append(asked, MeaningOf(k))
        /\ UNCHANGED <<vm, mem>>

NoKey == Void
NotStored == UNCHANGED <<ledger, events, want, said>>

\* A call that only makes an object, of which n values are described.
MakesObject(fn, objs, v, due, n) == Finish(fn, objs, v, due, NoKey, n) /\ NotStored

string_new_from_linear_memory(pos, len, ok) ==
    LET sc == TextSc("string", Cells(pos.n, len.n))
        objs == Append(objects, Leaf("string", sc))
    IN  IF decode_u32_ok(pos) /\ decode_u32_ok(len) /\ read_bytes_ok(pos.n, len.n) /\ ok
        THEN MakesObject("string_new", objs, LastOf(objs), sc, 1)
        ELSE Refuse("string_new")

\* A short symbol is no object.
symbol_new_from_linear_memory(pos, len, ok) ==
    LET text == Cells(pos.n, len.n)
        sc == TextSc("symbol", text)
        objs == Append(objects, Leaf("symbol", sc))
    IN  IF decode_u32_ok(pos) /\ decode_u32_ok(len) /\ read_bytes_ok(pos.n, len.n) /\ ok
        THEN IF len.n <= SMALL_SYMBOL
             THEN LET w == Word("small_symbol", IF text = <<>> THEN 0 ELSE text[1].n)
                  IN  MakesObject("symbol_new", objects, w, <<w.tag, w.n>>, 0)
             ELSE MakesObject("symbol_new", objs, LastOf(objs), sc, 0)
        ELSE Refuse("symbol_new")

vec_new_from_linear_memory(pos, len, ok) ==
    IF decode_u32_ok(pos) /\ decode_u32_ok(len) /\ read_vals_ok(pos.n, len.n) /\ ok
    THEN LET vals == read_vals(pos.n, len.n)
             sc == Container("vec", [i \in DOMAIN vals |-> Contents(objects, vals[i])])
             objs == Append(objects, Object("vec", sc, <<>>, vals))
         IN  MakesObject("vec_new", objs, LastOf(objs),
                         Container("vec", Meanings(Cells(pos.n, len.n))), 1)
    ELSE Refuse("vec_new")

map_new_from_linear_memory(keys_pos, vals_pos, len, ok) ==
    IF /\ decode_u32_ok(keys_pos) /\ decode_u32_ok(vals_pos) /\ decode_u32_ok(len)
       /\ read_symbol_keys_ok(keys_pos.n, len.n)
       /\ read_vals_ok(vals_pos.n, len.n) /\ ok
    THEN LET keys == read_symbol_keys(keys_pos.n, len.n)
             vals == read_vals(vals_pos.n, len.n)
             sc == MapSc(keys, [i \in DOMAIN vals |-> Contents(objects, vals[i])])
             objs == Append(objects, Object("map", sc, keys, vals))
         IN  MakesObject("map_new", objs, LastOf(objs),
                         MapSc(keys, Meanings(Cells(vals_pos.n, len.n))), 0)
    ELSE Refuse("map_new")

\* The host refuses keys that are not the map's.  This case leaves no trace.
map_unpack_to_linear_memory(m, keys_pos, vals_pos, len, ok) ==
    IF /\ to_absolute(m).ok /\ m.tag = "map"
       /\ decode_u32_ok(keys_pos) /\ decode_u32_ok(vals_pos) /\ decode_u32_ok(len)
       /\ read_symbol_keys_ok(keys_pos.n, len.n)
       /\ ok /\ objects[(Absolute(m).n \div 2) + 1].keys = read_symbol_keys(keys_pos.n, len.n)
    THEN LET o == objects[(Absolute(m).n \div 2) + 1]
             w == write_vals(vals_pos.n, o.elems)
         IN  /\ mem' = w.mem
             /\ ctx' = [ctx EXCEPT !.host_calls = Called("map_unpack"),
                                   !.relative_objects = w.table]
             /\ vm' = IF w.ok THEN vm ELSE "panic"
             /\ meant' = meant \cup
                   (IF w.ok THEN UNION {Means(w.mem[vals_pos.n + i - 1], Contents(objects, o.elems[i])) :
                                           i \in DOMAIN o.elems}
                    ELSE {})
             /\ UNCHANGED <<objects, asked>> /\ NotStored
    ELSE Refuse("map_unpack")

has_contract_data(k, t, ok) ==
    IF to_absolute(k).ok /\ decode_storage_type_ok(t) /\ ok
    THEN LET key == Contents(objects, Absolute(k))
             due == \E e \in want : e.key = MeaningOf(k) /\ e.type = t.n
         IN  /\ Finish("has_contract_data", objects, Bool(Found(key, t.n) # {}),
                       <<"bool", IF due THEN 1 ELSE 0>>, k, 1)
             /\ NotStored
    ELSE Refuse("has_contract_data")

get_contract_data(k, t, ok) ==
    IF /\ to_absolute(k).ok /\ decode_storage_type_ok(t)
       /\ ok /\ Found(Contents(objects, Absolute(k)), t.n) # {}
    THEN LET key == Contents(objects, Absolute(k))
             e == CHOOSE x \in Found(key, t.n) : TRUE
             objs == Unstored(e)
             due == CHOOSE x \in want : x.key = MeaningOf(k) /\ x.type = t.n
         IN  /\ Finish("get_contract_data", objs,
                       IF e.tag \in ObjectTags THEN LastOf(objs) ELSE Scalar(e.val),
                       due.val, k, 2)
             /\ NotStored
    ELSE Refuse("get_contract_data")

Put(l, k, t, e) == {x \in l : x.key # k \/ x.type # t} \cup {e}
Stored(k, t, v, sc) ==
    IF IsObject(v)
    THEN LET o == objects[(v.n \div 2) + 1]
         IN  [key |-> k, type |-> t, val |-> sc, tag |-> v.tag, keys |-> o.keys, elems |-> o.elems]
    ELSE [key |-> k, type |-> t, val |-> sc, tag |-> v.tag, keys |-> <<>>, elems |-> <<>>]

put_value_as_key(k, v, t, ok) ==
    IF to_absolute(k).ok /\ to_absolute(v).ok /\ decode_storage_type_ok(t) /\ ok
    THEN LET key == Contents(objects, Absolute(v))
             val == Contents(objects, Absolute(k))
             due == MeaningOf(k)
         IN  /\ Finish("put_contract_data", objects, Void, <<"void", 0>>, k, 2)
             /\ ledger' = Put(ledger, key, t.n, Stored(key, t.n, Absolute(k), val))
             /\ want' = Put(want, due, t.n, [key |-> due, type |-> t.n, val |-> MeaningOf(v)])
             /\ UNCHANGED <<events, said>>
    ELSE Refuse("put_contract_data")
put_contract_data(k, v, t, ok) ==
    IF to_absolute(k).ok /\ to_absolute(v).ok /\ decode_storage_type_ok(t) /\ ok
    THEN LET key == Contents(objects, Absolute(k))
             val == Contents(objects, Absolute(v))
             due == MeaningOf(k)
         IN  /\ Finish("put_contract_data", objects, Void, <<"void", 0>>, k, 2)
             /\ ledger' = Put(ledger, key, t.n, Stored(key, t.n, Absolute(v), val))
             /\ want' = Put(want, due, t.n, [key |-> due, type |-> t.n, val |-> MeaningOf(v)])
             /\ UNCHANGED <<events, said>>
    ELSE Refuse("put_contract_data")

extend_contract_data_ttl(k, t, threshold, extend_to, ok) ==
    IF /\ to_absolute(k).ok /\ decode_storage_type_ok(t)
       /\ decode_u32_ok(threshold) /\ decode_u32_ok(extend_to) /\ ok
    THEN /\ Finish("extend_contract_data_ttl", objects, Void, <<"void", 0>>, k, 1)
         /\ NotStored
    ELSE Refuse("extend_contract_data_ttl")

extend_current_contract_instance_and_code_ttl(threshold, extend_to, ok) ==
    IF decode_u32_ok(threshold) /\ decode_u32_ok(extend_to) /\ ok
    THEN MakesObject("extend_instance_ttl", objects, Void, <<"void", 0>>, 0)
    ELSE Refuse("extend_instance_ttl")

contract_event(topics, data, ok) ==
    IF to_absolute(topics).ok /\ topics.tag = "vec" /\ to_absolute(data).ok /\ ok
    THEN /\ Finish("contract_event", objects, Void, <<"void", 0>>, NoKey, 0)
         /\ events' = Append(events, <<Contents(objects, Absolute(topics)),
                                       Contents(objects, Absolute(data))>>)
         /\ said' = Append(said, <<MeaningOf(topics), MeaningOf(data)>>)
         /\ UNCHANGED <<ledger, want>>
    ELSE Refuse("contract_event")

get_ledger_sequence(ok) ==
    IF ok THEN MakesObject("get_ledger_sequence", objects, U32(1), <<"u32", 1>>, 0)
    ELSE Refuse("get_ledger_sequence")

obj_from_i128_pieces(hi, lo, ok) ==
    LET objs == Append(objects, Leaf("i128", <<"i128", hi.n, lo.n>>))
    IN  IF ok THEN MakesObject("obj_from_i128", objs, LastOf(objs), <<"i128", hi.n, lo.n>>, 1)
        ELSE Refuse("obj_from_i128")

\* finish_raw: the piece itself, not a Val.
obj_to_i128_piece(fn, i, x, ok) ==
    IF to_absolute(x).ok /\ x.tag = "i128" /\ ok
    THEN MakesObject(fn, objects, Raw(Contents(objects, Absolute(x))[i]),
                     <<"raw", MeaningOf(x)[i]>>, 0)
    ELSE Refuse(fn)

require_auth(addr, ok) ==
    IF to_absolute(addr).ok /\ addr.tag = "address" /\ ok
    THEN MakesObject("require_auth", objects, Void, <<"void", 0>>, 0)
    ELSE Refuse("require_auth")

unimplemented == Refuse("?")

-----------------------------------------------------------------------------
(***************************************************************************)
(* The guest's calls.  capi_host_bridge passes each one to host_dispatch:  *)
(* g_run_ctx is set for as long as the run lasts.                          *)
(***************************************************************************)

Values == Scalars \cup Given
Maps == {w \in Given : w.tag = "map"} \cup {Void}
Tagged(t) == {w \in Given : w.tag = t} \cup {Word(t, 2 * Len(ctx.relative_objects))}
Types == {Raw(1), Raw(3)}

NewText(r, ok) ==
    \/ string_new_from_linear_memory(r.pos, r.len, ok)
    \/ symbol_new_from_linear_memory(r.pos, r.len, ok)

NewContainer(r, ok) ==
    \/ vec_new_from_linear_memory(r.pos, r.len, ok)
    \/ map_new_from_linear_memory(r.keys, r.pos, r.len, ok)
    \/ \E m \in Maps : map_unpack_to_linear_memory(m, r.keys, r.pos, r.len, ok)

Data(ok) ==
    \E k \in Given, t \in Types :
        \/ has_contract_data(k, t, ok)
        \/ get_contract_data(k, t, ok)
        \/ \E v \in Values : put_contract_data(k, v, t, ok)
        \/ extend_contract_data_ttl(k, t, U32(0), U32(1), ok)

Number(ok) ==
    \/ \E hi, lo \in Pieces : obj_from_i128_pieces(Raw(hi), Raw(lo), ok)
    \/ \E x \in Tagged("i128") : obj_to_i128_piece("obj_to_i128_lo64", 3, x, ok)
    \/ \E x \in Tagged("i128") : obj_to_i128_piece("obj_to_i128_hi64", 2, x, ok)

Other(ok) ==
    \/ extend_current_contract_instance_and_code_ttl(U32(0), U32(1), ok)
    \/ \E topics \in Tagged("vec"), data \in Values : contract_event(topics, data, ok)
    \/ get_ledger_sequence(ok)
    \/ \E addr \in Tagged("address") : require_auth(addr, ok)
    \/ unimplemented

HostCall ==
    /\ vm = "guest" /\ done.calls < MAX_CALLS
    /\ done' = [done EXCEPT !.calls = @ + 1]
    /\ UNCHANGED <<size, result, imports>>
    /\ \E ok \in BOOLEAN :
          \/ "text" \in imports /\ \E r \in Regions : NewText(r, ok)
          \/ "container" \in imports /\ \E r \in Regions : NewContainer(r, ok)
          \/ "data" \in imports /\ Data(ok)
          \/ "number" \in imports /\ Number(ok)
          \/ "other" \in imports /\ Other(ok)

-----------------------------------------------------------------------------
(***************************************************************************)
(* run_cuwasm_profile, and what the guest does between its calls.          *)
(***************************************************************************)

NoResult == [got |-> <<>>, due |-> <<>>]

\* The test makes the arguments; a fresh DispatchCtx gives them handles.
Start ==
    /\ vm = "idle" /\ done.runs < MAX_RUNS
    /\ \E args \in ArgLists :
          LET objs == objects \o [i \in DOMAIN args |-> Leaf(args[i][1], args[i])]
              abs == [i \in DOMAIN args |->
                         Word(args[i][1], 2 * (Len(objects) + i - 1) + 1)]
          IN  /\ objects' = objs
              /\ ctx' = [mem_size |-> MEM_SIZE, relative_objects |-> abs,
                         host_calls |-> <<>>, traces |-> <<>>]
              /\ meant' = {[w |-> Word(args[i][1], index_to_relative_handle(i - 1)),
                            sc |-> args[i]] : i \in DOMAIN args}
    /\ mem' = InitMem /\ size' = MEM_SIZE
    /\ asked' = <<>>
    /\ vm' = "guest"
    /\ done' = [done EXCEPT !.runs = @ + 1]
    /\ result' = NoResult
    /\ UNCHANGED <<ledger, events, want, said, imports>>

\* The module is refused by the translation or the verifier, or lacks the export.
LoadFails ==
    /\ vm = "idle" /\ done.runs < MAX_RUNS
    /\ vm' = "panic"
    /\ UNCHANGED <<hvars, gvars, mem, size, ctx, result, imports, done>>

GuestStore ==
    /\ vm = "guest" /\ done.steps < MAX_STEPS
    /\ \E c \in Slots, w \in Values : c < size /\ mem' = [mem EXCEPT ![c] = w]
    /\ done' = [done EXCEPT !.steps = @ + 1]
    /\ UNCHANGED <<hvars, gvars, size, ctx, vm, result, imports>>

\* memory.grow moves the guest's size; DispatchCtx keeps the size at the start.
GuestGrow ==
    /\ vm = "guest" /\ size \in DOMAIN InitMem /\ done.steps < MAX_STEPS
    /\ size' = size + 1
    /\ done' = [done EXCEPT !.steps = @ + 1]
    /\ UNCHANGED <<hvars, gvars, mem, ctx, vm, result, imports>>

\* The run ends with ST_OK: its result is made absolute for the test.
ReturnRaw(w) ==
    /\ vm' = "idle"
    /\ result' = [got |-> Contents(objects, w), due |-> MeaningOf(w)]
    /\ UNCHANGED <<hvars, gvars, mem, size, ctx, imports, done>>
Return(w) ==
    /\ vm' = IF to_absolute(w).ok THEN "idle" ELSE "panic"
    /\ result' = IF to_absolute(w).ok
                 THEN [got |-> Contents(objects, Absolute(w)), due |-> MeaningOf(w)]
                 ELSE result
    /\ UNCHANGED <<hvars, gvars, mem, size, ctx, imports, done>>

GuestReturns == vm = "guest" /\ \E w \in Values : Return(w)

\* A trap, or max_steps used up.
GuestTraps ==
    /\ vm = "guest"
    /\ vm' = "panic"
    /\ UNCHANGED <<hvars, gvars, mem, size, ctx, result, imports, done>>

Init ==
    /\ objects = <<>> /\ ledger = {} /\ events = <<>>
    /\ mem = InitMem /\ size = MEM_SIZE
    /\ ctx = [mem_size |-> MEM_SIZE, relative_objects |-> <<>>, host_calls |-> <<>>,
              traces |-> <<>>]
    /\ vm = "idle" /\ result = NoResult
    /\ meant = {} /\ want = {} /\ said = <<>> /\ asked = <<>>
    /\ imports \in ImportSets
    /\ done = [runs |-> 0, calls |-> 0, steps |-> 0]

Next == Start \/ LoadFails \/ HostCall \/ GuestStore \/ GuestGrow \/ GuestReturns \/ GuestTraps

Spec == Init /\ [][Next]_vars

-----------------------------------------------------------------------------
(***************************************************************************)
(* Properties.                                                             *)
(***************************************************************************)

WordOk(w) == w.tag \in STRING /\ w.n \in Nat

\* Type correctness: the table holds absolute handles of existing objects with
\* their tags, which is what lets to_absolute answer without asking the host.
TypeOK ==
    /\ \A i \in DOMAIN objects : objects[i].tag \in ObjectTags
    /\ \A i \in DOMAIN ctx.relative_objects :
          LET w == ctx.relative_objects[i]
          IN  /\ WordOk(w) /\ ~ is_relative_handle(w.n)
              /\ (w.n \div 2) + 1 \in DOMAIN objects
              /\ objects[(w.n \div 2) + 1].tag = w.tag
    /\ \A c \in DOMAIN mem : WordOk(mem[c])
    /\ ctx.mem_size \in 0 .. size
    /\ vm \in {"idle", "guest", "panic"}

\* Every word dispatch has given the guest in this run, as an argument, an answer
\* or in memory, still resolves, to contents that are what the guest asked for:
\* the vector it laid out, the value last put under that key, the map's entry.
HandlesKeepMeaning ==
    vm # "idle" =>
        \A p \in meant : /\ to_absolute(p.w).ok
                         /\ Contents(objects, Absolute(p.w)) = p.sc

\* The host's storage and events are what the guests meant by the handles they
\* passed, over all runs: no run's handle is resolved in another's table.
LedgerAsMeant ==
    /\ {[key |-> e.key, type |-> e.type, val |-> e.val] : e \in ledger} = want
    /\ events = said

\* What a finished run returns to the test is what the guest returned.
ResultAsMeant == result.got = result.due

\* The traces number the answered calls in the order they were made, each with the
\* key the guest meant.  Only map_unpack and the call that failed have none.
Untraced == {"map_unpack"}
Answered(calls) == IF vm = "panic" THEN SubSeq(calls, 1, Len(ctx.traces)) ELSE calls
TracesFollowCalls ==
    LET traced == SelectSeq(ctx.host_calls, LAMBDA fn : fn \notin Untraced)
    IN  /\ [i \in DOMAIN ctx.traces |-> ctx.traces[i].fn] = Answered(traced)
        /\ \A i \in DOMAIN ctx.traces :
              ctx.traces[i].seq = i - 1 /\ ctx.traces[i].arg0 = asked[i]

\* A call that fails has changed nothing: not the storage, not the guest's memory,
\* not the handles it holds.
FailedCallsChangeNothing ==
    [][vm' = "panic" => UNCHANGED <<objects, ledger, events, mem, ctx.relative_objects,
                                    ctx.traces>>]_vars
=============================================================================
