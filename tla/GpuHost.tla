------------------------------ MODULE GpuHost -------------------------------
(***************************************************************************)
(* The host functions of the GPU (include/cuwasm/gpu_host.h): one thread's *)
(* object heap and K/V store, as a guest that may make any host calls sees *)
(* them.  A step is one gpu_host_dispatch, or the host preparing the next  *)
(* call of the contract.                                                   *)
(*                                                                         *)
(* A Val is its tag, its upper half hi (the handle, for an object) and lo, *)
(* the bits between.  The bytes of an object are a pair of numbers: the    *)
(* halves of an i128, or one that stands for a public key or a text.  A    *)
(* block of a canonical key is a public key or a Val; no public key is     *)
(* taken to spell Vals.  Function ids without a case end the run           *)
(* (Drivers!Abort).                                                        *)
(***************************************************************************)
EXTENDS Integers, Sequences, FiniteSets

CONSTANTS
    OBJ_CAP, STORAGE_CAP, KEY_MAX, VEC_ELEMS,   \* GPU_... of the code
    Seeds,        \* objects the host puts on the heap before a call
    Smalls,       \* the small Vals of the contract
    KeyTags,      \* tags of the Vals it uses as keys,
    ValTags,      \* as stored values,
    VecShapes,    \* and of the elements of its vectors, as sequences of tags
    Texts,        \* strings and symbols in its memory: [len, data]
    Words,        \* the numbers it makes i128s of
    Stypes        \* storage types

ObjTags == {"I128_OBJECT", "STRING_OBJECT", "SYMBOL_OBJECT", "VEC_OBJECT",
            "MAP_OBJECT", "ADDRESS_OBJECT"}

Val   == [tag : STRING, hi : Nat, lo : Nat]
VOID  == [tag |-> "VOID", hi |-> 0, lo |-> 0]
FALSE_VAL == [tag |-> "FALSE", hi |-> 0, lo |-> 0]
TRUE_VAL  == [tag |-> "TRUE", hi |-> 0, lo |-> 0]

ZERO == <<0, 0>>
Elems0 == [i \in 1 .. VEC_ELEMS |-> FALSE_VAL]

GpuObjEntry == [tag : ObjTags, len : Nat, data : Nat \X Nat,
                elems : [1 .. VEC_ELEMS -> Val]]

ASSUME GpuHostAssumption ==
    /\ {OBJ_CAP, STORAGE_CAP, KEY_MAX, VEC_ELEMS} \subseteq Nat
    /\ \A s \in Seeds : s \in Seq(GpuObjEntry) /\ Len(s) <= OBJ_CAP
    /\ Smalls \subseteq Val /\ \A v \in Smalls : v.tag \notin ObjTags
    /\ Words \subseteq Nat /\ Stypes \subseteq Nat
    /\ Texts \subseteq [len : Nat, data : Nat \X Nat]

VARIABLES
    heap,         \* GpuObjHeap: the entries in use
    store,        \* GpuStorage: [key, val] in the order of the arrays
    mb,           \* the host call just answered, or Quiet
    ledger        \* history: what was put, by contents of key and value

vars == <<heap, store, mb, ledger>>

-----------------------------------------------------------------------------
\* soroban_make_obj, and obj_get: any Val whose upper half is a handle in use.
MakeObj(h, tag) == [tag |-> tag, hi |-> h, lo |-> 0]
InHeap(v) == v.hi < Len(heap)
Obj(v)    == heap[v.hi + 1]

Entry(tag, len, data) == [tag |-> tag, len |-> len, data |-> data, elems |-> Elems0]

\* The 32 bytes obj_get gives for an address, zeros if there is none.
PubKey(v) == IF InHeap(v) THEN Obj(v).data ELSE ZERO

Least(a, b) == IF a < b THEN a ELSE b

\* Mutant: an address is identified by its handle.
BlockByHandle(v) == <<"val", v>>

\* kv_canon_key: the blocks of a key, of 32 or 8 bytes.
Block(v) == IF v.tag = "ADDRESS_OBJECT" THEN <<"key", PubKey(v)>> ELSE <<"val", v>>

Blocks(v) ==
    IF v.tag = "VEC_OBJECT"
    THEN [i \in 1 .. Least(Obj(v).len, VEC_ELEMS) |-> Block(Obj(v).elems[i])]
    ELSE <<Block(v)>>

Bytes(bs) ==
    LET wide == {i \in DOMAIN bs : bs[i][1] = "key"}
    IN  1 + 32 * Cardinality(wide) + 8 * (Len(bs) - Cardinality(wide))

\* It fails on a vector that is not on the heap and on a key too long.
HasKey(v) == (v.tag = "VEC_OBJECT" => InHeap(v)) /\ Bytes(Blocks(v)) <= KEY_MAX

CanonKey(v, st) == <<st, Blocks(v)>>

\* kv_find: the first entry with the key, 0 for none.
Hits(key)   == {i \in DOMAIN store : store[i].key = key}

KvFind(key) == IF Hits(key) = {} THEN 0
               ELSE CHOOSE i \in Hits(key) : \A j \in Hits(key) : i <= j

\* Mutant: the capacity is not looked at.
KvPutUnchecked(key, val) ==
    LET i == KvFind(key)
    IN  IF i # 0 THEN [store EXCEPT ![i].val = val]
        ELSE Append(store, [key |-> key, val |-> val])

\* Mutant: a key that is there is entered again.
KvPutAppends(key, val) ==
    IF Len(store) >= STORAGE_CAP THEN store
    ELSE Append(store, [key |-> key, val |-> val])

\* gpu_kv_put_raw: a new key does not enter a full store.
KvPut(key, val) ==
    LET i == KvFind(key)
    IN  IF i # 0 THEN [store EXCEPT ![i].val = val]
        ELSE IF Len(store) >= STORAGE_CAP THEN store
        ELSE Append(store, [key |-> key, val |-> val])

-----------------------------------------------------------------------------
(***************************************************************************)
(* What a Val means: the contents of the objects it names, not handles.    *)
(* The length of an object other than a vector is read by no function.     *)
(***************************************************************************)
Flat(v) ==
    LET obj == v.tag \in ObjTags /\ InHeap(v)
    IN  [tag |-> v.tag, lo |-> v.lo, obj |-> obj,
         hi   |-> IF obj THEN 0 ELSE v.hi,
         data |-> IF obj THEN Obj(v).data ELSE ZERO]

Content(v) ==
    [flat  |-> Flat(v),
     elems |-> IF v.tag = "VEC_OBJECT" /\ InHeap(v)
               THEN [i \in 1 .. Least(Obj(v).len, VEC_ELEMS) |-> Flat(Obj(v).elems[i])]
               ELSE <<>>]

Place(key, st) == <<st, Content(key)>>

-----------------------------------------------------------------------------
\* No call is being answered: the guest runs.
Quiet == [fn |-> "NONE", key |-> VOID, st |-> 0, result |-> VOID]

\* The guest's call is answered with v.
Answer(fn, key, st, v) ==
    /\ mb = Quiet
    /\ mb' = [fn |-> fn, key |-> key, st |-> st, result |-> v]

\* The driver hands the answer over and the guest runs on.
Resume == mb # Quiet /\ mb' = Quiet /\ UNCHANGED <<heap, store, ledger>>

\* An answer about no key.
Told(v) == Answer("OTHER", VOID, 0, v)

\* Mutant: a full heap reuses its last slot.
AllocReuses(fn, key, st, e) ==
    IF Len(heap) >= OBJ_CAP
    THEN heap' = [heap EXCEPT ![OBJ_CAP] = e]
         /\ Answer(fn, key, st, MakeObj(OBJ_CAP - 1, e.tag))
    ELSE heap' = Append(heap, e) /\ Answer(fn, key, st, MakeObj(Len(heap), e.tag))

\* The result is obj_alloc's: a new object, or Void when the heap is full.
AllocAnswer(fn, key, st, e) ==
    IF Len(heap) >= OBJ_CAP
    THEN Answer(fn, key, st, VOID) /\ UNCHANGED heap
    ELSE heap' = Append(heap, e) /\ Answer(fn, key, st, MakeObj(Len(heap), e.tag))

Alloc(e) == AllocAnswer("OTHER", VOID, 0, e) /\ UNCHANGED <<store, ledger>>

\* gpu_heap_reset and the arguments of the next call; the store is kept.  An
\* empty seed is a call without arguments, before which nothing is reset.
NewCall(s) ==
    /\ Answer("CALL", VOID, 0, VOID)
    /\ heap' = IF s = <<>> THEN heap ELSE s
    /\ UNCHANGED <<store, ledger>>

Init ==
    /\ heap \in Seeds
    /\ store = <<>> /\ ledger = <<>>
    /\ mb = Quiet

\* string_new and symbol_new from linear memory; out of bounds, the bytes are 0.
TextNew(tag, t) ==
    \E data \in {t.data, ZERO} : Alloc(Entry(tag, t.len, data))

\* vec_new: the elements are read from linear memory, the ones out of bounds
\* not at all: the last ones, or the first when their 32-bit address wraps.
\* With a full heap raw is Void, whose handle is 0.
VecNew(vs) ==
    LET n   == Len(vs)
        raw == IF Len(heap) < OBJ_CAP THEN MakeObj(Len(heap), "VEC_OBJECT") ELSE VOID
        hp  == IF Len(heap) < OBJ_CAP THEN Append(heap, Entry("VEC_OBJECT", n, ZERO))
                                      ELSE heap
        ne  == Least(n, VEC_ELEMS)
    IN  /\ \E read \in UNION {{1 .. k, k + 1 .. ne} : k \in 0 .. ne} :
              heap' = IF raw.hi >= Len(hp) THEN hp
                      ELSE [hp EXCEPT ![raw.hi + 1].len = n,
                                      ![raw.hi + 1].elems =
                                          [i \in 1 .. VEC_ELEMS |->
                                              IF i \in read THEN vs[i] ELSE @[i]]]
        /\ Told(raw)
        /\ UNCHANGED <<store, ledger>>

MapNew  == Alloc(Entry("MAP_OBJECT", 0, ZERO))
CurAddr == Alloc(Entry("ADDRESS_OBJECT", 0, ZERO))

FromI128(hi, lo) == Alloc(Entry("I128_OBJECT", 16, <<lo, hi>>))

\* A half of the i128 a Val names, 0 if it names none; a raw word, not a Val.
ToI128(v, half) ==
    LET w == IF InHeap(v) /\ Obj(v).tag = "I128_OBJECT" THEN Obj(v).data[half] ELSE 0
    IN  /\ Told([tag |-> "RAW", hi |-> 0, lo |-> w])
        /\ UNCHANGED <<heap, store, ledger>>

HasContractData(key, st) ==
    /\ Answer("HAS", key, st, IF HasKey(key) /\ KvFind(CanonKey(key, st)) # 0
                              THEN TRUE_VAL ELSE FALSE_VAL)
    /\ UNCHANGED <<heap, store, ledger>>

\* A stored public key comes back as a new address object.
GetContractData(key, st) ==
    LET i == IF HasKey(key) THEN KvFind(CanonKey(key, st)) ELSE 0
    IN  /\ IF i = 0 THEN Answer("GET", key, st, VOID) /\ UNCHANGED heap
           ELSE IF store[i].val[1] = "key"
           THEN AllocAnswer("GET", key, st, Entry("ADDRESS_OBJECT", 32, store[i].val[2]))
           ELSE Answer("GET", key, st, store[i].val[2]) /\ UNCHANGED heap
        /\ UNCHANGED <<store, ledger>>

\* An address is stored as its public key, any other Val as it is.  The ledger
\* takes the contents; like the store it refuses a new key when it is full.
PutContractData(key, v, st) ==
    /\ store' = IF HasKey(key) THEN KvPut(CanonKey(key, st), Block(v)) ELSE store
    /\ ledger' = LET p == Place(key, st)
                 IN  IF p \in DOMAIN ledger \/ Cardinality(DOMAIN ledger) < STORAGE_CAP
                     THEN [q \in DOMAIN ledger \cup {p} |->
                              IF q = p THEN Content(v) ELSE ledger[q]]
                     ELSE ledger
    /\ Told(VOID)
    /\ UNCHANGED heap

\* map_unpack, TTL, require_auth and events do nothing; the ledger sequence is
\* a constant with its number where no U32Val has it.
NoOp      == Told(VOID) /\ UNCHANGED <<heap, store, ledger>>
LedgerSeq == Told([tag |-> "U32", hi |-> 0, lo |-> 100])
             /\ UNCHANGED <<heap, store, ledger>>

\* The Vals a guest can hold: its own, objects of the heap, what is stored.
Held == Smalls \cup {MakeObj(i - 1, heap[i].tag) : i \in DOMAIN heap}
        \cup {store[i].val[2] : i \in {j \in DOMAIN store : store[j].val[1] = "val"}}

\* The vectors it can lay out in its memory.
Vectors == UNION {{vs \in [1 .. Len(sh) -> Held] : \A i \in 1 .. Len(sh) : vs[i].tag = sh[i]}
                  : sh \in VecShapes}
Keys    == {v \in Held : v.tag \in KeyTags}
Stored  == {v \in Held : v.tag \in ValTags}

Next ==
    \/ \E s \in Seeds : NewCall(s)
    \/ \E tag \in {"STRING_OBJECT", "SYMBOL_OBJECT"}, t \in Texts : TextNew(tag, t)
    \/ \E vs \in Vectors : VecNew(vs)
    \/ MapNew
    \/ CurAddr
    \/ \E hi, lo \in Words : FromI128(hi, lo)
    \/ \E v \in Held, half \in 1 .. 2 : ToI128(v, half)
    \/ \E key \in Keys, st \in Stypes : HasContractData(key, st)
    \/ \E key \in Keys, st \in Stypes : GetContractData(key, st)
    \/ \E key \in Keys, v \in Stored, st \in Stypes : PutContractData(key, v, st)
    \/ NoOp
    \/ LedgerSeq
    \/ Resume

Spec == Init /\ [][Next]_vars

-----------------------------------------------------------------------------
TypeOK ==
    /\ heap \in Seq(GpuObjEntry) /\ Len(heap) <= OBJ_CAP
    /\ Len(store) <= STORAGE_CAP
    /\ \A i \in DOMAIN store : store[i].key[1] \in Stypes
    /\ Held \subseteq Val /\ mb.result \in Val

(***************************************************************************)
(* No two entries of the store have the same key, so that kv_find, which   *)
(* stops at the first, never hides what was put last.                      *)
(***************************************************************************)
KeysUnique ==
    \A i, j \in DOMAIN store : store[i].key = store[j].key => i = j

(***************************************************************************)
(* Within a call of the contract a Val the guest holds keeps its contents, *)
(* whatever the guest allocates, also when the heap is full.               *)
(***************************************************************************)
ContentsStable ==
    [][mb'.fn # "CALL" => \A v \in Held : Content(v)' = Content(v)]_vars

(***************************************************************************)
(* Storage is by contents: has and get answer what was last put under a    *)
(* key with the same contents and type, whatever handles the two calls     *)
(* used and however often the heap was reset in between.  A new key may be *)
(* refused when the store is full, and an address may come back as Void    *)
(* when the heap is.                                                       *)
(***************************************************************************)
HonestAnswers ==
    LET p == Place(mb.key, mb.st)
    IN  /\ mb.fn = "HAS" => (mb.result = TRUE_VAL <=> p \in DOMAIN ledger)
        /\ mb.fn = "GET" =>
              IF p \notin DOMAIN ledger THEN mb.result = VOID
              ELSE \/ Content(mb.result) = ledger[p]
                   \/ /\ mb.result = VOID /\ Len(heap) = OBJ_CAP
                      /\ ledger[p].flat.tag = "ADDRESS_OBJECT"

(***************************************************************************)
(* The contracts for which this holds: keys are vectors of addresses and   *)
(* small Vals that fit a canonical key, stored values are addresses and    *)
(* small Vals, and the host passes no vectors.                             *)
(***************************************************************************)
ShortEnough(n) == n \in Nat /\ 1 + 32 * Least(n, VEC_ELEMS) <= KEY_MAX

TokenGuest ==
    /\ KeyTags \subseteq {"VEC_OBJECT"} /\ ValTags \cap ObjTags \subseteq {"ADDRESS_OBJECT"}
    /\ \A sh \in VecShapes : /\ ShortEnough(Len(sh))
                             /\ \A i \in 1 .. Len(sh) : sh[i] \in ObjTags => sh[i] = "ADDRESS_OBJECT"
    /\ \A s \in Seeds : \A i \in 1 .. Len(s) : s[i].tag # "VEC_OBJECT" /\ s[i].elems = Elems0
=============================================================================
