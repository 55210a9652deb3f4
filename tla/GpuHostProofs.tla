--------------------------- MODULE GpuHostProofs ----------------------------
(***************************************************************************)
(* The GPU host functions for every value of the constants.                *)
(*                                                                         *)
(*   - For every guest, no key is entered twice (KeysUnique), so that      *)
(*     kv_find gives the only entry there is, and the store never grows    *)
(*     past STORAGE_CAP.                                                   *)
(*   - For a TokenGuest, has and get answer what was put (HonestAnswers).  *)
(*     TokenInv is inductive: the objects on the heap are well formed, and *)
(*     the entries of the store are, one by one, what the ledger has at    *)
(*     the place their key names.                                          *)
(*   - For a TokenGuest called with arguments, what a Val means to the     *)
(*     guest stays (ContentsStable), on a full heap as well.               *)
(***************************************************************************)
EXTENDS GpuHost, FiniteSetTheorems, WellFoundedInduction, TLAPS

-----------------------------------------------------------------------------
\* A non-empty set of numbers has a least one.
LEMMA LeastIn ==
    ASSUME NEW T \in SUBSET Nat, T # {}
    PROVE  \E i \in T : \A j \in T : i <= j
<1>1. PICK i \in T : \A j \in T : <<j, i>> \notin OpToRel(<, Nat)
  BY Zenon, WFMin, NatLessThanWellFounded
<1>2. ASSUME NEW j \in T PROVE i <= j
  <2>1. <<j, i>> \in Nat \X Nat /\ <<j, i>>[1] = j /\ <<j, i>>[2] = i
    OBVIOUS
  <2>2. ~ j < i
    BY Zenon, <1>1, <2>1 DEF OpToRel
  <2> QED
    BY <2>2
<1> QED
  BY <1>2

\* The store, as a sequence of entries.
Cells(S) == Seq([key : S, val : S])

\* kv_find of a key that is there is an entry with the key.
LEMMA FoundIn ==
    ASSUME NEW S, store \in Cells(S), NEW key
    PROVE  /\ KvFind(key) = 0 => \A i \in 1 .. Len(store) : store[i].key # key
           /\ KvFind(key) # 0 => KvFind(key) \in 1 .. Len(store) /\ store[KvFind(key)].key = key
<1>1. DOMAIN store = 1 .. Len(store) /\ Len(store) \in Nat
  BY DEF Cells
<1>2. CASE Hits(key) = {}
  <2>1. KvFind(key) = 0
    BY Zenon, <1>2 DEF KvFind
  <2> QED
    BY Zenon, <1>1, <1>2, <2>1 DEF Hits
<1>3. CASE Hits(key) # {}
  <2>1. Hits(key) \in SUBSET Nat
    BY <1>1 DEF Hits
  <2>2. \E i \in Hits(key) : \A j \in Hits(key) : i <= j
    BY Zenon, <1>3, <2>1, LeastIn
  <2>3. KvFind(key) \in Hits(key)
    BY Zenon, <1>3, <2>2 DEF KvFind
  <2>4. KvFind(key) \in 1 .. Len(store) /\ store[KvFind(key)].key = key
    BY Zenon, <1>1, <2>3 DEF Hits
  <2> QED
    BY <1>1, <2>4
<1> QED
  BY Zenon, <1>2, <1>3

\* The store is a bounded sequence of entries, no two with the same key.
StoreInv ==
    /\ \E S : store \in Cells(S)
    /\ Len(store) <= STORAGE_CAP
    /\ KeysUnique

\* A sequence over a set is one over a larger set, and its elements are in it.
LEMMA SeqMore ==
    ASSUME NEW A, NEW B, A \subseteq B, NEW s \in Seq(A)
    PROVE  s \in Seq(B) /\ \A i \in 1 .. Len(s) : s[i] \in B
  OBVIOUS

\* gpu_kv_put_raw keeps all of that.
LEMMA StorePut ==
    ASSUME StoreInv, STORAGE_CAP \in Nat, NEW key, NEW val, store' = KvPut(key, val)
    PROVE  StoreInv'
<1>1. PICK S0 : store \in Cells(S0)
  BY Zenon DEF StoreInv
<1> DEFINE S == S0 \cup {key, val}
           E == [key : S, val : S]
           e == [key |-> key, val |-> val]
<1>2. store \in Seq(E) /\ \A j \in 1 .. Len(store) : store[j] \in E
  <2>1. [key : S0, val : S0] \subseteq E
    OBVIOUS
  <2> DEFINE E0 == [key : S0, val : S0]
  <2>2. store \in Seq(E0)
    BY Zenon, <1>1 DEF Cells
  <2>3. E0 \subseteq E
    BY Zenon, <2>1
  <2> HIDE DEF E0, E
  <2> QED
    BY ONLY Zenon, <2>2, <2>3, SeqMore
<1>3. e \in E
  BY Zenon
<1>c. Cells(S) = Seq(E)
  BY Zenon DEF Cells
<1> DEFINE i == KvFind(key)
<1>f. /\ i = 0 => \A j \in 1 .. Len(store) : store[j].key # key
      /\ i # 0 => i \in 1 .. Len(store) /\ store[i].key = key
  BY Zenon, <1>1, FoundIn
<1>k. /\ Len(store) <= STORAGE_CAP
      /\ \A j, k \in 1 .. Len(store) : store[j].key = store[k].key => j = k
  <2>1. DOMAIN store = 1 .. Len(store)
    BY <1>2
  <2> QED
    BY Zenon, <2>1 DEF StoreInv, KeysUnique
<1>p. store' = IF i # 0 THEN [store EXCEPT ![i].val = val]
               ELSE IF Len(store) >= STORAGE_CAP THEN store ELSE Append(store, e)
  BY Zenon DEF KvPut
<1> HIDE DEF i
<1>4. CASE i # 0
  <2>1. store' = [store EXCEPT ![i].val = val] /\ i \in 1 .. Len(store)
    BY Zenon, <1>f, <1>p, <1>4
  <2>3. [store[i] EXCEPT !.val = val] \in E /\ [store[i] EXCEPT !.val = val].key = store[i].key
    <3>1. store[i] \in E /\ val \in S
      BY Zenon, <1>2, <2>1
    <3> QED
      BY <3>1
  <2>4. /\ store' \in Seq(E) /\ Len(store') = Len(store)
        /\ \A j \in 1 .. Len(store) : store'[j].key = store[j].key
    <3> DEFINE x == [store[i] EXCEPT !.val = val]
    <3>1. store' = [store EXCEPT ![i] = x]
      BY Zenon, <2>1
    <3> HIDE DEF x, E
    <3>2. x \in E /\ x.key = store[i].key
      BY Zenon, <2>3 DEF x
    <3>3. store' \in Seq(E) /\ Len(store') = Len(store)
      BY <1>2, <2>1, <3>1, <3>2
    <3>4. ASSUME NEW j \in 1 .. Len(store) PROVE store'[j].key = store[j].key
      <4>1. store'[j] = IF j = i THEN x ELSE store[j]
        BY <1>2, <3>1
      <4> QED
        BY Zenon, <3>2, <4>1
    <3> QED
      BY Zenon, <3>3, <3>4
  <2>5. DOMAIN store' = 1 .. Len(store)
    BY <2>4
  <2>6. \A j, k \in DOMAIN store' : store'[j].key = store'[k].key => j = k
    BY ZenonT(30), <1>k, <2>4, <2>5
  <2> QED
    BY Zenon, <1>c, <1>k, <2>4, <2>6 DEF StoreInv, KeysUnique
<1>5. CASE i = 0 /\ Len(store) >= STORAGE_CAP
  <2>1. store' = store
    BY Zenon, <1>p, <1>5
  <2> QED
    BY Zenon, <2>1 DEF StoreInv, KeysUnique
<1>6. CASE i = 0 /\ ~ Len(store) >= STORAGE_CAP
  <2> DEFINE n == Len(store)
  <2>1. store' = Append(store, e) /\ \A j \in 1 .. n : store[j].key # key
    BY Zenon, <1>f, <1>p, <1>6
  <2>2. /\ store' \in Seq(E) /\ Len(store') = n + 1 /\ n \in Nat /\ store'[n + 1] = e
        /\ \A j \in 1 .. n : store'[j] = store[j]
        /\ DOMAIN store' = 1 .. n + 1
    BY <1>2, <1>3, <2>1
  <2>3. e.key = key
    BY Zenon
  <2> HIDE DEF e, n
  <2>4. ASSUME NEW j \in DOMAIN store', NEW k \in DOMAIN store', store'[j].key = store'[k].key
        PROVE  j = k
    <3>1. (j \in 1 .. n \/ j = n + 1) /\ (k \in 1 .. n \/ k = n + 1)
      BY <2>2
    <3> QED
      BY Zenon, <1>k, <2>1, <2>2, <2>3, <2>4, <3>1 DEF n
  <2>5. Len(store') <= STORAGE_CAP
    BY <1>6, <2>2 DEF n
  <2> QED
    BY Zenon, <1>c, <2>2, <2>4, <2>5 DEF StoreInv, KeysUnique
<1> QED
  BY Zenon, <1>4, <1>5, <1>6

(***************************************************************************)
(* Whatever host calls the guest makes, no key is entered twice: kv_find,  *)
(* which stops at the first entry with a key, never hides what was put     *)
(* last; and the store stays within its capacity.                          *)
(***************************************************************************)
THEOREM StoreInvariant == Spec => []StoreInv
<1> USE GpuHostAssumption
<1>0. STORAGE_CAP \in Nat
  OBVIOUS
<1>1. Init => StoreInv
  <2> SUFFICES ASSUME Init PROVE StoreInv
    OBVIOUS
  <2>1. store = <<>>
    BY Zenon DEF Init
  <2>2. store \in Cells({}) /\ Len(store) = 0 /\ DOMAIN store = {}
    BY <2>1 DEF Cells
  <2> QED
    BY <1>0, <2>2 DEF StoreInv, KeysUnique
<1>2. StoreInv /\ [Next]_vars => StoreInv'
  <2> SUFFICES ASSUME StoreInv, [Next]_vars PROVE StoreInv'
    OBVIOUS
  <2>0. store' = store => StoreInv'
    BY Zenon DEF StoreInv, KeysUnique
  <2>1. ASSUME NEW key, NEW v, NEW st, PutContractData(key, v, st) PROVE StoreInv'
    <3>1. CASE store' = store
      BY Zenon, <2>0, <3>1
    <3>2. CASE store' = KvPut(CanonKey(key, st), Block(v))
      BY Zenon, <1>0, <3>2, StorePut
    <3> QED
      BY Zenon, <2>1, <3>1, <3>2 DEF PutContractData
  <2>2. ASSUME ~ \E key \in Keys, v \in Stored, st \in Stypes : PutContractData(key, v, st)
        PROVE  store' = store
    BY Zenon, <2>2 DEF Next, vars, NewCall, TextNew, VecNew, MapNew, CurAddr, FromI128, ToI128,
       HasContractData, GetContractData, NoOp, LedgerSeq, Resume, Alloc
  <2> QED
    BY Zenon, <2>0, <2>1, <2>2
<1> QED
  BY <1>1, <1>2, PTL DEF Spec

\* gpu_kv_put_raw never enters a key twice: kv_find finds the only entry there is.
THEOREM KeysUniqueAlways == Spec => []KeysUnique
<1>1. StoreInv => KeysUnique
  BY Zenon DEF StoreInv
<1> QED
  BY <1>1, StoreInvariant, PTL

-----------------------------------------------------------------------------
\* A Val that names no object, and the blocks of keys and values.
PlainVal(v) == v = [tag |-> v.tag, hi |-> v.hi, lo |-> v.lo] /\ v.tag \notin ObjTags
BlockOk(b) == b = <<"key", b[2]>> \/ (b = <<"val", b[2]>> /\ PlainVal(b[2]))
KeyOk(k) ==
    /\ k = <<k[1], k[2]>> /\ k[2] = [i \in DOMAIN k[2] |-> k[2][i]]
    /\ \A i \in DOMAIN k[2] : BlockOk(k[2][i])

\* The contents a block stands for, whatever is on the heap.
FlatAddr(pk) == [tag |-> "ADDRESS_OBJECT", lo |-> 0, obj |-> TRUE, hi |-> 0, data |-> pk]
FlatVal(v) == [tag |-> v.tag, lo |-> v.lo, obj |-> FALSE, hi |-> v.hi, data |-> ZERO]
FlatOf(b) == IF b[1] = "key" THEN FlatAddr(b[2]) ELSE FlatVal(b[2])
FlatVec == [tag |-> "VEC_OBJECT", lo |-> 0, obj |-> TRUE, hi |-> 0, data |-> ZERO]
PlaceOf(k) == <<k[1], [flat |-> FlatVec, elems |-> [i \in DOMAIN k[2] |-> FlatOf(k[2][i])]]>>
ContentOf(b) == [flat |-> FlatOf(b), elems |-> <<>>]

\* Blocks with the same contents are the same.
LEMMA FlatInjective ==
    ASSUME NEW a, NEW b, BlockOk(a), BlockOk(b), FlatOf(a) = FlatOf(b)
    PROVE  a = b
<1>0. "key" # "val"
  OBVIOUS
<1>1. CASE a = <<"key", a[2]>> /\ b = <<"key", b[2]>>
  <2>1. FlatOf(a) = FlatAddr(a[2]) /\ FlatOf(b) = FlatAddr(b[2])
    BY <1>1 DEF FlatOf
  <2>2. FlatAddr(a[2]).data = a[2] /\ FlatAddr(b[2]).data = b[2]
    BY Zenon DEF FlatAddr
  <2> QED
    BY Zenon, <1>1, <2>1, <2>2
<1>2. CASE a = <<"val", a[2]>> /\ b = <<"val", b[2]>> /\ PlainVal(a[2]) /\ PlainVal(b[2])
  <2>1. FlatOf(a) = FlatVal(a[2]) /\ FlatOf(b) = FlatVal(b[2])
    BY <1>2 DEF FlatOf
  <2> DEFINE v == a[2]
             w == b[2]
  <2>2. /\ FlatVal(v).tag = v.tag /\ FlatVal(v).lo = v.lo /\ FlatVal(v).hi = v.hi
        /\ FlatVal(w).tag = w.tag /\ FlatVal(w).lo = w.lo /\ FlatVal(w).hi = w.hi
    BY Zenon DEF FlatVal
  <2>3. v.tag = w.tag /\ v.lo = w.lo /\ v.hi = w.hi
    BY Zenon, <2>1, <2>2
  <2>4. v = w
    BY Zenon, <1>2, <2>3 DEF PlainVal
  <2> QED
    BY Zenon, <1>2, <2>4
<1>3. ASSUME NEW c, NEW d, c = <<"key", c[2]>>, d = <<"val", d[2]>> PROVE FlatOf(c) # FlatOf(d)
  <2>1. FlatOf(c) = FlatAddr(c[2]) /\ FlatOf(d) = FlatVal(d[2])
    BY <1>3 DEF FlatOf
  <2>2. FlatAddr(c[2]).obj = TRUE /\ FlatVal(d[2]).obj = FALSE
    BY Zenon DEF FlatAddr, FlatVal
  <2> QED
    BY Zenon, <2>1, <2>2
<1> QED
  BY Zenon, <1>1, <1>2, <1>3 DEF BlockOk

\* And so are keys.
LEMMA PlaceInjective ==
    ASSUME NEW k, NEW l, KeyOk(k), KeyOk(l), PlaceOf(k) = PlaceOf(l)
    PROVE  k = l
<1> DEFINE E(x) == [i \in DOMAIN x[2] |-> FlatOf(x[2][i])]
           R(x) == [flat |-> FlatVec, elems |-> E(x)]
<1>1. PlaceOf(k) = <<k[1], R(k)>> /\ PlaceOf(l) = <<l[1], R(l)>>
  BY Zenon DEF PlaceOf
<1>2. R(k).elems = E(k) /\ R(l).elems = E(l)
  BY Zenon
<1>3. DOMAIN E(k) = DOMAIN k[2] /\ DOMAIN E(l) = DOMAIN l[2]
  BY Zenon
<1>e. /\ \A i \in DOMAIN k[2] : E(k)[i] = FlatOf(k[2][i])
      /\ \A i \in DOMAIN l[2] : E(l)[i] = FlatOf(l[2][i])
  BY Zenon
<1> HIDE DEF R
<1>4. k[1] = l[1] /\ R(k) = R(l)
  <2>1. <<k[1], R(k)>> = <<l[1], R(l)>>
    BY Zenon, <1>1
  <2> QED
    BY ONLY Zenon, <2>1
<1> HIDE DEF E
<1>5. DOMAIN k[2] = DOMAIN l[2] /\ E(k) = E(l)
  BY Zenon, <1>2, <1>3, <1>4
<1>6. ASSUME NEW i \in DOMAIN k[2] PROVE k[2][i] = l[2][i]
  <2>1. FlatOf(k[2][i]) = FlatOf(l[2][i])
    BY Zenon, <1>5, <1>e
  <2>2. BlockOk(k[2][i]) /\ BlockOk(l[2][i])
    BY Zenon, <1>5 DEF KeyOk
  <2> QED
    BY Zenon, <2>1, <2>2, FlatInjective
<1>7. k[2] = l[2]
  <2> DEFINE f == k[2]
             g == l[2]
  <2>1. f = [i \in DOMAIN f |-> f[i]] /\ g = [i \in DOMAIN g |-> g[i]]
    BY Zenon DEF KeyOk
  <2>2. DOMAIN f = DOMAIN g /\ \A i \in DOMAIN f : f[i] = g[i]
    BY Zenon, <1>5, <1>6
  <2> HIDE DEF f, g
  <2>3. f = g
    BY ONLY <2>1, <2>2
  <2> QED
    BY Zenon, <2>3 DEF f, g
<1> QED
  BY Zenon, <1>4, <1>7 DEF KeyOk

-----------------------------------------------------------------------------
\* An element of a vector, on a heap of n objects: an address names one of them.
ElemOk(v, n) ==
    \/ PlainVal(v)
    \/ v = [tag |-> "ADDRESS_OBJECT", hi |-> v.hi, lo |-> 0] /\ v.hi \in 0 .. n - 1
ObjOk(o, n) ==
    /\ o.tag \in ObjTags /\ (o.tag = "VEC_OBJECT" => o.data = ZERO /\ ShortEnough(o.len))
    /\ \A i \in 1 .. VEC_ELEMS : ElemOk(o.elems[i], n)
Slots(S) == Seq([tag : S, len : S, data : S, elems : S])

\* The objects of a heap, whatever the fields of their entries range over.
HeapOk(hp) ==
    /\ \E S : hp \in Slots(S)
    /\ Len(hp) <= OBJ_CAP
    /\ \A i \in 1 .. Len(hp) : ObjOk(hp[i], Len(hp))

\* v names an object of the heap.
Names(v) == v.hi \in 0 .. Len(heap) - 1 /\ v = MakeObj(v.hi, heap[v.hi + 1].tag)
ValsOk == \A i \in DOMAIN store : BlockOk(store[i].val)

\* The Vals the guest holds are plain or name an object.
LEMMA HeldOk ==
    ASSUME HeapOk(heap), ValsOk, NEW v \in Held
    PROVE  PlainVal(v) \/ Names(v)
<1>1. CASE v \in Smalls
  <2>1. v \in Val /\ v.tag \notin ObjTags
    BY Zenon, <1>1, GpuHostAssumption
  <2> HIDE DEF ObjTags
  <2>2. v = [tag |-> v.tag, hi |-> v.hi, lo |-> v.lo]
    BY <2>1 DEF Val
  <2> QED
    BY Zenon, <2>1, <2>2 DEF PlainVal
<1>2. CASE v \in {MakeObj(i - 1, heap[i].tag) : i \in DOMAIN heap}
  <2>1. PICK i \in DOMAIN heap : v = MakeObj(i - 1, heap[i].tag)
    BY Zenon, <1>2
  <2>2. PICK S : heap \in Slots(S)
    BY Zenon DEF HeapOk
  <2>3. i \in 1 .. Len(heap) /\ Len(heap) \in Nat
    BY <2>2 DEF Slots
  <2>4. i - 1 \in 0 .. Len(heap) - 1 /\ (i - 1) + 1 = i
    BY <2>3
  <2>5. v.hi = i - 1
    BY Zenon, <2>1 DEF MakeObj
  <2> QED
    BY Zenon, <2>1, <2>4, <2>5 DEF Names
<1>3. CASE v \in {store[i].val[2] : i \in {j \in DOMAIN store : store[j].val[1] = "val"}}
  <2>1. PICK i \in DOMAIN store : v = store[i].val[2] /\ store[i].val[1] = "val"
    BY Zenon, <1>3
  <2> DEFINE b == store[i].val
  <2>2. BlockOk(b) /\ v = b[2] /\ b[1] = "val"
    BY Zenon, <2>1 DEF ValsOk
  <2> HIDE DEF b
  <2>3. b # <<"key", b[2]>>
    BY <2>2
  <2> QED
    BY Zenon, <2>2, <2>3 DEF BlockOk
<1> QED
  BY Zenon, <1>1, <1>2, <1>3 DEF Held

\* What an element means is what its block stands for.
LEMMA ElemFlat ==
    ASSUME NEW v, ElemOk(v, Len(heap)), Len(heap) \in Nat
    PROVE  BlockOk(Block(v)) /\ Content(v) = ContentOf(Block(v)) /\ Flat(v) = FlatOf(Block(v))
<1>1. CASE PlainVal(v)
  <2>1. v.tag \notin ObjTags /\ v.tag # "ADDRESS_OBJECT" /\ v.tag # "VEC_OBJECT"
    BY Zenon, <1>1 DEF PlainVal, ObjTags
  <2>2. Block(v) = <<"val", v>>
    BY Zenon, <2>1 DEF Block
  <2>3. Block(v)[1] = "val" /\ Block(v)[2] = v /\ "val" # "key"
    BY <2>2
  <2>4. FlatOf(Block(v)) = FlatVal(v)
    BY Zenon, <2>3 DEF FlatOf
  <2>5. Flat(v) = FlatVal(v)
    <3> DEFINE obj == v.tag \in ObjTags /\ InHeap(v)
    <3>1. obj = FALSE
      BY Zenon, <2>1
    <3> HIDE DEF obj
    <3>2. Flat(v) = [tag |-> v.tag, lo |-> v.lo, obj |-> obj,
                     hi   |-> IF obj THEN 0 ELSE v.hi,
                     data |-> IF obj THEN Obj(v).data ELSE ZERO]
      BY Zenon DEF Flat, obj
    <3> QED
      BY Zenon, <3>1, <3>2 DEF FlatVal
  <2>6. BlockOk(Block(v))
    BY Zenon, <1>1, <2>2, <2>3 DEF BlockOk
  <2> QED
    BY Zenon, <2>1, <2>4, <2>5, <2>6 DEF Content, ContentOf
<1>2. CASE v = [tag |-> "ADDRESS_OBJECT", hi |-> v.hi, lo |-> 0] /\ v.hi \in 0 .. Len(heap) - 1
  <2>0. v.tag = "ADDRESS_OBJECT" /\ v.lo = 0
    <3>1. PICK y : v = [tag |-> "ADDRESS_OBJECT", hi |-> y, lo |-> 0]
      BY Zenon, <1>2
    <3> QED
      BY ONLY Zenon, <3>1
  <2>1. v.tag = "ADDRESS_OBJECT" /\ v.lo = 0 /\ v.tag \in ObjTags /\ v.tag # "VEC_OBJECT"
    BY <2>0 DEF ObjTags
  <2>2. InHeap(v)
    BY <1>2 DEF InHeap
  <2>3. Block(v) = <<"key", Obj(v).data>>
    BY Zenon, <2>1, <2>2 DEF Block, PubKey
  <2>4. Block(v)[1] = "key" /\ Block(v)[2] = Obj(v).data
    BY <2>3
  <2>5. FlatOf(Block(v)) = FlatAddr(Obj(v).data)
    BY Zenon, <2>4 DEF FlatOf
  <2>6. Flat(v) = FlatAddr(Obj(v).data)
    <3> DEFINE obj == v.tag \in ObjTags /\ InHeap(v)
    <3>1. obj = TRUE
      BY Zenon, <2>1, <2>2
    <3> HIDE DEF obj
    <3>2. Flat(v) = [tag |-> v.tag, lo |-> v.lo, obj |-> obj,
                     hi   |-> IF obj THEN 0 ELSE v.hi,
                     data |-> IF obj THEN Obj(v).data ELSE ZERO]
      BY Zenon DEF Flat, obj
    <3> QED
      BY Zenon, <2>1, <3>1, <3>2 DEF FlatAddr
  <2>7. BlockOk(Block(v))
    BY Zenon, <2>3, <2>4 DEF BlockOk
  <2> QED
    BY Zenon, <2>1, <2>5, <2>6, <2>7 DEF Content, ContentOf
<1> QED
  BY Zenon, <1>1, <1>2 DEF ElemOk

\* A key of n blocks has at most 1 + 32 n bytes.
LEMMA BytesBound ==
    ASSUME NEW n \in Nat, NEW bs, DOMAIN bs = 1 .. n, Len(bs) = n
    PROVE  Bytes(bs) <= 1 + 32 * n
<1> DEFINE wide == {i \in DOMAIN bs : bs[i][1] = "key"}
           c == Cardinality(wide)
<1>1. IsFiniteSet(1 .. n) /\ Cardinality(1 .. n) = n
  BY FS_Interval
<1>2. wide \subseteq 1 .. n
  BY Zenon
<1>3. c \in Nat /\ c <= n
  BY <1>1, <1>2, FS_Subset, FS_CardinalityType
<1>4. Bytes(bs) = 1 + 32 * c + 8 * (n - c)
  BY Zenon DEF Bytes
<1> HIDE DEF c
<1> QED
  BY <1>3, <1>4

\* A key of the guest fits, and its place is the one its canonical key stands for.
LEMMA KeyPlace ==
    ASSUME HeapOk(heap), NEW v, Names(v), v.tag = "VEC_OBJECT", NEW st
    PROVE  HasKey(v) /\ KeyOk(CanonKey(v, st)) /\ Place(v, st) = PlaceOf(CanonKey(v, st))
<1> DEFINE o == heap[v.hi + 1]
           n == Least(o.len, VEC_ELEMS)
           B(i) == Block(o.elems[i])
           bs == Blocks(v)
<1>0. VEC_ELEMS \in Nat /\ KEY_MAX \in Nat
  BY GpuHostAssumption
<1>1. Len(heap) \in Nat
  <2>1. PICK S : heap \in Slots(S)
    BY Zenon DEF HeapOk
  <2> QED
    BY <2>1 DEF Slots
<1>2. v.hi \in 0 .. Len(heap) - 1 /\ v.hi + 1 \in 1 .. Len(heap) /\ InHeap(v)
  <2>1. v.hi \in 0 .. Len(heap) - 1
    BY Zenon DEF Names
  <2> QED
    BY <1>1, <2>1 DEF InHeap
<1>3. ObjOk(o, Len(heap)) /\ Obj(v) = o
  BY Zenon, <1>2 DEF HeapOk, Obj
<1>4. o.tag = "VEC_OBJECT" /\ v.lo = 0
  <2>1. PICK y, t : v = [tag |-> t, hi |-> y, lo |-> 0] /\ t = o.tag
    BY Zenon DEF Names, MakeObj
  <2>2. v.tag = t /\ v.lo = 0
    BY ONLY Zenon, <2>1
  <2> QED
    BY Zenon, <2>1, <2>2
<1>5. /\ o.data = ZERO /\ ShortEnough(o.len)
      /\ \A i \in 1 .. VEC_ELEMS : ElemOk(o.elems[i], Len(heap))
  BY Zenon, <1>3, <1>4 DEF ObjOk
<1>6. n \in 0 .. VEC_ELEMS /\ 1 + 32 * n <= KEY_MAX
  BY <1>0, <1>5 DEF ShortEnough, Least
<1>7. bs = [i \in 1 .. n |-> B(i)]
  BY Zenon, <1>3 DEF Blocks
<1>8. Content(v) = [flat |-> Flat(v), elems |-> [i \in 1 .. n |-> Flat(o.elems[i])]]
  BY Zenon, <1>2, <1>3 DEF Content
<1> HIDE DEF o, n, bs
<1>9. /\ DOMAIN bs = 1 .. n /\ Len(bs) = n /\ \A i \in 1 .. n : bs[i] = B(i)
  <2> HIDE DEF B
  <2> QED
    BY <1>6, <1>7
<1>10. ASSUME NEW i \in 1 .. n PROVE BlockOk(bs[i]) /\ Flat(o.elems[i]) = FlatOf(bs[i])
  <2>1. i \in 1 .. VEC_ELEMS
    BY <1>0, <1>6
  <2>2. ElemOk(o.elems[i], Len(heap))
    BY Zenon, <1>5, <2>1
  <2> QED
    BY Zenon, <1>1, <1>9, <2>2, ElemFlat
<1>11. Flat(v) = FlatVec
  <2> DEFINE obj == v.tag \in ObjTags /\ InHeap(v)
  <2>1. obj = TRUE
    BY <1>2 DEF ObjTags
  <2> HIDE DEF obj
  <2>2. Flat(v) = [tag |-> v.tag, lo |-> v.lo, obj |-> obj,
                   hi   |-> IF obj THEN 0 ELSE v.hi,
                   data |-> IF obj THEN Obj(v).data ELSE ZERO]
    BY Zenon DEF Flat, obj
  <2> QED
    BY Zenon, <1>3, <1>4, <1>5, <2>1, <2>2 DEF FlatVec
<1>12. HasKey(v)
  <2>1. n \in Nat
    BY <1>6
  <2>2. Bytes(bs) <= 1 + 32 * n
    BY Zenon, <1>9, <2>1, BytesBound
  <2>3. Bytes(bs) <= KEY_MAX
    <3>1. Bytes(bs) \in Int
      <4> DEFINE wide == {i \in DOMAIN bs : bs[i][1] = "key"}
      <4>1. IsFiniteSet(1 .. n) /\ wide \subseteq 1 .. n
        BY <1>9, <2>1, FS_Interval
      <4>2. Cardinality(wide) \in Nat
        BY <4>1, FS_Subset, FS_CardinalityType
      <4> QED
        BY <1>9, <2>1, <4>2 DEF Bytes
    <3> QED
      BY <1>0, <1>6, <2>1, <2>2, <3>1
  <2> QED
    BY Zenon, <1>2, <2>3 DEF HasKey, bs
<1> DEFINE k == CanonKey(v, st)
<1>13. k = <<st, bs>> /\ k[1] = st /\ k[2] = bs
  BY Zenon DEF CanonKey, bs
<1>14. KeyOk(k)
  <2>1. bs = [i \in DOMAIN bs |-> bs[i]]
    BY Zenon, <1>7
  <2> QED
    BY Zenon, <1>9, <1>10, <1>13, <2>1 DEF KeyOk
<1>15. Place(v, st) = PlaceOf(k)
  <2>1. [i \in 1 .. n |-> Flat(o.elems[i])] = [i \in DOMAIN bs |-> FlatOf(bs[i])]
    BY Zenon, <1>9, <1>10
  <2> QED
    BY Zenon, <1>8, <1>11, <1>13, <2>1 DEF Place, PlaceOf
<1> QED
  BY Zenon, <1>12, <1>14, <1>15

-----------------------------------------------------------------------------
\* An object stays one on a larger heap.
LEMMA ElemMore ==
    ASSUME NEW n \in Nat, NEW m \in Nat, n <= m, NEW o, ObjOk(o, n)
    PROVE  ObjOk(o, m)
<1>1. ASSUME NEW v, ElemOk(v, n) PROVE ElemOk(v, m)
  <2>1. 0 .. n - 1 \subseteq 0 .. m - 1
    OBVIOUS
  <2> QED
    BY Zenon, <1>1, <2>1 DEF ElemOk
<1> QED
  BY Zenon, <1>1 DEF ObjOk

\* An object more.
Grown(hp, hp2, e) ==
    /\ HeapOk(hp2) /\ Len(hp2) = Len(hp) + 1 /\ Len(hp) \in Nat
    /\ hp2[Len(hp) + 1] = e /\ \A i \in 1 .. Len(hp) : hp2[i] = hp[i]

\* The heap with the new object.
LEMMA HeapMore ==
    ASSUME NEW hp, HeapOk(hp), Len(hp) < OBJ_CAP, NEW tag, NEW len, NEW data,
           NEW e, e = Entry(tag, len, data), ObjOk(e, Len(hp) + 1)
    PROVE  Grown(hp, Append(hp, e), e)
<1>0. OBJ_CAP \in Nat
  BY GpuHostAssumption
<1>1. PICK S0 : hp \in Slots(S0)
  BY Zenon DEF HeapOk
<1> DEFINE S == S0 \cup {tag, len, data, Elems0}
           E0 == [tag : S0, len : S0, data : S0, elems : S0]
           E == [tag : S, len : S, data : S, elems : S]
           n == Len(hp)
<1>2. E0 \subseteq E
  OBVIOUS
<1>3. e \in E
  BY Zenon DEF Entry
<1>4. hp \in Seq(E0) /\ Slots(S) = Seq(E)
  BY Zenon, <1>1 DEF Slots
<1> HIDE DEF E0, E
<1>5. hp \in Seq(E)
  BY ONLY Zenon, <1>2, <1>4, SeqMore
<1>6. /\ Append(hp, e) \in Seq(E) /\ Len(Append(hp, e)) = n + 1 /\ Append(hp, e)[n + 1] = e
      /\ \A i \in 1 .. n : Append(hp, e)[i] = hp[i]
      /\ n \in Nat
  BY ONLY <1>3, <1>5
<1>7. ASSUME NEW i \in 1 .. n + 1 PROVE ObjOk(Append(hp, e)[i], n + 1)
  <2>1. CASE i = n + 1
    BY Zenon, <1>6, <2>1
  <2>2. CASE i # n + 1
    <3>1. i \in 1 .. n /\ n + 1 \in Nat /\ n <= n + 1
      BY <1>6, <2>2
    <3>2. ObjOk(hp[i], n)
      BY Zenon, <3>1 DEF HeapOk
    <3>3. Append(hp, e)[i] = hp[i]
      BY Zenon, <1>6, <3>1
    <3> QED
      BY Zenon, <1>6, <3>1, <3>2, <3>3, ElemMore
  <2> QED
    BY Zenon, <2>1, <2>2
<1>8. n + 1 <= OBJ_CAP
  BY <1>0, <1>6
<1> QED
  BY Zenon, <1>4, <1>6, <1>7, <1>8 DEF HeapOk, Grown

\* Elements written to an object.
Written(hp, hp2, k) ==
    /\ HeapOk(hp2) /\ Len(hp2) = Len(hp)
    /\ \A i \in 1 .. Len(hp) : /\ hp2[i].tag = hp[i].tag /\ hp2[i].data = hp[i].data
                               /\ i # k => hp2[i] = hp[i]

\* The heap with the elements written.
LEMMA HeapVec ==
    ASSUME NEW hp, HeapOk(hp), NEW k \in 1 .. Len(hp), NEW n, ShortEnough(n), NEW es,
           \A i \in 1 .. VEC_ELEMS : ElemOk(es[i], Len(hp)),
           NEW hp2, hp2 = [hp EXCEPT ![k].len = n, ![k].elems = es]
    PROVE  Written(hp, hp2, k)
<1>1. PICK S0 : hp \in Slots(S0)
  BY Zenon DEF HeapOk
<1> DEFINE S == S0 \cup {n, es}
           E0 == [tag : S0, len : S0, data : S0, elems : S0]
           E == [tag : S, len : S, data : S, elems : S]
           x == [hp[k] EXCEPT !.len = n, !.elems = es]
<1>2. E0 \subseteq E
  OBVIOUS
<1>4. hp \in Seq(E0) /\ Slots(S) = Seq(E)
  BY Zenon, <1>1 DEF Slots
<1>5. hp \in Seq(E) /\ hp[k] \in E
  <2> HIDE DEF E0, E
  <2> QED
    BY ONLY Zenon, <1>2, <1>4, k \in 1 .. Len(hp), SeqMore
<1>6. hp2 = [hp EXCEPT ![k] = x]
  <2>1. k \in DOMAIN hp
    BY <1>5
  <2> QED
    BY <2>1
<1>7. x \in E /\ x.tag = hp[k].tag /\ x.data = hp[k].data /\ x.len = n /\ x.elems = es
  BY <1>5
<1> HIDE DEF E, x
<1>8. hp2 \in Seq(E) /\ Len(hp2) = Len(hp) /\ \A i \in 1 .. Len(hp) : hp2[i] = IF i = k THEN x ELSE hp[i]
  BY <1>5, <1>6, <1>7
<1>9. ObjOk(x, Len(hp))
  BY Zenon, <1>7 DEF HeapOk, ObjOk
<1>10. \A i \in 1 .. Len(hp) : ObjOk(hp2[i], Len(hp))
  BY Zenon, <1>8, <1>9 DEF HeapOk
<1>11. HeapOk(hp2)
  BY Zenon, <1>4, <1>8, <1>10 DEF HeapOk
<1> QED
  BY Zenon, <1>7, <1>8, <1>11 DEF Written

\* A new object leaves the others as they are; so does one whose length and
\* elements are written that is no vector.
Kept(hp, hp2) ==
    /\ Len(hp) \in Nat /\ Len(hp2) \in Nat /\ Len(hp) <= Len(hp2)
    /\ \A i \in 1 .. Len(hp) : /\ hp2[i].data = hp[i].data
                               /\ hp[i].tag = "VEC_OBJECT" => hp2[i] = hp[i]

\* The first object is there and is no vector.
FirstHeld == Len(heap) > 0 /\ heap[1].tag # "VEC_OBJECT"

\* Objects other than vectors, as the host functions make them.
LEMMA EntryOk ==
    ASSUME NEW tag \in ObjTags \ {"VEC_OBJECT"}, NEW len, NEW data, NEW n
    PROVE  ObjOk(Entry(tag, len, data), n)
<1>1. PlainVal(FALSE_VAL)
  BY DEF PlainVal, FALSE_VAL, ObjTags
<1>2. \A i \in 1 .. VEC_ELEMS : Elems0[i] = FALSE_VAL
  BY Zenon DEF Elems0
<1>3. Entry(tag, len, data).tag = tag /\ Entry(tag, len, data).elems = Elems0
  BY Zenon DEF Entry
<1> QED
  BY Zenon, <1>1, <1>2, <1>3 DEF ObjOk, ElemOk

\* The heap the host prepares before a call.
LEMMA SeedOk ==
    ASSUME TokenGuest, NEW s \in Seeds
    PROVE  HeapOk(s)
<1> DEFINE Es == [1 .. VEC_ELEMS -> Val]
           S == ((ObjTags \cup Nat) \cup (Nat \X Nat)) \cup Es
           E == [tag : S, len : S, data : S, elems : S]
<1>1. s \in Seq(GpuObjEntry) /\ Len(s) <= OBJ_CAP
  BY Zenon, GpuHostAssumption
<1>2. GpuObjEntry \subseteq E
  <2> HIDE DEF Es
  <2> QED
    BY DEF GpuObjEntry, Es
<1> HIDE DEF E
<1>3. s \in Seq(E) /\ \A i \in 1 .. Len(s) : s[i] \in GpuObjEntry
  <2>1. s \in Seq(E)
    BY ONLY Zenon, <1>1, <1>2, SeqMore
  <2>2. GpuObjEntry \subseteq GpuObjEntry
    BY Zenon
  <2> QED
    BY ONLY Zenon, <1>1, <2>1, <2>2, SeqMore
<1>4. ASSUME NEW i \in 1 .. Len(s) PROVE ObjOk(s[i], Len(s))
  <2>1. s[i].tag \in ObjTags
    BY <1>3 DEF GpuObjEntry
  <2>2. s[i].tag # "VEC_OBJECT" /\ s[i].elems = Elems0
    BY Zenon DEF TokenGuest
  <2>3. PlainVal(FALSE_VAL)
    BY DEF PlainVal, FALSE_VAL, ObjTags
  <2>4. \A j \in 1 .. VEC_ELEMS : Elems0[j] = FALSE_VAL
    BY Zenon DEF Elems0
  <2> QED
    BY Zenon, <2>1, <2>2, <2>3, <2>4 DEF ObjOk, ElemOk
<1> QED
  BY Zenon, <1>1, <1>3, <1>4 DEF HeapOk, Slots, E

\* A Val that is no object other than an address may be an element.
LEMMA HeldElem ==
    ASSUME HeapOk(heap), ValsOk, NEW v \in Held, v.tag \in ObjTags => v.tag = "ADDRESS_OBJECT"
    PROVE  ElemOk(v, Len(heap))
<1>1. CASE PlainVal(v)
  BY Zenon, <1>1 DEF ElemOk
<1>2. CASE Names(v)
  <2>1. PICK y, t : v = [tag |-> t, hi |-> y, lo |-> 0] /\ t = heap[v.hi + 1].tag
    BY Zenon, <1>2 DEF Names, MakeObj
  <2>2. v.tag = t /\ v.hi = y
    BY ONLY Zenon, <2>1
  <2>3. v.hi \in 0 .. Len(heap) - 1
    BY Zenon, <1>2 DEF Names
  <2>4. v.hi + 1 \in 1 .. Len(heap)
    <3>1. PICK S : heap \in Slots(S)
      BY Zenon DEF HeapOk
    <3>2. Len(heap) \in Nat
      BY <3>1 DEF Slots
    <3> QED
      BY <2>3, <3>2
  <2>5. heap[v.hi + 1].tag \in ObjTags
    BY Zenon, <2>4 DEF HeapOk, ObjOk
  <2>6. t = "ADDRESS_OBJECT"
    BY Zenon, <2>1, <2>2, <2>5
  <2> QED
    BY Zenon, <2>1, <2>2, <2>3, <2>6 DEF ElemOk
<1> QED
  BY Zenon, <1>1, <1>2, HeldOk

\* vec_new, also when the heap is full and slot 0 is written.
LEMMA VecStep ==
    ASSUME TokenGuest, HeapOk(heap), ValsOk, NEW vs \in Vectors, VecNew(vs)
    PROVE  HeapOk(heap') /\ (FirstHeld => Kept(heap, heap') /\ FirstHeld')
<1> DEFINE n == Len(vs)
           e == Entry("VEC_OBJECT", n, ZERO)
           raw == IF Len(heap) < OBJ_CAP THEN MakeObj(Len(heap), "VEC_OBJECT") ELSE VOID
           hp  == IF Len(heap) < OBJ_CAP THEN Append(heap, e) ELSE heap
           ne  == Least(n, VEC_ELEMS)
           Es(read) == [i \in 1 .. VEC_ELEMS |-> IF i \in read THEN vs[i] ELSE hp[raw.hi + 1].elems[i]]
<1>0. VEC_ELEMS \in Nat /\ OBJ_CAP \in Nat
  BY GpuHostAssumption
<1>1. PICK sh \in VecShapes : vs \in [1 .. Len(sh) -> Held] /\ \A i \in 1 .. Len(sh) : vs[i].tag = sh[i]
  BY Zenon DEF Vectors
<1>2. ShortEnough(Len(sh)) /\ \A i \in 1 .. Len(sh) : sh[i] \in ObjTags => sh[i] = "ADDRESS_OBJECT"
  BY Zenon DEF TokenGuest
<1>3. n = Len(sh) /\ n \in Nat
  <2>1. Len(sh) \in Nat
    BY Zenon, <1>2 DEF ShortEnough
  <2> HIDE DEF n
  <2>2. vs \in Seq(Held) /\ DOMAIN vs = 1 .. Len(sh) /\ Len(vs) \in Nat /\ DOMAIN vs = 1 .. Len(vs)
    BY <1>1, <2>1
  <2> QED
    BY <2>1, <2>2 DEF n
<1>4. \A i \in 1 .. n : ElemOk(vs[i], Len(heap))
  BY Zenon, <1>1, <1>2, <1>3, HeldElem
<1>h. Len(heap) \in Nat
  <2>1. PICK S : heap \in Slots(S)
    BY Zenon DEF HeapOk
  <2> QED
    BY <2>1 DEF Slots
<1>5. PICK read \in UNION {{1 .. k, k + 1 .. ne} : k \in 0 .. ne} :
         heap' = IF raw.hi >= Len(hp) THEN hp
                 ELSE [hp EXCEPT ![raw.hi + 1].len = n, ![raw.hi + 1].elems = Es(read)]
  BY DEF VecNew
<1>6. read \subseteq 1 .. n /\ read \subseteq 1 .. VEC_ELEMS
  <2>1. ne \in Nat /\ ne <= n /\ ne <= VEC_ELEMS
    BY <1>0, <1>3 DEF Least
  <2>2. PICK k \in 0 .. ne : read = 1 .. k \/ read = k + 1 .. ne
    BY Zenon, <1>5
  <2> HIDE DEF ne, n
  <2> QED
    BY ONLY <1>0, <1>3, <2>1, <2>2
<1>7. /\ HeapOk(hp) /\ Len(heap) <= Len(hp) /\ Len(hp) \in Nat /\ raw.hi \in Nat
      /\ \A i \in 1 .. Len(heap) : hp[i] = heap[i]
      /\ raw.hi = 0 \/ raw.hi = Len(heap)
  <2>1. CASE Len(heap) < OBJ_CAP
    <3>1. ObjOk(e, Len(heap) + 1)
      <4>1. PlainVal(FALSE_VAL)
        BY DEF PlainVal, FALSE_VAL, ObjTags
      <4>2. \A i \in 1 .. VEC_ELEMS : Elems0[i] = FALSE_VAL
        BY Zenon DEF Elems0
      <4>3. e.tag = "VEC_OBJECT" /\ e.elems = Elems0 /\ e.data = ZERO /\ e.len = n
        BY Zenon DEF Entry
      <4>4. "VEC_OBJECT" \in ObjTags
        BY Zenon DEF ObjTags
      <4> QED
        BY Zenon, <1>2, <1>3, <4>1, <4>2, <4>3, <4>4 DEF ObjOk, ElemOk
    <3>2. e = Entry("VEC_OBJECT", n, ZERO)
      BY Zenon
    <3>3. Grown(heap, Append(heap, e), e)
      BY Zenon, <2>1, <3>1, <3>2, HeapMore
    <3>4. hp = Append(heap, e) /\ raw = MakeObj(Len(heap), "VEC_OBJECT")
      BY Zenon, <2>1
    <3> HIDE DEF hp, raw, e
    <3>5. raw.hi = Len(heap)
      BY Zenon, <3>4 DEF MakeObj
    <3>6. HeapOk(hp) /\ Len(hp) = Len(heap) + 1 /\ \A i \in 1 .. Len(heap) : hp[i] = heap[i]
      BY Zenon, <3>3, <3>4 DEF Grown
    <3> QED
      BY <1>h, <3>5, <3>6
  <2>2. CASE ~ Len(heap) < OBJ_CAP
    <3>1. hp = heap /\ raw = VOID
      BY Zenon, <2>2
    <3> HIDE DEF hp, raw
    <3>2. raw.hi = 0
      BY Zenon, <3>1 DEF VOID
    <3> QED
      BY <1>h, <3>1, <3>2
  <2> QED
    BY Zenon, <2>1, <2>2
<1>8. ASSUME raw.hi < Len(hp), NEW i \in 1 .. VEC_ELEMS
      PROVE  ElemOk(Es(read)[i], Len(hp))
  <2>1. raw.hi + 1 \in 1 .. Len(hp)
    BY <1>7, <1>8
  <2>2. ElemOk(hp[raw.hi + 1].elems[i], Len(hp))
    BY Zenon, <1>7, <2>1 DEF HeapOk, ObjOk
  <2>3. Es(read)[i] = IF i \in read THEN vs[i] ELSE hp[raw.hi + 1].elems[i]
    BY Zenon
  <2>4. i \in read => ElemOk(vs[i], Len(heap))
    BY Zenon, <1>4, <1>6
  <2>5. ASSUME NEW v, ElemOk(v, Len(heap)) PROVE ElemOk(v, Len(hp))
    <3>1. 0 .. Len(heap) - 1 \subseteq 0 .. Len(hp) - 1
      BY <1>h, <1>7
    <3> QED
      BY Zenon, <2>5, <3>1 DEF ElemOk
  <2> QED
    BY Zenon, <2>2, <2>3, <2>4, <2>5
<1> HIDE DEF Es, hp, raw, n
<1>9. CASE raw.hi >= Len(hp)
  <2>1. heap' = hp
    BY Zenon, <1>5, <1>9
  <2>2. ASSUME FirstHeld PROVE Kept(heap, heap') /\ FirstHeld'
    <3>1. Len(heap) > 0 /\ Len(hp) > 0 /\ 1 \in 1 .. Len(heap)
      BY <1>h, <1>7, <2>2 DEF FirstHeld
    <3> QED
      BY Zenon, <1>h, <1>7, <2>1, <2>2, <3>1 DEF FirstHeld, Kept
  <2> QED
    BY Zenon, <1>7, <2>1, <2>2
<1>10. CASE ~ raw.hi >= Len(hp)
  <2> DEFINE k == raw.hi + 1
  <2>1. raw.hi < Len(hp) /\ k \in 1 .. Len(hp)
    BY <1>7, <1>10
  <2>2. heap' = [hp EXCEPT ![k].len = n, ![k].elems = Es(read)]
    BY Zenon, <1>5, <1>10
  <2>3. ShortEnough(n)
    BY Zenon, <1>2, <1>3
  <2>4. Written(hp, heap', k)
    BY Zenon, <1>7, <1>8, <2>1, <2>2, <2>3, HeapVec
  <2>5. ASSUME FirstHeld PROVE Kept(heap, heap') /\ FirstHeld'
    <3>1. /\ Len(heap) > 0 /\ Len(hp) > 0 /\ 1 \in 1 .. Len(heap)
          /\ 1 .. Len(heap) \subseteq 1 .. Len(hp)
          /\ k = 1 \/ k \notin 1 .. Len(heap)
      BY <1>h, <1>7, <2>5 DEF FirstHeld
    <3> HIDE DEF k
    <3>2. Len(heap') = Len(hp) /\ heap[1].tag # "VEC_OBJECT"
      BY Zenon, <2>4, <2>5 DEF Written, FirstHeld
    <3>3. ASSUME NEW i \in 1 .. Len(heap)
          PROVE  /\ heap'[i].data = heap[i].data /\ heap'[i].tag = heap[i].tag
                 /\ heap[i].tag = "VEC_OBJECT" => heap'[i] = heap[i]
      <4>1. i \in 1 .. Len(hp) /\ hp[i] = heap[i]
        BY Zenon, <1>7, <3>1
      <4>2. heap[i].tag = "VEC_OBJECT" => i # k
        BY Zenon, <3>1, <3>2
      <4> QED
        BY Zenon, <2>4, <4>1, <4>2 DEF Written
    <3> QED
      BY Zenon, <1>h, <1>7, <3>1, <3>2, <3>3 DEF FirstHeld, Kept
  <2> QED
    BY Zenon, <2>4, <2>5 DEF Written
<1> QED
  BY Zenon, <1>9, <1>10

-----------------------------------------------------------------------------
(***************************************************************************)
(* What ties the store to the ledger: entry by entry, the ledger has the   *)
(* contents of the key and of the value.                                   *)
(***************************************************************************)
LedgerOk ==
    /\ IsFiniteSet(DOMAIN ledger) /\ Cardinality(DOMAIN ledger) = Len(store)
    /\ DOMAIN ledger = {PlaceOf(store[i].key) : i \in DOMAIN store}
    /\ \A i \in DOMAIN store : /\ KeyOk(store[i].key)
                               /\ ledger[PlaceOf(store[i].key)] = ContentOf(store[i].val)

\* The inductive invariant.
TokenInv == HeapOk(heap) /\ StoreInv /\ ValsOk /\ LedgerOk

\* The keys and the values of a token contract.
LEMMA HeldKey ==
    ASSUME TokenGuest, HeapOk(heap), ValsOk, NEW key \in Keys
    PROVE  Names(key) /\ key.tag = "VEC_OBJECT"
<1>1. key \in Held /\ key.tag = "VEC_OBJECT"
  BY Zenon DEF Keys, TokenGuest
<1>2. ~ PlainVal(key)
  BY Zenon, <1>1 DEF PlainVal, ObjTags
<1> QED
  BY Zenon, <1>1, <1>2, HeldOk

\* A stored value is a block with the same contents.
LEMMA HeldVal ==
    ASSUME TokenGuest, HeapOk(heap), ValsOk, NEW v \in Stored
    PROVE  BlockOk(Block(v)) /\ Content(v) = ContentOf(Block(v))
<1>1. v \in Held /\ (v.tag \in ObjTags => v.tag = "ADDRESS_OBJECT")
  BY Zenon DEF Stored, TokenGuest
<1>2. Len(heap) \in Nat
  <2>1. PICK S : heap \in Slots(S)
    BY Zenon DEF HeapOk
  <2> QED
    BY <2>1 DEF Slots
<1>3. ElemOk(v, Len(heap))
  BY Zenon, <1>1, HeldElem
<1> QED
  BY Zenon, <1>2, <1>3, ElemFlat

\* What kv_put does to the store: it overwrites, appends or refuses.
Absent(key) == \A i \in 1 .. Len(store) : store[i].key # key
Overwrites(i, key, val) ==
    /\ i \in 1 .. Len(store) /\ store[i].key = key
    /\ Len(store') = Len(store) /\ DOMAIN store' = 1 .. Len(store)
    /\ store'[i].key = key /\ store'[i].val = val
    /\ \A j \in 1 .. Len(store) : j # i => store'[j] = store[j]
Appends(key, val) ==
    /\ Absent(key) /\ Len(store) < STORAGE_CAP
    /\ Len(store') = Len(store) + 1 /\ DOMAIN store' = 1 .. Len(store) + 1
    /\ store'[Len(store) + 1].key = key /\ store'[Len(store) + 1].val = val
    /\ \A j \in 1 .. Len(store) : store'[j] = store[j]
Refuses(key) == Absent(key) /\ Len(store) >= STORAGE_CAP /\ store' = store

\* gpu_kv_put_raw does one of the three.
LEMMA PutShape ==
    ASSUME StoreInv, NEW key, NEW val, store' = KvPut(key, val)
    PROVE  (\E i \in 1 .. Len(store) : Overwrites(i, key, val)) \/ Appends(key, val) \/ Refuses(key)
<1>0. STORAGE_CAP \in Nat
  BY GpuHostAssumption
<1>1. PICK S : store \in Cells(S)
  BY Zenon DEF StoreInv
<1> DEFINE i == KvFind(key)
           e == [key |-> key, val |-> val]
<1>2. Len(store) \in Nat /\ DOMAIN store = 1 .. Len(store)
  BY <1>1 DEF Cells
<1>3. /\ i = 0 => Absent(key)
      /\ i # 0 => i \in 1 .. Len(store) /\ store[i].key = key
  BY Zenon, <1>1, FoundIn DEF Absent
<1>4. store' = IF i # 0 THEN [store EXCEPT ![i].val = val]
               ELSE IF Len(store) >= STORAGE_CAP THEN store ELSE Append(store, e)
  BY Zenon DEF KvPut
<1> HIDE DEF i
<1>5. CASE i # 0
  <2> DEFINE x == [store[i] EXCEPT !.val = val]
  <2>1. store' = [store EXCEPT ![i] = x] /\ i \in 1 .. Len(store)
    BY Zenon, <1>3, <1>4, <1>5
  <2>0. i \in 1 .. Len(store)
    BY Zenon, <2>1
  <2>2. store[i] \in [key : S, val : S]
    <3> DEFINE E == [key : S, val : S]
    <3>1. store \in Seq(E) /\ E \subseteq E
      BY Zenon, <1>1 DEF Cells
    <3> HIDE DEF E
    <3>2. store[i] \in E
      BY ONLY Zenon, <2>0, <3>1, SeqMore
    <3> QED
      BY Zenon, <3>2 DEF E
  <2>3. x.key = store[i].key /\ x.val = val
    BY <2>2
  <2> HIDE DEF x
  <2>4. /\ Len(store') = Len(store) /\ DOMAIN store' = 1 .. Len(store)
        /\ store'[i] = x /\ \A j \in 1 .. Len(store) : j # i => store'[j] = store[j]
    BY <1>1, <1>2, <2>1 DEF Cells
  <2> QED
    BY Zenon, <1>3, <1>5, <2>1, <2>3, <2>4 DEF Overwrites
<1>6. CASE i = 0 /\ Len(store) >= STORAGE_CAP
  BY Zenon, <1>3, <1>4, <1>6 DEF Refuses
<1>7. CASE i = 0 /\ ~ Len(store) >= STORAGE_CAP
  <2>1. store' = Append(store, e) /\ Absent(key)
    BY Zenon, <1>3, <1>4, <1>7
  <2>2. e.key = key /\ e.val = val
    BY Zenon
  <2> HIDE DEF e
  <2>3. /\ Len(store') = Len(store) + 1 /\ DOMAIN store' = 1 .. Len(store) + 1
        /\ store'[Len(store) + 1] = e /\ \A j \in 1 .. Len(store) : store'[j] = store[j]
        /\ Len(store) < STORAGE_CAP
    BY <1>0, <1>1, <1>2, <1>7, <2>1 DEF Cells
  <2> QED
    BY Zenon, <2>1, <2>2, <2>3 DEF Appends
<1> QED
  BY Zenon, <1>5, <1>6, <1>7

\* An entry is in the store exactly when its place is in the ledger.
LEMMA AtPlace ==
    ASSUME TokenInv, NEW k, KeyOk(k)
    PROVE  /\ Absent(k) <=> PlaceOf(k) \notin DOMAIN ledger
           /\ \A i \in 1 .. Len(store) :
                 /\ store[i].key = k => ledger[PlaceOf(k)] = ContentOf(store[i].val)
                 /\ store[i].key = k <=> PlaceOf(store[i].key) = PlaceOf(k)
<1>1. DOMAIN store = 1 .. Len(store)
  <2>1. PICK S : store \in Cells(S)
    BY Zenon DEF TokenInv, StoreInv
  <2> QED
    BY <2>1 DEF Cells
<1>2. ASSUME NEW i \in 1 .. Len(store)
      PROVE  /\ store[i].key = k => ledger[PlaceOf(k)] = ContentOf(store[i].val)
             /\ store[i].key = k <=> PlaceOf(store[i].key) = PlaceOf(k)
             /\ PlaceOf(store[i].key) \in DOMAIN ledger
  BY Zenon, <1>1, PlaceInjective DEF TokenInv, LedgerOk
<1>3. PlaceOf(k) \in DOMAIN ledger => ~ Absent(k)
  BY Zenon, <1>1, <1>2 DEF TokenInv, LedgerOk, Absent
<1>4. ~ Absent(k) => PlaceOf(k) \in DOMAIN ledger
  BY Zenon, <1>2 DEF Absent
<1> QED
  BY Zenon, <1>2, <1>3, <1>4

\* put_contract_data: the store and the ledger change alike.
LEMMA PutStep ==
    ASSUME TokenGuest, TokenInv, NEW key \in Keys, NEW v \in Stored, NEW st \in Stypes,
           PutContractData(key, v, st)
    PROVE  ValsOk' /\ LedgerOk'
<1> DEFINE k == CanonKey(key, st)
           b == Block(v)
           p == PlaceOf(k)
           c == ContentOf(b)
           n == Len(store)
<1>0. HeapOk(heap) /\ ValsOk /\ StoreInv /\ LedgerOk
  BY Zenon DEF TokenInv
<1>1. Names(key) /\ key.tag = "VEC_OBJECT"
  BY Zenon, <1>0, HeldKey
<1>2. HasKey(key) /\ KeyOk(k) /\ Place(key, st) = p
  BY Zenon, <1>0, <1>1, KeyPlace
<1>3. BlockOk(b) /\ Content(v) = c
  BY Zenon, <1>0, HeldVal
<1>4. store' = KvPut(k, b)
  BY Zenon, <1>2 DEF PutContractData
<1>5. ledger' = IF p \in DOMAIN ledger \/ Cardinality(DOMAIN ledger) < STORAGE_CAP
                THEN [q \in DOMAIN ledger \cup {p} |-> IF q = p THEN c ELSE ledger[q]]
                ELSE ledger
  BY Zenon, <1>2, <1>3 DEF PutContractData
<1> HIDE DEF k, b, p, c
<1>6. /\ Absent(k) <=> p \notin DOMAIN ledger
      /\ \A i \in 1 .. n : store[i].key = k <=> PlaceOf(store[i].key) = p
  BY Zenon, <1>2, AtPlace DEF p
<1>7. n \in Nat /\ DOMAIN store = 1 .. n /\ STORAGE_CAP \in Nat
  <2>1. PICK S : store \in Cells(S)
    BY Zenon, <1>0 DEF StoreInv
  <2>2. STORAGE_CAP \in Nat
    BY GpuHostAssumption
  <2> QED
    BY <2>1, <2>2 DEF Cells
<1>8. IsFiniteSet(DOMAIN ledger) /\ Cardinality(DOMAIN ledger) = n
  BY Zenon, <1>0 DEF LedgerOk
<1>9. \A i \in 1 .. n : /\ PlaceOf(store[i].key) \in DOMAIN ledger
                        /\ KeyOk(store[i].key) /\ BlockOk(store[i].val)
                        /\ ledger[PlaceOf(store[i].key)] = ContentOf(store[i].val)
  BY Zenon, <1>0, <1>7 DEF LedgerOk, ValsOk
<1>10. \A q \in DOMAIN ledger : \E i \in 1 .. n : q = PlaceOf(store[i].key)
  BY Zenon, <1>0, <1>7 DEF LedgerOk
<1>11. CASE \E i \in 1 .. n : Overwrites(i, k, b)
  <2>1. PICK i \in 1 .. n : Overwrites(i, k, b)
    BY Zenon, <1>11
  <2>2. p \in DOMAIN ledger
    BY Zenon, <1>6, <2>1 DEF Absent, Overwrites
  <2>3. DOMAIN ledger' = DOMAIN ledger /\ ledger'[p] = c
        /\ \A q \in DOMAIN ledger : q # p => ledger'[q] = ledger[q]
    BY Zenon, <1>5, <2>2
  <2>4. DOMAIN store' = 1 .. n /\ Len(store') = n
    BY Zenon, <2>1 DEF Overwrites
  <2>5. ASSUME NEW j \in 1 .. n
        PROVE  /\ store'[j].key = store[j].key /\ KeyOk(store'[j].key) /\ BlockOk(store'[j].val)
               /\ ledger'[PlaceOf(store'[j].key)] = ContentOf(store'[j].val)
    <3>1. CASE j = i
      <4>1. store'[j].key = k /\ store[j].key = k /\ store'[j].val = b /\ p = PlaceOf(k) /\ c = ContentOf(b)
        BY Zenon, <2>1, <3>1 DEF Overwrites, p, c
      <4> QED
        BY Zenon, <1>2, <1>3, <2>3, <4>1
    <3>2. CASE j # i
      <4>1. store'[j] = store[j] /\ store[i].key = k
        BY Zenon, <2>1, <3>2 DEF Overwrites
      <4>2. store[j].key # k
        BY Zenon, <1>0, <1>7, <3>2, <4>1 DEF StoreInv, KeysUnique
      <4> QED
        BY Zenon, <1>6, <1>9, <2>3, <4>1, <4>2
    <3> QED
      BY Zenon, <3>1, <3>2
  <2>6. DOMAIN ledger' = {PlaceOf(store'[j].key) : j \in 1 .. n}
    <3>1. \A j \in 1 .. n : store'[j].key = store[j].key
      BY Zenon, <2>5
    <3>2. \A q \in DOMAIN ledger' : \E j \in 1 .. n : q = PlaceOf(store'[j].key)
      BY Zenon, <1>10, <2>3, <3>1
    <3>3. \A j \in 1 .. n : PlaceOf(store'[j].key) \in DOMAIN ledger'
      BY Zenon, <1>9, <2>3, <3>1
    <3> QED
      BY ONLY Zenon, <3>2, <3>3
  <2>7. ValsOk'
    BY Zenon, <2>4, <2>5 DEF ValsOk
  <2> QED
    BY Zenon, <1>8, <2>3, <2>4, <2>5, <2>6, <2>7 DEF LedgerOk
<1>12. CASE Appends(k, b)
  <2>1. p \notin DOMAIN ledger /\ n < STORAGE_CAP
    BY Zenon, <1>6, <1>12 DEF Appends
  <2>2. DOMAIN ledger' = DOMAIN ledger \cup {p} /\ ledger'[p] = c
        /\ \A q \in DOMAIN ledger : ledger'[q] = ledger[q]
    BY Zenon, <1>5, <1>8, <2>1
  <2>3. IsFiniteSet(DOMAIN ledger') /\ Cardinality(DOMAIN ledger') = n + 1
    BY Zenon, <1>8, <2>1, <2>2, FS_AddElement
  <2>4. DOMAIN store' = 1 .. n + 1 /\ Len(store') = n + 1
    BY Zenon, <1>12 DEF Appends
  <2>n. \A j : j \in 1 .. n + 1 <=> j = n + 1 \/ j \in 1 .. n
    BY <1>7
  <2>5. ASSUME NEW j \in 1 .. n + 1
        PROVE  /\ KeyOk(store'[j].key) /\ BlockOk(store'[j].val)
               /\ ledger'[PlaceOf(store'[j].key)] = ContentOf(store'[j].val)
    <3>1. CASE j = n + 1
      <4>1. store'[j].key = k /\ store'[j].val = b /\ p = PlaceOf(k) /\ c = ContentOf(b)
        BY Zenon, <1>12, <3>1 DEF Appends, p, c
      <4> QED
        BY Zenon, <1>2, <1>3, <2>2, <4>1
    <3>2. CASE j \in 1 .. n
      <4>1. store'[j] = store[j]
        BY Zenon, <1>12, <3>2 DEF Appends
      <4> QED
        BY Zenon, <1>9, <2>2, <3>2, <4>1
    <3> QED
      BY Zenon, <2>n, <3>1, <3>2
  <2>6. ASSUME NEW q PROVE q \in DOMAIN ledger' <=> \E j \in 1 .. n + 1 : q = PlaceOf(store'[j].key)
    <3>1. store'[n + 1].key = k /\ \A j \in 1 .. n : store'[j] = store[j]
      BY Zenon, <1>12 DEF Appends
    <3>2. p = PlaceOf(k)
      BY Zenon DEF p
    <3>3. \A j \in 1 .. n : store'[j].key = store[j].key
      BY Zenon, <3>1
    <3>4. ASSUME q \in DOMAIN ledger' PROVE \E j \in 1 .. n + 1 : q = PlaceOf(store'[j].key)
      <4>1. CASE q = p
        <5>1. n + 1 \in 1 .. n + 1
          BY Zenon, <2>n
        <5> QED
          BY Zenon, <3>1, <3>2, <4>1, <5>1
      <4>2. CASE q \in DOMAIN ledger
        <5>1. PICK j \in 1 .. n : q = PlaceOf(store[j].key)
          BY Zenon, <1>10, <4>2
        <5> QED
          BY Zenon, <2>n, <3>3, <5>1
      <4> QED
        BY Zenon, <2>2, <3>4, <4>1, <4>2
    <3>5. ASSUME NEW j \in 1 .. n + 1 PROVE PlaceOf(store'[j].key) \in DOMAIN ledger'
      <4>1. CASE j = n + 1
        BY Zenon, <2>2, <3>1, <3>2, <4>1
      <4>2. CASE j \in 1 .. n
        BY Zenon, <1>9, <2>2, <3>3, <4>2
      <4> QED
        BY Zenon, <2>n, <4>1, <4>2
    <3> QED
      BY Zenon, <3>4, <3>5
  <2>7. ValsOk'
    BY Zenon, <2>4, <2>5 DEF ValsOk
  <2>8. DOMAIN ledger' = {PlaceOf(store'[j].key) : j \in 1 .. n + 1}
    BY Zenon, <2>6
  <2> QED
    BY Zenon, <2>3, <2>4, <2>5, <2>7, <2>8 DEF LedgerOk
<1>13. CASE Refuses(k)
  <2>1. p \notin DOMAIN ledger /\ n >= STORAGE_CAP /\ store' = store
    BY Zenon, <1>6, <1>13 DEF Refuses
  <2>2. ~ n < STORAGE_CAP
    BY <1>7, <2>1
  <2>3. ledger' = ledger
    BY Zenon, <1>5, <1>8, <2>1, <2>2
  <2> QED
    BY Zenon, <1>0, <2>1, <2>3 DEF LedgerOk, ValsOk
<1> QED
  BY Zenon, <1>0, <1>4, <1>11, <1>12, <1>13, PutShape

-----------------------------------------------------------------------------
\* Contents and answers on a given heap.
FlatIn(hp, v) ==
    LET obj == v.tag \in ObjTags /\ v.hi < Len(hp)
    IN  [tag |-> v.tag, lo |-> v.lo, obj |-> obj,
         hi   |-> IF obj THEN 0 ELSE v.hi,
         data |-> IF obj THEN hp[v.hi + 1].data ELSE ZERO]
ContentIn(hp, v) ==
    [flat  |-> FlatIn(hp, v),
     elems |-> IF v.tag = "VEC_OBJECT" /\ v.hi < Len(hp)
               THEN [i \in 1 .. Least(hp[v.hi + 1].len, VEC_ELEMS) |-> FlatIn(hp, hp[v.hi + 1].elems[i])]
               ELSE <<>>]
HonestIn(hp, m, ld) ==
    LET p == <<m.st, ContentIn(hp, m.key)>>
    IN  /\ m.fn = "HAS" => (m.result = TRUE_VAL <=> p \in DOMAIN ld)
        /\ m.fn = "GET" =>
              IF p \notin DOMAIN ld THEN m.result = VOID
              ELSE \/ ContentIn(hp, m.result) = ld[p]
                   \/ /\ m.result = VOID /\ Len(hp) = OBJ_CAP
                      /\ ld[p].flat.tag = "ADDRESS_OBJECT"

\* Contents and answers are those on the current heap, before a step and after.
LEMMA OnHeap ==
    /\ \A v : Content(v) = ContentIn(heap, v)
    /\ HonestAnswers <=> HonestIn(heap, mb, ledger)
    /\ HonestAnswers' <=> HonestIn(heap', mb', ledger')
  BY Zenon DEF Content, ContentIn, Flat, FlatIn, InHeap, Obj, HonestAnswers, HonestIn, Place

\* A new object keeps the others.
LEMMA GrownKept ==
    ASSUME NEW hp, NEW hp2, NEW e, Grown(hp, hp2, e)
    PROVE  Kept(hp, hp2)
<1>1. Len(hp) \in Nat /\ Len(hp2) = Len(hp) + 1
  BY Zenon DEF Grown
<1>2. Len(hp2) \in Nat /\ Len(hp) <= Len(hp2)
  BY <1>1
<1> QED
  BY Zenon, <1>1, <1>2 DEF Grown, Kept

\* A Val that is kept means the same, a vector apart.
LEMMA FlatKept ==
    ASSUME NEW hp, NEW hp2, Kept(hp, hp2), NEW v, PlainVal(v) \/ v.hi \in 0 .. Len(hp) - 1
    PROVE  FlatIn(hp2, v) = FlatIn(hp, v)
<1>1. CASE PlainVal(v)
  <2>1. v.tag \notin ObjTags
    BY Zenon, <1>1 DEF PlainVal
  <2> QED
    BY Zenon, <2>1 DEF FlatIn
<1>2. CASE v.hi \in 0 .. Len(hp) - 1
  <2>1. Len(hp) \in Nat /\ Len(hp2) \in Nat /\ Len(hp) <= Len(hp2)
    BY Zenon DEF Kept
  <2>2. v.hi < Len(hp) /\ v.hi < Len(hp2) /\ v.hi + 1 \in 1 .. Len(hp)
    BY <1>2, <2>1
  <2>3. hp2[v.hi + 1].data = hp[v.hi + 1].data
    BY Zenon, <2>2 DEF Kept
  <2> QED
    BY Zenon, <2>2, <2>3 DEF FlatIn
<1> QED
  BY Zenon, <1>1, <1>2

\* So does a vector, with its elements.
LEMMA ContentKept ==
    ASSUME NEW hp, NEW hp2, HeapOk(hp), Kept(hp, hp2), NEW v,
           PlainVal(v) \/ v.hi \in 0 .. Len(hp) - 1,
           v.tag = "VEC_OBJECT" => hp[v.hi + 1].tag = "VEC_OBJECT"
    PROVE  ContentIn(hp2, v) = ContentIn(hp, v)
<1>0. VEC_ELEMS \in Nat
  BY GpuHostAssumption
<1>1. FlatIn(hp2, v) = FlatIn(hp, v)
  BY Zenon, FlatKept
<1>2. CASE v.tag # "VEC_OBJECT"
  BY Zenon, <1>1, <1>2 DEF ContentIn
<1>3. CASE v.tag = "VEC_OBJECT"
  <2>0. ~ PlainVal(v)
    BY Zenon, <1>3 DEF PlainVal, ObjTags
  <2>1. Len(hp) \in Nat /\ Len(hp2) \in Nat /\ Len(hp) <= Len(hp2)
    BY Zenon DEF Kept
  <2>2. v.hi < Len(hp) /\ v.hi < Len(hp2) /\ v.hi + 1 \in 1 .. Len(hp)
    BY <2>0, <2>1
  <2> DEFINE o == hp[v.hi + 1]
             n == Least(o.len, VEC_ELEMS)
  <2>o. hp[v.hi + 1].tag = "VEC_OBJECT"
    BY Zenon, <1>3
  <2>e. hp2[v.hi + 1] = o
    BY Zenon, <2>o, <2>2 DEF Kept
  <2>3. hp2[v.hi + 1] = o /\ ObjOk(o, Len(hp))
    BY Zenon, <2>e, <2>2 DEF HeapOk
  <2> HIDE DEF o
  <2>4. ASSUME NEW i \in 1 .. VEC_ELEMS PROVE FlatIn(hp2, o.elems[i]) = FlatIn(hp, o.elems[i])
    <3>1. ElemOk(o.elems[i], Len(hp))
      BY Zenon, <2>3 DEF ObjOk
    <3>2. PlainVal(o.elems[i]) \/ o.elems[i].hi \in 0 .. Len(hp) - 1
      BY Zenon, <3>1 DEF ElemOk
    <3> QED
      BY Zenon, <3>2, FlatKept
  <2>m. o.len \in Nat
    BY Zenon, <1>3, <2>3 DEF ObjOk, ShortEnough, o
  <2>5. 1 .. n \subseteq 1 .. VEC_ELEMS
    <3> DEFINE m == o.len
    <3>1. n = IF m < VEC_ELEMS THEN m ELSE VEC_ELEMS
      BY Zenon DEF Least
    <3>2. m \in Nat
      BY Zenon, <2>m
    <3> HIDE DEF m, n
    <3> QED
      BY ONLY <1>0, <3>1, <3>2
  <2> HIDE DEF n
  <2>6. [i \in 1 .. n |-> FlatIn(hp2, o.elems[i])] = [i \in 1 .. n |-> FlatIn(hp, o.elems[i])]
    BY Zenon, <2>4, <2>5
  <2> QED
    BY Zenon, <1>1, <1>3, <2>2, <2>3, <2>6 DEF ContentIn, n, o
<1> QED
  BY Zenon, <1>2, <1>3

-----------------------------------------------------------------------------
\* obj_alloc: a full heap, or one object more.
Answered(fn, key, st, v) == [fn |-> fn, key |-> key, st |-> st, result |-> v]

\* What obj_alloc leaves and answers.
LEMMA AllocStep ==
    ASSUME HeapOk(heap), NEW tag \in ObjTags \ {"VEC_OBJECT"}, NEW len, NEW data,
           NEW fn, NEW key, NEW st, AllocAnswer(fn, key, st, Entry(tag, len, data))
    PROVE  /\ HeapOk(heap')
           /\ \/ /\ Len(heap) = OBJ_CAP /\ heap' = heap
                 /\ mb' = Answered(fn, key, st, VOID)
              \/ /\ Grown(heap, heap', Entry(tag, len, data))
                 /\ mb' = Answered(fn, key, st, MakeObj(Len(heap), tag))
<1> DEFINE e == Entry(tag, len, data)
<1>1. Len(heap) \in Nat /\ OBJ_CAP \in Nat /\ Len(heap) <= OBJ_CAP
  <2>1. PICK S : heap \in Slots(S)
    BY Zenon DEF HeapOk
  <2>2. OBJ_CAP \in Nat
    BY GpuHostAssumption
  <2>3. Len(heap) <= OBJ_CAP
    BY Zenon DEF HeapOk
  <2> QED
    BY <2>1, <2>2, <2>3 DEF Slots
<1>2. CASE Len(heap) >= OBJ_CAP
  <2>1. Len(heap) = OBJ_CAP
    BY <1>1, <1>2
  <2>2. heap' = heap /\ mb' = Answered(fn, key, st, VOID)
    BY Zenon, <1>2 DEF AllocAnswer, Answer, Answered
  <2> QED
    BY Zenon, <2>1, <2>2
<1>3. CASE ~ Len(heap) >= OBJ_CAP
  <2>1. Len(heap) < OBJ_CAP
    BY <1>1, <1>3
  <2>2. e.tag = tag /\ ObjOk(e, Len(heap) + 1)
    BY Zenon, EntryOk DEF Entry
  <2>3. heap' = Append(heap, e) /\ mb' = Answered(fn, key, st, MakeObj(Len(heap), e.tag))
    BY Zenon, <1>3 DEF AllocAnswer, Answer, Answered
  <2>4. Grown(heap, Append(heap, e), e)
    BY Zenon, <2>1, <2>2, HeapMore
  <2> HIDE DEF e
  <2>5. Grown(heap, heap', e) /\ HeapOk(heap')
    BY Zenon, <2>3, <2>4 DEF Grown
  <2> QED
    BY Zenon, <2>2, <2>3, <2>5 DEF e
<1> QED
  BY Zenon, <1>2, <1>3

\* kv_find on a key of the contract, told in terms of the ledger.
Found(i, key, p) ==
    /\ HasKey(key) /\ Names(key) /\ key.tag = "VEC_OBJECT"
    /\ i = 0 <=> p \notin DOMAIN ledger
    /\ i # 0 => BlockOk(store[i].val) /\ ledger[p] = ContentOf(store[i].val)

\* kv_find agrees with the ledger.
LEMMA Lookup ==
    ASSUME TokenGuest, TokenInv, NEW key \in Keys, NEW st, NEW i, i = KvFind(CanonKey(key, st))
    PROVE  Found(i, key, <<st, ContentIn(heap, key)>>)
<1> DEFINE k == CanonKey(key, st)
<1>0. HeapOk(heap) /\ ValsOk /\ StoreInv
  BY Zenon DEF TokenInv
<1>1. Names(key) /\ key.tag = "VEC_OBJECT"
  BY Zenon, <1>0, HeldKey
<1>2. HasKey(key) /\ KeyOk(k) /\ Place(key, st) = PlaceOf(k)
  BY Zenon, <1>0, <1>1, KeyPlace
<1>3. PlaceOf(k) = <<st, ContentIn(heap, key)>>
  BY Zenon, <1>2, OnHeap DEF Place
<1>4. PICK S : store \in Cells(S)
  BY Zenon, <1>0 DEF StoreInv
<1> HIDE DEF k
<1>5. /\ i = 0 => Absent(k)
      /\ i # 0 => i \in 1 .. Len(store) /\ store[i].key = k
  BY Zenon, <1>4, FoundIn DEF Absent, k
<1>6. i # 0 => ~ Absent(k)
  BY Zenon, <1>5 DEF Absent
<1>7. DOMAIN store = 1 .. Len(store)
  BY <1>4 DEF Cells
<1>8. i # 0 => BlockOk(store[i].val)
  BY Zenon, <1>0, <1>5, <1>7 DEF ValsOk
<1>9. Absent(k) <=> PlaceOf(k) \notin DOMAIN ledger
  BY Zenon, <1>2, AtPlace
<1>10. i # 0 => ledger[PlaceOf(k)] = ContentOf(store[i].val)
  BY Zenon, <1>2, <1>5, AtPlace
<1> QED
  BY Zenon, <1>1, <1>2, <1>3, <1>5, <1>6, <1>8, <1>9, <1>10 DEF Found

\* has_contract_data answers what the ledger says.
LEMMA HasStep ==
    ASSUME TokenGuest, TokenInv, NEW key \in Keys, NEW st, HasContractData(key, st)
    PROVE  HonestAnswers'
<1> DEFINE i == KvFind(CanonKey(key, st))
           p == <<st, ContentIn(heap, key)>>
           r == IF i # 0 THEN TRUE_VAL ELSE FALSE_VAL
<1>0. i = KvFind(CanonKey(key, st))
  BY Zenon
<1> HIDE DEF i
<1>1. HasKey(key) /\ (i = 0 <=> p \notin DOMAIN ledger)
  <2>1. Found(i, key, p)
    BY Zenon, <1>0, Lookup
  <2> QED
    BY Zenon, <2>1 DEF Found
<1> USE DEF i
<1>2. mb' = Answered("HAS", key, st, r) /\ heap' = heap /\ ledger' = ledger
  BY Zenon, <1>1 DEF HasContractData, Answer, Answered
<1>3. TRUE_VAL # FALSE_VAL
  <2>1. TRUE_VAL.tag = "TRUE" /\ FALSE_VAL.tag = "FALSE"
    BY Zenon DEF TRUE_VAL, FALSE_VAL
  <2> QED
    BY <2>1
<1> HIDE DEF i
<1>4. r = TRUE_VAL <=> p \in DOMAIN ledger
  BY Zenon, <1>1, <1>3
<1> HIDE DEF r
<1>5. mb'.fn = "HAS" /\ mb'.key = key /\ mb'.st = st /\ mb'.result = r
  BY Zenon, <1>2 DEF Answered
<1>6. "HAS" # "GET"
  OBVIOUS
<1>7. HonestIn(heap', mb', ledger')
  BY Zenon, <1>2, <1>4, <1>5, <1>6 DEF HonestIn
<1> QED
  BY Zenon, <1>7, OnHeap

\* get_contract_data answers what the ledger says, or Void when an address finds the heap full.
LEMMA GetStep ==
    ASSUME TokenGuest, TokenInv, NEW key \in Keys, NEW st, GetContractData(key, st)
    PROVE  HeapOk(heap') /\ HonestAnswers'
<1> DEFINE i == KvFind(CanonKey(key, st))
           b == store[i].val
           p == <<st, ContentIn(heap, key)>>
           e == Entry("ADDRESS_OBJECT", 32, b[2])
           r == MakeObj(Len(heap), "ADDRESS_OBJECT")
<1>0. i = KvFind(CanonKey(key, st)) /\ HeapOk(heap)
  BY Zenon DEF TokenInv
<1> HIDE DEF i
<1>1. /\ HasKey(key) /\ Names(key) /\ key.tag = "VEC_OBJECT"
      /\ i = 0 <=> p \notin DOMAIN ledger
      /\ i # 0 => BlockOk(b) /\ ledger[p] = ContentOf(b)
  <2>1. Found(i, key, p)
    BY Zenon, <1>0, Lookup
  <2> QED
    BY Zenon, <2>1 DEF Found
<1>2. /\ ledger' = ledger
      /\ IF i = 0 THEN Answer("GET", key, st, VOID) /\ UNCHANGED heap
         ELSE IF b[1] = "key" THEN AllocAnswer("GET", key, st, e)
         ELSE Answer("GET", key, st, b[2]) /\ UNCHANGED heap
  BY Zenon, <1>0, <1>1 DEF GetContractData
<1>3. "GET" # "HAS"
  OBVIOUS
<1> HIDE DEF b
<1>4. ASSUME NEW v, mb' = Answered("GET", key, st, v), <<st, ContentIn(heap', key)>> = p,
             IF p \notin DOMAIN ledger THEN v = VOID
             ELSE \/ ContentIn(heap', v) = ledger[p]
                  \/ v = VOID /\ Len(heap') = OBJ_CAP /\ ledger[p].flat.tag = "ADDRESS_OBJECT"
      PROVE  HonestAnswers'
  <2> HIDE DEF p
  <2>1. mb'.fn = "GET" /\ mb'.key = key /\ mb'.st = st /\ mb'.result = v
    BY Zenon, <1>4 DEF Answered
  <2>2. HonestIn(heap', mb', ledger')
    BY Zenon, <1>2, <1>3, <1>4, <2>1 DEF HonestIn
  <2> QED
    BY Zenon, <2>2, OnHeap
<1>5. CASE i = 0
  <2>1. mb' = Answered("GET", key, st, VOID) /\ heap' = heap /\ p \notin DOMAIN ledger
    BY Zenon, <1>1, <1>2, <1>5 DEF Answer, Answered
  <2> QED
    BY Zenon, <1>0, <1>4, <2>1
<1>6. CASE i # 0 /\ b[1] = "key"
  <2>1. AllocAnswer("GET", key, st, e)
    BY Zenon, <1>2, <1>6
  <2>t. "ADDRESS_OBJECT" \in ObjTags \ {"VEC_OBJECT"}
    BY DEF ObjTags
  <2>2. /\ HeapOk(heap')
        /\ \/ Len(heap) = OBJ_CAP /\ heap' = heap /\ mb' = Answered("GET", key, st, VOID)
           \/ Grown(heap, heap', e) /\ mb' = Answered("GET", key, st, r)
    BY Zenon, <1>0, <2>1, <2>t, AllocStep
  <2>3. ledger[p] = ContentOf(b) /\ ContentOf(b).flat = FlatAddr(b[2]) /\ ContentOf(b).elems = <<>>
    BY Zenon, <1>1, <1>6 DEF ContentOf, FlatOf
  <2>4. CASE Len(heap) = OBJ_CAP /\ heap' = heap /\ mb' = Answered("GET", key, st, VOID)
    <3>1. ledger[p].flat.tag = "ADDRESS_OBJECT"
      <4>1. ledger[p].flat = FlatAddr(b[2])
        BY Zenon, <2>3
      <4>2. FlatAddr(b[2]).tag = "ADDRESS_OBJECT"
        BY Zenon DEF FlatAddr
      <4> QED
        BY Zenon, <4>1, <4>2
    <3> QED
      BY Zenon, <1>1, <1>4, <1>6, <2>2, <2>4, <3>1
  <2>5. CASE Grown(heap, heap', e) /\ mb' = Answered("GET", key, st, r)
    <3>1. ContentIn(heap', key) = ContentIn(heap, key)
      <4>1. key.hi \in 0 .. Len(heap) - 1 /\ key = MakeObj(key.hi, heap[key.hi + 1].tag)
        BY Zenon, <1>1 DEF Names
      <4> DEFINE h == key.hi
                 t == heap[h + 1].tag
      <4>2. key = [tag |-> t, hi |-> h, lo |-> 0]
        BY Zenon, <4>1 DEF MakeObj
      <4>3. key.tag = t
        <5> HIDE DEF h, t
        <5> QED
          BY ONLY Zenon, <4>2
      <4>4. heap[key.hi + 1].tag = "VEC_OBJECT"
        BY Zenon, <1>1, <4>3
      <4> HIDE DEF e
      <4>5. Kept(heap, heap')
        BY Zenon, <2>5, GrownKept
      <4> QED
        BY ONLY Zenon, <1>0, <4>1, <4>4, <4>5, ContentKept
    <3>2. Len(heap) \in Nat /\ Len(heap') = Len(heap) + 1 /\ heap'[Len(heap) + 1] = e
      BY Zenon, <2>5 DEF Grown
    <3>3. r.hi = Len(heap) /\ r.tag = "ADDRESS_OBJECT" /\ r.lo = 0 /\ e.data = b[2]
      BY Zenon DEF MakeObj, Entry
    <3> HIDE DEF r, e
    <3>4. r.hi < Len(heap') /\ r.tag # "VEC_OBJECT"
      BY <3>2, <3>3
    <3>5. r.tag \in ObjTags
      BY Zenon, <2>t, <3>3
    <3>6. FlatIn(heap', r) = FlatAddr(b[2])
      BY Zenon, <3>2, <3>3, <3>4, <3>5 DEF FlatIn, FlatAddr
    <3>7. ContentIn(heap', r) = ContentOf(b)
      BY Zenon, <1>6, <3>4, <3>6 DEF ContentIn, ContentOf, FlatOf
    <3> QED
      BY Zenon, <1>1, <1>4, <1>6, <2>2, <2>3, <2>5, <3>1, <3>7
  <2> QED
    BY Zenon, <2>2, <2>4, <2>5
<1>7. CASE i # 0 /\ b[1] # "key"
  <2>1. mb' = Answered("GET", key, st, b[2]) /\ heap' = heap
    BY Zenon, <1>2, <1>7 DEF Answer, Answered
  <2>2. BlockOk(b) /\ ledger[p] = ContentOf(b)
    BY Zenon, <1>1, <1>7
  <2>3. b = <<"val", b[2]>> /\ PlainVal(b[2])
    <3>1. b # <<"key", b[2]>>
      <4>1. ASSUME b = <<"key", b[2]>> PROVE FALSE
        <5>1. PICK y : b = <<"key", y>>
          BY Zenon, <4>1
        <5>2. b[1] = "key"
          BY ONLY <5>1
        <5> QED
          BY Zenon, <1>7, <5>2
      <4> QED
        BY Zenon, <4>1
    <3> QED
      BY Zenon, <2>2, <3>1 DEF BlockOk
  <2>4. b[2].tag # "ADDRESS_OBJECT" /\ ElemOk(b[2], Len(heap))
    BY Zenon, <2>3 DEF PlainVal, ElemOk, ObjTags
  <2>5. Len(heap) \in Nat
    <3>1. PICK S : heap \in Slots(S)
      BY Zenon, <1>0 DEF HeapOk
    <3> QED
      BY <3>1 DEF Slots
  <2>6. Block(b[2]) = b
    BY Zenon, <2>3, <2>4 DEF Block
  <2>7. Content(b[2]) = ContentOf(b)
    BY Zenon, <2>4, <2>5, <2>6, ElemFlat
  <2>8. ContentIn(heap', b[2]) = ledger[p]
    BY Zenon, <2>1, <2>2, <2>7, OnHeap
  <2> QED
    BY Zenon, <1>0, <1>1, <1>4, <1>7, <2>1, <2>8
<1> QED
  BY Zenon, <1>5, <1>6, <1>7

\* The answers about no key, and the seeds of a call.
LEMMA OtherAnswer ==
    ASSUME mb'.fn # "HAS", mb'.fn # "GET"
    PROVE  HonestAnswers'
<1>1. HonestIn(heap', mb', ledger')
  BY Zenon DEF HonestIn
<1> QED
  BY Zenon, <1>1, OnHeap

(***************************************************************************)
(* The inductive invariant: the heap, the store and the ledger keep        *)
(* describing the same contents, and the answer in the mailbox is honest.  *)
(***************************************************************************)
THEOREM TokenInvariant ==
    ASSUME TokenGuest
    PROVE  Spec => [](TokenInv /\ HonestAnswers)
<1>1. Init => TokenInv /\ HonestAnswers
  <2> SUFFICES ASSUME Init PROVE TokenInv /\ HonestAnswers
    OBVIOUS
  <2>1. heap \in Seeds /\ store = <<>> /\ ledger = <<>> /\ mb = Quiet
    BY Zenon DEF Init
  <2>2. HeapOk(heap)
    BY Zenon, <2>1, SeedOk
  <2>3. DOMAIN store = {} /\ DOMAIN ledger = {} /\ Len(store) = 0 /\ store \in Cells({})
    BY <2>1 DEF Cells
  <2>4. STORAGE_CAP \in Nat
    BY GpuHostAssumption
  <2>5. StoreInv
    BY <2>3, <2>4 DEF StoreInv, KeysUnique
  <2>6. ValsOk /\ LedgerOk
    <3>1. IsFiniteSet({}) /\ Cardinality({}) = 0
      BY Zenon, FS_EmptySet
    <3>2. DOMAIN ledger = {PlaceOf(store[i].key) : i \in DOMAIN store}
      BY Zenon, <2>3
    <3> QED
      BY Zenon, <2>3, <3>1, <3>2 DEF ValsOk, LedgerOk
  <2>7. mb.fn = "NONE"
    BY Zenon, <2>1 DEF Quiet
  <2>8. HonestAnswers
    BY <2>7 DEF HonestAnswers
  <2> QED
    BY Zenon, <2>2, <2>5, <2>6, <2>8 DEF TokenInv
<1>2. TokenInv /\ HonestAnswers /\ [Next]_vars /\ StoreInv' => (TokenInv /\ HonestAnswers)'
  <2> SUFFICES ASSUME TokenInv, HonestAnswers, [Next]_vars, StoreInv'
               PROVE  TokenInv' /\ HonestAnswers'
    BY Zenon
  <2>0. HeapOk(heap) /\ ValsOk /\ LedgerOk
    BY Zenon DEF TokenInv
  <2>a. ASSUME UNCHANGED <<store, ledger>> PROVE ValsOk' /\ LedgerOk'
    BY Zenon, <2>0, <2>a DEF ValsOk, LedgerOk
  <2>b. ASSUME HeapOk(heap'), ValsOk', LedgerOk' PROVE TokenInv'
    BY Zenon, <2>b DEF TokenInv, HeapOk
  <2>o. "OTHER" # "HAS" /\ "OTHER" # "GET" /\ "CALL" # "HAS" /\ "CALL" # "GET" /\ "NONE" # "HAS" /\ "NONE" # "GET"
    OBVIOUS
  <2>c. ASSUME NEW v, Told(v) PROVE HonestAnswers'
    <3>1. mb'.fn = "OTHER"
      BY Zenon, <2>c DEF Told, Answer
    <3> QED
      BY Zenon, <2>o, <3>1, OtherAnswer
  <2>d. ASSUME NEW tag \in ObjTags \ {"VEC_OBJECT"}, NEW len, NEW data, Alloc(Entry(tag, len, data))
        PROVE  TokenInv' /\ HonestAnswers'
    <3>1. AllocAnswer("OTHER", VOID, 0, Entry(tag, len, data)) /\ UNCHANGED <<store, ledger>>
      BY Zenon, <2>d DEF Alloc
    <3>2. HeapOk(heap')
      BY Zenon, <2>0, <3>1, AllocStep
    <3>v. PICK v : mb' = Answered("OTHER", VOID, 0, v)
      BY Zenon, <2>0, <3>1, AllocStep
    <3>3. mb'.fn = "OTHER"
      BY Zenon, <3>v DEF Answered
    <3> QED
      BY Zenon, <2>a, <2>b, <2>o, <3>1, <3>2, <3>3, OtherAnswer
  <2>e. ASSUME UNCHANGED <<heap, store, ledger>> PROVE TokenInv'
    BY Zenon, <2>0, <2>a, <2>b, <2>e
  <2>t. {"STRING_OBJECT", "SYMBOL_OBJECT", "MAP_OBJECT", "ADDRESS_OBJECT", "I128_OBJECT"}
           \subseteq ObjTags \ {"VEC_OBJECT"}
    BY DEF ObjTags
  <2>1. ASSUME NEW s \in Seeds, NewCall(s) PROVE TokenInv' /\ HonestAnswers'
    <3>1. heap' = heap \/ heap' = s
      BY Zenon, <2>1 DEF NewCall
    <3>2. HeapOk(heap')
      BY Zenon, <2>0, <3>1, SeedOk
    <3>3. mb'.fn = "CALL" /\ UNCHANGED <<store, ledger>>
      BY Zenon, <2>1 DEF NewCall, Answer
    <3> QED
      BY Zenon, <2>a, <2>b, <2>o, <3>2, <3>3, OtherAnswer
  <2>2. ASSUME NEW tag \in {"STRING_OBJECT", "SYMBOL_OBJECT"}, NEW t \in Texts, TextNew(tag, t)
        PROVE  TokenInv' /\ HonestAnswers'
    BY Zenon, <2>d, <2>t, <2>2 DEF TextNew
  <2>3. ASSUME NEW vs \in Vectors, VecNew(vs) PROVE TokenInv' /\ HonestAnswers'
    <3>1. HeapOk(heap')
      BY Zenon, <2>0, <2>3, VecStep
    <3>2. UNCHANGED <<store, ledger>> /\ \E v : Told(v)
      BY Zenon, <2>3 DEF VecNew
    <3> QED
      BY Zenon, <2>a, <2>b, <2>c, <3>1, <3>2
  <2>4. ASSUME MapNew \/ CurAddr \/ \E hi, lo \in Words : FromI128(hi, lo)
        PROVE  TokenInv' /\ HonestAnswers'
    BY Zenon, <2>d, <2>t, <2>4 DEF MapNew, CurAddr, FromI128
  <2>5. ASSUME (\E v \in Held, half \in 1 .. 2 : ToI128(v, half)) \/ NoOp \/ LedgerSeq
        PROVE  TokenInv' /\ HonestAnswers'
    <3>1. UNCHANGED <<heap, store, ledger>> /\ \E v : Told(v)
      BY Zenon, <2>5 DEF ToI128, NoOp, LedgerSeq
    <3> QED
      BY Zenon, <2>c, <2>e, <3>1
  <2>6. ASSUME NEW key \in Keys, NEW st \in Stypes, HasContractData(key, st)
        PROVE  TokenInv' /\ HonestAnswers'
    <3>1. UNCHANGED <<heap, store, ledger>>
      BY Zenon, <2>6 DEF HasContractData
    <3> QED
      BY Zenon, <2>e, <2>6, <3>1, HasStep
  <2>7. ASSUME NEW key \in Keys, NEW st \in Stypes, GetContractData(key, st)
        PROVE  TokenInv' /\ HonestAnswers'
    <3>1. UNCHANGED <<store, ledger>>
      BY Zenon, <2>7 DEF GetContractData
    <3>2. HeapOk(heap') /\ HonestAnswers'
      BY Zenon, <2>7, GetStep
    <3> QED
      BY Zenon, <2>a, <2>b, <3>1, <3>2
  <2>8. ASSUME NEW key \in Keys, NEW v \in Stored, NEW st \in Stypes, PutContractData(key, v, st)
        PROVE  TokenInv' /\ HonestAnswers'
    <3>1. ValsOk' /\ LedgerOk'
      BY Zenon, <2>8, PutStep
    <3>2. heap' = heap /\ Told(VOID)
      BY Zenon, <2>8 DEF PutContractData
    <3>3. HeapOk(heap')
      BY Zenon, <2>0, <3>2
    <3> QED
      BY Zenon, <2>b, <2>c, <3>1, <3>2, <3>3
  <2>9. ASSUME Resume PROVE TokenInv' /\ HonestAnswers'
    <3>1. mb'.fn = "NONE" /\ UNCHANGED <<heap, store, ledger>>
      BY Zenon, <2>9 DEF Resume, Quiet
    <3> QED
      BY Zenon, <2>e, <2>o, <3>1, OtherAnswer
  <2>10. ASSUME UNCHANGED vars PROVE TokenInv' /\ HonestAnswers'
    <3>1. UNCHANGED <<heap, store, ledger>> /\ mb' = mb
      BY Zenon, <2>10 DEF vars
    <3>2. HonestIn(heap', mb', ledger')
      BY Zenon, <3>1, OnHeap
    <3> QED
      BY Zenon, <2>e, <3>1, <3>2, OnHeap
  <2> QED
    BY Zenon, <2>1, <2>2, <2>3, <2>4, <2>5, <2>6, <2>7, <2>8, <2>9, <2>10 DEF Next
<1> QED
  BY <1>1, <1>2, StoreInvariant, PTL DEF Spec

(***************************************************************************)
(* has_contract_data and get_contract_data are honest, for every contract  *)
(* whose keys are vectors of addresses and small Vals, whatever the sizes  *)
(* of heap and store, the seeds and the order of its calls.                *)
(***************************************************************************)
THEOREM HonestAnswersAlways ==
    ASSUME TokenGuest
    PROVE  Spec => []HonestAnswers
  BY TokenInvariant, PTL

-----------------------------------------------------------------------------
\* What a Val the guest holds means survives a step that keeps the objects.
LEMMA HeldKept ==
    ASSUME HeapOk(heap), ValsOk, Kept(heap, heap'), NEW v \in Held
    PROVE  Content(v)' = Content(v)
<1>1. PlainVal(v) \/ Names(v)
  BY Zenon, HeldOk
<1>2. PlainVal(v) => v.tag # "VEC_OBJECT"
  BY Zenon DEF PlainVal, ObjTags
<1>3. Names(v) => v.hi \in 0 .. Len(heap) - 1 /\ v.tag = heap[v.hi + 1].tag
  <2> SUFFICES ASSUME Names(v) PROVE v.hi \in 0 .. Len(heap) - 1 /\ v.tag = heap[v.hi + 1].tag
    BY Zenon
  <2> DEFINE h == v.hi
             t == heap[h + 1].tag
  <2>1. v = [tag |-> t, hi |-> h, lo |-> 0] /\ h \in 0 .. Len(heap) - 1
    BY Zenon DEF Names, MakeObj
  <2>2. v.tag = t
    <3> HIDE DEF h, t
    <3> QED
      BY ONLY Zenon, <2>1
  <2> QED
    BY Zenon, <2>1, <2>2
<1>4. ContentIn(heap', v) = ContentIn(heap, v)
  <2>1. PlainVal(v) \/ v.hi \in 0 .. Len(heap) - 1
    BY Zenon, <1>1, <1>3
  <2>2. v.tag = "VEC_OBJECT" => heap[v.hi + 1].tag = "VEC_OBJECT"
    BY Zenon, <1>1, <1>2, <1>3
  <2> QED
    BY ONLY Zenon, HeapOk(heap), Kept(heap, heap'), <2>1, <2>2, ContentKept
<1>5. Content(v)' = ContentIn(heap', v)
  BY Zenon DEF Content, ContentIn, Flat, FlatIn, InHeap, Obj
<1> QED
  BY Zenon, <1>4, <1>5, OnHeap

\* The first argument of a call is no vector.
LEMMA SeedFirst ==
    ASSUME TokenGuest, NEW s \in Seeds, s # <<>>
    PROVE  Len(s) > 0 /\ s[1].tag # "VEC_OBJECT"
<1>1. s \in Seq(GpuObjEntry)
  BY Zenon, GpuHostAssumption
<1> DEFINE E == GpuObjEntry
<1> HIDE DEF E
<1>2. Len(s) > 0 /\ 1 \in 1 .. Len(s)
  <2>1. s \in Seq(E)
    BY Zenon, <1>1 DEF E
  <2> QED
    BY <2>1
<1> QED
  BY Zenon, <1>2 DEF TokenGuest

\* Every step within a call keeps the objects there are.
LEMMA KeptStep ==
    ASSUME TokenGuest, <<>> \notin Seeds, TokenInv, FirstHeld, [Next]_vars
    PROVE  FirstHeld' /\ (mb'.fn # "CALL" => Kept(heap, heap'))
<1>0. HeapOk(heap) /\ ValsOk
  BY Zenon DEF TokenInv
<1>h. Len(heap) \in Nat /\ Len(heap) <= Len(heap)
  <2>1. PICK S : heap \in Slots(S)
    BY Zenon, <1>0 DEF HeapOk
  <2>2. Len(heap) \in Nat
    BY <2>1 DEF Slots
  <2> QED
    BY <2>2
<1>a. ASSUME heap' = heap PROVE FirstHeld' /\ Kept(heap, heap')
  BY Zenon, <1>h, <1>a DEF FirstHeld, Kept
<1>b. ASSUME NEW e, Grown(heap, heap', e) PROVE FirstHeld' /\ Kept(heap, heap')
  <2>1. Len(heap') = Len(heap) + 1 /\ \A i \in 1 .. Len(heap) : heap'[i] = heap[i]
    BY Zenon, <1>b DEF Grown
  <2>2. Len(heap') > 0 /\ 1 \in 1 .. Len(heap)
    BY <1>h, <2>1 DEF FirstHeld
  <2> QED
    BY Zenon, <1>b, <2>1, <2>2, GrownKept DEF FirstHeld
<1>c. ASSUME NEW tag \in ObjTags \ {"VEC_OBJECT"}, NEW len, NEW data, NEW fn, NEW key, NEW st,
             AllocAnswer(fn, key, st, Entry(tag, len, data))
      PROVE  FirstHeld' /\ Kept(heap, heap')
  <2>1. heap' = heap \/ Grown(heap, heap', Entry(tag, len, data))
    BY Zenon, <1>0, <1>c, AllocStep
  <2> QED
    BY Zenon, <1>a, <1>b, <2>1
<1>t. {"STRING_OBJECT", "SYMBOL_OBJECT", "MAP_OBJECT", "ADDRESS_OBJECT", "I128_OBJECT"}
         \subseteq ObjTags \ {"VEC_OBJECT"}
  BY DEF ObjTags
<1>1. ASSUME NEW s \in Seeds, NewCall(s) PROVE FirstHeld' /\ mb'.fn = "CALL"
  <2>1. mb'.fn = "CALL" /\ heap' = s
    BY Zenon, <1>1 DEF NewCall, Answer
  <2>2. Len(s) > 0 /\ s[1].tag # "VEC_OBJECT"
    BY Zenon, SeedFirst
  <2> QED
    BY Zenon, <2>1, <2>2 DEF FirstHeld
<1>2. ASSUME NEW tag \in {"STRING_OBJECT", "SYMBOL_OBJECT"}, NEW t \in Texts, TextNew(tag, t)
      PROVE  FirstHeld' /\ Kept(heap, heap')
  BY Zenon, <1>c, <1>t, <1>2 DEF TextNew, Alloc
<1>3. ASSUME NEW vs \in Vectors, VecNew(vs) PROVE FirstHeld' /\ Kept(heap, heap')
  BY Zenon, <1>0, <1>3, VecStep
<1>4. ASSUME MapNew \/ CurAddr \/ \E hi, lo \in Words : FromI128(hi, lo)
      PROVE  FirstHeld' /\ Kept(heap, heap')
  BY Zenon, <1>c, <1>t, <1>4 DEF MapNew, CurAddr, FromI128, Alloc
<1>5. ASSUME NEW key \in Keys, NEW st \in Stypes, GetContractData(key, st)
      PROVE  FirstHeld' /\ Kept(heap, heap')
  <2>1. \/ heap' = heap
        \/ \E b : AllocAnswer("GET", key, st, Entry("ADDRESS_OBJECT", 32, b))
    BY Zenon, <1>5 DEF GetContractData
  <2> QED
    BY Zenon, <1>a, <1>c, <1>t, <2>1
<1>6. ASSUME \/ \E v \in Held, half \in 1 .. 2 : ToI128(v, half)
             \/ \E key \in Keys, st \in Stypes : HasContractData(key, st)
             \/ \E key \in Keys, v \in Stored, st \in Stypes : PutContractData(key, v, st)
             \/ NoOp \/ LedgerSeq \/ Resume \/ UNCHANGED vars
      PROVE  FirstHeld' /\ Kept(heap, heap')
  <2>1. heap' = heap
    BY Zenon, <1>6 DEF ToI128, HasContractData, PutContractData, NoOp, LedgerSeq, Resume, vars
  <2> QED
    BY Zenon, <1>a, <2>1
<1> QED
  BY Zenon, <1>1, <1>2, <1>3, <1>4, <1>5, <1>6 DEF Next

(***************************************************************************)
(* Within a call the Vals a contract holds keep their contents, also when  *)
(* the heap is full and vec_new writes to its first object: a call with    *)
(* arguments has one there that is no vector.                              *)
(***************************************************************************)
THEOREM ContentsStableAlways ==
    ASSUME TokenGuest, <<>> \notin Seeds
    PROVE  Spec => ContentsStable
<1> DEFINE A == mb'.fn # "CALL" => \A v \in Held : Content(v)' = Content(v)
<1>1. Init => FirstHeld
  <2> SUFFICES ASSUME Init PROVE FirstHeld
    BY Zenon
  <2>1. heap \in Seeds
    BY Zenon DEF Init
  <2> QED
    BY Zenon, <2>1, SeedFirst DEF FirstHeld
<1>2. TokenInv /\ FirstHeld /\ [Next]_vars => FirstHeld' /\ [A]_vars
  <2> SUFFICES ASSUME TokenInv, FirstHeld, [Next]_vars PROVE FirstHeld' /\ [A]_vars
    BY Zenon
  <2>1. FirstHeld' /\ (mb'.fn # "CALL" => Kept(heap, heap'))
    BY Zenon, KeptStep
  <2>2. ASSUME mb'.fn # "CALL" => Kept(heap, heap') PROVE A
    BY Zenon, <2>2, HeldKept DEF TokenInv
  <2> QED
    BY Zenon, <2>1, <2>2
<1>3. ContentsStable <=> [][A]_vars
  BY DEF ContentsStable
<1> HIDE DEF A
<1> QED
  BY <1>1, <1>2, <1>3, TokenInvariant, PTL DEF Spec
=============================================================================
