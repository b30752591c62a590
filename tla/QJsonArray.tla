----------------------------- MODULE QJsonArray -----------------------------
(***************************************************************************)
(* The QJsonArray handle over its shared storage backend, as implemented  *)
(* in src/corelib/serialization/qjsonarray.cpp.                            *)
(*                                                                         *)
(* A handle holds a QExplicitlySharedDataPointer `a' to a                  *)
(* QCborContainerPrivate (a backend) or nullptr.  A backend holds the      *)
(* encoded elements and a reference count.  Every mutating member first    *)
(* detaches: a backend whose count is not 1 is cloned into a fresh one,    *)
(* which the handle then points to.  A QJsonValueRef returned by           *)
(* operator[] holds the QJsonArray* and an index, not the backend.         *)
(*                                                                         *)
(* Each action is one member function run to completion (the class is     *)
(* reentrant, not thread-safe: one handle is used by one thread at a       *)
(* time).  Indices are the 0-based indices of the C++ API.                 *)
(***************************************************************************)
EXTENDS Integers, Sequences, FiniteSets

CONSTANTS
  Handles,    \* the QJsonArray objects of the program
  Backends,   \* the addresses a QCborContainerPrivate can be allocated at
  Proxies,    \* the QJsonValueRef objects the program keeps
  Values,     \* element values: a QJsonValue holds a QCborValue, [t, x]
  NoBackend,  \* nullptr
  NoProxy,    \* a QJsonValueRef slot that holds no reference
  MaxLen,     \* bound on the length of an array (model bound)
  MaxListLen  \* bound on the length of an initializer list (model bound)

CborTypes == {"Undefined", "Null", "Integer", "Double", "String"}

Undefined == [t |-> "Undefined", x |-> 0]
NullValue == [t |-> "Null", x |-> 0]

ASSUME ConstantsAssumption ==
  /\ IsFiniteSet(Handles)
  /\ Values \subseteq [t : CborTypes, x : Int]
  /\ {Undefined, NullValue} \subseteq Values
  \* QJsonValue::Undefined and QJsonValue::Null carry no payload.
  /\ \A v \in Values : v.t \in {"Undefined", "Null"} => v.x = 0
  /\ NoBackend \notin Backends
  /\ MaxLen \in Nat
  /\ MaxListLen \in Nat

VARIABLES
  a,          \* a[h]: the backend handle h points to, or NoBackend
  elems,      \* elems[b]: QCborContainerPrivate::elements of backend b
  ref,        \* ref[b]: QCborContainerPrivate::ref of backend b
  live,       \* the backends currently allocated
  proxy,      \* proxy[p]: [arr, idx] of a QJsonValueRef, or NoProxy
  taken,      \* the value the last takeAt() returned
  op          \* auxiliary: the last member function that changed a value,
              \* with its arguments (a history variable, not program state)

vars == <<a, elems, ref, live, proxy, taken, op>>

----------------------------------------------------------------------------
(* The element codec (qjsonvalue.cpp, qjsoncbor.cpp).                      *)

\* QJsonValue::type(): CBOR integers and doubles are both JSON Double.
JsonType(v) == IF v.t \in {"Integer", "Double"} THEN "Double" ELSE v.t

\* QCborValue::fromJsonValue: a QJsonValue keeps its QCborValue, and the
\* conversion returns it (an integer stays Integer, a double stays Double,
\* Undefined becomes QCborValue(), which is Undefined).
FromJsonValue(v) == [t |-> v.t, x |-> v.x]

\* QJsonPrivate::Value::fromTrustedCbor: wraps the stored QCborValue.
FromTrustedCbor(c) == [t |-> c.t, x |-> c.x]

\* QJsonValue equality: an Integer and a Double compare as doubles.
JsonEq(v, w) ==
  IF v.t # w.t THEN JsonType(v) = "Double" /\ JsonType(w) = "Double" /\ v.x = w.x
               ELSE v = w

\* QCborValue equality, used by comparesEqual on the stored elements.
CborEq(c, d) == c = d

----------------------------------------------------------------------------
(* Sequence edits of QCborContainerPrivate, with 0-based index i.          *)

InsertElem(s, i, e) ==
  [j \in 1 .. Len(s) + 1 |-> IF j <= i THEN s[j] ELSE IF j = i + 1 THEN e ELSE s[j - 1]]

RemoveElem(s, i) ==
  [j \in 1 .. Len(s) - 1 |-> IF j <= i THEN s[j] ELSE s[j + 1]]

ReplaceElem(s, i, e) == [s EXCEPT ![i + 1] = e]

----------------------------------------------------------------------------
(* Read-only members.                                                      *)

Size(h) == IF a[h] = NoBackend THEN 0 ELSE Len(elems[a[h]])

IsEmpty(h) == a[h] = NoBackend \/ elems[a[h]] = << >>

InRange(h, i) == a[h] # NoBackend /\ 0 <= i /\ i < Len(elems[a[h]])

At(h, i) == IF InRange(h, i) THEN FromTrustedCbor(elems[a[h]][i + 1]) ELSE Undefined

First(h) == At(h, 0)

Last(h) == At(h, IF a[h] # NoBackend THEN Len(elems[a[h]]) - 1 ELSE 0)

Contains(h, v) == \E i \in 0 .. Size(h) - 1 : JsonEq(At(h, i), v)

\* Mutant: a null handle treated as different from any allocated one, even
\* an emptied one.
ComparesEqualNullDiffers(l, r) ==
  IF a[l] = a[r] THEN TRUE
  ELSE IF a[l] = NoBackend \/ a[r] = NoBackend THEN FALSE
  ELSE /\ Len(elems[a[l]]) = Len(elems[a[r]])
       /\ \A i \in 1 .. Len(elems[a[l]]) : CborEq(elems[a[l]][i], elems[a[r]][i])

ComparesEqual(l, r) ==
  IF a[l] = a[r] THEN TRUE
  ELSE IF a[l] = NoBackend THEN Len(elems[a[r]]) = 0
  ELSE IF a[r] = NoBackend THEN Len(elems[a[l]]) = 0
  ELSE /\ Len(elems[a[l]]) = Len(elems[a[r]])
       /\ \A i \in 1 .. Len(elems[a[l]]) : CborEq(elems[a[l]][i], elems[a[r]][i])

\* comparesEqual(array, value) is lhs == rhs.toArray().  toArray() of a
\* value that holds no array is QJsonArray(), a null array; the values of
\* this model are scalars, so the right-hand side is always null.
ComparesEqualValue(h, v) ==
  IF a[h] = NoBackend THEN TRUE ELSE Len(elems[a[h]]) = 0

\* The value a handle denotes: what size() and at() observe.
Val(h) == IF a[h] = NoBackend THEN << >> ELSE elems[a[h]]

----------------------------------------------------------------------------
(* Reference counting of QExplicitlySharedDataPointer.                     *)

AddRef(r, b) == IF b = NoBackend THEN r ELSE [r EXCEPT ![b] = @ + 1]

Unref(r, b) == IF b = NoBackend THEN r ELSE [r EXCEPT ![b] = @ - 1]

\* The backend a deref() brought to zero, which is then deleted.
Deleted(r, b) == IF b # NoBackend /\ r[b] = 0 THEN {b} ELSE {}

FreeElems(e, D) == [x \in Backends |-> IF x \in D THEN << >> ELSE e[x]]

\* The handles that point to b, under pointer map f and under a.
HoldersIn(f, b) == {h \in Handles : f[h] = b}

Holders(b) == HoldersIn(a, b)

----------------------------------------------------------------------------
(* QJsonArray::detach followed by an edit of the now private backend: the  *)
(* backend is kept when its count is 1 (QCborContainerPrivate::detach),    *)
(* otherwise it is cloned into a fresh backend nb (count 0, then 1 once    *)
(* assigned to a) and the old one is dereferenced.  s is the edited        *)
(* element sequence; the clone copies elems[a[h]] so s is computed from it.*)
DetachAndSet(h, s) ==
  LET b == a[h] IN
  \/ /\ ref[b] = 1
     /\ elems' = [elems EXCEPT ![b] = s]
     /\ UNCHANGED <<a, ref, live>>
  \/ /\ ref[b] # 1
     /\ \E nb \in Backends \ live :
          LET r == Unref([ref EXCEPT ![nb] = 1], b)
              D == Deleted(r, b)
          IN /\ a' = [a EXCEPT ![h] = nb]
             /\ ref' = r
             /\ live' = (live \cup {nb}) \ D
             /\ elems' = FreeElems([elems EXCEPT ![nb] = s], D)

\* `a = new QCborContainerPrivate' on a null handle, holding s.
AllocateWith(h, s) ==
  \E nb \in Backends \ live :
    /\ a' = [a EXCEPT ![h] = nb]
    /\ ref' = [ref EXCEPT ![nb] = 1]
    /\ live' = live \cup {nb}
    /\ elems' = [elems EXCEPT ![nb] = s]

----------------------------------------------------------------------------
(* Mutating members.                                                       *)

\* insert(i, value): Undefined is stored as Null.  i in 0..size() is the
\* caller's precondition (Q_ASSERT).
Insert(h, i, v) ==
  LET e == IF JsonType(v) = "Undefined" THEN FromJsonValue(NullValue) ELSE FromJsonValue(v)
  IN /\ i \in 0 .. Size(h)
     /\ Size(h) < MaxLen
     /\ \/ /\ a[h] # NoBackend
           /\ DetachAndSet(h, InsertElem(elems[a[h]], i, e))
        \/ /\ a[h] = NoBackend
           /\ AllocateWith(h, InsertElem(<< >>, i, e))
     /\ op' = <<"insert", h, i, v>>
     /\ UNCHANGED <<proxy, taken>>

Prepend(h, v) == Insert(h, 0, v)

AppendValue(h, v) == Insert(h, IF a[h] # NoBackend THEN Len(elems[a[h]]) ELSE 0, v)

\* Mutant: removeAt() without its detach() call.
RemoveAtNoDetach(h, i) ==
  /\ InRange(h, i)
  /\ elems' = [elems EXCEPT ![a[h]] = RemoveElem(@, i)]
  /\ op' = <<"removeAt", h, i>>
  /\ UNCHANGED <<a, ref, live, proxy, taken>>

\* Mutant: removeAt() with its early return testing i > size() instead of
\* i >= size(), so removeAt(size()) goes on to remove.
RemoveAtOffByOne(h, i) ==
  /\ a[h] # NoBackend /\ 0 <= i /\ i <= Len(elems[a[h]])
  /\ DetachAndSet(h, RemoveElem(elems[a[h]], i))
  /\ op' = <<"removeAt", h, i>>
  /\ UNCHANGED <<proxy, taken>>

\* removeAt(i): returns early, changing nothing, when i is out of range.
RemoveAt(h, i) ==
  /\ InRange(h, i)
  /\ DetachAndSet(h, RemoveElem(elems[a[h]], i))
  /\ op' = <<"removeAt", h, i>>
  /\ UNCHANGED <<proxy, taken>>

\* takeAt(i): detach, extractAt(i), removeAt(i), return the extracted value.
TakeAt(h, i) ==
  /\ InRange(h, i)
  /\ taken' = FromTrustedCbor(elems[a[h]][i + 1])
  /\ DetachAndSet(h, RemoveElem(elems[a[h]], i))
  /\ op' = <<"takeAt", h, i>>
  /\ UNCHANGED proxy

\* takeAt(i) out of range returns Undefined and changes nothing else.
TakeAtOutOfRange(h, i) ==
  /\ ~InRange(h, i)
  /\ taken' = Undefined
  /\ op' = <<"takeAt", h, i>>
  /\ UNCHANGED <<a, elems, ref, live, proxy>>

\* replace(i, value): a non-null handle and 0 <= i < size() are asserted.
Replace(h, i, v) ==
  /\ InRange(h, i)
  /\ DetachAndSet(h, ReplaceElem(elems[a[h]], i, FromJsonValue(v)))
  /\ op' = <<"replace", h, i, v>>
  /\ UNCHANGED <<proxy, taken>>

\* Mutant: operator[] with its Q_ASSERT on the index compiled out and a
\* caller passing an index outside 0..size()-1.
SubscriptUnchecked(h, i, p) ==
  /\ a[h] # NoBackend
  /\ proxy' = [proxy EXCEPT ![p] = [arr |-> h, idx |-> i]]
  /\ UNCHANGED <<a, elems, ref, live, taken, op>>

\* operator[](i) returns QJsonValueRef(this, i), kept in slot p.
Subscript(h, i, p) ==
  /\ InRange(h, i)
  /\ proxy' = [proxy EXCEPT ![p] = [arr |-> h, idx |-> i]]
  /\ UNCHANGED <<a, elems, ref, live, taken, op>>

\* QJsonValueRef::operator=(value): detach the array it refers to, then
\* replaceAt(index, fromJsonValue(value)).  The index must still be in
\* range (otherwise the write is undefined behaviour).
AssignRef(p, v) ==
  /\ proxy[p] # NoProxy
  /\ InRange(proxy[p].arr, proxy[p].idx)
  /\ DetachAndSet(proxy[p].arr,
        ReplaceElem(elems[a[proxy[p].arr]], proxy[p].idx, FromJsonValue(v)))
  /\ op' = <<"replace", proxy[p].arr, proxy[p].idx, v>>
  /\ UNCHANGED <<proxy, taken>>

----------------------------------------------------------------------------
(* STL-style iterators (QJsonArray::iterator and const_iterator, inline   *)
(* in qjsonarray.h, documented in qjsonarray.cpp).  An iterator holds a    *)
(* QJsonValueRef item, i.e. the QJsonArray* and an index, so it is kept in *)
(* a proxy slot like the result of operator[].  Moving an iterator is      *)
(* index arithmetic; a const_iterator moves the same way and only reads.   *)

\* Offsets tried for it += j, it -= j, it + j, it - j and it[j].
Offsets == -MaxLen .. MaxLen

\* QJsonArray::detach() on its own (lines 1064-1070): nothing for a null
\* handle, otherwise QCborContainerPrivate::detach keeps or clones.
DetachOnly(h) ==
  \/ /\ a[h] = NoBackend
     /\ UNCHANGED <<a, elems, ref, live>>
  \/ /\ a[h] # NoBackend
     /\ DetachAndSet(h, elems[a[h]])

\* it = h.begin(), the non-const overload: detach(), then index 0.  The
\* const overloads (constBegin(), cbegin()) give a const_iterator, which
\* only reads and moves, so it changes no state that matters.
Begin(h, p) ==
  /\ DetachOnly(h)
  /\ proxy' = [proxy EXCEPT ![p] = [arr |-> h, idx |-> 0]]
  /\ UNCHANGED <<taken, op>>

\* it = h.end(), the non-const overload: detach(), then one past the last
\* item.
End(h, p) ==
  /\ DetachOnly(h)
  /\ proxy' = [proxy EXCEPT ![p] = [arr |-> h, idx |-> Size(h)]]
  /\ UNCHANGED <<taken, op>>

\* ++it and it++: undefined on end() (and on an uninitialized iterator).
Increment(p) ==
  /\ proxy[p] # NoProxy
  /\ proxy[p].idx < Size(proxy[p].arr)
  /\ proxy' = [proxy EXCEPT ![p].idx = @ + 1]
  /\ UNCHANGED <<a, elems, ref, live, taken, op>>

\* --it and it--: undefined on begin().
Decrement(p) ==
  /\ proxy[p] # NoProxy
  /\ proxy[p].idx > 0
  /\ proxy' = [proxy EXCEPT ![p].idx = @ - 1]
  /\ UNCHANGED <<a, elems, ref, live, taken, op>>

\* it += j (it -= j is it += -j; it + j and it - j give the same iterator
\* in another variable): the result stays within begin() .. end().
AdvanceBy(p, j) ==
  /\ proxy[p] # NoProxy
  /\ proxy[p].idx + j \in 0 .. Size(proxy[p].arr)
  /\ proxy' = [proxy EXCEPT ![p].idx = @ + j]
  /\ UNCHANGED <<a, elems, ref, live, taken, op>>

\* it[j] = value (and *it = value for j = 0): the QJsonValueRef for index
\* idx + j of the iterator's array is assigned: detach, then replaceAt.
IterAssign(p, j, v) ==
  /\ proxy[p] # NoProxy
  /\ InRange(proxy[p].arr, proxy[p].idx + j)
  /\ DetachAndSet(proxy[p].arr,
        ReplaceElem(elems[a[proxy[p].arr]], proxy[p].idx + j, FromJsonValue(v)))
  /\ op' = <<"replace", proxy[p].arr, proxy[p].idx + j, v>>
  /\ UNCHANGED <<proxy, taken>>

\* it = h.erase(it): removeAt(it.i), returning it, which now points to the
\* item that followed the erased one.
EraseIt(p) ==
  /\ proxy[p] # NoProxy
  /\ RemoveAt(proxy[p].arr, proxy[p].idx)

\* it = h.insert(it, value): insert(it.i, value), returning it, which now
\* points to the inserted item.
InsertIt(p, v) ==
  /\ proxy[p] # NoProxy
  /\ Insert(proxy[p].arr, proxy[p].idx, v)

----------------------------------------------------------------------------
(* Sharing.                                                                *)

\* Copy assignment (and copy construction into a reset handle): the
\* shared pointer's operator= refs the new backend and derefs the old one,
\* and does nothing when both are the same.
CopyAssign(dst, src) ==
  LET r == Unref(AddRef(ref, a[src]), a[dst])
      D == Deleted(r, a[dst])
  IN /\ a[src] # a[dst]
     /\ a' = [a EXCEPT ![dst] = a[src]]
     /\ ref' = r
     /\ live' = live \ D
     /\ elems' = FreeElems(elems, D)
     /\ op' = <<"assign", dst, src>>
     /\ UNCHANGED <<proxy, taken>>

\* Mutant: the move constructor without `other.a = nullptr'.
MoveConstructNoReset(dst, src) ==
  LET r == Unref(ref, a[dst])
      D == Deleted(r, a[dst])
  IN /\ dst # src
     /\ a' = [a EXCEPT ![dst] = a[src]]
     /\ ref' = r
     /\ live' = live \ D
     /\ elems' = FreeElems(elems, D)
     /\ op' = <<"move", dst, src>>
     /\ UNCHANGED <<proxy, taken>>

\* dst is destroyed, then move-constructed from src: a(other.a),
\* other.a = nullptr.
MoveConstruct(dst, src) ==
  LET r == Unref(ref, a[dst])
      D == Deleted(r, a[dst])
  IN /\ dst # src
     /\ a' = [a EXCEPT ![dst] = a[src], ![src] = NoBackend]
     /\ ref' = r
     /\ live' = live \ D
     /\ elems' = FreeElems(elems, D)
     /\ op' = <<"move", dst, src>>
     /\ UNCHANGED <<proxy, taken>>

\* swap() (and so move assignment): exchanges the pointers.
Swap(h1, h2) ==
  /\ h1 # h2
  /\ a' = [a EXCEPT ![h1] = a[h2], ![h2] = a[h1]]
  /\ op' = <<"swap", h1, h2>>
  /\ UNCHANGED <<elems, ref, live, proxy, taken>>

\* ~QJsonArray() on h, h then being reused as QJsonArray().
Destroy(h) ==
  LET r == Unref(ref, a[h])
      D == Deleted(r, a[h])
  IN /\ a[h] # NoBackend
     /\ a' = [a EXCEPT ![h] = NoBackend]
     /\ ref' = r
     /\ live' = live \ D
     /\ elems' = FreeElems(elems, D)
     /\ op' = <<"clear", h>>
     /\ UNCHANGED <<proxy, taken>>

\* The initializer lists the program may use: non-empty, up to MaxListLen.
Lists == UNION {[1 .. n -> Values] : n \in 1 .. MaxListLen}

\* Indices tried: every valid one and one past each end.
Index == -1 .. MaxLen

\* h = <temporary>: a temporary array holding e in a fresh backend nb
\* (held once) is move-assigned into h, and the temporary is then destroyed
\* holding h's old backend, which loses one reference.  The caller records
\* the member function in op.
AdoptFresh(h, e) ==
  LET r == Unref(ref, a[h])
      D == Deleted(r, a[h])
  IN \E nb \in Backends \ live :
       /\ a' = [a EXCEPT ![h] = nb]
       /\ ref' = [r EXCEPT ![nb] = 1]
       /\ live' = (live \cup {nb}) \ D
       /\ elems' = FreeElems([elems EXCEPT ![nb] = e], D)
       /\ UNCHANGED <<proxy, taken>>

\* The elements a run of append() calls stores for the values of s: each
\* goes through insert(), which stores Null for Undefined.
StoredList(s) ==
  [j \in DOMAIN s |-> IF JsonType(s[j]) = "Undefined"
                         THEN FromJsonValue(NullValue) ELSE FromJsonValue(s[j])]

\* h = QJsonArray{v1, ..., vn}: the initializer-list constructor appends
\* each value to a fresh array (the first append allocates, the others find
\* the count at 1), then the temporary is move-assigned into h.
FromList(h, s) ==
  /\ AdoptFresh(h, StoredList(s))
  /\ op' = <<"construct", h, s>>

\* The lists of strings fromStringList() may be given, and the lists of
\* JSON values a QJsonDocument can parse (JSON text has no Undefined).
StringLists == {s \in Lists : \A j \in DOMAIN s : s[j].t = "String"}

ParsedLists == {s \in Lists : \A j \in DOMAIN s : JsonType(s[j]) # "Undefined"}

\* h = QJsonArray::fromStringList(list): append(QJsonValue(*it)) for each
\* string of a non-empty list into a local array, which is then returned
\* and move-assigned into h.  (An empty list returns a null array: Destroy.)
FromStringList(h, s) ==
  /\ s \in StringLists
  /\ AdoptFresh(h, StoredList(s))
  /\ op' = <<"construct", h, s>>

\* operator>>(stream, h): a QJsonDocument is read from the stream and
\* h = doc.array().  doc.array() wraps the document's container with the
\* QJsonArray(QCborContainerPrivate *) constructor (a second reference);
\* the document is then destroyed, so the container ends up held once, by
\* h.  A stream holding no array document gives a null array.
StreamIn(h, s) ==
  \/ /\ s \in ParsedLists
     /\ AdoptFresh(h, [j \in DOMAIN s |-> FromJsonValue(s[j])])
     /\ op' = <<"construct", h, s>>
  \/ /\ s = << >>
     /\ Destroy(h)

\* dst = src + value (operator+): the result n = src shares src's backend,
\* n += value detaches it (a clone, as the count is at least 2, or a fresh
\* backend when src is null) and appends, and n is move-assigned into dst.
Plus(dst, src, v) ==
  /\ Size(src) < MaxLen
  /\ AdoptFresh(dst, Append(Val(src), IF JsonType(v) = "Undefined"
                                          THEN FromJsonValue(NullValue) ELSE FromJsonValue(v)))
  /\ op' = <<"plus", dst, src, v>>

\* The inline STL-style and operator aliases documented in qjsonarray.cpp.
RemoveFirst(h) == RemoveAt(h, 0)

RemoveLast(h) == RemoveAt(h, Size(h) - 1)

PushBack(h, v) == AppendValue(h, v)

PushFront(h, v) == Prepend(h, v)

PopFront(h) == RemoveFirst(h)

PopBack(h) == RemoveLast(h)

PlusAssign(h, v) == AppendValue(h, v)

ShiftAppend(h, v) == AppendValue(h, v)

----------------------------------------------------------------------------

Init ==
  /\ a = [h \in Handles |-> NoBackend]
  /\ elems = [b \in Backends |-> << >>]
  /\ ref = [b \in Backends |-> 0]
  /\ live = {}
  /\ proxy = [p \in Proxies |-> NoProxy]
  /\ taken = Undefined
  /\ op = << >>

Next ==
  \/ \E h \in Handles, i \in Index, v \in Values :
       Insert(h, i, v) \/ Replace(h, i, v)
  \/ \E h \in Handles, v \in Values : Prepend(h, v) \/ AppendValue(h, v)
  \/ \E h \in Handles, i \in Index :
       RemoveAt(h, i) \/ TakeAt(h, i) \/ TakeAtOutOfRange(h, i)
  \/ \E h \in Handles, i \in Index, p \in Proxies : Subscript(h, i, p)
  \/ \E p \in Proxies, v \in Values : AssignRef(p, v)
  \/ \E dst, src \in Handles :
       CopyAssign(dst, src) \/ MoveConstruct(dst, src) \/ Swap(dst, src)
  \/ \E h \in Handles : Destroy(h)
  \/ \E h \in Handles, s \in Lists : FromList(h, s) \/ FromStringList(h, s)
  \/ \E h \in Handles, s \in Lists \cup {<< >>} : StreamIn(h, s)
  \/ \E dst, src \in Handles, v \in Values : Plus(dst, src, v)
  \/ \E h \in Handles :
       RemoveFirst(h) \/ RemoveLast(h) \/ PopFront(h) \/ PopBack(h)
  \/ \E h \in Handles, v \in Values :
       PushBack(h, v) \/ PushFront(h, v) \/ PlusAssign(h, v) \/ ShiftAppend(h, v)
  \/ \E h \in Handles, p \in Proxies : Begin(h, p) \/ End(h, p)
  \/ \E p \in Proxies : Increment(p) \/ Decrement(p) \/ EraseIt(p)
  \/ \E p \in Proxies, j \in Offsets : AdvanceBy(p, j)
  \/ \E p \in Proxies, j \in Offsets, v \in Values : IterAssign(p, j, v)
  \/ \E p \in Proxies, v \in Values : InsertIt(p, v)

Spec == Init /\ [][Next]_vars

----------------------------------------------------------------------------
(* Properties.                                                             *)

TypeOK ==
  /\ a \in [Handles -> Backends \cup {NoBackend}]
  /\ elems \in [Backends -> Seq(Values)]
  /\ ref \in [Backends -> Nat]
  /\ live \subseteq Backends
  /\ proxy \in [Proxies -> [arr : Handles, idx : Nat] \cup {NoProxy}]
  /\ taken \in Values

(* Sharing is sound: the reference count of every allocated backend is    *)
(* the number of handles pointing to it (copy, move, swap, destruction and *)
(* detach all keep it exact), no handle points to a deleted backend, and   *)
(* no allocated backend is unreachable (leaked).                           *)
RefCountExact == \A b \in live : ref[b] = Cardinality(Holders(b))

NoDangling == \A h \in Handles : a[h] \in live \cup {NoBackend}

NoLeak == \A b \in live : Holders(b) # {}

SharingSound == RefCountExact /\ NoDangling /\ NoLeak

(* The inductive invariant of QJsonArray_proofs: TypeOK and SharingSound *)
(* restated in the form the proof uses.  CountInv gives the holder count  *)
(* of every backend at once, allocated (its ref) or freed (none), so that *)
(* one counting lemma serves every pointer change; PosInv says an         *)
(* allocated backend has a positive count, so the deref() in detach()    *)
(* never deletes a backend another handle still holds.                    *)

\* Each backend's holder count is its ref if allocated, 0 if freed.
CountInv == \A q \in Backends : Cardinality(Holders(q)) = IF q \in live THEN ref[q] ELSE 0

PosInv == \A q \in live : ref[q] >= 1

StoreOK ==
  /\ a \in [Handles -> Backends \cup {NoBackend}]
  /\ elems \in [Backends -> Seq(Values)]
  /\ ref \in [Backends -> Nat]
  /\ live \subseteq Backends
  /\ CountInv
  /\ PosInv

\* The inductive invariant: pointers, counts and allocation agree after
\* every member function, and every value held is a value.
IInv ==
  /\ StoreOK
  /\ proxy \in [Proxies -> [arr : Handles, idx : Nat] \cup {NoProxy}]
  /\ taken \in Values

(* Detach before mutate: a step that changes the elements of an allocated *)
(* backend only does so when that backend is referenced by exactly one     *)
(* handle, so no other handle ever observes an edit.                       *)
NoSharedMutation ==
  [][\A b \in live : elems'[b] # elems[b] => ref[b] = 1]_vars

(* Equality is value equality: comparesEqual(l, r) holds exactly when the *)
(* two handles denote the same sequence, whether they share a backend,     *)
(* one is null and the other an allocated but emptied backend, or both     *)
(* hold distinct backends.                                                 *)
EqualityIsValueEquality ==
  \A l, r \in Handles : ComparesEqual(l, r) <=> Val(l) = Val(r)

(* Spec section 8: two arrays are equal iff they have the same length and *)
(* are element-wise equal in order, element equality being QJsonValue's    *)
(* (under which the integer 2 and the double 2.0 are equal, as contains()  *)
(* uses).  comparesEqual compares the stored QCborValues instead.          *)
EqualityIsElementwise ==
  \A l, r \in Handles :
    ComparesEqual(l, r) <=>
      /\ Size(l) = Size(r)
      /\ \A i \in 0 .. Size(l) - 1 : JsonEq(At(l, i), At(r, i))

(* Undefined marks absence: insert() stores Null for it, so at(i) returns *)
(* Undefined only for an index out of range.  replace() and assignment     *)
(* through operator[] store the argument without that normalization.      *)
UndefinedOnlyOutOfRange ==
  \A h \in Handles : \A i \in 0 .. Size(h) - 1 : JsonType(At(h, i)) # "Undefined"

(* Comparing an array with a JSON value agrees with QJsonValue equality:   *)
(* QJsonValue(array) == value only when value holds an equal array, since  *)
(* values of different types differ.  comparesEqual(array, value) compares *)
(* with value.toArray(), an empty array for every scalar value.            *)
ComparisonWithValueIsTyped ==
  \A h \in Handles, v \in Values : ~ComparesEqualValue(h, v)

(* Value semantics (refinement): the handles, seen through Val, behave as *)
(* independent values per QJsonArrayValue, whatever sharing, detaching and *)
(* writes through QJsonValueRef happen underneath.                        *)
Abstract == INSTANCE QJsonArrayValue
              WITH val <- [h \in Handles |-> Val(h)], Indices <- Index



ValueSemantics == Abstract!Spec

=============================================================================
