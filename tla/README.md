# QJsonArray: a TLA+ verification of copy-on-write sharing

This directory models `src/src/corelib/serialization/qjsonarray.cpp` (the
`QJsonArray` class of Qt's JSON module). It holds TLA+ modules, TLC
configurations for model checking, and TLAPS proofs.

## The system

A `QJsonArray` is a handle. It holds one member, `a`, a
`QExplicitlySharedDataPointer<QCborContainerPrivate>`, which is either
null or points to a backend. A backend holds the encoded elements
(`elements`) and an atomic reference count (`ref`).

The parts and how they interact:

- **Sharing.** The copy constructor and copy assignment are the pointer's
  defaults: they ref the source backend and deref the old one. Moving
  transfers the pointer and nulls the source (lines 153–157). Destruction
  derefs, and the backend whose count reaches 0 is deleted.
- **Copy-on-write.** Every mutating member first calls `detach()`
  (lines 1064–1070). `QCborContainerPrivate::detach` keeps the backend when
  its count is 1. Otherwise it clones the backend, and the handle is moved
  to the clone while the old backend loses one reference.
  - `insert` on a null handle allocates a fresh backend instead
    (line 397).
  - `removeAt` and `takeAt` return early when the index is out of range
    (lines 340, 376).
- **Element codec.** `insert` stores `Null` in place of an `Undefined`
  value (line 400). `replace` and a write through `operator[]` store the
  value as given (line 432).
- **Reads.** `at` reads through `fromTrustedCbor`; `contains` compares with
  `QJsonValue ==`.
- **Equality.** `comparesEqual` (lines 478–495) has a fast path for the
  same pointer, treats null as equal to an empty backend, and otherwise
  compares the stored `QCborValue`s.
- **`QJsonValueRef`.** `operator[]` (line 465) returns a
  `QJsonValueRef(this, i)`. It holds the array's address and an index, not
  the backend, so a later write detaches whichever backend the array holds
  by then.
- **Iterators.** An `iterator` holds the same pair (array, index) and
  yields a `QJsonValueRef` on `*it` and `it[j]`. The non-const `begin()`
  and `end()` detach the array before returning; a write through the
  iterator detaches again. Any non-const call on the array leaves
  outstanding iterators undefined (line 630).
- **Conversions in and out.** `fromStringList` (lines 210–216) appends
  into a fresh array. `operator>>` (lines 1100–1107) assigns the parsed
  document's array over the target. `operator+` (inline, documented at
  lines 186–193) copies the array and appends to the copy.

## Modules

| module | models |
|---|---|
| `QJsonArrayValue` | The abstract specification: what users are promised. Every handle is an independent sequence of values. Copy copies the value, and a mutation changes one handle only. |
| `QJsonArray` | The detailed module: handles, backends, reference counts, allocation and proxies. There is one action per member function. |
| `MC_QJsonArray` | Model values and small sets for TLC, and the symmetry set. |
| `QJsonArray_proofs` | The TLAPS proofs of the type invariant, sound sharing, detach-before-mutate and equality. |
| `QJsonArray_refinement_proofs` | The TLAPS proof that `QJsonArray` implements `QJsonArrayValue` under `val[h] = Val(h)`. |

State of `QJsonArray` and its counterpart in the code:

| variable | code |
|---|---|
| `a[h]` | `h.a`: a backend, or `NoBackend` for null |
| `elems[b]` | `b->elements`, one abstract value per element |
| `ref[b]` | `b->ref` |
| `live` | the set of allocated backends |
| `proxy[p]` | a `QJsonValueRef` or an iterator kept by the program: `(array, index)` |
| `taken` | the last `takeAt` result |
| `op` | history variable: the last value-changing member function with its arguments |

`op` is not program state. Both modules set it alike (`<<"removeAt", h, i>>`,
`<<"construct", h, s>>`, ...), so the refinement matches each member
function with the abstract operation of its own name and arguments. The
cfgs declare `VIEW ModelView`, which leaves `op` out of the state TLC
stores, so it adds no states.

Actions. Each one is a whole member function, its detach included.

- `Insert`, `Prepend` and `AppendValue` model `insert`, `prepend` and
  `append`. The length bound `MaxLen` is a model bound.
- `RemoveAt`, and `TakeAt` with `TakeAtOutOfRange` (the early return),
  model `removeAt` and `takeAt`.
- `Replace`, `Subscript` and `AssignRef` model `replace`, `operator[]`,
  and assignment through the returned ref.
- `CopyAssign`, `MoveConstruct`, `Swap` and `Destroy` model copy, move,
  swap and destruction. Move assignment is a swap.
- `FromList` models the initializer-list constructor (a run of appends
  into a fresh array, then moved into the handle). `FromStringList`
  models `fromStringList`, whose inputs are String values. Both go through
  `AdoptFresh`: a temporary holding a fresh backend is move-assigned
  into the handle and then destroyed, so the old backend is dereferenced.
- `StreamIn` models `operator>>`: the target gets a fresh backend holding
  the parsed elements (a parsed document holds no Undefined), or becomes
  null when the document holds no array.
- `Plus` models `dst = src + v`. The copy inside `operator+` shares the
  backend, so the append always clones: the result is a fresh backend.
- The aliases `RemoveFirst`, `RemoveLast`, `PopFront`, `PopBack`,
  `PushBack`, `PushFront`, `PlusAssign` (`+=`) and `ShiftAppend` (`<<`)
  are the member they are documented to equal.
- The iterator actions are `Begin`, `End`, `Increment`, `Decrement`,
  `AdvanceBy` (`+=`, `-=`, `+`, `-`), `IterAssign` (`*it = v`,
  `it[j] = v`), `EraseIt` and `InsertIt`. An iterator lives in a proxy
  slot. `Begin` and `End` model the non-const overloads, which call
  `detach()` (`DetachOnly`) first. A move is allowed only within `begin() .. end()`, the range where
  it is defined.
- `ComparesEqualValue` models `comparesEqual(array, QJsonValue)`, which is
  `lhs == rhs.toArray()`.

The inline members (the aliases, `operator+`, the iterators) are in
`qjsonarray.h`, which is not in the repository. Their map entries name
the `\fn` documentation block in the `.cpp` from which each is modelled.

Shared pieces:

- `DetachAndSet` is `detach()` together with the edit that follows it;
  `DetachOnly` is `detach()` alone.
- `AllocateWith` is the `new QCborContainerPrivate` of `insert`.
- The read-only members are operators: `Size`, `IsEmpty`, `At`, `First`,
  `Last`, `Contains` and `ComparesEqual`.

Spec-modelled definitions (in PROJECT.json's map) cover code that is not
under `src/`:

- the codec and the two equalities (`qjsonvalue.cpp`, `qcborvalue.cpp`);
- the element edits of `QCborContainerPrivate`;
- ref and deref of the shared pointer;
- `swap` and `QJsonValueRef::operator=` (`qjsonarray.h`, `qjsonvalue.cpp`).

Values are records `[t, x]`: a CBOR type tag and a payload. Two tags are
enough to tell the equalities apart: `Integer` 2 and `Double` 2.0.

## Properties and runs

**`main`** (`MC_QJsonArray.cfg`, expected to pass). The bounds are 3
handles, 3 backends, 1 proxy or iterator, values {Undefined, Null, a
String}, `MaxLen` 2 and `MaxListLen` 1. Symmetry is on handles and
backends, which are interchangeable model values. About 77 000 distinct
states, in about two and a half minutes. It checks:

- `TypeOK`.
- `SharingSound`: every allocated backend's `ref` equals its number of
  holders, no handle points to a freed backend, and none is leaked.
- `EqualityIsValueEquality`: `comparesEqual(l, r)` holds exactly when the
  two handles denote the same sequence.
- `NoSharedMutation`, an action property: a step changes the elements of
  an allocated backend only when its `ref` is 1.

**`refinement`** (`MC_QJsonArray_refinement.cfg`, expected to pass).
`ValueSemantics`: the refinement `QJsonArrayValue!Spec` under the mapping
`val[h] = Val(h)`. Whatever sharing happens underneath, each handle
behaves as an independent value. The bounds are 2 handles, 3 backends and
2 proxies, so a ref and an iterator can be kept at once. About 16 000 distinct states, in
about a minute. The abstract specification has an action per kind of edit:
insert, remove, take (in and out of range), replace, copy, move, swap,
clear, `Construct(h, s)` from a list `s` (its elements normalized as
`insert` does), and `AssignPlus` for `dst = src + v`. Each sets `op` to
its name and arguments. So a step must do what its own operation does to
the value, not merely keep the handles independent: an off-by-one in
`removeAt`, or a constructor storing the wrong elements, breaks it.

Why the bounds are enough:

- 3 handles let two handles share a backend while a third is copied,
  moved or swapped into them. Two handles are enough for the refinement:
  one copy and a write through a ref into the other.
- 3 backends let a clone be allocated while two others are live.
- A length of 2 reaches insertion between elements, and removal of the
  first and of the last.
- One proxy suffices for sharing: a ref outlives a copy of its array.
  Two let a ref and an iterator into one array coexist.

Each property of a passing run has a mutant, a plausible bug in the code
that TLC catches under that run's cfg:

| mutant | property it breaks |
|---|---|
| `operator[]` without its index check | `TypeOK` |
| the move constructor not nulling `other.a` | `SharingSound` |
| null not equal to empty | `EqualityIsValueEquality` |
| `removeAt` without `detach()` | `NoSharedMutation` |
| `removeAt(size())` not returning early (`i > size()` for `i >= size()`) | `ValueSemantics` |

**`equality`** (expected violation). `EqualityIsElementwise` is section 8
of the spec: equal length and element-wise `QJsonValue` equality. TLC
finds `[Integer 2]` vs `[Double 2.0]`. `comparesEqual` says they differ,
while `QJsonValue(2) == QJsonValue(2.0)` and `contains` finds 2.0 in [2].

**`undefined`** (expected violation). `UndefinedOnlyOutOfRange` says
`at(i)` returns Undefined only out of range, as its documentation says. It
fails after `replace(i, QJsonValue::Undefined)`, which stores Undefined
without the normalization `insert` applies.

**`valuecmp`** (expected violation). `ComparisonWithValueIsTyped` says an
array never equals a `QJsonValue` that is not an array. It fails in the
initial state: `toArray()` of a scalar is empty, so a null array equals
`QJsonValue::Null` and every other scalar.

No liveness is checked, and no fairness is assumed. The class is passive:
nothing in it must eventually happen on its own.

## What is proved (`QJsonArray_proofs`)

The proofs hold for every value of the constants, under
`ConstantsAssumption`:

- `Handles` is finite.
- `Values` is a set of `[t, x]` records containing Undefined and Null.
- Undefined and Null values carry no payload (`x = 0`), as
  `QJsonValue::Undefined` and `QJsonValue::Null` carry none. `insert`
  tests the JSON type of its argument, while `QJsonArrayValue` tests
  for the value Undefined. The refinement proof needs the two tests to
  agree (lemma `InsertedIsNormalized`).
- `NoBackend` is not a backend.
- The bounds are naturals.

The theorems:

- `IInvInvariant`: `Spec => []IInv`.
- `TypeCorrect`: `Spec => []TypeOK`.
- `SharingIsSound`: `Spec => []SharingSound`.
- `DetachBeforeMutate`: `Spec => NoSharedMutation`, the action property.
  It follows from `IInv` by `NextSafe`: in detach's clone branch nothing
  is freed, and elsewhere a backend is freed only at its last reference.
- `EqualityIsValue`: `Spec => []EqualityIsValueEquality`. It needs only
  `TypeOK` (lemma `EqualityFromTypes`): each branch of `comparesEqual`
  agrees with sequence equality, the element loop by extensionality.

`IInv` (defined in `QJsonArray`) is `TypeOK` and `SharingSound` in the form
the proof needs:

- `CountInv` gives the holder count of every backend at once: `ref` if it
  is allocated, 0 if it is freed.
- `PosInv` says every allocated backend has a positive count.

The argument:

1. `HoldersExcept` is the counting lemma: changing one handle's pointer
   changes each backend's holder count by +1 or −1.
2. `Redirect` shows that every pointer change in the code preserves
   `StoreOK`. These are the clone in detach, the allocation in insert,
   copy assignment, destruction and `AdoptFresh` (the constructors,
   `fromStringList`, `operator+` and `operator>>`). Each one moves one handle
   from `a[h]` to `nb`, adds one reference to `nb`, and drops one from
   `a[h]`, deleting it at 0.
3. The move constructor and swap change two pointers, so each applies the
   counting lemma twice.
4. In detach's clone branch, `PosInv` and the fact that the count is not 1
   give `ref >= 2`. So the deref never deletes the old backend.
5. The iterator moves change only `proxy` (`ProxyOnlyIInv`); the
   iterator writes are `DetachAndSet`, `removeAt` or `insert` on the
   iterator's array, and reuse their lemmas.
6. `NextIInv` has one case per disjunct of `Next`. `IInvInvariant` combines
   it with `InitIInv` by PTL. `TypeCorrect` and `SharingIsSound` follow
   from `IInv`.

## What is proved (`QJsonArray_refinement_proofs`)

`Refinement`: `Spec => ValueSemantics`. That is, under
`val[h] = Val(h)`, QJsonArray implements `QJsonArrayValue!Spec` for every
instance. It follows the usual three steps:

1. `Init` maps to `Abstract!Init`.
2. `IInv /\ [Next]_vars => [Abstract!Next]_Abstract!vars`.
3. Step 2 is combined with `IInvInvariant` by PTL.

Step 2 (`StepRefines`) uses `IInv` in both states (obtained with
`NextIInv`). It has one case per disjunct of `Next`, and rests on:

- `SoleHolder`: a backend with count 1 is held by one handle only. So
  detach's in-place branch changes no other handle's value.
- `FreedUnseen` and `HeldIsLiveNext`: after a step, no handle holds a
  freed backend. So `FreeElems` never changes a value a handle sees.
- Lemmas for each member function:
  - `DetachVal`, `AllocVal`, `AdoptFreshVal`, `CopyAssignVal`,
    `MoveConstructVal`, `DestroyVal` and `SwapVal` say how each one
    changes `Val`.
  - `OneChanged` turns that into the `EXCEPT` form of the abstract
    action.
  - `InsertRefines` through `PlusRefines` identify the abstract action,
    its `op` included.
- `takeAt` out of range maps to `Abstract!TakeAtOutOfRange(h, i)` at the
  same index.
- The constructors, `fromStringList` and `operator>>` map to
  `Abstract!Construct(h, s)`: `StoredListNormalized` and
  `ParsedNormalized` show the stored elements are the list normalized.
- The non-const `begin()` and `end()` are stutters: the clone holds the
  same elements (`DetachOnlyStutters`).
- Steps that only move a ref or an iterator are stutters
  (`ProxyStepStutters`).
- `AbstractNextIntro` puts each abstract action into `Abstract!Next`.

## Only model-checked

Every safety invariant and the refinement that the passing runs check is
also proved. What stays with TLC:

- The violation runs, which exhibit a behaviour: a proof cannot do that.
- The deadlock-freedom part of each passing run. It is a statement about
  `ENABLED Next`, which is out of the provers' reach.

No liveness property is stated (see above).

## Not modelled, and why

- **`qHash`.** A pure function with no state.
- **QDebug and `operator<<` to a stream.** They only read the array; the
  byte format is out of scope.
- **`fromVariantList` and `toVariantList`.** QVariant code outside `src/`.
- **Iterator comparisons and reads through a `const_iterator`.** They
  change no state.
- **Allocation failure.** `QCborContainerPrivate::detach` either returns a
  clone or throws before `a` is assigned. A failing mutation leaves the
  array and the shared backend as they were: a stutter.
- **Nested arrays and objects inside elements, with their own reference
  counts.**
- **Cross-thread races on the atomic count.** The class is reentrant, not
  thread-safe: each object is used by one thread, and each member function
  runs atomically in the model.

## Plan for later work

1. A `QJsonArrayThreads` module: `detach` split into its refcount load,
   clone and pointer swap, with two threads on two copies of one backend.
2. Nested containers: an element that is itself a shared array, and
   `at()` handing out a second reference to it.
