-------------------- MODULE QJsonArray_refinement_proofs --------------------
(***************************************************************************)
(* QJsonArray implements QJsonArrayValue: seen through Val, the handles    *)
(* behave as independent values whatever sharing, cloning and freeing of   *)
(* QCborContainerPrivate backends happens underneath.  Each member         *)
(* function is shown to be a step of the abstract specification (or a      *)
(* stutter of it) under the mapping val[h] = Val(h).  The history        *)
(* variable op, which both modules update alike, makes each member        *)
(* function match the abstract operation of its own name and arguments.   *)
(*                                                                         *)
(* The argument rests on the inductive invariant IInv of QJsonArray_proofs *)
(* in the states before and after the step: a backend held by one handle   *)
(* only is its own (SoleHolder), a handle never holds a freed backend      *)
(* (FreedUnseen), and a fresh backend is held by nobody else.              *)
(***************************************************************************)
EXTENDS QJsonArray_proofs

\* The abstract state of the refinement mapping.
VB == [h \in Handles |-> Val(h)]

----------------------------------------------------------------------------
(* Lemmas about the element codec.                                         *)

\* insert() tests the JSON type of its argument for Undefined; the abstract
\* specification tests for the value Undefined.  They agree because an
\* Undefined QJsonValue carries no payload.
LEMMA InsertedIsNormalized ==
  ASSUME NEW v \in Values
  PROVE  (IF JsonType(v) = "Undefined" THEN FromJsonValue(NullValue) ELSE FromJsonValue(v))
           = Abstract!Normalized(v)
<1>1. /\ v \in [t : CborTypes, x : Int]
      /\ v.t \in {"Undefined", "Null"} => v.x = 0
  BY ConstantsAssumption
<1>2. JsonType(v) = "Undefined" <=> v = Undefined
  BY <1>1 DEF JsonType, Undefined
<1>. QED  BY <1>2, CodecType, ConstantsAssumption DEF Abstract!Normalized

----------------------------------------------------------------------------
(* Lemmas about who sees a backend.                                        *)

\* A backend whose count is 1 is held by one handle only: the ref = 1
\* branch of detach() edits a backend no other handle observes.
LEMMA SoleHolder ==
  ASSUME StoreOK, NEW h \in Handles, a[h] # NoBackend, ref[a[h]] = 1
  PROVE  \A g \in Handles \ {h} : a[g] # a[h]
<1>1. Cardinality(Holders(a[h])) = 1  BY HeldIsLive
<1>2. IsFiniteSet(Holders(a[h]))  BY HoldersFinite DEF Holders
<1>3. PICK y : Holders(a[h]) = {y}  BY <1>1, <1>2, FS_Singleton
<1>. QED  BY <1>3 DEF Holders, HoldersIn

\* After a step, a held backend is allocated.
LEMMA HeldIsLiveNext ==
  ASSUME StoreOK', NEW h \in Handles, a'[h] # NoBackend
  PROVE  a'[h] \in live'
<1>1. a'[h] \in Backends  BY DEF StoreOK
<1>2. h \in HoldersIn(a', a'[h])  BY DEF HoldersIn
<1>3. Cardinality(HoldersIn(a', a'[h])) # 0  BY <1>2, EmptyIffZero
<1>. QED  BY <1>1, <1>3 DEF StoreOK, CountInv, Holders

\* A step that frees the backends of D and leaves E in the others: every
\* handle still holding a backend after it sees E there, as no handle holds
\* a freed backend.
LEMMA FreedUnseen ==
  ASSUME StoreOK', NEW E, NEW D, elems' = FreeElems(E, D), live' \cap D = {},
         NEW g \in Handles, a'[g] # NoBackend
  PROVE  Val(g)' = E[a'[g]]
<1>1. a'[g] \in live' /\ a'[g] \in Backends  BY HeldIsLiveNext DEF StoreOK
<1>. QED  BY <1>1 DEF Val, FreeElems

----------------------------------------------------------------------------
(* What each pointer change does to the values.                            *)

\* detach() followed by the edit leaving s: h denotes s, and every other
\* handle keeps its value, in both branches of detach().
LEMMA DetachVal ==
  ASSUME StoreOK, StoreOK', NEW h \in Handles, a[h] # NoBackend, NEW s,
         DetachAndSet(h, s)
  PROVE  /\ Val(h)' = s
         /\ \A g \in Handles \ {h} : Val(g)' = Val(g)
<1>1. a[h] \in live /\ ref[a[h]] >= 1  BY HeldIsLive
<1>2. CASE /\ ref[a[h]] = 1
           /\ elems' = [elems EXCEPT ![a[h]] = s]
           /\ UNCHANGED <<a, ref, live>>
  <2>1. \A g \in Handles \ {h} : a[g] # a[h]  BY <1>2, SoleHolder
  <2>. QED  BY <1>1, <1>2, <2>1 DEF Val, StoreOK
<1>3. CASE /\ ref[a[h]] # 1
           /\ \E nb \in Backends \ live :
                /\ a' = [a EXCEPT ![h] = nb]
                /\ ref' = Unref([ref EXCEPT ![nb] = 1], a[h])
                /\ live' = (live \cup {nb}) \ Deleted(Unref([ref EXCEPT ![nb] = 1], a[h]), a[h])
                /\ elems' = FreeElems([elems EXCEPT ![nb] = s],
                                      Deleted(Unref([ref EXCEPT ![nb] = 1], a[h]), a[h]))
  <2>1. PICK nb \in Backends \ live :
                /\ a' = [a EXCEPT ![h] = nb]
                /\ ref' = Unref([ref EXCEPT ![nb] = 1], a[h])
                /\ live' = (live \cup {nb}) \ Deleted(Unref([ref EXCEPT ![nb] = 1], a[h]), a[h])
                /\ elems' = FreeElems([elems EXCEPT ![nb] = s],
                                      Deleted(Unref([ref EXCEPT ![nb] = 1], a[h]), a[h]))
    BY <1>3
  <2>2. live' \cap Deleted(Unref([ref EXCEPT ![nb] = 1], a[h]), a[h]) = {}
    BY <2>1
  <2>3. /\ a'[h] = nb /\ a'[h] # NoBackend
        /\ \A g \in Handles \ {h} : a'[g] = a[g]
    BY <2>1, ConstantsAssumption DEF StoreOK
  <2>4. PICK E : /\ E = [elems EXCEPT ![nb] = s]
                 /\ elems' = FreeElems(E, Deleted(Unref([ref EXCEPT ![nb] = 1], a[h]), a[h]))
    BY <2>1
  <2>5. Val(h)' = s
    <3>1. Val(h)' = E[a'[h]]  BY <2>2, <2>3, <2>4, FreedUnseen
    <3>. QED  BY <2>3, <2>4, <3>1 DEF StoreOK
  <2>6. ASSUME NEW g \in Handles \ {h} PROVE Val(g)' = Val(g)
    <3>1. CASE a[g] = NoBackend
      BY <2>3, <3>1 DEF Val
    <3>2. CASE a[g] # NoBackend
      <4>1. a[g] \in live  BY <3>2, HeldIsLive
      <4>2. Val(g)' = E[a'[g]]  BY <2>2, <2>3, <2>4, <3>2, FreedUnseen
      <4>. QED  BY <2>1, <2>3, <2>4, <3>2, <4>1, <4>2 DEF Val, StoreOK
    <3>. QED  BY <3>1, <3>2
  <2>. QED  BY <2>5, <2>6
<1>. QED  BY <1>2, <1>3 DEF DetachAndSet

----------------------------------------------------------------------------
\* A step that only frees backends: a handle now pointing where k pointed
\* denotes what k denoted.
LEMMA FreedKeeps ==
  ASSUME StoreOK', NEW D, elems' = FreeElems(elems, D), live' \cap D = {},
         NEW g \in Handles, NEW k \in Handles, a'[g] = a[k]
  PROVE  Val(g)' = Val(k)
<1>1. CASE a[k] = NoBackend
  BY <1>1 DEF Val
<1>2. CASE a[k] # NoBackend
  <2>1. Val(g)' = elems[a'[g]]  BY <1>2, FreedUnseen
  <2>. QED  BY <1>2, <2>1 DEF Val
<1>. QED  BY <1>1, <1>2

\* insert() on a null handle: h denotes s, the others keep their values.
LEMMA AllocVal ==
  ASSUME StoreOK, NEW h \in Handles, a[h] = NoBackend, NEW s, AllocateWith(h, s)
  PROVE  /\ Val(h)' = s
         /\ \A g \in Handles \ {h} : Val(g)' = Val(g)
<1>1. PICK nb \in Backends \ live :
        /\ a' = [a EXCEPT ![h] = nb]
        /\ elems' = [elems EXCEPT ![nb] = s]
  BY DEF AllocateWith
<1>2. Val(h)' = s
  BY <1>1, ConstantsAssumption DEF Val, StoreOK
<1>3. ASSUME NEW g \in Handles \ {h} PROVE Val(g)' = Val(g)
  <2>1. a[g] # NoBackend => a[g] \in live  BY HeldIsLive
  <2>. QED  BY <1>1, <2>1 DEF Val, StoreOK
<1>. QED  BY <1>2, <1>3

\* A temporary holding ev in a fresh backend move-assigned into h.
LEMMA AdoptFreshVal ==
  ASSUME StoreOK, StoreOK', NEW h \in Handles, NEW ev, AdoptFresh(h, ev)
  PROVE  /\ Val(h)' = ev
         /\ \A g \in Handles \ {h} : Val(g)' = Val(g)
<1>1. PICK nb \in Backends \ live :
        /\ a' = [a EXCEPT ![h] = nb]
        /\ live' = (live \cup {nb}) \ Deleted(Unref(ref, a[h]), a[h])
        /\ elems' = FreeElems([elems EXCEPT ![nb] = ev], Deleted(Unref(ref, a[h]), a[h]))
  BY DEF AdoptFresh
<1>2. PICK E : /\ E = [elems EXCEPT ![nb] = ev]
               /\ elems' = FreeElems(E, Deleted(Unref(ref, a[h]), a[h]))
  BY <1>1
<1>3. live' \cap Deleted(Unref(ref, a[h]), a[h]) = {}  BY <1>1
<1>4. /\ a'[h] = nb /\ a'[h] # NoBackend
      /\ \A g \in Handles \ {h} : a'[g] = a[g]
  BY <1>1, ConstantsAssumption DEF StoreOK
<1>5. Val(h)' = ev
  <2>1. Val(h)' = E[a'[h]]  BY <1>2, <1>3, <1>4, FreedUnseen
  <2>. QED  BY <1>2, <1>4, <2>1 DEF StoreOK
<1>6. ASSUME NEW g \in Handles \ {h} PROVE Val(g)' = Val(g)
  <2>1. CASE a[g] = NoBackend
    BY <1>4, <2>1 DEF Val
  <2>2. CASE a[g] # NoBackend
    <3>1. a[g] \in live  BY <2>2, HeldIsLive
    <3>2. Val(g)' = E[a'[g]]  BY <1>2, <1>3, <1>4, <2>2, FreedUnseen
    <3>. QED  BY <1>1, <1>2, <1>4, <2>2, <3>1, <3>2 DEF Val, StoreOK
  <2>. QED  BY <2>1, <2>2
<1>. QED  BY <1>5, <1>6

\* Copy assignment: dst denotes what src denotes, the others are unchanged.
LEMMA CopyAssignVal ==
  ASSUME StoreOK, StoreOK', NEW dst \in Handles, NEW src \in Handles, CopyAssign(dst, src)
  PROVE  /\ Val(dst)' = Val(src)
         /\ \A g \in Handles \ {dst} : Val(g)' = Val(g)
<1>1. /\ a' = [a EXCEPT ![dst] = a[src]]
      /\ live' = live \ Deleted(ref', a[dst])
      /\ elems' = FreeElems(elems, Deleted(ref', a[dst]))
  BY DEF CopyAssign
<1>2. live' \cap Deleted(ref', a[dst]) = {}  BY <1>1
<1>3. a \in [Handles -> Backends \cup {NoBackend}]  BY DEF StoreOK
<1>4. a'[dst] = a[src] /\ \A g \in Handles \ {dst} : a'[g] = a[g]  BY <1>1, <1>3 DEF StoreOK
<1>. QED  BY <1>1, <1>2, <1>4, FreedKeeps

\* Move construction: dst denotes what src denoted, src is null.
LEMMA MoveConstructVal ==
  ASSUME StoreOK', NEW dst \in Handles, NEW src \in Handles, MoveConstruct(dst, src)
  PROVE  /\ Val(dst)' = Val(src)
         /\ Val(src)' = << >>
         /\ \A g \in Handles \ {dst, src} : Val(g)' = Val(g)
<1>1. /\ dst # src
      /\ a' = [a EXCEPT ![dst] = a[src], ![src] = NoBackend]
      /\ live' = live \ Deleted(ref', a[dst])
      /\ elems' = FreeElems(elems, Deleted(ref', a[dst]))
  BY DEF MoveConstruct
<1>2. live' \cap Deleted(ref', a[dst]) = {}  BY <1>1
<1>3. /\ a'[dst] = a[src] /\ a'[src] = NoBackend
      /\ \A g \in Handles \ {dst, src} : a'[g] = a[g]
  BY <1>1 DEF StoreOK
<1>4. Val(src)' = << >>  BY <1>3 DEF Val
<1>. QED  BY <1>1, <1>2, <1>3, <1>4, FreedKeeps

\* Destruction: h is null, the others are unchanged.
LEMMA DestroyVal ==
  ASSUME StoreOK', NEW h \in Handles, Destroy(h)
  PROVE  /\ Val(h)' = << >>
         /\ \A g \in Handles \ {h} : Val(g)' = Val(g)
<1>1. /\ a' = [a EXCEPT ![h] = NoBackend]
      /\ live' = live \ Deleted(ref', a[h])
      /\ elems' = FreeElems(elems, Deleted(ref', a[h]))
  BY DEF Destroy
<1>2. live' \cap Deleted(ref', a[h]) = {}  BY <1>1
<1>3. a'[h] = NoBackend /\ \A g \in Handles \ {h} : a'[g] = a[g]  BY <1>1 DEF StoreOK
<1>4. Val(h)' = << >>  BY <1>3 DEF Val
<1>. QED  BY <1>2, <1>1, <1>3, <1>4, FreedKeeps

\* swap(): the two handles exchange their values.
LEMMA SwapVal ==
  ASSUME StoreOK, NEW h1 \in Handles, NEW h2 \in Handles, Swap(h1, h2)
  PROVE  /\ Val(h1)' = Val(h2)
         /\ Val(h2)' = Val(h1)
         /\ \A g \in Handles \ {h1, h2} : Val(g)' = Val(g)
BY DEF Swap, Val, StoreOK

----------------------------------------------------------------------------
(* Each member function is a step of QJsonArrayValue.                      *)

\* The mapped state after a step that changes only the value of h.
LEMMA OneChanged ==
  ASSUME NEW h \in Handles, NEW X, Val(h)' = X,
         \A g \in Handles \ {h} : Val(g)' = Val(g)
  PROVE  VB' = [VB EXCEPT ![h] = X]
BY DEF VB

\* insert(i, value) is the abstract Insert.
LEMMA InsertRefines ==
  ASSUME IInv, IInv', NEW h \in Handles, NEW i \in Int, NEW v \in Values, Insert(h, i, v)
  PROVE  Abstract!Insert(h, i, v)
<1> DEFINE ins == IF JsonType(v) = "Undefined" THEN FromJsonValue(NullValue) ELSE FromJsonValue(v)
<1>0. StoreOK /\ StoreOK'  BY DEF IInv
<1>1. ins = Abstract!Normalized(v)  BY InsertedIsNormalized
<1>2. /\ Val(h)' = Abstract!InsertSeq(Val(h), i, ins)
      /\ \A g \in Handles \ {h} : Val(g)' = Val(g)
  <2>1. CASE a[h] # NoBackend
    <3>1. DetachAndSet(h, InsertElem(elems[a[h]], i, ins))  BY <2>1 DEF Insert
    <3>2. InsertElem(elems[a[h]], i, ins) = Abstract!InsertSeq(Val(h), i, ins)
      BY <2>1 DEF Val, InsertElem, Abstract!InsertSeq
    <3>. QED  BY <1>0, <2>1, <3>1, <3>2, DetachVal
  <2>2. CASE a[h] = NoBackend
    <3>1. AllocateWith(h, InsertElem(<< >>, i, ins))  BY <2>2 DEF Insert
    <3>2. InsertElem(<< >>, i, ins) = Abstract!InsertSeq(Val(h), i, ins)
      BY <2>2 DEF Val, InsertElem, Abstract!InsertSeq
    <3>. QED  BY <1>0, <2>2, <3>1, <3>2, AllocVal
  <2>. QED  BY <2>1, <2>2
<1>3. VB' = [VB EXCEPT ![h] = Abstract!InsertSeq(VB[h], i, Abstract!Normalized(v))]
  <2>1. VB[h] = Val(h)  BY DEF VB
  <2>. QED  BY <1>1, <1>2, <2>1, OneChanged
<1>4. i \in 0 .. Len(VB[h]) /\ taken' = taken /\ op' = <<"insert", h, i, v>>
  BY DEF Insert, Size, VB, Val
<1>. QED  BY <1>3, <1>4 DEF Abstract!Insert, VB

\* A detaching replaceAt(i, fromJsonValue(v)) on h: replace(), and the
\* writes through a QJsonValueRef or an iterator, are the abstract Replace.
LEMMA ReplaceAtRefines ==
  ASSUME IInv, IInv', NEW h \in Handles, NEW i \in Int, NEW v \in Values,
         InRange(h, i),
         DetachAndSet(h, ReplaceElem(elems[a[h]], i, FromJsonValue(v))),
         UNCHANGED taken, op' = <<"replace", h, i, v>>
  PROVE  Abstract!Replace(h, i, v)
<1>0. StoreOK /\ StoreOK'  BY DEF IInv
<1>1. a[h] # NoBackend /\ elems[a[h]] \in Seq(Values) /\ i \in 0 .. Len(elems[a[h]]) - 1
  BY <1>0, InRangeType DEF InRange
<1>2. ReplaceElem(elems[a[h]], i, FromJsonValue(v)) = [VB[h] EXCEPT ![i + 1] = v]
  BY <1>1, CodecType DEF ReplaceElem, VB, Val
<1>3. /\ Val(h)' = [VB[h] EXCEPT ![i + 1] = v]
      /\ \A g \in Handles \ {h} : Val(g)' = Val(g)
  BY <1>0, <1>1, <1>2, DetachVal
<1>4. VB' = [VB EXCEPT ![h] = [VB[h] EXCEPT ![i + 1] = v]]  BY <1>3, OneChanged
<1>5. i \in 0 .. Len(VB[h]) - 1  BY <1>1 DEF VB, Val
<1>. QED  BY <1>4, <1>5 DEF Abstract!Replace, VB

\* A detaching removeAt(i) on h in range is the abstract RemoveAt.
LEMMA RemoveAtRefines ==
  ASSUME IInv, IInv', NEW h \in Handles, NEW i \in Int, RemoveAt(h, i)
  PROVE  Abstract!RemoveAt(h, i)
<1>0. StoreOK /\ StoreOK'  BY DEF IInv
<1>1. a[h] # NoBackend /\ elems[a[h]] \in Seq(Values) /\ i \in 0 .. Len(elems[a[h]]) - 1
  BY <1>0, InRangeType DEF RemoveAt, InRange
<1>2. RemoveElem(elems[a[h]], i) = Abstract!RemoveSeq(VB[h], i)
  BY <1>1 DEF RemoveElem, Abstract!RemoveSeq, VB, Val
<1>3. /\ Val(h)' = Abstract!RemoveSeq(VB[h], i)
      /\ \A g \in Handles \ {h} : Val(g)' = Val(g)
  BY <1>0, <1>1, <1>2, DetachVal DEF RemoveAt
<1>4. VB' = [VB EXCEPT ![h] = Abstract!RemoveSeq(VB[h], i)]  BY <1>3, OneChanged
<1>5. i \in 0 .. Len(VB[h]) - 1 /\ taken' = taken /\ op' = <<"removeAt", h, i>>
  BY <1>1 DEF VB, Val, RemoveAt
<1>. QED  BY <1>4, <1>5 DEF Abstract!RemoveAt, VB

\* takeAt(i) in range is the abstract TakeAt: it returns the old element.
LEMMA TakeAtRefines ==
  ASSUME IInv, IInv', NEW h \in Handles, NEW i \in Int, TakeAt(h, i)
  PROVE  Abstract!TakeAt(h, i)
<1>0. StoreOK /\ StoreOK'  BY DEF IInv
<1>1. a[h] # NoBackend /\ elems[a[h]] \in Seq(Values) /\ i \in 0 .. Len(elems[a[h]]) - 1
  BY <1>0, InRangeType DEF TakeAt, InRange
<1>2. RemoveElem(elems[a[h]], i) = Abstract!RemoveSeq(VB[h], i)
  BY <1>1 DEF RemoveElem, Abstract!RemoveSeq, VB, Val
<1>3. /\ Val(h)' = Abstract!RemoveSeq(VB[h], i)
      /\ \A g \in Handles \ {h} : Val(g)' = Val(g)
  BY <1>0, <1>1, <1>2, DetachVal DEF TakeAt
<1>4. VB' = [VB EXCEPT ![h] = Abstract!RemoveSeq(VB[h], i)]  BY <1>3, OneChanged
<1>5. taken' = VB[h][i + 1]
  <2>1. elems[a[h]][i + 1] \in Values  BY <1>1
  <2>2. taken' = elems[a[h]][i + 1]  BY <2>1, CodecType DEF TakeAt
  <2>3. VB[h] = elems[a[h]]  BY <1>1 DEF VB, Val
  <2>. QED  BY <2>2, <2>3
<1>6. i \in 0 .. Len(VB[h]) - 1 /\ op' = <<"takeAt", h, i>>  BY <1>1 DEF VB, Val, TakeAt
<1>. QED  BY <1>4, <1>5, <1>6 DEF Abstract!TakeAt, VB

\* takeAt(i) out of range is the abstract TakeAtOutOfRange at the same
\* index: a null array has no index in range.
LEMMA TakeAtOutOfRangeRefines ==
  ASSUME IInv, NEW h \in Handles, NEW i \in Int, TakeAtOutOfRange(h, i)
  PROVE  Abstract!TakeAtOutOfRange(h, i)
<1>1. VB' = VB  BY DEF TakeAtOutOfRange, VB, Val
<1>2. i \notin 0 .. Len(VB[h]) - 1
  <2>1. StoreOK  BY DEF IInv
  <2>2. CASE a[h] = NoBackend  BY <2>2 DEF VB, Val
  <2>3. CASE a[h] # NoBackend
    <3>1. elems[a[h]] \in Seq(Values)  BY <2>1, <2>3 DEF StoreOK
    <3>. QED  BY <2>3, <3>1 DEF VB, Val, TakeAtOutOfRange, InRange
  <2>. QED  BY <2>2, <2>3
<1>. QED  BY <1>1, <1>2 DEF TakeAtOutOfRange, Abstract!TakeAtOutOfRange, VB

\* A step that changes neither pointers nor elements nor taken nor op is a
\* stutter of the abstract specification.
LEMMA ProxyStepStutters ==
  ASSUME UNCHANGED <<a, elems, taken, op>>
  PROVE  UNCHANGED <<VB, taken, op>>
BY DEF VB, Val

\* detach() alone (non-const begin() and end()) changes no handle's value:
\* the clone holds the same elements.
LEMMA DetachOnlyStutters ==
  ASSUME StoreOK, StoreOK', NEW h \in Handles, DetachOnly(h)
  PROVE  VB' = VB
<1>1. CASE a[h] = NoBackend  BY <1>1 DEF DetachOnly, VB, Val
<1>2. CASE a[h] # NoBackend
  <2>1. DetachAndSet(h, elems[a[h]])  BY <1>2 DEF DetachOnly
  <2>2. /\ Val(h)' = elems[a[h]]
        /\ \A g \in Handles \ {h} : Val(g)' = Val(g)
    BY <1>2, <2>1, DetachVal
  <2>3. Val(h) = elems[a[h]]  BY <1>2 DEF Val
  <2>. QED  BY <2>2, <2>3 DEF VB
<1>. QED  BY <1>1, <1>2

\* Copy assignment is the abstract Assign.
LEMMA CopyAssignRefines ==
  ASSUME IInv, IInv', NEW dst \in Handles, NEW src \in Handles, CopyAssign(dst, src)
  PROVE  Abstract!Assign(dst, src)
<1>1. /\ Val(dst)' = VB[src]
      /\ \A g \in Handles \ {dst} : Val(g)' = Val(g)
  BY CopyAssignVal DEF IInv, VB
<1>2. VB' = [VB EXCEPT ![dst] = VB[src]]  BY <1>1, OneChanged
<1>. QED  BY <1>2 DEF CopyAssign, Abstract!Assign, VB

\* Move construction is the abstract Move.
LEMMA MoveConstructRefines ==
  ASSUME IInv, IInv', NEW dst \in Handles, NEW src \in Handles, MoveConstruct(dst, src)
  PROVE  Abstract!Move(dst, src)
<1>1. /\ dst # src
      /\ Val(dst)' = Val(src)
      /\ Val(src)' = << >>
      /\ \A g \in Handles \ {dst, src} : Val(g)' = Val(g)
  BY MoveConstructVal DEF IInv, MoveConstruct
<1>2. VB' = [VB EXCEPT ![dst] = VB[src], ![src] = << >>]  BY <1>1 DEF VB
<1>. QED  BY <1>1, <1>2 DEF MoveConstruct, Abstract!Move, VB

\* swap() is the abstract Swap.
LEMMA SwapRefines ==
  ASSUME IInv, NEW h1 \in Handles, NEW h2 \in Handles, Swap(h1, h2)
  PROVE  Abstract!Swap(h1, h2)
<1>1. /\ h1 # h2
      /\ Val(h1)' = Val(h2)
      /\ Val(h2)' = Val(h1)
      /\ \A g \in Handles \ {h1, h2} : Val(g)' = Val(g)
  BY SwapVal DEF IInv, Swap
<1>2. VB' = [VB EXCEPT ![h1] = VB[h2], ![h2] = VB[h1]]  BY <1>1 DEF VB
<1>. QED  BY <1>2 DEF Swap, Abstract!Swap, VB

\* Destruction (the handle then reused as QJsonArray()) is the abstract Clear.
LEMMA DestroyRefines ==
  ASSUME IInv, IInv', NEW h \in Handles, Destroy(h)
  PROVE  Abstract!Clear(h)
<1>1. /\ Val(h)' = << >>
      /\ \A g \in Handles \ {h} : Val(g)' = Val(g)
  BY DestroyVal DEF IInv
<1>2. VB' = [VB EXCEPT ![h] = << >>]  BY <1>1, OneChanged
<1>. QED  BY <1>2 DEF Destroy, Abstract!Clear, VB

\* Move-assigning a fresh array holding the normalized elements of s,
\* recorded as constructing from s, is the abstract Construct.
LEMMA AdoptFreshRefines ==
  ASSUME IInv, IInv', NEW h \in Handles, NEW s, NEW ev,
         ev = [j \in DOMAIN s |-> Abstract!Normalized(s[j])],
         AdoptFresh(h, ev), op' = <<"construct", h, s>>
  PROVE  Abstract!Construct(h, s)
<1>1. /\ Val(h)' = ev
      /\ \A g \in Handles \ {h} : Val(g)' = Val(g)
  BY AdoptFreshVal DEF IInv
<1>2. VB' = [VB EXCEPT ![h] = ev]  BY <1>1, OneChanged
<1>. QED  BY <1>2 DEF AdoptFresh, Abstract!Construct, VB

\* The elements stored for an initializer list or a string list are the
\* list's values normalized as insert() does.
LEMMA StoredListNormalized ==
  ASSUME NEW s \in Lists
  PROVE  StoredList(s) = [j \in DOMAIN s |-> Abstract!Normalized(s[j])]
<1>1. \A j \in DOMAIN s : s[j] \in Values  BY DEF Lists
<1>2. \A j \in DOMAIN s : StoredList(s)[j] = Abstract!Normalized(s[j])
  BY <1>1, InsertedIsNormalized DEF StoredList
<1>. QED  BY <1>2 DEF StoredList

\* The elements of a parsed array document are its values unchanged: JSON
\* text has no Undefined to normalize.
LEMMA ParsedNormalized ==
  ASSUME NEW s \in ParsedLists
  PROVE  [j \in DOMAIN s |-> FromJsonValue(s[j])] = [j \in DOMAIN s |-> Abstract!Normalized(s[j])]
<1> SUFFICES ASSUME NEW j \in DOMAIN s PROVE FromJsonValue(s[j]) = Abstract!Normalized(s[j])
  OBVIOUS
<1>1. s[j] \in Values /\ JsonType(s[j]) # "Undefined"  BY DEF ParsedLists, Lists
<1>2. FromJsonValue(s[j]) = s[j]  BY <1>1, CodecType
<1>3. s[j] # Undefined  BY <1>1 DEF JsonType, Undefined
<1>. QED  BY <1>2, <1>3 DEF Abstract!Normalized

\* dst = src + value is the abstract AssignPlus.
LEMMA PlusRefines ==
  ASSUME IInv, IInv', NEW dst \in Handles, NEW src \in Handles, NEW v \in Values,
         Plus(dst, src, v)
  PROVE  Abstract!AssignPlus(dst, src, v)
<1> DEFINE ins == IF JsonType(v) = "Undefined" THEN FromJsonValue(NullValue) ELSE FromJsonValue(v)
<1>1. ins = Abstract!Normalized(v)  BY InsertedIsNormalized
<1>2. AdoptFresh(dst, Append(Val(src), ins))  BY DEF Plus
<1>3. /\ Val(dst)' = Append(VB[src], ins)
      /\ \A g \in Handles \ {dst} : Val(g)' = Val(g)
  BY <1>2, AdoptFreshVal DEF IInv, VB
<1>4. Val(dst)' = Append(VB[src], Abstract!Normalized(v))  BY <1>1, <1>3
<1>5. VB' = [VB EXCEPT ![dst] = Append(VB[src], Abstract!Normalized(v))]
  BY <1>3, <1>4, OneChanged
<1>6. op' = <<"plus", dst, src, v>>  BY DEF Plus
<1>. QED  BY <1>2, <1>5, <1>6 DEF AdoptFresh, Abstract!AssignPlus, VB

----------------------------------------------------------------------------
(* Each abstract action is a disjunct of the abstract next-state relation. *)

LEMMA AbstractNextIntro ==
  /\ \A h \in Handles, i \in Int, v \in Values : Abstract!Insert(h, i, v) => Abstract!Next
  /\ \A h \in Handles, i \in Int : Abstract!RemoveAt(h, i) => Abstract!Next
  /\ \A h \in Handles, i \in Int : Abstract!TakeAt(h, i) => Abstract!Next
  /\ \A h \in Handles, i \in Index : Abstract!TakeAtOutOfRange(h, i) => Abstract!Next
  /\ \A h \in Handles, i \in Int, v \in Values : Abstract!Replace(h, i, v) => Abstract!Next
  /\ \A h \in Handles : Abstract!Clear(h) => Abstract!Next
  /\ \A h, h2 \in Handles : Abstract!Assign(h, h2) => Abstract!Next
  /\ \A h, h2 \in Handles : Abstract!Move(h, h2) => Abstract!Next
  /\ \A h, h2 \in Handles : Abstract!Swap(h, h2) => Abstract!Next
  /\ \A h, h2 \in Handles, v \in Values : Abstract!AssignPlus(h, h2, v) => Abstract!Next
  /\ \A h \in Handles, s \in Lists : Abstract!Construct(h, s) => Abstract!Next
<1>1. \A h \in Handles, i \in Int, v \in Values : Abstract!Insert(h, i, v) => Abstract!Next
  BY DEF Abstract!Next, Abstract!Insert
<1>2. \A h \in Handles, i \in Int : Abstract!RemoveAt(h, i) => Abstract!Next
  BY DEF Abstract!Next, Abstract!RemoveAt
<1>3. \A h \in Handles, i \in Int : Abstract!TakeAt(h, i) => Abstract!Next
  BY DEF Abstract!Next, Abstract!TakeAt
<1>4. \A h \in Handles, i \in Index : Abstract!TakeAtOutOfRange(h, i) => Abstract!Next
  BY DEF Abstract!Next
<1>5. \A h \in Handles, i \in Int, v \in Values : Abstract!Replace(h, i, v) => Abstract!Next
  BY DEF Abstract!Next, Abstract!Replace
<1>6. \A h \in Handles : Abstract!Clear(h) => Abstract!Next
  BY DEF Abstract!Next
<1>7. \A h, h2 \in Handles :
        /\ Abstract!Assign(h, h2) => Abstract!Next
        /\ Abstract!Move(h, h2) => Abstract!Next
        /\ Abstract!Swap(h, h2) => Abstract!Next
  BY DEF Abstract!Next
<1>8. \A h, h2 \in Handles, v \in Values : Abstract!AssignPlus(h, h2, v) => Abstract!Next
  BY DEF Abstract!Next
<1>9. \A h \in Handles, s \in Lists : Abstract!Construct(h, s) => Abstract!Next
  BY DEF Abstract!Next
<1>. QED  BY <1>1, <1>2, <1>3, <1>4, <1>5, <1>6, <1>7, <1>8, <1>9

----------------------------------------------------------------------------
(* The step of the refinement: one case per disjunct of Next.              *)

\* A write through kept slot p at offset j (j = 0 for a QJsonValueRef).
LEMMA ProxyWriteRefines ==
  ASSUME IInv, IInv', NEW p \in Proxies, NEW j \in Int, NEW v \in Values,
         AssignRef(p, v) \/ IterAssign(p, j, v)
  PROVE  Abstract!Next
<1>1. proxy[p] \in [arr : Handles, idx : Nat]  BY DEF AssignRef, IterAssign, IInv
<1>2. CASE AssignRef(p, v)
  <2>1. Abstract!Replace(proxy[p].arr, proxy[p].idx, v)
    BY <1>1, <1>2, ReplaceAtRefines DEF AssignRef
  <2>. QED  BY <1>1, <2>1, AbstractNextIntro
<1>3. CASE IterAssign(p, j, v)
  <2>1. Abstract!Replace(proxy[p].arr, proxy[p].idx + j, v)
    BY <1>1, <1>3, ReplaceAtRefines DEF IterAssign
  <2>. QED  BY <1>1, <2>1, AbstractNextIntro
<1>. QED  BY <1>2, <1>3

\* insert() at any integer index, as append(), prepend() and their aliases
\* and insert(iterator) call it.
LEMMA InsertNext ==
  ASSUME IInv, IInv', NEW h \in Handles, NEW i \in Int, NEW v \in Values, Insert(h, i, v)
  PROVE  Abstract!Next
BY InsertRefines, AbstractNextIntro

\* removeAt() in range, as removeFirst(), removeLast(), the pops and
\* erase(iterator) call it.
LEMMA RemoveAtNext ==
  ASSUME IInv, IInv', NEW h \in Handles, NEW i \in Int, RemoveAt(h, i)
  PROVE  Abstract!Next
BY RemoveAtRefines, AbstractNextIntro

LEMMA StepRefines == IInv /\ IInv' /\ [Next]_vars => [Abstract!Next]_<<VB, taken, op>>
<1> SUFFICES ASSUME IInv, IInv', [Next]_vars PROVE [Abstract!Next]_<<VB, taken, op>>
  OBVIOUS
<1>0. Index \subseteq Int /\ Offsets \subseteq Int  BY IndexInt
<1>1. CASE \E h \in Handles, i \in Index, v \in Values : Insert(h, i, v) \/ Replace(h, i, v)
  <2>1. PICK h \in Handles, i \in Index, v \in Values : Insert(h, i, v) \/ Replace(h, i, v)
    BY <1>1
  <2>2. CASE Insert(h, i, v)  BY <1>0, <2>2, InsertNext
  <2>3. CASE Replace(h, i, v)
    <3>1. Abstract!Replace(h, i, v)  BY <1>0, <2>3, ReplaceAtRefines DEF Replace
    <3>. QED  BY <1>0, <3>1, AbstractNextIntro
  <2>. QED  BY <2>1, <2>2, <2>3
<1>2. CASE \E h \in Handles, v \in Values : Prepend(h, v) \/ AppendValue(h, v)
  <2>1. PICK h \in Handles, v \in Values : Prepend(h, v) \/ AppendValue(h, v)  BY <1>2
  <2>2. (IF a[h] # NoBackend THEN Len(elems[a[h]]) ELSE 0) \in Int
    BY DEF IInv, StoreOK
  <2>. QED  BY <2>1, <2>2, InsertNext DEF Prepend, AppendValue
<1>3. CASE \E h \in Handles, i \in Index :
             RemoveAt(h, i) \/ TakeAt(h, i) \/ TakeAtOutOfRange(h, i)
  <2>1. PICK h \in Handles, i \in Index :
             RemoveAt(h, i) \/ TakeAt(h, i) \/ TakeAtOutOfRange(h, i)
    BY <1>3
  <2>2. CASE RemoveAt(h, i)  BY <1>0, <2>2, RemoveAtNext
  <2>3. CASE TakeAt(h, i)
    BY <1>0, <2>3, TakeAtRefines, AbstractNextIntro
  <2>4. CASE TakeAtOutOfRange(h, i)
    BY <1>0, <2>4, TakeAtOutOfRangeRefines, AbstractNextIntro
  <2>. QED  BY <2>1, <2>2, <2>3, <2>4
<1>4. CASE \E h \in Handles, i \in Index, p \in Proxies : Subscript(h, i, p)
  BY <1>4, ProxyStepStutters DEF Subscript
<1>5. CASE \E p \in Proxies, v \in Values : AssignRef(p, v)
  BY <1>5, ProxyWriteRefines
<1>6. CASE \E dst, src \in Handles :
             CopyAssign(dst, src) \/ MoveConstruct(dst, src) \/ Swap(dst, src)
  <2>1. PICK dst, src \in Handles :
             CopyAssign(dst, src) \/ MoveConstruct(dst, src) \/ Swap(dst, src)
    BY <1>6
  <2>. QED  BY <2>1, CopyAssignRefines, MoveConstructRefines, SwapRefines, AbstractNextIntro
<1>7. CASE \E h \in Handles : Destroy(h)
  BY <1>7, DestroyRefines, AbstractNextIntro
<1>8. CASE \E h \in Handles, s \in Lists : FromList(h, s) \/ FromStringList(h, s)
  <2>1. PICK h \in Handles, s \in Lists : FromList(h, s) \/ FromStringList(h, s)  BY <1>8
  <2>2. AdoptFresh(h, StoredList(s)) /\ op' = <<"construct", h, s>>
    BY <2>1 DEF FromList, FromStringList
  <2>3. Abstract!Construct(h, s)  BY <2>2, StoredListNormalized, AdoptFreshRefines
  <2>. QED  BY <2>3, AbstractNextIntro
<1>9. CASE \E h \in Handles, s \in Lists \cup {<< >>} : StreamIn(h, s)
  <2>1. PICK h \in Handles, s \in Lists \cup {<< >>} : StreamIn(h, s)  BY <1>9
  <2>2. CASE /\ s \in ParsedLists
             /\ AdoptFresh(h, [j \in DOMAIN s |-> FromJsonValue(s[j])])
             /\ op' = <<"construct", h, s>>
    <3>1. Abstract!Construct(h, s)  BY <2>2, ParsedNormalized, AdoptFreshRefines
    <3>2. s \in Lists  BY <2>2 DEF ParsedLists
    <3>. QED  BY <3>1, <3>2, AbstractNextIntro
  <2>3. CASE s = << >> /\ Destroy(h)
    BY <2>3, DestroyRefines, AbstractNextIntro
  <2>. QED  BY <2>1, <2>2, <2>3 DEF StreamIn
<1>10. CASE \E dst, src \in Handles, v \in Values : Plus(dst, src, v)
  BY <1>10, PlusRefines, AbstractNextIntro
<1>11. CASE \E h \in Handles :
              RemoveFirst(h) \/ RemoveLast(h) \/ PopFront(h) \/ PopBack(h)
  <2>1. PICK h \in Handles : RemoveFirst(h) \/ RemoveLast(h) \/ PopFront(h) \/ PopBack(h)
    BY <1>11
  <2>2. Size(h) - 1 \in Int  BY DEF IInv, StoreOK, Size
  <2>. QED  BY <2>1, <2>2, RemoveAtNext DEF RemoveFirst, RemoveLast, PopFront, PopBack
<1>12. CASE \E h \in Handles, v \in Values :
              PushBack(h, v) \/ PushFront(h, v) \/ PlusAssign(h, v) \/ ShiftAppend(h, v)
  <2>1. PICK h \in Handles, v \in Values :
              PushBack(h, v) \/ PushFront(h, v) \/ PlusAssign(h, v) \/ ShiftAppend(h, v)
    BY <1>12
  <2>2. (IF a[h] # NoBackend THEN Len(elems[a[h]]) ELSE 0) \in Int
    BY DEF IInv, StoreOK
  <2>. QED  BY <2>1, <2>2, InsertNext
            DEF PushBack, PushFront, PlusAssign, ShiftAppend, Prepend, AppendValue
<1>13. CASE \E h \in Handles, p \in Proxies : Begin(h, p) \/ End(h, p)
  <2>1. PICK h \in Handles, p \in Proxies : Begin(h, p) \/ End(h, p)  BY <1>13
  <2>2. DetachOnly(h) /\ UNCHANGED <<taken, op>>  BY <2>1 DEF Begin, End
  <2>3. VB' = VB  BY <2>2, DetachOnlyStutters DEF IInv
  <2>. QED  BY <2>2, <2>3
<1>14. CASE \E p \in Proxies : Increment(p) \/ Decrement(p) \/ EraseIt(p)
  <2>1. PICK p \in Proxies : Increment(p) \/ Decrement(p) \/ EraseIt(p)  BY <1>14
  <2>2. CASE EraseIt(p)
    <3>1. proxy[p] \in [arr : Handles, idx : Nat]  BY <2>2 DEF EraseIt, IInv
    <3>. QED  BY <2>2, <3>1, RemoveAtNext DEF EraseIt
  <2>. QED  BY <2>1, <2>2, ProxyStepStutters DEF Increment, Decrement
<1>15. CASE \E p \in Proxies, j \in Offsets : AdvanceBy(p, j)
  BY <1>15, ProxyStepStutters DEF AdvanceBy
<1>16. CASE \E p \in Proxies, j \in Offsets, v \in Values : IterAssign(p, j, v)
  BY <1>0, <1>16, ProxyWriteRefines
<1>17. CASE \E p \in Proxies, v \in Values : InsertIt(p, v)
  <2>1. PICK p \in Proxies, v \in Values : InsertIt(p, v)  BY <1>17
  <2>2. proxy[p] \in [arr : Handles, idx : Nat]  BY <2>1 DEF InsertIt, IInv
  <2>. QED  BY <2>1, <2>2, InsertNext DEF InsertIt
<1>18. CASE UNCHANGED vars
  BY <1>18, ProxyStepStutters DEF vars
<1>. QED  BY <1>1, <1>2, <1>3, <1>4, <1>5, <1>6, <1>7, <1>8, <1>9, <1>10, <1>11, <1>12,
             <1>13, <1>14, <1>15, <1>16, <1>17, <1>18 DEF Next

----------------------------------------------------------------------------
(* The theorem.                                                            *)

\* Value semantics for every instance: QJsonArray refines QJsonArrayValue
\* under val[h] = Val(h).  Whatever copies, moves, swaps, detaching writes,
\* writes through operator[] refs and iterators, operator+, fromStringList
\* and operator>> the program performs, each handle behaves as an
\* independent sequence of values.
THEOREM Refinement == Spec => ValueSemantics
<1>1. Init => Abstract!Init
  BY DEF Init, Abstract!Init, Val
<1>2. IInv /\ [Next]_vars => [Abstract!Next]_Abstract!vars
  BY NextIInv, StepRefines DEF VB, Abstract!vars
<1>. QED  BY <1>1, <1>2, IInvInvariant, PTL DEF Spec, ValueSemantics, Abstract!Spec

=====
