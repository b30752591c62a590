-------------------------- MODULE QJsonArray_proofs --------------------------
(***************************************************************************)
(* Proofs about QJsonArray: type correctness and sound sharing (exact     *)
(* reference counts, no dangling pointer, no leak) for every instance.    *)
(***************************************************************************)
EXTENDS QJsonArray, FiniteSetTheorems, TLAPS

----------------------------------------------------------------------------
(* Lemmas about the sequence edits of QCborContainerPrivate.               *)

LEMMA InsertElemType ==
  ASSUME NEW S, NEW s \in Seq(S), NEW i \in 0 .. Len(s), NEW e \in S
  PROVE  /\ InsertElem(s, i, e) \in Seq(S)
         /\ Len(InsertElem(s, i, e)) = Len(s) + 1
BY DEF InsertElem

LEMMA RemoveElemType ==
  ASSUME NEW S, NEW s \in Seq(S), NEW i \in 0 .. Len(s) - 1
  PROVE  /\ RemoveElem(s, i) \in Seq(S)
         /\ Len(RemoveElem(s, i)) = Len(s) - 1
BY DEF RemoveElem

LEMMA ReplaceElemType ==
  ASSUME NEW S, NEW s \in Seq(S), NEW i \in 0 .. Len(s) - 1, NEW e \in S
  PROVE  ReplaceElem(s, i, e) \in Seq(S)
BY DEF ReplaceElem

\* The codec maps Values into Values.
LEMMA CodecType ==
  ASSUME NEW v \in Values
  PROVE  /\ FromJsonValue(v) = v
         /\ FromTrustedCbor(v) = v
BY ConstantsAssumption DEF FromJsonValue, FromTrustedCbor

----------------------------------------------------------------------------
(* Counting the handles that point to a backend.                          *)

LEMMA HoldersFinite ==
  ASSUME NEW f, NEW q
  PROVE  /\ IsFiniteSet(HoldersIn(f, q))
         /\ Cardinality(HoldersIn(f, q)) \in Nat
<1>1. HoldersIn(f, q) \subseteq Handles
  BY DEF HoldersIn
<1>2. IsFiniteSet(HoldersIn(f, q))
  BY <1>1, ConstantsAssumption, FS_Subset
<1>. QED
  BY <1>2, FS_CardinalityType

\* Redirecting one handle h (f to g) changes the count of holders of q by one
\* at most: it gains h if g[h] = q and loses h if h pointed to q.
LEMMA HoldersExcept ==
  ASSUME NEW f \in [Handles -> Backends \cup {NoBackend}],
         NEW g \in [Handles -> Backends \cup {NoBackend}],
         NEW h \in Handles, NEW q,
         \A k \in Handles \ {h} : g[k] = f[k]
  PROVE  Cardinality(HoldersIn(g, q)) =
           Cardinality(HoldersIn(f, q)) + (IF g[h] = q THEN 1 ELSE 0)
                                        - (IF f[h] = q THEN 1 ELSE 0)
<1>1. IsFiniteSet(HoldersIn(f, q)) /\ Cardinality(HoldersIn(f, q)) \in Nat
  BY HoldersFinite
<1>2. CASE g[h] = q /\ f[h] = q
  <2>1. HoldersIn(g, q) = HoldersIn(f, q)  BY <1>2 DEF HoldersIn
  <2>. QED  BY <1>2, <2>1, <1>1
<1>3. CASE g[h] = q /\ f[h] # q
  <2>1. HoldersIn(g, q) = HoldersIn(f, q) \cup {h}  BY <1>3 DEF HoldersIn
  <2>2. h \notin HoldersIn(f, q)  BY <1>3 DEF HoldersIn
  <2>3. Cardinality(HoldersIn(f, q) \cup {h}) = Cardinality(HoldersIn(f, q)) + 1
    BY <1>1, <2>2, FS_AddElement
  <2>4. (IF g[h] = q THEN 1 ELSE 0) = 1 /\ (IF f[h] = q THEN 1 ELSE 0) = 0  BY <1>3
  <2>5. Cardinality(HoldersIn(g, q)) = Cardinality(HoldersIn(f, q)) + 1
    BY <2>1, <2>3
  <2>. QED  BY <2>5, <2>4, <1>1
<1>4. CASE g[h] # q /\ f[h] = q
  <2>1. HoldersIn(g, q) = HoldersIn(f, q) \ {h}  BY <1>4 DEF HoldersIn
  <2>2. h \in HoldersIn(f, q)  BY <1>4 DEF HoldersIn
  <2>3. Cardinality(HoldersIn(f, q) \ {h}) = Cardinality(HoldersIn(f, q)) - 1
    BY <1>1, <2>2, FS_RemoveElement
  <2>4. (IF g[h] = q THEN 1 ELSE 0) = 0 /\ (IF f[h] = q THEN 1 ELSE 0) = 1  BY <1>4
  <2>5. Cardinality(HoldersIn(g, q)) = Cardinality(HoldersIn(f, q)) - 1
    BY <2>1, <2>3
  <2>. QED  BY <2>5, <2>4, <1>1
<1>5. CASE g[h] # q /\ f[h] # q
  <2>1. HoldersIn(g, q) = HoldersIn(f, q)  BY <1>5 DEF HoldersIn
  <2>. QED  BY <1>5, <2>1, <1>1
<1>. QED  BY <1>2, <1>3, <1>4, <1>5

\* The same, for a step that redirects only handle h.
LEMMA HoldersStep ==
  ASSUME NEW h \in Handles, NEW q,
         a \in [Handles -> Backends \cup {NoBackend}],
         a' \in [Handles -> Backends \cup {NoBackend}],
         \A k \in Handles \ {h} : a'[k] = a[k]
  PROVE  Cardinality(HoldersIn(a', q)) =
           Cardinality(HoldersIn(a, q)) + (IF a'[h] = q THEN 1 ELSE 0)
                                        - (IF a[h] = q THEN 1 ELSE 0)
BY HoldersExcept

LEMMA EmptyIffZero ==
  ASSUME NEW f, NEW q
  PROVE  HoldersIn(f, q) = {} <=> Cardinality(HoldersIn(f, q)) = 0
BY HoldersFinite, FS_EmptySet

----------------------------------------------------------------------------
(* The inductive invariant gives the checked invariants.                  *)

LEMMA IInvTypeOK == IInv => TypeOK
BY DEF IInv, StoreOK, TypeOK

LEMMA IInvSharingSound == IInv => SharingSound
<1> SUFFICES ASSUME IInv PROVE SharingSound
  OBVIOUS
<1>1. RefCountExact
  BY DEF IInv, StoreOK, CountInv, RefCountExact
<1>2. NoDangling
  <2> SUFFICES ASSUME NEW h \in Handles, a[h] \in Backends, a[h] \notin live
               PROVE  FALSE
    BY DEF IInv, StoreOK, NoDangling
  <2>1. Cardinality(Holders(a[h])) = 0
    BY DEF IInv, StoreOK, CountInv
  <2>2. h \in Holders(a[h])
    BY DEF Holders, HoldersIn
  <2>. QED  BY <2>1, <2>2, EmptyIffZero DEF Holders
<1>3. NoLeak
  <2> SUFFICES ASSUME NEW q \in live, Holders(q) = {} PROVE FALSE
    BY DEF NoLeak
  <2>1. Cardinality(Holders(q)) = ref[q] /\ ref[q] >= 1
    BY DEF IInv, StoreOK, CountInv, PosInv
  <2>. QED  BY <2>1, EmptyIffZero DEF Holders
<1>. QED  BY <1>1, <1>2, <1>3 DEF SharingSound

\* A backend some handle points to is allocated with a positive count.
LEMMA HeldIsLive ==
  ASSUME StoreOK, NEW h \in Handles, a[h] # NoBackend
  PROVE  /\ a[h] \in live
         /\ ref[a[h]] = Cardinality(Holders(a[h]))
         /\ ref[a[h]] >= 1
<1>1. a[h] \in Backends  BY DEF StoreOK
<1>2. h \in Holders(a[h])  BY DEF Holders, HoldersIn
<1>3. Cardinality(Holders(a[h])) # 0  BY <1>2, EmptyIffZero DEF Holders
<1>4. a[h] \in live  BY <1>1, <1>3 DEF StoreOK, CountInv
<1>. QED  BY <1>1, <1>4 DEF StoreOK, CountInv, PosInv

LEMMA InitIInv == Init => IInv
<1> SUFFICES ASSUME Init PROVE IInv
  OBVIOUS
<1>1. \A q \in Backends : Holders(q) = {}
  BY ConstantsAssumption DEF Init, Holders, HoldersIn
<1>2. CountInv
  BY <1>1, FS_EmptySet DEF CountInv, Init
<1>. QED
  BY <1>2, ConstantsAssumption DEF Init, IInv, StoreOK, PosInv

----------------------------------------------------------------------------
(* Redirecting one handle.  Every change of a pointer in the code (a      *)
(* clone in detach(), allocation on a null handle, copy assignment,       *)
(* destruction, assignment of a fresh initializer-list array) moves one   *)
(* handle h from its backend a[h] to nb, adds one reference to nb (a      *)
(* fresh nb starting from 0), drops one from a[h], and deletes a[h] if    *)
(* that was its last reference.  Such a step preserves StoreOK.           *)

LEMMA Redirect ==
  ASSUME StoreOK,
         NEW h \in Handles, NEW nb \in Backends \cup {NoBackend}, nb # a[h],
         a' = [a EXCEPT ![h] = nb],
         ref' \in [Backends -> Int],
         \A q \in Backends \ {nb, a[h]} : ref'[q] = ref[q],
         nb \in Backends => ref'[nb] = (IF nb \in live THEN ref[nb] ELSE 0) + 1,
         a[h] # NoBackend => ref'[a[h]] = ref[a[h]] - 1,
         live' = (live \cup ({nb} \cap Backends)) \ Deleted(ref', a[h]),
         elems' \in [Backends -> Seq(Values)]
  PROVE  StoreOK'
<1>1. a[h] \in Backends \cup {NoBackend}  BY DEF StoreOK
<1>2. a[h] # NoBackend => a[h] \in live /\ ref[a[h]] >= 1  BY HeldIsLive
<1>3. nb \in Backends /\ nb \notin live => Cardinality(Holders(nb)) = 0
  BY DEF StoreOK, CountInv
<1>4. ref \in [Backends -> Nat] /\ live \subseteq Backends /\ NoBackend \notin Backends
  BY ConstantsAssumption DEF StoreOK
<1>5. ref' \in [Backends -> Nat]
  <2>1. \A q \in Backends : ref'[q] \in Nat
    <3> SUFFICES ASSUME NEW q \in Backends PROVE ref'[q] \in Nat
      OBVIOUS
    <3>1. CASE q = nb  BY <3>1, <1>4
    <3>2. CASE q = a[h]  BY <3>2, <1>2, <1>4
    <3>3. CASE q \notin {nb, a[h]}  BY <3>3, <1>4
    <3>. QED  BY <3>1, <3>2, <3>3
  <2>. QED  BY <2>1
<1>6. a' \in [Handles -> Backends \cup {NoBackend}]
  BY DEF StoreOK
<1>7. live' \subseteq Backends
  BY <1>4 DEF Deleted
<1>8. CountInv'
  <2> SUFFICES ASSUME NEW q \in Backends
               PROVE  Cardinality(HoldersIn(a', q)) = IF q \in live' THEN ref'[q] ELSE 0
    BY DEF CountInv, Holders
  <2>0. /\ a \in [Handles -> Backends \cup {NoBackend}]
        /\ \A k \in Handles \ {h} : a'[k] = a[k]
        /\ a'[h] = nb
    BY DEF StoreOK
  <2>1. Cardinality(HoldersIn(a', q)) =
          Cardinality(HoldersIn(a, q)) + (IF a'[h] = q THEN 1 ELSE 0) - (IF a[h] = q THEN 1 ELSE 0)
    BY <2>0, <1>6, HoldersStep
  <2>2. Cardinality(HoldersIn(a, q)) = IF q \in live THEN ref[q] ELSE 0
    BY DEF StoreOK, CountInv, Holders
  <2>3. CASE q = nb
    BY <2>0, <2>1, <2>2, <2>3, <1>4 DEF Deleted
  <2>4. CASE q = a[h]
    BY <2>0, <2>1, <2>2, <2>4, <1>2, <1>4 DEF Deleted
  <2>5. CASE q \notin {nb, a[h]}
    BY <2>0, <2>1, <2>2, <2>5, <1>4 DEF Deleted
  <2>. QED  BY <2>3, <2>4, <2>5
<1>9. PosInv'
  BY <1>2, <1>4, <1>5 DEF PosInv, StoreOK, Deleted
<1>. QED  BY <1>5, <1>6, <1>7, <1>8, <1>9 DEF StoreOK


\* QJsonArray::detach() followed by the edit that leaves s in the now
\* private backend keeps the sharing sound, in both of its branches.
LEMMA DetachOK ==
  ASSUME StoreOK, NEW h \in Handles, a[h] # NoBackend, NEW s \in Seq(Values),
         DetachAndSet(h, s)
  PROVE  StoreOK'
<1>1. a[h] \in live /\ ref[a[h]] >= 1  BY HeldIsLive
<1>2. CASE /\ ref[a[h]] = 1
           /\ elems' = [elems EXCEPT ![a[h]] = s]
           /\ UNCHANGED <<a, ref, live>>
  BY <1>1, <1>2 DEF StoreOK, CountInv, PosInv, Holders
<1>3. CASE /\ ref[a[h]] # 1
           /\ \E nb \in Backends \ live :
                /\ a' = [a EXCEPT ![h] = nb]
                /\ ref' = Unref([ref EXCEPT ![nb] = 1], a[h])
                /\ live' = (live \cup {nb}) \ Deleted(Unref([ref EXCEPT ![nb] = 1], a[h]), a[h])
                /\ elems' = FreeElems([elems EXCEPT ![nb] = s],
                                      Deleted(Unref([ref EXCEPT ![nb] = 1], a[h]), a[h]))
  <2>1. PICK nb \in Backends \ live :
                /\ a' = [a EXCEPT ![h] = nb]
                /\ ref' = Unref([ref EXCEPT ![nb] = 1], a[h])
                /\ live' = (live \cup {nb}) \ Deleted(Unref([ref EXCEPT ![nb] = 1], a[h]), a[h])
                /\ elems' = FreeElems([elems EXCEPT ![nb] = s],
                                      Deleted(Unref([ref EXCEPT ![nb] = 1], a[h]), a[h]))
    BY <1>3
  <2>2. nb # a[h] /\ nb \in Backends \cup {NoBackend}  BY <1>1, <2>1
  <2>3. /\ ref' \in [Backends -> Int]
        /\ \A q \in Backends \ {nb, a[h]} : ref'[q] = ref[q]
        /\ ref'[nb] = (IF nb \in live THEN ref[nb] ELSE 0) + 1
        /\ ref'[a[h]] = ref[a[h]] - 1
    BY <1>1, <2>1, <2>2 DEF StoreOK, Unref
  <2>4. live' = (live \cup ({nb} \cap Backends)) \ Deleted(ref', a[h])
    BY <2>1
  <2>5. elems' \in [Backends -> Seq(Values)]
    BY <2>1 DEF StoreOK, FreeElems
  <2>. QED  BY <2>1, <2>2, <2>3, <2>4, <2>5, Redirect
<1>. QED  BY <1>2, <1>3 DEF DetachAndSet

\* Allocating the first backend of a null handle keeps the sharing sound.
LEMMA AllocOK ==
  ASSUME StoreOK, NEW h \in Handles, a[h] = NoBackend, NEW s \in Seq(Values),
         AllocateWith(h, s)
  PROVE  StoreOK'
<1>1. PICK nb \in Backends \ live :
        /\ a' = [a EXCEPT ![h] = nb]
        /\ ref' = [ref EXCEPT ![nb] = 1]
        /\ live' = live \cup {nb}
        /\ elems' = [elems EXCEPT ![nb] = s]
  BY DEF AllocateWith
<1>2. nb # a[h] /\ nb \in Backends \cup {NoBackend}  BY <1>1, ConstantsAssumption
<1>3. /\ ref' \in [Backends -> Int]
      /\ \A q \in Backends \ {nb, a[h]} : ref'[q] = ref[q]
      /\ ref'[nb] = (IF nb \in live THEN ref[nb] ELSE 0) + 1
  BY <1>1 DEF StoreOK
<1>4. live' = (live \cup ({nb} \cap Backends)) \ Deleted(ref', a[h])
  BY <1>1 DEF Deleted
<1>5. elems' \in [Backends -> Seq(Values)]
  BY <1>1 DEF StoreOK
<1>. QED  BY <1>1, <1>2, <1>3, <1>4, <1>5, Redirect


\* Copy assignment: ref the source's backend, deref (and maybe delete) the
\* destination's.
LEMMA CopyAssignOK ==
  ASSUME StoreOK, NEW dst \in Handles, NEW src \in Handles, CopyAssign(dst, src)
  PROVE  StoreOK'
<1>1. a[src] # NoBackend => a[src] \in live /\ ref[a[src]] >= 1  BY HeldIsLive
<1>2. a[dst] # NoBackend => a[dst] \in live /\ ref[a[dst]] >= 1  BY HeldIsLive
<1>3. /\ a[src] # a[dst]
      /\ a[src] \in Backends \cup {NoBackend}
      /\ a' = [a EXCEPT ![dst] = a[src]]
      /\ ref' = Unref(AddRef(ref, a[src]), a[dst])
      /\ live' = live \ Deleted(ref', a[dst])
      /\ elems' = FreeElems(elems, Deleted(ref', a[dst]))
  BY DEF CopyAssign, StoreOK
<1>0. /\ a[dst] \in Backends \cup {NoBackend}
      /\ ref \in [Backends -> Nat]
      /\ NoBackend \notin Backends
  BY ConstantsAssumption DEF StoreOK
<1>4. /\ ref' \in [Backends -> Int]
      /\ \A q \in Backends \ {a[src], a[dst]} : ref'[q] = ref[q]
      /\ a[src] \in Backends => ref'[a[src]] = (IF a[src] \in live THEN ref[a[src]] ELSE 0) + 1
      /\ a[dst] # NoBackend => ref'[a[dst]] = ref[a[dst]] - 1
  <2>1. CASE a[src] = NoBackend /\ a[dst] = NoBackend
    BY <2>1, <1>3
  <2>2. CASE a[src] = NoBackend /\ a[dst] # NoBackend
    <3>1. ref' = [ref EXCEPT ![a[dst]] = @ - 1]  BY <2>2, <1>3 DEF AddRef, Unref
    <3>. QED  BY <3>1, <2>2, <1>0
  <2>3. CASE a[src] # NoBackend /\ a[dst] = NoBackend
    <3>1. ref' = [ref EXCEPT ![a[src]] = @ + 1]  BY <2>3, <1>3 DEF AddRef, Unref
    <3>. QED  BY <3>1, <2>3, <1>0, <1>1, <1>3
  <2>4. CASE a[src] # NoBackend /\ a[dst] # NoBackend
    <3>1. ref' = [[ref EXCEPT ![a[src]] = @ + 1] EXCEPT ![a[dst]] = @ - 1]
      BY <2>4, <1>3 DEF AddRef, Unref
    <3>. QED  BY <3>1, <2>4, <1>0, <1>1, <1>3
  <2>. QED  BY <2>1, <2>2, <2>3, <2>4
<1>5. live' = (live \cup ({a[src]} \cap Backends)) \ Deleted(ref', a[dst])
  BY <1>0, <1>1, <1>3
<1>6. elems' \in [Backends -> Seq(Values)]
  BY <1>3 DEF StoreOK, FreeElems
<1>. QED  BY <1>3, <1>4, <1>5, <1>6, Redirect

\* Destruction of a non-null handle.
LEMMA DestroyOK ==
  ASSUME StoreOK, NEW h \in Handles, Destroy(h)
  PROVE  StoreOK'
<1>1. a[h] \in live /\ ref[a[h]] >= 1  BY HeldIsLive DEF Destroy
<1>2. /\ NoBackend # a[h]
      /\ a' = [a EXCEPT ![h] = NoBackend]
      /\ ref' = Unref(ref, a[h])
      /\ live' = live \ Deleted(ref', a[h])
      /\ elems' = FreeElems(elems, Deleted(ref', a[h]))
  BY DEF Destroy
<1>3. /\ ref' \in [Backends -> Int]
      /\ \A q \in Backends \ {NoBackend, a[h]} : ref'[q] = ref[q]
      /\ ref'[a[h]] = ref[a[h]] - 1
  BY <1>1, <1>2 DEF StoreOK, Unref
<1>4. live' = (live \cup ({NoBackend} \cap Backends)) \ Deleted(ref', a[h])
  BY <1>2, ConstantsAssumption
<1>5. elems' \in [Backends -> Seq(Values)]
  BY <1>2 DEF StoreOK, FreeElems
<1>. QED  BY <1>2, <1>3, <1>4, <1>5, ConstantsAssumption, Redirect

\* An initializer list is stored with Undefined replaced by Null.
LEMMA ListType ==
  ASSUME NEW s \in Lists
  PROVE  StoredList(s) \in Seq(Values)
<1>1. PICK n \in 1 .. MaxListLen : s \in [1 .. n -> Values]
  BY DEF Lists
<1>2. \A j \in 1 .. n : FromJsonValue(NullValue) \in Values /\ FromJsonValue(s[j]) \in Values
  BY <1>1, CodecType, ConstantsAssumption
<1>. QED  BY <1>1, <1>2, ConstantsAssumption DEF StoredList

\* A list of values converted one by one is a sequence of values.
LEMMA ParsedType ==
  ASSUME NEW s \in Lists
  PROVE  [j \in DOMAIN s |-> FromJsonValue(s[j])] \in Seq(Values)
<1>1. PICK n \in 1 .. MaxListLen : s \in [1 .. n -> Values]
  BY DEF Lists
<1>2. \A j \in 1 .. n : FromJsonValue(s[j]) \in Values
  BY <1>1, CodecType
<1>. QED  BY <1>1, <1>2, ConstantsAssumption

\* Move-assigning a temporary that holds a fresh backend into h.
LEMMA AdoptFreshOK ==
  ASSUME StoreOK, NEW h \in Handles, NEW ev \in Seq(Values), AdoptFresh(h, ev)
  PROVE  StoreOK'
<1>1. a[h] # NoBackend => a[h] \in live /\ ref[a[h]] >= 1  BY HeldIsLive
<1>2. PICK nb \in Backends \ live :
        /\ a' = [a EXCEPT ![h] = nb]
        /\ ref' = [Unref(ref, a[h]) EXCEPT ![nb] = 1]
        /\ live' = (live \cup {nb}) \ Deleted(Unref(ref, a[h]), a[h])
        /\ elems' = FreeElems([elems EXCEPT ![nb] = ev], Deleted(Unref(ref, a[h]), a[h]))
  BY DEF AdoptFresh
<1>3. nb # a[h] /\ nb \in Backends \cup {NoBackend}  BY <1>1, <1>2, ConstantsAssumption
<1>4. /\ ref' \in [Backends -> Int]
      /\ \A q \in Backends \ {nb, a[h]} : ref'[q] = ref[q]
      /\ ref'[nb] = (IF nb \in live THEN ref[nb] ELSE 0) + 1
      /\ a[h] # NoBackend => ref'[a[h]] = ref[a[h]] - 1
  BY <1>1, <1>2, <1>3 DEF StoreOK, Unref
<1>5. Deleted(Unref(ref, a[h]), a[h]) = Deleted(ref', a[h])
  BY <1>2, <1>3 DEF Deleted, Unref, StoreOK
<1>6. live' = (live \cup ({nb} \cap Backends)) \ Deleted(ref', a[h])
  BY <1>2, <1>5
<1>8. elems' \in [Backends -> Seq(Values)]
  <2>1. [elems EXCEPT ![nb] = ev] \in [Backends -> Seq(Values)]
    BY DEF StoreOK
  <2>. QED  BY <1>2, <2>1 DEF FreeElems
<1>. QED  BY <1>2, <1>3, <1>4, <1>6, <1>8, Redirect

\* Assigning a fresh array built from an initializer list.
LEMMA FromListOK ==
  ASSUME StoreOK, NEW h \in Handles, NEW s \in Lists, FromList(h, s)
  PROVE  StoreOK'
BY ListType, AdoptFreshOK DEF FromList

\* Move construction over a destroyed dst: dst takes src's pointer and
\* reference, src is nulled, dst's old backend loses one reference.
LEMMA MoveConstructOK ==
  ASSUME StoreOK, NEW dst \in Handles, NEW src \in Handles, MoveConstruct(dst, src)
  PROVE  StoreOK'
<1>0. /\ a \in [Handles -> Backends \cup {NoBackend}]
      /\ ref \in [Backends -> Nat]
      /\ NoBackend \notin Backends
  BY ConstantsAssumption DEF StoreOK
<1>1. a[dst] # NoBackend => a[dst] \in live /\ ref[a[dst]] >= 1  BY HeldIsLive
<1>2. /\ dst # src
      /\ a' = [a EXCEPT ![dst] = a[src], ![src] = NoBackend]
      /\ ref' = Unref(ref, a[dst])
      /\ live' = live \ Deleted(ref', a[dst])
      /\ elems' = FreeElems(elems, Deleted(ref', a[dst]))
  BY DEF MoveConstruct
<1>3. PICK a1 \in [Handles -> Backends \cup {NoBackend}] :
        /\ \A k \in Handles \ {dst} : a1[k] = a[k]
        /\ a1[dst] = a[src]
        /\ \A k \in Handles \ {src} : a'[k] = a1[k]
        /\ a'[src] = NoBackend
  <2>1. /\ [a EXCEPT ![dst] = a[src]] \in [Handles -> Backends \cup {NoBackend}]
        /\ \A k \in Handles \ {dst} : [a EXCEPT ![dst] = a[src]][k] = a[k]
        /\ [a EXCEPT ![dst] = a[src]][dst] = a[src]
        /\ \A k \in Handles \ {src} : a'[k] = [a EXCEPT ![dst] = a[src]][k]
        /\ a'[src] = NoBackend
    BY <1>0, <1>2
  <2>. QED  BY <2>1
<1>4. a' \in [Handles -> Backends \cup {NoBackend}]  BY <1>0, <1>2
<1>5. ref' \in [Backends -> Nat]
  BY <1>0, <1>1, <1>2 DEF Unref
<1>6. CountInv'
  <2> SUFFICES ASSUME NEW q \in Backends
               PROVE  Cardinality(HoldersIn(a', q)) = IF q \in live' THEN ref'[q] ELSE 0
    BY DEF CountInv, Holders
  <2>1. Cardinality(HoldersIn(a1, q)) =
          Cardinality(HoldersIn(a, q)) + (IF a1[dst] = q THEN 1 ELSE 0) - (IF a[dst] = q THEN 1 ELSE 0)
    BY <1>0, <1>3, HoldersExcept
  <2>2. Cardinality(HoldersIn(a', q)) =
          Cardinality(HoldersIn(a1, q)) + (IF a'[src] = q THEN 1 ELSE 0) - (IF a1[src] = q THEN 1 ELSE 0)
    BY <1>3, <1>4, HoldersExcept
  <2>3. a1[src] = a[src]  BY <1>2, <1>3
  <2>4. Cardinality(HoldersIn(a', q)) =
          Cardinality(HoldersIn(a, q)) - (IF a[dst] = q THEN 1 ELSE 0)
    BY <2>1, <2>2, <2>3, <1>0, <1>3, HoldersFinite
  <2>5. Cardinality(HoldersIn(a, q)) = IF q \in live THEN ref[q] ELSE 0
    BY DEF StoreOK, CountInv, Holders
  <2>. QED  BY <2>4, <2>5, <1>0, <1>1, <1>2 DEF Unref, Deleted
<1>7. PosInv'
  BY <1>0, <1>1, <1>2 DEF StoreOK, PosInv, Unref, Deleted
<1>8. elems' \in [Backends -> Seq(Values)] /\ live' \subseteq Backends
  BY <1>2 DEF StoreOK, FreeElems
<1>. QED  BY <1>4, <1>5, <1>6, <1>7, <1>8 DEF StoreOK

\* swap() exchanges two pointers: every backend keeps its holder count.
LEMMA SwapOK ==
  ASSUME StoreOK, NEW h1 \in Handles, NEW h2 \in Handles, Swap(h1, h2)
  PROVE  StoreOK'
<1>0. a \in [Handles -> Backends \cup {NoBackend}]  BY DEF StoreOK
<1>1. /\ h1 # h2
      /\ a' = [a EXCEPT ![h1] = a[h2], ![h2] = a[h1]]
      /\ UNCHANGED <<elems, ref, live>>
  BY DEF Swap
<1>2. PICK a1 \in [Handles -> Backends \cup {NoBackend}] :
        /\ \A k \in Handles \ {h1} : a1[k] = a[k]
        /\ a1[h1] = a[h2]
        /\ \A k \in Handles \ {h2} : a'[k] = a1[k]
        /\ a'[h2] = a[h1]
  <2>1. /\ [a EXCEPT ![h1] = a[h2]] \in [Handles -> Backends \cup {NoBackend}]
        /\ \A k \in Handles \ {h1} : [a EXCEPT ![h1] = a[h2]][k] = a[k]
        /\ [a EXCEPT ![h1] = a[h2]][h1] = a[h2]
        /\ \A k \in Handles \ {h2} : a'[k] = [a EXCEPT ![h1] = a[h2]][k]
        /\ a'[h2] = a[h1]
    BY <1>0, <1>1
  <2>. QED  BY <2>1
<1>3. a' \in [Handles -> Backends \cup {NoBackend}]  BY <1>0, <1>1
<1>4. \A q \in Backends : Cardinality(HoldersIn(a', q)) = Cardinality(HoldersIn(a, q))
  <2> SUFFICES ASSUME NEW q \in Backends
               PROVE  Cardinality(HoldersIn(a', q)) = Cardinality(HoldersIn(a, q))
    OBVIOUS
  <2>1. Cardinality(HoldersIn(a1, q)) =
          Cardinality(HoldersIn(a, q)) + (IF a1[h1] = q THEN 1 ELSE 0) - (IF a[h1] = q THEN 1 ELSE 0)
    BY <1>0, <1>2, HoldersExcept
  <2>2. Cardinality(HoldersIn(a', q)) =
          Cardinality(HoldersIn(a1, q)) + (IF a'[h2] = q THEN 1 ELSE 0) - (IF a1[h2] = q THEN 1 ELSE 0)
    BY <1>2, <1>3, HoldersExcept
  <2>3. a1[h2] = a[h2]  BY <1>1, <1>2
  <2>. QED  BY <2>1, <2>2, <2>3, <1>2, HoldersFinite
<1>. QED  BY <1>1, <1>3, <1>4 DEF StoreOK, CountInv, PosInv, Holders


----------------------------------------------------------------------------
(* Each member function preserves the inductive invariant.               *)

\* The value insert() stores for v is a value.
LEMMA InsertedType ==
  ASSUME NEW v \in Values
  PROVE  (IF JsonType(v) = "Undefined" THEN FromJsonValue(NullValue) ELSE FromJsonValue(v))
           \in Values
BY CodecType, ConstantsAssumption

\* A handle in range points to a backend holding a sequence of values.
LEMMA InRangeType ==
  ASSUME StoreOK, NEW h \in Handles, NEW i \in Int, InRange(h, i)
  PROVE  /\ a[h] \in Backends
         /\ elems[a[h]] \in Seq(Values)
         /\ i \in 0 .. Len(elems[a[h]]) - 1
BY DEF StoreOK, InRange

LEMMA InsertIInv ==
  ASSUME IInv, NEW h \in Handles, NEW i \in Int, NEW v \in Values, Insert(h, i, v)
  PROVE  IInv'
<1> DEFINE e == IF JsonType(v) = "Undefined" THEN FromJsonValue(NullValue) ELSE FromJsonValue(v)
<1>1. e \in Values  BY InsertedType
<1>2. StoreOK /\ i \in 0 .. Size(h)  BY DEF IInv, Insert
<1>3. CASE a[h] # NoBackend
  <2>1. elems[a[h]] \in Seq(Values) /\ i \in 0 .. Len(elems[a[h]])
    BY <1>2, <1>3 DEF StoreOK, Size
  <2>2. InsertElem(elems[a[h]], i, e) \in Seq(Values)  BY <1>1, <2>1, InsertElemType
  <2>3. DetachAndSet(h, InsertElem(elems[a[h]], i, e))  BY <1>3 DEF Insert
  <2>. QED  BY <1>2, <1>3, <2>2, <2>3, DetachOK DEF Insert, IInv
<1>4. CASE a[h] = NoBackend
  <2>1. i \in 0 .. Len(<< >>)  BY <1>2, <1>4 DEF Size
  <2>0. << >> \in Seq(Values)  OBVIOUS
  <2>2. InsertElem(<< >>, i, e) \in Seq(Values)  BY <1>1, <2>0, <2>1, InsertElemType
  <2>3. AllocateWith(h, InsertElem(<< >>, i, e))  BY <1>4 DEF Insert
  <2>. QED  BY <1>2, <1>4, <2>2, <2>3, AllocOK DEF Insert, IInv
<1>. QED  BY <1>3, <1>4

LEMMA RemoveAtIInv ==
  ASSUME IInv, NEW h \in Handles, NEW i \in Int, RemoveAt(h, i)
  PROVE  IInv'
<1>1. StoreOK /\ InRange(h, i)  BY DEF IInv, RemoveAt
<1>2. RemoveElem(elems[a[h]], i) \in Seq(Values)  BY <1>1, InRangeType, RemoveElemType
<1>. QED  BY <1>1, <1>2, DetachOK DEF RemoveAt, IInv, InRange

LEMMA TakeAtIInv ==
  ASSUME IInv, NEW h \in Handles, NEW i \in Index, TakeAt(h, i)
  PROVE  IInv'
<1>1. StoreOK /\ InRange(h, i) /\ i \in Int  BY DEF Index, IInv, TakeAt
<1>2. RemoveElem(elems[a[h]], i) \in Seq(Values)  BY <1>1, InRangeType, RemoveElemType
<1>3. elems[a[h]][i + 1] \in Values  BY <1>1, InRangeType
<1>4. taken' \in Values  BY <1>3, CodecType DEF TakeAt
<1>5. StoreOK'  BY <1>1, <1>2, DetachOK DEF TakeAt, InRange
<1>. QED  BY <1>4, <1>5 DEF TakeAt, IInv

LEMMA ReplaceIInv ==
  ASSUME IInv, NEW h \in Handles, NEW i \in Index, NEW v \in Values, Replace(h, i, v)
  PROVE  IInv'
<1>1. StoreOK /\ InRange(h, i) /\ i \in Int  BY DEF Index, IInv, Replace
<1>2. FromJsonValue(v) \in Values  BY CodecType
<1>3. ReplaceElem(elems[a[h]], i, FromJsonValue(v)) \in Seq(Values)
  BY <1>1, <1>2, InRangeType, ReplaceElemType
<1>. QED  BY <1>1, <1>3, DetachOK DEF Replace, IInv, InRange

LEMMA AssignRefIInv ==
  ASSUME IInv, NEW p \in Proxies, NEW v \in Values, AssignRef(p, v)
  PROVE  IInv'
<1>1. proxy[p] \in [arr : Handles, idx : Nat]  BY DEF AssignRef, IInv
<1>2. StoreOK /\ InRange(proxy[p].arr, proxy[p].idx)  BY DEF IInv, AssignRef
<1>6. proxy[p].idx \in Int /\ proxy[p].arr \in Handles  BY <1>1
<1>3. FromJsonValue(v) \in Values  BY CodecType
<1>4. ReplaceElem(elems[a[proxy[p].arr]], proxy[p].idx, FromJsonValue(v)) \in Seq(Values)
  BY <1>1, <1>2, <1>3, <1>6, InRangeType, ReplaceElemType
<1>5. a[proxy[p].arr] # NoBackend  BY <1>2 DEF InRange
<1>. QED  BY <1>1, <1>4, <1>5, DetachOK DEF AssignRef, IInv

LEMMA SubscriptIInv ==
  ASSUME IInv, NEW h \in Handles, NEW i \in Index, NEW p \in Proxies, Subscript(h, i, p)
  PROVE  IInv'
<1>1. i \in Nat  BY DEF Subscript, InRange, Index
<1>. QED  BY <1>1 DEF Subscript, IInv, StoreOK, CountInv, PosInv, Holders


\* Indices and offsets are integers.
LEMMA IndexInt == Index \subseteq Int /\ Offsets \subseteq Int
BY DEF Index, Offsets

LEMMA PrependIInv ==
  ASSUME IInv, NEW h \in Handles, NEW v \in Values, Prepend(h, v)
  PROVE  IInv'
BY InsertIInv DEF Prepend

LEMMA AppendIInv ==
  ASSUME IInv, NEW h \in Handles, NEW v \in Values, AppendValue(h, v)
  PROVE  IInv'
<1>1. a[h] # NoBackend => Len(elems[a[h]]) \in Nat  BY DEF IInv, StoreOK
<1>2. (IF a[h] # NoBackend THEN Len(elems[a[h]]) ELSE 0) \in Int  BY <1>1
<1>. QED  BY <1>2, InsertIInv DEF AppendValue

\* The aliases removeFirst(), removeLast(), pop_front(), pop_back().
LEMMA RemoveEndIInv ==
  ASSUME IInv, NEW h \in Handles,
         RemoveFirst(h) \/ RemoveLast(h) \/ PopFront(h) \/ PopBack(h)
  PROVE  IInv'
<1>1. Size(h) - 1 \in Int  BY DEF IInv, StoreOK, Size
<1>. QED  BY <1>1, RemoveAtIInv DEF RemoveFirst, RemoveLast, PopFront, PopBack

\* The aliases push_back(), push_front(), operator+=, operator<<.
LEMMA PushIInv ==
  ASSUME IInv, NEW h \in Handles, NEW v \in Values,
         PushBack(h, v) \/ PushFront(h, v) \/ PlusAssign(h, v) \/ ShiftAppend(h, v)
  PROVE  IInv'
BY AppendIInv, PrependIInv DEF PushBack, PushFront, PlusAssign, ShiftAppend

\* Move-assigning a temporary with a fresh backend keeps proxies and taken.
LEMMA AdoptFreshIInv ==
  ASSUME IInv, NEW h \in Handles, NEW ev \in Seq(Values), AdoptFresh(h, ev)
  PROVE  IInv'
BY AdoptFreshOK DEF AdoptFresh, IInv

LEMMA FromListsIInv ==
  ASSUME IInv, NEW h \in Handles, NEW s \in Lists, FromList(h, s) \/ FromStringList(h, s)
  PROVE  IInv'
BY ListType, AdoptFreshIInv DEF FromList, FromStringList

LEMMA StreamInIInv ==
  ASSUME IInv, NEW h \in Handles, NEW s \in Lists \cup {<< >>}, StreamIn(h, s)
  PROVE  IInv'
<1>1. CASE s \in ParsedLists /\ AdoptFresh(h, [j \in DOMAIN s |-> FromJsonValue(s[j])])
  <2>1. s \in Lists  BY <1>1 DEF ParsedLists
  <2>2. [j \in DOMAIN s |-> FromJsonValue(s[j])] \in Seq(Values)  BY <2>1, ParsedType
  <2>. QED  BY <1>1, <2>2, AdoptFreshIInv
<1>2. CASE s = << >> /\ Destroy(h)
  <2>1. StoreOK'  BY <1>2, DestroyOK DEF IInv
  <2>. QED  BY <1>2, <2>1 DEF Destroy, IInv
<1>. QED  BY <1>1, <1>2 DEF StreamIn

LEMMA PlusIInv ==
  ASSUME IInv, NEW dst \in Handles, NEW src \in Handles, NEW v \in Values, Plus(dst, src, v)
  PROVE  IInv'
<1>1. Val(src) \in Seq(Values)  BY DEF IInv, StoreOK, Val
<1>2. (IF JsonType(v) = "Undefined" THEN FromJsonValue(NullValue) ELSE FromJsonValue(v))
        \in Values
  BY InsertedType
<1>3. Append(Val(src), IF JsonType(v) = "Undefined" THEN FromJsonValue(NullValue)
                                                    ELSE FromJsonValue(v)) \in Seq(Values)
  BY <1>1, <1>2
<1>4. AdoptFresh(dst, Append(Val(src), IF JsonType(v) = "Undefined" THEN FromJsonValue(NullValue)
                                                                 ELSE FromJsonValue(v)))
  BY DEF Plus
<1>. QED  BY <1>3, <1>4, AdoptFreshIInv

\* A step that only sets one kept ref or iterator to a position in Nat.
LEMMA ProxyOnlyIInv ==
  ASSUME IInv, NEW p \in Proxies, NEW rec \in [arr : Handles, idx : Nat],
         proxy' = [proxy EXCEPT ![p] = rec],
         UNCHANGED <<a, elems, ref, live, taken>>
  PROVE  IInv'
BY DEF IInv, StoreOK, CountInv, PosInv, Holders

\* The same, for a step that moves the index of slot p to n.
LEMMA ProxyIdxIInv ==
  ASSUME IInv, NEW p \in Proxies, proxy[p] # NoProxy, NEW n \in Nat,
         proxy' = [proxy EXCEPT ![p].idx = n],
         UNCHANGED <<a, elems, ref, live, taken>>
  PROVE  IInv'
<1>1. proxy[p] \in [arr : Handles, idx : Nat]  BY DEF IInv
<1>2. proxy' \in [Proxies -> [arr : Handles, idx : Nat] \cup {NoProxy}]  BY <1>1 DEF IInv
<1>. QED  BY <1>2 DEF IInv, StoreOK, CountInv, PosInv, Holders

\* detach() on its own keeps the sharing sound: it is DetachAndSet with the
\* backend's own elements, or nothing on a null handle.
LEMMA DetachOnlyOK ==
  ASSUME StoreOK, NEW h \in Handles, DetachOnly(h)
  PROVE  StoreOK'
<1>1. CASE a[h] = NoBackend
  BY <1>1 DEF DetachOnly, StoreOK, CountInv, PosInv, Holders
<1>2. CASE a[h] # NoBackend
  <2>1. a[h] \in Backends  BY <1>2 DEF StoreOK
  <2>2. elems[a[h]] \in Seq(Values)  BY <2>1 DEF StoreOK
  <2>. QED  BY <1>2, <2>2, DetachOK DEF DetachOnly
<1>. QED  BY <1>1, <1>2

LEMMA BeginEndIInv ==
  ASSUME IInv, NEW h \in Handles, NEW p \in Proxies, Begin(h, p) \/ End(h, p)
  PROVE  IInv'
<1>1. Size(h) \in Nat  BY DEF IInv, StoreOK, Size
<1>2. StoreOK /\ DetachOnly(h) /\ UNCHANGED taken  BY DEF IInv, Begin, End
<1>3. StoreOK'  BY <1>2, DetachOnlyOK
<1>4. proxy' \in [Proxies -> [arr : Handles, idx : Nat] \cup {NoProxy}]
  BY <1>1 DEF IInv, Begin, End
<1>. QED  BY <1>2, <1>3, <1>4 DEF IInv

LEMMA IterMoveIInv ==
  ASSUME IInv, NEW p \in Proxies,
         Increment(p) \/ Decrement(p) \/ \E j \in Offsets : AdvanceBy(p, j)
  PROVE  IInv'
<1>1. proxy[p] \in [arr : Handles, idx : Nat]
  BY DEF Increment, Decrement, AdvanceBy, IInv
<1>2. CASE Increment(p)
  <2>1. proxy[p].idx + 1 \in Nat  BY <1>1
  <2>. QED  BY <1>2, <2>1, ProxyIdxIInv DEF Increment
<1>3. CASE Decrement(p)
  <2>1. proxy[p].idx - 1 \in Nat  BY <1>1, <1>3 DEF Decrement
  <2>. QED  BY <1>3, <2>1, ProxyIdxIInv DEF Decrement
<1>4. CASE \E j \in Offsets : AdvanceBy(p, j)
  <2>1. PICK j \in Offsets : AdvanceBy(p, j)  BY <1>4
  <2>2. j \in Int  BY IndexInt
  <2>3. proxy[p].idx + j \in Nat  BY <1>1, <2>1, <2>2 DEF AdvanceBy
  <2>. QED  BY <2>1, <2>3, ProxyIdxIInv DEF AdvanceBy
<1>. QED  BY <1>2, <1>3, <1>4

LEMMA IterAssignIInv ==
  ASSUME IInv, NEW p \in Proxies, NEW j \in Int, NEW v \in Values, IterAssign(p, j, v)
  PROVE  IInv'
<1>1. proxy[p] \in [arr : Handles, idx : Nat]  BY DEF IterAssign, IInv
<1>2. StoreOK /\ InRange(proxy[p].arr, proxy[p].idx + j)  BY DEF IInv, IterAssign
<1>6. proxy[p].idx + j \in Int /\ proxy[p].arr \in Handles  BY <1>1
<1>3. FromJsonValue(v) \in Values  BY CodecType
<1>4. ReplaceElem(elems[a[proxy[p].arr]], proxy[p].idx + j, FromJsonValue(v)) \in Seq(Values)
  BY <1>1, <1>2, <1>3, <1>6, InRangeType, ReplaceElemType
<1>5. a[proxy[p].arr] # NoBackend  BY <1>2 DEF InRange
<1>. QED  BY <1>1, <1>4, <1>5, DetachOK DEF IterAssign, IInv

LEMMA EraseItIInv ==
  ASSUME IInv, NEW p \in Proxies, EraseIt(p)
  PROVE  IInv'
<1>1. proxy[p] \in [arr : Handles, idx : Nat]  BY DEF EraseIt, IInv
<1>. QED  BY <1>1, RemoveAtIInv DEF EraseIt

LEMMA InsertItIInv ==
  ASSUME IInv, NEW p \in Proxies, NEW v \in Values, InsertIt(p, v)
  PROVE  IInv'
<1>1. proxy[p] \in [arr : Handles, idx : Nat]  BY DEF InsertIt, IInv
<1>. QED  BY <1>1, InsertIInv DEF InsertIt

\* One step of Next, or a stuttering step, preserves IInv.
LEMMA NextIInv == IInv /\ [Next]_vars => IInv'
<1> SUFFICES ASSUME IInv, [Next]_vars PROVE IInv'
  OBVIOUS
<1>0. StoreOK /\ Index \subseteq Int /\ Offsets \subseteq Int  BY IndexInt DEF IInv
<1>1. CASE \E h \in Handles, i \in Index, v \in Values : Insert(h, i, v) \/ Replace(h, i, v)
  BY <1>0, <1>1, InsertIInv, ReplaceIInv
<1>2. CASE \E h \in Handles, v \in Values : Prepend(h, v) \/ AppendValue(h, v)
  BY <1>2, PrependIInv, AppendIInv
<1>3. CASE \E h \in Handles, i \in Index :
             RemoveAt(h, i) \/ TakeAt(h, i) \/ TakeAtOutOfRange(h, i)
  <2>1. PICK h \in Handles, i \in Index :
             RemoveAt(h, i) \/ TakeAt(h, i) \/ TakeAtOutOfRange(h, i)
    BY <1>3
  <2>2. CASE TakeAtOutOfRange(h, i)
    BY <2>2, ConstantsAssumption
       DEF TakeAtOutOfRange, IInv, StoreOK, CountInv, PosInv, Holders
  <2>. QED  BY <1>0, <2>1, <2>2, RemoveAtIInv, TakeAtIInv
<1>4. CASE \E h \in Handles, i \in Index, p \in Proxies : Subscript(h, i, p)
  BY <1>4, SubscriptIInv
<1>5. CASE \E p \in Proxies, v \in Values : AssignRef(p, v)
  BY <1>5, AssignRefIInv
<1>6. CASE \E dst, src \in Handles :
             CopyAssign(dst, src) \/ MoveConstruct(dst, src) \/ Swap(dst, src)
  <2>1. PICK dst, src \in Handles :
             CopyAssign(dst, src) \/ MoveConstruct(dst, src) \/ Swap(dst, src)
    BY <1>6
  <2>2. StoreOK'  BY <1>0, <2>1, CopyAssignOK, MoveConstructOK, SwapOK
  <2>3. UNCHANGED <<proxy, taken>>  BY <2>1 DEF CopyAssign, MoveConstruct, Swap
  <2>. QED  BY <2>2, <2>3 DEF IInv
<1>7. CASE \E h \in Handles : Destroy(h)
  <2>1. PICK h \in Handles : Destroy(h)  BY <1>7
  <2>2. StoreOK'  BY <1>0, <2>1, DestroyOK
  <2>. QED  BY <2>1, <2>2 DEF Destroy, IInv
<1>8. CASE \E h \in Handles, s \in Lists : FromList(h, s) \/ FromStringList(h, s)
  BY <1>8, FromListsIInv
<1>9. CASE \E h \in Handles, s \in Lists \cup {<< >>} : StreamIn(h, s)
  BY <1>9, StreamInIInv
<1>10. CASE \E dst, src \in Handles, v \in Values : Plus(dst, src, v)
  BY <1>10, PlusIInv
<1>11. CASE \E h \in Handles :
              RemoveFirst(h) \/ RemoveLast(h) \/ PopFront(h) \/ PopBack(h)
  BY <1>11, RemoveEndIInv
<1>12. CASE \E h \in Handles, v \in Values :
              PushBack(h, v) \/ PushFront(h, v) \/ PlusAssign(h, v) \/ ShiftAppend(h, v)
  BY <1>12, PushIInv
<1>13. CASE \E h \in Handles, p \in Proxies : Begin(h, p) \/ End(h, p)
  BY <1>13, BeginEndIInv
<1>14. CASE \E p \in Proxies : Increment(p) \/ Decrement(p) \/ EraseIt(p)
  <2>1. PICK p \in Proxies : Increment(p) \/ Decrement(p) \/ EraseIt(p)  BY <1>14
  <2>2. CASE EraseIt(p)  BY <2>2, EraseItIInv
  <2>. QED  BY <2>1, <2>2, IterMoveIInv
<1>15. CASE \E p \in Proxies, j \in Offsets : AdvanceBy(p, j)
  BY <1>15, IterMoveIInv
<1>16. CASE \E p \in Proxies, j \in Offsets, v \in Values : IterAssign(p, j, v)
  BY <1>0, <1>16, IterAssignIInv
<1>17. CASE \E p \in Proxies, v \in Values : InsertIt(p, v)
  BY <1>17, InsertItIInv
<1>18. CASE UNCHANGED vars
  BY <1>18 DEF vars, IInv, StoreOK, CountInv, PosInv, Holders
<1>. QED  BY <1>1, <1>2, <1>3, <1>4, <1>5, <1>6, <1>7, <1>8, <1>9, <1>10, <1>11, <1>12,
             <1>13, <1>14, <1>15, <1>16, <1>17, <1>18 DEF Next

----------------------------------------------------------------------------
(* Detach before mutate.  SafeStep is the action of NoSharedMutation.     *)

SafeStep == \A b \in live : elems'[b] # elems[b] => ref[b] = 1

\* Freeing the backends of D, each at its last reference, and writing only
\* backends that are fresh or held once, is a safe step.
LEMMA FreeSafe ==
  ASSUME StoreOK, NEW D, NEW e, NEW W,
         elems' = FreeElems(e, D),
         \A b \in live \ W : e[b] = elems[b],
         \A b \in W \cap live : ref[b] = 1,
         \A b \in D \cap live : ref[b] = 1
  PROVE  SafeStep
BY DEF SafeStep, FreeElems, StoreOK

LEMMA DetachSafe ==
  ASSUME StoreOK, NEW h \in Handles, a[h] # NoBackend, NEW s, DetachAndSet(h, s)
  PROVE  SafeStep
<1>1. a[h] \in live /\ ref[a[h]] >= 1  BY HeldIsLive
<1>2. CASE /\ ref[a[h]] = 1
           /\ elems' = [elems EXCEPT ![a[h]] = s]
  BY <1>2 DEF SafeStep, StoreOK
<1>3. CASE /\ ref[a[h]] # 1
           /\ \E nb \in Backends \ live :
                /\ ref' = Unref([ref EXCEPT ![nb] = 1], a[h])
                /\ elems' = FreeElems([elems EXCEPT ![nb] = s],
                                      Deleted(Unref([ref EXCEPT ![nb] = 1], a[h]), a[h]))
  <2>1. PICK nb \in Backends \ live :
                /\ ref' = Unref([ref EXCEPT ![nb] = 1], a[h])
                /\ elems' = FreeElems([elems EXCEPT ![nb] = s],
                                      Deleted(Unref([ref EXCEPT ![nb] = 1], a[h]), a[h]))
    BY <1>3
  <2>2. Deleted(Unref([ref EXCEPT ![nb] = 1], a[h]), a[h]) = {}
    BY <1>1, <1>3, <2>1 DEF StoreOK, Unref, Deleted
  <2>3. \A b \in live \ {} : [elems EXCEPT ![nb] = s][b] = elems[b]
    BY <2>1 DEF StoreOK
  <2>. QED  BY <2>1, <2>2, <2>3, FreeSafe
<1>. QED  BY <1>2, <1>3 DEF DetachAndSet

\* A deref of a[h] from a ref map r whose a[h] entry is ref[a[h]] - 1
\* deletes a[h] only at its last reference.
LEMMA DeletedOnce ==
  ASSUME StoreOK, NEW d, NEW r,
         d # NoBackend => r[d] = ref[d] - 1
  PROVE  \A b \in Deleted(r, d) \cap live : ref[b] = 1
BY DEF Deleted, StoreOK

\* Move-assigning a temporary with a fresh backend into h is safe: only
\* the fresh backend is written, and h's old one is freed at its last
\* reference.
LEMMA AdoptFreshSafe ==
  ASSUME StoreOK, NEW h \in Handles, NEW ev, AdoptFresh(h, ev)
  PROVE  SafeStep
<1>1. PICK nb \in Backends \ live :
        elems' = FreeElems([elems EXCEPT ![nb] = ev], Deleted(Unref(ref, a[h]), a[h]))
  BY DEF AdoptFresh
<1>2. a[h] # NoBackend => Unref(ref, a[h])[a[h]] = ref[a[h]] - 1
  BY DEF StoreOK, Unref
<1>3. \A b \in Deleted(Unref(ref, a[h]), a[h]) \cap live : ref[b] = 1
  BY <1>2, DeletedOnce
<1>4. \A b \in live \ {} : [elems EXCEPT ![nb] = ev][b] = elems[b]
  BY <1>1 DEF StoreOK
<1>. QED  BY <1>1, <1>3, <1>4, FreeSafe

\* A destruction frees a[h] only at its last reference.
LEMMA DestroySafe ==
  ASSUME StoreOK, NEW h \in Handles, Destroy(h)
  PROVE  SafeStep
<1>1. /\ ref' = Unref(ref, a[h])
      /\ elems' = FreeElems(elems, Deleted(ref', a[h]))
  BY DEF Destroy
<1>2. a[h] # NoBackend => ref'[a[h]] = ref[a[h]] - 1
  BY <1>1 DEF StoreOK, Unref
<1>3. \A b \in Deleted(ref', a[h]) \cap live : ref[b] = 1
  BY <1>2, DeletedOnce
<1>. QED  BY <1>1, <1>3, FreeSafe

\* insert() detaches a held backend or writes a fresh one.
LEMMA InsertSafe ==
  ASSUME StoreOK, NEW h \in Handles, NEW i, NEW v, Insert(h, i, v)
  PROVE  SafeStep
<1>1. CASE a[h] # NoBackend
  BY <1>1, DetachSafe DEF Insert
<1>2. CASE a[h] = NoBackend
  <2>1. PICK nb \in Backends \ live : elems' = [elems EXCEPT ![nb] =
            InsertElem(<< >>, i, IF JsonType(v) = "Undefined" THEN FromJsonValue(NullValue)
                                                             ELSE FromJsonValue(v))]
    BY <1>2 DEF Insert, AllocateWith
  <2>. QED  BY <2>1 DEF SafeStep, StoreOK
<1>. QED  BY <1>1, <1>2

LEMMA RemoveAtSafe ==
  ASSUME StoreOK, NEW h \in Handles, NEW i, RemoveAt(h, i)
  PROVE  SafeStep
BY DetachSafe DEF RemoveAt, InRange

\* A write through a kept ref or iterator detaches the array it refers to.
LEMMA ProxyWriteSafe ==
  ASSUME IInv, NEW p \in Proxies, NEW j, NEW v,
         AssignRef(p, v) \/ IterAssign(p, j, v)
  PROVE  SafeStep
<1>1. /\ StoreOK
      /\ proxy[p] # NoProxy => proxy[p].arr \in Handles
  BY DEF IInv
<1>2. CASE AssignRef(p, v)
  BY <1>1, <1>2, DetachSafe DEF AssignRef, InRange
<1>3. CASE IterAssign(p, j, v)
  BY <1>1, <1>3, DetachSafe DEF IterAssign, InRange
<1>. QED  BY <1>2, <1>3

LEMMA NextSafe == IInv /\ [Next]_vars => [SafeStep]_vars
<1> SUFFICES ASSUME IInv, Next PROVE SafeStep
  BY DEF vars
<1>0. StoreOK  BY DEF IInv
<1>1. CASE \E h \in Handles, i \in Index, v \in Values : Insert(h, i, v) \/ Replace(h, i, v)
  BY <1>0, <1>1, InsertSafe, DetachSafe DEF Replace, InRange
<1>2. CASE \E h \in Handles, v \in Values : Prepend(h, v) \/ AppendValue(h, v)
  BY <1>0, <1>2, InsertSafe DEF Prepend, AppendValue
<1>3. CASE \E h \in Handles, i \in Index :
             RemoveAt(h, i) \/ TakeAt(h, i) \/ TakeAtOutOfRange(h, i)
  BY <1>0, <1>3, RemoveAtSafe, DetachSafe DEF TakeAt, TakeAtOutOfRange, InRange, SafeStep
<1>4. CASE \E h \in Handles, i \in Index, p \in Proxies : Subscript(h, i, p)
  BY <1>4 DEF Subscript, SafeStep
<1>5. CASE \E p \in Proxies, v \in Values : AssignRef(p, v)
  BY <1>5, ProxyWriteSafe
<1>6. CASE \E dst, src \in Handles : CopyAssign(dst, src)
  <2>1. PICK dst, src \in Handles : CopyAssign(dst, src)  BY <1>6
  <2>2. /\ a[src] # a[dst]
        /\ ref' = Unref(AddRef(ref, a[src]), a[dst])
        /\ elems' = FreeElems(elems, Deleted(ref', a[dst]))
    BY <2>1 DEF CopyAssign
  <2>3. a[dst] # NoBackend => ref'[a[dst]] = ref[a[dst]] - 1
    BY <1>0, <2>2 DEF StoreOK, Unref, AddRef
  <2>4. \A b \in Deleted(ref', a[dst]) \cap live : ref[b] = 1
    BY <1>0, <2>3, DeletedOnce
  <2>. QED  BY <1>0, <2>2, <2>4, FreeSafe
<1>7. CASE \E dst, src \in Handles : MoveConstruct(dst, src)
  <2>1. PICK dst, src \in Handles : MoveConstruct(dst, src)  BY <1>7
  <2>2. /\ ref' = Unref(ref, a[dst])
        /\ elems' = FreeElems(elems, Deleted(ref', a[dst]))
    BY <2>1 DEF MoveConstruct
  <2>3. a[dst] # NoBackend => ref'[a[dst]] = ref[a[dst]] - 1
    BY <1>0, <2>2 DEF StoreOK, Unref
  <2>4. \A b \in Deleted(ref', a[dst]) \cap live : ref[b] = 1
    BY <1>0, <2>3, DeletedOnce
  <2>. QED  BY <1>0, <2>2, <2>4, FreeSafe
<1>8. CASE \E dst, src \in Handles : Swap(dst, src)
  BY <1>8 DEF Swap, SafeStep
<1>9. CASE \E h \in Handles : Destroy(h)
  BY <1>0, <1>9, DestroySafe
<1>10. CASE \E h \in Handles, s \in Lists : FromList(h, s) \/ FromStringList(h, s)
  BY <1>0, <1>10, AdoptFreshSafe DEF FromList, FromStringList
<1>11. CASE \E h \in Handles, s \in Lists \cup {<< >>} : StreamIn(h, s)
  BY <1>0, <1>11, AdoptFreshSafe, DestroySafe DEF StreamIn
<1>12. CASE \E dst, src \in Handles, v \in Values : Plus(dst, src, v)
  BY <1>0, <1>12, AdoptFreshSafe DEF Plus
<1>13. CASE \E h \in Handles :
              RemoveFirst(h) \/ RemoveLast(h) \/ PopFront(h) \/ PopBack(h)
  BY <1>0, <1>13, RemoveAtSafe DEF RemoveFirst, RemoveLast, PopFront, PopBack
<1>14. CASE \E h \in Handles, v \in Values :
              PushBack(h, v) \/ PushFront(h, v) \/ PlusAssign(h, v) \/ ShiftAppend(h, v)
  BY <1>0, <1>14, InsertSafe
     DEF PushBack, PushFront, PlusAssign, ShiftAppend, Prepend, AppendValue
<1>15. CASE \E h \in Handles, p \in Proxies : Begin(h, p) \/ End(h, p)
  <2>1. PICK h \in Handles : DetachOnly(h)  BY <1>15 DEF Begin, End
  <2>2. CASE a[h] = NoBackend
    BY <2>1, <2>2 DEF DetachOnly, SafeStep
  <2>3. CASE a[h] # NoBackend
    BY <1>0, <2>1, <2>3, DetachSafe DEF DetachOnly
  <2>. QED  BY <2>2, <2>3
<1>16. CASE \E p \in Proxies : Increment(p) \/ Decrement(p) \/ EraseIt(p)
  <2>1. PICK p \in Proxies : Increment(p) \/ Decrement(p) \/ EraseIt(p)  BY <1>16
  <2>2. CASE EraseIt(p)
    <3>1. proxy[p].arr \in Handles  BY <2>2 DEF EraseIt, IInv
    <3>. QED  BY <1>0, <2>2, <3>1, RemoveAtSafe DEF EraseIt
  <2>. QED  BY <2>1, <2>2 DEF Increment, Decrement, SafeStep
<1>17. CASE \E p \in Proxies, j \in Offsets : AdvanceBy(p, j)
  BY <1>17 DEF AdvanceBy, SafeStep
<1>18. CASE \E p \in Proxies, j \in Offsets, v \in Values : IterAssign(p, j, v)
  BY <1>18, ProxyWriteSafe
<1>19. CASE \E p \in Proxies, v \in Values : InsertIt(p, v)
  <2>1. PICK p \in Proxies, v \in Values : InsertIt(p, v)  BY <1>19
  <2>2. proxy[p].arr \in Handles  BY <2>1 DEF InsertIt, IInv
  <2>. QED  BY <1>0, <2>1, <2>2, InsertSafe DEF InsertIt
<1>. QED  BY <1>1, <1>2, <1>3, <1>4, <1>5, <1>6, <1>7, <1>8, <1>9, <1>10, <1>11, <1>12,
             <1>13, <1>14, <1>15, <1>16, <1>17, <1>18, <1>19 DEF Next

----------------------------------------------------------------------------
(* Equality is value equality.  It needs only the types: comparesEqual's  *)
(* fast path (same pointer), its two null cases and its element loop each  *)
(* agree with the equality of the sequences the handles denote.           *)

\* Two sequences of the same length that agree at every position are equal.
LEMMA SeqExt ==
  ASSUME NEW s \in Seq(Values), NEW t \in Seq(Values)
  PROVE  (Len(s) = Len(t) /\ \A i \in 1 .. Len(s) : s[i] = t[i]) <=> s = t
OBVIOUS

LEMMA EqualityFromTypes ==
  ASSUME TypeOK
  PROVE  EqualityIsValueEquality
<1> SUFFICES ASSUME NEW l \in Handles, NEW r \in Handles
             PROVE  ComparesEqual(l, r) <=> Val(l) = Val(r)
  BY DEF EqualityIsValueEquality
<1>0. /\ a[l] \in Backends \cup {NoBackend}
      /\ a[r] \in Backends \cup {NoBackend}
      /\ elems \in [Backends -> Seq(Values)]
  BY DEF TypeOK
<1>1. CASE a[l] = a[r]
  BY <1>1 DEF ComparesEqual, Val
<1>2. CASE a[l] # a[r] /\ a[l] = NoBackend
  <2>1. elems[a[r]] \in Seq(Values)  BY <1>0, <1>2
  <2>. QED  BY <1>2, <2>1 DEF ComparesEqual, Val
<1>3. CASE a[l] # a[r] /\ a[r] = NoBackend
  <2>1. elems[a[l]] \in Seq(Values)  BY <1>0, <1>3
  <2>. QED  BY <1>3, <2>1 DEF ComparesEqual, Val
<1>4. CASE a[l] # a[r] /\ a[l] # NoBackend /\ a[r] # NoBackend
  <2>1. elems[a[l]] \in Seq(Values) /\ elems[a[r]] \in Seq(Values)  BY <1>0, <1>4
  <2>2. ComparesEqual(l, r) <=>
          /\ Len(elems[a[l]]) = Len(elems[a[r]])
          /\ \A i \in 1 .. Len(elems[a[l]]) : elems[a[l]][i] = elems[a[r]][i]
    BY <1>4 DEF ComparesEqual, CborEq
  <2>3. Val(l) = elems[a[l]] /\ Val(r) = elems[a[r]]  BY <1>4 DEF Val
  <2>. QED  BY <2>1, <2>2, <2>3, SeqExt
<1>. QED  BY <1>1, <1>2, <1>3, <1>4

----------------------------------------------------------------------------
(* The theorems.                                                           *)

\* IInv holds in every reachable state of QJsonArray: the member functions
\* keep pointers, element types, reference counts and allocation in step.
THEOREM IInvInvariant == Spec => []IInv
BY InitIInv, NextIInv, PTL DEF Spec

\* Type correctness of every member function, for every instance.
THEOREM TypeCorrect == Spec => []TypeOK
BY IInvInvariant, IInvTypeOK, PTL

\* Sound sharing for every instance: whatever sequence of copies, moves,
\* swaps, destructions, detaching writes and writes through operator[]
\* the program performs, every allocated QCborContainerPrivate's ref is
\* the number of QJsonArrays pointing to it, none points to a freed one
\* and none is leaked.
THEOREM SharingIsSound == Spec => []SharingSound
BY IInvInvariant, IInvSharingSound, PTL

\* Detach before mutate, for every instance: no member function, copy,
\* move, destruction or write through operator[] changes the elements of
\* an allocated QCborContainerPrivate that more than one QJsonArray holds
\* (detach() clones it first, and a deref frees it only at its last
\* reference).
THEOREM DetachBeforeMutate == Spec => NoSharedMutation
<1>1. IInv /\ [Next]_vars => [SafeStep]_vars  BY NextSafe
<1>2. Spec => [][SafeStep]_vars  BY <1>1, IInvInvariant, PTL DEF Spec
<1>. QED  BY <1>2 DEF NoSharedMutation, SafeStep

\* Equality is value equality for every instance: comparesEqual(l, r)
\* holds exactly when l and r denote the same sequence, whether they share
\* a backend, one is null and the other an emptied backend, or they hold
\* distinct backends.
THEOREM EqualityIsValue == Spec => []EqualityIsValueEquality
BY TypeCorrect, EqualityFromTypes, PTL

=============================================================================
