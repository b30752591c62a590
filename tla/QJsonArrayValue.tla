-------------------------- MODULE QJsonArrayValue --------------------------
(***************************************************************************)
(* What QJsonArray promises its users: every handle is an independent     *)
(* value, an ordered sequence of JSON values.  Copying a handle copies the *)
(* value; mutating one handle changes that handle's value and no other.   *)
(* Storage sharing, reference counts and detaching are invisible here:    *)
(* QJsonArray (the detailed module) is shown to implement this one.       *)
(*                                                                         *)
(* Indices are the 0-based qsizetype indices of the C++ API; position i   *)
(* of the API is element i + 1 of a TLA+ sequence.                        *)
(*                                                                         *)
(* op records the operation each step performs, with its arguments, so    *)
(* that a step of an implementation is matched to the operation it        *)
(* performs, never to another one that happens to give the same values.   *)
(***************************************************************************)
EXTENDS Integers, Sequences

CONSTANTS
  Handles,    \* the QJsonArray objects of the program
  Values,     \* the element values (QJsonValue, by its CBOR representation)
  Undefined,  \* QJsonValue::Undefined
  NullValue,  \* QJsonValue::Null
  Lists,      \* the lists of values an array can be constructed from
  Indices     \* the indices a program passes to takeAt()

VARIABLES
  val,        \* val[h]: the sequence of values handle h denotes
  taken,      \* the value the last takeAt() returned
  op          \* the last operation that changed a value, with its arguments

vars == <<val, taken, op>>

\* insert() stores Null in place of an Undefined argument.
Normalized(v) == IF v = Undefined THEN NullValue ELSE v

InsertSeq(s, i, e) ==
  [j \in 1 .. Len(s) + 1 |-> IF j <= i THEN s[j] ELSE IF j = i + 1 THEN e ELSE s[j - 1]]

RemoveSeq(s, i) ==
  [j \in 1 .. Len(s) - 1 |-> IF j <= i THEN s[j] ELSE s[j + 1]]

Init ==
  /\ val = [h \in Handles |-> << >>]
  /\ taken = Undefined
  /\ op = << >>

Insert(h, i, v) ==
  /\ op' = <<"insert", h, i, v>>
  /\ i \in 0 .. Len(val[h])
  /\ val' = [val EXCEPT ![h] = InsertSeq(@, i, Normalized(v))]
  /\ UNCHANGED taken

RemoveAt(h, i) ==
  /\ op' = <<"removeAt", h, i>>
  /\ i \in 0 .. Len(val[h]) - 1
  /\ val' = [val EXCEPT ![h] = RemoveSeq(@, i)]
  /\ UNCHANGED taken

TakeAt(h, i) ==
  /\ op' = <<"takeAt", h, i>>
  /\ i \in 0 .. Len(val[h]) - 1
  /\ taken' = val[h][i + 1]
  /\ val' = [val EXCEPT ![h] = RemoveSeq(@, i)]

TakeAtOutOfRange(h, i) ==
  /\ op' = <<"takeAt", h, i>>
  /\ i \notin 0 .. Len(val[h]) - 1
  /\ taken' = Undefined
  /\ UNCHANGED val

\* replace(), and assignment through a QJsonValueRef: no normalization.
Replace(h, i, v) ==
  /\ op' = <<"replace", h, i, v>>
  /\ i \in 0 .. Len(val[h]) - 1
  /\ val' = [val EXCEPT ![h][i + 1] = v]
  /\ UNCHANGED taken

\* Copy construction or copy assignment: dst takes the value of src.
Assign(dst, src) ==
  /\ op' = <<"assign", dst, src>>
  /\ val' = [val EXCEPT ![dst] = val[src]]
  /\ UNCHANGED taken

\* Move construction: dst takes src's value, src is left empty.
Move(dst, src) ==
  /\ op' = <<"move", dst, src>>
  /\ dst # src
  /\ val' = [val EXCEPT ![dst] = val[src], ![src] = << >>]
  /\ UNCHANGED taken

Swap(h1, h2) ==
  /\ op' = <<"swap", h1, h2>>
  /\ val' = [val EXCEPT ![h1] = val[h2], ![h2] = val[h1]]
  /\ UNCHANGED taken

\* dst = src + value: dst takes src's value with value appended (through
\* insert(), so an Undefined argument becomes Null).
AssignPlus(dst, src, v) ==
  /\ op' = <<"plus", dst, src, v>>
  /\ val' = [val EXCEPT ![dst] = Append(val[src], Normalized(v))]
  /\ UNCHANGED taken

\* Destruction of h, h then being a default-constructed (empty) array.
Clear(h) ==
  /\ op' = <<"clear", h>>
  /\ val' = [val EXCEPT ![h] = << >>]
  /\ UNCHANGED taken

\* h is assigned an array built from the list s: every element went
\* through insert(), so Undefined is stored as Null.
Construct(h, s) ==
  /\ op' = <<"construct", h, s>>
  /\ val' = [val EXCEPT ![h] = [j \in DOMAIN s |-> Normalized(s[j])]]
  /\ UNCHANGED taken

Next ==
  \/ \E h \in Handles :
       \/ \E i \in 0 .. Len(val[h]), v \in Values : Insert(h, i, v)
       \/ \E i \in 0 .. Len(val[h]) - 1 : RemoveAt(h, i) \/ TakeAt(h, i)
       \/ \E i \in Indices : TakeAtOutOfRange(h, i)
       \/ \E i \in 0 .. Len(val[h]) - 1, v \in Values : Replace(h, i, v)
       \/ Clear(h)
  \/ \E h, h2 \in Handles : Assign(h, h2) \/ Move(h, h2) \/ Swap(h, h2)
  \/ \E h, h2 \in Handles, v \in Values : AssignPlus(h, h2, v)
  \/ \E h \in Handles, s \in Lists : Construct(h, s)

Spec == Init /\ [][Next]_vars

=============================================================================
