---------------------------- MODULE MC_QJsonArray ----------------------------
(***************************************************************************)
(* Small instance of QJsonArray for TLC.                                  *)
(***************************************************************************)
EXTENDS QJsonArray, TLC

CONSTANTS h1, h2, h3, b1, b2, b3, p1, p2

\* JSON values, by the QCborValue a QJsonValue holds: QJsonValue(2) is the
\* CBOR integer 2, QJsonValue(2.0) the CBOR double 2.0.
Int2 == [t |-> "Integer", x |-> 2]
Dbl2 == [t |-> "Double", x |-> 2]
\* A QJsonValue holding a string; its text is abstracted to one payload.
Str == [t |-> "String", x |-> 1]

MCHandles == {h1, h2, h3}
MCHandles2 == {h1, h2}
MCBackends == {b1, b2, b3}
MCBackends2 == {b1, b2}
MCProxies == {p1}
MCProxies2 == {p1, p2}
MCValues == {Undefined, NullValue, Str}
MCValuesNum == {Undefined, NullValue, Int2, Dbl2}

Symmetry == Permutations(MCHandles) \cup Permutations(MCBackends)

\* States that differ only in the history variable op are the same program
\* state: op is written by every step and read by none.
ModelView == <<a, elems, ref, live, proxy, taken>>

Symmetry2 ==
  Permutations(MCHandles2) \cup Permutations(MCBackends) \cup Permutations(MCProxies2)

=============================================================================
