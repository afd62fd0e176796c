------------------------------- MODULE Lists --------------------------------
(***************************************************************************)
(* The few operators on sequences that several collectors use.  The        *)
(* library's module has them too, among a hundred others, each of which    *)
(* every instance of a collector in Devices would have again.              *)
(***************************************************************************)
EXTENDS Integers, Sequences, FiniteSets

\* The elements of a finite set, in an order that depends on the set alone.
SetToSeq(S) == CHOOSE f \in [1 .. Cardinality(S) -> S] : \A i, j \in DOMAIN f : f[i] = f[j] => i = j

\* s without its i-th element.
RemoveAt(s, i) == SubSeq(s, 1, i - 1) \o SubSeq(s, i + 1, Len(s))

Contains(s, e) == \E i \in DOMAIN s : s[i] = e

\* A sequence of sequences, one after the other.
FlattenSeq(ss) ==
  LET first[n \in 0 .. Len(ss)] == IF n = 0 THEN <<>> ELSE first[n - 1] \o ss[n]
  IN first[Len(ss)]
=============================================================================
