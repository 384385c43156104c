----------------------------- MODULE MC_KeyHash -----------------------------
(***************************************************************************)
(* hash() checked against spec §4.4 step 3 ("a canonical digest over a    *)
(* type tag plus the canonical bytes of the value: integers and floats    *)
(* collapse to a single 64-bit path; NaN hashes as 0; double out-of-range *)
(* saturates") on every int32, int64 and double of a W-bit model, on the  *)
(* other types hashType names, and on objects and arrays holding them,    *)
(* for both outcomes the build may give the undefined cast.                *)
(***************************************************************************)
EXTENDS KeyHash

Builds == {IntMin, IntMax}

Int32s == [t : {16}, v : -(2^(W \div 2 - 1))..(2^(W \div 2 - 1) - 1)]
Int64s == [t : {18}, v : IntMin..IntMax]
Doubles == [t : {1}, v : DoubleHs \cup {NaNH}]
Numbers == Int32s \cup Int64s \cup Doubles

\* absent, MinKey, MaxKey, null, two strings, false and true, a date, an
\* ObjectID, a timestamp, binary data.
Scalars ==
  {[t |-> 0, v |-> 0], [t |-> -1, v |-> 0], [t |-> 127, v |-> 0], [t |-> 10, v |-> 0],
   [t |-> 2, v |-> 1], [t |-> 2, v |-> 2], [t |-> 8, v |-> 0], [t |-> 8, v |-> 1],
   [t |-> 9, v |-> 0], [t |-> 7, v |-> 0], [t |-> 17, v |-> 0], [t |-> 5, v |-> 0]}

\* Objects {f: x} and {g: x} and arrays [x] over a few values, and the
\* empty ones (field names are numbers; an array's first is 0).
Inner == {[t |-> 16, v |-> 1], [t |-> 18, v |-> 1], [t |-> 1, v |-> 2], [t |-> 1, v |-> 3],
          [t |-> 1, v |-> NaNH], [t |-> 18, v |-> 0], [t |-> 2, v |-> 1], [t |-> 10, v |-> 0]}
Nested ==
  {[t |-> 3, fields |-> <<>>], [t |-> 4, fields |-> <<>>]}
  \cup {[t |-> 3, fields |-> <<[name |-> f, e |-> x]>>] : f \in {1, 2}, x \in Inner}
  \cup {[t |-> 4, fields |-> <<[name |-> 0, e |-> x]>>] : x \in Inner}

Elems == Numbers \cup Scalars \cup Nested

\* The word sequence of every element under every build, computed once.
Feeds == [b \in Builds |-> [e \in Elems |-> Feed(b, e)]]

-----------------------------------------------------------------------------
(* The reference: spec §4.4 step 3.                                        *)

\* The single 64-bit path of a number: NaN is 0, a double is truncated
\* and, beyond int64's range, saturated.
Canon(e) ==
  CASE e.t # 1 -> e.v
    [] e.v = NaNH -> 0
    [] e.v < 2 * IntMin -> IntMin
    [] e.v > 2 * IntMax -> IntMax
    [] OTHER -> Truncate(e.v)

\* The canonical form the digest is over: a type tag (one for every
\* number) and the canonical value; an object's or array's fields in order.
RECURSIVE Canonical(_)
Canonical(e) ==
  CASE e.t \in NumTypes -> <<1000, <<Canon(e)>>>>
    [] e.t \in {3, 4} -> <<e.t, [i \in DOMAIN e.fields |-> <<e.fields[i].name, Canonical(e.fields[i].e)>>]>>
    [] OTHER -> <<e.t, <<e.v>>>>

\* A double whose cast C++ leaves undefined: in range of the clamps, out
\* of int64's.
Undefined(e) == e.t = 1 /\ e.v # NaNH /\ MinH <= e.v /\ e.v <= MaxH /\ Truncate(e.v) > IntMax

\* Two keys hash alike exactly when their canonical forms are equal, for
\* the keys in dom, under every build.
DigestCanonical(dom) ==
  \A b \in Builds : \A x, y \in dom : Feeds[b][x] = Feeds[b][y] <=> Canonical(x) = Canonical(y)

\* hash() is the spec's canonical digest wherever its behaviour is defined.
HashChecked == DigestCanonical({e \in Elems : ~Undefined(e)})

\* It is also at the double 2^(W-1), which the spec saturates to INT64_MAX.
HashSaturatesChecked == DigestCanonical(Numbers)
=============================================================================
