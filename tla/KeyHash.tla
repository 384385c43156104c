------------------------------- MODULE KeyHash -------------------------------
(***************************************************************************)
(* hash() of src/src/config.cpp: the digest a hashed sharding key is       *)
(* looked up by (Config::find, config.cpp 226).                            *)
(*                                                                         *)
(* An element is [t, v]: its BSON type code and its value.  An object or  *)
(* an array (t 3, 4) is [t, fields], the sequence of its [name, e]; a     *)
(* double (t 1) has twice its value as v, and NaNH for NaN; other values   *)
(* (strings, dates, ...) are a number standing for their bytes; t 0 is an  *)
(* element that does not exist.  The code feeds words (ints, int64s,       *)
(* names, value bytes) to MD5; Feed is that sequence of words, and MD5 is  *)
(* taken to be injective on it: two elements hash alike iff their feeds    *)
(* are equal.                                                              *)
(*                                                                         *)
(* int64_t has W bits and a double a significand of P bits (64 and 53 in  *)
(* the code); with P < W - 1, (double) INT64_MAX rounds up to 2^(W-1).     *)
(***************************************************************************)
EXTENDS Integers, Sequences, TLC

CONSTANTS W, P

IntMin == -(2^(W - 1))
IntMax == 2^(W - 1) - 1

\* The doubles: +-m * 2^(e-1), in halves; NaNH stands for NaN.
DoubleHs == {s * m * 2^e : s \in {-1, 1}, m \in 0..(2^P - 1), e \in 0..(W + 1)}
NaNH == 2^(W + P + 3) + 1

AbsH(h) == IF h < 0 THEN -h ELSE h

\* (double) n: the nearest double (for IntMin and IntMax there is no tie).
ToDoubleH(n) == CHOOSE h \in DoubleHs : \A g \in DoubleHs : AbsH(h - 2 * n) <= AbsH(g - 2 * n)

\* (double) INT64_MIN and (double) INT64_MAX.
MinH == ToDoubleH(IntMin)
MaxH == ToDoubleH(IntMax)

\* static_cast<int64_t>(v) of a double in range: truncation toward zero.
Truncate(h) == IF h >= 0 THEN h \div 2 ELSE -((-h) \div 2)

NumTypes == {1, 16, 18}     \* double, int32, int64: isNumber()
ValuelessTypes == {0, -1, 6, 10, 127}   \* absent, MinKey, undefined, null, MaxKey

\* hashType: the tag fed before a value.  Numbers share the tag of
\* canBe<double>(); MinKey and MaxKey feed their type code.
TagOf == (10 :> 5) @@ (2 :> 15) @@ (3 :> 20) @@ (4 :> 25) @@ (5 :> 30)
         @@ (7 :> 35) @@ (8 :> 40) @@ (9 :> 45) @@ (17 :> 47)

\* Variant: a double keeps a tag of its own.
HashTypeDoubleApart(e) ==
  CASE e.t = 0 -> 0
    [] e.t \in {-1, 127} -> e.t
    [] e.t = 1 -> 11
    [] e.t \in NumTypes -> 10
    [] e.t \in DOMAIN TagOf -> TagOf[e.t]
    [] OTHER -> -1

HashType(e) ==
  CASE e.t = 0 -> 0
    [] e.t \in {-1, 127} -> e.t
    [] e.t \in NumTypes -> 10
    [] e.t \in DOMAIN TagOf -> TagOf[e.t]
    [] OTHER -> -1

\* hash()'s double branch: NaN gives 0, a double below (double) INT64_MIN
\* INT64_MIN, one above (double) INT64_MAX INT64_MAX; any other is cast.
\* The cast of 2^(W-1) itself is out of int64's range, which C++ leaves
\* undefined: cvt is what the build's instruction gives then (x86-64
\* cvttsd2si: INT64_MIN; AArch64 fcvtzs: INT64_MAX).
DoubleWord(cvt, h) ==
  CASE h = NaNH -> 0
    [] h < MinH -> IntMin
    [] h > MaxH -> IntMax
    [] Truncate(h) > IntMax -> cvt
    [] OTHER -> Truncate(h)

\* hash(ctx, elt) and hashRange: an object or array feeds each field's
\* tag, name and value, then a 0; a double its int64 conversion; int32 and
\* int64 their value as int64 (canBe<int64_t>); anything else its bytes.
RECURSIVE HashBody(_, _), HashRange(_, _)
HashBody(cvt, e) ==
  CASE e.t \in {3, 4} -> HashRange(cvt, e.fields)
    [] e.t = 1 -> <<DoubleWord(cvt, e.v)>>
    [] e.t \in ValuelessTypes -> <<>>
    [] OTHER -> <<e.v>>

HashRange(cvt, s) ==
  IF s = <<>> THEN <<0>>
  ELSE <<HashType(Head(s).e), Head(s).name>> \o HashBody(cvt, Head(s).e) \o HashRange(cvt, Tail(s))

\* hash(elt): the seed 0, the element's tag and its value.
Feed(cvt, e) == <<0, HashType(e)>> \o HashBody(cvt, e)
=============================================================================
