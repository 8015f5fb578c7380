------------------------------- MODULE VecOps -------------------------------
(***************************************************************************)
(* vec: construction from scalars and vectors, named elements, swizzles,   *)
(* halves, conversion and reinterpretation; and the functions of math.hpp. *)
(* Element i of the code is position i + 1; a vec of another size is a     *)
(* sequence of that length.                                                *)
(***************************************************************************)
EXTENDS Integers, Sequences, SequencesExt, FiniteSets

Sizes == {1, 2, 3, 4, 8, 16}

-----------------------------------------------------------------------------
\* Construction.  An argument is its elements and whether it is a scalar
IsScalar(arg) == arg.scalar
flatten(arg) == IF IsScalar(arg) THEN <<arg.elements[1]>> ELSE arg.elements
flatten_to_tuple(args) == FlattenSeq([k \in DOMAIN args |-> flatten(args[k])])

\* expand_to_vector: a single initializer fills the vector, else the sizes match
fill_tuple(n, v) == [k \in 1 .. n |-> v]
CanExpand(n, tuple) == Len(tuple) \in {1, n}
expand(n, tuple) == IF Len(tuple) = 1 THEN fill_tuple(n, tuple[1]) ELSE tuple

\* The constructor of detail::vec, and for exactly n arguments that of small_array
\* with its element by element conversion
CanMake(n, args) ==
  IF Len(args) = n THEN \A k \in DOMAIN args : IsScalar(args[k])
  ELSE CanExpand(n, flatten_to_tuple(args))
MakeVec(n, args) ==
  IF Len(args) = n THEN [k \in 1 .. n |-> args[k].elements[1]]
  ELSE expand(n, flatten_to_tuple(args))

-----------------------------------------------------------------------------
\* swizzle(indexes): a new vec of the elements at those indexes
swizzle(v, indexes) == [k \in DOMAIN indexes |-> v[indexes[k] + 1]]

\* The classes vec<DataType, n>: their letters, in the order of the elements, their
\* numbered elements, and the indexes of lo(), hi(), odd() and even()
Vec1 == [letters |-> <<"x">>, colours |-> <<>>, numbered |-> {0},
         lo |-> <<>>, hi |-> <<>>, odd |-> <<>>, even |-> <<>>]
Vec2 == [letters |-> <<"x", "y">>, colours |-> <<>>, numbered |-> 0 .. 1,
         lo |-> <<0>>, hi |-> <<1>>, odd |-> <<1>>, even |-> <<0>>]
Vec3 == [letters |-> <<"x", "y", "z">>, colours |-> <<>>, numbered |-> 0 .. 2,
         lo |-> <<0, 1>>, hi |-> <<2, 2>>, odd |-> <<1, 1>>, even |-> <<0, 2>>]
Vec4 == [letters |-> <<"x", "y", "z", "w">>, colours |-> <<"r", "g", "b", "a">>,
         numbered |-> 0 .. 3,
         lo |-> <<0, 1>>, hi |-> <<2, 3>>, odd |-> <<1, 3>>, even |-> <<0, 2>>]
Vec8 == [letters |-> <<>>, colours |-> <<>>, numbered |-> 0 .. 8,    \* s0() to s8()
         lo |-> <<0, 1, 2, 3>>, hi |-> <<4, 5, 6, 7>>,
         odd |-> <<1, 3, 5, 7>>, even |-> <<0, 2, 4, 6>>]
Vec16 == [letters |-> <<>>, colours |-> <<>>, numbered |-> 0 .. 15,
          lo |-> <<0, 1, 2, 3, 4, 5, 6, 7>>, hi |-> <<8, 9, 10, 11, 12, 13, 14, 15>>,
          odd |-> <<1, 3, 5, 7, 9, 11, 13, 15>>, even |-> <<0, 2, 4, 6, 8, 10, 12, 14>>]
Class(n) == CASE n = 1 -> Vec1 [] n = 2 -> Vec2 [] n = 3 -> Vec3 [] n = 4 -> Vec4
              [] n = 8 -> Vec8 [] n = 16 -> Vec16

Letters(n) == Class(n).letters
lo(v)   == swizzle(v, Class(Len(v)).lo)
hi(v)   == swizzle(v, Class(Len(v)).hi)
odd(v)  == swizzle(v, Class(Len(v)).odd)
even(v) == swizzle(v, Class(Len(v)).even)

\* The generated swizzles of each class: a name is the sequence of its letters
Words(letters, len) == [1 .. len -> ToSet(letters)]
Swizzles2(n) == IF n \in {2, 3, 4} THEN Words(Letters(2), 2) ELSE {}
Swizzles3(n) == IF n \in {3, 4} THEN Words(Letters(3), 3) ELSE {}
Swizzles4(n) == IF n = 4 THEN Words(Letters(4), 4) ELSE {}
SwizzlesRgba(n) == IF n = 4 THEN Words(Vec4.colours, 4) ELSE {}
IndexOf(letters, c) == (CHOOSE k \in DOMAIN letters : letters[k] = c) - 1
Named(letters, v, word) == swizzle(v, [k \in DOMAIN word |-> IndexOf(letters, word[k])])

-----------------------------------------------------------------------------
\* vec::map and vec::zip, of a function on the elements
map(v, f) == [k \in DOMAIN v |-> f[v[k]]]
zip(v, x, f) == [k \in DOMAIN v |-> f[v[k], x[k]]]

\* alignment_v and get_size, for elements of b bytes
get_align(n, b) == IF n = 3 THEN 4 * b ELSE n * b
get_size(v, b) == get_align(Len(v), b)

\* The object in memory: its bytes, with the padding of a vec of 3 last.  An element
\* is the sequence of its bytes.
Padding == <<0, 0>>
\* Mutation: the padding comes first
Bytes_late(v, b) == [k \in 1 .. get_size(v, b) - Len(v) * b |-> Padding] \o FlattenSeq(v)
Bytes(v, b) == FlattenSeq(v) \o [k \in 1 .. get_size(v, b) - Len(v) * b |-> Padding]
\* as<vec of n elements of b2 bytes>(), defined when the sizes match
CanAs(v, b, n, b2) == get_align(n, b2) = get_size(v, b)
as(v, b, n, b2) ==
  [k \in 1 .. n |-> SubSeq(Bytes(v, b), (k - 1) * b2 + 1, k * b2)]
-----------------------------------------------------------------------------
(* The mathematical functions of math.hpp on scalars and on vec.            *)

\* Floating point values: a sign and a magnitude, zero has a sign too, or NaN
Float(sign, magnitude) == <<sign, magnitude>>
NaN == <<>>
LessThan(x, y) == x # NaN /\ y # NaN /\ x[1] * x[2] < y[1] * y[2]
IsZero(x) == x # NaN /\ x[2] = 0
Floats == {NaN} \union {Float(s, m) : s \in {-1, 1}, m \in 0 .. 1}

\* The functions of the C++ library
std_fmax(x, y) == IF x = NaN THEN y ELSE IF y = NaN THEN x ELSE IF LessThan(x, y) THEN y ELSE x
std_fmin(x, y) == IF x = NaN THEN y ELSE IF y = NaN THEN x ELSE IF LessThan(y, x) THEN y ELSE x
std_max(x, y) == IF LessThan(x, y) THEN y ELSE x
std_min(x, y) == IF LessThan(y, x) THEN y ELSE x
std_clamp(v, low, high) == IF LessThan(v, low) THEN low ELSE IF LessThan(high, v) THEN high ELSE v
std_fabs(x) == IF x = NaN THEN NaN ELSE Float(1, x[2])
-----------------------------------------------------------------------------
\* TRISYCL_MATH_WRAP(fabs), 2s(fmax), 2s(fmin) with a scalar, 3ss(clamp)
fabs(x) == map(x, [e \in ToSet(x) |-> std_fabs(e)])
fmax_scalar(x, y) == map(x, [e \in ToSet(x) |-> std_fmax(e, y)])
fmin_scalar(x, y) == map(x, [e \in ToSet(x) |-> std_fmin(e, y)])
clamp(x, y, z) == map(x, [e \in ToSet(x) |-> std_clamp(e, y, z)])

\* fmax and fmin of two vecs; max and min of two vecs are the same functions
fmax(x, y) == zip(x, y, [a \in ToSet(x), b \in ToSet(y) |-> std_fmax(a, b)])
fmin(x, y) == zip(x, y, [a \in ToSet(x), b \in ToSet(y) |-> std_fmin(a, b)])
max(x, y) == fmax(x, y)
min(x, y) == fmin(x, y)

\* max and min of three scalars
max3(x, y, z) == std_max(x, std_max(y, z))
min3(x, y, z) == std_min(x, std_min(y, z))

\* sign of a scalar and of a vec
sign_of(val) == IF IsZero(val) THEN val
                ELSE IF val = NaN THEN Float(1, 0)
                ELSE IF LessThan(Float(1, 0), val) THEN Float(1, 1) ELSE Float(-1, 1)
sign(x) == map(x, [e \in ToSet(x) |-> sign_of(e)])
-----------------------------------------------------------------------------
\* The geometric functions, on integers

cross(x, y) ==
  << (x[2] * y[3]) - (x[3] * y[2]), (x[3] * y[1]) - (x[1] * y[3]),
     (x[1] * y[2]) - (x[2] * y[1]) >> \o IF Len(x) > 3 THEN <<0>> ELSE <<>>

\* std::accumulate and std::inner_product, from T{0}
accumulate(s) == FoldLeft(LAMBDA sum, e : sum + e, 0, s)
dot(x, y) == accumulate(zip(x, y, [a \in ToSet(x), b \in ToSet(y) |-> a * b]))

\* length and normalize, whose square root and quotient stay symbolic
length(x) == [sqrt |-> accumulate(zip(x, x, [a, b \in ToSet(x) |-> a * b]))]
normalize(x) == map(x, [e \in ToSet(x) |-> [over |-> length(x), value |-> e]])
=============================================================================
