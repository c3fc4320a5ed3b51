-------------------------------- MODULE X25519 --------------------------------
(***************************************************************************)
(* lib/x25519.js: scalar multiplication on the x-coordinates of a          *)
(* Montgomery curve over the field of P elements, by a ladder that takes   *)
(* one bit of the scalar per round.  The code has P = 2^255 - 19, bytes of *)
(* 8 bits, 32 of them in an operand, COFACTOR 8 and A24 = 121665.          *)
(***************************************************************************)
EXTENDS Integers, Sequences

CONSTANTS P, A24, Base,
          ByteBits, Size,   \* bits of a byte, bytes of an operand
          COFACTOR,         \* what clamping makes scalars multiples of
          NonSquare         \* of the reference: an element without a square root

BITS == ByteBits * Size - 1

\* 2^n
Pow2[n \in 0..BITS + 1] == IF n = 0 THEN 1 ELSE 2 * Pow2[n - 1]

ByteValue == 0..Pow2[ByteBits] - 1

ASSUME X25519Assumption ==
    /\ {ByteBits, Size} \subseteq Nat \ {0, 1}
    /\ P \in 3..Pow2[BITS] /\ \A d \in 2..P - 1 : P % d # 0
    /\ A24 \in 1..P - 2 /\ Base \in 1..P - 1
    /\ COFACTOR \in Nat \ {0} /\ Pow2[ByteBits] % COFACTOR = 0
    /\ NonSquare \in 1..P - 1 /\ \A r \in 0..P - 1 : (r * r) % P # NonSquare

VARIABLES k, u,             \* the decoded operands
          t,                \* the bit that is next, counted from 0; -1 when there is none
          x2, z2, x3, z3, swap,
          result            \* the bytes returned; <<>> before

ladderVars == <<k, u, t, x2, z2, x3, z3, swap, result>>

-----------------------------------------------------------------------------
(* Field arithmetic.  % is the code's mod(): never negative. *)

add(a, b) == (a + b) % P
sub(a, b) == (a - b) % P
mul(a, b) == (a * b) % P

\* a^(P - 2), by squaring: 0 for 0
inv(a) ==
    LET power[e \in 0..P - 2] ==
            IF e = 0 THEN 1
            ELSE LET half == power[e \div 2]
                 IN mul(mul(half, half), IF e % 2 = 1 THEN a ELSE 1)
    IN power[P - 2]

(* Bytes, the least significant first *)

bytesToBigIntLE(b) ==
    LET sum[i \in 0..Len(b)] == IF i = 0 THEN 0 ELSE sum[i - 1] + b[i] * Pow2[ByteBits * (i - 1)]
    IN sum[Len(b)]

bigIntToBytesLE(x) == [i \in 1..Size |-> (x \div Pow2[ByteBits * (i - 1)]) % Pow2[ByteBits]]

TopBit == Pow2[ByteBits - 1]

\* &= 248 in the first byte, &= 127 and |= 64 in the last
clampScalarBytes(b) ==
    bytesToBigIntLE([[b EXCEPT ![1] = @ - (@ % COFACTOR)] EXCEPT ![Size] =
                        LET low == @ % TopBit IN
                        IF low < TopBit \div 2 THEN low + TopBit \div 2 ELSE low])

\* &= 127 in the last; the number may be P or more, and is not reduced here
decodeUCoordinateBytes(b) == bytesToBigIntLE([b EXCEPT ![Size] = @ % TopBit])

-----------------------------------------------------------------------------
(* The ladder *)

Start(scalar, point) ==
    /\ k' = scalar /\ u' = point
    /\ t' = BITS - 1
    /\ x2' = 1 /\ z2' = 0 /\ x3' = point /\ z3' = 1 /\ swap' = 0
    /\ result' = <<>>

\* x25519; a scalar or point of another length throws before anything is computed
x25519(scalarBytes, uBytes) ==
    Len(scalarBytes) = Size /\ Len(uBytes) = Size
        /\ Start(clampScalarBytes(scalarBytes), decodeUCoordinateBytes(uBytes))

x25519Base(scalarBytes) ==
    Len(scalarBytes) = Size /\ Start(clampScalarBytes(scalarBytes), Base)

Bit(n, i) == (n \div Pow2[i]) % 2

\* Faulty variant: the swap of the round before is not undone
SwapOnBit == Bit(k, t)

\* swap ^= kt
SwapNow == (swap + Bit(k, t)) % 2

\* One round of the loop
Round ==
    /\ t >= 0
    /\ LET swapped == SwapNow = 1
           a2 == IF swapped THEN x3 ELSE x2
           a3 == IF swapped THEN x2 ELSE x3
           c2 == IF swapped THEN z3 ELSE z2
           c3 == IF swapped THEN z2 ELSE z3
           A == add(a2, c2)
           AA == mul(A, A)
           B == sub(a2, c2)
           BB == mul(B, B)
           E == sub(AA, BB)
           DA == mul(sub(a3, c3), A)
           CB == mul(add(a3, c3), B)
       IN /\ x3' = mul(add(DA, CB), add(DA, CB))
          /\ z3' = mul(u, mul(sub(DA, CB), sub(DA, CB)))
          /\ x2' = mul(AA, BB)
          /\ z2' = mul(E, add(AA, mul(A24, E)))
    /\ swap' = Bit(k, t)
    /\ t' = t - 1
    /\ UNCHANGED <<k, u, result>>

\* The last swap, and the division
Return ==
    /\ t = -1 /\ result = <<>>
    /\ result' = bigIntToBytesLE(IF swap = 1 THEN mul(x3, inv(z3)) ELSE mul(x2, inv(z2)))
    /\ UNCHANGED <<k, u, t, x2, z2, x3, z3, swap>>

Operand == [1..Size -> ByteValue]

LadderInit ==
    /\ k = 0 /\ u = 0 /\ t = -1
    /\ x2 = 1 /\ z2 = 0 /\ x3 = 0 /\ z3 = 1 /\ swap = 0
    /\ result = bigIntToBytesLE(0)

LadderNext ==
    \/ /\ result # <<>>
       /\ \E scalar \in Operand : x25519Base(scalar) \/ \E point \in Operand : x25519(scalar, point)
    \/ Round \/ Return

LadderSpec == LadderInit /\ [][LadderNext]_ladderVars

-----------------------------------------------------------------------------
(* The reference: multiples of a point by the group law of the curve       *)
(* B y^2 = x^3 + A x^2 + x.  Every x is of a point for B = 1 or for        *)
(* B = NonSquare (the twist); O is the point at infinity.                  *)

CurveA == 4 * A24 + 2
O == <<>>
RightSide(x) == (x * x * x + CurveA * x * x + x) % P
Points(B) ==
    {O} \cup {p \in (0..P - 1) \X (0..P - 1) : mul(B, p[2] * p[2]) = RightSide(p[1])}
Slope(B, p, q) ==
    IF p = q THEN mul(3 * p[1] * p[1] + 2 * CurveA * p[1] + 1, inv(2 * B * p[2]))
             ELSE mul(q[2] - p[2], inv(q[1] - p[1]))
Plus(B, p, q) ==
    IF p = O THEN q ELSE IF q = O THEN p
    ELSE IF p[1] = q[1] /\ (p[2] + q[2]) % P = 0 THEN O
    ELSE LET s == Slope(B, p, q)
             x == (B * s * s - CurveA - p[1] - q[1]) % P
         IN <<x, sub(mul(s, p[1] - x), p[2])>>

(* What is taken from mathematics: Fermat's little theorem for P, that each *)
(* x is of a point for B = 1 or for B = NonSquare, and that the points     *)
(* are a group.                                                            *)
Powers(a) == LET power[n \in 0..P - 1] == IF n = 0 THEN 1 ELSE mul(power[n - 1], a) IN power

ASSUME FermatAssumption == \A a \in 1..P - 1 : Powers(a)[P - 1] = 1

ASSUME TwistAssumption ==
    \A x \in 0..P - 1 : \E B \in {1, NonSquare}, y \in 0..P - 1 : <<x, y>> \in Points(B)

ASSUME GroupAssumption ==
    \A B \in {1, NonSquare} : \A p, q \in Points(B) :
        /\ Plus(B, p, q) \in Points(B)
        /\ \A r \in Points(B) : Plus(B, Plus(B, p, q), r) = Plus(B, p, Plus(B, q, r))

\* The multiples 0..Pow2[BITS] of a point with the given x
Multiples(x) ==
    LET B == CHOOSE b \in {1, NonSquare} : \E y \in 0..P - 1 : <<x, y>> \in Points(b)
        Q == <<x, CHOOSE y \in 0..P - 1 : <<x, y>> \in Points(B)>>
        times[n \in 0..Pow2[BITS]] == IF n = 0 THEN O ELSE Plus(B, times[n - 1], Q)
    IN times

AllMultiples == [x \in 0..P - 1 |-> LET m == Multiples(x) IN [n \in 0..Pow2[BITS] |-> m[n]]]

\* (x : z) stands for the x-coordinate of p.
StandsFor(x, z, p) == IF p = O THEN x # 0 /\ z = 0 ELSE z # 0 /\ mul(x, inv(z)) = p[1]

\* Before a round the two pairs stand for the multiples by the bits taken so far and by one
\* more, the other way round while a swap is open.  (Not for the point of order 2.)
HoldsMultiples ==
    LET m == k \div Pow2[t + 1]
        of == AllMultiples[u % P]
    IN u % P # 0 =>
           /\ StandsFor(IF swap = 1 THEN x3 % P ELSE x2 % P, IF swap = 1 THEN z3 ELSE z2, of[m])
           /\ StandsFor(IF swap = 1 THEN x2 % P ELSE x3 % P, IF swap = 1 THEN z2 ELSE z3, of[m + 1])

(* The ladder multiplies: what it returns is the x-coordinate of the k-th  *)
(* multiple of the point, 0 for the point at infinity, on the curve and on *)
(* its twist, for operands that are not reduced as well; and the scalar is *)
(* a multiple of the cofactor with the top bit set (montgomeryLadder,      *)
(* clampScalarBytes, decodeUCoordinateBytes).                              *)
LadderMultiplies ==
    /\ HoldsMultiples
    /\ result = <<>> => k % COFACTOR = 0 /\ Bit(k, BITS - 1) = 1 /\ k < Pow2[BITS]
    /\ t = -1 /\ result # <<>> =>
           LET p == AllMultiples[u % P][k] IN bytesToBigIntLE(result) = IF p = O THEN 0 ELSE p[1]
=============================================================================
