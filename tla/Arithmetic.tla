----------------------------- MODULE Arithmetic -----------------------------
(***************************************************************************)
(* Numbers (math.c): integers of a fixed width that become floating point  *)
(* when a result does not fit, and the way back.                           *)
(*                                                                         *)
(* A number is an integer node or a float; the value of either is n/d.  A  *)
(* float is a multiple of 1/Unit with Precision significant bits, and what *)
(* a float operation outputs is rounded to the nearest (ties to even).  A  *)
(* float that is an integer has the denominator 1, any other has Unit.     *)
(* Infinities and not-a-number are left out.                               *)
(*                                                                         *)
(* Signed addition that overflows wraps round, as it does in the build:    *)
(* the code relies on it.  Shifts by the width or more, and the quotient   *)
(* of the least integer by -1, are undefined and left out.                 *)
(***************************************************************************)
EXTENDS Integers, Sequences

CONSTANTS
    IntBits,        \* width of a FIXNUM (64)
    UnsignedBits,   \* width of an unsigned int (32)
    Precision,      \* of a FLONUM (53)
    FractionBits,   \* below its point (1074)
    MAXLOGOINT,     \* 2^31 - 1
    SAFEINT,        \* 2^14 - 1
    Fractions       \* <<n, d>>, the floats n/d that the properties try

(* 2 ^ k, as far as a sum or a product of two integers goes, in units.     *)
TwoTo[k \in 0 .. 3 * IntBits + FractionBits] == IF k = 0 THEN 1 ELSE 2 * TwoTo[k - 1]
Unit == TwoTo[FractionBits]
Size(n) == IF n < 0 THEN -n ELSE n

ASSUME ArithmeticAssumption ==
    /\ {IntBits, UnsignedBits, Precision, FractionBits, MAXLOGOINT, SAFEINT} \subseteq Nat \ {0}
    /\ UnsignedBits < IntBits /\ 3 <= Precision /\ Precision + 1 < IntBits
    /\ IntBits + Precision <= FractionBits
    /\ SAFEINT * SAFEINT <= MAXLOGOINT /\ MAXLOGOINT < TwoTo[Precision]

(* A float is an integer of any size, or has its fraction within the       *)
(* significant bits.                                                       *)
ASSUME FractionsAssumption ==
    \A f \in Fractions :
        /\ f[1] \in Int /\ f[2] \in Nat \ {0}
        /\ \/ f[2] = 1 /\ Size(f[1]) <= TwoTo[2 * IntBits]
           \/ Size(f[1]) < TwoTo[Precision] * f[2]

MaxInt == TwoTo[IntBits - 1] - 1
MinInt == -MaxInt - 1
Ints == MinInt .. MaxInt
Wrapped(n) == ((n - MinInt) % (2 * (MaxInt + 1))) + MinInt
(* Division as C does it, toward zero.                                     *)
Quot(a, b) == (IF (a < 0) = (b < 0) THEN 1 ELSE -1) * (Size(a) \div Size(b))
Rem(a, b) == a - b * Quot(a, b)

(* The integer nearest to n/u, for 0 < u; the even one of two.             *)
TiesToEven(n, u) ==
    LET low == n \div u
        over == 2 * (n - low * u)
    IN IF over < u \/ (over = u /\ low % 2 = 0) THEN low ELSE low + 1
(* The integer of Precision significant bits nearest to n/d, for 0 < d.    *)
Rounded(n, d) ==
    LET e == CHOOSE k \in 0 .. 2 * IntBits + FractionBits :
                TwoTo[Precision + k] * d > Size(n) /\ (k = 0 \/ TwoTo[Precision + k - 1] * d <= Size(n))
    IN TwoTo[e] * TiesToEven(n, TwoTo[e] * d)
Nearest(n) == Rounded(n, 1)

IntNode(n) == [int |-> TRUE, n |-> n, d |-> 1]
(* The float of m units.                                                   *)
InUnits(m) == [int |-> FALSE, n |-> IF m % Unit = 0 THEN m \div Unit ELSE m, d |-> IF m % Unit = 0 THEN 1 ELSE Unit]
(* The float nearest to n/d.                                               *)
FloatNode(n, d) ==
    LET s == IF d < 0 THEN -1 ELSE 1
    IN IF Rem(n, d) = 0 THEN [int |-> FALSE, n |-> Nearest(Quot(n, d)), d |-> 1]
       ELSE InUnits(Rounded(s * n * Unit, s * d))
AsFloat(x) == IF x.int THEN FloatNode(x.n, 1) ELSE x
Bad == [int |-> FALSE, n |-> 0, d |-> 0]

Below(x, y) == x.n * y.d < y.n * x.d

---------------------------------------------------------------------------
(* binary, one argument more.                                              *)

(* Mutant: a sum that overflows is noticed for positive numbers only.      *)
PlusPositive(x, y) ==
    LET nval == Wrapped(x + y) IN IF y >= 0 /\ nval < x THEN FloatNode(Nearest(x) + Nearest(y), 1) ELSE IntNode(nval)
Plus(x, y) ==
    LET nval == Wrapped(x + y)
    IN IF (y < 0 /\ nval >= x) \/ (y >= 0 /\ nval < x) THEN FloatNode(Nearest(x) + Nearest(y), 1) ELSE IntNode(nval)

Times(x, y) ==
    LET product == FloatNode(Nearest(x) * Nearest(y), 1)
    IN IF Size(x) < SAFEINT /\ Size(y) < SAFEINT THEN IntNode(x * y)
       ELSE IF Size(product.n) <= MAXLOGOINT THEN IntNode(product.n) ELSE product

Over(x, y) ==
    IF y = 0 THEN Bad ELSE IF Rem(x, y) # 0 THEN FloatNode(Nearest(x), Nearest(y)) ELSE IntNode(Quot(x, y))
Remainder(x, y) == IF y = 0 THEN Bad ELSE IntNode(Rem(x, y))
Modulo(x, y) ==
    IF y = 0 THEN Bad
    ELSE LET r == Rem(x, y) IN IF (r < 0) # (y < 0) THEN IntNode(r + y) ELSE IntNode(r)

AShift(x, k) == IntNode(IF k < 0 THEN x \div 2 ^ (-k) ELSE Wrapped(x * 2 ^ k))
LShift(x, k) == IntNode(IF k < 0 THEN (x % 2 ^ UnsignedBits) \div 2 ^ (-k) ELSE Wrapped(x * 2 ^ k))

IntStep(op, x, y) ==
    CASE op = "+" -> Plus(x, y)
      [] op = "-" -> Plus(x, Wrapped(-y))
      [] op = "*" -> Times(x, y)
      [] op = "/" -> Over(x, y)
      [] op = "%" -> Remainder(x, y)
      [] op = "m" -> Modulo(x, y)
      [] op = "a" -> AShift(x, y)
      [] op = "l" -> LShift(x, y)

FloatStep(op, x, y) ==
    CASE op = "+" -> FloatNode(x.n * y.d + y.n * x.d, x.d * y.d)
      [] op = "-" -> FloatNode(x.n * y.d - y.n * x.d, x.d * y.d)
      [] op = "*" -> FloatNode(x.n * y.n, x.d * y.d)
      [] op = "/" -> IF y.n = 0 THEN Bad ELSE FloatNode(x.n * y.d, x.d * y.n)
      [] op \in {"%", "m"} ->
            IF y.n = 0 THEN Bad
            ELSE LET r == Rem(x.n * y.d, y.n * x.d)
                     wrong == op = "m" /\ (r < 0) # (y.n < 0)
                 IN FloatNode(r + IF wrong THEN y.n * x.d ELSE 0, x.d * y.d)
      [] op \in {"a", "l"} -> Bad

Binary(op, x, y) ==
    IF x = Bad \/ y = Bad THEN Bad
    ELSE IF x.int /\ y.int THEN IntStep(op, x.n, y.n) ELSE FloatStep(op, AsFloat(x), AsFloat(y))

Minus(x) == IF x.int THEN IntNode(Wrapped(-x.n)) ELSE FloatNode(-x.n, x.d)
IntPart(x) ==
    IF x.int THEN x
    ELSE IF Below(IntNode(MAXLOGOINT), x) \/ Below(x, IntNode(-MAXLOGOINT)) THEN FloatNode(Quot(x.n, x.d), 1)
    ELSE IntNode(Quot(x.n, x.d))
Round(x) ==
    IF x.int THEN x ELSE IntPart(FloatNode(2 * x.n + (IF x.n < 0 THEN -x.d ELSE x.d), 2 * x.d))

(* compare_numnodes: below, the same or above zero.                        *)
Compare(x, y) ==
    IF x.int /\ y.int THEN Wrapped(x.n - y.n)
    ELSE LET f == AsFloat(x) g == AsFloat(y) IN f.n * g.d - g.n * f.d

(* integer_arg, for ITEM, REPEAT and the like.                             *)
IntegerArg(x) ==
    IF x.int THEN x
    ELSE IF x.d = 1 /\ -MAXLOGOINT <= x.n /\ x.n < MAXLOGOINT THEN IntNode(x.n) ELSE Bad

---------------------------------------------------------------------------
(* Properties, of all integers of the width and the floats in Fractions.   *)

SomeNumbers == {IntNode(n) : n \in Ints} \cup {FloatNode(f[1], f[2]) : f \in Fractions}
Close(x, n) == Size(x.n - n * x.d) * TwoTo[Precision - 2] <= Size(n) * x.d

(* SUM, DIFFERENCE and PRODUCT of integers: an integer result is exact and *)
(* what does not fit is a float near it, also when a third input comes     *)
(* after the overflow (math.c:304-381, docs/ucblogo.texi:2907).  The least *)
(* integer cannot be subtracted: its negation is itself.                   *)
ExactOrNear(x, n) == IF x.int THEN x.n = n ELSE Close(x, n)
Edges == {MinInt, MinInt + 1, -MAXLOGOINT, -1, 0, 1, SAFEINT, MAXLOGOINT + 1, MaxInt - 1, MaxInt}
SumsAreExact ==
    /\ \A a, b \in Ints :
         LET sum == Binary("+", IntNode(a), IntNode(b))
             difference == Binary("-", IntNode(a), IntNode(b))
             product == Binary("*", IntNode(a), IntNode(b))
         IN /\ ExactOrNear(sum, a + b) /\ (sum.int <=> a + b \in Ints)
            /\ b # MinInt => ExactOrNear(difference, a - b) /\ (difference.int <=> a - b \in Ints)
            /\ ExactOrNear(product, a * b) /\ (Size(a * b) <= MAXLOGOINT /\ Size(Nearest(a)) = Size(a) /\ Size(Nearest(b)) = Size(b) => product.int)
    /\ \A a, b, c \in Edges :
         LET sum == Binary("+", Binary("+", IntNode(a), IntNode(b)), IntNode(c))
         IN IF a + b \in Ints THEN ExactOrNear(sum, a + b + c)
            ELSE ~sum.int /\ Size(sum.n - (a + b + c)) * TwoTo[Precision - 2] <= Size(a) + Size(b) + Size(c)

(* QUOTIENT of integers is an integer exactly when the divisor divides     *)
(* (docs/ucblogo.texi:2920) and a float near it if not, REMAINDER leaves a *)
(* multiple of the divisor and has the dividend's sign, and MODULO is      *)
(* congruent to it and on the divisor's side of zero; a negative divisor   *)
(* that divides comes out itself.                                          *)
DivisionAgrees ==
    \A a, b \in Ints : b # 0 /\ ~(a = MinInt /\ b = -1) =>
        LET q == Binary("/", IntNode(a), IntNode(b))
            r == Binary("%", IntNode(a), IntNode(b))
            m == Binary("m", IntNode(a), IntNode(b))
        IN /\ q.int <=> a % Size(b) = 0
           /\ IF q.int THEN q.n * b = a
              ELSE Size(q.n * b - a * q.d) * TwoTo[Precision - 2] <= Size(a) * q.d
           /\ r.int /\ Size(r.n) < Size(b) /\ (r.n # 0 => (r.n < 0) = (a < 0)) /\ (a - r.n) % Size(b) = 0
           /\ m.int /\ (a - m.n) % Size(b) = 0
           /\ IF b > 0 THEN m.n \in 0 .. b - 1 ELSE m.n \in b .. -1

(* LESSP, EQUALP and GREATERP never contradict the order of the numbers,   *)
(* integers and floats mixed, as long as the difference of two integers    *)
(* fits in one (compare_numnodes, math.c:563-590).                         *)
OrderIsKept ==
    \A x, y \in SomeNumbers :
        ~(x.int /\ y.int /\ x.n - y.n \notin Ints) =>
            /\ Compare(x, y) < 0 => Below(x, y)
            /\ Compare(x, y) > 0 => Below(y, x)
            /\ (Compare(x, y) = 0 /\ x.int = y.int) => ~Below(x, y) /\ ~Below(y, x)

(* INT and ROUND keep the value but for the fraction, an integer up to     *)
(* MAXLOGOINT and a float beyond; what ITEM and REPEAT take for an integer *)
(* is the number given (math.c:255-284, lists.c:496-520).  ROUND is the    *)
(* nearest integer but where the sum of math.c:261 is itself rounded the   *)
(* wrong way: an odd float with no bit to spare comes out even, and the    *)
(* float just below a half comes out 1.                                    *)
RoundMisses(x) ==
    /\ ~x.int
    /\ IF x.d = 1 THEN x.n % 2 = 1 /\ TwoTo[Precision - 1] <= Size(x.n)
       ELSE Size(x.n) * TwoTo[Precision + 1] = (TwoTo[Precision] - 1) * x.d
ConversionsKeepValue ==
    \A x \in SomeNumbers :
        /\ LET i == IntPart(x) IN /\ i.d = 1 /\ Size(i.n) * x.d <= Size(x.n) /\ Size(x.n) < (Size(i.n) + 1) * x.d
                                  /\ ~x.int /\ Size(x.n) <= MAXLOGOINT * x.d => i.int
        /\ LET off == Size(Round(x).n * x.d - x.n) IN
           /\ Round(x).d = 1
           /\ 2 * off <= IF RoundMisses(x) THEN 2 * x.d ELSE x.d
        /\ IntegerArg(x) # Bad => IntegerArg(x).int /\ IntegerArg(x).n * x.d = x.n
=============================================================================
