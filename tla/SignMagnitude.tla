--------------------------- MODULE SignMagnitude ---------------------------
(***************************************************************************)
(* The signed numbers of SignMagnitude<u128> (nodes/src/lib.rs), with      *)
(* which the client sums quantities, and of add_sign_magnitude, with which *)
(* the compliance circuit does.  A number is a sign (TRUE is minus) and a  *)
(* magnitude of a fixed width; zero has two forms.                         *)
(***************************************************************************)
EXTENDS Integers

CONSTANT MaxMagnitude   \* u128::MAX

ASSUME SignMagnitudeAssumption == MaxMagnitude \in Nat \ {0}

Magnitudes == 0..MaxMagnitude

SignMagnitudes == [sign : BOOLEAN, magnitude : Magnitudes]

Positive(n) == [sign |-> FALSE, magnitude |-> n]

Zero == Positive(0)

Negated(a) == [a EXCEPT !.sign = ~a.sign]

\* mutant: the larger magnitude does not give the result its sign
PlusLeftSign(a, b) ==
  IF a.sign = b.sign THEN [a EXCEPT !.magnitude = @ + b.magnitude]
  ELSE IF a.magnitude >= b.magnitude THEN [a EXCEPT !.magnitude = @ - b.magnitude]
  ELSE [a EXCEPT !.magnitude = b.magnitude - @]

\* Add: the magnitude of a sum of two numbers of one sign may not fit.
Plus(a, b) ==
  IF a.sign = b.sign THEN [a EXCEPT !.magnitude = @ + b.magnitude]
  ELSE IF a.magnitude >= b.magnitude THEN [a EXCEPT !.magnitude = @ - b.magnitude]
  ELSE [b EXCEPT !.magnitude = @ - a.magnitude]

Minus(a, b) == Plus(a, Negated(b))

Fits(a) == a.magnitude \in Magnitudes

\* What a build without overflow checks leaves of a magnitude.
Wrapped(a) == [a EXCEPT !.magnitude = @ % (MaxMagnitude + 1)]

\* PartialEq: zero with a minus is zero.
Equal(a, b) == a = b \/ (a.magnitude = 0 /\ b.magnitude = 0)

\* PartialOrd, as build_compliance_artifacts uses it.
AtLeast(a, b) ==
  \/ Equal(a, b)
  \/ a.sign = b.sign /\ ~a.sign /\ a.magnitude > b.magnitude
  \/ a.sign = b.sign /\ a.sign /\ a.magnitude < b.magnitude
  \/ a.sign # b.sign /\ ~a.sign

\* The integer a number stands for.
ValueOf(a) == IF a.sign THEN -a.magnitude ELSE a.magnitude
=============================================================================
