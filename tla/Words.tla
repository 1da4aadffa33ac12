-------------------------------- MODULE Words --------------------------------
(***************************************************************************)
(* Signed words of Width bits, and what the operators of the intermediate  *)
(* representation do to them when the program runs.                        *)
(***************************************************************************)
EXTENDS Integers

CONSTANT Width   \* the bits of a word, 64 in the code

ASSUME WidthAssumption == Width \in Nat \ {0} /\ Width % 2 = 0

Wrap(n) == ((n + 2^(Width - 1)) % 2^Width) - 2^(Width - 1)

\* Division truncates.
Magnitude(n) == IF n < 0 THEN -n ELSE n
Quotient(n1, n2) ==
  LET q == Magnitude(n1) \div Magnitude(n2) IN IF (n1 < 0) # (n2 < 0) THEN -q ELSE q
Remainder(n1, n2) == n1 - n2 * Quotient(n1, n2)

TruthValue(b) == IF b THEN 1 ELSE 0

Apply(op, n1, n2) ==
  CASE op = "ADD"  -> Wrap(n1 + n2)
    [] op = "SUB"  -> Wrap(n1 - n2)
    [] op = "MUL"  -> Wrap(n1 * n2)
    [] op = "HMUL" -> (n1 * n2) \div 2^Width
    [] op = "DIV"  -> Wrap(Quotient(n1, n2))
    [] op = "MOD"  -> Remainder(n1, n2)
    [] op = "XOR"  -> (n1 + n2) % 2
    [] op = "EQ"   -> TruthValue(n1 = n2)
    [] op = "LT"   -> TruthValue(n1 < n2)
    [] op = "GEQ"  -> TruthValue(n1 >= n2)
    [] op = "ULT"  -> TruthValue(n1 % 2^Width < n2 % 2^Width)
=============================================================================
