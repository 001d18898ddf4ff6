-------------------------------- MODULE Money --------------------------------
\* Integer arithmetic shared by the two books (engine/portfolio.py and
\* infrastructure/paper/broker.py), whose unit is the last digit of a Decimal, and the
\* cut of a series that the training and research scripts share.
EXTENDS Integers

Abs(x) == IF x < 0 THEN -x ELSE x

\* Decimal division a / b, b > 0: the nearest integer, ties to the even one.
RoundDiv(a, b) ==
    LET f == a \div b
        r == a % b
    IN  IF 2 * r < b \/ (2 * r = b /\ f % 2 = 0) THEN f ELSE f + 1

\* int(n * 0.7) in floats.  0.7 is a little less than 7/10: where 7n/10 is whole, the
\* product is rounded back to it unless 2n is above 5 times the largest power of 2 in
\* it (n = 90 gives 62).  Powers up to 2^28: a bound far beyond any series.
SeventyPercent(n) ==
    LET quotient == (7 * n) \div 10
        rounds == \A e \in 0..28 : 2^e <= quotient /\ quotient < 2^(e + 1) => 2 * n <= 5 * 2^e
    IN  IF n % 10 # 0 \/ rounds THEN quotient ELSE quotient - 1
=============================================================================
