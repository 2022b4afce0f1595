------------------------------ MODULE MCTimers ------------------------------
(* Two timers, delays of 1 and 3 units, a clock of 2-bit mantissas: times are *)
(* exact up to 4 and then even, so 4 + 1 rounds back to 4 and 4 + 3 to 8,     *)
(* which is past the latest finite time, 6.                                   *)
EXTENDS TimerHistory

\* Rounding to nearest, ties to even, with 2 bits of mantissa.
MCFloatAdd(t, d) ==
  LET s == t + d
      ulp == IF s < 4 THEN 1 ELSE IF s < 8 THEN 2 ELSE 4
      down == s \div ulp
      up == (s + ulp - 1) \div ulp
      nearest == IF 2 * (s - down * ulp) < ulp THEN down
                 ELSE IF 2 * (s - down * ulp) > ulp THEN up
                 ELSE IF down % 2 = 0 THEN down ELSE up
  IN  nearest * ulp
=============================================================================
