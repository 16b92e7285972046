------------------------------ MODULE Altitude ------------------------------
(***************************************************************************)
(* The altitude codes (internal/altitude, and decodeAlt of internal/beast),*)
(* as functions of the twelve bits of an airborne-position frame.          *)
(***************************************************************************)
EXTENDS Integers

Fields == 0 .. 4095      \* twelve bits, the highest first

Undecodable == -999999   \* decodeAlt's false: no altitude

PowersOfTwo == <<1, 2, 4, 8, 16, 32, 64, 128, 256, 512, 1024, 2048>>

Bit(n, i) == (n \div PowersOfTwo[i + 1]) % 2

(* The nine bits of the longer Gray code, and the number they make.        *)
Bits(n) == [i \in 0 .. 8 |-> Bit(n, i)]

Number(b) ==
    b[0] + 2 * (b[1] + 2 * (b[2] + 2 * (b[3] + 2 * (b[4] + 2 * (b[5]
         + 2 * (b[6] + 2 * (b[7] + 2 * b[8])))))))

Xor(a, b) == (a + b) % 2

(* n ^ (n >> k).                                                           *)
XorShifted(b, k) ==
    [i \in 0 .. 8 |-> IF i + k <= 8 THEN Xor(b[i], b[i + k]) ELSE b[i]]

GrayToBinary(n) ==
    Number(XorShifted(XorShifted(XorShifted(XorShifted(Bits(n), 1), 2), 4), 8))

(* gray5 takes all bits but D2 and D4, gray2 those.                        *)
FiveHundreds(n) == (n \div 8) * 2 + Bit(n, 1)

OneHundreds(n) == 2 * Bit(n, 2) + Bit(n, 0)

Gillham(n) ==
    LET ft == GrayToBinary(FiveHundreds(n)) * 500
                + GrayToBinary(OneHundreds(n)) * 100 - 1000
    IN  IF ft > 126700 THEN Undecodable ELSE ft

(* decodeAlt drops the Q bit, which says which of the codes it is.         *)
WithoutQ(field) == (field \div 32) * 16 + (field % 16)

FromQBit(n, q) == IF q THEN (25 * n) - 1000 ELSE Gillham(n)

DecodeAlt(field) == FromQBit(WithoutQ(field), Bit(field, 4) = 1)

(* Gillham's code itself (ICAO Annex 10, Mode C), which is not in the      *)
(* repository: altitudes go up in hundreds of feet from -1200.  Each five  *)
(* of them is a step of a Gray code in D2 D4 A1 A2 A4 B1 B2 B4; within it  *)
(* C1 C2 C4 run through five values, backwards in every other one.         *)
GillhamAltitudes == {100 * k - 1200 : k \in 0 .. 1279}

ToGray(n) == Number(XorShifted(Bits(n), 1))

GillhamField(ft) ==
    LET hundreds == (ft + 1200) \div 100
        step == hundreds \div 5
        within == IF step % 2 = 0 THEN hundreds % 5 ELSE 4 - (hundreds % 5)
        dab == ToGray(step)
        c == <<1, 3, 2, 6, 4>>[within + 1]
    IN  2048 * Bit(c, 2) + 1024 * Bit(dab, 5)     \* C1 A1
          + 512 * Bit(c, 1) + 256 * Bit(dab, 4)   \* C2 A2
          + 128 * Bit(c, 0) + 64 * Bit(dab, 3)    \* C4 A4
          + 32 * Bit(dab, 2) + 8 * Bit(dab, 1)    \* B1 (Q) B2
          + 4 * Bit(dab, 7) + 2 * Bit(dab, 0)     \* D2 B4
          + Bit(dab, 6)                           \* D4
=============================================================================
