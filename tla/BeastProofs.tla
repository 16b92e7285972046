---------------------------- MODULE BeastProofs -----------------------------
(***************************************************************************)
(* What of the altitude codes is right: the 25-ft code is decoded exactly, *)
(* grayToBinary undoes Gray's code, and no two fields are read alike.  That*)
(* Gillham's bits are in the wrong groups is the run gillham.              *)
(***************************************************************************)
EXTENDS Beast, TLAPS

(* The Q bit put back among eleven bits.                                   *)
WithQ(n, q) == (n \div 16) * 32 + 16 * q + (n % 16)

(* The field of an altitude in the 25-ft code: its bits without Q count    *)
(* steps of 25 feet from -1000.                                            *)
QField(ft) == WithQ((ft + 1000) \div 25, 1)

(* The field that the decoder reads as an altitude when Q is not set: its  *)
(* own grouping of the bits backwards, which is not Gillham's.             *)
FieldReadAs(ft) ==
    LET fives == ToGray((ft + 1000) \div 500)
        ones == ToGray(((ft + 1000) % 500) \div 100)
    IN  WithQ((fives \div 2) * 8 + Bit(ones, 1) * 4 + Bit(fives, 0) * 2
                + Bit(ones, 0), 0)

Nine == [0 .. 8 -> {0, 1}]

Numbers == 0 .. 511     \* of nine bits

Codes == 0 .. 2047      \* of eleven bits

(* Halving reads a number's bits from the lowest up.                       *)
LEMMA Halves ==
    ASSUME NEW n \in 0 .. 4095
    PROVE  /\ Bit(n, 0) = n % 2
           /\ Bit(n, 1) = (n \div 2) % 2
           /\ Bit(n, 2) = (n \div 4) % 2
           /\ Bit(n, 3) = (n \div 8) % 2
           /\ Bit(n, 4) = (n \div 16) % 2
           /\ Bit(n, 5) = (n \div 32) % 2
           /\ Bit(n, 6) = (n \div 64) % 2
           /\ Bit(n, 7) = (n \div 128) % 2
           /\ Bit(n, 8) = (n \div 256) % 2
BY DEF Bit, PowersOfTwo

LEMMA BitsType ==
    ASSUME NEW n \in Numbers
    PROVE  Bits(n) \in Nine
<1>1. \A i \in 0 .. 8 : Bit(n, i) \in {0, 1}
  BY Halves DEF Numbers
<1> QED BY <1>1 DEF Bits, Nine

(* A number below 512 is its nine bits.                                    *)
LEMMA NumberOfBits ==
    ASSUME NEW n \in Numbers
    PROVE  Number(Bits(n)) = n
<1>1. /\ n = (n % 2) + 2 * (n \div 2)
      /\ n \div 2 = ((n \div 2) % 2) + 2 * (n \div 4)
      /\ n \div 4 = ((n \div 4) % 2) + 2 * (n \div 8)
      /\ n \div 8 = ((n \div 8) % 2) + 2 * (n \div 16)
  BY DEF Numbers
<1>2. /\ n \div 16 = ((n \div 16) % 2) + 2 * (n \div 32)
      /\ n \div 32 = ((n \div 32) % 2) + 2 * (n \div 64)
      /\ n \div 64 = ((n \div 64) % 2) + 2 * (n \div 128)
      /\ n \div 128 = ((n \div 128) % 2) + 2 * (n \div 256)
      /\ n \div 256 = (n \div 256) % 2
  BY DEF Numbers
<1>3. n \in 0 .. 4095
  BY DEF Numbers
<1>4. Number(Bits(n))
        = Bit(n, 0) + 2 * (Bit(n, 1) + 2 * (Bit(n, 2) + 2 * (Bit(n, 3)
             + 2 * (Bit(n, 4) + 2 * (Bit(n, 5) + 2 * (Bit(n, 6)
             + 2 * (Bit(n, 7) + 2 * Bit(n, 8))))))))
  BY DEF Bits, Number
<1> QED BY <1>1, <1>2, <1>3, <1>4 DEF Numbers, Bit, PowersOfTwo

LEMMA HalvedAgain ==
    ASSUME NEW n \in Nat
    PROVE  /\ n \div 4 = (n \div 2) \div 2
           /\ n \div 8 = (n \div 4) \div 2
           /\ n \div 16 = (n \div 8) \div 2
           /\ n \div 32 = (n \div 16) \div 2
           /\ n \div 64 = (n \div 32) \div 2
           /\ n \div 128 = (n \div 64) \div 2
           /\ n \div 256 = (n \div 128) \div 2
OBVIOUS

LEMMA LowestBit ==
    ASSUME NEW c \in {0, 1}, NEW m \in Nat
    PROVE  c + 2 * m \in Nat /\ (c + 2 * m) % 2 = c /\ (c + 2 * m) \div 2 = m
OBVIOUS

LEMMA BitsOfNumber ==
    ASSUME NEW b \in Nine
    PROVE  Number(b) \in Numbers /\ Bits(Number(b)) = b
<1>1. \A i \in 0 .. 8 : b[i] \in {0, 1}
  BY DEF Nine
<1> DEFINE m8 == b[8]
           m7 == b[7] + 2 * m8
           m6 == b[6] + 2 * m7
           m5 == b[5] + 2 * m6
           m4 == b[4] + 2 * m5
           m3 == b[3] + 2 * m4
           m2 == b[2] + 2 * m3
           m1 == b[1] + 2 * m2
           n == b[0] + 2 * m1
<1>2. Number(b) = n /\ n \in 0 .. 511
  BY <1>1 DEF Number
<1>3. m8 \in Nat /\ m8 % 2 = b[8]
  BY <1>1
<1> HIDE DEF m8
<1>4. m7 \in Nat /\ m7 % 2 = b[7] /\ m7 \div 2 = m8
  BY <1>1, <1>3, LowestBit
<1> HIDE DEF m7
<1>5. m6 \in Nat /\ m6 % 2 = b[6] /\ m6 \div 2 = m7
  BY <1>1, <1>4, LowestBit
<1> HIDE DEF m6
<1>6. m5 \in Nat /\ m5 % 2 = b[5] /\ m5 \div 2 = m6
  BY <1>1, <1>5, LowestBit
<1> HIDE DEF m5
<1>7. m4 \in Nat /\ m4 % 2 = b[4] /\ m4 \div 2 = m5
  BY <1>1, <1>6, LowestBit
<1> HIDE DEF m4
<1>8. m3 \in Nat /\ m3 % 2 = b[3] /\ m3 \div 2 = m4
  BY <1>1, <1>7, LowestBit
<1> HIDE DEF m3
<1>9. m2 \in Nat /\ m2 % 2 = b[2] /\ m2 \div 2 = m3
  BY <1>1, <1>8, LowestBit
<1> HIDE DEF m2
<1>10. m1 \in Nat /\ m1 % 2 = b[1] /\ m1 \div 2 = m2
  BY <1>1, <1>9, LowestBit
<1> HIDE DEF m1
<1>11. n \in Nat /\ n % 2 = b[0] /\ n \div 2 = m1
  BY <1>1, <1>10, LowestBit
<1> HIDE DEF n
<1>12. /\ n \div 4 = m2 /\ n \div 8 = m3 /\ n \div 16 = m4 /\ n \div 32 = m5
       /\ n \div 64 = m6 /\ n \div 128 = m7 /\ n \div 256 = m8
  BY <1>4, <1>5, <1>6, <1>7, <1>8, <1>9, <1>10, <1>11, HalvedAgain
<1>13. /\ Bit(n, 0) = b[0] /\ Bit(n, 1) = b[1] /\ Bit(n, 2) = b[2]
       /\ Bit(n, 3) = b[3] /\ Bit(n, 4) = b[4] /\ Bit(n, 5) = b[5]
       /\ Bit(n, 6) = b[6] /\ Bit(n, 7) = b[7] /\ Bit(n, 8) = b[8]
  <2>1. n \in 0 .. 4095
    BY <1>2
  <2>2. /\ Bit(n, 0) = n % 2
        /\ Bit(n, 1) = (n \div 2) % 2
        /\ Bit(n, 2) = (n \div 4) % 2
        /\ Bit(n, 3) = (n \div 8) % 2
        /\ Bit(n, 4) = (n \div 16) % 2
    BY <2>1 DEF Bit, PowersOfTwo
  <2>3. /\ Bit(n, 5) = (n \div 32) % 2
        /\ Bit(n, 6) = (n \div 64) % 2
        /\ Bit(n, 7) = (n \div 128) % 2
        /\ Bit(n, 8) = (n \div 256) % 2
    BY <2>1 DEF Bit, PowersOfTwo
  <2>4. /\ Bit(n, 0) = b[0] /\ Bit(n, 1) = b[1] /\ Bit(n, 2) = b[2]
    BY <2>2, <1>9, <1>10, <1>11, <1>12
  <2>5. /\ Bit(n, 3) = b[3] /\ Bit(n, 4) = b[4] /\ Bit(n, 5) = b[5]
    BY <2>2, <2>3, <1>6, <1>7, <1>8, <1>12
  <2>6. /\ Bit(n, 6) = b[6] /\ Bit(n, 7) = b[7] /\ Bit(n, 8) = b[8]
    BY <2>3, <1>3, <1>4, <1>5, <1>12
  <2> QED BY <2>4, <2>5, <2>6
<1>14. \A i \in 0 .. 8 : Bit(n, i) = b[i]
  BY <1>13
<1> QED BY <1>2, <1>14 DEF Bits, Nine, Numbers

LEMMA XorOfBits ==
    /\ \A a, c \in {0, 1} : Xor(a, c) \in {0, 1}
    /\ \A a, c \in {0, 1} : Xor(Xor(a, c), c) = a
    /\ \A a, c, d \in {0, 1} : Xor(Xor(a, c), d) = Xor(a, Xor(c, d))
BY DEF Xor

(* Four shifted exclusive-ors give each bit the parity of itself and all   *)
(* above it.                                                               *)
Parity(b, p) ==
    /\ p \in Nine
    /\ p[8] = b[8]
    /\ \A i \in 0 .. 7 : p[i] = Xor(b[i], p[i + 1])

LEMMA GrayIsParity ==
    ASSUME NEW b \in Nine
    PROVE  Parity(b, XorShifted(XorShifted(XorShifted(XorShifted(b, 1), 2), 4), 8))
<1> DEFINE x1 == XorShifted(b, 1)
           x2 == XorShifted(x1, 2)
           x4 == XorShifted(x2, 4)
           x8 == XorShifted(x4, 8)
<1>1. \A x \in Nine : \A k \in Nat : XorShifted(x, k) \in Nine
  BY XorOfBits DEF XorShifted, Nine
<1>2. x1 \in Nine /\ x2 \in Nine /\ x4 \in Nine /\ x8 \in Nine
  <2>1. x1 \in Nine
    BY <1>1
  <2> HIDE DEF x1
  <2>2. x2 \in Nine
    BY <1>1, <2>1
  <2> HIDE DEF x2
  <2>3. x4 \in Nine
    BY <1>1, <2>2
  <2> HIDE DEF x4
  <2>4. x8 \in Nine
    BY <1>1, <2>3
  <2> QED BY <2>1, <2>2, <2>3, <2>4
<1>3. /\ x1[0] = Xor(b[0], b[1]) /\ x1[1] = Xor(b[1], b[2])
      /\ x1[2] = Xor(b[2], b[3]) /\ x1[3] = Xor(b[3], b[4])
      /\ x1[4] = Xor(b[4], b[5]) /\ x1[5] = Xor(b[5], b[6])
      /\ x1[6] = Xor(b[6], b[7]) /\ x1[7] = Xor(b[7], b[8])
      /\ x1[8] = b[8]
  BY DEF XorShifted
<1> HIDE DEF x1
<1>4. /\ x2[0] = Xor(x1[0], x1[2]) /\ x2[1] = Xor(x1[1], x1[3])
      /\ x2[2] = Xor(x1[2], x1[4]) /\ x2[3] = Xor(x1[3], x1[5])
      /\ x2[4] = Xor(x1[4], x1[6]) /\ x2[5] = Xor(x1[5], x1[7])
      /\ x2[6] = Xor(x1[6], x1[8]) /\ x2[7] = x1[7] /\ x2[8] = x1[8]
  BY DEF XorShifted
<1> HIDE DEF x2
<1>5. /\ x4[0] = Xor(x2[0], x2[4]) /\ x4[1] = Xor(x2[1], x2[5])
      /\ x4[2] = Xor(x2[2], x2[6]) /\ x4[3] = Xor(x2[3], x2[7])
      /\ x4[4] = Xor(x2[4], x2[8]) /\ x4[5] = x2[5] /\ x4[6] = x2[6]
      /\ x4[7] = x2[7] /\ x4[8] = x2[8]
  BY DEF XorShifted
<1> HIDE DEF x4
<1>6. /\ x8[0] = Xor(x4[0], x4[8])
      /\ \A i \in 1 .. 8 : x8[i] = x4[i]
  BY DEF XorShifted
<1> HIDE DEF x8
<1>7. \A i \in 0 .. 8 : b[i] \in {0, 1}
  BY DEF Nine
<1> DEFINE p8 == b[8]
           p7 == Xor(b[7], p8)
           p6 == Xor(b[6], p7)
           p5 == Xor(b[5], p6)
           p4 == Xor(b[4], p5)
           p3 == Xor(b[3], p4)
           p2 == Xor(b[2], p3)
           p1 == Xor(b[1], p2)
           p0 == Xor(b[0], p1)
<1>8. /\ p8 \in {0, 1} /\ p7 \in {0, 1} /\ p6 \in {0, 1} /\ p5 \in {0, 1}
      /\ p4 \in {0, 1} /\ p3 \in {0, 1} /\ p2 \in {0, 1} /\ p1 \in {0, 1}
  BY <1>7, XorOfBits
<1>9. x8[8] = p8 /\ x8[7] = p7
  BY <1>3, <1>4, <1>5, <1>6
<1>10. x8[6] = p6 /\ x8[5] = p5
  BY <1>3, <1>4, <1>5, <1>6, <1>7, <1>8, XorOfBits
<1>11. x8[4] = p4 /\ x8[3] = p3
  BY <1>3, <1>4, <1>5, <1>6, <1>7, <1>8, XorOfBits
<1>12. x8[2] = p2 /\ x8[1] = p1
  BY <1>3, <1>4, <1>5, <1>6, <1>7, <1>8, XorOfBits
<1>13. x8[0] = p0
  BY <1>3, <1>4, <1>5, <1>6, <1>7, <1>8, XorOfBits
<1> QED
  BY <1>2, <1>9, <1>10, <1>11, <1>12, <1>13 DEF Parity, x1, x2, x4, x8

(* One more shifted exclusive-or takes the parities apart again.           *)
LEMMA GrayUndone ==
    ASSUME NEW b \in Nine, NEW p, Parity(b, p)
    PROVE  XorShifted(p, 1) = b
<1>1. \A i \in 0 .. 8 : b[i] \in {0, 1} /\ p[i] \in {0, 1}
  BY DEF Parity, Nine
<1>2. \A i \in 0 .. 7 : Xor(p[i], p[i + 1]) = b[i]
  BY <1>1, XorOfBits DEF Parity
<1> QED BY <1>2 DEF XorShifted, Parity, Nine

(* grayToBinary undoes Gray's code: the code of what it makes of nine bits *)
(* are the nine bits.                                                      *)
THEOREM GrayIsUndone ==
    ASSUME NEW n \in Numbers
    PROVE  GrayToBinary(n) \in Numbers /\ ToGray(GrayToBinary(n)) = n
<1> DEFINE b == Bits(n)
           p == XorShifted(XorShifted(XorShifted(XorShifted(b, 1), 2), 4), 8)
<1>1. b \in Nine
  BY BitsType
<1>2. Parity(b, p)
  BY <1>1, GrayIsParity
<1>3. p \in Nine /\ XorShifted(p, 1) = b
  BY <1>1, <1>2, GrayUndone DEF Parity
<1>4. GrayToBinary(n) = Number(p)
  BY DEF GrayToBinary
<1> HIDE DEF p, b
<1>5. Number(p) \in Numbers /\ Bits(Number(p)) = p
  BY <1>3, BitsOfNumber
<1>6. ToGray(Number(p)) = Number(b)
  BY <1>3, <1>5 DEF ToGray
<1> QED BY <1>4, <1>5, <1>6, NumberOfBits DEF b

(* The shorter code stays within its two bits.                             *)
LEMMA GrayOfTwo ==
    ASSUME NEW n \in 0 .. 3
    PROVE  GrayToBinary(n) \in 0 .. 3
<1> DEFINE b == Bits(n)
           p == XorShifted(XorShifted(XorShifted(XorShifted(b, 1), 2), 4), 8)
<1>1. b \in Nine /\ \A i \in 2 .. 8 : b[i] = 0
  <2>1. \A i \in 2 .. 8 : Bit(n, i) = 0
    BY DEF Bit, PowersOfTwo
  <2>2. \A i \in 2 .. 8 : b[i] = Bit(n, i)
    BY DEF Bits
  <2>3. n \in Numbers
    BY DEF Numbers
  <2>4. b \in Nine
    BY <2>3, BitsType
  <2> QED BY <2>1, <2>2, <2>4
<1>2. Parity(b, p)
  BY <1>1, GrayIsParity
<1>3. GrayToBinary(n) = Number(p)
  BY DEF GrayToBinary
<1> HIDE DEF p, b
<1>4. p \in Nine /\ p[8] = b[8] /\ \A i \in 0 .. 7 : p[i] = Xor(b[i], p[i + 1])
  BY <1>2 DEF Parity
<1>5. Xor(0, 0) = 0
  BY DEF Xor
<1>6. p[8] = 0 /\ p[7] = 0 /\ p[6] = 0 /\ p[5] = 0
  BY <1>1, <1>4, <1>5
<1>7. p[4] = 0 /\ p[3] = 0 /\ p[2] = 0
  BY <1>1, <1>4, <1>5, <1>6
<1>8. p[0] \in {0, 1} /\ p[1] \in {0, 1}
  BY <1>4 DEF Nine
<1> QED BY <1>3, <1>6, <1>7, <1>8 DEF Number

(* The eleven bits that FromQBit gets, and the field they came from.       *)
LEMMA QBitBack ==
    ASSUME NEW f \in Fields
    PROVE  /\ WithoutQ(f) \in Codes
           /\ Bit(f, 4) \in {0, 1}
           /\ WithQ(WithoutQ(f), Bit(f, 4)) = f
<1>1. Bit(f, 4) = (f \div 16) % 2
  BY DEF Fields, Bit, PowersOfTwo
<1>2. f \div 16 = 2 * (f \div 32) + ((f \div 16) % 2)
  BY DEF Fields
<1>3. WithoutQ(f) \in Codes /\ Bit(f, 4) \in {0, 1}
  <2>1. f \div 32 \in 0 .. 127
    BY DEF Fields
  <2>3. f % 16 \in 0 .. 15
    BY DEF Fields
  <2>2. WithoutQ(f) \in Codes
    BY <2>1, <2>3 DEF WithoutQ, Codes
  <2>4. (f \div 16) % 2 \in {0, 1}
    BY DEF Fields
  <2> QED BY <2>2, <2>4, <1>1
<1>4. WithoutQ(f) \div 16 = f \div 32 /\ WithoutQ(f) % 16 = f % 16
  BY DEF Fields, WithoutQ
<1>5. f = (f \div 16) * 16 + (f % 16)
  BY DEF Fields
<1>6. WithQ(WithoutQ(f), Bit(f, 4)) = (f \div 32) * 32 + 16 * Bit(f, 4) + (f % 16)
  BY <1>4 DEF WithQ
<1>7. WithQ(WithoutQ(f), Bit(f, 4))
        = (f \div 32) * 32 + 16 * ((f \div 16) % 2) + (f % 16)
  BY <1>1, <1>6
<1>8. (f \div 32) * 32 + 16 * ((f \div 16) % 2) + (f % 16) = f
  BY <1>2, <1>5 DEF Fields
<1> QED BY <1>3, <1>7, <1>8

(* The two Gray codes of a field.                                          *)
LEMMA CodesType ==
    ASSUME NEW n \in Codes
    PROVE  FiveHundreds(n) \in Numbers /\ OneHundreds(n) \in 0 .. 3
<1>1. /\ FiveHundreds(n) = (n \div 8) * 2 + ((n \div 2) % 2)
      /\ OneHundreds(n) = 2 * ((n \div 4) % 2) + (n % 2)
  BY DEF FiveHundreds, OneHundreds, Bit, PowersOfTwo, Codes
<1>2. /\ n \div 8 \in 0 .. 255 /\ (n \div 2) % 2 \in 0 .. 1
      /\ (n \div 4) % 2 \in 0 .. 1 /\ n % 2 \in 0 .. 1
  <2>1. n \in Nat /\ n <= 2047
    BY DEF Codes
  <2>2. n \div 8 \in 0 .. 255
    BY <2>1
  <2>3. (n \div 2) % 2 \in 0 .. 1
    BY <2>1
  <2>4. (n \div 4) % 2 \in 0 .. 1
    BY <2>1
  <2>5. n % 2 \in 0 .. 1
    BY <2>1
  <2> QED BY <2>2, <2>3, <2>4, <2>5
<1> QED BY <1>1, <1>2 DEF Numbers, Codes

(* The field they make together.                                           *)
LEMMA CodesBack ==
    ASSUME NEW n \in Codes
    PROVE  (FiveHundreds(n) \div 2) * 8 + Bit(OneHundreds(n), 1) * 4
              + Bit(FiveHundreds(n), 0) * 2 + Bit(OneHundreds(n), 0) = n
<1>2. FiveHundreds(n) \in Numbers /\ OneHundreds(n) \in 0 .. 3
  BY CodesType
<1>1. /\ Bit(n, 0) = n % 2
      /\ Bit(n, 1) = (n \div 2) % 2
      /\ Bit(n, 2) = (n \div 4) % 2
  BY DEF Bit, PowersOfTwo, Codes
<1>3. /\ FiveHundreds(n) \div 2 = n \div 8
      /\ FiveHundreds(n) % 2 = (n \div 2) % 2
  BY <1>1 DEF FiveHundreds, Codes
<1>4. /\ OneHundreds(n) \div 2 = (n \div 4) % 2
      /\ OneHundreds(n) % 2 = n % 2
  BY DEF OneHundreds, Bit, PowersOfTwo, Codes
<1>5. /\ Bit(FiveHundreds(n), 0) = (n \div 2) % 2
      /\ Bit(OneHundreds(n), 0) = n % 2
      /\ Bit(OneHundreds(n), 1) = (OneHundreds(n) \div 2) % 2
  <2>1. /\ Bit(FiveHundreds(n), 0) = FiveHundreds(n) % 2
        /\ Bit(OneHundreds(n), 0) = OneHundreds(n) % 2
        /\ Bit(OneHundreds(n), 1) = (OneHundreds(n) \div 2) % 2
    <3> HIDE DEF FiveHundreds, OneHundreds
    <3> QED BY <1>2 DEF Bit, PowersOfTwo, Numbers
  <2> QED BY <2>1, <1>3, <1>4
<1>6. Bit(OneHundreds(n), 1) = (n \div 4) % 2
  BY <1>4, <1>5 DEF Numbers, Codes
<1>7. n = (n \div 8) * 8 + ((n \div 4) % 2) * 4 + ((n \div 2) % 2) * 2 + (n % 2)
  <2>1. /\ n = 2 * (n \div 2) + (n % 2)
        /\ n \div 2 = 2 * (n \div 4) + ((n \div 2) % 2)
        /\ n \div 4 = 2 * (n \div 8) + ((n \div 4) % 2)
    BY DEF Codes
  <2> QED BY <2>1 DEF Codes
<1> QED BY <1>2, <1>3, <1>5, <1>6, <1>7

LEMMA QExact ==
    ASSUME NEW f \in Fields, Bit(f, 4) = 1
    PROVE  QField(DecodeAlt(f)) = f
<1> DEFINE n == WithoutQ(f)
<1>1. n \in Codes /\ WithQ(n, 1) = f
  BY QBitBack
<1>2. DecodeAlt(f) = (25 * n) - 1000
  BY DEF DecodeAlt, FromQBit
<1> HIDE DEF n
<1>3. (((25 * n) - 1000) + 1000) \div 25 = n
  BY <1>1 DEF Codes
<1> QED BY <1>1, <1>2, <1>3 DEF QField

LEMMA GrayExact ==
    ASSUME NEW f \in Fields, Bit(f, 4) # 1, DecodeAlt(f) # Undecodable
    PROVE  FieldReadAs(DecodeAlt(f)) = f
<1> DEFINE n == WithoutQ(f)
           fives == GrayToBinary(FiveHundreds(n))
           ones == GrayToBinary(OneHundreds(n))
           ft == fives * 500 + ones * 100 - 1000
<1>1. n \in Codes /\ WithQ(n, 0) = f
  BY QBitBack
<1>2. DecodeAlt(f) = ft
  BY DEF DecodeAlt, FromQBit, Gillham
<1> HIDE DEF n
<1>3. FiveHundreds(n) \in Numbers /\ OneHundreds(n) \in 0 .. 3
  BY <1>1, CodesType
<1>4. fives \in Numbers /\ ToGray(fives) = FiveHundreds(n)
  BY <1>3, GrayIsUndone
<1>5. ones \in 0 .. 3 /\ ToGray(ones) = OneHundreds(n)
  <2>1. OneHundreds(n) \in Numbers
    BY <1>3 DEF Numbers
  <2>2. ToGray(ones) = OneHundreds(n)
    BY <2>1, GrayIsUndone
  <2> QED BY <2>2, <1>3, GrayOfTwo
<1> HIDE DEF fives, ones
<1>6. (ft + 1000) \div 500 = fives /\ ((ft + 1000) % 500) \div 100 = ones
  BY <1>4, <1>5 DEF Numbers, Codes
<1> HIDE DEF ft
<1>7. FieldReadAs(ft) = WithQ(n, 0)
  <2>1. (FiveHundreds(n) \div 2) * 8 + Bit(OneHundreds(n), 1) * 4
              + Bit(FiveHundreds(n), 0) * 2 + Bit(OneHundreds(n), 0) = n
    BY <1>1, CodesBack
  <2> HIDE DEF FiveHundreds, OneHundreds
  <2>2. FieldReadAs(ft)
          = WithQ((FiveHundreds(n) \div 2) * 8 + Bit(OneHundreds(n), 1) * 4
              + Bit(FiveHundreds(n), 0) * 2 + Bit(OneHundreds(n), 0), 0)
    BY <1>4, <1>5, <1>6 DEF FieldReadAs
  <2> QED BY <2>1, <2>2
<1> QED BY <1>1, <1>2, <1>7

(* decodeAlt and FromQBit: a frame whose altitude is in the 25-ft code is  *)
(* reported at that altitude, for every field.                             *)
TwentyFiveFeetAreExact ==
    HasAltitude(frame) /\ Bit(frame.bits, 4) = 1 /\ report # NotParsed =>
        frame.bits = QField(report.alt)

THEOREM TwentyFiveFeetDecode == Spec => []TwentyFiveFeetAreExact
<1> DEFINE Inv == frame \in Frames /\ report \in {NotParsed, FromBeast(frame)}
<1>1. Init => Inv
  BY DEF Init
<1>2. Inv /\ [Next]_<<frame, report>> => Inv'
  BY DEF Next, Parse, FromBeast, HasAltitude, Airborne
<1>3. Inv => TwentyFiveFeetAreExact
  <2> SUFFICES ASSUME Inv, HasAltitude(frame), Bit(frame.bits, 4) = 1,
                      report # NotParsed
               PROVE  frame.bits = QField(report.alt)
    BY DEF TwentyFiveFeetAreExact
  <2>1. frame.bits \in Fields
    BY DEF Frames
  <2>2. report.alt = DecodeAlt(frame.bits)
    BY DEF FromBeast
  <2> QED BY <2>1, <2>2, QExact
<1> QED BY <1>1, <1>2, <1>3, PTL DEF Spec

(* No two fields with the same Q bit are read as one altitude: whatever    *)
(* grouping Gillham and decodeAlt have, they lose no bit.                  *)
THEOREM NoTwoReadAlike ==
    \A f, g \in Fields :
        /\ Bit(f, 4) = Bit(g, 4)
        /\ DecodeAlt(f) = DecodeAlt(g)
        /\ DecodeAlt(f) # Undecodable
        => f = g
<1> SUFFICES ASSUME NEW f \in Fields, NEW g \in Fields,
                    Bit(f, 4) = Bit(g, 4),
                    DecodeAlt(f) = DecodeAlt(g),
                    DecodeAlt(f) # Undecodable
             PROVE  f = g
  OBVIOUS
<1>1. CASE Bit(f, 4) = 1
  BY <1>1, QExact
<1>2. CASE Bit(f, 4) # 1
  BY <1>2, GrayExact
<1> QED BY <1>1, <1>2
=============================================================================
