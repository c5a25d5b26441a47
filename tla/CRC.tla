-------------------------------- MODULE CRC --------------------------------
(***************************************************************************)
(* The CRC library, part2/src/CRC.h, for a CRCType of Digits bits that     *)
(* holds CRCs of CRCWidth bits, no narrower than a byte: the program's     *)
(* tables are Table<uint32_t, 32>.  An unsigned number is the set of its   *)
(* bits that are 1, bit 0 the lowest, so that a byte converted to a CRCType *)
(* is the same set.  The loops over bits and over bytes are recursive      *)
(* functions.                                                              *)
(***************************************************************************)
EXTENDS Integers, Sequences

CONSTANTS Digits,    \* the bits of a CRCType
          CRCWidth,  \* the bits of a CRC
          CHAR_BIT   \* the bits of a byte

ASSUME CRCAssumption ==
    /\ Digits \in Nat /\ CRCWidth \in Nat /\ CHAR_BIT \in Nat \ {0}
    /\ CHAR_BIT <= CRCWidth /\ CRCWidth <= Digits

Word == SUBSET (0 .. Digits - 1)
Byte == SUBSET (0 .. CHAR_BIT - 1)

Parameters == [polynomial : Word, initialValue : Word, finalXOR : Word,
               reflectInput : BOOLEAN, reflectOutput : BOOLEAN]

(* The operators of C++ on unsigned numbers: x ^ y, x >> n, x << n.        *)
Xor(x, y) == (x \ y) \cup (y \ x)

ShiftRight(x, n) == {i \in 0 .. Digits - 1 : i + n \in x}

ShiftLeft(x, n) == {i \in 0 .. Digits - 1 : i - n \in x}

(* x & BIT_MASK, and the conversion to unsigned char.                      *)
Masked(x) == x \cap (0 .. CRCWidth - 1)
LowByte(x) == x \cap (0 .. CHAR_BIT - 1)

(* A number below 2^31.                                                    *)
Bits(n) == {i \in 0 .. 30 : (n \div 2^i) % 2 = 1}

(* The common parameter sets, each for a CRCType and CRCs of the width in  *)
(* its name.  The program uses CRC_32.                                     *)
Plain(polynomial) == [polynomial |-> polynomial, initialValue |-> {}, finalXOR |-> {},
                      reflectInput |-> FALSE, reflectOutput |-> FALSE]
Reflected(p) == [p EXCEPT !.reflectInput = TRUE, !.reflectOutput = TRUE]
Inverted(p, ones) == [p EXCEPT !.initialValue = ones, !.finalXOR = ones]

CRC_8 == Plain(Bits(\h07))

CRC_16_BUYPASS    == Plain(Bits(\h8005))
CRC_16_ARC        == Reflected(CRC_16_BUYPASS)
CRC_16_XMODEM     == Plain(Bits(\h1021))
CRC_16_KERMIT     == Reflected(CRC_16_XMODEM)
CRC_16_CCITTFALSE == [CRC_16_XMODEM EXCEPT !.initialValue = Bits(\hFFFF)]
CRC_16_GENIBUS    == Inverted(CRC_16_XMODEM, Bits(\hFFFF))
CRC_16_X25        == Reflected(CRC_16_GENIBUS)

Ones == 0 .. Digits - 1

CRC_32 == [polynomial |-> Bits(\h04C11DB7), initialValue |-> Ones, finalXOR |-> Ones,
           reflectInput |-> TRUE, reflectOutput |-> TRUE]
CRC_32_BZIP2 == [CRC_32 EXCEPT !.reflectInput = FALSE, !.reflectOutput = FALSE]
CRC_32_MPEG2 == [CRC_32_BZIP2 EXCEPT !.finalXOR = {}]
CRC_32_POSIX == [CRC_32_BZIP2 EXCEPT !.initialValue = {}]

----------------------------------------------------------------------------
(* The lowest n bits in reverse, the others cleared.                       *)
Reflect(value, n) == {i \in 0 .. n - 1 : n - 1 - i \in value}

Finalize(remainder, p) ==
    LET r == IF p.reflectInput # p.reflectOutput THEN Reflect(remainder, CRCWidth)
             ELSE remainder
    IN Masked(Xor(r, p.finalXOR))

(* Faulty variant: the final XOR is left in.                               *)
UndoFinalizeKeepsXor(crc, p) ==
    IF p.reflectInput # p.reflectOutput THEN Reflect(Masked(crc), CRCWidth) ELSE Masked(crc)

UndoFinalize(crc, p) ==
    LET r == Xor(Masked(crc), p.finalXOR)
    IN IF p.reflectInput # p.reflectOutput THEN Reflect(r, CRCWidth) ELSE r

----------------------------------------------------------------------------
(* CalculateRemainder, bit by bit.                                         *)

(* One bit leaves the remainder; was it set, the polynomial is subtracted. *)
ReflectedStep(p) ==
    [r \in Word |->
        IF 0 \in r THEN Xor(ShiftRight(r, 1), Reflect(p.polynomial, CRCWidth))
        ELSE ShiftRight(r, 1)]

ForwardStep(p) ==
    [r \in Word |->
        IF CRCWidth - 1 \in r THEN Xor(ShiftLeft(r, 1), p.polynomial) ELSE ShiftLeft(r, 1)]

RemainderOfByte(b, p) ==
    LET first(r) == Xor(r, IF p.reflectInput THEN b ELSE ShiftLeft(b, CRCWidth - CHAR_BIT))
        step == IF p.reflectInput THEN ReflectedStep(p) ELSE ForwardStep(p)
    IN [remainder \in Word |->
           LET after[n \in 0 .. CHAR_BIT] == IF n = 0 THEN first(remainder) ELSE step[after[n - 1]]
           IN after[CHAR_BIT]]

CalculateRemainder(data, p, remainder) ==
    LET after[n \in 0 .. Len(data)] ==
            IF n = 0 THEN remainder ELSE RemainderOfByte(data[n], p)[after[n - 1]]
    IN after[Len(data)]

(* Calculate.                                                              *)
Calculate(data, p) == Finalize(CalculateRemainder(data, p, p.initialValue), p)

----------------------------------------------------------------------------
(* The same with a lookup table, a byte at a time.                         *)

(* InitTable.                                                              *)
Table(p) == [b \in Byte |-> Masked(RemainderOfByte(b, p)[{}])]

TableRemainderOfByte(b, p, table) ==
    [remainder \in Word |->
        IF p.reflectInput
        THEN Xor(ShiftRight(remainder, CHAR_BIT), table[LowByte(Xor(remainder, b))])
        ELSE Xor(ShiftLeft(remainder, CHAR_BIT),
                 table[LowByte(Xor(ShiftRight(remainder, CRCWidth - CHAR_BIT), b))])]

TableRemainder(data, p, table, remainder) ==
    LET after[n \in 0 .. Len(data)] ==
            IF n = 0 THEN remainder
            ELSE TableRemainderOfByte(data[n], p, table)[after[n - 1]]
    IN after[Len(data)]

TableCalculate(data, p, table) ==
    Finalize(TableRemainder(data, p, table, p.initialValue), p)

(* Appends data to what the CRC was computed of before.                    *)
TableAppend(data, p, table, crc) ==
    Finalize(TableRemainder(data, p, table, UndoFinalize(crc, p)), p)
=============================================================================
