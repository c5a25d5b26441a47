-------------------------- MODULE MCFileChecksum --------------------------
(***************************************************************************)
(* Instances of FileChecksum for TLC, with real CRC-32s of real bytes.     *)
(***************************************************************************)
EXTENDS FileChecksum

MCTable == Table(CRC_32)
MCBytes == {Bits(\h00), Bits(\h61)}
MCGarbage == Bits(\hFF)

(* The text 123456789; a number of 32 bits, given by its halves.           *)
Digits1To9 == [i \in 1 .. 9 |-> Bits(\h30 + i)]
Halves(high, low) == Bits(low) \cup {i + 16 : i \in Bits(high)}

(* The library for CRCs of 8 and of 16 bits, beside the program's 32.      *)
Of8  == INSTANCE CRC WITH Digits <- 8, CRCWidth <- 8, CHAR_BIT <- 8
Of16 == INSTANCE CRC WITH Digits <- 16, CRCWidth <- 16, CHAR_BIT <- 8

(* The check values CRC.h gives for its parameter sets, and the table's    *)
(* agreement with the bits: the operators of module CRC compute CRCs.      *)
CheckValues8 == {<<CRC_8, Bits(\hF4)>>}

CheckValues16 == {<<CRC_16_ARC,        Bits(\hBB3D)>>,
                  <<CRC_16_BUYPASS,    Bits(\hFEE8)>>,
                  <<CRC_16_CCITTFALSE, Bits(\h29B1)>>,
                  <<CRC_16_GENIBUS,    Bits(\hD64E)>>,
                  <<CRC_16_KERMIT,     Bits(\h2189)>>,
                  <<CRC_16_X25,        Bits(\h906E)>>,
                  <<CRC_16_XMODEM,     Bits(\h31C3)>>}

CheckValues == {<<CRC_32,       Halves(\hCBF4, \h3926)>>,
                <<CRC_32_BZIP2, Halves(\hFC89, \h1918)>>,
                <<CRC_32_MPEG2, Halves(\h0376, \hE6E7)>>,
                <<CRC_32_POSIX, Halves(\h765E, \h7680)>>}

ASSUME CheckValuesHold ==
    /\ \A c \in CheckValues8 :
           /\ Of8!Calculate(Digits1To9, c[1]) = c[2]
           /\ Of8!TableCalculate(Digits1To9, c[1], Of8!Table(c[1])) = c[2]
    /\ \A c \in CheckValues16 :
           /\ Of16!Calculate(Digits1To9, c[1]) = c[2]
           /\ Of16!TableCalculate(Digits1To9, c[1], Of16!Table(c[1])) = c[2]
    /\ \A c \in CheckValues :
           /\ Calculate(Digits1To9, c[1]) = c[2]
           /\ TableCalculate(Digits1To9, c[1], Table(c[1])) = c[2]
=============================================================================
