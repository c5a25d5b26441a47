----------------------------- MODULE CRCProofs -----------------------------
(***************************************************************************)
(* Facts about the CRC library, for every width and every parameter set:   *)
(* finalizing can be undone, the lookup table computes what the bits do,   *)
(* and a CRC can be taken up where it was left.  What its loops over bits  *)
(* and bytes compute is shown by induction over their rounds; the          *)
(* induction is stated for a set of numbers.                               *)
(***************************************************************************)
EXTENDS CRC, FiniteSetTheorems, TLAPS

(* Xor with the same word twice changes nothing.                           *)
LEMMA XorTwice ==
    ASSUME NEW x, NEW y
    PROVE  Xor(Xor(x, y), y) = x
BY DEF Xor

(* Words of CRCWidth bits stay words of CRCWidth bits.                     *)
LEMMA MaskedStays ==
    ASSUME NEW x \in SUBSET (0 .. CRCWidth - 1)
    PROVE  Masked(x) = x
BY DEF Masked

LEMMA XorMasked ==
    ASSUME NEW x \in SUBSET (0 .. CRCWidth - 1), NEW y \in SUBSET (0 .. CRCWidth - 1)
    PROVE  Xor(x, y) \in SUBSET (0 .. CRCWidth - 1)
BY DEF Xor

LEMMA ReflectMasked ==
    ASSUME NEW x
    PROVE  Reflect(x, CRCWidth) \in SUBSET (0 .. CRCWidth - 1)
BY DEF Reflect

(* Reflect: reversing the bits twice restores them.                        *)
LEMMA ReflectTwice ==
    ASSUME NEW n \in Nat, NEW x \in SUBSET (0 .. n - 1)
    PROVE  Reflect(Reflect(x, n), n) = x
<1>1. ASSUME NEW i \in 0 .. n - 1
      PROVE  i \in Reflect(Reflect(x, n), n) <=> i \in x
    <2>1. n - 1 - i \in 0 .. n - 1 /\ n - 1 - (n - 1 - i) = i
        OBVIOUS
    <2>2. i \in Reflect(Reflect(x, n), n) <=> n - 1 - i \in Reflect(x, n)
        BY DEF Reflect
    <2>3. n - 1 - i \in Reflect(x, n) <=> n - 1 - (n - 1 - i) \in x
        BY <2>1 DEF Reflect
    <2> QED
        BY <2>1, <2>2, <2>3
<1>2. Reflect(Reflect(x, n), n) \subseteq 0 .. n - 1
    BY DEF Reflect
<1> QED
    BY <1>1, <1>2

(* UndoFinalize undoes Finalize (the example in its comment asserts so):   *)
(* a CRC that was finalized can be taken up again where it was left, which *)
(* is what appending the next chunk of a file relies on.                   *)
THEOREM UndoFinalizeUndoes ==
    ASSUME NEW p \in Parameters, NEW x \in SUBSET (0 .. CRCWidth - 1),
           p.finalXOR \subseteq 0 .. CRCWidth - 1
    PROVE  UndoFinalize(Finalize(x, p), p) = x
<1>1. CRCWidth \in Nat
    BY CRCAssumption
<1> DEFINE swap == p.reflectInput # p.reflectOutput
           r == IF swap THEN Reflect(x, CRCWidth) ELSE x
<1>2. r \in SUBSET (0 .. CRCWidth - 1)
    BY ReflectMasked
<1>3. Xor(r, p.finalXOR) \in SUBSET (0 .. CRCWidth - 1)
    BY <1>2, XorMasked
<1>4. Finalize(x, p) = Xor(r, p.finalXOR)
    <2>1. Finalize(x, p) = Masked(Xor(r, p.finalXOR))
        BY Zenon DEF Finalize
    <2> QED
        BY <1>3, <2>1, MaskedStays
<1>5. Xor(Masked(Finalize(x, p)), p.finalXOR) = r
    BY <1>3, <1>4, MaskedStays, XorTwice
<1> HIDE DEF r
<1>6. UndoFinalize(Finalize(x, p), p) = IF swap THEN Reflect(r, CRCWidth) ELSE r
    BY <1>5 DEF UndoFinalize
<1>7. CASE swap
    BY <1>1, <1>6, <1>7, ReflectTwice DEF r
<1>8. CASE ~swap
    BY <1>6, <1>8 DEF r
<1> QED
    BY <1>7, <1>8

(* dfs_file_checksum starts from the CRC 0, not from CRC_32's initial      *)
(* value. That is right because for CRC_32 they are the same: undone, 0 is *)
(* the initial value.                                                      *)
THEOREM ZeroIsTheEmptyCrc ==
    ASSUME CRCWidth = Digits
    PROVE  UndoFinalize({}, CRC_32) = CRC_32.initialValue
<1>1. /\ CRC_32.reflectInput = CRC_32.reflectOutput
      /\ CRC_32.finalXOR = Ones /\ CRC_32.initialValue = Ones
    BY DEF CRC_32
<1>2. UndoFinalize({}, CRC_32) = Xor(Masked({}), CRC_32.finalXOR)
    BY <1>1 DEF UndoFinalize
<1>3. Xor(Masked({}), Ones) = Ones
    BY DEF Xor, Masked
<1> QED
    BY <1>1, <1>2, <1>3

----------------------------------------------------------------------------
(* Induction, stated for a set: a set with 0 that is closed under +1 holds *)
(* every number.  Did it miss m, then n |-> n - 1 would map the numbers up *)
(* to m that it misses one to one into those of them below m.              *)
LEMMA SetInduction ==
    ASSUME NEW S, 0 \in S, \A n \in Nat : n \in S => n + 1 \in S
    PROVE  \A n \in Nat : n \in S
<1> SUFFICES ASSUME NEW m \in Nat, m \notin S PROVE FALSE
    OBVIOUS
<1> DEFINE Missed == {n \in 0 .. m : n \notin S}
           before == [n \in Missed |-> n - 1]
<1>1. IsFiniteSet(0 .. m)
    BY FS_Interval
<1>2. IsFiniteSet(Missed)
    BY <1>1, FS_Subset
<1>3. m \in Missed
    OBVIOUS
<1>4. /\ IsFiniteSet(Missed \ {m})
      /\ Cardinality(Missed \ {m}) = Cardinality(Missed) - 1
    BY <1>2, <1>3, FS_RemoveElement
<1>5. Cardinality(Missed) \in Nat
    BY <1>2, FS_CardinalityType
<1>6. Cardinality(Missed \ {m}) < Cardinality(Missed)
    BY <1>4, <1>5
<1>7. ASSUME NEW n \in Missed
      PROVE  n - 1 \in Missed \ {m}
    <2>1. n \in Nat /\ n \notin S /\ n # 0 /\ n <= m
        OBVIOUS
    <2>2. n - 1 \in Nat /\ (n - 1) + 1 = n
        BY <2>1
    <2>3. n - 1 \notin S
        BY <2>1, <2>2
    <2> QED
        BY <2>1, <2>2, <2>3
<1>8. before \in [Missed -> Missed \ {m}]
    BY <1>7
<1>9. \E x, y \in Missed : x # y /\ before[x] = before[y]
    <2> HIDE DEF Missed, before
    <2> QED
        BY <1>2, <1>4, <1>6, <1>8, FS_PigeonHole
<1>10. \A x, y \in Missed : x - 1 = y - 1 => x = y
    OBVIOUS
<1>11. \A x \in Missed : before[x] = x - 1
    OBVIOUS
<1> HIDE DEF Missed, before
<1> QED
    BY <1>9, <1>10, <1>11

(* What a loop of N rounds that starts from a and maps the value it has in *)
(* round n with F[n] goes through.                                         *)
IsRun(run, N, a, F) ==
    /\ DOMAIN run = 0 .. N
    /\ run[0] = a
    /\ \A n \in 1 .. N : run[n] = F[n][run[n - 1]]

(* The loop has a run, and its values stay in W when every F[n] does.      *)
LEMMA RunExists ==
    ASSUME NEW N \in Nat, NEW W, NEW a \in W, NEW F \in [1 .. N -> [W -> W]]
    PROVE  \E run \in [0 .. N -> W] : IsRun(run, N, a, F)
<1> DEFINE S == {n \in Nat : n <= N => \E run \in [0 .. n -> W] : IsRun(run, n, a, F)}
<1>1. 0 \in S
    <2> DEFINE r == [n \in 0 .. 0 |-> a]
    <2>1. r \in [0 .. 0 -> W] /\ IsRun(r, 0, a, F)
        BY DEF IsRun
    <2> QED
        BY <2>1
<1>2. ASSUME NEW n \in Nat, n \in S
      PROVE  n + 1 \in S
    <2> SUFFICES ASSUME n + 1 <= N
                 PROVE  \E run \in [0 .. n + 1 -> W] : IsRun(run, n + 1, a, F)
        OBVIOUS
    <2>1. PICK run \in [0 .. n -> W] : IsRun(run, n, a, F)
        BY <1>2
    <2>2. n + 1 \in 1 .. N /\ n \in 0 .. n
        OBVIOUS
    <2>3. F[n + 1][run[n]] \in W
        BY <2>1, <2>2
    <2> DEFINE next == [i \in 0 .. n + 1 |-> IF i = n + 1 THEN F[n + 1][run[n]] ELSE run[i]]
    <2>4. next \in [0 .. n + 1 -> W]
        BY <2>1, <2>3
    <2>5. IsRun(next, n + 1, a, F)
        <3>1. DOMAIN next = 0 .. n + 1 /\ next[0] = a
            BY <2>1 DEF IsRun
        <3>2. ASSUME NEW i \in 1 .. n + 1
              PROVE  next[i] = F[i][next[i - 1]]
            <4>1. CASE i = n + 1
                <5>1. i - 1 = n /\ next[i] = F[n + 1][run[n]] /\ next[n] = run[n]
                    BY <4>1
                <5> HIDE DEF next
                <5> QED
                    BY <5>1, <4>1
            <4>2. CASE i # n + 1
                <5>1. i \in 1 .. n /\ i - 1 \in 0 .. n
                    BY <4>2
                <5>2. next[i] = run[i] /\ next[i - 1] = run[i - 1]
                    BY <5>1
                <5>3. run[i] = F[i][run[i - 1]]
                    BY <2>1, <5>1 DEF IsRun
                <5> HIDE DEF next
                <5> QED
                    BY <5>2, <5>3
            <4> QED
                BY <4>1, <4>2
        <3> HIDE DEF next
        <3> QED
            BY <3>1, <3>2 DEF IsRun
    <2> HIDE DEF next
    <2> QED
        BY <2>4, <2>5
<1>3. N \in S
    <2> HIDE DEF S
    <2>1. \A n \in Nat : n \in S => n + 1 \in S
        BY <1>2
    <2> QED
        BY <1>1, <2>1, SetInduction
<1> QED
    BY <1>3

(* It has one run only.                                                    *)
LEMMA RunUnique ==
    ASSUME NEW N \in Nat, NEW a, NEW F, NEW r, NEW s,
           IsRun(r, N, a, F), IsRun(s, N, a, F)
    PROVE  \A n \in 0 .. N : r[n] = s[n]
<1> DEFINE S == {n \in Nat : n <= N => r[n] = s[n]}
<1>1. 0 \in S
    BY DEF IsRun
<1>2. ASSUME NEW n \in Nat, n \in S
      PROVE  n + 1 \in S
    <2> SUFFICES ASSUME n + 1 <= N PROVE r[n + 1] = s[n + 1]
        OBVIOUS
    <2>1. r[n] = s[n] /\ n + 1 \in 1 .. N /\ (n + 1) - 1 = n
        BY <1>2
    <2>2. r[n + 1] = F[n + 1][r[n]] /\ s[n + 1] = F[n + 1][s[n]]
        BY <2>1 DEF IsRun
    <2> QED
        BY <2>1, <2>2
<1>3. \A n \in Nat : n \in S
    <2> HIDE DEF S
    <2>1. \A n \in Nat : n \in S => n + 1 \in S
        BY <1>2
    <2> QED
        BY <1>1, <2>1, SetInduction
<1> QED
    BY <1>3

----------------------------------------------------------------------------
(* The loop over the bits of a byte.                                       *)
BitStep(p) == IF p.reflectInput THEN ReflectedStep(p) ELSE ForwardStep(p)

FirstOfByte(b, p, remainder) ==
    Xor(remainder, IF p.reflectInput THEN b ELSE ShiftLeft(b, CRCWidth - CHAR_BIT))

LEMMA WordsStayWords ==
    /\ \A x, y \in Word : Xor(x, y) \in Word
    /\ \A x : \A n \in Int : ShiftRight(x, n) \in Word /\ ShiftLeft(x, n) \in Word
    /\ \A x : Masked(x) \in Word /\ Reflect(x, CRCWidth) \in Word
    /\ Byte \subseteq Word
<1>1. /\ Digits \in Nat /\ CRCWidth \in Nat /\ CHAR_BIT \in Nat \ {0}
      /\ CHAR_BIT <= CRCWidth /\ CRCWidth <= Digits
    BY CRCAssumption
<1>2. /\ 0 .. CRCWidth - 1 \subseteq 0 .. Digits - 1
      /\ 0 .. CHAR_BIT - 1 \subseteq 0 .. Digits - 1
    BY <1>1
<1>3. \A x, y \in Word : Xor(x, y) \in Word
    BY DEF Word, Xor
<1>4. \A x : \A n \in Int : ShiftRight(x, n) \in Word /\ ShiftLeft(x, n) \in Word
    BY DEF Word, ShiftRight, ShiftLeft
<1>5. \A x : Masked(x) \in Word /\ Reflect(x, CRCWidth) \in Word
    BY <1>2 DEF Word, Masked, Reflect
<1>6. Byte \subseteq Word
    BY <1>2 DEF Word, Byte
<1> QED
    BY <1>3, <1>4, <1>5, <1>6

LEMMA BitStepIsMap ==
    ASSUME NEW p \in Parameters
    PROVE  BitStep(p) \in [Word -> Word]
<1>1. p.polynomial \in Word /\ 1 \in Int
    BY DEF Parameters
<1>2. ReflectedStep(p) \in [Word -> Word]
    BY <1>1, WordsStayWords DEF ReflectedStep
<1>3. ForwardStep(p) \in [Word -> Word]
    BY <1>1, WordsStayWords DEF ForwardStep
<1> QED
    BY <1>2, <1>3 DEF BitStep

LEMMA FirstOfByteIsWord ==
    ASSUME NEW p, NEW b \in Byte, NEW r \in Word
    PROVE  FirstOfByte(b, p, r) \in Word
<1>1. CRCWidth - CHAR_BIT \in Int
    BY CRCAssumption
<1> QED
    BY <1>1, WordsStayWords DEF FirstOfByte

(* RemainderOfByte is the last value of the run over the bits.             *)
LEMMA ByteRun ==
    ASSUME NEW p \in Parameters, NEW b \in Byte, NEW r \in Word
    PROVE  \E run \in [0 .. CHAR_BIT -> Word] :
              /\ run[0] = FirstOfByte(b, p, r)
              /\ \A n \in 1 .. CHAR_BIT : run[n] = BitStep(p)[run[n - 1]]
              /\ RemainderOfByte(b, p)[r] = run[CHAR_BIT]
<1> DEFINE F == [n \in 1 .. CHAR_BIT |-> BitStep(p)]
           a == FirstOfByte(b, p, r)
           after[n \in 0 .. CHAR_BIT] == IF n = 0 THEN a ELSE BitStep(p)[after[n - 1]]
<1>1. CHAR_BIT \in Nat
    BY CRCAssumption
<1>2. a \in Word /\ F \in [1 .. CHAR_BIT -> [Word -> Word]]
    BY FirstOfByteIsWord, BitStepIsMap
<1>3. RemainderOfByte(b, p)[r] = after[CHAR_BIT]
    BY DEF RemainderOfByte, BitStep, FirstOfByte
<1>4. PICK run \in [0 .. CHAR_BIT -> Word] : IsRun(run, CHAR_BIT, a, F)
    <2> HIDE DEF a, F
    <2> QED
        BY <1>1, <1>2, RunExists
<1>5. \A n \in 1 .. CHAR_BIT : F[n] = BitStep(p)
    OBVIOUS
<1> HIDE DEF a, F
<1>6. run = [n \in 0 .. CHAR_BIT |-> IF n = 0 THEN a ELSE BitStep(p)[run[n - 1]]]
    BY <1>1, <1>4, <1>5 DEF IsRun
<1>7. after = [n \in 0 .. CHAR_BIT |-> IF n = 0 THEN a ELSE BitStep(p)[after[n - 1]]]
    BY <1>6
<1> HIDE DEF after
<1>8. IsRun(after, CHAR_BIT, a, F)
    BY <1>1, <1>5, <1>7 DEF IsRun
<1>9. \A n \in 0 .. CHAR_BIT : after[n] = run[n]
    BY <1>1, <1>4, <1>8, RunUnique
<1>10. after \in [0 .. CHAR_BIT -> Word]
    BY <1>4, <1>7, <1>9
<1> QED
    BY <1>1, <1>3, <1>5, <1>8, <1>10 DEF IsRun, a

(* Every byte maps the remainder to a remainder.                           *)
LEMMA RemainderOfByteIsMap ==
    ASSUME NEW p \in Parameters, NEW b \in Byte
    PROVE  RemainderOfByte(b, p) \in [Word -> Word]
<1>1. \A r \in Word : RemainderOfByte(b, p)[r] \in Word
    <2> SUFFICES ASSUME NEW r \in Word PROVE RemainderOfByte(b, p)[r] \in Word
        OBVIOUS
    <2>1. CHAR_BIT \in 0 .. CHAR_BIT
        BY CRCAssumption
    <2> QED
        BY <2>1, ByteRun
<1> DEFINE first(r) == Xor(r, IF p.reflectInput THEN b ELSE ShiftLeft(b, CRCWidth - CHAR_BIT))
           step == IF p.reflectInput THEN ReflectedStep(p) ELSE ForwardStep(p)
           afterAll(r) == LET after[n \in 0 .. CHAR_BIT] ==
                                  IF n = 0 THEN first(r) ELSE step[after[n - 1]]
                          IN after[CHAR_BIT]
<1>2. RemainderOfByte(b, p) = [r \in Word |-> afterAll(r)]
    BY DEF RemainderOfByte
<1> HIDE DEF afterAll
<1> QED
    BY <1>1, <1>2

(* CalculateRemainder is the last value of the run over the bytes.         *)
ByteMaps(data, p) == [n \in 1 .. Len(data) |-> RemainderOfByte(data[n], p)]

LEMMA ByteMapsAreMaps ==
    ASSUME NEW p \in Parameters, NEW data \in Seq(Byte)
    PROVE  /\ ByteMaps(data, p) \in [1 .. Len(data) -> [Word -> Word]]
           /\ \A n \in 1 .. Len(data) : ByteMaps(data, p)[n] = RemainderOfByte(data[n], p)
<1>1. \A n \in 1 .. Len(data) : data[n] \in Byte
    OBVIOUS
<1>2. \A n \in 1 .. Len(data) : RemainderOfByte(data[n], p) \in [Word -> Word]
    BY <1>1, RemainderOfByteIsMap
<1> QED
    BY <1>2 DEF ByteMaps

LEMMA DataRun ==
    ASSUME NEW p \in Parameters, NEW data \in Seq(Byte), NEW r \in Word
    PROVE  \E run \in [0 .. Len(data) -> Word] :
              /\ IsRun(run, Len(data), r, ByteMaps(data, p))
              /\ CalculateRemainder(data, p, r) = run[Len(data)]
<1> DEFINE F == ByteMaps(data, p)
           N == Len(data)
           after[n \in 0 .. Len(data)] ==
               IF n = 0 THEN r ELSE RemainderOfByte(data[n], p)[after[n - 1]]
<1>1. N \in Nat
    OBVIOUS
<1>2. /\ F \in [1 .. N -> [Word -> Word]]
      /\ \A n \in 1 .. N : F[n] = RemainderOfByte(data[n], p)
    BY ByteMapsAreMaps
<1>3. CalculateRemainder(data, p, r) = after[Len(data)]
    BY DEF CalculateRemainder
<1> HIDE DEF F
<1>4. PICK run \in [0 .. N -> Word] : IsRun(run, N, r, F)
    <2> HIDE DEF N
    <2> QED
        BY <1>1, <1>2, RunExists
<1>5. run = [n \in 0 .. Len(data) |-> IF n = 0 THEN r ELSE RemainderOfByte(data[n], p)[run[n - 1]]]
    <2>1. \A n \in 1 .. N : run[n] = RemainderOfByte(data[n], p)[run[n - 1]]
        BY <1>2, <1>4 DEF IsRun
    <2>2. \A n \in 0 .. N : n = 0 \/ n \in 1 .. N
        BY <1>1
    <2> QED
        BY <1>4, <2>1, <2>2 DEF IsRun
<1>6. after = [n \in 0 .. Len(data) |->
                  IF n = 0 THEN r ELSE RemainderOfByte(data[n], p)[after[n - 1]]]
    BY <1>5
<1> HIDE DEF after
<1>7. IsRun(after, N, r, F)
    BY <1>1, <1>2, <1>6 DEF IsRun
<1>8. \A n \in 0 .. N : after[n] = run[n]
    BY <1>1, <1>4, <1>7, RunUnique
<1>9. after \in [0 .. N -> Word]
    BY <1>4, <1>6, <1>8
<1> QED
    BY <1>3, <1>7, <1>9 DEF F

(* The bytes of two pieces of data one after the other are those of both:  *)
(* the remainder of the first is where the second begins.                  *)
LEMMA RemainderOfConcat ==
    ASSUME NEW p \in Parameters, NEW s \in Seq(Byte), NEW t \in Seq(Byte), NEW r \in Word
    PROVE  CalculateRemainder(s \o t, p, r) =
               CalculateRemainder(t, p, CalculateRemainder(s, p, r))
<1> DEFINE M == Len(s)
           N == Len(t)
           m == CalculateRemainder(s, p, r)
<1>1. /\ s \o t \in Seq(Byte) /\ M \in Nat /\ N \in Nat /\ Len(s \o t) = M + N
      /\ \A n \in 1 .. M : (s \o t)[n] = s[n]
      /\ \A n \in 1 .. N : (s \o t)[M + n] = t[n]
    OBVIOUS
<1>2. PICK whole \in [0 .. Len(s \o t) -> Word] :
          /\ IsRun(whole, Len(s \o t), r, ByteMaps(s \o t, p))
          /\ CalculateRemainder(s \o t, p, r) = whole[Len(s \o t)]
    BY <1>1, DataRun
<1>3. \A n \in 1 .. Len(s \o t) : ByteMaps(s \o t, p)[n] = RemainderOfByte((s \o t)[n], p)
    BY <1>1, ByteMapsAreMaps
<1>4. /\ whole[0] = r
      /\ \A n \in 1 .. M + N : whole[n] = RemainderOfByte((s \o t)[n], p)[whole[n - 1]]
    BY <1>1, <1>2, <1>3 DEF IsRun
<1>5. whole[M] = m /\ m \in Word
    <2>1. PICK run \in [0 .. M -> Word] :
              /\ IsRun(run, M, r, ByteMaps(s, p))
              /\ m = run[M]
        BY DataRun
    <2>2. \A n \in 1 .. M : ByteMaps(s, p)[n] = RemainderOfByte(s[n], p)
        BY ByteMapsAreMaps
    <2> DEFINE part == [n \in 0 .. M |-> whole[n]]
    <2>3. IsRun(part, M, r, ByteMaps(s, p))
        <3>1. DOMAIN part = 0 .. M /\ part[0] = r
            BY <1>1, <1>4
        <3>2. ASSUME NEW n \in 1 .. M PROVE part[n] = ByteMaps(s, p)[n][part[n - 1]]
            <4>1. n \in 1 .. M + N /\ n \in 0 .. M /\ n - 1 \in 0 .. M
                BY <1>1
            <4>2. part[n] = whole[n] /\ part[n - 1] = whole[n - 1]
                BY <4>1
            <4>3. whole[n] = RemainderOfByte(s[n], p)[whole[n - 1]]
                BY <1>1, <1>4, <4>1
            <4> HIDE DEF part
            <4> QED
                BY <2>2, <4>2, <4>3
        <3> HIDE DEF part
        <3> QED
            BY <3>1, <3>2 DEF IsRun
    <2>4. M \in 0 .. M /\ part[M] = whole[M]
        BY <1>1
    <2> HIDE DEF part, m, M
    <2>5. part[M] = run[M]
        BY <1>1, <2>1, <2>3, <2>4, RunUnique
    <2> QED
        BY <2>1, <2>4, <2>5
<1> HIDE DEF m
<1>6. CalculateRemainder(t, p, m) = whole[M + N]
    <2>1. PICK run \in [0 .. N -> Word] :
              /\ IsRun(run, N, m, ByteMaps(t, p))
              /\ CalculateRemainder(t, p, m) = run[N]
        BY <1>5, DataRun
    <2>2. \A n \in 1 .. N : ByteMaps(t, p)[n] = RemainderOfByte(t[n], p)
        BY ByteMapsAreMaps
    <2> DEFINE part == [n \in 0 .. N |-> whole[M + n]]
    <2>3. IsRun(part, N, m, ByteMaps(t, p))
        <3>1. DOMAIN part = 0 .. N /\ part[0] = m
            BY <1>1, <1>5
        <3>2. ASSUME NEW n \in 1 .. N PROVE part[n] = ByteMaps(t, p)[n][part[n - 1]]
            <4>1. /\ M + n \in 1 .. M + N /\ n \in 0 .. N /\ n - 1 \in 0 .. N
                  /\ M + (n - 1) = (M + n) - 1
                BY <1>1
            <4>2. part[n] = whole[M + n] /\ part[n - 1] = whole[(M + n) - 1]
                BY <4>1
            <4>3. whole[M + n] = RemainderOfByte(t[n], p)[whole[(M + n) - 1]]
                BY <1>1, <1>4, <4>1
            <4> HIDE DEF part
            <4> QED
                BY <2>2, <4>2, <4>3
        <3> HIDE DEF part
        <3> QED
            BY <3>1, <3>2 DEF IsRun
    <2>4. N \in 0 .. N /\ part[N] = whole[M + N]
        BY <1>1
    <2> HIDE DEF part, N
    <2>5. part[N] = run[N]
        BY <1>1, <2>1, <2>3, <2>4, RunUnique
    <2> QED
        BY <2>1, <2>4, <2>5
<1> QED
    BY <1>1, <1>2, <1>6 DEF m

----------------------------------------------------------------------------
(* The lookup table.  A bit that has not reached the end of the remainder  *)
(* only moves: what the steps over a byte subtract depends on the byte at  *)
(* that end, and the table holds it for each.                              *)
LEMMA XorMoves ==
    ASSUME NEW x, NEW y, NEW z
    PROVE  /\ Xor(Xor(x, y), z) = Xor(Xor(x, z), y)
           /\ Xor(x, y) = Xor(y, x)
           /\ Xor({}, x) = x
BY DEF Xor

LEMMA ShiftsDistribute ==
    ASSUME NEW x, NEW y, NEW n \in Int
    PROVE  /\ ShiftRight(Xor(x, y), n) = Xor(ShiftRight(x, n), ShiftRight(y, n))
           /\ ShiftLeft(Xor(x, y), n) = Xor(ShiftLeft(x, n), ShiftLeft(y, n))
BY DEF Xor, ShiftRight, ShiftLeft

LEMMA ShiftsAdd ==
    ASSUME NEW x \in Word, NEW n \in Nat
    PROVE  /\ ShiftRight(ShiftRight(x, n), 1) = ShiftRight(x, n + 1)
           /\ ShiftLeft(ShiftLeft(x, n), 1) = ShiftLeft(x, n + 1)
<1>1. Digits \in Nat /\ x \subseteq 0 .. Digits - 1
    BY CRCAssumption DEF Word
<1>2. ASSUME NEW i \in 0 .. Digits - 1
      PROVE  /\ i + 1 \in ShiftRight(x, n) <=> i + (n + 1) \in x
             /\ i - 1 \in ShiftLeft(x, n) <=> i - (n + 1) \in x
    <2>1. i + 1 + n = i + (n + 1) /\ i - 1 - n = i - (n + 1)
        OBVIOUS
    <2>2. i + (n + 1) \in x => i + 1 \in 0 .. Digits - 1
        BY <1>1
    <2>3. i - (n + 1) \in x => i - 1 \in 0 .. Digits - 1
        BY <1>1
    <2> QED
        BY <2>1, <2>2, <2>3 DEF ShiftRight, ShiftLeft
<1>3. ShiftRight(ShiftRight(x, n), 1) = {i \in 0 .. Digits - 1 : i + 1 \in ShiftRight(x, n)}
    BY DEF ShiftRight
<1>4. ShiftLeft(ShiftLeft(x, n), 1) = {i \in 0 .. Digits - 1 : i - 1 \in ShiftLeft(x, n)}
    BY DEF ShiftLeft
<1>5. ShiftRight(x, n + 1) = {i \in 0 .. Digits - 1 : i + (n + 1) \in x}
    BY DEF ShiftRight
<1>6. ShiftLeft(x, n + 1) = {i \in 0 .. Digits - 1 : i - (n + 1) \in x}
    BY DEF ShiftLeft
<1> QED
    BY <1>2, <1>3, <1>4, <1>5, <1>6

LEMMA ShiftsByZero ==
    ASSUME NEW x \in Word
    PROVE  ShiftRight(x, 0) = x /\ ShiftLeft(x, 0) = x
<1>1. Digits \in Nat /\ x \subseteq 0 .. Digits - 1
    BY CRCAssumption DEF Word
<1>2. \A i \in 0 .. Digits - 1 : i + 0 = i /\ i - 0 = i
    OBVIOUS
<1>3. x = {i \in 0 .. Digits - 1 : i \in x}
    BY <1>1
<1>4. ShiftRight(x, 0) = {i \in 0 .. Digits - 1 : i \in x}
    BY <1>2 DEF ShiftRight
<1>5. ShiftLeft(x, 0) = {i \in 0 .. Digits - 1 : i \in x}
    BY <1>2 DEF ShiftLeft
<1> QED
    BY <1>3, <1>4, <1>5

LEMMA ReflectedStepSplits ==
    ASSUME NEW p \in Parameters, NEW a \in Word, NEW h \in Word, 0 \notin h
    PROVE  ReflectedStep(p)[Xor(a, h)] = Xor(ReflectedStep(p)[a], ShiftRight(h, 1))
<1> DEFINE q == Reflect(p.polynomial, CRCWidth)
<1>1. Xor(a, h) \in Word /\ (0 \in Xor(a, h) <=> 0 \in a)
    BY WordsStayWords DEF Xor
<1>2. ShiftRight(Xor(a, h), 1) = Xor(ShiftRight(a, 1), ShiftRight(h, 1))
    BY ShiftsDistribute
<1>3. ReflectedStep(p)[a] = IF 0 \in a THEN Xor(ShiftRight(a, 1), q) ELSE ShiftRight(a, 1)
    BY DEF ReflectedStep
<1>4. ReflectedStep(p)[Xor(a, h)] =
          IF 0 \in Xor(a, h) THEN Xor(ShiftRight(Xor(a, h), 1), q) ELSE ShiftRight(Xor(a, h), 1)
    BY <1>1 DEF ReflectedStep
<1>5. Xor(Xor(ShiftRight(a, 1), ShiftRight(h, 1)), q) =
          Xor(Xor(ShiftRight(a, 1), q), ShiftRight(h, 1))
    BY XorMoves
<1> HIDE DEF q
<1> QED
    BY <1>1, <1>2, <1>3, <1>4, <1>5

LEMMA ForwardStepSplits ==
    ASSUME NEW p \in Parameters, NEW a \in Word, NEW h \in Word, CRCWidth - 1 \notin h
    PROVE  ForwardStep(p)[Xor(a, h)] = Xor(ForwardStep(p)[a], ShiftLeft(h, 1))
<1> DEFINE q == p.polynomial
           top == CRCWidth - 1
<1>1. Xor(a, h) \in Word /\ (top \in Xor(a, h) <=> top \in a)
    BY WordsStayWords DEF Xor
<1>2. ShiftLeft(Xor(a, h), 1) = Xor(ShiftLeft(a, 1), ShiftLeft(h, 1))
    BY ShiftsDistribute
<1>3. ForwardStep(p)[a] = IF top \in a THEN Xor(ShiftLeft(a, 1), q) ELSE ShiftLeft(a, 1)
    BY DEF ForwardStep
<1>4. ForwardStep(p)[Xor(a, h)] =
          IF top \in Xor(a, h) THEN Xor(ShiftLeft(Xor(a, h), 1), q) ELSE ShiftLeft(Xor(a, h), 1)
    BY <1>1 DEF ForwardStep
<1>5. Xor(Xor(ShiftLeft(a, 1), ShiftLeft(h, 1)), q) =
          Xor(Xor(ShiftLeft(a, 1), q), ShiftLeft(h, 1))
    BY XorMoves
<1> HIDE DEF q, top
<1> QED
    BY <1>1, <1>2, <1>3, <1>4, <1>5

(* A byte b at the low end of the remainder r: what is above it is moved   *)
(* down by the steps over b, and what they subtract is that of the byte    *)
(* the two make there.                                                     *)
LEMMA ReflectedTable ==
    ASSUME NEW p \in Parameters, p.reflectInput, NEW b \in Byte, NEW r \in Word
    PROVE  TableRemainderOfByte(b, p, Table(p))[r] = RemainderOfByte(b, p)[r]
<1> DEFINE x == Xor(r, b)
           low == LowByte(x)
           high == x \ low
<1>1. /\ Digits \in Nat /\ CRCWidth \in Nat /\ CHAR_BIT \in Nat \ {0}
      /\ CHAR_BIT <= CRCWidth /\ CRCWidth <= Digits
    BY CRCAssumption
<1>2. /\ x \in Word /\ low \in Byte /\ low \in Word /\ high \in Word /\ {} \in Word
      /\ x = Xor(low, high)
    <2>1. x \in Word
        BY WordsStayWords
    <2>2. low \in Byte /\ low \subseteq x
        BY DEF LowByte, Byte
    <2>3. low \in Word /\ high \in Word /\ {} \in Word
        BY <2>1, <2>2 DEF Word
    <2>4. x = Xor(low, high)
        BY <2>2 DEF Xor
    <2> QED
        BY <2>1, <2>2, <2>3, <2>4
<1>3. \A n \in 0 .. CHAR_BIT - 1 : 0 \notin ShiftRight(high, n)
    BY <1>1 DEF ShiftRight, LowByte
<1>4. ShiftRight(high, CHAR_BIT) = ShiftRight(r, CHAR_BIT)
    <2>1. \A i \in 0 .. Digits - 1 : i + CHAR_BIT \notin 0 .. CHAR_BIT - 1
        BY <1>1
    <2>2. \A j : j \notin 0 .. CHAR_BIT - 1 => (j \in high <=> j \in r)
        BY DEF Xor, LowByte, Byte
    <2>3. \A i \in 0 .. Digits - 1 : i + CHAR_BIT \in high <=> i + CHAR_BIT \in r
        <3> HIDE DEF high
        <3> QED
            BY <2>1, <2>2
    <2> HIDE DEF high
    <2> QED
        BY <2>3 DEF ShiftRight
<1>5. BitStep(p) = ReflectedStep(p)
    BY DEF BitStep
<1>6. PICK run \in [0 .. CHAR_BIT -> Word] :
          /\ run[0] = x
          /\ \A n \in 1 .. CHAR_BIT : run[n] = ReflectedStep(p)[run[n - 1]]
          /\ RemainderOfByte(b, p)[r] = run[CHAR_BIT]
    BY <1>5, ByteRun DEF FirstOfByte
<1>7. PICK part \in [0 .. CHAR_BIT -> Word] :
          /\ part[0] = low
          /\ \A n \in 1 .. CHAR_BIT : part[n] = ReflectedStep(p)[part[n - 1]]
          /\ RemainderOfByte(low, p)[{}] = part[CHAR_BIT]
    <2>1. FirstOfByte(low, p, {}) = low
        BY XorMoves DEF FirstOfByte
    <2> HIDE DEF low
    <2> QED
        BY <1>2, <1>5, <2>1, ByteRun
<1> HIDE DEF x, low, high
<1>8. run[CHAR_BIT] = Xor(part[CHAR_BIT], ShiftRight(high, CHAR_BIT))
    <2> DEFINE S == {n \in Nat : n <= CHAR_BIT => run[n] = Xor(part[n], ShiftRight(high, n))}
    <2>1. 0 \in S
        BY <1>2, <1>6, <1>7, ShiftsByZero
    <2>2. ASSUME NEW n \in Nat, n \in S PROVE n + 1 \in S
        <3> SUFFICES ASSUME n + 1 <= CHAR_BIT
                     PROVE  run[n + 1] = Xor(part[n + 1], ShiftRight(high, n + 1))
            OBVIOUS
        <3>1. /\ n \in 0 .. CHAR_BIT /\ n \in 0 .. CHAR_BIT - 1 /\ n + 1 \in 1 .. CHAR_BIT
              /\ (n + 1) - 1 = n
            BY <1>1
        <3>2. run[n] = Xor(part[n], ShiftRight(high, n))
            BY <2>2, <3>1
        <3>3. /\ run[n + 1] = ReflectedStep(p)[run[n]]
              /\ part[n + 1] = ReflectedStep(p)[part[n]]
            BY <1>6, <1>7, <3>1
        <3>4. part[n] \in Word /\ ShiftRight(high, n) \in Word
            BY <1>7, <3>1, WordsStayWords
        <3>5. 0 \notin ShiftRight(high, n)
            BY <1>3, <3>1
        <3>6. ReflectedStep(p)[Xor(part[n], ShiftRight(high, n))] =
                  Xor(ReflectedStep(p)[part[n]], ShiftRight(ShiftRight(high, n), 1))
            BY <3>4, <3>5, ReflectedStepSplits
        <3>7. ShiftRight(ShiftRight(high, n), 1) = ShiftRight(high, n + 1)
            BY <1>2, ShiftsAdd
        <3> QED
            BY <3>2, <3>3, <3>6, <3>7
    <2>3. \A n \in Nat : n \in S
        <3> HIDE DEF S
        <3>1. \A n \in Nat : n \in S => n + 1 \in S
            BY <2>2
        <3> QED
            BY <2>1, <3>1, SetInduction
    <2> QED
        BY <1>1, <2>3
<1>9. part[CHAR_BIT] \subseteq 0 .. CRCWidth - 1
    <2> DEFINE S == {n \in Nat : n <= CHAR_BIT => part[n] \subseteq 0 .. CRCWidth - 1}
    <2>1. 0 \in S
        <3>1. 0 .. CHAR_BIT - 1 \subseteq 0 .. CRCWidth - 1
            BY <1>1
        <3>2. part[0] \subseteq 0 .. CRCWidth - 1
            BY <1>2, <1>7, <3>1 DEF Byte
        <3> QED
            BY <3>2
    <2>2. ASSUME NEW n \in Nat, n \in S PROVE n + 1 \in S
        <3> SUFFICES ASSUME n + 1 <= CHAR_BIT PROVE part[n + 1] \subseteq 0 .. CRCWidth - 1
            OBVIOUS
        <3>1. n \in 0 .. CHAR_BIT /\ n + 1 \in 1 .. CHAR_BIT /\ (n + 1) - 1 = n
            BY <1>1
        <3>2. part[n] \in Word /\ part[n] \subseteq 0 .. CRCWidth - 1
            BY <1>7, <2>2, <3>1
        <3>3. ShiftRight(part[n], 1) \subseteq 0 .. CRCWidth - 1
            BY <1>1, <3>2 DEF ShiftRight
        <3>4. part[n + 1] = ReflectedStep(p)[part[n]]
            BY <1>7, <3>1
        <3>5. Reflect(p.polynomial, CRCWidth) \subseteq 0 .. CRCWidth - 1
            BY DEF Reflect
        <3>6. Xor(ShiftRight(part[n], 1), Reflect(p.polynomial, CRCWidth)) \subseteq 0 .. CRCWidth - 1
            BY <3>3, <3>5 DEF Xor
        <3> QED
            BY <3>2, <3>3, <3>4, <3>6 DEF ReflectedStep
    <2>3. \A n \in Nat : n \in S
        <3> HIDE DEF S
        <3>1. \A n \in Nat : n \in S => n + 1 \in S
            BY <2>2
        <3> QED
            BY <2>1, <3>1, SetInduction
    <2> QED
        BY <1>1, <2>3
<1>10. Table(p)[low] = part[CHAR_BIT]
    <2>1. Masked(part[CHAR_BIT]) = part[CHAR_BIT]
        BY <1>9, MaskedStays
    <2> QED
        BY <1>2, <1>7, <2>1 DEF Table
<1>11. TableRemainderOfByte(b, p, Table(p))[r] = Xor(ShiftRight(r, CHAR_BIT), Table(p)[low])
    BY DEF TableRemainderOfByte, x, low
<1> QED
    BY <1>4, <1>6, <1>8, <1>10, <1>11, XorMoves

(* The same for a parameter set that is not reflected, where the bytes     *)
(* come in at the high end.  The remainder is as wide as the type, so that *)
(* what is moved beyond it is lost.                                        *)
LEMMA ForwardTable ==
    ASSUME NEW p \in Parameters, ~p.reflectInput, NEW b \in Byte, NEW r \in Word,
           CRCWidth = Digits
    PROVE  TableRemainderOfByte(b, p, Table(p))[r] = RemainderOfByte(b, p)[r]
<1> DEFINE k == CRCWidth - CHAR_BIT
           x == Xor(r, ShiftLeft(b, k))
           t == LowByte(Xor(ShiftRight(r, k), b))
           top == ShiftLeft(t, k)
           rest == x \ top
<1>1. /\ Digits \in Nat /\ CRCWidth \in Nat /\ CHAR_BIT \in Nat \ {0}
      /\ CHAR_BIT <= CRCWidth /\ k \in Nat /\ k + CHAR_BIT = Digits
    BY CRCAssumption
<1>2. \A i \in 0 .. CHAR_BIT - 1 : i \in t <=> i + k \in x
    <2>1. \A i \in 0 .. CHAR_BIT - 1 :
              i \in 0 .. Digits - 1 /\ i + k \in 0 .. Digits - 1 /\ (i + k) - k = i
        BY <1>1
    <2>2. \A i \in 0 .. CHAR_BIT - 1 : i \in ShiftRight(r, k) <=> i + k \in r
        BY <2>1 DEF ShiftRight
    <2>3. \A i \in 0 .. CHAR_BIT - 1 : i + k \in ShiftLeft(b, k) <=> i \in b
        BY <2>1 DEF ShiftLeft
    <2> HIDE DEF k
    <2> QED
        BY <2>2, <2>3 DEF Xor, LowByte
<1>3. x \in Word /\ t \in Byte /\ top \in Word /\ rest \in Word /\ {} \in Word
    <2>1. t \in Byte
        BY DEF LowByte, Byte
    <2>2. ShiftLeft(b, k) \in Word /\ top \in Word
        BY <1>1, WordsStayWords
    <2>3. x \in Word
        BY <2>2, WordsStayWords
    <2> QED
        BY <2>1, <2>2, <2>3 DEF Word
<1>4. \A j \in 0 .. Digits - 1 : j \in top <=> j \in x /\ j >= k
    <2>1. \A j \in 0 .. Digits - 1 : j \in top <=> j - k \in t
        BY DEF ShiftLeft
    <2>2. t \subseteq 0 .. CHAR_BIT - 1
        BY <1>3 DEF Byte
    <2>3. ASSUME NEW j \in 0 .. Digits - 1 PROVE j - k \in t <=> j \in x /\ j >= k
        <3>1. CASE j >= k
            <4>1. j - k \in 0 .. CHAR_BIT - 1 /\ (j - k) + k = j
                BY <1>1, <3>1
            <4> HIDE DEF k, t, x
            <4> QED
                BY <1>2, <3>1, <4>1
        <3>2. CASE ~(j >= k)
            <4>1. j - k \notin 0 .. CHAR_BIT - 1
                BY <1>1, <3>2
            <4> HIDE DEF k, t, x
            <4> QED
                BY <2>2, <3>2, <4>1
        <3> QED
            BY <3>1, <3>2
    <2> HIDE DEF k, t, x, top
    <2> QED
        BY <2>1, <2>3
<1>5. x = Xor(top, rest)
    <2>1. top \subseteq x
        <3> HIDE DEF x, top
        <3> QED
            BY <1>3, <1>4 DEF Word
    <2> HIDE DEF x, top
    <2> QED
        BY <2>1 DEF Xor
<1>6. \A n \in 0 .. CHAR_BIT - 1 : CRCWidth - 1 \notin ShiftLeft(rest, n)
    <2> SUFFICES ASSUME NEW n \in 0 .. CHAR_BIT - 1 PROVE CRCWidth - 1 - n \notin rest
        BY DEF ShiftLeft
    <2>1. CRCWidth - 1 - n \in 0 .. Digits - 1 /\ CRCWidth - 1 - n >= k
        BY <1>1
    <2> HIDE DEF k, x, top
    <2> QED
        BY <1>4, <2>1
<1>7. ShiftLeft(rest, CHAR_BIT) = ShiftLeft(r, CHAR_BIT)
    <2>1. ASSUME NEW i \in 0 .. Digits - 1
          PROVE  i - CHAR_BIT \in rest <=> i - CHAR_BIT \in r
        <3> DEFINE j == i - CHAR_BIT
        <3>1. j \in Int /\ j < k
            BY <1>1
        <3>2. j \notin ShiftLeft(b, k)
            <4>1. j - k \notin 0 .. CHAR_BIT - 1
                BY <1>1, <3>1
            <4> QED
                BY <4>1 DEF ShiftLeft, Byte
        <3>3. j \in x <=> j \in r
            BY <3>2 DEF Xor
        <3>4. j \notin top
            <4>1. j - k \notin 0 .. CHAR_BIT - 1
                BY <1>1, <3>1
            <4>2. t \subseteq 0 .. CHAR_BIT - 1
                BY <1>3 DEF Byte
            <4> HIDE DEF j, k, t
            <4> QED
                BY <4>1, <4>2 DEF ShiftLeft
        <3> HIDE DEF j, x, top
        <3>5. j \in rest <=> j \in r
            BY <3>3, <3>4
        <3> QED
            BY <3>5 DEF j
    <2> HIDE DEF rest
    <2> QED
        BY <2>1 DEF ShiftLeft
<1>8. BitStep(p) = ForwardStep(p)
    BY DEF BitStep
<1>9. PICK run \in [0 .. CHAR_BIT -> Word] :
          /\ run[0] = x
          /\ \A n \in 1 .. CHAR_BIT : run[n] = ForwardStep(p)[run[n - 1]]
          /\ RemainderOfByte(b, p)[r] = run[CHAR_BIT]
    BY <1>8, ByteRun DEF FirstOfByte
<1>10. PICK part \in [0 .. CHAR_BIT -> Word] :
          /\ part[0] = top
          /\ \A n \in 1 .. CHAR_BIT : part[n] = ForwardStep(p)[part[n - 1]]
          /\ RemainderOfByte(t, p)[{}] = part[CHAR_BIT]
    <2>1. FirstOfByte(t, p, {}) = top
        BY XorMoves DEF FirstOfByte
    <2> HIDE DEF t, top
    <2> QED
        BY <1>3, <1>8, <2>1, ByteRun
<1>11. TableRemainderOfByte(b, p, Table(p))[r] = Xor(ShiftLeft(r, CHAR_BIT), Table(p)[t])
    BY DEF TableRemainderOfByte
<1>12. Table(p)[t] = Masked(RemainderOfByte(t, p)[{}])
    <2> HIDE DEF t
    <2> QED
        BY <1>3 DEF Table
<1> HIDE DEF x, t, top, rest
<1>13. run[CHAR_BIT] = Xor(part[CHAR_BIT], ShiftLeft(rest, CHAR_BIT))
    <2> DEFINE S == {n \in Nat : n <= CHAR_BIT => run[n] = Xor(part[n], ShiftLeft(rest, n))}
    <2>1. 0 \in S
        BY <1>3, <1>5, <1>9, <1>10, ShiftsByZero
    <2>2. ASSUME NEW n \in Nat, n \in S PROVE n + 1 \in S
        <3> SUFFICES ASSUME n + 1 <= CHAR_BIT
                     PROVE  run[n + 1] = Xor(part[n + 1], ShiftLeft(rest, n + 1))
            OBVIOUS
        <3>1. /\ n \in 0 .. CHAR_BIT /\ n \in 0 .. CHAR_BIT - 1 /\ n + 1 \in 1 .. CHAR_BIT
              /\ (n + 1) - 1 = n
            BY <1>1
        <3>2. run[n] = Xor(part[n], ShiftLeft(rest, n))
            BY <2>2, <3>1
        <3>3. /\ run[n + 1] = ForwardStep(p)[run[n]]
              /\ part[n + 1] = ForwardStep(p)[part[n]]
            BY <1>9, <1>10, <3>1
        <3>4. part[n] \in Word /\ ShiftLeft(rest, n) \in Word
            BY <1>10, <3>1, WordsStayWords
        <3>5. CRCWidth - 1 \notin ShiftLeft(rest, n)
            BY <1>6, <3>1
        <3>6. ForwardStep(p)[Xor(part[n], ShiftLeft(rest, n))] =
                  Xor(ForwardStep(p)[part[n]], ShiftLeft(ShiftLeft(rest, n), 1))
            BY <3>4, <3>5, ForwardStepSplits
        <3>7. ShiftLeft(ShiftLeft(rest, n), 1) = ShiftLeft(rest, n + 1)
            BY <1>3, ShiftsAdd
        <3> QED
            BY <3>2, <3>3, <3>6, <3>7
    <2>3. \A n \in Nat : n \in S
        <3> HIDE DEF S
        <3>1. \A n \in Nat : n \in S => n + 1 \in S
            BY <2>2
        <3> QED
            BY <2>1, <3>1, SetInduction
    <2> QED
        BY <1>1, <2>3
<1>14. Masked(part[CHAR_BIT]) = part[CHAR_BIT]
    <2>1. part[CHAR_BIT] \in Word
        BY <1>1, <1>10
    <2> QED
        BY <2>1, MaskedStays DEF Word
<1> QED
    BY <1>7, <1>9, <1>10, <1>11, <1>12, <1>13, <1>14, XorMoves

(* Over a byte the table does what the bits do.                            *)
LEMMA TableOfByte ==
    ASSUME NEW p \in Parameters, NEW b \in Byte, p.reflectInput \/ CRCWidth = Digits
    PROVE  \A r \in Word : TableRemainderOfByte(b, p, Table(p))[r] = RemainderOfByte(b, p)[r]
BY ReflectedTable, ForwardTable

(* CalculateRemainder with a lookup table computes what it computes bit by *)
(* bit, of any data and from any remainder.                                *)
THEOREM TableGivesTheRemainder ==
    ASSUME NEW p \in Parameters, NEW data \in Seq(Byte), NEW r \in Word,
           p.reflectInput \/ CRCWidth = Digits
    PROVE  TableRemainder(data, p, Table(p), r) = CalculateRemainder(data, p, r)
<1> DEFINE F == ByteMaps(data, p)
           N == Len(data)
           after[n \in 0 .. Len(data)] ==
               IF n = 0 THEN r ELSE TableRemainderOfByte(data[n], p, Table(p))[after[n - 1]]
<1>1. N \in Nat /\ \A n \in 1 .. N : data[n] \in Byte
    OBVIOUS
<1>2. \A n \in 1 .. N : F[n] = RemainderOfByte(data[n], p)
    BY ByteMapsAreMaps
<1>3. TableRemainder(data, p, Table(p), r) = after[Len(data)]
    BY DEF TableRemainder
<1>4. PICK run \in [0 .. N -> Word] :
          /\ IsRun(run, N, r, F)
          /\ CalculateRemainder(data, p, r) = run[N]
    BY DataRun
<1> HIDE DEF F
<1>5. run = [n \in 0 .. N |->
                IF n = 0 THEN r ELSE TableRemainderOfByte(data[n], p, Table(p))[run[n - 1]]]
    <2>1. ASSUME NEW n \in 1 .. N
          PROVE  run[n] = TableRemainderOfByte(data[n], p, Table(p))[run[n - 1]]
        <3>1. run[n - 1] \in Word /\ data[n] \in Byte
            BY <1>1, <1>4
        <3>2. run[n] = RemainderOfByte(data[n], p)[run[n - 1]]
            BY <1>2, <1>4 DEF IsRun
        <3> QED
            BY <3>1, <3>2, TableOfByte
    <2>2. \A n \in 0 .. N : n = 0 \/ n \in 1 .. N
        BY <1>1
    <2> HIDE DEF N
    <2> QED
        BY <1>4, <2>1, <2>2 DEF IsRun
<1>6. after = [n \in 0 .. N |->
                  IF n = 0 THEN r ELSE TableRemainderOfByte(data[n], p, Table(p))[after[n - 1]]]
    BY <1>5
<1> DEFINE G == [n \in 1 .. N |-> TableRemainderOfByte(data[n], p, Table(p))]
<1>7. \A n \in 1 .. N : G[n] = TableRemainderOfByte(data[n], p, Table(p))
    OBVIOUS
<1> HIDE DEF after, N, G
<1>8. IsRun(after, N, r, G)
    BY <1>1, <1>6, <1>7 DEF IsRun
<1>9. IsRun(run, N, r, G)
    BY <1>1, <1>5, <1>7 DEF IsRun
<1>10. after[N] = run[N]
    BY <1>1, <1>8, <1>9, RunUnique
<1> QED
    BY <1>3, <1>4, <1>10 DEF N

LEMMA RemaindersAreWords ==
    ASSUME NEW p \in Parameters, NEW data \in Seq(Byte), NEW r \in Word
    PROVE  CalculateRemainder(data, p, r) \in Word
<1>1. Len(data) \in 0 .. Len(data)
    OBVIOUS
<1> QED
    BY <1>1, DataRun

(* The multi-part computation: appending data to the CRC of what came      *)
(* before, with the table, gives the CRC of all of it at once.             *)
THEOREM AppendContinues ==
    ASSUME NEW p \in Parameters, CRCWidth = Digits,
           NEW s \in Seq(Byte), NEW t \in Seq(Byte)
    PROVE  TableAppend(t, p, Table(p), Calculate(s, p)) = Calculate(s \o t, p)
<1> DEFINE r == CalculateRemainder(s, p, p.initialValue)
<1>1. p.initialValue \in Word /\ p.finalXOR \in Word
    BY DEF Parameters
<1>2. r \in Word
    BY <1>1, RemaindersAreWords
<1>3. UndoFinalize(Calculate(s, p), p) = r
    <2>1. r \in SUBSET (0 .. CRCWidth - 1) /\ p.finalXOR \subseteq 0 .. CRCWidth - 1
        BY <1>1, <1>2 DEF Word
    <2>2. Calculate(s, p) = Finalize(r, p)
        BY DEF Calculate
    <2> HIDE DEF r
    <2> QED
        BY <2>1, <2>2, UndoFinalizeUndoes
<1>4. TableAppend(t, p, Table(p), Calculate(s, p)) = Finalize(TableRemainder(t, p, Table(p), r), p)
    BY <1>3 DEF TableAppend
<1> HIDE DEF r
<1>5. TableRemainder(t, p, Table(p), r) = CalculateRemainder(t, p, r)
    BY <1>2, TableGivesTheRemainder
<1>6. CalculateRemainder(t, p, r) = CalculateRemainder(s \o t, p, p.initialValue)
    BY <1>1, RemainderOfConcat DEF r
<1> QED
    BY <1>4, <1>5, <1>6 DEF Calculate

(* Of no data at all, a CRC-32 is 0.                                       *)
LEMMA CrcOfNothing ==
    ASSUME CRCWidth = Digits, CRC_32 \in Parameters
    PROVE  Calculate(<<>>, CRC_32) = {}
<1>1. CRC_32.finalXOR = Ones /\ CRC_32.initialValue = Ones
      /\ CRC_32.reflectInput = CRC_32.reflectOutput
    BY DEF CRC_32
<1>2. CRC_32.initialValue \in Word /\ <<>> \in Seq(Byte) /\ Len(<<>>) = 0
    BY DEF Parameters
<1>3. PICK run \in [0 .. Len(<<>>) -> Word] :
          /\ IsRun(run, Len(<<>>), CRC_32.initialValue, ByteMaps(<<>>, CRC_32))
          /\ CalculateRemainder(<<>>, CRC_32, CRC_32.initialValue) = run[Len(<<>>)]
    <2> HIDE DEF CRC_32
    <2> QED
        BY <1>2, DataRun
<1>4. CalculateRemainder(<<>>, CRC_32, CRC_32.initialValue) = Ones
    BY <1>1, <1>2, <1>3 DEF IsRun
<1>5. Calculate(<<>>, CRC_32) = Finalize(Ones, CRC_32)
    BY <1>1, <1>4 DEF Calculate
<1>6. Finalize(Ones, CRC_32) = Masked(Xor(Ones, Ones))
    BY <1>1 DEF Finalize
<1>7. Masked(Xor(Ones, Ones)) = {}
    BY DEF Xor, Masked
<1> QED
    BY <1>5, <1>6, <1>7
=============================================================================
